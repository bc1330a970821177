--------------------------------- MODULE LockState ---------------------------------
(***************************************************************************)
(* What a lock and an unlock mean outside the session: the icon of the     *)
(* toolbar, the pages that are open, a user who leaves and a machine that  *)
(* sleeps.                                                                 *)
(*                                                                         *)
(* Source: background/index.ts, message-bus.ts, sleep-watchdog.ts and      *)
(* config/vault-config.ts of packages/web, and the popup, Options and the  *)
(* manager.  A message and its answer are one step, as answers and notices *)
(* reach a page in the order they are sent; what a page or the background  *)
(* awaits besides is a step of its own.                                    *)
(***************************************************************************)
EXTENDS Integers, Sequences, SequencesExt, FiniteSets

CONSTANTS
    Threshold,      \* periods without a check after which the machine has slept
    MaxTime,        \* bound: periods
    MaxUpdates,     \* bound: icon updates under way
    MaxActs         \* bound: what users do

VARIABLES
    status,         \* "locked" or "unlocked"
    configured,     \* a vault is configured
    icon,           \* "gray" or "color"
    updates,        \* calls of updateToolbarIcon under way
    page,           \* of each page: what it awaits and what it shows
    notices,        \* pages that VAULT_LOCKED is on its way to
    user, event,    \* the state of the user, and the one the listener is not told of yet
    now, last,      \* the clock and the watchdog's last check, in periods
    acts,
    left, slept     \* history: no unlock has ended since the user left, the machine slept

vars == <<status, configured, icon, updates, page, notices, user, event, now, last, acts, left, slept>>

Windows == {"popup", "options", "manager"}
Listening == {"options", "manager"}
Opened == [pc |-> "status", shows |-> "nothing"]
Shut == [pc |-> "closed", shows |-> "nothing"]

Init ==
    /\ status = "locked" /\ configured \in BOOLEAN /\ icon = "gray"
    /\ updates = <<>> /\ notices = {}
    /\ page = [p \in Windows |-> Shut]
    /\ user = "active" /\ event = "none"
    /\ now = 0 /\ last = 0 /\ acts = 0 /\ left = FALSE /\ slept = FALSE

World == <<user, event, now, last>>
Acts == acts < MaxActs /\ acts' = acts + 1

----------------------------------------------------------------------------
(* The background.                                                         *)

\* If the status were read before the configured vault.
EarlyUpdate(locks, s) == [pc |-> "config", configured |-> FALSE, locks |-> locks, status |-> s]
Update(locks, s) == [pc |-> "config", configured |-> FALSE, locks |-> locks, status |-> "unread"]
Room == Len(updates) < MaxUpdates

\* lockVaultAndNotify: the session first; the notice when the icon is set.
Quiet(s) == updates' = Append(updates, Update(FALSE, s))
Telling(s) == updates' = Append(updates, Update(TRUE, s))
LockVaultAndNotify == status' = "locked" /\ Telling("locked")

\* updateToolbarIcon.
ReadConfigured(i) ==
    /\ updates[i].pc = "config"
    /\ updates' = [updates EXCEPT ![i].pc = "set", ![i].configured = configured]
    /\ UNCHANGED <<status, configured, icon, page, notices, World, acts, left, slept>>
StatusOf(u) == IF u.status = "unread" THEN status ELSE u.status
SetIcon(i) ==
    LET u == updates[i]
    IN  /\ u.pc = "set"
        /\ icon' = IF u.configured /\ StatusOf(u) = "unlocked" THEN "color" ELSE "gray"
        /\ updates' = IF u.locks THEN [updates EXCEPT ![i].pc = "notify"] ELSE RemoveAt(updates, i)
        /\ UNCHANGED <<status, configured, page, notices, World, acts, left, slept>>
\* broadcastVaultLocked, and the answer to the page that asked for the lock.
Broadcast(i) ==
    /\ updates[i].pc = "notify"
    /\ updates' = RemoveAt(updates, i)
    /\ notices' = notices \cup {p \in Listening : page[p].pc \notin {"closed", "orphan"}}
    /\ page' = [p \in Windows |-> IF page[p].pc = "locking" THEN [page[p] EXCEPT !.pc = "status"]
                                ELSE IF page[p].pc = "disconnecting" THEN [page[p] EXCEPT !.pc = "clearing"]
                                ELSE page[p]]
    /\ UNCHANGED <<status, configured, icon, World, acts, left, slept>>

\* The listeners of the user's state and of the watchdog's alarm.
IdleOnly(s) == s = "idle"
Away(s) == s \in {"idle", "locked"}
OnStateChanged ==
    /\ event # "none" /\ Room
    /\ event' = "none"
    /\ IF Away(event) /\ status = "unlocked" THEN LockVaultAndNotify ELSE UNCHANGED <<status, updates>>
    /\ UNCHANGED <<configured, icon, page, notices, user, now, last, acts, left, slept>>
CheckForGap ==
    /\ last < now /\ Room
    /\ last' = now
    /\ IF now - last > Threshold /\ status = "unlocked" THEN LockVaultAndNotify ELSE UNCHANGED <<status, updates>>
    /\ UNCHANGED <<configured, icon, page, notices, user, event, now, acts, left, slept>>

----------------------------------------------------------------------------
(* The pages.                                                              *)

Shows(p, what) == page' = [page EXCEPT ![p] = [pc |-> "ready", shows |-> what]]
Awaits(p, pc) == page' = [page EXCEPT ![p].pc = pc]
OnlyPages == UNCHANGED <<status, configured, icon, updates, notices, World, acts, left, slept>>

Open(p) ==
    /\ page[p].pc = "closed" /\ Acts
    /\ page' = [page EXCEPT ![p] = Opened]
    /\ UNCHANGED <<status, configured, icon, updates, notices, World, left, slept>>
\* An unlock that a page asked for goes on without it.
Close(p) ==
    /\ page[p].pc \notin {"closed", "orphan"}
    /\ page' = [page EXCEPT ![p] = IF page[p].pc = "unlocking" THEN [Shut EXCEPT !.pc = "orphan"] ELSE Shut]
    /\ notices' = notices \ {p}
    /\ UNCHANGED <<status, configured, icon, updates, World, acts, left, slept>>

\* refresh of the popup and of Options, init of the manager: GET_STATUS.
GetStatus(p) ==
    /\ page[p].pc = "status"
    /\ IF p = "popup" /\ ~configured THEN Shows(p, "no vault")
       ELSE IF status # "unlocked" THEN Shows(p, "locked")
       ELSE IF p = "options" THEN Shows(p, "unlocked")
       ELSE Awaits(p, "entries")
    /\ OnlyPages
\* LIST_ENTRIES and GET_GROUP_TREE answer an error when the vault is locked.
ListEntries(p) ==
    /\ page[p].pc = "entries"
    /\ IF status = "unlocked" THEN Awaits(p, "showing")
       ELSE Shows(p, IF p = "manager" /\ configured THEN "locked" ELSE "error")
    /\ OnlyPages
\* The rest of loadEntries and reloadTree.
Show(p) == page[p].pc = "showing" /\ Shows(p, "unlocked") /\ OnlyPages

\* The notice: Options shows its form, the manager leaves for Options.
VaultLocked(p) ==
    /\ p \in notices
    /\ notices' = notices \ {p}
    /\ page' = [page EXCEPT ![p] = IF p = "manager" THEN Shut ELSE [@ EXCEPT !.shows = "locked"]]
    /\ UNCHANGED <<status, configured, icon, updates, World, acts, left, slept>>

Unlock(p) ==
    /\ p \in {"popup", "options"} /\ page[p].pc = "ready" /\ page[p].shows = "locked" /\ configured /\ Acts
    /\ Awaits(p, "unlocking")
    /\ UNCHANGED <<status, configured, icon, updates, notices, World, left, slept>>
\* UNLOCK_VAULT: the popup loads the entries at once, Options asks for the status.
Unlocked(p) ==
    /\ page[p].pc \in {"unlocking", "orphan"} /\ Room
    /\ status' = "unlocked" /\ updates' = Append(updates, Update(FALSE, "unlocked"))
    /\ Awaits(p, IF page[p].pc = "orphan" THEN "closed" ELSE IF p = "popup" THEN "entries" ELSE "status")
    /\ left' = FALSE /\ slept' = FALSE
    /\ UNCHANGED <<configured, icon, notices, World, acts>>
NotUnlocked(p) ==
    /\ page[p].pc \in {"unlocking", "orphan"}
    /\ IF page[p].pc = "orphan" THEN page' = [page EXCEPT ![p] = Shut] ELSE Shows(p, "locked")
    /\ OnlyPages

\* LOCK_VAULT, from handleLock and handleDisconnect.
AskLock(p, pc) ==
    /\ page[p].pc = "ready" /\ page[p].shows \in {"unlocked", "locked"} /\ Room /\ Acts
    /\ LockVaultAndNotify
    /\ Awaits(p, pc)
    /\ UNCHANGED <<configured, icon, notices, World, left, slept>>
Lock(p) == page[p].shows = "unlocked" /\ AskLock(p, "locking")
Disconnect(p) == p # "options" /\ AskLock(p, "disconnecting")
ClearConfiguredVault(p) ==
    /\ page[p].pc = "clearing"
    /\ configured' = FALSE
    /\ Awaits(p, "status")
    /\ UNCHANGED <<status, icon, updates, notices, World, acts, left, slept>>
SetConfiguredVault ==
    /\ page["options"].pc = "ready" /\ ~configured /\ Acts
    /\ configured' = TRUE
    /\ UNCHANGED <<status, icon, updates, page, notices, World, left, slept>>

----------------------------------------------------------------------------
(* The user and the machine.                                               *)

Leave(s) ==
    /\ user \in {"active", "idle"} /\ s # user /\ event = "none" /\ Acts
    /\ user' = s /\ event' = s /\ left' = (left \/ user = "active")
    /\ UNCHANGED <<status, configured, icon, updates, page, notices, now, last, slept>>
Return ==
    /\ user # "active" /\ event = "none"
    /\ user' = "active" /\ event' = "active" /\ left' = FALSE
    /\ UNCHANGED <<status, configured, icon, updates, page, notices, now, last, acts, slept>>
Tick == now = last /\ now < MaxTime /\ now' = now + 1
        /\ UNCHANGED <<status, configured, icon, updates, page, notices, user, event, last, acts, left, slept>>
Sleep(n) ==
    /\ now + n <= MaxTime /\ Acts
    /\ now' = now + n
    /\ slept' = (slept \/ n > Threshold)
    /\ UNCHANGED <<status, configured, icon, updates, page, notices, user, event, last, left>>

Next ==
    \/ \E i \in DOMAIN updates : ReadConfigured(i) \/ SetIcon(i) \/ Broadcast(i)
    \/ OnStateChanged \/ CheckForGap
    \/ \E p \in Windows : \/ Open(p) \/ Close(p) \/ GetStatus(p) \/ ListEntries(p) \/ Show(p) \/ VaultLocked(p)
                        \/ Unlock(p) \/ Unlocked(p) \/ NotUnlocked(p)
                        \/ Lock(p) \/ Disconnect(p) \/ ClearConfiguredVault(p)
    \/ SetConfiguredVault
    \/ Return \/ Tick \/ (\E s \in {"idle", "locked"} : Leave(s)) \/ (\E n \in 2..MaxTime : Sleep(n))

Spec == Init /\ [][Next]_vars

----------------------------------------------------------------------------
(* Properties.                                                             *)

TypeOK ==
    /\ status \in {"locked", "unlocked"} /\ icon \in {"gray", "color"}
    /\ Len(updates) <= MaxUpdates /\ notices \subseteq Listening
    /\ user \in {"active", "idle", "locked"} /\ last <= now

\* Once its updates are done, the icon is coloured only for an open vault, however locks
\* and unlocks overlapped.
IconTrue == updates = <<>> /\ icon = "color" => status = "unlocked"

\* Options and the manager show an open vault only when it is open or the notice that it
\* was locked is under way.
ShownOpen ==
    \A p \in Listening :
        page[p].shows = "unlocked" /\ status = "locked" =>
            p \in notices \/ \E i \in DOMAIN updates : updates[i].locks

\* The vault of a user who left, or of a machine that slept, is locked as soon as the
\* background hears of it, until an unlock ends after that.
LockedWhenGone ==
    /\ left /\ user # "active" /\ event = "none" => status = "locked"
    /\ slept /\ last = now => status = "locked"
=============================================================================
