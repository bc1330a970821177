---------------------------- MODULE LockStateProofs ----------------------------
(***************************************************************************)
(* Proofs about LockState, for any threshold and any number of updates,    *)
(* acts and periods.  The invariant follows a lock on its way: an update   *)
(* of the icon is pending while the icon is stale (Coloured), the notice   *)
(* is pending while a page shows too much (Notified), and a user who left  *)
(* or a gap in time is pending while the vault is open (Gone).             *)
(***************************************************************************)
EXTENDS LockState, SequenceTheorems, TLAPS

Updates == [pc : {"config", "set", "notify"}, configured : BOOLEAN, locks : BOOLEAN, status : {"unread"}]
Pages == [pc : {"closed", "orphan", "status", "entries", "showing", "ready", "unlocking",
                "locking", "disconnecting", "clearing"},
          shows : {"nothing", "no vault", "locked", "unlocked", "error"}]

Types ==
    /\ status \in {"locked", "unlocked"}
    /\ updates \in Seq(Updates)
    /\ \A i \in DOMAIN updates : updates[i].pc = "notify" => updates[i].locks
    /\ page \in [Windows -> Pages]
    /\ notices \subseteq Listening
    /\ configured \in BOOLEAN
    /\ user \in {"active", "idle", "locked"}
    /\ event \in {"none", user}
    /\ now \in Nat /\ last \in Nat /\ last <= now

\* A page that is gone shows nothing and is sent no notice; Options shows no entries.
PagesOK ==
    /\ \A p \in Windows : page[p].pc \in {"closed", "orphan"} => page[p].shows = "nothing"
    /\ page["options"].pc \notin {"entries", "showing"}
    /\ \A p \in notices : page[p].pc \notin {"closed", "orphan"}

Coloured == status = "locked" /\ icon = "color" =>
    \E i \in DOMAIN updates : updates[i].pc \in {"config", "set"}

\* Manager and Options, and the manager while it is about to show the vault.
ShowsOpen(p) == page[p].shows = "unlocked" \/ page[p].pc = "showing"
Notified == \A p \in Listening : ShowsOpen(p) /\ status = "locked" =>
    p \in notices \/ \E i \in DOMAIN updates : updates[i].locks

Gone ==
    /\ left /\ user # "active" => status = "locked" \/ event = user
    /\ slept => status = "locked" \/ now - last > Threshold

LInv == Types /\ PagesOK /\ Coloured /\ Notified /\ Gone

----------------------------------------------------------------------------
(* The list of updates.                                                    *)

LEMMA Removed ==
    ASSUME NEW S, NEW s \in Seq(S), NEW i \in DOMAIN s
    PROVE  /\ RemoveAt(s, i) \in Seq(S)
           /\ \A j \in DOMAIN RemoveAt(s, i) : \E k \in DOMAIN s : RemoveAt(s, i)[j] = s[k]
           /\ \A k \in DOMAIN s : k # i => \E j \in DOMAIN RemoveAt(s, i) : RemoveAt(s, i)[j] = s[k]
<1>1. /\ Len(s) \in Nat /\ DOMAIN s = 1..Len(s) /\ i \in 1..Len(s)
    OBVIOUS
<1>2. /\ RemoveAt(s, i) \in Seq(S)
      /\ Len(RemoveAt(s, i)) = Len(s) - 1
      /\ \A j \in 1..(Len(s) - 1) : RemoveAt(s, i)[j] = IF j < i THEN s[j] ELSE s[j + 1]
    <2> DEFINE before == SubSeq(s, 1, i - 1)
               after == SubSeq(s, i + 1, Len(s))
    <2>1. /\ before \in Seq(S) /\ Len(before) = i - 1
          /\ \A j \in 1..(i - 1) : before[j] = s[j]
        BY <1>1
    <2>2. /\ after \in Seq(S) /\ Len(after) = Len(s) - i
          /\ \A j \in 1..(Len(s) - i) : after[j] = s[i + j]
        BY <1>1
    <2>3. RemoveAt(s, i) = before \o after
        BY DEF RemoveAt
    <2> HIDE DEF before, after
    <2>4. /\ before \o after \in Seq(S) /\ Len(before \o after) = Len(s) - 1
          /\ \A j \in 1..(Len(s) - 1) : (before \o after)[j] = IF j < i THEN before[j] ELSE after[j - (i - 1)]
        <3>1. /\ before \o after \in Seq(S) /\ Len(before \o after) = Len(before) + Len(after)
              /\ \A j \in 1..Len(before) + Len(after) : (before \o after)[j] =
                   IF j <= Len(before) THEN before[j] ELSE after[j - Len(before)]
            BY <2>1, <2>2, ConcatProperties
        <3>2. Len(before) + Len(after) = Len(s) - 1
            BY <1>1, <2>1, <2>2
        <3>3. \A j \in 1..(Len(s) - 1) : j <= Len(before) <=> j < i
            BY <1>1, <2>1
        <3> QED
            BY <2>1, <3>1, <3>2, <3>3
    <2>5. ASSUME NEW j \in 1..(Len(s) - 1), ~(j < i)
          PROVE  after[j - (i - 1)] = s[j + 1]
        BY <1>1, <2>2, <2>5
    <2> QED
        BY <1>1, <2>1, <2>3, <2>4, <2>5
<1>3. DOMAIN RemoveAt(s, i) = 1..(Len(s) - 1)
    BY <1>2
<1>4. ASSUME NEW j \in DOMAIN RemoveAt(s, i)
      PROVE  \E k \in DOMAIN s : RemoveAt(s, i)[j] = s[k]
    <2>1. CASE j < i
        BY <1>1, <1>2, <1>3, <2>1
    <2>2. CASE ~(j < i)
        <3>1. j + 1 \in DOMAIN s
            BY <1>1, <1>3
        <3> QED
            BY <1>2, <1>3, <2>2, <3>1
    <2> QED
        BY <2>1, <2>2
<1>5. ASSUME NEW k \in DOMAIN s, k # i
      PROVE  \E j \in DOMAIN RemoveAt(s, i) : RemoveAt(s, i)[j] = s[k]
    <2>1. CASE k < i
        <3>1. k \in DOMAIN RemoveAt(s, i)
            BY <1>1, <1>3, <2>1
        <3> QED
            BY <1>2, <1>3, <2>1, <3>1
    <2>2. CASE k > i
        <3>1. k - 1 \in DOMAIN RemoveAt(s, i) /\ ~(k - 1 < i) /\ (k - 1) + 1 = k
            BY <1>1, <1>3, <2>2
        <3> QED
            BY <1>2, <1>3, <3>1
    <2> QED
        BY <1>1, <1>5, <2>1, <2>2
<1> QED
    BY <1>2, <1>4, <1>5

LEMMA UpdateTypes ==
    ASSUME NEW locks \in BOOLEAN, NEW s
    PROVE  /\ Update(locks, s) \in Updates /\ Update(locks, s).pc = "config"
           /\ Update(locks, s).locks = locks
BY DEF Update, Updates

\* An update of the list after it: that of before, or the new one.
LEMMA Queued ==
    ASSUME Types, NEW locks \in BOOLEAN, NEW s, updates' = Append(updates, Update(locks, s))
    PROVE  /\ updates' \in Seq(Updates)
           /\ DOMAIN updates \subseteq DOMAIN updates'
           /\ \A i \in DOMAIN updates' : updates'[i].pc = "notify" => updates'[i].locks
           /\ \A i \in DOMAIN updates : updates'[i] = updates[i]
           /\ \E i \in DOMAIN updates' : updates'[i].pc = "config" /\ updates'[i].locks = locks
<1>1. updates \in Seq(Updates) /\ Update(locks, s) \in Updates
    BY UpdateTypes DEF Types
<1>2. /\ updates' \in Seq(Updates) /\ Len(updates') = Len(updates) + 1
      /\ \A i \in 1..Len(updates) : updates'[i] = updates[i]
      /\ updates'[Len(updates) + 1] = Update(locks, s)
    BY <1>1
<1>3. DOMAIN updates = 1..Len(updates) /\ DOMAIN updates' = 1..(Len(updates) + 1) /\ Len(updates) \in Nat
    BY <1>1, <1>2
<1> QED
    BY <1>2, <1>3, UpdateTypes DEF Types

LEMMA Dequeued ==
    ASSUME Types, NEW i \in DOMAIN updates, updates' = RemoveAt(updates, i)
    PROVE  /\ updates' \in Seq(Updates)
           /\ \A j \in DOMAIN updates' : updates'[j].pc = "notify" => updates'[j].locks
           /\ \A k \in DOMAIN updates : k # i => \E j \in DOMAIN updates' : updates'[j] = updates[k]
<1>1. updates \in Seq(Updates)
    BY DEF Types
<1> QED
    BY <1>1, Removed DEF Types

\* A page after Shows and after Awaits.
Rest(p) == \A q \in Windows \ {p} : page'[q] = page[q]

LEMMA ShowsPage ==
    ASSUME Types, NEW p \in Windows, NEW what \in {"nothing", "no vault", "locked", "unlocked", "error"},
           Shows(p, what)
    PROVE  page' \in [Windows -> Pages] /\ Rest(p) /\ page'[p].pc = "ready" /\ page'[p].shows = what
BY DEF Shows, Types, Pages, Rest

LEMMA AwaitsPage ==
    ASSUME Types, NEW p \in Windows, NEW pc \in {"closed", "orphan", "status", "entries", "showing",
               "ready", "unlocking", "locking", "disconnecting", "clearing"}, Awaits(p, pc)
    PROVE  /\ page' \in [Windows -> Pages] /\ Rest(p)
           /\ page'[p].pc = pc /\ page'[p].shows = page[p].shows
<1>1. page \in [Windows -> Pages] /\ page[p] \in Pages
    BY DEF Types
<1>2. [page[p] EXCEPT !.pc = pc] \in Pages
    BY <1>1 DEF Pages
<1>3. page'[p] = [page[p] EXCEPT !.pc = pc] /\ page' = [page EXCEPT ![p] = [page[p] EXCEPT !.pc = pc]]
    BY <1>1 DEF Awaits
<1> QED
    BY <1>1, <1>2, <1>3 DEF Rest, Pages

----------------------------------------------------------------------------
(* Types.                                                                  *)

UpdatesOK == updates \in Seq(Updates) /\ \A i \in DOMAIN updates : updates[i].pc = "notify" => updates[i].locks
PagesTyped == page \in [Windows -> Pages] /\ PagesOK
TimesOK == now \in Nat /\ last \in Nat /\ last <= now
UserOK == user \in {"active", "idle", "locked"} /\ event \in {"none", user}
Others == status \in {"locked", "unlocked"} /\ notices \subseteq Listening /\ configured \in BOOLEAN

LEMMA TypesParts == Types /\ PagesOK <=> UpdatesOK /\ PagesTyped /\ TimesOK /\ UserOK /\ Others
BY DEF Types, UpdatesOK, PagesTyped, TimesOK, UserOK, Others

LEMMA UpdatesStep ==
    ASSUME Types, [Next]_vars
    PROVE  UpdatesOK'
<1> USE DEF UpdatesOK
<1>0. UpdatesOK
    BY DEF Types
<1>1. ASSUME NEW i \in DOMAIN updates, ReadConfigured(i)
      PROVE  UpdatesOK'
    <2>1. updates[i] \in Updates
        BY <1>0
    <2>2. [updates[i] EXCEPT !.pc = "set", !.configured = configured] \in Updates
        BY <2>1 DEF Updates, Types
    <2>3. updates' = [updates EXCEPT ![i] = [updates[i] EXCEPT !.pc = "set", !.configured = configured]]
        BY <1>0, <1>1 DEF ReadConfigured
    <2>4. [updates[i] EXCEPT !.pc = "set", !.configured = configured].pc = "set"
        BY <2>1 DEF Updates
    <2> QED
        BY <1>0, <2>2, <2>3, <2>4
<1>2. ASSUME NEW i \in DOMAIN updates, SetIcon(i)
      PROVE  UpdatesOK'
    <2>1. CASE updates[i].locks
        <3>1. updates[i] \in Updates
            BY <1>0
        <3>2. /\ [updates[i] EXCEPT !.pc = "notify"] \in Updates
              /\ [updates[i] EXCEPT !.pc = "notify"].locks = updates[i].locks
            BY <3>1 DEF Updates
        <3>3. updates' = [updates EXCEPT ![i] = [updates[i] EXCEPT !.pc = "notify"]]
            BY <1>2, <2>1 DEF SetIcon
        <3> QED
            BY <1>0, <2>1, <3>2, <3>3
    <2>2. CASE ~updates[i].locks
        <3>1. updates' = RemoveAt(updates, i)
            BY <1>2, <2>2 DEF SetIcon
        <3> QED
            BY <3>1, Dequeued
    <2> QED
        BY <2>1, <2>2
<1>3. ASSUME NEW i \in DOMAIN updates, Broadcast(i)
      PROVE  UpdatesOK'
    BY <1>3, Dequeued DEF Broadcast
<1>4. ASSUME UNCHANGED updates \/ LockVaultAndNotify \/ updates' = Append(updates, Update(FALSE, "unlocked"))
      PROVE  UpdatesOK'
    BY <1>0, <1>4, Queued DEF LockVaultAndNotify, Telling
<1>5. ASSUME NEW p \in Windows, \/ Open(p) \/ Close(p) \/ GetStatus(p) \/ ListEntries(p) \/ Show(p)
                               \/ VaultLocked(p) \/ Unlock(p) \/ NotUnlocked(p) \/ ClearConfiguredVault(p)
      PROVE  UNCHANGED updates
    BY <1>5 DEF Open, Close, GetStatus, ListEntries, Show, VaultLocked, Unlock, NotUnlocked,
                ClearConfiguredVault, OnlyPages
<1>6. ASSUME NEW p \in Windows, \/ Unlocked(p) \/ Lock(p) \/ Disconnect(p)
      PROVE  LockVaultAndNotify \/ updates' = Append(updates, Update(FALSE, "unlocked"))
    BY <1>6 DEF Unlocked, Lock, Disconnect, AskLock
<1>7. ASSUME OnStateChanged \/ CheckForGap
      PROVE  UNCHANGED updates \/ LockVaultAndNotify
    BY <1>7 DEF OnStateChanged, CheckForGap
<1>8. ASSUME \/ SetConfiguredVault \/ Return \/ Tick \/ (\E s \in {"idle", "locked"} : Leave(s))
             \/ (\E n \in 2..MaxTime : Sleep(n)) \/ UNCHANGED vars
      PROVE  UNCHANGED updates
    BY <1>8 DEF SetConfiguredVault, Return, Tick, Leave, Sleep, vars
<1> QED
    BY <1>1, <1>2, <1>3, <1>4, <1>5, <1>6, <1>7, <1>8 DEF Next

LEMMA PagesStep ==
    ASSUME Types, PagesOK, [Next]_vars
    PROVE  PagesTyped'
<1> USE DEF PagesTyped
<1>0. page \in [Windows -> Pages] /\ "options" \in Windows /\ notices \subseteq Windows
    BY DEF Types, Windows, Listening
<1>1. Opened \in Pages /\ Shut \in Pages /\ Shut.shows = "nothing" /\ Opened.pc = "status"
    BY DEF Opened, Shut, Pages
<1>2. ASSUME NEW p \in Windows, NEW what \in {"nothing", "no vault", "locked", "unlocked", "error"},
             Shows(p, what), UNCHANGED notices
      PROVE  PagesTyped'
    <2>1. page' \in [Windows -> Pages] /\ Rest(p) /\ page'[p].pc = "ready"
        BY <1>2, ShowsPage
    <2> QED
        BY <1>0, <1>2, <2>1 DEF PagesOK, Rest
<1>3. ASSUME NEW p \in Windows, NEW pc \in {"status", "entries", "showing", "ready", "unlocking",
                 "locking", "disconnecting", "clearing"},
             Awaits(p, pc), p = "options" => pc \notin {"entries", "showing"},
             UNCHANGED notices, page[p].pc \notin {"closed", "orphan"}
      PROVE  PagesTyped'
    BY <1>0, <1>3, AwaitsPage DEF PagesOK, Rest
<1>4. ASSUME UNCHANGED <<page, notices>>
      PROVE  PagesTyped'
    BY <1>0, <1>4 DEF PagesOK
<1>5. ASSUME NEW p \in Windows, Open(p)
      PROVE  PagesTyped'
    BY <1>0, <1>1, <1>5 DEF Open, PagesOK, Types
<1>6. ASSUME NEW p \in Windows, Close(p)
      PROVE  PagesTyped'
    <2>1. /\ [Shut EXCEPT !.pc = "orphan"] \in Pages
          /\ [Shut EXCEPT !.pc = "orphan"].shows = "nothing" /\ [Shut EXCEPT !.pc = "orphan"].pc = "orphan"
          /\ Shut.pc = "closed"
        BY DEF Shut, Pages
    <2> QED
        BY <1>0, <1>1, <1>6, <2>1 DEF Close, PagesOK, Types, Listening
<1>7. ASSUME NEW p \in Windows, GetStatus(p)
      PROVE  PagesTyped'
    <2>1. \/ \E what \in {"no vault", "locked", "unlocked"} : Shows(p, what)
          \/ Awaits(p, "entries") /\ p # "options"
        BY <1>7 DEF GetStatus
    <2>2. UNCHANGED notices /\ page[p].pc = "status"
        BY <1>7 DEF GetStatus, OnlyPages
    <2> QED
        BY <2>1, <2>2, <1>2, <1>3
<1>8. ASSUME NEW p \in Windows, ListEntries(p)
      PROVE  PagesTyped'
    <2>1. p # "options"
        BY <1>8 DEF ListEntries, PagesOK
    <2>2. (\E what \in {"error", "locked"} : Shows(p, what)) \/ Awaits(p, "showing")
        BY <1>8 DEF ListEntries
    <2>3. UNCHANGED notices /\ page[p].pc = "entries"
        BY <1>8 DEF ListEntries, OnlyPages
    <2> QED
        BY <2>1, <2>2, <2>3, <1>2, <1>3
<1>9. ASSUME NEW p \in Windows, Show(p)
      PROVE  PagesTyped'
    BY <1>9, <1>2 DEF Show, OnlyPages
<1>10. ASSUME NEW p \in Windows, VaultLocked(p)
       PROVE  PagesTyped'
    <2>1. page[p] \in Pages
        BY <1>0
    <2>2. p \in notices /\ notices' = notices \ {p} /\ page[p].pc \notin {"closed", "orphan"}
        BY <1>10 DEF VaultLocked, PagesOK
    <2>3. /\ [page[p] EXCEPT !.shows = "locked"] \in Pages
          /\ [page[p] EXCEPT !.shows = "locked"].pc = page[p].pc
        BY <2>1 DEF Pages
    <2>4. page' = [page EXCEPT ![p] = IF p = "manager" THEN Shut ELSE [page[p] EXCEPT !.shows = "locked"]]
        BY <1>10 DEF VaultLocked
    <2> QED
        BY <1>0, <1>1, <2>2, <2>3, <2>4 DEF PagesOK, Types, Listening
<1>11. ASSUME NEW p \in Windows, Unlock(p)
       PROVE  PagesTyped'
    BY <1>11, <1>3 DEF Unlock
<1>12. ASSUME NEW p \in Windows, Unlocked(p)
       PROVE  PagesTyped'
    <2>1. CASE page[p].pc = "orphan"
        <3>1. Awaits(p, "closed") /\ UNCHANGED notices
            BY <1>12, <2>1 DEF Unlocked
        <3> QED
            BY <1>0, <2>1, <3>1, AwaitsPage DEF PagesOK, Rest
    <2>2. CASE page[p].pc = "unlocking"
        <3>1. UNCHANGED notices /\ (Awaits(p, "status") \/ (p # "options" /\ Awaits(p, "entries")))
            BY <1>12, <2>2 DEF Unlocked
        <3> QED
            BY <2>2, <3>1, <1>3
    <2> QED
        BY <1>12, <2>1, <2>2 DEF Unlocked
<1>13. ASSUME NEW p \in Windows, NotUnlocked(p)
       PROVE  PagesTyped'
    <2>1. CASE page[p].pc = "orphan"
        <3>1. page' = [page EXCEPT ![p] = Shut] /\ UNCHANGED notices
            BY <1>13, <2>1 DEF NotUnlocked, OnlyPages
        <3> QED
            BY <1>0, <1>1, <2>1, <3>1 DEF PagesOK, Types, Listening, Shut
    <2>2. CASE page[p].pc # "orphan"
        <3>1. Shows(p, "locked") /\ UNCHANGED notices
            BY <1>13, <2>2 DEF NotUnlocked, OnlyPages
        <3> QED
            BY <3>1, <1>2
    <2> QED
        BY <2>1, <2>2
<1>14. ASSUME NEW p \in Windows, Lock(p) \/ Disconnect(p)
       PROVE  PagesTyped'
    BY <1>14, <1>3 DEF Lock, Disconnect, AskLock
<1>15. ASSUME NEW p \in Windows, ClearConfiguredVault(p)
       PROVE  PagesTyped'
    BY <1>15, <1>3 DEF ClearConfiguredVault
<1>16. ASSUME NEW i \in DOMAIN updates, Broadcast(i)
       PROVE  PagesTyped'
    <2>1. ASSUME NEW p \in Windows
          PROVE  /\ page'[p] \in Pages /\ page'[p].shows = page[p].shows
                 /\ page'[p].pc \in {page[p].pc, "status", "clearing"}
                 /\ page'[p].pc = page[p].pc \/ page[p].pc \in {"locking", "disconnecting"}
        <3>1. page[p] \in Pages
            BY <1>0
        <3>2. page'[p] \in {page[p], [page[p] EXCEPT !.pc = "status"], [page[p] EXCEPT !.pc = "clearing"]}
              /\ (page'[p] = page[p] \/ page[p].pc \in {"locking", "disconnecting"})
            BY <1>16 DEF Broadcast
        <3> QED
            BY <3>1, <3>2 DEF Pages
    <2>2. page' \in [Windows -> Pages]
        BY <1>16, <2>1 DEF Broadcast
    <2>3. \A p \in notices' : p \in Windows /\ page[p].pc \notin {"closed", "orphan"}
        BY <1>16 DEF Broadcast, PagesOK, Types, Listening, Windows
    <2> QED
        BY <1>0, <2>1, <2>2, <2>3 DEF PagesOK
<1>17. ASSUME \/ \E i \in DOMAIN updates : ReadConfigured(i) \/ SetIcon(i)
              \/ OnStateChanged \/ CheckForGap \/ SetConfiguredVault
              \/ Return \/ Tick \/ (\E s \in {"idle", "locked"} : Leave(s))
              \/ (\E n \in 2..MaxTime : Sleep(n)) \/ UNCHANGED vars
       PROVE  UNCHANGED <<page, notices>>
    BY <1>17 DEF ReadConfigured, SetIcon, OnStateChanged, CheckForGap, SetConfiguredVault, Return, Tick,
                 Leave, Sleep, vars
<1> QED
    BY <1>4, <1>5, <1>6, <1>7, <1>8, <1>9, <1>10, <1>11, <1>12, <1>13, <1>14, <1>15, <1>16, <1>17 DEF Next

LEMMA TypesStep ==
    ASSUME Types, PagesOK, MaxTime \in Nat, [Next]_vars
    PROVE  (Types /\ PagesOK)'
<1>1. UpdatesOK' /\ PagesTyped'
    BY UpdatesStep, PagesStep
<1>2. TimesOK'
    <2>1. ASSUME NEW n \in 2..MaxTime, Sleep(n)
          PROVE  TimesOK'
        BY <2>1 DEF Sleep, Types, TimesOK
    <2>2. ASSUME Tick \/ CheckForGap
          PROVE  TimesOK'
        BY <2>2 DEF Tick, CheckForGap, Types, TimesOK
    <2>3. \/ (\E n \in 2..MaxTime : Sleep(n)) \/ Tick \/ CheckForGap
          \/ UNCHANGED <<now, last>>
        BY DEF Next, ReadConfigured, SetIcon, Broadcast, OnStateChanged, Open, Close, GetStatus, ListEntries,
               Show, VaultLocked, Unlock, Unlocked, NotUnlocked, Lock, Disconnect, AskLock,
               ClearConfiguredVault, SetConfiguredVault, Return, Leave, OnlyPages, World, vars
    <2> QED
        BY <2>1, <2>2, <2>3 DEF Types, TimesOK
<1>3. UserOK'
    <2>1. ASSUME Return \/ (\E s \in {"idle", "locked"} : Leave(s)) \/ OnStateChanged
          PROVE  UserOK'
        BY <2>1 DEF Return, Leave, OnStateChanged, UserOK, Types
    <2>2. \/ Return \/ (\E s \in {"idle", "locked"} : Leave(s)) \/ OnStateChanged
          \/ UNCHANGED <<user, event>>
        BY DEF Next, ReadConfigured, SetIcon, Broadcast, CheckForGap, Open, Close, GetStatus, ListEntries,
               Show, VaultLocked, Unlock, Unlocked, NotUnlocked, Lock, Disconnect, AskLock,
               ClearConfiguredVault, SetConfiguredVault, Tick, Sleep, OnlyPages, World, vars
    <2> QED
        BY <2>1, <2>2 DEF Types, UserOK
<1>4. Others'
    <2>1. status' \in {"locked", "unlocked"}
        BY DEF Next, ReadConfigured, SetIcon, Broadcast, CheckForGap, Open, Close, GetStatus, ListEntries,
               Show, VaultLocked, Unlock, Unlocked, NotUnlocked, Lock, Disconnect, AskLock, OnStateChanged,
               LockVaultAndNotify, ClearConfiguredVault, SetConfiguredVault, Return, Leave, Tick, Sleep,
               OnlyPages, Types, vars
    <2>2. notices' \subseteq Listening
        BY DEF Next, ReadConfigured, SetIcon, Broadcast, CheckForGap, Open, Close, GetStatus, ListEntries,
               Show, VaultLocked, Unlock, Unlocked, NotUnlocked, Lock, Disconnect, AskLock, OnStateChanged,
               ClearConfiguredVault, SetConfiguredVault, Return, Leave, Tick, Sleep, OnlyPages, Types, vars
    <2>3. configured' \in {configured, TRUE, FALSE}
        BY DEF Next, ReadConfigured, SetIcon, Broadcast, CheckForGap, Open, Close, GetStatus, ListEntries,
               Show, VaultLocked, Unlock, Unlocked, NotUnlocked, Lock, Disconnect, AskLock, OnStateChanged,
               ClearConfiguredVault, SetConfiguredVault, Return, Leave, Tick, Sleep, OnlyPages, vars
    <2> QED
        BY <2>1, <2>2, <2>3 DEF Types, Others
<1> QED
    BY <1>1, <1>2, <1>3, <1>4 DEF Types, UpdatesOK, PagesTyped, TimesOK, UserOK, Others

----------------------------------------------------------------------------
(* What a lock leaves behind until it is done.                             *)

LEMMA ColouredStep ==
    ASSUME Types, Coloured, [Next]_vars
    PROVE  Coloured'
<1>1. ASSUME NEW i \in DOMAIN updates, ReadConfigured(i)
      PROVE  Coloured'
    <2>1. updates \in Seq(Updates) /\ updates[i] \in Updates
        BY DEF Types
    <2>2. DOMAIN updates' = DOMAIN updates /\ updates'[i].pc = "set"
        BY <1>1, <2>1 DEF ReadConfigured, Updates
    <2>3. UNCHANGED <<status, icon>>
        BY <1>1 DEF ReadConfigured
    <2> QED
        BY <2>2, <2>3 DEF Coloured
<1>2. ASSUME NEW i \in DOMAIN updates, SetIcon(i)
      PROVE  Coloured'
    <2>1. updates[i].status = "unread" /\ UNCHANGED status
        <3>1. updates \in Seq(Updates) /\ updates[i] \in Updates
            BY DEF Types
        <3> QED
            BY <1>2, <3>1 DEF SetIcon, Updates
    <2> QED
        BY <1>2, <2>1 DEF SetIcon, StatusOf, Coloured
<1>3. ASSUME NEW i \in DOMAIN updates, Broadcast(i)
      PROVE  Coloured'
    <2>1. UNCHANGED <<status, icon>> /\ updates[i].pc = "notify" /\ updates' = RemoveAt(updates, i)
        BY <1>3 DEF Broadcast
    <2> QED
        BY <2>1, Dequeued DEF Coloured
<1>4. ASSUME LockVaultAndNotify
      PROVE  Coloured'
    BY <1>4, Queued DEF LockVaultAndNotify, Telling, Coloured
<1>5. ASSUME NEW p \in Windows, Unlocked(p)
      PROVE  Coloured'
    BY <1>5 DEF Unlocked, Coloured
<1>6. \/ \E i \in DOMAIN updates : ReadConfigured(i) \/ SetIcon(i) \/ Broadcast(i)
      \/ LockVaultAndNotify \/ (\E p \in Windows : Unlocked(p))
      \/ UNCHANGED <<status, icon, updates>>
    BY DEF Next, CheckForGap, Open, Close, GetStatus, ListEntries,
           Show, VaultLocked, Unlock, NotUnlocked, Lock, Disconnect, AskLock, OnStateChanged,
           ClearConfiguredVault, SetConfiguredVault, Return, Leave, Tick, Sleep, OnlyPages, vars
<1> QED
    BY <1>1, <1>2, <1>3, <1>4, <1>5, <1>6 DEF Coloured

\* An absence and a gap in time stay noticed until the listener and the watchdog act.
LEMMA GoneStep ==
    ASSUME Types, Gone, MaxTime \in Nat, Threshold \in Int, [Next]_vars
    PROVE  Gone'
<1> USE DEF Gone
<1>0. now \in Nat /\ last \in Nat /\ last <= now
    BY DEF Types
<1>1. CASE OnStateChanged
    BY <1>1 DEF OnStateChanged, LockVaultAndNotify, Away, Types
<1>2. CASE CheckForGap
    BY <1>2 DEF CheckForGap, LockVaultAndNotify, Types
<1>3. ASSUME NEW p \in Windows, Unlocked(p)
      PROVE  Gone'
    BY <1>3 DEF Unlocked
<1>4. ASSUME NEW s \in {"idle", "locked"}, Leave(s)
      PROVE  Gone'
    BY <1>4 DEF Leave
<1>5. CASE Return
    BY <1>5 DEF Return
<1>6. CASE Tick
    BY <1>0, <1>6 DEF Tick
<1>7. ASSUME NEW n \in 2..MaxTime, Sleep(n)
      PROVE  Gone'
    <2> DEFINE long == n > Threshold
               gap == now - last > Threshold
               gap2 == now' - last' > Threshold
    <2>1. now' = now + n /\ last' = last /\ n \in Nat
        BY <1>7 DEF Sleep
    <2>2. (long => gap2) /\ (gap => gap2)
        BY <1>0, <2>1
    <2>3. /\ UNCHANGED <<status, user, event, left>>
          /\ slept' = (slept \/ long)
        BY <1>7 DEF Sleep
    <2>4. slept => status = "locked" \/ gap
        OBVIOUS
    <2> HIDE DEF long, gap, gap2
    <2>5. slept' => status' = "locked" \/ gap2
        BY <2>2, <2>3, <2>4, Zenon
    <2>6. left' /\ user' # "active" => status' = "locked" \/ event' = user'
        BY <2>3
    <2> QED
        BY <2>5, <2>6 DEF gap2
<1>8. CASE UNCHANGED <<status, user, event, now, last, left, slept>>
    BY <1>8
<1>9. ASSUME NEW p \in Windows, Lock(p) \/ Disconnect(p)
      PROVE  Gone'
    BY <1>9 DEF Lock, Disconnect, AskLock, LockVaultAndNotify, World
<1>10. \/ OnStateChanged \/ CheckForGap \/ Return \/ Tick
       \/ (\E p \in Windows : Unlocked(p) \/ Lock(p) \/ Disconnect(p))
       \/ (\E s \in {"idle", "locked"} : Leave(s)) \/ (\E n \in 2..MaxTime : Sleep(n))
       \/ UNCHANGED <<status, user, event, now, last, left, slept>>
    BY DEF Next, ReadConfigured, SetIcon, Broadcast, Open, Close, GetStatus, ListEntries,
           Show, VaultLocked, Unlock, NotUnlocked, ClearConfiguredVault, SetConfiguredVault, OnlyPages,
           World, vars
<1> QED
    BY <1>1, <1>2, <1>3, <1>4, <1>5, <1>6, <1>7, <1>8, <1>9, <1>10

LEMMA NotifiedStep ==
    ASSUME Types, PagesOK, Notified, [Next]_vars
    PROVE  Notified'
<1>0. page \in [Windows -> Pages] /\ Listening \subseteq Windows
    BY DEF Types, Windows, Listening
<1>1. ASSUME NEW p \in Windows, UNCHANGED <<status, updates, notices>>, Rest(p),
             ShowsOpen(p)' => ShowsOpen(p) \/ status = "unlocked"
      PROVE  Notified'
    <2>1. \A q \in Windows : ShowsOpen(q)' => ShowsOpen(q) \/ status = "unlocked"
        BY <1>1 DEF ShowsOpen, Rest
    <2> QED
        BY <1>0, <1>1, <2>1 DEF Notified
<1>2. ASSUME NEW i \in DOMAIN updates, ReadConfigured(i)
      PROVE  Notified'
    <2>1. updates \in Seq(Updates) /\ updates[i] \in Updates
        BY DEF Types
    <2>2. /\ DOMAIN updates' = DOMAIN updates
          /\ \A j \in DOMAIN updates : updates'[j].locks = updates[j].locks
        BY <1>2, <2>1 DEF ReadConfigured, Updates
    <2>3. UNCHANGED <<status, notices, page>>
        BY <1>2 DEF ReadConfigured
    <2> QED
        BY <2>2, <2>3 DEF Notified, ShowsOpen
<1>3. ASSUME NEW i \in DOMAIN updates, SetIcon(i)
      PROVE  Notified'
    <2>1. UNCHANGED <<status, notices, page>>
        BY <1>3 DEF SetIcon
    <2>2. CASE updates[i].locks
        <3>1. updates \in Seq(Updates) /\ updates[i] \in Updates
            BY DEF Types
        <3>2. DOMAIN updates' = DOMAIN updates /\ updates'[i].locks = updates[i].locks
            BY <1>3, <2>2, <3>1 DEF SetIcon, Updates
        <3> QED
            BY <2>1, <2>2, <3>2 DEF Notified, ShowsOpen
    <2>3. CASE ~updates[i].locks
        <3>1. updates' = RemoveAt(updates, i)
            BY <1>3, <2>3 DEF SetIcon
        <3>2. \A k \in DOMAIN updates : updates[k].locks => \E j \in DOMAIN updates' : updates'[j].locks
            BY <2>3, <3>1, Dequeued
        <3> QED
            BY <2>1, <3>2 DEF Notified, ShowsOpen
    <2> QED
        BY <2>2, <2>3
<1>4. ASSUME NEW i \in DOMAIN updates, Broadcast(i)
      PROVE  Notified'
    <2>1. ASSUME NEW p \in Listening, ShowsOpen(p)'
          PROVE  p \in notices'
        <3>1. p \in Windows /\ page[p] \in Pages
            BY <1>0
        <3>2. \/ page'[p] = page[p]
              \/ page'[p] = [page[p] EXCEPT !.pc = "status"] \/ page'[p] = [page[p] EXCEPT !.pc = "clearing"]
            BY <1>4, <3>1 DEF Broadcast
        <3>3. ShowsOpen(p)
            BY <2>1, <3>1, <3>2 DEF ShowsOpen, Pages
        <3>4. page[p].pc \notin {"closed", "orphan"}
            BY <3>1, <3>3 DEF ShowsOpen, PagesOK
        <3> QED
            BY <1>4, <3>4 DEF Broadcast
    <2> QED
        BY <2>1 DEF Notified
<1>5. ASSUME LockVaultAndNotify
      PROVE  Notified'
    <2>1. \E i \in DOMAIN updates' : updates'[i].locks
        BY <1>5, Queued DEF LockVaultAndNotify, Telling
    <2> QED
        BY <2>1 DEF Notified
<1>6. ASSUME NEW p \in Windows, Unlocked(p)
      PROVE  Notified'
    BY <1>6 DEF Unlocked, Notified
<1>7. ASSUME NEW p \in Windows, Open(p)
      PROVE  Notified'
    <2>1. UNCHANGED <<status, updates, notices>> /\ page' = [page EXCEPT ![p] = Opened]
        BY <1>7 DEF Open
    <2>2. Rest(p) /\ ~ShowsOpen(p)'
        BY <1>0, <2>1 DEF Rest, ShowsOpen, Opened
    <2> QED
        BY <1>1, <2>1, <2>2
<1>8. ASSUME NEW p \in Windows, Close(p)
      PROVE  Notified'
    <2>1. UNCHANGED <<status, updates>> /\ notices' = notices \ {p}
          /\ page' = [page EXCEPT ![p] = IF page[p].pc = "unlocking" THEN [Shut EXCEPT !.pc = "orphan"] ELSE Shut]
        BY <1>8 DEF Close
    <2>2. Rest(p) /\ ~ShowsOpen(p)'
        BY <1>0, <2>1 DEF Rest, ShowsOpen, Shut
    <2>3. ASSUME NEW q \in Listening, ShowsOpen(q)', status = "locked"
          PROVE  q \in notices' \/ \E i \in DOMAIN updates : updates[i].locks
        <3>1. q # p /\ ShowsOpen(q)
            BY <1>0, <2>2, <2>3 DEF Rest, ShowsOpen
        <3> QED
            BY <2>1, <2>3, <3>1 DEF Notified
    <2> QED
        BY <2>1, <2>3 DEF Notified
<1>9. ASSUME NEW p \in Windows, GetStatus(p)
      PROVE  Notified'
    <2>1. UNCHANGED <<status, updates, notices>>
        BY <1>9 DEF GetStatus, OnlyPages
    <2>2. \/ Shows(p, "no vault") \/ Shows(p, "locked")
          \/ Shows(p, "unlocked") /\ status = "unlocked"
          \/ Awaits(p, "entries")
        BY <1>9 DEF GetStatus
    <2>3. Rest(p) /\ (ShowsOpen(p)' => ShowsOpen(p) \/ status = "unlocked")
        BY <2>2, ShowsPage, AwaitsPage DEF ShowsOpen
    <2> QED
        BY <1>1, <2>1, <2>3
<1>10. ASSUME NEW p \in Windows, ListEntries(p)
       PROVE  Notified'
    <2>1. UNCHANGED <<status, updates, notices>>
        BY <1>10 DEF ListEntries, OnlyPages
    <2>2. \/ Shows(p, "error") \/ Shows(p, "locked")
          \/ Awaits(p, "showing") /\ status = "unlocked"
        BY <1>10 DEF ListEntries
    <2>3. Rest(p) /\ (ShowsOpen(p)' => ShowsOpen(p) \/ status = "unlocked")
        BY <2>2, ShowsPage, AwaitsPage DEF ShowsOpen
    <2> QED
        BY <1>1, <2>1, <2>3
<1>11. ASSUME NEW p \in Windows, Show(p)
       PROVE  Notified'
    <2>1. UNCHANGED <<status, updates, notices>> /\ ShowsOpen(p) /\ Shows(p, "unlocked")
        BY <1>11 DEF Show, OnlyPages, ShowsOpen
    <2> QED
        BY <1>1, <2>1, ShowsPage
<1>12. ASSUME NEW p \in Windows, VaultLocked(p)
       PROVE  Notified'
    <2>1. /\ UNCHANGED <<status, updates>> /\ notices' = notices \ {p} /\ p \in Listening
          /\ page' = [page EXCEPT ![p] = IF p = "manager" THEN Shut ELSE [page[p] EXCEPT !.shows = "locked"]]
        BY <1>12 DEF VaultLocked, Types
    <2>2. Rest(p) /\ ~ShowsOpen(p)'
        <3>1. CASE p = "manager"
            BY <1>0, <2>1, <3>1 DEF Rest, ShowsOpen, Shut
        <3>2. CASE p = "options"
            <4>1. page[p] \in Pages /\ page[p].pc # "showing"
                BY <1>0, <3>2 DEF PagesOK
            <4>2. [page[p] EXCEPT !.shows = "locked"].shows = "locked"
                  /\ [page[p] EXCEPT !.shows = "locked"].pc = page[p].pc
                BY <4>1 DEF Pages
            <4>3. page' = [page EXCEPT ![p] = [page[p] EXCEPT !.shows = "locked"]]
                BY <2>1, <3>2
            <4> QED
                BY <1>0, <4>1, <4>2, <4>3 DEF Rest, ShowsOpen
        <3> QED
            BY <2>1, <3>1, <3>2 DEF Listening
    <2>3. ASSUME NEW q \in Listening, ShowsOpen(q)', status = "locked"
          PROVE  q \in notices' \/ \E i \in DOMAIN updates : updates[i].locks
        <3>1. q # p /\ ShowsOpen(q)
            BY <1>0, <2>2, <2>3 DEF Rest, ShowsOpen
        <3> QED
            BY <2>1, <2>3, <3>1 DEF Notified
    <2> QED
        BY <2>1, <2>3 DEF Notified
<1>13. ASSUME NEW p \in Windows, Unlock(p) \/ ClearConfiguredVault(p)
       PROVE  Notified'
    <2>1. UNCHANGED <<status, updates, notices>> /\ (Awaits(p, "unlocking") \/ Awaits(p, "status"))
        BY <1>13 DEF Unlock, ClearConfiguredVault
    <2>2. Rest(p) /\ (ShowsOpen(p)' => ShowsOpen(p))
        BY <2>1, AwaitsPage DEF ShowsOpen
    <2> QED
        BY <1>1, <2>1, <2>2
<1>14. ASSUME NEW p \in Windows, NotUnlocked(p)
       PROVE  Notified'
    <2>1. UNCHANGED <<status, updates, notices>> /\ (page' = [page EXCEPT ![p] = Shut] \/ Shows(p, "locked"))
        BY <1>14 DEF NotUnlocked, OnlyPages
    <2>2. Rest(p) /\ ~ShowsOpen(p)'
        <3>1. CASE page' = [page EXCEPT ![p] = Shut]
            BY <1>0, <3>1 DEF ShowsOpen, Rest, Shut
        <3>2. CASE Shows(p, "locked")
            BY <3>2, ShowsPage DEF ShowsOpen
        <3> QED
            BY <2>1, <3>1, <3>2
    <2> QED
        BY <1>1, <2>1, <2>2
<1>15. ASSUME \/ OnStateChanged \/ CheckForGap \/ (\E p \in Windows : Lock(p) \/ Disconnect(p))
       PROVE  LockVaultAndNotify \/ UNCHANGED <<status, updates, notices, page>>
    BY <1>15 DEF OnStateChanged, CheckForGap, Lock, Disconnect, AskLock
<1>16. ASSUME \/ SetConfiguredVault \/ Return \/ Tick \/ (\E s \in {"idle", "locked"} : Leave(s))
              \/ (\E n \in 2..MaxTime : Sleep(n)) \/ UNCHANGED vars
       PROVE  UNCHANGED <<status, updates, notices, page>>
    BY <1>16 DEF SetConfiguredVault, Return, Tick, Leave, Sleep, vars
<1>17. ASSUME UNCHANGED <<status, updates, notices, page>>
       PROVE  Notified'
    BY <1>17 DEF Notified, ShowsOpen
<1> QED
    BY <1>2, <1>3, <1>4, <1>5, <1>6, <1>7, <1>8, <1>9, <1>10, <1>11, <1>12, <1>13, <1>14, <1>15, <1>16,
       <1>17 DEF Next

----------------------------------------------------------------------------
(* The theorems.                                                           *)

LEMMA LInvInit == Init => LInv
<1> SUFFICES ASSUME Init PROVE LInv
    OBVIOUS
<1>1. updates = <<>> /\ DOMAIN updates = {} /\ updates \in Seq(Updates)
    BY DEF Init
<1>2. page = [p \in Windows |-> Shut] /\ Shut \in Pages /\ Shut.pc = "closed" /\ Shut.shows = "nothing"
    BY DEF Init, Shut, Pages
<1>3. Types
    BY <1>1, <1>2 DEF Init, Types
<1>4. PagesOK
    BY <1>2 DEF Init, PagesOK, Windows
<1>5. Coloured /\ Gone
    BY DEF Init, Coloured, Gone
<1>6. Notified
    BY <1>2 DEF Notified, ShowsOpen, Listening, Windows
<1> QED
    BY <1>3, <1>4, <1>5, <1>6 DEF LInv

LEMMA LInvStep ==
    ASSUME MaxTime \in Nat, Threshold \in Int, LInv, [Next]_vars
    PROVE  LInv'
BY TypesStep, ColouredStep, NotifiedStep, GoneStep DEF LInv

LEMMA Inductive ==
    ASSUME MaxTime \in Nat, Threshold \in Int
    PROVE  Spec => []LInv
BY LInvInit, LInvStep, PTL DEF Spec

LEMMA LInvIcon == LInv => IconTrue
<1> SUFFICES ASSUME LInv, updates = <<>> PROVE icon = "color" => status = "unlocked"
    BY DEF IconTrue
<1>1. DOMAIN updates = {}
    OBVIOUS
<1> QED
    BY <1>1 DEF LInv, Coloured, Types

LEMMA LInvPages == LInv => ShownOpen
BY DEF LInv, Notified, ShowsOpen, ShownOpen

LEMMA LInvGone ==
    ASSUME Threshold \in Nat
    PROVE  LInv => LockedWhenGone
<1> SUFFICES ASSUME LInv PROVE LockedWhenGone
    OBVIOUS
<1>1. left /\ user # "active" /\ event = "none" => status = "locked"
    BY DEF LInv, Gone, Types
<1>2. slept /\ last = now => status = "locked"
    <2>1. now \in Nat /\ last \in Nat /\ (slept => status = "locked" \/ now - last > Threshold)
        BY DEF LInv, Gone, Types
    <2>2. last = now => ~(now - last > Threshold)
        BY <2>1
    <2> QED
        BY <2>1, <2>2
<1> QED
    BY <1>1, <1>2 DEF LockedWhenGone

\* Once its updates are done the icon is coloured only for an open vault, for any number of
\* updates under way.
THEOREM IconIsTrue ==
    ASSUME MaxTime \in Nat, Threshold \in Int
    PROVE  Spec => []IconTrue
BY Inductive, LInvIcon, PTL

\* Options and the manager show an open vault only when it is open or a notice is under
\* way, in any order of updates, notices, answers, pages opened and closed.
THEOREM PagesAreTold ==
    ASSUME MaxTime \in Nat, Threshold \in Int
    PROVE  Spec => []ShownOpen
BY Inductive, LInvPages, PTL

\* The vault of a user who left, or of a machine that slept longer than the threshold, is
\* locked once the background has heard of it, for any threshold and any hours away.
THEOREM GoneIsLocked ==
    ASSUME MaxTime \in Nat, Threshold \in Nat
    PROVE  Spec => []LockedWhenGone
<1>1. Threshold \in Int
    OBVIOUS
<1> QED
    BY <1>1, Inductive, LInvGone, PTL

----------------------------------------------------------------------------
(* The types that the runs check.                                          *)

Bounded == icon \in {"gray", "color"} /\ Len(updates) <= MaxUpdates

LEMMA BoundedInit == MaxUpdates \in Nat /\ Init => Bounded
BY DEF Init, Bounded

LEMMA LInvTypeOK == LInv /\ Bounded => TypeOK
BY DEF LInv, Types, Bounded, TypeOK

LEMMA BoundedStep ==
    ASSUME MaxUpdates \in Nat, Types, Bounded, [Next]_vars
    PROVE  Bounded'
<1> USE DEF Bounded
<1>0. updates \in Seq(Updates) /\ Len(updates) \in Nat
    BY DEF Types
<1>1. ASSUME NEW i \in DOMAIN updates
      PROVE  Len(RemoveAt(updates, i)) <= MaxUpdates
    <2>1. Len(updates) \in Nat /\ i \in 1..Len(updates)
        BY <1>0
    <2>2. SubSeq(updates, 1, i - 1) \in Seq(Updates) /\ Len(SubSeq(updates, 1, i - 1)) = i - 1
        BY <1>0, <2>1
    <2>3. /\ SubSeq(updates, i + 1, Len(updates)) \in Seq(Updates)
          /\ Len(SubSeq(updates, i + 1, Len(updates))) = Len(updates) - i
        BY <1>0, <2>1
    <2>4. Len(RemoveAt(updates, i)) = (i - 1) + (Len(updates) - i)
        BY <2>2, <2>3, ConcatProperties DEF RemoveAt
    <2> QED
        BY <2>1, <2>4
<1>2. ASSUME NEW i \in DOMAIN updates, ReadConfigured(i) \/ SetIcon(i) \/ Broadcast(i)
      PROVE  Bounded'
    <2>1. icon' \in {"gray", "color"}
        BY <1>2 DEF ReadConfigured, SetIcon, Broadcast
    <2>2. Len(updates') = Len(updates) \/ updates' = RemoveAt(updates, i)
        BY <1>0, <1>2 DEF ReadConfigured, SetIcon, Broadcast
    <2> QED
        BY <1>1, <2>1, <2>2
<1>3. ASSUME Room /\ (LockVaultAndNotify \/ updates' = Append(updates, Update(FALSE, "unlocked"))), UNCHANGED icon
      PROVE  Bounded'
    <2>1. PICK u : updates' = Append(updates, u)
        BY <1>3 DEF LockVaultAndNotify, Telling
    <2>2. Len(Append(updates, u)) = Len(updates) + 1
        BY <1>0
    <2> QED
        BY <1>0, <1>3, <2>1, <2>2 DEF Room
<1>4. CASE OnStateChanged \/ CheckForGap
    BY <1>3, <1>4 DEF OnStateChanged, CheckForGap
<1>5. ASSUME NEW p \in Windows, \/ Open(p) \/ Close(p) \/ GetStatus(p) \/ ListEntries(p) \/ Show(p)
                               \/ VaultLocked(p) \/ Unlock(p) \/ NotUnlocked(p) \/ ClearConfiguredVault(p)
      PROVE  Bounded'
    BY <1>5 DEF Open, Close, GetStatus, ListEntries, Show, VaultLocked, Unlock, NotUnlocked,
                ClearConfiguredVault, OnlyPages
<1>6. ASSUME NEW p \in Windows, \/ Unlocked(p) \/ Lock(p) \/ Disconnect(p)
      PROVE  Bounded'
    BY <1>3, <1>6 DEF Unlocked, Lock, Disconnect, AskLock
<1>7. ASSUME \/ SetConfiguredVault \/ Return \/ Tick \/ (\E s \in {"idle", "locked"} : Leave(s))
             \/ (\E n \in 2..MaxTime : Sleep(n)) \/ UNCHANGED vars
      PROVE  Bounded'
    BY <1>7 DEF SetConfiguredVault, Return, Tick, Leave, Sleep, vars
<1> QED
    BY <1>2, <1>4, <1>5, <1>6, <1>7 DEF Next
=============================================================================
