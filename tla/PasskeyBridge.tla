----------------------------- MODULE PasskeyBridge -----------------------------
(***************************************************************************)
(* A page's navigator.credentials call on its way through the page shim,   *)
(* the tab's content relay, the background and the prompt shown in an      *)
(* iframe, and back; and what the background does for it in the vault.     *)
(*                                                                         *)
(* Source: passkey-provider/page-shim.ts and content-relay.ts,             *)
(* ui/passkey-prompt/App.tsx, the stash of background/index.ts and         *)
(* createPasskey and signPasskeyAssertion of background/vault-session.ts.  *)
(* Cryptography is left out.  A new credential's random id is the request  *)
(* that made it and the faults before: a request makes a second one only   *)
(* when the first ceremony failed.  There is one credential, First, to     *)
(* begin with.  The bytes of a save and the file it goes to are in         *)
(* VaultSession.                                                           *)
(***************************************************************************)
EXTENDS Naturals, FiniteSets

CONSTANTS
    Requests,       \* calls pages make
    Tabs,
    First,          \* the credential the vault holds at the start
    MaxFaults,      \* bound: locks, worker restarts, lost messages and failed saves
    None

Credentials == (Requests \X (0..MaxFaults)) \cup {First}

VARIABLES
    page,           \* per call: its tab, its kind and the answer its promise settled with
    active,         \* relay: activePageRequestId of each tab
    overlay,        \* relay: whose prompt is shown in each tab
    prompt,         \* per call: the state of its prompt
    pending,        \* background: pendingPasskeyRequests
    unlocked,
    tree,           \* signature counters of the credentials in the unlocked tree
    saved,          \* and of those in the vault's file
    job,            \* per call: the background's work for it
    faults,
    told,           \* history: credentials and signature counters given to pages
    crowded,        \* history: tabs where a call met one in progress
    together        \* history: two jobs, or a job and an unlock, ran at the same time

vars == <<page, active, overlay, prompt, pending, unlocked, tree, saved, job, faults,
          told, crowded, together>>

NoJob == [pc |-> "none", cred |-> None, count |-> 0, data |-> None,
          stale |-> FALSE]
Working == {r \in Requests : job[r].pc # "none"}
Waiting(r) == page[r].pc = "waiting"

Init ==
    /\ page = [r \in Requests |-> [pc |-> "new", tab |-> None, kind |-> None, answer |-> None]]
    /\ active = [t \in Tabs |-> None]
    /\ overlay = [t \in Tabs |-> None]
    /\ prompt = [r \in Requests |-> "none"]
    /\ pending = {}
    /\ unlocked = FALSE
    /\ tree = [c \in {First} |-> 0]
    /\ saved = [c \in {First} |-> 0]
    /\ job = [r \in Requests |-> NoJob]
    /\ faults = 0
    /\ told = {}
    /\ crowded = {}
    /\ together = FALSE

Vault == <<unlocked, tree, saved>>
History == <<told, crowded, together>>

----------------------------------------------------------------------------
(* The relay.                                                              *)

\* sendToRelay and the start of handlePageRequest: the newest call is the active one.
\* Another may still be active: one in progress, or one whose stash message was lost.
InProgress(t) == \E q \in Requests : active[t] = q /\ prompt[q] # "lost"

Call(r, t, kind) ==
    /\ page[r].pc = "new"
    /\ page' = [page EXCEPT ![r] = [pc |-> "waiting", tab |-> t, kind |-> kind, answer |-> None]]
    /\ active' = [active EXCEPT ![t] = r]
    /\ crowded' = IF InProgress(t) THEN crowded \cup {t} ELSE crowded
    /\ prompt' = [prompt EXCEPT ![r] = "stash"]
    /\ UNCHANGED <<overlay, pending, Vault, job, faults, told, together>>

\* respondToPage: the promise that waits for this id settles; no other does.
Settled(r, answer) ==
    [page EXCEPT ![r].pc = IF Waiting(r) THEN "settled" ELSE @,
                 ![r].answer = IF Waiting(r) THEN answer ELSE @]

\* showOverlay: the prompt of this call takes the place of the one that was shown.
Shown(t, r) == [overlay EXCEPT ![t] = r]
WithoutPrompt(p, q) == IF q = None THEN p ELSE [p EXCEPT ![q] = "gone"]

Stash(r) ==
    LET t == page[r].tab
    IN  /\ prompt[r] = "stash"
        /\ pending' = pending \cup {r}
        /\ overlay' = Shown(t, r)
        /\ prompt' = [WithoutPrompt(prompt, overlay[t]) EXCEPT ![r] = "loading"]
        /\ UNCHANGED <<page, active, Vault, job, faults, History>>

\* The background cannot be reached, or stops before it answers: sendMessage rejects,
\* and nobody catches it in handlePageRequest.  The page is not told, the call stays the
\* active one, and no prompt is shown.  (The answer `not ok', which is told to the page,
\* does not come from a stash, which only sets a Map entry; and the shim sends no request
\* that is malformed.)
StashLost(r) ==
    /\ prompt[r] = "stash"
    /\ faults < MaxFaults
    /\ faults' = faults + 1
    /\ prompt' = [prompt EXCEPT ![r] = "lost"]
    /\ UNCHANGED <<page, active, overlay, pending, Vault, job, History>>

\* handlePromptResult: only the prompt on show is listened to, its result goes to
\* the active call, and without one nothing happens.
ListenedAnyway(r) == TRUE
Listened(r) == overlay[page[r].tab] = r

Relayed(r, answer, told2) ==
    LET t == page[r].tab
    IN  IF Listened(r) /\ active[t] # None
        THEN /\ page' = Settled(active[t], answer)
             /\ active' = [active EXCEPT ![t] = None]
             /\ overlay' = [overlay EXCEPT ![t] = None]
             /\ prompt' = [prompt EXCEPT ![r] = "gone"]
             /\ told' = told \cup told2
        ELSE UNCHANGED <<page, active, overlay, prompt, told>>

\* Escape, or a click beside the prompt.
Unsettled(r, answer) == page
SettledIfAny(r, answer) == IF r = None THEN page ELSE Settled(r, answer)

Escape(t) ==
    /\ overlay[t] # None
    /\ page' = SettledIfAny(active[t], "refused")
    /\ active' = [active EXCEPT ![t] = None]
    /\ overlay' = [overlay EXCEPT ![t] = None]
    /\ prompt' = WithoutPrompt(prompt, overlay[t])
    /\ UNCHANGED <<pending, Vault, job, faults, History>>

----------------------------------------------------------------------------
(* The prompt.                                                             *)

\* loadCandidates: an assertion needs a passkey of the site in the vault.
Candidates == DOMAIN tree
Ready(r) == IF page[r].kind = "get" /\ Candidates = {} THEN "error" ELSE "confirm"

LoadPrompt(r) ==
    /\ prompt[r] = "loading"
    /\ prompt' = [prompt EXCEPT ![r] = IF r \notin pending THEN "error"
                                       ELSE IF unlocked THEN Ready(r) ELSE "locked"]
    /\ UNCHANGED <<page, active, overlay, pending, Vault, job, faults, History>>

\* The prompt's own unlock form; the session is a new one, from the file.
UnlockHere(r) ==
    /\ prompt[r] = "locked"
    /\ unlocked' = TRUE
    /\ tree' = saved
    /\ prompt' = [prompt EXCEPT ![r] = IF r \notin pending THEN "error" ELSE "confirm"]
    /\ job' = [q \in Requests |-> [job[q] EXCEPT !.stale = q \in Working]]
    /\ together' = (together \/ Working # {})
    /\ UNCHANGED <<page, active, overlay, pending, saved, faults, told, crowded>>

CancelButton(r) ==
    /\ prompt[r] = "confirm"
    /\ Relayed(r, "refused", {})
    /\ UNCHANGED <<pending, Vault, job, faults, crowded, together>>

\* Continue.  signPasskeyAssertion reads the record before its first await.
Created(r) == <<r, faults>>
NextCount(c) == IF c \in Candidates THEN tree[c] + 1 ELSE 0

Begin(r, c) ==
    /\ prompt[r] = "confirm"
    /\ unlocked
    /\ IF page[r].kind = "create" THEN c = Created(r) ELSE c \in Candidates
    /\ prompt' = [prompt EXCEPT ![r] = "busy"]
    /\ job' = [job EXCEPT ![r] = [pc |-> "sign", cred |-> c, data |-> None,
                                  stale |-> FALSE, count |-> NextCount(c)]]
    /\ together' = (together \/ Working # {})
    /\ UNCHANGED <<page, active, overlay, pending, Vault, faults, told, crowded>>

----------------------------------------------------------------------------
(* The background's work: keys and signatures, the change of the tree, the *)
(* save, the answer.                                                       *)

\* The record is put in the tree the ceremony began with, and persist starts on the
\* tree that is open now, unless the vault is locked.
WithOldCount(f, c, n) == [d \in DOMAIN f \cup {c} |-> IF d \in DOMAIN f THEN f[d] ELSE n]
With(f, c, n) == [d \in DOMAIN f \cup {c} |-> IF d = c THEN n ELSE f[d]]

ChangeTree(r) ==
    /\ job[r].pc = "sign"
    /\ IF unlocked
       THEN /\ tree' = IF job[r].stale THEN tree ELSE With(tree, job[r].cred, job[r].count)
            /\ job' = [job EXCEPT ![r].pc = "persist", ![r].data = tree']
            /\ UNCHANGED prompt
       ELSE /\ job' = [job EXCEPT ![r] = NoJob]
            /\ prompt' = [prompt EXCEPT ![r] = IF @ = "busy" THEN "confirm" ELSE @]
            /\ UNCHANGED tree
    /\ UNCHANGED <<page, active, overlay, pending, unlocked, saved, faults, History>>

Persist(r) ==
    /\ job[r].pc = "persist"
    /\ saved' = job[r].data
    /\ job' = [job EXCEPT ![r].pc = "answer"]
    /\ UNCHANGED <<page, active, overlay, prompt, pending, unlocked, tree, faults, History>>

PersistFails(r) ==
    /\ job[r].pc = "persist"
    /\ faults < MaxFaults
    /\ faults' = faults + 1
    /\ job' = [job EXCEPT ![r] = NoJob]
    /\ prompt' = [prompt EXCEPT ![r] = IF @ = "busy" THEN "confirm" ELSE @]
    /\ UNCHANGED <<page, active, overlay, pending, Vault, History>>

\* The prompt, if it is still there, posts the result and stays as it is.
AnswerAtOnce(r) == job[r].pc \in {"persist", "answer"}
AnswerWhenSaved(r) == job[r].pc = "answer"

Answer(r) ==
    /\ AnswerWhenSaved(r)
    /\ Relayed(r, r, {<<job[r].cred, job[r].count, r>>})
    /\ job' = [job EXCEPT ![r] = NoJob]
    /\ UNCHANGED <<pending, Vault, faults, crowded, together>>

----------------------------------------------------------------------------
(* Faults.                                                                 *)

Lock ==
    /\ unlocked /\ faults < MaxFaults
    /\ unlocked' = FALSE
    /\ faults' = faults + 1
    /\ UNCHANGED <<page, active, overlay, prompt, pending, tree, saved, job, History>>

\* The service worker stops: its stash and its work are gone, and a prompt that
\* waits for an answer waits on.
Restart ==
    /\ faults < MaxFaults
    /\ faults' = faults + 1
    /\ unlocked' = FALSE
    /\ pending' = {}
    /\ job' = [r \in Requests |-> NoJob]
    /\ UNCHANGED <<page, active, overlay, prompt, tree, saved, History>>

Next ==
    \/ \E r \in Requests :
        \/ \E t \in Tabs, kind \in {"create", "get"} : Call(r, t, kind)
        \/ Stash(r) \/ StashLost(r) \/ LoadPrompt(r) \/ UnlockHere(r) \/ CancelButton(r)
        \/ \E c \in Credentials : Begin(r, c)
        \/ ChangeTree(r) \/ Persist(r) \/ PersistFails(r) \/ Answer(r)
    \/ \E t \in Tabs : Escape(t)
    \/ Lock \/ Restart

\* The background answers a stash request, and a user does not look at a prompt for ever.
Fairness ==
    /\ \A r \in Requests : WF_vars(Stash(r))
    /\ \A t \in Tabs : WF_vars(Escape(t))

Spec == Init /\ [][Next]_vars /\ Fairness

----------------------------------------------------------------------------
(* Properties.                                                             *)

Answers == {None, "refused"} \cup Requests

TypeOK ==
    /\ \A r \in Requests :
        /\ page[r].tab \in Tabs \cup {None} /\ page[r].answer \in Answers
        /\ job[r].cred \in Credentials \cup {None} /\ job[r].count \in Nat
    /\ active \in [Tabs -> Requests \cup {None}]
    /\ overlay \in [Tabs -> Requests \cup {None}]
    /\ pending \subseteq Requests
    /\ DOMAIN tree \subseteq Credentials /\ DOMAIN saved \subseteq Credentials
    /\ faults \in 0..MaxFaults

\* A page's promise settles with the outcome of its own prompt, in a tab where no
\* call is made while another is in progress.  (Where one is, the relay's single
\* activePageRequestId gives the outcome of the first prompt to the second call.)
OwnAnswer ==
    \A r \in Requests :
        page[r].answer \in Requests => page[r].answer = r \/ page[r].tab \in crowded

\* A page is only told of a passkey and a signature counter that the vault's file has, or
\* is past: no lock, failed save or restart leaves a site with a credential nobody holds,
\* or with a counter that the next ceremony falls behind.
ToldOfSavedPasskeys ==
    ~together => \A x \in told : x[1] \in DOMAIN saved /\ x[2] <= saved[x[1]]

\* No site is given the same signature counter of a credential twice, whatever lock,
\* failed save or restart comes between, unless two ceremonies run side by side.
CountersFresh ==
    ~together => \A x, y \in told : x[1] = y[1] /\ x[2] = y[2] => x = y

\* Every call whose stash message reached the background is answered in the end, whatever
\* lock, restart or failed save comes after, in a tab where no call is made while another
\* is in progress.  (Where one is, the first call's promise never settles; nor does the
\* promise of a call whose stash message was lost.)
CallsSettle ==
    \A r \in Requests :
        Waiting(r) ~> \/ page[r].pc = "settled" \/ page[r].tab \in crowded
                      \/ prompt[r] = "lost"
=============================================================================
