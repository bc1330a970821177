----------------------------- MODULE LoginCapture -----------------------------
(***************************************************************************)
(* Logins captured from submitted forms, kept per tab in one record of the *)
(* browser's session storage until the user reviews them in the popup.     *)
(*                                                                         *)
(* Source: background/index.ts and login-capture.ts of packages/web, the   *)
(* submit listener of autofill/content.ts, and applyFields of              *)
(* vault-session.ts.  Every access to the record is a read, an await, and  *)
(* a write of the whole record.  A value is named after the site it was    *)
(* typed at; titles and the tiers of matchEntries are left out.  The two   *)
(* reads a prompt makes (capture, generated password) are one step.        *)
(***************************************************************************)
EXTENDS Naturals, FiniteSets

CONSTANTS
    Sites,
    Tabs,
    Handlers,       \* background handlers that can be running at the same time
    Gen,            \* the password Keetar generated
    Old,            \* the password of an entry the vault already had
    MaxSubmits,     \* bound: submitted forms
    None

Capture == [url : Sites, user : Sites \cup {None}, pass : Sites \cup {Gen, None},
            cands : SUBSET (Sites \cup {Gen})]

VARIABLES
    open,           \* the tabs not yet closed; any of them may show any site
    captures,       \* keetar.pendingLoginCaptures
    generated,      \* keetar.recentGeneratedPassword, or None
    entries,        \* the vault: [url, user, pass]
    handler,
    submits,
    due,            \* history: what submissions and reviews alone would leave
    raced,          \* history: two handlers had the record in hand
    strayed         \* history: a form of one site was submitted with a capture of another due

vars == <<open, captures, generated, entries, handler, submits, due, raced, strayed>>

Idle == [pc |-> "idle", tab |-> None, login |-> None, all |-> None, entry |-> None]

Init ==
    /\ open = Tabs
    /\ captures = [t \in Tabs |-> None]
    /\ generated = None
    /\ \E s \in Sites : entries \in {{}, {[url |-> s, user |-> s, pass |-> Old]}}
    /\ handler = [h \in Handlers |-> Idle]
    /\ submits = 0
    /\ due = [t \in Tabs |-> None]
    /\ raced = FALSE
    /\ strayed = FALSE

At(h, pc) == handler[h].pc = pc
Become(h, r) == handler' = [handler EXCEPT ![h] = r]
Goto(h, pc) == handler' = [handler EXCEPT ![h].pc = pc]
Finish(h) == Become(h, Idle)
Busy == \E h \in Handlers : ~At(h, "idle")

----------------------------------------------------------------------------
(* login-capture.ts and the prompt.                                        *)

Or(new, old) == IF new # None THEN new ELSE old

Merged(old, new) ==
    IF old = None THEN new
    ELSE [url |-> old.url, user |-> Or(new.user, old.user), pass |-> Or(new.pass, old.pass),
          cands |-> old.cands \cup new.cands]

Complete(login) == login.user # None /\ login.pass # None

\* matchEntries: the entries of the capture's page.
Matched(login) == {e \in entries : e.url = login.url}
Stale(login) == IF generated # None /\ generated \in login.cands
                THEN {e \in Matched(login) : e.pass # generated} ELSE {}
Known(login) == /\ Stale(login) = {} /\ Complete(login)
                /\ \E e \in Matched(login) : e.user = login.user /\ e.pass = login.pass

\* pendingLoginPrompt's answer: which entries an update may name, and its kind.
Candidates(login) == IF Stale(login) # {} THEN Stale(login) ELSE Matched(login)
Kind(login) ==
    IF login = None THEN "none"
    ELSE IF Stale(login) # {} THEN "update"
    ELSE IF ~Complete(login) THEN "none"
    ELSE IF Known(login) THEN "known"
    ELSE IF Matched(login) # {} THEN "update" ELSE "save"

\* resolveCapturedPassword.
Password(login) ==
    IF generated # None /\ generated \in login.cands THEN generated ELSE login.pass

----------------------------------------------------------------------------
(* The pages.                                                              *)

\* A password made in the popup or the generator: remembered for five minutes.
GeneratePassword ==
    /\ generated = None
    /\ generated' = Gen
    /\ UNCHANGED <<open, captures, entries, handler, submits, due, raced, strayed>>

Expire ==
    /\ generated # None
    /\ generated' = None
    /\ UNCHANGED <<open, captures, entries, handler, submits, due, raced, strayed>>

\* What a form of site s submits: a username, a password, both, or the passwords of
\* a sign-up or change-password form, one of them a generated one.
Form(s, user, pass, cands) == [url |-> s, user |-> user, pass |-> pass, cands |-> cands]
Submissions(s) ==
    {Form(s, s, None, {}), Form(s, None, s, {s}), Form(s, s, s, {s})}
    \cup (IF generated = None THEN {}
          ELSE {Form(s, s, Gen, {Gen}), Form(s, None, s, {s, Gen})})

Submit(h, t, login) ==
    /\ At(h, "idle") /\ t \in open
    /\ submits < MaxSubmits
    /\ submits' = submits + 1
    /\ Become(h, [Idle EXCEPT !.pc = "get", !.tab = t, !.login = login])
    /\ due' = [due EXCEPT ![t] = Merged(@, login)]
    /\ raced' = (raced \/ Busy)
    /\ strayed' = (strayed \/ (due[t] # None /\ due[t].url # login.url))
    /\ UNCHANGED <<open, captures, generated, entries>>

CloseTab(h, t) ==
    /\ At(h, "idle") /\ t \in open
    /\ open' = open \ {t}
    /\ Become(h, [Idle EXCEPT !.pc = "xget", !.tab = t])
    /\ due' = [due EXCEPT ![t] = None]
    /\ raced' = (raced \/ Busy)
    /\ UNCHANGED <<captures, generated, entries, submits, strayed>>

----------------------------------------------------------------------------
(* captureLogin, then the tab's badge.                                     *)

ReadToCapture(h) ==
    /\ At(h, "get")
    /\ Become(h, [handler[h] EXCEPT !.pc = "set", !.all = captures])
    /\ UNCHANGED <<open, captures, generated, entries, submits, due, raced, strayed>>

WriteCapture(h) ==
    LET t == handler[h].tab
    IN  /\ At(h, "set")
        /\ captures' = [handler[h].all EXCEPT ![t] = Merged(@, handler[h].login)]
        /\ Become(h, [Idle EXCEPT !.pc = "badge", !.tab = t])
        /\ UNCHANGED <<open, generated, entries, submits, due, raced, strayed>>

\* What the prompt says is what the badge shows; asking drops a login the vault has.
Forget(t) == due' = [due EXCEPT ![t] = None]

AskPrompt(h) ==
    LET t == handler[h].tab
    IN  /\ At(h, "badge")
        /\ IF Kind(captures[t]) = "known"
           THEN Goto(h, "xget") /\ Forget(t)
           ELSE Finish(h) /\ UNCHANGED due
        /\ UNCHANGED <<open, captures, generated, entries, submits, raced, strayed>>

\* The popup opens on the tab, or the page's form is detected.
ShowPrompt(h, t) ==
    /\ At(h, "idle") /\ t \in open
    /\ Become(h, [Idle EXCEPT !.pc = "badge", !.tab = t])
    /\ raced' = (raced \/ Busy)
    /\ UNCHANGED <<open, captures, generated, entries, submits, due, strayed>>

----------------------------------------------------------------------------
(* APPLY_PENDING_LOGIN_PROMPT.                                             *)

Dismiss(h, t) ==
    /\ At(h, "idle") /\ t \in open /\ Kind(captures[t]) \in {"save", "update"}
    /\ Become(h, [Idle EXCEPT !.pc = "xget", !.tab = t])
    /\ Forget(t)
    /\ raced' = (raced \/ Busy)
    /\ UNCHANGED <<open, captures, generated, entries, submits, strayed>>

\* The user saves, or picks one of the entries the popup offered.
Apply(h, t, e) ==
    /\ At(h, "idle") /\ t \in open
    /\ \/ Kind(captures[t]) = "save" /\ e = None
       \/ Kind(captures[t]) = "update" /\ e \in Candidates(captures[t])
    /\ Become(h, [Idle EXCEPT !.pc = "capture", !.tab = t, !.entry = e])
    /\ raced' = (raced \/ Busy)
    /\ UNCHANGED <<open, captures, generated, entries, submits, due, strayed>>

ReadToApply(h) ==
    /\ At(h, "capture")
    /\ Become(h, [handler[h] EXCEPT !.pc = "prompt", !.login = captures[handler[h].tab]])
    /\ UNCHANGED <<open, captures, generated, entries, submits, due, raced, strayed>>

\* What the vault gets: applyFields with the capture that was read first, checked
\* against a prompt that was read after it.
MayCreate(h) ==
    /\ handler[h].entry = None /\ handler[h].login # None
    /\ Kind(captures[handler[h].tab]) = "save" /\ Complete(handler[h].login)

MayUpdate(h) ==
    /\ handler[h].entry # None /\ handler[h].login # None
    /\ Kind(captures[handler[h].tab]) = "update" /\ Password(handler[h].login) # None
    /\ handler[h].entry \in Candidates(captures[handler[h].tab])

CreateEntry(h) ==
    LET login == handler[h].login
    IN  /\ At(h, "prompt") /\ MayCreate(h)
        /\ entries' = entries \cup {[url |-> login.url, user |-> login.user, pass |-> login.pass]}
        /\ Goto(h, "persist")
        /\ UNCHANGED <<open, captures, generated, submits, due, raced, strayed>>

UpdateEntry(h) ==
    LET login == handler[h].login
        old == handler[h].entry
    IN  /\ At(h, "prompt") /\ MayUpdate(h)
        /\ entries' = (entries \ {old}) \cup
                      {[url |-> IF login.user = None THEN old.url ELSE login.url,
                        user |-> Or(login.user, old.user), pass |-> Password(login)]}
        /\ Goto(h, "persist")
        /\ UNCHANGED <<open, captures, generated, submits, due, raced, strayed>>

\* Otherwise it throws, but a login the vault has is dropped on the way.
Refuse(h) ==
    LET t == handler[h].tab
    IN  /\ At(h, "prompt") /\ ~MayCreate(h) /\ ~MayUpdate(h)
        /\ IF handler[h].login # None /\ Kind(captures[t]) = "known"
           THEN Goto(h, "xget") /\ Forget(t)
           ELSE Finish(h) /\ UNCHANGED due
        /\ UNCHANGED <<open, captures, generated, entries, submits, raced, strayed>>

\* The save succeeds, or it throws and the capture stays for another attempt.
Persisted(h) ==
    /\ At(h, "persist")
    /\ Goto(h, "xget")
    /\ generated' = IF handler[h].entry # None THEN None ELSE generated
    /\ Forget(handler[h].tab)
    /\ UNCHANGED <<open, captures, entries, submits, raced, strayed>>

PersistFails(h) ==
    /\ At(h, "persist")
    /\ Finish(h)
    /\ UNCHANGED <<open, captures, generated, entries, submits, due, raced, strayed>>

----------------------------------------------------------------------------
(* clearCapturedLogin.                                                     *)

ReadToClear(h) ==
    /\ At(h, "xget")
    /\ Become(h, [handler[h] EXCEPT !.pc = "xset", !.all = captures])
    /\ UNCHANGED <<open, captures, generated, entries, submits, due, raced, strayed>>

\* If all captures went, and if the one stayed.
ClearedAll(all, t) == [u \in Tabs |-> None]
NotCleared(all, t) == all
Cleared(all, t) == [all EXCEPT ![t] = None]

WriteCleared(h) ==
    /\ At(h, "xset")
    /\ captures' = Cleared(handler[h].all, handler[h].tab)
    /\ Finish(h)
    /\ UNCHANGED <<open, generated, entries, submits, due, raced, strayed>>

Next ==
    \/ GeneratePassword \/ Expire
    \/ \E h \in Handlers :
        \/ \E t \in Tabs :
            \/ \E s \in Sites : \E login \in Submissions(s) : Submit(h, t, login)
            \/ CloseTab(h, t) \/ ShowPrompt(h, t) \/ Dismiss(h, t)
            \/ \E e \in entries \cup {None} : Apply(h, t, e)
        \/ ReadToCapture(h) \/ WriteCapture(h) \/ AskPrompt(h)
        \/ ReadToApply(h) \/ CreateEntry(h) \/ UpdateEntry(h) \/ Refuse(h)
        \/ Persisted(h) \/ PersistFails(h)
        \/ ReadToClear(h) \/ WriteCleared(h)

Spec == Init /\ [][Next]_vars

----------------------------------------------------------------------------
(* Properties.                                                             *)

TypeOK ==
    /\ open \subseteq Tabs
    /\ captures \in [Tabs -> Capture \cup {None}]
    /\ due \in [Tabs -> Capture \cup {None}]
    /\ generated \in {Gen, None}
    /\ \A e \in entries : e.url \in Sites /\ e.user \in Sites /\ e.pass \in Sites \cup {Gen, Old}
    /\ raced \in BOOLEAN /\ strayed \in BOOLEAN /\ submits \in 0..MaxSubmits

\* Captures come and go per tab although they share one stored record: as long as no
\* two handlers had the record in hand at once, it holds exactly the logins that were
\* submitted and not yet reviewed.
CapturesAreDue == ~raced /\ ~Busy => captures = due

\* A saved login belongs to the site it is saved for ("credentials captured from a
\* submitted login form", login-capture.ts), as long as no tab submits at a second site
\* while a capture of the first waits for its review, and no two handlers overlap.
OwnSite(e) == e.user = e.url /\ e.pass \in {e.url, Gen, Old}
SavedUnderOwnSiteUnlessStrayed == strayed \/ raced \/ \A e \in entries : OwnSite(e)
=============================================================================
