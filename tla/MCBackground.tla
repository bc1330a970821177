---------------------------- MODULE MCBackground ----------------------------
(***************************************************************************)
(* The modules of the background page and of what runs beside it, for TLC  *)
(* in one run.  Init chooses the module that runs, the subject.  Autofill  *)
(* has variables of its own, which stay as they begin when it is not the   *)
(* subject; the other modules share v1 to v14, and those that the subject  *)
(* does not use stay None.                                                 *)
(***************************************************************************)
EXTENDS Autofill, TLC

CONSTANTS
    Names,          \* two vaults, or two sites
    Handlers,       \* two handlers of the background page
    Twins,          \* two edits, or two tabs
    Other,          \* what another program saves in a vault
    Gen, Old,       \* the generated password and one the vault had
    Calls,          \* calls of the Drive provider
    ContextOf,      \* where each of them runs
    Secrets,        \* texts that are copied
    Threshold, Delay,   \* periods of the idle lock and of the clipboard
    MaxSessions, MaxSwitches, MaxSubmits, MaxTokens, MaxRestarts, MaxTime, MaxUpdates,
    MaxActs, MaxChecks      \* bounds

VARIABLES subject, v1, v2, v3, v4, v5, v6, v7, v8, v9, v10, v11, v12, v13, v14
shared == <<v1, v2, v3, v4, v5, v6, v7, v8, v9, v10, v11, v12, v13, v14>>

\* Autofill: a search box above a login form, a form whose password is not shown, one with
\* a misleading autocomplete, and a page of a host without a domain.
Input(type, auto, words, form, shown) ==
    [type |-> type, auto |-> auto, name |-> words, label |-> None, place |-> None,
     form |-> form, shown |-> shown]
SomeContent == [p \in {"a", "hidden", "misled", "local"} |->
    CASE p = "a" -> [url |-> "a1", host |-> "a.x", domain |-> "x",
            inputs |-> <<Input("search", None, None, None, TRUE),
                         Input("text", None, "user", 1, TRUE), Input("password", None, None, 1, TRUE)>>]
      [] p = "hidden" -> [url |-> "a1", host |-> "a.x", domain |-> "x",
            inputs |-> <<Input("email", "username", None, 1, TRUE), Input("password", None, None, 1, FALSE)>>]
      [] p = "misled" -> [url |-> "b1", host |-> "b.x", domain |-> "x",
            inputs |-> <<Input("text", "current-password", None, 1, TRUE),
                         Input("password", None, "pass", 1, TRUE)>>]
      [] p = "local" -> [url |-> "l1", host |-> "l", domain |-> None,
            inputs |-> <<Input("password", None, "pass", None, TRUE)>>]]
SomeFacts == [e \in {"e1", "e2"} |->
    IF e = "e1"
    THEN [urls |-> {[url |-> "a1", host |-> "a.x", domain |-> "x"]}, title |-> {}]
    ELSE [urls |-> {[url |-> "q", host |-> "q", domain |-> "q"],
                    [url |-> "z", host |-> "a.x", domain |-> "x"]}, title |-> {"l", "b.x"}]]

\* One call in each context.
SomeContextOf == [c1 |-> "background", c2 |-> "page"]

Session == INSTANCE VaultSession
    WITH configured <- v1, file <- v2, session <- v3, of <- v4, tree <- v5, switches <- v6,
         call <- v7, target <- v8, reported <- v9, crossed <- v10, raced <- v11,
         Vaults <- Names, Edits <- Twins, OtherEdits <- Other, Calls <- Handlers
Logins == INSTANCE LoginCapture
    WITH open <- v1, captures <- v2, generated <- v3, entries <- v4, handler <- v5,
         submits <- v6, due <- v7, raced <- v8, strayed <- v9,
         Sites <- Names, Tabs <- Twins
Drive == INSTANCE DriveAccess
    WITH memory <- v1, keyFile <- v2, tokenFile <- v3, memo <- v4, making <- v5, cached <- v6,
         live <- v7, late <- v8, known <- v9, issued <- v10, keys <- v11, restarts <- v12,
         together <- v13, call <- v14, Contexts <- {"background", "page"}
LockOf == INSTANCE LockState
    WITH status <- v1, configured <- v2, icon <- v3, updates <- v4, page <- v5, notices <- v6,
         user <- v7, event <- v8, now <- v9, last <- v10, acts <- v11, left <- v12, slept <- v13
Clip == INSTANCE ClipboardClear
    WITH clip <- v1, arming <- v2, pending <- v3, checks <- v4, now <- v5, since <- v6,
         crossed <- v7, stopped <- v8

Idle13 == v13 = None /\ v14 = None
Idle10 == v10 = None /\ v11 = None /\ v12 = None /\ Idle13
Idle1 == /\ v1 = None /\ v2 = None /\ v3 = None /\ v4 = None /\ v5 = None /\ v6 = None
         /\ v7 = None /\ v8 = None /\ v9 = None /\ Idle10
BackgroundInit ==
    /\ Init
    /\ \/ subject = "Autofill" /\ Idle1
       \/ /\ ~open
          /\ \/ subject = "VaultSession" /\ Session!Init /\ v12 = None /\ Idle13
             \/ subject = "LoginCapture" /\ Logins!Init /\ Idle10
             \/ subject = "DriveAccess" /\ Drive!Init
             \/ subject = "LockState" /\ LockOf!Init /\ v14 = None
             \/ subject = "ClipboardClear" /\ Clip!Init /\ v9 = None /\ Idle10

BackgroundNext ==
    \/ subject = "Autofill" /\ Next /\ UNCHANGED <<subject, shared>>
    \/ subject = "VaultSession" /\ Session!Next /\ UNCHANGED <<subject, vars, v12, v13, v14>>
    \/ subject = "LoginCapture" /\ Logins!Next /\ UNCHANGED <<subject, vars, v10, v11, v12, v13, v14>>
    \/ subject = "DriveAccess" /\ Drive!Next /\ UNCHANGED <<subject, vars>>
    \/ subject = "LockState" /\ LockOf!Next /\ UNCHANGED <<subject, vars, v14>>
    \/ subject = "ClipboardClear" /\ Clip!Next
       /\ UNCHANGED <<subject, vars, v9, v10, v11, v12, v13, v14>>

BackgroundSpec == BackgroundInit /\ [][BackgroundNext]_<<subject, vars, shared>>

Symmetric == Permutations(Names) \cup Permutations(Handlers) \cup Permutations(Twins)

----------------------------------------------------------------------------
(* Properties: those of each module, where it runs.                        *)

\* The types of every module.
TypesOK ==
    /\ subject = "VaultSession" => Session!TypeOK
    /\ subject = "LoginCapture" => Logins!TypeOK
    /\ TypeOK
    /\ subject = "DriveAccess" => Drive!TypeOK
    /\ subject = "LockState" => LockOf!TypeOK
    /\ subject = "ClipboardClear" => Clip!TypeOK

\* VaultSession: an edit is only ever in the file of the vault it was made in, whatever
\* lock, unlock or change of vault comes while it is saved.
FilesApart == subject = "VaultSession" => Session!FilesApart
\* VaultSession: an edit that was answered with success is in the file, unless the file or
\* the tree changed under a handler that had a content of it in hand.
ReportedInFileUnlessRaced == subject = "VaultSession" => Session!ReportedInFileUnlessRaced
\* LoginCapture: the captures in storage are those that were submitted and not reviewed,
\* and a saved login is of one site, unless a form of another site was submitted before
\* the review or two handlers had the captures in hand.
CapturesReviewed ==
    subject = "LoginCapture" => Logins!CapturesAreDue /\ Logins!SavedUnderOwnSiteUnlessStrayed
\* Autofill: a page is filled in when its domain is trusted or the user asked for it, and
\* with an entry that no other matches better.
FilledRightly == FilledWhereTrusted /\ FilledWithBest
\* DriveAccess: the stored token can be opened, and the user is asked to sign in only when
\* nothing else gives a token.
DriveReachable == subject = "DriveAccess" => Drive!SealedReadable /\ Drive!AskedOnlyWhenNeeded
\* LockState: the icon and the pages show an open vault only while it is open, or are on
\* their way to be told, and a vault is locked once the user is gone or the machine slept.
LockTold == subject = "LockState" => LockOf!IconTrue /\ LockOf!ShownOpen /\ LockOf!LockedWhenGone
\* ClipboardClear: a secret leaves the clipboard when its time is over.
SecretsLeave == subject = "ClipboardClear" => Clip!SecretsLeave
=============================================================================
