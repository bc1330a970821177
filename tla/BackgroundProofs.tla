---------------------------- MODULE BackgroundProofs ----------------------------
(***************************************************************************)
(* Proofs about the modules of the background page as MCBackground runs    *)
(* them, for every value of their constants and bounds.                    *)
(***************************************************************************)
EXTENDS MCBackground, SequenceTheorems, WellFoundedInduction, TLAPS

\* The lemmas of VaultSessionProofs and LockStateProofs, over the variables of the run.
SessionLemmas == INSTANCE VaultSessionProofs
    WITH configured <- v1, file <- v2, session <- v3, of <- v4, tree <- v5, switches <- v6,
         call <- v7, target <- v8, reported <- v9, crossed <- v10, raced <- v11,
         Vaults <- Names, Edits <- Twins, OtherEdits <- Other, Calls <- Handlers
LockLemmas == INSTANCE LockStateProofs
    WITH status <- v1, configured <- v2, icon <- v3, updates <- v4, page <- v5, notices <- v6,
         user <- v7, event <- v8, now <- v9, last <- v10, acts <- v11, left <- v12, slept <- v13

LEMMA Removed ==
    ASSUME NEW S, NEW s \in Seq(S), NEW i \in DOMAIN s
    PROVE  /\ RemoveAt(s, i) \in Seq(S)
           /\ \A j \in DOMAIN RemoveAt(s, i) : \E k \in DOMAIN s : RemoveAt(s, i)[j] = s[k]
           /\ \A k \in DOMAIN s : k # i => \E j \in DOMAIN RemoveAt(s, i) : RemoveAt(s, i)[j] = s[k]
BY LockLemmas!Removed DEF RemoveAt, LockLemmas!RemoveAt

LEMMA RemovedLength ==
    ASSUME NEW S, NEW s \in Seq(S), NEW i \in DOMAIN s
    PROVE  Len(RemoveAt(s, i)) = Len(s) - 1
<1>1. /\ Len(s) \in Nat /\ i \in 1..Len(s)
    OBVIOUS
<1>2. SubSeq(s, 1, i - 1) \in Seq(S) /\ Len(SubSeq(s, 1, i - 1)) = i - 1
    BY <1>1
<1>3. SubSeq(s, i + 1, Len(s)) \in Seq(S) /\ Len(SubSeq(s, i + 1, Len(s))) = Len(s) - i
    BY <1>1
<1>4. Len(RemoveAt(s, i)) = (i - 1) + (Len(s) - i)
    BY <1>2, <1>3, ConcatProperties DEF RemoveAt
<1> QED BY <1>1, <1>4

\* A step of the run is one of the subject.
LEMMA BackgroundStep ==
    ASSUME [BackgroundNext]_<<subject, vars, shared>>
    PROVE  /\ subject' = subject
           /\ [Next]_vars
           /\ subject = "VaultSession" => [Session!Next]_Session!vars
           /\ subject = "LoginCapture" => [Logins!Next]_Logins!vars
           /\ subject = "DriveAccess" => [Drive!Next]_Drive!vars
           /\ subject = "LockState" => [LockOf!Next]_LockOf!vars
           /\ subject = "ClipboardClear" => [Clip!Next]_Clip!vars
<1>1. UNCHANGED shared =>
        /\ UNCHANGED Session!vars /\ UNCHANGED Logins!vars /\ UNCHANGED Drive!vars
        /\ UNCHANGED LockOf!vars /\ UNCHANGED Clip!vars
    BY DEF shared, Session!vars, Logins!vars, Drive!vars, Drive!store, Drive!google, LockOf!vars, Clip!vars
<1> QED BY <1>1 DEF BackgroundNext

LEMMA BackgroundBegin ==
    ASSUME BackgroundInit
    PROVE  /\ Init
           /\ subject = "VaultSession" => Session!Init
           /\ subject = "LoginCapture" => Logins!Init
           /\ subject = "DriveAccess" => Drive!Init
           /\ subject = "LockState" => LockOf!Init
           /\ subject = "ClipboardClear" => Clip!Init
BY DEF BackgroundInit

----------------------------------------------------------------------------
(* VaultSession.                                                           *)

LEMMA SameSession ==
    /\ Session!Init <=> SessionLemmas!Init
    /\ [Session!Next]_Session!vars <=> [SessionLemmas!Next]_SessionLemmas!vars
    /\ SessionLemmas!FilesApart <=> Session!FilesApart
    /\ SessionLemmas!ReportedInFileUnlessRaced <=> Session!ReportedInFileUnlessRaced
    /\ SessionLemmas!TypeOK <=> Session!TypeOK
  BY DEF
     Session!Locked, Session!vars, Session!Idle, Session!At, Session!Become, Session!Goto,
     Session!Finish, Session!Holding, Session!Races, Session!Init, Session!StartUnlock,
     Session!CheckConfigured, Session!ReadFile, Session!Load, Session!Lock,
     Session!ForgetVault, Session!ConfigureVault, Session!Changed, Session!Unused,
     Session!SavedVault, Session!Persist, Session!Make, Session!EditAndSave,
     Session!EditThenWait, Session!SaveAfterWait, Session!WaitThenEdit, Session!EditPrepared,
     Session!RetrySync, Session!Serialize, Session!WriteFile, Session!Report,
     Session!ReturnMetadata, Session!Fail, Session!OtherWrites, Session!Terminate,
     Session!Next, Session!Trees, Session!TypeOK, Session!FilesApart,
     Session!ReportedInFileUnlessRaced, SessionLemmas!Locked, SessionLemmas!vars,
     SessionLemmas!Idle, SessionLemmas!At, SessionLemmas!Become, SessionLemmas!Goto,
     SessionLemmas!Finish, SessionLemmas!Holding, SessionLemmas!Races, SessionLemmas!Init,
     SessionLemmas!StartUnlock, SessionLemmas!CheckConfigured, SessionLemmas!ReadFile,
     SessionLemmas!Load, SessionLemmas!Lock, SessionLemmas!ForgetVault,
     SessionLemmas!ConfigureVault, SessionLemmas!Changed, SessionLemmas!Unused,
     SessionLemmas!SavedVault, SessionLemmas!Persist, SessionLemmas!Make,
     SessionLemmas!EditAndSave, SessionLemmas!EditThenWait, SessionLemmas!SaveAfterWait,
     SessionLemmas!WaitThenEdit, SessionLemmas!EditPrepared, SessionLemmas!RetrySync,
     SessionLemmas!Serialize, SessionLemmas!WriteFile, SessionLemmas!Report,
     SessionLemmas!ReturnMetadata, SessionLemmas!Fail, SessionLemmas!OtherWrites,
     SessionLemmas!Terminate, SessionLemmas!Next, SessionLemmas!Trees, SessionLemmas!TypeOK,
     SessionLemmas!FilesApart, SessionLemmas!ReportedInFileUnlessRaced

SessionInv == subject = "VaultSession" => SessionLemmas!IInv

LEMMA SessionBegins == BackgroundInit => SessionInv
BY BackgroundBegin, SameSession, SessionLemmas!InitIInv DEF SessionInv

LEMMA SessionGoesOn == SessionInv /\ [BackgroundNext]_<<subject, vars, shared>> => SessionInv'
BY BackgroundStep, SameSession, SessionLemmas!NextIInv DEF SessionInv

\* An edit is only ever in the file of the vault it was made in: for any vaults, edits and
\* handlers of the background page.
THEOREM BackgroundKeepsFilesApart == BackgroundSpec => []FilesApart
<1>1. SessionInv => FilesApart
    BY SameSession, SessionLemmas!IInvApart DEF SessionInv, FilesApart
<1> QED BY <1>1, SessionBegins, SessionGoesOn, PTL DEF BackgroundSpec

\* An edit whose handler answered ok is in the file of its vault, but for the two races: for
\* any vaults, edits and handlers of the background page.
THEOREM BackgroundReports == BackgroundSpec => []ReportedInFileUnlessRaced
<1>1. SessionInv => ReportedInFileUnlessRaced
    BY SameSession, SessionLemmas!IInvReported DEF SessionInv, ReportedInFileUnlessRaced
<1> QED BY <1>1, SessionBegins, SessionGoesOn, PTL DEF BackgroundSpec

----------------------------------------------------------------------------
(* LockState.                                                              *)

LEMMA SameLock ==
    /\ LockOf!Init <=> LockLemmas!Init
    /\ [LockOf!Next]_LockOf!vars <=> [LockLemmas!Next]_LockLemmas!vars
    /\ LockLemmas!IconTrue <=> LockOf!IconTrue
    /\ LockLemmas!ShownOpen <=> LockOf!ShownOpen
    /\ LockLemmas!LockedWhenGone <=> LockOf!LockedWhenGone
    /\ LockLemmas!TypeOK <=> LockOf!TypeOK
  BY DEF LockOf!RemoveAt, LockLemmas!RemoveAt,
     LockOf!vars, LockOf!Windows, LockOf!Listening, LockOf!Opened, LockOf!Shut, LockOf!Init,
     LockOf!World, LockOf!Acts, LockOf!Update, LockOf!Room, LockOf!Telling,
     LockOf!LockVaultAndNotify, LockOf!ReadConfigured, LockOf!StatusOf, LockOf!SetIcon,
     LockOf!Broadcast, LockOf!Away, LockOf!OnStateChanged, LockOf!CheckForGap, LockOf!Shows,
     LockOf!Awaits, LockOf!OnlyPages, LockOf!Open, LockOf!Close, LockOf!GetStatus,
     LockOf!ListEntries, LockOf!Show, LockOf!VaultLocked, LockOf!Unlock, LockOf!Unlocked,
     LockOf!NotUnlocked, LockOf!AskLock, LockOf!Lock, LockOf!Disconnect,
     LockOf!ClearConfiguredVault, LockOf!SetConfiguredVault, LockOf!Leave, LockOf!Return,
     LockOf!Tick, LockOf!Sleep, LockOf!Next, LockOf!TypeOK, LockOf!IconTrue, LockOf!ShownOpen,
     LockOf!LockedWhenGone, LockLemmas!vars, LockLemmas!Windows, LockLemmas!Listening,
     LockLemmas!Opened, LockLemmas!Shut, LockLemmas!Init, LockLemmas!World, LockLemmas!Acts,
     LockLemmas!Update, LockLemmas!Room, LockLemmas!Telling, LockLemmas!LockVaultAndNotify,
     LockLemmas!ReadConfigured, LockLemmas!StatusOf, LockLemmas!SetIcon, LockLemmas!Broadcast,
     LockLemmas!Away, LockLemmas!OnStateChanged, LockLemmas!CheckForGap, LockLemmas!Shows,
     LockLemmas!Awaits, LockLemmas!OnlyPages, LockLemmas!Open, LockLemmas!Close,
     LockLemmas!GetStatus, LockLemmas!ListEntries, LockLemmas!Show, LockLemmas!VaultLocked,
     LockLemmas!Unlock, LockLemmas!Unlocked, LockLemmas!NotUnlocked, LockLemmas!AskLock,
     LockLemmas!Lock, LockLemmas!Disconnect, LockLemmas!ClearConfiguredVault,
     LockLemmas!SetConfiguredVault, LockLemmas!Leave, LockLemmas!Return, LockLemmas!Tick,
     LockLemmas!Sleep, LockLemmas!Next, LockLemmas!TypeOK, LockLemmas!IconTrue,
     LockLemmas!ShownOpen, LockLemmas!LockedWhenGone

LockInv == subject = "LockState" => LockLemmas!LInv

LEMMA LockBegins == BackgroundInit => LockInv
BY BackgroundBegin, SameLock, LockLemmas!LInvInit DEF LockInv

LEMMA LockGoesOn ==
    ASSUME MaxTime \in Nat, Threshold \in Nat, LockInv, [BackgroundNext]_<<subject, vars, shared>>
    PROVE  LockInv'
<1>1. Threshold \in Int
    OBVIOUS
<1> QED BY <1>1, BackgroundStep, SameLock, LockLemmas!LInvStep DEF LockInv

\* The icon and the pages show an open vault only while it is open, or are about to be told,
\* and a user who left or a machine that slept leaves no vault open: for any threshold, and any
\* number of updates, pages and acts of the user.
THEOREM BackgroundTellsOfLock ==
    ASSUME MaxTime \in Nat, Threshold \in Nat
    PROVE  BackgroundSpec => []LockTold
<1>1. LockInv => LockTold
    BY SameLock, LockLemmas!LInvIcon, LockLemmas!LInvPages, LockLemmas!LInvGone DEF LockInv, LockTold
<1> QED BY <1>1, LockBegins, LockGoesOn, PTL DEF BackgroundSpec

----------------------------------------------------------------------------
(* ClipboardClear.                                                         *)

\* The variables of the run by their names in the module.
clip == v1
arming == v2
pending == v3
checks == v4
clipNow == v5
since == v6
crossed == v7
stopped == v8
USE DEF clip, arming, pending, checks, clipNow, since, crossed, stopped

Checks == [pc : {"remove", "read", "write"}, text : Secrets]
Pendings == [text : Secrets, at : Nat]

ClipTypes ==
    /\ clip \in Secrets \cup {"empty", "other"}
    /\ arming \in Seq(Secrets)
    /\ checks \in Seq(Checks) /\ Len(checks) <= MaxChecks
    /\ pending \in Pendings \cup {None}
    /\ clipNow \in Nat
    /\ since \in [Secrets -> Nat] /\ \A s \in Secrets : since[s] <= clipNow

\* A secret in the clipboard is the one that was copied last.
LastCopied == clip \in Secrets => arming = <<>> \/ arming[Len(arming)] = clip
\* What is pending is due no earlier than its copy says, or will be replaced.
InTime == pending # None => \/ clip # pending.text
                            \/ arming # <<>>
                            \/ since[pending.text] + Delay <= pending.at
\* A check that is about to remove what is pending has looked at that.
Removes == \A i \in DOMAIN checks : checks[i].pc = "remove" /\ pending # None =>
                pending.text = checks[i].text /\ pending.at <= clipNow
ClipSafe == LastCopied /\ InTime /\ Removes /\ Clip!SecretsLeave
ClipInv == ClipTypes /\ (crossed \/ stopped \/ ClipSafe)

ClipConstants ==
    /\ Delay \in Nat /\ MaxChecks \in Nat /\ Secrets \cap {"empty", "other"} = {}
    /\ None \notin Pendings

LEMMA ClipTypesStep ==
    ASSUME ClipConstants, ClipTypes, [Clip!Next]_Clip!vars
    PROVE  ClipTypes'
<1> USE DEF ClipConstants, ClipTypes
<1>1. ASSUME NEW s \in Secrets, Clip!Copy(s)
      PROVE  ClipTypes'
    BY <1>1 DEF Clip!Copy
<1>2. CASE Clip!ClosePage
    BY <1>2 DEF Clip!ClosePage
<1>3. CASE Clip!Arm
    <2>1. /\ Head(arming) \in Secrets /\ Tail(arming) \in Seq(Secrets)
        BY <1>3 DEF Clip!Arm
    <2>2. pending' \in Pendings
        BY <1>3, <2>1 DEF Clip!Arm, Pendings
    <2> QED BY <1>3, <2>1, <2>2 DEF Clip!Arm
<1>4. CASE Clip!CopyOther
    BY <1>4 DEF Clip!CopyOther
<1>5. CASE Clip!Check
    <2>1. [pc |-> "remove", text |-> pending.text] \in Checks
        BY <1>5 DEF Clip!Check, Checks, Pendings
    <2> QED BY <1>5, <2>1 DEF Clip!Check
<1>6. CASE Clip!Restart
    BY <1>6 DEF Clip!Restart
<1>7. CASE Clip!Tick
    BY <1>7 DEF Clip!Tick
<1>8. ASSUME NEW i \in DOMAIN checks, Clip!Forget(i)
      PROVE  ClipTypes'
    <2>1. checks' \in Seq(Checks) /\ Len(checks') = Len(checks)
        <3>1. checks[i] \in Checks
            OBVIOUS
        <3>2. [checks[i] EXCEPT !.pc = "read"] \in Checks
            BY <3>1 DEF Checks
        <3> QED BY <1>8, <3>2 DEF Clip!Forget
    <2> QED BY <1>8, <2>1 DEF Clip!Forget
<1>9. ASSUME NEW i \in DOMAIN checks
      PROVE  RemoveAt(checks, i) \in Seq(Checks) /\ Len(RemoveAt(checks, i)) <= MaxChecks
    <2>1. RemoveAt(checks, i) \in Seq(Checks)
        BY Removed
    <2>2. Len(RemoveAt(checks, i)) = Len(checks) - 1
        BY RemovedLength
    <2> QED BY <2>1, <2>2
<1>10. ASSUME NEW i \in DOMAIN checks, Clip!ReadText(i)
       PROVE  ClipTypes'
    <2>1. [checks[i] EXCEPT !.pc = "write"] \in Checks
        <3>1. checks[i] \in Checks
            OBVIOUS
        <3> QED BY <3>1 DEF Checks
    <2>2. [checks EXCEPT ![i].pc = "write"] \in Seq(Checks)
        BY <2>1
    <2>3. checks' \in Seq(Checks) /\ Len(checks') <= MaxChecks
        BY <1>9, <1>10, <2>2 DEF Clip!ReadText, Clip!RemoveAt, RemoveAt
    <2> QED BY <1>10, <2>3 DEF Clip!ReadText
<1>11. ASSUME NEW i \in DOMAIN checks, Clip!WriteText(i)
       PROVE  ClipTypes'
    BY <1>9, <1>11 DEF Clip!WriteText, Clip!RemoveAt, RemoveAt
<1>12. CASE UNCHANGED Clip!vars
    BY <1>12 DEF Clip!vars
<1> QED
    BY <1>1, <1>2, <1>3, <1>4, <1>5, <1>6, <1>7, <1>8, <1>10, <1>11, <1>12 DEF Clip!Next

\* The two parts of SecretsLeave.
ClearToCome == clip \in Secrets =>
    arming # <<>> \/ (pending # None /\ pending.text = clip) \/ \E i \in DOMAIN checks : checks[i].text = clip
NotBefore == \A i \in DOMAIN checks :
    \/ clipNow >= since[checks[i].text] + Delay
    \/ clip # checks[i].text \/ arming # <<>>
    \/ (pending # None /\ pending.text = clip)

LEMMA ArmingHolds ==
    ASSUME ClipTypes, LastCopied, clip \in Secrets
    PROVE  Clip!Contains(arming, clip) <=> arming # <<>>
<1>1. arming # <<>> => Len(arming) \in 1..Len(arming) /\ arming[Len(arming)] = clip
    BY DEF ClipTypes, LastCopied
<1> QED BY <1>1 DEF Clip!Contains

LEMMA TextOf ==
    ASSUME ClipTypes, NEW i \in DOMAIN checks
    PROVE  checks[i] \in Checks /\ checks[i].text \in Secrets
<1>1. checks[i] \in Checks
    BY DEF ClipTypes
<1> QED BY <1>1 DEF Checks

LEMMA SafeParts ==
    ASSUME ClipTypes, LastCopied, ~crossed, ~stopped
    PROVE  Clip!SecretsLeave <=> ClearToCome /\ NotBefore
<1>1. ASSUME NEW i \in DOMAIN checks
      PROVE  checks[i].text \in Secrets
    BY TextOf
<1> QED BY <1>1, ArmingHolds DEF Clip!SecretsLeave, ClearToCome, NotBefore

LEMMA ClipSafeStep ==
    ASSUME ClipConstants, ClipTypes, ClipTypes', crossed \/ stopped \/ ClipSafe, [Clip!Next]_Clip!vars
    PROVE  (crossed \/ stopped \/ ClipSafe)'
<1>1. CASE crossed \/ stopped
    <2> SUFFICES (crossed => crossed') /\ (stopped => stopped')
        BY <1>1
    <2>1. ASSUME NEW s \in Secrets, Clip!Copy(s)
          PROVE  UNCHANGED <<crossed, stopped>>
        BY <2>1 DEF Clip!Copy
    <2>2. CASE Clip!Arm
        BY <2>2 DEF Clip!Arm
    <2>3. CASE Clip!ClosePage \/ Clip!Restart
        BY <2>3 DEF Clip!ClosePage, Clip!Restart
    <2>4. CASE Clip!CopyOther \/ Clip!Check \/ Clip!Tick
        BY <2>4 DEF Clip!CopyOther, Clip!Check, Clip!Tick
    <2>5. ASSUME NEW i \in DOMAIN checks, Clip!Forget(i) \/ Clip!ReadText(i) \/ Clip!WriteText(i)
          PROVE  UNCHANGED <<crossed, stopped>>
        BY <2>5 DEF Clip!Forget, Clip!ReadText, Clip!WriteText
    <2> QED BY <2>1, <2>2, <2>3, <2>4, <2>5 DEF Clip!Next, Clip!vars
<1> SUFFICES ASSUME ~crossed, ~stopped, ~crossed', ~stopped'
             PROVE  ClipSafe'
    BY <1>1
<1>2. LastCopied /\ InTime /\ Removes /\ ClearToCome /\ NotBefore
    BY SafeParts DEF ClipSafe
<1>3. \A i \in DOMAIN checks : checks[i] \in Checks /\ checks[i].text \in Secrets
    BY TextOf
<1>4. pending # None => pending.text \in Secrets /\ pending.at \in Nat
    BY DEF ClipTypes, Pendings
<1>5. SUFFICES LastCopied' /\ InTime' /\ Removes' /\ ClearToCome' /\ NotBefore'
    <2>1. LastCopied' => (Clip!SecretsLeave' <=> ClearToCome' /\ NotBefore')
        <3>1. ASSUME NEW i \in DOMAIN checks'
              PROVE  checks'[i].text \in Secrets
            <4>1. checks'[i] \in Checks
                BY DEF ClipTypes
            <4> QED BY <4>1 DEF Checks
        <3>2. LastCopied' /\ clip' \in Secrets => (Clip!Contains(arming, clip)' <=> arming' # <<>>)
            <4>1. LastCopied' /\ clip' \in Secrets /\ arming' # <<>> =>
                    Len(arming') \in 1..Len(arming') /\ arming'[Len(arming')] = clip'
                BY DEF ClipTypes, LastCopied
            <4> QED BY <4>1 DEF Clip!Contains
        <3> QED BY <3>1, <3>2 DEF Clip!SecretsLeave, ClearToCome, NotBefore
    <2> QED BY <2>1 DEF ClipSafe
<1> USE DEF LastCopied, InTime, Removes, ClearToCome, NotBefore
<1>6. ASSUME NEW s \in Secrets, Clip!Copy(s)
      PROVE  LastCopied' /\ InTime' /\ Removes' /\ ClearToCome' /\ NotBefore'
    <2>1. arming' # <<>> /\ arming'[Len(arming')] = s
        BY <1>6 DEF Clip!Copy, ClipTypes
    <2> QED BY <1>2, <1>6, <2>1 DEF Clip!Copy
<1>7. CASE Clip!ClosePage
    BY <1>7 DEF Clip!ClosePage
<1>8. CASE Clip!Arm
    <2>1. /\ Head(arming) \in Secrets /\ pending' = [text |-> Head(arming), at |-> clipNow + Delay]
          /\ pending' # None
        BY <1>8 DEF Clip!Arm, ClipTypes, ClipConstants, Pendings
    <2>2. /\ arming' = <<>> => Head(arming) = arming[Len(arming)]
          /\ arming' # <<>> => arming'[Len(arming')] = arming[Len(arming)]
        <3>1. arming \in Seq(Secrets) /\ arming # <<>> /\ arming' = Tail(arming)
            BY <1>8 DEF Clip!Arm, ClipTypes
        <3>2. /\ Len(arming) \in Nat /\ Len(arming) >= 1 /\ Len(arming') = Len(arming) - 1
              /\ \A j \in 1..(Len(arming) - 1) : arming'[j] = arming[j + 1]
              /\ Head(arming) = arming[1] /\ arming' \in Seq(Secrets)
            BY <3>1
        <3>3. arming' = <<>> => Len(arming) = 1
            BY <3>2
        <3>4. arming' # <<>> => Len(arming) > 1
            BY <3>2
        <3> QED BY <3>2, <3>3, <3>4
    <2>3. \A i \in DOMAIN checks : checks[i].pc # "remove"
        BY <1>8 DEF Clip!Arm
    <2>4. since[Head(arming)] + Delay <= clipNow + Delay
        BY <2>1 DEF ClipTypes, ClipConstants
    <2>5. UNCHANGED <<clip, checks, clipNow, since>>
        BY <1>8 DEF Clip!Arm
    <2>6. arming # <<>>
        BY <1>8 DEF Clip!Arm
    <2>7. LastCopied'
        BY <1>2, <2>2, <2>5, <2>6
    <2>8. InTime' /\ Removes'
        BY <2>1, <2>3, <2>4, <2>5
    <2>9. ClearToCome'
        BY <1>2, <2>1, <2>2, <2>5, <2>6
    <2>10. NotBefore'
        BY <1>2, <1>3, <2>1, <2>2, <2>5, <2>6
    <2> QED BY <2>7, <2>8, <2>9, <2>10
<1>9. CASE Clip!CopyOther
    BY <1>2, <1>3, <1>4, <1>9 DEF Clip!CopyOther, ClipConstants
<1>10. CASE Clip!Check
    <2>1. checks \in Seq(Checks)
        BY DEF ClipTypes
    <2>2. /\ Len(checks') = Len(checks) + 1 /\ DOMAIN checks' = 1..(Len(checks) + 1)
          /\ DOMAIN checks = 1..Len(checks) /\ Len(checks) \in Nat
          /\ \A i \in DOMAIN checks : checks'[i] = checks[i]
          /\ checks'[Len(checks) + 1] = [pc |-> "remove", text |-> pending.text]
        BY <1>10, <2>1 DEF Clip!Check
    <2>3. pending # None /\ clipNow >= pending.at
        BY <1>10 DEF Clip!Check, Clip!Due
    <2>4. UNCHANGED <<clip, arming, pending, clipNow, since>>
        BY <1>10 DEF Clip!Check
    <2>5. \A i \in DOMAIN checks' : i \in DOMAIN checks \/ i = Len(checks) + 1
        BY <2>2
    <2>6. LastCopied' /\ InTime'
        BY <1>2, <2>4
    <2>7. Removes'
        BY <1>2, <1>4, <2>2, <2>3, <2>4, <2>5 DEF ClipTypes
    <2>8. ClearToCome'
        BY <1>2, <2>2, <2>4
    <2>9. NotBefore'
        BY <1>2, <2>2, <2>3, <2>4, <2>5
    <2> QED BY <2>6, <2>7, <2>8, <2>9
<1>11. CASE Clip!Restart
    BY <1>11 DEF Clip!Restart
<1>12. CASE Clip!Tick
    BY <1>2, <1>12 DEF Clip!Tick, ClipTypes
<1>13. ASSUME NEW i \in DOMAIN checks, Clip!Forget(i)
       PROVE  LastCopied' /\ InTime' /\ Removes' /\ ClearToCome' /\ NotBefore'
    <2>1. /\ DOMAIN checks' = DOMAIN checks
          /\ \A j \in DOMAIN checks : checks'[j].text = checks[j].text
        BY <1>3, <1>13 DEF Clip!Forget, Checks
    <2>2. pending' = None /\ UNCHANGED <<clip, arming, clipNow, since>>
        BY <1>13 DEF Clip!Forget
    <2>3. pending = None \/ (pending.text = checks[i].text /\ pending.at <= clipNow)
        BY <1>2, <1>13 DEF Clip!Forget
    <2>4. ClearToCome'
        BY <1>2, <2>1, <2>2, <2>3
    <2>5. NotBefore'
        <3>1. pending # None /\ pending.text = clip =>
                arming # <<>> \/ clipNow >= since[clip] + Delay
            BY <1>2, <1>4, <2>3 DEF ClipTypes, ClipConstants
        <3> QED BY <1>2, <2>1, <2>2, <3>1
    <2> QED BY <1>2, <2>2, <2>4, <2>5
<1>14. ASSUME NEW i \in DOMAIN checks, checks' = RemoveAt(checks, i)
       PROVE  /\ \A j \in DOMAIN checks' : \E k \in DOMAIN checks : checks'[j] = checks[k]
              /\ \A k \in DOMAIN checks : k # i => \E j \in DOMAIN checks' : checks'[j] = checks[k]
    BY <1>14, Removed DEF ClipTypes
<1>15. ASSUME NEW i \in DOMAIN checks, Clip!ReadText(i)
       PROVE  LastCopied' /\ InTime' /\ Removes' /\ ClearToCome' /\ NotBefore'
    <2>1. UNCHANGED <<clip, arming, pending, clipNow, since>>
        BY <1>15 DEF Clip!ReadText
    <2>2. CASE Clip!Matches(checks[i])
        <3>1. /\ DOMAIN checks' = DOMAIN checks
              /\ \A j \in DOMAIN checks : /\ checks'[j].text = checks[j].text
                                          /\ checks'[j].pc = "remove" => checks[j].pc = "remove"
            BY <1>3, <1>15, <2>2 DEF Clip!ReadText, Checks
        <3> QED BY <1>2, <2>1, <3>1
    <2>3. CASE ~Clip!Matches(checks[i])
        <3>1. clip # checks[i].text
            BY <2>3 DEF Clip!Matches
        <3>2. checks' = RemoveAt(checks, i)
            BY <1>15, <2>3 DEF Clip!ReadText, Clip!RemoveAt, RemoveAt
        <3>3. LastCopied' /\ InTime' /\ Removes'
            BY <1>2, <1>14, <2>1, <3>2
        <3>4. ClearToCome'
            BY <1>2, <1>14, <2>1, <3>1, <3>2
        <3>5. NotBefore'
            BY <1>2, <1>14, <2>1, <3>2
        <3> QED BY <3>3, <3>4, <3>5
    <2> QED BY <2>2, <2>3
<1>16. ASSUME NEW i \in DOMAIN checks, Clip!WriteText(i)
       PROVE  LastCopied' /\ InTime' /\ Removes' /\ ClearToCome' /\ NotBefore'
    <2>1. clip' = "empty" /\ UNCHANGED <<arming, pending, clipNow, since>>
        BY <1>16 DEF Clip!WriteText
    <2>2. checks' = RemoveAt(checks, i)
        BY <1>16 DEF Clip!WriteText, Clip!RemoveAt, RemoveAt
    <2>3. clip' \notin Secrets
        BY <2>1 DEF ClipConstants
    <2> QED BY <1>2, <1>3, <1>4, <1>14, <2>1, <2>2, <2>3
<1>17. CASE UNCHANGED Clip!vars
    BY <1>2, <1>17 DEF Clip!vars
<1> QED
    BY <1>6, <1>7, <1>8, <1>9, <1>10, <1>11, <1>12, <1>13, <1>15, <1>16, <1>17 DEF Clip!Next

LEMMA ClipBegin == ClipConstants /\ Clip!Init => ClipInv
<1> SUFFICES ASSUME ClipConstants, Clip!Init PROVE ClipInv
    OBVIOUS
<1>1. ClipTypes
    BY DEF ClipConstants, Clip!Init, ClipTypes
<1>2. ClipSafe
    BY DEF ClipConstants, Clip!Init, ClipSafe, LastCopied, InTime, Removes, Clip!SecretsLeave
<1> QED BY <1>1, <1>2 DEF ClipInv

LEMMA ClipTypeOK == ClipTypes => Clip!TypeOK
<1> SUFFICES ASSUME ClipTypes PROVE Clip!TypeOK
    OBVIOUS
<1>1. \A i \in DOMAIN arming : arming[i] \in Secrets
    BY DEF ClipTypes
<1> QED BY <1>1 DEF ClipTypes, Pendings, Clip!TypeOK, Clip!Range

LEMMA ClipGoesOn ==
    ASSUME ClipConstants, ClipInv, [Clip!Next]_Clip!vars
    PROVE  ClipInv'
<1>1. ClipTypes'
    BY ClipTypesStep DEF ClipInv
<1> QED BY <1>1, ClipSafeStep DEF ClipInv

\* A secret leaves the clipboard when its time is over: for any secrets, copies, periods and
\* checks that overlap.
THEOREM BackgroundClears ==
    ASSUME ClipConstants
    PROVE  BackgroundSpec => []SecretsLeave
<1> DEFINE Inv == subject = "ClipboardClear" => ClipInv
<1>1. BackgroundInit => Inv
    BY BackgroundBegin, ClipBegin
<1>2. Inv /\ [BackgroundNext]_<<subject, vars, shared>> => Inv'
    BY BackgroundStep, ClipGoesOn
<1>3. Inv => SecretsLeave
    BY DEF ClipInv, ClipSafe, SecretsLeave, Clip!SecretsLeave
<1> QED BY <1>1, <1>2, <1>3, PTL DEF BackgroundSpec

----------------------------------------------------------------------------
(* DriveAccess.                                                            *)

memory == v1
keyFile == v2
tokenFile == v3
memo == v4
making == v5
cached == v6
live == v7
late == v8
known == v9
issued == v10
keys == v11
restarts == v12
together == v13
call == v14
USE DEF memory, keyFile, tokenFile, memo, making, cached, live, late, known, issued, keys, restarts, together, call

Contexts == {"background", "page"}
Stores == {"background", "page", "disk"}
StoreOf(x) == IF x \in memory THEN x ELSE "disk"
NoToken == [key |-> 0, token |-> 0]
Records == [key : Nat, token : Nat]
AccessPcs == {"idle", "fetch", "load", "open", "authorize", "seal", "save", "done"}
AccessCalls == [pc : AccessPcs, connects : BOOLEAN, record : Records, token : Nat, forced : BOOLEAN,
                retry : BOOLEAN, result : {"none", "ok", "sign in", "error", "cancelled", "refused"},
                since : Nat, good : BOOLEAN]

DriveTypes ==
    /\ memory \subseteq Contexts /\ issued \in Nat /\ keys \in Nat
    /\ keyFile \in [Stores -> Nat] /\ tokenFile \in [Stores -> Records]
    /\ memo \in [Contexts -> Nat] /\ making \in [Contexts -> Nat] /\ cached \in [Contexts -> Nat]
    /\ call \in [Calls -> AccessCalls]

\* What the numbers count: no key or token is there that was not made or issued.
MadeRecord(r) == r.key <= keys /\ r.token <= issued
Made ==
    /\ \A s \in Stores : keyFile[s] <= keys /\ MadeRecord(tokenFile[s])
    /\ \A x \in Contexts : memo[x] <= keys /\ making[x] <= keys /\ cached[x] <= issued
    /\ live \subseteq 1..issued /\ late \subseteq 1..issued /\ live \cap late = {}
    /\ \A c \in Calls : MadeRecord(call[c].record) /\ call[c].token <= issued /\ call[c].since <= issued

DriveConstants == ContextOf \in [Calls -> Contexts]

LEMMA StoresAre ==
    /\ Drive!Stores = Stores /\ Drive!NoToken = NoToken /\ NoToken \in Records
    /\ \A x : Drive!StoreOf(x) = StoreOf(x)
    /\ \A x \in Contexts : StoreOf(x) \in Stores
BY DEF Drive!Stores, Stores, Contexts, Drive!StoreOf, StoreOf, Drive!NoToken, NoToken, Records

\* A call that an action of the provider changes.
LEMMA CallSet ==
    ASSUME DriveTypes, NEW c \in Calls, NEW r, Drive!Become(c, r)
    PROVE  /\ call'[c] = r /\ \A d \in Calls \ {c} : call'[d] = call[d]
           /\ r \in AccessCalls => call' \in [Calls -> AccessCalls]
BY DEF DriveTypes, Drive!Become

Changes(c) == call'[c] \in AccessCalls /\ \A d \in Calls \ {c} : call'[d] = call[d]

LEMMA Becomes ==
    ASSUME DriveTypes, NEW c \in Calls, NEW r \in AccessCalls, Drive!Become(c, r)
    PROVE  Changes(c) /\ call'[c] = r
BY CallSet DEF Changes

LEMMA IdleAccess == Drive!Idle \in AccessCalls
BY DEF Drive!Idle, Drive!NoToken, AccessCalls, AccessPcs, Records

LEMMA GoodIs == \A x : Drive!Good(x) \in BOOLEAN
BY DEF Drive!Good

\* What the actions of a call make of it.
LEMMA RequestCall ==
    ASSUME DriveConstants, DriveTypes, NEW c \in Calls, Drive!Request(c)
    PROVE  /\ call[c].pc = "idle" /\ UNCHANGED cached /\ Drive!OnlyCalls
           /\ LET r == call'[c] IN
                /\ Changes(c)
                /\ r.pc = IF cached[ContextOf[c]] # 0 THEN "fetch" ELSE "load"
                /\ r.since = issued /\ r.good = Drive!Good(ContextOf[c]) /\ r.token = cached[ContextOf[c]]
                /\ r.record = NoToken /\ r.connects = FALSE /\ r.forced = FALSE /\ r.retry = TRUE
                /\ r.result = "none"
<1>1. ContextOf[c] \in Contexts /\ cached[ContextOf[c]] \in Nat /\ issued \in Nat
    BY DEF DriveConstants, DriveTypes
<1>2. PICK g \in BOOLEAN : g = Drive!Good(ContextOf[c])
    BY GoodIs
<1>3. PICK t \in Nat : t = cached[ContextOf[c]]
    BY <1>1
<1>4. PICK i \in AccessCalls : i = Drive!Idle
    BY IdleAccess
<1>5. /\ i.record = NoToken /\ i.connects = FALSE /\ i.forced = FALSE /\ i.retry = TRUE
      /\ i.result = "none"
    BY <1>4 DEF Drive!Idle, NoToken, Drive!NoToken
<1>6. PICK r : r = [[i EXCEPT !.since = issued, !.good = g, !.token = t]
                        EXCEPT !.pc = IF t # 0 THEN "fetch" ELSE "load"]
    OBVIOUS
<1>7. /\ r \in AccessCalls /\ r.pc = IF t # 0 THEN "fetch" ELSE "load"
      /\ r.since = issued /\ r.good = g /\ r.token = t /\ r.record = i.record /\ r.connects = i.connects
      /\ r.forced = i.forced /\ r.retry = i.retry /\ r.result = i.result
    BY <1>1, <1>6 DEF AccessCalls, AccessPcs
<1>8. call[c].pc = "idle" /\ UNCHANGED cached /\ Drive!OnlyCalls /\ Drive!Become(c, r)
    BY <1>2, <1>3, <1>4, <1>6 DEF Drive!Request
<1>9. Changes(c) /\ call'[c] = r
    BY <1>7, <1>8, Becomes
<1> QED BY <1>2, <1>3, <1>5, <1>7, <1>8, <1>9

\* r is the same call as q: what an action leaves alone.
Same(r, q) ==
    /\ r.connects = q.connects /\ r.forced = q.forced /\ r.retry = q.retry
    /\ r.since = q.since /\ r.good = q.good

\* The result of a call that has none yet.
Ended(r, q, result) ==
    r.pc = "done" /\ r.result = result /\ Same(r, q) /\ r.token = q.token /\ r.record = q.record
Went(r, q, pc) ==
    r.pc = pc /\ r.result = q.result /\ Same(r, q)

LEMMA EndsCall ==
    ASSUME DriveTypes, NEW c \in Calls, NEW result \in {"ok", "sign in", "error", "cancelled", "refused"},
           Drive!Ends(c, result)
    PROVE  Changes(c) /\ Ended(call'[c], call[c], result)
<1>1. call[c] \in AccessCalls /\ "done" \in AccessPcs
    BY DEF DriveTypes, AccessPcs
<1>2. PICK r : r = [call[c] EXCEPT !.pc = "done", !.result = result]
    OBVIOUS
<1>3. Drive!Become(c, r)
    BY <1>2 DEF Drive!Ends
<1>4. r \in AccessCalls /\ Ended(r, call[c], result)
    BY <1>1, <1>2 DEF AccessCalls, AccessPcs, Same, Ended
<1> QED BY <1>3, <1>4, Becomes

LEMMA GotoCall ==
    ASSUME DriveTypes, NEW c \in Calls, NEW pc \in AccessPcs, Drive!Goto(c, pc)
    PROVE  LET r == call'[c] IN
             /\ Changes(c) /\ Went(r, call[c], pc)
             /\ r.token = call[c].token /\ r.record = call[c].record
<1>1. call[c] \in AccessCalls
    BY DEF DriveTypes
<1>2. PICK r : r = [call[c] EXCEPT !.pc = pc]
    OBVIOUS
<1>3. Drive!Become(c, r)
    BY <1>2 DEF Drive!Goto
<1>4. r \in AccessCalls /\ Went(r, call[c], pc) /\ r.token = call[c].token /\ r.record = call[c].record
    BY <1>1, <1>2 DEF AccessCalls, AccessPcs, Same, Went
<1> QED BY <1>3, <1>4, Becomes

LEMMA ConnectCall ==
    ASSUME DriveTypes, NEW c \in Calls, Drive!Connect(c)
    PROVE  /\ call[c].pc = "idle" /\ UNCHANGED cached /\ Drive!OnlyCalls
           /\ LET r == call'[c] IN
                /\ Changes(c) /\ r.pc = "authorize" /\ r.connects = TRUE /\ r.record = NoToken
                /\ r.token = 0 /\ r.forced = FALSE /\ r.retry = TRUE /\ r.result = "none" /\ r.since = 0
                /\ r.good = FALSE
<1>1. PICK r : r = [Drive!Idle EXCEPT !.pc = "authorize", !.connects = TRUE]
    OBVIOUS
<1>2. /\ r \in AccessCalls /\ r.pc = "authorize" /\ r.connects = TRUE /\ r.record = NoToken
      /\ r.token = 0 /\ r.forced = FALSE /\ r.retry = TRUE /\ r.result = "none" /\ r.since = 0
      /\ r.good = FALSE
    BY <1>1 DEF Drive!Idle, Drive!NoToken, NoToken, AccessCalls, AccessPcs, Records
<1>3. Changes(c) /\ call'[c] = r
    BY <1>1, <1>2, Becomes DEF Drive!Connect
<1> QED BY <1>2, <1>3 DEF Drive!Connect

LEMMA LoadTokensCall ==
    ASSUME DriveConstants, DriveTypes, NEW c \in Calls, Drive!LoadTokens(c)
    PROVE  /\ call[c].pc = "load" /\ UNCHANGED cached /\ Drive!OnlyCalls
           /\ LET r == call'[c] IN
                /\ Changes(c)
                /\ LET e == tokenFile[StoreOf(ContextOf[c])]
                   IN  \/ e = NoToken /\ Ended(r, call[c], "sign in")
                       \/ e # NoToken /\ Went(r, call[c], "open") /\ r.record = e /\ r.token = call[c].token
<1>1. StoreOf(ContextOf[c]) \in Stores
    BY StoresAre DEF DriveConstants
<1>2. PICK e \in Records : e = tokenFile[StoreOf(ContextOf[c])]
    BY <1>1 DEF DriveTypes
<1>3. call[c].pc = "load" /\ UNCHANGED cached /\ Drive!OnlyCalls
    BY DEF Drive!LoadTokens
<1>4. IF e = NoToken THEN Drive!Ends(c, "sign in")
      ELSE Drive!Become(c, [call[c] EXCEPT !.pc = "open", !.record = e])
    BY <1>2, StoresAre DEF Drive!LoadTokens
<1>5. CASE e = NoToken
    BY <1>2, <1>3, <1>4, <1>5, EndsCall
<1>6. CASE e # NoToken
    <2>1. call[c] \in AccessCalls /\ "open" \in AccessPcs
        BY DEF DriveTypes, AccessPcs
    <2>2. PICK r : r = [call[c] EXCEPT !.pc = "open", !.record = e]
        OBVIOUS
    <2>3. Drive!Become(c, r)
        BY <1>4, <1>6, <2>2
    <2>4. r \in AccessCalls /\ Went(r, call[c], "open") /\ r.record = e /\ r.token = call[c].token
        BY <2>1, <2>2 DEF AccessCalls, AccessPcs, Same, Went
    <2>5. Changes(c) /\ call'[c] = r
        BY <2>3, <2>4, Becomes
    <2> QED BY <1>2, <1>3, <1>6, <2>4, <2>5
<1> QED BY <1>5, <1>6

LEMMA OpenCall ==
    ASSUME DriveConstants, DriveTypes, NEW c \in Calls, Drive!Open(c)
    PROVE  /\ call[c].pc = "open" /\ memo[ContextOf[c]] # 0 /\ Drive!OnlyCalls
           /\ LET r == call'[c] IN
                /\ Changes(c) /\ r.record = call[c].record
                /\ \/ /\ UNCHANGED cached /\ r.token = call[c].token
                      /\ \/ Ended(r, call[c], "error")
                         \/ /\ Went(r, call[c], "authorize")
                            /\ call[c].forced \/ call[c].record.token \in late
                   \/ /\ Went(r, call[c], "fetch") /\ r.token = call[c].record.token /\ ~call[c].forced
                      /\ cached' = [cached EXCEPT ![ContextOf[c]] = call[c].record.token]
<1>1. /\ call[c].pc = "open" /\ memo[ContextOf[c]] # 0 /\ Drive!OnlyCalls
      /\ \/ Drive!Ends(c, "error") /\ UNCHANGED cached
         \/ /\ Drive!Goto(c, "authorize") /\ UNCHANGED cached
            /\ call[c].forced \/ call[c].record.token \in late
         \/ /\ Drive!Become(c, [call[c] EXCEPT !.pc = "fetch", !.token = call[c].record.token])
            /\ cached' = [cached EXCEPT ![ContextOf[c]] = call[c].record.token] /\ ~call[c].forced
    BY DEF Drive!Open, Drive!Renew
<1>2. CASE Drive!Ends(c, "error") /\ UNCHANGED cached
    <2>1. Changes(c) /\ Ended(call'[c], call[c], "error")
        BY <1>2, EndsCall
    <2> QED BY <1>1, <1>2, <2>1 DEF Ended
<1>3. CASE /\ Drive!Goto(c, "authorize") /\ UNCHANGED cached
           /\ call[c].forced \/ call[c].record.token \in late
    <2>1. "authorize" \in AccessPcs
        BY DEF AccessPcs
    <2> QED BY <1>1, <1>3, <2>1, GotoCall
<1>4. CASE /\ Drive!Become(c, [call[c] EXCEPT !.pc = "fetch", !.token = call[c].record.token])
           /\ cached' = [cached EXCEPT ![ContextOf[c]] = call[c].record.token] /\ ~call[c].forced
    <2>1. call[c] \in AccessCalls /\ "fetch" \in AccessPcs
        BY DEF DriveTypes, AccessPcs
    <2>2. call[c].record.token \in Nat
        BY <2>1 DEF AccessCalls, Records
    <2>3. PICK r : r = [call[c] EXCEPT !.pc = "fetch", !.token = call[c].record.token]
        OBVIOUS
    <2>4. /\ r \in AccessCalls /\ Went(r, call[c], "fetch") /\ r.record = call[c].record
          /\ r.token = call[c].record.token
        BY <2>1, <2>2, <2>3 DEF AccessCalls, AccessPcs, Same, Went
    <2>5. Changes(c) /\ call'[c] = r
        BY <1>4, <2>3, <2>4, Becomes
    <2> QED BY <1>1, <1>4, <2>4, <2>5
<1> QED BY <1>1, <1>2, <1>3, <1>4

LEMMA AuthorizeCall ==
    ASSUME DriveTypes, NEW c \in Calls, Drive!Authorize(c)
    PROVE  /\ call[c].pc = "authorize" /\ issued' = issued + 1 /\ live' = live \cup {issued + 1}
           /\ UNCHANGED <<memory, keyFile, tokenFile, memo, making, cached, late, keys, restarts, together>>
           /\ LET r == call'[c] IN
                /\ Changes(c) /\ Went(r, call[c], "seal") /\ r.token = issued + 1
                /\ r.record = call[c].record
<1>1. call[c] \in AccessCalls /\ "seal" \in AccessPcs /\ issued + 1 \in Nat
    BY DEF DriveTypes, AccessPcs
<1>2. PICK r : r = [call[c] EXCEPT !.pc = "seal", !.token = issued + 1]
    OBVIOUS
<1>3. Drive!Become(c, r)
    BY <1>2 DEF Drive!Authorize
<1>4. /\ r \in AccessCalls /\ Went(r, call[c], "seal") /\ r.token = issued + 1
      /\ r.record = call[c].record
    BY <1>1, <1>2 DEF AccessCalls, AccessPcs, Same, Went
<1>5. Changes(c) /\ call'[c] = r
    BY <1>3, <1>4, Becomes
<1> QED BY <1>4, <1>5 DEF Drive!Authorize, Drive!store

LEMMA RefusedCall ==
    ASSUME DriveTypes, NEW c \in Calls, Drive!Refused(c)
    PROVE  /\ call[c].pc = "authorize" /\ UNCHANGED cached /\ Drive!OnlyCalls
           /\ LET r == call'[c] IN
                /\ Changes(c)
                /\ \/ Ended(r, call[c], "cancelled")
                   \/ Ended(r, call[c], "sign in") /\ ~call[c].connects
<1>1. /\ call[c].pc = "authorize" /\ UNCHANGED cached /\ Drive!OnlyCalls
      /\ \/ Drive!Ends(c, "cancelled")
         \/ Drive!Ends(c, "sign in") /\ ~call[c].connects
    BY DEF Drive!Refused
<1>2. CASE Drive!Ends(c, "cancelled")
    BY <1>1, <1>2, EndsCall
<1>3. CASE Drive!Ends(c, "sign in") /\ ~call[c].connects
    BY <1>1, <1>3, EndsCall
<1> QED BY <1>1, <1>2, <1>3

LEMMA SealCall ==
    ASSUME DriveConstants, DriveTypes, NEW c \in Calls, Drive!Seal(c)
    PROVE  /\ call[c].pc = "seal" /\ memo[ContextOf[c]] # 0 /\ UNCHANGED cached /\ Drive!OnlyCalls
           /\ LET r == call'[c] IN
                /\ Changes(c) /\ Went(r, call[c], "save") /\ r.token = call[c].token
                /\ r.record.key = memo[ContextOf[c]] /\ r.record.token = call[c].token
<1>1. call[c] \in AccessCalls /\ "save" \in AccessPcs /\ memo[ContextOf[c]] \in Nat
    BY DEF DriveConstants, DriveTypes, AccessPcs
<1>2. PICK e : e = [key |-> memo[ContextOf[c]], token |-> call[c].token]
    OBVIOUS
<1>3. e \in Records /\ e.key = memo[ContextOf[c]] /\ e.token = call[c].token
    BY <1>1, <1>2 DEF Records, AccessCalls
<1>4. PICK r : r = [call[c] EXCEPT !.pc = "save", !.record = e]
    OBVIOUS
<1>5. Drive!Become(c, r)
    BY <1>2, <1>4 DEF Drive!Seal
<1>6. r \in AccessCalls /\ Went(r, call[c], "save") /\ r.token = call[c].token /\ r.record = e
    BY <1>1, <1>3, <1>4 DEF AccessCalls, AccessPcs, Same, Went
<1>7. Changes(c) /\ call'[c] = r
    BY <1>5, <1>6, Becomes
<1> QED BY <1>3, <1>6, <1>7 DEF Drive!Seal

LEMMA SaveCall ==
    ASSUME DriveConstants, DriveTypes, NEW c \in Calls, Drive!Save(c)
    PROVE  /\ call[c].pc = "save"
           /\ tokenFile' = [tokenFile EXCEPT ![StoreOf(ContextOf[c])] = call[c].record]
           /\ UNCHANGED <<memory, keyFile, memo, making, live, late, known, issued, keys, restarts, together>>
           /\ LET r == call'[c] IN
                /\ Changes(c) /\ r.token = call[c].token /\ r.record = call[c].record
                /\ \/ Ended(r, call[c], "ok") /\ UNCHANGED cached
                   \/ /\ Went(r, call[c], "fetch")
                      /\ cached' = [cached EXCEPT ![ContextOf[c]] = call[c].token]
<1>1. /\ call[c].pc = "save"
      /\ tokenFile' = [tokenFile EXCEPT ![StoreOf(ContextOf[c])] = call[c].record]
      /\ UNCHANGED <<memory, keyFile, memo, making, live, late, known, issued, keys, restarts, together>>
      /\ \/ Drive!Ends(c, "ok") /\ UNCHANGED cached
         \/ Drive!Goto(c, "fetch") /\ cached' = [cached EXCEPT ![ContextOf[c]] = call[c].token]
    BY StoresAre DEF Drive!Save, Drive!google
<1>2. CASE Drive!Ends(c, "ok") /\ UNCHANGED cached
    <2>1. Changes(c) /\ Ended(call'[c], call[c], "ok")
        BY <1>2, EndsCall
    <2> QED BY <1>1, <1>2, <2>1 DEF Ended
<1>3. CASE Drive!Goto(c, "fetch") /\ cached' = [cached EXCEPT ![ContextOf[c]] = call[c].token]
    <2>1. "fetch" \in AccessPcs
        BY DEF AccessPcs
    <2>2. /\ Changes(c) /\ Went(call'[c], call[c], "fetch")
          /\ call'[c].token = call[c].token /\ call'[c].record = call[c].record
        BY <1>3, <2>1, GotoCall
    <2> QED BY <1>1, <1>3, <2>2
<1> QED BY <1>1, <1>2, <1>3

LEMMA FetchCall ==
    ASSUME DriveTypes, NEW c \in Calls, Drive!Fetch(c)
    PROVE  /\ call[c].pc = "fetch" /\ Drive!OnlyCalls
           /\ \/ UNCHANGED cached
              \/ cached' = [cached EXCEPT ![ContextOf[c]] = call[c].token]
           /\ LET r == call'[c] IN
                /\ Changes(c) /\ r.token = call[c].token /\ r.record = call[c].record
                /\ \/ Ended(r, call[c], "ok")
                   \/ Ended(r, call[c], "refused") /\ ~call[c].retry
                   \/ /\ r.pc = "load" /\ r.forced = TRUE /\ r.retry = FALSE /\ r.result = call[c].result
                      /\ r.connects = call[c].connects /\ r.since = call[c].since /\ r.good = call[c].good
                      /\ call[c].token \notin live
<1>1. /\ call[c].pc = "fetch" /\ Drive!OnlyCalls
      /\ \/ UNCHANGED cached
         \/ cached' = [cached EXCEPT ![ContextOf[c]] = call[c].token]
      /\ \/ Drive!Ends(c, "ok")
         \/ Drive!Ends(c, "refused") /\ ~call[c].retry
         \/ Drive!Become(c, Drive!Forced(call[c])) /\ call[c].token \notin live
    BY DEF Drive!Fetch
<1>2. CASE Drive!Ends(c, "ok")
    <2>1. Changes(c) /\ Ended(call'[c], call[c], "ok")
        BY <1>2, EndsCall
    <2> QED BY <1>1, <2>1 DEF Ended
<1>3. CASE Drive!Ends(c, "refused") /\ ~call[c].retry
    <2>1. Changes(c) /\ Ended(call'[c], call[c], "refused")
        BY <1>3, EndsCall
    <2> QED BY <1>1, <1>3, <2>1 DEF Ended
<1>4. CASE Drive!Become(c, Drive!Forced(call[c])) /\ call[c].token \notin live
    <2>1. call[c] \in AccessCalls /\ "load" \in AccessPcs
        BY DEF DriveTypes, AccessPcs
    <2>2. PICK r : r = Drive!Forced(call[c])
        OBVIOUS
    <2>3. /\ r \in AccessCalls /\ r.pc = "load" /\ r.retry = FALSE /\ r.forced = TRUE
          /\ r.connects = call[c].connects /\ r.since = call[c].since /\ r.good = call[c].good
          /\ r.result = call[c].result /\ r.token = call[c].token /\ r.record = call[c].record
        BY <2>1, <2>2 DEF AccessCalls, AccessPcs, Drive!Forced
    <2>4. Changes(c) /\ call'[c] = r
        BY <1>4, <2>2, <2>3, Becomes
    <2> QED BY <1>1, <1>4, <2>3, <2>4
<1> QED BY <1>1, <1>2, <1>3, <1>4

\* The steps of Next, by what they change.
CallActs(c) ==
    \/ Drive!Request(c) \/ Drive!Connect(c) \/ Drive!LoadTokens(c) \/ Drive!Open(c) \/ Drive!Authorize(c)
    \/ Drive!Refused(c) \/ Drive!Seal(c) \/ Drive!Save(c) \/ Drive!Fetch(c) \/ Drive!Return(c)
TokenActs == (\E t \in 1..MaxTokens : Drive!Expire(t) \/ Drive!Withdraw(t)) \/ Drive!Forget

LEMMA DriveSteps ==
    ASSUME [Drive!Next]_Drive!vars
    PROVE  \/ \E x \in Contexts : Drive!LoadOrGenerate(x) \/ Drive!WriteKey(x) \/ Drive!Restart(x)
           \/ \E c \in Calls : CallActs(c)
           \/ TokenActs \/ UNCHANGED Drive!vars
BY DEF Drive!Next, Contexts, CallActs, TokenActs

LEMMA ReturnCall ==
    ASSUME DriveTypes, NEW c \in Calls, Drive!Return(c)
    PROVE  Changes(c) /\ call'[c] = Drive!Idle /\ Drive!OnlyCalls /\ UNCHANGED cached
BY Becomes, IdleAccess DEF Drive!Return

LEMMA TokensOnly ==
    ASSUME TokenActs
    PROVE  /\ UNCHANGED <<memory, keyFile, tokenFile, memo, making, cached, issued, keys, restarts, together, call>>
           /\ live' \subseteq live /\ late' \subseteq late \cup (live \ live')
<1>1. ASSUME NEW t, Drive!Expire(t) \/ Drive!Withdraw(t) \/ Drive!Forget
      PROVE  /\ UNCHANGED <<memory, keyFile, tokenFile, memo, making, cached, issued, keys, restarts, together, call>>
             /\ live' \subseteq live /\ late' \subseteq late \cup (live \ live')
    BY <1>1 DEF Drive!Expire, Drive!Withdraw, Drive!Forget, Drive!Rest, Drive!store
<1> QED BY <1>1 DEF TokenActs

LEMMA CallChanges ==
    ASSUME DriveConstants, DriveTypes, NEW c \in Calls, CallActs(c)
    PROVE  Drive!Authorize(c) \/ Drive!Save(c) \/ Drive!OnlyCalls
BY RequestCall, ConnectCall, LoadTokensCall, OpenCall, RefusedCall, SealCall, FetchCall, ReturnCall
   DEF CallActs

LEMMA CallsChange ==
    ASSUME DriveConstants, DriveTypes, NEW c \in Calls, CallActs(c)
    PROVE  Changes(c)
BY RequestCall, ConnectCall, LoadTokensCall, OpenCall, AuthorizeCall, RefusedCall, SealCall, SaveCall,
   FetchCall, ReturnCall DEF CallActs

LEMMA ChangesTypes ==
    ASSUME DriveTypes, NEW c \in Calls, CallActs(c), Changes(c)
    PROVE  call' \in [Calls -> AccessCalls]
<1>1. \A d \in Calls : call'[d] \in AccessCalls
    BY DEF Changes, DriveTypes
<1>2. PICK r : call' = [call EXCEPT ![c] = r]
    BY DEF CallActs, Drive!Request, Drive!Connect, Drive!LoadTokens, Drive!Open, Drive!Authorize,
       Drive!Refused, Drive!Seal, Drive!Save, Drive!Fetch, Drive!Return, Drive!Ends, Drive!Goto, Drive!Become
<1> QED BY <1>1, <1>2 DEF DriveTypes

LEMMA DriveTypesStep ==
    ASSUME DriveConstants, DriveTypes, [Drive!Next]_Drive!vars
    PROVE  DriveTypes'
<1>1. ASSUME NEW x \in Contexts, Drive!LoadOrGenerate(x)
      PROVE  DriveTypes'
    <2>1. keyFile[StoreOf(x)] \in Nat /\ Drive!FoundKey(x) = keyFile[StoreOf(x)]
        BY StoresAre DEF DriveTypes, Drive!FoundKey
    <2> QED BY <1>1, <2>1 DEF Drive!LoadOrGenerate, Drive!store, Drive!google, DriveTypes
<1>2. ASSUME NEW x \in Contexts, Drive!WriteKey(x)
      PROVE  DriveTypes'
    <2>1. making[x] \in Nat /\ StoreOf(x) \in Stores
        BY StoresAre DEF DriveTypes
    <2> QED BY <1>2, <2>1, StoresAre DEF Drive!WriteKey, Drive!google, DriveTypes
<1>3. ASSUME NEW x \in Contexts, Drive!Restart(x)
      PROVE  DriveTypes'
    <2>1. call' \in [Calls -> AccessCalls]
        BY <1>3, IdleAccess DEF Drive!Restart, DriveTypes
    <2> QED BY <1>3, <2>1, StoresAre DEF Drive!Restart, Drive!google, DriveTypes
<1>4. ASSUME NEW c \in Calls, CallActs(c)
      PROVE  DriveTypes'
    <2>0. ContextOf[c] \in Contexts /\ StoreOf(ContextOf[c]) \in Stores /\ call[c] \in AccessCalls
        BY StoresAre DEF DriveConstants, DriveTypes
    <2>1. call' \in [Calls -> AccessCalls]
        BY <1>4, CallsChange, ChangesTypes
    <2>2. cached' \in [Contexts -> Nat]
        <3>1. \/ UNCHANGED cached
              \/ \E t \in Nat : cached' = [cached EXCEPT ![ContextOf[c]] = t]
            <4>1. call[c].token \in Nat /\ call[c].record.token \in Nat
                BY <2>0 DEF AccessCalls, Records
            <4> QED BY <1>4, <4>1, RequestCall, ConnectCall, LoadTokensCall, OpenCall, AuthorizeCall, RefusedCall,
                   SealCall, SaveCall, FetchCall, ReturnCall DEF CallActs
        <3> QED BY <2>0, <3>1 DEF DriveTypes
    <2>3. UNCHANGED <<memory, keyFile, memo, making, keys>> /\ issued' \in Nat
        <3>1. CASE Drive!Authorize(c)
            BY <3>1, AuthorizeCall DEF DriveTypes
        <3>2. CASE Drive!Save(c)
            BY <3>2, SaveCall DEF DriveTypes
        <3>3. CASE Drive!OnlyCalls
            BY <3>3 DEF Drive!OnlyCalls, Drive!store, Drive!google, DriveTypes
        <3> QED BY <1>4, <3>1, <3>2, <3>3, CallChanges
    <2>4. tokenFile' \in [Stores -> Records]
        <3>1. tokenFile' = tokenFile \/ tokenFile' = [tokenFile EXCEPT ![StoreOf(ContextOf[c])] = call[c].record]
            BY <1>4, RequestCall, ConnectCall, LoadTokensCall, OpenCall, AuthorizeCall, RefusedCall, SealCall,
               SaveCall, FetchCall, ReturnCall DEF CallActs, Drive!OnlyCalls, Drive!store
        <3>2. call[c].record \in Records
            BY <2>0 DEF AccessCalls
        <3> QED BY <2>0, <3>1, <3>2 DEF DriveTypes
    <2> QED BY <2>1, <2>2, <2>3, <2>4 DEF DriveTypes
<1>5. CASE TokenActs
    BY <1>5, TokensOnly DEF DriveTypes
<1>6. CASE UNCHANGED Drive!vars
    BY <1>6 DEF Drive!vars, Drive!store, Drive!google, DriveTypes
<1> QED BY <1>1, <1>2, <1>3, <1>4, <1>5, <1>6, DriveSteps

\* A call that keeps its numbers, or counts with those that are there.
LEMMA MadeStep ==
    ASSUME DriveConstants, DriveTypes, DriveTypes', Made, [Drive!Next]_Drive!vars
    PROVE  Made'
<1>0. /\ issued \in Nat /\ keys \in Nat
      /\ \A s \in Stores : keyFile[s] \in Nat /\ tokenFile[s] \in Records
      /\ \A x \in Contexts : memo[x] \in Nat /\ making[x] \in Nat /\ cached[x] \in Nat
    BY DEF DriveTypes
<1>1. \A r \in Records : r.key \in Nat /\ r.token \in Nat
    BY DEF Records
<1>2. ASSUME NEW x \in Contexts, Drive!LoadOrGenerate(x)
      PROVE  Made'
    <2>1. StoreOf(x) \in Stores /\ Drive!FoundKey(x) = keyFile[StoreOf(x)] /\ keyFile[StoreOf(x)] <= keys
        BY StoresAre DEF Drive!FoundKey, Made
    <2>2. /\ UNCHANGED <<keyFile, tokenFile, cached, live, late, issued, call>>
          /\ \/ keys' = keys /\ making' = making /\ memo' = [memo EXCEPT ![x] = keyFile[StoreOf(x)]]
             \/ keys' = keys + 1 /\ making' = [making EXCEPT ![x] = keys + 1] /\ memo' = memo
        BY <1>2, <2>1 DEF Drive!LoadOrGenerate, Drive!store, Drive!google
    <2>3. keys <= keys' /\ keys' \in Nat
        BY <1>0, <2>2
    <2>4. \A y \in Contexts : memo'[y] <= keys' /\ making'[y] <= keys'
        <3>1. CASE keys' = keys /\ making' = making /\ memo' = [memo EXCEPT ![x] = keyFile[StoreOf(x)]]
            BY <2>1, <3>1 DEF DriveTypes, Made
        <3>2. CASE keys' = keys + 1 /\ making' = [making EXCEPT ![x] = keys + 1] /\ memo' = memo
            BY <1>0, <3>2 DEF DriveTypes, Made
        <3> QED BY <2>2, <3>1, <3>2
    <2>5. \A s \in Stores : keyFile[s] <= keys' /\ MadeRecord(tokenFile[s])'
        BY <1>0, <1>1, <2>2, <2>3 DEF Made, MadeRecord
    <2>6. \A c \in Calls : MadeRecord(call[c].record)'
        <3>1. \A c \in Calls : call[c].record \in Records /\ MadeRecord(call[c].record)
            BY DEF DriveTypes, AccessCalls, Made
        <3> QED BY <1>0, <1>1, <2>2, <2>3, <3>1 DEF MadeRecord
    <2> QED BY <2>2, <2>4, <2>5, <2>6 DEF Made
<1>3. ASSUME NEW x \in Contexts, Drive!WriteKey(x)
      PROVE  Made'
    <2>1. /\ StoreOf(x) \in Stores /\ keyFile' = [keyFile EXCEPT ![StoreOf(x)] = making[x]]
          /\ memo' = [memo EXCEPT ![x] = making[x]] /\ making' = [making EXCEPT ![x] = 0]
          /\ UNCHANGED <<tokenFile, cached, live, late, issued, keys, call>>
        BY <1>3, StoresAre DEF Drive!WriteKey, Drive!google
    <2> QED BY <1>0, <2>1 DEF Made, MadeRecord, DriveTypes
<1>4. ASSUME NEW x \in Contexts, Drive!Restart(x)
      PROVE  Made'
    <2>1. /\ memo' = [memo EXCEPT ![x] = 0] /\ making' = [making EXCEPT ![x] = 0] /\ cached' = [cached EXCEPT ![x] = 0]
          /\ keyFile' = [keyFile EXCEPT ![x] = 0] /\ tokenFile' = [tokenFile EXCEPT ![x] = NoToken]
          /\ UNCHANGED <<live, late, issued, keys>>
        BY <1>4, StoresAre DEF Drive!Restart, Drive!google
    <2>2. ASSUME NEW c \in Calls
          PROVE  MadeRecord(call[c].record)' /\ call'[c].token <= issued' /\ call'[c].since <= issued'
        <3>1. CASE call'[c] = call[c]
            BY <2>1, <3>1 DEF Made, MadeRecord
        <3>2. CASE call'[c] = Drive!Idle
            BY <1>0, <2>1, <3>2 DEF Drive!Idle, Drive!NoToken, MadeRecord
        <3> QED BY <1>4, <3>1, <3>2 DEF Drive!Restart
    <2>3. x \in Stores /\ NoToken.key = 0 /\ NoToken.token = 0
        BY DEF Stores, Contexts, NoToken
    <2> QED BY <1>0, <2>1, <2>2, <2>3 DEF Made, MadeRecord, DriveTypes
<1>5. ASSUME NEW c \in Calls, CallActs(c)
      PROVE  Made'
    <2>0. /\ ContextOf[c] \in Contexts /\ StoreOf(ContextOf[c]) \in Stores /\ call[c] \in AccessCalls
          /\ MadeRecord(call[c].record) /\ call[c].token <= issued /\ call[c].since <= issued
        BY StoresAre DEF DriveConstants, DriveTypes, Made
    <2>1. UNCHANGED <<keyFile, memo, making, keys, late>> /\ issued' \in Nat /\ issued <= issued'
        <3>1. CASE Drive!Authorize(c)
            BY <1>0, <3>1, AuthorizeCall
        <3>2. CASE Drive!Save(c)
            BY <1>0, <3>2, SaveCall
        <3>3. CASE Drive!OnlyCalls
            BY <1>0, <3>3 DEF Drive!OnlyCalls, Drive!store, Drive!google
        <3> QED BY <1>5, <3>1, <3>2, <3>3, CallChanges
    <2>2. live' \subseteq 1..issued' /\ live' \cap late' = {} /\ late' \subseteq 1..issued'
        <3>0. issued \in Nat /\ live \subseteq 1..issued /\ late \subseteq 1..issued /\ live \cap late = {}
            BY DEF DriveTypes, Made
        <3>1. CASE Drive!Authorize(c)
            <4>1. issued' = issued + 1 /\ live' = live \cup {issued + 1} /\ late' = late
                BY <3>1, AuthorizeCall
            <4> HIDE DEF Made, DriveTypes
            <4> QED BY <3>0, <4>1
        <3>2. CASE Drive!Save(c)
            BY <3>2, SaveCall DEF Made, Drive!Save, Drive!google
        <3>3. CASE Drive!OnlyCalls
            BY <3>3 DEF Drive!OnlyCalls, Drive!google, Made
        <3> QED BY <1>5, <3>1, <3>2, <3>3, CallChanges
    <2>3. LET r == call'[c]
          IN  r.record.key <= keys /\ r.record.token <= issued' /\ r.token <= issued' /\ r.since <= issued'
        <3> USE DEF MadeRecord, Ended, Went, Same
        <3>0. call[c].record.key \in Nat /\ call[c].record.token \in Nat /\ call[c].token \in Nat /\ call[c].since \in Nat
            BY <2>0 DEF AccessCalls, Records
        <3>1. CASE Drive!Request(c)
            <4>1. /\ call'[c].record = NoToken /\ call'[c].since = issued
                  /\ call'[c].token = cached[ContextOf[c]]
                BY <3>1, RequestCall
            <4> QED BY <1>0, <2>0, <2>1, <4>1 DEF Made, NoToken
        <3>2. CASE Drive!Connect(c)
            <4>1. call'[c].record = NoToken /\ call'[c].since = 0 /\ call'[c].token = 0
                BY <3>2, ConnectCall
            <4> QED BY <1>0, <2>0, <2>1, <4>1 DEF NoToken
        <3>3. CASE Drive!LoadTokens(c)
            <4>1. MadeRecord(tokenFile[StoreOf(ContextOf[c])])
                BY <2>0 DEF Made
            <4>2. tokenFile[StoreOf(ContextOf[c])] \in Records
                BY <1>0, <2>0
            <4>3. /\ call'[c].token = call[c].token /\ call'[c].since = call[c].since
                  /\ call'[c].record \in {call[c].record, tokenFile[StoreOf(ContextOf[c])]}
                BY <3>3, LoadTokensCall
            <4> QED BY <1>0, <1>1, <2>0, <2>1, <3>0, <4>1, <4>2, <4>3
        <3>4. CASE Drive!Open(c)
            BY <1>0, <2>0, <2>1, <3>0, <3>4, OpenCall
        <3>5. CASE Drive!Authorize(c)
            BY <1>0, <2>0, <3>0, <3>5, AuthorizeCall
        <3>6. CASE Drive!Refused(c)
            <4>1. /\ call'[c].token = call[c].token /\ call'[c].since = call[c].since
                  /\ call'[c].record = call[c].record
                BY <3>6, RefusedCall
            <4> QED BY <1>0, <2>0, <2>1, <3>0, <4>1
        <3>7. CASE Drive!Seal(c)
            BY <1>0, <2>0, <2>1, <3>0, <3>7, SealCall DEF Made
        <3>8. CASE Drive!Save(c)
            BY <1>0, <2>0, <2>1, <3>0, <3>8, SaveCall
        <3>9. CASE Drive!Fetch(c)
            <4>1. /\ call'[c].token = call[c].token /\ call'[c].since = call[c].since
                  /\ call'[c].record = call[c].record
                BY <3>9, FetchCall
            <4> QED BY <1>0, <2>0, <2>1, <3>0, <4>1
        <3>10. CASE Drive!Return(c)
            BY <1>0, <2>1, <3>10, ReturnCall DEF Drive!Idle, Drive!NoToken
        <3> QED BY <1>5, <3>1, <3>2, <3>3, <3>4, <3>5, <3>6, <3>7, <3>8, <3>9, <3>10 DEF CallActs
    <2>4. \A d \in Calls : /\ call'[d].record.key <= keys /\ call'[d].record.token <= issued'
                           /\ call'[d].token <= issued' /\ call'[d].since <= issued'
        <3>1. \A d \in Calls : /\ call[d].token \in Nat /\ call[d].since \in Nat
                               /\ call[d].record.key \in Nat /\ call[d].record.token \in Nat
            BY DEF DriveTypes, AccessCalls, Records
        <3>2. \A d \in Calls \ {c} : call'[d] = call[d]
            BY <1>5, CallsChange DEF Changes
        <3>3. \A d \in Calls : /\ call[d].record.key <= keys /\ call[d].record.token <= issued
                               /\ call[d].token <= issued /\ call[d].since <= issued
            BY DEF Made, MadeRecord
        <3> QED BY <1>0, <2>1, <2>3, <3>1, <3>2, <3>3
    <2>5. \A x \in Contexts : cached'[x] <= issued'
        <3>1. PICK t \in Nat : t <= issued /\ (cached' = cached \/ cached' = [cached EXCEPT ![ContextOf[c]] = t])
            <4>1. call[c].token \in Nat /\ call[c].record.token \in Nat /\ call[c].record.token <= issued
                BY <2>0 DEF AccessCalls, Records, MadeRecord
            <4> QED BY <1>5, <2>0, <4>1, RequestCall, ConnectCall, LoadTokensCall, OpenCall, AuthorizeCall,
                   RefusedCall, SealCall, SaveCall, FetchCall, ReturnCall DEF CallActs
        <3> QED BY <1>0, <2>0, <2>1, <3>1 DEF Made, DriveTypes
    <2>6. \A s \in Stores : MadeRecord(tokenFile[s])'
        <3>1. tokenFile' = tokenFile \/ tokenFile' = [tokenFile EXCEPT ![StoreOf(ContextOf[c])] = call[c].record]
            BY <1>5, AuthorizeCall, SaveCall, CallChanges DEF Drive!OnlyCalls, Drive!store
        <3>2. \A s \in Stores : MadeRecord(tokenFile'[s]) /\ tokenFile'[s] \in Records
            BY <2>0, <3>1 DEF Made, DriveTypes
        <3> QED BY <1>0, <1>1, <2>1, <3>2 DEF MadeRecord
    <2>7. \A d \in Calls : MadeRecord(call[d].record)'
        BY <2>1, <2>4 DEF MadeRecord
    <2> QED BY <1>0, <2>1, <2>2, <2>4, <2>5, <2>6, <2>7 DEF Made
<1>6. CASE TokenActs
    <2>1. /\ live' \subseteq 1..issued' /\ live' \cap late' = {} /\ late' \subseteq 1..issued'
          /\ UNCHANGED <<keyFile, tokenFile, memo, making, cached, issued, keys, call>>
        BY <1>6, TokensOnly DEF Made
    <2> QED BY <2>1 DEF Made, MadeRecord
<1>7. CASE UNCHANGED Drive!vars
    BY <1>7 DEF Drive!vars, Drive!store, Drive!google, Made, MadeRecord
<1> QED BY <1>2, <1>3, <1>4, <1>5, <1>6, <1>7, DriveSteps

\* A record that the key of its store opens.  Sealed is what SealedReadable needs to be
\* inductive: a memo is the key of the file, one context of a store writes a key at a time and
\* only while there is none, and a record about to be saved is sealed under the key of its store.
Keyed(r, s) == r.key = keyFile[s] /\ keyFile[s] # 0
Sealed ==
    /\ \A s \in Stores : tokenFile[s] = NoToken \/ Keyed(tokenFile[s], s)
    /\ \A x \in Contexts : memo[x] # 0 => memo[x] = keyFile[StoreOf(x)]
    /\ \A x \in Contexts : making[x] # 0 => keyFile[StoreOf(x)] = 0
    /\ \A x, y \in Contexts : making[x] # 0 /\ making[y] # 0 /\ StoreOf(x) = StoreOf(y) => x = y
    /\ \A c \in Calls : call[c].pc = "save" => Keyed(call[c].record, StoreOf(ContextOf[c]))

LEMMA StoreStays ==
    ASSUME DriveConstants, DriveTypes, [Drive!Next]_Drive!vars
    PROVE  UNCHANGED memory /\ \A x : StoreOf(x)' = StoreOf(x')
<1>1. ASSUME NEW c \in Calls, CallActs(c) PROVE UNCHANGED memory
    <2>1. CASE Drive!Authorize(c)
        BY <2>1, AuthorizeCall
    <2>2. CASE Drive!Save(c)
        BY <2>2, SaveCall
    <2>3. CASE Drive!OnlyCalls
        BY <2>3 DEF Drive!OnlyCalls
    <2> QED BY <1>1, <2>1, <2>2, <2>3, CallChanges
<1>2. ASSUME NEW x \in Contexts, Drive!LoadOrGenerate(x) \/ Drive!WriteKey(x) \/ Drive!Restart(x)
      PROVE  UNCHANGED memory
    BY <1>2 DEF Drive!LoadOrGenerate, Drive!WriteKey, Drive!Restart
<1>3. UNCHANGED memory
    BY <1>1, <1>2, DriveSteps, TokensOnly DEF Drive!vars
<1> QED BY <1>3 DEF StoreOf

LEMMA SealedStep ==
    ASSUME DriveConstants, DriveTypes, together \/ Sealed, [Drive!Next]_Drive!vars
    PROVE  (together \/ Sealed)'
<1>0. UNCHANGED memory /\ \A x \in Contexts : StoreOf(x) \in Stores
    BY StoreStays, StoresAre
<1>1. ASSUME NEW x \in Contexts, Drive!LoadOrGenerate(x)
      PROVE  (together \/ Sealed)'
    <2>1. /\ memo[x] = 0 /\ making[x] = 0 /\ keys \in Nat
          /\ UNCHANGED <<keyFile, tokenFile, call>>
          /\ \/ /\ keyFile[StoreOf(x)] # 0 /\ memo' = [memo EXCEPT ![x] = keyFile[StoreOf(x)]]
                /\ UNCHANGED <<making, together>>
             \/ /\ keyFile[StoreOf(x)] = 0 /\ making' = [making EXCEPT ![x] = keys + 1] /\ UNCHANGED memo
                /\ together' = (together \/ \E y \in Contexts : making[y] # 0 /\ StoreOf(y) = StoreOf(x))
        BY <1>1, StoresAre DEF Drive!LoadOrGenerate, Drive!FoundKey, Drive!store, DriveTypes, Contexts
    <2>2. CASE together
        BY <2>1, <2>2
    <2>3. ASSUME ~together
          PROVE  \/ Sealed'
                 \/ together'
        <3>0. Sealed /\ \A y \in Contexts : memo[y] \in Nat /\ making[y] \in Nat
            BY <2>3 DEF DriveTypes
        <3>1. CASE /\ keyFile[StoreOf(x)] # 0 /\ memo' = [memo EXCEPT ![x] = keyFile[StoreOf(x)]]
                   /\ UNCHANGED making
            <4>1. \A y \in Contexts : memo'[y] # 0 => memo'[y] = keyFile[StoreOf(y)]
                BY <3>0, <3>1 DEF Sealed, DriveTypes
            <4> QED BY <1>0, <2>1, <3>0, <3>1, <4>1 DEF Sealed, Keyed, StoreOf
        <3>2. CASE /\ keyFile[StoreOf(x)] = 0 /\ making' = [making EXCEPT ![x] = keys + 1] /\ UNCHANGED memo
                   /\ \A y \in Contexts : making[y] = 0 \/ StoreOf(y) # StoreOf(x)
            <4>1. \A y \in Contexts \ {x} : making'[y] = making[y]
                BY <3>2 DEF DriveTypes
            <4>2. \A y \in Contexts : making'[y] # 0 => keyFile[StoreOf(y)] = 0
                BY <3>0, <3>2, <4>1 DEF Sealed
            <4>3. \A y, z \in Contexts : making'[y] # 0 /\ making'[z] # 0 /\ StoreOf(y) = StoreOf(z) => y = z
                BY <3>0, <3>2, <4>1 DEF Sealed
            <4> QED BY <1>0, <2>1, <3>0, <3>2, <4>2, <4>3 DEF Sealed, Keyed, StoreOf
        <3> QED BY <2>1, <3>1, <3>2
    <2> QED BY <2>2, <2>3
<1>2. ASSUME NEW x \in Contexts, Drive!WriteKey(x)
      PROVE  (together \/ Sealed)'
    <2>1. /\ making[x] # 0 /\ keyFile' = [keyFile EXCEPT ![StoreOf(x)] = making[x]]
          /\ memo' = [memo EXCEPT ![x] = making[x]] /\ making' = [making EXCEPT ![x] = 0]
          /\ UNCHANGED <<tokenFile, call, together>>
        BY <1>2, StoresAre DEF Drive!WriteKey
    <2> QED BY <1>0, <2>1 DEF Sealed, Keyed, DriveTypes, StoreOf
<1>3. ASSUME NEW x \in Contexts, Drive!Restart(x)
      PROVE  (together \/ Sealed)'
    <2>1. /\ memo' = [memo EXCEPT ![x] = 0] /\ making' = [making EXCEPT ![x] = 0]
          /\ keyFile' = [keyFile EXCEPT ![x] = 0] /\ tokenFile' = [tokenFile EXCEPT ![x] = NoToken]
          /\ UNCHANGED together
        BY <1>3, StoresAre DEF Drive!Restart
    <2>2. \A c \in Calls : call'[c].pc = "save" => call'[c] = call[c] /\ ContextOf[c] # x
        BY <1>3 DEF Drive!Restart, Drive!Idle
    <2>3. \A y \in Contexts : y # x => StoreOf(y) # x
        BY DEF StoreOf, Contexts
    <2> QED BY <1>0, <2>1, <2>2, <2>3 DEF Sealed, Keyed, DriveTypes, DriveConstants, StoreOf, Stores, Contexts
<1>4. ASSUME NEW c \in Calls, CallActs(c)
      PROVE  (together \/ Sealed)'
    <2>0. ContextOf[c] \in Contexts /\ StoreOf(ContextOf[c]) \in Stores
        BY <1>0 DEF DriveConstants
    <2>1. UNCHANGED <<keyFile, memo, making, together>>
        <3>1. CASE Drive!Authorize(c)
            BY <3>1, AuthorizeCall
        <3>2. CASE Drive!Save(c)
            BY <3>2, SaveCall
        <3>3. CASE Drive!OnlyCalls
            BY <3>3 DEF Drive!OnlyCalls, Drive!store
        <3> QED BY <1>4, <3>1, <3>2, <3>3, CallChanges
    <2>2. CASE together
        BY <2>1, <2>2
    <2>3. CASE ~together
        <3>1. Sealed
            BY <2>3
        <3>2. call'[c].pc = "save" => Keyed(call'[c].record, StoreOf(ContextOf[c]))
            <4>1. CASE Drive!Seal(c)
                BY <2>0, <3>1, <4>1, SealCall DEF Sealed, Keyed
            <4>2. CASE ~Drive!Seal(c)
                <5>1. call'[c].pc # "save"
                    <6>1. CASE Drive!Request(c) \/ Drive!Connect(c) \/ Drive!LoadTokens(c)
                        BY <6>1, RequestCall, ConnectCall, LoadTokensCall DEF Ended, Went
                    <6>2. CASE Drive!Open(c) \/ Drive!Authorize(c) \/ Drive!Refused(c)
                        BY <6>2, OpenCall, AuthorizeCall, RefusedCall DEF Ended, Went
                    <6>3. CASE Drive!Save(c) \/ Drive!Fetch(c)
                        BY <6>3, SaveCall, FetchCall DEF Ended, Went
                    <6>4. CASE Drive!Return(c)
                        BY <6>4, ReturnCall DEF Drive!Idle
                    <6> QED BY <1>4, <4>2, <6>1, <6>2, <6>3, <6>4 DEF CallActs
                <5> QED BY <5>1
            <4> QED BY <4>1, <4>2
        <3>3. \A s \in Stores : tokenFile'[s] = NoToken \/ Keyed(tokenFile'[s], s)
            <4>1. CASE Drive!Save(c)
                BY <2>0, <3>1, <4>1, SaveCall DEF Sealed, DriveTypes
            <4>2. CASE ~Drive!Save(c)
                BY <1>4, <3>1, <4>2, AuthorizeCall, CallChanges DEF Sealed, Drive!OnlyCalls, Drive!store
            <4> QED BY <4>1, <4>2
        <3>4. \A d \in Calls : call'[d].pc = "save" => Keyed(call'[d].record, StoreOf(ContextOf[d]))
            BY <1>4, <3>1, <3>2, CallsChange DEF Changes, Sealed
        <3> QED BY <1>0, <2>1, <3>1, <3>3, <3>4 DEF Sealed, Keyed, StoreOf
    <2> QED BY <2>2, <2>3
<1>5. CASE TokenActs
    BY <1>0, <1>5, TokensOnly DEF Sealed, Keyed, StoreOf
<1>6. CASE UNCHANGED Drive!vars
    BY <1>6 DEF Drive!vars, Drive!store, Sealed, Keyed, StoreOf
<1> QED BY <1>1, <1>2, <1>3, <1>4, <1>5, <1>6, DriveSteps

\* A token that was there and that Google no longer accepts.
Stale(t) == t # 0 /\ t \notin live
Token(r) == r.key # 0 /\ r.token # 0

\* What a call has shown by the place it has come to: why it renews a token, and what it holds.
Reasoned(r) ==
    /\ ~r.retry => r.forced
    /\ r.pc \in {"load", "open", "authorize"} /\ r.forced => Stale(r.token)
    /\ r.pc = "open" => Token(r.record)
    /\ r.pc = "authorize" => r.connects \/ Stale(r.token) \/ Stale(r.record.token)
    /\ r.pc \in {"seal", "save"} => r.token > r.since
    /\ r.pc = "save" => r.record.key # 0 /\ r.record.token = r.token
    /\ r.pc = "fetch" => r.token # 0 /\ (r.retry \/ r.token > r.since)
    /\ r.pc # "done" => r.result = "none"
    /\ r.result = "refused" => r.token > r.since
    /\ r.result = "sign in" /\ r.good => Stale(r.token) \/ Stale(r.record.token)
Asked ==
    /\ \A s \in Stores : tokenFile[s] = NoToken \/ Token(tokenFile[s])
    /\ \A c \in Calls : call[c].good => tokenFile[StoreOf(ContextOf[c])] # NoToken
    /\ \A c \in Calls : Reasoned(call[c])

LEMMA StaleStays ==
    ASSUME DriveConstants, DriveTypes, Made, [Drive!Next]_Drive!vars, NEW t, t <= issued, Stale(t)
    PROVE  Stale(t)'
<1>1. ASSUME NEW c \in Calls, CallActs(c) PROVE t \notin live'
    <2>1. CASE Drive!Authorize(c)
        BY <2>1, AuthorizeCall DEF Stale, DriveTypes
    <2>2. CASE Drive!Save(c)
        BY <2>2, SaveCall DEF Stale
    <2>3. CASE Drive!OnlyCalls
        BY <2>3 DEF Drive!OnlyCalls, Drive!google, Stale
    <2> QED BY <1>1, <2>1, <2>2, <2>3, CallChanges
<1>2. ASSUME NEW x \in Contexts, Drive!LoadOrGenerate(x) \/ Drive!WriteKey(x) \/ Drive!Restart(x)
      PROVE  t \notin live'
    BY <1>2 DEF Drive!LoadOrGenerate, Drive!WriteKey, Drive!Restart, Drive!google, Stale
<1>3. CASE TokenActs
    BY <1>3, TokensOnly DEF Stale
<1>4. CASE UNCHANGED Drive!vars
    BY <1>4 DEF Drive!vars, Drive!google, Stale
<1> QED BY <1>1, <1>2, <1>3, <1>4, DriveSteps DEF Stale

LEMMA ReasonStays ==
    ASSUME DriveConstants, DriveTypes, Made, [Drive!Next]_Drive!vars,
           NEW r, r.token <= issued, r.record.token <= issued, Reasoned(r)
    PROVE  Reasoned(r)'
<1>1. /\ Stale(r.token) => Stale(r.token)'
      /\ Stale(r.record.token) => Stale(r.record.token)'
    BY StaleStays
<1> QED BY <1>1 DEF Reasoned, Token

\* A call shows at its next place what it came there for.
LEMMA ReasonNext ==
    ASSUME DriveConstants, DriveTypes, Made, Asked, [Drive!Next]_Drive!vars, NEW c \in Calls, CallActs(c)
    PROVE  Reasoned(call[c])'
<1>1. PICK q \in AccessCalls : q = call[c]
    BY DEF DriveTypes
<1>2. PICK r \in AccessCalls : r = call'[c]
    BY CallsChange DEF Changes
<1>3. /\ Reasoned(q) /\ q.token <= issued /\ q.record.token <= issued /\ q.since <= issued
      /\ issued \in Nat /\ q.token \in Nat /\ q.since \in Nat /\ q.record.token \in Nat
    BY <1>1 DEF Asked, Made, MadeRecord, DriveTypes, AccessCalls, Records
<1>4. Reasoned(q)'
    BY <1>3, ReasonStays
<1>5. SUFFICES Reasoned(r)'
    BY <1>2 DEF Reasoned
<1>6. CASE Drive!Request(c)
    <2>1. /\ r.pc \in {"fetch", "load"}
          /\ r.pc = "fetch" => r.token # 0
          /\ r.retry = TRUE /\ r.forced = FALSE /\ r.result = "none"
        BY <1>2, <1>6, RequestCall
    <2> QED BY <2>1 DEF Reasoned
<1>7. CASE Drive!Connect(c)
    <2>1. r.pc = "authorize" /\ r.connects /\ r.retry = TRUE /\ r.forced = FALSE /\ r.result = "none"
        BY <1>2, <1>7, ConnectCall
    <2> QED BY <2>1 DEF Reasoned
<1>8. CASE Drive!LoadTokens(c)
    <2>1. PICK e \in Records : e = tokenFile[StoreOf(ContextOf[c])]
        BY StoresAre DEF DriveConstants, DriveTypes
    <2>2. /\ q.pc = "load"
          /\ \/ e = NoToken /\ Ended(r, q, "sign in")
             \/ e # NoToken /\ Went(r, q, "open") /\ r.record = e /\ r.token = q.token
        BY <1>1, <1>2, <1>8, <2>1, LoadTokensCall
    <2>3. (e = NoToken \/ Token(e)) /\ (q.good => e # NoToken)
        BY <1>1, <2>1, StoresAre DEF Asked, DriveConstants
    <2>4. CASE e = NoToken /\ Ended(r, q, "sign in")
        BY <1>4, <2>2, <2>3, <2>4 DEF Reasoned, Ended, Same
    <2>5. CASE e # NoToken /\ Went(r, q, "open") /\ r.record = e /\ r.token = q.token
        BY <1>4, <2>2, <2>3, <2>5 DEF Reasoned, Went, Same, Token
    <2> QED BY <2>2, <2>4, <2>5
<1>9. CASE Drive!Open(c)
    <2>1. live' = live
        BY <1>9, OpenCall DEF Drive!OnlyCalls, Drive!google
    <2>2. /\ q.pc = "open" /\ r.record = q.record
          /\ \/ Ended(r, q, "error")
             \/ Went(r, q, "authorize") /\ r.token = q.token /\ (q.forced \/ q.record.token \in late)
             \/ Went(r, q, "fetch") /\ r.token = q.record.token /\ ~q.forced
        BY <1>1, <1>2, <1>9, OpenCall
    <2>3. CASE Ended(r, q, "error")
        BY <1>4, <2>2, <2>3 DEF Reasoned, Ended, Same
    <2>4. CASE Went(r, q, "authorize") /\ r.token = q.token /\ (q.forced \/ q.record.token \in late)
        <3>1. q.record.token \in late => q.record.token # 0 /\ q.record.token \notin live
            BY <1>3 DEF Made
        <3> QED BY <1>4, <2>1, <2>2, <2>4, <3>1 DEF Reasoned, Went, Same, Stale
    <2>5. CASE Went(r, q, "fetch") /\ r.token = q.record.token /\ ~q.forced
        BY <1>4, <2>2, <2>5 DEF Reasoned, Went, Same, Token
    <2> QED BY <2>2, <2>3, <2>4, <2>5
<1>10. CASE Drive!Authorize(c)
    <2>1. /\ q.pc = "authorize" /\ Went(r, q, "seal") /\ r.token = issued + 1
        BY <1>1, <1>2, <1>10, AuthorizeCall
    <2>2. r.token > r.since
        BY <1>3, <2>1 DEF Went, Same
    <2> QED BY <1>4, <2>1, <2>2 DEF Reasoned, Went, Same
<1>11. CASE Drive!Refused(c)
    <2>1. /\ q.pc = "authorize"
          /\ Ended(r, q, "cancelled") \/ (Ended(r, q, "sign in") /\ ~q.connects)
        BY <1>1, <1>2, <1>11, RefusedCall
    <2> QED BY <1>4, <2>1 DEF Reasoned, Ended, Same
<1>12. CASE Drive!Seal(c)
    <2>1. /\ q.pc = "seal" /\ memo[ContextOf[c]] # 0 /\ Went(r, q, "save") /\ r.token = q.token
          /\ r.record.key = memo[ContextOf[c]] /\ r.record.token = q.token
        BY <1>1, <1>2, <1>12, SealCall
    <2> QED BY <1>4, <2>1 DEF Reasoned, Went, Same
<1>13. CASE Drive!Save(c)
    <2>1. /\ q.pc = "save" /\ r.token = q.token /\ r.record = q.record
          /\ Ended(r, q, "ok") \/ Went(r, q, "fetch")
        BY <1>1, <1>2, <1>13, SaveCall
    <2>2. q.token > q.since
        BY <1>3, <2>1 DEF Reasoned
    <2>3. q.token # 0
        BY <1>3, <2>2
    <2> QED BY <1>4, <2>1, <2>2, <2>3 DEF Reasoned, Ended, Went, Same
<1>14. CASE Drive!Fetch(c)
    <2>1. live' = live
        BY <1>14, FetchCall DEF Drive!OnlyCalls, Drive!google
    <2>2. /\ q.pc = "fetch" /\ r.token = q.token /\ r.record = q.record
          /\ \/ Ended(r, q, "ok")
             \/ Ended(r, q, "refused") /\ ~q.retry
             \/ /\ r.pc = "load" /\ r.forced = TRUE /\ r.retry = FALSE /\ r.result = q.result
                /\ r.since = q.since /\ r.good = q.good /\ q.token \notin live
        BY <1>1, <1>2, <1>14, FetchCall
    <2> QED BY <1>4, <2>1, <2>2 DEF Reasoned, Ended, Same, Stale
<1>15. CASE Drive!Return(c)
    <2>1. r.pc = "idle" /\ r.retry = TRUE /\ r.result = "none" /\ r.forced = FALSE
        BY <1>2, <1>15, ReturnCall DEF Drive!Idle
    <2> QED BY <2>1 DEF Reasoned
<1> QED BY <1>6, <1>7, <1>8, <1>9, <1>10, <1>11, <1>12, <1>13, <1>14, <1>15 DEF CallActs

\* A token on disk is only ever replaced by another, unless the store goes with its context.
LEMMA KeepsTokens ==
    ASSUME DriveConstants, DriveTypes, Asked, [Drive!Next]_Drive!vars, NEW s \in Stores
    PROVE  /\ tokenFile'[s] = NoToken \/ Token(tokenFile'[s])
           /\ \/ tokenFile[s] # NoToken => tokenFile'[s] # NoToken
              \/ \E x \in Contexts : x = s /\ Drive!Restart(x)
<1>0. (tokenFile[s] = NoToken \/ Token(tokenFile[s])) /\ ~Token(NoToken)
    BY DEF Asked, Token, NoToken
<1>1. ASSUME NEW c \in Calls, Drive!Save(c)
      PROVE  Token(tokenFile'[s]) \/ tokenFile'[s] = tokenFile[s]
    <2>1. /\ Reasoned(call[c]) /\ call[c].pc = "save"
          /\ tokenFile' = [tokenFile EXCEPT ![StoreOf(ContextOf[c])] = call[c].record]
        BY <1>1, SaveCall DEF Asked
    <2>2. call[c].token # 0 /\ call[c].record.key # 0 /\ call[c].record.token = call[c].token
        <3>1. call[c].token \in Nat /\ call[c].since \in Nat
            BY DEF DriveTypes, AccessCalls
        <3>2. call[c].token > call[c].since /\ call[c].record.key # 0 /\ call[c].record.token = call[c].token
            BY <2>1 DEF Reasoned
        <3> QED BY <3>1, <3>2
    <2>3. Token(call[c].record)
        BY <2>2 DEF Token
    <2> QED BY <2>1, <2>3 DEF DriveTypes
<1>2. ASSUME NEW c \in Calls, CallActs(c)
      PROVE  Token(tokenFile'[s]) \/ tokenFile'[s] = tokenFile[s]
    BY <1>1, <1>2, CallChanges, AuthorizeCall DEF Drive!OnlyCalls, Drive!store
<1>3. ASSUME NEW x \in Contexts, Drive!LoadOrGenerate(x) \/ Drive!WriteKey(x)
      PROVE  tokenFile' = tokenFile
    BY <1>3 DEF Drive!LoadOrGenerate, Drive!WriteKey, Drive!store
<1>4. ASSUME NEW x \in Contexts, Drive!Restart(x)
      PROVE  tokenFile'[s] = IF s = x THEN NoToken ELSE tokenFile[s]
    BY <1>4, StoresAre DEF Drive!Restart, DriveTypes
<1>5. CASE TokenActs \/ UNCHANGED Drive!vars
    <2>1. tokenFile' = tokenFile
        BY <1>5, TokensOnly DEF Drive!vars, Drive!store
    <2> QED BY <1>0, <2>1
<1>6. CASE \E x \in Contexts : Drive!LoadOrGenerate(x) \/ Drive!WriteKey(x) \/ Drive!Restart(x)
    BY <1>0, <1>3, <1>4, <1>6
<1>7. CASE \E c \in Calls : CallActs(c)
    BY <1>0, <1>2, <1>7
<1> QED BY <1>5, <1>6, <1>7, DriveSteps

LEMMA AskedStep ==
    ASSUME DriveConstants, DriveTypes, Made, Asked, [Drive!Next]_Drive!vars
    PROVE  Asked'
<1>0. \A c \in Calls : ContextOf[c] \in Contexts /\ StoreOf(ContextOf[c]) \in Stores
    BY StoresAre DEF DriveConstants
<1>1. UNCHANGED memory /\ \A x : StoreOf(x)' = StoreOf(x')
    BY StoreStays
<1>2. \A s \in Stores : tokenFile'[s] = NoToken \/ Token(tokenFile'[s])
    BY KeepsTokens
<1>3. ASSUME NEW c \in Calls, call'[c] = call[c]
      PROVE  Reasoned(call[c])'
    <2>1. PICK r : r = call[c]
        OBVIOUS
    <2>2. Reasoned(r) /\ r.token <= issued /\ r.record.token <= issued
        BY <2>1 DEF Asked, Made, MadeRecord
    <2>3. Reasoned(r)'
        BY <2>2, ReasonStays
    <2> QED BY <1>3, <2>1, <2>3 DEF Reasoned
<1>4. ASSUME NEW c \in Calls, call'[c] = Drive!Idle
      PROVE  Reasoned(call[c])' /\ ~call'[c].good
    BY <1>4 DEF Reasoned, Drive!Idle
<1>5. \A c \in Calls : Reasoned(call[c])'
    <2>1. ASSUME NEW c \in Calls, CallActs(c)
          PROVE  \A d \in Calls : Reasoned(call[d])'
        BY <1>3, <2>1, ReasonNext, CallsChange DEF Changes
    <2>2. ASSUME NEW x \in Contexts, Drive!LoadOrGenerate(x) \/ Drive!WriteKey(x) \/ Drive!Restart(x), NEW d \in Calls
          PROVE  call'[d] = call[d] \/ call'[d] = Drive!Idle
        BY <2>2 DEF Drive!LoadOrGenerate, Drive!WriteKey, Drive!Restart
    <2>3. TokenActs \/ UNCHANGED Drive!vars => call' = call
        BY TokensOnly DEF Drive!vars
    <2> QED BY <1>3, <1>4, <2>1, <2>2, <2>3, DriveSteps
<1>6. ASSUME NEW c \in Calls, call'[c].good
      PROVE  tokenFile'[StoreOf(ContextOf[c])] # NoToken
    <2>1. \/ tokenFile[StoreOf(ContextOf[c])] # NoToken => tokenFile'[StoreOf(ContextOf[c])] # NoToken
          \/ \E x \in Contexts : x = StoreOf(ContextOf[c]) /\ Drive!Restart(x)
        BY <1>0, KeepsTokens
    <2>2. \A x \in Contexts : x = StoreOf(ContextOf[c]) => x = ContextOf[c]
        BY DEF StoreOf, Contexts
    <2>3. ~\E x \in Contexts : x = StoreOf(ContextOf[c]) /\ Drive!Restart(x)
        BY <1>4, <1>6, <2>2 DEF Drive!Restart
    <2>4. tokenFile[StoreOf(ContextOf[c])] # NoToken
        <3>1. CASE Drive!Request(c)
            <4>1. Drive!Good(ContextOf[c])
                BY <1>6, <3>1, RequestCall
            <4>2. tokenFile[StoreOf(ContextOf[c])].token \in live
                BY <4>1, StoresAre DEF Drive!Good
            <4>3. 0 \notin live
                BY DEF Made, DriveTypes
            <4> QED BY <4>2, <4>3 DEF NoToken
        <3>2. call[c].good => tokenFile[StoreOf(ContextOf[c])] # NoToken
            BY DEF Asked
        <3>3. ASSUME CallActs(c), ~Drive!Request(c)
              PROVE  call'[c].good = call[c].good \/ call'[c].good = FALSE
            <4>1. CASE Drive!Connect(c) \/ Drive!LoadTokens(c) \/ Drive!Open(c)
                BY <4>1, ConnectCall, LoadTokensCall, OpenCall DEF Ended, Went, Same
            <4>2. CASE Drive!Authorize(c) \/ Drive!Refused(c) \/ Drive!Seal(c)
                BY <4>2, AuthorizeCall, RefusedCall, SealCall DEF Ended, Went, Same
            <4>3. CASE Drive!Save(c) \/ Drive!Fetch(c)
                BY <4>3, SaveCall, FetchCall DEF Ended, Went, Same
            <4>4. CASE Drive!Return(c)
                BY <4>4, ReturnCall DEF Drive!Idle
            <4> QED BY <3>3, <4>1, <4>2, <4>3, <4>4 DEF CallActs
        <3>4. CASE ~CallActs(c)
            <4>1. ASSUME NEW d \in Calls, CallActs(d) PROVE call'[c] = call[c]
                BY <3>4, <4>1, CallsChange DEF Changes
            <4>2. ASSUME NEW x \in Contexts, Drive!LoadOrGenerate(x) \/ Drive!WriteKey(x) \/ Drive!Restart(x)
                  PROVE  call'[c] = call[c] \/ call'[c] = Drive!Idle
                BY <4>2 DEF Drive!LoadOrGenerate, Drive!WriteKey, Drive!Restart
            <4>3. TokenActs \/ UNCHANGED Drive!vars => call' = call
                BY TokensOnly DEF Drive!vars
            <4> QED BY <1>4, <1>6, <3>2, <4>1, <4>2, <4>3, DriveSteps
        <3> QED BY <1>6, <3>1, <3>2, <3>3, <3>4
    <2> QED BY <2>1, <2>3, <2>4
<1> QED BY <1>1, <1>2, <1>5, <1>6 DEF Asked, StoreOf, Token

DriveInv == DriveTypes /\ Made /\ (together \/ Sealed) /\ Asked

LEMMA DriveBegin == Drive!Init => DriveInv
<1> SUFFICES ASSUME Drive!Init PROVE DriveInv
    OBVIOUS
<1>1. \A c \in Calls : call[c] = Drive!Idle
    BY DEF Drive!Init
<1>2. DriveTypes
    BY IdleAccess, StoresAre DEF Drive!Init, DriveTypes, Contexts, Stores
<1>3. Made
    BY <1>1, StoresAre DEF Drive!Init, Drive!Idle, Made, MadeRecord, NoToken, Stores, Contexts
<1>4. Sealed
    BY <1>1, StoresAre DEF Drive!Init, Drive!Idle, Sealed, Keyed, Contexts
<1>5. Asked
    BY <1>1, StoresAre DEF Drive!Init, Drive!Idle, Asked, Reasoned
<1> QED BY <1>2, <1>3, <1>4, <1>5 DEF DriveInv

LEMMA DriveGoesOn == DriveConstants /\ DriveInv /\ [Drive!Next]_Drive!vars => DriveInv'
<1> SUFFICES ASSUME DriveConstants, DriveInv, [Drive!Next]_Drive!vars PROVE DriveInv'
    OBVIOUS
<1>1. DriveTypes'
    BY DriveTypesStep DEF DriveInv
<1>2. Made'
    BY <1>1, MadeStep DEF DriveInv
<1>3. (together \/ Sealed)'
    BY SealedStep DEF DriveInv
<1>4. Asked'
    BY AskedStep DEF DriveInv
<1> QED BY <1>1, <1>2, <1>3, <1>4 DEF DriveInv

LEMMA DriveTypeOK == DriveInv => Drive!TypeOK
<1> SUFFICES ASSUME DriveInv PROVE Drive!TypeOK
    OBVIOUS
<1>1. \A s \in Stores : /\ keyFile[s] \in 0..keys /\ tokenFile[s].key \in 0..keys
                        /\ tokenFile[s].token \in 0..issued
    <2>1. \A s \in Stores : /\ keyFile[s] \in Nat /\ tokenFile[s].key \in Nat /\ tokenFile[s].token \in Nat
                            /\ keyFile[s] <= keys /\ tokenFile[s].key <= keys /\ tokenFile[s].token <= issued
        BY DEF DriveInv, DriveTypes, Made, MadeRecord, Records
    <2> QED BY <2>1 DEF DriveInv, DriveTypes
<1>2. \A c \in Calls : call[c].token \in 0..issued
    <2>1. \A c \in Calls : call[c].token \in Nat /\ call[c].token <= issued
        BY DEF DriveInv, DriveTypes, AccessCalls, Made
    <2> QED BY <2>1 DEF DriveInv, DriveTypes
<1>3. memory \subseteq Contexts /\ live \cup late \subseteq 1..issued
    BY DEF DriveInv, DriveTypes, Made
<1> QED BY <1>1, <1>2, <1>3, StoresAre DEF Drive!TypeOK, Contexts

\* The token on disk opens with the key on disk, and the user is asked to sign in only when
\* Google has stopped accepting what was there: for any calls of a background and a page, any
\* tokens and restarts, and wherever the files are kept.
THEOREM BackgroundReachesDrive ==
    ASSUME DriveConstants
    PROVE  BackgroundSpec => []DriveReachable
<1> DEFINE Inv == subject = "DriveAccess" => DriveInv
<1>1. BackgroundInit => Inv
    BY BackgroundBegin, DriveBegin
<1>2. Inv /\ [BackgroundNext]_<<subject, vars, shared>> => Inv'
    BY BackgroundStep, DriveGoesOn
<1>3. Inv => DriveReachable
    <2> SUFFICES ASSUME DriveInv PROVE Drive!SealedReadable /\ Drive!AskedOnlyWhenNeeded
        BY DEF DriveReachable
    <2>1. Drive!SealedReadable
        BY StoresAre DEF DriveInv, Sealed, Keyed, Drive!SealedReadable
    <2>2. Drive!AskedOnlyWhenNeeded
        BY DEF DriveInv, Asked, Reasoned, Stale, Drive!AskedOnlyWhenNeeded
    <2> QED BY <2>1, <2>2
<1> QED BY <1>1, <1>2, <1>3, PTL DEF BackgroundSpec

----------------------------------------------------------------------------
(* LoginCapture.                                                           *)

openTabs == v1
captures == v2
generated == v3
logins == v4
handler == v5
submits == v6
due == v7
clash == v8
strayed == v9
USE DEF openTabs, captures, generated, logins, handler, submits, due, clash, strayed

Logged == Logins!Capture \cup {None}
Vaulted == [url : Names, user : Names, pass : Names \cup {Gen, Old}]
LoginPcs == {"idle", "get", "set", "badge", "xget", "xset", "capture", "prompt", "persist"}
LoginRecs == [pc : LoginPcs, tab : Twins \cup {None}, login : Logged, all : [Twins -> Logged] \cup {None},
              entry : Vaulted \cup {None}]

\* What a handler has in hand at each of its waits.
Holds(r) ==
    /\ r.pc # "idle" => r.tab \in Twins
    /\ r.pc \in {"set", "xset"} => r.all \in [Twins -> Logged]
    /\ r.pc \in {"get", "set"} => r.login \in Logins!Capture
LoginTypes ==
    /\ captures \in [Twins -> Logged] /\ due \in [Twins -> Logged] /\ generated \in {Gen, None}
    /\ logins \subseteq Vaulted /\ openTabs \subseteq Twins
    /\ handler \in [Handlers -> LoginRecs]
    /\ \A h \in Handlers : Holds(handler[h])

LEMMA IdleLogin == /\ Logins!Idle \in LoginRecs /\ Logins!Idle.pc = "idle" /\ Logins!Idle.tab = None
                   /\ Logins!Idle.login = None /\ Logins!Idle.all = None /\ Logins!Idle.entry = None
BY DEF Logins!Idle, LoginRecs, LoginPcs, Logged

\* A step of one handler, which goes from q to r.
Hands(h, r) ==
    /\ r \in LoginRecs /\ handler'[h] = r
    /\ handler' \in [Handlers -> LoginRecs]
    /\ \A g \in Handlers \ {h} : handler'[g] = handler[g]

LEMMA BecomesHands ==
    ASSUME LoginTypes, NEW h \in Handlers, NEW r \in LoginRecs, Logins!Become(h, r)
    PROVE  Hands(h, r)
BY DEF LoginTypes, Logins!Become, Hands

LEMMA GoesTo ==
    ASSUME LoginTypes, NEW h \in Handlers, NEW pc \in LoginPcs, Logins!Goto(h, pc)
    PROVE  \E r \in LoginRecs : /\ Hands(h, r) /\ r.pc = pc /\ r.tab = handler[h].tab
                                /\ r.login = handler[h].login /\ r.all = handler[h].all /\ r.entry = handler[h].entry
<1>1. PICK r : r = [handler[h] EXCEPT !.pc = pc]
    OBVIOUS
<1>2. handler[h] \in LoginRecs
    BY DEF LoginTypes
<1>3. /\ r \in LoginRecs /\ r.pc = pc /\ r.tab = handler[h].tab
      /\ r.login = handler[h].login /\ r.all = handler[h].all /\ r.entry = handler[h].entry
    BY <1>1, <1>2 DEF LoginRecs
<1>4. handler' = [handler EXCEPT ![h] = r]
    BY <1>1 DEF Logins!Goto
<1>5. Hands(h, r)
    BY <1>3, <1>4 DEF LoginTypes, Hands
<1> QED BY <1>3, <1>5

LEMMA FinishesHands ==
    ASSUME LoginTypes, NEW h \in Handlers, Logins!Finish(h)
    PROVE  Hands(h, Logins!Idle)
BY IdleLogin, BecomesHands DEF Logins!Finish

\* A handler that begins with something for a tab.
Starting(pc, t) == [Logins!Idle EXCEPT !.pc = pc, !.tab = t]

LEMMA Begins ==
    ASSUME LoginTypes, NEW h \in Handlers, NEW t \in Twins, NEW pc \in {"badge", "xget"},
           Logins!Become(h, Starting(pc, t))
    PROVE  \E r \in LoginRecs : Hands(h, r) /\ r.pc = pc /\ r.tab = t
<1>1. PICK i : i = Logins!Idle
    OBVIOUS
<1>2. PICK r : r = [i EXCEPT !.pc = pc, !.tab = t]
    OBVIOUS
<1>3. r \in LoginRecs /\ r.pc = pc /\ r.tab = t
    BY <1>1, <1>2, IdleLogin DEF LoginRecs, LoginPcs
<1>4. Hands(h, r)
    BY <1>1, <1>2, <1>3, BecomesHands DEF Starting
<1> QED BY <1>3, <1>4

\* The actions, by what a handler has in hand before and after.
LEMMA SubmitStep ==
    ASSUME LoginTypes, NEW h \in Handlers, NEW t \in Twins, NEW login \in Logins!Capture, Logins!Submit(h, t, login)
    PROVE  /\ handler[h].pc = "idle" /\ UNCHANGED <<openTabs, captures, generated, logins>>
           /\ due' = [due EXCEPT ![t] = Logins!Merged(due[t], login)]
           /\ clash' = (clash \/ Logins!Busy) /\ submits' = submits + 1
           /\ strayed' = (strayed \/ (due[t] # None /\ due[t].url # login.url))
           /\ \E r \in LoginRecs : Hands(h, r) /\ r.pc = "get" /\ r.tab = t /\ r.login = login
<1>1. PICK i : i = Logins!Idle
    OBVIOUS
<1>2. PICK r : r = [i EXCEPT !.pc = "get", !.tab = t, !.login = login]
    OBVIOUS
<1>3. r \in LoginRecs /\ r.pc = "get" /\ r.tab = t /\ r.login = login
    BY <1>1, <1>2, IdleLogin DEF LoginRecs, LoginPcs, Logged
<1>4. Hands(h, r)
    BY <1>1, <1>2, <1>3, BecomesHands DEF Logins!Submit
<1>5. due' = [due EXCEPT ![t] = Logins!Merged(due[t], login)]
    BY DEF Logins!Submit, LoginTypes
<1> QED BY <1>3, <1>4, <1>5 DEF Logins!Submit, Logins!At

LEMMA CloseStep ==
    ASSUME LoginTypes, NEW h \in Handlers, NEW t \in Twins, Logins!CloseTab(h, t)
    PROVE  /\ handler[h].pc = "idle" /\ UNCHANGED <<captures, generated, logins, submits, strayed>>
           /\ due' = [due EXCEPT ![t] = None] /\ clash' = (clash \/ Logins!Busy) /\ openTabs' \subseteq Twins
           /\ \E r \in LoginRecs : Hands(h, r) /\ r.pc = "xget" /\ r.tab = t
<1>1. Logins!Become(h, Starting("xget", t))
    BY DEF Logins!CloseTab, Starting
<1>2. \E r \in LoginRecs : Hands(h, r) /\ r.pc = "xget" /\ r.tab = t
    BY <1>1, Begins
<1> QED BY <1>2 DEF Logins!CloseTab, Logins!At, LoginTypes

LEMMA ShowStep ==
    ASSUME LoginTypes, NEW h \in Handlers, NEW t \in Twins, Logins!ShowPrompt(h, t)
    PROVE  /\ handler[h].pc = "idle" /\ UNCHANGED <<openTabs, captures, generated, logins, submits, due, strayed>>
           /\ clash' = (clash \/ Logins!Busy)
           /\ \E r \in LoginRecs : Hands(h, r) /\ r.pc = "badge" /\ r.tab = t
<1>1. Logins!Become(h, Starting("badge", t))
    BY DEF Logins!ShowPrompt, Starting
<1>2. \E r \in LoginRecs : Hands(h, r) /\ r.pc = "badge" /\ r.tab = t
    BY <1>1, Begins
<1> QED BY <1>2 DEF Logins!ShowPrompt, Logins!At

LEMMA DismissStep ==
    ASSUME LoginTypes, NEW h \in Handlers, NEW t \in Twins, Logins!Dismiss(h, t)
    PROVE  /\ handler[h].pc = "idle" /\ UNCHANGED <<openTabs, captures, generated, logins, submits, strayed>>
           /\ due' = [due EXCEPT ![t] = None] /\ clash' = (clash \/ Logins!Busy)
           /\ \E r \in LoginRecs : Hands(h, r) /\ r.pc = "xget" /\ r.tab = t
<1>1. Logins!Become(h, Starting("xget", t))
    BY DEF Logins!Dismiss, Starting
<1>2. \E r \in LoginRecs : Hands(h, r) /\ r.pc = "xget" /\ r.tab = t
    BY <1>1, Begins
<1> QED BY <1>2 DEF Logins!Dismiss, Logins!At, Logins!Forget

LEMMA ApplyStep ==
    ASSUME LoginTypes, NEW h \in Handlers, NEW t \in Twins, NEW e \in logins \cup {None}, Logins!Apply(h, t, e)
    PROVE  /\ handler[h].pc = "idle" /\ UNCHANGED <<openTabs, captures, generated, logins, submits, due, strayed>>
           /\ clash' = (clash \/ Logins!Busy)
           /\ \E r \in LoginRecs : Hands(h, r) /\ r.pc = "capture" /\ r.tab = t
<1>1. PICK i : i = Logins!Idle
    OBVIOUS
<1>2. PICK r : r = [i EXCEPT !.pc = "capture", !.tab = t, !.entry = e]
    OBVIOUS
<1>3. e \in Vaulted \cup {None}
    BY DEF LoginTypes
<1>4. r \in LoginRecs /\ r.pc = "capture" /\ r.tab = t
    BY <1>1, <1>2, <1>3, IdleLogin DEF LoginRecs, LoginPcs
<1>5. Hands(h, r)
    BY <1>1, <1>2, <1>4, BecomesHands DEF Logins!Apply
<1> QED BY <1>4, <1>5 DEF Logins!Apply, Logins!At

\* Reading the record, for a capture or to clear one.
LEMMA ReadStep ==
    ASSUME LoginTypes, NEW h \in Handlers, Logins!ReadToCapture(h) \/ Logins!ReadToClear(h)
    PROVE  /\ UNCHANGED <<openTabs, captures, generated, logins, submits, due, clash, strayed>>
           /\ \E r \in LoginRecs : /\ Hands(h, r) /\ r.tab = handler[h].tab /\ r.login = handler[h].login
                                   /\ r.all = captures
                                   /\ \/ handler[h].pc = "get" /\ r.pc = "set"
                                      \/ handler[h].pc = "xget" /\ r.pc = "xset"
<1>1. ASSUME NEW from, NEW pc \in {"set", "xset"}, handler[h].pc = from,
             Logins!Become(h, [handler[h] EXCEPT !.pc = pc, !.all = captures])
      PROVE  \E r \in LoginRecs : /\ Hands(h, r) /\ r.tab = handler[h].tab /\ r.login = handler[h].login
                                  /\ r.all = captures /\ r.pc = pc
    <2>1. PICK r : r = [handler[h] EXCEPT !.pc = pc, !.all = captures]
        OBVIOUS
    <2>2. handler[h] \in LoginRecs /\ captures \in [Twins -> Logged]
        BY DEF LoginTypes
    <2>3. /\ r \in LoginRecs /\ r.tab = handler[h].tab /\ r.login = handler[h].login
          /\ r.all = captures /\ r.pc = pc
        BY <2>1, <2>2 DEF LoginRecs, LoginPcs
    <2>4. Hands(h, r)
        BY <1>1, <2>1, <2>3, BecomesHands
    <2> QED BY <2>3, <2>4
<1>2. CASE Logins!ReadToCapture(h)
    BY <1>1, <1>2 DEF Logins!ReadToCapture, Logins!At
<1>3. CASE Logins!ReadToClear(h)
    BY <1>1, <1>3 DEF Logins!ReadToClear, Logins!At
<1> QED BY <1>2, <1>3

LEMMA CaptureStep ==
    ASSUME LoginTypes, NEW h \in Handlers, Logins!WriteCapture(h)
    PROVE  /\ handler[h].pc = "set" /\ UNCHANGED <<openTabs, generated, logins, submits, due, clash, strayed>>
           /\ captures' = [handler[h].all EXCEPT ![handler[h].tab] = Logins!Merged(handler[h].all[handler[h].tab], handler[h].login)]
           /\ \E r \in LoginRecs : Hands(h, r) /\ r.pc = "badge" /\ r.tab = handler[h].tab
<1>1. handler[h].pc = "set" /\ Holds(handler[h])
    BY DEF LoginTypes, Logins!WriteCapture, Logins!At
<1>2. handler[h].tab \in Twins /\ handler[h].all \in [Twins -> Logged]
    BY <1>1 DEF Holds
<1>3. Logins!Become(h, Starting("badge", handler[h].tab))
    BY DEF Logins!WriteCapture, Starting
<1>4. \E r \in LoginRecs : Hands(h, r) /\ r.pc = "badge" /\ r.tab = handler[h].tab
    BY <1>2, <1>3, Begins
<1>5. captures' = [handler[h].all EXCEPT ![handler[h].tab] = Logins!Merged(handler[h].all[handler[h].tab], handler[h].login)]
    BY <1>2 DEF Logins!WriteCapture
<1> QED BY <1>1, <1>4, <1>5 DEF Logins!WriteCapture

LEMMA ClearStep ==
    ASSUME LoginTypes, NEW h \in Handlers, Logins!WriteCleared(h)
    PROVE  /\ handler[h].pc = "xset" /\ UNCHANGED <<openTabs, generated, logins, submits, due, clash, strayed>>
           /\ captures' = [handler[h].all EXCEPT ![handler[h].tab] = None]
           /\ Hands(h, Logins!Idle)
BY FinishesHands DEF Logins!WriteCleared, Logins!Cleared, Logins!At

\* The prompt, and a refusal of what the user chose: a login that the vault has is dropped.
LEMMA PromptStep ==
    ASSUME LoginTypes, NEW h \in Handlers, Logins!AskPrompt(h) \/ Logins!Refuse(h)
    PROVE  /\ handler[h].pc \in {"badge", "prompt"}
           /\ UNCHANGED <<openTabs, captures, generated, logins, submits, clash, strayed>>
           /\ \/ UNCHANGED due /\ Hands(h, Logins!Idle)
              \/ /\ due' = [due EXCEPT ![handler[h].tab] = None]
                 /\ \E r \in LoginRecs : Hands(h, r) /\ r.pc = "xget" /\ r.tab = handler[h].tab
<1>1. /\ handler[h].pc \in {"badge", "prompt"}
      /\ UNCHANGED <<openTabs, captures, generated, logins, submits, clash, strayed>>
      /\ \/ UNCHANGED due /\ Logins!Finish(h)
         \/ due' = [due EXCEPT ![handler[h].tab] = None] /\ Logins!Goto(h, "xget")
    BY DEF Logins!AskPrompt, Logins!Refuse, Logins!At, Logins!Forget
<1>2. "xget" \in LoginPcs
    BY DEF LoginPcs
<1> QED BY <1>1, <1>2, FinishesHands, GoesTo

LEMMA ReadApplyStep ==
    ASSUME LoginTypes, NEW h \in Handlers, Logins!ReadToApply(h)
    PROVE  /\ handler[h].pc = "capture"
           /\ UNCHANGED <<openTabs, captures, generated, logins, submits, due, clash, strayed>>
           /\ \E r \in LoginRecs : Hands(h, r) /\ r.pc = "prompt" /\ r.tab = handler[h].tab
                                   /\ r.login = captures[handler[h].tab]
<1>1. handler[h].pc = "capture" /\ Holds(handler[h]) /\ handler[h] \in LoginRecs
    BY DEF LoginTypes, Logins!ReadToApply, Logins!At
<1>2. captures[handler[h].tab] \in Logged
    BY <1>1 DEF LoginTypes, Holds
<1>3. PICK r : r = [handler[h] EXCEPT !.pc = "prompt", !.login = captures[handler[h].tab]]
    OBVIOUS
<1>4. r \in LoginRecs /\ r.pc = "prompt" /\ r.tab = handler[h].tab /\ r.login = captures[handler[h].tab]
    BY <1>1, <1>2, <1>3 DEF LoginRecs, LoginPcs
<1>5. Hands(h, r)
    BY <1>3, <1>4, BecomesHands DEF Logins!ReadToApply
<1> QED BY <1>1, <1>4, <1>5 DEF Logins!ReadToApply

LEMMA CreateStep ==
    ASSUME LoginTypes, NEW h \in Handlers, Logins!CreateEntry(h)
    PROVE  /\ handler[h].pc = "prompt" /\ UNCHANGED <<openTabs, captures, generated, submits, due, clash, strayed>>
           /\ LET login == handler[h].login
              IN  /\ login \in Logins!Capture /\ login.user # None /\ login.pass # None
                  /\ logins' = logins \cup {[url |-> login.url, user |-> login.user, pass |-> login.pass]}
           /\ \E r \in LoginRecs : Hands(h, r) /\ r.pc = "persist" /\ r.tab = handler[h].tab
<1>1. handler[h].login \in Logged
    BY DEF LoginTypes, LoginRecs
<1>2. "persist" \in LoginPcs
    BY DEF LoginPcs
<1> QED BY <1>1, <1>2, GoesTo DEF Logins!CreateEntry, Logins!MayCreate, Logins!Complete, Logins!At, Logged

LEMMA UpdateStep ==
    ASSUME LoginTypes, NEW h \in Handlers, Logins!UpdateEntry(h)
    PROVE  /\ handler[h].pc = "prompt" /\ UNCHANGED <<openTabs, captures, generated, submits, due, clash, strayed>>
           /\ LET login == handler[h].login
                  old == handler[h].entry
              IN  /\ login \in Logins!Capture /\ old \in Vaulted
                  /\ old \in logins /\ old.url = captures[handler[h].tab].url /\ Logins!Password(login) # None
                  /\ logins' = (logins \ {old}) \cup
                        {[url |-> IF login.user = None THEN old.url ELSE login.url,
                          user |-> Logins!Or(login.user, old.user), pass |-> Logins!Password(login)]}
           /\ \E r \in LoginRecs : Hands(h, r) /\ r.pc = "persist" /\ r.tab = handler[h].tab
<1>1. handler[h].login \in Logged /\ handler[h].login # None
    BY DEF LoginTypes, LoginRecs, Logins!UpdateEntry, Logins!MayUpdate
<1>2. "persist" \in LoginPcs
    BY DEF LoginPcs
<1>3. handler[h].entry \in Logins!Candidates(captures[handler[h].tab]) /\ Logins!Password(handler[h].login) # None
    BY DEF Logins!UpdateEntry, Logins!MayUpdate
<1>4. handler[h].entry \in logins /\ handler[h].entry.url = captures[handler[h].tab].url
    BY <1>3 DEF Logins!Candidates, Logins!Stale, Logins!Matched
<1>5. handler[h].entry \in Vaulted
    BY <1>4 DEF LoginTypes
<1> QED BY <1>1, <1>2, <1>3, <1>4, <1>5, GoesTo DEF Logins!UpdateEntry, Logins!At, Logged

LEMMA PersistedStep ==
    ASSUME LoginTypes, NEW h \in Handlers, Logins!Persisted(h) \/ Logins!PersistFails(h)
    PROVE  /\ handler[h].pc = "persist" /\ UNCHANGED <<openTabs, captures, logins, submits, clash, strayed>>
           /\ generated' \in {generated, None}
           /\ \/ UNCHANGED due /\ Hands(h, Logins!Idle)
              \/ /\ due' = [due EXCEPT ![handler[h].tab] = None]
                 /\ \E r \in LoginRecs : Hands(h, r) /\ r.pc = "xget" /\ r.tab = handler[h].tab
<1>1. /\ handler[h].pc = "persist" /\ UNCHANGED <<openTabs, captures, logins, submits, clash, strayed>>
      /\ generated' \in {generated, None}
      /\ \/ UNCHANGED due /\ Logins!Finish(h)
         \/ due' = [due EXCEPT ![handler[h].tab] = None] /\ Logins!Goto(h, "xget")
    BY DEF Logins!Persisted, Logins!PersistFails, Logins!At, Logins!Forget
<1>2. "xget" \in LoginPcs
    BY DEF LoginPcs
<1> QED BY <1>1, <1>2, FinishesHands, GoesTo

\* A submitted form is a capture, and so are two together.
LEMMA SubmissionIs ==
    ASSUME LoginTypes, NEW s \in Names, NEW login \in Logins!Submissions(s)
    PROVE  /\ login \in Logins!Capture /\ login.url = s /\ login.user \in {None, s}
           /\ login.pass \in {None, s, Gen} /\ login.cands \subseteq {s, Gen}
<1>1. ASSUME NEW user \in {None, s}, NEW pass \in {None, s, Gen}, NEW cands \in SUBSET {s, Gen},
             login = [url |-> s, user |-> user, pass |-> pass, cands |-> cands]
      PROVE  /\ login \in Logins!Capture /\ login.url = s /\ login.user \in {None, s}
             /\ login.pass \in {None, s, Gen} /\ login.cands \subseteq {s, Gen}
    BY <1>1 DEF Logins!Capture
<1>2. {} \in SUBSET {s, Gen} /\ {s} \in SUBSET {s, Gen} /\ {Gen} \in SUBSET {s, Gen}
    OBVIOUS
<1>3. \/ generated = Gen \/ generated = None
    BY DEF LoginTypes
<1> QED BY <1>1, <1>2, <1>3 DEF Logins!Submissions, Logins!Form

LEMMA MergedIs ==
    ASSUME NEW old \in Logged, NEW new \in Logins!Capture
    PROVE  Logins!Merged(old, new) \in Logins!Capture
<1>1. CASE old = None
    BY <1>1 DEF Logins!Merged
<1>2. CASE old \in Logins!Capture /\ old # None
    BY <1>2 DEF Logins!Merged, Logins!Or, Logins!Capture
<1> QED BY <1>1, <1>2 DEF Logged

\* A login whose values were all typed, or generated, at its own site.
OwnTyped(login) ==
    /\ login \in Logins!Capture
    /\ login.user \in {None, login.url} /\ login.pass \in {None, login.url, Gen}
    /\ login.cands \subseteq {login.url, Gen}
OwnLogin(login) == login = None \/ OwnTyped(login)

\* The steps of Next: a password, or a handler.
StartActs(h) ==
    \E t \in Twins :
        \/ \E login \in Logins!Capture : OwnTyped(login) /\ Logins!Submit(h, t, login)
        \/ Logins!CloseTab(h, t) \/ Logins!ShowPrompt(h, t) \/ Logins!Dismiss(h, t)
        \/ \E e \in logins \cup {None} : Logins!Apply(h, t, e)
WaitActs(h) ==
    \/ Logins!ReadToCapture(h) \/ Logins!WriteCapture(h) \/ Logins!AskPrompt(h)
    \/ Logins!ReadToApply(h) \/ Logins!CreateEntry(h) \/ Logins!UpdateEntry(h) \/ Logins!Refuse(h)
    \/ Logins!Persisted(h) \/ Logins!PersistFails(h)
    \/ Logins!ReadToClear(h) \/ Logins!WriteCleared(h)
PasswordActs == Logins!GeneratePassword \/ Logins!Expire

LEMMA LoginSteps ==
    ASSUME LoginTypes, [Logins!Next]_Logins!vars
    PROVE  \/ \E h \in Handlers : StartActs(h) \/ WaitActs(h)
           \/ PasswordActs \/ UNCHANGED Logins!vars
<1>1. ASSUME NEW h \in Handlers, NEW t \in Twins, NEW s \in Names, NEW login \in Logins!Submissions(s),
             Logins!Submit(h, t, login)
      PROVE  StartActs(h)
    BY <1>1, SubmissionIs DEF StartActs, OwnTyped
<1> QED BY <1>1 DEF Logins!Next, StartActs, WaitActs, PasswordActs

LEMMA OnlyPassword ==
    ASSUME LoginTypes, PasswordActs \/ UNCHANGED Logins!vars
    PROVE  /\ UNCHANGED <<openTabs, captures, logins, handler, submits, due, clash, strayed>>
           /\ generated' \in {Gen, None}
BY DEF PasswordActs, Logins!GeneratePassword, Logins!Expire, Logins!vars, LoginTypes

LEMMA HoldsStep ==
    ASSUME LoginTypes, NEW h \in Handlers, NEW r, Hands(h, r), Holds(r)
    PROVE  handler' \in [Handlers -> LoginRecs] /\ \A g \in Handlers : Holds(handler'[g])
BY DEF LoginTypes, Hands

LEMMA LoginTypesStep ==
    ASSUME LoginTypes, [Logins!Next]_Logins!vars
    PROVE  LoginTypes'
<1>0. None \in Logged
    BY DEF Logged
<1>1. ASSUME NEW h \in Handlers
      PROVE  handler[h].pc # "idle" => handler[h].tab \in Twins
    BY DEF LoginTypes, Holds
<1>2. ASSUME NEW h \in Handlers, NEW t \in Twins, NEW login \in Logins!Capture, Logins!Submit(h, t, login)
      PROVE  LoginTypes'
    <2>1. PICK r \in LoginRecs : Hands(h, r) /\ r.pc = "get" /\ r.tab = t /\ r.login = login
        BY <1>2, SubmitStep
    <2>2. due[t] \in Logged /\ Logins!Merged(due[t], login) \in Logged
        BY MergedIs DEF LoginTypes, Logged
    <2>3. due' = [due EXCEPT ![t] = Logins!Merged(due[t], login)] /\ UNCHANGED <<openTabs, captures, generated, logins>>
        BY <1>2, SubmitStep
    <2>4. Holds(r)
        BY <2>1 DEF Holds
    <2> QED BY <2>1, <2>2, <2>3, <2>4, HoldsStep DEF LoginTypes
<1>3. ASSUME NEW h \in Handlers, NEW t \in Twins,
             Logins!CloseTab(h, t) \/ Logins!ShowPrompt(h, t) \/ Logins!Dismiss(h, t)
             \/ \E e \in logins \cup {None} : Logins!Apply(h, t, e)
      PROVE  LoginTypes'
    <2>1. PICK r \in LoginRecs : Hands(h, r) /\ r.pc \in {"xget", "badge", "capture"} /\ r.tab = t
        BY <1>3, CloseStep, ShowStep, DismissStep, ApplyStep
    <2>2. /\ due' = due \/ due' = [due EXCEPT ![t] = None]
          /\ UNCHANGED <<captures, generated, logins>> /\ openTabs' \subseteq Twins
        BY <1>3, CloseStep, ShowStep, DismissStep, ApplyStep DEF LoginTypes
    <2>3. Holds(r)
        BY <2>1 DEF Holds
    <2> QED BY <1>0, <2>1, <2>2, <2>3, HoldsStep DEF LoginTypes
<1>4. ASSUME NEW h \in Handlers, WaitActs(h)
      PROVE  LoginTypes'
    <2>0. Holds(handler[h]) /\ handler[h] \in LoginRecs /\ Holds(Logins!Idle)
        BY IdleLogin DEF LoginTypes, Holds
    <2>1. CASE Logins!ReadToCapture(h) \/ Logins!ReadToClear(h)
        <3>1. PICK r \in LoginRecs : /\ Hands(h, r) /\ r.tab = handler[h].tab /\ r.login = handler[h].login
                                     /\ r.all = captures
                                     /\ \/ handler[h].pc = "get" /\ r.pc = "set"
                                        \/ handler[h].pc = "xget" /\ r.pc = "xset"
            BY <2>1, ReadStep
        <3>2. Holds(r)
            BY <2>0, <3>1 DEF Holds, LoginTypes
        <3> QED BY <2>1, <3>1, <3>2, HoldsStep, ReadStep DEF LoginTypes
    <2>2. CASE Logins!WriteCapture(h)
        <3>1. PICK r \in LoginRecs : Hands(h, r) /\ r.pc = "badge" /\ r.tab = handler[h].tab
            BY <2>2, CaptureStep
        <3>2. handler[h].pc = "set" /\ handler[h].tab \in Twins /\ handler[h].all \in [Twins -> Logged]
              /\ handler[h].login \in Logins!Capture
            BY <2>0, <2>2, CaptureStep DEF Holds
        <3>3. handler[h].all[handler[h].tab] \in Logged
            BY <3>2
        <3>4. Logins!Merged(handler[h].all[handler[h].tab], handler[h].login) \in Logged
            BY <3>2, <3>3, MergedIs DEF Logged
        <3>5. captures' \in [Twins -> Logged] /\ UNCHANGED <<openTabs, generated, logins, due>>
            BY <2>2, <3>2, <3>4, CaptureStep
        <3>6. Holds(r)
            BY <3>1, <3>2 DEF Holds
        <3> QED BY <3>1, <3>5, <3>6, HoldsStep DEF LoginTypes
    <2>3. CASE Logins!WriteCleared(h)
        <3>1. captures' \in [Twins -> Logged] /\ UNCHANGED <<openTabs, generated, logins, due>> /\ Hands(h, Logins!Idle)
            BY <1>0, <2>0, <2>3, ClearStep DEF Holds
        <3> QED BY <2>0, <3>1, HoldsStep DEF LoginTypes
    <2>4. CASE Logins!AskPrompt(h) \/ Logins!Refuse(h) \/ Logins!Persisted(h) \/ Logins!PersistFails(h)
        <3>1. /\ handler[h].pc \in {"badge", "prompt", "persist"}
              /\ UNCHANGED <<openTabs, captures, logins>> /\ generated' \in {generated, None}
              /\ \/ UNCHANGED due /\ Hands(h, Logins!Idle)
                 \/ /\ due' = [due EXCEPT ![handler[h].tab] = None]
                    /\ \E r \in LoginRecs : Hands(h, r) /\ r.pc = "xget" /\ r.tab = handler[h].tab
            BY <2>4, PromptStep, PersistedStep
        <3>2. due' \in [Twins -> Logged] /\ generated' \in {Gen, None}
            BY <1>0, <3>1 DEF LoginTypes
        <3>3. handler' \in [Handlers -> LoginRecs] /\ \A g \in Handlers : Holds(handler'[g])
            <4>1. CASE Hands(h, Logins!Idle)
                BY <2>0, <4>1, HoldsStep
            <4>2. ASSUME NEW r \in LoginRecs, Hands(h, r), r.pc = "xget", r.tab = handler[h].tab
                  PROVE  Holds(r)
                BY <1>1, <3>1, <4>2 DEF Holds
            <4> QED BY <3>1, <4>1, <4>2, HoldsStep
        <3> QED BY <3>1, <3>2, <3>3 DEF LoginTypes
    <2>5. CASE Logins!ReadToApply(h)
        <3>1. PICK r \in LoginRecs : Hands(h, r) /\ r.pc = "prompt" /\ r.tab = handler[h].tab
            BY <2>5, ReadApplyStep
        <3>2. Holds(r)
            BY <1>1, <2>5, <3>1, ReadApplyStep DEF Holds
        <3> QED BY <2>5, <3>1, <3>2, HoldsStep, ReadApplyStep DEF LoginTypes
    <2>6. CASE Logins!CreateEntry(h) \/ Logins!UpdateEntry(h)
        <3>1. PICK r \in LoginRecs : Hands(h, r) /\ r.pc = "persist" /\ r.tab = handler[h].tab
            BY <2>6, CreateStep, UpdateStep
        <3>2. Holds(r)
            BY <1>1, <2>6, <3>1, CreateStep, UpdateStep DEF Holds
        <3>3. UNCHANGED <<openTabs, captures, generated, due>>
            BY <2>6, CreateStep, UpdateStep
        <3>4. logins' \subseteq Vaulted
            <4>1. CASE Logins!CreateEntry(h)
                <5>1. /\ handler[h].login \in Logins!Capture /\ handler[h].login.user # None /\ handler[h].login.pass # None
                      /\ logins' = logins \cup {[url |-> handler[h].login.url, user |-> handler[h].login.user,
                                                 pass |-> handler[h].login.pass]}
                    BY <4>1, CreateStep
                <5> QED BY <5>1 DEF Logins!Capture, Vaulted, LoginTypes
            <4>2. CASE Logins!UpdateEntry(h)
                <5>1. PICK login \in Logins!Capture : login = handler[h].login
                    BY <4>2, UpdateStep
                <5>2. PICK old \in Vaulted : old = handler[h].entry
                    BY <4>2, UpdateStep
                <5>3. PICK user \in Names : user = Logins!Or(login.user, old.user)
                    BY <5>1, <5>2 DEF Logins!Or, Logins!Capture, Vaulted
                <5>4. PICK pass \in Names \cup {Gen} : pass = Logins!Password(login)
                    <6>1. Logins!Password(login) # None
                        BY <4>2, <5>1, UpdateStep
                    <6> QED BY <6>1 DEF Logins!Password, Logins!Capture, LoginTypes
                <5>5. PICK url \in Names : url = IF login.user = None THEN old.url ELSE login.url
                    BY <5>1, <5>2 DEF Logins!Capture, Vaulted
                <5>6. logins' = (logins \ {old}) \cup {[url |-> url, user |-> user, pass |-> pass]}
                    BY <4>2, <5>1, <5>2, <5>3, <5>4, <5>5, UpdateStep
                <5> QED BY <5>6 DEF Vaulted, LoginTypes
            <4> QED BY <2>6, <4>1, <4>2
        <3> QED BY <3>1, <3>2, <3>3, <3>4, HoldsStep DEF LoginTypes
    <2> QED BY <1>4, <2>1, <2>2, <2>3, <2>4, <2>5, <2>6 DEF WaitActs
<1>5. CASE PasswordActs \/ UNCHANGED Logins!vars
    BY <1>5, OnlyPassword DEF LoginTypes
<1> QED BY <1>2, <1>3, <1>4, <1>5, LoginSteps DEF StartActs

\* Unless two handlers overlapped, one at a time has the record in hand, and what is due is
\* the record with what that handler is still to write.
Due(r) ==
    /\ r.pc \in {"get", "set"} => due = [captures EXCEPT ![r.tab] = Logins!Merged(captures[r.tab], r.login)]
    /\ r.pc \in {"set", "xset"} => r.all = captures
    /\ r.pc \in {"xget", "xset"} => due = [captures EXCEPT ![r.tab] = None]
    /\ r.pc \in {"idle", "badge", "capture", "prompt", "persist"} => due = captures
    /\ r.pc = "prompt" => r.login = captures[r.tab]
Alone ==
    /\ \A g, h \in Handlers : handler[g].pc # "idle" /\ handler[h].pc # "idle" => g = h
    /\ (\A h \in Handlers : handler[h].pc = "idle") => due = captures
    /\ \A h \in Handlers : handler[h].pc # "idle" => Due(handler[h])

\* The one handler goes on, or begins when no other runs.
LEMMA AloneHolds ==
    ASSUME LoginTypes, NEW h \in Handlers, NEW r, Hands(h, r), Due(r)',
           \A g \in Handlers \ {h} : handler[g].pc = "idle"
    PROVE  Alone'
<1>1. \A g \in Handlers \ {h} : handler'[g].pc = "idle"
    BY DEF Hands
<1>2. handler'[h] = r
    BY DEF Hands
<1>3. (\A g \in Handlers : handler'[g].pc = "idle") => due' = captures'
    BY <1>2 DEF Due
<1>4. \A g \in Handlers : handler'[g].pc # "idle" => g = h
    BY <1>1
<1>5. \A g \in Handlers : handler'[g].pc # "idle" => Due(handler[g])'
    BY <1>2, <1>4 DEF Due
<1> QED BY <1>3, <1>4, <1>5 DEF Alone

LEMMA AloneStep ==
    ASSUME LoginTypes, clash \/ Alone, [Logins!Next]_Logins!vars
    PROVE  clash' \/ Alone'
<1>1. ASSUME NEW h \in Handlers, StartActs(h)
      PROVE  clash' \/ Alone'
    <2>1. PICK t \in Twins : \/ \E login \in Logins!Capture : Logins!Submit(h, t, login)
                             \/ Logins!CloseTab(h, t) \/ Logins!ShowPrompt(h, t) \/ Logins!Dismiss(h, t)
                             \/ \E e \in logins \cup {None} : Logins!Apply(h, t, e)
        BY <1>1 DEF StartActs
    <2>2. clash' = (clash \/ Logins!Busy) /\ UNCHANGED captures
        BY <2>1, SubmitStep, CloseStep, ShowStep, DismissStep, ApplyStep
    <2>3. SUFFICES ASSUME ~clash, ~Logins!Busy PROVE Alone'
        BY <2>2
    <2>4. due = captures /\ \A g \in Handlers : handler[g].pc = "idle"
        BY <2>3 DEF Alone, Logins!Busy, Logins!At
    <2>5. ASSUME NEW login \in Logins!Capture, Logins!Submit(h, t, login)
          PROVE  Alone'
        <3>1. PICK r \in LoginRecs : Hands(h, r) /\ r.pc = "get" /\ r.tab = t /\ r.login = login
            BY <2>5, SubmitStep
        <3>2. due' = [due EXCEPT ![t] = Logins!Merged(due[t], login)] /\ UNCHANGED captures
            BY <2>5, SubmitStep
        <3>3. due' = [captures' EXCEPT ![r.tab] = Logins!Merged(captures'[r.tab], r.login)]
            BY <2>4, <3>1, <3>2
        <3>4. Logins!Merged(captures[r.tab], r.login)' = Logins!Merged(captures'[r.tab], r.login)
            BY DEF Logins!Merged, Logins!Or
        <3>5. Due(r)'
            BY <3>1, <3>3, <3>4 DEF Due
        <3> QED BY <2>4, <3>1, <3>5, AloneHolds
    <2>6. CASE Logins!CloseTab(h, t) \/ Logins!Dismiss(h, t)
        <3>1. PICK r \in LoginRecs : Hands(h, r) /\ r.pc = "xget" /\ r.tab = t
            BY <2>6, CloseStep, DismissStep
        <3>2. due' = [due EXCEPT ![t] = None] /\ UNCHANGED captures
            BY <2>6, CloseStep, DismissStep
        <3>3. Due(r)'
            BY <2>4, <3>1, <3>2 DEF Due
        <3> QED BY <2>4, <3>1, <3>3, AloneHolds
    <2>7. CASE Logins!ShowPrompt(h, t) \/ \E e \in logins \cup {None} : Logins!Apply(h, t, e)
        <3>1. PICK r \in LoginRecs : Hands(h, r) /\ r.pc \in {"badge", "capture"} /\ r.tab = t
            BY <2>7, ShowStep, ApplyStep
        <3>2. UNCHANGED <<due, captures>>
            BY <2>7, ShowStep, ApplyStep
        <3>3. Due(r)'
            BY <2>4, <3>1, <3>2 DEF Due
        <3> QED BY <2>4, <3>1, <3>3, AloneHolds
    <2> QED BY <2>1, <2>5, <2>6, <2>7
<1>2. ASSUME NEW h \in Handlers, WaitActs(h), ~clash
      PROVE  Alone'
    <2>0. handler[h].pc # "idle"
        BY <1>2, ReadStep, CaptureStep, PromptStep, ReadApplyStep, CreateStep, UpdateStep, PersistedStep, ClearStep
           DEF WaitActs
    <2>1. /\ Due(handler[h]) /\ \A g \in Handlers \ {h} : handler[g].pc = "idle"
          /\ handler[h].tab \in Twins /\ Holds(handler[h])
        BY <1>2, <2>0 DEF Alone, LoginTypes, Holds
    <2>2. CASE Logins!ReadToCapture(h) \/ Logins!ReadToClear(h)
        <3>1. PICK r \in LoginRecs : /\ Hands(h, r) /\ r.tab = handler[h].tab /\ r.login = handler[h].login
                                     /\ r.all = captures
                                     /\ \/ handler[h].pc = "get" /\ r.pc = "set"
                                        \/ handler[h].pc = "xget" /\ r.pc = "xset"
            BY <2>2, ReadStep
        <3>2. UNCHANGED <<due, captures>>
            BY <2>2, ReadStep
        <3>3. Logins!Merged(captures[r.tab], r.login)' = Logins!Merged(captures[r.tab], r.login)
            BY <3>2 DEF Logins!Merged, Logins!Or
        <3>4. Due(r)'
            BY <2>1, <3>1, <3>2, <3>3 DEF Due
        <3> QED BY <2>1, <3>1, <3>4, AloneHolds
    <2>3. CASE Logins!WriteCapture(h)
        <3>1. PICK r \in LoginRecs : Hands(h, r) /\ r.pc = "badge" /\ r.tab = handler[h].tab
            BY <2>3, CaptureStep
        <3>2. /\ handler[h].pc = "set" /\ due' = due
              /\ captures' = [handler[h].all EXCEPT ![handler[h].tab] = Logins!Merged(handler[h].all[handler[h].tab], handler[h].login)]
            BY <2>3, CaptureStep
        <3>3. captures' = due'
            BY <2>1, <3>2 DEF Due
        <3>4. Due(r)'
            BY <3>1, <3>3 DEF Due
        <3> QED BY <2>1, <3>1, <3>4, AloneHolds
    <2>4. CASE Logins!WriteCleared(h)
        <3>1. captures' = due' /\ Hands(h, Logins!Idle)
            BY <2>1, <2>4, ClearStep DEF Due
        <3>2. Due(Logins!Idle)'
            BY <3>1, IdleLogin DEF Due
        <3> QED BY <2>1, <3>1, <3>2, AloneHolds
    <2>5. CASE Logins!AskPrompt(h) \/ Logins!Refuse(h) \/ Logins!Persisted(h) \/ Logins!PersistFails(h)
        <3>1. /\ handler[h].pc \in {"badge", "prompt", "persist"} /\ UNCHANGED captures
              /\ \/ UNCHANGED due /\ Hands(h, Logins!Idle)
                 \/ /\ due' = [due EXCEPT ![handler[h].tab] = None]
                    /\ \E r \in LoginRecs : Hands(h, r) /\ r.pc = "xget" /\ r.tab = handler[h].tab
            BY <2>5, PromptStep, PersistedStep
        <3>2. due = captures
            BY <2>1, <3>1 DEF Due
        <3>3. CASE UNCHANGED due /\ Hands(h, Logins!Idle)
            <4>1. Due(Logins!Idle)'
                BY <3>1, <3>2, <3>3, IdleLogin DEF Due
            <4> QED BY <2>1, <3>3, <4>1, AloneHolds
        <3>4. ASSUME NEW r \in LoginRecs, Hands(h, r), r.pc = "xget", r.tab = handler[h].tab,
                     due' = [due EXCEPT ![handler[h].tab] = None]
              PROVE  Alone'
            <4>1. Due(r)'
                BY <3>1, <3>2, <3>4 DEF Due
            <4> QED BY <2>1, <3>4, <4>1, AloneHolds
        <3> QED BY <3>1, <3>3, <3>4
    <2>6. CASE Logins!ReadToApply(h)
        <3>1. PICK r \in LoginRecs : /\ Hands(h, r) /\ r.pc = "prompt" /\ r.tab = handler[h].tab
                                     /\ r.login = captures[handler[h].tab]
            BY <2>6, ReadApplyStep
        <3>2. Due(r)'
            BY <2>1, <2>6, <3>1, ReadApplyStep DEF Due
        <3> QED BY <2>1, <3>1, <3>2, AloneHolds
    <2>7. CASE Logins!CreateEntry(h) \/ Logins!UpdateEntry(h)
        <3>1. PICK r \in LoginRecs : Hands(h, r) /\ r.pc = "persist" /\ r.tab = handler[h].tab
            BY <2>7, CreateStep, UpdateStep
        <3>2. handler[h].pc = "prompt" /\ UNCHANGED <<due, captures>>
            BY <2>7, CreateStep, UpdateStep
        <3>3. Due(r)'
            BY <2>1, <3>1, <3>2 DEF Due
        <3> QED BY <2>1, <3>1, <3>3, AloneHolds
    <2> QED BY <1>2, <2>2, <2>3, <2>4, <2>5, <2>6, <2>7 DEF WaitActs
<1>3. ASSUME NEW h \in Handlers, WaitActs(h)
      PROVE  clash' = clash
    BY <1>3, ReadStep, CaptureStep, PromptStep, ReadApplyStep, CreateStep, UpdateStep, PersistedStep, ClearStep
       DEF WaitActs
<1>4. CASE PasswordActs \/ UNCHANGED Logins!vars
    <2>1. UNCHANGED <<captures, handler, due, clash>>
        BY <1>4, OnlyPassword
    <2> QED BY <2>1 DEF Alone, Due, Logins!Merged, Logins!Or
<1> QED BY <1>1, <1>2, <1>3, <1>4, LoginSteps

Joins(r) ==
    r.pc \in {"get", "set"} =>
        /\ OwnTyped(r.login)
        /\ captures[r.tab] = None \/ captures[r.tab].url = r.login.url
Own ==
    /\ \A t \in Twins : OwnLogin(captures[t])
    /\ \A h \in Handlers : Joins(handler[h])
    /\ \A e \in logins : Logins!OwnSite(e)

LEMMA MergedOwn ==
    ASSUME NEW old \in Logged, NEW new, OwnLogin(old), OwnTyped(new), old = None \/ old.url = new.url
    PROVE  OwnTyped(Logins!Merged(old, new))
<1>1. CASE old = None
    BY <1>1 DEF Logins!Merged
<1>2. CASE old # None
    <2>1. PICK m : m = Logins!Merged(old, new)
        OBVIOUS
    <2>2. m = [url |-> old.url, user |-> Logins!Or(new.user, old.user), pass |-> Logins!Or(new.pass, old.pass),
               cands |-> old.cands \cup new.cands]
        BY <1>2, <2>1 DEF Logins!Merged
    <2>3. m \in Logins!Capture
        BY <2>1, MergedIs DEF OwnTyped
    <2>4. /\ m.url = old.url /\ m.user \in {new.user, old.user} /\ m.pass \in {new.pass, old.pass}
          /\ m.cands = old.cands \cup new.cands
        BY <2>2 DEF Logins!Or
    <2> QED BY <1>2, <2>1, <2>3, <2>4 DEF OwnLogin, OwnTyped
<1> QED BY <1>1, <1>2

\* One handler goes on with nothing to join, and the record holds own logins.
LEMMA OwnHolds ==
    ASSUME LoginTypes, Own, NEW h \in Handlers, NEW r, Hands(h, r), Joins(r)',
           \A g \in Handlers \ {h} : handler[g].pc = "idle",
           \A t \in Twins : OwnLogin(captures'[t]), \A e \in logins' : Logins!OwnSite(e)
    PROVE  Own'
<1>1. \A g \in Handlers : Joins(handler[g])'
    BY DEF Hands, Joins
<1> QED BY <1>1 DEF Own, OwnLogin, Logins!OwnSite

LEMMA OwnStep ==
    ASSUME LoginTypes, clash \/ Alone, clash \/ strayed \/ Own, [Logins!Next]_Logins!vars
    PROVE  clash' \/ strayed' \/ Own'
<1>1. ASSUME NEW h \in Handlers, StartActs(h)
      PROVE  clash' \/ strayed' \/ Own'
    <2>1. PICK t \in Twins : \/ \E login \in Logins!Capture : OwnTyped(login) /\ Logins!Submit(h, t, login)
                             \/ Logins!CloseTab(h, t) \/ Logins!ShowPrompt(h, t) \/ Logins!Dismiss(h, t)
                             \/ \E e \in logins \cup {None} : Logins!Apply(h, t, e)
        BY <1>1 DEF StartActs
    <2>2. /\ clash' = (clash \/ Logins!Busy) /\ UNCHANGED <<captures, logins>>
          /\ strayed => strayed'
        BY <2>1, SubmitStep, CloseStep, ShowStep, DismissStep, ApplyStep
    <2>3. SUFFICES ASSUME ~clash, ~Logins!Busy, ~strayed' PROVE Own'
        BY <2>2
    <2>4. due = captures /\ Own /\ \A g \in Handlers : handler[g].pc = "idle"
        BY <2>2, <2>3 DEF Alone, Logins!Busy, Logins!At
    <2>5. (\A u \in Twins : OwnLogin(captures'[u])) /\ \A e \in logins' : Logins!OwnSite(e)
        BY <2>2, <2>4 DEF Own
    <2>6. CASE Logins!CloseTab(h, t) \/ Logins!ShowPrompt(h, t) \/ Logins!Dismiss(h, t)
               \/ \E e \in logins \cup {None} : Logins!Apply(h, t, e)
        <3>1. PICK r \in LoginRecs : Hands(h, r) /\ r.pc \in {"xget", "badge", "capture"}
            BY <2>6, CloseStep, ShowStep, DismissStep, ApplyStep
        <3>2. Joins(r)'
            BY <3>1 DEF Joins
        <3> QED BY <2>4, <2>5, <3>1, <3>2, OwnHolds
    <2>7. ASSUME NEW login, OwnTyped(login), Logins!Submit(h, t, login)
          PROVE  Own'
        <3>0. login \in Logins!Capture
            BY <2>7 DEF OwnTyped
        <3>1. PICK r \in LoginRecs : Hands(h, r) /\ r.pc = "get" /\ r.tab = t /\ r.login = login
            BY <2>7, <3>0, SubmitStep
        <3>2. captures[t] = None \/ captures[t].url = login.url
            <4>1. strayed' = (strayed \/ (due[t] # None /\ due[t].url # login.url))
                BY <2>7, <3>0, SubmitStep
            <4> QED BY <2>3, <2>4, <4>1
        <3>3. Joins(r)'
            BY <2>2, <2>7, <3>1, <3>2 DEF Joins, OwnTyped
        <3> QED BY <2>4, <2>5, <3>1, <3>3, OwnHolds
    <2> QED BY <2>1, <2>6, <2>7
<1>2. ASSUME NEW h \in Handlers, WaitActs(h), ~clash, ~strayed
      PROVE  Own'
    <2>0. handler[h].pc # "idle"
        BY <1>2, ReadStep, CaptureStep, PromptStep, ReadApplyStep, CreateStep, UpdateStep, PersistedStep, ClearStep
           DEF WaitActs
    <2>1. /\ Own /\ Due(handler[h]) /\ \A g \in Handlers \ {h} : handler[g].pc = "idle"
          /\ handler[h].tab \in Twins /\ Joins(handler[h])
        BY <1>2, <2>0 DEF Alone, LoginTypes, Holds, Own
    <2>2. Joins(Logins!Idle)'
        BY IdleLogin DEF Joins
    <2>3. CASE Logins!ReadToCapture(h) \/ Logins!ReadToClear(h)
        <3>1. PICK r \in LoginRecs : /\ Hands(h, r) /\ r.tab = handler[h].tab /\ r.login = handler[h].login
                                     /\ r.all = captures
                                     /\ \/ handler[h].pc = "get" /\ r.pc = "set"
                                        \/ handler[h].pc = "xget" /\ r.pc = "xset"
            BY <2>3, ReadStep
        <3>2. UNCHANGED <<captures, logins>>
            BY <2>3, ReadStep
        <3>3. Joins(r)'
            BY <2>1, <3>1, <3>2 DEF Joins
        <3> QED BY <2>1, <3>1, <3>2, <3>3, OwnHolds DEF Own
    <2>4. CASE Logins!WriteCapture(h)
        <3>1. PICK r \in LoginRecs : Hands(h, r) /\ r.pc = "badge" /\ r.tab = handler[h].tab
            BY <2>4, CaptureStep
        <3>2. PICK u \in Twins : u = handler[h].tab
            BY <2>1
        <3>3. handler[h].pc = "set" /\ handler[h].all = captures /\ logins' = logins
            BY <2>1, <2>4, CaptureStep DEF Due
        <3>4. captures' = [captures EXCEPT ![u] = Logins!Merged(captures[u], handler[h].login)]
            BY <2>4, <3>2, <3>3, CaptureStep
        <3>5. OwnTyped(Logins!Merged(captures[u], handler[h].login))
            <4>1. captures[u] \in Logged /\ OwnLogin(captures[u])
                BY <2>1 DEF LoginTypes, Own
            <4> QED BY <2>1, <3>2, <3>3, <4>1, MergedOwn DEF Joins
        <3>6. \A t \in Twins : OwnLogin(captures'[t])
            BY <2>1, <3>4, <3>5 DEF LoginTypes, Own, OwnLogin
        <3>7. Joins(r)'
            BY <3>1 DEF Joins
        <3> QED BY <2>1, <3>1, <3>3, <3>6, <3>7, OwnHolds DEF Own
    <2>5. CASE Logins!WriteCleared(h)
        <3>1. /\ captures' = [captures EXCEPT ![handler[h].tab] = None] /\ logins' = logins
              /\ Hands(h, Logins!Idle)
            BY <2>1, <2>5, ClearStep DEF Due
        <3>2. \A t \in Twins : OwnLogin(captures'[t])
            BY <2>1, <3>1 DEF LoginTypes, Own, OwnLogin
        <3> QED BY <2>1, <2>2, <3>1, <3>2, OwnHolds DEF Own
    <2>6. CASE Logins!AskPrompt(h) \/ Logins!Refuse(h) \/ Logins!Persisted(h) \/ Logins!PersistFails(h)
               \/ Logins!ReadToApply(h)
        <3>1. /\ UNCHANGED <<captures, logins>>
              /\ \/ Hands(h, Logins!Idle)
                 \/ \E r \in LoginRecs : Hands(h, r) /\ r.pc \in {"xget", "prompt"}
            BY <2>6, PromptStep, PersistedStep, ReadApplyStep
        <3>2. \A r \in LoginRecs : r.pc \in {"xget", "prompt"} => Joins(r)'
            BY DEF Joins
        <3> QED BY <2>1, <2>2, <3>1, <3>2, OwnHolds DEF Own
    <2>7. CASE Logins!CreateEntry(h) \/ Logins!UpdateEntry(h)
        <3>1. PICK r \in LoginRecs : Hands(h, r) /\ r.pc = "persist"
            BY <2>7, CreateStep, UpdateStep
        <3>2. Joins(r)'
            BY <3>1 DEF Joins
        <3>3. handler[h].pc = "prompt" /\ UNCHANGED captures
            BY <2>7, CreateStep, UpdateStep
        <3>4. PICK u \in Twins : u = handler[h].tab
            BY <2>1
        <3>5. PICK login : login = handler[h].login
            OBVIOUS
        <3>6. login = captures[u] /\ OwnLogin(login)
            BY <2>1, <3>3, <3>4, <3>5 DEF Due, Own
        <3>7. \A e \in logins' : Logins!OwnSite(e)
            <4>1. CASE Logins!CreateEntry(h)
                <5>1. /\ login.user # None /\ login.pass # None
                      /\ logins' = logins \cup {[url |-> login.url, user |-> login.user, pass |-> login.pass]}
                    BY <3>5, <4>1, CreateStep
                <5>2. PICK e : e = [url |-> login.url, user |-> login.user, pass |-> login.pass]
                    OBVIOUS
                <5>3. login # None => Logins!OwnSite(e)
                    BY <3>6, <5>1, <5>2 DEF OwnLogin, OwnTyped, Logins!OwnSite
                <5>4. login # None
                    BY <3>5, <4>1 DEF Logins!CreateEntry, Logins!MayCreate
                <5> QED BY <2>1, <5>1, <5>2, <5>3, <5>4 DEF Own
            <4>2. CASE Logins!UpdateEntry(h)
                <5>1. PICK old \in Vaulted : old = handler[h].entry
                    BY <4>2, UpdateStep
                <5>2. /\ old \in logins /\ old.url = captures[u].url /\ Logins!Password(login) # None
                      /\ logins' = (logins \ {old}) \cup
                            {[url |-> IF login.user = None THEN old.url ELSE login.url,
                              user |-> Logins!Or(login.user, old.user), pass |-> Logins!Password(login)]}
                    BY <3>4, <3>5, <4>2, <5>1, UpdateStep
                <5>3. login # None
                    BY <3>5, <4>2 DEF Logins!UpdateEntry, Logins!MayUpdate
                <5>4. OwnTyped(login) /\ old.url = login.url /\ old.user = old.url
                    BY <2>1, <3>6, <5>2, <5>3 DEF OwnLogin, Own, Logins!OwnSite
                <5>5. PICK e : e = [url |-> IF login.user = None THEN old.url ELSE login.url,
                                    user |-> Logins!Or(login.user, old.user), pass |-> Logins!Password(login)]
                    OBVIOUS
                <5>6. e.url = login.url /\ e.user = login.url
                    BY <5>4, <5>5 DEF Logins!Or, OwnTyped
                <5>7. e.pass \in {login.url, Gen}
                    BY <5>2, <5>4, <5>5 DEF Logins!Password, OwnTyped, LoginTypes
                <5>8. Logins!OwnSite(e)
                    BY <5>6, <5>7 DEF Logins!OwnSite
                <5> QED BY <2>1, <5>2, <5>5, <5>8 DEF Own
            <4> QED BY <2>7, <4>1, <4>2
        <3> QED BY <2>1, <3>1, <3>2, <3>3, <3>7, OwnHolds DEF Own
    <2> QED BY <1>2, <2>3, <2>4, <2>5, <2>6, <2>7 DEF WaitActs
<1>3. ASSUME NEW h \in Handlers, WaitActs(h)
      PROVE  clash' = clash /\ strayed' = strayed
    BY <1>3, ReadStep, CaptureStep, PromptStep, ReadApplyStep, CreateStep, UpdateStep, PersistedStep, ClearStep
       DEF WaitActs
<1>4. CASE PasswordActs \/ UNCHANGED Logins!vars
    <2>1. UNCHANGED <<captures, handler, logins, clash, strayed>>
        BY <1>4, OnlyPassword
    <2> QED BY <2>1 DEF Own, Joins, OwnLogin, OwnTyped, Logins!OwnSite
<1> QED BY <1>1, <1>2, <1>3, <1>4, LoginSteps

LoginInv == LoginTypes /\ (clash \/ Alone) /\ (clash \/ strayed \/ Own)

LEMMA LoginBegin == Logins!Init => LoginInv
<1> SUFFICES ASSUME Logins!Init PROVE LoginInv
    OBVIOUS
<1>1. \A h \in Handlers : handler[h] = Logins!Idle
    BY DEF Logins!Init
<1>2. LoginTypes
    BY <1>1, IdleLogin DEF Logins!Init, LoginTypes, Holds, Logged, Vaulted
<1>3. Alone
    BY <1>1, IdleLogin DEF Logins!Init, Alone
<1>4. Own
    BY <1>1, IdleLogin DEF Logins!Init, Own, Joins, OwnLogin, Logins!OwnSite
<1> QED BY <1>2, <1>3, <1>4 DEF LoginInv

\* The captures in storage are those submitted and not reviewed, and a saved login is of one
\* site, whatever is submitted, closed, reviewed and saved in whatever order: unless two handlers
\* had the record in hand, or a form of another site was submitted before the review.
THEOREM BackgroundReviewsCaptures == BackgroundSpec => []CapturesReviewed
<1> DEFINE Inv == subject = "LoginCapture" => LoginInv
<1>1. BackgroundInit => Inv
    BY BackgroundBegin, LoginBegin
<1>2. Inv /\ [BackgroundNext]_<<subject, vars, shared>> => Inv'
    BY BackgroundStep, LoginTypesStep, AloneStep, OwnStep DEF LoginInv
<1>3. Inv => CapturesReviewed
    BY DEF LoginInv, Alone, Own, CapturesReviewed, Logins!CapturesAreDue, Logins!SavedUnderOwnSiteUnlessStrayed,
       Logins!Busy, Logins!At
<1> QED BY <1>1, <1>2, <1>3, PTL DEF BackgroundSpec

----------------------------------------------------------------------------
(* Autofill.                                                               *)

\* What is computed from an address: pages of one address have one host and one domain.
FillConstants ==
    /\ None \notin Pages
    /\ \A p \in Pages : DOMAIN Content[p].inputs \subseteq Nat \ {0}
    /\ \A p, q \in Pages : Content[p].url = Content[q].url =>
            Content[p].host = Content[q].host /\ Content[p].domain = Content[q].domain

\* The first of some places is one of them.
LEMMA FirstIs ==
    ASSUME NEW S, S \subseteq Nat, S # {}
    PROVE  First(S) \in S /\ \A i \in S : First(S) <= i
<1>1. IsWellFoundedOn(OpToRel(<, Nat), Nat)
    BY NatLessThanWellFounded
<1>2. PICK x \in S : \A y \in S : ~(<<y, x>> \in OpToRel(<, Nat))
    BY <1>1, WFMin
<1>3. \A y \in S : ~(y < x)
    BY <1>2 DEF OpToRel
<1>4. \A y \in S : x <= y
    BY <1>3
<1> QED BY <1>4 DEF First

\* The password that is found is in a field that hides it, or that says it is for one.
Hiding(p, f) == f.password # 0 => Hides(Inputs(p)[f.password])

LEMMA FoundHides ==
    ASSUME FillConstants, NEW p \in Pages
    PROVE  Hiding(p, Forms[p])
<1>1. ASSUME NEW S, S \subseteq DOMAIN Inputs(p), \A i \in S : Hides(Inputs(p)[i])
      PROVE  First(S) # 0 => Hides(Inputs(p)[First(S)])
    <2>1. S \subseteq Nat
        BY <1>1 DEF FillConstants, Inputs
    <2>2. S = {} => First(S) = 0
        BY DEF First
    <2> QED BY <1>1, <2>1, <2>2, FirstIs
<1>2. Hiding(p, ByAutocomplete(p))
    <2>1. PICK S : S = Shown(p, LAMBDA i : i.auto = "current-password")
        OBVIOUS
    <2>2. S \subseteq DOMAIN Inputs(p) /\ \A i \in S : Hides(Inputs(p)[i])
        BY <2>1 DEF Shown, Hides
    <2>3. First(S) # 0 => Hides(Inputs(p)[First(S)])
        BY <1>1, <2>2
    <2> QED BY <2>1, <2>3 DEF ByAutocomplete, Found, Hiding
<1>3. PICK S : S = Shown(p, IsPassword)
    OBVIOUS
<1>4. First(S) # 0 => Hides(Inputs(p)[First(S)])
    <2>1. S \subseteq DOMAIN Inputs(p) /\ \A i \in S : Hides(Inputs(p)[i])
        BY <1>3 DEF Shown, Hides
    <2> QED BY <1>1, <2>1
<1>5. Hiding(p, ByEmailAndPassword(p))
    BY <1>3, <1>4 DEF ByEmailAndPassword, Found, Hiding
<1>6. Hiding(p, ByTextAndPassword(p))
    BY <1>3, <1>4 DEF ByTextAndPassword, Found, Hiding
<1>7. ASSUME NEW words
      PROVE  Hiding(p, ByWords(p, words))
    <2>1. PICK T : T = Shown(p, LAMBDA i : IsPassword(i) /\ i[words] = "pass")
        OBVIOUS
    <2>2. T \subseteq DOMAIN Inputs(p) /\ \A i \in T : Hides(Inputs(p)[i])
        BY <2>1 DEF Shown, Hides
    <2>3. First(T) # 0 => Hides(Inputs(p)[First(T)])
        BY <1>1, <2>2
    <2> QED BY <2>1, <2>3 DEF ByWords, Found, Hiding
<1>8. ASSUME NEW f, NEW g, Hiding(p, f), Hiding(p, g)
      PROVE  Hiding(p, Or(f, g))
    BY <1>8 DEF Or, Found, Hiding
<1>9. Hiding(p, DetectLoginForm(p))
    BY <1>2, <1>5, <1>6, <1>7, <1>8 DEF DetectLoginForm
<1> QED BY <1>9 DEF Forms

Domains == {Content[p].domain : p \in Pages} \cup {None}
Lasts == {Forms[p] : p \in Pages} \cup {Found(0, 0)}
Markers == {0} \cup {f.username : f \in Lasts} \cup {f.password : f \in Lasts}
Scripts == [last : Lasts, matches : SUBSET Entries, marker : Markers,
            doing : {"nothing", "checking", "asking", "trusting"}, entry : Entries \cup {None},
            seen : SUBSET Domains, among : SUBSET Entries]
FillRequests == [kind : {"matches", "fill"}, load : Nat, entry : Entries \cup {None}]
Popups == [pc : {"closed", "shown", "asking", "trusting", "filling"}, tab : Tabs \cup {None},
           among : SUBSET Entries, matches : SUBSET Entries, entry : Entries \cup {None},
           matched : Nat, asked : Nat, domain : Domains, seen : SUBSET Domains]

FillTypes ==
    /\ open \in BOOLEAN /\ entries \subseteq Entries
    /\ page \in [Tabs -> Pages \cup {None}] /\ loads \in [Tabs -> Nat]
    /\ script \in [Tabs -> Scripts] /\ requests \in [Tabs -> Seq(FillRequests)]
    /\ trusted \subseteq Domains /\ (revoking # None => revoking \subseteq Domains)
    /\ popup \in Popups

\* e matches p, and none of A matches it better.
Best(e, p, A) ==
    \E tier \in 1..4 :
        /\ MatchesAtTier(e, tier, p)
        /\ \A better \in 1..(tier - 1) : \A x \in A : ~MatchesAtTier(x, better, p)

LEMMA BestMatches ==
    ASSUME NEW A \in SUBSET Entries, NEW p, NEW e \in MatchEntries(A, p)
    PROVE  e \in A /\ Best(e, p, A)
<1>1. PICK some : some = {tier \in 1..4 : AtTier(A, p, tier) # {}}
    OBVIOUS
<1>2. some # {} /\ e \in AtTier(A, p, First(some))
    BY <1>1 DEF MatchEntries
<1>3. some \subseteq Nat
    BY <1>1
<1>4. First(some) \in some /\ \A i \in some : First(some) <= i
    BY <1>2, <1>3, FirstIs
<1>5. PICK tier \in 1..4 : tier = First(some)
    BY <1>1, <1>4
<1>6. ASSUME NEW better \in 1..(tier - 1)
      PROVE  AtTier(A, p, better) = {}
    BY <1>1, <1>4, <1>5, <1>6
<1> QED BY <1>2, <1>5, <1>6 DEF AtTier, Best

\* A page of the same address is the same to the matches and to the trust.
Alike(p, q) == p = q \/ (p \in Pages /\ q \in Pages /\ Content[p].url = Content[q].url)

LEMMA AlikeMatches ==
    ASSUME FillConstants, NEW p, NEW q, Alike(p, q)
    PROVE  /\ Content[p].domain = Content[q].domain
           /\ \A e, A, B : Best(e, p, A) /\ B \subseteq A => Best(e, q, B)
<1>1. CASE p = q
    BY <1>1 DEF Best
<1>2. CASE p \in Pages /\ q \in Pages /\ Content[p].url = Content[q].url
    <2>1. Content[p].host = Content[q].host /\ Content[p].domain = Content[q].domain
        BY <1>2 DEF FillConstants
    <2>2. \A e : \A tier \in 1..4 : MatchesAtTier(e, tier, p) <=> MatchesAtTier(e, tier, q)
        BY <1>2, <2>1 DEF MatchesAtTier
    <2>3. \A tier \in 1..4 : \A better \in 1..(tier - 1) : better \in 1..4
        OBVIOUS
    <2> QED BY <2>1, <2>2, <2>3 DEF Best
<1> QED BY <1>1, <1>2 DEF Alike

\* What the state of a tab owes: its script and its requests.
Pending(t) == {requests[t][i] : i \in DOMAIN requests[t]}
Ready(t, e) == entries \subseteq script[t].among /\ Best(e, page[t], script[t].among)
MayBe(t) == Content[page[t]].domain \in granted
RequestOK(t, r) ==
    /\ r.load <= loads[t]
    /\ r.kind = "fill" /\ r.load = loads[t] => MayBe(t) /\ Ready(t, r.entry)
ScriptOK(t) ==
    /\ script[t].seen \subseteq granted
    /\ script[t].doing = "trusting" => MayBe(t)
    /\ \A e \in script[t].matches : Ready(t, e)
    /\ script[t].doing # "nothing" => Ready(t, script[t].entry)
Blank(t) ==
    page[t] = None => /\ requests[t] = <<>> /\ script[t].marker = 0
                      /\ script[t].doing = "nothing" /\ script[t].matches = {}
TabOK(t) == Blank(t) /\ ScriptOK(t) /\ \A r \in Pending(t) : RequestOK(t, r)

\* What the popup owes.
PopupOK ==
    /\ popup.seen \subseteq granted
    /\ popup.pc = "trusting" => popup.domain \in granted
    /\ popup.pc # "closed" =>
        /\ popup.tab \in Tabs /\ page[popup.tab] # None
        /\ popup.asked <= loads[popup.tab] /\ popup.matched <= loads[popup.tab]
        /\ popup.matched = loads[popup.tab] => \A e \in popup.matches : Best(e, page[popup.tab], popup.among)
    /\ popup.pc \in {"asking", "trusting", "filling"} =>
        /\ popup.entry \in popup.matches
        /\ popup.asked = loads[popup.tab] => popup.domain = Content[page[popup.tab]].domain
    /\ popup.pc = "filling" /\ popup.asked = loads[popup.tab] => MayBe(popup.tab)

FillSafe ==
    /\ trusted \subseteq granted /\ (revoking # None => revoking \subseteq granted)
    /\ \A t \in Tabs : TabOK(t)
    /\ PopupOK /\ FilledRightly

\* What every step does to pages, entries and trust.
Goes ==
    /\ entries' \subseteq entries /\ granted \subseteq granted'
    /\ \A t \in Tabs : /\ loads[t] <= loads'[t]
                       /\ page[t] # None => page'[t] # None
                       /\ loads'[t] = loads[t] => Alike(page[t], page'[t])

LEMMA ItGoes ==
    ASSUME FillConstants, FillTypes, [Next]_vars
    PROVE  Goes
<1>1. ASSUME NEW t \in Tabs, NEW p \in Pages, Load(t, p)
      PROVE  Goes
    <2>1. p # None
        BY DEF FillConstants
    <2> QED BY <1>1, <2>1 DEF Load, vault, trust, Goes, FillTypes, Alike
<1>2. ASSUME NEW t \in Tabs, NEW p \in Pages, Change(t, p)
      PROVE  Goes
    <2>1. p # None
        BY DEF FillConstants
    <2> QED BY <1>2, <2>1 DEF Change, vault, trust, Goes, FillTypes, Alike
<1>3. ASSUME entries' \subseteq entries, granted \subseteq granted', UNCHANGED <<page, loads>>
      PROVE  Goes
    BY <1>3 DEF Goes, FillTypes, Alike
<1>4. ASSUME NEW t \in Tabs,
             \/ AnswerMatches(t) \/ Submit(t) \/ CheckTrust(t) \/ CancelTrust(t) \/ TrustHost(t)
             \/ WriteTrust(t) \/ AnswerFill(t) \/ OpenPopup(t) \/ \E e \in Entries : PickEntry(t, e)
      PROVE  entries' \subseteq entries /\ granted \subseteq granted' /\ UNCHANGED <<page, loads>>
    BY <1>4 DEF AnswerMatches, Submit, CheckTrust, CancelTrust, TrustHost, WriteTrust, AnswerFill, OpenPopup,
       PickEntry, PopupOnly, vault, trust, tab
<1>5. ASSUME \/ Unlock \/ Lock \/ StartRevoke \/ PopupTrust \/ PopupWriteTrust \/ PopupFill \/ ClosePopup
             \/ \E e \in Entries : DeleteEntry(e) \/ PopupPick(e)
             \/ \E p \in Pages : Revoke(Content[p].domain)
             \/ UNCHANGED vars
      PROVE  entries' \subseteq entries /\ granted \subseteq granted' /\ UNCHANGED <<page, loads>>
    BY <1>5 DEF Unlock, Lock, StartRevoke, PopupTrust, PopupWriteTrust, PopupFill, ClosePopup, DeleteEntry,
       PopupPick, Revoke, PopupOnly, vault, trust, tab, vars
<1> QED BY <1>1, <1>2, <1>3, <1>4, <1>5 DEF Next

\* What a tab owes stays when its page does, and its matches are those it had or are read anew.
LEMMA ReadyStays ==
    ASSUME FillConstants, Goes, NEW t \in Tabs, NEW e, Ready(t, e), loads'[t] = loads[t],
           script'[t].among \in {script[t].among, entries}
    PROVE  Ready(t, e)'
<1>1. Best(e, page'[t], script'[t].among)
    BY AlikeMatches DEF Ready, Goes
<1> QED BY <1>1 DEF Ready, Goes, Best

LEMMA MayStays ==
    ASSUME FillConstants, Goes, NEW t \in Tabs, MayBe(t), loads'[t] = loads[t]
    PROVE  MayBe(t)'
BY AlikeMatches DEF MayBe, Goes

LEMMA RequestStays ==
    ASSUME FillConstants, FillTypes, Goes, NEW t \in Tabs, loads'[t] \in Nat, NEW r \in FillRequests, RequestOK(t, r),
           loads'[t] = loads[t] => script'[t].among \in {script[t].among, entries}
    PROVE  RequestOK(t, r)'
<1>1. r.load \in Nat /\ loads[t] \in Nat /\ loads[t] <= loads'[t] /\ r.load <= loads[t]
    BY DEF FillTypes, FillRequests, Goes, RequestOK
<1>2. r.load <= loads'[t] /\ (r.load = loads'[t] => loads'[t] = loads[t])
    BY <1>1
<1>3. CASE r.kind = "fill" /\ r.load = loads'[t]
    <2>1. MayBe(t) /\ Ready(t, r.entry) /\ loads'[t] = loads[t]
        BY <1>2, <1>3 DEF RequestOK
    <2>2. MayBe(t)' /\ Ready(t, r.entry)'
        BY <2>1, MayStays, ReadyStays
    <2> QED BY <1>2, <2>2 DEF RequestOK
<1>4. CASE ~(r.kind = "fill" /\ r.load = loads'[t])
    BY <1>2, <1>4 DEF RequestOK
<1> QED BY <1>3, <1>4

LEMMA ScriptStays ==
    ASSUME FillConstants, Goes, NEW t \in Tabs, ScriptOK(t), loads'[t] = loads[t],
           script'[t].among = script[t].among, script'[t].seen = script[t].seen,
           script'[t].matches = script[t].matches,
           script'[t].doing = "nothing" \/ (script'[t].doing = script[t].doing /\ script'[t].entry = script[t].entry)
    PROVE  ScriptOK(t)'
<1>1. \A e : Ready(t, e) => Ready(t, e)'
    BY ReadyStays
<1>2. MayBe(t) => MayBe(t)'
    BY MayStays
<1>3. script'[t].seen \subseteq granted'
    BY DEF ScriptOK, Goes
<1>4. \A e \in script'[t].matches : Ready(t, e)'
    BY <1>1 DEF ScriptOK
<1>5. ASSUME script'[t].doing # "nothing"
      PROVE  Ready(t, script[t].entry)'
    <2>1. script'[t].entry = script[t].entry /\ Ready(t, script[t].entry)
        BY <1>5 DEF ScriptOK
    <2>2. PICK e : e = script[t].entry
        OBVIOUS
    <2>3. Ready(t, e)'
        BY <1>1, <2>1, <2>2
    <2> QED BY <2>1, <2>2, <2>3 DEF Ready
<1>6. script'[t].doing = "trusting" => MayBe(t)'
    BY <1>2 DEF ScriptOK
<1> QED BY <1>3, <1>4, <1>5, <1>6 DEF ScriptOK

LEMMA Sends ==
    ASSUME FillTypes, NEW t \in Tabs, NEW r \in FillRequests, Send(t, r)
    PROVE  /\ requests' \in [Tabs -> Seq(FillRequests)] /\ Len(requests'[t]) = Len(requests[t]) + 1
           /\ \A q \in Pending(t)' : q \in Pending(t) \/ q = r
           /\ \A u \in Tabs \ {t} : requests'[u] = requests[u]
<1>1. requests[t] \in Seq(FillRequests)
    BY DEF FillTypes
<1>2. PICK s \in Seq(FillRequests) : s = Append(requests[t], r)
    BY <1>1, AppendProperties
<1>3. /\ Len(s) = Len(requests[t]) + 1 /\ DOMAIN s = 1..(Len(requests[t]) + 1)
      /\ DOMAIN requests[t] = 1..Len(requests[t]) /\ Len(requests[t]) \in Nat
      /\ \A i \in DOMAIN requests[t] : s[i] = requests[t][i]
      /\ s[Len(requests[t]) + 1] = r
    BY <1>1, <1>2
<1>4. \A i \in DOMAIN s : i \in DOMAIN requests[t] \/ i = Len(requests[t]) + 1
    BY <1>3
<1>5. requests' = [requests EXCEPT ![t] = s]
    BY <1>2 DEF Send, FillTypes
<1>6. requests' \in [Tabs -> Seq(FillRequests)] /\ requests'[t] = s /\ \A u \in Tabs \ {t} : requests'[u] = requests[u]
    BY <1>5 DEF FillTypes
<1>7. \A q \in Pending(t)' : q \in Pending(t) \/ q = r
    BY <1>3, <1>4, <1>6 DEF Pending
<1> QED BY <1>3, <1>6, <1>7

LEMMA Drops ==
    ASSUME FillTypes, NEW t \in Tabs, requests[t] # <<>>, requests' = [requests EXCEPT ![t] = Tail(requests[t])]
    PROVE  /\ requests' \in [Tabs -> Seq(FillRequests)] /\ Len(requests'[t]) <= Len(requests[t])
           /\ Head(requests[t]) \in Pending(t) /\ Head(requests[t]) \in FillRequests
           /\ Pending(t)' \subseteq Pending(t)
           /\ \A u \in Tabs \ {t} : requests'[u] = requests[u]
<1>1. requests[t] \in Seq(FillRequests)
    BY DEF FillTypes
<1>2. PICK s \in Seq(FillRequests) : s = Tail(requests[t])
    BY <1>1, HeadTailProperties
<1>3. /\ Len(s) = Len(requests[t]) - 1 /\ DOMAIN s = 1..(Len(requests[t]) - 1)
      /\ DOMAIN requests[t] = 1..Len(requests[t]) /\ Len(requests[t]) \in Nat /\ Len(requests[t]) # 0
      /\ \A i \in DOMAIN s : s[i] = requests[t][i + 1]
      /\ Head(requests[t]) = requests[t][1]
    BY <1>1, <1>2
<1>4. (\A i \in DOMAIN s : i + 1 \in DOMAIN requests[t]) /\ 1 \in DOMAIN requests[t]
    BY <1>3
<1>5. requests' \in [Tabs -> Seq(FillRequests)] /\ requests'[t] = s /\ \A u \in Tabs \ {t} : requests'[u] = requests[u]
    BY <1>2 DEF FillTypes
<1>6. Pending(t)' \subseteq Pending(t)
    BY <1>3, <1>4, <1>5 DEF Pending
<1>7. Head(requests[t]) \in Pending(t)
    BY <1>3, <1>4 DEF Pending
<1>8. Head(requests[t]) \in FillRequests
    BY <1>1, <1>3, <1>4
<1> QED BY <1>3, <1>5, <1>6, <1>7, <1>8

LEMMA PendingIs ==
    ASSUME FillTypes, NEW t \in Tabs
    PROVE  Pending(t) \subseteq FillRequests
<1>1. requests[t] \in Seq(FillRequests)
    BY DEF FillTypes
<1> QED BY <1>1 DEF Pending

\* A step that gives one tab another script.
Sets(t, s) ==
    /\ s \in Scripts /\ script' \in [Tabs -> Scripts] /\ script'[t] = s
    /\ \A u \in Tabs \ {t} : script'[u] = script[u]

LEMMA BecomesScript ==
    ASSUME FillTypes, NEW t \in Tabs, NEW s \in Scripts, Become(t, s)
    PROVE  Sets(t, s)
BY DEF FillTypes, Become, Sets

LEMMA KeepsScript ==
    ASSUME FillTypes, NEW t \in Tabs, UNCHANGED script
    PROVE  Sets(t, script[t])
BY DEF FillTypes, Sets

LEMMA NewScriptIs ==
    /\ NewScript \in Scripts /\ NewScript.matches = {} /\ NewScript.doing = "nothing" /\ NewScript.seen = {}
    /\ NewScript.among = {} /\ NewScript.marker = 0
BY DEF NewScript, Scripts, Lasts, Markers

\* The script q with its last form, its call or its matches changed.
LEMMA LastOf ==
    ASSUME NEW q \in Scripts, NEW f \in Lasts
    PROVE  \E s \in Scripts :
              /\ s = [q EXCEPT !.last = f] /\ s.matches = q.matches /\ s.marker = q.marker
              /\ s.doing = q.doing /\ s.entry = q.entry /\ s.seen = q.seen /\ s.among = q.among
<1>1. PICK s : s = [q EXCEPT !.last = f]
    OBVIOUS
<1>2. /\ s \in Scripts /\ s.matches = q.matches /\ s.marker = q.marker
      /\ s.doing = q.doing /\ s.entry = q.entry /\ s.seen = q.seen /\ s.among = q.among
    BY <1>1 DEF Scripts
<1> QED BY <1>1, <1>2

LEMMA DoingOf ==
    ASSUME NEW q \in Scripts, NEW d \in {"nothing", "checking", "asking", "trusting"}
    PROVE  \E s \in Scripts :
              /\ s = [q EXCEPT !.doing = d] /\ s.matches = q.matches /\ s.marker = q.marker
              /\ s.doing = d /\ s.entry = q.entry /\ s.seen = q.seen /\ s.among = q.among
<1>1. PICK s : s = [q EXCEPT !.doing = d]
    OBVIOUS
<1>2. /\ s \in Scripts /\ s.matches = q.matches /\ s.marker = q.marker
      /\ s.doing = d /\ s.entry = q.entry /\ s.seen = q.seen /\ s.among = q.among
    BY <1>1 DEF Scripts
<1> QED BY <1>1, <1>2

\* A step of one tab.
Moves(t) ==
    /\ script' \in [Tabs -> Scripts] /\ requests' \in [Tabs -> Seq(FillRequests)]
    /\ \A u \in Tabs \ {t} : /\ script'[u] = script[u] /\ requests'[u] = requests[u]
                             /\ page'[u] = page[u] /\ loads'[u] = loads[u]

LEMMA RequestIs ==
    ASSUME FillTypes, NEW t \in Tabs, NEW kind \in {"matches", "fill"}, NEW e \in Entries \cup {None}
    PROVE  /\ Request(kind, t, e) \in FillRequests
           /\ Request(kind, t, e).kind = kind /\ Request(kind, t, e).load = loads[t] /\ Request(kind, t, e).entry = e
BY DEF Request, FillRequests, FillTypes

\* The requests of a tab whose page and matches stay.
LEMMA PendingStays ==
    ASSUME FillConstants, FillTypes, Goes, NEW t \in Tabs, TabOK(t), loads'[t] \in Nat,
           loads'[t] = loads[t] => script'[t].among \in {script[t].among, entries}
    PROVE  \A r \in Pending(t) : RequestOK(t, r)'
<1>1. ASSUME NEW r \in Pending(t)
      PROVE  RequestOK(t, r)'
    <2>1. r \in FillRequests /\ RequestOK(t, r)
        BY PendingIs DEF TabOK
    <2> QED BY <2>1, RequestStays
<1> QED BY <1>1

\* The same, when one request is sent or none.
LEMMA TabGoes ==
    ASSUME FillConstants, FillTypes, Goes, NEW t \in Tabs, TabOK(t), loads'[t] = loads[t], ScriptOK(t)',
           script'[t].among \in {script[t].among, entries},
           \A q \in Pending(t)' : q \in Pending(t) \/ RequestOK(t, q)',
           page[t] # None \/ (requests'[t] = <<>> /\ script'[t] = script[t])
    PROVE  TabOK(t)'
<1>1. loads'[t] \in Nat
    BY DEF FillTypes
<1>2. \A q \in Pending(t) : RequestOK(t, q)'
    BY <1>1, PendingStays
<1>3. \A q \in Pending(t)' : RequestOK(t, q)'
    BY <1>2
<1>4. Blank(t)'
    BY DEF Goes, TabOK, Blank
<1> QED BY <1>3, <1>4 DEF TabOK

LEMMA TabStays ==
    ASSUME FillConstants, FillTypes, Goes, NEW t \in Tabs, TabOK(t), loads'[t] = loads[t], page'[t] = page[t],
           script'[t] = script[t], requests'[t] = requests[t]
    PROVE  TabOK(t)'
<1>1. ScriptOK(t)'
    BY ScriptStays DEF TabOK
<1>2. Pending(t)' = Pending(t)
    BY DEF Pending
<1>3. page[t] # None \/ requests'[t] = <<>>
    BY DEF TabOK, Blank
<1> QED BY <1>1, <1>2, <1>3, TabGoes

LEMMA LoadTab ==
    ASSUME FillConstants, FillTypes, Goes, NEW t \in Tabs, TabOK(t), NEW p \in Pages, Load(t, p)
    PROVE  Moves(t) /\ TabOK(t)' /\ page' \in [Tabs -> Pages \cup {None}] /\ loads' \in [Tabs -> Nat]
           /\ Room(t) /\ Len(requests'[t]) <= Len(requests[t]) + 1
           /\ loads[t] < MaxLoads /\ loads'[t] = loads[t] + 1
<1>1. /\ page' = [page EXCEPT ![t] = p] /\ loads' = [loads EXCEPT ![t] = loads[t] + 1] /\ p # None
      /\ page' \in [Tabs -> Pages \cup {None}] /\ loads' \in [Tabs -> Nat]
      /\ loads[t] \in Nat /\ loads'[t] = loads[t] + 1 /\ page'[t] = p
      /\ \A u \in Tabs \ {t} : page'[u] = page[u] /\ loads'[u] = loads[u]
    BY DEF Load, FillTypes, FillConstants
<1>2. PICK s \in Scripts : /\ Become(t, s) /\ s.matches = {} /\ s.doing = "nothing" /\ s.seen = {}
                           /\ s.among = {} /\ s.marker = 0
    <2>1. CASE Detected(Found(0, 0), p, FALSE) = None
        BY <2>1, NewScriptIs DEF Load
    <2>2. CASE Detected(Found(0, 0), p, FALSE) # None
        <3>1. PICK f \in Lasts : f = Detected(Found(0, 0), p, FALSE)
            BY <2>2 DEF Detected, Lasts
        <3>2. PICK n \in Scripts : n = NewScript
            BY NewScriptIs
        <3>3. Become(t, [n EXCEPT !.last = f])
            BY <2>2, <3>1, <3>2 DEF Load
        <3> QED BY <3>2, <3>3, NewScriptIs, LastOf
    <2> QED BY <2>1, <2>2
<1>3. Sets(t, s)
    BY <1>2, BecomesScript
<1>4. PICK r \in FillRequests : r = [kind |-> "matches", load |-> loads[t] + 1, entry |-> None]
    BY <1>1 DEF FillRequests
<1>5. UNCHANGED requests \/ Send(t, r)
    BY <1>4 DEF Load, NoRequest
<1>6. /\ requests' \in [Tabs -> Seq(FillRequests)] /\ Len(requests'[t]) <= Len(requests[t]) + 1
      /\ \A q \in Pending(t)' : q \in Pending(t) \/ q = r
      /\ \A u \in Tabs \ {t} : requests'[u] = requests[u]
    <2>1. Len(requests[t]) \in Nat
        BY DEF FillTypes
    <2>2. CASE UNCHANGED requests
        BY <2>1, <2>2 DEF FillTypes, Pending
    <2>3. CASE Send(t, r)
        BY <2>1, <2>3, Sends
    <2> QED BY <1>5, <2>2, <2>3
<1>7. \A q \in Pending(t) : RequestOK(t, q)'
    BY <1>1, PendingStays
<1>8. RequestOK(t, r)'
    BY <1>1, <1>4 DEF RequestOK
<1>9. ScriptOK(t)'
    BY <1>2, <1>3 DEF ScriptOK, Sets
<1>10. Blank(t)'
    BY <1>1 DEF Blank
<1>11. TabOK(t)'
    BY <1>6, <1>7, <1>8, <1>9, <1>10 DEF TabOK
<1>12. Moves(t)
    BY <1>1, <1>3, <1>6 DEF Moves, Sets
<1> QED BY <1>1, <1>6, <1>11, <1>12 DEF Load

\* A request sent, or none.
LEMMA MaySend ==
    ASSUME FillTypes, NEW t \in Tabs, NEW r \in FillRequests, UNCHANGED requests \/ Send(t, r)
    PROVE  /\ requests' \in [Tabs -> Seq(FillRequests)] /\ Len(requests'[t]) <= Len(requests[t]) + 1
           /\ \A q \in Pending(t)' : q \in Pending(t) \/ q = r
           /\ \A u \in Tabs \ {t} : requests'[u] = requests[u]
<1>1. requests[t] \in Seq(FillRequests)
    BY DEF FillTypes
<1>2. Len(requests[t]) \in Nat
    BY <1>1
<1>3. CASE UNCHANGED requests
    BY <1>2, <1>3 DEF FillTypes, Pending
<1>4. CASE Send(t, r)
    BY <1>2, <1>4, Sends
<1> QED BY <1>3, <1>4

LEMMA MatchRequest ==
    ASSUME FillTypes, Goes, NEW t \in Tabs, loads'[t] = loads[t], NEW r, r = Request("matches", t, None)
    PROVE  r \in FillRequests /\ RequestOK(t, r)'
<1>1. r \in FillRequests /\ r.kind = "matches" /\ r.load = loads[t]
    BY RequestIs
<1>2. loads'[t] \in Nat
    BY DEF FillTypes
<1> QED BY <1>1, <1>2 DEF RequestOK

LEMMA ChangeTab ==
    ASSUME FillConstants, FillTypes, Goes, NEW t \in Tabs, TabOK(t), NEW p \in Pages, Change(t, p)
    PROVE  Moves(t) /\ TabOK(t)' /\ page' \in [Tabs -> Pages \cup {None}] /\ loads' = loads
           /\ Room(t) /\ Len(requests'[t]) <= Len(requests[t]) + 1
<1>1. /\ page' = [page EXCEPT ![t] = p] /\ loads' = loads /\ p # None /\ page[t] # None
      /\ page' \in [Tabs -> Pages \cup {None}] /\ page'[t] = p
      /\ \A u \in Tabs \ {t} : page'[u] = page[u] /\ loads'[u] = loads[u]
    BY DEF Change, FillTypes, FillConstants
<1>2. PICK q \in Scripts : q = script[t]
    BY DEF FillTypes
<1>3. PICK s \in Scripts :
        /\ Sets(t, s) /\ s.matches = q.matches /\ s.marker = q.marker
        /\ s.doing = q.doing /\ s.entry = q.entry /\ s.seen = q.seen /\ s.among = q.among
    <2>1. CASE Detected(script[t].last, p, FALSE) = None
        BY <1>2, <2>1, KeepsScript DEF Change
    <2>2. CASE Detected(script[t].last, p, FALSE) # None
        <3>1. PICK f \in Lasts : f = Detected(script[t].last, p, FALSE)
            BY <2>2 DEF Detected, Lasts
        <3>2. Become(t, [q EXCEPT !.last = f])
            BY <1>2, <2>2, <3>1 DEF Change
        <3> QED BY <3>2, LastOf, BecomesScript
    <2> QED BY <2>1, <2>2
<1>4. PICK r : r = Request("matches", t, None)
    OBVIOUS
<1>5. r \in FillRequests /\ RequestOK(t, r)'
    BY <1>1, <1>4, MatchRequest
<1>6. UNCHANGED requests \/ Send(t, r)
    BY <1>4 DEF Change, NoRequest
<1>7. /\ requests' \in [Tabs -> Seq(FillRequests)] /\ Len(requests'[t]) <= Len(requests[t]) + 1
      /\ \A x \in Pending(t)' : x \in Pending(t) \/ x = r
      /\ \A u \in Tabs \ {t} : requests'[u] = requests[u]
    BY <1>5, <1>6, MaySend
<1>8. ScriptOK(t)'
    BY <1>1, <1>2, <1>3, ScriptStays DEF Sets, TabOK
<1>9. TabOK(t)'
    BY <1>1, <1>2, <1>3, <1>5, <1>7, <1>8, TabGoes DEF Sets
<1>10. Moves(t)
    BY <1>1, <1>3, <1>7 DEF Moves, Sets
<1> QED BY <1>1, <1>7, <1>9, <1>10 DEF Change

LEMMA AnswerTab ==
    ASSUME FillConstants, FillTypes, Goes, NEW t \in Tabs, TabOK(t), AnswerMatches(t)
    PROVE  Moves(t) /\ TabOK(t)' /\ Len(requests'[t]) <= Len(requests[t])
<1>1. /\ requests[t] # <<>> /\ requests' = [requests EXCEPT ![t] = Tail(requests[t])]
      /\ UNCHANGED <<page, loads, entries, granted>>
    BY DEF AnswerMatches, vault, tab, trust, FillTypes
<1>2. /\ requests' \in [Tabs -> Seq(FillRequests)] /\ Len(requests'[t]) <= Len(requests[t])
      /\ Pending(t)' \subseteq Pending(t)
      /\ \A u \in Tabs \ {t} : requests'[u] = requests[u]
    BY <1>1, Drops
<1>3. page[t] # None
    BY <1>1 DEF TabOK, Blank
<1>4. PICK q \in Scripts : q = script[t]
    BY DEF FillTypes
<1>5. CASE UNCHANGED script
    <2>1. Sets(t, q)
        BY <1>4, <1>5, KeepsScript
    <2>2. ScriptOK(t)'
        BY <1>1, <1>5, ScriptStays DEF TabOK
    <2>3. TabOK(t)'
        BY <1>1, <1>2, <1>3, <1>5, <2>2, TabGoes
    <2> QED BY <1>1, <1>2, <2>1, <2>3 DEF Moves, Sets
<1>6. CASE ~UNCHANGED script
    <2>1. PICK found : found = MatchEntries(entries, page[t])
        OBVIOUS
    <2>2. found \subseteq entries /\ \A e \in found : Best(e, page[t], entries)
        BY <2>1, BestMatches DEF FillTypes
    <2>3. PICK marker \in Markers :
              Become(t, [q EXCEPT !.matches = found, !.among = entries, !.marker = marker])
        <3>1. q.marker \in Markers /\ q.last \in Lasts
            BY DEF Scripts
        <3>2. q.last.username \in Markers /\ q.last.password \in Markers
            BY <3>1 DEF Markers
        <3> QED BY <1>4, <1>6, <2>1, <3>1, <3>2 DEF AnswerMatches
    <2>4. PICK s : s = [q EXCEPT !.matches = found, !.among = entries, !.marker = marker]
        OBVIOUS
    <2>5. /\ s \in Scripts /\ s.matches = found /\ s.doing = q.doing /\ s.entry = q.entry
          /\ s.seen = q.seen /\ s.among = entries
        BY <2>2, <2>4 DEF Scripts, FillTypes
    <2>6. Sets(t, s)
        BY <2>3, <2>4, <2>5, BecomesScript
    <2>7. script'[t].among = entries /\ script'[t] = s
        BY <2>5, <2>6 DEF Sets
    <2>8. \A e : Ready(t, e) => Ready(t, e)'
        BY <1>1, <2>7, ReadyStays
    <2>9. \A e \in found : Ready(t, e)'
        BY <1>1, <2>2, <2>7 DEF Ready, Best
    <2>10. q.doing # "nothing" => Ready(t, q.entry)'
        BY <1>4, <2>8 DEF TabOK, ScriptOK
    <2>11. q.doing = "trusting" => MayBe(t)'
        BY <1>1, <1>4, MayStays DEF TabOK, ScriptOK
    <2>12. q.seen \subseteq granted'
        BY <1>1, <1>4 DEF TabOK, ScriptOK
    <2>13. ScriptOK(t)'
        BY <2>5, <2>7, <2>9, <2>10, <2>11, <2>12 DEF ScriptOK, Ready, MayBe
    <2>14. TabOK(t)'
        BY <1>1, <1>2, <1>3, <2>7, <2>13, TabGoes
    <2> QED BY <1>1, <1>2, <2>6, <2>14 DEF Moves, Sets
<1> QED BY <1>2, <1>5, <1>6

\* The answers to a fill leave the script as it is.
LEMMA FillTab ==
    ASSUME FillConstants, FillTypes, Goes, NEW t \in Tabs, TabOK(t), AnswerFill(t)
    PROVE  Moves(t) /\ TabOK(t)' /\ Len(requests'[t]) <= Len(requests[t])
<1>1. /\ requests[t] # <<>> /\ requests' = [requests EXCEPT ![t] = Tail(requests[t])]
      /\ UNCHANGED <<page, loads, entries, granted, script>>
    BY DEF AnswerFill, vault, tab, trust, FillTypes
<1>2. /\ requests' \in [Tabs -> Seq(FillRequests)] /\ Len(requests'[t]) <= Len(requests[t])
      /\ Pending(t)' \subseteq Pending(t)
      /\ \A u \in Tabs \ {t} : requests'[u] = requests[u]
    BY <1>1, Drops
<1>3. page[t] # None
    BY <1>1 DEF TabOK, Blank
<1>4. ScriptOK(t)'
    BY <1>1, ScriptStays DEF TabOK
<1>5. TabOK(t)'
    BY <1>1, <1>2, <1>3, <1>4, TabGoes
<1>6. Moves(t)
    BY <1>1, <1>2 DEF Moves, FillTypes
<1> QED BY <1>2, <1>5, <1>6

\* A step that leaves what the tab has asked, its page and its matches as they are.
LEMMA QuietTab ==
    ASSUME FillConstants, FillTypes, Goes, NEW t \in Tabs, TabOK(t), UNCHANGED <<page, loads, requests>>,
           page[t] # None, NEW s, Sets(t, s), s.among = script[t].among, ScriptOK(t)'
    PROVE  Moves(t) /\ TabOK(t)' /\ Len(requests'[t]) <= Len(requests[t])
<1>1. requests[t] \in Seq(FillRequests)
    BY DEF FillTypes
<1>2. Len(requests[t]) \in Nat
    BY <1>1
<1>3. TabOK(t)'
    BY TabGoes DEF Sets, Pending
<1>4. Moves(t)
    BY DEF Moves, Sets, FillTypes
<1> QED BY <1>2, <1>3, <1>4

LEMMA SubmitTab ==
    ASSUME FillConstants, FillTypes, Goes, NEW t \in Tabs, TabOK(t), Submit(t)
    PROVE  Moves(t) /\ TabOK(t)' /\ Len(requests'[t]) <= Len(requests[t])
<1>1. UNCHANGED <<page, loads, requests>> /\ page[t] # None
    BY DEF Submit, tab, TabOK, Blank
<1>2. PICK q \in Scripts : q = script[t]
    BY DEF FillTypes
<1>3. PICK s : s = [q EXCEPT !.marker = 0]
    OBVIOUS
<1>4. /\ s \in Scripts /\ s.matches = q.matches /\ s.doing = q.doing /\ s.entry = q.entry
      /\ s.seen = q.seen /\ s.among = q.among
    BY <1>3 DEF Scripts, Markers
<1>5. Sets(t, s)
    BY <1>2, <1>3, <1>4, BecomesScript DEF Submit
<1>6. ScriptOK(t)'
    BY <1>1, <1>2, <1>4, <1>5, ScriptStays DEF Sets, TabOK
<1> QED BY <1>1, <1>2, <1>4, <1>5, <1>6, QuietTab

LEMMA PickTab ==
    ASSUME FillConstants, FillTypes, Goes, NEW t \in Tabs, TabOK(t), NEW e \in Entries, PickEntry(t, e)
    PROVE  Moves(t) /\ TabOK(t)' /\ Len(requests'[t]) <= Len(requests[t])
<1>1. UNCHANGED <<page, loads, requests>> /\ page[t] # None
    BY DEF PickEntry, tab, TabOK, Blank
<1>2. PICK q \in Scripts : q = script[t]
    BY DEF FillTypes
<1>3. PICK s : s = [q EXCEPT !.doing = "checking", !.entry = e]
    OBVIOUS
<1>4. /\ s \in Scripts /\ s.matches = q.matches /\ s.doing = "checking" /\ s.entry = e
      /\ s.seen = q.seen /\ s.among = q.among
    BY <1>3 DEF Scripts
<1>5. Sets(t, s)
    BY <1>2, <1>3, <1>4, BecomesScript DEF PickEntry
<1>6. ScriptOK(t)'
    <2>1. script'[t] = s /\ script'[t].among = script[t].among
        BY <1>2, <1>4, <1>5 DEF Sets
    <2>2. \A x \in q.matches : Ready(t, x)'
        BY <1>1, <1>2, <2>1, ReadyStays DEF TabOK, ScriptOK
    <2>3. e \in q.matches
        BY <1>2 DEF PickEntry
    <2>4. q.seen \subseteq granted'
        BY <1>2 DEF TabOK, ScriptOK, Goes
    <2> QED BY <1>4, <2>1, <2>2, <2>3, <2>4 DEF ScriptOK, Ready
<1> QED BY <1>1, <1>2, <1>4, <1>5, <1>6, QuietTab

LEMMA CancelTab ==
    ASSUME FillConstants, FillTypes, Goes, NEW t \in Tabs, TabOK(t), CancelTrust(t)
    PROVE  Moves(t) /\ TabOK(t)' /\ Len(requests'[t]) <= Len(requests[t])
<1>1. UNCHANGED <<page, loads, requests>> /\ page[t] # None
    BY DEF CancelTrust, tab, TabOK, Blank
<1>2. PICK q \in Scripts : q = script[t]
    BY DEF FillTypes
<1>3. PICK s \in Scripts :
        /\ s = [q EXCEPT !.doing = "nothing"] /\ s.matches = q.matches /\ s.doing = "nothing" /\ s.entry = q.entry
        /\ s.seen = q.seen /\ s.among = q.among
    BY DoingOf
<1>4. Sets(t, s)
    BY <1>2, <1>3, BecomesScript DEF CancelTrust
<1>5. ScriptOK(t)'
    BY <1>1, <1>2, <1>3, <1>4, ScriptStays DEF Sets, TabOK
<1> QED BY <1>1, <1>2, <1>3, <1>4, <1>5, QuietTab

\* The user trusts the site: the domain is granted before it is written.
LEMMA TrustTab ==
    ASSUME FillConstants, FillTypes, Goes, NEW t \in Tabs, TabOK(t), trusted \subseteq granted, TrustHost(t)
    PROVE  Moves(t) /\ TabOK(t)' /\ Len(requests'[t]) <= Len(requests[t])
<1>1. UNCHANGED <<page, loads, requests, entries>> /\ page[t] # None
    BY DEF TrustHost, tab, vault, TabOK, Blank
<1>2. PICK q \in Scripts : q = script[t]
    BY DEF FillTypes
<1>3. CASE Content[page[t]].domain = None
    <2>1. PICK s \in Scripts :
            /\ s = [q EXCEPT !.doing = "nothing"] /\ s.matches = q.matches /\ s.doing = "nothing" /\ s.entry = q.entry
            /\ s.seen = q.seen /\ s.among = q.among
        BY DoingOf
    <2>2. Sets(t, s)
        BY <1>2, <1>3, <2>1, BecomesScript DEF TrustHost
    <2>3. ScriptOK(t)'
        BY <1>1, <1>2, <2>1, <2>2, ScriptStays DEF Sets, TabOK
    <2> QED BY <1>1, <1>2, <2>1, <2>2, <2>3, QuietTab
<1>4. CASE Content[page[t]].domain # None
    <2>1. PICK s : s = [q EXCEPT !.doing = "trusting", !.seen = trusted]
        OBVIOUS
    <2>2. /\ s \in Scripts /\ s.matches = q.matches /\ s.doing = "trusting" /\ s.entry = q.entry
          /\ s.seen = trusted /\ s.among = q.among
        BY <2>1 DEF Scripts, FillTypes
    <2>3. Sets(t, s)
        BY <1>2, <1>4, <2>1, <2>2, BecomesScript DEF TrustHost
    <2>4. MayBe(t)'
        BY <1>1, <1>4 DEF TrustHost, MayBe
    <2>5. script'[t] = s /\ script'[t].among = script[t].among
        BY <1>2, <2>2, <2>3 DEF Sets
    <2>6. \A x : Ready(t, x) => Ready(t, x)'
        BY <1>1, <2>5, ReadyStays
    <2>7. \A x \in q.matches : Ready(t, x)'
        BY <1>2, <2>6 DEF TabOK, ScriptOK
    <2>8. Ready(t, q.entry)'
        <3>1. Ready(t, q.entry)
            BY <1>2 DEF TrustHost, TabOK, ScriptOK
        <3> QED BY <2>6, <3>1 DEF Ready
    <2>9. trusted \subseteq granted'
        BY DEF Goes
    <2>10. ScriptOK(t)'
        BY <2>2, <2>4, <2>5, <2>7, <2>8, <2>9 DEF ScriptOK, Ready, MayBe
    <2> QED BY <1>1, <1>2, <2>2, <2>3, <2>10, QuietTab
<1> QED BY <1>3, <1>4

\* A fill is asked for: the user picked the entry and trusts the page.
LEMMA AskFill ==
    ASSUME FillConstants, FillTypes, Goes, NEW t \in Tabs, TabOK(t), UNCHANGED <<page, loads, entries>>,
           script[t].doing # "nothing", MayBe(t), Send(t, Request("fill", t, script[t].entry)),
           Become(t, [script[t] EXCEPT !.doing = "nothing"])
    PROVE  Moves(t) /\ TabOK(t)' /\ Len(requests'[t]) = Len(requests[t]) + 1
<1>1. page[t] # None
    BY DEF TabOK, Blank
<1>2. PICK q \in Scripts : q = script[t]
    BY DEF FillTypes
<1>3. PICK s \in Scripts :
        /\ s = [q EXCEPT !.doing = "nothing"] /\ s.matches = q.matches /\ s.doing = "nothing" /\ s.entry = q.entry
        /\ s.seen = q.seen /\ s.among = q.among
    BY DoingOf
<1>4. Sets(t, s)
    BY <1>2, <1>3, BecomesScript
<1>5. script'[t] = s /\ script'[t].among = script[t].among
    BY <1>2, <1>3, <1>4 DEF Sets
<1>6. ScriptOK(t)'
    BY <1>2, <1>3, <1>5, ScriptStays DEF TabOK
<1>7. q.entry \in Entries \cup {None}
    BY DEF Scripts
<1>8. PICK r \in FillRequests : /\ r = Request("fill", t, q.entry) /\ r.kind = "fill"
                               /\ r.load = loads[t] /\ r.entry = q.entry
    BY <1>7, RequestIs
<1>9. RequestOK(t, r)'
    <2>1. Ready(t, q.entry)
        BY <1>2 DEF TabOK, ScriptOK
    <2>2. Ready(t, q.entry)'
        <3>1. PICK e : e = q.entry
            OBVIOUS
        <3>2. Ready(t, e)'
            BY <1>5, <2>1, <3>1, ReadyStays
        <3> QED BY <3>1, <3>2 DEF Ready
    <2>3. MayBe(t)'
        BY MayStays
    <2>4. loads'[t] \in Nat
        BY DEF FillTypes
    <2> QED BY <1>8, <2>2, <2>3, <2>4 DEF RequestOK, Ready
<1>10. Send(t, r)
    BY <1>2, <1>8
<1>11. /\ requests' \in [Tabs -> Seq(FillRequests)] /\ Len(requests'[t]) = Len(requests[t]) + 1
       /\ \A x \in Pending(t)' : x \in Pending(t) \/ x = r
       /\ \A u \in Tabs \ {t} : requests'[u] = requests[u]
    BY <1>10, Sends
<1>12. TabOK(t)'
    BY <1>1, <1>5, <1>6, <1>9, <1>11, TabGoes
<1>13. Moves(t)
    BY <1>4, <1>11 DEF Moves, Sets
<1> QED BY <1>11, <1>12, <1>13

LEMMA CheckTab ==
    ASSUME FillConstants, FillTypes, Goes, NEW t \in Tabs, TabOK(t), trusted \subseteq granted, CheckTrust(t)
    PROVE  Moves(t) /\ TabOK(t)' /\ Room(t) /\ Len(requests'[t]) <= Len(requests[t]) + 1
<1>1. UNCHANGED <<page, loads, entries>> /\ page[t] # None
    BY DEF CheckTrust, tab, vault, TabOK, Blank
<1>2. requests[t] \in Seq(FillRequests)
    BY DEF FillTypes
<1>3. Len(requests[t]) \in Nat
    BY <1>2
<1>4. CASE MayFill(page[t], trusted)
    <2>1. MayBe(t)
        BY <1>4 DEF MayFill, IsTrusted, MayBe
    <2>2. Moves(t) /\ TabOK(t)' /\ Len(requests'[t]) = Len(requests[t]) + 1
        BY <1>1, <1>4, <2>1, AskFill DEF CheckTrust
    <2> QED BY <1>3, <2>2 DEF CheckTrust
<1>5. CASE ~MayFill(page[t], trusted)
    <2>1. PICK q \in Scripts : q = script[t]
        BY DEF FillTypes
    <2>2. PICK s \in Scripts :
            /\ s = [q EXCEPT !.doing = "asking"] /\ s.matches = q.matches /\ s.doing = "asking" /\ s.entry = q.entry
            /\ s.seen = q.seen /\ s.among = q.among
        BY DoingOf
    <2>3. Sets(t, s) /\ UNCHANGED requests
        BY <1>5, <2>1, <2>2, BecomesScript DEF CheckTrust, NoRequest
    <2>4. script'[t] = s /\ script'[t].among = script[t].among
        BY <2>1, <2>2, <2>3 DEF Sets
    <2>5. \A x : Ready(t, x) => Ready(t, x)'
        BY <1>1, <2>4, ReadyStays
    <2>6. \A x \in q.matches : Ready(t, x)'
        BY <2>1, <2>5 DEF TabOK, ScriptOK
    <2>7. Ready(t, q.entry)'
        <3>1. Ready(t, q.entry)
            BY <2>1 DEF CheckTrust, TabOK, ScriptOK
        <3> QED BY <2>5, <3>1 DEF Ready
    <2>8. q.seen \subseteq granted'
        BY <2>1 DEF TabOK, ScriptOK, Goes
    <2>9. ScriptOK(t)'
        BY <2>2, <2>4, <2>6, <2>7, <2>8 DEF ScriptOK, Ready
    <2>10. Moves(t) /\ TabOK(t)' /\ Len(requests'[t]) <= Len(requests[t])
        BY <1>1, <2>1, <2>2, <2>3, <2>9, QuietTab
    <2>11. Len(requests'[t]) = Len(requests[t])
        BY <2>3
    <2> QED BY <1>3, <2>10, <2>11 DEF CheckTrust
<1> QED BY <1>4, <1>5

LEMMA WriteTab ==
    ASSUME FillConstants, FillTypes, Goes, NEW t \in Tabs, TabOK(t), WriteTrust(t)
    PROVE  Moves(t) /\ TabOK(t)' /\ Room(t) /\ Len(requests'[t]) <= Len(requests[t]) + 1
<1>1. requests[t] \in Seq(FillRequests)
    BY DEF FillTypes
<1>2. Len(requests[t]) \in Nat
    BY <1>1
<1>3. MayBe(t)
    BY DEF WriteTrust, TabOK, ScriptOK
<1>4. Moves(t) /\ TabOK(t)' /\ Len(requests'[t]) = Len(requests[t]) + 1
    BY <1>3, AskFill DEF WriteTrust, vault, tab
<1> QED BY <1>2, <1>4 DEF WriteTrust

\* The same for the step that asks every tab to look for a form again.
Sent(t, r) == requests'[t] = requests[t] \/ requests'[t] = Append(requests[t], r)

LEMMA SentIs ==
    ASSUME FillTypes, NEW t \in Tabs, NEW r \in FillRequests, Sent(t, r)
    PROVE  /\ requests'[t] \in Seq(FillRequests) /\ Len(requests'[t]) <= Len(requests[t]) + 1
           /\ \A q \in Pending(t)' : q \in Pending(t) \/ q = r
<1>1. requests[t] \in Seq(FillRequests)
    BY DEF FillTypes
<1>2. PICK s \in Seq(FillRequests) : s = Append(requests[t], r)
    BY <1>1, AppendProperties
<1>3. /\ Len(s) = Len(requests[t]) + 1 /\ DOMAIN s = 1..(Len(requests[t]) + 1)
      /\ DOMAIN requests[t] = 1..Len(requests[t]) /\ Len(requests[t]) \in Nat
      /\ \A i \in DOMAIN requests[t] : s[i] = requests[t][i]
      /\ s[Len(requests[t]) + 1] = r
    BY <1>1, <1>2
<1>4. \A i \in DOMAIN s : i \in DOMAIN requests[t] \/ i = Len(requests[t]) + 1
    BY <1>3
<1>5. CASE requests'[t] = requests[t]
    BY <1>1, <1>3, <1>5 DEF Pending
<1>6. CASE requests'[t] = s
    <2>1. \A q \in Pending(t)' : q \in Pending(t) \/ q = r
        BY <1>3, <1>4, <1>6 DEF Pending
    <2> QED BY <1>3, <1>6, <2>1
<1> QED BY <1>2, <1>5, <1>6 DEF Sent

LEMMA UnlockTab ==
    ASSUME FillConstants, FillTypes, Goes, NEW t \in Tabs, TabOK(t), Unlock
    PROVE  /\ script'[t] \in Scripts /\ requests'[t] \in Seq(FillRequests) /\ TabOK(t)'
           /\ Room(t) /\ Len(requests'[t]) <= Len(requests[t]) + 1
           /\ script'[t].matches = script[t].matches
<1>1. UNCHANGED <<page, loads>> /\ Room(t)
    BY DEF Unlock, tab
<1>2. PICK q \in Scripts : q = script[t]
    BY DEF FillTypes
<1>3. PICK r : r = Request("matches", t, None)
    OBVIOUS
<1>4. r \in FillRequests /\ RequestOK(t, r)'
    BY <1>1, <1>3, MatchRequest
<1>5. CASE page[t] = None \/ Detected(script[t].last, page[t], TRUE) = None
    <2>1. script'[t] = script[t] /\ requests'[t] = requests[t]
        BY <1>5 DEF Unlock
    <2>2. TabOK(t)'
        BY <1>1, <2>1, TabStays
    <2>3. Sent(t, r)
        BY <2>1 DEF Sent
    <2> QED BY <1>1, <1>2, <1>4, <2>1, <2>2, <2>3, SentIs
<1>6. CASE page[t] # None /\ Detected(script[t].last, page[t], TRUE) # None
    <2>1. PICK f \in Lasts : f = Detected(script[t].last, page[t], TRUE)
        BY <1>6 DEF Detected, Lasts, FillTypes
    <2>2. script'[t] = [q EXCEPT !.last = f] /\ requests'[t] = Append(requests[t], r)
        BY <1>2, <1>3, <1>6, <2>1 DEF Unlock
    <2>3. PICK s \in Scripts :
            /\ script'[t] = s /\ s.matches = q.matches /\ s.marker = q.marker
            /\ s.doing = q.doing /\ s.entry = q.entry /\ s.seen = q.seen /\ s.among = q.among
        BY <2>2, LastOf
    <2>4. ScriptOK(t)'
        BY <1>1, <1>2, <2>3, ScriptStays DEF TabOK
    <2>5. /\ requests'[t] \in Seq(FillRequests) /\ Len(requests'[t]) <= Len(requests[t]) + 1
          /\ \A x \in Pending(t)' : x \in Pending(t) \/ x = r
        BY <1>4, <2>2, SentIs DEF Sent
    <2>6. TabOK(t)'
        BY <1>1, <1>2, <1>4, <1>6, <2>3, <2>4, <2>5, TabGoes
    <2> QED BY <1>1, <1>2, <2>3, <2>5, <2>6
<1> QED BY <1>5, <1>6

\* What a step may do to a tab, for the run's bounds.
TabActs(t) ==
    \/ \E p \in Pages : Load(t, p) \/ Change(t, p)
    \/ AnswerMatches(t) \/ Submit(t)
    \/ CheckTrust(t) \/ CancelTrust(t) \/ TrustHost(t) \/ WriteTrust(t) \/ AnswerFill(t)
    \/ \E e \in Entries : PickEntry(t, e)
ListActs == Lock \/ StartRevoke \/ (\E e \in Entries : DeleteEntry(e)) \/ \E p \in Pages : Revoke(Content[p].domain)
PopupActs ==
    \/ \E t \in Tabs : OpenPopup(t)
    \/ PopupTrust \/ PopupWriteTrust \/ PopupFill \/ ClosePopup
    \/ \E e \in Entries : PopupPick(e)

LEMMA FillSteps == [Next]_vars => \/ \E t \in Tabs : TabActs(t)
                                  \/ Unlock \/ ListActs \/ PopupActs \/ UNCHANGED vars
BY DEF Next, TabActs, ListActs, PopupActs

\* What a step of a tab leaves as it is.
LEMMA TabActsKeep ==
    ASSUME NEW t \in Tabs, TabActs(t)
    PROVE  UNCHANGED <<open, entries, revoking, popup>>
BY DEF TabActs, Load, Change, AnswerMatches, Submit, CheckTrust, CancelTrust, TrustHost, WriteTrust, AnswerFill,
   PickEntry, vault, trust

LEMMA OtherActsKeep ==
    ASSUME ListActs \/ PopupActs \/ UNCHANGED vars
    PROVE  UNCHANGED <<page, loads, script, requests>>
BY DEF ListActs, Lock, StartRevoke, DeleteEntry, Revoke, PopupActs, OpenPopup, PopupTrust, PopupWriteTrust, PopupFill,
   ClosePopup, PopupPick, PopupOnly, tab, vars

\* Every step keeps what the tabs owe.
LEMMA TabActStep ==
    ASSUME FillConstants, FillTypes, Goes, NEW t \in Tabs, TabOK(t), trusted \subseteq granted, TabActs(t)
    PROVE  Moves(t) /\ TabOK(t)'
<1>1. ASSUME NEW p \in Pages, Load(t, p) \/ Change(t, p)
      PROVE  Moves(t) /\ TabOK(t)'
    BY <1>1, LoadTab, ChangeTab
<1>2. ASSUME NEW e \in Entries, PickEntry(t, e)
      PROVE  Moves(t) /\ TabOK(t)'
    BY <1>2, PickTab
<1>3. ASSUME AnswerMatches(t) \/ Submit(t) \/ CancelTrust(t) \/ AnswerFill(t)
      PROVE  Moves(t) /\ TabOK(t)'
    BY <1>3, AnswerTab, SubmitTab, CancelTab, FillTab
<1>4. ASSUME CheckTrust(t) \/ TrustHost(t) \/ WriteTrust(t)
      PROVE  Moves(t) /\ TabOK(t)'
    BY <1>4, CheckTab, TrustTab, WriteTab
<1> QED BY <1>1, <1>2, <1>3, <1>4 DEF TabActs

LEMMA TabsStep ==
    ASSUME FillConstants, FillTypes, FillSafe, [Next]_vars
    PROVE  \A t \in Tabs : TabOK(t)'
<1>1. Goes
    BY ItGoes
<1>2. ASSUME NEW t \in Tabs, TabActs(t)
      PROVE  \A u \in Tabs : TabOK(u)'
    <2>1. Moves(t) /\ TabOK(t)'
        BY <1>1, <1>2, TabActStep DEF FillSafe
    <2>2. ASSUME NEW u \in Tabs \ {t}
          PROVE  TabOK(u)'
        BY <1>1, <2>1, TabStays DEF Moves, FillSafe
    <2> QED BY <2>1, <2>2
<1>3. ASSUME Unlock
      PROVE  \A t \in Tabs : TabOK(t)'
    BY <1>1, <1>3, UnlockTab DEF FillSafe
<1>4. ASSUME ListActs \/ PopupActs \/ UNCHANGED vars
      PROVE  \A t \in Tabs : TabOK(t)'
    BY <1>1, <1>4, OtherActsKeep, TabStays DEF FillSafe
<1> QED BY <1>2, <1>3, <1>4, FillSteps

----------------------------------------------------------------------------
(* Autofill: the popup and what is filled in.                              *)

\* The state of the popup p, over the pages as they are.
PageOf(p) == page[p.tab]
LoadOf(p) == loads[p.tab]
PopupOf(p) ==
    /\ p.seen \subseteq granted
    /\ p.pc = "trusting" => p.domain \in granted
    /\ p.pc # "closed" =>
        /\ p.tab \in Tabs /\ PageOf(p) # None
        /\ p.asked <= LoadOf(p) /\ p.matched <= LoadOf(p)
        /\ p.matched = LoadOf(p) => \A e \in p.matches : Best(e, PageOf(p), p.among)
    /\ p.pc \in {"asking", "trusting", "filling"} =>
        /\ p.entry \in p.matches
        /\ p.asked = LoadOf(p) => p.domain = Content[PageOf(p)].domain
    /\ p.pc = "filling" /\ p.asked = LoadOf(p) => Content[PageOf(p)].domain \in granted

LEMMA PopupIs == PopupOK <=> PopupOf(popup)
BY DEF PopupOK, PopupOf, PageOf, LoadOf, MayBe

LEMMA PopupNext ==
    ASSUME NEW q, popup' = q, PopupOf(q)'
    PROVE  PopupOK'
BY DEF PopupOK, PopupOf, PageOf, LoadOf, MayBe

\* The page under an open popup may be another, and its load tells.
LEMMA PopupStays ==
    ASSUME FillConstants, FillTypes, Goes, PopupOK, loads' \in [Tabs -> Nat], popup' = popup
    PROVE  PopupOK'
<1>1. CASE popup.pc = "closed"
    BY <1>1 DEF PopupOK, Goes
<1>2. CASE popup.pc # "closed"
    <2>1. PICK t \in Tabs : t = popup.tab
        BY <1>2 DEF PopupOK
    <2>2. /\ loads[t] \in Nat /\ loads'[t] \in Nat /\ loads[t] <= loads'[t]
          /\ popup.asked \in Nat /\ popup.matched \in Nat
          /\ popup.asked <= loads[t] /\ popup.matched <= loads[t]
        BY <1>2, <2>1 DEF FillTypes, Popups, Goes, PopupOK
    <2>3. /\ popup.asked <= loads'[t] /\ popup.matched <= loads'[t]
          /\ (popup.asked = loads'[t] => popup.asked = loads[t] /\ loads'[t] = loads[t])
          /\ (popup.matched = loads'[t] => popup.matched = loads[t] /\ loads'[t] = loads[t])
        BY <2>2
    <2>4. loads'[t] = loads[t] => Alike(page[t], page'[t])
        BY DEF Goes
    <2>5. loads'[t] = loads[t] =>
            /\ Content[page[t]].domain = Content[page'[t]].domain
            /\ \A e, A : Best(e, page[t], A) => Best(e, page'[t], A)
        BY <2>4, AlikeMatches
    <2>6. page'[t] # None /\ granted \subseteq granted'
        BY <1>2, <2>1 DEF Goes, PopupOK
    <2>7. popup.matched = loads'[t] => \A e \in popup.matches : Best(e, page'[t], popup.among)
        BY <1>2, <2>1, <2>3, <2>5 DEF PopupOK
    <2>8. popup.pc \in {"asking", "trusting", "filling"} /\ popup.asked = loads'[t] =>
            popup.domain = Content[page'[t]].domain
        BY <2>1, <2>3, <2>5 DEF PopupOK
    <2>9. popup.pc = "filling" /\ popup.asked = loads'[t] => Content[page'[t]].domain \in granted'
        BY <2>1, <2>3, <2>5, <2>6 DEF PopupOK, MayBe
    <2> QED BY <2>1, <2>3, <2>6, <2>7, <2>8, <2>9 DEF PopupOK, MayBe
<1> QED BY <1>1, <1>2

LEMMA OpenPopupStep ==
    ASSUME FillTypes, PopupOK, NEW t \in Tabs, OpenPopup(t)
    PROVE  popup' \in Popups /\ PopupOK'
<1>1. PICK m : m = MatchEntries(entries, page[t])
    OBVIOUS
<1>2. m \subseteq entries /\ \A e \in m : Best(e, page[t], entries)
    BY <1>1, BestMatches DEF FillTypes
<1>3. PICK q : q = [Closed EXCEPT !.pc = "shown", !.tab = t, !.among = entries, !.matches = m, !.matched = loads[t]]
    OBVIOUS
<1>4. /\ q \in Popups /\ q.pc = "shown" /\ q.tab = t /\ q.among = entries /\ q.matches = m
      /\ q.matched = loads[t] /\ q.asked = 0 /\ q.seen = {}
    BY <1>2, <1>3 DEF Closed, Popups, FillTypes, Domains
<1>5. popup' = q /\ UNCHANGED <<page, loads, granted>> /\ page[t] # None
    BY <1>1, <1>3 DEF OpenPopup, PopupOnly, tab
<1>6. loads[t] \in Nat
    BY DEF FillTypes
<1>7. q.asked <= loads[t] /\ q.matched <= loads[t]
    BY <1>4, <1>6
<1>8. PopupOf(q)'
    BY <1>2, <1>4, <1>5, <1>7 DEF PopupOf, PageOf, LoadOf
<1> QED BY <1>4, <1>5, <1>8, PopupNext

\* A pick of the popup asks about the page that is there now.
LEMMA PopupPickStep ==
    ASSUME FillTypes, PopupOK, trusted \subseteq granted, NEW e \in Entries, PopupPick(e)
    PROVE  popup' \in Popups /\ PopupOK'
<1>1. PICK p \in Popups : p = popup
    BY DEF FillTypes
<1>2. /\ p.pc = "shown" /\ e \in p.matches /\ PopupOf(p) /\ p.tab \in Tabs
      /\ UNCHANGED <<page, loads, granted>>
    BY <1>1, PopupIs DEF PopupPick, PopupOnly, tab, PopupOf
<1>3. page[p.tab] \in Pages /\ loads[p.tab] \in Nat
    BY <1>2 DEF FillTypes, PopupOf, PageOf
<1>4. PICK pc \in {"asking", "filling"} : pc = IF MayFill(page[p.tab], trusted) THEN "filling" ELSE "asking"
    OBVIOUS
<1>5. PICK d \in Domains : d = Content[page[p.tab]].domain
    BY <1>3 DEF Domains
<1>6. PICK q : q = [p EXCEPT !.entry = e, !.asked = loads[p.tab], !.domain = d, !.pc = pc]
    OBVIOUS
<1>7. /\ q \in Popups /\ q.pc = pc /\ q.tab = p.tab /\ q.among = p.among /\ q.matches = p.matches
      /\ q.matched = p.matched /\ q.asked = loads[p.tab] /\ q.seen = p.seen /\ q.domain = d /\ q.entry = e
    BY <1>3, <1>6 DEF Popups
<1>8. popup' = q
    BY <1>1, <1>4, <1>5, <1>6 DEF PopupPick, PopupOnly
<1>9. pc = "filling" => Content[page[p.tab]].domain \in granted
    BY <1>4 DEF MayFill, IsTrusted
<1>10. PopupOf(q)
    BY <1>2, <1>3, <1>5, <1>7, <1>9 DEF PopupOf, PageOf, LoadOf
<1>11. PopupOf(q)'
    BY <1>2, <1>8, <1>10 DEF PopupOf, PageOf, LoadOf
<1> QED BY <1>7, <1>8, <1>11, PopupNext

LEMMA PopupTrustStep ==
    ASSUME FillTypes, PopupOK, trusted \subseteq granted, PopupTrust
    PROVE  popup' \in Popups /\ PopupOK'
<1>1. PICK p \in Popups : p = popup
    BY DEF FillTypes
<1>2. /\ p.pc = "asking" /\ PopupOf(p) /\ UNCHANGED <<page, loads>> /\ granted' = granted \cup {p.domain}
    BY <1>1, PopupIs DEF PopupTrust, PopupOnly, tab
<1>3. PICK q : q = [p EXCEPT !.pc = "trusting", !.seen = trusted]
    OBVIOUS
<1>4. /\ q \in Popups /\ q.pc = "trusting" /\ q.tab = p.tab /\ q.among = p.among /\ q.matches = p.matches
      /\ q.matched = p.matched /\ q.asked = p.asked /\ q.seen = trusted /\ q.domain = p.domain /\ q.entry = p.entry
    BY <1>3 DEF Popups, FillTypes
<1>5. popup' = q
    BY <1>1, <1>3 DEF PopupTrust, PopupOnly
<1>6. PopupOf(q)'
    BY <1>2, <1>4, <1>5 DEF PopupOf, PageOf, LoadOf
<1> QED BY <1>4, <1>5, <1>6, PopupNext

LEMMA PopupWriteStep ==
    ASSUME FillTypes, PopupOK, PopupWriteTrust
    PROVE  popup' \in Popups /\ PopupOK'
<1>1. PICK p \in Popups : p = popup
    BY DEF FillTypes
<1>2. p.pc = "trusting" /\ PopupOf(p) /\ UNCHANGED <<page, loads, granted>>
    BY <1>1, PopupIs DEF PopupWriteTrust, PopupOnly, tab
<1>3. PICK q : q = [p EXCEPT !.pc = "filling"]
    OBVIOUS
<1>4. /\ q \in Popups /\ q.pc = "filling" /\ q.tab = p.tab /\ q.among = p.among /\ q.matches = p.matches
      /\ q.matched = p.matched /\ q.asked = p.asked /\ q.seen = p.seen /\ q.domain = p.domain /\ q.entry = p.entry
    BY <1>3 DEF Popups
<1>5. popup' = q
    BY <1>1, <1>3 DEF PopupWriteTrust, PopupOnly
<1>6. PopupOf(q)'
    BY <1>2, <1>4, <1>5 DEF PopupOf, PageOf, LoadOf
<1> QED BY <1>4, <1>5, <1>6, PopupNext

LEMMA PopupFillStep ==
    ASSUME FillTypes, PopupOK, PopupFill
    PROVE  popup' \in Popups /\ PopupOK'
<1>1. PICK p \in Popups : p = popup
    BY DEF FillTypes
<1>2. p.pc = "filling" /\ PopupOf(p) /\ UNCHANGED <<page, loads, granted>>
    BY <1>1, PopupIs DEF PopupFill, PopupOnly, tab
<1>3. PICK q : q = [p EXCEPT !.pc = "shown", !.entry = None, !.seen = {}]
    OBVIOUS
<1>4. /\ q \in Popups /\ q.pc = "shown" /\ q.tab = p.tab /\ q.among = p.among /\ q.matches = p.matches
      /\ q.matched = p.matched /\ q.asked = p.asked /\ q.seen = {}
    BY <1>3 DEF Popups
<1>5. popup' = q
    BY <1>1, <1>3 DEF PopupFill, PopupOnly
<1>6. PopupOf(q)'
    BY <1>2, <1>4, <1>5 DEF PopupOf, PageOf, LoadOf
<1> QED BY <1>4, <1>5, <1>6, PopupNext

LEMMA ClosedIs == Closed \in Popups /\ Closed.pc = "closed" /\ Closed.seen = {}
BY DEF Closed, Popups, Domains

LEMMA ClosePopupStep ==
    ASSUME ClosePopup
    PROVE  popup' \in Popups /\ PopupOK'
BY ClosedIs DEF ClosePopup, PopupOnly, PopupOK

LEMMA PopupStep ==
    ASSUME FillTypes, PopupOK, trusted \subseteq granted, PopupActs
    PROVE  popup' \in Popups /\ PopupOK'
BY OpenPopupStep, PopupPickStep, PopupTrustStep, PopupWriteStep, PopupFillStep, ClosePopupStep DEF PopupActs

----------------------------------------------------------------------------
(* Autofill: types, trust and what is filled in.                           *)

LEMMA TabTypes ==
    ASSUME FillConstants, FillTypes, FillSafe, NEW t \in Tabs, TabActs(t)
    PROVE  FillTypes'
<1>1. Goes
    <2>1. Next
        BY DEF TabActs, Next
    <2> QED BY <2>1, ItGoes
<1>2. Moves(t)
    BY <1>1, TabActStep DEF FillSafe
<1>3. UNCHANGED <<open, entries, revoking, popup>>
    BY TabActsKeep
<1>4. page' \in [Tabs -> Pages \cup {None}] /\ loads' \in [Tabs -> Nat]
    <2>1. ASSUME NEW p \in Pages, Load(t, p) \/ Change(t, p)
          PROVE  page' \in [Tabs -> Pages \cup {None}] /\ loads' \in [Tabs -> Nat]
        BY <1>1, <2>1, LoadTab, ChangeTab DEF FillSafe, FillTypes
    <2>2. ASSUME \A p \in Pages : ~Load(t, p) /\ ~Change(t, p)
          PROVE  UNCHANGED <<page, loads>>
        BY <2>2 DEF TabActs, AnswerMatches, Submit, CheckTrust, CancelTrust, TrustHost, WriteTrust, AnswerFill,
           PickEntry, tab
    <2> QED BY <2>1, <2>2 DEF FillTypes
<1>5. trusted' \subseteq Domains
    <2>1. CASE WriteTrust(t)
        <3>1. script[t].doing = "trusting" /\ script[t].seen \subseteq Domains
            BY <2>1 DEF WriteTrust, FillTypes, Scripts
        <3>2. page[t] \in Pages
            BY <3>1 DEF FillTypes, FillSafe, TabOK, Blank
        <3> QED BY <2>1, <3>1, <3>2 DEF WriteTrust, Domains, FillTypes
    <2>2. CASE ~WriteTrust(t)
        <3>1. trusted' = trusted
            BY <2>2 DEF TabActs, Load, Change, AnswerMatches, Submit, CheckTrust, CancelTrust, TrustHost, AnswerFill,
               PickEntry, trust
        <3> QED BY <3>1 DEF FillTypes
    <2> QED BY <2>1, <2>2
<1> QED BY <1>2, <1>3, <1>4, <1>5 DEF Moves, FillTypes

LEMMA UnlockTypes ==
    ASSUME FillConstants, FillTypes, FillSafe, Goes, Unlock
    PROVE  FillTypes'
<1>1. \A t \in Tabs : script'[t] \in Scripts /\ requests'[t] \in Seq(FillRequests)
    BY UnlockTab DEF FillSafe
<1>2. script' \in [Tabs -> Scripts]
    <2>1. PICK F : F = [t \in Tabs |-> IF (IF page[t] = None THEN None ELSE Detected(script[t].last, page[t], TRUE)) = None
                                       THEN script[t]
                                       ELSE [script[t] EXCEPT !.last = IF page[t] = None THEN None
                                                ELSE Detected(script[t].last, page[t], TRUE)]]
        OBVIOUS
    <2>2. script' = F /\ F = [t \in Tabs |-> F[t]]
        BY <2>1 DEF Unlock
    <2> QED BY <1>1, <2>2
<1>3. requests' \in [Tabs -> Seq(FillRequests)]
    <2>1. PICK F : F = [t \in Tabs |-> IF (IF page[t] = None THEN None ELSE Detected(script[t].last, page[t], TRUE)) = None
                                       THEN requests[t] ELSE Append(requests[t], Request("matches", t, None))]
        OBVIOUS
    <2>2. requests' = F /\ F = [t \in Tabs |-> F[t]]
        BY <2>1 DEF Unlock
    <2> QED BY <1>1, <2>2
<1> QED BY <1>2, <1>3 DEF Unlock, tab, trust, FillTypes

LEMMA ListTypes ==
    ASSUME FillTypes, ListActs
    PROVE  FillTypes'
<1>1. UNCHANGED <<page, loads, script, requests, popup>>
    BY DEF ListActs, Lock, StartRevoke, DeleteEntry, Revoke, tab
<1>2. open' \in BOOLEAN /\ entries' \subseteq Entries
    BY DEF ListActs, Lock, StartRevoke, DeleteEntry, Revoke, vault, FillTypes
<1>3. trusted' \subseteq Domains
    BY DEF ListActs, Lock, StartRevoke, DeleteEntry, Revoke, trust, FillTypes
<1>4. revoking' # None => revoking' \subseteq Domains
    BY DEF ListActs, Lock, StartRevoke, DeleteEntry, Revoke, trust, FillTypes
<1> QED BY <1>1, <1>2, <1>3, <1>4 DEF FillTypes

LEMMA PopupTypes ==
    ASSUME FillTypes, FillSafe, PopupActs
    PROVE  FillTypes'
<1>1. popup' \in Popups
    BY PopupStep DEF FillSafe
<1>2. UNCHANGED <<open, entries, page, loads, script, requests, revoking>>
    BY DEF PopupActs, OpenPopup, PopupTrust, PopupWriteTrust, PopupFill, ClosePopup, PopupPick, PopupOnly, vault, tab
<1>3. trusted' \subseteq Domains
    <2>1. popup.domain \in Domains /\ popup.seen \subseteq Domains
        BY DEF FillTypes, Popups
    <2> QED BY <2>1 DEF FillTypes, PopupActs, OpenPopup, PopupTrust, PopupWriteTrust, PopupFill, ClosePopup, PopupPick
<1> QED BY <1>1, <1>2, <1>3 DEF FillTypes

LEMMA FillTypesStep ==
    ASSUME FillConstants, FillTypes, FillSafe, [Next]_vars
    PROVE  FillTypes'
<1>1. Goes
    BY ItGoes
<1>2. UNCHANGED vars => FillTypes'
    BY DEF vars, FillTypes
<1> QED BY <1>1, <1>2, FillSteps, TabTypes, UnlockTypes, ListTypes, PopupTypes

\* What is stored, and what Options holds of it, was granted by the user.
LEMMA TrustStep ==
    ASSUME FillConstants, FillTypes, FillSafe, [Next]_vars
    PROVE  trusted' \subseteq granted' /\ (revoking' # None => revoking' \subseteq granted')
<1>1. granted \subseteq granted'
    BY ItGoes DEF Goes
<1>2. trusted \subseteq granted /\ (revoking # None => revoking \subseteq granted)
    BY DEF FillSafe
<1>3. ASSUME NEW t \in Tabs, WriteTrust(t)
      PROVE  trusted' \subseteq granted
    <2>1. MayBe(t) /\ script[t].seen \subseteq granted
        BY <1>3 DEF WriteTrust, FillSafe, TabOK, ScriptOK
    <2> QED BY <1>2, <1>3, <2>1 DEF WriteTrust, MayBe
<1>4. ASSUME PopupWriteTrust
      PROVE  trusted' \subseteq granted
    BY <1>2, <1>4 DEF PopupWriteTrust, FillSafe, PopupOK
<1>5. ASSUME NEW p \in Pages, Revoke(Content[p].domain)
      PROVE  trusted' \subseteq granted /\ revoking' = None
    BY <1>2, <1>5 DEF Revoke
<1>6. ASSUME StartRevoke
      PROVE  trusted' = trusted /\ revoking' = trusted
    BY <1>6 DEF StartRevoke
<1>7. ASSUME NEW t \in Tabs, TabActs(t), ~WriteTrust(t)
      PROVE  UNCHANGED <<trusted, revoking>>
    BY <1>7 DEF TabActs, Load, Change, AnswerMatches, Submit, CheckTrust, CancelTrust, TrustHost, AnswerFill,
       PickEntry, trust
<1>8. ASSUME PopupActs
      PROVE  revoking' = revoking /\ (trusted' = trusted \/ PopupWriteTrust)
    BY <1>8 DEF PopupActs, OpenPopup, PopupTrust, PopupFill, ClosePopup, PopupPick, PopupWriteTrust, PopupOnly
<1>9. ASSUME Unlock \/ Lock \/ (\E e \in Entries : DeleteEntry(e)) \/ UNCHANGED vars
      PROVE  UNCHANGED <<trusted, revoking>>
    BY <1>9 DEF Unlock, Lock, DeleteEntry, trust, vars
<1>10. \A t \in Tabs : TabActs(t) => revoking' = revoking
    BY TabActsKeep
<1> QED BY <1>1, <1>2, <1>3, <1>4, <1>5, <1>6, <1>7, <1>8, <1>9, <1>10, FillSteps DEF ListActs

\* A fill that is as it must be.
Right(f) ==
    /\ f.moved \/ Content[f.page].domain \in granted
    /\ f.stale \/ Best(f.entry, f.page, f.among)
    /\ Hiding(f.page, f.form)

LEMMA FilledIs == FilledRightly <=> \A f \in filled : Right(f)
BY DEF FilledRightly, FilledWhereTrusted, FilledWithBest, Right, Best, Hiding

LEMMA AnswerFilled ==
    ASSUME FillConstants, FillTypes, FillSafe, NEW t \in Tabs, AnswerFill(t), NEW f \in filled', f \notin filled
    PROVE  Right(f)
<1>1. PICK r : r = Head(requests[t])
    OBVIOUS
<1>2. requests[t] # <<>> /\ r.kind = "fill" /\ requests' = [requests EXCEPT ![t] = Tail(requests[t])]
    BY <1>1 DEF AnswerFill
<1>3. RequestOK(t, r) /\ page[t] # None
    BY <1>1, <1>2, Drops DEF FillSafe, TabOK, Blank
<1>4. page[t] \in Pages
    BY <1>3 DEF FillTypes
<1>5. f = [entry |-> r.entry, page |-> page[t], form |-> Forms[page[t]],
           moved |-> r.load # loads[t], stale |-> r.load # loads[t], among |-> script[t].among]
    BY <1>1 DEF AnswerFill
<1>6. Hiding(page[t], Forms[page[t]])
    BY <1>4, FoundHides
<1>7. r.load = loads[t] => Content[page[t]].domain \in granted /\ Best(r.entry, page[t], script[t].among)
    BY <1>2, <1>3 DEF RequestOK, MayBe, Ready
<1> QED BY <1>5, <1>6, <1>7 DEF Right

LEMMA PopupFilled ==
    ASSUME FillConstants, FillTypes, FillSafe, PopupFill, NEW f \in filled', f \notin filled
    PROVE  Right(f)
<1>1. PICK p : p = page[popup.tab]
    OBVIOUS
<1>2. popup.pc = "filling" /\ popup.tab \in Tabs /\ p # None
    BY <1>1 DEF PopupFill, FillSafe, PopupOK
<1>3. p \in Pages
    BY <1>1, <1>2 DEF FillTypes
<1>4. f = [entry |-> popup.entry, page |-> p, form |-> Forms[p],
           moved |-> popup.asked # loads[popup.tab],
           stale |-> popup.matched # loads[popup.tab], among |-> popup.among]
    BY <1>1 DEF PopupFill
<1>5. Hiding(p, Forms[p])
    BY <1>3, FoundHides
<1>6. popup.asked = loads[popup.tab] => Content[p].domain \in granted
    BY <1>1, <1>2 DEF FillSafe, PopupOK, MayBe
<1>7. popup.matched = loads[popup.tab] => Best(popup.entry, p, popup.among)
    BY <1>1, <1>2 DEF FillSafe, PopupOK
<1> QED BY <1>4, <1>5, <1>6, <1>7 DEF Right

LEMMA FilledStep ==
    ASSUME FillConstants, FillTypes, FillSafe, [Next]_vars
    PROVE  FilledRightly'
<1>1. granted \subseteq granted'
    BY ItGoes DEF Goes
<1>2. \A f : Right(f) => Right(f)'
    BY <1>1 DEF Right
<1>3. \A f \in filled : Right(f)
    BY FilledIs DEF FillSafe
<1>4. filled' = filled \/ (\E t \in Tabs : AnswerFill(t)) \/ PopupFill
    BY DEF Next, Load, Change, AnswerMatches, Submit, CheckTrust, CancelTrust, TrustHost, WriteTrust, PickEntry,
       Unlock, Lock, StartRevoke, DeleteEntry, Revoke, OpenPopup, PopupTrust, PopupWriteTrust, ClosePopup, PopupPick,
       vars
<1>5. \A f \in filled' : Right(f)
    BY <1>3, <1>4, AnswerFilled, PopupFilled
<1>6. \A f \in filled' : Right(f)'
    BY <1>2, <1>5
<1>7. FilledRightly' <=> \A f \in filled' : Right(f)'
    BY FilledIs DEF FilledRightly, FilledWhereTrusted, FilledWithBest, Right, Best, Hiding
<1> QED BY <1>6, <1>7

FillInv == FillTypes /\ FillSafe

LEMMA FillBegin ==
    ASSUME FillConstants, Init
    PROVE  FillInv
<1>1. FillTypes
    BY NewScriptIs, ClosedIs DEF Init, FillTypes
<1>2. ASSUME NEW t \in Tabs
      PROVE  TabOK(t)
    BY NewScriptIs DEF Init, TabOK, Blank, ScriptOK, Pending
<1>3. PopupOK
    BY ClosedIs DEF Init, PopupOK
<1> QED BY <1>1, <1>2, <1>3 DEF Init, FillInv, FillSafe, FilledRightly, FilledWhereTrusted, FilledWithBest

LEMMA FillGoesOn ==
    ASSUME FillConstants, FillInv, [Next]_vars
    PROVE  FillInv'
<1>1. Goes /\ FillTypes' /\ PopupOK
    BY ItGoes, FillTypesStep DEF FillInv, FillSafe
<1>2. PopupOK'
    <2>1. CASE PopupActs
        BY <2>1, PopupStep DEF FillInv, FillSafe
    <2>2. CASE ~PopupActs
        <3>1. popup' = popup
            BY <2>2, FillSteps, TabActsKeep DEF Unlock, ListActs, Lock, StartRevoke, DeleteEntry, Revoke, vars
        <3>2. loads' \in [Tabs -> Nat]
            BY <1>1 DEF FillTypes
        <3> QED BY <1>1, <3>1, <3>2, PopupStays DEF FillInv
    <2> QED BY <2>1, <2>2
<1>3. trusted' \subseteq granted' /\ (revoking' # None => revoking' \subseteq granted')
    BY TrustStep DEF FillInv
<1>4. (\A t \in Tabs : TabOK(t)') /\ FilledRightly'
    BY TabsStep, FilledStep DEF FillInv
<1> QED BY <1>1, <1>2, <1>3, <1>4 DEF FillInv, FillSafe

\* A page is filled in when the user trusts its domain, with an entry that no other matches
\* better, and the password into a field that hides it or says it is for one: whatever tabs,
\* popup, Options and lock do between the pick and the fill, unless the tab moved on.
THEOREM BackgroundFillsRightly ==
    ASSUME FillConstants
    PROVE  BackgroundSpec => []FilledRightly
<1>1. BackgroundInit => FillInv
    BY BackgroundBegin, FillBegin
<1>2. FillInv /\ [BackgroundNext]_<<subject, vars, shared>> => FillInv'
    BY BackgroundStep, FillGoesOn
<1>3. FillInv => FilledRightly
    BY DEF FillInv, FillSafe
<1> QED BY <1>1, <1>2, <1>3, PTL DEF BackgroundSpec

----------------------------------------------------------------------------
(* The types of every module of the run, with its bounds.                  *)

\* Autofill: the pages a tab loads and the requests it has under way.
FillBounds == \A t \in Tabs : loads[t] \in 0..MaxLoads /\ Len(requests[t]) <= 2

LEMMA TabActBound ==
    ASSUME FillConstants, FillTypes, Goes, NEW t \in Tabs, TabOK(t), trusted \subseteq granted, TabActs(t)
    PROVE  /\ Len(requests'[t]) <= Len(requests[t]) \/ (Room(t) /\ Len(requests'[t]) <= Len(requests[t]) + 1)
           /\ loads'[t] = loads[t] \/ (loads[t] < MaxLoads /\ loads'[t] = loads[t] + 1)
<1>1. ASSUME NEW p \in Pages, Load(t, p)
      PROVE  /\ Room(t) /\ Len(requests'[t]) <= Len(requests[t]) + 1
             /\ loads[t] < MaxLoads /\ loads'[t] = loads[t] + 1
    BY <1>1, LoadTab
<1>2. ASSUME NEW p \in Pages, Change(t, p)
      PROVE  Room(t) /\ Len(requests'[t]) <= Len(requests[t]) + 1 /\ loads' = loads
    BY <1>2, ChangeTab
<1>3. ASSUME \/ AnswerMatches(t) \/ Submit(t) \/ CancelTrust(t) \/ AnswerFill(t) \/ TrustHost(t)
             \/ \E e \in Entries : PickEntry(t, e)
      PROVE  Len(requests'[t]) <= Len(requests[t]) /\ loads' = loads
    <2>1. Len(requests'[t]) <= Len(requests[t])
        BY <1>3, AnswerTab, SubmitTab, CancelTab, FillTab, PickTab, TrustTab
    <2>2. loads' = loads
        BY <1>3 DEF AnswerMatches, Submit, CancelTrust, AnswerFill, TrustHost, PickEntry, tab
    <2> QED BY <2>1, <2>2
<1>4. ASSUME CheckTrust(t) \/ WriteTrust(t)
      PROVE  Room(t) /\ Len(requests'[t]) <= Len(requests[t]) + 1 /\ loads' = loads
    BY <1>4, CheckTab, WriteTab DEF CheckTrust, WriteTrust, tab
<1> QED BY <1>1, <1>2, <1>3, <1>4 DEF TabActs

LEMMA FillBoundsStep ==
    ASSUME FillConstants, MaxLoads \in Nat, FillInv, FillInv', FillBounds, [Next]_vars
    PROVE  FillBounds'
<1>1. Goes
    BY ItGoes DEF FillInv
<1>2. \A t \in Tabs : /\ loads[t] \in 0..MaxLoads /\ loads'[t] \in Nat
                      /\ Len(requests[t]) \in Nat /\ Len(requests'[t]) \in Nat /\ Len(requests[t]) <= 2
    <2>1. \A t \in Tabs : requests[t] \in Seq(FillRequests) /\ requests'[t] \in Seq(FillRequests) /\ loads'[t] \in Nat
        BY DEF FillInv, FillTypes
    <2>2. \A t \in Tabs : Len(requests[t]) \in Nat /\ Len(requests'[t]) \in Nat
        BY <2>1
    <2> QED BY <2>1, <2>2 DEF FillBounds
<1>3. ASSUME NEW t \in Tabs, TabActs(t)
      PROVE  \A u \in Tabs : loads'[u] <= MaxLoads /\ Len(requests'[u]) <= 2
    <2>1. Moves(t)
        BY <1>1, <1>3, TabActStep DEF FillInv, FillSafe
    <2>2. /\ Len(requests'[t]) <= Len(requests[t]) \/ (Len(requests[t]) < 2 /\ Len(requests'[t]) <= Len(requests[t]) + 1)
          /\ loads'[t] = loads[t] \/ (loads[t] < MaxLoads /\ loads'[t] = loads[t] + 1)
        BY <1>1, <1>3, TabActBound DEF FillInv, FillSafe, Room
    <2>3. loads'[t] <= MaxLoads /\ Len(requests'[t]) <= 2
        BY <1>2, <2>2
    <2>4. \A u \in Tabs \ {t} : loads'[u] = loads[u] /\ requests'[u] = requests[u]
        BY <2>1 DEF Moves
    <2> QED BY <1>2, <2>3, <2>4
<1>4. ASSUME Unlock
      PROVE  \A u \in Tabs : loads'[u] <= MaxLoads /\ Len(requests'[u]) <= 2
    <2>1. ASSUME NEW u \in Tabs
          PROVE  Len(requests[u]) < 2 /\ Len(requests'[u]) <= Len(requests[u]) + 1
        BY <1>1, <1>4, UnlockTab DEF FillInv, FillSafe, Room
    <2>2. loads' = loads
        BY <1>4 DEF Unlock, tab
    <2> QED BY <1>2, <2>1, <2>2
<1>5. ASSUME ListActs \/ PopupActs \/ UNCHANGED vars
      PROVE  \A u \in Tabs : loads'[u] <= MaxLoads /\ Len(requests'[u]) <= 2
    BY <1>2, <1>5, OtherActsKeep
<1>6. \A u \in Tabs : loads'[u] <= MaxLoads /\ Len(requests'[u]) <= 2
    BY <1>3, <1>4, <1>5, FillSteps
<1> QED BY <1>2, <1>6 DEF FillBounds

LEMMA FillTypeOK == FillInv /\ FillBounds => TypeOK
<1> SUFFICES ASSUME FillInv, FillBounds PROVE TypeOK
    OBVIOUS
<1>1. \A t \in Tabs : page[t] \in Pages \cup {None} /\ script[t].matches \subseteq Entries
    BY DEF FillInv, FillTypes, Scripts
<1> QED BY <1>1 DEF FillInv, FillTypes, FillSafe, FillBounds, TypeOK

\* LoginCapture: its flags and the forms submitted.
LoginCounts == clash \in BOOLEAN /\ strayed \in BOOLEAN /\ submits \in 0..MaxSubmits

LEMMA LoginCountsStep ==
    ASSUME MaxSubmits \in Nat, LoginTypes, LoginCounts, [Logins!Next]_Logins!vars
    PROVE  LoginCounts'
<1>1. ASSUME NEW h \in Handlers, NEW t \in Twins,
             \/ \E login \in Logins!Capture : Logins!Submit(h, t, login)
             \/ Logins!CloseTab(h, t) \/ Logins!ShowPrompt(h, t) \/ Logins!Dismiss(h, t)
             \/ \E e \in logins \cup {None} : Logins!Apply(h, t, e)
      PROVE  LoginCounts'
    <2>1. clash' \in BOOLEAN
        BY <1>1, Zenon DEF Logins!Submit, Logins!CloseTab, Logins!ShowPrompt, Logins!Dismiss, Logins!Apply
    <2>2. strayed' \in BOOLEAN
        BY <1>1, Zenon DEF Logins!Submit, Logins!CloseTab, Logins!ShowPrompt, Logins!Dismiss, Logins!Apply, LoginCounts
    <2>3. submits' = submits \/ (submits < MaxSubmits /\ submits' = submits + 1)
        BY <1>1 DEF Logins!Submit, Logins!CloseTab, Logins!ShowPrompt, Logins!Dismiss, Logins!Apply
    <2>4. submits' \in 0..MaxSubmits
        BY <2>3 DEF LoginCounts
    <2> QED BY <2>1, <2>2, <2>4, Zenon DEF LoginCounts
<1>2. CASE \E h \in Handlers : WaitActs(h)
    BY <1>2 DEF WaitActs, Logins!ReadToCapture, Logins!WriteCapture, Logins!AskPrompt, Logins!ReadToApply,
       Logins!CreateEntry, Logins!UpdateEntry, Logins!Refuse, Logins!Persisted, Logins!PersistFails,
       Logins!ReadToClear, Logins!WriteCleared, LoginCounts
<1>3. CASE PasswordActs \/ UNCHANGED Logins!vars
    BY <1>3 DEF PasswordActs, Logins!GeneratePassword, Logins!Expire, Logins!vars, LoginCounts
<1> QED BY <1>1, <1>2, <1>3, LoginSteps DEF StartActs

LEMMA LoginTypeOK == LoginInv /\ LoginCounts => Logins!TypeOK
BY DEF LoginInv, LoginTypes, Vaulted, Logged, LoginCounts, Logins!TypeOK

\* What the invariants of the modules need to be invariants, and what their bounds need.
RunConstants ==
    /\ FillConstants /\ ClipConstants /\ DriveConstants
    /\ MaxTime \in Nat /\ Threshold \in Nat
    /\ MaxLoads \in Nat /\ MaxSessions \in Nat /\ MaxUpdates \in Nat /\ MaxSubmits \in Nat

RunInv ==
    /\ SessionInv /\ LockInv /\ FillInv /\ FillBounds
    /\ subject = "VaultSession" => SessionLemmas!Bounded
    /\ subject = "LockState" => LockLemmas!Bounded
    /\ subject = "LoginCapture" => LoginInv /\ LoginCounts
    /\ subject = "DriveAccess" => DriveInv
    /\ subject = "ClipboardClear" => ClipInv

LEMMA RunBegins ==
    ASSUME RunConstants, BackgroundInit
    PROVE  RunInv
<1>1. SessionInv /\ LockInv /\ FillInv
    BY SessionBegins, LockBegins, BackgroundBegin, FillBegin DEF RunConstants
<1>2. FillBounds
    BY BackgroundBegin DEF Init, FillBounds, RunConstants
<1>3. subject = "VaultSession" => SessionLemmas!Bounded
    BY BackgroundBegin, SameSession, SessionLemmas!BoundedInit DEF RunConstants
<1>4. subject = "LockState" => LockLemmas!Bounded
    BY BackgroundBegin, SameLock, LockLemmas!BoundedInit DEF RunConstants
<1>5. subject = "LoginCapture" => LoginInv /\ LoginCounts
    <2>1. ASSUME Logins!Init
          PROVE  LoginCounts
        <3>1. MaxSubmits \in Nat /\ submits = 0
            BY <2>1 DEF Logins!Init, RunConstants
        <3>2. submits \in 0..MaxSubmits
            BY <3>1
        <3>3. clash \in BOOLEAN /\ strayed \in BOOLEAN
            BY <2>1, Zenon DEF Logins!Init
        <3> QED BY <3>2, <3>3, Zenon DEF LoginCounts
    <2> QED BY <2>1, BackgroundBegin, LoginBegin
<1>6. subject = "DriveAccess" => DriveInv
    BY BackgroundBegin, DriveBegin
<1>7. subject = "ClipboardClear" => ClipInv
    BY BackgroundBegin, ClipBegin DEF RunConstants
<1> QED BY <1>1, <1>2, <1>3, <1>4, <1>5, <1>6, <1>7 DEF RunInv

LEMMA RunGoesOn ==
    ASSUME RunConstants, RunInv, [BackgroundNext]_<<subject, vars, shared>>
    PROVE  RunInv'
<1>1. SessionInv' /\ LockInv'
    BY SessionGoesOn, LockGoesOn DEF RunConstants, RunInv
<1>2. FillInv' /\ FillBounds'
    BY BackgroundStep, FillGoesOn, FillBoundsStep DEF RunConstants, RunInv
<1>3. subject' = "VaultSession" => SessionLemmas!Bounded'
    BY <1>1, BackgroundStep, SameSession, SessionLemmas!BoundedStep DEF RunConstants, RunInv, SessionInv
<1>4. subject' = "LockState" => LockLemmas!Bounded'
    BY BackgroundStep, SameLock, LockLemmas!BoundedStep DEF RunConstants, RunInv, LockInv, LockLemmas!LInv
<1>5. subject' = "LoginCapture" => LoginInv' /\ LoginCounts'
    BY BackgroundStep, LoginTypesStep, AloneStep, OwnStep, LoginCountsStep DEF RunConstants, RunInv, LoginInv
<1>6. subject' = "DriveAccess" => DriveInv'
    BY BackgroundStep, DriveGoesOn DEF RunConstants, RunInv
<1>7. subject' = "ClipboardClear" => ClipInv'
    BY BackgroundStep, ClipGoesOn DEF RunConstants, RunInv
<1> QED BY <1>1, <1>2, <1>3, <1>4, <1>5, <1>6, <1>7 DEF RunInv

\* Every module of the run keeps its types, and the sequences and counters their bounds.
THEOREM BackgroundTyped ==
    ASSUME RunConstants
    PROVE  BackgroundSpec => []TypesOK
<1>1. RunInv => TypesOK
    <2> SUFFICES ASSUME RunInv PROVE TypesOK
        OBVIOUS
    <2>1. subject = "VaultSession" => Session!TypeOK
        BY SameSession, SessionLemmas!IInvTypeOK DEF RunInv, SessionInv
    <2>2. subject = "LockState" => LockOf!TypeOK
        BY SameLock, LockLemmas!LInvTypeOK DEF RunInv, LockInv
    <2>3. subject = "LoginCapture" => Logins!TypeOK
        BY LoginTypeOK DEF RunInv
    <2>4. subject = "DriveAccess" => Drive!TypeOK
        BY DriveTypeOK DEF RunInv
    <2>5. subject = "ClipboardClear" => Clip!TypeOK
        BY ClipTypeOK DEF RunInv, ClipInv
    <2>6. TypeOK
        BY FillTypeOK DEF RunInv
    <2> QED BY <2>1, <2>2, <2>3, <2>4, <2>5, <2>6 DEF TypesOK
<1> QED BY <1>1, RunBegins, RunGoesOn, PTL DEF BackgroundSpec
=============================================================================
