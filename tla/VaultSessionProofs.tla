-------------------------- MODULE VaultSessionProofs --------------------------
(***************************************************************************)
(* Proofs about VaultSession, for any vaults, edits, handlers and bounds.  *)
(* The invariant says where edits are: in trees and files of their own     *)
(* vault only (CallOK, TreesOK, FilesOK), and, once their handler is past  *)
(* its write, in the file, in the open tree and in all that any handler    *)
(* holds of the file (Safe), as long as nobody has raced (Alone, Current). *)
(***************************************************************************)
EXTENDS VaultSession, TLAPS

Call == [pc : {"idle", "config", "read", "load", "fetch", "prepare", "save", "write", "stat"},
         vault : Vaults \cup {None}, gen : Nat, edit : Edits \cup {None}, data : Trees]

Types ==
    /\ file \in [Vaults -> Trees]
    /\ of \in Seq(Vaults) /\ tree \in Seq(Trees) /\ Len(tree) = Len(of)
    /\ session \in 0..Len(of)
    /\ call \in [Calls -> Call]
    /\ reported \subseteq Edits

\* The edits of S were made in vault v.
Belong(S, v) == \A e \in S : e \in DOMAIN target /\ target[e] = v

Opened == 1..Len(of)
TreesOK == \A g \in Opened : Belong(tree[g], of[g])
FilesOK == \A v \in Vaults : Belong(file[v], v)

\* The vault of a handler that holds a content, and the session it saves.
CallOK(c) ==
    /\ call[c].pc \in {"config", "read", "load"} => call[c].vault \in Vaults
    /\ call[c].pc = "load" => Belong(call[c].data, call[c].vault)
    /\ call[c].pc \in {"fetch", "prepare"} =>
         /\ call[c].gen \in Opened /\ call[c].edit \in Edits /\ Belong({call[c].edit}, of[call[c].gen])
         /\ call[c].pc = "fetch" => call[c].edit \in tree[call[c].gen]
    /\ call[c].pc \in {"save", "write", "stat"} =>
         /\ call[c].gen \in Opened /\ call[c].vault = of[call[c].gen]
         /\ call[c].data \subseteq tree[call[c].gen]
         /\ call[c].edit \in crossed \cup {None} \cup call[c].data

\* Whether c holds a content of v's file; two that do have raced.
Holds(c, v) == call[c].pc \in Holding /\ call[c].vault = v
Alone == \A v \in Vaults : \A c, d \in Calls : Holds(c, v) /\ Holds(d, v) => c = d \/ v \in raced

\* A session that is open while its file is written is the one that is written.
IsOpen(v) == session # Locked /\ of[session] = v
Current == \A c \in Calls : call[c].pc \in {"save", "write"} =>
    \A v \in Vaults : Holds(c, v) /\ IsOpen(v) => session = call[c].gen \/ v \in raced

\* Edits that are answered with ok, or will be unless their handler fails.
Kept(e) == e \in reported \/ \E c \in Calls : call[c].pc = "stat" /\ call[c].edit = e /\ e # None

Everywhere(e, v) ==
    /\ e \in file[v]
    /\ IsOpen(v) => e \in tree[session]
    /\ \A c \in Calls : Holds(c, v) => e \in call[c].data

Safe == \A e \in Edits : Kept(e) /\ e \notin crossed =>
    /\ e \in DOMAIN target /\ target[e] \in Vaults
    /\ target[e] \notin raced => Everywhere(e, target[e])

CallsOK == \A c \in Calls : CallOK(c)

IInv == Types /\ TreesOK /\ FilesOK /\ CallsOK /\ Alone /\ Current /\ Safe

-----------------------------------------------------------------------------
(* What steps leave alone.                                                 *)

\* Sessions, edits and what is known of them only become more.
Grows ==
    /\ Len(of) <= Len(of')
    /\ \A g \in Opened : of'[g] = of[g] /\ tree[g] \subseteq tree'[g]
    /\ DOMAIN target \subseteq DOMAIN target'
    /\ \A e \in DOMAIN target : target'[e] = target[e]
    /\ crossed \subseteq crossed' /\ raced \subseteq raced'

LEMMA CallType ==
    ASSUME Types, NEW c \in Calls
    PROVE  /\ call[c] \in Call /\ call[c].vault \in Vaults \cup {None} /\ call[c].gen \in Nat
           /\ call[c].edit \in Edits \cup {None} /\ call[c].data \in Trees
           /\ call[c].pc \in {"idle", "config", "read", "load", "fetch", "prepare", "save",
                              "write", "stat"}
           /\ call[c] = [pc |-> call[c].pc, vault |-> call[c].vault, gen |-> call[c].gen,
                         edit |-> call[c].edit, data |-> call[c].data]
BY DEF Types, Call

LEMMA IdleIsCall == Idle \in Call /\ Idle.pc = "idle"
BY DEF Idle, Call, Locked, Trees

LEMMA OneCall ==
    ASSUME Types, NEW c \in Calls, NEW y \in Call, call' = [call EXCEPT ![c] = y]
    PROVE  /\ call' \in [Calls -> Call] /\ call'[c] = y
           /\ \A d \in Calls \ {c} : call'[d] = call[d]
BY DEF Types

LEMMA OpenedKept ==
    ASSUME Types, Grows
    PROVE  /\ Len(of) \in Nat /\ Opened = 1..Len(of)
           /\ Opened' = 1..Len(of') /\ (Len(of') \in Nat => Opened \subseteq Opened')
BY DEF Types, Grows, Opened

LEMMA BelongKept ==
    ASSUME Grows, NEW S, NEW v, Belong(S, v)
    PROVE  \A e \in S : e \in DOMAIN target' /\ target'[e] = v
BY DEF Grows, Belong

LEMMA CallKept ==
    ASSUME Types, Types', Grows, NEW c \in Calls, CallOK(c), call'[c] = call[c]
    PROVE  CallOK(c)'
<1>1. Opened \subseteq Opened' /\ \A g \in Opened : of'[g] = of[g] /\ tree[g] \subseteq tree'[g]
    BY OpenedKept DEF Grows, Types
<1>2. \A S, v : Belong(S, v) => \A e \in S : e \in DOMAIN target' /\ target'[e] = v
    BY BelongKept
<1>3. call'[c].pc = "load" => Belong(call[c].data, call[c].vault)'
    <2> SUFFICES ASSUME call'[c].pc = "load", NEW e \in call'[c].data
                 PROVE  e \in DOMAIN target' /\ target'[e] = call'[c].vault
        BY DEF Belong
    <2>1. Belong(call[c].data, call[c].vault) /\ e \in call[c].data
        BY DEF CallOK
    <2> QED BY <1>2, <2>1
<1>4. call[c].pc \in {"fetch", "prepare"} =>
        call[c].gen \in Opened /\ of'[call[c].gen] = of[call[c].gen]
        /\ \A e \in {call[c].edit} : e \in DOMAIN target' /\ target'[e] = of[call[c].gen]
    BY <1>1, <1>2 DEF CallOK
<1>5. crossed \subseteq crossed'
    BY DEF Grows
<1> QED BY <1>1, <1>3, <1>4, <1>5 DEF CallOK, Belong

LEMMA SameFiles ==
    ASSUME IInv, Grows, file' = file
    PROVE  FilesOK'
<1>1. \A v \in Vaults : Belong(file[v], v)
    BY DEF IInv, FilesOK
<1> QED BY <1>1, BelongKept DEF FilesOK, Belong

LEMMA SameTrees ==
    ASSUME IInv, Grows, of' = of, tree' = tree
    PROVE  TreesOK'
<1> SUFFICES ASSUME NEW g \in Opened', NEW e \in tree'[g]
             PROVE  e \in DOMAIN target' /\ target'[e] = of'[g]
    BY DEF TreesOK, Belong
<1>1. g \in Opened /\ e \in tree[g] /\ Belong(tree[g], of[g])
    BY DEF IInv, TreesOK, Opened
<1> QED BY <1>1, BelongKept

-----------------------------------------------------------------------------
(* Steps that write no file and open no session.                           *)

\* What handler c may come to hold: the file or the open tree, with others only if
\* that is noted; and what it may be saving.
Moves(c) ==
    /\ CallOK(c)' /\ call'[c].pc # "stat"
    /\ \A v \in Vaults : Holds(c, v)' =>
        \/ Holds(c, v) /\ call'[c].data = call[c].data
        \/ /\ v \in raced' \/ \A d \in Calls \ {c} : ~Holds(d, v)
           /\ file[v] \subseteq call'[c].data \/ (IsOpen(v) /\ tree[session] \subseteq call'[c].data)
    /\ call'[c].pc \in {"save", "write"} =>
        \/ session' = Locked \/ call'[c].gen = session'
        \/ /\ call[c].pc \in {"save", "write"}
           /\ call'[c].gen = call[c].gen /\ call'[c].vault = call[c].vault

Steps(s) ==
    /\ Types' /\ Grows
    /\ \A c \in Calls : call'[c] = call[c] \/ call'[c].pc = "idle" \/ (c = s /\ Moves(c))
    /\ session' \in {session, Locked}
    /\ \A v \in Vaults : file[v] \subseteq file'[v]
    /\ \A e \in Edits : e \in reported' => Kept(e)

LEMMA StepKeeps ==
    ASSUME IInv, NEW s, Steps(s)
    PROVE  CallsOK' /\ Alone' /\ Current' /\ Safe'
<1>1. Types /\ Types' /\ Grows /\ CallsOK /\ Alone /\ Current /\ Safe
    BY DEF IInv, Steps
<1>2. CallsOK'
    <2> SUFFICES ASSUME NEW c \in Calls PROVE CallOK(c)'
        BY DEF CallsOK
    <2>1. CASE call'[c] = call[c]
        BY <1>1, <2>1, CallKept DEF CallsOK
    <2>2. CASE call'[c].pc = "idle"
        BY <2>2 DEF CallOK
    <2>3. CASE Moves(c)
        BY <2>3 DEF Moves
    <2> QED BY <2>1, <2>2, <2>3 DEF Steps
<1>3. raced \subseteq raced' /\ "idle" \notin Holding
    BY <1>1 DEF Grows, Holding
<1>4. ASSUME NEW v \in Vaults, NEW c \in Calls, Holds(c, v)'
      PROVE  \/ Holds(c, v) /\ call'[c].data = call[c].data
             \/ /\ c = s
                /\ v \in raced' \/ \A d \in Calls \ {c} : ~Holds(d, v)
                /\ file[v] \subseteq call'[c].data \/ (IsOpen(v) /\ tree[session] \subseteq call'[c].data)
    <2>1. CASE call'[c] = call[c]
        BY <1>4, <2>1 DEF Holds
    <2>2. CASE c = s /\ Moves(c)
        BY <1>4, <2>2 DEF Moves
    <2> QED BY <1>3, <1>4, <2>1, <2>2 DEF Steps, Holds
<1>5. Alone'
    <2> SUFFICES ASSUME NEW v \in Vaults, NEW c \in Calls, NEW d \in Calls,
                        Holds(c, v)', Holds(d, v)', c # d
                 PROVE  v \in raced'
        BY DEF Alone
    <2>1. CASE Holds(c, v) /\ Holds(d, v)
        BY <1>1, <1>3, <2>1 DEF Alone
    <2>2. CASE ~Holds(c, v)
        <3>1. c = s /\ (v \in raced' \/ ~Holds(d, v))
            BY <1>4, <2>2
        <3> QED BY <1>4, <3>1
    <2>3. CASE ~Holds(d, v)
        <3>1. d = s /\ (v \in raced' \/ ~Holds(c, v))
            BY <1>4, <2>3
        <3> QED BY <1>4, <3>1
    <2> QED BY <2>1, <2>2, <2>3
<1>6. ASSUME NEW v \in Vaults, IsOpen(v)'
      PROVE  IsOpen(v) /\ session' = session /\ tree[session] \subseteq tree'[session']
    <2>1. session' = session /\ session # Locked
        BY <1>6 DEF IsOpen, Steps
    <2>2. session \in Opened
        BY <1>1, <2>1 DEF Types, Opened, Locked
    <2> QED BY <1>1, <1>6, <2>1, <2>2 DEF Grows, IsOpen
<1>7. Current'
    <2> SUFFICES ASSUME NEW c \in Calls, call'[c].pc \in {"save", "write"}, NEW v \in Vaults,
                        Holds(c, v)', IsOpen(v)', v \notin raced'
                 PROVE  session' = call'[c].gen
        BY DEF Current
    <2>1. IsOpen(v) /\ session' = session /\ session' # Locked /\ v \notin raced
        BY <1>3, <1>6 DEF IsOpen
    <2>2. CASE call'[c] = call[c]
        <3>1. Holds(c, v) /\ call[c].pc \in {"save", "write"}
            BY <2>2 DEF Holds
        <3>2. session = call[c].gen
            BY <1>1, <2>1, <3>1 DEF Current
        <3> QED BY <2>1, <2>2, <3>2
    <2>3. CASE Moves(c)
        <3>1. CASE call'[c].gen = session'
            BY <3>1
        <3>2. CASE /\ call[c].pc \in {"save", "write"}
                   /\ call'[c].gen = call[c].gen /\ call'[c].vault = call[c].vault
            <4>1. Holds(c, v)
                BY <3>2 DEF Holds, Holding
            <4> QED BY <1>1, <2>1, <3>2, <4>1 DEF Current
        <3> QED BY <2>1, <2>3, <3>1, <3>2 DEF Moves
    <2> QED BY <2>2, <2>3 DEF Steps
<1>8. Safe'
    <2> SUFFICES ASSUME NEW e \in Edits, Kept(e)', e \notin crossed'
                 PROVE  /\ e \in DOMAIN target' /\ target'[e] \in Vaults
                        /\ target'[e] \notin raced' => Everywhere(e, target[e])'
        BY DEF Safe
    <2>1. Kept(e)
        <3>1. CASE e \in reported'
            BY <3>1 DEF Steps
        <3>2. ASSUME NEW c \in Calls, call'[c].pc = "stat", call'[c].edit = e, e # None
              PROVE  Kept(e)
            <4>1. call'[c] = call[c]
                BY <3>2 DEF Steps, Moves
            <4> QED BY <3>2, <4>1 DEF Kept
        <3> QED BY <3>1, <3>2 DEF Kept
    <2>2. e \notin crossed
        BY <1>1 DEF Grows
    <2>3. e \in DOMAIN target /\ target[e] \in Vaults /\ (target[e] \notin raced => Everywhere(e, target[e]))
        BY <1>1, <2>1, <2>2 DEF Safe
    <2>4. e \in DOMAIN target' /\ target'[e] = target[e]
        BY <1>1, <2>3 DEF Grows
    <2>5. ASSUME NEW v \in Vaults, v = target[e], v \notin raced'
          PROVE  /\ e \in file'[v]
                 /\ IsOpen(v)' => e \in tree'[session']
                 /\ \A c \in Calls : Holds(c, v)' => e \in call'[c].data
        <3>1. Everywhere(e, v)
            BY <1>3, <2>3, <2>5
        <3>2. e \in file'[v]
            BY <3>1 DEF Everywhere, Steps
        <3>3. IsOpen(v)' => e \in tree'[session']
            BY <1>6, <3>1 DEF Everywhere
        <3>4. \A c \in Calls : Holds(c, v)' => e \in call'[c].data
            BY <1>4, <3>1 DEF Everywhere
        <3> QED BY <3>2, <3>3, <3>4
    <2>6. target'[e] \notin raced' => Everywhere(e, target[e])'
        BY <2>3, <2>4, <2>5 DEF Everywhere, IsOpen, Holds
    <2> QED BY <2>3, <2>4, <2>6
<1> QED BY <1>2, <1>5, <1>7, <1>8

LEMMA SameGrows ==
    ASSUME UNCHANGED <<of, tree, target, crossed>>, raced \subseteq raced'
    PROVE  Grows
BY DEF Grows, Opened

\* Steps that change nothing of the sessions but which one is open.
LEMMA QuietKeeps ==
    ASSUME IInv, UNCHANGED <<of, tree, target, reported, crossed>>, raced \subseteq raced',
           session' \in {session, Locked}, FilesOK', file' \in [Vaults -> Trees],
           \A v \in Vaults : file[v] \subseteq file'[v], call' \in [Calls -> Call],
           NEW s,
           \A c \in Calls : call'[c] = call[c] \/ call'[c].pc = "idle" \/ (c = s /\ Moves(c))
    PROVE  IInv'
<1>1. Types'
    <2>1. Types /\ 0 \in 0..Len(of)
        BY DEF IInv, Types
    <2> QED BY <2>1 DEF Types, Locked
<1>2. Grows /\ TreesOK'
    BY SameGrows, SameTrees
<1>3. Steps(s)
    BY <1>1, <1>2 DEF Steps, Kept
<1> QED BY <1>1, <1>2, <1>3, StepKeeps DEF IInv

\* ... and one handler, which holds nothing new.
LEMMA GoesOn ==
    ASSUME IInv, UNCHANGED <<file, session, of, tree, target, reported, crossed, raced>>,
           NEW c \in Calls, NEW y \in Call, call' = [call EXCEPT ![c] = y],
           y.pc = "idle" \/ Moves(c)
    PROVE  IInv'
<1>1. Types
    BY DEF IInv
<1>2. /\ call' \in [Calls -> Call] /\ call'[c] = y
      /\ \A d \in Calls \ {c} : call'[d] = call[d]
    BY <1>1, OneCall
<1>3. FilesOK'
    BY SameGrows, SameFiles
<1>4. file' \in [Vaults -> Trees]
    BY <1>1 DEF Types
<1> QED BY <1>2, <1>3, <1>4, QuietKeeps

LEMMA FinishKeeps ==
    ASSUME IInv, UNCHANGED <<file, session, of, tree, target, reported, crossed, raced>>,
           NEW c \in Calls, Finish(c)
    PROVE  IInv'
BY IdleIsCall, GoesOn DEF Finish, Become

-----------------------------------------------------------------------------
(* Unlocking.                                                              *)

LEMMA StartUnlockKeeps ==
    ASSUME IInv, NEW c \in Calls, NEW v \in Vaults, StartUnlock(c, v)
    PROVE  IInv'
<1> DEFINE y == [Idle EXCEPT !.pc = "config", !.vault = v]
<1>1. y \in Call /\ y.pc = "config" /\ y.vault = v
    BY IdleIsCall DEF Call
<1>2. /\ call' = [call EXCEPT ![c] = y]
      /\ UNCHANGED <<file, session, of, tree, target, reported, crossed, raced>>
    BY DEF StartUnlock, Become
<1> HIDE DEF y
<1>3. call'[c] = y
    BY <1>1, <1>2, OneCall DEF IInv
<1>4. Moves(c)
    BY <1>1, <1>3 DEF Moves, CallOK, Holds, Holding
<1> QED BY <1>1, <1>2, <1>4, GoesOn

LEMMA CheckConfiguredKeeps ==
    ASSUME IInv, NEW c \in Calls, CheckConfigured(c)
    PROVE  IInv'
<1> DEFINE y == [call[c] EXCEPT !.pc = "read"]
<1>1. /\ At(c, "config") /\ (call' = [call EXCEPT ![c] = y] \/ Finish(c))
      /\ UNCHANGED <<file, session, of, tree, target, reported, crossed, raced>>
    BY DEF CheckConfigured, Goto
<1>2. CASE Finish(c)
    BY <1>1, <1>2, FinishKeeps
<1>3. CASE call' = [call EXCEPT ![c] = y]
    <2>1. y \in Call /\ y.pc = "read" /\ y.vault = call[c].vault
        BY CallType DEF IInv, Call
    <2>2. call[c].vault \in Vaults
        BY <1>1 DEF IInv, CallsOK, CallOK, At
    <2> HIDE DEF y
    <2>3. call'[c] = y
        BY <1>3, <2>1, OneCall DEF IInv
    <2>4. Moves(c)
        BY <2>1, <2>2, <2>3 DEF Moves, CallOK, Holds, Holding
    <2> QED BY <1>1, <1>3, <2>1, <2>4, GoesOn
<1> QED BY <1>1, <1>2, <1>3

\* Who takes a content of v's file while nobody holds one is alone, else it is noted.
LEMMA RaceNoted ==
    ASSUME NEW v \in Vaults, NEW c \in Calls, Races(v, c) \subseteq raced'
    PROVE  v \in raced' \/ \A d \in Calls \ {c} : ~Holds(d, v)
BY DEF Races, Holds

LEMMA ReadFileKeeps ==
    ASSUME IInv, NEW c \in Calls, ReadFile(c)
    PROVE  IInv'
<1> DEFINE v == call[c].vault
           y == [call[c] EXCEPT !.pc = "load", !.data = file[v]]
<1>1. /\ At(c, "read") /\ call' = [call EXCEPT ![c] = y]
      /\ raced' = raced \cup Races(v, c)
      /\ UNCHANGED <<file, session, of, tree, target, reported, crossed>>
    BY DEF ReadFile, Become
<1>2. v \in Vaults /\ Types
    BY <1>1 DEF IInv, CallsOK, CallOK, At
<1>3. y \in Call /\ y.pc = "load" /\ y.vault = v /\ y.data = file[v]
    <2>1. file[v] \in Trees
        BY <1>2 DEF Types
    <2> QED BY <1>2, <2>1, CallType DEF Call
<1> HIDE DEF v, y
<1>4. /\ call' \in [Calls -> Call] /\ call'[c] = y
      /\ \A d \in Calls \ {c} : call'[d] = call[d]
    BY <1>1, <1>2, <1>3, OneCall
<1>5. FilesOK' /\ file' \in [Vaults -> Trees] /\ raced \subseteq raced'
    <2>1. raced \subseteq raced'
        BY <1>1
    <2>2. FilesOK'
        BY <1>1, <2>1, SameGrows, SameFiles
    <2> QED BY <1>1, <1>2, <2>1, <2>2 DEF Types
<1>6. CallOK(c)'
    <2>1. call'[c].vault \in Vaults /\ call'[c].pc = "load"
        BY <1>2, <1>3, <1>4
    <2>2. Belong(call[c].data, call[c].vault)'
        BY <1>1, <1>2, <1>3, <1>4, <1>5 DEF FilesOK, Belong
    <2> QED BY <2>1, <2>2 DEF CallOK
<1>7. v \in raced' \/ \A d \in Calls \ {c} : ~Holds(d, v)
    BY <1>1, <1>2, RaceNoted
<1>8. Moves(c)
    BY <1>3, <1>4, <1>6, <1>7 DEF Moves, Holds
<1> QED BY <1>1, <1>4, <1>5, <1>8, QuietKeeps

LEMMA Appended ==
    ASSUME NEW S, NEW q \in Seq(S), NEW x \in S
    PROVE  /\ Append(q, x) \in Seq(S) /\ Len(Append(q, x)) = Len(q) + 1 /\ Len(q) \in Nat
           /\ Append(q, x)[Len(q) + 1] = x
           /\ \A i \in 1..Len(q) : Append(q, x)[i] = q[i]
OBVIOUS

\* The session that opens holds what its handler has read.
LEMMA LoadKeeps ==
    ASSUME IInv, NEW c \in Calls, Load(c)
    PROVE  IInv'
<1> DEFINE v == call[c].vault
           g == Len(of) + 1
<1>1. /\ call[c].pc = "load" /\ of' = Append(of, v) /\ tree' = Append(tree, call[c].data)
      /\ session' = g /\ call' = [call EXCEPT ![c] = Idle]
      /\ UNCHANGED <<file, target, reported, crossed, raced>>
    BY DEF Load, At, Finish, Become
<1>2. /\ Types /\ TreesOK /\ FilesOK /\ CallsOK /\ Alone /\ Current /\ Safe
      /\ v \in Vaults /\ Belong(call[c].data, v) /\ call[c].data \in Trees
    BY <1>1, CallType DEF IInv, CallsOK, CallOK
<1>3. /\ of' \in Seq(Vaults) /\ Len(of') = g /\ of'[g] = v /\ \A i \in Opened : of'[i] = of[i]
      /\ Len(of) \in Nat
    BY <1>1, <1>2, Appended DEF Types, Opened
<1>4. /\ tree' \in Seq(Trees) /\ Len(tree') = g /\ tree'[g] = call[c].data
      /\ \A i \in Opened : tree'[i] = tree[i]
    BY <1>1, <1>2, Appended DEF Types, Opened
<1>5. g \in 0..g /\ g # Locked /\ Opened' = Opened \cup {g} /\ Len(of) <= g
    BY <1>3 DEF Opened, Locked
<1> HIDE DEF g, v
<1>6. /\ call' \in [Calls -> Call] /\ call'[c].pc = "idle"
      /\ \A d \in Calls \ {c} : call'[d] = call[d]
    BY <1>1, <1>2, IdleIsCall, OneCall
<1>7. Types'
    BY <1>1, <1>2, <1>3, <1>4, <1>5, <1>6 DEF Types
<1>8. Grows
    BY <1>1, <1>3, <1>4, <1>5 DEF Grows
<1>9. FilesOK'
    BY <1>1, <1>8, SameFiles
<1>10. TreesOK'
    BY <1>1, <1>2, <1>3, <1>4, <1>5 DEF TreesOK, Belong
<1>11. CallsOK'
    <2> SUFFICES ASSUME NEW d \in Calls PROVE CallOK(d)'
        BY DEF CallsOK
    <2>1. CASE d = c
        BY <1>6, <2>1 DEF CallOK
    <2>2. CASE d # c
        BY <1>2, <1>6, <1>7, <1>8, <2>2, CallKept DEF CallsOK
    <2> QED BY <2>1, <2>2
<1>12. ASSUME NEW w \in Vaults, NEW d \in Calls, Holds(d, w)'
       PROVE  d # c /\ call'[d] = call[d] /\ Holds(d, w)
    BY <1>6, <1>12 DEF Holds, Holding
<1>13. Alone'
    BY <1>1, <1>2, <1>12 DEF Alone
<1>14. Holds(c, v)
    BY <1>1 DEF Holds, Holding, v
<1>15. Current'
    <2> SUFFICES ASSUME NEW d \in Calls, NEW w \in Vaults, Holds(d, w)', IsOpen(w)'
                 PROVE  w \in raced'
        BY DEF Current
    <2>1. w = v /\ d # c /\ Holds(d, w)
        BY <1>1, <1>3, <1>12 DEF IsOpen
    <2> QED BY <1>1, <1>2, <1>14, <2>1 DEF Alone
<1>16. Safe'
    <2> SUFFICES ASSUME NEW e \in Edits, Kept(e)', e \notin crossed
                 PROVE  /\ e \in DOMAIN target /\ target[e] \in Vaults
                        /\ target[e] \notin raced =>
                             /\ e \in file[target[e]]
                             /\ IsOpen(target[e])' => e \in tree'[session']
                             /\ \A d \in Calls : Holds(d, target[e])' => e \in call'[d].data
        BY <1>1 DEF Safe, Everywhere, IsOpen, Holds
    <2>1. Kept(e)
        BY <1>1, <1>6 DEF Kept
    <2>2. e \in DOMAIN target /\ target[e] \in Vaults /\ (target[e] \notin raced => Everywhere(e, target[e]))
        BY <1>2, <2>1 DEF Safe
    <2>3. ASSUME NEW w \in Vaults, w = target[e], w \notin raced
          PROVE  /\ e \in file[w]
                 /\ IsOpen(w)' => e \in tree'[session']
                 /\ \A d \in Calls : Holds(d, w)' => e \in call'[d].data
        <3>1. Everywhere(e, w)
            BY <2>2, <2>3
        <3>2. IsOpen(w)' => w = v
            BY <1>1, <1>3 DEF IsOpen
        <3> QED BY <1>1, <1>4, <1>12, <1>14, <3>1, <3>2 DEF Everywhere
    <2> QED BY <1>1, <2>2, <2>3 DEF IsOpen, Holds
<1> QED BY <1>7, <1>9, <1>10, <1>11, <1>13, <1>15, <1>16 DEF IInv

-----------------------------------------------------------------------------
(* The handlers.                                                           *)

LEMMA EditTree ==
    ASSUME Types, NEW g \in Opened, NEW e \in Edits, tree' = Changed(g, e)
    PROVE  /\ tree' \in Seq(Trees) /\ Len(tree') = Len(tree) /\ tree'[g] = tree[g] \cup {e}
           /\ \A h \in Opened \ {g} : tree'[h] = tree[h]
<1> DEFINE n == Len(of)
<1>1. n \in Nat /\ Len(tree) = n /\ tree \in [1..n -> Trees] /\ g \in 1..n
    BY DEF Types, Opened
<1>2. tree[g] \cup {e} \in Trees
    BY <1>1 DEF Trees
<1> DEFINE x == tree[g] \cup {e}
<1>3. tree' = [tree EXCEPT ![g] = x]
    BY DEF Changed
<1> HIDE DEF n, x
<1>4. tree' \in [1..n -> Trees] /\ tree'[g] = x /\ \A h \in 1..n \ {g} : tree'[h] = tree[h]
    BY <1>1, <1>2, <1>3 DEF x
<1>5. tree' \in Seq(Trees) /\ Len(tree') = n
    BY <1>1, <1>4
<1> QED BY <1>1, <1>4, <1>5 DEF n, x, Opened

\* An edit that is made in session g, now or before.
LEMMA EditKeeps ==
    ASSUME IInv, NEW g \in Opened, NEW e \in Edits, tree' = Changed(g, e), of' = of,
           e \in DOMAIN target', target'[e] = of[g],
           DOMAIN target \subseteq DOMAIN target', \A d \in DOMAIN target : target'[d] = target[d],
           crossed \subseteq crossed', raced \subseteq raced'
    PROVE  /\ tree' \in Seq(Trees) /\ Len(tree') = Len(of') /\ e \in tree'[g]
           /\ Grows /\ TreesOK'
<1>1. Types /\ TreesOK /\ Len(tree) = Len(of) /\ Len(of) \in Nat
    BY DEF IInv, Types
<1>2. /\ tree' \in Seq(Trees) /\ Len(tree') = Len(tree) /\ tree'[g] = tree[g] \cup {e}
      /\ \A h \in Opened \ {g} : tree'[h] = tree[h]
    BY <1>1, EditTree
<1>3. Grows
    BY <1>1, <1>2 DEF Grows
<1>4. TreesOK'
    <2> SUFFICES ASSUME NEW h \in Opened, NEW d \in tree'[h]
                 PROVE  d \in DOMAIN target' /\ target'[d] = of[h]
        BY DEF TreesOK, Belong, Opened
    <2>1. CASE d \in tree[h]
        BY <1>1, <2>1 DEF TreesOK, Belong
    <2>2. CASE d \notin tree[h]
        BY <1>2, <2>2
    <2> QED BY <2>1, <2>2
<1> QED BY <1>1, <1>2, <1>3, <1>4

\* A new edit leaves what is known of others.
LEMMA MakeEdit ==
    ASSUME NEW e \in Edits, NEW g, Make(e, g), Unused(e)
    PROVE  /\ e \in DOMAIN target' /\ target'[e] = of[g]
           /\ DOMAIN target \subseteq DOMAIN target' /\ \A d \in DOMAIN target : target'[d] = target[d]
BY DEF Make, Unused

\* persist takes the tree, the vault and the number of one session, the open one.
LEMMA PersistMoves ==
    ASSUME IInv, TreesOK', Grows, tree' \in Seq(Trees), Len(tree') = Len(of'),
           NEW c \in Calls, NEW g \in Opened, NEW e \in Edits \cup {None}, Persist(c, g, e, tree'), e \in tree'[g] \cup {None},
           UNCHANGED <<session, of>>
    PROVE  /\ call' \in [Calls -> Call]
           /\ \A d \in Calls \ {c} : call'[d] = call[d]
           /\ call'[c].pc = "idle" \/ Moves(c)
<1>1. Types /\ session \in 0..Len(of) /\ Len(of) \in Nat
    BY DEF IInv, Types
<1>2. CASE session = Locked
    <2>1. call' = [call EXCEPT ![c] = Idle]
        BY <1>2 DEF Persist, Finish, Become
    <2> QED BY <1>1, <2>1, IdleIsCall, OneCall
<1>3. CASE session # Locked
    <2> DEFINE v == of[session]
               y == [pc |-> "save", vault |-> v, gen |-> session, edit |-> e,
                     data |-> tree'[session]]
    <2>1. /\ call' = [call EXCEPT ![c] = y]
          /\ crossed' = IF g = session THEN crossed ELSE crossed \cup {e}
          /\ raced' = raced \cup Races(v, c)
        BY <1>3 DEF Persist, SavedVault, Become
    <2>2. session \in Opened /\ session \in Nat
        BY <1>1, <1>3 DEF Opened, Locked
    <2>3. v \in Vaults /\ tree'[session] \in Trees /\ Belong(tree[session], v)'
        BY <1>1, <2>2 DEF Types, Opened, TreesOK
    <2>4. tree[session] \subseteq tree'[session]
        BY <2>2 DEF Grows
    <2>5. y \in Call /\ y.pc = "save" /\ y.vault = v /\ y.gen = session /\ y.edit = e
          /\ y.data = tree'[session]
        BY <2>2, <2>3 DEF Call
    <2> HIDE DEF v, y
    <2>6. /\ call' \in [Calls -> Call] /\ call'[c] = y
          /\ \A d \in Calls \ {c} : call'[d] = call[d]
        BY <1>1, <2>1, <2>5, OneCall
    <2>7. v \in raced' \/ \A d \in Calls \ {c} : ~Holds(d, v)
        BY <2>1, <2>3, RaceNoted
    <2>8. IsOpen(v)
        BY <1>3 DEF IsOpen, v
    <2>9. CallOK(c)'
        <3>1. e \in crossed' \cup {None} \cup tree'[session]
            BY <2>1
        <3>2. session \in Opened' /\ v = of'[session]
            BY <2>2 DEF Opened, v
        <3> QED BY <2>5, <2>6, <3>1, <3>2 DEF CallOK
    <2>10. Moves(c)
        BY <2>4, <2>5, <2>6, <2>7, <2>8, <2>9 DEF Moves, Holds
    <2> QED BY <2>6, <2>10
<1> QED BY <1>2, <1>3

\* persist, after an edit or without one.
LEMMA PersistKeeps ==
    ASSUME IInv, TreesOK', Grows, tree' \in Seq(Trees), Len(tree') = Len(of'),
           NEW c \in Calls, NEW g \in Opened, NEW e \in Edits \cup {None},
           Persist(c, g, e, tree'), e \in tree'[g] \cup {None},
           UNCHANGED <<file, session, of, reported>>
    PROVE  IInv'
<1>1. /\ call' \in [Calls -> Call]
      /\ \A d \in Calls \ {c} : call'[d] = call[d]
      /\ call'[c].pc = "idle" \/ Moves(c)
    BY PersistMoves
<1>2. Types'
    BY <1>1 DEF IInv, Types
<1>3. Steps(c)
    BY <1>1, <1>2 DEF Steps, Kept
<1> QED BY <1>2, <1>3, SameFiles, StepKeeps DEF IInv

LEMMA PersistGrows ==
    ASSUME IInv, NEW c \in Calls, NEW g, NEW e, NEW t, Persist(c, g, e, t)
    PROVE  crossed \subseteq crossed' /\ raced \subseteq raced'
BY DEF Persist

LEMMA OpenSession ==
    ASSUME IInv, session # Locked
    PROVE  session \in Opened
BY DEF IInv, Types, Opened, Locked

LEMMA EditAndSaveKeeps ==
    ASSUME IInv, NEW c \in Calls, NEW e \in Edits, EditAndSave(c, e)
    PROVE  IInv'
<1>1. /\ session # Locked /\ Unused(e) /\ tree' = Changed(session, e) /\ Make(e, session)
      /\ Persist(c, session, e, tree') /\ UNCHANGED <<file, session, of, reported>>
    BY DEF EditAndSave
<1>2. session \in Opened /\ crossed \subseteq crossed' /\ raced \subseteq raced'
    BY <1>1, OpenSession, PersistGrows
<1>3. /\ tree' \in Seq(Trees) /\ Len(tree') = Len(of') /\ e \in tree'[session]
      /\ Grows /\ TreesOK'
    BY <1>1, <1>2, MakeEdit, EditKeeps
<1> QED BY <1>1, <1>2, <1>3, PersistKeeps

\* A handler that starts, with an edit of the open session, and waits.
LEMMA WaitKeeps ==
    ASSUME IInv, TreesOK', Grows, tree' \in Seq(Trees), Len(tree') = Len(of'),
           NEW c \in Calls, NEW e \in Edits, NEW p \in {"fetch", "prepare"}, session \in Opened,
           e \in DOMAIN target', target'[e] = of[session], p = "fetch" => e \in tree'[session],
           Become(c, [Idle EXCEPT !.pc = p, !.gen = session, !.edit = e]),
           UNCHANGED <<file, session, of, reported>>
    PROVE  IInv'
<1> DEFINE y == [Idle EXCEPT !.pc = p, !.gen = session, !.edit = e]
<1>1. Types /\ session \in Nat
    BY DEF IInv, Types, Opened
<1>2. y \in Call /\ y.pc = p /\ y.gen = session /\ y.edit = e
    BY <1>1, IdleIsCall DEF Call
<1>3. call' = [call EXCEPT ![c] = y]
    BY DEF Become
<1> HIDE DEF y
<1>4. /\ call' \in [Calls -> Call] /\ call'[c] = y
      /\ \A d \in Calls \ {c} : call'[d] = call[d]
    BY <1>1, <1>2, <1>3, OneCall
<1>5. Types'
    BY <1>1, <1>4 DEF Types
<1>6. CallOK(c)'
    BY <1>2, <1>4 DEF CallOK, Belong, Opened
<1>7. Moves(c)
    BY <1>2, <1>4, <1>6 DEF Moves, Holds, Holding
<1>8. Steps(c)
    BY <1>4, <1>5, <1>7 DEF Steps, Kept
<1> QED BY <1>5, <1>8, SameFiles, StepKeeps DEF IInv

LEMMA EditThenWaitKeeps ==
    ASSUME IInv, NEW c \in Calls, NEW e \in Edits, EditThenWait(c, e)
    PROVE  IInv'
<1>1. /\ session # Locked /\ Unused(e) /\ tree' = Changed(session, e) /\ Make(e, session)
      /\ Become(c, [Idle EXCEPT !.pc = "fetch", !.gen = session, !.edit = e])
      /\ UNCHANGED <<file, session, of, reported, crossed, raced>>
    BY DEF EditThenWait
<1>2. session \in Opened
    BY <1>1, OpenSession
<1>3. e \in DOMAIN target' /\ target'[e] = of[session]
    BY <1>1, MakeEdit
<1>4. /\ tree' \in Seq(Trees) /\ Len(tree') = Len(of') /\ e \in tree'[session]
      /\ Grows /\ TreesOK'
    BY <1>1, <1>2, MakeEdit, EditKeeps
<1> QED BY <1>1, <1>2, <1>3, <1>4, WaitKeeps

LEMMA WaitThenEditKeeps ==
    ASSUME IInv, NEW c \in Calls, NEW e \in Edits, WaitThenEdit(c, e)
    PROVE  IInv'
<1>1. /\ session # Locked /\ Unused(e) /\ Make(e, session)
      /\ Become(c, [Idle EXCEPT !.pc = "prepare", !.gen = session, !.edit = e])
      /\ UNCHANGED <<file, session, of, tree, reported, crossed, raced>>
    BY DEF WaitThenEdit
<1>2. session \in Opened
    BY <1>1, OpenSession
<1>3. /\ e \in DOMAIN target' /\ target'[e] = of[session]
      /\ DOMAIN target \subseteq DOMAIN target' /\ \A d \in DOMAIN target : target'[d] = target[d]
    BY <1>1, MakeEdit
<1>4. Grows
    BY <1>1, <1>3 DEF Grows, IInv, Types
<1>5. tree' \in Seq(Trees) /\ Len(tree') = Len(of') /\ TreesOK'
    BY <1>1, <1>4, SameTrees DEF IInv, Types
<1> QED BY <1>1, <1>2, <1>3, <1>4, <1>5, WaitKeeps

\* The tree that does not change.
LEMMA SavedAsItIs ==
    ASSUME IInv, NEW c \in Calls, NEW g \in Opened, NEW e \in Edits \cup {None},
           Persist(c, g, e, tree), e \in tree[g] \cup {None},
           UNCHANGED <<file, session, of, tree, target, reported>>
    PROVE  IInv'
<1>1. crossed \subseteq crossed' /\ raced \subseteq raced'
    BY PersistGrows
<1>2. Grows /\ tree' \in Seq(Trees) /\ Len(tree') = Len(of')
    BY <1>1 DEF Grows, IInv, Types
<1>3. TreesOK'
    BY <1>2, SameTrees
<1>4. Persist(c, g, e, tree') /\ e \in tree'[g] \cup {None}
    OBVIOUS
<1> QED BY <1>2, <1>3, <1>4, PersistKeeps

LEMMA SaveAfterWaitKeeps ==
    ASSUME IInv, NEW c \in Calls, SaveAfterWait(c)
    PROVE  IInv'
<1>1. /\ call[c].pc = "fetch" /\ Persist(c, call[c].gen, call[c].edit, tree)
      /\ UNCHANGED <<file, session, of, tree, target, reported>>
    BY DEF SaveAfterWait, At
<1>2. call[c].gen \in Opened /\ call[c].edit \in Edits /\ call[c].edit \in tree[call[c].gen]
    BY <1>1 DEF IInv, CallsOK, CallOK
<1> QED BY <1>1, <1>2, SavedAsItIs

LEMMA EditPreparedKeeps ==
    ASSUME IInv, NEW c \in Calls, EditPrepared(c)
    PROVE  IInv'
<1>1. PICK g \in Opened, e \in Edits : g = call[c].gen /\ e = call[c].edit /\ Belong({e}, of[g])
    BY DEF EditPrepared, At, IInv, CallsOK, CallOK
<1>2. /\ tree' = Changed(g, e) /\ Persist(c, g, e, tree')
      /\ UNCHANGED <<file, session, of, target, reported>>
    BY <1>1 DEF EditPrepared
<1>3. e \in DOMAIN target /\ target[e] = of[g] /\ crossed \subseteq crossed' /\ raced \subseteq raced'
    BY <1>1, <1>2, PersistGrows DEF Belong
<1>4. tree' \in Seq(Trees) /\ Len(tree') = Len(of') /\ e \in tree'[g] /\ Grows /\ TreesOK'
    BY <1>2, <1>3, EditKeeps
<1> QED BY <1>2, <1>4, PersistKeeps

LEMMA RetrySyncKeeps ==
    ASSUME IInv, NEW c \in Calls, RetrySync(c)
    PROVE  IInv'
BY OpenSession, SavedAsItIs DEF RetrySync

-----------------------------------------------------------------------------
(* The save.                                                               *)

LEMMA SerializeKeeps ==
    ASSUME IInv, NEW c \in Calls, Serialize(c)
    PROVE  IInv'
<1> DEFINE y == [call[c] EXCEPT !.pc = "write"]
<1>1. /\ call[c].pc = "save" /\ call' = [call EXCEPT ![c] = y]
      /\ UNCHANGED <<file, session, of, tree, target, reported, crossed, raced>>
    BY DEF Serialize, At, Goto
<1>2. /\ y \in Call /\ y.pc = "write" /\ y.vault = call[c].vault /\ y.gen = call[c].gen
      /\ y.edit = call[c].edit /\ y.data = call[c].data
    BY CallType DEF IInv, Call
<1> HIDE DEF y
<1>3. call'[c] = y
    BY <1>1, <1>2, OneCall DEF IInv
<1>4. CallOK(c)
    BY DEF IInv, CallsOK
<1>5. CallOK(c)'
    BY <1>1, <1>2, <1>3, <1>4 DEF CallOK, Opened
<1>6. Moves(c)
    BY <1>1, <1>2, <1>3, <1>5 DEF Moves, Holds, Holding
<1> QED BY <1>1, <1>2, <1>6, GoesOn

\* What replaces the file holds all that was kept, and the edit that will be.
LEMMA WriteFileKeeps ==
    ASSUME IInv, NEW c \in Calls, WriteFile(c)
    PROVE  IInv'
<1>1. /\ call[c].gen \in Opened /\ call[c].vault = of[call[c].gen]
      /\ call[c].data \subseteq tree[call[c].gen] /\ call[c].pc = "write"
      /\ call[c].edit \in crossed \cup {None} \cup call[c].data
    BY DEF WriteFile, At, IInv, CallsOK, CallOK
<1>2. /\ Types /\ TreesOK /\ FilesOK /\ CallsOK /\ Alone /\ Current /\ Safe
      /\ call[c].data \in Trees
    BY CallType DEF IInv
<1>3. PICK v \in Vaults : v = call[c].vault
    BY <1>1, <1>2 DEF Types, Opened
<1> DEFINE y == [call[c] EXCEPT !.pc = "stat"]
<1>4. /\ call' = [call EXCEPT ![c] = y]
      /\ file' = [file EXCEPT ![v] = call[c].data]
      /\ UNCHANGED <<session, of, tree, target, reported, crossed, raced>>
    BY <1>3 DEF WriteFile, Goto
<1>5. /\ y \in Call /\ y.pc = "stat" /\ y.vault = v /\ y.gen = call[c].gen
      /\ y.edit = call[c].edit /\ y.data = call[c].data
    BY <1>2, <1>3, CallType DEF Call
<1> HIDE DEF y
<1>6. /\ call' \in [Calls -> Call] /\ call'[c] = y
      /\ \A d \in Calls \ {c} : call'[d] = call[d]
    BY <1>2, <1>4, <1>5, OneCall
<1>7. /\ file' \in [Vaults -> Trees] /\ file'[v] = call[c].data
      /\ \A w \in Vaults \ {v} : file'[w] = file[w]
    BY <1>2, <1>4 DEF Types
<1>8. Types' /\ Grows
    BY <1>2, <1>4, <1>6, <1>7, SameGrows DEF Types
<1>9. TreesOK' /\ FilesOK'
    <2>1. Belong(call[c].data, v)
        BY <1>1, <1>2, <1>3 DEF TreesOK, Belong
    <2>2. FilesOK'
        BY <1>2, <1>4, <1>7, <2>1 DEF FilesOK, Belong
    <2> QED BY <1>4, <1>8, <2>2, SameTrees
<1>10. CallsOK'
    <2> SUFFICES ASSUME NEW d \in Calls PROVE CallOK(d)'
        BY DEF CallsOK
    <2>1. CASE d = c
        BY <1>1, <1>3, <1>4, <1>5, <1>6, <2>1 DEF CallOK, Opened
    <2>2. CASE d # c
        BY <1>2, <1>6, <1>8, <2>2, CallKept DEF CallsOK
    <2> QED BY <2>1, <2>2
<1>11. ASSUME NEW w \in Vaults, NEW d \in Calls, Holds(d, w)'
       PROVE  d # c /\ call'[d] = call[d] /\ Holds(d, w)
    BY <1>5, <1>6, <1>11 DEF Holds, Holding
<1>12. Holds(c, v)
    BY <1>1, <1>3 DEF Holds, Holding
<1>13. Alone' /\ Current'
    BY <1>2, <1>4, <1>11 DEF Alone, Current, IsOpen
<1>14. ASSUME NEW e \in Edits, NEW w \in Vaults, w = target[e], w \notin raced, Kept(e), e \notin crossed
       PROVE  Everywhere(e, w)'
    <2>1. Everywhere(e, w)
        BY <1>2, <1>14 DEF Safe
    <2>2. e \in file'[w]
        BY <1>7, <1>12, <2>1 DEF Everywhere
    <2> QED BY <1>4, <1>11, <2>1, <2>2 DEF Everywhere, IsOpen
<1>15. ASSUME NEW e \in Edits, e = call[c].edit, e \in call[c].data, v \notin raced
       PROVE  Everywhere(e, v)'
    <2>1. \A d \in Calls : ~Holds(d, v)'
        BY <1>2, <1>11, <1>12, <1>15 DEF Alone
    <2>2. IsOpen(v) => e \in tree[session]
        BY <1>1, <1>2, <1>12, <1>15 DEF Current
    <2> QED BY <1>4, <1>7, <1>15, <2>1, <2>2 DEF Everywhere, IsOpen
<1>16. Safe'
    <2> SUFFICES ASSUME NEW e \in Edits, Kept(e)', e \notin crossed
                 PROVE  /\ e \in DOMAIN target /\ target[e] \in Vaults
                        /\ target[e] \notin raced => Everywhere(e, target[e])'
        BY <1>4 DEF Safe
    <2>1. CASE Kept(e)
        <3>1. e \in DOMAIN target /\ target[e] \in Vaults
            BY <1>2, <2>1 DEF Safe
        <3>2. PICK w \in Vaults : w = target[e] /\ w = target'[e]
            BY <1>4, <3>1
        <3>3. w \notin raced => Everywhere(e, w)'
            BY <1>14, <2>1, <3>2
        <3> QED BY <3>1, <3>2, <3>3 DEF Everywhere, IsOpen, Holds
    <2>2. CASE ~Kept(e)
        <3>1. e = call[c].edit /\ e \in call[c].data
            BY <1>1, <1>4, <1>5, <1>6, <2>2 DEF Kept
        <3>2. e \in DOMAIN target /\ target[e] = v /\ target'[e] = v
            BY <1>1, <1>2, <1>3, <1>4, <3>1 DEF TreesOK, Belong
        <3>3. v \notin raced => Everywhere(e, v)'
            BY <1>15, <3>1
        <3> QED BY <3>2, <3>3 DEF Everywhere, IsOpen, Holds
    <2> QED BY <2>1, <2>2
<1> QED BY <1>8, <1>9, <1>10, <1>13, <1>16 DEF IInv

LEMMA ReturnMetadataKeeps ==
    ASSUME IInv, NEW c \in Calls, ReturnMetadata(c)
    PROVE  IInv'
<1>1. /\ call[c].pc = "stat" /\ call' = [call EXCEPT ![c] = Idle]
      /\ reported' = reported \cup ({call[c].edit} \ {None})
      /\ UNCHANGED <<file, session, of, tree, target, crossed, raced>>
    BY DEF ReturnMetadata, At, Report, Finish, Become
<1>2. Types /\ call[c].edit \in Edits \cup {None}
    BY CallType DEF IInv
<1>3. /\ call' \in [Calls -> Call] /\ call'[c].pc = "idle"
      /\ \A d \in Calls \ {c} : call'[d] = call[d]
    BY <1>1, <1>2, IdleIsCall, OneCall
<1>4. Types'
    BY <1>1, <1>2, <1>3 DEF Types
<1>5. Grows /\ FilesOK' /\ TreesOK'
    BY <1>1, SameGrows, SameFiles, SameTrees
<1>6. \A e \in Edits : e \in reported' => Kept(e)
    BY <1>1 DEF Kept
<1>7. Steps(c)
    BY <1>1, <1>3, <1>4, <1>5, <1>6 DEF Steps
<1> QED BY <1>4, <1>5, <1>7, StepKeeps DEF IInv

LEMMA FailKeeps ==
    ASSUME IInv, NEW c \in Calls, Fail(c)
    PROVE  IInv'
BY FinishKeeps DEF Fail

-----------------------------------------------------------------------------
(* The world around it.                                                    *)

LEMMA LockKeeps ==
    ASSUME IInv, Lock \/ ForgetVault \/ (\E v \in Vaults : ConfigureVault(v))
    PROVE  IInv'
<1>1. /\ session' \in {session, Locked}
      /\ UNCHANGED <<file, of, tree, call, target, reported, crossed, raced>>
    BY DEF Lock, ForgetVault, ConfigureVault
<1>2. FilesOK' /\ Types
    BY <1>1, SameGrows, SameFiles DEF IInv
<1> QED BY <1>1, <1>2, QuietKeeps DEF Types

LEMMA TerminateKeeps ==
    ASSUME IInv, Terminate
    PROVE  IInv'
<1>1. /\ session' = Locked /\ call' = [c \in Calls |-> Idle]
      /\ UNCHANGED <<file, of, tree, target, reported, crossed, raced>>
    BY DEF Terminate
<1>2. FilesOK' /\ Types
    BY <1>1, SameGrows, SameFiles DEF IInv
<1>3. call' \in [Calls -> Call] /\ \A c \in Calls : call'[c].pc = "idle"
    BY <1>1, IdleIsCall
<1> QED BY <1>1, <1>2, <1>3, QuietKeeps DEF Types

\* Others write edits of the vault whose file it is.
LEMMA OtherWritesKeeps ==
    ASSUME IInv, NEW v \in Vaults, NEW e \in OtherEdits, OtherWrites(v, e)
    PROVE  IInv'
<1>1. /\ Unused(e) /\ file' = [file EXCEPT ![v] = @ \cup {e}]
      /\ target' = [d \in DOMAIN target \cup {e} |-> IF d = e THEN v ELSE target[d]]
      /\ raced \subseteq raced'
      /\ UNCHANGED <<session, of, tree, call, reported, crossed>>
    BY DEF OtherWrites
<1>2. Types /\ FilesOK
    BY DEF IInv
<1>3. /\ e \in DOMAIN target' /\ target'[e] = v /\ DOMAIN target \subseteq DOMAIN target'
      /\ \A d \in DOMAIN target : target'[d] = target[d]
    BY <1>1 DEF Unused
<1>4. Grows
    BY <1>1, <1>2, <1>3 DEF Grows, Types
<1>5. /\ file' \in [Vaults -> Trees] /\ file'[v] = file[v] \cup {e}
      /\ \A w \in Vaults \ {v} : file'[w] = file[w]
    <2>1. file[v] \cup {e} \in Trees
        BY <1>2 DEF Types, Trees
    <2> QED BY <1>1, <1>2, <2>1 DEF Types
<1>6. Types'
    BY <1>1, <1>2, <1>5 DEF Types
<1>7. FilesOK'
    BY <1>2, <1>3, <1>5 DEF FilesOK, Belong
<1>8. TreesOK'
    BY <1>1, <1>4, SameTrees
<1>9. Steps(None)
    BY <1>1, <1>4, <1>5, <1>6 DEF Steps, Kept
<1> QED BY <1>6, <1>7, <1>8, <1>9, StepKeeps DEF IInv

-----------------------------------------------------------------------------

LEMMA InitIInv == Init => IInv
<1> SUFFICES ASSUME Init PROVE IInv
    OBVIOUS
<1>1. Types /\ \A c \in Calls : call[c].pc = "idle"
    BY IdleIsCall DEF Init, Types, Trees, Locked
<1>2. Len(of) = 0 /\ Opened = {}
    BY DEF Init, Opened
<1>3. TreesOK /\ FilesOK
    BY <1>2 DEF Init, TreesOK, FilesOK, Belong
<1>4. CallsOK /\ Alone /\ Current
    BY <1>1 DEF CallsOK, CallOK, Alone, Current, Holds, Holding
<1>5. Safe
    BY <1>1 DEF Init, Safe, Kept
<1> QED BY <1>1, <1>3, <1>4, <1>5 DEF IInv

LEMMA NextIInv == IInv /\ [Next]_vars => IInv'
<1> SUFFICES ASSUME IInv, [Next]_vars PROVE IInv'
    OBVIOUS
<1>1. ASSUME NEW c \in Calls, \/ \E v \in Vaults : StartUnlock(c, v)
                              \/ CheckConfigured(c) \/ ReadFile(c) \/ Load(c)
      PROVE  IInv'
    BY <1>1, StartUnlockKeeps, CheckConfiguredKeeps, ReadFileKeeps, LoadKeeps
<1>2. ASSUME NEW c \in Calls, \/ \E e \in Edits : EditAndSave(c, e) \/ EditThenWait(c, e) \/ WaitThenEdit(c, e)
                              \/ SaveAfterWait(c) \/ EditPrepared(c) \/ RetrySync(c)
      PROVE  IInv'
    BY <1>2, EditAndSaveKeeps, EditThenWaitKeeps, WaitThenEditKeeps, SaveAfterWaitKeeps,
       EditPreparedKeeps, RetrySyncKeeps
<1>3. ASSUME NEW c \in Calls, Serialize(c) \/ WriteFile(c) \/ ReturnMetadata(c) \/ Fail(c)
      PROVE  IInv'
    BY <1>3, SerializeKeeps, WriteFileKeeps, ReturnMetadataKeeps, FailKeeps
<1>4. CASE Lock \/ ForgetVault \/ Terminate
    BY <1>4, LockKeeps, TerminateKeeps
<1>5. ASSUME NEW v \in Vaults, ConfigureVault(v) \/ \E e \in OtherEdits : OtherWrites(v, e)
      PROVE  IInv'
    BY <1>5, LockKeeps, OtherWritesKeeps
<1>6. CASE UNCHANGED vars
    <2>1. UNCHANGED <<file, session, of, tree, call, target, reported, crossed, raced>>
        BY <1>6 DEF vars
    <2>2. FilesOK' /\ Types
        BY <2>1, SameGrows, SameFiles DEF IInv
    <2> QED BY <2>1, <2>2, QuietKeeps DEF Types
<1> QED BY <1>1, <1>2, <1>3, <1>4, <1>5, <1>6 DEF Next

\* IInv holds of every reachable state of the session, its handlers and its files.
THEOREM Inductive == Spec => []IInv
BY InitIInv, NextIInv, PTL DEF Spec

LEMMA IInvApart == IInv => FilesApart
BY DEF IInv, FilesOK, Belong, FilesApart

LEMMA IInvReported == IInv => ReportedInFileUnlessRaced
BY DEF IInv, Types, Safe, Kept, Everywhere, ReportedInFileUnlessRaced

\* persist takes the database, the provider and the path of one session: an edit
\* made in one vault is never in the file of another, however unlocks, locks,
\* changes of the configured vault and handlers that wait interleave.
THEOREM FilesStayApart == Spec => []FilesApart
BY Inductive, IInvApart, PTL

\* An edit whose handler answered ok is in the file of its vault, unless a handler
\* of a session that was replaced saved it or two handlers, or another program,
\* had a content of that file at once: failures, locks and terminations lose none.
THEOREM ReportsAreInFiles == Spec => []ReportedInFileUnlessRaced
BY Inductive, IInvReported, PTL

-----------------------------------------------------------------------------
(* The rest of the types that the runs check.                              *)

Bounded ==
    /\ configured \in Vaults \cup {None}
    /\ Len(of) <= MaxSessions
    /\ \A c \in Calls : call[c].gen \in 0..Len(of)
    /\ DOMAIN target \subseteq Edits \cup OtherEdits
    /\ reported \cup crossed \subseteq DOMAIN target \cup {None}
    /\ raced \subseteq Vaults

LEMMA BoundedInit == MaxSessions \in Nat /\ Init => Bounded
BY DEF Init, Bounded, Idle, Locked

LEMMA IInvTypeOK == IInv /\ Bounded => TypeOK
<1> SUFFICES ASSUME IInv, Bounded PROVE TypeOK
    OBVIOUS
<1>1. ASSUME NEW c \in Calls
      PROVE  /\ call[c].data \in Trees
             /\ call[c].pc \in {"save", "write", "stat"} => call[c].vault \in Vaults
    <2>1. call[c] \in Call /\ CallOK(c)
        BY DEF IInv, Types, CallsOK
    <2>2. \A g \in Opened : of[g] \in Vaults
        BY DEF IInv, Types, Opened
    <2> QED BY <2>1, <2>2 DEF Call, CallOK
<1> QED BY <1>1 DEF IInv, Types, Bounded, TypeOK

\* The edit of a handler was made, or it has none.
LEMMA EditMade ==
    ASSUME IInv, Bounded, NEW c \in Calls, call[c].pc \in {"fetch", "prepare", "save", "write", "stat"}
    PROVE  call[c].edit \in DOMAIN target \cup {None}
<1>1. CallOK(c)
    BY DEF IInv, CallsOK
<1>2. CASE call[c].pc \in {"fetch", "prepare"}
    BY <1>1, <1>2 DEF CallOK, Belong
<1>3. CASE call[c].pc \in {"save", "write", "stat"}
    <2>1. Belong(tree[call[c].gen], of[call[c].gen])
        BY <1>1, <1>3 DEF CallOK, IInv, TreesOK
    <2> QED BY <1>1, <1>3, <2>1 DEF CallOK, Belong, Bounded
<1> QED BY <1>2, <1>3

LEMMA GenSet ==
    ASSUME IInv, Bounded, Len(of') \in Nat, Len(of) <= Len(of'),
           NEW c \in Calls, NEW r, r.gen \in 0..Len(of), Become(c, r)
    PROVE  \A d \in Calls : call'[d].gen \in 0..Len(of')
BY DEF Become, IInv, Types, Bounded

LEMMA PersistBounded ==
    ASSUME IInv, Bounded, NEW c \in Calls, NEW g, NEW e, NEW trees, Persist(c, g, e, trees),
           UNCHANGED <<configured, of, session, reported>>,
           DOMAIN target \subseteq DOMAIN target', DOMAIN target' \subseteq Edits \cup OtherEdits,
           e \in DOMAIN target' \cup {None}
    PROVE  Bounded'
<1>1. session \in 0..Len(of) /\ Len(of) \in Nat /\ of \in Seq(Vaults)
    BY DEF IInv, Types
<1>2. CASE session = Locked
    <2>1. Become(c, Idle) /\ Idle.gen = 0 /\ UNCHANGED <<crossed, raced>>
        BY <1>2 DEF Persist, Finish, Idle, Locked
    <2>2. \A d \in Calls : call'[d].gen \in 0..Len(of')
        BY <1>1, <2>1, GenSet
    <2> QED BY <2>1, <2>2 DEF Bounded
<1>3. CASE session # Locked
    <2>1. PICK r : Become(c, r) /\ r.gen = session
        BY <1>3 DEF Persist
    <2>2. \A d \in Calls : call'[d].gen \in 0..Len(of')
        BY <1>1, <2>1, GenSet
    <2>3. crossed' \subseteq crossed \cup {e} /\ raced' = raced \cup Races(SavedVault(trees), c)
        BY <1>3 DEF Persist
    <2>4. of[session] \in Vaults
        BY <1>1, <1>3 DEF Locked
    <2>5. raced' \subseteq Vaults
        BY <2>3, <2>4 DEF Bounded, Races, SavedVault
    <2> QED BY <2>2, <2>3, <2>5 DEF Bounded
<1> QED BY <1>2, <1>3

LEMMA BoundedStep ==
    ASSUME MaxSessions \in Nat, IInv, IInv', Bounded, [Next]_vars
    PROVE  Bounded'
<1>0. Len(of) \in Nat /\ session \in 0..Len(of) /\ of \in Seq(Vaults) /\ call \in [Calls -> Call]
    BY DEF IInv, Types
<1>1. Idle.gen = 0
    BY DEF Idle, Locked
<1>2. ASSUME NEW c \in Calls, NEW r, Become(c, r), r.gen \in 0..Len(of),
             UNCHANGED <<configured, of, target, crossed, raced>>,
             reported' \subseteq reported \cup DOMAIN target \cup {None}
      PROVE  Bounded'
    <2>1. \A d \in Calls : call'[d].gen \in 0..Len(of')
        BY <1>0, <1>2, GenSet
    <2> QED BY <1>2, <2>1 DEF Bounded
<1>3. ASSUME NEW c \in Calls, NEW v \in Vaults, StartUnlock(c, v)
      PROVE  Bounded'
    <2>1. [Idle EXCEPT !.pc = "config", !.vault = v].gen = 0 /\ 0 \in 0..Len(of)
        BY <1>0 DEF Idle, Locked
    <2>2. PICK r : Become(c, r) /\ r.gen = 0
        BY <1>3, <2>1 DEF StartUnlock
    <2> QED BY <1>2, <1>3, <2>1, <2>2 DEF StartUnlock
<1>4. ASSUME NEW c \in Calls, CheckConfigured(c) \/ Serialize(c)
      PROVE  Bounded'
    <2>1. CASE Finish(c)
        BY <1>0, <1>1, <1>2, <1>4, <2>1 DEF CheckConfigured, Serialize, Finish
    <2>2. CASE Goto(c, "read") \/ Goto(c, "write")
        <3>1. \A d \in Calls : call'[d].gen \in 0..Len(of)
            BY <1>0, <2>2 DEF Goto, Bounded, Call
        <3> QED BY <1>4, <3>1 DEF CheckConfigured, Serialize, Bounded
    <2> QED BY <1>4, <2>1, <2>2 DEF CheckConfigured, Serialize
<1>5. ASSUME NEW c \in Calls, ReadFile(c)
      PROVE  Bounded'
    <2>1. \A d \in Calls : call'[d].gen \in 0..Len(of)
        BY <1>0, <1>5 DEF ReadFile, Become, Bounded, Call
    <2>2. call[c].vault \in Vaults
        BY <1>5 DEF ReadFile, At, IInv, CallsOK, CallOK
    <2> QED BY <1>5, <2>1, <2>2 DEF ReadFile, Bounded, Races
<1>6. ASSUME NEW c \in Calls, Load(c)
      PROVE  Bounded'
    <2>1. Len(of') = Len(of) + 1
        BY <1>0, <1>6 DEF Load
    <2>2. \A d \in Calls : call'[d].gen \in 0..Len(of')
        BY <1>0, <1>1, <1>6, <2>1, GenSet DEF Load, Finish
    <2>3. Len(of') <= MaxSessions
        BY <1>0, <1>6, <2>1 DEF Load
    <2> QED BY <1>6, <2>2, <2>3 DEF Load, Bounded
<1>7. ASSUME NEW e \in Edits, Unused(e), Make(e, session)
      PROVE  /\ DOMAIN target \subseteq DOMAIN target' /\ DOMAIN target' \subseteq Edits \cup OtherEdits
             /\ e \in DOMAIN target'
    BY <1>7 DEF Make, Bounded
<1>8. ASSUME NEW c \in Calls, NEW e \in Edits, EditAndSave(c, e)
      PROVE  Bounded'
    BY <1>7, <1>8, PersistBounded DEF EditAndSave
<1>9. ASSUME NEW c \in Calls, NEW e \in Edits, EditThenWait(c, e) \/ WaitThenEdit(c, e)
      PROVE  Bounded'
    <2>1. \E r : Become(c, r) /\ r.gen = session
        <3>1. /\ [Idle EXCEPT !.pc = "fetch", !.gen = session, !.edit = e].gen = session
              /\ [Idle EXCEPT !.pc = "prepare", !.gen = session, !.edit = e].gen = session
            BY DEF Idle
        <3> QED BY <1>9, <3>1 DEF EditThenWait, WaitThenEdit
    <2>2. \A d \in Calls : call'[d].gen \in 0..Len(of')
        BY <1>0, <1>9, <2>1, GenSet DEF EditThenWait, WaitThenEdit
    <2> QED BY <1>7, <1>9, <2>2 DEF EditThenWait, WaitThenEdit, Bounded
<1>10. ASSUME NEW c \in Calls, SaveAfterWait(c) \/ EditPrepared(c)
       PROVE  Bounded'
    <2>1. call[c].edit \in DOMAIN target \cup {None}
        BY <1>10, EditMade DEF SaveAfterWait, EditPrepared, At
    <2> QED BY <1>10, <2>1, PersistBounded DEF SaveAfterWait, EditPrepared, Bounded
<1>11. ASSUME NEW c \in Calls, RetrySync(c)
       PROVE  Bounded'
    BY <1>11, PersistBounded DEF RetrySync, Bounded
<1>12. ASSUME NEW c \in Calls, WriteFile(c)
       PROVE  Bounded'
    <2>1. \A d \in Calls : call'[d].gen \in 0..Len(of)
        BY <1>0, <1>12 DEF WriteFile, Goto, Bounded, Call
    <2> QED BY <1>12, <2>1 DEF WriteFile, Bounded
<1>13. ASSUME NEW c \in Calls, ReturnMetadata(c)
       PROVE  Bounded'
    <2>1. call[c].edit \in DOMAIN target \cup {None}
        BY <1>13, EditMade DEF ReturnMetadata, At
    <2> QED BY <1>0, <1>1, <1>2, <1>13, <2>1 DEF ReturnMetadata, Finish, Report
<1>14. ASSUME NEW c \in Calls, Fail(c)
       PROVE  Bounded'
    BY <1>0, <1>1, <1>2, <1>14 DEF Fail, Finish
<1>15. CASE Lock \/ ForgetVault \/ (\E v \in Vaults : ConfigureVault(v)) \/ UNCHANGED vars
    BY <1>15 DEF Lock, ForgetVault, ConfigureVault, vars, Bounded
<1>16. ASSUME NEW v \in Vaults, NEW e \in OtherEdits, OtherWrites(v, e)
       PROVE  Bounded'
    BY <1>16 DEF OtherWrites, Races, Bounded
<1>17. CASE Terminate
    BY <1>0, <1>1, <1>17 DEF Terminate, Bounded
<1> QED
    BY <1>3, <1>4, <1>5, <1>6, <1>8, <1>9, <1>10, <1>11, <1>12, <1>13, <1>14, <1>15, <1>16, <1>17 DEF Next
=============================================================================
