---------------------------- MODULE BridgesProofs ----------------------------
(***************************************************************************)
(* Proofs about NativeHost, for any contents, sizes, calls and bound.  The *)
(* inductive invariant says where the request or the reply of each call is *)
(* (Waiting), and for each state of a call what its local variables agree  *)
(* with: the helper's snapshot, the provider's tag, the session's tree.    *)
(*                                                                         *)
(* That NativeHost implements VaultFile needs more (Extra): where contents *)
(* come from, so that what a session makes is new to all, and that a       *)
(* session that saves was loaded from some content.                        *)
(*                                                                         *)
(* PasskeyBridge, for any requests, tabs and faults, has two invariants    *)
(* beside the types: in a tab where calls were never crowded, what is      *)
(* active is what is on show (OneActive); and, while no two ceremonies     *)
(* were together, the file follows the open tree and a ceremony is ahead   *)
(* of the file until its save (Follows).                                   *)
(*                                                                         *)
(* The last part is about both, as in MCBridges: each step there is a step *)
(* of one of the two and leaves the other one alone.                       *)
(***************************************************************************)
EXTENDS MCBridges, SequenceTheorems, TLAPS

\* The contents a session's tree holds.
Held(g) == {base[g]} \cup made[g]

AllAre(chunks, v) == \A i \in 1..Len(chunks) : chunks[i] = v

\* Chunks after which there is more to ask for.
Partial(chunks) == chunks # <<>> => Len(chunks) < Size[chunks[Len(chunks)]]

ReadOK(c) == call[c].pc = "read" =>
    LET chunks == call[c].chunks
        r == call[c].reply
    IN  /\ Partial(chunks)
        /\ r.is \in {"none", "chunk", "failed"}
        /\ r.is = "chunk" => r.etag \in Contents /\ r = ChunkAt(r.etag, Len(chunks))
        /\ call[c].lone => \A d \in Calls \ {c} : call[d].pc # "read"
        /\ call[c].lone /\ r.is = "none" /\ chunks # <<>> =>
             reading \in Contents /\ Len(chunks) < Size[reading] /\ AllAre(chunks, reading)
        /\ call[c].lone /\ r.is = "chunk" =>
             Len(chunks) < Size[r.etag] /\ AllAre(chunks, r.etag) /\ (~r.done => reading = r.etag)

LoadOK(c) == call[c].pc = "load" =>
    /\ \A v \in Contents : Whole(call[c].chunks, v) => known[call[c].gen] = v
    /\ call[c].lone => \E v \in Contents : Whole(call[c].chunks, v)

WriteOK(c) ==
    /\ call[c].pc = "save" => known[call[c].gen] \in Held(call[c].gen)
    /\ call[c].pc = "write" =>
         /\ call[c].data \in made[call[c].gen]
         /\ call[c].expected \in Held(call[c].gen)
         /\ call[c].reply.is \in {"none", "written", "refused", "failed"}
         /\ call[c].reply.is = "written" => call[c].reply.etag = call[c].data

\* A session that is being unlocked has no other call.
GenOK(c) == call[c].pc # "idle" =>
    /\ call[c].gen \in Sessions /\ call[c].gen <= opened
    /\ call[c].pc \in {"read", "load"} =>
         /\ session # call[c].gen
         /\ \A d \in Calls \ {c} : call[d].pc # "idle" => call[d].gen # call[c].gen

CallsOK == \A c \in Calls : ReadOK(c) /\ LoadOK(c) /\ WriteOK(c) /\ GenOK(c)

SessionOK == session # 0 => session <= opened /\ known[session] \in Held(session)

RenamingOK == renaming # None =>
    /\ call[renaming.for].reply.is = "none"
    /\ ~renaming.overtaken => file \in Held(Mine(renaming.for))

In(q, c) == \E i \in 1..Len(q) : q[i] = c
Once(q) == \A i, j \in 1..Len(q) : q[i] = q[j] => i = j
Renames(c) == renaming # None /\ renaming.for = c

\* Requests and replies under way are those of different calls that wait for them.
QueueOK ==
    /\ Once(queue)
    /\ \A c \in Calls : In(queue, c) =>
         InFlight(c) /\ call[c].reply.is = "none" /\ ~Renames(c)

AnswersOK ==
    /\ Once(answers)
    /\ \A c \in Calls : In(answers, c) => InFlight(c) /\ call[c].reply.is # "none"

IInv ==
    /\ TypeOK
    /\ CallsOK
    /\ SessionOK
    /\ RenamingOK
    /\ QueueOK
    /\ AnswersOK
    /\ NoCallForgotten

-----------------------------------------------------------------------------
(* Calls as records.                                                       *)

LEMMA CallType ==
    ASSUME NEW x \in Call
    PROVE  /\ x.pc \in {"idle", "read", "load", "save", "write"} /\ x.gen \in 0..MaxSessions
           /\ x.chunks \in Seq(Contents) /\ x.data \in Contents \cup {None}
           /\ x.expected \in Contents \cup {None} /\ x.reply \in Reply /\ x.lone \in BOOLEAN
BY DEF Call

LEMMA ReplyType ==
    ASSUME NEW r \in Reply
    PROVE  /\ r.is \in {"none", "chunk", "written", "refused", "failed"}
           /\ r.part \in Seq(Contents) /\ r.etag \in Contents \cup {None} /\ r.done \in BOOLEAN
BY DEF Reply

LEMMA WithKind ==
    ASSUME NEW r \in Reply, NEW k \in {"refused", "failed"}
    PROVE  [r EXCEPT !.is = k] \in Reply /\ [r EXCEPT !.is = k].is = k
BY DEF Reply

LEMMA IdleIsCall ==
    /\ NoReply \in Reply /\ Failed \in Reply /\ Idle \in Call
    /\ NoReply.is = "none" /\ Failed.is = "failed"
    /\ Idle.pc = "idle" /\ Idle.reply = NoReply /\ Idle.chunks = <<>>
<1> DEFINE empty == <<>>
<1>a. empty \in Seq(Contents) /\ FALSE \in BOOLEAN
    OBVIOUS
<1>b. NoReply = [is |-> "none", part |-> empty, etag |-> None, done |-> FALSE]
    BY DEF NoReply
<1> HIDE DEF empty
<1>1. NoReply \in Reply /\ NoReply.is = "none"
    BY <1>a, <1>b DEF Reply
<1>3. Failed \in Reply /\ Failed.is = "failed"
    BY <1>1, WithKind DEF Failed
<1>4. 0 \in 0..MaxSessions
    BY HostAssumption
<1>5. Idle \in Call /\ Idle.pc = "idle" /\ Idle.reply = NoReply /\ Idle.chunks = <<>>
    BY <1>1, <1>4 DEF Idle, Call
<1> QED BY <1>1, <1>3, <1>5

LEMMA StartedCall ==
    ASSUME NEW g \in 0..MaxSessions, NEW b \in BOOLEAN
    PROVE  LET y == [Idle EXCEPT !.pc = "read", !.gen = g, !.lone = b]
           IN  /\ y \in Call /\ y.pc = "read" /\ y.gen = g /\ y.lone = b
               /\ y.chunks = <<>> /\ y.reply = NoReply
BY IdleIsCall DEF Call

LEMMA OverlappedCall ==
    ASSUME NEW x \in Call, NEW b \in BOOLEAN
    PROVE  LET y == [x EXCEPT !.lone = b]
           IN  /\ y \in Call /\ y.pc = x.pc /\ y.gen = x.gen /\ y.lone = b
               /\ y.chunks = x.chunks /\ y.data = x.data /\ y.expected = x.expected
               /\ y.reply = x.reply
BY DEF Call

LEMMA WithReply ==
    ASSUME NEW x \in Call, NEW r \in Reply
    PROVE  LET y == [x EXCEPT !.reply = r]
           IN  /\ y \in Call /\ y.reply = r /\ y.pc = x.pc /\ y.gen = x.gen
               /\ y.chunks = x.chunks /\ y.data = x.data /\ y.expected = x.expected
               /\ y.lone = x.lone
BY DEF Call

-----------------------------------------------------------------------------

LEMMA InitIInv == Init => IInv
<1> SUFFICES ASSUME Init PROVE IInv
    OBVIOUS
<1>1. TypeOK
    BY IdleIsCall, HostAssumption DEF Init, TypeOK, Contents
<1>2. \A c \in Calls : call[c].pc = "idle"
    BY IdleIsCall DEF Init
<1>3. CallsOK /\ NoCallForgotten
    BY <1>2 DEF CallsOK, ReadOK, LoadOK, WriteOK, GenOK, NoCallForgotten
<1>4. SessionOK /\ RenamingOK /\ QueueOK /\ AnswersOK
    BY DEF Init, SessionOK, RenamingOK, QueueOK, AnswersOK, Once, In
<1> QED BY <1>1, <1>3, <1>4 DEF IInv

\* The types, with what they say of a call.
LEMMA Types ==
    ASSUME IInv
    PROVE  /\ \A c \in Calls : call[c] \in Call
           /\ \A c \in Calls : call[c].pc \in {"idle", "read", "load", "save", "write"}
           /\ \A c \in Calls : call[c].reply \in Reply /\ call[c].chunks \in Seq(Contents)
           /\ queue \in Seq(Calls) /\ answers \in Seq(Calls)
           /\ TypeOK /\ None \notin Contents \cup Renaming /\ Saved \subseteq Contents
BY CallType, HostAssumption DEF IInv, TypeOK, Contents

-----------------------------------------------------------------------------
(* The port.                                                               *)

LEMMA AppendIn ==
    ASSUME NEW q \in Seq(Calls), NEW s \in Calls
    PROVE  /\ Append(q, s) \in Seq(Calls)
           /\ \A c \in Calls : In(Append(q, s), c) <=> In(q, c) \/ c = s
           /\ Once(q) /\ ~In(q, s) => Once(Append(q, s))
<1> DEFINE t == Append(q, s)
<1>1. /\ t \in Seq(Calls) /\ Len(t) = Len(q) + 1 /\ Len(q) \in Nat
      /\ \A i \in 1..Len(q) : t[i] = q[i]
      /\ t[Len(q) + 1] = s
    OBVIOUS
<1> HIDE DEF t
<1>2. \A i \in 1..Len(t) : i \in 1..Len(q) \/ i = Len(q) + 1
    BY <1>1
<1>3. \A c \in Calls : In(t, c) <=> In(q, c) \/ c = s
    BY <1>1, <1>2 DEF In
<1>4. Once(q) /\ ~In(q, s) => Once(t)
    BY <1>1, <1>2 DEF In, Once
<1> QED BY <1>1, <1>3, <1>4 DEF t

LEMMA TailIn ==
    ASSUME NEW q \in Seq(Calls), q # <<>>, Once(q)
    PROVE  /\ Tail(q) \in Seq(Calls) /\ Head(q) \in Calls /\ In(q, Head(q))
           /\ \A c \in Calls : In(Tail(q), c) <=> In(q, c) /\ c # Head(q)
           /\ Once(Tail(q))
<1> DEFINE t == Tail(q)
           h == Head(q)
<1>1. /\ t \in Seq(Calls) /\ Len(t) = Len(q) - 1 /\ Len(q) \in Nat \ {0}
      /\ \A i \in 1..Len(q) - 1 : t[i] = q[i + 1]
      /\ h = q[1] /\ h \in Calls
    OBVIOUS
<1> HIDE DEF t, h
<1>2. ASSUME NEW c \in Calls, In(t, c) PROVE In(q, c) /\ c # h
    <2>1. PICK i \in 1..Len(q) - 1 : q[i + 1] = c
        BY <1>1, <1>2 DEF In
    <2>2. i + 1 \in 1..Len(q) /\ i + 1 # 1 /\ 1 \in 1..Len(q)
        BY <1>1
    <2> QED BY <1>1, <2>1, <2>2 DEF In, Once
<1>3. ASSUME NEW c \in Calls, In(q, c), c # h PROVE In(t, c)
    <2>1. PICK i \in 1..Len(q) : q[i] = c
        BY <1>3 DEF In
    <2>2. i - 1 \in 1..Len(q) - 1 /\ i = (i - 1) + 1
        BY <1>1, <1>3, <2>1
    <2>3. t[i - 1] = c
        BY <1>1, <2>1, <2>2
    <2> QED BY <1>1, <2>2, <2>3 DEF In
<1>4. Once(t)
    <2> SUFFICES ASSUME NEW i \in 1..Len(q) - 1, NEW j \in 1..Len(q) - 1, t[i] = t[j] PROVE i = j
        BY <1>1 DEF Once
    <2>1. q[i + 1] = q[j + 1] /\ i + 1 \in 1..Len(q) /\ j + 1 \in 1..Len(q)
        BY <1>1
    <2> QED BY <2>1 DEF Once
<1>5. In(q, h)
    BY <1>1 DEF In
<1> QED BY <1>1, <1>2, <1>3, <1>4, <1>5 DEF t, h

-----------------------------------------------------------------------------
(* What a step leaves alone.                                               *)

\* The fields of c stay, but for another read that overlaps it.
Same(c) ==
    /\ call'[c].pc = call[c].pc /\ call'[c].gen = call[c].gen
    /\ call'[c].chunks = call[c].chunks /\ call'[c].data = call[c].data
    /\ call'[c].expected = call[c].expected /\ call'[c].reply = call[c].reply
    /\ call'[c].lone => call[c].lone

LEMMA CallKept ==
    ASSUME IInv, NEW c \in Calls, Same(c),
           call[c].pc = "read" /\ call'[c].lone =>
             reading' = reading /\ \A d \in Calls \ {c} : call'[d].pc # "read",
           call[c].pc = "load" => known'[call[c].gen] = known[call[c].gen],
           call[c].pc = "save" => \/ known'[call[c].gen] = known[call[c].gen]
                                  \/ known'[call[c].gen] \in made[call[c].gen],
           call[c].pc \in {"save", "write"} => /\ base'[call[c].gen] = base[call[c].gen]
                                   /\ made[call[c].gen] \subseteq made'[call[c].gen]
    PROVE  ReadOK(c)' /\ LoadOK(c)' /\ WriteOK(c)'
<1>1. ReadOK(c) /\ LoadOK(c) /\ WriteOK(c)
    BY DEF IInv, CallsOK
<1>2. ReadOK(c)'
    BY <1>1 DEF ReadOK, Same
<1>3. LoadOK(c)'
    BY <1>1 DEF LoadOK, Same
<1>4. WriteOK(c)'
    BY <1>1 DEF WriteOK, Same, Held
<1> QED BY <1>2, <1>3, <1>4

\* Calls end or go on, and none begins.
LEMMA GenKept ==
    ASSUME IInv, opened' = opened,
           \/ session' \in {session, 0}
           \/ \E s \in Calls : /\ call[s].pc = "load" /\ call'[s].pc = "idle"
                             /\ session' = call[s].gen,
           \A d \in Calls : \/ call'[d].pc = "idle"
                            \/ /\ call'[d].gen = call[d].gen /\ call[d].pc # "idle"
                               /\ call'[d].pc \in {"read", "load"} => call[d].pc \in {"read", "load"}
    PROVE  \A c \in Calls : GenOK(c)'
<1> SUFFICES ASSUME NEW c \in Calls, call'[c].pc # "idle" PROVE GenOK(c)'
    BY DEF GenOK
<1>1. GenOK(c) /\ call[c].pc # "idle" /\ call'[c].gen = call[c].gen
      /\ (call'[c].pc \in {"read", "load"} => call[c].pc \in {"read", "load"})
    BY DEF IInv, CallsOK
<1>2. call[c].gen \in Sessions /\ call[c].gen <= opened /\ call[c].gen # 0
    BY <1>1, HostAssumption DEF GenOK, Sessions
<1>3. ASSUME call'[c].pc \in {"read", "load"}
      PROVE  /\ session' # call[c].gen
             /\ \A d \in Calls \ {c} : call'[d].pc # "idle" => call'[d].gen # call[c].gen
    BY <1>1, <1>2, <1>3 DEF GenOK
<1> QED BY <1>1, <1>2, <1>3 DEF GenOK

LEMMA StartUnlockPreserves ==
    ASSUME IInv, NEW s \in Calls, StartUnlock(s)
    PROVE  IInv'
<1>1. call[s].pc = "idle" /\ opened' = opened + 1 /\ opened + 1 \in Sessions
      /\ session <= opened /\ opened \in Nat /\ session \in Nat
      /\ opened + 1 \in 0..MaxSessions
    <2>1. opened \in 0..MaxSessions /\ session \in 0..MaxSessions /\ MaxSessions \in Nat
          /\ (session # 0 => session <= opened)
        BY HostAssumption DEF IInv, SessionOK, TypeOK
    <2>2. call[s].pc = "idle" /\ opened' = opened + 1 /\ opened < MaxSessions
        BY DEF StartUnlock
    <2> QED BY <2>1, <2>2 DEF Sessions
<1>2. ASSUME NEW c \in Calls, c # s
      PROVE  /\ call'[c] \in Call
             /\ call'[c].pc = call[c].pc /\ call'[c].gen = call[c].gen
             /\ call'[c].chunks = call[c].chunks /\ call'[c].data = call[c].data
             /\ call'[c].expected = call[c].expected /\ call'[c].reply = call[c].reply
             /\ call'[c].lone => call[c].lone /\ call[c].pc # "read"
    <2> DEFINE b == call[c].lone /\ call[c].pc # "read"
    <2>1. call'[c] = [call[c] EXCEPT !.lone = b]
        BY <1>2 DEF StartUnlock
    <2>2. b \in BOOLEAN /\ call[c] \in Call
        BY Types
    <2>3. b => call[c].lone /\ call[c].pc # "read"
        OBVIOUS
    <2> HIDE DEF b
    <2> QED BY <2>1, <2>2, <2>3, OverlappedCall
<1>3. /\ call'[s] \in Call /\ call'[s].pc = "read" /\ call'[s].gen = opened + 1
      /\ call'[s].chunks = <<>> /\ call'[s].reply = NoReply
      /\ call'[s].lone => \A d \in Calls : call[d].pc # "read"
    <2> DEFINE b == \A d \in Calls : call[d].pc # "read"
               g == opened + 1
               y == [Idle EXCEPT !.pc = "read", !.gen = g, !.lone = b]
    <2>1. call'[s] = y
        BY DEF StartUnlock
    <2>2. b \in BOOLEAN
        OBVIOUS
    <2>3. b => \A d \in Calls : call[d].pc # "read"
        OBVIOUS
    <2>4. g \in 0..MaxSessions
        BY <1>1
    <2> HIDE DEF b, g
    <2>5. /\ y \in Call /\ y.pc = "read" /\ y.gen = g /\ y.lone = b
          /\ y.chunks = <<>> /\ y.reply = NoReply
        BY <2>2, <2>4, StartedCall
    <2> HIDE DEF y
    <2> QED BY <2>1, <2>3, <2>5 DEF g
<1>4. TypeOK'
    <2>1. call' \in [Calls -> Call]
        BY <1>2, <1>3 DEF StartUnlock
    <2>2. queue' \in Seq(Calls)
        BY Types, AppendIn DEF StartUnlock
    <2>3. opened' \in 0..MaxSessions
        BY <1>1
    <2>4. renaming # None => call'[renaming.for].pc = "write"
        BY <1>1, <1>2, Types DEF TypeOK, Renaming
    <2> QED BY <2>1, <2>2, <2>3, <2>4, Types DEF StartUnlock, TypeOK, hostVars
<1>5. \A d \in Calls : GenOK(d)
    BY DEF IInv, CallsOK
<1>6. ASSUME NEW c \in Calls, c # s PROVE GenOK(c)'
    <2>1. call[c].pc # "idle" => call[c].gen # opened + 1 /\ call[c].gen <= opened + 1
        BY <1>1, <1>5 DEF GenOK, Sessions
    <2>2. call[s].pc = "idle" /\ session' = session
        BY DEF StartUnlock
    <2> QED BY <1>1, <1>2, <1>3, <1>5, <1>6, <2>1, <2>2 DEF GenOK
<1>7. GenOK(s)'
    <2>1. \A d \in Calls \ {s} : call'[d].pc # "idle" => call'[d].gen # opened + 1
        BY <1>1, <1>2, <1>5 DEF GenOK, Sessions
    <2>2. session' # opened + 1
        <3>1. session' = session
            BY DEF StartUnlock
        <3>2. session # opened + 1
            BY <1>1
        <3> QED BY <3>1, <3>2
    <2>3. call'[s].gen = opened + 1 /\ opened + 1 <= opened' /\ opened + 1 \in Sessions
        BY <1>1, <1>3
    <2> QED BY <2>1, <2>2, <2>3 DEF GenOK
<1>8. ASSUME NEW c \in Calls, c # s PROVE (ReadOK(c) /\ LoadOK(c) /\ WriteOK(c))'
    <2>1. call'[c].lone => call[c].pc # "read"
        BY <1>2, <1>8
    <2>2. UNCHANGED <<known, base, made, reading>>
        BY DEF StartUnlock, hostVars
    <2> QED BY <1>2, <1>8, <2>1, <2>2, CallKept DEF Same
<1>9. (ReadOK(s) /\ LoadOK(s) /\ WriteOK(s))'
    <2>1. call'[s].lone => \A d \in Calls \ {s} : call'[d].pc # "read"
        BY <1>2, <1>3
    <2> QED BY <1>3, <2>1, IdleIsCall DEF ReadOK, LoadOK, WriteOK, Partial
<1>10. CallsOK'
    BY <1>6, <1>7, <1>8, <1>9 DEF CallsOK
<1>11. ~In(queue, s) /\ ~In(answers, s) /\ ~Renames(s)
    BY <1>1 DEF IInv, QueueOK, AnswersOK, TypeOK, Renames, InFlight
<1>12. QueueOK' /\ AnswersOK'
    <2>1. /\ Once(queue') /\ \A c \in Calls : In(queue', c) <=> In(queue, c) \/ c = s
        BY <1>11, Types, AppendIn DEF StartUnlock, IInv, QueueOK
    <2>2. UNCHANGED <<renaming, answers>>
        BY DEF StartUnlock, hostVars
    <2>3. InFlight(s)' /\ call'[s].reply.is = "none"
        BY <1>3, IdleIsCall DEF InFlight
    <2> QED BY <1>2, <1>11, <2>1, <2>2, <2>3
            DEF IInv, QueueOK, AnswersOK, InFlight, Renames
<1>13. NoCallForgotten'
    <2>1. \A c \in Calls : In(queue', c) <=> In(queue, c) \/ c = s
        BY Types, AppendIn DEF StartUnlock
    <2>2. UNCHANGED <<renaming, answers>>
        BY DEF StartUnlock, hostVars
    <2> QED BY <1>2, <2>1, <2>2 DEF IInv, NoCallForgotten, In
<1>14. SessionOK' /\ RenamingOK'
    <2>1. UNCHANGED <<session, known, base, made, renaming, file>>
        BY DEF StartUnlock, hostVars
    <2>2. renaming # None => renaming.for \in Calls /\ renaming.for # s
        BY <1>11, Types DEF TypeOK, Renames, Renaming
    <2>3. SessionOK'
        BY <1>1, <2>1 DEF IInv, SessionOK, Held
    <2>4. RenamingOK'
        <3>1. RenamingOK
            BY DEF IInv
        <3>2. ASSUME renaming # None
              PROVE  /\ call'[renaming.for].reply = call[renaming.for].reply
                     /\ call'[renaming.for].gen = call[renaming.for].gen
            BY <1>2, <2>2, <3>2
        <3> QED BY <2>1, <3>1, <3>2 DEF RenamingOK, Held, Mine
    <2> QED BY <2>3, <2>4
<1> QED BY <1>4, <1>10, <1>12, <1>13, <1>14 DEF IInv

-----------------------------------------------------------------------------
(* Steps of one call.                                                      *)

LEMMA OneCall ==
    ASSUME IInv, NEW s \in Calls, NEW y \in Call, call' = [call EXCEPT ![s] = y]
    PROVE  /\ call' \in [Calls -> Call] /\ call'[s] = y
           /\ \A c \in Calls \ {s} : call'[c] = call[c] /\ Same(c)
BY DEF IInv, TypeOK, Same

\* A step of a call in flight: it may change the snapshot if it reads, and what
\* the provider and the session have only for its own session.
LEMMA OthersKept ==
    ASSUME IInv, NEW s \in Calls, call[s].pc # "idle",
           NEW y \in Call, call' = [call EXCEPT ![s] = y],
           reading' = reading \/ call[s].pc = "read",
           y.pc = "read" => call[s].pc = "read",
           \A g \in Sessions \ {call[s].gen} : known'[g] = known[g] /\ base'[g] = base[g],
           known' = known \/ call[s].pc = "read" \/ known'[call[s].gen] \in made[call[s].gen],
           base' = base \/ call[s].pc = "load", \A g \in Sessions : made[g] \subseteq made'[g]
    PROVE  \A c \in Calls \ {s} : ReadOK(c)' /\ LoadOK(c)' /\ WriteOK(c)'
<1> SUFFICES ASSUME NEW c \in Calls \ {s} PROVE ReadOK(c)' /\ LoadOK(c)' /\ WriteOK(c)'
    OBVIOUS
<1>1. call'[c] = call[c] /\ Same(c) /\ call'[s] = y
    BY OneCall
<1>2. ReadOK(c) /\ GenOK(c) /\ GenOK(s)
    BY DEF IInv, CallsOK
<1>3. ASSUME call[c].pc = "read", call[c].lone
      PROVE  reading' = reading /\ \A d \in Calls \ {c} : call'[d].pc # "read"
    <2>1. \A d \in Calls \ {c} : call[d].pc # "read"
        BY <1>2, <1>3 DEF ReadOK
    <2> QED BY <1>1, <2>1, OneCall
<1>4. ASSUME call[c].pc = "load" PROVE known'[call[c].gen] = known[call[c].gen]
    BY <1>2, <1>4 DEF GenOK
<1>5. ASSUME call[c].pc \in {"save", "write"}
      PROVE  /\ base'[call[c].gen] = base[call[c].gen]
             /\ made[call[c].gen] \subseteq made'[call[c].gen]
             /\ known'[call[c].gen] \in {known[call[c].gen]} \cup made[call[c].gen]
    BY <1>2, <1>5 DEF GenOK
<1>6. call[c].pc = "read" /\ call'[c].lone =>
        reading' = reading /\ \A d \in Calls \ {c} : call'[d].pc # "read"
    BY <1>1, <1>3
<1>7. /\ call[c].pc \in {"save", "write"} => /\ base'[call[c].gen] = base[call[c].gen]
                                             /\ made[call[c].gen] \subseteq made'[call[c].gen]
      /\ call[c].pc = "save" => \/ known'[call[c].gen] = known[call[c].gen]
                                \/ known'[call[c].gen] \in made[call[c].gen]
    BY <1>5
<1> QED BY <1>1, <1>4, <1>6, <1>7, CallKept

\* The port after a step that moves only the request or the reply of s.
LEMMA PortKept ==
    ASSUME IInv, NEW s \in Calls, Once(queue'), Once(answers'),
           \A c \in Calls \ {s} :
             /\ In(queue', c) <=> In(queue, c)
             /\ In(answers', c) <=> In(answers, c)
             /\ Renames(c)' <=> Renames(c)
             /\ call'[c].pc = call[c].pc /\ call'[c].reply = call[c].reply,
           In(queue', s) => InFlight(s)' /\ call'[s].reply.is = "none" /\ ~Renames(s)',
           In(answers', s) => InFlight(s)' /\ call'[s].reply.is # "none",
           InFlight(s)' => In(queue', s) \/ In(answers', s) \/ Renames(s)'
    PROVE  QueueOK' /\ AnswersOK' /\ NoCallForgotten'
<1>1. QueueOK /\ AnswersOK
    BY DEF IInv
<1>2. \A c \in Calls : InFlight(c) => In(queue, c) \/ In(answers, c) \/ Renames(c)
    BY DEF IInv, NoCallForgotten, InFlight, In, Renames
<1>3. QueueOK'
    BY <1>1 DEF QueueOK, InFlight
<1>4. AnswersOK'
    BY <1>1 DEF AnswersOK, InFlight
<1>5. \A c \in Calls : InFlight(c)' => In(queue', c) \/ In(answers', c) \/ Renames(c)'
    BY <1>2 DEF InFlight
<1> QED BY <1>3, <1>4, <1>5 DEF NoCallForgotten, InFlight, In, Renames

\* The helper serves a call whose request is in the queue and nowhere else.
LEMMA Served ==
    ASSUME IInv, NEW s \in Calls, Serves(s)
    PROVE  /\ call[s].pc \in {"read", "write"} /\ call[s].reply.is = "none"
           /\ ~In(answers, s) /\ renaming = None
           /\ Tail(queue) \in Seq(Calls) /\ Once(Tail(queue))
           /\ \A c \in Calls : In(Tail(queue), c) <=> In(queue, c) /\ c # s
<1>1. QueueOK /\ AnswersOK /\ queue # <<>> /\ s = Head(queue) /\ renaming = None
    BY DEF IInv, Serves
<1>2. /\ In(queue, s) /\ Tail(queue) \in Seq(Calls) /\ Once(Tail(queue))
      /\ \A c \in Calls : In(Tail(queue), c) <=> In(queue, c) /\ c # s
    BY <1>1, Types, TailIn DEF QueueOK
<1>3. InFlight(s) /\ call[s].reply.is = "none"
    BY <1>1, <1>2 DEF QueueOK
<1>4. ~In(answers, s)
    BY <1>1, <1>3 DEF AnswersOK
<1> QED BY <1>1, <1>2, <1>3, <1>4 DEF InFlight

\* So does the provider with a reply.
LEMMA Replied ==
    ASSUME IInv, NEW s \in Calls, answers # <<>>, s = Head(answers)
    PROVE  /\ call[s].pc \in {"read", "write"} /\ call[s].reply.is # "none"
           /\ ~In(queue, s) /\ ~Renames(s)
           /\ Tail(answers) \in Seq(Calls) /\ Once(Tail(answers))
           /\ \A c \in Calls : In(Tail(answers), c) <=> In(answers, c) /\ c # s
<1>1. QueueOK /\ AnswersOK /\ RenamingOK
    BY DEF IInv
<1>2. /\ In(answers, s) /\ Tail(answers) \in Seq(Calls) /\ Once(Tail(answers))
      /\ \A c \in Calls : In(Tail(answers), c) <=> In(answers, c) /\ c # s
    BY <1>1, Types, TailIn DEF AnswersOK
<1>3. InFlight(s) /\ call[s].reply.is # "none"
    BY <1>1, <1>2 DEF AnswersOK
<1>4. ~In(queue, s) /\ ~Renames(s)
    BY <1>1, <1>3 DEF QueueOK, RenamingOK, Renames
<1> QED BY <1>2, <1>3, <1>4 DEF InFlight

\* The session and the write under way, when neither they, the file nor what the
\* session holds change.
LEMMA RestKept ==
    ASSUME IInv, NEW s \in Calls, NEW y \in Call, call' = [call EXCEPT ![s] = y],
           renaming = None \/ renaming.for # s,
           UNCHANGED <<file, renaming, sessionVars>>
    PROVE  SessionOK' /\ RenamingOK'
<1>1. UNCHANGED <<file, renaming, session, opened, known, base, made>>
    BY DEF sessionVars
<1>2. SessionOK /\ RenamingOK /\ (renaming # None => renaming.for \in Calls \ {s})
    BY DEF IInv, TypeOK, Renaming
<1>3. SessionOK'
    BY <1>1, <1>2 DEF SessionOK, Held
<1>4. renaming # None => call'[renaming.for] = call[renaming.for]
    BY <1>2, OneCall
<1>5. RenamingOK'
    BY <1>1, <1>2, <1>4 DEF RenamingOK, Held, Mine
<1> QED BY <1>3, <1>5

\* Types after such a step.
LEMMA TypesStay ==
    ASSUME IInv, NEW s \in Calls, NEW y \in Call, call' = [call EXCEPT ![s] = y],
           renaming = None \/ renaming.for # s,
           queue' \in Seq(Calls), answers' \in Seq(Calls), reading' \in Contents \cup {None},
           UNCHANGED <<file, renaming, sessionVars>>
    PROVE  TypeOK'
<1>1. UNCHANGED <<file, renaming, session, opened, known, base, made>>
    BY DEF sessionVars
<1>2. TypeOK /\ call' \in [Calls -> Call]
    BY OneCall DEF IInv
<1>3. renaming # None => call'[renaming.for].pc = "write"
    <2>1. renaming # None => renaming.for \in Calls \ {s} /\ call[renaming.for].pc = "write"
        BY <1>2 DEF TypeOK, Renaming
    <2> QED BY <2>1, OneCall
<1> QED BY <1>1, <1>2, <1>3 DEF TypeOK

-----------------------------------------------------------------------------
(* The helper's steps.                                                     *)

LEMMA Answered ==
    ASSUME IInv, NEW s \in Calls, Serves(s), NEW r \in Reply, r.is # "none", Answer(s, r),
           UNCHANGED <<file, renaming, sessionVars>>,
           reading' \in Contents \cup {None}, reading' = reading \/ call[s].pc = "read"
    PROVE  /\ TypeOK' /\ SessionOK' /\ RenamingOK' /\ QueueOK' /\ AnswersOK' /\ NoCallForgotten'
           /\ \A c \in Calls : GenOK(c)'
           /\ \A c \in Calls \ {s} : ReadOK(c)' /\ LoadOK(c)' /\ WriteOK(c)'
           /\ call'[s].reply = r /\ call'[s].pc = call[s].pc /\ call'[s].gen = call[s].gen
           /\ call'[s].chunks = call[s].chunks /\ call'[s].lone = call[s].lone
           /\ call'[s].data = call[s].data /\ call'[s].expected = call[s].expected
           /\ \A c \in Calls \ {s} : call'[c] = call[c]
<1> DEFINE y == [call[s] EXCEPT !.reply = r]
<1>1. /\ y \in Call /\ y.reply = r /\ y.pc = call[s].pc /\ y.gen = call[s].gen
      /\ y.chunks = call[s].chunks /\ y.data = call[s].data
      /\ y.expected = call[s].expected /\ y.lone = call[s].lone
    BY Types, WithReply
<1>2. call' = [call EXCEPT ![s] = y]
    BY DEF Answer
<1> HIDE DEF y
<1>3. call'[s] = y /\ \A c \in Calls \ {s} : call'[c] = call[c]
    BY <1>1, <1>2, OneCall
<1>4. UNCHANGED <<renaming, session, opened, known, base, made>>
    BY DEF sessionVars
<1>5. queue' = Tail(queue) /\ answers' = Append(answers, s)
    BY DEF Answer
<1>6. /\ queue' \in Seq(Calls) /\ answers' \in Seq(Calls) /\ Once(queue') /\ Once(answers')
      /\ \A c \in Calls : In(queue', c) <=> In(queue, c) /\ c # s
      /\ \A c \in Calls : In(answers', c) <=> In(answers, c) \/ c = s
    BY <1>5, Served, Types, AppendIn DEF IInv, AnswersOK
<1>7. TypeOK' /\ SessionOK' /\ RenamingOK'
    BY <1>1, <1>2, <1>6, Served, TypesStay, RestKept
<1>8. QueueOK' /\ AnswersOK' /\ NoCallForgotten'
    <2>1. InFlight(s)' /\ call'[s].reply.is # "none"
        BY <1>1, <1>3, Served DEF InFlight
    <2>2. \A c \in Calls \ {s} : Renames(c)' <=> Renames(c)
        BY <1>4 DEF Renames
    <2> QED BY <1>3, <1>6, <2>1, <2>2, PortKept
<1>9. \A c \in Calls : GenOK(c)'
    <2>1. \A d \in Calls : \/ call'[d].pc = "idle"
                            \/ /\ call'[d].gen = call[d].gen /\ call[d].pc # "idle"
                               /\ call'[d].pc \in {"read", "load"} => call[d].pc \in {"read", "load"}
        BY <1>1, <1>3
    <2> QED BY <1>4, <2>1, GenKept
<1>10. \A c \in Calls \ {s} : ReadOK(c)' /\ LoadOK(c)' /\ WriteOK(c)'
    BY <1>1, <1>2, <1>4, Served, OthersKept
<1> QED BY <1>1, <1>3, <1>7, <1>8, <1>9, <1>10

LEMMA ChunkIsReply ==
    ASSUME NEW v \in Contents, NEW k \in Nat
    PROVE  LET r == ChunkAt(v, k)
           IN  /\ r \in Reply /\ r.is = "chunk" /\ r.etag = v
               /\ r.done <=> k + 1 >= Size[v]
               /\ r.part = IF k < Size[v] THEN <<v>> ELSE <<>>
<1> DEFINE d == k + 1 >= Size[v]
           p == IF k < Size[v] THEN <<v>> ELSE <<>>
<1>1. d \in BOOLEAN
    OBVIOUS
<1>2. p \in Seq(Contents)
    OBVIOUS
<1>3. ChunkAt(v, k) = [is |-> "chunk", part |-> p, etag |-> v, done |-> d]
    BY DEF ChunkAt
<1>4. d <=> k + 1 >= Size[v]
    OBVIOUS
<1>5. p = IF k < Size[v] THEN <<v>> ELSE <<>>
    OBVIOUS
<1> HIDE DEF d, p
<1>6. ChunkAt(v, k) \in Reply /\ ChunkAt(v, k).is = "chunk" /\ ChunkAt(v, k).etag = v
      /\ ChunkAt(v, k).done = d /\ ChunkAt(v, k).part = p
    BY <1>1, <1>2, <1>3 DEF Reply
<1> QED BY <1>4, <1>5, <1>6

\* A failed or refused request says nothing of the file.
LEMMA FailedPreserves ==
    ASSUME IInv, NEW s \in Calls, Serves(s), NEW r \in Reply,
           r.is = "failed" \/ (r.is = "refused" /\ call[s].pc = "write"),
           Answer(s, r), UNCHANGED <<file, hostVars, sessionVars>>
    PROVE  IInv'
<1>1. UNCHANGED <<file, renaming, reading, sessionVars, known, base, made>> /\ r.is # "none"
    BY DEF hostVars, sessionVars
<1>2. reading' \in Contents \cup {None}
    BY <1>1, Types DEF TypeOK
<1>3. /\ TypeOK' /\ SessionOK' /\ RenamingOK' /\ QueueOK' /\ AnswersOK' /\ NoCallForgotten'
      /\ \A c \in Calls : GenOK(c)'
      /\ \A c \in Calls \ {s} : ReadOK(c)' /\ LoadOK(c)' /\ WriteOK(c)'
      /\ call'[s].reply = r /\ call'[s].pc = call[s].pc /\ call'[s].gen = call[s].gen
      /\ call'[s].chunks = call[s].chunks /\ call'[s].lone = call[s].lone
      /\ call'[s].data = call[s].data /\ call'[s].expected = call[s].expected
      /\ \A c \in Calls \ {s} : call'[c] = call[c]
    BY <1>1, <1>2, Answered
<1>4. ReadOK(s) /\ LoadOK(s) /\ WriteOK(s)
    BY DEF IInv, CallsOK
<1>5. ReadOK(s)'
    BY <1>1, <1>3, <1>4 DEF ReadOK
<1>6. LoadOK(s)' /\ WriteOK(s)'
    BY <1>1, <1>3, <1>4, Served DEF LoadOK, WriteOK, Held
<1> QED BY <1>3, <1>5, <1>6 DEF IInv, CallsOK

LEMMA FailedServed ==
    ASSUME IInv, NEW s \in Calls, Serves(s), Answer(s, Failed),
           UNCHANGED <<file, hostVars, sessionVars>>
    PROVE  IInv'
<1>1. Failed \in Reply /\ Failed.is = "failed"
    BY IdleIsCall
<1> QED BY <1>1, FailedPreserves

LEMMA ReadPreserves ==
    ASSUME IInv, NEW s \in Calls, Read(s)
    PROVE  IInv'
<1> DEFINE v == Snapshot(s)
           k == Len(call[s].chunks)
           r == ChunkAt(v, k)
<1>1. Serves(s) /\ call[s].pc = "read" /\ UNCHANGED <<file, renaming, sessionVars>>
    BY DEF Read
<1>2. k \in Nat
    BY Types
<1>3. v \in Contents \cup {None}
    BY Types DEF Snapshot, TypeOK
<1>4. CASE v = None
    <2>1. Answer(s, Failed) /\ UNCHANGED reading
        BY <1>4 DEF Read
    <2>2. UNCHANGED <<file, hostVars, sessionVars>>
        BY <1>1, <2>1 DEF hostVars, sessionVars
    <2> QED BY <1>1, <2>1, <2>2, FailedServed
<1>5. CASE v # None
    <2>1. Answer(s, r) /\ reading' = IF r.done THEN None ELSE v
        BY <1>5 DEF Read
    <2>2. /\ r \in Reply /\ r.is = "chunk" /\ r.etag = v /\ v \in Contents
        BY <1>2, <1>3, <1>5, ChunkIsReply
    <2> HIDE DEF v, k
    <2>3. /\ TypeOK' /\ SessionOK' /\ RenamingOK' /\ QueueOK' /\ AnswersOK' /\ NoCallForgotten'
          /\ \A c \in Calls : GenOK(c)'
          /\ \A c \in Calls \ {s} : ReadOK(c)' /\ LoadOK(c)' /\ WriteOK(c)'
          /\ call'[s].reply = r /\ call'[s].pc = call[s].pc
          /\ call'[s].chunks = call[s].chunks /\ call'[s].lone = call[s].lone
          /\ \A c \in Calls \ {s} : call'[c] = call[c]
        <3>1. reading' \in Contents \cup {None} /\ r.is # "none"
            BY <2>1, <2>2
        <3> HIDE DEF r
        <3> QED BY <1>1, <2>1, <2>2, <3>1, Answered
    <2>4. ReadOK(s) /\ call[s].reply.is = "none"
        BY <1>1, Served DEF IInv, CallsOK
    <2>5. ReadOK(s)'
        <3>1. Partial(call'[s].chunks)
            BY <1>1, <2>3, <2>4 DEF ReadOK, Partial
        <3>2. r = ChunkAt(r.etag, Len(call'[s].chunks))
            BY <2>2, <2>3 DEF k
        <3>3. call'[s].lone => \A d \in Calls \ {s} : call'[d].pc # "read"
            BY <1>1, <2>3, <2>4 DEF ReadOK
        <3>4. call'[s].lone => k < Size[v] /\ AllAre(call[s].chunks, v)
            <4>1. CASE call[s].chunks = <<>>
                BY <2>2, <4>1, HostAssumption DEF k, AllAre
            <4>2. CASE call[s].chunks # <<>>
                BY <1>1, <2>3, <2>4, <4>2 DEF ReadOK, Snapshot, v, k
            <4> QED BY <4>1, <4>2
        <3>5. ~r.done => reading' = v
            BY <2>1
        <3> HIDE DEF r
        <3> QED BY <2>2, <2>3, <3>1, <3>2, <3>3, <3>4, <3>5 DEF ReadOK, k
    <2>6. LoadOK(s)' /\ WriteOK(s)'
        BY <1>1, <2>3 DEF LoadOK, WriteOK
    <2> QED BY <2>3, <2>5, <2>6 DEF IInv, CallsOK
<1> QED BY <1>4, <1>5

LEMMA ReadFailsPreserves ==
    ASSUME IInv, NEW s \in Calls, ReadFails(s)
    PROVE  IInv'
BY FailedServed DEF ReadFails

LEMMA ConflictPreserves ==
    ASSUME IInv, NEW s \in Calls, Conflict(s)
    PROVE  IInv'
<1> DEFINE r == [NoReply EXCEPT !.is = "refused"]
<1>1. r \in Reply /\ r.is = "refused"
    BY IdleIsCall, WithKind
<1>2. Serves(s) /\ call[s].pc = "write" /\ Answer(s, r) /\ UNCHANGED <<file, hostVars, sessionVars>>
    BY DEF Conflict
<1> HIDE DEF r
<1> QED BY <1>1, <1>2, FailedPreserves

LEMMA CheckPreserves ==
    ASSUME IInv, NEW s \in Calls, Check(s)
    PROVE  IInv'
<1>1. /\ Serves(s) /\ call[s].pc = "write" /\ file = call[s].expected
      /\ renaming' = [for |-> s, overtaken |-> FALSE] /\ queue' = Tail(queue)
      /\ UNCHANGED <<file, reading, answers, call, session, opened, known, base, made>>
    BY DEF Check, TagMatches, sessionVars
<1>2. TypeOK /\ CallsOK /\ SessionOK /\ AnswersOK
    BY DEF IInv
<1>3. renaming' \in Renaming /\ renaming' # None /\ renaming'.for = s
    <2>1. renaming' \in Renaming /\ renaming'.for = s
        BY <1>1 DEF Renaming
    <2> QED BY <2>1, Types
<1>4. TypeOK' /\ CallsOK' /\ SessionOK'
    BY <1>1, <1>2, <1>3, Served
       DEF TypeOK, CallsOK, ReadOK, LoadOK, WriteOK, GenOK, SessionOK, Held
<1>5. RenamingOK'
    <2>1. call[s].reply.is = "none" /\ call[s].expected \in Held(call[s].gen)
        BY <1>1, <1>2, Served DEF CallsOK, WriteOK
    <2> QED BY <1>1, <1>3, <2>1 DEF RenamingOK, Held, Mine
<1>6. QueueOK' /\ AnswersOK' /\ NoCallForgotten'
    <2>1. /\ Once(queue') /\ \A c \in Calls : In(queue', c) <=> In(queue, c) /\ c # s
          /\ renaming = None /\ ~In(answers, s)
        BY <1>1, Served
    <2>2. Renames(s)' /\ \A c \in Calls \ {s} : Renames(c)' <=> Renames(c)
        BY <1>3, <2>1 DEF Renames
    <2> QED BY <1>1, <1>2, <2>1, <2>2, PortKept DEF AnswersOK
<1> QED BY <1>2, <1>4, <1>5, <1>6 DEF IInv

\* The helper's reply to a write it has checked.
LEMMA RenamedPreserves ==
    ASSUME IInv, NEW s \in Calls, Renames(s), NEW r \in Reply,
           r.is = "failed" \/ (r.is = "written" /\ r.etag = call[s].data),
           call' = [call EXCEPT ![s].reply = r],
           answers' = Append(answers, s), renaming' = None,
           file' \in Contents \cup {None}, UNCHANGED <<reading, queue, sessionVars>>
    PROVE  IInv'
<1> DEFINE y == [call[s] EXCEPT !.reply = r]
<1>1. /\ call[s].pc = "write" /\ call[s].reply.is = "none" /\ Renames(s)
      /\ QueueOK /\ AnswersOK /\ CallsOK /\ TypeOK /\ SessionOK
      /\ \A c \in Calls \ {s} : ~Renames(c)
    BY DEF IInv, TypeOK, Renaming, RenamingOK, Renames
<1>2. call' = [call EXCEPT ![s] = y]
    OBVIOUS
<1>3. /\ y \in Call /\ y.reply = r /\ y.pc = call[s].pc /\ y.gen = call[s].gen
      /\ y.chunks = call[s].chunks /\ y.data = call[s].data
      /\ y.expected = call[s].expected /\ y.lone = call[s].lone
    BY <1>1, Types, WithReply
<1>4. UNCHANGED <<reading, queue, session, opened, known, base, made>>
    BY DEF sessionVars
<1>5. answers' = Append(answers, s) /\ renaming' = None
      /\ (r.is = "failed" \/ (r.is = "written" /\ r.etag = call[s].data))
    OBVIOUS
<1> HIDE DEF y
<1>6. /\ call'[s] = y /\ call' \in [Calls -> Call]
      /\ \A c \in Calls \ {s} : call'[c] = call[c]
    BY <1>1, <1>2, <1>3, OneCall
<1>7. ~In(queue, s) /\ ~In(answers, s)
    BY <1>1 DEF QueueOK, AnswersOK
<1>8. /\ answers' \in Seq(Calls) /\ Once(answers')
      /\ \A c \in Calls : In(answers', c) <=> In(answers, c) \/ c = s
    BY <1>1, <1>5, <1>7, Types, AppendIn DEF AnswersOK
<1>9. TypeOK'
    BY <1>1, <1>4, <1>5, <1>6, <1>8 DEF TypeOK
<1>10. SessionOK' /\ RenamingOK'
    BY <1>1, <1>4, <1>5 DEF SessionOK, RenamingOK, Held
<1>11. QueueOK' /\ AnswersOK' /\ NoCallForgotten'
    <2>1. InFlight(s)' /\ call'[s].reply.is # "none"
        BY <1>1, <1>3, <1>5, <1>6 DEF InFlight
    <2>2. \A c \in Calls \ {s} : Renames(c)' <=> Renames(c)
        BY <1>1, <1>5 DEF Renames
    <2> QED BY <1>1, <1>4, <1>6, <1>7, <1>8, <2>1, <2>2, PortKept DEF QueueOK
<1>12. \A c \in Calls : GenOK(c)'
    <2>1. \A d \in Calls : \/ call'[d].pc = "idle"
                            \/ /\ call'[d].gen = call[d].gen /\ call[d].pc # "idle"
                               /\ call'[d].pc \in {"read", "load"} => call[d].pc \in {"read", "load"}
        BY <1>1, <1>3, <1>6
    <2> QED BY <1>4, <2>1, GenKept
<1>13. \A c \in Calls \ {s} : ReadOK(c)' /\ LoadOK(c)' /\ WriteOK(c)'
    BY <1>1, <1>2, <1>3, <1>4, OthersKept
<1>14. ReadOK(s)' /\ LoadOK(s)' /\ WriteOK(s)'
    <2>1. WriteOK(s)
        BY <1>1 DEF CallsOK
    <2> QED BY <1>1, <1>3, <1>4, <1>5, <1>6, <2>1 DEF ReadOK, LoadOK, WriteOK, Held
<1> QED BY <1>9, <1>10, <1>11, <1>12, <1>13, <1>14 DEF IInv, CallsOK

LEMMA RenamePreserves ==
    ASSUME IInv, Rename
    PROVE  IInv'
<1>1. PICK s \in Calls : s = renaming.for
    BY DEF Rename, IInv, TypeOK, Renaming
<1> DEFINE d == call[s].data
           done == [NoReply EXCEPT !.is = "written", !.etag = d]
<1>2. /\ Renames(s) /\ \E r \in {done, Failed} : call' = [call EXCEPT ![s].reply = r]
      /\ answers' = Append(answers, s) /\ renaming' = None /\ file' = d
      /\ UNCHANGED <<reading, queue, sessionVars>>
    BY <1>1 DEF Rename, Renames
<1>3. d \in Contents \cup {None}
    BY Types, CallType
<1>4. done \in Reply /\ done.is = "written" /\ done.etag = d
    <2> HIDE DEF d
    <2> QED BY <1>3, IdleIsCall DEF Reply
<1>5. Failed \in Reply /\ Failed.is = "failed"
    BY IdleIsCall
<1> HIDE DEF done
<1>6. PICK r \in {done, Failed} : call' = [call EXCEPT ![s].reply = r]
    BY <1>2
<1>7. r \in Reply /\ (r.is = "failed" \/ (r.is = "written" /\ r.etag = d))
    BY <1>4, <1>5
<1> QED BY <1>2, <1>3, <1>6, <1>7, RenamedPreserves

LEMMA WriteFailsPreserves ==
    ASSUME IInv, WriteFails
    PROVE  IInv'
<1>1. PICK s \in Calls : s = renaming.for
    BY DEF WriteFails, IInv, TypeOK, Renaming
<1>2. Failed \in Reply /\ Failed.is = "failed"
    BY IdleIsCall
<1>3. /\ Renames(s) /\ call' = [call EXCEPT ![s].reply = Failed]
      /\ answers' = Append(answers, s) /\ renaming' = None
      /\ UNCHANGED <<reading, queue, sessionVars>>
      /\ file' \in Contents \cup {None}
    BY <1>1 DEF WriteFails, Renames, IInv, TypeOK
<1> QED BY <1>2, <1>3, RenamedPreserves

-----------------------------------------------------------------------------
(* The environment.                                                        *)

LEMMA OtherWritesPreserves ==
    ASSUME IInv, OtherWrites
    PROVE  IInv'
<1>1. /\ file' \in Contents \cup {None}
      /\ renaming' = IF renaming = None THEN None ELSE [renaming EXCEPT !.overtaken = TRUE]
      /\ UNCHANGED <<reading, queue, answers, call, session, opened, known, base, made>>
    BY DEF OtherWrites, port, sessionVars, Contents
<1>2. /\ TypeOK /\ CallsOK /\ SessionOK /\ RenamingOK /\ QueueOK /\ AnswersOK
      /\ NoCallForgotten
    BY DEF IInv
<1>3. ASSUME renaming # None
      PROVE  /\ renaming' \in Renaming /\ renaming' # None
             /\ renaming'.for = renaming.for /\ renaming'.overtaken
    <2>1. renaming \in Renaming
        BY <1>2, <1>3 DEF TypeOK
    <2>2. renaming' \in Renaming /\ renaming'.for = renaming.for /\ renaming'.overtaken
        BY <1>1, <1>3, <2>1 DEF Renaming
    <2> QED BY <2>2, Types
<1>4. renaming = None => renaming' = None
    BY <1>1
<1>5. TypeOK'
    BY <1>1, <1>2, <1>3, <1>4 DEF TypeOK
<1>6. CallsOK' /\ SessionOK'
    BY <1>1, <1>2 DEF CallsOK, ReadOK, LoadOK, WriteOK, GenOK, SessionOK, Held
<1>7. RenamingOK'
    BY <1>1, <1>2, <1>3, <1>4 DEF RenamingOK
<1>8. \A c \in Calls : Renames(c)' <=> Renames(c)
    BY <1>3, <1>4 DEF Renames
<1>9. QueueOK' /\ AnswersOK' /\ NoCallForgotten'
    BY <1>1, <1>2, <1>8 DEF QueueOK, AnswersOK, NoCallForgotten, InFlight, Renames
<1> QED BY <1>5, <1>6, <1>7, <1>9 DEF IInv

LEMMA LockPreserves ==
    ASSUME IInv, Lock
    PROVE  IInv'
<1>1. /\ session' = 0
      /\ UNCHANGED <<file, reading, renaming, queue, answers, call, opened, known, base, made>>
    BY DEF Lock, hostVars, port
<1>2. /\ TypeOK /\ CallsOK /\ RenamingOK /\ QueueOK /\ AnswersOK /\ NoCallForgotten
    BY DEF IInv
<1>3. \A c \in Calls : ReadOK(c)' /\ LoadOK(c)' /\ WriteOK(c)'
    BY <1>1, <1>2 DEF CallsOK, ReadOK, LoadOK, WriteOK, Held
<1>4. \A c \in Calls : GenOK(c)'
    BY <1>1, GenKept
<1>5. TypeOK' /\ SessionOK' /\ RenamingOK'
    BY <1>1, <1>2, HostAssumption DEF TypeOK, SessionOK, RenamingOK, Held, Mine
<1>6. QueueOK' /\ AnswersOK' /\ NoCallForgotten'
    BY <1>1, <1>2 DEF QueueOK, AnswersOK, NoCallForgotten, InFlight, Renames
<1> QED BY <1>3, <1>4, <1>5, <1>6 DEF IInv, CallsOK

LEMMA DisconnectPreserves ==
    ASSUME IInv, Disconnect
    PROVE  IInv'
<1>1. /\ call' = [s \in Calls |-> IF InFlight(s) THEN Idle ELSE call[s]]
      /\ queue' = <<>> /\ answers' = <<>> /\ reading' = None /\ renaming' = None
      /\ UNCHANGED <<file, session, opened, known, base, made>>
    BY DEF Disconnect, sessionVars
<1>2. /\ TypeOK /\ CallsOK /\ SessionOK
      /\ \A c \in Calls : call[c] \in Call /\ call[c].pc \in {"idle", "read", "load", "save", "write"}
    BY Types DEF IInv
<1>3. \A c \in Calls : \/ call'[c] = Idle /\ call'[c].pc = "idle"
                       \/ call'[c] = call[c] /\ call[c].pc \in {"idle", "load", "save"}
    BY <1>1, <1>2, IdleIsCall DEF InFlight
<1>4. call' \in [Calls -> Call]
    BY <1>1, <1>2, IdleIsCall
<1>5. TypeOK'
    BY <1>1, <1>2, <1>4 DEF TypeOK
<1>6. \A c \in Calls : ReadOK(c)' /\ LoadOK(c)' /\ WriteOK(c)'
    BY <1>1, <1>2, <1>3 DEF CallsOK, ReadOK, LoadOK, WriteOK, Held
<1>7. \A c \in Calls : GenOK(c)'
    BY <1>1, <1>3, GenKept
<1>8. SessionOK' /\ RenamingOK'
    BY <1>1, <1>2 DEF SessionOK, RenamingOK, Held
<1>9. QueueOK' /\ AnswersOK' /\ NoCallForgotten'
    BY <1>1, <1>3 DEF QueueOK, AnswersOK, NoCallForgotten, In, Once
<1> QED BY <1>5, <1>6, <1>7, <1>8, <1>9 DEF IInv, CallsOK

-----------------------------------------------------------------------------
(* The provider's steps.                                                   *)

\* A chunk lengthens what was read; unless it is the last, it is one content's.
LEMMA Joined ==
    ASSUME NEW q \in Seq(Contents), NEW v \in Contents
    PROVE  LET t == q \o <<v>>
           IN  /\ t \in Seq(Contents) /\ Len(t) = Len(q) + 1 /\ t # <<>> /\ t[Len(t)] = v
               /\ Len(q) \in Nat
               /\ AllAre(q, v) => AllAre(t, v)
<1> DEFINE t == q \o <<v>>
<1>1. /\ t \in Seq(Contents) /\ Len(t) = Len(q) + 1 /\ t # <<>> /\ t[Len(q) + 1] = v
      /\ Len(q) \in Nat /\ \A i \in 1..Len(q) : t[i] = q[i]
    OBVIOUS
<1> HIDE DEF t
<1>2. AllAre(q, v) => AllAre(t, v)
    BY <1>1 DEF AllAre
<1> QED BY <1>1, <1>2 DEF t

\* The provider's reply to a read, as it arrives.
LEMMA ChunkRead ==
    ASSUME IInv, NEW s \in Calls, call[s].pc = "read", call[s].reply.is = "chunk"
    PROVE  /\ call[s].reply.etag \in Contents /\ call[s].chunks \in Seq(Contents)
           /\ Size[call[s].reply.etag] \in Nat \ {0} /\ Len(call[s].chunks) \in Nat
           /\ call[s].reply.part = IF Len(call[s].chunks) < Size[call[s].reply.etag]
                                   THEN <<call[s].reply.etag>> ELSE <<>>
           /\ call[s].reply.done <=> Len(call[s].chunks) + 1 >= Size[call[s].reply.etag]
           /\ Partial(call[s].chunks) /\ call[s].gen \in Sessions
           /\ call[s].lone =>
                /\ \A d \in Calls \ {s} : call[d].pc # "read"
                /\ Len(call[s].chunks) < Size[call[s].reply.etag]
                /\ AllAre(call[s].chunks, call[s].reply.etag)
                /\ ~call[s].reply.done => reading = call[s].reply.etag
<1> DEFINE r == call[s].reply
           chunks == call[s].chunks
<1>1. ReadOK(s) /\ GenOK(s)
    BY DEF IInv, CallsOK
<1>2. /\ r.etag \in Contents /\ r = ChunkAt(r.etag, Len(chunks)) /\ Partial(chunks)
      /\ call[s].lone => /\ \A d \in Calls \ {s} : call[d].pc # "read"
                         /\ Len(chunks) < Size[r.etag] /\ AllAre(chunks, r.etag)
                         /\ ~r.done => reading = r.etag
    BY <1>1 DEF ReadOK
<1>3. chunks \in Seq(Contents) /\ Len(chunks) \in Nat
    BY Types
<1>4. /\ r.done <=> Len(chunks) + 1 >= Size[r.etag]
      /\ r.part = IF Len(chunks) < Size[r.etag] THEN <<r.etag>> ELSE <<>>
    <2>1. PICK v, k : v = r.etag /\ k = Len(chunks)
        OBVIOUS
    <2>2. v \in Contents /\ k \in Nat /\ r = ChunkAt(v, k)
        BY <1>2, <1>3, <2>1
    <2>3. /\ ChunkAt(v, k).done <=> k + 1 >= Size[v]
          /\ ChunkAt(v, k).part = IF k < Size[v] THEN <<v>> ELSE <<>>
        BY <2>2, ChunkIsReply
    <2>4. /\ r.done <=> k + 1 >= Size[v]
          /\ r.part = IF k < Size[v] THEN <<v>> ELSE <<>>
        <3> HIDE DEF r
        <3> QED BY <2>2, <2>3
    <2> HIDE DEF r, chunks
    <2> QED BY <2>1, <2>4
<1>5. Size[r.etag] \in Nat \ {0} /\ call[s].gen \in Sessions
    BY <1>1, <1>2, HostAssumption DEF GenOK
<1> QED BY <1>2, <1>3, <1>4, <1>5

LEMMA MoreChunksPreserves ==
    ASSUME IInv, NEW s \in Calls, MoreChunks(s)
    PROVE  IInv'
<1> DEFINE v == call[s].reply.etag
           q == call[s].chunks
           t == q \o <<v>>
           y == [call[s] EXCEPT !.chunks = t, !.reply = NoReply]
<1>1. /\ answers # <<>> /\ s = Head(answers) /\ call[s].pc = "read"
      /\ call[s].reply.is = "chunk" /\ ~call[s].reply.done
      /\ call' = [call EXCEPT ![s].chunks = @ \o call[s].reply.part, ![s].reply = NoReply]
      /\ queue' = Append(queue, s) /\ answers' = Tail(answers)
      /\ UNCHANGED <<file, reading, renaming, sessionVars>>
    BY DEF MoreChunks, hostVars
<1>2. /\ v \in Contents /\ q \in Seq(Contents) /\ Size[v] \in Nat /\ Len(q) \in Nat
      /\ Len(q) + 1 < Size[v] /\ call[s].reply.part = <<v>>
      /\ call[s].lone => /\ \A d \in Calls \ {s} : call[d].pc # "read"
                         /\ AllAre(q, v) /\ reading = v
    <2> DEFINE done == call[s].reply.done
    <2>1. /\ v \in Contents /\ q \in Seq(Contents) /\ Size[v] \in Nat \ {0} /\ Len(q) \in Nat
          /\ call[s].reply.part = IF Len(q) < Size[v] THEN <<v>> ELSE <<>>
          /\ done <=> Len(q) + 1 >= Size[v]
        BY <1>1, ChunkRead
    <2>2. call[s].lone => /\ \A d \in Calls \ {s} : call[d].pc # "read"
                          /\ AllAre(q, v) /\ (~done => reading = v)
        BY <1>1, ChunkRead
    <2>3. ~done
        BY <1>1
    <2> HIDE DEF v, q, done
    <2>4. Len(q) + 1 < Size[v]
        BY <2>1, <2>3
    <2> QED BY <2>1, <2>2, <2>3, <2>4
<1>3. call' = [call EXCEPT ![s] = y]
    BY <1>1, <1>2
<1> HIDE DEF v, q
<1>4. /\ t \in Seq(Contents) /\ Len(t) = Len(q) + 1 /\ t # <<>> /\ t[Len(t)] = v
      /\ AllAre(q, v) => AllAre(t, v)
    BY <1>2, Joined
<1> HIDE DEF t
<1>5. /\ y \in Call /\ y.chunks = t /\ y.reply = NoReply /\ y.pc = call[s].pc
      /\ y.gen = call[s].gen /\ y.lone = call[s].lone
    <2>1. call[s] \in Call /\ NoReply \in Reply
        BY Types, IdleIsCall
    <2> QED BY <1>4, <2>1 DEF Call
<1> HIDE DEF y
<1>6. call'[s] = y /\ \A c \in Calls \ {s} : call'[c] = call[c]
    BY <1>3, <1>5, OneCall
<1>7. /\ ~In(queue, s) /\ ~Renames(s)
      /\ answers' \in Seq(Calls) /\ Once(answers')
      /\ \A c \in Calls : In(answers', c) <=> In(answers, c) /\ c # s
    BY <1>1, Replied
<1>8. /\ queue' \in Seq(Calls) /\ Once(queue')
      /\ \A c \in Calls : In(queue', c) <=> In(queue, c) \/ c = s
    BY <1>1, <1>7, Types, AppendIn DEF IInv, QueueOK
<1>9. TypeOK' /\ SessionOK' /\ RenamingOK'
    <2>1. reading' \in Contents \cup {None} /\ (renaming = None \/ renaming.for # s)
        BY <1>1, <1>7, Types DEF TypeOK, Renames
    <2> QED BY <1>1, <1>3, <1>5, <1>7, <1>8, <2>1, TypesStay, RestKept
<1>10. QueueOK' /\ AnswersOK' /\ NoCallForgotten'
    <2>1. InFlight(s)' /\ call'[s].reply.is = "none"
        BY <1>1, <1>5, <1>6, IdleIsCall DEF InFlight
    <2>2. \A c \in Calls : Renames(c)' <=> Renames(c)
        BY <1>1 DEF Renames
    <2> QED BY <1>6, <1>7, <1>8, <2>1, <2>2, PortKept
<1>11. \A c \in Calls : GenOK(c)'
    <2>1. \A d \in Calls : \/ call'[d].pc = "idle"
                            \/ /\ call'[d].gen = call[d].gen /\ call[d].pc # "idle"
                               /\ call'[d].pc \in {"read", "load"} => call[d].pc \in {"read", "load"}
        BY <1>1, <1>5, <1>6
    <2>2. session' = session /\ opened' = opened
        BY <1>1 DEF sessionVars
    <2> QED BY <2>1, <2>2, GenKept
<1>12. \A c \in Calls \ {s} : ReadOK(c)' /\ LoadOK(c)' /\ WriteOK(c)'
    BY <1>1, <1>3, <1>5, OthersKept DEF sessionVars
<1>13. ReadOK(s)'
    <2>1. Partial(call'[s].chunks)
        BY <1>2, <1>4, <1>5, <1>6 DEF Partial
    <2>2. call'[s].lone => \A d \in Calls \ {s} : call'[d].pc # "read"
        BY <1>2, <1>5, <1>6
    <2>3. call'[s].lone => reading' = v /\ Len(call'[s].chunks) < Size[v] /\ AllAre(call'[s].chunks, v)
        BY <1>1, <1>2, <1>4, <1>5, <1>6
    <2>4. call'[s].reply.is = "none"
        BY <1>5, <1>6, IdleIsCall
    <2> QED BY <1>2, <2>1, <2>2, <2>3, <2>4 DEF ReadOK
<1>14. LoadOK(s)' /\ WriteOK(s)'
    BY <1>1, <1>5, <1>6 DEF LoadOK, WriteOK
<1> QED BY <1>9, <1>10, <1>11, <1>12, <1>13, <1>14 DEF IInv, CallsOK

\* The last chunk: a whole content, if anything, of the tag the provider keeps.
LEMMA LastChunkWhole ==
    ASSUME IInv, NEW s \in Calls, call[s].pc = "read", call[s].reply.is = "chunk",
           call[s].reply.done
    PROVE  LET t == call[s].chunks \o call[s].reply.part
           IN  /\ t \in Seq(Contents)
               /\ \A w \in Contents : Whole(t, w) => w = call[s].reply.etag
               /\ call[s].lone => Whole(t, call[s].reply.etag)
<1> DEFINE v == call[s].reply.etag
           q == call[s].chunks
           p == call[s].reply.part
           t == q \o p
<1>1. /\ v \in Contents /\ q \in Seq(Contents) /\ Size[v] \in Nat \ {0} /\ Len(q) \in Nat
      /\ p = IF Len(q) < Size[v] THEN <<v>> ELSE <<>>
      /\ Len(q) + 1 >= Size[v] /\ Partial(q)
      /\ call[s].lone => Len(q) < Size[v] /\ AllAre(q, v)
    BY ChunkRead
<1>2. \A w \in Contents : Size[w] \in Nat \ {0}
    BY HostAssumption
<1> HIDE DEF v, q, p
<1>3. CASE Len(q) < Size[v]
    <2>1. p = <<v>>
        BY <1>1, <1>3
    <2>2. /\ t \in Seq(Contents) /\ Len(t) = Len(q) + 1 /\ t # <<>> /\ t[Len(t)] = v
          /\ AllAre(q, v) => AllAre(t, v)
        BY <1>1, <2>1, Joined
    <2> HIDE DEF t
    <2>3. ASSUME NEW w \in Contents, Whole(t, w) PROVE w = v
        <3>1. t = [i \in 1..Size[w] |-> w]
            BY <2>3 DEF Whole
        <3>2. Len(t) \in 1..Size[w]
            BY <1>1, <1>2, <2>2, <3>1
        <3> QED BY <2>2, <3>1, <3>2
    <2>4. ASSUME call[s].lone PROVE Whole(t, v)
        <3>1. AllAre(t, v) /\ Len(t) = Size[v]
            BY <1>1, <1>3, <2>2, <2>4
        <3>2. t = [i \in 1..Len(t) |-> t[i]]
            BY <2>2
        <3> QED BY <3>1, <3>2 DEF AllAre, Whole
    <2> QED BY <2>2, <2>3, <2>4 DEF v, q, p, t
<1>4. CASE Len(q) >= Size[v]
    <2>1. p = <<>> /\ t = q /\ q # <<>> /\ Len(q) < Size[q[Len(q)]] /\ ~call[s].lone
        BY <1>1, <1>4 DEF Partial
    <2>2. ASSUME NEW w \in Contents, Whole(q, w) PROVE FALSE
        <3>1. q = [i \in 1..Size[w] |-> w]
            BY <2>2 DEF Whole
        <3>2. Len(q) = Size[w]
            BY <1>1, <1>2, <3>1
        <3>3. q[Len(q)] = w
            BY <1>2, <3>1, <3>2
        <3> QED BY <1>1, <2>1, <3>2, <3>3
    <2> HIDE DEF t
    <2> QED BY <1>1, <2>1, <2>2 DEF v, q, p, t
<1> QED BY <1>1, <1>3, <1>4

\* A step of s that is not the renamed write keeps the write under way.
LEMMA RenamingKept ==
    ASSUME IInv, NEW s \in Calls, NEW y \in Call, call' = [call EXCEPT ![s] = y], ~Renames(s),
           \A g \in Sessions : Held(g) \subseteq Held(g)' \/ (call[s].pc = "load" /\ g = call[s].gen),
           UNCHANGED <<file, renaming>>
    PROVE  RenamingOK' /\ (renaming # None => call'[renaming.for].pc = "write")
<1>1. CASE renaming = None
    BY <1>1 DEF RenamingOK
<1>2. CASE renaming # None
    <2>1. PICK d \in Calls : d = renaming.for /\ d # s
        BY <1>2 DEF IInv, TypeOK, Renaming, Renames
    <2>2. call[d].pc = "write" /\ call'[d] = call[d] /\ GenOK(d) /\ RenamingOK
        BY <1>2, <2>1, OneCall DEF IInv, TypeOK, CallsOK
    <2>3. call[d].gen \in Sessions
        BY <2>2 DEF GenOK
    <2>4. call[s].pc = "load" => call[d].gen # call[s].gen
        BY <2>1, <2>2 DEF IInv, CallsOK, GenOK
    <2> QED BY <1>2, <2>1, <2>2, <2>3, <2>4 DEF RenamingOK, Mine
<1> QED BY <1>1, <1>2

LEMMA LastChunkPreserves ==
    ASSUME IInv, NEW s \in Calls, LastChunk(s)
    PROVE  IInv'
<1> DEFINE v == call[s].reply.etag
           g == call[s].gen
           t == call[s].chunks \o call[s].reply.part
           y == [call[s] EXCEPT !.chunks = t, !.pc = "load"]
<1>1. /\ answers # <<>> /\ s = Head(answers) /\ call[s].pc = "read"
      /\ call[s].reply.is = "chunk" /\ call[s].reply.done
      /\ call' = [call EXCEPT ![s] = y] /\ known' = [known EXCEPT ![g] = v]
      /\ answers' = Tail(answers)
      /\ UNCHANGED <<file, reading, renaming, queue, session, opened, base, made>>
    BY DEF LastChunk, hostVars, Mine
<1>2. /\ t \in Seq(Contents) /\ \A w \in Contents : Whole(t, w) => w = v
      /\ call[s].lone => Whole(t, v)
      /\ v \in Contents
    BY <1>1, LastChunkWhole, ChunkRead
<1> HIDE DEF t
<1>3. y \in Call /\ y.chunks = t /\ y.pc = "load" /\ y.gen = g /\ y.lone = call[s].lone
    <2>1. call[s] \in Call
        BY Types
    <2> QED BY <1>2, <2>1 DEF Call
<1> HIDE DEF v, y
<1>4. call'[s] = y /\ call' \in [Calls -> Call] /\ \A c \in Calls \ {s} : call'[c] = call[c]
    BY <1>1, <1>3, OneCall
<1>5. TypeOK /\ SessionOK /\ GenOK(s)
    BY DEF IInv, CallsOK
<1>6. g \in Sessions /\ session # g /\ opened \in 0..MaxSessions
    BY <1>1, <1>5 DEF GenOK, TypeOK
<1>7. /\ known'[g] = v /\ known' \in [Sessions -> Contents \cup {None}]
      /\ \A h \in Sessions \ {g} : known'[h] = known[h]
    BY <1>1, <1>2, <1>5, <1>6 DEF TypeOK
<1> HIDE DEF g
<1>8. /\ ~In(queue, s) /\ ~Renames(s)
      /\ answers' \in Seq(Calls) /\ Once(answers')
      /\ \A c \in Calls : In(answers', c) <=> In(answers, c) /\ c # s
    BY <1>1, Replied
<1>9. RenamingOK' /\ (renaming # None => call'[renaming.for].pc = "write")
    <2>1. \A h \in Sessions : Held(h) \subseteq Held(h)'
        BY <1>1 DEF Held
    <2> QED BY <1>1, <1>3, <1>8, <2>1, RenamingKept
<1>10. TypeOK'
    BY <1>1, <1>4, <1>5, <1>7, <1>8, <1>9 DEF TypeOK
<1>11. SessionOK'
    <2>1. session # 0 => session \in Sessions \ {g}
        BY <1>5, <1>6, HostAssumption DEF TypeOK, Sessions
    <2> QED BY <1>1, <1>5, <1>7, <2>1 DEF SessionOK, Held
<1>12. QueueOK' /\ AnswersOK' /\ NoCallForgotten'
    <2>1. ~InFlight(s)'
        BY <1>3, <1>4 DEF InFlight
    <2>2. \A c \in Calls : Renames(c)' <=> Renames(c)
        BY <1>1 DEF Renames
    <2>3. Once(queue')
        BY <1>1 DEF IInv, QueueOK
    <2> QED BY <1>1, <1>4, <1>8, <2>1, <2>2, <2>3, PortKept
<1>13. \A c \in Calls : GenOK(c)'
    <2>1. \A d \in Calls : \/ call'[d].pc = "idle"
                            \/ /\ call'[d].gen = call[d].gen /\ call[d].pc # "idle"
                               /\ call'[d].pc \in {"read", "load"} => call[d].pc \in {"read", "load"}
        BY <1>1, <1>3, <1>4 DEF g
    <2> QED BY <1>1, <2>1, GenKept
<1>14. \A c \in Calls \ {s} : ReadOK(c)' /\ LoadOK(c)' /\ WriteOK(c)'
    BY <1>1, <1>3, <1>7, OthersKept DEF g
<1>15. ReadOK(s)' /\ LoadOK(s)' /\ WriteOK(s)'
    <2>1. \A w \in Contents : Whole(call'[s].chunks, w) => known'[call'[s].gen] = w
        BY <1>2, <1>3, <1>4, <1>7
    <2>2. call'[s].lone => \E w \in Contents : Whole(call'[s].chunks, w)
        BY <1>2, <1>3, <1>4
    <2> QED BY <1>3, <1>4, <2>1, <2>2 DEF ReadOK, LoadOK, WriteOK
<1> QED BY <1>9, <1>10, <1>11, <1>12, <1>13, <1>14, <1>15 DEF IInv, CallsOK

\* A call that ends has no request and no reply left.
LEMMA Ended ==
    ASSUME IInv, NEW s \in Calls, call[s].pc # "idle", call' = [call EXCEPT ![s] = Idle],
           UNCHANGED <<reading, queue, renaming, opened, made>>, ~In(queue, s), ~Renames(s),
           session' = session \/ (call[s].pc = "load" /\ session' = call[s].gen),
           Once(answers'), \A c \in Calls : In(answers', c) <=> In(answers, c) /\ c # s,
           \A g \in Sessions \ {call[s].gen} : known'[g] = known[g] /\ base'[g] = base[g],
           base' = base \/ call[s].pc = "load",
           known' = known \/ known'[call[s].gen] \in made[call[s].gen]
    PROVE  /\ call' \in [Calls -> Call] /\ CallsOK'
           /\ QueueOK' /\ AnswersOK' /\ NoCallForgotten'
<1>1. /\ Idle \in Call /\ Idle.pc = "idle" /\ call'[s] = Idle /\ call' \in [Calls -> Call]
      /\ \A c \in Calls \ {s} : call'[c] = call[c]
    BY IdleIsCall, OneCall
<1>2. QueueOK' /\ AnswersOK' /\ NoCallForgotten'
    <2>1. ~InFlight(s)' /\ Once(queue')
        BY <1>1 DEF InFlight, IInv, QueueOK
    <2>2. \A c \in Calls : Renames(c)' <=> Renames(c)
        BY DEF Renames
    <2> QED BY <1>1, <2>1, <2>2, PortKept
<1>3. \A c \in Calls : GenOK(c)'
    <2>1. \A d \in Calls : \/ call'[d].pc = "idle"
                            \/ /\ call'[d].gen = call[d].gen /\ call[d].pc # "idle"
                               /\ call'[d].pc \in {"read", "load"} => call[d].pc \in {"read", "load"}
        BY <1>1
    <2> QED BY <1>1, <2>1, GenKept
<1>4. \A c \in Calls \ {s} : ReadOK(c)' /\ LoadOK(c)' /\ WriteOK(c)'
    BY <1>1, OthersKept
<1>5. ReadOK(s)' /\ LoadOK(s)' /\ WriteOK(s)'
    BY <1>1 DEF ReadOK, LoadOK, WriteOK
<1> QED BY <1>1, <1>2, <1>3, <1>4, <1>5 DEF CallsOK

LEMMA LoadPreserves ==
    ASSUME IInv, NEW s \in Calls, Load(s)
    PROVE  IInv'
<1>0. PICK g \in Sessions : g = call[s].gen
    BY DEF Load, IInv, CallsOK, GenOK
<1>1. /\ call[s].pc = "load" /\ call' = [call EXCEPT ![s] = Idle]
      /\ UNCHANGED <<file, reading, renaming, queue, answers, opened, known, made>>
      /\ \/ \E v \in Contents : /\ Whole(call[s].chunks, v) /\ session' = g
                                /\ base' = [base EXCEPT ![g] = v]
         \/ UNCHANGED <<session, base>>
    BY <1>0 DEF Load, hostVars, port, Mine
<1>2. TypeOK /\ SessionOK /\ GenOK(s) /\ LoadOK(s) /\ QueueOK /\ AnswersOK
    BY DEF IInv, CallsOK
<1>3. g \in Sessions /\ g <= opened /\ g \in 0..MaxSessions /\ g # 0
    BY <1>0, <1>1, <1>2, HostAssumption DEF GenOK, Sessions
<1>4. \A v \in Contents : Whole(call[s].chunks, v) => known[g] = v
    BY <1>0, <1>1, <1>2 DEF LoadOK
<1>5. ~In(queue, s) /\ ~In(answers, s) /\ ~Renames(s)
    BY <1>1, <1>2 DEF QueueOK, AnswersOK, InFlight, TypeOK, Renames
<1>6. /\ base' \in [Sessions -> Contents \cup {None}]
      /\ \A h \in Sessions \ {g} : base'[h] = base[h]
      /\ session' = session \/ session' = g
      /\ session' = g => known[g] \in Held(g)'
    <2>1. CASE UNCHANGED <<session, base>>
        <3>1. session = g => known[g] \in Held(g)
            BY <1>2, <1>3 DEF SessionOK
        <3> QED BY <1>1, <1>2, <2>1, <3>1 DEF TypeOK, Held
    <2>2. ASSUME NEW v \in Contents, Whole(call[s].chunks, v), session' = g,
                 base' = [base EXCEPT ![g] = v]
          PROVE  /\ base' \in [Sessions -> Contents \cup {None}]
                 /\ \A h \in Sessions \ {g} : base'[h] = base[h]
                 /\ known[g] \in Held(g)'
        <3>1. base' \in [Sessions -> Contents \cup {None}] /\ base'[g] = v
              /\ \A h \in Sessions \ {g} : base'[h] = base[h]
            BY <1>2, <1>3, <2>2 DEF TypeOK
        <3> QED BY <1>4, <2>2, <3>1 DEF Held
    <2> QED BY <1>1, <2>1, <2>2
<1>7. /\ call' \in [Calls -> Call] /\ CallsOK'
      /\ QueueOK' /\ AnswersOK' /\ NoCallForgotten'
    <2>1. Once(answers') /\ \A c \in Calls : In(answers', c) <=> In(answers, c) /\ c # s
        BY <1>1, <1>2, <1>5 DEF AnswersOK
    <2> QED BY <1>0, <1>1, <1>5, <1>6, <2>1, Ended
<1>8. RenamingOK' /\ (renaming # None => call'[renaming.for].pc = "write")
    <2>1. \A h \in Sessions : Held(h) \subseteq Held(h)' \/ (call[s].pc = "load" /\ h = call[s].gen)
        BY <1>0, <1>1, <1>6 DEF Held
    <2> QED BY <1>1, <1>5, <2>1, IdleIsCall, RenamingKept
<1>9. TypeOK'
    BY <1>1, <1>2, <1>3, <1>6, <1>7, <1>8 DEF TypeOK
<1>10. SessionOK'
    <2>1. CASE session' = g
        BY <1>1, <1>3, <1>6, <2>1 DEF SessionOK, Held
    <2>2. CASE session' = session /\ session # g
        <3>1. session # 0 => session \in Sessions \ {g}
            BY <1>2, <2>2, HostAssumption DEF TypeOK, Sessions
        <3> QED BY <1>1, <1>2, <1>6, <2>2, <3>1 DEF SessionOK, Held
    <2> QED BY <1>6, <2>1, <2>2
<1> QED BY <1>7, <1>8, <1>9, <1>10 DEF IInv

LEMMA WrittenPreserves ==
    ASSUME IInv, NEW s \in Calls, Written(s)
    PROVE  IInv'
<1> DEFINE g == call[s].gen
           v == call[s].reply.etag
<1>1. /\ answers # <<>> /\ s = Head(answers) /\ call[s].reply.is = "written"
      /\ known' = [known EXCEPT ![g] = v] /\ call' = [call EXCEPT ![s] = Idle]
      /\ answers' = Tail(answers)
      /\ UNCHANGED <<file, reading, renaming, queue, session, opened, base, made>>
    BY DEF Written, hostVars, Mine
<1>2. TypeOK /\ SessionOK /\ GenOK(s) /\ ReadOK(s) /\ WriteOK(s)
    BY DEF IInv, CallsOK
<1>3. /\ call[s].pc \in {"read", "write"} /\ ~In(queue, s) /\ ~Renames(s)
      /\ answers' \in Seq(Calls) /\ Once(answers')
      /\ \A c \in Calls : In(answers', c) <=> In(answers, c) /\ c # s
    BY <1>1, Replied
<1>4. call[s].pc = "write" /\ v \in made[g] /\ g \in Sessions
    BY <1>1, <1>2, <1>3 DEF ReadOK, WriteOK, GenOK
<1>5. v \in Contents
    BY <1>2, <1>4, Types DEF TypeOK
<1> HIDE DEF g, v
<1>6. /\ known' \in [Sessions -> Contents \cup {None}] /\ known'[g] = v
      /\ \A h \in Sessions \ {g} : known'[h] = known[h]
    BY <1>1, <1>2, <1>4, <1>5 DEF TypeOK
<1>7. /\ call' \in [Calls -> Call] /\ CallsOK'
      /\ QueueOK' /\ AnswersOK' /\ NoCallForgotten'
    <2>1. known'[g] \in made[g]
        BY <1>4, <1>6
    <2> QED BY <1>1, <1>3, <1>6, <2>1, Ended DEF g
<1>8. RenamingOK' /\ (renaming # None => call'[renaming.for].pc = "write")
    <2>1. \A h \in Sessions : Held(h) \subseteq Held(h)'
        BY <1>1 DEF Held
    <2> QED BY <1>1, <1>3, <2>1, IdleIsCall, RenamingKept
<1>9. TypeOK'
    BY <1>1, <1>2, <1>3, <1>6, <1>7, <1>8 DEF TypeOK
<1>10. SessionOK'
    <2>1. session # 0 => session \in Sessions
        BY <1>2, HostAssumption DEF TypeOK, Sessions
    <2> QED BY <1>1, <1>2, <1>4, <1>6, <2>1 DEF SessionOK, Held
<1> QED BY <1>7, <1>8, <1>9, <1>10 DEF IInv

LEMMA RefusedPreserves ==
    ASSUME IInv, NEW s \in Calls, Refused(s)
    PROVE  IInv'
<1>1. /\ answers # <<>> /\ s = Head(answers) /\ call' = [call EXCEPT ![s] = Idle]
      /\ answers' = Tail(answers)
      /\ UNCHANGED <<file, reading, renaming, queue, session, opened, known, base, made>>
    BY DEF Refused, hostVars, sessionVars
<1>2. /\ call[s].pc \in {"read", "write"} /\ ~In(queue, s) /\ ~Renames(s)
      /\ answers' \in Seq(Calls) /\ Once(answers')
      /\ \A c \in Calls : In(answers', c) <=> In(answers, c) /\ c # s
    BY <1>1, Replied
<1>3. TypeOK /\ SessionOK
    BY DEF IInv
<1>4. /\ call' \in [Calls -> Call] /\ CallsOK'
      /\ QueueOK' /\ AnswersOK' /\ NoCallForgotten'
    BY <1>1, <1>2, Ended
<1>5. RenamingOK' /\ (renaming # None => call'[renaming.for].pc = "write")
    <2>1. \A h \in Sessions : Held(h) \subseteq Held(h)'
        BY <1>1 DEF Held
    <2> QED BY <1>1, <1>2, <2>1, IdleIsCall, RenamingKept
<1>6. TypeOK' /\ SessionOK'
    BY <1>1, <1>2, <1>3, <1>4, <1>5 DEF TypeOK, SessionOK, Held
<1> QED BY <1>4, <1>5, <1>6 DEF IInv

LEMMA PersistPreserves ==
    ASSUME IInv, NEW s \in Calls, Persist(s)
    PROVE  IInv'
<1> DEFINE y == [Idle EXCEPT !.pc = "save", !.gen = session]
<1>1. /\ call[s].pc = "idle" /\ session # 0 /\ call' = [call EXCEPT ![s] = y]
      /\ UNCHANGED <<file, reading, renaming, queue, answers, session, opened, known, base, made>>
    BY DEF Persist, hostVars, port, sessionVars
<1>2. TypeOK /\ SessionOK /\ CallsOK /\ QueueOK /\ AnswersOK
    BY DEF IInv
<1>3. PICK g \in Sessions : g = session /\ g \in 0..MaxSessions /\ g <= opened /\ known[g] \in Held(g)
    BY <1>1, <1>2, HostAssumption DEF TypeOK, SessionOK, Sessions
<1>4. y \in Call /\ y.pc = "save" /\ y.gen = g
    BY <1>3, IdleIsCall DEF Call
<1> HIDE DEF y
<1>5. /\ call'[s] = y /\ call' \in [Calls -> Call]
      /\ \A c \in Calls \ {s} : call'[c] = call[c] /\ Same(c)
    BY <1>1, <1>4, OneCall
<1>6. ~In(queue, s) /\ ~In(answers, s) /\ ~Renames(s)
    BY <1>1, <1>2 DEF QueueOK, AnswersOK, InFlight, TypeOK, Renames
<1>7. QueueOK' /\ AnswersOK' /\ NoCallForgotten'
    <2>1. ~InFlight(s)'
        BY <1>4, <1>5 DEF InFlight
    <2>2. \A c \in Calls : Renames(c)' <=> Renames(c)
        BY <1>1 DEF Renames
    <2>3. Once(queue') /\ Once(answers')
        BY <1>1, <1>2 DEF QueueOK, AnswersOK
    <2> QED BY <1>1, <1>5, <1>6, <2>1, <2>2, <2>3, PortKept
<1>8. RenamingOK' /\ (renaming # None => call'[renaming.for].pc = "write")
    <2>1. \A h \in Sessions : Held(h) \subseteq Held(h)'
        BY <1>1 DEF Held
    <2> QED BY <1>1, <1>4, <1>6, <2>1, RenamingKept
<1>9. TypeOK' /\ SessionOK'
    BY <1>1, <1>2, <1>5, <1>8 DEF TypeOK, SessionOK, Held
<1>10. ASSUME NEW c \in Calls \ {s} PROVE (ReadOK(c) /\ LoadOK(c) /\ WriteOK(c) /\ GenOK(c))'
    <2>1. ReadOK(c) /\ GenOK(c) /\ call'[c] = call[c] /\ Same(c)
        BY <1>2, <1>5 DEF CallsOK
    <2>2. ASSUME call[c].pc = "read", call'[c].lone
          PROVE  reading' = reading /\ \A e \in Calls \ {c} : call'[e].pc # "read"
        <3>1. \A e \in Calls \ {c} : call[e].pc # "read"
            BY <2>1, <2>2 DEF ReadOK
        <3> QED BY <1>1, <1>4, <1>5, <3>1
    <2>3. (ReadOK(c) /\ LoadOK(c) /\ WriteOK(c))'
        BY <1>1, <2>1, <2>2, CallKept
    <2>4. GenOK(c)'
        BY <1>1, <1>3, <1>4, <1>5, <2>1 DEF GenOK
    <2> QED BY <2>3, <2>4
<1>11. (ReadOK(s) /\ LoadOK(s) /\ WriteOK(s) /\ GenOK(s))'
    <2>1. known'[g] \in Held(g)'
        BY <1>1, <1>3 DEF Held
    <2> QED BY <1>1, <1>3, <1>4, <1>5, <2>1 DEF ReadOK, LoadOK, WriteOK, GenOK
<1> QED BY <1>7, <1>8, <1>9, <1>10, <1>11 DEF IInv, CallsOK

LEMMA WritePreserves ==
    ASSUME IInv, NEW s \in Calls, Write(s)
    PROVE  IInv'
<1>1. PICK g \in Sessions : g = call[s].gen /\ g \in 0..MaxSessions
    BY HostAssumption DEF Write, IInv, CallsOK, GenOK, Sessions
<1>2. PICK d \in Saved :
        /\ made' = [made EXCEPT ![g] = @ \cup {d}]
        /\ call' = [call EXCEPT ![s] = [Idle EXCEPT !.pc = "write", !.gen = g,
                                                    !.data = d, !.expected = known[g]]]
    BY <1>1 DEF Write, Mine
<1> DEFINE y == [Idle EXCEPT !.pc = "write", !.gen = g, !.data = d, !.expected = known[g]]
<1>3. /\ call[s].pc = "save" /\ queue' = Append(queue, s)
      /\ UNCHANGED <<file, reading, renaming, answers, session, opened, known, base>>
    BY DEF Write, hostVars
<1>4. TypeOK /\ SessionOK /\ WriteOK(s) /\ QueueOK /\ AnswersOK
    BY DEF IInv, CallsOK
<1>5. known[g] \in Held(g) /\ known[g] \in Contents \cup {None} /\ d \in Contents
    BY <1>1, <1>3, <1>4, Types DEF TypeOK, WriteOK
<1>6. /\ y \in Call /\ y.pc = "write" /\ y.gen = g /\ y.data = d
      /\ y.expected = known[g] /\ y.reply = NoReply
    BY <1>1, <1>5, IdleIsCall DEF Call
<1>7. call' = [call EXCEPT ![s] = y]
    BY <1>2
<1> HIDE DEF y
<1>8. /\ call'[s] = y /\ call' \in [Calls -> Call] /\ \A c \in Calls \ {s} : call'[c] = call[c]
    BY <1>6, <1>7, OneCall
<1>9. /\ made' \in [Sessions -> SUBSET Saved] /\ d \in made'[g]
      /\ \A h \in Sessions : made[h] \subseteq made'[h]
    BY <1>2, <1>4 DEF TypeOK
<1>10. \A h \in Sessions : Held(h) \subseteq Held(h)'
    BY <1>3, <1>9 DEF Held
<1>11. ~In(queue, s) /\ ~In(answers, s) /\ ~Renames(s)
    BY <1>3, <1>4 DEF QueueOK, AnswersOK, InFlight, TypeOK, Renames
<1>12. /\ queue' \in Seq(Calls) /\ Once(queue') /\ Once(answers')
       /\ \A c \in Calls : In(queue', c) <=> In(queue, c) \/ c = s
    BY <1>3, <1>4, <1>11, Types, AppendIn DEF QueueOK, AnswersOK
<1>13. QueueOK' /\ AnswersOK' /\ NoCallForgotten'
    <2>1. InFlight(s)' /\ call'[s].reply.is = "none"
        BY <1>6, <1>8, IdleIsCall DEF InFlight
    <2>2. \A c \in Calls : Renames(c)' <=> Renames(c)
        BY <1>3 DEF Renames
    <2> QED BY <1>3, <1>8, <1>11, <1>12, <2>1, <2>2, PortKept
<1>14. RenamingOK' /\ (renaming # None => call'[renaming.for].pc = "write")
    BY <1>3, <1>6, <1>7, <1>10, <1>11, RenamingKept
<1>15. TypeOK'
    BY <1>3, <1>4, <1>8, <1>9, <1>12, <1>14 DEF TypeOK
<1>16. SessionOK'
    <2>1. session # 0 => session \in Sessions
        BY <1>4, HostAssumption DEF TypeOK, Sessions
    <2> QED BY <1>3, <1>4, <1>9, <2>1 DEF SessionOK, Held
<1>17. \A c \in Calls : GenOK(c)'
    <2>1. \A e \in Calls : \/ call'[e].pc = "idle"
                            \/ /\ call'[e].gen = call[e].gen /\ call[e].pc # "idle"
                               /\ call'[e].pc \in {"read", "load"} => call[e].pc \in {"read", "load"}
        BY <1>1, <1>3, <1>6, <1>8
    <2> QED BY <1>3, <2>1, GenKept
<1>18. \A c \in Calls \ {s} : ReadOK(c)' /\ LoadOK(c)' /\ WriteOK(c)'
    BY <1>3, <1>6, <1>7, <1>9, OthersKept
<1>19. (ReadOK(s) /\ LoadOK(s) /\ WriteOK(s))'
    <2>1. call'[s].expected \in Held(g)' /\ call'[s].gen = g /\ d \in made'[g]
        BY <1>5, <1>6, <1>8, <1>9, <1>10
    <2>2. call'[s].reply.is = "none" /\ call'[s].data = d
        BY <1>6, <1>8, IdleIsCall
    <2> QED BY <1>6, <1>8, <2>1, <2>2 DEF ReadOK, LoadOK, WriteOK, Held
<1> QED BY <1>13, <1>14, <1>15, <1>16, <1>17, <1>18, <1>19 DEF IInv, CallsOK

-----------------------------------------------------------------------------

LEMMA NextIInv == IInv /\ [Next]_vars => IInv'
<1> SUFFICES ASSUME IInv, [Next]_vars PROVE IInv'
    OBVIOUS
<1>1. ASSUME NEW s \in Calls, Provider(s) PROVE IInv'
    BY <1>1, StartUnlockPreserves, MoreChunksPreserves, LastChunkPreserves, LoadPreserves,
       PersistPreserves, WritePreserves, WrittenPreserves, RefusedPreserves DEF Provider
<1>2. ASSUME NEW s \in Calls, Helper(s) PROVE IInv'
    BY <1>2, ReadPreserves, ReadFailsPreserves, CheckPreserves, ConflictPreserves DEF Helper
<1>3. CASE Rename \/ WriteFails
    BY <1>3, RenamePreserves, WriteFailsPreserves
<1>4. CASE Lock \/ OtherWrites \/ Disconnect
    BY <1>4, LockPreserves, OtherWritesPreserves, DisconnectPreserves
<1>5. CASE UNCHANGED vars
    <2>1. UNCHANGED <<file, reading, renaming, queue, answers, call, session, opened, known,
                      base, made>>
        BY <1>5 DEF vars, hostVars, port, sessionVars
    <2> QED BY <2>1 DEF IInv, TypeOK, CallsOK, ReadOK, LoadOK, WriteOK, GenOK, SessionOK,
                        RenamingOK, QueueOK, AnswersOK, NoCallForgotten, Held, Mine, InFlight,
                        Renames
<1> QED BY <1>1, <1>2, <1>3, <1>4, <1>5 DEF Next

\* IInv holds of every reachable state of a provider, its port and its helper.
THEOREM Inductive == Spec => []IInv
BY InitIInv, NextIInv, PTL DEF Spec

\* Types of the port, the helper, the calls and the session.
THEOREM TypesKept == Spec => []TypeOK
<1>1. IInv => TypeOK
    BY DEF IInv
<1> QED BY <1>1, Inductive, PTL

\* The snapshot of session.rs: a read that no other read of the port overlaps
\* ends with one whole content, however often the file is replaced in between.
THEOREM LoneReadsWhole == Spec => []LoneReadWhole
<1>1. IInv => LoneReadWhole
    BY DEF IInv, CallsOK, LoadOK, LoneReadWhole
<1> QED BY <1>1, Inductive, PTL

\* The expected_etag of a write: what the rename replaces is a content the saving
\* session has loaded or saved, unless another program wrote after the check.
THEOREM SavesKeepOthers == Spec => []SaveKeepsOthers
<1>1. IInv => SaveKeepsOthers
    BY DEF IInv, RenamingOK, SaveKeepsOthers, Held
<1> QED BY <1>1, Inductive, PTL

\* lastKnownEtag of the unlocked session's provider is the tag of a content that
\* the session's tree holds, so a save never takes another's file for its own.
THEOREM KnownTagsHeld == Spec => []KnownTagHeld
<1>1. IInv => KnownTagHeld
    BY DEF IInv, SessionOK, KnownTagHeld, Held
<1> QED BY <1>1, Inductive, PTL

\* A pending request is in the port, with the helper or answered: none is lost.
THEOREM NoCallsForgotten == Spec => []NoCallForgotten
<1>1. IInv => NoCallForgotten
    BY DEF IInv
<1> QED BY <1>1, Inductive, PTL

-----------------------------------------------------------------------------
(* The promise: what else holds of calls, and which step of VaultFile each *)
(* step is.                                                                *)

\* A call that reads nothing has no chunks.
Blank(c) == call[c].pc \in {"idle", "save", "write"} => call[c].chunks = <<>>

\* The contents there have been: those of others and those that were made.
Seen == Foreign \cup {None} \cup UNION {made[g] : g \in Sessions}
Known(c) ==
    /\ \A i \in 1..Len(call[c].chunks) : call[c].chunks[i] \in Seen
    /\ call[c].reply.is = "chunk" => call[c].reply.etag \in Seen

Based(c) == call[c].pc \in {"save", "write"} => base[call[c].gen] # None

Extra ==
    /\ \A c \in Calls : Blank(c) /\ Known(c) /\ Based(c)
    /\ file \in Seen /\ reading \in Seen
    /\ \A g \in Sessions : base[g] \in Seen
    /\ session # 0 => base[session] # None

RInv == IInv /\ Extra

Mapped == [Promise!Next]_Promise!vars

-----------------------------------------------------------------------------
(* What calls carry.                                                       *)

LEMMA SameFirst ==
    ASSUME NEW c \in Calls, Same(c)
    PROVE  FirstChunk(c)' = FirstChunk(c) /\ Mine(c)' = Mine(c)
BY DEF Same, FirstChunk, Mine

LEMMA BlankFirst ==
    ASSUME NEW c \in Calls, Blank(c), call[c].pc \in {"idle", "save", "write"}
    PROVE  FirstChunk(c) = {}
BY DEF Blank, FirstChunk

LEMMA BlankFirstNext ==
    ASSUME NEW c \in Calls, Blank(c)', call'[c].pc \in {"idle", "save", "write"}
    PROVE  FirstChunk(c)' = {}
BY DEF Blank, FirstChunk

\* The element of Taken of one session.
LEMMA TakenOf ==
    ASSUME NEW g \in Sessions
    PROVE  /\ \A x : x \in Taken[g] <=> \/ x = base[g] /\ x # None
                                        \/ x \in made[g]
                                        \/ \E c \in Calls : Mine(c) = g /\ x \in FirstChunk(c)
           /\ \A x : x \in Taken'[g] <=> \/ x = base'[g] /\ x # None
                                         \/ x \in made'[g]
                                         \/ \E c \in Calls : Mine(c)' = g /\ x \in FirstChunk(c)'
BY DEF Taken

LEMMA TakenDomain ==
    /\ DOMAIN Taken = Sessions /\ DOMAIN Taken' = Sessions
    /\ Taken = [g \in Sessions |-> Taken[g]] /\ Taken' = [g \in Sessions |-> Taken'[g]]
BY DEF Taken

\* Nothing new is taken in when no call carries more.
LEMMA TakenLess ==
    ASSUME base' = base, made' = made,
           \A c \in Calls : \/ FirstChunk(c)' = {}
                            \/ Mine(c)' = Mine(c) /\ FirstChunk(c)' \subseteq FirstChunk(c)
    PROVE  \A g \in Sessions : Taken'[g] \subseteq Taken[g]
BY TakenOf

LEMMA TakenSame ==
    ASSUME base' = base, made' = made,
           \A c \in Calls : \/ FirstChunk(c)' = {} /\ FirstChunk(c) = {}
                            \/ Mine(c)' = Mine(c) /\ FirstChunk(c)' = FirstChunk(c)
    PROVE  Taken' = Taken
<1>1. ASSUME NEW g \in Sessions, NEW x PROVE x \in Taken'[g] <=> x \in Taken[g]
    <2>1. \A c \in Calls : Mine(c)' = g /\ x \in FirstChunk(c)' <=> Mine(c) = g /\ x \in FirstChunk(c)
        OBVIOUS
    <2> QED BY <2>1, TakenOf
<1>2. \A g \in Sessions : Taken'[g] = Taken[g]
    BY <1>1
<1> QED BY <1>2, TakenDomain

-----------------------------------------------------------------------------
(* What a step keeps of Extra.                                             *)

LEMMA ExtraKept ==
    ASSUME RInv, Seen \subseteq Seen',
           file' \in Seen', reading' \in Seen',
           \A g \in Sessions : base'[g] \in Seen',
           \A g \in Sessions : base[g] # None => base'[g] # None,
           session' # 0 => base'[session'] # None,
           \A c \in Calls : Same(c) \/ (Blank(c) /\ Known(c) /\ Based(c))'
    PROVE  Extra'
<1>1. ASSUME NEW c \in Calls, Same(c) PROVE (Blank(c) /\ Known(c) /\ Based(c))'
    <2>1. Blank(c) /\ Known(c) /\ Based(c) /\ GenOK(c)
        BY DEF RInv, Extra, IInv, CallsOK
    <2>2. Blank(c)' /\ Known(c)'
        BY <1>1, <2>1 DEF Blank, Known, Same
    <2>3. Based(c)'
        BY <1>1, <2>1 DEF Based, GenOK, Same
    <2> QED BY <2>2, <2>3
<1> QED BY <1>1 DEF Extra

\* A step that changes neither contents nor sessions.
LEMMA ExtraSame ==
    ASSUME RInv, UNCHANGED <<file, base, made>>, session' \in {session, 0},
           reading' \in {reading, file, None},
           \A c \in Calls : Same(c) \/ (Blank(c) /\ Known(c) /\ Based(c))'
    PROVE  Extra'
<1>1. Seen' = Seen /\ file \in Seen /\ reading \in Seen /\ None \in Seen
    BY DEF Seen, RInv, Extra
<1>2. \A g \in Sessions : base[g] \in Seen
    BY DEF RInv, Extra
<1>3. session # 0 => base[session] # None
    BY DEF RInv, Extra
<1> QED BY <1>1, <1>2, <1>3, ExtraKept

\* A call that begins or ends, with nothing read.
LEMMA IdleExtra ==
    ASSUME NEW c \in Calls, call'[c].chunks = <<>>, call'[c].reply.is # "chunk",
           call'[c].pc \in {"save", "write"} => base'[call'[c].gen] # None
    PROVE  (Blank(c) /\ Known(c) /\ Based(c))'
<1>1. Len(call'[c].chunks) = 0
    OBVIOUS
<1>2. Blank(c)' /\ Based(c)'
    BY DEF Blank, Based
<1>3. Known(c)'
    BY <1>1 DEF Known
<1> QED BY <1>2, <1>3

-----------------------------------------------------------------------------
(* Steps of the register.                                                  *)

LEMMA Shrink ==
    ASSUME file' = file, Replacing' \in {Replacing, None},
           \A g \in Sessions : Taken'[g] \subseteq Taken[g],
           \A g \in Sessions : Taken'[g] \subseteq Contents
    PROVE  Mapped
<1>1. Taken' \in [Sessions -> SUBSET Contents]
    BY TakenDomain
<1>2. Promise!Fail
    BY <1>1, TakenDomain DEF Promise!Fail, Contents
<1> QED BY <1>2 DEF Mapped, Promise!Next

LEMMA ReplacingKept ==
    ASSUME renaming' = renaming,
           renaming # None => /\ call'[renaming.for].gen = call[renaming.for].gen
                              /\ call'[renaming.for].data = call[renaming.for].data
    PROVE  Replacing' = Replacing
BY DEF Replacing, Mine

\* The call whose file is about to be renamed waits for its answer.
LEMMA RenamingCall ==
    ASSUME RInv, renaming # None
    PROVE  /\ renaming.for \in Calls /\ renaming.overtaken \in BOOLEAN
           /\ renaming = [for |-> renaming.for, overtaken |-> renaming.overtaken]
           /\ call[renaming.for].pc = "write" /\ call[renaming.for].reply.is = "none"
           /\ Mine(renaming.for) \in Sessions
BY DEF RInv, IInv, TypeOK, Renaming, RenamingOK, CallsOK, GenOK, Mine

\* What a call carries is a content.
LEMMA FirstIsContent ==
    ASSUME RInv, NEW c \in Calls
    PROVE  FirstChunk(c) \subseteq Contents /\ FirstChunk(c) \subseteq Seen
<1>1. Known(c) /\ ReadOK(c) /\ call[c] \in Call /\ call[c].chunks \in Seq(Contents)
    BY Types DEF RInv, Extra, IInv, CallsOK
<1>2. CASE call[c].chunks # <<>>
    <2>1. 1 \in 1..Len(call[c].chunks)
        BY <1>1, <1>2
    <2>2. call[c].chunks[1] \in Contents /\ call[c].chunks[1] \in Seen
        BY <1>1, <2>1 DEF Known
    <2> QED BY <1>2, <2>2 DEF FirstChunk
<1>3. CASE call[c].chunks = <<>> /\ call[c].pc = "read" /\ call[c].reply.is = "chunk"
    <2> DEFINE v == call[c].reply.etag
    <2>1. v \in Contents /\ call[c].reply = ChunkAt(v, 0) /\ v \in Seen
        BY <1>1, <1>3 DEF ReadOK, Known
    <2>2. call[c].reply.part = <<v>>
        BY <2>1, HostAssumption DEF ChunkAt
    <2> QED BY <1>3, <2>1, <2>2 DEF FirstChunk
<1> QED BY <1>2, <1>3 DEF FirstChunk

LEMMA TakenIsContent ==
    ASSUME RInv, NEW g \in Sessions
    PROVE  Taken[g] \subseteq Contents /\ Taken[g] \subseteq Seen
<1>1. base[g] \in Contents \cup {None} /\ base[g] \in Seen /\ made[g] \subseteq Saved
    BY DEF RInv, Extra, IInv, TypeOK
<1>2. made[g] \subseteq Contents /\ made[g] \subseteq Seen
    BY <1>1 DEF Contents, Seen
<1>3. \A c \in Calls : FirstChunk(c) \subseteq Contents /\ FirstChunk(c) \subseteq Seen
    BY FirstIsContent
<1> QED BY <1>1, <1>2, <1>3, TakenOf


\* A step that changes calls only, and lets none of them carry more.
LEMMA CallsStep ==
    ASSUME RInv, UNCHANGED <<file, base, made>>, session' \in {session, 0},
           reading' \in {reading, file, None}, Replacing' \in {Replacing, None},
           \A c \in Calls : \/ Same(c)
                            \/ /\ (Blank(c) /\ Known(c) /\ Based(c))'
                               /\ \/ FirstChunk(c)' = {}
                                  \/ Mine(c)' = Mine(c) /\ FirstChunk(c)' \subseteq FirstChunk(c)
    PROVE  Extra' /\ Mapped
<1>1. Extra'
    BY ExtraSame
<1>2. \A g \in Sessions : Taken'[g] \subseteq Taken[g]
    BY SameFirst, TakenLess
<1>3. \A g \in Sessions : Taken'[g] \subseteq Contents
    BY <1>2, TakenIsContent
<1> QED BY <1>1, <1>2, <1>3, Shrink

\* The same, of one call, which is not the one whose file is about to be renamed.
LEMMA OneCallStep ==
    ASSUME RInv, NEW s \in Calls, NEW y \in Call, call' = [call EXCEPT ![s] = y],
           UNCHANGED <<file, base, made, session, renaming>>,
           reading' \in {reading, file, None}, ~Renames(s),
           (Blank(s) /\ Known(s) /\ Based(s))',
           FirstChunk(s)' = {} \/ (Mine(s)' = Mine(s) /\ FirstChunk(s)' \subseteq FirstChunk(s))
    PROVE  Extra' /\ Mapped
<1>1. call'[s] = y /\ \A c \in Calls \ {s} : call'[c] = call[c] /\ Same(c)
    BY OneCall DEF RInv
<1>2. Replacing' = Replacing
    <2>1. renaming # None => renaming.for \in Calls \ {s}
        BY RenamingCall DEF Renames
    <2> QED BY <1>1, <2>1, ReplacingKept
<1> QED BY <1>1, <1>2, CallsStep

\* A call that ends.
LEMMA IdleStep ==
    ASSUME RInv, NEW s \in Calls, call' = [call EXCEPT ![s] = Idle],
           UNCHANGED <<file, reading, base, made, session, renaming>>, ~Renames(s)
    PROVE  Extra' /\ Mapped
<1>1. call'[s] = Idle
    BY IdleIsCall, OneCall DEF RInv
<1>2. FirstChunk(s)' = {}
    BY <1>1, IdleIsCall DEF FirstChunk
<1>3. (Blank(s) /\ Known(s) /\ Based(s))'
    BY <1>1, IdleIsCall, IdleExtra
<1>4. Idle \in Call
    BY IdleIsCall
<1> QED BY <1>2, <1>3, <1>4, OneCallStep

-----------------------------------------------------------------------------
(* The provider's steps.                                                   *)

LEMMA StartUnlockMaps ==
    ASSUME RInv, NEW s \in Calls, StartUnlock(s)
    PROVE  Extra' /\ Mapped
<1>1. /\ call[s].pc = "idle" /\ call' = [c \in Calls |->
                  IF c = s
                  THEN [Idle EXCEPT !.pc = "read", !.gen = opened + 1,
                                    !.lone = \A d \in Calls : call[d].pc # "read"]
                  ELSE [call[c] EXCEPT !.lone = @ /\ call[c].pc # "read"]]
      /\ UNCHANGED <<file, reading, renaming, answers, session, known, base, made>>
    BY DEF StartUnlock, hostVars
<1>2. opened + 1 \in 0..MaxSessions
    <2>1. opened \in 0..MaxSessions /\ MaxSessions \in Nat /\ opened < MaxSessions
        BY HostAssumption DEF StartUnlock, RInv, IInv, TypeOK
    <2> QED BY <2>1
<1>3. ASSUME NEW c \in Calls \ {s} PROVE Same(c)
    <2> DEFINE b == call[c].lone /\ call[c].pc # "read"
    <2>1. call[c] \in Call /\ call[c].lone \in BOOLEAN
        BY Types, CallType DEF RInv
    <2>2. call'[c] = [call[c] EXCEPT !.lone = b]
        BY <1>1
    <2>3. b \in BOOLEAN
        BY <2>1
    <2>4. b => call[c].lone
        OBVIOUS
    <2> HIDE DEF b
    <2> QED BY <2>1, <2>2, <2>3, <2>4, OverlappedCall DEF Same
<1>4. call'[s].pc = "read" /\ call'[s].chunks = <<>> /\ call'[s].reply = NoReply
    <2> DEFINE b == \A d \in Calls : call[d].pc # "read"
               g == opened + 1
               y == [Idle EXCEPT !.pc = "read", !.gen = g, !.lone = b]
    <2>1. call'[s] = y
        BY <1>1
    <2>2. b \in BOOLEAN
        OBVIOUS
    <2>3. g \in 0..MaxSessions
        BY <1>2
    <2> HIDE DEF b, g
    <2>4. y.pc = "read" /\ y.chunks = <<>> /\ y.reply = NoReply
        BY <2>2, <2>3, StartedCall
    <2> HIDE DEF y
    <2> QED BY <2>1, <2>4
<1>5. call'[s].reply.is = "none" /\ FirstChunk(s)' = {}
    BY <1>4, IdleIsCall DEF FirstChunk
<1>6. (Blank(s) /\ Known(s) /\ Based(s))'
    BY <1>4, <1>5, IdleExtra
<1>7. Replacing' = Replacing
    <2>1. renaming # None => renaming.for \in Calls \ {s}
        BY <1>1, RenamingCall
    <2> QED BY <1>1, <1>3, <2>1, ReplacingKept DEF Same
<1> QED BY <1>1, <1>3, <1>5, <1>6, <1>7, CallsStep

LEMMA PersistMaps ==
    ASSUME RInv, NEW s \in Calls, Persist(s)
    PROVE  Extra' /\ Mapped
<1> DEFINE y == [Idle EXCEPT !.pc = "save", !.gen = session]
<1>1. /\ call[s].pc = "idle" /\ session # 0 /\ call' = [call EXCEPT ![s] = y]
      /\ UNCHANGED <<file, reading, renaming, session, base, made>>
    BY DEF Persist, hostVars, sessionVars
<1>2. session \in 0..MaxSessions /\ base[session] # None
    BY <1>1 DEF RInv, Extra, IInv, TypeOK
<1>3. y \in Call /\ y.pc = "save" /\ y.gen = session /\ y.chunks = <<>> /\ y.reply = NoReply
    BY <1>2, IdleIsCall DEF Call
<1> HIDE DEF y
<1>4. ~Renames(s)
    BY <1>1, RenamingCall DEF Renames
<1>5. call'[s] = y
    BY <1>1, <1>3, OneCall DEF RInv
<1>6. FirstChunk(s)' = {}
    BY <1>3, <1>5 DEF FirstChunk
<1>7. (Blank(s) /\ Known(s) /\ Based(s))'
    BY <1>1, <1>2, <1>3, <1>5, IdleIsCall, IdleExtra
<1> QED BY <1>1, <1>3, <1>4, <1>6, <1>7, OneCallStep

LEMMA EndMaps ==
    ASSUME RInv, NEW s \in Calls, Written(s) \/ Refused(s)
    PROVE  Extra' /\ Mapped
<1>1. /\ answers # <<>> /\ s = Head(answers) /\ call' = [call EXCEPT ![s] = Idle]
      /\ UNCHANGED <<file, reading, renaming, session, base, made>>
    BY DEF Written, Refused, hostVars, sessionVars
<1>2. ~Renames(s)
    BY <1>1, Replied DEF RInv
<1> QED BY <1>1, <1>2, IdleStep

\* What a chunk makes of the chunks before it.
LEMMA JoinedFirst ==
    ASSUME RInv, NEW s \in Calls, call[s].pc = "read", call[s].reply.is = "chunk"
    PROVE  LET t == call[s].chunks \o call[s].reply.part
           IN  /\ t \in Seq(Contents) /\ t # <<>> /\ FirstChunk(s) = {t[1]}
               /\ \A i \in 1..Len(t) : t[i] \in Seen
<1> DEFINE v == call[s].reply.etag
           q == call[s].chunks
           p == call[s].reply.part
           t == q \o p
<1>1. /\ v \in Contents /\ q \in Seq(Contents) /\ Size[v] \in Nat \ {0} /\ Len(q) \in Nat
      /\ p = IF Len(q) < Size[v] THEN <<v>> ELSE <<>>
    BY ChunkRead DEF RInv
<1>2. v \in Seen /\ \A i \in 1..Len(q) : q[i] \in Seen
    BY DEF RInv, Extra, Known
<1>3. FirstChunk(s) = IF q # <<>> THEN {q[1]} ELSE {p[1]}
    BY DEF FirstChunk
<1> HIDE DEF v, q, p
<1>4. CASE p = <<v>>
    <2> DEFINE u == q \o <<v>>
    <2>0. /\ u \in Seq(Contents) /\ Len(u) = Len(q) + 1 /\ u # <<>> /\ u[Len(q) + 1] = v
          /\ \A i \in 1..Len(q) : u[i] = q[i]
        BY <1>1
    <2>1. /\ t \in Seq(Contents) /\ Len(t) = Len(q) + 1 /\ t # <<>> /\ t[Len(q) + 1] = v
          /\ \A i \in 1..Len(q) : t[i] = q[i]
        BY <1>4, <2>0
    <2>2. \A i \in 1..Len(t) : i \in 1..Len(q) \/ i = Len(q) + 1
        BY <1>1, <2>1
    <2>3. q = <<>> => t[1] = v /\ p[1] = v
        BY <1>1, <1>4, <2>1
    <2>4. q # <<>> => t[1] = q[1]
        BY <1>1, <2>1
    <2> QED BY <1>2, <1>3, <2>1, <2>2, <2>3, <2>4 DEF q, p
<1>5. CASE p = <<>>
    <2>1. q # <<>> /\ t = q
        BY <1>1, <1>5
    <2> QED BY <1>1, <1>2, <1>3, <2>1 DEF q, p
<1> QED BY <1>1, <1>4, <1>5 DEF q, p

LEMMA MoreChunksMaps ==
    ASSUME RInv, NEW s \in Calls, MoreChunks(s)
    PROVE  Extra' /\ Mapped
<1> DEFINE t == call[s].chunks \o call[s].reply.part
           y == [call[s] EXCEPT !.chunks = t, !.reply = NoReply]
<1>1. /\ answers # <<>> /\ s = Head(answers) /\ call[s].pc = "read"
      /\ call[s].reply.is = "chunk" /\ call' = [call EXCEPT ![s] = y]
      /\ UNCHANGED <<file, reading, renaming, session, base, made>>
    BY DEF MoreChunks, hostVars, sessionVars
<1>2. /\ t \in Seq(Contents) /\ t # <<>> /\ FirstChunk(s) = {t[1]}
      /\ \A i \in 1..Len(t) : t[i] \in Seen
    BY <1>1, JoinedFirst
<1> HIDE DEF t
<1>3. /\ y \in Call /\ y.chunks = t /\ y.reply = NoReply /\ y.pc = "read" /\ y.gen = call[s].gen
    BY <1>1, <1>2, Types, IdleIsCall DEF Call, RInv
<1> HIDE DEF y
<1>4. call'[s] = y /\ ~Renames(s) /\ Seen' = Seen /\ y.reply.is = "none"
    <2>1. call'[s] = y
        BY <1>1, <1>3, OneCall DEF RInv
    <2>2. ~Renames(s)
        BY <1>1, Replied DEF RInv
    <2>3. Seen' = Seen
        BY <1>1 DEF Seen
    <2> QED BY <1>3, <2>1, <2>2, <2>3, IdleIsCall
<1>5. Mine(s)' = Mine(s) /\ FirstChunk(s)' = FirstChunk(s)
    BY <1>2, <1>3, <1>4 DEF FirstChunk, Mine
<1>6. (Blank(s) /\ Known(s) /\ Based(s))'
    BY <1>2, <1>3, <1>4 DEF Blank, Known, Based
<1> QED BY <1>1, <1>3, <1>4, <1>5, <1>6, OneCallStep

LEMMA LastChunkMaps ==
    ASSUME RInv, NEW s \in Calls, LastChunk(s)
    PROVE  Extra' /\ Mapped
<1> DEFINE t == call[s].chunks \o call[s].reply.part
           y == [call[s] EXCEPT !.chunks = t, !.pc = "load"]
<1>1. /\ answers # <<>> /\ s = Head(answers) /\ call[s].pc = "read"
      /\ call[s].reply.is = "chunk" /\ call' = [call EXCEPT ![s] = y]
      /\ UNCHANGED <<file, reading, renaming, session, base, made>>
    BY DEF LastChunk, hostVars
<1>2. /\ t \in Seq(Contents) /\ t # <<>> /\ FirstChunk(s) = {t[1]}
      /\ \A i \in 1..Len(t) : t[i] \in Seen
    BY <1>1, JoinedFirst
<1> HIDE DEF t
<1>3. /\ y \in Call /\ y.chunks = t /\ y.reply = call[s].reply /\ y.pc = "load"
      /\ y.gen = call[s].gen
    BY <1>1, <1>2, Types DEF Call, RInv
<1> HIDE DEF y
<1>4. call'[s] = y /\ ~Renames(s) /\ Seen' = Seen /\ call[s].reply.etag \in Seen
    <2>1. call'[s] = y
        BY <1>1, <1>3, OneCall DEF RInv
    <2>2. ~Renames(s)
        BY <1>1, Replied DEF RInv
    <2>3. Seen' = Seen
        BY <1>1 DEF Seen
    <2>4. call[s].reply.etag \in Seen
        BY <1>1 DEF RInv, Extra, Known
    <2> QED BY <2>1, <2>2, <2>3, <2>4
<1>5. Mine(s)' = Mine(s) /\ FirstChunk(s)' = FirstChunk(s)
    BY <1>2, <1>3, <1>4 DEF FirstChunk, Mine
<1>6. (Blank(s) /\ Known(s) /\ Based(s))'
    BY <1>2, <1>3, <1>4 DEF Blank, Known, Based
<1> QED BY <1>1, <1>3, <1>4, <1>5, <1>6, OneCallStep

\* The file that opens is the content whose first chunk was taken in.
LEMMA LoadMaps ==
    ASSUME RInv, NEW s \in Calls, Load(s)
    PROVE  Extra' /\ Mapped
<1>1. PICK g \in Sessions : g = call[s].gen
    BY DEF Load, RInv, IInv, CallsOK, GenOK
<1>2. /\ call[s].pc = "load" /\ call' = [call EXCEPT ![s] = Idle]
      /\ UNCHANGED <<file, reading, renaming, made>>
      /\ \/ \E v \in Contents : /\ Whole(call[s].chunks, v) /\ session' = g
                                /\ base' = [base EXCEPT ![g] = v]
         \/ UNCHANGED <<session, base>>
    BY <1>1 DEF Load, hostVars, Mine
<1>3. ~Renames(s)
    BY <1>2, RenamingCall DEF Renames
<1>4. CASE UNCHANGED <<session, base>>
    BY <1>2, <1>3, <1>4, IdleStep
<1>5. ASSUME NEW v \in Contents, Whole(call[s].chunks, v), session' = g,
             base' = [base EXCEPT ![g] = v]
      PROVE  Extra' /\ Mapped
    <2>1. FirstChunk(s) = {v} /\ v \in Seen
        <3>1. Size[v] \in Nat \ {0} /\ call[s].chunks = [i \in 1..Size[v] |-> v]
            BY <1>5, HostAssumption DEF Whole
        <3>2. call[s].chunks # <<>> /\ call[s].chunks[1] = v
            BY <3>1
        <3> QED BY <3>2, FirstIsContent DEF FirstChunk
    <2>2. /\ call'[s] = Idle /\ \A c \in Calls \ {s} : call'[c] = call[c] /\ Same(c)
        BY <1>2, IdleIsCall, OneCall DEF RInv
    <2>3. FirstChunk(s)' = {} /\ (Blank(s) /\ Known(s) /\ Based(s))'
        BY <2>2, IdleIsCall, IdleExtra DEF FirstChunk
    <2>4. base'[g] = v /\ \A h \in Sessions \ {g} : base'[h] = base[h]
        BY <1>5 DEF RInv, IInv, TypeOK
    <2>5. Seen' = Seen /\ g # 0 /\ v # None
        BY <1>2, HostAssumption DEF Seen, Sessions
    <2>6. Extra'
        <3>1. file \in Seen /\ reading \in Seen /\ \A h \in Sessions : base[h] \in Seen
            BY DEF RInv, Extra
        <3> QED BY <1>2, <1>5, <2>1, <2>2, <2>3, <2>4, <2>5, <3>1, ExtraKept
    <2>7. ASSUME NEW h \in Sessions PROVE Taken'[h] \subseteq Taken[h]
        <3>1. \A c \in Calls \ {s} : FirstChunk(c)' = FirstChunk(c) /\ Mine(c)' = Mine(c)
            BY <2>2, SameFirst
        <3>2. h = g => v \in Taken[h]
            BY <1>1, <2>1, TakenOf DEF Mine
        <3> QED BY <1>2, <2>3, <2>4, <3>1, <3>2, TakenOf
    <2>8. Replacing' = Replacing
        <3>1. renaming # None => renaming.for \in Calls \ {s}
            BY <1>3, RenamingCall DEF Renames
        <3> QED BY <1>2, <2>2, <3>1, ReplacingKept
    <2>9. \A h \in Sessions : Taken'[h] \subseteq Contents
        BY <2>7, TakenIsContent
    <2> QED BY <1>2, <2>6, <2>7, <2>8, <2>9, Shrink
<1> QED BY <1>2, <1>4, <1>5

\* A save makes a content that no session has taken in.
LEMMA WriteMaps ==
    ASSUME RInv, NEW s \in Calls, Write(s)
    PROVE  Extra' /\ Mapped
<1>1. PICK g \in Sessions : g = call[s].gen /\ g \in 0..MaxSessions
    BY HostAssumption DEF Write, RInv, IInv, CallsOK, GenOK, Sessions
<1>2. PICK d \in Saved :
        /\ \A h \in Sessions : d \notin made[h]
        /\ made' = [made EXCEPT ![g] = @ \cup {d}]
        /\ call' = [call EXCEPT ![s] = [Idle EXCEPT !.pc = "write", !.gen = g,
                                                    !.data = d, !.expected = known[g]]]
    BY <1>1 DEF Write, Mine
<1> DEFINE y == [Idle EXCEPT !.pc = "write", !.gen = g, !.data = d, !.expected = known[g]]
<1>3. call[s].pc = "save" /\ UNCHANGED <<file, reading, renaming, session, base>>
    BY DEF Write, hostVars
<1>4. known[g] \in Contents \cup {None} /\ d \in Contents
    BY <1>1, Types DEF TypeOK, RInv
<1>5. /\ y \in Call /\ y.pc = "write" /\ y.gen = g /\ y.chunks = <<>> /\ y.reply = NoReply
    BY <1>1, <1>4, IdleIsCall DEF Call
<1>6. call' = [call EXCEPT ![s] = y]
    BY <1>2
<1> HIDE DEF y
<1>7. call'[s] = y /\ \A c \in Calls \ {s} : call'[c] = call[c] /\ Same(c)
    BY <1>5, <1>6, OneCall DEF RInv
<1>8. /\ made'[g] = made[g] \cup {d} /\ \A h \in Sessions \ {g} : made'[h] = made[h]
    BY <1>1, <1>2 DEF RInv, IInv, TypeOK
<1>9. Seen \subseteq Seen'
    BY <1>8 DEF Seen
<1>10. Extra'
    <2>1. file \in Seen /\ reading \in Seen /\ (session # 0 => base[session] # None)
          /\ \A h \in Sessions : base[h] \in Seen
        BY DEF RInv, Extra
    <2>2. base[g] # None
        BY <1>1, <1>3 DEF RInv, Extra, Based
    <2>3. (Blank(s) /\ Known(s) /\ Based(s))'
        BY <1>3, <1>5, <1>7, <2>2, IdleIsCall, IdleExtra
    <2> QED BY <1>3, <1>7, <1>9, <2>1, <2>3, ExtraKept
<1>11. d \notin Seen
    BY <1>2, HostAssumption DEF Seen, Contents
<1>12. \A h \in Sessions : d \notin Taken[h]
    BY <1>11, TakenIsContent
<1>13. FirstChunk(s) = {} /\ FirstChunk(s)' = {}
    <2>1. FirstChunk(s) = {}
        BY <1>3, BlankFirst DEF RInv, Extra
    <2>2. FirstChunk(s)' = {}
        BY <1>5, <1>7 DEF FirstChunk
    <2> QED BY <2>1, <2>2
<1>14. Taken' = [Taken EXCEPT ![g] = @ \cup {d}]
    <2>1. \A c \in Calls \ {s} : FirstChunk(c)' = FirstChunk(c) /\ Mine(c)' = Mine(c)
        BY <1>7, SameFirst
    <2>2. ASSUME NEW h \in Sessions, NEW x
          PROVE  x \in Taken'[h] <=> x \in Taken[h] \/ (h = g /\ x = d)
        BY <1>3, <1>8, <1>13, <2>1, TakenOf
    <2>3. \A h \in Sessions : Taken'[h] = IF h = g THEN Taken[h] \cup {d} ELSE Taken[h]
        BY <2>2
    <2> QED BY <2>3, TakenDomain
<1>15. Replacing' = Replacing
    <2>1. renaming # None => renaming.for \in Calls \ {s}
        BY <1>3, RenamingCall
    <2> QED BY <1>3, <1>7, <2>1, ReplacingKept
<1>16. Promise!Make(g)
    BY <1>3, <1>12, <1>14, <1>15 DEF Promise!Make
<1> QED BY <1>10, <1>16 DEF Mapped, Promise!Next

-----------------------------------------------------------------------------
(* The helper's steps.                                                     *)

\* A reply, of a call that the helper serves.
LEMMA AnsweredMaps ==
    ASSUME RInv, NEW s \in Calls, Serves(s), NEW r \in Reply, r.is # "chunk", Answer(s, r),
           UNCHANGED <<file, hostVars, sessionVars>>
    PROVE  Extra' /\ Mapped
<1> DEFINE y == [call[s] EXCEPT !.reply = r]
<1>1. /\ y \in Call /\ y.reply = r /\ y.pc = call[s].pc /\ y.gen = call[s].gen
      /\ y.chunks = call[s].chunks
    BY Types, WithReply DEF RInv
<1>2. call' = [call EXCEPT ![s] = y] /\ UNCHANGED <<file, reading, renaming, session, base, made>>
    BY DEF Answer, hostVars, sessionVars
<1> HIDE DEF y
<1>3. call'[s] = y
    BY <1>1, <1>2, OneCall DEF RInv
<1>4. ~Renames(s) /\ Seen' = Seen
    BY <1>2, Served DEF RInv, Renames, Seen
<1>5. Mine(s)' = Mine(s) /\ FirstChunk(s)' \subseteq FirstChunk(s)
    BY <1>1, <1>3 DEF FirstChunk, Mine
<1>6. (Blank(s) /\ Known(s) /\ Based(s))'
    BY <1>1, <1>2, <1>3, <1>4 DEF Blank, Known, Based, RInv, Extra
<1> QED BY <1>1, <1>2, <1>4, <1>5, <1>6, OneCallStep

\* A read takes effect with its first chunk.
LEMMA ReadMaps ==
    ASSUME RInv, NEW s \in Calls, Read(s)
    PROVE  Extra' /\ Mapped
<1> DEFINE v == Snapshot(s)
           k == Len(call[s].chunks)
           r == ChunkAt(v, k)
<1>1. /\ Serves(s) /\ call[s].pc = "read" /\ UNCHANGED <<file, renaming, session, base, made>>
      /\ UNCHANGED sessionVars
    BY DEF Read, sessionVars
<1>2. k \in Nat /\ call[s].reply.is = "none" /\ renaming = None
    BY <1>1, Types, Served DEF RInv
<1>3. v \in Contents \cup {None} /\ v \in Seen /\ v \in {file, reading}
    BY Types DEF Snapshot, TypeOK, RInv, Extra
<1>4. CASE v = None
    <2>1. Answer(s, Failed) /\ UNCHANGED <<file, hostVars, sessionVars>>
        BY <1>1, <1>4 DEF Read, hostVars, sessionVars
    <2>2. Failed \in Reply /\ Failed.is # "chunk"
        BY IdleIsCall
    <2> QED BY <1>1, <2>1, <2>2, AnsweredMaps
<1>5. CASE v # None
    <2>1. Answer(s, r) /\ reading' = IF r.done THEN None ELSE v
        BY <1>5 DEF Read
    <2>2. /\ r \in Reply /\ r.is = "chunk" /\ r.etag = v /\ v \in Contents
          /\ r.part = IF k < Size[v] THEN <<v>> ELSE <<>>
        BY <1>2, <1>3, <1>5, ChunkIsReply
    <2>3. call[s].chunks = <<>> => v = file /\ r.part[1] = v
        <3>1. call[s].chunks = <<>> => v = file /\ k = 0
            BY DEF Snapshot
        <3>2. Size[v] \in Nat \ {0}
            BY <2>2, HostAssumption
        <3> HIDE DEF v, k, r
        <3>3. k = 0 => r.part = <<v>>
            BY <2>2, <3>2
        <3> QED BY <3>1, <3>3
    <2>4. reading' \in {reading, file, None}
        BY <1>3, <2>1
    <2> HIDE DEF v, k, r
    <2> DEFINE y == [call[s] EXCEPT !.reply = r]
    <2>5. /\ y \in Call /\ y.reply = r /\ y.pc = "read" /\ y.gen = call[s].gen
          /\ y.chunks = call[s].chunks
        BY <1>1, <2>2, Types, WithReply DEF RInv
    <2>6. call' = [call EXCEPT ![s] = y]
        BY <2>1 DEF Answer
    <2> HIDE DEF y
    <2>7. call'[s] = y /\ \A c \in Calls \ {s} : call'[c] = call[c] /\ Same(c)
        BY <2>5, <2>6, OneCall DEF RInv
    <2>8. ~Renames(s) /\ Seen' = Seen
        BY <1>1, <1>2 DEF Renames, Seen
    <2>9. (Blank(s) /\ Known(s) /\ Based(s))'
        BY <1>3, <2>2, <2>5, <2>7, <2>8 DEF Blank, Known, Based, RInv, Extra
    <2>10. CASE call[s].chunks # <<>>
        <3>1. Mine(s)' = Mine(s) /\ FirstChunk(s)' = FirstChunk(s)
            BY <2>5, <2>7, <2>10 DEF FirstChunk, Mine
        <3> QED BY <1>1, <2>4, <2>5, <2>6, <2>8, <2>9, <3>1, OneCallStep
    <2>11. CASE call[s].chunks = <<>>
        <3>1. PICK g \in Sessions : g = Mine(s) /\ g = Mine(s)'
            BY <1>1, <2>5, <2>7 DEF Mine, RInv, IInv, CallsOK, GenOK
        <3>2. FirstChunk(s) = {} /\ FirstChunk(s)' = {file}
            BY <1>2, <2>2, <2>3, <2>5, <2>7, <2>11 DEF FirstChunk
        <3>3. Taken' = [Taken EXCEPT ![g] = @ \cup {file}]
            <4>1. \A c \in Calls \ {s} : FirstChunk(c)' = FirstChunk(c) /\ Mine(c)' = Mine(c)
                BY <2>7, SameFirst
            <4>2. ASSUME NEW h \in Sessions, NEW x
                  PROVE  x \in Taken'[h] <=> x \in Taken[h] \/ (h = g /\ x = file)
                BY <1>1, <3>1, <3>2, <4>1, TakenOf
            <4>3. \A h \in Sessions : Taken'[h] = IF h = g THEN Taken[h] \cup {file} ELSE Taken[h]
                BY <4>2
            <4> QED BY <4>3, TakenDomain
        <3>4. Replacing' = Replacing
            BY <1>1, <1>2, ReplacingKept
        <3>5. Promise!Take(g)
            BY <1>1, <1>5, <2>3, <2>11, <3>3, <3>4 DEF Promise!Take
        <3>6. Extra'
            BY <1>1, <2>4, <2>7, <2>9, ExtraSame
        <3> QED BY <3>5, <3>6 DEF Mapped, Promise!Next
    <2> QED BY <2>10, <2>11
<1> QED BY <1>4, <1>5

LEMMA FailureMaps ==
    ASSUME RInv, NEW s \in Calls, ReadFails(s) \/ Conflict(s)
    PROVE  Extra' /\ Mapped
<1> DEFINE refused == [NoReply EXCEPT !.is = "refused"]
<1>1. refused \in Reply /\ refused.is = "refused" /\ Failed \in Reply /\ Failed.is = "failed"
    BY IdleIsCall, WithKind
<1>2. /\ Serves(s) /\ (Answer(s, Failed) \/ Answer(s, refused))
      /\ UNCHANGED <<file, hostVars, sessionVars>>
    BY DEF ReadFails, Conflict
<1> HIDE DEF refused
<1> QED BY <1>1, <1>2, AnsweredMaps

\* The content of the file is one that the session has: its tag is expected.
LEMMA CheckMaps ==
    ASSUME RInv, NEW s \in Calls, Check(s)
    PROVE  Extra' /\ Mapped
<1>1. /\ Serves(s) /\ call[s].pc = "write" /\ file = call[s].expected
      /\ renaming' = [for |-> s, overtaken |-> FALSE]
      /\ UNCHANGED <<file, reading, call, session, base, made>>
    BY DEF Check, TagMatches, sessionVars
<1>2. renaming = None
    BY <1>1 DEF Serves
<1>3. PICK g \in Sessions : g = Mine(s)
    BY <1>1 DEF Mine, RInv, IInv, CallsOK, GenOK
<1>4. base[g] # None /\ file \in {base[g]} \cup made[g] /\ call[s].data \in made[g]
    BY <1>1, <1>3 DEF Mine, RInv, Extra, Based, IInv, CallsOK, WriteOK, Held
<1>5. file \in Taken[g] /\ call[s].data \in Taken[g] \cap Saved
    <2>1. made[g] \subseteq Saved
        BY DEF RInv, IInv, TypeOK
    <2> QED BY <1>4, <2>1, TakenOf
<1>6. Taken' = Taken
    BY <1>1 DEF Taken, FirstChunk, Mine
<1>7. Replacing = None /\ Replacing' = [by |-> g, with |-> call[s].data, raced |-> FALSE]
    <2>1. renaming' \in Renaming /\ renaming'.for = s /\ renaming'.overtaken = FALSE
        BY <1>1 DEF Renaming
    <2>2. renaming' # None
        BY <2>1, HostAssumption
    <2>3. Mine(s)' = g
        BY <1>1, <1>3 DEF Mine
    <2> QED BY <1>1, <1>2, <2>1, <2>2, <2>3 DEF Replacing, Mine
<1>8. Promise!Allow(g)
    BY <1>1, <1>5, <1>6, <1>7 DEF Promise!Allow
<1>9. Extra'
    BY <1>1, ExtraSame DEF Same
<1> QED BY <1>8, <1>9 DEF Mapped, Promise!Next

\* The call whose file the helper renames, or fails to write, and its answer.
LEMMA RenamedCall ==
    ASSUME RInv, renaming # None, NEW r \in Reply, r.is # "chunk",
           call' = [call EXCEPT ![renaming.for].reply = r],
           UNCHANGED <<base, made>>
    PROVE  /\ \A c \in Calls : \/ Same(c)
                               \/ (Blank(c) /\ Known(c) /\ Based(c))' /\ FirstChunk(c)' = {}
           /\ Taken' = Taken
<1>1. PICK s \in Calls : s = renaming.for /\ call[s].pc = "write"
    BY RenamingCall
<1> DEFINE y == [call[s] EXCEPT !.reply = r]
<1>2. /\ y \in Call /\ y.reply = r /\ y.pc = "write" /\ y.gen = call[s].gen
      /\ y.chunks = call[s].chunks
    BY <1>1, Types, WithReply DEF RInv
<1>3. call' = [call EXCEPT ![s] = y]
    BY <1>1
<1> HIDE DEF y
<1>4. call'[s] = y /\ \A c \in Calls \ {s} : call'[c] = call[c] /\ Same(c)
    BY <1>2, <1>3, OneCall DEF RInv
<1>5. Blank(s) /\ Known(s) /\ Based(s) /\ Seen' = Seen
    BY DEF RInv, Extra, Seen
<1>6. (Blank(s) /\ Known(s) /\ Based(s))'
    BY <1>1, <1>2, <1>4, <1>5 DEF Blank, Known, Based
<1>7. FirstChunk(s) = {} /\ FirstChunk(s)' = {}
    BY <1>1, <1>2, <1>4, <1>5, <1>6, BlankFirst, BlankFirstNext
<1>8. Taken' = Taken
    <2>1. \A c \in Calls \ {s} : FirstChunk(c)' = FirstChunk(c) /\ Mine(c)' = Mine(c)
        BY <1>4, SameFirst
    <2> QED BY <1>7, <2>1, TakenSame
<1> QED BY <1>4, <1>6, <1>7, <1>8

\* What is renamed over the file is what the session made, and what the file then
\* is is what the session has, unless another program has written since the check.
LEMMA RenameMaps ==
    ASSUME RInv, Rename
    PROVE  Extra' /\ Mapped
<1> DEFINE s == renaming.for
           g == Mine(s)
           done == [NoReply EXCEPT !.is = "written", !.etag = call[s].data]
<1>1. /\ renaming # None /\ renaming' = None /\ file' = call[s].data
      /\ \E r \in {done, Failed} : call' = [call EXCEPT ![s].reply = r]
      /\ UNCHANGED <<reading, session, base, made>>
    BY DEF Rename, sessionVars
<1>2. s \in Calls /\ call[s].pc = "write" /\ g \in Sessions /\ renaming.overtaken \in BOOLEAN
    BY <1>1, RenamingCall
<1>3. /\ call[s].data \in made[g] /\ base[g] # None /\ made[g] \subseteq Saved
      /\ ~renaming.overtaken => file \in {base[g]} \cup made[g]
    BY <1>1, <1>2 DEF Mine, Held, RInv, Extra, Based, IInv, CallsOK, WriteOK, RenamingOK, TypeOK
<1>4. \A r \in {done, Failed} : r \in Reply /\ r.is # "chunk"
    <2>1. call[s].data \in Contents
        BY <1>3 DEF Contents
    <2>2. done \in Reply /\ done.is = "written"
        BY <2>1, IdleIsCall DEF Reply
    <2> QED BY <2>2, IdleIsCall
<1>5. PICK r \in {done, Failed} : call' = [call EXCEPT ![s].reply = r]
    BY <1>1
<1>6. /\ Taken' = Taken
      /\ \A c \in Calls : Same(c) \/ (Blank(c) /\ Known(c) /\ Based(c))'
    BY <1>1, <1>4, <1>5, RenamedCall
<1>7. Extra'
    <2>1. Seen' = Seen /\ file' \in Seen
        BY <1>1, <1>2, <1>3 DEF Seen
    <2> QED BY <1>1, <1>6, <2>1, ExtraKept DEF RInv, Extra
<1>8. /\ Replacing = [by |-> g, with |-> call[s].data, raced |-> renaming.overtaken]
      /\ Replacing # None /\ Replacing' = None
    <2>1. Replacing = [by |-> g, with |-> call[s].data, raced |-> renaming.overtaken]
          /\ Replacing' = None
        BY <1>1 DEF Replacing
    <2>2. Replacing \in Replacements
        BY <1>2, <1>3, <2>1 DEF Replacements
    <2> QED BY <2>1, <2>2, HostAssumption
<1>9. renaming.overtaken \/ file \in Taken[g]
    BY <1>2, <1>3, TakenOf
<1>10. Promise!Replace
    BY <1>1, <1>6, <1>8, <1>9 DEF Promise!Replace
<1> QED BY <1>7, <1>10 DEF Mapped, Promise!Next

LEMMA WriteFailsMaps ==
    ASSUME RInv, WriteFails
    PROVE  Extra' /\ Mapped
<1>1. /\ renaming # None /\ renaming' = None /\ call' = [call EXCEPT ![renaming.for].reply = Failed]
      /\ UNCHANGED <<file, reading, session, base, made>>
    BY DEF WriteFails, sessionVars
<1>2. \A c \in Calls : \/ Same(c)
                       \/ (Blank(c) /\ Known(c) /\ Based(c))' /\ FirstChunk(c)' = {}
    BY <1>1, IdleIsCall, RenamedCall
<1>3. Replacing' = None
    BY <1>1 DEF Replacing
<1> QED BY <1>1, <1>2, <1>3, CallsStep

-----------------------------------------------------------------------------
(* The environment.                                                        *)

LEMMA LockMaps ==
    ASSUME RInv, Lock
    PROVE  Extra' /\ Mapped
<1>1. session' = 0 /\ UNCHANGED <<file, reading, renaming, call, base, made>>
    BY DEF Lock, hostVars
<1>2. Replacing' = Replacing
    BY <1>1, ReplacingKept
<1> QED BY <1>1, <1>2, CallsStep DEF Same

LEMMA OtherWritesMaps ==
    ASSUME RInv, OtherWrites
    PROVE  Extra' /\ Mapped
<1>1. /\ file' \in Foreign \cup {None}
      /\ renaming' = IF renaming = None THEN None ELSE [renaming EXCEPT !.overtaken = TRUE]
      /\ UNCHANGED <<reading, call, session, base, made>>
    BY DEF OtherWrites, sessionVars
<1>2. Extra'
    <2>1. Seen' = Seen /\ file' \in Seen
        BY <1>1 DEF Seen
    <2> QED BY <1>1, <2>1, ExtraKept DEF RInv, Extra, Same
<1>3. Taken' = Taken
    BY <1>1 DEF Taken, FirstChunk, Mine
<1>4. Replacing' = IF Replacing = None THEN None ELSE [Replacing EXCEPT !.raced = TRUE]
    <2>1. CASE renaming = None
        BY <1>1, <2>1 DEF Replacing
    <2>2. CASE renaming # None
        <3>1. /\ renaming.for \in Calls /\ renaming.overtaken \in BOOLEAN
              /\ renaming = [for |-> renaming.for, overtaken |-> renaming.overtaken]
              /\ call[renaming.for].pc = "write" /\ Mine(renaming.for) \in Sessions
            BY <2>2, RenamingCall
        <3>2. renaming' = [for |-> renaming.for, overtaken |-> TRUE]
            BY <1>1, <2>2, <3>1
        <3>3. renaming' # None
            <4>1. renaming' \in Renaming
                BY <3>1, <3>2 DEF Renaming
            <4> QED BY <4>1, HostAssumption
        <3>4. Replacing' = [by |-> Mine(renaming.for), with |-> call[renaming.for].data,
                            raced |-> TRUE]
            BY <1>1, <3>2, <3>3 DEF Replacing, Mine
        <3>5. Replacing = [by |-> Mine(renaming.for), with |-> call[renaming.for].data,
                           raced |-> renaming.overtaken]
            BY <2>2 DEF Replacing
        <3>6. Replacing # None
            <4>1. call[renaming.for].data \in Saved
                BY <3>1 DEF Mine, RInv, IInv, CallsOK, WriteOK, TypeOK
            <4>2. Replacing \in Replacements
                BY <3>1, <3>5, <4>1 DEF Replacements
            <4> QED BY <4>2, HostAssumption
        <3> QED BY <3>4, <3>5, <3>6
    <2> QED BY <2>1, <2>2
<1>5. Promise!Others
    BY <1>1, <1>3, <1>4 DEF Promise!Others, Contents
<1> QED BY <1>2, <1>5 DEF Mapped, Promise!Next

LEMMA DisconnectMaps ==
    ASSUME RInv, Disconnect
    PROVE  Extra' /\ Mapped
<1>1. /\ call' = [s \in Calls |-> IF InFlight(s) THEN Idle ELSE call[s]]
      /\ reading' = None /\ renaming' = None
      /\ UNCHANGED <<file, session, base, made>>
    BY DEF Disconnect, sessionVars
<1>2. ASSUME NEW c \in Calls
      PROVE  \/ Same(c)
             \/ (Blank(c) /\ Known(c) /\ Based(c))' /\ FirstChunk(c)' = {}
    <2>1. CASE InFlight(c)
        <3>1. call'[c] = Idle
            BY <1>1, <2>1
        <3> QED BY <3>1, IdleIsCall, IdleExtra DEF FirstChunk
    <2>2. CASE ~InFlight(c)
        BY <1>1, <2>2 DEF Same
    <2> QED BY <2>1, <2>2
<1>3. Replacing' = None
    BY <1>1 DEF Replacing
<1> QED BY <1>1, <1>2, <1>3, CallsStep

-----------------------------------------------------------------------------

LEMMA InitMaps == Init => Extra /\ Promise!Init
<1> SUFFICES ASSUME Init PROVE Extra /\ Promise!Init
    OBVIOUS
<1>1. \A c \in Calls : call[c] = Idle
    BY DEF Init
<1>2. \A c \in Calls : Blank(c) /\ Known(c) /\ Based(c) /\ FirstChunk(c) = {}
    <2>1. Len(Idle.chunks) = 0 /\ Idle.pc = "idle" /\ Idle.chunks = <<>> /\ Idle.reply.is = "none"
        BY IdleIsCall
    <2> QED BY <1>1, <2>1 DEF Blank, Known, Based, FirstChunk
<1>3. Extra
    BY <1>2 DEF Init, Extra, Seen
<1>4. \A g \in Sessions : Taken[g] = {}
    <2>1. \A g \in Sessions : base[g] = None /\ made[g] = {}
        BY DEF Init
    <2> QED BY <1>2, <2>1, TakenOf
<1>5. Taken = [g \in Sessions |-> {}]
    BY <1>4, TakenDomain
<1>6. Replacing = None /\ file \in Contents \cup {None}
    BY DEF Init, Replacing, Contents
<1> QED BY <1>3, <1>5, <1>6 DEF Promise!Init

LEMMA NextMaps == RInv /\ [Next]_vars => Extra' /\ Mapped
<1> SUFFICES ASSUME RInv, [Next]_vars PROVE Extra' /\ Mapped
    OBVIOUS
<1>1. ASSUME NEW s \in Calls, Provider(s) PROVE Extra' /\ Mapped
    BY <1>1, StartUnlockMaps, MoreChunksMaps, LastChunkMaps, LoadMaps, PersistMaps,
       WriteMaps, EndMaps DEF Provider
<1>2. ASSUME NEW s \in Calls, Helper(s) PROVE Extra' /\ Mapped
    BY <1>2, ReadMaps, FailureMaps, CheckMaps DEF Helper
<1>3. CASE Rename \/ WriteFails
    BY <1>3, RenameMaps, WriteFailsMaps
<1>4. CASE Lock \/ OtherWrites \/ Disconnect
    BY <1>4, LockMaps, OtherWritesMaps, DisconnectMaps
<1>5. CASE UNCHANGED vars
    <2>1. UNCHANGED <<file, reading, renaming, call, session, base, made>>
        BY <1>5 DEF vars, hostVars, sessionVars
    <2>2. Replacing' = Replacing
        BY <2>1, ReplacingKept
    <2> QED BY <2>1, <2>2, CallsStep DEF Same
<1> QED BY <1>1, <1>2, <1>3, <1>4, <1>5 DEF Next

\* The provider's port, the helper and its chunks are a register: a session reads
\* a content that the file holds at one moment, and replaces only a content it has
\* read or made, except for what is written between the check and the rename.
THEOREM Implements == Spec => ImplementsVaultFile
<1>1. Init => RInv /\ Promise!Init
    BY InitIInv, InitMaps DEF RInv
<1>2. RInv /\ [Next]_vars => RInv' /\ [Promise!Next]_Promise!vars
    BY NextIInv, NextMaps DEF RInv, Mapped
<1> QED BY <1>1, <1>2, PTL DEF Spec, ImplementsVaultFile, Promise!Spec

-----------------------------------------------------------------------------
(* PasskeyBridge.                                                          *)

Counters == UNION {[S -> Nat] : S \in SUBSET Passkey!Credentials}

Pages == [pc : {"new", "waiting", "settled"}, tab : Tabs \cup {None},
          kind : {"create", "get", None}, answer : Passkey!Answers]
Jobs == [pc : {"none", "sign", "persist", "answer"}, cred : Passkey!Credentials \cup {None},
         count : Nat, data : Counters \cup {None}, stale : BOOLEAN]
Prompts == {"none", "stash", "lost", "loading", "locked", "error", "confirm", "busy", "gone"}

JobOK(r) ==
    /\ job[r].pc # "none" => job[r].cred \in Passkey!Credentials
    /\ job[r].pc = "persist" => job[r].data \in Counters

PageTypes ==
    /\ page \in [Requests -> Pages]
    /\ active \in [Tabs -> Requests \cup {None}]
    /\ overlay \in [Tabs -> Requests \cup {None}]
    /\ prompt \in [Requests -> Prompts]
    /\ pending \subseteq Requests
    /\ tree \in Counters /\ saved \in Counters
    /\ job \in [Requests -> Jobs] /\ \A r \in Requests : JobOK(r)
    /\ faults \in 0..MaxFaults
    /\ crowded \subseteq Tabs

\* What is in a tab was called there.
Called(r) == page[r].pc # "new" /\ page[r].tab \in Tabs
Placed ==
    /\ \A r \in Requests : prompt[r] # "none" \/ job[r].pc # "none" => Called(r)
    /\ \A t \in Tabs : \A r \in Requests \ {None} :
         active[t] = r \/ overlay[t] = r => Called(r) /\ page[r].tab = t

----------------------------------------------------------------------------
(* Counters.                                                               *)

LEMMA WithCounters ==
    ASSUME NEW f \in Counters, NEW c \in Passkey!Credentials, NEW n \in Nat
    PROVE  Passkey!With(f, c, n) \in Counters
<1>1. PICK S \in SUBSET Passkey!Credentials : f \in [S -> Nat]
    BY DEF Counters
<1>2. Passkey!With(f, c, n) \in [S \cup {c} -> Nat]
    BY <1>1 DEF Passkey!With
<1> QED
    BY <1>2 DEF Counters

\* f's credentials are in g, and g's counters are not below f's.
Behind(f, g) == DOMAIN f \subseteq DOMAIN g /\ \A c \in DOMAIN f : f[c] <= g[c]

LEMMA CountersAreNumbers ==
    ASSUME NEW f \in Counters
    PROVE  DOMAIN f \subseteq Passkey!Credentials /\ \A c \in DOMAIN f : f[c] \in Nat
BY DEF Counters

LEMMA BehindItself ==
    ASSUME NEW f \in Counters
    PROVE  Behind(f, f)
BY CountersAreNumbers DEF Behind

LEMMA BehindWith ==
    ASSUME NEW f \in Counters, NEW g \in Counters, Behind(f, g),
           NEW c, NEW n \in Nat, c \in DOMAIN f => f[c] < n
    PROVE  /\ Behind(f, Passkey!With(g, c, n))
           /\ c \in DOMAIN Passkey!With(g, c, n) /\ Passkey!With(g, c, n)[c] = n
<1>1. \A d \in DOMAIN f : f[d] \in Nat
    BY CountersAreNumbers
<1> QED
    BY <1>1 DEF Behind, Passkey!With

----------------------------------------------------------------------------
(* Types.                                                                  *)

LEMMA SettledTypes ==
    ASSUME PageTypes, NEW r \in Requests, NEW answer \in Passkey!Answers
    PROVE  /\ Passkey!Settled(r, answer) \in [Requests -> Pages]
           /\ \A q \in Requests \ {r} : Passkey!Settled(r, answer)[q] = page[q]
           /\ Passkey!Settled(r, answer)[r].tab = page[r].tab
           /\ Passkey!Settled(r, answer)[r].kind = page[r].kind
           /\ Passkey!Settled(r, answer)[r].pc = "new" <=> page[r].pc = "new"
           /\ Passkey!Settled(r, answer)[r].answer \in {page[r].answer, answer}
<1> DEFINE after == IF Passkey!Waiting(r) THEN [page[r] EXCEPT !.pc = "settled", !.answer = answer]
                    ELSE page[r]
<1>1. page \in [Requests -> Pages] /\ page[r] \in Pages
    BY DEF PageTypes
<1>2. /\ after \in Pages /\ after.tab = page[r].tab /\ after.kind = page[r].kind
      /\ after.pc = "new" <=> page[r].pc = "new"
      /\ after.answer \in {page[r].answer, answer}
    BY <1>1 DEF Pages, Passkey!Waiting
<1>3. Passkey!Settled(r, answer) = [page EXCEPT ![r] = after]
    BY <1>1 DEF Passkey!Settled, Passkey!Waiting, Pages
<1> HIDE DEF after
<1> QED
    BY <1>1, <1>2, <1>3

LEMMA WithoutPromptTypes ==
    ASSUME NEW p \in [Requests -> Prompts], NEW q \in Requests \cup {None}
    PROVE  Passkey!WithoutPrompt(p, q) \in [Requests -> Prompts]
BY DEF Passkey!WithoutPrompt, Prompts

LEMMA RelayedTypes ==
    ASSUME PageTypes, Placed, NEW r \in Requests, NEW answer \in Passkey!Answers, NEW told2,
           Called(r), Passkey!Relayed(r, answer, told2)
    PROVE  /\ page' \in [Requests -> Pages]
           /\ active' \in [Tabs -> Requests \cup {None}]
           /\ overlay' \in [Tabs -> Requests \cup {None}]
           /\ prompt' \in [Requests -> Prompts]
<1>1. CASE Passkey!Listened(r) /\ active[page[r].tab] # None
    <2>1. page[r].tab \in Tabs
        BY DEF Called
    <2>2. active[page[r].tab] \in Requests
        BY <1>1, <2>1 DEF PageTypes
    <2> QED
        <3>1. page' \in [Requests -> Pages]
            BY <1>1, <2>2, SettledTypes DEF Passkey!Relayed
        <3> QED
            BY <1>1, <3>1 DEF Passkey!Relayed, PageTypes, Prompts
<1>2. CASE ~(Passkey!Listened(r) /\ active[page[r].tab] # None)
    BY <1>2 DEF Passkey!Relayed, PageTypes
<1> QED
    BY <1>1, <1>2

\* The tabs of calls do not change when a promise settles, or a result is relayed.
LEMMA SettledPlaces ==
    ASSUME PageTypes, NEW r \in Requests, NEW answer \in Passkey!Answers, NEW q \in Requests
    PROVE  /\ Passkey!Settled(r, answer)[q].tab = page[q].tab
           /\ Passkey!Settled(r, answer)[q].pc = "new" <=> page[q].pc = "new"
           /\ Passkey!Settled(r, answer)[q].answer \in {page[q].answer, answer}
BY SettledTypes

LEMMA RelayedPlaces ==
    ASSUME PageTypes, Placed, NEW r \in Requests, NEW answer \in Passkey!Answers, NEW told2,
           Called(r), Passkey!Relayed(r, answer, told2), \A q \in Requests : job'[q].pc \in {"none", job[q].pc}
    PROVE  Placed'
<1>1. CASE Passkey!Listened(r) /\ active[page[r].tab] # None
    <2>1. active[page[r].tab] \in Requests /\ page[r].tab \in Tabs
        BY <1>1 DEF PageTypes, Called
    <2>2. \A q \in Requests : page'[q].tab = page[q].tab /\ (page'[q].pc = "new" <=> page[q].pc = "new")
        BY <1>1, <2>1, SettledPlaces DEF Passkey!Relayed
    <2> QED
        BY <1>1, <2>1, <2>2 DEF Passkey!Relayed, Placed, Called, PageTypes
<1>2. CASE ~(Passkey!Listened(r) /\ active[page[r].tab] # None)
    BY <1>2 DEF Passkey!Relayed, Placed, Called
<1> QED
    BY <1>1, <1>2

LEMMA TypesInit ==
    ASSUME MaxFaults \in Nat, Passkey!Init
    PROVE  PageTypes /\ Placed
<1>1. [c \in {First} |-> 0] \in Counters
    <2>1. {First} \in SUBSET Passkey!Credentials /\ [c \in {First} |-> 0] \in [{First} -> Nat]
        BY DEF Passkey!Credentials
    <2> QED
        BY <2>1 DEF Counters
<1>2. Passkey!NoJob \in Jobs /\ Passkey!NoJob.pc = "none"
    BY DEF Passkey!NoJob, Jobs
<1>3. [pc |-> "new", tab |-> None, kind |-> None, answer |-> None] \in Pages
    BY DEF Pages, Passkey!Answers
<1>4. PageTypes
    BY <1>1, <1>2, <1>3 DEF Passkey!Init, PageTypes, Prompts, JobOK
<1>5. Placed
    BY <1>2 DEF Passkey!Init, Placed
<1> QED
    BY <1>4, <1>5

LEMMA TypesStep ==
    ASSUME MaxFaults \in Nat, PageTypes, Placed, [Passkey!Next]_Passkey!vars
    PROVE  PageTypes'
<1> USE DEF PageTypes
<1>1. ASSUME NEW r \in Requests, NEW t \in Tabs, NEW kind \in {"create", "get"}, Passkey!Call(r, t, kind)
      PROVE  PageTypes'
    BY <1>1 DEF Passkey!Call, Passkey!Vault, JobOK, Pages, Passkey!Answers, Prompts
<1>2. ASSUME NEW r \in Requests, Passkey!Stash(r)
      PROVE  PageTypes'
    BY <1>2, WithoutPromptTypes DEF Passkey!Stash, Passkey!Shown, Placed, Called, Passkey!Vault, Passkey!History, JobOK, Pages, Passkey!Answers, Prompts
<1>3. ASSUME NEW r \in Requests, Passkey!StashLost(r)
      PROVE  PageTypes'
    BY <1>3 DEF Passkey!StashLost, Passkey!Vault, Passkey!History, JobOK, Prompts
<1>4. ASSUME NEW r \in Requests, Passkey!LoadPrompt(r)
      PROVE  PageTypes'
    BY <1>4 DEF Passkey!LoadPrompt, Passkey!Ready, Passkey!Vault, Passkey!History, JobOK, Prompts
<1>5. ASSUME NEW r \in Requests, Passkey!UnlockHere(r)
      PROVE  PageTypes'
    <2>1. ASSUME NEW q \in Requests
          PROVE  /\ job'[q] = [job[q] EXCEPT !.stale = q \in Passkey!Working]
                 /\ job'[q] \in Jobs /\ job'[q].pc = job[q].pc
                 /\ job'[q].cred = job[q].cred /\ job'[q].data = job[q].data
        <3>1. job[q] \in Jobs /\ (q \in Passkey!Working) \in BOOLEAN
            OBVIOUS
        <3>2. job'[q] = [job[q] EXCEPT !.stale = q \in Passkey!Working]
            BY <1>5 DEF Passkey!UnlockHere
        <3> QED
            BY <3>1, <3>2 DEF Jobs
    <2>2. job' \in [Requests -> Jobs]
        BY <1>5, <2>1 DEF Passkey!UnlockHere
    <2>3. \A q \in Requests : JobOK(q)'
        BY <2>1 DEF JobOK
    <2> QED
        BY <1>5, <2>2, <2>3 DEF Passkey!UnlockHere, Prompts
<1>6. ASSUME NEW r \in Requests, Passkey!CancelButton(r)
      PROVE  PageTypes'
    BY <1>6, RelayedTypes DEF Passkey!CancelButton, Placed, Passkey!Answers, Passkey!Vault, JobOK
<1>7. ASSUME NEW r \in Requests, NEW c \in Passkey!Credentials, Passkey!Begin(r, c)
      PROVE  PageTypes'
    <2>1. Passkey!NextCount(c) \in Nat
        BY CountersAreNumbers DEF Passkey!NextCount, Passkey!Candidates
    <2>2. [pc |-> "sign", cred |-> c, data |-> None, stale |-> FALSE, count |-> Passkey!NextCount(c)] \in Jobs
        BY <2>1 DEF Jobs
    <2>3. job' \in [Requests -> Jobs]
        BY <1>7, <2>2 DEF Passkey!Begin
    <2>4. \A q \in Requests : JobOK(q)'
        <3>1. ASSUME NEW q \in Requests, q # r
              PROVE  job'[q] = job[q]
            BY <1>7, <3>1 DEF Passkey!Begin
        <3>2. job'[r].pc = "sign" /\ job'[r].cred = c
            BY <1>7 DEF Passkey!Begin
        <3> QED
            BY <3>1, <3>2 DEF JobOK
    <2>5. prompt' \in [Requests -> Prompts]
        BY <1>7 DEF Passkey!Begin, Prompts
    <2>6. UNCHANGED <<page, active, overlay, pending, tree, saved, faults, crowded>>
        BY <1>7 DEF Passkey!Begin, Passkey!Vault
    <2> QED
        BY <2>3, <2>4, <2>5, <2>6
<1>8. ASSUME NEW r \in Requests, Passkey!ChangeTree(r)
      PROVE  PageTypes'
    <2>1. Passkey!NoJob \in Jobs /\ Passkey!NoJob.pc = "none"
        BY DEF Passkey!NoJob, Jobs
    <2>2. Passkey!With(tree, job[r].cred, job[r].count) \in Counters
        BY <1>8, WithCounters DEF Passkey!ChangeTree, JobOK, Jobs
    <2>3. tree' \in Counters
        BY <1>8, <2>2 DEF Passkey!ChangeTree
    <2>4. CASE unlocked
        <3>1. job' = [job EXCEPT ![r].pc = "persist", ![r].data = tree']
            BY <1>8, <2>4 DEF Passkey!ChangeTree
        <3>2. UNCHANGED <<page, active, overlay, prompt, pending, saved, faults, crowded>>
            BY <1>8, <2>4 DEF Passkey!ChangeTree, Passkey!History
        <3>3. job[r] \in Jobs /\ job[r].cred \in Passkey!Credentials
            BY <1>8 DEF Passkey!ChangeTree, JobOK
        <3>4. [job[r] EXCEPT !.pc = "persist", !.data = tree'] \in Jobs
            BY <2>3, <3>3 DEF Jobs
        <3>5. job' \in [Requests -> Jobs]
            BY <3>1, <3>4
        <3>6. \A q \in Requests : JobOK(q)'
            BY <2>3, <3>1, <3>3 DEF JobOK, Jobs
        <3> QED
            BY <2>3, <3>2, <3>5, <3>6
    <2>5. CASE ~unlocked
        BY <1>8, <2>1, <2>5 DEF Passkey!ChangeTree, Passkey!History, JobOK, Prompts
    <2> QED
        BY <2>4, <2>5
<1>9. ASSUME NEW r \in Requests, Passkey!Persist(r)
      PROVE  PageTypes'
    BY <1>9 DEF Passkey!Persist, Passkey!History, JobOK, Jobs
<1>10. ASSUME NEW r \in Requests, Passkey!PersistFails(r)
       PROVE  PageTypes'
    <2>1. Passkey!NoJob \in Jobs /\ Passkey!NoJob.pc = "none"
        BY DEF Passkey!NoJob, Jobs
    <2> QED
        BY <1>10, <2>1 DEF Passkey!PersistFails, Passkey!Vault, Passkey!History, JobOK, Prompts
<1>11. ASSUME NEW r \in Requests, Passkey!Answer(r)
       PROVE  PageTypes'
    <2>1. Passkey!NoJob \in Jobs /\ Passkey!NoJob.pc = "none"
        BY DEF Passkey!NoJob, Jobs
    <2> QED
        BY <1>11, <2>1, RelayedTypes DEF Passkey!Answer, Passkey!AnswerWhenSaved, Placed, Passkey!Answers, Passkey!Vault, JobOK
<1>12. ASSUME NEW t \in Tabs, Passkey!Escape(t)
       PROVE  PageTypes'
    BY <1>12, SettledTypes, WithoutPromptTypes DEF Passkey!Escape, Passkey!SettledIfAny, Passkey!Vault, Passkey!History, JobOK, Passkey!Answers
<1>13. CASE Passkey!Lock
    BY <1>13 DEF Passkey!Lock, Passkey!History, JobOK
<1>14. CASE Passkey!Restart
    <2>1. Passkey!NoJob \in Jobs /\ Passkey!NoJob.pc = "none"
        BY DEF Passkey!NoJob, Jobs
    <2> QED
        BY <1>14, <2>1 DEF Passkey!Restart, Passkey!History, JobOK
<1>15. CASE UNCHANGED Passkey!vars
    BY <1>15 DEF Passkey!vars, JobOK
<1> QED
    BY <1>1, <1>2, <1>3, <1>4, <1>5, <1>6, <1>7, <1>8, <1>9, <1>10, <1>11, <1>12, <1>13, <1>14,
       <1>15 DEF Passkey!Next

LEMMA PlacedStep ==
    ASSUME PageTypes, Placed, [Passkey!Next]_Passkey!vars
    PROVE  Placed'
<1> USE DEF Placed
<1>1. ASSUME NEW r \in Requests, NEW t \in Tabs, NEW kind \in {"create", "get"}, Passkey!Call(r, t, kind)
      PROVE  Placed'
    <2>1. \A q \in Requests \ {r} : page'[q] = page[q] /\ prompt'[q] = prompt[q]
        BY <1>1 DEF Passkey!Call, PageTypes
    <2>2. page'[r].pc = "waiting" /\ page'[r].tab = t /\ ~Called(r)
        BY <1>1 DEF Passkey!Call, Called, PageTypes
    <2>3. active' \in [Tabs -> Requests \cup {None}] /\ active'[t] = r
          /\ \A u \in Tabs \ {t} : active'[u] = active[u]
        BY <1>1 DEF Passkey!Call, PageTypes
    <2> QED
        BY <1>1, <2>1, <2>2, <2>3 DEF Passkey!Call, Called
<1>2. ASSUME NEW r \in Requests, Passkey!Stash(r)
      PROVE  Placed'
    <2>1. \A q \in Requests : prompt'[q] # "none" =>
            q = r \/ (q = overlay[page[r].tab] /\ q # None) \/ prompt[q] # "none"
        BY <1>2 DEF Passkey!Stash, Passkey!WithoutPrompt, PageTypes
    <2>2. Called(r)
        BY <1>2 DEF Passkey!Stash
    <2>3. \A t \in Tabs : overlay'[t] = IF t = page[r].tab THEN r ELSE overlay[t]
        BY <1>2 DEF Passkey!Stash, Passkey!Shown, PageTypes
    <2> QED
        BY <1>2, <2>1, <2>2, <2>3 DEF Passkey!Stash, Called, PageTypes
<1>3. ASSUME NEW r \in Requests, Passkey!StashLost(r)
      PROVE  Placed'
    BY <1>3 DEF Passkey!StashLost, Called, PageTypes
<1>4. ASSUME NEW r \in Requests, Passkey!LoadPrompt(r)
      PROVE  Placed'
    BY <1>4 DEF Passkey!LoadPrompt, Called, PageTypes
<1>5. ASSUME NEW r \in Requests, Passkey!UnlockHere(r)
      PROVE  Placed'
    <2>1. \A q \in Requests : job'[q].pc = job[q].pc
        BY <1>5 DEF Passkey!UnlockHere, PageTypes, Jobs
    <2> QED
        BY <1>5, <2>1 DEF Passkey!UnlockHere, Called, PageTypes
<1>6. ASSUME NEW r \in Requests, Passkey!CancelButton(r)
      PROVE  Placed'
    BY <1>6, RelayedPlaces DEF Passkey!CancelButton, Passkey!Answers
<1>7. ASSUME NEW r \in Requests, NEW c \in Passkey!Credentials, Passkey!Begin(r, c)
      PROVE  Placed'
    BY <1>7 DEF Passkey!Begin, Called, PageTypes
<1>8. ASSUME NEW r \in Requests, Passkey!ChangeTree(r)
      PROVE  Placed'
    BY <1>8 DEF Passkey!ChangeTree, Called, PageTypes, Passkey!NoJob
<1>9. ASSUME NEW r \in Requests, Passkey!Persist(r)
      PROVE  Placed'
    BY <1>9 DEF Passkey!Persist, Called, PageTypes
<1>10. ASSUME NEW r \in Requests, Passkey!PersistFails(r)
       PROVE  Placed'
    BY <1>10 DEF Passkey!PersistFails, Called, PageTypes, Passkey!NoJob
<1>11. ASSUME NEW r \in Requests, Passkey!Answer(r)
       PROVE  Placed'
    BY <1>11, RelayedPlaces DEF Passkey!Answer, Passkey!AnswerWhenSaved, Passkey!Answers, PageTypes, Passkey!NoJob
<1>12. ASSUME NEW t \in Tabs, Passkey!Escape(t)
       PROVE  Placed'
    <2>1. \A q \in Requests : page'[q].tab = page[q].tab /\ (page'[q].pc = "new" <=> page[q].pc = "new")
        BY <1>12, SettledPlaces DEF Passkey!Escape, Passkey!SettledIfAny, PageTypes, Passkey!Answers
    <2>2. \A q \in Requests : prompt'[q] # "none" => q = overlay[t] \/ prompt[q] # "none"
        BY <1>12 DEF Passkey!Escape, Passkey!WithoutPrompt, PageTypes
    <2> QED
        BY <1>12, <2>1, <2>2 DEF Passkey!Escape, Called, PageTypes
<1>13. CASE Passkey!Lock
    BY <1>13 DEF Passkey!Lock, Called, Passkey!History
<1>14. CASE Passkey!Restart
    BY <1>14 DEF Passkey!Restart, Called, Passkey!NoJob
<1>15. CASE UNCHANGED Passkey!vars
    BY <1>15 DEF Passkey!vars, Called
<1> QED
    BY <1>1, <1>2, <1>3, <1>4, <1>5, <1>6, <1>7, <1>8, <1>9, <1>10, <1>11, <1>12, <1>13, <1>14,
       <1>15 DEF Passkey!Next

----------------------------------------------------------------------------
(* Whose answer a page gets.                                               *)

\* In a tab where no call met one in progress, one call is active, stashed and shown.
OneActive ==
    /\ \A t \in Tabs \ crowded :
        /\ overlay[t] # None => active[t] = overlay[t]
        /\ \A r \in Requests : prompt[r] = "stash" /\ page[r].tab = t => active[t] = r
    /\ \A t \in Tabs : \A r \in Requests : overlay[t] = r => prompt[r] \notin {"none", "stash", "lost"}

Own == OneActive /\ Passkey!OwnAnswer

\* What the promise of a call settles with.
LEMMA RelayedOwn ==
    ASSUME None \notin Requests, "refused" \notin Requests, PageTypes, Placed, Own,
           NEW r \in Requests, Called(r), NEW answer \in {"refused", r}, NEW told2,
           Passkey!Relayed(r, answer, told2), UNCHANGED crowded
    PROVE  Own'
<1> DEFINE t == page[r].tab
           a == active[t]
<1>1. CASE Passkey!Listened(r) /\ a # None
    <2>1. a \in Requests /\ t \in Tabs /\ page[a].tab = t
        BY <1>1 DEF PageTypes, Placed, Called
    <2>2. t \in crowded \/ a = r
        BY <1>1, <2>1 DEF Own, OneActive, Passkey!Listened
    <2>3. answer \in Passkey!Answers
        BY DEF Passkey!Answers
    <2>4. /\ \A q \in Requests : page'[q].tab = page[q].tab
          /\ \A q \in Requests \ {a} : page'[q] = page[q]
          /\ page'[a].answer \in {page[a].answer, answer}
        BY <1>1, <2>1, <2>3, SettledTypes DEF Passkey!Relayed
    <2>5. Passkey!OwnAnswer'
        BY <2>1, <2>2, <2>4 DEF Own, Passkey!OwnAnswer
    <2>6. /\ active' \in [Tabs -> Requests \cup {None}] /\ active'[t] = None /\ overlay'[t] = None
          /\ \A u \in Tabs \ {t} : active'[u] = active[u] /\ overlay'[u] = overlay[u]
          /\ prompt'[r] = "gone" /\ \A q \in Requests \ {r} : prompt'[q] = prompt[q]
        BY <1>1, <2>1 DEF Passkey!Relayed, PageTypes
    <2>7. OneActive'
        <3>1. ASSUME NEW q \in Requests, prompt'[q] = "stash", page'[q].tab = t
              PROVE  t \in crowded
            <4>1. q # r /\ prompt[q] = "stash" /\ page[q].tab = t
                BY <3>1, <2>4, <2>6
            <4> QED
                BY <4>1, <2>1, <2>2 DEF Own, OneActive
        <3> HIDE DEF t, a
        <3> QED
            BY <3>1, <2>4, <2>6 DEF Own, OneActive
    <2> QED
        BY <2>5, <2>7 DEF Own
<1>2. CASE ~(Passkey!Listened(r) /\ a # None)
    BY <1>2 DEF Passkey!Relayed, Own, OneActive, Passkey!OwnAnswer
<1> QED
    BY <1>1, <1>2

LEMMA OwnStep ==
    ASSUME None \notin Requests, "refused" \notin Requests, PageTypes, Placed, Own, [Passkey!Next]_Passkey!vars
    PROVE  Own'
<1> USE DEF Own
<1>1. ASSUME NEW r \in Requests, NEW t \in Tabs, NEW kind \in {"create", "get"}, Passkey!Call(r, t, kind)
      PROVE  Own'
    <2>1. \A q \in Requests \ {r} : page'[q] = page[q] /\ prompt'[q] = prompt[q]
        BY <1>1 DEF Passkey!Call, PageTypes
    <2>2. page'[r].tab = t /\ page'[r].answer = None /\ prompt'[r] = "stash" /\ ~Called(r)
        BY <1>1 DEF Passkey!Call, Called, PageTypes
    <2>3. /\ active' \in [Tabs -> Requests \cup {None}] /\ active'[t] = r /\ overlay' = overlay
          /\ \A u \in Tabs \ {t} : active'[u] = active[u]
        BY <1>1 DEF Passkey!Call, PageTypes
    <2>4. /\ t \in crowded' \/ ~Passkey!InProgress(t)
          /\ crowded \subseteq crowded' /\ crowded' \subseteq crowded \cup {t}
        BY <1>1 DEF Passkey!Call
    <2>5. ASSUME t \notin crowded'
          PROVE  /\ overlay[t] = None
                 /\ \A q \in Requests : prompt[q] = "stash" => page[q].tab # t
        <3>1. t \notin crowded /\ \A q \in Requests : active[t] = q => prompt[q] = "lost"
            BY <2>4, <2>5 DEF Passkey!InProgress
        <3> QED
            BY <3>1 DEF OneActive, PageTypes
    <2>6. Passkey!OwnAnswer'
        BY <2>1, <2>2, <2>4 DEF Passkey!OwnAnswer
    <2>7. \A u \in Tabs : overlay[u] # r
        BY <2>2 DEF Placed
    <2>8. \A u \in Tabs : \A q \in Requests : overlay'[u] = q => prompt'[q] \notin {"none", "stash", "lost"}
        BY <2>1, <2>3, <2>7 DEF OneActive
    <2>9. ASSUME NEW u \in Tabs \ crowded'
          PROVE  /\ overlay'[u] # None => active'[u] = overlay'[u]
                 /\ \A q \in Requests : prompt'[q] = "stash" /\ page'[q].tab = u => active'[u] = q
        BY <2>1, <2>2, <2>3, <2>4, <2>5 DEF OneActive
    <2> QED
        BY <2>6, <2>8, <2>9 DEF OneActive
<1>2. ASSUME NEW r \in Requests, Passkey!Stash(r)
      PROVE  Own'
    <2>1. Called(r)
        BY <1>2 DEF Passkey!Stash, Placed
    <2>2. /\ overlay'[page[r].tab] = r
          /\ \A u \in Tabs \ {page[r].tab} : overlay'[u] = overlay[u]
        BY <1>2, <2>1 DEF Passkey!Stash, Passkey!Shown, PageTypes, Called
    <2>3. /\ prompt'[r] = "loading"
          /\ \A q \in Requests \ {r} : prompt'[q] \in {prompt[q], "gone"}
        BY <1>2 DEF Passkey!Stash, Passkey!WithoutPrompt, PageTypes
    <2> QED
        BY <1>2, <2>1, <2>2, <2>3 DEF Passkey!Stash, Passkey!History, Called, OneActive, Passkey!OwnAnswer
<1>3. ASSUME NEW r \in Requests, Passkey!StashLost(r)
      PROVE  Own'
    <2>1. prompt'[r] = "lost" /\ \A q \in Requests \ {r} : prompt'[q] = prompt[q]
        BY <1>3 DEF Passkey!StashLost, PageTypes
    <2> QED
        BY <1>3, <2>1 DEF Passkey!StashLost, Passkey!History, OneActive, Passkey!OwnAnswer
<1>4. ASSUME NEW r \in Requests, Passkey!LoadPrompt(r)
      PROVE  Own'
    BY <1>4 DEF Passkey!LoadPrompt, Passkey!Ready, Passkey!History, OneActive, Passkey!OwnAnswer, PageTypes
<1>5. ASSUME NEW r \in Requests, Passkey!UnlockHere(r)
      PROVE  Own'
    BY <1>5 DEF Passkey!UnlockHere, OneActive, Passkey!OwnAnswer, PageTypes
<1>6. ASSUME NEW r \in Requests, Passkey!CancelButton(r)
      PROVE  Own'
    <2>1. Called(r)
        BY <1>6 DEF Passkey!CancelButton, Placed
    <2> QED
        BY <1>6, <2>1, RelayedOwn DEF Passkey!CancelButton
<1>7. ASSUME NEW r \in Requests, NEW c \in Passkey!Credentials, Passkey!Begin(r, c)
      PROVE  Own'
    BY <1>7 DEF Passkey!Begin, OneActive, Passkey!OwnAnswer, PageTypes
<1>8. ASSUME NEW r \in Requests, Passkey!ChangeTree(r)
      PROVE  Own'
    <2>1. \A q \in Requests : prompt'[q] \in {prompt[q], "confirm"}
        BY <1>8 DEF Passkey!ChangeTree, PageTypes
    <2> QED
        BY <1>8, <2>1 DEF Passkey!ChangeTree, Passkey!History, OneActive, Passkey!OwnAnswer
<1>9. ASSUME NEW r \in Requests, Passkey!Persist(r)
      PROVE  Own'
    BY <1>9 DEF Passkey!Persist, Passkey!History, OneActive, Passkey!OwnAnswer
<1>10. ASSUME NEW r \in Requests, Passkey!PersistFails(r)
       PROVE  Own'
    <2>1. \A q \in Requests : prompt'[q] \in {prompt[q], "confirm"}
        BY <1>10 DEF Passkey!PersistFails, PageTypes
    <2> QED
        BY <1>10, <2>1 DEF Passkey!PersistFails, Passkey!History, OneActive, Passkey!OwnAnswer
<1>11. ASSUME NEW r \in Requests, Passkey!Answer(r)
       PROVE  Own'
    <2>1. Called(r)
        BY <1>11 DEF Passkey!Answer, Passkey!AnswerWhenSaved, Placed
    <2> QED
        BY <1>11, <2>1, RelayedOwn DEF Passkey!Answer
<1>12. ASSUME NEW t \in Tabs, Passkey!Escape(t)
       PROVE  Own'
    <2>1. /\ \A q \in Requests : page'[q].tab = page[q].tab
          /\ \A q \in Requests : page'[q].answer \in {page[q].answer, "refused"}
        BY <1>12, SettledPlaces DEF Passkey!Escape, Passkey!SettledIfAny, PageTypes, Passkey!Answers
    <2>2. overlay[t] \in Requests /\ crowded' = crowded
        BY <1>12 DEF Passkey!Escape, PageTypes, Passkey!History
    <2>3. prompt'[overlay[t]] = "gone" /\ \A q \in Requests \ {overlay[t]} : prompt'[q] = prompt[q]
        BY <1>12, <2>2 DEF Passkey!Escape, Passkey!WithoutPrompt, PageTypes
    <2>4. /\ active'[t] = None /\ overlay'[t] = None
          /\ \A u \in Tabs \ {t} : active'[u] = active[u] /\ overlay'[u] = overlay[u]
        BY <1>12 DEF Passkey!Escape, PageTypes
    <2>5. t \in crowded \/ active[t] = overlay[t]
        BY <2>2 DEF OneActive
    <2>6. Passkey!OwnAnswer'
        BY <2>1, <2>2 DEF Passkey!OwnAnswer
    <2> QED
        BY <2>1, <2>2, <2>3, <2>4, <2>5, <2>6 DEF OneActive
<1>13. CASE Passkey!Lock
    BY <1>13 DEF Passkey!Lock, Passkey!History, OneActive, Passkey!OwnAnswer
<1>14. CASE Passkey!Restart
    BY <1>14 DEF Passkey!Restart, Passkey!History, OneActive, Passkey!OwnAnswer
<1>15. CASE UNCHANGED Passkey!vars
    BY <1>15 DEF Passkey!vars, OneActive, Passkey!OwnAnswer
<1> QED
    BY <1>1, <1>2, <1>3, <1>4, <1>5, <1>6, <1>7, <1>8, <1>9, <1>10, <1>11, <1>12, <1>13, <1>14,
       <1>15 DEF Passkey!Next

----------------------------------------------------------------------------
(* What the vault's file has of what pages are told.                       *)

\* A ceremony is past the file until its save, and then past what pages were told.
InStep(r) ==
    LET c == job[r].cred
        n == job[r].count
    IN  /\ ~job[r].stale
        /\ job[r].pc \in {"sign", "persist"} => (c \in DOMAIN saved => saved[c] < n)
        /\ job[r].pc = "persist" =>
             /\ Behind(saved, job[r].data) /\ c \in DOMAIN job[r].data /\ job[r].data[c] = n
             /\ unlocked => Behind(job[r].data, tree)
        /\ job[r].pc = "answer" =>
             /\ c \in DOMAIN saved /\ saved[c] = n
             /\ \A x \in told : x[1] = c => x[2] < n

Told == \A x \in told : x[1] \in DOMAIN saved /\ x[2] <= saved[x[1]]
Fresh == \A x, y \in told : x[1] = y[1] /\ x[2] = y[2] => x = y

Follows ==
    /\ told \subseteq Passkey!Credentials \X Nat \X Requests
    /\ ~together =>
         /\ Told /\ Fresh
         /\ unlocked => Behind(saved, tree)
         /\ \A q, r \in Passkey!Working : q = r
         /\ \A r \in Requests : InStep(r)

\* An answer tells at most this one thing.
LEMMA RelayedTold ==
    ASSUME NEW r, NEW answer, NEW told2, Passkey!Relayed(r, answer, told2)
    PROVE  told' \in {told, told \cup told2}
BY DEF Passkey!Relayed

LEMMA FollowsStep ==
    ASSUME PageTypes, Follows, [Passkey!Next]_Passkey!vars
    PROVE  Follows'
<1> USE DEF Follows
<1> DEFINE SameJob == UNCHANGED <<unlocked, tree, saved, job, told, together>>
<1>1. ASSUME SameJob
      PROVE  Follows'
    BY <1>1 DEF InStep, Told, Fresh, Passkey!Working, Behind
<1>2. ASSUME NEW r \in Requests, Passkey!UnlockHere(r)
      PROVE  Follows'
    <2>1. ASSUME ~together'
          PROVE  Passkey!Working = {} /\ ~together
        BY <1>2, <2>1 DEF Passkey!UnlockHere
    <2>2. ASSUME ~together', NEW q \in Requests
          PROVE  job'[q].pc = "none" /\ ~job'[q].stale
        <3>1. q \notin Passkey!Working /\ job[q].pc = "none"
            BY <2>1, <2>2 DEF Passkey!Working
        <3>2. job'[q] = [job[q] EXCEPT !.stale = q \in Passkey!Working]
            BY <1>2 DEF Passkey!UnlockHere
        <3>3. job[q] \in Jobs
            BY DEF PageTypes
        <3> QED
            BY <3>1, <3>2, <3>3 DEF Jobs
    <2>3. Behind(saved, saved)
        BY BehindItself DEF PageTypes
    <2> QED
        BY <1>2, <2>1, <2>2, <2>3 DEF Passkey!UnlockHere, InStep, Told, Fresh, Passkey!Working, Behind
<1>3. ASSUME NEW r \in Requests, NEW c \in Passkey!Credentials, Passkey!Begin(r, c)
      PROVE  Follows'
    <2>1. ASSUME ~together'
          PROVE  Passkey!Working = {} /\ ~together
        BY <1>3, <2>1 DEF Passkey!Begin
    <2>2. /\ job'[r] = [pc |-> "sign", cred |-> c, data |-> None, stale |-> FALSE, count |-> Passkey!NextCount(c)]
          /\ \A q \in Requests \ {r} : job'[q] = job[q]
        BY <1>3 DEF Passkey!Begin, PageTypes
    <2>3. ASSUME ~together', c \in DOMAIN saved
          PROVE  saved[c] < Passkey!NextCount(c)
        <3>1. c \in DOMAIN tree /\ saved[c] <= tree[c]
            BY <1>3, <2>1, <2>3 DEF Passkey!Begin, Behind
        <3>2. saved[c] \in Nat /\ tree[c] \in Nat
            BY <2>3, <3>1, CountersAreNumbers DEF PageTypes
        <3> QED
            BY <3>1, <3>2 DEF Passkey!NextCount, Passkey!Candidates
    <2> QED
        BY <1>3, <2>1, <2>2, <2>3 DEF Passkey!Begin, Passkey!Vault, InStep, Told, Fresh, Passkey!Working
<1>4. ASSUME NEW r \in Requests, Passkey!ChangeTree(r)
      PROVE  Follows'
    <2> DEFINE c == job[r].cred
               n == job[r].count
    <2>1. UNCHANGED <<unlocked, saved, told, together>> /\ r \in Passkey!Working /\ job[r] \in Jobs
        BY <1>4 DEF Passkey!ChangeTree, Passkey!Vault, Passkey!History, Passkey!Working, PageTypes
    <2>2. CASE unlocked /\ ~together
        <3>1. ~job[r].stale /\ (c \in DOMAIN saved => saved[c] < n) /\ n \in Nat
            BY <1>4, <2>1, <2>2 DEF Passkey!ChangeTree, InStep, Jobs
        <3>2. tree' = Passkey!With(tree, c, n)
            BY <1>4, <2>2, <3>1 DEF Passkey!ChangeTree
        <3>3. Behind(saved, tree') /\ c \in DOMAIN tree' /\ tree'[c] = n
            BY <2>2, <3>1, <3>2, BehindWith DEF PageTypes
        <3>4. tree' \in Counters
            BY <1>4, <3>1, <3>2, WithCounters DEF PageTypes, JobOK, Passkey!ChangeTree
        <3>5. Behind(tree', tree')
            BY <3>4, BehindItself
        <3>6. /\ job'[r].pc = "persist" /\ job'[r].data = tree' /\ job'[r].cred = c
              /\ job'[r].count = n /\ ~job'[r].stale
              /\ \A q \in Requests \ {r} : job'[q] = job[q] /\ job[q].pc = "none"
            BY <1>4, <2>1, <2>2, <3>1 DEF Passkey!ChangeTree, PageTypes, Jobs, Passkey!Working
        <3> HIDE DEF c, n
        <3>7. InStep(r)'
            BY <2>1, <3>1, <3>3, <3>5, <3>6 DEF InStep
        <3>8. \A q \in Requests \ {r} : InStep(q)'
            BY <2>2, <3>6 DEF InStep
        <3> QED
            BY <2>1, <2>2, <3>3, <3>6, <3>7, <3>8 DEF Told, Fresh, Passkey!Working
    <2>3. CASE ~unlocked /\ ~together
        <3>1. /\ job'[r] = Passkey!NoJob /\ \A q \in Requests \ {r} : job'[q] = job[q]
              /\ UNCHANGED tree
            BY <1>4, <2>3 DEF Passkey!ChangeTree, PageTypes
        <3> QED
            BY <2>1, <2>3, <3>1 DEF InStep, Told, Fresh, Passkey!Working, Passkey!NoJob
    <2>4. CASE together
        BY <2>1, <2>4
    <2> QED
        BY <2>2, <2>3, <2>4
<1>5. ASSUME NEW r \in Requests, Passkey!Persist(r)
      PROVE  Follows'
    <2>1. /\ UNCHANGED <<unlocked, tree, told, together>>
          /\ r \in Passkey!Working /\ job[r] \in Jobs
          /\ job'[r].pc = "answer" /\ job'[r].cred = job[r].cred
          /\ job'[r].count = job[r].count /\ job'[r].stale = job[r].stale
          /\ \A q \in Requests \ {r} : job'[q] = job[q]
          /\ saved' = job[r].data
        BY <1>5 DEF Passkey!Persist, Passkey!History, PageTypes, Jobs, Passkey!Working
    <2>2. ASSUME ~together
          PROVE  Follows'
        <3>1. \A q \in Requests \ {r} : job[q].pc = "none"
            BY <2>1, <2>2 DEF Passkey!Working
        <3>2. InStep(r)
            BY <2>2
        <3>3. Behind(saved, saved') /\ (unlocked => Behind(saved', tree))
            BY <1>5, <2>1, <3>2 DEF InStep, Passkey!Persist
        <3>4. saved \in Counters /\ saved' \in Counters
            BY <1>5, <2>1 DEF PageTypes, JobOK, Passkey!Persist
        <3>5. ASSUME NEW x \in told
              PROVE  /\ x[1] \in DOMAIN saved /\ x[2] <= saved[x[1]]
                     /\ x[1] \in DOMAIN saved' /\ x[2] <= saved'[x[1]]
                     /\ x[1] = job[r].cred => x[2] < job[r].count
            <4>1. x[1] \in DOMAIN saved /\ x[2] <= saved[x[1]] /\ x[2] \in Nat
                BY <2>2, <3>5 DEF Told
            <4>2. x[1] \in DOMAIN saved' /\ saved[x[1]] <= saved'[x[1]]
                BY <3>3, <4>1 DEF Behind
            <4>3. saved[x[1]] \in Nat /\ saved'[x[1]] \in Nat
                BY <3>4, <4>1, <4>2, CountersAreNumbers
            <4>4. x[1] = job[r].cred => saved[x[1]] < job[r].count
                BY <1>5, <3>2, <4>1 DEF InStep, Passkey!Persist
            <4>5. job[r].count \in Nat
                BY <2>1 DEF Jobs
            <4> QED
                BY <4>1, <4>2, <4>3, <4>4, <4>5
        <3>6. InStep(r)'
            BY <1>5, <2>1, <3>2, <3>5 DEF InStep, Passkey!Persist
        <3>7. \A q \in Requests \ {r} : InStep(q)'
            BY <2>1, <2>2, <3>1 DEF InStep
        <3>8. Told'
            BY <2>1, <3>5 DEF Told
        <3> QED
            BY <2>1, <2>2, <3>1, <3>3, <3>6, <3>7, <3>8 DEF Fresh, Passkey!Working
    <2> QED
        BY <2>1, <2>2
<1>6. ASSUME NEW r \in Requests, Passkey!PersistFails(r)
      PROVE  Follows'
    <2>1. job'[r] = Passkey!NoJob /\ \A q \in Requests \ {r} : job'[q] = job[q]
        BY <1>6 DEF Passkey!PersistFails, PageTypes
    <2> QED
        BY <1>6, <2>1 DEF Passkey!PersistFails, Passkey!Vault, Passkey!History, InStep, Told, Fresh, Passkey!Working, Passkey!NoJob
<1>7. ASSUME NEW r \in Requests, Passkey!Answer(r)
      PROVE  Follows'
    <2> DEFINE new == <<job[r].cred, job[r].count, r>>
    <2>1. /\ UNCHANGED <<unlocked, tree, saved, together>> /\ r \in Passkey!Working
          /\ job'[r] = Passkey!NoJob /\ \A q \in Requests \ {r} : job'[q] = job[q]
          /\ job[r].pc = "answer" /\ job[r] \in Jobs /\ job[r].cred \in Passkey!Credentials
        BY <1>7 DEF Passkey!Answer, Passkey!AnswerWhenSaved, Passkey!Vault, PageTypes, JobOK, Passkey!Working
    <2>2. told' \in {told, told \cup {new}}
        BY <1>7, RelayedTold DEF Passkey!Answer
    <2>3. told' \subseteq Passkey!Credentials \X Nat \X Requests
        BY <2>1, <2>2 DEF Jobs
    <2>4. ASSUME ~together
          PROVE  Told' /\ Fresh' /\ (\A q \in Requests : InStep(q)') /\ \A p, q \in Passkey!Working' : p = q
        <3>1. \A q \in Requests \ {r} : job[q].pc = "none"
            BY <2>1, <2>4 DEF Passkey!Working
        <3>2. /\ job[r].cred \in DOMAIN saved /\ saved[job[r].cred] = job[r].count
              /\ \A x \in told : x[1] = job[r].cred => x[2] < job[r].count
            BY <2>1, <2>4 DEF InStep
        <3>3. job[r].count \in Nat /\ \A x \in told : x[2] \in Nat
            BY <2>1 DEF Jobs
        <3>4. Told'
            BY <2>1, <2>2, <2>4, <3>2, <3>3 DEF Told
        <3>5. Fresh'
            BY <2>1, <2>2, <2>4, <3>2, <3>3 DEF Fresh
        <3>6. ASSUME NEW q \in Requests
              PROVE  InStep(q)' /\ job'[q].pc = "none"
            BY <2>1, <2>4, <3>1 DEF InStep, Passkey!NoJob
        <3> QED
            BY <3>4, <3>5, <3>6 DEF Passkey!Working
    <2> QED
        BY <2>1, <2>3, <2>4
<1>8. CASE Passkey!Lock
    BY <1>8 DEF Passkey!Lock, Passkey!History, InStep, Told, Fresh, Passkey!Working
<1>9. CASE Passkey!Restart
    <2>1. \A q \in Requests : job'[q] = Passkey!NoJob
        BY <1>9 DEF Passkey!Restart
    <2> QED
        BY <1>9, <2>1 DEF Passkey!Restart, Passkey!History, InStep, Told, Fresh, Passkey!Working, Passkey!NoJob
<1>10. ASSUME NEW r \in Requests, Passkey!CancelButton(r)
       PROVE  SameJob
    BY <1>10, RelayedTold DEF Passkey!CancelButton, Passkey!Vault
<1>11. ASSUME NEW r \in Requests, \/ Passkey!Stash(r) \/ Passkey!StashLost(r) \/ Passkey!LoadPrompt(r)
                                  \/ \E t \in Tabs, kind \in {"create", "get"} : Passkey!Call(r, t, kind)
       PROVE  SameJob
    BY <1>11 DEF Passkey!Stash, Passkey!StashLost, Passkey!LoadPrompt, Passkey!Call, Passkey!Vault, Passkey!History
<1>12. ASSUME NEW t \in Tabs, Passkey!Escape(t)
       PROVE  SameJob
    BY <1>12 DEF Passkey!Escape, Passkey!Vault, Passkey!History
<1>13. CASE UNCHANGED Passkey!vars
    BY <1>1, <1>13 DEF Passkey!vars
<1> HIDE DEF SameJob
<1> QED
    BY <1>1, <1>2, <1>3, <1>4, <1>5, <1>6, <1>7, <1>8, <1>9, <1>10, <1>11, <1>12, <1>13 DEF Passkey!Next

----------------------------------------------------------------------------
(* The theorems.                                                           *)

LEMMA TypesTypeOK == PageTypes => Passkey!TypeOK
BY DEF PageTypes, Passkey!TypeOK, Pages, Jobs, Counters

LEMMA OwnInit ==
    ASSUME MaxFaults \in Nat, None \notin Requests, Passkey!Init
    PROVE  PageTypes /\ Placed /\ Own
<1>1. Own
    BY DEF Passkey!Init, Own, OneActive, Passkey!OwnAnswer
<1> QED
    BY <1>1, TypesInit

LEMMA FollowsInit ==
    ASSUME MaxFaults \in Nat, Passkey!Init
    PROVE  PageTypes /\ Placed /\ Follows
<1>1. PageTypes /\ Placed
    BY TypesInit
<1>2. told = {} /\ ~unlocked /\ Passkey!Working = {} /\ \A r \in Requests : job[r] = Passkey!NoJob
    BY DEF Passkey!Init, Passkey!Working, Passkey!NoJob
<1>3. Follows
    BY <1>2 DEF Follows, Told, Fresh, InStep, Passkey!NoJob
<1> QED
    BY <1>1, <1>3

LEMMA FollowsTold == Follows => Passkey!ToldOfSavedPasskeys /\ Passkey!CountersFresh
BY DEF Follows, Told, Fresh, Passkey!ToldOfSavedPasskeys, Passkey!CountersFresh

\* A page's promise settles with the outcome of its own prompt, in a tab where no call was
\* made while another was in progress: for any pages, tabs, faults, and order of prompts.
THEOREM AnswersAreOwn ==
    ASSUME MaxFaults \in Nat, None \notin Requests, "refused" \notin Requests
    PROVE  Passkey!Spec => []Passkey!OwnAnswer
<1>1. PageTypes /\ Placed /\ Own /\ [Passkey!Next]_Passkey!vars => (PageTypes /\ Placed /\ Own)'
    BY TypesStep, PlacedStep, OwnStep
<1>2. Own => Passkey!OwnAnswer
    BY DEF Own
<1> QED
    BY <1>1, <1>2, OwnInit, PTL DEF Passkey!Spec

\* Pages are told of credentials and counters that the vault's file has or is past, and of
\* no counter twice, for any number of ceremonies, locks, failed saves and restarts.
THEOREM CeremoniesAreSaved ==
    ASSUME MaxFaults \in Nat
    PROVE  Passkey!Spec => [](Passkey!ToldOfSavedPasskeys /\ Passkey!CountersFresh)
<1>1. PageTypes /\ Placed /\ Follows /\ [Passkey!Next]_Passkey!vars => (PageTypes /\ Placed /\ Follows)'
    BY TypesStep, PlacedStep, FollowsStep
<1> QED
    BY <1>1, FollowsInit, FollowsTold, PTL DEF Passkey!Spec

-----------------------------------------------------------------------------
(* Both bridges.                                                           *)

\* A step of the run is one of each module: a step of its own, or none.
LEMMA BridgesStep ==
    ASSUME [BridgesNext]_<<subject, vars, passkeyVars>>
    PROVE  [Next]_vars /\ [Passkey!Next]_Passkey!vars
<1>1. UNCHANGED passkeyVars => UNCHANGED Passkey!vars
    BY DEF passkeyVars, Passkey!vars
<1>2. [Next]_vars /\ [Passkey!Next]_Passkey!vars
    BY <1>1 DEF BridgesNext
<1> QED BY <1>2

LEMMA BridgesBegin == BridgesInit => Init /\ Passkey!Init
BY DEF BridgesInit

\* So the run has the behaviours of NativeHost, with what is proved of them above.
THEOREM BridgesRunNativeHost == BridgesSpec => Spec
<1>1. [BridgesNext]_<<subject, vars, passkeyVars>> => [Next]_vars
    BY BridgesStep
<1> QED BY <1>1, BridgesBegin, PTL DEF BridgesSpec, Spec

\* The types of the protocol of the native host and of the passkey ceremonies.
THEOREM BridgesTyped ==
    ASSUME MaxFaults \in Nat
    PROVE  BridgesSpec => []TypesOK
<1>1. BridgesInit => IInv /\ PageTypes /\ Placed
    BY BridgesBegin, InitIInv, TypesInit
<1>2. IInv /\ PageTypes /\ Placed /\ [BridgesNext]_<<subject, vars, passkeyVars>>
        => (IInv /\ PageTypes /\ Placed)'
    BY BridgesStep, NextIInv, TypesStep, PlacedStep
<1>3. IInv /\ PageTypes => TypesOK
    <2>1. PageTypes => Passkey!TypeOK
        BY TypesTypeOK
    <2> QED BY <2>1 DEF TypesOK, IInv
<1> QED BY <1>1, <1>2, <1>3, PTL DEF BridgesSpec

\* A page's promise settles with the outcome of its own prompt, in a tab where no call was
\* made while another was in progress: for any pages, tabs, faults, and order of prompts.
THEOREM BridgesAnswerOwn ==
    ASSUME MaxFaults \in Nat, None \notin Requests, "refused" \notin Requests
    PROVE  BridgesSpec => []OwnAnswer
<1>1. BridgesInit => PageTypes /\ Placed /\ Own
    BY BridgesBegin, OwnInit
<1>2. PageTypes /\ Placed /\ Own /\ [BridgesNext]_<<subject, vars, passkeyVars>>
        => (PageTypes /\ Placed /\ Own)'
    BY BridgesStep, TypesStep, PlacedStep, OwnStep
<1>3. Own => OwnAnswer
    BY DEF Own, OwnAnswer
<1> QED BY <1>1, <1>2, <1>3, PTL DEF BridgesSpec

\* Pages are told of credentials and counters that the vault's file has or is past, and of
\* no counter twice, for any number of ceremonies, locks, failed saves and restarts.
THEOREM BridgesSaveCeremonies ==
    ASSUME MaxFaults \in Nat
    PROVE  BridgesSpec => []CeremoniesSaved
<1>1. BridgesInit => PageTypes /\ Placed /\ Follows
    BY BridgesBegin, FollowsInit
<1>2. PageTypes /\ Placed /\ Follows /\ [BridgesNext]_<<subject, vars, passkeyVars>>
        => (PageTypes /\ Placed /\ Follows)'
    BY BridgesStep, TypesStep, PlacedStep, FollowsStep
<1>3. Follows => CeremoniesSaved
    BY FollowsTold DEF CeremoniesSaved
<1> QED BY <1>1, <1>2, <1>3, PTL DEF BridgesSpec
=============================================================================
