----------------------------- MODULE NativeHost -----------------------------
(***************************************************************************)
(* A local vault in Firefox: the background's provider, the port to its    *)
(* helper process, the helper, and the file, which other programs (and     *)
(* Options, when it creates a vault) replace or delete as they like.       *)
(*                                                                         *)
(* Source: providers/native-file.ts of packages/web and session.rs,        *)
(* vault_file.rs, main.rs of packages/host.  Messages of a port keep their *)
(* order and the helper serves them one by one; between comparing a file's *)
(* tag and renaming its own file over it, others may write.  A content's   *)
(* tag (its SHA-256) is the content itself.  The file is an approved one.  *)
(***************************************************************************)
EXTENDS Integers, Sequences

CONSTANTS
    Foreign,        \* contents other programs write
    Saved,          \* contents Keetar's saves write, each by one save
    Size,           \* READ_CHUNK_BYTES chunks of each content
    Calls,          \* calls of the provider that can be in flight
    MaxSessions,    \* bound: unlock attempts
    None            \* no file, no content, no tag

Contents == Foreign \cup Saved
Sessions == 1..MaxSessions

\* A write between its check and its rename, and whether another has overtaken it.
Renaming == [for : Calls, overtaken : BOOLEAN]
Replacements == [by : Sessions, with : Saved, raced : BOOLEAN]

ASSUME HostAssumption ==
    /\ Foreign \cap Saved = {}
    /\ Size \in [Contents -> Nat \ {0}]
    /\ MaxSessions \in Nat \ {0}
    /\ None \notin Contents \cup Renaming \cup Replacements

VARIABLES
    file,           \* the content of the vault's path, or None
    reading,        \* the helper's snapshot for a read in chunks, or None
    renaming,       \* the write the helper has checked and not finished, or None
    queue,          \* calls whose request waits in the port
    answers,        \* calls whose reply waits in the port
    call,           \* the calls in flight
    session,        \* the unlocked session, 0 if locked
    opened,         \* unlock attempts so far, which number the sessions
    known,          \* lastKnownEtag of each session's provider
    base,           \* the content each session was loaded from
    made            \* history: the contents each session tried to save

hostVars == <<reading, renaming>>
port == <<queue, answers>>
sessionVars == <<session, opened, known, base, made>>
vars == <<file, hostVars, port, call, sessionVars>>

\* A call: the chunks read so far, the content to save and the tag expected, what
\* the helper replied, and (history) whether no other read has overlapped it.
Reply == [is : {"none", "chunk", "written", "refused", "failed"}, part : Seq(Contents),
          etag : Contents \cup {None}, done : BOOLEAN]
Call == [pc : {"idle", "read", "load", "save", "write"}, gen : 0..MaxSessions, chunks : Seq(Contents),
         data : Contents \cup {None}, expected : Contents \cup {None}, reply : Reply,
         lone : BOOLEAN]

NoReply == [is |-> "none", part |-> <<>>, etag |-> None, done |-> FALSE]
Failed == [NoReply EXCEPT !.is = "failed"]
Idle == [pc |-> "idle", gen |-> 0, chunks |-> <<>>, data |-> None, expected |-> None,
         reply |-> NoReply, lone |-> TRUE]

Init ==
    /\ file \in Foreign \cup {None}
    /\ reading = None
    /\ renaming = None
    /\ queue = <<>>
    /\ answers = <<>>
    /\ call = [s \in Calls |-> Idle]
    /\ session = 0
    /\ opened = 0
    /\ known = [g \in Sessions |-> None]
    /\ base = [g \in Sessions |-> None]
    /\ made = [g \in Sessions |-> {}]

Mine(s) == call[s].gen

----------------------------------------------------------------------------
(* The provider.                                                           *)

\* unlock: a new provider reads from offset 0.
StartUnlock(s) ==
    /\ call[s].pc = "idle"
    /\ opened < MaxSessions
    /\ opened' = opened + 1
    /\ call' = [c \in Calls |->
                  IF c = s
                  THEN [Idle EXCEPT !.pc = "read", !.gen = opened + 1,
                                    !.lone = \A d \in Calls : call[d].pc # "read"]
                  ELSE [call[c] EXCEPT !.lone = @ /\ call[c].pc # "read"]]
    /\ queue' = Append(queue, s)
    /\ UNCHANGED <<file, hostVars, answers, session, known, base, made>>

\* A reply with a chunk: ask for the next, or join the chunks.
MoreChunks(s) ==
    LET r == call[s].reply
    IN  /\ answers # <<>> /\ s = Head(answers) /\ call[s].pc = "read"
        /\ r.is = "chunk" /\ ~r.done
        /\ call' = [call EXCEPT ![s].chunks = @ \o r.part, ![s].reply = NoReply]
        /\ queue' = Append(queue, s)
        /\ answers' = Tail(answers)
        /\ UNCHANGED <<file, hostVars, sessionVars>>

LastChunk(s) ==
    LET r == call[s].reply
    IN  /\ answers # <<>> /\ s = Head(answers) /\ call[s].pc = "read"
        /\ r.is = "chunk" /\ r.done
        /\ known' = [known EXCEPT ![Mine(s)] = call[s].reply.etag]
        /\ call' = [call EXCEPT ![s].chunks = @ \o r.part, ![s].pc = "load"]
        /\ answers' = Tail(answers)
        /\ UNCHANGED <<file, hostVars, queue, session, opened, base, made>>

\* Kdbx.load: what is not one whole content does not open.
Whole(chunks, v) == chunks = [i \in 1..Size[v] |-> v]

Load(s) ==
    /\ call[s].pc = "load"
    /\ \/ \E v \in Contents :
            /\ Whole(call[s].chunks, v)
            /\ session' = Mine(s)
            /\ base' = [base EXCEPT ![Mine(s)] = v]
       \/ UNCHANGED <<session, base>>       \* another password, or a torn file
    /\ call' = [call EXCEPT ![s] = Idle]
    /\ UNCHANGED <<file, hostVars, port, opened, known, made>>

Lock ==
    /\ session # 0
    /\ session' = 0
    /\ UNCHANGED <<file, hostVars, port, call, opened, known, base, made>>

\* persist: it takes the session's provider, serialises, and only then writes; the
\* session may have been locked since.
Persist(s) ==
    /\ call[s].pc = "idle" /\ session # 0
    /\ call' = [call EXCEPT ![s] = [Idle EXCEPT !.pc = "save", !.gen = session]]
    /\ UNCHANGED <<file, hostVars, port, sessionVars>>

\* The bytes are those of the session's tree, which holds all it has read and saved.
Write(s) ==
    /\ call[s].pc = "save"
    /\ \E d \in Saved :
        /\ \A g \in Sessions : d \notin made[g]
        /\ made' = [made EXCEPT ![Mine(s)] = @ \cup {d}]
        /\ call' = [call EXCEPT ![s] = [Idle EXCEPT !.pc = "write", !.gen = Mine(s),
                                                    !.data = d, !.expected = known[Mine(s)]]]
    /\ queue' = Append(queue, s)
    /\ UNCHANGED <<file, hostVars, answers, session, opened, known, base>>

Written(s) ==
    /\ answers # <<>> /\ s = Head(answers) /\ call[s].reply.is = "written"
    /\ known' = [known EXCEPT ![Mine(s)] = call[s].reply.etag]
    /\ call' = [call EXCEPT ![s] = Idle]
    /\ answers' = Tail(answers)
    /\ UNCHANGED <<file, hostVars, queue, session, opened, base, made>>

RefusedConflict(s) ==
    /\ answers # <<>> /\ s = Head(answers) /\ call[s].reply.is = "refused"
    /\ call' = [call EXCEPT ![s] = Idle]
    /\ answers' = Tail(answers)
    /\ UNCHANGED <<file, hostVars, queue, sessionVars>>

\* An error fails the unlock or the save; the session and its tree stay.
Refused(s) ==
    /\ answers # <<>> /\ s = Head(answers) /\ call[s].reply.is \in {"refused", "failed"}
    /\ call' = [call EXCEPT ![s] = Idle]
    /\ answers' = Tail(answers)
    /\ UNCHANGED <<file, hostVars, queue, sessionVars>>

----------------------------------------------------------------------------
(* The helper.                                                             *)

Serves(s) == queue # <<>> /\ s = Head(queue) /\ renaming = None
Answer(s, r) ==
    /\ call' = [call EXCEPT ![s].reply = r]
    /\ queue' = Tail(queue)
    /\ answers' = Append(answers, s)

\* The chunk of v from offset k (in chunks) on.
ChunkAt(v, k) ==
    [is |-> "chunk", part |-> IF k < Size[v] THEN <<v>> ELSE <<>>, etag |-> v,
     done |-> k + 1 >= Size[v]]

FreshSnapshot(s) == file
SharedSnapshot(s) == IF reading # None THEN reading ELSE file
Snapshot(s) == IF call[s].chunks = <<>> THEN file ELSE reading

Read(s) ==
    /\ Serves(s) /\ call[s].pc = "read"
    /\ LET v == Snapshot(s)
           r == ChunkAt(v, Len(call[s].chunks))
       IN  \/ /\ v # None
              /\ Answer(s, r)
              /\ reading' = IF r.done THEN None ELSE v
           \/ /\ v = None                \* no file, or no read in progress
              /\ Answer(s, Failed)
              /\ UNCHANGED reading
    /\ UNCHANGED <<file, renaming, sessionVars>>

\* fs::read fails, for a read or for the comparison of a write.
ReadFails(s) ==
    /\ Serves(s)
    /\ call[s].pc = "read" => call[s].chunks = <<>>
    /\ Answer(s, Failed)
    /\ UNCHANGED <<file, hostVars, sessionVars>>

\* write compares the file's tag...
TagMatchesOrNoFile(s) == file \in {None, call[s].expected}
TagMatches(s) == file = call[s].expected

Check(s) ==
    /\ Serves(s) /\ call[s].pc = "write" /\ TagMatches(s)
    /\ renaming' = [for |-> s, overtaken |-> FALSE]
    /\ queue' = Tail(queue)
    /\ UNCHANGED <<file, reading, answers, call, sessionVars>>

Conflict(s) ==
    /\ Serves(s) /\ call[s].pc = "write" /\ ~TagMatches(s)
    /\ Answer(s, [NoReply EXCEPT !.is = "refused"])
    /\ UNCHANGED <<file, hostVars, sessionVars>>

\* ... and later renames its own file over it, or fails to write that one.  After
\* the rename it stats the file, which may fail: the reply is then an error.
Rename ==
    /\ renaming # None
    /\ LET s == renaming.for
           Done == [NoReply EXCEPT !.is = "written", !.etag = call[s].data]
       IN  /\ file' = call[s].data
           /\ \E r \in {Done, Failed} : call' = [call EXCEPT ![s].reply = r]
           /\ answers' = Append(answers, s)
    /\ renaming' = None
    /\ UNCHANGED <<reading, queue, sessionVars>>

WriteFails ==
    /\ renaming # None
    /\ call' = [call EXCEPT ![renaming.for].reply = Failed]
    /\ answers' = Append(answers, renaming.for)
    /\ renaming' = None
    /\ UNCHANGED <<file, reading, queue, sessionVars>>

----------------------------------------------------------------------------
(* The environment.                                                        *)

OtherWrites ==
    /\ \E v \in Foreign \cup {None} : file' = v
    /\ renaming' = IF renaming = None THEN None ELSE [renaming EXCEPT !.overtaken = TRUE]
    /\ UNCHANGED <<reading, port, call, sessionVars>>

\* The helper dies: onDisconnect rejects every pending request; the next request
\* starts a new helper.
InFlight(s) == call[s].pc \in {"read", "write"}

DisconnectRenaming ==
    /\ \E s \in Calls : InFlight(s)
    /\ call' = [s \in Calls |-> IF InFlight(s) THEN Idle ELSE call[s]]
    /\ queue' = <<>>
    /\ answers' = <<>>
    /\ reading' = None
    /\ UNCHANGED <<file, renaming, sessionVars>>

Disconnect ==
    /\ \E s \in Calls : InFlight(s)
    /\ call' = [s \in Calls |-> IF InFlight(s) THEN Idle ELSE call[s]]
    /\ queue' = <<>>
    /\ answers' = <<>>
    /\ reading' = None
    /\ renaming' = None
    /\ UNCHANGED <<file, sessionVars>>

Provider(s) ==
    \/ StartUnlock(s) \/ MoreChunks(s) \/ LastChunk(s) \/ Load(s)
    \/ Persist(s) \/ Write(s) \/ Written(s) \/ Refused(s)

Helper(s) == Read(s) \/ ReadFails(s) \/ Check(s) \/ Conflict(s)

Next ==
    \/ \E s \in Calls : Provider(s) \/ Helper(s)
    \/ Rename \/ WriteFails
    \/ Lock \/ OtherWrites \/ Disconnect

Spec == Init /\ [][Next]_vars

\* The helper serves its port until it dies, and a reply that has arrived is handled:
\* neither waits for anything else.
Fairness ==
    /\ WF_vars(\E s \in Calls : Helper(s))
    /\ WF_vars(Rename \/ WriteFails)
    /\ \A s \in Calls :
        /\ WF_vars(MoreChunks(s) \/ LastChunk(s) \/ Written(s) \/ Refused(s))
        /\ WF_vars(Load(s))

FairSpec == Spec /\ Fairness

----------------------------------------------------------------------------
(* Properties.                                                             *)

TypeOK ==
    /\ file \in Contents \cup {None}
    /\ reading \in Contents \cup {None}
    /\ renaming \in {None} \cup Renaming
    /\ renaming # None => call[renaming.for].pc = "write"
    /\ queue \in Seq(Calls) /\ answers \in Seq(Calls)
    /\ call \in [Calls -> Call]
    /\ session \in 0..MaxSessions /\ opened \in 0..MaxSessions
    /\ known \in [Sessions -> Contents \cup {None}]
    /\ base \in [Sessions -> Contents \cup {None}]
    /\ made \in [Sessions -> SUBSET Saved]

\* Every call in flight has its request or its reply under way, so it ends if the
\* helper goes on or dies.
NoCallForgotten ==
    \A s \in Calls : call[s].pc \in {"read", "write"} =>
        \/ \E i \in 1..Len(queue) : queue[i] = s
        \/ \E i \in 1..Len(answers) : answers[i] = s
        \/ renaming # None /\ renaming.for = s

\* A read that no other read overlapped returns one content, whole, whatever
\* happened to the file between its chunks (session.rs keeps one snapshot).
LoneReadWhole ==
    \A s \in Calls : call[s].pc = "load" /\ call[s].lone =>
        \E v \in Contents : Whole(call[s].chunks, v)

\* What Keetar's file replaces is a content the saving session has loaded or made,
\* unless another program wrote in the moment between the check and the rename.
SaveKeepsOthers ==
    renaming # None /\ ~renaming.overtaken =>
        LET g == Mine(renaming.for) IN file \in {base[g]} \cup made[g]

\* The tag of an unlocked session's provider is that of a content its tree holds.
KnownTagHeld ==
    session # 0 => known[session] \in {base[session]} \cup made[session]

\* Every request ends, answered or rejected, whatever the helper, the file and the
\* other requests do: no read goes on for ever and no save hangs.
RequestsEnd ==
    \A s \in Calls : call[s].pc \in {"read", "write", "load"} ~> call[s].pc = "idle"

\* The contents a session has taken in or made: what it was loaded from, what its
\* unlock is reading, and what it saved.
FirstChunk(s) ==
    IF call[s].chunks # <<>> THEN {call[s].chunks[1]}
    ELSE IF call[s].pc = "read" /\ call[s].reply.is = "chunk" THEN {call[s].reply.part[1]}
    ELSE {}
Taken ==
    [g \in Sessions |-> ({base[g]} \ {None}) \cup made[g]
                          \cup UNION {FirstChunk(s) : s \in {c \in Calls : Mine(c) = g}}]
Replacing ==
    IF renaming = None THEN None
    ELSE [by |-> Mine(renaming.for), with |-> call[renaming.for].data,
          raced |-> renaming.overtaken]

Promise == INSTANCE VaultFile
           WITH Own <- Saved, Holders <- Sessions, holds <- Taken, replacing <- Replacing

\* The port, the helper and its chunks implement the register of VaultFile: each
\* read takes effect at the moment of its first chunk.
ImplementsVaultFile == Promise!Spec

\* A save that is about to be refused because the file changed since it was opened
\* is not refused because of a save of its own session.
ConflictIsReal ==
    \A s \in Calls :
        Serves(s) /\ call[s].pc = "write" /\ ~TagMatches(s) => file \notin made[Mine(s)]

=============================================================================
