--------------------------------- MODULE DriveAccess ---------------------------------
(***************************************************************************)
(* The access to Google Drive: tokens of an implicit grant, kept sealed    *)
(* under a key of the device, renewed without asking when Google still     *)
(* knows the user, and tried a second time when a request is refused.      *)
(*                                                                         *)
(* Source: providers/gdrive.ts, oauth-token-store.ts, storage/             *)
(* device-secret.ts and opfs-kv-store.ts of packages/web.  The background  *)
(* and an extension page each load these modules: each has its own memo of *)
(* the key and, where OPFS is refused, files of its own in memory.  Google *)
(* is outside: it issues tokens, and stops accepting them when it likes.   *)
(* Nothing calls disconnectGoogleDrive.                                    *)
(***************************************************************************)
EXTENDS Integers, FiniteSets

CONSTANTS
    Contexts,       \* "background" and "page"
    Calls,          \* calls that may be under way
    ContextOf,      \* of each call, where it runs
    MaxTokens,      \* bound: tokens Google issues
    MaxRestarts     \* bound: contexts that end and start again

VARIABLES
    memory,         \* the contexts whose files are in memory
    keyFile,        \* device-secret.bin of each store, 0 for none
    tokenFile,      \* oauth-gdrive.json of each store
    memo, making,   \* of each context: its key, and one that it is writing
    cached,         \* of each context, the token its provider holds
    live, late,     \* tokens that Google accepts, and that expired by our clock
    known,          \* Google answers without asking the user
    issued, keys, restarts,
    together,       \* history: two contexts found no key at the same time
    call

store == <<keyFile, tokenFile>>
google == <<live, late, known, issued>>
vars == <<memory, store, memo, making, cached, google, keys, restarts, together, call>>

Stores == Contexts \cup {"disk"}
StoreOf(x) == IF x \in memory THEN x ELSE "disk"
NoToken == [key |-> 0, token |-> 0]
Idle == [pc |-> "idle", connects |-> FALSE, record |-> NoToken, token |-> 0, forced |-> FALSE,
         retry |-> TRUE, result |-> "none", since |-> 0, good |-> FALSE]

Init ==
    /\ memory \in SUBSET Contexts
    /\ keyFile = [s \in Stores |-> 0] /\ tokenFile = [s \in Stores |-> NoToken]
    /\ memo = [x \in Contexts |-> 0] /\ making = [x \in Contexts |-> 0] /\ cached = [x \in Contexts |-> 0]
    /\ live = {} /\ late = {} /\ known \in BOOLEAN /\ issued = 0
    /\ keys = 0 /\ restarts = 0 /\ together = FALSE
    /\ call = [c \in Calls |-> Idle]

Become(c, r) == call' = [call EXCEPT ![c] = r]
Goto(c, pc) == Become(c, [call[c] EXCEPT !.pc = pc])
Ends(c, result) == Become(c, [call[c] EXCEPT !.pc = "done", !.result = result])
OnlyCalls == UNCHANGED <<memory, store, memo, making, google, keys, restarts, together>>

----------------------------------------------------------------------------
(* device-secret.ts: each context reads the key once, or makes one.        *)

Wanted(x) == \E c \in Calls : ContextOf[c] = x /\ call[c].pc \in {"open", "seal"}

\* Without the look for a key that is there.
AlwaysMake(x) == 0
FoundKey(x) == keyFile[StoreOf(x)]
LoadOrGenerate(x) ==
    /\ Wanted(x) /\ memo[x] = 0 /\ making[x] = 0
    /\ IF FoundKey(x) # 0
       THEN memo' = [memo EXCEPT ![x] = FoundKey(x)] /\ UNCHANGED <<making, keys, together>>
       ELSE /\ keys' = keys + 1 /\ making' = [making EXCEPT ![x] = keys + 1]
            /\ together' = (together \/ \E y \in Contexts : making[y] # 0 /\ StoreOf(y) = StoreOf(x))
            /\ UNCHANGED memo
    /\ UNCHANGED <<memory, store, cached, google, restarts, call>>
WriteKey(x) ==
    /\ making[x] # 0
    /\ keyFile' = [keyFile EXCEPT ![StoreOf(x)] = making[x]]
    /\ memo' = [memo EXCEPT ![x] = making[x]] /\ making' = [making EXCEPT ![x] = 0]
    /\ UNCHANGED <<memory, tokenFile, cached, google, keys, restarts, together, call>>

----------------------------------------------------------------------------
(* getAccessToken, authorizedFetch and connectGoogleDrive.                 *)

\* What the store holds opens, is accepted and is not late, and no older one is in the way.
Good(x) ==
    LET r == tokenFile[StoreOf(x)]
    IN  cached[x] = 0 /\ r.token \in live \ late /\ memo[x] = r.key

Request(c) ==
    LET x == ContextOf[c]
        r == [Idle EXCEPT !.since = issued, !.good = Good(x), !.token = cached[x]]
    IN  /\ call[c].pc = "idle"
        /\ Become(c, [r EXCEPT !.pc = IF cached[x] # 0 THEN "fetch" ELSE "load"])
        /\ OnlyCalls /\ UNCHANGED cached

Connect(c) ==
    /\ call[c].pc = "idle" /\ ContextOf[c] = "page"
    /\ Become(c, [Idle EXCEPT !.pc = "authorize", !.connects = TRUE])
    /\ OnlyCalls /\ UNCHANGED cached

LoadTokens(c) ==
    LET r == tokenFile[StoreOf(ContextOf[c])]
    IN  /\ call[c].pc = "load"
        /\ IF r = NoToken THEN Ends(c, "sign in") ELSE Become(c, [call[c] EXCEPT !.pc = "open", !.record = r])
        /\ OnlyCalls /\ UNCHANGED cached

\* A record that does not open is an error of its own: the caller is not asked to sign in.
\* If a token that has not expired were renewed as well.
RenewAlways(r, forced) == TRUE
Renew(r, forced) == forced \/ r.token \in late
Open(c) ==
    LET x == ContextOf[c]
        r == call[c].record
    IN  /\ call[c].pc = "open" /\ memo[x] # 0
        /\ IF r.key # memo[x] THEN Ends(c, "error") /\ UNCHANGED cached
           ELSE IF Renew(r, call[c].forced) THEN Goto(c, "authorize") /\ UNCHANGED cached
           ELSE Become(c, [call[c] EXCEPT !.pc = "fetch", !.token = r.token]) /\ cached' = [cached EXCEPT ![x] = r.token]
        /\ OnlyCalls

\* authorizeImplicit: Google asks the user only when it may show itself.
Authorize(c) ==
    /\ call[c].pc = "authorize" /\ issued < MaxTokens
    /\ call[c].connects \/ known
    /\ issued' = issued + 1 /\ live' = live \cup {issued + 1}
    /\ known' = (known \/ call[c].connects)
    /\ Become(c, [call[c] EXCEPT !.pc = "seal", !.token = issued + 1])
    /\ UNCHANGED <<memory, store, memo, making, cached, late, keys, restarts, together>>
Refused(c) ==
    /\ call[c].pc = "authorize"
    /\ call[c].connects \/ ~known
    /\ Ends(c, IF call[c].connects THEN "cancelled" ELSE "sign in")
    /\ OnlyCalls /\ UNCHANGED cached

\* saveTokens.
Seal(c) ==
    /\ call[c].pc = "seal" /\ memo[ContextOf[c]] # 0
    /\ Become(c, [call[c] EXCEPT !.pc = "save", !.record = [key |-> memo[ContextOf[c]], token |-> call[c].token]])
    /\ OnlyCalls /\ UNCHANGED cached
Save(c) ==
    LET x == ContextOf[c]
    IN  /\ call[c].pc = "save"
        /\ tokenFile' = [tokenFile EXCEPT ![StoreOf(x)] = call[c].record]
        /\ IF call[c].connects THEN Ends(c, "ok") /\ UNCHANGED cached
           ELSE Goto(c, "fetch") /\ cached' = [cached EXCEPT ![x] = call[c].token]
        /\ UNCHANGED <<memory, keyFile, memo, making, google, keys, restarts, together>>

\* A refusal is tried once more, with a token that was asked for anew.
\* Without the forced renewal.
TriedAgain(r) == [r EXCEPT !.pc = "load", !.retry = FALSE]
Forced(r) == [r EXCEPT !.pc = "load", !.retry = FALSE, !.forced = TRUE]
Fetch(c) ==
    /\ call[c].pc = "fetch"
    /\ IF call[c].token \in live THEN Ends(c, "ok")
       ELSE IF call[c].retry THEN Become(c, Forced(call[c])) ELSE Ends(c, "refused")
    /\ cached' = IF call[c].retry THEN [cached EXCEPT ![ContextOf[c]] = call[c].token] ELSE cached
    /\ OnlyCalls

Return(c) == call[c].pc = "done" /\ Become(c, Idle) /\ OnlyCalls /\ UNCHANGED cached

----------------------------------------------------------------------------
(* What happens around them.                                               *)

Rest == UNCHANGED <<memory, store, memo, making, cached, issued, keys, restarts, together, call>>
Expire(t) == t \in live /\ live' = live \ {t} /\ late' = late \cup {t} /\ UNCHANGED known /\ Rest
\* The token is withdrawn, or our clock is slow.
Withdraw(t) == t \in live /\ live' = live \ {t} /\ UNCHANGED <<late, known>> /\ Rest
Forget == known /\ known' = FALSE /\ UNCHANGED <<live, late>> /\ Rest

Restart(x) ==
    /\ restarts < MaxRestarts
    /\ restarts' = restarts + 1
    /\ memo' = [memo EXCEPT ![x] = 0] /\ making' = [making EXCEPT ![x] = 0] /\ cached' = [cached EXCEPT ![x] = 0]
    /\ keyFile' = [keyFile EXCEPT ![x] = 0] /\ tokenFile' = [tokenFile EXCEPT ![x] = NoToken]
    /\ call' = [c \in Calls |-> IF ContextOf[c] = x THEN Idle ELSE call[c]]
    /\ UNCHANGED <<memory, google, keys, together>>

Next ==
    \/ \E x \in Contexts : LoadOrGenerate(x) \/ WriteKey(x) \/ Restart(x)
    \/ \E c \in Calls : \/ Request(c) \/ Connect(c) \/ LoadTokens(c) \/ Open(c) \/ Authorize(c)
                        \/ Refused(c) \/ Seal(c) \/ Save(c) \/ Fetch(c) \/ Return(c)
    \/ \E t \in 1..MaxTokens : Expire(t) \/ Withdraw(t)
    \/ Forget

Spec == Init /\ [][Next]_vars

----------------------------------------------------------------------------
(* Properties.                                                             *)

TypeOK ==
    /\ memory \subseteq Contexts /\ live \cup late \subseteq 1..issued
    /\ \A s \in Stores : keyFile[s] \in 0..keys /\ tokenFile[s].key \in 0..keys /\ tokenFile[s].token \in 0..issued
    /\ \A c \in Calls : call[c].token \in 0..issued

\* The tokens on disk open with the key on disk, unless two contexts found no key at the
\* same time and each made its own.
SealedReadable ==
    together \/ \A s \in Stores : tokenFile[s] = NoToken \/ tokenFile[s].key = keyFile[s]

\* A request is refused only with a token that was issued after it began; and the user
\* is asked to sign in, although a good token was stored, only when Google has stopped
\* accepting that one, or the one the request was first made with.
AskedOnlyWhenNeeded ==
    \A c \in Calls :
        /\ call[c].result = "refused" => call[c].token > call[c].since
        /\ call[c].result = "sign in" /\ call[c].good =>
            ({call[c].record.token, call[c].token} \ {0}) \ live # {}
=============================================================================
