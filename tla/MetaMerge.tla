-------------------------------- MODULE MetaMerge --------------------------------
(***************************************************************************)
(* The settings of a database that several clients change and merge.       *)
(*                                                                         *)
(* Source: the setters and merge of kdbx/kdbx-meta.ts, and the edit state  *)
(* of kdbx/kdbx.ts, used as their comments say: what a client edited is    *)
(* kept over restarts and forgotten when it has pushed.  A setting has a   *)
(* date of its own, shares one, or has none: then a mark of the edit state *)
(* says that it was changed here.  Dates of different changes differ.      *)
(***************************************************************************)
EXTENDS Naturals, FiniteSets

CONSTANTS
    Clients,
    Values,         \* of settings
    Keys,           \* of custom icons and custom data
    MaxClock,       \* bound: changes made
    None

VARIABLES
    meta,           \* the settings each client holds
    server,         \* those that were pushed
    base,           \* pushes, and those each client has merged
    clock,
    wrote,          \* history: of each date, what its group of settings was set to
    mine,           \* history: undated settings a user changed and has not pushed
    gone            \* history: icons and custom data a user removed

vars == <<meta, server, base, clock, wrote, mine, gone>>

----------------------------------------------------------------------------
Settings == {"name", "recycleBinEnabled", "recycleBinUuid", "color"}
\* recycleBinChanged is the date of two settings.
Dated == [name |-> {"name"}, bin |-> {"recycleBinEnabled", "recycleBinUuid"}]
Undated == {"color"}
Dates == DOMAIN Dated
Part(m, d) == [s \in Dated[d] |-> m.value[s]]

Meta(v) == [value |-> [s \in Settings |-> v], changed |-> [d \in Dates |-> 0], marked |-> {},
            item |-> [k \in Keys |-> 0], dead |-> {}]

Init ==
    /\ \E v \in Values : server = Meta(v) /\ meta = [c \in Clients |-> Meta(v)]
    /\ base = [pushes |-> 0, merged |-> [c \in Clients |-> 0]]
    /\ clock = 1
    /\ wrote = [t \in 1..MaxClock |-> None]
    /\ mine = [c \in Clients |-> [s \in Undated |-> None]]
    /\ gone = [c \in Clients |-> {}]

----------------------------------------------------------------------------
(* A setter does nothing when the value is the same.                       *)

\* If settings without a date were not marked.
SetUnmarked(m, s, v, t) ==
    [m EXCEPT !.value[s] = v, !.changed = [d \in Dates |-> IF s \in Dated[d] THEN t ELSE @[d]]]
Set(m, s, v, t) ==
    IF m.value[s] = v THEN m
    ELSE [m EXCEPT !.value[s] = v,
                   !.changed = [d \in Dates |-> IF s \in Dated[d] THEN t ELSE @[d]],
                   !.marked = IF s \in Undated THEN @ \cup {s} ELSE @]

ChangeSetting(c, s, v) ==
    LET m == Set(meta[c], s, v, clock)
    IN  /\ clock < MaxClock /\ v # meta[c].value[s]
        /\ clock' = clock + 1
        /\ meta' = [meta EXCEPT ![c] = m]
        /\ wrote' = IF s \in Undated THEN wrote
                    ELSE [wrote EXCEPT ![clock] = Part(m, CHOOSE d \in Dates : s \in Dated[d])]
        /\ mine' = IF s \in Undated THEN [mine EXCEPT ![c][s] = v] ELSE mine
        /\ UNCHANGED <<server, base, gone>>

\* An icon is added or replaced, with its date, or removed for good, with a tombstone.
ChangeItem(c, k) ==
    /\ clock < MaxClock /\ k \notin meta[c].dead
    /\ clock' = clock + 1
    /\ meta' = [meta EXCEPT ![c].item[k] = clock]
    /\ UNCHANGED <<server, base, wrote, mine, gone>>
RemoveItem(c, k) ==
    /\ meta[c].item[k] # 0
    /\ meta' = [meta EXCEPT ![c].item[k] = 0, ![c].dead = @ \cup {k}]
    /\ gone' = [gone EXCEPT ![c] = @ \cup {k}]
    /\ UNCHANGED <<server, base, clock, wrote, mine>>

----------------------------------------------------------------------------
(* merge: the later date wins; what has none and is not marked is taken,   *)
(* through its setter.                                                     *)

NeedUpdate(remote, local) == remote > local
\* If the place of the recycle bin were left out.
MergeByHalves(m, r) ==
    [m EXCEPT !.value = [s \in Settings |->
                            IF \E d \in Dates : s \in Dated[d] /\ NeedUpdate(r.changed[d], m.changed[d]) /\ s # "recycleBinUuid"
                            THEN r.value[s] ELSE @[s]],
              !.changed = [d \in Dates |-> IF NeedUpdate(r.changed[d], @[d]) THEN r.changed[d] ELSE @[d]]]
MergeDated(m, r) ==
    [m EXCEPT !.value = [s \in Settings |->
                            IF \E d \in Dates : s \in Dated[d] /\ NeedUpdate(r.changed[d], m.changed[d])
                            THEN r.value[s] ELSE @[s]],
              !.changed = [d \in Dates |-> IF NeedUpdate(r.changed[d], @[d]) THEN r.changed[d] ELSE @[d]]]
MergeUndated(m, r, t) ==
    LET take == {s \in Undated : s \notin m.marked /\ r.value[s] # m.value[s]}
    IN  [m EXCEPT !.value = [s \in Settings |-> IF s \in take THEN r.value[s] ELSE @[s]],
                  !.marked = @ \cup take]
\* mergeMapWithDates, with the tombstones of both: an item here is replaced by a later one,
\* one that is not here comes unless it was removed.
MergeItems(m, r) ==
    LET dead == m.dead \cup r.dead
    IN  [m EXCEPT !.dead = dead,
                  !.item = [k \in Keys |-> IF @[k] = 0 THEN (IF k \in dead THEN 0 ELSE r.item[k])
                                           ELSE IF r.item[k] > @[k] THEN r.item[k] ELSE @[k]]]
Merge(m, r) == MergeUndated(MergeItems(MergeDated(m, r), r), r, clock)

Pull(c) ==
    /\ base.merged[c] # base.pushes
    /\ meta' = [meta EXCEPT ![c] = Merge(@, server)]
    /\ base' = [base EXCEPT !.merged[c] = base.pushes]
    /\ UNCHANGED <<server, clock, wrote, mine, gone>>

\* A client pushes when it has merged the latest push; removeLocalEditState.
Push(c) ==
    /\ base.merged[c] = base.pushes /\ base.pushes < MaxClock
    /\ server # [meta[c] EXCEPT !.marked = {}]
    /\ server' = [meta[c] EXCEPT !.marked = {}]
    /\ meta' = [meta EXCEPT ![c].marked = {}]
    /\ mine' = [mine EXCEPT ![c] = [s \in Undated |-> None]]
    /\ base' = [pushes |-> base.pushes + 1, merged |-> [base.merged EXCEPT ![c] = base.pushes + 1]]
    /\ UNCHANGED <<clock, wrote, gone>>

Next ==
    \E c \in Clients :
        \/ \E s \in Settings, v \in Values : ChangeSetting(c, s, v)
        \/ \E k \in Keys : ChangeItem(c, k) \/ RemoveItem(c, k)
        \/ Pull(c) \/ Push(c)

Spec == Init /\ [][Next]_vars

----------------------------------------------------------------------------
(* Properties.                                                             *)

TypeOK ==
    /\ clock \in 1..MaxClock
    /\ \A c \in Clients : /\ meta[c].marked \subseteq Undated /\ meta[c].dead \subseteq Keys
                          /\ \A s \in Settings : meta[c].value[s] \in Values

\* After any exchange the settings that share a date are those that one client set
\* together at that date, never a mixture of two; a setting without a date that the user
\* changed here keeps that value until it has been pushed; and an icon that a client
\* removed does not come back to it.
SettingsKept ==
    \A c \in Clients :
        /\ \A d \in Dates : meta[c].changed[d] # 0 => Part(meta[c], d) = wrote[meta[c].changed[d]]
        /\ \A s \in Undated : mine[c][s] # None => meta[c].value[s] = mine[c][s]
        /\ \A k \in gone[c] : meta[c].item[k] = 0
=============================================================================
