------------------------------ MODULE PasswordHealth ------------------------------
(***************************************************************************)
(* The health report: which passwords are weak, used twice, old, breached  *)
(* or like one another, with the lookups of breaches it waits for.         *)
(*                                                                         *)
(* Source: health/analyser.ts and hibp.ts of packages/core,                *)
(* background/clone-aware-health.ts, and getPasswordHealth of              *)
(* background/vault-session.ts.  The entropy of a password is a fact       *)
(* (Weak); its letters matter to the passwords that look like it.          *)
(***************************************************************************)
EXTENDS Integers, Sequences, SequencesExt, FiniteSets

CONSTANTS
    Count,          \* entries 1..Count
    Texts,          \* names of the texts a password field may hold
    Letters,        \* of each text, its letters
    Points,         \* of each text, the entry it refers to: 0 when it is no reference
    Weak,           \* texts of too little entropy
    Breached,       \* texts the service knows
    Prefix,         \* of each text, the range its hash is looked up in
    Jobs,           \* reports asked for
    MaxFailures,    \* bound: requests that fail
    None

VARIABLES
    field,          \* the password field of each entry
    binned,         \* entries in the recycle bin
    old,            \* entries not changed for a year
    allowed,        \* the user lets breaches be looked up
    ranges,         \* what the client keeps of each range: "none", "asked", "held" or "failed"
    failures,       \* requests that have failed
    job

vars == <<field, binned, old, allowed, ranges, failures, job>>

----------------------------------------------------------------------------
(* Passwords that look alike.                                              *)

Least(S) == CHOOSE x \in S : \A y \in S : x <= y
Longer(a, b) == IF Len(a) > Len(b) THEN Len(a) ELSE Len(b)
Gap(a, b) == 2 * Longer(a, b) - Len(a) - Len(b)

\* The distance of two texts, row by row.
UpTo(n) == [i \in 1..n |-> i]
Levenshtein(a, b) ==
    LET NextRow(row, i) ==
            FoldLeft(LAMBDA new, j : Append(new, Least({row[j + 1] + 1, new[j] + 1, row[j] + (IF a[i] = b[j] THEN 0 ELSE 1)})),
                     <<i>>, UpTo(Len(b)))
    IN  Last(FoldLeft(NextRow, [j \in 1..(Len(b) + 1) |-> j - 1], UpTo(Len(a))))

\* The lengths alone may tell that two are not alike: three of ten letters may differ.
SkippedSoon(a, b) == 10 * Gap(a, b) >= 3 * Longer(a, b)
Skipped(a, b) == 10 * Gap(a, b) > 3 * Longer(a, b)
Similar(a, b) == ~Skipped(a, b) /\ 10 * (Longer(a, b) - Levenshtein(a, b)) >= 7 * Longer(a, b)
LookAlike == [x, y \in Texts |-> Similar(Letters[x], Letters[y])]

----------------------------------------------------------------------------
(* What a report is made of.                                               *)

Live == (1..Count) \ binned
\* The entry a field refers to, in the recycle bin or not, or 0.
Source(e) == IF Points[field[e]] \in 1..Count THEN Points[field[e]] ELSE 0
\* resolveFieldValue follows four references at most.
Password(e) ==
    LET after[n \in 0..4] == IF n = 0 THEN e ELSE IF Source(after[n - 1]) = 0 THEN after[n - 1] ELSE Source(after[n - 1])
    IN  field[after[4]]
IsOld(e) == (IF Source(e) # 0 THEN Source(e) ELSE e) \in old

Passwords == {Password(e) : e \in Live} \ {""}
Users(p) == {e \in Live : Password(e) = p}
SimilarTo(e) ==
    {f \in Live : Password(e) # "" /\ Password(f) # "" /\ Password(f) # Password(e) /\ LookAlike[Password(e), Password(f)]}

\* analysePasswordHealth: what it finds of an entry.
Finding(e, counts) ==
    [entry |-> e, weak |-> Password(e) = "" \/ Password(e) \in Weak,
     reused |-> Password(e) # "" /\ Cardinality(Users(Password(e))) > 1,
     old |-> IsOld(e), breached |-> Password(e) \in counts, similar |-> SimilarTo(e)]
Matters(f) == f.weak \/ f.reused \/ f.old \/ f.breached \/ f.similar # {}

\* buildCloneComponents: each entry is joined to the one it is a clone of.
\* If one step were enough.
OneUp(parent, e) == parent[e]
Root(parent, e) ==
    LET up[n \in 0..Count] == IF n = 0 THEN e ELSE parent[up[n - 1]] IN up[Count]
Join(parent, e) ==
    IF e \notin Live \/ Source(e) = 0 THEN parent
    ELSE LET a == Root(parent, e)
             b == Root([parent EXCEPT ![e] = a], Source(e))
         IN  [parent EXCEPT ![e] = a, ![Source(e)] = b, ![a] = b]
Components ==
    LET parent == FoldLeft(Join, UpTo(Count), UpTo(Count))
    IN  [e \in 1..Count |-> Root(parent, e)]

\* applyCloneAwareness: a password shared by the clones of one entry is not reused.
Explained(e) ==
    LET peers == Users(Password(e)) \ {e}
        component == Components
    IN  peers # {} /\ \A p \in peers : component[p] = component[e]
Adjusted(f) == IF f.reused /\ Explained(f.entry) THEN [f EXCEPT !.reused = FALSE] ELSE f

Report(counts) ==
    LET first == {f \in {Finding(e, counts) : e \in Live} : Matters(f)}
        findings == {f \in {Adjusted(f) : f \in first} : Matters(f)}
    IN  [findings |-> findings, total |-> Cardinality(Live),
         weak |-> Cardinality({f \in findings : f.weak}), reused |-> Cardinality({f \in findings : f.reused}),
         old |-> Cardinality({f \in findings : f.old}), breached |-> Cardinality({f \in findings : f.breached}),
         similar |-> Cardinality({f \in findings : f.similar # {}})]

----------------------------------------------------------------------------
(* Reports that run at the same time share what the client keeps.          *)

Asks == {Prefix[x] : x \in Texts}
Idle == [pc |-> "idle", hashing |-> {}, waiting |-> {}, counts |-> {}, since |-> 0, report |-> None]

Init ==
    /\ field \in [1..Count -> Texts]
    /\ binned \in SUBSET {Count} /\ old \in {{}, {1}}
    /\ allowed \in BOOLEAN
    /\ ranges = [r \in Asks |-> "none"] /\ failures = 0
    /\ job = [j \in Jobs |-> Idle]

Vault == <<field, binned, old, allowed>>

\* Every password is looked up, or none when the user has not agreed.
Start(j) ==
    /\ job[j].pc = "idle"
    /\ job' = [job EXCEPT ![j].pc = "looking", ![j].since = failures,
                          ![j].hashing = IF allowed THEN Passwords ELSE {}]
    /\ UNCHANGED <<Vault, ranges, failures>>

\* A lookup takes the range the client has, or asks for it.
Lookup(j, p) ==
    LET range == ranges[Prefix[p]]
    IN  /\ p \in job[j].hashing
        /\ job' = [job EXCEPT ![j].hashing = @ \ {p},
                              ![j].waiting = IF range \in {"none", "asked"} THEN @ \cup {p} ELSE @,
                              ![j].counts = IF range = "held" /\ p \in Breached THEN @ \cup {p} ELSE @,
                              ![j].pc = IF range = "failed" THEN "failed" ELSE @]
        /\ ranges' = IF range = "none" THEN [ranges EXCEPT ![Prefix[p]] = "asked"] ELSE ranges
        /\ UNCHANGED <<Vault, failures>>

\* A request is answered: all that wait for it go on.
AskedOf(j, r) == {p \in job[j].waiting : Prefix[p] = r}
Answer(r) ==
    /\ ranges[r] = "asked"
    /\ ranges' = [ranges EXCEPT ![r] = "held"]
    /\ job' = [j \in Jobs |-> [job[j] EXCEPT !.waiting = @ \ AskedOf(j, r),
                                             !.counts = @ \cup (AskedOf(j, r) \cap Breached)]]
    /\ UNCHANGED <<Vault, failures>>

\* Or it fails, and the range is asked for again by the next that needs it.
KeptAsFailed(r) == [ranges EXCEPT ![r] = "failed"]
Dropped(r) == [ranges EXCEPT ![r] = "none"]
Fail(r) ==
    /\ ranges[r] = "asked" /\ failures < MaxFailures
    /\ failures' = failures + 1
    /\ ranges' = Dropped(r)
    /\ job' = [j \in Jobs |-> [job[j] EXCEPT !.waiting = @ \ AskedOf(j, r),
                                             !.pc = IF AskedOf(j, r) # {} THEN "failed" ELSE @]]
    /\ UNCHANGED Vault

Finish(j) ==
    /\ job[j].pc = "looking" /\ job[j].hashing = {} /\ job[j].waiting = {}
    /\ job' = [job EXCEPT ![j].pc = "done", ![j].report = Report(job[j].counts)]
    /\ UNCHANGED <<Vault, ranges, failures>>

Next ==
    \/ \E j \in Jobs : Start(j) \/ Finish(j) \/ \E p \in Texts : Lookup(j, p)
    \/ \E r \in Asks : Answer(r) \/ Fail(r)

Spec == Init /\ [][Next]_vars

----------------------------------------------------------------------------
(* Properties.                                                             *)

TypeOK ==
    /\ field \in [1..Count -> Texts] /\ failures \in 0..MaxFailures
    /\ \A r \in Asks : ranges[r] \in {"none", "asked", "held"}
    /\ \A j \in Jobs : job[j].waiting \cup job[j].hashing \subseteq Passwords

\* The texts that a number of edits make of one: a letter less, more or other.
Alphabet == UNION {Range(Letters[x]) : x \in Texts}
Edited(a) ==
    {RemoveAt(a, i) : i \in DOMAIN a}
    \cup {[a EXCEPT ![i] = c] : i \in DOMAIN a, c \in Alphabet}
    \cup {InsertAt(a, i, c) : i \in 1..(Len(a) + 1), c \in Alphabet}
Around(a, n) ==
    LET ball[k \in 0..n] == IF k = 0 THEN {a} ELSE ball[k - 1] \cup UNION {Edited(b) : b \in ball[k - 1]} IN ball[n]
Nearby == [x \in Texts |-> [n \in 0..2 |-> Around(Letters[x], n)]]
\* Two texts are alike when few edits lead from one to the other: three of ten letters.
TrulyAlike ==
    [x, y \in Texts |->
        LET most == (3 * Longer(Letters[x], Letters[y])) \div 10
        IN  Nearby[x][most \div 2] \cap Nearby[y][most - most \div 2] # {}]

\* Entries that cloning relates, in any number of steps.
Related(e) ==
    LET near(S) == {f \in 1..Count : \E g \in S : (f \in Live /\ Source(f) = g) \/ (g \in Live /\ Source(g) = f)}
        within[n \in 0..Count] == IF n = 0 THEN {e} ELSE within[n - 1] \cup near(within[n - 1])
    IN  within[Count]

\* The report names each entry that has a problem and no other, and its numbers agree
\* with it: a password is reused when an entry has it that no cloning explains, breached
\* when the service knows it and was asked, and alike when few edits lead to another's.
HealthTrue ==
    \A j \in Jobs : job[j].pc = "done" =>
        LET Is(e) ==
                [entry |-> e, weak |-> Password(e) \in Weak \cup {""}, old |-> IsOld(e),
                 reused |-> Password(e) # "" /\ ~(Users(Password(e)) \subseteq Related(e)),
                 breached |-> allowed /\ Password(e) \in Breached,
                 similar |-> {f \in Live : Password(f) # Password(e) /\ "" \notin {Password(e), Password(f)}
                                           /\ TrulyAlike[Password(e), Password(f)]}]
            report == job[j].report
            all == {Is(e) : e \in Live}
        IN  /\ report.findings = {f \in all : Matters(f)}
            /\ report.total = Cardinality(all)
            /\ report.reused = Cardinality({f \in all : f.reused})
            /\ report.similar = Cardinality({f \in all : f.similar # {}})

\* A report fails only when a request failed while it was made: a failure is not kept
\* for the reports that come after it.
FailuresForgotten == \A j \in Jobs : job[j].pc = "failed" => failures > job[j].since
=============================================================================
