--------------------------------- MODULE ClipboardClear ---------------------------------
(***************************************************************************)
(* A secret that was copied is cleared from the clipboard after a while,   *)
(* if the clipboard still holds it.                                        *)
(*                                                                         *)
(* Source: background/clipboard-clear.ts, offscreen-clipboard.ts and       *)
(* config/clipboard-config.ts of packages/web.  Texts stand for their      *)
(* hashes.  The session storage outlives the background's worker; a        *)
(* one-shot alarm and the keepalive's heartbeat start a check like the     *)
(* timer does, so a check may start at any time.                           *)
(***************************************************************************)
EXTENDS Integers, Sequences, SequencesExt

CONSTANTS
    Secrets,        \* texts Keetar copies
    Delay,          \* from a copy to its clear
    MaxTime,        \* bound
    MaxChecks,      \* bound: checks under way
    None

VARIABLES
    clip,           \* the text in the clipboard: a secret, "other" or "empty"
    arming,         \* copies whose message is not with the background yet, in their order
    pending,        \* keetar.pendingClipboardClear: [text, at], or None
    checks,         \* calls of checkAndClearClipboard under way
    now,
    since,          \* history: of each secret, when it was last copied
    crossed,        \* history: a clear was armed while a check was about to remove one
    stopped         \* history: a page or the worker stopped with work under way

vars == <<clip, arming, pending, checks, now, since, crossed, stopped>>

Init ==
    /\ clip = "empty" /\ arming = <<>> /\ pending = None /\ checks = <<>> /\ now = 0
    /\ since = [s \in Secrets |-> 0]
    /\ crossed = FALSE /\ stopped = FALSE

\* copyField and its like: the text first, scheduleClipboardClear after.
Copy(s) ==
    /\ Len(arming) < MaxChecks
    /\ clip' = s /\ since' = [since EXCEPT ![s] = now]
    /\ arming' = Append(arming, s)
    /\ UNCHANGED <<pending, checks, now, crossed, stopped>>
CopyOther ==
    /\ clip # "other" /\ clip' = "other"
    /\ UNCHANGED <<arming, pending, checks, now, since, crossed, stopped>>
ClosePage ==
    /\ arming # <<>>
    /\ arming' = <<>> /\ stopped' = TRUE
    /\ UNCHANGED <<clip, pending, checks, now, since, crossed>>

\* armClipboardClear.
Arm ==
    /\ arming # <<>>
    /\ arming' = Tail(arming)
    /\ pending' = [text |-> Head(arming), at |-> now + Delay]
    /\ crossed' = (crossed \/ \E i \in DOMAIN checks : checks[i].pc = "remove")
    /\ UNCHANGED <<clip, checks, now, since, stopped>>

\* checkAndClearClipboard.
AnyTime(p) == TRUE
Due(p) == now >= p.at
Check ==
    /\ pending # None /\ Len(checks) < MaxChecks
    /\ Due(pending)
    /\ checks' = Append(checks, [pc |-> "remove", text |-> pending.text])
    /\ UNCHANGED <<clip, arming, pending, now, since, crossed, stopped>>
Forget(i) ==
    /\ checks[i].pc = "remove"
    /\ pending' = None
    /\ checks' = [checks EXCEPT ![i].pc = "read"]
    /\ UNCHANGED <<clip, arming, now, since, crossed, stopped>>
\* The clipboard is read, compared and written by the offscreen page.
Matches(c) == clip = c.text
ReadText(i) ==
    /\ checks[i].pc = "read"
    /\ checks' = IF Matches(checks[i]) THEN [checks EXCEPT ![i].pc = "write"]
                 ELSE RemoveAt(checks, i)
    /\ UNCHANGED <<clip, arming, pending, now, since, crossed, stopped>>
WriteText(i) ==
    /\ checks[i].pc = "write"
    /\ clip' = "empty"
    /\ checks' = RemoveAt(checks, i)
    /\ UNCHANGED <<arming, pending, now, since, crossed, stopped>>

Restart ==
    /\ checks # <<>>
    /\ checks' = <<>> /\ stopped' = TRUE
    /\ UNCHANGED <<clip, arming, pending, now, since, crossed>>
\* A period is longer than what is under way takes.
Tick == now < MaxTime /\ now' = now + 1 /\ arming = <<>> /\ checks = <<>>
        /\ UNCHANGED <<clip, arming, pending, checks, since, crossed, stopped>>

Next ==
    \/ \E s \in Secrets : Copy(s)
    \/ ClosePage \/ Arm \/ CopyOther \/ Check \/ Restart \/ Tick
    \/ \E i \in DOMAIN checks : Forget(i) \/ ReadText(i) \/ WriteText(i)

Spec == Init /\ [][Next]_vars

----------------------------------------------------------------------------
(* Properties.                                                             *)

TypeOK ==
    /\ clip \in Secrets \cup {"empty", "other"} /\ Range(arming) \subseteq Secrets
    /\ pending # None => pending.text \in Secrets
    /\ Len(checks) <= MaxChecks

\* A secret in the clipboard has its clear to come, and a check under way finds nothing to
\* clear before its time unless the text was copied again meanwhile; except where a clear was
\* armed between a check's look at what is pending and its removal of it, or a page or the
\* worker stopped.
SecretsLeave ==
    crossed \/ stopped \/
        /\ clip \in Secrets =>
            \/ Contains(arming, clip)
            \/ pending # None /\ pending.text = clip
            \/ \E i \in DOMAIN checks : checks[i].text = clip
        /\ \A i \in DOMAIN checks :
            \/ now >= since[checks[i].text] + Delay
            \/ clip # checks[i].text \/ Contains(arming, clip)
            \/ (pending # None /\ pending.text = clip)
=============================================================================
