-------------------------- MODULE ReplayProtector ---------------------------
(***************************************************************************)
(* What the trait ReplayProtector of crates/protocol-core promises to its  *)
(* callers: a session passes once, and then not again before its time to   *)
(* live is over.  It may refuse more than it must: "implementations fail   *)
(* closed".                                                                *)
(***************************************************************************)
EXTENDS Naturals, Sequences

CONSTANTS
    Sessions,   \* the sessions of authenticated envelopes
    Ttl         \* the time to live of an entry

VARIABLES
    until,      \* session -> when its protection ends, 0 when it is not protected
    now,        \* the caller's clock
    passed      \* the sessions that passed, in order

vars == <<until, now, passed>>

\* An end of protection as it stands at time t.
Live(end, t) == IF end > t THEN end ELSE 0

Init ==
    /\ until = [s \in Sessions |-> 0] /\ now \in Nat /\ passed = <<>>

\* check_and_mark returns Ok; when it returns an error nothing changes.
CheckAndMark(s) ==
    /\ until[s] = 0
    /\ until' = [until EXCEPT ![s] = Live(now + Ttl, now)]
    /\ passed' = Append(passed, s)
    /\ UNCHANGED now

Advance ==
    /\ now' \in Nat /\ now' > now
    /\ until' = [s \in Sessions |-> Live(until[s], now')]
    /\ UNCHANGED passed

Next == Advance \/ \E s \in Sessions : CheckAndMark(s)

Spec == Init /\ [][Next]_vars
=============================================================================
