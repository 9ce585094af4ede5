----------------------------- MODULE MCFixLink -----------------------------
(***************************************************************************)
(* FixLink for TLC.  The client is the only source of messages, so the set *)
(* an arbitrary peer would send from is empty.                             *)
(***************************************************************************)
EXTENDS FixLink

NoPeer == {}

Limit(orders, reports, ticks, faults, lossy) ==
    [orders |-> orders, reports |-> reports, ticks |-> ticks, faults |-> faults,
     lossy |-> lossy]

\* What a run is about: one fault with traffic both ways; a probe that races its
\* answer and the recovery from a fault; two faults of the recovery itself.
OneFault  == {Limit(1, 1, 0, 1, lossy) : lossy \in BOOLEAN}
Probes    == {Limit(1, 0, 2, 0, TRUE)} \cup {Limit(0, 0, 2, 1, lossy) : lossy \in BOOLEAN}
TwoFaults == {Limit(0, 0, 0, 2, lossy) : lossy \in BOOLEAN}

AnyLimits == OneFault \cup Probes \cup TwoFaults

=============================================================================
