---------------------------- MODULE MCWebConsole ----------------------------
(* A venue that restarts, a browser that follows the tape, and one that    *)
(* operates the venue or streams its events.                               *)
EXTENDS WebConsole

CONSTANTS b1, b2

MCAsked == (b1 :> {"audit"}) @@ (b2 :> {"instrument.remove", "events", "malformed"})
MCMaxRequests == (b1 :> 2) @@ (b2 :> 1)
=============================================================================
