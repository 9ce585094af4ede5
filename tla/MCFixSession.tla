---------------------------- MODULE MCFixSession ----------------------------
(***************************************************************************)
(* An arbitrary peer of a FIX session, for TLC: the messages it may send   *)
(* are cut to what a run is about.  Beside the session is the file store,  *)
(* whose process may die anywhere: the first state picks the one that is   *)
(* at work.                                                                *)
(***************************************************************************)
EXTENDS FixSession, FixStore

At(type, seq) == [Msg(type) EXCEPT !.seq = seq]

Logons == {[At("LOGON", seq) EXCEPT !.flag = reset] : seq \in 1..2, reset \in BOOLEAN}

Orders == {[At("APP", seq) EXCEPT !.dup = dup] : seq \in 1..4, dup \in BOOLEAN}

GapFills == {[At("SEQUENCE_RESET", seq) EXCEPT !.flag = TRUE, !.hi = new] :
                seq \in 2..3, new \in {2, 4}}

Resets == {[At("SEQUENCE_RESET", 3) EXCEPT !.hi = new] : new \in {1, 4}}

OpenRequests == {[At("RESEND_REQUEST", seq) EXCEPT !.lo = lo] :
                    seq \in 2..3, lo \in 0..1}

Faulty == {[At("APP", seq) EXCEPT !.fault = "FIELDS"] : seq \in 2..3}
            \cup {[At("APP", 2) EXCEPT !.fault = fault] : fault \in {"COMP_ID", "FRAME"}}
            \cup {[Msg("APP") EXCEPT !.fault = "UNNUMBERED"]}

Sequencing == Logons \cup Orders \cup GapFills \cup Resets \cup Faulty
                \cup {At("LOGOUT", seq) : seq \in 2..3}

Recovery == {[At("LOGON", seq) EXCEPT !.lo = lo] : seq \in 1..4, lo \in 0..3}
              \cup OpenRequests
              \cup {At("TEST_REQUEST", 2), At("HEARTBEAT", 2), At("APP", 3)}

\* A client behind the venue that asks for the first of what it misses only.
BoundedRecovery ==
    {[At("LOGON", 1) EXCEPT !.lo = 1],
     [At("RESEND_REQUEST", 2) EXCEPT !.lo = 1, !.hi = 1]}

\* Both at once: a peer that may do anything but ask for a bounded range.
Everything == Sequencing \cup Recovery

VARIABLE part       \* the one that is at work

MCInit == Init /\ StoreInit /\ part \in {"session", "store"}

MCNext ==
    /\ UNCHANGED part
    /\ \/ part = "session" /\ Next /\ UNCHANGED fileVars
       \/ part = "store" /\ StoreNext /\ UNCHANGED vars

MCSpec == MCInit /\ [][MCNext]_<< vars, fileVars, part >>

=============================================================================
