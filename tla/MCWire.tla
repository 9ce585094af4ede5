------------------------------- MODULE MCWire -------------------------------
(* Two clients of one session: the first may speak FIX, or ask the         *)
(* Gateway Router, the second speaks either encoding of HKEX.  And two     *)
(* connections of one box, whose kernel holds a single reply.              *)
EXTENDS Wire, TLC

CONSTANTS c1, c2

Ports == (c1 :> {"fix", "gr"}) @@ (c2 :> {"fix", "binary"})
StreamScripts == (c1 :> {<<"good", "good", "badsum">>, <<"good", "badlen", "good">>,
                     <<"junk", "junk", "good">>, <<"stranger">>, <<"badsum">>})
             @@ (c2 :> {<<"good", "badlen">>})

BoxScripts == (c1 :> {<<"good", "badsum", "good", "good">>, <<"good", "good", "badlen">>,
                      <<"junk">>, <<"badsum">>, <<"stranger">>})
              @@ (c2 :> {<<"good", "good">>})

MCPortsOf == [c \in {c1, c2} |-> Ports[c] \cup {"nnf"}]
MCScripts == [c \in {c1, c2} |-> StreamScripts[c] \cup BoxScripts[c]]

(* A box is dialled on its own port, and a session on the others.          *)
Suits(c) ==
    conn[c].state # "none" =>
        /\ conn[c].port = "nnf" <=> session.wire = "nnf"
        /\ peer[c].script \in (IF session.wire = "nnf" THEN BoxScripts ELSE StreamScripts)[c]

MCNext == Next /\ \A c \in Clients : Suits(c)'

MCSpec == Init /\ [][MCNext]_vars /\ Fairness
=============================================================================
