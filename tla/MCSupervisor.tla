---------------------------- MODULE MCSupervisor ----------------------------
(* One venue and the board that dials it, declared in this order.          *)
EXTENDS Supervisor

MCDeclared == <<"venue", "board">>

MCAnswering == {"venue", "board"}
=============================================================================
