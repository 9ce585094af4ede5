---------------------------- MODULE ControlPlane ----------------------------
(***************************************************************************)
(* The control plane of one venue process as functions of its state: the   *)
(* audit tape (audit.py), the registry that dispatches a command and       *)
(* records it (control/commands.py, control/builtin.py), a control         *)
(* session's subscriptions (control/subscriptions.py) and the commands     *)
(* every venue has for its universe, its orders and its sessions           *)
(* (venues/common_commands.py).                                            *)
(*                                                                         *)
(* A connection is what core/reactor.py makes of it for its owner: what    *)
(* was sent is read in order, and closing keeps only what the kernel had   *)
(* already taken.  A line is one unit: both ends buffer up to the newline. *)
(***************************************************************************)
EXTENDS Naturals, Sequences, SequencesExt, FiniteSets

CONSTANTS None,
          Token,        \* the token the control plane asks for, None for none
          Capacity,     \* entries the audit tape keeps
          PageLimit     \* entries a page of the tape holds

ASSUME ControlAssumption == Capacity \in Nat \ {0} /\ PageLimit \in Nat \ {0}

(* What the kernel may have taken of the bytes buffered at a close: the    *)
(* peer reads some beginning of them and then the end of the stream.       *)
KeptAtClose(out) == {SubSeq(out, 1, n) : n \in 0 .. Len(out)}

-----------------------------------------------------------------------------
(* The audit tape: a ring of entries under one growing number.             *)

NewAudit == [ring |-> <<>>, next |-> 1]

record(a) ==
    LET ring == Append(a.ring, a.next)
    IN  [ring |-> IF Len(ring) > Capacity THEN Tail(ring) ELSE ring, next |-> a.next + 1]

(* The entries past a cursor, and the newest of them: as many as fit.      *)
past(a, after) == {q \in Range(a.ring) : after = None \/ q > after}
newest(new) == {q \in new : Cardinality({r \in new : r >= q}) <= PageLimit}

Page(seqs, last, truncated) ==
    [seqs |-> seqs, last_seq |-> last, life |-> 0, truncated |-> truncated]

(* Mutant: only a page that overflows is marked, not a cursor overwritten. *)
entriesUnmarked(a, after) ==
    LET new == past(a, after)
    IN  Page(newest(new), a.next - 1, newest(new) # new)

(* A page: the newest entries past the cursor.  It says so when there are  *)
(* more of them than it holds, or when the cursor is older than the tape.  *)
entries(a, after) ==
    LET new == past(a, after)
        evicted == after # None /\ a.ring # <<>> /\ after + 1 < Head(a.ring)
    IN  Page(newest(new), a.next - 1, newest(new) # new \/ evicted)

-----------------------------------------------------------------------------
(* The venue behind the commands, as far as they can tell: one symbol, in  *)
(* the universe or not, and how many live orders it has.                   *)

NewDesk == [listed |-> TRUE, live |-> 0]

(* What a command answers and leaves behind: the code of the reply, the    *)
(* venue after it and whether it published anything.                       *)
Outcome(code, d, published) == [code |-> code, desk |-> d, published |-> published]
Refused(code, d) == Outcome(code, d, FALSE)

instrument_remove(d) ==
    IF ~d.listed THEN Refused("not_found", d)
    ELSE IF d.live > 0 THEN Refused("conflict", d)
    ELSE Outcome("ok", [d EXCEPT !.listed = FALSE], FALSE)

-----------------------------------------------------------------------------
(* The registry.  Which commands answer before authentication, and which   *)
(* are queries that leave no trace on the tape.                            *)

OpenCommands == {"auth", "ping"}
QuietCommands == OpenCommands \cup {"subscribe", "audit"}
AuditedCommands == {"instrument.remove"}

handler(cmd, d) ==
    CASE cmd = "instrument.remove" -> instrument_remove(d)
      [] cmd \in QuietCommands -> Outcome("ok", d, FALSE)
      [] OTHER -> Outcome("unknown_command", d, FALSE)

(* The tape after a command: every one that changes something is recorded, *)
(* before it runs and whatever it then answers.                            *)
dispatched(a, cmd) == IF cmd \in AuditedCommands THEN record(a) ELSE a

(* A control session: authenticated from the start where no token is       *)
(* configured; what it subscribed to goes with its connection.             *)
NewSession == [open |-> TRUE, authenticated |-> Token = None, subscribed |-> FALSE]
NoSession == [open |-> FALSE, authenticated |-> FALSE, subscribed |-> FALSE]

unauthorised(ses, cmd) ==
    cmd \in (AuditedCommands \cup QuietCommands) \ OpenCommands /\ ~ses.authenticated
=============================================================================
