------------------------------ MODULE Scenario ------------------------------
(***************************************************************************)
(* The scenario runner (scenario/runner.py) with its control client        *)
(* (cli/client.py): it runs scenario files against a simulator that is up, *)
(* one step at a time, and says of each whether it passed.                 *)
(*                                                                         *)
(* The simulator is what it looks like from here: on an open connection it *)
(* sends what it likes when it likes, may close, and answers commands,     *)
(* says something else, or does not.  A read takes any part of what has arrived.  A message is its *)
(* kind, all that a field map can ask for; numbers and headers are left to *)
(* the codec.                                                              *)
(***************************************************************************)
EXTENDS Naturals, Sequences, SequencesExt

CONSTANTS Nobody,      \* no value
          Suites,      \* the sequences of files the runner may be given
          Members,     \* the sessions the files declare
          Kinds,       \* what the simulator may send
          Numbered,    \* the kinds that carry a number a step can capture
          MaxSent      \* messages the simulator sends

(* What a step may do to one of the sessions that its file declares: a step *)
(* that names another is malformed when it comes to it.                    *)
Deeds == {"logon", "logout", "send", "expect", "expect_none", "clear", "disconnect"}

ASSUME SuitesAssumption ==
    \A suite \in Suites :
        /\ suite \in Seq(Range(suite))
        /\ \A file \in Range(suite) :
              /\ file.steps \in Seq(Range(file.steps))
              /\ \A step \in Range(file.steps) : step.do \in Deeds => step.s \in Members

VARIABLES files,     \* the scenario files of this invocation
          runner,    \* [file, step, phase]: the place in Runner.run
          client,    \* each Session: [connected, half, junk, inbox]
          line,      \* each connection: [open, queue] at the simulator's end
          captured,  \* the names an earlier step captured
          heard,     \* which message satisfied which step
          verdicts,  \* what was said of each file
          exit,      \* the exit code
          sent,      \* messages the simulator has sent
          heardBack      \* what the control connection brings next, if anything

runnerVars == <<files, runner, client, line, captured, heard, verdicts, exit, sent, heardBack>>

NewClient == [connected |-> FALSE, half |-> FALSE, junk |-> FALSE, inbox |-> <<>>]
NoLine == [open |-> FALSE, queue |-> <<>>]

RunnerInit ==
    /\ files \in Suites
    /\ runner = [file |-> 1, step |-> 0, phase |-> "load"]
    /\ client = [s \in Members |-> NewClient]
    /\ line = [s \in Members |-> NoLine]
    /\ captured = {} /\ heard = <<>> /\ verdicts = <<>> /\ exit = Nobody /\ sent = 0
    /\ heardBack = "nothing"

-----------------------------------------------------------------------------
(* The session's socket and inbox.                                         *)

(* A connection that is dropped in the middle of a message leaves its      *)
(* beginning with the framer, which the next connection goes on with.      *)
closed(k) == [k EXCEPT !.connected = FALSE, !.half = FALSE, !.junk = @ \/ k.half]
connected(k) == [closed(k) EXCEPT !.connected = TRUE]

Connected(s) ==
    /\ client' = [client EXCEPT ![s] = connected(@)]
    /\ line' = [line EXCEPT ![s] = [open |-> TRUE, queue |-> <<>>]]

Close(s) ==
    /\ client' = [client EXCEPT ![s] = closed(@)]
    /\ line' = [line EXCEPT ![s] = NoLine]

CloseAll ==
    /\ client' = [s \in Members |-> closed(client[s])]
    /\ line' = [s \in Members |-> NoLine]

(* Where the first buffered message that matches is, 0 for none; an empty  *)
(* field map matches anything.                                             *)
Matching(inbox, kind) == SelectInSeq(inbox, LAMBDA m : kind = Nobody \/ m.kind = kind)

(* Mutant: a message that matched stays in the inbox.                      *)
matchKept(inbox, i) == inbox

match(inbox, i) == RemoveAt(inbox, i)

(* Whatever has arrived: some messages and perhaps half of the next.       *)
pump(s) ==
    \E n \in 0 .. Len(line[s].queue), half \in BOOLEAN :
        /\ client[s].connected /\ ~client[s].junk
        /\ half => n < Len(line[s].queue)
        /\ n > 0 \/ half # client[s].half
        /\ n = 0 => half
        /\ client' = [client EXCEPT ![s].inbox = @ \o SubSeq(line[s].queue, 1, n), ![s].half = half]
        /\ line' = [line EXCEPT ![s].queue = SubSeq(@, n + 1, Len(@))]

(* What arrives behind the beginning of another message is not framed:     *)
(* it is taken for the rest of that message, for now.                      *)
pumpJunk(s) ==
    /\ client[s].connected /\ client[s].junk /\ line[s].queue # <<>>
    /\ line' = [line EXCEPT ![s].queue = <<>>]
    /\ UNCHANGED client

-----------------------------------------------------------------------------
(* Places in the run.                                                      *)

Running == exit = Nobody
File == files[runner.file]
Step == File.steps[runner.step]
At(phase, do) ==
    /\ Running /\ runner.phase = phase /\ runner.step \in DOMAIN File.steps /\ Step.do = do

Go(phase) == runner' = [runner EXCEPT !.phase = phase]
Following == runner' = [runner EXCEPT !.phase = "step", !.step = @ + 1]

(* The end of a file, however it came about: its sockets are closed.       *)
Leave(passed, why) ==
    /\ verdicts' = Append(verdicts, [passed |-> passed, why |-> why])
    /\ runner' = [runner EXCEPT !.file = @ + 1, !.phase = "load"]
    /\ CloseAll
    /\ UNCHANGED <<files, captured, heard, exit, sent>>

Fail(why) == Leave(FALSE, why)

(* An exception that nobody in the run handles ends the invocation: with   *)
(* an exit code of its own if it came from a client, a traceback if not.   *)
Escapes(code) ==
    /\ exit' = code /\ CloseAll
    /\ UNCHANGED <<files, runner, captured, heard, verdicts, sent>>

-----------------------------------------------------------------------------
(* main.                                                                   *)

NoFiles ==
    /\ Running /\ files = <<>>
    /\ exit' = "usage"
    /\ UNCHANGED <<files, runner, client, line, captured, heard, verdicts, sent>>

Loading(is) ==
    Running /\ runner.phase = "load" /\ runner.file \in DOMAIN files /\ File.is = is

(* A file that cannot be read counts as failed, and the others are run.    *)
CannotLoad ==
    /\ Loading("unreadable")
    /\ verdicts' = Append(verdicts, [passed |-> FALSE, why |-> "unreadable"])
    /\ runner' = [runner EXCEPT !.file = @ + 1]
    /\ UNCHANGED <<files, client, line, captured, heard, exit, sent>>

(* One whose sessions are malformed ends the invocation.                   *)
CannotBuild == Loading("badly declared") /\ Escapes("traceback")

(* The sessions, and what was captured, are the file's own.                *)
Load ==
    /\ Loading("scenario")
    /\ client' = [s \in Members |-> NewClient]
    /\ captured' = {} /\ heard' = <<>>
    /\ runner' = [runner EXCEPT !.step = 1, !.phase = "dial"]
    /\ UNCHANGED <<files, line, verdicts, exit, sent>>

(* The control client connects.                                            *)
Dial ==
    /\ Running /\ runner.phase = "dial"
    /\ heardBack' = "nothing"
    /\ \/ Go("step") /\ UNCHANGED <<files, client, line, captured, heard, verdicts, exit, sent>>
       \/ Escapes("transport")

Passes ==
    /\ Running /\ runner.phase = "step" /\ runner.step > Len(File.steps)
    /\ Leave(TRUE, Nobody)

Ends ==
    /\ Running /\ files # <<>> /\ runner.phase = "load" /\ runner.file > Len(files)
    /\ exit' = IF \A i \in DOMAIN verdicts : verdicts[i].passed THEN "ok" ELSE "failed"
    /\ UNCHANGED <<files, runner, client, line, captured, heard, verdicts, sent>>

-----------------------------------------------------------------------------
(* The steps.                                                              *)

(* ControlClient.call: the request is sent, and what comes is read until   *)
(* it is answered.  The timeout is that of each read.                      *)
ControlStep ==
    /\ At("step", "control")
    /\ \/ Go("call") /\ UNCHANGED <<files, client, line, captured, heard, verdicts, exit, sent>>
       \/ Escapes("transport")

Calling == At("call", "control")

(* An event, or the answer to another request, is skipped; of a line that  *)
(* is not all there yet more is awaited.                                   *)
Skips ==
    /\ Calling /\ heardBack = "other"
    /\ heardBack' = "nothing"
    /\ UNCHANGED <<files, runner, client, line, captured, heard, verdicts, exit, sent>>

TimesOut ==
    /\ Calling /\ heardBack = "nothing"
    /\ Escapes("transport") /\ UNCHANGED heardBack

(* A refusal that the step does not expect is an error of the client, like *)
(* the loss of the connection.  Of what is expected the content may differ.*)
Replied ==
    /\ Calling /\ heardBack \in {"result", "refusal", "lost"}
    /\ LET expected == IF Step.refused = Nobody THEN "result" ELSE "refusal"
       IN  \/ /\ heardBack = expected /\ Following
              /\ UNCHANGED <<files, client, line, captured, heard, verdicts, exit, sent>>
           \/ heardBack \in {expected, "result"} /\ Fail("answer")
           \/ heardBack \notin {expected, "result"} /\ Escapes("transport")
    /\ heardBack' = "nothing"

(* A session or step that the file does not describe properly.             *)
MalformedStep == At("step", "malformed") /\ Fail("malformed")

(* A field that is to hold what an earlier step captured.                  *)
Resolves == Step.uses \in captured \cup {Nobody}

Unresolved ==
    /\ At("step", "send") \/ At("step", "expect")
    /\ ~Resolves
    /\ Fail("malformed")

(* Session.send: on the connection there is, or on a new one; a logon      *)
(* always dials.  The other end may be gone, which a send may run into.    *)
SendStep ==
    /\ \/ At("step", "logon") \/ At("step", "logout")
       \/ At("step", "send") /\ Resolves
    /\ LET dials == Step.do = "logon" \/ ~client[Step.s].connected
       IN  \/ /\ dials /\ Escapes("transport")
           \/ /\ ~dials /\ ~line[Step.s].open /\ Escapes("traceback")
           \/ /\ IF dials THEN Connected(Step.s) ELSE UNCHANGED <<client, line>>
              /\ IF Step.do = "send" THEN Following ELSE Go("wait")
              /\ UNCHANGED <<files, captured, heard, verdicts, exit, sent>>

DisconnectStep ==
    /\ At("step", "disconnect")
    /\ Close(Step.s) /\ Following
    /\ UNCHANGED <<files, captured, heard, verdicts, exit, sent>>

(* Steps that come to a wait without sending anything, or only take time.  *)
WaitingStep ==
    /\ \/ At("step", "expect") /\ Resolves /\ Go("wait")
       \/ At("step", "expect_none") /\ Go("window")
       \/ At("step", "clear") /\ Go("window")
       \/ At("step", "pause") /\ Following
    /\ UNCHANGED <<files, client, line, captured, heard, verdicts, exit, sent>>

(* What a step waits for.                                                  *)
Wanted(step) ==
    CASE step.do = "logon" -> "Logon"
      [] step.do = "logout" -> "Logout"
      [] OTHER -> step.kind

Waiting == Running /\ runner.phase = "wait"
Found == Matching(client[Step.s].inbox, Wanted(Step))

(* The wait finds its message.  A logout then closes; an expectation may   *)
(* capture a number the message does not have.                             *)
Matches ==
    /\ Waiting /\ Found # 0
    /\ LET m == client[Step.s].inbox[Found]
           taken == [client[Step.s] EXCEPT !.inbox = match(@, Found)]
           name == IF Step.do = "expect" THEN Step.capture ELSE Nobody
       IN  IF name # Nobody /\ m.kind \notin Numbered
           THEN Fail("capture")
           ELSE /\ heard' = [n \in DOMAIN heard \cup {runner.step} |->
                                 IF n \in DOMAIN heard THEN heard[n] ELSE m]
                /\ captured' = IF name = Nobody THEN captured ELSE captured \cup {name}
                /\ client' = [client EXCEPT ![Step.s] = IF Step.do = "logout" THEN closed(taken) ELSE taken]
                /\ line' = IF Step.do = "logout" THEN [line EXCEPT ![Step.s] = NoLine] ELSE line
                /\ Following
                /\ UNCHANGED <<files, verdicts, exit, sent>>

(* Mutant: the deadline is only looked at once something has been read.    *)
ExpiresOnRead ==
    /\ Waiting /\ Found = 0 /\ line[Step.s].queue # <<>>
    /\ Fail("unheard")

(* The deadline: looked at after the inbox.  A logout is as good without   *)
(* an answer.                                                              *)
Expires ==
    /\ Waiting /\ Found = 0
    /\ IF Step.do = "logout"
       THEN Close(Step.s) /\ Following /\ UNCHANGED <<files, captured, heard, verdicts, exit, sent>>
       ELSE Fail("unheard")

(* The wait, or the window of a step that wants silence, reads on.         *)
Listening == Running /\ ((Waiting /\ Found = 0) \/ runner.phase = "window")

Reads ==
    /\ Listening
    /\ pump(Step.s) \/ pumpJunk(Step.s)
    /\ UNCHANGED <<files, runner, captured, heard, verdicts, exit, sent>>

ReadsGarbage ==
    /\ Listening
    /\ client[Step.s].junk /\ line[Step.s].queue # <<>>
    /\ Escapes("traceback")

(* The window is over.                                                     *)
Silence ==
    /\ At("window", "expect_none")
    /\ IF Matching(client[Step.s].inbox, Step.kind) # 0 THEN Fail("unexpected")
       ELSE Following /\ UNCHANGED <<files, client, line, captured, heard, verdicts, exit, sent>>

Cleared ==
    /\ At("window", "clear")
    /\ client' = [client EXCEPT ![Step.s].inbox = <<>>]
    /\ Following
    /\ UNCHANGED <<files, line, captured, heard, verdicts, exit, sent>>

-----------------------------------------------------------------------------
(* The simulator.                                                          *)

SimulatorSends(s) ==
    /\ line[s].open /\ sent < MaxSent
    /\ sent' = sent + 1
    /\ \E kind \in Kinds :
          line' = [line EXCEPT ![s].queue =
                      Append(@, [id |-> sent + 1, s |-> s, file |-> runner.file, kind |-> kind])]
    /\ UNCHANGED <<files, runner, client, captured, heard, verdicts, exit>>

SimulatorCloses(s) ==
    /\ line[s].open
    /\ line' = [line EXCEPT ![s].open = FALSE]
    /\ UNCHANGED <<files, runner, client, captured, heard, verdicts, exit, sent>>

(* What it sends to the control client counts when that is reading.        *)
SimulatorReplies ==
    /\ Calling /\ heardBack = "nothing"
    /\ heardBack' \in {"other", "result", "refusal", "lost"}
    /\ UNCHANGED <<files, runner, client, line, captured, heard, verdicts, exit, sent>>

Executes ==
    \/ ControlStep \/ MalformedStep \/ Unresolved \/ SendStep \/ DisconnectStep \/ WaitingStep
    \/ Matches \/ Expires \/ Reads \/ ReadsGarbage \/ Silence \/ Cleared

Runner ==
    \/ /\ NoFiles \/ CannotLoad \/ CannotBuild \/ Load \/ Passes \/ Ends \/ Executes
       /\ UNCHANGED heardBack
    \/ Dial \/ Skips \/ TimesOut \/ Replied

Simulator ==
    \/ (\E s \in Members : SimulatorSends(s) \/ SimulatorCloses(s)) /\ UNCHANGED heardBack
    \/ SimulatorReplies

RunnerNext == Runner \/ Simulator

RunnerSpec == RunnerInit /\ [][RunnerNext]_runnerVars

(* The runner goes on: its reads time out and its waits have deadlines.    *)
(* Nothing is assumed of the simulator.                                    *)
RunnerFairness == WF_runnerVars(Runner)

-----------------------------------------------------------------------------
(* Properties.                                                             *)

Awaits(step) == step.do \in {"logon", "expect"}

(* A file that passed has heard, for every logon and every expectation in  *)
(* it, a message of the kind it asked for, which the simulator sent on     *)
(* that session during this very file; no message was counted twice, and   *)
(* steps that ask a session for the same kind got its messages in order.   *)
VerdictsAreFounded ==
    \A i \in DOMAIN verdicts : (i + 1 = runner.file /\ runner.phase = "load" /\ verdicts[i].passed) =>
        LET steps == files[i].steps
            asked == {n \in DOMAIN steps : Awaits(steps[n])}
        IN  /\ \A n \in asked :
                  /\ n \in DOMAIN heard /\ heard[n].s = steps[n].s /\ heard[n].file = i
                  /\ Wanted(steps[n]) \in {heard[n].kind, Nobody}
            /\ \A m, n \in asked :
                  /\ heard[m].id = heard[n].id => m = n
                  /\ (m < n /\ steps[m].s = steps[n].s /\ Wanted(steps[m]) = Wanted(steps[n]))
                        => heard[m].id < heard[n].id

(* The runner comes back with an exit code, whatever the simulator sends,  *)
(* closes or leaves unanswered; unless the control plane keeps it waiting, *)
(* sending for ever something else than the answer.                        *)
RunnerReturns == []<>(heardBack = "other") \/ <>(exit # Nobody)

(* "A hung client should fail on a timeout rather than spin"               *)
(* (cli/client.py): the runner always comes back.  The timeout is that of  *)
(* one read, and the loop that skips what is no answer has none.           *)
RunnerNeverHangs == <>(exit # Nobody)
=============================================================================
