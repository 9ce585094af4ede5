----------------------------- MODULE Supervisor -----------------------------
(***************************************************************************)
(* The process supervisor: exchangesim start, stop and restart (ctl/),     *)
(* over the operating system's process table, the pidfiles under var/run   *)
(* and the ports the daemons answer on.  A daemon is one venue             *)
(* (runner/main.py) or the web board (web/main.py).                        *)
(*                                                                         *)
(* A controller is one invocation of the command; it works through the     *)
(* selected services one at a time, and each call it makes that another    *)
(* process can get in front of is a step.  Daemons start, fail, serve,     *)
(* crash and shut down by themselves, and the operating system gives a     *)
(* free process id to whoever asks next.                                   *)
(***************************************************************************)
EXTENDS Naturals, FiniteSets, Sequences, SequencesExt

CONSTANTS Declared,     \* the services of services.json, in its order
          Answering,    \* those whose config names a port to wait for
          Controllers,  \* invocations of the command that may overlap
          Pids,         \* process ids
          None

Services == Range(Declared)

Stages == {"starting", "serving", "stopping", "killed", "other"}

ASSUME SupervisorAssumption ==
    /\ Declared \in Seq(Services) /\ IsInjective(Declared)
    /\ Answering \subseteq Services
    /\ None \notin Pids \cup Services
    /\ None \notin [marker : Services \cup {None}, stage : Stages]

VARIABLES pidfile,  \* the process id the pidfile of each service names
          table,    \* the process table
          port,     \* which process listens on the port `start` waits for
          ctl,      \* each controller: command, services left, place in the code
          lost      \* services whose start was cut between spawn and pidfile

vars == <<pidfile, table, port, ctl, lost>>

Idle == [op |-> "idle", named |-> {}, todo |-> {}, again |-> FALSE, wait |-> FALSE,
         at |-> "idle", pid |-> None]

Init ==
    /\ pidfile = [s \in Services |-> None]
    /\ table = [p \in Pids |-> None]
    /\ port = [s \in Services |-> None]
    /\ ctl = [c \in Controllers |-> Idle]
    /\ lost = {}

-----------------------------------------------------------------------------
(* Processes.  `marker` is the service whose config path the command line  *)
(* holds, None for a program that has nothing to do with the simulator.    *)

Daemon(s, stage) == [marker |-> s, stage |-> stage]
Stranger == Daemon(None, "other")

alive(p) == p # None /\ table[p] # None

(* What the pidfile and the process table say of a service.  A recycled    *)
(* process id shows another command line and counts as stale.              *)
inspect(s) ==
    IF pidfile[s] = None THEN "stopped"
    ELSE IF ~alive(pidfile[s]) \/ table[pidfile[s]].marker # s THEN "stale"
    ELSE "running"

Gone(p) ==
    /\ table' = [table EXCEPT ![p] = None]
    /\ port' = [s \in Services |-> IF port[s] = p THEN None ELSE port[s]]

Rests == UNCHANGED <<pidfile, ctl, lost>>

(* Runtime.start, WebApp.start: the port is bound last, once the venue is  *)
(* set up; from here on the signal handlers are installed.                 *)
DaemonServes(p) ==
    /\ alive(p) /\ table[p].stage = "starting"
    /\ port[table[p].marker] = None
    /\ table' = [table EXCEPT ![p].stage = "serving"]
    /\ port' = [port EXCEPT ![table[p].marker] = p]
    /\ Rests

(* A start that ends the process: a configuration error, or an address     *)
(* already in use; and a daemon that dies of anything else.                *)
DaemonDies(p) ==
    /\ alive(p) /\ table[p].stage \in {"starting", "serving"}
    /\ Gone(p) /\ Rests

(* reactor.stop ends the loop; the control plane and the venue are stopped *)
(* and the reactor closed.  A killed process leaves the table as well.     *)
DaemonExits(p) ==
    /\ alive(p) /\ table[p].stage \in {"stopping", "killed"}
    /\ Gone(p) /\ Rests

(* Some other program is given a process id that is free, and ends.        *)
StrangerStarts(p) ==
    /\ table[p] = None /\ \E s \in Services : pidfile[s] = p
    /\ table' = [table EXCEPT ![p] = Stranger]
    /\ UNCHANGED port /\ Rests

StrangerEnds(p) ==
    /\ alive(p) /\ table[p] = Stranger
    /\ Gone(p) /\ Rests

(* SIGTERM before the handlers are installed ends a process at once, as it *)
(* does a stranger; a serving daemon begins to shut down.                  *)
request_stop(p) ==
    IF ~alive(p) THEN UNCHANGED <<table, port>>
    ELSE IF table[p].stage = "serving"
         THEN table' = [table EXCEPT ![p].stage = "stopping"] /\ UNCHANGED port
    ELSE IF table[p].stage \in {"starting", "other"} THEN Gone(p)
    ELSE UNCHANGED <<table, port>>

force_stop(p) ==
    /\ table' = IF alive(p) THEN [table EXCEPT ![p].stage = "killed"] ELSE table
    /\ UNCHANGED port

-----------------------------------------------------------------------------
(* The command line.                                                       *)

(* Which of some services comes next: they are taken in the order they are *)
(* declared to start them, in reverse to stop them.                        *)
Turn(op, names) ==
    LET left == {i \in DOMAIN Declared : Declared[i] \in names}
    IN  Declared[IF op = "start" THEN Min(left) ELSE Max(left)]

(* Begin a pass over the services.                                         *)
Pass(c, op, names, again, wait) ==
    ctl' = [ctl EXCEPT ![c] = [op |-> op, named |-> names, todo |-> names, again |-> again,
                               wait |-> wait, at |-> op, pid |-> None]]

(* start, stop and restart, for some services or for all; `--wait 0` is    *)
(* not to wait for them.                                                   *)
Start(c, names, wait) ==
    /\ ctl[c].op = "idle" /\ Pass(c, "start", names, FALSE, wait)
    /\ UNCHANGED <<pidfile, table, port, lost>>

Stop(c, names) ==
    /\ ctl[c].op = "idle" /\ Pass(c, "stop", names, FALSE, FALSE)
    /\ UNCHANGED <<pidfile, table, port, lost>>

Restart(c, names, wait) ==
    /\ ctl[c].op = "idle" /\ Pass(c, "stop", names, TRUE, wait)
    /\ UNCHANGED <<pidfile, table, port, lost>>

At(c, place) == ctl[c].todo # {} /\ ctl[c].at = place
Service(c) == Turn(ctl[c].op, ctl[c].todo)
Go(c, place, p) == ctl' = [ctl EXCEPT ![c].at = place, ![c].pid = p]

(* One service is done with; the next from its first step.                 *)
Following(c) ==
    ctl' = [ctl EXCEPT ![c].todo = @ \ {Service(c)}, ![c].pid = None, ![c].at = ctl[c].op]

(* A ServiceError ends the command and leaves the other services alone.    *)
Raise(c) == ctl' = [ctl EXCEPT ![c] = Idle]

(* Every service is done with; a restart now starts what it stopped.       *)
Finish(c) ==
    /\ ctl[c].op # "idle" /\ ctl[c].todo = {}
    /\ IF ctl[c].again THEN Pass(c, "start", ctl[c].named, FALSE, ctl[c].wait)
       ELSE ctl' = [ctl EXCEPT ![c] = Idle]
    /\ UNCHANGED <<pidfile, table, port, lost>>

(* The operator interrupts a command, or its terminal goes away.           *)
Interrupt(c) ==
    /\ ctl[c].op # "idle"
    /\ ctl' = [ctl EXCEPT ![c] = Idle]
    /\ lost' = IF At(c, "write") THEN lost \cup {Service(c)} ELSE lost
    /\ UNCHANGED <<pidfile, table, port>>

-----------------------------------------------------------------------------
(* Starting one service.                                                   *)

remove_pidfile(s) == pidfile' = [pidfile EXCEPT ![s] = None]

(* A service that is up is left alone; a stale pidfile is cleared; without *)
(* its config file the service is not started.                             *)
StartInspect(c) ==
    /\ At(c, "start")
    /\ IF inspect(Service(c)) = "running"
       THEN Following(c) /\ UNCHANGED pidfile
       ELSE /\ remove_pidfile(Service(c))
            /\ Go(c, "spawn", None) \/ Raise(c)
    /\ UNCHANGED <<table, port, lost>>

Spawn(c) ==
    /\ At(c, "spawn")
    /\ \E p \in Pids :
          /\ table[p] = None
          /\ table' = [table EXCEPT ![p] = Daemon(Service(c), "starting")]
          /\ Go(c, "write", p)
    /\ UNCHANGED <<pidfile, port, lost>>

(* No process can be created: the error ends the command.                  *)
SpawnFails(c) ==
    /\ At(c, "spawn") /\ \A p \in Pids : alive(p)
    /\ Raise(c)
    /\ UNCHANGED <<pidfile, table, port, lost>>

WritePidfile(c) ==
    /\ At(c, "write")
    /\ pidfile' = [pidfile EXCEPT ![Service(c)] = ctl[c].pid]
    /\ Go(c, "ready", ctl[c].pid)
    /\ UNCHANGED <<table, port, lost>>

(* Mutant: start does not wait for the port.                               *)
ReadyAtOnce(c) ==
    /\ At(c, "ready")
    /\ Go(c, "confirm", ctl[c].pid)
    /\ UNCHANGED <<pidfile, table, port, lost>>

Waits(c) == ctl[c].wait /\ Service(c) \in Answering

(* The port answers, whoever listens on it; or the child is seen to be     *)
(* gone, or time runs out, and the pidfile stays.                          *)
ReadyAnswers(c) ==
    /\ At(c, "ready") /\ Waits(c) /\ port[Service(c)] # None
    /\ Go(c, "confirm", ctl[c].pid)
    /\ UNCHANGED <<pidfile, table, port, lost>>

ReadyFails(c) ==
    /\ At(c, "ready") /\ Waits(c) /\ (~alive(ctl[c].pid) \/ port[Service(c)] = None)
    /\ Raise(c)
    /\ UNCHANGED <<pidfile, table, port, lost>>

(* There is no wait, or nothing to wait for.                               *)
NotAwaited(c) ==
    /\ At(c, "ready") /\ ~Waits(c)
    /\ Go(c, "confirm", ctl[c].pid)
    /\ UNCHANGED <<pidfile, table, port, lost>>

Started(c) ==
    /\ At(c, "confirm") /\ alive(ctl[c].pid)
    /\ Following(c)
    /\ UNCHANGED <<pidfile, table, port, lost>>

ExitedImmediately(c) ==
    /\ At(c, "confirm") /\ ~alive(ctl[c].pid)
    /\ remove_pidfile(Service(c)) /\ Raise(c)
    /\ UNCHANGED <<table, port, lost>>

-----------------------------------------------------------------------------
(* Stopping one service.                                                   *)

StopInspect(c) ==
    /\ At(c, "stop")
    /\ IF inspect(Service(c)) = "running"
       THEN Go(c, "ask", pidfile[Service(c)]) /\ UNCHANGED pidfile
       ELSE remove_pidfile(Service(c)) /\ Following(c)
    /\ UNCHANGED <<table, port, lost>>

(* Mutant: the pidfile is cleared as soon as the process has been asked.   *)
AskAndForget(c) ==
    /\ At(c, "ask")
    /\ request_stop(ctl[c].pid)
    /\ remove_pidfile(Service(c)) /\ Following(c)
    /\ UNCHANGED lost

Ask(c) ==
    /\ At(c, "ask")
    /\ request_stop(ctl[c].pid)
    /\ Go(c, "wait", ctl[c].pid)
    /\ UNCHANGED <<pidfile, lost>>

(* Mutant: a process that does not stop is only ever asked again.          *)
AskAgain(c) ==
    /\ At(c, "wait") /\ alive(ctl[c].pid)
    /\ request_stop(ctl[c].pid)
    /\ Go(c, "wait", ctl[c].pid)
    /\ UNCHANGED <<pidfile, lost>>

(* The wait is over without an exit: kill, and wait once more.             *)
Kill(c) ==
    /\ At(c, "wait") /\ alive(ctl[c].pid)
    /\ force_stop(ctl[c].pid)
    /\ Go(c, "last", ctl[c].pid)
    /\ UNCHANGED <<pidfile, lost>>

WillNotDie(c) ==
    /\ At(c, "last") /\ alive(ctl[c].pid)
    /\ Raise(c)
    /\ UNCHANGED <<pidfile, table, port, lost>>

Stopped(c) ==
    /\ At(c, "wait") \/ At(c, "last")
    /\ ~alive(ctl[c].pid)
    /\ remove_pidfile(Service(c)) /\ Following(c)
    /\ UNCHANGED <<table, port, lost>>

-----------------------------------------------------------------------------
Works(c) ==
    \/ StartInspect(c) \/ Spawn(c) \/ SpawnFails(c) \/ WritePidfile(c)
    \/ ReadyAnswers(c) \/ ReadyFails(c) \/ NotAwaited(c)
    \/ Started(c) \/ ExitedImmediately(c)
    \/ StopInspect(c) \/ Ask(c) \/ Kill(c) \/ WillNotDie(c) \/ Stopped(c)
    \/ Finish(c)

Lives(p) ==
    \/ DaemonServes(p) \/ DaemonDies(p) \/ DaemonExits(p)
    \/ StrangerStarts(p) \/ StrangerEnds(p)

Next ==
    \/ \E c \in Controllers, names \in SUBSET Services \ {{}} :
          Stop(c, names) \/ \E wait \in BOOLEAN : Start(c, names, wait) \/ Restart(c, names, wait)
    \/ \E c \in Controllers : Interrupt(c) \/ Works(c)
    \/ \E p \in Pids : Lives(p)

(* A controller that is running takes its next step: its waits poll and    *)
(* have deadlines.  Nothing is assumed of the daemons or of strangers.     *)
Spec == Init /\ [][Next]_vars /\ \A c \in Controllers : WF_vars(Works(c))

-----------------------------------------------------------------------------
(* Properties.                                                             *)

Daemons(s) == {p \in Pids : alive(p) /\ table[p].marker = s}

(* Every variable has its shape.  A port is held by a daemon of its own    *)
(* service that has finished starting.                                     *)
TypeOK ==
    /\ pidfile \in [Services -> Pids \cup {None}]
    /\ lost \subseteq Services
    /\ \A p \in Pids : alive(p) =>
          table[p].stage \in Stages
    /\ \A s \in Services : port[s] # None =>
          port[s] \in Daemons(s) /\ table[port[s]].stage # "starting"
    /\ \A c \in Controllers : ctl[c].op \in {"idle", "start", "stop"}

(* The pidfile answers "which process did we start": whatever the         *)
(* daemons do and wherever a command is interrupted, a live daemon is the  *)
(* only one of its service and the pidfile names it, except between the    *)
(* spawn and the write of the pidfile.                                     *)
DaemonsAreKnown ==
    \A s \in Services \ lost :
        \A p \in Daemons(s) :
            /\ Daemons(s) = {p}
            /\ \/ pidfile[s] = p
               \/ \E c \in Controllers : At(c, "write") /\ ctl[c].pid = p

(* Both, in every reachable state.                                         *)
OneDaemonPerService == TypeOK /\ DaemonsAreKnown

(* start reports a service that it waits for as started only when the      *)
(* answer on its port came from the process it spawned, never from one     *)
(* still loading or from an older listener.                                *)
StartedIsServing ==
    [][\A c \in Controllers : Started(c) /\ Waits(c) /\ Service(c) \notin lost =>
          /\ port[Service(c)] \in {ctl[c].pid, None}
          /\ table[ctl[c].pid].stage # "starting"]_vars

(* Every command returns to the prompt, whatever the daemons do: no wait   *)
(* of the supervisor is unbounded.                                         *)
CommandsReturn == \A c \in Controllers : ctl[c].op # "idle" ~> ctl[c].op = "idle"
=============================================================================
