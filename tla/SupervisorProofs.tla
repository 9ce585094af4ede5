-------------------------- MODULE SupervisorProofs --------------------------
(***************************************************************************)
(* For any services and any processes, one controller at a time never runs *)
(* two daemons of a service, and knows the one it runs.                    *)
(***************************************************************************)
EXTENDS Supervisor, TLAPS, WellFoundedInduction

(* Two invocations of the command do not overlap.                          *)
OneController == \A c, d \in Controllers : c = d

-----------------------------------------------------------------------------
(* The order of the services.                                              *)

(* A set of positions has a first.                                         *)
LEMMA FirstPosition ==
    ASSUME NEW T, T \subseteq Nat, T # {}
    PROVE  \E i \in T : \A j \in T : i <= j
  <1>1. IsWellFoundedOn(OpToRel(<, Nat), Nat)
    BY NatLessThanWellFounded
  <1>2. PICK x \in T : \A y \in T : ~ (<<y, x>> \in OpToRel(<, Nat))
    BY <1>1, WFMin
  <1>3. \A y \in T : ~ (y < x)
    BY <1>2 DEF OpToRel
  <1> QED
    BY <1>3

(* A set of positions below a bound has a last.                            *)
LEMMA LastPosition ==
    ASSUME NEW n \in Nat, NEW T, T \subseteq 1 .. n, T # {}
    PROVE  \E i \in T : \A j \in T : i >= j
  <1> DEFINE U == {n - i : i \in T}
  <1>1. \A i \in T : i \in Nat /\ i <= n /\ n - i \in Nat
    OBVIOUS
  <1>2. U \subseteq Nat
    BY <1>1
  <1>3. U # {}
    OBVIOUS
  <1>4. PICK u \in U : \A v \in U : u <= v
    BY <1>2, <1>3, FirstPosition
  <1>5. PICK i \in T : u = n - i
    BY <1>4
  <1>6. ASSUME NEW j \in T PROVE i >= j
    <2>1. n - j \in U
      OBVIOUS
    <2>2. n - i <= n - j
      BY <1>4, <1>5, <2>1
    <2> QED
      BY <1>1, <2>2
  <1> QED
    BY <1>6

(* The next service of a pass is one of those that are left.               *)
LEMMA TurnIsLeft ==
    ASSUME NEW op, NEW names \in SUBSET Services, names # {}
    PROVE  Turn(op, names) \in names
  <1> DEFINE left == {i \in DOMAIN Declared : Declared[i] \in names}
  <1>1. Declared \in Seq(Services) /\ DOMAIN Declared = 1 .. Len(Declared) /\ Len(Declared) \in Nat
    BY SupervisorAssumption
  <1>2. left \subseteq 1 .. Len(Declared) /\ left \subseteq Nat
    BY <1>1
  <1>3. PICK s \in names : TRUE
    OBVIOUS
  <1>4. \E i \in DOMAIN Declared : Declared[i] = s
    BY <1>3 DEF Services, Range
  <1>5. left # {}
    BY <1>3, <1>4
  <1>6. Min(left) \in left
    BY <1>2, <1>5, FirstPosition DEF Min
  <1>7. Max(left) \in left
    BY <1>1, <1>2, <1>5, LastPosition DEF Max
  <1> QED
    BY <1>6, <1>7 DEF Turn

-----------------------------------------------------------------------------
(* The inductive invariant.                                                *)

Process == [marker : Services \cup {None}, stage : Stages]

Places == {"idle", "start", "spawn", "write", "ready", "confirm", "stop", "ask", "wait", "last"}

Command == [op : {"idle", "start", "stop"}, named : SUBSET Services, todo : SUBSET Services,
            again : BOOLEAN, wait : BOOLEAN, at : Places, pid : Pids \cup {None}]

Shape ==
    /\ pidfile \in [Services -> Pids \cup {None}]
    /\ table \in [Pids -> Process \cup {None}]
    /\ port \in [Services -> Pids \cup {None}]
    /\ ctl \in [Controllers -> Command]
    /\ lost \subseteq Services

(* A process that is still loading is a daemon; whoever holds a port is a  *)
(* daemon of its service and has loaded.                                   *)
PortsInv ==
    /\ \A p \in Pids : alive(p) /\ table[p].stage = "starting" => table[p].marker \in Services
    /\ \A s \in Services : port[s] # None =>
          port[s] \in Daemons(s) /\ table[port[s]].stage # "starting"

(* Where a controller is, and what the pidfile of its service says then:   *)
(* nothing from the inspection to the write, its process afterwards, which *)
(* has loaded when it was waited for.                                      *)
PlacesInv ==
    \A c \in Controllers :
        /\ ctl[c].op = "idle" => ctl[c].todo = {}
        /\ At(c, "spawn") \/ At(c, "write") => pidfile[Service(c)] = None
        /\ \A place \in {"ready", "confirm", "ask", "wait", "last"} :
              At(c, place) => pidfile[Service(c)] = ctl[c].pid
        /\ At(c, "confirm") /\ Waits(c) /\ Service(c) \notin lost /\ alive(ctl[c].pid) =>
              table[ctl[c].pid].stage # "starting"

(* A daemon is named by its pidfile, or by the controller that is about to *)
(* write it.                                                               *)
KnownInv ==
    \A s \in Services \ lost : \A p \in Daemons(s) :
        \/ pidfile[s] = p
        \/ \E c \in Controllers : At(c, "write") /\ Service(c) = s /\ ctl[c].pid = p

IInv == Shape /\ PortsInv /\ PlacesInv /\ KnownInv

(* A controller that is at work is at work on a declared service.          *)
LEMMA ServiceIsDeclared ==
    ASSUME Shape, NEW c \in Controllers, ctl[c].todo # {}
    PROVE  Service(c) \in Services /\ Service(c) \in ctl[c].todo
  <1>1. ctl[c].todo \in SUBSET Services
    BY DEF Shape, Command
  <1> QED
    BY <1>1, TurnIsLeft DEF Service

-----------------------------------------------------------------------------
(* What processes do.                                                      *)

(* Processes end, shut down, serve, or are strangers; none is a new daemon *)
(* and none goes back to loading.                                          *)
Tame ==
    /\ table' \in [Pids -> Process \cup {None}]
    /\ port' \in [Services -> Pids \cup {None}]
    /\ \A p \in Pids : alive(p)' =>
          \/ /\ alive(p)
             /\ table'[p].marker = table[p].marker
             /\ table'[p].stage = "starting" => table[p].stage = "starting"
          \/ table'[p] = Stranger
    /\ \A s \in Services : port'[s] # None =>
          port'[s] \in Daemons(s)' /\ table'[port'[s]].stage # "starting"

(* A process goes.                                                         *)
LEMMA GoneIsTame == ASSUME Shape, PortsInv, NEW p \in Pids, Gone(p) PROVE Tame
  BY DEF Shape, PortsInv, Gone, Tame, alive, Daemons

(* A process changes its stage, but not to loading, and holds its ports.   *)
LEMMA StageIsTame ==
    ASSUME Shape, PortsInv, NEW p \in Pids, alive(p), NEW stage \in Stages \ {"starting"},
           table' = [table EXCEPT ![p].stage = stage],
           \/ UNCHANGED port
           \/ table[p].marker \in Services /\ port' = [port EXCEPT ![table[p].marker] = p]
    PROVE  Tame
  <1>1. table[p] \in Process
    BY DEF Shape, alive
  <1>2. /\ table' \in [Pids -> Process \cup {None}]
        /\ \A q \in Pids \ {p} : table'[q] = table[q]
        /\ table'[p] \in Process
        /\ table'[p].marker = table[p].marker /\ table'[p].stage = stage
    BY <1>1 DEF Shape, Process
  <1>3. table'[p] # None
    BY <1>2, SupervisorAssumption DEF Process
  <1>4. port' \in [Services -> Pids \cup {None}]
    BY DEF Shape
  <1>5. ASSUME NEW s \in Services, port'[s] # None
        PROVE  port'[s] \in Daemons(s)' /\ table'[port'[s]].stage # "starting"
    <2>1. CASE port'[s] = port[s]
      BY <1>2, <1>3, <1>5, <2>1 DEF PortsInv, Daemons, alive
    <2>2. CASE port'[s] = p /\ table[p].marker = s
      BY <1>2, <1>3, <2>2 DEF Daemons, alive
    <2> QED
      BY <2>1, <2>2 DEF Shape
  <1> QED
    BY <1>2, <1>4, <1>5 DEF Tame, alive

(* Daemons and strangers by themselves.                                    *)
LEMMA LivesIsTame ==
    ASSUME Shape, PortsInv, NEW p \in Pids, Lives(p)
    PROVE  Tame /\ UNCHANGED <<pidfile, ctl, lost>>
  <1>1. CASE DaemonServes(p)
    <2>1. table[p].marker \in Services
      BY <1>1 DEF DaemonServes, PortsInv
    <2> QED
      BY <1>1, <2>1, StageIsTame DEF DaemonServes, Rests, Stages
  <1>2. CASE DaemonDies(p) \/ DaemonExits(p) \/ StrangerEnds(p)
    BY <1>2, GoneIsTame DEF DaemonDies, DaemonExits, StrangerEnds, Rests
  <1>3. CASE StrangerStarts(p)
    <2>1. Stranger \in Process
      BY DEF Stranger, Daemon, Process, Stages
    <2>2. /\ table' \in [Pids -> Process \cup {None}]
          /\ \A q \in Pids \ {p} : table'[q] = table[q]
          /\ table'[p] = Stranger /\ ~alive(p) /\ port' = port
      BY <1>3, <2>1 DEF StrangerStarts, Shape, alive
    <2>3. \A s \in Services : port[s] # p
      BY <2>2, SupervisorAssumption DEF PortsInv, Daemons
    <2>4. \A s \in Services : port[s] # None =>
             port[s] \in Daemons(s)' /\ table'[port[s]].stage # "starting"
      BY <2>2, <2>3 DEF PortsInv, Daemons, alive
    <2> QED
      BY <1>3, <2>2, <2>4 DEF StrangerStarts, Rests, Tame, Shape, alive
  <1> QED
    BY <1>1, <1>2, <1>3 DEF Lives

(* What a controller does to a process that it stops.                      *)
LEMMA SignalsAreTame ==
    ASSUME Shape, PortsInv, NEW p \in Pids \cup {None}, request_stop(p) \/ force_stop(p)
    PROVE  Tame
  <1>0. CASE UNCHANGED <<table, port>>
    BY <1>0 DEF Shape, PortsInv, Tame, alive, Daemons
  <1>1. CASE request_stop(p)
    BY <1>0, <1>1, GoneIsTame, StageIsTame DEF request_stop, alive, Stages
  <1>2. CASE force_stop(p)
    BY <1>0, <1>2, StageIsTame DEF force_stop, alive, Stages
  <1> QED
    BY <1>1, <1>2

(* Tame steps keep the invariant, where a controller stays or goes on from *)
(* asking to waiting and to its last wait.                                 *)
LEMMA TameInv ==
    ASSUME IInv, Tame, UNCHANGED <<pidfile, lost>>,
           \/ UNCHANGED ctl
           \/ \E c \in Controllers : \/ At(c, "ask") /\ Go(c, "wait", ctl[c].pid)
                                     \/ At(c, "wait") /\ Go(c, "last", ctl[c].pid)
    PROVE  IInv'
  <1> USE DEF IInv
  <1> DEFINE GoesOn ==
        /\ ctl' \in [Controllers -> Command]
        /\ \A c \in Controllers : /\ ctl'[c].todo = ctl[c].todo /\ ctl'[c].op = ctl[c].op
                                  /\ ctl'[c].pid = ctl[c].pid /\ ctl'[c].wait = ctl[c].wait
                                  /\ \/ ctl'[c].at = ctl[c].at
                                     \/ ctl[c].at = "ask" /\ ctl'[c].at = "wait"
                                     \/ ctl[c].at = "wait" /\ ctl'[c].at = "last"
  <1>1. GoesOn
    <2>1. CASE UNCHANGED ctl
      BY <2>1 DEF Shape
    <2>2. ASSUME NEW c \in Controllers, NEW place \in {"wait", "last"},
                 ctl[c].at = IF place = "wait" THEN "ask" ELSE "wait",
                 Go(c, place, ctl[c].pid)
          PROVE  GoesOn
      <3>1. ctl[c] \in Command /\ [ctl[c] EXCEPT !.at = place, !.pid = ctl[c].pid] \in Command
        BY DEF Shape, Command, Places
      <3> QED
        BY <2>2, <3>1 DEF Shape, Go, Command
    <2> QED
      BY <2>1, <2>2 DEF At
  <1>2. Shape'
    BY <1>1 DEF Shape, Tame
  <1>3. \A c \in Controllers : Service(c)' = Service(c)
    BY <1>1 DEF Service
  <1>4. PortsInv'
    <2>1. Stranger.stage = "other"
      BY DEF Stranger, Daemon
    <2> QED
      BY <2>1 DEF PortsInv, Tame
  <1>5. PlacesInv'
    <2> SUFFICES ASSUME NEW c \in Controllers
                 PROVE  /\ ctl'[c].op = "idle" => ctl'[c].todo = {}
                        /\ (At(c, "spawn") \/ At(c, "write"))' => pidfile'[Service(c)'] = None
                        /\ \A place \in {"ready", "confirm", "ask", "wait", "last"} :
                              At(c, place)' => pidfile'[Service(c)'] = ctl'[c].pid
                        /\ (At(c, "confirm") /\ Waits(c) /\ Service(c) \notin lost /\ alive(ctl[c].pid))' =>
                              table'[ctl'[c].pid].stage # "starting"
      BY DEF PlacesInv
    <2>1. /\ ctl'[c].op = "idle" => ctl'[c].todo = {}
          /\ (At(c, "spawn") \/ At(c, "write"))' => pidfile'[Service(c)'] = None
          /\ \A place \in {"ready", "confirm", "ask", "wait", "last"} :
                At(c, place)' => pidfile'[Service(c)'] = ctl'[c].pid
      BY <1>1, <1>3 DEF PlacesInv, At
    <2>2. ASSUME (At(c, "confirm") /\ Waits(c) /\ Service(c) \notin lost /\ alive(ctl[c].pid))'
          PROVE  table'[ctl'[c].pid].stage # "starting"
      <3>1. ctl[c].pid \in Pids /\ alive(ctl[c].pid)'
        BY <1>1, <2>2 DEF alive, Shape, Command
      <3>2. At(c, "confirm") /\ Waits(c) /\ Service(c) \notin lost
        BY <1>1, <1>3, <2>2 DEF At, Waits
      <3>3. CASE alive(ctl[c].pid) /\ (table'[ctl[c].pid].stage = "starting" =>
                                          table[ctl[c].pid].stage = "starting")
        BY <1>1, <3>2, <3>3 DEF PlacesInv
      <3>4. CASE table'[ctl[c].pid] = Stranger
        BY <1>1, <3>4 DEF Stranger, Daemon
      <3> QED
        BY <1>1, <3>1, <3>3, <3>4 DEF Tame, alive
    <2> QED
      BY <2>1, <2>2
  <1>6. KnownInv'
    <2> SUFFICES ASSUME NEW s \in Services \ lost, NEW p \in Daemons(s)'
                 PROVE  \/ pidfile'[s] = p
                        \/ \E c \in Controllers :
                              At(c, "write")' /\ Service(c)' = s /\ ctl'[c].pid = p
      BY DEF KnownInv
    <2>1. p \in Pids /\ alive(p)' /\ table'[p].marker = s
      BY DEF Daemons
    <2>2. table'[p] # Stranger
      BY <2>1, SupervisorAssumption DEF Stranger, Daemon
    <2>3. p \in Daemons(s)
      BY <2>1, <2>2 DEF Tame, Daemons
    <2> QED
      BY <1>1, <1>3, <2>3 DEF KnownInv, At
  <1> QED
    BY <1>2, <1>4, <1>5, <1>6

-----------------------------------------------------------------------------
(* What a controller does.                                                 *)

(* A daemon is never left to a pidfile that says nothing of it.            *)
LEMMA NoDaemon ==
    ASSUME IInv, OneController, NEW c \in Controllers, ~At(c, "write"),
           NEW s \in Services, inspect(s) # "running"
    PROVE  s \in lost \/ Daemons(s) = {}
  <1> SUFFICES ASSUME s \notin lost, NEW p \in Daemons(s) PROVE FALSE
    OBVIOUS
  <1>1. pidfile[s] = p
    BY DEF IInv, KnownInv, OneController
  <1> QED
    BY <1>1 DEF inspect, Daemons, alive

(* Commands that begin, end, or turn to the next service.                  *)
LEMMA CommandsAreCommands ==
    ASSUME Shape, NEW c \in Controllers
    PROVE  /\ Idle \in Command
           /\ \A op \in {"start", "stop"}, names \in SUBSET Services,
                 again \in BOOLEAN, wait \in BOOLEAN :
                 [op |-> op, named |-> names, todo |-> names, again |-> again,
                  wait |-> wait, at |-> op, pid |-> None] \in Command
           /\ \A names \in SUBSET Services :
                 [ctl[c] EXCEPT !.todo = names, !.pid = None, !.at = ctl[c].op] \in Command
           /\ \A place \in Places, p \in Pids \cup {None} :
                 [ctl[c] EXCEPT !.at = place, !.pid = p] \in Command
  BY DEF Shape, Command, Places, Idle

(* Processes that stay as they are keep their ports.                       *)
LEMMA QuietPorts ==
    ASSUME PortsInv, UNCHANGED <<table, port>>
    PROVE  PortsInv' /\ \A s : Daemons(s)' = Daemons(s)
  BY DEF PortsInv, Daemons, alive

(* A controller that claims nothing of a process, and clears at most the   *)
(* pidfile of a service that has none, keeps the invariant.                *)
LEMMA RestInv ==
    ASSUME IInv, OneController, NEW c \in Controllers, NEW r \in Command,
           r.todo = {} \/ r.at \in {"idle", "start", "stop"},
           r.op = "idle" => r.todo = {},
           ctl' = [ctl EXCEPT ![c] = r],
           UNCHANGED <<table, port>>,
           lost \subseteq lost', lost' \subseteq Services,
           At(c, "write") => Service(c) \in lost',
           \/ UNCHANGED pidfile
           \/ \E s \in Services : /\ s \in lost \/ Daemons(s) = {}
                                  /\ remove_pidfile(s)
    PROVE  IInv'
  <1> USE DEF IInv
  <1>1. Shape'
    BY DEF Shape, remove_pidfile
  <1>2. ctl'[c] = r /\ \A d \in Controllers : d = c
    BY DEF Shape, OneController
  <1>3. PortsInv' /\ \A s : Daemons(s)' = Daemons(s)
    BY QuietPorts
  <1>4. PlacesInv'
    BY <1>2 DEF PlacesInv, At
  <1>5. KnownInv'
    <2> SUFFICES ASSUME NEW s \in Services, s \notin lost', NEW p \in Daemons(s)
                 PROVE  pidfile'[s] = p
      BY <1>3 DEF KnownInv
    <2>1. pidfile[s] = p
      BY <1>2 DEF KnownInv
    <2> QED
      BY <2>1 DEF remove_pidfile, Shape
  <1> QED
    BY <1>1, <1>3, <1>4, <1>5

(* A controller that goes to a place where its claims hold, with every     *)
(* daemon named by its pidfile, keeps the invariant.                       *)
LEMMA GoInv ==
    ASSUME IInv, OneController, NEW c \in Controllers, ctl[c].todo # {},
           NEW place \in {"spawn", "ready", "confirm", "ask"}, NEW p \in Pids \cup {None},
           Go(c, place, p),
           UNCHANGED <<table, port, lost>>,
           pidfile' \in [Services -> Pids \cup {None}],
           pidfile'[Service(c)] = IF place = "spawn" THEN None ELSE p,
           place = "confirm" /\ Waits(c) /\ Service(c) \notin lost /\ alive(p) =>
              table[p].stage # "starting",
           \A s \in Services \ lost : \A q \in Daemons(s) : pidfile'[s] = q
    PROVE  IInv'
  <1> USE DEF IInv
  <1> DEFINE r == [ctl[c] EXCEPT !.at = place, !.pid = p]
  <1>1. /\ r \in Command /\ ctl' = [ctl EXCEPT ![c] = r]
        /\ r.at = place /\ r.pid = p /\ r.todo = ctl[c].todo /\ r.op = ctl[c].op
        /\ r.wait = ctl[c].wait
    <2>1. ctl[c] \in Command /\ r \in Command
      BY CommandsAreCommands DEF Places, Shape
    <2>2. /\ r.at = place /\ r.pid = p /\ r.todo = ctl[c].todo /\ r.op = ctl[c].op
          /\ r.wait = ctl[c].wait
      BY <2>1 DEF Command
    <2>3. ctl' = [ctl EXCEPT ![c] = r]
      BY Zenon DEF Go
    <2> QED
      BY <2>1, <2>2, <2>3
  <1> HIDE DEF r
  <1>2. Shape'
    BY <1>1 DEF Shape
  <1>3. ctl'[c] = r /\ \A d \in Controllers : d = c
    BY <1>1 DEF Shape, OneController
  <1>4. PortsInv' /\ \A s : Daemons(s)' = Daemons(s)
    BY QuietPorts
  <1>5. Service(c)' = Service(c)
    BY <1>1, <1>3 DEF Service
  <1>6. PlacesInv'
    BY <1>1, <1>3, <1>5 DEF PlacesInv, At, alive, Waits
  <1>7. KnownInv'
    BY <1>4 DEF KnownInv
  <1> QED
    BY <1>2, <1>4, <1>6, <1>7

(* Following and Raise as updates of the whole command.                    *)
LEMMA FollowingInv ==
    ASSUME IInv, OneController, NEW c \in Controllers, ctl[c].todo # {},
           Following(c) \/ Raise(c),
           UNCHANGED <<table, port, lost>>,
           ~At(c, "write"),
           \/ UNCHANGED pidfile
           \/ inspect(Service(c)) # "running" /\ remove_pidfile(Service(c))
    PROVE  IInv'
  <1> DEFINE names == ctl[c].todo \ {Service(c)}
             r == IF Following(c)
                  THEN [ctl[c] EXCEPT !.todo = names, !.pid = None, !.at = ctl[c].op]
                  ELSE Idle
  <1>1. Shape /\ Service(c) \in Services
    BY ServiceIsDeclared DEF IInv
  <1>2. ctl[c] \in Command /\ names \in SUBSET Services
    BY <1>1 DEF Shape, Command
  <1>3. r \in Command
    BY <1>1, <1>2, CommandsAreCommands
  <1>4. r.at \in {"idle", "start", "stop"} /\ (r.op = "idle" => r.todo = {})
    BY <1>2 DEF Command, Idle, IInv, PlacesInv
  <1>5. ctl' = [ctl EXCEPT ![c] = r]
    BY Zenon DEF Following, Raise
  <1>6. \/ UNCHANGED pidfile
        \/ \E s \in Services : (s \in lost \/ Daemons(s) = {}) /\ remove_pidfile(s)
    BY <1>1, NoDaemon
  <1> HIDE DEF r
  <1> QED
    BY <1>1, <1>3, <1>4, <1>5, <1>6, RestInv DEF Shape

(* Commands that begin, end or are interrupted.                            *)
LEMMA CommandsInv ==
    ASSUME IInv, OneController, NEW c \in Controllers,
           \/ \E names \in SUBSET Services, wait \in BOOLEAN :
                 Start(c, names, wait) \/ Stop(c, names) \/ Restart(c, names, wait)
           \/ Finish(c) \/ Interrupt(c)
    PROVE  IInv'
  <1>1. Shape /\ ctl[c] \in Command
    BY DEF IInv, Shape
  <1>2. ASSUME NEW op \in {"start", "stop"}, NEW names \in SUBSET Services, NEW again \in BOOLEAN,
               NEW wait \in BOOLEAN, Pass(c, op, names, again, wait), UNCHANGED <<pidfile, table, port, lost>>, ~At(c, "write")
        PROVE  IInv'
    <2> DEFINE r == [op |-> op, named |-> names, todo |-> names, again |-> again,
                     wait |-> wait, at |-> op, pid |-> None]
    <2>1. /\ r \in Command /\ r.at \in {"idle", "start", "stop"} /\ r.op # "idle"
          /\ ctl' = [ctl EXCEPT ![c] = r]
      BY <1>1, <1>2, CommandsAreCommands DEF Pass
    <2> HIDE DEF r
    <2> QED
      BY <1>1, <1>2, <2>1, RestInv DEF Shape
  <1>3. CASE \E names \in SUBSET Services, wait \in BOOLEAN :
                Start(c, names, wait) \/ Stop(c, names) \/ Restart(c, names, wait)
    <2>1. ~At(c, "write")
      BY <1>3 DEF Start, Stop, Restart, IInv, PlacesInv, At
    <2> QED
      BY <1>2, <1>3, <2>1 DEF Start, Stop, Restart
  <1>4. CASE Finish(c)
    <2>1. ~At(c, "write") /\ ctl[c].named \in SUBSET Services /\ ctl[c].wait \in BOOLEAN
      BY <1>1, <1>4 DEF Finish, At, Command
    <2>2. CASE ctl[c].again
      BY <1>2, <1>4, <2>1, <2>2 DEF Finish
    <2>3. CASE ~ctl[c].again
      BY <1>1, <1>4, <2>1, <2>3, CommandsAreCommands, RestInv DEF Finish, Idle, Shape
    <2> QED
      BY <2>2, <2>3
  <1>5. CASE Interrupt(c)
    <2>1. /\ lost' = IF At(c, "write") THEN lost \cup {Service(c)} ELSE lost
          /\ ctl' = [ctl EXCEPT ![c] = Idle] /\ UNCHANGED <<pidfile, table, port>>
      BY <1>5 DEF Interrupt
    <2>2. At(c, "write") => Service(c) \in Services
      BY <1>1, ServiceIsDeclared DEF At
    <2>3. Idle \in Command /\ Idle.todo = {}
      BY <1>1, CommandsAreCommands DEF Idle
    <2>4. lost \subseteq lost' /\ lost' \subseteq Services /\ (At(c, "write") => Service(c) \in lost')
      BY <1>1, <2>1, <2>2 DEF Shape
    <2> QED
      BY <2>1, <2>3, <2>4, RestInv
  <1> QED
    BY <1>3, <1>4, <1>5

-----------------------------------------------------------------------------
(* Starting and stopping one service.                                      *)

(* Steps that claim nothing afterwards.                                    *)
LEMMA EndingInv ==
    ASSUME IInv, OneController, NEW c \in Controllers,
           \/ SpawnFails(c) \/ ReadyFails(c) \/ Started(c) \/ ExitedImmediately(c)
           \/ WillNotDie(c) \/ Stopped(c)
    PROVE  IInv'
  <1>1. CASE SpawnFails(c) \/ ReadyFails(c) \/ Started(c) \/ WillNotDie(c)
    BY <1>1, FollowingInv DEF SpawnFails, ReadyFails, Started, WillNotDie, At
  <1>2. CASE ExitedImmediately(c) \/ Stopped(c)
    <2>1. /\ ctl[c].todo # {} /\ ~At(c, "write") /\ ~alive(ctl[c].pid)
          /\ At(c, "confirm") \/ At(c, "wait") \/ At(c, "last")
          /\ Following(c) \/ Raise(c)
          /\ remove_pidfile(Service(c)) /\ UNCHANGED <<table, port, lost>>
      BY <1>2 DEF ExitedImmediately, Stopped, At
    <2>2. pidfile[Service(c)] = ctl[c].pid
      BY <2>1 DEF IInv, PlacesInv
    <2>3. inspect(Service(c)) # "running"
      BY <2>1, <2>2 DEF inspect
    <2> QED
      BY <2>1, <2>3, FollowingInv
  <1> QED
    BY <1>1, <1>2

(* The two inspections.                                                    *)
LEMMA InspectInv ==
    ASSUME IInv, OneController, NEW c \in Controllers, StartInspect(c) \/ StopInspect(c)
    PROVE  IInv'
  <1>1. /\ ctl[c].todo # {} /\ ~At(c, "write") /\ UNCHANGED <<table, port, lost>>
        /\ Shape /\ Service(c) \in Services
    BY ServiceIsDeclared DEF StartInspect, StopInspect, At, IInv
  <1>2. \A s \in Services \ lost : \A q \in Daemons(s) : pidfile[s] = q
    BY <1>1 DEF IInv, KnownInv, OneController
  <1>3. CASE Following(c) \/ Raise(c)
    BY <1>1, <1>3, FollowingInv DEF StartInspect, StopInspect
  <1>4. CASE Go(c, "spawn", None) /\ inspect(Service(c)) # "running" /\ remove_pidfile(Service(c))
    <2>1. Service(c) \in lost \/ Daemons(Service(c)) = {}
      BY <1>1, <1>4, NoDaemon
    <2>2. \A s \in Services \ lost : \A q \in Daemons(s) : pidfile'[s] = q
      BY <1>1, <1>2, <1>4, <2>1 DEF remove_pidfile, Shape
    <2>3. pidfile' \in [Services -> Pids \cup {None}] /\ pidfile'[Service(c)] = None
      BY <1>1, <1>4 DEF remove_pidfile, Shape
    <2> QED
      BY <1>1, <1>4, <2>2, <2>3, GoInv
  <1>5. CASE Go(c, "ask", pidfile[Service(c)]) /\ UNCHANGED pidfile
    <2>1. pidfile[Service(c)] \in Pids \cup {None}
      BY <1>1 DEF Shape
    <2> QED
      BY <1>1, <1>2, <1>5, <2>1, GoInv DEF Shape
  <1> QED
    BY <1>3, <1>4, <1>5 DEF StartInspect, StopInspect

(* A process is spawned for a service that has none.                       *)
LEMMA SpawnInv ==
    ASSUME IInv, OneController, NEW c \in Controllers, Spawn(c)
    PROVE  IInv'
  <1> USE DEF IInv
  <1>1. PICK p \in Pids : /\ table[p] = None
                          /\ table' = [table EXCEPT ![p] = Daemon(Service(c), "starting")]
                          /\ Go(c, "write", p)
    BY DEF Spawn
  <1> DEFINE r == [ctl[c] EXCEPT !.at = "write", !.pid = p]
  <1>2. /\ At(c, "spawn") /\ UNCHANGED <<pidfile, port, lost>> /\ Service(c) \in Services
        /\ pidfile[Service(c)] = None
    BY ServiceIsDeclared DEF Spawn, At, PlacesInv
  <1>3. r \in Command /\ ctl[c] \in Command
    BY CommandsAreCommands DEF Shape, Places
  <1>4. r.at = "write" /\ r.pid = p /\ r.todo = ctl[c].todo /\ r.op = ctl[c].op
    BY <1>3 DEF Command
  <1>5. ctl' = [ctl EXCEPT ![c] = r]
    BY <1>1, Zenon DEF Go
  <1> HIDE DEF r
  <1>6. ctl'[c] = r /\ \A d \in Controllers : d = c
    BY <1>5 DEF Shape, OneController
  <1>7. Service(c)' = Service(c)
    BY <1>4, <1>6 DEF Service
  <1>8. Daemon(Service(c), "starting") \in Process /\ Daemon(Service(c), "starting").marker = Service(c)
    BY <1>2 DEF Daemon, Process, Stages
  <1>9. /\ table'[p] = Daemon(Service(c), "starting") /\ \A q \in Pids \ {p} : table'[q] = table[q]
        /\ table' \in [Pids -> Process \cup {None}]
    BY <1>1, <1>8 DEF Shape
  <1>10. Shape'
    BY <1>2, <1>3, <1>5, <1>9 DEF Shape
  <1>11. PortsInv'
    <2>1. \A s \in Services : port[s] # p
      BY <1>1, SupervisorAssumption DEF PortsInv, Daemons, alive
    <2>2. \A s \in Services : port[s] # None =>
             port[s] \in Daemons(s)' /\ table'[port[s]].stage # "starting"
      BY <1>9, <2>1 DEF PortsInv, Daemons, alive
    <2>3. ASSUME NEW q \in Pids, alive(q)', table'[q].stage = "starting"
          PROVE  table'[q].marker \in Services
      BY <1>2, <1>8, <1>9, <2>3 DEF PortsInv, alive
    <2> QED
      BY <1>2, <2>2, <2>3 DEF PortsInv
  <1>12. PlacesInv'
    BY <1>2, <1>4, <1>6, <1>7 DEF PlacesInv, At
  <1>13. KnownInv'
    <2> SUFFICES ASSUME NEW s \in Services \ lost, NEW q \in Daemons(s)'
                 PROVE  pidfile[s] = q \/ (At(c, "write")' /\ Service(c)' = s /\ ctl'[c].pid = q)
      BY <1>2 DEF KnownInv
    <2>1. CASE q = p
      BY <1>2, <1>4, <1>6, <1>7, <1>8, <1>9, <2>1 DEF Daemons, At
    <2>2. CASE q # p
      <3>1. q \in Daemons(s)
        BY <1>9, <2>2 DEF Daemons, alive
      <3> QED
        BY <1>2, <1>6, <3>1 DEF KnownInv, At
    <2> QED
      BY <2>1, <2>2
  <1> QED
    BY <1>10, <1>11, <1>12, <1>13

(* The pidfile is written, and its process is waited for.                  *)
LEMMA WriteInv ==
    ASSUME IInv, OneController, NEW c \in Controllers, WritePidfile(c)
    PROVE  IInv'
  <1>1. /\ At(c, "write") /\ ctl[c].todo # {}
        /\ pidfile' = [pidfile EXCEPT ![Service(c)] = ctl[c].pid]
        /\ Go(c, "ready", ctl[c].pid) /\ UNCHANGED <<table, port, lost>>
    BY DEF WritePidfile, At
  <1>2. Shape /\ Service(c) \in Services /\ ctl[c].pid \in Pids \cup {None}
    BY <1>1, ServiceIsDeclared DEF IInv, Shape, Command
  <1>3. pidfile[Service(c)] = None
    BY <1>1 DEF IInv, PlacesInv
  <1>4. pidfile' \in [Services -> Pids \cup {None}] /\ pidfile'[Service(c)] = ctl[c].pid
    BY <1>1, <1>2 DEF Shape
  <1>5. ASSUME NEW s \in Services \ lost, NEW q \in Daemons(s)
        PROVE  pidfile'[s] = q
    <2>1. q # None
      BY DEF Daemons, alive
    <2>2. pidfile[s] = q \/ (Service(c) = s /\ ctl[c].pid = q)
      BY DEF IInv, KnownInv, OneController
    <2> QED
      BY <1>1, <1>2, <1>3, <1>4, <2>1, <2>2 DEF Shape
  <1> QED
    BY <1>1, <1>2, <1>4, <1>5, GoInv

(* Whoever answers on the port of a service is the process its pidfile     *)
(* names.                                                                  *)
LEMMA AnswerIsKnown ==
    ASSUME IInv, OneController, NEW c \in Controllers,
           At(c, "ready") \/ At(c, "confirm"),
           Service(c) \notin lost, port[Service(c)] # None
    PROVE  port[Service(c)] = ctl[c].pid /\ table[ctl[c].pid].stage # "starting"
  <1>1. ctl[c].todo # {} /\ ~At(c, "write") /\ Service(c) \in Services
    BY ServiceIsDeclared DEF At, IInv
  <1>2. port[Service(c)] \in Daemons(Service(c)) /\ table[port[Service(c)]].stage # "starting"
    BY <1>1 DEF IInv, PortsInv
  <1>3. pidfile[Service(c)] = port[Service(c)]
    BY <1>1, <1>2 DEF IInv, KnownInv, OneController
  <1> QED
    BY <1>2, <1>3 DEF IInv, PlacesInv

(* The port answers, or is not waited for.                                 *)
LEMMA ReadyInv ==
    ASSUME IInv, OneController, NEW c \in Controllers, ReadyAnswers(c) \/ NotAwaited(c)
    PROVE  IInv'
  <1>1. /\ At(c, "ready") /\ ctl[c].todo # {} /\ ~At(c, "write")
        /\ Waits(c) => port[Service(c)] # None
        /\ Go(c, "confirm", ctl[c].pid) /\ UNCHANGED <<pidfile, table, port, lost>>
    BY DEF ReadyAnswers, NotAwaited, At
  <1>2. Shape /\ ctl[c].pid \in Pids \cup {None} /\ pidfile[Service(c)] = ctl[c].pid
    BY <1>1 DEF IInv, Shape, Command, PlacesInv
  <1>3. \A s \in Services \ lost : \A q \in Daemons(s) : pidfile[s] = q
    BY <1>1 DEF IInv, KnownInv, OneController
  <1>4. Waits(c) /\ Service(c) \notin lost => table[ctl[c].pid].stage # "starting"
    BY <1>1, AnswerIsKnown
  <1> QED
    BY <1>1, <1>2, <1>3, <1>4, GoInv DEF Shape

(* A process is asked to stop, and killed.                                 *)
LEMMA SignalInv ==
    ASSUME IInv, NEW c \in Controllers, Ask(c) \/ Kill(c)
    PROVE  IInv'
  <1>1. Shape /\ PortsInv /\ ctl[c].pid \in Pids \cup {None}
    BY DEF IInv, Shape, Command
  <1>2. Tame
    BY <1>1, SignalsAreTame DEF Ask, Kill
  <1>3. /\ UNCHANGED <<pidfile, lost>>
        /\ \/ At(c, "ask") /\ Go(c, "wait", ctl[c].pid)
           \/ At(c, "wait") /\ Go(c, "last", ctl[c].pid)
    BY Zenon DEF Ask, Kill
  <1>4. \E d \in Controllers : \/ At(d, "ask") /\ Go(d, "wait", ctl[d].pid)
                               \/ At(d, "wait") /\ Go(d, "last", ctl[d].pid)
    BY <1>3, Zenon
  <1> QED
    BY <1>2, <1>3, <1>4, TameInv, Zenon

-----------------------------------------------------------------------------
(* The theorems.                                                           *)

(* The invariant holds at the start.                                       *)
LEMMA IInvInit == Init => IInv
  <1> SUFFICES ASSUME Init PROVE IInv
    OBVIOUS
  <1>1. Shape
    BY DEF Init, Shape, Idle, Command, Places
  <1>2. \A p \in Pids : ~alive(p)
    BY DEF Init, alive
  <1>3. \A c \in Controllers : ctl[c].todo = {}
    BY DEF Init, Idle
  <1> QED
    BY <1>1, <1>2, <1>3 DEF Init, IInv, PortsInv, PlacesInv, KnownInv, Daemons, At

(* Every step keeps it.                                                    *)
LEMMA IInvStep == ASSUME OneController, IInv, [Next]_vars PROVE IInv'
  <1>1. CASE UNCHANGED vars
    BY <1>1
       DEF vars, IInv, Shape, PortsInv, PlacesInv, KnownInv, Daemons, alive, At, Service, Waits
  <1>2. ASSUME NEW c \in Controllers, Interrupt(c) \/ Works(c)
        PROVE  IInv'
    BY <1>2, CommandsInv, EndingInv, InspectInv, SpawnInv, WriteInv, ReadyInv, SignalInv DEF Works
  <1>3. ASSUME NEW c \in Controllers, NEW names \in SUBSET Services, NEW wait \in BOOLEAN,
               Start(c, names, wait) \/ Stop(c, names) \/ Restart(c, names, wait)
        PROVE  IInv'
    BY <1>3, CommandsInv
  <1>4. ASSUME NEW p \in Pids, Lives(p)
        PROVE  IInv'
    <2>1. Tame /\ UNCHANGED <<pidfile, ctl, lost>>
      BY <1>4, LivesIsTame DEF IInv
    <2> QED
      BY <2>1, TameInv
  <1> QED
    BY <1>1, <1>2, <1>3, <1>4 DEF Next

(* It says that daemons are known, and that there is one of each.          *)
LEMMA IInvImplies == ASSUME OneController, IInv PROVE OneDaemonPerService
  <1> USE DEF IInv
  <1>1. TypeOK
    <2>1. \A p \in Pids : alive(p) => table[p].stage \in Stages
      BY DEF Shape, alive, Process
    <2>2. \A c \in Controllers : ctl[c].op \in {"idle", "start", "stop"}
      BY DEF Shape, Command
    <2> QED
      BY <2>1, <2>2 DEF TypeOK, Shape, PortsInv
  <1>2. DaemonsAreKnown
    <2> SUFFICES ASSUME NEW s \in Services \ lost, NEW p \in Daemons(s)
                 PROVE  /\ Daemons(s) = {p}
                        /\ \/ pidfile[s] = p
                           \/ \E c \in Controllers : At(c, "write") /\ ctl[c].pid = p
      BY DEF DaemonsAreKnown
    <2>1. ASSUME NEW q \in Daemons(s) PROVE q = p
      <3>1. p # None /\ q # None
        BY DEF Daemons, alive
      <3>2. CASE pidfile[s] = None
        BY <3>1, <3>2 DEF KnownInv, OneController
      <3>3. CASE pidfile[s] # None
        BY <3>3 DEF KnownInv, PlacesInv
      <3> QED
        BY <3>2, <3>3
    <2> QED
      BY <2>1 DEF KnownInv
  <1> QED
    BY <1>1, <1>2 DEF OneDaemonPerService

(* While commands do not overlap, a daemon whose start was not cut before  *)
(* its pidfile was written is the only one of its service, and the pidfile *)
(* names it: for any services, processes, interrupts and recycled ids.     *)
THEOREM DaemonsCorrect == ASSUME OneController PROVE Spec => []OneDaemonPerService
  <1>1. Spec => []IInv
    BY IInvInit, IInvStep, PTL DEF Spec
  <1>2. IInv => OneDaemonPerService
    BY IInvImplies
  <1> QED
    BY <1>1, <1>2, PTL

(* What `start` reports as started after a wait answers on its port, and   *)
(* it is the process this command spawned.                                 *)
THEOREM StartCorrect == ASSUME OneController PROVE Spec => StartedIsServing
  <1> DEFINE Reports == \A c \in Controllers : Started(c) /\ Waits(c) /\ Service(c) \notin lost =>
                            /\ port[Service(c)] \in {ctl[c].pid, None}
                            /\ table[ctl[c].pid].stage # "starting"
  <1>1. IInv /\ [Next]_vars => [Reports]_vars
    <2> SUFFICES ASSUME IInv, NEW c \in Controllers, Started(c), Waits(c), Service(c) \notin lost
                 PROVE  /\ port[Service(c)] \in {ctl[c].pid, None}
                        /\ table[ctl[c].pid].stage # "starting"
      OBVIOUS
    <2>1. At(c, "confirm") /\ alive(ctl[c].pid)
      BY DEF Started
    <2> QED
      BY <2>1, AnswerIsKnown DEF IInv, PlacesInv
  <1>2. Spec => []IInv
    BY IInvInit, IInvStep, PTL DEF Spec
  <1> QED
    BY <1>1, <1>2, PTL DEF Spec, StartedIsServing
=============================================================================
