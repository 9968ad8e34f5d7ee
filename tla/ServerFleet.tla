---------------------------- MODULE ServerFleet ----------------------------
(***************************************************************************)
(* The processes behind one server id:                                     *)
(*   servers     server.py  serve, _register, _teardown                    *)
(*   supervisor  supervisor.py  ServerSupervisor.check_once, _restart,     *)
(*               with server.py start_detached and _await_endpoint         *)
(*   stopper     server.py  DatabaseServer.stop, run by another process    *)
(*   pruner      catalog.py  list_servers(prune=True), run by anybody      *)
(* They meet in three places named after the server id, not after a        *)
(* process: the endpoint file, the pid file and the catalog row.           *)
(***************************************************************************)
EXTENDS Naturals, FiniteSets

CONSTANTS MaxPids,      \* bound on processes; a fresh port is named after its process
          Threshold,    \* failure_threshold
          MaxRestarts,  \* max_restarts
          Window,       \* restart_window
          MaxTime,      \* bound on the clock
          MaxFaults,    \* bound on crashes, hangs and starts that are slow
          MaxStops,     \* bound on calls of stop()
          MaxPrunes,    \* bound on list_servers calls that find a dead row
          None

Pids == 1..MaxPids
Some == Pids \cup {None}
Times == 0..MaxTime
Restarts == SUBSET (Pids \X Times)

ASSUME ServerFleetAssumption ==
  /\ {MaxPids, Threshold} \subseteq Nat \ {0}
  /\ {MaxRestarts, Window, MaxTime, MaxFaults, MaxStops, MaxPrunes} \subseteq Nat
  /\ None \notin Pids

VARIABLES
  proc,        \* proc[p]: where process p is in serve() or _teardown()
  port,        \* port[p]: the port it was told to bind
  endpoint,    \* the process endpoint-<id>.json names, or None
  pidfile,     \* the process server-<id>.pid names, or None
  row,         \* the process the catalog row names, or None
  spc,         \* where the supervisor is in check_once / _restart
  target,      \* the process it is stopping, or the child it waits for
  info,        \* self.info["pid"]
  sport,       \* self.server.port
  failures,    \* consecutive failed probes
  restarts,    \* the deque of restarts: the last child of each and when it ended
  gave_up,
  clock,
  stopping,    \* the stopper: its target and whether it has signalled, or None
  pruning,     \* a pruner read a row whose process was dead
  faults, stops, prunes,
  slow,        \* ghost: starts given up while their child was alive
  lost,        \* ghost: rows deleted while the process they name was serving
  attempts     \* ghost: every restart that ended, like restarts

places == <<endpoint, pidfile, row>>
supervisor == <<spc, target, info, sport, failures, restarts, gave_up>>
others == <<stopping, pruning>>
bounds == <<clock, faults, stops, prunes>>
ghosts == <<slow, lost, attempts>>
vars == <<proc, port, places, supervisor, others, bounds, ghosts>>

Starting == {"starting", "bound", "published", "recorded"}
Closing == {"closing", "unregistered", "unrecorded"}
Alive(p) == p # None /\ proc[p] \in Starting \cup Closing \cup {"serving", "hung"}

TypeOK ==
  /\ proc \in [Pids -> Starting \cup Closing \cup {"unborn", "serving", "hung", "dead"}]
  /\ port \in [Pids -> Pids]
  /\ endpoint \in Some /\ pidfile \in Some /\ row \in Some
  /\ spc \in {"watch", "stop", "kill", "clean", "unlist", "spawn", "await", "respawn", "reawait"}
  /\ target \in Some /\ info \in Pids /\ sport \in Pids
  /\ failures \in Nat /\ restarts \in Restarts /\ gave_up \in BOOLEAN
  /\ stopping \in [pid : Pids, signalled : BOOLEAN] \cup {None}
  /\ pruning \in BOOLEAN
  /\ clock \in Times /\ faults \in 0..MaxFaults /\ stops \in 0..MaxStops /\ prunes \in 0..MaxPrunes
  /\ slow \in Nat /\ lost \in Nat /\ attempts \in Restarts

\* start_detached has returned and start(info) was called.
Init ==
  /\ proc = [p \in Pids |-> IF p = 1 THEN "serving" ELSE "unborn"]
  /\ port = [p \in Pids |-> 1]
  /\ endpoint = 1 /\ pidfile = 1 /\ row = 1
  /\ spc = "watch" /\ target = None /\ info = 1 /\ sport = 1
  /\ failures = 0 /\ restarts = {} /\ gave_up = FALSE
  /\ stopping = None /\ pruning = FALSE
  /\ clock = 0 /\ faults = 0 /\ stops = 0 /\ prunes = 0
  /\ slow = 0 /\ lost = 0 /\ attempts = {}

Become(p, from, to) == proc[p] = from /\ proc' = [proc EXCEPT ![p] = to]
Fault == faults < MaxFaults /\ faults' = faults + 1

-----------------------------------------------------------------------------
(* A server process                                                        *)

PortTaken(p) == \E q \in Pids \ {p} : Alive(q) /\ proc[q] # "starting" /\ port[q] = port[p]

Bind(p) ==
  /\ proc[p] = "starting"
  /\ proc' = [proc EXCEPT ![p] = IF PortTaken(p) THEN "dead" ELSE "bound"]
  /\ UNCHANGED <<port, places, supervisor, others, bounds, ghosts>>

WriteEndpoint(p) ==
  /\ Become(p, "bound", "published") /\ endpoint' = p
  /\ UNCHANGED <<port, pidfile, row, supervisor, others, bounds, ghosts>>

WritePid(p) ==
  /\ Become(p, "published", "recorded") /\ pidfile' = p
  /\ UNCHANGED <<port, endpoint, row, supervisor, others, bounds, ghosts>>

\* register_server replaces the row of the id. A heartbeat only updates a row that is there.
Register(p) ==
  /\ Become(p, "recorded", "serving") /\ row' = p
  /\ UNCHANGED <<port, endpoint, pidfile, supervisor, others, bounds, ghosts>>

\* unregister_server, by server id; who calls it goes on when it fails.
ClearRow == row' \in {row, None}

\* _teardown, by server id: the row, the pid file and the endpoint file.
Unregister(p) ==
  /\ Become(p, "closing", "unregistered") /\ ClearRow
  /\ UNCHANGED <<port, endpoint, pidfile, supervisor, others, bounds, ghosts>>

RemovePid(p) ==
  /\ Become(p, "unregistered", "unrecorded") /\ pidfile' = None
  /\ UNCHANGED <<port, endpoint, row, supervisor, others, bounds, ghosts>>

RemoveEndpoint(p) ==
  /\ Become(p, "unrecorded", "dead") /\ endpoint' = None
  /\ UNCHANGED <<port, pidfile, row, supervisor, others, bounds, ghosts>>

\* A crash, an OOM kill; a deadlock, a SIGSTOP.
Die(p) ==
  /\ Alive(p) /\ Fault
  /\ proc' = [proc EXCEPT ![p] = "dead"]
  /\ UNCHANGED <<port, places, supervisor, others, clock, stops, prunes, ghosts>>

Hang(p) ==
  /\ Become(p, "serving", "hung") /\ Fault
  /\ UNCHANGED <<port, places, supervisor, others, clock, stops, prunes, ghosts>>

Run(p) ==
  \/ Bind(p) \/ WriteEndpoint(p) \/ WritePid(p) \/ Register(p)
  \/ Unregister(p) \/ RemovePid(p) \/ RemoveEndpoint(p)

\* SIGTERM: a handler is installed only while serving; a hung process does not react.  The
\* handler comes a moment after the row; a signal before it is a Die.
Terminated(p) ==
  [proc EXCEPT ![p] = CASE @ = "serving" -> "closing"
                        [] @ \in Starting -> "dead"
                        [] OTHER -> @]

-----------------------------------------------------------------------------
(* The supervisor                                                          *)

Watched == IF pidfile # None THEN pidfile ELSE info
\* GET /health goes to the port, whoever serves it.
Healthy == \E p \in Pids : proc[p] = "serving" /\ port[p] = sport

\* restarts[i] is dropped once now - restarts[i] > restart_window.
Recent == {r \in restarts : clock <= r[2] + Window}

\* _restart: give up at max_restarts in the window, else wait (backoff) and go on.
BeginRestart ==
  /\ restarts' = Recent
  /\ IF Cardinality(Recent) >= MaxRestarts
     THEN gave_up' = TRUE /\ UNCHANGED spc
     ELSE spc' = "stop" /\ UNCHANGED gave_up

ProbeDead ==
  /\ spc = "watch" /\ ~gave_up /\ ~Alive(Watched)
  /\ BeginRestart
  /\ UNCHANGED <<proc, port, places, target, info, sport, failures, others, bounds, ghosts>>

ProbeHealthy ==
  /\ spc = "watch" /\ ~gave_up /\ Alive(Watched) /\ Healthy
  /\ failures # 0 /\ failures' = 0
  /\ UNCHANGED <<proc, port, places, spc, target, info, sport, restarts, gave_up, others, bounds, ghosts>>

\* A count of failures that does not add up.
ProbeForgets ==
  /\ spc = "watch" /\ ~gave_up /\ Alive(Watched) /\ ~Healthy
  /\ failures' = 1
  /\ IF Threshold <= 1 THEN BeginRestart ELSE UNCHANGED <<spc, restarts, gave_up>>
  /\ UNCHANGED <<proc, port, places, target, info, sport, others, bounds, ghosts>>

ProbeUnresponsive ==
  /\ spc = "watch" /\ ~gave_up /\ Alive(Watched) /\ ~Healthy
  /\ failures' = failures + 1
  /\ IF failures + 1 >= Threshold
     THEN BeginRestart
     ELSE UNCHANGED <<spc, restarts, gave_up>>
  /\ UNCHANGED <<proc, port, places, target, info, sport, others, bounds, ghosts>>

\* A restart that signals the old process and does not wait for it.
StopOldNoWait ==
  /\ spc = "stop" /\ spc' = "clean"
  /\ target' = Watched
  /\ proc' = IF Alive(Watched) THEN Terminated(Watched) ELSE proc
  /\ UNCHANGED <<port, places, info, sport, failures, restarts, gave_up, others, bounds, ghosts>>

\* The pid is read again after the backoff; stop_pid signals it if it is alive.
StopOld ==
  /\ spc = "stop"
  /\ target' = Watched
  /\ IF Alive(Watched)
     THEN proc' = Terminated(Watched) /\ spc' = "kill"
     ELSE spc' = "clean" /\ UNCHANGED proc
  /\ UNCHANGED <<port, places, info, sport, failures, restarts, gave_up, others, bounds, ghosts>>

\* It is not killed when the time is up.
KillOldNever ==
  /\ spc = "kill" /\ spc' = "clean"
  /\ UNCHANGED <<proc, port, places, target, info, sport, failures, restarts, gave_up, others, bounds, ghosts>>

\* It exits in time, or is killed.
KillOld ==
  /\ spc = "kill" /\ spc' = "clean"
  /\ proc' = [proc EXCEPT ![target] = "dead"]
  /\ UNCHANGED <<port, places, target, info, sport, failures, restarts, gave_up, others, bounds, ghosts>>

CleanFiles ==
  /\ spc = "clean" /\ spc' = "unlist"
  /\ pidfile' = None /\ endpoint' = None
  /\ UNCHANGED <<proc, port, row, target, info, sport, failures, restarts, gave_up, others, bounds, ghosts>>

CleanRow ==
  /\ spc = "unlist" /\ spc' = "spawn"
  /\ ClearRow
  /\ UNCHANGED <<proc, port, endpoint, pidfile, target, info, sport, failures, restarts, gave_up, others, bounds, ghosts>>

\* start_detached: on the old port first, then (port 0) on a fresh one.
Spawn(p) ==
  /\ spc \in {"spawn", "respawn"}
  /\ proc[p] = "unborn" /\ \A q \in Pids : proc[q] = "unborn" => p <= q
  /\ target' = p
  /\ proc' = [proc EXCEPT ![p] = "starting"]
  /\ sport' = IF spc = "respawn" THEN p ELSE sport
  /\ port' = [port EXCEPT ![p] = sport']
  /\ spc' = IF spc = "spawn" THEN "await" ELSE "reawait"
  /\ UNCHANGED <<places, info, failures, restarts, gave_up, others, bounds, ghosts>>

Recorded ==
  /\ restarts' = restarts \cup {<<target, clock>>}
  /\ attempts' = attempts \cup {<<target, clock>>}

\* _await_endpoint: whatever endpoint file is there is taken for the child's.
Started ==
  /\ spc \in {"await", "reawait"} /\ endpoint # None
  /\ spc' = "watch" /\ target' = None
  /\ info' = endpoint /\ sport' = port[endpoint]
  /\ failures' = 0
  /\ Recorded
  /\ UNCHANGED <<proc, port, places, gave_up, others, bounds, slow, lost>>

\* A failed restart that is not counted.
StartFailsFree ==
  /\ spc \in {"await", "reawait"} /\ endpoint = None
  /\ \/ proc[target] = "dead" /\ UNCHANGED <<faults, slow>>
     \/ Alive(target) /\ Fault /\ slow' = slow + 1
  /\ \/ spc = "await" /\ spc' = "respawn" /\ pidfile' = None
     \/ spc = "reawait" /\ spc' = "watch" /\ UNCHANGED pidfile
  /\ target' = None
  /\ attempts' = IF spc = "reawait" THEN attempts \cup {<<target, clock>>} ELSE attempts
  /\ UNCHANGED <<proc, port, endpoint, row, info, sport, failures, restarts, gave_up,
                 others, clock, stops, prunes, lost>>

\* No endpoint file in time: the child is dead, or slow.
\* The second failure ends the restart, which counts like one that worked.
StartFails ==
  /\ spc \in {"await", "reawait"} /\ endpoint = None
  /\ \/ proc[target] = "dead" /\ UNCHANGED <<faults, slow>>
     \/ Alive(target) /\ Fault /\ slow' = slow + 1
  /\ \/ spc = "await" /\ spc' = "respawn" /\ pidfile' = None /\ UNCHANGED <<restarts, attempts>>
     \/ spc = "reawait" /\ spc' = "watch" /\ Recorded /\ UNCHANGED pidfile
  /\ target' = None
  /\ UNCHANGED <<proc, port, endpoint, row, info, sport, failures, gave_up,
                 others, clock, stops, prunes, lost>>

Supervise ==
  \/ ProbeDead \/ ProbeHealthy \/ ProbeUnresponsive
  \/ StopOld \/ KillOld \/ CleanFiles \/ CleanRow
  \/ (\E p \in Pids : Spawn(p)) \/ Started \/ StartFails

-----------------------------------------------------------------------------
(* Other processes                                                         *)

ClearsRow ==
  /\ ClearRow
  /\ lost' = IF row' # row /\ proc[row] = "serving" THEN lost + 1 ELSE lost

\* stop(): read the pid file, stop_pid, unregister the id.
StopRead ==
  /\ stopping = None /\ pidfile # None /\ stops < MaxStops
  /\ stops' = stops + 1
  /\ stopping' = [pid |-> pidfile, signalled |-> FALSE]
  /\ UNCHANGED <<proc, port, places, supervisor, pruning, clock, faults, prunes, ghosts>>

StopSignal ==
  /\ stopping # None /\ ~stopping.signalled
  /\ proc' = Terminated(stopping.pid)
  /\ stopping' = [stopping EXCEPT !.signalled = TRUE]
  /\ UNCHANGED <<port, places, supervisor, pruning, bounds, ghosts>>

StopKill ==
  /\ stopping # None /\ stopping.signalled /\ Alive(stopping.pid)
  /\ proc' = [proc EXCEPT ![stopping.pid] = "dead"]
  /\ UNCHANGED <<port, places, supervisor, others, bounds, ghosts>>

StopUnregister ==
  /\ stopping # None /\ stopping.signalled /\ ~Alive(stopping.pid)
  /\ stopping' = None
  /\ ClearsRow
  /\ UNCHANGED <<proc, port, endpoint, pidfile, supervisor, pruning, bounds, slow, attempts>>

Stop == StopRead \/ StopSignal \/ StopKill \/ StopUnregister

\* list_servers reads the rows and probes their pids, then unregisters the dead by id.
PruneRead ==
  /\ ~pruning /\ row # None /\ ~Alive(row) /\ prunes < MaxPrunes
  /\ pruning' = TRUE /\ prunes' = prunes + 1
  /\ UNCHANGED <<proc, port, places, supervisor, stopping, clock, faults, stops, ghosts>>

PruneDelete ==
  /\ pruning /\ pruning' = FALSE
  /\ ClearsRow
  /\ UNCHANGED <<proc, port, endpoint, pidfile, supervisor, stopping, bounds, slow, attempts>>

Prune == PruneRead \/ PruneDelete

Tick ==
  /\ clock < MaxTime /\ clock' = clock + 1
  /\ UNCHANGED <<proc, port, places, supervisor, others, faults, stops, prunes, ghosts>>

Next ==
  \/ \E p \in Pids : Run(p) \/ Die(p) \/ Hang(p)
  \/ Supervise \/ Stop \/ Prune \/ Tick

Spec == Init /\ [][Next]_vars

\* The supervisor's loop runs for ever and a live process does not stall on its way up
\* or down; how long it may take is bounded only by what gives up on it.
FairSpec ==
  /\ Spec
  /\ WF_vars(Supervise)
  /\ \A p \in Pids : WF_vars(Run(p))

-----------------------------------------------------------------------------
(* Properties                                                              *)

\* Two processes under one id: every process beyond the first is the child of a start
\* that was given up while it was still coming up. Restarts, external stops, crashes in
\* between and ports that are still held never leave one behind.
Live == {p \in Pids : Alive(p)}
OneServer == Cardinality(Live) <= 1 + slow

\* Why, as long as no start was slow: the one process there can be is the one the
\* supervisor has in hand, and it finds itself in the id's files.
Tracked == IF spc \in {"await", "reawait"} THEN target ELSE info
InFile == {"published", "recorded", "serving", "hung"} \cup Closing
InHand ==
  /\ \A p \in Pids : Alive(p) => p = Tracked /\ spc \notin {"clean", "unlist", "spawn", "respawn"}
  /\ \A p \in Pids : /\ proc[p] \in InFile => endpoint = p
                     /\ proc[p] \in InFile \ {"published", "unrecorded"} => pidfile = p
                     /\ proc[p] = "unrecorded" => pidfile = None
  /\ endpoint = None => pidfile = None
  /\ spc \notin {"clean", "unlist", "spawn", "respawn"} => {endpoint, pidfile} \subseteq {Tracked, None}
  /\ spc \in {"unlist", "spawn", "respawn"} => endpoint = None
  /\ spc = "kill" => target = info
FleetInv ==
  /\ TypeOK
  /\ spc \in {"await", "reawait"} => target # None
  /\ slow = 0 => InHand
  /\ slow = 0 /\ lost = 0 => \A p \in Pids : proc[p] = "serving" => row = p

\* What the id's files and row name is the serving process, unless a slow start or a
\* pruner came in between: no late clean-up of a predecessor removes them.
ServingIsNamed ==
  slow = 0 /\ lost = 0 =>
    \A p \in Pids : proc[p] = "serving" => row = p /\ pidfile = p /\ endpoint = p

\* "capped at max_restarts per restart_window seconds" (supervisor.py:16): in no window
\* do more restarts end, failed ones included.
RestartsCapped ==
  \A t \in Times :
    Cardinality({a \in attempts : a[2] <= t /\ t <= a[2] + Window}) <= MaxRestarts

\* A server that died or hangs is serving again, or the supervisor has given up.
Serving == \E p \in Pids : proc[p] = "serving"
ServedOrGivenUp == <>[](Serving \/ gave_up)

\* "optionally pruning ones whose PID is dead" (catalog.py:318): a row is only pruned
\* while the process it names is dead.
PrunesTheDead == [][pruning /\ ~pruning' /\ row # None => ~Alive(row)]_vars
=============================================================================
