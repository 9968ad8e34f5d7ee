------------------------- MODULE ServerFleetProofs -------------------------
(***************************************************************************)
(* ServerFleet for every number of processes, faults, stops and prunes,    *)
(* every threshold and every restart budget: the files and the row name    *)
(* the server, one server per id, and the cap on restarts.                 *)
(***************************************************************************)
EXTENDS ServerFleet, FiniteSetTheorems, TLAPS

-----------------------------------------------------------------------------
(* FleetInv is inductive                                                   *)

LEMMA InitFleet == Init => FleetInv
<1> SUFFICES ASSUME Init PROVE FleetInv
  OBVIOUS
<1>1. 1 \in Pids /\ 0 \in Times
  BY ServerFleetAssumption DEF Pids, Times
<1>2. TypeOK
  <2>1. /\ proc \in [Pids -> Starting \cup Closing \cup {"unborn", "serving", "hung", "dead"}]
        /\ port \in [Pids -> Pids]
    BY <1>1 DEF Init
  <2>2. 0 \in 0..MaxFaults /\ 0 \in 0..MaxStops /\ 0 \in 0..MaxPrunes
    BY ServerFleetAssumption
  <2> QED
    BY <1>1, <2>1, <2>2 DEF Init, TypeOK, Some, Restarts
<1> QED
  BY <1>1, <1>2, ServerFleetAssumption
  DEF Init, FleetInv, InHand, Alive, Tracked, InFile, Starting, Closing, Pids

\* A server process on its way up or down, a crash or a hang.
LEMMA ServerFleetStep ==
  ASSUME FleetInv, NEW p \in Pids, Run(p) \/ Die(p) \/ Hang(p)
  PROVE  FleetInv'
<1> USE ServerFleetAssumption DEF FleetInv, TypeOK, InHand, Some, Alive, Tracked, InFile, Starting,
        Closing, Become, Fault, places, supervisor, others, bounds, ghosts
<1>1. CASE Bind(p)
  BY <1>1 DEF Bind
<1>2. CASE WriteEndpoint(p)
  BY <1>2 DEF WriteEndpoint
<1>3. CASE WritePid(p)
  BY <1>3 DEF WritePid
<1>4. CASE Register(p)
  BY <1>4 DEF Register
<1>5. CASE Unregister(p)
  BY <1>5 DEF Unregister, ClearRow
<1>6. CASE RemovePid(p)
  BY <1>6 DEF RemovePid
<1>7. CASE RemoveEndpoint(p)
  BY <1>7 DEF RemoveEndpoint
<1>8. CASE Die(p)
  BY <1>8 DEF Die
<1>9. CASE Hang(p)
  BY <1>9 DEF Hang
<1> QED
  BY <1>1, <1>2, <1>3, <1>4, <1>5, <1>6, <1>7, <1>8, <1>9 DEF Run

LEMMA SupervisorStep ==
  ASSUME FleetInv, Supervise
  PROVE  FleetInv'
<1> USE ServerFleetAssumption DEF FleetInv, TypeOK, InHand, Some, Alive, Tracked, InFile, Starting,
        Closing, Fault, places, supervisor, others, bounds, ghosts
<1>1. CASE ProbeDead
  <2>1. restarts' \in Restarts /\ spc' \in {"watch", "stop"} /\ gave_up' \in BOOLEAN
    BY <1>1 DEF ProbeDead, BeginRestart, Recent, Restarts
  <2> QED
    BY <1>1, <2>1 DEF ProbeDead
<1>2. CASE ProbeHealthy
  BY <1>2 DEF ProbeHealthy
<1>3. CASE ProbeUnresponsive
  <2>1. restarts' \in Restarts /\ spc' \in {"watch", "stop"} /\ gave_up' \in BOOLEAN
    BY <1>3 DEF ProbeUnresponsive, BeginRestart, Recent, Restarts
  <2> QED
    BY <1>3, <2>1 DEF ProbeUnresponsive
<1>4. CASE StopOld
  <2>1. Watched \in Some
    BY DEF Watched
  <2>2. slow = 0 => Watched = info
    BY <1>4 DEF StopOld, Watched
  <2> QED
    BY <1>4, <2>1, <2>2 DEF StopOld, Terminated
<1>5. CASE KillOld
  <2>1. /\ spc = "kill" /\ spc' = "clean"
        /\ \A p \in Pids : proc'[p] = IF p = target THEN "dead" ELSE proc[p]
        /\ proc' \in [Pids -> Starting \cup Closing \cup {"unborn", "serving", "hung", "dead"}]
    BY <1>5 DEF KillOld
  <2>2. TypeOK'
    BY <1>5, <2>1 DEF KillOld
  <2>3. slow = 0 => \A p \in Pids : ~Alive(p)'
    BY <1>5, <2>1
  <2> QED
    BY <1>5, <2>1, <2>2, <2>3 DEF KillOld
<1>6. CASE CleanFiles
  BY <1>6 DEF CleanFiles
<1>7. CASE CleanRow
  BY <1>7 DEF CleanRow, ClearRow
<1>8. CASE \E p \in Pids : Spawn(p)
  BY <1>8 DEF Spawn
<1>9. CASE Started
  BY <1>9 DEF Started, Recorded, Restarts
<1>10. CASE StartFails
  BY <1>10 DEF StartFails, Recorded, Restarts
<1> QED
  BY <1>1, <1>2, <1>3, <1>4, <1>5, <1>6, <1>7, <1>8, <1>9, <1>10 DEF Supervise

LEMMA OutsideStep ==
  ASSUME FleetInv, Stop \/ Prune \/ Tick \/ UNCHANGED vars
  PROVE  FleetInv'
<1> USE ServerFleetAssumption DEF FleetInv, TypeOK, InHand, Some, Alive, Tracked, InFile, Starting,
        Closing, places, supervisor, others, bounds, ghosts
<1>1. CASE StopRead
  BY <1>1 DEF StopRead
<1>2. CASE StopSignal
  <2>1. stopping.pid \in Pids /\ stopping' \in [pid : Pids, signalled : BOOLEAN]
    BY <1>2 DEF StopSignal
  <2>2. /\ proc' \in [Pids -> Starting \cup Closing \cup {"unborn", "serving", "hung", "dead"}]
        /\ \A p \in Pids : \/ proc'[p] = proc[p]
                           \/ proc[p] = "serving" /\ proc'[p] = "closing"
                           \/ proc[p] \in Starting /\ proc'[p] = "dead"
    BY <1>2, <2>1 DEF StopSignal, Terminated
  <2> QED
    BY <1>2, <2>1, <2>2 DEF StopSignal
<1>3. CASE StopKill
  BY <1>3 DEF StopKill
<1>4. CASE StopUnregister
  BY <1>4 DEF StopUnregister, ClearsRow, ClearRow
<1>5. CASE PruneRead
  BY <1>5 DEF PruneRead
<1>6. CASE PruneDelete
  <2>1. /\ row' \in {row, None}
        /\ lost' = lost + 1 \/ (lost' = lost /\ (row' = row \/ proc[row] # "serving"))
    BY <1>6 DEF PruneDelete, ClearsRow, ClearRow
  <2>2. lost' \in Nat /\ row' \in Some /\ pruning' = FALSE
    BY <1>6, <2>1 DEF PruneDelete
  <2>3. /\ UNCHANGED <<proc, port, endpoint, pidfile, spc, target, info, sport, failures>>
        /\ UNCHANGED <<restarts, gave_up, stopping, clock, faults, stops, prunes, slow, attempts>>
    BY <1>6 DEF PruneDelete
  <2>4. TypeOK'
    BY <2>2, <2>3
  <2>5. (spc' \in {"await", "reawait"} => target' # None) /\ (slow' = 0 => InHand')
    BY <2>3
  <2>6. slow' = 0 /\ lost' = 0 => \A p \in Pids : proc'[p] = "serving" => row' = p
    <3> SUFFICES ASSUME slow = 0, lost' = 0, NEW p \in Pids, proc[p] = "serving" PROVE row' = p
      BY <2>3
    <3>1. lost = 0 /\ (row' = row \/ proc[row] # "serving")
      BY <2>1
    <3> QED
      BY <3>1
  <2> QED
    BY <2>4, <2>5, <2>6
<1>7. CASE Tick
  BY <1>7 DEF Tick, Times
<1>8. CASE UNCHANGED vars
  BY <1>8 DEF vars
<1> QED
  BY <1>1, <1>2, <1>3, <1>4, <1>5, <1>6, <1>7, <1>8 DEF Stop, Prune

\* As long as no start was given up while its child was alive, the one live process is
\* the one the supervisor has in hand, through every crash, stop and restart.
THEOREM FleetInvariance == Spec => []FleetInv
<1>1. FleetInv /\ [Next]_vars => FleetInv'
  BY ServerFleetStep, SupervisorStep, OutsideStep DEF Next
<1> QED
  BY InitFleet, <1>1, PTL DEF Spec

\* The files and the row name the serving process unless a slow start or a pruner came
\* in between: no late clean-up of a predecessor removes them.
THEOREM NamedWhileServing == Spec => []ServingIsNamed
<1>1. FleetInv => ServingIsNamed
  BY DEF FleetInv, TypeOK, InHand, InFile, ServingIsNamed
<1> QED
  BY FleetInvariance, <1>1, PTL

-----------------------------------------------------------------------------
(* The cap on restarts                                                     *)

\* The restarts the deque has dropped are out of every window that is still open, and a
\* restart under way has found room in the window.
CapInv ==
  /\ TypeOK
  /\ IsFiniteSet(attempts) /\ restarts \subseteq attempts
  /\ \A a \in attempts : a[2] <= clock
  /\ \A a \in attempts \ restarts : a[2] + Window < clock
  /\ spc # "watch" => Cardinality(Recent) < MaxRestarts
  /\ RestartsCapped

LEMMA InitCap == Init => CapInv
<1> SUFFICES ASSUME Init PROVE CapInv
  OBVIOUS
<1>1. TypeOK
  BY InitFleet DEF FleetInv
<1>2. IsFiniteSet({}) /\ Cardinality({}) = 0
  BY FS_EmptySet
<1>3. \A t \in Times : {a \in attempts : a[2] <= t /\ t <= a[2] + Window} = {}
  BY DEF Init
<1>4. MaxRestarts \in Nat
  BY ServerFleetAssumption
<1>5. \A t \in Times :
        Cardinality({a \in attempts : a[2] <= t /\ t <= a[2] + Window}) <= MaxRestarts
  <2> TAKE t \in Times
  <2>1. Cardinality({a \in attempts : a[2] <= t /\ t <= a[2] + Window}) = 0
    BY <1>2, <1>3, Zenon
  <2> QED
    BY <1>4, <2>1
<1> QED
  BY <1>1, <1>2, <1>5 DEF Init, CapInv, RestartsCapped

LEMMA RecentFinite ==
  ASSUME CapInv
  PROVE  Recent \subseteq attempts /\ IsFiniteSet(Recent) /\ Cardinality(Recent) \in Nat
<1>1. Recent \subseteq attempts
  BY DEF Recent, CapInv
<1>2. IsFiniteSet(Recent)
  BY <1>1, FS_Subset DEF CapInv
<1> QED
  BY <1>1, <1>2, FS_CardinalityType

\* A restart that ends while the window has room keeps every window within the cap:
\* those that contain the new restart hold nothing but recent ones besides.
LEMMA EndKeepsCap ==
  ASSUME CapInv, FleetInv, spc # "watch", Recorded, target \in Pids, UNCHANGED clock
  PROVE  /\ IsFiniteSet(attempts') /\ restarts' \subseteq attempts'
         /\ \A a \in attempts' : a[2] <= clock'
         /\ \A a \in attempts' \ restarts' : a[2] + Window < clock'
         /\ RestartsCapped'
<1> DEFINE new == <<target, clock>>
<1>1. /\ attempts' = attempts \cup {new} /\ restarts' = restarts \cup {new}
      /\ clock \in Nat /\ new[2] = clock /\ Window \in Nat /\ MaxRestarts \in Nat
      /\ \A a \in attempts : a[2] \in Nat
  BY ServerFleetAssumption DEF Recorded, CapInv, TypeOK, Times, Restarts
<1>2. /\ IsFiniteSet(attempts') /\ restarts' \subseteq attempts'
      /\ \A a \in attempts' : a[2] <= clock'
      /\ \A a \in attempts' \ restarts' : a[2] + Window < clock'
  <2>1. IsFiniteSet(attempts')
    BY <1>1, FS_AddElement DEF CapInv
  <2> QED
    BY <1>1, <2>1 DEF CapInv
<1>3. ASSUME NEW t \in Times
      PROVE  Cardinality({a \in attempts' : a[2] <= t /\ t <= a[2] + Window}) <= MaxRestarts
  <2> DEFINE W == {a \in attempts' : a[2] <= t /\ t <= a[2] + Window}
  <2>1. CASE t < clock
    <3>1. W = {a \in attempts : a[2] <= t /\ t <= a[2] + Window}
      BY <1>1, <2>1 DEF Times
    <3> QED
      BY <3>1 DEF CapInv, RestartsCapped
  <2>2. CASE clock <= t
    <3>1. Recent \subseteq attempts /\ IsFiniteSet(Recent)
      BY RecentFinite
    <3>2. Cardinality(Recent) \in Nat /\ Cardinality(Recent) < MaxRestarts
      BY RecentFinite DEF CapInv
    <3>3. W \subseteq Recent \cup {new}
      <4> SUFFICES ASSUME NEW a \in attempts, t <= a[2] + Window PROVE a \in Recent
        BY <1>1
      <4>1. clock <= a[2] + Window
        BY <1>1, <2>2 DEF Times
      <4>2. a \in restarts
        BY <1>1, <4>1 DEF CapInv
      <4> QED
        BY <4>1, <4>2 DEF Recent
    <3>4. /\ IsFiniteSet(Recent \cup {new})
          /\ Cardinality(Recent \cup {new}) <= Cardinality(Recent) + 1
      <4>1. /\ IsFiniteSet(Recent \cup {new})
            /\ \/ Cardinality(Recent \cup {new}) = Cardinality(Recent)
               \/ Cardinality(Recent \cup {new}) = Cardinality(Recent) + 1
        BY <3>1, FS_AddElement, Zenon
      <4> QED
        BY <3>2, <4>1
    <3>5. Cardinality(W) <= Cardinality(Recent \cup {new})
      BY <3>3, <3>4, FS_Subset
    <3>6. Cardinality(W) \in Nat /\ Cardinality(Recent \cup {new}) \in Nat
      BY <3>3, <3>4, FS_Subset, FS_CardinalityType
    <3> QED
      BY <1>1, <3>2, <3>4, <3>5, <3>6
  <2> QED
    BY <1>1, <2>1, <2>2 DEF Times
<1>4. RestartsCapped'
  BY <1>3 DEF RestartsCapped
<1> QED
  BY <1>2, <1>4

\* Steps that end no restart: time may pass, and the deque may drop what is out of date.
LEMMA NoEndKeepsCap ==
  ASSUME CapInv, UNCHANGED attempts, clock' \in Nat, clock <= clock',
         restarts' = restarts \/ (restarts' = Recent /\ clock' = clock)
  PROVE  /\ IsFiniteSet(attempts') /\ restarts' \subseteq attempts'
         /\ \A a \in attempts' : a[2] <= clock'
         /\ \A a \in attempts' \ restarts' : a[2] + Window < clock'
         /\ RestartsCapped'
         /\ Recent' \subseteq Recent /\ Cardinality(Recent') <= Cardinality(Recent)
         /\ Cardinality(Recent) \in Nat /\ Cardinality(Recent') \in Nat
<1>1. /\ clock \in Nat /\ Window \in Nat /\ \A a \in attempts : a[2] \in Nat
      /\ restarts \subseteq attempts
  BY ServerFleetAssumption DEF CapInv, TypeOK, Times, Restarts
<1>2. /\ IsFiniteSet(attempts') /\ restarts' \subseteq attempts'
      /\ \A a \in attempts' : a[2] <= clock'
      /\ \A a \in attempts' \ restarts' : a[2] + Window < clock'
  BY <1>1 DEF CapInv, Recent
<1>3. RestartsCapped'
  BY DEF CapInv, RestartsCapped
<1>4. Recent' \subseteq Recent
  BY <1>1 DEF Recent
<1>6. IsFiniteSet(Recent)
  BY RecentFinite
<1>7. /\ Cardinality(Recent') <= Cardinality(Recent)
      /\ Cardinality(Recent) \in Nat /\ Cardinality(Recent') \in Nat
  BY <1>4, <1>6, FS_Subset, FS_CardinalityType
<1> QED
  BY <1>2, <1>3, <1>4, <1>7

LEMMA StepCap == CapInv /\ FleetInv /\ [Next]_vars => CapInv'
<1> SUFFICES ASSUME CapInv, FleetInv, [Next]_vars PROVE CapInv'
  OBVIOUS
<1> USE DEF places, supervisor, others, bounds, ghosts
<1>1. TypeOK'
  BY ServerFleetStep, SupervisorStep, OutsideStep DEF Next, FleetInv
<1>2. clock \in Nat /\ clock' \in Nat /\ MaxRestarts \in Nat
  BY <1>1, ServerFleetAssumption DEF CapInv, TypeOK, Times
<1>3. CASE ProbeDead \/ ProbeUnresponsive
  <2>1. /\ UNCHANGED <<attempts, clock>> /\ (restarts' = restarts \/ restarts' = Recent)
        /\ spc' # "watch" => Cardinality(Recent) < MaxRestarts
    BY <1>2, <1>3, RecentFinite DEF ProbeDead, ProbeUnresponsive, BeginRestart
  <2> QED
    BY <1>1, <1>2, <2>1, NoEndKeepsCap DEF CapInv
<1>4. CASE Recorded /\ spc \in {"await", "reawait"} /\ spc' = "watch" /\ UNCHANGED clock
  <2>1. target \in Pids
    BY <1>4 DEF FleetInv, TypeOK, Some
  <2> QED
    BY <1>1, <1>4, <2>1, EndKeepsCap DEF CapInv
<1>5. CASE /\ UNCHANGED <<attempts, restarts>> /\ clock <= clock'
           /\ spc' = "watch" \/ spc # "watch"
  BY <1>1, <1>2, <1>5, NoEndKeepsCap DEF CapInv
<1>6. CASE \E p \in Pids : Run(p) \/ Die(p) \/ Hang(p)
  <2>1. UNCHANGED <<attempts, restarts, clock, spc>>
    BY <1>6 DEF Run, Bind, WriteEndpoint, WritePid, Register, Unregister, RemovePid,
       RemoveEndpoint, Die, Hang
  <2> QED
    BY <1>2, <1>5, <2>1
<1>7. CASE ProbeHealthy \/ StopOld \/ KillOld \/ CleanFiles \/ CleanRow
           \/ \E p \in Pids : Spawn(p)
  BY <1>2, <1>5, <1>7 DEF ProbeHealthy, StopOld, KillOld, CleanFiles, CleanRow, Spawn
<1>8. CASE Started
  BY <1>4, <1>8 DEF Started
<1>9. CASE StartFails
  BY <1>2, <1>4, <1>5, <1>9 DEF StartFails
<1>10. CASE Stop \/ Prune \/ Tick \/ UNCHANGED vars
  BY <1>2, <1>5, <1>10 DEF Stop, StopRead, StopSignal, StopKill, StopUnregister, Prune, PruneRead,
     PruneDelete, Tick, vars
<1> QED
  BY <1>3, <1>6, <1>7, <1>8, <1>9, <1>10 DEF Next, Supervise

\* supervisor.py:16 "capped at max_restarts per restart_window seconds", for every budget
\* and every window: no stretch of time as long as the window sees more restarts end.
THEOREM RestartCap == Spec => []RestartsCapped
<1>1. CapInv => RestartsCapped
  BY DEF CapInv
<1> QED
  BY InitCap, StepCap, FleetInvariance, <1>1, PTL DEF Spec

-----------------------------------------------------------------------------
(* One server per id                                                       *)

\* The processes that live or that a file names, besides the one in hand, are no more
\* than the starts that were given up while their child lived. Naming counts: a stale
\* name lets the supervisor pass over a child that lives.
Seen == Live \cup ({endpoint, pidfile} \ {None})
Few(S) == Cardinality(S) <= slow
CountInv ==
  /\ TypeOK
  /\ spc \in {"watch", "stop"} => Few(Live) \/ Few(Seen \ {info})
  /\ spc = "kill" => Few(Live \ {target})
  /\ spc = "clean" => Few(Live)
  /\ spc \in {"unlist", "spawn", "respawn"} => Few(Seen)
  /\ spc \in {"await", "reawait"} => Few(Seen \ {target})

LEMMA PidSets == ASSUME NEW S, S \subseteq Pids PROVE IsFiniteSet(S) /\ Cardinality(S) \in Nat
<1>1. 1 \in Int /\ MaxPids \in Int
  BY ServerFleetAssumption
<1>2. IsFiniteSet(Pids)
  BY <1>1, FS_Interval DEF Pids
<1> QED
  BY <1>2, FS_Subset, FS_CardinalityType

LEMMA SeenPids == ASSUME TypeOK PROVE Live \subseteq Seen /\ Seen \subseteq Pids
  BY DEF TypeOK, Live, Seen, Some

LEMMA FewerStill ==
  ASSUME NEW S, S \subseteq Pids, NEW T, T \subseteq S, NEW n \in Nat, Cardinality(S) <= n
  PROVE  Cardinality(T) <= n
<1>1. T \subseteq Pids
  OBVIOUS
<1>2. Cardinality(T) <= Cardinality(S) /\ Cardinality(T) \in Nat /\ Cardinality(S) \in Nat
  BY <1>1, PidSets, FS_Subset
<1> QED
  BY <1>2

LEMMA OneMore ==
  ASSUME NEW S, S \subseteq Pids, NEW x, NEW n \in Nat, Cardinality(S \ {x}) <= n
  PROVE  Cardinality(S) <= n + 1
<1>1. Cardinality(S \ {x}) = Cardinality(S) - 1 \/ Cardinality(S \ {x}) = Cardinality(S)
  BY PidSets, FS_RemoveElement, Zenon
<1>2. Cardinality(S) \in Nat
  BY PidSets
<1> QED
  BY <1>1, <1>2

LEMMA Exchange ==
  ASSUME NEW S, S \subseteq Pids, NEW x, NEW y \in S, NEW n \in Nat, Cardinality(S \ {x}) <= n
  PROVE  Cardinality(S \ {y}) <= n
<1>1. Cardinality(S) \in Nat /\ Cardinality(S \ {y}) = Cardinality(S) - 1
  BY PidSets, FS_RemoveElement, Zenon
<1>2. Cardinality(S) <= n + 1
  BY OneMore
<1> QED
  BY <1>1, <1>2

LEMMA InitCount == Init => CountInv
<1> SUFFICES ASSUME Init PROVE CountInv
  OBVIOUS
<1>1. TypeOK
  BY InitFleet DEF FleetInv
<1>2. Seen \ {info} = {}
  BY ServerFleetAssumption DEF Init, Seen, Live, Alive, Starting, Closing, Pids
<1>3. Few(Seen \ {info})
  BY <1>2, FS_EmptySet DEF Few, Init
<1> QED
  BY <1>1, <1>3 DEF Init, CountInv

\* Steps that create no process and write no name but a live one.
LEMMA ShrinkCount ==
  ASSUME CountInv, TypeOK', Live' \subseteq Live, Seen' \subseteq Seen,
         UNCHANGED <<target, info, slow>>,
         \/ spc' = spc
         \/ spc = "watch" /\ spc' = "stop"
         \/ spc = "unlist" /\ spc' = "spawn"
  PROVE  CountInv'
<1>1. Live \subseteq Seen /\ Seen \subseteq Pids /\ slow \in Nat
  BY SeenPids DEF CountInv, TypeOK
<1>2. /\ Few(Live) => Few(Live')
      /\ \A x : Few(Live \ {x}) => Few(Live' \ {x})
      /\ Few(Seen) => Few(Seen')
      /\ \A x : Few(Seen \ {x}) => Few(Seen' \ {x})
  <2>1. \A S, T : S \subseteq Pids /\ T \subseteq S /\ Few(S) => Few(T)
    BY <1>1, FewerStill DEF Few
  <2>2. \A x : /\ Live \ {x} \subseteq Pids /\ Live' \ {x} \subseteq Live \ {x}
              /\ Seen \ {x} \subseteq Pids /\ Seen' \ {x} \subseteq Seen \ {x}
    BY <1>1
  <2> QED
    BY <1>1, <2>1, <2>2
<1> QED
  BY <1>2 DEF CountInv, Few

LEMMA ServerCount ==
  ASSUME CountInv, TypeOK', NEW p \in Pids, Run(p) \/ Die(p) \/ Hang(p)
  PROVE  CountInv'
<1> USE DEF Become, places, supervisor, others, bounds, ghosts, Alive, Starting, Closing, TypeOK,
        CountInv
<1>1. UNCHANGED <<spc, target, info, slow>>
  BY DEF Run, Bind, WriteEndpoint, WritePid, Register, Unregister, RemovePid, RemoveEndpoint,
     Die, Hang
<1>2. Live' \subseteq Live
  BY ServerFleetAssumption
  DEF Run, Bind, WriteEndpoint, WritePid, Register, Unregister, RemovePid, RemoveEndpoint,
      Die, Hang, Live
<1>3. {endpoint', pidfile'} \ {None} \subseteq Seen
  <2>1. CASE WriteEndpoint(p) \/ WritePid(p)
    BY <2>1, ServerFleetAssumption DEF WriteEndpoint, WritePid, Seen, Live
  <2>2. CASE ~(WriteEndpoint(p) \/ WritePid(p))
    BY <2>2 DEF Run, Bind, Register, Unregister, RemovePid, RemoveEndpoint, Die, Hang, Seen
  <2> QED
    BY <2>1, <2>2
<1>4. Seen' \subseteq Seen
  BY <1>2, <1>3 DEF Seen
<1> QED
  BY <1>1, <1>2, <1>4, ShrinkCount

LEMMA OutsideCount ==
  ASSUME CountInv, TypeOK', Stop \/ Prune \/ Tick \/ UNCHANGED vars
  PROVE  CountInv'
<1>1. UNCHANGED <<spc, target, info, slow, endpoint, pidfile>>
  BY DEF Stop, StopRead, StopSignal, StopKill, StopUnregister, Prune, PruneRead, PruneDelete,
     Tick, vars, places, supervisor, ghosts
<1>2. Live' \subseteq Live
  <2>1. CASE UNCHANGED proc
    BY <2>1 DEF Live, Alive
  <2>2. CASE StopSignal \/ StopKill
    BY <2>2 DEF StopSignal, StopKill, Terminated, CountInv, TypeOK, Live, Alive, Starting, Closing
  <2> QED
    BY <2>1, <2>2 DEF Stop, StopRead, StopUnregister, Prune, PruneRead, PruneDelete, Tick, vars
<1>3. Seen' \subseteq Seen
  BY <1>1, <1>2 DEF Seen
<1> QED
  BY <1>1, <1>2, <1>3, ShrinkCount

LEMMA SupervisorCount ==
  ASSUME CountInv, TypeOK', Supervise
  PROVE  CountInv'
<1> USE DEF places, supervisor, others, bounds, ghosts
<1>1. /\ Live \subseteq Seen /\ Seen \subseteq Pids /\ slow \in Nat
      /\ Live' \subseteq Seen' /\ Seen' \subseteq Pids /\ slow' \in Nat
  BY DEF CountInv, TypeOK, Live, Seen, Some
<1>2. \A S, T : S \subseteq Pids /\ T \subseteq S /\ Few(S) => Few(T)
  BY <1>1, FewerStill DEF Few
<1>3. CASE ProbeDead \/ ProbeHealthy \/ ProbeUnresponsive \/ CleanRow
  <2>1. UNCHANGED <<proc, endpoint, pidfile, target, info, slow>>
    BY <1>3 DEF ProbeDead, ProbeHealthy, ProbeUnresponsive, CleanRow
  <2>2. Live' = Live /\ Seen' = Seen
    BY <2>1 DEF Live, Alive, Seen
  <2>3. \/ spc' = spc
        \/ spc = "watch" /\ spc' = "stop"
        \/ spc = "unlist" /\ spc' = "spawn"
    BY <1>3 DEF ProbeDead, ProbeHealthy, ProbeUnresponsive, CleanRow, BeginRestart
  <2> QED
    BY <2>1, <2>2, <2>3, ShrinkCount
<1>4. CASE StopOld
  <2>1. Watched = info \/ Watched \in Seen
    BY DEF Watched, Seen
  <2>2. Few(Live \ {Watched})
    <3>1. CASE Few(Live)
      BY <1>1, <1>2, <3>1
    <3>2. CASE Few(Seen \ {info})
      <4>1. Few(Seen \ {Watched})
        BY <1>1, <2>1, <3>2, Exchange DEF Few
      <4> QED
        BY <1>1, <1>2, <4>1
    <3> QED
      BY <1>4, <3>1, <3>2 DEF StopOld, CountInv
  <2>3. target' = Watched /\ UNCHANGED slow
    BY <1>4 DEF StopOld
  <2>4. CASE Alive(Watched)
    <3>1. spc' = "kill" /\ proc' = Terminated(Watched)
      BY <1>4, <2>4 DEF StopOld
    <3>2. Live' \subseteq Live
      BY <3>1 DEF Terminated, CountInv, TypeOK, Live, Alive, Starting, Closing
    <3>3. Few(Live' \ {Watched})
      BY <1>1, <1>2, <2>2, <3>2
    <3> QED
      BY <2>3, <3>1, <3>3 DEF CountInv, Few
  <2>5. CASE ~Alive(Watched)
    <3>1. spc' = "clean" /\ UNCHANGED proc
      BY <1>4, <2>5 DEF StopOld
    <3>2. Live' = Live /\ Live = Live \ {Watched}
      BY <2>5, <3>1 DEF Live, Alive
    <3> QED
      BY <2>2, <2>3, <3>1, <3>2 DEF CountInv, Few
  <2> QED
    BY <2>4, <2>5
<1>5. CASE KillOld
  <2>1. spc = "kill" /\ spc' = "clean" /\ UNCHANGED slow
    BY <1>5 DEF KillOld
  <2>2. Live' \subseteq Live \ {target}
    BY <1>5 DEF KillOld, Live, Alive, CountInv, TypeOK, Starting, Closing
  <2>3. Few(Live')
    BY <1>1, <1>2, <2>1, <2>2 DEF CountInv
  <2> QED
    BY <2>1, <2>3 DEF CountInv, Few
<1>6. CASE CleanFiles
  <2>1. spc = "clean" /\ spc' = "unlist" /\ UNCHANGED slow /\ Seen' = Live
    BY <1>6 DEF CleanFiles, Seen, Live, Alive
  <2> QED
    BY <2>1 DEF CountInv, Few
<1>7. CASE \E p \in Pids : Spawn(p)
  <2>1. PICK p \in Pids : Spawn(p)
    BY <1>7
  <2>2. /\ spc \in {"spawn", "respawn"} /\ spc' \in {"await", "reawait"} /\ target' = p
        /\ UNCHANGED <<slow, endpoint, pidfile>>
    BY <2>1 DEF Spawn
  <2>3. Live' \subseteq Live \cup {p}
    BY <2>1 DEF Spawn, Live, Alive, CountInv, TypeOK
  <2>4. Seen' \ {p} \subseteq Seen
    BY <2>2, <2>3 DEF Seen
  <2>5. Few(Seen' \ {p})
    BY <1>1, <1>2, <2>2, <2>4 DEF CountInv
  <2> QED
    BY <2>2, <2>5 DEF CountInv, Few
<1>8. CASE Started
  <2>1. /\ spc \in {"await", "reawait"} /\ spc' = "watch" /\ endpoint \in Seen
        /\ info' = endpoint /\ UNCHANGED <<proc, endpoint, pidfile, slow>>
    BY <1>8 DEF Started, Seen
  <2>2. Few(Seen \ {endpoint})
    BY <1>1, <2>1, Exchange DEF CountInv, Few
  <2>3. Seen' = Seen
    BY <2>1 DEF Seen, Live, Alive
  <2> QED
    BY <2>1, <2>2, <2>3 DEF CountInv, Few
<1>9. CASE StartFails
  <2>1. /\ spc \in {"await", "reawait"} /\ endpoint = None /\ UNCHANGED <<proc, endpoint>>
        /\ (spc' = "respawn" /\ pidfile' = None) \/ spc' = "watch"
        /\ (proc[target] = "dead" /\ slow' = slow) \/ slow' = slow + 1
    BY <1>9 DEF StartFails
  <2>2. Live' = Live
    BY <2>1 DEF Live, Alive
  <2>3. Cardinality(Live) <= slow'
    <3>1. Few(Live \ {target})
      BY <1>1, <1>2, <2>1 DEF CountInv
    <3>2. CASE slow' = slow + 1
      BY <1>1, <3>1, <3>2, OneMore DEF Few
    <3>3. CASE proc[target] = "dead" /\ slow' = slow
      <4>1. Live \ {target} = Live
        BY <3>3 DEF Live, Alive, Starting, Closing
      <4> QED
        BY <3>1, <3>3, <4>1 DEF Few
    <3> QED
      BY <2>1, <3>2, <3>3
  <2>4. spc' = "respawn" => Seen' = Live
    BY <2>1, <2>2 DEF Seen
  <2> QED
    BY <2>1, <2>2, <2>3, <2>4 DEF CountInv, Few
<1> QED
  BY <1>3, <1>4, <1>5, <1>6, <1>7, <1>8, <1>9 DEF Supervise

\* A second process under an id is always the child of a start that was given up too
\* early: restarts, stops, crashes and ports still held never leave one behind.
THEOREM OneServerPerId == Spec => []OneServer
<1>1. CountInv /\ FleetInv /\ [Next]_vars => CountInv'
  <2> SUFFICES ASSUME CountInv, FleetInv, [Next]_vars PROVE CountInv'
    OBVIOUS
  <2>1. TypeOK'
    BY ServerFleetStep, SupervisorStep, OutsideStep DEF Next, FleetInv
  <2> QED
    BY <2>1, ServerCount, SupervisorCount, OutsideCount DEF Next
<1>2. CountInv => OneServer
  <2> SUFFICES ASSUME CountInv PROVE Cardinality(Live) <= slow + 1
    BY DEF OneServer, CountInv, TypeOK
  <2>1. Live \subseteq Seen /\ Seen \subseteq Pids /\ slow \in Nat
    BY SeenPids DEF CountInv, TypeOK
  <2>2. ASSUME NEW S, S \subseteq Pids, Live \subseteq S, NEW x, Few(S) \/ Few(S \ {x})
        PROVE  Cardinality(Live) <= slow + 1
    <3>1. Cardinality(S) <= slow + 1
      BY <2>1, <2>2, OneMore, PidSets DEF Few
    <3> QED
      BY <2>1, <2>2, <3>1, FewerStill
  <2>3. CASE Few(Seen) \/ Few(Seen \ {info}) \/ Few(Seen \ {target})
    BY <2>1, <2>2, <2>3
  <2>4. CASE Few(Live) \/ Few(Live \ {target})
    BY <2>1, <2>2, <2>4
  <2> QED
    BY <2>3, <2>4 DEF CountInv, TypeOK
<1> QED
  BY InitCount, FleetInvariance, <1>1, <1>2, PTL DEF Spec
=============================================================================
