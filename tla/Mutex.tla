------------------------------- MODULE Mutex -------------------------------
(***************************************************************************)
(* What file_analyzer.server.locking promises its callers about the files  *)
(* its locks are taken on: each file is a critical section that at most    *)
(* one lock object is in, and a lock object is in at most one.             *)
(* FileLock.tla shows that the flock-based implementation delivers it.     *)
(***************************************************************************)
CONSTANTS Procs,    \* the lock objects (one per FileLock(...) in the code)
          Files,    \* the files locks are taken on
          None

VARIABLE holder     \* holder[f]: the object in f's critical section, or None

Init == holder = [f \in Files |-> None]

Enter(p, f) ==
  /\ holder[f] = None
  /\ \A g \in Files : holder[g] # p
  /\ holder' = [holder EXCEPT ![f] = p]

Leave(p, f) == holder[f] = p /\ holder' = [holder EXCEPT ![f] = None]

Next == \E p \in Procs, f \in Files : Enter(p, f) \/ Leave(p, f)

Spec == Init /\ [][Next]_holder
=============================================================================
