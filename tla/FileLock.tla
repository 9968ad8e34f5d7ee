------------------------------ MODULE FileLock ------------------------------
(***************************************************************************)
(* locking.py: FileLock, a cross-process lock on a sidecar file, together  *)
(* with the one caller that deletes the sidecar: BackupManager's           *)
(* remove_backups, which releases a key's lock and then removes the        *)
(* directory tree the lock file lives in.                                  *)
(*                                                                         *)
(* A lock is held on an inode, not on a path: what a process locks is the  *)
(* file its descriptor was opened on.                                      *)
(*                                                                         *)
(* Names that every component has begin with "lock" here, so that a module *)
(* can extend this one together with a component that uses the lock.       *)
(***************************************************************************)
EXTENDS Naturals, FiniteSets

CONSTANTS Procs,      \* lock objects, each in its own process or thread
          Removers,   \* the ones whose critical section is remove_backups
          Inodes,     \* inodes of the file system that holds the sidecar
          Nil

ASSUME LockAssumption == Removers \subseteq Procs /\ Nil \notin Procs \cup Inodes

VARIABLES path,       \* the inode the lock path names, or Nil
          dir,        \* does the lock file's directory exist
          fd,         \* fd[p]: the inode p's descriptor is open on, or Nil
          flock,      \* flock[i]: the process whose flock is on inode i
          lockPc      \* where p is in acquire / release / remove_backups

lockVars == <<path, dir, fd, flock, lockPc>>

Steps == {"idle", "open", "poll", "held", "unlink", "rmdir"}

LockTypeOK ==
  /\ path \in Inodes \cup {Nil}
  /\ dir \in BOOLEAN
  /\ fd \in [Procs -> Inodes \cup {Nil}]
  /\ flock \in [Inodes -> Procs \cup {Nil}]
  /\ lockPc \in [Procs -> Steps]

LockInit ==
  /\ path = Nil
  /\ dir = FALSE
  /\ fd = [p \in Procs |-> Nil]
  /\ flock = [i \in Inodes |-> Nil]
  /\ lockPc = [p \in Procs |-> "idle"]

Goto(p, from, to) == lockPc[p] = from /\ lockPc' = [lockPc EXCEPT ![p] = to]

\* An inode that no directory entry and no descriptor refers to.
Free(i) == i # path /\ \A p \in Procs : fd[p] # i

-----------------------------------------------------------------------------
(* acquire                                                                 *)

\* _open, first half: mkdir(parents=True, exist_ok=True).
Mkdir(p) ==
  /\ Goto(p, "idle", "open")
  /\ dir' = TRUE
  /\ UNCHANGED <<path, fd, flock>>

\* _open, second half: O_CREAT opens the existing sidecar or makes a new one.
OpenExisting(p) ==
  /\ path # Nil
  /\ Goto(p, "open", "poll")
  /\ fd' = [fd EXCEPT ![p] = path]
  /\ UNCHANGED <<path, dir, flock>>

OpenNew(p) ==
  /\ path = Nil /\ dir
  /\ Goto(p, "open", "poll")
  /\ \E i \in Inodes : /\ Free(i)
                       /\ path' = i
                       /\ fd' = [fd EXCEPT ![p] = i]
  /\ UNCHANGED <<dir, flock>>

\* The directory went away between mkdir and open: the caller gets the error.
OpenFails(p) ==
  /\ ~dir
  /\ Goto(p, "open", "idle")
  /\ UNCHANGED <<path, dir, fd, flock>>

\* A lock that is granted whatever another descriptor holds.
TryLockShared(p) ==
  /\ Goto(p, "poll", "held")
  /\ flock' = [flock EXCEPT ![fd[p]] = p]
  /\ UNCHANGED <<path, dir, fd>>

\* _try_lock: LOCK_EX | LOCK_NB.  A refused attempt sleeps and changes nothing.
TryLock(p) ==
  /\ Goto(p, "poll", "held")
  /\ flock[fd[p]] = Nil
  /\ flock' = [flock EXCEPT ![fd[p]] = p]
  /\ UNCHANGED <<path, dir, fd>>

\* A deadline that is never looked at.
TimeoutNever(p) == FALSE /\ Goto(p, "poll", "idle") /\ UNCHANGED <<path, dir, fd, flock>>

\* The deadline passed after a refused attempt: close and raise LockTimeout.
Timeout(p) ==
  /\ Goto(p, "poll", "idle")
  /\ flock[fd[p]] # Nil
  /\ fd' = [fd EXCEPT ![p] = Nil]
  /\ UNCHANGED <<path, dir, flock>>

-----------------------------------------------------------------------------
(* release, and what follows it in remove_backups                          *)

Unlock(p) == [i \in Inodes |-> IF flock[i] = p THEN Nil ELSE flock[i]]

Release(p) ==
  /\ Goto(p, "held", IF p \in Removers THEN "unlink" ELSE "idle")
  /\ flock' = Unlock(p)
  /\ fd' = [fd EXCEPT ![p] = Nil]
  /\ UNCHANGED <<path, dir>>

\* shutil.rmtree(root / key, ignore_errors=True), after the release: unlink
\* what the directory lists, then rmdir it, which fails if it is not empty.
Unlink(p) ==
  /\ Goto(p, "unlink", "rmdir")
  /\ path' = Nil
  /\ UNCHANGED <<dir, fd, flock>>

Rmdir(p) ==
  /\ Goto(p, "rmdir", "idle")
  /\ dir' = (dir /\ path # Nil)
  /\ UNCHANGED <<path, fd, flock>>

\* The process dies anywhere; the kernel closes its descriptors.
Die(p) ==
  /\ lockPc[p] # "idle"
  /\ lockPc' = [lockPc EXCEPT ![p] = "idle"]
  /\ flock' = Unlock(p)
  /\ fd' = [fd EXCEPT ![p] = Nil]
  /\ UNCHANGED <<path, dir>>

-----------------------------------------------------------------------------
Open(p) == OpenExisting(p) \/ OpenNew(p) \/ OpenFails(p)

Poll(p) == TryLock(p) \/ Timeout(p)

Step(p) ==
  \/ Mkdir(p) \/ Open(p) \/ Poll(p) \/ Release(p)
  \/ Unlink(p) \/ Rmdir(p) \/ Die(p)

LockNext == \E p \in Procs : Step(p)

LockSpec == LockInit /\ [][LockNext]_lockVars

\* A process that is inside acquire() keeps running it; how long a critical
\* section takes, and whether a lock is ever asked for, is up to the caller.
FairLockSpec == LockSpec /\ \A p \in Procs : WF_lockVars(Open(p)) /\ WF_lockVars(Poll(p))

-----------------------------------------------------------------------------
Held(p) == lockPc[p] = "held"

\* "A cross-process exclusive lock" (locking.py:45): two lock objects on one
\* path are never held at the same time.
MutualExclusion == \A p, q \in Procs : Held(p) /\ Held(q) => p = q

\* Whatever happens to the path, two holders never hold one and the same file.
FileExclusion == \A p, q \in Procs : Held(p) /\ Held(q) /\ fd[p] = fd[q] => p = q

\* The inductive invariant: descriptors are open exactly inside acquire's poll
\* and the critical section, flocks and holders agree, and where nothing
\* removes the sidecar every descriptor is open on the file the path names.
DescriptorsOpen == \A p \in Procs : fd[p] # Nil <=> lockPc[p] \in {"poll", "held"}
HoldersLocked == \A p \in Procs : Held(p) => flock[fd[p]] = p
LocksHeld == \A i \in Inodes : flock[i] # Nil => Held(flock[i]) /\ fd[flock[i]] = i
SidecarStays == \A p \in Procs : /\ fd[p] # Nil => fd[p] = path
                                /\ lockPc[p] \notin {"unlink", "rmdir"}
LockInv ==
  /\ LockTypeOK
  /\ DescriptorsOpen
  /\ HoldersLocked
  /\ LocksHeld
  /\ Removers = {} => SidecarStays

\* acquire() always returns or raises: no order of holders, crashes and
\* removals leaves a caller polling for ever.
AcquireReturns == \A p \in Procs : lockPc[p] \in {"open", "poll"} ~> lockPc[p] \in {"idle", "held"}

\* Whatever happens to the path, the files that ever were the sidecar are mutexes: a
\* step takes one that is free, leaves one that is held, or changes no holder.
Abstract == INSTANCE Mutex WITH Files <- Inodes, holder <- flock, None <- Nil
FilesAreMutexes == Abstract!Spec
=============================================================================
