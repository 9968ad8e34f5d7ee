SPECIFICATION FairLockSpec
CONSTANTS
  Procs = {p1, p2, r1}
  Removers = {r1}
  Inodes = {i1, i2, i3, i4}
  Nil = Nil
INVARIANT LockInv
PROPERTIES AcquireReturns FilesAreMutexes
