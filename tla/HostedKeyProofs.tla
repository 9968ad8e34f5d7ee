-------------------------- MODULE HostedKeyProofs --------------------------
(***************************************************************************)
(* HostedKey for every number of hosters, readers, backers and uploads and *)
(* every clock bound, with processes that may die at any point.            *)
(***************************************************************************)
EXTENDS HostedKey, WellFoundedInduction, FiniteSetTheorems, TLAPS

\* Min is attained on every nonempty set of naturals.
LEMMA MinIs ==
  ASSUME NEW S \in SUBSET Nat, S # {}
  PROVE  Min(S) \in S /\ \A y \in S : Min(S) <= y
<1> DEFINE R == {p \in Nat \X Nat : p[1] < p[2]}
<1>1. IsWellFoundedOn(R, Nat)
  BY NatLessThanWellFounded DEF OpToRel
<1>2. PICK x \in S : \A y \in S : ~ (<<y, x>> \in R)
  <2> HIDE DEF R
  <2> QED
    BY <1>1, WFMin
<1>3. \A y \in S : x <= y
  <2> SUFFICES ASSUME NEW y \in S, y < x PROVE FALSE
    OBVIOUS
  <2>1. <<y, x>> \in Nat \X Nat /\ <<y, x>>[1] < <<y, x>>[2]
    OBVIOUS
  <2>2. <<y, x>> \in R
    BY <2>1
  <2> QED
    BY <2>2, <1>2
<1> QED
  BY <1>3 DEF Min

\* Max is attained on every nonempty bounded set of naturals.
LEMMA GreatestIs ==
  ASSUME NEW n \in Nat, NEW S \in SUBSET (0..n), S # {}
  PROVE  Max(S) \in S /\ \A y \in S : y <= Max(S)
<1> DEFINE T == {n - z : z \in S}
<1>1. T \in SUBSET Nat /\ T # {}
  <2>1. \A y \in S : n - y \in Nat
    OBVIOUS
  <2> QED
    BY <2>1
<1>2. Min(T) \in T /\ \A t \in T : Min(T) <= t
  <2> HIDE DEF T
  <2> QED
    BY <1>1, MinIs
<1>3. PICK m \in S : Min(T) = n - m
  BY <1>2
<1>4. \A y \in S : y <= m
  <2>1. \A y \in S : n - m <= n - y
    BY <1>2, <1>3
  <2> QED
    BY <2>1
<1> QED
  BY <1>4 DEF Max

\* Max of two integers is one of them, and neither is above it.
LEMMA MaxOfTwo ==
  ASSUME NEW a \in Int, NEW b \in Int
  PROVE  Max({a, b}) \in {a, b} /\ Max({a, b}) >= a /\ Max({a, b}) >= b
<1>1. \E x \in {a, b} : \A y \in {a, b} : x >= y
  OBVIOUS
<1> QED
  BY <1>1 DEF Max

\* Without max_age and max_total_bytes the janitor prunes but evicts nothing.
PruneOnly == ~Budget /\ MaxAge >= MaxTime

LEMMA ActiveAtIs ==
  ASSUME TypeOK, row # None
  PROVE  /\ ActiveAt \in Times /\ ActiveAt \in {row.updated_at, OrZero(access)}
         /\ ActiveAt >= row.updated_at
<1>1. row.updated_at \in Times /\ OrZero(access) \in Times
  BY HostedKeyAssumption DEF TypeOK, Row, OrZero, Times
<1>2. row.updated_at \in Int /\ OrZero(access) \in Int
  BY <1>1 DEF Times
<1> QED
  BY <1>1, <1>2, MaxOfTwo DEF ActiveAt

-----------------------------------------------------------------------------
(* What holds whatever the janitor does: at most one holder of the key's   *)
(* present lock file, even when an eviction removes it under its holder    *)

Basics == TypeOK /\ OneHolder /\ UploadInHand

\* What is not an actor's own work.
Other ==
  \/ \E a \in Actors : LockTimeout(a)
  \/ \E a \in Fragile : Fail(a)
  \/ Tick \/ Rot \/ PublishSuspects

LEMMA InitBasics == Init => Basics
<1> SUFFICES ASSUME Init PROVE Basics
  OBVIOUS
<1>1. TypeOK
  <2>1. 0 \in Times
    BY HostedKeyAssumption DEF Times
  <2>2. [now |-> 0, active_at |-> 0, listed |-> FALSE] \in Plan
    BY <2>1 DEF Plan
  <2>3. snap \in [Times -> Content \cup {None}] /\ plan \in [Janitors -> Plan]
    BY <2>2 DEF Init
  <2>4. /\ held \in [Actors -> {"no", "key", "stale"}] /\ pc \in [Actors -> Steps]
        /\ ver \in [Actors -> Content \cup {None}] /\ at \in [Actors -> Times]
    BY <2>1 DEF Init, Steps
  <2>5. todo \in [Janitors -> SUBSET Times] /\ used \in [Janitors -> BOOLEAN]
    BY DEF Init
  <2>6. clock \in Times /\ uploads \in 0..MaxHosts
    BY <2>1, HostedKeyAssumption DEF Init
  <2> QED
    BY <2>3, <2>4, <2>5, <2>6 DEF Init, TypeOK
<1> QED
  BY <1>1 DEF Init, Basics, OneHolder, UploadInHand, Actors

LEMMA HostType ==
  ASSUME Basics, NEW h \in Hosters, Host(h)
  PROVE  TypeOK'
<1> USE HostedKeyAssumption DEF TypeOK, Steps, Basics, Goto, Take, Drop, store, sets, Actors
<1>1. CASE HostPrepare(h)
  BY <1>1 DEF HostPrepare, Versions, Content
<1>2. CASE HostLock(h)
  BY <1>2 DEF HostLock
<1>3. CASE HostSwap(h)
  BY <1>3 DEF HostSwap, UploadInHand, MarkUsed
<1>4. CASE HostUnlist(h)
  BY <1>4 DEF HostUnlist
<1>5. CASE HostList(h)
  BY <1>5 DEF HostList, UploadInHand, Row
<1> QED
  BY <1>1, <1>2, <1>3, <1>4, <1>5 DEF Host

LEMMA ReadType ==
  ASSUME Basics, NEW r \in Readers, Read(r)
  PROVE  TypeOK'
<1> USE HostedKeyAssumption DEF TypeOK, Steps, Basics, Goto, store, sets, Actors
<1>1. CASE QueryThrottled(r)
  BY <1>1 DEF QueryThrottled, MarkUsed
<1>2. CASE Query(r)
  BY <1>2 DEF Query
<1>3. CASE Touch(r)
  BY <1>3 DEF Touch
<1> QED
  BY <1>1, <1>2, <1>3 DEF Read

LEMMA BackupType ==
  ASSUME Basics, NEW b \in Backers, Backup(b)
  PROVE  TypeOK'
<1> USE HostedKeyAssumption DEF TypeOK, Steps, Basics, Goto, Take, Drop, store, sets, Actors
<1>1. CASE BackupCheck(b)
  BY <1>1 DEF BackupCheck
<1>2. CASE BackupLock(b)
  BY <1>2 DEF BackupLock
<1>3. CASE Snapshot(b)
  BY <1>3 DEF Snapshot, Content
<1>4. CASE SnapshotRefused(b)
  BY <1>4 DEF SnapshotRefused
<1>5. CASE SetMkdir(b)
  BY <1>5 DEF SetMkdir
<1>6. CASE SetParts(b)
  BY <1>6 DEF SetParts
<1>7. CASE PartsRefused(b)
  BY <1>7 DEF PartsRefused
<1>8. CASE SetManifest(b)
  BY <1>8 DEF SetManifest
<1>9. CASE Rotate(b)
  BY <1>9 DEF Rotate, DeleteSet
<1>10. CASE BackupDone(b)
  BY <1>10 DEF BackupDone
<1> QED
  BY <1>1, <1>2, <1>3, <1>4, <1>5, <1>6, <1>7, <1>8, <1>9, <1>10 DEF Backup

LEMMA DirsFinite == ASSUME TypeOK PROVE IsFiniteSet(dirs)
<1>1. IsFiniteSet(Times)
  BY FS_Interval, HostedKeyAssumption DEF Times
<1> QED
  BY <1>1, FS_Subset DEF TypeOK

LEMMA PruneType ==
  ASSUME Basics, NEW j \in Janitors, NEW n \in Nat
  PROVE  Pruned(j, n) \in SUBSET Times
  BY DEF Basics, TypeOK, Pruned, Debris, Aged, Oldest

LEMMA EnforceType ==
  ASSUME Basics, NEW j \in Janitors, Enforce(j)
  PROVE  TypeOK'
<1> USE HostedKeyAssumption DEF TypeOK, Steps, Basics, Goto, Take, Drop, store, sets, Actors
<1>1. CASE PlanRead(j)
  <2> DEFINE p == [now |-> clock, listed |-> row # None,
                   active_at |-> IF row = None THEN 0 ELSE ActiveAt]
  <2>1. p \in Plan
    <3>1. /\ clock \in Times
          /\ row # None => ActiveAt \in Times
      BY ActiveAtIs
    <3>2. 0 \in Times
      BY DEF Times
    <3> QED
      BY ONLY <3>1, <3>2 DEF Plan
  <2>2. plan' = [plan EXCEPT ![j] = p]
    BY <1>1 DEF PlanRead
  <2> HIDE DEF p
  <2> QED
    BY <1>1, <2>1, <2>2 DEF PlanRead
<1>2. CASE PlanDecide(j)
  <2>1. PICK S \in SUBSET Times : todo' = [todo EXCEPT ![j] = S]
    <3>1. Cardinality(dirs) \in Nat
      BY DirsFinite, FS_CardinalityType
    <3>2. \/ todo' = [todo EXCEPT ![j] = {}]
          \/ \E n \in Nat : todo' = [todo EXCEPT ![j] = Pruned(j, n)]
      BY <1>2, <3>1 DEF PlanDecide
    <3> QED
      BY <3>2, PruneType
  <2> QED
    BY <1>2, <2>1 DEF PlanDecide
<1>3. CASE Evict(j)
  <2>1. CASE EvictLock(j) \/ EvictSkip(j) \/ Unlink(j) \/ Unrow(j)
    <3>1. CASE EvictLock(j)
      BY <3>1 DEF EvictLock
    <3>2. CASE EvictSkip(j)
      BY <3>2 DEF EvictSkip
    <3>3. CASE Unlink(j)
      BY <3>3 DEF Unlink
    <3>4. CASE Unrow(j)
      BY <3>4 DEF Unrow
    <3> QED
      BY <2>1, <3>1, <3>2, <3>3, <3>4
  <2>2. CASE RemoveBackups(j) \/ Wipe(j) \/ Wiped(j)
    BY <2>2 DEF RemoveBackups, Wipe, Wiped, DeleteSet
  <2>3. CASE RmTree(j)
    BY <2>3 DEF RmTree
  <2> QED
    BY <1>3, <2>1, <2>2, <2>3 DEF Evict
<1>4. CASE PruneNext(j)
  BY <1>4 DEF PruneNext
<1>5. CASE PruneDelete(j)
  BY <1>5 DEF PruneDelete, DeleteSet
<1>6. CASE PruneDone(j)
  BY <1>6 DEF PruneDone
<1>7. CASE EnforceDone(j)
  BY <1>7 DEF EnforceDone
<1> QED
  BY <1>1, <1>2, <1>3, <1>4, <1>5, <1>6, <1>7 DEF Enforce

LEMMA OtherType ==
  ASSUME Basics, Other
  PROVE  TypeOK'
<1> USE HostedKeyAssumption DEF TypeOK, Steps, Basics, Drop, store, sets
<1>1. ASSUME NEW a \in Actors, LockTimeout(a) PROVE TypeOK'
  <2>1. /\ UNCHANGED <<clock, uploads, file, rot, row, suspect, access, touched, dirs, whole,
                         manifests, snap, held, ver, at, plan, used>>
        /\ \E step \in Steps : pc' = [pc EXCEPT ![a] = step]
           \/ pc' = pc
        /\ todo' = todo \/ todo' = [todo EXCEPT ![a] = @ \ {Min(@)}]
    BY <1>1 DEF LockTimeout
  <2>2. pc' \in [Actors -> Steps] /\ todo' \in [Janitors -> SUBSET Times]
    BY <2>1
  <2> QED
    BY <2>1, <2>2
<1>2. ASSUME NEW a \in Fragile, Fail(a) PROVE TypeOK'
  BY <1>2 DEF Fail
<1>3. CASE Tick
  BY <1>3 DEF Tick, Times
<1>4. CASE Rot
  BY <1>4 DEF Rot
<1>5. CASE PublishSuspects
  BY <1>5 DEF PublishSuspects
<1> QED
  BY <1>1, <1>2, <1>3, <1>4, <1>5 DEF Other

LEMMA LocksKept ==
  ASSUME Basics, Next
  PROVE  OneHolder' /\ UploadInHand'
<1> USE DEF Basics, TypeOK, Goto, Busy, Take, Drop, store, sets, Actors, OneHolder, UploadInHand
<1>1. ASSUME NEW h \in Hosters, Host(h) PROVE OneHolder' /\ UploadInHand'
  BY <1>1, HostedKeyAssumption DEF Host, HostPrepare, HostLock, HostSwap, HostUnlist, HostList, Versions
<1>2. ASSUME NEW r \in Readers, Read(r) PROVE OneHolder' /\ UploadInHand'
  BY <1>2 DEF Read, QueryThrottled, Query, Touch
<1>3. ASSUME NEW b \in Backers, Backup(b) PROVE OneHolder' /\ UploadInHand'
  <2>1. CASE Snapshot(b)
    BY <2>1 DEF Snapshot
  <2>2. CASE ~Snapshot(b)
    BY <1>3, <2>2 DEF Backup, BackupCheck, BackupLock, SnapshotRefused, SetMkdir, SetParts,
       PartsRefused, SetManifest, Rotate, BackupDone
  <2> QED
    BY <2>1, <2>2
<1>4. ASSUME NEW j \in Janitors, Enforce(j) PROVE OneHolder' /\ UploadInHand'
  <2>1. CASE Evict(j)
    BY <2>1 DEF Evict, EvictLock, EvictSkip, Unlink, Unrow, RemoveBackups, Wipe, Wiped, RmTree
  <2>2. CASE ~Evict(j)
    BY <1>4, <2>2 DEF Enforce, PlanRead, PlanDecide, PruneNext, PruneDelete, PruneDone, EnforceDone
  <2> QED
    BY <2>1, <2>2
<1>5. ASSUME NEW a \in Actors, LockTimeout(a) PROVE OneHolder' /\ UploadInHand'
  BY <1>5 DEF LockTimeout
<1>6. ASSUME NEW a \in Fragile, Fail(a) PROVE OneHolder' /\ UploadInHand'
  BY <1>6, HostedKeyAssumption DEF Fail
<1>7. CASE Tick \/ Rot \/ PublishSuspects
  BY <1>7 DEF Tick, Rot, PublishSuspects
<1> QED
  BY <1>1, <1>2, <1>3, <1>4, <1>5, <1>6, <1>7 DEF Next

LEMMA StepBasics == ASSUME Basics, [Next]_vars PROVE Basics'
<1>1. CASE Next
  <2>1. TypeOK'
    <3>1. \/ (\E h \in Hosters : Host(h)) \/ (\E r \in Readers : Read(r))
          \/ (\E b \in Backers : Backup(b)) \/ (\E j \in Janitors : Enforce(j))
          \/ Other
      BY <1>1 DEF Next, Other
    <3> QED
      BY <3>1, HostType, ReadType, BackupType, EnforceType, OtherType
  <2> QED
    BY <1>1, <2>1, LocksKept DEF Basics
<1>2. CASE UNCHANGED vars
  BY <1>2 DEF vars, store, sets, Basics, TypeOK, OneHolder, UploadInHand
<1> QED
  BY <1>1, <1>2

\* Types, and one holder of the lock at a time, in every configuration: with evictions,
\* with a budget, with any process dying anywhere.
THEOREM BasicsInvariance == Spec => []Basics
<1>1. Basics /\ [Next]_vars => Basics'
  BY StepBasics
<1> QED
  BY InitBasics, <1>1, PTL DEF Spec

-----------------------------------------------------------------------------
(* The sets: SetsInv is inductive                                          *)

LEMMA InitSets == Init => SetsInv
  BY InitBasics DEF Init, Basics, SetsInv, WritersLocked, Writing, PartsInPlace, NoEviction,
     CompleteIsRestorable, Actors

LockParts == WritersLocked /\ PartsInPlace /\ NoEviction /\ CompleteIsRestorable

LEMMA HostSets ==
  ASSUME SetsInv, NEW h \in Hosters, Host(h)
  PROVE  LockParts'
<1> USE HostedKeyAssumption DEF TypeOK, SetsInv, LockParts, Goto, Busy, Take, Drop, store, sets,
        Actors, OneHolder, WritersLocked, Writing, PartsInPlace, UploadInHand, NoEviction,
        CompleteIsRestorable
<1>1. CASE HostPrepare(h)
  BY <1>1 DEF HostPrepare, Versions
<1>2. CASE HostLock(h)
  BY <1>2 DEF HostLock
<1>3. CASE HostSwap(h)
  BY <1>3 DEF HostSwap
<1>4. CASE HostUnlist(h)
  BY <1>4 DEF HostUnlist
<1>5. CASE HostList(h)
  BY <1>5 DEF HostList
<1> QED
  BY <1>1, <1>2, <1>3, <1>4, <1>5 DEF Host

LEMMA ReadSets ==
  ASSUME SetsInv, NEW r \in Readers, Read(r)
  PROVE  LockParts'
<1> USE HostedKeyAssumption DEF TypeOK, SetsInv, LockParts, Goto, Busy, Take, Drop, store, sets,
        Actors, OneHolder, WritersLocked, Writing, PartsInPlace, UploadInHand, NoEviction,
        CompleteIsRestorable
<1>1. CASE QueryThrottled(r)
  BY <1>1 DEF QueryThrottled
<1>2. CASE Query(r)
  BY <1>2 DEF Query
<1>3. CASE Touch(r)
  BY <1>3 DEF Touch
<1> QED
  BY <1>1, <1>2, <1>3 DEF Read

LEMMA BackupSets ==
  ASSUME SetsInv, NEW b \in Backers, Backup(b)
  PROVE  LockParts'
<1> USE HostedKeyAssumption DEF TypeOK, SetsInv, LockParts, Goto, Busy, Take, Drop, store, sets,
        Actors, OneHolder, WritersLocked, Writing, PartsInPlace, UploadInHand, NoEviction,
        CompleteIsRestorable
<1>1. CASE BackupCheck(b)
  BY <1>1 DEF BackupCheck
<1>2. CASE BackupLock(b)
  BY <1>2 DEF BackupLock
<1>3. CASE Snapshot(b)
  BY <1>3 DEF Snapshot
<1>4. CASE SnapshotRefused(b)
  BY <1>4 DEF SnapshotRefused
<1>5. CASE SetMkdir(b)
  BY <1>5 DEF SetMkdir
<1>6. CASE SetParts(b)
  BY <1>6 DEF SetParts
<1>7. CASE PartsRefused(b)
  BY <1>7 DEF PartsRefused
<1>8. CASE SetManifest(b)
  BY <1>8 DEF SetManifest
<1>9. CASE Rotate(b)
  BY <1>9 DEF Rotate, DeleteSet
<1>10. CASE BackupDone(b)
  BY <1>10 DEF BackupDone
<1> QED
  BY <1>1, <1>2, <1>3, <1>4, <1>5, <1>6, <1>7, <1>8, <1>9, <1>10 DEF Backup

LEMMA EnforceSets ==
  ASSUME PruneOnly, SetsInv, NEW j \in Janitors, Enforce(j)
  PROVE  LockParts'
<1> USE HostedKeyAssumption DEF TypeOK, SetsInv, LockParts, Goto, Busy, Take, Drop, store, sets,
        Actors, OneHolder, WritersLocked, Writing, PartsInPlace, UploadInHand, NoEviction,
        CompleteIsRestorable
<1>1. CASE PlanRead(j)
  BY <1>1 DEF PlanRead
<1>2. CASE PlanDecide(j)
  <2>1. plan[j].now - plan[j].active_at <= MaxTime
    BY DEF Plan, Times
  <2>2. ~(plan[j].now - plan[j].active_at > MaxAge) /\ ~Budget
    BY <2>1 DEF PruneOnly, Plan, Times
  <2>3. pc[j] = "plan" /\ UNCHANGED <<held, at, whole, manifests, ver>>
    BY <1>2 DEF PlanDecide
  <2>4. pc' = [pc EXCEPT ![j] = "prune"]
    BY <1>2, <2>2, Zenon DEF PlanDecide
  <2> QED
    BY <2>3, <2>4
<1>3. CASE Evict(j)
  BY <1>3 DEF Evict, EvictLock, EvictSkip, Unlink, Unrow, RemoveBackups,
     Wipe, Wiped, RmTree
<1>4. CASE PruneNext(j)
  BY <1>4 DEF PruneNext
<1>5. CASE PruneDelete(j)
  BY <1>5 DEF PruneDelete, DeleteSet
<1>6. CASE PruneDone(j)
  BY <1>6 DEF PruneDone
<1>7. CASE EnforceDone(j)
  BY <1>7 DEF EnforceDone
<1> QED
  BY <1>1, <1>2, <1>3, <1>4, <1>5, <1>6, <1>7 DEF Enforce

LEMMA OtherSets ==
  ASSUME SetsInv, Other
  PROVE  LockParts'
<1> USE HostedKeyAssumption DEF TypeOK, SetsInv, LockParts, Goto, Busy, Take, Drop, store, sets,
        Actors, OneHolder, WritersLocked, Writing, PartsInPlace, UploadInHand, NoEviction,
        CompleteIsRestorable
<1>1. ASSUME NEW a \in Actors, LockTimeout(a) PROVE LockParts'
  BY <1>1 DEF LockTimeout
<1>2. ASSUME NEW a \in Fragile, Fail(a) PROVE LockParts'
  BY <1>2 DEF Fail
<1>3. CASE Tick
  BY <1>3 DEF Tick
<1>4. CASE Rot
  BY <1>4 DEF Rot
<1>5. CASE PublishSuspects
  BY <1>5 DEF PublishSuspects
<1> QED
  BY <1>1, <1>2, <1>3, <1>4, <1>5 DEF Other

LEMMA StepSets == ASSUME PruneOnly, SetsInv, [Next]_vars PROVE SetsInv'
<1>1. CASE Next
  <2>1. Basics'
    BY StepBasics DEF SetsInv, Basics
  <2>2. LockParts'
    BY <1>1, HostSets, ReadSets, BackupSets, EnforceSets, OtherSets DEF Next, Other
  <2> QED
    BY <2>1, <2>2 DEF SetsInv, Basics, LockParts
<1>2. CASE UNCHANGED vars
  BY <1>2 DEF vars, store, sets, SetsInv, TypeOK, OneHolder, WritersLocked, Writing, PartsInPlace,
     UploadInHand, NoEviction, CompleteIsRestorable
<1> QED
  BY <1>1, <1>2

\* The lock discipline and the types, for every number of actors.
THEOREM Discipline == ASSUME PruneOnly PROVE Spec => []SetsInv
<1>1. SetsInv /\ [Next]_vars => SetsInv'
  BY StepSets
<1> QED
  BY InitSets, <1>1, PTL DEF Spec

\* While the janitor evicts nothing, every set that has a manifest has all its parts, whoever
\* rotates, prunes, times out or dies in between (backup.py _delete_dirs).
THEOREM Restorable == ASSUME PruneOnly PROVE Spec => []CompleteIsRestorable
<1>1. SetsInv => CompleteIsRestorable
  BY DEF SetsInv
<1> QED
  BY Discipline, <1>1, PTL

-----------------------------------------------------------------------------
(* Without a janitor: what a rotation leaves                               *)

NoJanitor == Janitors = {}

BackupParts == HostersLocked /\ NewestInHand /\ Unpublished /\ SnapshotInSet /\ Published

LEMMA InitBackup == Init => BackupInv
  BY InitSets DEF Init, BackupInv, HostersLocked, NewestInHand, Writing, Unpublished,
     SnapshotInSet, Published, Actors

LEMMA HostBackup ==
  ASSUME BackupInv, NEW h \in Hosters, Host(h)
  PROVE  BackupParts'
<1> USE HostedKeyAssumption DEF TypeOK, Times, SetsInv, BackupInv, BackupParts, Goto, Busy, Take,
        Drop, store, sets, Actors, OneHolder, WritersLocked, Writing, HostersLocked,
        NewestInHand, Unpublished, SnapshotInSet, Published
<1>1. CASE HostPrepare(h)
  BY <1>1 DEF HostPrepare
<1>2. CASE HostLock(h)
  BY <1>2 DEF HostLock
<1>3. CASE HostSwap(h)
  BY <1>3 DEF HostSwap
<1>4. CASE HostUnlist(h)
  BY <1>4 DEF HostUnlist
<1>5. CASE HostList(h)
  BY <1>5 DEF HostList
<1> QED
  BY <1>1, <1>2, <1>3, <1>4, <1>5 DEF Host

LEMMA ReadBackup ==
  ASSUME BackupInv, NEW r \in Readers, Read(r)
  PROVE  BackupParts'
<1> USE HostedKeyAssumption DEF TypeOK, Times, SetsInv, BackupInv, BackupParts, Goto, Busy, Take,
        Drop, store, sets, Actors, OneHolder, WritersLocked, Writing, HostersLocked,
        NewestInHand, Unpublished, SnapshotInSet, Published
<1>1. CASE QueryThrottled(r)
  BY <1>1 DEF QueryThrottled
<1>2. CASE Query(r)
  BY <1>2 DEF Query
<1>3. CASE Touch(r)
  BY <1>3 DEF Touch
<1> QED
  BY <1>1, <1>2, <1>3 DEF Read

LEMMA Labels ==
  ASSUME BackupInv
  PROVE  dirs \subseteq Nat /\ clock \in Nat /\ \A b \in Backers : at[b] \in Nat
<1>1. dirs \subseteq Times /\ clock \in Times /\ \A b \in Backers : at[b] \in Times
  BY DEF BackupInv, SetsInv, TypeOK, Actors
<1>2. Times \subseteq Nat
  BY DEF Times
<1> QED
  BY <1>1, <1>2

\* The rotation never reaches the newest set.
LEMMA ExcessIsOlder ==
  ASSUME dirs \in SUBSET Nat, NEW l \in Nat, \A m \in dirs : m <= l, Excess # {}
  PROVE  Min(Excess) # l
<1>1. Excess \in SUBSET Nat
  BY DEF Excess
<1>2. Min(Excess) \in Excess
  BY <1>1, MinIs
<1>3. SUFFICES ASSUME Min(Excess) = l PROVE FALSE
  OBVIOUS
<1>4. {m \in dirs : m > l} = {}
  <2>1. \A m \in dirs : ~(m > l)
    OBVIOUS
  <2> QED
    BY <2>1
<1>5. Cardinality({m \in dirs : m > l}) >= Keep
  BY <1>2, <1>3 DEF Excess
<1> QED
  BY <1>4, <1>5, FS_EmptySet, HostedKeyAssumption

LEMMA NewestKept ==
  ASSUME BackupInv, NEW b \in Backers, Writing(b), at[b] \in 0..clock,
         dirs' = dirs \cup {at[b]}, UNCHANGED <<clock, at, ver, file>>,
         \A c \in Backers : Writing(c)' => c = b
  PROVE  NewestInHand'
<1>1. \A l \in dirs' : l <= at[b]
  <2>1. \A l \in dirs : l <= at[b]
    BY DEF BackupInv, NewestInHand
  <2>2. at[b] <= at[b]
    BY Labels
  <2> QED
    BY <2>1, <2>2
<1>2. ver[b] = file /\ file # None /\ at[b] <= clock
  BY DEF BackupInv, NewestInHand
<1>3. dirs' \subseteq 0..clock
  BY DEF BackupInv, NewestInHand
<1> QED
  BY <1>1, <1>2, <1>3 DEF NewestInHand

LEMMA BackupBackup ==
  ASSUME ~Undetected, BackupInv, NEW b \in Backers, Backup(b)
  PROVE  BackupParts'
<1> USE HostedKeyAssumption DEF TypeOK, Times, SetsInv, BackupInv, BackupParts, Goto, Busy, Take,
        Drop, store, sets, Actors, OneHolder, WritersLocked, Writing, HostersLocked,
        NewestInHand, Unpublished, SnapshotInSet, Published
<1>1. CASE BackupCheck(b)
  BY <1>1 DEF BackupCheck
<1>2. CASE BackupLock(b)
  BY <1>2 DEF BackupLock
<1>3. CASE Snapshot(b)
  BY <1>3 DEF Snapshot
<1>4. CASE SnapshotRefused(b)
  BY <1>4 DEF SnapshotRefused
<1>5. CASE SetMkdir(b)
  <2>1. at[b] \in 0..clock
    BY <1>5, Labels DEF SetMkdir
  <2>2. \A c \in Backers : Writing(c)' => c = b
    BY <1>5 DEF SetMkdir
  <2>3. dirs' = dirs \cup {at[b]} /\ UNCHANGED <<clock, at, ver, file>>
    BY <1>5 DEF SetMkdir
  <2>4. Writing(b)
    BY <1>5 DEF SetMkdir
  <2>5. NewestInHand'
    BY <2>1, <2>2, <2>3, <2>4, NewestKept
  <2> QED
    BY <1>5, <2>5 DEF SetMkdir
<1>6. CASE SetParts(b)
  BY <1>6 DEF SetParts
<1>7. CASE PartsRefused(b)
  BY <1>7 DEF PartsRefused
<1>8. CASE SetManifest(b)
  <2>1. at[b] \in 0..clock
    BY <1>8, Labels DEF SetManifest
  <2>2. \A c \in Backers : Writing(c)' => c = b
    BY <1>8 DEF SetManifest
  <2>3. dirs' = dirs \cup {at[b]} /\ UNCHANGED <<clock, at, ver, file>>
    BY <1>8 DEF SetManifest
  <2>4. Writing(b)
    BY <1>8 DEF SetManifest
  <2>5. NewestInHand'
    BY <2>1, <2>2, <2>3, <2>4, NewestKept
  <2> QED
    BY <1>8, <2>5 DEF SetManifest
<1>9. CASE Rotate(b)
  <2>1. pc[b] = "rotate" /\ at[b] \in manifests' /\ manifests' \subseteq manifests
    <3>1. pc[b] = "rotate" /\ at[b] \in manifests /\ DeleteSet(Min(Excess))
      BY <1>9 DEF Rotate
    <3>2. at[b] # Min(Excess)
      BY <1>9, ExcessIsOlder, Labels DEF Rotate
    <3> QED
      BY ONLY <3>1, <3>2 DEF DeleteSet
  <2>2. dirs' \subseteq dirs /\ UNCHANGED <<clock, file, snap, held, pc, ver, at>>
    BY <1>9 DEF Rotate, DeleteSet
  <2>3. \A c \in Backers : pc[c] = "rotate" => c = b
    BY <2>1
  <2> QED
    BY SMTT(40), <2>1, <2>2, <2>3
<1>10. CASE BackupDone(b)
  BY <1>10 DEF BackupDone
<1> QED
  BY <1>1, <1>2, <1>3, <1>4, <1>5, <1>6, <1>7, <1>8, <1>9, <1>10 DEF Backup

LEMMA OtherBackup ==
  ASSUME BackupInv, Other
  PROVE  BackupParts'
<1> USE HostedKeyAssumption DEF TypeOK, Times, SetsInv, BackupInv, BackupParts, Goto, Busy, Take,
        Drop, store, sets, Actors, OneHolder, WritersLocked, Writing, HostersLocked,
        NewestInHand, Unpublished, SnapshotInSet, Published
<1>1. ASSUME NEW a \in Actors, LockTimeout(a) PROVE BackupParts'
  <2>1. /\ UNCHANGED <<clock, file, row, dirs, manifests, snap, held, ver, at>>
        /\ pc' = pc \/ pc' = [pc EXCEPT ![a] = "idle"] \/ pc' = [pc EXCEPT ![a] = "prune"]
    BY <1>1 DEF LockTimeout
  <2>2. \A c \in Actors : pc'[c] = pc[c] \/ pc'[c] \in {"idle", "prune"}
    BY <2>1
  <2> QED
    BY <2>1, <2>2
<1>2. ASSUME NEW a \in Fragile, Fail(a) PROVE BackupParts'
  BY SMTT(40), <1>2 DEF Fail
<1>3. CASE Tick
  BY SMTT(40), <1>3 DEF Tick
<1>4. CASE Rot
  BY <1>4 DEF Rot
<1>5. CASE PublishSuspects
  BY <1>5 DEF PublishSuspects
<1> QED
  BY <1>1, <1>2, <1>3, <1>4, <1>5 DEF Other

LEMMA StepBackup ==
  ASSUME NoJanitor, ~Undetected, BackupInv, [Next]_vars
  PROVE  BackupInv'
<1>1. SetsInv'
  <2>1. CASE Next
    BY <2>1, StepBasics, HostSets, ReadSets, BackupSets, OtherSets
    DEF Next, Other, NoJanitor, BackupInv, SetsInv, Basics, LockParts
  <2>2. CASE UNCHANGED vars
    BY <2>2 DEF vars, store, sets, BackupInv, SetsInv, TypeOK, OneHolder, WritersLocked, Writing,
       PartsInPlace, UploadInHand, NoEviction, CompleteIsRestorable
  <2> QED
    BY <2>1, <2>2
<1>2. BackupParts'
  <2>1. CASE Next
    BY <2>1, HostBackup, ReadBackup, BackupBackup, OtherBackup DEF Next, Other, NoJanitor
  <2>2. CASE UNCHANGED vars
    BY <2>2 DEF vars, store, sets, BackupInv, BackupParts, HostersLocked, NewestInHand, Writing,
       Unpublished, SnapshotInSet, Published
  <2> QED
    BY <2>1, <2>2
<1> QED
  BY <1>1, <1>2 DEF BackupInv, BackupParts

\* With no janitor about, BackupInv is an invariant: the set in the making is the newest
\* one and holds the hosted content.
THEOREM RotationInvariance ==
  ASSUME NoJanitor, ~Undetected PROVE Spec => []BackupInv
<1>1. BackupInv /\ [Next]_vars => BackupInv'
  BY StepBackup
<1> QED
  BY InitBackup, <1>1, PTL DEF Spec

\* Only a rotation removes a manifest, and it leaves the one just published.
LEMMA ManifestsKept ==
  ASSUME NoJanitor, BackupInv, [Next]_vars
  PROVE  \/ manifests \subseteq manifests'
         \/ \E b \in Backers : /\ pc[b] = "rotate" /\ at[b] \in manifests'
                               /\ manifests' \subseteq manifests /\ UNCHANGED <<snap, file>>
<1>1. ASSUME NEW b \in Backers, Rotate(b)
      PROVE  /\ pc[b] = "rotate" /\ at[b] \in manifests' /\ manifests' \subseteq manifests
             /\ UNCHANGED <<snap, file>>
  <2>1. pc[b] = "rotate" /\ at[b] \in manifests /\ Excess # {} /\ \A l \in dirs : l <= at[b]
    BY <1>1 DEF Rotate, BackupInv, Published, NewestInHand, Writing
  <2>2. Min(Excess) # at[b]
    BY <2>1, ExcessIsOlder, Labels
  <2> QED
    BY <1>1, <2>1, <2>2 DEF Rotate, DeleteSet, store
<1>2. ASSUME NEW b \in Backers, Backup(b), ~Rotate(b)
      PROVE  manifests \subseteq manifests'
  BY <1>2 DEF Backup, BackupCheck, BackupLock, Snapshot, SnapshotRefused, SetMkdir, SetParts,
     PartsRefused, SetManifest, BackupDone, sets
<1>3. ASSUME NEW h \in Hosters, Host(h) PROVE manifests \subseteq manifests'
  BY <1>3 DEF Host, HostPrepare, HostLock, HostSwap, HostUnlist, HostList, sets
<1>4. ASSUME NEW r \in Readers, Read(r) PROVE manifests \subseteq manifests'
  BY <1>4 DEF Read, QueryThrottled, Query, Touch, sets
<1>5. ASSUME \/ \E a \in Actors : LockTimeout(a)
             \/ \E a \in Fragile : Fail(a)
             \/ Tick \/ Rot \/ PublishSuspects
      PROVE  manifests \subseteq manifests'
  BY <1>5 DEF LockTimeout, Fail, Tick, Rot, PublishSuspects, sets
<1>6. CASE UNCHANGED vars
  BY <1>6 DEF vars, sets
<1> QED
  BY <1>1, <1>2, <1>3, <1>4, <1>5, <1>6 DEF Next, NoJanitor

\* The parts of a published set are never written again.
LEMMA SnapKept ==
  ASSUME NoJanitor, BackupInv, [Next]_vars
  PROVE  \A l \in manifests : snap'[l] = snap[l]
<1>1. ASSUME NEW b \in Backers, SetParts(b) PROVE \A l \in manifests : snap'[l] = snap[l]
  BY <1>1 DEF SetParts, Goto, BackupInv, SetsInv, TypeOK, Unpublished
<1>2. ASSUME NEW b \in Backers, Backup(b), ~SetParts(b) PROVE UNCHANGED snap
  BY <1>2 DEF Backup, BackupCheck, BackupLock, Snapshot, SnapshotRefused, SetMkdir, PartsRefused,
     SetManifest, Rotate, DeleteSet, BackupDone, sets
<1>3. ASSUME NEW h \in Hosters, Host(h) PROVE UNCHANGED snap
  BY <1>3 DEF Host, HostPrepare, HostLock, HostSwap, HostUnlist, HostList, sets
<1>4. ASSUME NEW r \in Readers, Read(r) PROVE UNCHANGED snap
  BY <1>4 DEF Read, QueryThrottled, Query, Touch, sets
<1>5. ASSUME \/ \E a \in Actors : LockTimeout(a)
             \/ \E a \in Fragile : Fail(a)
             \/ Tick \/ Rot \/ PublishSuspects
      PROVE  UNCHANGED snap
  BY <1>5 DEF LockTimeout, Fail, Tick, Rot, PublishSuspects, sets
<1>6. CASE UNCHANGED vars
  BY <1>6 DEF vars, sets
<1> QED
  BY <1>1, <1>2, <1>3, <1>4, <1>5, <1>6 DEF Next, NoJanitor

\* Rotation, crashes and damage never cost a hosted database its last complete set
\* (docs/server.md "Every database always keeps its newest set").
THEOREM LastSetSurvives ==
  ASSUME NoJanitor, ~Undetected PROVE Spec => LastSetKept
<1>1. BackupInv /\ [Next]_vars =>
        (file # None /\ file' # None /\ manifests # {} => manifests' # {})
  BY ManifestsKept
<1> QED
  BY RotationInvariance, <1>1, PTL DEF Spec, LastSetKept

\* A rotation only ever drops sets older than one of the content that is hosted now, so
\* content that is backed up stays backed up until it is replaced.
THEOREM ContentSurvives ==
  ASSUME NoJanitor, ~Undetected PROVE Spec => ContentStaysBackedUp
<1>1. ASSUME BackupInv, [Next]_vars, BackedUp, file' = file
      PROVE  BackedUp'
  <2>1. \A l \in manifests : snap'[l] = snap[l]
    BY <1>1, SnapKept
  <2>2. CASE manifests \subseteq manifests'
    BY <1>1, <2>1, <2>2 DEF BackedUp
  <2>3. ASSUME NEW b \in Backers, pc[b] = "rotate", at[b] \in manifests', UNCHANGED snap
        PROVE  BackedUp'
    BY <1>1, <2>3 DEF BackedUp, BackupInv, SnapshotInSet, NewestInHand, Writing
  <2> QED
    BY <1>1, <2>2, <2>3, ManifestsKept
<1>2. BackupInv /\ [Next]_vars => (BackedUp /\ file' = file => BackedUp')
  BY <1>1
<1> QED
  BY RotationInvariance, <1>2, PTL DEF Spec, ContentStaysBackedUp

-----------------------------------------------------------------------------
(* The file and its row                                                    *)

\* No hoster dies inside its locked section, and nothing is evicted.
OrderlyHosters == NoJanitor /\ Fragile \cap Hosters = {}

PairParts ==
  /\ HostersLocked
  /\ \A h \in Hosters : MidSwap(h) => ver[h] = file
  /\ (\A h \in Hosters : ~MidSwap(h)) /\ file # None => row # None /\ row.sha = file

LEMMA HostPair ==
  ASSUME PairInv, NEW h \in Hosters, Host(h)
  PROVE  PairParts'
<1> USE DEF PairInv, PairParts, HostersLocked, MidSwap, Goto, Busy, Take, Drop, store, sets,
        SetsInv, TypeOK, Steps, OneHolder, Actors
<1>1. CASE HostPrepare(h)
  BY <1>1 DEF HostPrepare
<1>2. CASE HostLock(h)
  BY <1>2 DEF HostLock
<1>3. CASE HostSwap(h)
  BY <1>3 DEF HostSwap
<1>4. CASE HostUnlist(h)
  BY <1>4 DEF HostUnlist
<1>5. CASE HostList(h)
  <2>1. row' = [sha |-> ver[h], updated_at |-> at[h]] /\ ver[h] \in Versions /\ at[h] \in Times
    BY <1>5 DEF HostList, UploadInHand
  <2>2. row' # None /\ row'.sha = ver[h]
    BY <2>1, HostedKeyAssumption DEF Row
  <2> QED
    BY <1>5, <2>2 DEF HostList
<1> QED
  BY <1>1, <1>2, <1>3, <1>4, <1>5 DEF Host

LEMMA RestPair ==
  ASSUME OrderlyHosters, PairInv,
         \/ \E r \in Readers : Read(r)
         \/ \E b \in Backers : Backup(b)
         \/ \E a \in Actors : LockTimeout(a)
         \/ \E a \in Fragile : Fail(a)
         \/ Tick \/ Rot \/ PublishSuspects
  PROVE  PairParts'
<1> USE DEF OrderlyHosters, NoJanitor, PairInv, PairParts, HostersLocked, MidSwap, Goto, Busy,
        Take, Drop, store, sets, SetsInv, TypeOK, Steps, OneHolder, WritersLocked, Writing, Actors
<1>1. ASSUME NEW r \in Readers, Read(r) PROVE PairParts'
  BY <1>1 DEF Read, QueryThrottled, Query, Touch
<1>2. ASSUME NEW b \in Backers, Backup(b) PROVE PairParts'
  BY <1>2 DEF Backup, BackupCheck, BackupLock, Snapshot, SnapshotRefused, SetMkdir, SetParts,
     PartsRefused, SetManifest, Rotate, BackupDone
<1>3. ASSUME NEW a \in Actors, LockTimeout(a) PROVE PairParts'
  BY <1>3 DEF LockTimeout
<1>4. ASSUME NEW a \in Fragile, Fail(a) PROVE PairParts'
  BY <1>4, HostedKeyAssumption DEF Fail
<1>5. CASE Tick \/ Rot \/ PublishSuspects
  BY <1>5 DEF Tick, Rot, PublishSuspects
<1> QED
  BY <1>1, <1>2, <1>3, <1>4, <1>5

LEMMA StepPair == ASSUME OrderlyHosters, PairInv, [Next]_vars PROVE PairInv'
<1>1. CASE Next
  <2>1. SetsInv'
    BY <1>1, StepBasics, HostSets, ReadSets, BackupSets, OtherSets
    DEF Next, Other, NoJanitor, OrderlyHosters, PairInv, SetsInv, Basics, LockParts
  <2>2. PairParts'
    BY <1>1, HostPair, RestPair DEF Next, NoJanitor, OrderlyHosters
  <2> QED
    BY <2>1, <2>2 DEF PairInv, PairParts
<1>2. CASE UNCHANGED vars
  BY <1>2 DEF vars, store, sets, PairInv, HostersLocked, MidSwap, SetsInv, TypeOK, OneHolder,
     WritersLocked, Writing, PartsInPlace, UploadInHand, NoEviction, CompleteIsRestorable
<1> QED
  BY <1>1, <1>2

\* What the hosts, reads, backups, timeouts and failures of one key keep: the mutual
\* exclusion, the restorable sets, and the file's row outside a swap.
THEOREM PairInvariance ==
  ASSUME OrderlyHosters PROVE Spec => []PairInv
<1>1. Init => PairInv
  BY InitSets DEF Init, PairInv, HostersLocked, MidSwap, Actors
<1>2. PairInv /\ [Next]_vars => PairInv'
  BY StepPair
<1> QED
  BY <1>1, <1>2, PTL DEF Spec

\* dbhost.py:202 "a concurrent backup/heal of the same key never sees a half-updated pair".
THEOREM PairSeenWhole ==
  ASSUME OrderlyHosters PROVE Spec => []PairUnderLock
<1>1. PairInv => PairUnderLock
  BY DEF PairInv, PairUnderLock, SetsInv, WritersLocked, OneHolder, HostersLocked, MidSwap, Actors
<1> QED
  BY PairInvariance, <1>1, PTL

-----------------------------------------------------------------------------
(* Eviction: what a database hosted anew is spared by                      *)

\* One hoster that does not die, and nobody reads: without any of these the property
\* is false.
OneUploader ==
  Readers = {} /\ Fragile \cap Hosters = {} /\ \A g, h \in Hosters : g = h

Uploading(h) == pc[h] \in {"ready", "swap", "unlist", "list"}

HoldersNamed ==
  /\ \A h \in Hosters : pc[h] \in {"swap", "unlist", "list"} => held[h] # "no"
  /\ \A j \in Janitors : pc[j] = "check" => held[j] # "no"

\* An upload is later than the row there is and than whatever a plan has read.
UploadIsLater ==
  \A h \in Hosters :
    /\ at[h] <= clock
    /\ row # None => row.updated_at <= at[h]
    /\ \A j \in Janitors : plan[j].active_at <= at[h]
    /\ Uploading(h) => /\ at[h] > 0
                       /\ row # None => row.updated_at < at[h]
                       /\ \A j \in Janitors : plan[j].active_at < at[h]

\* Content that was swapped in since a plan shows in the row's time, once it is listed.
UsedShows ==
  \A j \in Janitors :
    used[j] /\ row # None /\ (\A h \in Hosters : ~MidSwap(h))
      => row.updated_at > plan[j].active_at

EvictInv == Basics /\ access = None /\ HoldersNamed /\ UploadIsLater /\ UsedShows

EvictParts == access = None /\ HoldersNamed /\ UploadIsLater /\ UsedShows

LEMMA Numbers ==
  ASSUME TypeOK
  PROVE  /\ clock \in Nat /\ dirs \subseteq Nat /\ \A a \in Actors : at[a] \in Nat
         /\ \A j \in Janitors : plan[j].active_at \in Nat /\ plan[j].now \in Nat
         /\ row # None => row.updated_at \in Nat
<1>1. \A t \in Times : t \in Nat
  BY DEF Times
<1> QED
  BY <1>1 DEF TypeOK, Plan, Row

\* A step that leaves the row and the plans alone and begins no upload.
LEMMA EvictQuiet ==
  ASSUME EvictInv, HoldersNamed', UNCHANGED <<access, row, plan, used>>,
         clock' = clock \/ clock' = clock + 1,
         \A h \in Hosters : \/ at'[h] = at[h]
                            \/ at'[h] = clock /\ ~Uploading(h)',
         \A h \in Hosters : \/ pc'[h] = pc[h]
                            \/ ~Uploading(h)' /\ ~MidSwap(h)
  PROVE  EvictParts'
<1>1. TypeOK /\ \A h \in Hosters : h \in Actors
  BY DEF EvictInv, Basics, Actors
<1>2. access' = None
  BY DEF EvictInv
<1>3. UploadIsLater'
  <2> SUFFICES ASSUME NEW h \in Hosters
               PROVE  /\ at'[h] <= clock'
                      /\ row # None => row.updated_at <= at'[h]
                      /\ \A j \in Janitors : plan[j].active_at <= at'[h]
                      /\ Uploading(h)' => /\ at'[h] > 0
                                          /\ row # None => row.updated_at < at'[h]
                                          /\ \A j \in Janitors : plan[j].active_at < at'[h]
    BY DEF UploadIsLater
  <2>1. Uploading(h)' => Uploading(h) /\ at'[h] = at[h]
    BY DEF Uploading
  <2> QED
    BY <1>1, <2>1, Numbers DEF EvictInv, UploadIsLater
<1>4. UsedShows'
  BY DEF EvictInv, UsedShows, MidSwap, Uploading
<1> QED
  BY <1>2, <1>3, <1>4 DEF EvictParts

LEMMA HostEvict ==
  ASSUME OneUploader, EvictInv, NEW h \in Hosters, Host(h)
  PROVE  EvictParts'
<1> USE DEF Goto
<1>1. /\ TypeOK /\ \A g \in Hosters : g = h
      /\ h \in Actors /\ at[h] \in Nat /\ clock \in Nat
      /\ \A j \in Janitors : plan[j].active_at \in Nat
      /\ row # None => row.updated_at \in Nat
  BY Numbers DEF EvictInv, Basics, OneUploader, Actors
<1>2. pc \in [Actors -> Steps] /\ held \in [Actors -> {"no", "key", "stale"}]
      /\ at \in [Actors -> Times]
  BY <1>1 DEF TypeOK
<1>3. CASE HostPrepare(h)
  <2>1. /\ pc' = [pc EXCEPT ![h] = "ready"] /\ pc[h] = "idle" /\ at' = [at EXCEPT ![h] = clock]
        /\ at[h] < clock /\ UNCHANGED <<clock, row, access, held, plan, used>>
    BY <1>3 DEF HostPrepare, store
  <2>2. at'[h] = clock /\ pc'[h] = "ready"
    BY <1>1, <1>2, <2>1
  <2>3. HoldersNamed'
    BY <1>1, <1>2, <2>1, <2>2 DEF HoldersNamed, EvictInv
  <2>4. UploadIsLater'
    BY <1>1, <2>1, <2>2 DEF UploadIsLater, EvictInv
  <2>5. UsedShows'
    BY <1>1, <2>1, <2>2 DEF UsedShows, MidSwap, EvictInv
  <2> QED
    BY <2>1, <2>3, <2>4, <2>5 DEF EvictParts, EvictInv
<1>4. CASE HostLock(h)
  <2>1. /\ pc' = [pc EXCEPT ![h] = "swap"] /\ pc[h] = "ready" /\ held' = [held EXCEPT ![h] = "key"]
        /\ UNCHANGED <<clock, row, access, at, plan, used>>
    BY <1>4 DEF HostLock, Take, store
  <2>2. pc'[h] = "swap" /\ held'[h] = "key"
    BY <1>1, <1>2, <2>1
  <2>3. HoldersNamed'
    BY <1>1, <1>2, <2>1, <2>2 DEF HoldersNamed, EvictInv
  <2>4. UploadIsLater'
    BY <1>1, <2>1, <2>2 DEF UploadIsLater, Uploading, EvictInv
  <2>5. UsedShows'
    BY <1>1, <2>1, <2>2 DEF UsedShows, MidSwap, EvictInv
  <2> QED
    BY <2>1, <2>3, <2>4, <2>5 DEF EvictParts, EvictInv
<1>5. CASE HostSwap(h)
  <2>1. /\ pc' = [pc EXCEPT ![h] = "unlist"] /\ pc[h] = "swap"
        /\ UNCHANGED <<clock, row, access, at, held, plan>>
    BY <1>5 DEF HostSwap
  <2>2. pc'[h] = "unlist"
    BY <1>1, <1>2, <2>1
  <2>3. HoldersNamed'
    BY <1>1, <1>2, <2>1, <2>2 DEF HoldersNamed, EvictInv
  <2>4. UploadIsLater'
    BY <1>1, <2>1, <2>2 DEF UploadIsLater, Uploading, EvictInv
  <2>5. UsedShows'
    BY <1>1, <2>2 DEF UsedShows, MidSwap
  <2> QED
    BY <2>1, <2>3, <2>4, <2>5 DEF EvictParts, EvictInv
<1>6. CASE HostUnlist(h)
  <2>1. /\ pc' = [pc EXCEPT ![h] = "list"] /\ pc[h] = "unlist" /\ row' = None
        /\ UNCHANGED <<clock, access, at, held, plan, used>>
    BY <1>6 DEF HostUnlist
  <2>2. pc'[h] = "list"
    BY <1>1, <1>2, <2>1
  <2>3. HoldersNamed'
    BY <1>1, <1>2, <2>1, <2>2 DEF HoldersNamed, EvictInv
  <2>4. UploadIsLater'
    BY <1>1, <2>1, <2>2 DEF UploadIsLater, Uploading, EvictInv
  <2>5. UsedShows'
    BY <2>1 DEF UsedShows
  <2> QED
    BY <2>1, <2>3, <2>4, <2>5 DEF EvictParts, EvictInv
<1>7. CASE HostList(h)
  <2>1. /\ pc' = [pc EXCEPT ![h] = "idle"] /\ pc[h] = "list" /\ held' = [held EXCEPT ![h] = "no"]
        /\ row' = [sha |-> ver[h], updated_at |-> at[h]]
        /\ UNCHANGED <<clock, access, at, plan, used>>
    BY <1>7 DEF HostList, Drop
  <2>2. pc'[h] = "idle" /\ row'.updated_at = at[h]
    BY <1>1, <1>2, <2>1
  <2>3. HoldersNamed'
    BY <1>1, <1>2, <2>1, <2>2 DEF HoldersNamed, EvictInv
  <2>4. UploadIsLater'
    BY <1>1, <2>1, <2>2 DEF UploadIsLater, Uploading, EvictInv
  <2>5. UsedShows'
    BY <1>1, <2>1, <2>2 DEF UsedShows, UploadIsLater, Uploading, EvictInv
  <2> QED
    BY <2>1, <2>3, <2>4, <2>5 DEF EvictParts, EvictInv
<1> QED
  BY <1>3, <1>4, <1>5, <1>6, <1>7 DEF Host

LEMMA BackupEvict ==
  ASSUME EvictInv, NEW b \in Backers, Backup(b)
  PROVE  EvictParts'
<1> USE DEF Goto, store, sets
<1>1. b \in Actors /\ pc \in [Actors -> Steps] /\ held \in [Actors -> {"no", "key", "stale"}]
      /\ at \in [Actors -> Times] /\ \A h \in Hosters : h \in Actors
  BY DEF EvictInv, Basics, TypeOK, Actors
<1>2. /\ UNCHANGED <<clock, row, access, plan, used>>
      /\ ~Uploading(b) /\ \E step \in Steps : pc' = [pc EXCEPT ![b] = step] \/ pc' = pc
      /\ ~Uploading(b)' /\ pc'[b] # "check" /\ \A a \in Actors : a # b => held'[a] = held[a]
      /\ at' = at \/ at' = [at EXCEPT ![b] = clock]
  <2>1. CASE Snapshot(b) \/ BackupLock(b) \/ BackupCheck(b)
    BY <1>1, <2>1 DEF Snapshot, BackupLock, BackupCheck, Uploading, Take, Steps
  <2>2. CASE SnapshotRefused(b) \/ PartsRefused(b) \/ BackupDone(b)
    BY <1>1, <2>2 DEF SnapshotRefused, PartsRefused, BackupDone, Uploading, Drop, Steps
  <2>3. CASE SetMkdir(b) \/ SetParts(b) \/ SetManifest(b) \/ Rotate(b)
    BY <1>1, <2>3 DEF SetMkdir, SetParts, SetManifest, Rotate, Uploading, Steps
  <2> QED
    BY <2>1, <2>2, <2>3 DEF Backup
<1>3. \A a \in Actors : a # b => pc'[a] = pc[a] /\ at'[a] = at[a]
  BY <1>1, <1>2
<1>4. HoldersNamed'
  BY <1>1, <1>2, <1>3 DEF HoldersNamed, Uploading, EvictInv, Actors
<1>5. \A h \in Hosters : \/ at'[h] = at[h]
                         \/ at'[h] = clock /\ ~Uploading(h)'
  BY <1>1, <1>2, <1>3
<1>6. \A h \in Hosters : \/ pc'[h] = pc[h]
                         \/ ~Uploading(h)' /\ ~MidSwap(h)
  BY <1>1, <1>2, <1>3 DEF Uploading, MidSwap
<1> QED
  BY <1>2, <1>4, <1>5, <1>6, EvictQuiet

LEMMA EnforceEvict ==
  ASSUME OneUploader, EvictInv, NEW j \in Janitors, Enforce(j)
  PROVE  EvictParts'
<1> USE DEF Goto, store, sets
<1>1. /\ TypeOK /\ j \in Actors /\ pc \in [Actors -> Steps]
      /\ held \in [Actors -> {"no", "key", "stale"}] /\ plan \in [Janitors -> Plan]
      /\ used \in [Janitors -> BOOLEAN]
      /\ \A h \in Hosters : h \in Actors
  BY DEF EvictInv, Basics, TypeOK, Actors
<1>2. CASE PlanRead(j)
  <2> DEFINE seen == IF row = None THEN 0 ELSE ActiveAt
  <2>1. /\ pc' = [pc EXCEPT ![j] = "plan"] /\ pc[j] = "idle"
        /\ plan' = [plan EXCEPT ![j] = [now |-> clock, listed |-> row # None, active_at |-> seen]]
        /\ used' = [used EXCEPT ![j] = FALSE]
        /\ UNCHANGED <<clock, row, access, held, at>>
    BY <1>2 DEF PlanRead
  <2>2. seen = 0 \/ (row # None /\ seen = row.updated_at)
    <3>1. row # None => ActiveAt \in {row.updated_at, 0}
      BY <1>1, ActiveAtIs DEF OrZero, EvictInv
    <3> QED
      BY <3>1
  <2>3. plan'[j].active_at = seen /\ \A k \in Janitors : k # j => plan'[k] = plan[k]
    BY <1>1, <2>1
  <2>4. \A h \in Hosters : at[h] \in Nat
    BY <1>1, Numbers
  <2>5. HoldersNamed'
    BY <1>1, <2>1 DEF HoldersNamed, EvictInv
  <2>6. UploadIsLater'
    <3>1. \A h \in Hosters : Uploading(h)' => Uploading(h)
      BY <1>1, <2>1 DEF Uploading
    <3>2. \A h \in Hosters : seen <= at[h] /\ (Uploading(h) => seen < at[h])
      BY <2>2, <2>4 DEF UploadIsLater, EvictInv
    <3> HIDE DEF seen
    <3> QED
      BY <2>1, <2>3, <3>1, <3>2 DEF UploadIsLater, EvictInv
  <2>7. UsedShows'
    <3>1. ASSUME NEW k \in Janitors, used'[k] PROVE k # j /\ used[k]
      BY <1>1, <2>1, <3>1
    <3>2. \A h \in Hosters : MidSwap(h) => MidSwap(h)'
      BY <1>1, <2>1 DEF MidSwap
    <3> QED
      BY <2>1, <2>3, <3>1, <3>2 DEF UsedShows, EvictInv
  <2> QED
    BY <2>1, <2>5, <2>6, <2>7 DEF EvictParts, EvictInv
<1>3. CASE Unrow(j)
  <2>1. /\ pc' = [pc EXCEPT ![j] = "remove"] /\ held' = [held EXCEPT ![j] = "no"]
        /\ pc[j] = "unrow" /\ row' = None /\ access' = None
        /\ UNCHANGED <<clock, at, plan, used>>
    BY <1>3 DEF Unrow, Drop
  <2>2. HoldersNamed'
    BY <1>1, <2>1 DEF HoldersNamed, EvictInv
  <2>3. \A h \in Hosters : Uploading(h)' => Uploading(h)
    BY <1>1, <2>1 DEF Uploading
  <2>4. UploadIsLater' /\ UsedShows'
    BY <2>1, <2>3 DEF UploadIsLater, UsedShows, EvictInv
  <2> QED
    BY <2>1, <2>2, <2>4 DEF EvictParts
<1>4. CASE RmTree(j)
  <2>1. /\ pc' = [pc EXCEPT ![j] = "prune"] /\ pc[j] = "rmtree"
        /\ \A a \in Actors : held[a] # "no" => held'[a] # "no"
        /\ UNCHANGED <<clock, row, access, at, plan, used>>
    BY <1>1, <1>4 DEF RmTree
  <2>2. HoldersNamed'
    BY <1>1, <2>1 DEF HoldersNamed, EvictInv, Actors
  <2>3. \A h \in Hosters : pc'[h] = pc[h] \/ (~Uploading(h)' /\ ~MidSwap(h))
    BY <1>1, <2>1 DEF Uploading, MidSwap
  <2> QED
    BY <2>1, <2>2, <2>3, EvictQuiet
<1>5. CASE ~(PlanRead(j) \/ Unrow(j) \/ RmTree(j))
  <2>1. /\ UNCHANGED <<clock, row, access, at, plan, used>>
        /\ ~Uploading(j)
        /\ (\E step \in Steps : pc' = [pc EXCEPT ![j] = step]) \/ pc' = pc
        /\ ~Uploading(j)' /\ (pc'[j] = "check" => held'[j] # "no")
        /\ \A a \in Actors : a # j => held'[a] = held[a]
    <3>1. CASE EvictLock(j) \/ EvictSkip(j) \/ Unlink(j)
      BY <1>1, <3>1 DEF EvictLock, EvictSkip, Unlink, Uploading, Take, Drop, Steps, HoldersNamed,
         EvictInv
    <3>2. CASE RemoveBackups(j) \/ Wipe(j) \/ Wiped(j)
      BY <1>1, <3>2 DEF RemoveBackups, Wipe, Wiped, Uploading, Take, Drop, Steps
    <3>3. CASE PlanDecide(j)
      BY <1>1, <3>3 DEF PlanDecide, Uploading, Steps
    <3>4. CASE PruneNext(j) \/ PruneDelete(j) \/ PruneDone(j) \/ EnforceDone(j)
      BY <1>1, <3>4 DEF PruneNext, PruneDelete, PruneDone, EnforceDone, Uploading, Take, Drop, Steps
    <3> QED
      BY <1>5, <3>1, <3>2, <3>3, <3>4 DEF Enforce, Evict
  <2>2. \A a \in Actors : a # j => pc'[a] = pc[a]
    BY <1>1, <2>1
  <2>3. HoldersNamed'
    BY <1>1, <2>1, <2>2 DEF HoldersNamed, Uploading, EvictInv, Actors
  <2>4. \A h \in Hosters : pc'[h] = pc[h] \/ (~Uploading(h)' /\ ~MidSwap(h))
    BY <1>1, <2>1, <2>2 DEF Uploading, MidSwap
  <2> QED
    BY <2>1, <2>3, <2>4, EvictQuiet
<1> QED
  BY <1>2, <1>3, <1>4, <1>5

LEMMA OtherEvict ==
  ASSUME OneUploader, EvictInv, Other
  PROVE  EvictParts'
<1> USE DEF store, sets
<1>1. /\ pc \in [Actors -> Steps] /\ held \in [Actors -> {"no", "key", "stale"}]
      /\ \A h \in Hosters : h \in Actors
  BY DEF EvictInv, Basics, TypeOK, Actors
<1>2. ASSUME NEW a \in Actors, LockTimeout(a) \/ (Fail(a) /\ a \notin Hosters) PROVE EvictParts'
  <2>1. /\ UNCHANGED <<clock, row, access, at, plan, used>>
        /\ pc' = pc \/ pc' = [pc EXCEPT ![a] = "idle"] \/ pc' = [pc EXCEPT ![a] = "prune"]
        /\ pc' # pc => ~MidSwap(a) \/ a \notin Hosters
        /\ held' = held \/ (held' = [held EXCEPT ![a] = "no"] /\ pc'[a] = "idle")
    BY <1>1, <1>2 DEF LockTimeout, Fail, Drop, MidSwap
  <2>2. HoldersNamed'
    BY <1>1, <2>1 DEF HoldersNamed, EvictInv, Actors
  <2>3. \A h \in Hosters : pc'[h] = pc[h] \/ (~Uploading(h)' /\ ~MidSwap(h))
    BY <1>1, <2>1 DEF Uploading, MidSwap
  <2> QED
    BY <2>1, <2>2, <2>3, EvictQuiet
<1>3. ASSUME Tick \/ Rot \/ PublishSuspects PROVE EvictParts'
  <2>1. /\ UNCHANGED <<row, access, at, plan, used, pc, held>>
        /\ clock' = clock \/ clock' = clock + 1
    BY <1>3 DEF Tick, Rot, PublishSuspects
  <2>2. HoldersNamed'
    BY <2>1 DEF HoldersNamed, EvictInv
  <2> QED
    BY <2>1, <2>2, EvictQuiet
<1> QED
  BY <1>2, <1>3, HostedKeyAssumption DEF Other, OneUploader

LEMMA InitEvict == Init => EvictInv
  BY InitBasics DEF Init, EvictInv, HoldersNamed, UploadIsLater, UsedShows, Uploading, MidSwap, Actors

LEMMA StepEvict == ASSUME OneUploader, EvictInv, [Next]_vars PROVE EvictInv'
<1>1. Basics'
  BY StepBasics DEF EvictInv
<1>2. CASE Next
  <2>1. EvictParts'
    BY <1>2, HostEvict, BackupEvict, EnforceEvict, OtherEvict DEF Next, Other, OneUploader
  <2> QED
    BY <1>1, <2>1 DEF EvictInv, EvictParts
<1>3. CASE UNCHANGED vars
  BY <1>1, <1>3 DEF vars, store, sets, EvictInv, HoldersNamed, UploadIsLater, UsedShows, Uploading,
     MidSwap
<1> QED
  BY <1>2, <1>3

\* Only the janitor's own unlink leads from the check to the row.
LEMMA UnlinkOnly ==
  ASSUME Basics, [Next]_vars, NEW j \in Janitors, pc[j] = "check", pc'[j] = "unrow"
  PROVE  Unlink(j)
<1> USE DEF Goto
<1>1. pc \in [Actors -> Steps] /\ j \in Actors
  BY DEF Basics, TypeOK, Actors
<1>2. ASSUME NEW h \in Hosters, Host(h) PROVE FALSE
  BY <1>1, <1>2 DEF Host, HostPrepare, HostLock, HostSwap, HostUnlist, HostList
<1>3. ASSUME NEW r \in Readers, Read(r) PROVE FALSE
  BY <1>1, <1>3 DEF Read, QueryThrottled, Query, Touch
<1>4. ASSUME NEW b \in Backers, Backup(b) PROVE FALSE
  BY <1>1, <1>4 DEF Backup, BackupCheck, BackupLock, Snapshot, SnapshotRefused, SetMkdir, SetParts,
     PartsRefused, SetManifest, Rotate, BackupDone
<1>5. ASSUME NEW k \in Janitors, Enforce(k), ~Unlink(j) PROVE FALSE
  <2>1. CASE Evict(k)
    BY <1>1, <1>5, <2>1 DEF Evict, EvictLock, EvictSkip, Unlink, Unrow, RemoveBackups, Wipe, Wiped,
       RmTree
  <2>2. CASE ~Evict(k)
    BY <1>1, <1>5, <2>2 DEF Enforce, PlanRead, PlanDecide, PruneNext, PruneDelete, PruneDone,
       EnforceDone
  <2> QED
    BY <2>1, <2>2
<1>6. ASSUME NEW a \in Actors, LockTimeout(a) \/ Fail(a) PROVE FALSE
  BY <1>1, <1>6 DEF LockTimeout, Fail
<1>7. CASE Tick \/ Rot \/ PublishSuspects \/ UNCHANGED vars
  BY <1>7 DEF Tick, Rot, PublishSuspects, vars
<1> QED
  BY <1>2, <1>3, <1>4, <1>5, <1>6, <1>7, HostedKeyAssumption DEF Next

\* The check under the key lock spares a database that was hosted anew since the plan
\* (retention.py _evict), with evictions, a budget, and backers and janitors dying anywhere.
THEOREM EvictionSparesUploads == ASSUME OneUploader PROVE Spec => EvictSparesUsed
<1>1. EvictInv /\ [Next]_vars => EvictInv'
  BY StepEvict
<1>2. ASSUME EvictInv, [Next]_vars, NEW j \in Janitors, pc[j] = "check", pc'[j] = "unrow",
             \A a \in Actors : held[a] # "stale"
      PROVE  ~used[j]
  <2>1. Unlink(j)
    BY <1>2, UnlinkOnly DEF EvictInv
  <2>2. row # None /\ ActiveAt <= plan[j].active_at
    BY <2>1 DEF Unlink
  <2>3. held[j] = "key" /\ \A h \in Hosters : MidSwap(h) => held[h] = "key"
    BY <1>2 DEF EvictInv, HoldersNamed, MidSwap, Basics, TypeOK, Actors
  <2>4. \A h \in Hosters : ~MidSwap(h)
    BY <1>2, <2>3 DEF EvictInv, Basics, OneHolder, MidSwap, Actors
  <2>5. row.updated_at \in Nat /\ plan[j].active_at \in Nat
    BY <1>2, <2>2, Numbers DEF EvictInv, Basics
  <2>6. ActiveAt \in Nat /\ ActiveAt >= row.updated_at
    BY <1>2, <2>2, ActiveAtIs DEF EvictInv, Basics, Times
  <2>7. ~(row.updated_at > plan[j].active_at)
    BY <2>2, <2>5, <2>6
  <2> QED
    BY <1>2, <2>2, <2>4, <2>7 DEF EvictInv, UsedShows
<1>3. EvictInv /\ [Next]_vars =>
        \A j \in Janitors : pc[j] = "check" /\ pc'[j] = "unrow"
             /\ (\A a \in Actors : held[a] # "stale") => ~used[j]
  BY <1>2
<1> QED
  BY InitEvict, <1>1, <1>3, PTL DEF Spec, EvictSparesUsed

-----------------------------------------------------------------------------
(* Pruning: what the last complete set is spared by                        *)

\* One upload, so that a plan never falls between the DELETE and the INSERT of a re-host;
\* and a backup is over before its set counts as debris or as old.
OneUpload == MaxHosts <= 1
BackupsAreFast == MaxBackup < DebrisMaxAge /\ MaxBackup <= BackupMaxAge

\* The set in the making is the newest, and recent.
InTheMaking ==
  /\ dirs \subseteq 0..clock
  /\ \A b \in Backers : Writing(b) =>
       /\ at[b] <= clock /\ clock <= at[b] + MaxBackup
       /\ \A l \in dirs : l <= at[b]

\* Before the upload is listed there are no sets.
NothingYet ==
  /\ \A h \in Hosters : Uploading(h) => row = None /\ uploads = 1
  /\ row # None => uploads = 1
  /\ row = None => dirs = {} /\ \A b \in Backers :
       ~Writing(b) /\ pc[b] \notin {"checked", "snapshot"}
  /\ \A g, h \in Hosters : Uploading(g) /\ Uploading(h) => g = h

\* A plan that read no database is older than all sets.
PlanIsOlder ==
  \A j \in Janitors :
    /\ plan[j].now <= clock
    /\ pc[j] = "plan" /\ ~plan[j].listed =>
         /\ \A l \in dirs : l >= plan[j].now
         /\ \A b \in Backers : Writing(b) => at[b] >= plan[j].now

\* What is to be pruned is neither the newest complete set nor the one in the making.
Prunes(j) == pc[j] \in {"prune", "delete"}
SparesNewest ==
  \A j \in Janitors : Prunes(j) => \A l \in todo[j] :
    /\ l < clock
    /\ \A b \in Backers : Writing(b) => at[b] # l
    /\ l \in manifests => \E m \in manifests : m > l

Deleting == \A j \in Janitors : pc[j] = "delete" => todo[j] # {}

PruneInv ==
  SetsInv /\ InTheMaking /\ Published /\ NothingYet /\ PlanIsOlder /\ SparesNewest /\ Deleting

PruneParts == InTheMaking /\ Published /\ NothingYet /\ PlanIsOlder /\ SparesNewest /\ Deleting

LEMMA Bounds ==
  /\ {MaxAge, BackupMaxAge, DebrisMaxAge, MaxHosts, MaxTime, MaxBackup} \subseteq Nat
  /\ Keep \in Nat /\ Keep > 0
  BY HostedKeyAssumption

LEMMA InitPrune == Init => PruneInv
<1>1. Init => SetsInv
  BY InitSets
<1> QED
  BY <1>1 DEF Init, PruneInv, SetsInv, InTheMaking, Published, NothingYet, PlanIsOlder, SparesNewest,
     Deleting, Prunes, Uploading, Writing, Actors

\* A step that changes no set and neither begins nor ends an upload.
LEMMA PruneQuiet ==
  ASSUME PruneInv, UNCHANGED <<clock, uploads, row, dirs, manifests, plan>>,
         \A b \in Backers : /\ Writing(b)' => Writing(b) /\ at'[b] = at[b]
                            /\ pc'[b] = "rotate" => pc[b] = "rotate"
                            /\ pc'[b] \in {"checked", "snapshot"} => row # None,
         \A h \in Hosters : Uploading(h)' => Uploading(h),
         \A j \in Janitors : /\ pc'[j] = "plan" => pc[j] = "plan"
                             /\ Prunes(j)' => Prunes(j) /\ todo'[j] \subseteq todo[j]
                             /\ pc'[j] = "delete" => todo'[j] # {}
  PROVE  PruneParts'
<1>1. InTheMaking'
  BY DEF PruneInv, InTheMaking
<1>2. Published'
  <2>1. \A b \in Backers : pc'[b] = "rotate" => Writing(b)'
    BY DEF Writing
  <2> QED
    BY <2>1 DEF PruneInv, Published
<1>3. NothingYet'
  BY DEF PruneInv, NothingYet
<1>4. PlanIsOlder'
  BY DEF PruneInv, PlanIsOlder
<1>5. SparesNewest'
  BY DEF PruneInv, SparesNewest
<1> QED
  BY <1>1, <1>2, <1>3, <1>4, <1>5 DEF PruneParts, Deleting

LEMMA HostPrune ==
  ASSUME OneUpload, PruneInv, NEW h \in Hosters, Host(h)
  PROVE  PruneParts'
<1> USE DEF Goto, store, sets
<1>1. /\ h \in Actors /\ pc \in [Actors -> Steps] /\ at \in [Actors -> Times]
      /\ uploads \in Nat /\ None \notin Row
      /\ \A b \in Backers : b \in Actors
      /\ \A j \in Janitors : j \in Actors
      /\ \A g \in Hosters : g \in Actors
  BY HostedKeyAssumption DEF PruneInv, SetsInv, TypeOK, Actors
<1>2. CASE HostPrepare(h)
  <2>1. /\ pc[h] = "idle" /\ pc' = [pc EXCEPT ![h] = "ready"] /\ at' = [at EXCEPT ![h] = clock]
        /\ uploads < MaxHosts /\ uploads' = uploads + 1
        /\ UNCHANGED <<clock, row, dirs, manifests, plan, todo>>
    BY <1>2 DEF HostPrepare
  <2>2. uploads = 0 /\ uploads' = 1
    BY <1>1, <2>1, Bounds DEF OneUpload
  <2>3. \A a \in Actors : a # h => pc'[a] = pc[a] /\ at'[a] = at[a]
    BY <1>1, <2>1
  <2>4. pc'[h] = "ready"
    BY <1>1, <2>1
  <2>5. NothingYet'
    BY <1>1, <2>1, <2>2, <2>3, <2>4 DEF PruneInv, NothingYet, Uploading, Writing
  <2>6. InTheMaking' /\ Published'
    BY <1>1, <2>1, <2>3, <2>4 DEF PruneInv, InTheMaking, Published, Writing
  <2>7. PlanIsOlder'
    BY <1>1, <2>1, <2>3, <2>4 DEF PruneInv, PlanIsOlder, Writing
  <2>8. SparesNewest' /\ Deleting'
    BY <1>1, <2>1, <2>3, <2>4 DEF PruneInv, SparesNewest, Deleting, Prunes, Writing
  <2> QED
    BY <2>5, <2>6, <2>7, <2>8 DEF PruneParts
<1>3. CASE HostLock(h) \/ HostSwap(h)
  <2>1. /\ UNCHANGED <<clock, uploads, row, dirs, manifests, plan, at, todo>>
        /\ Uploading(h)
        /\ pc' = [pc EXCEPT ![h] = "swap"] \/ pc' = [pc EXCEPT ![h] = "unlist"]
    BY <1>3 DEF HostLock, HostSwap, Uploading
  <2> QED
    BY <1>1, <2>1, PruneQuiet DEF Uploading, Writing, Prunes, PruneInv, NothingYet, Deleting
<1>4. CASE HostUnlist(h)
  <2>1. /\ UNCHANGED <<clock, uploads, dirs, manifests, plan, at, todo>>
        /\ Uploading(h) /\ row' = None
        /\ pc' = [pc EXCEPT ![h] = "list"]
    BY <1>4 DEF HostUnlist, Uploading
  <2>2. row = None
    BY <2>1 DEF PruneInv, NothingYet
  <2> QED
    BY <1>1, <2>1, <2>2, PruneQuiet DEF Uploading, Writing, Prunes, PruneInv, NothingYet, Deleting
<1>5. CASE HostList(h)
  <2>1. /\ UNCHANGED <<clock, uploads, dirs, manifests, plan, at, todo>>
        /\ Uploading(h)
        /\ pc' = [pc EXCEPT ![h] = "idle"]
    BY <1>5 DEF HostList, Uploading
  <2>2. row' # None
    <3>1. row' = [sha |-> ver[h], updated_at |-> at[h]] /\ ver[h] \in Versions
      BY <1>5 DEF HostList, PruneInv, SetsInv, UploadInHand
    <3> QED
      BY <1>1, <3>1 DEF Row
  <2>3. uploads = 1 /\ \A g \in Hosters : Uploading(g) => g = h
    BY <2>1 DEF PruneInv, NothingYet
  <2>4. \A a \in Actors : a # h => pc'[a] = pc[a]
    BY <1>1, <2>1
  <2>5. pc'[h] = "idle"
    BY <1>1, <2>1
  <2>6. NothingYet'
    BY <1>1, <2>1, <2>2, <2>3, <2>4, <2>5 DEF NothingYet, Uploading
  <2>7. InTheMaking' /\ Published'
    BY <1>1, <2>1, <2>4, <2>5 DEF PruneInv, InTheMaking, Published, Writing
  <2>8. PlanIsOlder'
    BY <1>1, <2>1, <2>4, <2>5 DEF PruneInv, PlanIsOlder, Writing
  <2>9. SparesNewest' /\ Deleting'
    BY <1>1, <2>1, <2>4, <2>5 DEF PruneInv, SparesNewest, Deleting, Prunes, Writing
  <2> QED
    BY <2>6, <2>7, <2>8, <2>9 DEF PruneParts
<1> QED
  BY <1>2, <1>3, <1>4, <1>5 DEF Host

LEMMA ReadPrune ==
  ASSUME PruneInv, NEW r \in Readers, Read(r)
  PROVE  PruneParts'
<1> USE DEF Goto, store, sets
<1>1. /\ r \in Actors /\ pc \in [Actors -> Steps] /\ at \in [Actors -> Times]
      /\ \A a \in Backers \cup Hosters \cup Janitors : a \in Actors
  BY DEF PruneInv, SetsInv, TypeOK, Actors
<1>2. /\ UNCHANGED <<clock, uploads, row, dirs, manifests, plan, todo>>
      /\ \A a \in Actors : \/ pc'[a] = pc[a] /\ at'[a] = at[a]
                           \/ pc'[a] \in {"touch", "idle"}
  BY <1>1 DEF Read, QueryThrottled, Query, Touch
<1> QED
  BY <1>1, <1>2, PruneQuiet DEF Uploading, Writing, Prunes, PruneInv, Deleting, NothingYet

LEMMA BackupPrune ==
  ASSUME PruneInv, NEW b \in Backers, Backup(b)
  PROVE  PruneParts'
<1> USE DEF Goto, store, sets
<1>1. /\ b \in Actors /\ pc \in [Actors -> Steps] /\ at \in [Actors -> Times]
      /\ \A a \in Backers \cup Hosters \cup Janitors : a \in Actors
      /\ clock \in Nat /\ dirs \in SUBSET Nat /\ \A a \in Actors : at[a] \in Nat
      /\ manifests \subseteq dirs
      /\ MaxBackup \in Nat
  BY Bounds, Numbers DEF PruneInv, SetsInv, TypeOK, Actors
<1>2. \A c \in Backers : Writing(c) \/ pc[c] = "snapshot" => held[c] = "key"
  BY DEF PruneInv, SetsInv, WritersLocked
<1>3. \A c \in Backers : held[b] = "key" /\ held[c] = "key" => c = b
  BY <1>1 DEF PruneInv, SetsInv, OneHolder
<1>4. CASE BackupCheck(b) \/ BackupLock(b)
  <2>1. /\ UNCHANGED <<clock, uploads, row, dirs, manifests, plan, at, todo>>
        /\ pc' = [pc EXCEPT ![b] = "checked"] \/ pc' = [pc EXCEPT ![b] = "snapshot"]
        /\ row # None
    BY <1>4 DEF BackupCheck, BackupLock, PruneInv, NothingYet
  <2> QED
    BY <1>1, <2>1, PruneQuiet DEF Uploading, Writing, Prunes, PruneInv, NothingYet, Deleting
<1>5. CASE Snapshot(b)
  <2>1. /\ UNCHANGED <<clock, uploads, row, dirs, manifests, plan, todo>>
        /\ pc[b] = "snapshot" /\ pc' = [pc EXCEPT ![b] = "mkdir"]
        /\ at' = [at EXCEPT ![b] = clock]
    BY <1>5 DEF Snapshot
  <2>2. \A a \in Actors : a # b => pc'[a] = pc[a] /\ at'[a] = at[a]
    BY <1>1, <2>1
  <2>3. pc'[b] = "mkdir" /\ at'[b] = clock
    BY <1>1, <2>1
  <2>4. row # None
    BY <2>1 DEF PruneInv, NothingYet
  <2>5. InTheMaking'
    BY <1>1, <2>1, <2>2, <2>3 DEF PruneInv, InTheMaking, Writing
  <2>6. NothingYet' /\ Published'
    BY <1>1, <2>1, <2>2, <2>3, <2>4 DEF PruneInv, NothingYet, Published, Uploading
  <2>7. PlanIsOlder'
    BY <1>1, <2>1, <2>2, <2>3 DEF PruneInv, PlanIsOlder, Writing
  <2>8. SparesNewest' /\ Deleting'
    BY <1>1, <2>1, <2>2, <2>3 DEF PruneInv, SparesNewest, Deleting, Prunes, Writing
  <2> QED
    BY <2>5, <2>6, <2>7, <2>8 DEF PruneParts
<1>6. CASE SnapshotRefused(b) \/ PartsRefused(b) \/ BackupDone(b)
  <2>1. /\ UNCHANGED <<clock, uploads, row, dirs, manifests, plan, at, todo>>
        /\ pc' = [pc EXCEPT ![b] = "idle"]
    BY <1>6 DEF SnapshotRefused, PartsRefused, BackupDone
  <2> QED
    BY <1>1, <2>1, PruneQuiet DEF Uploading, Writing, Prunes, PruneInv, NothingYet, Deleting
<1>7. CASE SetParts(b)
  <2>1. /\ UNCHANGED <<clock, uploads, row, dirs, manifests, plan, at, todo>>
        /\ pc[b] = "parts" /\ pc' = [pc EXCEPT ![b] = "manifest"]
    BY <1>7 DEF SetParts
  <2> QED
    BY <1>1, <2>1, PruneQuiet DEF Uploading, Writing, Prunes, PruneInv, NothingYet, Deleting
<1>8. CASE SetMkdir(b) \/ SetManifest(b)
  <2>1. /\ UNCHANGED <<clock, uploads, row, plan, at, todo>>
        /\ Writing(b) /\ dirs' = dirs \cup {at[b]}
        /\ \/ pc' = [pc EXCEPT ![b] = "parts"] /\ manifests' = manifests
           \/ pc' = [pc EXCEPT ![b] = "rotate"] /\ manifests' = manifests \cup {at[b]}
    BY <1>8 DEF SetMkdir, SetManifest, Writing
  <2>2. \A a \in Actors : a # b => pc'[a] = pc[a]
    BY <1>1, <2>1
  <2>3. \A c \in Backers : Writing(c) => c = b
    BY <1>2, <1>3, <2>1
  <2>4. pc'[b] \in {"parts", "rotate"} /\ (pc'[b] = "rotate" => at[b] \in manifests')
    BY <1>1, <2>1
  <2>5. at[b] <= clock /\ clock <= at[b] + MaxBackup /\ \A l \in dirs : l <= at[b]
    BY <2>1 DEF PruneInv, InTheMaking
  <2>6. at[b] \in Nat
    BY <1>1
  <2>7. InTheMaking'
    <3>1. dirs' \subseteq 0..clock
      <4>1. at[b] \in 0..clock
        BY <1>1, <2>5, <2>6
      <4> QED
        BY <2>1, <4>1 DEF PruneInv, InTheMaking
    <3>2. \A l \in dirs' : l <= at[b]
      BY <2>1, <2>5, <2>6
    <3>3. \A c \in Backers : Writing(c)' => c = b
      BY <1>1, <2>2, <2>3 DEF Writing
    <3> QED
      BY <2>1, <2>5, <3>1, <3>2, <3>3 DEF InTheMaking
  <2>8. Published'
    BY <1>1, <2>1, <2>2, <2>4 DEF PruneInv, Published
  <2>9. NothingYet'
    <3>1. row # None
      BY <2>1 DEF PruneInv, NothingYet
    <3> QED
      BY <1>1, <2>1, <2>2, <2>4, <3>1 DEF PruneInv, NothingYet, Uploading
  <2>10. PlanIsOlder'
    BY <1>1, <2>1, <2>2, <2>4 DEF PruneInv, PlanIsOlder, Writing
  <2>11. SparesNewest'
    <3>1. \A j \in Janitors : Prunes(j)' => Prunes(j)
      BY <1>1, <2>2, <2>4 DEF Prunes
    <3>2. \A c \in Backers : Writing(c)' => Writing(c)
      BY <1>1, <2>1, <2>2 DEF Writing
    <3> QED
      BY <1>1, <2>1, <3>1, <3>2 DEF PruneInv, SparesNewest
  <2>12. Deleting'
    BY <1>1, <2>1, <2>2, <2>4 DEF PruneInv, Deleting
  <2> QED
    BY <2>7, <2>8, <2>9, <2>10, <2>11, <2>12 DEF PruneParts
<1>9. CASE Rotate(b)
  <2>1. /\ UNCHANGED <<clock, uploads, row, plan, at, todo, pc>>
        /\ pc[b] = "rotate" /\ Excess # {} /\ DeleteSet(Min(Excess))
    BY <1>9 DEF Rotate
  <2>2. /\ at[b] \in manifests /\ Writing(b)
        /\ \A l \in dirs : l <= at[b]
    BY <2>1 DEF PruneInv, Published, InTheMaking, Writing
  <2>3. Min(Excess) # at[b]
    BY <1>1, <2>1, <2>2, ExcessIsOlder
  <2>4. at[b] \in manifests' /\ dirs' \subseteq dirs /\ manifests' \subseteq manifests
    BY <2>1, <2>2, <2>3 DEF DeleteSet
  <2>5. InTheMaking' /\ NothingYet' /\ PlanIsOlder' /\ Deleting'
    BY <2>1, <2>4 DEF PruneInv, InTheMaking, NothingYet, PlanIsOlder, Deleting, Writing, Uploading
  <2>6. Published'
    BY <1>2, <1>3, <2>1, <2>2, <2>4 DEF Published, Writing
  <2>7. SparesNewest'
    <3>1. SUFFICES ASSUME NEW j \in Janitors, Prunes(j), NEW l \in todo[j]
                   PROVE  /\ l < clock
                          /\ \A c \in Backers : Writing(c) => at[c] # l
                          /\ l \in manifests' => at[b] > l
      BY <2>1, <2>4 DEF SparesNewest, Prunes, Writing
    <3>2. l < clock /\ \A c \in Backers : Writing(c) => at[c] # l
      BY <3>1 DEF PruneInv, SparesNewest
    <3>3. ASSUME l \in manifests' PROVE at[b] > l
      <4>1. l \in dirs /\ l \in Nat /\ l <= at[b] /\ at[b] \in Nat
        BY <1>1, <2>2, <2>4, <3>3
      <4> QED
        BY <2>2, <3>2, <4>1
    <3> QED
      BY <3>2, <3>3
  <2> QED
    BY <2>5, <2>6, <2>7 DEF PruneParts
<1> QED
  BY <1>4, <1>5, <1>6, <1>7, <1>8, <1>9 DEF Backup

\* What a plan prunes is older than any set in the making, and not the newest complete set.
LEMMA PrunedSpares ==
  ASSUME BackupsAreFast, PruneInv, NEW j \in Janitors, pc[j] = "plan", NEW l \in Pruned(j, 0)
  PROVE  /\ l < clock
         /\ \A b \in Backers : Writing(b) => at[b] # l
         /\ l \in manifests => \E m \in manifests : m > l
<1>1. /\ clock \in Nat /\ dirs \in SUBSET Nat /\ plan[j].now \in Nat /\ plan[j].now <= clock
      /\ \A b \in Backers : at[b] \in Nat
      /\ manifests \subseteq dirs
      /\ BackupMaxAge \in Nat /\ DebrisMaxAge \in Nat /\ MaxBackup \in Nat
  BY Bounds, Numbers DEF PruneInv, SetsInv, TypeOK, PlanIsOlder, Actors
<1>2. l \in Debris(j) \cup Aged(j)
  <2>1. ASSUME NEW S \in SUBSET dirs PROVE Oldest(S, 0) = {}
    <3>1. ASSUME NEW x \in S PROVE Cardinality({m \in S : m < x}) \in Nat
      <4>1. IsFiniteSet({m \in S : m < x})
        BY DirsFinite, FS_Subset DEF PruneInv, SetsInv
      <4> QED
        BY <4>1, FS_CardinalityType
    <3>2. \A x \in S : ~(Cardinality({m \in S : m < x}) < 0)
      BY <3>1
    <3> QED
      BY <3>2 DEF Oldest
  <2>2. Oldest((dirs \ Protected(j)) \ (Debris(j) \cup Aged(j)), 0) = {}
    BY <2>1
  <2> QED
    BY <2>2 DEF Pruned
<1>3. l \in dirs /\ l \in Nat /\ l + MaxBackup < plan[j].now
  BY <1>1, <1>2 DEF Debris, Aged, BackupsAreFast
<1>4. \A b \in Backers : Writing(b) => at[b] # l
  BY <1>1, <1>3 DEF PruneInv, InTheMaking
<1>5. ASSUME l \in manifests PROVE \E m \in manifests : m > l
  <2>1. plan[j].listed
    <3>1. SUFFICES ASSUME ~plan[j].listed PROVE FALSE
      OBVIOUS
    <3>2. l >= plan[j].now
      BY <1>3, <3>1 DEF PruneInv, PlanIsOlder
    <3> QED
      BY <1>1, <1>3, <3>2
  <2>2. l # Max(manifests)
    BY <1>2, <1>5, <2>1 DEF Debris, Aged, Protected
  <2>3. manifests \in SUBSET (0..clock)
    BY <1>1 DEF PruneInv, InTheMaking
  <2>4. /\ Max(manifests) \in manifests
        /\ \A m \in manifests : m <= Max(manifests)
    BY <1>1, <1>5, <2>3, GreatestIs
  <2>5. l <= Max(manifests) /\ Max(manifests) \in Nat
    BY <1>1, <1>5, <2>4
  <2>6. Max(manifests) > l
    BY <1>3, <2>2, <2>5
  <2> QED
    BY <2>4, <2>6
<1> QED
  BY <1>1, <1>3, <1>4, <1>5

LEMMA EnforcePrune ==
  ASSUME PruneOnly, BackupsAreFast, PruneInv, NEW j \in Janitors, Enforce(j)
  PROVE  PruneParts'
<1> USE DEF Goto, store, sets
<1>1. /\ j \in Actors /\ pc \in [Actors -> Steps] /\ at \in [Actors -> Times]
      /\ plan \in [Janitors -> Plan] /\ todo \in [Janitors -> SUBSET Times]
      /\ \A a \in Backers \cup Hosters \cup Janitors : a \in Actors
      /\ clock \in Nat /\ dirs \in SUBSET Nat
      /\ manifests \subseteq dirs
      /\ \A a \in Actors : at[a] \in Nat
  BY Numbers DEF PruneInv, SetsInv, TypeOK, Actors
<1>2. \A k \in Janitors : todo[k] # {} => Min(todo[k]) \in todo[k]
  <2>1. \A k \in Janitors : todo[k] \in SUBSET Nat
    BY <1>1 DEF Times
  <2> QED
    BY <2>1, MinIs
<1>3. CASE PlanRead(j)
  <2>1. /\ pc[j] = "idle" /\ pc' = [pc EXCEPT ![j] = "plan"]
        /\ \E t : plan' = [plan EXCEPT ![j] = [now |-> clock, listed |-> row # None, active_at |-> t]]
        /\ UNCHANGED <<clock, uploads, row, dirs, manifests, at, todo>>
    BY <1>3 DEF PlanRead
  <2>2. /\ plan'[j].now = clock /\ plan'[j].listed = (row # None)
        /\ \A k \in Janitors : k # j => plan'[k] = plan[k]
    BY <1>1, <2>1
  <2>3. pc'[j] = "plan" /\ \A a \in Actors : a # j => pc'[a] = pc[a]
    BY <1>1, <2>1
  <2>4. InTheMaking' /\ Published'
    BY <1>1, <2>1, <2>3 DEF PruneInv, InTheMaking, Published, Writing
  <2>5. NothingYet'
    BY <1>1, <2>1, <2>3 DEF PruneInv, NothingYet, Uploading, Writing
  <2>6. PlanIsOlder'
    <3>1. \A b \in Backers : Writing(b)' => Writing(b)
      BY <1>1, <2>3 DEF Writing
    <3>2. row = None => dirs = {} /\ \A b \in Backers : ~Writing(b)
      BY DEF PruneInv, NothingYet
    <3> QED
      <4>1. \A k \in Janitors : plan'[k].now <= clock
        BY <1>1, <2>2 DEF PruneInv, PlanIsOlder
      <4>2. \A k \in Janitors : k # j /\ pc'[k] = "plan" => pc[k] = "plan" /\ plan'[k] = plan[k]
        BY <1>1, <2>2, <2>3
      <4>3. ~plan'[j].listed => dirs = {} /\ \A b \in Backers : ~Writing(b)
        BY <2>2, <3>2
      <4> QED
        BY <2>1, <3>1, <4>1, <4>2, <4>3 DEF PruneInv, PlanIsOlder
  <2>7. SparesNewest' /\ Deleting'
    BY <1>1, <2>1, <2>3 DEF PruneInv, SparesNewest, Deleting, Prunes, Writing
  <2> QED
    BY <2>4, <2>5, <2>6, <2>7 DEF PruneParts
<1>4. CASE PlanDecide(j)
  <2>1. ~(plan[j].now - plan[j].active_at > MaxAge) /\ ~Budget
    <3>1. plan[j].now \in Times /\ plan[j].active_at \in Times
      BY <1>1 DEF Plan
    <3> QED
      BY <3>1, Bounds DEF PruneOnly, Times
  <2>2. /\ pc[j] = "plan" /\ pc' = [pc EXCEPT ![j] = "prune"]
        /\ \E n \in {0} : todo' = [todo EXCEPT ![j] = Pruned(j, n)]
        /\ UNCHANGED <<clock, uploads, row, dirs, manifests, at, plan>>
    BY <1>4, <2>1, Zenon DEF PlanDecide
  <2>3. todo'[j] = Pruned(j, 0) /\ \A k \in Janitors : k # j => todo'[k] = todo[k]
    BY <1>1, <2>2
  <2>4. pc'[j] = "prune" /\ \A a \in Actors : a # j => pc'[a] = pc[a]
    BY <1>1, <2>2
  <2>5. InTheMaking' /\ Published'
    BY <1>1, <2>2, <2>4 DEF PruneInv, InTheMaking, Published, Writing
  <2>6. NothingYet' /\ PlanIsOlder' /\ Deleting'
    BY <1>1, <2>2, <2>3, <2>4
       DEF PruneInv, NothingYet, PlanIsOlder, Deleting, Uploading, Writing
  <2>7. SparesNewest'
    <3>1. \A b \in Backers : Writing(b)' => Writing(b)
      BY <1>1, <2>4 DEF Writing
    <3>2. \A k \in Janitors : k # j /\ Prunes(k)' => Prunes(k)
      BY <1>1, <2>4 DEF Prunes
    <3> QED
      BY <2>2, <2>3, <3>1, <3>2, PrunedSpares DEF PruneInv, SparesNewest
  <2> QED
    BY <2>5, <2>6, <2>7 DEF PruneParts
<1>5. CASE Evict(j)
  BY <1>5 DEF PruneInv, SetsInv, NoEviction, Evict, EvictLock, EvictSkip, Unlink, Unrow,
     RemoveBackups, Wipe, Wiped, RmTree
<1>6. CASE PruneNext(j) \/ PruneDone(j) \/ EnforceDone(j)
  <2>1. /\ UNCHANGED <<clock, uploads, row, dirs, manifests, plan, at>>
        /\ Prunes(j)
        /\ \/ pc' = [pc EXCEPT ![j] = "delete"] /\ todo' = todo /\ todo[j] # {}
           \/ pc' = [pc EXCEPT ![j] = "idle"] /\ todo' = todo
           \/ /\ pc' = [pc EXCEPT ![j] = "prune"] \/ (pc' = pc /\ pc[j] = "prune")
              /\ todo' = [todo EXCEPT ![j] = @ \ {Min(@)}]
    BY <1>6 DEF PruneNext, PruneDone, EnforceDone, Prunes
  <2>2. \A a \in Actors : a # j => pc'[a] = pc[a]
    BY <1>1, <2>1
  <2>3. /\ pc'[j] \in {"delete", "idle", "prune"}
        /\ pc'[j] = "delete" => todo' = todo /\ todo[j] # {}
        /\ \A k \in Janitors : todo'[k] \subseteq todo[k] /\ (k # j => todo'[k] = todo[k])
    BY <1>1, <2>1
  <2> QED
    BY <1>1, <2>1, <2>2, <2>3, PruneQuiet
       DEF Uploading, Writing, Prunes, PruneInv, NothingYet, Deleting
<1>7. CASE PruneDelete(j)
  <2>1. /\ UNCHANGED <<clock, uploads, row, plan, at, todo, pc>>
        /\ pc[j] = "delete" /\ DeleteSet(Min(todo[j]))
    BY <1>7 DEF PruneDelete
  <2>2. Min(todo[j]) \in todo[j] /\ Prunes(j)
    BY <1>2, <2>1 DEF PruneInv, Deleting, Prunes
  <2>3. /\ dirs' \subseteq dirs /\ manifests' \subseteq manifests
        /\ \A l \in manifests : l # Min(todo[j]) => l \in manifests'
    BY <2>1 DEF DeleteSet
  <2>4. InTheMaking' /\ NothingYet' /\ PlanIsOlder' /\ Deleting'
    BY <2>1, <2>3 DEF PruneInv, InTheMaking, NothingYet, PlanIsOlder, Deleting, Writing, Uploading
  <2>5. Published'
    BY <2>1, <2>2, <2>3 DEF PruneInv, Published, SparesNewest, Writing
  <2>6. SparesNewest'
    <3>1. SUFFICES ASSUME NEW k \in Janitors, Prunes(k), NEW l \in todo[k], l \in manifests
                   PROVE  \E m \in manifests' : m > l
      BY <2>1, <2>3 DEF PruneInv, SparesNewest, Prunes, Writing
    <3>2. PICK m \in manifests : m > l
      BY <3>1 DEF PruneInv, SparesNewest
    <3>3. CASE m # Min(todo[j])
      BY <2>3, <3>2, <3>3
    <3>4. CASE m = Min(todo[j])
      <4>1. PICK n \in manifests : n > m
        BY <2>2, <3>4 DEF PruneInv, SparesNewest
      <4>2. n \in Nat /\ m \in Nat /\ l \in Nat
        BY <1>1, <3>1
      <4>3. n > l /\ n # m
        BY <3>2, <4>1, <4>2
      <4> QED
        BY <2>3, <3>4, <4>3
    <3> QED
      BY <3>3, <3>4
  <2> QED
    BY <2>4, <2>5, <2>6 DEF PruneParts
<1> QED
  BY <1>3, <1>4, <1>5, <1>6, <1>7 DEF Enforce

LEMMA OtherPrune ==
  ASSUME PruneInv, Other
  PROVE  PruneParts'
<1> USE DEF store, sets
<1>1. /\ pc \in [Actors -> Steps] /\ todo \in [Janitors -> SUBSET Times]
      /\ \A a \in Backers \cup Hosters \cup Janitors : a \in Actors
      /\ clock \in Nat /\ dirs \in SUBSET Nat /\ MaxBackup \in Nat
      /\ \A a \in Actors : at[a] \in Nat
      /\ \A k \in Janitors : plan[k].now \in Nat
      /\ \A k \in Janitors : todo[k] \in SUBSET Nat
  BY Bounds, Numbers DEF PruneInv, SetsInv, TypeOK, Actors, Times
<1>2. ASSUME NEW a \in Actors, LockTimeout(a) \/ Fail(a) PROVE PruneParts'
  <2>1. /\ UNCHANGED <<clock, uploads, row, dirs, manifests, plan, at>>
        /\ \/ pc' = [pc EXCEPT ![a] = "idle"] /\ todo' = todo
           \/ pc' = pc /\ todo' = [todo EXCEPT ![a] = @ \ {Min(@)}] /\ pc[a] = "prune"
           \/ pc[a] \in {"evict", "remove"} /\ pc' = [pc EXCEPT ![a] = "prune"] /\ todo' = todo
    BY <1>2 DEF LockTimeout, Fail
  <2>2. \A k \in Janitors : todo'[k] \subseteq todo[k] /\ (k # a => todo'[k] = todo[k])
    BY <1>1, <2>1
  <2>3. \A k \in Actors : k # a => pc'[k] = pc[k]
    BY <1>1, <2>1
  <2>4. a \in Janitors => pc[a] \notin {"evict", "remove"}
    BY DEF PruneInv, SetsInv, NoEviction
  <2>5. \/ pc'[a] = "idle" /\ todo' = todo
        \/ pc'[a] = "prune"
    BY <1>1, <2>1
  <2>6. \A k \in Janitors : Prunes(k)' => Prunes(k)
    BY <1>1, <2>1, <2>3, <2>4, <2>5 DEF Prunes
  <2>7. \A k \in Janitors : pc'[k] = "delete" => todo'[k] # {}
    BY <1>1, <2>2, <2>3, <2>5 DEF PruneInv, Deleting
  <2> QED
    BY <1>1, <2>1, <2>2, <2>3, <2>5, <2>6, <2>7, PruneQuiet
       DEF Uploading, Writing, PruneInv, NothingYet
<1>3. CASE Tick
  <2>1. /\ clock' = clock + 1 /\ \A b \in Backers : Writing(b) => clock < at[b] + MaxBackup
        /\ UNCHANGED <<uploads, row, dirs, manifests, plan, at, pc, todo>>
    BY <1>3 DEF Tick
  <2>2. InTheMaking'
    BY <1>1, <2>1 DEF PruneInv, InTheMaking, Writing
  <2>3. Published' /\ NothingYet' /\ Deleting'
    BY <2>1 DEF PruneInv, Published, NothingYet, Deleting, Writing, Uploading
  <2>4. PlanIsOlder'
    BY <1>1, <2>1 DEF PruneInv, PlanIsOlder, Writing
  <2>5. SparesNewest'
    BY <1>1, <2>1 DEF PruneInv, SparesNewest, Prunes, Writing
  <2> QED
    BY <2>2, <2>3, <2>4, <2>5 DEF PruneParts
<1>4. CASE Rot \/ PublishSuspects
  BY <1>4, PruneQuiet DEF Rot, PublishSuspects, PruneInv, NothingYet, Deleting, Writing, Uploading,
     Prunes
<1> QED
  BY <1>2, <1>3, <1>4, HostedKeyAssumption DEF Other

LEMMA StepPrune ==
  ASSUME PruneOnly, OneUpload, BackupsAreFast, PruneInv, [Next]_vars
  PROVE  PruneInv'
<1>1. SetsInv'
  BY StepSets DEF PruneInv
<1>2. CASE Next
  <2>1. PruneParts'
    BY <1>2, HostPrune, ReadPrune, BackupPrune, EnforcePrune, OtherPrune DEF Next, Other
  <2> QED
    BY <1>1, <2>1 DEF PruneInv, PruneParts
<1>3. CASE UNCHANGED vars
  BY <1>1, <1>3 DEF vars, store, sets, PruneInv, InTheMaking, Published, NothingYet, PlanIsOlder,
     SparesNewest, Deleting, Prunes, Uploading, Writing
<1> QED
  BY <1>2, <1>3

\* Whoever takes a manifest away leaves one behind.
LEMMA OneManifestLeft ==
  ASSUME PruneInv, [Next]_vars, manifests # {}
  PROVE  manifests' # {}
<1> USE DEF sets
<1>1. ASSUME NEW b \in Backers, Rotate(b) PROVE manifests' # {}
  <2>1. /\ at[b] \in manifests /\ Excess # {} /\ DeleteSet(Min(Excess))
        /\ \A l \in dirs : l <= at[b]
    BY <1>1 DEF Rotate, PruneInv, Published, InTheMaking, Writing
  <2>2. dirs \in SUBSET Nat /\ at[b] \in Nat
    BY Numbers DEF PruneInv, SetsInv, Actors
  <2>3. Min(Excess) # at[b]
    BY <2>1, <2>2, ExcessIsOlder
  <2> QED
    BY <2>1, <2>3 DEF DeleteSet
<1>2. ASSUME NEW b \in Backers, Backup(b), ~Rotate(b) PROVE manifests' # {}
  BY <1>2 DEF Backup, BackupCheck, BackupLock, Snapshot, SnapshotRefused, SetMkdir, SetParts,
     PartsRefused, SetManifest, BackupDone
<1>3. ASSUME NEW j \in Janitors, PruneDelete(j) PROVE manifests' # {}
  <2>1. todo[j] # {} /\ DeleteSet(Min(todo[j])) /\ Prunes(j)
    BY <1>3 DEF PruneDelete, PruneInv, Deleting, Prunes
  <2>2. Min(todo[j]) \in todo[j]
    <3>1. todo[j] \in SUBSET Nat
      BY DEF PruneInv, SetsInv, TypeOK, Times
    <3> QED
      BY <2>1, <3>1, MinIs
  <2>3. manifests \subseteq Nat
    BY DEF PruneInv, SetsInv, TypeOK, Times
  <2>4. Min(todo[j]) \in manifests => \E m \in manifests : m > Min(todo[j])
    BY <2>1, <2>2 DEF PruneInv, SparesNewest
  <2>5. \E m \in manifests : m # Min(todo[j])
    <3>1. CASE Min(todo[j]) \in manifests
      BY <2>3, <2>4, <3>1
    <3>2. CASE Min(todo[j]) \notin manifests
      BY <3>2
    <3> QED
      BY <3>1, <3>2
  <2> QED
    BY <2>1, <2>5 DEF DeleteSet
<1>4. ASSUME NEW j \in Janitors, Enforce(j), ~PruneDelete(j) PROVE manifests' # {}
  <2>1. ~Evict(j)
    BY DEF PruneInv, SetsInv, NoEviction, Evict, EvictLock, EvictSkip, Unlink, Unrow,
       RemoveBackups, Wipe, Wiped, RmTree, Goto
  <2> QED
    BY <1>4, <2>1 DEF Enforce, PlanRead, PlanDecide, PruneNext, PruneDone, EnforceDone
<1>5. ASSUME NEW h \in Hosters, Host(h) PROVE manifests' # {}
  BY <1>5 DEF Host, HostPrepare, HostLock, HostSwap, HostUnlist, HostList
<1>6. ASSUME NEW r \in Readers, Read(r) PROVE manifests' # {}
  BY <1>6 DEF Read, QueryThrottled, Query, Touch
<1>7. ASSUME Other PROVE manifests' # {}
  BY <1>7 DEF Other, LockTimeout, Fail, Tick, Rot, PublishSuspects
<1>8. CASE UNCHANGED vars
  BY <1>8 DEF vars
<1> QED
  BY <1>1, <1>2, <1>3, <1>4, <1>5, <1>6, <1>7, <1>8 DEF Next, Other

\* "The newest complete set of a hosted database is never pruned" (retention.py) and never
\* rotated away: with a janitor that evicts nothing, however many backups, prunes and deaths
\* interleave, the last complete set stays.
THEOREM LastSetSurvivesPruning ==
  ASSUME PruneOnly, OneUpload, BackupsAreFast PROVE Spec => LastSetKept
<1>1. PruneInv /\ [Next]_vars => PruneInv'
  BY StepPrune
<1>2. PruneInv /\ [Next]_vars =>
        (file # None /\ file' # None /\ manifests # {} => manifests' # {})
  BY OneManifestLeft
<1> QED
  BY InitPrune, <1>1, <1>2, PTL DEF Spec, LastSetKept

=============================================================================
