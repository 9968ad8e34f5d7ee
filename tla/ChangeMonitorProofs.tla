------------------------ MODULE ChangeMonitorProofs ------------------------
(***************************************************************************)
(* ChangeMonitor for every repository, every number of monitors, every     *)
(* ring depth and every number of edits, crashes and exceptions.           *)
(***************************************************************************)
EXTENDS ChangeMonitor, WellFoundedInduction, FiniteSetTheorems, SequenceTheorems, TLAPS

-----------------------------------------------------------------------------
(* Extrema and remainders                                                  *)

\* A nonempty set of numbers up to n has a greatest.
LEMMA GreatestIs ==
  ASSUME NEW n \in Nat, NEW S \in SUBSET (0..n), S # {}
  PROVE  Max(S) \in S /\ \A y \in S : y <= Max(S)
<1> DEFINE R == {p \in Nat \X Nat : p[1] < p[2]}
           T == {n - z : z \in S}
<1>1. PICK x \in T : \A z \in T : <<z, x>> \notin R
  <2>1. T \in SUBSET Nat /\ T # {}
    <3>1. PICK y \in S : n - y \in T
      OBVIOUS
    <3>2. \A z \in S : n - z \in Nat
      OBVIOUS
    <3> QED
      BY <3>1, <3>2
  <2>2. IsWellFoundedOn(R, Nat)
    BY NatLessThanWellFounded DEF OpToRel
  <2> HIDE DEF R, T
  <2> QED
    BY <2>1, <2>2, WFMin
<1>2. PICK m \in S : x = n - m
  OBVIOUS
<1>3. ASSUME NEW y \in S PROVE y <= m
  <2>1. n - y \in T /\ n - y \in Nat /\ n - m \in Nat
    OBVIOUS
  <2>2. ~(n - y < n - m)
    BY <2>1, <1>1, <1>2
  <2> QED
    BY <2>2
<1> QED
  BY <1>3 DEF Max

LEMMA Remainder ==
  ASSUME NEW a \in Int, NEW c \in Nat \ {0}
  PROVE  a % c \in 0..(c - 1)
OBVIOUS

\* The remainder and the quotient.
LEMMA DivMod ==
  ASSUME NEW a \in Nat, NEW c \in Nat \ {0}
  PROVE  a \div c \in Nat /\ a % c \in 0..(c - 1) /\ a = c * (a \div c) + (a % c)
OBVIOUS

\* Two numbers with the same remainder are at least the modulus apart.
LEMMA SameSlotApart ==
  ASSUME NEW a \in Nat, NEW b \in Nat, NEW c \in Nat \ {0}, a % c = b % c, a < b
  PROVE  b - a >= c
<1>1. /\ a = c * (a \div c) + (a % c) /\ a \div c \in Nat
      /\ b = c * (b \div c) + (b % c) /\ b \div c \in Nat
  BY DivMod
<1>2. b - a = c * ((b \div c) - (a \div c))
  BY <1>1
<1>3. (b \div c) - (a \div c) >= 1
  BY <1>2
<1> QED
  BY <1>2, <1>3

LEMMA SmallMultiple ==
  ASSUME NEW k \in Int, NEW c \in Nat \ {0}, c * k < c, c * k > -c
  PROVE  k = 0
<1>1. CASE k >= 1
  <2>1. c * k >= c
    BY <1>1
  <2> QED
    BY <2>1
<1>2. CASE k <= -1
  <2>1. c * k <= -c
    BY <1>2
  <2> QED
    BY <2>1
<1> QED
  BY <1>1, <1>2

\* A number and the one a modulus later have the same remainder.
LEMMA SlotComesAround ==
  ASSUME NEW a \in Nat, NEW c \in Nat \ {0}
  PROVE  (a + c) % c = a % c
<1> DEFINE q == a \div c
           p == (a + c) \div c
           r == a % c
           t == (a + c) % c
<1>1. q \in Nat /\ r \in 0..(c - 1) /\ a = c * q + r
  BY DivMod
<1>2. p \in Nat /\ t \in 0..(c - 1) /\ a + c = c * p + t
  <2>1. a + c \in Nat
    OBVIOUS
  <2> QED
    BY <2>1, DivMod
<1> HIDE DEF q, p, r, t
<1>3. c * ((p - q) - 1) = r - t
  <2>1. c * ((p - q) - 1) = c * p - c * q - c
    BY <1>1, <1>2
  <2> QED
    BY <2>1, <1>1, <1>2
<1>4. (p - q) - 1 = 0
  <2>1. r - t < c /\ r - t > -c
    BY <1>1, <1>2
  <2>2. (p - q) - 1 \in Int
    BY <1>1, <1>2
  <2> QED
    BY <2>1, <2>2, <1>3, SmallMultiple
<1>5. r = t
  BY <1>1, <1>2, <1>3, <1>4
<1> QED
  BY <1>5 DEF r, t

-----------------------------------------------------------------------------
(* The events of a batch                                                   *)

LEMMA SetToSeqType ==
  ASSUME NEW S, IsFiniteSet(S)
  PROVE  SetToSeq(S) \in Seq(S)
<1>1. Cardinality(S) \in Nat /\ ExistsBijection(1..Cardinality(S), S)
  BY FS_CardinalityType
<1>2. \E f \in [1..Cardinality(S) -> S] : IsInjective(f)
  BY <1>1 DEF ExistsBijection, Bijection, Injection
<1>3. SetToSeq(S) \in [1..Cardinality(S) -> S]
  BY <1>2 DEF SetToSeq
<1> QED
  BY <1>1, <1>3

LEMMA ChangeSetFinite ==
  ASSUME NEW old \in Tree, NEW new \in Tree, NEW F \in SUBSET Files
  PROVE  LET S == {Change(f, old, new) : f \in F} IN IsFiniteSet(S) /\ S \subseteq Changed
<1> DEFINE S == {Change(f, old, new) : f \in F}
           g == [f \in F |-> Change(f, old, new)]
<1>1. IsFiniteSet(F)
  BY MonitorAssumption, FS_Subset
<1>2. g \in Surjection(F, S)
  BY DEF Surjection
<1>3. IsFiniteSet(S)
  BY <1>1, <1>2, FS_Surjection
<1>4. S \subseteq Changed
  BY DEF Change, Changed, Tree
<1> QED
  BY <1>3, <1>4

LEMMA ChangesType ==
  ASSUME NEW old \in Tree, NEW new \in Tree
  PROVE  Changes(old, new) \in Seq(Changed)
<1>1. \A S \in SUBSET Changed : IsFiniteSet(S) => SetToSeq(S) \in Seq(Changed)
  BY SetToSeqType, SeqMonotonic
<1>2. Created(old, new) \in SUBSET Changed /\ IsFiniteSet(Created(old, new))
  <2>1. {g \in Files : old[g] = Absent /\ new[g] # Absent} \in SUBSET Files
    OBVIOUS
  <2> QED
    BY <2>1, ChangeSetFinite DEF Created
<1>3. Deleted(old, new) \in SUBSET Changed /\ IsFiniteSet(Deleted(old, new))
  <2>1. {g \in Files : old[g] # Absent /\ new[g] = Absent} \in SUBSET Files
    OBVIOUS
  <2> QED
    BY <2>1, ChangeSetFinite DEF Deleted
<1>4. Modified(old, new) \in SUBSET Changed /\ IsFiniteSet(Modified(old, new))
  <2>1. {g \in Files : Absent \notin {old[g], new[g]} /\ old[g] # new[g]} \in SUBSET Files
    OBVIOUS
  <2> QED
    BY <2>1, ChangeSetFinite DEF Modified
<1>5. /\ SetToSeq(Created(old, new)) \in Seq(Changed)
      /\ SetToSeq(Deleted(old, new)) \in Seq(Changed)
      /\ SetToSeq(Modified(old, new)) \in Seq(Changed)
  BY <1>1, <1>2, <1>3, <1>4
<1> QED
  BY <1>5, ConcatProperties DEF Changes

-----------------------------------------------------------------------------
(* Types                                                                   *)

\* A monitor that is up has a ring depth, and one that indexes is at an event.
InOrder(r) == /\ r.pc # "down" => r.cap \in Capacities
              /\ r.pc = "index" => r.at # 0

Opened == \A m \in Monitors : InOrder(mon[m])

Typed == TypeOK /\ Opened

LEMMA LocalTypes ==
  ASSUME TypeOK, NEW m \in Monitors
  PROVE  NotStarted \in Local /\ Between(m) \in Local /\ NoTree \in Tree
<1>1. NoTree \in Tree
  BY DEF NoTree, Tree, Versions
<1>2. NotStarted \in Local
  BY <1>1 DEF NotStarted, Local, Steps
<1>3. mon[m] \in Local
  BY DEF TypeOK
<1> QED
  BY <1>1, <1>2, <1>3 DEF Between, Local, Steps

\* What the proofs below need of a monitor and of the scalars.
LEMMA TypedFacts ==
  ASSUME Typed, NEW m \in Monitors
  PROVE  /\ mon[m] \in Local /\ InOrder(mon[m]) /\ disk \in Tree /\ known \in Tree
         /\ budget \in [Kinds -> Nat] /\ seq \in Nat /\ lastBatch \in Nat
         /\ NoTree \in Tree /\ NotStarted \in Local /\ Between(m) \in Local
         /\ Len(mon[m].events) \in Nat
<1>1. mon[m] \in Local
  BY DEF Typed, TypeOK
<1>2. InOrder(mon[m])
  BY DEF Typed, Opened
<1>3. NoTree \in Tree /\ NotStarted \in Local /\ Between(m) \in Local
  BY LocalTypes DEF Typed
<1>4. mon[m].events \in Seq(Changed)
  BY <1>1 DEF Local
<1>5. Len(mon[m].events) \in Nat
  BY <1>4
<1> QED
  BY <1>1, <1>2, <1>3, <1>5 DEF Typed, TypeOK

LEMMA EntryType ==
  ASSUME TypeOK, NEW m \in Monitors, NEW i \in 1..Len(mon[m].events)
  PROVE  /\ Entry(m, i) \in Entries
         /\ [seq |-> mon[m].base + i, change |-> mon[m].events[i]] \in [seq : Nat, change : Changed]
<1>1. /\ mon[m].events \in Seq(Changed) /\ mon[m].base \in Nat /\ mon[m].batch \in Nat
  BY DEF TypeOK, Local
<1>2. mon[m].events[i] \in Changed
  BY <1>1, ElementOfSeq
<1>3. mon[m].base + i \in Nat
  BY <1>1
<1>4. (i \in mon[m].done) \in BOOLEAN
  OBVIOUS
<1> QED
  BY <1>1, <1>2, <1>3, <1>4 DEF Entry, Entries

LEMMA FollowType ==
  ASSUME NEW tree \in Tree, NEW events \in Seq(Changed)
  PROVE  Follow(tree, events) \in Tree
<1>1. ASSUME NEW f \in Files
      PROVE  LET its == {e \in Range(events) : e.file = f}
             IN  (IF its = {} THEN tree[f] ELSE (CHOOSE e \in its : TRUE).new) \in Versions
  <2> DEFINE its == {e \in Range(events) : e.file = f}
  <2>1. CASE its = {}
    BY <2>1 DEF Tree
  <2>2. CASE its # {}
    <3>1. (CHOOSE e \in its : TRUE) \in its
      BY <2>2
    <3>2. its \subseteq Changed
      BY DEF Range
    <3>3. (CHOOSE e \in its : TRUE) \in Changed
      <4> HIDE DEF its
      <4> QED
        BY <3>1, <3>2
    <3> HIDE DEF its
    <3>4. (CHOOSE e \in its : TRUE).new \in Versions
      BY <3>3 DEF Changed
    <3> QED
      BY <2>2, <3>4 DEF its
  <2> QED
    BY <2>1, <2>2
<1> QED
  BY <1>1 DEF Follow, Tree

LEMMA RingWithType ==
  ASSUME TypeOK, NEW m \in Monitors, NEW k \in Nat, k <= Len(mon[m].events)
  PROVE  /\ RingWith(m, k) \in [Slots -> Entries \cup {NoEntry}]
         /\ Recorded(m, k) \subseteq [seq : Nat, change : Changed]
<1>0. Len(mon[m].events) \in Nat
  BY DEF TypeOK, Local
<1>1. ASSUME NEW s \in Slots
      PROVE  LET hits == {i \in 1..k : SlotOf(mon[m].base + i, mon[m].cap) = s}
             IN  (IF hits = {} THEN ring[s] ELSE Entry(m, Max(hits))) \in Entries \cup {NoEntry}
  <2> DEFINE hits == {i \in 1..k : SlotOf(mon[m].base + i, mon[m].cap) = s}
  <2>1. CASE hits = {}
    BY <2>1 DEF TypeOK
  <2>2. CASE hits # {}
    <3>1. hits \in SUBSET (0..k) /\ hits \subseteq 1..k
      OBVIOUS
    <3>2. Max(hits) \in 1..k
      <4> HIDE DEF hits
      <4> QED
        BY <2>2, <3>1, GreatestIs
    <3>3. Max(hits) \in 1..Len(mon[m].events)
      BY <3>2, <1>0
    <3>4. Entry(m, Max(hits)) \in Entries
      <4> HIDE DEF hits
      <4> QED
        BY <3>3, EntryType
    <3> QED
      BY <2>2, <3>4
  <2> QED
    BY <2>1, <2>2
<1>2. \A i \in 1..k : i \in 1..Len(mon[m].events)
  BY <1>0
<1>3. Recorded(m, k) \subseteq [seq : Nat, change : Changed]
  BY <1>2, EntryType DEF Recorded
<1> QED
  BY <1>1, <1>3 DEF RingWith

LEMMA InitTyped == Init => Typed
<1> SUFFICES ASSUME Init PROVE Typed
  OBVIOUS
<1>1. NoTree \in Tree /\ NotStarted \in Local
  <2>1. NoTree \in Tree
    BY DEF NoTree, Tree, Versions
  <2> QED
    BY <2>1 DEF NotStarted, Local, Steps
<1>2. index \in [Files -> [content : Versions, last : Nat]]
  BY DEF Init, NoFile, Versions
<1>3. Budget \in [Kinds -> Nat]
  BY MonitorAssumption DEF Budget, Kinds
<1>4. Opened
  BY DEF Init, Opened, InOrder, NotStarted
<1> QED
  BY <1>1, <1>2, <1>3, <1>4 DEF Init, Typed, TypeOK

LEMMA SpendType ==
  ASSUME TypeOK, NEW kind \in Kinds, Spend(kind)
  PROVE  budget' \in [Kinds -> Nat]
BY DEF TypeOK, Spend

LEMMA MonStep ==
  ASSUME Typed, NEW m \in Monitors, NEW r \in Local, InOrder(r), mon' = [mon EXCEPT ![m] = r]
  PROVE  mon' \in [Monitors -> Local] /\ Opened'
<1>1. mon' \in [Monitors -> Local]
  BY DEF Typed, TypeOK
<1>2. \A n \in Monitors : mon'[n] = IF n = m THEN r ELSE mon[n]
  BY DEF Typed, TypeOK
<1>3. \A n \in Monitors : InOrder(mon'[n])
  BY <1>2 DEF Typed, Opened
<1> QED
  BY <1>1, <1>3 DEF Opened, InOrder

\* What leaves the databases alone only has to keep its own state in order.
LEMMA LocalStep ==
  ASSUME Typed, NEW m \in Monitors, UNCHANGED <<stored, disk>>, budget' \in [Kinds -> Nat],
         UNCHANGED <<hist, finished>>, known' \in Tree,
         NEW r \in Local, InOrder(r), mon' = [mon EXCEPT ![m] = r]
  PROVE  Typed'
<1>1. mon' \in [Monitors -> Local] /\ Opened'
  BY MonStep
<1> QED
  BY <1>1 DEF Typed, TypeOK, stored

LEMMA EditTyped ==
  ASSUME Typed, NEW f \in Files, Edit(f)
  PROVE  Typed'
<1>1. budget' \in [Kinds -> Nat]
  BY SpendType DEF Typed, Edit, Kinds
<1>2. disk' \in Tree
  BY DEF Typed, TypeOK, Edit, Tree, Versions
<1> QED
  BY <1>1, <1>2 DEF Typed, TypeOK, Opened, InOrder, Edit, stored, history

LEMMA ScannerTyped ==
  ASSUME Typed, NEW m \in Monitors,
         ReadFile(m) \/ ReadFileFails(m) \/ Scan(m) \/ Compare(m)
  PROVE  Typed'
<1> USE DEF At, history
<1>0. /\ mon[m] \in Local /\ InOrder(mon[m]) /\ disk \in Tree /\ known \in Tree
      /\ budget \in [Kinds -> Nat] /\ seq \in Nat /\ lastBatch \in Nat
      /\ NoTree \in Tree /\ NotStarted \in Local /\ Between(m) \in Local
      /\ Len(mon[m].events) \in Nat
  BY TypedFacts
<1>1. CASE ReadFile(m)
  <2>1. PICK f \in mon[m].todo :
          mon' = [mon EXCEPT ![m].fresh[f] = disk[f], ![m].todo = @ \ {f}]
    BY <1>1 DEF ReadFile
  <2> DEFINE r == [mon[m] EXCEPT !.fresh[f] = disk[f], !.todo = @ \ {f}]
  <2>2. r \in Local /\ InOrder(r)
    BY <1>0, <1>1 DEF ReadFile, Typed, Opened, InOrder, Local, Steps, Tree, Versions
  <2>3. mon' = [mon EXCEPT ![m] = r]
    BY <2>1, <1>1 DEF ReadFile
  <2>4. UNCHANGED <<disk, stored, hist, finished>> /\ known' \in Tree
    BY <1>0, <1>1 DEF ReadFile
  <2>5. budget' \in [Kinds -> Nat]
    BY <1>0, <1>1 DEF ReadFile
  <2> HIDE DEF r
  <2> QED
    BY <2>2, <2>3, <2>4, <2>5, LocalStep
<1>2. CASE ReadFileFails(m)
  <2>1. PICK f \in mon[m].todo :
          mon' = [mon EXCEPT ![m].fresh[f] = Absent, ![m].todo = @ \ {f}]
    BY <1>2 DEF ReadFileFails
  <2> DEFINE r == [mon[m] EXCEPT !.fresh[f] = Absent, !.todo = @ \ {f}]
  <2>2. r \in Local /\ InOrder(r)
    BY <1>0, <1>2 DEF ReadFileFails, Typed, Opened, InOrder, Local, Steps, Tree, Versions
  <2>3. mon' = [mon EXCEPT ![m] = r]
    BY <2>1, <1>2 DEF ReadFileFails
  <2>4. UNCHANGED <<disk, stored, hist, finished>> /\ known' \in Tree
    BY <1>0, <1>2 DEF ReadFileFails
  <2>5. budget' \in [Kinds -> Nat]
    BY <1>0, <1>2, SpendType DEF Typed, Kinds, ReadFileFails
  <2> HIDE DEF r
  <2> QED
    BY <2>2, <2>3, <2>4, <2>5, LocalStep
<1>3. CASE Scan(m)
  <2> DEFINE r == [mon[m] EXCEPT !.pc = "read", !.todo = Files]
  <2>1. r \in Local /\ InOrder(r)
    BY <1>0, <1>3 DEF Scan, Typed, Opened, InOrder, Local, Steps
  <2>2. mon' = [mon EXCEPT ![m] = r]
    BY <1>3 DEF Scan
  <2>3. UNCHANGED <<disk, stored, hist, finished>> /\ known' \in Tree
    BY <1>0, <1>3 DEF Scan
  <2>4. budget' \in [Kinds -> Nat]
    BY <1>0, <1>3 DEF Scan
  <2> HIDE DEF r
  <2> QED
    BY <2>1, <2>2, <2>3, <2>4, LocalStep
<1>4. CASE Compare(m)
  <2> DEFINE evs == Changes(mon[m].snap, mon[m].fresh)
             kept == [mon[m] EXCEPT !.snap = mon[m].fresh, !.fresh = NoTree]
             r == IF evs = <<>> THEN [kept EXCEPT !.pc = "idle", !.first = FALSE]
                  ELSE [kept EXCEPT !.pc = "batch", !.events = evs]
  <2>1. evs \in Seq(Changed)
    BY <1>0, ChangesType DEF Local
  <2>2. kept \in Local /\ kept.cap \in Capacities
    BY <1>0, <1>4 DEF Compare, InOrder, Local
  <2>3. r \in Local /\ InOrder(r)
    <3> HIDE DEF kept, evs
    <3> QED
      BY <2>1, <2>2 DEF InOrder, Local, Steps
  <2>4. mon' = [mon EXCEPT ![m] = r]
    BY <1>4 DEF Compare, NewSnapshot, Typed, TypeOK
  <2>5. UNCHANGED <<disk, stored, hist, finished>> /\ known' \in Tree /\ budget' \in [Kinds -> Nat]
    BY <1>0, <1>4 DEF Compare
  <2> HIDE DEF r
  <2> QED
    BY <2>3, <2>4, <2>5, LocalStep
<1> QED
  BY <1>1, <1>2, <1>3, <1>4

LEMMA StartTyped ==
  ASSUME Typed, NEW m \in Monitors,
         Open(m) \/ Adopt(m) \/ Seed(m) \/ Seeded(m) \/ Stop(m) \/ Crash(m)
  PROVE  Typed'
<1> USE DEF At, history
<1>0. /\ mon[m] \in Local /\ InOrder(mon[m]) /\ disk \in Tree /\ known \in Tree
      /\ budget \in [Kinds -> Nat] /\ seq \in Nat /\ lastBatch \in Nat
      /\ NoTree \in Tree /\ NotStarted \in Local /\ Between(m) \in Local
      /\ Len(mon[m].events) \in Nat
  BY TypedFacts
<1>1. CASE Open(m)
  <2>1. PICK c \in Capacities :
          mon' = [mon EXCEPT ![m] = [NotStarted EXCEPT
                    !.pc = "read", !.cap = c, !.snap = Persisted, !.todo = Files]]
    BY <1>1 DEF Open
  <2> DEFINE r == [NotStarted EXCEPT !.pc = "read", !.cap = c, !.snap = Persisted, !.todo = Files]
  <2>2. Persisted \in Tree
    BY DEF Persisted, Tree, Typed, TypeOK
  <2>3. r \in Local /\ InOrder(r)
    <3> HIDE DEF NotStarted
    <3> QED
      BY <1>0, <2>2 DEF Local, Steps, InOrder
  <2>4. mon' = [mon EXCEPT ![m] = r]
    BY <2>1
  <2>5. UNCHANGED <<disk, stored, budget, history>>
    BY <1>1 DEF Open
  <2> HIDE DEF r
  <2> QED
    BY <1>0, <2>3, <2>4, <2>5, LocalStep
<1>2. CASE Adopt(m)
  <2> DEFINE r == [mon[m] EXCEPT !.pc = "seed", !.snap = mon[m].fresh, !.fresh = NoTree,
                                 !.todo = {f \in Files : mon[m].fresh[f] # Absent}]
  <2>1. r \in Local /\ InOrder(r)
    BY <1>0, <1>2 DEF Adopt, Typed, Opened, InOrder, Local, Steps
  <2>2. mon' = [mon EXCEPT ![m] = r]
    BY <1>2 DEF Adopt
  <2>0. mon[m].fresh \in Tree
    BY <1>0 DEF Local
  <2>3. UNCHANGED <<disk, stored, hist, finished>> /\ known' \in Tree
    BY <1>0, <2>0, <1>2 DEF Adopt
  <2>4. budget' \in [Kinds -> Nat]
    BY <1>0, <1>2 DEF Adopt
  <2> HIDE DEF r
  <2> QED
    BY <2>1, <2>2, <2>3, <2>4, LocalStep
<1>3. CASE Seed(m)
  <2>1. PICK f \in mon[m].todo :
          /\ index' = [index EXCEPT ![f] = [content |-> mon[m].snap[f], last |-> 0]]
          /\ mon' = [mon EXCEPT ![m].todo = @ \ {f}]
    BY <1>3 DEF Seed
  <2> DEFINE r == [mon[m] EXCEPT !.todo = @ \ {f}]
  <2>2. r \in Local /\ InOrder(r)
    BY <1>0, <1>3 DEF Seed, InOrder, Local
  <2>3. mon' = [mon EXCEPT ![m] = r]
    BY <2>1
  <2>4. mon' \in [Monitors -> Local] /\ Opened'
    <3> HIDE DEF r
    <3> QED
      BY <2>2, <2>3, MonStep
  <2>5. index' \in [Files -> [content : Versions, last : Nat]]
    BY <1>0, <2>1 DEF Typed, TypeOK, Local, Tree
  <2> QED
    BY <1>3, <2>4, <2>5 DEF Seed, Typed, TypeOK
<1>4. CASE Seeded(m)
  <2>1. InOrder(Between(m))
    BY <1>0, <1>4 DEF Seeded, Between, NotStarted, InOrder
  <2> QED
    BY <1>0, <1>4, <2>1, LocalStep DEF Seeded
<1>5. CASE Stop(m)
  <2>1. InOrder(NotStarted)
    BY DEF NotStarted, InOrder
  <2>2. budget' \in [Kinds -> Nat]
    BY <1>5, SpendType DEF Stop, Typed, Kinds
  <2> QED
    BY <1>0, <1>5, <2>1, <2>2, LocalStep DEF Stop
<1>6. CASE Crash(m)
  <2>1. InOrder(NotStarted)
    BY DEF NotStarted, InOrder
  <2>2. budget' \in [Kinds -> Nat]
    BY <1>6, SpendType DEF Crash, Typed, Kinds
  <2> QED
    BY <1>0, <1>6, <2>1, <2>2, LocalStep DEF Crash
<1> QED
  BY <1>1, <1>2, <1>3, <1>4, <1>5, <1>6

LEMMA RecordTyped ==
  ASSUME Typed, NEW m \in Monitors,
         BatchRead(m) \/ BatchWrite(m) \/ RecordRead(m) \/ RecordWrite(m)
  PROVE  Typed'
<1> USE DEF At, history
<1>0. /\ mon[m] \in Local /\ InOrder(mon[m]) /\ disk \in Tree /\ known \in Tree
      /\ budget \in [Kinds -> Nat] /\ seq \in Nat /\ lastBatch \in Nat
      /\ NoTree \in Tree /\ NotStarted \in Local /\ Between(m) \in Local
      /\ Len(mon[m].events) \in Nat
  BY TypedFacts
<1>1. CASE BatchRead(m)
  <2> DEFINE r == [mon[m] EXCEPT !.pc = "batching", !.batch = lastBatch + 1]
  <2>1. lastBatch + 1 \in Nat
    BY <1>0
  <2>2. r \in Local /\ InOrder(r)
    BY <1>0, <2>1, <1>1 DEF BatchRead, Typed, Opened, InOrder, Local, Steps
  <2>3. mon' = [mon EXCEPT ![m] = r]
    BY <1>1 DEF BatchRead
  <2>4. UNCHANGED <<disk, stored, hist, finished>> /\ known' \in Tree
    BY <1>0, <1>1 DEF BatchRead
  <2>5. budget' \in [Kinds -> Nat]
    BY <1>0, <1>1 DEF BatchRead
  <2> HIDE DEF r
  <2> QED
    BY <2>2, <2>3, <2>4, <2>5, LocalStep
<1>2. CASE BatchWrite(m)
  <2> DEFINE r == [mon[m] EXCEPT !.pc = "seq"]
  <2>1. r \in Local /\ InOrder(r)
    BY <1>0, <1>2 DEF BatchWrite, InOrder, Local, Steps
  <2>2. mon' = [mon EXCEPT ![m] = r]
    BY <1>2 DEF BatchWrite
  <2>3. mon' \in [Monitors -> Local] /\ Opened'
    <3> HIDE DEF r
    <3> QED
      BY <2>1, <2>2, MonStep
  <2>4. lastBatch' \in Nat
    BY <1>0, <1>2 DEF BatchWrite, Local
  <2> QED
    BY <1>2, <2>3, <2>4 DEF BatchWrite, Typed, TypeOK
<1>3. CASE RecordRead(m)
  <2> DEFINE r == [mon[m] EXCEPT !.pc = "record", !.base = seq]
  <2>1. r \in Local /\ InOrder(r)
    BY <1>0, <1>3 DEF RecordRead, Typed, Opened, InOrder, Local, Steps
  <2>2. mon' = [mon EXCEPT ![m] = r]
    BY <1>3 DEF RecordRead
  <2>3. UNCHANGED <<disk, stored, hist, finished>> /\ known' \in Tree
    BY <1>0, <1>3 DEF RecordRead
  <2>4. budget' \in [Kinds -> Nat]
    BY <1>0, <1>3 DEF RecordRead
  <2> HIDE DEF r
  <2> QED
    BY <2>1, <2>2, <2>3, <2>4, LocalStep
<1>4. CASE RecordWrite(m)
  <2> DEFINE r == [mon[m] EXCEPT !.pc = "index", !.at = 1]
  <2>0. mon[m].cap \in Capacities
    BY <1>0, <1>4 DEF RecordWrite, InOrder
  <2>1. r \in Local /\ InOrder(r)
    <3>1. r \in Local
      BY <1>0 DEF Local, Steps
    <3>2. r.pc = "index" /\ r.at = 1 /\ r.cap = mon[m].cap
      BY <1>0 DEF Local
    <3> QED
      BY <2>0, <3>1, <3>2 DEF InOrder
  <2>2. mon' = [mon EXCEPT ![m] = r]
    BY <1>4 DEF RecordWrite
  <2>3. mon' \in [Monitors -> Local] /\ Opened'
    <3> HIDE DEF r
    <3> QED
      BY <2>1, <2>2, MonStep
  <2>4. /\ RingWith(m, Len(mon[m].events)) \in [Slots -> Entries \cup {NoEntry}]
        /\ Recorded(m, Len(mon[m].events)) \subseteq [seq : Nat, change : Changed]
    BY <1>0, RingWithType DEF Typed
  <2>5. /\ ring' \in [Slots -> Entries \cup {NoEntry}]
        /\ hist' \subseteq [seq : Nat, change : Changed]
    BY <1>4, <2>4 DEF RecordWrite, Typed, TypeOK
  <2>6. seq' \in Nat
    BY SMTT(30), <1>0, <1>4 DEF RecordWrite, Counter, Local
  <2>7. known' \in Tree
    <3>1. mon[m].events \in Seq(Changed)
      BY <1>0 DEF Local
    <3>2. Follow(known, mon[m].events) \in Tree
      BY <1>0, <3>1, FollowType
    <3> QED
      BY <1>4, <3>2 DEF RecordWrite
  <2> QED
    BY <1>4, <2>3, <2>5, <2>6, <2>7 DEF RecordWrite, Typed, TypeOK
<1> QED
  BY <1>1, <1>2, <1>3, <1>4

LEMMA ProcessTyped ==
  ASSUME Typed, NEW m \in Monitors,
         Index(m) \/ Indexed(m) \/ Analyze(m) \/ Archive(m) \/ ArchiveFails(m)
  PROVE  Typed'
<1> USE DEF At, history
<1>0. /\ mon[m] \in Local /\ InOrder(mon[m]) /\ disk \in Tree /\ known \in Tree
      /\ budget \in [Kinds -> Nat] /\ seq \in Nat /\ lastBatch \in Nat
      /\ NoTree \in Tree /\ NotStarted \in Local /\ Between(m) \in Local
      /\ Len(mon[m].events) \in Nat
  BY TypedFacts
<1>1. CASE Index(m)
  <2> DEFINE r == [mon[m] EXCEPT !.at = @ + 1]
  <2>0. mon[m].at \in Nat \ {0} /\ mon[m].base \in Nat /\ mon[m].cap \in Capacities
    BY <1>0, <1>1 DEF Index, InOrder, Local
  <2>1. r \in Local /\ InOrder(r)
    <3>1. mon[m].at + 1 \in Nat /\ mon[m].at + 1 # 0
      BY <2>0
    <3>2. r \in Local
      BY <1>0, <3>1 DEF Local
    <3>3. r.at = mon[m].at + 1 /\ r.cap = mon[m].cap
      BY <1>0 DEF Local
    <3> QED
      BY <2>0, <3>1, <3>2, <3>3 DEF InOrder
  <2>2. mon' = [mon EXCEPT ![m] = r]
    BY <1>1 DEF Index
  <2>3. mon' \in [Monitors -> Local] /\ Opened'
    <3> HIDE DEF r
    <3> QED
      BY <2>1, <2>2, MonStep
  <2>4. mon[m].at \in 1..Len(mon[m].events)
    BY <1>0, <1>1, <2>0 DEF Index
  <2>5. mon[m].events[mon[m].at] \in Changed
    BY <1>0, <2>4, ElementOfSeq DEF Local
  <2>6. RowFor(m, mon[m].events[mon[m].at]) \in [content : Versions, last : Nat]
    <3> DEFINE e == mon[m].events[mon[m].at]
    <3>1. e.new \in Versions /\ mon[m].base + mon[m].at \in Nat
      BY <2>0, <2>5 DEF Changed
    <3>2. NoFile \in [content : Versions, last : Nat]
      BY DEF NoFile, Versions
    <3> HIDE DEF e
    <3> QED
      BY <3>1, <3>2 DEF RowFor, e
  <2>7. index' \in [Files -> [content : Versions, last : Nat]]
    BY <1>1, <2>5, <2>6 DEF Index, Typed, TypeOK, Changed
  <2> QED
    BY <1>1, <2>3, <2>7 DEF Index, Typed, TypeOK
<1>2. CASE Indexed(m)
  <2> DEFINE r == [mon[m] EXCEPT !.pc = "analyze"]
  <2>1. r \in Local /\ InOrder(r)
    BY <1>0, <1>2 DEF Indexed, Typed, Opened, InOrder, Local, Steps
  <2>2. mon' = [mon EXCEPT ![m] = r]
    BY <1>2 DEF Indexed
  <2>3. UNCHANGED <<disk, stored, hist, finished>> /\ known' \in Tree
    BY <1>0, <1>2 DEF Indexed
  <2>4. budget' \in [Kinds -> Nat]
    BY <1>0, <1>2 DEF Indexed
  <2> HIDE DEF r
  <2> QED
    BY <2>1, <2>2, <2>3, <2>4, LocalStep
<1>3. CASE Analyze(m)
  <2>0. {i \in DOMAIN mon[m].events : mon[m].events[i].new # Absent} \subseteq Nat \ {0}
    <3>1. mon[m].events \in Seq(Changed)
      BY <1>0 DEF Local
    <3>2. DOMAIN mon[m].events = 1..Len(mon[m].events)
      BY <3>1
    <3> QED
      BY ONLY <1>0, <3>2
  <2>1. PICK done \in SUBSET (Nat \ {0}) :
          ring' = Stamp(m, done) /\ mon' = [mon EXCEPT ![m].pc = "archive", ![m].done = done]
    BY <1>3, <2>0 DEF Analyze
  <2> DEFINE r == [mon[m] EXCEPT !.pc = "archive", !.done = done]
  <2>2. r \in Local /\ InOrder(r)
    BY <1>0, <1>3 DEF Analyze, InOrder, Local, Steps
  <2>3. mon' = [mon EXCEPT ![m] = r]
    BY <2>1
  <2>4. mon' \in [Monitors -> Local] /\ Opened'
    <3> HIDE DEF r
    <3> QED
      BY <2>2, <2>3, MonStep
  <2>5. \A i \in done : mon[m].base + i # 0
    <3>1. mon[m].base \in Nat
      BY <1>0 DEF Local
    <3>2. ASSUME NEW b \in Nat, NEW i \in Nat \ {0} PROVE b + i # 0
      OBVIOUS
    <3> QED
      BY <3>1, <3>2
  <2>6. ASSUME NEW s \in Slots, ring[s].seq # 0
        PROVE  [ring[s] EXCEPT !.stamped = TRUE] \in Entries
    <3>1. ring[s] # NoEntry
      BY <2>6 DEF NoEntry
    <3>2. ring[s] \in Entries
      BY <3>1 DEF Typed, TypeOK
    <3> QED
      BY <3>2 DEF Entries
  <2>7. ring' \in [Slots -> Entries \cup {NoEntry}]
    BY <2>1, <2>5, <2>6 DEF Stamp, Typed, TypeOK
  <2> QED
    BY <1>3, <2>4, <2>7 DEF Analyze, Typed, TypeOK
<1>4. CASE Archive(m)
  <2> DEFINE r == [mon[m] EXCEPT !.pc = "finish"]
  <2>1. r \in Local /\ InOrder(r)
    BY <1>0, <1>4 DEF Archive, InOrder, Local, Steps
  <2>2. mon' = [mon EXCEPT ![m] = r]
    BY <1>4 DEF Archive
  <2>3. mon' \in [Monitors -> Local] /\ Opened'
    <3> HIDE DEF r
    <3> QED
      BY <2>1, <2>2, MonStep
  <2>4. DOMAIN mon[m].events = 1..Len(mon[m].events)
    BY <1>0 DEF Local
  <2>5. log' \subseteq Entries
    BY <1>4, <2>4, EntryType DEF Archive, Typed, TypeOK
  <2> QED
    BY <1>4, <2>3, <2>5 DEF Archive, Typed, TypeOK
<1>5. CASE ArchiveFails(m)
  <2> DEFINE r == [mon[m] EXCEPT !.pc = "finish"]
  <2>1. r \in Local /\ InOrder(r)
    BY <1>0, <1>5 DEF ArchiveFails, Typed, Opened, InOrder, Local, Steps
  <2>2. mon' = [mon EXCEPT ![m] = r]
    BY <1>5 DEF ArchiveFails
  <2>3. UNCHANGED <<disk, stored, hist, finished>> /\ known' \in Tree
    BY <1>0, <1>5 DEF ArchiveFails
  <2>4. budget' \in [Kinds -> Nat]
    BY <1>0, <1>5, SpendType DEF Typed, Kinds, ArchiveFails
  <2> HIDE DEF r
  <2> QED
    BY <2>1, <2>2, <2>3, <2>4, LocalStep
<1> QED
  BY <1>1, <1>2, <1>3, <1>4, <1>5

LEMMA EndTyped ==
  ASSUME Typed, NEW m \in Monitors,
         Finish(m) \/ Raise(m)
  PROVE  Typed'
<1> USE DEF At, history
<1>0. /\ mon[m] \in Local /\ InOrder(mon[m]) /\ disk \in Tree /\ known \in Tree
      /\ budget \in [Kinds -> Nat] /\ seq \in Nat /\ lastBatch \in Nat
      /\ NoTree \in Tree /\ NotStarted \in Local /\ Between(m) \in Local
      /\ Len(mon[m].events) \in Nat
  BY TypedFacts
<1>1. CASE Finish(m)
  <2>1. InOrder(Between(m))
    BY <1>0, <1>1 DEF Finish, Between, NotStarted, InOrder
  <2>2. mon' \in [Monitors -> Local] /\ Opened'
    BY <1>0, <1>1, <2>1, MonStep DEF Finish
  <2>3. mon[m].cap \in Capacities /\ mon[m].batch \in Nat
    BY <1>0, <1>1 DEF Finish, InOrder, Local
  <2>4. SlotOf(mon[m].batch, mon[m].cap) \in Slots
    <3>1. MaxCapacity \in Nat /\ Capacities \subseteq 1..MaxCapacity
      BY ZenonT(10), MonitorAssumption
    <3>2. mon[m].cap \in Nat \ {0} /\ mon[m].cap <= MaxCapacity /\ mon[m].batch - 1 \in Int
      <4>1. mon[m].cap \in 1..MaxCapacity
        BY <2>3, <3>1
      <4>2. mon[m].batch - 1 \in Int
        BY <2>3
      <4> QED
        BY <3>1, <4>1, <4>2
    <3>3. (mon[m].batch - 1) % mon[m].cap \in 0..(mon[m].cap - 1)
      BY <3>2, Remainder
    <3> QED
      BY <3>1, <3>2, <3>3 DEF SlotOf, Slots
  <2>5. batches' \subseteq [slot : Slots, batch : Nat] /\ finished' \subseteq Nat
    BY <1>1, <2>3, <2>4 DEF Finish, RowsLeft, Typed, TypeOK
  <2> QED
    BY <1>1, <2>2, <2>5 DEF Finish, Typed, TypeOK
<1>2. CASE Raise(m)
  <2>1. PICK after \in {NotStarted, Between(m)} : mon' = [mon EXCEPT ![m] = after]
    BY <1>2 DEF Raise
  <2>2. InOrder(NotStarted) /\ InOrder(Between(m))
    BY <1>0, <1>2 DEF Raise, Between, NotStarted, InOrder
  <2>3. mon' \in [Monitors -> Local] /\ Opened'
    BY <1>0, <2>1, <2>2, MonStep
  <2>4. PICK k \in IF mon[m].pc = "record" /\ ~mon[m].first
                   THEN 0..(Len(mon[m].events) - 1) ELSE {0} :
          ring' = RingWith(m, k) /\ hist' = hist \cup Recorded(m, k)
    BY <1>2 DEF Raise
  <2>5. k \in Nat /\ k <= Len(mon[m].events)
    BY <1>0, <2>4
  <2>6. /\ RingWith(m, k) \in [Slots -> Entries \cup {NoEntry}]
        /\ Recorded(m, k) \subseteq [seq : Nat, change : Changed]
    BY <2>5, RingWithType DEF Typed
  <2>7. /\ ring' \in [Slots -> Entries \cup {NoEntry}]
        /\ hist' \subseteq [seq : Nat, change : Changed]
    BY <2>4, <2>6 DEF Typed, TypeOK
  <2>8. budget' \in [Kinds -> Nat]
    BY <1>2, SpendType DEF Raise, Typed, Kinds
  <2>9. batches' \subseteq batches
    BY <1>2 DEF Raise
  <2>10. UNCHANGED <<disk, index, seq, lastBatch, log, known, finished>>
    BY <1>2 DEF Raise
  <2> QED
    BY <2>3, <2>7, <2>8, <2>9, <2>10 DEF Typed, TypeOK
<1> QED
  BY <1>1, <1>2

LEMMA StepTyped == Typed /\ [Next]_vars => Typed'
<1> SUFFICES ASSUME Typed, [Next]_vars PROVE Typed'
  OBVIOUS
<1>1. CASE \E f \in Files : Edit(f)
  BY <1>1, EditTyped
<1>2. ASSUME NEW m \in Monitors, Cycle(m) \/ Mishap(m) PROVE Typed'
  BY <1>2, ScannerTyped, StartTyped, RecordTyped, ProcessTyped, EndTyped DEF Cycle, Mishap
<1>3. CASE UNCHANGED vars
  BY <1>3 DEF vars, stored, history, Typed, TypeOK, Opened, InOrder
<1> QED
  BY <1>1, <1>2, <1>3 DEF Next

\* Every variable keeps its type, whatever the repository, the monitors and the bounds.
THEOREM TypeInvariance == Spec => []Typed
BY InitTyped, StepTyped, PTL DEF Spec

\* The type invariant alone.
THEOREM TypesKept == Spec => []TypeOK
<1>1. Typed => TypeOK
  BY DEF Typed
<1> QED
  BY TypeInvariance, <1>1, PTL

-----------------------------------------------------------------------------
(* The index and the ring                                                  *)

\* What a monitor is about to index is in the ring's history.
Written(m) == At(m, "index") => Recorded(m, Len(mon[m].events)) \subseteq hist

IndexInv == Typed /\ IndexNamesItsEvent /\ \A m \in Monitors : Written(m)

\* History is never taken back.
LEMMA HistGrows == [Next]_vars => hist \subseteq hist'
<1> SUFFICES ASSUME [Next]_vars PROVE hist \subseteq hist'
  OBVIOUS
<1>1. ASSUME NEW f \in Files, Edit(f) PROVE hist \subseteq hist'
  BY <1>1 DEF Edit, history
<1>2. ASSUME NEW m \in Monitors, Cycle(m) PROVE hist \subseteq hist'
  BY <1>2 DEF Cycle, Open, ReadFile, Adopt, Seed, Seeded, Scan, Compare, BatchRead, BatchWrite,
              RecordRead, RecordWrite, Index, Indexed, Analyze, Archive, Finish, history
<1>3. ASSUME NEW m \in Monitors, Mishap(m) PROVE hist \subseteq hist'
  BY <1>3 DEF Mishap, ReadFileFails, ArchiveFails, Raise, Stop, Crash, history
<1>4. CASE UNCHANGED vars
  BY <1>4 DEF vars, history
<1> QED
  BY <1>1, <1>2, <1>3, <1>4 DEF Next

\* Only RecordWrite and Index leave a monitor indexing that was not so before,
\* and only Seed and Index write the index.
LEMMA WhoIndexes ==
  ASSUME Typed, NEW m \in Monitors, Cycle(m) \/ Mishap(m), ~RecordWrite(m), ~Index(m)
  PROVE  /\ \A n \in Monitors : mon'[n].pc = "index" => mon'[n] = mon[n]
         /\ Seed(m) \/ UNCHANGED index
<1> USE DEF At, stored, history
<1>0. \A n \in Monitors : mon[n] \in Local
  BY DEF Typed, TypeOK
<1>a. NotStarted.pc = "down" /\ Between(m).pc = "idle"
  BY DEF NotStarted, Between
<1>b. ASSUME NEW r, r.pc # "index", mon' = [mon EXCEPT ![m] = r]
      PROVE  \A n \in Monitors : mon'[n].pc = "index" => mon'[n] = mon[n]
  BY <1>b DEF Typed, TypeOK
<1>1. CASE Open(m)
  <2>1. PICK c \in Capacities :
          mon' = [mon EXCEPT ![m] = [NotStarted EXCEPT
                    !.pc = "read", !.cap = c, !.snap = Persisted, !.todo = Files]]
    BY <1>1 DEF Open
  <2> DEFINE r == [NotStarted EXCEPT !.pc = "read", !.cap = c, !.snap = Persisted, !.todo = Files]
  <2>2. r.pc # "index"
    BY DEF NotStarted
  <2>3. mon' = [mon EXCEPT ![m] = r]
    BY <2>1
  <2> HIDE DEF r
  <2> QED
    BY <1>1, <1>b, <2>2, <2>3 DEF Open
<1>2. CASE ReadFile(m) \/ Adopt(m) \/ Seed(m)
  <2>1. CASE ReadFile(m)
    BY <1>0, <2>1 DEF Typed, TypeOK, Local, ReadFile
  <2>2. CASE Adopt(m)
    <3> DEFINE r == [mon[m] EXCEPT !.pc = "seed", !.snap = mon[m].fresh, !.fresh = NoTree,
                                   !.todo = {f \in Files : mon[m].fresh[f] # Absent}]
    <3>1. r.pc # "index"
      BY <1>0 DEF Local
    <3>2. mon' = [mon EXCEPT ![m] = r] /\ UNCHANGED index
      BY <2>2 DEF Adopt
    <3> HIDE DEF r
    <3> QED
      BY <1>b, <3>1, <3>2
  <2>3. CASE Seed(m)
    <3>1. PICK f \in Files : mon' = [mon EXCEPT ![m] = [mon[m] EXCEPT !.todo = @ \ {f}]]
      BY <1>0, <2>3 DEF Seed, Local
    <3> DEFINE r == [mon[m] EXCEPT !.todo = @ \ {f}]
    <3>2. r.pc # "index"
      BY <1>0, <2>3 DEF Seed, Local
    <3>3. mon' = [mon EXCEPT ![m] = r]
      BY <3>1
    <3> HIDE DEF r
    <3> QED
      BY <1>b, <2>3, <3>2, <3>3
  <2> QED
    BY <1>2, <2>1, <2>2, <2>3
<1>3. CASE Seeded(m)
  BY <1>3, <1>a, <1>b DEF Seeded
<1>4. CASE Scan(m) \/ BatchRead(m) \/ BatchWrite(m) \/ RecordRead(m)
  BY <1>0, <1>4 DEF Typed, TypeOK, Local, Scan, BatchRead, BatchWrite, RecordRead
<1>5. CASE Compare(m)
  BY <1>0, <1>5 DEF Typed, TypeOK, Local, Compare
<1>6. CASE Indexed(m) \/ Analyze(m) \/ Archive(m)
  BY <1>0, <1>6 DEF Typed, TypeOK, Local, Indexed, Analyze, Archive
<1>7. CASE Finish(m)
  BY <1>7, <1>a, <1>b DEF Finish
<1>8. CASE ReadFileFails(m) \/ ArchiveFails(m)
  <2>1. CASE ReadFileFails(m)
    BY SMTT(30), <1>0, <2>1 DEF Typed, TypeOK, Local, ReadFileFails
  <2>2. CASE ArchiveFails(m)
    BY <1>0, <2>2 DEF Typed, TypeOK, Local, ArchiveFails
  <2> QED
    BY <1>8, <2>1, <2>2
<1>9. CASE Stop(m) \/ Crash(m)
  BY <1>9, <1>a, <1>b DEF Stop, Crash
<1>10. CASE Raise(m)
  <2>1. PICK after \in {NotStarted, Between(m)} : mon' = [mon EXCEPT ![m] = after]
    BY <1>10 DEF Raise
  <2>2. after.pc # "index"
    BY <2>1, <1>a
  <2> QED
    BY <1>10, <1>b, <2>1, <2>2 DEF Raise
<1> QED
  BY <1>1, <1>2, <1>3, <1>4, <1>5, <1>6, <1>7, <1>8, <1>9, <1>10 DEF Cycle, Mishap

LEMMA IndexKept ==
  ASSUME IndexNamesItsEvent, UNCHANGED index, hist \subseteq hist'
  PROVE  IndexNamesItsEvent'
BY DEF IndexNamesItsEvent

LEMMA WrittenKept ==
  ASSUME NEW m \in Monitors, Written(m), mon'[m] = mon[m], hist \subseteq hist'
  PROVE  Written(m)'
BY DEF Written, Recorded, At

LEMMA IndexStep ==
  ASSUME IndexInv, NEW m \in Monitors, Index(m), hist \subseteq hist', Typed'
  PROVE  IndexInv'
<1> DEFINE at == mon[m].at
           e == mon[m].events[at]
<1>1. /\ mon[m].events \in Seq(Changed) /\ at \in Nat \ {0} /\ mon[m].base \in Nat
      /\ at \in 1..Len(mon[m].events)
  BY DEF IndexInv, Typed, TypeOK, Opened, InOrder, Local, Index, At
<1>2. e \in Changed
  BY <1>1, ElementOfSeq
<1>3. [seq |-> mon[m].base + at, change |-> e] \in hist
  BY <1>1 DEF IndexInv, Written, Recorded, Index
<1>4. index' = [index EXCEPT ![e.file] = RowFor(m, e)]
  BY DEF Index
<1>5. IndexNamesItsEvent'
  <2> SUFFICES ASSUME NEW f \in Files, index'[f].last # 0
               PROVE  \E d \in hist' : /\ d.seq = index'[f].last
                                       /\ d.change.file = f /\ d.change.new = index'[f].content
    BY DEF IndexNamesItsEvent
  <2> HIDE DEF at, e
  <2>1. CASE f = e.file
    <3>1. index'[f] = RowFor(m, e)
      BY <1>4, <2>1 DEF IndexInv, Typed, TypeOK
    <3>2. index'[f] = [content |-> e.new, last |-> mon[m].base + at]
      BY <3>1 DEF RowFor, NoFile, at
    <3> QED
      BY <1>3, <2>1, <3>2
  <2>2. CASE f # e.file
    <3>1. index'[f] = index[f]
      BY <1>4, <2>2 DEF IndexInv, Typed, TypeOK
    <3> QED
      BY <3>1 DEF IndexInv, IndexNamesItsEvent
  <2> QED
    BY <2>1, <2>2
<1>6. ASSUME NEW n \in Monitors PROVE Written(n)'
  <2>1. mon'[n].events = mon[n].events /\ mon'[n].base = mon[n].base /\ mon'[n].pc = mon[n].pc
    BY SMTT(30) DEF Index, IndexInv, Typed, TypeOK, Local
  <2> QED
    BY <2>1 DEF IndexInv, Written, Recorded, At
<1> QED
  BY <1>5, <1>6 DEF IndexInv

LEMMA IndexInvStep == IndexInv /\ [Next]_vars => IndexInv'
<1> SUFFICES ASSUME IndexInv, [Next]_vars PROVE IndexInv'
  OBVIOUS
<1>1. hist \subseteq hist' /\ Typed'
  BY HistGrows, StepTyped DEF IndexInv
<1>2. CASE UNCHANGED vars
  BY <1>1, <1>2, IndexKept, WrittenKept DEF IndexInv, vars, stored
<1>3. ASSUME NEW f \in Files, Edit(f) PROVE IndexInv'
  BY <1>1, <1>3, IndexKept, WrittenKept DEF IndexInv, Edit, stored
<1>4. ASSUME NEW m \in Monitors, Index(m) PROVE IndexInv'
  BY <1>1, <1>4, IndexStep
<1>5. ASSUME NEW m \in Monitors, RecordWrite(m) PROVE IndexInv'
  <2>1. IndexNamesItsEvent'
    BY <1>1, <1>5, IndexKept DEF IndexInv, RecordWrite
  <2>2. ASSUME NEW n \in Monitors, n # m PROVE Written(n)'
    <3>1. mon'[n] = mon[n]
      BY <1>5, <2>2 DEF RecordWrite, IndexInv, Typed, TypeOK
    <3> QED
      BY <1>1, <3>1, WrittenKept DEF IndexInv
  <2>3. Written(m)'
    <3>1. mon'[m].events = mon[m].events /\ mon'[m].base = mon[m].base
      BY <1>5 DEF RecordWrite, IndexInv, Typed, TypeOK, Local
    <3> QED
      BY <1>5, <3>1 DEF RecordWrite, Written, Recorded
  <2> QED
    BY <1>1, <2>1, <2>2, <2>3 DEF IndexInv
<1>6. ASSUME NEW m \in Monitors, Cycle(m) \/ Mishap(m), ~RecordWrite(m), ~Index(m)
      PROVE  IndexInv'
  <2>1. /\ \A n \in Monitors : mon'[n].pc = "index" => mon'[n] = mon[n]
        /\ Seed(m) \/ UNCHANGED index
    BY <1>6, WhoIndexes DEF IndexInv
  <2>2. \A n \in Monitors : Written(n)'
    BY <1>1, <2>1, WrittenKept DEF IndexInv, Written, At
  <2>3. CASE Seed(m)
    <3>1. PICK f \in mon[m].todo : index' = [index EXCEPT ![f] = [content |-> mon[m].snap[f], last |-> 0]]
      BY <2>3 DEF Seed
    <3>2. \A g \in Files : index'[g] = index[g] \/ index'[g].last = 0
      BY <3>1 DEF IndexInv, Typed, TypeOK
    <3>3. IndexNamesItsEvent'
      BY <1>1, <3>2 DEF IndexInv, IndexNamesItsEvent
    <3> QED
      BY <1>1, <2>2, <3>3 DEF IndexInv
  <2>4. CASE UNCHANGED index
    BY <1>1, <2>2, <2>4, IndexKept DEF IndexInv
  <2> QED
    BY <2>1, <2>3, <2>4
<1> QED
  BY <1>2, <1>3, <1>4, <1>5, <1>6 DEF Next

\* file_state never points past what the ring has been given, nor at another
\* file's change: any number of monitors, crashes and exceptions.
THEOREM IndexInvariance == Spec => []IndexNamesItsEvent
<1>1. Init => IndexInv
  <2> SUFFICES ASSUME Init PROVE IndexInv
    OBVIOUS
  <2>1. Typed
    BY InitTyped
  <2>2. IndexNamesItsEvent
    BY DEF Init, IndexNamesItsEvent, NoFile
  <2>3. \A m \in Monitors : Written(m)
    BY DEF Init, Written, At, NotStarted
  <2> QED
    BY <2>1, <2>2, <2>3 DEF IndexInv
<1>2. IndexInv => IndexNamesItsEvent
  BY DEF IndexInv
<1> QED
  BY <1>1, <1>2, IndexInvStep, PTL DEF Spec

-----------------------------------------------------------------------------
(* One monitor, one ring depth, no exceptions                              *)

\* Every number given is within the counter.
Numbered == \A e \in hist : e.seq \in 1..seq

\* A row is one of the last c events, in its own slot ...
Placed(c) ==
  \A s \in Slots : ring[s] # NoEntry =>
    /\ Event(ring[s]) \in hist
    /\ SlotOf(ring[s].seq, c) = s
    /\ ring[s].seq > seq - c

\* ... and the last c events have rows.
Kept(c) ==
  \A e \in hist : e.seq > seq - c =>
    ring[SlotOf(e.seq, c)] # NoEntry /\ Event(ring[SlotOf(e.seq, c)]) = e

RingInv(m, c) ==
  /\ Typed
  /\ budget["faults"] = 0
  /\ At(m, "record") => mon[m].base = seq
  /\ Numbered
  /\ SeqNamesOneEvent
  /\ Placed(c)
  /\ Kept(c)

Alone(m, c) == Monitors = {m} /\ Capacities = {c} /\ MaxFaults = 0

LEMMA Depth ==
  ASSUME NEW m, NEW c, Alone(m, c)
  PROVE  c \in Nat \ {0} /\ \A n \in Nat \ {0} : SlotOf(n, c) \in Slots
<1>1. MaxCapacity \in Nat /\ Capacities \subseteq 1..MaxCapacity
  BY ZenonT(10), MonitorAssumption
<1>2. c \in 1..MaxCapacity
  BY <1>1 DEF Alone
<1>3. c \in Nat \ {0} /\ c <= MaxCapacity
  BY <1>1, <1>2
<1>4. ASSUME NEW n \in Nat \ {0} PROVE SlotOf(n, c) \in Slots
  <2>1. (n - 1) % c \in 0..(c - 1)
    BY <1>3, Remainder
  <2> QED
    BY <1>1, <1>3, <2>1 DEF SlotOf, Slots
<1> QED
  BY <1>3, <1>4

\* What the ring promises, from where its rows are.
LEMMA RingInvImplies ==
  ASSUME NEW m, NEW c, Alone(m, c), RingInv(m, c)
  PROVE  RingIsLastEvents /\ SeqNamesOneEvent
<1>1. /\ c \in Nat \ {0} /\ \A n \in Nat \ {0} : SlotOf(n, c) \in Slots
      /\ seq \in Nat
  BY Depth DEF RingInv, Typed, TypeOK
<1>2. mon[m].cap \in {0, c}
  BY DEF RingInv, Typed, TypeOK, Local, Alone
<1>3. ASSUME NEW e \in Rows PROVE Event(e) \in {d \in hist : d.seq > seq - c}
  BY DEF Rows, Event, RingInv, Placed
<1>4. ASSUME NEW d \in hist, d.seq > seq - c PROVE \E e \in Rows : Event(e) = d
  <2>1. d.seq \in Nat \ {0}
    BY <1>1 DEF RingInv, Numbered
  <2>2. SlotOf(d.seq, c) \in Slots
    BY <1>1, <2>1
  <2> QED
    BY <1>4, <2>2 DEF RingInv, Kept, Rows
<1>5. {Event(e) : e \in Rows} = {d \in hist : d.seq > seq - c}
  BY <1>3, <1>4
<1> QED
  BY <1>1, <1>2, <1>5 DEF RingIsLastEvents, RingInv, Alone

\* Where the rows of a batch of n events go, numbers on from the counter.
LEMMA SlotReused ==
  ASSUME NEW c \in Nat \ {0}, NEW i \in Nat \ {0}, NEW j \in Nat \ {0},
         SlotOf(i, c) = SlotOf(j, c), i < j
  PROVE  j >= i + c
<1>1. i - 1 \in Nat /\ j - 1 \in Nat /\ i - 1 < j - 1
  OBVIOUS
<1>2. (j - 1) - (i - 1) >= c
  BY <1>1, SameSlotApart DEF SlotOf
<1> QED
  BY <1>2

LEMMA SlotNext ==
  ASSUME NEW c \in Nat \ {0}, NEW i \in Nat \ {0}
  PROVE  SlotOf(i + c, c) = SlotOf(i, c)
<1>1. i - 1 \in Nat /\ (i + c) - 1 = (i - 1) + c
  OBVIOUS
<1> QED
  BY <1>1, SlotComesAround DEF SlotOf

LEMMA RecordKeepsRing ==
  ASSUME NEW m, NEW c, Alone(m, c), RingInv(m, c), RecordWrite(m), Typed'
  PROVE  RingInv(m, c)'
<1> DEFINE n == Len(mon[m].events)
           Hits(s) == {i \in 1..n : SlotOf(seq + i, c) = s}
           New(i) == [seq |-> seq + i, change |-> mon[m].events[i]]
<1>1. /\ c \in Nat \ {0} /\ \A k \in Nat \ {0} : SlotOf(k, c) \in Slots
      /\ seq \in Nat /\ n \in Nat /\ m \in Monitors
  BY Depth, TypedFacts DEF RingInv, Alone
<1>2. mon[m].base = seq /\ mon[m].cap = c
  BY <1>1, TypedFacts DEF RecordWrite, RingInv, InOrder, Alone, At
<1>3. /\ hist' = hist \cup {New(i) : i \in 1..n}
      /\ seq' = seq + n
      /\ UNCHANGED budget
  BY <1>2 DEF RecordWrite, Recorded, Counter
<1>4. \A s \in Slots : ring'[s] = IF Hits(s) = {} THEN ring[s] ELSE Entry(m, Max(Hits(s)))
  BY <1>2 DEF RecordWrite, RingWith
<1>5. \A i \in 1..n : /\ Event(Entry(m, i)) = New(i) /\ Entry(m, i).seq = seq + i
                      /\ Entry(m, i) # NoEntry
  BY <1>1, <1>2 DEF Event, Entry, NoEntry
<1>6. mon'[m].pc # "record"
  BY <1>1 DEF RecordWrite, RingInv, Typed, TypeOK, Local
<1>7. Numbered'
  BY <1>1, <1>3 DEF Numbered, RingInv
<1>8. SeqNamesOneEvent'
  <2>1. \A e \in hist : e.seq \in 1..seq
    BY DEF RingInv, Numbered
  <2>2. ASSUME NEW d \in hist', NEW e \in hist', d.seq = e.seq PROVE d = e
    <3>1. CASE d \in hist /\ e \in hist
      BY <2>2, <3>1 DEF RingInv, SeqNamesOneEvent
    <3>2. CASE d \notin hist /\ e \notin hist
      <4>1. PICK i \in 1..n, j \in 1..n : d = New(i) /\ e = New(j)
        BY <1>3, <3>2
      <4>2. seq + i = seq + j
        BY <2>2, <4>1
      <4>3. i = j
        BY <1>1, <4>2
      <4> QED
        BY <4>1, <4>3
    <3>3. ASSUME NEW x \in hist, NEW i \in 1..n PROVE x.seq # New(i).seq
      BY <1>1, <2>1
    <3> QED
      BY <1>3, <2>2, <3>1, <3>2, <3>3
  <2> QED
    BY <2>2 DEF SeqNamesOneEvent
<1>9. ASSUME NEW s \in Slots, Hits(s) # {}
      PROVE  Max(Hits(s)) \in Hits(s) /\ \A i \in Hits(s) : i <= Max(Hits(s))
  <2>1. Hits(s) \in SUBSET (0..n)
    OBVIOUS
  <2> HIDE DEF Hits
  <2> QED
    BY <1>1, <1>9, <2>1, GreatestIs
<1>10. Placed(c)'
  <2> SUFFICES ASSUME NEW s \in Slots, ring'[s] # NoEntry
               PROVE  /\ Event(ring'[s]) \in hist' /\ SlotOf(ring'[s].seq, c) = s
                      /\ ring'[s].seq > seq' - c
    BY DEF Placed, Event
  <2>1. CASE Hits(s) = {}
    <3>1. /\ ring'[s] = ring[s] /\ Event(ring[s]) \in hist
          /\ SlotOf(ring[s].seq, c) = s /\ ring[s].seq > seq - c
      BY <1>4, <2>1 DEF RingInv, Placed
    <3> DEFINE q == ring[s].seq
    <3>2. q \in 1..seq
      BY <3>1 DEF RingInv, Numbered, Event
    <3>3. q > (seq + n) - c
      <4> SUFFICES ASSUME q <= (seq + n) - c PROVE FALSE
        <5> HIDE DEF q, n
        <5> QED
          BY <1>1, <3>2
      <4>1. (q + c) - seq \in 1..n /\ seq + ((q + c) - seq) = q + c
        <5> HIDE DEF q, n
        <5> QED
          BY <1>1, <3>1, <3>2 DEF q
      <4>2. SlotOf(q + c, c) = s
        <5>1. q \in Nat \ {0}
          BY <1>1, <3>2
        <5>2. SlotOf(q, c) = s
          BY <3>1
        <5> HIDE DEF q
        <5> QED
          BY <1>1, <5>1, <5>2, SlotNext
      <4>3. (q + c) - seq \in Hits(s)
        BY <4>1, <4>2
      <4> QED
        BY <4>3, <2>1
    <3> QED
      BY <1>3, <3>1, <3>3
  <2>2. CASE Hits(s) # {}
    <3> DEFINE i == Max(Hits(s))
    <3>1. i \in 1..n /\ SlotOf(seq + i, c) = s /\ \A j \in Hits(s) : j <= i
      BY <1>9, <2>2
    <3>2. ring'[s] = Entry(m, i)
      BY <1>4, <2>2
    <3> HIDE DEF i
    <3>3. seq + i > (seq + n) - c
      <4> SUFFICES ASSUME seq + i <= (seq + n) - c PROVE FALSE
        <5> HIDE DEF n
        <5> QED
          BY <1>1, <3>1
      <4>1. i + c \in 1..n /\ seq + (i + c) = (seq + i) + c /\ seq + i \in Nat \ {0}
        <5> HIDE DEF n
        <5> QED
          BY <1>1, <3>1
      <4>2. SlotOf(seq + (i + c), c) = s
        BY <1>1, <3>1, <4>1, SlotNext
      <4>3. i + c <= i
        BY <3>1, <4>1, <4>2
      <4> QED
        BY <1>1, <3>1, <4>3
    <3>4. Event(ring'[s]) = New(i) /\ ring'[s].seq = seq + i
      BY <1>5, <3>1, <3>2
    <3> QED
      BY <1>3, <3>1, <3>3, <3>4
  <2> QED
    BY <2>1, <2>2
<1>11. Kept(c)'
  <2> SUFFICES ASSUME NEW e \in hist', e.seq > (seq + n) - c
               PROVE  /\ ring'[SlotOf(e.seq, c)] # NoEntry
                      /\ Event(ring'[SlotOf(e.seq, c)]) = e
    BY <1>3 DEF Kept, Event, SlotOf
  <2> DEFINE s == SlotOf(e.seq, c)
  <2>1. CASE e \in hist
    <3>1. e.seq \in 1..seq
      BY <2>1 DEF RingInv, Numbered
    <3>2. s \in Slots /\ e.seq > seq - c
      <4> HIDE DEF n
      <4> QED
        BY <1>1, <3>1
    <3>3. Hits(s) = {}
      <4> SUFFICES ASSUME NEW i \in Hits(s) PROVE FALSE
        OBVIOUS
      <4>1. i \in 1..n /\ SlotOf(seq + i, c) = SlotOf(e.seq, c)
        OBVIOUS
      <4>2. e.seq \in Nat \ {0} /\ seq + i \in Nat \ {0} /\ e.seq < seq + i
        BY <1>1, <3>1, <4>1
      <4>3. seq + i >= e.seq + c
        BY <1>1, <4>1, <4>2, SlotReused
      <4> HIDE DEF n
      <4> QED
        BY <1>1, <3>1, <4>1, <4>3
    <3>4. ring[s] # NoEntry /\ Event(ring[s]) = e
      BY <2>1, <3>2 DEF RingInv, Kept
    <3> QED
      BY <1>4, <3>2, <3>3, <3>4
  <2>2. CASE e \notin hist
    <3>1. PICK i \in 1..n : e = New(i)
      BY <1>3, <2>2
    <3>2. e.seq = seq + i /\ seq + i \in Nat \ {0}
      BY <1>1, <3>1
    <3>3. s \in Slots /\ i \in Hits(s)
      BY <1>1, <3>2
    <3> DEFINE j == Max(Hits(s))
    <3>4. j \in 1..n /\ SlotOf(seq + j, c) = s /\ i <= j
      BY <1>9, <3>3
    <3>5. ring'[s] = Entry(m, j)
      BY <1>4, <3>3
    <3> HIDE DEF j
    <3>6. i = j
      <4> SUFFICES ASSUME i < j PROVE FALSE
        BY <1>1, <3>4
      <4>1. seq + j \in Nat \ {0} /\ seq + i < seq + j
        BY <1>1, <3>4
      <4>2. seq + j >= (seq + i) + c
        BY <1>1, <3>2, <3>4, <4>1, SlotReused
      <4> HIDE DEF n
      <4> QED
        BY <1>1, <3>2, <3>4, <4>2
    <3> QED
      BY <1>5, <3>1, <3>5, <3>6
  <2> QED
    BY <2>1, <2>2
<1> QED
  BY <1>3, <1>6, <1>7, <1>8, <1>10, <1>11 DEF RingInv, At, Placed, Kept

\* The results of a batch change no event's number, change or place.
LEMMA AnalyzeKeepsRing ==
  ASSUME NEW m, NEW c, Alone(m, c), RingInv(m, c), Analyze(m), Typed'
  PROVE  RingInv(m, c)'
<1>0. m \in Monitors
  BY DEF Alone
<1>1. /\ UNCHANGED <<seq, hist, budget>> /\ mon'[m].pc # "record"
  BY <1>0 DEF Analyze, history, RingInv, Typed, TypeOK, Local
<1>2. PICK done : ring' = Stamp(m, done)
  BY DEF Analyze
<1>3. ASSUME NEW s \in Slots
      PROVE  \/ ring'[s] = ring[s]
             \/ ring[s] # NoEntry /\ ring'[s] = [ring[s] EXCEPT !.stamped = TRUE]
  <2>1. CASE ring[s] = NoEntry
    BY <1>2, <2>1 DEF Stamp, NoEntry
  <2>2. CASE ring[s] # NoEntry
    BY <1>2, <2>2 DEF Stamp
  <2> QED
    BY <2>1, <2>2
<1>4. ASSUME NEW s \in Slots, ring[s] # NoEntry
      PROVE  /\ ring'[s] # NoEntry /\ ring'[s].seq = ring[s].seq
             /\ Event(ring'[s]) = Event(ring[s])
  <2>1. ring[s] \in Entries /\ ring[s].seq # 0
    <3>1. Event(ring[s]) \in hist
      BY <1>4 DEF RingInv, Placed
    <3>2. ring[s].seq \in 1..seq
      BY <3>1 DEF RingInv, Numbered, Event
    <3> QED
      BY <1>4, <3>2 DEF RingInv, Typed, TypeOK
  <2>2. /\ ring'[s].seq = ring[s].seq /\ ring'[s].change = ring[s].change
    BY <1>3, <2>1 DEF Entries
  <2> QED
    BY <2>1, <2>2 DEF Event, NoEntry
<1>5. ASSUME NEW s \in Slots, ring'[s] # NoEntry PROVE ring[s] # NoEntry
  BY <1>3, <1>5
<1>6. Placed(c)'
  BY <1>1, <1>4, <1>5 DEF RingInv, Placed, Event
<1>7. Kept(c)'
  <2> SUFFICES ASSUME NEW e \in hist, e.seq > seq - c
               PROVE  /\ ring'[SlotOf(e.seq, c)] # NoEntry
                      /\ Event(ring'[SlotOf(e.seq, c)]) = e
    BY <1>1 DEF Kept, Event, SlotOf
  <2>1. e.seq \in Nat \ {0}
    BY DEF RingInv, Numbered, Typed, TypeOK
  <2>2. SlotOf(e.seq, c) \in Slots
    BY <2>1, Depth
  <2>3. ring[SlotOf(e.seq, c)] # NoEntry /\ Event(ring[SlotOf(e.seq, c)]) = e
    BY DEF RingInv, Kept
  <2> QED
    BY <1>4, <2>2, <2>3
<1> QED
  BY <1>1, <1>6, <1>7 DEF RingInv, Numbered, SeqNamesOneEvent, At

\* No other step touches the ring, its history or the counter, or leaves the
\* monitor with a number to record from that is not the counter's.
LEMMA RingElsewhere ==
  ASSUME NEW m, NEW c, Alone(m, c), RingInv(m, c), Cycle(m) \/ Mishap(m),
         ~RecordWrite(m), ~Analyze(m)
  PROVE  /\ UNCHANGED <<ring, seq, hist>>
         /\ budget'["faults"] = 0
         /\ mon'[m].pc = "record" => mon'[m].base = seq
<1> USE DEF At, stored, history
<1>0. /\ m \in Monitors /\ mon[m] \in Local
      /\ mon \in [Monitors -> Local] /\ budget \in [Kinds -> Nat] /\ budget["faults"] = 0
  BY DEF RingInv, Typed, TypeOK, Alone
<1>a. NotStarted.pc = "down" /\ Between(m).pc = "idle"
  BY DEF NotStarted, Between
<1>1. CASE Open(m)
  BY <1>0, <1>1 DEF Open, NotStarted
<1>2. CASE ReadFile(m)
  BY <1>0, <1>2 DEF ReadFile, Local
<1>3. CASE Adopt(m)
  BY <1>0, <1>3 DEF Adopt, Local
<1>4. CASE Seed(m)
  BY <1>0, <1>4 DEF Seed, Local
<1>5. CASE Seeded(m) \/ Finish(m)
  BY <1>0, <1>5, <1>a DEF Seeded, Finish
<1>6. CASE Scan(m) \/ BatchRead(m) \/ BatchWrite(m) \/ RecordRead(m)
  BY <1>0, <1>6 DEF Local, Scan, BatchRead, BatchWrite, RecordRead
<1>7. CASE Compare(m)
  BY <1>0, <1>7 DEF Local, Compare
<1>8. CASE Index(m) \/ Indexed(m) \/ Archive(m)
  <2>1. CASE Index(m)
    BY <1>0, <2>1 DEF Local, Index
  <2>2. CASE Indexed(m)
    BY <1>0, <2>2 DEF Local, Indexed
  <2>3. CASE Archive(m)
    BY <1>0, <2>3 DEF Local, Archive
  <2> QED
    BY <1>8, <2>1, <2>2, <2>3
<1>9. CASE ReadFileFails(m)
  BY <1>0, <1>9 DEF Local, ReadFileFails, Spend, Kinds
<1>10. CASE Stop(m) \/ Crash(m)
  BY <1>0, <1>10, <1>a DEF Stop, Crash, Spend, Kinds
<1>11. CASE ArchiveFails(m) \/ Raise(m)
  BY <1>0, <1>11 DEF ArchiveFails, Raise, Spend
<1> QED
  BY <1>1, <1>2, <1>3, <1>4, <1>5, <1>6, <1>7, <1>8, <1>9, <1>10, <1>11 DEF Cycle, Mishap

LEMMA RingKept ==
  ASSUME NEW m, NEW c, RingInv(m, c), Typed', UNCHANGED <<ring, seq, hist>>,
         budget'["faults"] = 0, mon'[m].pc = "record" => mon'[m].base = seq
  PROVE  RingInv(m, c)'
BY DEF RingInv, Numbered, SeqNamesOneEvent, Placed, Kept, Event, At

LEMMA RingInvStep ==
  ASSUME NEW m, NEW c, Alone(m, c)
  PROVE  RingInv(m, c) /\ [Next]_vars => RingInv(m, c)'
<1> SUFFICES ASSUME RingInv(m, c), [Next]_vars PROVE RingInv(m, c)'
  OBVIOUS
<1>1. Typed'
  BY StepTyped DEF RingInv
<1>2. CASE UNCHANGED vars
  BY <1>1, <1>2, RingKept DEF vars, stored, history, RingInv, At
<1>3. ASSUME NEW f \in Files, Edit(f) PROVE RingInv(m, c)'
  <2>1. UNCHANGED <<ring, seq, hist, mon>>
    BY <1>3 DEF Edit, stored, history
  <2>2. budget'["faults"] = 0
    BY <1>3 DEF Edit, Spend, RingInv, Typed, TypeOK, Kinds
  <2> QED
    BY <1>1, <2>1, <2>2, RingKept DEF RingInv, At
<1>4. CASE RecordWrite(m)
  BY <1>1, <1>4, RecordKeepsRing
<1>5. CASE Analyze(m)
  BY <1>1, <1>5, AnalyzeKeepsRing
<1>6. CASE (Cycle(m) \/ Mishap(m)) /\ ~RecordWrite(m) /\ ~Analyze(m)
  BY <1>1, <1>6, RingElsewhere, RingKept
<1> QED
  BY <1>2, <1>3, <1>4, <1>5, <1>6 DEF Next, Alone

LEMMA InitRing ==
  ASSUME NEW m, NEW c, Alone(m, c), Init
  PROVE  RingInv(m, c)
<1>1. Typed
  BY InitTyped
<1>2. budget["faults"] = 0
  BY DEF Init, Budget, Alone
<1>3. mon[m].pc # "record"
  BY DEF Init, NotStarted, Alone
<1>4. hist = {} /\ \A s \in Slots : ring[s] = NoEntry
  BY DEF Init
<1> QED
  BY <1>1, <1>2, <1>3, <1>4
     DEF RingInv, At, Numbered, SeqNamesOneEvent, Placed, Kept

\* One monitor at a time, always opened with the same ring depth, without
\* exceptions out of the database: over any number of edits, cycles, unreadable
\* files, stops and crashes the ring holds exactly the last c events.
THEOREM RingInvariance ==
  ASSUME NEW m, NEW c, Alone(m, c)
  PROVE  Spec => [](RingIsLastEvents /\ SeqNamesOneEvent)
<1>1. Init => RingInv(m, c)
  BY InitRing
<1>2. RingInv(m, c) => RingIsLastEvents /\ SeqNamesOneEvent
  BY RingInvImplies
<1>3. RingInv(m, c) /\ [Next]_vars => RingInv(m, c)'
  BY RingInvStep
<1> QED
  BY <1>1, <1>2, <1>3, PTL DEF Spec

\* diff_db.py:54 "monotonic 1-based global sequence": on the same assumptions no number
\* is ever given to two different changes.
THEOREM SeqInvariance ==
  ASSUME NEW m, NEW c, Alone(m, c)
  PROVE  Spec => []SeqNamesOneEvent
<1>1. Spec => [](RingIsLastEvents /\ SeqNamesOneEvent)
  BY RingInvariance
<1> QED
  BY <1>1, PTL
-----------------------------------------------------------------------------
(* The durable log and the batches, on the same assumptions                *)

\* Where the last batch has rows that the log has not, and where it is not finished.
Pending == {"index", "analyze", "archive"}
Begun == {"seq", "record"} \cup Pending \cup {"finish"}

\* A row is in the log, or it is the one that will be put there.
Logged(m) ==
  \A e \in Rows :
    \/ e \in log /\ (mon[m].pc \in Pending => e.seq <= mon[m].base)
    \/ mon[m].pc \in Pending /\ \E i \in 1..Len(mon[m].events) : e = Entry(m, i)

LogInv(m, c) ==
  /\ RingInv(m, c)
  /\ budget["crashes"] <= MaxCrashes
  /\ mon[m].pc \notin {"archive", "finish"} => mon[m].done = {}
  /\ Uncrashed => Logged(m)

\* All batches were finished in turn, but for the one in progress; those of the last c
\* have rows, each in its own slot.
LastFinished(m) == IF mon[m].pc \in Begun THEN lastBatch - 1 ELSE lastBatch

BatchRows(n, c) == {[slot |-> SlotOf(b, c), batch |-> b] : b \in {k \in 1..n : k > n - c}}

BatchInv(m, c) ==
  /\ RingInv(m, c)
  /\ budget["crashes"] <= MaxCrashes
  /\ mon[m].pc = "batching" => mon[m].batch = lastBatch + 1
  /\ mon[m].pc \in Begun => mon[m].batch = lastBatch /\ lastBatch > 0
  /\ Uncrashed => /\ finished = 1..LastFinished(m)
                  /\ batches = BatchRows(LastFinished(m), c)

\* A crash uses up one of the crashes there are, for good.
LEMMA CrashCounted ==
  ASSUME NEW m \in Monitors, Typed, budget["crashes"] <= MaxCrashes, Crash(m)
  PROVE  budget'["crashes"] <= MaxCrashes /\ ~Uncrashed'
<1>1. budget["crashes"] \in Nat /\ MaxCrashes \in Nat
  BY MonitorAssumption DEF Typed, TypeOK, Kinds
<1>2. budget'["crashes"] = budget["crashes"] - 1
  BY DEF Crash, Spend, Typed, TypeOK, Kinds
<1> QED
  BY <1>1, <1>2 DEF Uncrashed

\* What a step that is none of these leaves as it was.
LEMMA RestOfCycle ==
  ASSUME NEW m, NEW c, Alone(m, c), RingInv(m, c), Cycle(m) \/ Mishap(m),
         ~RecordWrite(m), ~Analyze(m), ~Archive(m), ~BatchRead(m), ~BatchWrite(m),
         ~Finish(m), ~Crash(m)
  PROVE  /\ UNCHANGED <<ring, log, lastBatch, batches, finished>>
         /\ budget'["crashes"] = budget["crashes"]
         /\ \A S \in {Pending, Begun, {"batching"}} : mon'[m].pc \in S <=> mon[m].pc \in S
         /\ mon'[m].pc \in Begun \cup {"batching"} =>
              mon'[m].batch = mon[m].batch /\ mon'[m].events = mon[m].events
         /\ mon'[m].pc \in Pending => mon'[m].base = mon[m].base
         /\ mon'[m].done = mon[m].done \/ mon'[m].done = {}
         /\ mon[m].pc \notin {"archive", "finish"} /\ mon'[m].pc \notin {"archive", "finish"}
<1> USE DEF At, stored, history, Pending, Begun
<1>0. /\ m \in Monitors /\ mon[m] \in Local
      /\ mon \in [Monitors -> Local] /\ budget \in [Kinds -> Nat] /\ budget["faults"] = 0
  BY DEF RingInv, Typed, TypeOK, Alone
<1>a. NotStarted.pc = "down" /\ Between(m).pc = "idle" /\ NotStarted.done = {} /\ Between(m).done = {}
  BY DEF NotStarted, Between
<1>1. CASE Open(m)
  BY <1>0, <1>1 DEF Open, NotStarted
<1>2. CASE ReadFile(m)
  BY <1>0, <1>2 DEF ReadFile, Local
<1>3. CASE Adopt(m)
  BY <1>0, <1>3 DEF Adopt, Local
<1>4. CASE Seed(m)
  BY <1>0, <1>4 DEF Seed, Local
<1>5. CASE Seeded(m)
  BY <1>0, <1>5, <1>a DEF Seeded
<1>6. CASE Scan(m) \/ RecordRead(m)
  BY <1>0, <1>6 DEF Local, Scan, RecordRead
<1>7. CASE Compare(m)
  BY <1>0, <1>7 DEF Local, Compare
<1>8. CASE Index(m) \/ Indexed(m)
  BY <1>0, <1>8 DEF Local, Index, Indexed
<1>9. CASE ReadFileFails(m)
  BY <1>0, <1>9 DEF Local, ReadFileFails, Spend, Kinds
<1>10. CASE Stop(m)
  BY <1>0, <1>10, <1>a DEF Stop, Spend, Kinds
<1>11. CASE ArchiveFails(m) \/ Raise(m)
  BY <1>0, <1>11 DEF ArchiveFails, Raise, Spend
<1> QED
  BY <1>1, <1>2, <1>3, <1>4, <1>5, <1>6, <1>7, <1>8, <1>9, <1>10, <1>11 DEF Cycle, Mishap

LEMMA LogKept ==
  ASSUME NEW m, Logged(m), UNCHANGED <<ring, log>>,
         mon'[m].pc \in Pending <=> mon[m].pc \in Pending,
         mon'[m].pc \in Pending =>
           /\ mon'[m].batch = mon[m].batch /\ mon'[m].events = mon[m].events
           /\ mon'[m].base = mon[m].base /\ mon'[m].done = mon[m].done
  PROVE  Logged(m)'
BY DEF Logged, Rows, Entry

LEMMA RecordLogged ==
  ASSUME NEW m, NEW c, Alone(m, c), LogInv(m, c), RecordWrite(m), Logged(m)
  PROVE  Logged(m)'
<1> DEFINE n == Len(mon[m].events)
<1>1. m \in Monitors /\ n \in Nat /\ mon[m].pc = "record" /\ mon[m].base = seq
  BY TypedFacts DEF LogInv, RingInv, Alone, RecordWrite, At
<1>2. /\ mon'[m].pc = "index" /\ mon'[m].batch = mon[m].batch /\ mon'[m].events = mon[m].events
      /\ mon'[m].base = mon[m].base /\ mon'[m].done = mon[m].done
      /\ log' = log
  BY <1>1 DEF RecordWrite, LogInv, RingInv, Typed, TypeOK, Local
<1>3. \A i : Entry(m, i)' = Entry(m, i)
  BY <1>2 DEF Entry
<1>4. ASSUME NEW s \in Slots
      PROVE  ring'[s] = ring[s] \/ \E i \in 1..n : ring'[s] = Entry(m, i)
  <2> DEFINE hits == {i \in 1..n : SlotOf(mon[m].base + i, mon[m].cap) = s}
  <2>1. ring'[s] = IF hits = {} THEN ring[s] ELSE Entry(m, Max(hits))
    BY DEF RecordWrite, RingWith
  <2>2. hits \in SUBSET (0..n) /\ hits \subseteq 1..n
    OBVIOUS
  <2> HIDE DEF hits, n
  <2>3. hits # {} => Max(hits) \in 1..n
    BY <1>1, <2>2, GreatestIs
  <2> QED
    BY <2>1, <2>3
<1>5. ASSUME NEW s \in Slots, ring[s] # NoEntry PROVE ring[s] \in log /\ ring[s].seq <= seq
  <2>1. ring[s] \in log
    BY <1>1, <1>5 DEF Logged, Rows, Pending
  <2>2. Event(ring[s]) \in hist
    BY <1>5 DEF LogInv, RingInv, Placed
  <2> QED
    BY <2>1, <2>2 DEF LogInv, RingInv, Numbered, Event, Typed, TypeOK
<1>6. ASSUME NEW s \in Slots, ring'[s] # NoEntry
      PROVE  \/ ring'[s] \in log /\ ring'[s].seq <= mon[m].base
             \/ \E i \in 1..n : ring'[s] = Entry(m, i)
  BY <1>1, <1>4, <1>5, <1>6
<1> QED
  BY <1>2, <1>3, <1>6 DEF Logged, Rows, Pending

LEMMA AnalyzeLogged ==
  ASSUME NEW m, NEW c, Alone(m, c), LogInv(m, c), Analyze(m), Logged(m)
  PROVE  Logged(m)'
<1> DEFINE n == Len(mon[m].events)
<1>1. m \in Monitors /\ n \in Nat /\ mon[m].pc = "analyze" /\ mon[m].base \in Nat /\ mon[m].done = {}
  BY TypedFacts DEF LogInv, RingInv, Alone, Analyze, At, Local
<1>2. PICK done : /\ ring' = Stamp(m, done) /\ done \subseteq DOMAIN mon[m].events
                  /\ mon' = [mon EXCEPT ![m].pc = "archive", ![m].done = done]
  BY DEF Analyze
<1>3. /\ mon'[m].pc = "archive" /\ mon'[m].batch = mon[m].batch /\ mon'[m].events = mon[m].events
      /\ mon'[m].base = mon[m].base /\ mon'[m].done = done /\ mon[m].cap = c
      /\ log' = log /\ done \subseteq 1..n
  BY <1>1, <1>2 DEF Analyze, LogInv, RingInv, Typed, TypeOK, Local, Opened, InOrder, Alone
<1>4. ASSUME NEW s \in Slots, ring'[s] # NoEntry PROVE ring[s] # NoEntry
  BY <1>2, <1>4 DEF Stamp, NoEntry
<1>5. ASSUME NEW s \in Slots, ring[s] # NoEntry, ring[s] \in log, ring[s].seq <= mon[m].base
      PROVE  ring'[s] = ring[s]
  <2>1. ring[s].seq \in Nat
    BY <1>5 DEF LogInv, RingInv, Typed, TypeOK, Entries
  <2>2. \A i \in done : ring[s].seq # mon[m].base + i
    BY <1>1, <1>3, <1>5, <2>1
  <2> QED
    BY <1>2, <2>2 DEF Stamp
<1>6. ASSUME NEW s \in Slots, NEW i \in 1..n, ring[s] = Entry(m, i)
      PROVE  ring'[s] = Entry(m, i)'
  <2>1. ring[s].seq = mon[m].base + i /\ ring[s].stamped = FALSE
    <3>1. ring[s].seq = mon[m].base + i /\ ring[s].stamped = (i \in mon[m].done)
      BY <1>6 DEF Entry
    <3>2. (i \in mon[m].done) = FALSE
      BY <1>1
    <3> QED
      BY <3>1, <3>2
  <2>2. SlotOf(mon[m].base + i, c) = s
    <3>1. NoEntry.seq = 0
      BY DEF NoEntry
    <3>2. ring[s] # NoEntry
      BY <1>1, <2>1, <3>1
    <3> QED
      BY <2>1, <3>2 DEF LogInv, RingInv, Placed
  <2>3. Entry(m, i)' = [ring[s] EXCEPT !.stamped = (i \in done)]
    BY <1>3, <1>6 DEF Entry
  <2>4. CASE i \in done
    BY <1>2, <1>3, <2>1, <2>2, <2>3, <2>4 DEF Stamp
  <2>5. CASE i \notin done
    <3>1. \A j \in done : ring[s].seq # mon[m].base + j
      BY <1>1, <1>3, <2>1, <2>5
    <3>2. ring'[s] = ring[s]
      BY <1>2, <3>1 DEF Stamp
    <3>3. Entry(m, i)' = Entry(m, i)
      BY <1>1, <1>3, <2>5 DEF Entry
    <3> QED
      BY <1>6, <3>2, <3>3
  <2> QED
    BY <2>4, <2>5
<1>7. ASSUME NEW s \in Slots, ring'[s] # NoEntry
      PROVE  \/ ring'[s] \in log /\ ring'[s].seq <= mon[m].base
             \/ \E i \in 1..n : ring'[s] = Entry(m, i)'
  <2>1. \/ ring[s] \in log /\ ring[s].seq <= mon[m].base
        \/ \E i \in 1..n : ring[s] = Entry(m, i)
    BY <1>1, <1>4, <1>7 DEF Logged, Rows, Pending
  <2> QED
    BY <1>4, <1>5, <1>6, <1>7, <2>1
<1> QED
  BY <1>3, <1>7 DEF Logged, Rows, Pending

LEMMA ArchiveLogged ==
  ASSUME NEW m, NEW c, Alone(m, c), LogInv(m, c), Archive(m), Logged(m)
  PROVE  Logged(m)'
<1>1. /\ m \in Monitors /\ mon[m].pc = "archive" /\ mon'[m].pc = "finish"
      /\ DOMAIN mon[m].events = 1..Len(mon[m].events) /\ ring' = ring
      /\ log' = log \cup {Entry(m, i) : i \in DOMAIN mon[m].events}
  BY DEF Archive, At, LogInv, RingInv, Typed, TypeOK, Local, Alone
<1> QED
  BY <1>1 DEF Logged, Rows, Pending

LEMMA LogInvStep ==
  ASSUME NEW m, NEW c, Alone(m, c), LogInv(m, c), [Next]_vars
  PROVE  LogInv(m, c)'
<1> USE DEF At
<1>0. /\ m \in Monitors /\ mon[m] \in Local /\ mon \in [Monitors -> Local] /\ Typed
      /\ RingInv(m, c)' /\ RingInv(m, c)
  BY RingInvStep DEF LogInv, RingInv, Typed, TypeOK, Alone
<1>1. CASE UNCHANGED vars
  BY <1>0, <1>1, LogKept DEF vars, stored, history, LogInv, Uncrashed
<1>2. ASSUME NEW f \in Files, Edit(f) PROVE LogInv(m, c)'
  <2>1. UNCHANGED <<ring, log, mon>> /\ budget'["crashes"] = budget["crashes"]
    BY <1>0, <1>2 DEF Edit, stored, Spend, Typed, TypeOK, Kinds
  <2> QED
    BY <1>0, <2>1, LogKept DEF LogInv, Uncrashed
<1>3. CASE RecordWrite(m)
  <2>1. budget' = budget /\ mon'[m].done = mon[m].done /\ mon[m].pc = "record"
    BY <1>0, <1>3 DEF RecordWrite, Local
  <2> QED
    BY <1>0, <1>3, <2>1, RecordLogged DEF LogInv, Uncrashed
<1>4. CASE Analyze(m)
  <2>1. budget' = budget /\ mon'[m].pc = "archive"
    BY <1>0, <1>4 DEF Analyze, Local
  <2> QED
    BY <1>0, <1>4, <2>1, AnalyzeLogged DEF LogInv, Uncrashed
<1>5. CASE Archive(m)
  <2>1. budget' = budget /\ mon'[m].pc = "finish"
    BY <1>0, <1>5 DEF Archive, Local
  <2> QED
    BY <1>0, <1>5, <2>1, ArchiveLogged DEF LogInv, Uncrashed
<1>6. CASE BatchRead(m) \/ BatchWrite(m) \/ Finish(m)
  <2>1. /\ UNCHANGED <<budget, ring, log>> /\ mon'[m].pc \notin Pending /\ mon[m].pc \notin Pending
        /\ mon'[m].pc \notin {"archive", "finish"} => mon'[m].done = mon[m].done \/ mon'[m].done = {}
        /\ mon'[m].done = {} \/ mon[m].pc \notin {"archive", "finish"}
    <3>1. CASE BatchRead(m) \/ BatchWrite(m)
      BY <1>0, <3>1 DEF BatchRead, BatchWrite, Local, Pending, stored
    <3>2. CASE Finish(m)
      <4>1. Between(m).pc = "idle" /\ Between(m).done = {}
        BY DEF Between, NotStarted
      <4> QED
        BY <1>0, <3>2, <4>1 DEF Finish, Pending
    <3> QED
      BY <1>6, <3>1, <3>2
  <2> QED
    BY <1>0, <2>1, LogKept DEF LogInv, Uncrashed
<1>7. CASE Crash(m)
  <2>1. mon'[m].done = {}
    BY <1>0, <1>7 DEF Crash, NotStarted
  <2> QED
    BY <1>0, <1>7, <2>1, CrashCounted DEF LogInv
<1>8. CASE /\ Cycle(m) \/ Mishap(m)
           /\ ~(RecordWrite(m) \/ Analyze(m) \/ Archive(m) \/ BatchRead(m) \/ BatchWrite(m)
                \/ Finish(m) \/ Crash(m))
  <2>1. /\ UNCHANGED <<ring, log>> /\ budget'["crashes"] = budget["crashes"]
        /\ mon'[m].pc \in Pending <=> mon[m].pc \in Pending
        /\ mon'[m].pc \in Pending => /\ mon'[m].batch = mon[m].batch
                                     /\ mon'[m].events = mon[m].events
                                     /\ mon'[m].base = mon[m].base
        /\ mon'[m].done = mon[m].done \/ mon'[m].done = {}
        /\ mon[m].pc \notin {"archive", "finish"} /\ mon'[m].pc \notin {"archive", "finish"}
    BY <1>0, <1>8, RestOfCycle DEF Pending, Begun
  <2>2. mon'[m].pc \in Pending => mon'[m].done = mon[m].done
    BY <2>1 DEF LogInv, Pending
  <2>3. Uncrashed => Logged(m)'
    BY <2>1, <2>2, LogKept DEF LogInv
  <2>4. mon'[m].pc \notin {"archive", "finish"} => mon'[m].done = {}
    BY <2>1 DEF LogInv
  <2> QED
    BY <1>0, <2>1, <2>3, <2>4 DEF LogInv, Uncrashed
<1> QED
  BY <1>1, <1>2, <1>3, <1>4, <1>5, <1>6, <1>7, <1>8 DEF Next, Alone

LEMMA InitLedgers ==
  ASSUME NEW m, NEW c, Alone(m, c), Init
  PROVE  LogInv(m, c) /\ BatchInv(m, c)
<1>1. RingInv(m, c)
  BY InitRing
<1>2. /\ mon[m].pc = "down" /\ mon[m].done = {} /\ budget["crashes"] = MaxCrashes
      /\ \A s \in Slots : ring[s] = NoEntry
      /\ finished = {} /\ batches = {} /\ lastBatch = 0
  BY DEF Init, NotStarted, Budget, Alone
<1>3. MaxCrashes \in Nat
  BY MonitorAssumption
<1>4. Logged(m)
  BY <1>2 DEF Logged, Rows
<1>5. LastFinished(m) = 0 /\ 1..0 = {} /\ BatchRows(0, c) = {}
  BY <1>2 DEF LastFinished, BatchRows, Begun, Pending
<1> QED
  BY <1>1, <1>2, <1>3, <1>4, <1>5 DEF LogInv, BatchInv, Begun, Pending

\* The log "is a strict superset of the FIFO" (change_log.py:12): between two cycles of one
\* monitor that no crash has hit, every row of the ring is in the log with its outcome.
THEOREM LogInvariance ==
  ASSUME NEW m, NEW c, Alone(m, c)
  PROVE  Spec => []LogHoldsRing
<1>1. Init => LogInv(m, c)
  BY InitLedgers
<1>2. LogInv(m, c) /\ [Next]_vars => LogInv(m, c)'
  BY LogInvStep
<1>3. LogInv(m, c) => LogHoldsRing
  BY DEF LogInv, Logged, LogHoldsRing, At, Pending, Alone
<1> QED
  BY <1>1, <1>2, <1>3, PTL DEF Spec

\* Finishing batch n + 1 replaces the row of batch n + 1 - c and no other.
LEMMA NextBatchRow ==
  ASSUME NEW c \in Nat \ {0}, NEW n \in Nat
  PROVE  {r \in BatchRows(n, c) : r.slot # SlotOf(n + 1, c) /\ r.batch # n + 1}
           \cup {[slot |-> SlotOf(n + 1, c), batch |-> n + 1]} = BatchRows(n + 1, c)
<1> DEFINE Row(b) == [slot |-> SlotOf(b, c), batch |-> b]
           left == {r \in BatchRows(n, c) : r.slot # SlotOf(n + 1, c) /\ r.batch # n + 1}
<1>1. ASSUME NEW b \in 1..n, b > n - c PROVE SlotOf(b, c) # SlotOf(n + 1, c) <=> b > (n + 1) - c
  <2>1. CASE b > (n + 1) - c
    <3>1. SUFFICES ASSUME SlotOf(b, c) = SlotOf(n + 1, c) PROVE FALSE
      BY <2>1
    <3>2. b \in Nat \ {0} /\ n + 1 \in Nat \ {0} /\ b < n + 1
      OBVIOUS
    <3>3. n + 1 >= b + c
      BY <3>1, <3>2, SlotReused
    <3> QED
      BY <2>1, <3>2, <3>3
  <2>2. CASE ~(b > (n + 1) - c)
    <3>1. b + c = n + 1 /\ b \in Nat \ {0}
      BY <1>1, <2>2
    <3> QED
      BY <2>2, <3>1, SlotNext
  <2> QED
    BY <2>1, <2>2
<1>2. left = {Row(b) : b \in {k \in 1..n : k > (n + 1) - c}}
  <2>1. left \subseteq {Row(b) : b \in {k \in 1..n : k > (n + 1) - c}}
    <3> SUFFICES ASSUME NEW b \in 1..n, b > n - c, Row(b).slot # SlotOf(n + 1, c)
                 PROVE  b > (n + 1) - c
      BY DEF BatchRows
    <3> QED
      BY <1>1
  <2>2. ASSUME NEW b \in 1..n, b > (n + 1) - c PROVE Row(b) \in left
    <3>1. b > n - c /\ b # n + 1
      BY <2>2
    <3>2. Row(b) \in BatchRows(n, c)
      BY <3>1 DEF BatchRows
    <3> QED
      BY <1>1, <2>2, <3>1, <3>2
  <2> QED
    BY <2>1, <2>2
<1>3. {k \in 1..(n + 1) : k > (n + 1) - c} = {k \in 1..n : k > (n + 1) - c} \cup {n + 1}
  OBVIOUS
<1>4. BatchRows(n + 1, c) = {Row(b) : b \in {k \in 1..n : k > (n + 1) - c}} \cup {Row(n + 1)}
  BY <1>3 DEF BatchRows
<1> QED
  BY <1>2, <1>4

LEMMA FinishBatch ==
  ASSUME NEW m, NEW c, Alone(m, c), BatchInv(m, c), Finish(m), RingInv(m, c)'
  PROVE  BatchInv(m, c)'
<1> DEFINE n == LastFinished(m)
<1>1. /\ m \in Monitors /\ mon[m].pc = "finish" /\ mon[m].cap = c
      /\ lastBatch \in Nat /\ c \in Nat \ {0}
  BY Depth, TypedFacts DEF BatchInv, RingInv, Alone, Finish, At, InOrder
<1>2. mon[m].batch = n + 1 /\ n \in Nat /\ lastBatch = n + 1
  BY <1>1 DEF BatchInv, LastFinished, Begun, Pending
<1>3. Between(m).pc = "idle"
  BY DEF Between, NotStarted
<1>4. /\ mon'[m].pc = "idle" /\ UNCHANGED <<lastBatch, budget>> /\ finished' = finished \cup {n + 1}
      /\ batches' = {r \in batches : r.slot # SlotOf(n + 1, c) /\ r.batch # n + 1}
                      \cup {[slot |-> SlotOf(n + 1, c), batch |-> n + 1]}
  BY <1>1, <1>2, <1>3 DEF Finish, RowsLeft, BatchInv, RingInv, Typed, TypeOK
<1>5. LastFinished(m)' = n + 1
  BY <1>2, <1>4 DEF LastFinished, Begun, Pending
<1> HIDE DEF n
<1>6. 1..(n + 1) = (1..n) \cup {n + 1}
  BY <1>2
<1>7. Uncrashed => finished' = 1..(n + 1) /\ batches' = BatchRows(n + 1, c)
  BY <1>1, <1>2, <1>4, <1>6, NextBatchRow DEF BatchInv, n
<1> QED
  BY <1>4, <1>5, <1>7 DEF BatchInv, Uncrashed, Begun, Pending

LEMMA BatchInvStep ==
  ASSUME NEW m, NEW c, Alone(m, c), BatchInv(m, c), [Next]_vars
  PROVE  BatchInv(m, c)'
<1> USE DEF At
<1>0. /\ m \in Monitors /\ mon[m] \in Local /\ mon \in [Monitors -> Local] /\ Typed
      /\ RingInv(m, c)' /\ RingInv(m, c) /\ lastBatch \in Nat
  BY RingInvStep DEF BatchInv, RingInv, Typed, TypeOK, Alone
<1>1. CASE UNCHANGED vars
  BY <1>0, <1>1 DEF vars, stored, history, BatchInv, Uncrashed, LastFinished
<1>2. ASSUME NEW f \in Files, Edit(f) PROVE BatchInv(m, c)'
  <2>1. UNCHANGED <<lastBatch, batches, finished, mon>> /\ budget'["crashes"] = budget["crashes"]
    BY <1>0, <1>2 DEF Edit, stored, history, Spend, Typed, TypeOK, Kinds
  <2> QED
    BY <1>0, <2>1 DEF BatchInv, Uncrashed, LastFinished
<1>3. CASE RecordWrite(m) \/ Analyze(m) \/ Archive(m)
  <2>1. /\ UNCHANGED <<lastBatch, batches, finished, budget>> /\ mon'[m].batch = mon[m].batch
        /\ mon[m].pc \in Begun /\ mon'[m].pc \in Begun /\ mon'[m].pc # "batching"
    BY <1>0, <1>3 DEF RecordWrite, Analyze, Archive, history, Local, Begun, Pending
  <2> QED
    BY <1>0, <2>1 DEF BatchInv, Uncrashed, LastFinished
<1>4. CASE BatchRead(m)
  <2>1. /\ UNCHANGED <<lastBatch, batches, finished, budget>> /\ mon'[m].batch = lastBatch + 1
        /\ mon[m].pc = "batch" /\ mon'[m].pc = "batching"
    BY <1>0, <1>4 DEF BatchRead, stored, history, Local
  <2> QED
    BY <1>0, <2>1 DEF BatchInv, Uncrashed, LastFinished, Begun, Pending
<1>5. CASE BatchWrite(m)
  <2>1. /\ UNCHANGED <<batches, finished, budget>> /\ mon'[m].batch = mon[m].batch
        /\ mon[m].pc = "batching" /\ mon'[m].pc = "seq" /\ lastBatch' = mon[m].batch
    BY <1>0, <1>5 DEF BatchWrite, history, Local
  <2>2. lastBatch' = lastBatch + 1 /\ LastFinished(m) = lastBatch /\ LastFinished(m)' = lastBatch
    BY <1>0, <2>1 DEF BatchInv, LastFinished, Begun, Pending
  <2> QED
    BY <1>0, <2>1, <2>2 DEF BatchInv, Uncrashed, Begun, Pending
<1>6. CASE Finish(m)
  BY <1>0, <1>6, FinishBatch
<1>7. CASE Crash(m)
  <2>1. mon'[m].pc = "down"
    BY <1>0, <1>7 DEF Crash, NotStarted
  <2> QED
    BY <1>0, <1>7, <2>1, CrashCounted DEF BatchInv, Begun, Pending
<1>8. CASE /\ Cycle(m) \/ Mishap(m)
           /\ ~(RecordWrite(m) \/ Analyze(m) \/ Archive(m) \/ BatchRead(m) \/ BatchWrite(m)
                \/ Finish(m) \/ Crash(m))
  <2>1. /\ UNCHANGED <<lastBatch, batches, finished>> /\ budget'["crashes"] = budget["crashes"]
        /\ mon'[m].pc \in Begun <=> mon[m].pc \in Begun
        /\ mon'[m].pc = "batching" <=> mon[m].pc = "batching"
        /\ mon'[m].pc \in Begun \cup {"batching"} => mon'[m].batch = mon[m].batch
    BY <1>0, <1>8, RestOfCycle
  <2> QED
    BY <1>0, <2>1 DEF BatchInv, Uncrashed, LastFinished
<1> QED
  BY <1>1, <1>2, <1>3, <1>4, <1>5, <1>6, <1>7, <1>8 DEF Next, Alone

\* change_batches "is capped the same way" (diff_db.py:12): as long as no crash cuts a batch
\* short, it has the last c batches that were finished, and only those.
THEOREM BatchInvariance ==
  ASSUME NEW m, NEW c, Alone(m, c)
  PROVE  Spec => []BatchesAreLast
<1>1. Init => BatchInv(m, c)
  BY InitLedgers
<1>2. BatchInv(m, c) /\ [Next]_vars => BatchInv(m, c)'
  BY BatchInvStep
<1>3. BatchInv(m, c) => BatchesAreLast
  <2> SUFFICES ASSUME BatchInv(m, c), Uncrashed, mon[m].cap # 0
               PROVE  {r.batch : r \in batches} =
                        {b \in finished : Cardinality({d \in finished : d > b}) < mon[m].cap}
    BY DEF BatchesAreLast, Alone
  <2> DEFINE n == LastFinished(m)
  <2>1. /\ m \in Monitors /\ mon[m].cap = c /\ c \in Nat \ {0} /\ lastBatch \in Nat
        /\ finished = 1..n /\ batches = BatchRows(n, c)
    BY Depth DEF BatchInv, RingInv, Typed, TypeOK, Local, Alone
  <2>2. n \in Nat
    BY <2>1 DEF BatchInv, LastFinished
  <2> HIDE DEF n
  <2>3. {r.batch : r \in batches} = {k \in 1..n : k > n - c}
    <3>1. ASSUME NEW r \in BatchRows(n, c) PROVE r.batch \in {k \in 1..n : k > n - c}
      BY DEF BatchRows
    <3>2. ASSUME NEW k \in 1..n, k > n - c PROVE \E r \in BatchRows(n, c) : k = r.batch
      <4>1. [slot |-> SlotOf(k, c), batch |-> k] \in BatchRows(n, c)
        BY <3>2 DEF BatchRows
      <4> QED
        BY <4>1
    <3> QED
      BY <2>1, <3>1, <3>2
  <2>4. ASSUME NEW b \in 1..n PROVE Cardinality({d \in 1..n : d > b}) = n - b
    <3>1. {d \in 1..n : d > b} = (b + 1)..n
      BY <2>2
    <3>2. b + 1 \in Int /\ n \in Int
      BY <2>2
    <3>3. Cardinality((b + 1)..n) = IF b + 1 > n THEN 0 ELSE n - (b + 1) + 1
      BY <3>2, FS_Interval
    <3>4. (IF b + 1 > n THEN 0 ELSE n - (b + 1) + 1) = n - b
      BY <2>2
    <3> QED
      BY <3>1, <3>3, <3>4
  <2>5. \A b \in 1..n : b > n - c <=> n - b < c
    BY <2>1, <2>2
  <2> QED
    BY <2>1, <2>3, <2>4, <2>5
<1> QED
  BY <1>1, <1>2, <1>3, PTL DEF Spec

-----------------------------------------------------------------------------
(* The events of a file follow on from each other                          *)

LEMMA SetToSeqRange ==
  ASSUME NEW S, IsFiniteSet(S)
  PROVE  Range(SetToSeq(S)) = S
<1> DEFINE n == Cardinality(S)
<1>1. n \in Nat /\ ExistsBijection(1..n, S)
  BY FS_CardinalityType
<1>2. \E f \in [1..n -> S] : IsInjective(f)
  BY <1>1 DEF ExistsBijection, Bijection, Injection
<1>3. SetToSeq(S) \in [1..n -> S] /\ IsInjective(SetToSeq(S))
  BY <1>2 DEF SetToSeq
<1>4. SetToSeq(S) \in Injection(1..n, S)
  BY <1>3 DEF Injection
<1>5. Cardinality(1..n) = n
  <2>1. n \in Int /\ 1 \in Int
    BY <1>1
  <2>2. Cardinality(1..n) = IF 1 > n THEN 0 ELSE n - 1 + 1
    BY <2>1, FS_Interval
  <2> HIDE DEF n
  <2> QED
    BY <1>1, <2>2
<1>6. SetToSeq(S) \in Surjection(1..n, S)
  BY <1>4, <1>5, FS_Injection
<1> QED
  BY <1>6 DEF Surjection, Range

\* What differs between two trees, as changes.
Differs(old, new) == {Change(f, old, new) : f \in {g \in Files : old[g] # new[g]}}

LEMMA ChangesRange ==
  ASSUME NEW old \in Tree, NEW new \in Tree
  PROVE  Range(Changes(old, new)) = Differs(old, new)
<1> DEFINE A == Created(old, new)
           B == Deleted(old, new)
           C == Modified(old, new)
<1>1. /\ IsFiniteSet(A) /\ A \subseteq Changed
      /\ IsFiniteSet(B) /\ B \subseteq Changed
      /\ IsFiniteSet(C) /\ C \subseteq Changed
  <2>1. /\ {g \in Files : old[g] = Absent /\ new[g] # Absent} \in SUBSET Files
        /\ {g \in Files : old[g] # Absent /\ new[g] = Absent} \in SUBSET Files
        /\ {g \in Files : Absent \notin {old[g], new[g]} /\ old[g] # new[g]} \in SUBSET Files
    OBVIOUS
  <2> QED
    BY <2>1, ChangeSetFinite DEF Created, Deleted, Modified
<1>2. A \cup B \cup C = Differs(old, new)
  BY DEF Created, Deleted, Modified, Differs
<1> HIDE DEF A, B, C
<1>3. \A S \in SUBSET Changed : IsFiniteSet(S) => SetToSeq(S) \in Seq(Changed)
  BY SetToSeqType, SeqMonotonic
<1>4. SetToSeq(A) \in Seq(Changed) /\ SetToSeq(B) \in Seq(Changed) /\ SetToSeq(C) \in Seq(Changed)
  BY <1>1, <1>3
<1>5. SetToSeq(A) \o SetToSeq(B) \in Seq(Changed)
  BY <1>4, ConcatProperties
<1>6. Range(SetToSeq(A) \o SetToSeq(B)) = A \cup B
  BY <1>1, <1>4, RangeConcatenation, SetToSeqRange
<1>7. Range((SetToSeq(A) \o SetToSeq(B)) \o SetToSeq(C)) = (A \cup B) \cup C
  <2> DEFINE ab == SetToSeq(A) \o SetToSeq(B)
             last == SetToSeq(C)
  <2>1. ab \in Seq(Changed) /\ last \in Seq(Changed) /\ Range(ab) = A \cup B /\ Range(last) = C
    BY <1>1, <1>4, <1>5, <1>6, SetToSeqRange
  <2> HIDE DEF ab, last
  <2>2. Range(ab \o last) = Range(ab) \cup Range(last)
    BY <2>1, RangeConcatenation
  <2> QED
    BY <2>1, <2>2 DEF ab, last
<1> QED
  BY <1>2, <1>7 DEF Changes, A, B, C

\* Events that say what differs lead from the one tree to the other.
LEMMA FollowDiffers ==
  ASSUME NEW old \in Tree, NEW new \in Tree, NEW events, Range(events) = Differs(old, new)
  PROVE  Follow(old, events) = new
<1>1. ASSUME NEW f \in Files PROVE Follow(old, events)[f] = new[f]
  <2> DEFINE its == {e \in Range(events) : e.file = f}
  <2>1. \A e \in its : e = Change(f, old, new)
    BY DEF Differs, Change
  <2>2. old[f] # new[f] => its # {}
    <3>1. old[f] # new[f] => Change(f, old, new) \in Differs(old, new)
      BY DEF Differs
    <3> QED
      BY <3>1 DEF Change
  <2>3. Follow(old, events)[f] = IF its = {} THEN old[f] ELSE (CHOOSE e \in its : TRUE).new
    BY DEF Follow
  <2> HIDE DEF its
  <2>4. its # {} => (CHOOSE e \in its : TRUE).new = new[f]
    BY <2>1 DEF Change
  <2> QED
    BY <2>2, <2>3, <2>4
<1>2. DOMAIN Follow(old, events) = Files /\ Follow(old, events) = [f \in Files |-> Follow(old, events)[f]]
  BY DEF Follow
<1> QED
  BY <1>1, <1>2 DEF Tree

\* A monitor that goes on: it is never stopped, or it can tell a restart from a first run,
\* since some file is always there.
Steady == MaxStops = 0 \/ (RecordOffline /\ Files \ Deletable # {})

\* Files that are never deleted are in every snapshot, as long as every file could be read.
AllRead == budget["unread"] = MaxUnread
Present(m) ==
  /\ \A f \in Files \ Deletable : disk[f] # Absent
  /\ mon[m].pc = "read" => \A f \in (Files \ Deletable) \ mon[m].todo : mon[m].fresh[f] # Absent
  /\ mon[m].pc \notin {"down", "read"} => \A f \in Files \ Deletable : mon[m].snap[f] # Absent
Lasting(m) == AllRead => Present(m)

Blank == \A f \in Files : index[f].content = Absent
Opening(m) == mon[m].pc = "read" /\ mon[m].first
Waiting == {"batch", "batching", "seq", "record"}
Settled == {"idle", "analyze", "archive", "finish"}

\* How far the snapshot, the index and what was told of the files agree.
Carried(m) ==
  /\ mon[m].pc = "down" \/ Opening(m) =>
       (hist = {} /\ Blank) \/ (MaxStops # 0 /\ Persisted = known /\ ~Blank)
  /\ Opening(m) => mon[m].snap = Persisted
  /\ mon[m].pc = "seed" =>
       /\ known = mon[m].snap
       /\ \A f \in Files \ mon[m].todo : index[f].content = mon[m].snap[f]
  /\ mon[m].pc \in Settled \/ (mon[m].pc = "read" /\ ~mon[m].first) =>
       mon[m].snap = known /\ Persisted = known
  /\ mon[m].pc \in Waiting =>
       Range(mon[m].events) = Differs(known, mon[m].snap) /\ Persisted = known
  /\ mon[m].pc = "index" =>
       /\ mon[m].snap = known
       /\ \A e \in Range(mon[m].events) : e.new = known[e.file]
       /\ \A f \in Files : \/ index[f].content = known[f]
                           \/ \E i \in mon[m].at..Len(mon[m].events) : mon[m].events[i].file = f

ChainInv(m, c) ==
  /\ RingInv(m, c)
  /\ \A kind \in Kinds : budget[kind] <= Budget[kind]
  /\ mon[m].pc = "idle" => ~mon[m].first
  /\ Lasting(m)
  /\ Unharmed => Carried(m)

LEMMA BudgetShrinks ==
  ASSUME Typed, [Next]_vars, \A kind \in Kinds : budget[kind] <= Budget[kind]
  PROVE  \A kind \in Kinds : budget'[kind] <= budget[kind] /\ budget'[kind] <= Budget[kind]
<1> USE DEF Kinds
<1>1. budget \in [Kinds -> Nat] /\ \A kind \in Kinds : Budget[kind] \in Nat
  BY MonitorAssumption DEF Typed, TypeOK, Budget
<1>2. budget' = budget \/ \E kind \in Kinds : budget' = [budget EXCEPT ![kind] = @ - 1]
  <2>1. ASSUME NEW f \in Files, Edit(f) PROVE \E kind \in Kinds : budget' = [budget EXCEPT ![kind] = @ - 1]
    BY <2>1 DEF Edit, Spend
  <2>2. ASSUME NEW m \in Monitors, Cycle(m) PROVE budget' = budget
    BY <2>2 DEF Cycle, Open, ReadFile, Adopt, Seed, Seeded, Scan, Compare, BatchRead, BatchWrite,
       RecordRead, RecordWrite, Index, Indexed, Analyze, Archive, Finish
  <2>3. ASSUME NEW m \in Monitors, Mishap(m)
        PROVE  \E kind \in Kinds : budget' = [budget EXCEPT ![kind] = @ - 1]
    BY <2>3 DEF Mishap, ReadFileFails, ArchiveFails, Raise, Stop, Crash, Spend
  <2> QED
    BY <2>1, <2>2, <2>3 DEF Next, vars
<1> QED
  BY <1>1, <1>2

LEMMA LastingStep ==
  ASSUME NEW m, NEW c, Alone(m, c), ChainInv(m, c), [Next]_vars
  PROVE  Lasting(m)'
<1> USE DEF At, stored, history
<1>0. /\ m \in Monitors /\ mon[m] \in Local /\ mon \in [Monitors -> Local] /\ Typed
      /\ disk \in Tree /\ budget \in [Kinds -> Nat] /\ Absent \notin Contents
      /\ budget["faults"] = 0
  BY MonitorAssumption DEF ChainInv, RingInv, Typed, TypeOK, Alone
<1> SUFFICES ASSUME AllRead'
             PROVE  Present(m)'
  BY DEF Lasting
<1>1. AllRead
  BY <1>0, MonitorAssumption, BudgetShrinks DEF ChainInv, AllRead, Kinds, Budget
<1>12. Present(m)
  BY <1>1 DEF ChainInv, Lasting
<1>2. CASE UNCHANGED <<disk, mon>>
  BY <1>12, <1>2 DEF Present
<1>3. ASSUME NEW f \in Files, Edit(f) PROVE Present(m)'
  BY <1>12, <1>0, <1>3 DEF Edit, Present, Tree
<1>4. CASE Open(m)
  BY <1>12, <1>0, <1>4 DEF Open, Present, NotStarted
<1>5. CASE ReadFile(m)
  <2>1. PICK f \in mon[m].todo :
          mon' = [mon EXCEPT ![m].fresh[f] = disk[f], ![m].todo = @ \ {f}]
    BY <1>12, <1>5 DEF ReadFile
  <2>2. /\ mon'[m].pc = "read" /\ mon'[m].todo = mon[m].todo \ {f} /\ disk' = disk
        /\ mon'[m].fresh = [mon[m].fresh EXCEPT ![f] = disk[f]]
        /\ mon[m].pc = "read" /\ mon[m].fresh \in Tree
    BY <1>12, <1>0, <1>5, <2>1 DEF ReadFile, Local
  <2> QED
    BY <1>12, <2>2 DEF Present, Tree
<1>6. CASE Adopt(m) \/ Compare(m)
  <2>1. /\ mon'[m].snap = mon[m].fresh /\ mon'[m].pc # "read" /\ disk' = disk
        /\ mon[m].pc = "read" /\ mon[m].todo = {}
    BY <1>12, <1>0, <1>6 DEF Adopt, Compare, NewSnapshot, Local
  <2> QED
    BY <1>12, <2>1 DEF Present
<1>7. CASE Scan(m)
  BY <1>12, <1>0, <1>7 DEF Scan, Present, Local
<1>8. CASE Stop(m) \/ Crash(m)
  BY <1>12, <1>0, <1>8 DEF Stop, Crash, Present, NotStarted
<1>9. CASE Seed(m) \/ BatchRead(m) \/ BatchWrite(m) \/ RecordRead(m) \/ RecordWrite(m)
           \/ Index(m) \/ Indexed(m) \/ Analyze(m) \/ Archive(m)
  <2>1. /\ mon'[m].snap = mon[m].snap /\ mon'[m].pc \notin {"down", "read"} /\ disk' = disk
        /\ mon[m].pc \notin {"down", "read"}
    <3>1. CASE Seed(m) \/ BatchRead(m) \/ BatchWrite(m)
      BY <1>12, <1>0, <3>1 DEF Seed, BatchRead, BatchWrite, Local
    <3>2. CASE RecordRead(m) \/ RecordWrite(m) \/ Index(m)
      BY <1>12, <1>0, <3>2 DEF RecordRead, RecordWrite, Index, Local
    <3>3. CASE Indexed(m) \/ Analyze(m) \/ Archive(m)
      BY <1>12, <1>0, <3>3 DEF Indexed, Analyze, Archive, Local
    <3> QED
      BY <1>12, <1>9, <3>1, <3>2, <3>3
  <2> QED
    BY <1>12, <2>1 DEF Present
<1>10. CASE Seeded(m) \/ Finish(m)
  <2>1. Between(m).pc = "idle" /\ Between(m).snap = mon[m].snap
    BY DEF Between, NotStarted
  <2>2. /\ mon'[m].snap = mon[m].snap /\ mon'[m].pc = "idle" /\ disk' = disk
        /\ mon[m].pc \notin {"down", "read"}
    BY <1>12, <1>0, <1>10, <2>1 DEF Seeded, Finish
  <2> QED
    BY <1>12, <2>2 DEF Present
<1>11. CASE ReadFileFails(m) \/ ArchiveFails(m) \/ Raise(m)
  BY <1>12, <1>0, <1>1, <1>11, MonitorAssumption DEF ReadFileFails, ArchiveFails, Raise, Spend, AllRead, Kinds
<1> QED
  BY <1>2, <1>3, <1>4, <1>5, <1>6, <1>7, <1>8, <1>9, <1>10, <1>11
     DEF Next, Cycle, Mishap, Alone, vars

LEMMA CarriedKept ==
  ASSUME NEW m, Carried(m), UNCHANGED <<index, hist, known>>,
         mon'[m].pc = mon[m].pc, mon'[m].first = mon[m].first, mon'[m].snap = mon[m].snap,
         mon'[m].events = mon[m].events, mon'[m].at = mon[m].at,
         mon[m].pc = "seed" => mon'[m].todo = mon[m].todo
  PROVE  Carried(m)'
BY DEF Carried, Opening, Blank, Persisted, Waiting, Settled

\* The first cycle: what is in the index, or the whole tree, becomes what is known.
LEMMA StartCarried ==
  ASSUME NEW m, NEW c, Alone(m, c), Steady, ChainInv(m, c), Carried(m),
         Open(m) \/ Adopt(m) \/ Seed(m) \/ Seeded(m)
  PROVE  Carried(m)'
<1> USE DEF At, stored, history
<1>0. /\ m \in Monitors /\ mon[m] \in Local /\ mon \in [Monitors -> Local]
      /\ index \in [Files -> [content : Versions, last : Nat]] /\ Between(m).pc = "idle"
      /\ Between(m).snap = mon[m].snap
  BY DEF ChainInv, RingInv, Typed, TypeOK, Alone, Between, NotStarted
<1>1. CASE Open(m)
  <2>1. /\ UNCHANGED <<index, hist, known>> /\ mon[m].pc = "down"
        /\ mon'[m].pc = "read" /\ mon'[m].first = TRUE /\ mon'[m].snap = Persisted
    <3>1. /\ UNCHANGED <<index, hist, known>> /\ mon[m].pc = "down"
          /\ \E k : mon' = [mon EXCEPT ![m] = [NotStarted EXCEPT
                       !.pc = "read", !.cap = k, !.snap = Persisted, !.todo = Files]]
      BY <1>1 DEF Open
    <3>2. \E k : mon'[m] = [NotStarted EXCEPT
                       !.pc = "read", !.cap = k, !.snap = Persisted, !.todo = Files]
      BY <1>0, <3>1
    <3> QED
      BY <3>1, <3>2 DEF NotStarted
  <2> QED
    BY <2>1 DEF Carried, Opening, Blank, Persisted, Waiting, Settled
<1>2. CASE Adopt(m)
  <2>1. Opening(m) /\ mon[m].snap = Persisted /\ (~RecordOffline \/ Blank)
    BY <1>2 DEF Adopt, Baseline, Opening, Carried, Persisted, Blank
  <2>2. hist = {} /\ Blank
    BY <2>1 DEF Carried, Steady
  <2>3. /\ mon'[m].pc = "seed" /\ mon'[m].snap = mon[m].fresh
        /\ mon'[m].todo = {f \in Files : mon[m].fresh[f] # Absent}
        /\ known' = mon[m].fresh /\ index' = index
    BY <1>0, <1>2, <2>2 DEF Adopt, Local
  <2>4. ASSUME NEW f \in Files \ mon'[m].todo PROVE index'[f].content = mon'[m].snap[f]
    BY <2>2, <2>3 DEF Blank
  <2> QED
    BY <2>3, <2>4 DEF Carried, Opening, Waiting, Settled
<1>3. CASE Seed(m)
  <2>1. PICK f \in mon[m].todo :
          /\ index' = [index EXCEPT ![f] = [content |-> mon[m].snap[f], last |-> 0]]
          /\ mon' = [mon EXCEPT ![m].todo = @ \ {f}]
    BY <1>3 DEF Seed
  <2>2. /\ mon[m].pc = "seed" /\ mon'[m].pc = "seed" /\ mon'[m].snap = mon[m].snap
        /\ mon'[m].todo = mon[m].todo \ {f} /\ known' = known
    BY <1>0, <1>3, <2>1 DEF Seed, Local
  <2>3. ASSUME NEW g \in Files \ mon'[m].todo PROVE index'[g].content = mon'[m].snap[g]
    BY <1>0, <2>1, <2>2 DEF Carried
  <2> QED
    BY <2>2, <2>3 DEF Carried, Opening, Waiting, Settled
<1>4. CASE Seeded(m)
  <2>1. /\ mon[m].pc = "seed" /\ mon[m].todo = {} /\ UNCHANGED <<index, known>>
        /\ mon'[m].pc = "idle" /\ mon'[m].snap = mon[m].snap
    BY <1>0, <1>4 DEF Seeded
  <2>2. known = mon[m].snap /\ \A f \in Files : index[f].content = mon[m].snap[f]
    BY <2>1 DEF Carried
  <2>3. Persisted = known
    <3>1. mon[m].snap \in [Files -> Versions]
      BY <1>0 DEF Local, Tree
    <3> QED
      BY <2>2, <3>1 DEF Persisted
  <2>4. Persisted' = Persisted
    BY <2>1 DEF Persisted
  <2> QED
    BY <2>1, <2>2, <2>3, <2>4 DEF Carried, Opening, Waiting, Settled
<1> QED
  BY <1>1, <1>2, <1>3, <1>4

\* A scan finds what differs from what is known.
LEMMA CompareCarried ==
  ASSUME NEW m, NEW c, Alone(m, c), Steady, ChainInv(m, c), Carried(m), Compare(m)
  PROVE  Carried(m)'
<1> USE DEF At, stored, history
<1> DEFINE old == mon[m].snap
           new == mon[m].fresh
           evs == Changes(old, new)
<1>0. /\ m \in Monitors /\ mon[m] \in Local /\ mon \in [Monitors -> Local]
      /\ old \in Tree /\ new \in Tree
  BY DEF ChainInv, RingInv, Typed, TypeOK, Alone, Local
<1>1. mon[m].pc = "read" /\ UNCHANGED <<index, known>>
  BY DEF Compare
<1>2. old = known /\ Persisted = known
  <2>1. CASE ~mon[m].first
    BY <1>1, <2>1 DEF Carried
  <2>2. CASE mon[m].first
    <3>1. Opening(m) /\ old = Persisted /\ \E f \in Files : old[f] # Absent
      BY <1>1, <2>2 DEF Opening, Carried, Compare, Baseline
    <3>2. ~Blank
      BY <3>1 DEF Blank, Persisted
    <3> QED
      BY <3>1, <3>2 DEF Carried
  <2> QED
    BY <2>1, <2>2
<1>3. Range(evs) = Differs(old, new)
  BY <1>0, ChangesRange
<1>4. Persisted' = Persisted
  BY <1>1 DEF Persisted
<1>5. CASE evs = <<>>
  <2>1. mon'[m].pc = "idle" /\ mon'[m].snap = new
    BY <1>0, <1>5 DEF Compare, NewSnapshot, Local
  <2>2. Range(evs) = {}
    BY <1>5 DEF Range
  <2>3. \A f \in Files : old[f] = new[f]
    BY <1>3, <2>2 DEF Differs
  <2>4. old = new
    BY <1>0, <2>3 DEF Tree
  <2> QED
    BY <1>1, <1>2, <1>4, <2>1, <2>4 DEF Carried, Opening, Waiting, Settled
<1>6. CASE evs # <<>>
  <2>1. mon'[m].pc = "batch" /\ mon'[m].snap = new /\ mon'[m].events = evs
    BY <1>0, <1>6 DEF Compare, NewSnapshot, Local
  <2> QED
    BY <1>1, <1>2, <1>3, <1>4, <2>1 DEF Carried, Opening, Waiting, Settled
<1> QED
  BY <1>5, <1>6

LEMMA RecordCarried ==
  ASSUME NEW m, NEW c, Alone(m, c), ChainInv(m, c), Carried(m), RecordWrite(m)
  PROVE  Carried(m)'
<1> USE DEF At
<1> DEFINE snap == mon[m].snap
           events == mon[m].events
<1>0. /\ m \in Monitors /\ mon[m] \in Local /\ mon \in [Monitors -> Local]
      /\ snap \in Tree /\ known \in Tree /\ events \in Seq(Changed)
  BY DEF ChainInv, RingInv, Typed, TypeOK, Alone, Local
<1>1. /\ mon[m].pc = "record" /\ index' = index /\ known' = Follow(known, events)
      /\ mon'[m].pc = "index" /\ mon'[m].at = 1 /\ mon'[m].events = events
      /\ mon'[m].snap = snap
  BY <1>0 DEF RecordWrite, Local
<1>2. Range(events) = Differs(known, snap) /\ Persisted = known
  BY <1>1 DEF Carried, Waiting
<1>3. known' = snap
  BY <1>0, <1>1, <1>2, FollowDiffers
<1>4. \A e \in Range(events) : e.new = snap[e.file]
  BY <1>2 DEF Differs, Change
<1>5. ASSUME NEW f \in Files, index[f].content # snap[f]
      PROVE  \E i \in 1..Len(events) : events[i].file = f
  <2>1. known[f] # snap[f]
    <3>1. Persisted[f] = index[f].content
      BY DEF Persisted
    <3> QED
      BY <1>2, <1>5, <3>1
  <2>2. Change(f, known, snap) \in Range(events)
    BY <1>2, <2>1 DEF Differs
  <2>3. PICK i \in DOMAIN events : events[i] = Change(f, known, snap)
    BY <2>2 DEF Range
  <2>4. i \in 1..Len(events)
    BY <1>0
  <2>5. events[i].file = f
    BY <2>3 DEF Change
  <2> QED
    BY <2>4, <2>5
<1> HIDE DEF snap, events
<1>6. mon'[m].pc = "index" =>
        /\ mon'[m].snap = known'
        /\ \A e \in Range(mon'[m].events) : e.new = known'[e.file]
        /\ \A f \in Files : \/ index'[f].content = known'[f]
                            \/ \E i \in mon'[m].at..Len(mon'[m].events) :
                                  mon'[m].events[i].file = f
  BY <1>1, <1>3, <1>4, <1>5
<1> QED
  BY <1>1, <1>6 DEF Carried, Opening, Waiting, Settled

\* Each event takes its file's row to what is known of it.
LEMMA IndexCarried ==
  ASSUME NEW m, NEW c, Alone(m, c), ChainInv(m, c), Carried(m), Index(m) \/ Indexed(m)
  PROVE  Carried(m)'
<1> USE DEF At, stored, history
<1> DEFINE events == mon[m].events
           at == mon[m].at
<1>0. /\ m \in Monitors /\ mon[m] \in Local /\ mon \in [Monitors -> Local]
      /\ index \in [Files -> [content : Versions, last : Nat]] /\ known \in [Files -> Versions]
      /\ events \in Seq(Changed) /\ at \in Nat \ {0} /\ Len(events) \in Nat
  <2>1. mon[m].pc = "index"
    BY DEF Index, Indexed
  <2>2. m \in Monitors /\ Typed
    BY DEF ChainInv, RingInv, Alone
  <2> QED
    BY <2>1, <2>2, TypedFacts DEF Typed, TypeOK, Local, InOrder, Tree
<1>1. /\ mon[m].pc = "index" /\ mon[m].snap = known
      /\ \A e \in Range(events) : e.new = known[e.file]
      /\ \A f \in Files : \/ index[f].content = known[f]
                          \/ \E i \in at..Len(events) : events[i].file = f
  BY DEF Carried, Index, Indexed
<1>2. CASE Index(m)
  <2> DEFINE e == events[at]
  <2>1. /\ at <= Len(events) /\ index' = [index EXCEPT ![e.file] = RowFor(m, e)]
        /\ known' = known /\ mon'[m].pc = "index" /\ mon'[m].at = at + 1
        /\ mon'[m].events = events /\ mon'[m].snap = mon[m].snap
    BY <1>0, <1>2 DEF Index, Local
  <2>2. at \in DOMAIN events /\ e \in Changed /\ e \in Range(events)
    <3>1. at \in DOMAIN events
      BY <1>0, <2>1
    <3> QED
      BY <1>0, <3>1 DEF Range
  <2>3. e.file \in Files /\ e.new = known[e.file]
    BY <1>1, <2>2 DEF Changed
  <2>4. RowFor(m, e).content = e.new
    BY DEF RowFor, NoFile
  <2> HIDE DEF e, events, at
  <2>5. ASSUME NEW f \in Files
        PROVE  \/ index'[f].content = known[f]
               \/ \E i \in (at + 1)..Len(events) : events[i].file = f
    <3>1. CASE f = e.file
      BY <1>0, <2>1, <2>3, <2>4, <3>1
    <3>2. CASE f # e.file
      <4>1. index'[f] = index[f]
        BY <1>0, <2>1, <3>2
      <4>2. \A i \in at..Len(events) : i = at \/ i \in (at + 1)..Len(events)
        BY <1>0
      <4> QED
        BY <1>1, <3>2, <4>1, <4>2 DEF e
    <3> QED
      BY <3>1, <3>2
  <2>6. mon'[m].pc = "index" =>
          /\ mon'[m].snap = known'
          /\ \A d \in Range(mon'[m].events) : d.new = known'[d.file]
          /\ \A f \in Files : \/ index'[f].content = known'[f]
                              \/ \E i \in mon'[m].at..Len(mon'[m].events) :
                                    mon'[m].events[i].file = f
    BY <1>1, <2>1, <2>5
  <2> QED
    BY <2>1, <2>6 DEF Carried, Opening, Waiting, Settled
<1>3. CASE Indexed(m)
  <2>1. /\ at > Len(events) /\ UNCHANGED <<index, known>> /\ mon'[m].pc = "analyze"
        /\ mon'[m].snap = mon[m].snap
    BY <1>0, <1>3 DEF Indexed, Local
  <2>2. at..Len(events) = {}
    BY <1>0, <2>1
  <2>3. Persisted = known
    BY <1>0, <1>1, <2>2 DEF Persisted
  <2>4. Persisted' = Persisted
    BY <2>1 DEF Persisted
  <2> QED
    BY <1>1, <2>1, <2>3, <2>4 DEF Carried, Opening, Waiting, Settled
<1> QED
  BY <1>2, <1>3

\* What a cycle does between those steps, and after them.
LEMMA RestCarried ==
  ASSUME NEW m, NEW c, Alone(m, c), ChainInv(m, c), Carried(m),
         Scan(m) \/ BatchRead(m) \/ BatchWrite(m) \/ RecordRead(m) \/ Analyze(m) \/ Archive(m)
           \/ Finish(m)
  PROVE  Carried(m)'
<1> USE DEF At, stored, history
<1>0. /\ m \in Monitors /\ mon[m] \in Local /\ mon \in [Monitors -> Local]
      /\ Between(m).pc = "idle" /\ Between(m).snap = mon[m].snap
  BY DEF ChainInv, RingInv, Typed, TypeOK, Alone, Between, NotStarted
<1>1. CASE Scan(m)
  <2>1. /\ mon[m].pc = "idle" /\ mon'[m].pc = "read" /\ ~mon'[m].first
        /\ mon'[m].snap = mon[m].snap /\ UNCHANGED <<index, known>>
    BY <1>0, <1>1 DEF Scan, Local, ChainInv
  <2> QED
    BY <2>1 DEF Carried, Opening, Persisted, Waiting, Settled
<1>2. CASE BatchRead(m) \/ BatchWrite(m) \/ RecordRead(m)
  <2>1. /\ mon[m].pc \in Waiting /\ mon'[m].pc \in Waiting /\ mon'[m].events = mon[m].events
        /\ mon'[m].snap = mon[m].snap /\ UNCHANGED <<index, known>>
    BY <1>0, <1>2 DEF BatchRead, BatchWrite, RecordRead, Local, Waiting
  <2> QED
    BY <2>1 DEF Carried, Opening, Persisted, Waiting, Settled
<1>3. CASE Analyze(m) \/ Archive(m) \/ Finish(m)
  <2>1. /\ mon[m].pc \in Settled /\ mon'[m].pc \in Settled
        /\ mon'[m].snap = mon[m].snap /\ UNCHANGED <<index, known>>
    BY <1>0, <1>3 DEF Analyze, Archive, Finish, Local, Settled
  <2> QED
    BY <2>1 DEF Carried, Opening, Persisted, Waiting, Settled
<1> QED
  BY <1>1, <1>2, <1>3

\* A monitor that stops between two cycles leaves an index that says where it was.
LEMMA StopCarried ==
  ASSUME NEW m, NEW c, Alone(m, c), Steady, ChainInv(m, c), AllRead, Carried(m), Stop(m)
  PROVE  Carried(m)'
<1>1. /\ m \in Monitors /\ mon \in [Monitors -> Local] /\ budget["stops"] \in Nat
      /\ budget["stops"] <= MaxStops /\ MaxStops \in Nat
  BY MonitorAssumption DEF ChainInv, RingInv, Typed, TypeOK, Alone, Kinds, Budget
<1>2. /\ mon[m].pc = "idle" /\ mon'[m].pc = "down" /\ UNCHANGED <<index, hist, known>>
      /\ MaxStops # 0
  BY <1>1 DEF Stop, At, Spend, stored, history, NotStarted
<1>3. PICK f \in Files \ Deletable : mon[m].snap[f] # Absent
  BY <1>2 DEF Steady, ChainInv, Lasting, Present
<1>4. mon[m].snap = known /\ Persisted = known
  BY <1>2 DEF Carried, Settled
<1>5. ~Blank
  <2>1. Persisted[f] = index[f].content
    BY DEF Persisted
  <2> QED
    BY <1>3, <1>4, <2>1 DEF Blank
<1> QED
  BY <1>2, <1>4, <1>5 DEF Carried, Opening, Blank, Persisted, Waiting, Settled

LEMMA CarriedStep ==
  ASSUME NEW m, NEW c, Alone(m, c), Steady, ChainInv(m, c), [Next]_vars, Unharmed'
  PROVE  Carried(m)'
<1> USE DEF At, stored, history
<1>0. /\ m \in Monitors /\ mon[m] \in Local /\ mon \in [Monitors -> Local] /\ Typed
      /\ budget["faults"] = 0 /\ budget \in [Kinds -> Nat]
  BY DEF ChainInv, RingInv, Typed, TypeOK, Alone
\* What is left of a budget is all of it only if it was all of it before.
<1>1. /\ \A kind \in {"crashes", "faults", "unread"} :
           budget[kind] \in Nat /\ budget[kind] = Budget[kind] /\ budget'[kind] = budget[kind]
      /\ Unharmed /\ AllRead /\ Carried(m)
  <2>1. \A kind \in Kinds : /\ budget'[kind] <= budget[kind] /\ budget[kind] <= Budget[kind]
                            /\ budget[kind] \in Nat /\ Budget[kind] \in Nat
    BY <1>0, BudgetShrinks, MonitorAssumption DEF ChainInv, Kinds, Budget
  <2>2. \A kind \in {"crashes", "faults", "unread"} : kind \in Kinds /\ budget'[kind] = Budget[kind]
    BY DEF Unharmed, Kinds, Budget
  <2>3. \A kind \in {"crashes", "faults", "unread"} :
          budget[kind] \in Nat /\ budget[kind] = Budget[kind] /\ budget'[kind] = budget[kind]
    BY <2>1, <2>2
  <2>4. Unharmed /\ AllRead
    BY <2>3 DEF Unharmed, AllRead, Budget
  <2> QED
    BY <2>3, <2>4 DEF ChainInv
<1>2. CASE ReadFileFails(m) \/ ArchiveFails(m) \/ Raise(m) \/ Crash(m)
  <2>1. \E kind \in {"crashes", "faults", "unread"} : budget' = [budget EXCEPT ![kind] = @ - 1]
    BY <1>2 DEF ReadFileFails, ArchiveFails, Raise, Crash, Spend
  <2> QED
    BY <1>0, <1>1, <2>1 DEF Kinds
<1>3. CASE UNCHANGED vars
  BY <1>1, <1>3, CarriedKept DEF vars
<1>4. ASSUME NEW f \in Files, Edit(f) PROVE Carried(m)'
  BY <1>1, <1>4, CarriedKept DEF Edit
<1>5. CASE ReadFile(m)
  <2>1. /\ UNCHANGED <<index, hist, known>> /\ mon[m].pc = "read"
        /\ \E f \in mon[m].todo : mon' = [mon EXCEPT ![m].fresh[f] = disk[f], ![m].todo = @ \ {f}]
    BY <1>5 DEF ReadFile
  <2>2. /\ mon'[m].pc = mon[m].pc /\ mon'[m].first = mon[m].first /\ mon'[m].snap = mon[m].snap
        /\ mon'[m].events = mon[m].events /\ mon'[m].at = mon[m].at
    BY <1>0, <2>1 DEF Local
  <2> QED
    BY <1>1, <2>1, <2>2, CarriedKept
<1>6. CASE Cycle(m) /\ ~ReadFile(m)
  BY <1>1, <1>6, StartCarried, CompareCarried, RecordCarried, IndexCarried, RestCarried DEF Cycle
<1>7. CASE Stop(m)
  BY <1>1, <1>7, StopCarried
<1> QED
  BY <1>2, <1>3, <1>4, <1>5, <1>6, <1>7 DEF Next, Mishap, Alone

LEMMA IdleStep ==
  ASSUME NEW m, NEW c, Alone(m, c), ChainInv(m, c), [Next]_vars
  PROVE  (mon[m].pc = "idle" => ~mon[m].first)'
<1> USE DEF At, stored, history
<1>0. /\ m \in Monitors /\ mon[m] \in Local /\ mon \in [Monitors -> Local]
      /\ budget["faults"] = 0 /\ (mon[m].pc = "idle" => ~mon[m].first)
      /\ NotStarted.pc = "down" /\ ~Between(m).first
  BY DEF ChainInv, RingInv, Typed, TypeOK, Alone, Between, NotStarted
<1>1. CASE mon' = mon
  BY <1>0, <1>1
<1>2. CASE Open(m) \/ Adopt(m) \/ Seed(m) \/ Scan(m)
  <2>1. CASE Open(m)
    BY <1>0, <2>1 DEF Open, NotStarted
  <2>2. CASE Adopt(m)
    BY <1>0, <2>2 DEF Adopt, Local
  <2>3. CASE Seed(m)
    BY <1>0, <2>3 DEF Seed, Local
  <2>4. CASE Scan(m)
    BY <1>0, <2>4 DEF Scan, Local
  <2> QED
    BY <1>2, <2>1, <2>2, <2>3, <2>4
<1>3. CASE Compare(m)
  <2>1. mon'[m].pc = "idle" => mon'[m].first = FALSE
    BY <1>0, <1>3 DEF Compare, Local
  <2> QED
    BY <2>1
<1>4. CASE ReadFile(m) \/ ReadFileFails(m)
  <2>1. mon[m].pc = "read" /\ mon'[m].pc = mon[m].pc
    BY <1>0, <1>4 DEF ReadFile, ReadFileFails, Local
  <2> QED
    BY <2>1
<1>5. CASE BatchRead(m) \/ BatchWrite(m) \/ RecordRead(m) \/ RecordWrite(m) \/ Index(m)
           \/ Indexed(m) \/ Analyze(m) \/ Archive(m)
  <2>1. mon'[m].pc # "idle"
    BY <1>0, <1>5 DEF BatchRead, BatchWrite, RecordRead, RecordWrite, Index, Indexed, Analyze,
       Archive, Local
  <2> QED
    BY <2>1
<1>6. CASE Seeded(m) \/ Finish(m) \/ Stop(m) \/ Crash(m)
  BY <1>0, <1>6 DEF Seeded, Finish, Stop, Crash
<1>7. CASE ArchiveFails(m) \/ Raise(m)
  BY <1>0, <1>7 DEF ArchiveFails, Raise, Spend
<1> QED
  BY <1>1, <1>2, <1>3, <1>4, <1>5, <1>6, <1>7 DEF Next, Cycle, Mishap, Alone, Edit, vars

LEMMA ChainInvStep ==
  ASSUME NEW m, NEW c, Alone(m, c), Steady, ChainInv(m, c), [Next]_vars
  PROVE  ChainInv(m, c)'
<1>1. RingInv(m, c)'
  BY RingInvStep DEF ChainInv
<1>2. \A kind \in Kinds : budget'[kind] <= Budget[kind]
  BY BudgetShrinks DEF ChainInv, RingInv
<1>3. Lasting(m)'
  BY LastingStep
<1>4. (mon[m].pc = "idle" => ~mon[m].first)'
  BY IdleStep
<1>5. (Unharmed => Carried(m))'
  BY CarriedStep
<1> QED
  BY <1>1, <1>2, <1>3, <1>4, <1>5 DEF ChainInv, Budget

LEMMA InitChain ==
  ASSUME NEW m, NEW c, Alone(m, c), Init
  PROVE  ChainInv(m, c)
<1>1. RingInv(m, c)
  BY InitRing
<1>2. /\ mon[m].pc = "down" /\ budget = Budget /\ hist = {} /\ Blank
      /\ \A f \in Files \ Deletable : disk[f] # Absent
  BY DEF Init, NotStarted, Alone, Blank, NoFile
<1>3. \A kind \in Kinds : budget[kind] <= Budget[kind]
  <2>1. budget \in [Kinds -> Nat]
    BY <1>1 DEF RingInv, Typed, TypeOK
  <2> QED
    BY <1>2, <2>1
<1>4. Lasting(m) /\ Carried(m)
  BY <1>2 DEF Lasting, Present, Carried, Opening, Waiting, Settled
<1> QED
  BY <1>1, <1>2, <1>3, <1>4 DEF ChainInv

\* An event is committed only with the content its file was last told to have.
LEMMA StepIsChained ==
  ASSUME NEW m, NEW c, Alone(m, c), ChainInv(m, c), [Next]_vars
  PROVE  Unharmed => \A e \in hist' \ hist : e.change.old = known[e.change.file]
<1> SUFFICES ASSUME Unharmed, NEW e \in hist' \ hist
             PROVE  e.change.old = known[e.change.file]
  OBVIOUS
<1>1. RecordWrite(m)
  <2>1. ASSUME NEW f \in Files, Edit(f) PROVE FALSE
    BY <2>1 DEF Edit, history
  <2>2. CASE (Cycle(m) \/ Mishap(m)) /\ ~RecordWrite(m) /\ ~Analyze(m)
    BY <2>2, RingElsewhere DEF ChainInv
  <2>3. ~Analyze(m) /\ ~UNCHANGED vars
    BY DEF Analyze, vars, history
  <2> QED
    BY <2>1, <2>2, <2>3 DEF Next, Alone
<1>2. PICK i \in 1..Len(mon[m].events) : e = [seq |-> mon[m].base + i, change |-> mon[m].events[i]]
  BY <1>1 DEF RecordWrite, Recorded
<1>3. Range(mon[m].events) = Differs(known, mon[m].snap)
  BY <1>1 DEF RecordWrite, At, ChainInv, Carried, Waiting
<1>4. e.change \in Range(mon[m].events)
  <2>1. mon[m].events \in Seq(Changed)
    BY DEF ChainInv, RingInv, Typed, TypeOK, Local, Alone
  <2> QED
    BY <1>2, <2>1 DEF Range
<1> QED
  BY <1>3, <1>4 DEF Differs, Change

\* The events of a file follow on from each other: as long as no death hits it and every
\* file can be read, one monitor records each change from the content that the event before,
\* or the baseline, ended with, over any number of stops and restarts, wherever Steady has it
\* find a file of its last run in the index.
THEOREM ChainInvariance ==
  ASSUME NEW m, NEW c, Alone(m, c), Steady
  PROVE  Spec => Chained
<1>1. Init => ChainInv(m, c)
  BY InitChain
<1>2. ChainInv(m, c) /\ [Next]_vars => ChainInv(m, c)'
  BY ChainInvStep
<1>3. ChainInv(m, c) /\ [Next]_vars =>
        [Unharmed => \A e \in hist' \ hist : e.change.old = known[e.change.file]]_vars
  BY StepIsChained
<1> QED
  BY <1>1, <1>2, <1>3, PTL DEF Spec, Chained

=============================================================================
