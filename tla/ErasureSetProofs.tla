-------------------------- MODULE ErasureSetProofs --------------------------
(***************************************************************************)
(* ErasureSet for any number of roots, shards and stripes, and any number  *)
(* of faults: the placement of a repair is one, a manifest means that the  *)
(* set can be restored, and a repair only ever adds.  And FileLock, the    *)
(* lock of the set's key, for every set of processes and inodes.           *)
(***************************************************************************)
EXTENDS ErasureSet, FileLock, WellFoundedInduction, FiniteSetTheorems, TLAPS

-----------------------------------------------------------------------------
(* Extrema and finite sets                                                 *)

\* A nonempty set of numbers has a least.
LEMMA MinIs ==
  ASSUME NEW S \in SUBSET Nat, S # {}
  PROVE  Min(S) \in S /\ \A y \in S : Min(S) <= y
<1> DEFINE R == {p \in Nat \X Nat : p[1] < p[2]}
<1>1. IsWellFoundedOn(R, Nat)
  BY NatLessThanWellFounded DEF OpToRel
<1>2. PICK x \in S : \A y \in S : ~ (<<y, x>> \in R)
  <2> HIDE DEF R
  <2> QED
    BY <1>1, WFMin
<1>3. \A y \in S : x <= y
  <2> SUFFICES ASSUME NEW y \in S, y < x PROVE FALSE
    OBVIOUS
  <2>1. <<y, x>> \in Nat \X Nat /\ <<y, x>>[1] < <<y, x>>[2]
    OBVIOUS
  <2>2. <<y, x>> \in R
    BY <2>1
  <2> QED
    BY <2>2, <1>2
<1> QED
  BY <1>3 DEF Min

LEMMA Parameters ==
  /\ NRoots \in Nat \ {0} /\ K \in Nat \ {0} /\ NStripes \in Nat \ {0} /\ M \in Nat
  /\ {MaxHits, MaxOutages, MaxCrashes} \subseteq Nat
  /\ None \notin Roots /\ None \notin Place /\ None \notin Placement /\ Bad \notin Placement
  /\ None # Bad /\ Primary \notin Roots
BY ErasureSetAssumption DEF Roots, Primary

LEMMA ShardsFinite ==
  ASSUME NEW S \in SUBSET Shards
  PROVE  IsFiniteSet(S) /\ Cardinality(S) \in Nat /\ S \in SUBSET Nat
<1>1. IsFiniteSet(Shards)
  <2>1. 0 \in Int /\ K + M - 1 \in Int
    BY Parameters
  <2> QED
    BY <2>1, FS_Interval DEF Shards
<1>2. IsFiniteSet(S)
  BY <1>1, FS_Subset
<1> QED
  BY <1>2, FS_CardinalityType DEF Shards

LEMMA LeastRoot ==
  ASSUME NEW S \in SUBSET Roots, S # {}
  PROVE  Min(S) \in S
<1>1. S \in SUBSET Nat
  BY DEF Roots
<1> QED
  BY <1>1, MinIs

-----------------------------------------------------------------------------
(* Reading and placing                                                     *)

\* What the proofs below use of TypeOK.
LEMMA TypeFacts ==
  ASSUME TypeOK
  PROVE  /\ place \in [Roots -> Place] /\ away \in [Roots -> Place \cup {None}]
         /\ \A r \in Roots : /\ place[r].files \in SUBSET Shards /\ place[r].dir \in BOOLEAN
                             /\ place[r].good \in SUBSET (Shards \X Stripes)
                             /\ place[r].tmp \in SUBSET Shards /\ place[r].man \in Copies
         /\ plan \in Placement /\ primary \in Copies
BY DEF TypeOK, Place

\* A manifest is a placement; somewhere there is a copy of it.
LEMMA ManifestIs ==
  ASSUME TypeOK, Manifest # None
  PROVE  /\ Manifest \in Placement
         /\ primary = Manifest \/ \E r \in Roots : place[r].man = Manifest
<1> DEFINE replicas == {r \in Roots : Readable(place[r].man)}
<1>1. CASE Readable(primary)
  BY <1>1, TypeFacts DEF Manifest, Readable, Copies
<1>2. CASE ~Readable(primary)
  <2>1. replicas # {} /\ Manifest = place[Min(replicas)].man
    BY <1>2 DEF Manifest
  <2>2. Min(replicas) \in replicas
    BY <2>1, LeastRoot
  <2> QED
    BY <2>1, <2>2, TypeFacts DEF Readable, Copies
<1> QED
  BY <1>1, <1>2

Holders(i) == {r \in Roots : i \in place[r].files}

\* A shard that some root has is located, at one of them.
LEMMA LocateIs ==
  ASSUME NEW man, NEW i \in Shards
  PROVE  /\ Locate(man, i) \in Holders(i) \cup {None}
         /\ Holders(i) # {} => Locate(man, i) \in Holders(i) /\ Locate(man, i) # None
         /\ Holders(i) = {} => Locate(man, i) \in {None, man[i]}
<1>1. Holders(i) # {} => Min(Holders(i)) \in Holders(i)
  BY LeastRoot DEF Holders
<1> QED
  BY <1>1, Parameters DEF Locate, Holders

LEMMA LoadIs ==
  ASSUME NEW at, NEW r
  PROVE  Load(at, r) \in Nat
<1>1. {i \in Shards : at[i] = r} \in SUBSET Shards
  OBVIOUS
<1> QED
  BY <1>1, ShardsFinite DEF Load

\* _pick_root finds a directory, if there is one.
LEMMA PickRootIs ==
  ASSUME NEW at, \E r \in Roots : place[r].dir
  PROVE  PickRoot(at) \in Roots /\ place[PickRoot(at)].dir
<1> DEFINE usable == {r \in Roots : place[r].dir}
           least == {r \in usable : \A q \in usable : Load(at, r) <= Load(at, q)}
           loads == {Load(at, r) : r \in usable}
<1>1. loads \in SUBSET Nat /\ loads # {}
  BY LoadIs
<1>2. Min(loads) \in loads /\ \A y \in loads : Min(loads) <= y
  <2> HIDE DEF loads
  <2> QED
    BY <1>1, MinIs
<1>3. least # {}
  <2>1. PICK r \in usable : Min(loads) = Load(at, r)
    BY <1>2
  <2>2. \A q \in usable : Load(at, q) \in loads
    OBVIOUS
  <2> HIDE DEF loads
  <2>3. \A q \in usable : Load(at, r) <= Load(at, q)
    BY <1>2, <2>1, <2>2
  <2> QED
    BY <2>1, <2>3
<1>4. Min(least) \in least
  <2>1. least \in SUBSET Roots
    OBVIOUS
  <2> HIDE DEF least
  <2> QED
    BY <1>3, <2>1, LeastRoot
<1> QED
  BY <1>4 DEF PickRoot

LEMMA HomeIs ==
  ASSUME NEW man \in Placement, NEW at, NEW i \in Shards, \E r \in Roots : place[r].dir
  PROVE  Home(man, at, i) \in Roots
<1>1. Locate(man, i) # None => Locate(man, i) \in Roots
  BY LocateIs DEF Holders
<1>2. man[i] \in Roots
  BY DEF Placement
<1> QED
  BY <1>1, <1>2, PickRootIs DEF Home

\* The damaged shards can be placed one after the other.
LEMMA TargetsIs ==
  ASSUME TypeOK, NEW man \in Placement, \E r \in Roots : place[r].dir
  PROVE  Targets(man) \in Placement
<1> DEFINE Placed(at, i) ==
             at[i] = IF i \in Damaged(man) THEN Home(man, PlacedBefore(man, at, i), i)
                                           ELSE Locate(man, i)
           Upto(n) == \E at \in Placement : \A i \in Shards : i < n => Placed(at, i)
           Short == {n \in Nat : ~Upto(n)}
<1>1. Upto(0)
  BY DEF Shards
<1>2. ASSUME NEW n \in Nat, Upto(n) PROVE Upto(n + 1)
  <2>1. PICK at \in Placement : \A i \in Shards : i < n => Placed(at, i)
    BY <1>2
  <2>2. CASE n \notin Shards
    <3>1. \A i \in Shards : i < n + 1 => i < n
      BY <2>2 DEF Shards
    <3> QED
      BY <2>1, <3>1
  <2>3. CASE n \in Shards
    <3> DEFINE here == IF n \in Damaged(man) THEN Home(man, PlacedBefore(man, at, n), n)
                                             ELSE Locate(man, n)
               then == [at EXCEPT ![n] = here]
    <3>1. here \in Roots
      <4>1. CASE n \in Damaged(man)
        BY <2>3, <4>1, HomeIs
      <4>2. CASE n \notin Damaged(man)
        <5>1. \A s \in Stripes : Locate(man, n) # None
          BY <2>3, <4>2 DEF Damaged, Intact
        <5>2. 1 \in Stripes
          BY Parameters DEF Stripes
        <5> QED
          BY <2>3, <4>2, <5>1, <5>2, LocateIs DEF Holders
      <4> QED
        BY <4>1, <4>2
    <3> HIDE DEF here
    <3>2. then \in Placement
      BY <3>1 DEF Placement
    <3>3. \A i \in Shards : i < n + 1 => PlacedBefore(man, then, i) = PlacedBefore(man, at, i)
      BY <2>3 DEF PlacedBefore, Shards, Placement
    <3>4. ASSUME NEW i \in Shards, i < n + 1 PROVE Placed(then, i)
      <4>1. CASE i = n
        <5>1. then[i] = here
          BY <2>3, <4>1 DEF Placement
        <5> QED
          BY <3>3, <3>4, <4>1, <5>1 DEF here
      <4>2. CASE i # n
        <5>1. i < n /\ then[i] = at[i]
          BY <2>3, <3>4, <4>2 DEF Placement, Shards
        <5> HIDE DEF then
        <5> QED
          BY <2>1, <3>3, <3>4, <5>1
      <4> QED
        BY <4>1, <4>2
    <3> HIDE DEF then, Placed
    <3> QED
      BY <3>2, <3>4
  <2> QED
    BY <2>2, <2>3
<1> HIDE DEF Placed
<1>3. Short = {}
  <2> SUFFICES ASSUME Short # {} PROVE FALSE
    OBVIOUS
  <2> DEFINE n == Min(Short)
  <2> HIDE DEF Upto
  <2>1. n \in Short /\ \A k \in Short : n <= k
    <3>1. Short \in SUBSET Nat
      OBVIOUS
    <3> HIDE DEF Short
    <3> QED
      BY <3>1, MinIs
  <2> HIDE DEF n
  <2>2. n # 0 /\ n \in Nat
    BY <1>1, <2>1
  <2>3. n - 1 \in Nat /\ n - 1 \notin Short
    BY <2>1, <2>2
  <2>4. Upto(n - 1)
    BY <2>3
  <2>5. Upto((n - 1) + 1)
    BY <1>2, <2>3, <2>4
  <2>6. (n - 1) + 1 = n
    BY <2>2
  <2> QED
    BY <2>1, <2>5, <2>6
<1>4. Upto(K + M)
  <2>1. K + M \in Nat
    BY Parameters
  <2> HIDE DEF Upto
  <2> QED
    BY <1>3, <2>1
<1>5. \E at \in Placement : \A i \in Shards : Placed(at, i)
  <2>1. PICK at \in Placement : \A i \in Shards : i < K + M => Placed(at, i)
    BY <1>4
  <2>2. \A i \in Shards : i < K + M
    BY Parameters DEF Shards
  <2> QED
    BY <2>1, <2>2
<1> QED
  BY <1>5 DEF Targets, Placed

-----------------------------------------------------------------------------
(* Types                                                                   *)

LEMMA RoundRobinIs == RoundRobin \in Placement
<1>1. NRoots \in Nat \ {0}
  BY Parameters
<1>2. ASSUME NEW i \in Shards PROVE (i % NRoots) + 1 \in Roots
  <2>1. i \in Nat
    BY DEF Shards
  <2>2. i % NRoots \in 0..(NRoots - 1)
    BY <1>1, <2>1
  <2> QED
    BY <1>1, <2>2 DEF Roots
<1> QED
  BY <1>2 DEF RoundRobin, Placement

\* An empty directory or mount point is a place.
LEMMA EmptyIs == ASSUME NEW d \in BOOLEAN PROVE Empty(d) \in Place
BY DEF Empty, Place, Copies

LEMMA HitIs ==
  ASSUME TypeOK, NEW lost \in SUBSET (Shards \X Stripes), Hit(lost)
  PROVE  hits' \in [Stripes -> Nat]
<1>1. IsFiniteSet(Shards) /\ IsFiniteSet(Stripes)
  <2>1. 1 \in Int /\ NStripes \in Int
    BY Parameters
  <2> QED
    BY <2>1, ShardsFinite, FS_Interval DEF Stripes
<1>2. IsFiniteSet(Shards \X Stripes)
  BY <1>1, FS_Product
<1>3. ASSUME NEW s PROVE Cardinality({b \in lost : b[2] = s}) \in Nat
  <2>1. {b \in lost : b[2] = s} \in SUBSET (Shards \X Stripes)
    OBVIOUS
  <2> QED
    BY <1>2, <2>1, FS_Subset, FS_CardinalityType
<1>4. hits \in [Stripes -> Nat] /\ \A s \in Stripes : hits[s] \in Nat
  BY DEF TypeOK
<1> DEFINE struck(s) == Cardinality({b \in lost : b[2] = s})
<1>5. hits' = [s \in Stripes |-> hits[s] + struck(s)] /\ \A s \in Stripes : struck(s) \in Nat
  BY <1>3 DEF Hit
<1> HIDE DEF struck
<1> QED
  BY <1>4, <1>5

LEMMA ManifestDirsIs ==
  ASSUME NEW man \in Placement
  PROVE  ManifestDirs(man) \subseteq Roots \cup {Primary}
BY DEF ManifestDirs, Placement, Range

LEMMA InitTypes == Init => TypeOK
<1> SUFFICES ASSUME Init PROVE TypeOK
  OBVIOUS
<1>1. RoundRobin \in Placement /\ Empty(TRUE) \in Place
  BY RoundRobinIs, EmptyIs
<1>2. MaxHits \in Nat /\ MaxOutages \in Nat /\ MaxCrashes \in Nat
  BY Parameters
<1>3. spent \in [hits : 0..MaxHits, outages : 0..MaxOutages, crashes : 0..MaxCrashes]
  BY <1>2 DEF Init
<1>4. place \in [Roots -> Place] /\ away \in [Roots -> Place \cup {None}] /\ primary \in Copies
  BY <1>1 DEF Init, Copies
<1> QED
  BY <1>1, <1>3, <1>4 DEF Init, TypeOK

\* What a step of a backup or a repair does to a root.
LEMMA WithTmp ==
  ASSUME NEW x \in Place, NEW T \in SUBSET Shards
  PROVE  /\ [x EXCEPT !.dir = TRUE, !.tmp = T] \in Place /\ [x EXCEPT !.tmp = T] \in Place
         /\ [x EXCEPT !.dir = TRUE, !.tmp = T].dir /\ [x EXCEPT !.tmp = T].dir = x.dir
BY DEF Place

LEMMA WithShard ==
  ASSUME NEW x \in Place, NEW i \in Shards
  PROVE  [x EXCEPT !.files = @ \cup {i}, !.tmp = @ \ {i}, !.good = @ \cup ({i} \X Stripes)]
           \in Place
<1>1. {i} \X Stripes \subseteq Shards \X Stripes
  OBVIOUS
<1> QED
  BY <1>1 DEF Place

LEMMA ScrubTypes == ASSUME TypeOK, Scrub PROVE TypeOK'
<1> USE DEF TypeOK, work
<1>1. CASE ScrubBegin
  <2>1. Manifest \in Placement
    BY <1>1, ManifestIs DEF ScrubBegin
  <2>2. Targets(Manifest) \in Placement
    BY <1>1, <2>1, TargetsIs DEF ScrubBegin
  <2>3. Damaged(Manifest) \subseteq Shards
    BY DEF Damaged
  <2> QED
    BY <1>1, <2>1, <2>2, <2>3 DEF ScrubBegin
<1>2. CASE ScrubNothing \/ ScrubLost
  BY <1>2 DEF ScrubNothing, ScrubLost
<1>3. CASE Stage
  <2>1. \A r \in Roots : {i \in todo : plan[i] = r} \in SUBSET Shards
    OBVIOUS
  <2>2. place' \in [Roots -> Place]
    BY <1>3, <2>1, WithTmp DEF Stage
  <2> QED
    BY <1>3, <2>2 DEF Stage
<1>4. CASE Rename
  <2> DEFINE i == Min(todo)
  <2>1. i \in Shards
    <3>1. todo \in SUBSET Nat /\ todo # {}
      BY <1>4, ShardsFinite DEF Rename
    <3> QED
      BY <3>1, MinIs
  <2> HIDE DEF i
  <2>2. plan[i] \in Roots
    BY <2>1 DEF Placement
  <2>3. place' = [place EXCEPT ![plan[i]].files = @ \cup {i}, ![plan[i]].tmp = @ \ {i},
                               ![plan[i]].good = @ \cup ({i} \X Stripes)]
    BY <1>4 DEF Rename, i
  <2>4. place' \in [Roots -> Place]
    <3> DEFINE old == place[plan[i]]
               new == [old EXCEPT !.files = @ \cup {i}, !.tmp = @ \ {i},
                                  !.good = @ \cup ({i} \X Stripes)]
    <3>1. old \in Place
      BY <2>2
    <3>2. place' = [place EXCEPT ![plan[i]] = new]
      BY <2>3
    <3>3. new \in Place
      <4> HIDE DEF old
      <4> QED
        BY <2>1, <3>1, WithShard
    <3> HIDE DEF new
    <3> QED
      BY <3>2, <3>3
  <2>5. todo' \subseteq Shards
    BY <1>4 DEF Rename
  <2> QED
    BY <1>4, <2>4, <2>5 DEF Rename
<1>5. CASE Fail
  <2>1. place' \in [Roots -> Place]
    BY <1>5, WithTmp DEF Fail
  <2> QED
    BY <1>5, <2>1 DEF Fail
<1>6. CASE PublishBegin
  <2>1. dirs' \subseteq Roots \cup {Primary}
    BY <1>6, ManifestDirsIs DEF PublishBegin
  <2> QED
    BY <1>6, <2>1 DEF PublishBegin
<1>7. CASE Publish
  <2>1. CASE dirs = {}
    BY <1>7, <2>1 DEF Publish
  <2>2. CASE dirs # {}
    <3>1. PICK d \in dirs :
               /\ dirs' = dirs \ {d}
               /\ IF d = Primary THEN primary' = plan /\ UNCHANGED place
                  ELSE /\ place' = [place EXCEPT ![d].dir = TRUE, ![d].man = plan]
                       /\ UNCHANGED primary
      BY <1>7, <2>2 DEF Publish
    <3>2. d # Primary => d \in Roots
      OBVIOUS
    <3>3. place' \in [Roots -> Place]
      <4>1. CASE d = Primary
        BY <3>1, <4>1
      <4>2. CASE d # Primary
        <5>1. d \in Roots /\ place[d] \in Place /\ plan \in Copies
          BY <3>2, <4>2 DEF Copies
        <5>2. [place[d] EXCEPT !.dir = TRUE, !.man = plan] \in Place
          BY <5>1 DEF Place
        <5>3. place' = [place EXCEPT ![d] = [place[d] EXCEPT !.dir = TRUE, !.man = plan]]
          BY <3>1, <4>2
        <5> QED
          BY <5>1, <5>2, <5>3
      <4> QED
        BY <4>1, <4>2
    <3>4. primary' \in Copies
      BY <3>1 DEF Copies
    <3> QED
      BY <1>7, <2>2, <3>1, <3>3, <3>4 DEF Publish
  <2> QED
    BY <2>1, <2>2
<1>8. CASE Judge
  BY <1>8 DEF Judge
<1> QED
  BY <1>1, <1>2, <1>3, <1>4, <1>5, <1>6, <1>7, <1>8 DEF Scrub

LEMMA WriteDeleteTypes == ASSUME TypeOK, WriteBegin \/ Delete PROVE TypeOK'
<1> USE DEF TypeOK
<1>1. CASE WriteBegin
  <2>1. \A r \in Roots : {i \in Shards : RoundRobin[i] = r} \in SUBSET Shards
    OBVIOUS
  <2>2. place' \in [Roots -> Place]
    BY <1>1, <2>1, WithTmp DEF WriteBegin
  <2> QED
    BY <1>1, <2>2, RoundRobinIs DEF WriteBegin
<1>2. CASE DeleteBegin
  BY <1>2 DEF DeleteBegin
<1>3. CASE DeleteManifests
  <2>1. place' \in [Roots -> Place] /\ primary' \in Copies
    BY <1>3 DEF DeleteManifests, Place, Copies
  <2> QED
    BY <1>3, <2>1 DEF DeleteManifests
<1>4. CASE DeleteDirs
  <2>1. CASE dirs = {}
    BY <1>4, <2>1 DEF DeleteDirs
  <2>2. CASE dirs # {}
    <3> DEFINE d == Min(dirs)
    <3>1. d \in dirs
      <4>1. dirs \in SUBSET Nat
        BY DEF Roots, Primary
      <4> QED
        BY <2>2, <4>1, MinIs
    <3> HIDE DEF d
    <3>2. /\ dirs' = dirs \ {d}
          /\ IF d = Primary THEN primary' = None /\ UNCHANGED place
             ELSE place' = [place EXCEPT ![d] = Empty(@.dir)] /\ UNCHANGED primary
      BY <1>4, <2>2 DEF DeleteDirs, d
    <3>3. d # Primary => d \in Roots /\ Empty(place[d].dir) \in Place
      BY <3>1, EmptyIs DEF Place
    <3>4. place' \in [Roots -> Place] /\ primary' \in Copies
      BY <3>2, <3>3 DEF Copies
    <3> QED
      BY <1>4, <2>2, <3>2, <3>4 DEF DeleteDirs
  <2> QED
    BY <2>1, <2>2
<1> QED
  BY <1>1, <1>2, <1>3, <1>4 DEF Delete

\* What Damage takes from a root: blocks, or a file and the intact blocks of it.
Damages(r, lost, gone) ==
  /\ place' = [place EXCEPT ![r].files = @ \ gone, ![r].good = @ \ lost]
  /\ Hit(lost)
  /\ \A b \in place[r].good : b[1] \in gone => b \in lost

LEMMA DamageIs ==
  ASSUME TypeOK, Damage
  PROVE  \E r \in Roots : \E lost \in SUBSET place[r].good, gone \in SUBSET place[r].files :
           Damages(r, lost, gone)
<1>1. PICK r \in Roots :
        \/ \E b \in place[r].good : place' = [place EXCEPT ![r].good = @ \ {b}] /\ Hit({b})
        \/ \E i \in place[r].files :
             LET its == {b \in place[r].good : b[1] = i}
             IN  place' = [place EXCEPT ![r].files = @ \ {i}, ![r].good = @ \ its] /\ Hit(its)
  BY DEF Damage
<1>2. CASE \E b \in place[r].good : place' = [place EXCEPT ![r].good = @ \ {b}] /\ Hit({b})
  <2>1. PICK b \in place[r].good : place' = [place EXCEPT ![r].good = @ \ {b}] /\ Hit({b})
    BY <1>2
  <2>2. place' = [place EXCEPT ![r].files = @ \ {}, ![r].good = @ \ {b}]
    BY <2>1 DEF TypeOK, Place
  <2>3. Damages(r, {b}, {})
    BY <2>1, <2>2 DEF Damages
  <2> QED
    BY <2>1, <2>3
<1>3. CASE \E i \in place[r].files :
             LET its == {b \in place[r].good : b[1] = i}
             IN  place' = [place EXCEPT ![r].files = @ \ {i}, ![r].good = @ \ its] /\ Hit(its)
  <2>1. PICK i \in place[r].files :
             LET its == {b \in place[r].good : b[1] = i}
             IN  place' = [place EXCEPT ![r].files = @ \ {i}, ![r].good = @ \ its] /\ Hit(its)
    BY <1>3
  <2> DEFINE its == {b \in place[r].good : b[1] = i}
  <2>2. Damages(r, its, {i})
    BY <2>1 DEF Damages
  <2>3. its \in SUBSET place[r].good /\ {i} \in SUBSET place[r].files
    OBVIOUS
  <2> QED
    BY <2>2, <2>3
<1> QED
  BY <1>1, <1>2, <1>3

LEMMA FaultTypes == ASSUME TypeOK, Fault PROVE TypeOK'
<1> USE DEF TypeOK, work
<1>0. MaxHits \in Nat /\ MaxOutages \in Nat /\ MaxCrashes \in Nat
  BY Parameters
<1>1. CASE Crash
  BY <1>0, <1>1 DEF Crash
<1>2. CASE Damage
  <2>1. PICK r \in Roots : \E lost \in SUBSET place[r].good, gone \in SUBSET place[r].files :
             Damages(r, lost, gone)
    BY <1>2, DamageIs
  <2>a. PICK lost \in SUBSET place[r].good, gone \in SUBSET place[r].files : Damages(r, lost, gone)
    BY <2>1
  <2>2. place' \in [Roots -> Place]
    <3>1. [place[r] EXCEPT !.files = @ \ gone, !.good = @ \ lost] \in Place
      <4>1. place[r] \in Place
        OBVIOUS
      <4> QED
        BY <4>1 DEF Place
    <3>2. place' = [place EXCEPT ![r] = [place[r] EXCEPT !.files = @ \ gone, !.good = @ \ lost]]
      BY <2>a DEF Damages
    <3> QED
      BY <3>1, <3>2
  <2>3. hits' \in [Stripes -> Nat]
    BY <2>a, HitIs, TypeFacts DEF Damages
  <2> QED
    BY <1>0, <1>2, <2>2, <2>3 DEF Damage
<1>3. CASE DamageManifest
  <2>1. PICK lost \in {None, Bad} :
             \/ primary' = lost /\ UNCHANGED place
             \/ /\ \E r \in Roots : place' = [place EXCEPT ![r].man = lost]
                /\ UNCHANGED primary
    BY <1>3 DEF DamageManifest
  <2>2. primary' \in Copies
    BY <2>1 DEF Copies
  <2>3. place' \in [Roots -> Place]
    <3>1. ASSUME NEW r \in Roots, place' = [place EXCEPT ![r].man = lost] PROVE place' \in [Roots -> Place]
      <4>1. place[r] \in Place /\ lost \in Copies
        BY DEF Copies
      <4>2. [place[r] EXCEPT !.man = lost] \in Place
        BY <4>1 DEF Place
      <4> QED
        BY <3>1, <4>2
    <3> QED
      BY <2>1, <3>1
  <2>4. spent' \in [hits : 0..MaxHits, outages : 0..MaxOutages, crashes : 0..MaxCrashes]
    BY <1>0, <1>3 DEF DamageManifest
  <2> QED
    BY <1>3, <2>2, <2>3, <2>4 DEF DamageManifest
<1>4. CASE Unmount \/ Mount
  <2>1. PICK r \in Roots :
             /\ place' = [place EXCEPT ![r] = IF Unmount THEN Empty(FALSE) ELSE away[r]]
             /\ away' = [away EXCEPT ![r] = IF Unmount THEN place[r] ELSE None]
             /\ Hit(place[r].good) /\ (~Unmount => away[r] # None)
    BY <1>4 DEF Unmount, Mount
  <2>2. Empty(FALSE) \in Place
    BY EmptyIs
  <2>3. place' \in [Roots -> Place] /\ away' \in [Roots -> Place \cup {None}]
    BY <2>1, <2>2
  <2>4. hits' \in [Stripes -> Nat]
    BY <2>1, HitIs, TypeFacts
  <2>5. spent' \in [hits : 0..MaxHits, outages : 0..MaxOutages, crashes : 0..MaxCrashes]
    <3>1. CASE Unmount
      BY <1>0, <3>1 DEF Unmount
    <3>2. CASE Mount
      BY <3>2 DEF Mount
    <3> QED
      BY <1>4, <3>1, <3>2
  <2> QED
    BY <1>4, <2>3, <2>4, <2>5 DEF Unmount, Mount
<1>5. CASE MakeRoot
  <2>1. place' \in [Roots -> Place]
    <3>1. PICK r \in Roots : place' = [place EXCEPT ![r] = [place[r] EXCEPT !.dir = TRUE]]
      BY <1>5 DEF MakeRoot
    <3>2. place[r] \in Place
      OBVIOUS
    <3>3. [place[r] EXCEPT !.dir = TRUE] \in Place
      BY <3>2 DEF Place
    <3> QED
      BY <3>1, <3>3
  <2> QED
    BY <1>5, <2>1 DEF MakeRoot
<1> QED
  BY <1>1, <1>2, <1>3, <1>4, <1>5 DEF Fault

LEMMA StepTypes == TypeOK /\ [Next]_vars => TypeOK'
<1>1. TypeOK /\ UNCHANGED vars => TypeOK'
  BY DEF vars, work, TypeOK
<1> QED
  BY <1>1, ScrubTypes, WriteDeleteTypes, FaultTypes DEF Next

\* Types, and with them that every repair of sharding.py finds a root for each shard.
THEOREM TypesKept == Spec => []TypeOK
BY InitTypes, StepTypes, PTL DEF Spec

-----------------------------------------------------------------------------
(* A manifest means shards                                                 *)

\* A copy of the manifest, on a mounted disk or not.
Somewhere ==
  \/ primary # None
  \/ \E r \in Roots : place[r].man # None \/ (away[r] # None /\ away[r].man # None)

\* Shards that were written, as long as anything may lead to them.
Owed(i) == Somewhere \/ pc \in {"stage", "publish"} \/ (pc = "rename" /\ i \notin todo)

\* A stripe's shards that nothing hit are where they were written, intact.
Sound(H, s) ==
  \A i \in Shards \ H :
    /\ \A r \in Roots : i \in place[r].files => <<i, s>> \in place[r].good
    /\ \A r \in Roots : away[r] # None /\ i \in away[r].files => <<i, s>> \in away[r].good
    /\ Owed(i) => Holders(i) # {}

Accounted(s) == \E H \in SUBSET Shards : Cardinality(H) <= hits[s] /\ Sound(H, s)

\* A removal takes the manifests of all roots before it takes a shard, if all are there.
Orderly ==
  /\ spent.outages = 0 => \A r \in Roots : place[r].dir /\ away[r] = None
  /\ Deleting => removed
  /\ pc = "unlink" /\ spent.outages = 0 => dirs = Roots \cup {Primary}
  /\ pc = "rmtree" /\ spent.outages = 0 => ~Somewhere

LedgerInv ==
  /\ TypeOK /\ Orderly
  /\ (removed => spent.outages = 0) => \A s \in Stripes : Accounted(s)

\* The shards of a stripe among the blocks lost are as many as it is hit more often.
LEMMA HitCounts ==
  ASSUME TypeOK, NEW lost \in SUBSET (Shards \X Stripes), Hit(lost), NEW s \in Stripes,
         NEW H \in SUBSET Shards, Cardinality(H) <= hits[s]
  PROVE  Cardinality(H \cup {i \in Shards : <<i, s>> \in lost}) <= hits'[s]
<1> DEFINE I == {i \in Shards : <<i, s>> \in lost}
           B == {b \in lost : b[2] = s}
<1>1. IsFiniteSet(I) /\ IsFiniteSet(H) /\ Cardinality(I) \in Nat /\ Cardinality(H) \in Nat
  <2>1. I \in SUBSET Shards
    OBVIOUS
  <2> HIDE DEF I
  <2> QED
    BY <2>1, ShardsFinite
<1>2. Cardinality(B) = Cardinality(I)
  <2> DEFINE f == [i \in I |-> <<i, s>>]
  <2>1. f \in Bijection(I, B)
    <3>1. \A b \in B : b = <<b[1], s>> /\ b[1] \in I
      OBVIOUS
    <3>2. \A i \in I : <<i, s>> \in B
      OBVIOUS
    <3>3. f \in [I -> B]
      BY <3>2
    <3>4. \A i, j \in I : f[i] = f[j] => i = j
      OBVIOUS
    <3>5. \A b \in B : \E i \in I : f[i] = b
      BY <3>1
    <3> HIDE DEF f, I, B
    <3> QED
      BY <3>3, <3>4, <3>5 DEF Bijection, Injection, Surjection, IsInjective
  <2>2. ExistsBijection(I, B)
    BY <2>1 DEF ExistsBijection
  <2> HIDE DEF I, B, f
  <2> QED
    BY <1>1, <2>2, FS_Bijection
<1>3. hits'[s] = hits[s] + Cardinality(B) /\ hits[s] \in Nat
  BY DEF Hit, TypeOK
<1>4. Cardinality(H \cup I) = Cardinality(H) + Cardinality(I) - Cardinality(H \cap I)
  BY <1>1, FS_Union
<1>5. Cardinality(H \cap I) \in Nat
  <2>1. H \cap I \in SUBSET Shards
    OBVIOUS
  <2> HIDE DEF I
  <2> QED
    BY <2>1, ShardsFinite
<1> HIDE DEF I, B
<1>6. Cardinality(H \cup I) <= hits'[s]
  BY <1>1, <1>2, <1>3, <1>4, <1>5
<1> QED
  BY <1>6 DEF I

\* Blocks and files are lost, moved with their disk, or come back: what is left of the
\* shards not hit is intact.
LEMMA HitAccounted ==
  ASSUME TypeOK, NEW s \in Stripes, Accounted(s),
         NEW lost \in SUBSET (Shards \X Stripes), Hit(lost),
         \A H \in SUBSET Shards :
           Sound(H, s) => Sound(H \cup {i \in Shards : <<i, s>> \in lost}, s)'
  PROVE  Accounted(s)'
<1>1. PICK H \in SUBSET Shards : Cardinality(H) <= hits[s] /\ Sound(H, s)
  BY DEF Accounted
<1> DEFINE G == H \cup {i \in Shards : <<i, s>> \in lost}
<1>2. Cardinality(G) <= hits'[s]
  BY <1>1, HitCounts
<1>3. Sound(G, s)'
  BY <1>1
<1>4. G \in SUBSET Shards
  OBVIOUS
<1> HIDE DEF G
<1> QED
  BY <1>2, <1>3, <1>4 DEF Accounted

\* A step that hits nothing.
LEMMA NotHitAccounted ==
  ASSUME NEW s \in Stripes, Accounted(s), hits' = hits,
         \A H \in SUBSET Shards : Sound(H, s) => Sound(H, s)'
  PROVE  Accounted(s)'
BY DEF Accounted

\* A step that leaves the shards where they are, and holds none that were not held.
LEMMA ShardsStay ==
  ASSUME NEW s \in Stripes, Accounted(s), UNCHANGED <<away, hits>>,
         \A r \in Roots : place'[r].files = place[r].files /\ place'[r].good = place[r].good,
         \A i \in Shards : Owed(i)' => Owed(i)
  PROVE  Accounted(s)'
<1> SUFFICES ASSUME NEW H \in SUBSET Shards, Sound(H, s) PROVE Sound(H, s)'
  BY NotHitAccounted
<1>1. \A i \in Shards : Holders(i)' = Holders(i)
  BY DEF Holders
<1> QED
  BY <1>1 DEF Sound

\* Copies of the manifest are only moved or lost.
LEMMA NoNewCopy ==
  ASSUME UNCHANGED <<pc, todo>>, Somewhere' => Somewhere
  PROVE  \A i \in Shards : Owed(i)' => Owed(i)
BY DEF Owed

\* A manifest that can be read is somewhere.
LEMMA ManifestSomewhere == ASSUME TypeOK, Manifest # None PROVE Somewhere
BY ManifestIs DEF Somewhere

LEMMA WriteAccounted ==
  ASSUME TypeOK, NEW s \in Stripes, Accounted(s), WriteBegin \/ Scrub
  PROVE  Accounted(s)'
<1> USE DEF work
<1>0. place \in [Roots -> Place] /\ \A r \in Roots : place[r] \in Place
  BY DEF TypeOK
<1>1. CASE WriteBegin
  <2>1. \A r \in Roots : /\ place'[r].files = place[r].files /\ place'[r].good = place[r].good
                         /\ place'[r].man = place[r].man
    BY <1>0, <1>1 DEF WriteBegin, Place
  <2>2. UNCHANGED <<away, primary, hits>> /\ pc' = "rename" /\ todo' = Shards
    BY <1>1 DEF WriteBegin
  <2>3. Somewhere' => Somewhere
    BY <2>1, <2>2 DEF Somewhere
  <2>4. \A i \in Shards : Owed(i)' => Owed(i)
    BY <2>2, <2>3 DEF Owed
  <2> QED
    BY <2>1, <2>2, <2>4, ShardsStay
<1>2. CASE ScrubBegin
  <2>1. Somewhere
    BY <1>2, ManifestSomewhere DEF ScrubBegin
  <2> QED
    BY <1>2, <2>1, ShardsStay DEF ScrubBegin, Owed
<1>3. CASE ScrubNothing \/ ScrubLost \/ Judge
  <2>1. /\ UNCHANGED <<place, away, primary, hits, todo>>
        /\ pc' \notin {"stage", "publish", "rename"} \/ UNCHANGED pc
    BY <1>3 DEF ScrubNothing, ScrubLost, Judge
  <2>2. UNCHANGED <<place, away, primary, hits>>
    BY <2>1
  <2>3. Somewhere' => Somewhere
    BY <2>2 DEF Somewhere
  <2>4. \A i \in Shards : Owed(i)' => Owed(i)
    BY <2>1, <2>3 DEF Owed
  <2> QED
    BY <2>2, <2>4, ShardsStay
<1>4. CASE Stage
  <2>1. \A r \in Roots : place'[r].files = place[r].files /\ place'[r].good = place[r].good
    BY <1>0, <1>4 DEF Stage, Place
  <2> QED
    BY <1>4, <2>1, ShardsStay DEF Stage, Owed
<1>5. CASE Fail
  <2>1. \A r \in Roots : /\ place'[r].files = place[r].files /\ place'[r].good = place[r].good
                         /\ place'[r].man = place[r].man
    BY <1>0, <1>5 DEF Fail, Place
  <2>2. UNCHANGED <<away, primary, hits>> /\ pc' = "idle"
    BY <1>5 DEF Fail
  <2>3. Somewhere' => Somewhere
    BY <2>1, <2>2 DEF Somewhere
  <2>4. \A i \in Shards : Owed(i)' => Owed(i)
    BY <2>2, <2>3 DEF Owed
  <2> QED
    BY <2>1, <2>2, <2>4, ShardsStay
<1>6. CASE PublishBegin
  BY <1>6, ShardsStay DEF PublishBegin, Owed
<1>7. CASE Publish
  <2>1. \A r \in Roots : place'[r].files = place[r].files /\ place'[r].good = place[r].good
    <3>1. CASE dirs = {}
      BY <1>7, <3>1 DEF Publish
    <3>2. CASE dirs # {}
      <4>1. \/ UNCHANGED place
            \/ \E d \in dirs : place' = [place EXCEPT ![d].dir = TRUE, ![d].man = plan]
        BY <1>7, <3>2 DEF Publish
      <4>2. ASSUME NEW d, place' = [place EXCEPT ![d].dir = TRUE, ![d].man = plan], NEW r \in Roots
            PROVE  place'[r].files = place[r].files /\ place'[r].good = place[r].good
        <5>1. place[r] \in Place
          BY <1>0
        <5>2. place'[r] = place[r] \/ place'[r] = [place[r] EXCEPT !.dir = TRUE, !.man = plan]
          BY <1>0, <4>2
        <5> QED
          BY <5>1, <5>2 DEF Place
      <4> QED
        BY <4>1, <4>2
    <3> QED
      BY <3>1, <3>2
  <2> QED
    BY <1>7, <2>1, ShardsStay DEF Publish, Owed
<1>8. CASE Rename
  <2>1. PICK i \in Shards : i = Min(todo)
    <3>1. todo \in SUBSET Nat /\ todo # {} /\ todo \subseteq Shards
      BY <1>8, ShardsFinite DEF Rename, TypeOK
    <3> QED
      BY <3>1, MinIs
  <2>2. PICK r \in Roots : r = plan[i]
    BY <2>1 DEF TypeOK, Placement
  <2>3. /\ place' = [place EXCEPT ![r].files = @ \cup {i}, ![r].tmp = @ \ {i},
                                  ![r].good = @ \cup ({i} \X Stripes)]
        /\ todo' = todo \ {i} /\ UNCHANGED <<away, primary, pc, hits>> /\ pc = "rename"
    BY <1>8, <2>1, <2>2 DEF Rename
  <2>4. \A q \in Roots : /\ place[q].files \subseteq place'[q].files
                         /\ place[q].good \subseteq place'[q].good
                         /\ place'[q].files \subseteq place[q].files \cup {i}
                         /\ place'[q].man = place[q].man
                         /\ i \in place'[q].files => i \in place[q].files \/ q = r
    BY <1>0, <2>2, <2>3 DEF Place
  <2>5. i \in place'[r].files /\ <<i, s>> \in place'[r].good
    BY <1>0, <2>2, <2>3 DEF Place
  <2>6. Somewhere' => Somewhere
    BY <2>3, <2>4 DEF Somewhere
  <2>7. \A j \in Shards : Owed(j)' => Owed(j) \/ j = i
    BY <2>3, <2>6 DEF Owed
  <2>8. Holders(i)' # {} /\ \A j \in Shards : Holders(j) \subseteq Holders(j)'
    BY <2>2, <2>4, <2>5 DEF Holders
  <2>9. ASSUME NEW H \in SUBSET Shards, Sound(H, s) PROVE Sound(H, s)'
    <3> SUFFICES ASSUME NEW j \in Shards \ H
                 PROVE  /\ \A q \in Roots : j \in place'[q].files => <<j, s>> \in place'[q].good
                        /\ \A q \in Roots : away[q] # None /\ j \in away[q].files => <<j, s>> \in away[q].good
                        /\ Owed(j)' => Holders(j)' # {}
      BY <2>3 DEF Sound
    <3>1. /\ \A q \in Roots : j \in place[q].files => <<j, s>> \in place[q].good
          /\ \A q \in Roots : away[q] # None /\ j \in away[q].files => <<j, s>> \in away[q].good
          /\ Owed(j) => Holders(j) # {}
      BY <2>9 DEF Sound
    <3>2. ASSUME NEW q \in Roots, j \in place'[q].files PROVE <<j, s>> \in place'[q].good
      BY <2>4, <2>5, <3>1, <3>2
    <3>3. Owed(j)' => Holders(j)' # {}
      BY <2>7, <2>8, <3>1
    <3> QED
      BY <3>1, <3>2, <3>3
  <2> QED
    BY <2>3, <2>9, NotHitAccounted
<1> QED
  BY <1>1, <1>2, <1>3, <1>4, <1>5, <1>6, <1>7, <1>8 DEF Scrub

LEMMA DeleteAccounted ==
  ASSUME TypeOK, Orderly, removed => spent.outages = 0, NEW s \in Stripes, Accounted(s), Delete
  PROVE  Accounted(s)'
<1>0. place \in [Roots -> Place] /\ \A r \in Roots : place[r] \in Place
  BY DEF TypeOK
<1>1. CASE DeleteBegin
  <2>1. UNCHANGED <<place, away, primary, hits>> /\ pc' = "unlink"
    BY <1>1 DEF DeleteBegin
  <2>2. Somewhere' => Somewhere
    BY <2>1 DEF Somewhere
  <2>3. \A i \in Shards : Owed(i)' => Owed(i)
    BY <2>1, <2>2 DEF Owed
  <2> QED
    BY <2>1, <2>3, ShardsStay
<1>2. CASE DeleteManifests
  <2>1. \A r \in Roots : /\ place'[r].files = place[r].files /\ place'[r].good = place[r].good
                         /\ place'[r].man \in {place[r].man, None}
    BY <1>0, <1>2 DEF DeleteManifests, Place
  <2>2. UNCHANGED <<away, hits>> /\ primary' \in {primary, None} /\ pc' \in {"unlink", "rmtree"}
    BY <1>2 DEF DeleteManifests
  <2>3. Somewhere' => Somewhere
    BY <2>1, <2>2 DEF Somewhere
  <2>4. \A i \in Shards : Owed(i)' => Owed(i)
    BY <2>2, <2>3 DEF Owed
  <2> QED
    BY <2>1, <2>2, <2>4, ShardsStay
<1>3. CASE DeleteDirs
  <2>1. ~Somewhere
    BY <1>3 DEF DeleteDirs, Orderly, Deleting
  <2>2. UNCHANGED <<away, hits>> /\ primary' \in {primary, None} /\ pc' \in {"idle", "rmtree"}
    BY <1>3 DEF DeleteDirs
  <2>3. \A r \in Roots : place'[r] = place[r] \/ (place'[r].files = {} /\ place'[r].man = None)
    <3>1. CASE UNCHANGED place
      BY <3>1
    <3>2. ASSUME NEW d, place' = [place EXCEPT ![d] = Empty(@.dir)]
          PROVE  \A r \in Roots : place'[r] = place[r] \/ (place'[r].files = {} /\ place'[r].man = None)
      BY <1>0, <3>2 DEF Empty
    <3> QED
      BY <1>3, <3>1, <3>2 DEF DeleteDirs
  <2>4. ~Somewhere'
    BY <2>1, <2>2, <2>3 DEF Somewhere
  <2>5. \A i \in Shards : ~Owed(i)'
    BY <2>2, <2>4 DEF Owed
  <2>6. ASSUME NEW H \in SUBSET Shards, Sound(H, s) PROVE Sound(H, s)'
    BY <2>2, <2>3, <2>5, <2>6 DEF Sound
  <2> QED
    BY <2>2, <2>6, NotHitAccounted
<1> QED
  BY <1>1, <1>2, <1>3 DEF Delete

LEMMA FaultAccounted ==
  ASSUME TypeOK, NEW s \in Stripes, Accounted(s), Fault
  PROVE  Accounted(s)'
<1> USE DEF work
<1>0. /\ place \in [Roots -> Place] /\ away \in [Roots -> Place \cup {None}] /\ None \notin Place
      /\ \A r \in Roots : place[r] \in Place /\ place[r].good \in SUBSET (Shards \X Stripes)
  BY TypeFacts, Parameters DEF TypeOK
<1>1. CASE Crash
  <2>1. UNCHANGED <<place, away, primary, hits>> /\ pc' = "idle"
    BY <1>1 DEF Crash
  <2>2. Somewhere' => Somewhere
    BY <2>1 DEF Somewhere
  <2>3. \A i \in Shards : Owed(i)' => Owed(i)
    BY <2>1, <2>2 DEF Owed
  <2> QED
    BY <2>1, <2>3, ShardsStay
<1>2. CASE Damage
  <2>1. PICK r \in Roots : \E lost \in SUBSET place[r].good, gone \in SUBSET place[r].files :
             Damages(r, lost, gone)
    BY <1>2, DamageIs
  <2>2. PICK lost \in SUBSET place[r].good, gone \in SUBSET place[r].files : Damages(r, lost, gone)
    BY <2>1
  <2>3. /\ place' = [place EXCEPT ![r] = [place[r] EXCEPT !.files = @ \ gone, !.good = @ \ lost]]
        /\ Hit(lost) /\ \A b \in place[r].good : b[1] \in gone => b \in lost
    BY <2>2 DEF Damages
  <2>4. UNCHANGED <<away, primary, pc, todo>>
    BY <1>2 DEF Damage
  <2>5. /\ place'[r].files = place[r].files \ gone /\ place'[r].good = place[r].good \ lost
        /\ place'[r].man = place[r].man
        /\ \A q \in Roots : q # r => place'[q] = place[q]
    <3>1. place[r] \in Place
      BY <1>0
    <3>2. place'[r] = [place[r] EXCEPT !.files = @ \ gone, !.good = @ \ lost]
      BY <1>0, <2>3
    <3>3. /\ place'[r].files = place[r].files \ gone /\ place'[r].good = place[r].good \ lost
          /\ place'[r].man = place[r].man
      BY <3>1, <3>2 DEF Place
    <3> QED
      BY <1>0, <2>3, <3>3
  <2>6. \A q \in Roots : place'[q].man = place[q].man
    BY <2>5
  <2>7. Somewhere' => Somewhere
    BY <2>4, <2>6 DEF Somewhere
  <2>8. \A i \in Shards : Owed(i)' => Owed(i)
    BY <2>4, <2>7, NoNewCopy
  <2>9. ASSUME NEW H \in SUBSET Shards, Sound(H, s)
        PROVE  Sound(H \cup {i \in Shards : <<i, s>> \in lost}, s)'
    <3> SUFFICES ASSUME NEW i \in Shards, i \notin H, <<i, s>> \notin lost
                 PROVE  /\ \A q \in Roots : i \in place'[q].files => <<i, s>> \in place'[q].good
                        /\ \A q \in Roots : away[q] # None /\ i \in away[q].files => <<i, s>> \in away[q].good
                        /\ Owed(i)' => Holders(i)' # {}
      BY <2>4 DEF Sound
    <3>1. /\ \A q \in Roots : i \in place[q].files => <<i, s>> \in place[q].good
          /\ \A q \in Roots : away[q] # None /\ i \in away[q].files => <<i, s>> \in away[q].good
          /\ Owed(i) => Holders(i) # {}
      BY <2>9 DEF Sound
    <3>2. ASSUME NEW q \in Roots, i \in place'[q].files PROVE <<i, s>> \in place'[q].good
      BY <2>5, <3>1, <3>2
    <3>3. ASSUME NEW q \in Roots, i \in place[q].files PROVE i \in place'[q].files
      <4>1. <<i, s>> \in place[q].good
        BY <3>1, <3>3
      <4>2. q = r => i \notin gone
        BY <2>3, <4>1
      <4> QED
        BY <2>5, <3>3, <4>2
    <3>4. Owed(i)' => Holders(i)' # {}
      BY <2>8, <3>1, <3>3 DEF Holders
    <3> QED
      BY <3>1, <3>2, <3>4
  <2>10. lost \in SUBSET (Shards \X Stripes)
    BY <1>0
  <2> QED
    BY <2>3, <2>9, <2>10, HitAccounted
<1>3. CASE DamageManifest
  <2>1. PICK lost \in {None, Bad} :
             \/ Readable(primary) /\ primary' = lost /\ UNCHANGED place
             \/ /\ \E r \in Roots : Readable(place[r].man) /\ place' = [place EXCEPT ![r].man = lost]
                /\ UNCHANGED primary
    BY <1>3 DEF DamageManifest
  <2>2. UNCHANGED <<away, pc, todo, hits>>
    BY <1>3 DEF DamageManifest
  <2>3. \A q \in Roots : /\ place'[q].files = place[q].files /\ place'[q].good = place[q].good
                         /\ place'[q].man = place[q].man \/ place[q].man # None
    <3>1. CASE UNCHANGED place
      BY <3>1
    <3>2. ASSUME NEW r \in Roots, Readable(place[r].man), place' = [place EXCEPT ![r].man = lost],
                 NEW q \in Roots
          PROVE  /\ place'[q].files = place[q].files /\ place'[q].good = place[q].good
                 /\ place'[q].man = place[q].man \/ place[q].man # None
      <4>1. place[q] \in Place /\ (place'[q] = place[q] \/ place'[q] = [place[q] EXCEPT !.man = lost])
        BY <1>0, <3>2
      <4>2. place'[q].files = place[q].files /\ place'[q].good = place[q].good
        BY <4>1 DEF Place
      <4>3. q # r => place'[q] = place[q]
        BY <1>0, <3>2
      <4> QED
        BY <3>2, <4>2, <4>3 DEF Readable
    <3> QED
      BY <2>1, <3>1, <3>2
  <2>4. primary' = primary \/ primary # None
    BY <2>1 DEF Readable
  <2>5. Somewhere' => Somewhere
    BY <2>2, <2>3, <2>4 DEF Somewhere
  <2>6. \A i \in Shards : Owed(i)' => Owed(i)
    BY <2>2, <2>5, NoNewCopy
  <2> QED
    BY <2>2, <2>3, <2>6, ShardsStay
<1>4. CASE Unmount \/ Mount
  <2>1. PICK r \in Roots :
             /\ \/ /\ place' = [place EXCEPT ![r] = Empty(FALSE)]
                   /\ away' = [away EXCEPT ![r] = place[r]]
                \/ /\ place' = [place EXCEPT ![r] = away[r]] /\ away[r] # None
                   /\ away' = [away EXCEPT ![r] = None]
             /\ Hit(place[r].good)
    BY <1>4 DEF Unmount, Mount
  <2>2. UNCHANGED <<primary, pc, todo>>
    BY <1>4 DEF Unmount, Mount
  <2>3. /\ \A q \in Roots : q # r => place'[q] = place[q] /\ away'[q] = away[q]
        /\ \/ place'[r].files = {} /\ place'[r].man = None /\ away'[r] = place[r]
           \/ place'[r] = away[r] /\ away[r] # None /\ away'[r] = None
    BY <1>0, <2>1 DEF Empty
  <2>4. Somewhere' => Somewhere
    BY <2>2, <2>3 DEF Somewhere
  <2>5. \A i \in Shards : Owed(i)' => Owed(i)
    BY <2>2, <2>4, NoNewCopy
  <2>6. PICK lost \in SUBSET (Shards \X Stripes) : lost = place[r].good
    BY <1>0
  <2>7. ASSUME NEW H \in SUBSET Shards, Sound(H, s)
        PROVE  Sound(H \cup {i \in Shards : <<i, s>> \in lost}, s)'
    <3> SUFFICES ASSUME NEW i \in Shards, i \notin H, <<i, s>> \notin lost
                 PROVE  /\ \A q \in Roots : i \in place'[q].files => <<i, s>> \in place'[q].good
                        /\ \A q \in Roots : away'[q] # None /\ i \in away'[q].files => <<i, s>> \in away'[q].good
                        /\ Owed(i)' => Holders(i)' # {}
      BY DEF Sound
    <3>2. /\ \A q \in Roots : i \in place[q].files => <<i, s>> \in place[q].good
          /\ \A q \in Roots : away[q] # None /\ i \in away[q].files => <<i, s>> \in away[q].good
          /\ Owed(i) => Holders(i) # {}
      BY <2>7 DEF Sound
    <3>3. \A q \in Roots : i \in place'[q].files => <<i, s>> \in place'[q].good
      BY <2>3, <3>2
    <3>4. \A q \in Roots : away'[q] # None /\ i \in away'[q].files => <<i, s>> \in away'[q].good
      BY <2>3, <3>2
    <3>5. ASSUME NEW q \in Roots, i \in place[q].files PROVE i \in place'[q].files
      BY <2>3, <2>6, <3>2, <3>5
    <3>6. Owed(i)' => Holders(i)' # {}
      BY <2>5, <3>2, <3>5 DEF Holders
    <3> QED
      BY <3>3, <3>4, <3>6
  <2> QED
    BY <2>1, <2>6, <2>7, HitAccounted
<1>5. CASE MakeRoot
  <2>1. PICK r \in Roots : place' = [place EXCEPT ![r].dir = TRUE]
    BY <1>5 DEF MakeRoot
  <2>2. UNCHANGED <<away, primary, pc, todo, hits>>
    BY <1>5 DEF MakeRoot
  <2>3. \A q \in Roots : /\ place'[q].files = place[q].files /\ place'[q].good = place[q].good
                         /\ place'[q].man = place[q].man
    <3> SUFFICES ASSUME NEW q \in Roots
                 PROVE  /\ place'[q].files = place[q].files /\ place'[q].good = place[q].good
                        /\ place'[q].man = place[q].man
      OBVIOUS
    <3>1. place[q] \in Place /\ (place'[q] = place[q] \/ place'[q] = [place[q] EXCEPT !.dir = TRUE])
      BY <1>0, <2>1
    <3> QED
      BY <3>1 DEF Place
  <2>4. Somewhere' => Somewhere
    BY <2>2, <2>3 DEF Somewhere
  <2>5. \A i \in Shards : Owed(i)' => Owed(i)
    BY <2>2, <2>4, NoNewCopy
  <2> QED
    BY <2>2, <2>3, <2>5, ShardsStay
<1> QED
  BY <1>1, <1>2, <1>3, <1>4, <1>5 DEF Fault

\* Only an outage takes a directory away.
LEMMA DirsStay ==
  ASSUME TypeOK, WriteBegin \/ Scrub \/ Delete \/ Damage \/ DamageManifest \/ MakeRoot
  PROVE  \A r \in Roots : place[r].dir => place'[r].dir
<1> SUFFICES ASSUME NEW r \in Roots, place[r].dir PROVE place'[r].dir
  OBVIOUS
<1>0. place \in [Roots -> Place] /\ place[r] \in Place
  BY DEF TypeOK
<1>1. CASE WriteBegin \/ Stage \/ Fail
  <2>1. \E its \in SUBSET Shards : \/ place'[r] = place[r]
                                 \/ place'[r] = [place[r] EXCEPT !.dir = TRUE, !.tmp = its]
                                 \/ place'[r] = [place[r] EXCEPT !.tmp = its]
    <3>1. CASE WriteBegin
      BY <3>1 DEF WriteBegin
    <3>2. CASE Stage
      BY <3>2 DEF Stage, TypeOK
    <3>3. CASE Fail
      BY <3>3 DEF Fail
    <3> QED
      BY <1>1, <3>1, <3>2, <3>3
  <2>2. PICK its \in SUBSET Shards : \/ place'[r] = place[r]
                                    \/ place'[r] = [place[r] EXCEPT !.dir = TRUE, !.tmp = its]
                                    \/ place'[r] = [place[r] EXCEPT !.tmp = its]
    BY <2>1
  <2>3. /\ [place[r] EXCEPT !.dir = TRUE, !.tmp = its].dir
        /\ [place[r] EXCEPT !.tmp = its].dir = place[r].dir
    BY <1>0, WithTmp
  <2> QED
    BY <2>2, <2>3
<1>2. CASE Rename
  <2>1. PICK i, p : place' = [place EXCEPT ![p].files = @ \cup {i}, ![p].tmp = @ \ {i},
                                           ![p].good = @ \cup ({i} \X Stripes)]
    BY <1>2 DEF Rename
  <2>2. \/ place'[r] = place[r]
        \/ place'[r] = [place[r] EXCEPT !.files = @ \cup {i}, !.tmp = @ \ {i},
                                        !.good = @ \cup ({i} \X Stripes)]
    BY <1>0, <2>1
  <2> QED
    BY <1>0, <2>2 DEF Place
<1>3. CASE Publish \/ DeleteManifests \/ DamageManifest
  <2>1. \/ UNCHANGED place
        \/ \E d, man : \/ place' = [place EXCEPT ![d].dir = TRUE, ![d].man = man]
                       \/ place' = [place EXCEPT ![d].man = man]
    BY <1>3 DEF Publish, DeleteManifests, DamageManifest
  <2>2. \/ place'[r] = place[r]
        \/ \E man : \/ place'[r] = [place[r] EXCEPT !.dir = TRUE, !.man = man]
                    \/ place'[r] = [place[r] EXCEPT !.man = man]
    BY <1>0, <2>1
  <2> QED
    BY <1>0, <2>2 DEF Place
<1>4. CASE DeleteDirs
  <2>1. UNCHANGED place \/ \E d : place' = [place EXCEPT ![d] = Empty(@.dir)]
    BY <1>4 DEF DeleteDirs
  <2>2. place'[r] = place[r] \/ place'[r] = Empty(place[r].dir)
    BY <1>0, <2>1
  <2> QED
    BY <2>2 DEF Empty
<1>5. CASE Damage
  <2>1. PICK q \in Roots : \E lost \in SUBSET place[q].good, gone \in SUBSET place[q].files :
             Damages(q, lost, gone)
    BY <1>5, DamageIs
  <2>2. PICK lost, gone : place' = [place EXCEPT ![q].files = @ \ gone, ![q].good = @ \ lost]
    BY <2>1 DEF Damages
  <2>3. \/ place'[r] = place[r]
        \/ place'[r] = [place[r] EXCEPT !.files = @ \ gone, !.good = @ \ lost]
    BY <1>0, <2>2
  <2> QED
    BY <1>0, <2>3 DEF Place
<1>6. CASE MakeRoot
  <2>1. place'[r] = place[r] \/ place'[r] = [place[r] EXCEPT !.dir = TRUE]
    BY <1>0, <1>6 DEF MakeRoot
  <2> QED
    BY <1>0, <2>1 DEF Place
<1>7. CASE ScrubBegin \/ ScrubNothing \/ ScrubLost \/ PublishBegin \/ Judge \/ DeleteBegin
  BY <1>7 DEF ScrubBegin, ScrubNothing, ScrubLost, PublishBegin, Judge, DeleteBegin
<1> QED
  BY <1>1, <1>2, <1>3, <1>4, <1>5, <1>6, <1>7 DEF Scrub, Delete

LEMMA OrderlyStep == TypeOK /\ Orderly /\ [Next]_vars => Orderly'
<1> SUFFICES ASSUME TypeOK, Orderly, [Next]_vars PROVE Orderly'
  OBVIOUS
<1> USE DEF work
<1>0. spent.outages \in Nat /\ \A r \in Roots : place[r] \in Place
  BY Parameters DEF TypeOK
<1>1. CASE UNCHANGED vars
  BY <1>1 DEF vars, Orderly, Deleting, Somewhere
<1>2. CASE WriteBegin \/ Scrub
  <2>1. UNCHANGED <<spent, away, removed>>
    BY <1>2 DEF WriteBegin, Scrub, ScrubBegin, ScrubNothing, ScrubLost, Stage, Rename, Fail,
       PublishBegin, Publish, Judge
  <2>2. pc' \notin {"unlink", "rmtree"}
    <3>1. CASE WriteBegin \/ ScrubBegin \/ Stage \/ Fail \/ PublishBegin \/ Judge
      BY <3>1 DEF WriteBegin, ScrubBegin, Stage, Fail, PublishBegin, Judge
    <3>2. CASE ScrubNothing \/ ScrubLost \/ Rename
      BY <3>2 DEF ScrubNothing, ScrubLost, Rename
    <3>3. CASE Publish
      BY <3>3 DEF Publish
    <3> QED
      BY <1>2, <3>1, <3>2, <3>3 DEF Scrub
  <2>3. \A r \in Roots : place[r].dir => place'[r].dir
    BY <1>2, DirsStay
  <2> QED
    BY <2>1, <2>2, <2>3 DEF Orderly, Deleting
<1>3. CASE Delete
  <2>1. UNCHANGED <<spent, away>> /\ removed' = TRUE
    BY <1>3 DEF Delete, DeleteBegin, DeleteManifests, DeleteDirs, Orderly, Deleting, TypeOK
  <2>2. \A r \in Roots : place[r].dir => place'[r].dir
    BY <1>3, DirsStay
  <2>3. pc' = "unlink" /\ spent.outages = 0 => dirs' = Roots \cup {Primary}
    BY <1>3 DEF Delete, DeleteBegin, DeleteManifests, DeleteDirs, Orderly
  <2>4. pc' = "rmtree" /\ spent.outages = 0 => ~Somewhere'
    <3> SUFFICES ASSUME pc' = "rmtree", spent.outages = 0 PROVE ~Somewhere'
      OBVIOUS
    <3>0. \A r \in Roots : away[r] = None /\ away'[r] = None
      BY <2>1 DEF Orderly
    <3>1. CASE DeleteManifests
      <4>1. dirs = Roots \cup {Primary}
        BY <3>1 DEF DeleteManifests, Orderly
      <4>2. (\A d \in dirs : CopyIn(d) = None) /\ UNCHANGED <<place, primary>>
        BY <3>1 DEF DeleteManifests
      <4>3. primary = None /\ \A r \in Roots : place[r].man = None
        BY <4>1, <4>2, Parameters DEF CopyIn
      <4> QED
        BY <3>0, <4>2, <4>3 DEF Somewhere
    <3>2. CASE DeleteDirs
      <4>1. ~Somewhere
        BY <3>2 DEF DeleteDirs, Orderly
      <4>2. /\ UNCHANGED place \/ \E d : place' = [place EXCEPT ![d] = Empty(@.dir)]
            /\ primary' \in {primary, None}
        BY <3>2 DEF DeleteDirs
      <4>3. \A r \in Roots : place'[r] = place[r] \/ place'[r].man = None
        BY <4>2 DEF Empty, TypeOK
      <4> QED
        BY <3>0, <4>1, <4>2, <4>3 DEF Somewhere
    <3> QED
      BY <1>3, <3>1, <3>2 DEF Delete, DeleteBegin
  <2> QED
    BY <2>1, <2>2, <2>3, <2>4 DEF Orderly, Deleting
<1>4. CASE Crash
  BY <1>4 DEF Crash, Orderly, Deleting, TypeOK
<1>5. CASE Damage \/ DamageManifest \/ MakeRoot
  <2>1. UNCHANGED <<away, removed, pc, dirs>> /\ spent'.outages = spent.outages
    BY <1>5 DEF Damage, DamageManifest, MakeRoot, TypeOK
  <2>2. \A r \in Roots : place[r].dir => place'[r].dir
    BY <1>5, DirsStay
  <2>3. Somewhere' => Somewhere
    <3>1. CASE Damage
      <4>1. PICK r \in Roots : \E lost \in SUBSET place[r].good, gone \in SUBSET place[r].files :
                 Damages(r, lost, gone)
        BY <3>1, DamageIs
      <4>2. PICK lost, gone : place' = [place EXCEPT ![r].files = @ \ gone, ![r].good = @ \ lost]
        BY <4>1 DEF Damages
      <4>3. \A q \in Roots : place'[q].man = place[q].man
        <5> SUFFICES ASSUME NEW q \in Roots PROVE place'[q].man = place[q].man
          OBVIOUS
        <5>1. \/ place'[q] = place[q]
              \/ place'[q] = [place[q] EXCEPT !.files = @ \ gone, !.good = @ \ lost]
          BY <4>2 DEF TypeOK
        <5> QED
          BY <1>0, <5>1 DEF Place
      <4> QED
        BY <2>1, <3>1, <4>3 DEF Somewhere, Damage
    <3>2. CASE DamageManifest
      <4>1. PICK lost \in {None, Bad} :
                 \/ Readable(primary) /\ primary' = lost /\ UNCHANGED place
                 \/ /\ \E r \in Roots : Readable(place[r].man) /\ place' = [place EXCEPT ![r].man = lost]
                    /\ UNCHANGED primary
        BY <3>2 DEF DamageManifest
      <4>2. \A q \in Roots : place'[q] = place[q] \/ place[q].man # None
        BY <4>1 DEF TypeOK, Readable
      <4> QED
        BY <2>1, <4>1, <4>2 DEF Somewhere, Readable
    <3>3. CASE MakeRoot
      <4>1. \A q \in Roots : place'[q] = place[q] \/ place'[q] = [place[q] EXCEPT !.dir = TRUE]
        BY <3>3 DEF MakeRoot, TypeOK
      <4>2. \A q \in Roots : place'[q].man = place[q].man
        BY <1>0, <4>1 DEF Place
      <4> QED
        BY <2>1, <3>3, <4>2 DEF Somewhere, MakeRoot
    <3> QED
      BY <1>5, <3>1, <3>2, <3>3
  <2> QED
    BY <2>1, <2>2, <2>3 DEF Orderly, Deleting
<1>6. CASE Unmount
  <2>1. UNCHANGED <<removed, pc>> /\ spent'.outages # 0
    BY <1>0, <1>6 DEF Unmount, TypeOK
  <2> QED
    BY <2>1 DEF Orderly, Deleting
<1>7. CASE Mount
  <2>1. UNCHANGED <<removed, pc, spent>> /\ spent.outages # 0
    BY <1>7 DEF Mount, Orderly
  <2> QED
    BY <2>1 DEF Orderly, Deleting
<1> QED
  BY <1>1, <1>2, <1>3, <1>4, <1>5, <1>6, <1>7 DEF Next, Fault

\* While no outage can have hidden a removed set, none could when the step began.
LEMMA ConditionStep ==
  ASSUME TypeOK, [Next]_vars, (removed => spent.outages = 0)'
  PROVE  removed => spent.outages = 0
<1> USE DEF work
<1>0. spent.outages \in Nat
  BY Parameters DEF TypeOK
<1>1. CASE WriteBegin \/ Scrub \/ UNCHANGED vars
  BY <1>1 DEF WriteBegin, Scrub, ScrubBegin, ScrubNothing, ScrubLost, Stage, Rename, Fail,
     PublishBegin, Publish, Judge, vars
<1>2. CASE Delete
  BY <1>2 DEF Delete, DeleteBegin, DeleteManifests, DeleteDirs
<1>3. CASE Crash \/ Damage \/ DamageManifest \/ Mount \/ MakeRoot
  <2>1. removed' = removed /\ spent'.outages = spent.outages
    BY <1>3 DEF Crash, Damage, DamageManifest, Mount, MakeRoot, TypeOK
  <2> QED
    BY <2>1
<1>4. CASE Unmount
  <2>1. removed' = removed /\ spent'.outages = spent.outages + 1
    BY <1>4 DEF Unmount, TypeOK
  <2> QED
    BY <1>0, <2>1
<1> QED
  BY <1>1, <1>2, <1>3, <1>4 DEF Next, Fault

LEMMA LedgerStep == LedgerInv /\ [Next]_vars => LedgerInv'
<1> SUFFICES ASSUME LedgerInv, [Next]_vars PROVE LedgerInv'
  OBVIOUS
<1>1. TypeOK' /\ Orderly'
  BY StepTypes, OrderlyStep DEF LedgerInv
<1>2. ASSUME (removed => spent.outages = 0)', NEW s \in Stripes PROVE Accounted(s)'
  <2>1. Accounted(s) /\ (removed => spent.outages = 0)
    BY <1>2, ConditionStep DEF LedgerInv
  <2>2. CASE UNCHANGED vars
    BY <2>1, <2>2 DEF vars, work, Accounted, Sound, Owed, Holders, Somewhere
  <2>3. CASE WriteBegin \/ Scrub
    BY <2>1, <2>3, WriteAccounted DEF LedgerInv
  <2>4. CASE Delete
    BY <2>1, <2>4, DeleteAccounted DEF LedgerInv
  <2>5. CASE Fault
    BY <2>1, <2>5, FaultAccounted DEF LedgerInv
  <2> QED
    BY <2>2, <2>3, <2>4, <2>5 DEF Next
<1> QED
  BY <1>1, <1>2 DEF LedgerInv

LEMMA InitLedger == Init => LedgerInv
<1> SUFFICES ASSUME Init PROVE LedgerInv
  OBVIOUS
<1>1. TypeOK
  BY InitTypes
<1>2. /\ \A r \in Roots : place[r] = Empty(TRUE) /\ away[r] = None
      /\ primary = None /\ pc = "idle" /\ removed = FALSE
      /\ \A s \in Stripes : hits[s] = 0
  BY DEF Init
<1>3. ~Somewhere
  BY <1>2 DEF Somewhere, Empty
<1>4. Orderly
  BY <1>2 DEF Orderly, Deleting, Empty
<1>5. ASSUME NEW s \in Stripes PROVE Accounted(s)
  <2>1. Cardinality({}) <= hits[s]
    BY <1>2, FS_EmptySet
  <2>2. Sound({}, s)
    BY <1>2, <1>3 DEF Sound, Owed, Empty
  <2> QED
    BY <2>1, <2>2 DEF Accounted
<1> QED
  BY <1>1, <1>4, <1>5 DEF LedgerInv

\* A stripe with no more hits than parity shards can be rebuilt.
LEMMA LedgerMeansShards == LedgerInv => ManifestMeansShards
<1> SUFFICES ASSUME LedgerInv, Tolerable, Manifest # None, NEW s \in Stripes
             PROVE  Cardinality({i \in Shards : ~Intact(Manifest, i, s)}) <= M
  BY DEF ManifestMeansShards, Recoverable
<1>1. TypeOK /\ Accounted(s) /\ hits[s] <= M /\ hits[s] \in Nat /\ M \in Nat
  BY Parameters DEF LedgerInv, Tolerable, TypeOK
<1>2. PICK H \in SUBSET Shards : Cardinality(H) <= hits[s] /\ Sound(H, s)
  BY <1>1 DEF Accounted
<1>3. ASSUME NEW i \in Shards \ H PROVE Intact(Manifest, i, s)
  <2>1. Holders(i) # {} /\ \A r \in Holders(i) : <<i, s>> \in place[r].good
    BY <1>1, <1>2, ManifestSomewhere DEF Sound, Owed, Holders
  <2>2. Locate(Manifest, i) \in Holders(i) /\ Locate(Manifest, i) # None
    BY <2>1, LocateIs
  <2> QED
    BY <2>1, <2>2 DEF Intact
<1> DEFINE broken == {i \in Shards : ~Intact(Manifest, i, s)}
<1>4. broken \subseteq H
  BY <1>3
<1> HIDE DEF broken
<1>5. IsFiniteSet(H) /\ Cardinality(H) \in Nat
  BY ShardsFinite
<1>6. Cardinality(broken) <= Cardinality(H) /\ Cardinality(broken) \in Nat
  BY <1>4, <1>5, FS_Subset, FS_CardinalityType
<1>7. Cardinality(broken) <= M
  BY <1>1, <1>2, <1>5, <1>6
<1> QED
  BY <1>7 DEF broken

\* "never a manifest pointing at missing shards" (backup.py:646) and "Any k intact shards
\* rebuild each stripe" (sharding.py:15): whatever deaths, rot and outages do in a backup, a
\* repair or a removal, a set with a manifest can be restored until a stripe is hit more
\* often than it has parity shards.
THEOREM ManifestInvariance == Spec => []ManifestMeansShards
BY InitLedger, LedgerStep, LedgerMeansShards, PTL DEF Spec

-----------------------------------------------------------------------------
(* A repair only ever adds                                                 *)

\* With one copy of each shard at most, it is the one that is located.
LEMMA OnlyHolder ==
  ASSUME OneCopyEach, NEW i \in Shards, NEW q \in Holders(i), NEW r \in Holders(i)
  PROVE  q = r
<1>1. IsFiniteSet(Roots)
  <2>1. 1 \in Int /\ NRoots \in Int
    BY Parameters
  <2> QED
    BY <2>1, FS_Interval DEF Roots
<1>2. IsFiniteSet(Holders(i)) /\ Cardinality(Holders(i)) \in Nat /\ Cardinality(Holders(i)) <= 1
  <2>1. Holders(i) \in SUBSET Roots
    BY DEF Holders
  <2>2. IsFiniteSet(Holders(i))
    BY <1>1, <2>1, FS_Subset
  <2> QED
    BY <2>2, FS_CardinalityType DEF OneCopyEach, Holders
<1>3. SUFFICES ASSUME q # r PROVE FALSE
  OBVIOUS
<1>4. {q, r} \subseteq Holders(i) /\ Cardinality({q, r}) = 2
  <2>1. Cardinality({q}) = 1 /\ IsFiniteSet({q})
    BY FS_Singleton
  <2>2. Cardinality({q} \cup {r}) = 2
    BY <1>3, <2>1, FS_AddElement
  <2>3. {q} \cup {r} = {q, r}
    OBVIOUS
  <2> QED
    BY <2>2, <2>3
<1>5. Cardinality({q, r}) <= Cardinality(Holders(i))
  BY <1>2, <1>4, FS_Subset
<1> QED
  BY <1>2, <1>4, <1>5

\* What can be restored still can, if its manifests and its intact shards stay what they are.
LEMMA StillRestorable ==
  ASSUME Restorable,
         Readable(primary) => Readable(primary'),
         \A r \in Roots : Readable(place[r].man) => Readable(place'[r].man),
         \A i \in Shards : \A s \in Stripes :
           Intact(Manifest, i, s) => Intact(Manifest, i, s)'
  PROVE  Restorable'
<1>1. Readable(primary) \/ \E r \in Roots : Readable(place[r].man)
  BY DEF Restorable, Manifest
<1>2. Readable(primary') \/ \E r \in Roots : Readable(place'[r].man)
  BY <1>1
<1>3. Manifest' # None
  <2> DEFINE replicas == {r \in Roots : Readable(place'[r].man)}
  <2>1. replicas # {} => Min(replicas) \in replicas
    BY LeastRoot
  <2> QED
    BY <1>2, <2>1 DEF Manifest, Readable
<1>4. ASSUME NEW s \in Stripes
      PROVE  Cardinality({i \in Shards : ~Intact(Manifest, i, s)'}) <= M
  <2> DEFINE old == {i \in Shards : ~Intact(Manifest, i, s)}
             new == {i \in Shards : ~Intact(Manifest, i, s)'}
  <2>1. new \subseteq old /\ old \in SUBSET Shards
    OBVIOUS
  <2>2. Cardinality(old) <= M
    BY DEF Restorable, Recoverable
  <2> HIDE DEF old, new
  <2>3. IsFiniteSet(old) /\ Cardinality(old) \in Nat
    BY <2>1, ShardsFinite
  <2>4. Cardinality(new) <= Cardinality(old) /\ Cardinality(new) \in Nat
    BY <2>1, <2>3, FS_Subset, FS_CardinalityType
  <2>5. Cardinality(new) <= M
    BY <2>2, <2>3, <2>4, Parameters
  <2> QED
    BY <2>5 DEF new
<1>5. Recoverable(Manifest)'
  BY <1>4 DEF Recoverable
<1> QED
  BY <1>3, <1>5 DEF Restorable

\* Shards are added to roots, with all their blocks, and none is taken away.
LEMMA StillIntact ==
  ASSUME TypeOK, OneCopyEach, NEW i \in Shards, NEW s \in Stripes, Intact(Manifest, i, s),
         \A r \in Roots : /\ place[r].files \subseteq place'[r].files
                          /\ place[r].good \subseteq place'[r].good
                          /\ i \in place'[r].files => \/ i \in place[r].files
                                                      \/ <<i, s>> \in place'[r].good
  PROVE  Intact(Manifest, i, s)'
<1>1. Locate(Manifest, i) \in Holders(i) /\ <<i, s>> \in place[Locate(Manifest, i)].good
  BY LocateIs DEF Intact
<1>2. \A r \in Holders(i) : <<i, s>> \in place[r].good
  BY <1>1, OnlyHolder
<1> DEFINE holders == {r \in Roots : i \in place'[r].files}
           at == Locate(Manifest, i)'
<1>3. holders # {} /\ \A r \in holders : <<i, s>> \in place'[r].good
  BY <1>1, <1>2 DEF Holders
<1>4. at \in holders
  <2>1. Min(holders) \in holders
    BY <1>3, LeastRoot
  <2> QED
    BY <1>3, <2>1 DEF Locate
<1>5. at # None
  BY <1>4, Parameters
<1> QED
  BY <1>3, <1>4, <1>5 DEF Intact

LEMMA RepairStep ==
  ASSUME TypeOK, [Next]_vars, Restorable, OneCopyEach, ~Deleting,
         away' = away, hits' = hits, spent'.hits = spent.hits
  PROVE  Restorable'
<1> USE DEF work
<1>0. /\ place \in [Roots -> Place] /\ away \in [Roots -> Place \cup {None}] /\ None \notin Place
      /\ \A r \in Roots : place[r] \in Place
      /\ Readable(plan) /\ spent.hits \in Nat
  BY Parameters DEF TypeOK, Readable
<1>1. ASSUME \A r \in Roots : /\ place'[r].files = place[r].files
                              /\ place'[r].good = place[r].good
                              /\ place'[r].man \in {place[r].man, plan},
             primary' \in {primary, plan}
      PROVE  Restorable'
  <2>1. \A i \in Shards : \A s \in Stripes :
          Intact(Manifest, i, s) => Intact(Manifest, i, s)'
    BY <1>1, StillIntact
  <2> QED
    BY <1>0, <1>1, <2>1, StillRestorable
<1>2. CASE UNCHANGED <<place, primary>>
  BY <1>1, <1>2
<1>3. CASE WriteBegin \/ Stage \/ Fail
  <2>1. ASSUME NEW r \in Roots
        PROVE  /\ place'[r].files = place[r].files
               /\ place'[r].good = place[r].good
               /\ place'[r].man = place[r].man
    <3>1. \E its : \/ place'[r] = place[r]
                  \/ place'[r] = [place[r] EXCEPT !.dir = TRUE, !.tmp = its]
                  \/ place'[r] = [place[r] EXCEPT !.tmp = its]
      BY <1>3 DEF WriteBegin, Stage, Fail
    <3>2. place[r] \in Place
      BY <1>0
    <3> QED
      BY <3>1, <3>2 DEF Place
  <2>2. primary' = primary
    BY <1>3 DEF WriteBegin, Stage, Fail
  <2> QED
    BY <1>1, <2>1, <2>2
<1>4. CASE Publish \/ MakeRoot
  <2>1. /\ \/ UNCHANGED place
           \/ \E d : \/ place' = [place EXCEPT ![d].dir = TRUE, ![d].man = plan]
                     \/ place' = [place EXCEPT ![d].dir = TRUE]
        /\ primary' \in {primary, plan}
    BY <1>4 DEF Publish, MakeRoot
  <2>2. ASSUME NEW r \in Roots
        PROVE  /\ place'[r].files = place[r].files
               /\ place'[r].good = place[r].good
               /\ place'[r].man \in {place[r].man, plan}
    <3>1. \/ place'[r] = place[r]
          \/ place'[r] = [place[r] EXCEPT !.dir = TRUE, !.man = plan]
          \/ place'[r] = [place[r] EXCEPT !.dir = TRUE]
      BY <1>0, <2>1
    <3>2. place[r] \in Place
      BY <1>0
    <3> QED
      BY <3>1, <3>2 DEF Place
  <2> QED
    BY <1>1, <2>1, <2>2
<1>5. CASE Rename
  <2>1. PICK j \in Shards, p \in Roots :
             place' = [place EXCEPT ![p].files = @ \cup {j}, ![p].tmp = @ \ {j},
                                    ![p].good = @ \cup ({j} \X Stripes)]
    <3>1. todo \in SUBSET Nat /\ todo # {} /\ todo \subseteq Shards
      BY <1>5, ShardsFinite DEF Rename, TypeOK
    <3>2. Min(todo) \in Shards
      BY <3>1, MinIs
    <3>3. plan[Min(todo)] \in Roots
      BY <3>2 DEF TypeOK, Placement
    <3> QED
      BY <1>5, <3>2, <3>3 DEF Rename
  <2>2. ASSUME NEW r \in Roots
        PROVE  /\ place[r].files \subseteq place'[r].files
               /\ place[r].good \subseteq place'[r].good
               /\ place'[r].man = place[r].man
               /\ \A i \in Shards : \A s \in Stripes :
                    i \in place'[r].files => i \in place[r].files \/ <<i, s>> \in place'[r].good
    <3>1. place[r] \in Place
      BY <1>0
    <3>2. \/ place'[r] = place[r]
          \/ place'[r] = [place[r] EXCEPT !.files = @ \cup {j}, !.tmp = @ \ {j},
                                          !.good = @ \cup ({j} \X Stripes)]
      BY <1>0, <2>1
    <3>3. CASE place'[r] = place[r]
      BY <3>3
    <3>4. CASE place'[r] # place[r]
      <4>1. /\ place'[r].files = place[r].files \cup {j} /\ place'[r].man = place[r].man
            /\ place'[r].good = place[r].good \cup ({j} \X Stripes)
        <5> DEFINE old == place[r]
                   new == place'[r]
        <5>1. old \in Place
          BY <3>1
        <5>2. new = [old EXCEPT !.files = @ \cup {j}, !.tmp = @ \ {j},
                                !.good = @ \cup ({j} \X Stripes)]
          BY <3>2, <3>4
        <5> HIDE DEF old, new
        <5>3. /\ new.files = old.files \cup {j} /\ new.man = old.man
              /\ new.good = old.good \cup ({j} \X Stripes)
          BY <5>1, <5>2 DEF Place
        <5> QED
          BY <5>3 DEF old, new
      <4> QED
        BY <4>1
    <3> QED
      BY <3>3, <3>4
  <2>3. \A i \in Shards : \A s \in Stripes :
          Intact(Manifest, i, s) => Intact(Manifest, i, s)'
    BY <2>2, StillIntact
  <2>4. primary' = primary
    BY <1>5 DEF Rename
  <2> QED
    BY <2>2, <2>3, <2>4, StillRestorable
<1>6. CASE Unmount \/ Mount
  <2>1. PICK r \in Roots : \/ away[r] = None /\ away' = [away EXCEPT ![r] = place[r]]
                           \/ away[r] # None /\ away' = [away EXCEPT ![r] = None]
    BY <1>6 DEF Unmount, Mount
  <2> QED
    BY <1>0, <2>1
<1>7. CASE Damage \/ DamageManifest
  <2>1. spent'.hits = spent.hits + 1
    BY <1>7 DEF Damage, DamageManifest, TypeOK
  <2> QED
    BY <1>0, <2>1
<1>8. CASE DeleteManifests \/ DeleteDirs
  BY <1>8 DEF DeleteManifests, DeleteDirs, Deleting
<1>9. CASE ScrubBegin \/ ScrubNothing \/ ScrubLost \/ PublishBegin \/ Judge \/ DeleteBegin \/ Crash
  BY <1>2, <1>9 DEF ScrubBegin, ScrubNothing, ScrubLost, PublishBegin, Judge, DeleteBegin, Crash
<1> QED
  BY <1>2, <1>3, <1>4, <1>5, <1>6, <1>7, <1>8, <1>9 DEF Next, Scrub, Delete, Fault, vars

\* repair_set (sharding.py:513) and the publishing after it only ever add: no step of a
\* backup or a repair, and no crash in one, makes a set that could be restored one that
\* cannot, unless a disk has brought second copies of its shards back.
THEOREM RepairOnlyAdds == Spec => RepairKeeps
<1>1. TypeOK /\ [Next]_vars =>
        [Restorable /\ OneCopyEach /\ ~Deleting
           /\ away' = away /\ hits' = hits /\ spent'.hits = spent.hits => Restorable']_vars
  BY RepairStep
<1> QED
  BY <1>1, TypesKept, PTL DEF Spec, RepairKeeps

-----------------------------------------------------------------------------
(* The lock of its key, which whoever works on the set holds               *)

LEMMA InitLock == LockInit => LockInv
  BY LockAssumption DEF LockInit, LockInv, LockTypeOK, Steps, DescriptorsOpen, HoldersLocked,
     LocksHeld, SidecarStays, Held

\* One step of any process keeps the inductive invariant: one case per action.
LEMMA StepLock ==
  ASSUME LockInv, NEW p \in Procs, Step(p)
  PROVE  LockInv'
<1> USE LockAssumption DEF LockInv, LockTypeOK, Steps, DescriptorsOpen, HoldersLocked,
     LocksHeld, SidecarStays, Held, Goto
<1>1. CASE Mkdir(p)
  BY <1>1 DEF Mkdir
<1>2. CASE OpenExisting(p)
  BY <1>2 DEF OpenExisting
<1>3. CASE OpenNew(p)
  <2>1. PICK i \in Inodes : Free(i) /\ path' = i /\ fd' = [fd EXCEPT ![p] = i]
    BY <1>3 DEF OpenNew
  <2>2. flock[i] = Nil
    BY <2>1 DEF Free
  <2>3. Removers = {} => \A q \in Procs : fd[q] = Nil
    BY <1>3 DEF OpenNew
  <2> QED
    BY <1>3, <2>1, <2>2, <2>3 DEF OpenNew, Free
<1>4. CASE OpenFails(p)
  BY <1>4 DEF OpenFails
<1>5. CASE TryLock(p)
  BY <1>5 DEF TryLock
<1>6. CASE Timeout(p)
  BY <1>6 DEF Timeout
<1>7. CASE Release(p)
  BY <1>7 DEF Release, Unlock
<1>8. CASE Unlink(p)
  BY <1>8 DEF Unlink
<1>9. CASE Rmdir(p)
  BY <1>9 DEF Rmdir
<1>10. CASE Die(p)
  BY <1>10 DEF Die, Unlock
<1> QED
  BY <1>1, <1>2, <1>3, <1>4, <1>5, <1>6, <1>7, <1>8, <1>9, <1>10 DEF Step, Open, Poll

LEMMA StutterLock == LockInv /\ UNCHANGED lockVars => LockInv'
  BY DEF lockVars, LockInv, LockTypeOK, Steps, DescriptorsOpen, HoldersLocked, LocksHeld,
     SidecarStays, Held

\* The inductive invariant holds for every number of processes, inodes and
\* removers, crashes included.
THEOREM LockInvariance == LockSpec => []LockInv
<1>1. LockInv /\ [LockNext]_lockVars => LockInv'
  BY StepLock, StutterLock DEF LockNext
<1> QED
  BY InitLock, <1>1, PTL DEF LockSpec

\* locking.py:45 "A cross-process exclusive lock": true whenever no process
\* removes the sidecar file (BackupManager.remove_backups is the one that does).
THEOREM LockExclusive == ASSUME Removers = {} PROVE LockSpec => []MutualExclusion
<1>1. LockInv => MutualExclusion
  BY LockAssumption DEF LockInv, LockTypeOK, MutualExclusion, Held, HoldersLocked,
     DescriptorsOpen, SidecarStays
<1> QED
  BY LockInvariance, <1>1, PTL

\* What is left of exclusion when the sidecar can be removed: it is per file.
THEOREM LockExclusivePerFile == LockSpec => []FileExclusion
<1>1. LockInv => FileExclusion
  BY LockAssumption DEF LockInv, LockTypeOK, FileExclusion, Held, HoldersLocked
<1> QED
  BY LockInvariance, <1>1, PTL

-----------------------------------------------------------------------------
(* ... which implements Mutex                                              *)

\* Every step of a FileLock is an Enter, a Leave or a stutter of the abstract
\* mutexes, with and without removers of the sidecar.
THEOREM LockRefines == LockSpec => FilesAreMutexes
<1>1. LockInit => Abstract!Init
  BY DEF LockInit, Abstract!Init
<1>2. LockInv /\ [LockNext]_lockVars => [Abstract!Next]_flock
  <2> SUFFICES ASSUME LockInv, NEW p \in Procs, Step(p), flock' # flock
               PROVE  Abstract!Next
    BY DEF LockNext, lockVars
  <2>1. p # Nil /\ flock \in [Inodes -> Procs \cup {Nil}] /\ (fd[p] # Nil => fd[p] \in Inodes)
    BY LockAssumption DEF LockInv, LockTypeOK
  <2>2. CASE TryLock(p)
    <3>1. fd[p] \in Inodes /\ flock[fd[p]] = Nil /\ flock' = [flock EXCEPT ![fd[p]] = p]
      BY <2>1, <2>2 DEF TryLock, Goto, LockInv, DescriptorsOpen
    <3>2. \A g \in Inodes : flock[g] # p
      BY <2>1, <2>2 DEF TryLock, Goto, LockInv, LocksHeld, Held
    <3> QED BY <3>1, <3>2 DEF Abstract!Next, Abstract!Enter
  <2>3. ASSUME flock' = Unlock(p)
        PROVE  Abstract!Next
    <3>1. PICK i \in Inodes : flock[i] = p
      BY <2>1, <2>3 DEF Unlock
    <3>2. \A g \in Inodes : flock[g] = p => g = i
      BY <2>1, <3>1 DEF LockInv, LocksHeld
    <3>3. flock' = [flock EXCEPT ![i] = Nil]
      BY <2>1, <2>3, <3>1, <3>2 DEF Unlock
    <3> QED BY <3>1, <3>3 DEF Abstract!Next, Abstract!Leave
  <2> QED
    BY <2>2, <2>3 DEF Step, Mkdir, Open, OpenExisting, OpenNew, OpenFails, Poll, Timeout,
       Release, Unlink, Rmdir, Die
<1> QED
  BY LockInvariance, <1>1, <1>2, PTL DEF LockSpec, Abstract!Spec, FilesAreMutexes
=============================================================================
