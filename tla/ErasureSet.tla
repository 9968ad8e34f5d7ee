----------------------------- MODULE ErasureSet -----------------------------
(***************************************************************************)
(* One erasure-coded backup set, from its backup to its removal:           *)
(*   sharding.py   write_sharded, ShardedSet, verify_set, repair_set       *)
(*   backup.py     _shard_file, _publish, _verify_one, _repair_one,        *)
(*                 _delete_dirs                                            *)
(*   autopilot.py  _task_scrub, _set_roots_present                         *)
(* on shard roots that rot, go away, come back, or are made anew by the    *)
(* backup of another database.  A block is intact or it is not: any K      *)
(* intact blocks of a stripe give the others.  Whoever works on the set    *)
(* holds its key's lock, so one thing happens to it at a time.             *)
(***************************************************************************)
EXTENDS Naturals, FiniteSets, FiniteSetsExt, Functions

CONSTANTS NRoots,      \* shard roots, numbered in the order they are configured
          K, M,        \* data and parity shards
          NStripes,
          MaxHits,     \* bound on blocks and files damaged
          MaxOutages,  \* bound on roots that go away
          MaxCrashes,  \* bound on crashes
          Rot,         \* may a manifest copy become unreadable, or only go missing
          None, Bad

Roots == 1..NRoots
Primary == 0                     \* backup_dir: a manifest copy and no shards
Shards == 0..(K + M - 1)
Stripes == 1..NStripes

Placement == [Shards -> Roots]
Copies == Placement \cup {None, Bad}
Place == [dir : BOOLEAN, files : SUBSET Shards, good : SUBSET (Shards \X Stripes),
          tmp : SUBSET Shards, man : Copies]

ASSUME ErasureSetAssumption ==
  /\ {NRoots, K, NStripes} \subseteq Nat \ {0} /\ M \in Nat
  /\ {MaxHits, MaxOutages, MaxCrashes} \subseteq Nat
  /\ Rot \in BOOLEAN /\ None # Bad
  /\ None \notin Roots \cup Place /\ {None, Bad} \cap Placement = {}

VARIABLES
  place,     \* what the path of each root shows: is it a directory, which shard files of the
             \* set it holds, which of their blocks are intact, the temporary files, the
             \* manifest copy
  away,      \* what is on the disk of a root that is not mounted, or None
  primary,   \* the manifest copy in backup_dir
  pc,        \* what the holder of the key lock, or the scrub after it, does next
  plan,      \* the placement it is about to publish
  todo,      \* the shards it has yet to rename
  dirs,      \* the directories it has yet to write or clear
  tracked,   \* unrecoverable_sets: an earlier scrub found the set unrecoverable
  made, removed,
  spent,     \* how many faults there were
  hits       \* ghost: the blocks of each stripe damaged or out of reach so far

work == <<pc, plan, todo, dirs>>
vars == <<place, away, primary, work, tracked, made, removed, spent, hits>>

Empty(dir) == [dir |-> dir, files |-> {}, good |-> {}, tmp |-> {}, man |-> None]

TypeOK ==
  /\ place \in [Roots -> Place] /\ away \in [Roots -> Place \cup {None}]
  /\ primary \in Copies
  /\ pc \in {"idle", "stage", "rename", "publish", "judge", "drop", "unlink", "rmtree"}
  /\ plan \in Placement /\ todo \subseteq Shards /\ dirs \subseteq Roots \cup {Primary}
  /\ {tracked, made, removed} \subseteq BOOLEAN
  /\ spent \in [hits : 0..MaxHits, outages : 0..MaxOutages, crashes : 0..MaxCrashes]
  /\ hits \in [Stripes -> Nat]

\* Shards placed on roots counted from zero.
RoundRobinFromZero == [i \in Shards |-> i % NRoots]

\* write_sharded: shard i goes to roots[i % len(roots)].
RoundRobin == [i \in Shards |-> (i % NRoots) + 1]

Init ==
  /\ place = [r \in Roots |-> Empty(TRUE)] /\ away = [r \in Roots |-> None]
  /\ primary = None
  /\ pc = "idle" /\ plan = RoundRobin /\ todo = {} /\ dirs = {}
  /\ tracked = FALSE /\ made = FALSE /\ removed = FALSE
  /\ spent = [hits |-> 0, outages |-> 0, crashes |-> 0]
  /\ hits = [s \in Stripes |-> 0]

-----------------------------------------------------------------------------
(* Reading                                                                 *)

\* _load_manifest_from: the primary copy, or the first replica that can be read.
Readable(copy) == copy \notin {None, Bad}
Manifest ==
  LET replicas == {r \in Roots : Readable(place[r].man)}
  IN  IF Readable(primary) THEN primary
      ELSE IF replicas = {} THEN None ELSE place[Min(replicas)].man

\* ShardedSet.locate: the recorded root first, then every known one. The first file
\* that exists is taken, whatever it holds.
Locate(man, i) ==
  LET holders == {r \in Roots : i \in place[r].files}
  IN  IF man[i] \in holders THEN man[i]
      ELSE IF holders = {} THEN None ELSE Min(holders)
Intact(man, i, s) == Locate(man, i) # None /\ <<i, s>> \in place[Locate(man, i)].good

\* verify_set; decode_to_file succeeds on the same condition.
Damaged(man) == {i \in Shards : \E s \in Stripes : ~Intact(man, i, s)}
Recoverable(man) ==
  \A s \in Stripes : Cardinality({i \in Shards : ~Intact(man, i, s)}) <= M

\* _manifest_dirs: the recorded roots that are directories, and the primary one.
ManifestDirs(man) == {r \in Range(man) : place[r].dir} \cup {Primary}
CopyIn(d) == IF d = Primary THEN primary ELSE place[d].man
\* A check that looks at the shards alone.
CompleteShards(man) == Damaged(man) = {}

\* _verify_one.
Complete(man) == Damaged(man) = {} /\ \A d \in ManifestDirs(man) : CopyIn(d) # None

-----------------------------------------------------------------------------
(* Backup and repair                                                       *)

\* _shard_file and write_sharded, up to the temporary files: mkdir makes a root that is away.
WriteBegin ==
  /\ pc = "idle" /\ ~made
  /\ made' = TRUE
  /\ place' = [r \in Roots |-> [place[r] EXCEPT !.dir = TRUE,
                                                !.tmp = {i \in Shards : RoundRobin[i] = r}]]
  /\ plan' = RoundRobin /\ todo' = Shards /\ dirs' = {} /\ pc' = "rename"
  /\ UNCHANGED <<away, primary, tracked, removed, spent, hits>>

\* _pick_root: the directory with the fewest of this set's shards, so far.
Load(at, r) == Cardinality({i \in Shards : at[i] = r})
PickRoot(at) ==
  LET usable == {r \in Roots : place[r].dir}
      least == {r \in usable : \A q \in usable : Load(at, r) <= Load(at, q)}
  IN  Min(least)

\* repair_set: a damaged shard stays where it is or was, if that is a directory.
Home(man, at, i) ==
  LET home == IF Locate(man, i) # None THEN Locate(man, i) ELSE man[i]
  IN  IF place[home].dir THEN home ELSE PickRoot(at)
PlacedBefore(man, at, i) ==
  [j \in Shards |-> IF j \notin Damaged(man) THEN Locate(man, j) ELSE IF j < i THEN at[j] ELSE None]

\* The damaged shards are placed in order, each when those before it are.
Targets(man) ==
  CHOOSE at \in Placement :
    \A i \in Shards :
      at[i] = IF i \in Damaged(man) THEN Home(man, PlacedBefore(man, at, i), i) ELSE Locate(man, i)

\* check_sets with repair, _repair_one up to the temporary files of repair_set.
ScrubBegin ==
  /\ pc = "idle" /\ Manifest # None /\ Recoverable(Manifest) /\ ~Complete(Manifest)
  /\ \E r \in Roots : place[r].dir
  /\ plan' = IF Damaged(Manifest) = {} THEN Manifest ELSE Targets(Manifest)
  /\ todo' = Damaged(Manifest)
  /\ pc' = "stage"
  /\ UNCHANGED <<place, away, primary, dirs, tracked, made, removed, spent, hits>>

ScrubNothing ==
  /\ pc = "idle" /\ tracked
  /\ Manifest # None => Complete(Manifest)
  /\ tracked' = FALSE
  /\ UNCHANGED <<place, away, primary, work, made, removed, spent, hits>>

\* Shards opened for writing where they are.
StageInPlace ==
  /\ pc = "stage" /\ Recoverable(plan)
  /\ place' = [r \in Roots |->
       LET its == {i \in todo : plan[i] = r}
       IN  IF its = {} THEN place[r]
           ELSE [place[r] EXCEPT !.dir = TRUE, !.tmp = its, !.files = @ \cup its,
                                 !.good = {b \in @ : b[1] \notin its}]]
  /\ pc' = "rename"
  /\ UNCHANGED <<away, primary, plan, todo, dirs, tracked, made, removed, spent, hits>>

\* Every rebuilt shard is written to a temporary file first.
Stage ==
  /\ pc = "stage" /\ Recoverable(plan)
  /\ place' = [r \in Roots |->
       LET its == {i \in todo : plan[i] = r}
       IN  IF its = {} THEN place[r] ELSE [place[r] EXCEPT !.dir = TRUE, !.tmp = its]]
  /\ pc' = "rename"
  /\ UNCHANGED <<away, primary, plan, todo, dirs, tracked, made, removed, spent, hits>>

Rename ==
  /\ pc = "rename" /\ todo # {}
  /\ LET i == Min(todo) IN
       /\ i \in place[plan[i]].tmp
       /\ place' = [place EXCEPT ![plan[i]].files = @ \cup {i}, ![plan[i]].tmp = @ \ {i},
                                 ![plan[i]].good = @ \cup ({i} \X Stripes)]
       /\ todo' = todo \ {i}
  /\ UNCHANGED <<away, primary, pc, plan, dirs, tracked, made, removed, spent, hits>>

\* The blocks (an UnrecoverableSet) or the temporary file (an OSError) went away meanwhile:
\* the rest is cleaned up.
Fail ==
  /\ \/ pc = "stage" /\ ~Recoverable(plan) /\ UNCHANGED tracked
     \/ /\ pc = "rename" /\ todo # {} /\ Min(todo) \notin place[plan[Min(todo)]].tmp
        /\ tracked' = FALSE
  /\ place' = [r \in Roots |-> [place[r] EXCEPT !.tmp = {}]]
  /\ pc' = "idle" /\ todo' = {}
  /\ UNCHANGED <<away, primary, plan, dirs, made, removed, spent, hits>>

\* The copies that are missing or differ.
PublishBegin ==
  /\ pc = "rename" /\ todo = {}
  /\ dirs' = {d \in ManifestDirs(plan) : CopyIn(d) # plan}
  /\ pc' = "publish"
  /\ UNCHANGED <<place, away, primary, plan, todo, tracked, made, removed, spent, hits>>

\* Replicas first, the primary manifest last.  A set that is still lost stays noted.
Publish ==
  /\ pc = "publish"
  /\ IF dirs = {}
     THEN /\ pc' = "idle" /\ tracked' = (tracked /\ Manifest # None /\ ~Recoverable(Manifest))
          /\ UNCHANGED <<place, primary, dirs>>
     ELSE /\ \E d \in dirs :
               /\ d = Primary => dirs = {Primary}
               /\ dirs' = dirs \ {d}
               /\ IF d = Primary THEN primary' = plan /\ UNCHANGED place
                  ELSE /\ place' = [place EXCEPT ![d].dir = TRUE, ![d].man = plan]
                       /\ UNCHANGED primary
          /\ UNCHANGED <<pc, tracked>>
  /\ UNCHANGED <<away, plan, todo, made, removed, spent, hits>>

-----------------------------------------------------------------------------
(* Removal                                                                 *)

\* _task_scrub: first noted, then, when the grace is over, a candidate for removal.
ScrubLost ==
  /\ pc = "idle" /\ Manifest # None /\ ~Recoverable(Manifest)
  /\ \/ ~tracked /\ tracked' = TRUE /\ UNCHANGED pc
     \/ tracked /\ pc' = "judge" /\ UNCHANGED tracked
  /\ UNCHANGED <<place, away, primary, plan, todo, dirs, made, removed, spent, hits>>

\* _set_roots_present, when every set has been scrubbed.
Judge ==
  /\ pc = "judge"
  /\ pc' = IF Manifest = None \/ \A r \in Range(Manifest) : place[r].dir THEN "drop" ELSE "idle"
  /\ UNCHANGED <<place, away, primary, plan, todo, dirs, tracked, made, removed, spent, hits>>

\* remove_set, for the autopilot, or for rotation, retention or an operator.
DeleteBegin ==
  /\ pc = "drop" \/ (pc = "idle" /\ made /\ ~removed)
  /\ removed' = TRUE
  /\ dirs' = {r \in Roots : place[r].dir} \cup {Primary}
  /\ pc' = "unlink" /\ tracked' = FALSE
  /\ UNCHANGED <<place, away, primary, plan, todo, made, spent, hits>>

\* The set's directories removed one after another.
DeleteTrees ==
  /\ pc = "unlink"
  /\ pc' = "rmtree"
  /\ UNCHANGED <<place, away, primary, plan, todo, dirs, tracked, made, removed, spent, hits>>

\* _delete_dirs: all the manifests, the primary one first ...
DeleteManifests ==
  /\ pc = "unlink"
  /\ \/ /\ Primary \in dirs /\ primary # None
        /\ primary' = None /\ UNCHANGED <<place, pc>>
     \/ /\ Primary \notin dirs \/ primary = None
        /\ \E d \in dirs \ {Primary} :
             /\ place[d].man # None /\ place' = [place EXCEPT ![d].man = None]
             /\ \A r \in dirs \ {Primary} : r < d => place[r].man = None
        /\ UNCHANGED <<primary, pc>>
     \/ /\ \A d \in dirs : CopyIn(d) = None
        /\ pc' = "rmtree" /\ UNCHANGED <<place, primary>>
  /\ UNCHANGED <<away, plan, todo, dirs, tracked, made, removed, spent, hits>>

\* ... then the directories.
DeleteDirs ==
  /\ pc = "rmtree"
  /\ IF dirs = {}
     THEN pc' = "idle" /\ UNCHANGED <<place, primary, dirs>>
     ELSE LET d == Min(dirs) IN
          /\ dirs' = dirs \ {d}
          /\ IF d = Primary THEN primary' = None /\ UNCHANGED place
             ELSE place' = [place EXCEPT ![d] = Empty(@.dir)] /\ UNCHANGED primary
          /\ UNCHANGED pc
  /\ UNCHANGED <<away, plan, todo, tracked, made, removed, spent, hits>>

-----------------------------------------------------------------------------
(* What happens to it                                                      *)

Crash ==
  /\ pc # "idle" /\ spent.crashes < MaxCrashes
  /\ spent' = [spent EXCEPT !.crashes = @ + 1]
  /\ pc' = "idle" /\ todo' = {} /\ dirs' = {}
  /\ UNCHANGED <<place, away, primary, plan, tracked, made, removed, hits>>

\* A block flips, or a file is lost.
Hit(lost) == hits' = [s \in Stripes |-> hits[s] + Cardinality({b \in lost : b[2] = s})]
Damage ==
  /\ spent.hits < MaxHits /\ spent' = [spent EXCEPT !.hits = @ + 1]
  /\ \E r \in Roots :
       \/ \E b \in place[r].good :
            place' = [place EXCEPT ![r].good = @ \ {b}] /\ Hit({b})
       \/ \E i \in place[r].files :
            LET its == {b \in place[r].good : b[1] = i}
            IN  place' = [place EXCEPT ![r].files = @ \ {i}, ![r].good = @ \ its] /\ Hit(its)
  /\ UNCHANGED <<away, primary, work, tracked, made, removed>>

DamageManifest ==
  /\ spent.hits < MaxHits /\ spent' = [spent EXCEPT !.hits = @ + 1]
  /\ \E lost \in {None} \cup (IF Rot THEN {Bad} ELSE {}) :
       \/ Readable(primary) /\ primary' = lost /\ UNCHANGED place
       \/ /\ \E r \in Roots : Readable(place[r].man) /\ place' = [place EXCEPT ![r].man = lost]
          /\ UNCHANGED primary
  /\ UNCHANGED <<away, work, tracked, made, removed, hits>>

\* A disk is unmounted, or lost for good; it is mounted again, over what its path shows.
Unmount ==
  /\ spent.outages < MaxOutages /\ spent' = [spent EXCEPT !.outages = @ + 1]
  /\ \E r \in Roots :
       /\ away[r] = None
       /\ away' = [away EXCEPT ![r] = place[r]] /\ place' = [place EXCEPT ![r] = Empty(FALSE)]
       /\ Hit(place[r].good)
  /\ UNCHANGED <<primary, work, tracked, made, removed>>

Mount ==
  /\ \E r \in Roots : /\ away[r] # None
                      /\ place' = [place EXCEPT ![r] = away[r]]
                      /\ away' = [away EXCEPT ![r] = None]
                      /\ Hit(place[r].good)
  /\ UNCHANGED <<primary, work, tracked, made, removed, spent>>

\* The backup of another database makes the root that is away.
MakeRoot ==
  /\ \E r \in Roots : ~place[r].dir /\ place' = [place EXCEPT ![r].dir = TRUE]
  /\ UNCHANGED <<away, primary, work, tracked, made, removed, spent, hits>>

Scrub ==
  \/ ScrubBegin \/ ScrubNothing \/ ScrubLost \/ Stage \/ Rename \/ Fail
  \/ PublishBegin \/ Publish \/ Judge
Delete == DeleteBegin \/ DeleteManifests \/ DeleteDirs
Fault == Crash \/ Damage \/ DamageManifest \/ Unmount \/ Mount \/ MakeRoot

Next == WriteBegin \/ Scrub \/ Delete \/ Fault

Spec == Init /\ [][Next]_vars

\* The scrub comes round again and again, and what began goes on unless its process dies.
FairSpec == Spec /\ WF_vars(Scrub) /\ WF_vars(Delete /\ pc # "idle")

-----------------------------------------------------------------------------
(* Properties                                                              *)

Restorable == Manifest # None /\ Recoverable(Manifest)
Deleting == pc \in {"unlink", "rmtree"}

\* "never a manifest pointing at missing shards" (backup.py:646) and "Any k intact shards
\* rebuild each stripe" (sharding.py:15): a set that has a manifest can be restored while
\* no stripe was hit more than M times, at any point of a backup, a repair or a removal.
Tolerable == (\A s \in Stripes : hits[s] <= M) /\ (removed => spent.outages = 0)
ManifestMeansShards == Tolerable /\ Manifest # None => Recoverable(Manifest)

\* Repair only ever adds: no step of a backup or a repair, and no crash in one, makes a
\* set that could be restored one that cannot, unless a disk that came back has brought
\* second copies of shards that were rebuilt elsewhere.
OneCopyEach == \A i \in Shards : Cardinality({r \in Roots : i \in place[r].files}) <= 1
RepairKeeps ==
  [][Restorable /\ OneCopyEach /\ ~Deleting
       /\ away' = away /\ hits' = hits /\ spent'.hits = spent.hits => Restorable']_vars

\* A set that can be restored regains its full redundancy: once the faults stop it has
\* every block and every manifest copy, or was removed, or lost too much in between.
Redundant == Damaged(Manifest) = {} /\ \A d \in ManifestDirs(Manifest) : Readable(CopyIn(d))
RegainsRedundancy == <>[](Restorable => Redundant)

\* "Any k intact shards rebuild each stripe" (sharding.py:15), wherever they are.
AnyKRebuild ==
  Manifest # None /\ (\A s \in Stripes :
    Cardinality({i \in Shards : \A r \in Roots : <<i, s>> \notin place[r].good}) <= M)
  => Recoverable(Manifest)

\* "an unmounted disk never triggers this" (autopilot.py:17): the autopilot drops a set
\* only if the disks that are away could not restore it either.
Everything == [r \in Roots |-> IF away[r] = None THEN place[r] ELSE away[r]]
LostForGood ==
  \E s \in Stripes :
    Cardinality({i \in Shards : \A r \in Roots : <<i, s>> \notin Everything[r].good}) > M
OfflineNeverDropped == [][pc = "drop" /\ pc' = "unlink" => LostForGood]_vars
=============================================================================
