------------------------- MODULE AnalysisRunProofs --------------------------
(***************************************************************************)
(* AnalysisRun for every set of shards and every number of workers, runs   *)
(* and mishaps: what a good run has in its database, and what a failed one *)
(* leaves in temp/.                                                        *)
(***************************************************************************)
EXTENDS AnalysisRun, TLAPS

-----------------------------------------------------------------------------
(* The inductive invariant                                                 *)

Underway == phase \in {"planes", "collect", "export", "inject", "finish"}

\* From the mapping to the end of a run, the mapping is its own.
Control ==
  /\ phase # "idle" => run > 0 /\ verdict = "none"
  /\ Underway \/ verdict = "raised" => mapping = run

\* A process the plane waits for works on a shard of this run, from its mapping.
ChildOfRun(s) ==
  Running(child[s]) =>
    /\ phase = "planes" /\ s \in wanted
    /\ child[s].at # "started" => child[s].of = run

OrphansRead == \A c \in orphans : c.at \in {"read", "wrote"} => c.of # 0

\* Who else may have written the tables of a shard.
Foreign(s) == s \in stuck \/ \E c \in orphans : c.shard = s

\* Tables in temp/ are those of this run's shards, if nobody else may have written them.
Owned(s) == tables[s] = 0 \/ (s \in wanted /\ tables[s] = run) \/ Foreign(s)
TempIsOwned == phase \notin {"idle", "clean"} \/ verdict = "raised" => \A s \in Shards : Owned(s)

\* A process that ended well left its tables, and nobody takes them away.
Delivered(s) == s \in queue \/ child[s].at \in {"started", "read"} \/ tables[s] # 0
TablesThere ==
  /\ phase = "planes" /\ ~failures => \A s \in wanted : Delivered(s)
  /\ phase = "collect" => \A s \in wanted : tables[s] # 0

Gathered == phase \in {"export", "inject", "finish"} \/ verdict = "ok"
CollectedAll ==
  Gathered =>
    /\ \A s \in wanted : collected[s] # 0
    /\ orphans = {} /\ stuck = {} => collected = OfThisRun

Loaded ==
  phase = "finish" \/ verdict = "ok" =>
    db.whole /\ \A s \in wanted : db.tables[s] = collected[s]

RunInv ==
  /\ TypeOK /\ Control /\ (\A s \in Shards : ChildOfRun(s)) /\ OrphansRead
  /\ TempIsOwned /\ TablesThere /\ CollectedAll /\ Loaded

LEMMA InitRun == Init => RunInv
<1> SUFFICES ASSUME Init PROVE RunInv
  OBVIOUS
<1> USE DEF Init
<1>1. TypeOK
  <2>1. 0 \in Run /\ 0 \in 0..MaxMishaps
    BY AnalysisRunAssumption DEF Run
  <2>2. NoFiles \in Files
    BY <2>1 DEF NoFiles, Files
  <2>3. NoChild \in [at : {"none", "started", "read", "wrote", "exited"}, of : Run]
    BY <2>1 DEF NoChild
  <2> QED
    BY <2>1, <2>2, <2>3 DEF TypeOK
<1>2. \A s \in Shards : ChildOfRun(s)
  BY DEF ChildOfRun, Running, NoChild
<1>3. Control /\ OrphansRead /\ TempIsOwned /\ TablesThere /\ CollectedAll /\ Loaded
  BY DEF Control, Underway, OrphansRead, TempIsOwned, TablesThere, CollectedAll, Gathered, Loaded
<1> QED
  BY <1>1, <1>2, <1>3 DEF RunInv

-----------------------------------------------------------------------------
(* The engine                                                              *)

LEMMA CensusKeeps == ASSUME RunInv, NEW S \in SUBSET Shards, Census(S) PROVE RunInv'
<1> USE DEF RunInv, temp, plane, Census
<1>1. TypeOK'
  BY AnalysisRunAssumption DEF TypeOK, Run, Files
<1>2. Control'
  BY DEF Control, Underway, TypeOK, Run
<1>3. (\A s \in Shards : ChildOfRun(s)') /\ OrphansRead' /\ TempIsOwned'
  BY DEF ChildOfRun, Running, OrphansRead, TempIsOwned, Owned, Foreign
<1>4. TablesThere' /\ CollectedAll' /\ Loaded'
  BY DEF TablesThere, Delivered, CollectedAll, Gathered, OfThisRun, Loaded
<1> QED
  BY <1>1, <1>2, <1>3, <1>4

\* Removing temp/ leaves nothing but what it could not remove.
LEMMA CleanKeeps == ASSUME RunInv, Clean PROVE RunInv'
<1> USE DEF RunInv, temp, plane, Clean, RemoveTemp, Mishap, Staged
<1>1. TypeOK'
  BY AnalysisRunAssumption DEF TypeOK, Run, Files
<1>2. Control' /\ (\A s \in Shards : ChildOfRun(s)') /\ OrphansRead'
  BY DEF Control, Underway, ChildOfRun, Running, OrphansRead
<1>3. TempIsOwned'
  BY DEF TempIsOwned, Owned, Foreign
<1>4. TablesThere' /\ CollectedAll' /\ Loaded'
  BY DEF TablesThere, Delivered, CollectedAll, Gathered, OfThisRun, Loaded, Control
<1> QED
  BY <1>1, <1>2, <1>3, <1>4

LEMMA EmitKeeps == ASSUME RunInv, Emit PROVE RunInv'
<1> USE DEF RunInv, temp, plane, Emit
<1>1. child' \in [Shards -> [at : {"none", "started", "read", "wrote", "exited"}, of : Run]]
  BY AnalysisRunAssumption DEF NoChild, Run
<1>2. TypeOK'
  BY <1>1 DEF TypeOK, Run
<1>3. Control' /\ (\A s \in Shards : ChildOfRun(s)') /\ OrphansRead'
  BY DEF Control, Underway, ChildOfRun, Running, OrphansRead, NoChild
<1>4. TempIsOwned' /\ TablesThere'
  BY DEF TempIsOwned, Owned, Foreign, TablesThere, Delivered
<1>5. CollectedAll' /\ Loaded'
  BY DEF CollectedAll, Gathered, OfThisRun, Loaded, Control
<1> QED
  BY <1>1, <1>2, <1>3, <1>4, <1>5

\* All processes ended, and none with an error: every shard has its tables.
LEMMA PlaneEndsKeeps == ASSUME RunInv, PlaneEnds PROVE RunInv'
<1> USE DEF RunInv, temp, plane, PlaneEnds
<1>1. phase' = "collect" => \A s \in wanted' : tables'[s] # 0
  <2> SUFFICES ASSUME Verified, NEW s \in wanted PROVE tables[s] # 0
    BY DEF Verified
  <2>1. Delivered(s)
    BY DEF Verified, TablesThere
  <2> QED
    BY <2>1 DEF Delivered, Running, TypeOK
<1>2. TypeOK'
  BY DEF TypeOK
<1>3. Control' /\ (\A s \in Shards : ChildOfRun(s)') /\ OrphansRead'
  BY DEF Control, Underway, ChildOfRun, Running, OrphansRead
<1>4. TempIsOwned'
  BY DEF TempIsOwned, Owned, Foreign, Control, Underway
<1>5. TablesThere'
  BY <1>1 DEF TablesThere, Delivered
<1>6. CollectedAll' /\ Loaded'
  BY DEF CollectedAll, Gathered, OfThisRun, Loaded, Control
<1> QED
  BY <1>1, <1>2, <1>3, <1>4, <1>5, <1>6

\* What is collected is what the workers delivered, and it is the run's own.
LEMMA CollectKeeps == ASSUME RunInv, Collect PROVE RunInv'
<1> USE DEF RunInv, temp, plane, Collect
<1>1. TypeOK'
  BY DEF TypeOK
<1>2. Control' /\ (\A s \in Shards : ChildOfRun(s)') /\ OrphansRead'
  BY DEF Control, Underway, ChildOfRun, Running, OrphansRead
<1>3. TempIsOwned' /\ TablesThere'
  BY DEF TempIsOwned, Owned, Foreign, TablesThere, Delivered
<1>4. CollectedAll'
  BY DEF CollectedAll, Gathered, OfThisRun, TypeOK, Files, TempIsOwned, Owned, Foreign, TablesThere
<1>5. Loaded'
  BY DEF Loaded, Control
<1> QED
  BY <1>1, <1>2, <1>3, <1>4, <1>5

LEMMA ExportKeeps == ASSUME RunInv, StageRaises \/ ExportStructure PROVE RunInv'
<1> USE DEF RunInv, temp, plane, StageRaises, ExportStructure
<1>1. db' \in [tables : Files, whole : BOOLEAN]
  <2>1. ASSUME ExportStructure
        PROVE  [s \in Shards |-> IF s \in Made THEN 0 ELSE db.tables[s]] \in Files
    BY AnalysisRunAssumption DEF TypeOK, Files, Run
  <2>2. CASE ExportStructure
    BY <2>1, <2>2
  <2>3. CASE StageRaises
    BY <2>3 DEF TypeOK
  <2> QED
    BY <2>2, <2>3
<1>2. TypeOK'
  BY <1>1 DEF TypeOK
<1>3. Control' /\ (\A s \in Shards : ChildOfRun(s)') /\ OrphansRead'
  BY DEF Control, Underway, ChildOfRun, Running, OrphansRead
<1>4. TempIsOwned' /\ TablesThere'
  BY DEF TempIsOwned, Owned, Foreign, TablesThere, Delivered, Control, Underway
<1>5. CollectedAll' /\ Loaded'
  BY DEF CollectedAll, Gathered, OfThisRun, Loaded, Control
<1> QED
  BY <1>1, <1>2, <1>3, <1>4, <1>5

\* The rows of every wanted shard are those collected of it.
LEMMA ExportRowsKeeps == ASSUME RunInv, ExportRows PROVE RunInv'
<1> USE DEF RunInv, temp, plane, ExportRows
<1>1. TypeOK'
  BY DEF TypeOK, Run, Files, Made
<1>2. Control' /\ (\A s \in Shards : ChildOfRun(s)') /\ OrphansRead'
  BY DEF Control, Underway, ChildOfRun, Running, OrphansRead
<1>3. TempIsOwned' /\ TablesThere'
  BY DEF TempIsOwned, Owned, Foreign, TablesThere, Delivered, Control, Underway
<1>4. CollectedAll'
  BY DEF CollectedAll, Gathered, OfThisRun, Control
<1>5. phase' = "finish" => db'.whole /\ \A s \in Made : db'.tables[s] = collected[s]
  <2>1. PICK S \in SUBSET Made :
             /\ db' = [tables |-> [s \in Shards |-> IF s \in S THEN collected[s] ELSE db.tables[s]],
                       whole |-> S = Made]
             /\ IF S = Made THEN phase' = "finish" /\ UNCHANGED verdict
                            ELSE phase' = "idle" /\ verdict' = "raised"
    OBVIOUS
  <2>2. Made \subseteq Shards
    BY AnalysisRunAssumption DEF Made
  <2> QED
    BY <2>1, <2>2
<1>6. wanted \subseteq Made
  BY DEF Made, CollectedAll, Gathered, TypeOK
<1>7. Loaded'
  BY <1>5, <1>6 DEF Loaded, Control
<1> QED
  BY <1>1, <1>2, <1>3, <1>4, <1>7

LEMMA FinishKeeps == ASSUME RunInv, Finish PROVE RunInv'
<1> USE DEF RunInv, temp, plane, Finish, RemoveTemp, Mishap, Staged
<1>1. TypeOK'
  BY AnalysisRunAssumption DEF TypeOK, Run, Files
<1>2. Control' /\ (\A s \in Shards : ChildOfRun(s)') /\ OrphansRead'
  BY DEF Control, Underway, ChildOfRun, Running, OrphansRead
<1>3. TempIsOwned' /\ TablesThere'
  BY DEF TempIsOwned, Owned, Foreign, TablesThere, Delivered, Control, Underway
<1>4. CollectedAll' /\ Loaded'
  BY DEF CollectedAll, Gathered, OfThisRun, Loaded
<1> QED
  BY <1>1, <1>2, <1>3, <1>4

-----------------------------------------------------------------------------
(* The shard workers                                                       *)

LEMMA StartKeeps == ASSUME RunInv, NEW x \in Shards, Start(x) PROVE RunInv'
<1> USE DEF RunInv, temp, plane, Start
<1>1. TypeOK'
  BY AnalysisRunAssumption DEF TypeOK, Run, Files
<1>2. Control' /\ OrphansRead' /\ TempIsOwned'
  BY DEF Control, Underway, OrphansRead, TempIsOwned, Owned, Foreign
<1>3. \A s \in Shards : ChildOfRun(s)'
  BY DEF ChildOfRun, Running, TypeOK
<1>4. TablesThere'
  BY DEF TablesThere, Delivered, TypeOK
<1>5. CollectedAll' /\ Loaded'
  BY DEF CollectedAll, Gathered, OfThisRun, Loaded
<1> QED
  BY <1>1, <1>2, <1>3, <1>4, <1>5

LEMMA ReadKeeps == ASSUME RunInv, NEW x \in Shards, Read(x) PROVE RunInv'
<1> USE DEF RunInv, temp, plane, Read
<1>1. TypeOK'
  BY DEF TypeOK
<1>2. Control' /\ OrphansRead' /\ TempIsOwned'
  BY DEF Control, Underway, OrphansRead, TempIsOwned, Owned, Foreign
<1>3. \A s \in Shards : ChildOfRun(s)'
  BY DEF ChildOfRun, Running, Control, Underway
<1>4. TablesThere'
  BY DEF TablesThere, Delivered, TypeOK
<1>5. CollectedAll' /\ Loaded'
  BY DEF CollectedAll, Gathered, OfThisRun, Loaded
<1> QED
  BY <1>1, <1>2, <1>3, <1>4, <1>5

\* Once a worker has written, the shard has tables of this run.
LEMMA WriteTablesKeeps == ASSUME RunInv, NEW x \in Shards, WriteTables(x) PROVE RunInv'
<1> USE DEF RunInv, temp, plane, WriteTables
<1>1. TypeOK'
  BY DEF TypeOK, Run, Files
<1>2. Control' /\ OrphansRead'
  BY DEF Control, Underway, OrphansRead
<1>3. \A s \in Shards : ChildOfRun(s)'
  BY DEF ChildOfRun, Running, TypeOK
<1>4. TempIsOwned'
  BY DEF TempIsOwned, Owned, Foreign, TypeOK, Files, ChildOfRun, Running
<1>5. TablesThere'
  BY DEF TablesThere, Delivered, TypeOK, Files, Control, ChildOfRun, Running
<1>6. CollectedAll' /\ Loaded'
  BY DEF CollectedAll, Gathered, OfThisRun, Loaded
<1> QED
  BY <1>1, <1>2, <1>3, <1>4, <1>5, <1>6

LEMMA WriteOkKeeps == ASSUME RunInv, NEW x \in Shards, WriteOk(x) PROVE RunInv'
<1> USE DEF RunInv, temp, plane, WriteOk
<1>1. TypeOK'
  BY DEF TypeOK, Run, Files
<1>2. Control' /\ OrphansRead'
  BY DEF Control, Underway, OrphansRead
<1>3. \A s \in Shards : ChildOfRun(s)'
  BY DEF ChildOfRun, Running, TypeOK
<1>4. TempIsOwned'
  BY DEF TempIsOwned, Owned, Foreign
<1>5. TablesThere'
  BY DEF TablesThere, Delivered, TypeOK
<1>6. CollectedAll' /\ Loaded'
  BY DEF CollectedAll, Gathered, OfThisRun, Loaded
<1> QED
  BY <1>1, <1>2, <1>3, <1>4, <1>5, <1>6

LEMMA WorkerFailsKeeps == ASSUME RunInv, NEW x \in Shards, WorkerFails(x) PROVE RunInv'
<1> USE DEF RunInv, temp, plane, WorkerFails, Mishap
<1>1. TypeOK'
  BY AnalysisRunAssumption DEF TypeOK, Files, Run
<1>2. Control' /\ OrphansRead'
  BY DEF Control, Underway, OrphansRead
<1>3. \A s \in Shards : ChildOfRun(s)'
  BY DEF ChildOfRun, Running, TypeOK
<1>4. TempIsOwned' /\ TablesThere'
  BY DEF TempIsOwned, Owned, Foreign, TablesThere, Delivered
<1>5. CollectedAll' /\ Loaded'
  BY DEF CollectedAll, Gathered, OfThisRun, Loaded
<1> QED
  BY <1>1, <1>2, <1>3, <1>4, <1>5

-----------------------------------------------------------------------------
(* Deaths                                                                  *)

LEMMA GroupDiesKeeps == ASSUME RunInv, GroupDies PROVE RunInv'
<1> USE DEF RunInv, temp, plane, GroupDies, Mishap
<1>1. TypeOK'
  BY AnalysisRunAssumption DEF TypeOK, Run, Files, NoChild
<1>2. Control' /\ (\A s \in Shards : ChildOfRun(s)') /\ OrphansRead'
  BY DEF Control, Underway, ChildOfRun, Running, OrphansRead, NoChild
<1>3. TempIsOwned' /\ TablesThere'
  BY DEF TempIsOwned, Owned, Foreign, TablesThere, Delivered
<1>4. CollectedAll' /\ Loaded'
  BY DEF CollectedAll, Gathered, OfThisRun, Loaded
<1> QED
  BY <1>1, <1>2, <1>3, <1>4

\* An orphan that has read a mapping has read one of a run.
LEMMA PlaneDiesKeeps == ASSUME RunInv, PlaneDies PROVE RunInv'
<1> USE DEF RunInv, temp, plane, PlaneDies, Mishap
<1>1. TypeOK'
  BY AnalysisRunAssumption DEF TypeOK, Run, Files, NoChild, Abandoned, Running
<1>2. Control' /\ (\A s \in Shards : ChildOfRun(s)')
  BY DEF Control, Underway, ChildOfRun, Running, NoChild
<1>3. \A c \in orphans' : c.at \in {"read", "wrote"} => c.of # 0
  <2> SUFFICES ASSUME NEW c \in Abandoned, c.at \in {"read", "wrote"} PROVE c.of # 0
    BY DEF OrphansRead
  <2>1. PICK s \in Shards : Running(child[s]) /\ c.at = child[s].at /\ c.of = child[s].of
    BY DEF Abandoned
  <2> QED
    BY <2>1 DEF Running, ChildOfRun, Control, TypeOK, Run
<1>4. OrphansRead'
  BY <1>3 DEF OrphansRead
<1>5. TempIsOwned'
  BY DEF TempIsOwned, Owned, Foreign
<1>6. TablesThere'
  BY DEF TablesThere, Delivered
<1>7. CollectedAll' /\ Loaded'
  BY DEF CollectedAll, Gathered, OfThisRun, Loaded, Control
<1> QED
  BY <1>1, <1>2, <1>3, <1>4, <1>5, <1>6, <1>7

LEMMA EngineDiesKeeps == ASSUME RunInv, EngineDies PROVE RunInv'
<1> USE DEF RunInv, temp, plane, EngineDies, Mishap
<1>1. TypeOK'
  BY AnalysisRunAssumption DEF TypeOK, Run, Files, NoChild, Abandoned, Queued, Running
<1>2. Control' /\ (\A s \in Shards : ChildOfRun(s)')
  BY DEF Control, Underway, ChildOfRun, Running, NoChild
<1>3. \A c \in orphans' : c.at \in {"read", "wrote"} => c.of # 0
  <2>1. ASSUME NEW c \in Abandoned, c.at \in {"read", "wrote"} PROVE c.of # 0
    <3>1. PICK s \in Shards : Running(child[s]) /\ c.at = child[s].at /\ c.of = child[s].of
      BY DEF Abandoned
    <3> QED
      BY <2>1, <3>1 DEF Running, ChildOfRun, Control, TypeOK, Run
  <2>2. \A c \in Queued : c.at = "started"
    BY DEF Queued
  <2> QED
    BY <2>1, <2>2 DEF OrphansRead
<1>4. OrphansRead'
  BY <1>3 DEF OrphansRead
<1>5. TempIsOwned' /\ TablesThere'
  BY DEF TempIsOwned, TablesThere
<1>6. CollectedAll' /\ Loaded'
  BY DEF CollectedAll, Gathered, Loaded
<1> QED
  BY <1>1, <1>2, <1>4, <1>5, <1>6

Orphans == [shard : Shards, at : {"started", "read", "wrote", "exited"}, of : Run]

\* An orphan takes a step: it stays the orphan of its shard, and it writes no empty tables.
LEMMA OrphanEffect ==
  ASSUME RunInv, Orphan
  PROVE  \E c \in orphans, d \in Orphans :
           /\ orphans' = (orphans \ {c}) \cup {d}
           /\ d.shard = c.shard /\ (d.at \in {"read", "wrote"} => d.of # 0)
           /\ tables' = tables \/ (c.of # 0 /\ tables' = [tables EXCEPT ![c.shard] = c.of])
           /\ ok' = ok \/ ok' = [ok EXCEPT ![c.shard] = c.of]
<1> USE DEF RunInv, TypeOK, OrphansRead, Orphans
<1>1. PICK c \in orphans :
        \/ /\ c.at = "started" /\ mapping # 0
           /\ orphans' = (orphans \ {c}) \cup {[c EXCEPT !.at = "read", !.of = mapping]}
           /\ UNCHANGED <<tables, ok>>
        \/ /\ c.at = "read"
           /\ tables' = [tables EXCEPT ![c.shard] = c.of]
           /\ orphans' = (orphans \ {c}) \cup {[c EXCEPT !.at = "wrote"]}
           /\ UNCHANGED ok
        \/ /\ c.at = "wrote"
           /\ ok' = [ok EXCEPT ![c.shard] = c.of]
           /\ orphans' = (orphans \ {c}) \cup {[c EXCEPT !.at = "exited"]}
           /\ UNCHANGED tables
        \/ /\ c.at = "started" /\ mapping = 0
           /\ orphans' = (orphans \ {c}) \cup {[c EXCEPT !.at = "exited"]}
           /\ UNCHANGED <<tables, ok>>
  BY DEF Orphan, OrphanWorks
<1>2. c \in Orphans
  OBVIOUS
<1>3. CASE c.at = "started" /\ mapping # 0
  <2> DEFINE d == [c EXCEPT !.at = "read", !.of = mapping]
  <2>1. d \in Orphans /\ d.shard = c.shard /\ d.at = "read" /\ d.of # 0
    BY <1>2, <1>3
  <2>2. orphans' = (orphans \ {c}) \cup {d} /\ tables' = tables /\ ok' = ok
    BY <1>1, <1>3
  <2> QED
    BY <2>1, <2>2
<1>4. CASE c.at = "read"
  <2> DEFINE d == [c EXCEPT !.at = "wrote"]
  <2>1. d \in Orphans /\ d.shard = c.shard /\ d.of # 0 /\ c.of # 0
    BY <1>2, <1>4
  <2>2. /\ orphans' = (orphans \ {c}) \cup {d} /\ ok' = ok
        /\ tables' = [tables EXCEPT ![c.shard] = c.of]
    BY <1>1, <1>4
  <2> QED
    BY <2>1, <2>2
<1>5. CASE ~(c.at = "started" /\ mapping # 0) /\ c.at # "read"
  <2> DEFINE d == [c EXCEPT !.at = "exited"]
  <2>1. d \in Orphans /\ d.shard = c.shard /\ d.at = "exited"
    BY <1>2
  <2>2. /\ orphans' = (orphans \ {c}) \cup {d} /\ tables' = tables
        /\ ok' = ok \/ ok' = [ok EXCEPT ![c.shard] = c.of]
    BY <1>1, <1>5
  <2> QED
    BY <2>1, <2>2
<1> QED
  BY <1>3, <1>4, <1>5

LEMMA OrphanKeeps == ASSUME RunInv, Orphan PROVE RunInv'
<1> USE DEF RunInv, temp, plane
<1>1. PICK c \in orphans, d \in Orphans :
           /\ orphans' = (orphans \ {c}) \cup {d}
           /\ d.shard = c.shard /\ (d.at \in {"read", "wrote"} => d.of # 0)
           /\ tables' = tables \/ (c.of # 0 /\ tables' = [tables EXCEPT ![c.shard] = c.of])
           /\ ok' = ok \/ ok' = [ok EXCEPT ![c.shard] = c.of]
  BY OrphanEffect
<1>2. c \in Orphans
  BY DEF TypeOK, Orphans
<1>3. UNCHANGED <<run, phase, wanted, mapping, stuck, plane, collected, db, verdict, mishaps>>
  BY DEF Orphan
<1>4. TypeOK'
  <2>1. tables' \in Files /\ ok' \in Files
    BY <1>1, <1>2 DEF TypeOK, Files, Orphans
  <2>2. orphans' \subseteq Orphans
    BY <1>1 DEF TypeOK, Orphans
  <2> QED
    BY <1>3, <2>1, <2>2 DEF TypeOK, Orphans
<1>5. Control' /\ (\A s \in Shards : ChildOfRun(s)')
  BY <1>3 DEF Control, Underway, ChildOfRun, Running
<1>6. OrphansRead'
  BY <1>1 DEF OrphansRead
<1>7. \A s \in Shards : tables'[s] = tables[s] \/ (s = c.shard /\ tables'[s] # 0)
  BY <1>1, <1>2 DEF TypeOK, Files, Orphans
<1>8. TempIsOwned'
  <2>1. \A s \in Shards : Foreign(s) => Foreign(s)'
    BY <1>1, <1>3 DEF Foreign
  <2>2. Foreign(c.shard)'
    BY <1>1 DEF Foreign
  <2>3. \A s \in Shards : Owned(s) => Owned(s)'
    BY <1>3, <1>7, <2>1, <2>2 DEF Owned
  <2> QED
    BY <1>3, <2>3 DEF TempIsOwned
<1>9. TablesThere'
  BY <1>3, <1>7 DEF TablesThere, Delivered, TypeOK
<1>10. CollectedAll' /\ Loaded'
  <2>1. orphans # {}
    OBVIOUS
  <2>2. orphans' # {}
    BY <1>1
  <2> QED
    BY <1>3, <2>2 DEF CollectedAll, Gathered, OfThisRun, Loaded
<1> QED
  BY <1>4, <1>5, <1>6, <1>8, <1>9, <1>10

-----------------------------------------------------------------------------
(* The theorems                                                            *)

LEMMA StepKeeps == RunInv /\ [Next]_vars => RunInv'
<1> SUFFICES ASSUME RunInv, [Next]_vars PROVE RunInv'
  OBVIOUS
<1>1. ASSUME NEW S \in SUBSET Shards, Census(S) PROVE RunInv'
  BY <1>1, CensusKeeps
<1>2. CASE Engine
  BY <1>2, CleanKeeps, EmitKeeps, PlaneEndsKeeps, CollectKeeps, ExportKeeps, ExportRowsKeeps,
     FinishKeeps DEF Engine
<1>3. CASE GroupDies \/ EngineDies \/ PlaneDies
  BY <1>3, GroupDiesKeeps, EngineDiesKeeps, PlaneDiesKeeps
<1>4. CASE Orphan
  BY <1>4, OrphanKeeps
<1>5. ASSUME NEW s \in Shards, Worker(s) \/ WorkerFails(s) PROVE RunInv'
  BY <1>5, StartKeeps, ReadKeeps, WriteTablesKeeps, WriteOkKeeps, WorkerFailsKeeps DEF Worker
<1>6. CASE UNCHANGED vars
  BY <1>6 DEF RunInv, vars, temp, plane, TypeOK, Control, Underway, ChildOfRun, Running, OrphansRead,
     TempIsOwned, Owned, Foreign, TablesThere, Delivered, CollectedAll, Gathered, OfThisRun, Loaded
<1> QED
  BY <1>1, <1>2, <1>3, <1>4, <1>5, <1>6 DEF Next

LEMMA RunInvariance == Spec => []RunInv
BY InitRun, StepKeeps, PTL DEF Spec

\* Types, and "on any failure the temp/ staging directory is left in place": what a failed
\* run of analysis_engine.py staged is still there, and is its own unless somebody else
\* may have written it.
THEOREM FailureInvariance == Spec => []AnalysisInv
<1>1. RunInv => AnalysisInv
  BY DEF RunInv, Control, TempIsOwned, Owned, Foreign, AnalysisInv, FailureKeepsTemp, TypeOK
<1> QED
  BY <1>1, RunInvariance, PTL

\* A run that succeeds has injected the tables of exactly its own shards, from its own
\* mapping, when no file was stuck in temp/ and no worker outlived its plane.
THEOREM OwnTables == Spec => []OkHasOwnTables
<1>1. RunInv => OkHasOwnTables
  BY DEF RunInv, CollectedAll, Gathered, Loaded, OkHasOwnTables, OfThisRun, TypeOK
<1> QED
  BY <1>1, RunInvariance, PTL

\* A run that succeeds has tables of every shard, whatever went wrong before it.
THEOREM EveryShardHasTables == Spec => []OkHasEveryShard
<1>1. RunInv => OkHasEveryShard
  BY DEF RunInv, CollectedAll, Gathered, Loaded, OkHasEveryShard
<1> QED
  BY <1>1, RunInvariance, PTL
=============================================================================
