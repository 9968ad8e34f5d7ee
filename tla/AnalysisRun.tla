---------------------------- MODULE AnalysisRun -----------------------------
(***************************************************************************)
(* analysis_engine.py with router/planes.py, its Go plane and the shard    *)
(* workers: one analysis after another of a repository, into the same      *)
(* temp/ directory and the same repository.db.                             *)
(*                                                                         *)
(* A run stages its shards in temp/, a plane starts one process per shard, *)
(* each leaves its tables and a marker there, and the run collects what it *)
(* finds.  Tables, markers and database are known by the run whose mapping *)
(* they were made from; 0 is no file.  InjectPool.tla has the inside of    *)
(* the export.                                                             *)
(***************************************************************************)
EXTENDS Naturals, FiniteSets

CONSTANTS Shards,   \* analyzer classes
          Core,     \* those whose tables every database has: "code"
          Workers,  \* workers_per_plane
          MaxRuns,  \* bound on analyses
          MaxMishaps, \* bound on what goes wrong
          Mishaps   \* what may: the failure of a "worker", the death of a "plane" (its workers
                    \* live on), of the "engine" (plane and workers live on), of the "group"
                    \* (all); a "file" of temp/ that cannot be removed

ASSUME AnalysisRunAssumption ==
  /\ Core \subseteq Shards
  /\ {Workers, MaxRuns, MaxMishaps} \subseteq Nat /\ Workers > 0
  /\ Mishaps \subseteq {"worker", "plane", "engine", "group", "file"}

VARIABLES
  run,        \* number of this or the last analysis
  phase,      \* where it is
  wanted,     \* the shards of its mapping
  mapping,    \* the run that wrote temp/mapping.json
  tables, ok, \* temp/tables/<shard>.json and temp/status/<shard>.ok
  stuck,      \* shards whose earlier files this run could not remove
  queue,      \* shards the plane has not started
  child,      \* its processes: [at, of]
  orphans,    \* processes of planes or engines that died, ended ones too: [shard, at, of]
  failures,   \* did any process of this plane end with an error
  collected,  \* what the run read from temp/tables
  db,         \* repository.db: [tables, whole]
  verdict,    \* of the last run: "none", "ok", "raised", "died"
  mishaps

temp == <<mapping, tables, ok, stuck>>
plane == <<queue, child, failures>>
vars == <<run, phase, wanted, temp, plane, orphans, collected, db, verdict, mishaps>>

Run == 0..MaxRuns
Files == [Shards -> Run]
NoFiles == [s \in Shards |-> 0]
NoChild == [at |-> "none", of |-> 0]
Running(c) == c.at \in {"started", "read", "wrote"}

TypeOK ==
  /\ run \in Run /\ mapping \in Run /\ {tables, ok, collected} \subseteq Files
  /\ phase \in {"idle", "clean", "emit", "planes", "collect", "export", "inject", "finish"}
  /\ wanted \subseteq Shards /\ queue \subseteq wanted /\ stuck \subseteq Shards
  /\ child \in [Shards -> [at : {"none", "started", "read", "wrote", "exited"}, of : Run]]
  /\ orphans \subseteq [shard : Shards, at : {"started", "read", "wrote", "exited"}, of : Run]
  /\ failures \in BOOLEAN
  /\ db \in [tables : Files, whole : BOOLEAN]
  /\ verdict \in {"none", "ok", "raised", "died"} /\ mishaps \in 0..MaxMishaps

Init ==
  /\ run = 0 /\ phase = "idle" /\ wanted = {}
  /\ mapping = 0 /\ tables = NoFiles /\ ok = NoFiles /\ stuck = {}
  /\ queue = {} /\ child = [s \in Shards |-> NoChild] /\ orphans = {} /\ failures = FALSE
  /\ collected = NoFiles /\ db = [tables |-> NoFiles, whole |-> FALSE]
  /\ verdict = "none" /\ mishaps = 0

Mishap(kind) == kind \in Mishaps /\ mishaps < MaxMishaps /\ mishaps' = mishaps + 1

-----------------------------------------------------------------------------
(* The engine                                                              *)

\* The census: what the repository holds now decides the shards.  One that finds no file
\* raises before it touches anything, and is no step here.
Census(S) ==
  /\ phase = "idle" /\ run < MaxRuns
  /\ run' = run + 1 /\ wanted' = S /\ queue' = {} /\ verdict' = "none" /\ phase' = "clean"
  /\ UNCHANGED <<temp, child, failures, orphans, collected, db, mishaps>>

\* A run that stages over what it finds.
CleanNothing ==
  /\ phase = "clean"
  /\ phase' = "emit"
  /\ UNCHANGED <<run, wanted, temp, plane, orphans, collected, db, verdict, mishaps>>

Staged == {s \in Shards : tables[s] # 0 \/ ok[s] # 0}

\* _force_rmtree: what cannot be removed is left without a word.
RemoveTemp(kept) ==
  /\ IF kept = {} THEN UNCHANGED mishaps ELSE Mishap("file")
  /\ tables' = [s \in Shards |-> IF s \in kept THEN tables[s] ELSE 0]
  /\ ok' = [s \in Shards |-> IF s \in kept THEN ok[s] ELSE 0]
  /\ mapping' = 0

\* "start clean" (analysis_engine.py:428).
Clean ==
  /\ phase = "clean"
  /\ \E kept \in SUBSET Staged : RemoveTemp(kept) /\ stuck' = kept
  /\ phase' = "emit"
  /\ UNCHANGED <<run, wanted, plane, orphans, collected, db, verdict>>

\* emit_analyzer_mapping, then the plane is started on every shard.
Emit ==
  /\ phase = "emit"
  /\ mapping' = run /\ queue' = wanted /\ failures' = FALSE
  /\ child' = [s \in Shards |-> NoChild]
  /\ phase' = "planes"
  /\ UNCHANGED <<run, wanted, tables, ok, stuck, orphans, collected, db, verdict, mishaps>>

\* Markers alone.
MarkersThere == {s \in wanted : ok[s] = 0} = {}

\* The plane has waited for every process; a shard without its marker, or a process that
\* ended with an error, fails the run and temp/ stays.
Verified == {s \in wanted : ok[s] = 0} = {} /\ ~failures

\* A failed run tidies up.
PlaneEndsAndRemoves ==
  /\ phase = "planes" /\ queue = {} /\ \A s \in Shards : ~Running(child[s])
  /\ IF Verified
       THEN phase' = "collect" /\ UNCHANGED <<temp, verdict>>
       ELSE /\ phase' = "idle" /\ verdict' = "raised"
            /\ mapping' = 0 /\ tables' = NoFiles /\ ok' = NoFiles /\ UNCHANGED stuck
  /\ UNCHANGED <<run, wanted, plane, orphans, collected, db, mishaps>>

PlaneEnds ==
  /\ phase = "planes" /\ queue = {} /\ \A s \in Shards : ~Running(child[s])
  /\ IF Verified THEN phase' = "collect" /\ UNCHANGED verdict
                 ELSE phase' = "idle" /\ verdict' = "raised"
  /\ UNCHANGED <<run, wanted, temp, plane, orphans, collected, db, mishaps>>

\* _collect_shard_tables takes every file it finds in temp/tables.
Collect ==
  /\ phase = "collect"
  /\ collected' = tables /\ phase' = "export"
  /\ UNCHANGED <<run, wanted, temp, plane, orphans, db, verdict, mishaps>>

\* The collection raises over a file it cannot parse, or a stage between it and the
\* export does: linkage, archives, the dump.
StageRaises ==
  /\ phase \in {"collect", "export"}
  /\ phase' = "idle" /\ verdict' = "raised"
  /\ UNCHANGED <<run, wanted, temp, plane, orphans, collected, db, mishaps>>

Made == Core \cup {s \in Shards : collected[s] # 0}

\* The export drops and makes anew, in the one repository.db, the tables of the classes
\* it has rows of, and of Core ...
ExportStructure ==
  /\ phase = "export"
  /\ db' = [tables |-> [s \in Shards |-> IF s \in Made THEN 0 ELSE db.tables[s]],
            whole |-> FALSE]
  /\ phase' = "inject"
  /\ UNCHANGED <<run, wanted, temp, plane, orphans, collected, verdict, mishaps>>

\* ... and injects into them; a block that fails raises.
ExportRows ==
  /\ phase = "inject"
  /\ \E S \in SUBSET Made :
       /\ db' = [tables |-> [s \in Shards |-> IF s \in S THEN collected[s] ELSE db.tables[s]],
                 whole |-> S = Made]
       /\ IF S = Made THEN phase' = "finish" /\ UNCHANGED verdict
                      ELSE phase' = "idle" /\ verdict' = "raised"
  /\ UNCHANGED <<run, wanted, temp, plane, orphans, collected, mishaps>>

\* Success removes temp/.
Finish ==
  /\ phase = "finish" /\ \E kept \in SUBSET Staged : RemoveTemp(kept)
  /\ phase' = "idle" /\ verdict' = "ok"
  /\ UNCHANGED <<run, wanted, stuck, plane, orphans, collected, db>>

-----------------------------------------------------------------------------
(* A shard worker                                                          *)

\* No process is started once another failed.
StartUntilFailure(s) ==
  /\ phase = "planes" /\ s \in queue /\ ~failures
  /\ Cardinality({t \in Shards : Running(child[t])}) < Workers
  /\ queue' = queue \ {s}
  /\ child' = [child EXCEPT ![s] = [at |-> "started", of |-> 0]]
  /\ UNCHANGED <<run, phase, wanted, temp, failures, orphans, collected, db, verdict, mishaps>>

Start(s) ==
  /\ phase = "planes" /\ s \in queue
  /\ Cardinality({t \in Shards : Running(child[t])}) < Workers
  /\ queue' = queue \ {s}
  /\ child' = [child EXCEPT ![s] = [at |-> "started", of |-> 0]]
  /\ UNCHANGED <<run, phase, wanted, temp, failures, orphans, collected, db, verdict, mishaps>>

\* It reads the mapping and repo_tables.json, which one run writes together, ...
Read(s) ==
  /\ child[s].at = "started" /\ mapping # 0
  /\ child' = [child EXCEPT ![s] = [at |-> "read", of |-> mapping]]
  /\ UNCHANGED <<run, phase, wanted, temp, queue, failures, orphans, collected, db, verdict,
                 mishaps>>

\* ... writes its tables, ...
WriteTables(s) ==
  /\ child[s].at = "read"
  /\ tables' = [tables EXCEPT ![s] = child[s].of]
  /\ child' = [child EXCEPT ![s].at = "wrote"]
  /\ UNCHANGED <<run, phase, wanted, mapping, ok, stuck, queue, failures, orphans, collected, db,
                 verdict, mishaps>>

\* ... and then its marker.
WriteOk(s) ==
  /\ child[s].at = "wrote"
  /\ ok' = [ok EXCEPT ![s] = child[s].of]
  /\ child' = [child EXCEPT ![s].at = "exited"]
  /\ UNCHANGED <<run, phase, wanted, mapping, tables, stuck, queue, failures, orphans, collected, db,
                 verdict, mishaps>>

\* An exception leaves an .err marker and the exit code; a kill only the exit code.  One
\* that comes after its .ok leaves that too.
WorkerFails(s) ==
  /\ Running(child[s]) /\ Mishap("worker")
  /\ child' = [child EXCEPT ![s].at = "exited"]
  /\ failures' = TRUE
  /\ \/ UNCHANGED ok
     \/ child[s].at = "wrote" /\ ok' = [ok EXCEPT ![s] = child[s].of]
  /\ UNCHANGED <<run, phase, wanted, mapping, tables, stuck, queue, orphans, collected, db, verdict>>

Worker(s) == Start(s) \/ Read(s) \/ WriteTables(s) \/ WriteOk(s)

-----------------------------------------------------------------------------
(* Deaths                                                                  *)

Abandoned == {[shard |-> s, at |-> child[s].at, of |-> child[s].of] :
                s \in {t \in Shards : Running(child[t])}}

\* The engine and all it started are killed.
GroupDies ==
  /\ phase # "idle" /\ Mishap("group")
  /\ phase' = "idle" /\ verdict' = "died"
  /\ queue' = {} /\ child' = [s \in Shards |-> NoChild]
  /\ UNCHANGED <<run, wanted, temp, failures, orphans, collected, db>>

\* The Go plane alone is killed: the engine sees its exit code, the workers go on.
PlaneDies ==
  /\ phase = "planes" /\ Mishap("plane")
  /\ orphans' = orphans \cup Abandoned
  /\ queue' = {} /\ child' = [s \in Shards |-> NoChild]
  /\ failures' = TRUE
  /\ UNCHANGED <<run, phase, wanted, temp, collected, db, verdict>>

Queued == {[shard |-> s, at |-> "started", of |-> 0] : s \in queue}

\* The engine alone is killed: its plane goes on with the shards it has left.
EngineDies ==
  /\ phase = "planes" /\ Mishap("engine")
  /\ phase' = "idle" /\ verdict' = "died"
  /\ orphans' = orphans \cup Abandoned \cup Queued
  /\ queue' = {} /\ child' = [s \in Shards |-> NoChild]
  /\ UNCHANGED <<run, wanted, temp, failures, collected, db>>

OrphanWorks ==
  \E c \in orphans :
    \/ /\ c.at = "started" /\ mapping # 0
       /\ orphans' = (orphans \ {c}) \cup {[c EXCEPT !.at = "read", !.of = mapping]}
       /\ UNCHANGED <<tables, ok>>
    \/ /\ c.at = "read"
       /\ tables' = [tables EXCEPT ![c.shard] = c.of]
       /\ orphans' = (orphans \ {c}) \cup {[c EXCEPT !.at = "wrote"]}
       /\ UNCHANGED ok
    \/ /\ c.at = "wrote"
       /\ ok' = [ok EXCEPT ![c.shard] = c.of]
       /\ orphans' = (orphans \ {c}) \cup {[c EXCEPT !.at = "exited"]}
       /\ UNCHANGED tables
    \/ /\ c.at = "started" /\ mapping = 0
       /\ orphans' = (orphans \ {c}) \cup {[c EXCEPT !.at = "exited"]}
       /\ UNCHANGED <<tables, ok>>

Orphan ==
  /\ OrphanWorks
  /\ UNCHANGED <<run, phase, wanted, mapping, stuck, plane, collected, db, verdict, mishaps>>

Engine ==
  \/ Clean \/ Emit \/ PlaneEnds \/ Collect \/ StageRaises \/ ExportStructure \/ ExportRows \/ Finish

Next ==
  \/ \E S \in SUBSET Shards : Census(S)
  \/ Engine \/ GroupDies \/ EngineDies \/ PlaneDies \/ Orphan
  \/ \E s \in Shards : Worker(s) \/ WorkerFails(s)

Spec == Init /\ [][Next]_vars

\* The engine goes on, and a worker that does not fail comes to the end of its shard.
FairSpec == Spec /\ WF_vars(Engine) /\ \A s \in Shards : WF_vars(Worker(s))

-----------------------------------------------------------------------------
(* Properties                                                              *)

\* What a good run injects are the tables of all its shards, made from its own mapping,
\* and no others, whatever earlier runs that failed or died left in temp/ - unless a file
\* of it could not be removed, or a plane or an engine was killed alone, whose workers
\* outlive it and write into the next run's temp/.
OfThisRun == [s \in Shards |-> IF s \in wanted THEN run ELSE 0]
OkHasOwnTables ==
  verdict = "ok" /\ orphans = {} /\ stuck = {} =>
    db.whole /\ collected = OfThisRun /\ \A s \in wanted : db.tables[s] = run

\* ... and it has tables of every shard even then.
OkHasEveryShard == verdict = "ok" => \A s \in wanted : db.tables[s] # 0

\* Tables that reference file_details go before it does (db_generator.py:272): a database
\* whose files are those of this run has no tables about the files of another.
TablesOfOneRun == verdict = "ok" => \A s \in Shards : db.tables[s] \in {0, run}

\* "On any failure the temp/ staging directory is left in place for debugging"
\* (analysis_engine.py:408): what a failed run staged stays until the next one begins,
\* but where files of an earlier one could not be removed, or its workers write on.
FailureKeepsTemp ==
  verdict = "raised" =>
    /\ mapping = run
    /\ \A s \in wanted : tables[s] \in {0, run} \/ s \in stuck \/ \E c \in orphans : c.shard = s

\* Types, and what a failed run leaves.
AnalysisInv == TypeOK /\ FailureKeepsTemp

\* Every analysis comes to an end, whichever of its processes fail or die.
EveryRunEnds == phase # "idle" ~> phase = "idle"
=============================================================================
