----------------------------- MODULE InjectPool -----------------------------
(***************************************************************************)
(* inject_pool.py and injector.go: the INSERT section of a repository      *)
(* database, cut into one block per table, applied by a pool of workers    *)
(* with a connection each.  The Go program does it in its own process; the *)
(* thread pool of the fallback runs only where there is no Go.             *)
(*                                                                         *)
(* Row contents are left out: a table is the number of rows committed to   *)
(* it.  SQLite lets one connection write at a time.                        *)
(***************************************************************************)
EXTENDS Naturals, FiniteSets

CONSTANTS Blocks,    \* one per table
          Rows,      \* INSERTs of a block
          Workers,
          Engines,   \* what may be found on the machine: "go", "python"
          MaxLoads,  \* bound on exports into the same file
          None,
          Injector   \* the failure that names no block: "<go-injector>"

ASSUME InjectPoolAssumption ==
  /\ Rows \in Nat \ {0} /\ MaxLoads \in Nat
  /\ Engines \subseteq {"go", "python"}
  /\ None \notin Blocks \cup Workers /\ Injector \notin Blocks

VARIABLES
  rows,     \* committed rows of each table
  todo,     \* blocks no worker has taken
  task,     \* the block a worker is at
  step,     \* where it is in it
  wrote,    \* INSERTs it has executed
  writer,   \* the worker whose connection holds the write lock
  engine,
  done,     \* blocks that came back without an error
  failed,   \* what came back with one
  phase,    \* of the export: "idle", "inject"
  verdict,  \* of the last one: "none" while it runs, "ok", "raised"
  loads

pool == <<task, step, wrote>>
report == <<done, failed>>
export == <<engine, phase, loads>>
vars == <<rows, todo, pool, writer, report, export, verdict>>

TypeOK ==
  /\ rows \in [Blocks -> Nat] /\ todo \subseteq Blocks
  /\ task \in [Workers -> Blocks \cup {None}]
  /\ step \in [Workers -> {"free", "begin", "held", "script", "gone"}]
  /\ wrote \in [Workers -> 0..Rows]
  /\ writer \in Workers \cup {None}
  /\ engine \in {"go", "python"}
  /\ done \subseteq Blocks /\ failed \subseteq Blocks \cup {Injector}
  /\ phase \in {"idle", "inject"} /\ verdict \in {"none", "ok", "raised"}
  /\ loads \in 0..MaxLoads

Init ==
  /\ rows = [b \in Blocks |-> 0] /\ todo = {}
  /\ task = [w \in Workers |-> None] /\ step = [w \in Workers |-> "gone"]
  /\ wrote = [w \in Workers |-> 0] /\ writer = None
  /\ engine \in Engines
  /\ done = {} /\ failed = {} /\ phase = "idle" /\ verdict = "none" /\ loads = 0

-----------------------------------------------------------------------------
(* The export                                                              *)

\* The structure: old tables are dropped and made anew on one connection.
Structure ==
  /\ phase = "idle" /\ loads < MaxLoads
  /\ loads' = loads + 1
  /\ rows' = [b \in Blocks |-> 0] /\ todo' = Blocks
  /\ step' = [w \in Workers |-> "free"]
  /\ done' = {} /\ failed' = {}
  /\ phase' = "inject" /\ verdict' = "none"
  /\ engine' \in Engines
  /\ UNCHANGED <<task, wrote, writer>>

\* The script stops at a statement: what came before it is committed.
StructureFails ==
  /\ phase = "idle" /\ loads < MaxLoads
  /\ loads' = loads + 1
  /\ \E dropped \in SUBSET Blocks :
       rows' = [b \in Blocks |-> IF b \in dropped THEN 0 ELSE rows[b]]
  /\ verdict' = "raised"
  /\ UNCHANGED <<todo, pool, writer, engine, report, phase>>

\* Every result is in: any failure, or a block that is not accounted for, raises.
Report ==
  /\ phase = "inject" /\ \A w \in Workers : step[w] = "gone"
  /\ verdict' = IF failed = {} /\ done = Blocks THEN "ok" ELSE "raised"
  /\ phase' = "idle"
  /\ UNCHANGED <<rows, todo, pool, writer, report, engine, loads>>

-----------------------------------------------------------------------------
(* A worker                                                                *)

Take(w) ==
  /\ step[w] = "free"
  /\ \E b \in todo :
       /\ todo' = todo \ {b}
       /\ task' = [task EXCEPT ![w] = b]
  /\ wrote' = [wrote EXCEPT ![w] = 0]
  /\ step' = [step EXCEPT ![w] = IF engine = "python" THEN "begin" ELSE "script"]
  /\ UNCHANGED <<rows, writer, report, export, verdict>>

\* The fallback's BEGIN IMMEDIATE ...
BeginImmediate(w) ==
  /\ step[w] = "begin" /\ writer = None
  /\ writer' = w
  /\ step' = [step EXCEPT ![w] = "held"]
  /\ UNCHANGED <<rows, todo, task, wrote, report, export, verdict>>

\* ... is committed by executescript before it runs the first statement.
ScriptCommits(w) ==
  /\ step[w] = "held"
  /\ writer' = None
  /\ step' = [step EXCEPT ![w] = "script"]
  /\ UNCHANGED <<rows, todo, task, wrote, report, export, verdict>>

\* In Go an INSERT is part of the block's transaction, whose first one takes the
\* write lock; in the fallback it is a transaction of its own.
Insert(w) ==
  /\ step[w] = "script" /\ wrote[w] < Rows /\ writer \in {None, w}
  /\ wrote' = [wrote EXCEPT ![w] = @ + 1]
  /\ \/ engine = "go" /\ writer' = w /\ UNCHANGED rows
     \/ /\ engine = "python"
        /\ rows' = [rows EXCEPT ![task[w]] = @ + 1]
        /\ UNCHANGED writer
  /\ UNCHANGED <<todo, task, step, report, export, verdict>>

Released(w) == writer' = IF writer = w THEN None ELSE writer

Commit(w) ==
  /\ step[w] = "script" /\ wrote[w] = Rows
  /\ rows' = IF engine = "go" THEN [rows EXCEPT ![task[w]] = @ + Rows] ELSE rows
  /\ Released(w)
  /\ done' = done \cup {task[w]}
  /\ step' = [step EXCEPT ![w] = "free"]
  /\ UNCHANGED <<todo, task, wrote, failed, export, verdict>>

\* What the failed block has inserted is committed.
BlockFailsHalfway(w) ==
  /\ step[w] \in {"begin", "held", "script"}
  /\ rows' = IF engine = "go" THEN [rows EXCEPT ![task[w]] = @ + wrote[w]] ELSE rows
  /\ Released(w)
  /\ failed' = failed \cup {task[w]}
  /\ step' = [step EXCEPT ![w] = "free"]
  /\ UNCHANGED <<todo, task, wrote, done, export, verdict>>

\* A statement fails, or the write lock did not come within the busy timeout: what
\* the connection's open transaction holds is rolled back.
BlockFails(w) ==
  /\ step[w] \in {"begin", "held", "script"}
  /\ Released(w)
  /\ failed' = failed \cup {task[w]}
  /\ step' = [step EXCEPT ![w] = "free"]
  /\ UNCHANGED <<rows, todo, task, wrote, done, export, verdict>>

\* The pool waits for every block to succeed.
LeaveWhenDone(w) ==
  /\ step[w] = "free" /\ done = Blocks
  /\ step' = [step EXCEPT ![w] = "gone"]
  /\ UNCHANGED <<rows, todo, task, wrote, writer, report, export, verdict>>

Leave(w) ==
  /\ step[w] = "free" /\ todo = {}
  /\ step' = [step EXCEPT ![w] = "gone"]
  /\ UNCHANGED <<rows, todo, task, wrote, writer, report, export, verdict>>

Work(w) ==
  \/ Take(w) \/ BeginImmediate(w) \/ ScriptCommits(w) \/ Insert(w)
  \/ Commit(w) \/ BlockFails(w) \/ Leave(w)

\* The blocks of a Go program that died are run again in Python.
InjectorFallsBack ==
  /\ phase = "inject" /\ engine = "go"
  /\ engine' = "python"
  /\ todo' = Blocks /\ step' = [w \in Workers |-> "free"] /\ writer' = None
  /\ UNCHANGED <<rows, task, wrote, report, phase, loads, verdict>>

\* The Go program dies: no summary can be parsed, its effect on the file is unknown,
\* and the blocks are not run again in Python.
InjectorDies ==
  /\ phase = "inject" /\ engine = "go"
  /\ failed' = failed \cup {Injector}
  /\ todo' = {} /\ step' = [w \in Workers |-> "gone"] /\ writer' = None
  /\ UNCHANGED <<rows, task, wrote, done, export, verdict>>

Next ==
  \/ Structure \/ StructureFails \/ Report \/ InjectorDies
  \/ \E w \in Workers : Work(w)

Spec == Init /\ [][Next]_vars

\* Every worker thread runs; a statement ends, or fails after the busy timeout.
FairSpec == Spec /\ WF_vars(Report) /\ \A w \in Workers : WF_vars(Work(w))

-----------------------------------------------------------------------------
(* Properties                                                              *)

\* An export that returns has loaded every row of every block once, whatever died,
\* timed out or was tried before ("a partial load is not a valid database",
\* inject_pool.py:23).
OkMeansWhole == verdict = "ok" => \A b \in Blocks : rows[b] = Rows

\* Whoever reads the file during the Go injector's load sees all rows of a block or none
\* ("so a failing block rolls back cleanly", injector.go:31); the fallback's tables count
\* as loaded when they have all their rows.
Seen == [b \in Blocks |-> IF engine = "python" /\ rows[b] < Rows THEN 0 ELSE rows[b]]
Whole == INSTANCE BlockLoad WITH rows <- Seen
LoadsWholeBlocks == Whole!Spec

\* "any failed block rolls back and raises RuntimeError" (docs/core/db-generator.md:143).
FailedRollsBack == verdict = "raised" => \A b \in Blocks : rows[b] \in {0, Rows}

\* What makes both true: a block is in one place at a time, and its table holds what
\* its worker has committed of it.
Active(w) == step[w] \in {"begin", "held", "script"}
Committed(w) == IF engine = "go" THEN 0 ELSE wrote[w]
InOnePlace ==
  /\ \A w \in Workers : Active(w) => phase = "inject" /\ task[w] \in Blocks \ (todo \cup done)
  /\ \A v, w \in Workers : Active(v) /\ Active(w) /\ v # w => task[v] # task[w]
  /\ phase = "inject" => done \cap todo = {} /\ verdict = "none"
  /\ phase = "idle" => \A w \in Workers : step[w] = "gone"
RowsAreKnown ==
  /\ \A w \in Workers : Active(w) => rows[task[w]] = Committed(w)
  /\ \A w \in Workers : step[w] \in {"begin", "held"} => wrote[w] = 0
  /\ phase = "inject" => \A b \in todo : rows[b] = 0
  /\ phase = "inject" => \A b \in done : rows[b] = Rows
LoadInv == TypeOK /\ InOnePlace /\ RowsAreKnown /\ OkMeansWhole

\* Every injection comes to a verdict: no worker waits for a lock, a block or another
\* worker for ever.
EveryLoadEnds == phase = "inject" ~> phase = "idle"
=============================================================================
