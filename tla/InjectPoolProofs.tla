-------------------------- MODULE InjectPoolProofs --------------------------
(***************************************************************************)
(* Proofs about InjectPool: an export that returns has loaded every row    *)
(* once, and the injection implements BlockLoad, for any blocks, workers   *)
(* and number of exports.                                                  *)
(***************************************************************************)
EXTENDS InjectPool, TLAPS

LEMMA InitLoadInv == Init => LoadInv
<1> SUFFICES ASSUME Init PROVE LoadInv OBVIOUS
<1> USE InjectPoolAssumption DEF Init
<1>1. TypeOK BY DEF TypeOK
<1>2. InOnePlace BY DEF InOnePlace, Active
<1>3. RowsAreKnown /\ OkMeansWhole BY DEF RowsAreKnown, OkMeansWhole, Active
<1> QED BY <1>1, <1>2, <1>3 DEF LoadInv

LEMMA StructureKeeps == LoadInv /\ (Structure \/ StructureFails) => LoadInv'
<1> SUFFICES ASSUME LoadInv, Structure \/ StructureFails PROVE LoadInv' OBVIOUS
<1> USE InjectPoolAssumption DEF LoadInv, pool, report
<1>1. CASE Structure
  <2> USE <1>1 DEF Structure
  <2>1. TypeOK' BY DEF TypeOK
  <2>2. InOnePlace' BY DEF InOnePlace, Active
  <2>3. RowsAreKnown' BY DEF RowsAreKnown, Active
  <2>4. OkMeansWhole' BY DEF OkMeansWhole
  <2> QED BY <2>1, <2>2, <2>3, <2>4
<1>2. CASE StructureFails
  <2> USE <1>2 DEF StructureFails
  <2>1. TypeOK' BY DEF TypeOK
  <2>2. InOnePlace' BY DEF InOnePlace, Active
  <2>3. RowsAreKnown' BY <2>2 DEF RowsAreKnown, InOnePlace, Active
  <2>4. OkMeansWhole' BY DEF OkMeansWhole
  <2> QED BY <2>1, <2>2, <2>3, <2>4
<1> QED BY <1>1, <1>2

LEMMA EndKeeps == LoadInv /\ (Report \/ InjectorDies) => LoadInv'
<1> SUFFICES ASSUME LoadInv, Report \/ InjectorDies PROVE LoadInv' OBVIOUS
<1> USE InjectPoolAssumption DEF LoadInv, pool, report, export
<1>1. CASE Report
  <2> USE <1>1 DEF Report
  <2>1. TypeOK' BY DEF TypeOK
  <2>2. InOnePlace' BY DEF InOnePlace, Active
  <2>3. RowsAreKnown' BY DEF RowsAreKnown, Active
  <2>4. OkMeansWhole' BY DEF OkMeansWhole, RowsAreKnown
  <2> QED BY <2>1, <2>2, <2>3, <2>4
<1>2. CASE InjectorDies
  <2> USE <1>2 DEF InjectorDies
  <2>1. TypeOK' BY DEF TypeOK
  <2>2. InOnePlace' BY DEF InOnePlace, Active
  <2>3. RowsAreKnown' BY DEF RowsAreKnown, Active
  <2>4. OkMeansWhole' BY DEF OkMeansWhole
  <2> QED BY <2>1, <2>2, <2>3, <2>4
<1> QED BY <1>1, <1>2

LEMMA TakeKeeps == ASSUME NEW w \in Workers, LoadInv, Take(w) PROVE LoadInv'
<1> USE InjectPoolAssumption DEF LoadInv, Take, report, export
<1>1. TypeOK' BY DEF TypeOK
<1>2. InOnePlace' BY DEF InOnePlace, Active, TypeOK
<1>3. RowsAreKnown' BY DEF RowsAreKnown, InOnePlace, Active, Committed, TypeOK
<1>4. OkMeansWhole' BY DEF OkMeansWhole
<1> QED BY <1>1, <1>2, <1>3, <1>4

LEMMA BeginKeeps ==
  ASSUME NEW w \in Workers, LoadInv, BeginImmediate(w) \/ ScriptCommits(w) PROVE LoadInv'
<1> USE InjectPoolAssumption DEF LoadInv, BeginImmediate, ScriptCommits, report, export
<1>1. TypeOK' BY DEF TypeOK
<1>2. InOnePlace' BY DEF InOnePlace, Active, TypeOK
<1>3. RowsAreKnown' BY DEF RowsAreKnown, Active, Committed, TypeOK
<1>4. OkMeansWhole' BY DEF OkMeansWhole
<1> QED BY <1>1, <1>2, <1>3, <1>4

LEMMA InsertKeeps == ASSUME NEW w \in Workers, LoadInv, Insert(w) PROVE LoadInv'
<1> USE InjectPoolAssumption DEF LoadInv, Insert, report, export
<1>0. Active(w) /\ task[w] \in Blocks /\ phase = "inject" /\ verdict = "none"
  BY DEF InOnePlace, Active
<1>1. TypeOK' BY <1>0 DEF TypeOK
<1>2. InOnePlace' BY DEF InOnePlace, Active, TypeOK
<1>3. RowsAreKnown'
  <2>1. \A v \in Workers : Active(v)' => rows'[task'[v]] = Committed(v)'
    <3> SUFFICES ASSUME NEW v \in Workers, Active(v)' PROVE rows'[task'[v]] = Committed(v)'
      OBVIOUS
    <3>1. Active(v) /\ task'[v] = task[v] /\ rows[task[v]] = Committed(v)
      BY DEF Active, RowsAreKnown
    <3>2. CASE v = w BY <1>0, <3>1, <3>2 DEF Committed, TypeOK
    <3>3. CASE v # w
      <4>1. task[v] # task[w] /\ task[v] \in Blocks BY <1>0, <3>1, <3>3 DEF InOnePlace
      <4> QED BY <1>0, <3>1, <3>3, <4>1 DEF Committed, TypeOK
    <3> QED BY <3>2, <3>3
  <2>2. \A v \in Workers : step'[v] \in {"begin", "held"} => wrote'[v] = 0
    BY DEF RowsAreKnown, TypeOK
  <2>3. \A b \in todo \cup done : rows'[b] = rows[b]
    BY <1>0 DEF InOnePlace, TypeOK
  <2> QED BY <2>1, <2>2, <2>3 DEF RowsAreKnown
<1>4. OkMeansWhole' BY <1>0 DEF OkMeansWhole
<1> QED BY <1>1, <1>2, <1>3, <1>4

LEMMA CommitKeeps == ASSUME NEW w \in Workers, LoadInv, Commit(w) PROVE LoadInv'
<1> USE InjectPoolAssumption DEF LoadInv, Commit, export
<1>0. Active(w) /\ task[w] \in Blocks /\ phase = "inject" /\ verdict = "none"
  BY DEF InOnePlace, Active
<1>1. TypeOK' BY <1>0 DEF TypeOK, Released
<1>2. InOnePlace' BY <1>0 DEF InOnePlace, Active, TypeOK
<1>a. rows'[task[w]] = Rows /\ \A b \in Blocks \ {task[w]} : rows'[b] = rows[b]
  BY <1>0 DEF RowsAreKnown, Committed, TypeOK
<1>3. RowsAreKnown'
  <2>1. \A v \in Workers : Active(v)' => rows'[task'[v]] = Committed(v)'
    <3> SUFFICES ASSUME NEW v \in Workers, Active(v)' PROVE rows'[task'[v]] = Committed(v)'
      OBVIOUS
    <3>1. v # w /\ Active(v) /\ task[v] # task[w] /\ task[v] \in Blocks
      BY <1>0 DEF Active, InOnePlace, TypeOK
    <3> QED BY <1>a, <3>1 DEF Committed, RowsAreKnown
  <2>2. \A v \in Workers : step'[v] \in {"begin", "held"} => wrote'[v] = 0
    BY DEF RowsAreKnown, TypeOK
  <2>3. \A b \in todo : b # task[w] /\ b \in Blocks BY <1>0 DEF InOnePlace, TypeOK
  <2>4. \A b \in done' : rows'[b] = Rows BY <1>0, <1>a DEF RowsAreKnown, TypeOK
  <2> QED BY <1>a, <2>1, <2>2, <2>3, <2>4 DEF RowsAreKnown
<1>4. OkMeansWhole' BY <1>0 DEF OkMeansWhole
<1> QED BY <1>1, <1>2, <1>3, <1>4

LEMMA LeaveKeeps ==
  ASSUME NEW w \in Workers, LoadInv, BlockFails(w) \/ Leave(w) PROVE LoadInv'
<1> USE InjectPoolAssumption DEF LoadInv, BlockFails, Leave, report, export
<1>0. BlockFails(w) => task[w] \in Blocks BY DEF InOnePlace, Active
<1>1. TypeOK' BY <1>0 DEF TypeOK, Released
<1>2. InOnePlace' BY DEF InOnePlace, Active, TypeOK
<1>3. RowsAreKnown' BY DEF RowsAreKnown, Active, Committed, TypeOK
<1>4. OkMeansWhole' BY DEF OkMeansWhole
<1> QED BY <1>1, <1>2, <1>3, <1>4

LEMMA NextKeeps == LoadInv /\ [Next]_vars => LoadInv'
<1> SUFFICES ASSUME LoadInv, [Next]_vars PROVE LoadInv' OBVIOUS
<1>1. CASE Structure \/ StructureFails BY <1>1, StructureKeeps
<1>2. CASE Report \/ InjectorDies BY <1>2, EndKeeps
<1>3. ASSUME NEW w \in Workers, Work(w) PROVE LoadInv'
  BY <1>3, TakeKeeps, BeginKeeps, InsertKeeps, CommitKeeps, LeaveKeeps DEF Work
<1>4. CASE UNCHANGED vars
  BY <1>4 DEF vars, pool, report, export, LoadInv, TypeOK, InOnePlace, RowsAreKnown,
              OkMeansWhole, Active, Committed
<1> QED BY <1>1, <1>2, <1>3, <1>4 DEF Next

\* Types, blocks in one place and tables that hold what was committed, of every export.
THEOREM LoadInvariant == Spec => []LoadInv
<1> QED BY InitLoadInv, NextKeeps, PTL DEF Spec

\* An export that returns has loaded every row of every block, once (inject_pool.py:23).
THEOREM OkIsWhole == Spec => []OkMeansWhole
<1>1. LoadInv => OkMeansWhole BY DEF LoadInv
<1> QED BY LoadInvariant, <1>1, PTL

\* A commit of the Go injector is the abstract load of its block.
LEMMA CommitLoads ==
  ASSUME NEW w \in Workers, LoadInv, Commit(w)
  PROVE  [Whole!Next]_<<Seen, verdict>>
<1> USE InjectPoolAssumption DEF LoadInv, Commit, export
<1>1. Active(w) /\ task[w] \in Blocks /\ verdict = "none" BY DEF InOnePlace, Active
<1>2. CASE engine = "go"
  <2>1. rows[task[w]] = 0 BY <1>1, <1>2 DEF RowsAreKnown, Committed
  <2>2. rows' = [rows EXCEPT ![task[w]] = Rows] BY <1>1, <1>2, <2>1 DEF TypeOK
  <2>3. Seen = rows /\ Seen' = rows' BY <1>2, <2>2 DEF Seen, TypeOK
  <2>4. Whole!Load(task[w]) BY <1>1, <2>1, <2>2, <2>3 DEF Whole!Load
  <2> QED BY <1>1, <2>4 DEF Whole!Next
<1>3. CASE engine = "python" BY <1>3 DEF Seen
<1> QED BY <1>2, <1>3 DEF TypeOK

\* An INSERT shows only as the fallback's last one of a block.
LEMMA InsertLoads ==
  ASSUME NEW w \in Workers, LoadInv, Insert(w)
  PROVE  [Whole!Next]_<<Seen, verdict>>
<1> USE InjectPoolAssumption DEF LoadInv, Insert, report, export
<1>1. /\ Active(w) /\ task[w] \in Blocks /\ verdict = "none" /\ wrote[w] \in 0..Rows
      /\ rows \in [Blocks -> Nat]
  BY DEF InOnePlace, Active, TypeOK
<1>2. CASE UNCHANGED rows BY <1>2 DEF Seen
<1>3. CASE engine = "python" /\ rows' = [rows EXCEPT ![task[w]] = @ + 1]
  <2>1. rows[task[w]] < Rows /\ rows'[task[w]] \in 0..Rows
    BY <1>1, <1>3 DEF RowsAreKnown, Committed
  <2>2. Seen[task[w]] = 0 BY <1>1, <1>3, <2>1 DEF Seen
  <2>3. Seen \in [Blocks -> Nat] /\ engine' = engine /\ verdict' = verdict
    BY <1>1 DEF Seen
  <2>4. \A b \in Blocks \ {task[w]} : Seen'[b] = Seen[b] BY <1>1, <1>3, <2>3 DEF Seen
  <2>5. CASE rows'[task[w]] = Rows
    <3>1. Seen'[task[w]] = Rows BY <1>1, <1>3, <2>3, <2>5 DEF Seen
    <3>2. Seen' = [Seen EXCEPT ![task[w]] = Rows] BY <1>1, <2>3, <2>4, <3>1 DEF Seen
    <3> QED BY <1>1, <2>2, <2>3, <3>2 DEF Whole!Load, Whole!Next
  <2>6. CASE rows'[task[w]] # Rows
    <3>1. Seen'[task[w]] = 0 BY <1>1, <1>3, <2>1, <2>3, <2>6 DEF Seen
    <3>2. Seen' = Seen BY <1>1, <2>2, <2>3, <2>4, <3>1 DEF Seen
    <3> QED BY <2>3, <3>2
  <2> QED BY <2>5, <2>6
<1> QED BY <1>2, <1>3

\* A report is the abstract success when all is there, a failure otherwise.
LEMMA ReportEnds == ASSUME LoadInv, Report PROVE Whole!Succeed \/ Whole!Fail
<1> USE InjectPoolAssumption DEF LoadInv, Report
<1>1. verdict = "none" /\ Seen' = Seen BY DEF InOnePlace, Seen
<1>2. CASE failed = {} /\ done = Blocks
  <2>1. \A b \in Blocks : Seen[b] = Rows BY <1>2 DEF RowsAreKnown, Seen
  <2> QED BY <1>1, <1>2, <2>1 DEF Whole!Succeed
<1>3. CASE ~(failed = {} /\ done = Blocks) BY <1>1, <1>3 DEF Whole!Fail
<1> QED BY <1>2, <1>3

LEMMA StructureStarts ==
  ASSUME LoadInv, Structure \/ StructureFails PROVE Whole!Start \/ Whole!StartFails
<1> USE InjectPoolAssumption
<1>1. CASE Structure BY <1>1 DEF Structure, Seen, Whole!Start
<1>2. CASE StructureFails
  <2>1. PICK dropped \in SUBSET Blocks :
          rows' = [b \in Blocks |-> IF b \in dropped THEN 0 ELSE rows[b]]
    BY <1>2 DEF StructureFails
  <2>2. engine' = engine /\ verdict' = "raised" BY <1>2 DEF StructureFails
  <2>3. Seen' = [b \in Blocks |-> IF b \in dropped THEN 0 ELSE Seen[b]]
    BY <2>1, <2>2 DEF Seen
  <2> QED BY <2>2, <2>3 DEF Whole!StartFails
<1> QED BY <1>1, <1>2

LEMMA StepImplements ==
  ASSUME LoadInv, [Next]_vars PROVE [Whole!Next]_<<Seen, verdict>>
<1>1. CASE Structure \/ StructureFails BY <1>1, StructureStarts DEF Whole!Next
<1>2. CASE Report BY <1>2, ReportEnds DEF Whole!Next
<1>3. CASE InjectorDies BY <1>3 DEF InjectorDies, export, Seen
<1>4. ASSUME NEW w \in Workers, Work(w) PROVE [Whole!Next]_<<Seen, verdict>>
  <2>1. CASE Take(w) \/ BeginImmediate(w) \/ ScriptCommits(w) \/ BlockFails(w) \/ Leave(w)
    BY <2>1 DEF Take, BeginImmediate, ScriptCommits, BlockFails, Leave, export, Seen
  <2> QED BY <1>4, <2>1, CommitLoads, InsertLoads DEF Work
<1>5. CASE UNCHANGED vars BY <1>5 DEF vars, export, Seen
<1> QED BY <1>1, <1>2, <1>3, <1>4, <1>5 DEF Next

\* The injection implements BlockLoad: with the Go injector no block is ever there in
\* part, and with either a load that is reported as good is whole.
THEOREM InjectionLoadsWholeBlocks == Spec => LoadsWholeBlocks
<1> USE InjectPoolAssumption
<1>1. Init => Whole!Init BY DEF Init, Whole!Init, Seen
<1>2. LoadInv /\ [Next]_vars => [Whole!Next]_<<Seen, verdict>> BY StepImplements
<1> QED BY <1>1, <1>2, LoadInvariant, PTL DEF Spec, LoadsWholeBlocks, Whole!Spec
=============================================================================
