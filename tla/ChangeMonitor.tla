--------------------------- MODULE ChangeMonitor ---------------------------
(***************************************************************************)
(* The repository monitor: monitor.py's scan cycle and restart, over the   *)
(* change-diff database of diff_db.py (ring of events, batches, live       *)
(* index) and the durable log of change_log.py.                            *)
(*                                                                         *)
(* Every committed transaction of the diff database is one action, so the  *)
(* program may die, or a second monitor of the same repository may run,    *)
(* between any two of them.                                                *)
(***************************************************************************)
EXTENDS Integers, Sequences, FiniteSets, FiniteSetsExt, SequencesExt

CONSTANTS Files,          \* the watched paths
          Deletable,      \* those that may be deleted (or not be there at first)
          Contents,       \* file hashes
          Absent,         \* "not in the tree"
          Monitors,       \* monitor processes on the one diff database
          Capacities,     \* ring depths a monitor may be opened with
          MaxCapacity,    \* the largest of them
          RecordOffline,  \* record_offline_changes
          Complete,       \* does the pool return a result for every file
          MaxEdits, MaxStops, MaxCrashes,  \* bounds on what may happen to them
          MaxFaults,      \* bound on exceptions
          MaxUnread       \* bound on files a snapshot cannot read

Kinds == {"edits", "stops", "crashes", "faults", "unread"}
Budget == [edits |-> MaxEdits, stops |-> MaxStops, crashes |-> MaxCrashes,
           faults |-> MaxFaults, unread |-> MaxUnread]

ASSUME MonitorAssumption ==
  /\ IsFiniteSet(Files) /\ Deletable \subseteq Files
  /\ Absent \notin Contents
  /\ MaxCapacity \in Nat /\ Capacities \subseteq 1..MaxCapacity
  /\ RecordOffline \in BOOLEAN /\ Complete \in BOOLEAN
  /\ {MaxEdits, MaxStops, MaxCrashes, MaxFaults, MaxUnread} \subseteq Nat

VARIABLES disk,       \* the tree
          index,      \* file_state: content and last_seq of every known file
          seq,        \* monitor_meta.seq
          ring,       \* change_events, by slot
          lastBatch,  \* monitor_meta.batch_id
          batches,    \* change_batches
          log,        \* the durable change log
          mon,        \* the monitors' own state
          budget,     \* what is left of Budget
          hist,       \* history: every event ever committed to the ring
          known,      \* history: what baseline and events told of every file
          finished    \* history: every batch ever finalized

stored == <<index, seq, ring, lastBatch, batches, log>>
history == <<hist, known, finished>>
vars == <<disk, stored, mon, budget, history>>

Slots == 0..(MaxCapacity - 1)
Versions == Contents \cup {Absent}
Tree == [Files -> Versions]
Changed == [file : Files, old : Versions, new : Versions]
Entries == [seq : Nat, batch : Nat, change : Changed, stamped : BOOLEAN]
Steps == {"down", "read", "seed", "idle", "batch", "batching", "seq", "record",
          "index", "analyze", "archive", "finish"}

Local == [pc : Steps, cap : Capacities \cup {0}, first : BOOLEAN, snap : Tree, fresh : Tree,
          todo : SUBSET Files, events : Seq(Changed), batch : Nat, base : Nat, at : Nat,
          done : SUBSET Nat]

NoFile == [content |-> Absent, last |-> 0]
NoEntry == [seq |-> 0]
NoTree == [f \in Files |-> Absent]
NotStarted == [pc |-> "down", cap |-> 0, first |-> TRUE, snap |-> NoTree, fresh |-> NoTree,
               todo |-> {}, events |-> <<>>, batch |-> 0, base |-> 0, at |-> 0, done |-> {}]

Init ==
  /\ disk \in {t \in Tree : \A f \in Files \ Deletable : t[f] # Absent}
  /\ index = [f \in Files |-> NoFile]
  /\ seq = 0
  /\ ring = [s \in Slots |-> NoEntry]
  /\ lastBatch = 0
  /\ batches = {}
  /\ log = {}
  /\ mon = [m \in Monitors |-> NotStarted]
  /\ budget = Budget
  /\ hist = {}
  /\ known = NoTree
  /\ finished = {}

At(m, step) == mon[m].pc = step
Spend(kind) == budget[kind] > 0 /\ budget' = [budget EXCEPT ![kind] = @ - 1]

\* Between two cycles a monitor keeps its snapshot and nothing else.
Between(m) == [NotStarted EXCEPT !.pc = "idle", !.cap = mon[m].cap,
                                 !.first = FALSE, !.snap = mon[m].snap]

\* The tree as file_state has it.
Persisted == [f \in Files |-> index[f].content]

-----------------------------------------------------------------------------
(* The tree and the scanner                                                *)

Edit(f) ==
  /\ Spend("edits")
  /\ \E v \in (Contents \cup IF f \in Deletable THEN {Absent} ELSE {}) \ {disk[f]} :
       disk' = [disk EXCEPT ![f] = v]
  /\ UNCHANGED <<stored, mon, history>>

\* snapshot(): os.walk reads the files one at a time.
ReadFile(m) ==
  /\ At(m, "read")
  /\ \E f \in mon[m].todo :
       mon' = [mon EXCEPT ![m].fresh[f] = disk[f], ![m].todo = @ \ {f}]
  /\ UNCHANGED <<disk, stored, budget, history>>

\* A file that cannot be read is left out of the snapshot.
ReadFileFails(m) ==
  /\ At(m, "read")
  /\ Spend("unread")
  /\ \E f \in mon[m].todo :
       mon' = [mon EXCEPT ![m].fresh[f] = Absent, ![m].todo = @ \ {f}]
  /\ UNCHANGED <<disk, stored, history>>

\* Scanner.diff: created, then deleted, then modified, each in path order.
Change(f, old, new) == [file |-> f, old |-> old[f], new |-> new[f]]
Created(old, new) == {Change(f, old, new) : f \in {g \in Files : old[g] = Absent /\ new[g] # Absent}}
Deleted(old, new) == {Change(f, old, new) : f \in {g \in Files : old[g] # Absent /\ new[g] = Absent}}
Modified(old, new) ==
  {Change(f, old, new) : f \in {g \in Files : Absent \notin {old[g], new[g]} /\ old[g] # new[g]}}
Changes(old, new) ==
  SetToSeq(Created(old, new)) \o SetToSeq(Deleted(old, new)) \o SetToSeq(Modified(old, new))

-----------------------------------------------------------------------------
(* initialize                                                              *)

\* ChangeDiffDatabase.initialize and load_file_state; the snapshot follows.
Open(m) ==
  /\ At(m, "down")
  /\ \E c \in Capacities :
       mon' = [mon EXCEPT ![m] = [NotStarted EXCEPT
                 !.pc = "read", !.cap = c, !.snap = Persisted, !.todo = Files]]
  /\ UNCHANGED <<disk, stored, budget, history>>

\* Nothing persisted, or offline changes are not wanted.
Baseline(m) == mon[m].first /\ (~RecordOffline \/ \A f \in Files : mon[m].snap[f] = Absent)

\* The snapshot just taken becomes the baseline.
Adopt(m) ==
  /\ At(m, "read") /\ mon[m].todo = {}
  /\ Baseline(m)
  /\ mon' = [mon EXCEPT ![m].pc = "seed", ![m].snap = mon[m].fresh, ![m].fresh = NoTree,
                        ![m].todo = {f \in Files : mon[m].fresh[f] # Absent}]
  /\ known' = IF hist = {} THEN mon[m].fresh ELSE known
  /\ UNCHANGED <<disk, stored, budget, hist, finished>>

\* upsert_file_state(..., last_seq=None), one commit per file.
Seed(m) ==
  /\ At(m, "seed")
  /\ \E f \in mon[m].todo :
       /\ index' = [index EXCEPT ![f] = [content |-> mon[m].snap[f], last |-> 0]]
       /\ mon' = [mon EXCEPT ![m].todo = @ \ {f}]
  /\ UNCHANGED <<disk, seq, ring, lastBatch, batches, log, budget, history>>

Seeded(m) ==
  /\ At(m, "seed") /\ mon[m].todo = {}
  /\ mon' = [mon EXCEPT ![m] = Between(m)]
  /\ UNCHANGED <<disk, stored, budget, history>>

-----------------------------------------------------------------------------
(* scan_once                                                               *)

Scan(m) ==
  /\ At(m, "idle")
  /\ mon' = [mon EXCEPT ![m].pc = "read", ![m].todo = Files]
  /\ UNCHANGED <<disk, stored, budget, history>>

\* The scan's snapshot forgotten instead of kept.
OldSnapshot(m) == mon[m].snap

\* self._snapshot = new_snapshot, before the events are processed.
NewSnapshot(m) == mon[m].fresh

\* diff against the previous snapshot, which the new one replaces at once.
Compare(m) ==
  /\ At(m, "read") /\ mon[m].todo = {}
  /\ ~Baseline(m)
  /\ LET evs == Changes(mon[m].snap, mon[m].fresh)
         kept == [mon EXCEPT ![m].snap = NewSnapshot(m), ![m].fresh = NoTree]
     IN  mon' = IF evs = <<>>
                THEN [kept EXCEPT ![m].pc = "idle", ![m].first = FALSE]
                ELSE [kept EXCEPT ![m].pc = "batch", ![m].events = evs]
  /\ UNCHANGED <<disk, stored, budget, history>>

-----------------------------------------------------------------------------
(* _process_events                                                         *)

\* begin_batch reads the counter in autocommit mode ...
BatchRead(m) ==
  /\ At(m, "batch")
  /\ mon' = [mon EXCEPT ![m].pc = "batching", ![m].batch = lastBatch + 1]
  /\ UNCHANGED <<disk, stored, budget, history>>

\* ... and its INSERT opens the transaction.
BatchWrite(m) ==
  /\ At(m, "batching")
  /\ lastBatch' = mon[m].batch
  /\ mon' = [mon EXCEPT ![m].pc = "seq"]
  /\ UNCHANGED <<disk, index, seq, ring, batches, log, budget, history>>

\* record_events reads seq the same way.
RecordRead(m) ==
  /\ At(m, "seq")
  /\ mon' = [mon EXCEPT ![m].pc = "record", ![m].base = seq]
  /\ UNCHANGED <<disk, stored, budget, history>>

\* The slot of event or batch n.
SlotOf(n, cap) == (n - 1) % cap

\* The i-th event of m's batch as a row.
Entry(m, i) == [seq |-> mon[m].base + i, batch |-> mon[m].batch,
                change |-> mon[m].events[i], stamped |-> i \in mon[m].done]

\* Slots counted from the start of the batch.
RingByBatch(m, k) ==
  [s \in Slots |->
    LET hits == {i \in 1..k : SlotOf(i, mon[m].cap) = s}
    IN  IF hits = {} THEN ring[s] ELSE Entry(m, Max(hits))]

\* INSERT ... ON CONFLICT(slot) DO UPDATE for the first k events.
RingWith(m, k) ==
  [s \in Slots |->
    LET hits == {i \in 1..k : SlotOf(mon[m].base + i, mon[m].cap) = s}
    IN  IF hits = {} THEN ring[s] ELSE Entry(m, Max(hits))]

Recorded(m, k) == {[seq |-> mon[m].base + i, change |-> mon[m].events[i]] : i \in 1..k}

\* The counter left at the number the last event was given before its increment.
CounterBehind(m) == mon[m].base + Len(mon[m].events) - 1

\* The counter the transaction ends with.
Counter(m) == mon[m].base + Len(mon[m].events)

\* Ghost: the content the last event of each file says it has.
Follow(tree, events) ==
  [f \in Files |-> LET its == {e \in Range(events) : e.file = f}
                   IN  IF its = {} THEN tree[f] ELSE (CHOOSE e \in its : TRUE).new]

RecordWrite(m) ==
  /\ At(m, "record")
  /\ ring' = RingWith(m, Len(mon[m].events))
  /\ seq' = Counter(m)
  /\ hist' = hist \cup Recorded(m, Len(mon[m].events))
  /\ known' = Follow(known, mon[m].events)
  /\ mon' = [mon EXCEPT ![m].pc = "index", ![m].at = 1]
  /\ UNCHANGED <<disk, index, lastBatch, batches, log, budget, finished>>

\* Deleted files left in the index.
RowUnlessDeleted(m, e) ==
  IF e.new = Absent THEN index[e.file] ELSE [content |-> e.new, last |-> mon[m].base + mon[m].at]

\* Every file of a batch pointed at the batch's last event.
RowOfBatch(m, e) ==
  IF e.new = Absent THEN NoFile ELSE [content |-> e.new, last |-> Counter(m)]

\* delete_file_state, or upsert_file_state with the event's own seq.
RowFor(m, e) ==
  IF e.new = Absent THEN NoFile ELSE [content |-> e.new, last |-> mon[m].base + mon[m].at]

\* One commit per event.
Index(m) ==
  /\ At(m, "index") /\ mon[m].at <= Len(mon[m].events)
  /\ LET e == mon[m].events[mon[m].at] IN index' = [index EXCEPT ![e.file] = RowFor(m, e)]
  /\ mon' = [mon EXCEPT ![m].at = @ + 1]
  /\ UNCHANGED <<disk, seq, ring, lastBatch, batches, log, budget, history>>

Indexed(m) ==
  /\ At(m, "index") /\ mon[m].at > Len(mon[m].events)
  /\ mon' = [mon EXCEPT ![m].pc = "analyze"]
  /\ UNCHANGED <<disk, stored, budget, history>>

\* An UPDATE by slot alone.
StampSlot(m, done) ==
  [s \in Slots |-> IF \E i \in done : SlotOf(mon[m].base + i, mon[m].cap) = s /\ ring[s] # NoEntry
                   THEN [ring[s] EXCEPT !.stamped = TRUE] ELSE ring[s]]

\* update_event_result for the given events: WHERE slot = ? AND seq = ?.
Stamp(m, done) ==
  [s \in Slots |-> IF \E i \in done : /\ SlotOf(mon[m].base + i, mon[m].cap) = s
                                      /\ ring[s].seq = mon[m].base + i
                   THEN [ring[s] EXCEPT !.stamped = TRUE] ELSE ring[s]]

\* Re-analysis of what was created or modified, and its results.  A batch of the
\* pool whose result file is missing leaves its files without one.  A program
\* that dies between two of the UPDATEs leaves what a shorter list would.
Analyze(m) ==
  /\ At(m, "analyze")
  /\ LET todo == {i \in DOMAIN mon[m].events : mon[m].events[i].new # Absent}
     IN  \E done \in IF Complete THEN {todo} ELSE SUBSET todo :
           /\ ring' = Stamp(m, done)
           /\ mon' = [mon EXCEPT ![m].pc = "archive", ![m].done = done]
  /\ UNCHANGED <<disk, index, seq, lastBatch, batches, log, budget, history>>

\* append_events writes the batch, with its results, in one transaction.
Archive(m) ==
  /\ At(m, "archive")
  /\ log' = log \cup {Entry(m, i) : i \in DOMAIN mon[m].events}
  /\ mon' = [mon EXCEPT ![m].pc = "finish"]
  /\ UNCHANGED <<disk, index, seq, ring, lastBatch, batches, budget, history>>

\* "Best-effort -- never fatal."
ArchiveFails(m) ==
  /\ At(m, "archive")
  /\ Spend("faults")
  /\ mon' = [mon EXCEPT ![m].pc = "finish"]
  /\ UNCHANGED <<disk, stored, history>>

\* Rows that are only ever added.
RowsKept(m, slot) == batches

\* DELETE WHERE slot = ? AND batch_id <> ?, and the upsert by batch_id.
RowsLeft(m, slot) == {r \in batches : r.slot # slot /\ r.batch # mon[m].batch}

\* finalize_batch.
Finish(m) ==
  /\ At(m, "finish")
  /\ LET slot == SlotOf(mon[m].batch, mon[m].cap)
     IN  batches' = RowsLeft(m, slot) \cup {[slot |-> slot, batch |-> mon[m].batch]}
  /\ finished' = finished \cup {mon[m].batch}
  /\ mon' = [mon EXCEPT ![m] = Between(m)]
  /\ UNCHANGED <<disk, index, seq, ring, lastBatch, log, budget, hist, known>>

-----------------------------------------------------------------------------
(* Stopping and failing                                                    *)

\* stop() and close() between two cycles. A stop() without close() keeps the snapshot and
\* a later start() scans on from it (monitor.py:372): to the model, no step at all.
Stop(m) ==
  /\ At(m, "idle")
  /\ Spend("stops")
  /\ mon' = [mon EXCEPT ![m] = NotStarted]
  /\ UNCHANGED <<disk, stored, history>>

\* The process dies, or close() takes the database away after a join that
\* timed out.  An open transaction is rolled back.
Crash(m) ==
  /\ ~At(m, "down")
  /\ Spend("crashes")
  /\ mon' = [mon EXCEPT ![m] = NotStarted]
  /\ UNCHANGED <<disk, stored, history>>

\* An exception out of the database or out of one event ends the cycle.  The
\* daemon's _loop and the standalone run_forever both report it with set_status,
\* whose commit also commits the rows record_events had inserted so far, or
\* finalize_batch's DELETE; _loop then scans on, run_forever ends.  A failed
\* initialize leaves no monitor, and its connection rolls back.
Raise(m) ==
  /\ ~At(m, "down") /\ ~At(m, "idle") /\ ~At(m, "read")
  /\ Spend("faults")
  /\ \E k \in IF At(m, "record") /\ ~mon[m].first THEN 0..(Len(mon[m].events) - 1) ELSE {0} :
       /\ ring' = RingWith(m, k)
       /\ hist' = hist \cup Recorded(m, k)
  /\ batches' \in {batches} \cup
       IF At(m, "finish") /\ ~mon[m].first
       THEN {{r \in batches : r.slot # SlotOf(mon[m].batch, mon[m].cap) \/ r.batch = mon[m].batch}}
       ELSE {}
  /\ \E after \in {NotStarted} \cup IF mon[m].first THEN {} ELSE {Between(m)} :
       mon' = [mon EXCEPT ![m] = after]
  /\ UNCHANGED <<disk, index, seq, lastBatch, log, known, finished>>

-----------------------------------------------------------------------------
Cycle(m) ==
  \/ Open(m) \/ ReadFile(m) \/ Adopt(m) \/ Seed(m) \/ Seeded(m)
  \/ Scan(m) \/ Compare(m) \/ BatchRead(m) \/ BatchWrite(m) \/ RecordRead(m)
  \/ RecordWrite(m) \/ Index(m) \/ Indexed(m) \/ Analyze(m) \/ Archive(m) \/ Finish(m)

Mishap(m) ==
  \/ ReadFileFails(m) \/ ArchiveFails(m) \/ Raise(m) \/ Stop(m) \/ Crash(m)

Next == \/ \E f \in Files : Edit(f)
        \/ \E m \in Monitors : Cycle(m) \/ Mishap(m)

Spec == Init /\ [][Next]_vars

\* The scan loop never ends by itself, and a monitor that is down is started
\* again; editing, stopping and failing are nobody's duty.
FairSpec == Spec /\ \A m \in Monitors : WF_vars(Cycle(m))

-----------------------------------------------------------------------------
TypeOK ==
  /\ disk \in Tree
  /\ index \in [Files -> [content : Versions, last : Nat]]
  /\ seq \in Nat
  /\ ring \in [Slots -> Entries \cup {NoEntry}]
  /\ lastBatch \in Nat
  /\ batches \subseteq [slot : Slots, batch : Nat]
  /\ log \subseteq Entries
  /\ mon \in [Monitors -> Local]
  /\ budget \in [Kinds -> Nat]
  /\ hist \subseteq [seq : Nat, change : Changed]
  /\ known \in Tree
  /\ finished \subseteq Nat

Rows == {ring[s] : s \in Slots} \ {NoEntry}
Event(e) == [seq |-> e.seq, change |-> e.change]

\* "seq INTEGER NOT NULL -- monotonic 1-based global sequence" (diff_db.py:54):
\* no number is ever given to two different changes.
SeqNamesOneEvent == \A d, e \in hist : d.seq = e.seq => d = e

\* "Only the last capacity consecutive change events are retained"
\* (diff_db.py:9): whatever batches straddle the wrap, the ring holds exactly
\* the newest events, and the counter says which.
RingIsLastEvents ==
  \A m \in Monitors : mon[m].cap # 0 =>
    {Event(e) : e \in Rows} = {e \in hist : e.seq > seq - mon[m].cap}

\* file_state.last_seq leads to the change that gave the file the content the
\* index shows, also when the program died anywhere in a batch: the index is
\* never ahead of the ring.
IndexNamesItsEvent ==
  \A f \in Files : index[f].last # 0 =>
    \E e \in hist : /\ e.seq = index[f].last
                    /\ e.change.file = f /\ e.change.new = index[f].content

\* "It is a strict superset of the FIFO" (change_log.py:12): between two cycles
\* every retained event is in the durable log, with the outcome its row shows, unless
\* the program died between the ring's commit and the log's.
Uncrashed == budget["crashes"] = MaxCrashes
LogHoldsRing == Uncrashed /\ (\A m \in Monitors : At(m, "idle")) => Rows \subseteq log

\* change_batches "is capped the same way" (diff_db.py:12): the batches it has
\* are the last ones finished, if none was cut short.
BatchesAreLast ==
  Uncrashed => \A m \in Monitors : mon[m].cap # 0 =>
    {r.batch : r \in batches} =
      {b \in finished : Cardinality({c \in finished : c > b}) < mon[m].cap}

\* The events of a file follow on from each other, across stops and restarts of the
\* monitor: each starts from the content the one before, or the baseline, ended with, so
\* what changed while the monitor was down is surfaced once and from where it was left
\* (monitor.py:195). Until a death, an exception or a file that could not be read.
Unharmed == \A kind \in {"crashes", "faults", "unread"} : budget[kind] = Budget[kind]
Chained ==
  [][Unharmed => \A e \in hist' \ hist : e.change.old = known[e.change.file]]_vars

\* "the live index of the current on-disk state ... It is authoritative"
\* (diff_db.py:23): once the tree rests, the index ends up equal to it.
Converges == <>[](Persisted = disk)
=============================================================================
