------------------------- MODULE SelfHealingProofs -------------------------
(***************************************************************************)
(* SelfHealing for every number of uploads, every amount of damage, loss,  *)
(* crashes and failures, every policy and every retention: what a heal     *)
(* takes for an exact copy by its checksum is content that was uploaded or *)
(* accepted since.                                                         *)
(***************************************************************************)
EXTENDS SelfHealing, WellFoundedInduction, SequenceTheorems, TLAPS

\* What HealInv leaves out: nobody knows of an upload that is yet to come, and a heal has
\* a candidate exactly from its staging to its listing, over a row that stays.
Bound(s) == s.lineage # None => s.lineage.at <= hosts
Candidate == [kind : {"matched", "dated", "rollback"}, sha : Sha]
Control ==
  /\ Bound(saved) /\ Bound(mem)
  /\ row # None => row.at <= hosts
  /\ pc = "inspect" /\ rec # None => mem.entry # None
  /\ cand # None => pc \in {"swap", "list"}
  /\ pc \in {"swap", "list"} => cand \in Candidate /\ row # None /\ mem.entry # None
IHealInv == HealInv /\ Control

LEMMA InitHeal == Init => IHealInv
<1> SUFFICES ASSUME Init PROVE IHealInv
  OBVIOUS
<1>1. EmptyState \in State
  BY DEF EmptyState, State
<1>2. TypeOK
  <2>1. <<>> \in Seq(BackupSet) /\ Len(<<>>) = 0
    BY EmptySeq
  <2>2. Keep \in Nat /\ 0 \in 0..MaxHosts /\ 0 \in 0..MaxDamage /\ 0 \in 0..MaxLoss
        /\ 0 \in 0..MaxMishaps
    BY SelfHealingAssumption
  <2>3. sets \in Seq(BackupSet) /\ Len(sets) <= Keep
    BY <2>1, <2>2 DEF Init
  <2> QED
    BY <1>1, <2>2, <2>3 DEF Init, TypeOK, Content
<1>3. saved.lineage = None /\ mem.lineage = None
  BY DEF Init, EmptyState
<1>4. row = None /\ cand = None /\ pc = "idle"
  BY DEF Init
<1> QED
  BY <1>2, <1>3, <1>4 DEF IHealInv, HealInv, Control, Bound, LineageSound, ExactIsAccepted

\* The parts of a tick's state, one at a time.
LEMMA StateParts ==
  ASSUME NEW s \in State
  PROVE  /\ s.entry \in Entry \cup {None} /\ s.lineage \in Lineage \cup {None}
         /\ s.needs \in BOOLEAN /\ s.due \in BOOLEAN
         /\ \A e \in Entry \cup {None} : [s EXCEPT !.entry = e] \in State
         /\ \A l \in Lineage \cup {None} : [s EXCEPT !.lineage = l] \in State
         /\ \A b \in BOOLEAN : [s EXCEPT !.needs = b] \in State /\ [s EXCEPT !.due = b] \in State
  BY DEF State

LEMMA EntryParts ==
  ASSUME NEW e \in Entry
  PROVE  /\ e.at \in Versions /\ e.status \in Statuses /\ e.stat \in Content
         /\ e.lost \in BOOLEAN /\ e.tried \in BOOLEAN
         /\ \A c \in Statuses : [e EXCEPT !.status = c] \in Entry
         /\ \A c \in Content : [e EXCEPT !.stat = c] \in Entry
         /\ \A b \in BOOLEAN : [e EXCEPT !.lost = b] \in Entry /\ [e EXCEPT !.tried = b] \in Entry
  BY DEF Entry

LEMMA RowParts ==
  ASSUME NEW r \in Row
  PROVE  /\ r.sha \in Sha /\ r.at \in Versions
         /\ r.sha.v \in Versions
         /\ \A c \in Sha : [r EXCEPT !.sha = c] \in Row /\ [r EXCEPT !.sha = c].at = r.at
                           /\ [r EXCEPT !.sha = c].sha = c
  BY DEF Row, Sha

LEMMA CopyIs == \A sha \in Sha : Copy(sha) \in Sha /\ Copy(sha).v = sha.v
  BY DEF Copy, Sha

\* A lineage that is looked up is sound when the one it comes from is.
LEMMA LineageIs ==
  ASSUME IHealInv, row # None
  PROVE  LET l == LineageOf(mem, row) IN
         /\ l \in Lineage /\ l.at = row.at
         /\ \A sha \in l.shas : sha.v \in accepted
<1>1. row \in Row /\ mem \in State /\ row.sha.v \in accepted
  BY SelfHealingAssumption DEF IHealInv, HealInv, TypeOK
<1>2. CASE mem.lineage # None /\ mem.lineage.at = row.at
  <2>1. LineageOf(mem, row) = mem.lineage /\ mem.lineage \in Lineage
    BY <1>1, <1>2, StateParts DEF LineageOf
  <2> QED
    BY <1>2, <2>1 DEF IHealInv, HealInv, LineageSound
<1>3. CASE ~(mem.lineage # None /\ mem.lineage.at = row.at)
  <2>1. LineageOf(mem, row) = [at |-> row.at, shas |-> {row.sha}]
    BY <1>3 DEF LineageOf
  <2> QED
    BY <1>1, <2>1, RowParts DEF Lineage
<1> QED
  BY <1>2, <1>3

LEMMA VerdictIs ==
  ASSUME TypeOK, NEW r \in Row
  PROVE  /\ Verdict(r) \in Statuses
         /\ Verdict(r) = "drifted" => file \in Sha
  BY DEF TypeOK, Verdict, Statuses, Problems, Content

LEMMA SeenIs ==
  ASSUME TypeOK, NEW e \in Entry, NEW c \in Statuses
  PROVE  /\ Seen(e, c) \in Entry /\ Seen(e, c).status = c /\ Seen(e, c).at = e.at
         /\ Seen(e, c).lost = e.lost
<1>1. stat \in Content /\ None \in Content
  BY DEF TypeOK, Content
<1> QED
  BY <1>1 DEF Seen, Entry

LEMMA EntryOfIs ==
  ASSUME NEW s \in State, NEW r \in Row
  PROVE  EntryOf(s, r) \in Entry
<1>1. [at |-> r.at, status |-> "new", stat |-> None, lost |-> FALSE, tried |-> FALSE] \in Entry
  BY RowParts DEF Entry, Statuses, Content
<1> QED
  BY <1>1, StateParts DEF EntryOf

LEMMA SeqIs ==
  ASSUME NEW S, NEW seq \in Seq(S)
  PROVE  /\ DOMAIN seq = 1..Len(seq) /\ Len(seq) \in Nat
         /\ \A i \in DOMAIN seq : seq[i] \in S
         /\ \A i \in DOMAIN seq : \A e \in S :
              [seq EXCEPT ![i] = e] \in Seq(S) /\ Len([seq EXCEPT ![i] = e]) = Len(seq)
<1>1. DOMAIN seq = 1..Len(seq) /\ Len(seq) \in Nat /\ \A i \in DOMAIN seq : seq[i] \in S
  OBVIOUS
<1> QED
  BY <1>1, ExceptSeq

LEMMA AddSetIs ==
  ASSUME TypeOK, NEW sha \in Sha, NEW hashed \in BOOLEAN, AddSet(sha, hashed)
  PROVE  sets' \in Seq(BackupSet) /\ Len(sets') <= Keep
<1> DEFINE new == [sha |-> sha, hashed |-> hashed, since |-> hosts, good |-> TRUE]
           all == Append(sets, new)
<1>1. new \in BackupSet
  BY DEF TypeOK, BackupSet, Versions
<1>2. /\ sets \in Seq(BackupSet) /\ Len(sets) <= Keep /\ Keep \in Nat \ {0}
      /\ Len(sets) \in Nat
  BY SelfHealingAssumption DEF TypeOK
<1>3. all \in Seq(BackupSet) /\ Len(all) = Len(sets) + 1
  <2> HIDE DEF new
  <2> QED
    BY <1>1, <1>2, AppendProperties
<1>4. sets' = SubSeq(all, IF Len(all) > Keep THEN 2 ELSE 1, Len(all))
  BY DEF AddSet
<1> HIDE DEF all, new
<1>5. Len(all) \in Nat /\ Len(all) >= 1 /\ \A i \in 1..Len(all) : all[i] \in BackupSet
  BY <1>2, <1>3
<1>6. ASSUME NEW m \in 1..2
      PROVE  /\ SubSeq(all, m, Len(all)) \in Seq(BackupSet)
             /\ Len(SubSeq(all, m, Len(all))) = Len(all) - m + 1
  <2>1. \A i \in m..Len(all) : all[i] \in BackupSet
    BY <1>5
  <2>2. /\ SubSeq(all, m, Len(all)) \in Seq(BackupSet)
        /\ Len(SubSeq(all, m, Len(all))) = IF m <= Len(all) THEN Len(all) - m + 1 ELSE 0
    BY <1>5, <2>1, SubSeqProperties
  <2> QED
    BY <1>5, <2>2
<1> QED
  BY <1>2, <1>3, <1>4, <1>5, <1>6

LEMMA BackupIs ==
  ASSUME TypeOK, TakeBackup
  PROVE  /\ sets' \in Seq(BackupSet) /\ Len(sets') <= Keep
         /\ file' \in Content /\ stat' \in Content /\ damage' \in 0..MaxDamage
<1>1. Orig(0) \in Sha
  BY SelfHealingAssumption DEF Orig, Sha, Versions
<1>2. CASE BackupStable
  <2>1. file \in Sha
    BY <1>2 DEF BackupStable, Sound, TypeOK, Content
  <2> QED
    BY <1>2, <2>1, AddSetIs DEF BackupStable, TypeOK
<1>3. CASE BackupRacing
  <2>1. PICK sha \in {file, file'} \ {Bad} : AddSet(sha, FALSE)
    BY <1>3 DEF BackupRacing
  <2>2. file' \in {Bad, Orig(0)} /\ stat' = file' /\ file # None /\ file \in Content
    BY <1>3 DEF BackupRacing, TypeOK
  <2>3. sha \in Sha
    BY <1>1, <2>2 DEF Content
  <2>4. damage' \in 0..MaxDamage
    BY <1>3, SelfHealingAssumption DEF BackupRacing, TypeOK
  <2> QED
    BY <1>1, <2>1, <2>2, <2>3, <2>4, AddSetIs DEF Content
<1> QED
  BY <1>2, <1>3 DEF TakeBackup

LEMMA FlaggedIs == \A s : Flagged(s) \in BOOLEAN
  BY DEF Flagged

\* What Bound and LineageSound say of a state, said of its lineage.
Vouched(l) ==
  l # None => /\ l.at <= hosts
              /\ row # None /\ l.at = row.at => \A sha \in l.shas : sha.v \in accepted

LEMMA VouchedIs == \A s : (Bound(s) /\ LineageSound(s)) <=> Vouched(s.lineage)
  BY DEF Bound, LineageSound, Vouched

LEMMA LineageVouched ==
  ASSUME IHealInv, row # None
  PROVE  LineageOf(mem, row) \in Lineage /\ Vouched(LineageOf(mem, row))
  BY LineageIs DEF Vouched, IHealInv, Control

\* A step that leaves the row, the uploads and what is accepted alone.
LEMMA Together ==
  ASSUME IHealInv, TypeOK', UNCHANGED <<row, hosts, accepted>>,
         Vouched(saved'.lineage), Vouched(mem'.lineage),
         pc' = "inspect" /\ rec' # None => mem'.entry # None,
         \/ cand' = None /\ pc' \notin {"swap", "list"}
         \/ cand' = cand /\ pc' = pc /\ mem' = mem
  PROVE  IHealInv'
<1>1. Vouched(saved.lineage)' /\ Vouched(mem.lineage)'
  BY DEF Vouched
<1>2. (Bound(saved) /\ LineageSound(saved))' /\ (Bound(mem) /\ LineageSound(mem))'
  BY <1>1 DEF Vouched, Bound, LineageSound
<1>3. ExactIsAccepted'
  BY DEF IHealInv, HealInv, ExactIsAccepted
<1>4. (row' # None => row'.at <= hosts') /\ (row' # None => row'.sha.v \in accepted')
  BY DEF IHealInv, HealInv, Control
<1>5. /\ cand' # None => pc' \in {"swap", "list"}
      /\ pc' \in {"swap", "list"} => cand' \in Candidate /\ row' # None /\ mem'.entry # None
  BY DEF IHealInv, Control
<1> QED
  BY <1>2, <1>3, <1>4, <1>5 DEF IHealInv, HealInv, Control

-----------------------------------------------------------------------------
(* The steps of a tick that do not heal                                    *)

LEMMA CheckStep ==
  ASSUME IHealInv,
         \/ \E req \in Requests : TickStart(req)
         \/ CheckList \/ (\E deep \in BOOLEAN : CheckFile(deep)) \/ CheckError
  PROVE  IHealInv'
<1> USE SelfHealingAssumption DEF data, tick, bounds
<1>1. /\ TypeOK /\ Vouched(saved.lineage) /\ Vouched(mem.lineage)
      /\ mem \in State /\ saved \in State /\ row \in Row \cup {None} /\ rec \in Row \cup {None}
      /\ None \in Content /\ mem.entry \in Entry \cup {None}
      /\ cand # None => pc \in {"swap", "list"}
      /\ Vouched(None)
  BY VouchedIs, StateParts DEF IHealInv, HealInv, Control, TypeOK, Content, Vouched
<1>2. CASE \E req \in Requests : TickStart(req)
  <2>1. /\ UNCHANGED <<row, hosts, accepted, saved>> /\ mem' = saved /\ cand' = None
        /\ pc' \in {"check", "heal"}
    BY <1>2 DEF TickStart
  <2>2. /\ UNCHANGED <<file, stat, sets, suspect, passed, damage, losses, mishaps>>
        /\ wanted' \in Requests /\ ranCheck' = FALSE /\ rec' = None
    BY <1>2 DEF TickStart
  <2>3. TypeOK'
    BY <1>1, <2>1, <2>2 DEF TypeOK
  <2> QED
    BY <1>1, <2>1, <2>3, Together
<1>3. CASE CheckList
  <2>1. /\ UNCHANGED <<row, hosts, accepted, saved, cand>> /\ rec' = row /\ cand = None
        /\ pc' = "inspect"
    BY <1>1, <1>3 DEF CheckList
  <2>2. /\ mem' \in State /\ Vouched(mem'.lineage)
        /\ row # None => mem'.entry # None
    <3>1. CASE row = None
      <4>1. mem' = [mem EXCEPT !.entry = None, !.lineage = None, !.needs = FALSE]
        BY <1>3, <3>1 DEF CheckList
      <4>2. mem' \in State /\ mem'.lineage = None
        BY <1>1, <4>1 DEF State
      <4> QED
        BY <1>1, <3>1, <4>2
    <3>2. CASE row # None
      <4>1. mem' = [mem EXCEPT !.entry = EntryOf(mem, row), !.lineage = LineageOf(mem, row)]
        BY <1>3, <3>2 DEF CheckList
      <4>2. EntryOf(mem, row) \in Entry /\ EntryOf(mem, row) # None
        BY <1>1, <3>2, EntryOfIs
      <4>3. LineageOf(mem, row) \in Lineage /\ Vouched(LineageOf(mem, row))
        BY <3>2, LineageVouched
      <4>4. /\ mem' \in State /\ mem'.lineage = LineageOf(mem, row)
            /\ mem'.entry = EntryOf(mem, row)
        BY <1>1, <4>1, <4>2, <4>3 DEF State
      <4> QED
        BY <4>2, <4>3, <4>4
    <3> QED
      BY <3>1, <3>2
  <2>3. TypeOK'
    BY <1>1, <1>3, <2>2 DEF CheckList, TypeOK
  <2> QED
    BY <1>1, <2>1, <2>2, <2>3, Together
<1>4. CASE \E deep \in BOOLEAN : CheckFile(deep)
  <2>1. /\ UNCHANGED <<row, hosts, accepted, saved, cand>> /\ cand = None /\ pc' = "heal"
        /\ suspect' \in BOOLEAN /\ ranCheck' = TRUE
    BY <1>1, <1>4, FlaggedIs DEF CheckFile
  <2>2. PICK deep \in BOOLEAN : CheckFile(deep)
    BY <1>4
  <2> DEFINE seen == IF Triaged(mem.entry, deep) THEN mem.entry ELSE Seen(mem.entry, Verdict(rec))
             new == IF rec = None THEN None
                    ELSE [seen EXCEPT !.lost = seen.lost /\ seen.status = "missing"]
  <2>3. rec # None => mem.entry \in Entry
    BY <1>1, <2>2 DEF CheckFile, IHealInv, Control
  <2>4. rec # None => seen \in Entry
    BY <1>1, <2>3, VerdictIs, SeenIs
  <2>5. new \in Entry \cup {None}
    <3>1. rec # None => (seen.lost /\ seen.status = "missing") \in BOOLEAN
      OBVIOUS
    <3> HIDE DEF seen
    <3> QED
      BY <2>4, <3>1, EntryParts
  <2>6. mem' = [mem EXCEPT !.due = FALSE, !.entry = new]
    BY <2>2 DEF CheckFile
  <2>7. mem' \in State /\ mem'.lineage = mem.lineage
    <3> HIDE DEF new
    <3> QED
      BY <1>1, <2>5, <2>6 DEF State
  <2>8. UNCHANGED <<file, stat, sets, wanted, rec, passed, damage, losses, mishaps>>
    BY <2>2 DEF CheckFile
  <2>9. TypeOK'
    <3> HIDE DEF new, seen
    <3> QED
      BY <1>1, <2>1, <2>7, <2>8 DEF TypeOK
  <2> QED
    BY <1>1, <2>1, <2>7, <2>9, Together
<1>5. CASE CheckError
  <2>1. /\ UNCHANGED <<row, hosts, accepted, saved, cand>> /\ cand = None /\ pc' = "heal"
    BY <1>1, <1>5 DEF CheckError
  <2>2. mem.entry \in Entry
    BY <1>1, <1>5 DEF CheckError, IHealInv, Control
  <2> DEFINE new == [mem.entry EXCEPT !.status = "error", !.lost = FALSE]
  <2>3. mem' \in State /\ mem'.lineage = mem.lineage
    <3>1. new \in Entry
      BY <2>2 DEF Entry, Statuses
    <3>2. mem' = [mem EXCEPT !.due = FALSE, !.entry = new]
      BY <1>5 DEF CheckError
    <3> HIDE DEF new
    <3> QED
      BY <1>1, <3>1, <3>2 DEF State
  <2>4. /\ UNCHANGED <<file, stat, sets, saved, wanted, rec, passed, damage, losses>>
        /\ suspect' = FALSE /\ ranCheck' = TRUE /\ mishaps' \in 0..MaxMishaps
    BY <1>1, <1>5 DEF CheckError, Mishap, TypeOK
  <2> HIDE DEF new
  <2>5. /\ file' \in Content /\ stat' \in Content /\ row' \in Row \cup {None}
        /\ sets' \in Seq(BackupSet) /\ Len(sets') <= Keep
        /\ rec' \in Row \cup {None} /\ passed' \in {"no", "down", "up"}
    BY <1>1, <2>1, <2>4 DEF TypeOK
  <2>6. /\ hosts' \in 0..MaxHosts /\ damage' \in 0..MaxDamage /\ losses' \in 0..MaxLoss
        /\ accepted' \subseteq Versions /\ wanted' \subseteq {"check", "heal", "backup"}
    BY <1>1, <2>1, <2>4 DEF TypeOK
  <2>7. TypeOK'
    <3>1. saved' \in State /\ cand' = None /\ suspect' \in BOOLEAN /\ ranCheck' \in BOOLEAN
      BY <1>1, <2>1, <2>4
    <3> QED
      BY <2>1, <2>3, <2>4, <2>5, <2>6, <3>1 DEF TypeOK
  <2> QED
    BY <1>1, <2>1, <2>3, <2>7, Together
<1> QED
  BY <1>2, <1>3, <1>4, <1>5

-----------------------------------------------------------------------------
(* The heal                                                                *)

LEMMA HealEndsIs ==
  ASSUME TypeOK, NEW entry \in Entry \cup {None}, NEW lineage \in Lineage \cup {None},
         NEW needs \in BOOLEAN, HealEnds(entry, lineage, needs)
  PROVE  /\ mem' \in State /\ mem'.lineage = lineage
         /\ suspect' \in BOOLEAN /\ pc' = "backup" /\ cand' = None
<1> DEFINE new == IF entry = None THEN None ELSE [entry EXCEPT !.tried = TRUE]
<1>1. new \in Entry \cup {None}
  BY EntryParts
<1>2. mem' = [mem EXCEPT !.lineage = lineage, !.needs = needs, !.entry = new]
  BY DEF HealEnds
<1>3. mem' \in State /\ mem'.lineage = lineage
  <2> HIDE DEF new
  <2> QED
    BY <1>1, <1>2 DEF TypeOK, State
<1> QED
  BY <1>3, FlaggedIs DEF HealEnds

\* A heal that leaves the database as it is.
LEMMA HealKeeps ==
  ASSUME IHealInv, pc = "heal",
         UNCHANGED <<file, stat, row, sets, saved, wanted, ranCheck, rec, passed, hosts, damage, losses>>,
         UNCHANGED accepted, mishaps' \in 0..MaxMishaps,
         mem' \in State, Vouched(mem'.lineage), suspect' \in BOOLEAN, pc' = "backup", cand' = None
  PROVE  IHealInv'
<1>1. TypeOK'
  BY DEF IHealInv, HealInv, TypeOK
<1>2. Vouched(saved'.lineage)
  BY VouchedIs DEF IHealInv, HealInv, Control
<1> QED
  BY <1>1, <1>2, Together

LEMMA HealEndsKeeps ==
  ASSUME IHealInv, pc = "heal",
         UNCHANGED <<file, stat, row, sets, saved, wanted, ranCheck, rec, passed, hosts, damage, losses>>,
         UNCHANGED accepted, mishaps' \in 0..MaxMishaps,
         NEW entry \in Entry, NEW lineage \in Lineage \cup {None}, Vouched(lineage),
         HealEnds(entry, lineage, mem.needs)
  PROVE  IHealInv'
<1>1. TypeOK /\ mem.needs \in BOOLEAN
  BY StateParts DEF IHealInv, HealInv, TypeOK
<1>2. mem' \in State /\ mem'.lineage = lineage /\ suspect' \in BOOLEAN /\ pc' = "backup" /\ cand' = None
  BY <1>1, HealEndsIs
<1>3. Vouched(mem'.lineage)
  BY <1>2
<1> QED
  BY <1>2, <1>3, HealKeeps

\* A heal that gives the row another checksum and knows why.
LEMMA HealRelists ==
  ASSUME IHealInv, row \in Row, row # None, NEW c \in Sha, row' = [row EXCEPT !.sha = c],
         UNCHANGED <<file, stat, sets, saved, wanted, ranCheck, rec, passed, hosts, damage, losses>>,
         mishaps' \in 0..MaxMishaps, accepted' = accepted \cup {c.v},
         mem' \in State, mem'.lineage.at = row.at,
         \A sha \in mem'.lineage.shas : sha.v \in accepted',
         suspect' \in BOOLEAN, pc' = "backup", cand' = None
  PROVE  IHealInv'
<1>1. row' \in Row /\ row'.at = row.at /\ row'.sha = c /\ c.v \in Versions
  BY RowParts DEF Sha
<1>2. TypeOK'
  BY <1>1 DEF IHealInv, HealInv, TypeOK
<1>3. Bound(saved)' /\ LineageSound(saved)'
  BY <1>1 DEF IHealInv, HealInv, Control, Bound, LineageSound
<1>4. Bound(mem)' /\ LineageSound(mem)' /\ row'.at <= hosts'
  BY <1>1 DEF IHealInv, Control, Bound, LineageSound
<1>5. row'.sha.v \in accepted' /\ ExactIsAccepted' /\ Control'
  BY <1>1, <1>3, <1>4 DEF ExactIsAccepted, Control
<1> QED
  BY <1>2, <1>3, <1>4, <1>5 DEF IHealInv, HealInv

LEMMA RestorableIs ==
  ASSUME TypeOK, NEW failing
  PROVE  /\ Exact(failing) \subseteq 1..Len(sets) /\ Rollbacks(failing) \subseteq 1..Len(sets)
         /\ Len(sets) \in Nat
         /\ \A i \in Exact(failing) : sets[i] \in BackupSet /\ IsExact(sets[i], Lin)
         /\ \A i \in Rollbacks(failing) : sets[i] \in BackupSet
<1>1. sets \in Seq(BackupSet)
  BY DEF TypeOK
<1>2. DOMAIN sets = 1..Len(sets) /\ Len(sets) \in Nat /\ \A i \in DOMAIN sets : sets[i] \in BackupSet
  BY <1>1, SeqIs
<1> QED
  BY <1>2 DEF Restorable, Exact, Rollbacks

\* The database is as it was whatever was tried; a trial that failed counts.
LEMMA TrialIs ==
  ASSUME TypeOK, NEW failing, Trial(failing)
  PROVE  Rechecking /\ mishaps' \in 0..MaxMishaps
  BY SelfHealingAssumption DEF Trial, TypeOK

\* A nonempty set of numbers up to n has a greatest.
LEMMA GreatestIs ==
  ASSUME NEW n \in Nat, NEW S \in SUBSET (0..n), S # {}
  PROVE  \E m \in S : \A y \in S : y <= m
<1> DEFINE R == {p \in Nat \X Nat : p[1] < p[2]}
           T == {n - z : z \in S}
<1>1. PICK x \in T : \A z \in T : <<z, x>> \notin R
  <2>1. T \in SUBSET Nat /\ T # {}
    <3>1. PICK y \in S : n - y \in T
      OBVIOUS
    <3>2. \A z \in S : n - z \in Nat
      OBVIOUS
    <3> QED
      BY <3>1, <3>2
  <2>2. IsWellFoundedOn(R, Nat)
    BY NatLessThanWellFounded DEF OpToRel
  <2> HIDE DEF R, T
  <2> QED
    BY <2>1, <2>2, WFMin
<1>2. PICK m \in S : x = n - m
  OBVIOUS
<1>3. ASSUME NEW y \in S PROVE y <= m
  <2>1. n - y \in T /\ n - y \in Nat /\ n - m \in Nat
    OBVIOUS
  <2>2. ~(n - y < n - m)
    BY <2>1, <1>1, <1>2
  <2> QED
    BY <2>2
<1> QED
  BY <1>3

LEMMA NewestIs ==
  ASSUME NEW n \in Nat, NEW S, S \subseteq 1..n, S # {}
  PROVE  Newest(S) \in S
<1>1. S \in SUBSET (0..n)
  OBVIOUS
<1>2. \E m \in S : \A j \in S : j <= m
  BY <1>1, GreatestIs
<1> QED
  BY <1>2 DEF Newest

LEMMA HealStep == ASSUME IHealInv, Heal PROVE IHealInv'
<1> USE SelfHealingAssumption DEF data, tick, bounds
<1>1. /\ TypeOK /\ Vouched(saved.lineage) /\ Vouched(mem.lineage) /\ Vouched(None)
      /\ mem \in State /\ row \in Row \cup {None} /\ mishaps \in 0..MaxMishaps
      /\ mem.entry \in Entry \cup {None} /\ mem.lineage \in Lineage \cup {None}
      /\ mem.needs \in BOOLEAN
      /\ cand # None => pc \in {"swap", "list"}
  BY VouchedIs, StateParts DEF IHealInv, HealInv, Control, TypeOK, Vouched
<1>2. Flagged(mem) => mem.entry \in Entry
  BY <1>1 DEF Flagged
<1>3. ASSUME Rechecking
      PROVE  /\ pc = "heal" /\ row \in Row /\ row # None /\ row.at = mem.entry.at
             /\ mem.entry \in Entry
             /\ Reseen \in Entry /\ (Reseen.status = "drifted" => file \in Sha)
             /\ Lin \in Lineage /\ Vouched(Lin) /\ Lin.at = row.at
             /\ \A sha \in Lin.shas : sha.v \in accepted
  <2>1. /\ pc = "heal" /\ row \in Row /\ row # None /\ row.at = mem.entry.at /\ mem.entry \in Entry
    BY <1>1, <1>2, <1>3 DEF Rechecking
  <2>2. Reseen \in Entry /\ Reseen.status = Verdict(row)
    BY <1>1, <2>1, SeenIs, VerdictIs DEF Reseen
  <2> QED
    BY <1>1, <2>1, <2>2, VerdictIs, LineageVouched, LineageIs DEF Lin
<1>4. CASE HealSkip
  <2>1. mem' \in State /\ mem'.lineage = mem.lineage
    <3>1. CASE mem' = mem
      BY <1>1, <3>1
    <3>2. CASE /\ Flagged(mem)
               /\ mem' = [mem EXCEPT !.entry = [@ EXCEPT !.tried = FALSE]]
      <4> DEFINE new == [mem.entry EXCEPT !.tried = FALSE]
      <4>1. new \in Entry /\ mem' = [mem EXCEPT !.entry = new]
        BY <1>2, <3>2, EntryParts
      <4> HIDE DEF new
      <4> QED
        BY <1>1, <4>1 DEF State
    <3> QED
      BY <1>4, <3>1, <3>2 DEF HealSkip
  <2>2. /\ UNCHANGED <<file, stat, row, sets, saved, wanted, ranCheck, rec, passed, hosts, damage, losses>>
        /\ UNCHANGED <<accepted, mishaps, cand>> /\ pc = "heal" /\ pc' = "backup"
        /\ suspect' \in BOOLEAN
    BY <1>1, <1>4, FlaggedIs DEF HealSkip, TypeOK
  <2> QED
    BY <1>1, <2>1, <2>2, HealKeeps
<1>5. CASE HealGone
  <2>1. mem' = [mem EXCEPT !.entry = None, !.lineage = None]
    BY <1>5 DEF HealGone
  <2>2. mem' \in State /\ mem'.lineage = None
    BY <1>1, <2>1 DEF State
  <2>3. /\ UNCHANGED <<file, stat, row, sets, saved, wanted, ranCheck, rec, passed, hosts, damage, losses>>
        /\ UNCHANGED <<accepted, mishaps, cand>> /\ pc = "heal" /\ pc' = "backup" /\ suspect' = FALSE
    BY <1>5 DEF HealGone
  <2> QED
    BY <1>1, <2>2, <2>3, HealKeeps
<1>6. CASE HealSuperseded
  <2>1. /\ UNCHANGED <<file, stat, row, sets, saved, wanted, ranCheck, rec, passed, hosts, damage, losses>>
        /\ UNCHANGED <<accepted, mishaps>> /\ pc = "heal"
        /\ HealEnds(mem.entry, mem.lineage, mem.needs)
    BY <1>6 DEF HealSuperseded
  <2> QED
    BY <1>1, <2>1, HealEndsIs, HealKeeps
<1>7. CASE HealFailed
  <2>1. /\ UNCHANGED <<file, stat, row, sets, saved, wanted, ranCheck, rec, passed, hosts, damage, losses>>
        /\ UNCHANGED accepted /\ mishaps' \in 0..MaxMishaps /\ pc = "heal"
    BY <1>1, <1>7 DEF HealFailed, Mishap
  <2>2. mem.entry \in Entry
    BY <1>2, <1>7 DEF HealFailed
  <2>3. CASE HealEnds(mem.entry, mem.lineage, mem.needs)
    BY <1>1, <2>1, <2>2, <2>3, HealEndsKeeps
  <2>4. CASE Rechecking /\ \E entry \in {mem.entry, Reseen} :
               HealEnds([entry EXCEPT !.status = "error"], mem.lineage, mem.needs)
    <3>1. PICK entry \in {mem.entry, Reseen} :
                 HealEnds([entry EXCEPT !.status = "error"], mem.lineage, mem.needs)
      BY <2>4
    <3> DEFINE new == [entry EXCEPT !.status = "error"]
    <3>2. new \in Entry
      BY <1>3, <2>4, EntryParts DEF Statuses
    <3>3. HealEnds(new, mem.lineage, mem.needs)
      BY <3>1
    <3> HIDE DEF new
    <3> QED
      BY <1>1, <2>1, <3>2, <3>3, HealEndsKeeps
  <2>5. CASE Rechecking /\ HealEnds(Reseen, Lin, mem.needs)
    BY <1>3, <2>1, <2>5, HealEndsKeeps
  <2> QED
    BY <1>7, <2>3, <2>4, <2>5 DEF HealFailed
<1>14. CASE \E failing \in SUBSET (DOMAIN sets) : HealUnrecoverable(failing) \/ HealLost(failing)
  <2> PICK failing \in SUBSET (DOMAIN sets) : HealUnrecoverable(failing) \/ HealLost(failing)
    BY <1>14
  <2>1. Trial(failing)
    BY DEF HealUnrecoverable, HealLost
  <2>2. Rechecking /\ mishaps' \in 0..MaxMishaps
    BY <1>1, <2>1, TrialIs
  <2>3. /\ UNCHANGED <<file, stat, row, sets, saved, wanted, ranCheck, rec, passed, hosts, damage, losses>>
        /\ UNCHANGED accepted
        /\ HealEnds(Reseen, Lin, mem.needs) \/ HealEnds([Reseen EXCEPT !.lost = TRUE], Lin, mem.needs)
    BY DEF HealUnrecoverable, HealLost
  <2>4. [Reseen EXCEPT !.lost = TRUE] \in Entry
    BY <1>3, <2>2, EntryParts
  <2> QED
    BY <1>3, <2>2, <2>3, <2>4, HealEndsKeeps
<1>8. CASE HealNothing
  <2>1. /\ UNCHANGED <<file, stat, row, sets, saved, wanted, ranCheck, rec, passed, hosts, damage, losses>>
        /\ UNCHANGED <<accepted, mishaps>> /\ Rechecking /\ HealEnds(Reseen, mem.lineage, mem.needs)
    BY <1>8 DEF HealNothing
  <2> QED
    BY <1>1, <1>3, <2>1, HealEndsIs, HealKeeps
<1>9. CASE \E failing \in SUBSET (DOMAIN sets) : HealAdopt(failing)
  <2> PICK failing \in SUBSET (DOMAIN sets) : HealAdopt(failing)
    BY <1>9
  <2> DEFINE entry == [Reseen EXCEPT !.status = "healthy", !.lost = FALSE]
             lineage == [at |-> row.at, shas |-> {file}]
  <2>1. Rechecking /\ file \in Sha /\ mishaps' \in 0..MaxMishaps
    BY <1>1, <1>3, TrialIs DEF HealAdopt
  <2>2. entry \in Entry /\ lineage \in Lineage
    <3>1. Reseen \in Entry /\ row.at \in Versions
      BY <1>3, <2>1, RowParts
    <3>2. entry \in Entry
      BY <3>1 DEF Entry, Statuses
    <3> QED
      BY <2>1, <3>1, <3>2 DEF Lineage
  <2>3. /\ UNCHANGED <<file, stat, sets, saved, wanted, ranCheck, rec, passed, hosts, damage, losses>>
        /\ accepted' = accepted \cup {file.v} /\ row' = [row EXCEPT !.sha = file]
        /\ HealEnds(entry, lineage, TRUE)
    BY DEF HealAdopt
  <2>4. /\ mem' \in State /\ mem'.lineage = lineage
        /\ suspect' \in BOOLEAN /\ pc' = "backup" /\ cand' = None
    <3> HIDE DEF entry, lineage
    <3> QED
      BY <1>1, <2>2, <2>3, HealEndsIs
  <2>5. mem'.lineage.at = row.at /\ \A sha \in mem'.lineage.shas : sha.v \in accepted'
    BY <2>3, <2>4
  <2> HIDE DEF entry, lineage
  <2> QED
    BY <1>3, <2>1, <2>3, <2>4, <2>5, HealRelists
<1>10. CASE \E failing \in SUBSET (DOMAIN sets) : HealDrop(failing)
  <2> PICK failing \in SUBSET (DOMAIN sets) : HealDrop(failing)
    BY <1>10
  <2>1. /\ UNCHANGED <<file, stat, sets, saved, wanted, ranCheck, rec, passed, hosts, damage, losses>>
        /\ UNCHANGED accepted /\ mishaps' \in 0..MaxMishaps /\ row' = None
        /\ HealEnds(None, None, mem.needs)
    BY <1>1, TrialIs DEF HealDrop
  <2>2. /\ mem' \in State /\ mem'.lineage = None
        /\ suspect' \in BOOLEAN /\ pc' = "backup" /\ cand' = None
    BY <1>1, <2>1, HealEndsIs
  <2>3. TypeOK'
    BY <1>1, <2>1, <2>2 DEF TypeOK
  <2> QED
    BY <2>1, <2>2, <2>3 DEF IHealInv, HealInv, Control, Bound, LineageSound, ExactIsAccepted
<1>11. CASE \E failing \in SUBSET (DOMAIN sets) : HealStage(failing)
  <2> PICK failing \in SUBSET (DOMAIN sets) : HealStage(failing)
    BY <1>11
  <2>1. /\ UNCHANGED <<file, stat, row, sets, suspect, saved, wanted, ranCheck, rec, passed, hosts>>
        /\ UNCHANGED <<damage, losses, accepted>> /\ mishaps' \in 0..MaxMishaps
        /\ Rechecking /\ pc' = "swap"
        /\ mem' = [mem EXCEPT !.entry = Reseen, !.lineage = Lin]
    BY <1>1, TrialIs DEF HealStage
  <2>2. mem' \in State /\ mem'.lineage = Lin /\ mem'.entry = Reseen
    BY <1>1, <1>3, <2>1 DEF State
  <2> DEFINE exact == Exact(failing) # {}
             i == Newest(IF exact THEN Exact(failing) ELSE Rollbacks(failing))
             kind == IF ~exact THEN "rollback"
                     ELSE IF InLineage(sets[i], Lin) THEN "matched" ELSE "dated"
  <2>3. cand' = [kind |-> kind, sha |-> Copy(sets[i].sha)] /\ Candidates(failing) # {}
    BY DEF HealStage
  <2>4. sets[i] \in BackupSet
    <3>1. CASE exact
      BY <1>1, <3>1, RestorableIs, NewestIs
    <3>2. CASE ~exact
      <4>1. Rollbacks(failing) # {}
        BY <2>3, <3>2 DEF Candidates
      <4> QED
        BY <1>1, <3>2, <4>1, RestorableIs, NewestIs
    <3> QED
      BY <3>1, <3>2
  <2>5. cand' \in Candidate /\ (cand'.kind = "matched" => cand'.sha.v \in accepted)
    <3> HIDE DEF i
    <3>1. sets[i].sha \in Sha
      BY <2>4 DEF BackupSet
    <3>2. InLineage(sets[i], Lin) => sets[i].sha.v \in accepted
      BY <1>3, <2>1, <3>1, CopyIs DEF InLineage
    <3>3. kind \in {"matched", "dated", "rollback"} /\ (kind = "matched" => InLineage(sets[i], Lin))
      OBVIOUS
    <3> HIDE DEF kind
    <3> QED
      BY <2>3, <3>1, <3>2, <3>3, CopyIs DEF Candidate
  <2> HIDE DEF exact, i, kind
  <2>6. TypeOK'
    BY <1>1, <2>1, <2>2, <2>5 DEF TypeOK, Candidate
  <2>7. LineageSound(mem)' /\ Bound(mem)'
    BY <1>3, <2>1, <2>2 DEF LineageSound, Bound, Vouched
  <2> QED
    BY <1>3, <2>1, <2>2, <2>5, <2>6, <2>7 DEF IHealInv, HealInv, Control, Bound, LineageSound,
       ExactIsAccepted
<1>12. CASE HealSwap
  <2>1. cand.sha \in Sha /\ cand \in Candidate
    BY <1>12 DEF HealSwap, IHealInv, Control, Candidate
  <2>2. TypeOK'
    BY <1>1, <1>12, <2>1 DEF HealSwap, TypeOK, Content
  <2> QED
    BY <1>12, <2>1, <2>2 DEF HealSwap, IHealInv, HealInv, Control, Bound, LineageSound, ExactIsAccepted
<1>13. CASE HealList
  <2> DEFINE entry == [mem.entry EXCEPT !.status = "healthy", !.stat = stat, !.lost = FALSE]
             lineage == [at |-> row.at,
                         shas |-> {cand.sha} \cup (IF cand.kind # "rollback" THEN Lin.shas ELSE {})]
  <2>1. /\ cand.sha \in Sha /\ row \in Row /\ row # None /\ mem.entry \in Entry
    BY <1>1, <1>13 DEF HealList, IHealInv, Control, Candidate
  <2>2. Lin \in Lineage /\ \A sha \in Lin.shas : sha.v \in accepted
    BY <2>1, LineageIs DEF Lin
  <2>3. entry \in Entry
    BY <1>1, <2>1 DEF Entry, Statuses, TypeOK
  <2>4. lineage \in Lineage
    BY <2>1, <2>2, RowParts DEF Lineage
  <2>5. /\ UNCHANGED <<file, stat, sets, saved, wanted, ranCheck, rec, passed, hosts, damage, losses>>
        /\ mishaps' \in 0..MaxMishaps /\ accepted' = accepted \cup {cand.sha.v}
        /\ row' = [row EXCEPT !.sha = cand.sha] /\ HealEnds(entry, lineage, mem.needs)
    BY <1>1, <1>13 DEF HealList
  <2>6. /\ mem' \in State /\ mem'.lineage = lineage
        /\ suspect' \in BOOLEAN /\ pc' = "backup" /\ cand' = None
    <3> HIDE DEF entry, lineage
    <3> QED
      BY <1>1, <2>3, <2>4, <2>5, HealEndsIs
  <2>7. mem'.lineage.at = row.at /\ \A sha \in mem'.lineage.shas : sha.v \in accepted'
    BY <2>2, <2>5, <2>6
  <2> HIDE DEF entry, lineage
  <2> QED
    BY <2>1, <2>5, <2>6, <2>7, HealRelists
<1> QED
  BY <1>4, <1>5, <1>6, <1>7, <1>8, <1>9, <1>10, <1>11, <1>12, <1>13, <1>14 DEF Heal

-----------------------------------------------------------------------------
(* The rest of the tick, and everybody else                                *)

LEMMA TailStep ==
  ASSUME IHealInv, BackupSkip \/ BackupTask \/ BackupTaskFails \/ Save \/ Crash \/ CheckDue
  PROVE  IHealInv'
<1> USE SelfHealingAssumption DEF data, tick, bounds
<1>1. /\ TypeOK /\ Vouched(saved.lineage) /\ Vouched(mem.lineage) /\ Vouched(None)
      /\ mem \in State /\ saved \in State /\ mishaps \in 0..MaxMishaps
      /\ mem.entry \in Entry \cup {None} /\ mem.lineage \in Lineage \cup {None}
      /\ mem.needs \in BOOLEAN
      /\ cand # None => pc \in {"swap", "list"}
  BY VouchedIs, StateParts DEF IHealInv, HealInv, Control, TypeOK, Vouched
<1>2. LineageRead \in Lineage \cup {None} /\ Vouched(LineageRead)
  BY <1>1, LineageVouched DEF LineageRead, BackupDue
<1>3. EmptyState \in State /\ EmptyState.lineage = None
  BY DEF EmptyState, State
<1>4. CASE BackupSkip
  <2> DEFINE needs == mem.needs /\ (BackupRuns => mem.entry # None)
  <2>1. mem' = [mem EXCEPT !.lineage = LineageRead, !.needs = needs]
    BY <1>4 DEF BackupSkip
  <2>2. needs \in BOOLEAN
    OBVIOUS
  <2>3. mem' \in State /\ mem'.lineage = LineageRead
    <3> HIDE DEF needs
    <3> QED
      BY <1>1, <1>2, <2>1, <2>2 DEF State
  <2>4. /\ UNCHANGED <<file, stat, row, sets, suspect, saved, wanted, ranCheck, rec, cand, passed>>
        /\ UNCHANGED <<hosts, damage, losses, mishaps, accepted>> /\ pc = "backup" /\ pc' = "save"
    BY <1>4 DEF BackupSkip
  <2>5. TypeOK'
    BY <1>1, <2>3, <2>4 DEF TypeOK
  <2> QED
    BY <1>1, <1>2, <2>3, <2>4, <2>5, Together
<1>5. CASE BackupTask
  <2>1. mem' = [mem EXCEPT !.lineage = LineageRead, !.needs = FALSE]
    BY <1>5 DEF BackupTask
  <2>2. mem' \in State /\ mem'.lineage = LineageRead
    BY <1>1, <1>2, <2>1 DEF State
  <2>3. /\ UNCHANGED <<row, suspect, saved, wanted, ranCheck, rec, cand, passed>>
        /\ UNCHANGED <<hosts, losses, mishaps, accepted>> /\ pc = "backup" /\ pc' = "save"
    BY <1>5 DEF BackupTask
  <2>4. /\ sets' \in Seq(BackupSet) /\ Len(sets') <= Keep
        /\ file' \in Content /\ stat' \in Content /\ damage' \in 0..MaxDamage
    BY <1>1, <1>5, BackupIs DEF BackupTask
  <2>5. TypeOK'
    BY <1>1, <2>2, <2>3, <2>4 DEF TypeOK
  <2> QED
    BY <1>1, <1>2, <2>2, <2>3, <2>5, Together
<1>6. CASE BackupTaskFails
  <2> DEFINE new == [mem.entry EXCEPT !.stat = None]
  <2>1. mem' = [mem EXCEPT !.lineage = LineageRead, !.entry = new]
    BY <1>6 DEF BackupTaskFails
  <2>2. new \in Entry
    BY <1>1, <1>6, EntryParts DEF BackupTaskFails, BackupDue, Content
  <2>3. mem' \in State /\ mem'.lineage = LineageRead
    <3> HIDE DEF new
    <3> QED
      BY <1>1, <1>2, <2>1, <2>2 DEF State
  <2>4. /\ UNCHANGED <<file, stat, row, sets, suspect, saved, wanted, ranCheck, rec, cand, passed>>
        /\ UNCHANGED <<hosts, damage, losses, mishaps, accepted>> /\ pc = "backup" /\ pc' = "save"
    BY <1>6 DEF BackupTaskFails
  <2>5. TypeOK'
    BY <1>1, <2>3, <2>4 DEF TypeOK
  <2> QED
    BY <1>1, <1>2, <2>3, <2>4, <2>5, Together
<1>7. CASE Save
  <2>1. /\ UNCHANGED <<file, stat, row, sets, cand, passed, hosts, damage, losses, mishaps, accepted>>
        /\ saved' = mem /\ mem' = EmptyState /\ pc = "save" /\ pc' = "idle" /\ wanted' = {}
        /\ ranCheck' = FALSE /\ rec' = None /\ suspect' \in BOOLEAN
    BY <1>7, FlaggedIs DEF Save
  <2>2. TypeOK'
    BY <1>1, <1>3, <2>1 DEF TypeOK
  <2> QED
    BY <1>1, <1>3, <2>1, <2>2, Together
<1>8. CASE Crash
  <2>1. /\ UNCHANGED <<file, stat, row, sets, suspect, saved, passed, hosts, damage, losses, accepted>>
        /\ mem' = EmptyState /\ pc' = "idle" /\ wanted' = {} /\ ranCheck' = FALSE /\ rec' = None
        /\ cand' = None /\ mishaps' \in 0..MaxMishaps
    BY <1>1, <1>8 DEF Crash, Mishap
  <2>2. TypeOK'
    BY <1>1, <1>3, <2>1 DEF TypeOK
  <2> QED
    BY <1>1, <1>3, <2>1, <2>2, Together
<1>9. CASE CheckDue
  <2>1. saved' = [saved EXCEPT !.due = TRUE] /\ pc = "idle"
    BY <1>9 DEF CheckDue
  <2>2. saved' \in State /\ saved'.lineage = saved.lineage
    BY <1>1, <2>1 DEF State
  <2>3. /\ UNCHANGED <<file, stat, row, sets, suspect, mem, pc, wanted, ranCheck, rec, cand, passed>>
        /\ UNCHANGED <<hosts, damage, losses, mishaps, accepted>>
    BY <1>9 DEF CheckDue
  <2>4. TypeOK'
    BY <1>1, <2>2, <2>3 DEF TypeOK
  <2> QED
    BY <1>1, <2>1, <2>2, <2>3, <2>4, Together
<1> QED
  BY <1>4, <1>5, <1>6, <1>7, <1>8, <1>9

LEMMA OtherStep ==
  ASSUME IHealInv,
         Host \/ PeriodicPasses \/ PeriodicBackup \/ DamageFile \/ DamageSet \/ SetReturns
           \/ UNCHANGED vars
  PROVE  IHealInv'
<1> USE SelfHealingAssumption DEF data, tick, bounds
<1>1. TypeOK
  BY DEF IHealInv, HealInv
\* An upload is later than every lineage there is: none speaks for it.
<1>2. CASE Host
  <2>1. /\ UNCHANGED <<sets, suspect, saved, mem, pc, wanted, ranCheck, rec, cand, passed>>
        /\ UNCHANGED <<damage, losses, mishaps>> /\ pc \notin {"swap", "list"}
        /\ hosts' = hosts + 1 /\ hosts' \in 0..MaxHosts /\ hosts \in Nat
        /\ file' = Orig(hosts') /\ stat' = Orig(hosts') /\ accepted' = {hosts'}
        /\ row' = [sha |-> Orig(hosts'), at |-> hosts']
    BY <1>1, <1>2 DEF Host, KeyLocked, TypeOK
  <2>2. Orig(hosts') \in Sha /\ Orig(hosts').v = hosts' /\ hosts' \in Versions
    BY <2>1 DEF Orig, Sha, Versions
  <2>3. row' \in Row /\ row'.at = hosts' /\ row'.sha.v = hosts'
    BY <2>1, <2>2 DEF Row
  <2>4. TypeOK'
    BY <1>1, <2>1, <2>2, <2>3 DEF TypeOK, Content
  <2>5. ASSUME NEW s \in State, Bound(s)
        PROVE  s.lineage # None => s.lineage.at <= hosts' /\ s.lineage.at # row'.at
    <3>1. s.lineage # None => s.lineage.at \in Int
      BY <2>5, StateParts DEF Lineage, Versions
    <3> QED
      BY <2>1, <2>3, <2>5, <3>1 DEF Bound
  <2>6. (Bound(saved) /\ LineageSound(saved))' /\ (Bound(mem) /\ LineageSound(mem))'
    BY <1>1, <2>1, <2>5 DEF TypeOK, IHealInv, Control, Bound, LineageSound
  <2>7. cand = None /\ row'.at <= hosts' /\ row'.sha.v \in accepted'
    BY <2>1, <2>3 DEF IHealInv, Control
  <2> QED
    BY <2>1, <2>4, <2>6, <2>7 DEF IHealInv, HealInv, Control, ExactIsAccepted
<1>3. CASE \/ PeriodicPasses \/ PeriodicBackup \/ DamageFile \/ DamageSet \/ SetReturns
           \/ UNCHANGED vars
  <2>1. UNCHANGED <<row, saved, mem, pc, rec, cand, hosts, accepted>>
    BY <1>3 DEF PeriodicPasses, PeriodicBackup, DamageFile, DamageSet, SetReturns, vars
  <2>2. TypeOK'
    <3>1. CASE PeriodicPasses \/ UNCHANGED vars
      <4>1. /\ UNCHANGED <<file, stat, sets, suspect, wanted, ranCheck, damage, losses, mishaps>>
            /\ passed' \in {"no", "down", "up"}
        BY <1>1, <3>1 DEF PeriodicPasses, vars, TypeOK
      <4> QED
        BY <1>1, <2>1, <4>1 DEF TypeOK
    <3>2. CASE PeriodicBackup
      <4>1. /\ sets' \in Seq(BackupSet) /\ Len(sets') <= Keep
            /\ file' \in Content /\ stat' \in Content /\ damage' \in 0..MaxDamage
        BY <1>1, <3>2, BackupIs DEF PeriodicBackup, TypeOK
      <4> QED
        BY <1>1, <3>2, <4>1 DEF PeriodicBackup, TypeOK
    <3>3. CASE DamageFile
      <4>1. Orig(0) \in Sha
        BY DEF Orig, Sha, Versions
      <4>2. file' \in Content /\ stat' \in Content /\ damage' \in 0..MaxDamage
        BY <1>1, <3>3, <4>1 DEF DamageFile, Content, TypeOK
      <4> QED
        BY <1>1, <3>3, <4>2 DEF DamageFile, TypeOK
    <3>4. CASE DamageSet \/ SetReturns
      <4>1. sets' \in Seq(BackupSet) /\ Len(sets') <= Keep
        <5> DEFINE S == BackupSet
        <5>1. sets \in Seq(S) /\ Len(sets) <= Keep
          BY <1>1 DEF TypeOK
        <5>2. PICK i \in DOMAIN sets, g \in BOOLEAN :
                sets' = [sets EXCEPT ![i] = [@ EXCEPT !.good = g]]
          BY <3>4 DEF DamageSet, SetReturns
        <5>3. [sets[i] EXCEPT !.good = g] \in S
          <6>1. sets[i] \in S
            BY <5>1, SeqIs
          <6> QED
            BY <6>1 DEF BackupSet
        <5> HIDE DEF S
        <5> QED
          BY <5>1, <5>2, <5>3, SeqIs DEF S
      <4> QED
        BY <1>1, <3>4, <4>1 DEF DamageSet, SetReturns, TypeOK
    <3> QED
      BY <1>3, <3>1, <3>2, <3>3, <3>4
  <2> QED
    BY <2>1, <2>2 DEF IHealInv, HealInv, Control, Bound, LineageSound, ExactIsAccepted
<1> QED
  BY <1>2, <1>3

\* autopilot.py:29 "restore the newest backup set that is an exact copy of the hosted
\* content": whatever was re-hosted, adopted, rolled back, forgotten in a crash or failed
\* before, the checksums a heal goes by are of content uploaded or accepted since, and so
\* is the set it restores because of one. Not of the sets autopilot.py:1716 calls exact by
\* their date alone: one of a file that was written to during its backup may hold content
\* nobody accepted (ExactIsHosted does not hold).
THEOREM HealInvariance == Spec => []HealInv
<1>1. IHealInv /\ [Next]_vars => IHealInv'
  BY CheckStep, HealStep, TailStep, OtherStep DEF Next, Autopilot, Others
<1>2. IHealInv => HealInv
  BY DEF IHealInv
<1> QED
  BY InitHeal, <1>1, <1>2, PTL DEF Spec

-----------------------------------------------------------------------------
(* The flag                                                                *)

\* A backup passes the flag only while it is down.
PassedDown == passed \in {"no", "down"}

\* Only backups and the loss of a set change the sets.
LEMMA SetsStay ==
  ASSUME [Next]_vars, ~BackupTask, ~PeriodicBackup, ~DamageSet, ~SetReturns
  PROVE  sets' = sets
<1> USE DEF data
<1>1. CASE Heal
  BY <1>1 DEF Heal, HealSkip, HealGone, HealSuperseded, HealFailed, HealNothing,
     HealUnrecoverable, HealAdopt, HealLost, HealDrop, HealStage, HealSwap, HealList
<1>2. CASE Autopilot /\ ~Heal
  BY <1>2 DEF Autopilot, TickStart, CheckList, CheckFile, CheckError, BackupSkip, BackupTaskFails,
     Save, Crash
<1>3. CASE Others \/ UNCHANGED vars
  BY <1>3 DEF Others, CheckDue, Host, PeriodicPasses, DamageFile, vars
<1> QED
  BY <1>1, <1>2, <1>3 DEF Next

LEMMA FlagPassed == PassedDown /\ [Next]_vars => PassedDown'
<1> SUFFICES ASSUME PassedDown, [Next]_vars PROVE PassedDown'
  OBVIOUS
<1>1. CASE Heal
  BY <1>1 DEF PassedDown, Heal, HealSkip, HealGone, HealSuperseded, HealFailed, HealNothing,
     HealUnrecoverable, HealAdopt, HealLost, HealDrop, HealStage, HealSwap, HealList
<1>2. CASE Autopilot /\ ~Heal
  BY <1>2 DEF PassedDown, Autopilot, TickStart, CheckList, CheckFile, CheckError, BackupSkip,
     BackupTask, BackupTaskFails, Save, Crash
<1>3. CASE Others \/ UNCHANGED vars
  BY <1>3 DEF PassedDown, Others, CheckDue, Host, PeriodicPasses, PeriodicBackup, DamageFile,
     DamageSet, SetReturns, vars
<1> QED
  BY <1>1, <1>2, <1>3 DEF Next

\* "Damaged keys are flagged suspect so no backup of them can rotate the last good sets
\* out" (autopilot.py:27), of backups that ask while the flag is up: whichever of the
\* autopilot's and the periodic backups comes to its turn, the good set of what was
\* uploaded stays.
THEOREM FlagHoldsSets == Spec => FlagStopsRotation
<1>1. Init => PassedDown
  BY DEF Init, PassedDown
<1>2. ASSUME TypeOK, PassedDown, [Next]_vars,
             suspect, passed # "down", losses' = losses, row' = row, GoodSet
      PROVE  GoodSet'
  <2>1. ~BackupTask
    BY <1>2 DEF BackupTask
  <2>2. ~PeriodicBackup
    BY <1>2 DEF PeriodicBackup, PassedDown
  <2>3. ~DamageSet
    <3>1. losses \in Int
      BY <1>2, SelfHealingAssumption DEF TypeOK
    <3>2. DamageSet => losses' = losses + 1
      BY DEF DamageSet
    <3> QED
      BY <1>2, <3>1, <3>2
  <2>4. CASE SetReturns
    <3>1. PICK i \in DOMAIN sets : sets' = [sets EXCEPT ![i].good = TRUE]
      BY <2>4 DEF SetReturns
    <3>2. PICK k \in DOMAIN sets : sets[k].good /\ sets[k].sha.v = row.at
      BY <1>2 DEF GoodSet
    <3>3. sets[i] \in BackupSet /\ sets[k] \in BackupSet
      BY <1>2, SeqIs DEF TypeOK
    <3>4. k \in DOMAIN sets' /\ sets'[k].good /\ sets'[k].sha.v = row.at
      BY <3>1, <3>2, <3>3, SeqIs DEF BackupSet
    <3> QED
      BY <1>2, <3>4 DEF GoodSet
  <2>5. CASE ~SetReturns
    <3>1. sets' = sets
      BY <1>2, <2>1, <2>2, <2>3, <2>5, SetsStay
    <3> QED
      BY <1>2, <3>1 DEF GoodSet
  <2> QED
    BY <2>4, <2>5
<1>3. TypeOK /\ PassedDown /\ [Next]_vars
        => [suspect /\ passed # "down" /\ losses' = losses /\ row' = row /\ GoodSet => GoodSet']_vars
  BY <1>2
<1>4. HealInv => TypeOK
  BY DEF HealInv
<1> QED
  BY <1>1, <1>3, <1>4, FlagPassed, HealInvariance, PTL DEF Spec, FlagStopsRotation
=============================================================================
