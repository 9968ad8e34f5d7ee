---------------------------- MODULE SelfHealing ----------------------------
(***************************************************************************)
(* autopilot.py: the maintenance tick that checks, heals and backs up one  *)
(* hosted database, next to the re-hosts, the periodic backups and the     *)
(* damage that happen between its steps.                                   *)
(*                                                                         *)
(* A tick works on a copy of autopilot.json and writes it back as its last *)
(* step; what it does to the file, the catalog row, the backup sets and    *)
(* suspect.json is visible at once.  host(), backup_database() and         *)
(* _rotate() are single steps here, under the key lock the heal also       *)
(* takes: HostedKey.tla has their insides.                                 *)
(***************************************************************************)
EXTENDS Naturals, Sequences, FiniteSets

CONSTANTS MaxHosts,       \* bound on uploads
          MaxDamage,      \* bound on damage to the stored file
          MaxLoss,        \* bound on backup sets lost
          MaxMishaps,     \* bound on crashes and transient failures
          Keep,           \* BackupManager.keep
          AllowRollback,  \* policy.allow_rollback
          DriftAction,    \* policy.drift_action
          Requests,       \* task sets run_once may be called with; {}: the schedule decides
          None, Bad

\* Uploads are numbered and the number is the row's updated_at; 0 is content that
\* somebody wrote into the stored file. An online backup of a file has other bytes
\* than the file, so a content has two checksums: as uploaded and as copied.
Versions == 0..MaxHosts
Sha == [v : Versions, form : {"orig", "copy"}]
Orig(v) == [v |-> v, form |-> "orig"]
Copy(sha) == [sha EXCEPT !.form = "copy"]
Content == Sha \cup {None, Bad}

Problems == {"missing", "corrupt", "drifted"}
Statuses == Problems \cup {"new", "healthy", "error"}
Row == [sha : Sha, at : Versions]
\* A backup set: the content of the file it is of (its raw_sha256 is the copy's), is that
\* recorded (source_sha256), the last upload before its created_at, does it restore.
BackupSet == [sha : Sha, hashed : BOOLEAN, since : Versions, good : BOOLEAN]
Entry == [at : Versions, status : Statuses, stat : Content, lost : BOOLEAN, tried : BOOLEAN]

ASSUME SelfHealingAssumption ==
  /\ {MaxHosts, MaxDamage, MaxLoss, MaxMishaps} \subseteq Nat /\ Keep \in Nat \ {0}
  /\ AllowRollback \in BOOLEAN
  /\ DriftAction \in {"restore", "adopt", "report"}
  /\ Requests \subseteq SUBSET {"check", "heal", "backup"}
  /\ None # Bad /\ None \notin Sha \cup Row \cup Entry /\ Bad \notin Sha

VARIABLES
  file,      \* what <key>.db holds: a content, None (gone) or Bad (fails integrity)
  stat,      \* the content its size and mtime are of: silent damage leaves them
  row,       \* the catalog row [sha, at], or None
  sets,      \* the backup sets, oldest first
  suspect,   \* is the key in suspect.json
  saved,     \* autopilot.json, as far as this key goes
  mem,       \* the running tick's copy of it
  pc,        \* the running tick's next task
  wanted,    \* the tasks it was called with
  ranCheck,  \* did this tick's check run
  rec,       \* the row the check listed
  cand,      \* what the heal is installing: [kind, sha]
  passed,    \* has a periodic backup passed its suspect test without the lock: "no",
             \* or with the flag "down" or "up" (ghost) as it passed
  hosts, damage, losses, mishaps,
  accepted   \* ghost: versions uploaded, adopted or restored since the last upload

data == <<file, stat, row, sets>>
tick == <<mem, pc, wanted, ranCheck, rec, cand>>
bounds == <<hosts, damage, losses, mishaps>>
vars == <<data, suspect, saved, tick, passed, bounds, accepted>>

Lineage == [at : Versions, shas : SUBSET Sha]
State == [entry : Entry \cup {None}, lineage : Lineage \cup {None}, needs : BOOLEAN, due : BOOLEAN]

TypeOK ==
  /\ file \in Content /\ stat \in Content
  /\ row \in Row \cup {None}
  /\ sets \in Seq(BackupSet) /\ Len(sets) <= Keep
  /\ suspect \in BOOLEAN /\ ranCheck \in BOOLEAN /\ passed \in {"no", "down", "up"}
  /\ saved \in State /\ mem \in State
  /\ pc \in {"idle", "check", "inspect", "heal", "swap", "list", "backup", "save"}
  /\ wanted \subseteq {"check", "heal", "backup"}
  /\ rec \in Row \cup {None}
  /\ cand \in [kind : {"matched", "dated", "rollback"}, sha : Sha] \cup {None}
  /\ hosts \in 0..MaxHosts /\ damage \in 0..MaxDamage
  /\ losses \in 0..MaxLoss /\ mishaps \in 0..MaxMishaps
  /\ accepted \subseteq Versions

EmptyState == [entry |-> None, lineage |-> None, needs |-> FALSE, due |-> TRUE]

Init ==
  /\ file = None /\ stat = None /\ row = None /\ sets = <<>>
  /\ suspect = FALSE /\ saved = EmptyState /\ mem = EmptyState
  /\ pc = "idle" /\ wanted = {} /\ ranCheck = FALSE /\ rec = None /\ cand = None
  /\ passed = "no" /\ hosts = 0 /\ damage = 0 /\ losses = 0 /\ mishaps = 0
  /\ accepted = {}

KeyLocked == pc \in {"swap", "list"}
Mishap == mishaps < MaxMishaps /\ mishaps' = mishaps + 1

-----------------------------------------------------------------------------
(* What a tick knows                                                       *)

\* _suspect_keys.
Flagged(s) == s.entry # None /\ s.entry.status \in Problems

\* A lineage that survives a re-host.
LineageKept(s, r) ==
  IF s.lineage # None THEN s.lineage
  ELSE [at |-> r.at, shas |-> {r.sha}]

\* _lineage: the checksums known to be the hosted content; a re-host starts it anew.
LineageOf(s, r) ==
  IF s.lineage # None /\ s.lineage.at = r.at THEN s.lineage
  ELSE [at |-> r.at, shas |-> {r.sha}]

\* _entry: the cached verdict, forgotten when the row is a later upload.
EntryOf(s, r) ==
  IF s.entry # None /\ s.entry.at = r.at THEN s.entry
  ELSE [at |-> r.at, status |-> "new", stat |-> None, lost |-> FALSE, tried |-> FALSE]

\* check_database: a healthy database whose file looks untouched is not read again.
Triaged(e, deep) == file # None /\ e.stat = stat /\ e.status = "healthy" /\ ~deep
Verdict(r) ==
  CASE file = None -> "missing"
    [] file = Bad -> "corrupt"
    [] file = r.sha -> "healthy"
    [] OTHER -> "drifted"

Seen(e, status) == [e EXCEPT !.status = status, !.stat = IF file = None THEN None ELSE stat]

\* _candidates: a set counts as an exact copy of the hosted content by a checksum of the
\* lineage, or, when its source was not hashed, because it is no older than the upload.
InLineage(set, lin) == (set.hashed /\ set.sha \in lin.shas) \/ Copy(set.sha) \in lin.shas
ByDate(set, lin) == ~set.hashed /\ set.since >= lin.at
IsExact(set, lin) == InLineage(set, lin) \/ ByDate(set, lin)

-----------------------------------------------------------------------------
(* The tick                                                                *)

\* run_once, under autopilot.lock: load the state and decide whether to check.
TickStart(req) ==
  /\ pc = "idle"
  /\ mem' = saved /\ wanted' = req /\ ranCheck' = FALSE
  /\ pc' = IF "check" \in req \/ (req = {} /\ saved.due) THEN "check" ELSE "heal"
  /\ rec' = None /\ cand' = None
  /\ UNCHANGED <<data, suspect, saved, passed, bounds, accepted>>

\* _task_check lists the rows first; a key without one is forgotten.
CheckList ==
  /\ pc = "check"
  /\ rec' = row /\ pc' = "inspect"
  /\ mem' = IF row = None
            THEN [mem EXCEPT !.entry = None, !.lineage = None, !.needs = FALSE]
            ELSE [mem EXCEPT !.entry = EntryOf(mem, row), !.lineage = LineageOf(mem, row)]
  /\ UNCHANGED <<data, suspect, saved, wanted, ranCheck, cand, passed, bounds, accepted>>

\* ... then reads the file; the verdict goes to suspect.json before the heal.
CheckFile(deep) ==
  /\ pc = "inspect"
  /\ mem' = [mem EXCEPT !.due = FALSE, !.entry =
       IF rec = None THEN None
       ELSE LET e == IF Triaged(@, deep) THEN @ ELSE Seen(@, Verdict(rec))
            IN  [e EXCEPT !.lost = @ /\ e.status = "missing"]]
  /\ suspect' = Flagged(mem')
  /\ ranCheck' = TRUE /\ pc' = "heal"
  /\ UNCHANGED <<data, saved, wanted, rec, cand, passed, bounds, accepted>>

\* The file is locked, or the pool did not run the job: an `error` verdict.
CheckError ==
  /\ pc = "inspect" /\ rec # None /\ Mishap
  /\ mem' = [mem EXCEPT !.due = FALSE, !.entry = [@ EXCEPT !.status = "error", !.lost = FALSE]]
  /\ suspect' = FALSE
  /\ ranCheck' = TRUE /\ pc' = "heal"
  /\ UNCHANGED <<data, saved, wanted, rec, cand, passed, hosts, damage, losses, accepted>>

HealRuns == "heal" \in wanted \/ (wanted = {} /\ ranCheck)

\* What _task_heal leaves when it is done: the attempt is stamped, the flags published.
HealEnds(entry, lineage, needs) ==
  /\ mem' = [mem EXCEPT !.lineage = lineage, !.needs = needs,
                        !.entry = IF entry = None THEN None ELSE [entry EXCEPT !.tried = TRUE]]
  /\ suspect' = Flagged(mem')
  /\ pc' = "backup" /\ cand' = None

\* Not due, nothing to heal, or an attempt less than check_interval ago: heal_at is a
\* little younger than the check's last_run, so the next check may find it too young.
HealSkip ==
  /\ pc = "heal"
  /\ \/ /\ ~(HealRuns /\ Flagged(mem))
        /\ UNCHANGED mem
     \/ /\ HealRuns /\ Flagged(mem) /\ mem.entry.tried /\ "heal" \notin wanted
        /\ mem' = [mem EXCEPT !.entry = [@ EXCEPT !.tried = FALSE]]
  /\ pc' = "backup"
  /\ suspect' = IF HealRuns THEN Flagged(mem) ELSE suspect
  /\ UNCHANGED <<data, saved, wanted, ranCheck, rec, cand, passed, bounds, accepted>>

\* Gone, or re-hosted since the check.
HealGone ==
  /\ pc = "heal" /\ HealRuns /\ Flagged(mem)
  /\ row = None
  /\ mem' = [mem EXCEPT !.entry = None, !.lineage = None]
  /\ suspect' = FALSE /\ pc' = "backup"
  /\ UNCHANGED <<data, saved, wanted, ranCheck, rec, cand, passed, bounds, accepted>>

HealSuperseded ==
  /\ pc = "heal" /\ HealRuns /\ Flagged(mem)
  /\ row # None /\ row.at # mem.entry.at
  /\ HealEnds(mem.entry, mem.lineage, mem.needs)
  /\ UNCHANGED <<data, saved, wanted, ranCheck, rec, passed, bounds, accepted>>

\* The deep re-check under the key lock: a heal never acts on the check's verdict.
Rechecking ==
  /\ pc = "heal" /\ HealRuns /\ Flagged(mem)
  /\ row # None /\ row.at = mem.entry.at

Reseen == Seen(mem.entry, Verdict(row))
Lin == LineageOf(mem, row)
\* A heal that only tries the newest set.
NewestRestorable(exact) ==
  {i \in DOMAIN sets : i = Len(sets) /\ sets[i].good /\ (IsExact(sets[i], Lin) <=> exact)}

Restorable(exact) == {i \in DOMAIN sets : sets[i].good /\ (IsExact(sets[i], Lin) <=> exact)}

\* What is tried, when the sets in `failing` do not restore or install this time.
Exact(failing) == Restorable(TRUE) \ failing
Rollbacks(failing) ==
  IF AllowRollback /\ Reseen.status # "drifted" THEN Restorable(FALSE) \ failing ELSE {}
Candidates(failing) == Exact(failing) \cup Rollbacks(failing)
Trial(failing) ==
  /\ Rechecking /\ failing \subseteq DOMAIN sets
  /\ failing # {} => mishaps < MaxMishaps
  /\ mishaps' = IF failing = {} THEN mishaps ELSE mishaps + 1

\* Retried at the next tick and never escalated: a key lock that stays busy, a re-check
\* that cannot read the file, a pool that did not run the restore.
HealFailed ==
  /\ pc = "heal" /\ HealRuns /\ Flagged(mem) /\ Mishap
  /\ \/ HealEnds(mem.entry, mem.lineage, mem.needs)
     \/ /\ Rechecking
        /\ \E entry \in {mem.entry, Reseen} :
             HealEnds([entry EXCEPT !.status = "error"], mem.lineage, mem.needs)
     \/ /\ Rechecking /\ Reseen.status \in Problems /\ Candidates({}) # {}
        /\ Reseen.status = "drifted" => DriftAction = "restore"
        /\ HealEnds(Reseen, Lin, mem.needs)
  /\ UNCHANGED <<data, saved, wanted, ranCheck, rec, passed, hosts, damage, losses, accepted>>

\* Healthy after all, or drift that is only reported.
HealNothing ==
  /\ Rechecking
  /\ Reseen.status = "healthy" \/ (Reseen.status = "drifted" /\ DriftAction = "report")
  /\ HealEnds(Reseen, mem.lineage, mem.needs)
  /\ UNCHANGED <<data, saved, wanted, ranCheck, rec, passed, bounds, accepted>>

\* _escalate: nothing restored. A corrupt file stays as it is, reported ...
HealUnrecoverable(failing) ==
  /\ Trial(failing) /\ Reseen.status = "corrupt" /\ Candidates(failing) = {}
  /\ HealEnds(Reseen, Lin, mem.needs)
  /\ UNCHANGED <<data, saved, wanted, ranCheck, rec, passed, hosts, damage, losses, accepted>>

\* ... sound content that no exact set replaced becomes the hosted content (_adopt; also
\* without a trial, when the policy says so) ...
HealAdopt(failing) ==
  /\ Trial(failing) /\ Reseen.status = "drifted"
  /\ \/ DriftAction = "adopt" /\ failing = {}
     \/ DriftAction = "restore" /\ Candidates(failing) = {}
  /\ row' = [row EXCEPT !.sha = file]
  /\ HealEnds([Reseen EXCEPT !.status = "healthy", !.lost = FALSE],
              [at |-> row.at, shas |-> {file}], TRUE)
  /\ accepted' = accepted \cup {file.v}
  /\ UNCHANGED <<file, stat, sets, saved, wanted, ranCheck, rec, passed, hosts, damage, losses>>

\* ... and a missing file stays listed for lost_grace (_lost), then is dropped.
HealLost(failing) ==
  /\ Trial(failing) /\ Reseen.status = "missing" /\ Candidates(failing) = {}
  /\ HealEnds([Reseen EXCEPT !.lost = TRUE], Lin, mem.needs)
  /\ UNCHANGED <<data, saved, wanted, ranCheck, rec, passed, hosts, damage, losses, accepted>>

HealDrop(failing) ==
  /\ Trial(failing) /\ Reseen.status = "missing" /\ Candidates(failing) = {}
  /\ mem.entry.lost
  /\ row' = None
  /\ HealEnds(None, None, mem.needs)
  /\ UNCHANGED <<file, stat, sets, saved, wanted, ranCheck, rec, passed, hosts, damage, losses,
                 accepted>>

Newest(S) == CHOOSE i \in S : \A j \in S : j <= i

\* stage_restore and _install: the candidates in order, exact ones first, until one
\* restores soundly.
HealStage(failing) ==
  /\ Trial(failing) /\ Reseen.status \in Problems
  /\ Reseen.status = "drifted" => DriftAction = "restore"
  /\ Candidates(failing) # {}
  /\ LET exact == Exact(failing) # {}
         set == sets[Newest(IF exact THEN Exact(failing) ELSE Rollbacks(failing))]
     IN  cand' = [kind |-> IF ~exact THEN "rollback"
                           ELSE IF InLineage(set, Lin) THEN "matched" ELSE "dated",
                  sha |-> Copy(set.sha)]
  /\ mem' = [mem EXCEPT !.entry = Reseen, !.lineage = Lin]
  /\ pc' = "swap"
  /\ UNCHANGED <<data, suspect, saved, wanted, ranCheck, rec, passed, hosts, damage, losses, accepted>>

\* _install: the damaged file goes to quarantine, the staged copy takes its place ...
HealSwap ==
  /\ pc = "swap"
  /\ file' = cand.sha /\ stat' = cand.sha
  /\ pc' = "list"
  /\ UNCHANGED <<row, sets, suspect, saved, mem, wanted, ranCheck, rec, cand, passed, bounds, accepted>>

\* ... then the row takes its checksum, and the lineage learns it.
HealList ==
  /\ pc = "list"
  /\ row' = [row EXCEPT !.sha = cand.sha]
  /\ HealEnds([mem.entry EXCEPT !.status = "healthy", !.stat = stat, !.lost = FALSE],
              [at |-> row.at,
               shas |-> {cand.sha} \cup (IF cand.kind # "rollback" THEN Lin.shas ELSE {})], mem.needs)
  /\ accepted' = accepted \cup {cand.sha.v}
  /\ UNCHANGED <<file, stat, sets, saved, wanted, ranCheck, rec, passed, bounds>>

Heal ==
  \/ HealSkip \/ HealGone \/ HealSuperseded \/ HealFailed \/ HealNothing
  \/ \E failing \in SUBSET (DOMAIN sets) :
       \/ HealUnrecoverable(failing) \/ HealAdopt(failing) \/ HealLost(failing)
       \/ HealDrop(failing) \/ HealStage(failing)
  \/ HealSwap \/ HealList

\* backup_database and _rotate.
AddSet(sha, hashed) ==
  LET all == Append(sets, [sha |-> sha, hashed |-> hashed, since |-> hosts, good |-> TRUE])
  IN  sets' = SubSeq(all, IF Len(all) > Keep THEN 2 ELSE 1, Len(all))

\* What quick_check refuses never becomes a set.
Sound == file \notin {None, Bad}
BackupStable == Sound /\ AddSet(file, TRUE) /\ UNCHANGED <<file, stat, damage>>

\* The file is rewritten while the online backup copies it: the snapshot is of the old
\* or of the new content, and as size or mtime moved, source_sha256 is left out. A
\* rewrite that moves neither is left out here.
BackupRacing ==
  /\ damage < MaxDamage /\ file # None
  /\ damage' = damage + 1
  /\ file' \in {Bad, Orig(0)} \ {file} /\ stat' = file'
  /\ \E sha \in {file, file'} \ {Bad} : AddSet(sha, FALSE)

TakeBackup == BackupStable \/ BackupRacing

BackupRuns == "backup" \in wanted \/ (wanted = {} /\ (ranCheck \/ mem.needs))
\* What _task_backup asks of a database before it looks at its sets.
BackupDue == BackupRuns /\ row # None /\ mem.entry # None /\ mem.entry.status = "healthy"
\* Requested, or none there, or none exact.
BackupNeeded ==
  /\ BackupDue
  /\ \/ mem.needs \/ sets = <<>>
     \/ ~\E i \in DOMAIN sets : IsExact(sets[i], LineageOf(mem, row))
LineageRead == IF BackupDue THEN LineageOf(mem, row) ELSE mem.lineage

BackupSkip ==
  /\ pc = "backup" /\ ~BackupNeeded
  /\ mem' = [mem EXCEPT !.lineage = LineageRead, !.needs = @ /\ (BackupRuns => mem.entry # None)]
  /\ pc' = "save"
  /\ UNCHANGED <<data, suspect, saved, wanted, ranCheck, rec, cand, passed, bounds, accepted>>

\* Needed, or the newest exact set is older than backup_max_age.
BackupTask ==
  /\ pc = "backup" /\ BackupDue /\ ~suspect
  /\ TakeBackup
  /\ mem' = [mem EXCEPT !.lineage = LineageRead, !.needs = FALSE]
  /\ pc' = "save"
  /\ UNCHANGED <<row, suspect, saved, wanted, ranCheck, rec, cand, passed, hosts, losses, mishaps,
                 accepted>>

\* Refused: the next check reads the file again.
BackupTaskFails ==
  /\ pc = "backup" /\ BackupDue /\ (~Sound \/ suspect)
  /\ mem' = [mem EXCEPT !.lineage = LineageRead, !.entry = [@ EXCEPT !.stat = None]]
  /\ pc' = "save"
  /\ UNCHANGED <<data, suspect, saved, wanted, ranCheck, rec, cand, passed, bounds, accepted>>

Save ==
  /\ pc = "save"
  /\ suspect' = Flagged(mem) /\ saved' = mem
  /\ pc' = "idle" /\ mem' = EmptyState /\ wanted' = {} /\ ranCheck' = FALSE /\ rec' = None
  /\ UNCHANGED <<data, cand, passed, bounds, accepted>>

\* The tick's process dies: what it knew but had not saved is lost.
Crash ==
  /\ pc # "idle" /\ Mishap
  /\ pc' = "idle" /\ mem' = EmptyState /\ wanted' = {} /\ ranCheck' = FALSE
  /\ rec' = None /\ cand' = None
  /\ UNCHANGED <<data, suspect, saved, passed, hosts, damage, losses, accepted>>

-----------------------------------------------------------------------------
(* Everybody else                                                          *)

\* check_interval has passed.
CheckDue ==
  /\ pc = "idle" /\ ~saved.due
  /\ saved' = [saved EXCEPT !.due = TRUE]
  /\ UNCHANGED <<data, suspect, tick, passed, bounds, accepted>>

\* DatabaseHost.host.
Host ==
  /\ hosts < MaxHosts /\ ~KeyLocked
  /\ hosts' = hosts + 1
  /\ file' = Orig(hosts + 1) /\ stat' = Orig(hosts + 1)
  /\ row' = [sha |-> Orig(hosts + 1), at |-> hosts + 1]
  /\ accepted' = {hosts + 1}
  /\ UNCHANGED <<sets, suspect, saved, tick, passed, damage, losses, mishaps>>

\* A periodic backup that takes every listed database.
PeriodicUnflagged ==
  /\ passed = "no" /\ row # None
  /\ passed' = IF suspect THEN "up" ELSE "down"
  /\ UNCHANGED <<data, suspect, saved, tick, bounds, accepted>>

\* backup_all and backup_database look at the flag before they wait for the lock.
PeriodicPasses ==
  /\ passed = "no" /\ row # None /\ ~suspect
  /\ passed' = IF suspect THEN "up" ELSE "down"
  /\ UNCHANGED <<data, suspect, saved, tick, bounds, accepted>>

PeriodicBackup ==
  /\ passed # "no" /\ ~KeyLocked
  /\ TakeBackup \/ (~Sound /\ UNCHANGED <<sets, file, stat, damage>>)
  /\ passed' = "no"
  /\ UNCHANGED <<row, suspect, saved, tick, hosts, losses, mishaps, accepted>>

\* The file is lost, corrupted or overwritten with other sound content, with or
\* without a trace in its size and mtime.
DamageFile ==
  /\ damage < MaxDamage /\ file # None
  /\ damage' = damage + 1
  /\ file' \in {None, Bad, Orig(0)} \ {file}
  /\ stat' \in IF file' = None THEN {None} ELSE {file', stat}
  /\ UNCHANGED <<row, sets, suspect, saved, tick, passed, hosts, losses, mishaps, accepted>>

\* A set is lost, or the disk with its shards is away ...
DamageSet ==
  /\ losses < MaxLoss
  /\ losses' = losses + 1
  /\ \E i \in DOMAIN sets : sets[i].good /\ sets' = [sets EXCEPT ![i].good = FALSE]
  /\ UNCHANGED <<file, stat, row, suspect, saved, tick, passed, hosts, damage, mishaps, accepted>>

\* ... and is back.
SetReturns ==
  /\ \E i \in DOMAIN sets : ~sets[i].good /\ sets' = [sets EXCEPT ![i].good = TRUE]
  /\ UNCHANGED <<file, stat, row, suspect, saved, tick, passed, bounds, accepted>>

Autopilot ==
  \/ \E req \in Requests : TickStart(req)
  \/ CheckList \/ (\E deep \in BOOLEAN : CheckFile(deep)) \/ CheckError
  \/ Heal \/ BackupSkip \/ BackupTask \/ BackupTaskFails \/ Save \/ Crash

Others ==
  \/ CheckDue \/ Host \/ PeriodicPasses \/ PeriodicBackup
  \/ DamageFile \/ DamageSet \/ SetReturns

Next == Autopilot \/ Others

Spec == Init /\ [][Next]_vars

\* The loop ticks for ever, the check and its deep form come due again and again, and
\* a tick that started goes on unless its process dies.
FairSpec ==
  /\ Spec
  /\ SF_vars(CheckDue) /\ SF_vars(TickStart({})) /\ WF_vars(CheckList)
  /\ SF_vars(CheckFile(TRUE)) /\ WF_vars(CheckFile(FALSE))
  /\ WF_vars(Heal)
  /\ WF_vars(BackupSkip \/ BackupTask \/ BackupTaskFails \/ Save)

-----------------------------------------------------------------------------
(* Properties                                                              *)

\* "restore the newest backup set that is an exact copy of the hosted content"
\* (autopilot.py:29), of the sets that count as exact by their checksum: such a restore
\* never brings back an earlier upload, nor drift nobody accepted, whatever was re-hosted,
\* adopted or forgotten in a crash before. A set that counts by its date alone is not
\* covered (ExactIsHosted).
LineageSound(s) ==
  s.lineage # None /\ row # None /\ s.lineage.at = row.at
    => \A sha \in s.lineage.shas : sha.v \in accepted
ExactIsAccepted == cand # None /\ cand.kind = "matched" => cand.sha.v \in accepted
HealInv ==
  /\ TypeOK
  /\ row # None => row.sha.v \in accepted
  /\ LineageSound(saved) /\ LineageSound(mem)
  /\ ExactIsAccepted

\* autopilot.py:29 taken literally, of every set the heal calls exact.
ExactIsHosted == cand # None /\ cand.kind # "rollback" => cand.sha.v \in accepted

\* A flagged database keeps a good set of what was uploaded: no backup that begins
\* while the flag is up rotates it out.
GoodSet == row # None /\ \E i \in DOMAIN sets : sets[i].good /\ sets[i].sha.v = row.at
FlagStopsRotation ==
  [][suspect /\ passed # "down" /\ losses' = losses /\ row' = row /\ GoodSet => GoodSet']_vars

\* "Damaged keys are flagged suspect so no backup of them can rotate the last good sets
\* out" (autopilot.py:27), taken literally.
FlagSavesSets ==
  [][suspect /\ losses' = losses /\ row' = row /\ GoodSet => GoodSet']_vars

\* A database some good set could heal does not stay damaged: once damage stops,
\* every listed database ends up with the content its row names.
Healed ==
  \/ row = None \/ file = row.sha
  \/ file \in {None, Bad} /\ \A i \in DOMAIN sets : ~sets[i].good
EventuallyHealed == <>[]Healed

\* The backup task settles: it does not take one set after another of a database that
\* is not changing.
BackupsSettle == <>[]~(pc = "backup" /\ BackupNeeded)
=============================================================================
