----------------------------- MODULE HostedKey -----------------------------
(***************************************************************************)
(* One storage key of the server (SQLite backend): the hosted file, its    *)
(* catalog row and access time, its backup sets, and everything that       *)
(* changes them concurrently:                                              *)
(*   hosters   dbhost.py  DatabaseHost.host                                *)
(*   readers   dbhost.py  DatabaseHost.query / touch                       *)
(*   backers   backup.py  BackupManager.backup_database, _rotate           *)
(*   janitors  retention.py  RetentionManager.plan, _evict, enforce        *)
(* The key lock is the mutex of Mutex.tla, except that the janitor removes *)
(* the directory its file lives in (FileLock.tla): from then on whoever    *)
(* holds the old file excludes nobody.                                     *)
(*                                                                         *)
(* Time is counted in backup labels (seconds); a set is named by the       *)
(* instant its backup took its label.                                      *)
(***************************************************************************)
EXTENDS Integers, FiniteSets, FiniteSetsExt

CONSTANTS Hosters, Readers, Backers, Janitors,
          Fragile,       \* the actors that may die or fail at any point
          Keep,          \* BackupManager.keep
          MaxAge,        \* policy.max_age
          BackupMaxAge,  \* policy.backup_max_age
          DebrisMaxAge,  \* policy.debris_max_age
          Budget,        \* is there a max_total_bytes, so space can be short
          Throttle,      \* TOUCH_THROTTLE_SECONDS
          Undetected,    \* can damage pass quick_check
          Damage,        \* can the stored file be damaged at all
          MaxHosts,      \* bound on uploads
          MaxTime,       \* bound on the clock
          MaxBackup,     \* a backup takes no longer than this from label to rotation
          None, Bad

Actors == Hosters \cup Readers \cup Backers \cup Janitors
Times == 0..MaxTime
Versions == 1..MaxHosts
Row == [sha : Versions, updated_at : Times]

ASSUME HostedKeyAssumption ==
  /\ Keep \in Nat \ {0}
  /\ {MaxAge, BackupMaxAge, DebrisMaxAge, Throttle, MaxHosts, MaxTime, MaxBackup} \subseteq Nat
  /\ {Budget, Undetected, Damage} \subseteq BOOLEAN
  /\ Fragile \subseteq Actors
  /\ None \notin Row

VARIABLES
  clock,
  uploads,     \* how many uploads have begun: the next one's content
  file,        \* the version stored in <key>.db, or None
  rot,         \* is the stored file damaged
  suspect,     \* is the key in the autopilot's suspect file
  row,         \* the catalog row [sha, updated_at], or None
  access,      \* database_access.accessed_at, or None
  touched,     \* the readers' shared throttle memory (dbhost._touched)
  dirs,        \* labels with a set directory
  whole,       \* labels whose parts are all on disk
  manifests,   \* labels with a manifest.json
  snap,        \* snap[l]: the content the parts of l were made from
  held,        \* held[a]: "no", "key" (the key's lock file) or "stale" (an unlinked one)
  pc,
  ver,         \* content in an actor's hands: upload or snapshot
  at,          \* hoster, reader: its time.time(); backer: its set's label
  plan,        \* janitor: what plan() read about the key
  todo,        \* janitor: labels still to prune
  used         \* ghost: was the key re-hosted or read since janitor j's plan

store == <<file, rot, row>>
sets == <<dirs, whole, manifests, snap>>
vars == <<clock, uploads, store, suspect, access, touched, sets, held, pc, ver, at, plan, todo, used>>

Content == Versions \cup {Bad}
Steps ==
  {"idle", "ready", "swap", "unlist", "list", "touch",
   "checked", "snapshot", "mkdir", "parts", "manifest", "rotate",
   "plan", "evict", "check", "unrow", "remove", "wipe", "rmtree", "prune", "delete"}
Plan == [now : Times, active_at : Times, listed : BOOLEAN]

TypeOK ==
  /\ clock \in Times /\ uploads \in 0..MaxHosts
  /\ file \in Versions \cup {None} /\ rot \in BOOLEAN /\ suspect \in BOOLEAN
  /\ row \in Row \cup {None}
  /\ access \in Times \cup {None} /\ touched \in Times \cup {None}
  /\ dirs \subseteq Times /\ whole \subseteq dirs /\ manifests \subseteq dirs
  /\ snap \in [Times -> Content \cup {None}]
  /\ held \in [Actors -> {"no", "key", "stale"}]
  /\ pc \in [Actors -> Steps]
  /\ ver \in [Actors -> Content \cup {None}]
  /\ at \in [Actors -> Times]
  /\ plan \in [Janitors -> Plan]
  /\ todo \in [Janitors -> SUBSET Times]
  /\ used \in [Janitors -> BOOLEAN]

Init ==
  /\ clock = 0 /\ uploads = 0
  /\ file = None /\ rot = FALSE /\ suspect = FALSE /\ row = None
  /\ access = None /\ touched = None
  /\ dirs = {} /\ whole = {} /\ manifests = {}
  /\ snap = [l \in Times |-> None]
  /\ held = [a \in Actors |-> "no"]
  /\ pc = [a \in Actors |-> "idle"]
  /\ ver = [a \in Actors |-> None]
  /\ at = [a \in Actors |-> 0]
  /\ plan = [j \in Janitors |-> [now |-> 0, active_at |-> 0, listed |-> FALSE]]
  /\ todo = [j \in Janitors |-> {}]
  /\ used = [j \in Janitors |-> FALSE]

Goto(a, from, to) == pc[a] = from /\ pc' = [pc EXCEPT ![a] = to]
Busy == \E a \in Actors : held[a] = "key"
Take(a) == ~Busy /\ held' = [held EXCEPT ![a] = "key"]
Drop(a) == held' = [held EXCEPT ![a] = "no"]
\* The catalog's own lock: writers exclude each other between DELETE and INSERT,
\* readers take no lock at all.
CatalogFree == \A a \in Actors : pc[a] \notin {"list", "touch"}
MarkUsed == used' = [j \in Janitors |-> TRUE]
-----------------------------------------------------------------------------
(* DatabaseHost.host                                                       *)

\* Before the lock: size, SHA-256 and `now` of the uploaded file. No two uploads
\* begin at the same time.time().
HostPrepare(h) ==
  /\ Goto(h, "idle", "ready")
  /\ uploads < MaxHosts
  /\ \A other \in Hosters : at[other] < clock
  /\ uploads' = uploads + 1
  /\ ver' = [ver EXCEPT ![h] = uploads + 1]
  /\ at' = [at EXCEPT ![h] = clock]
  /\ UNCHANGED <<clock, store, suspect, access, touched, sets, held, plan, todo, used>>

\* host() that swaps the content without taking the key lock.
HostLockless(h) ==
  /\ Goto(h, "ready", "swap")
  /\ UNCHANGED <<clock, uploads, store, suspect, access, touched, sets, held, ver, at, plan, todo, used>>

HostLock(h) ==
  /\ Goto(h, "ready", "swap") /\ Take(h)
  /\ UNCHANGED <<clock, uploads, store, suspect, access, touched, sets, ver, at, plan, todo, used>>

\* Copy to .incoming, then tmp.replace(dest).
HostSwap(h) ==
  /\ Goto(h, "swap", "unlist")
  /\ file' = ver[h] /\ rot' = FALSE
  /\ MarkUsed
  /\ UNCHANGED <<clock, uploads, suspect, row, access, touched, sets, held, ver, at, plan, todo>>

\* register_database: DELETE and INSERT are two committed statements.
HostUnlist(h) ==
  /\ Goto(h, "unlist", "list") /\ CatalogFree
  /\ row' = None
  /\ UNCHANGED <<clock, uploads, file, rot, suspect, access, touched, sets, held, ver, at, plan, todo, used>>

HostList(h) ==
  /\ Goto(h, "list", "idle") /\ Drop(h)
  /\ row' = [sha |-> ver[h], updated_at |-> at[h]]
  /\ UNCHANGED <<clock, uploads, file, rot, suspect, access, touched, sets, ver, at, plan, todo, used>>

Host(h) == HostPrepare(h) \/ HostLock(h) \/ HostSwap(h) \/ HostUnlist(h) \/ HostList(h)

-----------------------------------------------------------------------------
(* DatabaseHost.query: the read is recorded at most once per Throttle, by  *)
(* a DELETE and an INSERT that take no key lock.                           *)

Throttled == touched # None /\ clock - touched < Throttle

QueryThrottled(r) ==
  /\ pc[r] = "idle" /\ row # None /\ Throttled
  /\ MarkUsed
  /\ UNCHANGED <<clock, uploads, store, suspect, access, touched, sets, held, pc, ver, at, plan, todo>>

Query(r) ==
  /\ row # None /\ ~Throttled
  /\ Goto(r, "idle", "touch") /\ CatalogFree
  /\ touched' = clock
  /\ access' = None
  /\ at' = [at EXCEPT ![r] = clock]
  /\ UNCHANGED <<clock, uploads, store, suspect, sets, held, ver, plan, todo, used>>

Touch(r) ==
  /\ Goto(r, "touch", "idle")
  /\ access' = at[r]
  /\ used' = [j \in Janitors |-> used[j] \/ at[r] > plan[j].now]
  /\ UNCHANGED <<clock, uploads, store, suspect, touched, sets, held, ver, at, plan, todo>>

Read(r) == QueryThrottled(r) \/ Query(r) \/ Touch(r)

-----------------------------------------------------------------------------
(* BackupManager.backup_database                                           *)

\* The refusal of flagged keys and the first row lookup come before the lock.
BackupCheck(b) ==
  /\ ~suspect /\ row # None
  /\ Goto(b, "idle", "checked")
  /\ UNCHANGED <<clock, uploads, store, suspect, access, touched, sets, held, ver, at, plan, todo, used>>

BackupLock(b) ==
  /\ Goto(b, "checked", "snapshot") /\ Take(b)
  /\ UNCHANGED <<clock, uploads, store, suspect, access, touched, sets, ver, at, plan, todo, used>>

\* A snapshot nobody verifies before it becomes a set.
SnapshotUnverified(b) ==
  /\ Goto(b, "snapshot", "mkdir")
  /\ clock \notin dirs
  /\ file # None
  /\ at' = [at EXCEPT ![b] = clock]
  /\ ver' = [ver EXCEPT ![b] = IF rot THEN Bad ELSE file]
  /\ UNCHANGED <<clock, uploads, store, suspect, access, touched, sets, held, plan, todo, used>>

\* _fresh_timestamp (waits for an unused second), the online backup, quick_check.
Snapshot(b) ==
  /\ Goto(b, "snapshot", "mkdir")
  /\ clock \notin dirs
  /\ file # None
  /\ rot => Undetected
  /\ at' = [at EXCEPT ![b] = clock]
  /\ ver' = [ver EXCEPT ![b] = IF rot THEN Bad ELSE file]
  /\ UNCHANGED <<clock, uploads, store, suspect, access, touched, sets, held, plan, todo, used>>

\* A missing file, or damage quick_check sees, raises out of the `with`.
SnapshotRefused(b) ==
  /\ Goto(b, "snapshot", "idle") /\ Drop(b)
  /\ file = None \/ rot
  /\ UNCHANGED <<clock, uploads, store, suspect, access, touched, sets, ver, at, plan, todo, used>>

\* _chunk_file: the set directory, its parts, and last its manifest.
SetMkdir(b) ==
  /\ Goto(b, "mkdir", "parts")
  /\ dirs' = dirs \cup {at[b]}
  /\ UNCHANGED <<clock, uploads, store, suspect, access, touched, whole, manifests, snap, held, ver, at, plan, todo, used>>

SetParts(b) ==
  /\ at[b] \in dirs
  /\ Goto(b, "parts", "manifest")
  /\ whole' = whole \cup {at[b]}
  /\ snap' = [snap EXCEPT ![at[b]] = ver[b]]
  /\ UNCHANGED <<clock, uploads, store, suspect, access, touched, dirs, manifests, held, ver, at, plan, todo, used>>

\* The directory was removed under the writer.
PartsRefused(b) ==
  /\ at[b] \notin dirs
  /\ Goto(b, "parts", "idle") /\ Drop(b)
  /\ UNCHANGED <<clock, uploads, store, suspect, access, touched, sets, ver, at, plan, todo, used>>

\* atomic_write_text makes missing parent directories again.
SetManifest(b) ==
  /\ Goto(b, "manifest", "rotate")
  /\ manifests' = manifests \cup {at[b]}
  /\ dirs' = dirs \cup {at[b]}
  /\ UNCHANGED <<clock, uploads, store, suspect, access, touched, whole, snap, held, ver, at, plan, todo, used>>

\* A deletion that takes the parts before the manifest.
DeletePartsFirst(l) ==
  IF l \in whole
  THEN whole' = whole \ {l} /\ UNCHANGED <<dirs, manifests, snap>>
  ELSE /\ dirs' = dirs \ {l} /\ manifests' = manifests \ {l}
       /\ UNCHANGED <<whole, snap>>

\* _delete_dirs: the manifest goes first, then the directory.
DeleteSet(l) ==
  IF l \in manifests
  THEN manifests' = manifests \ {l} /\ UNCHANGED <<dirs, whole, snap>>
  ELSE /\ dirs' = dirs \ {l} /\ whole' = whole \ {l}
       /\ UNCHANGED <<manifests, snap>>

\* _rotate: the sets beyond the newest Keep, unfinished ones counted like finished ones.
Excess == {l \in dirs : Cardinality({m \in dirs : m > l}) >= Keep}

Rotate(b) ==
  /\ pc[b] = "rotate" /\ Excess # {}
  /\ DeleteSet(Min(Excess))
  /\ UNCHANGED <<clock, uploads, store, suspect, access, touched, held, pc, ver, at, plan, todo, used>>

BackupDone(b) ==
  /\ Excess = {}
  /\ Goto(b, "rotate", "idle") /\ Drop(b)
  /\ UNCHANGED <<clock, uploads, store, suspect, access, touched, sets, ver, at, plan, todo, used>>

Backup(b) ==
  \/ BackupCheck(b) \/ BackupLock(b) \/ Snapshot(b) \/ SnapshotRefused(b) \/ SetMkdir(b)
  \/ SetParts(b) \/ PartsRefused(b) \/ SetManifest(b) \/ Rotate(b) \/ BackupDone(b)
-----------------------------------------------------------------------------
(* RetentionManager.enforce: a plan made without locks, then its execution *)

OrZero(t) == IF t = None THEN 0 ELSE t
ActiveAt == Max({row.updated_at, OrZero(access)})

\* plan(): now, the access times and the catalog rows, read in this order and here at the
\* moment of the last.  An older now evicts and prunes less, and an older access time is
\* found out by _evict, which reads it again.
PlanRead(j) ==
  /\ Goto(j, "idle", "plan")
  /\ plan' = [plan EXCEPT ![j] =
       [now |-> clock, listed |-> row # None, active_at |-> IF row = None THEN 0 ELSE ActiveAt]]
  /\ used' = [used EXCEPT ![j] = FALSE]
  /\ UNCHANGED <<clock, uploads, store, suspect, access, touched, sets, held, ver, at, todo>>

\* A plan that protects the newest directory, finished or not.
ProtectNewestDir(j) == IF plan[j].listed /\ dirs # {} THEN {Max(dirs)} ELSE {}

\* The newest complete set of a listed database is never pruned.
Protected(j) == IF plan[j].listed /\ manifests # {} THEN {Max(manifests)} ELSE {}
Debris(j) == {l \in dirs \ manifests : plan[j].now - l >= DebrisMaxAge}
Aged(j) == {l \in dirs \ Protected(j) : plan[j].now - l > BackupMaxAge}
Oldest(S, n) == {l \in S : Cardinality({m \in S : m < l}) < n}
\* Labels the plan prunes when lack of space costs n more sets.
Pruned(j, n) ==
  LET first == Debris(j) \cup Aged(j)
  IN first \cup Oldest((dirs \ Protected(j)) \ first, n)

\* The backup sets, and what to do about the key: evict it, or prune some sets.
PlanDecide(j) ==
  /\ pc[j] = "plan"
  /\ \/ /\ plan[j].listed
        /\ plan[j].now - plan[j].active_at > MaxAge \/ Budget
        /\ pc' = [pc EXCEPT ![j] = "evict"]
        /\ todo' = [todo EXCEPT ![j] = {}]
     \/ /\ ~(plan[j].listed /\ plan[j].now - plan[j].active_at > MaxAge)
        /\ pc' = [pc EXCEPT ![j] = "prune"]
        /\ \E n \in IF Budget THEN 0..Cardinality(dirs) ELSE {0} :
             todo' = [todo EXCEPT ![j] = Pruned(j, n)]
  /\ UNCHANGED <<clock, uploads, store, suspect, access, touched, sets, held, ver, at, plan, used>>

EvictLock(j) ==
  /\ Goto(j, "evict", "check") /\ Take(j)
  /\ UNCHANGED <<clock, uploads, store, suspect, access, touched, sets, ver, at, plan, todo, used>>

\* Gone, or active since the plan: nothing to evict.
EvictSkip(j) ==
  /\ row # None => ActiveAt > plan[j].active_at
  /\ Goto(j, "check", "prune") /\ Drop(j)
  /\ UNCHANGED <<clock, uploads, store, suspect, access, touched, sets, ver, at, plan, todo, used>>

\* An eviction that trusts the plan.
UnlinkUnchecked(j) ==
  /\ row # None
  /\ Goto(j, "check", "unrow")
  /\ file' = None /\ rot' = FALSE
  /\ UNCHANGED <<clock, uploads, row, suspect, access, touched, sets, held, ver, at, plan, todo, used>>

\* _evict looks at the row and the access time again, then DatabaseHost.remove deletes the
\* file, and (remove_database) the row and access time.  Only a touch, which takes no key
\* lock, could come between look and removal; it changes no upload.
Unlink(j) ==
  /\ row # None /\ ActiveAt <= plan[j].active_at
  /\ Goto(j, "check", "unrow")
  /\ file' = None /\ rot' = FALSE
  /\ UNCHANGED <<clock, uploads, row, suspect, access, touched, sets, held, ver, at, plan, todo, used>>

\* _evict leaves the lock here: remove_backups takes it itself.  Row and access time are two
\* commits, but an access time without a row is never looked at.
Unrow(j) ==
  /\ Goto(j, "unrow", "remove") /\ Drop(j) /\ CatalogFree
  /\ row' = None /\ access' = None /\ touched' = None
  /\ UNCHANGED <<clock, uploads, file, rot, suspect, sets, ver, at, plan, todo, used>>

\* remove_backups locks the key only when there is a set to delete.
RemoveBackups(j) ==
  /\ pc[j] = "remove"
  /\ IF dirs = {}
     THEN pc' = [pc EXCEPT ![j] = "rmtree"] /\ UNCHANGED held
     ELSE pc' = [pc EXCEPT ![j] = "wipe"] /\ Take(j)
  /\ UNCHANGED <<clock, uploads, store, suspect, access, touched, sets, ver, at, plan, todo, used>>

Wipe(j) ==
  /\ pc[j] = "wipe" /\ dirs # {}
  /\ DeleteSet(Min(dirs))
  /\ UNCHANGED <<clock, uploads, store, suspect, access, touched, held, pc, ver, at, plan, todo, used>>

Wiped(j) ==
  /\ dirs = {}
  /\ Goto(j, "wipe", "rmtree") /\ Drop(j)
  /\ UNCHANGED <<clock, uploads, store, suspect, access, touched, sets, ver, at, plan, todo, used>>

\* The key's directory goes, with its lock file and whatever appeared meanwhile.
RmTree(j) ==
  /\ Goto(j, "rmtree", "prune")
  /\ dirs' = {} /\ whole' = {} /\ manifests' = {}
  /\ held' = [a \in Actors |-> IF held[a] = "key" THEN "stale" ELSE held[a]]
  /\ UNCHANGED <<clock, uploads, store, suspect, access, touched, snap, ver, at, plan, todo, used>>

\* remove_set: nothing to do, or the lock and the deletion.
PruneNext(j) ==
  /\ pc[j] = "prune" /\ todo[j] # {}
  /\ IF Min(todo[j]) \in dirs
     THEN Take(j) /\ pc' = [pc EXCEPT ![j] = "delete"] /\ UNCHANGED todo
     ELSE todo' = [todo EXCEPT ![j] = @ \ {Min(@)}] /\ UNCHANGED <<held, pc>>
  /\ UNCHANGED <<clock, uploads, store, suspect, access, touched, sets, ver, at, plan, used>>

PruneDelete(j) ==
  /\ pc[j] = "delete" /\ Min(todo[j]) \in dirs
  /\ DeleteSet(Min(todo[j]))
  /\ UNCHANGED <<clock, uploads, store, suspect, access, touched, held, pc, ver, at, plan, todo, used>>

PruneDone(j) ==
  /\ Goto(j, "delete", "prune") /\ Min(todo[j]) \notin dirs /\ Drop(j)
  /\ todo' = [todo EXCEPT ![j] = @ \ {Min(@)}]
  /\ UNCHANGED <<clock, uploads, store, suspect, access, touched, sets, ver, at, plan, used>>

EnforceDone(j) ==
  /\ todo[j] = {}
  /\ Goto(j, "prune", "idle")
  /\ UNCHANGED <<clock, uploads, store, suspect, access, touched, sets, held, ver, at, plan, todo, used>>

Evict(j) ==
  \/ EvictLock(j) \/ EvictSkip(j) \/ Unlink(j) \/ Unrow(j)
  \/ RemoveBackups(j) \/ Wipe(j) \/ Wiped(j) \/ RmTree(j)

Enforce(j) ==
  \/ PlanRead(j) \/ PlanDecide(j) \/ Evict(j)
  \/ PruneNext(j) \/ PruneDelete(j) \/ PruneDone(j) \/ EnforceDone(j)
-----------------------------------------------------------------------------
(* The environment                                                         *)

Writing(b) == pc[b] \in {"mkdir", "parts", "manifest", "rotate"}

Tick ==
  /\ clock < MaxTime
  /\ \A b \in Backers : Writing(b) => clock < at[b] + MaxBackup
  /\ clock' = clock + 1
  /\ UNCHANGED <<uploads, store, suspect, access, touched, sets, held, pc, ver, at, plan, todo, used>>

\* The stored file is damaged.
Rot ==
  /\ Damage /\ file # None /\ ~rot
  /\ rot' = TRUE
  /\ UNCHANGED <<clock, uploads, file, row, suspect, access, touched, sets, held, pc, ver, at, plan, todo, used>>

\* Autopilot._publish_suspects rewrites the suspect file after a scrub.
PublishSuspects ==
  /\ suspect' = rot /\ suspect # rot
  /\ UNCHANGED <<clock, uploads, store, access, touched, sets, held, pc, ver, at, plan, todo, used>>

\* A wait of FileLock.acquire that times out: the caller gives up this piece of work.
LockTimeout(a) ==
  /\ Busy
  /\ \/ /\ pc[a] \in {"ready", "checked"}
        /\ pc' = [pc EXCEPT ![a] = "idle"] /\ UNCHANGED todo
     \/ /\ pc[a] \in {"evict", "remove"} /\ (pc[a] = "remove" => dirs # {})
        /\ pc' = [pc EXCEPT ![a] = "prune"] /\ UNCHANGED todo
     \/ /\ pc[a] = "prune" /\ todo[a] \cap dirs # {} /\ Min(todo[a]) \in dirs
        /\ todo' = [todo EXCEPT ![a] = @ \ {Min(@)}] /\ UNCHANGED pc
  /\ UNCHANGED <<clock, uploads, store, suspect, access, touched, sets, held, ver, at, plan, used>>

\* The actor's process dies, or its work raises: the kernel drops its lock.
Fail(a) ==
  /\ pc[a] # "idle"
  /\ pc' = [pc EXCEPT ![a] = "idle"] /\ Drop(a)
  /\ UNCHANGED <<clock, uploads, store, suspect, access, touched, sets, ver, at, plan, todo, used>>

Next ==
  \/ \E h \in Hosters : Host(h)
  \/ \E r \in Readers : Read(r)
  \/ \E b \in Backers : Backup(b)
  \/ \E j \in Janitors : Enforce(j)
  \/ \E a \in Actors : LockTimeout(a)
  \/ \E a \in Fragile : Fail(a)
  \/ Tick \/ Rot \/ PublishSuspects

Spec == Init /\ [][Next]_vars
-----------------------------------------------------------------------------
(* Properties                                                              *)

\* A set with a manifest is whole ("never a manifest pointing at missing shards",
\* backup.py _delete_dirs): through rotation, pruning, lock timeouts and any crash.
CompleteIsRestorable == manifests \subseteq whole

\* Why CompleteIsRestorable holds while the key's directory is not removed: whoever
\* creates or deletes sets holds the one lock, and a writer that has its parts on disk
\* finds them there when it publishes the manifest.
OneHolder == \A a, c \in Actors : held[a] = "key" /\ held[c] = "key" => a = c
WritersLocked ==
  /\ \A b \in Backers : pc[b] = "snapshot" \/ Writing(b) => held[b] = "key"
  /\ \A j \in Janitors : pc[j] = "delete" => held[j] = "key"
PartsInPlace == \A b \in Backers : pc[b] = "manifest" => at[b] \in whole
UploadInHand ==
  \A h \in Hosters : pc[h] \in {"ready", "swap", "unlist", "list"} => ver[h] \in Versions
NoEviction ==
  \A j \in Janitors : pc[j] \notin {"evict", "check", "unrow", "remove", "wipe", "rmtree"}
SetsInv ==
  /\ TypeOK
  /\ OneHolder
  /\ WritersLocked
  /\ PartsInPlace
  /\ UploadInHand
  /\ NoEviction
  /\ CompleteIsRestorable

\* Why rotation costs nothing that matters while only hosters, readers and backers run:
\* the set being written holds the hosted content and is newer than every other set.
HostersLocked == \A h \in Hosters : pc[h] \in {"swap", "unlist", "list"} => held[h] = "key"
NewestInHand ==
  /\ dirs \subseteq 0..clock
  /\ \A b \in Backers : Writing(b) => /\ ver[b] = file /\ file # None
                                     /\ at[b] <= clock /\ \A l \in dirs : l <= at[b]
Unpublished == \A b \in Backers : pc[b] \in {"mkdir", "parts", "manifest"} => at[b] \notin manifests
SnapshotInSet == \A b \in Backers : pc[b] \in {"manifest", "rotate"} => snap[at[b]] = ver[b]
Published == \A b \in Backers : pc[b] = "rotate" => at[b] \in manifests
BackupInv ==
  /\ SetsInv
  /\ HostersLocked
  /\ NewestInHand
  /\ Unpublished
  /\ SnapshotInSet
  /\ Published

\* A backup under the key lock "never sees a half-updated pair" (dbhost.py host):
\* the stored file is the one the row names.
PairUnderLock ==
  \A b \in Backers : pc[b] = "snapshot" /\ file # None => row # None /\ row.sha = file

\* Why PairUnderLock holds while no hoster fails and nothing is evicted: the pair only
\* differs inside a hoster's locked section, which ends with the row of its own upload.
MidSwap(h) == pc[h] \in {"unlist", "list"}
PairInv ==
  /\ SetsInv
  /\ HostersLocked
  /\ \A h \in Hosters : MidSwap(h) => ver[h] = file
  /\ (\A h \in Hosters : ~MidSwap(h)) /\ file # None => row # None /\ row.sha = file

\* A database that stays hosted never loses its last complete set.
LastSetKept ==
  [][file # None /\ file' # None /\ manifests # {} => manifests' # {}]_vars

\* Once the hosted content has a good set, it has one until it is replaced or removed:
\* neither rotation, nor damage, nor a crash, nor a prune takes the last one.
BackedUp == file # None /\ \E l \in manifests : snap[l] = file
ContentStaysBackedUp ==
  [][BackedUp /\ file' = file => BackedUp']_vars

\* An eviction "skips it if it was re-hosted or read since the plan was made" (retention.py),
\* as long as no earlier eviction removed the key's lock file under its holder.
EvictSparesUsed ==
  [][\A j \in Janitors : pc[j] = "check" /\ pc'[j] = "unrow" /\ (\A a \in Actors : held[a] # "stale")
        => ~used[j]]_vars
=============================================================================
