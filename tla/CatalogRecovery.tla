-------------------------- MODULE CatalogRecovery --------------------------
(***************************************************************************)
(* The SQLite session catalog that the servers of one machine share, and   *)
(* its repair:                                                             *)
(*   autopilot.py  _task_catalog, _snapshot_catalog, _recover_catalog,     *)
(*                 _salvage_rows, _sweep_orphans                           *)
(*   catalog.py    get_or_create_session, register_database,               *)
(*                 _ensure_schema                                          *)
(* while it is damaged or deleted, servers die, and every process that     *)
(* connects to a catalog that is gone makes an empty one.  Each server     *)
(* stands for one repository with one hosted database; its tick and its    *)
(* uploads are two threads.                                                *)
(***************************************************************************)
EXTENDS Naturals, Sequences, SequencesExt

CONSTANTS Servers,
          Free,
          MaxTokens,    \* bound on the tokens minted for one repository
          MaxVersions,  \* bound on the uploads under one token
          MaxUploads,   \* bound on all uploads
          Keep,         \* catalog_snapshots
          MaxDamage,    \* bound on files damaged or deleted
          MaxDeaths,    \* bound on servers that die
          Strangers     \* do processes other than the servers open the catalog

ASSUME CatalogRecoveryAssumption ==
  /\ {MaxTokens, MaxVersions} \subseteq Nat \ {0}
  /\ {Keep, MaxUploads, MaxDamage, MaxDeaths} \subseteq Nat
  /\ Strangers \in BOOLEAN
  /\ Free \notin Servers \X {"host", "tick"}

VARIABLES
  st,      \* the catalog: missing, bare (a file without tables), damaged, or sound
  rows,    \* the rows one can read from it
  snaps,   \* the snapshots, oldest first
  lock,    \* catalog.lock: Free, or the thread that holds it
  tok,     \* the token of each server, 0 while it is down
  minted,  \* how many tokens each repository got
  ini,     \* SessionCatalog._initialized of each server's process
  file,    \* the version of each hosted file, by token; 0 is none
  host,    \* what the upload of each server does next
  tick,    \* what the autopilot of each server does next
  work,    \* the rebuilt catalog its tick has in hand
  spent    \* how many uploads, how much damage and how many deaths there were

store == <<st, rows>>
threads == <<host, tick, work>>
vars == <<st, rows, snaps, lock, tok, minted, ini, file, host, tick, work, spent>>

Tokens == 1..MaxTokens
Tables == [sess : [Servers -> 0..MaxTokens],
           dbs : [Servers -> [Tokens -> 0..MaxVersions]]]
Nothing == [sess |-> [p \in Servers |-> 0],
            dbs |-> [p \in Servers |-> [t \in Tokens |-> 0]]]
Gone == {"missing", "bare"}
Threads == Servers \X {"host", "tick"}

TypeOK ==
  /\ st \in Gone \cup {"damaged", "sound"} /\ rows \in Tables
  /\ snaps \in Seq([is : {"sound", "damaged"}, rows : Tables])
  /\ lock \in Threads \cup {Free}
  /\ tok \in [Servers -> 0..MaxTokens] /\ minted \in [Servers -> 0..MaxTokens]
  /\ ini \in [Servers -> BOOLEAN]
  /\ file \in [Servers -> [Tokens -> 0..MaxVersions]]
  /\ host \in [Servers -> {"idle", "swapped", "deleted"}]
  /\ tick \in [Servers -> {"idle", "look", "build", "aside", "install",
                           "adopt", "adopting"}]
  /\ work \in [Servers -> Tables]
  /\ spent \in [uploads : 0..MaxUploads, damage : 0..MaxDamage, deaths : 0..MaxDeaths]

Init ==
  /\ st = "missing" /\ rows = Nothing /\ snaps = << >> /\ lock = Free
  /\ tok = [p \in Servers |-> 0] /\ minted = [p \in Servers |-> 0]
  /\ ini = [p \in Servers |-> FALSE]
  /\ file = [p \in Servers |-> [t \in Tokens |-> 0]]
  /\ host = [p \in Servers |-> "idle"] /\ tick = [p \in Servers |-> "idle"]
  /\ work = [p \in Servers |-> Nothing] /\ spent = [uploads |-> 0, damage |-> 0, deaths |-> 0]

Up(p) == tok[p] # 0
File(p) == file[p][tok[p]]
Row(p) == rows.dbs[p][tok[p]]

\* r with another token, or another row, of a repository.
WithSession(r, p, t) == [sess |-> [r.sess EXCEPT ![p] = t], dbs |-> r.dbs]
WithRow(r, p, v) ==
  [sess |-> r.sess, dbs |-> [r.dbs EXCEPT ![p] = [@ EXCEPT ![tok[p]] = v]]]

\* A connection makes the file if there is none; _ensure_schema makes the tables, unless
\* this process remembers that it did so before.
Opens(p) == st \in {"sound", "damaged"} \/ ~ini[p]
Opened == IF st = "damaged" THEN st ELSE "sound"
Created(p) == IF st \notin Gone THEN st ELSE IF ini[p] THEN "bare" ELSE "sound"

\* A statement that raises: there are no tables, or the file is damaged.
Refused(p, t) ==
  \/ lock = Free /\ st \in Gone /\ ini[p] /\ st' = "bare" /\ UNCHANGED <<rows, lock>>
  \/ lock \in {Free, <<p, t>>} /\ st = "damaged" /\ lock' = Free /\ UNCHANGED store

----------------------------------------------------------------------------
\* get_or_create_session at a server's start: its session's token, or a new one.
Join(p) ==
  /\ ~Up(p) /\ lock = Free
  /\ \/ /\ rows.sess[p] # 0
        /\ tok' = [tok EXCEPT ![p] = rows.sess[p]]
        /\ UNCHANGED <<rows, minted>>
     \/ /\ rows.sess[p] = 0 /\ minted[p] < MaxTokens
        /\ minted' = [minted EXCEPT ![p] = @ + 1]
        /\ tok' = [tok EXCEPT ![p] = minted[p] + 1]
        /\ rows' = WithSession(rows, p, minted[p] + 1)
  /\ st' = Opened
  /\ ini' = [ini EXCEPT ![p] = TRUE]
  /\ UNCHANGED <<snaps, lock, file, threads, spent>>

\* register_database's DELETE and INSERT, each with its own commit, under the catalog lock.
DeleteRow(p, t) ==
  /\ lock = Free /\ Opens(p)
  /\ st' = Opened /\ rows' = WithRow(rows, p, 0)
  /\ ini' = [ini EXCEPT ![p] = TRUE]
  /\ lock' = <<p, t>>

InsertRow(p, t) ==
  /\ lock = <<p, t>>
  /\ rows' = WithRow(rows, p, File(p))
  /\ lock' = Free
  /\ UNCHANGED <<st, ini>>

----------------------------------------------------------------------------
\* DatabaseHost.host: the file is swapped under the key's lock, then its row is written.
HostSwap(p) ==
  /\ Up(p) /\ host[p] = "idle" /\ tick[p] \notin {"adopt", "adopting"}
  /\ File(p) < MaxVersions /\ spent.uploads < MaxUploads
  /\ spent' = [spent EXCEPT !.uploads = @ + 1]
  /\ file' = [file EXCEPT ![p] = [@ EXCEPT ![tok[p]] = File(p) + 1]]
  /\ host' = [host EXCEPT ![p] = "swapped"]
  /\ UNCHANGED <<store, snaps, lock, tok, minted, ini, tick, work>>

HostRow(p) ==
  /\ \/ /\ host[p] = "swapped" /\ DeleteRow(p, "host")
        /\ host' = [host EXCEPT ![p] = "deleted"]
     \/ /\ host[p] = "deleted" /\ InsertRow(p, "host")
        /\ host' = [host EXCEPT ![p] = "idle"]
     \/ /\ host[p] # "idle" /\ Refused(p, "host") /\ UNCHANGED ini
        /\ host' = [host EXCEPT ![p] = "idle"]
  /\ UNCHANGED <<snaps, tok, minted, file, tick, work, spent>>

----------------------------------------------------------------------------
\* _snapshot_catalog: a copy of a sound catalog joins the snapshots, the newest of which
\* stay.
Newest(s) == IF Len(s) <= Keep THEN s ELSE SubSeq(s, Len(s) - Keep + 1, Len(s))

Snapshot(p) ==
  /\ Up(p) /\ tick[p] = "idle" /\ st = "sound" /\ Keep > 0
  /\ snaps' = Newest(Append(snaps, [is |-> st, rows |-> rows]))
  /\ UNCHANGED <<store, lock, tok, minted, ini, file, threads, spent>>

----------------------------------------------------------------------------
\* Mutant: a file without tables passes for a healthy catalog.
LookAway(p) ==
  /\ Up(p) /\ tick[p] = "idle" /\ st \in {"missing", "damaged"}
  /\ tick' = [tick EXCEPT ![p] = "look"]
  /\ UNCHANGED <<store, snaps, lock, tok, minted, ini, file, host, work, spent>>

\* _task_catalog finds the catalog missing or damaged.
Look(p) ==
  /\ Up(p) /\ tick[p] = "idle" /\ st # "sound"
  /\ tick' = [tick EXCEPT ![p] = "look"]
  /\ UNCHANGED <<store, snaps, lock, tok, minted, ini, file, host, work, spent>>

\* Mutant: the damage seen before the lock is trusted.
RelookTrusting(p) ==
  /\ tick[p] = "look" /\ lock = Free
  /\ lock' = <<p, "tick">> /\ tick' = [tick EXCEPT ![p] = "build"]
  /\ UNCHANGED <<store, snaps, tok, minted, ini, file, host, work, spent>>

\* Mutant: the catalog is rebuilt without its lock.
RelookUnlocked(p) ==
  /\ tick[p] = "look" /\ lock = Free
  /\ tick' = [tick EXCEPT ![p] = IF st # "sound" THEN "build" ELSE "idle"]
  /\ UNCHANGED <<store, snaps, lock, tok, minted, ini, file, host, work, spent>>

\* _recover_catalog takes the catalog lock and looks again.
Relook(p) ==
  /\ tick[p] = "look" /\ lock = Free
  /\ IF st # "sound"
       THEN lock' = <<p, "tick">> /\ tick' = [tick EXCEPT ![p] = "build"]
       ELSE UNCHANGED lock /\ tick' = [tick EXCEPT ![p] = "idle"]
  /\ UNCHANGED <<store, snaps, tok, minted, ini, file, host, work, spent>>

\* The newest snapshot that is sound.
Sound == {i \in 1..Len(snaps) : snaps[i].is = "sound"}
Base == IF Sound = {} THEN Nothing ELSE snaps[Max(Sound)].rows

\* Mutant: the snapshot's rows win throughout.
SalvagedLast(old, found) ==
  [sess |-> [p \in Servers |-> IF old.sess[p] # 0 THEN old.sess[p] ELSE found.sess[p]],
   dbs |-> [p \in Servers |-> [t \in Tokens |->
              IF old.dbs[p][t] # 0 THEN old.dbs[p][t] ELSE found.dbs[p][t]]]]

\* _salvage_rows: what can be read from the damaged file replaces what the snapshot has,
\* but for the sessions.
Salvaged(old, found) ==
  [sess |-> [p \in Servers |-> IF old.sess[p] # 0 THEN old.sess[p] ELSE found.sess[p]],
   dbs |-> [p \in Servers |-> [t \in Tokens |->
              IF found.dbs[p][t] # 0 THEN found.dbs[p][t] ELSE old.dbs[p][t]]]]

\* INSERT OR IGNORE of the session of the server that rebuilds.
WithOwn(p, r) == IF r.sess[p] = 0 THEN WithSession(r, p, tok[p]) ELSE r

Build(p) ==
  /\ tick[p] = "build"
  /\ work' = [work EXCEPT ![p] = WithOwn(p, Salvaged(Base, rows))]
  /\ tick' = [tick EXCEPT ![p] = "aside"]
  /\ UNCHANGED <<store, snaps, lock, tok, minted, ini, file, host, spent>>

\* The damaged file is moved to the quarantine, then the rebuilt one takes its place.
SetAside(p) ==
  /\ tick[p] = "aside"
  /\ st' = "missing" /\ rows' = Nothing
  /\ tick' = [tick EXCEPT ![p] = "install"]
  /\ UNCHANGED <<snaps, lock, tok, minted, ini, file, host, work, spent>>

Install(p) ==
  /\ tick[p] = "install"
  /\ st' = "sound" /\ rows' = work[p]
  /\ ini' = [ini EXCEPT ![p] = FALSE]
  /\ lock' = Free
  /\ tick' = [tick EXCEPT ![p] = "idle"]
  /\ work' = [work EXCEPT ![p] = Nothing]
  /\ UNCHANGED <<snaps, tok, minted, file, host, spent>>

----------------------------------------------------------------------------
\* _sweep_orphans: a hosted file of this session without a row, seen again under the
\* key's lock, is registered.
Orphaned(p) == Up(p) /\ host[p] = "idle" /\ File(p) # 0 /\ Row(p) = 0

AdoptLook(p) ==
  /\ tick[p] = "idle" /\ Orphaned(p) /\ Opens(p)
  /\ st' = Opened /\ ini' = [ini EXCEPT ![p] = TRUE]
  /\ tick' = [tick EXCEPT ![p] = "adopt"]
  /\ UNCHANGED <<rows, snaps, lock, tok, minted, file, host, work, spent>>

AdoptRow(p) ==
  /\ \/ /\ tick[p] = "adopt" /\ DeleteRow(p, "tick")
        /\ tick' = [tick EXCEPT ![p] = "adopting"]
     \/ /\ tick[p] = "adopting" /\ InsertRow(p, "tick")
        /\ tick' = [tick EXCEPT ![p] = "idle"]
     \/ /\ tick[p] \in {"adopt", "adopting"} /\ Refused(p, "tick") /\ UNCHANGED ini
        /\ tick' = [tick EXCEPT ![p] = "idle"]
  /\ UNCHANGED <<snaps, tok, minted, file, host, work, spent>>

----------------------------------------------------------------------------
\* A heartbeat, a query or a listing of a server: it connects without the catalog lock.
Peek(p) ==
  /\ Up(p) /\ Created(p) # st
  /\ st' = Created(p)
  /\ ini' = [ini EXCEPT ![p] = TRUE]
  /\ UNCHANGED <<rows, snaps, lock, tok, minted, file, threads, spent>>

\* The same of a process that has just started, the command line for one.
Stranger ==
  /\ Strangers /\ st \in Gone /\ st' = "sound"
  /\ UNCHANGED <<rows, snaps, lock, tok, minted, ini, file, threads, spent>>

\* A server dies: its lock is free, what it had in hand is lost, its row stays.
Die(p) ==
  /\ Up(p) /\ spent.deaths < MaxDeaths
  /\ spent' = [spent EXCEPT !.deaths = @ + 1]
  /\ tok' = [tok EXCEPT ![p] = 0] /\ ini' = [ini EXCEPT ![p] = FALSE]
  /\ host' = [host EXCEPT ![p] = "idle"] /\ tick' = [tick EXCEPT ![p] = "idle"]
  /\ work' = [work EXCEPT ![p] = Nothing]
  /\ lock' = IF lock \in {<<p, "host">>, <<p, "tick">>} THEN Free ELSE lock
  /\ UNCHANGED <<store, snaps, minted, file>>

\* What is left of r when the rows of some repositories can no longer be read.
Without(r, s, d) ==
  [sess |-> [p \in Servers |-> IF p \in s THEN 0 ELSE r.sess[p]],
   dbs |-> [p \in Servers |-> IF p \in d THEN Nothing.dbs[p] ELSE r.dbs[p]]]

\* The file is damaged, deleted while nobody writes it, or a snapshot is damaged.
Damage ==
  /\ spent.damage < MaxDamage
  /\ spent' = [spent EXCEPT !.damage = @ + 1]
  /\ \/ /\ st = "sound" /\ st' = "damaged"
        /\ \E s, d \in SUBSET Servers : rows' = Without(rows, s, d)
        /\ UNCHANGED snaps
     \/ /\ st \notin {"missing"} /\ lock = Free /\ st' = "missing" /\ rows' = Nothing
        /\ UNCHANGED snaps
     \/ /\ \E i \in Sound : snaps' = [snaps EXCEPT ![i].is = "damaged"]
        /\ UNCHANGED store
  /\ UNCHANGED <<lock, tok, minted, ini, file, threads>>

TickStep(p) ==
  \/ AdoptRow(p)
  \/ Relook(p) \/ Build(p) \/ SetAside(p) \/ Install(p)

Next ==
  \/ \E p \in Servers :
       \/ Join(p) \/ HostSwap(p) \/ HostRow(p)
       \/ Look(p) \/ Snapshot(p) \/ AdoptLook(p) \/ TickStep(p)
       \/ Peek(p) \/ Die(p)
  \/ Stranger \/ Damage

Spec == Init /\ [][Next]_vars

\* The tick comes again and again and runs every task that is due; a task, once begun,
\* goes on, and so does an upload.
FairSpec ==
  /\ Spec
  /\ \A p \in Servers :
       /\ SF_vars(Look(p)) /\ WF_vars(AdoptLook(p))
       /\ SF_vars(TickStep(p)) /\ WF_vars(HostRow(p))

----------------------------------------------------------------------------
\* A rebuild never sets aside a sound catalog that has rows, although it decided to
\* rebuild before it had the lock (autopilot.py:1010, 1071): two servers may see the same
\* damage, and the first one's catalog is in use when the second one gets the lock.
SoundIsSpared ==
  \A p \in Servers :
    tick[p] \in {"build", "aside"} => (st = "sound" => rows = Nothing)

\* What a rebuild is about to put in the place of the catalog has every row that can still
\* be read from the one it sets aside, as it is there, and a session for its own server
\* (autopilot.py:1032, 1037): nothing was registered since the rows were read.
Covers(new, old) ==
  \A p \in Servers :
    /\ old.sess[p] # 0 => new.sess[p] # 0
    /\ \A t \in Tokens : old.dbs[p][t] # 0 => new.dbs[p][t] = old.dbs[p][t]

RebuiltCovers ==
  \A p \in Servers : tick[p] = "aside" => Covers(work[p], rows) /\ work[p].sess[p] # 0

\* A catalog that is gone has no rows, who writes or rebuilds holds the catalog lock, a
\* thread runs only in a server that is up, and a row is written only for a file that is
\* there, in a catalog that is there.
GoneIsEmpty == st \in Gone => rows = Nothing
Locked ==
  \A p \in Servers :
    /\ tick[p] \in {"build", "aside", "install", "adopting"} <=> lock = <<p, "tick">>
    /\ host[p] = "deleted" <=> lock = <<p, "host">>
    /\ tick[p] # "idle" \/ host[p] # "idle" => Up(p)
    /\ tick[p] \in {"adopt", "adopting"} => host[p] = "idle" /\ File(p) # 0
    /\ host[p] # "idle" => File(p) # 0
    /\ host[p] = "deleted" \/ tick[p] = "adopting" => st \notin Gone

RecoveryInv ==
  /\ TypeOK /\ GoneIsEmpty /\ Locked /\ SoundIsSpared /\ RebuiltCovers

\* A hosted file of a server that stays up gets its row back, whatever damage, deaths,
\* half-done registrations and rebuilds did to it (autopilot.py:2086).
HostedIsListed ==
  \A p \in Servers : \A t \in Tokens :
    (tok[p] = t /\ file[p][t] # 0) ~> (tok[p] # t \/ (st = "sound" /\ rows.dbs[p][t] # 0))

\* docs/server.md:208: "A damaged or deleted catalog is rebuilt from the newest good
\* snapshot".  Whoever connects first makes an empty one instead, which is healthy.
DeletedIsRebuilt ==
  [][(st \in Gone /\ st' = "sound") => Covers(rows', Base)]_vars

\* autopilot.py:31: "the newest backup set that is an exact copy of the hosted content":
\* after a rebuild from an older snapshot the row names older content than the file has.
RowsFollowFiles ==
  \A p \in Servers : \A t \in Tokens :
    st = "sound" /\ lock = Free /\ host[p] = "idle" /\ rows.dbs[p][t] # 0
      => rows.dbs[p][t] = file[p][t]
============================================================================
