----------------------- MODULE CatalogRecoveryProofs -----------------------
(***************************************************************************)
(* CatalogRecovery for every number of servers, snapshots, tokens, uploads *)
(* and mishaps: what a rebuild of the catalog keeps.                       *)
(***************************************************************************)
EXTENDS CatalogRecovery, WellFoundedInduction, TLAPS

\* A nonempty set of numbers up to n has a greatest.
LEMMA GreatestIs ==
  ASSUME NEW n \in Nat, NEW S \in SUBSET (0..n), S # {}
  PROVE  Max(S) \in S /\ \A y \in S : y <= Max(S)
<1> DEFINE R == {p \in Nat \X Nat : p[1] < p[2]}
           T == {n - z : z \in S}
<1>1. PICK x \in T : \A z \in T : <<z, x>> \notin R
  <2>1. T \in SUBSET Nat /\ T # {}
    <3>1. PICK y \in S : n - y \in T
      OBVIOUS
    <3>2. \A z \in S : n - z \in Nat
      OBVIOUS
    <3> QED
      BY <3>1, <3>2
  <2>2. IsWellFoundedOn(R, Nat)
    BY NatLessThanWellFounded DEF OpToRel
  <2> HIDE DEF R, T
  <2> QED
    BY <2>1, <2>2, WFMin
<1>2. PICK m \in S : x = n - m
  OBVIOUS
<1>3. ASSUME NEW y \in S PROVE y <= m
  <2>1. n - y \in T /\ n - y \in Nat /\ n - m \in Nat
    OBVIOUS
  <2>2. ~(n - y < n - m)
    BY <2>1, <1>1, <1>2
  <2> QED
    BY <2>2
<1> QED
  BY <1>3 DEF Max

LEMMA NothingTyped == Nothing \in Tables
BY CatalogRecoveryAssumption DEF Nothing, Tables, Tokens

\* What the rebuild starts from is a catalog.
LEMMA BaseTyped ==
  ASSUME TypeOK
  PROVE  Base \in Tables
<1>1. CASE Sound = {}
  BY <1>1, NothingTyped DEF Base
<1>2. CASE Sound # {}
  <2>1. Len(snaps) \in Nat /\ Sound \in SUBSET (0..Len(snaps))
    BY DEF TypeOK, Sound
  <2>2. Max(Sound) \in Sound
    BY <1>2, <2>1, GreatestIs
  <2>3. Max(Sound) \in 1..Len(snaps)
    BY <2>2 DEF Sound
  <2>4. snaps[Max(Sound)] \in [is : {"sound", "damaged"}, rows : Tables]
    <3> DEFINE R == [is : {"sound", "damaged"}, rows : Tables]
    <3>1. snaps \in Seq(R)
      BY DEF TypeOK
    <3> HIDE DEF R
    <3>2. snaps[Max(Sound)] \in R
      BY <2>3, <3>1
    <3> QED
      BY <3>2 DEF R
  <2> QED
    BY <1>2, <2>4 DEF Base
<1> QED
  BY <1>1, <1>2

LEMMA SalvagedTyped ==
  ASSUME NEW old \in Tables, NEW found \in Tables
  PROVE  /\ Salvaged(old, found) \in Tables
         /\ Covers(Salvaged(old, found), found)
<1>1. /\ old.sess \in [Servers -> 0..MaxTokens] /\ found.sess \in [Servers -> 0..MaxTokens]
      /\ old.dbs \in [Servers -> [Tokens -> 0..MaxVersions]]
      /\ found.dbs \in [Servers -> [Tokens -> 0..MaxVersions]]
  BY DEF Tables
<1>2. [p \in Servers |-> IF old.sess[p] # 0 THEN old.sess[p] ELSE found.sess[p]]
        \in [Servers -> 0..MaxTokens]
  BY <1>1
<1>3. [p \in Servers |-> [t \in Tokens |->
         IF found.dbs[p][t] # 0 THEN found.dbs[p][t] ELSE old.dbs[p][t]]]
        \in [Servers -> [Tokens -> 0..MaxVersions]]
  BY <1>1
<1>4. Salvaged(old, found) \in Tables
  BY <1>2, <1>3 DEF Salvaged, Tables
<1>5. Covers(Salvaged(old, found), found)
  BY DEF Salvaged, Covers
<1> QED
  BY <1>4, <1>5

LEMMA SessionTyped ==
  ASSUME NEW r \in Tables, NEW p \in Servers, NEW t \in 0..MaxTokens
  PROVE  /\ WithSession(r, p, t) \in Tables
         /\ WithSession(r, p, t).sess[p] = t
         /\ \A old : r.sess[p] = 0 /\ t # 0 /\ Covers(r, old)
                       => Covers(WithSession(r, p, t), old)
BY DEF WithSession, Covers, Tables, Tokens

LEMMA RowTyped ==
  ASSUME NEW r \in Tables, NEW p \in Servers, NEW v \in 0..MaxVersions, tok[p] \in Tokens
  PROVE  WithRow(r, p, v) \in Tables
<1>1. r.dbs[p] \in [Tokens -> 0..MaxVersions]
  BY DEF Tables
<1>2. [r.dbs[p] EXCEPT ![tok[p]] = v] \in [Tokens -> 0..MaxVersions]
  BY <1>1
<1> QED
  BY <1>2 DEF WithRow, Tables

LEMMA OwnTyped ==
  ASSUME NEW r \in Tables, NEW p \in Servers, tok[p] \in Tokens, NEW old, Covers(r, old)
  PROVE  /\ WithOwn(p, r) \in Tables
         /\ WithOwn(p, r).sess[p] # 0
         /\ Covers(WithOwn(p, r), old)
<1>1. tok[p] \in 0..MaxTokens /\ tok[p] # 0
  BY CatalogRecoveryAssumption DEF Tokens
<1> QED
  BY <1>1, SessionTyped DEF WithOwn

LEMMA WithoutTyped ==
  ASSUME NEW r \in Tables, NEW s, NEW d
  PROVE  /\ Without(r, s, d) \in Tables
         /\ \A new : Covers(new, r) => Covers(new, Without(r, s, d))
BY CatalogRecoveryAssumption DEF Without, Nothing, Covers, Tables, Tokens

LEMMA NothingCovered == \A new : Covers(new, Nothing)
BY DEF Covers, Nothing

LEMMA NewestTyped ==
  ASSUME NEW S, NEW s \in Seq(S)
  PROVE  Newest(s) \in Seq(S)
<1>1. CASE Len(s) <= Keep
  BY <1>1 DEF Newest
<1>2. CASE ~(Len(s) <= Keep)
  <2>1. Len(s) - Keep + 1 \in 1..(Len(s) + 1) /\ Len(s) \in Nat
    BY <1>2, CatalogRecoveryAssumption
  <2> QED
    BY <1>2, <2>1 DEF Newest
<1> QED
  BY <1>1, <1>2

\* No two threads are one, and none is Free.
LEMMA ThreadsDiffer ==
  ASSUME NEW p \in Servers, NEW q \in Servers
  PROVE  /\ <<p, "tick">> # <<q, "host">>
         /\ <<p, "tick">> = <<q, "tick">> => p = q
         /\ <<p, "host">> = <<q, "host">> => p = q
         /\ <<p, "tick">> # Free /\ <<p, "host">> # Free
         /\ <<p, "tick">> \in Threads /\ <<p, "host">> \in Threads
BY CatalogRecoveryAssumption DEF Threads

LEMMA UpToken ==
  ASSUME TypeOK, NEW p \in Servers, Up(p)
  PROVE  tok[p] \in Tokens /\ File(p) \in 0..MaxVersions
<1>1. tok[p] \in Tokens
  BY CatalogRecoveryAssumption DEF TypeOK, Up, Tokens
<1> QED
  BY <1>1 DEF TypeOK, File

LEMMA SpentTyped ==
  ASSUME NEW x \in [uploads : 0..MaxUploads, damage : 0..MaxDamage, deaths : 0..MaxDeaths]
  PROVE  /\ x.uploads < MaxUploads => [x EXCEPT !.uploads = x.uploads + 1]
               \in [uploads : 0..MaxUploads, damage : 0..MaxDamage, deaths : 0..MaxDeaths]
         /\ x.damage < MaxDamage => [x EXCEPT !.damage = x.damage + 1]
               \in [uploads : 0..MaxUploads, damage : 0..MaxDamage, deaths : 0..MaxDeaths]
         /\ x.deaths < MaxDeaths => [x EXCEPT !.deaths = x.deaths + 1]
               \in [uploads : 0..MaxUploads, damage : 0..MaxDamage, deaths : 0..MaxDeaths]
<1>1. /\ x.uploads < MaxUploads => x.uploads + 1 \in 0..MaxUploads
      /\ x.damage < MaxDamage => x.damage + 1 \in 0..MaxDamage
      /\ x.deaths < MaxDeaths => x.deaths + 1 \in 0..MaxDeaths
  BY CatalogRecoveryAssumption
<1> QED
  BY <1>1

-----------------------------------------------------------------------------
\* A step that leaves the catalog and the ticks alone, and one that writes the catalog
\* while nobody has its lock, leave every rebuild sound.
LEMMA Apart ==
  ASSUME RecoveryInv, UNCHANGED <<tick, work>>, UNCHANGED store \/ lock = Free
  PROVE  SoundIsSpared' /\ RebuiltCovers'
<1>1. CASE UNCHANGED store
  BY <1>1 DEF RecoveryInv, SoundIsSpared, RebuiltCovers, store, Covers, Nothing
<1>2. CASE lock = Free
  <2>1. \A q \in Servers : tick'[q] \notin {"build", "aside"}
    BY <1>2, ThreadsDiffer DEF RecoveryInv, Locked
  <2> QED
    BY <2>1 DEF SoundIsSpared, RebuiltCovers
<1> QED
  BY <1>1, <1>2

LEMMA InitRecovery == Init => RecoveryInv
<1> SUFFICES ASSUME Init PROVE RecoveryInv
  OBVIOUS
<1>1. TypeOK
  <2>1. st \in Gone \cup {"damaged", "sound"} /\ rows \in Tables
        /\ snaps \in Seq([is : {"sound", "damaged"}, rows : Tables]) /\ lock \in Threads \cup {Free}
    BY NothingTyped DEF Init, Gone
  <2>2. /\ tok \in [Servers -> 0..MaxTokens] /\ minted \in [Servers -> 0..MaxTokens]
        /\ ini \in [Servers -> BOOLEAN]
        /\ file \in [Servers -> [Tokens -> 0..MaxVersions]]
    BY CatalogRecoveryAssumption DEF Init
  <2>3. /\ host \in [Servers -> {"idle", "swapped", "deleted"}]
        /\ tick \in [Servers -> {"idle", "look", "build", "aside", "install",
                                 "adopt", "adopting"}]
        /\ work \in [Servers -> Tables]
    BY NothingTyped DEF Init
  <2>4. spent \in [uploads : 0..MaxUploads, damage : 0..MaxDamage, deaths : 0..MaxDeaths]
    BY CatalogRecoveryAssumption DEF Init
  <2> QED
    BY <2>1, <2>2, <2>3, <2>4 DEF TypeOK
<1>2. GoneIsEmpty
  BY DEF Init, GoneIsEmpty
<1>3. Locked
  BY ThreadsDiffer DEF Init, Locked, Up
<1>4. SoundIsSpared /\ RebuiltCovers
  BY DEF Init, SoundIsSpared, RebuiltCovers
<1> QED
  BY <1>1, <1>2, <1>3, <1>4 DEF RecoveryInv

LEMMA JoinStep ==
  ASSUME RecoveryInv, NEW p \in Servers, Join(p)
  PROVE  RecoveryInv'
<1>1. /\ lock = Free /\ ~Up(p)
      /\ UNCHANGED <<snaps, lock, file, host, tick, work, spent>>
  BY DEF Join, threads
<1>2. /\ tok' \in [Servers -> 0..MaxTokens] /\ minted' \in [Servers -> 0..MaxTokens]
      /\ rows' \in Tables
  <2>1. CASE rows.sess[p] # 0 /\ tok' = [tok EXCEPT ![p] = rows.sess[p]]
             /\ UNCHANGED <<rows, minted>>
    <3>1. rows.sess[p] \in 0..MaxTokens
      BY DEF RecoveryInv, TypeOK, Tables
    <3> QED
      BY <2>1, <3>1 DEF RecoveryInv, TypeOK
  <2>2. CASE /\ minted[p] < MaxTokens /\ minted' = [minted EXCEPT ![p] = @ + 1]
             /\ tok' = [tok EXCEPT ![p] = minted[p] + 1]
             /\ rows' = WithSession(rows, p, minted[p] + 1)
    <3>1. minted[p] + 1 \in 0..MaxTokens
      BY <2>2, CatalogRecoveryAssumption DEF RecoveryInv, TypeOK
    <3> QED
      BY <2>2, <3>1, SessionTyped DEF RecoveryInv, TypeOK
  <2> QED
    BY <2>1, <2>2 DEF Join
<1>3. TypeOK'
  <2>1. st' \in Gone \cup {"damaged", "sound"} /\ ini' \in [Servers -> BOOLEAN]
    BY DEF Join, RecoveryInv, TypeOK, Opened
  <2> QED
    BY <1>1, <1>2, <2>1 DEF RecoveryInv, TypeOK
<1>4. GoneIsEmpty'
  BY DEF GoneIsEmpty, Join, Opened, Gone
<1>5. Locked'
  <2>1. host[p] = "idle" /\ tick[p] = "idle"
    BY <1>1 DEF RecoveryInv, Locked
  <2>2. \A q \in Servers : q # p => tok'[q] = tok[q]
    BY DEF Join, RecoveryInv, TypeOK
  <2> SUFFICES ASSUME NEW q \in Servers PROVE Locked!(q)'
    BY DEF Locked
  <2>11. CASE q = p
    BY <1>1, <2>1, <2>2, <2>11, ThreadsDiffer DEF RecoveryInv, Locked, Up, File, Gone
  <2>12. CASE q # p
    <3>1. Locked!(q) /\ Locked!(p)
      BY DEF RecoveryInv, Locked
    <3>2. /\ <<p, "tick">> # <<q, "tick">> /\ <<p, "host">> # <<q, "host">>
          /\ <<p, "tick">> # <<q, "host">> /\ <<p, "host">> # <<q, "tick">>
          /\ Free \notin {<<p, "tick">>, <<p, "host">>, <<q, "tick">>, <<q, "host">>}
      BY <2>12, ThreadsDiffer
    <3>3. UNCHANGED <<tick[q], host[q], tok[q], file[q]>> /\ (st' \in Gone => st \in Gone)
      BY <1>1, <2>1, <2>2, <2>12 DEF Join, Opened, Gone
    <3> QED
      BY <1>1, <2>1, <2>2, <3>1, <3>2, <3>3 DEF Up, File, Gone
  <2> QED
    BY <2>11, <2>12
<1>6. SoundIsSpared' /\ RebuiltCovers'
  BY <1>1, Apart
<1> QED
  BY <1>3, <1>4, <1>5, <1>6 DEF RecoveryInv

\* The two halves of a registration.
LEMMA DeleteRowStep ==
  ASSUME RecoveryInv, NEW p \in Servers, NEW t \in {"host", "tick"}, Up(p), DeleteRow(p, t)
  PROVE  /\ lock = Free /\ lock' = <<p, t>> /\ lock' \in Threads
         /\ st' \in {"damaged", "sound"} /\ rows' \in Tables /\ ini' \in [Servers -> BOOLEAN]
<1>1. rows' = WithRow(rows, p, 0) /\ 0 \in 0..MaxVersions
  BY CatalogRecoveryAssumption DEF DeleteRow
<1>2. rows' \in Tables
  BY <1>1, UpToken, RowTyped DEF RecoveryInv, TypeOK
<1>3. st' \in {"damaged", "sound"}
  BY DEF DeleteRow, Opened
<1> QED
  BY <1>2, <1>3 DEF DeleteRow, RecoveryInv, TypeOK, Threads

LEMMA InsertRowStep ==
  ASSUME RecoveryInv, NEW p \in Servers, NEW t \in {"host", "tick"}, Up(p), InsertRow(p, t)
  PROVE  lock = <<p, t>> /\ lock' = Free /\ UNCHANGED <<st, ini>> /\ rows' \in Tables
<1>1. rows' = WithRow(rows, p, File(p))
  BY DEF InsertRow
<1>2. rows' \in Tables
  BY <1>1, UpToken, RowTyped DEF RecoveryInv, TypeOK
<1> QED
  BY <1>2 DEF InsertRow

LEMMA RefusedStep ==
  ASSUME RecoveryInv, NEW p \in Servers, NEW t \in {"host", "tick"}, Refused(p, t)
  PROVE  /\ lock \in {Free, <<p, t>>} /\ lock' = Free /\ UNCHANGED rows
         /\ st' \in {"bare", "damaged"}
         /\ st' = "bare" => lock = Free /\ st \in Gone
BY DEF Refused, store

LEMMA HostSwapStep ==
  ASSUME RecoveryInv, NEW p \in Servers, HostSwap(p)
  PROVE  RecoveryInv'
<1>1. /\ Up(p) /\ host[p] = "idle" /\ tick[p] \notin {"adopt", "adopting"}
      /\ UNCHANGED <<st, rows, snaps, lock, tok, minted, ini, tick, work>>
  BY DEF HostSwap, store
<1> DEFINE f == [file[p] EXCEPT ![tok[p]] = File(p) + 1]
<1>2. tok[p] \in Tokens /\ File(p) \in 0..MaxVersions /\ File(p) < MaxVersions
  BY <1>1, UpToken DEF RecoveryInv, HostSwap
<1>3. f \in [Tokens -> 0..MaxVersions] /\ f[tok[p]] # 0
  <2>1. file[p] \in [Tokens -> 0..MaxVersions] /\ File(p) + 1 \in 0..MaxVersions
        /\ File(p) + 1 # 0
    <3>1. file[p] \in [Tokens -> 0..MaxVersions]
      BY DEF RecoveryInv, TypeOK
    <3>2. MaxVersions \in Nat
      BY CatalogRecoveryAssumption
    <3> HIDE DEF File
    <3> QED
      BY <1>2, <3>1, <3>2
  <2> QED
    BY <2>1, <1>2
<1>4. file' = [file EXCEPT ![p] = f]
  BY DEF HostSwap
<1>5. /\ file' \in [Servers -> [Tokens -> 0..MaxVersions]]
      /\ file'[p] = f /\ \A q \in Servers : q # p => file'[q] = file[q]
  <2> HIDE DEF f
  <2> QED
    BY <1>3, <1>4 DEF RecoveryInv, TypeOK
<1> HIDE DEF f
<1>6. /\ host' \in [Servers -> {"idle", "swapped", "deleted"}] /\ host'[p] = "swapped"
      /\ \A q \in Servers : q # p => host'[q] = host[q]
  BY DEF HostSwap, RecoveryInv, TypeOK
<1>7. spent' \in [uploads : 0..MaxUploads, damage : 0..MaxDamage, deaths : 0..MaxDeaths]
  BY SpentTyped DEF HostSwap, RecoveryInv, TypeOK
<1>8. TypeOK'
  BY <1>1, <1>5, <1>6, <1>7 DEF RecoveryInv, TypeOK
<1>9. GoneIsEmpty'
  BY <1>1 DEF RecoveryInv, GoneIsEmpty
<1>10. Locked'
  BY <1>1, <1>3, <1>5, <1>6 DEF RecoveryInv, Locked, Up, File
<1>11. SoundIsSpared' /\ RebuiltCovers'
  BY <1>1, Apart DEF store
<1> QED
  BY <1>8, <1>9, <1>10, <1>11 DEF RecoveryInv

LEMMA HostRowStep ==
  ASSUME RecoveryInv, NEW p \in Servers, HostRow(p)
  PROVE  RecoveryInv'
<1>1. UNCHANGED <<snaps, tok, minted, file, tick, work, spent>>
  BY DEF HostRow
<1>2. Up(p) /\ host[p] # "idle" /\ File(p) # 0 /\ tick[p] \notin {"adopt", "adopting"}
  BY DEF HostRow, RecoveryInv, Locked
<1>3. /\ host' \in [Servers -> {"idle", "swapped", "deleted"}]
      /\ \A q \in Servers : q # p => host'[q] = host[q]
  BY DEF HostRow, RecoveryInv, TypeOK
<1>4. \/ /\ lock = Free /\ lock' = <<p, "host">> /\ host[p] = "swapped" /\ host'[p] = "deleted"
         /\ st' \in {"damaged", "sound"} /\ rows' \in Tables /\ ini' \in [Servers -> BOOLEAN]
      \/ /\ lock = <<p, "host">> /\ lock' = Free /\ host'[p] = "idle"
         /\ rows' \in Tables /\ UNCHANGED <<st, ini>>
      \/ /\ lock \in {Free, <<p, "host">>} /\ lock' = Free /\ host'[p] = "idle"
         /\ st' \in {"bare", "damaged"} /\ UNCHANGED <<rows, ini>>
         /\ st' = "bare" => lock = Free /\ st \in Gone
  <2>1. CASE host[p] = "swapped" /\ DeleteRow(p, "host") /\ host' = [host EXCEPT ![p] = "deleted"]
    BY <2>1, <1>2, DeleteRowStep DEF RecoveryInv, TypeOK
  <2>2. CASE host[p] = "deleted" /\ InsertRow(p, "host") /\ host' = [host EXCEPT ![p] = "idle"]
    BY <2>2, <1>2, InsertRowStep DEF RecoveryInv, TypeOK
  <2>3. CASE Refused(p, "host") /\ UNCHANGED ini /\ host' = [host EXCEPT ![p] = "idle"]
    BY <2>3, RefusedStep DEF RecoveryInv, TypeOK
  <2> QED
    BY <2>1, <2>2, <2>3 DEF HostRow
<1>5. TypeOK'
  <2>1. /\ st' \in Gone \cup {"damaged", "sound"} /\ rows' \in Tables
        /\ lock' \in Threads \cup {Free} /\ ini' \in [Servers -> BOOLEAN]
    BY <1>4, ThreadsDiffer DEF RecoveryInv, TypeOK, Gone
  <2> QED
    BY <1>1, <1>3, <2>1 DEF RecoveryInv, TypeOK
<1>6. lock = <<p, "host">> => host[p] = "deleted" /\ st \notin Gone
  BY DEF RecoveryInv, Locked
<1>7. GoneIsEmpty'
  BY <1>4, <1>6 DEF RecoveryInv, GoneIsEmpty, Gone
<1>8. Locked'
  <2> SUFFICES ASSUME NEW q \in Servers PROVE Locked!(q)'
    BY DEF Locked
  <2>11. CASE q = p
    BY <1>1, <1>2, <1>3, <1>4, <2>11, ThreadsDiffer DEF RecoveryInv, Locked, Up, File, Gone
  <2>12. CASE q # p
    <3>1. Locked!(q) /\ Locked!(p)
      BY DEF RecoveryInv, Locked
    <3>2. /\ <<p, "tick">> # <<q, "tick">> /\ <<p, "host">> # <<q, "host">>
          /\ <<p, "tick">> # <<q, "host">> /\ <<p, "host">> # <<q, "tick">>
          /\ Free \notin {<<p, "tick">>, <<p, "host">>, <<q, "tick">>, <<q, "host">>}
      BY <2>12, ThreadsDiffer
    <3>3. UNCHANGED <<tick[q], host[q], tok[q], file[q]>>
      BY <1>1, <1>2, <1>3, <1>4, <2>12
    <3> QED
      BY <1>1, <1>2, <1>3, <1>4, <3>1, <3>2, <3>3 DEF Up, File, Gone
  <2> QED
    BY <2>11, <2>12
<1>9. SoundIsSpared' /\ RebuiltCovers'
  <2>1. \A q \in Servers : tick[q] \notin {"build", "aside"}
    BY <1>4, ThreadsDiffer DEF RecoveryInv, Locked
  <2> QED
    BY <1>1, <2>1 DEF SoundIsSpared, RebuiltCovers
<1> QED
  BY <1>5, <1>7, <1>8, <1>9 DEF RecoveryInv

LEMMA AdoptLookStep ==
  ASSUME RecoveryInv, NEW p \in Servers, AdoptLook(p)
  PROVE  RecoveryInv'
<1>1. /\ Up(p) /\ host[p] = "idle" /\ File(p) # 0 /\ tick[p] = "idle"
      /\ UNCHANGED <<rows, snaps, lock, tok, minted, file, host, work, spent>>
  BY DEF AdoptLook, Orphaned
<1>2. st' \in {"damaged", "sound"} /\ (st' = "damaged" => st = "damaged")
  BY DEF AdoptLook, Opened
<1>3. /\ tick' \in [Servers -> {"idle", "look", "build", "aside", "install",
                                "adopt", "adopting"}]
      /\ tick'[p] = "adopt" /\ \A q \in Servers : q # p => tick'[q] = tick[q]
      /\ ini' \in [Servers -> BOOLEAN]
  BY DEF AdoptLook, RecoveryInv, TypeOK
<1>4. TypeOK'
  BY <1>1, <1>2, <1>3 DEF RecoveryInv, TypeOK
<1>5. GoneIsEmpty'
  BY <1>2 DEF GoneIsEmpty, Gone
<1>6. Locked'
  BY <1>1, <1>2, <1>3 DEF RecoveryInv, Locked, Up, File, Gone
<1>7. SoundIsSpared'
  <2>1. st # "sound" /\ st' = "sound" => rows = Nothing
    BY DEF AdoptLook, Opened, RecoveryInv, GoneIsEmpty, TypeOK
  <2> QED
    BY <1>1, <1>3, <2>1 DEF RecoveryInv, SoundIsSpared, Nothing
<1>8. RebuiltCovers'
  BY <1>1, <1>3 DEF RecoveryInv, RebuiltCovers, Covers
<1> QED
  BY <1>4, <1>5, <1>6, <1>7, <1>8 DEF RecoveryInv

LEMMA AdoptRowStep ==
  ASSUME RecoveryInv, NEW p \in Servers, AdoptRow(p)
  PROVE  RecoveryInv'
<1>1. UNCHANGED <<snaps, tok, minted, file, host, work, spent>>
  BY DEF AdoptRow
<1>2. Up(p) /\ tick[p] \in {"adopt", "adopting"} /\ File(p) # 0 /\ host[p] = "idle"
  BY DEF AdoptRow, RecoveryInv, Locked
<1>3. /\ tick' \in [Servers -> {"idle", "look", "build", "aside", "install",
                                "adopt", "adopting"}]
      /\ \A q \in Servers : q # p => tick'[q] = tick[q]
  BY DEF AdoptRow, RecoveryInv, TypeOK
<1>4. \/ /\ lock = Free /\ lock' = <<p, "tick">> /\ tick'[p] = "adopting"
         /\ st' \in {"damaged", "sound"} /\ rows' \in Tables /\ ini' \in [Servers -> BOOLEAN]
      \/ /\ lock = <<p, "tick">> /\ tick[p] = "adopting" /\ lock' = Free /\ tick'[p] = "idle"
         /\ rows' \in Tables /\ UNCHANGED <<st, ini>>
      \/ /\ lock \in {Free, <<p, "tick">>} /\ lock' = Free /\ tick'[p] = "idle"
         /\ st' \in {"bare", "damaged"} /\ UNCHANGED <<rows, ini>>
         /\ st' = "bare" => lock = Free /\ st \in Gone
  <2>1. CASE tick[p] = "adopt" /\ DeleteRow(p, "tick") /\ tick' = [tick EXCEPT ![p] = "adopting"]
    BY <2>1, <1>2, DeleteRowStep DEF RecoveryInv, TypeOK
  <2>2. CASE tick[p] = "adopting" /\ InsertRow(p, "tick") /\ tick' = [tick EXCEPT ![p] = "idle"]
    BY <2>2, <1>2, InsertRowStep DEF RecoveryInv, TypeOK
  <2>3. CASE Refused(p, "tick") /\ UNCHANGED ini /\ tick' = [tick EXCEPT ![p] = "idle"]
    BY <2>3, RefusedStep DEF RecoveryInv, TypeOK
  <2> QED
    BY <2>1, <2>2, <2>3 DEF AdoptRow
<1>5. TypeOK'
  <2>1. /\ st' \in Gone \cup {"damaged", "sound"} /\ rows' \in Tables
        /\ lock' \in Threads \cup {Free} /\ ini' \in [Servers -> BOOLEAN]
    BY <1>4, ThreadsDiffer DEF RecoveryInv, TypeOK, Gone
  <2> QED
    BY <1>1, <1>3, <2>1 DEF RecoveryInv, TypeOK
<1>6. lock = <<p, "tick">> => tick[p] = "adopting" /\ st \notin Gone
  BY <1>2 DEF RecoveryInv, Locked
<1>7. GoneIsEmpty'
  BY <1>4, <1>6 DEF RecoveryInv, GoneIsEmpty, Gone
<1>8. Locked'
  <2> SUFFICES ASSUME NEW q \in Servers PROVE Locked!(q)'
    BY DEF Locked
  <2>11. CASE q = p
    BY <1>1, <1>2, <1>3, <1>4, <2>11, ThreadsDiffer DEF RecoveryInv, Locked, Up, File, Gone
  <2>12. CASE q # p
    <3>1. Locked!(q) /\ Locked!(p)
      BY DEF RecoveryInv, Locked
    <3>2. /\ <<p, "tick">> # <<q, "tick">> /\ <<p, "host">> # <<q, "host">>
          /\ <<p, "tick">> # <<q, "host">> /\ <<p, "host">> # <<q, "tick">>
          /\ Free \notin {<<p, "tick">>, <<p, "host">>, <<q, "tick">>, <<q, "host">>}
      BY <2>12, ThreadsDiffer
    <3>3. UNCHANGED <<tick[q], host[q], tok[q], file[q]>>
      BY <1>1, <1>2, <1>3, <1>4, <2>12
    <3> QED
      BY <1>1, <1>2, <1>3, <1>4, <3>1, <3>2, <3>3 DEF Up, File, Gone
  <2> QED
    BY <2>11, <2>12
<1>9. SoundIsSpared' /\ RebuiltCovers'
  <2>1. lock \in {Free, <<p, "tick">>} /\ tick'[p] \in {"adopting", "idle"}
    BY <1>4
  <2>2. \A q \in Servers : q # p => lock # <<q, "tick">>
    BY <2>1, ThreadsDiffer
  <2>3. \A q \in Servers : q # p => tick[q] \notin {"build", "aside"}
    BY <2>2 DEF RecoveryInv, Locked
  <2>4. \A q \in Servers : tick'[q] \notin {"build", "aside"}
    BY <1>3, <2>1, <2>3
  <2> QED
    BY <2>4 DEF SoundIsSpared, RebuiltCovers
<1> QED
  BY <1>5, <1>7, <1>8, <1>9 DEF RecoveryInv

LEMMA LookStep ==
  ASSUME RecoveryInv, NEW p \in Servers, Look(p) \/ Relook(p)
  PROVE  RecoveryInv'
<1>1. UNCHANGED <<st, rows, snaps, tok, minted, ini, file, host, work, spent>>
  BY DEF Look, Relook, store
<1>2. /\ Up(p) /\ tick[p] \in {"idle", "look"}
      /\ tick' \in [Servers -> {"idle", "look", "build", "aside", "install",
                                "adopt", "adopting"}]
      /\ \A q \in Servers : q # p => tick'[q] = tick[q]
  <2>1. Up(p) /\ tick[p] \in {"idle", "look"}
    BY DEF Look, Relook, RecoveryInv, Locked
  <2>2. PICK v \in {"idle", "look", "build"} : tick' = [tick EXCEPT ![p] = v]
    BY DEF Look, Relook
  <2>3. tick \in [Servers -> {"idle", "look", "build", "aside", "install",
                             "adopt", "adopting"}]
    BY DEF RecoveryInv, TypeOK
  <2> QED
    BY <2>1, <2>2, <2>3
<1>3. \/ tick'[p] \in {"idle", "look"} /\ lock' = lock
      \/ tick'[p] = "build" /\ lock = Free /\ lock' = <<p, "tick">> /\ st # "sound"
  <2>1. \A v : tick' = [tick EXCEPT ![p] = v] => tick'[p] = v
    BY DEF RecoveryInv, TypeOK
  <2>2. CASE Look(p)
    BY <2>1, <2>2 DEF Look
  <2>3. CASE Relook(p)
    BY <2>1, <2>3 DEF Relook
  <2> QED
    BY <2>2, <2>3
<1>4. TypeOK'
  <2>1. lock' \in Threads \cup {Free}
    BY <1>3, ThreadsDiffer DEF RecoveryInv, TypeOK
  <2> QED
    BY <1>1, <1>2, <2>1 DEF RecoveryInv, TypeOK
<1>5. GoneIsEmpty'
  BY <1>1 DEF RecoveryInv, GoneIsEmpty
<1>6. Locked'
  <2> SUFFICES ASSUME NEW q \in Servers PROVE Locked!(q)'
    BY DEF Locked
  <2>11. CASE q = p
    BY <1>1, <1>2, <1>3, <2>11, ThreadsDiffer DEF RecoveryInv, Locked, Up, File, Gone
  <2>12. CASE q # p
    <3>1. Locked!(q) /\ Locked!(p)
      BY DEF RecoveryInv, Locked
    <3>2. /\ <<p, "tick">> # <<q, "tick">> /\ <<p, "host">> # <<q, "host">>
          /\ <<p, "tick">> # <<q, "host">> /\ <<p, "host">> # <<q, "tick">>
          /\ Free \notin {<<p, "tick">>, <<p, "host">>, <<q, "tick">>, <<q, "host">>}
      BY <2>12, ThreadsDiffer
    <3>3. UNCHANGED <<tick[q], host[q], tok[q], file[q]>>
      BY <1>1, <1>2, <1>3, <2>12
    <3> QED
      BY <1>1, <1>2, <1>3, <3>1, <3>2, <3>3 DEF Up, File, Gone
  <2> QED
    BY <2>11, <2>12
<1>7. SoundIsSpared'
  BY <1>1, <1>2, <1>3 DEF RecoveryInv, SoundIsSpared, Nothing
<1>8. RebuiltCovers'
  BY <1>1, <1>2, <1>3 DEF RecoveryInv, RebuiltCovers, Covers
<1> QED
  BY <1>4, <1>5, <1>6, <1>7, <1>8 DEF RecoveryInv

LEMMA BuildStep ==
  ASSUME RecoveryInv, NEW p \in Servers, Build(p)
  PROVE  RecoveryInv'
<1>1. /\ UNCHANGED <<st, rows, snaps, lock, tok, minted, ini, file, host, spent>>
      /\ tick[p] = "build"
  BY DEF Build, store
<1>2. Up(p) /\ tok[p] \in Tokens /\ rows \in Tables
  BY <1>1, UpToken DEF RecoveryInv, Locked, TypeOK
<1> DEFINE new == WithOwn(p, Salvaged(Base, rows))
<1>3. new \in Tables /\ new.sess[p] # 0 /\ Covers(new, rows)
  <2>1. Base \in Tables
    BY BaseTyped DEF RecoveryInv
  <2>2. Salvaged(Base, rows) \in Tables /\ Covers(Salvaged(Base, rows), rows)
    BY <1>2, <2>1, SalvagedTyped
  <2> QED
    BY <1>2, <2>2, OwnTyped
<1>4. work' = [work EXCEPT ![p] = new] /\ tick' = [tick EXCEPT ![p] = "aside"]
  BY DEF Build
<1> HIDE DEF new
<1>5. /\ tick' \in [Servers -> {"idle", "look", "build", "aside", "install",
                                "adopt", "adopting"}]
      /\ tick'[p] = "aside" /\ \A q \in Servers : q # p => tick'[q] = tick[q]
      /\ work' \in [Servers -> Tables]
      /\ work'[p] = new /\ \A q \in Servers : q # p => work'[q] = work[q]
  BY <1>3, <1>4 DEF RecoveryInv, TypeOK
<1>6. TypeOK'
  BY <1>1, <1>5 DEF RecoveryInv, TypeOK
<1>7. GoneIsEmpty'
  BY <1>1 DEF RecoveryInv, GoneIsEmpty
<1>8. Locked'
  BY <1>1, <1>5 DEF RecoveryInv, Locked, Up, File
<1>9. SoundIsSpared'
  BY <1>1, <1>5 DEF RecoveryInv, SoundIsSpared, Nothing
<1>10. RebuiltCovers'
  BY <1>1, <1>3, <1>5 DEF RecoveryInv, RebuiltCovers, Covers
<1> QED
  BY <1>6, <1>7, <1>8, <1>9, <1>10 DEF RecoveryInv

LEMMA SetAsideStep ==
  ASSUME RecoveryInv, NEW p \in Servers, SetAside(p)
  PROVE  RecoveryInv'
<1>1. /\ st' = "missing" /\ rows' = Nothing /\ tick[p] = "aside"
      /\ UNCHANGED <<snaps, lock, tok, minted, ini, file, host, work, spent>>
  BY DEF SetAside
<1>2. /\ tick' \in [Servers -> {"idle", "look", "build", "aside", "install",
                                "adopt", "adopting"}]
      /\ tick'[p] = "install" /\ \A q \in Servers : q # p => tick'[q] = tick[q]
  BY DEF SetAside, RecoveryInv, TypeOK
<1>3. TypeOK'
  BY <1>1, <1>2, NothingTyped DEF RecoveryInv, TypeOK, Gone
<1>4. GoneIsEmpty'
  BY <1>1 DEF GoneIsEmpty, Nothing
<1>5. lock = <<p, "tick">>
  BY <1>1 DEF RecoveryInv, Locked
<1>6. Locked'
  BY <1>1, <1>2, <1>5, ThreadsDiffer DEF RecoveryInv, Locked, Up, File
<1>7. SoundIsSpared' /\ RebuiltCovers'
  <2>1. \A q \in Servers : tick'[q] \notin {"build", "aside"}
    BY <1>2, <1>5, ThreadsDiffer DEF RecoveryInv, Locked
  <2> QED
    BY <2>1 DEF SoundIsSpared, RebuiltCovers
<1> QED
  BY <1>3, <1>4, <1>6, <1>7 DEF RecoveryInv

LEMMA InstallStep ==
  ASSUME RecoveryInv, NEW p \in Servers, Install(p)
  PROVE  RecoveryInv'
<1>1. /\ st' = "sound" /\ rows' = work[p] /\ tick[p] = "install" /\ lock' = Free
      /\ UNCHANGED <<snaps, tok, minted, file, host, spent>>
  BY DEF Install
<1>2. /\ tick' \in [Servers -> {"idle", "look", "build", "aside", "install",
                                "adopt", "adopting"}]
      /\ tick'[p] = "idle" /\ \A q \in Servers : q # p => tick'[q] = tick[q]
      /\ work' \in [Servers -> Tables] /\ ini' \in [Servers -> BOOLEAN]
  BY NothingTyped DEF Install, RecoveryInv, TypeOK
<1>3. TypeOK'
  BY <1>1, <1>2 DEF RecoveryInv, TypeOK
<1>4. GoneIsEmpty'
  BY <1>1 DEF GoneIsEmpty, Gone
<1>5. lock = <<p, "tick">>
  BY <1>1 DEF RecoveryInv, Locked
<1>6. Locked'
  BY <1>1, <1>2, <1>5, ThreadsDiffer DEF RecoveryInv, Locked, Up, File, Gone
<1>7. SoundIsSpared' /\ RebuiltCovers'
  <2>1. \A q \in Servers : tick'[q] \notin {"build", "aside"}
    BY <1>2, <1>5, ThreadsDiffer DEF RecoveryInv, Locked
  <2> QED
    BY <2>1 DEF SoundIsSpared, RebuiltCovers
<1> QED
  BY <1>3, <1>4, <1>6, <1>7 DEF RecoveryInv

LEMMA SnapshotStep ==
  ASSUME RecoveryInv, NEW p \in Servers, Snapshot(p)
  PROVE  RecoveryInv'
<1> DEFINE R == [is : {"sound", "damaged"}, rows : Tables]
           s == Append(snaps, [is |-> st, rows |-> rows])
<1>1. UNCHANGED <<st, rows, lock, tok, minted, ini, file, host, tick, work, spent>>
      /\ snaps' = Newest(s)
  BY DEF Snapshot, store, threads
<1>2. s \in Seq(R)
  <2>1. [is |-> st, rows |-> rows] \in R /\ snaps \in Seq(R)
    BY DEF Snapshot, RecoveryInv, TypeOK
  <2> HIDE DEF R
  <2> QED
    BY <2>1
<1>3. snaps' \in Seq(R)
  <2> HIDE DEF R, s
  <2> QED
    BY <1>1, <1>2, NewestTyped
<1>4. TypeOK'
  BY <1>1, <1>3 DEF RecoveryInv, TypeOK
<1>5. GoneIsEmpty' /\ Locked'
  BY <1>1 DEF RecoveryInv, GoneIsEmpty, Locked, Up, File
<1>6. SoundIsSpared' /\ RebuiltCovers'
  BY <1>1, Apart DEF store
<1> QED
  BY <1>4, <1>5, <1>6 DEF RecoveryInv

\* A process that connects to a catalog that is gone makes an empty one of it.
LEMMA PeekStep ==
  ASSUME RecoveryInv, (\E p \in Servers : Peek(p)) \/ Stranger
  PROVE  RecoveryInv'
<1>1. /\ UNCHANGED <<rows, snaps, lock, tok, minted, file, host, tick, work, spent>>
      /\ st \in Gone /\ st' \in {"bare", "sound"}
  BY DEF Peek, Created, Stranger, threads
<1>2. ini' \in [Servers -> BOOLEAN]
  BY DEF Peek, Stranger, RecoveryInv, TypeOK
<1>3. rows = Nothing
  BY <1>1 DEF RecoveryInv, GoneIsEmpty
<1>4. TypeOK'
  BY <1>1, <1>2 DEF RecoveryInv, TypeOK, Gone
<1>5. GoneIsEmpty'
  BY <1>1, <1>3 DEF GoneIsEmpty, Nothing
<1>6. Locked'
  BY <1>1 DEF RecoveryInv, Locked, Up, File
<1>7. SoundIsSpared'
  BY <1>1, <1>3 DEF SoundIsSpared, Nothing
<1>8. RebuiltCovers'
  BY <1>1 DEF RecoveryInv, RebuiltCovers, Covers
<1> QED
  BY <1>4, <1>5, <1>6, <1>7, <1>8 DEF RecoveryInv

LEMMA DieStep ==
  ASSUME RecoveryInv, NEW p \in Servers, Die(p)
  PROVE  RecoveryInv'
<1>1. /\ UNCHANGED <<st, rows, snaps, minted, file>>
      /\ lock' = IF lock \in {<<p, "host">>, <<p, "tick">>} THEN Free ELSE lock
  BY DEF Die, store
<1>2. /\ tok' \in [Servers -> 0..MaxTokens] /\ ini' \in [Servers -> BOOLEAN]
      /\ tok'[p] = 0 /\ \A q \in Servers : q # p => tok'[q] = tok[q]
  BY CatalogRecoveryAssumption DEF Die, RecoveryInv, TypeOK
<1>3. /\ host' \in [Servers -> {"idle", "swapped", "deleted"}]
      /\ host'[p] = "idle" /\ \A q \in Servers : q # p => host'[q] = host[q]
      /\ tick' \in [Servers -> {"idle", "look", "build", "aside", "install",
                                "adopt", "adopting"}]
      /\ tick'[p] = "idle" /\ \A q \in Servers : q # p => tick'[q] = tick[q]
  BY DEF Die, RecoveryInv, TypeOK
<1>4. /\ work' \in [Servers -> Tables]
      /\ \A q \in Servers : q # p => work'[q] = work[q]
  BY NothingTyped DEF Die, RecoveryInv, TypeOK
<1>5. spent' \in [uploads : 0..MaxUploads, damage : 0..MaxDamage, deaths : 0..MaxDeaths]
  BY SpentTyped DEF Die, RecoveryInv, TypeOK
<1>6. TypeOK'
  <2>1. lock' \in Threads \cup {Free}
    BY <1>1 DEF RecoveryInv, TypeOK
  <2> QED
    BY <1>1, <1>2, <1>3, <1>4, <1>5, <2>1 DEF RecoveryInv, TypeOK
<1>7. GoneIsEmpty'
  BY <1>1 DEF RecoveryInv, GoneIsEmpty
<1>8. Locked'
  <2> SUFFICES ASSUME NEW q \in Servers PROVE Locked!(q)'
    BY DEF Locked
  <2>11. CASE q = p
    BY <1>1, <1>2, <1>3, <2>11, ThreadsDiffer DEF RecoveryInv, Locked, Up, File, Gone
  <2>12. CASE q # p
    <3>1. Locked!(q) /\ Locked!(p)
      BY DEF RecoveryInv, Locked
    <3>2. /\ <<p, "tick">> # <<q, "tick">> /\ <<p, "host">> # <<q, "host">>
          /\ <<p, "tick">> # <<q, "host">> /\ <<p, "host">> # <<q, "tick">>
          /\ Free \notin {<<p, "tick">>, <<p, "host">>, <<q, "tick">>, <<q, "host">>}
      BY <2>12, ThreadsDiffer
    <3>3. UNCHANGED <<tick[q], host[q], tok[q], file[q]>>
      BY <1>1, <1>2, <1>3, <2>12
    <3> QED
      BY <1>1, <1>2, <1>3, <3>1, <3>2, <3>3 DEF Up, File, Gone
  <2> QED
    BY <2>11, <2>12
<1>9. SoundIsSpared'
  BY <1>1, <1>3 DEF RecoveryInv, SoundIsSpared, Nothing
<1>10. RebuiltCovers'
  BY <1>1, <1>3, <1>4 DEF RecoveryInv, RebuiltCovers, Covers
<1> QED
  BY <1>6, <1>7, <1>8, <1>9, <1>10 DEF RecoveryInv

LEMMA DamageStep ==
  ASSUME RecoveryInv, Damage
  PROVE  RecoveryInv'
<1>1. /\ UNCHANGED <<lock, tok, minted, ini, file, host, tick, work>>
      /\ spent' \in [uploads : 0..MaxUploads, damage : 0..MaxDamage, deaths : 0..MaxDeaths]
  BY SpentTyped DEF Damage, threads, RecoveryInv, TypeOK
<1>2. CASE st = "sound" /\ st' = "damaged" /\ UNCHANGED snaps
           /\ \E s, d \in SUBSET Servers : rows' = Without(rows, s, d)
  <2>1. rows' \in Tables /\ \A new : Covers(new, rows) => Covers(new, rows')
    BY <1>2, WithoutTyped DEF RecoveryInv, TypeOK
  <2>2. TypeOK'
    BY <1>1, <1>2, <2>1 DEF RecoveryInv, TypeOK
  <2>3. GoneIsEmpty'
    BY <1>2 DEF GoneIsEmpty, Gone
  <2>4. Locked'
    BY <1>1, <1>2 DEF RecoveryInv, Locked, Up, File, Gone
  <2>5. SoundIsSpared'
    BY <1>2 DEF SoundIsSpared
  <2>6. \A q \in Servers : Covers(work[q], rows)' <=> Covers(work[q], rows')
    BY <1>1 DEF Covers
  <2>7. RebuiltCovers'
    BY <1>1, <2>1, <2>6 DEF RecoveryInv, RebuiltCovers
  <2> QED
    BY <2>2, <2>3, <2>4, <2>5, <2>7 DEF RecoveryInv
<1>3. CASE lock = Free /\ st' = "missing" /\ rows' = Nothing /\ UNCHANGED snaps
  <2>1. TypeOK'
    BY <1>1, <1>3, NothingTyped DEF RecoveryInv, TypeOK, Gone
  <2>2. GoneIsEmpty'
    BY <1>3 DEF GoneIsEmpty, Nothing
  <2>3. Locked'
    BY <1>1, <1>3, ThreadsDiffer DEF RecoveryInv, Locked, Up, File
  <2>4. SoundIsSpared' /\ RebuiltCovers'
    BY <1>1, <1>3, Apart
  <2> QED
    BY <2>1, <2>2, <2>3, <2>4 DEF RecoveryInv
<1>4. CASE UNCHANGED store /\ \E i \in Sound : snaps' = [snaps EXCEPT ![i].is = "damaged"]
  <2>1. PICK i \in 1..Len(snaps) : snaps' = [snaps EXCEPT ![i].is = "damaged"]
    BY <1>4 DEF Sound
  <2>2. snaps' \in Seq([is : {"sound", "damaged"}, rows : Tables])
    <3>1. snaps \in Seq([is : {"sound", "damaged"}, rows : Tables])
      BY DEF RecoveryInv, TypeOK
    <3>2. snaps' = [snaps EXCEPT ![i] = [snaps[i] EXCEPT !.is = "damaged"]]
      BY <2>1
    <3>3. snaps[i] \in [is : {"sound", "damaged"}, rows : Tables]
      <4> DEFINE R == [is : {"sound", "damaged"}, rows : Tables]
      <4>1. snaps \in Seq(R)
        BY <3>1
      <4> HIDE DEF R
      <4>2. snaps[i] \in R
        BY <4>1
      <4> QED
        BY <4>2 DEF R
    <3>4. [snaps[i] EXCEPT !.is = "damaged"] \in [is : {"sound", "damaged"}, rows : Tables]
      BY <3>3
    <3> QED
      BY <3>1, <3>2, <3>4
  <2>3. TypeOK'
    BY <1>1, <1>4, <2>2 DEF RecoveryInv, TypeOK, store
  <2>4. GoneIsEmpty' /\ Locked'
    BY <1>1, <1>4 DEF RecoveryInv, GoneIsEmpty, Locked, Up, File, store
  <2>5. SoundIsSpared' /\ RebuiltCovers'
    BY <1>1, <1>4, Apart
  <2> QED
    BY <2>3, <2>4, <2>5 DEF RecoveryInv
<1> QED
  BY <1>2, <1>3, <1>4 DEF Damage

LEMMA NextRecovery == RecoveryInv /\ [Next]_vars => RecoveryInv'
<1> SUFFICES ASSUME RecoveryInv, [Next]_vars PROVE RecoveryInv'
  OBVIOUS
<1>1. CASE UNCHANGED vars
  <2>1. /\ UNCHANGED <<st, rows, snaps, lock, tok, minted, ini, file, host, tick, work, spent>>
        /\ UNCHANGED store
    BY <1>1 DEF vars, store, threads
  <2>2. TypeOK' /\ GoneIsEmpty' /\ Locked'
    BY <2>1 DEF RecoveryInv, TypeOK, GoneIsEmpty, Locked, Up, File
  <2>3. SoundIsSpared' /\ RebuiltCovers'
    BY <2>1, Apart
  <2> QED
    BY <2>2, <2>3 DEF RecoveryInv
<1>2. CASE Next
  BY <1>2, JoinStep, HostSwapStep, HostRowStep, LookStep, SnapshotStep, AdoptLookStep,
     AdoptRowStep, BuildStep, SetAsideStep, InstallStep, PeekStep, DieStep, DamageStep
  DEF Next, TickStep
<1> QED
  BY <1>1, <1>2

-----------------------------------------------------------------------------
\* The lock order of the repair, of registrations and of adoptions of autopilot.py and
\* catalog.py holds from the start, for every number of servers.
THEOREM RecoveryInvariance == Spec => []RecoveryInv
<1> QED
  BY InitRecovery, NextRecovery, PTL DEF Spec

\* autopilot.py:1010: whatever servers saw before they got the catalog lock, none of them
\* rebuilds over a sound catalog that has rows.
THEOREM SoundSpared == Spec => []SoundIsSpared
<1>1. RecoveryInv => SoundIsSpared
  BY DEF RecoveryInv
<1> QED
  BY <1>1, RecoveryInvariance, PTL

\* autopilot.py:1089: what a rebuild installs has every row that could still be read.
THEOREM RebuiltKeeps == Spec => []RebuiltCovers
<1>1. RecoveryInv => RebuiltCovers
  BY DEF RecoveryInv
<1> QED
  BY <1>1, RecoveryInvariance, PTL
============================================================================
