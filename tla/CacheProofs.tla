---------------------------- MODULE CacheProofs ----------------------------
(* Proofs about the server cache, for any number of servers, flushers,     *)
(* changes and restarts.                                                   *)
EXTENDS ServerCache, FiniteSetTheorems, TLAPS

\* A flusher reads under RLock, which keeps the writers out until it is done: what it
\* is about to write has the locked fields of the cache as it is now.
JobsAreCurrent ==
  \A f \in All : job[f] # None => job[f].snap.val = cache /\ job[f].snap.ver = ver

Same(f) == IF f.kind = "ok" THEN f.val = cache ELSE cache = Nothing

\* A change that is not in the file has a flusher on the way to it.
Settled == up => \/ pending > 0
                 \/ \E f \in All : job[f] # None
                 \/ file.kind = "torn"
                 \/ unsaved
                 \/ Same(file)

\* After main's flush the file is what it wrote or newer, or others had it open.
Preserved ==
  main = "flushed" =>
    /\ file.kind = "ok" => file.ver >= saved
    /\ up => saved <= ver
    /\ ~crossed => file.kind = "ok" /\ \A f \in Flushers : ~Open(f)

\* Who has the file open alone finds it as it truncated it.
MainAlone ==
  /\ job[Main] # None => main = "stopping"
  /\ Open(Main) /\ ~crossed => file = Empty /\ \A f \in Flushers : ~Open(f)

Idle == ~up => pending = 0 /\ \A f \in All : job[f] = None

Numbered == ver <= changes /\ (file.kind = "ok" => file.ver <= changes)

CacheInv ==
  CacheTypeOK /\ Numbered /\ Idle /\ JobsAreCurrent /\ Settled /\ Preserved /\ MainAlone

USE DEF All, Open

LEMMA LengthIsNat ==
  ASSUME NEW s \in Snapshots
  PROVE  Length(s) \in Nat
<1>1. s.kind = "ok" BY DEF Snapshots
<1>2. IsFiniteSet(Known(s)) BY CacheConstants, FS_Subset DEF Known
<1>3. IsFiniteSet({i \in Known(s) : s.mark[i] = 1}) BY <1>2, FS_Subset
<1>4. /\ Cardinality(Known(s)) \in Nat
      /\ Cardinality({i \in Known(s) : s.mark[i] = 1}) \in Nat
  BY <1>2, <1>3, FS_CardinalityType
<1> QED BY <1>1, <1>4 DEF Length

LEMMA AloneIsWhole ==
  ASSUME NEW s \in Snapshots
  PROVE  Overwritten(Empty, s) = s
<1>1. Length(Empty) = 0 BY DEF Length, Empty
<1> QED BY <1>1, LengthIsNat DEF Overwritten

LEMMA InitHolds == CacheInit => CacheInv
<1> SUFFICES ASSUME CacheInit PROVE CacheInv
  OBVIOUS
<1>1. /\ up = TRUE /\ main = "run" /\ unsaved = FALSE /\ crossed = FALSE
      /\ ver = 0 /\ changes = 0 /\ saved = 0 /\ pending = 0 /\ exits = 0
      /\ cache = Nothing /\ mark = Nothing /\ file = Empty /\ file.kind = "empty"
      /\ \A f \in All : job[f] = None
      /\ job \in [All -> Jobs \cup {None}]
  BY DEF CacheInit, Empty
<1>2. Nothing \in [Servers -> 0 .. MaxChanges] /\ Nothing \in [Servers -> 0 .. 1]
  BY CacheConstants DEF Nothing
<1>3. 0 \in 0 .. MaxChanges
  BY CacheConstants
<1>7. up \in BOOLEAN /\ unsaved \in BOOLEAN /\ crossed \in BOOLEAN
  BY <1>1
<1>4. cache \in [Servers -> 0 .. MaxChanges] /\ mark \in [Servers -> 0 .. 1]
  BY <1>1, <1>2
<1>5. CacheTypeOK
  <2> HIDE DEF All
  <2> QED BY <1>1, <1>3, <1>4, <1>7 DEF CacheTypeOK
<1>6. Numbered
  BY <1>1 DEF Numbered
<1> QED BY <1>1, <1>5, <1>6 DEF CacheInv, Idle, JobsAreCurrent, Settled, Preserved, Same, MainAlone

\* The writers: the cache changes only when nobody flushes, and a flush follows.
LEMMA ChangeKeeps ==
  ASSUME CacheInv, NEW i \in Servers, UpdateServerCache(i) \/ DeleteServerCache(i)
  PROVE  CacheInv'
<1>1. /\ changes \in 0 .. MaxChanges /\ changes' = changes + 1 /\ changes' \in 0 .. MaxChanges
      /\ UNCHANGED <<up, main, job, file, saved, unsaved, crossed, exits>>
      /\ ver' = changes' /\ pending' = pending + 1
      /\ up /\ \A f \in All : job[f] = None
  BY CacheConstants
     DEF CacheInv, CacheTypeOK, UpdateServerCache, DeleteServerCache, SaveCacheAsync, history, NoReader
<1>2. cache' \in [Servers -> 0 .. MaxChanges] /\ mark' \in [Servers -> 0 .. 1]
  BY <1>1, CacheConstants DEF CacheInv, CacheTypeOK, UpdateServerCache, DeleteServerCache
<1>3. CacheTypeOK'
  BY <1>1, <1>2 DEF CacheInv, CacheTypeOK
<1>4. Numbered'
  BY <1>1, CacheConstants DEF CacheInv, CacheTypeOK, Numbered, Snapshots, Empty
<1>5. Idle' /\ JobsAreCurrent' /\ Settled' /\ MainAlone'
  BY <1>1, CacheConstants
     DEF CacheInv, CacheTypeOK, Idle, JobsAreCurrent, Settled, MainAlone
<1>6. Preserved'
  BY <1>1, CacheConstants DEF CacheInv, CacheTypeOK, Numbered, Preserved
<1> QED BY <1>3, <1>4, <1>5, <1>6 DEF CacheInv

LEMMA TouchKeeps ==
  ASSUME CacheInv, NEW i \in Servers, NEW m \in 0 .. 1, Touch(i, m)
  PROVE  CacheInv'
BY DEF CacheInv, CacheTypeOK, Numbered, Touch, history, Idle, JobsAreCurrent, Settled, Preserved,
       MainAlone, Same

LEMMA FlushStartKeeps ==
  ASSUME CacheInv, NEW f \in All, FlushStart(f)
  PROVE  CacheInv'
<1>1. Snapshot \in Snapshots /\ Snapshot.val = cache /\ Snapshot.ver = ver
  BY DEF CacheInv, CacheTypeOK, Snapshot, Snapshots
<1>2. [snap |-> Snapshot, open |-> FALSE] \in Jobs
  BY <1>1 DEF Jobs
<1>3. /\ job'[f] = [snap |-> Snapshot, open |-> FALSE] /\ job'[f] # None /\ ~job'[f].open
      /\ \A g \in All \ {f} : job'[g] = job[g]
      /\ UNCHANGED <<up, main, cache, mark, ver, changes, file, saved, unsaved, crossed, exits>>
      /\ f = Main => main = "stopping"
      /\ job[f] = None
  BY <1>2, NoneIsNoJob DEF CacheInv, CacheTypeOK, FlushStart, cacheVars, history
<1>4. CacheTypeOK' /\ Numbered'
  BY <1>2, <1>3 DEF CacheInv, CacheTypeOK, Numbered, FlushStart
<1>5. Idle' /\ Settled'
  BY <1>3 DEF FlushStart, Idle, Settled
<1>6. JobsAreCurrent'
  BY <1>1, <1>3 DEF CacheInv, JobsAreCurrent
<1>7. Preserved' /\ MainAlone'
  <2>1. \A g \in All : Open(g)' => Open(g) BY <1>3
  <2> QED BY <1>3, <2>1, CacheConstants DEF CacheInv, Preserved, MainAlone
<1> QED BY <1>4, <1>5, <1>6, <1>7 DEF CacheInv

LEMMA FlushOpenKeeps ==
  ASSUME CacheInv, NEW f \in All, FlushOpen(f)
  PROVE  CacheInv'
<1>1. job[f] \in Jobs
  BY DEF CacheInv, CacheTypeOK, FlushOpen
<1> DEFINE j == [snap |-> job[f].snap, open |-> TRUE]
<1>a. j \in Jobs /\ j.snap = job[f].snap /\ j.open
  BY <1>1 DEF Jobs
<1>2. job' = [job EXCEPT ![f] = j]
  BY DEF FlushOpen
<1> HIDE DEF j
<1>3. /\ job'[f] # None /\ job'[f].snap = job[f].snap /\ job[f] # None /\ up
      /\ \A g \in All \ {f} : job'[g] = job[g]
      /\ UNCHANGED <<up, main, cache, mark, ver, changes, pending, saved, unsaved, exits>>
      /\ file' = Empty /\ file'.kind # "ok"
      /\ crossed' = IF f = Main THEN \E g \in Flushers : Open(g)
                                ELSE crossed \/ Open(Main) \/ main = "flushed"
  BY <1>a, <1>2, NoneIsNoJob DEF CacheInv, CacheTypeOK, FlushOpen, cacheVars, Empty
<1>4. CacheTypeOK' /\ Numbered'
  <2>1. job' \in [All -> Jobs \cup {None}] BY <1>a, <1>2 DEF CacheInv, CacheTypeOK
  <2>2. crossed' \in BOOLEAN BY <1>3 DEF CacheInv, CacheTypeOK
  <2> QED BY <1>3, <2>1, <2>2 DEF CacheInv, CacheTypeOK, Numbered, Empty
<1>5. Idle' /\ Settled' /\ JobsAreCurrent'
  BY <1>3 DEF CacheInv, Idle, Settled, JobsAreCurrent
<1>6. Preserved' /\ MainAlone'
  <2>1. CASE f = Main
    <3>1. main = "stopping" BY <1>3, <2>1 DEF CacheInv, MainAlone
    <3>2. \A g \in Flushers : job'[g] = job[g] BY <1>3, <2>1, CacheConstants
    <3> QED BY <1>3, <2>1, <3>1, <3>2 DEF Preserved, MainAlone
  <2>2. CASE f # Main
    <3>1. job'[Main] = job[Main] BY <1>3, <2>2
    <3> QED BY <1>3, <2>2, <3>1 DEF CacheInv, Preserved, MainAlone
  <2> QED BY <2>1, <2>2
<1> QED BY <1>4, <1>5, <1>6 DEF CacheInv

\* Whoever writes last leaves the current fields, or a torn file.
LEMMA FlushWriteKeeps ==
  ASSUME CacheInv, NEW f \in All, FlushWrite(f)
  PROVE  CacheInv'
<1> DEFINE s == job[f].snap
<1>1. job[f] \in Jobs /\ s \in Snapshots /\ s.kind = "ok" /\ s.val = cache /\ s.ver = ver
  BY DEF CacheInv, CacheTypeOK, FlushWrite, Jobs, Snapshots, JobsAreCurrent
<1>2. file' = Overwritten(file, s) /\ (file' = s \/ file' = Torn(Length(file)))
  BY DEF FlushWrite, Overwritten
<1>3. /\ \/ file' \in Snapshots \cup {Empty}
         \/ file'.kind = "torn" /\ file' = Torn(file'.length)
      /\ \/ file' = s
         \/ file'.kind = "torn"
  BY <1>1, <1>2 DEF Torn
<1>4. /\ job' = [job EXCEPT ![f] = None] /\ up /\ Open(f)
      /\ UNCHANGED <<up, cache, mark, ver, changes, pending, crossed, exits>>
      /\ unsaved' = FALSE
      /\ \/ f = Main /\ main' = "flushed" /\ saved' = ver
         \/ f # Main /\ UNCHANGED <<main, saved>>
  BY <1>1 DEF FlushWrite, cacheVars
<1>5. CacheTypeOK' /\ Numbered'
  BY <1>1, <1>3, <1>4 DEF CacheInv, CacheTypeOK, Numbered
<1>6. Idle' /\ JobsAreCurrent'
  BY <1>4 DEF CacheInv, CacheTypeOK, Idle, JobsAreCurrent
<1>7. Settled'
  BY <1>1, <1>3, <1>4 DEF Settled, Same
<1>8. /\ \A g \in All : Open(g)' => Open(g)
      /\ \A g \in All \ {f} : job'[g] = job[g]
      /\ job'[f] = None
  BY <1>4 DEF CacheInv, CacheTypeOK
<1>9. Preserved'
  <2>1. CASE f = Main
    <3>1. crossed \/ (file = Empty /\ \A g \in Flushers : ~Open(g))
      BY <1>4, <2>1 DEF CacheInv, MainAlone
    <3>2. ~crossed => file' = s BY <1>1, <1>2, <3>1, AloneIsWhole
    <3>3. ver \in Nat BY <1>1 DEF CacheInv, CacheTypeOK
    <3> QED BY <1>1, <1>3, <1>4, <1>8, <2>1, <3>1, <3>2, <3>3 DEF Preserved
  <2>2. CASE f # Main
    <3>1. main = "flushed" => crossed BY <1>4, <2>2 DEF CacheInv, Preserved
    <3> QED BY <1>1, <1>3, <1>4, <2>2, <3>1 DEF CacheInv, Preserved
  <2> QED BY <2>1, <2>2
<1>10. MainAlone'
  <2>1. CASE f = Main BY <1>8, <2>1 DEF MainAlone
  <2>2. CASE f # Main
    <3>1. Open(Main) => crossed BY <1>4, <2>2 DEF CacheInv, MainAlone
    <3> QED BY <1>4, <1>8, <2>2, <3>1 DEF CacheInv, MainAlone
  <2> QED BY <2>1, <2>2
<1> QED BY <1>5, <1>6, <1>7, <1>9, <1>10 DEF CacheInv

\* A flush that fails leaves the file, breaks it, or has written what the cache has.
LEMMA FlushFailKeeps ==
  ASSUME CacheInv, NEW f \in All, FlushFail(f)
  PROVE  CacheInv'
<1> DEFINE s == job[f].snap
<1>1. job[f] \in Jobs /\ s \in Snapshots /\ s.kind = "ok" /\ s.ver = ver
  BY DEF CacheInv, CacheTypeOK, FlushFail, Jobs, Snapshots, JobsAreCurrent
<1>2. \/ file' = file
      \/ Open(f) /\ file' = s
      \/ Open(f) /\ \E n : file' = Torn(n)
  BY DEF FlushFail, Damaged, Overwritten
<1>3. \/ file' = file
      \/ Open(f) /\ file' = s
      \/ Open(f) /\ file'.kind = "torn" /\ file' = Torn(file'.length)
  BY <1>2 DEF Torn
<1>4. /\ job' = [job EXCEPT ![f] = None] /\ up /\ job[f] # None
      /\ UNCHANGED <<up, cache, mark, ver, changes, pending, saved, crossed, exits>>
      /\ unsaved' = TRUE
      /\ main' = IF f = Main THEN "failed" ELSE main
  BY DEF FlushFail, cacheVars
<1>5. CacheTypeOK' /\ Numbered'
  BY <1>1, <1>3, <1>4 DEF CacheInv, CacheTypeOK, Numbered
<1>6. Idle' /\ JobsAreCurrent' /\ Settled'
  BY <1>4 DEF CacheInv, CacheTypeOK, Idle, JobsAreCurrent, Settled
<1>7. /\ \A g \in All : Open(g)' => Open(g)
      /\ \A g \in All \ {f} : job'[g] = job[g]
      /\ job'[f] = None
  BY <1>4 DEF CacheInv, CacheTypeOK
<1>8. Preserved'
  <2>1. CASE f = Main BY <1>4, <2>1 DEF Preserved
  <2>2. CASE f # Main
    <3>1. main = "flushed" /\ Open(f) => crossed BY <2>2 DEF CacheInv, Preserved
    <3> QED BY <1>1, <1>3, <1>4, <1>7, <2>2, <3>1 DEF CacheInv, Preserved
  <2> QED BY <2>1, <2>2
<1>9. MainAlone'
  <2>1. CASE f = Main BY <1>7, <2>1 DEF MainAlone
  <2>2. CASE f # Main
    <3>1. Open(Main) /\ Open(f) => crossed BY <2>2 DEF CacheInv, MainAlone
    <3> QED BY <1>3, <1>4, <1>7, <2>2, <3>1 DEF CacheInv, MainAlone
  <2> QED BY <2>1, <2>2
<1> QED BY <1>5, <1>6, <1>8, <1>9 DEF CacheInv

LEMMA RestartKeeps ==
  ASSUME CacheInv, NEW readable \in BOOLEAN, NEW lifted \in SUBSET Servers, Restart(readable, lifted)
  PROVE  CacheInv'
<1>1. /\ Loaded(file) \in [Servers -> 0 .. MaxChanges]
      /\ LoadedMark(file) \in [Servers -> 0 .. 1] /\ Nothing \in [Servers -> 0 .. 1]
      /\ LoadedVer(file) \in 0 .. MaxChanges /\ LoadedVer(file) <= changes
  BY CacheConstants
     DEF CacheInv, CacheTypeOK, Numbered, Loaded, LoadedMark, LoadedVer, Nothing, Snapshots, Empty
<1>2. /\ up' = TRUE /\ main' = "run" /\ saved' = 0 /\ crossed' = FALSE
      /\ unsaved' = (~readable \/ lifted # {})
      /\ UNCHANGED <<pending, job, file, exits>>
      /\ changes' \in 0 .. MaxChanges /\ changes <= changes' /\ 0 \in 0 .. MaxChanges
  BY CacheConstants DEF CacheInv, CacheTypeOK, Restart
<1>3. cache' \in [Servers -> 0 .. MaxChanges] /\ mark' \in [Servers -> 0 .. 1]
  BY <1>1, <1>2 DEF Restart
<1>4. ver' \in 0 .. MaxChanges /\ ver' <= changes'
  <2>1. ver' \in {0, changes', LoadedVer(file)} BY DEF Restart
  <2> QED BY <1>1, <1>2, <2>1, CacheConstants DEF CacheInv, CacheTypeOK
<1>5. CacheTypeOK'
  BY <1>2, <1>3, <1>4 DEF CacheInv, CacheTypeOK
<1>6. Numbered'
  <2>1. file.kind = "ok" => file.ver \in Nat /\ file.ver <= changes
    BY DEF CacheInv, CacheTypeOK, Numbered, Snapshots, Empty
  <2>2. changes \in Nat /\ changes' \in Nat BY <1>2 DEF CacheInv, CacheTypeOK
  <2> QED BY <1>2, <1>4, <2>1, <2>2 DEF Numbered
<1>7. \A f \in All : job[f] = None
  BY DEF CacheInv, Idle, Restart
<1>8. Idle' /\ JobsAreCurrent' /\ Preserved' /\ MainAlone'
  BY <1>2, <1>7 DEF Idle, JobsAreCurrent, Preserved, MainAlone
<1>9. Settled'
  <2>1. CASE ~readable \/ lifted # {} BY <1>2, <2>1 DEF Settled
  <2>2. CASE readable /\ lifted = {}
    <3>1. cache' = Loaded(file) BY <1>1, <2>2 DEF Restart
    <3>2. Loaded(file) = IF file.kind = "ok" THEN file.val ELSE Nothing BY DEF Loaded
    <3> QED BY <1>2, <3>1, <3>2 DEF Settled, Same
  <2> QED BY <2>1, <2>2
<1> QED BY <1>5, <1>6, <1>8, <1>9 DEF CacheInv

LEMMA StepKeeps == CacheInv /\ [CacheNext]_vars => CacheInv'
<1> SUFFICES ASSUME CacheInv, [CacheNext]_vars PROVE CacheInv'
  OBVIOUS
<1>1. CASE Shutdown
  BY <1>1 DEF CacheInv, CacheTypeOK, Numbered, Shutdown, cacheVars, history, Idle, JobsAreCurrent,
              Settled, Preserved, MainAlone, Same
<1>2. CASE Exit
  <2>1. /\ up' = FALSE /\ exits' = exits + 1 /\ pending' = 0
        /\ UNCHANGED <<main, cache, mark, ver, changes, file, saved, unsaved, crossed>>
        /\ job' = [f \in All |-> None]
    BY <1>2 DEF Exit, cacheVars, history
  <2>2. CacheTypeOK' /\ Numbered'
    <3>1. exits' \in Nat /\ pending' \in Nat BY <2>1 DEF CacheInv, CacheTypeOK
    <3>2. job' \in [All -> Jobs \cup {None}] BY <2>1
    <3> QED BY <2>1, <3>1, <3>2 DEF CacheInv, CacheTypeOK, Numbered
  <2>3. \A f \in All : ~Open(f)' /\ job'[f] = None BY <2>1
  <2>4. Idle' /\ JobsAreCurrent' /\ Settled' /\ Preserved' /\ MainAlone'
    BY <2>1, <2>3 DEF CacheInv, Idle, JobsAreCurrent, Settled, Preserved, MainAlone
  <2> QED BY <2>2, <2>4 DEF CacheInv
<1>3. CASE UNCHANGED vars
  BY <1>3 DEF CacheInv, CacheTypeOK, Numbered, vars, cacheVars, history, Idle, JobsAreCurrent,
              Settled, Preserved, MainAlone, Same
<1> QED
  BY <1>1, <1>2, <1>3, ChangeKeeps, TouchKeeps, FlushStartKeeps, FlushOpenKeeps,
     FlushWriteKeeps, FlushFailKeeps, RestartKeeps DEF CacheNext

LEMMA InvHolds == CacheSpec => []CacheInv
BY InitHolds, StepKeeps, PTL DEF CacheSpec

\* The cache, the flushers and the file are type correct.
THEOREM CacheTypeCorrect == CacheSpec => []CacheTypeOK
<1>1. CacheInv => CacheTypeOK
  BY DEF CacheInv
<1> QED BY <1>1, InvHolds, PTL

\* Once the flushers are through and the last one did not fail, a file that can be parsed
\* has the cache's locked fields, whatever the number of flushers, the order they overlap
\* in, and what failed before.
THEOREM CacheFileCatchesUp == CacheSpec => []FileCatchesUp
<1>1. CacheInv => FileCatchesUp
  BY DEF CacheInv, FileCatchesUp, Settled, Same, NoJob, Intact
<1> QED BY <1>1, InvHolds, PTL

\* What main flushed on shutdown is not replaced by an older state, however many flushers
\* overlap it, fail or are cut off by the exit, and it is lost only where another flusher
\* had the file open at the same time or later.
THEOREM CacheShutdownSaves == CacheSpec => []ShutdownSaves
<1>1. CacheInv => ShutdownSaves
  BY DEF CacheInv, ShutdownSaves, Preserved
<1> QED BY <1>1, InvHolds, PTL
=============================================================================
