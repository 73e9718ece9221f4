---------------------------- MODULE ServerCache ----------------------------
(***************************************************************************)
(* The server cache and its file, model/server.go: a map of server records *)
(* under CacheMutex that SaveCacheAsync writes to .cache/server.json, in a *)
(* goroutine of its own after every change.                                *)
(*                                                                         *)
(* A record is the number of the change that wrote its locked fields last  *)
(* (0 when the server is unknown).  Status and LastCheckTime are also set  *)
(* without the mutex, by the offline checker and the handlers of node      *)
(* messages; all that matters of them here is that they change the LENGTH  *)
(* of what is written ("offline" is longer than "online"): a file that two *)
(* flushers write over each other is torn when the last one wrote less.    *)
(* Every step of a flush may fail; nobody repeats it.                      *)
(***************************************************************************)
EXTENDS Naturals, FiniteSets

CONSTANTS
  Servers,    \* server ids
  Flushers,   \* goroutines that can be in FlushServerCache at once (a bound)
  Main,       \* main's call of FlushServerCache on shutdown
  None,       \* a flusher that is not running
  MaxChanges, \* bound: changes under the mutex
  MaxExits    \* bound: ends of the process

ASSUME CacheConstants ==
  /\ IsFiniteSet(Servers)
  /\ Main \notin Flushers
  /\ MaxChanges \in Nat /\ MaxExits \in Nat

VARIABLES
  up,       \* the process runs
  main,     \* main: "run", "stopping" (signal received), "flushed" or "failed"
  cache,    \* ServerCache: per server the change its locked fields come from
  mark,     \* 1 where the fields that are set without the mutex are written longer
  ver,      \* the number of the last change that is in the cache
  changes,  \* changes so far
  pending,  \* flushing goroutines that have not taken the mutex yet
  job,      \* per flusher: what it is writing and whether it truncated the file
  file,     \* server.json
  saved,    \* history: the version that main's flush wrote
  unsaved,  \* history: the last flush to finish failed, or none has finished since the
            \* load changed something or could not read the file
  crossed,  \* history: others had the file open since main's flush opened it
  exits     \* ends of the process so far

cacheVars == <<cache, mark, ver, changes>>
history == <<saved, unsaved, crossed>>
vars == <<up, main, cacheVars, pending, job, file, history, exits>>

All == Flushers \cup {Main}
Empty == [kind |-> "empty"]     \* absent or truncated
Snapshots == [kind : {"ok"}, val : [Servers -> 0 .. MaxChanges],
              mark : [Servers -> 0 .. 1], ver : 0 .. MaxChanges]
Jobs == [snap : Snapshots, open : BOOLEAN]
ASSUME NoneIsNoJob == None \notin Jobs
Snapshot == [kind |-> "ok", val |-> cache, mark |-> mark, ver |-> ver]

Known(s) == {i \in Servers : s.val[i] # 0}
Length(f) ==
  CASE f.kind = "ok" -> 2 * Cardinality(Known(f)) + Cardinality({i \in Known(f) : f.mark[i] = 1})
    [] f.kind = "torn" -> f.length
    [] OTHER -> 0

\* The file after s is written over it from offset 0: torn, that is, not to be parsed,
\* where it was longer.
Torn(n) == [kind |-> "torn", length |-> n]
Overwritten(f, s) == IF Length(f) > Length(s) THEN Torn(Length(f)) ELSE s

\* A write that fails has written nothing, a part, or (when closing fails) everything.
Damaged(f, s) == {f, Overwritten(f, s)}
            \cup {Torn(IF n > Length(f) THEN n ELSE Length(f)) : n \in 1 .. Length(s) - 1}

Nothing == [i \in Servers |-> 0]
NilRecords(f) ==                       \* mutant: keeps the map of a failed Unmarshal
  IF f.kind = "ok" THEN f.val ELSE [i \in Servers |-> None]
Loaded(f) == IF f.kind = "ok" THEN f.val ELSE Nothing
LoadedMark(f) == IF f.kind = "ok" THEN f.mark ELSE Nothing
LoadedVer(f) == IF f.kind = "ok" THEN f.ver ELSE 0

CacheInit ==
  /\ up = TRUE /\ main = "run"
  /\ cache = Nothing /\ mark = Nothing /\ ver = 0 /\ changes = 0
  /\ pending = 0
  /\ job = [f \in All |-> None]
  /\ file = Empty
  /\ saved = 0 /\ unsaved = FALSE /\ crossed = FALSE
  /\ exits = 0

\* CacheMutex.Lock() waits for every flusher, which holds RLock until its file is written.
NoneMarshals == TRUE               \* mutant: RLock only while marshalling
NoReader == \A f \in All : job[f] = None

\* SaveCacheAsync.
UnsavedChange == UNCHANGED pending \* mutant: no save after the change
SaveCacheAsync == pending' = pending + 1

---------------------------------------------------------------------------
(* Changes *)

\* SetServerCache and UpdateServerCache.
UpdateServerCache(i) ==
  /\ up /\ NoReader
  /\ changes < MaxChanges
  /\ changes' = changes + 1
  /\ cache' = [cache EXCEPT ![i] = changes']
  /\ mark' \in {mark, [mark EXCEPT ![i] = 0]}
  /\ ver' = changes'
  /\ SaveCacheAsync
  /\ UNCHANGED <<up, main, job, file, history, exits>>

DeleteServerCache(i) ==
  /\ up /\ NoReader
  /\ changes < MaxChanges
  /\ changes' = changes + 1
  /\ cache' = [cache EXCEPT ![i] = 0]
  /\ mark' = [mark EXCEPT ![i] = 0]
  /\ ver' = changes'
  /\ SaveCacheAsync
  /\ UNCHANGED <<up, main, job, file, history, exits>>

\* The offline checker and the message handlers, without the mutex and without a save.
Touch(i, m) ==
  /\ up /\ cache[i] # 0
  /\ mark' = [mark EXCEPT ![i] = m]
  /\ UNCHANGED <<up, main, cache, ver, changes, pending, job, file, history, exits>>

---------------------------------------------------------------------------
(* FlushServerCache *)

\* RLock and marshal.
FlushStart(f) ==
  /\ up /\ job[f] = None
  /\ IF f = Main THEN main = "stopping" /\ UNCHANGED pending
                 ELSE pending > 0 /\ pending' = pending - 1
  /\ job' = [job EXCEPT ![f] = [snap |-> Snapshot, open |-> FALSE]]
  /\ UNCHANGED <<up, main, cacheVars, file, history, exits>>

Open(f) == job[f] # None /\ job[f].open

\* os.WriteFile: open with O_TRUNC ...
FlushOpen(f) ==
  /\ up /\ job[f] # None /\ ~job[f].open
  /\ job' = [job EXCEPT ![f] = [snap |-> @.snap, open |-> TRUE]]
  /\ file' = Empty
  /\ crossed' = IF f = Main THEN \E g \in Flushers : Open(g)
                            ELSE crossed \/ Open(Main) \/ main = "flushed"
  /\ UNCHANGED <<up, main, cacheVars, pending, saved, unsaved, exits>>

\* ... and write from offset 0, over what another flusher wrote since; then RUnlock.
FlushWrite(f) ==
  /\ up /\ Open(f)
  /\ LET s == job[f].snap IN
     /\ file' = Overwritten(file, s)
     /\ IF f = Main THEN main' = "flushed" /\ saved' = s.ver ELSE UNCHANGED <<main, saved>>
  /\ job' = [job EXCEPT ![f] = None]
  /\ unsaved' = FALSE
  /\ UNCHANGED <<up, cacheVars, pending, crossed, exits>>

\* MkdirAll, MarshalIndent or opening the file fails, or the write: the error is logged
\* and that is all.
FlushFail(f) ==
  /\ up /\ job[f] # None
  /\ file' \in IF Open(f) THEN Damaged(file, job[f].snap) ELSE {file}
  /\ main' = IF f = Main THEN "failed" ELSE main
  /\ job' = [job EXCEPT ![f] = None]
  /\ unsaved' = TRUE
  /\ UNCHANGED <<up, cacheVars, pending, saved, crossed, exits>>

---------------------------------------------------------------------------
(* The process *)

\* The signal; main goes on to FlushServerCache, the other goroutines just go on.
Shutdown ==
  /\ up /\ main = "run"
  /\ main' = "stopping"
  /\ UNCHANGED <<up, cacheVars, pending, job, file, history, exits>>

\* The process ends, killed or by main's os.Exit.
Exit ==
  /\ up /\ exits < MaxExits
  /\ up' = FALSE
  /\ exits' = exits + 1
  /\ job' = [f \in All |-> None]
  /\ pending' = 0
  /\ UNCHANGED <<main, cacheVars, file, history>>

\* init(): what cannot be read or parsed is an empty cache.  Records whose last mouse
\* movement is before their boot (lifted) are changed, and nothing is saved.
Restart(readable, lifted) ==
  /\ ~up
  /\ up' = TRUE /\ main' = "run"
  /\ lifted \subseteq {i \in Servers : readable /\ Loaded(file)[i] # 0}
  /\ lifted # {} => changes < MaxChanges
  /\ changes' = IF lifted = {} THEN changes ELSE changes + 1
  /\ cache' = [i \in Servers |-> CASE ~readable   -> 0
                                  [] i \in lifted -> changes'
                                  [] OTHER       -> Loaded(file)[i]]
  /\ mark' = IF readable THEN LoadedMark(file) ELSE Nothing
  /\ ver' = CASE ~readable    -> 0
              [] lifted # {} -> changes'
              [] OTHER       -> LoadedVer(file)
  /\ saved' = 0 /\ crossed' = FALSE
  /\ unsaved' = (~readable \/ lifted # {})
  /\ UNCHANGED <<pending, job, file, exits>>

CacheNext ==
  \/ \E i \in Servers : \/ UpdateServerCache(i) \/ DeleteServerCache(i)
                        \/ \E m \in 0 .. 1 : Touch(i, m)
  \/ \E f \in All : FlushStart(f) \/ FlushOpen(f) \/ FlushWrite(f) \/ FlushFail(f)
  \/ Shutdown \/ Exit
  \/ \E readable \in BOOLEAN, lifted \in SUBSET Servers : Restart(readable, lifted)

CacheSpec == CacheInit /\ [][CacheNext]_vars

---------------------------------------------------------------------------
(* Properties *)

\* Type correctness of the cache.
CacheTypeOK ==
  /\ {up, unsaved, crossed} \subseteq BOOLEAN
  /\ main \in {"run", "stopping", "flushed", "failed"}
  /\ cache \in [Servers -> 0 .. MaxChanges]
  /\ mark \in [Servers -> 0 .. 1]
  /\ {ver, changes, saved} \subseteq 0 .. MaxChanges
  /\ pending \in Nat /\ exits \in Nat
  /\ job \in [All -> Jobs \cup {None}]
  /\ \/ file \in Snapshots \cup {Empty}
     \/ file.kind = "torn" /\ file = Torn(file.length)

Intact == file.kind # "torn"
NoJob == \A f \in All : job[f] = None

\* When all flushers are through and the last of them did not fail, a file that can be
\* read holds exactly the locked fields of the cache: however flushers overlap, none
\* leaves an older state behind.  What the load lifts is in no file before the next flush.
FileCatchesUp ==
  up /\ pending = 0 /\ NoJob /\ Intact /\ ~unsaved =>
    IF file.kind = "ok" THEN file.val = cache ELSE cache = Nothing

\* Once main's flush on shutdown reported success, the file is never older than what it
\* wrote, whatever flushers were under way or start before the process ends; and it can be
\* read whenever the process ends, unless another flusher had it open at the same time or
\* later, which os.Exit may cut off after it truncated the file.
ShutdownSaves ==
  main = "flushed" => IF file.kind = "ok" THEN file.ver >= saved ELSE crossed
=============================================================================
