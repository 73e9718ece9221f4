------------------------------ MODULE KvStore ------------------------------
(***************************************************************************)
(* The session store, kvstore/kvstore.go: a key-value map with expiry that *)
(* lives in Redis while redisUp holds and in process memory (shardMaps)    *)
(* afterwards, with .cache/kvstore.json as its persistent copy.            *)
(*                                                                         *)
(* Values are dropped: an entry is its expiry.  Times are RELATIVE: every  *)
(* stored deadline is the number of ticks left, and Tick ages them all, so *)
(* time is unbounded and the state space finite.                           *)
(*                                                                         *)
(* Each API call is a client that first reads redisUp, then talks to Redis *)
(* or falls through to the local map.  Timers (time.AfterFunc) and the     *)
(* goroutines running saveCacheToFile interleave with the clients.         *)
(***************************************************************************)
EXTENDS Integers

CONSTANTS
  Keys,         \* keys (session tokens)
  Clients,      \* concurrent request handlers
  Ops,          \* the operations the callers use, a subset of AllOps
  TTLs,         \* the expiries callers pass (1 hour, 7 days)
  MaxTTL,       \* the longest of them
  Prefixed,     \* Prefixed[k]: the keys that start with the prefix k
  FreshKeys,    \* callers never reuse a key (LoginPost draws random tokens)
  UseRedis,     \* REDIS_HOST is set, so main calls InitRedis
  RedisFaults,  \* a Redis call may fail, with or without taking effect
  DiskFaults,   \* writing or renaming the cache file may fail
  NoReq,        \* what an idle client works on
  MaxCalls,     \* bound: calls that change something
  MaxCrashes    \* bound: exits of the process

Mutators == {"set", "extend", "del", "delprefix"}
Lookups  == {"get", "exists", "ttl"}
AllOps   == Mutators \cup Lookups

\* A call with its arguments; ttl is 0 where the call has none.
Requests == [op : {"set", "extend"}, key : Keys, ttl : TTLs]
       \cup [op : AllOps \ {"set", "extend"}, key : Keys, ttl : {0}]

ASSUME KvConstants ==
  /\ MaxTTL \in Nat \ {0}
  /\ TTLs \subseteq 1..MaxTTL
  /\ Ops \subseteq AllOps
  /\ Prefixed \in [Keys -> SUBSET Keys]
  /\ MaxCalls \in Nat
  /\ MaxCrashes \in Nat
  /\ NoReq \notin Requests
  /\ {FreshKeys, UseRedis, RedisFaults, DiskFaults} \subseteq BOOLEAN

VARIABLES
  proc,      \* "down", "init" (after init(), before main's InitRedis) or "up"
  redisUp,   \* the package variable redisUp
  pinged,    \* history: the outcome of InitRedis' ping
  redis,     \* the Redis server: ticks left per key, 0 when absent
  local,     \* shardMaps: ticks left per key, 0 when expired but still stored
  timers,    \* timers[k][t]: pending AfterFunc timers of k with t ticks left
  file,      \* kvstore.json: ticks left per key, 0 when absent or expired
  spawned,   \* save goroutines that have not yet read redisUp
  waiting,   \* save goroutines past that check, waiting for cacheMux
  saver,     \* the holder of cacheMux: "none", "range" or "commit"
  visit,     \* keys the holder has not visited yet
  snap,      \* the entries it has collected
  pc,        \* where each client is in its call
  req,       \* the call of each client
  todo,      \* keys a prefix deletion has still to visit
  calls,     \* changing calls so far (bounded by MaxCalls)
  crashes,   \* exits so far (bounded by MaxCrashes)
  promised   \* history: what SetKey promised and later calls took back

redisVars == <<redisUp, pinged, redis>>
saveVars  == <<waiting, saver, visit, snap>>
callVars  == <<pc, req, todo>>
vars == <<proc, redisVars, local, timers, file, spawned, saveVars, callVars,
          calls, crashes, promised>>

NoEntry  == -1   \* local: the key is not stored
Unissued == -1   \* promised: no SetKey of the key has taken effect
Revoked  == -2   \* promised: a deletion of the key has been requested

PCs == {"idle", "redis", "scan", "local", "purge", "store", "arm", "sweep", "swept"}

\* A key can be read where the store currently looks for it.
Visible(k) == IF redisUp THEN redis[k] > 0 ELSE local[k] > 0

AgeBelowZero(t) == t - 1          \* mutant: time runs on past the deadline
Age(t) == IF t > 0 THEN t - 1 ELSE t
AgeAll(f) == [k \in Keys |-> Age(f[k])]

Busy(k, ops) == \E c \in Clients :
                   /\ pc[c] # "idle"
                   /\ req[c].op \in ops
                   /\ k = req[c].key

\* Control flow of a call: continue at a label, or return to the caller.
Goto(c, label) == pc' = [pc EXCEPT ![c] = label] /\ UNCHANGED req
Return(c) == /\ pc' = [pc EXCEPT ![c] = "idle"]
             /\ req' = [req EXCEPT ![c] = NoReq]

---------------------------------------------------------------------------
(* The process *)

NoTimers == [k \in Keys |-> [t \in 0..MaxTTL |-> 0]]

Init ==
  /\ proc = "down"
  /\ redisUp = FALSE /\ pinged = FALSE
  /\ redis = [k \in Keys |-> 0]
  /\ file = [k \in Keys |-> 0]
  /\ local = [k \in Keys |-> NoEntry]
  /\ timers = NoTimers
  /\ spawned = 0 /\ waiting = 0 /\ saver = "none"
  /\ visit = {} /\ snap = [k \in Keys |-> 0]
  /\ pc = [c \in Clients |-> "idle"]
  /\ req = [c \in Clients |-> NoReq]
  /\ todo = [c \in Clients |-> {}]
  /\ calls = 0 /\ crashes = 0
  /\ promised = [k \in Keys |-> Unissued]

\* The timer loadCacheFromFile starts for an entry.
NoLoadedTimers(k) == [t \in 0..MaxTTL |-> 0]     \* mutant: none is started
LoadedTimers(k) == [t \in 0..MaxTTL |-> IF file[k] > 0 /\ t = file[k] THEN 1 ELSE 0]

\* init() and loadCacheFromFile: the unexpired entries of the file, each with a
\* timer for its remaining time.
LoadCacheFromFile ==
  /\ proc = "down"
  /\ proc' = "init"
  /\ redisUp' = FALSE
  /\ local' = [k \in Keys |-> IF file[k] > 0 THEN file[k] ELSE NoEntry]
  /\ timers' = [k \in Keys |-> LoadedTimers(k)]
  /\ UNCHANGED <<pinged, redis, file, spawned, saveVars, callVars, calls,
                 crashes, promised>>

\* InitRedis: whatever the ping answers, redisUp ends up true (line 73).
InitRedis(ok) ==
  /\ proc = "init" /\ UseRedis
  /\ ok \/ RedisFaults
  /\ proc' = "up"
  /\ pinged' = ok
  /\ redisUp' = TRUE
  /\ UNCHANGED <<redis, local, timers, file, spawned, saveVars, callVars,
                 calls, crashes, promised>>

\* main without REDIS_HOST goes straight on.
StartWithoutRedis ==
  /\ proc = "init" /\ ~UseRedis
  /\ proc' = "up"
  /\ UNCHANGED <<redisVars, local, timers, file, spawned, saveVars, callVars,
                 calls, crashes, promised>>

SavesDone == spawned = 0 /\ waiting = 0 /\ saver = "none"

\* The process exits, by a crash or by main's shutdown (which never saves this
\* store): memory, timers, goroutines and open calls are gone.  A deletion cut short
\* has promised nothing; of a local session whose save was still under way only what
\* Redis holds is promised.
Exit ==
  /\ proc # "down" /\ crashes < MaxCrashes
  /\ proc' = "down"
  /\ redisUp' = FALSE /\ pinged' = FALSE
  /\ local' = [k \in Keys |-> NoEntry]
  /\ timers' = NoTimers
  /\ spawned' = 0 /\ waiting' = 0 /\ saver' = "none"
  /\ visit' = {} /\ snap' = [k \in Keys |-> 0]
  /\ pc' = [c \in Clients |-> "idle"]
  /\ req' = [c \in Clients |-> NoReq]
  /\ todo' = [c \in Clients |-> {}]
  /\ crashes' = crashes + 1
  /\ promised' = [k \in Keys |->
        CASE Busy(k, {"del"}) -> 0
          [] promised[k] > redis[k] /\ (Busy(k, {"set"}) \/ ~SavesDone) -> redis[k]
          [] OTHER -> promised[k]]
  /\ UNCHANGED <<redis, file, calls>>

Tick ==
  /\ redis' = AgeAll(redis)
  /\ local' = AgeAll(local)
  /\ file' = AgeAll(file)
  /\ snap' = AgeAll(snap)
  /\ promised' = AgeAll(promised)
  /\ timers' = [k \in Keys |-> [t \in 0..MaxTTL |->
                  (IF t < MaxTTL THEN timers[k][t + 1] ELSE 0)
                  + (IF t = 0 THEN timers[k][0] ELSE 0)]]
  /\ UNCHANGED <<proc, redisUp, pinged, spawned, waiting, saver, visit,
                 callVars, calls, crashes>>

---------------------------------------------------------------------------
(* Calls: the entry of every operation, then its Redis half *)

\* The keys a call revokes.
Targets(r) == CASE r.op = "del"       -> {r.key}
                [] r.op = "delprefix" -> Prefixed[r.key]
                [] OTHER              -> {}

\* LoginPost stores a session under a random token that was never used before and
\* that nobody knows until its SetKey has returned.
CallersUse(r) ==
  FreshKeys => /\ ~Busy(r.key, {"set"})
               /\ r.op = "set" => promised[r.key] = Unissued /\ ~Busy(r.key, {"extend"})

\* What a call takes back when it begins: a deletion everything, ExtendKeyTTL what lies
\* beyond the deadline it asks for.  It adds nothing, because the timer of the earlier
\* deadline stays armed and deletes the entry all the same.
TakenBack(r, k) ==
  IF k \in Targets(r) THEN Revoked
  ELSE IF r.op = "extend" /\ k = r.key /\ promised[k] > r.ttl THEN r.ttl
  ELSE promised[k]

\* A call arrives and reads redisUp.
Begin(c, r) ==
  /\ proc = "up" /\ pc[c] = "idle"
  /\ r.op \in Ops
  /\ r.op \in Mutators => calls < MaxCalls
  /\ CallersUse(r)
  /\ pc' = [pc EXCEPT ![c] = IF redisUp THEN "redis" ELSE "local"]
  /\ req' = [req EXCEPT ![c] = r]
  /\ calls' = IF r.op \in Mutators THEN calls + 1 ELSE calls
  /\ promised' = [k \in Keys |-> TakenBack(r, k)]
  /\ UNCHANGED <<proc, redisVars, local, timers, file, spawned, saveVars, todo, crashes>>

\* What the Redis command of a call does to the server.
Applied(r) ==
  [redis EXCEPT ![r.key] = CASE r.op = "set"    -> r.ttl
                             [] r.op = "extend" -> IF @ > 0 THEN r.ttl ELSE @
                             [] r.op = "del"    -> 0
                             [] OTHER           -> @]

\* A prefix deletion that covers the key is under way and may still come across it.
Swept(k) == \E c \in Clients : /\ pc[c] # "idle"
                              /\ req[c].op = "delprefix"
                              /\ k \in Prefixed[req[c].key]

\* SetKey promises its deadline where it takes effect.
Promise(r) ==
  promised' = IF r.op = "set"
              THEN [promised EXCEPT ![r.key] = IF Swept(r.key) THEN Revoked ELSE r.ttl]
              ELSE promised

\* The command succeeds and the call returns.  GET of an absent key is not a
\* success: go-redis answers it with the error redis.Nil.
RedisOk(c) ==
  /\ pc[c] = "redis" /\ req[c].op # "delprefix"
  /\ req[c].op = "get" => redis[req[c].key] > 0
  /\ redis' = Applied(req[c])
  /\ Promise(req[c])
  /\ Return(c)
  /\ UNCHANGED <<proc, redisUp, pinged, local, timers, file, spawned, saveVars,
                 todo, calls, crashes>>

\* The command fails, possibly after the server executed it (a timeout), or GET
\* finds nothing: redisUp is cleared for good and the call goes on locally.
RedisError(c) ==
  /\ pc[c] = "redis" /\ req[c].op # "delprefix"
  /\ RedisFaults \/ (req[c].op = "get" /\ redis[req[c].key] = 0)
  /\ redis' \in {redis} \cup (IF RedisFaults THEN {Applied(req[c])} ELSE {})
  /\ redisUp' = FALSE
  /\ Goto(c, "local")
  /\ UNCHANGED <<proc, pinged, local, timers, file, spawned, saveVars,
                 todo, calls, crashes, promised>>

\* DeleteKeysWithPrefix in Redis mode: the scan lists the matching keys ...
RedisScan(c) ==
  /\ pc[c] = "redis" /\ req[c].op = "delprefix"
  /\ todo' = [todo EXCEPT ![c] = {k \in Prefixed[req[c].key] : redis[k] > 0}]
  /\ Goto(c, "scan")
  /\ UNCHANGED <<proc, redisVars, local, timers, file, spawned, saveVars,
                 calls, crashes, promised>>

\* ... or a page of it fails: iter.Err() sends the call to the local map, with
\* redisUp still set.
RedisScanError(c) ==
  /\ RedisFaults
  /\ \/ pc[c] = "redis" /\ req[c].op = "delprefix"
     \/ pc[c] = "scan" /\ todo[c] # {}
  /\ Goto(c, "local")
  /\ todo' = [todo EXCEPT ![c] = {}]
  /\ UNCHANGED <<proc, redisVars, local, timers, file, spawned, saveVars,
                 calls, crashes, promised>>

RedisScanDel(c, k) ==
  /\ pc[c] = "scan" /\ k \in todo[c]
  /\ redis' = [redis EXCEPT ![k] = 0]
  /\ todo' = [todo EXCEPT ![c] = @ \ {k}]
  /\ UNCHANGED <<proc, redisUp, pinged, local, timers, file, spawned, saveVars,
                 pc, req, calls, crashes, promised>>

\* A failing DEL clears redisUp and leaves the loop; the iterator itself has no
\* error, so the call returns nil with the other keys untouched.
RedisScanDelError(c, k) ==
  /\ RedisFaults /\ pc[c] = "scan" /\ k \in todo[c]
  /\ redisUp' = FALSE
  /\ redis' \in {redis, [redis EXCEPT ![k] = 0]}
  /\ Return(c)
  /\ todo' = [todo EXCEPT ![c] = {}]
  /\ UNCHANGED <<proc, pinged, local, timers, file, spawned, saveVars,
                 calls, crashes, promised>>

RedisScanEnd(c) ==
  /\ pc[c] = "scan" /\ todo[c] = {}
  /\ Return(c)
  /\ UNCHANGED <<proc, redisVars, local, timers, file, spawned, saveVars,
                 todo, calls, crashes, promised>>

---------------------------------------------------------------------------
(* Calls: the local half *)

\* The entry is stored but its time has passed.
StaleInverted(k) == local[k] > 0                 \* mutant: the comparison inverted
Stale(k) == local[k] = 0

\* go saveCacheToFile()
ForgottenSave == UNCHANGED spawned               \* mutant: no save after a change
GoSave == spawned' = spawned + 1

\* The delay time.AfterFunc is given.
DelayTooShort(r) == r.ttl - 1                    \* mutant: rounded down
Delay(r) == r.ttl

\* GetKey, ExistsIn and GetKeyTTL load the entry; one found expired is deleted in
\* a second step, by key.
LocalLookup(c) ==
  /\ pc[c] = "local" /\ req[c].op \in Lookups
  /\ IF Stale(req[c].key) THEN Goto(c, "purge") ELSE Return(c)
  /\ UNCHANGED <<proc, redisVars, local, timers, file, spawned, saveVars,
                 todo, calls, crashes, promised>>

Purge(c) ==
  /\ pc[c] = "purge"
  /\ local' = [local EXCEPT ![req[c].key] = NoEntry]
  /\ Return(c)
  /\ UNCHANGED <<proc, redisVars, timers, file, spawned, saveVars, todo,
                 calls, crashes, promised>>

\* ExtendKeyTTL loads the entry, expired or not; it is stored back in a second step.
LocalExtend(c) ==
  /\ pc[c] = "local" /\ req[c].op = "extend"
  /\ IF local[req[c].key] = NoEntry THEN Return(c) ELSE Goto(c, "store")
  /\ UNCHANGED <<proc, redisVars, local, timers, file, spawned, saveVars,
                 todo, calls, crashes, promised>>

LocalStore(c) ==
  /\ \/ pc[c] = "local" /\ req[c].op = "set"
     \/ pc[c] = "store"
  /\ local' = [local EXCEPT ![req[c].key] = req[c].ttl]
  /\ Promise(req[c])
  /\ Goto(c, "arm")
  /\ UNCHANGED <<proc, redisVars, timers, file, spawned, saveVars, todo,
                 calls, crashes>>

\* time.AfterFunc(ttl), then go saveCacheToFile().  Earlier timers stay armed.
Arm(c) ==
  /\ pc[c] = "arm"
  /\ timers' = [timers EXCEPT ![req[c].key][Delay(req[c])] = @ + 1]
  /\ GoSave
  /\ Return(c)
  /\ UNCHANGED <<proc, redisVars, local, file, saveVars, todo, calls,
                 crashes, promised>>

LocalDelete(c) ==
  /\ pc[c] = "local" /\ req[c].op = "del"
  /\ local' = [local EXCEPT ![req[c].key] = NoEntry]
  /\ GoSave
  /\ Return(c)
  /\ UNCHANGED <<proc, redisVars, timers, file, saveVars, todo, calls,
                 crashes, promised>>

\* DeleteKeysWithPrefix walks the shards, key by key, and saves if it deleted any.
SweepStart(c) ==
  /\ pc[c] = "local" /\ req[c].op = "delprefix"
  /\ Goto(c, "sweep")
  /\ todo' = [todo EXCEPT ![c] = Prefixed[req[c].key]]
  /\ UNCHANGED <<proc, redisVars, local, timers, file, spawned, saveVars,
                 calls, crashes, promised>>

Sweep(c, k) ==
  /\ pc[c] \in {"sweep", "swept"} /\ k \in todo[c]
  /\ todo' = [todo EXCEPT ![c] = @ \ {k}]
  /\ local' = [local EXCEPT ![k] = NoEntry]
  /\ Goto(c, IF local[k] # NoEntry THEN "swept" ELSE pc[c])
  /\ UNCHANGED <<proc, redisVars, timers, file, spawned, saveVars, calls,
                 crashes, promised>>

SweepEnd(c) ==
  /\ pc[c] \in {"sweep", "swept"} /\ todo[c] = {}
  /\ spawned' = IF pc[c] = "swept" THEN spawned + 1 ELSE spawned
  /\ Return(c)
  /\ UNCHANGED <<proc, redisVars, local, timers, file, saveVars, todo,
                 calls, crashes, promised>>

---------------------------------------------------------------------------
(* Timers and the saving goroutines *)

\* A due timer deletes its key, whatever is stored there by now, and saves.
FiredIfLive(k) == IF local[k] = 0 THEN local     \* mutant: what expired is left alone
                  ELSE [local EXCEPT ![k] = NoEntry]
Fired(k) == [local EXCEPT ![k] = NoEntry]

TimerFire(k) ==
  /\ timers[k][0] > 0
  /\ timers' = [timers EXCEPT ![k][0] = @ - 1]
  /\ local' = Fired(k)
  /\ GoSave
  /\ UNCHANGED <<proc, redisVars, file, saveVars, callVars, calls, crashes, promised>>

\* saveCacheToFile reads redisUp and gives up if Redis is in use ...
SaveSkip ==
  /\ spawned > 0 /\ redisUp
  /\ spawned' = spawned - 1
  /\ UNCHANGED <<proc, redisVars, local, timers, file, saveVars, callVars,
                 calls, crashes, promised>>

\* ... and otherwise queues for cacheMux.  (Mutant: a save already under way is
\* taken to cover this one too.)
SaveCoalesced ==
  /\ spawned > 0 /\ ~redisUp
  /\ spawned' = spawned - 1
  /\ waiting' = IF waiting > 0 \/ saver # "none" THEN waiting ELSE 1
  /\ UNCHANGED <<proc, redisVars, local, timers, file, saver, visit, snap,
                 callVars, calls, crashes, promised>>
SaveAdmit ==
  /\ spawned > 0 /\ ~redisUp
  /\ spawned' = spawned - 1
  /\ waiting' = waiting + 1
  /\ UNCHANGED <<proc, redisVars, local, timers, file, saver, visit, snap,
                 callVars, calls, crashes, promised>>

SaveLock ==
  /\ waiting > 0 /\ saver = "none"
  /\ waiting' = waiting - 1
  /\ saver' = "range"
  /\ visit' = Keys
  /\ snap' = [k \in Keys |-> 0]
  /\ UNCHANGED <<proc, redisVars, local, timers, file, spawned, callVars,
                 calls, crashes, promised>>

\* Range visits the keys in any order while others go on changing the map.
SaveVisit(k) ==
  /\ saver = "range" /\ k \in visit
  /\ visit' = visit \ {k}
  /\ snap' = [snap EXCEPT ![k] = IF local[k] > 0 THEN local[k] ELSE 0]
  /\ saver' = IF visit' = {} THEN "commit" ELSE "range"
  /\ UNCHANGED <<proc, redisVars, local, timers, file, spawned, waiting,
                 callVars, calls, crashes, promised>>

\* Write the temporary file and rename it over kvstore.json; a failure of either
\* leaves the old file in place.
SaveCommit ==
  /\ saver = "commit"
  /\ saver' = "none"
  /\ file' \in {snap} \cup (IF DiskFaults THEN {file} ELSE {})
  /\ UNCHANGED <<proc, redisVars, local, timers, spawned, waiting, visit, snap,
                 callVars, calls, crashes, promised>>

---------------------------------------------------------------------------

RedisStep(c) ==
  \/ RedisOk(c) \/ RedisError(c)
  \/ RedisScan(c) \/ RedisScanError(c) \/ RedisScanEnd(c)
  \/ \E k \in Keys : RedisScanDel(c, k) \/ RedisScanDelError(c, k)

LocalStep(c) ==
  \/ LocalLookup(c) \/ Purge(c)
  \/ LocalExtend(c) \/ LocalStore(c) \/ Arm(c)
  \/ LocalDelete(c)
  \/ SweepStart(c) \/ SweepEnd(c)
  \/ \E k \in Keys : Sweep(c, k)

SaveStep ==
  \/ SaveSkip \/ SaveAdmit \/ SaveLock \/ SaveCommit
  \/ \E k \in Keys : SaveVisit(k)

Next ==
  \/ LoadCacheFromFile
  \/ \E ok \in BOOLEAN : InitRedis(ok)
  \/ StartWithoutRedis
  \/ Exit
  \/ Tick
  \/ \E c \in Clients, r \in Requests : Begin(c, r)
  \/ \E c \in Clients : RedisStep(c) \/ LocalStep(c)
  \/ \E k \in Keys : TimerFire(k)
  \/ SaveStep

Spec == Init /\ [][Next]_vars

\* Time passes, the runtime runs timers and goroutines, and requests are served.
Fairness ==
  /\ WF_vars(Tick)
  /\ WF_vars(LoadCacheFromFile \/ StartWithoutRedis \/ \E ok \in BOOLEAN : InitRedis(ok))
  /\ \A k \in Keys : WF_vars(TimerFire(k))
  /\ \A c \in Clients : WF_vars(RedisStep(c)) /\ WF_vars(LocalStep(c))
  /\ WF_vars(SaveStep)

FairSpec == Spec /\ Fairness
=============================================================================
