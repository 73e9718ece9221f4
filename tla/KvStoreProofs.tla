--------------------------- MODULE KvStoreProofs ---------------------------
(***************************************************************************)
(* Machine-checked theorems about the session store, for every value of    *)
(* its constants.                                                          *)
(***************************************************************************)
EXTENDS KvProps, TLAPS

\* The fields of a call.
LEMMA RequestFields ==
  ASSUME NEW r \in Requests
  PROVE  /\ r.key \in Keys
         /\ r.op \in AllOps
         /\ r.ttl \in 0..MaxTTL
         /\ r.op \in {"set", "extend"} => r.ttl \in 1..MaxTTL
<1>1. CASE r \in [op : {"set", "extend"}, key : Keys, ttl : TTLs]
  <2>1. r.ttl \in TTLs /\ r.key \in Keys /\ r.op \in {"set", "extend"} BY <1>1
  <2>2. r.ttl \in 1..MaxTTL BY <2>1, KvConstants
  <2> QED BY <2>1, <2>2, KvConstants DEF AllOps, Mutators
<1>2. CASE r \in [op : AllOps \ {"set", "extend"}, key : Keys, ttl : {0}]
  <2>1. r.ttl = 0 /\ r.key \in Keys /\ r.op \in AllOps \ {"set", "extend"} BY <1>2
  <2> QED BY <2>1, KvConstants
<1> QED BY <1>1, <1>2 DEF Requests

\* Ageing keeps a time in its range.
LEMMA AgeType ==
  ASSUME NEW lo \in {-2, -1, 0}, NEW f \in [Keys -> lo..MaxTTL]
  PROVE  AgeAll(f) \in [Keys -> lo..MaxTTL]
<1>1. ASSUME NEW t \in lo..MaxTTL PROVE Age(t) \in lo..MaxTTL
  BY KvConstants DEF Age
<1> QED BY <1>1 DEF AgeAll

\* What a Redis command makes of the server is again a server state.
LEMMA AppliedType ==
  ASSUME TypeOK, NEW r \in Requests
  PROVE  Applied(r) \in [Keys -> 0..MaxTTL]
<1>1. r.key \in Keys /\ r.ttl \in 0..MaxTTL BY RequestFields
<1>2. 0 \in 0..MaxTTL BY KvConstants
<1>3. redis \in [Keys -> 0..MaxTTL] BY DEF TypeOK
<1> QED BY <1>1, <1>2, <1>3 DEF Applied

\* A client in the middle of a call works on a request.
BusyHasRequest == \A c \in Clients : pc[c] # "idle" => req[c] \in Requests

\* Only SetKey and ExtendKeyTTL store entries.
StoringCalls ==
  \A c \in Clients : pc[c] \in {"store", "arm"} => req[c].op \in {"set", "extend"}

KvTypeInv == TypeOK /\ BusyHasRequest /\ StoringCalls

LEMMA KvTypeInit == Init => KvTypeInv
<1> SUFFICES ASSUME Init PROVE KvTypeInv OBVIOUS
<1>1. 0 \in 0..MaxTTL BY KvConstants
<1>2. NoEntry \in -1..MaxTTL /\ Unissued \in -2..MaxTTL
  BY KvConstants DEF NoEntry, Unissued
<1>3. timers \in [Keys -> [0..MaxTTL -> Nat]] BY DEF Init, NoTimers
<1> QED BY <1>1, <1>2, <1>3 DEF Init, KvTypeInv, TypeOK, BusyHasRequest, StoringCalls, PCs

\* Every step preserves the types.
LEMMA KvTypeNext == KvTypeInv /\ [Next]_vars => KvTypeInv'
<1> SUFFICES ASSUME KvTypeInv, [Next]_vars PROVE KvTypeInv' OBVIOUS
<1>t. TypeOK BY DEF KvTypeInv
<1>r. ASSUME NEW c \in Clients, pc[c] # "idle"
      PROVE  /\ req[c] \in Requests
             /\ req[c].key \in Keys
             /\ req[c].ttl \in 0..MaxTTL
  BY <1>r, RequestFields DEF KvTypeInv, BusyHasRequest
<1>z. 0 \in 0..MaxTTL /\ MaxTTL \in Nat BY KvConstants
<1> USE DEF KvTypeInv, BusyHasRequest, StoringCalls, redisVars, saveVars, callVars
<1>1. CASE LoadCacheFromFile
  <2>1. \A k \in Keys : file[k] \in -1..MaxTTL
    BY <1>z DEF TypeOK
  <2>2. local' \in [Keys -> -1..MaxTTL]
    BY <1>1, <1>z, <2>1 DEF LoadCacheFromFile, LoadedTimers, NoEntry
  <2>3. timers' \in [Keys -> [0..MaxTTL -> Nat]]
    BY <1>1 DEF LoadCacheFromFile, LoadedTimers
  <2> QED BY <1>1, <2>2, <2>3 DEF LoadCacheFromFile, LoadedTimers, TypeOK
<1>2. CASE \E ok \in BOOLEAN : InitRedis(ok)
  BY <1>2 DEF InitRedis, TypeOK
<1>3. CASE StartWithoutRedis
  BY <1>3 DEF StartWithoutRedis, TypeOK
<1>4. CASE Exit
  <2>1. promised' \in [Keys -> -2..MaxTTL] /\ local' \in [Keys -> -1..MaxTTL]
    BY <1>4, <1>z DEF Exit, TypeOK, NoEntry
  <2>2. timers' \in [Keys -> [0..MaxTTL -> Nat]]
    BY <1>4 DEF Exit, NoTimers
  <2>3. \A c \in Clients : pc'[c] = "idle" BY <1>4 DEF Exit
  <2>4. pc' \in [Clients -> PCs] BY <1>4 DEF Exit, PCs
  <2>5. snap' \in [Keys -> 0..MaxTTL] BY <1>4, <1>z DEF Exit
  <2>6. /\ redisUp' \in BOOLEAN /\ pinged' \in BOOLEAN
        /\ redis' \in [Keys -> 0..MaxTTL] /\ file' \in [Keys -> 0..MaxTTL]
        /\ req' \in [Clients -> Requests \cup {NoReq}]
        /\ todo' \in [Clients -> SUBSET Keys]
    BY <1>4 DEF Exit, TypeOK
  <2>7. /\ proc' = "down" /\ saver' = "none"
        /\ spawned' \in Nat /\ waiting' \in Nat /\ visit' \in SUBSET Keys
        /\ calls' \in Nat /\ crashes' \in Nat
    BY <1>4 DEF Exit, TypeOK
  <2>8. TypeOK' BY <2>1, <2>2, <2>4, <2>5, <2>6, <2>7 DEF TypeOK
  <2> QED BY <2>3, <2>8
<1>5. CASE Tick
  <2>1. /\ redis' \in [Keys -> 0..MaxTTL]
        /\ local' \in [Keys -> -1..MaxTTL]
        /\ file' \in [Keys -> 0..MaxTTL]
        /\ snap' \in [Keys -> 0..MaxTTL]
        /\ promised' \in [Keys -> -2..MaxTTL]
    BY <1>5, AgeType DEF Tick, TypeOK
  <2>2. timers' \in [Keys -> [0..MaxTTL -> Nat]]
    <3> SUFFICES ASSUME NEW k \in Keys, NEW t \in 0..MaxTTL
                 PROVE  (IF t < MaxTTL THEN timers[k][t + 1] ELSE 0)
                        + (IF t = 0 THEN timers[k][0] ELSE 0) \in Nat
      BY <1>5 DEF Tick
    <3>1. timers[k][0] \in Nat BY <1>z DEF TypeOK
    <3>2. t < MaxTTL => t + 1 \in 0..MaxTTL BY <1>z
    <3>3. t < MaxTTL => timers[k][t + 1] \in Nat BY <3>2 DEF TypeOK
    <3> QED BY <3>1, <3>3
  <2> QED BY <1>5, <2>1, <2>2 DEF Tick, TypeOK
<1>6. ASSUME NEW c \in Clients, NEW r \in Requests, Begin(c, r) PROVE KvTypeInv'
  <2>1. ASSUME NEW k \in Keys PROVE TakenBack(r, k) \in -2..MaxTTL
    <3>1. promised[k] \in -2..MaxTTL BY DEF TypeOK
    <3>2. r.ttl \in 0..MaxTTL BY RequestFields
    <3>3. r.ttl \in -2..MaxTTL BY <3>2, <1>z
    <3>4. Revoked \in -2..MaxTTL BY <1>z DEF Revoked
    <3>5. CASE k \in Targets(r) BY <3>4, <3>5 DEF TakenBack
    <3>6. CASE k \notin Targets(r) BY <3>1, <3>3, <3>6 DEF TakenBack
    <3> QED BY <3>5, <3>6
  <2>2. promised' \in [Keys -> -2..MaxTTL]
    BY <1>6, <2>1 DEF Begin
  <2> QED BY <1>6, <2>2 DEF Begin, TypeOK, PCs
<1>7. ASSUME NEW c \in Clients, RedisStep(c) PROVE KvTypeInv'
  <2>1. CASE RedisOk(c)
    <3>1. redis' \in [Keys -> 0..MaxTTL]
      BY <2>1, <1>r, AppliedType DEF RedisOk
    <3>2. promised' \in [Keys -> -2..MaxTTL]
      <4>1. req[c].ttl \in -2..MaxTTL /\ req[c].key \in Keys
        BY <2>1, <1>r, <1>z DEF RedisOk
      <4>2. Revoked \in -2..MaxTTL BY <1>z DEF Revoked
      <4> QED BY <2>1, <4>1, <4>2 DEF RedisOk, Promise, TypeOK
    <3> QED BY <2>1, <3>1, <3>2 DEF RedisOk, Return, TypeOK, PCs
  <2>2. CASE RedisError(c)
    <3>1. redis' \in [Keys -> 0..MaxTTL]
      BY <2>2, <1>r, AppliedType DEF RedisError, TypeOK
    <3> QED BY <2>2, <3>1 DEF RedisError, Goto, TypeOK, PCs
  <2>3. CASE RedisScan(c)
    <3>1. Prefixed[req[c].key] \in SUBSET Keys BY <2>3, <1>r, KvConstants DEF RedisScan
    <3> QED BY <2>3, <3>1 DEF RedisScan, Goto, TypeOK, PCs
  <2>4. CASE RedisScanError(c)
    BY <2>4 DEF RedisScanError, Goto, TypeOK, PCs
  <2>5. CASE RedisScanEnd(c)
    BY <2>5 DEF RedisScanEnd, Return, TypeOK, PCs
  <2>6. ASSUME NEW k \in Keys, RedisScanDel(c, k) PROVE KvTypeInv'
    BY <2>6, <1>z DEF RedisScanDel, TypeOK, PCs
  <2>7. ASSUME NEW k \in Keys, RedisScanDelError(c, k) PROVE KvTypeInv'
    <3>1. redis' \in [Keys -> 0..MaxTTL]
      BY <2>7, <1>z DEF RedisScanDelError, TypeOK
    <3> QED BY <2>7, <3>1 DEF RedisScanDelError, Return, TypeOK, PCs
  <2> QED BY <1>7, <2>1, <2>2, <2>3, <2>4, <2>5, <2>6, <2>7 DEF RedisStep
<1>8. ASSUME NEW c \in Clients, LocalStep(c) PROVE KvTypeInv'
  <2>n. NoEntry \in -1..MaxTTL BY <1>z DEF NoEntry
  <2>1. CASE LocalLookup(c)
    BY <2>1 DEF LocalLookup, Goto, Return, TypeOK, PCs
  <2>2. CASE Purge(c)
    BY <2>2, <2>n DEF Purge, Return, TypeOK, PCs
  <2>3. CASE LocalExtend(c)
    BY <2>3 DEF LocalExtend, Goto, Return, TypeOK, PCs
  <2>4. CASE LocalStore(c)
    <3>1. req[c].ttl \in -1..MaxTTL /\ req[c].ttl \in -2..MaxTTL /\ req[c].key \in Keys
      BY <2>4, <1>r, <1>z DEF LocalStore
    <3>0. Revoked \in -2..MaxTTL BY <1>z DEF Revoked
    <3>2. local' \in [Keys -> -1..MaxTTL] /\ promised' \in [Keys -> -2..MaxTTL]
      BY <2>4, <3>0, <3>1 DEF LocalStore, Promise, TypeOK
    <3> QED BY <2>4, <3>2 DEF LocalStore, Goto, TypeOK, PCs
  <2>5. CASE Arm(c)
    <3>1. timers' \in [Keys -> [0..MaxTTL -> Nat]]
      <4> DEFINE k == req[c].key
                 u == req[c].ttl
      <4>1. k \in Keys /\ u \in 0..MaxTTL BY <2>5, <1>r DEF Arm, Delay
      <4>2. timers' = [timers EXCEPT ![k] = [timers[k] EXCEPT ![u] = timers[k][u] + 1]]
        BY <2>5 DEF Arm, Delay
      <4>3. timers \in [Keys -> [0..MaxTTL -> Nat]] BY DEF TypeOK
      <4> HIDE DEF k, u, KvTypeInv
      <4>4. timers[k] \in [0..MaxTTL -> Nat] /\ timers[k][u] \in Nat BY <4>1, <4>3, Zenon
      <4>5. [timers[k] EXCEPT ![u] = timers[k][u] + 1] \in [0..MaxTTL -> Nat]
        BY <4>1, <4>4
      <4> QED BY <4>1, <4>2, <4>3, <4>5, Zenon
    <3>2. pc' \in [Clients -> PCs] /\ req' \in [Clients -> Requests \cup {NoReq}]
      BY <2>5 DEF Arm, GoSave, Delay, Return, TypeOK, PCs
    <3>4. /\ proc' \in {"down", "init", "up"} /\ redisUp' \in BOOLEAN /\ pinged' \in BOOLEAN
          /\ UNCHANGED <<redis, local, file, waiting, saver, visit, snap, todo, calls,
                         crashes, promised>>
          /\ spawned' \in Nat
      BY <2>5 DEF Arm, GoSave, Delay, TypeOK
    <3>3. TypeOK' BY <3>1, <3>2, <3>4 DEF TypeOK
    <3>5. \A d \in Clients : pc'[d] # "idle" => pc'[d] = pc[d] /\ req'[d] = req[d]
      BY <2>5 DEF Arm, GoSave, Delay, Return, TypeOK
    <3> QED BY <3>3, <3>5
  <2>6. CASE LocalDelete(c)
    <3>1. local' \in [Keys -> -1..MaxTTL]
      BY <2>6, <2>n DEF LocalDelete, GoSave, TypeOK
    <3>2. spawned' \in Nat
      BY <2>6 DEF LocalDelete, GoSave, TypeOK
    <3> QED BY <2>6, <3>1, <3>2 DEF LocalDelete, GoSave, Return, TypeOK, PCs
  <2>7. CASE SweepStart(c)
    <3>1. Prefixed[req[c].key] \in SUBSET Keys BY <2>7, <1>r, KvConstants DEF SweepStart
    <3> QED BY <2>7, <3>1 DEF SweepStart, Goto, TypeOK, PCs
  <2>8. CASE SweepEnd(c)
    BY <2>8 DEF SweepEnd, Return, TypeOK, PCs
  <2>9. ASSUME NEW k \in Keys, Sweep(c, k) PROVE KvTypeInv'
    BY <2>9, <2>n DEF Sweep, Goto, TypeOK, PCs
  <2> QED BY <1>8, <2>1, <2>2, <2>3, <2>4, <2>5, <2>6, <2>7, <2>8, <2>9 DEF LocalStep
<1>9. ASSUME NEW k \in Keys, TimerFire(k) PROVE KvTypeInv'
  <2>1. timers' \in [Keys -> [0..MaxTTL -> Nat]]
    <3>1. timers[k] \in [0..MaxTTL -> Nat] /\ timers[k][0] - 1 \in Nat
      BY <1>9, <1>z DEF TimerFire, Fired, GoSave, TypeOK
    <3>2. [timers[k] EXCEPT ![0] = @ - 1] \in [0..MaxTTL -> Nat] BY <3>1, <1>z
    <3> QED BY <1>9, <3>2 DEF TimerFire, Fired, GoSave, TypeOK
  <2>2. local' \in [Keys -> -1..MaxTTL]
    BY <1>9, <1>z DEF TimerFire, Fired, GoSave, TypeOK, NoEntry
  <2> QED BY <1>9, <2>1, <2>2 DEF TimerFire, Fired, GoSave, TypeOK
<1>10. CASE SaveStep
  <2>1. CASE SaveSkip BY <2>1 DEF SaveSkip, TypeOK
  <2>2. CASE SaveAdmit BY <2>2 DEF SaveAdmit, TypeOK
  <2>3. CASE SaveLock BY <2>3, <1>z DEF SaveLock, TypeOK
  <2>4. CASE SaveCommit BY <2>4 DEF SaveCommit, TypeOK
  <2>5. ASSUME NEW k \in Keys, SaveVisit(k) PROVE KvTypeInv'
    <3>1. local[k] > 0 => local[k] \in 0..MaxTTL BY <1>z DEF TypeOK
    <3>2. snap' \in [Keys -> 0..MaxTTL] BY <2>5, <1>z, <3>1 DEF SaveVisit, TypeOK
    <3> QED BY <2>5, <3>2 DEF SaveVisit, TypeOK
  <2> QED BY <1>10, <2>1, <2>2, <2>3, <2>4, <2>5 DEF SaveStep
<1>11. CASE UNCHANGED vars
  BY <1>11 DEF vars, TypeOK
<1> QED
  BY <1>1, <1>2, <1>3, <1>4, <1>5, <1>6, <1>7, <1>8, <1>9, <1>10, <1>11 DEF Next

\* The store is type correct, whatever its callers, Redis and the disk do.
THEOREM KvTypeCorrect == Spec => []TypeOK
<1>1. Init => KvTypeInv BY KvTypeInit
<1>2. KvTypeInv /\ [Next]_vars => KvTypeInv' BY KvTypeNext
<1>3. KvTypeInv => TypeOK BY DEF KvTypeInv
<1> QED BY <1>1, <1>2, <1>3, PTL DEF Spec

---------------------------------------------------------------------------
(* No stored entry is forgotten. *)

LEMMA TimerInit == Init => EntryHasTimer
BY DEF Init, EntryHasTimer

\* Steps that neither store an entry nor touch a timer.
LEMMA TimerFrame ==
  ASSUME EntryHasTimer,
         \A k \in Keys : local'[k] \in {local[k], NoEntry},
         timers' = timers,
         \A c \in Clients : pc[c] = "arm" => pc'[c] = "arm" /\ req'[c] = req[c]
  PROVE  EntryHasTimer'
<1> SUFFICES ASSUME NEW k \in Keys, local'[k] # NoEntry
             PROVE  \/ \E t \in 0..MaxTTL : t >= local'[k] /\ timers'[k][t] > 0
                    \/ \E c \in Clients : /\ pc'[c] = "arm"
                                          /\ req'[c].key = k
                                          /\ req'[c].ttl >= local'[k]
  BY DEF EntryHasTimer, NoEntry
<1>1. local'[k] = local[k] /\ local[k] # NoEntry OBVIOUS
<1> QED BY <1>1 DEF EntryHasTimer

\* A step preserves the coverage of every entry.
LEMMA TimerNext == KvTypeInv /\ EntryHasTimer /\ [Next]_vars => EntryHasTimer'
<1> SUFFICES ASSUME KvTypeInv, EntryHasTimer, [Next]_vars PROVE EntryHasTimer' OBVIOUS
<1>t. TypeOK /\ TypeOK' BY KvTypeNext DEF KvTypeInv
<1>z. 0 \in 0..MaxTTL /\ MaxTTL \in Nat BY KvConstants
<1>r. ASSUME NEW c \in Clients, pc[c] # "idle"
      PROVE  req[c].key \in Keys /\ req[c].ttl \in 0..MaxTTL
  BY <1>r, RequestFields DEF KvTypeInv, BusyHasRequest
<1> USE DEF redisVars, saveVars, callVars
\* The timer a loaded entry gets runs out with it.
<1>1. CASE LoadCacheFromFile
  <2> SUFFICES ASSUME NEW k \in Keys, local'[k] # NoEntry
               PROVE  \E t \in 0..MaxTTL : t >= local'[k] /\ timers'[k][t] > 0
    BY DEF EntryHasTimer
  <2>1. file[k] > 0 /\ local'[k] = file[k] BY <1>1 DEF LoadCacheFromFile, LoadedTimers
  <2>2. file[k] \in 0..MaxTTL BY <1>t DEF TypeOK
  <2>3. timers'[k][file[k]] = 1 BY <1>1, <2>1, <2>2 DEF LoadCacheFromFile, LoadedTimers
  <2> QED BY <2>1, <2>2, <2>3
<1>2. CASE \E ok \in BOOLEAN : InitRedis(ok)
  BY <1>2, TimerFrame DEF InitRedis
<1>3. CASE StartWithoutRedis
  BY <1>3, TimerFrame DEF StartWithoutRedis
<1>4. CASE Exit
  BY <1>4 DEF Exit, EntryHasTimer
\* Entries and timers age together.
<1>5. CASE Tick
  <2> SUFFICES ASSUME NEW k \in Keys, local'[k] # NoEntry
               PROVE  \/ \E t \in 0..MaxTTL : t >= local'[k] /\ timers'[k][t] > 0
                      \/ \E c \in Clients : /\ pc'[c] = "arm"
                                            /\ req'[c].key = k
                                            /\ req'[c].ttl >= local'[k]
    BY DEF EntryHasTimer
  <2>0. local[k] \in -1..MaxTTL BY <1>t DEF TypeOK
  <2>1. local'[k] = Age(local[k]) BY <1>5 DEF Tick, AgeAll
  <2>2. local[k] # NoEntry /\ local'[k] <= local[k]
    BY <2>0, <2>1, <1>z DEF Age, NoEntry
  <2>3. CASE \E t \in 0..MaxTTL : t >= local[k] /\ timers[k][t] > 0
    <3>1. PICK t \in 0..MaxTTL : t >= local[k] /\ timers[k][t] > 0 BY <2>3
    <3>2. \A u \in 0..MaxTTL : timers[k][u] \in Nat BY <1>t DEF TypeOK
    <3>3. \A u \in 0..MaxTTL : timers'[k][u] =
            (IF u < MaxTTL THEN timers[k][u + 1] ELSE 0)
            + (IF u = 0 THEN timers[k][0] ELSE 0)
      BY <1>5 DEF Tick
    <3>4. CASE t = 0
      <4>1. 1 \in 0..MaxTTL BY KvConstants
      <4>2. timers'[k][0] > 0 BY <1>z, <3>1, <3>2, <3>3, <3>4, <4>1
      <4> QED BY <1>z, <2>2, <3>1, <3>4, <4>2, <2>0, <2>1 DEF Age
    <3>5. CASE t > 0
      <4>1. t - 1 \in 0..MaxTTL /\ t - 1 < MaxTTL /\ (t - 1) + 1 = t BY <3>5, <1>z
      <4>2. timers'[k][t - 1] = timers[k][t] + (IF t - 1 = 0 THEN timers[k][0] ELSE 0)
        BY <3>3, <4>1
      <4>3. timers'[k][t - 1] > 0 BY <3>1, <3>2, <4>2, <1>z
      <4>4. t - 1 >= local'[k] BY <2>0, <2>1, <2>2, <3>1, <3>5 DEF Age, NoEntry
      <4> QED BY <4>1, <4>3, <4>4
    <3> QED BY <3>4, <3>5
  <2>4. CASE \E c \in Clients : pc[c] = "arm" /\ req[c].key = k /\ req[c].ttl >= local[k]
    <3>1. PICK c \in Clients : pc[c] = "arm" /\ req[c].key = k /\ req[c].ttl >= local[k]
      BY <2>4
    <3>2. pc' = pc /\ req' = req BY <1>5 DEF Tick
    <3>3. req[c].ttl \in 0..MaxTTL BY <3>1, <1>r
    <3>4. req[c].ttl >= local'[k] BY <2>0, <2>1, <2>2, <3>1, <3>3, <1>z DEF Age
    <3> QED BY <3>1, <3>2, <3>4
  <2> QED BY <2>2, <2>3, <2>4 DEF EntryHasTimer
<1>6. ASSUME NEW c \in Clients, NEW r \in Requests, Begin(c, r) PROVE EntryHasTimer'
  BY <1>6, <1>t, TimerFrame DEF Begin, TypeOK
<1>7. ASSUME NEW c \in Clients, RedisStep(c) PROVE EntryHasTimer'
  <2>1. /\ local' = local /\ timers' = timers
        /\ pc[c] \in {"redis", "scan"}
        /\ \A d \in Clients : d # c => pc'[d] = pc[d] /\ req'[d] = req[d]
    BY <1>7, <1>t DEF RedisStep, RedisOk, RedisError, RedisScan, RedisScanError,
       RedisScanEnd, RedisScanDel, RedisScanDelError, Goto, Return, TypeOK
  <2> QED BY <2>1, TimerFrame
<1>8. ASSUME NEW c \in Clients, LocalStep(c) PROVE EntryHasTimer'
  <2>1. CASE LocalStore(c)
    <3> DEFINE k == req[c].key
    <3>1. k \in Keys /\ req[c].ttl \in 0..MaxTTL BY <2>1, <1>r DEF LocalStore
    <3>2. /\ local' = [local EXCEPT ![k] = req[c].ttl]
          /\ timers' = timers /\ req' = req
          /\ pc' = [pc EXCEPT ![c] = "arm"]
      BY <2>1 DEF LocalStore, Goto
    <3>3. pc'[c] = "arm" /\ \A d \in Clients : pc[d] = "arm" => pc'[d] = "arm"
      BY <3>2, <1>t DEF TypeOK
    <3>4. local'[k] = req[c].ttl /\ \A x \in Keys : x # k => local'[x] = local[x]
      BY <3>1, <3>2, <1>t DEF TypeOK
    <3> QED BY <3>1, <3>2, <3>3, <3>4 DEF EntryHasTimer
  \* The timer takes over the cover of the client that starts it.
  <2>2. CASE Arm(c)
    <3> DEFINE k == req[c].key
               u == req[c].ttl
    <3>1. k \in Keys /\ u \in 0..MaxTTL BY <2>2, <1>r DEF Arm, Delay
    <3>2. /\ timers' = [timers EXCEPT ![k][u] = @ + 1]
          /\ local' = local
          /\ \A d \in Clients : d # c => pc'[d] = pc[d] /\ req'[d] = req[d]
      BY <2>2, <1>t DEF Arm, GoSave, Delay, Return, TypeOK
    <3>3. \A x \in Keys, t \in 0..MaxTTL : timers[x][t] \in Nat BY <1>t DEF TypeOK
    <3>4. timers'[k][u] = timers[k][u] + 1 BY <3>1, <3>2, <1>t DEF TypeOK
    <3>5. \A x \in Keys, t \in 0..MaxTTL : x # k \/ t # u => timers'[x][t] = timers[x][t]
      BY <3>1, <3>2, <1>t DEF TypeOK
    <3>6. timers'[k][u] > 0 BY <3>1, <3>3, <3>4
    <3>7. \A x \in Keys, t \in 0..MaxTTL : timers[x][t] > 0 => timers'[x][t] > 0
      BY <3>5, <3>6
    <3> HIDE DEF k, u
    <3> SUFFICES ASSUME NEW x \in Keys, local[x] # NoEntry
                 PROVE  \/ \E t \in 0..MaxTTL : t >= local[x] /\ timers'[x][t] > 0
                        \/ \E d \in Clients : /\ pc'[d] = "arm"
                                              /\ req'[d].key = x
                                              /\ req'[d].ttl >= local[x]
      BY <3>2 DEF EntryHasTimer
    <3>8. CASE \E t \in 0..MaxTTL : t >= local[x] /\ timers[x][t] > 0
      BY <3>8, <3>7
    <3>9. CASE \E d \in Clients : pc[d] = "arm" /\ req[d].key = x /\ req[d].ttl >= local[x]
      <4>1. PICK d \in Clients : pc[d] = "arm" /\ req[d].key = x /\ req[d].ttl >= local[x]
        BY <3>9
      <4>2. CASE d = c BY <4>1, <4>2, <3>1, <3>6 DEF k, u
      <4>3. CASE d # c BY <4>1, <4>3, <3>2
      <4> QED BY <4>2, <4>3
    <3> QED BY <3>8, <3>9 DEF EntryHasTimer
  <2>3. CASE ~LocalStore(c) /\ ~Arm(c)
    <3>1. /\ timers' = timers
          /\ pc[c] # "arm"
          /\ \A d \in Clients : d # c => pc'[d] = pc[d] /\ req'[d] = req[d]
      BY <1>8, <2>3, <1>t DEF LocalStep, LocalLookup, Purge, LocalExtend, LocalDelete,
         SweepStart, SweepEnd, Sweep, Goto, Return, TypeOK
    <3>2. \A x \in Keys : local'[x] \in {local[x], NoEntry}
      BY <1>8, <2>3, <1>t DEF LocalStep, LocalLookup, Purge, LocalExtend, LocalDelete,
         SweepStart, SweepEnd, Sweep, TypeOK
    <3> QED BY <3>1, <3>2, TimerFrame
  <2> QED BY <2>1, <2>2, <2>3
\* A timer that fires takes the entry with it.
<1>9. ASSUME NEW k \in Keys, TimerFire(k) PROVE EntryHasTimer'
  <2>1. local'[k] = NoEntry /\ \A x \in Keys : x # k => local'[x] = local[x]
    BY <1>9, <1>t DEF TimerFire, Fired, GoSave, TypeOK
  <2>2. \A x \in Keys : x # k => timers'[x] = timers[x]
    BY <1>9, <1>t DEF TimerFire, Fired, GoSave, TypeOK
  <2>3. pc' = pc /\ req' = req BY <1>9 DEF TimerFire, Fired, GoSave
  <2> QED BY <2>1, <2>2, <2>3 DEF EntryHasTimer
<1>10. CASE SaveStep
  <2>1. local' = local /\ timers' = timers /\ pc' = pc /\ req' = req
    BY <1>10 DEF SaveStep, SaveSkip, SaveAdmit, SaveLock, SaveVisit, SaveCommit
  <2> QED BY <2>1, TimerFrame
<1>11. CASE UNCHANGED vars
  BY <1>11, TimerFrame DEF vars
<1> QED
  BY <1>1, <1>2, <1>3, <1>4, <1>5, <1>6, <1>7, <1>8, <1>9, <1>10, <1>11 DEF Next

\* Every entry of the local map is covered by a timer, or by the client about to start
\* it: SetKey, ExtendKeyTTL and loadCacheFromFile leave no session behind for ever.
THEOREM KvEntryHasTimer == Spec => []EntryHasTimer
<1>1. Init => KvTypeInv /\ EntryHasTimer BY KvTypeInit, TimerInit
<1>2. KvTypeInv /\ EntryHasTimer /\ [Next]_vars => (KvTypeInv /\ EntryHasTimer)'
  BY KvTypeNext, TimerNext
<1> QED BY <1>1, <1>2, PTL DEF Spec

---------------------------------------------------------------------------
(* What the steps of a client leave alone.                                 *)

\* A client that is not in a call starts nothing but a call.
LEMMA ClientBusy ==
  ASSUME NEW c \in Clients, RedisStep(c) \/ LocalStep(c)
  PROVE  pc[c] # "idle"
BY DEF RedisStep, LocalStep, RedisOk, RedisError, RedisScan, RedisScanError, RedisScanEnd,
   RedisScanDel, RedisScanDelError, LocalLookup, Purge, LocalExtend, LocalStore, Arm,
   LocalDelete, SweepStart, SweepEnd, Sweep

\* A step of a client touches neither the process nor the file nor the save under way.
LEMMA ClientFrame ==
  ASSUME NEW c \in Clients, RedisStep(c) \/ LocalStep(c)
  PROVE  /\ UNCHANGED <<proc, file, saveVars>>
         /\ crashes' = crashes /\ calls' = calls /\ pinged' = pinged
BY DEF RedisStep, LocalStep, RedisOk, RedisError, RedisScan, RedisScanError, RedisScanEnd,
   RedisScanDel, RedisScanDelError, LocalLookup, Purge, LocalExtend, LocalStore, Arm,
   LocalDelete, SweepStart, SweepEnd, Sweep, GoSave, redisVars

\* ... nor another client, nor the call it is working on.
LEMMA OthersStay ==
  ASSUME TypeOK, NEW c \in Clients, RedisStep(c) \/ LocalStep(c)
  PROVE  /\ \A d \in Clients : d # c => pc'[d] = pc[d] /\ req'[d] = req[d] /\ todo'[d] = todo[d]
         /\ pc'[c] # "idle" => req'[c] = req[c]
<1> USE DEF TypeOK, Goto, Return, callVars
<1>1. CASE RedisStep(c)
  BY <1>1 DEF RedisStep, RedisOk, RedisError, RedisScan, RedisScanError, RedisScanEnd,
     RedisScanDel, RedisScanDelError
<1>2. CASE LocalStep(c)
  BY <1>2 DEF LocalStep, LocalLookup, Purge, LocalExtend, LocalStore, Arm,
     LocalDelete, SweepStart, SweepEnd, Sweep
<1> QED BY <1>1, <1>2

\* The Redis half of a call leaves the local map alone.
LEMMA RedisFrame ==
  ASSUME NEW c \in Clients, RedisStep(c)
  PROVE  /\ local' = local /\ timers' = timers /\ spawned' = spawned
         /\ redisUp' => redisUp
         /\ pc[c] \in {"redis", "scan"}
BY DEF RedisStep, RedisOk, RedisError, RedisScan, RedisScanError, RedisScanEnd,
   RedisScanDel, RedisScanDelError, redisVars

\* The local half leaves Redis alone.
LEMMA LocalFrame ==
  ASSUME NEW c \in Clients, LocalStep(c)
  PROVE  UNCHANGED <<redis, redisUp>>
BY DEF LocalStep, LocalLookup, Purge, LocalExtend, LocalStore, Arm,
   LocalDelete, SweepStart, SweepEnd, Sweep, redisVars

---------------------------------------------------------------------------
(* Where calls and saves can be.                                           *)

\* Only a running process serves calls; one that is down has no goroutines and timers.
DownIsQuiet ==
  /\ proc # "up" => \A c \in Clients : pc[c] = "idle"
  /\ proc = "down" => SavesDone /\ timers = NoTimers
  /\ redisUp => proc = "up"

\* A save that is about to be written has visited every key.
CommitComplete == saver = "commit" => visit = {}

\* Calls are calls of the callers; SetKey and ExtendKeyTTL work locally only after a
\* failure; a prefix deletion visits keys that have the prefix.
CallsInOrder ==
  \A c \in Clients :
     /\ pc[c] # "idle" => req[c].op \in Ops
     /\ pc[c] \in {"local", "store", "arm"} /\ req[c].op \in {"set", "extend"} => ~redisUp
     /\ pc[c] = "store" => req[c].op = "extend"
     /\ pc[c] \in {"scan", "sweep", "swept"} =>
           req[c].op = "delprefix" /\ todo[c] \subseteq Prefixed[req[c].key]

ControlInv == KvTypeInv /\ DownIsQuiet /\ CommitComplete /\ CallsInOrder

LEMMA ControlInit == Init => ControlInv
<1> SUFFICES ASSUME Init PROVE ControlInv OBVIOUS
<1>1. KvTypeInv BY KvTypeInit
<1>2. DownIsQuiet BY DEF Init, DownIsQuiet, SavesDone
<1>3. CommitComplete BY DEF Init, CommitComplete
<1>4. CallsInOrder BY DEF Init, CallsInOrder
<1> QED BY <1>1, <1>2, <1>3, <1>4 DEF ControlInv

LEMMA DownIsQuietNext == ControlInv /\ [Next]_vars => DownIsQuiet'
<1> SUFFICES ASSUME ControlInv, [Next]_vars PROVE DownIsQuiet' OBVIOUS
<1> USE DEF redisVars, saveVars, callVars
<1>t. TypeOK /\ DownIsQuiet BY DEF ControlInv, KvTypeInv
<1>1. CASE LoadCacheFromFile
  BY <1>1, <1>t DEF LoadCacheFromFile, DownIsQuiet
<1>2. CASE \E ok \in BOOLEAN : InitRedis(ok)
  BY <1>2, <1>t DEF InitRedis, DownIsQuiet
<1>3. CASE StartWithoutRedis
  BY <1>3, <1>t DEF StartWithoutRedis, DownIsQuiet
<1>4. CASE Exit
  BY <1>4, <1>t DEF Exit, DownIsQuiet, SavesDone
<1>5. CASE Tick
  <2>1. timers = NoTimers => timers' = NoTimers
    <3> SUFFICES ASSUME timers = NoTimers PROVE timers' = NoTimers OBVIOUS
    <3>1. \A k \in Keys, t \in 0..MaxTTL :
            (IF t < MaxTTL THEN timers[k][t + 1] ELSE 0)
              + (IF t = 0 THEN timers[k][0] ELSE 0) = 0
      BY KvConstants DEF NoTimers
    <3> QED BY <1>5, <3>1 DEF Tick, NoTimers
  <2>2. UNCHANGED <<proc, redisUp, spawned, waiting, saver, pc>>
    BY <1>5 DEF Tick
  <2> QED BY <1>t, <2>1, <2>2 DEF DownIsQuiet, SavesDone
<1>6. ASSUME NEW c \in Clients, NEW r \in Requests, Begin(c, r) PROVE DownIsQuiet'
  BY <1>6, <1>t DEF Begin, DownIsQuiet, SavesDone
<1>7. ASSUME NEW c \in Clients, RedisStep(c) \/ LocalStep(c) PROVE DownIsQuiet'
  <2>1. proc = "up" BY <1>7, <1>t, ClientBusy DEF DownIsQuiet
  <2>2. proc' = "up" BY <1>7, <2>1, ClientFrame
  <2> QED BY <2>2 DEF DownIsQuiet
<1>8. ASSUME NEW k \in Keys, TimerFire(k) PROVE DownIsQuiet'
  <2>1. proc # "down"
    <3> SUFFICES ASSUME proc = "down" PROVE FALSE OBVIOUS
    <3>1. timers[k][0] = 0 BY <1>t, KvConstants DEF DownIsQuiet, NoTimers
    <3> QED BY <1>8, <3>1 DEF TimerFire
  <2> QED BY <1>8, <1>t, <2>1 DEF TimerFire, DownIsQuiet
<1>9. CASE SaveStep
  <2>1. /\ timers' = timers /\ proc' = proc /\ pc' = pc /\ redisUp' = redisUp
        /\ SavesDone => FALSE
    BY <1>9 DEF SaveStep, SaveSkip, SaveAdmit, SaveLock, SaveVisit, SaveCommit, SavesDone
  <2> QED BY <1>t, <2>1 DEF DownIsQuiet
<1>10. CASE UNCHANGED vars
  BY <1>10, <1>t DEF vars, DownIsQuiet, SavesDone
<1> QED
  BY <1>1, <1>2, <1>3, <1>4, <1>5, <1>6, <1>7, <1>8, <1>9, <1>10 DEF Next

LEMMA CommitCompleteNext == CommitComplete /\ [Next]_vars => CommitComplete'
<1> SUFFICES ASSUME CommitComplete, [Next]_vars PROVE CommitComplete' OBVIOUS
<1> USE DEF CommitComplete, saveVars
<1>1. CASE Exit BY <1>1 DEF Exit
<1>2. CASE SaveStep
  BY <1>2 DEF SaveStep, SaveSkip, SaveAdmit, SaveLock, SaveVisit, SaveCommit
<1>3. CASE UNCHANGED <<saver, visit>> BY <1>3
<1>4. ASSUME NEW c \in Clients, RedisStep(c) \/ LocalStep(c) PROVE UNCHANGED <<saver, visit>>
  BY <1>4, ClientFrame
<1>5. ASSUME NEW c \in Clients, NEW r \in Requests, Begin(c, r) PROVE UNCHANGED <<saver, visit>>
  BY <1>5 DEF Begin
<1>6. ASSUME \/ LoadCacheFromFile \/ StartWithoutRedis \/ Tick
             \/ \E ok \in BOOLEAN : InitRedis(ok)
             \/ \E k \in Keys : TimerFire(k)
      PROVE  UNCHANGED <<saver, visit>>
  BY <1>6 DEF LoadCacheFromFile, StartWithoutRedis, Tick, InitRedis, TimerFire
<1>7. CASE UNCHANGED vars BY <1>7 DEF vars
<1> QED BY <1>1, <1>2, <1>3, <1>4, <1>5, <1>6, <1>7 DEF Next

LEMMA CallsInOrderNext == ControlInv /\ [Next]_vars => CallsInOrder'
<1> SUFFICES ASSUME ControlInv, [Next]_vars PROVE CallsInOrder' OBVIOUS
<1> USE DEF redisVars, saveVars, callVars
<1>t. TypeOK /\ DownIsQuiet /\ CallsInOrder /\ BusyHasRequest
  BY DEF ControlInv, KvTypeInv
<1>1. ASSUME UNCHANGED <<pc, req, todo>>, redisUp' => redisUp PROVE CallsInOrder'
  BY <1>1, <1>t DEF CallsInOrder
<1>2. ASSUME NEW ok \in BOOLEAN, InitRedis(ok) PROVE CallsInOrder'
  BY <1>2, <1>t DEF InitRedis, DownIsQuiet, CallsInOrder
<1>3. CASE Exit
  BY <1>3 DEF Exit, CallsInOrder
<1>4. ASSUME NEW c \in Clients, NEW r \in Requests, Begin(c, r) PROVE CallsInOrder'
  <2>1. /\ \A d \in Clients : d # c => pc'[d] = pc[d] /\ req'[d] = req[d] /\ todo'[d] = todo[d]
        /\ pc'[c] = (IF redisUp THEN "redis" ELSE "local") /\ req'[c] = r
        /\ redisUp' = redisUp /\ r.op \in Ops
    BY <1>4, <1>t DEF Begin, TypeOK
  <2> QED BY <1>t, <2>1 DEF CallsInOrder
<1>5. ASSUME NEW c \in Clients, RedisStep(c) \/ LocalStep(c) PROVE CallsInOrder'
  <2>1. redisUp' => redisUp
    BY <1>5, RedisFrame, LocalFrame
  <2>2. \A d \in Clients : d # c => pc'[d] = pc[d] /\ req'[d] = req[d] /\ todo'[d] = todo[d]
    BY <1>5, <1>t, OthersStay
  <2>3. pc'[c] # "idle" => req'[c] = req[c] /\ req[c].op \in Ops
    BY <1>5, <1>t, OthersStay, ClientBusy DEF CallsInOrder
  <2>4. pc'[c] \in {"local", "store", "arm"} /\ req[c].op \in {"set", "extend"} => ~redisUp'
    <3>1. CASE RedisStep(c)
      BY <3>1, <1>t DEF RedisStep, RedisOk, RedisError, RedisScan, RedisScanError,
         RedisScanEnd, RedisScanDel, RedisScanDelError, Goto, Return, TypeOK, CallsInOrder
    <3>2. CASE LocalStep(c)
      BY <3>2, <1>t DEF LocalStep, LocalLookup, Purge, LocalExtend, LocalStore, Arm,
         LocalDelete, SweepStart, SweepEnd, Sweep, Goto, Return, TypeOK, CallsInOrder
    <3> QED BY <1>5, <3>1, <3>2
  <2>5. pc'[c] \in {"scan", "sweep", "swept"} =>
           req[c].op = "delprefix" /\ todo'[c] \subseteq Prefixed[req[c].key]
    <3>1. CASE RedisStep(c)
      <4>1. CASE RedisScan(c)
        BY <4>1, <1>t DEF RedisScan, Goto, TypeOK
      <4>2. ASSUME NEW k \in Keys, RedisScanDel(c, k)
            PROVE  req[c].op = "delprefix" /\ todo'[c] \subseteq Prefixed[req[c].key]
        <5>1. pc[c] = "scan" /\ todo'[c] = todo[c] \ {k}
          BY <4>2, <1>t DEF RedisScanDel, TypeOK
        <5> QED BY <5>1, <1>t DEF CallsInOrder
      <4>3. ASSUME \/ RedisOk(c) \/ RedisError(c) \/ RedisScanError(c) \/ RedisScanEnd(c)
                   \/ \E k \in Keys : RedisScanDelError(c, k)
            PROVE  pc'[c] \notin {"scan", "sweep", "swept"}
        <5>1. pc'[c] \in {"idle", "local"}
          BY <4>3, <1>t DEF RedisOk, RedisError, RedisScanError, RedisScanEnd,
             RedisScanDelError, Goto, Return, TypeOK
        <5> QED BY <5>1
      <4> QED BY <3>1, <4>1, <4>2, <4>3 DEF RedisStep
    <3>2. CASE LocalStep(c)
      <4>1. CASE SweepStart(c)
        BY <4>1, <1>t DEF SweepStart, Goto, TypeOK
      <4>2. ASSUME NEW k \in Keys, Sweep(c, k)
            PROVE  req[c].op = "delprefix" /\ todo'[c] \subseteq Prefixed[req[c].key]
        <5>1. pc[c] \in {"sweep", "swept"} /\ todo'[c] = todo[c] \ {k}
          BY <4>2, <1>t DEF Sweep, TypeOK
        <5> QED BY <5>1, <1>t DEF CallsInOrder
      <4>3. ASSUME \/ LocalLookup(c) \/ Purge(c) \/ LocalExtend(c) \/ LocalStore(c)
                   \/ Arm(c) \/ LocalDelete(c) \/ SweepEnd(c)
            PROVE  pc'[c] \notin {"scan", "sweep", "swept"}
        BY <4>3, <1>t DEF LocalLookup, Purge, LocalExtend, LocalStore, Arm, LocalDelete,
           SweepEnd, Goto, Return, TypeOK
      <4> QED BY <3>2, <4>1, <4>2, <4>3 DEF LocalStep
    <3> QED BY <1>5, <3>1, <3>2
  <2>6. pc'[c] = "store" => req[c].op = "extend"
    <3>1. CASE RedisStep(c)
      BY <3>1, <1>t DEF RedisStep, RedisOk, RedisError, RedisScan, RedisScanError,
         RedisScanEnd, RedisScanDel, RedisScanDelError, Goto, Return, TypeOK
    <3>2. CASE LocalStep(c)
      BY <3>2, <1>t DEF LocalStep, LocalLookup, Purge, LocalExtend, LocalStore, Arm,
         LocalDelete, SweepStart, SweepEnd, Sweep, Goto, Return, TypeOK
    <3> QED BY <1>5, <3>1, <3>2
  <2> QED BY <1>t, <2>1, <2>2, <2>3, <2>4, <2>5, <2>6 DEF CallsInOrder
<1>6. ASSUME \/ LoadCacheFromFile \/ StartWithoutRedis \/ Tick \/ SaveStep
             \/ \E k \in Keys : TimerFire(k)
      PROVE  UNCHANGED <<pc, req, todo>> /\ (redisUp' => redisUp)
  BY <1>6 DEF LoadCacheFromFile, StartWithoutRedis, Tick, TimerFire, SaveStep, SaveSkip,
     SaveAdmit, SaveLock, SaveVisit, SaveCommit
<1>7. CASE UNCHANGED vars BY <1>1, <1>7 DEF vars
<1> QED BY <1>1, <1>2, <1>3, <1>4, <1>5, <1>6, <1>7 DEF Next

LEMMA ControlNext == ControlInv /\ [Next]_vars => ControlInv'
BY KvTypeNext, DownIsQuietNext, CommitCompleteNext, CallsInOrderNext DEF ControlInv

---------------------------------------------------------------------------
(* What the file keeps.                                                    *)

\* The file, or the save under way, has what the local map has ...
Copied(k) == IF saver = "none" THEN file[k] = Live(k) ELSE k \in visit \/ snap[k] = Live(k)

\* ... or a save will still be started that finds it.
PendingSave(k) ==
  /\ proc = "up" /\ ~redisUp
  /\ \/ spawned > 0 \/ waiting > 0
     \/ \E c \in Clients : pc[c] = "arm" /\ req[c].key = k

KeepInv == \A k \in Keys : Live(k) > 0 => Copied(k) \/ PendingSave(k)

\* A live time ages to one that is one less.
LEMMA LiveAges ==
  ASSUME TypeOK, Tick, NEW k \in Keys
  PROVE  /\ Live(k)' = Age(Live(k))
         /\ file'[k] = Age(file[k]) /\ snap'[k] = Age(snap[k])
<1>1. local[k] \in -1..MaxTTL /\ local'[k] = Age(local[k])
  BY DEF TypeOK, Tick, AgeAll
<1>2. Live(k)' = Age(Live(k)) BY <1>1, KvConstants DEF Live, Age
<1> QED BY <1>2 DEF Tick, AgeAll

\* What is copied stays copied while local, file and the save under way are left alone,
\* and when the local map loses the entry.
LEMMA KeepFrame ==
  ASSUME KeepInv, UNCHANGED <<file, saver, visit, snap>>,
         \A k \in Keys : local'[k] \in {local[k], NoEntry},
         \A k \in Keys : PendingSave(k) => PendingSave(k)'
  PROVE  KeepInv'
<1> SUFFICES ASSUME NEW k \in Keys, Live(k)' > 0 PROVE Copied(k)' \/ PendingSave(k)'
  BY DEF KeepInv
<1>1. local'[k] = local[k] BY DEF Live, NoEntry
<1>2. Live(k)' = Live(k) BY <1>1 DEF Live
<1> QED BY <1>2 DEF KeepInv, Copied

LEMMA KeepNext ==
  ASSUME ~DiskFaults
  PROVE  ControlInv /\ KeepInv /\ [Next]_vars => KeepInv'
<1> SUFFICES ASSUME ControlInv, KeepInv, [Next]_vars PROVE KeepInv' OBVIOUS
<1> USE DEF redisVars, saveVars, callVars
<1>t. TypeOK /\ DownIsQuiet /\ CommitComplete /\ CallsInOrder /\ BusyHasRequest /\ StoringCalls
  BY DEF ControlInv, KvTypeInv
<1>s. spawned \in Nat /\ waiting \in Nat BY <1>t DEF TypeOK
<1>1. CASE LoadCacheFromFile
  <2> SUFFICES ASSUME NEW k \in Keys, Live(k)' > 0 PROVE Copied(k)' BY DEF KeepInv
  <2>1. saver' = "none" BY <1>1, <1>t DEF LoadCacheFromFile, DownIsQuiet, SavesDone
  <2>2. local'[k] = (IF file[k] > 0 THEN file[k] ELSE NoEntry) /\ file' = file
    BY <1>1 DEF LoadCacheFromFile
  <2>3. file'[k] = Live(k)' BY <2>2 DEF Live, NoEntry
  <2> QED BY <2>1, <2>3 DEF Copied
<1>2. ASSUME NEW ok \in BOOLEAN, InitRedis(ok) PROVE KeepInv'
  <2>1. proc = "init" /\ UNCHANGED <<local, file, saver, visit, snap>> BY <1>2 DEF InitRedis
  <2>2. \A k \in Keys : ~PendingSave(k) BY <2>1 DEF PendingSave
  <2> QED BY <2>1, <2>2, KeepFrame
<1>3. CASE StartWithoutRedis
  <2>1. UNCHANGED <<local, file, saver, visit, snap>> /\ proc = "init"
    BY <1>3 DEF StartWithoutRedis
  <2>2. \A k \in Keys : ~PendingSave(k) BY <2>1 DEF PendingSave
  <2> QED BY <2>1, <2>2, KeepFrame
<1>4. CASE Exit
  <2>1. \A k \in Keys : local'[k] = NoEntry BY <1>4 DEF Exit
  <2> QED BY <2>1 DEF KeepInv, Live, NoEntry
<1>5. CASE Tick
  <2> SUFFICES ASSUME NEW k \in Keys, Live(k)' > 0 PROVE Copied(k)' \/ PendingSave(k)'
    BY DEF KeepInv
  <2>1. /\ Live(k)' = Age(Live(k)) /\ file'[k] = Age(file[k]) /\ snap'[k] = Age(snap[k])
    BY <1>5, <1>t, LiveAges
  <2>2. Live(k) \in 0..MaxTTL BY <1>t, KvConstants DEF Live, TypeOK
  <2>3. Live(k) > 0 BY <2>1, <2>2, KvConstants DEF Age
  <2>4. UNCHANGED <<proc, redisUp, spawned, waiting, saver, visit, pc, req>>
    BY <1>5 DEF Tick
  <2>5. PendingSave(k) => PendingSave(k)' BY <2>4 DEF PendingSave
  <2>6. Copied(k) => Copied(k)' BY <2>1, <2>4 DEF Copied
  <2> QED BY <2>3, <2>5, <2>6 DEF KeepInv
<1>6. ASSUME NEW c \in Clients, NEW r \in Requests, Begin(c, r) PROVE KeepInv'
  <2>1. /\ UNCHANGED <<local, file, saver, visit, snap, proc, redisUp, spawned, waiting>>
        /\ \A d \in Clients : pc[d] = "arm" => pc'[d] = "arm" /\ req'[d] = req[d]
    BY <1>6, <1>t DEF Begin, TypeOK
  <2>2. \A k \in Keys : PendingSave(k) => PendingSave(k)' BY <2>1 DEF PendingSave
  <2> QED BY <2>1, <2>2, KeepFrame
\* RedisError may only clear redisUp.
<1>7. ASSUME NEW c \in Clients, RedisStep(c) PROVE KeepInv'
  <2>1. UNCHANGED <<local, spawned>> /\ (redisUp' => redisUp) /\ pc[c] # "arm"
    BY <1>7, RedisFrame
  <2>2. UNCHANGED <<proc, file, waiting, saver, visit, snap>> BY <1>7, ClientFrame
  <2>3. \A d \in Clients : d # c => pc'[d] = pc[d] /\ req'[d] = req[d] BY <1>7, <1>t, OthersStay
  <2>4. \A k \in Keys : PendingSave(k) => PendingSave(k)' BY <2>1, <2>2, <2>3 DEF PendingSave
  <2> QED BY <2>1, <2>2, <2>4, KeepFrame
<1>8. ASSUME NEW c \in Clients, LocalStep(c) PROVE KeepInv'
  <2>1. UNCHANGED <<proc, file, waiting, saver, visit, snap>> BY <1>8, ClientFrame
  <2>2. \A d \in Clients : d # c => pc'[d] = pc[d] /\ req'[d] = req[d] BY <1>8, <1>t, OthersStay
  <2>3. redisUp' = redisUp BY <1>8, LocalFrame
  <2>4. pc[c] # "idle" BY <1>8, ClientBusy
  \* The client that stored will start a save.
  <2>5. CASE LocalStore(c)
    <3> SUFFICES ASSUME NEW k \in Keys, Live(k)' > 0 PROVE Copied(k)' \/ PendingSave(k)'
      BY DEF KeepInv
    <3>1. /\ pc'[c] = "arm" /\ req' = req /\ spawned' = spawned
          /\ local' = [local EXCEPT ![req[c].key] = req[c].ttl]
          /\ pc[c] # "arm"
      BY <2>5, <1>t DEF LocalStore, Goto, TypeOK
    <3>2. CASE k = req[c].key
      <4>1. ~redisUp /\ proc = "up"
        BY <2>5, <2>4, <1>t DEF LocalStore, CallsInOrder, DownIsQuiet, StoringCalls
      <4> QED BY <2>1, <2>3, <3>1, <3>2, <4>1 DEF PendingSave
    <3>3. CASE k # req[c].key
      <4>1. local'[k] = local[k] BY <3>1, <3>3, <1>t DEF TypeOK
      <4>2. Live(k)' = Live(k) BY <4>1 DEF Live
      <4>3. PendingSave(k) => PendingSave(k)' BY <2>1, <2>2, <2>3, <3>1 DEF PendingSave
      <4> QED BY <2>1, <4>2, <4>3 DEF KeepInv, Copied
    <3> QED BY <3>2, <3>3
  <2>6. CASE ~LocalStore(c)
    <3>1. \A k \in Keys : local'[k] \in {local[k], NoEntry}
      BY <1>8, <2>6, <1>t DEF LocalStep, LocalLookup, Purge, LocalExtend, Arm, LocalDelete,
         SweepStart, SweepEnd, Sweep, TypeOK
    <3>2. spawned' \in {spawned, spawned + 1} /\ (pc[c] = "arm" => spawned' = spawned + 1)
      BY <1>8, <2>6 DEF LocalStep, LocalLookup, Purge, LocalExtend, Arm, LocalDelete,
         SweepStart, SweepEnd, Sweep, GoSave
    <3>3. \A k \in Keys : PendingSave(k) => PendingSave(k)'
      BY <1>s, <2>1, <2>2, <2>3, <3>2 DEF PendingSave
    <3> QED BY <2>1, <3>1, <3>3, KeepFrame
  <2> QED BY <2>5, <2>6
<1>9. ASSUME NEW k \in Keys, TimerFire(k) PROVE KeepInv'
  <2>1. /\ UNCHANGED <<proc, redisUp, file, waiting, saver, visit, snap, pc, req>>
        /\ spawned' = spawned + 1
        /\ \A x \in Keys : local'[x] \in {local[x], NoEntry}
    BY <1>9, <1>t DEF TimerFire, Fired, GoSave, TypeOK
  <2>2. \A x \in Keys : PendingSave(x) => PendingSave(x)' BY <1>s, <2>1 DEF PendingSave
  <2> QED BY <2>1, <2>2, KeepFrame
<1>10. CASE SaveStep
  <2>0. UNCHANGED <<proc, redisUp, local, pc, req>>
    BY <1>10 DEF SaveStep, SaveSkip, SaveAdmit, SaveLock, SaveVisit, SaveCommit
  <2>l. \A k \in Keys : Live(k)' = Live(k) BY <2>0 DEF Live
  \* A save is only skipped while no save is being waited for.
  <2>1. CASE SaveSkip
    <3>1. redisUp /\ UNCHANGED <<file, saver, visit, snap>> BY <2>1 DEF SaveSkip
    <3>2. \A k \in Keys : ~PendingSave(k) BY <3>1 DEF PendingSave
    <3> QED BY <2>0, <3>1, <3>2, KeepFrame
  <2>2. CASE SaveAdmit
    <3>1. waiting' = waiting + 1 /\ UNCHANGED <<file, saver, visit, snap>>
      BY <2>2 DEF SaveAdmit
    <3>2. \A k \in Keys : PendingSave(k) => PendingSave(k)'
      BY <1>s, <2>0, <3>1 DEF PendingSave
    <3> QED BY <2>0, <3>1, <3>2, KeepFrame
  <2>3. CASE SaveLock
    <3>1. saver' = "range" /\ visit' = Keys BY <2>3 DEF SaveLock
    <3>2. \A k \in Keys : Copied(k)' BY <3>1 DEF Copied
    <3> QED BY <3>2 DEF KeepInv
  <2>4. CASE SaveCommit
    <3>1. /\ saver = "commit" /\ visit = {} /\ saver' = "none" /\ file' = snap
          /\ UNCHANGED <<spawned, waiting>>
      BY <2>4, <1>t DEF SaveCommit, CommitComplete
    <3>2. \A k \in Keys : (Copied(k) => Copied(k)') /\ (PendingSave(k) => PendingSave(k)')
      BY <2>0, <2>l, <3>1 DEF Copied, PendingSave
    <3> QED BY <2>l, <3>2 DEF KeepInv
  <2>5. ASSUME NEW x \in Keys, SaveVisit(x) PROVE KeepInv'
    <3>1. /\ saver = "range" /\ saver' \in {"range", "commit"} /\ visit' = visit \ {x}
          /\ snap' = [snap EXCEPT ![x] = Live(x)]
          /\ UNCHANGED <<spawned, waiting, file>>
      BY <2>5 DEF SaveVisit, Live
    <3>2. \A k \in Keys : (Copied(k) => Copied(k)') /\ (PendingSave(k) => PendingSave(k)')
      BY <2>0, <2>l, <3>1, <1>t DEF Copied, PendingSave, TypeOK
    <3> QED BY <2>l, <3>2 DEF KeepInv
  <2> QED BY <1>10, <2>1, <2>2, <2>3, <2>4, <2>5 DEF SaveStep
<1>11. CASE UNCHANGED vars
  <2>1. \A k \in Keys : PendingSave(k) => PendingSave(k)' BY <1>11 DEF vars, PendingSave
  <2> QED BY <1>11, <2>1, KeepFrame DEF vars
<1> QED
  BY <1>1, <1>2, <1>3, <1>4, <1>5, <1>6, <1>7, <1>8, <1>9, <1>10, <1>11 DEF Next

\* Unless the file itself cannot be written: whatever falls back to the local map is in
\* the file once the saves are through, whatever Redis does and however often the
\* process exits.
THEOREM KvFileKeeps == ASSUME ~DiskFaults PROVE Spec => []FileKeeps
<1>1. Init => KeepInv
  <2>1. Init => \A k \in Keys : local[k] = NoEntry BY DEF Init
  <2> QED BY <2>1 DEF KeepInv, Live, NoEntry
<1>2. ControlInv /\ KeepInv /\ [Next]_vars => (ControlInv /\ KeepInv)'
  BY ControlNext, KeepNext
<1>3. KeepInv => FileKeeps
  BY DEF KeepInv, FileKeeps, Saved, SavesDone, Copied, PendingSave
<1> QED BY <1>1, <1>2, <1>3, ControlInit, PTL DEF Spec

---------------------------------------------------------------------------
(* Keys that are never used again.                                         *)

\* A SetKey that has not taken effect.
Setting(c) == pc[c] \in {"redis", "local"} /\ req[c].op = "set"

\* Nothing of the key is or was in the local map.
NotStored(k) ==
  /\ local[k] = NoEntry
  /\ \A t \in 0..MaxTTL : timers[k][t] = 0
  /\ \A c \in Clients : pc[c] \in {"purge", "store", "arm"} => req[c].key # k

FreshInv ==
  \* A key that no SetKey has stored is nowhere ...
  /\ \A k \in Keys : promised[k] = Unissued => NotStored(k) /\ file[k] = 0 /\ snap[k] = 0
  \* ... and is still not there when SetKey is about to store it; until then nobody else
  \* stores, extends or deletes it.
  /\ \A c \in Clients : Setting(c) =>
        /\ NotStored(req[c].key)
        /\ promised[req[c].key] \in {Unissued, Revoked}
  /\ \A c, d \in Clients :
        c # d /\ Setting(c) /\ pc[d] # "idle" /\ req[d].key = req[c].key
           => req[d].op \notin {"set", "extend", "del"}
  \* What a deletion under way covers stays revoked.
  /\ \A c \in Clients : pc[c] # "idle" /\ req[c].op = "del" => promised[req[c].key] = Revoked
  /\ \A k \in Keys : Swept(k) => promised[k] = Revoked

\* Steps that begin no call and promise nothing.
LEMMA FreshFrame ==
  ASSUME FreshInv, promised' = promised,
         \A c \in Clients : pc'[c] # "idle" => pc[c] # "idle" /\ req'[c] = req[c],
         \A c \in Clients : Setting(c)' => Setting(c),
         \A k \in Keys : NotStored(k) => NotStored(k)',
         \A k \in Keys : file[k] = 0 /\ snap[k] = 0 /\ local[k] = NoEntry
                            => file'[k] = 0 /\ snap'[k] = 0,
         KvTypeInv
  PROVE  FreshInv'
<1>r. ASSUME NEW c \in Clients, pc[c] # "idle" PROVE req[c].key \in Keys
  BY <1>r, RequestFields DEF KvTypeInv, BusyHasRequest
<1>1. \A k \in Keys : promised'[k] = Unissued => NotStored(k)' /\ file'[k] = 0 /\ snap'[k] = 0
  BY DEF FreshInv, NotStored
<1>2. \A c \in Clients : Setting(c)' => pc'[c] # "idle" BY DEF Setting
<1>3. ASSUME NEW c \in Clients, Setting(c)'
      PROVE  (NotStored(req[c].key) /\ promised[req[c].key] \in {Unissued, Revoked})'
  BY <1>3, <1>2, <1>r DEF FreshInv
<1>4. ASSUME NEW c \in Clients, NEW d \in Clients,
             c # d, Setting(c)', pc'[d] # "idle", req'[d].key = req'[c].key
      PROVE  req'[d].op \notin {"set", "extend", "del"}
  BY <1>4, <1>2 DEF FreshInv
<1>5. \A c \in Clients : pc'[c] # "idle" /\ req'[c].op = "del" => promised'[req'[c].key] = Revoked
  BY DEF FreshInv
<1>6. \A k \in Keys : Swept(k)' => Swept(k) BY DEF Swept
<1>7. \A k \in Keys : Swept(k)' => promised'[k] = Revoked BY <1>6 DEF FreshInv
<1> QED BY <1>1, <1>3, <1>4, <1>5, <1>7 DEF FreshInv

LEMMA FreshInit == Init => FreshInv
<1> SUFFICES ASSUME Init PROVE FreshInv OBVIOUS
<1>1. \A c \in Clients : pc[c] = "idle" BY DEF Init
<1>2. \A k \in Keys : NotStored(k) BY <1>1 DEF Init, NotStored, NoTimers
<1>3. \A k \in Keys : file[k] = 0 /\ snap[k] = 0 BY DEF Init
<1>4. \A k \in Keys : ~Swept(k) BY <1>1 DEF Swept
<1> QED BY <1>1, <1>2, <1>3, <1>4 DEF FreshInv, Setting

\* The steps of a call that can make an entry or a timer of a key, or come to delete it
\* by key later, are steps on an entry.
LEMMA NotStoredClient ==
  ASSUME ControlInv, NEW c \in Clients, RedisStep(c) \/ LocalStep(c), NEW k \in Keys,
         NotStored(k), ~(LocalStore(c) /\ req[c].key = k)
  PROVE  NotStored(k)'
<1> USE DEF NotStored, redisVars, callVars
<1>t. TypeOK BY DEF ControlInv, KvTypeInv
<1>o. \A d \in Clients : d # c => pc'[d] = pc[d] /\ req'[d] = req[d] BY <1>t, OthersStay
<1>k. pc'[c] # "idle" => req'[c] = req[c] BY <1>t, OthersStay
<1>s. pc[c] # "idle" => req[c].key \in Keys /\ req[c].ttl \in 0..MaxTTL
  BY RequestFields DEF ControlInv, KvTypeInv, BusyHasRequest
<1>1. CASE RedisStep(c)
  <2>1. local' = local /\ timers' = timers BY <1>1, RedisFrame
  <2>2. pc'[c] \in {"idle", "redis", "scan", "local"}
    BY <1>1, <1>t DEF RedisStep, RedisOk, RedisError, RedisScan, RedisScanError,
       RedisScanEnd, RedisScanDel, RedisScanDelError, Goto, Return, TypeOK
  <2> QED BY <1>o, <2>1, <2>2
<1>2. CASE LocalStore(c)
  <2>1. /\ local' = [local EXCEPT ![req[c].key] = req[c].ttl] /\ timers' = timers
        /\ req[c].key # k /\ req' = req
    BY <1>2 DEF LocalStore, Goto
  <2> QED BY <1>o, <1>t, <2>1 DEF TypeOK
<1>3. CASE Arm(c)
  <2>1. pc[c] = "arm" /\ pc'[c] = "idle" /\ req[c].key # k /\ local' = local
    BY <1>3, <1>t DEF Arm, Return, TypeOK
  <2>2. timers'[k] = timers[k]
    BY <1>3, <1>t, <2>1 DEF Arm, TypeOK
  <2> QED BY <1>o, <2>1, <2>2
<1>4. CASE LocalStep(c) /\ ~LocalStore(c) /\ ~Arm(c)
  <2>1. timers' = timers /\ local'[k] \in {local[k], NoEntry}
    BY <1>4, <1>t DEF LocalStep, LocalLookup, Purge, LocalExtend, LocalDelete,
       SweepStart, SweepEnd, Sweep, TypeOK
  <2>2. pc'[c] \in {"purge", "store", "arm"} => local[req[c].key] # NoEntry
    <3>1. CASE LocalLookup(c)
      BY <3>1, <1>t DEF LocalLookup, Goto, Return, Stale, NoEntry, TypeOK
    <3>2. CASE LocalExtend(c)
      BY <3>2, <1>t DEF LocalExtend, Goto, Return, TypeOK
    <3>3. ASSUME \/ Purge(c) \/ LocalDelete(c) \/ SweepStart(c) \/ SweepEnd(c)
                 \/ \E x \in Keys : Sweep(c, x)
          PROVE  pc'[c] \in {"idle", "sweep", "swept"}
      BY <3>3, <1>t DEF Purge, LocalDelete, SweepStart, SweepEnd, Sweep, Goto, Return, TypeOK
    <3> QED BY <1>4, <3>1, <3>2, <3>3 DEF LocalStep
  <2> QED BY <1>o, <1>k, <2>1, <2>2
<1> QED BY <1>1, <1>2, <1>3, <1>4

\* What a step of a client promises.
LEMMA ClientPromise ==
  ASSUME ControlInv, NEW c \in Clients, RedisStep(c) \/ LocalStep(c)
  PROVE  \/ promised' = promised /\ ~(LocalStore(c) /\ Setting(c))
         \/ /\ Setting(c)
            /\ RedisOk(c) \/ LocalStore(c)
            /\ promised' = [promised EXCEPT ![req[c].key] =
                              IF Swept(req[c].key) THEN Revoked ELSE req[c].ttl]
<1>c. CallsInOrder BY DEF ControlInv
<1>1. CASE RedisStep(c)
  <2>1. pc[c] \in {"redis", "scan"} BY <1>1, RedisFrame
  <2>2. ~LocalStore(c) BY <2>1 DEF LocalStore
  <2> QED BY <1>1, <2>2 DEF RedisStep, RedisOk, RedisError, RedisScan, RedisScanError,
     RedisScanEnd, RedisScanDel, RedisScanDelError, Promise, Setting
<1>2. CASE LocalStore(c)
  BY <1>2, <1>c DEF LocalStore, Promise, Setting, CallsInOrder
<1>3. CASE LocalStep(c) /\ ~LocalStore(c)
  BY <1>3 DEF LocalStep, LocalLookup, Purge, LocalExtend, Arm, LocalDelete,
     SweepStart, SweepEnd, Sweep
<1> QED BY <1>1, <1>2, <1>3

LEMMA FreshNext ==
  ASSUME FreshKeys
  PROVE  ControlInv /\ FreshInv /\ [Next]_vars => FreshInv'
<1> SUFFICES ASSUME ControlInv, FreshInv, [Next]_vars PROVE FreshInv' OBVIOUS
<1> USE DEF redisVars, saveVars, callVars
<1>t. TypeOK /\ DownIsQuiet /\ CallsInOrder /\ BusyHasRequest /\ StoringCalls /\ KvTypeInv
  BY DEF ControlInv, KvTypeInv
<1>r. ASSUME NEW c \in Clients, pc[c] # "idle"
      PROVE  req[c].key \in Keys /\ req[c].ttl \in 0..MaxTTL
  BY <1>r, <1>t, RequestFields DEF BusyHasRequest
<1>z. 0 \in 0..MaxTTL /\ MaxTTL \in Nat BY KvConstants
<1>1. CASE LoadCacheFromFile
  <2>1. \A c \in Clients : pc'[c] = "idle" BY <1>1, <1>t DEF LoadCacheFromFile, DownIsQuiet
  <2>2. promised' = promised /\ file' = file /\ snap' = snap BY <1>1 DEF LoadCacheFromFile
  <2>3. ASSUME NEW k \in Keys, promised[k] = Unissued PROVE NotStored(k)'
    <3>1. file[k] = 0 BY <2>3 DEF FreshInv
    <3>2. local'[k] = NoEntry /\ \A t \in 0..MaxTTL : timers'[k][t] = 0
      BY <1>1, <3>1 DEF LoadCacheFromFile, LoadedTimers
    <3> QED BY <2>1, <3>2 DEF NotStored
  <2> QED BY <2>1, <2>2, <2>3 DEF FreshInv, Setting, Swept
<1>2. CASE Exit
  <2>1. \A c \in Clients : pc'[c] = "idle" BY <1>2 DEF Exit
  <2>2. \A k \in Keys : NotStored(k)' BY <1>2, <2>1 DEF Exit, NotStored, NoTimers
  <2>3. \A k \in Keys : promised'[k] = Unissued => promised[k] = Unissued
    BY <1>2, <1>t DEF Exit, Unissued, TypeOK
  <2>4. file' = file /\ \A k \in Keys : snap'[k] = 0 BY <1>2 DEF Exit
  <2> QED BY <2>1, <2>2, <2>3, <2>4 DEF FreshInv, Setting, Swept
<1>3. CASE Tick
  <2>1. pc' = pc /\ req' = req BY <1>3 DEF Tick
  <2>2. \A k \in Keys : /\ local'[k] = Age(local[k]) /\ file'[k] = Age(file[k])
                        /\ snap'[k] = Age(snap[k]) /\ promised'[k] = Age(promised[k])
    BY <1>3 DEF Tick, AgeAll
  <2>3. ASSUME NEW k \in Keys, NotStored(k) PROVE NotStored(k)'
    <3>1. local'[k] = NoEntry BY <2>2, <2>3 DEF NotStored, Age, NoEntry
    <3>2. \A t \in 0..MaxTTL : timers'[k][t] =
            (IF t < MaxTTL THEN timers[k][t + 1] ELSE 0) + (IF t = 0 THEN timers[k][0] ELSE 0)
      BY <1>3 DEF Tick
    <3>3. \A t \in 0..MaxTTL : timers'[k][t] = 0 BY <1>z, <2>3, <3>2 DEF NotStored
    <3> QED BY <2>1, <2>3, <3>1, <3>3 DEF NotStored
  <2>4. \A k \in Keys : promised[k] \in -2..MaxTTL BY <1>t DEF TypeOK
  <2>5. \A k \in Keys : /\ promised'[k] = Unissued <=> promised[k] = Unissued
                        /\ promised'[k] = Revoked <=> promised[k] = Revoked
    BY <2>2, <2>4 DEF Age, Unissued, Revoked
  <2>6. \A k \in Keys : Swept(k)' = Swept(k) BY <2>1 DEF Swept
  <2>7. \A c \in Clients : Setting(c)' = Setting(c) BY <2>1 DEF Setting
  <2>8. \A k \in Keys : promised'[k] = Unissued => NotStored(k)' /\ file'[k] = 0 /\ snap'[k] = 0
    BY <2>2, <2>3, <2>5 DEF FreshInv, Age
  <2>9. ASSUME NEW c \in Clients, Setting(c)'
        PROVE  (NotStored(req[c].key) /\ promised[req[c].key] \in {Unissued, Revoked})'
    <3>1. NotStored(req[c].key) /\ promised[req[c].key] \in {Unissued, Revoked} /\ req[c].key \in Keys
      BY <2>9, <2>7, <1>r DEF FreshInv, Setting
    <3>2. promised'[req[c].key] \in {Unissued, Revoked} BY <3>1, <2>5
    <3> QED BY <2>1, <2>3, <3>1, <3>2
  <2>10. \A c \in Clients : pc'[c] # "idle" /\ req'[c].op = "del" => promised'[req'[c].key] = Revoked
    BY <2>1, <2>5, <1>r DEF FreshInv
  <2> QED BY <2>1, <2>5, <2>6, <2>7, <2>8, <2>9, <2>10 DEF FreshInv
\* LoginPost draws a token that is new and known to nobody until SetKey returns.
<1>4. ASSUME NEW c \in Clients, NEW r \in Requests, Begin(c, r) PROVE FreshInv'
  <2>1. /\ pc[c] = "idle" /\ pc'[c] \in {"redis", "local"} /\ req'[c] = r
        /\ \A d \in Clients : d # c => pc'[d] = pc[d] /\ req'[d] = req[d]
        /\ UNCHANGED <<local, timers, file, snap>>
        /\ \A k \in Keys : promised'[k] = TakenBack(r, k)
    BY <1>4, <1>t DEF Begin, TypeOK
  <2>2. r.key \in Keys /\ r.ttl \in 0..MaxTTL /\ r.op \in AllOps BY RequestFields
  <2>3. ~Busy(r.key, {"set"}) /\ (r.op = "set" => promised[r.key] = Unissued /\ ~Busy(r.key, {"extend"}))
    BY <1>4 DEF Begin, CallersUse
  <2>4. \A k \in Keys : NotStored(k) => NotStored(k)' BY <2>1 DEF NotStored
  <2>5. \A k \in Keys : promised[k] \in -2..MaxTTL BY <1>t DEF TypeOK
  <2>6. ASSUME NEW k \in Keys
        PROVE  /\ promised'[k] = Unissued => promised[k] = Unissued
               /\ promised[k] = Revoked => promised'[k] = Revoked
               /\ promised[k] = Unissued => promised'[k] \in {Unissued, Revoked}
               /\ k \in Targets(r) => promised'[k] = Revoked
               /\ r.op = "set" => promised'[k] = promised[k]
    <3>1. promised'[k] = TakenBack(r, k) /\ promised[k] \in -2..MaxTTL BY <2>1, <2>5
    <3>2. CASE k \in Targets(r)
      BY <3>1, <3>2 DEF TakenBack, Targets, Unissued, Revoked
    <3>3. CASE k \notin Targets(r)
      BY <2>2, <3>1, <3>3 DEF TakenBack, Unissued, Revoked
    <3> QED BY <3>2, <3>3
  <2>7. \A k \in Keys : promised'[k] = Unissued => NotStored(k)' /\ file'[k] = 0 /\ snap'[k] = 0
    BY <2>1, <2>4, <2>6 DEF FreshInv
  <2>8. ASSUME NEW d \in Clients, Setting(d)'
        PROVE  (NotStored(req[d].key) /\ promised[req[d].key] \in {Unissued, Revoked})'
    <3>1. CASE d = c
      <4>1. r.op = "set" /\ promised[r.key] = Unissued BY <2>1, <2>3, <2>8, <3>1 DEF Setting
      <4>2. NotStored(r.key)' /\ promised'[r.key] = Unissued
        BY <2>2, <2>4, <2>6, <4>1 DEF FreshInv
      <4> QED BY <2>1, <3>1, <4>2 DEF NotStored
    <3>2. CASE d # c
      <4>1. Setting(d) /\ pc[d] # "idle" BY <2>1, <2>8, <3>2 DEF Setting
      <4>2. req[d].key \in Keys /\ req'[d] = req[d] BY <1>r, <2>1, <3>2, <4>1
      <4>3. NotStored(req[d].key) /\ promised[req[d].key] \in {Unissued, Revoked}
        BY <4>1 DEF FreshInv
      <4>4. promised'[req[d].key] \in {Unissued, Revoked} BY <2>6, <4>2, <4>3
      <4> QED BY <2>4, <4>2, <4>3, <4>4
    <3> QED BY <3>1, <3>2
  <2>9. ASSUME NEW x \in Clients, NEW d \in Clients,
               x # d, Setting(x)', pc'[d] # "idle", req'[d].key = req'[x].key
        PROVE  req'[d].op \notin {"set", "extend", "del"}
    <3>1. CASE x = c
      <4>1. r.op = "set" /\ promised[r.key] = Unissued /\ pc[d] # "idle" /\ req[d] = req'[d]
            /\ req[d].key = r.key
        BY <2>1, <2>3, <2>9, <3>1 DEF Setting
      <4>2. req[d].op # "set" /\ req[d].op # "extend"
        BY <2>3, <4>1 DEF Busy
      <4>3. req[d].op # "del" BY <4>1 DEF FreshInv, Unissued, Revoked
      <4> QED BY <4>1, <4>2, <4>3
    <3>2. CASE d = c
      <4>1. Setting(x) /\ pc[x] # "idle" /\ req[x].key = r.key
        BY <2>1, <2>9, <3>2 DEF Setting
      <4>2. Busy(r.key, {"set"}) BY <4>1 DEF Busy, Setting
      <4> QED BY <2>3, <4>2
    <3>3. CASE x # c /\ d # c
      BY <2>1, <2>9, <3>3 DEF FreshInv, Setting
    <3> QED BY <3>1, <3>2, <3>3
  <2>10. ASSUME NEW d \in Clients, pc'[d] # "idle", req'[d].op = "del"
         PROVE  promised'[req'[d].key] = Revoked
    <3>1. CASE d = c
      <4>1. r.key \in Targets(r) BY <2>1, <2>10, <3>1 DEF Targets
      <4> QED BY <2>1, <2>2, <2>6, <3>1, <4>1
    <3>2. CASE d # c
      BY <1>r, <2>1, <2>6, <2>10, <3>2 DEF FreshInv
    <3> QED BY <3>1, <3>2
  <2>11. ASSUME NEW k \in Keys, Swept(k)' PROVE promised'[k] = Revoked
    <3>1. PICK d \in Clients : pc'[d] # "idle" /\ req'[d].op = "delprefix" /\ k \in Prefixed[req'[d].key]
      BY <2>11 DEF Swept
    <3>2. CASE d = c
      <4>1. k \in Targets(r) BY <2>1, <3>1, <3>2 DEF Targets
      <4> QED BY <2>6, <4>1
    <3>3. CASE d # c
      <4>1. Swept(k) BY <2>1, <3>1, <3>3 DEF Swept
      <4> QED BY <2>6, <4>1 DEF FreshInv
    <3> QED BY <3>2, <3>3
  <2> QED BY <2>7, <2>8, <2>9, <2>10, <2>11 DEF FreshInv
<1>5. ASSUME NEW c \in Clients, RedisStep(c) \/ LocalStep(c) PROVE FreshInv'
  <2>1. \A d \in Clients : d # c => pc'[d] = pc[d] /\ req'[d] = req[d] BY <1>5, <1>t, OthersStay
  <2>2. pc[c] # "idle" /\ (pc'[c] # "idle" => req'[c] = req[c]) BY <1>5, <1>t, OthersStay, ClientBusy
  <2>3. Setting(c)' => Setting(c)
    <3>1. CASE RedisStep(c)
      <4>1. pc[c] \in {"redis", "scan"} BY <3>1, RedisFrame
      <4>2. pc[c] = "scan" => req[c].op = "delprefix" BY <1>t DEF CallsInOrder
      <4> QED BY <2>2, <4>1, <4>2 DEF Setting
    <3>2. CASE LocalStep(c)
      <4>1. pc'[c] \notin {"redis", "local"}
        BY <3>2, <1>t DEF LocalStep, LocalLookup, Purge, LocalExtend, LocalStore, Arm,
           LocalDelete, SweepStart, SweepEnd, Sweep, Goto, Return, TypeOK
      <4> QED BY <4>1 DEF Setting
    <3> QED BY <1>5, <3>1, <3>2
  <2>4. file' = file /\ snap' = snap BY <1>5, ClientFrame
  <2>5. CASE promised' = promised /\ ~(LocalStore(c) /\ Setting(c))
    <3>1. ASSUME NEW k \in Keys, NotStored(k) PROVE NotStored(k)'
      <4>1. ~(LocalStore(c) /\ req[c].key = k)
        BY <2>5, <3>1 DEF LocalStore, Setting, NotStored
      <4> QED BY <1>5, <3>1, <4>1, NotStoredClient
    <3> QED BY <1>t, <2>1, <2>2, <2>3, <2>4, <2>5, <3>1, FreshFrame DEF Setting
  <2>6. CASE /\ Setting(c)
             /\ RedisOk(c) \/ LocalStore(c)
             /\ promised' = [promised EXCEPT ![req[c].key] =
                               IF Swept(req[c].key) THEN Revoked ELSE req[c].ttl]
    <3> DEFINE key == req[c].key
    <3>1. key \in Keys /\ req[c].ttl \in 1..MaxTTL
      BY <2>2, <2>6, <1>t, RequestFields DEF BusyHasRequest, Setting
    <3>2. promised'[key] = (IF Swept(key) THEN Revoked ELSE req[c].ttl)
          /\ \A k \in Keys : k # key => promised'[k] = promised[k]
      BY <2>6, <3>1, <1>t DEF TypeOK
    <3>3. promised'[key] # Unissued BY <3>1, <3>2 DEF Unissued, Revoked
    <3>4. ASSUME NEW k \in Keys, k # key, NotStored(k) PROVE NotStored(k)'
      BY <1>5, <3>4, NotStoredClient
    <3>5. pc'[c] \in {"idle", "arm"}
      BY <2>6, <1>t DEF RedisOk, LocalStore, Goto, Return, TypeOK
    <3>6. ASSUME NEW d \in Clients, d # c, pc[d] # "idle", req[d].op \in {"set", "extend", "del"}
          PROVE  req[d].key # key /\ req[d].key \in Keys
      BY <2>6, <3>6, <1>r DEF FreshInv
    <3>7. \A k \in Keys : promised'[k] = Unissued => NotStored(k)' /\ file'[k] = 0 /\ snap'[k] = 0
      BY <2>4, <3>2, <3>3, <3>4 DEF FreshInv
    <3>8. ASSUME NEW d \in Clients, Setting(d)'
          PROVE  (NotStored(req[d].key) /\ promised[req[d].key] \in {Unissued, Revoked})'
      <4>1. d # c BY <3>5, <3>8 DEF Setting
      <4>2. Setting(d) /\ req'[d] = req[d] /\ pc[d] # "idle" BY <2>1, <3>8, <4>1 DEF Setting
      <4>3. req[d].key # key /\ req[d].key \in Keys BY <3>6, <4>1, <4>2 DEF Setting
      <4>4. NotStored(req[d].key) /\ promised[req[d].key] \in {Unissued, Revoked}
        BY <4>2 DEF FreshInv
      <4> HIDE DEF key
      <4> QED BY <3>2, <3>4, <4>2, <4>3, <4>4
    <3>9. ASSUME NEW x \in Clients, NEW d \in Clients,
                 x # d, Setting(x)', pc'[d] # "idle", req'[d].key = req'[x].key
          PROVE  req'[d].op \notin {"set", "extend", "del"}
      <4>1. x # c BY <3>5, <3>9 DEF Setting
      <4>2. Setting(x) /\ req'[x] = req[x] BY <2>1, <3>9, <4>1 DEF Setting
      <4>3. pc[d] # "idle" /\ req'[d] = req[d] BY <2>1, <2>2, <3>9
      <4> QED BY <3>9, <4>2, <4>3 DEF FreshInv
    <3>10. ASSUME NEW d \in Clients, pc'[d] # "idle", req'[d].op = "del"
           PROVE  promised'[req'[d].key] = Revoked
      <4>1. pc[d] # "idle" /\ req'[d] = req[d] BY <2>1, <2>2, <3>10
      <4>2. d # c BY <2>6, <3>10, <4>1 DEF Setting
      <4>3. req[d].key # key /\ req[d].key \in Keys BY <3>6, <3>10, <4>1, <4>2
      <4> QED BY <3>2, <3>10, <4>1, <4>3 DEF FreshInv
    <3>11. ASSUME NEW k \in Keys, Swept(k)' PROVE promised'[k] = Revoked
      <4>1. Swept(k) BY <2>1, <2>2, <3>11 DEF Swept
      <4> QED BY <3>2, <4>1 DEF FreshInv
    <3> QED BY <3>7, <3>8, <3>9, <3>10, <3>11 DEF FreshInv
  <2> QED BY <1>5, <2>5, <2>6, ClientPromise
<1>6. ASSUME NEW k \in Keys, TimerFire(k) PROVE FreshInv'
  <2>1. UNCHANGED <<pc, req, file, snap, promised>> BY <1>6 DEF TimerFire
  <2>2. ASSUME NEW x \in Keys, NotStored(x) PROVE NotStored(x)'
    <3>1. x # k BY <1>6, <1>z, <2>2 DEF TimerFire, NotStored
    <3>2. timers'[x] = timers[x] /\ local'[x] = local[x]
      BY <1>6, <1>t, <3>1 DEF TimerFire, Fired, TypeOK
    <3> QED BY <2>1, <2>2, <3>2 DEF NotStored
  <2> QED BY <1>t, <2>1, <2>2, FreshFrame DEF Setting
<1>7. CASE SaveStep
  <2>1. UNCHANGED <<pc, req, local, timers, promised>>
    BY <1>7 DEF SaveStep, SaveSkip, SaveAdmit, SaveLock, SaveVisit, SaveCommit
  <2>2. \A x \in Keys : NotStored(x) => NotStored(x)' BY <2>1 DEF NotStored
  <2>3. ASSUME NEW k \in Keys, file[k] = 0, snap[k] = 0, local[k] = NoEntry
        PROVE  file'[k] = 0 /\ snap'[k] = 0
    <3>1. CASE SaveCommit BY <2>3, <3>1 DEF SaveCommit
    <3>2. ASSUME NEW x \in Keys, SaveVisit(x) PROVE file'[k] = 0 /\ snap'[k] = 0
      BY <2>3, <3>2, <1>t DEF SaveVisit, NoEntry, TypeOK
    <3>3. CASE SaveSkip \/ SaveAdmit \/ SaveLock
      BY <2>3, <3>3 DEF SaveSkip, SaveAdmit, SaveLock
    <3> QED BY <1>7, <3>1, <3>2, <3>3 DEF SaveStep
  <2> QED BY <1>t, <2>1, <2>2, <2>3, FreshFrame DEF Setting
<1>8. ASSUME \/ StartWithoutRedis \/ \E ok \in BOOLEAN : InitRedis(ok)
             \/ UNCHANGED vars
      PROVE  UNCHANGED <<pc, req, local, timers, promised, file, snap>>
  BY <1>8 DEF StartWithoutRedis, InitRedis, vars
<1>9. ASSUME UNCHANGED <<pc, req, local, timers, promised, file, snap>> PROVE FreshInv'
  <2>1. \A x \in Keys : NotStored(x) => NotStored(x)' BY <1>9 DEF NotStored
  <2> QED BY <1>9, <1>t, <2>1, FreshFrame DEF Setting
<1> QED BY <1>1, <1>2, <1>3, <1>4, <1>5, <1>6, <1>7, <1>8, <1>9 DEF Next

---------------------------------------------------------------------------
(* What was promised is held.                                              *)

\* A call under way stores nothing that ends before the promise.
DeadlinesInv ==
  \A c \in Clients : pc[c] # "idle" /\ req[c].op \in {"set", "extend"}
                        => req[c].ttl >= promised[req[c].key]

\* The file or the save under way has the entry until its deadline, or a save that
\* finds it is still to come.
Kept(k) == IF saver = "none" THEN file[k] >= promised[k]
           ELSE k \in visit \/ snap[k] >= promised[k]
Keeping(k) ==
  /\ proc = "up" /\ ~redisUp
  /\ \/ spawned > 0 \/ waiting > 0
     \/ \E c \in Clients : pc[c] = "arm" /\ req[c].op = "set" /\ req[c].key = k

\* The local map holds the entry until the deadline: no timer fires before it, and no
\* lookup is about to delete it.
HeldLocally(k) ==
  /\ proc # "down"
  /\ local[k] >= promised[k]
  /\ \A t \in 0..MaxTTL : timers[k][t] > 0 => t >= promised[k]
  /\ \A c \in Clients : pc[c] = "purge" => req[c].key # k
  /\ Kept(k) \/ Keeping(k)

Held(k) ==
  \/ redis[k] >= promised[k]
  \/ proc = "down" /\ file[k] >= promised[k]
  \/ HeldLocally(k)

HeldInv == \A k \in Keys : promised[k] > 0 => Held(k)

LEMMA HeldImplies == KvTypeInv /\ HeldInv => PromiseHeld
<1> SUFFICES ASSUME KvTypeInv, HeldInv, NEW k \in Keys, promised[k] > 0
             PROVE  redis[k] > 0 \/ local[k] > 0 \/ (proc = "down" /\ file[k] > 0)
  BY DEF PromiseHeld
<1>1. /\ promised[k] \in -2..MaxTTL /\ redis[k] \in 0..MaxTTL
      /\ local[k] \in -1..MaxTTL /\ file[k] \in 0..MaxTTL
  BY DEF KvTypeInv, TypeOK
<1>2. Held(k) BY DEF HeldInv
<1> QED BY <1>1, <1>2, KvConstants DEF Held, HeldLocally

\* The deadlines of the calls under way.
LEMMA DeadlinesNext ==
  ASSUME FreshKeys
  PROVE  ControlInv /\ FreshInv /\ DeadlinesInv /\ [Next]_vars => DeadlinesInv'
<1> SUFFICES ASSUME ControlInv, FreshInv, DeadlinesInv, [Next]_vars PROVE DeadlinesInv' OBVIOUS
<1> USE DEF redisVars, saveVars, callVars
<1>t. TypeOK /\ BusyHasRequest BY DEF ControlInv, KvTypeInv
<1>r. ASSUME NEW c \in Clients, pc[c] # "idle"
      PROVE  req[c].key \in Keys /\ req[c].ttl \in 0..MaxTTL
  BY <1>r, <1>t, RequestFields DEF BusyHasRequest
<1>z. 0 \in 0..MaxTTL /\ MaxTTL \in Nat BY KvConstants
<1>p. \A k \in Keys : promised[k] \in -2..MaxTTL BY <1>t DEF TypeOK
<1>1. ASSUME \A c \in Clients : pc'[c] # "idle" => pc[c] # "idle" /\ req'[c] = req[c],
             \A k \in Keys : promised'[k] \in -2..MaxTTL /\ promised'[k] <= promised[k]
      PROVE  DeadlinesInv'
  <2> SUFFICES ASSUME NEW c \in Clients, pc'[c] # "idle", req'[c].op \in {"set", "extend"}
               PROVE  req'[c].ttl >= promised'[req'[c].key]
    BY DEF DeadlinesInv
  <2>1. pc[c] # "idle" /\ req'[c] = req[c] BY <1>1
  <2>2. req[c].ttl >= promised[req[c].key] BY <2>1 DEF DeadlinesInv
  <2>3. req[c].key \in Keys /\ req[c].ttl \in 0..MaxTTL BY <1>r, <2>1
  <2>4. promised'[req[c].key] <= promised[req[c].key] /\ promised'[req[c].key] \in -2..MaxTTL
    BY <1>1, <2>3
  <2> QED BY <1>p, <1>z, <2>1, <2>2, <2>3, <2>4
<1>2. CASE Exit
  BY <1>2 DEF Exit, DeadlinesInv
<1>3. CASE Tick
  <2>1. pc' = pc /\ req' = req BY <1>3 DEF Tick
  <2>2. \A k \in Keys : promised'[k] = Age(promised[k]) BY <1>3 DEF Tick, AgeAll
  <2>3. \A k \in Keys : promised'[k] \in -2..MaxTTL /\ promised'[k] <= promised[k]
    BY <1>p, <1>z, <2>2 DEF Age
  <2> QED BY <1>1, <2>1, <2>3
<1>4. ASSUME NEW c \in Clients, NEW r \in Requests, Begin(c, r) PROVE DeadlinesInv'
  <2>1. /\ pc[c] = "idle" /\ req'[c] = r
        /\ \A d \in Clients : d # c => pc'[d] = pc[d] /\ req'[d] = req[d]
        /\ \A k \in Keys : promised'[k] = TakenBack(r, k)
    BY <1>4, <1>t DEF Begin, TypeOK
  <2>2. r.key \in Keys /\ r.ttl \in 0..MaxTTL BY RequestFields
  <2>3. ASSUME NEW k \in Keys
        PROVE  promised'[k] \in -2..MaxTTL /\ promised'[k] <= promised[k]
    <3>1. promised'[k] = TakenBack(r, k) /\ promised[k] \in -2..MaxTTL BY <1>p, <2>1
    <3>2. CASE k \in Targets(r) BY <1>z, <3>1, <3>2 DEF TakenBack, Revoked
    <3>3. CASE k \notin Targets(r) BY <1>z, <2>2, <3>1, <3>3 DEF TakenBack
    <3> QED BY <3>2, <3>3
  <2>4. r.op = "set" => promised[r.key] = Unissued BY <1>4 DEF Begin, CallersUse
  <2>5. r.op = "extend" => TakenBack(r, r.key) <= r.ttl
    BY <1>p, <1>z, <2>2 DEF TakenBack, Targets
  <2> SUFFICES ASSUME NEW d \in Clients, pc'[d] # "idle", req'[d].op \in {"set", "extend"}
               PROVE  req'[d].ttl >= promised'[req'[d].key]
    BY DEF DeadlinesInv
  <2>6. CASE d = c
    <3>1. CASE r.op = "set"
      BY <1>z, <2>1, <2>2, <2>3, <2>4, <2>6, <3>1 DEF Unissued
    <3>2. CASE r.op = "extend"
      BY <1>z, <2>1, <2>2, <2>3, <2>5, <2>6, <3>2
    <3> QED BY <2>1, <2>6, <3>1, <3>2
  <2>7. CASE d # c
    <3>1. pc[d] # "idle" /\ req'[d] = req[d] BY <2>1, <2>7
    <3>2. req[d].ttl >= promised[req[d].key] BY <3>1 DEF DeadlinesInv
    <3>3. req[d].key \in Keys /\ req[d].ttl \in 0..MaxTTL BY <1>r, <3>1
    <3> QED BY <1>p, <1>z, <2>3, <3>1, <3>2, <3>3
  <2> QED BY <2>6, <2>7
<1>5. ASSUME NEW c \in Clients, RedisStep(c) \/ LocalStep(c) PROVE DeadlinesInv'
  <2>1. \A d \in Clients : d # c => pc'[d] = pc[d] /\ req'[d] = req[d] BY <1>5, <1>t, OthersStay
  <2>2. pc[c] # "idle" /\ (pc'[c] # "idle" => req'[c] = req[c]) BY <1>5, <1>t, OthersStay, ClientBusy
  <2>3. CASE promised' = promised
    BY <1>1, <1>p, <2>1, <2>2, <2>3
  <2>4. CASE /\ Setting(c)
             /\ promised' = [promised EXCEPT ![req[c].key] =
                               IF Swept(req[c].key) THEN Revoked ELSE req[c].ttl]
    <3> DEFINE key == req[c].key
    <3>1. key \in Keys /\ req[c].ttl \in 0..MaxTTL BY <1>r, <2>2
    <3>2. promised'[key] \in {Revoked, req[c].ttl}
          /\ \A k \in Keys : k # key => promised'[k] = promised[k]
      BY <2>4, <3>1, <1>t DEF TypeOK
    <3> SUFFICES ASSUME NEW d \in Clients, pc'[d] # "idle", req'[d].op \in {"set", "extend"}
                 PROVE  req'[d].ttl >= promised'[req'[d].key]
      BY DEF DeadlinesInv
    <3>3. pc[d] # "idle" /\ req'[d] = req[d] BY <2>1, <2>2
    <3>4. req[d].ttl >= promised[req[d].key] /\ req[d].key \in Keys BY <1>r, <3>3 DEF DeadlinesInv
    <3>5. CASE d = c
      BY <1>z, <3>1, <3>2, <3>3, <3>5 DEF Revoked
    <3>6. CASE d # c
      <4>1. req[d].key # key BY <2>4, <3>3, <3>6 DEF FreshInv
      <4> QED BY <3>2, <3>3, <3>4, <4>1
    <3> QED BY <3>5, <3>6
  <2> QED BY <1>5, <2>3, <2>4, ClientPromise
<1>6. ASSUME \/ LoadCacheFromFile \/ StartWithoutRedis \/ \E ok \in BOOLEAN : InitRedis(ok)
             \/ SaveStep \/ UNCHANGED vars \/ \E k \in Keys : TimerFire(k)
      PROVE  UNCHANGED <<pc, req, promised>>
  BY <1>6 DEF LoadCacheFromFile, StartWithoutRedis, InitRedis, TimerFire, SaveStep, SaveSkip,
     SaveAdmit, SaveLock, SaveVisit, SaveCommit, vars
<1>7. ASSUME UNCHANGED <<pc, req, promised>> PROVE DeadlinesInv'
  BY <1>7 DEF DeadlinesInv
<1> QED BY <1>2, <1>3, <1>4, <1>5, <1>6, <1>7 DEF Next

\* Redis loses nothing that is promised: only a deletion, or the sweep of a prefix, takes
\* a key out, and both have revoked the promise before.
LEMMA RedisKeeps ==
  ASSUME ControlInv, FreshInv, DeadlinesInv, NEW c \in Clients, RedisStep(c),
         NEW k \in Keys, promised[k] > 0, redis[k] >= promised[k]
  PROVE  redis'[k] >= promised[k]
<1>t. TypeOK /\ BusyHasRequest /\ CallsInOrder BY DEF ControlInv, KvTypeInv
<1>b. pc[c] # "idle" BY ClientBusy
<1>r. req[c] \in Requests /\ req[c].key \in Keys /\ req[c].ttl \in 0..MaxTTL
  BY <1>b, <1>t, RequestFields DEF BusyHasRequest
<1>p. promised[k] \in -2..MaxTTL /\ promised[k] # Revoked BY <1>t DEF TypeOK, Revoked
<1>a. Applied(req[c])[k] >= promised[k]
  <2>1. CASE k # req[c].key BY <1>r, <1>t, <2>1 DEF Applied, TypeOK
  <2>2. CASE k = req[c].key
    <3>1. req[c].op # "del" BY <1>b, <1>p, <2>2 DEF FreshInv
    <3>2. req[c].op \in {"set", "extend"} => req[c].ttl >= promised[k]
      BY <1>b, <2>2 DEF DeadlinesInv
    <3>3. Applied(req[c])[k] = CASE req[c].op = "set"    -> req[c].ttl
                                 [] req[c].op = "extend" -> IF redis[k] > 0 THEN req[c].ttl ELSE redis[k]
                                 [] req[c].op = "del"    -> 0
                                 [] OTHER                -> redis[k]
      BY <1>r, <1>t, <2>2 DEF Applied, TypeOK
    <3> QED BY <3>1, <3>2, <3>3
  <2> QED BY <2>1, <2>2
<1>s. ASSUME NEW x \in Keys, pc[c] = "scan", x \in todo[c] PROVE x # k
  <2>1. Swept(x) BY <1>s, <1>t, <1>b DEF CallsInOrder, Swept
  <2> QED BY <1>p, <2>1 DEF FreshInv
<1>1. CASE RedisOk(c) BY <1>1, <1>a DEF RedisOk
<1>2. CASE RedisError(c) BY <1>2, <1>a DEF RedisError
<1>3. CASE RedisScan(c) \/ RedisScanError(c) \/ RedisScanEnd(c)
  BY <1>3 DEF RedisScan, RedisScanError, RedisScanEnd, redisVars
<1>4. ASSUME NEW x \in Keys, RedisScanDel(c, x) PROVE redis'[k] = redis[k]
  BY <1>4, <1>s, <1>t DEF RedisScanDel, TypeOK
<1>5. ASSUME NEW x \in Keys, RedisScanDelError(c, x) PROVE redis'[k] = redis[k]
  BY <1>5, <1>s, <1>t DEF RedisScanDelError, TypeOK
<1> QED BY <1>1, <1>2, <1>3, <1>4, <1>5 DEF RedisStep

\* The saves go on holding what a step of a client leaves in the local map.
LEMMA SavesHold ==
  ASSUME ControlInv, NEW c \in Clients, RedisStep(c) \/ LocalStep(c), NEW k \in Keys,
         promised'[k] = promised[k], Kept(k) \/ Keeping(k)
  PROVE  (Kept(k) \/ Keeping(k))'
<1>t. TypeOK BY DEF ControlInv, KvTypeInv
<1>1. UNCHANGED <<proc, file, waiting, saver, visit, snap>> BY ClientFrame DEF saveVars
<1>2. redisUp' => redisUp BY RedisFrame, LocalFrame
<1>3. \A d \in Clients : d # c => pc'[d] = pc[d] /\ req'[d] = req[d] BY <1>t, OthersStay
<1>4. spawned' \in {spawned, spawned + 1} /\ (pc[c] = "arm" => spawned' = spawned + 1)
  <2>1. CASE RedisStep(c) BY <2>1, RedisFrame
  <2>2. CASE LocalStep(c)
    BY <2>2 DEF LocalStep, LocalLookup, Purge, LocalExtend, LocalStore, Arm, LocalDelete,
       SweepStart, SweepEnd, Sweep, GoSave
  <2> QED BY <2>1, <2>2
<1>5. spawned \in Nat /\ redisUp \in BOOLEAN BY <1>t DEF TypeOK
<1>6. Keeping(k) => Keeping(k)' BY <1>1, <1>2, <1>3, <1>4, <1>5 DEF Keeping
<1>7. Kept(k) => Kept(k)' BY <1>1 DEF Kept
<1> QED BY <1>6, <1>7

\* The local half of a call takes nothing out of the local map that is promised.
LEMMA LocalKeeps ==
  ASSUME ControlInv, FreshInv, DeadlinesInv, NEW c \in Clients, LocalStep(c),
         NEW k \in Keys, promised[k] > 0, promised'[k] = promised[k], HeldLocally(k)
  PROVE  HeldLocally(k)'
<1>t. TypeOK /\ BusyHasRequest /\ CallsInOrder /\ StoringCalls BY DEF ControlInv, KvTypeInv
<1>b. pc[c] # "idle" BY ClientBusy
<1>r. req[c].key \in Keys /\ req[c].ttl \in 0..MaxTTL
  BY <1>b, <1>t, RequestFields DEF BusyHasRequest
<1>p. promised[k] \in -2..MaxTTL /\ promised[k] # Revoked BY <1>t DEF TypeOK, Revoked
<1>l. local[k] \in -1..MaxTTL /\ local[k] >= promised[k] /\ local[k] > 0
  BY <1>p, <1>t DEF TypeOK, HeldLocally
<1>o. \A d \in Clients : d # c => pc'[d] = pc[d] /\ req'[d] = req[d] BY <1>t, OthersStay
<1>k. pc'[c] # "idle" => req'[c] = req[c] BY <1>t, OthersStay
<1>1. (Kept(k) \/ Keeping(k))' BY SavesHold DEF HeldLocally
<1>2. proc' # "down" BY ClientFrame DEF HeldLocally
<1>3. pc'[c] = "purge" => req[c].key # k
  <2>1. CASE LocalLookup(c)
    BY <1>l, <1>t, <2>1 DEF LocalLookup, Goto, Return, Stale, TypeOK
  <2>2. CASE ~LocalLookup(c)
    <3>1. pc'[c] # "purge"
      BY <2>2, <1>t DEF LocalStep, Purge, LocalExtend, LocalStore, Arm, LocalDelete,
         SweepStart, SweepEnd, Sweep, Goto, Return, TypeOK
    <3> QED BY <3>1
  <2> QED BY <2>1, <2>2
<1>4. \A d \in Clients : pc'[d] = "purge" => req'[d].key # k
  BY <1>3, <1>k, <1>o DEF HeldLocally
<1>5. local'[k] >= promised[k]
  <2>1. CASE LocalStore(c)
    <3>1. req[c].op \in {"set", "extend"} BY <1>t, <2>1 DEF LocalStore, StoringCalls
    <3>2. req[c].key = k => req[c].ttl >= promised[k] BY <1>b, <3>1 DEF DeadlinesInv
    <3> QED BY <1>l, <1>r, <1>t, <2>1, <3>2 DEF LocalStore, TypeOK
  <2>2. CASE Purge(c)
    <3>1. req[c].key # k BY <2>2 DEF Purge, HeldLocally
    <3> QED BY <1>l, <1>t, <2>2, <3>1 DEF Purge, TypeOK
  <2>3. CASE LocalDelete(c)
    <3>1. req[c].key # k BY <1>b, <1>p, <2>3 DEF LocalDelete, FreshInv
    <3> QED BY <1>l, <1>t, <2>3, <3>1 DEF LocalDelete, TypeOK
  <2>4. ASSUME NEW x \in Keys, Sweep(c, x) PROVE local'[k] = local[k]
    <3>1. Swept(x) BY <1>b, <1>t, <2>4 DEF Sweep, CallsInOrder, Swept
    <3>2. x # k BY <1>p, <3>1 DEF FreshInv
    <3> QED BY <1>t, <2>4, <3>2 DEF Sweep, TypeOK
  <2>5. CASE LocalLookup(c) \/ LocalExtend(c) \/ Arm(c) \/ SweepStart(c) \/ SweepEnd(c)
    <3>1. local' = local BY <2>5 DEF LocalLookup, LocalExtend, Arm, SweepStart, SweepEnd
    <3> QED BY <1>l, <3>1
  <2> QED BY <1>l, <2>1, <2>2, <2>3, <2>4, <2>5 DEF LocalStep
<1>6. ASSUME NEW t \in 0..MaxTTL, timers'[k][t] > 0 PROVE t >= promised[k]
  <2>1. CASE Arm(c)
    <3>1. req[c].op \in {"set", "extend"} BY <1>t, <2>1 DEF Arm, StoringCalls
    <3>2. req[c].key = k => req[c].ttl >= promised[k] BY <1>b, <3>1 DEF DeadlinesInv
    <3>3. timers' = [timers EXCEPT ![req[c].key][req[c].ttl] = @ + 1]
      BY <2>1 DEF Arm, Delay
    <3>4. timers'[k][t] = timers[k][t] \/ (req[c].key = k /\ req[c].ttl = t)
      BY <1>r, <1>t, <3>3 DEF TypeOK
    <3> QED BY <1>6, <3>2, <3>4 DEF HeldLocally
  <2>2. CASE ~Arm(c)
    <3>1. timers' = timers
      BY <2>2 DEF LocalStep, LocalLookup, Purge, LocalExtend, LocalStore, LocalDelete,
         SweepStart, SweepEnd, Sweep
    <3> QED BY <1>6, <3>1 DEF HeldLocally
  <2> QED BY <2>1, <2>2
<1> QED BY <1>1, <1>2, <1>4, <1>5, <1>6 DEF HeldLocally

LEMMA HeldNext ==
  ASSUME FreshKeys, ~DiskFaults
  PROVE  ControlInv /\ FreshInv /\ DeadlinesInv /\ HeldInv /\ [Next]_vars => HeldInv'
<1> SUFFICES ASSUME ControlInv, FreshInv, DeadlinesInv, HeldInv, [Next]_vars,
                    NEW k \in Keys, promised'[k] > 0
             PROVE  Held(k)'
  BY DEF HeldInv
<1> USE DEF redisVars, saveVars, callVars
<1>t. TypeOK /\ DownIsQuiet /\ CommitComplete /\ CallsInOrder /\ BusyHasRequest /\ KvTypeInv
  BY DEF ControlInv, KvTypeInv
<1>z. 0 \in 0..MaxTTL /\ MaxTTL \in Nat BY KvConstants
<1>h. promised[k] > 0 => Held(k) BY DEF HeldInv
<1>p. /\ promised[k] \in -2..MaxTTL /\ redis[k] \in 0..MaxTTL /\ file[k] \in 0..MaxTTL
      /\ local[k] \in -1..MaxTTL /\ snap[k] \in 0..MaxTTL
      /\ spawned \in Nat /\ waiting \in Nat
      /\ \A t \in 0..MaxTTL : timers[k][t] \in Nat
  BY <1>t DEF TypeOK
\* Everything but the saves is left alone.
<1>f. ASSUME UNCHANGED <<promised, redis, local, timers, pc, req, file>>,
             proc # "down", proc' # "down",
             HeldLocally(k) => (Kept(k) \/ Keeping(k))'
      PROVE  Held(k)'
  BY <1>h, <1>f DEF Held, HeldLocally
<1>1. CASE LoadCacheFromFile
  <2>1. /\ UNCHANGED <<promised, redis, file, saver>> /\ proc = "down" /\ proc' = "init"
        /\ \A c \in Clients : pc'[c] = "idle"
        /\ saver = "none"
    BY <1>1, <1>t DEF LoadCacheFromFile, DownIsQuiet, SavesDone
  <2>2. CASE redis[k] >= promised[k] BY <2>1, <2>2 DEF Held
  <2>3. CASE file[k] >= promised[k]
    <3>1. /\ local'[k] = file[k]
          /\ \A t \in 0..MaxTTL : timers'[k][t] > 0 => t = file[k]
      BY <1>1, <1>p, <2>1, <2>3 DEF LoadCacheFromFile, LoadedTimers
    <3>2. HeldLocally(k)' BY <2>1, <2>3, <3>1 DEF HeldLocally, Kept
    <3> QED BY <3>2 DEF Held
  <2> QED BY <1>h, <2>1, <2>2, <2>3 DEF Held, HeldLocally
<1>2. ASSUME NEW ok \in BOOLEAN, InitRedis(ok) PROVE Held(k)'
  <2>1. UNCHANGED <<promised, redis, local, timers, pc, req, file, saver, visit, snap>>
        /\ proc = "init" /\ proc' = "up"
    BY <1>2 DEF InitRedis
  <2>2. HeldLocally(k) => Kept(k)' BY <2>1 DEF HeldLocally, Kept, Keeping
  <2> QED BY <1>f, <2>1, <2>2
<1>3. CASE StartWithoutRedis
  <2>1. UNCHANGED <<promised, redis, local, timers, pc, req, file, saver, visit, snap>>
        /\ proc = "init" /\ proc' = "up"
    BY <1>3 DEF StartWithoutRedis
  <2>2. HeldLocally(k) => Kept(k)' BY <2>1 DEF HeldLocally, Kept, Keeping
  <2> QED BY <1>f, <2>1, <2>2
\* Only what Redis or the file holds is still promised.
<1>4. CASE Exit
  <2>1. /\ redis' = redis /\ file' = file /\ proc # "down" /\ proc' = "down"
        /\ promised'[k] = CASE Busy(k, {"del"}) -> 0
             [] promised[k] > redis[k] /\ (Busy(k, {"set"}) \/ ~SavesDone) -> redis[k]
             [] OTHER -> promised[k]
    BY <1>4 DEF Exit
  <2>2. CASE promised'[k] = redis[k] BY <1>p, <2>1, <2>2 DEF Held
  <2>3. CASE /\ promised'[k] = promised[k]
             /\ ~(promised[k] > redis[k] /\ (Busy(k, {"set"}) \/ ~SavesDone))
    <3>1. CASE redis[k] >= promised[k] BY <2>1, <2>3, <3>1 DEF Held
    <3>2. CASE HeldLocally(k) /\ ~(redis[k] >= promised[k])
      <4>1. ~Busy(k, {"set"}) /\ SavesDone BY <1>p, <2>3, <3>2
      <4>2. ~Keeping(k) BY <1>p, <4>1 DEF Keeping, Busy, SavesDone
      <4>3. file[k] >= promised[k] BY <3>2, <4>1, <4>2 DEF HeldLocally, Kept, SavesDone
      <4> QED BY <2>1, <2>3, <4>3 DEF Held
    <3> QED BY <1>h, <2>1, <2>3, <3>1, <3>2 DEF Held
  <2> QED BY <1>p, <2>1, <2>2, <2>3
\* Promise, entry, copies and timers age together.
<1>5. CASE Tick
  <2>1. /\ promised'[k] = Age(promised[k]) /\ redis'[k] = Age(redis[k])
        /\ local'[k] = Age(local[k]) /\ file'[k] = Age(file[k]) /\ snap'[k] = Age(snap[k])
    BY <1>5 DEF Tick, AgeAll
  <2>2. promised[k] > 0 /\ promised'[k] = promised[k] - 1 BY <1>p, <2>1 DEF Age
  <2>3. \A x \in Int : x >= promised[k] => Age(x) >= promised'[k]
    BY <1>p, <2>2 DEF Age
  <2>4. UNCHANGED <<proc, redisUp, pc, req, spawned, waiting, saver, visit>> BY <1>5 DEF Tick
  <2>5. CASE redis[k] >= promised[k] BY <1>p, <2>1, <2>3, <2>5 DEF Held
  <2>6. CASE proc = "down" /\ file[k] >= promised[k] BY <1>p, <2>1, <2>3, <2>4, <2>6 DEF Held
  <2>7. CASE HeldLocally(k)
    <3>1. local'[k] >= promised'[k] BY <1>p, <2>1, <2>3, <2>7 DEF HeldLocally
    <3>2. ASSUME NEW t \in 0..MaxTTL, timers'[k][t] > 0 PROVE t >= promised'[k]
      <4>1. timers'[k][t] = (IF t < MaxTTL THEN timers[k][t + 1] ELSE 0)
                            + (IF t = 0 THEN timers[k][0] ELSE 0)
        BY <1>5 DEF Tick
      <4>2. ~(timers[k][0] > 0) BY <1>z, <1>p, <2>2, <2>7 DEF HeldLocally
      <4>3. timers[k][0] = 0 BY <1>p, <1>z, <4>2
      <4>4. t < MaxTTL => t + 1 \in 0..MaxTTL /\ timers[k][t + 1] \in Nat BY <1>p, <1>z
      <4>5. t < MaxTTL /\ timers[k][t + 1] > 0 BY <3>2, <4>1, <4>3, <4>4
      <4>6. t + 1 >= promised[k] BY <2>7, <4>4, <4>5 DEF HeldLocally
      <4> QED BY <1>p, <2>2, <4>6
    <3>3. Kept(k) => Kept(k)' BY <1>p, <2>1, <2>3, <2>4 DEF Kept
    <3>4. Keeping(k) => Keeping(k)' BY <2>4 DEF Keeping
    <3> QED BY <2>4, <2>7, <3>1, <3>2, <3>3, <3>4 DEF Held, HeldLocally
  <2> QED BY <1>h, <2>2, <2>5, <2>6, <2>7 DEF Held
<1>6. ASSUME NEW c \in Clients, NEW r \in Requests, Begin(c, r) PROVE Held(k)'
  <2>1. /\ pc[c] = "idle" /\ pc'[c] \in {"redis", "local"}
        /\ \A d \in Clients : d # c => pc'[d] = pc[d] /\ req'[d] = req[d]
        /\ UNCHANGED <<redis, local, timers, file, proc, redisUp, spawned, waiting, saver,
                       visit, snap>>
        /\ promised'[k] = TakenBack(r, k)
    BY <1>6, <1>t DEF Begin, TypeOK
  <2>2. r.ttl \in 0..MaxTTL BY RequestFields
  <2>3. promised'[k] <= promised[k] /\ promised'[k] \in Int
    BY <1>p, <2>1, <2>2 DEF TakenBack, Revoked
  <2>4. Kept(k) => Kept(k)' BY <1>p, <2>1, <2>3 DEF Kept
  <2>5. Keeping(k) => Keeping(k)' BY <2>1 DEF Keeping
  <2>6. HeldLocally(k) => HeldLocally(k)'
    BY <1>p, <1>z, <2>1, <2>3, <2>4, <2>5 DEF HeldLocally
  <2> QED BY <1>h, <1>p, <2>1, <2>3, <2>6 DEF Held
<1>7. ASSUME NEW c \in Clients, RedisStep(c) PROVE Held(k)'
  <2>1. UNCHANGED <<local, timers>> /\ pc[c] \in {"redis", "scan"} BY <1>7, RedisFrame
  <2>2. UNCHANGED <<proc, file>> BY <1>7, ClientFrame
  <2>3. proc = "up" BY <2>1, <1>t DEF DownIsQuiet
  <2>4. CASE promised' = promised
    <3>1. CASE redis[k] >= promised[k]
      <4>1. redis'[k] >= promised[k] BY <1>7, <2>4, <3>1, RedisKeeps
      <4> QED BY <2>4, <4>1 DEF Held
    <3>2. CASE HeldLocally(k)
      <4>1. (Kept(k) \/ Keeping(k))' BY <1>7, <2>4, <3>2, SavesHold DEF HeldLocally
      <4>2. \A d \in Clients : d # c => pc'[d] = pc[d] /\ req'[d] = req[d]
        BY <1>7, <1>t, OthersStay
      <4>3. pc'[c] # "purge"
        BY <1>7, <1>t DEF RedisStep, RedisOk, RedisError, RedisScan, RedisScanError,
           RedisScanEnd, RedisScanDel, RedisScanDelError, Goto, Return, TypeOK
      <4> QED BY <2>1, <2>2, <2>3, <2>4, <3>2, <4>1, <4>2, <4>3 DEF Held, HeldLocally
    <3> QED BY <1>h, <2>3, <2>4, <3>1, <3>2 DEF Held
  <2>5. CASE /\ Setting(c)
             /\ RedisOk(c) \/ LocalStore(c)
             /\ promised' = [promised EXCEPT ![req[c].key] =
                               IF Swept(req[c].key) THEN Revoked ELSE req[c].ttl]
    <3>1. RedisOk(c) BY <2>1, <2>5 DEF LocalStore
    <3>2. req[c].key \in Keys BY <2>1, <1>t, RequestFields DEF BusyHasRequest
    <3>3. redis' = [redis EXCEPT ![req[c].key] = req[c].ttl]
      BY <2>5, <3>1 DEF RedisOk, Applied, Setting
    <3>4. CASE req[c].key = k
      <4>1. promised'[k] = (IF Swept(k) THEN Revoked ELSE req[c].ttl)
        BY <1>t, <2>5, <3>4 DEF TypeOK
      <4>2. redis'[k] = req[c].ttl BY <1>t, <3>3, <3>4 DEF TypeOK
      <4>3. promised'[k] = req[c].ttl BY <4>1 DEF Revoked
      <4>4. req[c].ttl \in Int BY <2>1, <1>t, RequestFields DEF BusyHasRequest
      <4> QED BY <4>2, <4>3, <4>4 DEF Held
    <3>5. CASE req[c].key # k
      <4>1. promised'[k] = promised[k] /\ redis'[k] = redis[k]
        BY <1>t, <2>5, <3>2, <3>3, <3>5 DEF TypeOK
      <4>2. CASE redis[k] >= promised[k] BY <4>1, <4>2 DEF Held
      <4>3. CASE HeldLocally(k)
        <5>1. (Kept(k) \/ Keeping(k))' BY <1>7, <4>1, <4>3, SavesHold DEF HeldLocally
        <5>2. \A d \in Clients : d # c => pc'[d] = pc[d] /\ req'[d] = req[d]
          BY <1>7, <1>t, OthersStay
        <5>3. pc'[c] # "purge" BY <3>1, <1>t DEF RedisOk, Return, TypeOK
        <5> QED BY <2>1, <2>2, <4>1, <4>3, <5>1, <5>2, <5>3 DEF Held, HeldLocally
      <4> QED BY <1>h, <2>3, <4>1, <4>2, <4>3 DEF Held
    <3> QED BY <3>4, <3>5
  <2> QED BY <1>7, <2>4, <2>5, ClientPromise
<1>8. ASSUME NEW c \in Clients, LocalStep(c) PROVE Held(k)'
  <2>1. UNCHANGED <<redis, redisUp>> BY <1>8, LocalFrame
  <2>2. pc[c] # "idle" BY <1>8, ClientBusy
  <2>3. proc = "up" BY <2>2, <1>t DEF DownIsQuiet
  <2>4. ASSUME promised'[k] = promised[k] PROVE Held(k)'
    <3>1. HeldLocally(k) => HeldLocally(k)' BY <1>8, <2>4, LocalKeeps
    <3> QED BY <1>h, <2>1, <2>3, <2>4, <3>1 DEF Held
  <2>5. CASE promised' = promised BY <2>4, <2>5
  <2>6. CASE /\ Setting(c)
             /\ RedisOk(c) \/ LocalStore(c)
             /\ promised' = [promised EXCEPT ![req[c].key] =
                               IF Swept(req[c].key) THEN Revoked ELSE req[c].ttl]
    <3>1. req[c].key \in Keys /\ req[c].ttl \in 0..MaxTTL
      BY <2>2, <1>t, RequestFields DEF BusyHasRequest
    <3>2. CASE req[c].key # k
      <4>1. promised'[k] = promised[k] BY <1>t, <2>6, <3>1, <3>2 DEF TypeOK
      <4> QED BY <2>4, <4>1
    <3>3. CASE req[c].key = k
      <4>1. promised'[k] = req[c].ttl BY <1>t, <2>6, <3>3 DEF TypeOK, Revoked
      <4>2. CASE RedisOk(c)
        <5>1. redis' = [redis EXCEPT ![req[c].key] = req[c].ttl]
          BY <2>6, <4>2 DEF RedisOk, Applied, Setting
        <5>2. redis'[k] = req[c].ttl BY <1>t, <3>3, <5>1 DEF TypeOK
        <5> QED BY <3>1, <4>1, <5>2 DEF Held
      <4>3. CASE LocalStore(c)
        <5>1. /\ local' = [local EXCEPT ![req[c].key] = req[c].ttl] /\ timers' = timers
              /\ pc[c] = "local" /\ pc'[c] = "arm" /\ req' = req /\ UNCHANGED proc
              /\ \A d \in Clients : d # c => pc'[d] = pc[d]
          BY <4>3, <2>6, <1>t DEF LocalStore, Goto, Setting, CallsInOrder, TypeOK
        <5>2. local'[k] = req[c].ttl BY <1>t, <3>3, <5>1 DEF TypeOK
        <5>3. NotStored(k) BY <2>6, <3>3 DEF FreshInv
        <5>4. ~redisUp BY <1>t, <2>6, <5>1 DEF CallsInOrder, Setting
        <5>5. Keeping(k)' BY <2>1, <2>3, <2>6, <3>3, <5>1, <5>4 DEF Keeping, Setting
        <5>6. \A t \in 0..MaxTTL : timers'[k][t] = 0 BY <5>1, <5>3 DEF NotStored
        <5>7. \A d \in Clients : pc'[d] = "purge" => req'[d].key # k
          BY <5>1, <5>3 DEF NotStored
        <5> QED BY <2>3, <3>1, <4>1, <5>1, <5>2, <5>5, <5>6, <5>7 DEF Held, HeldLocally
      <4> QED BY <2>6, <4>2, <4>3
    <3> QED BY <3>2, <3>3
  <2> QED BY <1>8, <2>5, <2>6, ClientPromise
\* A timer that is due belongs to a promise that is over.
<1>9. ASSUME NEW x \in Keys, TimerFire(x) PROVE Held(k)'
  <2>1. /\ UNCHANGED <<promised, redis, file, proc, redisUp, pc, req, waiting, saver, visit, snap>>
        /\ spawned' = spawned + 1 /\ timers[x][0] > 0
    BY <1>9 DEF TimerFire, GoSave
  <2>2. HeldLocally(k) => x # k BY <1>p, <1>z, <2>1 DEF HeldLocally
  <2>3. x # k => local'[k] = local[k] /\ timers'[k] = timers[k]
    BY <1>9, <1>t DEF TimerFire, Fired, TypeOK
  <2>4. Kept(k) \/ Keeping(k) => (Kept(k) \/ Keeping(k))'
    BY <1>p, <2>1 DEF Kept, Keeping
  <2>5. HeldLocally(k) => HeldLocally(k)' BY <2>1, <2>2, <2>3, <2>4 DEF HeldLocally
  <2> QED BY <1>h, <2>1, <2>5 DEF Held
<1>10. CASE SaveStep
  <2>1. UNCHANGED <<promised, redis, local, timers, pc, req, proc, redisUp>>
    BY <1>10 DEF SaveStep, SaveSkip, SaveAdmit, SaveLock, SaveVisit, SaveCommit
  <2>0. proc # "down" BY <1>10, <1>t DEF DownIsQuiet, SavesDone, SaveStep, SaveSkip,
     SaveAdmit, SaveLock, SaveVisit, SaveCommit
  <2>2. CASE SaveSkip
    <3>1. redisUp /\ UNCHANGED <<file, saver, visit, snap>> BY <2>2 DEF SaveSkip
    <3>2. HeldLocally(k) => Kept(k)' BY <2>1, <3>1 DEF HeldLocally, Kept, Keeping
    <3> QED BY <1>f, <2>0, <2>1, <3>1, <3>2
  <2>3. CASE SaveAdmit
    <3>1. waiting' = waiting + 1 /\ UNCHANGED <<file, saver, visit, snap>> BY <2>3 DEF SaveAdmit
    <3>2. HeldLocally(k) => (Kept(k) \/ Keeping(k))'
      BY <1>p, <2>1, <3>1 DEF HeldLocally, Kept, Keeping
    <3> QED BY <1>f, <2>0, <2>1, <3>1, <3>2
  <2>4. CASE SaveLock
    <3>1. saver' = "range" /\ visit' = Keys /\ file' = file BY <2>4 DEF SaveLock
    <3>2. Kept(k)' BY <3>1 DEF Kept
    <3> QED BY <1>f, <2>0, <2>1, <3>1, <3>2
  <2>5. ASSUME NEW x \in Keys, SaveVisit(x) PROVE Held(k)'
    <3>1. /\ saver = "range" /\ saver' \in {"range", "commit"} /\ visit' = visit \ {x}
          /\ snap' = [snap EXCEPT ![x] = IF local[x] > 0 THEN local[x] ELSE 0]
          /\ UNCHANGED <<spawned, waiting, file>>
      BY <2>5 DEF SaveVisit
    <3>2. ASSUME HeldLocally(k) PROVE (Kept(k) \/ Keeping(k))'
      <4>1. CASE Keeping(k) BY <2>1, <3>1, <4>1 DEF Keeping
      <4>2. CASE Kept(k) /\ x # k BY <1>t, <2>1, <3>1, <4>2 DEF Kept, TypeOK
      <4>3. CASE x = k
        <5>1. local[k] >= promised[k] /\ promised[k] > 0 BY <2>1, <3>2 DEF HeldLocally
        <5>2. snap'[k] = local[k] BY <1>t, <1>p, <3>1, <4>3, <5>1 DEF TypeOK
        <5> QED BY <2>1, <3>1, <5>1, <5>2 DEF Kept
      <4> QED BY <3>2, <4>1, <4>2, <4>3 DEF HeldLocally
    <3> QED BY <1>f, <2>0, <2>1, <3>1, <3>2
  <2>6. CASE SaveCommit
    <3>1. /\ saver = "commit" /\ visit = {} /\ saver' = "none" /\ file' = snap
          /\ UNCHANGED <<spawned, waiting>>
      BY <2>6, <1>t DEF SaveCommit, CommitComplete
    <3>2. HeldLocally(k) => (Kept(k) \/ Keeping(k))'
      BY <2>1, <3>1 DEF HeldLocally, Kept, Keeping
    <3> QED BY <1>h, <2>0, <2>1, <3>2 DEF Held, HeldLocally
  <2> QED BY <1>10, <2>2, <2>3, <2>4, <2>5, <2>6 DEF SaveStep
<1>11. CASE UNCHANGED vars
  BY <1>11, <1>h DEF vars, Held, HeldLocally, Kept, Keeping
<1> QED
  BY <1>1, <1>2, <1>3, <1>4, <1>5, <1>6, <1>7, <1>8, <1>9, <1>10, <1>11 DEF Next

\* A session that SetKey has promised is held by Redis, the local map or the file until
\* its deadline or its end is asked for: for any number of requests, whatever Redis
\* answers when, however often the process exits, as long as tokens are drawn anew and
\* the cache file can be written.
THEOREM KvPromiseHeld == ASSUME FreshKeys, ~DiskFaults PROVE Spec => []PromiseHeld
<1> DEFINE Inv == ControlInv /\ FreshInv /\ DeadlinesInv /\ HeldInv
<1>1. Init => Inv
  <2>1. Init => DeadlinesInv BY DEF Init, DeadlinesInv
  <2>2. Init => HeldInv BY DEF Init, HeldInv, Unissued
  <2> QED BY <2>1, <2>2, ControlInit, FreshInit
<1>2. Inv /\ [Next]_vars => Inv' BY ControlNext, FreshNext, DeadlinesNext, HeldNext
<1>3. Inv => PromiseHeld BY HeldImplies DEF ControlInv
<1> QED BY <1>1, <1>2, <1>3, PTL DEF Spec

---------------------------------------------------------------------------
(* The local mode: REDIS_HOST is not set.                                  *)

NoRedis ==
  /\ ~redisUp
  /\ \A c \in Clients : pc[c] \notin {"redis", "scan"}

LEMMA NoRedisNext ==
  ASSUME ~UseRedis
  PROVE  ControlInv /\ NoRedis /\ [Next]_vars => NoRedis'
<1> SUFFICES ASSUME ControlInv, NoRedis, [Next]_vars PROVE NoRedis' OBVIOUS
<1> USE DEF redisVars, saveVars, callVars
<1>t. TypeOK BY DEF ControlInv, KvTypeInv
<1>1. CASE Exit BY <1>1 DEF Exit, NoRedis
<1>2. ASSUME NEW c \in Clients, NEW r \in Requests, Begin(c, r) PROVE NoRedis'
  BY <1>2, <1>t DEF Begin, NoRedis, TypeOK
<1>3. ASSUME NEW c \in Clients, RedisStep(c) \/ LocalStep(c) PROVE NoRedis'
  <2>1. LocalStep(c) BY <1>3, RedisFrame DEF NoRedis
  <2>2. redisUp' = redisUp BY <2>1, LocalFrame
  <2>3. pc'[c] \notin {"redis", "scan"}
    BY <2>1, <1>t DEF LocalStep, LocalLookup, Purge, LocalExtend, LocalStore, Arm,
       LocalDelete, SweepStart, SweepEnd, Sweep, Goto, Return, TypeOK, NoRedis
  <2>4. \A d \in Clients : d # c => pc'[d] = pc[d] BY <1>3, <1>t, OthersStay
  <2> QED BY <2>2, <2>3, <2>4 DEF NoRedis
<1>4. ASSUME \/ LoadCacheFromFile \/ StartWithoutRedis \/ Tick \/ SaveStep
             \/ \E ok \in BOOLEAN : InitRedis(ok)
             \/ \E k \in Keys : TimerFire(k)
             \/ UNCHANGED vars
      PROVE  pc' = pc /\ (redisUp' => redisUp)
  BY <1>4 DEF LoadCacheFromFile, StartWithoutRedis, Tick, InitRedis, TimerFire, SaveStep,
     SaveSkip, SaveAdmit, SaveLock, SaveVisit, SaveCommit, vars
<1>5. ASSUME pc' = pc, redisUp' => redisUp PROVE NoRedis' BY <1>5 DEF NoRedis
<1> QED BY <1>1, <1>2, <1>3, <1>4, <1>5 DEF Next

\* A lookup that is about to delete an expired entry still finds it expired: nobody
\* stores the key again meanwhile.
StaleStays == \A c \in Clients : pc[c] = "purge" => Live(req[c].key) = 0

\* Without ExtendKeyTTL what a call stores is a new session.
LEMMA StoresNew ==
  ASSUME ControlInv, FreshInv, "extend" \notin Ops, NEW c \in Clients, LocalStore(c)
  PROVE  Setting(c) /\ NotStored(req[c].key) /\ req[c].key \in Keys
<1>1. CallsInOrder /\ BusyHasRequest BY DEF ControlInv, KvTypeInv
<1>2. Setting(c) BY <1>1 DEF LocalStore, CallsInOrder, Setting
<1>3. req[c].key \in Keys BY <1>1, <1>2, RequestFields DEF BusyHasRequest, Setting
<1> QED BY <1>2, <1>3 DEF FreshInv

LEMMA StaleNext ==
  ASSUME "extend" \notin Ops
  PROVE  ControlInv /\ FreshInv /\ StaleStays /\ [Next]_vars => StaleStays'
<1> SUFFICES ASSUME ControlInv, FreshInv, StaleStays, [Next]_vars PROVE StaleStays' OBVIOUS
<1> USE DEF redisVars, saveVars, callVars
<1>t. TypeOK /\ DownIsQuiet BY DEF ControlInv, KvTypeInv
<1>r. ASSUME NEW c \in Clients, pc[c] # "idle" PROVE req[c].key \in Keys
  BY <1>r, RequestFields DEF ControlInv, KvTypeInv, BusyHasRequest
<1>1. ASSUME NEW c \in Clients, pc'[c] = "purge", pc[c] = "purge", req'[c] = req[c],
             \A k \in Keys : Live(k) = 0 => Live(k)' = 0
      PROVE  Live(req[c].key)' = 0
  <2>1. req[c].key \in Keys /\ Live(req[c].key) = 0 BY <1>1, <1>r DEF StaleStays
  <2> QED BY <1>1, <2>1
<1>2. CASE LoadCacheFromFile \/ Exit
  <2>1. \A c \in Clients : pc'[c] = "idle"
    BY <1>2, <1>t DEF LoadCacheFromFile, Exit, DownIsQuiet
  <2> QED BY <2>1 DEF StaleStays
<1>3. CASE Tick
  <2>1. pc' = pc /\ req' = req BY <1>3 DEF Tick
  <2>2. \A k \in Keys : Live(k) = 0 => Live(k)' = 0 BY <1>3, <1>t, LiveAges DEF Age
  <2> QED BY <1>1, <2>1, <2>2 DEF StaleStays
<1>4. ASSUME NEW c \in Clients, NEW r \in Requests, Begin(c, r) PROVE StaleStays'
  <2>1. /\ pc'[c] # "purge" /\ local' = local
        /\ \A d \in Clients : d # c => pc'[d] = pc[d] /\ req'[d] = req[d]
    BY <1>4, <1>t DEF Begin, TypeOK
  <2>2. \A k \in Keys : Live(k)' = Live(k) BY <2>1 DEF Live
  <2> QED BY <1>1, <2>1, <2>2 DEF StaleStays
<1>5. ASSUME NEW c \in Clients, RedisStep(c) \/ LocalStep(c) PROVE StaleStays'
  <2>1. \A d \in Clients : d # c => pc'[d] = pc[d] /\ req'[d] = req[d] BY <1>5, <1>t, OthersStay
  <2>2. CASE LocalStore(c)
    <3>1. NotStored(req[c].key) BY <2>2, StoresNew DEF StaleStays
    <3> SUFFICES ASSUME NEW d \in Clients, pc'[d] = "purge" PROVE Live(req[d].key)' = 0
      BY DEF StaleStays
    <3>2. pc'[c] = "arm" BY <2>2, <1>t DEF LocalStore, Goto, TypeOK
    <3>3. d # c /\ pc[d] = "purge" /\ req'[d] = req[d] BY <2>1, <3>2
    <3>4. req[d].key # req[c].key BY <3>1, <3>3 DEF NotStored
    <3>5. req[d].key \in Keys /\ Live(req[d].key) = 0 BY <1>r, <3>3 DEF StaleStays
    <3>6. local'[req[d].key] = local[req[d].key]
      BY <2>2, <1>t, <3>4, <3>5 DEF LocalStore, TypeOK
    <3> QED BY <3>3, <3>5, <3>6 DEF Live
  <2>3. CASE ~LocalStore(c)
    <3>1. \A k \in Keys : local'[k] \in {local[k], NoEntry}
      <4>1. CASE RedisStep(c) BY <4>1, RedisFrame
      <4>2. CASE LocalStep(c)
        BY <4>2, <2>3, <1>t DEF LocalStep, LocalLookup, Purge, LocalExtend, Arm, LocalDelete,
           SweepStart, SweepEnd, Sweep, TypeOK
      <4> QED BY <1>5, <4>1, <4>2
    <3>2. \A k \in Keys : Live(k) = 0 => Live(k)' = 0 BY <3>1 DEF Live, NoEntry
    <3> SUFFICES ASSUME NEW d \in Clients, pc'[d] = "purge" PROVE Live(req[d].key)' = 0
      BY DEF StaleStays
    <3>3. CASE d # c BY <1>1, <2>1, <3>2, <3>3
    <3>4. CASE d = c
      <4>1. LocalLookup(c) /\ Stale(req[c].key)
        <5>1. CASE RedisStep(c)
          BY <3>4, <5>1, <1>t DEF RedisStep, RedisOk, RedisError, RedisScan, RedisScanError,
             RedisScanEnd, RedisScanDel, RedisScanDelError, Goto, Return, TypeOK
        <5>2. CASE LocalStep(c)
          BY <3>4, <2>3, <5>2, <1>t DEF LocalStep, LocalLookup, Purge, LocalExtend, Arm,
             LocalDelete, SweepStart, SweepEnd, Sweep, Goto, Return, TypeOK
        <5> QED BY <1>5, <5>1, <5>2
      <4>2. req' = req /\ local' = local BY <4>1 DEF LocalLookup, Goto
      <4> QED BY <3>4, <4>1, <4>2 DEF Stale, Live
    <3> QED BY <3>3, <3>4
  <2> QED BY <2>2, <2>3
<1>6. ASSUME \/ StartWithoutRedis \/ \E ok \in BOOLEAN : InitRedis(ok)
             \/ SaveStep \/ UNCHANGED vars \/ \E k \in Keys : TimerFire(k)
      PROVE  /\ UNCHANGED <<pc, req>>
             /\ \A k \in Keys : local'[k] \in {local[k], NoEntry}
  <2>1. CASE \E k \in Keys : TimerFire(k) BY <1>t, <2>1 DEF TimerFire, Fired, TypeOK
  <2>2. CASE \/ StartWithoutRedis \/ \E ok \in BOOLEAN : InitRedis(ok)
             \/ SaveStep \/ UNCHANGED vars
    BY <2>2 DEF StartWithoutRedis, InitRedis, SaveStep, SaveSkip, SaveAdmit, SaveLock,
       SaveVisit, SaveCommit, vars
  <2> QED BY <1>6, <2>1, <2>2
<1>7. ASSUME UNCHANGED <<pc, req>>, \A k \in Keys : local'[k] \in {local[k], NoEntry}
      PROVE  StaleStays'
  <2>1. \A k \in Keys : Live(k) = 0 => Live(k)' = 0 BY <1>7 DEF Live, NoEntry
  <2> QED BY <1>1, <1>7, <2>1 DEF StaleStays
<1> QED BY <1>2, <1>3, <1>4, <1>5, <1>6, <1>7 DEF Next

---------------------------------------------------------------------------
(* The file and the local map agree.                                       *)

\* Some save will still be started.
SaveToCome ==
  \/ spawned > 0 \/ waiting > 0
  \/ \E c \in Clients : pc[c] \in {"arm", "swept"}

SyncInv == proc # "down" => SaveToCome \/ \A k \in Keys : Copied(k)

LocalInv == ControlInv /\ FreshInv /\ NoRedis /\ StaleStays

LEMMA LocalInvNext ==
  ASSUME ~UseRedis, FreshKeys, "extend" \notin Ops
  PROVE  LocalInv /\ [Next]_vars => LocalInv'
BY ControlNext, FreshNext, NoRedisNext, StaleNext DEF LocalInv

LEMMA LocalInvInit == Init => LocalInv
<1> SUFFICES ASSUME Init PROVE NoRedis /\ StaleStays
  BY ControlInit, FreshInit DEF LocalInv
<1> QED BY DEF Init, NoRedis, StaleStays

\* Steps that change neither the live entries nor the save under way.
LEMMA SyncFrame ==
  ASSUME SyncInv, UNCHANGED <<file, saver, visit, snap>>, proc # "down",
         \A k \in Keys : Live(k)' = Live(k),
         SaveToCome => SaveToCome'
  PROVE  SyncInv'
BY DEF SyncInv, Copied

LEMMA SyncNext ==
  ASSUME ~DiskFaults, ~UseRedis, "extend" \notin Ops
  PROVE  LocalInv /\ SyncInv /\ [Next]_vars => SyncInv'
<1> SUFFICES ASSUME LocalInv, SyncInv, [Next]_vars PROVE SyncInv' OBVIOUS
<1> USE DEF redisVars, saveVars, callVars
<1>t. /\ ControlInv /\ FreshInv /\ NoRedis /\ StaleStays
      /\ TypeOK /\ DownIsQuiet /\ CommitComplete /\ CallsInOrder
  BY DEF LocalInv, ControlInv, KvTypeInv
<1>s. spawned \in Nat /\ waiting \in Nat BY <1>t DEF TypeOK
<1>1. CASE LoadCacheFromFile
  <2>1. saver' = "none" BY <1>1, <1>t DEF LoadCacheFromFile, DownIsQuiet, SavesDone
  <2>2. \A k \in Keys : file'[k] = Live(k)' /\ file[k] \in 0..MaxTTL
    BY <1>1, <1>t, KvConstants DEF LoadCacheFromFile, Live, NoEntry, TypeOK
  <2> QED BY <2>1, <2>2 DEF SyncInv, Copied
<1>2. CASE StartWithoutRedis \/ \E ok \in BOOLEAN : InitRedis(ok)
  <2>1. UNCHANGED <<local, file, saver, visit, snap, spawned, waiting, pc>> /\ proc # "down"
    BY <1>2 DEF StartWithoutRedis, InitRedis
  <2>2. \A k \in Keys : Live(k)' = Live(k) BY <2>1 DEF Live
  <2> QED BY <2>1, <2>2, SyncFrame DEF SaveToCome
<1>3. CASE Exit BY <1>3 DEF Exit, SyncInv
<1>4. CASE Tick
  <2>1. \A k \in Keys : /\ Live(k)' = Age(Live(k)) /\ file'[k] = Age(file[k])
                        /\ snap'[k] = Age(snap[k])
    BY <1>4, <1>t, LiveAges
  <2>2. UNCHANGED <<proc, spawned, waiting, saver, visit, pc>> BY <1>4 DEF Tick
  <2>3. \A k \in Keys : Copied(k) => Copied(k)' BY <2>1, <2>2 DEF Copied
  <2>4. SaveToCome => SaveToCome' BY <2>2 DEF SaveToCome
  <2> QED BY <2>2, <2>3, <2>4 DEF SyncInv
<1>5. ASSUME NEW c \in Clients, NEW r \in Requests, Begin(c, r) PROVE SyncInv'
  <2>1. /\ UNCHANGED <<local, file, saver, visit, snap, spawned, waiting>> /\ proc # "down"
        /\ \A d \in Clients : pc[d] # "idle" => pc'[d] = pc[d]
    BY <1>5, <1>t DEF Begin, TypeOK
  <2>2. \A k \in Keys : Live(k)' = Live(k) BY <2>1 DEF Live
  <2> QED BY <2>1, <2>2, SyncFrame DEF SaveToCome
<1>6. ASSUME NEW c \in Clients, RedisStep(c) \/ LocalStep(c) PROVE SyncInv'
  <2>1. LocalStep(c) BY <1>6, <1>t, RedisFrame DEF NoRedis
  <2>2. UNCHANGED <<proc, file, waiting, saver, visit, snap>> BY <1>6, ClientFrame
  <2>3. \A d \in Clients : d # c => pc'[d] = pc[d] BY <1>6, <1>t, OthersStay
  <2>4. proc # "down" BY <1>6, <1>t, ClientBusy DEF DownIsQuiet
  \* Whatever stores or deletes a live entry starts a save.
  <2>5. CASE LocalStore(c) \/ LocalDelete(c) \/ Arm(c)
    <3>1. pc'[c] = "arm" \/ spawned' = spawned + 1
      BY <2>5, <1>t DEF LocalStore, LocalDelete, Arm, Goto, GoSave, TypeOK
    <3> QED BY <1>s, <3>1 DEF SyncInv, SaveToCome
  <2>6. ASSUME NEW x \in Keys, Sweep(c, x) PROVE SyncInv'
    <3>1. CASE local[x] # NoEntry
      <4>1. pc'[c] = "swept" BY <2>6, <3>1, <1>t DEF Sweep, Goto, TypeOK
      <4> QED BY <4>1 DEF SyncInv, SaveToCome
    <3>2. CASE local[x] = NoEntry
      <4>1. pc' = pc /\ spawned' = spawned /\ \A k \in Keys : local'[k] = local[k]
        BY <2>6, <3>2, <1>t DEF Sweep, Goto, TypeOK
      <4>2. \A k \in Keys : Live(k)' = Live(k) BY <4>1 DEF Live
      <4> QED BY <2>2, <2>4, <4>1, <4>2, SyncFrame DEF SaveToCome
    <3> QED BY <3>1, <3>2
  <2>7. CASE SweepEnd(c)
    <3>1. local' = local /\ spawned' = (IF pc[c] = "swept" THEN spawned + 1 ELSE spawned)
          /\ pc[c] \in {"sweep", "swept"}
      BY <2>7 DEF SweepEnd
    <3>2. \A k \in Keys : Live(k)' = Live(k) BY <3>1 DEF Live
    <3>3. SaveToCome => SaveToCome' BY <1>s, <2>2, <2>3, <3>1 DEF SaveToCome
    <3> QED BY <2>2, <2>4, <3>2, <3>3, SyncFrame
  <2>8. CASE Purge(c)
    <3>1. /\ pc[c] = "purge" /\ spawned' = spawned
          /\ local' = [local EXCEPT ![req[c].key] = NoEntry]
      BY <2>8 DEF Purge
    <3>2. Live(req[c].key) = 0 BY <1>t, <3>1 DEF StaleStays
    <3>3. \A k \in Keys : Live(k)' = Live(k) BY <1>t, <3>1, <3>2 DEF Live, NoEntry, TypeOK
    <3>4. SaveToCome => SaveToCome' BY <2>2, <2>3, <3>1 DEF SaveToCome
    <3> QED BY <2>2, <2>4, <3>3, <3>4, SyncFrame
  <2>9. CASE LocalLookup(c) \/ LocalExtend(c) \/ SweepStart(c)
    <3>1. pc[c] = "local" /\ spawned' = spawned /\ local' = local
      BY <2>9 DEF LocalLookup, LocalExtend, SweepStart
    <3>2. \A k \in Keys : Live(k)' = Live(k) BY <3>1 DEF Live
    <3>3. SaveToCome => SaveToCome' BY <2>2, <2>3, <3>1 DEF SaveToCome
    <3> QED BY <2>2, <2>4, <3>2, <3>3, SyncFrame
  <2> QED BY <2>1, <2>5, <2>6, <2>7, <2>8, <2>9 DEF LocalStep
<1>7. ASSUME NEW k \in Keys, TimerFire(k) PROVE SyncInv'
  <2>1. spawned' = spawned + 1 BY <1>7 DEF TimerFire, GoSave
  <2> QED BY <1>s, <2>1 DEF SyncInv, SaveToCome
<1>8. CASE SaveStep
  <2>0. UNCHANGED <<proc, local, pc>>
    BY <1>8 DEF SaveStep, SaveSkip, SaveAdmit, SaveLock, SaveVisit, SaveCommit
  <2>l. \A k \in Keys : Live(k)' = Live(k) BY <2>0 DEF Live
  <2>1. ~SaveSkip BY <1>t DEF SaveSkip, NoRedis
  <2>2. CASE SaveAdmit
    BY <1>s, <2>2 DEF SaveAdmit, SyncInv, SaveToCome
  <2>3. CASE SaveLock
    <3>1. saver' = "range" /\ visit' = Keys BY <2>3 DEF SaveLock
    <3> QED BY <3>1 DEF SyncInv, Copied
  <2>4. CASE SaveCommit
    <3>1. /\ saver = "commit" /\ visit = {} /\ saver' = "none" /\ file' = snap
          /\ UNCHANGED <<spawned, waiting>>
      BY <2>4, <1>t DEF SaveCommit, CommitComplete
    <3>2. \A k \in Keys : Copied(k) => Copied(k)' BY <2>l, <3>1 DEF Copied
    <3> QED BY <2>0, <3>1, <3>2 DEF SyncInv, SaveToCome
  <2>5. ASSUME NEW x \in Keys, SaveVisit(x) PROVE SyncInv'
    <3>1. /\ saver = "range" /\ saver' \in {"range", "commit"} /\ visit' = visit \ {x}
          /\ snap' = [snap EXCEPT ![x] = Live(x)]
          /\ UNCHANGED <<spawned, waiting>>
      BY <2>5 DEF SaveVisit, Live
    <3>2. \A k \in Keys : Copied(k) => Copied(k)'
      BY <2>l, <3>1, <1>t DEF Copied, TypeOK
    <3> QED BY <2>0, <3>1, <3>2 DEF SyncInv, SaveToCome
  <2> QED BY <1>8, <2>1, <2>2, <2>3, <2>4, <2>5 DEF SaveStep
<1>9. CASE UNCHANGED vars
  <2>1. \A k \in Keys : Live(k)' = Live(k) BY <1>9 DEF vars, Live
  <2>2. CASE proc = "down" BY <1>9, <2>2 DEF vars, SyncInv
  <2>3. CASE proc # "down" BY <1>9, <2>1, <2>3, SyncFrame DEF vars, SaveToCome
  <2> QED BY <2>2, <2>3
<1> QED BY <1>1, <1>2, <1>3, <1>4, <1>5, <1>6, <1>7, <1>8, <1>9 DEF Next

\* In the local mode, with the calls the program makes there, the file holds exactly the
\* live entries whenever the saves are through: whatever order they ran in, nothing is
\* lost and nothing deleted comes back.
THEOREM KvFileInSync ==
  ASSUME ~UseRedis, ~DiskFaults, FreshKeys, "extend" \notin Ops
  PROVE  Spec => []FileInSync
<1>1. Init => LocalInv /\ SyncInv
  <2>1. Init => SyncInv BY DEF Init, SyncInv
  <2> QED BY <2>1, LocalInvInit
<1>2. LocalInv /\ SyncInv /\ [Next]_vars => (LocalInv /\ SyncInv)'
  BY LocalInvNext, SyncNext
<1>3. SyncInv => FileInSync
  <2> SUFFICES ASSUME SyncInv, Saved, NEW k \in Keys PROVE file[k] = Live(k)
    BY DEF FileInSync
  <2>1. ~SaveToCome /\ proc = "up" /\ saver = "none" BY DEF Saved, SavesDone, SaveToCome
  <2>2. Copied(k) BY <2>1 DEF SyncInv
  <2> QED BY <2>1, <2>2 DEF Copied
<1> QED BY <1>1, <1>2, <1>3, PTL DEF Spec

---------------------------------------------------------------------------
(* The local mode implements SessionLife.                                  *)

\* A timer, started or about to be, waits at least for the deadline of what is stored.
TimerLate ==
  /\ \A k \in Keys, t \in 0..MaxTTL : timers[k][t] > 0 => t >= Live(k)
  /\ \A c \in Clients : pc[c] = "arm" => req[c].ttl >= Live(req[c].key)

\* What SetKey is about to store was never stored nor revoked, and a process that never
\* ran has no file.
NewSessions ==
  /\ \A c \in Clients : Setting(c) => promised[req[c].key] = Unissued
  /\ proc = "down" => \A k \in Keys : file[k] = 0 /\ local[k] = NoEntry

LEMMA TimerLateNext ==
  ASSUME "extend" \notin Ops
  PROVE  ControlInv /\ FreshInv /\ TimerLate /\ [Next]_vars => TimerLate'
<1> SUFFICES ASSUME ControlInv, FreshInv, TimerLate, [Next]_vars PROVE TimerLate' OBVIOUS
<1> USE DEF redisVars, saveVars, callVars
<1>t. TypeOK /\ DownIsQuiet BY DEF ControlInv, KvTypeInv
<1>z. MaxTTL \in Nat /\ 0 \in 0..MaxTTL BY KvConstants
<1>v. \A k \in Keys : local[k] \in -1..MaxTTL /\ Live(k) \in 0..MaxTTL
  BY <1>t, <1>z DEF TypeOK, Live
<1>r. ASSUME NEW c \in Clients, pc[c] # "idle"
      PROVE  req[c].key \in Keys /\ req[c].ttl \in 0..MaxTTL
  BY <1>r, RequestFields DEF ControlInv, KvTypeInv, BusyHasRequest
\* Steps that start no timer and store nothing.
<1>1. ASSUME \A k \in Keys, t \in 0..MaxTTL : timers'[k][t] > 0 => timers[k][t] > 0,
             \A k \in Keys : local'[k] \in {local[k], NoEntry},
             \A c \in Clients : pc'[c] = "arm" => pc[c] = "arm" /\ req'[c] = req[c]
      PROVE  TimerLate'
  <2>1. \A k \in Keys : Live(k)' \in {Live(k), 0} BY <1>1 DEF Live, NoEntry
  <2>2. ASSUME NEW k \in Keys, NEW t \in 0..MaxTTL, timers'[k][t] > 0 PROVE t >= Live(k)'
    <3>1. timers[k][t] > 0 BY <1>1, <2>2
    <3>2. t >= Live(k) BY <3>1 DEF TimerLate
    <3> QED BY <3>2, <2>1, <1>v, <1>z
  <2>3. ASSUME NEW c \in Clients, pc'[c] = "arm" PROVE (req[c].ttl >= Live(req[c].key))'
    <3>1. pc[c] = "arm" /\ req'[c] = req[c] BY <1>1, <2>3
    <3>2. req[c].ttl >= Live(req[c].key) BY <3>1 DEF TimerLate
    <3>3. req[c].key \in Keys /\ req[c].ttl \in 0..MaxTTL BY <1>r, <3>1
    <3>4. Live(req[c].key)' \in {Live(req[c].key), 0}
      <4>1. Live(req[c].key)' = (IF local'[req[c].key] > 0 THEN local'[req[c].key] ELSE 0)
        BY <3>1 DEF Live
      <4> QED BY <1>1, <3>3, <4>1 DEF Live, NoEntry
    <3> QED BY <1>v, <1>z, <3>1, <3>2, <3>3, <3>4
  <2> QED BY <2>2, <2>3 DEF TimerLate
<1>2. CASE LoadCacheFromFile
  <2>1. \A c \in Clients : pc'[c] = "idle" BY <1>2, <1>t DEF LoadCacheFromFile, DownIsQuiet
  <2>2. ASSUME NEW k \in Keys, NEW t \in 0..MaxTTL, timers'[k][t] > 0 PROVE t >= Live(k)'
    <3>1. /\ timers'[k][t] = (IF file[k] > 0 /\ t = file[k] THEN 1 ELSE 0)
          /\ local'[k] = (IF file[k] > 0 THEN file[k] ELSE NoEntry)
          /\ file[k] \in 0..MaxTTL
      BY <1>2, <1>t DEF LoadCacheFromFile, LoadedTimers, TypeOK
    <3>2. t = file[k] /\ local'[k] = file[k] BY <2>2, <3>1
    <3> QED BY <3>1, <3>2, <1>z DEF Live
  <2> QED BY <2>1, <2>2 DEF TimerLate
<1>3. CASE Exit
  <2>1. \A k \in Keys, t \in 0..MaxTTL : timers'[k][t] = 0 BY <1>3 DEF Exit, NoTimers
  <2>2. \A c \in Clients : pc'[c] = "idle" BY <1>3 DEF Exit
  <2> QED BY <2>1, <2>2 DEF TimerLate
<1>4. CASE Tick
  <2>1. pc' = pc /\ req' = req BY <1>4 DEF Tick
  <2>2. \A k \in Keys : Live(k)' = Age(Live(k)) BY <1>4, <1>t, LiveAges
  <2>3. ASSUME NEW k \in Keys, NEW t \in 0..MaxTTL, timers'[k][t] > 0 PROVE t >= Live(k)'
    <3>1. timers'[k][t] = (IF t < MaxTTL THEN timers[k][t + 1] ELSE 0)
                          + (IF t = 0 THEN timers[k][0] ELSE 0)
      BY <1>4 DEF Tick
    <3>2. timers[k] \in [0..MaxTTL -> Nat] BY <1>t DEF TypeOK
    <3>3. CASE t < MaxTTL /\ timers[k][t + 1] > 0
      <4>1. t + 1 \in 0..MaxTTL BY <1>z, <3>3
      <4>2. t + 1 >= Live(k) BY <3>3, <4>1 DEF TimerLate
      <4> QED BY <1>v, <1>z, <2>2, <4>2 DEF Age
    <3>4. CASE t = 0 /\ timers[k][0] > 0
      <4>1. 0 >= Live(k) BY <1>z, <3>4 DEF TimerLate
      <4> QED BY <1>v, <1>z, <2>2, <3>4, <4>1 DEF Age
    <3>5. CASE ~(t < MaxTTL /\ timers[k][t + 1] > 0) /\ ~(t = 0 /\ timers[k][0] > 0)
      <4>1. t < MaxTTL => timers[k][t + 1] = 0
        <5>1. t < MaxTTL => t + 1 \in 0..MaxTTL BY <1>z
        <5>2. t < MaxTTL => timers[k][t + 1] \in Nat BY <3>2, <5>1
        <5> QED BY <3>5, <5>2
      <4>2. t = 0 => timers[k][0] = 0 BY <3>2, <3>5, <1>z
      <4> QED BY <2>3, <3>1, <4>1, <4>2
    <3> QED BY <3>3, <3>4, <3>5
  <2>4. ASSUME NEW c \in Clients, pc[c] = "arm" PROVE (req[c].ttl >= Live(req[c].key))'
    <3>1. req[c].ttl >= Live(req[c].key) BY <2>4 DEF TimerLate
    <3>2. req[c].key \in Keys /\ req[c].ttl \in 0..MaxTTL BY <1>r, <2>4
    <3>3. Live(req[c].key)' = (IF local'[req[c].key] > 0 THEN local'[req[c].key] ELSE 0)
      BY <2>1 DEF Live
    <3>4. local'[req[c].key] = Age(local[req[c].key]) BY <1>4, <3>2 DEF Tick, AgeAll
    <3> QED BY <1>v, <1>z, <2>1, <3>1, <3>2, <3>3, <3>4 DEF Age, Live
  <2> QED BY <2>1, <2>3, <2>4 DEF TimerLate
<1>5. ASSUME NEW c \in Clients, NEW r \in Requests, Begin(c, r) PROVE TimerLate'
  <2>1. /\ pc'[c] # "arm" /\ UNCHANGED <<local, timers>>
        /\ \A d \in Clients : d # c => pc'[d] = pc[d] /\ req'[d] = req[d]
    BY <1>5, <1>t DEF Begin, TypeOK
  <2> QED BY <1>1, <2>1
<1>6. ASSUME NEW c \in Clients, RedisStep(c) \/ LocalStep(c) PROVE TimerLate'
  <2>1. \A d \in Clients : d # c => pc'[d] = pc[d] /\ req'[d] = req[d] BY <1>6, <1>t, OthersStay
  <2>2. CASE LocalStore(c)
    <3> DEFINE key == req[c].key
    <3>1. NotStored(key) /\ key \in Keys BY <2>2, <1>t, StoresNew
    <3>2. /\ pc'[c] = "arm" /\ req' = req /\ timers' = timers
          /\ local'[key] = req[c].ttl
          /\ \A k \in Keys : k # key => local'[k] = local[k]
      BY <2>2, <3>1, <1>t DEF LocalStore, Goto, TypeOK
    <3>3. pc[c] # "idle" BY <2>2 DEF LocalStore
    <3>4. req[c].ttl \in 0..MaxTTL BY <1>r, <3>3
    <3>5. \A k \in Keys : k # key => Live(k)' = Live(k) BY <3>2 DEF Live
    <3>6. ASSUME NEW k \in Keys, NEW t \in 0..MaxTTL, timers'[k][t] > 0 PROVE t >= Live(k)'
      <4>1. k # key BY <3>1, <3>2, <3>6 DEF NotStored
      <4> QED BY <3>2, <3>5, <3>6, <4>1 DEF TimerLate
    <3>7. ASSUME NEW d \in Clients, pc'[d] = "arm" PROVE (req[d].ttl >= Live(req[d].key))'
      <4>1. Live(req[d].key)' = (IF local'[req[d].key] > 0 THEN local'[req[d].key] ELSE 0)
        BY <3>2 DEF Live
      <4>2. CASE d = c
        BY <3>2, <3>4, <4>1, <4>2, <1>z
      <4>3. CASE d # c
        <5>1. pc[d] = "arm" BY <2>1, <3>7, <4>3
        <5>2. req[d].key # key BY <3>1, <5>1 DEF NotStored
        <5>3. req[d].key \in Keys BY <1>r, <5>1
        <5>4. req[d].ttl >= Live(req[d].key) BY <5>1 DEF TimerLate
        <5> QED BY <3>2, <4>1, <5>2, <5>3, <5>4 DEF Live
      <4> QED BY <4>2, <4>3
    <3> QED BY <3>6, <3>7 DEF TimerLate
  <2>3. CASE Arm(c)
    <3> DEFINE key == req[c].key
    <3>1. /\ pc[c] = "arm" /\ pc'[c] = "idle" /\ local' = local
          /\ timers' = [timers EXCEPT ![key][req[c].ttl] = @ + 1]
      BY <2>3, <1>t DEF Arm, Return, Delay, TypeOK
    <3>2. key \in Keys /\ req[c].ttl \in 0..MaxTTL BY <1>r, <3>1
    <3>3. req[c].ttl >= Live(key) BY <3>1 DEF TimerLate
    <3>4. \A k \in Keys : Live(k)' = Live(k) BY <3>1 DEF Live
    <3>5. ASSUME NEW k \in Keys, NEW t \in 0..MaxTTL, timers'[k][t] > 0 PROVE t >= Live(k)'
      <4>1. CASE k = key /\ t = req[c].ttl BY <3>3, <3>4, <4>1
      <4>2. CASE ~(k = key /\ t = req[c].ttl)
        <5>1. timers'[k][t] = timers[k][t] BY <1>t, <3>1, <3>2, <4>2 DEF TypeOK
        <5> QED BY <3>4, <3>5, <5>1 DEF TimerLate
      <4> QED BY <4>1, <4>2
    <3>6. ASSUME NEW d \in Clients, pc'[d] = "arm" PROVE (req[d].ttl >= Live(req[d].key))'
      <4>1. d # c /\ pc[d] = "arm" /\ req'[d] = req[d] BY <2>1, <3>1, <3>6
      <4>2. req[d].ttl >= Live(req[d].key) BY <4>1 DEF TimerLate
      <4> QED BY <3>1, <4>1, <4>2 DEF Live
    <3> QED BY <3>5, <3>6 DEF TimerLate
  <2>4. CASE ~LocalStore(c) /\ ~Arm(c)
    <3>1. timers' = timers /\ \A k \in Keys : local'[k] \in {local[k], NoEntry}
      <4>1. CASE RedisStep(c) BY <4>1, RedisFrame
      <4>2. CASE LocalStep(c)
        BY <4>2, <2>4, <1>t DEF LocalStep, LocalLookup, Purge, LocalExtend, LocalDelete,
           SweepStart, SweepEnd, Sweep, TypeOK
      <4> QED BY <1>6, <4>1, <4>2
    <3>2. pc'[c] # "arm"
      <4>1. CASE RedisStep(c)
        BY <4>1, <1>t DEF RedisStep, RedisOk, RedisError, RedisScan, RedisScanError,
           RedisScanEnd, RedisScanDel, RedisScanDelError, Goto, Return, TypeOK
      <4>2. CASE LocalStep(c)
        BY <4>2, <2>4, <1>t DEF LocalStep, LocalLookup, Purge, LocalExtend, LocalDelete,
           SweepStart, SweepEnd, Sweep, Goto, Return, TypeOK
      <4> QED BY <1>6, <4>1, <4>2
    <3> QED BY <1>1, <2>1, <3>1, <3>2
  <2> QED BY <2>2, <2>3, <2>4
<1>7. ASSUME NEW k \in Keys, TimerFire(k) PROVE TimerLate'
  <2>1. /\ UNCHANGED <<pc, req>> /\ \A x \in Keys : local'[x] \in {local[x], NoEntry}
    BY <1>7, <1>t DEF TimerFire, Fired, TypeOK
  <2>2. ASSUME NEW x \in Keys, NEW t \in 0..MaxTTL, timers'[x][t] > 0 PROVE timers[x][t] > 0
    <3>1. timers[x][t] \in Nat /\ timers[k][0] \in Nat BY <1>t, <1>z DEF TypeOK
    <3>2. timers' = [timers EXCEPT ![k][0] = @ - 1] /\ timers[k][0] > 0 BY <1>7 DEF TimerFire
    <3>3. CASE x = k /\ t = 0 BY <3>2, <3>3
    <3>4. CASE ~(x = k /\ t = 0)
      <4>1. timers'[x][t] = timers[x][t] BY <1>t, <1>z, <3>2, <3>4 DEF TypeOK
      <4> QED BY <2>2, <4>1
    <3> QED BY <3>3, <3>4
  <2> QED BY <1>1, <2>1, <2>2
<1>8. ASSUME \/ StartWithoutRedis \/ \E ok \in BOOLEAN : InitRedis(ok)
             \/ SaveStep \/ UNCHANGED vars
      PROVE  UNCHANGED <<pc, req, local, timers>>
  BY <1>8 DEF StartWithoutRedis, InitRedis, SaveStep, SaveSkip, SaveAdmit, SaveLock,
     SaveVisit, SaveCommit, vars
<1>9. ASSUME UNCHANGED <<pc, req, local, timers>> PROVE TimerLate'
  BY <1>9, <1>1
<1> QED BY <1>2, <1>3, <1>4, <1>5, <1>6, <1>7, <1>8, <1>9 DEF Next

\* No exit, no Redis, and the calls the program makes.
OnlyLocal ==
  /\ ~UseRedis /\ FreshKeys /\ MaxCrashes = 0
  /\ Ops \subseteq {"set", "del"} \cup Lookups

LEMMA NewSessionsNext ==
  ASSUME OnlyLocal
  PROVE  LocalInv /\ NewSessions /\ [Next]_vars => NewSessions'
<1> SUFFICES ASSUME LocalInv, NewSessions, [Next]_vars PROVE NewSessions' OBVIOUS
<1> USE DEF redisVars, saveVars, callVars
<1>t. /\ ControlInv /\ FreshInv /\ NoRedis
      /\ TypeOK /\ DownIsQuiet /\ CallsInOrder
  BY DEF LocalInv, ControlInv, KvTypeInv
<1>r. ASSUME NEW c \in Clients, pc[c] # "idle" PROVE req[c].key \in Keys
  BY <1>r, <1>t, RequestFields DEF ControlInv, KvTypeInv, BusyHasRequest
<1>p. \A k \in Keys : promised[k] \in -2..MaxTTL BY <1>t DEF TypeOK
<1>1. CASE LoadCacheFromFile
  <2>1. \A c \in Clients : pc'[c] = "idle" BY <1>1, <1>t DEF LoadCacheFromFile, DownIsQuiet
  <2>2. proc' # "down" BY <1>1 DEF LoadCacheFromFile
  <2> QED BY <2>1, <2>2 DEF NewSessions, Setting
<1>2. ~Exit BY <1>t DEF Exit, TypeOK, OnlyLocal
<1>3. CASE Tick
  <2>1. pc' = pc /\ req' = req /\ proc' = proc BY <1>3 DEF Tick
  <2>2. \A k \in Keys : /\ promised'[k] = Age(promised[k]) /\ file'[k] = Age(file[k])
                        /\ local'[k] = Age(local[k])
    BY <1>3 DEF Tick, AgeAll
  <2>3. ASSUME NEW c \in Clients, Setting(c) PROVE promised'[req[c].key] = Unissued
    <3>1. req[c].key \in Keys /\ promised[req[c].key] = Unissued
      BY <1>r, <2>3 DEF NewSessions, Setting
    <3> QED BY <2>2, <3>1 DEF Age, Unissued
  <2> QED BY <2>1, <2>2, <2>3 DEF NewSessions, Setting, Age, NoEntry
<1>4. ASSUME NEW c \in Clients, NEW r \in Requests, Begin(c, r) PROVE NewSessions'
  <2>1. /\ proc' = proc /\ proc = "up" /\ req'[c] = r /\ r.op \in Ops
        /\ \A d \in Clients : d # c => pc'[d] = pc[d] /\ req'[d] = req[d]
        /\ \A k \in Keys : promised'[k] = TakenBack(r, k)
        /\ ~Busy(r.key, {"set"}) /\ (r.op = "set" => promised[r.key] = Unissued)
    BY <1>4, <1>t DEF Begin, TypeOK, CallersUse, OnlyLocal
  <2>2. r.key \in Keys BY RequestFields
  <2>3. \A k \in Keys : k # r.key \/ r.op = "set" => promised'[k] = promised[k]
    BY <2>1 DEF TakenBack, Targets, OnlyLocal, Lookups
  <2> SUFFICES ASSUME NEW d \in Clients, Setting(d)' PROVE promised'[req'[d].key] = Unissued
    BY <2>1 DEF NewSessions
  <2>4. CASE d = c
    <3>1. r.op = "set" BY <2>1, <2>4 DEF Setting
    <3> QED BY <2>1, <2>2, <2>3, <2>4, <3>1
  <2>5. CASE d # c
    <3>1. Setting(d) /\ req'[d] = req[d] /\ pc[d] # "idle" BY <2>1, <2>5 DEF Setting
    <3>2. req[d].key # r.key BY <2>1, <3>1 DEF Busy, Setting
    <3>3. req[d].key \in Keys /\ promised[req[d].key] = Unissued BY <1>r, <3>1 DEF NewSessions
    <3> QED BY <2>3, <3>1, <3>2, <3>3
  <2> QED BY <2>4, <2>5
<1>5. ASSUME NEW c \in Clients, RedisStep(c) \/ LocalStep(c) PROVE NewSessions'
  <2>1. \A d \in Clients : d # c => pc'[d] = pc[d] /\ req'[d] = req[d] BY <1>5, <1>t, OthersStay
  <2>2. LocalStep(c) BY <1>5, <1>t, RedisFrame DEF NoRedis
  <2>3. proc' = proc /\ proc = "up" BY <1>5, <1>t, ClientFrame, ClientBusy DEF DownIsQuiet
  <2>4. ~Setting(c)'
    <3>1. pc'[c] \notin {"redis", "local"}
      BY <2>2, <1>t DEF LocalStep, LocalLookup, Purge, LocalExtend, LocalStore, Arm,
         LocalDelete, SweepStart, SweepEnd, Sweep, Goto, Return, TypeOK
    <3> QED BY <3>1 DEF Setting
  <2> SUFFICES ASSUME NEW d \in Clients, Setting(d)' PROVE promised'[req'[d].key] = Unissued
    BY <2>3 DEF NewSessions
  <2>5. d # c /\ Setting(d) /\ req'[d] = req[d] /\ pc[d] # "idle" BY <2>1, <2>4 DEF Setting
  <2>6. req[d].key \in Keys /\ promised[req[d].key] = Unissued BY <1>r, <2>5 DEF NewSessions
  <2>7. CASE promised' = promised BY <2>5, <2>6, <2>7
  <2>8. CASE /\ Setting(c)
             /\ promised' = [promised EXCEPT ![req[c].key] =
                               IF Swept(req[c].key) THEN Revoked ELSE req[c].ttl]
    <3>1. req[d].key # req[c].key
      <4>1. req[d].op = "set" BY <2>5 DEF Setting
      <4> QED BY <1>t, <2>5, <2>8, <4>1 DEF FreshInv
    <3> QED BY <2>5, <2>6, <2>8, <3>1, <1>t DEF TypeOK
  <2> QED BY <1>5, <1>t, <2>7, <2>8, ClientPromise
<1>6. ASSUME \/ StartWithoutRedis \/ \E ok \in BOOLEAN : InitRedis(ok)
             \/ SaveStep \/ UNCHANGED vars \/ \E k \in Keys : TimerFire(k)
      PROVE  /\ UNCHANGED <<pc, req, promised>>
             /\ proc' = "down" => proc = "down" /\ local' = local /\ file' = file
  <2>1. CASE \E k \in Keys : TimerFire(k)
    <3>1. PICK k \in Keys : TimerFire(k) BY <2>1
    <3>2. timers[k][0] > 0 BY <3>1 DEF TimerFire
    <3>3. proc # "down"
      <4> SUFFICES ASSUME proc = "down" PROVE FALSE OBVIOUS
      <4>1. timers[k][0] = 0 BY <1>t, KvConstants DEF DownIsQuiet, NoTimers
      <4> QED BY <3>2, <4>1
    <3> QED BY <3>1, <3>3 DEF TimerFire
  <2>2. CASE SaveStep
    <3>1. proc # "down" /\ proc' = proc
      BY <2>2, <1>t DEF SaveStep, SaveSkip, SaveAdmit, SaveLock, SaveVisit, SaveCommit,
         DownIsQuiet, SavesDone
    <3> QED BY <2>2, <3>1 DEF SaveStep, SaveSkip, SaveAdmit, SaveLock, SaveVisit, SaveCommit
  <2>3. CASE StartWithoutRedis \/ (\E ok \in BOOLEAN : InitRedis(ok)) \/ UNCHANGED vars
    BY <2>3 DEF StartWithoutRedis, InitRedis, vars
  <2> QED BY <1>6, <2>1, <2>2, <2>3
<1>7. ASSUME UNCHANGED <<pc, req, promised>>,
             proc' = "down" => proc = "down" /\ local' = local /\ file' = file
      PROVE  NewSessions'
  BY <1>7 DEF NewSessions, Setting
<1> QED BY <1>1, <1>2, <1>3, <1>4, <1>5, <1>6, <1>7 DEF Next

LifeInv == LocalInv /\ TimerLate /\ NewSessions

LEMMA LifeInvInit == Init => LifeInv
<1> SUFFICES ASSUME Init PROVE TimerLate /\ NewSessions
  BY LocalInvInit DEF LifeInv
<1>1. \A k \in Keys, t \in 0..MaxTTL : timers[k][t] = 0 BY DEF Init, NoTimers
<1>2. \A c \in Clients : pc[c] = "idle" BY DEF Init
<1> QED BY <1>1, <1>2 DEF Init, TimerLate, NewSessions, Setting

LEMMA LifeInvNext == OnlyLocal => (LifeInv /\ [Next]_vars => LifeInv')
<1> SUFFICES ASSUME OnlyLocal, LifeInv, [Next]_vars PROVE LifeInv' OBVIOUS
<1>1. "extend" \notin Ops BY DEF OnlyLocal, Lookups
<1> QED BY <1>1, LocalInvNext, TimerLateNext, NewSessionsNext DEF LifeInv, LocalInv, OnlyLocal

---------------------------------------------------------------------------
(* The mapping, token by token.                                            *)

LeftOf(k) == IF promised[k] = Unissued THEN -1 ELSE Live(k)

LEMMA LifeStutters ==
  ASSUME \A k \in Keys : LeftOf(k)' = LeftOf(k),
         \A k \in Keys : promised'[k] = Revoked <=> promised[k] = Revoked
  PROVE  UNCHANGED Life!lifeVars
BY DEF Life!lifeVars, LeftOf, Live

LEMMA LifeGrants ==
  ASSUME NEW key \in Keys, NEW t \in TTLs,
         LeftOf(key) = -1, LeftOf(key)' = t,
         \A k \in Keys : k # key => LeftOf(k)' = LeftOf(k),
         \A k \in Keys : promised'[k] = Revoked <=> promised[k] = Revoked
  PROVE  Life!Grant(key, t)
BY DEF Life!Grant, LeftOf, Live

LEMMA LifeEnds ==
  ASSUME NEW key \in Keys, promised[key] = Revoked, LeftOf(key)' = 0,
         \A k \in Keys : k # key => LeftOf(k)' = LeftOf(k),
         \A k \in Keys : promised'[k] = Revoked <=> promised[k] = Revoked
  PROVE  Life!EndSession(key)
BY DEF Life!EndSession, LeftOf, Live

LEMMA LifeAsks ==
  ASSUME NEW key \in Keys, promised'[key] = Revoked,
         LeftOf(key)' = (IF LeftOf(key) = -1 THEN 0 ELSE LeftOf(key)),
         \A k \in Keys : k # key => promised'[k] = promised[k] /\ LeftOf(k)' = LeftOf(k)
  PROVE  Life!AskEnd({key})
BY DEF Life!AskEnd, LeftOf, Live

LEMMA LifeAges ==
  ASSUME \A k \in Keys : LeftOf(k)' = IF LeftOf(k) > 0 THEN LeftOf(k) - 1 ELSE LeftOf(k),
         \A k \in Keys : promised'[k] = Revoked <=> promised[k] = Revoked
  PROVE  Life!LifeTick
BY DEF Life!LifeTick, LeftOf, Live

\* Every step of the store is a step of SessionLife or none.
LEMMA LifeStep ==
  OnlyLocal => (LifeInv /\ LifeInv' /\ [Next]_vars => [Life!LifeNext]_(Life!lifeVars))
<1> SUFFICES ASSUME OnlyLocal, LifeInv, LifeInv', [Next]_vars
             PROVE  Life!LifeNext \/ UNCHANGED Life!lifeVars
  OBVIOUS
<1> USE DEF redisVars, saveVars, callVars
<1>t. /\ ControlInv /\ FreshInv /\ NoRedis /\ StaleStays /\ TimerLate /\ NewSessions
      /\ TypeOK /\ DownIsQuiet /\ CallsInOrder
  BY DEF LifeInv, LocalInv, ControlInv, KvTypeInv
<1>o. Ops \subseteq {"set", "del", "get", "exists", "ttl"} BY DEF OnlyLocal, Lookups
<1>z. MaxTTL \in Nat /\ 0 \in 0..MaxTTL BY KvConstants
<1>v. \A k \in Keys : /\ promised[k] \in -2..MaxTTL /\ local[k] \in -1..MaxTTL
                      /\ Live(k) \in 0..MaxTTL
  BY <1>t, <1>z DEF TypeOK, Live
<1>r. ASSUME NEW c \in Clients, pc[c] # "idle" PROVE req[c].key \in Keys
  BY <1>r, <1>t, RequestFields DEF ControlInv, KvTypeInv, BusyHasRequest
<1>1. ASSUME \A k \in Keys : Live(k)' = Live(k), promised' = promised
      PROVE  UNCHANGED Life!lifeVars
  BY <1>1, LifeStutters DEF LeftOf
<1>2. CASE LoadCacheFromFile
  <2>1. \A k \in Keys : file[k] = 0 /\ local[k] = NoEntry
    BY <1>2, <1>t DEF LoadCacheFromFile, NewSessions
  <2>2. \A k \in Keys : local'[k] = NoEntry /\ promised' = promised
    BY <1>2, <2>1 DEF LoadCacheFromFile
  <2>3. \A k \in Keys : Live(k)' = Live(k) BY <2>1, <2>2 DEF Live
  <2>4. promised' = promised BY <1>2 DEF LoadCacheFromFile
  <2> QED BY <1>1, <2>3, <2>4
<1>3. ~Exit BY <1>t DEF Exit, TypeOK, OnlyLocal
<1>4. CASE Tick
  <2>1. \A k \in Keys : promised'[k] = Age(promised[k]) BY <1>4 DEF Tick, AgeAll
  <2>2. \A k \in Keys : Live(k)' = Age(Live(k)) BY <1>4, <1>t, LiveAges
  <2>3. \A k \in Keys : /\ promised'[k] = Unissued <=> promised[k] = Unissued
                        /\ promised'[k] = Revoked <=> promised[k] = Revoked
    BY <1>v, <2>1 DEF Age, Unissued, Revoked
  <2>4. \A k \in Keys : LeftOf(k)' = IF LeftOf(k) > 0 THEN LeftOf(k) - 1 ELSE LeftOf(k)
    <3> SUFFICES ASSUME NEW k \in Keys
                 PROVE  LeftOf(k)' = IF LeftOf(k) > 0 THEN LeftOf(k) - 1 ELSE LeftOf(k)
      OBVIOUS
    <3>1. CASE promised[k] = Unissued BY <2>3, <3>1 DEF LeftOf
    <3>2. CASE promised[k] # Unissued BY <2>2, <2>3, <3>2 DEF LeftOf, Age
    <3> QED BY <3>1, <3>2
  <2>5. Life!LifeTick BY <2>3, <2>4, LifeAges
  <2> QED BY <2>5 DEF Life!LifeNext
<1>5. ASSUME NEW c \in Clients, NEW r \in Requests, Begin(c, r)
      PROVE  Life!LifeNext \/ UNCHANGED Life!lifeVars
  <2>1. /\ r.op \in Ops /\ local' = local
        /\ promised' = [k \in Keys |-> TakenBack(r, k)]
    BY <1>5 DEF Begin
  <2>2. \A k \in Keys : Live(k)' = Live(k) BY <2>1 DEF Live
  <2>3. CASE r.op = "del"
    <3> DEFINE key == r.key
    <3>1. key \in Keys BY RequestFields
    <3>2. promised'[key] = Revoked /\ \A k \in Keys : k # key => promised'[k] = promised[k]
      BY <2>1, <2>3, <3>1 DEF TakenBack, Targets
    <3>3. LeftOf(key)' = Live(key) BY <2>2, <3>1, <3>2 DEF LeftOf, Unissued, Revoked
    <3>4. promised[key] = Unissued => Live(key) = 0
      BY <1>t, <3>1 DEF FreshInv, NotStored, Live, NoEntry
    <3>5. LeftOf(key)' = (IF LeftOf(key) = -1 THEN 0 ELSE LeftOf(key))
      BY <1>v, <3>1, <3>3, <3>4 DEF LeftOf
    <3>6. \A k \in Keys : k # key => promised'[k] = promised[k] /\ LeftOf(k)' = LeftOf(k)
      BY <2>2, <3>2 DEF LeftOf
    <3>7. Life!AskEnd({key})
      <4> HIDE DEF key
      <4> QED BY <3>1, <3>2, <3>5, <3>6, LifeAsks
    <3>8. {key} \in SUBSET Keys BY <3>1
    <3> QED BY <3>7, <3>8 DEF Life!LifeNext
  <2>4. CASE r.op # "del"
    <3>1. \A k \in Keys : TakenBack(r, k) = promised[k]
      BY <1>o, <2>1, <2>4 DEF TakenBack, Targets
    <3>2. promised \in [Keys -> -2..MaxTTL] BY <1>t DEF TypeOK
    <3>3. promised' = promised BY <2>1, <3>1, <3>2
    <3> QED BY <1>1, <2>2, <3>3
  <2> QED BY <2>3, <2>4
<1>6. ASSUME NEW c \in Clients, RedisStep(c) \/ LocalStep(c)
      PROVE  Life!LifeNext \/ UNCHANGED Life!lifeVars
  <2>1. LocalStep(c) BY <1>6, <1>t, RedisFrame DEF NoRedis
  <2>2. pc[c] # "idle" BY <2>1, ClientBusy
  <2>3. req[c].key \in Keys /\ req[c].op \in Ops BY <1>r, <1>t, <2>2 DEF CallsInOrder
  <2>4. CASE LocalStore(c)
    <3>0. PICK key \in Keys : key = req[c].key BY <2>3
    <3>1. Setting(c) BY <1>o, <1>t, <2>4, StoresNew
    <3>2. promised[key] = Unissued BY <1>t, <3>0, <3>1 DEF NewSessions
    <3>3. ~Swept(key)
      <4>1. \A d \in Clients : pc[d] # "idle" => req[d].op # "delprefix"
        BY <1>o, <1>t DEF CallsInOrder
      <4> QED BY <4>1 DEF Swept
    <3>4. req[c].ttl \in TTLs /\ req[c].ttl \in 1..MaxTTL
      <4>1. req[c] \in Requests BY <1>t, <2>2 DEF ControlInv, KvTypeInv, BusyHasRequest
      <4>2. req[c].op = "set" BY <3>1 DEF Setting
      <4> QED BY <4>1, <4>2, KvConstants DEF Requests
    <3>5. /\ promised' = [promised EXCEPT ![key] = req[c].ttl]
          /\ local' = [local EXCEPT ![key] = req[c].ttl]
      BY <2>4, <3>0, <3>1, <3>3 DEF LocalStore, Promise, Setting
    <3>6. promised'[key] = req[c].ttl /\ local'[key] = req[c].ttl
      BY <1>t, <2>3, <3>5 DEF TypeOK
    <3>7. \A k \in Keys : k # key => promised'[k] = promised[k] /\ local'[k] = local[k]
      BY <1>t, <3>5 DEF TypeOK
    <3>8. LeftOf(key) = -1 /\ LeftOf(key)' = req[c].ttl
      BY <3>2, <3>4, <3>6, <1>z DEF LeftOf, Live, Unissued
    <3>9. \A k \in Keys : k # key => LeftOf(k)' = LeftOf(k)
      BY <3>7 DEF LeftOf, Live
    <3>10. \A k \in Keys : promised'[k] = Revoked <=> promised[k] = Revoked
      BY <1>z, <3>2, <3>4, <3>6, <3>7 DEF Revoked, Unissued
    <3>11. PICK t \in TTLs : t = req[c].ttl BY <3>4
    <3>12. Life!Grant(key, t) BY <3>8, <3>9, <3>10, <3>11, LifeGrants
    <3> QED BY <3>12 DEF Life!LifeNext
  <2>5. CASE LocalDelete(c)
    <3>0. PICK key \in Keys : key = req[c].key BY <2>3
    <3>1. pc[c] = "local" /\ req[c].op = "del" /\ promised' = promised
          /\ local' = [local EXCEPT ![key] = NoEntry]
      BY <2>5, <3>0 DEF LocalDelete
    <3>2. promised[key] = Revoked BY <1>t, <2>2, <3>0, <3>1 DEF FreshInv
    <3>3. local'[key] = NoEntry /\ \A k \in Keys : k # key => local'[k] = local[k]
      BY <1>t, <2>3, <3>1 DEF TypeOK
    <3>4. LeftOf(key)' = 0 BY <3>1, <3>2, <3>3 DEF LeftOf, Live, Revoked, Unissued, NoEntry
    <3>5. \A k \in Keys : k # key => LeftOf(k)' = LeftOf(k) BY <3>1, <3>3 DEF LeftOf, Live
    <3>6. \A k \in Keys : promised'[k] = Revoked <=> promised[k] = Revoked BY <3>1
    <3>7. Life!EndSession(key) BY <3>2, <3>4, <3>5, <3>6, LifeEnds
    <3> QED BY <3>7 DEF Life!LifeNext
  <2>6. CASE Purge(c)
    <3>1. pc[c] = "purge" /\ promised' = promised
          /\ local' = [local EXCEPT ![req[c].key] = NoEntry]
      BY <2>6 DEF Purge
    <3>2. Live(req[c].key) = 0 BY <1>t, <3>1 DEF StaleStays
    <3>3. \A k \in Keys : Live(k)' = Live(k) BY <1>t, <3>1, <3>2 DEF Live, NoEntry, TypeOK
    <3> QED BY <1>1, <3>1, <3>3
  <2>7. CASE LocalLookup(c) \/ Arm(c) \/ LocalExtend(c)
    <3>1. local' = local /\ promised' = promised
      BY <2>7 DEF LocalLookup, Arm, LocalExtend
    <3>2. \A k \in Keys : Live(k)' = Live(k) BY <3>1 DEF Live
    <3> QED BY <1>1, <3>1, <3>2
  <2>8. ~(SweepStart(c) \/ SweepEnd(c) \/ \E k \in Keys : Sweep(c, k))
    BY <1>o, <1>t, <2>3 DEF SweepStart, SweepEnd, Sweep, CallsInOrder
  <2> QED BY <2>1, <2>4, <2>5, <2>6, <2>7, <2>8 DEF LocalStep
\* A timer only fires after the deadline of what is stored.
<1>7. ASSUME NEW k \in Keys, TimerFire(k) PROVE UNCHANGED Life!lifeVars
  <2>1. timers[k][0] > 0 /\ local' = [local EXCEPT ![k] = NoEntry] /\ promised' = promised
    BY <1>7 DEF TimerFire, Fired
  <2>2. Live(k) = 0
    <3>1. 0 >= Live(k) BY <1>t, <1>z, <2>1 DEF TimerLate
    <3> QED BY <1>v, <1>z, <3>1
  <2>3. \A x \in Keys : local'[x] = IF x = k THEN NoEntry ELSE local[x]
    BY <1>t, <2>1 DEF TypeOK
  <2>4. \A x \in Keys : Live(x)' = Live(x) BY <2>2, <2>3 DEF Live, NoEntry
  <2> QED BY <1>1, <2>1, <2>4
<1>8. ASSUME \/ StartWithoutRedis \/ \E ok \in BOOLEAN : InitRedis(ok)
             \/ SaveStep \/ UNCHANGED vars
      PROVE  UNCHANGED Life!lifeVars
  <2>1. local' = local /\ promised' = promised
    BY <1>8 DEF StartWithoutRedis, InitRedis, SaveStep, SaveSkip, SaveAdmit, SaveLock,
       SaveVisit, SaveCommit, vars
  <2>2. \A k \in Keys : Live(k)' = Live(k) BY <2>1 DEF Live
  <2> QED BY <1>1, <2>1, <2>2
<1> QED BY <1>2, <1>3, <1>4, <1>5, <1>6, <1>7, <1>8 DEF Next

\* The local mode, with the calls the program makes and until the process exits, is an
\* implementation of SessionLife: a session is granted once, lasts for its lifetime or
\* until somebody asks to end it, and never comes back.
THEOREM KvImplementsLife == ASSUME OnlyLocal PROVE Spec => LifeSpec
<1>1. Init => Life!LifeInit
  BY DEF Init, Life!LifeInit, Unissued, Revoked
<1>2. LifeInv /\ [Next]_vars => LifeInv' BY LifeInvNext
<1>3. LifeInv /\ LifeInv' /\ [Next]_vars => [Life!LifeNext]_(Life!lifeVars) BY LifeStep
<1> QED BY <1>1, <1>2, <1>3, LifeInvInit, PTL DEF Spec, LifeSpec, Life!LifeSpec
=============================================================================
