------------------------------ MODULE KvProps ------------------------------
(***************************************************************************)
(* The properties of the session store KvStore.                            *)
(***************************************************************************)
EXTENDS KvStore

\* Type correctness of every variable of the store.
TypeOK ==
  /\ proc \in {"down", "init", "up"}
  /\ redisUp \in BOOLEAN /\ pinged \in BOOLEAN
  /\ redis \in [Keys -> 0..MaxTTL]
  /\ local \in [Keys -> -1..MaxTTL]
  /\ timers \in [Keys -> [0..MaxTTL -> Nat]]
  /\ file \in [Keys -> 0..MaxTTL]
  /\ spawned \in Nat /\ waiting \in Nat
  /\ saver \in {"none", "range", "commit"}
  /\ visit \in SUBSET Keys
  /\ snap \in [Keys -> 0..MaxTTL]
  /\ pc \in [Clients -> PCs]
  /\ req \in [Clients -> Requests \cup {NoReq}]
  /\ todo \in [Clients -> SUBSET Keys]
  /\ calls \in Nat /\ crashes \in Nat
  /\ promised \in [Keys -> -2..MaxTTL]

\* No entry of the local map is forgotten: whatever SetKey, ExtendKeyTTL or
\* loadCacheFromFile stored is covered by a pending timer at or after its deadline,
\* or by the client that stored it and is about to start that timer.
EntryHasTimer ==
  \A k \in Keys : local[k] # NoEntry =>
     \/ \E t \in 0..MaxTTL : t >= local[k] /\ timers[k][t] > 0
     \/ \E c \in Clients : /\ pc[c] = "arm"
                           /\ req[c].key = k
                           /\ req[c].ttl >= local[k]

\* Every save that the operations asked for is through.
Saved == SavesDone /\ proc = "up" /\ \A c \in Clients : pc[c] \notin {"arm", "swept"}

Live(k) == IF local[k] > 0 THEN local[k] ELSE 0

\* Once every save is through, the file holds exactly the live entries of the local map,
\* so an exit at that moment loses no session and brings none back.  The order in which
\* the saving goroutines get cacheMux and what they saw while others changed the map
\* must not matter.
FileInSync == Saved => \A k \in Keys : file[k] = Live(k)

\* With Redis and its failures the half of it that the users depend on: whatever falls
\* back to the local map is in the file, with its deadline, once the saves are through.
\* (What is deleted may stay there: a save is skipped while redisUp is set.)
FileKeeps == Saved => \A k \in Keys : Live(k) > 0 => file[k] = Live(k)

\* A session that was promised, has not been revoked and has not expired is held
\* somewhere: by Redis, by the local map or, between an exit and the restart, by the
\* file.  A failing Redis call must fall through to the local map, no clean-up may take
\* the entry early, and an exit may only cost what was still being saved.
PromiseHeld ==
  \A k \in Keys : promised[k] > 0 =>
     redis[k] > 0 \/ local[k] > 0 \/ (proc = "down" /\ file[k] > 0)

\* ... and where GetKey looks for it.
PromiseVisible ==
  \A k \in Keys : promised[k] > 0 => Visible(k) \/ Busy(k, {"set"})

\* The local mode keeps the promise of SessionLife to the users of the store.
Life == INSTANCE SessionLife WITH
          Tokens <- Keys, Lifetimes <- TTLs,
          left <- [k \in Keys |-> IF promised[k] = Unissued THEN -1
                                  ELSE IF local[k] > 0 THEN local[k] ELSE 0],
          asked <- {k \in Keys : promised[k] = Revoked}

LifeSpec == Life!LifeSpec

\* Every stored entry leaves the local map again: no session is kept for ever.
EntriesLeave == \A k \in Keys : local[k] # NoEntry ~> local[k] = NoEntry
=============================================================================
