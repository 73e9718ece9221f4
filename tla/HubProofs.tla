----------------------------- MODULE HubProofs -----------------------------
(***************************************************************************)
(* What TLC checks of small instances of WsHub and of NodeLink, proved for *)
(* every set of ids, connections, messages and senders.                    *)
(***************************************************************************)
EXTENDS NodeLink, TLAPS

---------------------------------------------------------------------------
(* Type correctness *)

LEMMA HubTypeInit == HubInit => HubTypeOK
BY HubConstants DEF HubInit, HubTypeOK

LEMMA HubTypeStep == HubTypeOK /\ [HubNext]_hubVars => HubTypeOK'
<1> SUFFICES ASSUME HubTypeOK, [HubNext]_hubVars
             PROVE  HubTypeOK'
  OBVIOUS
<1> USE HubConstants DEF HubTypeOK, hubVars, connVars, castVars
<1>1. ASSUME NEW c \in Conns, Upgrade(c) PROVE HubTypeOK'
  BY <1>1 DEF Upgrade
<1>2. ASSUME NEW c \in Conns, Register(c) PROVE HubTypeOK'
  BY <1>2 DEF Register
<1>3. ASSUME NEW c \in Conns, Deregister(c) PROVE HubTypeOK'
  BY <1>3 DEF Deregister, DeletedById
<1>4. ASSUME NEW c \in Conns, LinkStep(c) PROVE HubTypeOK'
  BY <1>4 DEF LinkStep, Break, Stall, Resume
<1>5. ASSUME NEW i \in Ids, CloseWebsocketConnection(i) PROVE HubTypeOK'
  BY <1>5 DEF CloseWebsocketConnection
<1>6. ASSUME NEW m \in Msgs, Call(m) PROVE HubTypeOK'
  BY <1>6 DEF Call
<1>7. ASSUME NEW m \in Msgs, Lock(m) PROVE HubTypeOK'
  BY <1>7 DEF Lock
<1>8. ASSUME NEW m \in Msgs, NEW i \in Ids, WriteStart(m, i) PROVE HubTypeOK'
  BY <1>8 DEF WriteStart
<1>9. ASSUME NEW m \in Msgs, WriteEnd(m) PROVE HubTypeOK'
  <2>1. at[m] \in Conns /\ at' \in [Msgs -> Conns \cup {None}]
    BY <1>9 DEF WriteEnd
  <2>2. Append(recv[at[m]], m) \in Seq(Msgs)
    BY <2>1
  <2>3. recv' \in [Conns -> Seq(Msgs)]
    BY <1>9, <2>1, <2>2 DEF WriteEnd
  <2> QED BY <1>9, <2>1, <2>3 DEF WriteEnd, OnError
<1>10. ASSUME NEW m \in Msgs, Unlock(m) PROVE HubTypeOK'
  BY <1>10 DEF Unlock
<1>11. CASE UNCHANGED hubVars
  BY <1>11
<1> QED BY <1>1, <1>2, <1>3, <1>4, <1>5, <1>6, <1>7, <1>8, <1>9, <1>10, <1>11
        DEF HubNext, HandlerStep, CastStep

\* The hub is type correct, for any number of clients and messages.
THEOREM HubTypeCorrect == HubSpec => []HubTypeOK
<1> QED BY HubTypeInit, HubTypeStep, PTL DEF HubSpec

---------------------------------------------------------------------------
(* The map *)

LEMMA ServedStep == HubTypeOK /\ EntryIsServed /\ [HubNext]_hubVars => EntryIsServed'
<1> SUFFICES ASSUME HubTypeOK, EntryIsServed, [HubNext]_hubVars
             PROVE  EntryIsServed'
  OBVIOUS
<1> USE HubConstants DEF HubTypeOK, EntryIsServed, Serving, hubVars, connVars, castVars
<1>1. ASSUME NEW c \in Conns, Upgrade(c) PROVE EntryIsServed'
  BY <1>1 DEF Upgrade
<1>2. ASSUME NEW c \in Conns, Register(c) PROVE EntryIsServed'
  BY <1>2 DEF Register
<1>3. ASSUME NEW c \in Conns, Deregister(c) PROVE EntryIsServed'
  BY <1>3 DEF Deregister, DeletedById
<1>4. ASSUME NEW c \in Conns, LinkStep(c) PROVE EntryIsServed'
  BY <1>4 DEF LinkStep, Break, Stall, Resume
<1>5. ASSUME NEW i \in Ids, CloseWebsocketConnection(i) PROVE EntryIsServed'
  BY <1>5 DEF CloseWebsocketConnection
<1>6. ASSUME NEW m \in Msgs, Call(m) PROVE EntryIsServed'
  BY <1>6 DEF Call
<1>7. ASSUME NEW m \in Msgs, Unlock(m) PROVE EntryIsServed'
  BY <1>7 DEF Unlock
<1>8. ASSUME NEW m \in Msgs, Lock(m) \/ WriteEnd(m) \/ \E i \in Ids : WriteStart(m, i)
      PROVE  EntryIsServed'
  BY <1>8 DEF Lock, WriteEnd, WriteStart
<1>9. CASE UNCHANGED hubVars
  BY <1>9
<1> QED BY <1>1, <1>2, <1>3, <1>4, <1>5, <1>6, <1>7, <1>8, <1>9
        DEF HubNext, HandlerStep, CastStep

\* No dead connection stays in the map, also when connections share an id.
THEOREM HubEntryIsServed == HubSpec => []EntryIsServed
<1>1. HubInit => EntryIsServed
  BY DEF HubInit, EntryIsServed
<1> QED BY <1>1, HubTypeCorrect, ServedStep, PTL DEF HubSpec

\* A handler whose relayed message is under way waits for it.
RelayersWait ==
  \A m \in Msgs : From[m] # None /\ cast[m] \in {"called", "locked"}
                     => handler[From[m]] = "relaying"

\* ... and for one message only.
OneRelayEach ==
  \A m, n \in Msgs :
     From[m] # None /\ From[m] = From[n]
       /\ cast[m] \in {"called", "locked"} /\ cast[n] \in {"called", "locked"}
     => m = n

RegisteredInv == HubTypeOK /\ RelayersWait /\ OneRelayEach /\ LiveIsRegistered

LEMMA RelayStep ==
  HubTypeOK /\ RelayersWait /\ OneRelayEach /\ [HubNext]_hubVars => (RelayersWait /\ OneRelayEach)'
<1> SUFFICES ASSUME HubTypeOK, RelayersWait, OneRelayEach, [HubNext]_hubVars
             PROVE  (RelayersWait /\ OneRelayEach)'
  OBVIOUS
<1> USE HubConstants DEF HubTypeOK, RelayersWait, OneRelayEach, hubVars, connVars, castVars
<1>1. ASSUME NEW c \in Conns, Upgrade(c) PROVE (RelayersWait /\ OneRelayEach)'
  BY <1>1 DEF Upgrade
<1>2. ASSUME NEW c \in Conns, Register(c) PROVE (RelayersWait /\ OneRelayEach)'
  BY <1>2 DEF Register
<1>3. ASSUME NEW c \in Conns, Deregister(c) PROVE (RelayersWait /\ OneRelayEach)'
  BY <1>3 DEF Deregister
<1>4. ASSUME NEW m \in Msgs, Call(m) PROVE (RelayersWait /\ OneRelayEach)'
  <2>1. RelayersWait'
    BY <1>4 DEF Call
  <2>2. OneRelayEach'
    BY <1>4 DEF Call
  <2> QED BY <2>1, <2>2
<1>5. ASSUME NEW m \in Msgs, Lock(m) PROVE (RelayersWait /\ OneRelayEach)'
  BY <1>5 DEF Lock
<1>6. ASSUME NEW m \in Msgs, Unlock(m) PROVE (RelayersWait /\ OneRelayEach)'
  <2>1. RelayersWait'
    BY <1>6 DEF Unlock
  <2>2. OneRelayEach'
    BY <1>6 DEF Unlock
  <2> QED BY <2>1, <2>2
<1>7. ASSUME UNCHANGED <<handler, cast>> PROVE (RelayersWait /\ OneRelayEach)'
  BY <1>7
<1>8. ASSUME NEW c \in Conns, LinkStep(c) PROVE UNCHANGED <<handler, cast>>
  BY <1>8 DEF LinkStep, Break, Stall, Resume
<1>9. ASSUME NEW i \in Ids, CloseWebsocketConnection(i) PROVE UNCHANGED <<handler, cast>>
  BY <1>9 DEF CloseWebsocketConnection
<1>10. ASSUME NEW m \in Msgs, WriteEnd(m) \/ \E i \in Ids : WriteStart(m, i)
       PROVE  UNCHANGED <<handler, cast>>
  BY <1>10 DEF WriteEnd, WriteStart
<1> QED BY <1>1, <1>2, <1>3, <1>4, <1>5, <1>6, <1>7, <1>8, <1>9, <1>10
        DEF HubNext, HandlerStep, CastStep

LEMMA RegisteredStep ==
  ASSUME \A c, d \in Conns : IdOf[c] = IdOf[d] => c = d
  PROVE  HubTypeOK /\ RelayersWait /\ LiveIsRegistered /\ [HubNext]_hubVars
            => LiveIsRegistered'
<1> SUFFICES ASSUME HubTypeOK, RelayersWait, LiveIsRegistered, [HubNext]_hubVars
             PROVE  LiveIsRegistered'
  OBVIOUS
<1> USE HubConstants DEF HubTypeOK, LiveIsRegistered, Serving, Up, hubVars, connVars, castVars
<1>1. ASSUME NEW c \in Conns, Upgrade(c) PROVE LiveIsRegistered'
  BY <1>1 DEF Upgrade
<1>2. ASSUME NEW c \in Conns, Register(c) PROVE LiveIsRegistered'
  BY <1>2 DEF Register
<1>3. ASSUME NEW c \in Conns, Deregister(c) PROVE LiveIsRegistered'
  BY <1>3 DEF Deregister, DeletedById
<1>4. ASSUME NEW c \in Conns, LinkStep(c) PROVE LiveIsRegistered'
  BY <1>4 DEF LinkStep, Break, Stall, Resume
<1>5. ASSUME NEW i \in Ids, CloseWebsocketConnection(i) PROVE LiveIsRegistered'
  BY <1>5 DEF CloseWebsocketConnection
<1>6. ASSUME NEW m \in Msgs, Call(m) PROVE LiveIsRegistered'
  BY <1>6 DEF Call
<1>7. ASSUME NEW m \in Msgs, Unlock(m) PROVE LiveIsRegistered'
  BY <1>7 DEF Unlock, RelayersWait
<1>8. ASSUME NEW m \in Msgs, Lock(m) \/ WriteEnd(m) \/ \E i \in Ids : WriteStart(m, i)
      PROVE  LiveIsRegistered'
  BY <1>8 DEF Lock, WriteEnd, WriteStart
<1>9. CASE UNCHANGED hubVars
  BY <1>9
<1> QED BY <1>1, <1>2, <1>3, <1>4, <1>5, <1>6, <1>7, <1>8, <1>9
        DEF HubNext, HandlerStep, CastStep

\* If every connection has an id of its own, as the dashboards have, every connection
\* that is up and served is in the map, so that broadcasts reach it.
THEOREM HubLiveIsRegistered ==
  ASSUME \A c, d \in Conns : IdOf[c] = IdOf[d] => c = d
  PROVE  HubSpec => []LiveIsRegistered
<1>1. HubInit => RegisteredInv
  <2> SUFFICES ASSUME HubInit PROVE RegisteredInv
    OBVIOUS
  <2>0. \A m \in Msgs : cast[m] \notin {"called", "locked"}
    BY DEF HubInit
  <2>1. RelayersWait /\ OneRelayEach
    BY <2>0 DEF RelayersWait, OneRelayEach
  <2>2. LiveIsRegistered
    BY DEF HubInit, LiveIsRegistered, Serving
  <2> QED BY <2>1, <2>2, HubTypeInit DEF RegisteredInv
<1>2. RegisteredInv /\ [HubNext]_hubVars => RegisteredInv'
  BY HubTypeStep, RelayStep, RegisteredStep DEF RegisteredInv
<1>3. RegisteredInv => LiveIsRegistered
  BY DEF RegisteredInv
<1> QED BY <1>1, <1>2, <1>3, PTL DEF HubSpec

---------------------------------------------------------------------------
(* The mutex *)

\* One message is written at a time, and only by the holder of the mutex.
OneHolder == \A m, n \in Msgs : cast[m] = "locked" /\ cast[n] = "locked" => m = n
WritersHold == \A m \in Msgs : at[m] # None => cast[m] = "locked"
MutexInv == HubTypeOK /\ OneHolder /\ WritersHold

LEMMA MutexStep == MutexInv /\ [HubNext]_hubVars => MutexInv'
<1> SUFFICES ASSUME MutexInv, [HubNext]_hubVars
             PROVE  (OneHolder /\ WritersHold)'
  BY HubTypeStep DEF MutexInv
<1> USE DEF MutexInv, HubTypeOK, OneHolder, WritersHold, hubVars, connVars, castVars
<1>1. ASSUME NEW m \in Msgs, Call(m) PROVE (OneHolder /\ WritersHold)'
  BY <1>1 DEF Call
<1>2. ASSUME NEW m \in Msgs, Lock(m) PROVE (OneHolder /\ WritersHold)'
  BY <1>2 DEF Lock, MutexFree
<1>3. ASSUME NEW m \in Msgs, NEW i \in Ids, WriteStart(m, i) PROVE (OneHolder /\ WritersHold)'
  BY <1>3 DEF WriteStart
<1>4. ASSUME NEW m \in Msgs, WriteEnd(m) PROVE (OneHolder /\ WritersHold)'
  BY <1>4 DEF WriteEnd
<1>5. ASSUME NEW m \in Msgs, Unlock(m) PROVE (OneHolder /\ WritersHold)'
  BY <1>5 DEF Unlock
<1>6. ASSUME UNCHANGED castVars PROVE (OneHolder /\ WritersHold)'
  BY <1>6
<1>7. ASSUME NEW c \in Conns, Upgrade(c) \/ HandlerStep(c) \/ LinkStep(c) PROVE UNCHANGED castVars
  BY <1>7 DEF Upgrade, HandlerStep, Register, Deregister, LinkStep, Break, Stall, Resume
<1>8. ASSUME NEW i \in Ids, CloseWebsocketConnection(i) PROVE UNCHANGED castVars
  BY <1>8 DEF CloseWebsocketConnection
<1> QED BY <1>1, <1>2, <1>3, <1>4, <1>5, <1>6, <1>7, <1>8 DEF HubNext, CastStep

\* No two goroutines of the hub ever write at the same time, so the library has no
\* reason to panic.
THEOREM HubOneWriter == HubSpec => []OneWriter
<1>1. HubInit => MutexInv
  BY HubTypeInit DEF HubInit, MutexInv, OneHolder, WritersHold
<1>2. MutexInv => OneWriter
  BY DEF MutexInv, OneHolder, WritersHold, OneWriter
<1> QED BY <1>1, <1>2, MutexStep, PTL DEF HubSpec

---------------------------------------------------------------------------
(* The order of the messages *)

\* What appending a message to what a peer was sent changes.
LEMMA AppendedLast ==
  ASSUME NEW s \in Seq(Msgs), NEW m \in Msgs
  PROVE  /\ DOMAIN Append(s, m) = 1..(Len(s) + 1) /\ DOMAIN s = 1..Len(s) /\ Len(s) \in Nat
         /\ \A x \in DOMAIN s : Append(s, m)[x] = s[x]
         /\ Append(s, m)[Len(s) + 1] = m
OBVIOUS

\* Only messages whose loop has begun were sent to anybody, and nothing was sent to a
\* peer after the message whose loop is under way.
NoneAfterLocked ==
  \A c \in Conns : \A x \in DOMAIN recv[c] :
     /\ cast[recv[c][x]] \in {"locked", "sent"}
     /\ cast[recv[c][x]] = "locked" =>
           \A y \in DOMAIN recv[c] : x < y => recv[c][y] = recv[c][x]

OrderInv == MutexInv /\ NoneAfterLocked /\ SameOrder

LEMMA OrderStep == OrderInv /\ [HubNext]_hubVars => (NoneAfterLocked /\ SameOrder)'
<1> SUFFICES ASSUME OrderInv, [HubNext]_hubVars PROVE (NoneAfterLocked /\ SameOrder)'
  OBVIOUS
<1> USE DEF hubVars, connVars, castVars
<1>t. HubTypeOK /\ OneHolder /\ WritersHold /\ NoneAfterLocked /\ SameOrder
  BY DEF OrderInv, MutexInv
<1>r. ASSUME NEW c \in Conns, NEW x \in DOMAIN recv[c] PROVE recv[c][x] \in Msgs
  BY <1>t DEF HubTypeOK
\* Of the steps that send nothing, only one that locks a message could matter, and that
\* message was sent to nobody yet.
<1>1. ASSUME recv' = recv,
             \A m \in Msgs : \/ cast'[m] = cast[m]
                             \/ cast[m] \notin {"locked", "sent"}
                             \/ cast'[m] = "sent"
      PROVE  (NoneAfterLocked /\ SameOrder)'
  <2>1. SameOrder' BY <1>1, <1>t DEF SameOrder, Before
  <2>2. ASSUME NEW c \in Conns, NEW x \in DOMAIN recv[c]
        PROVE  /\ cast'[recv[c][x]] \in {"locked", "sent"}
               /\ cast'[recv[c][x]] = "locked" => cast[recv[c][x]] = "locked"
    <3>1. recv[c][x] \in Msgs /\ cast[recv[c][x]] \in {"locked", "sent"}
      BY <1>r, <1>t DEF NoneAfterLocked
    <3> QED BY <1>1, <3>1
  <2>3. NoneAfterLocked' BY <1>1, <1>t, <2>2 DEF NoneAfterLocked
  <2> QED BY <2>1, <2>3
<1>2. ASSUME NEW m \in Msgs, Call(m) \/ Lock(m) \/ Unlock(m) \/ \E i \in Ids : WriteStart(m, i)
      PROVE  /\ recv' = recv
             /\ \A n \in Msgs : \/ cast'[n] = cast[n]
                                \/ cast[n] \notin {"locked", "sent"}
                                \/ cast'[n] = "sent"
  BY <1>2, <1>t DEF Call, Lock, Unlock, WriteStart, HubTypeOK
<1>3. ASSUME NEW c \in Conns, Upgrade(c) \/ HandlerStep(c) \/ LinkStep(c) PROVE UNCHANGED castVars
  BY <1>3 DEF Upgrade, HandlerStep, Register, Deregister, LinkStep, Break, Stall, Resume
<1>4. ASSUME NEW i \in Ids, CloseWebsocketConnection(i) PROVE UNCHANGED castVars
  BY <1>4 DEF CloseWebsocketConnection
<1>5. ASSUME NEW m \in Msgs, WriteEnd(m), recv' # recv PROVE (NoneAfterLocked /\ SameOrder)'
  <2> PICK e \in Conns : e = at[m] BY <1>5, <1>t DEF WriteEnd, HubTypeOK
  <2>0. recv[e] \in Seq(Msgs) BY <1>t DEF HubTypeOK
  <2>1. /\ cast' = cast /\ cast[m] = "locked"
        /\ recv'[e] = Append(recv[e], m)
        /\ \A c \in Conns : c # e => recv'[c] = recv[c]
    BY <1>5, <1>t DEF WriteEnd, WritersHold, HubTypeOK
  <2>2. /\ DOMAIN recv'[e] = 1..(Len(recv[e]) + 1) /\ DOMAIN recv[e] = 1..Len(recv[e])
        /\ Len(recv[e]) \in Nat
        /\ \A x \in DOMAIN recv[e] : recv'[e][x] = recv[e][x]
        /\ recv'[e][Len(recv[e]) + 1] = m
    BY <2>0, <2>1, AppendedLast
  <2>3. ASSUME NEW x \in DOMAIN recv'[e], x \notin DOMAIN recv[e]
        PROVE  recv'[e][x] = m /\ x = Len(recv[e]) + 1
    BY <2>2, <2>3
  <2>4. NoneAfterLocked'
    <3> SUFFICES ASSUME NEW c \in Conns, NEW x \in DOMAIN recv'[c]
                 PROVE  /\ cast[recv'[c][x]] \in {"locked", "sent"}
                        /\ cast[recv'[c][x]] = "locked" =>
                             \A y \in DOMAIN recv'[c] : x < y => recv'[c][y] = recv'[c][x]
      BY <2>1 DEF NoneAfterLocked
    <3>1. CASE c # e BY <1>t, <2>1, <3>1 DEF NoneAfterLocked
    <3>2. CASE c = e /\ x \notin DOMAIN recv[e]
      BY <2>1, <2>2, <2>3, <3>2
    <3>3. CASE c = e /\ x \in DOMAIN recv[e]
      <4>1. recv'[e][x] = recv[e][x] /\ recv[e][x] \in Msgs /\ cast[recv[e][x]] \in {"locked", "sent"}
        BY <1>r, <1>t, <2>2, <3>3 DEF NoneAfterLocked
      <4>2. ASSUME cast[recv[e][x]] = "locked", NEW y \in DOMAIN recv'[e], x < y
            PROVE  recv'[e][y] = recv'[e][x]
        <5>1. recv[e][x] = m BY <1>t, <2>1, <4>1, <4>2 DEF OneHolder
        <5>2. CASE y \in DOMAIN recv[e]
          BY <1>t, <2>2, <3>3, <4>1, <4>2, <5>2 DEF NoneAfterLocked
        <5>3. CASE y \notin DOMAIN recv[e] BY <2>3, <4>1, <5>1, <5>3
        <5> QED BY <5>2, <5>3
      <4> QED BY <3>3, <4>1, <4>2
    <3> QED BY <3>1, <3>2, <3>3
  \* Appending m makes it follow what is there, and nothing follows m anywhere else.
  <2>5. ASSUME NEW c \in Conns, NEW p \in Msgs, NEW n \in Msgs, Before(p, n, recv[c])'
        PROVE  Before(p, n, recv[c]) \/ n = m
    <3>1. CASE c # e BY <2>1, <2>5, <3>1 DEF Before
    <3>2. CASE c = e
      <4>1. PICK x \in DOMAIN recv'[e], y \in DOMAIN recv'[e] :
              x < y /\ recv'[e][x] = p /\ recv'[e][y] = n
        BY <2>5, <3>2 DEF Before
      <4>2. CASE y \notin DOMAIN recv[e] BY <2>3, <4>1, <4>2
      <4>3. CASE y \in DOMAIN recv[e]
        <5>1. x \in DOMAIN recv[e] BY <2>2, <4>1, <4>3
        <5> QED BY <2>2, <3>2, <4>1, <4>3, <5>1 DEF Before
      <4> QED BY <4>2, <4>3
    <3> QED BY <3>1, <3>2
  <2>6. ASSUME NEW c \in Conns, NEW n \in Msgs, Before(m, n, recv[c]) PROVE n = m
    BY <1>t, <2>1, <2>6 DEF Before, NoneAfterLocked
  <2>7. SameOrder'
    <3> SUFFICES ASSUME NEW c \in Conns, NEW d \in Conns, NEW p \in Msgs, NEW n \in Msgs, p # n,
                        Before(p, n, recv[c])', Before(n, p, recv[d])'
                 PROVE  FALSE
      BY DEF SameOrder
    <3>1. Before(p, n, recv[c]) \/ n = m BY <2>5
    <3>2. Before(n, p, recv[d]) \/ p = m BY <2>5
    <3> QED BY <1>t, <2>6, <3>1, <3>2 DEF SameOrder
  <2> QED BY <2>4, <2>7
<1>6. ASSUME NEW m \in Msgs, WriteEnd(m) PROVE cast' = cast
  BY <1>6 DEF WriteEnd
<1>7. CASE UNCHANGED castVars BY <1>1, <1>7
<1> QED BY <1>1, <1>2, <1>3, <1>4, <1>5, <1>6, <1>7 DEF HubNext, CastStep

\* All peers see concurrent messages in the same order, for any number of messages,
\* connections and failures: the loops over the map exclude each other.
THEOREM HubSameOrder == HubSpec => []SameOrder
<1>1. HubInit => OrderInv
  <2> SUFFICES ASSUME HubInit PROVE OrderInv OBVIOUS
  <2>1. MutexInv
    BY HubTypeInit DEF HubInit, MutexInv, OneHolder, WritersHold
  <2>2. \A c \in Conns : DOMAIN recv[c] = {} BY DEF HubInit
  <2> QED BY <2>1, <2>2 DEF OrderInv, NoneAfterLocked, SameOrder, Before
<1>2. OrderInv /\ [HubNext]_hubVars => OrderInv'
  BY MutexStep, OrderStep DEF OrderInv
<1>3. OrderInv => SameOrder BY DEF OrderInv
<1> QED BY <1>1, <1>2, <1>3, PTL DEF HubSpec

---------------------------------------------------------------------------
(* The link between a node and the master: its view of a node comes over   *)
(* one connection at a time.                                               *)

LinkTypes ==
  /\ link \in [Conns -> {"none", "ok", "stalled", "broken"}]
  /\ where \in [Ids -> {"idle", "dialled", "reading"}]
  /\ conn \in [Ids -> Conns \cup {None}]

\* Where a node is not dialling, it holds a connection of its own, which was upgraded.
HoldsOwn ==
  \A n \in Ids : where[n] # "idle" =>
     conn[n] \in Conns /\ IdOf[conn[n]] = n /\ link[conn[n]] # "none"

\* A connection that is up is the one its node holds.
UpIsHeld == \A c \in Conns : Up(c) => where[IdOf[c]] # "idle" /\ conn[IdOf[c]] = c

LinkInv == LinkTypes /\ HoldsOwn /\ UpIsHeld

LEMMA LinkInvInit == LinkInit => LinkInv
<1> SUFFICES ASSUME LinkInit PROVE LinkInv
  OBVIOUS
<1>1. LinkTypes
  BY DEF LinkInit, HubInit, LinkTypes
<1>2. HoldsOwn
  BY DEF LinkInit, HoldsOwn
<1>3. UpIsHeld
  BY DEF LinkInit, HubInit, UpIsHeld, Up
<1> QED BY <1>1, <1>2, <1>3 DEF LinkInv

LEMMA LinkInvStep == LinkInv /\ [LinkNext]_linkVars => LinkInv'
<1> SUFFICES ASSUME LinkInv, [LinkNext]_linkVars
             PROVE  LinkInv'
  OBVIOUS
<1> USE HubConstants DEF LinkInv, LinkTypes, HoldsOwn, UpIsHeld, Up
<1>1. ASSUME UNCHANGED <<link, where, conn>> PROVE LinkInv'
  BY <1>1
<1>2. ASSUME NEW n \in Ids, NEW c \in Conns, Dial(n, c) PROVE LinkInv'
  BY <1>2 DEF Dial, Upgrade
<1>3. ASSUME NEW n \in Ids, Adopt(n) PROVE LinkInv'
  BY <1>3 DEF Adopt, hubVars, connVars
<1>4. ASSUME NEW n \in Ids, ReadError(n) PROVE LinkInv'
  BY <1>4 DEF ReadError, Closed
<1>5. ASSUME NEW n \in Ids, Dies(n) PROVE LinkInv'
  <2>1. CASE where[n] = "idle"
    BY <1>5, <2>1 DEF Dies
  <2>2. CASE where[n] # "idle"
    BY <1>5, <2>2 DEF Dies, Closed
  <2> QED BY <2>1, <2>2
<1>6. ASSUME NEW c \in Conns, Network(c) PROVE LinkInv'
  BY <1>6 DEF Network, Break, Stall, Resume, nodeVars
<1>7. ASSUME NEW n \in Ids, Collect(n) PROVE UNCHANGED <<link, where, conn>>
  BY <1>7 DEF Collect, hubVars, connVars, nodeVars
<1>8. ASSUME NEW g \in Senders, SendStart(g) \/ SendEnd(g) PROVE UNCHANGED <<link, where, conn>>
  BY <1>8 DEF SendStart, SendEnd, hubVars, connVars, nodeVars
<1>9. ASSUME NEW c \in Conns, Push(c) PROVE UNCHANGED <<link, where, conn>>
  BY <1>9 DEF Push, hubVars, connVars
<1>10. ASSUME NEW c \in Conns, MasterStep(c) PROVE UNCHANGED <<link, where, conn>>
  BY <1>10 DEF MasterStep, Deliver, Register, Deregister, hubVars, connVars, nodeVars
<1>11. CASE UNCHANGED linkVars
  BY <1>11 DEF linkVars, hubVars, connVars, nodeVars
<1> QED BY <1>1, <1>2, <1>3, <1>4, <1>5, <1>6, <1>7, <1>8, <1>9, <1>10, <1>11
        DEF LinkNext, NodeRestart, Panic

\* A node never has two working connections, whatever order dialling, read errors,
\* restarts and panics come in.
THEOREM LinkOneLiveLink == LinkSpec => []OneLiveLink
<1>1. LinkInv => OneLiveLink
  BY HubConstants DEF LinkInv, UpIsHeld, OneLiveLink
<1> QED BY <1>1, LinkInvInit, LinkInvStep, PTL DEF LinkSpec

\* Every step of the link is a step of the master's hub or leaves it alone: what the
\* nodes add, read errors, restarts and panics, is to the hub a connection that breaks.
LEMMA LinkStepIsHubStep == LinkInv /\ [LinkNext]_linkVars => [HubNext]_hubVars
<1> SUFFICES ASSUME LinkInv, [LinkNext]_linkVars
             PROVE  [HubNext]_hubVars
  OBVIOUS
<1> USE DEF hubVars
<1>1. ASSUME NEW c \in Conns, link' = Closed(c), link[c] # "none", UNCHANGED <<clients, handler, castVars>>
      PROVE  [HubNext]_hubVars
  <2>1. CASE Up(c)
    BY <1>1, <2>1 DEF HubNext, LinkStep, Break, Closed
  <2>2. CASE ~Up(c)
    <3>1. link \in [Conns -> {"none", "ok", "stalled", "broken"}] BY DEF LinkInv, LinkTypes
    <3>2. link[c] = "broken" BY <1>1, <2>2, <3>1 DEF Up
    <3>3. link' = link BY <1>1, <3>1, <3>2 DEF Closed
    <3> QED BY <1>1, <3>3 DEF connVars
  <2> QED BY <2>1, <2>2
<1>2. ASSUME NEW n \in Ids, where[n] # "idle" PROVE conn[n] \in Conns /\ link[conn[n]] # "none"
  BY <1>2 DEF LinkInv, HoldsOwn
<1>3. ASSUME NEW n \in Ids, NEW c \in Conns, Dial(n, c) PROVE [HubNext]_hubVars
  BY <1>3 DEF Dial, HubNext
<1>4. ASSUME NEW n \in Ids, ReadError(n) PROVE [HubNext]_hubVars
  <2>1. where[n] # "idle" /\ link' = Closed(conn[n]) /\ UNCHANGED <<clients, handler, castVars>>
    BY <1>4 DEF ReadError
  <2> QED BY <1>1, <1>2, <2>1
<1>5. ASSUME NEW n \in Ids, Dies(n) PROVE [HubNext]_hubVars
  <2>1. CASE where[n] = "idle"
    BY <1>5, <2>1 DEF Dies, connVars
  <2>2. CASE where[n] # "idle"
    <3>1. link' = Closed(conn[n]) /\ UNCHANGED <<clients, handler, castVars>>
      BY <1>5, <2>2 DEF Dies
    <3> QED BY <1>1, <1>2, <2>2, <3>1
  <2> QED BY <2>1, <2>2
<1>6. ASSUME NEW c \in Conns, Network(c) PROVE [HubNext]_hubVars
  BY <1>6 DEF Network, LinkStep, HubNext
<1>7. ASSUME NEW c \in Conns, MasterStep(c) PROVE [HubNext]_hubVars
  BY <1>7 DEF MasterStep, Deliver, HandlerStep, HubNext
<1>8. ASSUME NEW n \in Ids, Adopt(n) \/ Collect(n) PROVE [HubNext]_hubVars
  BY <1>8 DEF Adopt, Collect
<1>9. ASSUME NEW g \in Senders, SendStart(g) \/ SendEnd(g) PROVE [HubNext]_hubVars
  BY <1>9 DEF SendStart, SendEnd
<1>10. ASSUME NEW c \in Conns, Push(c) PROVE [HubNext]_hubVars
  BY <1>10 DEF Push
<1>11. CASE UNCHANGED linkVars
  BY <1>11 DEF linkVars
<1> QED BY <1>3, <1>4, <1>5, <1>6, <1>7, <1>8, <1>9, <1>10, <1>11
        DEF LinkNext, NodeRestart, Panic

\* The master's side of the link implements the hub: what holds of the hub alone holds
\* of it with nodes that dial, restart, panic and leave connections behind.
THEOREM LinkImplementsHub == LinkSpec => HubSpec
<1>1. LinkInit => HubInit BY DEF LinkInit
<1> QED BY <1>1, LinkInvInit, LinkInvStep, LinkStepIsHubStep, PTL DEF LinkSpec, HubSpec

\* So no connection that a node left behind stays in the master's map, although all
\* connections of a node are entered under one id.
THEOREM LinkEntryIsServed == LinkSpec => []EntryIsServed
BY LinkImplementsHub, HubEntryIsServed, PTL

---------------------------------------------------------------------------
(* What the master knows of a node, it was told: lost tails, overtaking,   *)
(* restarts and panics make its view old, never wrong.                     *)

Reports == [conn : Conns, val : Nat, writing : {"no", "alone", "clash"}]

LinkData ==
  /\ version \in [Ids -> Nat] /\ view \in [Ids -> Nat]
  /\ wire \in [Conns -> Seq(Nat)]
  /\ out \in [Senders -> {None} \cup Reports]
  /\ masterConn \in [Ids -> Conns \cup {None}]

\* The connection a node sends on leads to its own entry.
SendsAsItself == \A n \in Ids : masterConn[n] # None => IdOf[masterConn[n]] = n

\* Neither the master nor a message under way nor a sender is ahead of the node.
ViewIsPast == \A n \in Ids : view[n] <= version[n]
WireIsPast == \A c \in Conns : \A x \in DOMAIN wire[c] : wire[c][x] <= version[IdOf[c]]
OutIsPast == \A g \in Senders : out[g] # None => out[g].val <= version[IdOf[out[g].conn]]

PastInv == LinkInv /\ LinkData /\ SendsAsItself /\ ViewIsPast /\ WireIsPast /\ OutIsPast

\* What losing the tail of a connection, or its first message, leaves on it.
LEMMA PartsOfAWire ==
  ASSUME NEW s \in Seq(Nat)
  PROVE  /\ \A k \in 0 .. Len(s) : /\ SubSeq(s, 1, k) \in Seq(Nat)
                                   /\ DOMAIN SubSeq(s, 1, k) = 1 .. k
                                   /\ \A x \in 1 .. k : SubSeq(s, 1, k)[x] = s[x]
         /\ s # <<>> => /\ Head(s) = s[1] /\ 1 \in DOMAIN s /\ Tail(s) \in Seq(Nat)
                        /\ \A x \in DOMAIN Tail(s) : x + 1 \in DOMAIN s /\ Tail(s)[x] = s[x + 1]
         /\ \A v \in Nat : /\ Append(s, v) \in Seq(Nat)
                           /\ \A x \in DOMAIN Append(s, v) :
                                 Append(s, v)[x] = v \/ (x \in DOMAIN s /\ Append(s, v)[x] = s[x])
<1>1. ASSUME NEW k \in 0 .. Len(s)
      PROVE  /\ SubSeq(s, 1, k) \in Seq(Nat) /\ DOMAIN SubSeq(s, 1, k) = 1 .. k
             /\ \A x \in 1 .. k : SubSeq(s, 1, k)[x] = s[x]
  OBVIOUS
<1>2. ASSUME s # <<>>
      PROVE  /\ Head(s) = s[1] /\ 1 \in DOMAIN s /\ Tail(s) \in Seq(Nat)
             /\ \A x \in DOMAIN Tail(s) : x + 1 \in DOMAIN s /\ Tail(s)[x] = s[x + 1]
  BY <1>2
<1>3. ASSUME NEW v \in Nat
      PROVE  /\ Append(s, v) \in Seq(Nat)
             /\ \A x \in DOMAIN Append(s, v) :
                   Append(s, v)[x] = v \/ (x \in DOMAIN s /\ Append(s, v)[x] = s[x])
  OBVIOUS
<1> QED BY <1>1, <1>2, <1>3

LEMMA PastInit == LinkInit => PastInv
<1> SUFFICES ASSUME LinkInit PROVE PastInv
  OBVIOUS
<1>1. LinkData /\ SendsAsItself /\ ViewIsPast /\ OutIsPast
  BY DEF LinkInit, LinkData, SendsAsItself, ViewIsPast, OutIsPast
<1>2. \A c \in Conns : wire[c] = <<>>
  BY DEF LinkInit
<1>3. WireIsPast BY <1>2 DEF WireIsPast
<1> QED BY <1>1, <1>3, LinkInvInit DEF PastInv

\* A step that reports nothing keeps everybody behind: the wire only loses messages.
LEMMA PastFrame ==
  ASSUME PastInv, UNCHANGED <<version, view>>,
         wire' = wire \/ \E c \in Conns : LoseTail(c),
         \A g \in Senders : out'[g] = out[g] \/ out'[g] = None,
         \A n \in Ids : \/ masterConn'[n] = masterConn[n] \/ masterConn'[n] = None
                        \/ masterConn'[n] = conn[n] /\ where[n] # "idle",
         out' \in [Senders -> {None} \cup Reports],
         masterConn' \in [Ids -> Conns \cup {None}]
  PROVE  (LinkData /\ SendsAsItself /\ ViewIsPast /\ WireIsPast /\ OutIsPast)'
<1>t. LinkInv /\ LinkData /\ SendsAsItself /\ ViewIsPast /\ WireIsPast /\ OutIsPast BY DEF PastInv
<1>o. \A n \in Ids : where[n] # "idle" => conn[n] \in Conns /\ IdOf[conn[n]] = n
  BY <1>t DEF LinkInv, HoldsOwn
<1>1. wire' \in [Conns -> Seq(Nat)] /\ WireIsPast'
  <2>1. CASE wire' = wire BY <1>t, <2>1 DEF LinkData, WireIsPast
  <2>2. ASSUME NEW c \in Conns, NEW k \in 0 .. Len(wire[c]),
               wire' = [wire EXCEPT ![c] = SubSeq(@, 1, k)]
        PROVE  wire' \in [Conns -> Seq(Nat)] /\ WireIsPast'
    <3>1. wire \in [Conns -> Seq(Nat)] /\ wire[c] \in Seq(Nat) BY <1>t DEF LinkData
    <3>2. /\ wire'[c] = SubSeq(wire[c], 1, k) /\ wire'[c] \in Seq(Nat)
          /\ DOMAIN wire'[c] = 1 .. k /\ \A x \in 1 .. k : wire'[c][x] = wire[c][x]
          /\ 1 .. k \subseteq DOMAIN wire[c]
      BY <2>2, <3>1, PartsOfAWire
    <3>3. \A d \in Conns : d # c => wire'[d] = wire[d] BY <2>2, <3>1
    <3>4. wire' \in [Conns -> Seq(Nat)] BY <2>2, <3>1, <3>2
    <3>5. ASSUME NEW d \in Conns, NEW x \in DOMAIN wire'[d] PROVE wire'[d][x] <= version'[IdOf[d]]
      <4>1. x \in DOMAIN wire[d] /\ wire'[d][x] = wire[d][x] BY <3>2, <3>3, <3>5
      <4> QED BY <4>1, <1>t DEF WireIsPast
    <3> QED BY <3>4, <3>5 DEF WireIsPast
  <2> QED BY <2>1, <2>2 DEF LoseTail
<1>2. OutIsPast' BY <1>t DEF OutIsPast
<1>3. SendsAsItself' BY <1>t, <1>o DEF SendsAsItself
<1> QED BY <1>t, <1>1, <1>2, <1>3 DEF LinkData, ViewIsPast

\* A goroutine that is started for a connection carries what its node has.
LEMMA PastSpawn ==
  ASSUME PastInv, NEW c \in Conns, NEW v \in Nat, Spawn(c, v), v <= version'[IdOf[c]],
         version' \in [Ids -> Nat], \A n \in Ids : version[n] <= version'[n],
         UNCHANGED <<view, wire, masterConn>>
  PROVE  (LinkData /\ SendsAsItself /\ ViewIsPast /\ WireIsPast /\ OutIsPast)'
<1>t. LinkInv /\ LinkData /\ SendsAsItself /\ ViewIsPast /\ WireIsPast /\ OutIsPast BY DEF PastInv
<1>i. IdOf \in [Conns -> Ids] /\ None \notin Conns BY HubConstants
<1>1. PICK g \in Senders : out' = [out EXCEPT ![g] = [conn |-> c, val |-> v, writing |-> "no"]]
  BY DEF Spawn
<1>2. /\ out'[g].conn = c /\ out'[g].val = v
      /\ \A h \in Senders : h # g => out'[h] = out[h]
      /\ out' \in [Senders -> {None} \cup Reports]
  BY <1>1, <1>t DEF LinkData, Reports
<1>3. LinkData' BY <1>t, <1>2 DEF LinkData
<1>4. ViewIsPast'
  <2> SUFFICES ASSUME NEW n \in Ids PROVE view[n] <= version'[n] BY DEF ViewIsPast
  <2>1. view[n] \in Nat /\ version[n] \in Nat /\ version'[n] \in Nat BY <1>t DEF LinkData
  <2> QED BY <2>1, <1>t DEF ViewIsPast
<1>5. WireIsPast'
  <2> SUFFICES ASSUME NEW d \in Conns, NEW x \in DOMAIN wire[d] PROVE wire[d][x] <= version'[IdOf[d]]
    BY DEF WireIsPast
  <2>1. wire[d] \in Seq(Nat) BY <1>t DEF LinkData
  <2>2. wire[d][x] \in Nat /\ IdOf[d] \in Ids BY <2>1, <1>i
  <2>3. version[IdOf[d]] \in Nat /\ version'[IdOf[d]] \in Nat BY <1>t, <2>2 DEF LinkData
  <2>4. wire[d][x] <= version[IdOf[d]] /\ version[IdOf[d]] <= version'[IdOf[d]]
    BY <1>t, <2>2 DEF WireIsPast
  <2> QED BY <2>2, <2>3, <2>4
<1>6. OutIsPast'
  <2> SUFFICES ASSUME NEW h \in Senders, out'[h] # None
               PROVE  out'[h].val <= version'[IdOf[out'[h].conn]]
    BY DEF OutIsPast
  <2>1. CASE h = g BY <1>2, <2>1
  <2>2. CASE h # g
    <3>1. out'[h] = out[h] /\ out[h] \in Reports
      BY <1>2, <1>t, <2>2 DEF LinkData
    <3>2. IdOf[out[h].conn] \in Ids /\ out[h].val \in Nat BY <3>1, <1>i DEF Reports
    <3>3. version[IdOf[out[h].conn]] \in Nat /\ version'[IdOf[out[h].conn]] \in Nat
      BY <1>t, <3>2 DEF LinkData
    <3>4. /\ out[h].val <= version[IdOf[out[h].conn]]
          /\ version[IdOf[out[h].conn]] <= version'[IdOf[out[h].conn]]
      BY <1>t, <3>1, <3>2 DEF OutIsPast
    <3> QED BY <3>1, <3>2, <3>3, <3>4
  <2> QED BY <2>1, <2>2
<1> QED BY <1>t, <1>3, <1>4, <1>5, <1>6 DEF SendsAsItself

LEMMA PastNext == PastInv /\ [LinkNext]_linkVars => PastInv'
<1> SUFFICES ASSUME PastInv, [LinkNext]_linkVars PROVE PastInv'
  OBVIOUS
<1> DEFINE Rest == LinkData /\ SendsAsItself /\ ViewIsPast /\ WireIsPast /\ OutIsPast
<1>t. LinkInv /\ LinkData /\ SendsAsItself /\ ViewIsPast /\ WireIsPast /\ OutIsPast BY DEF PastInv
<1>o. \A n \in Ids : where[n] # "idle" => conn[n] \in Conns /\ IdOf[conn[n]] = n
  BY <1>t DEF LinkInv, HoldsOwn
<1>i. IdOf \in [Conns -> Ids] /\ None \notin Conns BY HubConstants
<1>v. /\ \A n \in Ids : version[n] \in Nat /\ view[n] \in Nat
      /\ \A c \in Conns : wire[c] \in Seq(Nat)
      /\ \A g \in Senders : out[g] # None => out[g] \in Reports
  BY <1>t DEF LinkData
<1>f. /\ out \in [Senders -> {None} \cup Reports]
      /\ masterConn \in [Ids -> Conns \cup {None}]
  BY <1>t DEF LinkData
\* Steps that leave senders and wire alone, or clear senders and lose messages.
<1>1. ASSUME UNCHANGED <<version, view, masterConn, out>>,
             wire' = wire \/ \E c \in Conns : LoseTail(c)
      PROVE  Rest'
  BY <1>1, <1>f, PastFrame
<1>2. ASSUME NEW n \in Ids, Adopt(n) PROVE Rest'
  <2>1. /\ UNCHANGED <<version, view, out, wire>>
        /\ masterConn' = [masterConn EXCEPT ![n] = conn[n]] /\ where[n] = "dialled"
    BY <1>2 DEF Adopt, sendVars, flowVars
  <2>2. /\ masterConn' \in [Ids -> Conns \cup {None}]
        /\ \A m \in Ids : \/ masterConn'[m] = masterConn[m]
                          \/ masterConn'[m] = conn[m] /\ where[m] # "idle"
    <3>1. where[n] # "idle" BY <2>1
    <3> QED BY <2>1, <3>1, <1>f, <1>o
  <2> QED BY <2>1, <2>2, <1>f, PastFrame
<1>3. ASSUME NEW n \in Ids, Dies(n) PROVE Rest'
  <2>1. /\ UNCHANGED <<version, view>>
        /\ masterConn' = [masterConn EXCEPT ![n] = None]
        /\ \A g \in Senders : out'[g] = out[g] \/ out'[g] = None
        /\ out' \in [Senders -> {None} \cup Reports]
    BY <1>3, <1>f DEF Dies
  <2>2. wire' = wire \/ \E c \in Conns : LoseTail(c)
    BY <1>3, <1>o DEF Dies
  <2>3. /\ masterConn' \in [Ids -> Conns \cup {None}]
        /\ \A m \in Ids : masterConn'[m] = masterConn[m] \/ masterConn'[m] = None
    BY <2>1, <1>f
  <2> QED BY <2>1, <2>2, <2>3, PastFrame
<1>4. ASSUME NEW n \in Ids, Collect(n) PROVE Rest'
  <2>1. /\ version' = [version EXCEPT ![n] = @ + 1] /\ UNCHANGED <<view, wire, masterConn>>
        /\ \/ masterConn[n] = None /\ out' = out
           \/ masterConn[n] # None /\ Spawn(masterConn[n], version[n] + 1)
    BY <1>4 DEF Collect, hubVars, nodeVars, flowVars
  <2>2. /\ version' \in [Ids -> Nat] /\ \A m \in Ids : version[m] <= version'[m]
        /\ version'[n] = version[n] + 1
    BY <2>1, <1>t DEF LinkData
  <2>3. CASE masterConn[n] # None
    <3>1. masterConn[n] \in Conns /\ IdOf[masterConn[n]] = n
      BY <1>t, <2>3 DEF LinkData, SendsAsItself
    <3>2. version[n] + 1 \in Nat BY <1>v
    <3> QED BY <2>1, <2>2, <2>3, <3>1, <3>2, PastSpawn
  <2>4. CASE masterConn[n] = None
    <3>1. out' = out BY <2>1, <2>4
    <3>2. LinkData' /\ SendsAsItself' BY <1>t, <2>1, <2>2, <3>1 DEF LinkData, SendsAsItself
    <3>3. ViewIsPast'
      <4> SUFFICES ASSUME NEW m \in Ids PROVE view[m] <= version'[m] BY <2>1 DEF ViewIsPast
      <4> QED BY <1>v, <1>t, <2>2 DEF ViewIsPast
    <3>4. WireIsPast'
      <4> SUFFICES ASSUME NEW d \in Conns, NEW x \in DOMAIN wire[d]
                   PROVE  wire[d][x] <= version'[IdOf[d]]
        BY <2>1 DEF WireIsPast
      <4>1. wire[d][x] \in Nat /\ IdOf[d] \in Ids BY <1>v, <1>i
      <4>2. wire[d][x] <= version[IdOf[d]] BY <1>t DEF WireIsPast
      <4>3. version[IdOf[d]] <= version'[IdOf[d]] BY <2>2, <4>1
      <4>4. version[IdOf[d]] \in Nat /\ version'[IdOf[d]] \in Nat BY <1>v, <2>2, <4>1
      <4> QED BY <4>1, <4>2, <4>3, <4>4
    <3>5. OutIsPast'
      <4> SUFFICES ASSUME NEW h \in Senders, out[h] # None
                   PROVE  out[h].val <= version'[IdOf[out[h].conn]]
        BY <3>1 DEF OutIsPast
      <4>1. out[h].val \in Nat /\ IdOf[out[h].conn] \in Ids BY <1>v, <1>i DEF Reports
      <4>2. out[h].val <= version[IdOf[out[h].conn]] BY <1>t DEF OutIsPast
      <4>3. version[IdOf[out[h].conn]] <= version'[IdOf[out[h].conn]] BY <2>2, <4>1
      <4>4. version[IdOf[out[h].conn]] \in Nat /\ version'[IdOf[out[h].conn]] \in Nat
        BY <1>v, <2>2, <4>1
      <4> QED BY <4>1, <4>2, <4>3, <4>4
    <3> QED BY <3>2, <3>3, <3>4, <3>5
  <2> QED BY <2>3, <2>4
<1>5. ASSUME NEW c \in Conns, Push(c) PROVE Rest'
  <2>1. /\ Spawn(c, version[IdOf[c]]) /\ UNCHANGED <<version, view, wire, masterConn>>
    BY <1>5 DEF Push, flowVars
  <2>2. IdOf[c] \in Ids BY <1>i
  <2>3. version[IdOf[c]] \in Nat BY <1>v, <2>2
  <2>4. version' \in [Ids -> Nat] /\ \A m \in Ids : version[m] <= version'[m]
    BY <1>t, <1>v, <2>1 DEF LinkData
  <2>5. version[IdOf[c]] <= version'[IdOf[c]] BY <2>2, <2>4
  <2> QED BY <2>1, <2>3, <2>4, <2>5, PastSpawn
<1>6. ASSUME NEW g \in Senders, SendStart(g) PROVE Rest'
  <2> DEFINE met == {h \in Senders : Writing(h, out[g].conn)}
             start == [out[g] EXCEPT !.writing = IF met = {} THEN "alone" ELSE "clash"]
  <2>1. /\ out[g] # None /\ UNCHANGED <<version, view, wire, masterConn>>
        /\ out' = [h \in Senders |-> CASE h = g    -> start
                                       [] h \in met -> [out[h] EXCEPT !.writing = "clash"]
                                       [] OTHER    -> out[h]]
    BY <1>6 DEF SendStart, nodeVars, flowVars
  <2>2. out[g] \in Reports BY <1>v, <2>1
  <2>3. start \in Reports /\ start.conn = out[g].conn /\ start.val = out[g].val
    BY <2>2 DEF Reports
  <2>4. ASSUME NEW h \in met
        PROVE  LET clash == [out[h] EXCEPT !.writing = "clash"] IN
               clash \in Reports /\ clash.conn = out[h].conn /\ clash.val = out[h].val
    <3>1. out[h] \in Reports BY <1>v, <2>4 DEF Writing, Sends
    <3> QED BY <3>1 DEF Reports
  <2>5. g \notin met /\ \A h \in met : out[h] # None BY <1>6 DEF SendStart, Writing, Sends
  <2> HIDE DEF met, start
  <2>6. ASSUME NEW h \in Senders
        PROVE  \/ out'[h] = out[h]
               \/ /\ out[h] # None /\ out'[h] \in Reports
                  /\ out'[h].conn = out[h].conn /\ out'[h].val = out[h].val
    <3>1. CASE h = g BY <2>1, <2>3, <2>5, <3>1
    <3>2. CASE h # g /\ h \in met BY <2>1, <2>4, <2>5, <3>2
    <3>3. CASE h # g /\ h \notin met BY <2>1, <3>3
    <3> QED BY <3>1, <3>2, <3>3
  <2>7. out' \in [Senders -> {None} \cup Reports]
    <3>1. \A h \in Senders : out'[h] \in {None} \cup Reports BY <2>6, <1>f
    <3> QED BY <2>1, <3>1
  <2>8. OutIsPast' BY <1>t, <2>1, <2>6 DEF OutIsPast
  <2> QED BY <1>t, <2>1, <2>7, <2>8 DEF LinkData, SendsAsItself, ViewIsPast, WireIsPast
<1>7. ASSUME NEW g \in Senders, SendEnd(g) PROVE Rest'
  <2> PICK c : c = out[g].conn OBVIOUS
  <2> PICK v : v = out[g].val OBVIOUS
  <2>1. /\ out[g] # None /\ out' = [out EXCEPT ![g] = None]
        /\ UNCHANGED <<version, view, masterConn>>
        /\ \/ wire' = wire
           \/ wire' = [wire EXCEPT ![c] = Append(@, v)]
    BY <1>7 DEF SendEnd, nodeVars
  <2>2. c \in Conns /\ v \in Nat /\ v <= version[IdOf[c]]
    BY <1>v, <1>t, <2>1 DEF OutIsPast, Reports
  <2>3. /\ out' \in [Senders -> {None} \cup Reports]
        /\ \A h \in Senders : out'[h] \in {out[h], None}
    BY <2>1, <1>t DEF LinkData
  <2>4. OutIsPast' BY <1>t, <2>1, <2>3 DEF OutIsPast
  <2>5. wire' \in [Conns -> Seq(Nat)] /\ WireIsPast'
    <3>1. CASE wire' = wire BY <1>t, <2>1, <3>1 DEF LinkData, WireIsPast
    <3>2. CASE wire' = [wire EXCEPT ![c] = Append(@, v)]
      <4>1. /\ wire'[c] = Append(wire[c], v) /\ wire[c] \in Seq(Nat)
            /\ \A d \in Conns : d # c => wire'[d] = wire[d]
        BY <1>t, <2>1, <2>2, <3>2 DEF LinkData
      <4>2. /\ wire'[c] \in Seq(Nat)
            /\ \A x \in DOMAIN wire'[c] :
                  wire'[c][x] = v \/ (x \in DOMAIN wire[c] /\ wire'[c][x] = wire[c][x])
        BY <4>1, <2>2, PartsOfAWire
      <4>3. wire' \in [Conns -> Seq(Nat)] BY <1>t, <2>1, <2>2, <3>2, <4>1, <4>2 DEF LinkData
      <4>4. ASSUME NEW d \in Conns, NEW x \in DOMAIN wire'[d]
            PROVE  wire'[d][x] <= version'[IdOf[d]]
        <5>1. CASE d = c BY <1>t, <2>1, <2>2, <4>2, <4>4, <5>1 DEF WireIsPast
        <5>2. CASE d # c BY <1>t, <2>1, <4>1, <4>4, <5>2 DEF WireIsPast
        <5> QED BY <5>1, <5>2
      <4> QED BY <4>3, <4>4 DEF WireIsPast
    <3> QED BY <2>1, <3>1, <3>2
  <2> QED BY <1>t, <2>1, <2>3, <2>4, <2>5 DEF LinkData, SendsAsItself, ViewIsPast
<1>8. ASSUME NEW c \in Conns, Deliver(c) PROVE Rest'
  <2>1. /\ wire[c] # <<>> /\ UNCHANGED <<version, masterConn, out>>
        /\ view' = [view EXCEPT ![IdOf[c]] = Head(wire[c])]
        /\ wire' = [wire EXCEPT ![c] = Tail(@)]
    BY <1>8 DEF Deliver, nodeVars, sendVars
  <2>2. /\ Head(wire[c]) = wire[c][1] /\ 1 \in DOMAIN wire[c] /\ Tail(wire[c]) \in Seq(Nat)
        /\ \A x \in DOMAIN Tail(wire[c]) :
              x + 1 \in DOMAIN wire[c] /\ Tail(wire[c])[x] = wire[c][x + 1]
    BY <1>v, <2>1, PartsOfAWire
  <2>3. /\ wire' \in [Conns -> Seq(Nat)] /\ wire'[c] = Tail(wire[c])
        /\ \A d \in Conns : d # c => wire'[d] = wire[d]
    BY <1>t, <2>1, <2>2 DEF LinkData
  <2>4. Head(wire[c]) \in Nat /\ Head(wire[c]) <= version[IdOf[c]]
    BY <1>v, <1>t, <2>2 DEF WireIsPast
  <2>5. view' \in [Ids -> Nat] /\ ViewIsPast'
    BY <1>t, <2>1, <2>4 DEF LinkData, ViewIsPast
  <2>6. WireIsPast'
    <3> SUFFICES ASSUME NEW d \in Conns, NEW x \in DOMAIN wire'[d]
                 PROVE  wire'[d][x] <= version'[IdOf[d]]
      BY DEF WireIsPast
    <3>1. CASE d = c BY <1>t, <2>1, <2>2, <2>3, <3>1 DEF WireIsPast
    <3>2. CASE d # c BY <1>t, <2>1, <2>3, <3>2 DEF WireIsPast
    <3> QED BY <3>1, <3>2
  <2> QED BY <1>t, <2>1, <2>3, <2>5, <2>6 DEF LinkData, SendsAsItself, OutIsPast
<1>9. ASSUME NEW n \in Ids, ReadError(n) PROVE Rest'
  <2>1. UNCHANGED <<version, view, masterConn, out>> /\ LoseTail(conn[n]) /\ where[n] # "idle"
    BY <1>9 DEF ReadError, sendVars
  <2> QED BY <1>1, <1>o, <2>1
<1>10. ASSUME NEW c \in Conns, Network(c) PROVE Rest'
  <2>1. UNCHANGED <<version, view, masterConn, out>> /\ (wire' = wire \/ LoseTail(c))
    BY <1>10 DEF Network, nodeVars, sendVars
  <2> QED BY <1>1, <2>1
<1>11. ASSUME \/ \E n \in Ids, c \in Conns : Dial(n, c)
              \/ \E c \in Conns : MasterStep(c) /\ ~Deliver(c)
              \/ UNCHANGED linkVars
       PROVE  Rest'
  <2>1. UNCHANGED <<version, view, masterConn, out, wire>>
    BY <1>11 DEF Dial, MasterStep, nodeVars, sendVars, flowVars, linkVars
  <2> QED BY <1>1, <2>1
<1>12. Rest'
  BY <1>2, <1>3, <1>4, <1>5, <1>6, <1>7, <1>8, <1>9, <1>10, <1>11
     DEF LinkNext, NodeRestart, Panic, MasterStep
<1> QED BY <1>t, <1>12, LinkInvStep DEF PastInv

\* The master never shows a value that the node has not had: what is lost, late, sent
\* twice after a reconnect or overtaken makes its view old and nothing else.  (A message
\* is whole or lost here; that overlapping writes mix their bytes is not modelled.)
THEOREM LinkViewIsPast == LinkSpec => []ViewIsPast
<1>1. PastInv => ViewIsPast BY DEF PastInv
<1> QED BY <1>1, PastInit, PastNext, PTL DEF LinkSpec
=============================================================================
