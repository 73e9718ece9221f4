------------------------------- MODULE WsHub -------------------------------
(***************************************************************************)
(* A WebSocket hub: ws/ws.go for the dashboards and, with the same code,   *)
(* ws/ws_node.go for the nodes.  The hub keeps one map from client id to   *)
(* connection under one mutex; every connection has a handler goroutine    *)
(* that relays what its peer sends and removes ITS ID from the map when    *)
(* reading fails; broadcasts write to all connections while they hold the  *)
(* mutex.                                                                  *)
(*                                                                         *)
(* For the dashboards every connection draws its own random id; for the    *)
(* nodes the id is the address the node sends, the same on every attempt.  *)
(***************************************************************************)
EXTENDS Naturals, Sequences

CONSTANTS
  Ids,       \* client ids
  Conns,     \* connections, each used once
  IdOf,      \* the id of each connection
  Msgs,      \* messages, each sent by one call
  From,      \* the connection whose handler relays the message, None for the server's own
  Audience,  \* the ids each message is for: all but brokers, the brokers, or one
  Closers,   \* the ids CloseWebsocketConnection is called for
  CanStall,  \* a peer may stop reading without closing its connection
  None

ASSUME HubConstants ==
  /\ None \notin Conns
  /\ IdOf \in [Conns -> Ids]
  /\ From \in [Msgs -> Conns \cup {None}]
  /\ Audience \in [Msgs -> SUBSET Ids]
  /\ Closers \subseteq Ids
  /\ CanStall \in BOOLEAN

VARIABLES
  clients,  \* the map Clients / ClientsNode: id to connection
  handler,  \* per connection: "none", "upgraded", "reading", "relaying" or "done"
  link,     \* per connection: "none", "ok", "stalled" or "broken"
  cast,     \* per message: "new", "called", "locked" (holds the mutex) or "sent"
  left,     \* per message: the ids its loop has still to visit
  at,       \* per message: the connection WriteMessage is writing to, or None
  recv      \* what each connection's peer was sent, in order

connVars == <<clients, handler, link>>
castVars == <<cast, left, at, recv>>
hubVars  == <<connVars, castVars>>

HubInit ==
  /\ clients = [i \in Ids |-> None]
  /\ handler = [c \in Conns |-> "none"]
  /\ link = [c \in Conns |-> "none"]
  /\ cast = [m \in Msgs |-> "new"]
  /\ left = [m \in Msgs |-> {}]
  /\ at = [m \in Msgs |-> None]
  /\ recv = [c \in Conns |-> <<>>]

\* Registration and removal hold Mutex for a single assignment, so it can be taken
\* unless a message is being written.
MutexIgnored == TRUE                      \* mutant: no mutual exclusion
MutexFree == \A m \in Msgs : cast[m] # "locked"

Up(c) == link[c] \in {"ok", "stalled"}
Serving(c) == handler[c] \in {"reading", "relaying"}

---------------------------------------------------------------------------
(* Connections *)

\* The peer sees the upgrade before the hub has registered the connection.
Upgrade(c) ==
  /\ handler[c] = "none"
  /\ handler' = [handler EXCEPT ![c] = "upgraded"]
  /\ link' = [link EXCEPT ![c] = "ok"]
  /\ UNCHANGED <<clients, castVars>>

\* Enter the map, replacing any connection of the same id, and start the handler.
Register(c) ==
  /\ handler[c] = "upgraded" /\ MutexFree
  /\ clients' = [clients EXCEPT ![IdOf[c]] = c]
  /\ handler' = [handler EXCEPT ![c] = "reading"]
  /\ UNCHANGED <<link, castVars>>

\* What the handler's deferred call leaves in the map: it deletes by id.
Undeleted(c) == clients                   \* mutant: the entry is left behind
NilLeft(c) == [clients EXCEPT ![IdOf[c]] = "nil"]  \* mutant: set to nil, not deleted
Cleared(c) == [i \in Ids |-> None]        \* mutant: the map is made anew
DeletedById(c) == [clients EXCEPT ![IdOf[c]] = None]

\* ReadMessage fails: the handler runs its deferred call and ends.
Deregister(c) ==
  /\ handler[c] = "reading" /\ link[c] = "broken" /\ MutexFree
  /\ clients' = DeletedById(c)
  /\ handler' = [handler EXCEPT ![c] = "done"]
  /\ UNCHANGED <<link, castVars>>

\* The connection breaks; the hub notices when it reads, which may be much later.
Break(c) ==
  /\ Up(c)
  /\ link' = [link EXCEPT ![c] = "broken"]
  /\ UNCHANGED <<clients, handler, castVars>>

\* The peer stops reading and the send buffer is full; it may go on later.
Stall(c) ==
  /\ CanStall /\ link[c] = "ok"
  /\ link' = [link EXCEPT ![c] = "stalled"]
  /\ UNCHANGED <<clients, handler, castVars>>

Resume(c) ==
  /\ link[c] = "stalled"
  /\ link' = [link EXCEPT ![c] = "ok"]
  /\ UNCHANGED <<clients, handler, castVars>>

CloseWebsocketConnection(i) ==
  /\ i \in Closers /\ clients[i] # None /\ MutexFree
  /\ link' = [link EXCEPT ![clients[i]] = "broken"]
  /\ clients' = [clients EXCEPT ![i] = None]
  /\ UNCHANGED <<handler, castVars>>

---------------------------------------------------------------------------
(* Messages: BroadcastMessage, BroadcastMessageToMqttBroker,               *)
(* SendMessageToRecipient                                                  *)

\* A goroutine of the server calls, or the handler of a connection relays what it
\* read and reads nothing more until the call returns.
Call(m) ==
  /\ cast[m] = "new"
  /\ From[m] # None => handler[From[m]] = "reading"
  /\ cast' = [cast EXCEPT ![m] = "called"]
  /\ handler' = [c \in Conns |-> IF c = From[m] THEN "relaying" ELSE handler[c]]
  /\ UNCHANGED <<clients, link, left, at, recv>>

\* Mutex.Lock(), then the loop over the map.
Lock(m) ==
  /\ cast[m] = "called" /\ MutexFree
  /\ cast' = [cast EXCEPT ![m] = "locked"]
  /\ left' = [left EXCEPT ![m] = {i \in Audience[m] : clients[i] # None}]
  /\ UNCHANGED <<connVars, at, recv>>

WriteStart(m, i) ==
  /\ cast[m] = "locked" /\ at[m] = None
  /\ i \in left[m] /\ clients[i] # None
  /\ left' = [left EXCEPT ![m] = @ \ {i}]
  /\ at' = [at EXCEPT ![m] = clients[i]]
  /\ UNCHANGED <<connVars, cast, recv>>

\* Where the loop goes on after a failed write: the error is only logged.
ReturnsError(m) == [left EXCEPT ![m] = {}]  \* mutant: the loop ends at the first error
OnError(m) == left

\* A broken connection answers with an error; a stalled one does not answer while it
\* is stalled: there is no write deadline.
WriteEnd(m) ==
  /\ at[m] # None /\ link[at[m]] # "stalled"
  /\ at' = [at EXCEPT ![m] = None]
  /\ IF link[at[m]] = "ok"
     THEN recv' = [recv EXCEPT ![at[m]] = Append(@, m)] /\ UNCHANGED left
     ELSE left' = OnError(m) /\ UNCHANGED recv
  /\ UNCHANGED <<connVars, cast>>

Unlock(m) ==
  /\ cast[m] = "locked" /\ at[m] = None
  /\ \A i \in left[m] : clients[i] = None
  /\ cast' = [cast EXCEPT ![m] = "sent"]
  /\ left' = [left EXCEPT ![m] = {}]
  /\ handler' = [c \in Conns |-> IF c = From[m] THEN "reading" ELSE handler[c]]
  /\ UNCHANGED <<clients, link, at, recv>>

---------------------------------------------------------------------------

HandlerStep(c) == Register(c) \/ Deregister(c)
LinkStep(c) == Break(c) \/ Stall(c) \/ Resume(c)
CastStep(m) == Lock(m) \/ WriteEnd(m) \/ Unlock(m) \/ \E i \in Ids : WriteStart(m, i)

HubNext ==
  \/ \E c \in Conns : Upgrade(c) \/ HandlerStep(c) \/ LinkStep(c)
  \/ \E i \in Ids : CloseWebsocketConnection(i)
  \/ \E m \in Msgs : Call(m) \/ CastStep(m)

HubSpec == HubInit /\ [][HubNext]_hubVars

\* Goroutines run, a mutex that is released is handed on, and a broken connection is
\* noticed.  A peer that stalls need not resume.
HubFairSpec ==
  /\ HubSpec
  /\ \A c \in Conns : WF_hubVars(HandlerStep(c))
  /\ \A m \in Msgs : WF_hubVars(CastStep(m))

---------------------------------------------------------------------------
(* Properties *)

\* Type correctness of the hub.
HubTypeOK ==
  /\ clients \in [Ids -> Conns \cup {None}]
  /\ handler \in [Conns -> {"none", "upgraded", "reading", "relaying", "done"}]
  /\ link \in [Conns -> {"none", "ok", "stalled", "broken"}]
  /\ cast \in [Msgs -> {"new", "called", "locked", "sent"}]
  /\ left \in [Msgs -> SUBSET Ids]
  /\ at \in [Msgs -> Conns \cup {None}]
  /\ recv \in [Conns -> Seq(Msgs)]

\* No dead connection stays in the map: whatever order handlers of one id start and
\* end in, an entry is a connection of that id whose handler is still running.
EntryIsServed ==
  \A i \in Ids : clients[i] # None => Serving(clients[i]) /\ IdOf[clients[i]] = i

\* "all connected clients": every connection that is up and has a running handler is
\* in the map, so that broadcasts reach it.
LiveIsRegistered ==
  \A c \in Conns : Serving(c) /\ Up(c) => clients[IdOf[c]] = c

\* The library forbids two goroutines writing one connection at once (it panics, which
\* ends the whole server): all writes of the hub exclude each other.
OneWriter ==
  \A m, n \in Msgs : m # n /\ at[m] # None => at[m] # at[n]

Before(m, n, s) == \E x, y \in DOMAIN s : x < y /\ s[x] = m /\ s[y] = n

\* All peers see concurrent messages in the same order.
SameOrder ==
  \A c, d \in Conns, m, n \in Msgs :
     m # n => ~(Before(m, n, recv[c]) /\ Before(n, m, recv[d]))

\* A client in the map when a message for it is sent receives it, unless its own
\* connection fails: what other clients do, closing and breaking in the middle of the
\* broadcast included, keeps nobody from hearing the server.  The exception is peers
\* that stall again and again, or for ever: the write to one holds the mutex.
LiveClientsHear ==
  \A m \in Msgs, c \in Conns :
     [](cast[m] = "called" /\ clients[IdOf[c]] = c /\ Up(c) /\ IdOf[c] \in Audience[m]
          => \/ <>(link[c] # "ok" \/ \E x \in DOMAIN recv[c] : recv[c][x] = m)
             \/ []<>(\E d \in Conns : link[d] = "stalled"))
=============================================================================
