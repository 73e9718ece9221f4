------------------------------ MODULE NodeLink ------------------------------
(***************************************************************************)
(* The link between the nodes and the master: wsclient/wsclient.go and the *)
(* senders of monitor/service.go on a node, the node hub ws/ws_node.go on  *)
(* the master (module WsHub, with the address a node sends as the id of    *)
(* all its connections; nothing sends messages through the node hub).      *)
(*                                                                         *)
(* What a node reports is a version number: every change of a measured     *)
(* value is the next version, a message carries the version it was built   *)
(* from, the master keeps the one it was told last.                        *)
(***************************************************************************)
EXTENDS WsHub

CONSTANTS
  Senders,    \* slots for the goroutines that send (bounds how many run at once)
  MaxVersion  \* bounds how often the values of a node change

ASSUME LinkConstants == MaxVersion \in Nat

VARIABLES
  where,       \* per node: where Connect is: "idle", "dialled" or "reading"
  conn,        \* per node: the connection connectWithRetry returned
  masterConn,  \* per node: WsMasterConn, never reset
  push,        \* per connection: the full state sent 15 s later: "none", "armed", "done"
  out,         \* per slot: the sending goroutine's connection, version and progress
  wire,        \* per connection: versions on their way to the master
  version,     \* per node: the version of its values
  lossy,       \* history: the connections on which an overlapping write failed
  view         \* per node: the version in the master's ServerCache

nodeVars  == <<where, conn, masterConn, push>>
sendVars  == <<out, version, lossy>>
flowVars  == <<wire, view>>
linkVars  == <<hubVars, nodeVars, sendVars, flowVars>>

LinkInit ==
  /\ HubInit
  /\ where = [n \in Ids |-> "idle"]
  /\ conn = [n \in Ids |-> None]
  /\ masterConn = [n \in Ids |-> None]
  /\ push = [c \in Conns |-> "none"]
  /\ out = [g \in Senders |-> None]
  /\ wire = [c \in Conns |-> <<>>]
  /\ version = [n \in Ids |-> 0]
  /\ lossy = {}
  /\ view = [n \in Ids |-> 0]

Sends(g, c) == out[g] # None /\ out[g].conn = c
Writing(g, c) == Sends(g, c) /\ out[g].writing # "no"
Clash(c) == \E g, h \in Senders : g # h /\ Writing(g, c) /\ Writing(h, c)
Spawn(c, v) == \E g \in Senders :
  /\ out[g] = None
  /\ out' = [out EXCEPT ![g] = [conn |-> c, val |-> v, writing |-> "no"]]

\* When a connection breaks, the end of what is on its way is lost.
LoseTail(c) == \E k \in 0 .. Len(wire[c]) :
  wire' = [wire EXCEPT ![c] = SubSeq(@, 1, k)]

---------------------------------------------------------------------------
(* Connect, connectWithRetry, readMessages *)

Armed(c) == "armed"

\* connectWithRetry succeeds.  (A failing dial changes nothing: Connect sleeps and
\* tries again.)
Dial(n, c) ==
  /\ where[n] = "idle" /\ IdOf[c] = n
  /\ Upgrade(c)
  /\ where' = [where EXCEPT ![n] = "dialled"]
  /\ conn' = [conn EXCEPT ![n] = c]
  /\ push' = [push EXCEPT ![c] = Armed(c)]
  /\ UNCHANGED <<masterConn, sendVars, flowVars>>

\* WsMasterConn = connection, then readMessages.
Adopt(n) ==
  /\ where[n] = "dialled"
  /\ masterConn' = [masterConn EXCEPT ![n] = conn[n]]
  /\ where' = [where EXCEPT ![n] = "reading"]
  /\ UNCHANGED <<hubVars, conn, push, sendVars, flowVars>>

\* What reading an error leaves of the connection.
NotClosed(c) == link                     \* mutant: without conn.Close()
Closed(c) == [link EXCEPT ![c] = "broken"]

\* readMessages ends, because the connection broke or what arrived was malformed: the
\* connection is closed and IsWsMasterConnected cleared, so that Connect dials again.
ReadError(n) ==
  /\ where[n] = "reading"
  /\ link' = Closed(conn[n])
  /\ LoseTail(conn[n])
  /\ where' = [where EXCEPT ![n] = "idle"]
  /\ UNCHANGED <<clients, handler, castVars, conn, masterConn, push, sendVars, view>>

\* The node's process ends and is started again: connection and goroutines die with it.
Dies(n) ==
  /\ IF where[n] = "idle" THEN UNCHANGED <<link, wire>>
     ELSE link' = Closed(conn[n]) /\ LoseTail(conn[n])
  /\ where' = [where EXCEPT ![n] = "idle"]
  /\ conn' = [conn EXCEPT ![n] = None]
  /\ masterConn' = [masterConn EXCEPT ![n] = None]
  /\ push' = [c \in Conns |-> IF IdOf[c] = n /\ push[c] = "armed" THEN "done" ELSE push[c]]
  /\ out' = [g \in Senders |-> IF \E c \in Conns : IdOf[c] = n /\ Sends(g, c)
                               THEN None ELSE out[g]]
  /\ UNCHANGED <<clients, handler, castVars, version, lossy, view>>

NodeRestart(n) == (where[n] # "idle" \/ masterConn[n] # None) /\ Dies(n)

\* Two goroutines in WriteMessage on one connection: the library may notice in the
\* middle of a frame, and panics.
Panic(n) == (\E c \in Conns : IdOf[c] = n /\ Clash(c)) /\ Dies(n)

---------------------------------------------------------------------------
(* Sending *)

\* A value changes; collectAndStore reports the change if there ever was a connection.
Collect(n) ==
  /\ version[n] < MaxVersion
  /\ version' = [version EXCEPT ![n] = @ + 1]
  /\ IF masterConn[n] = None THEN UNCHANGED out ELSE Spawn(masterConn[n], version[n] + 1)
  /\ UNCHANGED <<hubVars, nodeVars, lossy, flowVars>>

\* 15 s after connecting the whole ServerCache is sent on that connection.  Connect
\* does not take 15 s to go on to readMessages.
Push(c) ==
  /\ push[c] = "armed" /\ ~(where[IdOf[c]] = "dialled" /\ conn[IdOf[c]] = c)
  /\ push' = [push EXCEPT ![c] = "done"]
  /\ Spawn(c, version[IdOf[c]])
  /\ UNCHANGED <<hubVars, where, conn, masterConn, version, lossy, flowVars>>

\* SendMessage takes no lock: a goroutine may meet others in WriteMessage.
SendStart(g) ==
  /\ out[g] # None /\ out[g].writing = "no"
  /\ LET met == {h \in Senders : Writing(h, out[g].conn)} IN
     out' = [h \in Senders |->
               CASE h = g    -> [out[g] EXCEPT !.writing = IF met = {} THEN "alone" ELSE "clash"]
                 [] h \in met -> [out[h] EXCEPT !.writing = "clash"]
                 [] OTHER    -> out[h]]
  /\ UNCHANGED <<hubVars, nodeVars, version, lossy, flowVars>>

\* A write on a broken connection returns an error that is only logged.  So does one
\* whose message writer the library closed for another goroutine: nothing is sent, and
\* the connection stays.
SendEnd(g) ==
  /\ out[g] # None /\ out[g].writing # "no"
  /\ LET c == out[g].conn IN
     /\ link[c] # "stalled"
     /\ \/ /\ wire' = IF link[c] = "ok" THEN [wire EXCEPT ![c] = Append(@, out[g].val)] ELSE wire
           /\ UNCHANGED lossy
        \/ /\ out[g].writing = "clash"
           /\ lossy' = lossy \cup {c}
           /\ UNCHANGED wire
  /\ out' = [out EXCEPT ![g] = None]
  /\ UNCHANGED <<hubVars, nodeVars, version, view>>

---------------------------------------------------------------------------
(* The master *)

\* HandleMessageNode overwrites what the ServerCache holds.
Deliver(c) ==
  /\ handler[c] = "reading" /\ wire[c] # <<>>
  /\ view' = [view EXCEPT ![IdOf[c]] = Head(wire[c])]
  /\ wire' = [wire EXCEPT ![c] = Tail(@)]
  /\ UNCHANGED <<hubVars, nodeVars, sendVars>>

\* The handler reads what arrived before it sees the error.
MasterStep(c) ==
  \/ Deliver(c)
  \/ Register(c) /\ UNCHANGED <<nodeVars, sendVars, flowVars>>
  \/ Deregister(c) /\ wire[c] = <<>> /\ UNCHANGED <<nodeVars, sendVars, flowVars>>

Network(c) ==
  /\ \/ Break(c) /\ LoseTail(c)
     \/ (Stall(c) \/ Resume(c)) /\ UNCHANGED wire
  /\ UNCHANGED <<nodeVars, sendVars, view>>

---------------------------------------------------------------------------

LinkNext ==
  \/ \E n \in Ids : Adopt(n) \/ ReadError(n) \/ NodeRestart(n) \/ Panic(n) \/ Collect(n)
  \/ \E n \in Ids, c \in Conns : Dial(n, c)
  \/ \E g \in Senders : SendStart(g) \/ SendEnd(g)
  \/ \E c \in Conns : Push(c) \/ MasterStep(c) \/ Network(c)

LinkSpec == LinkInit /\ [][LinkNext]_linkVars

\* Goroutines run, Connect keeps dialling and the master answers, timers fire, and a
\* broken connection is noticed on both sides.  Values need not change, and nothing
\* makes a good connection fail.
LinkFairSpec ==
  /\ LinkSpec
  /\ \A n \in Ids : /\ WF_linkVars(Adopt(n) \/ \E c \in Conns : Dial(n, c))
                    /\ WF_linkVars(where[n] = "reading" /\ link[conn[n]] = "broken" /\ ReadError(n))
  /\ \A g \in Senders : WF_linkVars(SendStart(g) \/ SendEnd(g))
  /\ \A c \in Conns : WF_linkVars(Push(c)) /\ WF_linkVars(MasterStep(c))

---------------------------------------------------------------------------
(* Properties *)

\* A node never has two working connections to the master, so what it sends cannot
\* overtake itself on another connection that is up.
OneLiveLink ==
  \A c, d \in Conns : IdOf[c] = IdOf[d] /\ Up(c) /\ Up(d) => c = d

=============================================================================
