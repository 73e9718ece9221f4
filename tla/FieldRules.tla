----------------------------- MODULE FieldRules -----------------------------
(***************************************************************************)
(* The rules by which UpdateServerCache (model/server.go) accepts the      *)
(* times of a server's record: its boot, the last mouse movement and the   *)
(* last terminal activity.  A node applies them to what it measures        *)
(* (system_monitor.go, activity_monitor.go), its master to the full states *)
(* the node sends after each connect, whose fields it takes in the random  *)
(* order of a Go map, and which may arrive late and out of order.  Both    *)
(* write their records to a file after every change, in goroutines of      *)
(* their own, so that a process that starts may find an older record, or   *)
(* none that can be read (ServerCache shows how).                          *)
(*                                                                         *)
(* Times are numbers, 0 is the zero time.                                  *)
(***************************************************************************)
EXTENDS Integers, FiniteSets

CONSTANTS
  Zone,        \* how much a login time grows by being parsed as UTC
  Jitter,      \* how much later than it was a boot may be measured
  Slack,       \* how far in the future terminal activity may be
  MaxTime,     \* bound: the wall clock
  MaxMessages, \* bound: full states under way at once
  MaxRestarts  \* bound: starts of the two processes

ASSUME FieldConstants ==
  /\ Zone \in Int /\ Jitter \in Nat /\ Slack \in Nat
  /\ MaxTime \in Nat \ {0} /\ MaxMessages \in Nat /\ MaxRestarts \in Nat

VARIABLES
  now,      \* wall clock
  boot,     \* when the node was booted
  login,    \* the oldest terminal session of the node: its login time, 0 for none
  node,     \* the node's record of itself
  master,   \* the master's record of the node
  noticed,  \* lastCLISession: the session that was handled last
  net,      \* full states on their way to the master
  nodeFile, \* the node's record in the node's file
  masterFile, \* the node's record in the master's file
  restarts  \* starts of either process so far (bounded by MaxRestarts)

world == <<now, boot, login>>
files == <<nodeFile, masterFile>>
vars  == <<world, node, master, noticed, net, files, restarts>>

\* Records that hold nothing that was in the future at time t, but for the slack.
RecordsAt(t) == [uptime : 0..t, mouse : 0..t, cli : 0..t + Slack]

Blank  == [uptime |-> 0, mouse |-> 0, cli |-> 0]     \* also of a server without a record
Nobody == -1         \* no session has been handled since the process started

---------------------------------------------------------------------------
(* The rules *)

UptimeAny(r, t)  == IF t # 0 THEN [r EXCEPT !.uptime = t] ELSE r         \* mutant: also an older one
WithUptime(r, t) == IF t # 0 /\ t > r.uptime THEN [r EXCEPT !.uptime = t] ELSE r

WithMouse(r, t) == IF t # 0 /\ t >= r.uptime THEN [r EXCEPT !.mouse = t] ELSE r

CliAny(r, t)  == IF t # 0 /\ t >= r.uptime THEN [r EXCEPT !.cli = t] ELSE r  \* mutant: also an older one
WithCli(r, t) == IF t # 0 /\ t >= r.uptime /\ t > r.cli THEN [r EXCEPT !.cli = t] ELSE r

\* All fields of m in some order; those of mouse and terminal do not depend on each other.
Ordered(r, m, mouseFirst, cliFirst) ==
  LET a == IF mouseFirst THEN WithMouse(r, m.mouse) ELSE r
      b == IF cliFirst THEN WithCli(a, m.cli) ELSE a
      c == WithUptime(b, m.uptime)
      d == IF mouseFirst THEN c ELSE WithMouse(c, m.mouse)
  IN  IF cliFirst THEN d ELSE WithCli(d, m.cli)

NotParsed(r, m) == {Ordered(r, [m EXCEPT !.uptime = 0], mf, cf) : mf, cf \in BOOLEAN}  \* mutant
Applied(r, m) == {Ordered(r, m, mf, cf) : mf, cf \in BOOLEAN}

\* Loading the cache file lifts a movement from before the boot.
Lifted(r) == IF r.mouse < r.uptime THEN [r EXCEPT !.mouse = r.uptime] ELSE r

---------------------------------------------------------------------------
(* The node *)

Init ==
  /\ now = 1 /\ boot = 1 /\ login = 0
  /\ node = Blank /\ master = Blank
  /\ noticed = Nobody /\ net = {}
  /\ nodeFile = Blank /\ masterFile = Blank
  /\ restarts = 0

StartsAgain == restarts < MaxRestarts /\ restarts' = restarts + 1

\* The boot is measured as now less the uptime in whole seconds.
CollectSystemData ==
  /\ \E t \in boot..boot + Jitter : t <= now /\ node' = WithUptime(node, t)
  /\ UNCHANGED <<world, master, noticed, net, files, restarts>>

\* Activity of a server without a record is not stored; one may have been made by what
\* else is collected.
Stored(r, s) == IF r = Blank THEN {r, s} ELSE {s}

MouseMoves ==
  /\ node' \in Stored(node, WithMouse(node, now))
  /\ UNCHANGED <<world, master, noticed, net, files, restarts>>

AnyTime(t)  == TRUE                             \* mutant: times in the future as well
TimeIsOk(t) == t <= now + Slack

\* A session that was handled already is not looked at again, even if its time was
\* refused; without a login the activity is of this moment.
MonitorCLIActivity ==
  LET t == IF login = 0 THEN now ELSE login + Zone
  IN /\ noticed # login
     /\ noticed' = login
     /\ node' \in IF TimeIsOk(t) THEN Stored(node, WithCli(node, t)) ELSE {node}
     /\ UNCHANGED <<world, master, net, files, restarts>>

\* A flush, of the record as it is when the flush gets the mutex; it may fail or meet
\* another one, and leave a file that cannot be read.  Flushes that no start will read are
\* left out, and before the last start those of one of the two processes.
ReadLater(other) == restarts < MaxRestarts - (IF other = Blank THEN 0 ELSE 1)

SaveNode ==
  /\ ReadLater(masterFile)
  /\ nodeFile' \in {node, Blank}
  /\ UNCHANGED <<world, node, master, noticed, net, masterFile, restarts>>

\* The process of the node ends, whatever is saved by then, and starts; a reboot also
\* ends the sessions.
Restart ==
  /\ StartsAgain
  /\ node' = Lifted(nodeFile)
  /\ noticed' = Nobody
  /\ \/ UNCHANGED <<boot, login>>
     \/ boot' = now /\ login' = 0
  /\ UNCHANGED <<now, master, net, files>>

---------------------------------------------------------------------------
(* The master *)

\* 15 s after a connect the node sends its record.
SendFullState ==
  /\ Cardinality(net \cup {node}) <= MaxMessages
  /\ net' = net \cup {node}
  /\ UNCHANGED <<world, node, master, noticed, files, restarts>>

\* A connection breaks with what is under way.
Lose(m) ==
  /\ m \in net
  /\ net' = net \ {m}
  /\ UNCHANGED <<world, node, master, noticed, files, restarts>>

Deliver(m) ==
  /\ m \in net
  /\ net' = net \ {m}
  /\ master' \in Applied(master, m)
  /\ UNCHANGED <<world, node, noticed, files, restarts>>

SaveMaster ==
  /\ ReadLater(nodeFile)
  /\ masterFile' \in {master, Blank}
  /\ UNCHANGED <<world, node, master, noticed, net, nodeFile, restarts>>

MasterRestart ==
  /\ StartsAgain
  /\ master' = Lifted(masterFile)
  /\ UNCHANGED <<world, node, noticed, net, files>>

Tick ==
  /\ now < MaxTime /\ now' = now + 1
  /\ UNCHANGED <<boot, login, node, master, noticed, net, files, restarts>>

\* The first session opens, or the oldest one ends and another is the oldest.
Sessions ==
  /\ login' \in {0} \cup boot..now
  /\ login' # login /\ (login # 0 => login' = 0 \/ login' > login) /\ (login = 0 => login' = now)
  /\ UNCHANGED <<now, boot, node, master, noticed, net, files, restarts>>

Next ==
  \/ CollectSystemData \/ MouseMoves \/ MonitorCLIActivity \/ Sessions \/ Tick
  \/ SaveNode \/ Restart \/ SendFullState \/ SaveMaster \/ MasterRestart
  \/ \E m \in net : Deliver(m) \/ Lose(m)

Spec == Init /\ [][Next]_vars

---------------------------------------------------------------------------
(* Properties *)

\* Type correctness: no record, in memory, on its way or in a file, holds a time that the
\* rules have to refuse at this moment, or a boot later than the node's may be measured.
FieldTypeOK ==
  /\ now \in 1..MaxTime /\ boot \in 1..now /\ login \in {0} \cup boot..now
  /\ node \in RecordsAt(now) /\ master \in RecordsAt(now)
  /\ noticed \in {Nobody} \cup 0..now
  /\ net \in SUBSET RecordsAt(now)
  /\ nodeFile \in RecordsAt(now) /\ masterFile \in RecordsAt(now)
  /\ \A r \in net \cup {node, master, nodeFile, masterFile} : r.uptime <= boot + Jitter
  /\ restarts \in 0..MaxRestarts

NotBefore(r, s) == r.uptime >= s.uptime /\ r.cli >= s.cli

\* Neither a full state that arrives late nor the order in which its fields are taken moves
\* the boot or the last terminal activity of a record back.  Only a start of the process
\* does, from a file that is older or cannot be read.
NodeForward   == Restart \/ NotBefore(node', node)
MasterForward == MasterRestart \/ NotBefore(master', master)
NeverBack == [][NodeForward /\ MasterForward]_vars

\* The order in which the fields of a message are taken makes no difference, unless it
\* carries activity from before the boot.
OrderIsImmaterial ==
  \A m \in net : m.mouse >= m.uptime /\ m.cli >= m.uptime => Cardinality(Applied(master, m)) = 1

\* One full state that shows the node as it is brings the master up to date, whatever it had
\* before, in whatever order the fields are taken, and after whatever loss of files: it then
\* has the node's boot and activity, or a later boot or terminal activity, which the rules
\* keep when the node has lost its file.
SinceBoot(t) == t # 0 /\ t >= node.uptime /\ t >= master.uptime
UpToDate ==
  /\ master.uptime >= node.uptime
  /\ SinceBoot(node.mouse) => master.mouse = node.mouse
  /\ SinceBoot(node.cli) => master.cli >= node.cli
TakesPresentState == node \in net /\ Deliver(node)
OneStateIsEnough == [][TakesPresentState => UpToDate']_vars
=============================================================================
