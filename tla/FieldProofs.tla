----------------------------- MODULE FieldProofs -----------------------------
(***************************************************************************)
(* Theorems about the rules for the times of a server's record, for every  *)
(* zone, slack, clock and number of messages.                              *)
(***************************************************************************)
EXTENDS FieldRules, FiniteSetTheorems, TLAPS

---------------------------------------------------------------------------
(* The rules on one record *)

LEMMA RecordsHoldNumbers ==
  ASSUME NEW n \in Nat, NEW r \in RecordsAt(n)
  PROVE  r.uptime \in Nat /\ r.mouse \in Nat /\ r.cli \in Nat
  BY FieldConstants DEF RecordsAt

\* What was past stays past.
LEMMA RecordsStay ==
  ASSUME NEW n \in Nat, NEW k \in Nat, n <= k
  PROVE  RecordsAt(n) \subseteq RecordsAt(k)
  BY FieldConstants DEF RecordsAt

\* Each rule yields a record, and moves neither boot nor terminal activity back.
LEMMA RulesKeepRecords ==
  ASSUME NEW n \in Nat, NEW r \in RecordsAt(n), NEW t \in 0..n, NEW c \in 0..n + Slack
  PROVE  /\ WithUptime(r, t) \in RecordsAt(n) /\ WithMouse(r, t) \in RecordsAt(n)
         /\ WithCli(r, c) \in RecordsAt(n) /\ Lifted(r) \in RecordsAt(n)
         /\ WithUptime(r, t).uptime >= r.uptime /\ WithUptime(r, t).cli = r.cli
         /\ WithUptime(r, t).uptime \in {r.uptime, t}
         /\ WithMouse(r, t).uptime = r.uptime /\ WithMouse(r, t).cli = r.cli
         /\ WithCli(r, c).uptime = r.uptime /\ WithCli(r, c).cli >= r.cli
         /\ Lifted(r).uptime = r.uptime
  BY FieldConstants DEF RecordsAt, WithUptime, WithMouse, WithCli, Lifted

\* A message, taken in any order of its fields.
LEMMA OrderedKeepsRecords ==
  ASSUME NEW n \in Nat, NEW r \in RecordsAt(n), NEW m \in RecordsAt(n),
         NEW mf \in BOOLEAN, NEW cf \in BOOLEAN
  PROVE  /\ Ordered(r, m, mf, cf) \in RecordsAt(n)
         /\ Ordered(r, m, mf, cf).uptime \in {r.uptime, m.uptime}
         /\ Ordered(r, m, mf, cf).uptime >= r.uptime
         /\ Ordered(r, m, mf, cf).cli >= r.cli
<1> DEFINE a == IF mf THEN WithMouse(r, m.mouse) ELSE r
           b == IF cf THEN WithCli(a, m.cli) ELSE a
           c == WithUptime(b, m.uptime)
           d == IF mf THEN c ELSE WithMouse(c, m.mouse)
           e == IF cf THEN d ELSE WithCli(d, m.cli)
<1>1. m.mouse \in 0..n /\ m.cli \in 0..n + Slack /\ m.uptime \in 0..n
  BY DEF RecordsAt
<1>2. a \in RecordsAt(n) /\ a.uptime = r.uptime /\ a.cli = r.cli
  <2>1. CASE mf
    BY <2>1, <1>1, RulesKeepRecords
  <2>2. CASE ~mf
    BY <2>2, <1>1, RulesKeepRecords
  <2> QED BY <2>1, <2>2
<1> HIDE DEF a
<1>3. b \in RecordsAt(n) /\ b.uptime = a.uptime /\ b.cli >= a.cli
  <2>1. CASE cf
    BY <2>1, <1>1, <1>2, RulesKeepRecords, RecordsHoldNumbers
  <2>2. CASE ~cf
    BY <2>2, <1>1, <1>2, RulesKeepRecords, RecordsHoldNumbers
  <2> QED BY <2>1, <2>2
<1> HIDE DEF b
<1>4. /\ c \in RecordsAt(n) /\ c.uptime >= b.uptime /\ c.cli = b.cli
      /\ c.uptime \in {b.uptime, m.uptime}
  BY <1>1, <1>3, RulesKeepRecords
<1> HIDE DEF c
<1>5. d \in RecordsAt(n) /\ d.uptime = c.uptime /\ d.cli = c.cli
  <2>1. CASE mf
    BY <2>1, <1>1, <1>4, RulesKeepRecords
  <2>2. CASE ~mf
    BY <2>2, <1>1, <1>4, RulesKeepRecords
  <2> QED BY <2>1, <2>2
<1> HIDE DEF d
<1>6. e \in RecordsAt(n) /\ e.uptime = d.uptime /\ e.cli >= d.cli
  <2>1. CASE cf
    BY <2>1, <1>1, <1>5, RulesKeepRecords, RecordsHoldNumbers
  <2>2. CASE ~cf
    BY <2>2, <1>1, <1>5, RulesKeepRecords, RecordsHoldNumbers
  <2> QED BY <2>1, <2>2
<1> HIDE DEF e
<1>7. e.uptime >= r.uptime /\ e.cli >= r.cli /\ e.uptime \in {r.uptime, m.uptime}
  BY <1>2, <1>3, <1>4, <1>5, <1>6, RecordsHoldNumbers
<1>8. Ordered(r, m, mf, cf) = e
  BY DEF Ordered, a, b, c, d, e
<1> QED BY <1>6, <1>7, <1>8

LEMMA AppliedKeepsRecords ==
  ASSUME NEW n \in Nat, NEW r \in RecordsAt(n), NEW m \in RecordsAt(n), NEW x \in Applied(r, m)
  PROVE  x \in RecordsAt(n) /\ NotBefore(x, r) /\ x.uptime \in {r.uptime, m.uptime}
<1>1. PICK mf \in BOOLEAN, cf \in BOOLEAN : x = Ordered(r, m, mf, cf)
  BY DEF Applied
<1> QED BY <1>1, OrderedKeepsRecords DEF NotBefore

---------------------------------------------------------------------------
(* Type correctness, and that nothing moves back *)

\* FieldTypeOK: what the clock, the sessions and a parsed login time make of a record
\* stays within the rules.
LEMMA FieldInit == Init => FieldTypeOK
  BY FieldConstants DEF Init, FieldTypeOK, Blank, RecordsAt, Nobody

\* What a step has to establish: of the world, of each record, and of what must not go back.
WorldOK == /\ now \in 1..MaxTime /\ boot \in 1..now /\ login \in {0} \cup boot..now
           /\ noticed \in {Nobody} \cup 0..now /\ restarts \in 0..MaxRestarts
RecordOK(r) == r \in RecordsAt(now) /\ r.uptime <= boot + Jitter
AllRecords == net \cup {node, master, nodeFile, masterFile}

LEMMA TypeParts == FieldTypeOK <=> WorldOK /\ \A r \in AllRecords : RecordOK(r)
  BY DEF FieldTypeOK, WorldOK, RecordOK, AllRecords

LEMMA NothingBefore == ASSUME NEW n \in Nat, NEW r \in RecordsAt(n) PROVE NotBefore(r, r)
  BY RecordsHoldNumbers DEF NotBefore

\* Records stay right when time goes on and the boot does not go back.
LEMMA RecordsStayRight ==
  ASSUME NEW r, RecordOK(r), WorldOK, WorldOK', now' >= now, boot' >= boot
  PROVE  r \in RecordsAt(now') /\ r.uptime <= boot' + Jitter
<1>1. now \in Nat /\ now' \in Nat /\ boot \in Nat /\ boot' \in Nat
  BY FieldConstants DEF WorldOK
<1>2. r \in RecordsAt(now) /\ r \in RecordsAt(now')
  BY <1>1, RecordsStay DEF RecordOK
<1>3. r.uptime \in Nat /\ r.uptime <= boot + Jitter
  BY <1>1, <1>2, RecordsHoldNumbers DEF RecordOK
<1> QED BY <1>1, <1>2, <1>3, FieldConstants

\* Every step: the records after it are ones of before, or new ones that are right.
LEMMA FieldStep ==
  ASSUME FieldTypeOK, [Next]_vars
  PROVE  FieldTypeOK' /\ NodeForward /\ MasterForward
<1>1. WorldOK /\ \A r \in AllRecords : RecordOK(r)
  BY TypeParts
<1>2. /\ now \in Nat /\ now > 0 /\ boot \in Nat /\ boot > 0 /\ boot <= now
      /\ login \in Nat /\ login <= now /\ MaxRestarts \in Nat /\ restarts \in Nat
  BY <1>1, FieldConstants DEF WorldOK
<1>3. RecordOK(Blank) /\ RecordOK(node) /\ RecordOK(master)
      /\ RecordOK(nodeFile) /\ RecordOK(masterFile) /\ \A m \in net : RecordOK(m)
  BY <1>1, <1>2, FieldConstants DEF AllRecords, RecordOK, Blank, RecordsAt
<1>4. NotBefore(node, node) /\ NotBefore(master, master)
  BY <1>2, <1>3, NothingBefore DEF RecordOK
\* A step of the same time, with right records, is right.
<1>5. ASSUME WorldOK', now' = now, boot' >= boot,
             NEW x, RecordOK(x), AllRecords' \subseteq AllRecords \cup {x}
      PROVE  FieldTypeOK'
  <2>1. \A r \in AllRecords' : RecordOK(r)
    BY <1>1, <1>5
  <2>2. \A r \in AllRecords' : r \in RecordsAt(now') /\ r.uptime <= boot' + Jitter
    BY <1>1, <1>2, <1>5, <2>1, RecordsStayRight
  <2> QED BY <1>5, <2>2 DEF FieldTypeOK, WorldOK, AllRecords
<1>6. CASE CollectSystemData
  <2>1. PICK t \in boot..boot + Jitter : t <= now /\ node' = WithUptime(node, t)
    BY <1>6 DEF CollectSystemData
  <2>2. t \in 0..now /\ t <= boot + Jitter /\ 0 \in 0..now + Slack
    BY <1>2, <2>1, FieldConstants
  <2>3. RecordOK(node') /\ NotBefore(node', node)
    <3>1. node' \in RecordsAt(now) /\ node'.uptime \in {node.uptime, t}
          /\ node'.uptime >= node.uptime /\ node'.cli = node.cli
      BY <1>2, <1>3, <2>1, <2>2, RulesKeepRecords DEF RecordOK
    <3>2. node'.uptime <= boot + Jitter
      BY <1>3, <2>2, <3>1 DEF RecordOK
    <3> QED BY <1>4, <3>1, <3>2 DEF RecordOK, NotBefore
  <2>4. /\ UNCHANGED <<now, boot, login, noticed, restarts>>
        /\ net' = net /\ master' = master /\ nodeFile' = nodeFile /\ masterFile' = masterFile
    BY <1>6 DEF CollectSystemData, world, files
  <2>5. WorldOK' /\ now' = now /\ boot' >= boot /\ AllRecords' \subseteq AllRecords \cup {node'}
    BY <1>1, <1>2, <2>4 DEF WorldOK, AllRecords
  <2>6. FieldTypeOK'
    BY <1>5, <2>3, <2>5
  <2> QED BY <1>4, <2>3, <2>4, <2>6 DEF NodeForward, MasterForward
\* Activity is stored, or not if there is no record.
<1>7. ASSUME NEW x, RecordOK(x), NotBefore(x, node), node' \in {node, x},
             WorldOK', now' = now, boot' = boot,
             UNCHANGED <<master, net, nodeFile, masterFile>>
      PROVE  FieldTypeOK' /\ NodeForward /\ MasterForward
  <2>1. AllRecords' \subseteq AllRecords \cup {x} /\ boot' >= boot
    BY <1>2, <1>7 DEF AllRecords
  <2>2. FieldTypeOK'
    BY <1>5, <1>7, <2>1
  <2> QED BY <1>4, <1>7, <2>2 DEF NodeForward, MasterForward
<1>8. CASE MouseMoves
  <2>1. now \in 0..now /\ 0 \in 0..now + Slack
    BY <1>2, FieldConstants
  <2>2. RecordOK(WithMouse(node, now)) /\ NotBefore(WithMouse(node, now), node)
    <3>1. /\ WithMouse(node, now) \in RecordsAt(now)
          /\ WithMouse(node, now).uptime = node.uptime /\ WithMouse(node, now).cli = node.cli
      BY <1>2, <1>3, <2>1, RulesKeepRecords DEF RecordOK
    <3> QED BY <1>3, <1>4, <3>1 DEF RecordOK, NotBefore
  <2>3. node' \in {node, WithMouse(node, now)}
    BY <1>8 DEF MouseMoves, Stored
  <2>4. /\ UNCHANGED <<now, boot, login, noticed, restarts>>
        /\ UNCHANGED <<master, net, nodeFile, masterFile>>
    BY <1>8 DEF MouseMoves, world, files
  <2>5. WorldOK'
    BY <1>1, <2>4 DEF WorldOK
  <2> QED BY <1>7, <2>2, <2>3, <2>4, <2>5
<1>9. CASE MonitorCLIActivity
  <2> DEFINE t == IF login = 0 THEN now ELSE login + Zone
  <2>1. t \in Int
    BY <1>2, FieldConstants
  <2>2. node' \in IF TimeIsOk(t) THEN Stored(node, WithCli(node, t)) ELSE {node}
    BY <1>9 DEF MonitorCLIActivity
  <2>3. /\ noticed' = login
        /\ UNCHANGED <<now, boot, login, restarts, master, net, nodeFile, masterFile>>
    BY <1>9 DEF MonitorCLIActivity, world, files
  <2> HIDE DEF t
  <2>4. WorldOK'
    BY <1>1, <1>2, <2>3 DEF WorldOK
  <2>5. CASE t <= now + Slack /\ t >= 0
    <3>1. t \in 0..now + Slack /\ 0 \in 0..now
      BY <1>2, <2>1, <2>5, FieldConstants
    <3>2. /\ WithCli(node, t) \in RecordsAt(now)
          /\ WithCli(node, t).uptime = node.uptime /\ WithCli(node, t).cli >= node.cli
      BY <1>2, <1>3, <3>1, RulesKeepRecords DEF RecordOK
    <3>3. RecordOK(WithCli(node, t)) /\ NotBefore(WithCli(node, t), node)
      BY <1>3, <1>4, <3>2 DEF RecordOK, NotBefore
    <3>4. node' \in {node, WithCli(node, t)}
      BY <2>2 DEF Stored
    <3> QED BY <1>7, <2>3, <2>4, <3>3, <3>4
  <2>6. CASE ~(t <= now + Slack /\ t >= 0)
    <3>1. node.uptime \in Nat /\ node.cli \in Nat
      BY <1>2, <1>3, RecordsHoldNumbers DEF RecordOK
    <3>2. ~TimeIsOk(t) \/ WithCli(node, t) = node
      BY <2>1, <2>6, <3>1 DEF TimeIsOk, WithCli
    <3>3. node' \in {node, node}
      BY <2>2, <3>2 DEF Stored
    <3> QED BY <1>3, <1>4, <1>7, <2>3, <2>4, <3>3
  <2> QED BY <2>5, <2>6
<1>10. ASSUME UNCHANGED <<now, boot, login, noticed, restarts>>,
              NEW x, RecordOK(x), AllRecords' \subseteq AllRecords \cup {x}, node' = node, NotBefore(master', master)
       PROVE  FieldTypeOK' /\ NodeForward /\ MasterForward
  <2>1. WorldOK' /\ now' = now /\ boot' >= boot
    BY <1>1, <1>2, <1>10 DEF WorldOK
  <2>2. FieldTypeOK'
    BY <1>5, <1>10, <2>1
  <2> QED BY <1>4, <1>10, <2>2 DEF NodeForward, MasterForward
<1>11. CASE SaveNode
  <2>1. AllRecords' \subseteq AllRecords \cup {Blank}
    BY <1>11 DEF SaveNode, AllRecords
  <2> QED BY <1>3, <1>4, <1>10, <1>11, <2>1 DEF SaveNode, world
<1>12. CASE SaveMaster
  <2>1. AllRecords' \subseteq AllRecords \cup {Blank}
    BY <1>12 DEF SaveMaster, AllRecords
  <2> QED BY <1>3, <1>4, <1>10, <1>12, <2>1 DEF SaveMaster, world
<1>13. ASSUME NEW r, RecordOK(r) PROVE RecordOK(Lifted(r))
  <2>1. 0 \in 0..now /\ 0 \in 0..now + Slack
    BY <1>2, FieldConstants
  <2>2. Lifted(r) \in RecordsAt(now) /\ Lifted(r).uptime = r.uptime
    BY <1>2, <1>13, <2>1, RulesKeepRecords DEF RecordOK
  <2> QED BY <1>13, <2>2 DEF RecordOK
<1>14. CASE Restart
  <2>1. RecordOK(Lifted(nodeFile)) /\ node' = Lifted(nodeFile)
    BY <1>3, <1>13, <1>14 DEF Restart
  <2>2. /\ now' = now /\ master' = master /\ net' = net /\ restarts' = restarts + 1
        /\ nodeFile' = nodeFile /\ masterFile' = masterFile /\ restarts < MaxRestarts
        /\ noticed' = Nobody
        /\ (boot' = boot /\ login' = login) \/ (boot' = now /\ login' = 0)
    BY <1>14 DEF Restart, StartsAgain, files
  <2>3. WorldOK' /\ boot' >= boot
    BY <1>1, <1>2, <2>2 DEF WorldOK
  <2>4. AllRecords' \subseteq AllRecords \cup {Lifted(nodeFile)}
    BY <2>1, <2>2 DEF AllRecords
  <2>5. FieldTypeOK'
    BY <1>5, <2>1, <2>2, <2>3, <2>4
  <2> QED BY <1>4, <1>14, <2>2, <2>5 DEF NodeForward, MasterForward
<1>15. CASE MasterRestart
  <2>1. RecordOK(Lifted(masterFile)) /\ master' = Lifted(masterFile)
    BY <1>3, <1>13, <1>15 DEF MasterRestart
  <2>2. /\ now' = now /\ boot' = boot /\ login' = login /\ node' = node /\ net' = net
        /\ restarts' = restarts + 1 /\ restarts < MaxRestarts /\ noticed' = noticed
        /\ nodeFile' = nodeFile /\ masterFile' = masterFile
    BY <1>15 DEF MasterRestart, StartsAgain, files, world
  <2>3. WorldOK' /\ boot' >= boot
    BY <1>1, <1>2, <2>2 DEF WorldOK
  <2>4. AllRecords' \subseteq AllRecords \cup {Lifted(masterFile)}
    BY <2>1, <2>2 DEF AllRecords
  <2>5. FieldTypeOK'
    BY <1>5, <2>1, <2>2, <2>3, <2>4
  <2> QED BY <1>4, <1>15, <2>2, <2>5 DEF NodeForward, MasterForward
<1>16. CASE SendFullState
  <2>1. AllRecords' \subseteq AllRecords \cup {node}
    BY <1>16 DEF SendFullState, AllRecords, files
  <2> QED BY <1>3, <1>4, <1>10, <1>16, <2>1 DEF SendFullState, world
<1>17. ASSUME NEW m \in net, Deliver(m) PROVE FieldTypeOK' /\ NodeForward /\ MasterForward
  <2>1. master' \in Applied(master, m) /\ RecordOK(m)
    BY <1>3, <1>17 DEF Deliver
  <2>2. RecordOK(master') /\ NotBefore(master', master)
    <3>1. /\ master' \in RecordsAt(now) /\ NotBefore(master', master)
          /\ master'.uptime \in {master.uptime, m.uptime}
      BY <1>2, <1>3, <2>1, AppliedKeepsRecords DEF RecordOK
    <3> QED BY <1>3, <2>1, <3>1 DEF RecordOK
  <2>3. AllRecords' \subseteq AllRecords \cup {master'}
    BY <1>17 DEF Deliver, AllRecords, files
  <2> QED BY <1>10, <1>17, <2>2, <2>3 DEF Deliver, world
<1>18. ASSUME NEW m \in net, Lose(m) PROVE FieldTypeOK' /\ NodeForward /\ MasterForward
  <2>1. AllRecords' \subseteq AllRecords \cup {node}
    BY <1>18 DEF Lose, AllRecords, files
  <2> QED BY <1>3, <1>4, <1>10, <1>18, <2>1 DEF Lose, world
<1>19. CASE Tick
  <2>1. /\ now < MaxTime /\ now' = now + 1 /\ UNCHANGED <<boot, login, noticed, restarts>>
        /\ UNCHANGED <<node, master, net, nodeFile, masterFile>>
    BY <1>19 DEF Tick, files
  <2>2. WorldOK' /\ now' >= now /\ boot' >= boot
    BY <1>1, <1>2, <2>1, FieldConstants DEF WorldOK, Nobody
  <2>3. \A r \in AllRecords : r \in RecordsAt(now') /\ r.uptime <= boot' + Jitter
    BY <1>1, <2>2, RecordsStayRight
  <2>4. FieldTypeOK'
    BY <2>1, <2>2, <2>3 DEF FieldTypeOK, WorldOK, AllRecords
  <2> QED BY <1>4, <2>1, <2>4 DEF NodeForward, MasterForward
<1>20. CASE Sessions
  <2>1. /\ UNCHANGED <<now, boot, noticed, restarts, node, master, net, nodeFile, masterFile>>
        /\ login' \in {0} \cup boot..now
    BY <1>20 DEF Sessions, files
  <2>2. WorldOK'
    BY <1>1, <2>1 DEF WorldOK
  <2> QED BY <1>3, <1>4, <1>7, <2>1, <2>2
<1>21. CASE UNCHANGED vars
  <2>1. AllRecords' \subseteq AllRecords \cup {node}
    BY <1>21 DEF vars, AllRecords, files
  <2> QED BY <1>3, <1>4, <1>10, <1>21, <2>1 DEF vars, world
<1> QED BY <1>6, <1>8, <1>9, <1>11, <1>12, <1>14, <1>15, <1>16, <1>17, <1>18, <1>19, <1>20, <1>21
        DEF Next

\* Type correctness: no time lies further in the future than the rules allow at the moment
\* (activity_monitor.go:306), and no boot is later than it is measured to be
\* (system_monitor.go:271), in the records, the files and what is under way.
THEOREM FieldTypeCorrect == Spec => []FieldTypeOK
  BY FieldInit, FieldStep, PTL DEF Spec

\* Neither a full state that arrives late nor the order in which its fields are taken moves
\* boot or terminal activity of a record back (server.go:387, 582): only a start of the
\* process does, which reads a file.
THEOREM FieldNeverBack == Spec => NeverBack
<1>1. FieldTypeOK /\ [Next]_vars => [NodeForward /\ MasterForward]_vars
  BY FieldStep
<1> QED BY <1>1, FieldTypeCorrect, PTL DEF Spec, NeverBack

---------------------------------------------------------------------------
(* The order of the fields *)

\* With activity from after the boot it carries, a message yields the same record whether
\* its boot or its activity is taken first.
LEMMA UptimeMouseCommute ==
  ASSUME NEW n \in Nat, NEW r \in RecordsAt(n), NEW u \in Nat, NEW t \in Nat, t >= u
  PROVE  WithMouse(WithUptime(r, u), t) = WithUptime(WithMouse(r, t), u)
  BY RecordsHoldNumbers DEF WithMouse, WithUptime, RecordsAt

LEMMA UptimeCliCommute ==
  ASSUME NEW n \in Nat, NEW r \in RecordsAt(n), NEW u \in Nat, NEW t \in Nat, t >= u
  PROVE  WithCli(WithUptime(r, u), t) = WithUptime(WithCli(r, t), u)
  BY RecordsHoldNumbers DEF WithCli, WithUptime, RecordsAt

LEMMA MouseCliCommute ==
  ASSUME NEW n \in Nat, NEW r \in RecordsAt(n), NEW s \in Nat, NEW t \in Nat
  PROVE  WithCli(WithMouse(r, s), t) = WithMouse(WithCli(r, t), s)
  BY RecordsHoldNumbers DEF WithCli, WithMouse, RecordsAt

LEMMA OneOutcome ==
  ASSUME NEW n \in Nat, NEW r \in RecordsAt(n), NEW m \in RecordsAt(n),
         m.mouse >= m.uptime, m.cli >= m.uptime,
         NEW mf \in BOOLEAN, NEW cf \in BOOLEAN
  PROVE  Ordered(r, m, mf, cf) = WithUptime(WithCli(WithMouse(r, m.mouse), m.cli), m.uptime)
<1> DEFINE u == m.uptime
           s == m.mouse
           t == m.cli
<1>1. /\ u \in 0..n /\ s \in 0..n /\ t \in 0..n + Slack /\ s >= u /\ t >= u
      /\ u \in Nat /\ s \in Nat /\ t \in Nat
  BY FieldConstants DEF RecordsAt
<1>2. WithMouse(r, s) \in RecordsAt(n) /\ WithCli(r, t) \in RecordsAt(n)
  BY <1>1, RulesKeepRecords
<1> HIDE DEF u, s, t
<1>3. CASE mf /\ cf
  BY <1>3 DEF Ordered, u, s, t
<1>4. CASE mf /\ ~cf
  <2>1. Ordered(r, m, mf, cf) = WithCli(WithUptime(WithMouse(r, s), u), t)
    BY <1>4 DEF Ordered, u, s, t
  <2> QED BY <1>1, <1>2, <2>1, UptimeCliCommute DEF u, s, t
<1>5. CASE ~mf /\ cf
  <2>1. Ordered(r, m, mf, cf) = WithMouse(WithUptime(WithCli(r, t), u), s)
    BY <1>5 DEF Ordered, u, s, t
  <2>2. @ = WithUptime(WithMouse(WithCli(r, t), s), u)
    BY <1>1, <1>2, UptimeMouseCommute
  <2> QED BY <1>1, <2>1, <2>2, MouseCliCommute DEF u, s, t
<1>6. CASE ~mf /\ ~cf
  <2>1. Ordered(r, m, mf, cf) = WithCli(WithMouse(WithUptime(r, u), s), t)
    BY <1>6 DEF Ordered, u, s, t
  <2>2. @ = WithCli(WithUptime(WithMouse(r, s), u), t)
    BY <1>1, UptimeMouseCommute
  <2> QED BY <1>1, <1>2, <2>1, <2>2, UptimeCliCommute DEF u, s, t
<1> QED BY <1>3, <1>4, <1>5, <1>6

\* The random order in which Go ranges over a message (server.go:225) decides nothing, as
\* long as the activity in the message is not from before its boot.
THEOREM FieldOrderIsImmaterial == Spec => []OrderIsImmaterial
<1>1. FieldTypeOK => OrderIsImmaterial
  <2> SUFFICES ASSUME FieldTypeOK, NEW m \in net, m.mouse >= m.uptime, m.cli >= m.uptime
               PROVE  Cardinality(Applied(master, m)) = 1
    BY DEF OrderIsImmaterial
  <2> DEFINE x == WithUptime(WithCli(WithMouse(master, m.mouse), m.cli), m.uptime)
  <2>1. now \in Nat /\ master \in RecordsAt(now) /\ m \in RecordsAt(now)
    BY FieldConstants DEF FieldTypeOK
  <2>2. \A mf, cf \in BOOLEAN : Ordered(master, m, mf, cf) = x
    BY <2>1, OneOutcome
  <2> HIDE DEF x
  <2>3. Applied(master, m) = {x}
    <3>1. ASSUME NEW y \in Applied(master, m) PROVE y = x
      <4>1. PICK mf \in BOOLEAN, cf \in BOOLEAN : y = Ordered(master, m, mf, cf)
        BY DEF Applied
      <4> QED BY <2>2, <4>1
    <3>2. \E mf, cf \in BOOLEAN : x = Ordered(master, m, mf, cf)
      BY <2>2
    <3>3. x \in Applied(master, m)
      BY <3>2 DEF Applied
    <3> QED BY <3>1, <3>3
  <2> QED BY <2>3, FS_Singleton
<1> QED BY <1>1, FieldTypeCorrect, PTL

---------------------------------------------------------------------------
(* One state is enough *)

LEMMA OrderedBringsUpToDate ==
  ASSUME NEW n \in Nat, NEW r \in RecordsAt(n), NEW m \in RecordsAt(n),
         NEW mf \in BOOLEAN, NEW cf \in BOOLEAN
  PROVE  LET x == Ordered(r, m, mf, cf) IN
         /\ x.uptime >= m.uptime
         /\ m.mouse # 0 /\ m.mouse >= m.uptime /\ m.mouse >= x.uptime => x.mouse = m.mouse
         /\ m.cli # 0 /\ m.cli >= m.uptime /\ m.cli >= x.uptime => x.cli >= m.cli
<1>1. /\ r.uptime \in Nat /\ r.mouse \in Nat /\ r.cli \in Nat
      /\ m.uptime \in Nat /\ m.mouse \in Nat /\ m.cli \in Nat
  BY RecordsHoldNumbers
<1>2. r = [uptime |-> r.uptime, mouse |-> r.mouse, cli |-> r.cli]
  BY DEF RecordsAt
<1>3. CASE mf /\ cf
  BY <1>1, <1>2, <1>3 DEF Ordered, WithUptime, WithMouse, WithCli
<1>4. CASE mf /\ ~cf
  BY <1>1, <1>2, <1>4 DEF Ordered, WithUptime, WithMouse, WithCli
<1>5. CASE ~mf /\ cf
  BY <1>1, <1>2, <1>5 DEF Ordered, WithUptime, WithMouse, WithCli
<1>6. CASE ~mf /\ ~cf
  BY <1>1, <1>2, <1>6 DEF Ordered, WithUptime, WithMouse, WithCli
<1> QED BY <1>3, <1>4, <1>5, <1>6

\* Whatever the master had, and whichever files were lost, one full state of the node as it
\* is, in any order of its fields (server.go:225), brings the master up to date.
THEOREM FieldOneStateIsEnough == Spec => OneStateIsEnough
<1>1. FieldTypeOK /\ [Next]_vars => [TakesPresentState => UpToDate']_vars
  <2> SUFFICES ASSUME FieldTypeOK, node \in net, Deliver(node) PROVE UpToDate'
    BY DEF TakesPresentState
  <2>1. master' \in Applied(master, node) /\ node' = node
    BY DEF Deliver
  <2>2. PICK mf \in BOOLEAN, cf \in BOOLEAN : master' = Ordered(master, node, mf, cf)
    BY <2>1 DEF Applied
  <2>3. now \in Nat /\ master \in RecordsAt(now) /\ node \in RecordsAt(now)
    BY FieldConstants DEF FieldTypeOK
  <2> QED BY <2>1, <2>2, <2>3, OrderedBringsUpToDate DEF UpToDate, SinceBoot
<1> QED BY <1>1, FieldTypeCorrect, PTL DEF Spec, OneStateIsEnough
=============================================================================
