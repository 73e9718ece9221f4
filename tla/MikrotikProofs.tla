---------------------------- MODULE MikrotikProofs ----------------------------
(***************************************************************************)
(* Theorems about the MikroTik monitor, for every set of devices and of    *)
(* rules: type correctness, and that a file that can be read is right for  *)
(* the device whose save wrote it.                                         *)
(***************************************************************************)
EXTENDS MikrotikMulti, TLAPS

\* Only a device that has been connected is polled, and nothing is polled or saved before
\* the monitor is started.
Polled == /\ \A d \in Devices : loop[d] # "off" => client[d] # "none"
          /\ boot # "started" => file = Empty /\ \A d \in Devices : loop[d] = "off"

\* A save reads the rules of its own device once, and they stay what they are meanwhile:
\* the device's goroutine, which alone changes them, is busy saving.
OwnRules ==
  \A d \in Devices :
    /\ loop[d] = "read" => d \in left[d] \/ snap[d][d] = current[d]
    /\ loop[d] = "write" => snap[d][d] = current[d]

MtInv == MtTypeOK /\ Polled /\ OwnRules /\ LastSaveIsRight

LEMMA MtInit0 == MtInit => MtInv
<1> SUFFICES ASSUME MtInit PROVE MtInv
  OBVIOUS
<1>1. NoRules \in RuleSets
  BY DEF NoRules, RuleSets
<1>2. MtTypeOK
  <2>1. missed \in [Devices -> BOOLEAN]
    BY DEF MtInit
  <2>2. file \in Files
    BY DEF MtInit, Files
  <2> QED BY <1>1, <2>1, <2>2 DEF MtInit, MtTypeOK, NoRules
<1>3. file.kind = "empty"
  BY DEF MtInit, Empty
<1> QED BY <1>2, <1>3, MtConstants DEF MtInit, MtInv, Polled, OwnRules, LastSaveIsRight

\* Steps that leave the goroutines and the file alone.
LEMMA MtFrame ==
  ASSUME MtInv, UNCHANGED <<loopVars, fileVars>>,
         \A d \in Devices : client[d] # "none" => client'[d] # "none",
         boot = "started" => boot' = "started", boot' = "started" => boot = "started"
  PROVE  Polled' /\ OwnRules' /\ LastSaveIsRight'
  BY DEF MtInv, Polled, OwnRules, LastSaveIsRight, loopVars, fileVars

LEMMA MtStep == MtInv /\ [MtNext]_vars => MtInv'
<1> SUFFICES ASSUME MtInv, [MtNext]_vars PROVE MtInv'
  OBVIOUS
<1> USE DEF routerVars, bootVars, loopVars, endVars, fileVars
<1>1. MtTypeOK /\ Polled /\ OwnRules /\ LastSaveIsRight
  BY DEF MtInv
<1>2. ASSUME NEW d \in Devices, Edit(d) PROVE MtInv'
  <2>1. rules' \in RuleSets
    BY <1>1, <1>2 DEF Edit, MtTypeOK, RuleSets
  <2>2. MtTypeOK'
    BY <1>1, <1>2, <2>1 DEF Edit, MtTypeOK
  <2> QED BY <1>2, <2>2, MtFrame DEF Edit, MtInv
<1>3. ASSUME NEW d \in Devices, NEW r \in BOOLEAN, Reachable(d, r) PROVE MtInv'
  <2>1. MtTypeOK' /\ \A e \in Devices : client[e] # "none" => client'[e] # "none"
    BY <1>1, <1>3 DEF Reachable, MtTypeOK
  <2> QED BY <1>3, <2>1, MtFrame DEF Reachable, MtInv
<1>4. ASSUME NEW d \in Devices, Connect(d) PROVE MtInv'
  <2>1. MtTypeOK' /\ \A e \in Devices : client[e] # "none" => client'[e] # "none"
    BY <1>1, <1>4 DEF Connect, MtTypeOK
  <2> QED BY <1>4, <2>1, MtFrame DEF Connect, MtInv
<1>5. ASSUME NEW d \in Devices, Fetch(d) PROVE MtInv'
  <2>1. got' \in RuleSets
    BY <1>1, <1>5 DEF Fetch, MtTypeOK, RuleSets
  <2>2. MtTypeOK'
    BY <1>1, <1>5, <2>1 DEF Fetch, MtTypeOK
  <2> QED BY <1>1, <1>5, <2>2
          DEF Fetch, MtTypeOK, MtInv, Polled, OwnRules, LastSaveIsRight
<1>6. ASSUME NEW d \in Devices, Update(d) PROVE MtInv'
  <2>1. current' \in RuleSets
    BY <1>1, <1>6 DEF Update, MtTypeOK, RuleSets
  <2>5. got' \in RuleSets
    BY <1>1, <1>6 DEF Update, MtTypeOK, RuleSets
  <2>2. MtTypeOK'
    BY <1>1, <1>6, <2>1, <2>5 DEF Update, MtTypeOK
  <2>3. loop[d] = "fetched" /\ \A e \in Devices \ {d} : loop'[e] = loop[e] /\ current'[e] = current[e]
    BY <1>1, <1>6 DEF Update, MtTypeOK, RuleSets
  <2>4. loop'[d] \in {"collect", "idle"} /\ (loop'[d] = "idle" => current'[d] = current[d])
    BY <1>1, <1>6 DEF Update, MtTypeOK, RuleSets, Changed
  <2> QED BY <1>1, <1>6, <2>2, <2>3, <2>4
          DEF Update, MtInv, Polled, OwnRules, LastSaveIsRight
<1>7. ASSUME NEW d \in Devices, SaveCollect(d) PROVE MtInv'
  <2>1. NoRules \in RuleSets /\ Monitors \subseteq Devices /\ d \in Monitors
    BY <1>1, <1>7 DEF NoRules, RuleSets, Monitors, SaveCollect, Polled
  <2>2. MtTypeOK'
    BY <1>1, <1>7, <2>1 DEF SaveCollect, MtTypeOK
  <2>3. /\ \A e \in Devices \ {d} : /\ loop'[e] = loop[e] /\ left'[e] = left[e]
                                    /\ snap'[e] = snap[e]
        /\ loop'[d] = "read" /\ d \in left'[d] /\ loop[d] = "collect"
    BY <1>1, <1>7, <2>1 DEF SaveCollect, MtTypeOK
  <2> QED BY <1>1, <1>7, <2>2, <2>3
          DEF SaveCollect, MtInv, Polled, OwnRules, LastSaveIsRight
<1>8. ASSUME NEW d \in Devices, NEW e \in Devices, SaveRead(d, e) PROVE MtInv'
  <2>1. snap[d] \in RuleSets /\ current[e] \in SUBSET Rules
    BY <1>1 DEF MtTypeOK, RuleSets
  <2>2. [snap[d] EXCEPT ![e] = current[e]] \in RuleSets
    BY <2>1 DEF RuleSets
  <2>3. snap' = [snap EXCEPT ![d] = [snap[d] EXCEPT ![e] = current[e]]]
    BY <1>8 DEF SaveRead
  <2>4. snap' \in [Devices -> RuleSets]
    BY <1>1, <2>2, <2>3 DEF MtTypeOK
  <2>5. MtTypeOK'
    BY <1>1, <1>8, <2>4 DEF SaveRead, MtTypeOK
  <2>6. \A g \in Devices \ {d} : left'[g] = left[g] /\ snap'[g] = snap[g]
    BY <1>1, <1>8, <2>3 DEF SaveRead, MtTypeOK
  <2>7. d \in left'[d] \/ snap'[d][d] = current[d]
    <3>1. snap'[d] = [snap[d] EXCEPT ![e] = current[e]] /\ left'[d] = left[d] \ {e}
      BY <1>1, <1>8, <2>3 DEF SaveRead, MtTypeOK
    <3>2. snap'[d][e] = current[e] /\ \A g \in Devices \ {e} : snap'[d][g] = snap[d][g]
      BY <2>1, <3>1 DEF RuleSets
    <3> QED BY <1>1, <1>8, <3>1, <3>2 DEF SaveRead, OwnRules
  <2> QED BY <1>1, <1>8, <2>5, <2>6, <2>7
          DEF SaveRead, MtInv, Polled, OwnRules, LastSaveIsRight
<1>9. ASSUME NEW d \in Devices, SaveSkip(d) \/ SaveOpen(d) \/ SaveWrite(d) \/ SaveFail(d)
      PROVE  MtInv'
  <2>1. /\ loop[d] \in {"read", "write"} /\ loop'[d] \in {"idle", "write"}
        /\ \A e \in Devices \ {d} : loop'[e] = loop[e] /\ snap'[e] = snap[e] /\ missed'[e] = missed[e]
        /\ UNCHANGED <<routerVars, bootVars, writer, client, got, current, left, endVars>>
    BY <1>1, <1>9 DEF SaveSkip, SaveOpen, SaveWrite, SaveFail, MtTypeOK
  <2>2. boot = "started"
    BY <1>1, <2>1 DEF Polled
  <2>3. snap[d] \in RuleSets /\ NoRules \in RuleSets
    BY <1>1 DEF MtTypeOK, NoRules, RuleSets
  <2>4. Written(d, snap[d]) \in Files /\ Empty \in Files /\ Torn \in Files
    BY <2>3 DEF Written, Files
  <2>5. loop' \in [Devices -> {"off", "idle", "fetched", "collect", "read", "write", "done"}]
    BY <1>1, <1>9 DEF SaveSkip, SaveOpen, SaveWrite, SaveFail, MtTypeOK
  <2>6. snap' \in [Devices -> RuleSets] /\ missed' \in [Devices -> BOOLEAN]
    <3>1. CASE SaveSkip(d) \/ SaveOpen(d)
      BY <1>1, <3>1 DEF SaveSkip, SaveOpen, MtTypeOK
    <3>2. CASE SaveWrite(d) \/ SaveFail(d)
      <4>1. snap' \in [Devices -> RuleSets]
        BY <1>1, <2>3, <3>2 DEF SaveWrite, SaveFail, MtTypeOK
      <4>2. missed' \in [Devices -> BOOLEAN]
        BY <1>1, <3>2 DEF SaveWrite, SaveFail, MtTypeOK
      <4> QED BY <4>1, <4>2
    <3> QED BY <1>9, <3>1, <3>2
  <2>7. file' \in {file, Empty, Torn, Written(d, snap[d])}
    BY <1>9 DEF SaveSkip, SaveOpen, SaveWrite, SaveFail, Overwritten
  <2>8. file' \in Files
    BY <1>1, <2>4, <2>7 DEF MtTypeOK
  <2>9. MtTypeOK'
    BY <1>1, <2>1, <2>5, <2>6, <2>8 DEF MtTypeOK
  <2>10. Polled'
    BY <1>1, <2>1, <2>2 DEF Polled
  <2>11. loop'[d] = "write" => snap'[d][d] = current[d]
    <3>1. loop'[d] = "write" => SaveOpen(d)
      BY <1>1, <1>9 DEF SaveSkip, SaveWrite, SaveFail, MtTypeOK
    <3>2. SaveOpen(d) => d \notin left[d] /\ loop[d] = "read" /\ snap' = snap
      BY DEF SaveOpen
    <3> QED BY <1>1, <3>1, <3>2 DEF OwnRules
  <2>12. OwnRules'
    BY <1>1, <2>1, <2>11 DEF OwnRules
  <2>13. /\ Empty.kind = "empty" /\ Torn.kind = "torn"
         /\ Written(d, snap[d]).by = d /\ Written(d, snap[d]).rules = snap[d]
    BY DEF Empty, Torn, Written
  <2>14. LastSaveIsRight'
    <3> SUFFICES ASSUME NEW e \in Devices, file'.kind = "ok", file'.by = e,
                        loop'[e] \in {"idle", "fetched", "done"}, ~missed'[e]
                 PROVE  file'.rules[e] = current[e] \/ current[e] = {}
      BY <2>1 DEF LastSaveIsRight
    <3>1. CASE e # d
      <4>1. file' = file
        BY <2>7, <2>13, <3>1
      <4> QED BY <1>1, <2>1, <3>1, <4>1 DEF LastSaveIsRight
    <3>2. CASE e = d
      <4>1. CASE SaveSkip(d)
        <5>1. snap[d][d] = current[d] /\ snap[d] = NoRules
          BY <1>1, <4>1 DEF SaveSkip, NothingToSave, OwnRules
        <5> QED BY <3>2, <5>1 DEF NoRules
      <4>2. CASE SaveOpen(d)
        BY <2>13, <4>2 DEF SaveOpen
      <4>3. CASE SaveWrite(d)
        <5>1. snap[d][d] = current[d]
          BY <1>1, <4>3 DEF SaveWrite, OwnRules
        <5>2. file' = Written(d, snap[d])
          BY <2>13, <4>3 DEF SaveWrite, Overwritten
        <5> QED BY <2>13, <3>2, <5>1, <5>2
      <4>4. CASE SaveFail(d)
        <5>1. missed'[d] = TRUE
          BY <1>1, <4>4 DEF SaveFail, MtTypeOK
        <5> QED BY <3>2, <5>1
      <4> QED BY <1>9, <4>1, <4>2, <4>3, <4>4
    <3> QED BY <3>1, <3>2
  <2> QED BY <2>9, <2>10, <2>12, <2>14 DEF MtInv
<1>10. ASSUME NEW d \in Devices, LoopEnd(d) PROVE MtInv'
  <2>1. /\ loop[d] = "idle" /\ loop'[d] = "done"
        /\ \A e \in Devices \ {d} : loop'[e] = loop[e]
    BY <1>1, <1>10 DEF LoopEnd, MtTypeOK
  <2>2. MtTypeOK'
    BY <1>1, <1>10 DEF LoopEnd, MtTypeOK
  <2> QED BY <1>1, <1>10, <2>1, <2>2
          DEF LoopEnd, MtInv, Polled, OwnRules, LastSaveIsRight
<1>11. CASE Attempt \/ Connected
  <2>1. MtTypeOK' /\ boot # "started" /\ boot' # "started"
    BY <1>1, <1>11 DEF Attempt, Connected, AfterAttempt, MtTypeOK
  <2> QED BY <1>11, <2>1, MtFrame DEF Attempt, Connected, MtInv
<1>12. CASE Start
  <2>1. MtTypeOK'
    BY <1>1, <1>12 DEF Start, MtTypeOK
  <2>2. file' = Empty /\ \A d \in Devices : /\ loop'[d] \in {"idle", "off"}
                                            /\ loop'[d] = "idle" => client[d] # "none"
    BY <1>1, <1>12 DEF Start, Watched, Monitors, Polled
  <2>3. file'.kind = "empty"
    BY <2>2 DEF Empty
  <2> QED BY <1>12, <2>1, <2>2, <2>3, MtConstants
          DEF Start, MtInv, Polled, OwnRules, LastSaveIsRight
<1>13. CASE Shutdown \/ CloseLock \/ UNCHANGED vars
  <2>1. MtTypeOK'
    BY <1>1, <1>13 DEF Shutdown, CloseLock, vars, MtTypeOK
  <2> QED BY <1>13, <2>1, MtFrame DEF Shutdown, CloseLock, vars, MtInv
<1>14. CASE ExitMain
  <2>1. NoRules \in RuleSets /\ NoRules \in [Devices -> SUBSET Devices]
    BY DEF NoRules, RuleSets
  <2>2. MtTypeOK'
    BY <1>1, <1>14, <2>1 DEF ExitMain, MtTypeOK
  <2>3. \A d \in Devices : loop'[d] = "off"
    BY <1>14 DEF ExitMain
  <2> QED BY <1>1, <1>14, <2>2, <2>3
          DEF ExitMain, MtInv, Polled, OwnRules, LastSaveIsRight
<1> QED BY <1>2, <1>3, <1>4, <1>5, <1>6, <1>7, <1>8, <1>9, <1>10, <1>11, <1>12, <1>13, <1>14
        DEF MtNext, LoopStep

\* Types of what the goroutines of the routers share (mikrotik_multi_service.go:37).
THEOREM MikrotikTypeCorrect == MtSpec => []MtTypeOK
<1>1. MtInv => MtTypeOK
  BY DEF MtInv
<1> QED BY <1>1, MtInit0, MtStep, PTL DEF MtSpec

\* For any number of routers, and however their saves of everybody's rules overlap, tear the
\* file or fail, a file that can be read has the rules of the router whose save wrote it, if no
\* later save for it failed (mikrotik_multi_service.go:165, mikrotik_manager.go:93).
THEOREM MikrotikLastSaveIsRight == MtSpec => []LastSaveIsRight
<1>1. MtInv => LastSaveIsRight
  BY DEF MtInv
<1> QED BY <1>1, MtInit0, MtStep, PTL DEF MtSpec
=============================================================================
