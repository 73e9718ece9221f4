------------------------------ MODULE EsxiProofs ------------------------------
(***************************************************************************)
(* Theorems about the ESXi monitor, for every set of hosts: type           *)
(* correctness, and that the differences which are broadcast are enough    *)
(* for the dashboard to show nothing older than what is stored.            *)
(***************************************************************************)
EXTENDS EsxiMonitor, TLAPS

\* No goroutine runs in a process that is down or waits for its configuration, the bounds
\* on changes and exits hold where they are spent, and the holder is where its step says.
Idle == phase \in {"down", "wait"} => \A h \in Hosts : task[h] = "new"
Spent == /\ phase = "stop" => exits < MaxExits
         /\ \A h \in Hosts : version[h].key <= changes + 1 /\ version[h].rest <= changes + 1

\* While a goroutine holds the mutex the dashboard may lag for its host, and for that only:
\* by the status it is about to be sent, or by the values that are still to be compared.
SameValues(shown, stored) == shown.key = stored.key /\ shown.rest \in {stored.rest, 0}
Agrees ==
  LET h == holder.host IN
  /\ \A g \in Hosts : holder = Free \/ h # g => Agreed(dash[g], data[g])
  /\ holder.step = "offline" => data[h].status = "offline" /\ SameValues(dash[h], data[h])
  /\ holder.step = "online" => holder.prev = data[h] /\ SameValues(dash[h], data[h])
  /\ holder.step = "update" => /\ holder.prev = data[h] /\ dash[h].status = "online"
                               /\ SameValues(dash[h], data[h])
  /\ holder.step = "compare" => /\ data[h].status = "online" /\ dash[h].status = "online"
                                /\ SameValues(dash[h], holder.prev)

EsxiInv == EsxiTypeOK /\ Idle /\ Spent /\ Agrees

LEMMA OneVersion == Versions \subseteq Nat /\ 0 \in Versions /\ 1 \in Versions
  BY EsxiConstants DEF Versions

LEMMA ReportFields ==
  ASSUME NEW v \in Reports, NEW f \in {"key", "rest"}, v[f] + 1 \in Versions
  PROVE  LET w == [v EXCEPT ![f] = v[f] + 1] IN
         /\ w \in Reports /\ w.key \in {v.key, v.key + 1} /\ w.rest \in {v.rest, v.rest + 1}
<1>1. CASE f = "key"
  BY <1>1 DEF Reports
<1>2. CASE f = "rest"
  BY <1>2 DEF Reports
<1> QED BY <1>1, <1>2

WithStatus(e, s) == [e EXCEPT !.status = s]

LEMMA OnlyTheStatus ==
  ASSUME NEW e \in Entries, NEW s \in {"online", "offline"}
  PROVE  /\ WithStatus(e, s) \in Entries /\ WithStatus(e, s).status = s
         /\ WithStatus(e, s).key = e.key /\ WithStatus(e, s).rest = e.rest
<1>1. CASE e = Unknown
  BY <1>1, OneVersion DEF Entries, Unknown, WithStatus
<1>2. CASE e \in [status : {"online", "offline"}, key : Versions, rest : Versions]
  BY <1>2 DEF Entries, WithStatus
<1> QED BY <1>1, <1>2 DEF Entries

LEMMA OnlyTheStatusOfOne ==
  ASSUME NEW d \in [Hosts -> Entries], NEW h \in Hosts, NEW s \in {"online", "offline"}
  PROVE  LET f == [d EXCEPT ![h].status = s] IN
         /\ f \in [Hosts -> Entries] /\ \A g \in Hosts \ {h} : f[g] = d[g]
         /\ f[h].status = s /\ f[h].key = d[h].key /\ f[h].rest = d[h].rest
<1> DEFINE f == [d EXCEPT ![h] = WithStatus(d[h], s)]
<1>1. [d EXCEPT ![h].status = s] = f
  BY DEF WithStatus
<1>2. d[h] \in Entries
  OBVIOUS
<1>3. /\ WithStatus(d[h], s) \in Entries /\ WithStatus(d[h], s).status = s
      /\ WithStatus(d[h], s).key = d[h].key /\ WithStatus(d[h], s).rest = d[h].rest
  BY <1>2, OnlyTheStatus
<1>4. /\ f \in [Hosts -> Entries] /\ \A g \in Hosts \ {h} : f[g] = d[g]
      /\ f[h] = WithStatus(d[h], s)
  BY <1>3
<1> HIDE DEF f
<1> QED BY <1>1, <1>3, <1>4

LEMMA EntryFields == \A e \in Entries : e.key \in Versions /\ e.rest \in Versions
<1> SUFFICES ASSUME NEW e \in Entries PROVE e.key \in Versions /\ e.rest \in Versions
  OBVIOUS
<1>1. CASE e = Unknown
  BY <1>1, OneVersion DEF Unknown
<1>2. CASE e \in [status : {"online", "offline"}, key : Versions, rest : Versions]
  BY <1>2
<1> QED BY <1>1, <1>2 DEF Entries

LEMMA EntriesAgreeWithThemselves == \A e : Agreed(e, e)
  BY DEF Agreed

\* Sending the fields that differ, or the key fields of a new host, makes up for the entry,
\* but for the rest of a new host, which stays blank.
LEMMA DifferencesAreEnough ==
  ASSUME NEW prev \in Entries, NEW e \in Entries, dash[holder.host] \in Entries,
         dash[holder.host].status = "online", e.status = "online",
         SameValues(dash[holder.host], prev)
  PROVE  Shown(prev, e) \in Entries /\ Agreed(Shown(prev, e), e)
<1> DEFINE d == dash[holder.host]
           w == Shown(prev, e)
<1>1. /\ w = [f \in {"status", "key", "rest"} |-> IF f \in Sent(prev, e) THEN e[f] ELSE d[f]]
      /\ d \in Entries /\ d.status = "online"
      /\ d.key = prev.key /\ (d.rest = prev.rest \/ d.rest = 0)
  BY DEF Shown, SameValues
<1>2. /\ e.key \in Versions /\ e.rest \in Versions
      /\ d.key \in Versions /\ d.rest \in Versions
  <2>1. \A x \in Entries : x.key \in Versions /\ x.rest \in Versions
    BY EntryFields
  <2> QED BY <1>1, <2>1
<1>3. /\ "status" \notin Sent(prev, e) => prev.status = e.status
      /\ "key" \notin Sent(prev, e) => prev.key = e.key
      /\ "rest" \notin Sent(prev, e) => prev.rest = e.rest \/ prev.rest = 0
  <2>1. CASE prev = Unknown
    BY <2>1 DEF Sent, Unknown
  <2>2. CASE prev # Unknown
    BY <2>2 DEF Sent
  <2> QED BY <2>1, <2>2
<1> HIDE DEF d
<1>4. w.status = "online" /\ w.key = e.key /\ (w.rest = e.rest \/ w.rest = 0)
  BY <1>1, <1>3
<1>5. w = [status |-> w.status, key |-> w.key, rest |-> w.rest]
  BY <1>1
<1> HIDE DEF w
<1>6. w \in Entries
  BY <1>2, <1>4, <1>5, OneVersion DEF Entries
<1> QED BY <1>4, <1>6 DEF Agreed, w

LEMMA HoldersHaveAHost ==
  ASSUME NEW k \in HolderStates, k # Free
  PROVE  /\ k.host \in Hosts /\ k.step \in {"offline", "online", "update", "compare"}
         /\ k.step # "offline" =>
              /\ k.prev \in Entries
              /\ \A s \in {"update", "compare"} :
                   LET j == [k EXCEPT !.step = s] IN
                   j \in HolderStates /\ j.step = s /\ j.host = k.host /\ j.prev = k.prev
<1>1. CASE k \in [step : {"offline"}, host : Hosts]
  BY <1>1
<1>2. CASE k \in [step : {"online", "update", "compare"}, host : Hosts, prev : Entries]
  BY <1>2 DEF HolderStates
<1> QED BY <1>1, <1>2 DEF HolderStates

LEMMA FreeIsFree == Free \in HolderStates /\ Free.step = "free"
  BY DEF HolderStates, Free

LEMMA EsxiInit == Init => EsxiInv
<1> SUFFICES ASSUME Init PROVE EsxiInv
  OBVIOUS
<1>1. NoEntries \in [Hosts -> Entries]
  BY DEF NoEntries, Entries
<1>2. version \in [Hosts -> Reports] /\ found \in [Hosts -> Reports]
  <2>1. version = [h \in Hosts |-> [key |-> 1, rest |-> 1]] /\ found = [h \in Hosts |-> Nothing]
    BY DEF Init
  <2>2. [key |-> 1, rest |-> 1] \in Reports /\ Nothing \in Reports
    BY OneVersion DEF Reports, Nothing
  <2>3. \A c \in Reports : [h \in Hosts |-> c] \in [Hosts -> Reports]
    OBVIOUS
  <2> QED BY <2>1, <2>2, <2>3, Zenon
<1>3. \A h \in Hosts : version[h].key <= changes + 1 /\ version[h].rest <= changes + 1
  <2>1. \A h \in Hosts : version[h].key = 1 /\ version[h].rest = 1
    BY DEF Init
  <2>2. changes = 0
    BY DEF Init
  <2>3. 1 <= changes + 1
    BY <2>2
  <2> QED BY <2>1, <2>3
<1>4. changes \in 0..MaxChanges /\ exits \in 0..MaxExits
  BY EsxiConstants DEF Init
<1>5. holder = Free /\ holder \in HolderStates
  BY FreeIsFree DEF Init
<1>6. /\ phase = "wait" /\ dotenv \in Settings /\ env \in Settings
      /\ up \in SUBSET Hosts /\ session \in SUBSET Hosts /\ whole \in SUBSET Hosts
      /\ task \in [Hosts -> {"new", "dial", "watch", "found", "failed", "ended"}]
      /\ \A h \in Hosts : task[h] = "new"
      /\ data \in [Hosts -> Entries] /\ dash \in [Hosts -> Entries]
      /\ file \in [Hosts -> Entries] /\ stalled \in BOOLEAN
  BY <1>1 DEF Init
<1>7. Agrees
  BY <1>5, FreeIsFree, EntriesAgreeWithThemselves DEF Init, Agrees
<1> QED BY <1>2, <1>3, <1>4, <1>5, <1>6, <1>7 DEF EsxiInv, EsxiTypeOK, Idle, Spent

---------------------------------------------------------------------------
(* Type correctness *)

\* What a step has to establish of the type invariant, by the parts of the state.
CtlOK  == phase \in {"down", "wait", "run", "stop"} /\ dotenv \in Settings /\ env \in Settings
HostOK == /\ up \in SUBSET Hosts /\ session \in SUBSET Hosts /\ whole \in SUBSET Hosts
          /\ version \in [Hosts -> Reports]
TaskOK == /\ task \in [Hosts -> {"new", "dial", "watch", "found", "failed", "ended"}]
          /\ found \in [Hosts -> Reports]
HoldOK == /\ holder \in HolderStates
          /\ holder # Free =>
               task[holder.host] = IF holder.step = "offline" THEN "failed" ELSE "found"
DataOK == data \in [Hosts -> Entries] /\ dash \in [Hosts -> Entries] /\ file \in [Hosts -> Entries]
CountOK == stalled \in BOOLEAN /\ changes \in 0..MaxChanges /\ exits \in 0..MaxExits

Good == CtlOK /\ HostOK /\ TaskOK /\ HoldOK /\ DataOK /\ CountOK /\ Idle /\ Spent /\ Agrees

LEMMA Parts == EsxiInv <=> Good
  BY DEF EsxiInv, Good, EsxiTypeOK, CtlOK, HostOK, TaskOK, HoldOK, DataOK, CountOK

\* Parts that a step leaves alone stay right.
LEMMA Frames ==
  ASSUME EsxiInv
  PROVE  /\ UNCHANGED ctlVars => CtlOK'
         /\ UNCHANGED hostVars => HostOK'
         /\ UNCHANGED taskVars => TaskOK'
         /\ UNCHANGED <<holder, task>> => HoldOK'
         /\ UNCHANGED <<data, dash, file>> => DataOK'
         /\ UNCHANGED boundVars => CountOK'
         /\ UNCHANGED <<phase, task>> => Idle'
         /\ UNCHANGED <<phase, exits, version, changes>> => Spent'
         /\ UNCHANGED <<holder, data, dash>> => Agrees'
  BY DEF EsxiInv, Agrees, EsxiTypeOK, CtlOK, HostOK, TaskOK, HoldOK, DataOK, CountOK, Idle, Spent,
         ctlVars, hostVars, taskVars, boundVars

LEMMA TypeOfFunctions ==
  ASSUME EsxiInv, NEW h \in Hosts
  PROVE  /\ \A t \in {"dial", "watch", "found", "failed", "ended"} :
              [task EXCEPT ![h] = t]
                \in [Hosts -> {"new", "dial", "watch", "found", "failed", "ended"}]
         /\ \A v \in Reports : [found EXCEPT ![h] = v] \in [Hosts -> Reports]
         /\ \A e \in Entries : /\ [data EXCEPT ![h] = e] \in [Hosts -> Entries]
                               /\ [dash EXCEPT ![h] = e] \in [Hosts -> Entries]
  BY DEF EsxiInv, EsxiTypeOK

\* A goroutine that does not hold the mutex may go on with another host's.
LEMMA OthersHold ==
  ASSUME EsxiInv, NEW h \in Hosts, NEW t, task[h] \notin {"found", "failed"} \/ holder.host # h,
         task' = [task EXCEPT ![h] = t], holder' = holder
  PROVE  HoldOK'
<1>1. CASE holder = Free
  BY <1>1 DEF HoldOK, EsxiInv, EsxiTypeOK
<1>2. CASE holder # Free
  <2>1. holder.host \in Hosts /\ holder \in HolderStates
        /\ task[holder.host] = IF holder.step = "offline" THEN "failed" ELSE "found"
    BY <1>2, HoldersHaveAHost DEF EsxiInv, EsxiTypeOK
  <2>2. holder.host # h
    BY <2>1
  <2>3. task'[holder.host] = task[holder.host]
    BY <2>1, <2>2 DEF EsxiInv, EsxiTypeOK
  <2> QED BY <2>1, <2>3 DEF HoldOK
<1> QED BY <1>1, <1>2

LEMMA EsxiStep == EsxiInv /\ [Next]_vars => EsxiInv'
<1> SUFFICES ASSUME EsxiInv, [Next]_vars
             PROVE  Good'
  BY Parts DEF EsxiInv, Good, EsxiTypeOK, CtlOK, HostOK, TaskOK, HoldOK, DataOK, CountOK
<1> USE DEF ctlVars, hostVars, taskVars, dataVars, boundVars, Good
<1>1. CtlOK /\ HostOK /\ TaskOK /\ HoldOK /\ DataOK /\ CountOK /\ Idle /\ Spent /\ Agrees
  BY Parts DEF Good
<1>2. exits \in Nat /\ changes \in Nat /\ MaxExits \in Nat /\ MaxChanges \in Nat
  BY <1>1, EsxiConstants DEF CountOK
<1>3. CASE WaitForValidConfig
  <2>1. /\ phase = "wait" /\ phase' \in {"wait", "run"} /\ env' \in Settings
        /\ data' \in [Hosts -> Entries] /\ dash' \in [Hosts -> Entries]
    BY <1>1, <1>3 DEF WaitForValidConfig, Reloaded, CtlOK, DataOK
  <2>2. holder = Free
    BY <1>1, <2>1, HoldersHaveAHost DEF HoldOK, Idle
  <2>3. Agrees'
    BY <1>3, <2>2, FreeIsFree, EntriesAgreeWithThemselves DEF WaitForValidConfig, Agrees
  <2> QED BY <1>1, <1>3, <2>1, <2>3, Frames DEF WaitForValidConfig, CtlOK, DataOK, Idle, Spent
<1>4. CASE ConfigReload
  BY <1>1, <1>4, Frames DEF ConfigReload, Reloaded, CtlOK
<1>5. CASE StartAll
  <2>1. holder = Free
    BY <1>1, <1>5, HoldersHaveAHost DEF StartAll, AllEnded, HoldOK
  <2>2. HoldOK' /\ TaskOK' /\ Idle'
    BY <1>1, <1>5, <2>1 DEF StartAll, HoldOK, TaskOK, Idle
  <2> QED BY <1>5, <2>2, Frames DEF StartAll
<1>6. ASSUME NEW h \in Hosts, Dial(h) PROVE Good'
  <2>1. PICK t \in {"watch", "ended"} : task' = [task EXCEPT ![h] = t]
    BY <1>6 DEF Dial
  <2>2. task[h] = "dial" /\ phase \notin {"down", "wait"}
    BY <1>1, <1>6 DEF Dial, Idle
  <2>3. TaskOK'
    BY <1>1, <1>6, <2>1, TypeOfFunctions DEF Dial, TaskOK
  <2>4. holder' = holder
    BY <1>6 DEF Dial
  <2>5. HoldOK'
    BY <2>1, <2>2, <2>4, OthersHold
  <2>6. HostOK'
    BY <1>1, <1>6 DEF Dial, HostOK
  <2> QED BY <1>1, <1>6, <2>2, <2>3, <2>5, <2>6, Frames DEF Dial, Idle
<1>7. ASSUME NEW h \in Hosts, Poll(h) PROVE Good'
  <2>1. PICK t \in {"found", "failed"} : task' = [task EXCEPT ![h] = t]
    BY <1>7 DEF Poll, FoundAll
  <2>2. task[h] = "watch" /\ phase \notin {"down", "wait"}
    BY <1>1, <1>7 DEF Poll, Idle
  <2>3. version[h] \in Reports /\ (found' = found \/ found' = [found EXCEPT ![h] = version[h]])
    BY <1>1, <1>7 DEF Poll, FoundAll, HostOK
  <2>4. TaskOK'
    BY <1>1, <2>1, <2>3, TypeOfFunctions DEF TaskOK
  <2>5. holder' = holder
    BY <1>7 DEF Poll
  <2>6. HoldOK'
    BY <2>1, <2>2, <2>5, OthersHold
  <2> QED BY <1>1, <1>7, <2>2, <2>4, <2>6, Frames DEF Poll, Idle
<1>8. ASSUME NEW h \in Hosts, Cancelled(h) PROVE Good'
  <2>1. TaskOK' /\ HoldOK'
    BY <1>1, <1>8, TypeOfFunctions, OthersHold DEF Cancelled, TaskOK
  <2> QED BY <1>1, <1>8, <2>1, Frames DEF Cancelled, Idle
<1>9. ASSUME NEW h \in Hosts, SetHostStatusOffline(h)
      PROVE Good'
  <2>1. Offline(h) \in [Hosts -> Entries]
    BY <1>1, OnlyTheStatusOfOne DEF Offline, DataOK
  <2>2. task[h] = "failed" /\ phase \notin {"down", "wait"} /\ holder = Free
    BY <1>1, <1>9 DEF SetHostStatusOffline, Idle
  <2>3. TaskOK' /\ HoldOK'
    <3>1. CASE data[h].status # "offline"
      BY <1>1, <1>9, <2>2, <3>1 DEF SetHostStatusOffline, TaskOK, HoldOK, HolderStates, Free
    <3>2. CASE data[h].status = "offline"
      BY <1>1, <1>9, <2>2, <3>2, TypeOfFunctions DEF SetHostStatusOffline, TaskOK, HoldOK
    <3> QED BY <3>1, <3>2
  <2>4. \A g \in Hosts : Agreed(dash[g], data[g])
    BY <1>1, <2>2 DEF Agrees
  <2>5. /\ data' = Offline(h) /\ dash' = dash
        /\ \A g \in Hosts \ {h} : data'[g] = data[g]
        /\ data'[h].status = "offline"
        /\ data'[h].key = data[h].key /\ data'[h].rest = data[h].rest
    BY <1>1, <1>9, OnlyTheStatusOfOne DEF SetHostStatusOffline, Offline, DataOK
  <2>6. Agrees'
    <3>1. CASE data[h].status # "offline"
      <4>1. holder' = [step |-> "offline", host |-> h]
        BY <1>9, <3>1 DEF SetHostStatusOffline
      <4>2. holder'.host = h /\ holder'.step = "offline"
        BY <4>1
      <4>3. holder'.step \notin {"online", "update", "compare"}
        BY <4>2
      <4>4. \A g \in Hosts : holder' = Free \/ h # g => Agreed(dash'[g], data'[g])
        <5>1. holder' # Free
          BY <4>2, FreeIsFree
        <5> QED BY <2>4, <2>5, <5>1
      <4>5. SameValues(dash'[h], data'[h])
        BY <2>4, <2>5 DEF Agreed, SameValues
      <4> QED BY <2>5, <4>2, <4>3, <4>4, <4>5 DEF Agrees
    <3>2. CASE data[h].status = "offline"
      <4>1. Agreed(dash'[h], data'[h])
        BY <2>4, <2>5, <3>2 DEF Agreed
      <4>2. holder' = Free
        BY <1>9, <2>2, <3>2 DEF SetHostStatusOffline
      <4> QED BY <2>4, <2>5, <4>1, <4>2, FreeIsFree DEF Agrees
    <3> QED BY <3>1, <3>2
  <2> QED BY <1>1, <1>9, <2>1, <2>2, <2>3, <2>6, Frames DEF SetHostStatusOffline, DataOK, Idle
<1>10. ASSUME NEW h \in Hosts, TakeMutex(h)
       PROVE Good'
  <2>1. data[h] \in Entries /\ task[h] = "found" /\ task' = task
    BY <1>1, <1>10 DEF TakeMutex, DataOK
  <2>2. \E s \in {"online", "update"} : holder' = [step |-> s, host |-> h, prev |-> data[h]]
    BY <1>10 DEF TakeMutex
  <2>3. HoldOK'
    BY <2>1, <2>2 DEF HoldOK, HolderStates
  <2>4. \A g \in Hosts : Agreed(dash[g], data[g])
    BY <1>1, <1>10 DEF TakeMutex, Agrees
  <2>5. data' = data /\ dash' = dash
    BY <1>10 DEF TakeMutex
  <2>6. Agrees'
    <3>1. CASE data[h].status # "online"
      <4>1. holder' = [step |-> "online", host |-> h, prev |-> data[h]]
        BY <1>10, <3>1 DEF TakeMutex
      <4> QED BY <2>4, <2>5, <4>1 DEF Agrees, Agreed, SameValues
    <3>2. CASE data[h].status = "online"
      <4>1. holder' = [step |-> "update", host |-> h, prev |-> data[h]]
        BY <1>10, <3>2 DEF TakeMutex
      <4> QED BY <2>4, <2>5, <3>2, <4>1 DEF Agrees, Agreed, SameValues
    <3> QED BY <3>1, <3>2
  <2> QED BY <1>10, <2>3, <2>6, Frames DEF TakeMutex
<1>11. CASE Update
  <2>1. holder # Free /\ holder.step = "update" /\ holder.host \in Hosts
        /\ task[holder.host] = "found" /\ holder' \in HolderStates
        /\ holder'.host = holder.host /\ holder'.step = "compare"
        /\ holder'.prev = holder.prev
    BY <1>1, <1>11, FreeIsFree, HoldersHaveAHost DEF Update, HoldOK
  <2>2. Entry("online", found[holder.host]) \in Entries
    BY <1>1, <2>1 DEF Entry, Entries, Reports, TaskOK
  <2>3. data' \in [Hosts -> Entries]
    BY <1>11, <2>1, <2>2, TypeOfFunctions DEF Update
  <2>4. HoldOK' /\ TaskOK'
    <3>1. Nothing \in Reports
      BY OneVersion DEF Nothing, Reports
    <3> QED BY <1>1, <1>11, <2>1, <3>1, TypeOfFunctions DEF Update, HoldOK, TaskOK
  <2>5. /\ \A g \in Hosts \ {holder.host} : data'[g] = data[g]
        /\ data'[holder.host].status = "online" /\ dash' = dash
    BY <1>1, <1>11, <2>1 DEF Update, DataOK, Entry
  <2>6. Agrees'
    BY <1>1, <2>1, <2>5, FreeIsFree DEF Agrees
  <2> QED BY <1>1, <1>11, <2>3, <2>4, <2>6, Frames DEF Update, DataOK
<1>12. CASE Broadcast
  <2> DEFINE h == holder.host
  <2>1. holder # Free /\ h \in Hosts /\ holder \in HolderStates
    BY <1>1, <1>12, FreeIsFree, HoldersHaveAHost DEF Broadcast, HoldOK
  <2>2. dash[h] \in Entries /\ data[h] \in Entries /\ data' = data
        /\ \A g \in Hosts \ {h} : Agreed(dash[g], data[g])
    BY <1>1, <1>12, <2>1 DEF DataOK, Broadcast, Agrees
  <2> HIDE DEF h
  <2>3. CASE holder.step = "offline"
    <3>0. dash' = [dash EXCEPT ![h].status = "offline"]
      BY <1>12, <2>3 DEF Broadcast, h
    <3>1. dash' \in [Hosts -> Entries]
      BY <1>1, <2>1, <3>0, OnlyTheStatusOfOne DEF DataOK
    <3>2. holder' = Free /\ task' = [task EXCEPT ![h] = "watch"]
      BY <1>12, <2>3 DEF Broadcast, h
    <3>3. TaskOK' /\ HoldOK' /\ phase \notin {"down", "wait"}
      BY <1>1, <1>12, <2>1, <2>3, <3>2, TypeOfFunctions, FreeIsFree
      DEF Broadcast, TaskOK, HoldOK, Idle, h
    <3>4. Agreed(dash'[h], data[h])
      <4>1. /\ dash'[h].status = "offline"
            /\ dash'[h].key = dash[h].key /\ dash'[h].rest = dash[h].rest
        BY <1>1, <2>1, <3>0, OnlyTheStatusOfOne DEF DataOK
      <4> QED BY <1>1, <2>3, <4>1 DEF Agrees, Agreed, SameValues, h
    <3>5. Agrees'
      BY <1>1, <2>1, <2>2, <3>0, <3>2, <3>4, FreeIsFree DEF Agrees, DataOK
    <3> QED BY <1>1, <1>12, <3>1, <3>3, <3>5, Frames DEF Broadcast, DataOK, Idle
  <2>4. CASE holder.step = "online"
    <3>0. dash' = [dash EXCEPT ![h].status = "online"]
      BY <1>12, <2>4 DEF Broadcast, h
    <3>1. dash' \in [Hosts -> Entries]
      BY <1>1, <2>1, <3>0, OnlyTheStatusOfOne DEF DataOK
    <3>2. /\ holder' \in HolderStates /\ holder'.host = h /\ holder'.step = "update"
          /\ holder'.prev = holder.prev /\ task' = task
      <4>1. holder' = [holder EXCEPT !.step = "update"] /\ task' = task
        BY <1>12, <2>4 DEF Broadcast
      <4>2. holder.step # "offline"
        BY <2>4
      <4> QED BY <2>1, <4>1, <4>2, HoldersHaveAHost DEF h
    <3>3. HoldOK'
      BY <1>1, <2>1, <2>4, <3>2 DEF HoldOK, h
    <3>4. /\ dash'[h].status = "online"
          /\ dash'[h].key = dash[h].key /\ dash'[h].rest = dash[h].rest
      BY <1>1, <2>1, <3>0, OnlyTheStatusOfOne DEF DataOK
    <3>5. /\ holder.prev = data[h] /\ SameValues(dash[h], data[h]) /\ holder' # Free
          /\ \A g \in Hosts \ {h} : Agreed(dash'[g], data[g])
      BY <1>1, <2>1, <2>2, <2>4, <3>0, <3>2, FreeIsFree DEF Agrees, DataOK, h
    <3>6. Agrees'
      BY <2>2, <3>2, <3>4, <3>5 DEF Agrees, SameValues
    <3> QED BY <1>1, <1>12, <3>1, <3>2, <3>3, <3>6, Frames DEF Broadcast, DataOK
  <2>5. CASE holder.step = "compare"
    <3>1. dash' = [dash EXCEPT ![h] = Shown(holder.prev, data[h])]
      BY <1>12, <2>5 DEF Broadcast, h
    <3>2. Shown(holder.prev, data[h]) \in Entries /\ Agreed(Shown(holder.prev, data[h]), data[h])
      <4>1. holder.prev \in Entries
        BY <2>1, <2>5, HoldersHaveAHost
      <4>2. /\ data[h].status = "online" /\ dash[h].status = "online"
            /\ SameValues(dash[h], holder.prev)
        BY <1>1, <2>5 DEF Agrees, h
      <4> QED BY <2>2, <4>1, <4>2, DifferencesAreEnough DEF h
    <3>3. dash' \in [Hosts -> Entries] /\ \A g \in Hosts : Agreed(dash'[g], data[g])
      BY <1>1, <2>1, <2>2, <3>1, <3>2, TypeOfFunctions DEF DataOK
    <3>4. holder' = Free /\ task' = [task EXCEPT ![h] = "watch"]
      BY <1>12, <2>5 DEF Broadcast, h
    <3>5. TaskOK' /\ HoldOK' /\ phase \notin {"down", "wait"}
      BY <1>1, <1>12, <2>1, <2>5, <3>4, TypeOfFunctions, FreeIsFree
      DEF Broadcast, TaskOK, HoldOK, Idle, h
    <3>6. Agrees'
      BY <2>2, <3>3, <3>4, FreeIsFree DEF Agrees
    <3> QED BY <1>1, <1>12, <3>3, <3>5, <3>6, Frames DEF Broadcast, DataOK, Idle
  <2> QED BY <1>12, <2>3, <2>4, <2>5 DEF Broadcast
<1>13. CASE Stop
  BY <1>1, <1>13, Frames DEF Stop, CtlOK, Idle, Spent
<1>14. ASSUME Ended, file' \in [Hosts -> Entries], exits < MaxExits
       PROVE Good'
  <2>1. NoEntries \in [Hosts -> Entries]
    BY DEF NoEntries, Entries
  <2>2. exits' = exits + 1 /\ changes' = changes /\ stalled' = FALSE
    BY <1>14 DEF Ended
  <2>3. found' = [h \in Hosts |-> Nothing] /\ Nothing \in Reports
    BY <1>14, OneVersion DEF Ended, Nothing, Reports
  <2>4. found' \in [Hosts -> Reports]
    <3>1. \A c \in Reports : [h \in Hosts |-> c] \in [Hosts -> Reports]
      OBVIOUS
    <3> QED BY <2>3, <3>1, Zenon
  <2>5. CtlOK' /\ HostOK' /\ HoldOK' /\ Idle'
    BY <1>1, <1>14, FreeIsFree DEF Ended, CtlOK, HostOK, HoldOK, Idle, Settings
  <2>8. Spent'
    BY <1>1, <1>14, <2>2 DEF Ended, Spent
  <2>6. CountOK'
    <3>1. exits' \in 0..MaxExits
      BY <1>2, <1>14, <2>2
    <3>2. changes' \in 0..MaxChanges
      BY <1>1, <2>2 DEF CountOK
    <3> QED BY <2>2, <3>1, <3>2 DEF CountOK
  <2>7. Agrees'
    BY <1>14, FreeIsFree, EntriesAgreeWithThemselves DEF Ended, Agrees
  <2> QED BY <1>14, <2>1, <2>4, <2>5, <2>6, <2>7, <2>8 DEF Ended, TaskOK, DataOK
<1>15. CASE SaveESXIDataOnExit
  <2>1. NoEntries \in [Hosts -> Entries]
    BY DEF NoEntries, Entries
  <2> QED BY <1>1, <1>14, <1>15, <2>1 DEF SaveESXIDataOnExit, Saved, DataOK, Spent
<1>16. CASE Kill
  <2>1. NoEntries \in [Hosts -> Entries]
    BY DEF NoEntries, Entries
  <2> QED BY <1>1, <1>14, <1>16, <2>1 DEF Kill, DataOK
<1>17. CASE Start
  BY <1>1, <1>17, Frames DEF Start, CtlOK, Idle, Spent
<1>18. CASE Environment
  <2>1. stalled' \in {stalled, TRUE} /\ dotenv' \in Settings
    BY <1>1, <1>18 DEF Environment, CtlOK, Edit, Stall, GoDown, ComeUp, Change, PartsChange, hostVars
  <2>4. changes < MaxChanges /\ changes' = changes + 1 /\ exits' = exits
    BY <1>18 DEF Environment
  <2>5. changes' \in 0..MaxChanges
    BY <1>2, <2>4
  <2>6. CountOK'
    BY <1>1, <2>1, <2>4, <2>5 DEF CountOK
  <2>2. up' \in SUBSET Hosts /\ session' \in SUBSET Hosts /\ whole' \in SUBSET Hosts
    BY <1>1, <1>18 DEF Environment, HostOK, Edit, Stall, GoDown, ComeUp, Change, PartsChange
  <2>3. /\ version' \in [Hosts -> Reports]
        /\ \A h \in Hosts : version'[h].key <= changes + 2 /\ version'[h].rest <= changes + 2
    <3>1. \A h \in Hosts : /\ version[h] \in Reports
                           /\ version[h].key \in Nat /\ version[h].key <= changes + 1
                           /\ version[h].rest \in Nat /\ version[h].rest <= changes + 1
      BY <1>1, OneVersion DEF HostOK, Spent, Reports
    <3>2. \A h \in Hosts : version[h].key + 1 \in Versions /\ version[h].rest + 1 \in Versions
      BY <1>2, <2>4, <3>1 DEF Versions
    <3>3. CASE version' = version
      BY <1>1, <1>2, <3>1, <3>3 DEF HostOK
    <3>4. ASSUME NEW g \in Hosts, Change(g)
          PROVE  /\ version' \in [Hosts -> Reports]
                 /\ \A h \in Hosts : /\ version'[h].key <= changes + 2
                                     /\ version'[h].rest <= changes + 2
      <4>1. PICK f \in {"key", "rest"} : version' = [version EXCEPT ![g][f] = @ + 1]
        BY <3>4 DEF Change
      <4> DEFINE w == [version[g] EXCEPT ![f] = version[g][f] + 1]
      <4>2. version' = [version EXCEPT ![g] = w]
        BY <4>1
      <4>3. /\ w \in Reports /\ w.key \in {version[g].key, version[g].key + 1}
            /\ w.rest \in {version[g].rest, version[g].rest + 1}
        BY <3>1, <3>2, ReportFields
      <4> HIDE DEF w
      <4> QED BY <1>1, <1>2, <3>1, <4>2, <4>3 DEF HostOK
    <3>5. version' = version \/ \E g \in Hosts : Change(g)
      BY <1>18 DEF Environment, Edit, Stall, GoDown, ComeUp, PartsChange, hostVars
    <3> QED BY <3>3, <3>4, <3>5
  <2>7. HostOK'
    BY <2>2, <2>3 DEF HostOK
  <2>8. \A h \in Hosts : version'[h].key <= changes' + 1 /\ version'[h].rest <= changes' + 1
    BY <1>2, <2>3, <2>4, OneVersion DEF Reports
  <2> QED BY <1>1, <1>18, <2>1, <2>4, <2>6, <2>7, <2>8, Frames
          DEF Environment, CtlOK, Spent, Idle
<1>19. CASE ReadOn
  BY <1>1, <1>19, Frames DEF ReadOn, CountOK, Spent
<1>20. CASE UNCHANGED vars
  BY <1>20, Frames DEF vars
<1> QED BY <1>3, <1>4, <1>5, <1>6, <1>7, <1>8, <1>9, <1>10, <1>11, <1>12, <1>13, <1>15, <1>16,
           <1>17, <1>18, <1>19, <1>20 DEF Next, Config, Task

\* Types, and that the mutex is held by a goroutine that has something to store
\* (esxi_monitor.go:560), whatever is cancelled meanwhile.
THEOREM EsxiTypeCorrect == Spec => []EsxiTypeOK
<1>1. EsxiInv => EsxiTypeOK
  BY DEF EsxiInv
<1> QED BY <1>1, EsxiInit, EsxiStep, PTL DEF Spec

\* For any number of hosts, broadcasting what differs, and of a new host the key fields
\* (esxi_monitor.go:580), is enough: whenever the mutex is free a dashboard that is connected
\* shows the stored status and key fields, and of the rest nothing older than what is stored.
THEOREM EsxiDashboardAgrees == Spec => []DashboardAgrees
<1>1. EsxiInv => DashboardAgrees
  BY DEF EsxiInv, Agrees, DashboardAgrees
<1> QED BY <1>1, EsxiInit, EsxiStep, PTL DEF Spec
=============================================================================
