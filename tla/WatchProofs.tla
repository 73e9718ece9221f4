---------------------------- MODULE WatchProofs ----------------------------
(* Proofs about the offline checker, for any servers, period, threshold and *)
(* pause that satisfy WatchConstants, any clocks and any delay of a         *)
(* broadcast.                                                               *)
EXTENDS StatusWatch, TLAPS

\* Since it is up, a server has reported within the last wait ticks, or it is not up for
\* longer than that, or a report is just being taken in.
Fresh(s) == link[s] = "up" /\ ~touch[s] =>
  age[s] = None \/ age[s] <= wait[s] \/ upFor[s] <= wait[s]

Down(s) == link[s] # "up" => upFor[s] = 0

\* A node that thinks it is offline has not reported since.
Own(s) == own[s] => upFor[s] <= wait[s]

\* The checker looks at a silent server within a pause, and does not forget what it read.
Silence(s) == Overdue(age[s]) /\ ~touch[s] =>
  \/ slept[s] + next <= Every
  \/ s \in round
  \/ verdict.server = s /\ verdict.old /\ (verdict.marked => status[s] = "offline")
  \/ /\ status[s] = "offline" /\ told[s] = "offline"
     /\ verdict.server = s => verdict.old

\* ... and at one that reports.
Recovery(s) == Steady(upFor[s]) =>
  \/ slept[s] + next <= Every
  \/ s \in round
  \/ verdict.server = s /\ ~verdict.old
  \/ told[s] = "online" /\ (verdict.server = s => ~verdict.old)

\* Time does not go on between reading a time and marking the server.
AsRead ==
  /\ ~Asleep => next = Every
  /\ Reading => ~Steady(upFor[verdict.server]) \/ misread

Each(s) == Fresh(s) /\ Down(s) /\ Own(s) /\ Silence(s) /\ Recovery(s)
WatchInv == WatchTypeOK /\ AsRead /\ \A s \in Servers : Each(s)

LEMMA Constants ==
  /\ Period \in Nat /\ Threshold \in Nat /\ Every \in Nat /\ MaxRelays \in Nat
  /\ Period <= Threshold /\ Period > 0
  /\ AgeCap \in Nat /\ AgeCap = Threshold + 1
  /\ UpCap \in Nat /\ UpCap = Period + 1
  /\ Sleep \in Nat /\ Sleep = Every + 1
  /\ None \notin Nat /\ None \notin Servers
BY WatchConstants DEF AgeCap, UpCap, Sleep

\* A server that reports as it should is not too old, but in the middle of a report.
LEMMA NotBoth ==
  ASSUME WatchInv, NEW s \in Servers, ~touch[s], Overdue(age[s])
  PROVE  ~Steady(upFor[s]) /\ (link[s] = "up" => upFor[s] <= wait[s])
BY Constants DEF WatchInv, WatchTypeOK, Each, Fresh, Down, Overdue, Steady, Times

LEMMA WatchInitHolds == WatchInit => WatchInv
<1> SUFFICES ASSUME WatchInit PROVE WatchInv
  OBVIOUS
<1>1. WatchTypeOK
  <2>1. /\ own \in [Servers -> BOOLEAN] /\ touch \in [Servers -> BOOLEAN]
        /\ full \in [Servers -> BOOLEAN] /\ misread \in BOOLEAN
    BY DEF WatchInit
  <2>2. age \in [Servers -> Times]
    BY Constants DEF WatchInit, Times
  <2>3. /\ upFor \in [Servers -> 0 .. UpCap] /\ wait \in [Servers -> 0 .. Period]
        /\ slept \in [Servers -> 0 .. Sleep] /\ next \in 0 .. Every
        /\ relay \in [Servers -> Nat]
    BY Constants DEF WatchInit
  <2> QED BY <2>1, <2>2, <2>3 DEF WatchInit, WatchTypeOK, Statuses
<1>2. AsRead
  BY Constants DEF WatchInit, AsRead, Asleep, Reading
<1>3. ASSUME NEW s \in Servers PROVE Each(s)
  BY Constants DEF WatchInit, Each, Fresh, Down, Own, Silence, Recovery, Idle, Overdue, Steady
<1> QED BY <1>1, <1>2, <1>3 DEF WatchInv

LEMMA TickKeeps ==
  ASSUME WatchInv, Tick
  PROVE  WatchInv'
<1>1. WatchTypeOK'
  BY Constants DEF WatchInv, WatchTypeOK, Statuses, Times, Said, Tick, nodeVars, cacheVars, checkVars, Capped, Overdue, Steady, Before, Asleep, Reading, AsRead, Idle
<1>2. AsRead'
  BY Constants DEF WatchInv, WatchTypeOK, AsRead, Asleep, Reading, Steady, Tick, nodeVars, cacheVars, checkVars, Capped, Overdue, Steady, Before, Asleep, Reading, AsRead, Idle
<1>3. ASSUME NEW s \in Servers PROVE Each(s)'
  <2>a. /\ ~touch[s] /\ UNCHANGED <<link, own, touch>>
        /\ link[s] = "up" => wait[s] < Period
        /\ age'[s] = IF age[s] = None THEN None ELSE Capped(age[s] + 1, AgeCap)
        /\ upFor'[s] = IF link[s] = "up" THEN Capped(upFor[s] + 1, UpCap) ELSE 0
        /\ wait'[s] = IF link[s] = "up" THEN wait[s] + 1 ELSE 0
    BY DEF Tick
  <2>b. /\ age[s] \in Times /\ upFor[s] \in 0 .. UpCap /\ wait[s] \in 0 .. Period
        /\ Fresh(s) /\ Down(s) /\ Own(s)
    BY DEF WatchInv, WatchTypeOK, Each
  <2>1. Fresh(s)' /\ Down(s)' /\ Own(s)'
    <3>1. Down(s)'
      BY <2>a, <2>b, Constants DEF Down
    <3>2. upFor[s] <= wait[s] => upFor'[s] <= wait'[s]
      BY <2>a, <2>b, Constants DEF Down, Capped
    <3>3. Own(s)'
      BY <2>a, <2>b, <3>2 DEF Own
    <3>4. ASSUME link[s] = "up" PROVE Fresh(s)'
      <4>1. age[s] = None => age'[s] = None
        BY <2>a
      <4>2. ASSUME age[s] # None, age[s] <= wait[s] PROVE age'[s] <= wait'[s]
        <5>1. age[s] \in 0 .. AgeCap
          BY <2>b, <4>2 DEF Times
        <5>2. age'[s] = Capped(age[s] + 1, AgeCap) /\ wait'[s] = wait[s] + 1
          BY <2>a, <3>4, <4>2
        <5> QED BY <2>b, <4>2, <5>1, <5>2, Constants DEF Capped
      <4>3. age[s] = None \/ age[s] <= wait[s] \/ upFor[s] <= wait[s]
        <5>1. link[s] = "up" /\ ~touch[s] /\ Fresh(s)
          BY <2>a, <2>b, <3>4
        <5> QED BY <5>1 DEF Fresh
      <4>4. CASE age[s] = None
        BY <4>1, <4>4 DEF Fresh
      <4>5. CASE age[s] # None /\ age[s] <= wait[s]
        BY <4>2, <4>5 DEF Fresh
      <4>6. CASE upFor[s] <= wait[s]
        BY <3>2, <4>6 DEF Fresh
      <4> QED BY <4>3, <4>4, <4>5, <4>6
    <3>5. ASSUME link[s] # "up" PROVE Fresh(s)'
      BY <2>a, <3>5 DEF Fresh
    <3> QED BY <3>1, <3>3, <3>4, <3>5
  <2>c. /\ slept'[s] = IF ~Overdue(age'[s]) /\ ~Steady(upFor'[s]) THEN 0
                       ELSE Capped(Before(s) + (IF Asleep THEN 1 ELSE 0), Sleep)
        /\ next' = IF Asleep THEN next - 1 ELSE next
        /\ Asleep => next > 0
        /\ UNCHANGED <<status, told, round, verdict>>
        /\ slept[s] \in 0 .. Sleep /\ next \in 0 .. Every
        /\ ~Asleep => next = Every
        /\ Silence(s) /\ Recovery(s)
        /\ Overdue(age[s]) => ~Steady(upFor'[s])
    <3>1. Overdue(age[s]) => ~Steady(upFor'[s])
      BY <2>a, <2>b, NotBoth, Constants DEF Capped, Overdue, Steady
    <3> QED BY <3>1 DEF Tick, WatchInv, WatchTypeOK, AsRead, Each
  <2>d. Before(s) \in 0 .. Sleep
    BY <2>c, Constants DEF Before
  <2>e. Asleep => s \notin round /\ verdict.server # s
    BY Constants DEF Asleep, Idle
  <2>2. Silence(s)'
    <3> SUFFICES ASSUME Overdue(age'[s]) PROVE Silence(s)'
      BY DEF Silence
    <3>1. CASE ~Overdue(age[s])
      <4>1. ~(Steady(upFor[s]) /\ Steady(upFor'[s]))
        <5>1. age'[s] # None /\ age[s] # None /\ age[s] >= Threshold
          BY <2>a, <2>b, Constants DEF Overdue, Capped, Times
        <5>2. CASE link[s] = "up"
          BY <2>a, <2>b, <5>1, <5>2, Constants DEF Fresh, Steady, Times
        <5>3. CASE link[s] # "up"
          BY <2>a, <5>3, Constants DEF Steady
        <5> QED BY <5>2, <5>3
      <4>2. Before(s) = 0
        BY <3>1, <4>1 DEF Before
      <4>3. slept'[s] + next' <= Every
        BY <2>c, <4>2, Constants DEF Capped
      <4> QED BY <4>3 DEF Silence
    <3>2. CASE Overdue(age[s])
      <4>1. Before(s) = slept[s]
        BY <3>2 DEF Before
      <4>2. slept[s] + next <= Every => slept'[s] + next' <= Every
        BY <2>c, <4>1, Constants DEF Capped
      <4> QED BY <2>a, <2>c, <2>e, <3>2, <4>2 DEF Silence
    <3> QED BY <3>1, <3>2
  <2>3. Recovery(s)'
    <3> SUFFICES ASSUME Steady(upFor'[s]) PROVE Recovery(s)'
      BY DEF Recovery
    <3>1. ~Overdue(age[s])
      BY <2>c
    <3>2. CASE ~Steady(upFor[s])
      <4>1. Before(s) = 0
        BY <3>1, <3>2 DEF Before
      <4>2. slept'[s] + next' <= Every
        BY <2>c, <4>1, Constants DEF Capped
      <4> QED BY <4>2 DEF Recovery
    <3>3. CASE Steady(upFor[s])
      <4>1. Before(s) = slept[s]
        BY <3>3 DEF Before
      <4>2. slept[s] + next <= Every => slept'[s] + next' <= Every
        BY <2>c, <4>1, Constants DEF Capped
      <4> QED BY <2>a, <2>c, <2>e, <3>3, <4>2 DEF Recovery
    <3> QED BY <3>2, <3>3
  <2> QED BY <2>1, <2>2, <2>3 DEF Each
<1> QED BY <1>1, <1>2, <1>3 DEF WatchInv

LEMMA ReportKeeps ==
  ASSUME WatchInv, NEW n \in Servers, Report(n)
  PROVE  WatchInv'
<1>1. WatchTypeOK'
  BY Constants DEF WatchInv, WatchTypeOK, Statuses, Times, Said, Report, nodeVars, cacheVars, checkVars
<1>2. AsRead'
  BY DEF WatchInv, AsRead, Asleep, Reading, Report, checkVars
<1>3. ASSUME NEW s \in Servers PROVE Each(s)'
  <2>1. Fresh(s)' /\ Down(s)' /\ Own(s)'
    <3> PICK a \in IF n = Local THEN {0} ELSE Said : age' = [age EXCEPT ![n] = a]
      BY DEF Report
    <3>1. /\ own'[n] = FALSE /\ wait'[n] = 0 /\ UNCHANGED <<link, upFor>>
          /\ age'[n] = a /\ (n # Local => touch'[n]) /\ (n = Local => a = 0)
          /\ s # n => /\ own'[s] = own[s] /\ wait'[s] = wait[s]
                      /\ age'[s] = age[s] /\ touch'[s] = touch[s]
      BY DEF WatchInv, WatchTypeOK, Report
    <3>2. CASE s = n
      BY <3>1, <3>2, Constants DEF WatchInv, Each, Fresh, Down, Own
    <3>3. CASE s # n
      BY <3>1, <3>3 DEF WatchInv, Each, Fresh, Down, Own
    <3> QED BY <3>2, <3>3
  <2>2. Silence(s)'
    <3> PICK a \in IF n = Local THEN {0} ELSE Said : age' = [age EXCEPT ![n] = a]
      BY DEF Report
    <3>1. CASE s = n
      <4>1. n = Local => age'[n] = 0
        BY DEF WatchInv, WatchTypeOK
      <4>2. n # Local => touch'[n]
        BY DEF Report, WatchInv, WatchTypeOK
      <4> QED BY <3>1, <4>1, <4>2, Constants DEF Silence, Overdue
    <3>2. CASE s # n
      <4>1. /\ age'[s] = age[s] /\ touch'[s] = touch[s] /\ status'[s] = status[s]
            /\ UNCHANGED <<told, slept, next, round, verdict>>
        BY <3>2 DEF Report, WatchInv, WatchTypeOK, checkVars
      <4>2. Silence(s)
        BY DEF WatchInv, Each
      <4> QED BY <4>1, <4>2 DEF Silence
    <3> QED BY <3>1, <3>2
  <2>3. Recovery(s)'
    BY Constants DEF WatchInv, WatchTypeOK, Each, Recovery, Steady, Report, nodeVars, cacheVars, checkVars
  <2> QED BY <2>1, <2>2, <2>3 DEF Each
<1> QED BY <1>1, <1>2, <1>3 DEF WatchInv

LEMMA RelayKeeps ==
  ASSUME WatchInv, NEW n \in Servers, Relay(n)
  PROVE  WatchInv'
<1>1. WatchTypeOK'
  BY Constants DEF WatchInv, WatchTypeOK, Statuses, Times, Said, Relay, nodeVars, cacheVars, checkVars
<1>2. AsRead'
  BY Constants DEF WatchInv, WatchTypeOK, AsRead, Asleep, Reading, Steady, Relay, nodeVars, cacheVars, checkVars
<1>3. ASSUME NEW s \in Servers PROVE Each(s)'
  <2>1. Fresh(s)' /\ Down(s)' /\ Own(s)'
    BY Constants DEF WatchInv, WatchTypeOK, Times, Said, Each, Fresh, Down, Own, Relay, nodeVars, cacheVars, checkVars
  <2>2. Silence(s)'
    BY Constants DEF WatchInv, WatchTypeOK, Times, Each, Silence, Overdue, Relay, nodeVars, cacheVars, checkVars
  <2>3. Recovery(s)'
    BY Constants DEF WatchInv, WatchTypeOK, Each, Recovery, Steady, Relay, nodeVars, cacheVars, checkVars
  <2> QED BY <2>1, <2>2, <2>3 DEF Each
<1> QED BY <1>1, <1>2, <1>3 DEF WatchInv

LEMMA FullStateKeeps ==
  ASSUME WatchInv, NEW n \in Servers, FullState(n)
  PROVE  WatchInv'
<1>1. WatchTypeOK'
  <2>1. /\ full' \in [Servers -> BOOLEAN] /\ touch' \in [Servers -> BOOLEAN]
    BY DEF WatchInv, WatchTypeOK, FullState
  <2>2. age' \in [Servers -> Times]
    BY Constants DEF WatchInv, WatchTypeOK, FullState, Times, Said
  <2>3. status' \in [Servers -> Statuses]
    BY DEF WatchInv, WatchTypeOK, FullState, Statuses
  <2> QED BY <2>1, <2>2, <2>3 DEF WatchInv, WatchTypeOK, FullState, checkVars
<1>2. AsRead'
  BY Constants DEF WatchInv, WatchTypeOK, AsRead, Asleep, Reading, Steady, FullState, nodeVars, cacheVars, checkVars
<1>3. ASSUME NEW s \in Servers PROVE Each(s)'
  <2>1. Fresh(s)' /\ Down(s)' /\ Own(s)'
    BY Constants DEF WatchInv, WatchTypeOK, Times, Said, Each, Fresh, Down, Own, FullState, nodeVars, cacheVars, checkVars
  <2>2. Silence(s)'
    BY Constants DEF WatchInv, WatchTypeOK, Times, Each, Silence, Overdue, FullState, nodeVars, cacheVars, checkVars
  <2>3. Recovery(s)'
    BY Constants DEF WatchInv, WatchTypeOK, Each, Recovery, Steady, FullState, nodeVars, cacheVars, checkVars
  <2> QED BY <2>1, <2>2, <2>3 DEF Each
<1> QED BY <1>1, <1>2, <1>3 DEF WatchInv

LEMMA TouchKeeps ==
  ASSUME WatchInv, NEW n \in Servers, Touch(n)
  PROVE  WatchInv'
<1>1. WatchTypeOK'
  BY Constants DEF WatchInv, WatchTypeOK, Statuses, Times, Said, Touch, nodeVars, cacheVars, checkVars, Now
<1>2. AsRead'
  BY Constants DEF WatchInv, WatchTypeOK, AsRead, Asleep, Reading, Steady, Touch, nodeVars, cacheVars, checkVars, Now
<1>3. ASSUME NEW s \in Servers PROVE Each(s)'
  <2>1. Fresh(s)' /\ Down(s)' /\ Own(s)'
    BY Constants DEF WatchInv, WatchTypeOK, Times, Said, Each, Fresh, Down, Own, Touch, nodeVars, cacheVars, checkVars, Now
  <2>2. Silence(s)'
    BY Constants DEF WatchInv, WatchTypeOK, Times, Each, Silence, Overdue, Touch, nodeVars, cacheVars, checkVars, Now
  <2>3. Recovery(s)'
    BY Constants DEF WatchInv, WatchTypeOK, Each, Recovery, Steady, Touch, nodeVars, cacheVars, checkVars, Now
  <2> QED BY <2>1, <2>2, <2>3 DEF Each
<1> QED BY <1>1, <1>2, <1>3 DEF WatchInv

LEMMA OutageKeeps ==
  ASSUME WatchInv, NEW n \in Servers, NEW kind \in {"slow", "lost", "down"}, Outage(n, kind)
  PROVE  WatchInv'
<1>1. WatchTypeOK'
  BY Constants DEF WatchInv, WatchTypeOK, Statuses, Times, Said, Outage, nodeVars, cacheVars, checkVars
<1>2. AsRead'
  BY Constants DEF WatchInv, WatchTypeOK, AsRead, Asleep, Reading, Steady, Outage, nodeVars, cacheVars, checkVars
<1>3. ASSUME NEW s \in Servers PROVE Each(s)'
  <2>1. Fresh(s)' /\ Down(s)' /\ Own(s)'
    BY Constants DEF WatchInv, WatchTypeOK, Times, Said, Each, Fresh, Down, Own, Outage, nodeVars, cacheVars, checkVars
  <2>2. Silence(s)'
    BY Constants DEF WatchInv, WatchTypeOK, Times, Each, Silence, Overdue, Outage, nodeVars, cacheVars, checkVars
  <2>3. Recovery(s)'
    BY Constants DEF WatchInv, WatchTypeOK, Each, Recovery, Steady, Outage, nodeVars, cacheVars, checkVars
  <2> QED BY <2>1, <2>2, <2>3 DEF Each
<1> QED BY <1>1, <1>2, <1>3 DEF WatchInv

LEMMA OwnCheckerKeeps ==
  ASSUME WatchInv, NEW n \in Servers, OwnChecker(n)
  PROVE  WatchInv'
<1>1. WatchTypeOK'
  BY Constants DEF WatchInv, WatchTypeOK, Statuses, Times, Said, OwnChecker, nodeVars, cacheVars, checkVars
<1>2. AsRead'
  BY Constants DEF WatchInv, WatchTypeOK, AsRead, Asleep, Reading, Steady, OwnChecker, nodeVars, cacheVars, checkVars
<1>3. ASSUME NEW s \in Servers PROVE Each(s)'
  <2>1. Fresh(s)' /\ Down(s)' /\ Own(s)'
    BY Constants DEF WatchInv, WatchTypeOK, Times, Said, Each, Fresh, Down, Own, OwnChecker, nodeVars, cacheVars, checkVars
  <2>2. Silence(s)'
    BY Constants DEF WatchInv, WatchTypeOK, Times, Each, Silence, Overdue, OwnChecker, nodeVars, cacheVars, checkVars
  <2>3. Recovery(s)'
    BY Constants DEF WatchInv, WatchTypeOK, Each, Recovery, Steady, OwnChecker, nodeVars, cacheVars, checkVars
  <2> QED BY <2>1, <2>2, <2>3 DEF Each
<1> QED BY <1>1, <1>2, <1>3 DEF WatchInv

LEMMA RecoverKeeps ==
  ASSUME WatchInv, NEW n \in Servers, Recover(n)
  PROVE  WatchInv'
<1>1. WatchTypeOK'
  BY Constants DEF WatchInv, WatchTypeOK, Statuses, Times, Said, Recover, nodeVars, cacheVars, checkVars
<1>2. AsRead'
  BY Constants DEF WatchInv, WatchTypeOK, AsRead, Asleep, Reading, Steady, Recover, nodeVars, cacheVars, checkVars
<1>3. ASSUME NEW s \in Servers PROVE Each(s)'
  <2>1. Fresh(s)' /\ Down(s)' /\ Own(s)'
    BY Constants DEF WatchInv, WatchTypeOK, Times, Said, Each, Fresh, Down, Own, Recover, nodeVars, cacheVars, checkVars
  <2>2. Silence(s)'
    BY Constants DEF WatchInv, WatchTypeOK, Times, Each, Silence, Overdue, Recover, nodeVars, cacheVars, checkVars
  <2>3. Recovery(s)'
    BY Constants DEF WatchInv, WatchTypeOK, Each, Recovery, Steady, Recover, nodeVars, cacheVars, checkVars
  <2> QED BY <2>1, <2>2, <2>3 DEF Each
<1> QED BY <1>1, <1>2, <1>3 DEF WatchInv

LEMMA ResumeKeeps ==
  ASSUME WatchInv, NEW n \in Servers, Resume(n)
  PROVE  WatchInv'
<1>1. WatchTypeOK'
  BY Constants DEF WatchInv, WatchTypeOK, Statuses, Times, Said, Resume, nodeVars, cacheVars, checkVars
<1>2. AsRead'
  BY Constants DEF WatchInv, WatchTypeOK, AsRead, Asleep, Reading, Steady, Resume, nodeVars, cacheVars, checkVars
<1>3. ASSUME NEW s \in Servers PROVE Each(s)'
  <2>1. Fresh(s)' /\ Down(s)' /\ Own(s)'
    BY Constants DEF WatchInv, WatchTypeOK, Times, Said, Each, Fresh, Down, Own, Resume, nodeVars, cacheVars, checkVars
  <2>2. Silence(s)'
    BY Constants DEF WatchInv, WatchTypeOK, Times, Each, Silence, Overdue, Resume, nodeVars, cacheVars, checkVars
  <2>3. Recovery(s)'
    BY Constants DEF WatchInv, WatchTypeOK, Each, Recovery, Steady, Resume, nodeVars, cacheVars, checkVars
  <2> QED BY <2>1, <2>2, <2>3 DEF Each
<1> QED BY <1>1, <1>2, <1>3 DEF WatchInv

LEMMA StartRoundKeeps ==
  ASSUME WatchInv, StartRound
  PROVE  WatchInv'
<1>1. WatchTypeOK'
  BY Constants DEF WatchInv, WatchTypeOK, Statuses, Times, Said, StartRound, nodeVars, cacheVars, checkVars
<1>2. AsRead'
  BY Constants DEF WatchInv, WatchTypeOK, AsRead, Asleep, Reading, Steady, StartRound, nodeVars, cacheVars, checkVars
<1>3. ASSUME NEW s \in Servers PROVE Each(s)'
  <2>1. Fresh(s)' /\ Down(s)' /\ Own(s)'
    BY Constants DEF WatchInv, WatchTypeOK, Times, Said, Each, Fresh, Down, Own, StartRound, nodeVars, cacheVars, checkVars
  <2>2. Silence(s)'
    BY Constants DEF WatchInv, WatchTypeOK, Times, Each, Silence, Overdue, StartRound, nodeVars, cacheVars, checkVars
  <2>3. Recovery(s)'
    BY Constants DEF WatchInv, WatchTypeOK, Each, Recovery, Steady, StartRound, nodeVars, cacheVars, checkVars
  <2> QED BY <2>1, <2>2, <2>3 DEF Each
<1> QED BY <1>1, <1>2, <1>3 DEF WatchInv

LEMMA LookKeeps ==
  ASSUME WatchInv, NEW n \in Servers, Look(n)
  PROVE  WatchInv'
<1>1. /\ n \in round /\ verdict = Idle /\ round' = round \ {n}
      /\ UNCHANGED <<link, upFor, wait, full, own, touch, status, relay, told, next>>
      /\ age' = [age EXCEPT ![n] = IF @ = None THEN 0 ELSE @]
      /\ slept' = [slept EXCEPT ![n] = IF misread' THEN 0 ELSE @]
  BY DEF Look, nodeVars
<1>2. TooOld(n) \in BOOLEAN /\ TooOld(n) = Overdue(age[n])
  BY DEF TooOld, Overdue
<1>3. /\ verdict' = [server |-> n, old |-> TooOld(n), marked |-> FALSE]
      /\ verdict'.server = n /\ verdict'.old = TooOld(n) /\ verdict'.marked = FALSE
  BY DEF Look
<1>4. misread' = (touch[n] /\ TooOld(n))
  BY DEF Look
<1>5. verdict' \in Verdicts
  BY <1>2, <1>3 DEF Verdicts
<1>6. WatchTypeOK'
  <2>1. misread' \in BOOLEAN
    BY <1>4
  <2>2. age' \in [Servers -> Times]
    BY <1>1, Constants DEF WatchInv, WatchTypeOK, Times
  <2>3. slept' \in [Servers -> 0 .. Sleep]
    BY <1>1, Constants DEF WatchInv, WatchTypeOK
  <2> QED BY <1>1, <1>5, <2>1, <2>2, <2>3 DEF WatchInv, WatchTypeOK
<1>7. ~Asleep /\ next = Every
  BY <1>1 DEF WatchInv, AsRead, Asleep
<1>8. TooOld(n) => misread' \/ ~Steady(upFor[n])
  BY <1>2, <1>4, NotBoth
<1>9. AsRead'
  <2>1. next' = Every
    BY <1>1, <1>7
  <2>2. verdict'.old => ~Steady(upFor'[n]) \/ misread'
    BY <1>1, <1>3, <1>8
  <2> QED BY <1>3, <2>1, <2>2 DEF AsRead, Reading
<1>10. ASSUME NEW s \in Servers PROVE Each(s)'
  <2>1. Fresh(s)' /\ Down(s)' /\ Own(s)'
    <3>1. age[s] # None => age'[s] = age[s]
      BY <1>1 DEF WatchInv, WatchTypeOK
    <3>2. age[s] = None => age'[s] = None \/ age'[s] = 0
      BY <1>1 DEF WatchInv, WatchTypeOK
    <3>3. wait[s] \in 0 .. Period /\ Fresh(s) /\ Down(s) /\ Own(s)
      BY DEF WatchInv, WatchTypeOK, Each
    <3> QED BY <1>1, <3>1, <3>2, <3>3, Constants DEF Fresh, Down, Own
  <2>2. CASE s = n
    <3>1. misread' => slept'[n] + next' <= Every
      <4>1. misread' => slept'[n] = 0
        BY <1>1 DEF WatchInv, WatchTypeOK
      <4> QED BY <4>1, <1>1, <1>7, Constants
    <3>2. Silence(n)'
      <4>1. Overdue(age'[n]) /\ ~touch'[n] => TooOld(n)
        <5>1. age[n] = None => age'[n] = 0
          BY <1>1 DEF WatchInv, WatchTypeOK
        <5>2. age[n] # None => age'[n] = age[n]
          BY <1>1 DEF WatchInv, WatchTypeOK
        <5>3. ~Overdue(0)
          BY Constants DEF Overdue
        <5> QED BY <1>2, <5>1, <5>2, <5>3
      <4> QED BY <1>3, <4>1 DEF Silence
    <3>3. Recovery(n)'
      BY <1>1, <1>3, <1>8, <3>1 DEF Recovery
    <3> QED BY <2>1, <2>2, <3>2, <3>3 DEF Each
  <2>3. CASE s # n
    <3>1. age'[s] = age[s] /\ slept'[s] = slept[s] /\ (s \in round <=> s \in round')
      BY <1>1, <2>3 DEF WatchInv, WatchTypeOK
    <3>2. verdict.server # s /\ verdict'.server # s
      BY <1>1, <1>3, <2>3, Constants DEF Idle
    <3>3. Silence(s) /\ Recovery(s)
      BY DEF WatchInv, Each
    <3>4. Silence(s)'
      BY <1>1, <3>1, <3>2, <3>3 DEF Silence
    <3>5. Recovery(s)'
      BY <1>1, <3>1, <3>2, <3>3 DEF Recovery
    <3> QED BY <2>1, <3>4, <3>5 DEF Each
  <2> QED BY <2>2, <2>3
<1> QED BY <1>6, <1>9, <1>10 DEF WatchInv

LEMMA MarkKeeps ==
  ASSUME WatchInv, Mark
  PROVE  WatchInv'
<1>1. WatchTypeOK'
  <2>1. verdict \in Verdicts /\ verdict.server \in Servers
    BY DEF Mark, Reading, WatchInv, WatchTypeOK, Verdicts
  <2>2. verdict' \in Verdicts
    BY <2>1 DEF Mark, Verdicts
  <2>3. status' \in [Servers -> Statuses]
    BY <2>1 DEF Mark, WatchInv, WatchTypeOK, Statuses
  <2> QED BY <2>2, <2>3 DEF Mark, WatchInv, WatchTypeOK, nodeVars
<1>2. AsRead'
  BY Constants DEF WatchInv, WatchTypeOK, AsRead, Asleep, Reading, Steady, Mark, nodeVars, cacheVars, checkVars, Reading
<1>3. ASSUME NEW s \in Servers PROVE Each(s)'
  <2>1. Fresh(s)' /\ Down(s)' /\ Own(s)'
    BY Constants DEF WatchInv, WatchTypeOK, Times, Said, Each, Fresh, Down, Own, Mark, nodeVars, cacheVars, checkVars, Reading
  <2>2. Silence(s)'
    BY Constants DEF WatchInv, WatchTypeOK, Times, Each, Silence, Overdue, Mark, nodeVars, cacheVars, checkVars, Reading
  <2>3. Recovery(s)'
    BY Constants DEF WatchInv, WatchTypeOK, Each, Recovery, Steady, Mark, nodeVars, cacheVars, checkVars, Reading
  <2> QED BY <2>1, <2>2, <2>3 DEF Each
<1> QED BY <1>1, <1>2, <1>3 DEF WatchInv

LEMMA TellKeeps ==
  ASSUME WatchInv, Tell
  PROVE  WatchInv'
<1>1. WatchTypeOK'
  BY Constants DEF WatchInv, WatchTypeOK, Statuses, Times, Said, Tell, nodeVars, cacheVars, checkVars, Reading, Message, Idle
<1>2. AsRead'
  BY Constants DEF WatchInv, WatchTypeOK, AsRead, Asleep, Reading, Steady, Tell, nodeVars, cacheVars, checkVars, Reading, Message, Idle
<1>3. ASSUME NEW s \in Servers PROVE Each(s)'
  <2>1. Fresh(s)' /\ Down(s)' /\ Own(s)'
    BY Constants DEF WatchInv, WatchTypeOK, Times, Said, Each, Fresh, Down, Own, Tell, nodeVars, cacheVars, checkVars, Reading, Message, Idle
  <2>2. Silence(s)'
    BY Constants DEF WatchInv, WatchTypeOK, Times, Each, Silence, Overdue, Tell, nodeVars, cacheVars, checkVars, Reading, Message, Idle
  <2>3. Recovery(s)'
    BY Constants DEF WatchInv, WatchTypeOK, Each, Recovery, Steady, Tell, nodeVars, cacheVars, checkVars, Reading, Message, Idle
  <2> QED BY <2>1, <2>2, <2>3 DEF Each
<1> QED BY <1>1, <1>2, <1>3 DEF WatchInv

LEMMA RestartKeeps ==
  ASSUME WatchInv, MasterRestart
  PROVE  WatchInv'
<1>1. WatchTypeOK'
  <2>1. /\ full' \in [Servers -> BOOLEAN] /\ touch' \in [Servers -> BOOLEAN]
        /\ misread' \in BOOLEAN
    BY DEF MasterRestart
  <2>2. age' \in [Servers -> Times]
    BY Constants DEF MasterRestart, Times
  <2>3. status' \in [Servers -> Statuses]
    BY DEF MasterRestart, Statuses
  <2>4. /\ upFor' \in [Servers -> 0 .. UpCap] /\ wait' \in [Servers -> 0 .. Period]
        /\ slept' \in [Servers -> 0 .. Sleep] /\ next' \in 0 .. Every
        /\ relay' \in [Servers -> Nat]
    BY Constants DEF MasterRestart
  <2>5. link' \in [Servers -> {"up", "slow", "lost", "down"}] /\ round' \subseteq Servers
    BY DEF MasterRestart
  <2> QED BY <2>1, <2>2, <2>3, <2>4, <2>5 DEF MasterRestart, WatchInv, WatchTypeOK
<1>2. AsRead'
  BY Constants DEF WatchInv, WatchTypeOK, AsRead, Asleep, Reading, Steady, MasterRestart, nodeVars, cacheVars, checkVars, Idle
<1>3. ASSUME NEW s \in Servers PROVE Each(s)'
  <2>1. Fresh(s)' /\ Down(s)' /\ Own(s)'
    BY Constants DEF WatchInv, WatchTypeOK, Times, Said, Each, Fresh, Down, Own, MasterRestart, nodeVars, cacheVars, checkVars, Idle
  <2>2. Silence(s)'
    BY Constants DEF WatchInv, WatchTypeOK, Times, Each, Silence, Overdue, MasterRestart, nodeVars, cacheVars, checkVars, Idle
  <2>3. Recovery(s)'
    BY Constants DEF WatchInv, WatchTypeOK, Each, Recovery, Steady, MasterRestart, nodeVars, cacheVars, checkVars, Idle
  <2> QED BY <2>1, <2>2, <2>3 DEF Each
<1> QED BY <1>1, <1>2, <1>3 DEF WatchInv

LEMMA WatchStepKeeps == WatchInv /\ [WatchNext]_vars => WatchInv'
<1> SUFFICES ASSUME WatchInv, [WatchNext]_vars PROVE WatchInv'
  OBVIOUS
<1>1. CASE UNCHANGED vars
  BY <1>1 DEF vars, nodeVars, cacheVars, checkVars, WatchInv, WatchTypeOK, AsRead, Asleep,
              Reading, Each, Fresh, Down, Own, Silence, Recovery
<1>2. CASE WatchNext
  BY <1>2, TickKeeps, ReportKeeps, RelayKeeps, FullStateKeeps, TouchKeeps, OutageKeeps,
     OwnCheckerKeeps, RecoverKeeps, ResumeKeeps, StartRoundKeeps, LookKeeps, MarkKeeps,
     TellKeeps, RestartKeeps DEF WatchNext
<1> QED BY <1>1, <1>2

LEMMA WatchInvHolds == WatchSpec => []WatchInv
BY WatchInitHolds, WatchStepKeeps, PTL DEF WatchSpec

\* The watch is type correct.
THEOREM WatchTypeCorrect == WatchSpec => []WatchTypeOK
<1>1. WatchInv => WatchTypeOK
  BY DEF WatchInv
<1> QED BY <1>1, WatchInvHolds, PTL

\* Silence beyond the threshold is shown, in the cache and on the dashboards, after one
\* pause of the checker and whatever the broadcasts take.
THEOREM WatchSilenceIsTold == WatchSpec => []SilenceIsTold
<1>1. WatchInv => SilenceIsTold
  BY Constants DEF WatchInv, WatchTypeOK, SilenceIsTold, Each, Silence, Checked
<1> QED BY <1>1, WatchInvHolds, PTL

\* A server that reports for longer than a period is told online after one pause.
THEOREM WatchRecoveryIsTold == WatchSpec => []RecoveryIsTold
<1>1. WatchInv => RecoveryIsTold
  BY Constants DEF WatchInv, WatchTypeOK, RecoveryIsTold, Each, Recovery, Checked
<1> QED BY <1>1, WatchInvHolds, PTL

\* The only steps that mark a server offline are the checker's verdict, the word of a
\* node that has not reported since its own checker found it so, and the file.
THEOREM WatchNoFalseAlarm == WatchSpec => NoFalseAlarm
<1>1. ASSUME WatchInv, [WatchNext]_vars, NEW s \in Servers,
             status[s] = "online", status'[s] = "offline"
      PROVE  ~Steady(upFor'[s]) \/ (misread /\ verdict.server = s)
  <2>1. CASE Mark
    <3>1. verdict.server = s
      BY <1>1, <2>1 DEF WatchInv, WatchTypeOK, Mark
    <3> QED BY <1>1, <2>1, <3>1 DEF WatchInv, AsRead, Mark, nodeVars
  <2>2. CASE \E n \in Servers : FullState(n)
    BY <1>1, <2>2, Constants DEF WatchInv, WatchTypeOK, Each, Own, FullState, Steady
  <2>3. CASE \E n \in Servers : Report(n)
    BY <1>1, <2>3 DEF WatchInv, WatchTypeOK, Report
  <2>4. CASE MasterRestart
    BY <1>1, <2>4, Constants DEF MasterRestart, Steady
  <2>5. CASE UNCHANGED status
    BY <1>1, <2>5
  <2>6. CASE UNCHANGED vars
    BY <2>5, <2>6 DEF vars, cacheVars
  <2>7. CASE Tick \/ StartRound \/ Tell
    BY <2>5, <2>7 DEF Tick, StartRound, Tell, cacheVars
  <2>8. ASSUME NEW n \in Servers,
               \/ Relay(n) \/ Touch(n) \/ OwnChecker(n) \/ Recover(n) \/ Resume(n) \/ Look(n)
               \/ \E kind \in {"slow", "lost", "down"} : Outage(n, kind)
        PROVE  UNCHANGED status
    BY <2>8 DEF Relay, Touch, OwnChecker, Recover, Resume, Look, Outage, cacheVars
  <2>9. CASE \E n \in Servers :
               \/ Relay(n) \/ Touch(n) \/ OwnChecker(n) \/ Recover(n) \/ Resume(n) \/ Look(n)
               \/ \E kind \in {"slow", "lost", "down"} : Outage(n, kind)
    BY <2>5, <2>8, <2>9
  <2>10. CASE WatchNext
    BY <2>10, <2>1, <2>2, <2>3, <2>4, <2>7, <2>9 DEF WatchNext
  <2> QED BY <1>1, <2>6, <2>10
<1>2. WatchInv /\ [WatchNext]_vars =>
        [\A s \in Servers : status[s] = "online" /\ status'[s] = "offline" =>
           ~Steady(upFor'[s]) \/ (misread /\ verdict.server = s)]_vars
  BY <1>1
<1> QED BY <1>2, WatchInvHolds, PTL DEF WatchSpec, NoFalseAlarm
=============================================================================
