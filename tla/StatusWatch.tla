---------------------------- MODULE StatusWatch ----------------------------
(***************************************************************************)
(* How the master tells which servers are online: the reports that arrive  *)
(* set LastCheckTime, and every 30 s a checker marks the servers whose     *)
(* LastCheckTime is more than 30 s old (monitor/service.go:91,             *)
(* ws/ws_node.go:71).                                                      *)
(*                                                                         *)
(* Time is discrete and ages are capped.  A tick is 30 s in the instance   *)
(* checked.  What waits for nothing happens before time goes on: Tick      *)
(* waits for a reading of the checker, and for the goroutines that only    *)
(* set a field.  It does not wait for a broadcast: the hub writes to one   *)
(* dashboard after the other, under its mutex and with no deadline, so the *)
(* checker, the process's own collecting and a report passed on may be     *)
(* kept for any time.  The clocks of the nodes are their own, and their    *)
(* reports name no time zone: the time in a report is any time.            *)
(***************************************************************************)
EXTENDS Integers

CONSTANTS
  Servers,    \* the servers in the cache
  Local,      \* the one this process runs on
  Period,     \* two reports of a server that works arrive at most so many ticks apart
  Threshold,  \* 30 s
  Every,      \* 30 s, the checker's pause
  MaxRelays,  \* bound: broadcasts of a change of status of one server under way
  None

ASSUME WatchConstants ==
  /\ {Period, Threshold, Every, MaxRelays} \subseteq Nat
  /\ Period <= Threshold /\ Period > 0
  /\ None \notin Nat \cup Servers

VARIABLES
  link,    \* "up", "slow" (collecting hangs), "lost" (nothing arrives, yet connected), "down"
  upFor,   \* how long it has been up (capped)
  wait,    \* since its last report, or since it is up
  full,    \* the full state is due, 15 s after connecting (here: at any time)
  own,     \* the node's own checker marked it offline
  age,     \* of LastCheckTime in this process (capped), None for the zero time
  touch,   \* LastCheckTime is the reported time, the goroutine that sets it to now is due
  status,  \* Status in this process
  relay,   \* broadcasts of a report's "online" under way
  told,    \* what the dashboards heard last
  next,    \* what is left of the checker's pause
  round,   \* the servers it has yet to look at
  verdict, \* read and not told yet: the server, whether it is too old, whether it is marked
  slept,   \* history: how long the checker slept since the server is overdue or steady (capped)
  misread  \* history: the time in verdict was read between the two steps of a report

nodeVars  == <<link, upFor, wait, full, own>>
cacheVars == <<age, touch, status, relay, told>>
checkVars == <<next, round, verdict, misread>>
vars == <<nodeVars, cacheVars, checkVars, slept>>

Remote == Servers \ {Local}
AgeCap == Threshold + 1
UpCap  == Period + 1
Sleep  == Every + 1
Capped(n, cap) == IF n < cap THEN n ELSE cap
Times == (0 .. AgeCap) \cup {None}
Said  == {0, AgeCap, None}  \* in a report, until it is replaced: fresh, too old, or none

Idle == [server |-> None, old |-> FALSE, marked |-> FALSE]
Reading == verdict # Idle /\ verdict.old /\ ~verdict.marked

WatchInit ==
  /\ link = [s \in Servers |-> "up"] /\ upFor = [s \in Servers |-> UpCap]
  /\ wait = [s \in Servers |-> 0]    /\ full = [s \in Servers |-> FALSE]
  /\ own = [s \in Servers |-> FALSE] /\ age = [s \in Servers |-> 0]
  /\ touch = [s \in Servers |-> FALSE] /\ relay = [s \in Servers |-> 0]
  /\ status = [s \in Servers |-> "online"] /\ told = [s \in Servers |-> "online"]
  /\ next = 0 /\ round = {} /\ verdict = Idle
  /\ slept = [s \in Servers |-> 0] /\ misread = FALSE

\* A LastCheckTime of age a is too old; a server up for n ticks reports as it should.
Overdue(a) == a # None /\ a > Threshold
Steady(n) == n > Period

\* The checker sleeps; else, as time goes on, a broadcast keeps it.
Asleep == round = {} /\ verdict = Idle
Before(s) ==
  IF (Overdue(age[s]) /\ Overdue(age'[s])) \/ (Steady(upFor[s]) /\ Steady(upFor'[s]))
  THEN slept[s] ELSE 0
Tick ==
  /\ IF Asleep THEN next > 0 ELSE verdict # Idle /\ ~Reading
  /\ \A s \in Servers : ~touch[s] /\ (link[s] = "up" => wait[s] < Period)
  /\ next' = IF Asleep THEN next - 1 ELSE next
  /\ age' = [s \in Servers |-> IF age[s] = None THEN None ELSE Capped(age[s] + 1, AgeCap)]
  /\ upFor' = [s \in Servers |-> IF link[s] = "up" THEN Capped(upFor[s] + 1, UpCap) ELSE 0]
  /\ wait' = [s \in Servers |-> IF link[s] = "up" THEN wait[s] + 1 ELSE 0]
  /\ slept' = [s \in Servers |->
       IF ~Overdue(age'[s]) /\ ~Steady(upFor'[s]) THEN 0
       ELSE Capped(Before(s) + (IF Asleep THEN 1 ELSE 0), Sleep)]
  /\ UNCHANGED <<link, full, own, touch, status, relay, told, round, verdict, misread>>

---------------------------------------------------------------------------
(* What arrives *)

\* collectAndStore: the status is part of a report only where the node's own cache says
\* something else; on the way to the cache a goroutine passes the report on.  This
\* process's own collecting waits for its broadcast.
Report(s) ==
  /\ link[s] = "up" /\ wait[s] > 0
  /\ s = Local => relay[s] = 0
  /\ wait' = [wait EXCEPT ![s] = 0]
  /\ own' = [own EXCEPT ![s] = FALSE]
  /\ IF own[s] \/ (s = Local /\ status[s] = "offline")
     THEN /\ relay[s] < MaxRelays
          /\ status' = [status EXCEPT ![s] = "online"]
          /\ relay' = [relay EXCEPT ![s] = @ + 1]
     ELSE UNCHANGED <<status, relay>>
  /\ \E a \in IF s = Local THEN {0} ELSE Said : age' = [age EXCEPT ![s] = a]
  /\ touch' = [touch EXCEPT ![s] = s # Local]
  /\ UNCHANGED <<link, upFor, full, told, checkVars, slept>>

\* The broadcast comes through, at any time and after any other; this process then sets
\* its own LastCheckTime again.
Relay(s) ==
  /\ relay[s] > 0
  /\ relay' = [relay EXCEPT ![s] = @ - 1]
  /\ told' = [told EXCEPT ![s] = "online"]
  /\ age' = [age EXCEPT ![s] = IF s = Local THEN 0 ELSE @]
  /\ slept' = [slept EXCEPT ![s] = 0]
  /\ UNCHANGED <<nodeVars, touch, status, checkVars>>

\* The full state of a node, once after it connected, or lost on the way; the dashboards
\* do not get it.
FullState(s) ==
  /\ link[s] = "up" /\ full[s]
  /\ full' = [full EXCEPT ![s] = FALSE]
  /\ \/ /\ status' = [status EXCEPT ![s] = IF own[s] THEN "offline" ELSE "online"]
        /\ \E a \in Said : age' = [age EXCEPT ![s] = a]
        /\ touch' = [touch EXCEPT ![s] = TRUE]
     \/ UNCHANGED <<status, age, touch>>
  /\ UNCHANGED <<link, upFor, wait, own, relay, told, checkVars, slept>>

\* LastCheckTime = time.Now(), after the fields of the message.
ReportedTime(s) == age[s]    \* mutant: the node's clock is trusted
Now(s) == 0
Touch(s) ==
  /\ touch[s]
  /\ touch' = [touch EXCEPT ![s] = FALSE]
  /\ age' = [age EXCEPT ![s] = Now(s)]
  /\ UNCHANGED <<nodeVars, status, relay, told, checkVars, slept>>

\* Something keeps the reports of s away ...
Outage(s, kind) ==
  /\ link[s] = "up"
  /\ kind \in IF s = Local THEN {"slow"} ELSE {"slow", "lost", "down"}
  /\ link' = [link EXCEPT ![s] = kind]
  /\ upFor' = [upFor EXCEPT ![s] = 0]
  /\ wait' = [wait EXCEPT ![s] = 0]
  /\ full' = [full EXCEPT ![s] = @ /\ kind # "down"]
  /\ UNCHANGED <<own, cacheVars, checkVars, slept>>

\* ... which its own checker notices where it is the collecting that hangs (what the
\* node finds out while it is not connected, the full state tells) ...
OwnChecker(s) ==
  /\ s # Local
  /\ \/ link[s] = "slow" /\ own' = [own EXCEPT ![s] = TRUE]
     \/ link[s] = "down" /\ own' = [own EXCEPT ![s] = FALSE]
  /\ UNCHANGED <<link, upFor, wait, full, cacheVars, checkVars, slept>>

\* ... and is over; a node whose connection broke has dialled again.
Recover(s) ==
  /\ link[s] \in {"slow", "down"}
  /\ link' = [link EXCEPT ![s] = "up"]
  /\ full' = [full EXCEPT ![s] = @ \/ link[s] = "down"]
  /\ UNCHANGED <<upFor, wait, own, cacheVars, checkVars, slept>>

\* A connection that nothing came through goes on with what it held back, of any age.
Resume(s) ==
  /\ link[s] = "lost"
  /\ link' = [link EXCEPT ![s] = "up"]
  /\ \E a \in Said : age' = [age EXCEPT ![s] = a]
  /\ touch' = [touch EXCEPT ![s] = TRUE]
  /\ UNCHANGED <<upFor, wait, full, own, status, relay, told, checkVars, slept>>

---------------------------------------------------------------------------
(* The checker *)

StartRound ==
  /\ next = 0 /\ Asleep
  /\ round' = Servers /\ next' = Every
  /\ UNCHANGED <<nodeVars, cacheVars, verdict, misread, slept>>

AfterSwapped(s) == age[s] # None /\ ~Overdue(age[s])  \* mutant: After for Before
TooOld(s) == Overdue(age[s])

\* The zero time is replaced by now.  Servers that are not too old are told at once.
Look(s) ==
  /\ s \in round /\ verdict = Idle
  /\ verdict' = [server |-> s, old |-> TooOld(s), marked |-> FALSE]
  /\ round' = round \ {s}
  /\ age' = [age EXCEPT ![s] = IF @ = None THEN 0 ELSE @]
  /\ misread' = (touch[s] /\ TooOld(s))
  /\ slept' = [slept EXCEPT ![s] = IF misread' THEN 0 ELSE @]
  /\ UNCHANGED <<nodeVars, touch, status, relay, told, next>>

Mark ==
  /\ Reading
  /\ status' = [status EXCEPT ![verdict.server] = "offline"]
  /\ verdict' = [verdict EXCEPT !.marked = TRUE]
  /\ UNCHANGED <<nodeVars, age, touch, relay, told, next, round, misread, slept>>

\* The dashboards are told of every server, also of those that are online.
OnlySilent(s, old) == IF old THEN "offline" ELSE told[s]  \* mutant: no word of the others
Blank(s, old) == IF old THEN "offline" ELSE ""            \* mutant: no status in the message
Message(s, old) == IF old THEN "offline" ELSE "online"

Tell ==
  /\ verdict # Idle /\ ~Reading
  /\ told' = [told EXCEPT ![verdict.server] = Message(verdict.server, verdict.old)]
  /\ verdict' = Idle /\ misread' = FALSE
  /\ UNCHANGED <<nodeVars, age, touch, status, relay, next, round, slept>>

\* The process starts again, from a file of any age; the checker begins with a round.
MasterRestart ==
  /\ link' = [s \in Servers |-> IF s = Local THEN "up" ELSE "down"]
  /\ upFor' = [s \in Servers |-> 0] /\ wait' = [s \in Servers |-> 0]
  /\ full' = [s \in Servers |-> FALSE]
  /\ \E a \in Times : age' = [s \in Servers |-> IF s = Local THEN 0 ELSE a]
  /\ \E st \in {"online", "offline"} :
       status' = [s \in Servers |-> IF s = Local THEN "online" ELSE st]
  /\ touch' = [s \in Servers |-> FALSE] /\ relay' = [s \in Servers |-> 0]
  /\ round' = Servers /\ next' = Every /\ verdict' = Idle
  /\ slept' = [s \in Servers |-> 0] /\ misread' = FALSE
  /\ UNCHANGED <<own, told>>

WatchNext ==
  \/ Tick \/ StartRound \/ Mark \/ Tell \/ MasterRestart
  \/ \E s \in Servers : \/ Report(s) \/ Relay(s) \/ FullState(s) \/ Touch(s) \/ OwnChecker(s)
                        \/ Recover(s) \/ Resume(s) \/ Look(s)
                        \/ \E kind \in {"slow", "lost", "down"} : Outage(s, kind)

WatchSpec == WatchInit /\ [][WatchNext]_vars

---------------------------------------------------------------------------
(* Properties *)

Statuses == {"online", "offline"}
Verdicts == [server : Servers, old : BOOLEAN, marked : BOOLEAN]
Checked(s) == s \notin round /\ verdict.server # s

\* Type correctness.
WatchTypeOK ==
  /\ link \in [Servers -> {"up", "slow", "lost", "down"}]
  /\ upFor \in [Servers -> 0 .. UpCap] /\ wait \in [Servers -> 0 .. Period]
  /\ full \in [Servers -> BOOLEAN] /\ own \in [Servers -> BOOLEAN]
  /\ age \in [Servers -> Times] /\ touch \in [Servers -> BOOLEAN]
  /\ status \in [Servers -> Statuses] /\ told \in [Servers -> Statuses]
  /\ relay \in [Servers -> Nat]
  /\ next \in 0 .. Every /\ round \subseteq Servers /\ misread \in BOOLEAN
  /\ verdict \in Verdicts \cup {Idle} /\ slept \in [Servers -> 0 .. Sleep]

\* The checker sleeps for no longer than its pause over a server that is silent beyond the
\* threshold without it being offline, in the cache and on the dashboards, or over one
\* that reports as it should without the dashboards being told so (service.go:98-103).
\* What broadcasts take does not count, they have no deadline; and the count begins again
\* where a report's own broadcast was kept so long that it comes after the checker's word,
\* and where the checker read the time in the middle of a report.
SilenceIsTold ==
  \A s \in Servers : slept[s] > Every /\ Overdue(age[s]) /\ ~touch[s] /\ Checked(s) =>
    status[s] = "offline" /\ told[s] = "offline"
RecoveryIsTold ==
  \A s \in Servers : slept[s] > Every /\ Steady(upFor[s]) /\ Checked(s) => told[s] = "online"

\* No false alarm: nothing marks a server offline that has been reporting for longer than
\* a period, whatever its clock says and however long broadcasts take, except that
\* the checker read its time between the two steps of a report (ws_node.go:98,106).
NoFalseAlarm ==
  [][\A s \in Servers : status[s] = "online" /\ status'[s] = "offline" =>
       ~Steady(upFor'[s]) \/ (misread /\ verdict.server = s)]_vars
=============================================================================
