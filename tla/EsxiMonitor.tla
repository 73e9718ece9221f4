----------------------------- MODULE EsxiMonitor -----------------------------
(***************************************************************************)
(* The ESXi monitor (monitor/esxi_monitor.go, env_loader.go): it waits for *)
(* a configuration, starts one goroutine per host, and starts them again   *)
(* when all have ended.  A goroutine connects once and then polls; under   *)
(* dataMutex it compares what it found with what was known, stores it and  *)
(* broadcasts the differences, and it broadcasts while it holds the mutex. *)
(*                                                                         *)
(* What a host reports is of two kinds: key fields, which are sent of a    *)
(* new host and when they differ, and the rest, which is compared but not  *)
(* sent of a new host.  Differences of a VM that are too small to be sent, *)
(* and fields that never are, are not modelled.  The dashboard is one      *)
(* whose page was loaded after the data file was, and that has been        *)
(* connected since.                                                        *)
(***************************************************************************)
EXTENDS Naturals

CONSTANTS
  Hosts,       \* the hosts of the configuration; each has a VM and a datastore
  MaxChanges,  \* bound: changes of hosts, outages, edits of .env, stalls
  MaxExits     \* bound: exits of the process

ASSUME EsxiConstants == Hosts # {} /\ MaxChanges \in Nat /\ MaxExits \in Nat

VARIABLES
  phase,    \* "down", "wait" (for a configuration), "run" or "stop" (cancelled)
  dotenv,   \* ESXI in the file .env: "none", "bad" or "valid"
  env,      \* ESXI in the environment of the process
  up,       \* the hosts that answer
  session,  \* the hosts on which the client made last is still logged in
  whole,    \* the hosts whose VMs and datastores exist and can be retrieved
  version,  \* per host: what it reports
  task,     \* per host: where its goroutine is
  found,    \* per host: what its goroutine has retrieved
  holder,   \* who holds dataMutex, and what it has still to do
  data,     \* MultiHostData
  dash,     \* what the dashboard shows
  stalled,  \* the dashboard does not read: a broadcast blocks
  file,     \* the file that SaveESXIDataOnExit writes
  changes,  \* changes of the environment so far (bounded by MaxChanges)
  exits     \* exits so far (bounded by MaxExits)

ctlVars   == <<phase, dotenv, env>>
hostVars  == <<up, session, whole, version>>
taskVars  == <<task, found>>
dataVars  == <<holder, data, dash>>
boundVars == <<stalled, changes, exits>>
vars      == <<ctlVars, hostVars, taskVars, dataVars, file, boundVars>>

Settings == {"none", "bad", "valid"}
Versions == 0..MaxChanges + 1
Reports  == [key : Versions, rest : Versions]
Nothing  == [key |-> 0, rest |-> 0]           \* 0 stands for no values
Unknown  == [status |-> "", key |-> 0, rest |-> 0]   \* no entry
Entries  == {Unknown} \cup [status : {"online", "offline"}, key : Versions, rest : Versions]
Entry(s, r) == [status |-> s, key |-> r.key, rest |-> r.rest]
NoEntries == [h \in Hosts |-> Unknown]
Free     == [step |-> "free"]

---------------------------------------------------------------------------
(* Configuration *)

\* godotenv.Load leaves alone what the environment has already.
EnvOnce == env                                \* mutant: .env is read at the start only
Reloaded == IF env = "none" THEN dotenv ELSE env

\* WaitForValidConfig: reload the environment every minute until it is valid, then load
\* the data file.
WaitForValidConfig ==
  /\ phase = "wait"
  /\ env' = Reloaded
  /\ IF env' = "valid" THEN phase' = "run" /\ data' = file ELSE UNCHANGED <<phase, data>>
  /\ dash' = data'
  /\ UNCHANGED <<dotenv, hostVars, taskVars, holder, file, boundVars>>

\* The reload loop: of an environment that is set nothing changes, and the configuration
\* stays the one the goroutines were started with.
ConfigReload ==
  /\ phase = "run"
  /\ env' = Reloaded
  /\ UNCHANGED <<phase, dotenv, hostVars, taskVars, dataVars, file, boundVars>>

---------------------------------------------------------------------------
(* Goroutines *)

AllEnded == \A h \in Hosts : task[h] \in {"new", "ended"}

StartAll ==
  /\ phase = "run" /\ AllEnded
  /\ task' = [h \in Hosts |-> "dial"]
  /\ UNCHANGED <<ctlVars, hostVars, found, dataVars, file, boundVars>>

\* newClient and CreateContainerView succeed, or the goroutine ends.
Dial(h) ==
  /\ task[h] = "dial"
  /\ IF h \in up /\ phase = "run"
     THEN session' = session \cup {h} /\ task' = [task EXCEPT ![h] = "watch"]
     ELSE task' = [task EXCEPT ![h] = "ended"] /\ UNCHANGED session
  /\ UNCHANGED <<ctlVars, up, whole, version, found, dataVars, file, boundVars>>

\* A tick: Retrieve fails, as it also does once the context is cancelled or the session
\* is gone, or everything is retrieved; or only the hosts are, and then nothing is done.
FoundAll(h) ==
  /\ h \in whole
  /\ task' = [task EXCEPT ![h] = "found"] /\ found' = [found EXCEPT ![h] = version[h]]
PollInSession(h) ==                           \* mutant: without a session it just goes on
  /\ task[h] = "watch" /\ h \in up \cap session /\ phase = "run"
  /\ FoundAll(h)
  /\ UNCHANGED <<ctlVars, hostVars, dataVars, file, boundVars>>
Poll(h) ==
  /\ task[h] = "watch"
  /\ IF h \in up \cap session /\ phase = "run"
     THEN FoundAll(h)
     ELSE task' = [task EXCEPT ![h] = "failed"] /\ UNCHANGED found
  /\ UNCHANGED <<ctlVars, hostVars, dataVars, file, boundVars>>

CancelledAnywhere(h) ==                        \* mutant: also between polling and storing
  /\ phase = "stop" /\ task[h] \in {"watch", "found"}
  /\ task' = [task EXCEPT ![h] = "ended"]
  /\ UNCHANGED <<ctlVars, hostVars, found, dataVars, file, boundVars>>
Cancelled(h) ==
  /\ phase = "stop" /\ task[h] = "watch"
  /\ task' = [task EXCEPT ![h] = "ended"]
  /\ UNCHANGED <<ctlVars, hostVars, found, dataVars, file, boundVars>>

---------------------------------------------------------------------------
(* Under dataMutex *)

\* setHostStatusOffline changes the entry in place, or makes one without values, and
\* broadcasts when the status was another.
Offline(h) == [data EXCEPT ![h].status = "offline"]

SetHostStatusOffline(h) ==
  /\ task[h] = "failed" /\ holder = Free
  /\ data' = Offline(h)
  /\ IF data[h].status # "offline"
     THEN holder' = [step |-> "offline", host |-> h] /\ UNCHANGED task
     ELSE task' = [task EXCEPT ![h] = "watch"] /\ UNCHANGED holder
  /\ UNCHANGED <<ctlVars, hostVars, found, dash, file, boundVars>>

\* A successful poll copies the entry to previousHostData, then setHostStatusOnline
\* broadcasts when the status was another ...
TakeMutex(h) ==
  /\ task[h] = "found" /\ holder = Free
  /\ holder' = [step |-> IF data[h].status # "online" THEN "online" ELSE "update",
                host |-> h, prev |-> data[h]]
  /\ UNCHANGED <<ctlVars, hostVars, taskVars, data, dash, file, boundVars>>

\* ... and UpdateHost stores what was found, which is a variable of that poll.
Update ==
  /\ holder.step = "update"
  /\ data' = [data EXCEPT ![holder.host] = Entry("online", found[holder.host])]
  /\ holder' = [holder EXCEPT !.step = "compare"]
  /\ found' = [found EXCEPT ![holder.host] = Nothing]
  /\ UNCHANGED <<ctlVars, hostVars, task, dash, file, boundVars>>

\* CompareAndGetChanges: the fields that differ, and of a new host the key fields; what is
\* not sent stays on the dashboard as it was.
SameRecord(prev, new) == dash[holder.host]    \* mutant: both are one record
Sent(prev, new) == IF prev = Unknown THEN {"status", "key"}
                   ELSE {f \in {"status", "key", "rest"} : prev[f] # new[f]}
Shown(prev, new) == [f \in {"status", "key", "rest"} |->
                       IF f \in Sent(prev, new) THEN new[f] ELSE dash[holder.host][f]]

\* The broadcasts, which a dashboard that does not read holds up.
Broadcast ==
  /\ ~stalled
  /\ LET h == holder.host IN
     \/ /\ holder.step = "offline"
        /\ dash' = [dash EXCEPT ![h].status = "offline"]
        /\ holder' = Free /\ task' = [task EXCEPT ![h] = "watch"]
     \/ /\ holder.step = "online"
        /\ dash' = [dash EXCEPT ![h].status = "online"]
        /\ holder' = [holder EXCEPT !.step = "update"] /\ UNCHANGED task
     \/ /\ holder.step = "compare"
        /\ dash' = [dash EXCEPT ![h] = Shown(holder.prev, data[h])]
        /\ holder' = Free /\ task' = [task EXCEPT ![h] = "watch"]
  /\ UNCHANGED <<ctlVars, hostVars, found, data, file, boundVars>>

---------------------------------------------------------------------------
(* The process *)

\* A signal: Stop cancels the context once the service exists ...
Stop ==
  /\ phase = "run" /\ exits < MaxExits
  /\ phase' = "stop"
  /\ UNCHANGED <<dotenv, env, hostVars, taskVars, dataVars, file, boundVars>>

Ended ==
  /\ phase' = "down" /\ env' = "none"
  /\ exits' = exits + 1
  /\ task' = [h \in Hosts |-> "new"] /\ found' = [h \in Hosts |-> Nothing]
  /\ session' = {}
  /\ holder' = Free /\ stalled' = FALSE
  /\ data' = NoEntries /\ dash' = NoEntries
  /\ UNCHANGED <<dotenv, up, whole, version, changes>>

\* ... and SaveESXIDataOnExit, which waits for the mutex, saves entries if there are any.
\* A save that fails is only logged; it leaves the file, or one that loads as none.
Saved == IF data # NoEntries THEN {data, file, NoEntries} ELSE {file}
SaveAfterAll ==                               \* mutant: only when every goroutine has ended
  /\ phase = "stop" /\ holder = Free /\ AllEnded
  /\ file' \in Saved /\ Ended
SaveESXIDataOnExit ==
  /\ phase = "stop" /\ holder = Free
  /\ file' \in Saved /\ Ended

\* The process ends otherwise, or by a signal before the service exists; in the middle
\* of saving it leaves a file that cannot be parsed, which loads as none.
Kill ==
  /\ phase # "down" /\ exits < MaxExits
  /\ file' \in {file} \cup (IF phase = "stop" /\ holder = Free THEN {NoEntries} ELSE {})
  /\ Ended

Start ==
  /\ phase = "down"
  /\ phase' = "wait" /\ env' = dotenv
  /\ UNCHANGED <<dotenv, hostVars, taskVars, dataVars, file, boundVars>>

---------------------------------------------------------------------------
(* Environment *)

\* Connected sessions end with a reboot or a long outage.
GoDown(h) ==
  /\ h \in up /\ up' = up \ {h}
  /\ session' \in {session, session \ {h}}
  /\ UNCHANGED <<dotenv, whole, version, stalled>>

ComeUp(h) ==
  /\ h \notin up /\ up' = up \cup {h}
  /\ UNCHANGED <<dotenv, session, whole, version, stalled>>

Change(h) ==
  /\ \E f \in {"key", "rest"} : version' = [version EXCEPT ![h][f] = @ + 1]
  /\ UNCHANGED <<dotenv, up, session, whole, stalled>>

\* The last VM or datastore goes, or its details cannot be retrieved, and the reverse.
PartsChange(h) ==
  /\ whole' = IF h \in whole THEN whole \ {h} ELSE whole \cup {h}
  /\ UNCHANGED <<dotenv, up, session, version, stalled>>

Edit == dotenv' \in Settings \ {dotenv} /\ UNCHANGED <<hostVars, stalled>>

Stall == phase \in {"run", "stop"} /\ ~stalled /\ stalled' = TRUE /\ UNCHANGED <<dotenv, hostVars>>

ReadOn ==
  /\ stalled /\ stalled' = FALSE
  /\ UNCHANGED <<ctlVars, hostVars, taskVars, dataVars, file, changes, exits>>

Environment ==
  /\ changes < MaxChanges /\ changes' = changes + 1
  /\ Edit \/ Stall \/ \E h \in Hosts : GoDown(h) \/ ComeUp(h) \/ Change(h) \/ PartsChange(h)
  /\ UNCHANGED <<phase, env, taskVars, dataVars, file, exits>>

---------------------------------------------------------------------------

Init ==
  /\ phase = "wait" /\ dotenv \in Settings /\ env = dotenv
  /\ up \in SUBSET Hosts /\ session = {} /\ whole \in SUBSET Hosts
  /\ version = [h \in Hosts |-> [key |-> 1, rest |-> 1]]
  /\ task = [h \in Hosts |-> "new"] /\ found = [h \in Hosts |-> Nothing]
  /\ holder = Free /\ stalled = FALSE
  /\ data = NoEntries /\ dash = NoEntries
  /\ file = NoEntries
  /\ changes = 0 /\ exits = 0

Config  == WaitForValidConfig \/ Start
Task(h) == Dial(h) \/ Poll(h) \/ Cancelled(h) \/ SetHostStatusOffline(h) \/ TakeMutex(h)

Next ==
  \/ Config \/ ConfigReload \/ StartAll \/ Update \/ Broadcast
  \/ \E h \in Hosts : Task(h)
  \/ Stop \/ SaveESXIDataOnExit \/ Kill
  \/ Environment \/ ReadOn

Spec == Init /\ [][Next]_vars

\* Goroutines run and tickers tick, and who waits for the mutex gets it.  Nothing makes
\* a dashboard read.
Fairness ==
  /\ WF_vars(Config \/ StartAll) /\ WF_vars(Update \/ Broadcast)
  /\ \A h \in Hosts : /\ WF_vars(Dial(h) \/ Poll(h))
                       /\ SF_vars(SetHostStatusOffline(h) \/ TakeMutex(h))
  /\ SF_vars(SaveESXIDataOnExit)

FairSpec == Spec /\ Fairness

---------------------------------------------------------------------------
(* Properties *)

\* Type correctness; the goroutine that holds the mutex is where its step says, also
\* when it is cancelled meanwhile.
HolderStates ==
  {Free} \cup [step : {"offline"}, host : Hosts]
         \cup [step : {"online", "update", "compare"}, host : Hosts, prev : Entries]
EsxiTypeOK ==
  /\ phase \in {"down", "wait", "run", "stop"} /\ dotenv \in Settings /\ env \in Settings
  /\ up \in SUBSET Hosts /\ session \in SUBSET Hosts /\ whole \in SUBSET Hosts
  /\ version \in [Hosts -> Reports]
  /\ task \in [Hosts -> {"new", "dial", "watch", "found", "failed", "ended"}]
  /\ found \in [Hosts -> Reports]
  /\ holder \in HolderStates
  /\ holder # Free => task[holder.host] = IF holder.step = "offline" THEN "failed" ELSE "found"
  /\ data \in [Hosts -> Entries] /\ dash \in [Hosts -> Entries] /\ file \in [Hosts -> Entries]
  /\ stalled \in BOOLEAN /\ changes \in 0..MaxChanges /\ exits \in 0..MaxExits

\* Broadcasting differences is enough: whenever nobody holds the mutex, the dashboard
\* shows the status and the key fields that are stored, and of the rest what is stored or,
\* as long as that was never sent, nothing, but no older value; whatever goroutines of
\* several hosts, failing and successful polls and entries without values came in between.
Agreed(shown, stored) ==
  /\ shown.status = stored.status /\ shown.key = stored.key
  /\ shown.rest \in {stored.rest, 0}
DashboardAgrees == holder = Free => \A h \in Hosts : Agreed(dash[h], data[h])

Watched(h) == task[h] \in {"watch", "found", "failed"}

ShowsIt(h) ==
  /\ h \in up \cap session \cap whole => Agreed(dash[h], Entry("online", version[h]))
  /\ h \notin up \cap session => dash[h].status = "offline"

\* "Live connection status with automatic offline/online detection", for a host whose
\* goroutine has connected: once the hosts keep still, the dashboard ends up showing it
\* offline when it is away or its session is gone, and else online with what it reports,
\* if it has VMs and datastores and all is retrieved (of another one the code says
\* nothing); unless the dashboard stalls for good.
StatusIsTold ==
  <>[][FALSE]_hostVars =>
    \A h \in Hosts : <>[](phase = "run" /\ ~stalled /\ Watched(h)) => <>[]ShowsIt(h)


\* A signal ends the process, unless a dashboard that does not read keeps the mutex.
EsxiStops == <>[]~stalled => (phase = "stop" ~> phase # "stop")
=============================================================================
