--------------------------- MODULE MikrotikMulti ---------------------------
(***************************************************************************)
(* The monitor of the MikroTik routers, monitor/mikrotik_multi_service.go, *)
(* and how main starts and ends it.  One goroutine per connected device    *)
(* polls its NAT rules and saves those of ALL devices when its own change; *)
(* ms.mu, a readers-writer lock, guards the map of devices.  Sections      *)
(* under it or under a device's lock that cannot block are single steps.   *)
(* The file has no lock: os.WriteFile truncates it and then writes, and    *)
(* two savers may do so at once.                                           *)
(***************************************************************************)
EXTENDS FiniteSets, Naturals

CONSTANTS Devices, Rules, None

ASSUME MtConstants == None \notin Devices

VARIABLES
  reach,   \* the router can be reached
  rules,   \* its NAT rules (ids; a rule edited in place is no change to the code either)
  boot,    \* main's loop: "env", "retry" (waiting), "connecting", "ready" (for Start), "started"
  todo,    \* devices ConnectAll has yet to dial
  writer,  \* who holds ms.mu for writing: None, "ConnectAll" or "Close"
  client,  \* per device "none" (not in ms.monitors), "up" or "broken"
  loop,    \* its goroutine: "off", "idle", "fetched", "collect", "read", "write", "done"
  got,     \* what it fetched
  current, \* currentNATs
  snap,    \* what its saveCache has collected so far
  left,    \* the devices its saveCache has yet to read
  file,    \* the cache file: empty, torn, or what a saver wrote and which (history)
  missed,  \* history: the last save that was due for the device failed
  main,    \* "run", "stopping" (cancelled) or "exited"
  close    \* Close: "off", "lock" (called), "save" (holds ms.mu, in saveCache)

routerVars == <<reach, rules>>
bootVars == <<boot, todo>>
loopVars == <<loop, got, current, snap, left>>
endVars == <<main, close>>
fileVars == <<file, missed>>
vars == <<routerVars, bootVars, writer, client, loopVars, fileVars, endVars>>

NoRules == [d \in Devices |-> {}]
Monitors == {d \in Devices : client[d] # "none"}
Cancelled == main # "run"

Empty == [kind |-> "empty"]    \* absent or truncated
Torn  == [kind |-> "torn"]     \* not to be parsed
Written(d, rs) == [kind |-> "ok", by |-> d, rules |-> rs]

MtInit ==
  /\ reach \in [Devices -> BOOLEAN] /\ rules = NoRules
  /\ boot = "env" /\ todo = {} /\ writer = None
  /\ client = [d \in Devices |-> "none"] /\ loop = [d \in Devices |-> "off"]
  /\ got = NoRules /\ current = NoRules
  /\ snap = [d \in Devices |-> NoRules] /\ left = NoRules
  /\ file = Empty /\ missed = [d \in Devices |-> FALSE]
  /\ main = "run" /\ close = "off"

CanLock == writer = None     \* both for reading and for writing: readers are single steps

---------------------------------------------------------------------------
(* The routers *)

Edit(d) ==
  /\ main # "exited"
  /\ \E rs \in SUBSET Rules : rs # rules[d] /\ rules' = [rules EXCEPT ![d] = rs]
  /\ UNCHANGED <<reach, bootVars, writer, client, loopVars, fileVars, endVars>>

\* What loses a router breaks the connection to it for good.
Reachable(d, r) ==
  /\ main # "exited" /\ reach[d] # r
  /\ reach' = [reach EXCEPT ![d] = r]
  /\ client' = [client EXCEPT ![d] = IF @ = "up" THEN "broken" ELSE @]
  /\ UNCHANGED <<rules, bootVars, writer, loopVars, fileVars, endVars>>

---------------------------------------------------------------------------
(* Starting *)

\* An attempt of main's loop; ConnectAll holds ms.mu while it dials.  (An attempt that
\* begins after Close was called is left out: it lives for two seconds.)
Attempt ==
  /\ boot \in {"env", "retry"} /\ close = "off" /\ main # "exited"
  /\ boot' = "connecting" /\ todo' = Devices /\ writer' = "ConnectAll"
  /\ UNCHANGED <<routerVars, client, loopVars, fileVars, endVars>>

Connect(d) ==
  /\ boot = "connecting" /\ d \in todo /\ main # "exited"
  /\ todo' = todo \ {d}
  /\ client' = [client EXCEPT ![d] = IF reach[d] THEN "up" ELSE @]
  /\ UNCHANGED <<routerVars, boot, writer, loopVars, fileVars, endVars>>

\* One device is enough.
AfterAttempt == IF Monitors = {} THEN "retry" ELSE "ready"

Connected ==
  /\ boot = "connecting" /\ todo = {} /\ main # "exited"
  /\ boot' = AfterAttempt
  /\ writer' = None
  /\ UNCHANGED <<routerVars, todo, client, loopVars, fileVars, endVars>>

FirstMonitor == {CHOOSE d \in Monitors : TRUE}  \* mutant: one goroutine for all
Watched == Monitors

Start ==
  /\ boot = "ready" /\ CanLock /\ main # "exited"
  /\ boot' = "started"
  /\ loop' = [d \in Devices |-> IF d \in Watched THEN "idle" ELSE "off"]
  /\ UNCHANGED <<routerVars, todo, writer, client, got, current, snap, left, fileVars, endVars>>

---------------------------------------------------------------------------
(* Polling: monitorDevice and monitorNATChanges *)

\* A broken connection is an error for every poll from then on.  select may take the
\* ticker also when the context is cancelled.
Fetch(d) ==
  /\ loop[d] = "idle" /\ main # "exited"
  /\ client[d] = "up"
  /\ got' = [got EXCEPT ![d] = rules[d]]
  /\ loop' = [loop EXCEPT ![d] = "fetched"]
  /\ UNCHANGED <<routerVars, bootVars, writer, client, current, snap, left, fileVars, endVars>>

\* The save of the rules is due when rules were added or removed.
Removed(d) == current[d] \ got[d] # {}  \* mutant: added rules do not count
Changed(d) == got[d] # current[d]

Update(d) ==
  /\ loop[d] = "fetched" /\ main # "exited"
  /\ current' = [current EXCEPT ![d] = got[d]]
  /\ got' = [got EXCEPT ![d] = {}]
  /\ loop' = [loop EXCEPT ![d] = IF Changed(d) THEN "collect" ELSE "idle"]
  /\ UNCHANGED <<routerVars, bootVars, writer, client, snap, left, fileVars, endVars>>

\* saveCache: the ids under RLock, then every device's rules under locks of their own ...
SaveCollect(d) ==
  /\ loop[d] = "collect" /\ CanLock /\ main # "exited"
  /\ left' = [left EXCEPT ![d] = Monitors]
  /\ snap' = [snap EXCEPT ![d] = NoRules]
  /\ loop' = [loop EXCEPT ![d] = "read"]
  /\ UNCHANGED <<routerVars, bootVars, writer, client, got, current, fileVars, endVars>>

SaveRead(d, e) ==
  /\ loop[d] = "read" /\ e \in left[d] /\ CanLock /\ main # "exited"
  /\ left' = [left EXCEPT ![d] = @ \ {e}]
  /\ snap' = [snap EXCEPT ![d][e] = current[e]]
  /\ UNCHANGED <<routerVars, bootVars, writer, client, loop, got, current, fileVars, endVars>>

\* ... and SaveMulti, unless there are no rules at all.
NothingToSave(d) == snap[d] = NoRules

SaveSkip(d) ==
  /\ loop[d] = "read" /\ left[d] = {} /\ NothingToSave(d) /\ main # "exited"
  /\ loop' = [loop EXCEPT ![d] = "idle"]
  /\ UNCHANGED <<routerVars, bootVars, writer, client, got, current, snap, left, fileVars, endVars>>

\* os.WriteFile: truncate ...
SaveOpen(d) ==
  /\ loop[d] = "read" /\ left[d] = {} /\ ~NothingToSave(d) /\ main # "exited"
  /\ file' = Empty
  /\ loop' = [loop EXCEPT ![d] = "write"]
  /\ UNCHANGED <<routerVars, bootVars, writer, client, got, current, snap, left, missed, endVars>>

\* ... and write from offset 0; the tail of something longer that another saver wrote since
\* stays (the length depends on the time of the save, too).
Overwritten(d) == {Written(d, snap[d])} \cup (IF file = Empty THEN {} ELSE {Torn})

SaveWrite(d) ==
  /\ loop[d] = "write" /\ main # "exited"
  /\ file' \in Overwritten(d)
  /\ missed' = [missed EXCEPT ![d] = FALSE]
  /\ loop' = [loop EXCEPT ![d] = "idle"] /\ snap' = [snap EXCEPT ![d] = NoRules]
  /\ UNCHANGED <<routerVars, bootVars, writer, client, got, current, left, endVars>>

\* Marshalling, opening, writing or closing fails: it is logged, and nobody tries again.
SaveFail(d) ==
  /\ \/ loop[d] = "read" /\ left[d] = {} /\ ~NothingToSave(d) /\ UNCHANGED file
     \/ loop[d] = "write" /\ file' \in Overwritten(d) \cup {file, Torn}
  /\ main # "exited"
  /\ missed' = [missed EXCEPT ![d] = TRUE]
  /\ loop' = [loop EXCEPT ![d] = "idle"] /\ snap' = [snap EXCEPT ![d] = NoRules]
  /\ UNCHANGED <<routerVars, bootVars, writer, client, got, current, left, endVars>>

LoopEnd(d) ==
  /\ loop[d] = "idle" /\ Cancelled /\ main # "exited"
  /\ loop' = [loop EXCEPT ![d] = "done"]
  /\ UNCHANGED <<routerVars, bootVars, writer, client, got, current, snap, left, fileVars, endVars>>

---------------------------------------------------------------------------
(* The end *)

\* After the signal main saves what the other monitors have, which may take any time
\* (SaveESXIDataOnExit waits for dataMutex); then it cancels the context and calls Close
\* in a goroutine, if there is a service.
Shutdown ==
  /\ main = "run"
  /\ main' = "stopping"
  /\ close' = IF boot = "env" THEN "off" ELSE "lock"
  /\ UNCHANGED <<routerVars, bootVars, writer, client, loopVars, fileVars>>

\* Close takes ms.mu and goes on to saveCache, whose RLock waits for the writer: Close
\* itself.  Nothing of it follows.
CloseLock ==
  /\ close = "lock" /\ CanLock /\ main # "exited"
  /\ writer' = "Close"
  /\ close' = "save"
  /\ UNCHANGED <<routerVars, bootVars, client, loopVars, fileVars, main>>

\* main waits for Close, for two seconds at most; and it can be killed at any time.  All
\* goroutines end with it.
ExitMain ==
  /\ main # "exited"
  /\ main' = "exited" /\ close' = "off"
  /\ todo' = {} /\ writer' = None
  /\ client' = [d \in Devices |-> "none"] /\ loop' = [d \in Devices |-> "off"]
  /\ got' = NoRules /\ current' = NoRules
  /\ snap' = [d \in Devices |-> NoRules] /\ left' = NoRules
  /\ UNCHANGED <<routerVars, boot, fileVars>>

LoopStep(d) ==
  \/ Fetch(d) \/ Update(d) \/ SaveCollect(d) \/ (\E e \in Devices : SaveRead(d, e))
  \/ SaveSkip(d) \/ SaveOpen(d) \/ SaveWrite(d)

MtNext ==
  \/ \E d \in Devices :
       \/ Edit(d) \/ (\E r \in BOOLEAN : Reachable(d, r))
       \/ Connect(d)
       \/ LoopStep(d) \/ SaveFail(d) \/ LoopEnd(d)
  \/ Attempt \/ Connected \/ Start
  \/ Shutdown \/ CloseLock \/ ExitMain

MtSpec == MtInit /\ [][MtNext]_vars

\* The pollers' goroutines and main's loop go on, and a router that is connected answers;
\* changes, breaking connections, failing saves and signals come as they like, and
\* nothing is assumed of how the process ends.
MtFair ==
  /\ WF_vars(Connected \/ Start)
  /\ \A d \in Devices : WF_vars(Connect(d)) /\ WF_vars(LoopStep(d))

MtFairSpec == MtSpec /\ MtFair

---------------------------------------------------------------------------
(* Properties *)

RuleSets == [Devices -> SUBSET Rules]
Files == {Empty, Torn} \cup [kind : {"ok"}, by : Devices, rules : RuleSets]

\* Type correctness.
MtTypeOK ==
  /\ reach \in [Devices -> BOOLEAN] /\ rules \in RuleSets
  /\ boot \in {"env", "retry", "connecting", "ready", "started"} /\ todo \subseteq Devices
  /\ writer \in {None, "ConnectAll", "Close"}
  /\ client \in [Devices -> {"none", "up", "broken"}]
  /\ loop \in [Devices -> {"off", "idle", "fetched", "collect", "read", "write", "done"}]
  /\ {got, current} \subseteq RuleSets /\ file \in Files
  /\ snap \in [Devices -> RuleSets] /\ left \in [Devices -> SUBSET Devices]
  /\ main \in {"run", "stopping", "exited"} /\ close \in {"off", "lock", "save"}
  /\ missed \in [Devices -> BOOLEAN]

\* However saves overlap and fail, a file that can be read is right for the device whose
\* save wrote it, unless a later save of that device failed; only the removal of the very
\* last rule is not saved (line 205).
LastSaveIsRight ==
  \A d \in Devices :
    file.kind = "ok" /\ file.by = d /\ loop[d] \in {"idle", "fetched", "done"} /\ ~missed[d] =>
      file.rules[d] = current[d] \/ current[d] = {}

\* The rules of a router whose connection lasts are seen, whatever the others' saves do.
RulesAreSeen ==
  \A d \in Devices : \A rs \in SUBSET Rules :
    <>[](rules[d] = rs /\ client[d] = "up" /\ main = "run") => <>[](current[d] = rs)
=============================================================================
