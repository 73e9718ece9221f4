------------------------------ MODULE NatCache ------------------------------
(***************************************************************************)
(* The NAT rule cache of the API, controller/api.mikrotik.go, next to the  *)
(* services map it reads: one goroutine joins the rules of every device    *)
(* with the services of the hosts they lead to and keeps the rows in       *)
(* NATRulesData and, through a temporary file, in                          *)
(* .cache/nat_rule_data.json.  It runs every 20 minutes and whenever a     *)
(* request has put a token into NatRuleUpdateChannelTrigger.               *)
(*                                                                         *)
(* The rules of a device are their version, 0 for none.                    *)
(***************************************************************************)
EXTENDS ServicesView, CacheFile

CONSTANTS
  Devices,      \* MikroTik devices
  Target,       \* the address the rules of a device lead to
  Savers,       \* bound: the goroutines that may be saving at once
  MaxRequests   \* bound: calls of HandleGetDeviceNATRules

ASSUME NatConstants ==
  /\ Target \in [Devices -> Keys]
  /\ MaxRequests \in Nat

VARIABLES
  multi,     \* MikrotikMultiService: "none", "free" or "held" (ConnectAll has its lock)
  monitors,  \* its monitors: the devices it has connected
  rules,     \* per device: the version of its rules
  known,     \* per device: the version its monitor fetched last, currentNATs
  data,      \* NATRulesData
  loop,      \* AsyncHandleGetDevices: "boot", "pass" or "select"
  got,       \* the rules GetAllNATRules answered this pass
  todo,      \* the devices the pass has still to join
  joined,    \* the rows of the device it is at
  token,     \* NatRuleUpdateChannelTrigger, a channel of capacity one
  senders,   \* goroutines of requests that wait to send
  requests,  \* requests so far (bounded by MaxRequests)
  saver,     \* the saving goroutines: progress, rows, and where their file is by now
  tmp,       \* nat_rule_data.json.tmp
  natFile,   \* nat_rule_data.json
  shared     \* history: "tmp" and "file" were written by goroutines that overlapped

mtVars    == <<multi, monitors, rules, known>>
loopVars  == <<loop, got, todo, joined>>
trigVars  == <<token, senders, requests>>
fileVars  == <<saver, tmp, natFile, shared>>
natVars   == <<mtVars, data, loopVars, trigVars, fileVars>>
vars == <<svcAll, natVars>>

NoRows == [rule |-> 0, svc |-> 0]
Rows == [rule : 0..MaxChanges + 1, svc : 0..MaxChanges + 1]
Tables == [Devices -> Rows]
NoData == [d \in Devices |-> NoRows]
NoJoin == [of |-> "nothing"]
NoRules == [d \in Devices |-> 0]

---------------------------------------------------------------------------
(* The goroutine *)

\* Fill the map from the file when that is well formed, then wait for the service.
Preload ==
  /\ proc # "down" /\ loop = "boot"
  /\ data' = IF natFile.kind = "whole"
             THEN [d \in Devices |-> IF natFile.of[d] # NoRows THEN natFile.of[d] ELSE data[d]]
             ELSE data
  /\ loop' = "wait"
  /\ UNCHANGED <<mtVars, got, todo, joined, trigVars, fileVars>>

\* Of a device that stopped answering these are the rules it had.
GetAllNATRules ==
  /\ loop = "wait" /\ multi = "free"
  /\ got' = known
  /\ todo' = monitors
  /\ loop' = "pass"
  /\ UNCHANGED <<mtVars, data, joined, trigVars, fileVars>>

\* Only tcp:address:port splits into the three parts the join asks for: what the detector
\* listed is "not found".
Matched(entry) == IF entry.by = "scan" THEN entry.ver ELSE 0

\* The rows of a device: rules with what the services map holds for the address they lead
\* to, read without its mutex, or without a service (0): none listed, none found, or the
\* outcome of a connection attempt.
Join(d) ==
  /\ loop = "pass" /\ joined = NoJoin /\ d \in todo
  /\ joined' = [of |-> d, rows |-> [rule |-> got[d], svc |-> Matched(services[Target[d]])]]
  /\ UNCHANGED <<mtVars, data, loop, got, todo, trigVars, fileVars>>

\* A device without rules keeps what it had.
WithRowsOnce(d, rows) == IF rows.rule = 0 \/ data[d] # NoRows THEN data
                         ELSE [data EXCEPT ![d] = rows]    \* mutant: cached rows are kept
WithRows(d, rows) == IF rows.rule = 0 THEN data ELSE [data EXCEPT ![d] = rows]

Put(d) ==
  /\ loop = "pass" /\ d \in todo /\ joined # NoJoin /\ joined.of = d
  /\ data' = WithRows(d, joined.rows)
  /\ todo' = todo \ {d}
  /\ joined' = NoJoin
  /\ UNCHANGED <<mtVars, loop, got, trigVars, fileVars>>

\* The end of a pass starts a goroutine that saves.
SaveWhenLoaded(s) == UNCHANGED saver             \* mutant: a pass does not save
GoSave(s) == saver' = [saver EXCEPT ![s] = [pc |-> "started"]]

EndPass ==
  LET free == {s \in Savers : saver[s] = Idle}
  IN /\ loop = "pass" /\ todo = {} /\ free # {}
     /\ GoSave(CHOOSE s \in free : TRUE)
     /\ loop' = "select" /\ got' = NoRules
     /\ UNCHANGED <<mtVars, data, todo, joined, trigVars, tmp, natFile, shared>>

\* select: the token of a request, at once, or 20 minutes, by when every save has ended.
TokenIgnored == UNCHANGED token                  \* mutant: the token stays in the channel
TokenTaken == token' = FALSE

NextByToken ==
  /\ loop = "select" /\ token
  /\ TokenTaken
  /\ loop' = "wait"
  /\ UNCHANGED <<mtVars, data, got, todo, joined, senders, requests, fileVars>>

NextByTimer ==
  /\ loop = "select" /\ ~token /\ \A s \in Savers : saver[s] = Idle
  /\ loop' = "wait"
  /\ UNCHANGED <<mtVars, data, got, todo, joined, trigVars, fileVars>>

---------------------------------------------------------------------------
(* Requests *)

\* HandleGetDeviceNATRules: it answers from the map without changing it, and leaves
\* behind a goroutine that sends.
HandleGetDeviceNATRules ==
  /\ proc = "up" /\ requests < MaxRequests
  /\ requests' = requests + 1
  /\ senders' = senders + 1
  /\ UNCHANGED <<mtVars, data, loopVars, token, fileVars>>

Send ==
  /\ senders > 0 /\ ~token
  /\ senders' = senders - 1
  /\ token' = TRUE
  /\ UNCHANGED <<mtVars, data, loopVars, requests, fileVars>>

---------------------------------------------------------------------------
(* Saving *)

Active(s) == saver[s] # Idle /\ saver[s].pc \in {"open", "written"}

\* Copy the map under its read lock, leave out devices without rows; with none left
\* there is nothing to save.
SnapshotOfAny(s) ==                              \* mutant: nothing is saved as well
  /\ saver[s].pc = "started"
  /\ saver' = [saver EXCEPT ![s] = [pc |-> "ready", rows |-> data, fd |-> "none"]]
  /\ UNCHANGED <<mtVars, data, loopVars, trigVars, tmp, natFile, shared>>
Snapshot(s) ==
  /\ saver[s].pc = "started"
  /\ saver' = [saver EXCEPT ![s] = IF data = NoData THEN Idle
                                   ELSE [pc |-> "ready", rows |-> data, fd |-> "none"]]
  /\ UNCHANGED <<mtVars, data, loopVars, trigVars, tmp, natFile, shared>>

\* Where WriteFile writes.
InPlace == "file"                                \* mutant: the cache file itself
WritesTo == "tmp"

\* os.WriteFile creates or truncates the temporary file ...
Open(s) ==
  /\ saver[s].pc = "ready"
  /\ saver' = [saver EXCEPT ![s].pc = "open", ![s].fd = WritesTo]
  /\ IF WritesTo = "tmp" THEN tmp' = Empty /\ UNCHANGED natFile
                         ELSE natFile' = Empty /\ UNCHANGED tmp
  /\ shared' = [shared EXCEPT !["tmp"] = \E x \in Savers \ {s} : Active(x)]
  /\ UNCHANGED <<mtVars, data, loopVars, trigVars>>

\* ... and writes it, wherever a rename has moved it meanwhile.
Write(s) ==
  /\ saver[s].pc = "open"
  /\ saver' = [saver EXCEPT ![s].pc = "written"]
  /\ IF saver[s].fd = "tmp" THEN tmp' \in Overwritten(tmp, saver[s].rows) ELSE UNCHANGED tmp
  /\ IF saver[s].fd = "file" THEN natFile' \in Overwritten(natFile, saver[s].rows)
                             ELSE UNCHANGED natFile
  /\ UNCHANGED <<mtVars, data, loopVars, trigVars, shared>>

\* os.Rename moves whatever the temporary file is by now; when another goroutine has
\* moved it already the error is logged.
Moved(s) == IF saver[s] = Idle \/ saver[s].pc # "open" THEN saver[s]
            ELSE [saver[s] EXCEPT !.fd = CASE @ = "tmp"  -> "file"
                                           [] @ = "file" -> "gone"
                                           [] OTHER      -> @]
Rename(s) ==
  /\ saver[s].pc = "written"
  /\ saver' = [x \in Savers |-> IF x = s THEN Idle ELSE IF tmp # Absent THEN Moved(x) ELSE saver[x]]
  /\ tmp' = Absent
  /\ natFile' = IF tmp # Absent THEN tmp ELSE natFile
  /\ shared' = IF tmp # Absent THEN [shared EXCEPT !["tmp"] = FALSE, !["file"] = shared["tmp"]]
                               ELSE shared
  /\ UNCHANGED <<mtVars, data, loopVars, trigVars>>

\* MkdirAll, WriteFile or Rename fail: the goroutine ends, the files stay as they are.
SaveFails(s) ==
  /\ saver[s].pc \in {"ready", "open", "written"}
  /\ changes < MaxChanges
  /\ saver' = [saver EXCEPT ![s] = Idle]
  /\ UNCHANGED <<mtVars, data, loopVars, trigVars, tmp, natFile, shared>>

---------------------------------------------------------------------------
(* The MikroTik service, and the process *)

\* main has parsed the configuration; without the setting it goes on asking for it.
ServiceMade ==
  /\ proc # "down" /\ multi = "none"
  /\ multi' = "free"
  /\ UNCHANGED <<monitors, rules, known, data, loopVars, trigVars, fileVars>>

\* ConnectAll has the lock while it dials; when it connects no device main makes another
\* service and tries again, when it connects some the others are left out for good.
ConnectAll ==
  /\ multi = "free" /\ monitors = {}
  /\ multi' = "held"
  /\ UNCHANGED <<monitors, rules, known, data, loopVars, trigVars, fileVars>>

Connected ==
  /\ multi = "held"
  /\ multi' = "free"
  /\ monitors' \in SUBSET Devices
  /\ UNCHANGED <<rules, known, data, loopVars, trigVars, fileVars>>

\* A monitor fetches the rules of its device.
Poll(d) ==
  /\ multi = "free" /\ d \in monitors /\ known[d] # rules[d]
  /\ known' = [known EXCEPT ![d] = rules[d]]
  /\ UNCHANGED <<multi, monitors, rules, data, loopVars, trigVars, fileVars>>

\* The rules of a device change, or the last one is removed.
RulesChange(d) ==
  /\ changes < MaxChanges
  /\ rules' \in {[rules EXCEPT ![d] = v] : v \in {0, changes + 1}}
  /\ UNCHANGED <<multi, monitors, known, data, loopVars, trigVars, fileVars>>

NatInit ==
  /\ multi = "none" /\ monitors = {}
  /\ rules = NoRules /\ known = NoRules
  /\ data = NoData
  /\ loop = "boot" /\ got = NoRules /\ todo = {} /\ joined = NoJoin
  /\ token = FALSE /\ senders = 0 /\ requests = 0
  /\ saver = [s \in Savers |-> Idle]
  /\ tmp = Absent /\ natFile = Absent
  /\ shared = [f \in {"tmp", "file"} |-> FALSE]

\* Memory is gone with the process, files stay.
NatExit ==
  /\ multi' = "none" /\ monitors' = {} /\ known' = NoRules
  /\ data' = NoData
  /\ loop' = "boot" /\ got' = NoRules /\ todo' = {} /\ joined' = NoJoin
  /\ token' = FALSE /\ senders' = 0
  /\ saver' = [s \in Savers |-> Idle]
  /\ UNCHANGED <<rules, requests, tmp, natFile, shared>>

LoopStep == \/ Preload \/ GetAllNATRules \/ EndPass \/ NextByToken \/ NextByTimer
            \/ \E d \in Devices : Join(d) \/ Put(d)
SaverStep(s) == Snapshot(s) \/ Open(s) \/ Write(s) \/ Rename(s)

NatStep ==
  \/ LoopStep \/ HandleGetDeviceNATRules \/ Send
  \/ ServiceMade \/ ConnectAll \/ Connected
  \/ \E d \in Devices : Poll(d)
  \/ \E s \in Savers : SaverStep(s)

---------------------------------------------------------------------------

Init == ServicesInit /\ NatInit

Next ==
  \/ ServicesStep /\ UNCHANGED natVars
  \/ NatStep /\ UNCHANGED svcAll
  \/ ServicesExit /\ NatExit
  \/ ServicesStart /\ UNCHANGED natVars
  \/ /\ \/ \E d \in Devices : RulesChange(d)
        \/ \E s \in Savers : SaveFails(s)
     /\ changes' = changes + 1
     /\ UNCHANGED <<proc, actual, svcVars, at, exits>>

Spec == Init /\ [][Next]_vars

\* As for the services, and the goroutines of the cache run.  Nothing is assumed of the
\* MIKROTIK setting, of devices that connect, or of those that answer; a pass that waits
\* for the lock of ConnectAll gets it when that has ended (sync.RWMutex lets waiting
\* readers in).
Fairness ==
  /\ ServicesFairness
  /\ SF_natVars(LoopStep) /\ WF_natVars(Send)
  /\ \A s \in Savers : WF_natVars(SaverStep(s))

FairSpec == Spec /\ Fairness

---------------------------------------------------------------------------
(* Properties *)

\* Type correctness of the rule cache; a file never holds an empty table.
Saved == Tables \ {NoData}
Fetched == [Devices -> 0..MaxChanges + 1]
NatTypeOK ==
  /\ ServicesTypeOK
  /\ multi \in {"none", "free", "held"} /\ monitors \in SUBSET Devices
  /\ rules \in Fetched /\ known \in Fetched /\ got \in Fetched
  /\ data \in Tables
  /\ loop \in {"boot", "wait", "pass", "select"}
  /\ todo \in SUBSET Devices
  /\ joined \in {NoJoin} \cup [of : Devices, rows : Rows]
  /\ token \in BOOLEAN /\ senders \in Nat /\ requests \in Nat
  /\ saver \in [Savers -> {Idle} \cup [pc : {"started"}]
                   \cup [pc : {"ready", "open", "written"}, rows : Saved,
                         fd : {"none", "tmp", "file", "gone"}]]
  /\ tmp \in {Absent, Empty, Torn} \cup [kind : {"whole"}, of : Saved]
  /\ natFile \in {Absent, Empty, Torn} \cup [kind : {"whole"}, of : Saved]
  /\ shared \in [{"tmp", "file"} -> BOOLEAN]

\* "write to a temp file then atomically rename": no exit and no failing save can leave
\* a truncated or mixed cache file; only two goroutines that save at once can, because
\* they share the temporary file and one renames what the other is still writing.
OnlyOverlapTears == natFile.kind \in {"empty", "torn"} => shared["file"]

\* What the join can find at an address once nothing changes: the scanner's list, nothing
\* in the detector's, one or the other where they share the entry.
Findable(k) == IF k \in OtherKeys THEN {0}
               ELSE {actual[k]} \cup (IF k = at THEN {0} ELSE {})

\* What the service knows and what runs on the hosts reaches the cache: once nothing
\* changes, every device whose monitor has fetched rules is listed with these and with
\* what can be found at the address they lead to, whatever was loaded from the two files
\* and in whatever order listings, polls and passes ran.
RowsFollow ==
  \A d \in Devices :
     <>[](\/ known[d] = 0
          \/ data[d].rule = known[d] /\ data[d].svc \in Findable(Target[d]))

\* ... and the file comes to hold exactly what the map holds, for a later start to preload
\* it, again and again while scanner and detector take turns at the address of a rule,
\* and for good when they do not; unless the service that passes wait for never answers.
InFile == data = NoData \/ natFile = Whole(data) \/ multi # "free"
NatFileFollows == []<>InFile /\ <>[](InFile \/ \E d \in Devices : Target[d] = at)

\* Once the service can be asked the goroutines that requests leave behind waiting for
\* the channel get through, when no more requests come.  As long as it cannot, without
\* the MIKROTIK setting for ever, they pile up: nobody reads the channel.
SendersDrain == <>[](multi = "free") => []<>(senders = 0)
=============================================================================
