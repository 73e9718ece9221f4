----------------------------- MODULE ServicesMap -----------------------------
(***************************************************************************)
(* The map of ServicesView with .cache/server_services.json, the file that *)
(* all its writers write and main loads.  The detector writes it under the *)
(* mutex of the map; the scanner and the handlers of the nodes store under *)
(* the mutex, marshal without it and leave the file to a goroutine.        *)
(***************************************************************************)
EXTENDS ServicesView, CacheFile

VARIABLES
  writer,    \* per lister and node: how far it is with the file after storing
  svcSaver,  \* the goroutine that writes the file, for "scan" and for each node
  svcFile    \* server_services.json

mapFile == <<writer, svcSaver, svcFile>>
mapAll  == <<svcAll, mapFile>>

Owners  == Listers \cup Nodes
SaverOf == {"scan"} \cup Nodes

MutexFree == writer["detect"] = Idle

\* json.Marshal walks the map without the mutex: of an entry that changes meanwhile it
\* finds the old or the new one.
Marshalled(before) ==
  {[k \in Keys |-> IF k \in late THEN services[k] ELSE before[k]] : late \in SUBSET Keys}

---------------------------------------------------------------------------

MapList(l) ==
  /\ List(l) /\ writer[l] = Idle
  /\ UNCHANGED mapFile

\* UpdateListServices: store, marshal and leave the file to a goroutine.
MapScanStore ==
  /\ ScanStore /\ MutexFree
  /\ writer' = [writer EXCEPT !["scan"] = [pc |-> "stored", before |-> services']]
  /\ UNCHANGED <<svcSaver, svcFile>>

\* The message "server_services:" of a node does the same.
MapNodeStore(n, v) ==
  /\ NodeStore(n, v) /\ writer[n] = Idle /\ MutexFree
  /\ writer' = [writer EXCEPT ![n] = [pc |-> "stored", before |-> services']]
  /\ UNCHANGED <<svcSaver, svcFile>>

Marshal(o) ==
  /\ writer[o].pc = "stored" /\ svcSaver[o] = Idle
  /\ \E f \in Marshalled(writer[o].before) :
        svcSaver' = [svcSaver EXCEPT ![o] = [pc |-> "ready", data |-> f]]
  /\ writer' = [writer EXCEPT ![o] = Idle]
  /\ UNCHANGED <<svcAll, svcFile>>

SvcOpen(o) ==
  /\ svcSaver[o].pc = "ready"
  /\ svcSaver' = [svcSaver EXCEPT ![o].pc = "open"]
  /\ svcFile' = Empty
  /\ UNCHANGED <<svcAll, writer>>

SvcWrite(o) ==
  /\ svcSaver[o].pc = "open"
  /\ svcFile' \in Overwritten(svcFile, svcSaver[o].data)
  /\ svcSaver' = [svcSaver EXCEPT ![o] = Idle]
  /\ UNCHANGED <<svcAll, writer>>

\* SaveServicesToCache: store, marshal and write under the mutex.  When the directory or
\* the file cannot be opened the map keeps what was stored.
MapDetectStore ==
  /\ DetectStore
  /\ \/ /\ writer' = [writer EXCEPT !["detect"] = [pc |-> "locked", data |-> services']]
        /\ svcFile' = Empty
     \/ UNCHANGED <<writer, svcFile>>
  /\ UNCHANGED svcSaver

DetectWrite ==
  /\ writer["detect"].pc = "locked"
  /\ svcFile' \in Overwritten(svcFile, writer["detect"].data)
  /\ writer' = [writer EXCEPT !["detect"] = Idle]
  /\ UNCHANGED <<svcAll, svcSaver>>

\* The map after loading: a file that is missing or cannot be parsed is skipped.
Loaded == IF svcFile.kind = "whole" THEN svcFile.of ELSE services

MapLoad == LoadServerServices(Loaded) /\ UNCHANGED mapFile

MapExit ==
  /\ ServicesExit
  /\ writer' = [o \in Owners |-> Idle]
  /\ svcSaver' = [o \in SaverOf |-> Idle]
  /\ UNCHANGED svcFile

---------------------------------------------------------------------------

MapInit ==
  /\ ServicesInit
  /\ writer = [o \in Owners |-> Idle]
  /\ svcSaver = [o \in SaverOf |-> Idle]
  /\ svcFile = Absent

ScanStep   == MapList("scan") \/ MapScanStore \/ Marshal("scan")
DetectStep == MapList("detect") \/ MapDetectStore \/ DetectWrite
SvcSave(o) == SvcOpen(o) \/ SvcWrite(o)

MapNext ==
  \/ ScanStep \/ DetectStep \/ MapLoad \/ MapExit
  \/ \E n \in Nodes : Marshal(n) \/ \E v \in Versions : MapNodeStore(n, v)
  \/ \E o \in SaverOf : SvcSave(o)
  \/ /\ \/ \E n \in Nodes : NodeSend(n)
        \/ ServicesStart
        \/ \E h \in Hosts : Change(h)
     /\ UNCHANGED mapFile

MapSpec == MapInit /\ [][MapNext]_mapAll

\* Goroutines run, tickers tick, the commands that list services answer, and nodes stay
\* connected.  Who waits for the mutex gets it (a sync.Mutex is handed to who waits
\* longest).  Nothing is assumed of a start after an exit.
MapFairness ==
  /\ WF_mapAll(ScanStep) /\ SF_mapAll(MapScanStore) /\ WF_mapAll(DetectStep)
  /\ WF_mapAll(MapLoad)
  /\ \A n \in Nodes : /\ WF_svcAll(NodeSend(n))
                      /\ SF_mapAll(\E v \in Versions : MapNodeStore(n, v))
                      /\ WF_mapAll(Marshal(n))
  /\ \A o \in SaverOf : WF_mapAll(SvcSave(o))

MapFairSpec == MapSpec /\ MapFairness
=============================================================================
