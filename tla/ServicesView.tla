---------------------------- MODULE ServicesView ----------------------------
(***************************************************************************)
(* The map of detected services, model.ServerServices, of the master, as   *)
(* its readers see it.  Three kinds of writers: the scanner                *)
(* (serviceScanner/scanner.go) and the detector                            *)
(* (monitor/service_detector.go) for the host itself, and the handlers of  *)
(* the node connections (ws/ws_node.go).  main loads what an earlier run   *)
(* has saved when the scanner is already running: here any listing that    *)
(* has been true once; ServicesMap adds the file.                          *)
(*                                                                         *)
(* The keys are addresses.  The scanner takes the first one of hostname    *)
(* -I, the detector the one that a UDP dial at the start uses (127.0.0.1   *)
(* without a network): the two may share an entry or have one each.  They  *)
(* write a service differently, tcp:0.0.0.0:80 and LISTEN or 0.0.0.0:80    *)
(* and running, so that an entry is a version, how often the services of   *)
(* the host had changed when they were listed, and who listed it.          *)
(***************************************************************************)
EXTENDS Naturals

CONSTANTS
  Self,        \* the host the process runs on, by the scanner's address of it
  OtherKeys,   \* other addresses of that host, which the detector may use
  Nodes,       \* the hosts of the connected nodes
  MaxChanges,  \* bound: changes of what runs on the hosts, of NAT rules and devices
  MaxExits     \* bound: exits of the process

Hosts   == {Self} \cup Nodes
Keys    == Hosts \cup OtherKeys
Listers == {"scan", "detect"}

HostOf(k) == IF k \in OtherKeys THEN Self ELSE k

ASSUME ServicesConstants ==
  /\ Self \notin Nodes /\ OtherKeys \cap Hosts = {}
  /\ MaxChanges \in Nat /\ MaxExits \in Nat

VARIABLES
  proc,      \* "down", "scan" (main has not loaded the file yet) or "up"
  actual,    \* per host: the version of the services that run there
  services,  \* ServerServices: the entry per key
  lister,    \* per lister: the version it has listed and not stored yet, 0 for none
  net,       \* per node: the versions under way to the master
  at,        \* the detector's key, chosen by the start of the process
  changes,   \* changes so far (bounded by MaxChanges)
  exits      \* exits so far (bounded by MaxExits)

svcVars == <<services, lister, net>>
envVars == <<at, changes, exits>>
svcAll  == <<proc, actual, svcVars, envVars>>

Versions == 1..MaxChanges + 1
NoEntry  == [ver |-> 0, by |-> "none"]
Entries  == {NoEntry} \cup [ver : Versions, by : Listers]
\* Who lists under a key: the detector alone under another address of Self, the scanner
\* alone for a node.
By(k)    == CASE k = Self -> Listers [] k \in Nodes -> {"scan"} [] OTHER -> {"detect"}
Listings == {f \in [Keys -> Entries] : \A k \in Keys : f[k] = NoEntry \/ f[k].by \in By(k)}
Nothing  == [k \in Keys |-> NoEntry]

\* A listing that has nothing newer than what runs on the hosts.
PastOf(listing, a) == \A k \in Keys : listing[k].ver <= a[HostOf(k)]

---------------------------------------------------------------------------
(* Writers *)

StoredOnce(k, v, l) == IF services[k] = NoEntry  \* mutant: only a missing entry is stored
                       THEN [services EXCEPT ![k] = [ver |-> v, by |-> l]] ELSE services
StoredIfNew(k, v, l) == IF services[k].ver = v   \* mutant: an unchanged list is not stored
                        THEN services ELSE [services EXCEPT ![k] = [ver |-> v, by |-> l]]
Stored(k, v, l) == [services EXCEPT ![k] = [ver |-> v, by |-> l]]

\* Both listers read the system and then store; the detector is started by main after
\* the file was loaded.
List(l) ==
  /\ proc # "down" /\ (l = "detect" => proc = "up")
  /\ lister[l] = 0
  /\ lister' = [lister EXCEPT ![l] = actual[Self]]
  /\ UNCHANGED <<proc, actual, services, net, envVars>>

\* What UpdateListServices and SaveServicesToCache do to the map.
Store(l, k) ==
  /\ lister[l] # 0
  /\ services' = Stored(k, lister[l], l)
  /\ lister' = [lister EXCEPT ![l] = 0]
  /\ UNCHANGED <<proc, actual, net, envVars>>

ScanStore   == Store("scan", Self)
DetectStore == Store("detect", at)

\* The scanner of a node lists and sends by a goroutine of its own, so that messages of
\* one node may overtake each other.
NodeSend(n) ==
  /\ net' = [net EXCEPT ![n] = @ \cup {actual[n]}]
  /\ UNCHANGED <<proc, actual, services, lister, envVars>>

\* The message "server_services:" brings what the node's scanner listed.
NodeStore(n, v) ==
  /\ proc = "up" /\ v \in net[n]
  /\ net' = [net EXCEPT ![n] = @ \ {v}]
  /\ services' = Stored(n, v, "scan")
  /\ UNCHANGED <<proc, actual, lister, envVars>>

---------------------------------------------------------------------------
(* The process and its environment *)

ServicesInit ==
  /\ proc = "scan"
  /\ actual = [h \in Hosts |-> 1]
  /\ services = Nothing
  /\ lister = [l \in Listers |-> 0]
  /\ net = [n \in Nodes |-> {}]
  /\ at \in {Self} \cup OtherKeys
  /\ changes = 0 /\ exits = 0

\* What the scanner has stored meanwhile is replaced, unless there is nothing to load.
LoadServerServices(listing) ==
  /\ proc = "scan"
  /\ proc' = "up"
  /\ services' = listing
  /\ UNCHANGED <<actual, lister, net, envVars>>

Loadable == {services} \cup {f \in Listings : PastOf(f, actual)}

\* The process ends: by a signal, by log.Fatalf when the file cannot be written, or by
\* the runtime when it sees the map being walked and written at once.
ServicesExit ==
  /\ proc # "down" /\ exits < MaxExits
  /\ proc' = "down"
  /\ exits' = exits + 1
  /\ services' = Nothing
  /\ lister' = [l \in Listers |-> 0]
  /\ net' = [n \in Nodes |-> {}]
  /\ UNCHANGED <<actual, at, changes>>

\* An address may be another one than last time; the entry under the old one, when the
\* file holds it, is loaded again and never replaced.
ServicesStart ==
  /\ proc = "down"
  /\ proc' = "scan"
  /\ at' \in {Self} \cup OtherKeys
  /\ UNCHANGED <<actual, svcVars, changes, exits>>

\* Something starts or stops listening on a host.
Change(h) ==
  /\ changes < MaxChanges
  /\ changes' = changes + 1
  /\ actual' = [actual EXCEPT ![h] = @ + 1]
  /\ UNCHANGED <<proc, svcVars, at, exits>>

\* Every step but exit and start, which other components take part in.
ServicesStep ==
  \/ \E l \in Listers : List(l)
  \/ ScanStore \/ DetectStore
  \/ \E f \in Loadable : LoadServerServices(f)
  \/ \E n \in Nodes : NodeSend(n) \/ \E v \in Versions : NodeStore(n, v)
  \/ \E h \in Hosts : Change(h)

ServicesNext == ServicesStep \/ ServicesExit \/ ServicesStart

ServicesSpec == ServicesInit /\ [][ServicesNext]_svcAll

\* What ServicesMap's own fairness leaves of it here.
ServicesFairness ==
  /\ WF_svcAll(List("scan") \/ ScanStore) /\ WF_svcAll(List("detect") \/ DetectStore)
  /\ WF_svcAll(\E f \in Loadable : LoadServerServices(f))
  /\ \A n \in Nodes : WF_svcAll(NodeSend(n)) /\ WF_svcAll(\E v \in Versions : NodeStore(n, v))

---------------------------------------------------------------------------
(* Properties *)

\* Type correctness of the map and its writers.
ServicesTypeOK ==
  /\ proc \in {"down", "scan", "up"}
  /\ actual \in [Hosts -> Versions]
  /\ services \in Listings
  /\ lister \in [Listers -> 0..MaxChanges + 1]
  /\ net \in [Nodes -> SUBSET Versions]
  /\ at \in {Self} \cup OtherKeys
  /\ changes \in 0..MaxChanges /\ exits \in 0..MaxExits

\* Once nothing changes on the hosts any more, every entry that is still written settles
\* on what runs there, the scanner's, the detector's and those of the nodes, although an
\* entry the two share goes on changing its form: an entry that loading replaced by an
\* older one, a listing that overtook a newer one, an exit in the middle of writing the
\* file, all are made good by the periodic listings of a process that runs.
ServicesSettle ==
  <>[](proc = "down" \/ \A k \in Hosts \cup {at} : services[k].ver = actual[HostOf(k)])

\* ... and where scanner and detector share the entry, the detector does not drive the
\* scanner's form out for good: the join of the NAT cache, which understands no other,
\* finds it there again and again.
ScanShows == []<>(proc = "down" \/ services[Self].by = "scan")
=============================================================================
