----------------------------- MODULE NatProofs -----------------------------
(***************************************************************************)
(* Machine-checked theorems about the services map, its file and the NAT   *)
(* rule cache that reads the map, for every value of their constants.      *)
(***************************************************************************)
EXTENDS NatCache, ServicesMap, TLAPS

---------------------------------------------------------------------------
(* Types of the services map                                               *)

\* No host changes more often than there are changes.
VersionsCounted == \A h \in Hosts : actual[h] <= changes + 1

ServicesInv == ServicesTypeOK /\ VersionsCounted

\* The addresses and who lists under them.
LEMMA KeyFacts ==
  /\ Self \in Keys /\ Nodes \subseteq Keys /\ Hosts \subseteq Keys /\ Self \in Hosts
  /\ HostOf(Self) = Self /\ "scan" \in By(Self)
  /\ \A k \in {Self} \cup OtherKeys : k \in Keys /\ HostOf(k) = Self /\ "detect" \in By(k)
  /\ \A n \in Nodes : n \in Keys /\ HostOf(n) = n /\ "scan" \in By(n)
  /\ \A k \in Keys : HostOf(k) \in Hosts
  /\ {"scan", "detect"} = Listers
BY ServicesConstants DEF Keys, Hosts, HostOf, By, Listers

LEMMA ListingFacts ==
  /\ MaxChanges \in Nat /\ Versions \subseteq 0..MaxChanges + 1 /\ 1 \in Versions /\ Versions \subseteq Nat
  /\ \A f \in Listings, k \in Keys : f[k].ver \in 0..MaxChanges + 1 /\ f[k].ver \in Nat
  /\ Nothing \in Listings
<1>1. MaxChanges \in Nat /\ Versions \subseteq 0..MaxChanges + 1 /\ 1 \in Versions /\ Versions \subseteq Nat
  BY ServicesConstants DEF Versions
<1>2. 0 \in 0..MaxChanges + 1 /\ 0..MaxChanges + 1 \subseteq Nat BY <1>1
<1>3. ASSUME NEW f \in Listings, NEW k \in Keys PROVE f[k].ver \in 0..MaxChanges + 1
  <2>1. f[k] \in Entries BY <1>3 DEF Listings
  <2>2. CASE f[k] = NoEntry BY <1>2, <2>2 DEF NoEntry
  <2>3. CASE f[k] \in [ver : Versions, by : Listers]
    <3>1. f[k].ver \in Versions BY <2>3
    <3> QED BY <1>1, <3>1
  <2> QED BY <2>1, <2>2, <2>3 DEF Entries
<1>4. Nothing \in Listings BY DEF Nothing, Listings, Entries
<1> QED BY <1>1, <1>2, <1>3, <1>4

\* What is stored, and what is found walking the map, are listings.
LEMMA StoredType ==
  ASSUME services \in Listings, NEW k \in Keys, NEW v \in Versions, NEW l \in By(k)
  PROVE  Stored(k, v, l) \in Listings
<1>1. l \in Listers BY DEF By, Listers
<1>2. [ver |-> v, by |-> l] \in Entries BY <1>1 DEF Entries
<1>3. Stored(k, v, l) \in [Keys -> Entries] BY <1>2 DEF Stored, Listings
<1>4. \A x \in Keys : Stored(k, v, l)[x] = IF x = k THEN [ver |-> v, by |-> l] ELSE services[x]
  BY DEF Stored, Listings
<1> QED BY <1>3, <1>4 DEF Listings

LEMMA MarshalledType ==
  ASSUME services \in Listings, NEW before \in Listings, NEW f \in Marshalled(before)
  PROVE  f \in Listings /\ \A k \in Keys : f[k] = services[k] \/ f[k] = before[k]
<1>1. PICK late \in SUBSET Keys : f = [k \in Keys |-> IF k \in late THEN services[k] ELSE before[k]]
  BY DEF Marshalled
<1> QED BY <1>1 DEF Listings

LEMMA ServicesInitType == ServicesInit => ServicesInv
<1> SUFFICES ASSUME ServicesInit PROVE ServicesInv OBVIOUS
<1>1. MaxChanges \in Nat /\ MaxExits \in Nat BY ServicesConstants
<1>2. ServicesTypeOK
  BY <1>1, ListingFacts DEF ServicesInit, ServicesTypeOK
<1>3. VersionsCounted BY DEF ServicesInit, VersionsCounted
<1> QED BY <1>2, <1>3 DEF ServicesInv

\* Storing what a lister found.
LEMMA StoreType ==
  ASSUME ServicesInv, NEW l \in Listers, NEW k \in Keys, l \in By(k), Store(l, k)
  PROVE  ServicesInv'
<1> USE DEF envVars
<1>1. lister[l] \in Versions
  <2>1. lister[l] \in 0..MaxChanges + 1 /\ lister[l] # 0 BY DEF ServicesInv, ServicesTypeOK, Store
  <2> QED BY <2>1, ListingFacts DEF Versions
<1>2. services' \in Listings BY <1>1, StoredType DEF Store, ServicesInv, ServicesTypeOK
<1>3. lister' \in [Listers -> 0..MaxChanges + 1]
  <2>1. 0 \in 0..MaxChanges + 1 BY ListingFacts
  <2> QED BY <2>1 DEF Store, ServicesInv, ServicesTypeOK
<1> QED BY <1>2, <1>3 DEF Store, ServicesInv, ServicesTypeOK, VersionsCounted

LEMMA ServicesStepType == ServicesInv /\ ServicesStep => ServicesInv'
<1> SUFFICES ASSUME ServicesInv, ServicesStep PROVE ServicesInv' OBVIOUS
<1> USE DEF svcVars, envVars
<1>t. ServicesTypeOK /\ VersionsCounted BY DEF ServicesInv
<1>c. MaxChanges \in Nat BY ServicesConstants
<1>1. ASSUME NEW l \in Listers, List(l) PROVE ServicesInv'
  <2>1. actual[Self] \in 0..MaxChanges + 1 BY <1>t, KeyFacts, ListingFacts DEF ServicesTypeOK
  <2>2. lister' \in [Listers -> 0..MaxChanges + 1] BY <1>1, <1>t, <2>1 DEF List, ServicesTypeOK
  <2> QED BY <1>1, <1>t, <2>2 DEF List, ServicesInv, ServicesTypeOK, VersionsCounted
<1>2. CASE ScanStore BY <1>2, KeyFacts, StoreType DEF ScanStore
<1>3. CASE DetectStore
  <2>1. at \in {Self} \cup OtherKeys BY <1>t DEF ServicesTypeOK
  <2> QED BY <1>3, <2>1, KeyFacts, StoreType DEF DetectStore
<1>4. ASSUME NEW f \in Loadable, LoadServerServices(f) PROVE ServicesInv'
  <2>1. f \in Listings BY <1>t DEF Loadable, ServicesTypeOK
  <2> QED BY <1>4, <1>t, <2>1 DEF LoadServerServices, ServicesInv, ServicesTypeOK, VersionsCounted
<1>5. ASSUME NEW n \in Nodes, NodeSend(n) PROVE ServicesInv'
  <2>1. net[n] \cup {actual[n]} \in SUBSET Versions BY <1>t DEF ServicesTypeOK, Hosts
  <2>2. net' \in [Nodes -> SUBSET Versions] BY <1>5, <1>t, <2>1 DEF NodeSend, ServicesTypeOK
  <2> QED BY <1>5, <1>t, <2>2 DEF NodeSend, ServicesInv, ServicesTypeOK, VersionsCounted
<1>6. ASSUME NEW n \in Nodes, NEW v \in Versions, NodeStore(n, v) PROVE ServicesInv'
  <2>1. services' \in Listings BY <1>6, <1>t, KeyFacts, StoredType DEF NodeStore, ServicesTypeOK
  <2>2. net' \in [Nodes -> SUBSET Versions] BY <1>6, <1>t DEF NodeStore, ServicesTypeOK
  <2> QED BY <1>6, <1>t, <2>1, <2>2 DEF NodeStore, ServicesInv, ServicesTypeOK, VersionsCounted
<1>7. ASSUME NEW h \in Hosts, Change(h) PROVE ServicesInv'
  <2>1. /\ changes < MaxChanges /\ changes' = changes + 1 /\ changes \in 0..MaxChanges
        /\ actual' = [actual EXCEPT ![h] = actual[h] + 1]
    BY <1>t, <1>7 DEF Change, ServicesTypeOK
  <2>2. \A x \in Hosts : actual[x] \in 1..MaxChanges + 1 /\ actual[x] <= changes + 1
    BY <1>t DEF ServicesTypeOK, Versions, VersionsCounted
  <2>3. \A x \in Hosts : actual'[x] = IF x = h THEN actual[h] + 1 ELSE actual[x]
    BY <1>t, <2>1 DEF ServicesTypeOK
  <2>4. \A x \in Hosts : actual'[x] \in 1..MaxChanges + 1 /\ actual'[x] <= changes' + 1
    BY <1>c, <2>1, <2>2, <2>3
  <2>5. actual' = [x \in Hosts |-> actual'[x]] BY <1>t, <2>1 DEF ServicesTypeOK
  <2>6. actual' \in [Hosts -> Versions] BY <2>4, <2>5 DEF Versions
  <2>7. changes' \in 0..MaxChanges BY <1>c, <2>1
  <2>8. VersionsCounted' BY <2>4 DEF VersionsCounted
  <2> QED BY <1>7, <1>t, <2>6, <2>7, <2>8 DEF Change, ServicesInv, ServicesTypeOK
<1> QED BY <1>1, <1>2, <1>3, <1>4, <1>5, <1>6, <1>7 DEF ServicesStep

LEMMA ServicesExitType == ServicesInv /\ ServicesExit => ServicesInv'
<1> SUFFICES ASSUME ServicesInv, ServicesExit PROVE ServicesInv' OBVIOUS
<1>1. MaxExits \in Nat BY ServicesConstants
<1>2. VersionsCounted' BY DEF ServicesInv, ServicesExit, VersionsCounted
<1>3. exits' \in 0..MaxExits BY <1>1 DEF ServicesInv, ServicesTypeOK, ServicesExit
<1>4. 0 \in 0..MaxChanges + 1 BY ListingFacts
<1>5. ServicesTypeOK'
  BY <1>3, <1>4, ListingFacts DEF ServicesInv, ServicesTypeOK, ServicesExit
<1> QED BY <1>2, <1>5 DEF ServicesInv

\* The steps of the map on its own.
LEMMA ServicesNextType == ServicesInv /\ [ServicesNext]_svcAll => ServicesInv'
<1> SUFFICES ASSUME ServicesInv, [ServicesNext]_svcAll PROVE ServicesInv' OBVIOUS
<1>1. CASE ServicesStep BY <1>1, ServicesStepType
<1>2. CASE ServicesExit BY <1>2, ServicesExitType
<1>3. CASE UNCHANGED svcAll
  BY <1>3 DEF svcAll, svcVars, envVars, ServicesInv, ServicesTypeOK, VersionsCounted
<1>4. CASE ServicesStart
  BY <1>4 DEF ServicesStart, svcVars, envVars, ServicesInv, ServicesTypeOK, VersionsCounted
<1> QED BY <1>1, <1>2, <1>3, <1>4 DEF ServicesNext

\* Next to the rule cache, which takes its share of the changes.
SharedChange ==
  /\ changes < MaxChanges /\ changes' = changes + 1
  /\ UNCHANGED <<proc, actual, svcVars, at, exits>>

LEMMA NextOfServices == [Next]_vars => [ServicesNext]_svcAll \/ SharedChange
BY DEF Next, vars, ServicesNext, SharedChange, RulesChange, SaveFails

LEMMA SharedChangeType == ServicesInv /\ SharedChange => ServicesInv'
<1> SUFFICES ASSUME ServicesInv, SharedChange PROVE ServicesInv' OBVIOUS
<1>c. MaxChanges \in Nat BY ServicesConstants
<1>1. changes \in 0..MaxChanges /\ \A h \in Hosts : actual[h] \in Nat
  BY ListingFacts DEF ServicesInv, ServicesTypeOK
<1>2. changes' \in 0..MaxChanges BY <1>c, <1>1 DEF SharedChange
<1>3. VersionsCounted' BY <1>c, <1>1 DEF ServicesInv, VersionsCounted, SharedChange
<1> QED BY <1>2, <1>3 DEF svcVars, ServicesInv, ServicesTypeOK, SharedChange

LEMMA ServicesInvNext == ServicesInv /\ [Next]_vars => ServicesInv'
BY NextOfServices, ServicesNextType, SharedChangeType

---------------------------------------------------------------------------
(* Types of the rule cache                                                 *)

NatSaves == [pc : {"ready", "open", "written"}, rows : Saved, fd : {"none", "tmp", "file", "gone"}]
NatSavers == {Idle} \cup [pc : {"started"}] \cup NatSaves
NatContents == {Absent, Empty, Torn} \cup [kind : {"whole"}, of : Saved]

LEMMA NatSaverFields ==
  ASSUME NEW r \in NatSavers
  PROVE  /\ r.pc \in {"idle", "started", "ready", "open", "written"}
         /\ r.pc \in {"ready", "open", "written"} => r \in NatSaves /\ r.rows \in Saved
         /\ r.pc = "idle" <=> r = Idle
BY DEF NatSavers, NatSaves, Idle

LEMMA MovedType ==
  ASSUME NEW x \in Savers, saver[x] \in NatSavers
  PROVE  Moved(x) \in NatSavers
<1>1. CASE saver[x] = Idle \/ saver[x].pc # "open" BY <1>1 DEF Moved
<1>2. CASE saver[x] # Idle /\ saver[x].pc = "open"
  <2>1. saver[x] \in NatSaves BY <1>2, NatSaverFields
  <2>2. Moved(x) \in NatSaves BY <1>2, <2>1 DEF Moved, NatSaves
  <2> QED BY <2>2 DEF NatSavers
<1> QED BY <1>1, <1>2

LEMMA NatWrittenType ==
  ASSUME NEW content, NEW f \in Saved
  PROVE  Overwritten(content, f) \subseteq NatContents
BY DEF Overwritten, NatContents, Whole

LEMMA RowTypes ==
  /\ MaxChanges \in Nat /\ 0 \in 0..MaxChanges + 1
  /\ NoRows \in Rows /\ NoData \in Tables /\ NoRules \in Fetched
<1>1. MaxChanges \in Nat BY ServicesConstants
<1>2. 0 \in 0..MaxChanges + 1 BY <1>1
<1>3. NoRows \in Rows BY <1>2 DEF NoRows, Rows
<1> QED BY <1>1, <1>2, <1>3 DEF NoData, Tables, NoRules, Fetched

\* What the file holds fits the map.
LEMMA PreloadType ==
  ASSUME data \in Tables, natFile \in NatContents, Preload
  PROVE  data' \in Tables
<1>1. CASE natFile.kind = "whole"
  <2>1. natFile.of \in Tables
    BY <1>1 DEF NatContents, Absent, Empty, Torn, Saved
  <2> QED BY <1>1, <2>1 DEF Preload, Tables
<1>2. CASE natFile.kind # "whole" BY <1>2 DEF Preload
<1> QED BY <1>1, <1>2

LEMMA NatTypeInit == Init => NatTypeOK
<1> SUFFICES ASSUME Init PROVE NatTypeOK OBVIOUS
<1>1. ServicesTypeOK BY ServicesInitType DEF Init, ServicesInv
<1> QED BY <1>1, RowTypes DEF Init, NatInit, NatTypeOK

LEMMA NatTypeNext == ServicesInv /\ NatTypeOK /\ [Next]_vars => NatTypeOK'
<1> SUFFICES ASSUME ServicesInv, NatTypeOK, [Next]_vars PROVE NatTypeOK' OBVIOUS
<1> USE DEF mtVars, loopVars, trigVars, fileVars, natVars
<1>s. ServicesTypeOK /\ ServicesTypeOK' BY ServicesInvNext DEF ServicesInv
<1>t. /\ rules \in Fetched /\ known \in Fetched /\ got \in Fetched
      /\ monitors \in SUBSET Devices /\ todo \in SUBSET Devices
      /\ data \in Tables
      /\ joined \in {NoJoin} \cup [of : Devices, rows : Rows]
      /\ saver \in [Savers -> NatSavers]
      /\ tmp \in NatContents /\ natFile \in NatContents
      /\ shared \in [{"tmp", "file"} -> BOOLEAN]
      /\ senders \in Nat /\ requests \in Nat
  BY DEF NatTypeOK, NatSavers, NatSaves, NatContents
<1>e. {Absent, Empty, Torn} \subseteq NatContents /\ Idle \in NatSavers /\ [pc |-> "started"] \in NatSavers
  BY DEF NatContents, NatSavers
\* Steps that leave the savers and their files alone, and those of the savers.
<1>1. ASSUME UNCHANGED fileVars,
             multi' \in {"none", "free", "held"}, monitors' \in SUBSET Devices,
             rules' \in Fetched, known' \in Fetched, got' \in Fetched,
             data' \in Tables, loop' \in {"boot", "wait", "pass", "select"},
             todo' \in SUBSET Devices, joined' \in {NoJoin} \cup [of : Devices, rows : Rows],
             token' \in BOOLEAN, senders' \in Nat, requests' \in Nat
      PROVE  NatTypeOK'
  BY <1>1, <1>s DEF NatTypeOK
<1>2. ASSUME UNCHANGED <<mtVars, data, loopVars, trigVars>>,
             saver' \in [Savers -> NatSavers], tmp' \in NatContents, natFile' \in NatContents,
             shared' \in [{"tmp", "file"} -> BOOLEAN]
      PROVE  NatTypeOK'
  BY <1>2, <1>s DEF NatTypeOK, NatSavers, NatSaves, NatContents
<1>3. CASE UNCHANGED natVars
  BY <1>3, <1>s DEF NatTypeOK
<1>4. CASE Preload
  <2>1. data' \in Tables BY <1>4, <1>t, PreloadType
  <2> QED BY <1>1, <1>4, <2>1 DEF Preload, NatTypeOK
<1>5. CASE GetAllNATRules
  BY <1>1, <1>5 DEF GetAllNATRules, NatTypeOK
<1>6. ASSUME NEW d \in Devices, Join(d) PROVE NatTypeOK'
  <2>1. got[d] \in 0..MaxChanges + 1 BY <1>t DEF Fetched
  <2>0. Matched(services[Target[d]]) \in 0..MaxChanges + 1
    BY <1>s, NatConstants, ListingFacts, RowTypes DEF ServicesTypeOK, Matched
  <2>2. [of |-> d, rows |-> [rule |-> got[d], svc |-> Matched(services[Target[d]])]]
          \in [of : Devices, rows : Rows]
    BY <2>0, <2>1 DEF Rows
  <2> QED BY <1>1, <1>6, <2>2 DEF Join, NatTypeOK
<1>7. ASSUME NEW d \in Devices, Put(d) PROVE NatTypeOK'
  <2>1. joined.rows \in Rows BY <1>7, <1>t DEF Put
  <2>2. data' \in Tables BY <1>7, <1>t, <2>1 DEF Put, WithRows, Tables
  <2> QED BY <1>1, <1>7, <2>2 DEF Put, NatTypeOK
<1>8. CASE EndPass
  <2>1. saver' \in [Savers -> NatSavers]
    <3> DEFINE free == {s \in Savers : saver[s] = Idle}
    <3>1. free # {} /\ GoSave(CHOOSE s \in free : TRUE) BY <1>8 DEF EndPass
    <3>2. PICK s \in Savers : saver' = [saver EXCEPT ![s] = [pc |-> "started"]]
      BY <3>1 DEF GoSave
    <3> QED BY <1>t, <1>e, <3>2
  <2> QED BY <1>8, <1>s, <2>1, RowTypes DEF EndPass, NatTypeOK, NatSavers, NatSaves
<1>9. CASE NextByToken BY <1>1, <1>9 DEF NextByToken, TokenTaken, NatTypeOK
<1>10. CASE NextByTimer BY <1>1, <1>10 DEF NextByTimer, NatTypeOK
<1>11. CASE HandleGetDeviceNATRules BY <1>1, <1>11 DEF HandleGetDeviceNATRules, NatTypeOK
<1>12. CASE Send BY <1>1, <1>12 DEF Send, NatTypeOK
<1>13. CASE ServiceMade BY <1>1, <1>13 DEF ServiceMade, NatTypeOK
<1>14. ASSUME NEW d \in Devices, Poll(d) PROVE NatTypeOK'
  <2>1. known' \in Fetched BY <1>14, <1>t DEF Poll, Fetched
  <2> QED BY <1>1, <1>14, <2>1 DEF Poll, NatTypeOK
<1>22. CASE ConnectAll BY <1>1, <1>22 DEF ConnectAll, NatTypeOK
<1>23. CASE Connected BY <1>1, <1>23 DEF Connected, NatTypeOK
<1>15. ASSUME NEW d \in Devices, RulesChange(d) PROVE NatTypeOK'
  <2>1. changes \in 0..MaxChanges BY <1>s DEF ServicesTypeOK
  <2>2. changes + 1 \in 0..MaxChanges + 1 BY <2>1, RowTypes
  <2>3. rules' \in Fetched BY <1>15, <1>t, <2>2, RowTypes DEF RulesChange, Fetched
  <2> QED BY <1>1, <1>15, <2>3 DEF RulesChange, NatTypeOK
<1>16. ASSUME NEW s \in Savers, Snapshot(s) PROVE NatTypeOK'
  <2>1. saver' \in [Savers -> NatSavers]
    <3>1. CASE data = NoData BY <1>16, <1>t, <1>e, <3>1 DEF Snapshot
    <3>2. CASE data # NoData
      <4>1. data \in Saved BY <1>t, <3>2 DEF Saved
      <4>2. [pc |-> "ready", rows |-> data, fd |-> "none"] \in NatSavers
        BY <4>1 DEF NatSavers, NatSaves
      <4> QED BY <1>16, <1>t, <3>2, <4>2 DEF Snapshot
    <3> QED BY <3>1, <3>2
  <2> QED BY <1>2, <1>16, <1>t, <2>1 DEF Snapshot
<1>17. ASSUME NEW s \in Savers, Open(s) PROVE NatTypeOK'
  <2>1. saver[s] \in NatSaves BY <1>17, <1>t, NatSaverFields DEF Open
  <2>2. saver' = [saver EXCEPT ![s] = [[saver[s] EXCEPT !.pc = "open"] EXCEPT !.fd = "tmp"]]
    BY <1>17, <1>t DEF Open, WritesTo
  <2>3. [[saver[s] EXCEPT !.pc = "open"] EXCEPT !.fd = "tmp"] \in NatSavers
    BY <2>1 DEF NatSaves, NatSavers
  <2>4. saver' \in [Savers -> NatSavers] BY <1>t, <2>2, <2>3
  <2>5. tmp' = Empty /\ natFile' = natFile BY <1>17 DEF Open, WritesTo
  <2>6. shared' \in [{"tmp", "file"} -> BOOLEAN] BY <1>17, <1>t DEF Open
  <2> QED BY <1>2, <1>17, <1>t, <1>e, <2>4, <2>5, <2>6 DEF Open
<1>18. ASSUME NEW s \in Savers, Write(s) PROVE NatTypeOK'
  <2>1. saver[s] \in NatSaves /\ saver[s].rows \in Saved
    BY <1>18, <1>t, NatSaverFields DEF Write
  <2>2. saver' = [saver EXCEPT ![s] = [saver[s] EXCEPT !.pc = "written"]]
    BY <1>18 DEF Write
  <2>3. [saver[s] EXCEPT !.pc = "written"] \in NatSavers BY <2>1 DEF NatSaves, NatSavers
  <2>4. saver' \in [Savers -> NatSavers] BY <1>t, <2>2, <2>3
  <2>5. tmp' \in NatContents /\ natFile' \in NatContents
    BY <1>18, <1>t, <2>1, NatWrittenType DEF Write
  <2> QED BY <1>2, <1>18, <1>t, <2>4, <2>5 DEF Write
<1>19. ASSUME NEW s \in Savers, Rename(s) PROVE NatTypeOK'
  <2>1. saver' \in [Savers -> NatSavers] BY <1>19, <1>t, <1>e, MovedType DEF Rename
  <2>2. tmp' \in NatContents /\ natFile' \in NatContents BY <1>19, <1>t, <1>e DEF Rename
  <2>3. shared' \in [{"tmp", "file"} -> BOOLEAN] BY <1>19, <1>t DEF Rename
  <2> QED BY <1>2, <1>19, <2>1, <2>2, <2>3 DEF Rename
<1>20. ASSUME NEW s \in Savers, SaveFails(s) PROVE NatTypeOK'
  BY <1>2, <1>20, <1>t, <1>e DEF SaveFails
<1>21. CASE NatExit
  <2>1. saver' \in [Savers -> NatSavers] BY <1>21, <1>e DEF NatExit
  <2> QED BY <1>21, <1>s, <1>t, <2>1, RowTypes DEF NatExit, NatTypeOK, NatSavers, NatSaves, NatContents
<1> QED BY <1>3, <1>4, <1>5, <1>6, <1>7, <1>8, <1>9, <1>10, <1>11, <1>12, <1>13, <1>14, <1>15,
           <1>16, <1>17, <1>18, <1>19, <1>20, <1>21, <1>22, <1>23
        DEF Next, NatStep, LoopStep, SaverStep, vars

\* The rule cache and the services map are type correct, and no saved table is empty,
\* for any number of devices, nodes, savers, requests and changes.
THEOREM NatTypeCorrect == Spec => []NatTypeOK
<1>1. Init => ServicesInv BY ServicesInitType DEF Init
<1> QED BY <1>1, NatTypeInit, ServicesInvNext, NatTypeNext, PTL DEF Spec

---------------------------------------------------------------------------
(* The temporary file                                                      *)

OpenOn(s, f) == saver[s].pc = "open" /\ saver[s].fd = f
Broken(content) == content.kind \in {"empty", "torn"}

\* Whoever is still writing the temporary file while another goroutine is saving has
\* been seen to overlap; alone it finds the file as it truncated it.
TmpWriters ==
  \A s \in Savers : OpenOn(s, "tmp") =>
     /\ (\E x \in Savers \ {s} : Active(x)) => shared["tmp"]
     /\ shared["tmp"] \/ tmp = Empty

\* Whoever may rename the temporary file while it is not whole has been overlapped.
TmpWhole ==
  \A s \in Savers : Active(s) /\ ~OpenOn(s, "tmp") /\ Broken(tmp) => shared["tmp"]

\* Only of an overlap a goroutine is left that writes the file itself.
FileWriters == \A s \in Savers : OpenOn(s, "file") => shared["file"]

TearInv == TmpWriters /\ TmpWhole /\ FileWriters /\ OnlyOverlapTears

LEMMA ActiveMeans == \A s \in Savers : Active(s) <=> saver[s].pc \in {"open", "written"}
BY DEF Active, Idle

\* A goroutine that starts, ends or fails leaves the files to the others.
LEMMA TearFrame ==
  ASSUME TearInv, UNCHANGED <<tmp, natFile, shared>>,
         \A s \in Savers : saver'[s] = saver[s] \/ saver'[s].pc \notin {"open", "written"}
  PROVE  TearInv'
<1>1. \A s \in Savers : Active(s)' => Active(s) /\ saver'[s] = saver[s] BY DEF Active
<1>2. \A s \in Savers, f \in {"tmp", "file"} : OpenOn(s, f)' => OpenOn(s, f) BY DEF OpenOn
<1>3. TmpWriters' BY <1>1, <1>2 DEF TearInv, TmpWriters
<1>4. TmpWhole'
  <2>1. \A s \in Savers : Active(s)' /\ ~OpenOn(s, "tmp")' => Active(s) /\ ~OpenOn(s, "tmp")
    BY <1>1 DEF OpenOn
  <2> QED BY <2>1 DEF TearInv, TmpWhole, Broken
<1>5. FileWriters' BY <1>2 DEF TearInv, FileWriters
<1>6. OnlyOverlapTears' BY DEF TearInv, OnlyOverlapTears
<1> QED BY <1>3, <1>4, <1>5, <1>6 DEF TearInv

\* Opening truncates the temporary file and notes who else is saving.
LEMMA TearOpen ==
  ASSUME NatTypeOK, TearInv, NEW y \in Savers, Open(y)
  PROVE  TearInv'
<1>t. /\ saver = [s \in Savers |-> saver[s]] /\ shared \in [{"tmp", "file"} -> BOOLEAN]
  BY DEF NatTypeOK
<1>1. \A x \in Savers : x # y => saver'[x] = saver[x] BY <1>t DEF Open
<1>2. saver'[y].pc = "open" /\ saver'[y].fd = "tmp"
  <2>1. saver[y] \in NatSavers /\ saver[y].pc = "ready" BY DEF NatTypeOK, NatSavers, NatSaves, Open
  <2>2. saver[y] \in NatSaves BY <2>1, NatSaverFields
  <2>3. saver'[y] = [[saver[y] EXCEPT !.pc = "open"] EXCEPT !.fd = "tmp"]
    BY <1>t DEF Open, WritesTo
  <2> QED BY <2>2, <2>3 DEF NatSaves
<1>3. tmp' = Empty /\ natFile' = natFile BY DEF Open, WritesTo
<1>4. /\ shared'["tmp"] <=> \E x \in Savers \ {y} : Active(x)
      /\ shared'["file"] = shared["file"]
  BY <1>t DEF Open
<1>5. \A x \in Savers : x # y => /\ Active(x)' <=> Active(x)
                                 /\ OpenOn(x, "tmp")' <=> OpenOn(x, "tmp")
                                 /\ OpenOn(x, "file")' <=> OpenOn(x, "file")
  BY <1>1 DEF Active, OpenOn
<1>6. \A x \in Savers : OpenOn(x, "tmp") => Active(x) BY ActiveMeans DEF OpenOn
<1>7. OpenOn(y, "tmp")' /\ ~OpenOn(y, "file")' BY <1>2 DEF OpenOn
<1>8. TmpWriters'
  <2> SUFFICES ASSUME NEW s \in Savers, OpenOn(s, "tmp")'
               PROVE  /\ (\E x \in Savers \ {s} : Active(x)') => shared'["tmp"]
                      /\ shared'["tmp"] \/ tmp' = Empty
    BY DEF TmpWriters
  <2>1. CASE s = y BY <1>3, <1>4, <1>5, <2>1
  <2>2. CASE s # y BY <1>3, <1>4, <1>5, <1>6, <2>2
  <2> QED BY <2>1, <2>2
<1>9. TmpWhole' BY <1>4, <1>5, <1>7 DEF TmpWhole
<1>10. FileWriters' BY <1>4, <1>5, <1>7 DEF TearInv, FileWriters
<1>11. OnlyOverlapTears' BY <1>3, <1>4 DEF TearInv, OnlyOverlapTears
<1> QED BY <1>8, <1>9, <1>10, <1>11 DEF TearInv

\* Writing makes the file whole that was truncated last, unless somebody overlapped.
LEMMA TearWrite ==
  ASSUME NatTypeOK, TearInv, NEW y \in Savers, Write(y)
  PROVE  TearInv'
<1>t. /\ saver = [s \in Savers |-> saver[s]] /\ saver[y] \in NatSavers
  BY DEF NatTypeOK, NatSavers, NatSaves
<1>0. saver[y].pc = "open" /\ shared' = shared BY DEF Write
<1>1. \A x \in Savers : x # y => saver'[x] = saver[x] BY <1>t DEF Write
<1>2. saver'[y].pc = "written"
  <2>1. saver[y] \in NatSaves BY <1>t, <1>0, NatSaverFields
  <2>2. saver'[y] = [saver[y] EXCEPT !.pc = "written"] BY <1>t DEF Write
  <2> QED BY <2>1, <2>2 DEF NatSaves
<1>3. \A x \in Savers : Active(x)' <=> Active(x)
  <2>1. Active(y) /\ Active(y)' BY <1>0, <1>2 DEF Active, Idle
  <2> QED BY <1>1, <2>1 DEF Active
<1>4. \A x \in Savers, f \in {"tmp", "file"} :
        OpenOn(x, f)' => OpenOn(x, f) /\ x # y
  BY <1>1, <1>2 DEF OpenOn
<1>5. \A x \in Savers : x # y /\ OpenOn(x, "tmp") => OpenOn(x, "tmp")'
  BY <1>1 DEF OpenOn
<1>6. Active(y) BY <1>0, ActiveMeans
<1>7. FileWriters' BY <1>0, <1>4 DEF TearInv, FileWriters
<1>8. CASE saver[y].fd = "tmp"
  <2>1. /\ tmp' \in {Whole(saver[y].rows)} \cup (IF tmp = Empty THEN {} ELSE {Torn})
        /\ natFile' = natFile
    BY <1>8 DEF Write, Overwritten
  <2>2. OpenOn(y, "tmp") BY <1>0, <1>8 DEF OpenOn
  <2>3. TmpWriters' BY <1>0, <1>4, <1>6 DEF TearInv, TmpWriters
  <2>4. ~shared["tmp"] => tmp = Empty BY <2>2 DEF TearInv, TmpWriters
  <2>5. Broken(tmp') => shared["tmp"] BY <2>1, <2>4 DEF Broken, Whole
  <2>6. TmpWhole' BY <1>0, <2>5 DEF TmpWhole, Broken
  <2>7. OnlyOverlapTears' BY <1>0, <2>1 DEF TearInv, OnlyOverlapTears
  <2> QED BY <1>7, <2>3, <2>6, <2>7 DEF TearInv
<1>9. CASE saver[y].fd # "tmp"
  <2>1. tmp' = tmp BY <1>9 DEF Write
  <2>2. TmpWriters' BY <1>0, <1>3, <1>4, <2>1 DEF TearInv, TmpWriters
  <2>3. ~OpenOn(y, "tmp") BY <1>9 DEF OpenOn
  <2>4. \A s \in Savers : Active(s)' /\ ~OpenOn(s, "tmp")' => Active(s) /\ ~OpenOn(s, "tmp")
    BY <1>3, <1>5, <2>3
  <2>5. TmpWhole' BY <1>0, <2>1, <2>4 DEF TearInv, TmpWhole, Broken
  <2>6. OnlyOverlapTears'
    <3>1. CASE saver[y].fd = "file"
      <4>1. shared["file"] BY <1>0, <3>1 DEF TearInv, FileWriters, OpenOn
      <4> QED BY <1>0, <4>1 DEF OnlyOverlapTears
    <3>2. CASE saver[y].fd # "file"
      BY <1>0, <3>2 DEF Write, TearInv, OnlyOverlapTears
    <3> QED BY <3>1, <3>2
  <2> QED BY <1>7, <2>2, <2>5, <2>6 DEF TearInv
<1> QED BY <1>8, <1>9

\* Renaming leaves no temporary file; who was still writing it writes the file now.
LEMMA TearRename ==
  ASSUME NatTypeOK, TearInv, NEW y \in Savers, Rename(y)
  PROVE  TearInv'
<1>t. /\ saver \in [Savers -> NatSavers] /\ shared \in [{"tmp", "file"} -> BOOLEAN]
  BY DEF NatTypeOK, NatSavers, NatSaves
<1>1. CASE tmp = Absent
  <2>1. UNCHANGED <<tmp, natFile, shared>> BY <1>1 DEF Rename
  <2>2. \A s \in Savers : saver'[s] = saver[s] \/ saver'[s] = Idle BY <1>1 DEF Rename
  <2>3. \A s \in Savers : saver'[s] = saver[s] \/ saver'[s].pc \notin {"open", "written"}
    BY <2>2 DEF Idle
  <2> QED BY <2>1, <2>3, TearFrame
<1>2. CASE tmp # Absent
  <2>1. /\ tmp' = Absent /\ natFile' = tmp
        /\ shared'["tmp"] = FALSE /\ shared'["file"] = shared["tmp"]
    BY <1>2, <1>t DEF Rename
  <2>2. saver'[y] = Idle /\ \A x \in Savers : x # y => saver'[x] = Moved(x)
    BY <1>2 DEF Rename
  <2>3. \A x \in Savers : /\ ~OpenOn(x, "tmp")'
                          /\ OpenOn(x, "file")' => OpenOn(x, "tmp") /\ x # y
    <3> SUFFICES ASSUME NEW x \in Savers
                 PROVE  /\ ~OpenOn(x, "tmp")'
                        /\ OpenOn(x, "file")' => OpenOn(x, "tmp") /\ x # y
      OBVIOUS
    <3>1. CASE x = y BY <2>2, <3>1 DEF OpenOn, Idle
    <3>2. CASE x # y /\ (saver[x] = Idle \/ saver[x].pc # "open")
      <4>1. saver'[x] = saver[x] BY <2>2, <3>2 DEF Moved
      <4> QED BY <3>2, <4>1 DEF OpenOn, Idle
    <3>3. CASE x # y /\ saver[x] # Idle /\ saver[x].pc = "open"
      <4>1. saver[x] \in NatSaves BY <1>t, <3>3, NatSaverFields
      <4>2. saver'[x] = [saver[x] EXCEPT !.fd = CASE saver[x].fd = "tmp"  -> "file"
                                                  [] saver[x].fd = "file" -> "gone"
                                                  [] OTHER -> saver[x].fd]
        BY <2>2, <3>3, <4>1 DEF Moved, NatSaves
      <4>3. saver'[x].fd = CASE saver[x].fd = "tmp"  -> "file"
                             [] saver[x].fd = "file" -> "gone"
                             [] OTHER -> saver[x].fd
        BY <4>1, <4>2 DEF NatSaves
      <4> QED BY <3>3, <4>3 DEF OpenOn
    <3> QED BY <3>1, <3>2, <3>3
  <2>4. saver[y].pc = "written" BY DEF Rename
  <2>5. Active(y) /\ ~OpenOn(y, "tmp") BY <2>4, ActiveMeans DEF OpenOn
  <2>6. TmpWriters' BY <2>3 DEF TmpWriters
  <2>7. TmpWhole' BY <2>1 DEF TmpWhole, Broken, Absent
  <2>8. FileWriters'
    <3> SUFFICES ASSUME NEW s \in Savers, OpenOn(s, "file")' PROVE shared["tmp"]
      BY <2>1 DEF FileWriters
    <3>1. OpenOn(s, "tmp") /\ y \in Savers \ {s} BY <2>3
    <3> QED BY <2>5, <3>1 DEF TearInv, TmpWriters
  <2>9. OnlyOverlapTears'
    <3>1. Broken(tmp) => shared["tmp"] BY <2>5 DEF TearInv, TmpWhole
    <3> QED BY <2>1, <3>1 DEF OnlyOverlapTears, Broken
  <2> QED BY <2>6, <2>7, <2>8, <2>9 DEF TearInv
<1> QED BY <1>1, <1>2

LEMMA TearNext == NatTypeOK /\ TearInv /\ [Next]_vars => TearInv'
<1> SUFFICES ASSUME NatTypeOK, TearInv, [Next]_vars PROVE TearInv' OBVIOUS
<1> USE DEF mtVars, loopVars, trigVars, fileVars, natVars
<1>t. saver \in [Savers -> NatSavers] BY DEF NatTypeOK, NatSavers, NatSaves
<1>1. CASE UNCHANGED fileVars BY <1>1, TearFrame
<1>2. ASSUME NEW s \in Savers, Snapshot(s) \/ SaveFails(s) PROVE TearInv'
  <2>1. UNCHANGED <<tmp, natFile, shared>> BY <1>2 DEF Snapshot, SaveFails
  <2>2. \A x \in Savers : x # s => saver'[x] = saver[x] BY <1>2, <1>t DEF Snapshot, SaveFails
  <2>3. saver'[s].pc \in {"idle", "ready"} BY <1>2, <1>t DEF Snapshot, SaveFails, Idle
  <2> QED BY <2>1, <2>2, <2>3, TearFrame
<1>3. CASE EndPass
  <2>1. UNCHANGED <<tmp, natFile, shared>> BY <1>3 DEF EndPass
  <2>2. PICK s \in Savers : saver' = [saver EXCEPT ![s] = [pc |-> "started"]]
    <3> DEFINE free == {s \in Savers : saver[s] = Idle}
    <3>1. free # {} /\ GoSave(CHOOSE s \in free : TRUE) BY <1>3 DEF EndPass
    <3> QED BY <3>1 DEF GoSave
  <2>3. \A x \in Savers : saver'[x] = saver[x] \/ saver'[x].pc \notin {"open", "written"}
    BY <1>t, <2>2
  <2> QED BY <2>1, <2>3, TearFrame
<1>4. CASE NatExit
  <2>1. UNCHANGED <<tmp, natFile, shared>> /\ \A s \in Savers : saver'[s].pc = "idle"
    BY <1>4 DEF NatExit, Idle
  <2> QED BY <2>1, TearFrame
<1>5. ASSUME \/ Preload \/ GetAllNATRules \/ NextByToken \/ NextByTimer
             \/ \E d \in Devices : Join(d) \/ Put(d) \/ Poll(d) \/ RulesChange(d)
             \/ HandleGetDeviceNATRules \/ Send \/ ServiceMade \/ ConnectAll \/ Connected
      PROVE  UNCHANGED fileVars
  BY <1>5 DEF Preload, GetAllNATRules, NextByToken, NextByTimer, Join, Put, Poll, RulesChange,
     HandleGetDeviceNATRules, Send, ServiceMade, ConnectAll, Connected
<1> QED BY <1>1, <1>2, <1>3, <1>4, <1>5, TearOpen, TearWrite, TearRename
        DEF Next, NatStep, LoopStep, SaverStep, vars

\* Whatever exits and failing saves there are, and however many goroutines save: only
\* saves that overlapped leave a truncated or mixed cache file behind.
THEOREM NatOnlyOverlapTears == Spec => []OnlyOverlapTears
<1>1. Init => ServicesInv BY ServicesInitType DEF Init
<1>2. Init => TearInv
  <2> SUFFICES ASSUME Init PROVE TearInv OBVIOUS
  <2>1. \A s \in Savers : saver[s].pc = "idle" BY DEF Init, NatInit, Idle
  <2>2. natFile.kind = "absent" BY DEF Init, NatInit, Absent
  <2> QED BY <2>1, <2>2 DEF TearInv, TmpWriters, TmpWhole, FileWriters, OnlyOverlapTears,
                            OpenOn, Active
<1>3. TearInv => OnlyOverlapTears BY DEF TearInv
<1> QED BY <1>1, <1>2, <1>3, NatTypeInit, ServicesInvNext, NatTypeNext, TearNext, PTL DEF Spec

---------------------------------------------------------------------------
(* Nothing is listed that never ran                                        *)

\* The map, the listers and the messages are behind the hosts.
ListersPast == \A l \in Listers : lister[l] <= actual[Self]
NetPast     == \A n \in Nodes : \A v \in net[n] : v <= actual[n]

ServicesPast == PastOf(services, actual) /\ ListersPast /\ NetPast

\* Versions of the hosts only grow.
LEMMA HostsMoveOn ==
  ASSUME ServicesInv, [ServicesNext]_svcAll \/ SharedChange
  PROVE  /\ \A h \in Hosts : actual[h] \in Nat /\ actual'[h] \in Nat /\ actual[h] <= actual'[h]
         /\ actual' = actual \/ \E h \in Hosts : Change(h)
<1>1. ServicesInv' BY ServicesNextType, SharedChangeType
<1>2. \A h \in Hosts : actual[h] \in Nat /\ actual'[h] \in Nat
  BY <1>1, ListingFacts DEF ServicesInv, ServicesTypeOK
<1>3. actual' = actual \/ \E h \in Hosts : Change(h)
  BY DEF ServicesNext, svcAll, ServicesStep, List, ScanStore, DetectStore, Store,
     LoadServerServices, NodeSend, NodeStore, ServicesExit, ServicesStart, SharedChange
<1>4. ASSUME NEW h \in Hosts, Change(h), NEW x \in Hosts PROVE actual[x] <= actual'[x]
  <2>1. actual' = [actual EXCEPT ![h] = actual[h] + 1] BY <1>4 DEF Change
  <2>2. actual'[x] = IF x = h THEN actual[h] + 1 ELSE actual[x]
    BY <2>1 DEF ServicesInv, ServicesTypeOK
  <2> QED BY <1>2, <2>2
<1> QED BY <1>2, <1>3, <1>4

LEMMA PastStays ==
  ASSUME NEW f \in Listings, NEW a, NEW b, PastOf(f, a),
         \A h \in Hosts : a[h] \in Nat /\ b[h] \in Nat /\ a[h] <= b[h]
  PROVE  PastOf(f, b)
<1> SUFFICES ASSUME NEW k \in Keys PROVE f[k].ver <= b[HostOf(k)] BY DEF PastOf
<1>1. f[k].ver \in Nat /\ HostOf(k) \in Hosts BY ListingFacts, KeyFacts
<1>2. f[k].ver <= a[HostOf(k)] BY DEF PastOf
<1> QED BY <1>1, <1>2

\* Storing what a host has had.
LEMMA StoredPast ==
  ASSUME services \in Listings, PastOf(services, actual),
         NEW k \in Keys, NEW v, NEW l, v <= actual[HostOf(k)]
  PROVE  PastOf(Stored(k, v, l), actual)
<1> SUFFICES ASSUME NEW x \in Keys PROVE Stored(k, v, l)[x].ver <= actual[HostOf(x)]
  BY DEF PastOf
<1>1. Stored(k, v, l)[x] = IF x = k THEN [ver |-> v, by |-> l] ELSE services[x]
  BY DEF Stored, Listings
<1> QED BY <1>1 DEF PastOf

LEMMA StorePast ==
  ASSUME ServicesInv, ServicesPast, NEW l \in Listers, NEW k \in Keys, HostOf(k) = Self, Store(l, k)
  PROVE  ServicesPast'
<1>1. lister[l] <= actual[Self] BY DEF ServicesPast, ListersPast
<1>2. PastOf(services', actual)
  BY <1>1, StoredPast DEF Store, ServicesInv, ServicesTypeOK, ServicesPast
<1>3. \A x \in Listers : lister'[x] = IF x = l THEN 0 ELSE lister[x]
  BY DEF Store, ServicesInv, ServicesTypeOK
<1>4. 0 <= actual[Self]
  <2>1. actual[Self] \in Nat BY KeyFacts, ListingFacts DEF ServicesInv, ServicesTypeOK
  <2> QED BY <2>1
<1>5. actual' = actual /\ net' = net BY DEF Store
<1>6. ListersPast' BY <1>3, <1>4, <1>5 DEF ListersPast, ServicesPast
<1> QED BY <1>2, <1>5, <1>6 DEF ServicesPast, NetPast

\* While a host changes everybody else stands still.
LEMMA PastThroughChange ==
  ASSUME ServicesInv, ServicesPast, UNCHANGED svcVars,
         \A h \in Hosts : actual[h] \in Nat /\ actual'[h] \in Nat /\ actual[h] <= actual'[h]
  PROVE  ServicesPast'
<1>t. ServicesTypeOK BY DEF ServicesInv
<1>u. UNCHANGED <<services, lister, net>> BY DEF svcVars
<1>1. PastOf(services, actual') BY <1>t, PastStays DEF ServicesPast, ServicesTypeOK
<1>2. ASSUME NEW l \in Listers PROVE lister[l] <= actual'[Self]
  <2>1. lister[l] \in Nat /\ Self \in Hosts BY <1>t, ListingFacts, KeyFacts DEF ServicesTypeOK
  <2>2. lister[l] <= actual[Self] BY DEF ServicesPast, ListersPast
  <2> QED BY <2>1, <2>2
<1>3. ASSUME NEW n \in Nodes, NEW v \in net[n] PROVE v <= actual'[n]
  <2>1. v \in Nat /\ n \in Hosts BY <1>t, ListingFacts DEF ServicesTypeOK, Hosts
  <2>2. v <= actual[n] BY DEF ServicesPast, NetPast
  <2> QED BY <2>1, <2>2
<1> QED BY <1>u, <1>1, <1>2, <1>3 DEF ServicesPast, ListersPast, NetPast

LEMMA ServicesPastInit == ServicesInit => ServicesPast
<1> SUFFICES ASSUME ServicesInit PROVE ServicesPast OBVIOUS
<1>1. \A h \in Hosts : actual[h] = 1 BY DEF ServicesInit
<1>2. PastOf(services, actual) BY <1>1, KeyFacts DEF ServicesInit, Nothing, NoEntry, PastOf
<1>3. ListersPast /\ NetPast BY <1>1, KeyFacts DEF ServicesInit, ListersPast, NetPast
<1> QED BY <1>2, <1>3 DEF ServicesPast

LEMMA ServicesPastStep ==
  ServicesInv /\ ServicesPast /\ ([ServicesNext]_svcAll \/ SharedChange) => ServicesPast'
<1> SUFFICES ASSUME ServicesInv, ServicesPast, [ServicesNext]_svcAll \/ SharedChange
             PROVE  ServicesPast'
  OBVIOUS
<1> USE DEF svcVars, envVars
<1>t. ServicesTypeOK BY DEF ServicesInv
<1>p. PastOf(services, actual) /\ ListersPast /\ NetPast BY DEF ServicesPast
<1>z. \A h \in Hosts : actual[h] \in Nat BY HostsMoveOn
<1>1. ASSUME NEW h \in Hosts, Change(h) PROVE ServicesPast'
  BY <1>1, HostsMoveOn, PastThroughChange DEF Change
<1>2. ASSUME NEW l \in Listers, List(l) PROVE ServicesPast'
  <2>1. lister' = [lister EXCEPT ![l] = actual[Self]] /\ UNCHANGED <<actual, services, net>>
    BY <1>2 DEF List
  <2>2. \A x \in Listers : lister'[x] = IF x = l THEN actual[Self] ELSE lister[x]
    BY <1>t, <2>1 DEF ServicesTypeOK
  <2>3. actual[Self] <= actual[Self] BY <1>z, KeyFacts
  <2> QED BY <1>p, <2>1, <2>2, <2>3 DEF ServicesPast, ListersPast, NetPast
<1>3. CASE ScanStore BY <1>3, KeyFacts, StorePast DEF ScanStore
<1>4. CASE DetectStore
  <2>1. at \in {Self} \cup OtherKeys BY <1>t DEF ServicesTypeOK
  <2> QED BY <1>4, <2>1, KeyFacts, StorePast DEF DetectStore
<1>5. ASSUME NEW f \in Loadable, LoadServerServices(f) PROVE ServicesPast'
  <2>1. PastOf(f, actual) BY <1>p DEF Loadable
  <2> QED BY <1>5, <1>p, <2>1 DEF LoadServerServices, ServicesPast, ListersPast, NetPast
<1>6. ASSUME NEW n \in Nodes, NodeSend(n) PROVE ServicesPast'
  <2>1. /\ net' = [net EXCEPT ![n] = net[n] \cup {actual[n]}]
        /\ UNCHANGED <<actual, services, lister>>
    BY <1>6 DEF NodeSend
  <2>2. \A m \in Nodes : net'[m] = IF m = n THEN net[n] \cup {actual[n]} ELSE net[m]
    BY <1>t, <2>1 DEF ServicesTypeOK
  <2>3. actual[n] <= actual[n] BY <1>z DEF Hosts
  <2> QED BY <1>p, <2>1, <2>2, <2>3 DEF ServicesPast, ListersPast, NetPast
<1>7. ASSUME NEW n \in Nodes, NEW v \in Versions, NodeStore(n, v) PROVE ServicesPast'
  <2>1. /\ v \in net[n] /\ services' = Stored(n, v, "scan")
        /\ net' = [net EXCEPT ![n] = net[n] \ {v}]
        /\ UNCHANGED <<actual, lister>>
    BY <1>7 DEF NodeStore
  <2>2. v <= actual[n] BY <1>p, <2>1 DEF NetPast
  <2>3. PastOf(services', actual) BY <1>p, <1>t, <2>1, <2>2, KeyFacts, StoredPast DEF ServicesTypeOK
  <2>4. \A m \in Nodes : net'[m] \subseteq net[m] BY <1>t, <2>1 DEF ServicesTypeOK
  <2> QED BY <1>p, <2>1, <2>3, <2>4 DEF ServicesPast, ListersPast, NetPast
<1>8. CASE ServicesExit
  <2>1. PastOf(Nothing, actual) BY <1>z, KeyFacts DEF PastOf, Nothing, NoEntry
  <2>2. \A l \in Listers : lister'[l] = 0 /\ 0 <= actual[Self]
    BY <1>8, <1>z, KeyFacts DEF ServicesExit
  <2>3. \A n \in Nodes : net'[n] = {} BY <1>8 DEF ServicesExit
  <2> QED BY <1>8, <2>1, <2>2, <2>3 DEF ServicesExit, ServicesPast, ListersPast, NetPast
<1>9. CASE ServicesStart \/ UNCHANGED svcAll \/ SharedChange
  BY <1>9, <1>p DEF ServicesStart, svcAll, SharedChange, ServicesPast, ListersPast, NetPast
<1> QED BY <1>1, <1>2, <1>3, <1>4, <1>5, <1>6, <1>7, <1>8, <1>9 DEF ServicesNext, ServicesStep

LEMMA ServicesPastNext == ServicesInv /\ ServicesPast /\ [Next]_vars => ServicesPast'
BY NextOfServices, ServicesPastStep

\* The rows of the devices are behind the hosts they lead to, too: in the map, in the
\* pass, with the savers and in both files.
RowsPastOf(table, a) == \A d \in Devices : table[d].svc <= a[HostOf(Target[d])]
JoinPast == joined # NoJoin => joined.rows.svc <= actual[HostOf(Target[joined.of])]
RowSaversPast ==
  \A s \in Savers : saver[s].pc \in {"ready", "open", "written"} => RowsPastOf(saver[s].rows, actual)
RowFilesPast ==
  /\ tmp.kind = "whole" => RowsPastOf(tmp.of, actual)
  /\ natFile.kind = "whole" => RowsPastOf(natFile.of, actual)

RowsPast == RowsPastOf(data, actual) /\ JoinPast /\ RowSaversPast /\ RowFilesPast

LEMMA RowFields ==
  ASSUME NEW t \in Tables, NEW d \in Devices
  PROVE  t[d].svc \in Nat
BY ServicesConstants DEF Tables, Rows

LEMMA RowsStayPast ==
  ASSUME NEW t \in Tables, NEW a, NEW b, RowsPastOf(t, a),
         \A h \in Hosts : a[h] \in Nat /\ b[h] \in Nat /\ a[h] <= b[h]
  PROVE  RowsPastOf(t, b)
<1> SUFFICES ASSUME NEW d \in Devices PROVE t[d].svc <= b[HostOf(Target[d])] BY DEF RowsPastOf
<1>1. t[d].svc \in Nat /\ HostOf(Target[d]) \in Hosts BY RowFields, NatConstants, KeyFacts
<1>2. t[d].svc <= a[HostOf(Target[d])] BY DEF RowsPastOf
<1> QED BY <1>1, <1>2

LEMMA RowsPastInit == Init => RowsPast
<1> SUFFICES ASSUME Init PROVE RowsPast OBVIOUS
<1>1. \A d \in Devices : HostOf(Target[d]) \in Hosts BY NatConstants, KeyFacts
<1>2. RowsPastOf(data, actual)
  BY <1>1 DEF Init, ServicesInit, NatInit, NoData, NoRows, RowsPastOf
<1> QED BY <1>2 DEF Init, NatInit, RowsPast, JoinPast, RowSaversPast, RowFilesPast, Idle, Absent

\* While hosts change, rows stand still.
LEMMA RowsThroughChange ==
  ASSUME NatTypeOK, RowsPast, UNCHANGED <<data, joined, saver, tmp, natFile>>,
         \A h \in Hosts : actual[h] \in Nat /\ actual'[h] \in Nat /\ actual[h] <= actual'[h]
  PROVE  RowsPast'
<1>p. \A t \in Tables : RowsPastOf(t, actual) => RowsPastOf(t, actual') BY RowsStayPast
<1>s. Saved \subseteq Tables BY DEF Saved
<1>1. RowsPastOf(data, actual') BY <1>p DEF NatTypeOK, RowsPast
<1>2. JoinPast'
  <2> SUFFICES ASSUME joined # NoJoin PROVE joined.rows.svc <= actual'[HostOf(Target[joined.of])]
    BY DEF JoinPast
  <2>1. joined \in [of : Devices, rows : Rows] BY DEF NatTypeOK
  <2>2. joined.rows.svc \in Nat /\ HostOf(Target[joined.of]) \in Hosts
    BY <2>1, ServicesConstants, NatConstants, KeyFacts DEF Rows
  <2>3. joined.rows.svc <= actual[HostOf(Target[joined.of])] BY DEF RowsPast, JoinPast
  <2> QED BY <2>2, <2>3
<1>3. RowSaversPast'
  <2> SUFFICES ASSUME NEW s \in Savers, saver[s].pc \in {"ready", "open", "written"}
               PROVE  RowsPastOf(saver[s].rows, actual')
    BY DEF RowSaversPast
  <2>1. saver[s].rows \in Tables BY <1>s DEF NatTypeOK, Idle
  <2> QED BY <1>p, <2>1 DEF RowsPast, RowSaversPast
<1>4. RowFilesPast'
  <2>1. tmp.kind = "whole" => tmp.of \in Tables BY <1>s DEF NatTypeOK, Absent, Empty, Torn
  <2>2. natFile.kind = "whole" => natFile.of \in Tables BY <1>s DEF NatTypeOK, Absent, Empty, Torn
  <2> QED BY <1>p, <2>1, <2>2 DEF RowsPast, RowFilesPast
<1> QED BY <1>1, <1>2, <1>3, <1>4 DEF RowsPast

LEMMA RowsPastNext ==
  ServicesInv /\ NatTypeOK /\ ServicesPast /\ RowsPast /\ [Next]_vars => RowsPast'
<1> SUFFICES ASSUME ServicesInv, NatTypeOK, ServicesPast, RowsPast, [Next]_vars PROVE RowsPast'
  OBVIOUS
<1> USE DEF mtVars, loopVars, trigVars, fileVars, natVars
<1>p. RowsPastOf(data, actual) /\ JoinPast /\ RowSaversPast /\ RowFilesPast BY DEF RowsPast
<1>s. saver \in [Savers -> NatSavers] BY DEF NatTypeOK, NatSavers, NatSaves
<1>1. ASSUME UNCHANGED <<data, joined, saver, tmp, natFile>> PROVE RowsPast'
  BY <1>1, NextOfServices, HostsMoveOn, RowsThroughChange
<1>2. ASSUME UNCHANGED <<actual, joined, saver, tmp, natFile>>, RowsPastOf(data', actual)
      PROVE  RowsPast'
  BY <1>2, <1>p DEF RowsPast, JoinPast, RowSaversPast, RowFilesPast
<1>3. ASSUME UNCHANGED <<actual, data, joined>>, RowSaversPast', RowFilesPast' PROVE RowsPast'
  BY <1>3, <1>p DEF RowsPast, JoinPast
<1>4. CASE Preload /\ UNCHANGED svcAll
  <2>1. RowsPastOf(data', actual)
    <3>1. CASE natFile.kind = "whole"
      <4> SUFFICES ASSUME NEW d \in Devices PROVE data'[d].svc <= actual[HostOf(Target[d])]
        BY DEF RowsPastOf
      <4>1. data'[d] = natFile.of[d] \/ data'[d] = data[d] BY <1>4, <3>1 DEF Preload
      <4> QED BY <1>p, <3>1, <4>1 DEF RowFilesPast, RowsPastOf
    <3>2. CASE natFile.kind # "whole" BY <1>4, <1>p, <3>2 DEF Preload
    <3> QED BY <3>1, <3>2
  <2> QED BY <1>2, <1>4, <2>1 DEF Preload, svcAll
<1>5. ASSUME NEW d \in Devices, Join(d), UNCHANGED svcAll PROVE RowsPast'
  <2>1. /\ joined' = [of |-> d, rows |-> [rule |-> got[d], svc |-> Matched(services[Target[d]])]]
        /\ UNCHANGED <<actual, data, saver, tmp, natFile>>
    BY <1>5 DEF Join, svcAll
  <2>2. Matched(services[Target[d]]) <= actual[HostOf(Target[d])]
    <3>1. Target[d] \in Keys /\ HostOf(Target[d]) \in Hosts BY NatConstants, KeyFacts
    <3>2. services[Target[d]].ver <= actual[HostOf(Target[d])] BY <3>1 DEF ServicesPast, PastOf
    <3>3. actual[HostOf(Target[d])] \in Nat
      BY <3>1, ListingFacts DEF ServicesInv, ServicesTypeOK
    <3> QED BY <3>2, <3>3 DEF Matched
  <2>3. JoinPast' BY <2>1, <2>2 DEF JoinPast
  <2> QED BY <1>p, <2>1, <2>3 DEF RowsPast, RowSaversPast, RowFilesPast
<1>6. ASSUME NEW d \in Devices, Put(d), UNCHANGED svcAll PROVE RowsPast'
  <2>1. /\ data' = WithRows(d, joined.rows) /\ joined' = NoJoin
        /\ joined # NoJoin /\ joined.of = d
        /\ UNCHANGED <<actual, saver, tmp, natFile>>
    BY <1>6 DEF Put, svcAll
  <2>2. joined.rows.svc <= actual[HostOf(Target[d])] BY <1>p, <2>1 DEF JoinPast
  <2>3. \A x \in Devices : data'[x] = data[x] \/ (x = d /\ data'[x] = joined.rows)
    BY <2>1 DEF WithRows, NatTypeOK, Tables
  <2>4. RowsPastOf(data', actual) BY <1>p, <2>2, <2>3 DEF RowsPastOf
  <2> QED BY <1>p, <2>1, <2>4 DEF RowsPast, JoinPast, RowSaversPast, RowFilesPast
<1>7. CASE EndPass /\ UNCHANGED svcAll
  <2> DEFINE free == {s \in Savers : saver[s] = Idle}
  <2>1. PICK s \in Savers : saver' = [saver EXCEPT ![s] = [pc |-> "started"]]
    BY <1>7 DEF EndPass, GoSave
  <2>2. \A x \in Savers : saver'[x] = IF x = s THEN [pc |-> "started"] ELSE saver[x]
    BY <1>s, <2>1
  <2>3. RowSaversPast' BY <1>7, <1>p, <2>2 DEF RowSaversPast, svcAll
  <2>4. UNCHANGED <<actual, data, joined, tmp, natFile>> BY <1>7 DEF EndPass, svcAll
  <2> QED BY <1>3, <1>p, <2>3, <2>4 DEF RowFilesPast
<1>8. ASSUME NEW s \in Savers, Snapshot(s), UNCHANGED svcAll PROVE RowsPast'
  <2>1. /\ UNCHANGED <<actual, data, joined, tmp, natFile>>
        /\ \A x \in Savers : \/ saver'[x] = saver[x]
                             \/ saver'[x] = Idle
                             \/ saver'[x] = [pc |-> "ready", rows |-> data, fd |-> "none"]
    BY <1>8, <1>s DEF Snapshot, svcAll
  <2>2. RowSaversPast' BY <1>p, <2>1 DEF RowSaversPast, Idle
  <2> QED BY <1>3, <1>p, <2>1, <2>2 DEF RowFilesPast
<1>9. ASSUME NEW s \in Savers, Open(s), UNCHANGED svcAll PROVE RowsPast'
  <2>1. saver[s] \in NatSaves BY <1>9, <1>s, NatSaverFields DEF Open
  <2>2. saver' = [saver EXCEPT ![s] = [[saver[s] EXCEPT !.pc = "open"] EXCEPT !.fd = "tmp"]]
    BY <1>9, <1>s DEF Open, WritesTo
  <2>3. [[saver[s] EXCEPT !.pc = "open"] EXCEPT !.fd = "tmp"].rows = saver[s].rows
    BY <2>1 DEF NatSaves
  <2>4. \A x \in Savers : x # s => saver'[x] = saver[x] BY <1>s, <2>2
  <2>5. saver'[s].rows = saver[s].rows /\ saver[s].pc = "ready"
    BY <1>9, <1>s, <2>2, <2>3 DEF Open
  <2>6. /\ UNCHANGED <<actual, data, joined, natFile>> /\ tmp' = Empty
    BY <1>9 DEF Open, WritesTo, svcAll
  <2>7. RowSaversPast' BY <1>p, <2>4, <2>5, <2>6 DEF RowSaversPast
  <2> QED BY <1>3, <1>p, <2>6, <2>7 DEF RowFilesPast, Empty
<1>10. ASSUME NEW s \in Savers, Write(s), UNCHANGED svcAll PROVE RowsPast'
  <2>1. saver[s] \in NatSaves BY <1>10, <1>s, NatSaverFields DEF Write
  <2>2. saver' = [saver EXCEPT ![s] = [saver[s] EXCEPT !.pc = "written"]]
    BY <1>10 DEF Write
  <2>3. [saver[s] EXCEPT !.pc = "written"].rows = saver[s].rows BY <2>1 DEF NatSaves
  <2>4. \A x \in Savers : x # s => saver'[x] = saver[x] BY <1>s, <2>2
  <2>5. saver'[s].rows = saver[s].rows /\ saver[s].pc = "open"
    BY <1>10, <1>s, <2>2, <2>3 DEF Write
  <2>6. UNCHANGED <<actual, data, joined>> BY <1>10 DEF Write, svcAll
  <2>7. RowSaversPast' BY <1>p, <2>4, <2>5, <2>6 DEF RowSaversPast
  <2>8. RowsPastOf(saver[s].rows, actual) BY <1>p, <2>5 DEF RowSaversPast
  <2>9. ASSUME NEW content, NEW g \in Overwritten(content, saver[s].rows), g.kind = "whole"
        PROVE  RowsPastOf(g.of, actual)
    BY <2>8, <2>9 DEF Overwritten, Whole, Torn
  <2>10. RowFilesPast' BY <1>10, <1>p, <2>6, <2>9 DEF Write, RowFilesPast
  <2> QED BY <1>3, <2>6, <2>7, <2>10
<1>11. ASSUME NEW s \in Savers, Rename(s), UNCHANGED svcAll PROVE RowsPast'
  <2>1. UNCHANGED <<actual, data, joined>> BY <1>11 DEF Rename, svcAll
  <2>2. tmp' = Absent /\ natFile' \in {tmp, natFile} BY <1>11 DEF Rename
  <2>3. \A x \in Savers : saver'[x] \in {Idle, saver[x], Moved(x)} BY <1>11 DEF Rename
  <2>4. ASSUME NEW x \in Savers, Moved(x).pc \in {"ready", "open", "written"}
        PROVE  saver[x].pc \in {"ready", "open", "written"} /\ Moved(x).rows = saver[x].rows
    <3>1. CASE saver[x] = Idle \/ saver[x].pc # "open" BY <2>4, <3>1 DEF Moved
    <3>2. CASE saver[x] # Idle /\ saver[x].pc = "open"
      <4>1. saver[x] \in NatSaves BY <1>s, <3>2, NatSaverFields
      <4> QED BY <3>2, <4>1 DEF Moved, NatSaves
    <3> QED BY <3>1, <3>2
  <2>5. RowSaversPast' BY <1>p, <2>1, <2>3, <2>4 DEF RowSaversPast, Idle
  <2>6. RowFilesPast' BY <1>p, <2>1, <2>2 DEF RowFilesPast, Absent
  <2> QED BY <1>3, <2>1, <2>5, <2>6
<1>12. ASSUME NEW s \in Savers, SaveFails(s), UNCHANGED actual PROVE RowsPast'
  <2>1. UNCHANGED <<data, joined, tmp, natFile>> BY <1>12 DEF SaveFails
  <2>2. \A x \in Savers : saver'[x] = saver[x] \/ saver'[x] = Idle
    BY <1>12, <1>s DEF SaveFails
  <2>3. RowSaversPast' BY <1>12, <1>p, <2>2 DEF RowSaversPast, Idle
  <2> QED BY <1>3, <1>12, <1>p, <2>1, <2>3 DEF RowFilesPast
<1>13. CASE ServicesExit /\ NatExit
  <2>1. UNCHANGED <<actual, tmp, natFile>> BY <1>13 DEF ServicesExit, NatExit
  <2>2. \A d \in Devices : actual[HostOf(Target[d])] \in Nat
    BY NextOfServices, HostsMoveOn, NatConstants, KeyFacts
  <2>3. RowsPastOf(data', actual) BY <1>13, <2>2 DEF NatExit, NoData, NoRows, RowsPastOf
  <2>4. RowSaversPast' BY <1>13 DEF NatExit, RowSaversPast, Idle
  <2>5. JoinPast' BY <1>13 DEF NatExit, JoinPast
  <2> QED BY <1>p, <2>1, <2>3, <2>4, <2>5 DEF RowsPast, RowFilesPast
<1>14. ASSUME \/ UNCHANGED natVars \/ GetAllNATRules \/ NextByToken \/ NextByTimer
              \/ HandleGetDeviceNATRules \/ Send \/ ServiceMade
              \/ ConnectAll \/ Connected
              \/ \E d \in Devices : Poll(d) \/ RulesChange(d)
       PROVE  UNCHANGED <<data, joined, saver, tmp, natFile>>
  BY <1>14 DEF GetAllNATRules, NextByToken, NextByTimer, HandleGetDeviceNATRules, Send,
     ServiceMade, ConnectAll, Connected, Poll, RulesChange
<1> QED BY <1>1, <1>4, <1>5, <1>6, <1>7, <1>8, <1>9, <1>10, <1>11, <1>12, <1>13, <1>14
        DEF Next, NatStep, LoopStep, SaverStep, vars

\* No service is listed under an address, and no row shown for a device, that is newer
\* than what runs there: listings that overtake each other, what an earlier run has saved,
\* restarts, all can only make map, rows and the file of the rows older.
THEOREM NatNeverAhead == Spec => [](PastOf(services, actual) /\ RowsPastOf(data, actual))
<1> DEFINE Inv == ServicesInv /\ NatTypeOK /\ ServicesPast /\ RowsPast
<1>1. Init => Inv
  BY ServicesInitType, NatTypeInit, ServicesPastInit, RowsPastInit DEF Init
<1>2. Inv /\ [Next]_vars => Inv'
  BY ServicesInvNext, NatTypeNext, ServicesPastNext, RowsPastNext
<1>3. Inv => PastOf(services, actual) /\ RowsPastOf(data, actual)
  BY DEF ServicesPast, RowsPast
<1> QED BY <1>1, <1>2, <1>3, PTL DEF Spec

---------------------------------------------------------------------------
(* The file of the services map                                            *)

\* Listings that were true once: all that writers, savers and the file ever hold.
Pasts(a) == {f \in Listings : PastOf(f, a)}

WritersPast(a) == {Idle} \cup [pc : {"stored"}, before : Pasts(a)] \cup [pc : {"locked"}, data : Pasts(a)]
SaversPast(a)  == {Idle} \cup [pc : {"ready", "open"}, data : Pasts(a)]
FilePast(a)    == {Absent, Empty, Torn} \cup [kind : {"whole"}, of : Pasts(a)]

FilesPast ==
  /\ writer \in [Owners -> WritersPast(actual)]
  /\ svcSaver \in [SaverOf -> SaversPast(actual)]
  /\ svcFile \in FilePast(actual)

MapInv == ServicesInv /\ ServicesPast /\ FilesPast

\* What main loads ServicesView allows, so that every step is a step there.
LEMMA MapStepsAreServices == MapInv /\ [MapNext]_mapAll => [ServicesNext]_svcAll
<1> SUFFICES ASSUME MapInv, [MapNext]_mapAll PROVE [ServicesNext]_svcAll OBVIOUS
<1>1. CASE MapLoad
  <2>1. CASE svcFile.kind = "whole"
    <3>1. svcFile.of \in Pasts(actual)
      BY <2>1 DEF MapInv, FilesPast, FilePast, Absent, Empty, Torn
    <3> QED BY <1>1, <2>1, <3>1 DEF MapLoad, Loaded, Loadable, Pasts, ServicesNext, ServicesStep
  <2>2. CASE svcFile.kind # "whole"
    BY <1>1, <2>2 DEF MapLoad, Loaded, Loadable, ServicesNext, ServicesStep
  <2> QED BY <2>1, <2>2
<1>2. ASSUME ScanStep \/ DetectStep PROVE [ServicesNext]_svcAll
  BY <1>2 DEF ScanStep, DetectStep, MapList, MapScanStore, MapDetectStore, Marshal, DetectWrite,
     ServicesNext, ServicesStep, Listers
<1>3. ASSUME NEW n \in Nodes, Marshal(n) \/ \E v \in Versions : MapNodeStore(n, v)
      PROVE  [ServicesNext]_svcAll
  BY <1>3 DEF Marshal, MapNodeStore, ServicesNext, ServicesStep
<1>4. ASSUME NEW o \in SaverOf, SvcSave(o) PROVE [ServicesNext]_svcAll
  BY <1>4 DEF SvcSave, SvcOpen, SvcWrite
<1>5. CASE UNCHANGED mapAll BY <1>5 DEF mapAll
<1>6. CASE MapExit BY <1>6 DEF MapExit, ServicesNext
<1> QED BY <1>1, <1>2, <1>3, <1>4, <1>5, <1>6 DEF MapNext, ServicesNext, ServicesStep

\* While hosts change, what is held stays past.
LEMMA FilesStayPast ==
  ASSUME FilesPast, UNCHANGED mapFile, Pasts(actual) \subseteq Pasts(actual')
  PROVE  FilesPast'
<1>1. /\ WritersPast(actual) \subseteq WritersPast(actual')
      /\ SaversPast(actual) \subseteq SaversPast(actual')
      /\ FilePast(actual) \subseteq FilePast(actual')
  BY DEF WritersPast, SaversPast, FilePast
<1> QED BY <1>1 DEF FilesPast, mapFile

LEMMA FilesPastNext == MapInv /\ [MapNext]_mapAll => FilesPast'
<1> SUFFICES ASSUME MapInv, [MapNext]_mapAll PROVE FilesPast' OBVIOUS
<1>v. [ServicesNext]_svcAll BY MapStepsAreServices
<1>g. /\ services \in Pasts(actual) /\ services' \in Pasts(actual')
      /\ Pasts(actual) \subseteq Pasts(actual')
  <2>1. ServicesInv' /\ ServicesPast'
    BY <1>v, ServicesNextType, ServicesPastStep DEF MapInv
  <2>2. \A h \in Hosts : actual[h] \in Nat /\ actual'[h] \in Nat /\ actual[h] <= actual'[h]
    BY <1>v, HostsMoveOn DEF MapInv
  <2>3. Pasts(actual) \subseteq Pasts(actual') BY <2>2, PastStays DEF Pasts
  <2> QED BY <2>1, <2>3 DEF MapInv, ServicesInv, ServicesTypeOK, ServicesPast, Pasts
<1>f. FilesPast BY DEF MapInv
<1>1. ASSUME UNCHANGED mapFile PROVE FilesPast' BY <1>1, <1>f, <1>g, FilesStayPast
<1>2. ASSUME NEW o \in Owners, UNCHANGED <<actual, svcSaver, svcFile>>,
             writer' = [writer EXCEPT ![o] = [pc |-> "stored", before |-> services']]
      PROVE  FilesPast'
  <2>1. [pc |-> "stored", before |-> services'] \in WritersPast(actual)
    BY <1>2, <1>g DEF WritersPast
  <2> QED BY <1>2, <1>f, <2>1 DEF FilesPast
<1>3. CASE MapScanStore
  BY <1>2, <1>3 DEF MapScanStore, ScanStore, Store, Owners, Listers
<1>4. ASSUME NEW n \in Nodes, NEW v \in Versions, MapNodeStore(n, v) PROVE FilesPast'
  BY <1>2, <1>4 DEF MapNodeStore, NodeStore, Owners
<1>5. ASSUME NEW o \in SaverOf, Marshal(o) PROVE FilesPast'
  <2>1. o \in Owners /\ writer[o].pc = "stored" BY <1>5 DEF Marshal, SaverOf, Owners, Listers
  <2>2. writer[o].before \in Pasts(actual) BY <1>f, <2>1 DEF FilesPast, WritersPast, Idle
  <2>3. PICK f \in Marshalled(writer[o].before) :
             svcSaver' = [svcSaver EXCEPT ![o] = [pc |-> "ready", data |-> f]]
    BY <1>5 DEF Marshal
  <2>4. f \in Pasts(actual)
    <3>1. f \in Listings /\ \A k \in Keys : f[k] = services[k] \/ f[k] = writer[o].before[k]
      BY <1>g, <2>2, MarshalledType DEF Pasts
    <3> QED BY <1>g, <2>2, <3>1 DEF Pasts, PastOf
  <2>5. [pc |-> "ready", data |-> f] \in SaversPast(actual) BY <2>4 DEF SaversPast
  <2>6. UNCHANGED <<actual, svcFile>> /\ writer' = [writer EXCEPT ![o] = Idle]
    BY <1>5 DEF Marshal, svcAll
  <2>7. Idle \in WritersPast(actual) BY DEF WritersPast
  <2> QED BY <1>f, <2>3, <2>5, <2>6, <2>7 DEF FilesPast
<1>w. ASSUME NEW f \in Pasts(actual), NEW content
      PROVE  Overwritten(content, f) \subseteq FilePast(actual)
  BY DEF Overwritten, FilePast, Whole
<1>i. Idle \in WritersPast(actual) /\ Idle \in SaversPast(actual) /\ Empty \in FilePast(actual)
  BY DEF WritersPast, SaversPast, FilePast
<1>6. ASSUME NEW o \in SaverOf, SvcOpen(o) PROVE FilesPast'
  <2>1. svcSaver[o] \in [pc : {"ready", "open"}, data : Pasts(actual)]
    BY <1>6, <1>f DEF SvcOpen, FilesPast, SaversPast, Idle
  <2>2. [svcSaver[o] EXCEPT !.pc = "open"] \in SaversPast(actual) BY <2>1 DEF SaversPast
  <2>3. /\ svcSaver' = [svcSaver EXCEPT ![o] = [svcSaver[o] EXCEPT !.pc = "open"]]
        /\ svcFile' = Empty /\ UNCHANGED <<actual, writer>>
    BY <1>6 DEF SvcOpen, svcAll
  <2> QED BY <1>f, <1>i, <2>2, <2>3 DEF FilesPast
<1>7. ASSUME NEW o \in SaverOf, SvcWrite(o) PROVE FilesPast'
  <2>1. svcSaver[o].data \in Pasts(actual)
    BY <1>7, <1>f DEF SvcWrite, FilesPast, SaversPast, Idle
  <2>2. /\ svcSaver' = [svcSaver EXCEPT ![o] = Idle]
        /\ svcFile' \in Overwritten(svcFile, svcSaver[o].data) /\ UNCHANGED <<actual, writer>>
    BY <1>7 DEF SvcWrite, svcAll
  <2>3. svcFile' \in FilePast(actual) BY <1>w, <2>1, <2>2
  <2> QED BY <1>f, <1>i, <2>2, <2>3 DEF FilesPast
<1>8. CASE MapDetectStore
  <2>1. UNCHANGED <<actual, svcSaver>> BY <1>8 DEF MapDetectStore, DetectStore, Store
  <2>2. CASE UNCHANGED <<writer, svcFile>> BY <1>1, <2>1, <2>2 DEF mapFile
  <2>3. CASE /\ writer' = [writer EXCEPT !["detect"] = [pc |-> "locked", data |-> services']]
             /\ svcFile' = Empty
    <3>1. [pc |-> "locked", data |-> services'] \in WritersPast(actual)
      BY <1>g, <2>1 DEF WritersPast
    <3> QED BY <1>f, <1>i, <2>1, <2>3, <3>1 DEF FilesPast
  <2> QED BY <1>8, <2>2, <2>3 DEF MapDetectStore
<1>9. CASE DetectWrite
  <2>1. writer["detect"] \in WritersPast(actual)
    BY <1>f DEF FilesPast, Owners, Listers
  <2>2. writer["detect"].data \in Pasts(actual) BY <1>9, <2>1 DEF DetectWrite, WritersPast, Idle
  <2>3. /\ writer' = [writer EXCEPT !["detect"] = Idle] /\ UNCHANGED <<actual, svcSaver>>
        /\ svcFile' \in Overwritten(svcFile, writer["detect"].data)
    BY <1>9 DEF DetectWrite, svcAll
  <2>4. svcFile' \in FilePast(actual) BY <1>w, <2>2, <2>3
  <2> QED BY <1>f, <1>i, <2>3, <2>4 DEF FilesPast
<1>10. CASE MapExit
  BY <1>10, <1>f, <1>i DEF MapExit, ServicesExit, FilesPast
<1>11. ASSUME \/ MapList("scan") \/ MapList("detect") \/ MapLoad \/ UNCHANGED mapAll
       PROVE  UNCHANGED mapFile
  BY <1>11 DEF MapList, MapLoad, mapAll
<1>12. CASE ScanStep \/ DetectStep
  BY <1>1, <1>3, <1>5, <1>8, <1>9, <1>11, <1>12 DEF ScanStep, DetectStep, SaverOf
<1> QED BY <1>1, <1>4, <1>5, <1>6, <1>7, <1>10, <1>11, <1>12 DEF MapNext, SvcSave, SaverOf

\* The services map with the file all its writers write, several at once, of which main
\* loads what is left, is the map its readers rely on: each of its steps is a step of
\* ServicesView or changes nothing there, in particular whatever is loaded was true once.
THEOREM ServicesMapImplements == MapSpec => ServicesSpec
<1>1. MapInit => MapInv /\ ServicesInit
  <2> SUFFICES ASSUME MapInit PROVE FilesPast
    BY ServicesInitType, ServicesPastInit DEF MapInit, MapInv
  <2> QED BY DEF MapInit, FilesPast, WritersPast, SaversPast, FilePast
<1>2. MapInv /\ [MapNext]_mapAll => MapInv' /\ [ServicesNext]_svcAll
  <2>1. ASSUME MapInv, [MapNext]_mapAll PROVE MapInv' /\ [ServicesNext]_svcAll
    <3>1. [ServicesNext]_svcAll BY <2>1, MapStepsAreServices
    <3> QED BY <2>1, <3>1, ServicesNextType, ServicesPastStep, FilesPastNext DEF MapInv
  <2> QED BY <2>1
<1> QED BY <1>1, <1>2, PTL DEF MapSpec, ServicesSpec
=============================================================================
