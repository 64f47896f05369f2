---------------------------- MODULE Fleet_proofs ----------------------------
(***************************************************************************)
(* Theorems about Fleet: that nothing answers on half a schema, that the   *)
(* online flag says what is connected, and that every driver shown has a   *)
(* name, for any number of devices, connections, pages and migrations, and *)
(* for any stops of the server.                                            *)
(***************************************************************************)
EXTENDS Fleet, TLAPS

-----------------------------------------------------------------------------
(* Types. *)

\* What the server does to the hub keeps the types of the pages.
LEMMA HubServerTypes ==
    ASSUME HubTypeOK
    PROVE  /\ UNCHANGED hubVars => HubTypeOK'
           /\ \A phases : Written(phases) => HubTypeOK'
           /\ \A phases : WrittenInSilence(phases) => HubTypeOK'
           /\ Changed => HubTypeOK'
           /\ \A silent : HubDown(silent) => HubTypeOK'
  <1>1. UNCHANGED hubVars => HubTypeOK'
    BY DEF HubTypeOK, hubVars, DevicesRead
  <1>2. ASSUME NEW phases, Written(phases) PROVE HubTypeOK'
    <2>1. overtaken' \in [Page -> BOOLEAN]
      BY <1>2 DEF Written
    <2>2. view' \in [Page -> {"current", "behind", "untold"}]
      BY <1>2 DEF HubTypeOK, Written
    <2> QED
      BY <1>2, <2>1, <2>2 DEF HubTypeOK, Written, DevicesRead
  <1>3. ASSUME NEW phases, WrittenInSilence(phases) PROVE HubTypeOK'
    <2>1. overtaken' \in [Page -> BOOLEAN]
      BY <1>3 DEF WrittenInSilence
    <2>2. view' \in [Page -> {"current", "behind", "untold"}]
      BY <1>3 DEF HubTypeOK, WrittenInSilence
    <2> QED
      BY <1>3, <2>1, <2>2 DEF HubTypeOK, WrittenInSilence, DevicesRead
  <1>4. ASSUME Changed PROVE HubTypeOK'
    BY <1>4 DEF HubTypeOK, Changed, Untold, DevicesRead
  <1>5. ASSUME NEW silent, HubDown(silent) PROVE HubTypeOK'
    <2>1. view' \in [Page -> {"current", "behind", "untold"}]
      BY <1>5 DEF HubTypeOK, HubDown, Untold
    <2>2. fetch' \in [Page -> {"none", "sent", "granted"} \cup DevicesRead]
      BY <1>5 DEF HubDown
    <2> QED
      BY <1>5, <2>1, <2>2 DEF HubTypeOK, HubDown
  <1> QED
    BY <1>1, <1>2, <1>3, <1>4, <1>5

\* So do the steps of a page.
LEMMA PageTypes ==
    ASSUME HubTypeOK, NEW p \in Page, NEW names \in SUBSET Driver
    PROVE  /\ Subscribe(p) => HubTypeOK'
           /\ Cut(p) => HubTypeOK'
           /\ Deliver(p) => HubTypeOK'
           /\ Fire(p) => HubTypeOK'
           /\ Refetch(p) => HubTypeOK'
           /\ Authorize(p) => HubTypeOK'
           /\ ReadDevices(p, names) => HubTypeOK'
           /\ ReadDrivers(p, names) => HubTypeOK'
           /\ Reply(p) => HubTypeOK'
           /\ FetchFails(p) => HubTypeOK'
           /\ SignIn(p) => HubTypeOK'
           /\ Leave(p) => HubTypeOK'
  <1> USE DEF HubTypeOK, DevicesRead
  <1>1. Subscribe(p) => HubTypeOK'
    BY DEF Subscribe
  <1>2. Cut(p) => HubTypeOK'
    BY DEF Cut, Untold
  <1>3. Deliver(p) => HubTypeOK'
    BY DEF Deliver
  <1>4. Fire(p) => HubTypeOK'
    BY DEF Fire, Send
  <1>5. Refetch(p) => HubTypeOK'
    BY DEF Refetch, Send
  <1>6. Authorize(p) => HubTypeOK'
    BY DEF Authorize
  <1>7. ReadDevices(p, names) => HubTypeOK'
    BY DEF ReadDevices
  <1>8. ReadDrivers(p, names) => HubTypeOK'
    BY DEF ReadDrivers
  <1>9. Reply(p) => HubTypeOK'
    BY DEF Reply, EndFetch
  <1>10. FetchFails(p) => HubTypeOK'
    BY DEF FetchFails, EndFetch, Untold
  <1>11. SignIn(p) => HubTypeOK'
    BY DEF SignIn
  <1>12. Leave(p) => HubTypeOK'
    BY DEF Leave, EndFetch, Untold
  <1> QED
    BY <1>1, <1>2, <1>3, <1>4, <1>5, <1>6, <1>7, <1>8, <1>9, <1>10, <1>11, <1>12

\* The types of the tables and of the broker: TypeOK without the pages.
ServerTypeOK ==
    /\ boot \in {"migrate", "body", "record", "clear", "listen", "up"}
    /\ body \in [Migration -> {"none", "part", "done"}]
    /\ recorded \in SUBSET Migration
    /\ pc \in [Connection -> {"free", "announce", "live"}]
    /\ dev \in [Connection -> Device]
    /\ stop \in [Connection -> {"no", "over", "other"}]
    /\ registered \in [Device -> Connection \cup {None}]
    /\ online \in [Device -> {"absent", "on", "off"}]
    /\ driverOf \in [Device -> Driver \cup {None}]
    /\ drivers \in SUBSET Driver
    /\ changing \in SUBSET (Connection \cup Page)
    /\ astray \in [Device -> BOOLEAN]

\* A hook writes a flag and keeps the types.
LEMMA SetPresenceTypes ==
    ASSUME TypeOK, NEW c \in Connection, NEW flag \in {"on", "off"}, NEW wrong \in BOOLEAN,
           SetPresence(c, flag, wrong)
    PROVE  /\ HubTypeOK'
           /\ online' \in [Device -> {"absent", "on", "off"}]
           /\ changing' \in SUBSET (Connection \cup Page)
           /\ astray' \in [Device -> BOOLEAN]
  <1>1. dev[c] \in Device
    BY DEF TypeOK
  <1>2. CASE /\ online' = [online EXCEPT ![dev[c]] = flag]
             /\ astray' = [astray EXCEPT ![dev[c]] = IF registered[dev[c]] = c THEN FALSE ELSE wrong]
             /\ changing' = changing \cup {c}
             /\ Written(DevicesRead)
    <2>1. HubTypeOK'
      BY <1>2, HubServerTypes DEF TypeOK
    <2> QED
      BY <1>1, <1>2, <2>1 DEF TypeOK
  <1>3. CASE /\ astray' = [astray EXCEPT ![dev[c]] = TRUE]
             /\ UNCHANGED <<hubVars, online, changing>>
    BY <1>1, <1>3, HubServerTypes DEF TypeOK
  <1> QED
    BY <1>2, <1>3 DEF SetPresence

\* A step that leaves the server alone.
LEMMA AloneTypes == TypeOK /\ Alone => ServerTypeOK'
  BY DEF TypeOK, ServerTypeOK, Alone, bootVars, connVars, rowVars

LEMMA TypeStep == TypeOK /\ [Next]_vars => TypeOK'
  <1> SUFFICES ASSUME TypeOK, [Next]_vars PROVE HubTypeOK' /\ ServerTypeOK'
    BY DEF TypeOK, ServerTypeOK
  <1> USE FleetAssumption DEF bootVars, connVars, rowVars
  <1>1. CASE Boot
    <2>1. HubTypeOK'
      BY <1>1, HubServerTypes DEF TypeOK, Boot, Migrated, ClearPresence, Serve,
          BeginMigration, FinishMigration, RecordMigration
    <2>2. CASE Migrated \/ Serve
      BY <2>1, <2>2 DEF TypeOK, ServerTypeOK, Migrated, Serve
    <2>3. CASE ClearPresence
      BY <2>1, <2>3 DEF TypeOK, ServerTypeOK, ClearPresence
    <2>4. ASSUME NEW m \in Migration, BeginMigration(m) \/ FinishMigration(m) \/ RecordMigration(m)
          PROVE  ServerTypeOK'
      BY <2>4 DEF TypeOK, ServerTypeOK, BeginMigration, FinishMigration, RecordMigration
    <2> QED
      BY <1>1, <2>1, <2>2, <2>3, <2>4 DEF Boot
  <1>2. CASE Crash
    <2>1. HubTypeOK'
      BY <1>2, HubServerTypes DEF TypeOK, Crash
    <2> QED
      BY <1>2, <2>1 DEF TypeOK, ServerTypeOK, Crash
  <1>3. ASSUME NEW c \in Connection, NEW d \in Device, Establish(c, d)
        PROVE  HubTypeOK' /\ ServerTypeOK'
    <2>1. HubTypeOK'
      BY <1>3, HubServerTypes DEF TypeOK, Establish
    <2> QED
      BY <1>3, <2>1 DEF TypeOK, ServerTypeOK, Establish
  <1>4. ASSUME NEW c \in Connection, Announce(c) PROVE HubTypeOK' /\ ServerTypeOK'
    <2>1. SetPresence(c, "on", TRUE)
      BY <1>4 DEF Announce
    <2> QED
      BY <1>4, <2>1, SetPresenceTypes DEF TypeOK, ServerTypeOK, Announce
  <1>5. ASSUME NEW c \in Connection, Drop(c) PROVE HubTypeOK' /\ ServerTypeOK'
    BY <1>5, HubServerTypes DEF TypeOK, ServerTypeOK, Drop
  <1>6. ASSUME NEW c \in Connection, OnDisconnect(c) PROVE HubTypeOK' /\ ServerTypeOK'
    <2>1. CASE SetPresence(c, "off", TRUE)
      BY <1>6, <2>1, SetPresenceTypes DEF TypeOK, ServerTypeOK, OnDisconnect
    <2>2. CASE UNCHANGED <<hubVars, online, astray, changing>>
      BY <1>6, <2>2, HubServerTypes DEF TypeOK, ServerTypeOK, OnDisconnect
    <2> QED
      BY <1>6, <2>1, <2>2 DEF OnDisconnect
  <1>7. ASSUME NEW c \in Connection, Heartbeat(c) PROVE HubTypeOK' /\ ServerTypeOK'
    <2>1. HubTypeOK'
      BY <1>7, HubServerTypes DEF TypeOK, Heartbeat
    <2> QED
      BY <1>7, <2>1 DEF TypeOK, ServerTypeOK, Heartbeat
  <1>8. ASSUME NEW d \in Device, Disconnect(d) PROVE HubTypeOK' /\ ServerTypeOK'
    <2>1. registered[d] \in Connection /\ Drop(registered[d])
      BY <1>8 DEF TypeOK, Disconnect
    <2> QED
      BY <1>5, <2>1
  <1>9. ASSUME NEW w \in Connection \cup Page, Tell(w) PROVE HubTypeOK' /\ ServerTypeOK'
    <2>1. HubTypeOK'
      BY <1>9, HubServerTypes DEF TypeOK, Tell
    <2> QED
      BY <1>9, <2>1 DEF TypeOK, ServerTypeOK, Tell
  <1>10. ASSUME NEW p \in Page, NEW v \in Driver, CreateDriver(p, v)
         PROVE  HubTypeOK' /\ ServerTypeOK'
    <2>1. HubTypeOK'
      BY <1>10, HubServerTypes DEF TypeOK, CreateDriver
    <2> QED
      BY <1>10, <2>1 DEF TypeOK, ServerTypeOK, CreateDriver
  <1>11. ASSUME NEW p \in Page, NEW d \in Device, NEW v \in Driver \cup {None}, Assign(p, d, v)
         PROVE  HubTypeOK' /\ ServerTypeOK'
    <2>1. HubTypeOK'
      BY <1>11, HubServerTypes DEF TypeOK, Assign
    <2> QED
      BY <1>11, <2>1 DEF TypeOK, ServerTypeOK, Assign
  <1>12. ASSUME NEW p \in Page, Notify(p) \/ Load(p) \/ Browse(p)
         PROVE  HubTypeOK' /\ ServerTypeOK'
    <2>1. drivers \in SUBSET Driver /\ AssignedDrivers \in SUBSET Driver
      BY DEF TypeOK, AssignedDrivers
    <2>2. HubTypeOK'
      BY <1>12, <2>1, PageTypes DEF TypeOK, Notify, Load, Browse, SignOut, Unauthorized
    <2> QED
      BY <1>12, <2>2, AloneTypes DEF Notify, Load, Browse
  <1>13. ASSUME NEW d \in Device, Claim(d) PROVE HubTypeOK' /\ ServerTypeOK'
    <2>1. HubTypeOK'
      BY <1>13, HubServerTypes DEF TypeOK, Claim
    <2> QED
      BY <1>13, <2>1 DEF TypeOK, ServerTypeOK, Claim
  <1>14. CASE UNCHANGED vars
    BY <1>14, HubServerTypes, AloneTypes DEF TypeOK, vars, Alone
  <1> QED
    BY <1>1, <1>2, <1>3, <1>4, <1>5, <1>6, <1>7, <1>8, <1>9, <1>10, <1>11, <1>12, <1>13, <1>14
       DEF Next

-----------------------------------------------------------------------------
(* Migrations. *)

\* Only the steps of the start touch the schema; a stop forgets where they were.
LEMMA SchemaSteps ==
    ASSUME [Next]_vars
    PROVE  Boot \/ (UNCHANGED <<body, recorded>> /\ boot' \in {boot, "migrate"})
  <1>1. \A p \in Page : Notify(p) \/ Load(p) \/ Browse(p) => UNCHANGED bootVars
    BY DEF Notify, Load, Browse, Alone
  <1> QED
    BY <1>1 DEF Next, Crash, Establish, Announce, Drop, OnDisconnect, Heartbeat, Disconnect, Claim, Tell,
        CreateDriver, Assign, bootVars, vars

LEMMA SchemaStep ==
    TypeOK /\ MigrationInHand /\ SchemaIsWhole /\ [Next]_vars => MigrationInHand' /\ SchemaIsWhole'
  <1> SUFFICES ASSUME TypeOK, MigrationInHand, SchemaIsWhole, [Next]_vars
               PROVE  MigrationInHand' /\ SchemaIsWhole'
    OBVIOUS
  <1>1. recorded \subseteq Migration /\ body \in [Migration -> {"none", "part", "done"}]
    BY DEF TypeOK
  <1>2. CASE UNCHANGED <<body, recorded>> /\ boot' \in {boot, "migrate"}
    BY <1>2 DEF MigrationInHand, SchemaIsWhole, IsNext, Pending
  <1>3. CASE \E m \in Migration : BeginMigration(m) \/ FinishMigration(m) \/ RecordMigration(m)
    <2>1. PICK m \in Migration : BeginMigration(m) \/ FinishMigration(m) \/ RecordMigration(m)
      BY <1>3
    <2>2. m \notin recorded /\ IsNext(m)
      BY <2>1 DEF BeginMigration, FinishMigration, RecordMigration, IsNext, Pending
    <2>3. CASE BeginMigration(m)
      BY <1>1, <2>2, <2>3 DEF BeginMigration, MigrationInHand, SchemaIsWhole
    <2>4. CASE FinishMigration(m)
      <3>1. /\ body' = [body EXCEPT ![m] = "done"] /\ boot' = "record" /\ recorded' = recorded
        BY <2>4 DEF FinishMigration
      <3>2. ASSUME NEW n \in Migration, IsNext(n) PROVE n = m
        BY <2>2, <3>2 DEF IsNext, Pending, Migration
      <3>3. MigrationInHand'
        BY <1>1, <3>1, <3>2 DEF MigrationInHand, IsNext, Pending
      <3> QED
        BY <1>1, <2>2, <3>1, <3>3 DEF SchemaIsWhole
    <2>5. CASE RecordMigration(m)
      BY <1>1, <2>2, <2>5 DEF RecordMigration, MigrationInHand, SchemaIsWhole
    <2> QED
      BY <2>1, <2>3, <2>4, <2>5
  <1>4. CASE Migrated \/ ClearPresence \/ Serve
    BY <1>1, <1>4 DEF Migrated, ClearPresence, Serve, MigrationInHand, SchemaIsWhole, Pending
  <1> QED
    BY <1>2, <1>3, <1>4, SchemaSteps DEF Boot

-----------------------------------------------------------------------------
(* Names of drivers. *)

\* What the server does to the hub: a request stays where it is, or is sent anew.
LEMMA RequestsStay ==
    ASSUME HubTypeOK
    PROVE  /\ \A phases : Written(phases) => UNCHANGED <<fetch, unnamed>>
           /\ \A phases : WrittenInSilence(phases) => UNCHANGED <<fetch, unnamed>>
           /\ Changed => UNCHANGED <<fetch, unnamed>>
           /\ UNCHANGED hubVars => UNCHANGED <<fetch, unnamed>>
           /\ \A silent : HubDown(silent) => \A p \in Page : fetch'[p] \in {"none", "sent"}
  BY DEF Written, WrittenInSilence, Changed, hubVars, HubDown

\* A page that has read the devices after the drivers it refers to has them all.
LEMMA PageNames ==
    ASSUME TypeOK, DriversExist, NamesResolve, NEW p \in Page, Notify(p) \/ Load(p) \/ Browse(p)
    PROVE  /\ UNCHANGED <<driverOf, drivers>>
           /\ \A q \in Page : q # p => fetch'[q] = fetch[q] /\ unnamed'[q] = unnamed[q]
           /\ fetch'[p] = "devices" => unnamed'[p] \subseteq drivers
           /\ fetch'[p] = "drivers" => unnamed'[p] = {}
  <1>1. UNCHANGED <<driverOf, drivers>>
    BY DEF Notify, Load, Browse, Alone, rowVars
  <1>2. fetch \in [Page -> {"none", "sent", "granted", "devices", "drivers"}]
        /\ unnamed \in [Page -> SUBSET Driver]
    BY DEF TypeOK, HubTypeOK, DevicesRead
  <1>3. CASE ReadDevices(p, AssignedDrivers)
    <2>1. AssignedDrivers \subseteq drivers
      BY DEF DriversExist, AssignedDrivers
    <2> QED
      BY <1>1, <1>2, <1>3, <2>1 DEF ReadDevices
  <1>4. CASE ReadDrivers(p, drivers)
    <2>1. unnamed[p] \subseteq drivers
      BY <1>4 DEF ReadDrivers, DriversExist
    <2> QED
      BY <1>1, <1>2, <1>4, <2>1 DEF ReadDrivers
  <1>5. CASE Deliver(p) \/ Cut(p) \/ Subscribe(p) \/ SignIn(p)
    BY <1>1, <1>5 DEF Deliver, Cut, Subscribe, SignIn, DriversExist, NamesResolve
  <1>6. CASE Fire(p) \/ Refetch(p) \/ Authorize(p)
    BY <1>1, <1>2, <1>6 DEF Fire, Refetch, Send, Authorize
  <1>7. CASE Reply(p) \/ FetchFails(p) \/ SignOut(p) \/ Unauthorized(p)
    BY <1>1, <1>2, <1>7 DEF Reply, FetchFails, SignOut, Unauthorized, Leave, EndFetch
  <1> QED
    BY <1>3, <1>4, <1>5, <1>6, <1>7 DEF Notify, Load, Browse

LEMMA NamesStep ==
    TypeOK /\ DriversExist /\ NamesResolve /\ [Next]_vars => DriversExist' /\ NamesResolve'
  <1> SUFFICES ASSUME TypeOK, DriversExist, NamesResolve, [Next]_vars
               PROVE  DriversExist' /\ NamesResolve'
    OBVIOUS
  <1>0. HubTypeOK /\ driverOf \in [Device -> Driver \cup {None}]
    BY DEF TypeOK
  <1>1. CASE UNCHANGED <<driverOf, drivers, fetch, unnamed>>
    BY <1>1 DEF DriversExist, NamesResolve
  <1>2. CASE Crash
    BY <1>0, <1>2, RequestsStay DEF Crash, rowVars, DriversExist, NamesResolve
  <1>3. ASSUME NEW p \in Page, NEW v \in Driver, CreateDriver(p, v)
        PROVE  DriversExist' /\ NamesResolve'
    <2>1. UNCHANGED <<fetch, unnamed, driverOf>> /\ drivers \subseteq drivers'
      BY <1>0, <1>3, RequestsStay DEF CreateDriver
    <2> QED
      BY <2>1 DEF DriversExist, NamesResolve
  <1>4. ASSUME NEW p \in Page, NEW d \in Device, NEW v \in Driver \cup {None}, Assign(p, d, v)
        PROVE  DriversExist' /\ NamesResolve'
    <2>1. UNCHANGED <<fetch, unnamed, drivers>> /\ v \in drivers \cup {None}
          /\ driverOf' = [driverOf EXCEPT ![d] = v]
      BY <1>0, <1>4, RequestsStay DEF Assign
    <2> QED
      BY <1>0, <2>1 DEF DriversExist, NamesResolve
  <1>5. ASSUME NEW p \in Page, Notify(p) \/ Load(p) \/ Browse(p)
        PROVE  DriversExist' /\ NamesResolve'
    BY <1>5, PageNames DEF DriversExist, NamesResolve
  <1>6. ASSUME Boot PROVE UNCHANGED <<driverOf, drivers, fetch, unnamed>>
    BY <1>0, <1>6, RequestsStay DEF Boot, Migrated, ClearPresence, Serve, BeginMigration, FinishMigration,
        RecordMigration, rowVars
  <1>7. ASSUME NEW c \in Connection, NEW flag, NEW wrong, SetPresence(c, flag, wrong)
        PROVE  UNCHANGED <<fetch, unnamed>>
    BY <1>0, <1>7, RequestsStay DEF SetPresence
  <1>8. ASSUME NEW c \in Connection,
               (\E d \in Device : Establish(c, d)) \/ Announce(c) \/ OnDisconnect(c) \/ Heartbeat(c)
        PROVE  UNCHANGED <<driverOf, drivers, fetch, unnamed>>
    BY <1>0, <1>7, <1>8, RequestsStay DEF Establish, Announce, OnDisconnect, Heartbeat, rowVars
  <1>9. ASSUME NEW c, Drop(c) PROVE UNCHANGED <<driverOf, drivers, fetch, unnamed>>
    BY <1>0, <1>9, RequestsStay DEF Drop, rowVars
  <1>10. ASSUME NEW w, Tell(w) PROVE UNCHANGED <<driverOf, drivers, fetch, unnamed>>
    BY <1>0, <1>10, RequestsStay DEF Tell, rowVars
  <1>11. ASSUME NEW d, Claim(d) PROVE UNCHANGED <<driverOf, drivers, fetch, unnamed>>
    BY <1>0, <1>11, RequestsStay DEF Claim
  <1>12. CASE UNCHANGED vars
    BY <1>1, <1>12 DEF vars, rowVars, hubVars
  <1> QED
    BY <1>1, <1>2, <1>3, <1>4, <1>5, <1>6, <1>8, <1>9, <1>10, <1>11, <1>12 DEF Next, Disconnect

-----------------------------------------------------------------------------
(* Presence. *)

presenceVars == <<connVars, online, astray>>

\* The invariant of this part, device by device and connection by connection.
LEMMA QuietPresence ==
    ASSUME TypeOK, ConnectionsInOrder, FlagIsTrue, UNCHANGED presenceVars, Listening' <=> Listening
    PROVE  ConnectionsInOrder' /\ FlagIsTrue'
  BY DEF presenceVars, connVars, ConnectionsInOrder, FlagIsTrue, Connected

\* Starting is over before anything is connected.
LEMMA BootPresence ==
    ASSUME TypeOK, ConnectionsInOrder, FlagIsTrue, Boot
    PROVE  ConnectionsInOrder' /\ FlagIsTrue'
  <1>1. CASE ClearPresence
    <2>1. ~Listening /\ UNCHANGED connVars
          /\ online' = [d \in Device |-> IF online[d] = "on" THEN "off" ELSE online[d]]
      BY <1>1 DEF ClearPresence, Listening
    <2>2. /\ \A d \in Device : registered[d] = None
          /\ \A c \in Connection : pc[c] = "free"
      BY <2>1 DEF ConnectionsInOrder
    <2>3. ConnectionsInOrder'
      BY <2>1, <2>2 DEF ConnectionsInOrder, connVars
    <2>4. \A d \in Device : online'[d] # "on" /\ registered'[d] = None
      BY <2>1, <2>2 DEF TypeOK, connVars
    <2> QED
      BY <2>3, <2>4 DEF FlagIsTrue, Connected
  <1>2. CASE Serve
    <2>1. Listening /\ Listening' /\ UNCHANGED presenceVars
      BY <1>2 DEF Serve, Listening, presenceVars, rowVars
    <2> QED
      BY <2>1 DEF presenceVars, connVars, ConnectionsInOrder, FlagIsTrue, Connected
  <1>3. CASE Migrated \/ \E m \in Migration : BeginMigration(m) \/ FinishMigration(m) \/ RecordMigration(m)
    <2>1. ~Listening /\ ~Listening' /\ UNCHANGED presenceVars
      BY <1>3 DEF Migrated, BeginMigration, FinishMigration, RecordMigration, Listening, presenceVars, rowVars
    <2> QED
      BY <2>1, QuietPresence
  <1> QED
    BY <1>1, <1>2, <1>3 DEF Boot

\* A new connection is not the one that is registered, until it is; the old one is
\* marked, so that its end will not be taken for the device's.
LEMMA EstablishPresence ==
    ASSUME TypeOK, ConnectionsInOrder, FlagIsTrue,
           NEW c \in Connection, NEW d \in Device, Establish(c, d)
    PROVE  ConnectionsInOrder' /\ FlagIsTrue'
  <1>1. /\ Listening /\ Listening' /\ pc[c] = "free" /\ stop[c] = "no" /\ c # None
        /\ pc' = [pc EXCEPT ![c] = "announce"] /\ dev' = [dev EXCEPT ![c] = d]
        /\ registered' = [registered EXCEPT ![d] = c]
        /\ UNCHANGED <<online, astray>>
    BY FleetAssumption DEF Establish, ConnectionsInOrder, Listening, bootVars, rowVars
  <1>2. \A e \in Connection :
           stop'[e] = IF e = registered[d] /\ stop[e] = "no" THEN "over" ELSE stop[e]
    BY DEF Establish
  <1>3. \A x \in Device : registered[x] # c
    BY <1>1 DEF ConnectionsInOrder
  <1>4. \A x \in Device : x # d /\ registered[x] # None =>
           /\ registered[x] # registered[d] /\ registered[x] \in Connection
           /\ registered'[x] = registered[x]
           /\ pc'[registered[x]] = pc[registered[x]] /\ dev'[registered[x]] = dev[registered[x]]
           /\ stop'[registered[x]] = stop[registered[x]]
    BY <1>1, <1>2, <1>3 DEF TypeOK, ConnectionsInOrder
  <1>5. registered'[d] = c /\ pc'[c] = "announce" /\ dev'[c] = d /\ stop'[c] = "no"
    BY <1>1, <1>2, <1>3 DEF TypeOK
  <1>6. \A x \in Device : registered'[x] # None =>
           /\ Listening' /\ pc'[registered'[x]] # "free" /\ dev'[registered'[x]] = x
           /\ stop'[registered'[x]] # "over"
    BY <1>1, <1>4, <1>5 DEF TypeOK, ConnectionsInOrder
  <1>7. \A e \in Connection :
           /\ pc'[e] = "free" => stop'[e] = "no"
           /\ pc'[e] = "live" /\ ~astray'[dev'[e]] => online'[dev'[e]] # "absent"
    <2> SUFFICES ASSUME NEW e \in Connection
                 PROVE  /\ pc'[e] = "free" => stop'[e] = "no"
                        /\ pc'[e] = "live" /\ ~astray'[dev'[e]] => online'[dev'[e]] # "absent"
      OBVIOUS
    <2>1. CASE e = c
      BY <1>5, <2>1
    <2>2. CASE e # c
      <3>1. pc'[e] = pc[e] /\ dev'[e] = dev[e]
        BY <1>1, <2>2 DEF TypeOK
      <3>2. pc[e] = "free" => e # registered[d]
        BY FleetAssumption DEF ConnectionsInOrder, TypeOK
      <3> QED
        BY <1>1, <1>2, <3>1, <3>2 DEF ConnectionsInOrder
    <2> QED
      BY <2>1, <2>2
  <1>8. ConnectionsInOrder'
    BY <1>1, <1>6, <1>7 DEF ConnectionsInOrder
  <1>9. FlagIsTrue'
    <2> SUFFICES ASSUME NEW x \in Device, ~astray'[x],
                        registered'[x] # None => pc'[registered'[x]] # "announce"
                 PROVE  online'[x] = "on" <=> Connected(x)'
      BY DEF FlagIsTrue
    <2>1. x # d
      BY <1>1, <1>5
    <2>2. registered'[x] = registered[x]
      BY <1>1, <2>1 DEF TypeOK
    <2> QED
      BY <1>1, <1>4, <2>1, <2>2 DEF FlagIsTrue, Connected
  <1> QED
    BY <1>8, <1>9

\* Nothing is connected to a server that has stopped.
LEMMA CrashPresence ==
    ASSUME Crash PROVE ConnectionsInOrder' /\ FlagIsTrue'
  <1>1. /\ \A c \in Connection : pc'[c] = "free" /\ stop'[c] = "no"
        /\ \A d \in Device : registered'[d] = None
        /\ ~Listening'
    BY DEF Crash, Listening
  <1> QED
    BY <1>1 DEF ConnectionsInOrder, FlagIsTrue

\* What a hook leaves in the row of its device, and in no other.
LEMMA HookWrites ==
    ASSUME TypeOK, NEW c \in Connection, NEW flag \in {"on", "off"},
           SetPresence(c, flag, TRUE)
    PROVE  /\ \A x \in Device : x # dev[c] => online'[x] = online[x] /\ (astray'[x] <=> astray[x])
           /\ ~astray'[dev[c]] => registered[dev[c]] = c /\ online'[dev[c]] = flag
  <1>1. dev[c] \in Device
    BY DEF TypeOK
  <1>2. CASE /\ online' = [online EXCEPT ![dev[c]] = flag]
             /\ astray' = [astray EXCEPT ![dev[c]] = IF registered[dev[c]] = c THEN FALSE ELSE TRUE]
    BY <1>1, <1>2 DEF TypeOK
  <1>3. CASE /\ astray' = [astray EXCEPT ![dev[c]] = TRUE]
             /\ online' = online
    BY <1>1, <1>3 DEF TypeOK
  <1> QED
    BY <1>2, <1>3 DEF SetPresence

\* The hook of the connection that is registered makes the flag true, and that of
\* another goes astray.
LEMMA AnnouncePresence ==
    ASSUME TypeOK, ConnectionsInOrder, FlagIsTrue, NEW c \in Connection, Announce(c)
    PROVE  ConnectionsInOrder' /\ FlagIsTrue'
  <1>1. /\ pc[c] = "announce" /\ pc' = [pc EXCEPT ![c] = "live"] /\ SetPresence(c, "on", TRUE)
        /\ dev' = dev /\ stop' = stop /\ registered' = registered /\ boot' = boot
    BY DEF Announce, bootVars
  <1>2. Listening /\ Listening' /\ dev[c] \in Device
    BY <1>1 DEF ConnectionsInOrder, Listening, TypeOK
  <1>3. /\ \A x \in Device : x # dev[c] => online'[x] = online[x] /\ (astray'[x] <=> astray[x])
        /\ ~astray'[dev[c]] => registered[dev[c]] = c /\ online'[dev[c]] = "on"
    BY <1>1, HookWrites
  <1>4. pc'[c] = "live" /\ \A e \in Connection : e # c => pc'[e] = pc[e]
    BY <1>1 DEF TypeOK
  <1>5. ConnectionsInOrder'
    <2>1. \A x \in Device : registered'[x] # None =>
             pc'[registered'[x]] # "free" /\ dev'[registered'[x]] = x /\ stop'[registered'[x]] # "over"
      BY <1>1, <1>4 DEF TypeOK, ConnectionsInOrder
    <2>2. \A e \in Connection :
             /\ pc'[e] = "free" => stop'[e] = "no"
             /\ pc'[e] = "live" /\ ~astray'[dev'[e]] => online'[dev'[e]] # "absent"
      BY <1>1, <1>3, <1>4 DEF TypeOK, ConnectionsInOrder
    <2> QED
      BY <1>2, <2>1, <2>2 DEF ConnectionsInOrder
  <1>6. FlagIsTrue'
    <2> SUFFICES ASSUME NEW x \in Device, ~astray'[x],
                        registered'[x] # None => pc'[registered'[x]] # "announce"
                 PROVE  online'[x] = "on" <=> Connected(x)'
      BY DEF FlagIsTrue
    <2>1. CASE x = dev[c]
      BY <1>1, <1>3, <1>4, <2>1, FleetAssumption DEF Connected
    <2>2. CASE x # dev[c]
      <3>1. registered[x] # None => registered[x] # c /\ pc'[registered[x]] = pc[registered[x]]
        BY <1>4, <2>2 DEF TypeOK, ConnectionsInOrder
      <3> QED
        BY <1>1, <1>2, <1>3, <2>2, <3>1 DEF FlagIsTrue, Connected
    <2> QED
      BY <2>1, <2>2
  <1> QED
    BY <1>5, <1>6

\* A link that breaks is still registered, and does not count as taken over.
LEMMA DropPresence ==
    ASSUME TypeOK, ConnectionsInOrder, FlagIsTrue, NEW c \in Connection, Drop(c)
    PROVE  ConnectionsInOrder' /\ FlagIsTrue'
  <1>1. /\ pc[c] # "free" /\ stop' = [stop EXCEPT ![c] = "other"] /\ boot' = boot
        /\ UNCHANGED <<pc, dev, registered, online, astray>>
    BY DEF Drop, bootVars, rowVars
  <1>2. FlagIsTrue'
    BY <1>1 DEF FlagIsTrue, Connected, Listening
  <1>3. ConnectionsInOrder'
    BY <1>1 DEF TypeOK, ConnectionsInOrder, Listening
  <1> QED
    BY <1>2, <1>3

\* The end of a connection that was taken over changes nothing; that of another
\* takes the flag with it, if the device has no newer one.
LEMMA EndPresence ==
    ASSUME TypeOK, ConnectionsInOrder, FlagIsTrue, NEW c \in Connection, OnDisconnect(c)
    PROVE  ConnectionsInOrder' /\ FlagIsTrue'
  <1>1. /\ pc[c] = "live" /\ pc' = [pc EXCEPT ![c] = "free"] /\ stop' = [stop EXCEPT ![c] = "no"]
        /\ dev' = dev /\ boot' = boot
        /\ registered' = [d \in Device |-> IF registered[d] = c THEN None ELSE registered[d]]
    BY DEF OnDisconnect, bootVars
  <1>2. Listening /\ Listening' /\ dev[c] \in Device
    BY <1>1 DEF ConnectionsInOrder, Listening, TypeOK
  <1>3. /\ pc'[c] = "free" /\ stop'[c] = "no"
        /\ \A e \in Connection : e # c => pc'[e] = pc[e] /\ stop'[e] = stop[e]
    BY <1>1 DEF TypeOK
  <1>4. \A x \in Device : registered'[x] # None =>
           /\ registered'[x] = registered[x] /\ registered[x] # c /\ registered[x] # None
           /\ registered[x] \in Connection
    BY <1>1 DEF TypeOK
  <1>5. \A x \in Device : registered[x] # None /\ registered'[x] = None =>
           registered[x] = c /\ x = dev[c] /\ stop[c] # "over"
    BY <1>1 DEF ConnectionsInOrder
  <1>6. /\ \A x \in Device : x # dev[c] => online'[x] = online[x] /\ (astray'[x] <=> astray[x])
        /\ \/ /\ registered[dev[c]] # c
              /\ online'[dev[c]] = online[dev[c]] /\ (astray'[dev[c]] <=> astray[dev[c]])
           \/ ~astray'[dev[c]] => registered[dev[c]] = c /\ online'[dev[c]] = "off"
    <2>1. CASE stop[c] = "over"
      <3>1. online' = online /\ astray' = astray
        BY <2>1 DEF OnDisconnect
      <3> QED
        BY <1>2, <2>1, <3>1, FleetAssumption DEF ConnectionsInOrder
    <2>2. CASE SetPresence(c, "off", TRUE)
      BY <2>2, HookWrites
    <2> QED
      BY <2>1, <2>2 DEF OnDisconnect
  <1>7. ConnectionsInOrder'
    <2>1. \A x \in Device : registered'[x] # None =>
             pc'[registered'[x]] # "free" /\ dev'[registered'[x]] = x /\ stop'[registered'[x]] # "over"
      BY <1>1, <1>3, <1>4 DEF ConnectionsInOrder
    <2>2. \A e \in Connection :
             /\ pc'[e] = "free" => stop'[e] = "no"
             /\ pc'[e] = "live" /\ ~astray'[dev'[e]] => online'[dev'[e]] # "absent"
      BY <1>1, <1>3, <1>6 DEF TypeOK, ConnectionsInOrder
    <2> QED
      BY <1>2, <2>1, <2>2 DEF ConnectionsInOrder
  <1>8. FlagIsTrue'
    <2> SUFFICES ASSUME NEW x \in Device, ~astray'[x],
                        registered'[x] # None => pc'[registered'[x]] # "announce"
                 PROVE  online'[x] = "on" <=> Connected(x)'
      BY DEF FlagIsTrue
    <2>1. CASE x = dev[c] /\ registered[dev[c]] = c
      <3>1. registered'[x] = None /\ online'[x] = "off"
        BY <1>1, <1>2, <1>6, <2>1
      <3> QED
        BY <3>1 DEF Connected
    <2>2. CASE x # dev[c] \/ registered[dev[c]] # c
      <3>1. online'[x] = online[x] /\ ~astray[x]
        BY <1>6, <2>2
      <3>2. registered'[x] = registered[x]
        BY <1>4, <1>5, <2>2
      <3>3. registered[x] # None => pc'[registered[x]] = pc[registered[x]]
        BY <1>3, <1>4, <3>2
      <3> QED
        BY <1>2, <3>1, <3>2, <3>3 DEF FlagIsTrue, Connected
    <2> QED
      BY <2>1, <2>2
  <1> QED
    BY <1>7, <1>8

\* A device that is connected has a row, and a heartbeat does not touch its flag.
LEMMA HeartbeatPresence ==
    ASSUME TypeOK, ConnectionsInOrder, FlagIsTrue, NEW c \in Connection, Heartbeat(c)
    PROVE  ConnectionsInOrder' /\ FlagIsTrue'
  <1>1. /\ pc[c] = "live" /\ Listening /\ Listening' /\ UNCHANGED connVars /\ astray' = astray
        /\ online' = [online EXCEPT ![dev[c]] = IF online[dev[c]] = "absent" THEN "on" ELSE online[dev[c]]]
    BY DEF Heartbeat, Serving, Listening, bootVars
  <1>2. dev[c] \in Device /\ (~astray[dev[c]] => online[dev[c]] # "absent")
    BY <1>1 DEF TypeOK, ConnectionsInOrder
  <1>3. \A x \in Device : ~astray[x] => online'[x] = online[x]
    BY <1>1, <1>2 DEF TypeOK
  <1>4. \A x \in Device : online[x] # "absent" => online'[x] # "absent"
    BY <1>1, <1>2 DEF TypeOK
  <1>5. ConnectionsInOrder'
    BY <1>1, <1>4 DEF TypeOK, ConnectionsInOrder, connVars
  <1>6. FlagIsTrue'
    BY <1>1, <1>3 DEF FlagIsTrue, Connected, connVars
  <1> QED
    BY <1>5, <1>6

\* The row a claim inserts says offline, as the missing row did.
LEMMA ClaimPresence ==
    ASSUME TypeOK, ConnectionsInOrder, FlagIsTrue, NEW d \in Device, Claim(d)
    PROVE  ConnectionsInOrder' /\ FlagIsTrue'
  <1>1. /\ online[d] = "absent" /\ online' = [online EXCEPT ![d] = "off"]
        /\ UNCHANGED connVars /\ astray' = astray /\ boot' = boot
    BY DEF Claim, bootVars
  <1>2. /\ \A x \in Device : online'[x] = "on" <=> online[x] = "on"
        /\ \A x \in Device : online[x] # "absent" => online'[x] # "absent"
    BY <1>1 DEF TypeOK
  <1>3. ConnectionsInOrder'
    BY <1>1, <1>2 DEF TypeOK, ConnectionsInOrder, Listening, connVars
  <1>4. FlagIsTrue'
    BY <1>1, <1>2 DEF FlagIsTrue, Connected, Listening, connVars
  <1> QED
    BY <1>3, <1>4

\* The steps of the pages, of the requests and of the hub.
LEMMA RestPresence ==
    ASSUME TypeOK, ConnectionsInOrder, FlagIsTrue, UNCHANGED presenceVars, boot' = boot
    PROVE  ConnectionsInOrder' /\ FlagIsTrue'
  BY QuietPresence DEF Listening

LEMMA PresenceStep ==
    TypeOK /\ ConnectionsInOrder /\ FlagIsTrue /\ [Next]_vars => ConnectionsInOrder' /\ FlagIsTrue'
  <1> SUFFICES ASSUME TypeOK, ConnectionsInOrder, FlagIsTrue, [Next]_vars
               PROVE  ConnectionsInOrder' /\ FlagIsTrue'
    OBVIOUS
  <1>1. ASSUME NEW d \in Device, Disconnect(d) PROVE ConnectionsInOrder' /\ FlagIsTrue'
    <2>1. registered[d] \in Connection /\ Drop(registered[d])
      BY <1>1 DEF TypeOK, Disconnect
    <2> QED
      BY <2>1, DropPresence
  <1>2. ASSUME NEW w, Tell(w) PROVE UNCHANGED presenceVars /\ boot' = boot
    BY <1>2 DEF Tell, presenceVars, bootVars, rowVars
  <1>3. ASSUME NEW p \in Page, NEW v, CreateDriver(p, v) PROVE UNCHANGED presenceVars /\ boot' = boot
    BY <1>3 DEF CreateDriver, presenceVars, bootVars
  <1>4. ASSUME NEW p \in Page, NEW d, NEW v, Assign(p, d, v) PROVE UNCHANGED presenceVars /\ boot' = boot
    BY <1>4 DEF Assign, presenceVars, bootVars
  <1>5. ASSUME NEW p \in Page, Notify(p) \/ Load(p) \/ Browse(p)
        PROVE  UNCHANGED presenceVars /\ boot' = boot
    BY <1>5 DEF Notify, Load, Browse, Alone, presenceVars, bootVars, rowVars
  <1>6. CASE UNCHANGED vars
    BY <1>6, RestPresence DEF vars, presenceVars, bootVars, rowVars
  <1> QED
    BY <1>1, <1>2, <1>3, <1>4, <1>5, <1>6, BootPresence, CrashPresence, EstablishPresence,
       AnnouncePresence, DropPresence, EndPresence, HeartbeatPresence, ClaimPresence, RestPresence DEF Next

-----------------------------------------------------------------------------
(* The theorems. *)

LEMMA InitFleetInv == Init => FleetInv
  <1> SUFFICES ASSUME Init PROVE FleetInv
    OBVIOUS
  <1>1. PICK done \in 0..Migrations :
          /\ recorded = 1..done
          /\ body = [m \in Migration |-> IF m <= done THEN "done" ELSE "none"]
    BY DEF Init
  <1>2. recorded \subseteq Migration /\ \A m \in recorded : body[m] = "done"
    BY <1>1, FleetAssumption DEF Migration
  <1>3. body \in [Migration -> {"none", "part", "done"}]
    BY <1>1
  <1>4. HubTypeOK
    BY DEF Init, HubInit, HubTypeOK
  <1>5. TypeOK
    BY <1>2, <1>3, <1>4 DEF Init, TypeOK
  <1>6. MigrationInHand /\ SchemaIsWhole
    BY <1>2 DEF Init, MigrationInHand, SchemaIsWhole
  <1>7. DriversExist /\ NamesResolve
    BY DEF Init, HubInit, DriversExist, NamesResolve
  <1>8. ConnectionsInOrder /\ FlagIsTrue
    BY DEF Init, ConnectionsInOrder, FlagIsTrue, Listening
  <1> QED
    BY <1>5, <1>6, <1>7, <1>8 DEF FleetInv

LEMMA FleetInvStep == FleetInv /\ [Next]_vars => FleetInv'
  BY TypeStep, SchemaStep, NamesStep, PresenceStep DEF FleetInv

\* Through any starts, stops, connections and requests: the parts hold together.
THEOREM InvariantHolds == Spec => []FleetInv
  BY InitFleetInv, FleetInvStep, PTL DEF Spec

\* The type invariant: nothing the server, the broker or a page does leaves the
\* ranges of the tables.
THEOREM FleetTypeCorrect == Spec => []TypeOK
  <1>1. FleetInv => TypeOK
    BY DEF FleetInv
  <1> QED
    BY <1>1, InvariantHolds, PTL

\* Unless a hook failed or ran out of turn, devices.online says what is connected.
THEOREM FlagStaysTrue == Spec => []FlagIsTrue
  <1>1. FleetInv => FlagIsTrue
    BY DEF FleetInv
  <1> QED
    BY <1>1, InvariantHolds, PTL

\* The server answers on a complete schema only, and records no migration that it
\* did not execute to its end, wherever it is stopped.
THEOREM SchemaStaysWhole == Spec => []SchemaIsWhole
  <1>1. FleetInv => SchemaIsWhole
    BY DEF FleetInv
  <1> QED
    BY <1>1, InvariantHolds, PTL

\* A page finds a name for every driver its devices refer to, whatever is created
\* and assigned between the two reads.
THEOREM NamesAlwaysResolve == Spec => []NamesResolve
  <1>1. FleetInv => NamesResolve
    BY DEF FleetInv
  <1> QED
    BY <1>1, InvariantHolds, PTL
=============================================================================
