------------------------------- MODULE Fleet --------------------------------
(***************************************************************************)
(* The fleet as the server knows it and as its operators see it: start-up  *)
(* (cmd/espmanager/main.go, the migrations of store/sqlite/sqlite.go), the *)
(* connections of the broker with their presence hooks                     *)
(* (internal/mqttbroker), the table devices (internal/device,              *)
(* device_repo.go), the table drivers, and the pages of EventHub.          *)
(*                                                                         *)
(* The broker runs a goroutine per connection: session established, hook,  *)
(* packets, hook. A device that reconnects has two, and nothing orders the *)
(* end of the old one against the start of the new one. A step is one SQL  *)
(* statement; Changed comes after it, in a step of its own.                *)
(***************************************************************************)
EXTENDS EventHub, Integers

CONSTANTS Device, Connection,  \* Connection: goroutines of the broker, used again
          Migrations,          \* how many migrations there are, in order
          None

ASSUME FleetAssumption ==
    /\ Migrations \in Nat
    /\ None \notin Connection \cup Driver
    /\ Connection \cap Page = {}

Migration == 1..Migrations

VARIABLES
    boot,        \* where run() is: up to "clear" nothing serves; listen: broker only; up
    body,        \* of each migration: not executed, executed in part, done
    recorded,    \* the migrations in schema_migrations
    pc,          \* of each connection: free, announce (session established), live
    dev,         \* its device
    stop,        \* its StopCause: no, over (taken over), other
    registered,  \* the connection the broker has for a client id (mochi: Clients)
    online,      \* devices.online, "absent" before there is a row
    driverOf,    \* devices.driver_id
    drivers,     \* the table drivers
    changing,    \* connections and requests whose write is done and Changed is not
    astray       \* history: a hook of the device failed or ran out of turn

bootVars == <<boot, body, recorded>>
connVars == <<pc, dev, stop, registered>>
rowVars == <<online, driverOf, drivers>>
vars == <<hubVars, bootVars, connVars, rowVars, changing, astray>>

Listening == boot \in {"listen", "up"}
Serving == boot = "up"

TypeOK ==
    /\ HubTypeOK
    /\ boot \in {"migrate", "body", "record", "clear", "listen", "up"}
    /\ body \in [Migration -> {"none", "part", "done"}]
    /\ recorded \in SUBSET Migration
    /\ pc \in [Connection -> {"free", "announce", "live"}]
    /\ dev \in [Connection -> Device]
    /\ stop \in [Connection -> {"no", "over", "other"}]
    /\ registered \in [Device -> Connection \cup {None}]
    /\ online \in [Device -> {"absent", "on", "off"}]
    /\ driverOf \in [Device -> Driver \cup {None}]
    /\ drivers \in SUBSET Driver
    /\ changing \in SUBSET (Connection \cup Page)
    /\ astray \in [Device -> BOOLEAN]

-----------------------------------------------------------------------------
(* Start-up. *)

\* MUTANT of Pending: schema_migrations is not asked.
PendingAll == Migration

Pending == Migration \ recorded
IsNext(m) == m \in Pending /\ \A n \in Pending : m <= n

\* A migration is a script of statements that cannot be run twice: after a stop
\* within it, or before its record, every further start fails here.
Torn == boot = "migrate" /\ \E m \in Migration \ recorded : body[m] # "none"

BeginMigration(m) ==
    /\ boot = "migrate"
    /\ IsNext(m)
    /\ body[m] = "none"
    /\ body' = [body EXCEPT ![m] = "part"]
    /\ boot' = "body"
    /\ UNCHANGED <<hubVars, recorded, connVars, rowVars, changing, astray>>

\* MUTANT of FinishMigration: the error of a statement is not returned.
FinishMigrationAnyhow(m) ==
    /\ boot = "body"
    /\ IsNext(m)
    /\ body' \in {body, [body EXCEPT ![m] = "done"]}
    /\ boot' = "record"
    /\ UNCHANGED <<hubVars, recorded, connVars, rowVars, changing, astray>>

FinishMigration(m) ==
    /\ boot = "body"
    /\ IsNext(m)
    /\ body' = [body EXCEPT ![m] = "done"]
    /\ boot' = "record"
    /\ UNCHANGED <<hubVars, recorded, connVars, rowVars, changing, astray>>

RecordMigration(m) ==
    /\ boot = "record"
    /\ IsNext(m)
    /\ recorded' = recorded \cup {m}
    /\ boot' = "migrate"
    /\ UNCHANGED <<hubVars, body, connVars, rowVars, changing, astray>>

Migrated ==
    /\ boot = "migrate"
    /\ Pending = {}
    /\ boot' = "clear"
    /\ UNCHANGED <<hubVars, body, recorded, connVars, rowVars, changing, astray>>

\* MUTANT of ClearPresence: the flags are left as they were.
ClearNothing ==
    /\ boot = "clear"
    /\ boot' = "listen"
    /\ astray' = [d \in Device |-> FALSE]
    /\ UNCHANGED <<hubVars, body, recorded, connVars, rowVars, changing>>

\* No device is connected: ClearPresence, and the broker starts to listen.
ClearPresence ==
    /\ boot = "clear"
    /\ boot' = "listen"
    /\ online' = [d \in Device |-> IF online[d] = "on" THEN "off" ELSE online[d]]
    /\ astray' = [d \in Device |-> FALSE]
    /\ IF online' = online THEN UNCHANGED hubVars ELSE WrittenInSilence(DevicesRead)
    /\ UNCHANGED <<body, recorded, connVars, driverOf, drivers, changing>>

\* subscribeTelemetry, and the HTTP server. What devices publish before is lost.
Serve ==
    /\ boot = "listen"
    /\ boot' = "up"
    /\ UNCHANGED <<hubVars, body, recorded, connVars, rowVars, changing, astray>>

Boot == \/ Migrated \/ ClearPresence \/ Serve
        \/ \E m \in Migration : BeginMigration(m) \/ FinishMigration(m) \/ RecordMigration(m)

\* The process ends, in whatever way: an orderly shutdown closes some of the
\* connections first. Goroutines are gone, tables stay.
Crash ==
    /\ boot' = "migrate"
    /\ pc' = [c \in Connection |-> "free"]
    /\ stop' = [c \in Connection |-> "no"]
    /\ registered' = [d \in Device |-> None]
    /\ changing' = {}
    /\ HubDown(changing # {})
    /\ UNCHANGED <<body, recorded, dev, rowVars, astray>>

-----------------------------------------------------------------------------
(* Connections of devices. *)

\* Does the flag say what is connected, once the hooks have run?
Connected(d) == registered[d] # None /\ pc[registered[d]] = "live"

\* mochi: an authenticated connection takes over the one it finds registered for
\* its client id. The cause of a connection that has ended already stays.
Establish(c, d) ==
    LET old == registered[d] IN
    /\ Listening
    /\ pc[c] = "free"
    /\ c \notin changing
    /\ pc' = [pc EXCEPT ![c] = "announce"]
    /\ dev' = [dev EXCEPT ![c] = d]
    /\ stop' = [e \in Connection |-> IF e = old /\ stop[e] = "no" THEN "over" ELSE stop[e]]
    /\ registered' = [registered EXCEPT ![d] = c]
    /\ UNCHANGED <<hubVars, bootVars, rowVars, changing, astray>>

\* SetPresence for connection c, by itself or by no means (an SQL error is logged
\* and nothing is told). A hook of a connection that is not, or no longer, the one
\* registered writes out of turn.
SetPresence(c, flag, wrong) ==
    LET d == dev[c] IN
    \/ /\ online' = [online EXCEPT ![d] = flag]
       /\ astray' = [astray EXCEPT ![d] = IF registered[d] = c THEN FALSE ELSE wrong]
       /\ changing' = changing \cup {c}
       /\ Written(DevicesRead)
    \/ /\ astray' = [astray EXCEPT ![d] = TRUE]
       /\ UNCHANGED <<hubVars, online, changing>>

\* OnSessionEstablished, also of a connection that was stopped before it.
Announce(c) ==
    /\ pc[c] = "announce"
    /\ pc' = [pc EXCEPT ![c] = "live"]
    /\ SetPresence(c, "on", TRUE)
    /\ UNCHANGED <<bootVars, dev, stop, registered, driverOf, drivers>>

\* The link breaks, the device leaves, its keepalive expires.
Drop(c) ==
    /\ pc[c] # "free"
    /\ stop[c] = "no"
    /\ stop' = [stop EXCEPT ![c] = "other"]
    /\ UNCHANGED <<hubVars, bootVars, pc, dev, registered, rowVars, changing, astray>>

\* Broker.Disconnect, for a revoked device.
Disconnect(d) == registered[d] # None /\ Drop(registered[d])

\* MUTANT of OnDisconnect: it does not ask whether the session was taken over.
OnDisconnectAlways(c) ==
    /\ pc[c] = "live"
    /\ stop[c] # "no"
    /\ c \notin changing
    /\ SetPresence(c, "off", stop[c] = "other")
    /\ pc' = [pc EXCEPT ![c] = "free"]
    /\ stop' = [stop EXCEPT ![c] = "no"]
    /\ registered' = [d \in Device |-> IF registered[d] = c THEN None ELSE registered[d]]
    /\ UNCHANGED <<bootVars, dev, driverOf, drivers>>

\* The client's goroutine ends with OnDisconnect: a session that was taken over is
\* not gone. Then the broker forgets the connection.
OnDisconnect(c) ==
    /\ pc[c] = "live"
    /\ stop[c] # "no"
    /\ c \notin changing
    /\ IF stop[c] = "over" THEN UNCHANGED <<hubVars, online, astray, changing>>
                           ELSE SetPresence(c, "off", TRUE)
    /\ pc' = [pc EXCEPT ![c] = "free"]
    /\ stop' = [stop EXCEPT ![c] = "no"]
    /\ registered' = [d \in Device |-> IF registered[d] = c THEN None ELSE registered[d]]
    /\ UNCHANGED <<bootVars, dev, driverOf, drivers>>

\* MUTANT of Heartbeat: the row it inserts has no value for the flag.
HeartbeatNull(c) ==
    /\ Serving
    /\ pc[c] = "live"
    /\ c \notin changing
    /\ online' = [online EXCEPT ![dev[c]] = IF @ = "absent" THEN "null" ELSE @]
    /\ changing' = changing \cup {c}
    /\ Written(DevicesRead)
    /\ UNCHANGED <<bootVars, connVars, driverOf, drivers, astray>>

\* A heartbeat: RecordHeartbeat sets no flag but that of a device without a row.
Heartbeat(c) ==
    /\ Serving
    /\ pc[c] = "live"
    /\ c \notin changing
    /\ online' = [online EXCEPT ![dev[c]] = IF @ = "absent" THEN "on" ELSE @]
    /\ changing' = changing \cup {c}
    /\ Written(DevicesRead)
    /\ UNCHANGED <<bootVars, connVars, driverOf, drivers, astray>>

Tell(w) ==
    /\ w \in changing
    /\ changing' = changing \ {w}
    /\ Changed
    /\ UNCHANGED <<bootVars, connVars, rowVars, astray>>

\* The device claims its credentials (Enrollment): the transaction also inserts a
\* row, unless there is one, and nobody is told. A device is authenticated by its
\* credentials alone: that a row exists is not asked before it connects.
Claim(d) ==
    /\ Serving
    /\ online[d] = "absent"
    /\ online' = [online EXCEPT ![d] = "off"]
    /\ WrittenInSilence(DevicesRead)
    /\ UNCHANGED <<bootVars, connVars, driverOf, drivers, changing, astray>>

-----------------------------------------------------------------------------
(* Requests of the pages. *)

\* MUTANT of Assign: Exists is not asked.
AssignAny(p, d, v) ==
    /\ Serving /\ signedIn[p] /\ p \notin changing
    /\ online[d] # "absent"
    /\ driverOf' = [driverOf EXCEPT ![d] = v]
    /\ changing' = changing \cup {p}
    /\ Written(DevicesRead)
    /\ UNCHANGED <<bootVars, connVars, online, drivers, astray>>

\* PUT /api/devices/{id}/driver. A driver that exists is never deleted, so that
\* the check and the update may be one step.
Assign(p, d, v) ==
    /\ Serving /\ signedIn[p] /\ p \notin changing
    /\ v \in drivers \cup {None}
    /\ online[d] # "absent"
    /\ driverOf' = [driverOf EXCEPT ![d] = v]
    /\ changing' = changing \cup {p}
    /\ Written(DevicesRead)
    /\ UNCHANGED <<bootVars, connVars, online, drivers, astray>>

\* POST /api/drivers: nobody is told.
CreateDriver(p, v) ==
    /\ Serving /\ signedIn[p] /\ p \notin changing
    /\ v \notin drivers
    /\ drivers' = drivers \cup {v}
    /\ WrittenInSilence(DriversRead)
    /\ UNCHANGED <<bootVars, connVars, online, driverOf, changing, astray>>

AssignedDrivers == {driverOf[d] : d \in Device} \ {None}

\* Steps of a page that leave the rest of the system alone: those that come by
\* themselves, and what the network and the person in front of it may do.
Alone == UNCHANGED <<bootVars, connVars, rowVars, changing, astray>>

Notify(p) == Serving /\ Deliver(p) /\ Alone

Load(p) ==
    /\ \/ Fire(p)
       \/ Serving /\ \/ Authorize(p) \/ Unauthorized(p)
                     \/ ReadDevices(p, AssignedDrivers) \/ ReadDrivers(p, drivers) \/ Reply(p)
       \/ ~Serving /\ FetchFails(p)
    /\ Alone

Browse(p) ==
    /\ \/ Cut(p) \/ Refetch(p) \/ FetchFails(p) \/ SignOut(p)
       \/ Serving /\ (Subscribe(p) \/ SignIn(p))
    /\ Alone

-----------------------------------------------------------------------------
\* Of an older server there may be the first migrations.
Init ==
    /\ HubInit
    /\ boot = "migrate"
    /\ \E done \in 0..Migrations :
          /\ recorded = 1..done
          /\ body = [m \in Migration |-> IF m <= done THEN "done" ELSE "none"]
    /\ pc = [c \in Connection |-> "free"]
    /\ dev \in [Connection -> Device]
    /\ stop = [c \in Connection |-> "no"]
    /\ registered = [d \in Device |-> None]
    /\ online = [d \in Device |-> "absent"]
    /\ driverOf = [d \in Device |-> None]
    /\ drivers = {}
    /\ changing = {}
    /\ astray = [d \in Device |-> FALSE]

Next ==
    \/ Boot \/ Crash
    \/ \E c \in Connection : \/ \E d \in Device : Establish(c, d)
                             \/ Announce(c) \/ Drop(c) \/ OnDisconnect(c) \/ Heartbeat(c)
    \/ \E d \in Device : Disconnect(d) \/ Claim(d)
    \/ \E w \in Connection \cup Page : Tell(w)
    \/ \E p \in Page :
          \/ \E v \in Driver : CreateDriver(p, v)
          \/ \E d \in Device, v \in Driver \cup {None} : Assign(p, d, v)
          \/ Notify(p) \/ Load(p) \/ Browse(p)

Spec == Init /\ [][Next]_vars

\* Goroutines are scheduled and the server is started again; browsers run timers,
\* receive what arrives, and give up requests that nobody answers.
Fairness ==
    /\ WF_vars(Boot)
    /\ WF_vars(\E w \in Connection \cup Page : Tell(w))
    /\ \A p \in Page : WF_vars(Notify(p) \/ Load(p))

FairSpec == Spec /\ Fairness

-----------------------------------------------------------------------------
(* Safety *)

\* The flag of a device says whether the connection the broker has registered is
\* between its hooks, unless a hook's statement failed or a hook of another
\* connection wrote out of turn. Reconnections, take-overs, kicks, stops of the
\* server and heartbeats do not make it wrong.
FlagIsTrue ==
    \A d \in Device :
        /\ Listening /\ ~astray[d]
        /\ registered[d] # None => pc[registered[d]] # "announce"
        => (online[d] = "on" <=> Connected(d))

\* Nothing answers before the schema is complete, and what schema_migrations
\* lists was executed to its end.
SchemaIsWhole ==
    /\ \A m \in recorded : body[m] = "done"
    /\ boot \in {"clear", "listen", "up"} => recorded = Migration

\* A page that gets its rows finds a name for the driver of every device, although
\* devices are assigned and drivers created between the two statements.
NamesResolve == \A p \in Page : fetch[p] = "drivers" => unnamed[p] = {}

-----------------------------------------------------------------------------
(* The invariants that they need to be proved. *)

\* The migration that is about to be recorded has been executed.
MigrationInHand == boot = "record" => \A m \in Migration : IsNext(m) => body[m] = "done"

\* Every driver a device or a page refers to exists, or the page has yet to look.
DriversExist ==
    /\ \A d \in Device : driverOf[d] # None => driverOf[d] \in drivers
    /\ \A p \in Page : fetch[p] = "devices" => unnamed[p] \subseteq drivers

\* A registered connection is the device's, and was not taken over; one that is free
\* waits for nothing; a connection whose hook has run has left a row behind.
ConnectionsInOrder ==
    /\ \A d \in Device :
          registered[d] # None =>
              /\ Listening
              /\ pc[registered[d]] # "free"
              /\ dev[registered[d]] = d
              /\ stop[registered[d]] # "over"
    /\ \A c \in Connection :
          /\ pc[c] = "free" => stop[c] = "no"
          /\ pc[c] # "free" => Listening
          /\ pc[c] = "live" /\ ~astray[dev[c]] => online[dev[c]] # "absent"

FleetInv ==
    /\ TypeOK
    /\ MigrationInHand /\ SchemaIsWhole
    /\ DriversExist /\ NamesResolve
    /\ ConnectionsInOrder /\ FlagIsTrue

-----------------------------------------------------------------------------
(* Liveness *)

\* Ticks may keep restarting the timer, and a user may keep reloading. Otherwise a
\* page that lacks a write, and has lost no notification, shows it in
\* the end (or the login screen), wherever its own request was when the write was made.
PagesCatchUp ==
    \A p \in Page :
        \/ []<><<Notify(p) \/ (Refetch(p) /\ Alone) \/ Crash>>_vars
        \/ view[p] = "behind" ~> view[p] # "behind" \/ ~signedIn[p]

\* The server comes up whenever it is left alone, unless a migration is torn.
ServerComesUp == []<><<Crash>>_vars \/ <>Torn \/ <>[]Serving
=============================================================================
