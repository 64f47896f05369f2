------------------------------ MODULE EventHub ------------------------------
(***************************************************************************)
(* The event hub (internal/httpapi/sse.go), the sessions that guard it     *)
(* (auth.go), and the browser pages behind it (web/src): every write of the*)
(* server ends in SSEHub.Changed, a tick makes a page refetch its rows, and*)
(* a refetch is a request of several statements that writes overtake.      *)
(*                                                                         *)
(* What rows contain is left out. Of the rows a page shows it matters      *)
(* whether they lack a write, and whether something on its way to the page *)
(* (the writer's Changed, a tick, the timer, a refetch) will tell it.      *)
(*                                                                         *)
(* The module has the state of the hub and its pages and the steps they    *)
(* take; which of them a server that is starting or stopped can take, and  *)
(* what is written when, is for the module that composes it.               *)
(***************************************************************************)

CONSTANTS Page,    \* browsers: one cookie, one EventSource, one query cache each
          Driver   \* ids of drivers

VARIABLES
    signedIn,   \* the browser's session is valid and the page is not the login screen
    stream,     \* its EventSource: closed, open, or open with a tick under way
    timer,      \* the debounce timer of useEvents is running
    fetch,      \* the request GET /api/devices: how far the server is with it
    overtaken,  \* the rows the request has read lack a write by now
    unnamed,    \* drivers of the devices it has read, until it finds their names
    view        \* current, behind (and to be told), untold (history: a tick was lost)

hubVars == <<signedIn, stream, timer, fetch, overtaken, unnamed, view>>

\* Phases in which a request has read the table devices, and the table drivers.
DevicesRead == {"devices", "drivers"}
DriversRead == {"drivers"}

\* What is shown, once a notification of the page has gone missing.
Untold(v) == IF v = "behind" THEN "untold" ELSE v

HubTypeOK ==
    /\ signedIn \in [Page -> BOOLEAN]
    /\ stream \in [Page -> {"closed", "open", "tick"}]
    /\ timer \in [Page -> BOOLEAN]
    /\ fetch \in [Page -> {"none", "sent", "granted"} \cup DevicesRead]
    /\ overtaken \in [Page -> BOOLEAN]
    /\ unnamed \in [Page -> SUBSET Driver]
    /\ view \in [Page -> {"current", "behind", "untold"}]

HubInit ==
    /\ signedIn = [p \in Page |-> FALSE]
    /\ stream = [p \in Page |-> "closed"]
    /\ timer = [p \in Page |-> FALSE]
    /\ fetch = [p \in Page |-> "none"]
    /\ overtaken = [p \in Page |-> FALSE]
    /\ unnamed = [p \in Page |-> {}]
    /\ view = [p \in Page |-> "untold"]

-----------------------------------------------------------------------------
(* What the services do to the hub. *)

\* A write to a table that requests in one of the given phases have read.
Written(phases) ==
    /\ overtaken' = [p \in Page |-> overtaken[p] \/ fetch[p] \in phases]
    /\ view' = [p \in Page |-> IF view[p] = "current" THEN "behind" ELSE view[p]]
    /\ UNCHANGED <<signedIn, stream, timer, fetch, unnamed>>

\* The same by a service that does not call Changed.
WrittenInSilence(phases) ==
    /\ overtaken' = [p \in Page |-> overtaken[p] \/ fetch[p] \in phases]
    /\ view' = [p \in Page |-> "untold"]
    /\ UNCHANGED <<signedIn, stream, timer, fetch, unnamed>>

\* SSEHub.Changed: a tick for every subscriber that has none in its channel.
Changed ==
    /\ stream' = [p \in Page |-> IF stream[p] = "open" THEN "tick" ELSE stream[p]]
    /\ view' = [p \in Page |-> IF stream[p] = "closed" THEN Untold(view[p]) ELSE view[p]]
    /\ UNCHANGED <<signedIn, timer, fetch, overtaken, unnamed>>

\* The server stops: streams are cut and requests break, to be tried again. What
\* was written without Changed having been called (silent) is never announced.
HubDown(silent) ==
    /\ stream' = [p \in Page |-> "closed"]
    /\ fetch' = [p \in Page |-> IF fetch[p] = "none" THEN "none" ELSE "sent"]
    /\ overtaken' = [p \in Page |-> FALSE]
    /\ unnamed' = [p \in Page |-> {}]
    /\ view' = [p \in Page |-> IF silent \/ stream[p] = "tick" THEN Untold(view[p]) ELSE view[p]]
    /\ UNCHANGED <<signedIn, timer>>

-----------------------------------------------------------------------------
(* The stream: Handler of the hub, EventSource and timer of useEvents. *)

\* The request for the stream passes requireAPI and gets a channel. A page that
\* reconnects does not refetch for that.
Subscribe(p) ==
    /\ signedIn[p]
    /\ stream[p] = "closed"
    /\ stream' = [stream EXCEPT ![p] = "open"]
    /\ UNCHANGED <<signedIn, timer, fetch, overtaken, unnamed, view>>

\* The stream breaks: its channel is removed, with the tick in it.
Cut(p) ==
    /\ stream[p] # "closed"
    /\ stream' = [stream EXCEPT ![p] = "closed"]
    /\ view' = [view EXCEPT ![p] = IF stream[p] = "tick" THEN Untold(@) ELSE @]
    /\ UNCHANGED <<signedIn, timer, fetch, overtaken, unnamed>>

\* MUTANT of Deliver: a tick is ignored while a refetch is under way.
DeliverUnlessBusy(p) ==
    /\ stream[p] = "tick"
    /\ stream' = [stream EXCEPT ![p] = "open"]
    /\ timer' = [timer EXCEPT ![p] = @ \/ fetch[p] = "none"]
    /\ UNCHANGED <<signedIn, fetch, overtaken, unnamed, view>>

\* The handler takes the tick out of the channel and writes it, and onmessage
\* starts the timer anew. Ticks are alike: one that waits on the wire while the
\* channel fills again does no more than one that waits in the channel.
Deliver(p) ==
    /\ stream[p] = "tick"
    /\ stream' = [stream EXCEPT ![p] = "open"]
    /\ timer' = [timer EXCEPT ![p] = TRUE]
    /\ UNCHANGED <<signedIn, fetch, overtaken, unnamed, view>>

\* A request is sent; the one under way, if there is one, is given up.
Send(p) ==
    /\ fetch' = [fetch EXCEPT ![p] = "sent"]
    /\ overtaken' = [overtaken EXCEPT ![p] = FALSE]
    /\ unnamed' = [unnamed EXCEPT ![p] = {}]
    /\ UNCHANGED <<signedIn, stream, view>>

\* The timer runs out: invalidateQueries.
Fire(p) ==
    /\ timer[p]
    /\ timer' = [timer EXCEPT ![p] = FALSE]
    /\ Send(p)

\* The page is opened, or invalidates its rows after a mutation of its own.
Refetch(p) ==
    /\ signedIn[p]
    /\ Send(p)
    /\ UNCHANGED timer

-----------------------------------------------------------------------------
(* The request, one statement at a time: requireAPI, devices, drivers. *)

EndFetch(p) ==
    /\ fetch' = [fetch EXCEPT ![p] = "none"]
    /\ overtaken' = [overtaken EXCEPT ![p] = FALSE]
    /\ unnamed' = [unnamed EXCEPT ![p] = {}]

Authorize(p) ==
    /\ fetch[p] = "sent"
    /\ signedIn[p]
    /\ fetch' = [fetch EXCEPT ![p] = "granted"]
    /\ UNCHANGED <<signedIn, stream, timer, overtaken, unnamed, view>>

\* drivers: those that the table devices refers to.
ReadDevices(p, drivers) ==
    /\ fetch[p] = "granted"
    /\ fetch' = [fetch EXCEPT ![p] = "devices"]
    /\ unnamed' = [unnamed EXCEPT ![p] = drivers]
    /\ UNCHANGED <<signedIn, stream, timer, overtaken, view>>

\* drivers: those in the table drivers.
ReadDrivers(p, drivers) ==
    /\ fetch[p] = "devices"
    /\ fetch' = [fetch EXCEPT ![p] = "drivers"]
    /\ unnamed' = [unnamed EXCEPT ![p] = @ \ drivers]
    /\ UNCHANGED <<signedIn, stream, timer, overtaken, view>>

\* The page shows what was read, be it overtaken or not.
Reply(p) ==
    /\ fetch[p] = "drivers"
    /\ view' = [view EXCEPT ![p] = IF overtaken[p] THEN @ ELSE "current"]
    /\ EndFetch(p)
    /\ UNCHANGED <<signedIn, stream, timer>>

\* A statement or the connection fails and so do the retries: old rows stay.
FetchFails(p) ==
    /\ fetch[p] # "none"
    /\ view' = [view EXCEPT ![p] = Untold(@)]
    /\ EndFetch(p)
    /\ UNCHANGED <<signedIn, stream, timer>>

-----------------------------------------------------------------------------
(* Sessions. *)

\* The row of the session is inserted, or GET /api/session finds one still valid.
SignIn(p) ==
    /\ ~signedIn[p]
    /\ signedIn' = [signedIn EXCEPT ![p] = TRUE]
    /\ UNCHANGED <<stream, timer, fetch, overtaken, unnamed, view>>

\* The login screen replaces the page: useEvents closes stream and timer.
Leave(p) ==
    /\ signedIn' = [signedIn EXCEPT ![p] = FALSE]
    /\ stream' = [stream EXCEPT ![p] = "closed"]
    /\ timer' = [timer EXCEPT ![p] = FALSE]
    /\ view' = [view EXCEPT ![p] = Untold(@)]
    /\ EndFetch(p)

SignOut(p) == signedIn[p] /\ Leave(p)

\* The session has expired, which nothing looks at before the next request:
\* requireAPI answers 401 and the page signs out by itself.
Unauthorized(p) == fetch[p] = "sent" /\ Leave(p)
=============================================================================
