# Formal models of espmanager

espmanager is a small fleet manager for ESP32 devices: a Go server with an embedded MQTT broker and a SQLite
database, a builder and a signer beside it, clients for ESP-IDF and Arduino, and a browser UI. This directory holds
TLA+ models of its core logic, the TLC configurations that check them, and theorems about them proved with TLAPS.

    tlc -workers 2 -config DeployCore.cfg MCDeployService     # model-check one run
    tlapm DeployService_proofs.tla                            # check proofs

## The system

| Part | State | Operations | Talks to |
|---|---|---|---|
| deploy service (`internal/deploy`, `store/sqlite/deploy_repo.go`) | tables `deploys`, `deploy_targets` | Rollout, Reconcile, OnStatus, Resume, Cancel | broker (publish), artifacts, devices |
| ESP-IDF client (`client/esp-idf`) | two flash partitions, NVS, RAM of three tasks | commands, download, confirm, roll-back, claim, credential rotation, serial provisioning | broker, server HTTP |
| Arduino client (`client/arduino`) | the same, in one loop | the same, sequentially | broker, server HTTP |
| enrollment (`internal/enroll`, `enroll_repo.go`) | claim tokens, credential hash and pending hash | mint, Claim, Rotate, Revoke, Authenticate | broker (auth, disconnect) |
| broker (`internal/mqttbroker`) | sessions of connected clients | auth, ACL, publish, presence hooks | devices, enrollment |
| devices (`internal/device`, `device_repo.go`) | table `devices` with presence and heartbeat | Connected, Disconnected, Heartbeat, Assign, ClearPresence | event hub |
| artifacts (`internal/artifact`, `artifact_repo.go`, signer) | table `firmware_artifacts`, firmware files, sequence counter | Store, Get, serve | signer, deploy |
| build queue and worker (`internal/queue`, `internal/build`, `internal/webhook`) | a leased job queue in SQLite | enqueue, receive, complete, build, upload | artifacts |
| event hub (`httpapi/sse.go`) | subscriber channels | Changed, subscribe, stream | services, UI |
| sessions, login (`httpapi/auth.go`, `session_repo.go`) | table `sessions` | login, authenticate, logout | UI |
| drivers (`internal/driver`, `driver_repo.go`) | table `drivers` | Create, List, Exists (no update, no deletion) | devices, UI |
| start-up and migrations (`cmd/espmanager/main.go`, `store/sqlite/sqlite.go`) | `schema_migrations`, the schema | migrate, clear presence, listen, serve, shut down | all |
| UI (`web/src`) | React state, the serial wizard | calls of the API, provisioning over serial | server, client |

What is hard about it: the deploy tables are written by four kinds of goroutine that hold copies of what they read;
commands and reports cross a network that loses, repeats and delays them; a client's update is spread over two
boots with a power cut possible between any two writes; credentials are rotated while a device may be offline; the
connection of a device and the one that replaces it overlap; a page puts together, from several statements, rows that
are written meanwhile, and learns of the writes by ticks that are merged, delayed by a timer, or lost.

What makes each part correct:

- deploy service: no device outside the canary is commanded before the canary settled well; outcomes are final;
  pauses and completions are true of the tables; reports touch only the deploy they are about; every deploy is
  decided in the end.
- clients: there is always a confirmed image to go back to; `ok` is true; an accepted command is answered; no
  downgrade.
- enrollment: a device that has proved a credential is not locked out by a rotation; a revoked one is.
- devices: what is shown as online is, once things settle, what is connected.
- artifacts: what is rolled out is signed, whole and stays so; no two images share a signed sequence.
- build queue: a completed job was published; a failed one is handed out again.
- event hub: a page that has lost no notification shows every write in the end.
- start-up: nothing answers on half a schema, and a server that is left alone comes up.

## Modules

| Module | Models |
|---|---|
| `DeployService` | `internal/deploy/service.go` over `deploy_repo.go`: one step per SQL statement or publish |
| `DeployServiceInv` | its inductive invariant, in named parts, and the refinement mapping |
| `StagedRollout` | the abstract specification: what the deploy service promises |
| `MCDeployService` | the sequences used as instances |
| `DeployService_proofs`, `DeployStaged_proofs` | theorems about the deploy service; that it implements `StagedRollout` |
| `OtaClient` | the update half of `espmanager_client.c`: bootloader, start-up, MQTT task, ota_task, confirm_task |
| `OtaClient_proofs` | theorems about it |
| `Enrollment` | `internal/enroll` over `enroll_repo.go`, the handlers of `httpapi/enroll.go`, the broker's authentication and sessions, and the client's side of claiming and rotation |
| `Enrollment_proofs` | theorems about it |
| `BuildPipeline` | webhook, queue, builder, `artifact.Service.Store` over `artifact_repo.go`, the start of a rollout |
| `MCBuildPipeline` | its symmetry |
| `BuildPipeline_proofs` | theorems about it |
| `DeployPages` | over `DeployService`: the requests of the deploy pages and what they show of a decided deploy |
| `MCDeployPages` | the sequences used as instances |
| `DeployPages_proofs` | theorems about it |
| `EventHub` | the hub, the sessions that guard it, the browser pages behind it and their request for the devices |
| `Fleet` | start-up and migrations, the broker's connections and presence hooks, the tables `devices` and `drivers`, composed with `EventHub` |
| `Fleet_proofs` | theorems about it |
| `ArduinoClient` | the update half of `EspManagerClient.cpp`: begin, loop, connection, reports, updates |
| `ArduinoClient_proofs` | theorems about it |

Definitions carry the names of the functions they model. Definitions introduced by a comment `MUTANT of X` are
faulty variants of `X`, used to show that a property notices the fault; nothing else refers to them.

### DeployService

`deployState`, `status` and `age` are the tables (`age` is `updated_at` seen from now, in the three ranges the code
compares with: younger than `resendGracePeriod`, older than `TargetTimeout`, between). `rolloutPc`, `addNext` and
`rolloutTodo` are the locals of each `Rollout`; `recPc`, `recQueue`, `snap`, `recLost`, `recResend` and `recTodo`
those of the reconcile loop; `reqPc` and `reqDeploy` those of the HTTP handlers; `onStatus` that of the two-statement
path of `OnStatus`. `sent` and `cleared` are history: what was published to whom, and whether the stored canary batch
was ever settled within the threshold.

Assumptions: deploys are numbered by `created_at` and devices by the order in which `IDsForDriver` lists them, the
same fleet for each deploy; statements are atomic because the pool holds one connection; a report with a sequence
comes from a device that was sent that command. An error of a statement or of a publish, and a crash of the server,
count against `MaxFaults`.

The verdicts (`PausesAreExplained`, `CompletionsAreSettled`) are stated for passes whose snapshot missed no row:
`Rollout` inserts the deploy row before the targets, and a pass in between judges what is there. What it then writes
is what the code does, and no document says otherwise; it is listed as a hazard.

### OtaClient

`app`, `other`, `unverified` and `swap` are the flash as the bootloader sees it; `nvsPend`, `nvsFloor`, `nvsFailed`
are in NVS; everything else is RAM and lost by `Reset`. `proven`, `rolledBack`, `reportedOk` and `owed` are history.
An image is its sequence. Downloads, verification, `set_boot`, `mark_valid` and the confirmation deadline succeed or
fail freely; commands arrive in any order and as often as the server likes; `OutsideReset` is power, a panic or the
restart after a credential rotation. NVS writes are assumed to succeed (the code ignores their errors; the mutant
`StorePendingUnsaved` shows what that assumption carries). `BookkeepingIsOver` is a timing assumption: the last three
NVS writes of confirm_task, the task of higher priority, are over before a download that began after it released the
slot.

### Enrollment

`tokenState`, `tokenFor` and `enrolled` are the claim tokens (the last is history); `hash` and `pending` are the row of
`device_credentials`. A handler of the HTTP API has its place and its locals (`pc`, `dev`, `tok`, `secret`); a
connection of the broker has `connPc` and what it read (`snapHash`, `snapPending`), because `Authenticate` reads,
compares for a long time (bcrypt) and then promotes. Of the client there are `pass`, `oldPass` and the state of its
link. A handler whose statement fails goes no further. Secrets are numbers, drawn once each. `Revoke` and the
expiry of tokens, restarts of the server, lost replies, connections taken over and the clearing of an enrolled device's
credentials over serial (`Reprovision`) are all steps, free to happen at any time; `faults` counts failing statements
only. The row that `Claim` inserts into `devices` in its transaction is a step of `Fleet`: nothing here reads it.

### BuildPipeline

`jobState`, `received` and `leased` are goqite's rows; `version` is what `git describe` says of a job's commit, and may
be the version of an earlier job. `workerPc` and `work` are the builders, `handlerPc`, `serves`, `up`, `upVersion` and
`sequence` the uploads the server is handling: an upload goes on when its builder has stopped waiting, but with a
cancelled context. `row`, `file` and `counter` are table, directory and `artifact_sequence`; `signed` and `released`
are history. An image is named after the delivery of the job it was built in, so that no two builds are taken to be
equal. A stop of the server keeps what is in table and directory: loss of written file contents (there is no fsync) is
not modelled.

### DeployPages

`pageState` is what a request has read from the row of a deploy, in any state, before it reads the targets; the view is
then computed from both (`Explained`, `PauseInfo`: `countTargets` and the pause of `deploys.go`). The service takes all
its steps in between. `hasty` and `retried` are history, of the verdict that is stored and of one that a page still
shows: it was given over rows that were not all there, or a Resume has taken back the failures it was about. Negative thresholds, which nothing refuses, are not instantiated.

### EventHub and Fleet

`EventHub` has the state of a browser (`signedIn`, `stream`, `timer`, and the request `fetch` with what it has read) and
the steps on it; `Fleet` says when the server lets them happen and what is written when. `view` is what the
page shows, against the tables: `current`, `behind` by a write it is still to be told of, or `untold`, once a
notification has gone missing. A tick in the channel and one on the wire are one state, because ticks are all alike. A
write and `Changed` after it are two steps (`changing` says who is between them), and `Changed` may come after the next
write, or never, if the server stops.

In `Fleet`, `boot`, `body` and `recorded` are the start-up: a migration is begun, finished and recorded in three steps,
and a stop at any of them keeps what the database has. `pc`, `dev`, `stop` and `registered` are the broker: the session
of a connection is established, and registered for its client id, before its hook runs, and an older connection of that
device is marked as taken over (`stop`) whether it has noticed or not; its own last hook may come at any time later.
`online` and `driverOf` are the columns of `devices`. A row is inserted by `Claim`, in silence, or by the first hook
or heartbeat; that a device has been claimed is not asked when it connects, since authentication looks at
credentials only. `astray` is history: a hook's statement failed, or a hook ran for a
connection that was not the registered one. What is merged: an orderly shutdown is some connections dropped and then a
stop; the take-over and the registration of the new connection are one step, both inside mochi; `Exists` and the
update of `Assign` are one step, because drivers are never deleted; a logout whose request fails is signing out and in
again; that a session has expired is found out by the next request, as in `requireAPI`. A heartbeat that arrives before
`subscribeTelemetry` is lost, as in the code. A request that the stop of the server breaks is sent again by the page.

### ArduinoClient

`app` and `bootApp` are the partitions; `nvsTarget`, `nvsPend`, `nvsFloor` the three keys in NVS; `target`, `pend`, `floor`,
`status`, `seq` the members of the object; `pc` where `loop()` is, with a step for each NVS write. `reported`, `owed`,
`raced` and `torn` are history. An image is its sequence, and a command names the version of its image;
`Mislabelled` images carry another version than their command says (`cfg.firmwareVersion` is a constant of the sketch).
As there, NVS writes succeed (the mutant `StorePendUnsaved` shows what that carries).

## Runs

| Run | Instance | Shows |
|---|---|---|
| `deploy_core` | 1 deploy, 3 devices of which 2 canaries, threshold 50 %, 1 operator, 1 fault | `CanaryGate`, `OutcomesAreFinal`, `PausesAreExplained`, `CompletionsAreSettled`, and that `IInv` is an invariant |
| `deploy_live` | 1 deploy with its pages, 2 devices (one without sequences), threshold 0, 1 operator, 1 fault | `CompletedPagesAreSettled`, `PausedPagesAreExplained`, `DeploysAreDecided`, and the refinement of `StagedRollout` |
| `deploy_overlap` | 2 deploys whose sequences are in the opposite order, 2 devices | `ReportsMatchCommands` |
| `deploy_cancel` | 1 deploy, 2 devices, 1 operator | violation: a cancelled deploy still sends |
| `ota_client` | 3 sequences, 2 resets | `RollbackImageKept`, `OkIsTrue`, `OneInFlight`, `ClientInv`; without a reset `EveryCommandAnswered` |
| `ota_rollback_report` | 2 sequences, 1 reset | violation: a power cut between two writes, and an image that never ran, or one that is confirmed and running, is reported rolled back |
| `enroll_tokens` | 2 devices, 2 tokens, 2 handlers, any number of restarts | `TokensBuyOneEnrollment` |
| `enroll_rotate` | 1 device, 1 rotation, 2 connections, 1 failing statement, any number of restarts and set-ups | `NeverLockedOut`, `CurrentStaysUntilProved`, `DeviceComesBack` |
| `enroll_promote` | 1 device, 2 rotations, 2 connections | violation: a rotation promoted that nobody has used |
| `build_pipeline` | 2 jobs, each handed out twice, 2 builders, 2 uploads, 1 fault | `ReleasesAreWhole`, `SequencesAreSpentOnce`, `DoneIsPublished` |
| `live_fleet` | 1 device, 2 connections, 1 page, 1 driver, 2 migrations, any number of stops | `FlagIsTrue`, `SchemaIsWhole`, `NamesResolve`, `FleetInv`, `PagesCatchUp`, `ServerComesUp` |
| `arduino_client` | 4 sequences, the image of one mislabelled, any number of resets and broken links | `ReportsAreTrue`, `NoDowngrade`, `SketchInv`, `CommandsAreAnswered` |

Each run but those that show a violation has its module's type invariant too.

Bounds. Three devices with 34 % give two canaries (the round-up matters) and one other, and a threshold of 50 %
separates one failure from two. Two devices with 50 % and threshold 0 are the smallest fleet with both batches; it is
used where two deploys or liveness make the state space larger. One fault is enough to put an error, or a crash, at
every step. Three sequences let a command be below, at and above the floor while another is quarantined; two resets
let a second one hit the recovery from the first. Two tokens and two handlers let claims race for one token and for one
device; two connections let a slow authentication overlap its successor. Two jobs handed out twice give up to four
uploads, two of them at once, of the same version or of different ones; builders are interchangeable, and so are
uploads, so `build_pipeline` uses their symmetry. Two connections of a device are what its flag can be wrong about: the one it
has and the one that lingers (the proof is for any number, and the invariants were checked once, by hand, with two devices: 9.4
million states). Pages have nothing to do with each other; one driver is enough for a device to be assigned
before, after or between the reads of a request. Two migrations let one be complete and the other torn. Four sequences
give the Arduino client a running image, one that waits for its report, one that replaces it and one below. Neither of
these two runs bounds stops, resets or repetitions. `CHECK_DEADLOCK FALSE` stands where the system may stop: when every
deploy is decided, every job done or every number of the instance used up.

Fairness. `DeployService`: goroutines are scheduled by the Go runtime, the ticker ticks and time passes; nothing is
assumed of operators, devices or the network. `OtaClient`: FreeRTOS schedules the tasks, and esp-mqtt retries its
connection for ever; that a download or a confirmation succeeds is not assumed. `Enrollment`: the broker works on its
connections, the client on what it receives, and esp-mqtt reconnects for ever; connections need not be cut, rotations
need not come. `BuildPipeline` has no liveness property. `Fleet`: whoever supervises the server starts it again, a
goroutine that has written calls `Changed`, and each browser runs its timer, receives what arrives and goes on with its
request; connections, operators and the network are free. Pages have a fairness condition for reading and loading
together, so that a page whose ticks keep coming need not load. `ArduinoClient`: the sketch calls `loop()`; nothing is
assumed of the connection or of downloads.

Conditions. `NeverLockedOut` and `DeviceComesBack` are stated as long as no statement of the server has failed, the latter
also for servers that do not restart for ever and devices that keep their credentials; `DoneIsPublished` as long as no
fault has happened, `EveryCommandAnswered` as long as no reset has. `FlagIsTrue` leaves out a device whose last hook failed or ran out of
turn (`astray`) and one whose hook is under way. `PagesCatchUp` leaves out pages that were not told (`untold`), and those whose timer or
request is restarted for ever; `ServerComesUp` leaves out a torn migration and endless stops. `PausedPagesAreExplained`
and `CompletedPagesAreSettled` leave out verdicts over incomplete rows (`hasty`), the former also a deploy being resumed (`retried`).
`ReportsAreTrue` and `NoDowngrade` leave out what follows a command that is handled before the last update was reported
(`raced`), the latter also a reset between the switch of the partition and its record (`torn`); `CommandsAreAnswered`
leaves out connections that never stay, a command that comes over and over, and resets. Below, under *Known and not
claimed*, is what happens otherwise.

## What is proved

For every fleet, options, number of deploys and handlers, faults and crashes (`DeployService_proofs`):

- `TypeCorrect`.
- `ReportsAreMatched`: `ReportsMatchCommands`, by `PublishedInv`: what is triggered, or sent again, was published, and
  only a deploy with a signed sequence publishes (`CommandsArePublished`). No assumption on operators.
- `StagedRolloutIsSafe`: `CanaryGate`, by `RolloutInv`. The property says what a canary is and when it has cleared
  (`InCanary`, `CanaryCleared`) by what percentage and threshold mean; that the rounded and clamped count of `Rollout`
  and the products of `failureExceeded` come to the same are the lemmas `CanaryIsBatch0` and `CanaryClearedIsCleared`.
  The gate alone is not inductive: the reconcile loop promotes
  from `snap`, not from the table, so the proof needs that what the snapshot holds as settled is settled in the table
  (`RecSnapshot`), that rows the snapshot missed lie after the ones it has (`RolloutLocals`, because targets are
  inserted canary first), and that the loop holds no paused deploy (`QueuedAreNotPaused`).
- `PausesAreTrue` and `CompletionsAreTrue`: `PausesAreExplained` and `CompletionsAreSettled`, from `RecSnapshot` and
  what a pass may write (`VerdictWrites`).
- `InvariantHolds`: the invariant `IInv`, all the parts together, and `OutcomesStay`: `OutcomesAreFinal`, which also
  says that only a paused deploy has outcomes taken back.
- `StagedRefinement` (`DeployStaged_proofs`): the service implements `StagedRollout`, action by action.

For its pages (`DeployPages_proofs`): `CompletedPagesAgree` (`CompletedPagesAreSettled`) and `PausedPagesAgree`
(`PausedPagesAreExplained`), by `PagesInv`. A page reads the state of a deploy and, later, its targets, and nothing
holds the tables still in between. So the invariant says what the tables owe to a verdict, be it stored or only shown
still: the deploy has all its rows and the loop knows them (`RowsAreThere`); of a completed one the batches stay settled
within the threshold and it is never paused again (`CompletedIsKept`), although a Resume that was overtaken may set it
in progress once more, because the loop can then only complete it again; of a paused one a batch stays tripped until a
Resume resets it (`PauseIsKept`). `PausedPagesAgree` is for thresholds of 0 and above: a negative one is a known
deviation (below).

Resume reads the state and resets the failed targets in two statements. `StagedRolloutIsSafe`, `PausesAreTrue`,
`CompletionsAreTrue`, `StagedRefinement`, `CompletedPagesAgree` and `PausedPagesAgree` hold for any operators at once, in every behaviour in which that reset finds
the deploy paused, as Resume has read it (`ResetsWhatIsPaused`, an action property). It is needed: without it TLC
finds, with two operators, three canary devices of four and a threshold of 67 %, a run of 40 states in which the second
of two Resumes resets a canary after the loop has loaded it as failed, and the loop sends the rest of the fleet the
command although the stored canary has never cleared; likewise a second Resume can take a tolerated failure out of a
deploy that has completed since it was read. One operator at a time
(`OneOperator`) implies it (`OneOperatorIsEnough`), because then what Resume has read stays so until it is done
(`ResumesArePaused`); `InvariantHolds` and `OutcomesStay` assume `OneOperator`. `RolloutInv` was checked with TLC for two operators under the condition, three devices and a fault (3.5
million states), and `PublishedInv` without it, before they were proved; the properties of the pages for two operators
under the condition, two devices and a fault (0.6 million states).

For every number of commands and resets (`OtaClient_proofs`): `ClientTypeCorrect`, `InvariantHolds` (`ClientInv`),
`RollbackImageStays` (`RollbackImageKept`), `EveryOkIsTrue` (`OkIsTrue`) and `OneCommandAtATime` (`OneInFlight`). The
invariant says which image runs and which sequence is pending in each phase (`ImagesAreTracked`) and which task may be
under way while another holds the slot (`TasksInTurn`).

For every number of devices, tokens, handlers and connections (`Enrollment_proofs`):

- `EnrollmentTypeCorrect`, with what a handler and a connection have at each place (`PlacesInOrder`).
- `TokensAreSound` (`TokensBuyOneEnrollment`), by `TokenInv`: a token that is not spent has enrolled nobody, and only
  the transaction that spends one enrolls a device.
- `NobodyIsLockedOut` (`NeverLockedOut`), on two conditions, each an action property that names one race.
  `PromotesWhatItRead`: a connection promotes the pending password it has compared, and not a later one; that is the
  race of run `enroll_promote`. `CommitsForTheUnclaimed`: a claim commits only while its device has no password and none
  on its way; only a claim whose client has given up, and which is still at its hash when the device was claimed again
  and revoked, can break it.
- `NobodyIsLockedOutUnlessRevoked`: with `MaxRevokes = 0` the second condition is not needed, by `UnclaimedHaveNone`:
  until the first revocation a device without credentials has no password either, and no reply under way.
- `CurrentIsReplacedByProof` (`CurrentStaysUntilProved`), on the first condition alone: nothing else breaks it.

`NeverLockedOut` is far from inductive: it speaks of the tables and of flash, and between the two lie a password in a
message, a client half-way through an adoption, connections that have compared and not yet promoted, and refusals on
their way. The invariant strengthens it to *the current hash is that of the password the client uses or of the one it
kept* (`CurrentIsKept`), with what each connection has read that is still true when it acts on it: who was accepted uses
the current password, who has compared equal with the pending one holds the current or the pending one, and a refusal
of the password in use means that the kept one is current. `PendingIsKnown` gives the promotion its meaning: whoever
offers the pending password has it from the device, which uses it still or was set up anew since (`WithoutPassword`). Both need that a password is minted once and that
nobody has one that is not stored yet (`SecretsAreFresh`), that a client's connection is its own and was opened with
its password (`LinksAreTheirs`), that a client without a password has nothing else (`ClientsAtRest`) and that the claim
it waits for is its own (`ClaimsAreTheirs`); these four hold unconditionally. The invariant was checked with TLC, under
both conditions, for two handlers, two connections, two passwords and a revocation or three passwords (4.2 million
states at most, up to symmetry) before it was proved. The proofs assume that the name standing for nobody is not that of
a handler or of a connection (`NobodyAssumption`).

For every number of jobs, builders, uploads, receives and faults (`BuildPipeline_proofs`):

- `PipelineTypeCorrect`, for which the queue's counters (`QueueInRange`), the uploads of a builder (`OneUploadEach`) and
  the numbers handed out (`SequencesAreCounted`) have to be kept in bounds.
- `ReleasesStayWhole` and `SequencesAreUnique`, by `PipelineInv`. Neither is inductive alone. A sequence is not yet in
  `signed` when its upload holds it, so `SequencesAreReserved` says that it is unsigned and nobody else's, and not above
  the counter. A release is only safe because of who may touch its row and its file before: `RowsHaveOneOwner` says that
  between the insertion of the row and the reply exactly one upload owns a version, that its row is its own, and that
  nothing of that version was released; an upload that finds the row absent therefore finds no owner and no release
  either.
- `DoneJobsArePublished` (`DoneIsPublished`), by `PublishInv`: a builder works on a job that was enqueued
  (`BuildersHaveJobs`), and as long as there was no fault the upload it waits for is of the version of that job
  (`UploadsAreOfTheJob`), there is no file without a row and nothing to undo (`RowsComeBeforeFiles`), and a builder that
  is about to complete its job has the row it was built for (`CompletedIsPublished`), be it by another's upload.

For every number of devices, connections, pages, drivers, migrations and stops (`Fleet_proofs`): `FleetTypeCorrect`,
`FlagStaysTrue`, `SchemaStaysWhole`, `NamesAlwaysResolve`, and `InvariantHolds` for the invariant `FleetInv` they come from. The
flag needs to know whose hook may run when (`ConnectionsInOrder`): a registered connection was not taken over, so that
its end is the end of the device's session, and the end of one that was taken over writes nothing; a connection whose
hook has run has left a row, so that a heartbeat does not set the flag; nor does a claim, which adds a row only where
there is none. The schema needs `MigrationInHand`: what is
recorded next has been executed. The names need `DriversExist`: what a request refers to between its two reads existed
when it read it, and drivers stay.

For every number of commands and resets, and every set of mislabelled images (`ArduinoClient_proofs`):
`ArduinoTypeCorrect`, `ReportsStayTrue`, `NoDowngradeEver`, and `InvariantHolds` for the invariant `SketchInv` they come from.
`NoDowngrade` is about the floor in NVS, but it is the floor in RAM that refuses a command: `VerdictInHand` says when the
two differ, `OneUpdate` that no update is begun before the last one was reported and what RAM and NVS agree on,
`ReportedIsKept` that a reported image is below the floor or will be reported again, `UpdateInHand` that the next image
is the running one but while it is being recorded.

Only model-checked: liveness (`DeploysAreDecided`, `EveryCommandAnswered`, `DeviceComesBack`, `PagesCatchUp`,
`ServerComesUp`, `CommandsAreAnswered`), because fairness and ENABLED are beyond the prover. Of the properties the runs refute,
`CancelledIsNeverSent` and `RollbackReportIsTrue` have no theorem; every other safety
property of a run has one.

## Where code and comments disagree

- Cancel (service.go:193): run `deploy_cancel`.
- The client's report of a roll-back (espmanager_client.c:453): run `ota_rollback_report`.
- "Never locked out" by a rotation (enroll/service.go:112): run `enroll_promote`.

Known and not claimed, each a hazard in `PROJECT.json` with the lines concerned:

- two operators may resume a deploy while it is cancelled, or reset a canary the loop has just counted, which then sends
  the command to the rest of the fleet although the stored canary has not cleared (service.go:186 to 194);
- the quarantine of a sequence may be dropped too early, and a power cut may lose the floor, at the ESP-IDF client;
- a revoke between authentication and session leaves the connection alive;
- a claim that its client has given up may commit after the device was claimed again and revoked: the device then
  keeps a password that is not the one in the table. It takes a handler that outlives the request: as a rule
  `r.Context()` (httpapi/enroll.go:133) ends it when the client hangs up;
- a failing read of the database is answered like a wrong password;
- the last hook of a dead connection that runs after its device has come back with a new one shows an online device as
  offline, until the next connection (broker.go:133);
- a page misses what was written while its stream was cut, and what is written without `Changed` (a new driver,
  `ClearPresence`, the row a claim inserts), until the next tick; ticks less than 300 ms apart keep it from loading at all;
- a server stopped between the statements of a migration and its record never starts again;
- the Arduino client may install an older image when a command comes before its last report (225 and 202), may send
  `failed` in place of an `ok` it has not sent yet, and forgets what it owes in a reset between 324 and 331;
- a negative failure threshold makes the pages explain a pause by a batch that has not failed (deploys.go:221);
- an upload that gets 409 counts as published although the upload it collided with may yet be undone; a stop of the
  server between row and file makes a version impossible to upload again; a commit that cannot be fetched is replaced
  by the head of the branch.

## Plan

1. Deploy service, its abstract specification, its pages: done.
2. ESP-IDF client, updates: done. Arduino client, updates: done.
3. Enrollment and credential rotation: done.
4. Build pipeline and artifact store: done.
5. Presence, event hub, sessions, drivers, start-up (`Fleet`): done.
6. Serial provisioning: wizard and agent over a lossy line. Promise: a device that says PROVISIONED has what the wizard
   sent.

A composition of `DeployService` and `OtaClient` is not planned any more: that a target is `updated` only if the device
runs that build follows from `ReportsMatchCommands` (a report with a sequence is about the command of that deploy) and
`OkIsTrue` (`ok` is of the image that runs), and the network adds nothing to either, since both already hold for
commands and reports that are lost, repeated and reordered.

## Not modelled

- Serial provisioning of the ESP-IDF client and the wizard in the UI: the next item of the plan.
- The Arduino client's claim: one request whose answer is stored.
- The overview page and the lists of artifacts and tokens (single reads), configuration, ACL and topic names (pure
  functions), the layout of the UI. `PROJECT.json` lists each part with its reason.
- Other deployments of the server: TLS, proxies, several servers over one database, which the code does not support.
- Cryptography (Ed25519, bcrypt, HMAC of webhooks): taken as given; a forged message does not occur.
- What git, PlatformIO, goqite, mochi-mqtt, esp-mqtt, the bootloader and SQLite do inside: they appear as external
  actions that behave the way the code uses them.
