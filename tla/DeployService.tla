--------------------------- MODULE DeployService ---------------------------
(***************************************************************************)
(* The deploy service of the espmanager server (internal/deploy/service.go)*)
(* over its SQLite repository (internal/store/sqlite/deploy_repo.go).      *)
(*                                                                         *)
(* Four kinds of goroutine share the two tables deploys and deploy_targets:*)
(*   - Rollout, one per uploaded artifact: creates a deploy and its        *)
(*     targets and triggers the canary batch;                              *)
(*   - Reconcile, one loop for the whole server: times targets out,        *)
(*     re-sends commands, pauses, promotes and completes deploys, all from *)
(*     a snapshot it read at the start of its pass over a deploy;          *)
(*   - OnStatus, called by the broker with each report of a device;        *)
(*   - Resume and Cancel, called by HTTP handlers.                         *)
(* A step of the model is one SQL statement or one publish, the units the  *)
(* program can be interrupted between (the pool holds one connection, so   *)
(* statements do not overlap).                                             *)
(***************************************************************************)
EXTENDS Integers, FiniteSets

CONSTANTS
    NumDeploys,       \* deploys created during a behaviour
    NumDevices,       \* devices assigned to the driver
    CanaryPercent,    \* Options.CanaryPercent as configured
    FailureThreshold, \* Options.FailureThreshold as configured
    Sequence,         \* the signed sequence of each deploy's artifact, 0 if it has none
    Legacy,           \* devices whose client reports without a sequence
    Request,          \* HTTP handlers that may run at the same time
    MaxFaults         \* bound: publish errors, SQL errors and crashes together

Deploy == 1..NumDeploys     \* numbered by created_at
Device == 1..NumDevices     \* numbered by the order IDsForDriver lists them in

ASSUME ConstantsAssumption ==
    /\ NumDeploys \in Nat \ {0}
    /\ NumDevices \in Nat \ {0}
    /\ CanaryPercent \in Int
    /\ FailureThreshold \in Int
    /\ Legacy \subseteq Device
    /\ MaxFaults \in Nat

\* Sequences come from one counter, so no two artifacts share one.
ASSUME SequenceAssumption ==
    /\ Sequence \in [Deploy -> Nat]
    /\ \A d, e \in Deploy : Sequence[d] = Sequence[e] /\ Sequence[d] # 0 => d = e

VARIABLES
    deployState,  \* deploys.state, "none" before the row exists
    status,       \* deploy_targets.status, "absent" before the row exists
    age,          \* how long ago updated_at is: Fresh, Stale or Expired
    sent,         \* history: the command of the deploy was published to the device
    cleared,      \* history: the stored canary batch once settled within the threshold
    rolloutPc,    \* where each Rollout is
    addNext,      \* the device whose target Rollout adds next
    rolloutTodo,  \* the canary devices Rollout has yet to trigger
    recPc,        \* where the reconcile loop is
    recQueue,     \* the active deploys of this tick not yet finished, the least is current
    snap,         \* the statuses of the current deploy's targets as read by the pass
    recLost,      \* targets the pass has yet to time out
    recResend,    \* targets the pass has yet to re-send the command to
    recTodo,      \* targets the pass has yet to trigger
    onStatus,     \* per device: the untagged report being handled
    reqPc,        \* where each HTTP handler is
    reqDeploy,    \* the deploy each handler acts on
    faults        \* faults that have happened

dbVars == <<deployState, status, age>>
rolloutVars == <<rolloutPc, addNext, rolloutTodo>>
recVars == <<recPc, recQueue, snap, recLost, recResend, recTodo>>
reqVars == <<reqPc, reqDeploy>>
vars == <<dbVars, sent, cleared, rolloutVars, recVars, onStatus, reqVars, faults>>

Terminal == {"succeeded", "failed", "lost"}
Failure == {"failed", "lost"}
Status == {"pending", "triggered", "downloading"} \cup Terminal
Reported == {"downloading", "succeeded", "failed"}
State == {"in_progress", "paused", "completed", "cancelled"}

Fresh == 0      \* younger than resendGracePeriod
Stale == 1      \* neither
Expired == 2    \* older than Options.TargetTimeout

Least(x, S) == x \in S /\ \A y \in S : x <= y

-----------------------------------------------------------------------------
(* Batches and their verdicts, over the statuses st of a deploy's targets. *)

Percent == IF CanaryPercent <= 0 \/ CanaryPercent > 100 THEN 100 ELSE CanaryPercent
Threshold == IF FailureThreshold < 0 THEN 0
             ELSE IF FailureThreshold > 100 THEN 100 ELSE FailureThreshold

CanaryCount ==
    LET n == (NumDevices * Percent + 99) \div 100
    IN  IF n < 1 THEN 1 ELSE IF n > NumDevices THEN NumDevices ELSE n

\* MUTANT of Batch: the comparison is off by one.
BatchLate(i) == IF i > CanaryCount + 1 THEN 1 ELSE 0

Batch(i) == IF i > CanaryCount THEN 1 ELSE 0
Batches == {0, 1}

TargetsInBatch(st, b) == {i \in Device : st[i] # "absent" /\ Batch(i) = b}
AllTerminal(st, b) == \A i \in TargetsInBatch(st, b) : st[i] \in Terminal
FailureExceeded(st, b) ==
    Cardinality({i \in TargetsInBatch(st, b) : st[i] \in Failure}) * 100
        > Threshold * Cardinality(TargetsInBatch(st, b))
BatchTripped(st, b) == AllTerminal(st, b) /\ FailureExceeded(st, b)
FilterPending(st, b) == {i \in TargetsInBatch(st, b) : st[i] = "pending"}

Cleared(st, b) == AllTerminal(st, b) /\ ~FailureExceeded(st, b)

\* The batch at which the loop over Batches(targets) stops.
StopsAt(st, b) == Least(b, {c \in Batches : ~Cleared(st, c)})

(* What the batches are meant to be, told apart from how they are computed. *)

\* The first devices, as few as make up the configured percentage of the fleet.
InCanary(i) == 100 * (i - 1) < Percent * NumDevices

\* The rest of the fleet has its targets, and those of the canary are settled with
\* no more failures than the threshold allows of so many.
CanaryCleared(st) ==
    LET Canary == {i \in Device : st[i] # "absent" /\ InCanary(i)}
    IN  /\ \E i \in Device : st[i] # "absent" /\ ~InCanary(i)
        /\ \A i \in Canary : st[i] \in Terminal
        /\ Cardinality({i \in Canary : st[i] \in Failure})
              <= (Threshold * Cardinality(Canary)) \div 100

-----------------------------------------------------------------------------
(* The repository and the publisher. *)

\* MUTANT of CanAdvance: "status not in (...)" is missing.
CanAdvanceSettled(d, i, s) == status[d][i] \notin {"absent", s}

\* MUTANT of CanAdvance: "status <> ?" is missing.
CanAdvanceAgain(d, i, s) == status[d][i] \notin Terminal \cup {"absent"}

\* The rows AdvanceTargetStatus updates.
CanAdvance(d, i, s) == status[d][i] \notin Terminal \cup {"absent", s}

SetTarget(d, i, s) ==
    /\ status' = [status EXCEPT ![d][i] = s]
    /\ age' = [age EXCEPT ![d][i] = Fresh]

AdvanceTargetStatus(d, i, s) ==
    IF CanAdvance(d, i, s) THEN SetTarget(d, i, s) ELSE UNCHANGED <<status, age>>

\* MUTANT of MatchingDeploys: "t.sequence = ?" is missing.
MatchingAnySequence(i, seq, s) == {d \in Deploy : CanAdvance(d, i, s)}

\* The targets AdvanceTargetStatusBySequence chooses its newest from.
MatchingDeploys(i, seq, s) == {d \in Deploy : Sequence[d] = seq /\ CanAdvance(d, i, s)}

SetDeployState(d, s) ==
    /\ deployState' = [deployState EXCEPT ![d] = s]
    /\ UNCHANGED <<status, age>>

\* command() builds no payload for an artifact without a signed sequence.
HasCommand(d) == Sequence[d] # 0

Publish(d, i) == sent' = [sent EXCEPT ![d][i] = TRUE]

Fault == faults < MaxFaults /\ faults' = faults + 1

-----------------------------------------------------------------------------
(* Rollout *)

\* The deploy row is inserted on its own, before any of its targets.
CreateDeploy(d) ==
    /\ deployState[d] = "none"
    /\ \A e \in Deploy : e < d => deployState[e] # "none"
    /\ SetDeployState(d, "in_progress")
    /\ rolloutPc' = [rolloutPc EXCEPT ![d] = "add"]
    /\ UNCHANGED <<sent, addNext, rolloutTodo, recVars, onStatus, reqVars, faults>>

\* One turn of the loop that inserts the targets; a failed insert is skipped.
AddTarget(d) ==
    LET i == addNext[d] IN
    /\ rolloutPc[d] = "add"
    /\ i \in Device
    /\ \/ /\ SetTarget(d, i, "pending")
          /\ rolloutTodo' = IF Batch(i) = 0
                            THEN [rolloutTodo EXCEPT ![d] = @ \cup {i}]
                            ELSE rolloutTodo
          /\ UNCHANGED faults
       \/ Fault /\ UNCHANGED <<status, age, rolloutTodo>>
    /\ addNext' = [addNext EXCEPT ![d] = i + 1]
    /\ UNCHANGED <<deployState, sent, rolloutPc, recVars, onStatus, reqVars>>

\* After the last insert: build the command and turn to the canary devices.
StartTriggering(d) ==
    /\ rolloutPc[d] = "add"
    /\ addNext[d] \notin Device
    /\ rolloutPc' = [rolloutPc EXCEPT ![d] = IF HasCommand(d) THEN "publish" ELSE "done"]
    /\ UNCHANGED <<dbVars, sent, addNext, rolloutTodo, recVars, onStatus, reqVars, faults>>

\* MUTANT of RolloutPublish: the error of the publish is ignored.
RolloutPublishAnyway(d, i) ==
    /\ rolloutPc[d] = "publish"
    /\ Least(i, rolloutTodo[d])
    /\ \/ Publish(d, i) /\ UNCHANGED faults
       \/ Fault /\ UNCHANGED sent
    /\ rolloutPc' = [rolloutPc EXCEPT ![d] = "record"]
    /\ UNCHANGED <<dbVars, addNext, rolloutTodo, recVars, onStatus, reqVars>>

\* trigger(), first half: the publish, before anything is recorded.
RolloutPublish(d, i) ==
    /\ rolloutPc[d] = "publish"
    /\ Least(i, rolloutTodo[d])
    /\ \/ /\ Publish(d, i)
          /\ rolloutPc' = [rolloutPc EXCEPT ![d] = "record"]
          /\ UNCHANGED faults
       \/ /\ Fault
          /\ rolloutPc' = [rolloutPc EXCEPT ![d] = "fail"]
          /\ UNCHANGED sent
    /\ UNCHANGED <<dbVars, addNext, rolloutTodo, recVars, onStatus, reqVars>>

\* trigger(), second half: record what the publish returned.
RolloutRecord(d, i) ==
    /\ rolloutPc[d] \in {"record", "fail"}
    /\ Least(i, rolloutTodo[d])
    /\ \/ /\ AdvanceTargetStatus(d, i, IF rolloutPc[d] = "fail" THEN "failed" ELSE "triggered")
          /\ UNCHANGED faults
       \/ Fault /\ UNCHANGED <<status, age>>
    /\ rolloutTodo' = [rolloutTodo EXCEPT ![d] = @ \ {i}]
    /\ rolloutPc' = [rolloutPc EXCEPT ![d] = "publish"]
    /\ UNCHANGED <<deployState, sent, addNext, recVars, onStatus, reqVars>>

RolloutReturn(d) ==
    /\ rolloutPc[d] = "publish"
    /\ rolloutTodo[d] = {}
    /\ rolloutPc' = [rolloutPc EXCEPT ![d] = "done"]
    /\ UNCHANGED <<dbVars, sent, addNext, rolloutTodo, recVars, onStatus, reqVars, faults>>

Rollout(d) ==
    \/ AddTarget(d) \/ StartTriggering(d) \/ RolloutReturn(d)
    \/ \E i \in Device : RolloutPublish(d, i) \/ RolloutRecord(d, i)

-----------------------------------------------------------------------------
(* Reconcile *)

Current(d) == Least(d, recQueue)

\* reconcile(d) returns: its locals are gone and the next deploy's turn comes.
Leave(d) ==
    /\ recQueue' = recQueue \ {d}
    /\ recPc' = IF recQueue \ {d} = {} THEN "idle" ELSE "load"
    /\ snap' = [i \in Device |-> "absent"]
    /\ recLost' = {} /\ recResend' = {} /\ recTodo' = {}

\* A tick with nothing active, or whose query fails, changes nothing.
ListActiveDeploys ==
    /\ recPc = "idle"
    /\ recQueue' = {d \in Deploy : deployState[d] = "in_progress"}
    /\ recQueue' # {}
    /\ recPc' = "load"
    /\ UNCHANGED <<dbVars, sent, rolloutVars, snap, recLost, recResend, recTodo,
                   onStatus, reqVars, faults>>

\* Read the targets, then the clock.
LoadTargets(d) ==
    /\ recPc = "load"
    /\ Current(d)
    /\ \/ /\ snap' = status[d]
          /\ recLost' = {i \in Device : /\ status[d][i] \in {"triggered", "downloading"}
                                        /\ age[d][i] = Expired}
          /\ recResend' = {i \in Device : /\ status[d][i] = "triggered"
                                          /\ age[d][i] = Fresh
                                          /\ HasCommand(d)}
          /\ recPc' = "scan"
          /\ UNCHANGED <<recQueue, recTodo, faults>>
       \/ Fault /\ Leave(d)
    /\ UNCHANGED <<dbVars, sent, rolloutVars, onStatus, reqVars>>

\* MUTANT of MarkLost: the snapshot is corrected whether or not a row was updated.
MarkLostAnyway(d, i) ==
    /\ recPc = "scan"
    /\ Current(d)
    /\ i \in recLost /\ Least(i, recLost \cup recResend)
    /\ recLost' = recLost \ {i}
    /\ AdvanceTargetStatus(d, i, "lost")
    /\ snap' = [snap EXCEPT ![i] = "lost"]
    /\ UNCHANGED <<deployState, sent, rolloutVars, recPc, recQueue, recResend, recTodo,
                   onStatus, reqVars, faults>>

\* A target that timed out: recorded as lost unless it has settled since, and
\* only then is the snapshot corrected.
MarkLost(d, i) ==
    /\ recPc = "scan"
    /\ Current(d)
    /\ i \in recLost /\ Least(i, recLost \cup recResend)
    /\ recLost' = recLost \ {i}
    /\ \/ /\ AdvanceTargetStatus(d, i, "lost")
          /\ snap' = IF CanAdvance(d, i, "lost") THEN [snap EXCEPT ![i] = "lost"] ELSE snap
          /\ UNCHANGED faults
       \/ Fault /\ UNCHANGED <<status, age, snap>>
    /\ UNCHANGED <<deployState, sent, rolloutVars, recPc, recQueue, recResend, recTodo,
                   onStatus, reqVars>>

\* A target commanded a short while ago is sent the command again; an artifact that
\* cannot be read, or a publish that fails, is passed over.
Resend(d, i) ==
    /\ recPc = "scan"
    /\ Current(d)
    /\ i \in recResend /\ Least(i, recLost \cup recResend)
    /\ \/ Publish(d, i) /\ UNCHANGED faults
       \/ Fault /\ UNCHANGED sent
    /\ recResend' = recResend \ {i}
    /\ UNCHANGED <<dbVars, rolloutVars, recPc, recQueue, snap, recLost, recTodo,
                   onStatus, reqVars>>

Scanned(d) == recPc = "scan" /\ Current(d) /\ recLost \cup recResend = {}

\* setState: unconditional, and a failing write is only logged.
Settle(d, s) ==
    /\ \/ SetDeployState(d, s) /\ UNCHANGED faults
       \/ Fault /\ UNCHANGED dbVars
    /\ Leave(d)
    /\ UNCHANGED <<sent, rolloutVars, onStatus, reqVars>>

Pause(d) ==
    /\ Scanned(d)
    /\ \E b \in Batches : StopsAt(snap, b) /\ BatchTripped(snap, b)
    /\ Settle(d, "paused")

\* MUTANT of Complete: the last batch is left out.
CompleteAfterCanary(d) ==
    /\ Scanned(d)
    /\ Cleared(snap, 0)
    /\ Settle(d, "completed")

Complete(d) ==
    /\ Scanned(d)
    /\ \A b \in Batches : Cleared(snap, b)
    /\ Settle(d, "completed")

\* The batch has pending targets: trigger them, canary or not.
Promote(d) ==
    /\ Scanned(d)
    /\ HasCommand(d)
    /\ \E b \in Batches : /\ StopsAt(snap, b)
                          /\ FilterPending(snap, b) # {}
                          /\ recTodo' = FilterPending(snap, b)
    /\ recPc' = "publish"
    /\ UNCHANGED <<dbVars, sent, rolloutVars, recQueue, snap, recLost, recResend,
                   onStatus, reqVars, faults>>

\* The batch is under way, or there is no command to send, or reading the artifact
\* fails: come back next tick.
Wait(d) ==
    /\ Scanned(d)
    /\ \E b \in Batches : /\ StopsAt(snap, b)
                          /\ ~AllTerminal(snap, b)
                          /\ \/ FilterPending(snap, b) = {} /\ UNCHANGED faults
                             \/ ~HasCommand(d) /\ UNCHANGED faults
                             \/ Fault
    /\ Leave(d)
    /\ UNCHANGED <<dbVars, sent, rolloutVars, onStatus, reqVars>>

PromotePublish(d, i) ==
    /\ recPc = "publish"
    /\ Current(d)
    /\ Least(i, recTodo)
    /\ \/ Publish(d, i) /\ recPc' = "record" /\ UNCHANGED faults
       \/ Fault /\ recPc' = "fail" /\ UNCHANGED sent
    /\ UNCHANGED <<dbVars, rolloutVars, recQueue, snap, recLost, recResend, recTodo,
                   onStatus, reqVars>>

PromoteRecord(d, i) ==
    /\ recPc \in {"record", "fail"}
    /\ Current(d)
    /\ Least(i, recTodo)
    /\ \/ /\ AdvanceTargetStatus(d, i, IF recPc = "fail" THEN "failed" ELSE "triggered")
          /\ UNCHANGED faults
       \/ Fault /\ UNCHANGED <<status, age>>
    /\ recTodo' = recTodo \ {i}
    /\ recPc' = "publish"
    /\ UNCHANGED <<deployState, sent, rolloutVars, recQueue, snap, recLost, recResend,
                   onStatus, reqVars>>

PromoteReturn(d) ==
    /\ recPc = "publish"
    /\ Current(d)
    /\ recTodo = {}
    /\ Leave(d)
    /\ UNCHANGED <<dbVars, sent, rolloutVars, onStatus, reqVars, faults>>

ReconcileDeploy(d) ==
    \/ LoadTargets(d) \/ Pause(d) \/ Complete(d) \/ Promote(d) \/ Wait(d) \/ PromoteReturn(d)
    \/ \E i \in Device : \/ MarkLost(d, i) \/ Resend(d, i)
                         \/ PromotePublish(d, i) \/ PromoteRecord(d, i)

Reconcile == ListActiveDeploys \/ \E d \in Deploy : ReconcileDeploy(d)

-----------------------------------------------------------------------------
(* OnStatus: a device that was sent the command of d reports on it, as often  *)
(* and as late as the network lets it. A failing statement is a lost report.  *)

OnTaggedStatus(i, d, s) ==
    /\ i \notin Legacy
    /\ sent[d][i]
    /\ \E e \in MatchingDeploys(i, Sequence[d], s) :
          /\ \A f \in MatchingDeploys(i, Sequence[d], s) : f <= e
          /\ SetTarget(e, i, s)
    /\ UNCHANGED <<deployState, sent, rolloutVars, recVars, onStatus, reqVars, faults>>

\* Without a sequence the newest deploy of the device is looked up first ...
OnUntaggedStatus(i, s) ==
    LET rows == {e \in Deploy : status[e][i] # "absent"} IN
    /\ i \in Legacy
    /\ onStatus[i] = <<>>
    /\ \E d \in Deploy : sent[d][i]
    /\ \E e \in rows : /\ \A f \in rows : f <= e
                       /\ onStatus' = [onStatus EXCEPT ![i] = <<e, s>>]
    /\ UNCHANGED <<dbVars, sent, rolloutVars, recVars, reqVars, faults>>

\* ... and then advanced, in a second statement.
AdvanceLatest(i) ==
    /\ onStatus[i] # <<>>
    /\ AdvanceTargetStatus(onStatus[i][1], i, onStatus[i][2])
    /\ onStatus' = [onStatus EXCEPT ![i] = <<>>]
    /\ UNCHANGED <<deployState, sent, rolloutVars, recVars, reqVars, faults>>

OnStatus ==
    \E i \in Device :
        \/ \E s \in Reported : OnUntaggedStatus(i, s) \/ \E d \in Deploy : OnTaggedStatus(i, d, s)
        \/ AdvanceLatest(i)

-----------------------------------------------------------------------------
(* Resume and Cancel: the state is read, checked, and acted on in statements *)
(* of their own. A failing statement, or a client that hangs up, ends the    *)
(* handler where it is.                                                      *)

Return(r) == reqPc' = [reqPc EXCEPT ![r] = "idle"] /\ UNCHANGED reqDeploy

ResumeRead(r, d) ==
    /\ reqPc[r] = "idle"
    /\ deployState[d] = "paused"
    /\ reqPc' = [reqPc EXCEPT ![r] = "reset"]
    /\ reqDeploy' = [reqDeploy EXCEPT ![r] = d]
    /\ UNCHANGED <<dbVars, sent, rolloutVars, recVars, onStatus, faults>>

ResetFailedTargets(r) ==
    LET d == reqDeploy[r]
        rows == {i \in Device : status[d][i] \in Failure}
    IN
    /\ reqPc[r] = "reset"
    /\ \/ /\ status' = [status EXCEPT ![d] =
                            [i \in Device |-> IF i \in rows THEN "pending" ELSE @[i]]]
          /\ age' = [age EXCEPT ![d] = [i \in Device |-> IF i \in rows THEN Fresh ELSE @[i]]]
          /\ reqPc' = [reqPc EXCEPT ![r] = "set"]
          /\ UNCHANGED <<reqDeploy, faults>>
       \/ Fault /\ Return(r) /\ UNCHANGED <<status, age>>
    /\ UNCHANGED <<deployState, sent, rolloutVars, recVars, onStatus>>

\* MUTANT of ResumeSet: a state the rest of the service does not know.
ResumeSetActive(r) ==
    /\ reqPc[r] = "set"
    /\ SetDeployState(reqDeploy[r], "active")
    /\ Return(r)
    /\ UNCHANGED <<sent, rolloutVars, recVars, onStatus, faults>>

ResumeSet(r) ==
    /\ reqPc[r] = "set"
    /\ \/ SetDeployState(reqDeploy[r], "in_progress") /\ UNCHANGED faults
       \/ Fault /\ UNCHANGED dbVars
    /\ Return(r)
    /\ UNCHANGED <<sent, rolloutVars, recVars, onStatus>>

CancelRead(r, d) ==
    /\ reqPc[r] = "idle"
    /\ deployState[d] \in {"in_progress", "paused"}
    /\ reqPc' = [reqPc EXCEPT ![r] = "cancel"]
    /\ reqDeploy' = [reqDeploy EXCEPT ![r] = d]
    /\ UNCHANGED <<dbVars, sent, rolloutVars, recVars, onStatus, faults>>

CancelSet(r) ==
    /\ reqPc[r] = "cancel"
    /\ \/ SetDeployState(reqDeploy[r], "cancelled") /\ UNCHANGED faults
       \/ Fault /\ UNCHANGED dbVars
    /\ Return(r)
    /\ UNCHANGED <<sent, rolloutVars, recVars, onStatus>>

Handle(r) == ResetFailedTargets(r) \/ ResumeSet(r) \/ CancelSet(r)

-----------------------------------------------------------------------------
(* Time and crashes. *)

\* Only the ages that the reconcile loop compares with its limits advance.
Elapse(d, i) ==
    /\ status[d][i] \in {"triggered", "downloading"}
    /\ age[d][i] < Expired
    /\ age' = [age EXCEPT ![d][i] = @ + 1]
    /\ UNCHANGED <<deployState, status, sent, rolloutVars, recVars, onStatus, reqVars, faults>>

\* The server stops and starts again: the tables stay, every goroutine is gone
\* and only the reconcile loop comes back.
Crash ==
    /\ Fault
    /\ rolloutPc' = [d \in Deploy |-> IF rolloutPc[d] = "none" THEN "none" ELSE "done"]
    /\ rolloutTodo' = [d \in Deploy |-> {}]
    /\ recPc' = "idle" /\ recQueue' = {}
    /\ snap' = [i \in Device |-> "absent"]
    /\ recLost' = {} /\ recResend' = {} /\ recTodo' = {}
    /\ onStatus' = [i \in Device |-> <<>>]
    /\ reqPc' = [r \in Request |-> "idle"]
    /\ UNCHANGED <<dbVars, sent, addNext, reqDeploy>>

-----------------------------------------------------------------------------
Init ==
    /\ deployState = [d \in Deploy |-> "none"]
    /\ status = [d \in Deploy |-> [i \in Device |-> "absent"]]
    /\ age = [d \in Deploy |-> [i \in Device |-> Fresh]]
    /\ sent = [d \in Deploy |-> [i \in Device |-> FALSE]]
    /\ cleared = [d \in Deploy |-> FALSE]
    /\ rolloutPc = [d \in Deploy |-> "none"]
    /\ addNext = [d \in Deploy |-> 1]
    /\ rolloutTodo = [d \in Deploy |-> {}]
    /\ recPc = "idle"
    /\ recQueue = {}
    /\ snap = [i \in Device |-> "absent"]
    /\ recLost = {} /\ recResend = {} /\ recTodo = {}
    /\ onStatus = [i \in Device |-> <<>>]
    /\ reqPc = [r \in Request |-> "idle"]
    /\ reqDeploy = [r \in Request |-> 1]
    /\ faults = 0

Step ==
    \/ \E d \in Deploy : CreateDeploy(d) \/ Rollout(d)
    \/ Reconcile
    \/ OnStatus
    \/ \E r \in Request : \/ Handle(r)
                          \/ \E d \in Deploy : ResumeRead(r, d) \/ CancelRead(r, d)
    \/ \E d \in Deploy, i \in Device : Elapse(d, i)
    \/ Crash

\* The history of what the stored canary batch has been through.
Observe == cleared' = [d \in Deploy |-> cleared[d] \/ CanaryCleared(status'[d])]

Next == Step /\ Observe

Spec == Init /\ [][Next]_vars

\* Goroutines are scheduled, the ticker ticks and time passes; operators and
\* devices owe nothing.
Fairness ==
    /\ \A d \in Deploy : WF_vars(Rollout(d) /\ Observe)
    /\ WF_vars(Reconcile /\ Observe)
    /\ \A r \in Request : WF_vars(Handle(r) /\ Observe)
    /\ \A i \in Device : WF_vars(AdvanceLatest(i) /\ Observe)
    /\ \A d \in Deploy, i \in Device : WF_vars(Elapse(d, i) /\ Observe)

FairSpec == Spec /\ Fairness

-----------------------------------------------------------------------------
TypeOK ==
    /\ deployState \in [Deploy -> State \cup {"none"}]
    /\ status \in [Deploy -> [Device -> Status \cup {"absent"}]]
    /\ age \in [Deploy -> [Device -> Fresh..Expired]]
    /\ sent \in [Deploy -> [Device -> BOOLEAN]]
    /\ cleared \in [Deploy -> BOOLEAN]
    /\ rolloutPc \in [Deploy -> {"none", "add", "publish", "record", "fail", "done"}]
    /\ addNext \in [Deploy -> 1..(NumDevices + 1)]
    /\ rolloutTodo \in [Deploy -> SUBSET Device]
    /\ recPc \in {"idle", "load", "scan", "publish", "record", "fail"}
    /\ recQueue \in SUBSET Deploy
    /\ snap \in [Device -> Status \cup {"absent"}]
    /\ recLost \in SUBSET Device
    /\ recResend \in SUBSET Device
    /\ recTodo \in SUBSET Device
    /\ onStatus \in [Device -> {<<>>} \cup (Deploy \X Reported)]
    /\ reqPc \in [Request -> {"idle", "reset", "set", "cancel"}]
    /\ reqDeploy \in [Request -> Deploy]
    /\ faults \in 0..MaxFaults

-----------------------------------------------------------------------------
(* Safety *)

\* The point of a staged rollout: a device outside the canary batch is sent the
\* command only if the canary batch, as stored, had all settled with no more
\* failures than the threshold - although reconcile decides from a snapshot that
\* reports, timeouts, rollouts and resumes may have overtaken.
CanaryGate ==
    \A d \in Deploy, i \in Device : sent[d][i] /\ ~InCanary(i) => cleared[d]

\* A late or duplicated report never mutates an unrelated deploy: a target whose
\* device tags its reports is under way or succeeded only if the command of that
\* very deploy was published to it.
ReportsMatchCommands ==
    \A d \in Deploy, i \in Device :
        status[d][i] \in {"downloading", "succeeded"} /\ i \notin Legacy => sent[d][i]

\* What a target's outcome was is never overwritten, by no order of reports,
\* triggers and timeouts; only Resume throws outcomes away, only failures, and
\* only while the deploy is paused.
OutcomesAreFinal ==
    [][\A d \in Deploy, i \in Device :
         status[d][i] \in Terminal /\ status'[d][i] # status[d][i]
           => /\ status[d][i] \in Failure
              /\ status'[d][i] = "pending"
              /\ deployState[d] = "paused"]_vars

\* The snapshot the current pass decides from misses no row of the table.
SawEveryRow(d) == \A i \in Device : snap[i] = "absent" => status[d][i] = "absent"

\* A pause is explained by what is stored (and shown) when it is written: some
\* batch has tripped.
PausesAreExplained ==
    [][\A d \in Deploy :
         deployState[d] # "paused" /\ deployState'[d] = "paused" /\ SawEveryRow(d)
           => \E b \in Batches : BatchTripped(status[d], b)]_vars

\* A deploy is completed only when every stored target has settled and no batch
\* is over the threshold.
CompletionsAreSettled ==
    [][\A d \in Deploy :
         deployState[d] # "completed" /\ deployState'[d] = "completed" /\ SawEveryRow(d)
           => \A b \in Batches : Cleared(status[d], b)]_vars

-----------------------------------------------------------------------------
(* Liveness *)

\* No deploy stays in progress for ever, whatever its devices do or fail to do:
\* a silent device times out, and repeated reports do not postpone that.
DeploysAreDecided ==
    \A d \in Deploy : HasCommand(d) =>
        (deployState[d] = "in_progress" ~> deployState[d] # "in_progress")

-----------------------------------------------------------------------------
(* What comments of the code say that its interleavings do not keep. *)

\* "Cancel abandons an active or paused deploy; untriggered targets stay pending
\* and are never sent."
CancelledIsNeverSent ==
    [][\A d \in Deploy, i \in Device :
         deployState[d] = "cancelled" /\ status[d][i] = "pending" /\ ~sent[d][i]
           => ~sent'[d][i]]_vars
=============================================================================
