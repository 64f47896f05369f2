------------------------- MODULE DeployPages_proofs -------------------------
(***************************************************************************)
(* Proofs about what the pages show of a decided deploy, for any fleet and *)
(* any number of deploys, faults and operators at once, in the behaviours  *)
(* in which Resume resets the targets of a deploy that is still paused     *)
(* (ResetsWhatIsPaused), on top of the invariant of the service for those. *)
(* Without that condition a second Resume, checked before the first one    *)
(* was done, may take a tolerated failure out of a completed deploy.       *)
(***************************************************************************)
EXTENDS DeployPages, DeployService_proofs

PageTypes ==
    /\ pageState \in [Deploy -> State \cup {"none"}]
    /\ hasty \in [Deploy -> BOOLEAN]
    /\ retried \in [Deploy -> BOOLEAN]

\* A state of the deploy, as stored or as a page has read it.
Shown(d, s) == deployState[d] = s \/ pageState[d] = s

\* The deploy has all the targets it will ever have, and the loop knows them.
RowsAreThere(d) ==
    /\ deployState[d] # "none"
    /\ rolloutPc[d] # "add"
    /\ recPc = "scan" /\ Current(d) => SawEveryRow(d)

\* What the verdict was about stays as it was, also when a Resume that had been
\* overtaken sets the deploy in progress and the loop judges it once more: a
\* completed one is then completed again, and so is never reset.
CompletedIsKept ==
    \A d \in Deploy : Shown(d, "completed") /\ ~hasty[d] =>
        /\ RowsAreThere(d)
        /\ deployState[d] # "paused"
        /\ \A b \in Batches : Cleared(status[d], b)

PauseIsKept ==
    \A d \in Deploy : Shown(d, "paused") /\ ~hasty[d] /\ ~retried[d] =>
        /\ RowsAreThere(d)
        /\ \E b \in Batches : BatchTripped(status[d], b)

PagesInv == PageTypes /\ CompletedIsKept /\ PauseIsKept

-----------------------------------------------------------------------------
(* What a step of the service may do to a decided deploy. *)

\* Rows are inserted by the Rollout of their deploy only.
LEMMA RowStep ==
  ASSUME RolloutInv, Next, NEW d \in Deploy, NEW i \in Device,
         rolloutPc[d] # "add", status[d][i] = "absent"
  PROVE  status'[d][i] = "absent"
<1> SUFFICES ASSUME status'[d][i] # "absent" PROVE FALSE
  OBVIOUS
<1>t. TypeOK /\ "absent" \notin Failure
  BY DEF RolloutInv, PublishedInv, Failure
<1>0. ASSUME NEW e \in Deploy, NEW j \in Device, NEW s, SetTarget(e, j, s) PROVE e = d /\ j = i
  <2>1. status' = [status EXCEPT ![e][j] = s]
    BY <1>0 DEF SetTarget
  <2> QED
    BY <1>t, <2>1 DEF TypeOK
<1>1. ASSUME NEW e \in Deploy, NEW j \in Device, NEW s, AdvanceTargetStatus(e, j, s) PROVE FALSE
  BY <1>0, <1>1 DEF AdvanceTargetStatus, CanAdvance
<1>2. ASSUME NEW e \in Deploy, CreateDeploy(e) \/ Rollout(e) PROVE FALSE
  <2>1. CASE UNCHANGED status
    BY <2>1
  <2>2. CASE AddTarget(e)
    <3>1. rolloutPc[e] = "add" /\ addNext[e] \in Device
          /\ (UNCHANGED status \/ SetTarget(e, addNext[e], "pending"))
      BY <2>2 DEF AddTarget
    <3> QED
      BY <1>0, <3>1
  <2>3. ASSUME NEW j \in Device, RolloutRecord(e, j) PROVE FALSE
    BY <1>1, <2>3 DEF RolloutRecord
  <2> QED
    BY <1>2, <2>1, <2>2, <2>3
       DEF CreateDeploy, SetDeployState, Rollout, StartTriggering, RolloutReturn, RolloutPublish,
           dbVars
<1>3. ASSUME Reconcile PROVE FALSE
  <2>1. ASSUME NEW e \in Deploy, NEW j \in Device, MarkLost(e, j) \/ PromoteRecord(e, j)
        PROVE FALSE
    BY <1>1, <2>1 DEF MarkLost, PromoteRecord
  <2> QED
    BY <1>3, <2>1
       DEF Reconcile, ReconcileDeploy, ListActiveDeploys, LoadTargets, Pause, Complete, Settle,
           SetDeployState, Promote, Wait, PromoteReturn, Resend, PromotePublish, dbVars
<1>4. ASSUME OnStatus PROVE FALSE
  <2>1. ASSUME NEW j \in Device, NEW e \in Deploy, NEW s \in Reported, OnTaggedStatus(j, e, s)
        PROVE FALSE
    BY <1>1, <2>1 DEF OnTaggedStatus, MatchingDeploys, AdvanceTargetStatus
  <2>2. ASSUME NEW j \in Device, AdvanceLatest(j) PROVE FALSE
    BY <1>1, <1>t, <2>2 DEF AdvanceLatest, TypeOK
  <2> QED
    BY <1>4, <2>1, <2>2 DEF OnStatus, OnUntaggedStatus, dbVars
<1>5. ASSUME NEW r \in Request, ResetFailedTargets(r) PROVE FALSE
  <2>1. CASE UNCHANGED status
    BY <2>1
  <2>2. ASSUME NEW e \in Deploy,
               status' = [status EXCEPT ![e] = [j \in Device |->
                            IF j \in {k \in Device : status[e][k] \in Failure} THEN "pending" ELSE @[j]]]
        PROVE  FALSE
    <3>1. e = d
      BY <1>t, <2>2 DEF TypeOK
    <3>2. status'[d][i] = status[d][i]
      BY <1>t, <2>2, <3>1 DEF TypeOK
    <3> QED
      BY <3>2
  <2>3. reqDeploy[r] \in Deploy
    BY <1>t DEF TypeOK
  <2> QED
    BY <1>5, <2>1, <2>2, <2>3 DEF ResetFailedTargets
<1>6. ASSUME NEW r \in Request, NEW e \in Deploy,
             ResumeSet(r) \/ CancelSet(r) \/ ResumeRead(r, e) \/ CancelRead(r, e)
      PROVE FALSE
  BY <1>6 DEF ResumeSet, CancelSet, ResumeRead, CancelRead, SetDeployState, dbVars
<1>7. ASSUME NEW e \in Deploy, NEW j \in Device, Elapse(e, j) PROVE FALSE
  BY <1>7 DEF Elapse
<1>8. ASSUME Crash PROVE FALSE
  BY <1>8 DEF Crash, dbVars
<1> QED
  BY <1>2, <1>3, <1>4, <1>5, <1>6, <1>7, <1>8 DEF Next, Step, Handle

\* A deploy is handed to a Rollout once, when its row is created.
LEMMA RolloutStep ==
  ASSUME RolloutInv, Next, NEW d \in Deploy, deployState[d] # "none", rolloutPc[d] # "add"
  PROVE  rolloutPc'[d] # "add"
<1>t. TypeOK
  BY DEF RolloutInv, PublishedInv
<1>1. CASE UNCHANGED rolloutPc
  BY <1>1
<1>2. ASSUME NEW e \in Deploy, CreateDeploy(e) \/ Rollout(e) PROVE rolloutPc'[d] # "add"
  BY <1>2, <1>t DEF TypeOK, CreateDeploy, Rollout, AddTarget, StartTriggering, RolloutPublish,
     RolloutRecord, RolloutReturn
<1>3. CASE Crash
  BY <1>3 DEF Crash
<1>4. CASE Reconcile \/ OnStatus
  BY <1>1, <1>4
     DEF Reconcile, ReconcileDeploy, ListActiveDeploys, LoadTargets, MarkLost, Resend, Pause,
         Complete, Settle, Promote, Wait, PromotePublish, PromoteRecord, PromoteReturn, OnStatus,
         OnTaggedStatus, OnUntaggedStatus, AdvanceLatest, rolloutVars
<1>5. ASSUME NEW r \in Request, NEW e \in Deploy,
             Handle(r) \/ ResumeRead(r, e) \/ CancelRead(r, e)
      PROVE UNCHANGED rolloutPc
  BY <1>5 DEF Handle, ResetFailedTargets, ResumeSet, CancelSet, ResumeRead, CancelRead, rolloutVars
<1>6. ASSUME NEW e \in Deploy, NEW j \in Device, Elapse(e, j) PROVE UNCHANGED rolloutPc
  BY <1>6 DEF Elapse, rolloutVars
<1> QED
  BY <1>1, <1>2, <1>3, <1>4, <1>5, <1>6 DEF Next, Step

\* A deploy is never removed.
LEMMA StateStep ==
  ASSUME RolloutInv, Next, NEW d \in Deploy, deployState[d] # "none"
  PROVE  deployState'[d] # "none"
<1> SUFFICES ASSUME deployState'[d] = "none" PROVE FALSE
  OBVIOUS
<1>t. TypeOK
  BY DEF RolloutInv, PublishedInv
<1>1. ASSUME NEW e \in Deploy, NEW s, SetDeployState(e, s), s # "none" PROVE FALSE
  BY <1>1, <1>t DEF SetDeployState, TypeOK
<1>2. ASSUME NEW e \in Deploy, CreateDeploy(e) \/ Rollout(e) PROVE FALSE
  BY <1>1, <1>2 DEF CreateDeploy, Rollout, AddTarget, StartTriggering, RolloutPublish,
     RolloutRecord, RolloutReturn, dbVars
<1>3. ASSUME Reconcile PROVE FALSE
  BY <1>1, <1>3
     DEF Reconcile, ReconcileDeploy, ListActiveDeploys, LoadTargets, MarkLost, Resend, Promote,
         Wait, PromotePublish, PromoteRecord, PromoteReturn, Pause, Complete, Settle, dbVars
<1>4. ASSUME OnStatus PROVE FALSE
  BY <1>4 DEF OnStatus, OnTaggedStatus, OnUntaggedStatus, AdvanceLatest, dbVars
<1>5. ASSUME NEW r \in Request, Handle(r) PROVE FALSE
  BY <1>1, <1>5, <1>t DEF Handle, ResetFailedTargets, ResumeSet, CancelSet, TypeOK, dbVars
<1>6. ASSUME NEW r \in Request, NEW e \in Deploy, ResumeRead(r, e) \/ CancelRead(r, e)
      PROVE FALSE
  BY <1>6 DEF ResumeRead, CancelRead, dbVars
<1>7. ASSUME NEW e \in Deploy, NEW j \in Device, Elapse(e, j) PROVE FALSE
  BY <1>7 DEF Elapse
<1>8. ASSUME Crash PROVE FALSE
  BY <1>8 DEF Crash, dbVars
<1> QED
  BY <1>2, <1>3, <1>4, <1>5, <1>6, <1>7, <1>8 DEF Next, Step

\* Once the rows are there, a pass sees them all.
LEMMA ScanStep ==
  ASSUME RolloutInv, Next, NEW d \in Deploy, RowsAreThere(d), recPc' = "scan", Current(d)'
  PROVE  SawEveryRow(d)'
<1>t. TypeOK
  BY DEF RolloutInv, PublishedInv
<1>r. \A i \in Device : status[d][i] = "absent" => status'[d][i] = "absent"
  BY RowStep DEF RowsAreThere
<1>1. ASSUME UNCHANGED <<recPc, recQueue>>, \A i \in Device : snap'[i] = "absent" => snap[i] = "absent"
      PROVE  SawEveryRow(d)'
  BY <1>1, <1>r DEF RowsAreThere, SawEveryRow, Current
<1>2. CASE UNCHANGED recVars
  BY <1>1, <1>2 DEF recVars
<1>3. ASSUME NEW e \in Deploy, Leave(e) PROVE FALSE
  BY <1>3 DEF Leave
<1>4. ASSUME NEW e \in Deploy, LoadTargets(e) PROVE SawEveryRow(d)'
  <2>1. /\ Current(e) /\ UNCHANGED <<status, recQueue>> /\ snap' = status[e]
    BY <1>3, <1>4 DEF LoadTargets, dbVars
  <2>2. Current(d)
    BY <2>1 DEF Current
  <2>3. d = e
    BY <1>t, <2>1, <2>2, CurrentUnique
  <2> QED
    BY <2>1, <2>3 DEF SawEveryRow
<1>5. ASSUME NEW e \in Deploy, NEW j \in Device, MarkLost(e, j) PROVE SawEveryRow(d)'
  <2>1. UNCHANGED <<recPc, recQueue>> /\ (UNCHANGED snap \/ snap' = [snap EXCEPT ![j] = "lost"])
    BY <1>5 DEF MarkLost
  <2>2. \A i \in Device : snap'[i] = "absent" => snap[i] = "absent"
    BY <1>t, <2>1 DEF TypeOK
  <2> QED
    BY <1>1, <2>1, <2>2
<1>6. CASE Reconcile
  BY <1>1, <1>3, <1>4, <1>5, <1>6
     DEF Reconcile, ReconcileDeploy, ListActiveDeploys, Resend, Pause, Complete, Settle, Promote,
         Wait, PromotePublish, PromoteRecord, PromoteReturn
<1>7. ASSUME NEW e \in Deploy, CreateDeploy(e) \/ Rollout(e) PROVE UNCHANGED recVars
  BY <1>7 DEF CreateDeploy, Rollout, AddTarget, StartTriggering, RolloutPublish, RolloutRecord,
     RolloutReturn
<1>8. CASE OnStatus
  BY <1>2, <1>8 DEF OnStatus, OnTaggedStatus, OnUntaggedStatus, AdvanceLatest
<1>9. ASSUME NEW r \in Request, NEW e \in Deploy,
             Handle(r) \/ ResumeRead(r, e) \/ CancelRead(r, e)
      PROVE UNCHANGED recVars
  BY <1>9 DEF Handle, ResetFailedTargets, ResumeSet, CancelSet, ResumeRead, CancelRead
<1>10. ASSUME NEW e \in Deploy, NEW j \in Device, Elapse(e, j) PROVE UNCHANGED recVars
  BY <1>10 DEF Elapse
<1>11. ASSUME Crash PROVE FALSE
  BY <1>11 DEF Crash
<1> QED
  BY <1>2, <1>6, <1>7, <1>8, <1>9, <1>10, <1>11 DEF Next, Step

LEMMA RowsStay ==
  ASSUME RolloutInv, Next, NEW d \in Deploy, RowsAreThere(d) PROVE RowsAreThere(d)'
  BY StateStep, RolloutStep, ScanStep DEF RowsAreThere

\* While no row comes and no failure is reset, a batch that has settled keeps its
\* verdict.
LEMMA BatchStays ==
  ASSUME RolloutInv, Next, NEW d \in Deploy, rolloutPc[d] # "add", ~Retry(d), NEW b \in Batches, AllTerminal(status[d], b)
  PROVE  AllTerminal(status'[d], b)
         /\ (FailureExceeded(status'[d], b) <=> FailureExceeded(status[d], b))
<1>1. \A i \in TargetsInBatch(status[d], b) : status'[d][i] = status[d][i]
  <2> SUFFICES ASSUME NEW i \in Device, status[d][i] \in Terminal, status'[d][i] # status[d][i]
               PROVE  FALSE
    BY DEF AllTerminal, TargetsInBatch
  <2> QED
    BY OutcomeStep DEF RolloutInv, Retry
<1>2. \A i \in Device : status[d][i] = "absent" => status'[d][i] = "absent"
  BY RowStep
<1>3. TargetsInBatch(status'[d], b) = TargetsInBatch(status[d], b)
  BY <1>1, <1>2 DEF TargetsInBatch
<1> QED
  BY <1>1, <1>3, SameVerdict

-----------------------------------------------------------------------------
LEMMA InitPages == PagesInit => PagesInv
<1> SUFFICES ASSUME PagesInit PROVE PagesInv
  OBVIOUS
<1>1. PageTypes
  BY DEF PagesInit, PageTypes
<1>2. \A d \in Deploy : ~Shown(d, "completed") /\ ~Shown(d, "paused")
  BY DEF PagesInit, Init, Shown
<1> QED
  BY <1>1, <1>2 DEF PagesInv, CompletedIsKept, PauseIsKept

\* Reading changes what is shown to what is stored, or to nothing.
LEMMA ReadStep ==
  ASSUME RolloutInv, PagesInv, NEW d \in Deploy, ReadDeploy(d) \/ ReadTargets(d)
  PROVE  PagesInv'
<1>1. /\ UNCHANGED <<deployState, status, rolloutPc, recPc, recQueue, snap, hasty, retried>>
      /\ pageState' = [pageState EXCEPT ![d] = deployState[d]]
         \/ pageState' = [pageState EXCEPT ![d] = "none"]
  BY DEF ReadDeploy, ReadTargets, vars, dbVars, rolloutVars, recVars
<1>2. PageTypes'
  <2>1. deployState[d] \in State \cup {"none"}
    BY DEF RolloutInv, PublishedInv, TypeOK
  <2>2. pageState' \in [Deploy -> State \cup {"none"}]
    BY <1>1, <2>1 DEF PagesInv, PageTypes
  <2> QED
    BY <1>1, <2>2 DEF PagesInv, PageTypes
<1>3. \A e \in Deploy : \A s \in Decided : Shown(e, s)' => Shown(e, s)
  BY <1>1 DEF PagesInv, PageTypes, Shown, Decided
<1>4. \A e \in Deploy : RowsAreThere(e) => RowsAreThere(e)'
  BY <1>1 DEF RowsAreThere, Current, SawEveryRow
<1> QED
  BY <1>1, <1>2, <1>3, <1>4 DEF PagesInv, CompletedIsKept, PauseIsKept, Decided

\* A step of the service keeps what a verdict was about, and judges it the same if it
\* judges it again.
LEMMA ServeStep ==
  ASSUME RolloutInv, PagesInv, Serve, ResetsWhatIsPaused
  PROVE  PagesInv'
<1>1. Next /\ UNCHANGED pageState
  BY DEF Serve
<1>2. PageTypes'
  BY DEF Serve, PagesInv, PageTypes
<1>3. \A d \in Deploy :
         /\ hasty'[d] <=> IF Verdict(d)
                          THEN \/ rolloutPc[d] = "add" \/ ~SawEveryRow(d)
                               \/ pageState[d] \in Decided /\ hasty[d]
                          ELSE hasty[d]
         /\ retried'[d] <=> \/ Retry(d)
                            \/ retried[d] /\ (Verdict(d) => pageState[d] \in Decided)
  BY DEF Serve
\* a verdict is written on a deploy that is not paused, and is true of the targets
<1>4. ASSUME NEW d \in Deploy, Verdict(d), ~hasty'[d]
      PROVE  /\ RowsAreThere(d)' /\ UNCHANGED status
             /\ deployState'[d] = "paused" => \E b \in Batches : BatchTripped(status[d], b)
             /\ deployState'[d] = "completed" => \A b \in Batches : Cleared(status[d], b)
             /\ pageState[d] \in Decided => ~hasty[d]
             /\ ~Retry(d)
  <2>1. /\ rolloutPc[d] # "add" /\ SawEveryRow(d)
        /\ pageState[d] \in Decided => ~hasty[d]
    BY <1>3, <1>4
  <2>2. deployState'[d] # deployState[d] /\ deployState'[d] \in {"paused", "completed"}
    BY <1>4 DEF Verdict, Decided
  <2>3. /\ d \notin recQueue' /\ UNCHANGED <<status, rolloutPc>>
        /\ deployState'[d] = "paused" => \E b \in Batches : BatchTripped(status[d], b)
        /\ deployState'[d] = "completed" => \A b \in Batches : Cleared(status[d], b)
    BY <1>1, <2>1, <2>2, VerdictWrites
  <2>4. RowsAreThere(d)'
    BY <2>1, <2>2, <2>3 DEF RowsAreThere, Current, Least
  <2>5. UNCHANGED reqVars
    BY <1>1, <2>2, VerdictStep DEF Pause, Complete, Settle
  <2>6. ~Retry(d)
    BY <2>5 DEF reqVars, Retry
  <2> QED
    BY <2>1, <2>3, <2>4, <2>6
<1>5. CompletedIsKept'
  <2> SUFFICES ASSUME NEW d \in Deploy, Shown(d, "completed")', ~hasty'[d]
               PROVE  /\ RowsAreThere(d)' /\ deployState'[d] # "paused"
                      /\ \A b \in Batches : Cleared(status'[d], b)
    BY DEF CompletedIsKept
  <2>1. ASSUME Shown(d, "completed"), ~hasty[d]
        PROVE  /\ RowsAreThere(d) /\ deployState[d] # "paused"
               /\ \A b \in Batches : Cleared(status[d], b)
    BY <2>1 DEF PagesInv, CompletedIsKept
  <2>2. CASE Verdict(d)
    <3>1. CASE deployState'[d] = "completed"
      BY <1>4, <2>2, <3>1
    <3>2. CASE deployState'[d] # "completed"
      <4>1. deployState'[d] = "paused" /\ pageState[d] = "completed"
        BY <1>1, <2>2, <3>2 DEF Shown, Verdict, Decided
      <4>2. \A b \in Batches : Cleared(status[d], b)
        BY <1>4, <2>1, <2>2, <4>1 DEF Shown, Decided
      <4>3. \E b \in Batches : BatchTripped(status[d], b)
        BY <1>4, <2>2, <4>1
      <4> QED
        BY <4>2, <4>3 DEF Cleared, BatchTripped
    <3> QED
      BY <3>1, <3>2
  <2>3. CASE ~Verdict(d)
    <3>1. Shown(d, "completed") /\ ~hasty[d]
      BY <1>1, <1>3, <2>3 DEF Shown, Verdict, Decided
    <3>2. ~Retry(d)
      BY <2>1, <3>1 DEF Retry, ResetsWhatIsPaused
    <3>3. \A b \in Batches : Cleared(status'[d], b)
      BY <1>1, <2>1, <3>1, <3>2, BatchStays DEF Cleared, RowsAreThere
    <3>4. deployState'[d] # "paused"
      BY <2>1, <2>3, <3>1 DEF Verdict, Decided
    <3> QED
      BY <1>1, <2>1, <3>1, <3>3, <3>4, RowsStay
  <2> QED
    BY <2>2, <2>3
<1>6. PauseIsKept'
  <2> SUFFICES ASSUME NEW d \in Deploy, Shown(d, "paused")', ~hasty'[d], ~retried'[d]
               PROVE  RowsAreThere(d)' /\ \E b \in Batches : BatchTripped(status'[d], b)
    BY DEF PauseIsKept
  <2>1. ASSUME Shown(d, "paused"), ~hasty[d], ~retried[d]
        PROVE  RowsAreThere(d) /\ \E b \in Batches : BatchTripped(status[d], b)
    BY <2>1 DEF PagesInv, PauseIsKept
  <2>2. CASE Verdict(d)
    <3>1. CASE deployState'[d] = "paused"
      BY <1>4, <2>2, <3>1
    <3>2. CASE deployState'[d] # "paused"
      <4>1. pageState[d] = "paused"
        BY <1>1, <3>2 DEF Shown
      <4>2. \E b \in Batches : BatchTripped(status[d], b)
        BY <1>3, <1>4, <2>1, <2>2, <4>1 DEF Shown, Decided
      <4> QED
        BY <1>4, <2>2, <4>2
    <3> QED
      BY <3>1, <3>2
  <2>3. CASE ~Verdict(d)
    <3>1. Shown(d, "paused") /\ ~hasty[d] /\ ~retried[d] /\ ~Retry(d)
      BY <1>1, <1>3, <2>3 DEF Shown, Verdict, Decided
    <3>2. \E b \in Batches : BatchTripped(status'[d], b)
      BY <1>1, <2>1, <3>1, BatchStays DEF BatchTripped, RowsAreThere
    <3> QED
      BY <1>1, <2>1, <3>1, <3>2, RowsStay
  <2> QED
    BY <2>2, <2>3
<1> QED
  BY <1>2, <1>5, <1>6 DEF PagesInv

LEMMA PagesStep ==
  ASSUME RolloutInv, PagesInv, [PagesNext]_<<vars, pageVars>>, [ResetsWhatIsPaused]_vars
  PROVE  RolloutInv' /\ PagesInv'
<1>1. ResetsWhatIsPaused
  BY DEF vars, reqVars, ResetsWhatIsPaused
<1>2. [Next]_vars
  BY DEF PagesNext, Serve, ReadDeploy, ReadTargets
<1>3. RolloutInv'
  BY <1>1, <1>2, RolloutInvStep
<1>4. CASE UNCHANGED <<vars, pageVars>>
  <2>1. UNCHANGED <<deployState, status, rolloutPc, recPc, recQueue, snap, pageState, hasty, retried>>
    BY <1>4 DEF vars, dbVars, rolloutVars, recVars, pageVars
  <2>2. \A d \in Deploy : RowsAreThere(d)' <=> RowsAreThere(d)
    BY <2>1 DEF RowsAreThere, Current, SawEveryRow
  <2>3. PagesInv'
    BY <2>1, <2>2 DEF PagesInv, PageTypes, CompletedIsKept, PauseIsKept, Shown
  <2> QED
    BY <1>3, <2>3
<1> QED
  BY <1>1, <1>3, <1>4, ServeStep, ReadStep DEF PagesNext

-----------------------------------------------------------------------------
(* The page names a batch that stopped the rollout: the threshold as configured *)
(* and the one the service clamps it to say the same of a batch, unless it is   *)
(* below 0.                                                                     *)
LEMMA TrippedIsExplained ==
  ASSUME FailureThreshold >= 0, NEW st, NEW c \in Batches, BatchTripped(st, c)
  PROVE  Explained(st)
<1> DEFINE F(b) == Failed(st, b)
           T(b) == Total(st, b)
<1>1. ASSUME NEW b \in Batches PROVE F(b) \in Nat /\ T(b) \in Nat /\ F(b) <= T(b)
  BY BatchesAreFinite DEF Failed, Total
<1>2. \A b \in Batches : FailureExceeded(st, b) <=> F(b) * 100 > Threshold * T(b)
  BY DEF FailureExceeded, Failed, Total
<1>3. Threshold = FailureThreshold
  <2>1. F(c) * 100 > Threshold * T(c)
    BY <1>2 DEF BatchTripped
  <2>2. CASE FailureThreshold > 100
    <3>1. Threshold = 100
      BY <2>2, ConstantsAssumption DEF Threshold
    <3> QED
      BY <1>1, <2>1, <3>1
  <2> QED
    BY <2>2, ConstantsAssumption DEF Threshold
<1>4. ASSUME NEW b \in Batches PROVE b \in PauseInfo(st) <=> T(b) > 0 /\ BatchTripped(st, b)
  BY <1>2, <1>3 DEF PauseInfo, BatchTripped, Failed, Total
<1>5. T(c) > 0
  <2>1. F(c) * 100 > Threshold * T(c)
    BY <1>2 DEF BatchTripped
  <2>2. CASE T(c) = 0
    <3>1. F(c) = 0 /\ Threshold * T(c) = 0
      BY <1>1, <1>3, <2>2, ConstantsAssumption
    <3> QED
      BY <2>1, <3>1
  <2> QED
    BY <1>1, <2>2
<1>6. PauseInfo(st) \subseteq {0, 1} /\ c \in PauseInfo(st)
  BY <1>4, <1>5 DEF PauseInfo, Batches
<1>7. PICK b \in PauseInfo(st) : Least(b, PauseInfo(st))
  BY <1>6 DEF Least
<1> QED
  BY <1>4, <1>6, <1>7 DEF Explained, Batches

LEMMA PagesAlways ==
    PagesSpec /\ [][ResetsWhatIsPaused]_vars => [](RolloutInv /\ PagesInv)
<1>1. PagesInit => RolloutInv /\ PagesInv
  BY InitIInv, InitPages DEF PagesInit, IInv
<1>2. RolloutInv /\ PagesInv /\ [PagesNext]_<<vars, pageVars>> /\ [ResetsWhatIsPaused]_vars
        => RolloutInv' /\ PagesInv'
  BY PagesStep
<1> QED
  BY <1>1, <1>2, PTL DEF PagesSpec

\* A deploy shown as completed is shown with every batch settled within the threshold:
\* what ListDeploys or GetDeploy read, and what TargetsForDeploy reads later, agree.
\* For any number of operators at once, as long as none of them resets targets of a
\* deploy that another has resumed or cancelled since it was read.
THEOREM CompletedPagesAgree ==
    PagesSpec /\ [][ResetsWhatIsPaused]_vars => []CompletedPagesAreSettled
<1>1. PagesInv => CompletedPagesAreSettled
  BY DEF PagesInv, CompletedIsKept, Shown, CompletedPagesAreSettled
<1> QED
  BY <1>1, PagesAlways, PTL

\* A deploy shown as paused is shown with a batch that has tripped, and the first one
\* that PauseInfo finds is one the reconcile loop stops at. For any operators, on the
\* same condition, and thresholds that are not negative.
THEOREM PausedPagesAgree ==
  ASSUME FailureThreshold >= 0
  PROVE  PagesSpec /\ [][ResetsWhatIsPaused]_vars => []PausedPagesAreExplained
<1>1. PagesInv => PausedPagesAreExplained
  <2> SUFFICES ASSUME PagesInv, NEW d \in Deploy,
                      pageState[d] = "paused", ~hasty[d], ~retried[d]
               PROVE  Explained(status[d])
    BY DEF PausedPagesAreExplained
  <2>1. PICK b \in Batches : BatchTripped(status[d], b)
    BY DEF PagesInv, PauseIsKept, Shown
  <2> QED
    BY <2>1, TrippedIsExplained
<1> QED
  BY <1>1, PagesAlways, PTL
=============================================================================
