------------------------ MODULE DeployStaged_proofs ------------------------
(***************************************************************************)
(* The deploy service implements StagedRollout.                            *)
(***************************************************************************)
EXTENDS DeployService_proofs

\* Every step of the service is a step of the abstract rollout or a stutter.
LEMMA StagedStep ==
  ASSUME RolloutInv, [Next]_vars PROVE [Staged!Next]_(Staged!vars)
<1> USE DEF dbVars, rolloutVars, recVars, reqVars
<1>1. CASE UNCHANGED vars
  BY <1>1 DEF vars, Staged!vars
<1>2. CASE Next
  <2> DEFINE Goal == [Staged!Next]_(Staged!vars)
  <2>t. TypeOK /\ PublishedInv
    BY DEF RolloutInv, PublishedInv
  <2>o. Observe
    BY <1>2 DEF Next
  <2>1. ASSUME UNCHANGED <<status, sent>> PROVE Goal
    <3>1. \A d \in Deploy : (cleared[d] \/ CanaryCleared(status'[d])) = cleared[d]
      BY <2>1, <2>t DEF RolloutInv, PublishedInv, PromotionsAreCleared, TypeOK
    <3>2. cleared' = cleared
      BY <2>o, <2>t, <3>1 DEF Observe, TypeOK
    <3> QED
      BY <2>1, <3>2 DEF Staged!vars
  <2>2. ASSUME NEW d \in Deploy, NEW i \in Device, Publish(d, i), UNCHANGED status,
               ~InCanary(i) => cleared[d]
        PROVE  Goal
    <3>1. Staged!Send(d, i)
      BY <2>2 DEF Publish, Staged!Send
    <3> QED
      BY <2>o, <3>1 DEF Observe, Staged!Next
  <2>3. ASSUME NEW d \in Deploy, NEW i \in Device, NEW s \in Status \ {"pending"},
               AdvanceTargetStatus(d, i, s), UNCHANGED sent,
               s = "triggered" => sent[d][i],
               s \in {"downloading", "succeeded"} => sent[d][i] \/ i \in Legacy
        PROVE  Goal
    <3>1. CASE ~CanAdvance(d, i, s)
      BY <2>1, <2>3, <3>1 DEF AdvanceTargetStatus
    <3>2. CASE CanAdvance(d, i, s)
      <4>1. status[d][i] \in Staged!Open
        BY <2>t, <3>2 DEF CanAdvance, TypeOK, Status, Terminal, Staged!Open
      <4>2. Staged!Progress(d, i, s)
        BY <2>3, <3>2, <4>1 DEF AdvanceTargetStatus, SetTarget, Staged!Progress, Staged!Move
      <4>3. s \in Staged!Status \ {"pending"}
        BY DEF Status, Terminal, Staged!Status, Staged!Open, Staged!Failed
      <4> QED
        BY <2>o, <4>2, <4>3 DEF Observe, Staged!Next
    <3> QED
      BY <3>1, <3>2
  <2>4. ASSUME NEW d \in Deploy, CreateDeploy(d) \/ Rollout(d) PROVE Goal
    <3>1. ASSUME AddTarget(d) PROVE Goal
      <4>1. CASE UNCHANGED status
        BY <2>1, <3>1, <4>1 DEF AddTarget
      <4>2. CASE SetTarget(d, addNext[d], "pending")
        <5>1. addNext[d] \in Device /\ status[d][addNext[d]] = "absent"
          BY <2>t, <3>1 DEF AddTarget, RolloutInv, PublishedInv, RolloutLocals, TypeOK, Device
        <5>2. Staged!Add(d, addNext[d])
          BY <3>1, <4>2, <5>1 DEF AddTarget, SetTarget, Staged!Add, Staged!Move
        <5> QED
          BY <2>o, <5>1, <5>2 DEF Observe, Staged!Next
      <4> QED
        BY <3>1, <4>1, <4>2 DEF AddTarget
    <3>2. ASSUME NEW i \in Device, RolloutPublish(d, i) PROVE Goal
      <4>1. InCanary(i)
        BY <3>2 DEF RolloutPublish, RolloutInv, PublishedInv, RolloutLocals, Least
      <4> QED
        BY <2>1, <2>2, <3>2, <4>1 DEF RolloutPublish
    <3>3. ASSUME NEW i \in Device, RolloutRecord(d, i) PROVE Goal
      <4>1. rolloutPc[d] = "record" => sent[d][i]
        BY <3>3 DEF RolloutRecord, RolloutInv, PublishedInv, RolloutLocals
      <4> QED
        BY <2>1, <2>3, <3>3, <4>1 DEF RolloutRecord, Status, Terminal
    <3> QED
      BY <2>1, <2>4, <3>1, <3>2, <3>3
         DEF CreateDeploy, SetDeployState, Rollout, StartTriggering, RolloutReturn
  <2>5. CASE Reconcile
    <3>1. ASSUME NEW d \in Deploy, NEW i \in Device, MarkLost(d, i) PROVE Goal
      BY <2>1, <2>3, <3>1 DEF MarkLost, Status, Terminal
    <3>2. ASSUME NEW d \in Deploy, NEW i \in Device, Resend(d, i) PROVE Goal
      <4>1. sent[d][i]
        BY <3>2 DEF Resend, RolloutInv, PublishedInv, CommandsArePublished
      <4>2. ~InCanary(i) => cleared[d]
        BY <4>1 DEF RolloutInv, PublishedInv, CanaryGate
      <4> QED
        BY <2>1, <2>2, <3>2, <4>2 DEF Resend
    <3>3. ASSUME NEW d \in Deploy, NEW i \in Device, PromotePublish(d, i) PROVE Goal
      <4>1. ~InCanary(i) => cleared[d]
        BY <3>3 DEF PromotePublish, RolloutInv, PublishedInv, PromotionsAreCleared, Promoting, Least
      <4> QED
        BY <2>1, <2>2, <3>3, <4>1 DEF PromotePublish
    <3>4. ASSUME NEW d \in Deploy, NEW i \in Device, PromoteRecord(d, i) PROVE Goal
      <4>1. recPc = "record" => sent[d][i]
        BY <3>4 DEF PromoteRecord, RolloutInv, PublishedInv, CommandsArePublished
      <4> QED
        BY <2>1, <2>3, <3>4, <4>1 DEF PromoteRecord, Status, Terminal
    <3> QED
      BY <2>1, <2>5, <3>1, <3>2, <3>3, <3>4
         DEF Reconcile, ReconcileDeploy, ListActiveDeploys, LoadTargets, Pause, Complete, Settle,
             SetDeployState, Promote, Wait, PromoteReturn
  <2>6. CASE OnStatus
    <3>1. ASSUME NEW i \in Device, NEW d \in Deploy, NEW s \in Reported, OnTaggedStatus(i, d, s)
          PROVE  Goal
      <4>1. PICK e \in MatchingDeploys(i, Sequence[d], s) : SetTarget(e, i, s)
        BY <3>1 DEF OnTaggedStatus
      <4>2. sent[d][i] /\ UNCHANGED sent /\ e = d /\ CanAdvance(d, i, s)
        BY <3>1, <4>1, SequenceAssumption
           DEF OnTaggedStatus, MatchingDeploys, RolloutInv, PublishedInv, CommandsArePublished, HasCommand
      <4> QED
        BY <2>3, <4>1, <4>2 DEF AdvanceTargetStatus, Reported, Status, Terminal
    <3>2. ASSUME NEW i \in Device, AdvanceLatest(i) PROVE Goal
      <4> DEFINE d == onStatus[i][1]
                 s == onStatus[i][2]
      <4>1. /\ onStatus[i] # <<>> /\ AdvanceTargetStatus(d, i, s) /\ UNCHANGED sent
        BY <3>2 DEF AdvanceLatest
      <4>2. d \in Deploy /\ s \in Reported /\ i \in Legacy
        BY <2>t, <4>1 DEF TypeOK, RolloutInv, PublishedInv, LegacyReports
      <4>3. s \in Status \ {"pending"} /\ s # "triggered"
        BY <4>2 DEF Reported, Status, Terminal
      <4> HIDE DEF d, s
      <4> QED
        BY <2>3, <4>1, <4>2, <4>3
    <3> QED
      BY <2>1, <2>6, <3>1, <3>2 DEF OnStatus, OnUntaggedStatus
  <2>7. ASSUME NEW r \in Request, Handle(r) PROVE Goal
    <3>1. CASE UNCHANGED status
      BY <2>1, <2>7, <3>1 DEF Handle, ResetFailedTargets, ResumeSet, CancelSet
    <3>2. CASE ResetFailedTargets(r) /\ ~UNCHANGED status
      <4> DEFINE d == reqDeploy[r]
      <4>0. d \in Deploy
        BY <2>t DEF TypeOK
      <4>1. /\ UNCHANGED sent
            /\ status' = [status EXCEPT ![d] =
                 [i \in Device |-> IF i \in {j \in Device : status[d][j] \in Failure}
                                   THEN "pending" ELSE status[d][i]]]
        BY <3>2 DEF ResetFailedTargets
      <4>2. [i \in Device |-> IF i \in {j \in Device : status[d][j] \in Failure}
                              THEN "pending" ELSE status[d][i]]
              = [i \in Device |-> IF status[d][i] \in Failure THEN "pending" ELSE status[d][i]]
        OBVIOUS
      <4>3. Staged!Retry(d)
        BY <4>1, <4>2 DEF Staged!Retry, Staged!Failed, Failure
      <4> QED
        BY <2>o, <4>0, <4>3 DEF Observe, Staged!Next
    <3> QED
      BY <2>7, <3>1, <3>2 DEF Handle, ResumeSet, CancelSet, SetDeployState
  <2>8. ASSUME NEW r \in Request, NEW d \in Deploy, ResumeRead(r, d) \/ CancelRead(r, d)
        PROVE Goal
    BY <2>1, <2>8 DEF ResumeRead, CancelRead
  <2>9. ASSUME NEW d \in Deploy, NEW i \in Device, Elapse(d, i) PROVE Goal
    BY <2>1, <2>9 DEF Elapse
  <2>10. CASE Crash
    BY <2>1, <2>10 DEF Crash
  <2> QED
    BY <1>2, <2>4, <2>5, <2>6, <2>7, <2>8, <2>9, <2>10 DEF Next, Step
<1> QED
  BY <1>1, <1>2

\* The deploy service implements the staged rollout, for any fleet, canary
\* percentage and threshold, with any operators under the condition of
\* StagedRolloutIsSafe.
THEOREM StagedRefinement ==
    Spec /\ [][ResetsWhatIsPaused]_vars => ImplementsStagedRollout
<1>1. Init => Staged!Init
  BY DEF Init, Staged!Init
<1>2. RolloutInv /\ [Next]_vars => [Staged!Next]_(Staged!vars)
  BY StagedStep
<1> QED
  BY <1>1, <1>2, RolloutInvHolds, PTL DEF Spec, ImplementsStagedRollout, Staged!Spec
=============================================================================
