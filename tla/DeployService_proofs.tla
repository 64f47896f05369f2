----------------------- MODULE DeployService_proofs ------------------------
(***************************************************************************)
(* Proofs about DeployService, for every number of deploys and devices,    *)
(* every canary percentage and failure threshold, and any number of faults.*)
(***************************************************************************)
EXTENDS DeployServiceInv, FiniteSetTheorems, TLAPS

\* Every variable keeps its type: the loops of Rollout and Reconcile stay
\* within the fleet and every table write stores a known status and state.
LEMMA TypeStep == TypeOK /\ [Next]_vars => TypeOK'
<1> SUFFICES ASSUME TypeOK, [Next]_vars PROVE TypeOK'
  OBVIOUS
<1> DEFINE StatusOK == status' \in [Deploy -> [Device -> Status \cup {"absent"}]]
           AgeOK == age' \in [Deploy -> [Device -> Fresh..Expired]]
           StateOK == deployState' \in [Deploy -> State \cup {"none"}]
           SentOK == sent' \in [Deploy -> [Device -> BOOLEAN]]
           LoopOK == /\ recPc' \in {"idle", "load", "scan", "publish", "record", "fail"}
                     /\ recQueue' \in SUBSET Deploy
                     /\ snap' \in [Device -> Status \cup {"absent"}]
                     /\ recLost' \in SUBSET Device
                     /\ recResend' \in SUBSET Device
                     /\ recTodo' \in SUBSET Device
           ReqOK == /\ reqPc' \in [Request -> {"idle", "reset", "set", "cancel"}]
                    /\ reqDeploy' \in [Request -> Deploy]
<1> USE DEF dbVars, rolloutVars, recVars, reqVars
<1>1. Fault => faults' \in 0..MaxFaults
  BY ConstantsAssumption DEF TypeOK, Fault
<1>2. ASSUME NEW d \in Deploy, NEW i \in Device, NEW s \in Status, SetTarget(d, i, s)
      PROVE StatusOK /\ AgeOK
  BY <1>2 DEF TypeOK, SetTarget, Fresh, Expired
<1>3. ASSUME NEW d \in Deploy, NEW i \in Device, NEW s \in Status, AdvanceTargetStatus(d, i, s)
      PROVE StatusOK /\ AgeOK
  BY <1>2, <1>3 DEF TypeOK, AdvanceTargetStatus
<1>4. ASSUME NEW d \in Deploy, NEW s \in State, SetDeployState(d, s)
      PROVE StateOK /\ StatusOK /\ AgeOK
  BY <1>4 DEF TypeOK, SetDeployState
<1>5. ASSUME NEW d \in Deploy, NEW i \in Device, Publish(d, i) PROVE SentOK
  BY <1>5 DEF TypeOK, Publish
<1>6. ASSUME NEW d \in Deploy, Leave(d) PROVE LoopOK
  BY <1>6 DEF TypeOK, Leave
<1>7. ASSUME NEW r \in Request, Return(r) PROVE ReqOK
  BY <1>7 DEF TypeOK, Return
<1>8. {"pending", "triggered", "failed", "lost"} \cup Reported \subseteq Status
  BY DEF Status, Terminal, Reported
<1>9. CASE UNCHANGED vars
  BY <1>9 DEF vars, TypeOK
<1>10. CASE Next
  <2>0. cleared' \in [Deploy -> BOOLEAN]
    BY <1>10 DEF Next, Observe
  <2>1. ASSUME NEW d \in Deploy, CreateDeploy(d) PROVE TypeOK'
    BY <1>4, <2>0, <2>1 DEF TypeOK, CreateDeploy, State
  <2>2. ASSUME NEW d \in Deploy, AddTarget(d) PROVE TypeOK'
    <3>1. addNext[d] \in Device
      BY <2>2 DEF AddTarget
    <3>2. addNext' \in [Deploy -> 1..(NumDevices + 1)]
      BY <2>2, <3>1, ConstantsAssumption DEF TypeOK, AddTarget, Device
    <3>3. rolloutTodo' \in [Deploy -> SUBSET Device]
      BY <2>2, <3>1 DEF TypeOK, AddTarget
    <3> QED
      BY <1>1, <1>2, <1>8, <2>0, <2>2, <3>1, <3>2, <3>3 DEF TypeOK, AddTarget
  <2>3. ASSUME NEW d \in Deploy, StartTriggering(d) PROVE TypeOK'
    BY <2>0, <2>3 DEF TypeOK, StartTriggering
  <2>4. ASSUME NEW d \in Deploy, NEW i \in Device, RolloutPublish(d, i) PROVE TypeOK'
    BY <1>1, <1>5, <2>0, <2>4 DEF TypeOK, RolloutPublish
  <2>5. ASSUME NEW d \in Deploy, NEW i \in Device, RolloutRecord(d, i) PROVE TypeOK'
    <3>1. StatusOK /\ AgeOK
      BY <1>3, <1>8, <2>5 DEF TypeOK, RolloutRecord
    <3>2. faults' \in 0..MaxFaults
      BY <1>1, <2>5 DEF TypeOK, RolloutRecord
    <3> QED
      BY <2>0, <2>5, <3>1, <3>2 DEF TypeOK, RolloutRecord
  <2>6. ASSUME NEW d \in Deploy, RolloutReturn(d) PROVE TypeOK'
    BY <2>0, <2>6 DEF TypeOK, RolloutReturn
  <2>7. CASE ListActiveDeploys
    BY <2>0, <2>7 DEF TypeOK, ListActiveDeploys
  <2>8. ASSUME NEW d \in Deploy, LoadTargets(d) PROVE TypeOK'
    BY <1>1, <1>6, <2>0, <2>8 DEF TypeOK, LoadTargets
  <2>9. ASSUME NEW d \in Deploy, NEW i \in Device, MarkLost(d, i) PROVE TypeOK'
    <3>1. StatusOK /\ AgeOK
      BY <1>3, <1>8, <2>9 DEF TypeOK, MarkLost
    <3>2. snap' \in [Device -> Status \cup {"absent"}]
      BY <1>8, <2>9 DEF TypeOK, MarkLost
    <3>3. faults' \in 0..MaxFaults
      BY <1>1, <2>9 DEF TypeOK, MarkLost
    <3> QED
      BY <2>0, <2>9, <3>1, <3>2, <3>3 DEF TypeOK, MarkLost
  <2>10. ASSUME NEW d \in Deploy, NEW i \in Device, Resend(d, i) PROVE TypeOK'
    BY <1>1, <1>5, <2>0, <2>10 DEF TypeOK, Resend
  <2>11. ASSUME NEW d \in Deploy, NEW s \in State, Settle(d, s) PROVE TypeOK'
    <3>1. StateOK /\ StatusOK /\ AgeOK
      BY <1>4, <2>11 DEF TypeOK, Settle
    <3>2. LoopOK /\ faults' \in 0..MaxFaults
      BY <1>1, <1>6, <2>11 DEF TypeOK, Settle
    <3> QED
      BY <2>0, <2>11, <3>1, <3>2 DEF TypeOK, Settle
  <2>12. ASSUME NEW d \in Deploy, Promote(d) PROVE TypeOK'
    BY <2>0, <2>12 DEF TypeOK, Promote, FilterPending, TargetsInBatch
  <2>13. ASSUME NEW d \in Deploy, Wait(d) \/ PromoteReturn(d) PROVE TypeOK'
    BY <1>1, <1>6, <2>0, <2>13 DEF TypeOK, Wait, PromoteReturn
  <2>14. ASSUME NEW d \in Deploy, NEW i \in Device, PromotePublish(d, i) PROVE TypeOK'
    BY <1>1, <1>5, <2>0, <2>14 DEF TypeOK, PromotePublish
  <2>15. ASSUME NEW d \in Deploy, NEW i \in Device, PromoteRecord(d, i) PROVE TypeOK'
    <3>1. StatusOK /\ AgeOK
      BY <1>3, <1>8, <2>15 DEF TypeOK, PromoteRecord
    <3>2. faults' \in 0..MaxFaults
      BY <1>1, <2>15 DEF TypeOK, PromoteRecord
    <3> QED
      BY <2>0, <2>15, <3>1, <3>2 DEF TypeOK, PromoteRecord
  <2>16. ASSUME NEW i \in Device, NEW d \in Deploy, NEW s \in Reported, OnTaggedStatus(i, d, s)
         PROVE TypeOK'
    <3>1. StatusOK /\ AgeOK
      BY <1>2, <1>8, <2>16 DEF OnTaggedStatus, MatchingDeploys
    <3> QED
      BY <2>0, <2>16, <3>1 DEF TypeOK, OnTaggedStatus
  <2>17. ASSUME NEW i \in Device, NEW s \in Reported, OnUntaggedStatus(i, s) PROVE TypeOK'
    BY <2>0, <2>17 DEF TypeOK, OnUntaggedStatus
  <2>18. ASSUME NEW i \in Device, AdvanceLatest(i) PROVE TypeOK'
    <3>1. onStatus[i][1] \in Deploy /\ onStatus[i][2] \in Reported
      BY <2>18 DEF TypeOK, AdvanceLatest
    <3>2. StatusOK /\ AgeOK
      BY <1>3, <1>8, <2>18, <3>1 DEF AdvanceLatest
    <3> QED
      BY <2>0, <2>18, <3>2 DEF TypeOK, AdvanceLatest
  <2>19. ASSUME NEW r \in Request, NEW d \in Deploy, ResumeRead(r, d) \/ CancelRead(r, d)
         PROVE TypeOK'
    BY <2>0, <2>19 DEF TypeOK, ResumeRead, CancelRead
  <2>20. ASSUME NEW r \in Request, ResetFailedTargets(r) PROVE TypeOK'
    <3> DEFINE d == reqDeploy[r]
               rows == {i \in Device : status[d][i] \in Failure}
               newStatus == [i \in Device |-> IF i \in rows THEN "pending" ELSE status[d][i]]
               newAge == [i \in Device |-> IF i \in rows THEN Fresh ELSE age[d][i]]
    <3>0. d \in Deploy
      BY DEF TypeOK
    <3>a. newStatus \in [Device -> Status \cup {"absent"}]
      BY <1>8, <3>0 DEF TypeOK
    <3>b. newAge \in [Device -> Fresh..Expired]
      BY <3>0 DEF TypeOK, Fresh, Expired
    <3>c. \/ status' = [status EXCEPT ![d] = newStatus] /\ age' = [age EXCEPT ![d] = newAge]
          \/ UNCHANGED <<status, age>>
      BY <2>20 DEF ResetFailedTargets
    <3>1. StatusOK /\ AgeOK
      <4> HIDE DEF d, rows, newStatus, newAge
      <4>1. StatusOK
        BY <3>0, <3>a, <3>c DEF TypeOK
      <4>2. AgeOK
        BY <3>0, <3>b, <3>c DEF TypeOK
      <4> QED
        BY <4>1, <4>2
    <3>2. ReqOK /\ faults' \in 0..MaxFaults
      BY <1>1, <1>7, <2>20 DEF TypeOK, ResetFailedTargets
    <3> QED
      BY <2>0, <2>20, <3>1, <3>2 DEF TypeOK, ResetFailedTargets
  <2>21. ASSUME NEW r \in Request, ResumeSet(r) \/ CancelSet(r) PROVE TypeOK'
    <3>1. reqDeploy[r] \in Deploy /\ {"in_progress", "cancelled"} \subseteq State
      BY DEF TypeOK, State
    <3>2. CASE ResumeSet(r)
      <4>1. ReqOK /\ faults' \in 0..MaxFaults
        BY <1>1, <1>7, <3>2 DEF TypeOK, ResumeSet
      <4>2. StateOK /\ StatusOK /\ AgeOK
        BY <1>4, <3>1, <3>2 DEF TypeOK, ResumeSet
      <4> QED
        BY <2>0, <3>2, <4>1, <4>2 DEF TypeOK, ResumeSet
    <3>3. CASE CancelSet(r)
      <4>1. ReqOK /\ faults' \in 0..MaxFaults
        BY <1>1, <1>7, <3>3 DEF TypeOK, CancelSet
      <4>2. StateOK /\ StatusOK /\ AgeOK
        BY <1>4, <3>1, <3>3 DEF TypeOK, CancelSet
      <4> QED
        BY <2>0, <3>3, <4>1, <4>2 DEF TypeOK, CancelSet
    <3> QED
      BY <2>21, <3>2, <3>3
  <2>22. ASSUME NEW d \in Deploy, NEW i \in Device, Elapse(d, i) PROVE TypeOK'
    <3>0. age[d][i] \in Fresh..Expired /\ age[d][i] < Expired
      BY <2>22 DEF TypeOK, Elapse
    <3>1. age[d][i] + 1 \in Fresh..Expired
      BY <3>0 DEF Fresh, Expired
    <3> QED
      BY <2>0, <2>22, <3>1 DEF TypeOK, Elapse
  <2>23. CASE Crash
    BY <1>1, <2>0, <2>23 DEF TypeOK, Crash
  <2>24. CASE \E d \in Deploy : CreateDeploy(d) \/ Rollout(d)
    BY <2>1, <2>2, <2>3, <2>4, <2>5, <2>6, <2>24 DEF Rollout
  <2>25. CASE Reconcile
    <3>1. ASSUME NEW d \in Deploy, Pause(d) \/ Complete(d) PROVE TypeOK'
      BY <2>11, <3>1 DEF Pause, Complete, State
    <3> QED
      BY <2>7, <2>8, <2>9, <2>10, <2>12, <2>13, <2>14, <2>15, <2>25, <3>1
         DEF Reconcile, ReconcileDeploy
  <2>26. CASE OnStatus
    BY <2>16, <2>17, <2>18, <2>26 DEF OnStatus
  <2>27. CASE \E r \in Request : \/ Handle(r)
                                 \/ \E d \in Deploy : ResumeRead(r, d) \/ CancelRead(r, d)
    BY <2>19, <2>20, <2>21, <2>27 DEF Handle
  <2> QED
    BY <1>10, <2>22, <2>23, <2>24, <2>25, <2>26, <2>27 DEF Next, Step
<1> QED
  BY <1>9, <1>10

\* Type correctness of the deploy service.
THEOREM TypeCorrect == Spec => []TypeOK
<1>1. Init => TypeOK
  BY ConstantsAssumption DEF Init, TypeOK, Deploy, Device, State, Status, Fresh, Expired
<1> QED
  BY <1>1, TypeStep, PTL DEF Spec

-----------------------------------------------------------------------------
(* The inductive invariant. *)

\* One batch number per device, and only two batches.
LEMMA BatchValues == \A i \in Device : Batch(i) \in {0, 1}
  BY DEF Batch

\* The rounded-up and clamped count of canaries is what the percentage means: the
\* devices of batch 0 are the canary.
LEMMA CanaryIsBatch0 == ASSUME NEW i \in Device PROVE Batch(i) = 0 <=> InCanary(i)
<1> DEFINE Q == NumDevices * Percent
<1>1. Percent \in 1..100 /\ NumDevices \in Nat \ {0} /\ i \in 1..NumDevices
  BY ConstantsAssumption DEF Percent, Device
<1>2. Q \in Nat /\ Q >= 1 /\ Q <= 100 * NumDevices
  BY <1>1
<1>3. InCanary(i) <=> 100 * (i - 1) < Q
  BY <1>1 DEF InCanary
<1>4. CanaryCount = LET n == (Q + 99) \div 100
                    IN  IF n < 1 THEN 1 ELSE IF n > NumDevices THEN NumDevices ELSE n
  BY DEF CanaryCount
<1> HIDE DEF Q
<1>5. CanaryCount = (Q + 99) \div 100
  BY <1>1, <1>2, <1>4
<1>6. i > CanaryCount <=> 100 * (i - 1) >= Q
  BY <1>1, <1>2, <1>5
<1> QED
  BY <1>1, <1>2, <1>3, <1>6 DEF Batch

\* Targets of a batch can be counted.
LEMMA BatchesAreFinite ==
  ASSUME NEW st, NEW b
  PROVE  /\ Cardinality(TargetsInBatch(st, b)) \in Nat
         /\ Cardinality({i \in TargetsInBatch(st, b) : st[i] \in Failure}) \in Nat
         /\ Cardinality({i \in TargetsInBatch(st, b) : st[i] \in Failure})
               <= Cardinality(TargetsInBatch(st, b))
<1>1. IsFiniteSet(Device)
  BY FS_Interval, ConstantsAssumption DEF Device
<1>2. IsFiniteSet(TargetsInBatch(st, b))
  BY <1>1, FS_Subset DEF TargetsInBatch
<1>3. {i \in TargetsInBatch(st, b) : st[i] \in Failure} \subseteq TargetsInBatch(st, b)
  OBVIOUS
<1> QED
  BY <1>2, <1>3, FS_Subset, FS_CardinalityType

\* The verdict the loop reaches about batch 0 is that the canary is cleared.
LEMMA CanaryClearedIsCleared ==
  ASSUME NEW st PROVE CanaryCleared(st) <=> TargetsInBatch(st, 1) # {} /\ Cleared(st, 0)
<1> DEFINE C == {i \in Device : st[i] # "absent" /\ InCanary(i)}
           F == Cardinality({i \in C : st[i] \in Failure})
           N == Cardinality(C)
<1>1. C = TargetsInBatch(st, 0)
  BY CanaryIsBatch0 DEF TargetsInBatch
<1>2. TargetsInBatch(st, 1) # {} <=> \E i \in Device : st[i] # "absent" /\ ~InCanary(i)
  BY CanaryIsBatch0, BatchValues DEF TargetsInBatch
<1>3. F \in Nat /\ N \in Nat /\ Threshold \in Nat
  BY <1>1, BatchesAreFinite, ConstantsAssumption DEF Threshold
<1>4. FailureExceeded(st, 0) <=> F * 100 > Threshold * N
  BY <1>1 DEF FailureExceeded
<1>5. AllTerminal(st, 0) <=> \A i \in C : st[i] \in Terminal
  BY <1>1 DEF AllTerminal
<1>6. CanaryCleared(st) <=>
        TargetsInBatch(st, 1) # {} /\ AllTerminal(st, 0) /\ F <= (Threshold * N) \div 100
  BY <1>2, <1>5 DEF CanaryCleared
<1>7. F <= (Threshold * N) \div 100 <=> ~(F * 100 > Threshold * N)
  <2> DEFINE T == Threshold * N
  <2>1. T \in Nat
    BY <1>3
  <2> HIDE DEF T, F, N
  <2>2. F \in Nat
    BY <1>3
  <2>3. F <= T \div 100 <=> ~(F * 100 > T)
    BY <2>1, <2>2
  <2> QED
    BY <2>3 DEF T
<1> QED
  BY <1>4, <1>6, <1>7 DEF Cleared

\* At most one deploy (target) is the least of a set.
LEMMA LeastUnique ==
  ASSUME NEW S \in SUBSET Int, NEW x, NEW y, Least(x, S), Least(y, S) PROVE x = y
  BY DEF Least

\* A verdict on a batch is the same from two views of the targets that have the
\* same rows in it and agree on what has settled.
LEMMA SameVerdict ==
  ASSUME NEW st1, NEW st2, NEW b,
         TargetsInBatch(st1, b) = TargetsInBatch(st2, b),
         AllTerminal(st1, b),
         \A i \in TargetsInBatch(st1, b) : st1[i] \in Terminal => st2[i] = st1[i]
  PROVE  AllTerminal(st2, b) /\ (FailureExceeded(st2, b) <=> FailureExceeded(st1, b))
<1>1. \A i \in TargetsInBatch(st1, b) : st1[i] \in Terminal /\ st2[i] = st1[i]
  BY DEF AllTerminal
<1>2. AllTerminal(st2, b)
  BY <1>1 DEF AllTerminal
<1>3. {i \in TargetsInBatch(st1, b) : st1[i] \in Failure}
        = {i \in TargetsInBatch(st2, b) : st2[i] \in Failure}
  BY <1>1
<1> QED
  BY <1>2, <1>3 DEF FailureExceeded

\* The canary devices come before the rest of the fleet.
LEMMA CanaryFirst ==
  ASSUME NEW i \in Device, NEW j \in Device, Batch(i) = 1, Batch(j) = 0 PROVE j < i
<1>1. Percent \in Int
  BY ConstantsAssumption DEF Percent
<1>2. CanaryCount \in Int
  BY <1>1, ConstantsAssumption DEF CanaryCount
<1> QED
  BY <1>2 DEF Batch, Device

\* When the pass sees the canary cleared and a target beyond it, the stored
\* canary batch is cleared too: no row of it was missed, none has moved.
LEMMA CanarySeen ==
  ASSUME RecSnapshot, NEW d \in Deploy, recPc = "scan", Current(d),
         NEW i \in Device, ~InCanary(i), snap[i] # "absent", Cleared(snap, 0)
  PROVE  CanaryCleared(status[d])
<1>1. \A j \in Device : /\ snap[j] \in Terminal => status[d][j] = snap[j]
                        /\ snap[j] # "absent" => status[d][j] # "absent"
                        /\ j < i /\ snap[j] = "absent" => status[d][j] = "absent"
  BY DEF RecSnapshot
<1>0. Batch(i) = 1
  BY CanaryIsBatch0, BatchValues
<1>2. TargetsInBatch(snap, 0) = TargetsInBatch(status[d], 0)
  BY <1>0, <1>1, CanaryFirst DEF TargetsInBatch
<1>3. Cleared(status[d], 0)
  BY <1>1, <1>2, SameVerdict DEF Cleared, TargetsInBatch
<1>4. i \in TargetsInBatch(status[d], 1)
  BY <1>0, <1>1 DEF TargetsInBatch
<1> QED
  BY <1>3, <1>4, CanaryClearedIsCleared

\* What an advance of one target, if it matches the row, changes.
Moved(d, i, s) ==
    \A e \in Deploy, j \in Device :
        \/ status'[e][j] = status[e][j]
        \/ /\ e = d /\ j = i /\ status'[e][j] = s
           /\ status[e][j] \notin Terminal \cup {"absent"}

\* What was sent was sent.
SentKept == \A d \in Deploy, i \in Device : sent[d][i] => sent'[d][i]

LEMMA AdvanceMoves ==
  ASSUME TypeOK, NEW d \in Deploy, NEW i \in Device, NEW s \in Status,
         AdvanceTargetStatus(d, i, s) \/ UNCHANGED <<status, age>>
  PROVE  Moved(d, i, s)
BY DEF AdvanceTargetStatus, SetTarget, CanAdvance, TypeOK, Moved

\* The pass has one deploy in its hands.
LEMMA CurrentUnique ==
  ASSUME TypeOK PROVE \A d, e \in Deploy : Current(d) /\ Current(e) => d = e
<1>1. recQueue \in SUBSET Int
  BY DEF TypeOK, Deploy
<1> QED
  BY <1>1, LeastUnique DEF Current

\* A tagged report is credited to the deploy whose command the device has.
LEMMA ReportMoves ==
  ASSUME PublishedInv, NEW i \in Device, NEW d \in Deploy, NEW s \in Reported,
         OnTaggedStatus(i, d, s)
  PROVE  Moved(d, i, s) /\ sent[d][i]
<1>1. sent[d][i]
  BY DEF OnTaggedStatus
<1>2. PICK e \in MatchingDeploys(i, Sequence[d], s) : SetTarget(e, i, s)
  BY DEF OnTaggedStatus
<1>3. e = d /\ CanAdvance(d, i, s)
  BY <1>1, <1>2, SequenceAssumption
     DEF MatchingDeploys, PublishedInv, CommandsArePublished, HasCommand
<1>4. s \in Status
  BY DEF Reported, Status, Terminal
<1> QED
  BY <1>1, <1>2, <1>3, <1>4, AdvanceMoves DEF AdvanceTargetStatus, PublishedInv

\* Whatever operators do: what is recorded as triggered was published, and what
\* a device reports was sent to it.
LEMMA PublishedStep == ASSUME PublishedInv, [Next]_vars PROVE PublishedInv'
<1> USE DEF dbVars, rolloutVars, recVars, reqVars
<1>1. CASE UNCHANGED vars
  BY <1>1, TypeStep DEF vars, PublishedInv, RolloutLocals, CommandsArePublished, LegacyReports,
     ReportsMatchCommands, Promoting, Current
<1>2. CASE Next
  <2>t. TypeOK /\ TypeOK'
    BY TypeStep DEF PublishedInv
  <2>u. \A d, e \in Deploy : Current(d) /\ Current(e) => d = e
    BY <2>t, CurrentUnique
  \* What each part of the invariant needs of a step that does not disturb it.
  <2>f1. ASSUME UNCHANGED <<status, rolloutVars>>, SentKept PROVE RolloutLocals'
    BY <2>f1 DEF PublishedInv, RolloutLocals, SentKept
  <2>f2. ASSUME UNCHANGED <<status, sent, recVars>> PROVE CommandsArePublished'
    BY <2>f2 DEF PublishedInv, CommandsArePublished, Current, Promoting
  <2>f3. ASSUME UNCHANGED <<status, sent>>, recPc' \in {"idle", "load"} PROVE CommandsArePublished'
    BY <2>f3 DEF PublishedInv, CommandsArePublished, Promoting
  <2>f6. ASSUME UNCHANGED onStatus PROVE LegacyReports'
    BY <2>f6 DEF PublishedInv, LegacyReports
  <2>f7. ASSUME UNCHANGED sent PROVE SentKept
    BY <2>f7 DEF SentKept
  <2>f8. ASSUME UNCHANGED status, SentKept PROVE ReportsMatchCommands'
    BY <2>f8 DEF PublishedInv, ReportsMatchCommands, SentKept
  <2>l. ASSUME NEW d \in Deploy, Leave(d) PROVE recPc' \in {"idle", "load"}
    BY <2>l DEF Leave
  \* What a publish does.
  <2>p. ASSUME NEW d \in Deploy, NEW i \in Device, Publish(d, i), HasCommand(d)
        PROVE  /\ SentKept /\ sent'[d][i]
               /\ \A e \in Deploy, j \in Device : sent'[e][j] => HasCommand(e)
    BY <2>p, <2>t DEF Publish, TypeOK, PublishedInv, CommandsArePublished, SentKept
  \* What an advance of one target keeps.
  <2>m. ASSUME NEW d \in Deploy, NEW i \in Device, NEW s \in Status, Moved(d, i, s)
        PROVE  /\ \A e \in Deploy, j \in Device : status'[e][j] # "absent" => status[e][j] # "absent"
               /\ SentKept /\ (s \in {"downloading", "succeeded"} /\ i \notin Legacy => sent'[d][i])
                    => ReportsMatchCommands'
               /\ SentKept /\ (s = "triggered" => sent'[d][i])
                    => \A e \in Deploy, j \in Device : status'[e][j] = "triggered" => sent'[e][j]
    <3>2. \A e \in Deploy, j \in Device : status'[e][j] # "absent" => status[e][j] # "absent"
      BY <2>m DEF Moved
    <3>4. SentKept /\ (s \in {"downloading", "succeeded"} /\ i \notin Legacy => sent'[d][i])
            => ReportsMatchCommands'
      BY <2>m DEF PublishedInv, ReportsMatchCommands, Moved, SentKept
    <3>5. SentKept /\ (s = "triggered" => sent'[d][i])
            => \A e \in Deploy, j \in Device : status'[e][j] = "triggered" => sent'[e][j]
      BY <2>m DEF PublishedInv, CommandsArePublished, Moved, SentKept
    <3> QED
      BY <3>2, <3>4, <3>5
  <2>1. ASSUME NEW d \in Deploy, CreateDeploy(d) PROVE PublishedInv'
    <3>1. UNCHANGED <<status, sent, addNext, rolloutTodo, recVars, onStatus>>
      BY <2>1 DEF CreateDeploy, SetDeployState
    <3>2. RolloutLocals'
      BY <2>1, <2>t, <3>1 DEF CreateDeploy, TypeOK, PublishedInv, RolloutLocals
    <3> QED
      BY <2>t, <2>f2, <2>f6, <2>f7, <2>f8, <3>1, <3>2 DEF PublishedInv
  <2>2. ASSUME NEW d \in Deploy, AddTarget(d) PROVE PublishedInv'
    <3> DEFINE i == addNext[d]
    <3>1. /\ i \in Device
          /\ addNext' = [addNext EXCEPT ![d] = i + 1]
          /\ rolloutTodo' = rolloutTodo
               \/ (InCanary(i) /\ rolloutTodo' = [rolloutTodo EXCEPT ![d] = @ \cup {i}])
          /\ UNCHANGED <<sent, rolloutPc, recVars, onStatus>>
      BY <2>2, CanaryIsBatch0 DEF AddTarget
    <3>2. \/ status' = [status EXCEPT ![d][i] = "pending"]
          \/ status' = status
      BY <2>2 DEF AddTarget, SetTarget
    <3>4. \A e \in Deploy, j \in Device : \/ status'[e][j] = status[e][j]
                                          \/ e = d /\ j = i /\ status'[e][j] = "pending"
      BY <2>t, <3>1, <3>2 DEF TypeOK
    <3>5. RolloutLocals'
      <4>1. \A e \in Deploy, j \in Device : status'[e][j] # "absent" => j < addNext'[e]
        BY <2>t, <3>1, <3>4 DEF PublishedInv, RolloutLocals, TypeOK, Device
      <4>0. \A e \in Deploy :
               \/ rolloutTodo'[e] = rolloutTodo[e]
               \/ e = d /\ InCanary(i) /\ rolloutTodo'[e] = rolloutTodo[e] \cup {i}
        <5> HIDE DEF i
        <5> QED BY <2>t, <3>1 DEF TypeOK
      <4>2. \A e \in Deploy : \A j \in rolloutTodo'[e] : InCanary(j)
        <5> HIDE DEF i
        <5> QED BY <4>0 DEF PublishedInv, RolloutLocals
      <4>3. rolloutPc[d] = "add"
        BY <2>2 DEF AddTarget
      <4>4. \A e \in Deploy : rolloutPc'[e] = "record" =>
              \A j \in Device : Least(j, rolloutTodo'[e]) => sent'[e][j]
        <5>1. \A e \in Deploy : rolloutPc[e] = "record" => rolloutTodo'[e] = rolloutTodo[e]
          BY <2>t, <3>1, <4>3 DEF TypeOK
        <5> QED
          BY <3>1, <5>1 DEF PublishedInv, RolloutLocals
      <4> QED
        BY <3>1, <4>1, <4>2, <4>4 DEF PublishedInv, RolloutLocals
    <3>6. CommandsArePublished'
      BY <3>1, <3>4 DEF PublishedInv, CommandsArePublished, Current, Promoting
    <3>8. ReportsMatchCommands'
      BY <3>1, <3>4 DEF PublishedInv, ReportsMatchCommands
    <3> QED
      BY <2>t, <2>f6, <3>1, <3>5, <3>6, <3>8 DEF PublishedInv
  <2>3. ASSUME NEW d \in Deploy, StartTriggering(d) \/ RolloutReturn(d) PROVE PublishedInv'
    <3>1. UNCHANGED <<status, sent, addNext, rolloutTodo, recVars, onStatus>>
      BY <2>3 DEF StartTriggering, RolloutReturn
    <3>2. RolloutLocals'
      BY <2>3, <2>t, <3>1 DEF StartTriggering, RolloutReturn, TypeOK, PublishedInv, RolloutLocals
    <3> QED
      BY <2>t, <2>f2, <2>f6, <2>f7, <2>f8, <3>1, <3>2 DEF PublishedInv
  <2>4. ASSUME NEW d \in Deploy, NEW i \in Device, RolloutPublish(d, i) PROVE PublishedInv'
    <3>1. /\ UNCHANGED <<status, addNext, rolloutTodo, recVars, onStatus>>
          /\ rolloutPc[d] = "publish" /\ Least(i, rolloutTodo[d])
          /\ \/ Publish(d, i) /\ rolloutPc' = [rolloutPc EXCEPT ![d] = "record"]
             \/ UNCHANGED sent /\ rolloutPc' = [rolloutPc EXCEPT ![d] = "fail"]
      BY <2>4 DEF RolloutPublish
    <3>2. HasCommand(d)
      BY <3>1 DEF PublishedInv, RolloutLocals
    <3>3. /\ SentKept /\ (Publish(d, i) => sent'[d][i])
          /\ \A e \in Deploy, j \in Device : sent'[e][j] => HasCommand(e)
      BY <2>f7, <2>p, <3>1, <3>2 DEF PublishedInv, CommandsArePublished
    <3>4. RolloutLocals'
      <4>1. rolloutTodo[d] \in SUBSET Int
        BY <2>t DEF TypeOK, Device
      <4>2. \A j \in Device : Least(j, rolloutTodo[d]) => j = i
        BY <3>1, <4>1, LeastUnique
      <4> QED
        BY <2>t, <3>1, <3>2, <3>3, <4>2 DEF TypeOK, PublishedInv, RolloutLocals, SentKept
    <3>5. CommandsArePublished'
      BY <3>1, <3>3 DEF PublishedInv, CommandsArePublished, Current, Promoting, SentKept
    <3> QED
      BY <2>t, <2>f6, <2>f8, <3>1, <3>3, <3>4, <3>5 DEF PublishedInv
  <2>5. ASSUME NEW d \in Deploy, NEW i \in Device, RolloutRecord(d, i) PROVE PublishedInv'
    <3> DEFINE s == IF rolloutPc[d] = "fail" THEN "failed" ELSE "triggered"
    <3>1. /\ UNCHANGED <<sent, addNext, recVars, onStatus>>
          /\ rolloutPc[d] \in {"record", "fail"} /\ Least(i, rolloutTodo[d])
          /\ AdvanceTargetStatus(d, i, s) \/ UNCHANGED <<status, age>>
          /\ rolloutTodo' = [rolloutTodo EXCEPT ![d] = @ \ {i}]
          /\ rolloutPc' = [rolloutPc EXCEPT ![d] = "publish"]
      BY <2>5 DEF RolloutRecord
    <3>2. s \in Status /\ s \in {"failed", "triggered"}
      BY DEF Status, Terminal
    <3>3. s = "triggered" => sent[d][i]
      BY <3>1 DEF PublishedInv, RolloutLocals
    <3> HIDE DEF s
    <3>4. Moved(d, i, s)
      BY <2>t, <3>1, <3>2, AdvanceMoves
    <3>5. RolloutLocals'
      <4>1. \A e \in Deploy : /\ rolloutTodo'[e] \subseteq rolloutTodo[e]
                              /\ e # d => /\ rolloutTodo'[e] = rolloutTodo[e]
                                          /\ rolloutPc'[e] = rolloutPc[e]
                              /\ e = d => rolloutPc'[e] = "publish"
        BY <2>t, <3>1 DEF TypeOK
      <4>2. \A e \in Deploy, j \in Device : status'[e][j] # "absent" => status[e][j] # "absent"
        BY <2>m, <3>2, <3>4
      <4>3. \A e \in Deploy : /\ \A j \in Device : status'[e][j] # "absent" => j < addNext'[e]
                              /\ \A j \in rolloutTodo'[e] : InCanary(j)
        BY <3>1, <4>1, <4>2 DEF PublishedInv, RolloutLocals
      <4>4. \A e \in Deploy : rolloutPc'[e] = "record" =>
              \A j \in Device : Least(j, rolloutTodo'[e]) => sent'[e][j]
        <5> SUFFICES ASSUME NEW e \in Deploy, rolloutPc'[e] = "record",
                            NEW j \in Device, Least(j, rolloutTodo'[e])
                     PROVE  sent'[e][j]
          OBVIOUS
        <5>1. e # d
          BY <4>1
        <5>2. rolloutPc[e] = "record" /\ rolloutTodo'[e] = rolloutTodo[e]
          BY <4>1, <5>1
        <5>3. sent' = sent
          BY <3>1
        <5> QED
          BY <5>2, <5>3 DEF PublishedInv, RolloutLocals
      <4>5. \A e \in Deploy : rolloutPc'[e] \in {"publish", "record", "fail"} => HasCommand(e)
        BY <3>1, <4>1 DEF PublishedInv, RolloutLocals
      <4> QED
        BY <4>3, <4>4, <4>5 DEF RolloutLocals
    <3>6. CommandsArePublished'
      BY <2>f7, <2>m, <3>1, <3>2, <3>3, <3>4 DEF PublishedInv, CommandsArePublished, Current,
         Promoting
    <3>7. ReportsMatchCommands'
      BY <2>f7, <2>m, <3>1, <3>2, <3>4
    <3> QED
      BY <2>t, <2>f6, <3>1, <3>5, <3>6, <3>7 DEF PublishedInv
  <2>6. CASE ListActiveDeploys
    <3>1. UNCHANGED <<status, sent, rolloutVars, onStatus>> /\ recPc' = "load"
      BY <2>6 DEF ListActiveDeploys
    <3> QED
      BY <2>t, <2>f1, <2>f3, <2>f6, <2>f7, <2>f8, <3>1 DEF PublishedInv
  <2>7. ASSUME NEW d \in Deploy, LoadTargets(d) PROVE PublishedInv'
    <3>1. UNCHANGED <<status, sent, rolloutVars, onStatus>> /\ Current(d)
      BY <2>7 DEF LoadTargets
    <3>2. CommandsArePublished'
      <4>1. CASE Leave(d)
        BY <2>f3, <2>l, <3>1, <4>1
      <4>2. CASE ~Leave(d)
        <5>1. /\ recPc' = "scan" /\ recQueue' = recQueue
              /\ \A i \in recResend' : status[d][i] = "triggered"
          BY <2>7, <4>2 DEF LoadTargets
        <5>2. \A e \in Deploy : Current(e)' => e = d
          BY <2>u, <3>1, <5>1 DEF Current
        <5> QED
          BY <3>1, <5>1, <5>2 DEF PublishedInv, CommandsArePublished, Promoting
      <4> QED
        BY <4>1, <4>2
    <3> QED
      BY <2>t, <2>f1, <2>f6, <2>f7, <2>f8, <3>1, <3>2 DEF PublishedInv
  <2>8. ASSUME NEW d \in Deploy, NEW i \in Device, MarkLost(d, i) PROVE PublishedInv'
    <3>1. /\ UNCHANGED <<sent, rolloutVars, recPc, recQueue, recResend, recTodo, onStatus>>
          /\ recPc = "scan"
          /\ AdvanceTargetStatus(d, i, "lost") \/ UNCHANGED <<status, age>>
      BY <2>8 DEF MarkLost
    <3>2. "lost" \in Status /\ "lost" \notin {"downloading", "succeeded", "triggered"}
      BY DEF Status, Terminal
    <3>3. Moved(d, i, "lost")
      BY <2>t, <3>1, <3>2, AdvanceMoves
    <3>4. RolloutLocals' /\ ReportsMatchCommands'
      BY <2>f7, <2>m, <3>1, <3>2, <3>3 DEF PublishedInv, RolloutLocals
    <3>5. CommandsArePublished'
      BY <2>f7, <2>m, <3>1, <3>2, <3>3 DEF PublishedInv, CommandsArePublished, Current, Promoting
    <3> QED
      BY <2>t, <2>f6, <3>1, <3>4, <3>5 DEF PublishedInv
  <2>9. ASSUME NEW d \in Deploy, NEW i \in Device, Resend(d, i) PROVE PublishedInv'
    <3>1. /\ UNCHANGED <<status, rolloutVars, recPc, recQueue, recTodo, onStatus>>
          /\ recPc = "scan" /\ Current(d) /\ i \in recResend /\ recResend' = recResend \ {i}
          /\ Publish(d, i) \/ UNCHANGED sent
      BY <2>9 DEF Resend
    <3>2. sent' = sent
      <4>1. sent[d][i] = TRUE
        BY <2>t, <3>1 DEF PublishedInv, CommandsArePublished, TypeOK
      <4> QED
        BY <2>t, <3>1, <4>1 DEF Publish, TypeOK
    <3>3. CommandsArePublished'
      BY <3>1, <3>2 DEF PublishedInv, CommandsArePublished, Promoting, Current
    <3> QED
      BY <2>t, <2>f1, <2>f6, <2>f7, <2>f8, <3>1, <3>2, <3>3 DEF PublishedInv
  <2>10. ASSUME NEW d \in Deploy, NEW s \in State,
                Settle(d, s) \/ Wait(d) \/ PromoteReturn(d)
         PROVE  PublishedInv'
    <3>1. Leave(d) /\ UNCHANGED <<status, sent, rolloutVars, onStatus>>
      BY <2>10 DEF Settle, SetDeployState, Wait, PromoteReturn
    <3> QED
      BY <2>t, <2>f1, <2>f3, <2>f6, <2>f7, <2>f8, <2>l, <3>1 DEF PublishedInv
  <2>11. ASSUME NEW d \in Deploy, Promote(d) PROVE PublishedInv'
    <3>1. /\ UNCHANGED <<status, sent, rolloutVars, recQueue, recResend, onStatus>>
          /\ recPc = "scan" /\ Current(d) /\ HasCommand(d) /\ recPc' = "publish"
      BY <2>11 DEF Promote, Scanned
    <3>2. CommandsArePublished'
      BY <2>u, <3>1 DEF PublishedInv, CommandsArePublished, Current
    <3> QED
      BY <2>t, <2>f1, <2>f6, <2>f7, <2>f8, <3>1, <3>2 DEF PublishedInv
  <2>13. ASSUME NEW d \in Deploy, NEW i \in Device, PromotePublish(d, i) PROVE PublishedInv'
    <3>1. /\ UNCHANGED <<status, rolloutVars, recQueue, recResend, recTodo, onStatus>>
          /\ recPc = "publish" /\ Current(d) /\ Least(i, recTodo)
          /\ \/ Publish(d, i) /\ recPc' = "record"
             \/ UNCHANGED sent /\ recPc' = "fail"
      BY <2>13 DEF PromotePublish
    <3>2. HasCommand(d)
      BY <3>1 DEF PublishedInv, CommandsArePublished, Promoting
    <3>3. /\ SentKept /\ (Publish(d, i) => sent'[d][i])
          /\ \A e \in Deploy, j \in Device : sent'[e][j] => HasCommand(e)
      BY <2>f7, <2>p, <3>1, <3>2 DEF PublishedInv, CommandsArePublished
    <3>4. CommandsArePublished'
      <4>1. recTodo \in SUBSET Int
        BY <2>t DEF TypeOK, Device
      <4>2. \A j \in Device : Least(j, recTodo) => j = i
        BY <3>1, <4>1, LeastUnique
      <4> QED
        BY <2>u, <3>1, <3>2, <3>3, <4>2 DEF PublishedInv, CommandsArePublished, Current, Promoting,
           SentKept
    <3> QED
      BY <2>t, <2>f1, <2>f6, <2>f8, <3>1, <3>3, <3>4 DEF PublishedInv
  <2>14. ASSUME NEW d \in Deploy, NEW i \in Device, PromoteRecord(d, i) PROVE PublishedInv'
    <3> DEFINE s == IF recPc = "fail" THEN "failed" ELSE "triggered"
    <3>1. /\ UNCHANGED <<sent, rolloutVars, recQueue, recResend, onStatus>>
          /\ recPc \in {"record", "fail"} /\ Current(d) /\ Least(i, recTodo)
          /\ AdvanceTargetStatus(d, i, s) \/ UNCHANGED <<status, age>>
          /\ recPc' = "publish"
      BY <2>14 DEF PromoteRecord
    <3>2. s \in Status /\ s \in {"failed", "triggered"}
      BY DEF Status, Terminal
    <3>3. s = "triggered" => sent[d][i]
      BY <3>1 DEF PublishedInv, CommandsArePublished
    <3> HIDE DEF s
    <3>4. Moved(d, i, s)
      BY <2>t, <3>1, <3>2, AdvanceMoves
    <3>5. RolloutLocals' /\ ReportsMatchCommands'
      BY <2>f7, <2>m, <3>1, <3>2, <3>4 DEF PublishedInv, RolloutLocals
    <3>6. CommandsArePublished'
      BY <2>f7, <2>m, <3>1, <3>2, <3>3, <3>4 DEF PublishedInv, CommandsArePublished, Current,
         Promoting
    <3> QED
      BY <2>t, <2>f6, <3>1, <3>5, <3>6 DEF PublishedInv
  <2>15. ASSUME NEW i \in Device, NEW d \in Deploy, NEW s \in Reported, OnTaggedStatus(i, d, s)
         PROVE PublishedInv'
    <3>1. UNCHANGED <<sent, rolloutVars, recVars, onStatus>>
      BY <2>15 DEF OnTaggedStatus
    <3>2. s \in Status /\ s # "triggered" /\ Moved(d, i, s) /\ sent[d][i]
      BY <2>15, ReportMoves DEF Reported, Status, Terminal
    <3>3. RolloutLocals' /\ ReportsMatchCommands'
      BY <2>f7, <2>m, <3>1, <3>2 DEF PublishedInv, RolloutLocals
    <3>4. CommandsArePublished'
      BY <2>f7, <2>m, <3>1, <3>2 DEF PublishedInv, CommandsArePublished, Current, Promoting
    <3> QED
      BY <2>t, <2>f6, <3>1, <3>3, <3>4 DEF PublishedInv
  <2>16. ASSUME NEW i \in Device, NEW s \in Reported, OnUntaggedStatus(i, s) PROVE PublishedInv'
    <3>1. /\ UNCHANGED <<status, sent, rolloutVars, recVars>>
          /\ i \in Legacy
          /\ \A j \in Device : j # i => onStatus'[j] = onStatus[j]
      BY <2>16, <2>t DEF OnUntaggedStatus, TypeOK
    <3>2. LegacyReports'
      BY <3>1 DEF PublishedInv, LegacyReports
    <3> QED
      BY <2>t, <2>f1, <2>f2, <2>f7, <2>f8, <3>1, <3>2 DEF PublishedInv
  <2>17. ASSUME NEW i \in Device, AdvanceLatest(i) PROVE PublishedInv'
    <3> DEFINE d == onStatus[i][1]
               s == onStatus[i][2]
    <3>1. /\ UNCHANGED <<sent, rolloutVars, recVars>>
          /\ onStatus[i] # <<>> /\ onStatus' = [onStatus EXCEPT ![i] = <<>>]
          /\ AdvanceTargetStatus(d, i, s)
      BY <2>17 DEF AdvanceLatest
    <3>2. d \in Deploy /\ s \in Reported /\ s \in Status /\ i \in Legacy
      BY <2>t, <3>1 DEF TypeOK, PublishedInv, LegacyReports, Status, Reported, Terminal
    <3>3. LegacyReports'
      BY <2>t, <3>1 DEF TypeOK, PublishedInv, LegacyReports
    <3> HIDE DEF d, s
    <3>4. Moved(d, i, s)
      BY <2>t, <3>1, <3>2, AdvanceMoves
    <3>5. RolloutLocals' /\ ReportsMatchCommands'
      BY <2>f7, <2>m, <3>1, <3>2, <3>4 DEF PublishedInv, RolloutLocals
    <3>6. CommandsArePublished'
      BY <2>f7, <2>m, <3>1, <3>2, <3>4 DEF Reported, PublishedInv, CommandsArePublished, Current,
         Promoting
    <3> QED
      BY <2>t, <3>3, <3>5, <3>6 DEF PublishedInv
  <2>18. ASSUME NEW r \in Request, NEW d \in Deploy,
                \/ ResumeRead(r, d) \/ CancelRead(r, d) \/ ResumeSet(r) \/ CancelSet(r)
         PROVE PublishedInv'
    <3>1. UNCHANGED <<status, sent, rolloutVars, recVars, onStatus>>
      BY <2>18 DEF ResumeRead, CancelRead, ResumeSet, CancelSet, SetDeployState
    <3> QED
      BY <2>t, <2>f1, <2>f2, <2>f6, <2>f7, <2>f8, <3>1 DEF PublishedInv
  <2>19. ASSUME NEW r \in Request, ResetFailedTargets(r) PROVE PublishedInv'
    <3>1. UNCHANGED <<sent, rolloutVars, recVars, onStatus>>
      BY <2>19 DEF ResetFailedTargets
    <3>2. \A e \in Deploy, j \in Device :
             \/ status'[e][j] = status[e][j]
             \/ status[e][j] \in Failure /\ status'[e][j] = "pending"
      <4>1. reqDeploy[r] \in Deploy /\ status \in [Deploy -> [Device -> Status \cup {"absent"}]]
        BY <2>t DEF TypeOK
      <4> QED
        BY <2>19, <4>1 DEF ResetFailedTargets
    <3>3. RolloutLocals' /\ ReportsMatchCommands'
      BY <3>1, <3>2 DEF PublishedInv, RolloutLocals, ReportsMatchCommands, Failure
    <3>4. CommandsArePublished'
      BY <3>1, <3>2 DEF PublishedInv, CommandsArePublished, Current, Promoting
    <3> QED
      BY <2>t, <2>f6, <3>1, <3>3, <3>4 DEF PublishedInv
  <2>21. ASSUME NEW d \in Deploy, NEW i \in Device, Elapse(d, i) PROVE PublishedInv'
    <3>1. UNCHANGED <<status, sent, rolloutVars, recVars, onStatus>>
      BY <2>21 DEF Elapse
    <3> QED
      BY <2>t, <2>f1, <2>f2, <2>f6, <2>f7, <2>f8, <3>1 DEF PublishedInv
  <2>22. CASE Crash
    <3>1. /\ UNCHANGED <<status, sent, addNext>>
          /\ \A d \in Deploy : rolloutPc'[d] \in {"none", "done"} /\ rolloutTodo'[d] = {}
          /\ recPc' = "idle"
          /\ \A i \in Device : onStatus'[i] = <<>>
      BY <2>22 DEF Crash
    <3>2. RolloutLocals' /\ LegacyReports'
      BY <3>1 DEF PublishedInv, RolloutLocals, LegacyReports
    <3> QED
      BY <2>t, <2>f3, <2>f7, <2>f8, <3>1, <3>2 DEF PublishedInv
  <2>23. CASE \E d \in Deploy : CreateDeploy(d) \/ Rollout(d)
    BY <2>1, <2>2, <2>3, <2>4, <2>5, <2>23 DEF Rollout
  <2>24. CASE Reconcile
    <3>1. ASSUME NEW d \in Deploy, Pause(d) \/ Complete(d) \/ Wait(d) \/ PromoteReturn(d)
          PROVE  PublishedInv'
      BY <2>10, <3>1 DEF Pause, Complete, State
    <3> QED
      BY <2>6, <2>7, <2>8, <2>9, <2>11, <2>13, <2>14, <2>24, <3>1 DEF Reconcile, ReconcileDeploy
  <2>25. CASE OnStatus
    BY <2>15, <2>16, <2>17, <2>25 DEF OnStatus
  <2>26. CASE \E r \in Request : \/ Handle(r)
                                 \/ \E d \in Deploy : ResumeRead(r, d) \/ CancelRead(r, d)
    <3>1. ASSUME NEW r \in Request, ResumeSet(r) \/ CancelSet(r) PROVE PublishedInv'
      <4>1. reqDeploy[r] \in Deploy
        BY <2>t DEF TypeOK
      <4> QED
        BY <2>18, <3>1, <4>1
    <3> QED
      BY <2>18, <2>19, <2>26, <3>1 DEF Handle
  <2> QED
    BY <1>2, <2>21, <2>22, <2>23, <2>24, <2>25, <2>26 DEF Next, Step
<1> QED
  BY <1>1, <1>2

\* The staged rollout: no snapshot of the loop goes stale in what it decides by,
\* as long as no failed target is reset behind its back.
LEMMA RolloutInvStep ==
  ASSUME RolloutInv, [Next]_vars, ResetsWhatIsPaused PROVE RolloutInv'
<1> USE DEF dbVars, rolloutVars, recVars, reqVars
<1>p. PublishedInv /\ PublishedInv' /\ TypeOK /\ TypeOK'
  BY PublishedStep DEF RolloutInv, PublishedInv
<1>1. CASE UNCHANGED vars
  BY <1>1, <1>p DEF vars, RolloutInv, QueuedAreNotPaused, RecSnapshot, PromotionsAreCleared,
     CanaryGate, Promoting, Current
<1>2. CASE Next
  <2>c. \A d \in Deploy : /\ cleared[d] => cleared'[d]
                          /\ CanaryCleared(status'[d]) => cleared'[d]
    BY <1>2 DEF Next, Observe
  <2>u. \A d, e \in Deploy : Current(d) /\ Current(e) => d = e
    BY <1>p, CurrentUnique
  \* What each part of the invariant needs of a step that does not disturb it.
  <2>f3. ASSUME UNCHANGED <<status, recVars>> PROVE RecSnapshot'
    BY <2>f3 DEF RolloutInv, RecSnapshot, Current
  <2>f4. ASSUME UNCHANGED recVars PROVE PromotionsAreCleared'
    BY <2>f4, <2>c DEF RolloutInv, PromotionsAreCleared, Current, Promoting
  <2>f5. ASSUME recQueue' \subseteq recQueue, UNCHANGED deployState PROVE QueuedAreNotPaused'
    BY <2>f5 DEF RolloutInv, QueuedAreNotPaused
  <2>f7. ASSUME UNCHANGED sent PROVE CanaryGate'
    BY <2>f7, <2>c DEF RolloutInv, CanaryGate
  \* What leaving the current deploy does.
  <2>l. ASSUME NEW d \in Deploy, Leave(d) PROVE /\ recQueue' = recQueue \ {d}
                                                /\ RecSnapshot' /\ PromotionsAreCleared'
    BY <2>l, <2>c DEF Leave, RecSnapshot, PromotionsAreCleared, Promoting
  \* What a publish does when its target is in the canary or the deploy cleared.
  <2>p. ASSUME NEW d \in Deploy, NEW i \in Device,
               Publish(d, i) \/ UNCHANGED sent, ~InCanary(i) => cleared[d]
        PROVE  CanaryGate'
    <3>1. \A e \in Deploy, j \in Device : sent'[e][j] => sent[e][j] \/ (e = d /\ j = i)
      BY <2>p, <1>p DEF Publish, TypeOK
    <3> QED
      BY <2>p, <2>c, <3>1 DEF RolloutInv, CanaryGate
  \* What an advance of one target keeps.
  <2>m. ASSUME NEW d \in Deploy, NEW i \in Device, NEW s \in Status, Moved(d, i, s),
               UNCHANGED <<recPc, recQueue, snap, recLost>>
        PROVE  RecSnapshot'
    <3>1. s # "absent" /\ "absent" \notin Terminal
      BY DEF Status, Terminal
    <3> QED
      BY <2>m, <3>1 DEF RolloutInv, RecSnapshot, Current, Moved
  <2>1. ASSUME NEW d \in Deploy, CreateDeploy(d) PROVE RolloutInv'
    <3>1. UNCHANGED <<status, sent, recVars>>
      BY <2>1 DEF CreateDeploy, SetDeployState
    <3>2. QueuedAreNotPaused'
      BY <1>p, <2>1, <3>1 DEF CreateDeploy, SetDeployState, TypeOK, RolloutInv, QueuedAreNotPaused
    <3> QED
      BY <1>p, <2>f3, <2>f4, <2>f7, <3>1, <3>2 DEF RolloutInv
  <2>2. ASSUME NEW d \in Deploy, AddTarget(d) PROVE RolloutInv'
    <3> DEFINE i == addNext[d]
    <3>1. i \in Device /\ UNCHANGED <<deployState, sent, recVars>>
      BY <2>2 DEF AddTarget
    <3>2. \/ status' = [status EXCEPT ![d][i] = "pending"]
          \/ status' = status
      BY <2>2 DEF AddTarget, SetTarget
    <3>3. status[d][i] = "absent"
      BY <3>1, <1>p DEF PublishedInv, RolloutLocals, TypeOK, Device
    <3>4. \A e \in Deploy, j \in Device : \/ status'[e][j] = status[e][j]
                                          \/ e = d /\ j = i /\ status'[e][j] = "pending"
      BY <1>p, <3>1, <3>2 DEF TypeOK
    <3>7. RecSnapshot'
      <4> SUFFICES ASSUME NEW e \in Deploy, recPc = "scan", Current(e), NEW j \in Device
                   PROVE  /\ snap[j] \in Terminal => status'[e][j] = snap[j]
                          /\ snap[j] # "absent" => status'[e][j] # "absent"
                          /\ j \in recLost => snap[j] # "absent"
                          /\ \A k \in Device : j < k /\ snap[j] = "absent" /\ snap[k] # "absent"
                                                 => status'[e][j] = "absent"
        BY <3>1 DEF RecSnapshot, Current
      <4>1. /\ snap[j] \in Terminal => status[e][j] = snap[j]
            /\ \A k \in Device : snap[k] # "absent" => status[e][k] # "absent"
            /\ j \in recLost => snap[j] # "absent"
            /\ \A k \in Device : j < k /\ snap[j] = "absent" /\ snap[k] # "absent"
                                   => status[e][j] = "absent"
        BY DEF RolloutInv, RecSnapshot
      <4>2. CASE status'[e][j] = status[e][j]
        BY <4>1, <4>2
      <4>3. CASE e = d /\ j = i
        <5>1. \A k \in Device : j < k => status[e][k] = "absent"
          BY <1>p, <3>1, <4>3 DEF PublishedInv, RolloutLocals, TypeOK, Device
        <5> QED
          BY <3>3, <3>4, <4>1, <4>3, <5>1 DEF Terminal
      <4> QED
        BY <3>4, <4>2, <4>3
    <3> QED
      BY <1>p, <2>f4, <2>f5, <2>f7, <3>1, <3>7 DEF RolloutInv
  <2>3. ASSUME NEW d \in Deploy, StartTriggering(d) \/ RolloutReturn(d) PROVE RolloutInv'
    <3>1. UNCHANGED <<deployState, status, sent, recVars>>
      BY <2>3 DEF StartTriggering, RolloutReturn
    <3> QED
      BY <1>p, <2>f3, <2>f4, <2>f5, <2>f7, <3>1 DEF RolloutInv
  <2>4. ASSUME NEW d \in Deploy, NEW i \in Device, RolloutPublish(d, i) PROVE RolloutInv'
    <3>1. /\ UNCHANGED <<deployState, status, recVars>>
          /\ Least(i, rolloutTodo[d]) /\ (Publish(d, i) \/ UNCHANGED sent)
      BY <2>4 DEF RolloutPublish
    <3>2. InCanary(i)
      BY <1>p, <3>1 DEF PublishedInv, RolloutLocals, Least
    <3>3. CanaryGate'
      BY <2>p, <3>1, <3>2
    <3> QED
      BY <1>p, <2>f3, <2>f4, <2>f5, <3>1, <3>3 DEF RolloutInv
  <2>5. ASSUME NEW d \in Deploy, NEW i \in Device, RolloutRecord(d, i) PROVE RolloutInv'
    <3> DEFINE s == IF rolloutPc[d] = "fail" THEN "failed" ELSE "triggered"
    <3>1. /\ UNCHANGED <<deployState, sent, recVars>>
          /\ AdvanceTargetStatus(d, i, s) \/ UNCHANGED <<status, age>>
      BY <2>5 DEF RolloutRecord
    <3>2. s \in Status
      BY DEF Status, Terminal
    <3> HIDE DEF s
    <3>3. RecSnapshot'
      BY <1>p, <2>m, <3>1, <3>2, AdvanceMoves
    <3> QED
      BY <1>p, <2>f4, <2>f5, <2>f7, <3>1, <3>3 DEF RolloutInv
  <2>6. CASE ListActiveDeploys
    <3>1. /\ UNCHANGED <<deployState, sent>>
          /\ recPc' = "load" /\ recQueue' = {d \in Deploy : deployState[d] = "in_progress"}
      BY <2>6 DEF ListActiveDeploys
    <3>2. RecSnapshot' /\ PromotionsAreCleared'
      BY <2>c, <3>1 DEF RecSnapshot, PromotionsAreCleared, Promoting
    <3>3. QueuedAreNotPaused'
      BY <3>1 DEF QueuedAreNotPaused
    <3> QED
      BY <1>p, <2>f7, <3>1, <3>2, <3>3 DEF RolloutInv
  <2>7. ASSUME NEW d \in Deploy, LoadTargets(d) PROVE RolloutInv'
    <3>1. UNCHANGED <<deployState, status, sent>> /\ Current(d)
      BY <2>7 DEF LoadTargets
    <3>2. CASE Leave(d)
      BY <1>p, <2>f5, <2>f7, <2>l, <3>1, <3>2 DEF RolloutInv
    <3>3. CASE ~Leave(d)
      <4>1. /\ recPc' = "scan" /\ recQueue' = recQueue /\ snap' = status[d]
            /\ \A i \in recLost' : status[d][i] # "absent"
        BY <2>7, <3>3 DEF LoadTargets
      <4>2. \A e \in Deploy : Current(e)' => e = d
        BY <2>u, <3>1, <4>1 DEF Current
      <4>4. RecSnapshot'
        BY <3>1, <4>1, <4>2 DEF RecSnapshot
      <4>5. PromotionsAreCleared'
        BY <2>c, <4>1 DEF PromotionsAreCleared, Promoting
      <4> QED
        BY <1>p, <2>f5, <2>f7, <3>1, <4>1, <4>4, <4>5 DEF RolloutInv
    <3> QED
      BY <3>2, <3>3
  <2>8. ASSUME NEW d \in Deploy, NEW i \in Device, MarkLost(d, i) PROVE RolloutInv'
    <3>1. /\ UNCHANGED <<deployState, sent, recPc, recQueue>>
          /\ recPc = "scan" /\ Current(d) /\ i \in recLost /\ recLost' = recLost \ {i}
          /\ \/ /\ AdvanceTargetStatus(d, i, "lost")
                /\ snap' = IF CanAdvance(d, i, "lost") THEN [snap EXCEPT ![i] = "lost"] ELSE snap
             \/ UNCHANGED <<status, age, snap>>
      BY <2>8 DEF MarkLost
    <3>2. Moved(d, i, "lost")
      BY <1>p, <3>1, AdvanceMoves DEF Status, Terminal
    <3>3. \A j \in Device : \/ snap'[j] = snap[j]
                            \/ j = i /\ snap'[j] = "lost" /\ status'[d][j] = "lost"
      BY <1>p, <3>1 DEF AdvanceTargetStatus, SetTarget, TypeOK
    <3>4. RecSnapshot'
      <4> SUFFICES ASSUME NEW j \in Device
                   PROVE  /\ snap'[j] \in Terminal => status'[d][j] = snap'[j]
                          /\ snap'[j] # "absent" => status'[d][j] # "absent"
                          /\ j \in recLost' => snap'[j] # "absent"
                          /\ \A k \in Device : j < k /\ snap'[j] = "absent" /\ snap'[k] # "absent"
                                                 => status'[d][j] = "absent"
        BY <2>u, <3>1 DEF RecSnapshot, Current
      <4>1. \A k \in Device :
               /\ snap[k] \in Terminal => status[d][k] = snap[k]
               /\ snap[k] # "absent" => status[d][k] # "absent"
               /\ k \in recLost => snap[k] # "absent"
               /\ j < k /\ snap[j] = "absent" /\ snap[k] # "absent" => status[d][j] = "absent"
        BY <3>1 DEF RolloutInv, RecSnapshot
      <4>2. \A k \in Device : snap'[k] # "absent" => snap[k] # "absent"
        BY <3>1, <3>3, <4>1
      <4>3. \A k \in Device : \/ status'[d][k] = status[d][k]
                              \/ /\ k = i /\ status'[d][k] = "lost"
                                 /\ status[d][k] \notin Terminal \cup {"absent"}
        BY <3>2 DEF Moved
      <4>4. snap'[j] \in Terminal => status'[d][j] = snap'[j]
        BY <3>3, <4>1, <4>3
      <4>5. snap'[j] # "absent" => status'[d][j] # "absent"
        BY <4>1, <4>2, <4>3
      <4>6. j \in recLost' => snap'[j] # "absent"
        BY <3>1, <3>3, <4>1
      <4>7. ASSUME NEW k \in Device, j < k, snap'[j] = "absent", snap'[k] # "absent"
            PROVE  status'[d][j] = "absent"
        BY <3>3, <4>1, <4>2, <4>3, <4>7
      <4> QED
        BY <4>4, <4>5, <4>6, <4>7
    <3>5. PromotionsAreCleared'
      BY <2>c, <3>1 DEF PromotionsAreCleared, Promoting
    <3> QED
      BY <1>p, <2>f5, <2>f7, <3>1, <3>4, <3>5 DEF RolloutInv
  <2>9. ASSUME NEW d \in Deploy, NEW i \in Device, Resend(d, i) PROVE RolloutInv'
    <3>1. /\ UNCHANGED <<deployState, status, recPc, recQueue, snap, recLost, recTodo>>
          /\ recPc = "scan" /\ Current(d) /\ i \in recResend
          /\ Publish(d, i) \/ UNCHANGED sent
      BY <2>9 DEF Resend
    <3>2. sent' = sent
      <4>1. sent[d][i] = TRUE
        BY <1>p, <3>1 DEF PublishedInv, CommandsArePublished, TypeOK
      <4> QED
        BY <1>p, <3>1, <4>1 DEF Publish, TypeOK
    <3>3. RecSnapshot' /\ PromotionsAreCleared'
      BY <2>c, <3>1 DEF RolloutInv, RecSnapshot, PromotionsAreCleared, Promoting, Current
    <3> QED
      BY <1>p, <2>f5, <2>f7, <3>1, <3>2, <3>3 DEF RolloutInv
  <2>10. ASSUME NEW d \in Deploy, NEW s \in State, Settle(d, s) PROVE RolloutInv'
    <3>1. /\ UNCHANGED <<status, sent>> /\ Leave(d)
          /\ deployState' = deployState \/ deployState' = [deployState EXCEPT ![d] = s]
      BY <2>10 DEF Settle, SetDeployState
    <3>2. QueuedAreNotPaused'
      BY <1>p, <2>l, <3>1 DEF TypeOK, RolloutInv, QueuedAreNotPaused
    <3> QED
      BY <1>p, <2>f7, <2>l, <3>1, <3>2 DEF RolloutInv
  <2>11. ASSUME NEW d \in Deploy, Promote(d) PROVE RolloutInv'
    <3>1. /\ UNCHANGED <<deployState, status, sent, recQueue, snap, recLost>>
          /\ recPc = "scan" /\ Current(d) /\ recPc' = "publish"
      BY <2>11 DEF Promote, Scanned
    <3>2. PICK b \in Batches : StopsAt(snap, b) /\ recTodo' = FilterPending(snap, b)
      BY <2>11 DEF Promote
    <3>3. ASSUME NEW i \in Device, i \in recTodo', ~InCanary(i) PROVE cleared[d]
      <4>1. b = 1 /\ snap[i] = "pending"
        BY <3>2, <3>3, CanaryIsBatch0, BatchValues DEF FilterPending, TargetsInBatch
      <4>2. Cleared(snap, 0)
        BY <3>2, <4>1 DEF StopsAt, Least, Batches
      <4>3. CanaryCleared(status[d])
        BY <3>1, <3>3, <4>1, <4>2, CanarySeen DEF RolloutInv
      <4> QED
        BY <4>3 DEF RolloutInv, PromotionsAreCleared
    <3>4. PromotionsAreCleared'
      BY <2>c, <2>u, <3>1, <3>3 DEF PromotionsAreCleared, Current
    <3>5. RecSnapshot'
      BY <3>1 DEF RecSnapshot
    <3> QED
      BY <1>p, <2>f5, <2>f7, <3>1, <3>4, <3>5 DEF RolloutInv
  <2>12. ASSUME NEW d \in Deploy, Wait(d) \/ PromoteReturn(d) PROVE RolloutInv'
    <3>1. Leave(d) /\ UNCHANGED <<deployState, status, sent>>
      BY <2>12 DEF Wait, PromoteReturn
    <3> QED
      BY <1>p, <2>f5, <2>f7, <2>l, <3>1 DEF RolloutInv
  <2>13. ASSUME NEW d \in Deploy, NEW i \in Device, PromotePublish(d, i) PROVE RolloutInv'
    <3>1. /\ UNCHANGED <<deployState, status, recQueue, snap, recLost, recTodo>>
          /\ recPc = "publish" /\ recPc' \in {"record", "fail"} /\ Current(d) /\ Least(i, recTodo)
          /\ Publish(d, i) \/ UNCHANGED sent
      BY <2>13 DEF PromotePublish
    <3>2. ~InCanary(i) => cleared[d]
      BY <3>1 DEF RolloutInv, PromotionsAreCleared, Promoting, Least
    <3>3. CanaryGate'
      BY <2>p, <3>1, <3>2
    <3>4. RecSnapshot' /\ PromotionsAreCleared'
      BY <2>c, <3>1 DEF RolloutInv, RecSnapshot, PromotionsAreCleared, Promoting, Current
    <3> QED
      BY <1>p, <2>f5, <3>1, <3>3, <3>4 DEF RolloutInv
  <2>14. ASSUME NEW d \in Deploy, NEW i \in Device, PromoteRecord(d, i) PROVE RolloutInv'
    <3>1. /\ UNCHANGED <<deployState, sent, recQueue, snap, recLost>>
          /\ recPc \in {"record", "fail"} /\ Current(d)
          /\ recTodo' = recTodo \ {i} /\ recPc' = "publish"
      BY <2>14 DEF PromoteRecord
    <3>2. RecSnapshot' /\ PromotionsAreCleared'
      BY <2>c, <3>1 DEF RolloutInv, RecSnapshot, PromotionsAreCleared, Promoting, Current
    <3> QED
      BY <1>p, <2>f5, <2>f7, <3>1, <3>2 DEF RolloutInv
  <2>15. ASSUME NEW i \in Device, NEW d \in Deploy, NEW s \in Reported, OnTaggedStatus(i, d, s)
         PROVE RolloutInv'
    <3>1. UNCHANGED <<deployState, sent, recVars>>
      BY <2>15 DEF OnTaggedStatus
    <3>2. s \in Status /\ Moved(d, i, s)
      BY <1>p, <2>15, ReportMoves DEF Reported, Status, Terminal
    <3>3. RecSnapshot'
      BY <2>m, <3>1, <3>2
    <3> QED
      BY <1>p, <2>f4, <2>f5, <2>f7, <3>1, <3>3 DEF RolloutInv
  <2>16. ASSUME NEW i \in Device, NEW s \in Reported, OnUntaggedStatus(i, s) PROVE RolloutInv'
    <3>1. UNCHANGED <<deployState, status, sent, recVars>>
      BY <2>16 DEF OnUntaggedStatus
    <3> QED
      BY <1>p, <2>f3, <2>f4, <2>f5, <2>f7, <3>1 DEF RolloutInv
  <2>17. ASSUME NEW i \in Device, AdvanceLatest(i) PROVE RolloutInv'
    <3> DEFINE d == onStatus[i][1]
               s == onStatus[i][2]
    <3>1. /\ UNCHANGED <<deployState, sent, recVars>>
          /\ onStatus[i] # <<>> /\ AdvanceTargetStatus(d, i, s)
      BY <2>17 DEF AdvanceLatest
    <3>2. d \in Deploy /\ s \in Status
      BY <1>p, <3>1 DEF TypeOK, Status, Reported, Terminal
    <3> HIDE DEF d, s
    <3>3. RecSnapshot'
      BY <1>p, <2>m, <3>1, <3>2, AdvanceMoves
    <3> QED
      BY <1>p, <2>f4, <2>f5, <2>f7, <3>1, <3>3 DEF RolloutInv
  <2>18. ASSUME NEW r \in Request, NEW d \in Deploy, ResumeRead(r, d) \/ CancelRead(r, d)
         PROVE RolloutInv'
    <3>1. UNCHANGED <<deployState, status, sent, recVars>>
      BY <2>18 DEF ResumeRead, CancelRead
    <3> QED
      BY <1>p, <2>f3, <2>f4, <2>f5, <2>f7, <3>1 DEF RolloutInv
  <2>19. ASSUME NEW r \in Request, ResetFailedTargets(r) PROVE RolloutInv'
    <3>1. UNCHANGED <<deployState, sent, recVars>>
      BY <2>19 DEF ResetFailedTargets
    <3>2. RecSnapshot'
      <4>1. CASE UNCHANGED status
        BY <2>f3, <3>1, <4>1
      <4>2. CASE ~UNCHANGED status
        <5>1. reqPc[r] = "reset" /\ reqPc'[r] = "set"
          BY <1>p, <2>19, <4>2 DEF ResetFailedTargets, TypeOK
        <5>2. reqDeploy[r] \notin recQueue
          BY <5>1 DEF ResetsWhatIsPaused, RolloutInv, QueuedAreNotPaused
        <5>3. \A e \in Deploy : e # reqDeploy[r] => status'[e] = status[e]
          BY <1>p, <2>19 DEF ResetFailedTargets, TypeOK
        <5>4. \A e \in Deploy : Current(e) => status'[e] = status[e]
          BY <5>2, <5>3 DEF Current, Least
        <5> QED
          BY <3>1, <5>4 DEF RolloutInv, RecSnapshot, Current
      <4> QED
        BY <4>1, <4>2
    <3> QED
      BY <1>p, <2>f4, <2>f5, <2>f7, <3>1, <3>2 DEF RolloutInv
  <2>20. ASSUME NEW r \in Request, ResumeSet(r) \/ CancelSet(r) PROVE RolloutInv'
    <3>1. /\ UNCHANGED <<status, sent, recVars>>
          /\ \/ deployState' = deployState
             \/ \E s \in {"in_progress", "cancelled"} :
                   deployState' = [deployState EXCEPT ![reqDeploy[r]] = s]
      BY <2>20 DEF ResumeSet, CancelSet, SetDeployState
    <3>2. QueuedAreNotPaused'
      BY <1>p, <3>1 DEF TypeOK, RolloutInv, QueuedAreNotPaused
    <3> QED
      BY <1>p, <2>f3, <2>f4, <2>f7, <3>1, <3>2 DEF RolloutInv
  <2>21. ASSUME NEW d \in Deploy, NEW i \in Device, Elapse(d, i) PROVE RolloutInv'
    <3>1. UNCHANGED <<deployState, status, sent, recVars>>
      BY <2>21 DEF Elapse
    <3> QED
      BY <1>p, <2>f3, <2>f4, <2>f5, <2>f7, <3>1 DEF RolloutInv
  <2>22. CASE Crash
    <3>1. UNCHANGED <<deployState, status, sent>> /\ recPc' = "idle" /\ recQueue' = {}
      BY <2>22 DEF Crash
    <3>2. RecSnapshot' /\ PromotionsAreCleared' /\ QueuedAreNotPaused'
      BY <2>c, <3>1 DEF RecSnapshot, PromotionsAreCleared, Promoting, QueuedAreNotPaused
    <3> QED
      BY <1>p, <2>f7, <3>1, <3>2 DEF RolloutInv
  <2>23. CASE \E d \in Deploy : CreateDeploy(d) \/ Rollout(d)
    BY <2>1, <2>2, <2>3, <2>4, <2>5, <2>23 DEF Rollout
  <2>24. CASE Reconcile
    <3>1. ASSUME NEW d \in Deploy, Pause(d) \/ Complete(d) PROVE RolloutInv'
      BY <2>10, <3>1 DEF Pause, Complete, State
    <3> QED
      BY <2>6, <2>7, <2>8, <2>9, <2>11, <2>12, <2>13, <2>14, <2>24, <3>1
         DEF Reconcile, ReconcileDeploy
  <2>25. CASE OnStatus
    BY <2>15, <2>16, <2>17, <2>25 DEF OnStatus
  <2>26. CASE \E r \in Request : \/ Handle(r)
                                 \/ \E d \in Deploy : ResumeRead(r, d) \/ CancelRead(r, d)
    BY <2>18, <2>19, <2>20, <2>26 DEF Handle
  <2> QED
    BY <1>2, <2>21, <2>22, <2>23, <2>24, <2>25, <2>26 DEF Next, Step
<1> QED
  BY <1>1, <1>2

\* One operator at a time: nobody takes the deploy from a Resume, and the loop
\* has no paused deploy to write a verdict of.
LEMMA ResumesStep ==
  ASSUME OneOperator, RolloutInv, ResumesArePaused, [Next]_vars PROVE ResumesArePaused'
<1> USE DEF dbVars, rolloutVars, recVars, reqVars
<1>t. TypeOK /\ TypeOK' /\ \A d \in recQueue : deployState[d] # "paused"
  BY TypeStep DEF RolloutInv, PublishedInv, QueuedAreNotPaused
<1>1. ASSUME UNCHANGED <<deployState, reqVars>> PROVE ResumesArePaused'
  BY <1>1 DEF ResumesArePaused
<1>2. CASE UNCHANGED vars
  BY <1>1, <1>2 DEF vars
<1>3. ASSUME NEW d \in Deploy, CreateDeploy(d) \/ Rollout(d) PROVE ResumesArePaused'
  <2>1. CASE CreateDeploy(d)
    BY <1>t, <2>1 DEF CreateDeploy, SetDeployState, TypeOK, ResumesArePaused
  <2>2. CASE Rollout(d)
    BY <1>1, <2>2
       DEF Rollout, AddTarget, StartTriggering, RolloutPublish, RolloutRecord, RolloutReturn
  <2> QED
    BY <1>3, <2>1, <2>2
<1>4. CASE Reconcile
  <2>1. ASSUME NEW d \in Deploy, NEW s \in State, Current(d), Settle(d, s)
        PROVE  ResumesArePaused'
    <3>1. /\ UNCHANGED reqVars /\ deployState[d] # "paused"
          /\ \A e \in Deploy : e # d => deployState'[e] = deployState[e]
      BY <1>t, <2>1 DEF Settle, SetDeployState, Current, Least, TypeOK
    <3> QED
      BY <1>t, <3>1 DEF TypeOK, ResumesArePaused
  <2>2. ASSUME NEW d \in Deploy, Pause(d) \/ Complete(d) PROVE ResumesArePaused'
    BY <2>1, <2>2 DEF Pause, Complete, Scanned, State
  <2> QED
    BY <1>1, <1>4, <2>2
       DEF Reconcile, ReconcileDeploy, ListActiveDeploys, LoadTargets, MarkLost, Resend, Promote,
           Wait, PromoteReturn, PromotePublish, PromoteRecord
<1>5. CASE OnStatus
  BY <1>1, <1>5 DEF OnStatus, OnTaggedStatus, OnUntaggedStatus, AdvanceLatest
<1>6. ASSUME NEW r \in Request, NEW d \in Deploy, ResumeRead(r, d) \/ CancelRead(r, d)
      PROVE  ResumesArePaused'
  <2>1. /\ UNCHANGED deployState
        /\ reqPc'[r] = "cancel" \/ (deployState[d] = "paused" /\ reqDeploy'[r] = d)
    BY <1>6, <1>t DEF ResumeRead, CancelRead, TypeOK
  <2> QED
    BY <2>1 DEF OneOperator, ResumesArePaused
<1>7. ASSUME NEW r \in Request, Handle(r) PROVE ResumesArePaused'
  <2>1. CASE ResetFailedTargets(r)
    BY <1>t, <2>1 DEF ResetFailedTargets, Return, TypeOK, ResumesArePaused
  <2>2. CASE ResumeSet(r) \/ CancelSet(r)
    <3>1. reqPc'[r] = "idle"
      BY <1>t, <2>2 DEF ResumeSet, CancelSet, Return, TypeOK
    <3> QED
      BY <3>1 DEF OneOperator, ResumesArePaused
  <2> QED
    BY <1>7, <2>1, <2>2 DEF Handle
<1>8. ASSUME NEW d \in Deploy, NEW i \in Device, Elapse(d, i) PROVE ResumesArePaused'
  BY <1>1, <1>8 DEF Elapse
<1>9. CASE Crash
  BY <1>9 DEF Crash, ResumesArePaused
<1> QED
  BY <1>2, <1>3, <1>4, <1>5, <1>6, <1>7, <1>8, <1>9 DEF Next, Step

\* All three layers together.
LEMMA IInvStep == ASSUME OneOperator, IInv, [Next]_vars PROVE IInv' /\ ResetsWhatIsPaused
<1>1. ResetsWhatIsPaused
  BY DEF IInv, ResumesArePaused, ResetsWhatIsPaused
<1> QED
  BY <1>1, RolloutInvStep, ResumesStep DEF IInv

\* The inductive invariant holds initially.
LEMMA InitIInv == Init => IInv
<1>1. Init => TypeOK
  BY ConstantsAssumption DEF Init, TypeOK, Deploy, Device, State, Status, Fresh, Expired
<1>2. Init => RolloutLocals /\ CommandsArePublished /\ LegacyReports /\ ReportsMatchCommands
  BY DEF Init, RolloutLocals, CommandsArePublished, LegacyReports, ReportsMatchCommands, Promoting
<1>3. Init => QueuedAreNotPaused /\ RecSnapshot /\ ResumesArePaused /\ CanaryGate
  BY DEF Init, QueuedAreNotPaused, RecSnapshot, ResumesArePaused, CanaryGate
<1>4. Init => PromotionsAreCleared
  BY CanaryClearedIsCleared DEF Init, PromotionsAreCleared, Promoting, TargetsInBatch
<1> QED
  BY <1>1, <1>2, <1>3, <1>4 DEF IInv, RolloutInv, PublishedInv

\* While no failed target is reset after its deploy has been taken from Resume,
\* what the loop carries in its locals agrees with the tables it was read from.
LEMMA RolloutInvHolds == Spec /\ [][ResetsWhatIsPaused]_vars => []RolloutInv
<1>1. Init => RolloutInv
  BY InitIInv DEF IInv
<1>2. RolloutInv /\ [Next]_vars /\ [ResetsWhatIsPaused]_vars => RolloutInv'
  <2>1. UNCHANGED vars => ResetsWhatIsPaused
    BY DEF vars, reqVars, ResetsWhatIsPaused
  <2> QED
    BY <2>1, RolloutInvStep
<1> QED
  BY <1>1, <1>2, PTL DEF Spec

\* The parts of the invariant hold together in every reachable state if operators
\* act one at a time: then the deploy that Resume works on is still paused.
THEOREM InvariantHolds == ASSUME OneOperator PROVE Spec => []IInv
<1>1. Init => IInv
  BY InitIInv
<1>2. IInv /\ [Next]_vars => IInv'
  BY IInvStep
<1> QED
  BY <1>1, <1>2, PTL DEF Spec

\* Operators that act one at a time only reset what is paused.
LEMMA OneOperatorIsEnough == ASSUME OneOperator PROVE Spec => [][ResetsWhatIsPaused]_vars
<1>1. IInv /\ [Next]_vars => [ResetsWhatIsPaused]_vars
  BY IInvStep
<1> QED
  BY <1>1, InvariantHolds, PTL DEF Spec

\* A device outside the canary batch is sent the command only after the canary
\* batch, as stored, has settled within the failure threshold. For any fleet,
\* percentage, threshold and number of deploys, crashes, failing statements and
\* operators at once, as long as no Resume resets targets of a deploy that another
\* operator has resumed or cancelled since it was read.
THEOREM StagedRolloutIsSafe == Spec /\ [][ResetsWhatIsPaused]_vars => []CanaryGate
<1>1. RolloutInv => CanaryGate
  BY DEF RolloutInv
<1> QED
  BY <1>1, RolloutInvHolds, PTL

\* A report moves a target only if the command of that deploy was published to
\* that device, unless it carries no sequence. Whatever operators do.
THEOREM ReportsAreMatched == Spec => []ReportsMatchCommands
<1>1. Init => PublishedInv
  BY InitIInv DEF IInv, RolloutInv
<1>2. PublishedInv /\ [Next]_vars => PublishedInv'
  BY PublishedStep
<1>3. PublishedInv => ReportsMatchCommands
  BY DEF PublishedInv
<1> QED
  BY <1>1, <1>2, <1>3, PTL DEF Spec

-----------------------------------------------------------------------------
(* Action properties. *)

\* The only steps that change a settled status are those of Resume.
LEMMA OutcomeStep ==
  ASSUME PublishedInv, Next, NEW d \in Deploy, NEW i \in Device,
         status[d][i] \in Terminal, status'[d][i] # status[d][i]
  PROVE  /\ status[d][i] \in Failure /\ status'[d][i] = "pending"
         /\ \E r \in Request : reqPc[r] = "reset" /\ reqPc'[r] = "set" /\ reqDeploy[r] = d
<1> DEFINE Goal ==
      /\ status[d][i] \in Failure /\ status'[d][i] = "pending"
      /\ \E r \in Request : reqPc[r] = "reset" /\ reqPc'[r] = "set" /\ reqDeploy[r] = d
<1>t. TypeOK /\ "absent" \notin Terminal
  BY DEF PublishedInv, Terminal
<1>0. ASSUME NEW e \in Deploy, NEW j \in Device, NEW s, SetTarget(e, j, s) PROVE e = d /\ j = i
  <2>1. status' = [status EXCEPT ![e][j] = s]
    BY <1>0 DEF SetTarget
  <2> QED
    BY <1>t, <2>1 DEF TypeOK
<1>1. ASSUME NEW e \in Deploy, NEW j \in Device, NEW s, AdvanceTargetStatus(e, j, s) PROVE FALSE
  BY <1>0, <1>1 DEF AdvanceTargetStatus, CanAdvance
<1>2. ASSUME NEW e \in Deploy, AddTarget(e) PROVE FALSE
  <2>1. addNext[e] \in Device /\ (UNCHANGED status \/ SetTarget(e, addNext[e], "pending"))
    BY <1>2 DEF AddTarget
  <2>2. status[e][addNext[e]] = "absent"
    BY <1>t, <2>1 DEF PublishedInv, RolloutLocals, TypeOK, Device
  <2> QED
    BY <1>0, <1>t, <2>1, <2>2
<1>3. ASSUME NEW e \in Deploy, CreateDeploy(e) \/ Rollout(e) PROVE FALSE
  <2>1. CASE UNCHANGED status
    BY <2>1
  <2>2. ASSUME NEW j \in Device, RolloutRecord(e, j) PROVE FALSE
    BY <1>1, <2>2 DEF RolloutRecord
  <2> QED
    BY <1>2, <1>3, <2>1, <2>2
       DEF CreateDeploy, SetDeployState, Rollout, StartTriggering, RolloutReturn, RolloutPublish,
           dbVars
<1>4. ASSUME Reconcile PROVE FALSE
  <2>1. ASSUME NEW e \in Deploy, NEW j \in Device, MarkLost(e, j) \/ PromoteRecord(e, j)
        PROVE FALSE
    BY <1>1, <2>1 DEF MarkLost, PromoteRecord
  <2> QED
    BY <1>4, <2>1
       DEF Reconcile, ReconcileDeploy, ListActiveDeploys, LoadTargets, Pause, Complete, Settle,
           SetDeployState, Promote, Wait, PromoteReturn, Resend, PromotePublish, dbVars
<1>5. ASSUME OnStatus PROVE FALSE
  <2>1. ASSUME NEW j \in Device, NEW e \in Deploy, NEW s \in Reported, OnTaggedStatus(j, e, s)
        PROVE FALSE
    BY <1>1, <2>1 DEF OnTaggedStatus, MatchingDeploys, AdvanceTargetStatus
  <2>2. ASSUME NEW j \in Device, AdvanceLatest(j) PROVE FALSE
    BY <1>1, <1>t, <2>2 DEF AdvanceLatest, TypeOK
  <2> QED
    BY <1>5, <2>1, <2>2 DEF OnStatus, OnUntaggedStatus, dbVars
<1>6. ASSUME NEW r \in Request, ResetFailedTargets(r) PROVE Goal
  <2>1. /\ reqPc[r] = "reset" /\ reqDeploy[r] \in Deploy
        /\ d = reqDeploy[r] /\ status[d][i] \in Failure /\ status'[d][i] = "pending"
        /\ reqPc'[r] = "set"
    BY <1>6, <1>t DEF ResetFailedTargets, TypeOK
  <2> QED
    BY <2>1
<1>7. ASSUME NEW r \in Request, NEW e \in Deploy,
             ResumeSet(r) \/ CancelSet(r) \/ ResumeRead(r, e) \/ CancelRead(r, e)
      PROVE FALSE
  BY <1>7 DEF ResumeSet, CancelSet, ResumeRead, CancelRead, SetDeployState, dbVars
<1>8. ASSUME NEW e \in Deploy, NEW j \in Device, Elapse(e, j) PROVE FALSE
  BY <1>8 DEF Elapse
<1>9. ASSUME Crash PROVE FALSE
  BY <1>9 DEF Crash, dbVars
<1> QED
  BY <1>3, <1>4, <1>5, <1>6, <1>7, <1>8, <1>9 DEF Next, Step, Handle

\* Only the verdict of the reconcile loop pauses or completes a deploy.
LEMMA VerdictStep ==
  ASSUME RolloutInv, Next, NEW d \in Deploy, deployState'[d] # deployState[d],
         deployState'[d] \in {"paused", "completed"}
  PROVE  /\ recPc = "scan" /\ Current(d)
         /\ deployState'[d] = "paused" => Pause(d)
         /\ deployState'[d] = "completed" => Complete(d)
<1>t. TypeOK
  BY DEF RolloutInv, PublishedInv
<1>1. ASSUME NEW e \in Deploy, NEW s, SetDeployState(e, s) PROVE e = d /\ s = deployState'[d]
  BY <1>1, <1>t DEF SetDeployState, TypeOK
<1>2. ASSUME NEW e \in Deploy, CreateDeploy(e) \/ Rollout(e) PROVE FALSE
  BY <1>1, <1>2 DEF CreateDeploy, Rollout, AddTarget, StartTriggering, RolloutPublish,
     RolloutRecord, RolloutReturn, dbVars
<1>3. ASSUME NEW e \in Deploy, NEW s, Settle(e, s) PROVE e = d /\ s = deployState'[d]
  BY <1>1, <1>3 DEF Settle, dbVars
<1>4. ASSUME NEW e \in Deploy, Pause(e) PROVE e = d /\ deployState'[d] = "paused"
  BY <1>3, <1>4 DEF Pause
<1>5. ASSUME NEW e \in Deploy, Complete(e) PROVE e = d /\ deployState'[d] = "completed"
  BY <1>3, <1>5 DEF Complete
<1>6. ASSUME Reconcile PROVE Pause(d) \/ Complete(d)
  BY <1>4, <1>5, <1>6
     DEF Reconcile, ReconcileDeploy, ListActiveDeploys, LoadTargets, MarkLost, Resend, Promote,
         Wait, PromotePublish, PromoteRecord, PromoteReturn, dbVars
<1>7. ASSUME OnStatus PROVE FALSE
  BY <1>7 DEF OnStatus, OnTaggedStatus, OnUntaggedStatus, AdvanceLatest, dbVars
<1>8. ASSUME NEW r \in Request, Handle(r) PROVE FALSE
  BY <1>1, <1>8, <1>t DEF Handle, ResetFailedTargets, ResumeSet, CancelSet, TypeOK, dbVars
<1>9. ASSUME NEW r \in Request, NEW e \in Deploy, ResumeRead(r, e) \/ CancelRead(r, e)
      PROVE FALSE
  BY <1>9 DEF ResumeRead, CancelRead, dbVars
<1>10. ASSUME NEW e \in Deploy, NEW j \in Device, Elapse(e, j) PROVE FALSE
  BY <1>10 DEF Elapse
<1>11. ASSUME Crash PROVE FALSE
  BY <1>11 DEF Crash, dbVars
<1>12. Reconcile
  BY <1>2, <1>7, <1>8, <1>9, <1>10, <1>11 DEF Next, Step
<1> QED
  BY <1>4, <1>5, <1>6, <1>12 DEF Pause, Complete, Scanned

\* When the snapshot misses no row, a batch it sees settled is settled in the
\* table with the same verdict.
LEMMA SeenBatch ==
  ASSUME RecSnapshot, NEW d \in Deploy, recPc = "scan", Current(d), SawEveryRow(d),
         NEW b \in Batches, AllTerminal(snap, b)
  PROVE  AllTerminal(status[d], b) /\ (FailureExceeded(status[d], b) <=> FailureExceeded(snap, b))
<1>1. \A j \in Device : /\ snap[j] \in Terminal => status[d][j] = snap[j]
                        /\ snap[j] # "absent" <=> status[d][j] # "absent"
  BY DEF RecSnapshot, SawEveryRow
<1>2. TargetsInBatch(snap, b) = TargetsInBatch(status[d], b)
  BY <1>1 DEF TargetsInBatch
<1> QED
  BY <1>1, <1>2, SameVerdict DEF TargetsInBatch

\* Outcomes are overwritten by no order of events but a Resume of a paused deploy.
THEOREM OutcomesStay == ASSUME OneOperator PROVE Spec => OutcomesAreFinal
<1>1. Init => IInv
  BY InitIInv
<1>2. IInv /\ [Next]_vars => IInv'
  BY IInvStep
<1>3. IInv /\ [Next]_vars =>
        [\A d \in Deploy, i \in Device :
           status[d][i] \in Terminal /\ status'[d][i] # status[d][i]
             => /\ status[d][i] \in Failure
                /\ status'[d][i] = "pending"
                /\ deployState[d] = "paused"]_vars
  BY OutcomeStep DEF IInv, RolloutInv, ResumesArePaused, vars, dbVars
<1> QED
  BY <1>1, <1>2, <1>3, PTL DEF Spec, OutcomesAreFinal

\* A verdict is written as the snapshot says, leaves the targets alone and is
\* the last the pass does with the deploy.
LEMMA VerdictWrites ==
  ASSUME RolloutInv, Next, NEW d \in Deploy, deployState'[d] # deployState[d],
         deployState'[d] \in {"paused", "completed"}
  PROVE  /\ d \in recQueue /\ d \notin recQueue' /\ UNCHANGED <<status, rolloutPc>>
         /\ deployState'[d] = "paused" /\ SawEveryRow(d)
              => \E b \in Batches : BatchTripped(status[d], b)
         /\ deployState'[d] = "completed" /\ SawEveryRow(d)
              => \A b \in Batches : Cleared(status[d], b)
<1>1. /\ recPc = "scan" /\ Current(d)
      /\ deployState'[d] = "paused" => Pause(d)
      /\ deployState'[d] = "completed" => Complete(d)
  BY VerdictStep
<1>2. d \in recQueue /\ d \notin recQueue' /\ UNCHANGED <<status, rolloutPc>>
  BY <1>1 DEF Current, Least, Pause, Complete, Settle, SetDeployState, Leave, rolloutVars, dbVars
<1>3. ASSUME deployState'[d] = "paused", SawEveryRow(d)
      PROVE  \E b \in Batches : BatchTripped(status[d], b)
  <2>1. PICK b \in Batches : BatchTripped(snap, b)
    BY <1>1, <1>3 DEF Pause
  <2> QED
    BY <1>1, <1>3, <2>1, SeenBatch DEF BatchTripped, RolloutInv
<1>4. ASSUME deployState'[d] = "completed", SawEveryRow(d)
      PROVE  \A b \in Batches : Cleared(status[d], b)
  <2>1. \A b \in Batches : Cleared(snap, b)
    BY <1>1, <1>4 DEF Complete
  <2> QED
    BY <1>1, <1>4, <2>1, SeenBatch DEF Cleared, RolloutInv
<1> QED
  BY <1>2, <1>3, <1>4

\* What reconcile decides from its snapshot is true of the tables at the moment
\* of the write: a pause has a tripped batch. For any operators, as above.
THEOREM PausesAreTrue ==
    Spec /\ [][ResetsWhatIsPaused]_vars => PausesAreExplained
<1>1. ASSUME RolloutInv, [Next]_vars, NEW d \in Deploy,
             deployState[d] # "paused", deployState'[d] = "paused", SawEveryRow(d)
      PROVE  \E b \in Batches : BatchTripped(status[d], b)
  <2>1. Next
    BY <1>1 DEF vars, dbVars
  <2> QED
    BY <1>1, <2>1, VerdictWrites
<1>2. RolloutInv /\ [Next]_vars =>
        [\A d \in Deploy :
           deployState[d] # "paused" /\ deployState'[d] = "paused" /\ SawEveryRow(d)
             => \E b \in Batches : BatchTripped(status[d], b)]_vars
  BY <1>1
<1>3. Spec /\ [][ResetsWhatIsPaused]_vars => []RolloutInv
  BY RolloutInvHolds
<1> QED
  BY <1>2, <1>3, PTL DEF Spec, PausesAreExplained

\* A completion has every batch settled within the threshold, in the table as
\* in the snapshot.
THEOREM CompletionsAreTrue ==
    Spec /\ [][ResetsWhatIsPaused]_vars => CompletionsAreSettled
<1>1. ASSUME RolloutInv, [Next]_vars, NEW d \in Deploy,
             deployState[d] # "completed", deployState'[d] = "completed", SawEveryRow(d)
      PROVE  \A b \in Batches : Cleared(status[d], b)
  <2>1. Next
    BY <1>1 DEF vars, dbVars
  <2> QED
    BY <1>1, <2>1, VerdictWrites
<1>2. RolloutInv /\ [Next]_vars =>
        [\A d \in Deploy :
           deployState[d] # "completed" /\ deployState'[d] = "completed" /\ SawEveryRow(d)
             => \A b \in Batches : Cleared(status[d], b)]_vars
  BY <1>1
<1>3. Spec /\ [][ResetsWhatIsPaused]_vars => []RolloutInv
  BY RolloutInvHolds
<1> QED
  BY <1>2, <1>3, PTL DEF Spec, CompletionsAreSettled
=============================================================================
