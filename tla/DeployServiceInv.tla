------------------------- MODULE DeployServiceInv --------------------------
(***************************************************************************)
(* The inductive invariant behind the safety properties of DeployService,  *)
(* in named parts and in three layers. PublishedInv holds of every         *)
(* behaviour; RolloutInv of those in which no failed target is reset once  *)
(* its deploy is no longer paused (ResetsWhatIsPaused), which one operator *)
(* at a time guarantees (OneOperator); IInv says why it does.              *)
(***************************************************************************)
EXTENDS DeployService

OneOperator == \A q, r \in Request : q = r

\* Resume checks the state before it resets the targets (service.go:186-199); a
\* second operator may have resumed or cancelled the deploy in between.
ResetsWhatIsPaused ==
    \A r \in Request :
        reqPc[r] = "reset" /\ reqPc'[r] = "set" => deployState[reqDeploy[r]] = "paused"

Promoting == recPc \in {"publish", "record", "fail"}

\* Rollout inserts targets in order and triggers canary devices only.
RolloutLocals ==
    \A d \in Deploy :
        /\ \A i \in Device : status[d][i] # "absent" => i < addNext[d]
        /\ \A i \in rolloutTodo[d] : InCanary(i)
        /\ rolloutPc[d] = "record" => \A i \in Device : Least(i, rolloutTodo[d]) => sent[d][i]
        /\ rolloutPc[d] \in {"publish", "record", "fail"} => HasCommand(d)

\* Only a published command is recorded as triggered, and re-sent.
CommandsArePublished ==
    /\ \A d \in Deploy, i \in Device : /\ status[d][i] = "triggered" => sent[d][i]
                                       /\ sent[d][i] => HasCommand(d)
    /\ \A d \in Deploy, i \in Device :
          Current(d) => /\ recPc = "scan" /\ i \in recResend => sent[d][i]
                        /\ recPc = "record" /\ Least(i, recTodo) => sent[d][i]
                        /\ Promoting => HasCommand(d)

\* While the pass scans and decides, what its snapshot says has settled is
\* settled in the table, and a row it did not see was not skipped over.
RecSnapshot ==
    \A d \in Deploy :
        recPc = "scan" /\ Current(d) =>
            \A i \in Device :
                /\ snap[i] \in Terminal => status[d][i] = snap[i]
                /\ snap[i] # "absent" => status[d][i] # "absent"
                /\ i \in recLost => snap[i] # "absent"
                /\ \A j \in Device : i < j /\ snap[i] = "absent" /\ snap[j] # "absent"
                                       => status[d][i] = "absent"

\* What is being promoted beyond the canary has been cleared.
PromotionsAreCleared ==
    /\ \A d \in Deploy : CanaryCleared(status[d]) => cleared[d]
    /\ \A d \in Deploy, i \in Device :
          Promoting /\ Current(d) /\ i \in recTodo /\ ~InCanary(i) => cleared[d]

LegacyReports == \A i \in Device : onStatus[i] # <<>> => i \in Legacy

PublishedInv ==
    /\ TypeOK
    /\ RolloutLocals
    /\ CommandsArePublished
    /\ LegacyReports
    /\ ReportsMatchCommands

\* The loop takes no paused deploy into its hands.
QueuedAreNotPaused == \A d \in recQueue : deployState[d] # "paused"

RolloutInv ==
    /\ PublishedInv
    /\ QueuedAreNotPaused
    /\ RecSnapshot
    /\ PromotionsAreCleared
    /\ CanaryGate

\* What Resume read of the deploy is still so while it works on it.
ResumesArePaused ==
    \A r \in Request : reqPc[r] \in {"reset", "set"} => deployState[reqDeploy[r]] = "paused"

IInv == RolloutInv /\ ResumesArePaused

-----------------------------------------------------------------------------
\* The service implements the abstract staged rollout: its tables and history
\* are the abstract state, and all its locals are hidden.
Staged == INSTANCE StagedRollout WITH
            Canary <- {i \in Device : InCanary(i)},
            Untagged <- Legacy,
            Ready <- CanaryCleared

ImplementsStagedRollout == Staged!Spec
=============================================================================
