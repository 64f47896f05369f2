---------------------------- MODULE DeployPages ----------------------------
(***************************************************************************)
(* The pages on which operators follow a rollout (httpapi/deploys.go,      *)
(* overview.go), over the deploy service: a request reads the row of the   *)
(* deploy and then, in another statement, its targets, and the view is     *)
(* made of the two. In between the service goes on: what the page shows of *)
(* a decided deploy is true only because of what the service may still     *)
(* change after its verdict.                                               *)
(***************************************************************************)
EXTENDS DeployServiceInv

VARIABLES
    pageState,  \* the state a request has read of the deploy, until it reads its targets
    hasty,      \* history: a verdict stored or shown was written before all targets were there
    retried     \* history: Resume has reset targets since the verdict stored, or shown

pageVars == <<pageState, hasty, retried>>

\* Of a deploy in another state the page makes no claim.
Decided == {"paused", "completed"}

-----------------------------------------------------------------------------
(* The view: countTargets per batch, and the pause explained by the first batch *)
(* that BatchTripped, with the threshold as configured.                         *)

Failed(st, b) == Cardinality({i \in TargetsInBatch(st, b) : st[i] \in Failure})
Total(st, b) == Cardinality(TargetsInBatch(st, b))

\* MUTANT of PauseInfo: a batch is shown as the cause before it has settled.
PauseInfoEarly(st) ==
    {b \in Batches : Total(st, b) > 0 /\ Failed(st, b) * 100 >= FailureThreshold * Total(st, b)}

PauseInfo(st) ==
    {b \in Batches : /\ Total(st, b) > 0
                     /\ AllTerminal(st, b)
                     /\ Failed(st, b) * 100 > FailureThreshold * Total(st, b)}

\* The batch that is shown is one the reconcile loop stops at.
Explained(st) == \E b \in PauseInfo(st) : Least(b, PauseInfo(st)) /\ BatchTripped(st, b)

-----------------------------------------------------------------------------
\* GetDeploy, or ListDeploys.
ReadDeploy(d) ==
    /\ pageState[d] = "none"
    /\ deployState[d] # "none"
    /\ pageState' = [pageState EXCEPT ![d] = deployState[d]]
    /\ UNCHANGED <<vars, hasty, retried>>

\* TargetsForDeploy; the view is sent. Or the request fails.
ReadTargets(d) ==
    /\ pageState[d] # "none"
    /\ pageState' = [pageState EXCEPT ![d] = "none"]
    /\ UNCHANGED <<vars, hasty, retried>>

Verdict(d) == deployState'[d] # deployState[d] /\ deployState'[d] \in Decided
Retry(d) == \E r \in Request : reqPc[r] = "reset" /\ reqPc'[r] = "set" /\ reqDeploy[r] = d

\* A step of the service, and what the pages will have to know about it: of the
\* verdicts since, if a page still shows one, or of the last.
Serve ==
    /\ Next
    /\ hasty' = [d \in Deploy |->
                   IF Verdict(d)
                   THEN \/ rolloutPc[d] = "add" \/ ~SawEveryRow(d)
                        \/ pageState[d] \in Decided /\ hasty[d]
                   ELSE hasty[d]]
    /\ retried' = [d \in Deploy |->
                     \/ Retry(d)
                     \/ retried[d] /\ (Verdict(d) => pageState[d] \in Decided)]
    /\ UNCHANGED pageState

PagesInit ==
    /\ Init
    /\ pageState = [d \in Deploy |-> "none"]
    /\ hasty = [d \in Deploy |-> FALSE]
    /\ retried = [d \in Deploy |-> FALSE]

PagesNext == Serve \/ \E d \in Deploy : ReadDeploy(d) \/ ReadTargets(d)

\* Nothing is assumed of pages.
PagesSpec == PagesInit /\ [][PagesNext]_<<vars, pageVars>> /\ Fairness

-----------------------------------------------------------------------------
\* A deploy that a page shows as completed is shown with every target settled and no
\* batch over the threshold, whenever the page gets to read the targets.
CompletedPagesAreSettled ==
    \A d \in Deploy : pageState[d] = "completed" /\ ~hasty[d] => \A b \in Batches : Cleared(status[d], b)

\* A deploy that a page shows as paused is shown with the batch that tripped: "the
\* exact condition the reconcile loop pauses on" (service.go:445), although targets
\* are still reported on, unless it is being resumed.
PausedPagesAreExplained ==
    \A d \in Deploy : pageState[d] = "paused" /\ ~hasty[d] /\ ~retried[d] => Explained(status[d])
=============================================================================
