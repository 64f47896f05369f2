--------------------------- MODULE StagedRollout ---------------------------
(***************************************************************************)
(* What the deploy service promises about each deploy, whatever goroutines,*)
(* snapshots and statements it is made of:                                 *)
(*   - the rest of a fleet is sent a command only once the canary batch    *)
(*     has been cleared;                                                   *)
(*   - a target moves only while it is open, to "triggered" only when its  *)
(*     command was sent, and a tagging device's progress needs that too;   *)
(*   - only failures are ever retried.                                     *)
(***************************************************************************)
CONSTANTS
    Deploy,    \* deploys
    Device,    \* the fleet
    Canary,    \* the devices of the canary batch
    Untagged,  \* devices whose reports do not say which command they concern
    Ready(_)   \* of the statuses of a deploy: its canary batch is cleared

VARIABLES
    status,    \* where each target is, "absent" before it is created
    sent,      \* whether its command was ever sent
    cleared    \* whether the deploy's canary batch was ever cleared

vars == <<status, sent, cleared>>

Failed == {"failed", "lost"}
Open == {"pending", "triggered", "downloading"}
Status == Open \cup Failed \cup {"succeeded"}

Init ==
    /\ status = [d \in Deploy |-> [i \in Device |-> "absent"]]
    /\ sent = [d \in Deploy |-> [i \in Device |-> FALSE]]
    /\ cleared = [d \in Deploy |-> FALSE]

Move(d, i, s) == status' = [status EXCEPT ![d][i] = s] /\ UNCHANGED sent

Add(d, i) == status[d][i] = "absent" /\ Move(d, i, "pending")

Send(d, i) ==
    /\ i \in Canary \/ cleared[d]
    /\ sent' = [sent EXCEPT ![d][i] = TRUE]
    /\ UNCHANGED status

Progress(d, i, s) ==
    /\ status[d][i] \in Open
    /\ s = "triggered" => sent[d][i]
    /\ s \in {"downloading", "succeeded"} => sent[d][i] \/ i \in Untagged
    /\ Move(d, i, s)

Retry(d) ==
    /\ status' = [status EXCEPT ![d] =
                     [i \in Device |-> IF @[i] \in Failed THEN "pending" ELSE @[i]]]
    /\ UNCHANGED sent

Next ==
    /\ \E d \in Deploy :
          \/ \E i \in Device : \/ Add(d, i) \/ Send(d, i)
                               \/ \E s \in Status \ {"pending"} : Progress(d, i, s)
          \/ Retry(d)
    /\ cleared' = [d \in Deploy |-> cleared[d] \/ Ready(status'[d])]

Spec == Init /\ [][Next]_vars
=============================================================================
