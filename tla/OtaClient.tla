----------------------------- MODULE OtaClient -----------------------------
(***************************************************************************)
(* The update half of the ESP-IDF client                                   *)
(* (client/esp-idf/.../espmanager_client.c): two flash partitions, of which*)
(* the bootloader runs one; four numbers in NVS that survive a reset; and  *)
(* three FreeRTOS tasks that do not: the MQTT event task that takes the    *)
(* commands, ota_task that downloads and applies, and confirm_task that    *)
(* owns a fresh image's confirm-or-roll-back decision. A reset may hit     *)
(* between any two steps; a step is one write to flash or NVS, or one      *)
(* critical section.                                                       *)
(*                                                                         *)
(* An image is known by the signed sequence of its command; 0 is the image *)
(* flashed over serial and Torn a partition an update is being written to. *)
(***************************************************************************)
EXTENDS Integers, Sequences

CONSTANTS
    MaxSequence,  \* sequences of the commands the server may send are 1..MaxSequence
    MaxResets     \* bound: resets from outside the client (power, panic, new credential)

ASSUME ClientAssumption == MaxSequence \in Nat \ {0} /\ MaxResets \in Nat

None == 0
Factory == 0
Torn == -1
QueueSize == 2

Sequence == 1..MaxSequence
Image == Sequence \cup {Factory}

VARIABLES
    app,            \* image in the running partition
    unverified,     \* ... it is in state ESP_OTA_IMG_PENDING_VERIFY
    other,          \* image in the other partition
    swap,           \* the bootloader will start the other partition
    nvsPend,        \* KEY_PENDSEQ
    nvsFloor,       \* KEY_FLOOR
    nvsFailed,      \* KEY_FAILEDSEQ
    phase,          \* of espmanager_start: "off", "arm", "quarantine", "up"
    floor,          \* s_floor
    inflight,       \* s_pendingSeq
    failed,         \* s_failedSeq
    owesRollback,   \* s_report_rollback_failed
    connected,      \* the MQTT session is up
    semaphore,      \* s_connected_sem has been given
    queue,          \* s_ota_queue
    taskPc, taskSeq,\* ota_task and the command it works on
    confirmPc, confirmSeq, \* confirm_task and its local "pending"
    proven,         \* history: images that were marked valid
    rolledBack,     \* history: images the bootloader rolled back
    reportedOk,     \* history: sequences reported "ok"
    owed,           \* history: accepted commands not answered by "ok" or "failed"
    resets          \* resets that have happened

flashVars == <<app, unverified, other, swap>>
nvsVars == <<nvsPend, nvsFloor, nvsFailed>>
slotVars == <<floor, inflight, failed>>
linkVars == <<owesRollback, connected, semaphore>>
taskVars == <<queue, taskPc, taskSeq>>
confirmVars == <<confirmPc, confirmSeq>>
reportVars == <<reportedOk, owed>>
history == <<proven, rolledBack>>
vars == <<flashVars, nvsVars, phase, slotVars, linkVars, taskVars, confirmVars,
          history, reportVars, resets>>

-----------------------------------------------------------------------------
ReportFailed(s) == owed' = owed \ {s} /\ UNCHANGED reportedOk
ReportOk(s) == owed' = owed \ {s} /\ reportedOk' = reportedOk \cup {s}

\* The tasks and everything in RAM are gone; flash and NVS stay.
Reset ==
    /\ phase' = "off"
    /\ floor' = 0 /\ inflight' = None /\ failed' = None
    /\ owesRollback' = FALSE /\ connected' = FALSE /\ semaphore' = FALSE
    /\ queue' = <<>> /\ taskPc' = "idle" /\ taskSeq' = None
    /\ confirmPc' = "none" /\ confirmSeq' = None

-----------------------------------------------------------------------------
(* Start-up *)

\* The bootloader starts the image it was told to, for one try; an image that
\* was not confirmed in its one try is rolled back. The client then loads what
\* it keeps in NVS.
Boot ==
    /\ phase = "off"
    /\ \/ /\ swap
          /\ app' = other /\ other' = app
          /\ unverified' = TRUE
          /\ UNCHANGED rolledBack
       \/ /\ ~swap /\ unverified
          /\ app' = other /\ other' = app
          /\ unverified' = FALSE
          /\ rolledBack' = rolledBack \cup {app}
       \/ ~swap /\ ~unverified /\ UNCHANGED <<app, other, unverified, rolledBack>>
    /\ swap' = FALSE
    /\ floor' = nvsFloor /\ failed' = nvsFailed
    /\ phase' = "arm"
    /\ UNCHANGED <<nvsVars, inflight, linkVars, taskVars, confirmVars, proven,
                   reportVars, resets>>

\* MUTANT of ArmFresh: the slot is not taken again after the reboot.
ArmFreshUnheld ==
    /\ phase = "arm" /\ unverified
    /\ confirmPc' = "wait"
    /\ phase' = "up"
    /\ UNCHANGED <<flashVars, nvsVars, slotVars, linkVars, taskVars, confirmSeq,
                   history, reportVars, resets>>

\* arm_confirmation for a fresh image: hold the slot and start confirm_task.
ArmFresh ==
    /\ phase = "arm" /\ unverified
    /\ inflight' = nvsPend
    /\ confirmPc' = "wait"
    /\ phase' = "up"
    /\ UNCHANGED <<flashVars, nvsVars, floor, failed, linkVars, taskVars, confirmSeq,
                   history, reportVars, resets>>

\* MUTANT of ArmSettled: the failure is quarantined but not reported.
ArmSettledSilently ==
    /\ phase = "arm" /\ ~unverified
    /\ nvsPend' = None
    /\ IF nvsPend > floor THEN failed' = nvsPend /\ phase' = "quarantine"
                          ELSE phase' = "up" /\ UNCHANGED failed
    /\ UNCHANGED <<flashVars, nvsFloor, nvsFailed, floor, inflight, linkVars, taskVars,
                   confirmVars, history, reportVars, resets>>

\* arm_confirmation for a confirmed image: a sequence still pending above the
\* floor is taken for a rolled back one, whose quarantine is stored next.
ArmSettled ==
    /\ phase = "arm" /\ ~unverified
    /\ nvsPend' = None
    /\ IF nvsPend > floor
       THEN owesRollback' = TRUE /\ failed' = nvsPend /\ phase' = "quarantine"
       ELSE phase' = "up" /\ UNCHANGED <<owesRollback, failed>>
    /\ UNCHANGED <<flashVars, nvsFloor, nvsFailed, floor, inflight, connected, semaphore,
                   taskVars, confirmVars, history, reportVars, resets>>

Quarantine ==
    /\ phase = "quarantine"
    /\ nvsFailed' = failed
    /\ phase' = "up"
    /\ UNCHANGED <<flashVars, nvsPend, nvsFloor, slotVars, linkVars, taskVars, confirmVars,
                   history, reportVars, resets>>

-----------------------------------------------------------------------------
(* The MQTT event task *)

\* MQTT_EVENT_CONNECTED: report a rollback, and tell a waiting confirm_task.
Connect ==
    /\ phase = "up" /\ ~connected
    /\ connected' = TRUE
    /\ owesRollback' = FALSE
    /\ IF owesRollback THEN ReportFailed(failed) ELSE UNCHANGED reportVars
    /\ semaphore' = (semaphore \/ confirmPc = "wait")
    /\ UNCHANGED <<flashVars, nvsVars, phase, slotVars, taskVars, confirmVars, history, resets>>

Disconnect ==
    /\ connected
    /\ connected' = FALSE
    /\ UNCHANGED <<flashVars, nvsVars, phase, slotVars, owesRollback, semaphore, taskVars,
                   confirmVars, history, reportVars, resets>>

\* MUTANT of Accepts: the single in-flight slot is not respected.
AcceptsAny(s) == s > floor

\* What the critical section of handle_cmd_ota claims the slot for.
Accepts(s) == s > floor /\ inflight = None

\* MUTANT of AnswersOk: a command below the floor is taken for applied.
AnswersOkBelow(s) == s <= floor

AnswersOk(s) == s = floor

\* handle_cmd_ota: a quarantined sequence fails at once; an acceptable one is
\* queued; a settled one is answered; any other is dropped.
HandleCmdOta(s) ==
    /\ connected
    /\ \/ /\ failed # None /\ s = failed
          /\ ReportFailed(s)
          /\ UNCHANGED <<inflight, queue>>
       \/ /\ s # failed \/ failed = None
          /\ Accepts(s)
          /\ IF Len(queue) < QueueSize
             THEN /\ inflight' = s
                  /\ queue' = Append(queue, s)
                  /\ owed' = owed \cup {s}
                  /\ UNCHANGED reportedOk
             ELSE ReportFailed(s) /\ UNCHANGED <<inflight, queue>>
       \/ /\ s # failed \/ failed = None
          /\ ~Accepts(s)
          /\ IF AnswersOk(s) THEN ReportOk(s)
             ELSE s < floor /\ ReportFailed(s)
          /\ UNCHANGED <<inflight, queue>>
    /\ UNCHANGED <<flashVars, nvsVars, phase, floor, failed, linkVars, taskPc, taskSeq,
                   confirmVars, history, resets>>

-----------------------------------------------------------------------------
(* ota_task *)

\* MUTANT of ReceiveCmd: the slot is released when the command leaves the queue.
ReceiveCmdReleasing ==
    /\ taskPc = "idle"
    /\ queue # <<>>
    /\ taskSeq' = Head(queue)
    /\ queue' = Tail(queue)
    /\ inflight' = None
    /\ taskPc' = "open"
    /\ UNCHANGED <<flashVars, nvsVars, phase, floor, failed, linkVars, confirmVars, history,
                   reportVars, resets>>

ReceiveCmd ==
    /\ taskPc = "idle"
    /\ queue # <<>>
    /\ taskSeq' = Head(queue)
    /\ queue' = Tail(queue)
    /\ taskPc' = "open"
    /\ UNCHANGED <<flashVars, nvsVars, phase, slotVars, linkVars, confirmVars, history,
                   reportVars, resets>>

\* esp_ota_begin: from here on the other partition is being overwritten.
BeginWrite ==
    /\ taskPc = "open"
    /\ other' = Torn
    /\ taskPc' = "write"
    /\ UNCHANGED <<app, unverified, swap, nvsVars, phase, slotVars, linkVars, queue, taskSeq,
                   confirmVars, history, reportVars, resets>>

\* The whole image is written and its signature over sequence and digest holds.
Verified ==
    /\ taskPc = "write"
    /\ other' = taskSeq
    /\ taskPc' = "store"
    /\ UNCHANGED <<app, unverified, swap, nvsVars, phase, slotVars, linkVars, queue, taskSeq,
                   confirmVars, history, reportVars, resets>>

\* Timing: a download that began after confirm_task released the slot takes
\* longer than the three NVS writes with which that task (of higher priority) ends.
BookkeepingIsOver == confirmPc = "none"

\* MUTANT of StorePending: a write to NVS that fails, which nobody looks at.
StorePendingUnsaved ==
    /\ taskPc = "store"
    /\ BookkeepingIsOver
    /\ taskPc' = "setBoot"
    /\ UNCHANGED <<flashVars, nvsVars, phase, slotVars, linkVars, queue, taskSeq,
                   confirmVars, history, reportVars, resets>>

StorePending ==
    /\ taskPc = "store"
    /\ BookkeepingIsOver
    /\ nvsPend' = taskSeq
    /\ taskPc' = "setBoot"
    /\ UNCHANGED <<flashVars, nvsFloor, nvsFailed, phase, slotVars, linkVars, queue, taskSeq,
                   confirmVars, history, reportVars, resets>>

\* esp_ota_set_boot_partition, and esp_restart.
SetBoot ==
    /\ taskPc = "setBoot"
    /\ swap' = TRUE
    /\ taskPc' = "restart"
    /\ UNCHANGED <<app, unverified, other, nvsVars, phase, slotVars, linkVars, queue, taskSeq,
                   confirmVars, history, reportVars, resets>>

Restart ==
    /\ taskPc = "restart"
    /\ Reset
    /\ UNCHANGED <<flashVars, nvsVars, history, reportVars, resets>>

SetBootFails ==
    /\ taskPc = "setBoot"
    /\ nvsPend' = None
    /\ taskPc' = "failed"
    /\ UNCHANGED <<flashVars, nvsFloor, nvsFailed, phase, slotVars, linkVars, queue, taskSeq,
                   confirmVars, history, reportVars, resets>>

\* A download, verification or set_boot that failed: the slot is released if it
\* is still this command's, then the failure is reported.
FailCmd ==
    /\ taskPc \in {"open", "write", "failed"}
    /\ inflight' = IF inflight = taskSeq THEN None ELSE inflight
    /\ ReportFailed(taskSeq)
    /\ taskPc' = "idle" /\ taskSeq' = None
    /\ UNCHANGED <<flashVars, nvsVars, phase, floor, failed, linkVars, queue, confirmVars,
                   history, resets>>

OtaTask == \/ ReceiveCmd \/ BeginWrite \/ Verified \/ StorePending \/ SetBoot
           \/ Restart \/ SetBootFails \/ FailCmd

-----------------------------------------------------------------------------
(* confirm_task *)

\* The broker was reached in time: the image is marked valid.
MarkValid ==
    /\ confirmPc = "wait" /\ semaphore
    /\ semaphore' = FALSE
    /\ unverified' = FALSE
    /\ proven' = proven \cup {app}
    /\ confirmPc' = "advance"
    /\ UNCHANGED <<app, other, swap, nvsVars, phase, slotVars, owesRollback, connected,
                   taskVars, confirmSeq, rolledBack, reportVars, resets>>

\* It was not, or marking fails: reboot into the other partition.
RollBack ==
    /\ confirmPc = "wait"
    /\ Reset
    /\ UNCHANGED <<flashVars, nvsVars, history, reportVars, resets>>

\* Raise the floor and release the slot, in one critical section.
Advance ==
    /\ confirmPc = "advance"
    /\ confirmSeq' = nvsPend
    /\ IF nvsPend > floor THEN floor' = nvsPend /\ confirmPc' = "storeFloor"
                          ELSE confirmPc' = "clearFailed" /\ UNCHANGED floor
    /\ inflight' = None
    /\ UNCHANGED <<flashVars, nvsVars, phase, failed, linkVars, taskVars, history,
                   reportVars, resets>>

StoreFloor ==
    /\ confirmPc = "storeFloor"
    /\ nvsFloor' = confirmSeq
    /\ confirmPc' = "clearFailed"
    /\ UNCHANGED <<flashVars, nvsPend, nvsFailed, phase, slotVars, linkVars, taskVars,
                   confirmSeq, history, reportVars, resets>>

ClearFailed ==
    /\ confirmPc = "clearFailed"
    /\ failed' = None
    /\ nvsFailed' = None
    /\ confirmPc' = "clearPend"
    /\ UNCHANGED <<flashVars, nvsPend, nvsFloor, phase, floor, inflight, linkVars, taskVars,
                   confirmSeq, history, reportVars, resets>>

ClearPend ==
    /\ confirmPc = "clearPend"
    /\ nvsPend' = None
    /\ confirmPc' = "report"
    /\ UNCHANGED <<flashVars, nvsFloor, nvsFailed, phase, slotVars, linkVars, taskVars,
                   confirmSeq, history, reportVars, resets>>

ReportConfirmed ==
    /\ confirmPc = "report"
    /\ ReportOk(confirmSeq)
    /\ confirmPc' = "none" /\ confirmSeq' = None
    /\ UNCHANGED <<flashVars, nvsVars, phase, slotVars, linkVars, taskVars, history, resets>>

ConfirmTask == \/ MarkValid \/ RollBack \/ Advance \/ StoreFloor \/ ClearFailed
               \/ ClearPend \/ ReportConfirmed

-----------------------------------------------------------------------------
\* Power, a panic, or the restart of handle_cmd_cred.
OutsideReset ==
    /\ phase # "off"
    /\ resets < MaxResets /\ resets' = resets + 1
    /\ Reset
    /\ UNCHANGED <<flashVars, nvsVars, history, reportVars>>

Init ==
    /\ app = Factory /\ other = Torn /\ unverified = FALSE /\ swap = FALSE
    /\ nvsPend = None /\ nvsFloor = 0 /\ nvsFailed = None
    /\ phase = "off"
    /\ floor = 0 /\ inflight = None /\ failed = None
    /\ owesRollback = FALSE /\ connected = FALSE /\ semaphore = FALSE
    /\ queue = <<>> /\ taskPc = "idle" /\ taskSeq = None
    /\ confirmPc = "none" /\ confirmSeq = None
    /\ proven = {Factory} /\ rolledBack = {} /\ reportedOk = {} /\ owed = {}
    /\ resets = 0

StartUp == Boot \/ ArmFresh \/ ArmSettled \/ Quarantine

Next ==
    \/ StartUp
    \/ Connect \/ Disconnect \/ \E s \in Sequence : HandleCmdOta(s)
    \/ OtaTask
    \/ ConfirmTask
    \/ OutsideReset

Spec == Init /\ [][Next]_vars

\* The tasks are scheduled and the client keeps trying to connect; whether a
\* download or a confirmation succeeds, and what the server sends, is open.
Fairness ==
    /\ WF_vars(StartUp) /\ WF_vars(Connect)
    /\ WF_vars(OtaTask) /\ WF_vars(ConfirmTask)

FairSpec == Spec /\ Fairness

-----------------------------------------------------------------------------
TypeOK ==
    /\ app \in Image /\ other \in Image \cup {Torn}
    /\ unverified \in BOOLEAN /\ swap \in BOOLEAN
    /\ nvsPend \in Image /\ nvsFloor \in Image /\ nvsFailed \in Image
    /\ phase \in {"off", "arm", "quarantine", "up"}
    /\ floor \in Image /\ inflight \in Image /\ failed \in Image
    /\ owesRollback \in BOOLEAN /\ connected \in BOOLEAN /\ semaphore \in BOOLEAN
    /\ queue \in Seq(Sequence) /\ Len(queue) <= QueueSize
    /\ taskPc \in {"idle", "open", "write", "store", "setBoot", "restart", "failed"}
    /\ taskSeq \in Image
    /\ confirmPc \in {"none", "wait", "advance", "storeFloor", "clearFailed", "clearPend",
                      "report"}
    /\ confirmSeq \in Image
    /\ proven \in SUBSET Image /\ rolledBack \in SUBSET Image
    /\ reportedOk \in SUBSET Image /\ owed \in SUBSET Sequence
    /\ resets \in 0..MaxResets

-----------------------------------------------------------------------------
(* Safety *)

\* As long as the running image is not confirmed, the other partition holds one
\* that was, and only whole images are started: neither a second update nor a
\* reset takes the way back away (handle_cmd_ota claims its slot for this).
RollbackImageKept ==
    /\ unverified => other \in proven
    /\ swap => app \in proven /\ other # Torn

\* An "ok" is never a promise: the sequence it names was confirmed on this
\* device, also when the answer comes from the floor alone, after resets.
OkIsTrue == reportedOk \subseteq proven

\* The slot covers the whole way of a command through queue and ota_task, so the
\* queue, of two places, never holds a second command.
OneInFlight ==
    /\ queue # <<>> => taskPc = "idle" /\ inflight # None /\ queue = <<inflight>>
    /\ taskPc # "idle" => inflight # None /\ inflight = taskSeq

-----------------------------------------------------------------------------
(* The inductive invariant behind them. *)

\* What runs was confirmed or is on trial, its sequence pending in NVS; on trial
\* from the boot that started it until confirm_task decides.
ImagesAreTracked ==
    /\ ~unverified => app \in proven
    /\ unverified => nvsPend = app /\ app # Factory
    /\ swap => nvsPend = other /\ other # Factory /\ ~unverified
    /\ Factory \in proven
    /\ {nvsFloor, floor} \subseteq proven

\* Nothing runs before start-up is over, and who holds the slot when.
TasksInTurn ==
    /\ phase # "up" => confirmPc = "none" /\ taskPc = "idle" /\ queue = <<>>
                       /\ ~connected /\ inflight = None
    /\ phase = "quarantine" => ~unverified
    /\ swap => phase = "off" \/ taskPc = "restart"
    /\ taskPc = "restart" => swap
    /\ unverified /\ phase = "up" <=> confirmPc = "wait"
    /\ confirmPc \in {"wait", "advance"} =>
          /\ taskPc = "idle" /\ queue = <<>>
          /\ nvsPend = app /\ inflight = app /\ app # Factory
    /\ confirmPc \in {"storeFloor", "clearFailed", "clearPend", "report"} =>
          confirmSeq \in proven
    /\ taskPc \in {"store", "setBoot"} => other = taskSeq
    /\ taskPc \in {"setBoot", "restart"} => confirmPc = "none" /\ nvsPend = taskSeq

ClientInv ==
    /\ TypeOK
    /\ ImagesAreTracked
    /\ TasksInTurn
    /\ RollbackImageKept
    /\ OkIsTrue
    /\ OneInFlight

-----------------------------------------------------------------------------
(* Liveness *)

\* As long as nothing resets it from outside, every accepted command is answered
\* by "ok" or "failed", across the client's own restarts.
EveryCommandAnswered ==
    \A s \in Sequence : s \in owed /\ resets = 0 ~> s \notin owed \/ resets > 0

-----------------------------------------------------------------------------
(* What a comment of the client says and its steps do not keep. *)

\* "If it never advanced the floor, the bootloader rolled the image back: report
\* the failure."
RollbackReportIsTrue == owesRollback => failed \in rolledBack
=============================================================================
