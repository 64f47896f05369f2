--------------------------- MODULE ArduinoClient ---------------------------
(***************************************************************************)
(* The update half of the Arduino client                                   *)
(* (client/arduino/src/EspManagerClient.cpp): one loop that handles a      *)
(* packet, reports, and applies an update, in this order, and three keys in*)
(* NVS that are written one after the other. A reset may hit between any   *)
(* two steps.                                                              *)
(*                                                                         *)
(* The loop does by its order what the ESP-IDF client does with tasks and a*)
(* slot: no two updates are under way at once. But there is no trial of a  *)
(* new image (the Arduino core marks it valid), and nothing holds off a    *)
(* command that comes before the last update was reported.                 *)
(*                                                                         *)
(* An image is known by the signed sequence of its command, and so is the  *)
(* version the command names; 0 is the image flashed over serial.          *)
(***************************************************************************)
EXTENDS Integers

CONSTANTS
    MaxSequence,  \* sequences of the commands the server may send are 1..MaxSequence
    Mislabelled   \* images whose firmwareVersion is not the version of their command

Sequence == 1..MaxSequence
None == 0
Factory == 0

ASSUME ArduinoAssumption ==
    /\ MaxSequence \in Nat \ {0}
    /\ Mislabelled \subseteq Sequence

VARIABLES
    app,        \* the running image
    bootApp,    \* the image the next reset starts
    nvsTarget,  \* "otatarget"
    nvsPend,    \* "otapendseq"
    nvsFloor,   \* "otaseq"
    target,     \* otaTarget_
    pend,       \* otaPendSeq_
    floor,      \* otaFloor_
    status,     \* pendingStatus_
    seq,        \* otaSeq_ (and otaVersion_) while otaPending_ or the update is applied
    connected,  \* mqtt_.connected()
    pc,         \* where loop() is
    confirmed,  \* local of flushPendingStatus
    reported,   \* history: sequences reported "ok"
    owed,       \* history: commands accepted since the last reset, not followed by a report
    raced,      \* history: a command was handled before the last update was reported
    torn        \* history: a reset hit between the switch of the image and its record

flashVars == <<app, bootApp>>
nvsVars == <<nvsTarget, nvsPend, nvsFloor>>
ramVars == <<target, pend, floor, confirmed>>
history == <<reported, owed, raced, torn>>
vars == <<flashVars, nvsVars, ramVars, status, seq, connected, pc, history>>

\* cfg_.firmwareVersion of an image, as the command that names it.
FirmwareVersion(i) == IF i \in Mislabelled THEN None ELSE i

TypeOK ==
    /\ {app, bootApp, nvsTarget, nvsPend, nvsFloor, target, pend, floor, seq}
         \subseteq Sequence \cup {None}
    /\ status \in {"", "ok", "failed"}
    /\ connected \in BOOLEAN
    /\ confirmed \in BOOLEAN
    /\ pc \in {"loop", "flush", "raise", "clear", "clearPend", "apply",
               "store", "storePend", "restart"}
    /\ reported \in SUBSET Sequence
    /\ owed \in SUBSET Sequence
    /\ raced \in BOOLEAN
    /\ torn \in BOOLEAN

-----------------------------------------------------------------------------
(* begin() and the connection *)

\* ESP.restart or a reset: begin() loads the three keys again.
Restart ==
    /\ app' = bootApp
    /\ target' = nvsTarget /\ pend' = nvsPend /\ floor' = nvsFloor
    /\ status' = "" /\ seq' = None
    /\ connected' = FALSE /\ pc' = "loop" /\ confirmed' = FALSE
    /\ UNCHANGED <<bootApp, nvsVars, reported, raced>>

\* Power, a panic, a watchdog.
Reset ==
    /\ Restart
    /\ torn' = (torn \/ pc \in {"store", "storePend"})
    /\ owed' = {}

\* MUTANT of ConnectMQTT: the running version is not compared with the target.
ConnectAssured ==
    /\ pc = "loop" /\ ~connected
    /\ connected' = TRUE
    /\ status' = IF target = None THEN status ELSE "ok"
    /\ UNCHANGED <<flashVars, nvsVars, ramVars, seq, pc, history>>

\* connectMQTT and, at its end, confirmOTA; the loop starts again.
ConnectMQTT ==
    /\ pc = "loop" /\ ~connected
    /\ connected' = TRUE
    /\ status' = IF target = None THEN status
                 ELSE IF target = FirmwareVersion(app) THEN "ok" ELSE "failed"
    /\ UNCHANGED <<flashVars, nvsVars, ramVars, seq, pc, history>>

Disconnect ==
    /\ connected
    /\ connected' = FALSE
    /\ UNCHANGED <<flashVars, nvsVars, ramVars, status, seq, pc, history>>

-----------------------------------------------------------------------------
(* mqtt_.loop(): at most one packet *)

NoCommand ==
    /\ pc = "loop" /\ connected
    /\ pc' = "flush"
    /\ UNCHANGED <<flashVars, nvsVars, ramVars, status, seq, connected, history>>

\* The command of sequence s; one that names the running version is dropped.
OnMessage(s) ==
    /\ pc = "loop" /\ connected
    /\ s # FirmwareVersion(app)
    /\ pc' = "flush"
    /\ raced' = (raced \/ target # None)
    /\ \/ s > floor /\ seq' = s /\ owed' = owed \cup {s} /\ UNCHANGED status
       \/ s <= floor /\ status' = "failed" /\ UNCHANGED <<seq, owed>>
    /\ UNCHANGED <<flashVars, nvsVars, ramVars, connected, reported, torn>>

-----------------------------------------------------------------------------
(* flushPendingStatus *)

\* Nothing to report, or the publish fails: it is tried again in the next turn.
FlushNothing ==
    /\ pc = "flush"
    /\ status = "" \/ ~connected
    /\ pc' = "apply"
    /\ UNCHANGED <<flashVars, nvsVars, ramVars, status, seq, connected, history>>

\* MUTANT of FlushReport: the status is dropped when the publish fails.
FlushReportOnce ==
    /\ pc = "flush" /\ status # ""
    /\ confirmed' = (status = "ok")
    /\ reported' = IF connected /\ status = "ok" THEN reported \cup {app} ELSE reported
    /\ owed' = IF connected THEN owed \cap {seq} ELSE owed
    /\ status' = ""
    /\ pc' = IF target = None THEN "apply" ELSE IF status = "ok" THEN "raise" ELSE "clear"
    /\ UNCHANGED <<flashVars, nvsVars, target, pend, floor, seq, connected, raced, torn>>

\* The report is out. It names no sequence: it answers what was accepted before,
\* not the command that waits to be applied.
FlushReport ==
    /\ pc = "flush" /\ connected /\ status # ""
    /\ confirmed' = (status = "ok")
    /\ reported' = IF status = "ok" THEN reported \cup {app} ELSE reported
    /\ owed' = owed \cap {seq}
    /\ status' = ""
    /\ pc' = IF target = None THEN "apply" ELSE IF status = "ok" THEN "raise" ELSE "clear"
    /\ UNCHANGED <<flashVars, nvsVars, target, pend, floor, seq, connected, raced, torn>>

\* MUTANT of RaiseFloor: the floor is taken for the first sequence to accept.
RaiseFloorBeyond ==
    /\ pc = "raise"
    /\ nvsFloor' = pend + 1
    /\ pc' = "clear"
    /\ UNCHANGED <<flashVars, nvsTarget, nvsPend, ramVars, status, seq, connected, history>>

RaiseFloor ==
    /\ pc = "raise"
    /\ nvsFloor' = pend
    /\ pc' = "clear"
    /\ UNCHANGED <<flashVars, nvsTarget, nvsPend, ramVars, status, seq, connected, history>>

ClearTarget ==
    /\ pc = "clear"
    /\ nvsTarget' = None
    /\ pc' = "clearPend"
    /\ UNCHANGED <<flashVars, nvsPend, nvsFloor, ramVars, status, seq, connected, history>>

\* MUTANT of ClearPend: otaFloor_ keeps the value it had when the device started.
ClearPendOnly ==
    /\ pc = "clearPend"
    /\ nvsPend' = None
    /\ target' = None /\ pend' = None
    /\ confirmed' = FALSE
    /\ pc' = "apply"
    /\ UNCHANGED <<flashVars, nvsTarget, nvsFloor, floor, status, seq, connected, history>>

ClearPend ==
    /\ pc = "clearPend"
    /\ nvsPend' = None
    /\ floor' = IF confirmed THEN pend ELSE floor
    /\ target' = None /\ pend' = None
    /\ confirmed' = FALSE
    /\ pc' = "apply"
    /\ UNCHANGED <<flashVars, nvsTarget, nvsFloor, status, seq, connected, history>>

-----------------------------------------------------------------------------
(* applyOTA *)

NothingPending ==
    /\ pc = "apply" /\ seq = None
    /\ pc' = "loop"
    /\ UNCHANGED <<flashVars, nvsVars, ramVars, status, seq, connected, history>>

\* A malformed command or key, a download that breaks, a wrong digest or signature.
ApplyFails ==
    /\ pc = "apply" /\ seq # None
    /\ status' = "failed"
    /\ seq' = None
    /\ pc' = "loop"
    /\ UNCHANGED <<flashVars, nvsVars, ramVars, connected, history>>

\* The whole image is there and is the signed one: Update.end.
UpdateEnds ==
    /\ pc = "apply" /\ seq # None
    /\ bootApp' = seq
    /\ pc' = "store"
    /\ UNCHANGED <<app, nvsVars, ramVars, status, seq, connected, history>>

StoreTarget ==
    /\ pc = "store"
    /\ nvsTarget' = seq
    /\ pc' = "storePend"
    /\ UNCHANGED <<flashVars, nvsPend, nvsFloor, ramVars, status, seq, connected, history>>

\* MUTANT of StorePend: the write fails, which the code does not look at.
StorePendUnsaved ==
    /\ pc = "storePend"
    /\ pc' = "restart"
    /\ UNCHANGED <<flashVars, nvsVars, ramVars, status, seq, connected, history>>

StorePend ==
    /\ pc = "storePend"
    /\ nvsPend' = seq
    /\ pc' = "restart"
    /\ UNCHANGED <<flashVars, nvsTarget, nvsFloor, ramVars, status, seq, connected, history>>

RestartIntoUpdate ==
    /\ pc = "restart"
    /\ Restart
    /\ UNCHANGED <<owed, torn>>

-----------------------------------------------------------------------------
Init ==
    /\ app = Factory /\ bootApp = Factory
    /\ nvsTarget = None /\ nvsPend = None /\ nvsFloor = 0
    /\ target = None /\ pend = None /\ floor = 0
    /\ status = "" /\ seq = None
    /\ connected = FALSE /\ pc = "loop" /\ confirmed = FALSE
    /\ reported = {} /\ owed = {}
    /\ raced = FALSE /\ torn = FALSE

Loop ==
    \/ ConnectMQTT \/ NoCommand \/ FlushNothing \/ FlushReport
    \/ RaiseFloor \/ ClearTarget \/ ClearPend
    \/ NothingPending \/ ApplyFails \/ UpdateEnds \/ StoreTarget \/ StorePend
    \/ RestartIntoUpdate

Next == Loop \/ Disconnect \/ Reset \/ \E s \in Sequence : OnMessage(s)

Spec == Init /\ [][Next]_vars

\* The loop runs. Nothing is assumed of the connection or of downloads.
FairSpec == Spec /\ WF_vars(Loop)

-----------------------------------------------------------------------------
(* Properties *)

\* What is about to be reported of an update is true: "ok" of the running image,
\* and "failed" only if another one runs - unless a command came in between, which
\* makes its own "failed" out of an "ok" that was not sent yet.
ReportsAreTrue ==
    target # None =>
        /\ status = "ok" => FirmwareVersion(app) = target
        /\ status = "failed" /\ ~raced => FirmwareVersion(app) # target

\* A device that reported an image "ok" never runs an older one, however resets fall
\* between the report, the three writes after it and the three before it. It may,
\* if a reset keeps the sequence of an update from being stored, or if a command is
\* handled before the report: it is compared with the floor, then the floor is
\* raised, then it is applied.
NoDowngrade == ~raced /\ ~torn => \A s \in reported : app >= s /\ bootApp >= s

\* A command that was accepted is answered, by "ok" from the image it installed or by
\* "failed", unless the connection never stays, the same command comes over and over,
\* or something resets the device: then what it was doing is lost, as is what is owed.
CommandsAreAnswered ==
    \/ []<><<Disconnect>>_vars
    \/ \A s \in Sequence :
          []<><<OnMessage(s)>>_vars \/ (s \in owed ~> s \notin owed)

-----------------------------------------------------------------------------
(* The invariant that ReportsAreTrue and NoDowngrade need to be proved. *)

Storing == {"store", "storePend", "restart"}
Clearing == {"raise", "clear", "clearPend"}

\* The next image differs from the running one only while it is being recorded.
UpdateInHand ==
    /\ pc \notin Storing => bootApp = app
    /\ pc \in Storing => seq # None
    /\ pc \in {"storePend", "restart"} => nvsTarget = seq

\* What flushPendingStatus has sent decides what it writes; the floor in RAM is the
\* one in NVS but for the time between the two assignments.
VerdictInHand ==
    /\ pc \in Clearing => target # None /\ status = ""
    /\ pc = "raise" => confirmed
    /\ confirmed => pc \in Clearing /\ FirmwareVersion(app) = target
    /\ pc \in Clearing /\ ~confirmed /\ ~raced => FirmwareVersion(app) # target
    /\ status = "ok" => target # None
    /\ IF confirmed /\ pc # "raise" THEN nvsFloor = pend ELSE floor = nvsFloor

\* An update that waits for its report and one that waits to be applied exclude each
\* other; of the first, RAM and NVS say the same.
OneUpdate ==
    ~raced =>
        /\ seq # None => target = None /\ seq > floor
        /\ pc \notin {"storePend", "restart"} =>
               nvsTarget = IF pc = "clearPend" THEN None ELSE target

\* A reported image is below the floor, or it runs and its report will be sent again.
ReportedIsKept ==
    ~raced /\ ~torn =>
        /\ nvsTarget # None /\ pc # "storePend" => nvsPend = nvsTarget
        /\ target # None => pend = target
        /\ \A s \in reported :
              s <= nvsFloor \/ (s = app /\ s = target /\ s = nvsTarget /\ s \notin Mislabelled)

SketchInv ==
    /\ TypeOK
    /\ UpdateInHand /\ VerdictInHand /\ OneUpdate /\ ReportedIsKept
    /\ ReportsAreTrue /\ NoDowngrade
=============================================================================
