------------------------ MODULE ArduinoClient_proofs ------------------------
(***************************************************************************)
(* Theorems about ArduinoClient: its inductive invariant, and with it that *)
(* reports are true and that a reported image is not replaced by an older  *)
(* one, for any number of commands, resets and broken connections.         *)
(***************************************************************************)
EXTENDS ArduinoClient, TLAPS

\* The first state: the image flashed over serial, and empty NVS.
LEMMA InitSketchInv == Init => SketchInv
  BY ArduinoAssumption DEF ArduinoAssumption, Init, SketchInv, TypeOK, UpdateInHand, VerdictInHand, OneUpdate,
      ReportedIsKept, ReportsAreTrue, NoDowngrade, Storing, Clearing, Sequence, None,
      Factory, FirmwareVersion

\* What the sequences are compared as.
LEMMA SequencesAreNumbers ==
    ASSUME TypeOK
    PROVE  /\ app \in Nat /\ bootApp \in Nat /\ nvsFloor \in Nat /\ floor \in Nat
           /\ seq \in Nat /\ Sequence \subseteq Nat
  <1>1. Sequence \cup {None} \subseteq Nat
    BY ArduinoAssumption DEF ArduinoAssumption, Sequence, None
  <1> QED
    BY <1>1 DEF TypeOK

\* Every step keeps the invariant; one step per action, and one per conjunct below it.
LEMMA SketchInvStep == SketchInv /\ [Next]_vars => SketchInv'
  <1> SUFFICES ASSUME SketchInv, [Next]_vars PROVE SketchInv'
    OBVIOUS
  <1> USE ArduinoAssumption DEF ArduinoAssumption, Sequence, None, FirmwareVersion, Storing, Clearing
  <1>1. CASE ConnectMQTT
    <2>1. TypeOK'
      BY <1>1 DEF SketchInv, TypeOK, ConnectMQTT, flashVars, nvsVars, ramVars, history
    <2>2. UpdateInHand'
      BY <1>1 DEF SketchInv, TypeOK, UpdateInHand, ConnectMQTT, flashVars, nvsVars, ramVars,
          history
    <2>3. VerdictInHand'
      BY <1>1 DEF SketchInv, TypeOK, VerdictInHand, ReportsAreTrue, UpdateInHand,
          ConnectMQTT, flashVars, nvsVars, ramVars, history
    <2>4. OneUpdate'
      BY <1>1 DEF SketchInv, TypeOK, OneUpdate, VerdictInHand, UpdateInHand, ConnectMQTT,
          flashVars, nvsVars, ramVars, history
    <2>5. ReportedIsKept'
      BY <1>1 DEF SketchInv, TypeOK, ReportedIsKept, OneUpdate, VerdictInHand, UpdateInHand,
          ReportsAreTrue, NoDowngrade, ConnectMQTT, flashVars, nvsVars, ramVars, history
    <2>6. ReportsAreTrue'
      BY <1>1 DEF SketchInv, TypeOK, ReportsAreTrue, OneUpdate, VerdictInHand, ConnectMQTT,
          flashVars, nvsVars, ramVars, history
    <2>7. NoDowngrade'
      BY <1>1 DEF SketchInv, TypeOK, NoDowngrade, ReportedIsKept, OneUpdate, UpdateInHand,
          VerdictInHand, ReportsAreTrue, ConnectMQTT, flashVars, nvsVars, ramVars, history
    <2> QED
      BY <2>1, <2>2, <2>3, <2>4, <2>5, <2>6, <2>7 DEF SketchInv
  <1>2. CASE Disconnect
    <2>1. TypeOK'
      BY <1>2 DEF SketchInv, TypeOK, Disconnect, flashVars, nvsVars, ramVars, history
    <2>2. UpdateInHand'
      BY <1>2 DEF SketchInv, TypeOK, UpdateInHand, Disconnect, flashVars, nvsVars, ramVars,
          history
    <2>3. VerdictInHand'
      BY <1>2 DEF SketchInv, TypeOK, VerdictInHand, ReportsAreTrue, UpdateInHand, Disconnect,
          flashVars, nvsVars, ramVars, history
    <2>4. OneUpdate'
      BY <1>2 DEF SketchInv, TypeOK, OneUpdate, VerdictInHand, UpdateInHand, Disconnect,
          flashVars, nvsVars, ramVars, history
    <2>5. ReportedIsKept'
      BY <1>2 DEF SketchInv, TypeOK, ReportedIsKept, OneUpdate, VerdictInHand, UpdateInHand,
          ReportsAreTrue, NoDowngrade, Disconnect, flashVars, nvsVars, ramVars, history
    <2>6. ReportsAreTrue'
      BY <1>2 DEF SketchInv, TypeOK, ReportsAreTrue, OneUpdate, VerdictInHand, Disconnect,
          flashVars, nvsVars, ramVars, history
    <2>7. NoDowngrade'
      BY <1>2 DEF SketchInv, TypeOK, NoDowngrade, ReportedIsKept, OneUpdate, UpdateInHand,
          VerdictInHand, ReportsAreTrue, Disconnect, flashVars, nvsVars, ramVars, history
    <2> QED
      BY <2>1, <2>2, <2>3, <2>4, <2>5, <2>6, <2>7 DEF SketchInv
  <1>3. CASE NoCommand
    <2>1. TypeOK'
      BY <1>3 DEF SketchInv, TypeOK, NoCommand, flashVars, nvsVars, ramVars, history
    <2>2. UpdateInHand'
      BY <1>3 DEF SketchInv, TypeOK, UpdateInHand, NoCommand, flashVars, nvsVars, ramVars,
          history
    <2>3. VerdictInHand'
      BY <1>3 DEF SketchInv, TypeOK, VerdictInHand, ReportsAreTrue, UpdateInHand, NoCommand,
          flashVars, nvsVars, ramVars, history
    <2>4. OneUpdate'
      BY <1>3 DEF SketchInv, TypeOK, OneUpdate, VerdictInHand, UpdateInHand, NoCommand,
          flashVars, nvsVars, ramVars, history
    <2>5. ReportedIsKept'
      BY <1>3 DEF SketchInv, TypeOK, ReportedIsKept, OneUpdate, VerdictInHand, UpdateInHand,
          ReportsAreTrue, NoDowngrade, NoCommand, flashVars, nvsVars, ramVars, history
    <2>6. ReportsAreTrue'
      BY <1>3 DEF SketchInv, TypeOK, ReportsAreTrue, OneUpdate, VerdictInHand, NoCommand,
          flashVars, nvsVars, ramVars, history
    <2>7. NoDowngrade'
      BY <1>3 DEF SketchInv, TypeOK, NoDowngrade, ReportedIsKept, OneUpdate, UpdateInHand,
          VerdictInHand, ReportsAreTrue, NoCommand, flashVars, nvsVars, ramVars, history
    <2> QED
      BY <2>1, <2>2, <2>3, <2>4, <2>5, <2>6, <2>7 DEF SketchInv
  <1>4. ASSUME NEW s \in Sequence, OnMessage(s) PROVE SketchInv'
    <2>1. TypeOK'
      BY <1>4 DEF SketchInv, TypeOK, OnMessage, flashVars, nvsVars, ramVars
    <2>2. UpdateInHand'
      BY <1>4 DEF SketchInv, TypeOK, UpdateInHand, OnMessage, flashVars, nvsVars, ramVars
    <2>3. VerdictInHand'
      BY <1>4 DEF SketchInv, TypeOK, VerdictInHand, ReportsAreTrue, UpdateInHand, OnMessage,
          flashVars, nvsVars, ramVars
    <2>4. OneUpdate'
      BY <1>4 DEF SketchInv, TypeOK, OneUpdate, VerdictInHand, UpdateInHand, OnMessage,
          flashVars, nvsVars, ramVars
    <2>5. ReportedIsKept'
      BY <1>4 DEF SketchInv, TypeOK, ReportedIsKept, OneUpdate, VerdictInHand, UpdateInHand,
          ReportsAreTrue, NoDowngrade, OnMessage, flashVars, nvsVars, ramVars
    <2>6. ReportsAreTrue'
      BY <1>4 DEF SketchInv, TypeOK, ReportsAreTrue, OneUpdate, VerdictInHand, OnMessage,
          flashVars, nvsVars, ramVars
    <2>7. NoDowngrade'
      BY <1>4 DEF SketchInv, TypeOK, NoDowngrade, ReportedIsKept, OneUpdate, UpdateInHand,
          VerdictInHand, ReportsAreTrue, OnMessage, flashVars, nvsVars, ramVars
    <2> QED
      BY <2>1, <2>2, <2>3, <2>4, <2>5, <2>6, <2>7 DEF SketchInv
  <1>5. CASE FlushNothing
    <2>1. TypeOK'
      BY <1>5 DEF SketchInv, TypeOK, FlushNothing, flashVars, nvsVars, ramVars, history
    <2>2. UpdateInHand'
      BY <1>5 DEF SketchInv, TypeOK, UpdateInHand, FlushNothing, flashVars, nvsVars, ramVars,
          history
    <2>3. VerdictInHand'
      BY <1>5 DEF SketchInv, TypeOK, VerdictInHand, ReportsAreTrue, UpdateInHand,
          FlushNothing, flashVars, nvsVars, ramVars, history
    <2>4. OneUpdate'
      BY <1>5 DEF SketchInv, TypeOK, OneUpdate, VerdictInHand, UpdateInHand, FlushNothing,
          flashVars, nvsVars, ramVars, history
    <2>5. ReportedIsKept'
      BY <1>5 DEF SketchInv, TypeOK, ReportedIsKept, OneUpdate, VerdictInHand, UpdateInHand,
          ReportsAreTrue, NoDowngrade, FlushNothing, flashVars, nvsVars, ramVars, history
    <2>6. ReportsAreTrue'
      BY <1>5 DEF SketchInv, TypeOK, ReportsAreTrue, OneUpdate, VerdictInHand, FlushNothing,
          flashVars, nvsVars, ramVars, history
    <2>7. NoDowngrade'
      BY <1>5 DEF SketchInv, TypeOK, NoDowngrade, ReportedIsKept, OneUpdate, UpdateInHand,
          VerdictInHand, ReportsAreTrue, FlushNothing, flashVars, nvsVars, ramVars, history
    <2> QED
      BY <2>1, <2>2, <2>3, <2>4, <2>5, <2>6, <2>7 DEF SketchInv
  <1>6. CASE FlushReport
    <2>1. /\ pc = "flush" /\ status # ""
          /\ pc' = IF target = None THEN "apply" ELSE IF status = "ok" THEN "raise" ELSE "clear"
          /\ status' = "" /\ owed' = owed \cap {seq}
          /\ UNCHANGED <<flashVars, nvsVars, target, pend, floor, seq, connected, raced, torn>>
      BY <1>6 DEF FlushReport
    <2>2. ~confirmed /\ floor = nvsFloor
      BY <1>6 DEF SketchInv, VerdictInHand, FlushReport
    <2>3. CASE status = "ok"
      <3>1. confirmed' = TRUE /\ reported' = reported \cup {app}
        BY <1>6, <2>3 DEF FlushReport
      <3>2. target # None /\ app = target /\ app \in Sequence /\ app \notin Mislabelled /\ bootApp = app
        BY <1>6, <2>3 DEF SketchInv, TypeOK, VerdictInHand, ReportsAreTrue, UpdateInHand, FlushReport
      <3>3. TypeOK' /\ UpdateInHand'
        BY <2>1, <2>3, <3>1, <3>2 DEF SketchInv, TypeOK, UpdateInHand, flashVars, nvsVars
      <3>4. VerdictInHand' /\ ReportsAreTrue'
        BY <2>1, <2>2, <2>3, <3>1, <3>2 DEF VerdictInHand, ReportsAreTrue, flashVars, nvsVars
      <3>5. OneUpdate'
        BY <2>1, <2>3, <3>2 DEF SketchInv, OneUpdate, nvsVars
      <3>6. ReportedIsKept'
        <4>1. ~raced => nvsTarget = target
          BY <1>6 DEF SketchInv, OneUpdate, FlushReport
        <4>2. UNCHANGED <<app, target, pend, nvsTarget, nvsPend, nvsFloor, raced, torn>>
          BY <2>1 DEF flashVars, nvsVars
        <4>3. pc # "storePend" /\ pc' # "storePend"
          BY <2>1
        <4>4. ReportedIsKept
          BY DEF SketchInv
        <4> QED
          BY <3>1, <3>2, <4>1, <4>2, <4>3, <4>4 DEF ReportedIsKept
      <3>7. NoDowngrade'
        <4>1. app' = app /\ bootApp' = app /\ UNCHANGED <<raced, torn>>
          BY <2>1, <3>2 DEF flashVars
        <4>2. app >= app
          BY SequencesAreNumbers DEF SketchInv
        <4>3. NoDowngrade
          BY DEF SketchInv
        <4> QED
          BY <3>1, <3>2, <4>1, <4>2, <4>3 DEF NoDowngrade
      <3> QED
        BY <3>3, <3>4, <3>5, <3>6, <3>7 DEF SketchInv
    <2>4. CASE status = "failed"
      <3>1. confirmed' = FALSE /\ reported' = reported
        BY <1>6, <2>4 DEF FlushReport
      <3>2. TypeOK' /\ UpdateInHand'
        BY <1>6, <2>1, <2>4, <3>1 DEF SketchInv, TypeOK, UpdateInHand, FlushReport, flashVars, nvsVars
      <3>3. VerdictInHand' /\ ReportsAreTrue'
        BY <1>6, <2>1, <2>2, <2>4, <3>1 DEF SketchInv, VerdictInHand, ReportsAreTrue, flashVars, nvsVars
      <3>4. OneUpdate'
        BY <2>1, <2>4 DEF SketchInv, OneUpdate, nvsVars
      <3>5. ReportedIsKept' /\ NoDowngrade'
        <4>1. UNCHANGED <<app, bootApp, target, pend, nvsTarget, nvsPend, nvsFloor, raced, torn>>
          BY <2>1 DEF flashVars, nvsVars
        <4>2. pc # "storePend" /\ pc' # "storePend"
          BY <2>1
        <4>3. ReportedIsKept /\ NoDowngrade
          BY DEF SketchInv
        <4> QED
          BY <3>1, <4>1, <4>2, <4>3 DEF ReportedIsKept, NoDowngrade
      <3> QED
        BY <3>2, <3>3, <3>4, <3>5 DEF SketchInv
    <2> QED
      BY <1>6, <2>3, <2>4 DEF SketchInv, TypeOK, FlushReport
  <1>7. CASE RaiseFloor
    <2>1. TypeOK'
      BY <1>7 DEF SketchInv, TypeOK, RaiseFloor, flashVars, ramVars, history
    <2>2. UpdateInHand'
      BY <1>7 DEF SketchInv, TypeOK, UpdateInHand, RaiseFloor, flashVars, ramVars, history
    <2>3. VerdictInHand'
      BY <1>7 DEF SketchInv, TypeOK, VerdictInHand, ReportsAreTrue, UpdateInHand, RaiseFloor,
          flashVars, ramVars, history
    <2>4. OneUpdate'
      BY <1>7 DEF SketchInv, TypeOK, OneUpdate, VerdictInHand, UpdateInHand, RaiseFloor,
          flashVars, ramVars, history
    <2>5. ReportedIsKept'
      BY <1>7 DEF SketchInv, TypeOK, ReportedIsKept, OneUpdate, VerdictInHand, UpdateInHand,
          ReportsAreTrue, NoDowngrade, RaiseFloor, flashVars, ramVars, history
    <2>6. ReportsAreTrue'
      BY <1>7 DEF SketchInv, TypeOK, ReportsAreTrue, OneUpdate, VerdictInHand, RaiseFloor,
          flashVars, ramVars, history
    <2>7. NoDowngrade'
      BY <1>7 DEF SketchInv, TypeOK, NoDowngrade, ReportedIsKept, OneUpdate, UpdateInHand,
          VerdictInHand, ReportsAreTrue, RaiseFloor, flashVars, ramVars, history
    <2> QED
      BY <2>1, <2>2, <2>3, <2>4, <2>5, <2>6, <2>7 DEF SketchInv
  <1>8. CASE ClearTarget
    <2>1. TypeOK'
      BY <1>8 DEF SketchInv, TypeOK, ClearTarget, flashVars, ramVars, history
    <2>2. UpdateInHand'
      BY <1>8 DEF SketchInv, TypeOK, UpdateInHand, ClearTarget, flashVars, ramVars, history
    <2>3. VerdictInHand'
      BY <1>8 DEF SketchInv, TypeOK, VerdictInHand, ReportsAreTrue, UpdateInHand,
          ClearTarget, flashVars, ramVars, history
    <2>4. OneUpdate'
      BY <1>8 DEF SketchInv, TypeOK, OneUpdate, VerdictInHand, UpdateInHand, ClearTarget,
          flashVars, ramVars, history
    <2>5. ReportedIsKept'
      BY <1>8 DEF SketchInv, TypeOK, ReportedIsKept, OneUpdate, VerdictInHand, UpdateInHand,
          ReportsAreTrue, NoDowngrade, ClearTarget, flashVars, ramVars, history
    <2>6. ReportsAreTrue'
      BY <1>8 DEF SketchInv, TypeOK, ReportsAreTrue, OneUpdate, VerdictInHand, ClearTarget,
          flashVars, ramVars, history
    <2>7. NoDowngrade'
      BY <1>8 DEF SketchInv, TypeOK, NoDowngrade, ReportedIsKept, OneUpdate, UpdateInHand,
          VerdictInHand, ReportsAreTrue, ClearTarget, flashVars, ramVars, history
    <2> QED
      BY <2>1, <2>2, <2>3, <2>4, <2>5, <2>6, <2>7 DEF SketchInv
  <1>9. CASE ClearPend
    <2>1. TypeOK'
      BY <1>9 DEF SketchInv, TypeOK, ClearPend, flashVars, history
    <2>2. UpdateInHand'
      BY <1>9 DEF SketchInv, TypeOK, UpdateInHand, ClearPend, flashVars, history
    <2>3. VerdictInHand'
      BY <1>9 DEF SketchInv, TypeOK, VerdictInHand, ReportsAreTrue, UpdateInHand, ClearPend,
          flashVars, history
    <2>4. OneUpdate'
      BY <1>9 DEF SketchInv, TypeOK, OneUpdate, VerdictInHand, UpdateInHand, ClearPend,
          flashVars, history
    <2>5. ReportedIsKept'
      BY <1>9 DEF SketchInv, TypeOK, ReportedIsKept, OneUpdate, VerdictInHand, UpdateInHand,
          ReportsAreTrue, NoDowngrade, ClearPend, flashVars, history
    <2>6. ReportsAreTrue'
      BY <1>9 DEF SketchInv, TypeOK, ReportsAreTrue, OneUpdate, VerdictInHand, ClearPend,
          flashVars, history
    <2>7. NoDowngrade'
      BY <1>9 DEF SketchInv, TypeOK, NoDowngrade, ReportedIsKept, OneUpdate, UpdateInHand,
          VerdictInHand, ReportsAreTrue, ClearPend, flashVars, history
    <2> QED
      BY <2>1, <2>2, <2>3, <2>4, <2>5, <2>6, <2>7 DEF SketchInv
  <1>10. CASE NothingPending
    <2>1. TypeOK'
      BY <1>10 DEF SketchInv, TypeOK, NothingPending, flashVars, nvsVars, ramVars, history
    <2>2. UpdateInHand'
      BY <1>10 DEF SketchInv, TypeOK, UpdateInHand, NothingPending, flashVars, nvsVars,
          ramVars, history
    <2>3. VerdictInHand'
      BY <1>10 DEF SketchInv, TypeOK, VerdictInHand, ReportsAreTrue, UpdateInHand,
          NothingPending, flashVars, nvsVars, ramVars, history
    <2>4. OneUpdate'
      BY <1>10 DEF SketchInv, TypeOK, OneUpdate, VerdictInHand, UpdateInHand, NothingPending,
          flashVars, nvsVars, ramVars, history
    <2>5. ReportedIsKept'
      BY <1>10 DEF SketchInv, TypeOK, ReportedIsKept, OneUpdate, VerdictInHand, UpdateInHand,
          ReportsAreTrue, NoDowngrade, NothingPending, flashVars, nvsVars, ramVars, history
    <2>6. ReportsAreTrue'
      BY <1>10 DEF SketchInv, TypeOK, ReportsAreTrue, OneUpdate, VerdictInHand,
          NothingPending, flashVars, nvsVars, ramVars, history
    <2>7. NoDowngrade'
      BY <1>10 DEF SketchInv, TypeOK, NoDowngrade, ReportedIsKept, OneUpdate, UpdateInHand,
          VerdictInHand, ReportsAreTrue, NothingPending, flashVars, nvsVars, ramVars,
          history
    <2> QED
      BY <2>1, <2>2, <2>3, <2>4, <2>5, <2>6, <2>7 DEF SketchInv
  <1>11. CASE ApplyFails
    <2>1. TypeOK'
      BY <1>11 DEF SketchInv, TypeOK, ApplyFails, flashVars, nvsVars, ramVars, history
    <2>2. UpdateInHand'
      BY <1>11 DEF SketchInv, TypeOK, UpdateInHand, ApplyFails, flashVars, nvsVars, ramVars,
          history
    <2>3. VerdictInHand'
      BY <1>11 DEF SketchInv, TypeOK, VerdictInHand, ReportsAreTrue, UpdateInHand,
          ApplyFails, flashVars, nvsVars, ramVars, history
    <2>4. OneUpdate'
      BY <1>11 DEF SketchInv, TypeOK, OneUpdate, VerdictInHand, UpdateInHand, ApplyFails,
          flashVars, nvsVars, ramVars, history
    <2>5. ReportedIsKept'
      BY <1>11 DEF SketchInv, TypeOK, ReportedIsKept, OneUpdate, VerdictInHand, UpdateInHand,
          ReportsAreTrue, NoDowngrade, ApplyFails, flashVars, nvsVars, ramVars, history
    <2>6. ReportsAreTrue'
      BY <1>11 DEF SketchInv, TypeOK, ReportsAreTrue, OneUpdate, VerdictInHand, ApplyFails,
          flashVars, nvsVars, ramVars, history
    <2>7. NoDowngrade'
      BY <1>11 DEF SketchInv, TypeOK, NoDowngrade, ReportedIsKept, OneUpdate, UpdateInHand,
          VerdictInHand, ReportsAreTrue, ApplyFails, flashVars, nvsVars, ramVars, history
    <2> QED
      BY <2>1, <2>2, <2>3, <2>4, <2>5, <2>6, <2>7 DEF SketchInv
  <1>12. CASE UpdateEnds
    <2>1. TypeOK'
      BY <1>12 DEF SketchInv, TypeOK, UpdateEnds, nvsVars, ramVars, history
    <2>2. UpdateInHand'
      BY <1>12 DEF SketchInv, TypeOK, UpdateInHand, UpdateEnds, nvsVars, ramVars, history
    <2>3. VerdictInHand'
      BY <1>12 DEF SketchInv, TypeOK, VerdictInHand, ReportsAreTrue, UpdateInHand,
          UpdateEnds, nvsVars, ramVars, history
    <2>4. OneUpdate'
      BY <1>12 DEF SketchInv, TypeOK, OneUpdate, VerdictInHand, UpdateInHand, UpdateEnds,
          nvsVars, ramVars, history
    <2>5. ReportedIsKept'
      BY <1>12 DEF SketchInv, TypeOK, ReportedIsKept, OneUpdate, VerdictInHand, UpdateInHand,
          ReportsAreTrue, NoDowngrade, UpdateEnds, nvsVars, ramVars, history
    <2>6. ReportsAreTrue'
      BY <1>12 DEF SketchInv, TypeOK, ReportsAreTrue, OneUpdate, VerdictInHand, UpdateEnds,
          nvsVars, ramVars, history
    <2>7. NoDowngrade'
      <3> SUFFICES ASSUME ~raced, ~torn, NEW s \in reported PROVE app >= s /\ seq >= s
        BY <1>12 DEF NoDowngrade, UpdateEnds, history
      <3>1. target = None /\ seq > floor /\ floor = nvsFloor
        BY <1>12 DEF SketchInv, UpdateEnds, OneUpdate, VerdictInHand
      <3>2. s <= nvsFloor
        <4>1. s \in Sequence
          BY DEF SketchInv, TypeOK
        <4>2. s # target
          BY <3>1, <4>1
        <4> QED
          BY <4>2 DEF SketchInv, ReportedIsKept
      <3>3. s \in Nat /\ nvsFloor \in Nat /\ floor \in Nat /\ seq \in Nat
        BY SequencesAreNumbers DEF SketchInv, TypeOK
      <3>4. seq >= s
        BY <3>1, <3>2, <3>3
      <3> QED
        BY <3>4 DEF SketchInv, NoDowngrade
    <2> QED
      BY <2>1, <2>2, <2>3, <2>4, <2>5, <2>6, <2>7 DEF SketchInv
  <1>13. CASE StoreTarget
    <2>1. TypeOK'
      BY <1>13 DEF SketchInv, TypeOK, StoreTarget, flashVars, ramVars, history
    <2>2. UpdateInHand'
      BY <1>13 DEF SketchInv, TypeOK, UpdateInHand, StoreTarget, flashVars, ramVars, history
    <2>3. VerdictInHand'
      BY <1>13 DEF SketchInv, TypeOK, VerdictInHand, ReportsAreTrue, UpdateInHand,
          StoreTarget, flashVars, ramVars, history
    <2>4. OneUpdate'
      BY <1>13 DEF SketchInv, TypeOK, OneUpdate, VerdictInHand, UpdateInHand, StoreTarget,
          flashVars, ramVars, history
    <2>5. ReportedIsKept'
      <3>1. UNCHANGED <<app, target, nvsPend, nvsFloor, reported, raced, torn>> /\ pc' = "storePend"
        BY <1>13 DEF StoreTarget, flashVars, ramVars, history
      <3>2. ASSUME ~raced, ~torn, NEW s \in reported PROVE s <= nvsFloor
        <4>1. target = None
          BY <1>13, <3>2 DEF SketchInv, StoreTarget, OneUpdate, UpdateInHand
        <4>2. s \in Sequence
          BY <3>2 DEF SketchInv, TypeOK
        <4>3. s # target
          BY <4>1, <4>2
        <4> QED
          BY <3>2, <4>3 DEF SketchInv, ReportedIsKept
      <3>3. ~raced => target = None
        BY <1>13 DEF SketchInv, StoreTarget, OneUpdate, UpdateInHand
      <3> QED
        BY <3>1, <3>2, <3>3 DEF ReportedIsKept
    <2>6. ReportsAreTrue'
      BY <1>13 DEF SketchInv, TypeOK, ReportsAreTrue, OneUpdate, VerdictInHand, StoreTarget,
          flashVars, ramVars, history
    <2>7. NoDowngrade'
      BY <1>13 DEF SketchInv, TypeOK, NoDowngrade, ReportedIsKept, OneUpdate, UpdateInHand,
          VerdictInHand, ReportsAreTrue, StoreTarget, flashVars, ramVars, history
    <2> QED
      BY <2>1, <2>2, <2>3, <2>4, <2>5, <2>6, <2>7 DEF SketchInv
  <1>14. CASE StorePend
    <2>1. TypeOK'
      BY <1>14 DEF SketchInv, TypeOK, StorePend, flashVars, ramVars, history
    <2>2. UpdateInHand'
      BY <1>14 DEF SketchInv, TypeOK, UpdateInHand, StorePend, flashVars, ramVars, history
    <2>3. VerdictInHand'
      BY <1>14 DEF SketchInv, TypeOK, VerdictInHand, ReportsAreTrue, UpdateInHand, StorePend,
          flashVars, ramVars, history
    <2>4. OneUpdate'
      BY <1>14 DEF SketchInv, TypeOK, OneUpdate, VerdictInHand, UpdateInHand, StorePend,
          flashVars, ramVars, history
    <2>5. ReportedIsKept'
      BY <1>14 DEF SketchInv, TypeOK, ReportedIsKept, OneUpdate, VerdictInHand, UpdateInHand,
          ReportsAreTrue, NoDowngrade, StorePend, flashVars, ramVars, history
    <2>6. ReportsAreTrue'
      BY <1>14 DEF SketchInv, TypeOK, ReportsAreTrue, OneUpdate, VerdictInHand, StorePend,
          flashVars, ramVars, history
    <2>7. NoDowngrade'
      BY <1>14 DEF SketchInv, TypeOK, NoDowngrade, ReportedIsKept, OneUpdate, UpdateInHand,
          VerdictInHand, ReportsAreTrue, StorePend, flashVars, ramVars, history
    <2> QED
      BY <2>1, <2>2, <2>3, <2>4, <2>5, <2>6, <2>7 DEF SketchInv
  <1>15. CASE Reset
    <2>1. TypeOK'
      BY <1>15 DEF SketchInv, TypeOK, Reset, Restart, nvsVars, ramVars
    <2>2. UpdateInHand'
      BY <1>15 DEF SketchInv, TypeOK, UpdateInHand, Reset, Restart, nvsVars, ramVars
    <2>3. VerdictInHand'
      BY <1>15 DEF SketchInv, TypeOK, VerdictInHand, ReportsAreTrue, UpdateInHand, Reset,
          Restart, nvsVars, ramVars
    <2>4. OneUpdate'
      BY <1>15 DEF SketchInv, TypeOK, OneUpdate, VerdictInHand, UpdateInHand, Reset, Restart,
          nvsVars, ramVars
    <2>5. ReportedIsKept'
      BY <1>15 DEF SketchInv, TypeOK, ReportedIsKept, OneUpdate, VerdictInHand, UpdateInHand,
          ReportsAreTrue, NoDowngrade, Reset, Restart, nvsVars, ramVars
    <2>6. ReportsAreTrue'
      BY <1>15 DEF SketchInv, TypeOK, ReportsAreTrue, OneUpdate, VerdictInHand, Reset,
          Restart, nvsVars, ramVars
    <2>7. NoDowngrade'
      BY <1>15 DEF SketchInv, TypeOK, NoDowngrade, ReportedIsKept, OneUpdate, UpdateInHand,
          VerdictInHand, ReportsAreTrue, Reset, Restart, nvsVars, ramVars
    <2> QED
      BY <2>1, <2>2, <2>3, <2>4, <2>5, <2>6, <2>7 DEF SketchInv
  <1>16. CASE RestartIntoUpdate
    <2>1. TypeOK'
      BY <1>16 DEF SketchInv, TypeOK, RestartIntoUpdate, Restart, nvsVars, ramVars
    <2>2. UpdateInHand'
      BY <1>16 DEF SketchInv, TypeOK, UpdateInHand, RestartIntoUpdate, Restart, nvsVars,
          ramVars
    <2>3. VerdictInHand'
      BY <1>16 DEF SketchInv, TypeOK, VerdictInHand, ReportsAreTrue, UpdateInHand,
          RestartIntoUpdate, Restart, nvsVars, ramVars
    <2>4. OneUpdate'
      BY <1>16 DEF SketchInv, TypeOK, OneUpdate, VerdictInHand, UpdateInHand,
          RestartIntoUpdate, Restart, nvsVars, ramVars
    <2>5. ReportedIsKept'
      BY <1>16 DEF SketchInv, TypeOK, ReportedIsKept, OneUpdate, VerdictInHand, UpdateInHand,
          ReportsAreTrue, NoDowngrade, RestartIntoUpdate, Restart, nvsVars, ramVars
    <2>6. ReportsAreTrue'
      BY <1>16 DEF SketchInv, TypeOK, ReportsAreTrue, OneUpdate, VerdictInHand,
          RestartIntoUpdate, Restart, nvsVars, ramVars
    <2>7. NoDowngrade'
      BY <1>16 DEF SketchInv, TypeOK, NoDowngrade, ReportedIsKept, OneUpdate, UpdateInHand,
          VerdictInHand, ReportsAreTrue, RestartIntoUpdate, Restart, nvsVars, ramVars
    <2> QED
      BY <2>1, <2>2, <2>3, <2>4, <2>5, <2>6, <2>7 DEF SketchInv
  <1>17. CASE UNCHANGED vars
    BY <1>17 DEF SketchInv, vars, flashVars, nvsVars, ramVars, history, TypeOK, UpdateInHand,
        VerdictInHand, OneUpdate, ReportedIsKept, ReportsAreTrue, NoDowngrade
  <1> QED
    BY <1>1, <1>2, <1>3, <1>4, <1>5, <1>6, <1>7, <1>8, <1>9, <1>10, <1>11, <1>12, <1>13,
        <1>14, <1>15, <1>16, <1>17 DEF Next, Loop

\* The invariant holds in every reachable state.
THEOREM InvariantHolds == Spec => []SketchInv
  BY InitSketchInv, SketchInvStep, PTL DEF Spec

\* Every reachable state of the client is well typed.
THEOREM ArduinoTypeCorrect == Spec => []TypeOK
  <1>1. SketchInv => TypeOK
    BY DEF SketchInv
  <1> QED
    BY <1>1, InvariantHolds, PTL

\* What flushPendingStatus is about to say of an update is true of the running image,
\* unless a command was handled before it.
THEOREM ReportsStayTrue == Spec => []ReportsAreTrue
  <1>1. SketchInv => ReportsAreTrue
    BY DEF SketchInv
  <1> QED
    BY <1>1, InvariantHolds, PTL

\* An image that was reported "ok" is never followed by an older one, wherever resets
\* fall, unless one keeps an update from being recorded or a command overtakes the report.
THEOREM NoDowngradeEver == Spec => []NoDowngrade
  <1>1. SketchInv => NoDowngrade
    BY DEF SketchInv
  <1> QED
    BY <1>1, InvariantHolds, PTL
=============================================================================
