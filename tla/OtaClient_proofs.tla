-------------------------- MODULE OtaClient_proofs --------------------------
(***************************************************************************)
(* Theorems about OtaClient: its inductive invariant, and with it that the *)
(* way back to a confirmed image is always there, that "ok" is true, and   *)
(* that one command at a time is under way.                                *)
(***************************************************************************)
EXTENDS OtaClient, TLAPS

\* The first state: the image flashed over serial, which counts as confirmed.
LEMMA InitClientInv == Init => ClientInv
  <1> SUFFICES ASSUME Init PROVE ClientInv
    OBVIOUS
  <1> USE ClientAssumption DEF Image, Sequence, None, Factory, Torn
  <1>1. queue \in Seq(Sequence) /\ Len(queue) <= QueueSize
    BY DEF Init, QueueSize
  <1>2. /\ unverified \in BOOLEAN /\ swap \in BOOLEAN
        /\ owesRollback \in BOOLEAN /\ connected \in BOOLEAN /\ semaphore \in BOOLEAN
    BY DEF Init
  <1>3. /\ app \in Image /\ other \in Image \cup {Torn}
        /\ nvsPend \in Image /\ nvsFloor \in Image /\ nvsFailed \in Image
        /\ floor \in Image /\ inflight \in Image /\ failed \in Image
        /\ taskSeq \in Image /\ confirmSeq \in Image
    BY DEF Init
  <1>4. /\ proven \in SUBSET Image /\ rolledBack \in SUBSET Image
        /\ reportedOk \in SUBSET Image /\ owed \in SUBSET Sequence
        /\ resets \in 0..MaxResets
    BY DEF Init, ClientAssumption
  <1>5. TypeOK
    BY <1>1, <1>2, <1>3, <1>4 DEF Init, TypeOK
  <1>6. ImagesAreTracked /\ TasksInTurn
    BY DEF Init, ImagesAreTracked, TasksInTurn
  <1>7. RollbackImageKept /\ OkIsTrue /\ OneInFlight
    BY DEF Init, RollbackImageKept, OkIsTrue, OneInFlight
  <1> QED
    BY <1>5, <1>6, <1>7 DEF ClientInv

\* Every step keeps the invariant; under each action, the conjuncts it can disturb.
LEMMA ClientInvStep == ClientInv /\ [Next]_vars => ClientInv'
  <1> SUFFICES ASSUME ClientInv, [Next]_vars PROVE ClientInv'
    OBVIOUS
  <1> USE ClientAssumption DEF ClientInv, Image, Sequence, None, Factory, Torn
  <1>1. CASE Boot
    <2>1. OkIsTrue' /\ OneInFlight'
      BY <1>1 DEF OkIsTrue, OneInFlight, Boot, nvsVars, linkVars, taskVars, confirmVars,
          reportVars
    <2>2. TypeOK'
      BY <1>1 DEF TypeOK, ImagesAreTracked, TasksInTurn, RollbackImageKept, Boot, nvsVars,
          linkVars, taskVars, confirmVars, reportVars
    <2>3. ImagesAreTracked'
      BY <1>1 DEF ImagesAreTracked, RollbackImageKept, Boot, nvsVars, linkVars, taskVars,
          confirmVars, reportVars
    <2>4. TasksInTurn'
      BY <1>1 DEF TasksInTurn, Boot, nvsVars, linkVars, taskVars, confirmVars, reportVars
    <2>5. RollbackImageKept'
      BY <1>1 DEF RollbackImageKept, Boot, nvsVars, linkVars, taskVars, confirmVars,
          reportVars
    <2> QED
      BY <2>1, <2>2, <2>3, <2>4, <2>5
  <1>2. CASE ArmFresh
    <2>1. ImagesAreTracked' /\ RollbackImageKept' /\ OkIsTrue'
      BY <1>2 DEF ImagesAreTracked, RollbackImageKept, OkIsTrue, ArmFresh, flashVars,
          nvsVars, linkVars, taskVars, history, reportVars
    <2>2. TypeOK'
      BY <1>2 DEF TypeOK, ArmFresh, flashVars, nvsVars, linkVars, taskVars, history,
          reportVars
    <2>3. TasksInTurn'
      BY <1>2 DEF ImagesAreTracked, TasksInTurn, ArmFresh, flashVars, nvsVars, linkVars,
          taskVars, history, reportVars
    <2>4. OneInFlight'
      BY <1>2 DEF TasksInTurn, OneInFlight, ArmFresh, flashVars, nvsVars, linkVars,
          taskVars, history, reportVars
    <2> QED
      BY <2>1, <2>2, <2>3, <2>4
  <1>3. CASE ArmSettled
    <2>1. RollbackImageKept' /\ OkIsTrue' /\ OneInFlight'
      BY <1>3 DEF RollbackImageKept, OkIsTrue, OneInFlight, ArmSettled, flashVars, taskVars,
          confirmVars, history, reportVars
    <2>2. TypeOK'
      <3>1. UNCHANGED <<flashVars, nvsFloor, nvsFailed, floor, inflight, connected, semaphore,
                        taskVars, confirmVars, history, reportVars, resets>>
        BY <1>3 DEF ArmSettled
      <3>2. /\ nvsPend' \in Image /\ failed' \in Image
            /\ owesRollback' \in BOOLEAN /\ phase' \in {"quarantine", "up"}
        BY <1>3 DEF ArmSettled, TypeOK
      <3> QED
        BY <3>1, <3>2 DEF TypeOK, flashVars, taskVars, confirmVars, history, reportVars
    <2>3. ImagesAreTracked'
      BY <1>3 DEF ImagesAreTracked, TasksInTurn, ArmSettled, flashVars, taskVars,
          confirmVars, history, reportVars
    <2>4. TasksInTurn'
      BY <1>3 DEF TasksInTurn, ArmSettled, flashVars, taskVars, confirmVars, history,
          reportVars
    <2> QED
      BY <2>1, <2>2, <2>3, <2>4
  <1>4. CASE Quarantine
    <2>1. ImagesAreTracked' /\ RollbackImageKept' /\ OkIsTrue' /\ OneInFlight'
      BY <1>4 DEF ImagesAreTracked, RollbackImageKept, OkIsTrue, OneInFlight, Quarantine,
          flashVars, slotVars, linkVars, taskVars, confirmVars, history, reportVars
    <2>2. TypeOK'
      BY <1>4 DEF TypeOK, Quarantine, flashVars, slotVars, linkVars, taskVars, confirmVars,
          history, reportVars
    <2>3. TasksInTurn'
      BY <1>4 DEF TasksInTurn, Quarantine, flashVars, slotVars, linkVars, taskVars,
          confirmVars, history, reportVars
    <2> QED
      BY <2>1, <2>2, <2>3
  <1>5. CASE Connect
    <2>1. ImagesAreTracked' /\ RollbackImageKept' /\ OkIsTrue' /\ OneInFlight'
      BY <1>5 DEF ImagesAreTracked, RollbackImageKept, OkIsTrue, OneInFlight, Connect,
          ReportFailed, flashVars, nvsVars, slotVars, taskVars, confirmVars, history,
          reportVars
    <2>2. TypeOK'
      <3>1. UNCHANGED <<flashVars, nvsVars, phase, slotVars, taskVars, confirmVars, history,
                        resets>>
        BY <1>5 DEF Connect
      <3>2. connected' \in BOOLEAN /\ owesRollback' \in BOOLEAN /\ semaphore' \in BOOLEAN
        BY <1>5 DEF Connect
      <3>3. owed' \in SUBSET Sequence /\ reportedOk' = reportedOk
        BY <1>5 DEF Connect, TypeOK, ReportFailed, reportVars
      <3> QED
        BY <3>1, <3>2, <3>3 DEF TypeOK, flashVars, nvsVars, slotVars, taskVars, confirmVars,
            history
    <2>3. TasksInTurn'
      BY <1>5 DEF TasksInTurn, Connect, ReportFailed, flashVars, nvsVars, slotVars,
          taskVars, confirmVars, history, reportVars
    <2> QED
      BY <2>1, <2>2, <2>3
  <1>6. CASE Disconnect
    <2>1. ImagesAreTracked' /\ RollbackImageKept' /\ OkIsTrue' /\ OneInFlight'
      BY <1>6 DEF ImagesAreTracked, RollbackImageKept, OkIsTrue, OneInFlight, Disconnect,
          flashVars, nvsVars, slotVars, taskVars, confirmVars, history, reportVars
    <2>2. TypeOK'
      <3>1. UNCHANGED <<flashVars, nvsVars, phase, slotVars, owesRollback, semaphore, taskVars,
                        confirmVars, history, reportVars, resets>>
            /\ connected' \in BOOLEAN
        BY <1>6 DEF Disconnect
      <3> QED
        BY <3>1 DEF TypeOK, flashVars, nvsVars, slotVars, taskVars, confirmVars, history,
            reportVars
    <2>3. TasksInTurn'
      BY <1>6 DEF TasksInTurn, Disconnect, flashVars, nvsVars, slotVars, taskVars,
          confirmVars, history, reportVars
    <2> QED
      BY <2>1, <2>2, <2>3
  <1>7. CASE \E s \in Sequence : HandleCmdOta(s)
    <2> PICK s \in Sequence : HandleCmdOta(s)
      BY <1>7
    <2>1. ImagesAreTracked' /\ RollbackImageKept'
      BY DEF ImagesAreTracked, RollbackImageKept, HandleCmdOta, ReportFailed, ReportOk,
          Accepts, AnswersOk, QueueSize, flashVars, nvsVars, linkVars, confirmVars, history
    <2>2. TypeOK'
      <3>1. UNCHANGED <<flashVars, nvsVars, phase, floor, failed, linkVars, taskPc, taskSeq,
                        confirmVars, history, resets>>
        BY DEF HandleCmdOta
      <3>2. CASE UNCHANGED <<inflight, queue>>
        <4>1. owed' \in SUBSET Sequence /\ reportedOk' \in SUBSET Image
          BY <3>2 DEF TypeOK, HandleCmdOta, ReportFailed, ReportOk, AnswersOk
        <4> QED
          BY <3>1, <3>2, <4>1 DEF TypeOK, flashVars, nvsVars, linkVars, confirmVars, history
      <3>3. CASE Accepts(s) /\ inflight' = s /\ queue' = Append(queue, s)
                 /\ owed' = owed \cup {s} /\ UNCHANGED reportedOk
        <4>1. queue = <<>>
          BY <3>3 DEF Accepts, OneInFlight
        <4>2. queue' \in Seq(Sequence) /\ Len(queue') <= QueueSize
          BY <3>3, <4>1 DEF QueueSize
        <4> QED
          BY <3>1, <3>3, <4>2 DEF TypeOK, flashVars, nvsVars, linkVars, confirmVars, history
      <3> QED
        BY <3>2, <3>3 DEF HandleCmdOta
    <2>3. TasksInTurn'
      BY DEF TasksInTurn, HandleCmdOta, ReportFailed, ReportOk, Accepts, AnswersOk,
          QueueSize, flashVars, nvsVars, linkVars, confirmVars, history
    <2>4. OkIsTrue'
      BY DEF ImagesAreTracked, OkIsTrue, HandleCmdOta, ReportFailed, ReportOk, Accepts,
          AnswersOk, QueueSize, flashVars, nvsVars, linkVars, confirmVars, history
    <2>5. OneInFlight'
      <3>1. UNCHANGED <<taskPc, taskSeq>>
        BY DEF HandleCmdOta
      <3>2. CASE UNCHANGED <<inflight, queue>>
        BY <3>1, <3>2 DEF OneInFlight
      <3>3. CASE Accepts(s) /\ inflight' = s /\ queue' = Append(queue, s)
        <4>1. queue = <<>> /\ taskPc = "idle"
          BY <3>3 DEF Accepts, OneInFlight
        <4> QED
          BY <3>1, <3>3, <4>1 DEF OneInFlight
      <3> QED
        BY <3>2, <3>3 DEF HandleCmdOta
    <2> QED
      BY <2>1, <2>2, <2>3, <2>4, <2>5
  <1>8. CASE ReceiveCmd
    <2>1. ImagesAreTracked' /\ RollbackImageKept' /\ OkIsTrue'
      BY <1>8 DEF ImagesAreTracked, RollbackImageKept, OkIsTrue, ReceiveCmd, flashVars,
          nvsVars, slotVars, linkVars, confirmVars, history, reportVars
    <2>2. TypeOK'
      <3>1. queue' = <<>> /\ taskSeq' = inflight
        BY <1>8 DEF ReceiveCmd, OneInFlight
      <3>2. queue' \in Seq(Sequence) /\ Len(queue') <= QueueSize
        BY <3>1 DEF QueueSize
      <3> QED
        BY <1>8, <3>1, <3>2 DEF TypeOK, ReceiveCmd, flashVars, nvsVars, slotVars, linkVars,
            confirmVars, history, reportVars
    <2>3. TasksInTurn'
      BY <1>8 DEF TasksInTurn, ReceiveCmd, flashVars, nvsVars, slotVars, linkVars,
          confirmVars, history, reportVars
    <2>4. OneInFlight'
      BY <1>8 DEF OneInFlight, ReceiveCmd, flashVars, nvsVars, slotVars, linkVars,
          confirmVars, history, reportVars
    <2> QED
      BY <2>1, <2>2, <2>3, <2>4
  <1>9. CASE BeginWrite
    <2>1. OkIsTrue'
      BY <1>9 DEF OkIsTrue, BeginWrite, nvsVars, slotVars, linkVars, confirmVars, history,
          reportVars
    <2>2. TypeOK'
      BY <1>9 DEF TypeOK, BeginWrite, nvsVars, slotVars, linkVars, confirmVars, history,
          reportVars
    <2>3. ImagesAreTracked'
      BY <1>9 DEF ImagesAreTracked, TasksInTurn, BeginWrite, nvsVars, slotVars, linkVars,
          confirmVars, history, reportVars
    <2>4. TasksInTurn'
      BY <1>9 DEF TasksInTurn, BeginWrite, nvsVars, slotVars, linkVars, confirmVars,
          history, reportVars
    <2>5. RollbackImageKept'
      BY <1>9 DEF TasksInTurn, RollbackImageKept, BeginWrite, nvsVars, slotVars, linkVars,
          confirmVars, history, reportVars
    <2>6. OneInFlight'
      BY <1>9 DEF OneInFlight, BeginWrite, nvsVars, slotVars, linkVars, confirmVars,
          history, reportVars
    <2> QED
      BY <2>1, <2>2, <2>3, <2>4, <2>5, <2>6
  <1>10. CASE Verified
    <2>1. OkIsTrue'
      BY <1>10 DEF OkIsTrue, Verified, nvsVars, slotVars, linkVars, confirmVars, history,
          reportVars
    <2>2. TypeOK'
      BY <1>10 DEF TypeOK, Verified, nvsVars, slotVars, linkVars, confirmVars, history,
          reportVars
    <2>3. ImagesAreTracked'
      BY <1>10 DEF ImagesAreTracked, TasksInTurn, Verified, nvsVars, slotVars, linkVars,
          confirmVars, history, reportVars
    <2>4. TasksInTurn'
      BY <1>10 DEF TasksInTurn, Verified, nvsVars, slotVars, linkVars, confirmVars, history,
          reportVars
    <2>5. RollbackImageKept'
      BY <1>10 DEF TasksInTurn, RollbackImageKept, Verified, nvsVars, slotVars, linkVars,
          confirmVars, history, reportVars
    <2>6. OneInFlight'
      BY <1>10 DEF OneInFlight, Verified, nvsVars, slotVars, linkVars, confirmVars, history,
          reportVars
    <2> QED
      BY <2>1, <2>2, <2>3, <2>4, <2>5, <2>6
  <1>11. CASE StorePending
    <2>1. RollbackImageKept' /\ OkIsTrue'
      BY <1>11 DEF RollbackImageKept, OkIsTrue, StorePending, BookkeepingIsOver, flashVars,
          slotVars, linkVars, confirmVars, history, reportVars
    <2>2. TypeOK'
      BY <1>11 DEF TypeOK, StorePending, BookkeepingIsOver, flashVars, slotVars, linkVars,
          confirmVars, history, reportVars
    <2>3. ImagesAreTracked'
      BY <1>11 DEF ImagesAreTracked, TasksInTurn, StorePending, BookkeepingIsOver,
          flashVars, slotVars, linkVars, confirmVars, history, reportVars
    <2>4. TasksInTurn'
      BY <1>11 DEF TasksInTurn, StorePending, BookkeepingIsOver, flashVars, slotVars,
          linkVars, confirmVars, history, reportVars
    <2>5. OneInFlight'
      BY <1>11 DEF OneInFlight, StorePending, BookkeepingIsOver, flashVars, slotVars,
          linkVars, confirmVars, history, reportVars
    <2> QED
      BY <2>1, <2>2, <2>3, <2>4, <2>5
  <1>12. CASE SetBoot
    <2>1. OkIsTrue'
      BY <1>12 DEF OkIsTrue, SetBoot, nvsVars, slotVars, linkVars, confirmVars, history,
          reportVars
    <2>2. TypeOK'
      BY <1>12 DEF TypeOK, SetBoot, nvsVars, slotVars, linkVars, confirmVars, history,
          reportVars
    <2>3. ImagesAreTracked'
      BY <1>12 DEF ImagesAreTracked, TasksInTurn, OneInFlight, SetBoot, nvsVars, slotVars,
          linkVars, confirmVars, history, reportVars
    <2>4. TasksInTurn'
      BY <1>12 DEF TasksInTurn, SetBoot, nvsVars, slotVars, linkVars, confirmVars, history,
          reportVars
    <2>5. RollbackImageKept'
      BY <1>12 DEF TypeOK, ImagesAreTracked, TasksInTurn, RollbackImageKept, SetBoot,
          nvsVars, slotVars, linkVars, confirmVars, history, reportVars
    <2>6. OneInFlight'
      BY <1>12 DEF OneInFlight, SetBoot, nvsVars, slotVars, linkVars, confirmVars, history,
          reportVars
    <2> QED
      BY <2>1, <2>2, <2>3, <2>4, <2>5, <2>6
  <1>13. CASE Restart
    <2>1. RollbackImageKept' /\ OkIsTrue'
      BY <1>13 DEF RollbackImageKept, OkIsTrue, Restart, Reset, flashVars, nvsVars, history,
          reportVars
    <2>2. TypeOK'
      BY <1>13 DEF TypeOK, OneInFlight, Restart, Reset, flashVars, nvsVars, history,
          reportVars
    <2>3. ImagesAreTracked'
      BY <1>13 DEF ImagesAreTracked, Restart, Reset, flashVars, nvsVars, history, reportVars
    <2>4. TasksInTurn'
      BY <1>13 DEF TasksInTurn, Restart, Reset, flashVars, nvsVars, history, reportVars
    <2>5. OneInFlight'
      BY <1>13 DEF OneInFlight, Restart, Reset, flashVars, nvsVars, history, reportVars
    <2> QED
      BY <2>1, <2>2, <2>3, <2>4, <2>5
  <1>14. CASE SetBootFails
    <2>1. RollbackImageKept' /\ OkIsTrue'
      BY <1>14 DEF RollbackImageKept, OkIsTrue, SetBootFails, flashVars, slotVars, linkVars,
          confirmVars, history, reportVars
    <2>2. TypeOK'
      BY <1>14 DEF TypeOK, SetBootFails, flashVars, slotVars, linkVars, confirmVars,
          history, reportVars
    <2>3. ImagesAreTracked'
      BY <1>14 DEF ImagesAreTracked, TasksInTurn, SetBootFails, flashVars, slotVars,
          linkVars, confirmVars, history, reportVars
    <2>4. TasksInTurn'
      BY <1>14 DEF TasksInTurn, SetBootFails, flashVars, slotVars, linkVars, confirmVars,
          history, reportVars
    <2>5. OneInFlight'
      BY <1>14 DEF OneInFlight, SetBootFails, flashVars, slotVars, linkVars, confirmVars,
          history, reportVars
    <2> QED
      BY <2>1, <2>2, <2>3, <2>4, <2>5
  <1>15. CASE FailCmd
    <2>1. ImagesAreTracked' /\ RollbackImageKept' /\ OkIsTrue'
      BY <1>15 DEF ImagesAreTracked, RollbackImageKept, OkIsTrue, FailCmd, ReportFailed,
          flashVars, nvsVars, linkVars, confirmVars, history
    <2>2. TypeOK'
      BY <1>15 DEF TypeOK, FailCmd, ReportFailed, flashVars, nvsVars, linkVars, confirmVars,
          history
    <2>3. TasksInTurn'
      BY <1>15 DEF TasksInTurn, FailCmd, ReportFailed, flashVars, nvsVars, linkVars,
          confirmVars, history
    <2>4. OneInFlight'
      BY <1>15 DEF OneInFlight, FailCmd, ReportFailed, flashVars, nvsVars, linkVars,
          confirmVars, history
    <2> QED
      BY <2>1, <2>2, <2>3, <2>4
  <1>16. CASE MarkValid
    <2>1. OneInFlight'
      BY <1>16 DEF OneInFlight, MarkValid, nvsVars, slotVars, taskVars, reportVars
    <2>2. TypeOK'
      BY <1>16 DEF TypeOK, TasksInTurn, MarkValid, nvsVars, slotVars, taskVars, reportVars
    <2>3. ImagesAreTracked'
      BY <1>16 DEF ImagesAreTracked, MarkValid, nvsVars, slotVars, taskVars, reportVars
    <2>4. TasksInTurn'
      BY <1>16 DEF TasksInTurn, MarkValid, nvsVars, slotVars, taskVars, reportVars
    <2>5. RollbackImageKept'
      BY <1>16 DEF RollbackImageKept, MarkValid, nvsVars, slotVars, taskVars, reportVars
    <2>6. OkIsTrue'
      BY <1>16 DEF OkIsTrue, MarkValid, nvsVars, slotVars, taskVars, reportVars
    <2> QED
      BY <2>1, <2>2, <2>3, <2>4, <2>5, <2>6
  <1>17. CASE RollBack
    <2>1. RollbackImageKept' /\ OkIsTrue'
      BY <1>17 DEF RollbackImageKept, OkIsTrue, RollBack, Reset, flashVars, nvsVars,
          history, reportVars
    <2>2. TypeOK'
      BY <1>17 DEF TypeOK, TasksInTurn, RollBack, Reset, flashVars, nvsVars, history,
          reportVars
    <2>3. ImagesAreTracked'
      BY <1>17 DEF ImagesAreTracked, RollBack, Reset, flashVars, nvsVars, history,
          reportVars
    <2>4. TasksInTurn'
      BY <1>17 DEF TasksInTurn, RollBack, Reset, flashVars, nvsVars, history, reportVars
    <2>5. OneInFlight'
      BY <1>17 DEF OneInFlight, RollBack, Reset, flashVars, nvsVars, history, reportVars
    <2> QED
      BY <2>1, <2>2, <2>3, <2>4, <2>5
  <1>18. CASE Advance
    <2>1. RollbackImageKept' /\ OkIsTrue'
      BY <1>18 DEF RollbackImageKept, OkIsTrue, Advance, flashVars, nvsVars, linkVars,
          taskVars, history, reportVars
    <2>2. TypeOK'
      BY <1>18 DEF TypeOK, Advance, flashVars, nvsVars, linkVars, taskVars, history,
          reportVars
    <2>3. ImagesAreTracked'
      BY <1>18 DEF ImagesAreTracked, TasksInTurn, Advance, flashVars, nvsVars, linkVars,
          taskVars, history, reportVars
    <2>4. TasksInTurn'
      BY <1>18 DEF ImagesAreTracked, TasksInTurn, Advance, flashVars, nvsVars, linkVars,
          taskVars, history, reportVars
    <2>5. OneInFlight'
      BY <1>18 DEF TasksInTurn, OneInFlight, Advance, flashVars, nvsVars, linkVars,
          taskVars, history, reportVars
    <2> QED
      BY <2>1, <2>2, <2>3, <2>4, <2>5
  <1>19. CASE StoreFloor
    <2>1. RollbackImageKept' /\ OkIsTrue' /\ OneInFlight'
      BY <1>19 DEF RollbackImageKept, OkIsTrue, OneInFlight, StoreFloor, flashVars,
          slotVars, linkVars, taskVars, history, reportVars
    <2>2. TypeOK'
      BY <1>19 DEF TypeOK, StoreFloor, flashVars, slotVars, linkVars, taskVars, history,
          reportVars
    <2>3. ImagesAreTracked'
      BY <1>19 DEF ImagesAreTracked, TasksInTurn, StoreFloor, flashVars, slotVars, linkVars,
          taskVars, history, reportVars
    <2>4. TasksInTurn'
      BY <1>19 DEF TasksInTurn, StoreFloor, flashVars, slotVars, linkVars, taskVars,
          history, reportVars
    <2> QED
      BY <2>1, <2>2, <2>3, <2>4
  <1>20. CASE ClearFailed
    <2>1. ImagesAreTracked' /\ RollbackImageKept' /\ OkIsTrue' /\ OneInFlight'
      BY <1>20 DEF ImagesAreTracked, RollbackImageKept, OkIsTrue, OneInFlight, ClearFailed,
          flashVars, linkVars, taskVars, history, reportVars
    <2>2. TypeOK'
      BY <1>20 DEF TypeOK, ClearFailed, flashVars, linkVars, taskVars, history, reportVars
    <2>3. TasksInTurn'
      BY <1>20 DEF TasksInTurn, ClearFailed, flashVars, linkVars, taskVars, history,
          reportVars
    <2> QED
      BY <2>1, <2>2, <2>3
  <1>21. CASE ClearPend
    <2>1. RollbackImageKept' /\ OkIsTrue' /\ OneInFlight'
      BY <1>21 DEF RollbackImageKept, OkIsTrue, OneInFlight, ClearPend, flashVars, slotVars,
          linkVars, taskVars, history, reportVars
    <2>2. TypeOK'
      BY <1>21 DEF TypeOK, ClearPend, flashVars, slotVars, linkVars, taskVars, history,
          reportVars
    <2>3. ImagesAreTracked'
      BY <1>21 DEF ImagesAreTracked, TasksInTurn, ClearPend, flashVars, slotVars, linkVars,
          taskVars, history, reportVars
    <2>4. TasksInTurn'
      BY <1>21 DEF TasksInTurn, ClearPend, flashVars, slotVars, linkVars, taskVars, history,
          reportVars
    <2> QED
      BY <2>1, <2>2, <2>3, <2>4
  <1>22. CASE ReportConfirmed
    <2>1. ImagesAreTracked' /\ RollbackImageKept' /\ OneInFlight'
      BY <1>22 DEF ImagesAreTracked, RollbackImageKept, OneInFlight, ReportConfirmed,
          ReportOk, flashVars, nvsVars, slotVars, linkVars, taskVars, history
    <2>2. TypeOK'
      BY <1>22 DEF TypeOK, ReportConfirmed, ReportOk, flashVars, nvsVars, slotVars,
          linkVars, taskVars, history
    <2>3. TasksInTurn'
      BY <1>22 DEF TasksInTurn, ReportConfirmed, ReportOk, flashVars, nvsVars, slotVars,
          linkVars, taskVars, history
    <2>4. OkIsTrue'
      BY <1>22 DEF TasksInTurn, OkIsTrue, ReportConfirmed, ReportOk, flashVars, nvsVars,
          slotVars, linkVars, taskVars, history
    <2> QED
      BY <2>1, <2>2, <2>3, <2>4
  <1>23. CASE OutsideReset
    <2>1. RollbackImageKept' /\ OkIsTrue'
      BY <1>23 DEF RollbackImageKept, OkIsTrue, OutsideReset, Reset, flashVars, nvsVars,
          history, reportVars
    <2>2. TypeOK'
      <3>1. UNCHANGED <<flashVars, nvsVars, history, reportVars>>
        BY <1>23 DEF OutsideReset
      <3>2. queue' \in Seq(Sequence) /\ Len(queue') <= QueueSize
        BY <1>23 DEF OutsideReset, Reset, QueueSize
      <3>3. connected' \in BOOLEAN /\ owesRollback' \in BOOLEAN /\ semaphore' \in BOOLEAN
        BY <1>23 DEF OutsideReset, Reset
      <3>4. resets' \in 0..MaxResets
        BY <1>23 DEF OutsideReset, TypeOK, ClientAssumption
      <3> QED
        BY <1>23, <3>1, <3>2, <3>3, <3>4 DEF TypeOK, OutsideReset, Reset, flashVars, nvsVars,
            history, reportVars
    <2>3. ImagesAreTracked'
      BY <1>23 DEF ImagesAreTracked, OutsideReset, Reset, flashVars, nvsVars, history,
          reportVars
    <2>4. TasksInTurn'
      BY <1>23 DEF TasksInTurn, OutsideReset, Reset, flashVars, nvsVars, history, reportVars
    <2>5. OneInFlight'
      BY <1>23 DEF OneInFlight, OutsideReset, Reset, flashVars, nvsVars, history, reportVars
    <2> QED
      BY <2>1, <2>2, <2>3, <2>4, <2>5
  <1>24. CASE UNCHANGED vars
    BY <1>24 DEF vars, flashVars, nvsVars, slotVars, linkVars, taskVars, confirmVars,
          history, reportVars, TypeOK, ImagesAreTracked, TasksInTurn, RollbackImageKept,
          OkIsTrue, OneInFlight
  <1> QED
    BY <1>1, <1>2, <1>3, <1>4, <1>5, <1>6, <1>7, <1>8, <1>9, <1>10, <1>11, <1>12,
          <1>13, <1>14, <1>15, <1>16, <1>17, <1>18, <1>19, <1>20, <1>21, <1>22, <1>23, <1>24
      DEF Next, StartUp, OtaTask, ConfirmTask

\* The parts of the invariant hold together, wherever a reset falls: what NVS says
\* is pending or confirmed is what the partitions hold, and the tasks take turns.
THEOREM InvariantHolds == Spec => []ClientInv
  BY InitClientInv, ClientInvStep, PTL DEF Spec

\* At every moment of every run, with resets at any point, the image on trial has a
\* confirmed one to fall back to.
THEOREM RollbackImageStays == Spec => []RollbackImageKept
  <1>1. ClientInv => RollbackImageKept
    BY DEF ClientInv
  <1> QED
    BY <1>1, InvariantHolds, PTL

\* No "ok" was untrue: what report_ota says of a sequence was confirmed on the device.
THEOREM EveryOkIsTrue == Spec => []OkIsTrue
  <1>1. ClientInv => OkIsTrue
    BY DEF ClientInv
  <1> QED
    BY <1>1, InvariantHolds, PTL

\* The slot that handle_cmd_ota takes and three tasks give back admits one command
\* at a time, across reboots.
THEOREM OneCommandAtATime == Spec => []OneInFlight
  <1>1. ClientInv => OneInFlight
    BY DEF ClientInv
  <1> QED
    BY <1>1, InvariantHolds, PTL

\* Every reachable state is well typed; in particular a torn image never runs.
THEOREM ClientTypeCorrect == Spec => []TypeOK
  <1>1. ClientInv => TypeOK
    BY DEF ClientInv
  <1> QED
    BY <1>1, InvariantHolds, PTL
=============================================================================
