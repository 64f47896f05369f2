------------------------ MODULE BuildPipeline_proofs ------------------------
(* What is proved of BuildPipeline, for any number of jobs, builders,        *)
(* uploads, receives and faults.                                             *)
EXTENDS BuildPipeline, TLAPS

\* What the variables hold; a builder that builds has a job.
TypedBuilders ==
    /\ version \in [Job -> Version] /\ received \in [Job -> Nat]
    /\ workerPc \in [Worker -> {"idle", "build", "wait", "complete"}]
    /\ work \in [Worker -> Image \cup {NoImage}]
    /\ \A w \in Worker : workerPc[w] = "build" => work[w] \in Image
    /\ serves \in [Handler -> Worker \cup {NoWorker}]

TypedUploads ==
    /\ handlerPc \in [Handler -> {"idle", "look", "count", "sign", "create", "open", "fill",
                                  "undo", "release"}]
    /\ up \in [Handler -> Image \cup {NoImage}] /\ upVersion \in [Handler -> Version \cup {0}]
    /\ sequence \in [Handler -> Nat]
    /\ \A h \in Handler : handlerPc[h] # "idle" => up[h] \in Image /\ upVersion[h] \in Version

TypedStore ==
    /\ counter \in Nat
    /\ row \in [Version -> [image : Image \cup {NoImage}, sequence : Nat]]
    /\ file \in [Version -> Image \cup {NoFile, Torn}]

\* A sequence that an upload is about to have signed is its own, and unsigned.
SequencesAreReserved ==
    /\ \A s \in signed : s[1] \in Nat /\ s[1] <= counter
    /\ \A h \in Handler : handlerPc[h] = "sign" =>
          /\ sequence[h] <= counter
          /\ \A s \in signed : s[1] # sequence[h]
          /\ \A g \in Handler : handlerPc[g] = "sign" /\ sequence[g] = sequence[h] => g = h
    /\ SequencesAreSpentOnce

\* Between the insertion of a row and the reply, the row and its file belong to the upload.
Owns(h) == handlerPc[h] \in {"open", "fill", "undo", "release"}

RowsHaveOneOwner ==
    /\ \A h \in Handler : Owns(h) =>
          /\ row[upVersion[h]] = [image |-> up[h], sequence |-> sequence[h]]
          /\ handlerPc[h] = "release" => file[upVersion[h]] = up[h]
          /\ \A g \in Handler : Owns(g) /\ upVersion[g] = upVersion[h] => g = h
          /\ \A r \in released : r[1] # upVersion[h]
    /\ \A r \in released : r[1] \in Version /\ r[2] \in Image
    /\ ReleasesAreWhole

PipelineInv ==
    /\ TypedBuilders /\ TypedUploads /\ TypedStore
    /\ SequencesAreReserved /\ RowsHaveOneOwner

-----------------------------------------------------------------------------
LEMMA InitInv == Init => PipelineInv
  <1> SUFFICES ASSUME Init PROVE PipelineInv
    OBVIOUS
  <1>a. TypedBuilders
    BY DEF Init, TypedBuilders, Version
  <1>b. TypedUploads
    BY DEF Init, TypedUploads
  <1>1. TypedBuilders /\ TypedUploads /\ TypedStore
    BY <1>a, <1>b DEF Init, TypedStore, NoRow
  <1>2. SequencesAreReserved /\ RowsHaveOneOwner
    BY DEF Init, SequencesAreReserved, SequencesAreSpentOnce, RowsHaveOneOwner,
           ReleasesAreWhole, Owns
  <1> QED BY <1>1, <1>2 DEF PipelineInv

LEMMA NoImageIsNone == NoImage \notin Image
  BY PipelineAssumption DEF NoImage, Image, Job

\* Steps of the queue and of the builders leave uploads and store as they are.
uploadState == <<handlerPc, up, upVersion, sequence>>

LEMMA Quiet ==
    ASSUME PipelineInv, UNCHANGED uploadState, UNCHANGED storeVars
    PROVE  /\ TypedUploads' /\ TypedStore'
           /\ SequencesAreReserved' /\ RowsHaveOneOwner'
  <1>1. TypedUploads' /\ TypedStore'
    BY DEF PipelineInv, uploadState, storeVars, TypedUploads, TypedStore
  <1>2. SequencesAreReserved'
    BY DEF PipelineInv, uploadState, storeVars, SequencesAreReserved, SequencesAreSpentOnce
  <1>3. RowsHaveOneOwner'
    BY DEF PipelineInv, uploadState, storeVars, RowsHaveOneOwner, ReleasesAreWhole, Owns
  <1> QED BY <1>1, <1>2, <1>3

\* A builder that rests has nothing to build.
LEMMA RestTypes ==
    ASSUME TypedBuilders, NEW w \in Worker, WorkerRests(w),
           version' = version, received' \in [Job -> Nat],
           serves' \in [Handler -> Worker \cup {NoWorker}]
    PROVE  TypedBuilders'
  BY DEF TypedBuilders, WorkerRests, WorkerGoto

\* A handler that replies keeps nothing, and hands nothing to the builder.
LEMMA ReplyTypes ==
    ASSUME PipelineInv, NEW h \in Handler, NEW answer, Reply(h, answer), UNCHANGED queueVars
    PROVE  TypedBuilders' /\ TypedUploads'
  <1>a. TypedBuilders /\ TypedUploads
    BY DEF PipelineInv
  <1>b. version' = version /\ received' = received /\ received \in [Job -> Nat]
    BY <1>a DEF queueVars, TypedBuilders
  <1>c. /\ serves \in [Handler -> Worker \cup {NoWorker}]
        /\ serves' \in [Handler -> Worker \cup {NoWorker}]
    BY <1>a DEF TypedBuilders, Reply
  <1>1. TypedUploads'
    <2>1. /\ handlerPc' = [handlerPc EXCEPT ![h] = "idle"] /\ up' = [up EXCEPT ![h] = NoImage]
          /\ upVersion' = [upVersion EXCEPT ![h] = 0] /\ sequence' = [sequence EXCEPT ![h] = 0]
      BY DEF Reply, Goto
    <2> QED BY <1>a, <2>1 DEF TypedUploads
  <1>2. CASE UNCHANGED workerVars
    BY <1>1, <1>a, <1>b, <1>c, <1>2 DEF TypedBuilders, workerVars
  <1>3. CASE serves[h] \in Worker /\ WorkerRests(serves[h])
    BY <1>1, <1>a, <1>b, <1>c, <1>3, RestTypes
  <1>4. CASE serves[h] \in Worker /\ WorkerGoto(serves[h], "complete") /\ UNCHANGED work
    BY <1>1, <1>a, <1>b, <1>c, <1>4 DEF TypedBuilders, WorkerGoto
  <1> QED BY <1>c, <1>2, <1>3, <1>4 DEF Reply

\* A handler that leaves when its row is none of its business any more.
LEMMA ReplyKeeps ==
    ASSUME PipelineInv, NEW h \in Handler, NEW answer, Reply(h, answer),
           UNCHANGED <<row, file, counter, signed, released>>
    PROVE  TypedStore' /\ SequencesAreReserved' /\ RowsHaveOneOwner'
  <1>1. TypedStore'
    BY DEF PipelineInv, TypedStore
  <1>2. /\ handlerPc' = [handlerPc EXCEPT ![h] = "idle"] /\ up' = [up EXCEPT ![h] = NoImage]
        /\ upVersion' = [upVersion EXCEPT ![h] = 0] /\ sequence' = [sequence EXCEPT ![h] = 0]
    BY DEF Reply, Goto
  <1>3. SequencesAreReserved'
    BY <1>2 DEF PipelineInv, TypedUploads, SequencesAreReserved, SequencesAreSpentOnce
  <1>4. RowsHaveOneOwner'
    BY <1>2 DEF PipelineInv, TypedUploads, RowsHaveOneOwner, ReleasesAreWhole, Owns
  <1> QED BY <1>1, <1>3, <1>4
\* A handler that goes on keeps its image, and its builder waits.
LEMMA ProceedTypes ==
    ASSUME PipelineInv, NEW h \in Handler, handlerPc[h] # "idle", UNCHANGED queueVars,
           NEW p \in {"count", "sign", "create", "open", "fill", "undo", "release"},
           Proceed(h, p), sequence' \in [Handler -> Nat]
    PROVE  TypedBuilders' /\ TypedUploads'
  <1>1. /\ handlerPc' = [handlerPc EXCEPT ![h] = p]
        /\ UNCHANGED <<workerPc, work, serves, up, upVersion, version, received>>
    BY DEF Proceed, Goto, workerVars, queueVars
  <1>2. TypedBuilders'
    BY <1>1 DEF PipelineInv, TypedBuilders
  <1>3. TypedUploads'
    BY <1>1 DEF PipelineInv, TypedUploads
  <1> QED BY <1>2, <1>3

\* An upload of a builder enters the server at "look".
LEMMA UploadKeeps ==
    ASSUME PipelineInv, NEW w \in Worker, NEW h \in Handler, Upload(w, h)
    PROVE  PipelineInv'
  <1>1. PICK j \in Job : upVersion' = [upVersion EXCEPT ![h] = version[j]]
    BY DEF Upload
  <1>2. /\ handlerPc' = [handlerPc EXCEPT ![h] = "look"] /\ up' = [up EXCEPT ![h] = work[w]]
        /\ workerPc' = [workerPc EXCEPT ![w] = "wait"] /\ serves' = [serves EXCEPT ![h] = w]
        /\ workerPc[w] = "build" /\ handlerPc[h] = "idle"
        /\ UNCHANGED <<version, received, work, sequence, row, file, counter, signed, released>>
    BY DEF Upload, Goto, WorkerGoto, queueVars, storeVars
  <1>3. TypedBuilders'
    BY <1>2 DEF PipelineInv, TypedBuilders
  <1>4. version[j] \in Version /\ work[w] \in Image
    BY <1>2 DEF PipelineInv, TypedBuilders
  <1>5. TypedUploads'
    BY <1>1, <1>2, <1>4 DEF PipelineInv, TypedUploads
  <1>6. TypedStore'
    BY <1>2 DEF PipelineInv, TypedStore
  <1>7. SequencesAreReserved'
    BY <1>2 DEF PipelineInv, TypedUploads, SequencesAreReserved, SequencesAreSpentOnce
  <1>8. RowsHaveOneOwner'
    BY <1>1, <1>2 DEF PipelineInv, TypedUploads, RowsHaveOneOwner, ReleasesAreWhole, Owns
  <1> QED BY <1>3, <1>5, <1>6, <1>7, <1>8 DEF PipelineInv

\* The other steps of the queue and of the builders.
LEMMA BuildersKeep ==
    ASSUME PipelineInv,
           \/ \E j \in Job : LeaseExpires(j) \/ \E v \in Version : Enqueue(j, v)
           \/ \E w \in Worker : \/ BuildFails(w) \/ Complete(w) \/ WorkerStops(w)
                               \/ \E j \in Job : Lease(w, j)
    PROVE  PipelineInv'
  <1>a. TypedBuilders
    BY DEF PipelineInv
  <1>1. UNCHANGED uploadState /\ UNCHANGED storeVars
    BY DEF LeaseExpires, Enqueue, BuildFails, Complete, WorkerStops, Lease, uploadState,
           uploadVars
  <1>2. ASSUME NEW j \in Job, LeaseExpires(j)
        PROVE  TypedBuilders'
    BY <1>a, <1>2 DEF LeaseExpires, TypedBuilders, workerVars, uploadVars
  <1>3. ASSUME NEW j \in Job, NEW v \in Version, Enqueue(j, v)
        PROVE  TypedBuilders'
    BY <1>a, <1>3 DEF Enqueue, TypedBuilders, workerVars, uploadVars
  <1>4. ASSUME NEW w \in Worker, BuildFails(w)
        PROVE  TypedBuilders'
    BY <1>a, <1>4, RestTypes DEF BuildFails, TypedBuilders, queueVars, uploadVars
  <1>5. ASSUME NEW w \in Worker, Complete(w)
        PROVE  TypedBuilders'
    <2>1. received' \in [Job -> Nat]
      BY <1>a, <1>5 DEF Complete, TypedBuilders
    <2> QED BY <1>a, <1>5, <2>1, RestTypes DEF Complete, TypedBuilders, uploadVars
  <1>6. ASSUME NEW w \in Worker, WorkerStops(w)
        PROVE  TypedBuilders'
    BY <1>a, <1>6, RestTypes DEF WorkerStops, TypedBuilders, queueVars
  <1>7. ASSUME NEW w \in Worker, NEW j \in Job, Lease(w, j)
        PROVE  TypedBuilders'
    <2>1. received[j] \in Nat /\ received[j] < MaxReceive
      BY <1>a, <1>7 DEF Lease, Visible, TypedBuilders
    <2>2. /\ received' = [received EXCEPT ![j] = received[j] + 1]
          /\ work' = [work EXCEPT ![w] = <<j, received'[j]>>]
          /\ workerPc' = [workerPc EXCEPT ![w] = "build"]
          /\ UNCHANGED <<version, serves>>
      BY <1>7 DEF Lease, WorkerGoto, uploadVars
    <2>3. received'[j] = received[j] + 1
      BY <1>a, <2>2 DEF TypedBuilders
    <2>4. <<j, received'[j]>> \in Image
      BY <2>1, <2>3, PipelineAssumption DEF Image
    <2> QED BY <1>a, <2>1, <2>2, <2>4 DEF TypedBuilders
  <1>8. TypedBuilders'
    BY <1>2, <1>3, <1>4, <1>5, <1>6, <1>7
  <1> QED BY <1>1, <1>8, Quiet DEF PipelineInv
-----------------------------------------------------------------------------
(* The handler of an upload *)

\* What every step of a handler does to the types, and a reply to the rest.
LEMMA RepliesKeep ==
    ASSUME PipelineInv, NEW h \in Handler, NEW answer, Reply(h, answer), UNCHANGED queueVars,
           UNCHANGED <<row, file, counter, signed, released>>
    PROVE  PipelineInv'
  BY ReplyTypes, ReplyKeeps DEF PipelineInv

LEMMA LookKeeps ==
    ASSUME PipelineInv, NEW h \in Handler, Look(h)
    PROVE  PipelineInv'
  <1>1. ASSUME NEW answer, Reply(h, answer)
        PROVE  PipelineInv'
    BY <1>1, RepliesKeep DEF Look, storeVars
  <1>2. CASE Proceed(h, "count") /\ UNCHANGED sequence
    <2>1. sequence' \in [Handler -> Nat] /\ handlerPc[h] = "look"
      BY <1>2 DEF PipelineInv, TypedUploads, Look
    <2>2. TypedBuilders' /\ TypedUploads'
      BY <1>2, <2>1, ProceedTypes DEF Look
    <2>3. /\ handlerPc' = [handlerPc EXCEPT ![h] = "count"]
          /\ UNCHANGED <<up, upVersion, sequence, row, file, counter, signed, released>>
      BY <1>2 DEF Proceed, Goto, Look, storeVars
    <2>4. TypedStore' /\ SequencesAreReserved'
      BY <2>3 DEF PipelineInv, TypedUploads, TypedStore, SequencesAreReserved,
                  SequencesAreSpentOnce
    <2>5. RowsHaveOneOwner'
      BY <2>3 DEF PipelineInv, TypedUploads, RowsHaveOneOwner, ReleasesAreWhole, Owns
    <2> QED BY <2>2, <2>4, <2>5 DEF PipelineInv
  <1> QED BY <1>1, <1>2 DEF Look

LEMMA NextSequenceKeeps ==
    ASSUME PipelineInv, NEW h \in Handler, NextSequence(h)
    PROVE  PipelineInv'
  <1>1. CASE Reply(h, "error") /\ UNCHANGED counter
    BY <1>1, RepliesKeep DEF NextSequence
  <1>2. CASE /\ counter' = counter + 1 /\ sequence' = [sequence EXCEPT ![h] = counter + 1]
             /\ Proceed(h, "sign")
    <2>1. sequence' \in [Handler -> Nat] /\ handlerPc[h] = "count"
      BY <1>2 DEF PipelineInv, TypedUploads, TypedStore, NextSequence
    <2>2. TypedBuilders' /\ TypedUploads'
      BY <1>2, <2>1, ProceedTypes DEF NextSequence
    <2>3. /\ handlerPc' = [handlerPc EXCEPT ![h] = "sign"]
          /\ UNCHANGED <<up, upVersion, row, file, signed, released>>
      BY <1>2 DEF Proceed, Goto, NextSequence
    <2>4. TypedStore'
      BY <1>2, <2>3 DEF PipelineInv, TypedStore
    <2>5. SequencesAreReserved'
      BY <1>2, <2>3 DEF PipelineInv, TypedUploads, TypedStore, SequencesAreReserved,
                        SequencesAreSpentOnce
    <2>6. RowsHaveOneOwner'
      BY <1>2, <2>1, <2>3 DEF PipelineInv, TypedUploads, RowsHaveOneOwner, ReleasesAreWhole, Owns
    <2> QED BY <2>2, <2>4, <2>5, <2>6 DEF PipelineInv
  <1> QED BY <1>1, <1>2 DEF NextSequence

LEMMA SignKeeps ==
    ASSUME PipelineInv, NEW h \in Handler, Sign(h)
    PROVE  PipelineInv'
  <1>1. /\ signed' = signed \cup {<<sequence[h], up[h]>>} /\ handlerPc[h] = "sign"
        /\ UNCHANGED <<queueVars, row, file, counter, released>>
    BY DEF Sign
  <1>2. sequence[h] \in Nat /\ sequence[h] <= counter
    BY <1>1 DEF PipelineInv, TypedUploads, SequencesAreReserved
  <1>3. ASSUME NEW p \in {"idle", "create"}, handlerPc' = [handlerPc EXCEPT ![h] = p],
               \A g \in Handler : g # h =>
                  /\ up'[g] = up[g] /\ upVersion'[g] = upVersion[g]
                  /\ sequence'[g] = sequence[g]
        PROVE  TypedStore' /\ SequencesAreReserved' /\ RowsHaveOneOwner'
    <2>1. TypedStore'
      BY <1>1 DEF PipelineInv, TypedStore
    <2>2. \A s \in signed' : s[1] \in Nat /\ s[1] <= counter'
      BY <1>1, <1>2 DEF PipelineInv, SequencesAreReserved
    <2>3. SequencesAreSpentOnce'
      BY <1>1 DEF PipelineInv, SequencesAreReserved, SequencesAreSpentOnce
    <2>4. ASSUME NEW g \in Handler, handlerPc'[g] = "sign"
          PROVE  g # h /\ handlerPc[g] = "sign" /\ sequence'[g] = sequence[g]
      BY <1>3, <2>4 DEF PipelineInv, TypedUploads
    <2>5. SequencesAreReserved'
      BY <1>1, <2>2, <2>3, <2>4 DEF PipelineInv, SequencesAreReserved
    <2>6. RowsHaveOneOwner'
      BY <1>1, <1>3 DEF PipelineInv, TypedUploads, RowsHaveOneOwner, ReleasesAreWhole, Owns
    <2> QED BY <2>1, <2>5, <2>6
  <1>4. CASE Proceed(h, "create") /\ UNCHANGED sequence
    <2>1. sequence' \in [Handler -> Nat]
      BY <1>4 DEF PipelineInv, TypedUploads
    <2>2. TypedBuilders' /\ TypedUploads'
      BY <1>1, <1>4, <2>1, ProceedTypes
    <2> QED BY <1>3, <1>4, <2>2 DEF Proceed, Goto, PipelineInv
  <1>5. CASE Reply(h, "error")
    <2>1. TypedBuilders' /\ TypedUploads'
      BY <1>1, <1>5, ReplyTypes
    <2>2. TypedStore' /\ SequencesAreReserved' /\ RowsHaveOneOwner'
      BY <1>3, <1>5 DEF Reply, Goto, PipelineInv, TypedUploads
    <2> QED BY <2>1, <2>2 DEF PipelineInv
  <1> QED BY <1>4, <1>5 DEF Sign
\* Once the image is signed, a step that goes on disturbs no sequence.
LEMMA StorageSteps ==
    ASSUME PipelineInv, NEW h \in Handler, handlerPc[h] # "idle",
           NEW p \in {"open", "fill", "undo", "release"}, Proceed(h, p),
           UNCHANGED queueVars, UNCHANGED <<sequence, counter, signed>>
    PROVE  /\ TypedBuilders' /\ TypedUploads' /\ SequencesAreReserved'
           /\ handlerPc' = [handlerPc EXCEPT ![h] = p]
           /\ UNCHANGED <<up, upVersion>>
  <1>1. sequence' \in [Handler -> Nat]
    BY DEF PipelineInv, TypedUploads
  <1>2. TypedBuilders' /\ TypedUploads'
    BY <1>1, ProceedTypes
  <1>3. handlerPc' = [handlerPc EXCEPT ![h] = p] /\ UNCHANGED <<up, upVersion>>
    BY DEF Proceed, Goto
  <1>4. SequencesAreReserved'
    BY <1>3 DEF PipelineInv, TypedUploads, SequencesAreReserved, SequencesAreSpentOnce
  <1> QED BY <1>2, <1>3, <1>4

\* A row that is not there was not released, and has no owner.
LEMMA CreateKeeps ==
    ASSUME PipelineInv, NEW h \in Handler, Create(h)
    PROVE  PipelineInv'
  <1> DEFINE v == upVersion[h]
             new == [image |-> up[h], sequence |-> sequence[h]]
  <1>1. ASSUME NEW answer, Reply(h, answer), UNCHANGED row
        PROVE  PipelineInv'
    BY <1>1, RepliesKeep DEF Create
  <1>2. CASE row[v] = NoRow /\ row' = [row EXCEPT ![v] = new] /\ Proceed(h, "open")
             /\ UNCHANGED sequence
    <2>1. handlerPc[h] = "create" /\ UNCHANGED <<queueVars, file, counter, signed, released>>
      BY DEF Create
    <2>2. /\ TypedBuilders' /\ TypedUploads' /\ SequencesAreReserved'
          /\ handlerPc' = [handlerPc EXCEPT ![h] = "open"]
          /\ UNCHANGED <<up, upVersion>>
      BY <1>2, <2>1, StorageSteps
    <2>3. v \in Version /\ up[h] \in Image /\ new \in [image : Image \cup {NoImage}, sequence : Nat]
      BY <2>1 DEF PipelineInv, TypedUploads
    <2>4. TypedStore'
      BY <1>2, <2>1, <2>3 DEF PipelineInv, TypedStore
    <2>5. row[v].image = NoImage
      BY <1>2 DEF NoRow
    <2>6. ASSUME NEW r \in released, r[1] = v
          PROVE  FALSE
      <3>1. r[2] \in Image /\ row[r[1]] = [image |-> r[2], sequence |-> r[3]]
        BY DEF PipelineInv, RowsHaveOneOwner, ReleasesAreWhole
      <3>2. row[r[1]].image = r[2]
        BY <3>1
      <3> QED BY <2>5, <2>6, <3>1, <3>2, NoImageIsNone
    <2>7. ASSUME NEW g \in Handler, Owns(g), upVersion[g] = v
          PROVE  FALSE
      <3>1. up[g] \in Image /\ row[upVersion[g]] = [image |-> up[g], sequence |-> sequence[g]]
        BY <2>7 DEF PipelineInv, TypedUploads, RowsHaveOneOwner, Owns
      <3>2. row[upVersion[g]].image = up[g]
        BY <3>1
      <3> QED BY <2>5, <2>7, <3>1, <3>2, NoImageIsNone
    <2>8. row'[v] = new /\ \A x \in Version : x # v => row'[x] = row[x]
      BY <1>2, <2>3 DEF PipelineInv, TypedStore
    <2>9. Owns(h)' /\ handlerPc'[h] # "release" /\ \A g \in Handler : g # h => (Owns(g)' <=> Owns(g))
      BY <2>2 DEF PipelineInv, TypedUploads, Owns
    <2>10. ReleasesAreWhole'
      BY <2>1, <2>6, <2>8 DEF PipelineInv, RowsHaveOneOwner, ReleasesAreWhole
    <2>11. ASSUME NEW g \in Handler, Owns(g)'
           PROVE  /\ row'[upVersion[g]] = [image |-> up[g], sequence |-> sequence[g]]
                  /\ handlerPc'[g] = "release" => file[upVersion[g]] = up[g]
                  /\ \A f \in Handler : Owns(f)' /\ upVersion[f] = upVersion[g] => f = g
                  /\ \A r \in released : r[1] # upVersion[g]
      <3>1. CASE g = h
        BY <3>1, <2>6, <2>7, <2>8, <2>9
      <3>2. CASE g # h
        <4>1. Owns(g) /\ upVersion[g] # v /\ upVersion[g] \in Version
          BY <3>2, <2>7, <2>9, <2>11 DEF Owns, PipelineInv, TypedUploads
        <4>2. handlerPc'[g] = handlerPc[g]
          BY <2>2, <3>2 DEF PipelineInv, TypedUploads
        <4> QED BY <4>1, <4>2, <2>8, <2>9 DEF PipelineInv, RowsHaveOneOwner
      <3> QED BY <3>1, <3>2
    <2>12. RowsHaveOneOwner'
      BY <1>2, <2>1, <2>2, <2>10, <2>11 DEF PipelineInv, RowsHaveOneOwner
    <2> QED BY <2>2, <2>4, <2>12 DEF PipelineInv
  <1> QED BY <1>1, <1>2 DEF Create

\* The owner of a row may do to its file what it likes until it is released.
LEMMA OwnFile ==
    ASSUME PipelineInv, NEW h \in Handler, handlerPc[h] \in {"open", "fill"},
           NEW p \in {"fill", "undo", "release"}, Proceed(h, p), UNCHANGED queueVars,
           UNCHANGED <<sequence, row, counter, signed, released>>,
           NEW f \in Image \cup {NoFile, Torn}, file' = [file EXCEPT ![upVersion[h]] = f],
           p = "release" => f = up[h]
    PROVE  PipelineInv'
  <1>1. /\ TypedBuilders' /\ TypedUploads' /\ SequencesAreReserved'
        /\ handlerPc' = [handlerPc EXCEPT ![h] = p]
        /\ UNCHANGED <<up, upVersion>>
    BY StorageSteps
  <1>2. upVersion[h] \in Version /\ Owns(h)
    BY DEF PipelineInv, TypedUploads, Owns
  <1>3. TypedStore'
    BY <1>2 DEF PipelineInv, TypedStore
  <1>4. file'[upVersion[h]] = f /\ \A x \in Version : x # upVersion[h] => file'[x] = file[x]
    BY <1>2 DEF PipelineInv, TypedStore
  <1>5. /\ Owns(h)' /\ handlerPc'[h] = p
        /\ \A g \in Handler : g # h => handlerPc'[g] = handlerPc[g] /\ (Owns(g)' <=> Owns(g))
    BY <1>1 DEF PipelineInv, TypedUploads, Owns
  <1>6. \A g \in Handler : Owns(g) /\ g # h => upVersion[g] \in Version \ {upVersion[h]}
    BY <1>2 DEF PipelineInv, TypedUploads, RowsHaveOneOwner, Owns
  <1>7. ReleasesAreWhole'
    BY <1>2, <1>4 DEF PipelineInv, RowsHaveOneOwner, ReleasesAreWhole
  <1>8. \A g \in Handler : Owns(g)' /\ handlerPc'[g] = "release" => file'[upVersion[g]] = up[g]
    BY <1>4, <1>5, <1>6 DEF PipelineInv, RowsHaveOneOwner
  <1>9. RowsHaveOneOwner'
    BY <1>1, <1>2, <1>5, <1>7, <1>8 DEF PipelineInv, RowsHaveOneOwner
  <1> QED BY <1>1, <1>3, <1>9 DEF PipelineInv
LEMMA OpenFileKeeps ==
    ASSUME PipelineInv, NEW h \in Handler, OpenFile(h)
    PROVE  PipelineInv'
  <1>1. /\ handlerPc[h] = "open"
        /\ UNCHANGED <<queueVars, sequence, row, counter, signed, released>>
    BY DEF OpenFile
  <1>2. CASE file' = [file EXCEPT ![upVersion[h]] = Torn] /\ Proceed(h, "fill")
    BY <1>1, <1>2, OwnFile
  <1>3. CASE UNCHANGED file /\ Proceed(h, "undo")
    <2>1. upVersion[h] \in Version
      BY <1>1 DEF PipelineInv, TypedUploads
    <2> DEFINE f == file[upVersion[h]]
    <2>2. f \in Image \cup {NoFile, Torn} /\ file' = [file EXCEPT ![upVersion[h]] = f]
      BY <1>3, <2>1 DEF PipelineInv, TypedStore
    <2> QED BY <1>1, <1>3, <2>2, OwnFile
  <1> QED BY <1>2, <1>3 DEF OpenFile

LEMMA FillFileKeeps ==
    ASSUME PipelineInv, NEW h \in Handler, FillFile(h)
    PROVE  PipelineInv'
  <1>1. /\ handlerPc[h] = "fill"
        /\ UNCHANGED <<queueVars, sequence, row, counter, signed, released>>
    BY DEF FillFile
  <1>2. upVersion[h] \in Version /\ up[h] \in Image
    BY <1>1 DEF PipelineInv, TypedUploads
  <1>3. CASE file' = [file EXCEPT ![upVersion[h]] = up[h]] /\ Proceed(h, "release")
    BY <1>1, <1>2, <1>3, OwnFile
  <1>4. CASE UNCHANGED file /\ Proceed(h, "undo")
    <2> DEFINE f == file[upVersion[h]]
    <2>1. f \in Image \cup {NoFile, Torn} /\ file' = [file EXCEPT ![upVersion[h]] = f]
      BY <1>2, <1>4 DEF PipelineInv, TypedStore
    <2> QED BY <1>1, <1>4, <2>1, OwnFile
  <1> QED BY <1>3, <1>4 DEF FillFile

\* Whoever undoes a row is its only owner, and it was not released.
LEMMA UndoRowKeeps ==
    ASSUME PipelineInv, NEW h \in Handler, UndoRow(h)
    PROVE  PipelineInv'
  <1> DEFINE v == upVersion[h]
  <1>1. /\ handlerPc[h] = "undo" /\ Reply(h, "error")
        /\ UNCHANGED <<queueVars, file, counter, signed, released>>
    BY DEF UndoRow
  <1>2. CASE UNCHANGED row
    BY <1>1, <1>2, RepliesKeep
  <1>3. CASE row' = [row EXCEPT ![v] = NoRow]
    <2>1. TypedBuilders' /\ TypedUploads'
      BY <1>1, ReplyTypes
    <2>2. /\ handlerPc' = [handlerPc EXCEPT ![h] = "idle"] /\ up' = [up EXCEPT ![h] = NoImage]
          /\ upVersion' = [upVersion EXCEPT ![h] = 0] /\ sequence' = [sequence EXCEPT ![h] = 0]
      BY <1>1 DEF Reply, Goto
    <2>3. v \in Version /\ Owns(h)
      BY <1>1 DEF PipelineInv, TypedUploads, Owns
    <2>4. TypedStore'
      BY <1>1, <1>3, <2>3 DEF PipelineInv, TypedStore, NoRow
    <2>5. SequencesAreReserved'
      BY <1>1, <2>2 DEF PipelineInv, TypedUploads, SequencesAreReserved, SequencesAreSpentOnce
    <2>6. \A x \in Version : x # v => row'[x] = row[x]
      BY <1>3 DEF PipelineInv, TypedStore
    <2>7. ReleasesAreWhole'
      BY <1>1, <2>3, <2>6 DEF PipelineInv, RowsHaveOneOwner, ReleasesAreWhole
    <2>8. ASSUME NEW g \in Handler, Owns(g)'
          PROVE  /\ g # h /\ Owns(g) /\ upVersion[g] \in Version \ {v}
                 /\ handlerPc'[g] = handlerPc[g] /\ up'[g] = up[g]
                 /\ upVersion'[g] = upVersion[g] /\ sequence'[g] = sequence[g]
      <3>1. /\ g # h /\ handlerPc'[g] = handlerPc[g] /\ up'[g] = up[g]
            /\ upVersion'[g] = upVersion[g] /\ sequence'[g] = sequence[g]
        BY <2>2, <2>8 DEF PipelineInv, TypedUploads, Owns
      <3>2. Owns(g)
        BY <3>1, <2>8 DEF Owns
      <3> QED BY <3>1, <3>2, <2>3 DEF PipelineInv, TypedUploads, RowsHaveOneOwner, Owns
    <2>9. RowsHaveOneOwner'
      BY <1>1, <2>6, <2>7, <2>8 DEF PipelineInv, RowsHaveOneOwner
    <2> QED BY <2>1, <2>4, <2>5, <2>9 DEF PipelineInv
  <1> QED BY <1>2, <1>3 DEF UndoRow

\* What is released is what its owner has just written.
LEMMA ReleaseKeeps ==
    ASSUME PipelineInv, NEW h \in Handler, Release(h)
    PROVE  PipelineInv'
  <1> DEFINE new == <<upVersion[h], up[h], sequence[h]>>
  <1>1. /\ handlerPc[h] = "release" /\ Reply(h, "created") /\ released' = released \cup {new}
        /\ UNCHANGED <<queueVars, row, file, counter, signed>>
    BY DEF Release
  <1>2. TypedBuilders' /\ TypedUploads'
    BY <1>1, ReplyTypes
  <1>3. TypedStore'
    BY <1>1 DEF PipelineInv, TypedStore
  <1>4. /\ handlerPc' = [handlerPc EXCEPT ![h] = "idle"] /\ up' = [up EXCEPT ![h] = NoImage]
        /\ upVersion' = [upVersion EXCEPT ![h] = 0] /\ sequence' = [sequence EXCEPT ![h] = 0]
    BY <1>1 DEF Reply, Goto
  <1>5. SequencesAreReserved'
    BY <1>1, <1>4 DEF PipelineInv, TypedUploads, SequencesAreReserved, SequencesAreSpentOnce
  <1>6. Owns(h) /\ upVersion[h] \in Version /\ up[h] \in Image
    BY <1>1 DEF PipelineInv, TypedUploads, Owns
  <1>7. /\ row[upVersion[h]] = [image |-> up[h], sequence |-> sequence[h]]
        /\ file[upVersion[h]] = up[h]
    BY <1>1, <1>6 DEF PipelineInv, RowsHaveOneOwner
  <1>8. new[1] = upVersion[h] /\ new[2] = up[h] /\ new[3] = sequence[h]
    OBVIOUS
  <1>9. ReleasesAreWhole' /\ \A r \in released' : r[1] \in Version /\ r[2] \in Image
    BY <1>1, <1>6, <1>7, <1>8 DEF PipelineInv, RowsHaveOneOwner, ReleasesAreWhole
  <1>10. ASSUME NEW g \in Handler, Owns(g)'
         PROVE  /\ g # h /\ Owns(g) /\ upVersion[g] # upVersion[h]
                /\ handlerPc'[g] = handlerPc[g] /\ up'[g] = up[g]
                /\ upVersion'[g] = upVersion[g] /\ sequence'[g] = sequence[g]
    <2>1. /\ g # h /\ handlerPc'[g] = handlerPc[g] /\ up'[g] = up[g]
          /\ upVersion'[g] = upVersion[g] /\ sequence'[g] = sequence[g]
      BY <1>4, <1>10 DEF PipelineInv, TypedUploads, Owns
    <2>2. Owns(g)
      BY <1>10, <2>1 DEF Owns
    <2> QED BY <1>6, <2>1, <2>2 DEF PipelineInv, RowsHaveOneOwner
  <1>11. RowsHaveOneOwner'
    BY <1>1, <1>8, <1>9, <1>10 DEF PipelineInv, RowsHaveOneOwner
  <1> QED BY <1>2, <1>3, <1>5, <1>11 DEF PipelineInv

LEMMA ServerRestartKeeps ==
    ASSUME PipelineInv, ServerRestart
    PROVE  PipelineInv'
  <1>1. /\ handlerPc' = [h \in Handler |-> "idle"] /\ serves' = [h \in Handler |-> NoWorker]
        /\ up' = [h \in Handler |-> NoImage] /\ upVersion' = [h \in Handler |-> 0]
        /\ sequence' = [h \in Handler |-> 0]
        /\ workerPc' = [w \in Worker |-> IF workerPc[w] = "wait" THEN "idle" ELSE workerPc[w]]
        /\ work' = [w \in Worker |-> IF workerPc[w] = "wait" THEN NoImage ELSE work[w]]
        /\ UNCHANGED <<version, received, row, file, counter, signed, released>>
    BY DEF ServerRestart, queueVars, storeVars
  <1>2. TypedBuilders'
    BY <1>1 DEF PipelineInv, TypedBuilders
  <1>3. TypedUploads' /\ TypedStore'
    BY <1>1 DEF PipelineInv, TypedUploads, TypedStore
  <1>4. SequencesAreReserved' /\ RowsHaveOneOwner'
    BY <1>1 DEF PipelineInv, SequencesAreReserved, SequencesAreSpentOnce, RowsHaveOneOwner,
                ReleasesAreWhole, Owns
  <1> QED BY <1>2, <1>3, <1>4 DEF PipelineInv

-----------------------------------------------------------------------------
LEMMA StepInv == PipelineInv /\ [Next]_vars => PipelineInv'
  <1> SUFFICES ASSUME PipelineInv, [Next]_vars
               PROVE  PipelineInv'
    OBVIOUS
  <1>1. CASE UNCHANGED vars
    <2>1. UNCHANGED uploadState /\ UNCHANGED storeVars /\ TypedBuilders'
      BY <1>1 DEF vars, uploadVars, uploadState, storeVars, queueVars, workerVars, PipelineInv,
                  TypedBuilders
    <2> QED BY <2>1, Quiet DEF PipelineInv
  <1>2. ASSUME NEW h \in Handler, UploadArtifact(h)
        PROVE  PipelineInv'
    BY <1>2, LookKeeps, NextSequenceKeeps, SignKeeps, CreateKeeps, OpenFileKeeps,
       FillFileKeeps, UndoRowKeeps, ReleaseKeeps DEF UploadArtifact
  <1>3. ASSUME NEW w \in Worker, Work(w) \/ WorkerStops(w)
        PROVE  PipelineInv'
    BY <1>3, BuildersKeep, UploadKeeps DEF Work
  <1>4. ASSUME NEW j \in Job, LeaseExpires(j) \/ \E v \in Version : Enqueue(j, v)
        PROVE  PipelineInv'
    BY <1>4, BuildersKeep
  <1> QED BY <1>1, <1>2, <1>3, <1>4, ServerRestartKeeps DEF Next

\* What was rolled out stays served as it was signed, whole, whatever uploads of the
\* same version overlap, fail and are undone (artifact.Service.Store).
THEOREM ReleasesStayWhole == Spec => []ReleasesAreWhole
  <1>1. PipelineInv => ReleasesAreWhole
    BY DEF PipelineInv, RowsHaveOneOwner
  <1> QED BY <1>1, InitInv, StepInv, PTL DEF Spec

\* No sequence is ever signed with two images, however many uploads overlap
\* (artifact.Service.Store, ArtifactRepository.NextSequence).
THEOREM SequencesAreUnique == Spec => []SequencesAreSpentOnce
  <1>1. PipelineInv => SequencesAreSpentOnce
    BY DEF PipelineInv, SequencesAreReserved
  <1> QED BY <1>1, InitInv, StepInv, PTL DEF Spec

-----------------------------------------------------------------------------
(* The type invariant. Beyond what PipelineInv says of the types, it bounds  *)
(* the receives by MaxReceive and the sequences by the counter, and has a    *)
(* builder wait for every upload somebody waits for.                         *)

QueueInRange ==
    /\ jobState \in [Job -> {"none", "queued", "done"}] /\ leased \in [Job -> BOOLEAN]
    /\ \A j \in Job : received[j] <= MaxReceive
    /\ faults \in 0..MaxFaults

\* A builder that waits does so for one upload.
OneUploadEach ==
    \A h \in Handler : serves[h] # NoWorker =>
        /\ workerPc[serves[h]] = "wait"
        /\ \A g \in Handler : serves[g] = serves[h] => g = h

\* Nothing bears a sequence that was not counted.
SequencesAreCounted ==
    /\ \A h \in Handler : /\ sequence[h] <= counter
                          /\ handlerPc[h] \in {"sign", "create", "open", "fill", "undo", "release"}
                               => 1 <= sequence[h]
    /\ \A v \in Version : row[v].sequence <= counter
    /\ signed \subseteq (1..counter) \X Image
    /\ released \subseteq Version \X Image \X (1..counter)

TypeInv == QueueInRange /\ OneUploadEach /\ SequencesAreCounted

LEMMA InitTypes == Init => TypeInv
  <1> SUFFICES ASSUME Init PROVE TypeInv
    OBVIOUS
  <1>1. QueueInRange
    BY PipelineAssumption DEF Init, QueueInRange
  <1>2. OneUploadEach /\ SequencesAreCounted
    BY DEF Init, OneUploadEach, SequencesAreCounted, NoRow
  <1> QED BY <1>1, <1>2 DEF TypeInv

LEMMA TypesSuffice == PipelineInv /\ TypeInv => TypeOK
  <1> SUFFICES ASSUME PipelineInv, TypeInv PROVE TypeOK
    OBVIOUS
  <1>1. received \in [Job -> 0..MaxReceive]
    BY PipelineAssumption DEF PipelineInv, TypeInv, TypedBuilders, QueueInRange
  <1>2. sequence \in [Handler -> 0..counter]
    BY DEF PipelineInv, TypeInv, TypedUploads, TypedStore, SequencesAreCounted
  <1>3. row \in [Version -> [image : Image \cup {NoImage}, sequence : 0..counter]]
    <2>1. \A v \in Version : row[v] \in [image : Image \cup {NoImage}, sequence : 0..counter]
      <3> SUFFICES ASSUME NEW v \in Version
                   PROVE  row[v] \in [image : Image \cup {NoImage}, sequence : 0..counter]
        OBVIOUS
      <3>1. /\ row[v] \in [image : Image \cup {NoImage}, sequence : Nat]
            /\ row[v].sequence <= counter /\ counter \in Nat
        BY DEF PipelineInv, TypeInv, TypedStore, SequencesAreCounted
      <3> QED BY <3>1
    <2> QED BY <2>1 DEF PipelineInv, TypedStore
  <1> QED
    BY <1>1, <1>2, <1>3 DEF PipelineInv, TypeInv, TypedBuilders, TypedUploads, TypedStore,
       QueueInRange, OneUploadEach, SequencesAreCounted, TypeOK

\* Faults are counted up, never above their bound.
LEMMA FaultsCounted ==
    ASSUME QueueInRange, Fault \/ UNCHANGED faults
    PROVE  faults' \in 0..MaxFaults /\ faults <= faults' /\ (Fault => faults' # 0)
  BY PipelineAssumption DEF QueueInRange, Fault

LEMMA HandlerFaults ==
    ASSUME NEW h \in Handler, UploadArtifact(h)
    PROVE  UNCHANGED queueVars /\ (Fault \/ UNCHANGED faults)
  BY DEF UploadArtifact, Look, NextSequence, Sign, Create, OpenFile, FillFile, UndoRow,
         Release, RequestFault

LEMMA QueueStep == PipelineInv /\ TypeInv /\ [Next]_vars => QueueInRange'
  <1> SUFFICES ASSUME PipelineInv, TypeInv, [Next]_vars PROVE QueueInRange'
    OBVIOUS
  <1>a. QueueInRange /\ received \in [Job -> Nat]
    BY DEF PipelineInv, TypedBuilders, TypeInv
  <1>1. ASSUME UNCHANGED queueVars, Fault \/ UNCHANGED faults PROVE QueueInRange'
    <2>1. faults' \in 0..MaxFaults
      BY <1>a, <1>1, FaultsCounted
    <2> QED BY <1>a, <1>1, <2>1 DEF QueueInRange, queueVars
  <1>2. ASSUME NEW j \in Job, LeaseExpires(j) PROVE QueueInRange'
    BY <1>a, <1>2 DEF LeaseExpires, QueueInRange
  <1>3. ASSUME NEW j \in Job, NEW v \in Version, Enqueue(j, v) PROVE QueueInRange'
    BY <1>a, <1>3 DEF Enqueue, QueueInRange
  <1>4. ASSUME NEW w \in Worker, NEW j \in Job, Lease(w, j) PROVE QueueInRange'
    <2>1. /\ received[j] \in Nat /\ received[j] < MaxReceive
          /\ received' = [received EXCEPT ![j] = received[j] + 1]
          /\ leased' = [leased EXCEPT ![j] = TRUE]
          /\ UNCHANGED <<jobState, faults>>
      BY <1>a, <1>4 DEF Lease, Visible
    <2>2. \A i \in Job : received'[i] <= MaxReceive
      BY <1>a, <2>1, PipelineAssumption DEF QueueInRange
    <2> QED BY <1>a, <2>1, <2>2 DEF QueueInRange
  <1>5. ASSUME NEW w \in Worker, Complete(w) PROVE QueueInRange'
    <2>1. CASE UNCHANGED <<jobState, received, leased>> /\ Fault
      BY <1>1, <1>5, <2>1 DEF Complete, queueVars
    <2>2. CASE /\ jobState' = [jobState EXCEPT ![work[w][1]] = "done"]
               /\ received' = [received EXCEPT ![work[w][1]] = 0]
               /\ leased' = [leased EXCEPT ![work[w][1]] = FALSE]
               /\ UNCHANGED faults
      <3>1. \A j \in Job : received'[j] = received[j] \/ received'[j] = 0
        BY <1>a, <2>2
      <3>2. \A j \in Job : received'[j] <= MaxReceive
        BY <1>a, <3>1, PipelineAssumption DEF QueueInRange
      <3>3. jobState' \in [Job -> {"none", "queued", "done"}] /\ leased' \in [Job -> BOOLEAN]
        BY <1>a, <2>2 DEF QueueInRange
      <3> QED BY <1>a, <2>2, <3>2, <3>3 DEF QueueInRange
    <2> QED BY <1>5, <2>1, <2>2 DEF Complete
  <1>6. ASSUME NEW w \in Worker, BuildFails(w) \/ WorkerStops(w) PROVE QueueInRange'
    BY <1>1, <1>6 DEF BuildFails, WorkerStops
  <1>7. ASSUME NEW w \in Worker, NEW h \in Handler, Upload(w, h) PROVE QueueInRange'
    BY <1>1, <1>7 DEF Upload, Compiled
  <1>8. ASSUME NEW h \in Handler, UploadArtifact(h) PROVE QueueInRange'
    BY <1>1, <1>8, HandlerFaults
  <1>9. CASE ServerRestart
    BY <1>1, <1>9 DEF ServerRestart
  <1>10. CASE UNCHANGED vars
    BY <1>1, <1>10 DEF vars
  <1> QED
    BY <1>2, <1>3, <1>4, <1>5, <1>6, <1>7, <1>8, <1>9, <1>10 DEF Next, Work

\* A reply is to the builder that waits, and to no other.
LEMMA ReplyWakes ==
    ASSUME PipelineInv, OneUploadEach, NEW h \in Handler, NEW answer, Reply(h, answer)
    PROVE  OneUploadEach'
  <1>1. /\ serves \in [Handler -> Worker \cup {NoWorker}]
        /\ workerPc \in [Worker -> {"idle", "build", "wait", "complete"}]
        /\ serves' = [serves EXCEPT ![h] = NoWorker]
    BY DEF PipelineInv, TypedBuilders, Reply
  <1>2. \A w \in Worker : workerPc'[w] # workerPc[w] => serves[h] # NoWorker /\ serves[h] = w
    BY <1>1 DEF Reply, workerVars, WorkerRests, WorkerGoto
  <1>3. ASSUME NEW g \in Handler, serves'[g] # NoWorker
        PROVE  g # h /\ serves'[g] = serves[g] /\ serves[g] \in Worker /\ serves[g] # NoWorker
    BY <1>1, <1>3
  <1> QED BY <1>1, <1>2, <1>3 DEF OneUploadEach

LEMMA WaitStep == PipelineInv /\ TypeInv /\ [Next]_vars => OneUploadEach'
  <1> SUFFICES ASSUME PipelineInv, TypeInv, [Next]_vars PROVE OneUploadEach'
    OBVIOUS
  <1>a. /\ OneUploadEach /\ serves \in [Handler -> Worker \cup {NoWorker}]
        /\ workerPc \in [Worker -> {"idle", "build", "wait", "complete"}]
    BY DEF PipelineInv, TypedBuilders, TypeInv
  <1>1. ASSUME UNCHANGED <<workerPc, serves>> PROVE OneUploadEach'
    BY <1>a, <1>1 DEF OneUploadEach
  <1>2. ASSUME NEW w \in Worker, workerPc[w] # "wait", NEW p,
               workerPc' = [workerPc EXCEPT ![w] = p], UNCHANGED serves
        PROVE  OneUploadEach'
    BY <1>a, <1>2 DEF OneUploadEach
  <1>3. ASSUME NEW w \in Worker, NEW h \in Handler, Upload(w, h) PROVE OneUploadEach'
    <2>1. /\ workerPc[w] = "build" /\ workerPc' = [workerPc EXCEPT ![w] = "wait"]
          /\ serves' = [serves EXCEPT ![h] = w]
      BY <1>3 DEF Upload, WorkerGoto
    <2> QED BY <1>a, <2>1 DEF OneUploadEach
  <1>4. ASSUME NEW w \in Worker, WorkerStops(w) PROVE OneUploadEach'
    <2>1. /\ workerPc' = [workerPc EXCEPT ![w] = "idle"]
          /\ serves' = [h \in Handler |-> IF serves[h] = w THEN NoWorker ELSE serves[h]]
      BY <1>4 DEF WorkerStops, WorkerRests, WorkerGoto
    <2> QED BY <1>a, <2>1 DEF OneUploadEach
  <1>5. ASSUME NEW h \in Handler, UploadArtifact(h) PROVE OneUploadEach'
    <2>1. ASSUME NEW p, Proceed(h, p) PROVE OneUploadEach'
      BY <1>1, <2>1 DEF Proceed, workerVars
    <2>2. ASSUME NEW answer, Reply(h, answer) PROVE OneUploadEach'
      BY <1>a, <2>2, ReplyWakes
    <2> QED
      BY <1>5, <2>1, <2>2 DEF UploadArtifact, Look, NextSequence, Sign, Create, OpenFile,
         FillFile, UndoRow, Release
  <1>6. CASE ServerRestart
    BY <1>6 DEF ServerRestart, OneUploadEach
  <1>7. ASSUME NEW w \in Worker, Work(w) PROVE OneUploadEach'
    <2>1. CASE BuildFails(w)
      BY <1>2, <2>1 DEF BuildFails, WorkerRests, WorkerGoto, uploadVars
    <2>2. CASE Complete(w)
      BY <1>2, <2>2 DEF Complete, WorkerRests, WorkerGoto, uploadVars
    <2>3. ASSUME NEW j \in Job, Lease(w, j) PROVE OneUploadEach'
      BY <1>2, <2>3 DEF Lease, WorkerGoto, uploadVars
    <2> QED BY <1>3, <1>7, <2>1, <2>2, <2>3 DEF Work
  <1>8. ASSUME NEW j \in Job, LeaseExpires(j) \/ \E v \in Version : Enqueue(j, v)
        PROVE  OneUploadEach'
    BY <1>1, <1>8 DEF LeaseExpires, Enqueue, workerVars, uploadVars
  <1>9. CASE UNCHANGED vars
    BY <1>1, <1>9 DEF vars, workerVars, uploadVars
  <1> QED
    BY <1>4, <1>5, <1>6, <1>7, <1>8, <1>9 DEF Next

\* A handler that replies, or that goes on with the sequence it has, counts nothing.
LEMMA SequencesStay ==
    ASSUME PipelineInv, SequencesAreCounted, NEW h \in Handler, NEW p,
           handlerPc' = [handlerPc EXCEPT ![h] = p],
           \/ sequence' = [sequence EXCEPT ![h] = 0] /\ p = "idle"
           \/ /\ UNCHANGED sequence
              /\ handlerPc[h] \in {"sign", "create", "open", "fill", "undo", "release"}
                   \/ p \in {"idle", "count"},
           UNCHANGED counter,
           \A v \in Version : row'[v].sequence <= counter,
           signed' \subseteq (1..counter) \X Image,
           released' \subseteq Version \X Image \X (1..counter)
    PROVE  SequencesAreCounted'
  <1>1. /\ handlerPc \in [Handler -> {"idle", "look", "count", "sign", "create", "open", "fill",
                                      "undo", "release"}]
        /\ sequence \in [Handler -> Nat] /\ counter \in Nat
    BY DEF PipelineInv, TypedUploads, TypedStore
  <1> QED BY <1>1 DEF SequencesAreCounted

LEMMA CountStep == PipelineInv /\ TypeInv /\ [Next]_vars => SequencesAreCounted'
  <1> SUFFICES ASSUME PipelineInv, TypeInv, [Next]_vars PROVE SequencesAreCounted'
    OBVIOUS
  <1>a. /\ SequencesAreCounted /\ sequence \in [Handler -> Nat] /\ counter \in Nat
        /\ handlerPc \in [Handler -> {"idle", "look", "count", "sign", "create", "open", "fill",
                                      "undo", "release"}]
        /\ row \in [Version -> [image : Image \cup {NoImage}, sequence : Nat]]
        /\ \A h \in Handler : handlerPc[h] # "idle" => up[h] \in Image /\ upVersion[h] \in Version
    BY DEF PipelineInv, TypedUploads, TypedStore, TypeInv
  <1>1. ASSUME UNCHANGED uploadState, UNCHANGED storeVars PROVE SequencesAreCounted'
    BY <1>a, <1>1 DEF SequencesAreCounted, uploadState, storeVars
  <1>2. ASSUME NEW h \in Handler, UploadArtifact(h) PROVE SequencesAreCounted'
    <2>1. ASSUME NEW answer, Reply(h, answer), UNCHANGED <<row, counter, signed, released>>
          PROVE  SequencesAreCounted'
      BY <1>a, <2>1, SequencesStay DEF Reply, Goto, SequencesAreCounted
    <2>2. ASSUME NEW p \in {"fill", "undo", "release"}, Proceed(h, p), UNCHANGED sequence,
                 handlerPc[h] \in {"open", "fill"}, UNCHANGED <<row, counter, signed, released>>
          PROVE  SequencesAreCounted'
      BY <1>a, <2>2, SequencesStay DEF Proceed, Goto, SequencesAreCounted
    <2>3. CASE Look(h)
      <3>1. CASE Proceed(h, "count") /\ UNCHANGED sequence
        BY <1>a, <2>3, <3>1, SequencesStay DEF Look, Proceed, Goto, SequencesAreCounted, storeVars
      <3> QED BY <2>1, <2>3, <3>1 DEF Look, storeVars
    <2>4. CASE NextSequence(h)
      <3>1. CASE /\ counter' = counter + 1 /\ sequence' = [sequence EXCEPT ![h] = counter + 1]
                 /\ Proceed(h, "sign")
        <4>1. /\ handlerPc' = [handlerPc EXCEPT ![h] = "sign"]
              /\ UNCHANGED <<row, signed, released>>
          BY <2>4, <3>1 DEF Proceed, Goto, NextSequence
        <4>2. \A n \in 1..counter : n \in 1..counter'
          BY <1>a, <3>1
        <4>3. /\ signed' \subseteq (1..counter') \X Image
              /\ released' \subseteq Version \X Image \X (1..counter')
          BY <1>a, <4>1, <4>2 DEF SequencesAreCounted
        <4>4. \A v \in Version : row'[v].sequence <= counter'
          <5> SUFFICES ASSUME NEW v \in Version PROVE row[v].sequence <= counter + 1
            BY <3>1, <4>1
          <5>1. row[v].sequence \in Nat /\ row[v].sequence <= counter
            BY <1>a DEF SequencesAreCounted
          <5> QED BY <1>a, <5>1
        <4>5. \A g \in Handler :
                 /\ sequence'[g] <= counter'
                 /\ handlerPc'[g] \in {"sign", "create", "open", "fill", "undo", "release"}
                      => 1 <= sequence'[g]
          BY <1>a, <3>1, <4>1 DEF SequencesAreCounted
        <4> QED BY <4>3, <4>4, <4>5 DEF SequencesAreCounted
      <3> QED BY <2>1, <2>4, <3>1 DEF NextSequence
    <2>5. CASE Sign(h)
      <3>1. /\ handlerPc[h] = "sign" /\ signed' = signed \cup {<<sequence[h], up[h]>>}
            /\ UNCHANGED <<row, counter, released>>
        BY <2>5 DEF Sign
      <3>2. sequence[h] \in 1..counter /\ up[h] \in Image
        BY <1>a, <3>1 DEF SequencesAreCounted
      <3>3. signed' \subseteq (1..counter) \X Image
        BY <1>a, <3>1, <3>2 DEF SequencesAreCounted
      <3>4. CASE Proceed(h, "create") /\ UNCHANGED sequence
        BY <1>a, <3>1, <3>3, <3>4, SequencesStay DEF Proceed, Goto, SequencesAreCounted
      <3>5. CASE Reply(h, "error")
        BY <1>a, <3>1, <3>3, <3>5, SequencesStay DEF Reply, Goto, SequencesAreCounted
      <3> QED BY <2>5, <3>4, <3>5 DEF Sign
    <2>6. CASE Create(h)
      <3>1. CASE /\ row' = [row EXCEPT ![upVersion[h]] = [image |-> up[h], sequence |-> sequence[h]]]
                 /\ Proceed(h, "open") /\ UNCHANGED sequence
        <4>1. handlerPc[h] = "create" /\ UNCHANGED <<counter, signed, released>>
          BY <2>6 DEF Create
        <4>2. \A v \in Version : row'[v].sequence <= counter
          BY <1>a, <3>1, <4>1 DEF SequencesAreCounted
        <4> QED
          BY <1>a, <3>1, <4>1, <4>2, SequencesStay DEF Proceed, Goto, SequencesAreCounted
      <3> QED BY <2>1, <2>6, <3>1 DEF Create
    <2>7. CASE OpenFile(h)
      BY <2>2, <2>7 DEF OpenFile
    <2>8. CASE FillFile(h)
      BY <2>2, <2>8 DEF FillFile
    <2>9. CASE UndoRow(h)
      <3>1. /\ handlerPc[h] = "undo" /\ Reply(h, "error") /\ UNCHANGED <<counter, signed, released>>
        BY <2>9 DEF UndoRow
      <3>2. \A v \in Version : row'[v].sequence <= counter
        <4>1. CASE UNCHANGED row
          BY <1>a, <4>1 DEF SequencesAreCounted
        <4>2. CASE row' = [row EXCEPT ![upVersion[h]] = NoRow]
          BY <1>a, <3>1, <4>2 DEF SequencesAreCounted, NoRow
        <4> QED BY <2>9, <4>1, <4>2 DEF UndoRow
      <3> QED BY <1>a, <3>1, <3>2, SequencesStay DEF Reply, Goto, SequencesAreCounted
    <2>10. CASE Release(h)
      <3>1. /\ handlerPc[h] = "release" /\ Reply(h, "created")
            /\ released' = released \cup {<<upVersion[h], up[h], sequence[h]>>}
            /\ UNCHANGED <<row, counter, signed>>
        BY <2>10 DEF Release
      <3>2. sequence[h] \in 1..counter /\ up[h] \in Image /\ upVersion[h] \in Version
        BY <1>a, <3>1 DEF SequencesAreCounted
      <3>3. released' \subseteq Version \X Image \X (1..counter)
        BY <1>a, <3>1, <3>2 DEF SequencesAreCounted
      <3> QED BY <1>a, <3>1, <3>3, SequencesStay DEF Reply, Goto, SequencesAreCounted
    <2> QED
      BY <1>2, <2>3, <2>4, <2>5, <2>6, <2>7, <2>8, <2>9, <2>10 DEF UploadArtifact
  <1>3. ASSUME NEW w \in Worker, NEW h \in Handler, Upload(w, h) PROVE SequencesAreCounted'
    <2>1. /\ handlerPc' = [handlerPc EXCEPT ![h] = "look"]
          /\ UNCHANGED <<sequence, row, counter, signed, released>>
      BY <1>3 DEF Upload, Goto, storeVars
    <2> QED BY <1>a, <2>1 DEF SequencesAreCounted
  <1>4. ASSUME NEW w \in Worker, Work(w) \/ WorkerStops(w) PROVE SequencesAreCounted'
    BY <1>1, <1>3, <1>4 DEF Work, BuildFails, Complete, Lease, WorkerStops, uploadVars, uploadState
  <1>5. ASSUME NEW j \in Job, LeaseExpires(j) \/ \E v \in Version : Enqueue(j, v)
        PROVE  SequencesAreCounted'
    BY <1>1, <1>5 DEF LeaseExpires, Enqueue, uploadVars, uploadState
  <1>6. CASE ServerRestart
    <2>1. /\ handlerPc' = [h \in Handler |-> "idle"] /\ sequence' = [h \in Handler |-> 0]
          /\ UNCHANGED <<row, counter, signed, released>>
      BY <1>6 DEF ServerRestart, storeVars
    <2> QED BY <1>a, <2>1 DEF SequencesAreCounted
  <1>7. CASE UNCHANGED vars
    BY <1>1, <1>7 DEF vars, uploadVars, uploadState
  <1> QED
    BY <1>2, <1>4, <1>5, <1>6, <1>7 DEF Next

\* Every reachable state is well typed: a job is handed out MaxReceive times at most,
\* nothing bears a sequence that NextSequence has not counted, and a builder that is
\* answered waits for that answer.
THEOREM PipelineTypeCorrect == Spec => []TypeOK
  <1> DEFINE Inv == PipelineInv /\ TypeInv
  <1>1. Init => Inv
    BY InitInv, InitTypes
  <1>2. Inv /\ [Next]_vars => Inv'
    BY StepInv, QueueStep, WaitStep, CountStep DEF TypeInv
  <1>3. Inv => TypeOK
    BY TypesSuffice
  <1> QED BY <1>1, <1>2, <1>3, PTL DEF Spec

-----------------------------------------------------------------------------
(* A job that is done was published. A builder completes a job when its own  *)
(* upload or an earlier one has stored the version: so the upload that the   *)
(* builder waits for must be of the version of its job, a conflict must mean *)
(* a row that stays, and a row must not be undone. Rows are undone only when *)
(* the file cannot be written, and without faults that would take a file of  *)
(* a version that has no row.                                                *)

\* A builder that is not idle has a job that was enqueued.
BuildersHaveJobs ==
    \A w \in Worker : workerPc[w] # "idle" => work[w] \in Image /\ jobState[work[w][1]] # "none"

UploadsAreOfTheJob ==
    \A h \in Handler : handlerPc[h] # "idle" /\ serves[h] # NoWorker =>
        upVersion[h] = version[work[serves[h]][1]]

RowsComeBeforeFiles ==
    /\ \A v \in Version : row[v] = NoRow => file[v] = NoFile
    /\ \A h \in Handler : /\ handlerPc[h] # "undo"
                          /\ handlerPc[h] = "open" => file[upVersion[h]] = NoFile

CompletedIsPublished ==
    \A w \in Worker : workerPc[w] = "complete" => row[version[work[w][1]]] # NoRow

PublishInv ==
    /\ BuildersHaveJobs
    /\ faults = 0 => UploadsAreOfTheJob /\ RowsComeBeforeFiles /\ CompletedIsPublished
    /\ DoneIsPublished

FullInv == PipelineInv /\ TypeInv /\ PublishInv

LEMMA InitPublish == Init => PublishInv
  BY DEF Init, PublishInv, BuildersHaveJobs, UploadsAreOfTheJob, RowsComeBeforeFiles,
     CompletedIsPublished, DoneIsPublished

LEMMA JobsOfBuilders ==
    ASSUME NEW i \in Image PROVE i[1] \in Job
  BY DEF Image

\* A builder takes a job, waits for one, or drops it: it never has one unknown.
LEMMA JobsStep == FullInv /\ [Next]_vars => BuildersHaveJobs'
  <1> SUFFICES ASSUME FullInv, [Next]_vars PROVE BuildersHaveJobs'
    OBVIOUS
  <1>a. /\ BuildersHaveJobs /\ jobState \in [Job -> {"none", "queued", "done"}]
        /\ workerPc \in [Worker -> {"idle", "build", "wait", "complete"}]
        /\ work \in [Worker -> Image \cup {NoImage}]
        /\ serves \in [Handler -> Worker \cup {NoWorker}] /\ OneUploadEach
    BY DEF FullInv, PipelineInv, TypedBuilders, TypeInv, QueueInRange, PublishInv
  <1>b. TypedBuilders'
    BY StepInv DEF FullInv, PipelineInv
  <1>1. ASSUME \A j \in Job : jobState[j] # "none" => jobState'[j] # "none",
               \A w \in Worker : workerPc'[w] # "idle" =>
                  workerPc[w] # "idle" /\ work'[w] = work[w]
        PROVE  BuildersHaveJobs'
    BY <1>a, <1>1, JobsOfBuilders DEF BuildersHaveJobs
  <1>2. ASSUME NEW w \in Worker, NEW j \in Job, Lease(w, j) PROVE BuildersHaveJobs'
    <2>1. /\ jobState[j] = "queued" /\ UNCHANGED jobState
          /\ work' = [work EXCEPT ![w] = <<j, received'[j]>>]
          /\ workerPc' = [workerPc EXCEPT ![w] = "build"]
      BY <1>2 DEF Lease, Visible, WorkerGoto
    <2>2. work'[w] \in Image /\ work'[w][1] = j
      BY <1>a, <1>b, <2>1 DEF TypedBuilders
    <2> QED BY <1>a, <2>1, <2>2 DEF BuildersHaveJobs
  <1>3. ASSUME NEW w \in Worker, Work(w) \/ WorkerStops(w) PROVE BuildersHaveJobs'
    <2>1. CASE BuildFails(w) \/ WorkerStops(w)
      BY <1>1, <1>a, <2>1 DEF BuildFails, WorkerStops, WorkerRests, WorkerGoto, queueVars
    <2>2. CASE Complete(w)
      <3>1. \A j \in Job : jobState'[j] = jobState[j] \/ jobState'[j] = "done"
        BY <1>a, <2>2 DEF Complete
      <3>2. WorkerRests(w)
        BY <2>2 DEF Complete
      <3> QED BY <1>1, <1>a, <3>1, <3>2 DEF WorkerRests, WorkerGoto
    <2>3. ASSUME NEW h \in Handler, Upload(w, h) PROVE BuildersHaveJobs'
      BY <1>1, <1>a, <2>3 DEF Upload, WorkerGoto, queueVars
    <2> QED BY <1>2, <1>3, <2>1, <2>2, <2>3 DEF Work
  <1>4. ASSUME NEW j \in Job, LeaseExpires(j) \/ \E v \in Version : Enqueue(j, v)
        PROVE  BuildersHaveJobs'
    BY <1>1, <1>a, <1>4 DEF LeaseExpires, Enqueue, workerVars
  <1>5. ASSUME NEW h \in Handler, UploadArtifact(h) PROVE BuildersHaveJobs'
    <2>1. UNCHANGED jobState
      BY <1>5, HandlerFaults DEF queueVars
    <2>2. ASSUME NEW p, Proceed(h, p) PROVE BuildersHaveJobs'
      BY <1>1, <2>1, <2>2 DEF Proceed, workerVars
    <2>3. ASSUME NEW answer, Reply(h, answer) PROVE BuildersHaveJobs'
      <3>1. CASE UNCHANGED workerVars
        BY <1>1, <2>1, <3>1 DEF workerVars
      <3>2. CASE serves[h] # NoWorker /\ WorkerRests(serves[h])
        BY <1>1, <1>a, <2>1, <3>2 DEF WorkerRests, WorkerGoto
      <3>3. CASE serves[h] # NoWorker /\ WorkerGoto(serves[h], "complete") /\ UNCHANGED work
        BY <1>1, <1>a, <2>1, <3>3 DEF WorkerGoto, OneUploadEach
      <3> QED BY <2>3, <3>1, <3>2, <3>3 DEF Reply
    <2> QED
      BY <1>5, <2>2, <2>3 DEF UploadArtifact, Look, NextSequence, Sign, Create, OpenFile,
         FillFile, UndoRow, Release
  <1>6. CASE ServerRestart
    BY <1>1, <1>a, <1>6 DEF ServerRestart, queueVars
  <1>7. CASE UNCHANGED vars
    BY <1>1, <1>7 DEF vars, queueVars, workerVars
  <1> QED BY <1>3, <1>4, <1>5, <1>6, <1>7 DEF Next

Quietly == faults' = 0 /\ ~Fault

\* Faults do not become fewer.
LEMMA QuietSoFar ==
    ASSUME FullInv, [Next]_vars, faults' = 0 PROVE faults = 0 /\ Quietly
  <1>1. faults \in Nat
    BY DEF FullInv, TypeInv, QueueInRange
  <1>2. faults' = faults \/ Fault
    BY HandlerFaults DEF Next, Work, BuildFails, Complete, Lease, Upload, Compiled, WorkerStops,
       LeaseExpires, Enqueue, ServerRestart, vars
  <1>3. ~Fault
    BY <1>1 DEF Fault
  <1> QED BY <1>1, <1>2, <1>3 DEF Quietly

\* Without faults, a step of a handler leaves every row it finds, keeps files behind
\* rows, and wakes a builder for success only when the version it sent has a row.
LEMMA HandlerPublishes ==
    ASSUME FullInv, NEW h \in Handler, UploadArtifact(h), Quietly, faults = 0
    PROVE  /\ \A v \in Version : row[v] # NoRow => row'[v] # NoRow
           /\ RowsComeBeforeFiles'
           /\ \/ \E p : handlerPc[h] # "idle" /\ Proceed(h, p)
              \/ \E answer : /\ handlerPc[h] # "idle" /\ Reply(h, answer)
                             /\ serves[h] # NoWorker /\ answer # "error" => row'[upVersion[h]] # NoRow
  <1> DEFINE Rows == \A v \in Version : row[v] # NoRow => row'[v] # NoRow
             Files == RowsComeBeforeFiles'
             Goes == \E p : handlerPc[h] # "idle" /\ Proceed(h, p)
             Leaves == \E answer :
                          /\ handlerPc[h] # "idle" /\ Reply(h, answer)
                          /\ serves[h] # NoWorker /\ answer # "error" => row'[upVersion[h]] # NoRow
  <1>a. /\ RowsComeBeforeFiles /\ RowsHaveOneOwner
        /\ handlerPc \in [Handler -> {"idle", "look", "count", "sign", "create", "open", "fill",
                                      "undo", "release"}]
        /\ row \in [Version -> [image : Image \cup {NoImage}, sequence : Nat]]
        /\ file \in [Version -> Image \cup {NoFile, Torn}]
        /\ upVersion \in [Handler -> Version \cup {0}]
        /\ \A g \in Handler : handlerPc[g] # "idle" => up[g] \in Image /\ upVersion[g] \in Version
    BY DEF FullInv, PipelineInv, TypedUploads, TypedStore, PublishInv
  <1>c. ASSUME NEW i \in Image, NEW s PROVE [image |-> i, sequence |-> s] # NoRow
    BY NoImageIsNone DEF NoRow
  <1>b. \A g \in Handler : Owns(g) => row[upVersion[g]] # NoRow
    <2> SUFFICES ASSUME NEW g \in Handler, Owns(g) PROVE row[upVersion[g]] # NoRow
      OBVIOUS
    <2>1. row[upVersion[g]] = [image |-> up[g], sequence |-> sequence[g]] /\ up[g] \in Image
      BY <1>a DEF Owns, RowsHaveOneOwner
    <2> QED BY <2>1, <1>c
  <1>d. ~Fault
    BY DEF Quietly
  \* steps that touch neither rows nor files
  <1>1. ASSUME UNCHANGED <<row, file>>, NEW p \in {"idle", "count", "sign", "create", "fill", "release"},
               handlerPc' = [handlerPc EXCEPT ![h] = p], \A g \in Handler : g # h => upVersion'[g] = upVersion[g]
        PROVE  Rows /\ Files
    BY <1>a, <1>1 DEF RowsComeBeforeFiles
  <1>2. ASSUME UNCHANGED <<row, file>>, NEW answer, Reply(h, answer) PROVE Rows /\ Files
    <2>1. /\ handlerPc' = [handlerPc EXCEPT ![h] = "idle"]
          /\ upVersion' = [upVersion EXCEPT ![h] = 0]
      BY <1>2 DEF Reply, Goto
    <2> QED BY <1>1, <1>2, <1>a, <2>1
  <1>3. ASSUME UNCHANGED <<row, file>>, NEW p \in {"count", "sign", "create"}, Proceed(h, p)
        PROVE Rows /\ Files
    BY <1>1, <1>3 DEF Proceed, Goto
  <1>4. CASE Look(h)
    <2>1. handlerPc[h] = "look" /\ UNCHANGED <<row, file>>
      BY <1>4 DEF Look, storeVars
    <2>2. CASE row[upVersion[h]] # NoRow /\ Reply(h, "conflict")
      BY <1>2, <2>1, <2>2
    <2>3. CASE Proceed(h, "count")
      BY <1>3, <2>1, <2>3
    <2>4. CASE Reply(h, "error")
      BY <1>2, <2>1, <2>4
    <2> QED BY <1>4, <2>2, <2>3, <2>4 DEF Look
  <1>5. CASE NextSequence(h)
    <2>1. handlerPc[h] = "count" /\ UNCHANGED <<row, file>>
      BY <1>5 DEF NextSequence
    <2>2. CASE Proceed(h, "sign")
      BY <1>3, <2>1, <2>2
    <2>3. CASE Reply(h, "error")
      BY <1>2, <2>1, <2>3
    <2> QED BY <1>5, <2>2, <2>3 DEF NextSequence
  <1>6. CASE Sign(h)
    <2>1. handlerPc[h] = "sign" /\ UNCHANGED <<row, file>>
      BY <1>6 DEF Sign
    <2>2. CASE Proceed(h, "create")
      BY <1>3, <2>1, <2>2
    <2>3. CASE Reply(h, "error")
      BY <1>2, <2>1, <2>3
    <2> QED BY <1>6, <2>2, <2>3 DEF Sign
  <1>7. CASE Create(h)
    <2>1. handlerPc[h] = "create" /\ UNCHANGED file /\ up[h] \in Image /\ upVersion[h] \in Version
      BY <1>7, <1>a DEF Create
    <2>2. CASE /\ row[upVersion[h]] = NoRow /\ Proceed(h, "open")
               /\ row' = [row EXCEPT ![upVersion[h]] = [image |-> up[h], sequence |-> sequence[h]]]
      <3>1. /\ handlerPc' = [handlerPc EXCEPT ![h] = "open"] /\ UNCHANGED <<upVersion>>
        BY <2>2 DEF Proceed, Goto
      <3>2. row'[upVersion[h]] # NoRow /\ \A v \in Version : v # upVersion[h] => row'[v] = row[v]
        BY <1>a, <1>c, <2>1, <2>2
      <3>3. file[upVersion[h]] = NoFile
        BY <1>a, <2>1, <2>2 DEF RowsComeBeforeFiles
      <3>4. Files
        BY <1>a, <2>1, <3>1, <3>2, <3>3 DEF RowsComeBeforeFiles
      <3> QED BY <2>1, <2>2, <3>2, <3>4
    <2>3. CASE row[upVersion[h]] # NoRow /\ Reply(h, "conflict") /\ UNCHANGED row
      BY <1>2, <2>1, <2>3
    <2>4. CASE Reply(h, "error") /\ UNCHANGED row
      BY <1>2, <2>1, <2>4
    <2> QED BY <1>7, <2>2, <2>3, <2>4 DEF Create
  \* the owner of a row writes its file
  <1>8. ASSUME Owns(h), UNCHANGED row, NEW f, file' = [file EXCEPT ![upVersion[h]] = f],
               NEW p \in {"fill", "release"}, Proceed(h, p)
        PROVE  Rows /\ Files
    <2>1. handlerPc' = [handlerPc EXCEPT ![h] = p] /\ UNCHANGED upVersion
      BY <1>8 DEF Proceed, Goto
    <2>2. upVersion[h] \in Version /\ row[upVersion[h]] # NoRow
      BY <1>8, <1>a, <1>b DEF Owns
    <2>3. \A v \in Version : v # upVersion[h] => file'[v] = file[v]
      BY <1>8, <1>a
    <2>4. \A v \in Version : row'[v] = NoRow => file'[v] = NoFile
      BY <1>8, <1>a, <2>2, <2>3 DEF RowsComeBeforeFiles
    <2>5. ASSUME NEW g \in Handler
          PROVE  handlerPc'[g] # "undo" /\ (handlerPc'[g] = "open" => file'[upVersion[g]] = NoFile)
      <3>1. CASE g = h
        BY <1>a, <2>1, <3>1
      <3>2. CASE g # h
        <4>1. handlerPc'[g] = handlerPc[g]
          BY <1>a, <2>1, <3>2
        <4>2. handlerPc[g] = "open" => upVersion[g] \in Version /\ upVersion[g] # upVersion[h]
          BY <1>8, <1>a, <3>2 DEF RowsHaveOneOwner, Owns
        <4> QED BY <1>a, <2>3, <4>1, <4>2 DEF RowsComeBeforeFiles
      <3> QED BY <3>1, <3>2
    <2> QED BY <1>8, <2>1, <2>4, <2>5 DEF RowsComeBeforeFiles
  <1>9. CASE OpenFile(h)
    <2>1. handlerPc[h] = "open" /\ Owns(h) /\ file[upVersion[h]] = NoFile /\ UNCHANGED row
      BY <1>9, <1>a DEF OpenFile, Owns, RowsComeBeforeFiles
    <2>2. file' = [file EXCEPT ![upVersion[h]] = Torn] /\ Proceed(h, "fill")
      BY <1>9, <1>d, <2>1 DEF OpenFile
    <2> QED BY <1>8, <2>1, <2>2
  <1>10. CASE FillFile(h)
    <2>1. handlerPc[h] = "fill" /\ Owns(h) /\ UNCHANGED row
      BY <1>10, <1>a DEF FillFile, Owns
    <2>2. file' = [file EXCEPT ![upVersion[h]] = up[h]] /\ Proceed(h, "release")
      BY <1>10, <1>d DEF FillFile
    <2> QED BY <1>8, <2>1, <2>2
  <1>11. CASE UndoRow(h)
    BY <1>11, <1>a DEF UndoRow, RowsComeBeforeFiles
  <1>12. CASE Release(h)
    <2>1. handlerPc[h] = "release" /\ Owns(h) /\ UNCHANGED <<row, file>> /\ Reply(h, "created")
      BY <1>12 DEF Release, Owns
    <2> QED BY <1>2, <1>b, <2>1
  <1> QED
    BY <1>4, <1>5, <1>6, <1>7, <1>9, <1>10, <1>11, <1>12 DEF UploadArtifact

\* Without faults no builder is told "error", and nothing is undone.
LEMMA PublishStep ==
    ASSUME FullInv, [Next]_vars, BuildersHaveJobs'
    PROVE  PublishInv'
  <1> SUFFICES ASSUME faults' = 0
               PROVE  /\ UploadsAreOfTheJob' /\ RowsComeBeforeFiles' /\ CompletedIsPublished'
                      /\ DoneIsPublished'
    BY DEF PublishInv, DoneIsPublished
  <1> DEFINE Goal == /\ UploadsAreOfTheJob' /\ RowsComeBeforeFiles' /\ CompletedIsPublished'
                     /\ DoneIsPublished'
  <1>a. /\ BuildersHaveJobs /\ UploadsAreOfTheJob /\ RowsComeBeforeFiles /\ CompletedIsPublished
        /\ DoneIsPublished /\ faults = 0 /\ Quietly
        /\ jobState \in [Job -> {"none", "queued", "done"}] /\ version \in [Job -> Version]
        /\ workerPc \in [Worker -> {"idle", "build", "wait", "complete"}]
        /\ work \in [Worker -> Image \cup {NoImage}]
        /\ serves \in [Handler -> Worker \cup {NoWorker}] /\ OneUploadEach
        /\ handlerPc \in [Handler -> {"idle", "look", "count", "sign", "create", "open", "fill",
                                      "undo", "release"}]
        /\ upVersion \in [Handler -> Version \cup {0}]
    BY QuietSoFar DEF FullInv, PipelineInv, TypedBuilders, TypedUploads, TypeInv, QueueInRange,
       PublishInv
  <1>b. ~Fault
    BY <1>a DEF Quietly
  <1>c. \A w \in Worker : workerPc[w] # "idle" => work[w][1] \in Job
    BY <1>a, JobsOfBuilders DEF BuildersHaveJobs
  \* builders that give up, and steps that concern nobody
  <1>1. ASSUME UNCHANGED <<version, row, file, handlerPc, upVersion>>,
               \A j \in Job : jobState'[j] = "done" => jobState[j] = "done",
               \A w \in Worker : workerPc'[w] # "idle" =>
                  /\ workerPc[w] # "idle" /\ work'[w] = work[w]
                  /\ workerPc'[w] = "complete" => workerPc[w] = "complete",
               \A h \in Handler : serves'[h] # NoWorker =>
                  /\ serves'[h] = serves[h] /\ work'[serves[h]] = work[serves[h]]
        PROVE  Goal
    <2>1. UploadsAreOfTheJob'
      BY <1>a, <1>1 DEF UploadsAreOfTheJob
    <2>2. RowsComeBeforeFiles'
      BY <1>a, <1>1 DEF RowsComeBeforeFiles
    <2>3. CompletedIsPublished'
      BY <1>a, <1>1 DEF CompletedIsPublished
    <2>4. DoneIsPublished'
      BY <1>a, <1>1 DEF DoneIsPublished
    <2> QED BY <2>1, <2>2, <2>3, <2>4
  <1>2. ASSUME NEW j \in Job, NEW v \in Version, Enqueue(j, v) PROVE Goal
    <2>1. /\ jobState[j] = "none" /\ jobState' = [jobState EXCEPT ![j] = "queued"]
          /\ version' = [version EXCEPT ![j] = v]
          /\ UNCHANGED <<row, file, handlerPc, upVersion, serves, workerPc, work>>
      BY <1>2 DEF Enqueue, workerVars, uploadVars, storeVars
    <2>2. \A w \in Worker : workerPc[w] # "idle" => version'[work[w][1]] = version[work[w][1]]
      BY <1>a, <1>c, <2>1 DEF BuildersHaveJobs
    <2>3. \A h \in Handler : serves[h] # NoWorker => serves[h] \in Worker /\ workerPc[serves[h]] = "wait"
      BY <1>a DEF OneUploadEach
    <2>4. UploadsAreOfTheJob'
      BY <1>a, <2>1, <2>2, <2>3 DEF UploadsAreOfTheJob
    <2>5. RowsComeBeforeFiles' /\ CompletedIsPublished'
      BY <1>a, <2>1, <2>2 DEF RowsComeBeforeFiles, CompletedIsPublished
    <2>6. DoneIsPublished'
      BY <1>a, <2>1 DEF DoneIsPublished
    <2> QED BY <2>4, <2>5, <2>6
  <1>3. ASSUME NEW w \in Worker, NEW j \in Job, Lease(w, j) PROVE Goal
    <2>1. /\ workerPc[w] = "idle" /\ workerPc' = [workerPc EXCEPT ![w] = "build"]
          /\ work' = [work EXCEPT ![w] = <<j, received'[j]>>]
          /\ UNCHANGED <<row, file, handlerPc, upVersion, serves, jobState, version>>
      BY <1>3 DEF Lease, WorkerGoto, uploadVars, storeVars
    <2>2. \A x \in Worker : x # w => workerPc'[x] = workerPc[x] /\ work'[x] = work[x]
      BY <1>a, <2>1
    <2>3. \A h \in Handler : serves[h] # NoWorker => serves[h] \in Worker \ {w}
      BY <1>a, <2>1 DEF OneUploadEach
    <2>4. UploadsAreOfTheJob'
      BY <1>a, <2>1, <2>2, <2>3 DEF UploadsAreOfTheJob
    <2>5. RowsComeBeforeFiles' /\ DoneIsPublished'
      BY <1>a, <2>1 DEF RowsComeBeforeFiles, DoneIsPublished
    <2>6. CompletedIsPublished'
      BY <1>a, <2>1, <2>2 DEF CompletedIsPublished
    <2> QED BY <2>4, <2>5, <2>6
  <1>4. ASSUME NEW w \in Worker, Complete(w) PROVE Goal
    <2>1. /\ workerPc[w] = "complete" /\ jobState' = [jobState EXCEPT ![work[w][1]] = "done"]
          /\ workerPc' = [workerPc EXCEPT ![w] = "idle"] /\ work' = [work EXCEPT ![w] = NoImage]
          /\ UNCHANGED <<version, row, file, handlerPc, upVersion, serves>>
      BY <1>4, <1>b DEF Complete, WorkerRests, WorkerGoto, uploadVars, storeVars
    <2>2. \A x \in Worker : x # w => workerPc'[x] = workerPc[x] /\ work'[x] = work[x]
      BY <1>a, <2>1
    <2>3. \A h \in Handler : serves[h] # NoWorker => serves[h] \in Worker \ {w}
      BY <1>a, <2>1 DEF OneUploadEach
    <2>4. UploadsAreOfTheJob'
      BY <1>a, <2>1, <2>2, <2>3 DEF UploadsAreOfTheJob
    <2>5. RowsComeBeforeFiles'
      BY <1>a, <2>1 DEF RowsComeBeforeFiles
    <2>6. CompletedIsPublished'
      BY <1>a, <2>1, <2>2 DEF CompletedIsPublished
    <2>7. DoneIsPublished'
      BY <1>a, <1>c, <2>1 DEF DoneIsPublished, CompletedIsPublished
    <2> QED BY <2>4, <2>5, <2>6, <2>7
  <1>5. ASSUME NEW w \in Worker, NEW h \in Handler, Upload(w, h) PROVE Goal
    <2>1. PICK j \in Job : Compiled(w, j) /\ upVersion' = [upVersion EXCEPT ![h] = version[j]]
      BY <1>5 DEF Upload
    <2>2. j = work[w][1]
      BY <1>b, <2>1 DEF Compiled
    <2>3. /\ workerPc[w] = "build" /\ workerPc' = [workerPc EXCEPT ![w] = "wait"]
          /\ handlerPc[h] = "idle" /\ handlerPc' = [handlerPc EXCEPT ![h] = "look"]
          /\ serves' = [serves EXCEPT ![h] = w]
          /\ UNCHANGED <<jobState, version, row, file, work>>
      BY <1>5 DEF Upload, WorkerGoto, Goto, queueVars, storeVars
    <2>4. UploadsAreOfTheJob'
      BY <1>a, <2>1, <2>2, <2>3 DEF UploadsAreOfTheJob
    <2>5. RowsComeBeforeFiles'
      BY <1>a, <2>1, <2>3 DEF RowsComeBeforeFiles
    <2>6. CompletedIsPublished' /\ DoneIsPublished'
      BY <1>a, <2>3 DEF CompletedIsPublished, DoneIsPublished
    <2> QED BY <2>4, <2>5, <2>6
  <1>6. ASSUME NEW w \in Worker, BuildFails(w) PROVE Goal
    <2>1. \A h \in Handler : serves[h] # NoWorker => serves[h] \in Worker \ {w}
      BY <1>a, <1>6 DEF OneUploadEach, BuildFails
    <2> QED
      BY <1>1, <1>a, <1>6, <2>1 DEF BuildFails, WorkerRests, WorkerGoto, queueVars, uploadVars,
         storeVars
  <1>7. ASSUME NEW w \in Worker, WorkerStops(w) PROVE Goal
    BY <1>1, <1>a, <1>7 DEF WorkerStops, WorkerRests, WorkerGoto, queueVars, storeVars
  <1>8. ASSUME NEW h \in Handler, UploadArtifact(h) PROVE Goal
    <2>1. /\ \A v \in Version : row[v] # NoRow => row'[v] # NoRow
          /\ RowsComeBeforeFiles' /\ UNCHANGED <<jobState, version>>
      BY <1>8, <1>a, HandlerPublishes, HandlerFaults DEF queueVars
    <2>2. DoneIsPublished'
      BY <1>a, <2>1 DEF DoneIsPublished
    <2>3. ASSUME NEW p, handlerPc[h] # "idle", Proceed(h, p)
          PROVE  UploadsAreOfTheJob' /\ CompletedIsPublished'
      <3>1. /\ handlerPc' = [handlerPc EXCEPT ![h] = p]
            /\ UNCHANGED <<workerPc, work, serves, upVersion>>
        BY <2>3 DEF Proceed, Goto, workerVars
      <3>2. CompletedIsPublished'
        BY <1>a, <1>c, <2>1, <3>1 DEF CompletedIsPublished
      <3> QED BY <1>a, <2>1, <2>3, <3>1, <3>2 DEF UploadsAreOfTheJob
    <2>4. ASSUME NEW answer, handlerPc[h] # "idle", Reply(h, answer),
                 serves[h] # NoWorker /\ answer # "error" => row'[upVersion[h]] # NoRow
          PROVE  UploadsAreOfTheJob' /\ CompletedIsPublished'
      <3>1. /\ handlerPc' = [handlerPc EXCEPT ![h] = "idle"]
            /\ serves' = [serves EXCEPT ![h] = NoWorker]
            /\ upVersion' = [upVersion EXCEPT ![h] = 0]
        BY <2>4 DEF Reply, Goto
      <3>2. ASSUME NEW w \in Worker, w # serves[h] \/ serves[h] = NoWorker
            PROVE  workerPc'[w] = workerPc[w] /\ work'[w] = work[w]
        BY <1>a, <2>4, <3>2 DEF Reply, workerVars, WorkerRests, WorkerGoto
      <3>3. \A g \in Handler : serves'[g] # NoWorker =>
               /\ g # h /\ serves'[g] = serves[g] /\ serves[g] \in Worker
               /\ serves[g] # serves[h] \/ serves[h] = NoWorker
        BY <1>a, <3>1 DEF OneUploadEach
      <3>4. UploadsAreOfTheJob'
        BY <1>a, <2>1, <3>1, <3>2, <3>3 DEF UploadsAreOfTheJob
      <3>5. ASSUME NEW w \in Worker, workerPc'[w] = "complete"
            PROVE  row'[version'[work'[w][1]]] # NoRow
        <4>1. CASE w # serves[h] \/ serves[h] = NoWorker
          BY <1>a, <1>c, <2>1, <3>2, <3>5, <4>1 DEF CompletedIsPublished
        <4>2. CASE w = serves[h] /\ serves[h] # NoWorker
          <5>1. answer # "error" /\ work' = work
            BY <1>a, <2>4, <3>5, <4>2 DEF Reply, WorkerRests, WorkerGoto
          <5>2. upVersion[h] = version[work[w][1]]
            BY <1>a, <2>4, <4>2 DEF UploadsAreOfTheJob
          <5> QED BY <2>1, <2>4, <4>2, <5>1, <5>2
        <4> QED BY <4>1, <4>2
      <3> QED BY <3>4, <3>5 DEF CompletedIsPublished
    <2> QED BY <1>8, <1>a, <2>1, <2>2, <2>3, <2>4, HandlerPublishes
  <1>9. ASSUME NEW j \in Job, LeaseExpires(j) PROVE Goal
    BY <1>1, <1>9 DEF LeaseExpires, workerVars, uploadVars, storeVars
  <1>10. CASE UNCHANGED vars
    BY <1>1, <1>10 DEF vars, queueVars, workerVars, uploadVars, storeVars
  <1> QED
    BY <1>2, <1>3, <1>4, <1>5, <1>6, <1>7, <1>8, <1>9, <1>10, <1>b DEF Next, Work, ServerRestart

\* As long as nothing failed, a job that is gone from the queue has its version in the
\* store, whichever of its builders deleted it and whichever upload came first.
THEOREM DoneJobsArePublished == Spec => []DoneIsPublished
  <1>1. Init => FullInv
    BY InitInv, InitTypes, InitPublish DEF FullInv
  <1>2. FullInv /\ [Next]_vars => FullInv'
    BY StepInv, QueueStep, WaitStep, CountStep, JobsStep, PublishStep DEF FullInv, TypeInv
  <1>3. FullInv => DoneIsPublished
    BY DEF FullInv, PublishInv
  <1> QED BY <1>1, <1>2, <1>3, PTL DEF Spec

=============================================================================
