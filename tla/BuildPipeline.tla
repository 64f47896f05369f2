--------------------------- MODULE BuildPipeline ---------------------------
(***************************************************************************)
(* From a push to a release: the webhook (internal/webhook) puts a job into*)
(* the queue (internal/queue, over goqite), a builder (internal/build)     *)
(* leases it, compiles and uploads the image, and the server stores it     *)
(* (internal/artifact over store/sqlite/artifact_repo.go) and starts its   *)
(* rollout (internal/httpapi/artifacts.go).                                *)
(* Builders, handlers of uploads and lease timers interleave; a step is one*)
(* request, SQL statement, call of the signer or file operation. No two    *)
(* builds of one version are assumed to give the same image.               *)
(***************************************************************************)
EXTENDS Integers, FiniteSets

CONSTANTS
    NumJobs,     \* jobs put into the queue during a behaviour
    Worker,      \* builders
    Handler,     \* uploads that the server may be handling at the same time
    MaxReceive,  \* how often a job is handed out at most
    MaxFaults    \* bound: SQL, signer and file errors and stops of the server

ASSUME PipelineAssumption ==
    /\ NumJobs \in Nat /\ MaxReceive \in Nat \ {0} /\ MaxFaults \in Nat

Job == 1..NumJobs
Version == Job            \* a version goes by the first job whose commit is described so
Image == Job \X (1..MaxReceive)       \* what is built of a job when it is handed out again

NoImage == <<0, 0>>
NoFile == <<0, 0>>
Torn == <<0, 1>>                      \* a file being written, or cut short
NoRow == [image |-> NoImage, sequence |-> 0]
NoWorker == "nobody"

VARIABLES
    jobState,   \* row of the queue: "none", "queued", or "done" once deleted
    version,    \* the version of the commit of each job
    received,   \* how often the job was handed out
    leased,     \* its time-out is in the future
    workerPc, work,       \* of each builder: place, and the image it is to build
    handlerPc, serves,    \* of each upload: place, the builder that waits for the reply
    up, upVersion, sequence,  \* ... its image and version, and the sequence it got
    row,        \* firmware_artifacts, per version
    file,       \* the artifact directory, per version: NoFile, Torn or an image
    counter,    \* artifact_sequence
    signed,     \* history: the (sequence, image) pairs the signer has signed
    released,   \* history: the (version, image, sequence) a rollout was started for
    faults

queueVars == <<jobState, version, received, leased>>
workerVars == <<workerPc, work>>
uploadVars == <<handlerPc, serves, up, upVersion, sequence>>
storeVars == <<row, file, counter, signed, released>>
vars == <<queueVars, workerVars, uploadVars, storeVars, faults>>

Fault == faults < MaxFaults /\ faults' = faults + 1

WorkerGoto(w, p) == workerPc' = [workerPc EXCEPT ![w] = p]
WorkerRests(w) == WorkerGoto(w, "idle") /\ work' = [work EXCEPT ![w] = NoImage]
Goto(h, p) == handlerPc' = [handlerPc EXCEPT ![h] = p]

-----------------------------------------------------------------------------
(* The queue *)

\* A push of a commit of a new version, or of one that an earlier job has.
Enqueue(j, v) ==
    /\ jobState[j] = "none" /\ \A i \in 1..(j - 1) : jobState[i] # "none"
    /\ v = j \/ (v < j /\ version[v] = v)
    /\ jobState' = [jobState EXCEPT ![j] = "queued"]
    /\ version' = [version EXCEPT ![j] = v]
    /\ UNCHANGED <<received, leased, workerVars, uploadVars, storeVars, faults>>

\* MUTANT of Visible: a job is handed out however often it was received.
VisibleForEver(j) == jobState[j] = "queued" /\ ~leased[j]

Visible(j) == jobState[j] = "queued" /\ ~leased[j] /\ received[j] < MaxReceive

\* The oldest visible job is handed out; it is hidden for BuildTimeout.
Lease(w, j) ==
    /\ workerPc[w] = "idle"
    /\ Visible(j) /\ \A i \in Job : Visible(i) => j <= i
    /\ received' = [received EXCEPT ![j] = @ + 1]
    /\ leased' = [leased EXCEPT ![j] = TRUE]
    /\ work' = [work EXCEPT ![w] = <<j, received'[j]>>]
    /\ WorkerGoto(w, "build")
    /\ UNCHANGED <<jobState, version, uploadVars, storeVars, faults>>

LeaseExpires(j) ==
    /\ jobState[j] = "queued" /\ leased[j]
    /\ leased' = [leased EXCEPT ![j] = FALSE]
    /\ UNCHANGED <<jobState, version, received, workerVars, uploadVars, storeVars, faults>>

-----------------------------------------------------------------------------
(* The builder *)

\* MUTANT of BuildFails: the job is completed none the less.
BuildFailsDone(w) ==
    /\ workerPc[w] = "build"
    /\ WorkerGoto(w, "complete")
    /\ UNCHANGED <<queueVars, work, uploadVars, storeVars, faults>>

\* The job is left to its time-out.
BuildFails(w) ==
    /\ workerPc[w] = "build"
    /\ WorkerRests(w)
    /\ UNCHANGED <<queueVars, uploadVars, storeVars, faults>>

\* The commit of job j is built for the builder's job. When its own cannot be fetched,
\* that is the head of the branch, and the build goes by the version of that.
Compiled(w, j) ==
    \/ j = work[w][1] /\ UNCHANGED faults
    \/ j > work[w][1] /\ jobState[j] # "none" /\ Fault

\* The build is done and its image sent to the server.
Upload(w, h) ==
    /\ workerPc[w] = "build"
    /\ handlerPc[h] = "idle"
    /\ Goto(h, "look")
    /\ serves' = [serves EXCEPT ![h] = w]
    /\ up' = [up EXCEPT ![h] = work[w]]
    /\ \E j \in Job : Compiled(w, j) /\ upVersion' = [upVersion EXCEPT ![h] = version[j]]
    /\ WorkerGoto(w, "wait")
    /\ UNCHANGED <<queueVars, work, sequence, storeVars>>

\* The job is deleted, whoever has it leased by now; or the request fails.
Complete(w) ==
    LET j == work[w][1] IN
    /\ workerPc[w] = "complete"
    /\ \/ /\ jobState' = [jobState EXCEPT ![j] = "done"]
          /\ received' = [received EXCEPT ![j] = 0] /\ leased' = [leased EXCEPT ![j] = FALSE]
          /\ UNCHANGED faults
       \/ Fault /\ UNCHANGED <<jobState, received, leased>>
    /\ WorkerRests(w)
    /\ UNCHANGED <<version, uploadVars, storeVars>>

\* The builder stops, or its request times out; nobody waits for the reply then.
WorkerStops(w) ==
    /\ workerPc[w] # "idle"
    /\ WorkerRests(w)
    /\ serves' = [h \in Handler |-> IF serves[h] = w THEN NoWorker ELSE serves[h]]
    /\ UNCHANGED <<queueVars, handlerPc, up, upVersion, sequence, storeVars, faults>>

Work(w) == \/ BuildFails(w) \/ Complete(w)
           \/ \E j \in Job : Lease(w, j)
           \/ \E h \in Handler : Upload(w, h)

-----------------------------------------------------------------------------
(* Store, and the handler around it *)

\* A builder takes "created" and "conflict" for success, and polls again otherwise.
Reply(h, answer) ==
    /\ Goto(h, "idle")
    /\ serves' = [serves EXCEPT ![h] = NoWorker]
    /\ up' = [up EXCEPT ![h] = NoImage] /\ upVersion' = [upVersion EXCEPT ![h] = 0]
    /\ sequence' = [sequence EXCEPT ![h] = 0]
    /\ \/ serves[h] = NoWorker /\ UNCHANGED workerVars
       \/ serves[h] # NoWorker /\ answer = "error" /\ WorkerRests(serves[h])
       \/ /\ serves[h] # NoWorker /\ answer # "error"
          /\ WorkerGoto(serves[h], "complete") /\ UNCHANGED work

\* What uses the request's context fails too once the builder has gone.
RequestFault(h) == Fault \/ (serves[h] = NoWorker /\ UNCHANGED faults)

Proceed(h, p) ==
    /\ Goto(h, p)
    /\ UNCHANGED <<workerVars, serves, up, upVersion>>

Look(h) ==
    LET v == upVersion[h] IN
    /\ handlerPc[h] = "look"
    /\ \/ row[v] # NoRow /\ Reply(h, "conflict") /\ UNCHANGED faults
       \/ row[v] = NoRow /\ Proceed(h, "count") /\ UNCHANGED <<sequence, faults>>
       \/ RequestFault(h) /\ Reply(h, "error")
    /\ UNCHANGED <<queueVars, storeVars>>

\* MUTANT of NextSequence: one more than the greatest sequence stored.
NextSequenceOfRows(h) ==
    /\ handlerPc[h] = "count"
    /\ \E n \in 1..(Cardinality(Image) + 1) :
          /\ \A v \in Version : row[v].sequence < n
          /\ n = 1 \/ \E v \in Version : row[v].sequence = n - 1
          /\ sequence' = [sequence EXCEPT ![h] = n]
    /\ Proceed(h, "sign")
    /\ UNCHANGED <<queueVars, storeVars, faults>>

\* Counted up and read in one transaction; a sequence is never given back.
NextSequence(h) ==
    /\ handlerPc[h] = "count"
    /\ \/ /\ counter' = counter + 1
          /\ sequence' = [sequence EXCEPT ![h] = counter + 1]
          /\ Proceed(h, "sign") /\ UNCHANGED faults
       \/ RequestFault(h) /\ Reply(h, "error") /\ UNCHANGED counter
    /\ UNCHANGED <<queueVars, row, file, signed, released>>

\* The signer signs; its answer may be lost.
Sign(h) ==
    /\ handlerPc[h] = "sign"
    /\ signed' = signed \cup {<<sequence[h], up[h]>>}
    /\ \/ Proceed(h, "create") /\ UNCHANGED <<sequence, faults>>
       \/ RequestFault(h) /\ Reply(h, "error")
    /\ UNCHANGED <<queueVars, row, file, counter, released>>

\* MUTANT of Create: the row is written over another of the version.
CreateOver(h) ==
    /\ handlerPc[h] = "create"
    /\ row' = [row EXCEPT ![upVersion[h]] = [image |-> up[h], sequence |-> sequence[h]]]
    /\ Proceed(h, "open")
    /\ UNCHANGED <<queueVars, sequence, file, counter, signed, released, faults>>

\* The row comes before the file; driver and version are its key.
Create(h) ==
    LET v == upVersion[h] IN
    /\ handlerPc[h] = "create"
    /\ \/ /\ row[v] = NoRow
          /\ row' = [row EXCEPT ![v] = [image |-> up[h], sequence |-> sequence[h]]]
          /\ Proceed(h, "open") /\ UNCHANGED <<sequence, faults>>
       \/ row[v] # NoRow /\ Reply(h, "conflict") /\ UNCHANGED <<row, faults>>
       \/ RequestFault(h) /\ Reply(h, "error") /\ UNCHANGED row
    /\ UNCHANGED <<queueVars, file, counter, signed, released>>

\* An existing file is not touched: the write fails.
OpenFile(h) ==
    LET v == upVersion[h] IN
    /\ handlerPc[h] = "open"
    /\ \/ /\ file[v] = NoFile
          /\ file' = [file EXCEPT ![v] = Torn]
          /\ Proceed(h, "fill") /\ UNCHANGED faults
       \/ file[v] # NoFile /\ Proceed(h, "undo") /\ UNCHANGED <<file, faults>>
       \/ Fault /\ Proceed(h, "undo") /\ UNCHANGED file
    /\ UNCHANGED <<queueVars, sequence, row, counter, signed, released>>

FillFile(h) ==
    /\ handlerPc[h] = "fill"
    /\ \/ /\ file' = [file EXCEPT ![upVersion[h]] = up[h]]
          /\ Proceed(h, "release") /\ UNCHANGED faults
       \/ Fault /\ Proceed(h, "undo") /\ UNCHANGED file
    /\ UNCHANGED <<queueVars, sequence, row, counter, signed, released>>

\* The row goes again, unless that fails too; a file cut short stays.
UndoRow(h) ==
    /\ handlerPc[h] = "undo"
    /\ \/ row' = [row EXCEPT ![upVersion[h]] = NoRow] /\ UNCHANGED faults
       \/ RequestFault(h) /\ UNCHANGED row
    /\ Reply(h, "error")
    /\ UNCHANGED <<queueVars, file, counter, signed, released>>

\* The rollout is started and the builder told.
Release(h) ==
    /\ handlerPc[h] = "release"
    /\ released' = released \cup {<<upVersion[h], up[h], sequence[h]>>}
    /\ Reply(h, "created")
    /\ UNCHANGED <<queueVars, row, file, counter, signed, faults>>

UploadArtifact(h) ==
    \/ Look(h) \/ NextSequence(h) \/ Sign(h) \/ Create(h)
    \/ OpenFile(h) \/ FillFile(h) \/ UndoRow(h) \/ Release(h)

\* The server stops and starts again: the builders see their requests fail.
ServerRestart ==
    /\ Fault
    /\ handlerPc' = [h \in Handler |-> "idle"]
    /\ serves' = [h \in Handler |-> NoWorker]
    /\ up' = [h \in Handler |-> NoImage] /\ upVersion' = [h \in Handler |-> 0]
    /\ sequence' = [h \in Handler |-> 0]
    /\ workerPc' = [w \in Worker |-> IF workerPc[w] = "wait" THEN "idle" ELSE workerPc[w]]
    /\ work' = [w \in Worker |-> IF workerPc[w] = "wait" THEN NoImage ELSE work[w]]
    /\ UNCHANGED <<queueVars, storeVars>>

-----------------------------------------------------------------------------
Init ==
    /\ jobState = [j \in Job |-> "none"] /\ version = [j \in Job |-> j]
    /\ received = [j \in Job |-> 0] /\ leased = [j \in Job |-> FALSE]
    /\ workerPc = [w \in Worker |-> "idle"] /\ work = [w \in Worker |-> NoImage]
    /\ handlerPc = [h \in Handler |-> "idle"] /\ serves = [h \in Handler |-> NoWorker]
    /\ up = [h \in Handler |-> NoImage] /\ upVersion = [h \in Handler |-> 0]
    /\ sequence = [h \in Handler |-> 0]
    /\ row = [v \in Version |-> NoRow] /\ file = [v \in Version |-> NoFile]
    /\ counter = 0 /\ signed = {} /\ released = {} /\ faults = 0

Next ==
    \/ \E j \in Job : LeaseExpires(j) \/ \E v \in Version : Enqueue(j, v)
    \/ \E w \in Worker : Work(w) \/ WorkerStops(w)
    \/ \E h \in Handler : UploadArtifact(h)
    \/ ServerRestart

Spec == Init /\ [][Next]_vars

-----------------------------------------------------------------------------
TypeOK ==
    /\ jobState \in [Job -> {"none", "queued", "done"}] /\ version \in [Job -> Version]
    /\ received \in [Job -> 0..MaxReceive] /\ leased \in [Job -> BOOLEAN]
    /\ workerPc \in [Worker -> {"idle", "build", "wait", "complete"}]
    /\ work \in [Worker -> Image \cup {NoImage}]
    /\ handlerPc \in [Handler -> {"idle", "look", "count", "sign", "create", "open", "fill",
                                  "undo", "release"}]
    /\ serves \in [Handler -> Worker \cup {NoWorker}]
    /\ up \in [Handler -> Image \cup {NoImage}] /\ upVersion \in [Handler -> Version \cup {0}]
    /\ counter \in Nat /\ sequence \in [Handler -> 0..counter]
    /\ row \in [Version -> [image : Image \cup {NoImage}, sequence : 0..counter]]
    /\ file \in [Version -> {NoFile, Torn} \cup Image]
    /\ signed \subseteq (1..counter) \X Image
    /\ released \subseteq Version \X Image \X (1..counter)
    /\ faults \in 0..MaxFaults
    /\ \A h \in Handler : serves[h] # NoWorker => workerPc[serves[h]] = "wait"

-----------------------------------------------------------------------------
(* Safety *)

\* What a rollout was started for stays what the server serves: the row with the
\* signature of that very image, and the whole of its file - whatever other uploads
\* of the version, failures and restarts there are.
ReleasesAreWhole ==
    \A r \in released : /\ row[r[1]] = [image |-> r[2], sequence |-> r[3]]
                        /\ file[r[1]] = r[2]

\* No sequence is signed for two images, not even by uploads that fail: a device
\* that has a sequence on its floor has that image behind it.
SequencesAreSpentOnce ==
    \A s, t \in signed : s[1] = t[1] => s = t

\* A job that is gone from the queue was published, or is being published by an
\* upload that came first - as long as nothing has failed.
DoneIsPublished ==
    \A j \in Job : jobState[j] = "done" /\ faults = 0 => row[version[j]] # NoRow
=============================================================================
