----------------------------- MODULE PdfWorker ------------------------------
(***************************************************************************)
(* The life of a queued merge job: the request handler that creates the    *)
(* row and puts the job on the queue (the tail of POST in                  *)
(* src/src/app/api/jobs/merge/route.ts), the BullMQ queue it puts it on    *)
(* (src/src/lib/queue.ts; BullMQ itself is external and modelled from the  *)
(* options the code gives it), the worker processes that take it           *)
(* (src/src/workers/pdfWorker.ts, src/src/server/jobs/processPdfJob.ts)    *)
(* and the retention cleanup that may delete the row at any time.          *)
(*                                                                         *)
(* Every database call is a step of its own.  The constant Envelope says   *)
(* which outside events a behaviour may contain:                           *)
(*   crash          a worker process dies with a job in hand               *)
(*   restart        an idle worker shuts down (SIGTERM) and comes back     *)
(*   stall          a live worker loses its BullMQ lock                    *)
(*   dbError        a database call of the worker fails without effect     *)
(*   lostReply      a database or storage call takes effect but reports    *)
(*                  an error                                               *)
(*   flush          Redis is flushed                                       *)
(*   webCrash       the web process dies between the row and the queue     *)
(*   addError       the queue refuses the job                              *)
(*   ambiguousAdd   the queue takes the job but reports an error           *)
(*   cleanup        retention deletes rows and output objects              *)
(***************************************************************************)
EXTENDS Integers, FiniteSets

CONSTANTS
    Jobs,        \* job ids
    Workers,     \* worker processes, each with concurrency 1
    NoJob,       \* what an idle worker holds
    NoWorker,    \* the owner of a lock nobody holds
    Attempts,    \* the "attempts" option of the queue
    MaxStalls,   \* BullMQ's limit on stalled redeliveries
    Envelope     \* the outside events admitted

EventKinds == {"crash", "restart", "stall", "dbError", "lostReply", "flush",
               "webCrash", "addError", "ambiguousAdd", "cleanup"}

ASSUME JobsAssumption == NoJob \notin Jobs
ASSUME WorkersAssumption == IsFiniteSet(Workers) /\ NoWorker \notin Workers
ASSUME LimitsAssumption == Attempts \in Nat \ {0} /\ MaxStalls \in Nat
ASSUME EnvelopeAssumption == Envelope \subseteq EventKinds

VARIABLES
    status,      \* [Jobs -> status column, or NONE / DELETED]
    outputRef,   \* [Jobs -> is the outputRef column set]
    submit,      \* [Jobs -> where the request that creates the job stands]
    qstate,      \* [Jobs -> where BullMQ keeps the job]
    attempts,    \* [Jobs -> attemptsMade]
    stalls,      \* [Jobs -> BullMQ's stalled counter]
    lock,        \* [Jobs -> worker that holds the job's lock, or NoWorker]
    pc,          \* [Workers -> the step processQueueJob is about to take]
    cur,         \* [Workers -> the job in hand, or NoJob]
    outputs,     \* jobs whose merged PDF is in object storage
    purged,      \* jobs retention has begun to delete
    counted,     \* [Jobs -> times jobs_failed_total was incremented for it]
    merges       \* [Jobs -> deliveries that got as far as merging]

rowVars == <<status, outputRef>>
queueVars == <<qstate, attempts, stalls, lock>>
workerVars == <<pc, cur>>
storeVars == <<outputs, purged>>
statVars == <<counted, merges>>
vars == <<status, outputRef, submit, qstate, attempts, stalls, lock, pc, cur,
          outputs, purged, counted, merges>>

Lifecycle == INSTANCE JobLifecycle

Status == {"NONE", "PENDING", "RUNNING", "SUCCEEDED", "FAILED", "DELETED"}
Absent == {"NONE", "DELETED"}
SubmitSteps == {"none", "created", "addFailed", "done"}
QueueStates == {"none", "waiting", "active", "delayed", "completed", "failed",
                "lost"}
\* taken: before markRunning; loading and merging: processPdfJob; saving:
\* before markSucceeded; failing: in the catch block; ackOk and ackFail: the
\* processor has returned or thrown and BullMQ is about to record it.
WorkerSteps == {"down", "idle", "taken", "loading", "merging", "saving",
                "failing", "ackOk", "ackFail"}

TypeOK ==
    /\ status \in [Jobs -> Status]
    /\ outputRef \in [Jobs -> BOOLEAN]
    /\ submit \in [Jobs -> SubmitSteps]
    /\ qstate \in [Jobs -> QueueStates]
    /\ attempts \in [Jobs -> 0 .. Attempts]
    /\ stalls \in [Jobs -> 0 .. MaxStalls + 1]
    /\ lock \in [Jobs -> Workers \cup {NoWorker}]
    /\ pc \in [Workers -> WorkerSteps]
    /\ cur \in [Workers -> Jobs \cup {NoJob}]
    /\ outputs \subseteq Jobs
    /\ purged \subseteq Jobs
    /\ counted \in [Jobs -> Nat]
    /\ merges \in [Jobs -> Nat]

Init ==
    /\ status = [j \in Jobs |-> "NONE"]
    /\ outputRef = [j \in Jobs |-> FALSE]
    /\ submit = [j \in Jobs |-> "none"]
    /\ qstate = [j \in Jobs |-> "none"]
    /\ attempts = [j \in Jobs |-> 0]
    /\ stalls = [j \in Jobs |-> 0]
    /\ lock = [j \in Jobs |-> NoWorker]
    /\ pc = [w \in Workers |-> "idle"]
    /\ cur = [w \in Workers |-> NoJob]
    /\ outputs = {}
    /\ purged = {}
    /\ counted = [j \in Jobs |-> 0]
    /\ merges = [j \in Jobs |-> 0]

-----------------------------------------------------------------------------
(* The request handler.                                                    *)

\* The two columns a step of a worker or of the cleanup writes.
SetRow(j, to, ref) ==
    /\ status' = [status EXCEPT ![j] = to]
    /\ outputRef' = [outputRef EXCEPT ![j] = ref]

\* The transaction that creates the PENDING row.
CreateJob(j) ==
    /\ status[j] = "NONE"
    /\ status' = [status EXCEPT ![j] = "PENDING"]
    /\ submit' = [submit EXCEPT ![j] = "created"]
    /\ UNCHANGED <<outputRef, queueVars, workerVars, storeVars, statVars>>

\* enqueuePdfJob adds the job under its own id and the request is answered.
Enqueue(j) ==
    /\ submit[j] = "created"
    /\ submit' = [submit EXCEPT ![j] = "done"]
    /\ qstate' = [qstate EXCEPT ![j] = "waiting"]
    /\ UNCHANGED <<rowVars, attempts, stalls, lock, workerVars, storeVars,
                   statVars>>

\* enqueuePdfJob throws; the job may be on the queue all the same.
EnqueueThrows(j) ==
    /\ submit[j] = "created"
    /\ submit' = [submit EXCEPT ![j] = "addFailed"]
    /\ \/ "addError" \in Envelope /\ UNCHANGED qstate
       \/ /\ "ambiguousAdd" \in Envelope
          /\ qstate' = [qstate EXCEPT ![j] = "waiting"]
    /\ UNCHANGED <<rowVars, attempts, stalls, lock, workerVars, storeVars,
                   statVars>>

\* The handler marks the row FAILED whatever its status is (outputRef is
\* left alone) and answers 500.  An update of a missing row throws, and that
\* error, like any other of this transaction, is logged and swallowed.
MarkEnqueueFailed(j) ==
    /\ submit[j] = "addFailed"
    /\ submit' = [submit EXCEPT ![j] = "done"]
    /\ \/ /\ status[j] \notin Absent
          /\ status' = [status EXCEPT ![j] = "FAILED"]
       \/ /\ status[j] \in Absent \/ "dbError" \in Envelope
          /\ UNCHANGED status
    /\ UNCHANGED <<outputRef, queueVars, workerVars, storeVars, statVars>>

\* The web process dies before the job is on the queue, or before it could
\* note that the queue refused it.
WebCrash(j) ==
    /\ "webCrash" \in Envelope
    /\ submit[j] \in {"created", "addFailed"}
    /\ submit' = [submit EXCEPT ![j] = "done"]
    /\ UNCHANGED <<rowVars, queueVars, workerVars, storeVars, statVars>>

RequestStep(j) == Enqueue(j) \/ EnqueueThrows(j) \/ MarkEnqueueFailed(j)

-----------------------------------------------------------------------------
(* Retention, as the worker sees it.                                       *)

\* The cleanup deletes the output object a row names (or finds none to
\* delete) before it deletes the row.
PurgeOutput(j) ==
    /\ "cleanup" \in Envelope
    /\ status[j] \notin Absent
    /\ purged' = purged \cup {j}
    /\ \/ UNCHANGED outputs
       \/ outputRef[j] /\ outputs' = outputs \ {j}
    /\ UNCHANGED <<rowVars, submit, queueVars, workerVars, statVars>>

DeleteRow(j) ==
    /\ j \in purged
    /\ status[j] \notin Absent
    /\ SetRow(j, "DELETED", FALSE)
    /\ UNCHANGED <<submit, queueVars, workerVars, storeVars, statVars>>

-----------------------------------------------------------------------------
(* BullMQ.                                                                 *)

\* A worker takes a waiting job: the job becomes active under its lock.
Take(w, j) ==
    /\ pc[w] = "idle"
    /\ qstate[j] = "waiting"
    /\ qstate' = [qstate EXCEPT ![j] = "active"]
    /\ lock' = [lock EXCEPT ![j] = w]
    /\ pc' = [pc EXCEPT ![w] = "taken"]
    /\ cur' = [cur EXCEPT ![w] = j]
    /\ UNCHANGED <<rowVars, submit, attempts, stalls, storeVars, statVars>>

\* The backoff of a failed attempt has elapsed.
Promote(j) ==
    /\ qstate[j] = "delayed"
    /\ qstate' = [qstate EXCEPT ![j] = "waiting"]
    /\ UNCHANGED <<rowVars, submit, attempts, stalls, lock, workerVars,
                   storeVars, statVars>>

\* A lock runs out once its owner no longer renews it: the owner died, or it
\* is so busy that the renewal timer does not fire.
LockExpires(j) ==
    /\ lock[j] # NoWorker
    /\ cur[lock[j]] # j \/ "stall" \in Envelope
    /\ lock' = [lock EXCEPT ![j] = NoWorker]
    /\ UNCHANGED <<rowVars, submit, qstate, attempts, stalls, workerVars,
                   storeVars, statVars>>

\* Whether BullMQ tries again after this many attempts.
HasAttemptsLeftInclusive(made) == made <= Attempts     \* mutant: off by one
HasAttemptsLeft(made) == made < Attempts

\* Whether a failure is the last one: the handler of the "failed" event
\* counts it only then.
IsTerminalFailurePast(made) == made > Attempts         \* mutant: off by one
IsTerminalFailure(made) == made >= Attempts

CountFailure(j, made) ==
    counted' = IF IsTerminalFailure(made)
               THEN [counted EXCEPT ![j] = @ + 1]
               ELSE counted

\* The stalled-job check finds an active job without a lock: it waits again,
\* or, stalled more often than allowed, it fails for good.
StalledCheck(j) ==
    /\ qstate[j] = "active"
    /\ lock[j] = NoWorker
    /\ stalls' = [stalls EXCEPT ![j] = @ + 1]
    /\ \/ /\ stalls[j] < MaxStalls
          /\ qstate' = [qstate EXCEPT ![j] = "waiting"]
          /\ UNCHANGED counted
       \/ /\ stalls[j] >= MaxStalls
          /\ qstate' = [qstate EXCEPT ![j] = "failed"]
          /\ CountFailure(j, attempts[j] + 1)
    /\ UNCHANGED <<rowVars, submit, attempts, lock, workerVars, storeVars,
                   merges>>

Flush ==
    /\ "flush" \in Envelope
    /\ qstate' = [j \in Jobs |->
                    IF qstate[j] \in {"waiting", "active", "delayed"}
                    THEN "lost" ELSE qstate[j]]
    /\ lock' = [j \in Jobs |-> NoWorker]
    /\ UNCHANGED <<rowVars, submit, attempts, stalls, workerVars, storeVars,
                   statVars>>

QueueStep(j) == Promote(j) \/ LockExpires(j) \/ StalledCheck(j)

-----------------------------------------------------------------------------
(* The worker process.                                                     *)

\* expectStatusUpdate: an update of the row if its status is one of "from".
\* (mutant: the update forgets the output key)
UpdateForgetsOutput(j, from, to, ref) == status[j] \in from /\ SetRow(j, to, FALSE)
UpdateSucceeds(j, from, to, ref) == status[j] \in from /\ SetRow(j, to, ref)

\* It throws when the row is missing or in another status, when the database
\* fails, and when the transaction commits but the worker never hears of it.
UpdateThrows(j, from, to, ref) ==
    \/ status[j] \notin from /\ UNCHANGED rowVars
    \/ "dbError" \in Envelope /\ UNCHANGED rowVars
    \/ "lostReply" \in Envelope /\ UpdateSucceeds(j, from, to, ref)

GoTo(w, step) ==
    /\ pc' = [pc EXCEPT ![w] = step]
    /\ UNCHANGED cur

\* The statuses markRunning and markFailed start from.  (Mutants: a redelivery
\* may take over a RUNNING row; it may redo a SUCCEEDED one; markFailed skips a
\* RUNNING row; it overrides a SUCCEEDED one.)
StartableOrRunning == {"PENDING", "FAILED", "RUNNING"}
StartableOrSucceeded == {"PENDING", "FAILED", "SUCCEEDED"}
StartableStatus == {"PENDING", "FAILED"}
FailableOnlyPending == {"PENDING"}
FailableOrSucceeded == {"PENDING", "RUNNING", "SUCCEEDED"}
FailableStatus == {"PENDING", "RUNNING"}

\* markRunning, called outside the try block: when it throws, the row is not
\* marked FAILED.
MarkRunning(w) ==
    /\ pc[w] = "taken"
    /\ \/ /\ UpdateSucceeds(cur[w], StartableStatus, "RUNNING", FALSE)
          /\ merges' = [merges EXCEPT ![cur[w]] = @ + 1]
          /\ GoTo(w, "loading")
       \/ /\ UpdateThrows(cur[w], StartableStatus, "RUNNING", FALSE)
          /\ UNCHANGED merges
          /\ GoTo(w, "ackFail")
    /\ UNCHANGED <<submit, queueVars, storeVars, counted>>

\* processPdfJob reads the row and the READY files it names.  (Mutant: the job
\* is saved as soon as its inputs are found.)
LoadInputsAndSave(w) ==
    /\ pc[w] = "loading"
    /\ GoTo(w, "saving") \/ GoTo(w, "failing")
    /\ UNCHANGED <<rowVars, submit, queueVars, storeVars, statVars>>

LoadInputs(w) ==
    /\ pc[w] = "loading"
    /\ \/ status[cur[w]] \notin Absent /\ GoTo(w, "merging")
       \/ GoTo(w, "failing")
    /\ UNCHANGED <<rowVars, submit, queueVars, storeVars, statVars>>

\* mergePdf merges the inputs and uploads the result under a key that
\* depends on the job alone; it may fail at any point, and an upload may
\* take effect and still report an error.
Merge(w) ==
    /\ pc[w] = "merging"
    /\ \/ outputs' = outputs \cup {cur[w]} /\ GoTo(w, "saving")
       \/ outputs' = outputs /\ GoTo(w, "failing")
       \/ /\ "lostReply" \in Envelope
          /\ outputs' = outputs \cup {cur[w]}
          /\ GoTo(w, "failing")
    /\ UNCHANGED <<rowVars, submit, queueVars, purged, statVars>>

MarkSucceeded(w) ==
    /\ pc[w] = "saving"
    /\ \/ /\ UpdateSucceeds(cur[w], {"RUNNING"}, "SUCCEEDED", TRUE)
          /\ GoTo(w, "ackOk")
       \/ /\ UpdateThrows(cur[w], {"RUNNING"}, "SUCCEEDED", TRUE)
          /\ GoTo(w, "failing")
    /\ UNCHANGED <<submit, queueVars, storeVars, statVars>>

\* markFailedSafely: whatever happens to the update, the original error is
\* thrown on to BullMQ.  (Mutant: the update is tried again until it succeeds.)
MarkFailedUntilSaved(w) ==
    /\ pc[w] = "failing"
    /\ UpdateSucceeds(cur[w], FailableStatus, "FAILED", FALSE)
    /\ GoTo(w, "ackFail")
    /\ UNCHANGED <<submit, queueVars, storeVars, statVars>>

MarkFailed(w) ==
    /\ pc[w] = "failing"
    /\ \/ UpdateSucceeds(cur[w], FailableStatus, "FAILED", FALSE)
       \/ UpdateThrows(cur[w], FailableStatus, "FAILED", FALSE)
    /\ GoTo(w, "ackFail")
    /\ UNCHANGED <<submit, queueVars, storeVars, statVars>>

Release(w) ==
    /\ pc' = [pc EXCEPT ![w] = "idle"]
    /\ cur' = [cur EXCEPT ![w] = NoJob]

\* BullMQ records the end of an attempt only for the worker that still holds
\* the lock; without it the call fails and changes nothing.
AckLost(w) ==
    /\ pc[w] \in {"ackOk", "ackFail"}
    /\ lock[cur[w]] # w
    /\ Release(w)
    /\ UNCHANGED <<rowVars, submit, queueVars, storeVars, statVars>>

AckCompleted(w) ==
    /\ pc[w] = "ackOk"
    /\ lock[cur[w]] = w
    /\ qstate' = [qstate EXCEPT ![cur[w]] = "completed"]
    /\ attempts' = [attempts EXCEPT ![cur[w]] = @ + 1]
    /\ lock' = [lock EXCEPT ![cur[w]] = NoWorker]
    /\ Release(w)
    /\ UNCHANGED <<rowVars, submit, stalls, storeVars, statVars>>

\* A failed attempt is retried after a backoff, or is the last one, which
\* the "failed" handler counts.
AckFailed(w) ==
    LET j == cur[w]
        made == attempts[j] + 1
    IN  /\ pc[w] = "ackFail"
        /\ lock[j] = w
        /\ attempts' = [attempts EXCEPT ![j] = made]
        /\ lock' = [lock EXCEPT ![j] = NoWorker]
        /\ qstate' = [qstate EXCEPT ![j] =
                        IF HasAttemptsLeft(made) THEN "delayed" ELSE "failed"]
        /\ CountFailure(j, made)
        /\ Release(w)
        /\ UNCHANGED <<rowVars, submit, stalls, storeVars, merges>>

\* The process dies, in the middle of a job or (on SIGTERM, which lets the
\* job in hand finish) while idle.
Crash(w) ==
    /\ \/ "crash" \in Envelope /\ pc[w] \notin {"down", "idle"}
       \/ "restart" \in Envelope /\ pc[w] = "idle"
    /\ pc' = [pc EXCEPT ![w] = "down"]
    /\ cur' = [cur EXCEPT ![w] = NoJob]
    /\ UNCHANGED <<rowVars, submit, queueVars, storeVars, statVars>>

Restart(w) ==
    /\ pc[w] = "down"
    /\ pc' = [pc EXCEPT ![w] = "idle"]
    /\ UNCHANGED <<rowVars, submit, queueVars, cur, storeVars, statVars>>

\* The steps of a worker that has a job in hand.
JobStep(w) ==
    \/ MarkRunning(w) \/ LoadInputs(w) \/ Merge(w) \/ MarkSucceeded(w)
    \/ MarkFailed(w) \/ AckLost(w) \/ AckCompleted(w) \/ AckFailed(w)

-----------------------------------------------------------------------------

WorkerNext ==
    \/ \E w \in Workers : JobStep(w) \/ Crash(w) \/ Restart(w)
    \/ \E w \in Workers, j \in Jobs : Take(w, j)
    \/ \E j \in Jobs : QueueStep(j)
    \/ Flush

RequestNext ==
    \E j \in Jobs : CreateJob(j) \/ RequestStep(j) \/ WebCrash(j)

CleanupNext == \E j \in Jobs : PurgeOutput(j) \/ DeleteRow(j)

Next == WorkerNext \/ RequestNext \/ CleanupNext

Spec == Init /\ [][Next]_vars

\* A process that can take a step takes it: Node runs every pending callback,
\* BullMQ's timers fire, and the supervisor restarts a dead worker.
Fairness ==
    /\ \A w \in Workers :
          /\ WF_vars(JobStep(w))
          /\ WF_vars(Restart(w))
          /\ SF_vars(\E j \in Jobs : Take(w, j))
    /\ \A j \in Jobs :
          /\ WF_vars(RequestStep(j))
          /\ WF_vars(Promote(j))
          /\ WF_vars(StalledCheck(j))
          /\ WF_vars(LockExpires(j) /\ cur[lock[j]] # j)

FairSpec == Spec /\ Fairness

-----------------------------------------------------------------------------
(* Properties.                                                             *)

\* The worker is past markRunning with a job and has not finished with it.
Owns(w) == pc[w] \in {"loading", "merging", "saving", "failing"}

OwnedBy(w, j) == Owns(w) /\ cur[w] = j

\* Two workers never merge the same job at the same time, even when BullMQ
\* hands a job whose lock was lost to a second worker: the conditional update
\* of markRunning admits one of them.
ExclusiveProcessing ==
    \A v, w \in Workers, j \in Jobs : OwnedBy(v, j) /\ OwnedBy(w, j) => v = w

\* A job BullMQ has recorded as completed is SUCCEEDED in the database, until
\* retention deletes it: markSucceeded commits before the processor returns.
CompletedIsSucceeded ==
    \A j \in Jobs : qstate[j] = "completed" => status[j] \in {"SUCCEEDED", "DELETED"}

\* A SUCCEEDED job names its output, and the output is in storage unless
\* retention has begun to delete it: mergePdf uploads before markSucceeded.
SucceededHasOutput ==
    \A j \in Jobs :
        status[j] = "SUCCEEDED" => outputRef[j] /\ j \in outputs \cup purged

\* A job is merged at most once per attempt the queue options allow, plus
\* once per stalled redelivery.
MergesBounded == \A j \in Jobs : merges[j] <= Attempts + MaxStalls

\* jobs_failed_total counts a job at most once and only when BullMQ has given
\* it up, and it misses no job whose attempts were used up.
FailuresCountedOnce ==
    \A j \in Jobs :
        /\ counted[j] <= 1
        /\ counted[j] = 1 => qstate[j] = "failed"
        /\ qstate[j] = "failed" /\ attempts[j] = Attempts => counted[j] = 1

\* While no worker dies and no database call fails, a RUNNING row is being
\* worked on: expectStatusUpdate refuses every other way to RUNNING, and the
\* catch block of processQueueJob leaves none behind.
RunningIsOwned ==
    \A j \in Jobs : status[j] = "RUNNING" => \E w \in Workers : OwnedBy(w, j)

\* While no worker dies and no call fails or is undone by retention, an
\* output in storage is named by its row or about to be: no output is left
\* that nothing refers to.
OutputIsReferenced ==
    \A j \in outputs :
        \/ outputRef[j]
        \/ \E w \in Workers : cur[w] = j /\ pc[w] = "saving"

\* No job that jobs_failed_total counts as one "that reached a failed terminal
\* state" (the help text of the metric) is SUCCEEDED in the database.
CountedFailuresFailed ==
    \A j \in Jobs : counted[j] > 0 => status[j] # "SUCCEEDED"

\* A SUCCEEDED row is only ever deleted: no late worker, redelivery or request
\* handler moves it back.
SucceededIsStable ==
    [][\A j \in Jobs : status[j] = "SUCCEEDED" => status'[j] \in {"SUCCEEDED", "DELETED"}]_vars

\* The rows behave as the job lifecycle says.
ImplementsLifecycle == Lifecycle!Spec

\* Whatever workers do, BullMQ is done with every job it was given, unless Redis
\* loses the job: the attempts and the stalled counter bound the redeliveries.
QueueDrains ==
    \A j \in Jobs : qstate[j] = "waiting" ~> qstate[j] \in {"completed", "failed", "lost"}

\* How far BullMQ still is from being done with a job: every attempt and every
\* stalled redelivery may take it once through the queue.
DoneStates == {"completed", "failed", "lost"}
Distance(j) ==
    IF qstate[j] \in DoneStates THEN 0
    ELSE 3 * (Attempts - attempts[j] + MaxStalls - stalls[j])
           + CASE qstate[j] = "delayed" -> 3
               [] qstate[j] = "waiting" -> 2
               [] OTHER                 -> 1

\* Whatever BullMQ does with a job it was given brings it closer to the end, and
\* nothing brings a job back once BullMQ is done with it: no lost lock, crash or
\* flush lets it go round for ever.
QueueMakesProgress ==
    [][\A j \in Jobs :
          qstate[j] # "none" /\ qstate'[j] # qstate[j] => Distance(j)' < Distance(j)]_vars

=============================================================================
