----------------------------- MODULE MergeRoute -----------------------------
(***************************************************************************)
(* Concurrent POST requests to src/src/app/api/jobs/merge/route.ts.  Each  *)
(* request runs the handler step by step, one step per database or queue   *)
(* call, next to the queue and the workers of PdfWorker: a request may     *)
(* carry an idempotency key, find the job an earlier request created under *)
(* it, lose the race to create one, lose sight of the row it inserted, or  *)
(* die with the web process.                                               *)
(*                                                                         *)
(* A key stands for an actor (user or guest) together with the hashed      *)
(* Idempotency-Key header, which is what the lookup and the unique         *)
(* constraints of the schema compare; a form stands for what the request   *)
(* fingerprint hashes: input files and options.                            *)
(***************************************************************************)
EXTENDS Integers, FiniteSets

CONSTANTS
    Requests,       \* the requests that are ever sent
    NoKey,          \* the key of a request without the header
    KeyOf,          \* [Requests -> key or NoKey]
    FormOf,         \* [Requests -> form]
    \* of PdfWorker:
    Jobs, Workers, NoJob, NoWorker, Attempts, MaxStalls, Envelope

ASSUME RequestsAssumption == DOMAIN KeyOf = Requests /\ DOMAIN FormOf = Requests
ASSUME NoJobAssumption == NoJob \notin Jobs

VARIABLES
    rpc,            \* [Requests -> the step the handler is about to take]
    target,         \* [Requests -> the job whose row the request has inserted, or NoJob]
    reply,          \* [Requests -> the answer sent, or NoReply]
    jobKey,         \* [Jobs -> idempotencyKey column, or NoKey]
    jobForm,        \* [Jobs -> requestFingerprint stored in inputRef, or NoKey]
    \* of PdfWorker:
    status, outputRef, submit, qstate, attempts, stalls, lock, pc, cur,
    outputs, purged, counted, merges

W == INSTANCE PdfWorker

\* What PdfWorker asks of its constants.
ASSUME WorkAssumption ==
    /\ IsFiniteSet(Workers) /\ NoWorker \notin Workers
    /\ Attempts \in Nat \ {0} /\ MaxStalls \in Nat
    /\ Envelope \subseteq W!EventKinds

routeVars == <<rpc, target, reply, jobKey, jobForm>>
workVars == <<status, outputRef, submit, qstate, attempts, stalls, lock, pc, cur,
              outputs, purged, counted, merges>>
vars == <<rpc, target, reply, jobKey, jobForm, status, outputRef, submit, qstate,
          attempts, stalls, lock, pc, cur, outputs, purged, counted, merges>>

Steps == {"new", "lookup", "validate", "create", "recheck", "enqueue",
          "markFailed", "answered", "unaware", "dead"}

Codes == {201, 400, 409, 500}

Answer(code, job, said) == [code |-> code, job |-> job, said |-> said]
NoReply == Answer(0, NoJob, "nothing")

Said == {"nothing", "pending", "processing"}
Keys == {KeyOf[r] : r \in Requests} \cup {NoKey}
Forms == {FormOf[r] : r \in Requests}

TypeOK ==
    /\ rpc \in [Requests -> Steps]
    /\ target \in [Requests -> Jobs \cup {NoJob}]
    /\ reply \in [Requests -> [code : Codes \cup {0}, job : Jobs \cup {NoJob}, said : Said]]
    /\ jobKey \in [Jobs -> Keys]
    /\ jobForm \in [Jobs -> Forms \cup {NoKey}]
    /\ W!TypeOK

Init ==
    /\ rpc = [r \in Requests |-> "new"]
    /\ target = [r \in Requests |-> NoJob]
    /\ reply = [r \in Requests |-> NoReply]
    /\ jobKey = [j \in Jobs |-> NoKey]
    /\ jobForm = [j \in Jobs |-> NoKey]
    /\ W!Init

-----------------------------------------------------------------------------

GoTo(r, step) ==
    /\ rpc' = [rpc EXCEPT ![r] = step]
    /\ UNCHANGED reply

Send(r, answer) ==
    /\ rpc' = [rpc EXCEPT ![r] = "answered"]
    /\ reply' = [reply EXCEPT ![r] = answer]

\* The request is answered 500 and ends in the given step.
FailAs(r, step) ==
    /\ rpc' = [rpc EXCEPT ![r] = step]
    /\ reply' = [reply EXCEPT ![r] = Answer(500, NoJob, "nothing")]

\* findIdempotentJob: the rows under the request's key (null matches none).
Found(r) ==
    {j \in Jobs : KeyOf[r] # NoKey /\ jobKey[j] = KeyOf[r] /\ status[j] \notin W!Absent}

\* Whether the unique constraint refuses a row under the request's key.
\* (Mutant: there is no such constraint.)
KeyNeverTaken(r) == FALSE
KeyTaken(r) == Found(r) # {}

\* assertReusableIdempotentJob: what a request is told about an existing job.
\* (Mutants: the fingerprint is not compared; only a PENDING job is reused; the
\* raw status is passed on.)
ReuseAnswerAnyForm(r, j) ==
    CASE status[j] = "PENDING" -> Answer(201, j, "pending")
      [] status[j] = "RUNNING" -> Answer(201, j, "processing")
      [] OTHER                 -> Answer(409, NoJob, "nothing")
ReuseAnswerPending(r, j) ==
    IF jobForm[j] = FormOf[r] /\ status[j] = "PENDING" THEN Answer(201, j, "pending")
    ELSE Answer(409, NoJob, "nothing")
ReuseAnswerRaw(r, j) ==
    IF jobForm[j] # FormOf[r] THEN Answer(409, NoJob, "nothing")
    ELSE Answer(201, j, status[j])
ReuseAnswer(r, j) ==
    IF jobForm[j] # FormOf[r] THEN Answer(409, NoJob, "nothing")
    ELSE CASE status[j] = "PENDING" -> Answer(201, j, "pending")
           [] status[j] = "RUNNING" -> Answer(201, j, "processing")
           [] OTHER                 -> Answer(409, NoJob, "nothing")

\* The request arrives; the rate limiter or the parser may turn it away.
Arrive(r) ==
    /\ rpc[r] = "new"
    /\ GoTo(r, "lookup") \/ Send(r, Answer(400, NoJob, "nothing"))
    /\ UNCHANGED <<target, jobKey, jobForm, workVars>>

\* The lookup under the key, which may fail with the database.
Lookup(r) ==
    /\ rpc[r] = "lookup"
    /\ \/ Found(r) = {} /\ GoTo(r, "validate")
       \/ \E j \in Found(r) : Send(r, ReuseAnswer(r, j))
       \/ FailAs(r, "answered")
    /\ UNCHANGED <<target, jobKey, jobForm, workVars>>

\* parseAndValidateMergeJobInput reads the files: they may be missing, not
\* READY or not the caller's.
Validate(r) ==
    /\ rpc[r] = "validate"
    /\ GoTo(r, "create") \/ Send(r, Answer(400, NoJob, "nothing")) \/ FailAs(r, "answered")
    /\ UNCHANGED <<target, jobKey, jobForm, workVars>>

\* The row is written, for a job id nobody has used.
Insert(r) ==
    \E j \in Jobs :
        /\ W!CreateJob(j)
        /\ target' = [target EXCEPT ![r] = j]
        /\ jobKey' = [jobKey EXCEPT ![j] = KeyOf[r]]
        /\ jobForm' = [jobForm EXCEPT ![j] = FormOf[r]]

\* The transaction that inserts the row.  The unique constraint refuses a
\* second row under a key (P2002); the insert fails with a 500 when the file
\* has been deleted since it was validated, or when the database fails.  When
\* it commits and only its reply is lost, createdJobId is still null: the
\* handler answers 500 and neither queues the row nor marks it FAILED.
Create(r) ==
    /\ rpc[r] = "create"
    /\ \/ /\ ~KeyTaken(r) /\ Insert(r)
          /\ GoTo(r, "enqueue") \/ ("lostReply" \in Envelope /\ FailAs(r, "unaware"))
       \/ /\ KeyTaken(r) /\ GoTo(r, "recheck")
          /\ UNCHANGED <<target, jobKey, jobForm, workVars>>
       \/ /\ FailAs(r, "answered")
          /\ UNCHANGED <<target, jobKey, jobForm, workVars>>

\* After P2002 the handler looks the key up again; the winner's row may be
\* gone by now, and then the error stands, as it does when the lookup fails.
Recheck(r) ==
    /\ rpc[r] = "recheck"
    /\ \/ \E j \in Found(r) : Send(r, ReuseAnswer(r, j))
       \/ FailAs(r, "answered")
    /\ UNCHANGED <<target, jobKey, jobForm, workVars>>

\* enqueuePdfJob.  (Mutant: it throws although the job is queued, for example
\* because counting it fails, and the row is left as it is.)
EnqueueJobThenThrow(r) ==
    /\ rpc[r] = "enqueue"
    /\ W!Enqueue(target[r])
    /\ Send(r, Answer(201, target[r], "pending")) \/ FailAs(r, "answered")
    /\ UNCHANGED <<target, jobKey, jobForm>>

EnqueueJob(r) ==
    /\ rpc[r] = "enqueue"
    /\ \/ W!Enqueue(target[r]) /\ Send(r, Answer(201, target[r], "pending"))
       \/ W!EnqueueThrows(target[r]) /\ GoTo(r, "markFailed")
    /\ UNCHANGED <<target, jobKey, jobForm>>

\* The row of a job that could not be queued is marked FAILED.  (Mutant: it is
\* not.)
MarkEnqueueFailedSkipped(r) ==
    /\ rpc[r] = "markFailed"
    /\ FailAs(r, "answered")
    /\ UNCHANGED <<target, jobKey, jobForm, workVars>>

MarkEnqueueFailed(r) ==
    /\ rpc[r] = "markFailed"
    /\ W!MarkEnqueueFailed(target[r])
    /\ FailAs(r, "answered")
    /\ UNCHANGED <<target, jobKey, jobForm>>

\* The web process dies with the request in hand.
Die(r) ==
    /\ "webCrash" \in Envelope
    /\ rpc[r] \notin {"new", "answered", "unaware", "dead"}
    /\ IF rpc[r] \in {"enqueue", "markFailed"}
       THEN W!WebCrash(target[r])
       ELSE UNCHANGED workVars
    /\ GoTo(r, "dead")
    /\ UNCHANGED <<target, jobKey, jobForm>>

HandlerStep(r) ==
    \/ Lookup(r) \/ Validate(r) \/ Create(r) \/ Recheck(r)
    \/ EnqueueJob(r) \/ MarkEnqueueFailed(r)

Next ==
    \/ \E r \in Requests : Arrive(r) \/ HandlerStep(r) \/ Die(r)
    \/ (W!WorkerNext \/ W!CleanupNext) /\ UNCHANGED routeVars

Spec == Init /\ [][Next]_vars

\* A handler that has started runs on, and the workers are as fair as before.
Fairness ==
    /\ \A r \in Requests : WF_vars(HandlerStep(r))
    /\ \A w \in Workers :
          /\ WF_vars(W!JobStep(w) /\ UNCHANGED routeVars)
          /\ WF_vars(W!Restart(w) /\ UNCHANGED routeVars)
          /\ SF_vars((\E j \in Jobs : W!Take(w, j)) /\ UNCHANGED routeVars)
    /\ \A j \in Jobs :
          /\ WF_vars(W!Promote(j) /\ UNCHANGED routeVars)
          /\ WF_vars(W!StalledCheck(j) /\ UNCHANGED routeVars)
          /\ WF_vars(W!LockExpires(j) /\ cur[lock[j]] # j /\ UNCHANGED routeVars)

FairSpec == Spec /\ Fairness

-----------------------------------------------------------------------------
(* Properties.                                                             *)

Accepted(r) == reply[r].code = 201

\* Requests that send the same form under the same key.
Retries(r, q) == r # q /\ KeyOf[r] # NoKey /\ KeyOf[r] = KeyOf[q] /\ FormOf[r] = FormOf[q]

\* Two accepted submissions of the same form under one key name the same job,
\* however their handlers interleave, unless retention deleted one of the jobs
\* (and with it the key) in between.
OneJobPerKey ==
    \A r, q \in Requests :
        Retries(r, q) /\ Accepted(r) /\ Accepted(q) /\ reply[r].job # reply[q].job
            => "DELETED" \in {status[reply[r].job], status[reply[q].job]}

\* A request is only ever pointed to a job that merges what it asked for,
\* whether it created the job, found it or lost the race for the key.
AcceptedFormMatches ==
    \A r \in Requests : Accepted(r) => jobForm[reply[r].job] = FormOf[r]

\* While Redis keeps its data, no worker dies with a job in hand and no write to
\* the database fails outright, a job some request was told is accepted is not
\* forgotten, not even when the lock of its worker runs out: as long as its row is PENDING it waits
\* on the queue or a worker is about to start it, or the handler that created it
\* is about to queue it or fail it, died trying, or was answered 500 because
\* the reply to its insert was lost and it never learned of the row.  A creator
\* that was answered 500 for any other reason has left no such row behind.
AcceptedIsInHand ==
    \A r \in Requests :
        Accepted(r) /\ status[reply[r].job] = "PENDING"
            => \/ qstate[reply[r].job] = "waiting"
               \/ \E w \in Workers : pc[w] = "taken" /\ cur[w] = reply[r].job
               \/ \E q \in Requests : target[q] = reply[r].job
                                        /\ rpc[q] \in {"enqueue", "markFailed", "unaware", "dead"}

\* A job whose creator was answered 500 is never started, by any worker.
RefusedNeverStarts ==
    \A r \in Requests :
        reply[r].code = 500 /\ target[r] # NoJob
            => status[target[r]] \notin {"RUNNING", "SUCCEEDED"} /\ merges[target[r]] = 0

\* "an idempotency key so retried submissions resolve to the same job instead
\* of enqueueing duplicates" (the merge page): once a submission was accepted
\* and while its row exists, no retry of it is turned away.
RetryResolvesToSameJob ==
    \A r, q \in Requests :
        Retries(r, q) /\ Accepted(r) /\ reply[q].code = 409
            => status[reply[r].job] = "DELETED"

\* What the code does promise a retry: it is turned away only when the job of the
\* submission that was accepted has finished or failed by then, or is gone, also
\* when the two race and the retry meets the row of another one first.
RetriesOfUnfinishedResolve ==
    [][\A r, q \in Requests :
          Retries(r, q) /\ Accepted(r) /\ reply[q].code # 409 /\ reply'[q].code = 409
              => status[reply[r].job] \in {"SUCCEEDED", "FAILED", "DELETED"}]_vars

\* Every accepted submission comes to an end its caller can see, also when the
\* caller was pointed to a job that another request was still queueing.
AcceptedSettles ==
    \A r \in Requests, j \in Jobs :
        Accepted(r) /\ reply[r].job = j
            ~> [](status[j] \in {"SUCCEEDED", "FAILED", "DELETED"})

=============================================================================
