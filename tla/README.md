# TLA+ specifications of ulazytools

ulazytools is a web application that merges PDFs: a browser uploads files to
object storage, a request creates a merge job, a worker process merges the files
and a cleanup process deletes everything when it expires. The parts share three
stores (PostgreSQL through Prisma, Redis through BullMQ, S3) and fail
independently of one another. This directory models how they interact.

- Model checking: `tlc -config X.cfg M` with the modules and configurations of the
  table under "Runs".
- Proofs: `tlapm M.tla` for the eight modules whose names end in `Proofs`.

## Inventory

| Component | State | Operations | Talks to |
|---|---|---|---|
| Merge job creation (`src/src/app/api/jobs/merge/route.ts`, `src/src/server/jobs/validateJobInput.ts`, `src/src/lib/queue.ts`) | Job row (status, idempotencyKey, requestFingerprint in inputRef) | look the key up, validate, insert, look up again after P2002, enqueue, mark FAILED | database, BullMQ |
| PDF worker (`src/src/workers/pdfWorker.ts`, `src/src/server/jobs/processPdfJob.ts`, `src/src/server/pdf/mergePdf.ts`) | Job row, BullMQ job (state, attemptsMade, lock, stalled counter), output object | markRunning, read inputs, merge and upload, markSucceeded, markFailed, count the failure, shut down | BullMQ, database, storage |
| Retention cleanup (`src/src/server/cleanup/deleteExpired.ts`, `src/src/workers/cleanupWorker.ts`) | FileObject and Job rows, objects, attemptedIds of a run | select a batch, remove objects, delete rows | database, storage, BullMQ scheduler |
| Upload (`src/src/app/api/upload/*`, `src/src/server/uploads/*`) | FileObject row (PENDING_UPLOAD, READY, FAILED; expiresAt) | presign, complete (HEAD, compare, update) | storage, database |
| Browser uploader (`src/src/lib/upload/s3Put.ts`, `src/src/components/upload/PresignedUploader.tsx`) | batch of files, cancel handle, progress | presign, PUT, complete with retries, cancel | upload API, storage |
| Polling and merge page (`src/src/hooks/useJobPoll.ts`, `src/src/app/(tools)/merge/page.tsx`) | timer, abort controller, stopped and terminal flags, idempotency key | poll, schedule, pause, restart, cancel, submit | job API |
| Job status and download (`src/src/app/api/jobs/[jobId]/route.ts`, `src/src/app/api/download/[jobId]/route.ts`, `src/src/server/jobs/jobAccess.ts`) | none of its own | read one row, check access, map the status, stream the output | database, storage |
| Rate limiter (`src/src/server/rateLimit.ts`, used by presign, job creation and job status) | Redis counter with an expiry, per action and caller | count, start the window, read what is left of it, decide, fail open | Redis |
| Metrics (`src/src/lib/metrics.ts`, `src/src/app/api/metrics/route.ts`) | counters and a histogram in Redis or in memory | increment, observe, render | Redis |
| Guest identity, middleware, authentication (`src/src/lib/guest.ts`, `src/src/middleware.ts`, `src/src/lib/auth.ts`) | signed cookie | issue, verify, forward | - |

### Hard behaviours and what makes each component correct

- *Job creation.* The row is committed before the job is queued, so each of the two
  can exist without the other; two submissions under one idempotency key race for
  a unique constraint. Correct: one job per key, nobody is pointed to a job with
  other inputs, an accepted job is queued or fails, a refused job never runs.
- *Worker.* BullMQ delivers at least once. A job whose lock is lost is delivered to
  a second worker while the first one goes on; a worker may die between any two
  steps; a database call may commit and report an error; a FAILED row is started
  again by a retry. Correct: one worker at a time merges a job, SUCCEEDED is final
  and has an output, the queue completes only what succeeded, retries end, rows
  follow the status machine, failures are counted once.
- *Cleanup.* It works from a snapshot, deletes objects before rows, and runs next to
  requests and workers that use the same rows. Correct: a row is deleted only after
  its objects, nothing unexpired is touched, every run ends, every expired file goes.
- *Upload.* Completion reads a row, asks storage, then updates the row without a
  condition. Correct: a file is judged once, by what its object is, and the judgement
  is final; the browser hands on exactly what was verified.
- *Browser.* Answers arrive after the state they belong to has gone. Correct: an answer
  to a superseded poll or cancelled upload changes nothing, and polling ends exactly
  at a final status.
- *Rate limiter.* A fixed window whose key expires by itself, next to a client that
  sends a transaction again or rejects it half answered, and a Redis that forgets. Correct:
  what a caller gets through in any span of a window's length is bounded, and the time it
  is told to wait is enough.
- *Metrics.* Handlers wait for them, on a connection that never gives up. Correct: a scrape agrees
  with what was observed; no request depends on them (which does not hold: see below).
- *Page order.* The request and the worker check a form by comparing two sets, and rely
  on queries that return rows in any order. Correct: what is accepted is a permutation and
  is merged as asked for.

## Modules

| Module | Models |
|---|---|
| `JobLifecycle` | abstract: the status machine of a Job row and the rule that only SUCCEEDED carries an output |
| `PdfWorker` | the queue, the workers, the tail of the request and the row deletion, every database call a step |
| `MergeRoute` | concurrent `POST` handlers composed with `PdfWorker` |
| `PageOrder` | which files an accepted form merges and in which order: the checks of the request and of the worker as operators |
| `Retention` | cleanup runs next to uploads, requests and workers |
| `FileLifecycle` | abstract: the status machine of a FileObject row and its object |
| `Upload` | the browser's upload batch with both request handlers, the bucket and the user |
| `JobPoll` | the polling hook, its page, the status request and the answers of the download route, over rows that move as `JobLifecycle` |
| `RateLimit` | the fixed-window limiter over one Redis transaction, with a clock |
| `Metrics` | the latency histogram: observing and rendering |
| `RedisCounters` | limiter and histogram composed in the presign handlers and the workers, over a Redis that goes away |
| `MCPdfWorker`, `MCMergeRoute`, `MCRetention`, `MCUpload`, `MCRedisCounters` | envelopes, requests, latencies and symmetry for TLC; `MCMergeRoute` also checks `PageOrder` on all forms of up to three files |
| `PdfWorkerProofs`, `MergeRouteProofs`, `PageOrderProofs`, `RetentionProofs`, `UploadProofs`, `JobPollProofs`, `RateLimitProofs`, `RedisCountersProofs` | theorems about the module each is named after |

`PdfWorker` implements `JobLifecycle` (`INSTANCE` without substitutions: the
variables `status` and `outputRef` are the same); `MergeRoute` composes several
handlers with `PdfWorker` (`W`): it acts on the queue, the workers and the rows only through actions of
`W`, so what is proved of `PdfWorker` holds of it by construction (lemma `ComposesPdfWorker`). `Retention` models the same rows
from the point of view of the cleanup; in `PdfWorker` the cleanup appears as
`PurgeOutput` and `DeleteRow`. `JobPoll` polls rows that take the steps of
`JobLifecycle` (an instance too), so what it shows holds for every worker that
implements it, hence for `PdfWorker`. `Upload` produces the READY rows `Retention`
and `MergeRoute` start from, and implements `FileLifecycle` (`status <- row`; the bucket's
`object` is the same variable). `RedisCounters` extends `RateLimit` by the handlers that call
it and the workers that observe latencies (`Metrics`, an instance), again acting on the limiter only through
its actions (lemma `HandlersUseTheLimiter`).
`PageOrder` says what the refusals of `MergeRoute!Validate` and the inputs of
`PdfWorker!LoadInputs` are about.

### PdfWorker and the code

`status` and `outputRef` are columns of Job; the value NONE is an id that has no row
yet and DELETED an id whose row is gone. `qstate`, `attempts`, `stalls` and
`lock` are BullMQ's records of the job. `pc[w]` is where `processQueueJob` stands in
worker `w` and `cur[w]` the job it was called with:

| pc | next action | code |
|---|---|---|
| idle | `Take` | BullMQ hands a job to the Worker (concurrency 1) |
| taken | `MarkRunning` | `markRunning`, outside the `try` |
| loading | `LoadInputs` | `processPdfJob`: row, inputRef, READY files |
| merging | `Merge` | `mergePdf`: read, merge, upload |
| saving | `MarkSucceeded` | `markSucceeded` |
| failing | `MarkFailed` | `markFailedSafely` in the `catch` |
| ackOk, ackFail | `AckCompleted`, `AckFailed`, `AckLost` | BullMQ records the outcome if the lock is still held; the `failed` handler counts |
| down | `Restart` | the process is gone |

`expectStatusUpdate` is `UpdateSucceeds`, and `UpdateThrows` when it throws: the
status did not match, the database failed, or the commit went through and the reply
was lost. BullMQ is external: its behaviour is modelled from the options in
`src/src/lib/queue.ts` (attempts 3, a backoff, the job id as BullMQ id) and its
documented lock and stalled-job rules, with the default of one stalled redelivery.
When BullMQ refuses or loses a call is governed by the constant `Envelope`, listed at the head
of the module. `outputs` is the set of jobs whose output object exists (the key
depends only on the job, so a second upload replaces the first); `purged`, `merges`
and `counted` record what retention has begun to delete, how often a job was started
and what `jobs_failed_total` has counted for it.

Abstracted: what the PDF library computes (success or failure); error codes; job
events; the duration of the backoff and of locks; removal of old jobs from BullMQ
(`removeOnComplete`, `removeOnFail`).

### MergeRoute and the code

`rpc[r]` is the step of the handler of request `r`; `Lookup`, `Validate`, `Create`,
`Recheck`, `EnqueueJob` and `MarkEnqueueFailed` are its database and queue calls in
order. The rate limiter and the parser are one choice in `Arrive`, the validation
of the files another in `Validate`. A key is an actor with a hashed header, a form is
the content of the fingerprint. The unique constraint is `KeyTaken`: it sees rows
only, so a deleted row frees its key. Every database call may fail, which ends the request with
500 (`FailAs`); the insert may also commit with its reply lost. The handler then does not know the job
(`createdJobId` is null) and ends as `unaware`, with a PENDING row it neither queues nor fails. `Die` is the death
of the web process.

### PageOrder and the code

The operators are the checks in their order: `SchemaAccepts` (the zod schema), `IsPageOrder` (length, then
the comparison of two sets), `FindMany` (`id in ...`: each row once, in any order), `Accepts`
(as many rows as ids), `InOrderOf` (the map by id), `PrimaryFile`; and at the worker
`ParseAccepts`, `AllFound`, `InRange`, `OrderedInputs` and `Merged`. `Tables` says that ids are
primary keys.
Abstracted: mime type, status and owner are part of what the table holds; what is in a PDF.

### Retention and the code

`run[c]` is the record of the locals of cleanup run `c`, and its step: `due` is what has expired
at the `now` of the run, `attempted` is `attemptedIds`, `batch` the rest of the query's result with
the keys computed from it (`full` when it had BatchSize rows), `current` the file in hand with the
`keys` still to delete. A run is `Select`, `NextFile`, `RemoveKey` or `RemoveFails`, `DeleteJobs` and
`DeleteFile`. A removal that fails may have taken effect (`RemoveFails`).
The transaction is two steps: `DeleteJobs` fixes which jobs it deletes (`doomed`, rows
others can neither see deleted nor update) and `DeleteFile` commits; a job inserted
between them keeps its row and loses its file (ON DELETE SET NULL). `Abort` is a
crash or a database error, with rollback. The other actions are what uploads,
requests and workers do to the same rows; `AttemptFails` is an attempt that fails in the merge or at
`markSucceeded`, after the upload, and which may be the last. `late` records the jobs something happened
to after their file had expired.

A job references one file row (`fileObjectId`, the input merged first); its other inputs
expire on their own and appear as further files.

### Upload and the code

The browser is the loop of `startPresignedUploads`: `cur` is the file it works on,
`status` what it has told the page about each, `phase` the await it stands at
(`headers` of a response, its `body`, the PUT, the `sleep` before the retry of completion).
`Aborted` is derived from `canceledIds`: cancelling aborts the controller of the current
file only. An abort while a body is read makes `parseJsonSafe` return null, which an ok
response survives and an error does not; `Payloads` and `CompleteBody` say so. A cancel after the presign body has been read is
noticed before the PUT (the last disjunct of `PresignBody`). `presign[i]` is the
server's handler of the presign request, `complete[i, k]` the one of completion request
`k`: the first, its retry, or a copy of either that the network delivers again
(`Duplicate`). A completion reads the row (`Find`), asks the bucket (`Head`, `NotVisible`)
and updates the row without a condition (`UpdateReady`, `UpdateFailed`); `UpdateThrows` may follow a
commit. The PUT reaches the bucket, or not, whether or not its answer does.

`Envelope` governs what may happen in a run; `MCUpload!AnyEvent` allows everything. `Redelivered` names
the files one of whose completion requests is delivered twice, and only while the browser still waits
for headers. `unheard` is a history variable: the files a handler made READY whose answer
never reached the loop.

Abstracted: progress, sizes and etags (the object matches the declared size or not), file
selection and the second batch.

### JobPoll and the code

`live` is the poll whose controller `abortRef` holds and `aborted` one that has been aborted and
not resumed yet; `timer`, `stopped` and `terminal` are `timerRef`, `isStoppedRef` and
`isTerminalRef`; the other variables are what the hook returns. A poll is `sent`, `answered` (the row has been read),
`body` (its headers are in), and ends with `Apply`, `Refused` or `NetworkFails`. An abort rejects the promise
at once, so `Resume` comes before any other event of the page, but after the handler that
aborted, which may have started the next poll. Whether the effect of the aborted poll is
still mounted is kept in `isMounted`. The page's handlers are `Watch`, `Restart`, `Unwatch`, `Cancel`, `Hide` and `Show`.

`Answer` is the handler of `GET /api/jobs/[jobId]`: the row is read once, so the request is
one step between its sending and its headers. `RowStep` and `Expire` move the rows.
`DownloadAnswers` is what `GET /api/download/[jobId]` may answer for a row at this moment.

Abstracted: the length of the delay and its doubling (`delayRef`); the texts of messages,
except that the two final ones are told apart from the others; the render between
`setActiveJobId` and the effect; access checks.

### RateLimit, Metrics, RedisCounters and the code

`call[r]` is one call of `assertRateLimitAllowed`: it waits for the replies of `MULTI INCR, EXPIRE NX, PTTL`
(`waiting`, or `resent`), and is `admitted`, `refused` with `told[r]` seconds, let through because
Redis was unavailable (`open`) or ends in another error (`failed`). `counter[k]` is the Redis key:
its count, its expiry and, as history, the number of its window. `Counted` is INCR with EXPIRE NX;
`LimiterTick` lets time pass in half seconds and takes away what has expired, with the one instant at which
a key is still there and its PTTL is 0. `Decide`, `FailOpen` and `Fail` are the three ways through the
`try`; `Resend` is ioredis sending an unanswered transaction again, so that it is executed twice.

`buckets`, `sum` and `count` of `Metrics` are the keys of the histogram; observing is one MULTI, a scrape
one MGET, so a snapshot is a state. `Rendered` is the loop of `renderHistogram`.

`handler[r]` of `RedisCounters` is where a presign handler stands with Redis: at `assertUploadPresignAllowed`
(`limiter`), at `await incrementUploadPresignCount()` (`count`), or `answered`. Nothing it awaits of Redis comes back while
`up` is false: both connections are made with `maxRetriesPerRequest: null`, so commands stay in the
offline queue of ioredis and are neither answered nor rejected. Redis comes back with its data or
without (`LoseData`).

Abstracted: the hashing and escaping of keys; sizes of clocks and limits; the plain counters, which no code
reads back except the scrape.

## Runs

| Run | Question | Bounds |
|---|---|---|
| `worker_faults` | Is one job processed correctly through every fault (but `ambiguousAdd`), and does BullMQ come to an end with it? | 1 job, 3 workers, 3 attempts, 1 stall (the real options) |
| `worker_lock_loss` | Do lost locks, restarts, a queue that refuses or forgets leave a row RUNNING or an output unreferenced? | 2 jobs, 2 workers |
| `worker_metric` | Is every counted failure a failed row? **No.** | 1 job, 1 worker |
| `merge_route` | Do racing submissions agree, is an accepted job in somebody's hands, and is the retry of an unfinished job pointed to it, through a web process that dies, a queue that refuses and replies that are lost? (And `PageOrder` on all small forms.) | 3 requests (2 forms, 1 key), 2 jobs, 1 worker, 2 attempts; forms and page orders of up to 3 files |
| `merge_route_settles` | Does an accepted submission end? | 2 requests of one form and key, 1 job, 2 workers, 2 attempts; queue refuses, locks are lost, workers restart, rows are deleted |
| `merge_route_retry` | Is a retry always pointed to its job? **No.** | 2 requests |
| `retention` | Is anything lost or deleted too early, do runs end, and does everything expired go? | 2 files, 1 job, 2 overlapping runs, batch size 1 |
| `upload` | Do the rows follow `FileLifecycle`, is the page given what is READY, and does the batch end? | 2 files, 1 completion delivered again |
| `job_poll` | Does the hook poll once at a time, show nothing stale and end? | 2 jobs |
| `job_poll_download` | Is every merged PDF offered for download? **No.** | 1 job |
| `redis_counters` | Are bursts bounded, is retry-after long enough, does the histogram agree? | 1 caller, 3 requests, limit 1, windows of 2 s on a clock of half seconds up to 3 s, 1 loss of data, 2 observations (on a bound, above it, beyond the last) |
| `redis_away` | Does an upload get its URL whatever becomes of Redis? **No.** | 1 request |

Why these bounds suffice: jobs do not interact except through the worker that is
busy with one of them, so one job with three workers (one that lost its lock, one that
took the redelivery, one more) shows every interleaving on a job, and two jobs
show a worker that moves on while the first job is redelivered. The race for an
idempotency key is between two handlers; the third request adds another form.
With batch size 1 and two files a run needs several batches, and a failed file stands
before another one. A batch works on one file at a time, so two files show a file that is
done or canceled before another is begun, and the copy of a completion gives three handlers of
one row. The hook watches one job at a time; two show an answer for the first when the second
is watched. A limit of 1 and three requests of one caller fill a window, are refused in it and
are counted in the next; what several callers do does not interact, for each has its own key, and
windows of two seconds have room for rounding within them and for an end between two seconds. All behaviours of the worker are finite, since attempts, stalled redeliveries
and request ids are, and the clock of `RateLimit` has an end (`EndOfTime`), as have the losses of data
and the observations; nothing is cut off by a state constraint. `CHECK_DEADLOCK FALSE` because the
system may stop when all jobs are done.

### What the four violations show

- `worker_metric`: a worker loses its lock after `markSucceeded`. The job is delivered
  again; `markRunning` refuses the SUCCEEDED row on every attempt; BullMQ gives
  the job up and the `failed` handler counts it in a metric that is described as jobs
  "that reached a failed terminal state", while the row is SUCCEEDED. It takes a worker that dies or
  loses its lock, or a lost reply: without them, as `CountedFailuresDidFail` proves,
  no SUCCEEDED job is counted.
- `merge_route_retry`: the merge page promises that "retried submissions resolve to the
  same job". They do while the job is PENDING or RUNNING; when the job has finished,
  `assertReusableIdempotentJob` answers 409 without a job id, also to the client whose
  first answer was lost. What the code does promise, `RetriesOfUnfinishedResolve`, is checked by
  `merge_route` and proved.
- `job_poll_download`: the README promises a download button "when the worker finishes". The
  worker writes FAILED after each failed attempt and starts the row again on the next; a poll
  between the two reads `failed`, which `isTerminalJobStatus` takes for final, and the page
  stops watching a job that then succeeds.
- `redis_away`: `docs/metrics.md` promises that metrics "fail open so uploads and job processing
  continue normally". `withFailOpenMetrics` catches rejections, but while Redis is away nothing is
  rejected, and the presign route waits for its counter before it answers: an upload whose row exists and
  whose URL is signed hangs until Redis is back (in production with metrics enabled).

### What the envelopes leave out

Some faults break a property in the code as it is; the property is then
checked without them, and the gap is a hazard in `PROJECT.json`:

- `ambiguousAdd` (BullMQ takes a job and reports an error): the request marks FAILED
  whatever a worker has written, so `ExclusiveProcessing`, `RefusedNeverStarts` and the lifecycle need
  its absence.
- `crash` and `lostReply` between `markRunning` and the end leave a row RUNNING for ever:
  the redelivery is refused because RUNNING is not a start status. `RunningIsOwned` and
  `AcceptedSettles` are checked without them.
- A `markSucceeded` that fails (`dbError`) on the last attempt leaves an output object without a row that
  names it, as does a deletion of the row during the merge; `OutputIsReferenced` is
  checked without them. The cleanup cannot find such an object either: `Retention` has it (`AttemptFails`),
  and `TimelyJobsLeaveNothing` is about jobs that SUCCEEDED, at whichever attempt.
- A web process that dies between the row and the queue leaves a PENDING row, and so does an insert whose
  reply is lost (the creator, `unaware`, is answered 500). `AcceptedIsInHand` says that these are the only two
  ways to one while workers do not die, Redis keeps its data and no write fails outright, and excuses exactly
  them; no code recovers such a row. `merge_route` checks it while forms race, with lost replies;
  the theorem adds lost locks and restarts. `merge_route_settles` is without both.
- A job created or finished after its file has expired may outlive the cleanup or leave
  its output; `TimelyJobsLeaveNothing` is about those that had SUCCEEDED before.
- A completion whose answer is lost has made its file READY while the retry is refused;
  `ReadyIsReturned` excuses the files in `unheard`, and only those.

## Fairness

`PdfWorker!Fairness`: a worker with a job in hand continues (`WF`, Node runs pending
callbacks); a dead worker is restarted (`WF`, the supervisor); an idle worker is
handed waiting jobs (`SF`, since it may be restarted again and again and other workers
compete); BullMQ's timers fire (`WF` of `Promote`, `StalledCheck`, and of lock expiry
only for a lock whose owner no longer works on the job). Losing a lock while working,
crashing and deleting are never required. `MergeRoute!Fairness` adds to the
workers' and BullMQ's that a handler that has started runs on; `Retention!Fairness` that the repeatable job fires, that a
run goes on, and that a transaction which waits for rows others keep deleting gets its turn (`SF` of `DeleteJobs`:
the lock queue of PostgreSQL). `ExpiredAreDeleted` assumes that storage failures stop eventually, which
is part of the formula and not of the fairness. `Upload!Fairness`: the browser's event loop and
the handlers go on, and the network answers or fails; neither `fetch` nor the XMLHttpRequest has a
timeout, so the code relies on it. `JobPoll!Fairness`: timers fire, requests are answered and
promises resume. `RedisCounters!Fairness`: a handler goes on if Redis is reachable again and again (`SF`, since ioredis sends
its offline queue on every connection); that Redis comes back is not assumed. `FinalIsShown` and `DownloadIsOffered` assume in the formula that the user stays with a visible page and
that failures stop.

## Proofs

Every theorem holds for any values of the constants the named assumptions allow: any sets of jobs,
files, requests, keys and forms (finite where something is counted), any number of attempts,
stalled redeliveries, files of a batch, limit, window and observations, and any envelope, with these exceptions,
which are faults that break the property or an invariant it rests on:

- \* needs `ambiguousAdd` outside the envelope;
- (a) no `crash`, `dbError`, `lostReply` and `ambiguousAdd`;
- (b) as (a), and no `cleanup`;
- (c) no `crash`, `stall` and `lostReply`;
- (d) no `crash`, `flush` and `dbError`.

| Module | Theorem | States |
|---|---|---|
| `PdfWorkerProofs` | `TypeCorrect` | `Spec => []TypeOK` |
| | `WorkersExclude` * | `Spec => []ExclusiveProcessing` |
| | `CompletedJobsSucceeded` * | `Spec => []CompletedIsSucceeded` |
| | `SucceededJobsHaveOutput` * | `Spec => []SucceededHasOutput` |
| | `RowsFollowLifecycle` * | `Spec => ImplementsLifecycle` |
| | `SucceededStaysSucceeded` * | `Spec => SucceededIsStable` (model-checked as part of the lifecycle) |
| | `FailureCounting` | `Spec => []FailuresCountedOnce` |
| | `MergesAreBounded` | `Spec => []MergesBounded` |
| | `RunningRowsAreOwned` (a), `OutputsAreReferenced` (b) | `RunningIsOwned`, `OutputIsReferenced` |
| | `CountedFailuresDidFail` (c) | `Spec => []CountedFailuresFailed` |
| | `PendingIsInHand` (d) | a queued job whose row is PENDING waits, or is about to be started |
| | `QueueAlwaysAdvances` | `Spec => QueueMakesProgress` |
| `MergeRouteProofs` | `TypeCorrect`, `SubmissionsShareAJob`, `AnswersAreOfTheForm` | `TypeOK`, `OneJobPerKey`, `AcceptedFormMatches` |
| | `RefusedJobsNeverStart` * | `Spec => []RefusedNeverStarts` |
| | `JobsMergeBounded` | `MergesBounded` of the composition |
| | `RoutePromises` *, `RouteRowsFollowLifecycle` * | the worker's invariants and `ImplementsLifecycle` of the composition |
| | `AcceptedStaysInHand` (d) | `Spec => []AcceptedIsInHand` |
| | `RetriesResolve` | `Spec => RetriesOfUnfinishedResolve` |
| `PageOrderProofs` | `PageOrderIsPermutation`, `AcceptedFormsPass`, `StoredInputsAreAccepted`, `AcceptedFormsMerge` | what is accepted is a permutation, later checks pass, the worker accepts it and merges each file once in the order asked for |
| `RetentionProofs` | `TypeCorrect`, `UploadsGoFirst`, `TimelyJobsGo`, `UnexpiredStay` | `TypeOK`, `NoUploadWithoutRow`, `TimelyJobsLeaveNothing`, `UnexpiredUntouched` |
| | `RunsAlwaysAdvance` | `Spec => RunsMakeProgress`, for finitely many files and jobs |
| `UploadProofs` | `TypeCorrect`, `ShownIsReady`, `CancelIsFinal`, `ReadyIsHandedOn` | `TypeOK`, `SuccessIsReady`, `NothingSentAfterCancel`, `ReadyIsReturned` |
| | `UploadImplementsFileLifecycle` | `Spec => ImplementsFileLifecycle` |
| `JobPollProofs` | `TypeCorrect`, `ChainsAreSingle`, `FlagsTellTheTruth`, `PollingEndsAtFinal`, `ShownDataIsTrue`, `StoppedStaysQuiet` | `TypeOK`, `OneChain`, `FlagsAreTrue`, `EndsAtFinal`, `ShownIsTrue`, `CanceledStaysQuiet` |
| `RateLimitProofs` | `TypeCorrect`, `WaitingSuffices`, `BurstsAreBounded` | `LimiterTypeOK`, `RetryAfterSuffices`, `BurstIsBounded` of `LimiterSpec` |
| `RedisCountersProofs` | `CountersTypeCorrect`, `PresignBurstsAreBounded`, `PresignWaitingSuffices` | `TypeOK`, `BurstIsBounded`, `RetryAfterSuffices` |
| | `HistogramAlwaysAgrees` | `Spec => []HistogramAgrees` |

Why each invariant is strengthened:

- `TypeOK` bounds `attempts` by `Attempts`, which needs the queue's own discipline:
  `QueueInv` says that a job that is waiting, active, delayed or lost has attempts left and stalls
  within `MaxStalls`, and that a busy worker has a job in hand that BullMQ knows. `TypeInv` is both.
- `ExclusiveProcessing` is not inductive: it rests on the row. `OwnerInv` says that a worker past
  `markRunning` owns a RUNNING row (or one that is gone), that two do not own the same job,
  that a request which may still overwrite the row has not queued the job, and that a worker
  about to acknowledge success, and a completed job, find SUCCEEDED or nothing.
- `SucceededHasOutput` needs `OutputInv`: a worker about to save has uploaded, and a row
  names an output only when SUCCEEDED. The refinement of `JobLifecycle` follows from the
  same invariants, step by step: each step of `PdfWorker` is one of `Lifecycle!Next` or leaves
  both columns alone (lemma `StepImplementsLifecycle`).
- `MergesBounded` is a counting argument: every start is paid for by a delivery, and every
  delivery by an attempt or a stall, while the deliveries still running are those of the
  workers that hold the job. `MergesPaidFor` and `SumBound` say so with the cardinality of the
  set of workers that have taken a job and not started it, which is why workers are
  assumed to be finite.
- `RunningIsOwned` is inductive over `OwnerInv`: `expectStatusUpdate` refuses every way to RUNNING but one, and
  the `catch` block leaves it. `OutputIsReferenced` rests on `OutputInv`: an output no row names is of a worker that is `Saving` it.
- `CountedFailuresFailed` needs `LockInv` (a worker with a job in hand holds its lock, so a job is in one pair of
  hands) and `DoneInv` (a SUCCEEDED row is of a job BullMQ has completed or lost, or will be told to complete).
- `PendingInHand` needs `HandInv`: a row outlives PENDING in the hands of each worker that is past
  `markRunning`, and a job that has left the waiting list with a PENDING row is still to be started by the worker that took it.
  With `CreatorInv` (a PENDING job the queue has not seen is its creator's) it gives `AcceptedIsInHand` of the composition.
- `QueueMakesProgress` is the part of `QueueDrains` that is safety. `Distance(j)` counts the attempts and stalls left to the
  job and the states before its next delivery; every step that changes the state of the job in BullMQ lowers it, so it
  changes a bounded number of times. What is left to fairness is that it changes at all.

- `MergeRoute`: `RouteInv` ties every request to its row (`RequestInv`: what it owns, what it answers, that a
  refused job is not queued) and keys to rows (`KeysUnique`), over what the requests have to know of the
  queue (`WorkInv`: a job that was never queued is on no worker and was never started). Since it acts on the
  queue and the workers only through actions of `PdfWorker`, the theorems of `PdfWorkerProofs` hold of it too, through an
  instance: type correctness of the queue, `JobsMergeBounded`, `RoutePromises` and `RouteRowsFollowLifecycle`.
- `PageOrder`: the set comparison is enough because a list as long as the set of its members has no member
  twice (a cardinality argument); the same argument shows that as many rows as ids means every id was found.
- `Retention`: `RunInv` says what a run knows. `Covers(K, f)`: to delete the keys K will leave nothing of file f, because
  what is not among them is not in storage any more; it survives what other runs, requests and
  workers do since the file has expired. `RowsInv` says what is true of rows and objects whoever
  works on them.
- `Upload`: `LoopInv` (one item in hand), `FileInv` (what row and object say, given how far handler, PUT and completion are),
  `HandlerInv` (a completion acts on what the object is) and `AnswerInv` (the browser was told the truth) are inductive
  together. `ReadyIsReturned` needs `HeardInv`: as long as nothing of a file was missed, the only handler that runs for
  it is the one the browser waits for, and READY has been or is about to be heard.
- `JobPoll`: the invariants are inductive together with `PollInv` (the live poll is of the mounted effect, and an abort
  that looks like a failure resumes on a hidden page only), `DoneInv` (done once said stays so until deletion) and `QuietInv`.
- `RateLimit`: windows are numbered, and `Placed` says how long ago those before the present one began, a flush
  counting as one more; `PairInv` says so of any two calls. `NumberInv`: the admitted calls of a window can be numbered from
  1 to the limit. Calls within a window's length hence inject into (2 + flushes) windows times the limit.
  `RedisCounters` gets both theorems by composition: it acts on the limiter only through its actions.
- `RunsMakeProgress` is in the same way the safety part of `RunsEnd`. `Left(c)` counts the files a run has not
  attempted and the keys of the one in hand. It needs `Fresh` (the rest of the batch are different files not attempted
  yet, so each costs the run something once) and `Tidy` (from `RunInv`: the keys of a file are the file and
  outputs of jobs, so what one file costs is bounded).
- `RetriesOfUnfinishedResolve`: by `AnswerStep` a 409 is a `ReuseAnswer` for a row under the key, and by `RouteInv` that row is
  the job of the earlier answer.
- `HistogramAgrees`: the sums over observations cannot be taken by induction (the library's induction theorems
  need an operator as parameter), so the lemmas about `SumOver` take the smallest counterexample instead: a sum that
  is wrong somewhere is wrong at a smallest place, and right just before it. `PartialSums` says what the rendered,
  cumulative line of a bound is, `MoreAt` what one more observation adds to it.

Theorems without a property of a run: `PendingIsInHand`, `QueueAlwaysAdvances` and `RunsAlwaysAdvance` carry parts of what
`AcceptedIsInHand`, `QueueDrains` and `RunsEnd` say; TLC agreed with `QueueMakesProgress` under the constants of `worker_faults`, with
`RunsMakeProgress` under those of `retention`, and with `CountedFailuresFailed` in the envelope (c). `TypeOK` of `Upload` is
left to its theorem.

Every safety property of a passing run is a theorem. Model-checked only is liveness (`QueueDrains`, `AcceptedSettles`,
`RunsEnd`, `ExpiredAreDeleted`, `BatchEnds`, `FinalIsShown`), which TLAPS does not prove under fairness. The four violations
are TLC's counterexamples.

## Plan

Done: everything listed under "Modules" and the theorems above. What could follow:

1. The page's idempotency key in `MergeRoute` (`idempotencyKeyRef` kept after a failure) and an upload that completes
   while a submission is awaited.
2. Removal of old BullMQ jobs, a second upload batch in `Upload`, the expiry of download links in `JobPoll`.
3. A number that falls with every step of the upload batch, as for runs and the queue; an abstract specification of
   retention.

## Not modelled

- Guest cookies, middleware and authentication: stateless and cryptographic.
- Storage client, object keys, environment, logging, error formatting: configuration
  and conversions; their effects appear in the modules that call them.
- Pages, navigation and the health check: rendering.
- The `process` stub job type: no code creates such a job.
- Access checks of status and download and the job list: single reads without a change of state.
- The request for a metrics scrape but for its rendering: a token check.
