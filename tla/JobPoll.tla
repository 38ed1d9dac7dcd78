------------------------------ MODULE JobPoll -------------------------------
(***************************************************************************)
(* The hook useJobPoll (src/src/hooks/useJobPoll.ts) as the merge page and *)
(* the polling panel use it: one job is watched, polled at once and then   *)
(* after a delay, paused while the page is hidden, until its status is     *)
(* final.  The rows it reads through GET /api/jobs/[jobId] move as         *)
(* JobLifecycle says and expire.                                           *)
(*                                                                         *)
(* Every await of a poll is a step.  A poll that is aborted resumes before *)
(* the browser handles another event, since abort rejects its promise at   *)
(* once; but it resumes after the handler that aborted it, which may have  *)
(* started the next poll.                                                  *)
(***************************************************************************)
CONSTANTS
    Jobs,           \* the job ids
    NoJob           \* the page watches nothing

ASSUME NoJobAssumption == NoJob \notin Jobs

VARIABLES
    \* of JobLifecycle:
    status, outputRef,
    expired,        \* finished jobs older than the retention time
    \* the page
    jobId,          \* normalizedJobId of the effect that is mounted, or NoJob
    hidden,         \* document.hidden
    \* the refs of the hook
    timer,          \* whether a timeout is pending
    live,           \* the poll abortRef belongs to, or NoPoll
    aborted,        \* the poll aborted last, until it has resumed, or NoPoll
    stopped,        \* isStoppedRef
    terminal,       \* isTerminalRef
    \* what the hook returns
    data, error, isLoading, isPaused, isPolling

Lifecycle == INSTANCE JobLifecycle

serverVars == <<status, outputRef, expired>>
flagVars == <<isLoading, isPaused, isPolling>>
refVars == <<timer, live, aborted, stopped, terminal>>
hookVars == <<timer, live, aborted, stopped, terminal, data, error,
              isLoading, isPaused, isPolling>>
vars == <<status, outputRef, expired, jobId, hidden, timer, live, aborted,
          stopped, terminal, data, error, isLoading, isPaused, isPolling>>

Said == {"pending", "processing", "done", "failed"}
Refusals == {"NOT_FOUND", "JOB_EXPIRED", "unavailable"}

\* A poll, how far its request is, and whether its effect is still mounted.
Poll(j) == [job |-> j, step |-> "sent", answer |-> "none", isMounted |-> TRUE]
NoPoll == [Poll(NoJob) EXCEPT !.step = "over"]
Polls == [job : Jobs \cup {NoJob}, step : {"sent", "answered", "body", "over"},
          answer : Said \cup Refusals \cup {"none"}, isMounted : BOOLEAN]

NoData == [job |-> NoJob, status |-> "none"]

TypeOK ==
    /\ Lifecycle!TypeOK
    /\ expired \subseteq Jobs
    /\ jobId \in Jobs \cup {NoJob}
    /\ live \in Polls /\ aborted \in Polls
    /\ data \in [job : Jobs, status : Said] \cup {NoData}
    /\ error \in {"none", "transient"} \cup Refusals
    /\ hidden \in BOOLEAN /\ timer \in BOOLEAN /\ stopped \in BOOLEAN /\ terminal \in BOOLEAN
    /\ isLoading \in BOOLEAN /\ isPaused \in BOOLEAN /\ isPolling \in BOOLEAN

Init ==
    /\ Lifecycle!Init
    /\ expired = {}
    /\ jobId = NoJob
    /\ hidden \in BOOLEAN
    /\ timer = FALSE
    /\ live = NoPoll /\ aborted = NoPoll
    /\ stopped = TRUE /\ terminal = FALSE
    /\ data = NoData /\ error = "none"
    /\ isLoading = FALSE /\ isPaused = FALSE /\ isPolling = FALSE

----------------------------------------------------------------------------
(* GET /api/jobs/[jobId].                                                  *)

\* toSafeJobProjection, and the refusals before it.
Answer(j) ==
    CASE status[j] \in {"NONE", "DELETED"} -> "NOT_FOUND"
      [] status[j] \in {"SUCCEEDED", "FAILED"} /\ j \in expired -> "JOB_EXPIRED"
      [] status[j] = "PENDING" -> "pending"
      [] status[j] = "RUNNING" -> "processing"
      [] status[j] = "FAILED" -> "failed"
      [] status[j] = "SUCCEEDED" -> IF outputRef[j] THEN "done" ELSE "unavailable"

\* What GET /api/download/[jobId] answers now.  The object may have gone before
\* the row, the storage may fail, and the event it records does not matter.
DownloadAnswers(j) ==
    CASE status[j] \in {"NONE", "DELETED"} -> {"NOT_FOUND"}
      [] status[j] \in {"PENDING", "RUNNING", "FAILED"} -> {"JOB_NOT_READY"}
      [] status[j] = "SUCCEEDED" /\ j \in expired -> {"JOB_EXPIRED"}
      [] OTHER -> IF outputRef[j] THEN {"redirect", "JOB_EXPIRED", "unavailable"}
                                  ELSE {"unavailable"}

\* The row is read at some moment between the request and its answer.
Serve ==
    /\ live.step = "sent"
    /\ live' = [live EXCEPT !.step = "answered", !.answer = Answer(live.job)]
    /\ UNCHANGED <<serverVars, jobId, hidden, timer, aborted, stopped, terminal,
                   data, error, flagVars>>

\* The rate limit, the database or the signing of the URL refuses.
Unavailable ==
    /\ live.step = "sent"
    /\ live' = [live EXCEPT !.step = "answered", !.answer = "unavailable"]
    /\ UNCHANGED <<serverVars, jobId, hidden, timer, aborted, stopped, terminal,
                   data, error, flagVars>>

\* A row that is started again has not finished yet.
RowStep ==
    /\ Lifecycle!Next
    /\ expired' = {j \in expired : status'[j] = status[j]}
    /\ UNCHANGED <<jobId, hidden, hookVars>>

Expire(j) ==
    /\ status[j] \in {"SUCCEEDED", "FAILED"}
    /\ expired' = expired \cup {j}
    /\ UNCHANGED <<status, outputRef, jobId, hidden, hookVars>>

----------------------------------------------------------------------------
(* The pieces the handlers of the hook are made of.                        *)

\* abortInFlight, by the effect of the poll or when that is cleaned up.
Abort(mounted) ==
    aborted' = IF live = NoPoll THEN aborted ELSE [live EXCEPT !.isMounted = mounted]

\* clearTimer and abortInFlight.
Drop(mounted) == timer' = FALSE /\ live' = NoPoll /\ Abort(mounted)

\* poll(), up to its fetch, of an effect that is neither stopped nor terminal.
Begin(j) ==
    IF hidden'
    THEN /\ live' = NoPoll
         /\ isPaused' = TRUE /\ isPolling' = FALSE
         /\ UNCHANGED isLoading
    ELSE /\ live' = Poll(j)
         /\ isPaused' = FALSE /\ isPolling' = TRUE /\ isLoading' = TRUE

\* scheduleNext.
Schedule ==
    /\ timer' = ~hidden
    /\ isPaused' = hidden /\ isPolling' = ~hidden

\* The finally block of the poll that abortRef belongs to.  (Mutant: it returns
\* before the flag is reset.)
FinishSilently == live' = NoPoll /\ UNCHANGED isLoading
Finish == live' = NoPoll /\ isLoading' = FALSE

\* response.ok.  (Mutant: it is not looked at.)
IsOkAlways(answer) == TRUE
IsOk(answer) == answer \in Said

\* isTerminalJobStatus and isTerminalPollError.  (Mutant: 410 is like any other
\* error.)
FinalStatus == {"done", "failed"}
FinalErrorsUnexpired == {"NOT_FOUND"}
FinalErrors == {"NOT_FOUND", "JOB_EXPIRED"}

\* stopPolling.
Stop(mounted) ==
    /\ stopped' = TRUE /\ terminal' = FALSE
    /\ Drop(mounted)
    /\ data' = NoData /\ error' = "none"
    /\ isLoading' = FALSE /\ isPaused' = FALSE /\ isPolling' = FALSE

----------------------------------------------------------------------------
(* Polls.                                                                  *)

Headers ==
    /\ live.step = "answered"
    /\ live' = [live EXCEPT !.step = "body"]
    /\ UNCHANGED <<serverVars, jobId, hidden, timer, aborted, stopped, terminal,
                   data, error, flagVars>>

\* A status arrives.
Apply ==
    /\ live.step = "body" /\ IsOk(live.answer)
    /\ data' = [job |-> live.job, status |-> live.answer]
    /\ error' = "none"
    /\ IF live.answer \in FinalStatus
       THEN /\ terminal' = TRUE
            /\ isPolling' = FALSE
            /\ UNCHANGED <<timer, isPaused>>
       ELSE Schedule /\ UNCHANGED terminal
    /\ Finish
    /\ UNCHANGED <<serverVars, jobId, hidden, aborted, stopped>>

\* The catch block, for an error that is not an abort.  (Mutant: isTerminalRef
\* is not reset for an error that may pass.)
CatchForGood(message) ==
    /\ error' = message
    /\ terminal' = TRUE
    /\ IF message \in FinalErrors THEN isPolling' = FALSE /\ UNCHANGED <<timer, isPaused>>
                                   ELSE Schedule

Catch(message) ==
    /\ error' = message
    /\ IF message \in FinalErrors
       THEN /\ terminal' = TRUE
            /\ isPolling' = FALSE
            /\ UNCHANGED <<timer, isPaused>>
       ELSE terminal' = FALSE /\ Schedule

\* A refusal arrives.
Refused ==
    /\ live.step = "body" /\ ~IsOk(live.answer)
    /\ Catch(live.answer)
    /\ Finish
    /\ UNCHANGED <<serverVars, jobId, hidden, aborted, stopped, data>>

\* The connection fails, before the headers or within the body.
NetworkFails ==
    /\ live # NoPoll
    /\ Catch("transient")
    /\ Finish
    /\ UNCHANGED <<serverVars, jobId, hidden, aborted, stopped, data>>

TimerFires ==
    /\ timer
    /\ timer' = FALSE
    /\ UNCHANGED hidden
    /\ Begin(jobId) /\ Abort(TRUE)
    /\ UNCHANGED <<serverVars, jobId, stopped, terminal, data, error>>

\* An aborted poll resumes.  While its body was read, the abort looks like a
\* body that cannot be parsed, hence like any other error.  (Mutant: isStoppedRef
\* is not looked at.)
ResumeUnaware ==
    /\ aborted # NoPoll
    /\ aborted' = NoPoll
    /\ IF aborted.step = "body" /\ aborted.isMounted
       THEN Catch("transient")
       ELSE UNCHANGED <<error, terminal, timer, isPaused, isPolling>>
    /\ UNCHANGED <<serverVars, jobId, hidden, live, stopped, data, isLoading>>

Resume ==
    /\ aborted # NoPoll
    /\ aborted' = NoPoll
    /\ IF aborted.step = "body" /\ aborted.isMounted /\ ~stopped
       THEN Catch("transient")
       ELSE UNCHANGED <<error, terminal, timer, isPaused, isPolling>>
    /\ UNCHANGED <<serverVars, jobId, hidden, live, stopped, data, isLoading>>

----------------------------------------------------------------------------
(* The page and its user.                                                  *)

\* The cleanup of the effect that was mounted and the start of the next one.
\* (Mutant: what the last one has shown is kept.)
RunEffectKeepsData(j) ==
    /\ timer' = FALSE
    /\ Abort(FALSE)
    /\ stopped' = FALSE /\ terminal' = FALSE
    /\ error' = "none"
    /\ UNCHANGED <<hidden, data>>
    /\ Begin(j)

RunEffect(j) ==
    /\ timer' = FALSE
    /\ Abort(FALSE)
    /\ stopped' = FALSE /\ terminal' = FALSE
    /\ data' = NoData /\ error' = "none"
    /\ UNCHANGED hidden
    /\ Begin(j)

\* A job is submitted, or the id of one entered.
Watch(j) ==
    /\ j # jobId /\ status[j] # "NONE"
    /\ jobId' = j
    /\ RunEffect(j)
    /\ UNCHANGED serverVars

Restart ==
    /\ jobId # NoJob /\ data.status # "done"
    /\ RunEffect(jobId)
    /\ UNCHANGED <<serverVars, jobId>>

\* A new batch of files has been uploaded.
Unwatch ==
    /\ jobId # NoJob
    /\ jobId' = NoJob
    /\ Stop(FALSE)
    /\ UNCHANGED <<serverVars, hidden>>

Cancel ==
    /\ isPolling \/ isLoading
    /\ Stop(TRUE)
    /\ UNCHANGED <<serverVars, jobId, hidden>>

Listening == jobId # NoJob /\ ~stopped /\ ~terminal

\* The page is hidden.  (Mutant: the timer is not cleared.)
HideKeepsTimer ==
    /\ ~hidden /\ hidden' = TRUE
    /\ IF Listening
       THEN /\ live' = NoPoll /\ Abort(TRUE)
            /\ isLoading' = FALSE /\ isPaused' = TRUE /\ isPolling' = FALSE
       ELSE UNCHANGED <<live, aborted, flagVars>>
    /\ UNCHANGED <<serverVars, jobId, timer, stopped, terminal, data, error>>

Hide ==
    /\ ~hidden /\ hidden' = TRUE
    /\ IF Listening
       THEN /\ Drop(TRUE)
            /\ isLoading' = FALSE /\ isPaused' = TRUE /\ isPolling' = FALSE
       ELSE UNCHANGED <<timer, live, aborted, flagVars>>
    /\ UNCHANGED <<serverVars, jobId, stopped, terminal, data, error>>

Show ==
    /\ hidden /\ hidden' = FALSE
    /\ IF Listening
       THEN Begin(jobId) /\ Abort(TRUE)
       ELSE UNCHANGED <<live, aborted, flagVars>>
    /\ UNCHANGED <<serverVars, jobId, timer, stopped, terminal, data, error>>

----------------------------------------------------------------------------
UserStep == (\E j \in Jobs : Watch(j)) \/ Restart \/ Unwatch \/ Cancel \/ Hide \/ Show

HookStep == Headers \/ Apply \/ Refused \/ TimerFires

ServerNext == RowStep \/ \E j \in Jobs : Expire(j)

Next ==
    \/ Resume
    \/ aborted = NoPoll /\ (UserStep \/ HookStep \/ Serve \/ Unavailable \/ NetworkFails)
    \/ ServerNext

Spec == Init /\ [][Next]_vars

\* Timers fire, requests are answered and promises are resumed.
Fairness == WF_vars(Resume) /\ WF_vars(aborted = NoPoll /\ (HookStep \/ Serve))

FairSpec == Spec /\ Fairness

----------------------------------------------------------------------------
(* Properties.                                                             *)

\* What is shown belongs to the job the page watches now: an answer to a poll
\* for an earlier job, or from before a restart, is never applied.  And while
\* "done" is shown, the download of the job is never refused as not ready,
\* whatever became of its row since the poll.
ShownIsTrue ==
    data # NoData =>
        /\ data.job = jobId
        /\ data.status = "done" => "JOB_NOT_READY" \notin DownloadAnswers(jobId)

\* There is exactly one chain of polls while a job is watched on a visible
\* page, and none otherwise: hiding, showing, restarting, cancelling and
\* aborted polls that resume late neither start a second one nor lose the only
\* one.
OneChain ==
    /\ ~(timer /\ live # NoPoll)
    /\ timer \/ live # NoPoll <=> Listening /\ ~hidden

\* What the page says about polling is what happens: "Request in flight",
\* "Polling active" and "Polling paused" never stay on when it is over.
FlagsAreTrue ==
    /\ isLoading <=> live # NoPoll
    /\ isPolling <=> timer \/ live # NoPoll
    /\ isPaused <=> Listening /\ hidden

\* Polling ends by itself only at a final status or a final refusal; an error
\* that may pass, or a poll that was aborted, does not end it.
EndsAtFinal ==
    terminal => data.status \in FinalStatus \/ error \in FinalErrors

\* After "Cancel polling" nothing is polled and nothing appears any more, also
\* when an answer was being read, until polling is started again.
CanceledStaysQuiet ==
    [][stopped /\ stopped' =>
        timer' = FALSE /\ live' = NoPoll /\ data' = NoData /\ error' = "none"]_vars

Undisturbed == [][~(UserStep \/ Unavailable \/ NetworkFails)]_vars

\* Once a job has come to its end and the user stays with it on a visible page,
\* polling ends, whatever went wrong before.
FinalIsShown ==
    \A j \in Jobs :
        /\ <>[](jobId = j /\ ~hidden /\ ~stopped)
        /\ <>[](status[j] \in {"SUCCEEDED", "FAILED", "DELETED"})
        /\ <>Undisturbed
        => <>terminal

\* "when the worker finishes, the page shows a download button for the merged
\* PDF" (README.md): while the user stays with a job that has succeeded and
\* neither expires nor is deleted, the page comes to show it as done.
DownloadIsOffered ==
    \A j \in Jobs :
        /\ <>[](jobId = j /\ ~hidden /\ ~stopped)
        /\ <>[](status[j] = "SUCCEEDED" /\ j \notin expired)
        /\ <>Undisturbed
        => <>(data = [job |-> j, status |-> "done"])

=============================================================================
