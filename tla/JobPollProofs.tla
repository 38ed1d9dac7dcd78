---------------------------- MODULE JobPollProofs ---------------------------
(***************************************************************************)
(* Proofs about JobPoll, for any number of jobs.                           *)
(***************************************************************************)
EXTENDS JobPoll, TLAPS

\* The poll that is live is one for the job that is watched, by the effect that
\* is mounted; a poll that was aborted while its body was read, and that has to
\* be taken for a failed one, resumes while the page is hidden.
PollInv ==
    /\ live # NoPoll => /\ live.job = jobId /\ live.isMounted = TRUE
                        /\ live.step \in {"sent", "answered", "body"}
    /\ aborted.step = "body" /\ aborted.isMounted = TRUE /\ ~stopped => Listening /\ hidden

\* A job that was said to be done stays so until it is deleted.
FinishedRows == {j \in Jobs : status[j] \in {"SUCCEEDED", "DELETED"}}

DoneInv ==
    /\ live.answer = "done" => live.job \in FinishedRows
    /\ data.status = "done" => data.job \in FinishedRows
    /\ data # NoData => data.job = jobId

\* After "Cancel polling" nothing is shown.
QuietInv == stopped => data = NoData /\ error = "none" /\ ~terminal

IInv ==
    /\ TypeOK /\ OneChain /\ FlagsAreTrue /\ EndsAtFinal
    /\ PollInv /\ DoneInv /\ QuietInv

USE NoJobAssumption

----------------------------------------------------------------------------
(* Polls and answers.                                                      *)

Answers == Said \cup Refusals \cup {"none"}

LEMMA PollFacts ==
    /\ NoPoll \in Polls /\ NoPoll.step = "over" /\ NoPoll.job = NoJob /\ NoPoll.answer = "none"
    /\ \A j \in Jobs : /\ Poll(j) \in Polls /\ Poll(j) # NoPoll /\ Poll(j).step = "sent"
                       /\ Poll(j).job = j /\ Poll(j).answer = "none" /\ Poll(j).isMounted = TRUE
    /\ NoData.job = NoJob /\ NoData.status = "none"
BY DEF NoPoll, Poll, Polls, NoData

LEMMA PollParts ==
    ASSUME NEW p \in Polls
    PROVE  p.job \in Jobs \cup {NoJob} /\ p.answer \in Answers /\ p.isMounted \in BOOLEAN
BY DEF Polls, Answers

\* The response has come.
LEMMA PollAnswered ==
    ASSUME NEW p \in Polls, NEW a \in Answers
    PROVE  LET q == [p EXCEPT !.step = "answered", !.answer = a]
           IN  /\ q \in Polls /\ q # NoPoll /\ q.step = "answered"
               /\ q.answer = a /\ q.job = p.job /\ q.isMounted = p.isMounted
BY PollFacts DEF Polls, Answers

\* Its headers have.
LEMMA PollHeaded ==
    ASSUME NEW p \in Polls
    PROVE  LET q == [p EXCEPT !.step = "body"]
           IN  /\ q \in Polls /\ q # NoPoll /\ q.step = "body"
               /\ q.answer = p.answer /\ q.job = p.job /\ q.isMounted = p.isMounted
BY PollFacts DEF Polls, Answers

\* abortInFlight.
LEMMA PollAborted ==
    ASSUME live \in Polls, aborted \in Polls, NEW mounted \in BOOLEAN, Abort(mounted)
    PROVE  /\ aborted' \in Polls
           /\ live = NoPoll => aborted' = aborted
           /\ live # NoPoll => aborted'.isMounted = mounted
BY DEF Abort, Polls

\* The status route says "done" of finished jobs only.
LEMMA AnswerFacts ==
    ASSUME TypeOK, NEW j \in Jobs
    PROVE  /\ Answer(j) \in Said \cup Refusals
           /\ Answer(j) = "done" => j \in FinishedRows
<1>1. status[j] \in {"NONE", "PENDING", "RUNNING", "SUCCEEDED", "FAILED", "DELETED"}
  BY DEF TypeOK, Lifecycle!TypeOK, Lifecycle!Status
<1> QED BY <1>1 DEF Answer, Said, Refusals, FinishedRows

LEMMA InitInv == Init => IInv
<1> SUFFICES ASSUME Init PROVE IInv
  OBVIOUS
<1>1. TypeOK
  BY PollFacts DEF Init, TypeOK, Lifecycle!Init, Lifecycle!TypeOK, Lifecycle!Status
<1>2. OneChain /\ FlagsAreTrue /\ EndsAtFinal /\ PollInv /\ DoneInv /\ QuietInv
  BY PollFacts DEF Init, OneChain, FlagsAreTrue, EndsAtFinal, PollInv, DoneInv,
     QuietInv, Listening
<1> QED BY <1>1, <1>2 DEF IInv

----------------------------------------------------------------------------
(* Every step keeps the invariant.                                         *)

\* The answer comes nearer.
LEMMA PollAdvances ==
    ASSUME IInv,
           live' \in Polls, live' # NoPoll, live # NoPoll,
           live'.step \in {"sent", "answered", "body"}, live'.job = live.job,
           live'.isMounted = live.isMounted,
           live'.answer = "done" => live.job \in FinishedRows,
           UNCHANGED <<serverVars, jobId, hidden, timer, aborted, stopped, terminal,
                       data, error, flagVars>>
    PROVE  IInv'
<1> USE DEF serverVars, flagVars
<1>1. TypeOK'
  BY DEF IInv, TypeOK, Lifecycle!TypeOK
<1>2. OneChain' /\ FlagsAreTrue' /\ EndsAtFinal' /\ QuietInv'
  BY DEF IInv, OneChain, FlagsAreTrue, EndsAtFinal, QuietInv, Listening
<1>3. PollInv' /\ DoneInv'
  BY DEF IInv, PollInv, DoneInv, FinishedRows, Listening
<1> QED BY <1>1, <1>2, <1>3 DEF IInv

LEMMA ServeKeeps == IInv /\ Serve => IInv'
<1> SUFFICES ASSUME IInv, Serve PROVE IInv'
  OBVIOUS
<1>0. /\ live' \in Polls /\ live' # NoPoll /\ live # NoPoll
      /\ live'.step \in {"sent", "answered", "body"} /\ live'.job = live.job
      /\ live'.isMounted = live.isMounted
      /\ live'.answer = "done" => live.job \in FinishedRows
  <2>1. live \in Polls /\ live # NoPoll /\ live.job \in Jobs
    BY PollFacts, PollParts DEF IInv, TypeOK, OneChain, PollInv, Listening, Serve
  <2>2. Answer(live.job) \in Answers /\ (Answer(live.job) = "done" => live.job \in FinishedRows)
    BY <2>1, AnswerFacts DEF IInv, Answers
  <2>3. live' = [live EXCEPT !.step = "answered", !.answer = Answer(live.job)]
    BY DEF Serve
  <2>4. /\ live' \in Polls /\ live' # NoPoll /\ live'.step \in {"answered", "body"}
        /\ live'.answer = Answer(live.job) /\ live'.job = live.job
        /\ live'.isMounted = live.isMounted
    BY <2>1, <2>2, <2>3, PollAnswered
  <2> QED BY <2>1, <2>2, <2>4
<1>1. UNCHANGED <<serverVars, jobId, hidden, timer, aborted, stopped, terminal,
                   data, error, flagVars>>
  BY DEF Serve
<1> QED
  BY <1>0, <1>1, PollAdvances

LEMMA UnavailableKeeps == IInv /\ Unavailable => IInv'
<1> SUFFICES ASSUME IInv, Unavailable PROVE IInv'
  OBVIOUS
<1>0. /\ live' \in Polls /\ live' # NoPoll /\ live # NoPoll
      /\ live'.step \in {"sent", "answered", "body"} /\ live'.job = live.job
      /\ live'.isMounted = live.isMounted
      /\ live'.answer = "done" => live.job \in FinishedRows
  <2>1. live \in Polls /\ live # NoPoll
    BY PollFacts DEF IInv, TypeOK, Unavailable
  <2>2. live' = [live EXCEPT !.step = "answered", !.answer = "unavailable"]
    BY DEF Unavailable
  <2>3. "unavailable" \in Answers
    BY DEF Answers, Refusals
  <2>4. /\ live' \in Polls /\ live' # NoPoll /\ live'.step \in {"answered", "body"}
        /\ live'.answer = "unavailable" /\ live'.job = live.job
        /\ live'.isMounted = live.isMounted
    BY <2>1, <2>2, <2>3, PollAnswered
  <2> QED BY <2>1, <2>4
<1>1. UNCHANGED <<serverVars, jobId, hidden, timer, aborted, stopped, terminal,
                   data, error, flagVars>>
  BY DEF Unavailable
<1> QED
  BY <1>0, <1>1, PollAdvances

LEMMA HeadersKeeps == IInv /\ Headers => IInv'
<1> SUFFICES ASSUME IInv, Headers PROVE IInv'
  OBVIOUS
<1>0. /\ live' \in Polls /\ live' # NoPoll /\ live # NoPoll
      /\ live'.step \in {"sent", "answered", "body"} /\ live'.job = live.job
      /\ live'.isMounted = live.isMounted
      /\ live'.answer = "done" => live.job \in FinishedRows
  <2>1. live \in Polls /\ live # NoPoll
    BY PollFacts DEF IInv, TypeOK, Headers
  <2>2. live' = [live EXCEPT !.step = "body"] /\ live.answer \in Answers
    BY <2>1, PollParts DEF Headers
  <2>4. /\ live' \in Polls /\ live' # NoPoll /\ live'.step \in {"answered", "body"}
        /\ live'.answer = live.answer /\ live'.job = live.job
        /\ live'.isMounted = live.isMounted
    BY <2>1, <2>2, PollHeaded
  <2> QED BY <2>1, <2>4 DEF IInv, DoneInv
<1>1. UNCHANGED <<serverVars, jobId, hidden, timer, aborted, stopped, terminal,
                   data, error, flagVars>>
  BY DEF Headers
<1> QED
  BY <1>0, <1>1, PollAdvances

LEMMA ApplyKeeps == IInv /\ Apply => IInv'
<1> SUFFICES ASSUME IInv, Apply PROVE IInv'
  OBVIOUS
<1>0. live \in Polls /\ live # NoPoll /\ live.job \in Jobs /\ live.job = jobId
  BY PollFacts DEF IInv, TypeOK, OneChain, PollInv, Listening, Apply
<1>a. data' \in [job : Jobs, status : Said] /\ data'.job = jobId /\ data'.status = live.answer
  BY <1>0 DEF Apply, IsOk
<1>1. TypeOK'
  BY <1>a, PollFacts DEF IInv, TypeOK, Lifecycle!TypeOK, Said, serverVars, flagVars,
     Apply, Finish, Schedule, IsOk
<1>2. OneChain' /\ FlagsAreTrue'
  BY <1>0, <1>a, PollFacts DEF IInv, TypeOK, OneChain, FlagsAreTrue, Listening,
     serverVars, flagVars, Apply, Finish, Schedule, IsOk, FinalStatus, Said
<1>3. PollInv'
  BY <1>0, <1>a, PollFacts DEF IInv, TypeOK, OneChain, FlagsAreTrue, PollInv, QuietInv,
     Listening, serverVars, flagVars, Apply, Finish, Schedule, IsOk, FinalStatus, Said
<1>4. DoneInv' /\ QuietInv'
  BY <1>0, <1>a, PollFacts DEF IInv, TypeOK, OneChain, PollInv, DoneInv, QuietInv,
     FinishedRows, Listening, serverVars, flagVars, Apply, Finish, Schedule, IsOk,
     FinalStatus, Said
<1>5. EndsAtFinal'
  BY <1>0, <1>a, PollFacts DEF IInv, TypeOK, OneChain, EndsAtFinal, QuietInv,
     FinalStatus, FinalErrors, Listening, serverVars, flagVars, Apply, Finish, Schedule,
     IsOk, FinalStatus, Said
<1> QED BY <1>1, <1>2, <1>3, <1>4, <1>5 DEF IInv

LEMMA RefusedKeeps == IInv /\ Refused => IInv'
<1> SUFFICES ASSUME IInv, Refused PROVE IInv'
  OBVIOUS
<1>0. error' \in {"none", "transient"} \cup Refusals
  BY PollParts DEF IInv, TypeOK, Answers, Refused, Catch, IsOk
<1>1. TypeOK'
  BY <1>0, PollFacts DEF IInv, TypeOK, Lifecycle!TypeOK, serverVars, flagVars, Refused,
     Catch, Finish, Schedule
<1>2. OneChain' /\ FlagsAreTrue'
  BY PollFacts DEF IInv, TypeOK, OneChain, FlagsAreTrue, Listening, serverVars,
     flagVars, Refused, Catch, Finish, Schedule, IsOk, FinalErrors
<1>3. PollInv'
  BY PollFacts DEF IInv, TypeOK, OneChain, FlagsAreTrue, PollInv, QuietInv, Listening,
     serverVars, flagVars, Refused, Catch, Finish, Schedule, IsOk, FinalErrors
<1>4. DoneInv' /\ QuietInv'
  BY PollFacts DEF IInv, TypeOK, OneChain, PollInv, DoneInv, QuietInv, FinishedRows,
     Listening, serverVars, flagVars, Refused, Catch, Finish, Schedule, IsOk,
     FinalErrors
<1>5. EndsAtFinal'
  BY PollFacts DEF IInv, TypeOK, OneChain, EndsAtFinal, QuietInv, FinalStatus,
     FinalErrors, Listening, serverVars, flagVars, Refused, Catch, Finish, Schedule,
     IsOk, FinalErrors
<1> QED BY <1>1, <1>2, <1>3, <1>4, <1>5 DEF IInv

LEMMA NetworkFailsKeeps == IInv /\ NetworkFails => IInv'
<1> SUFFICES ASSUME IInv, NetworkFails PROVE IInv'
  OBVIOUS
<1>0. error' \in {"none", "transient"} \cup Refusals
  BY PollParts DEF IInv, TypeOK, Answers, NetworkFails, Catch, IsOk
<1>1. TypeOK'
  BY <1>0, PollFacts DEF IInv, TypeOK, Lifecycle!TypeOK, serverVars, flagVars,
     NetworkFails, Catch, Finish, Schedule
<1>2. OneChain' /\ FlagsAreTrue'
  BY PollFacts DEF IInv, TypeOK, OneChain, FlagsAreTrue, Listening, serverVars,
     flagVars, NetworkFails, Catch, Finish, Schedule, IsOk, FinalErrors
<1>3. PollInv'
  BY PollFacts DEF IInv, TypeOK, OneChain, FlagsAreTrue, PollInv, QuietInv, Listening,
     serverVars, flagVars, NetworkFails, Catch, Finish, Schedule, IsOk, FinalErrors
<1>4. DoneInv' /\ QuietInv'
  BY PollFacts DEF IInv, TypeOK, OneChain, PollInv, DoneInv, QuietInv, FinishedRows,
     Listening, serverVars, flagVars, NetworkFails, Catch, Finish, Schedule, IsOk,
     FinalErrors
<1>5. EndsAtFinal'
  BY PollFacts DEF IInv, TypeOK, OneChain, EndsAtFinal, QuietInv, FinalStatus,
     FinalErrors, Listening, serverVars, flagVars, NetworkFails, Catch, Finish,
     Schedule, IsOk, FinalErrors
<1> QED BY <1>1, <1>2, <1>3, <1>4, <1>5 DEF IInv

LEMMA TimerFiresKeeps == IInv /\ TimerFires => IInv'
<1> SUFFICES ASSUME IInv, TimerFires PROVE IInv'
  OBVIOUS
<1>0. aborted' \in Polls /\ (live = NoPoll => aborted' = aborted) /\ (live # NoPoll => aborted'.isMounted = TRUE)
  BY PollAborted DEF IInv, TypeOK, TimerFires
<1>1. TypeOK'
  BY <1>0, PollFacts DEF IInv, TypeOK, Lifecycle!TypeOK, OneChain, Listening,
     serverVars, flagVars, TimerFires, Begin
<1>2. OneChain' /\ FlagsAreTrue'
  BY <1>0, PollFacts DEF IInv, TypeOK, OneChain, FlagsAreTrue, Listening, serverVars,
     flagVars, TimerFires, Begin
<1>3. PollInv'
  BY <1>0, PollFacts DEF IInv, TypeOK, OneChain, FlagsAreTrue, PollInv, QuietInv,
     Listening, serverVars, flagVars, TimerFires, Begin
<1>4. DoneInv' /\ QuietInv'
  BY <1>0, PollFacts DEF IInv, TypeOK, OneChain, PollInv, DoneInv, QuietInv,
     FinishedRows, Listening, serverVars, flagVars, TimerFires, Begin
<1>5. EndsAtFinal'
  BY <1>0, PollFacts DEF IInv, TypeOK, OneChain, EndsAtFinal, QuietInv, FinalStatus,
     FinalErrors, Listening, serverVars, flagVars, TimerFires, Begin
<1> QED BY <1>1, <1>2, <1>3, <1>4, <1>5 DEF IInv

LEMMA ResumeKeeps == IInv /\ Resume => IInv'
<1> SUFFICES ASSUME IInv, Resume PROVE IInv'
  OBVIOUS
<1>0. aborted.step = "body" /\ aborted.isMounted /\ ~stopped =>
        Listening /\ hidden = TRUE /\ timer = FALSE /\ live = NoPoll
  BY DEF IInv, TypeOK, OneChain, PollInv, Polls
<1>1. TypeOK'
  BY PollFacts DEF IInv, TypeOK, Lifecycle!TypeOK, Refusals, serverVars, flagVars,
     Resume, Catch, Schedule
<1>2. OneChain' /\ FlagsAreTrue'
  BY <1>0, PollFacts DEF IInv, TypeOK, OneChain, FlagsAreTrue, Listening, serverVars,
     flagVars, Resume, Catch, Schedule, FinalErrors
<1>3. PollInv'
  BY <1>0, PollFacts DEF IInv, TypeOK, OneChain, FlagsAreTrue, PollInv, QuietInv,
     Listening, serverVars, flagVars, Resume, Catch, Schedule, FinalErrors
<1>4. DoneInv' /\ QuietInv'
  BY <1>0, PollFacts DEF IInv, TypeOK, OneChain, PollInv, DoneInv, QuietInv,
     FinishedRows, Listening, serverVars, flagVars, Resume, Catch, Schedule, FinalErrors
<1>5. EndsAtFinal'
  BY <1>0, PollFacts DEF IInv, TypeOK, OneChain, EndsAtFinal, QuietInv, FinalStatus,
     FinalErrors, Listening, serverVars, flagVars, Resume, Catch, Schedule, FinalErrors
<1> QED BY <1>1, <1>2, <1>3, <1>4, <1>5 DEF IInv

LEMMA RestartKeeps == IInv /\ aborted = NoPoll /\ Restart => IInv'
<1> SUFFICES ASSUME IInv, aborted = NoPoll /\ Restart PROVE IInv'
  OBVIOUS
<1>0. aborted' \in Polls /\ (live = NoPoll => aborted' = aborted) /\ (live # NoPoll => aborted'.isMounted = FALSE)
  BY PollAborted DEF IInv, TypeOK, Restart, RunEffect
<1>1. TypeOK'
  BY <1>0, PollFacts DEF IInv, TypeOK, Lifecycle!TypeOK, serverVars, flagVars, Restart,
     RunEffect, Begin
<1>2. OneChain' /\ FlagsAreTrue'
  BY <1>0, PollFacts DEF IInv, TypeOK, OneChain, FlagsAreTrue, Listening, serverVars,
     flagVars, Restart, RunEffect, Begin
<1>3. PollInv'
  BY <1>0, PollFacts DEF IInv, TypeOK, OneChain, FlagsAreTrue, PollInv, QuietInv,
     Listening, serverVars, flagVars, Restart, RunEffect, Begin
<1>4. DoneInv' /\ QuietInv'
  BY <1>0, PollFacts DEF IInv, TypeOK, OneChain, PollInv, DoneInv, QuietInv,
     FinishedRows, Listening, serverVars, flagVars, Restart, RunEffect, Begin
<1>5. EndsAtFinal'
  BY <1>0, PollFacts DEF IInv, TypeOK, OneChain, EndsAtFinal, QuietInv, FinalStatus,
     FinalErrors, Listening, serverVars, flagVars, Restart, RunEffect, Begin
<1> QED BY <1>1, <1>2, <1>3, <1>4, <1>5 DEF IInv

LEMMA WatchKeeps ==
    ASSUME IInv, aborted = NoPoll, NEW j \in Jobs, Watch(j)
    PROVE  IInv'
<1>0. aborted' \in Polls /\ (live = NoPoll => aborted' = aborted) /\ (live # NoPoll => aborted'.isMounted = FALSE)
  BY PollAborted DEF IInv, TypeOK, Watch, RunEffect
<1>1. TypeOK'
  BY <1>0, PollFacts DEF IInv, TypeOK, Lifecycle!TypeOK, serverVars, flagVars, Watch,
     RunEffect, Begin
<1>2. OneChain' /\ FlagsAreTrue'
  BY <1>0, PollFacts DEF IInv, TypeOK, OneChain, FlagsAreTrue, Listening, serverVars,
     flagVars, Watch, RunEffect, Begin
<1>3. PollInv'
  BY <1>0, PollFacts DEF IInv, TypeOK, OneChain, FlagsAreTrue, PollInv, QuietInv,
     Listening, serverVars, flagVars, Watch, RunEffect, Begin
<1>4. DoneInv' /\ QuietInv'
  BY <1>0, PollFacts DEF IInv, TypeOK, OneChain, PollInv, DoneInv, QuietInv,
     FinishedRows, Listening, serverVars, flagVars, Watch, RunEffect, Begin
<1>5. EndsAtFinal'
  BY <1>0, PollFacts DEF IInv, TypeOK, OneChain, EndsAtFinal, QuietInv, FinalStatus,
     FinalErrors, Listening, serverVars, flagVars, Watch, RunEffect, Begin
<1> QED BY <1>1, <1>2, <1>3, <1>4, <1>5 DEF IInv

LEMMA UnwatchKeeps == IInv /\ aborted = NoPoll /\ Unwatch => IInv'
<1> SUFFICES ASSUME IInv, aborted = NoPoll /\ Unwatch PROVE IInv'
  OBVIOUS
<1>0. aborted' \in Polls /\ (live = NoPoll => aborted' = aborted) /\ (live # NoPoll => aborted'.isMounted = FALSE)
  BY PollAborted DEF IInv, TypeOK, Unwatch, Stop, Drop
<1>1. TypeOK'
  BY <1>0, PollFacts DEF IInv, TypeOK, Lifecycle!TypeOK, serverVars, flagVars, Unwatch,
     Stop, Drop
<1>2. OneChain' /\ FlagsAreTrue'
  BY <1>0, PollFacts DEF IInv, TypeOK, OneChain, FlagsAreTrue, Listening, serverVars,
     flagVars, Unwatch, Stop, Drop
<1>3. PollInv'
  BY <1>0, PollFacts DEF IInv, TypeOK, OneChain, FlagsAreTrue, PollInv, QuietInv,
     Listening, serverVars, flagVars, Unwatch, Stop, Drop
<1>4. DoneInv' /\ QuietInv'
  BY <1>0, PollFacts DEF IInv, TypeOK, OneChain, PollInv, DoneInv, QuietInv,
     FinishedRows, Listening, serverVars, flagVars, Unwatch, Stop, Drop
<1>5. EndsAtFinal'
  BY <1>0, PollFacts DEF IInv, TypeOK, OneChain, EndsAtFinal, QuietInv, FinalStatus,
     FinalErrors, Listening, serverVars, flagVars, Unwatch, Stop, Drop
<1> QED BY <1>1, <1>2, <1>3, <1>4, <1>5 DEF IInv

LEMMA CancelKeeps == IInv /\ aborted = NoPoll /\ Cancel => IInv'
<1> SUFFICES ASSUME IInv, aborted = NoPoll /\ Cancel PROVE IInv'
  OBVIOUS
<1>0. aborted' \in Polls /\ (live = NoPoll => aborted' = aborted) /\ (live # NoPoll => aborted'.isMounted = TRUE)
  BY PollAborted DEF IInv, TypeOK, Cancel, Stop, Drop
<1>1. TypeOK'
  BY <1>0, PollFacts DEF IInv, TypeOK, Lifecycle!TypeOK, serverVars, flagVars, Cancel,
     Stop, Drop
<1>2. OneChain' /\ FlagsAreTrue'
  BY <1>0, PollFacts DEF IInv, TypeOK, OneChain, FlagsAreTrue, Listening, serverVars,
     flagVars, Cancel, Stop, Drop
<1>3. PollInv'
  BY <1>0, PollFacts DEF IInv, TypeOK, OneChain, FlagsAreTrue, PollInv, QuietInv,
     Listening, serverVars, flagVars, Cancel, Stop, Drop
<1>4. DoneInv' /\ QuietInv'
  BY <1>0, PollFacts DEF IInv, TypeOK, OneChain, PollInv, DoneInv, QuietInv,
     FinishedRows, Listening, serverVars, flagVars, Cancel, Stop, Drop
<1>5. EndsAtFinal'
  BY <1>0, PollFacts DEF IInv, TypeOK, OneChain, EndsAtFinal, QuietInv, FinalStatus,
     FinalErrors, Listening, serverVars, flagVars, Cancel, Stop, Drop
<1> QED BY <1>1, <1>2, <1>3, <1>4, <1>5 DEF IInv

LEMMA HideKeeps == IInv /\ aborted = NoPoll /\ Hide => IInv'
<1> SUFFICES ASSUME IInv, aborted = NoPoll /\ Hide PROVE IInv'
  OBVIOUS
<1>0. aborted' \in Polls
  BY PollAborted DEF IInv, TypeOK, Hide, Drop
<1>1. TypeOK'
  BY <1>0, PollFacts DEF IInv, TypeOK, Lifecycle!TypeOK, serverVars, flagVars, Hide, Drop
<1>2. OneChain' /\ FlagsAreTrue'
  BY <1>0, PollFacts DEF IInv, TypeOK, OneChain, FlagsAreTrue, Listening, serverVars,
     flagVars, Hide, Drop
<1>3. PollInv'
  BY <1>0, PollFacts DEF IInv, TypeOK, OneChain, FlagsAreTrue, PollInv, QuietInv,
     Listening, serverVars, flagVars, Hide, Drop
<1>4. DoneInv' /\ QuietInv'
  BY <1>0, PollFacts DEF IInv, TypeOK, OneChain, PollInv, DoneInv, QuietInv,
     FinishedRows, Listening, serverVars, flagVars, Hide, Drop
<1>5. EndsAtFinal'
  BY <1>0, PollFacts DEF IInv, TypeOK, OneChain, EndsAtFinal, QuietInv, FinalStatus,
     FinalErrors, Listening, serverVars, flagVars, Hide, Drop
<1> QED BY <1>1, <1>2, <1>3, <1>4, <1>5 DEF IInv

LEMMA ShowKeeps == IInv /\ aborted = NoPoll /\ Show => IInv'
<1> SUFFICES ASSUME IInv, aborted = NoPoll /\ Show PROVE IInv'
  OBVIOUS
<1>0. /\ live = NoPoll /\ timer = FALSE /\ isLoading = FALSE /\ isPolling = FALSE
      /\ Listening => jobId \in Jobs
  BY DEF IInv, TypeOK, OneChain, FlagsAreTrue, Listening, Show
<1>a. aborted' = NoPoll
  BY <1>0 DEF Show, Abort
<1>1. TypeOK'
  BY <1>0, <1>a, PollFacts DEF IInv, TypeOK, Lifecycle!TypeOK, serverVars, flagVars,
     Show, Begin
<1>2. OneChain' /\ FlagsAreTrue'
  <2>1. /\ hidden' = FALSE /\ timer' = FALSE /\ Listening' = Listening
        /\ Listening => Begin(jobId)
        /\ ~Listening => UNCHANGED <<live, flagVars>>
    BY <1>0 DEF Show, Listening
  <2>2. CASE Listening
    <3>1. live' = Poll(jobId) /\ live' # NoPoll
      BY <1>0, <2>1, <2>2, PollFacts DEF Begin
    <3>2. isPaused' = FALSE /\ isPolling' = TRUE /\ isLoading' = TRUE
      BY <2>1, <2>2 DEF Begin
    <3> QED BY <2>1, <2>2, <3>1, <3>2 DEF OneChain, FlagsAreTrue
  <2>3. CASE ~Listening
    <3>1. isPaused = FALSE
      BY <2>3 DEF IInv, TypeOK, FlagsAreTrue
    <3>2. live' = NoPoll /\ isLoading' = FALSE /\ isPaused' = FALSE /\ isPolling' = FALSE
      BY <1>0, <2>1, <2>3, <3>1 DEF flagVars
    <3> QED BY <2>1, <2>3, <3>2 DEF OneChain, FlagsAreTrue
  <2> QED BY <2>2, <2>3
<1>3. PollInv'
  <2>1. CASE Listening
    <3>1. live' = Poll(jobId) /\ jobId' = jobId
      BY <2>1 DEF Show, Begin
    <3> QED BY <1>0, <1>a, <2>1, <3>1, PollFacts DEF PollInv
  <2>2. CASE ~Listening
    BY <1>0, <1>a, <2>2, PollFacts DEF Show, PollInv
  <2> QED BY <2>1, <2>2
<1>4. DoneInv' /\ QuietInv'
  BY <1>0, <1>a, PollFacts DEF IInv, TypeOK, OneChain, PollInv, DoneInv, QuietInv,
     FinishedRows, Listening, serverVars, flagVars, Show, Begin
<1>5. EndsAtFinal'
  BY <1>0, <1>a, PollFacts DEF IInv, TypeOK, OneChain, EndsAtFinal, QuietInv,
     FinalStatus, FinalErrors, Listening, serverVars, flagVars, Show, Begin
<1> QED BY <1>1, <1>2, <1>3, <1>4, <1>5 DEF IInv

\* The server's own steps: a finished row is only deleted.
LEMMA ServerKeeps == IInv /\ ServerNext => IInv'
<1> SUFFICES ASSUME IInv, ServerNext PROVE IInv'
  OBVIOUS
<1>1. UNCHANGED <<jobId, hidden, hookVars>>
  BY DEF ServerNext, RowStep, Expire
<1>2. Lifecycle!TypeOK' /\ expired' \subseteq Jobs /\ (\A j \in FinishedRows : j \in FinishedRows')
  <2> USE DEF IInv, TypeOK, Lifecycle!TypeOK
  <2>1. CASE RowStep
    <3>1. PICK j \in Jobs, from \in SUBSET (Lifecycle!Status \ {"DELETED"}), to \in Lifecycle!Status :
              Lifecycle!Move(j, from, to) /\ ("SUCCEEDED" \in from => to = "DELETED")
      BY <2>1 DEF RowStep, Lifecycle!Next, Lifecycle!Create, Lifecycle!Start,
         Lifecycle!Succeed,
                  Lifecycle!Fail, Lifecycle!Delete, Lifecycle!Status, Lifecycle!Absent
    <3>2. Lifecycle!TypeOK'
      BY <3>1 DEF Lifecycle!Move
    <3>3. \A k \in FinishedRows : k \in FinishedRows'
      BY <3>1 DEF Lifecycle!Move, FinishedRows
    <3>4. expired' \subseteq Jobs
      BY <2>1 DEF RowStep
    <3> QED BY <3>2, <3>3, <3>4
  <2>2. ASSUME NEW j \in Jobs, Expire(j)
        PROVE  Lifecycle!TypeOK' /\ expired' \subseteq Jobs /\ (\A k \in FinishedRows : k \in FinishedRows')
    BY <2>2 DEF Expire, FinishedRows
  <2> QED BY <2>1, <2>2 DEF ServerNext
<1>3. TypeOK'
  BY <1>1, <1>2 DEF IInv, TypeOK, hookVars
<1>4. OneChain' /\ FlagsAreTrue' /\ EndsAtFinal' /\ QuietInv'
  BY <1>1 DEF IInv, OneChain, FlagsAreTrue, EndsAtFinal, QuietInv, Listening, hookVars
<1>5. PollInv' /\ DoneInv'
  BY <1>1, <1>2 DEF IInv, PollInv, DoneInv, Listening, hookVars
<1> QED BY <1>3, <1>4, <1>5 DEF IInv

LEMMA NextKeeps == IInv /\ [Next]_vars => IInv'
<1> SUFFICES ASSUME IInv, [Next]_vars PROVE IInv'
  OBVIOUS
<1>1. CASE UNCHANGED vars
  <2>1. TypeOK'
    BY <1>1 DEF IInv, TypeOK, Lifecycle!TypeOK, vars
  <2>2. OneChain' /\ FlagsAreTrue' /\ EndsAtFinal' /\ QuietInv' /\ PollInv' /\ DoneInv'
    BY <1>1 DEF IInv, OneChain, FlagsAreTrue, EndsAtFinal, QuietInv, PollInv, DoneInv,
                FinishedRows, Listening, vars
  <2> QED BY <2>1, <2>2 DEF IInv
<1>2. CASE aborted = NoPoll /\ UserStep
  BY <1>2, WatchKeeps, RestartKeeps, UnwatchKeeps, CancelKeeps, HideKeeps, ShowKeeps DEF
     UserStep
<1>3. CASE HookStep
  BY <1>3, HeadersKeeps, ApplyKeeps, RefusedKeeps, TimerFiresKeeps DEF HookStep
<1> QED
  BY <1>1, <1>2, <1>3, ResumeKeeps, ServeKeeps, UnavailableKeeps, NetworkFailsKeeps,
     ServerKeeps DEF Next

THEOREM Invariant == Spec => []IInv
BY InitInv, NextKeeps, PTL DEF Spec

----------------------------------------------------------------------------

\* useJobPoll: every reachable state is well typed.
THEOREM TypeCorrect == Spec => []TypeOK
<1>1. IInv => TypeOK
  BY DEF IInv
<1> QED BY <1>1, Invariant, PTL

\* useJobPoll: there is one chain of polls while a job is watched on a visible
\* page, and none otherwise.
THEOREM ChainsAreSingle == Spec => []OneChain
<1>1. IInv => OneChain
  BY DEF IInv
<1> QED BY <1>1, Invariant, PTL

\* useJobPoll: isLoading, isPolling and isPaused say what happens.
THEOREM FlagsTellTheTruth == Spec => []FlagsAreTrue
<1>1. IInv => FlagsAreTrue
  BY DEF IInv
<1> QED BY <1>1, Invariant, PTL

\* useJobPoll: polling ends by itself at a final status or refusal only.
THEOREM PollingEndsAtFinal == Spec => []EndsAtFinal
<1>1. IInv => EndsAtFinal
  BY DEF IInv
<1> QED BY <1>1, Invariant, PTL

\* The merge page shows the job it watches, and "done" only of a job whose
\* download is not refused as not ready.
THEOREM ShownDataIsTrue == Spec => []ShownIsTrue
<1>1. IInv => ShownIsTrue
  <2> SUFFICES ASSUME IInv, data # NoData PROVE
          data.job = jobId /\ (data.status = "done" => "JOB_NOT_READY" \notin DownloadAnswers(jobId))
    BY DEF ShownIsTrue
  <2>1. data.job = jobId
    BY DEF IInv, DoneInv
  <2>2. ASSUME data.status = "done" PROVE status[jobId] \in {"SUCCEEDED", "DELETED"}
    BY <2>1, <2>2 DEF IInv, DoneInv, FinishedRows
  <2>3. ASSUME status[jobId] \in {"SUCCEEDED", "DELETED"}
        PROVE  "JOB_NOT_READY" \notin DownloadAnswers(jobId)
    BY <2>3 DEF DownloadAnswers
  <2> QED BY <2>1, <2>2, <2>3
<1> QED BY <1>1, Invariant, PTL

\* stopPolling: nothing is polled and nothing appears until polling is started
\* again.
THEOREM StoppedStaysQuiet == Spec => CanceledStaysQuiet
<1>1. IInv /\ IInv' /\ [Next]_vars =>
        [stopped /\ stopped' =>
            timer' = FALSE /\ live' = NoPoll /\ data' = NoData /\ error' = "none"]_vars
  <2> SUFFICES ASSUME IInv', stopped'
               PROVE  timer' = FALSE /\ live' = NoPoll /\ data' = NoData /\ error' = "none"
    OBVIOUS
  <2> QED BY DEF IInv, TypeOK, OneChain, QuietInv, Listening
<1> QED BY <1>1, Invariant, PTL DEF Spec, CanceledStaysQuiet

=============================================================================
