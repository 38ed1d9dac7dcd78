-------------------------- MODULE MergeRouteProofs --------------------------
(***************************************************************************)
(* Proofs about MergeRoute, for any number of requests, keys, forms, jobs  *)
(* and workers and any envelope of outside events.                         *)
(***************************************************************************)
EXTENDS MergeRoute, TLAPS

USE RequestsAssumption, NoJobAssumption

(* What the requests have to know of the queue and the workers.            *)

WorkTypes ==
    /\ status \in [Jobs -> W!Status]
    /\ qstate \in [Jobs -> W!QueueStates]
    /\ merges \in [Jobs -> Nat]
    /\ cur \in [Workers -> Jobs \cup {NoJob}]

\* A job that BullMQ has never seen is on no worker and has not been started.
Untouched ==
    \A j \in Jobs : qstate[j] = "none" =>
        /\ \A w \in Workers : cur[w] # j
        /\ merges[j] = 0
        /\ status[j] \notin {"RUNNING", "SUCCEEDED"}

WorkInv == WorkTypes /\ Untouched /\ \A j \in Jobs : status[j] = "NONE" => qstate[j] = "none"

\* What every step but those of a request for the job leaves as it is.
Kept(j) ==
    /\ status[j] \in W!Absent => status'[j] = status[j]
    /\ status[j] # "NONE" => status'[j] # "NONE"
    /\ qstate[j] = "none" => qstate'[j] = "none"

LEMMA InitWork == W!Init => WorkInv
BY DEF W!Init, WorkInv, WorkTypes, Untouched, W!Status, W!QueueStates

\* A conditional update moves a row that is there, and no other.
LEMMA UpdateKeeps ==
    ASSUME WorkInv, NEW w \in Workers, NEW from, NEW to \in W!Status \ {"NONE"}, NEW ref,
           from \cap W!Absent = {},
           \/ W!UpdateSucceeds(cur[w], from, to, ref)
           \/ W!UpdateThrows(cur[w], from, to, ref)
    PROVE  /\ status' \in [Jobs -> W!Status]
           /\ \A j \in Jobs : status[j] \in W!Absent => status'[j] = status[j]
           /\ \A j \in Jobs : status[j] # "NONE" => status'[j] # "NONE"
           /\ \A j \in Jobs : qstate[j] = "none" => status'[j] = status[j]
<1>1. CASE UNCHANGED W!rowVars
  BY <1>1 DEF WorkInv, WorkTypes, W!rowVars
<1>2. CASE W!UpdateSucceeds(cur[w], from, to, ref)
  BY <1>2 DEF WorkInv, WorkTypes, Untouched, W!UpdateSucceeds, W!SetRow
<1> QED BY <1>1, <1>2 DEF W!UpdateThrows

\* A worker goes on with the job it has, whatever it writes in the row.
LEMMA RowStepKeeps ==
    ASSUME WorkInv, NEW w \in Workers,
           status' \in [Jobs -> W!Status],
           \A j \in Jobs : status[j] \in W!Absent => status'[j] = status[j],
           \A j \in Jobs : status[j] # "NONE" => status'[j] # "NONE",
           \A j \in Jobs : qstate[j] = "none" => status'[j] = status[j],
           merges' \in {merges, [merges EXCEPT ![cur[w]] = @ + 1]},
           UNCHANGED <<qstate, cur>>
    PROVE  WorkInv' /\ \A j \in Jobs : Kept(j)
<1>1. merges' \in [Jobs -> Nat] /\ \A j \in Jobs : cur[w] # j => merges'[j] = merges[j]
  BY DEF WorkInv, WorkTypes
<1>2. WorkTypes'
  BY <1>1 DEF WorkInv, WorkTypes
<1>3. Untouched'
  BY <1>1 DEF WorkInv, Untouched
<1>4. \A j \in Jobs : Kept(j)
  BY DEF Kept
<1> QED BY <1>2, <1>3, <1>4 DEF WorkInv, W!Absent

\* A step of BullMQ moves jobs it has seen, and no row.
LEMMA QueueStepKeeps ==
    ASSUME WorkInv, UNCHANGED <<status, merges>>,
           qstate' \in [Jobs -> W!QueueStates],
           \A j \in Jobs : qstate[j] = "none" => qstate'[j] = "none",
           \A j \in Jobs : qstate'[j] = "none" => qstate[j] = "none",
           cur' \in [Workers -> Jobs \cup {NoJob}],
           \A v \in Workers : cur'[v] \in {cur[v], NoJob} \/ qstate'[cur'[v]] # "none"
    PROVE  WorkInv' /\ \A j \in Jobs : Kept(j)
<1>1. WorkTypes'
  BY DEF WorkInv, WorkTypes
<1>2. Untouched'
  BY DEF WorkInv, Untouched
<1>3. \A j \in Jobs : Kept(j)
  BY DEF Kept
<1> QED BY <1>1, <1>2, <1>3 DEF WorkInv

LEMMA WorkersKeep ==
    ASSUME WorkInv, W!WorkerNext \/ W!CleanupNext
    PROVE  WorkInv' /\ \A j \in Jobs : Kept(j)
<1> DEFINE Goal == WorkInv' /\ \A j \in Jobs : Kept(j)
<1>1. ASSUME NEW w \in Workers, W!MarkRunning(w) \/ W!MarkSucceeded(w) \/ W!MarkFailed(w)
      PROVE  Goal
  <2>1. PICK from \in {W!StartableStatus, {"RUNNING"}, W!FailableStatus},
             to \in W!Status \ {"NONE"}, ref \in BOOLEAN :
          \/ W!UpdateSucceeds(cur[w], from, to, ref)
          \/ W!UpdateThrows(cur[w], from, to, ref)
    BY <1>1 DEF W!MarkRunning, W!MarkSucceeded, W!MarkFailed, W!Status
  <2>2. from \cap W!Absent = {}
    BY DEF W!StartableStatus, W!FailableStatus, W!Absent
  <2>3. UNCHANGED <<qstate, cur>> /\ merges' \in {merges, [merges EXCEPT ![cur[w]] = @ + 1]}
    BY <1>1 DEF W!MarkRunning, W!MarkSucceeded, W!MarkFailed, W!GoTo, W!queueVars, W!statVars
  <2> QED BY <2>1, <2>2, <2>3, UpdateKeeps, RowStepKeeps
<1>2. ASSUME NEW w \in Workers, W!LoadInputs(w) \/ W!Merge(w) \/ W!Restart(w) PROVE Goal
  <2>1. UNCHANGED <<status, merges, qstate, cur>>
    BY <1>2 DEF W!LoadInputs, W!Merge, W!Restart, W!GoTo, W!rowVars, W!queueVars, W!statVars
  <2> QED BY <2>1, QueueStepKeeps DEF WorkInv, WorkTypes
<1>3. ASSUME NEW w \in Workers, W!AckLost(w) \/ W!Crash(w) PROVE Goal
  <2>1. /\ UNCHANGED <<status, merges, qstate>>
        /\ cur' = [cur EXCEPT ![w] = NoJob]
    BY <1>3 DEF W!AckLost, W!Crash, W!Release, W!rowVars, W!queueVars, W!statVars
  <2> QED BY <2>1, QueueStepKeeps DEF WorkInv, WorkTypes
<1>4. ASSUME NEW w \in Workers, W!AckCompleted(w) \/ W!AckFailed(w) PROVE Goal
  <2>1. /\ UNCHANGED <<status, merges>>
        /\ cur' = [cur EXCEPT ![w] = NoJob]
        /\ \E q \in {"completed", "delayed", "failed"} : qstate' = [qstate EXCEPT ![cur[w]] = q]
    BY <1>4 DEF W!AckCompleted, W!AckFailed, W!Release, W!rowVars, W!statVars
  <2>2. PICK q \in {"completed", "delayed", "failed"} : qstate' = [qstate EXCEPT ![cur[w]] = q]
    BY <2>1
  <2>3. \A j \in Jobs : qstate[j] = "none" => cur[w] # j
    BY DEF WorkInv, Untouched
  <2>4. /\ qstate' \in [Jobs -> W!QueueStates]
        /\ \A j \in Jobs : qstate[j] = "none" <=> qstate'[j] = "none"
    BY <2>2, <2>3 DEF WorkInv, WorkTypes, W!QueueStates
  <2> QED BY <2>1, <2>4, QueueStepKeeps DEF WorkInv, WorkTypes
<1>5. ASSUME NEW w \in Workers, NEW j \in Jobs, W!Take(w, j) PROVE Goal
  <2>1. /\ UNCHANGED <<status, merges>>
        /\ cur' = [cur EXCEPT ![w] = j]
        /\ qstate[j] = "waiting" /\ qstate' = [qstate EXCEPT ![j] = "active"]
    BY <1>5 DEF W!Take, W!rowVars, W!statVars
  <2> QED BY <2>1, QueueStepKeeps DEF WorkInv, WorkTypes, W!QueueStates
<1>6. ASSUME NEW j \in Jobs, W!QueueStep(j) PROVE Goal
  <2>1. /\ UNCHANGED <<status, merges, cur>>
        /\ \/ qstate' = qstate
           \/ /\ qstate[j] # "none"
              /\ \E q \in {"waiting", "failed"} : qstate' = [qstate EXCEPT ![j] = q]
    BY <1>6 DEF W!QueueStep, W!Promote, W!LockExpires, W!StalledCheck, W!rowVars,
                W!workerVars, W!statVars
  <2> QED BY <2>1, QueueStepKeeps DEF WorkInv, WorkTypes, W!QueueStates
<1>7. ASSUME W!Flush PROVE Goal
  <2>1. /\ UNCHANGED <<status, merges, cur>>
        /\ qstate' = [j \in Jobs |-> IF qstate[j] \in {"waiting", "active", "delayed"}
                                     THEN "lost" ELSE qstate[j]]
    BY <1>7 DEF W!Flush, W!rowVars, W!workerVars, W!statVars
  <2> QED BY <2>1, QueueStepKeeps DEF WorkInv, WorkTypes, W!QueueStates
<1>8. ASSUME NEW j \in Jobs, W!PurgeOutput(j) PROVE Goal
  <2>1. UNCHANGED <<status, merges, qstate, cur>>
    BY <1>8 DEF W!PurgeOutput, W!rowVars, W!queueVars, W!workerVars, W!statVars
  <2> QED BY <2>1, QueueStepKeeps DEF WorkInv, WorkTypes
<1>9. ASSUME NEW j \in Jobs, W!DeleteRow(j) PROVE Goal
  <2>1. /\ status[j] \notin W!Absent /\ status' = [status EXCEPT ![j] = "DELETED"]
        /\ UNCHANGED <<merges, qstate, cur>>
    BY <1>9 DEF W!DeleteRow, W!SetRow, W!queueVars, W!workerVars, W!statVars
  <2>2. WorkTypes'
    BY <2>1 DEF WorkInv, WorkTypes, W!Status
  <2>3. Untouched' /\ \A k \in Jobs : Kept(k)
    BY <2>1 DEF WorkInv, WorkTypes, Untouched, Kept, W!Absent
  <2> QED BY <2>1, <2>2, <2>3 DEF WorkInv, WorkTypes
<1> QED
  BY <1>1, <1>2, <1>3, <1>4, <1>5, <1>6, <1>7, <1>8, <1>9
     DEF W!WorkerNext, W!CleanupNext, W!JobStep

-----------------------------------------------------------------------------
(* The inductive invariant.                                                *)

BeforeCreate == {"new", "lookup", "validate", "create", "recheck"}

RouteTypes ==
    /\ rpc \in [Requests -> Steps]
    /\ target \in [Requests -> Jobs \cup {NoJob}]
    /\ reply \in [Requests -> [code : Codes \cup {0}, job : Jobs \cup {NoJob}, said : Said]]
    /\ jobKey \in [Jobs -> Keys]
    /\ jobForm \in [Jobs -> Forms \cup {NoKey}]

\* The job a request has created is its own and bears its key and its form.
OwnTarget(r) ==
    /\ rpc[r] \in BeforeCreate => target[r] = NoJob
    /\ rpc[r] \in {"enqueue", "markFailed"} => target[r] # NoJob
    /\ rpc[r] \notin {"answered", "unaware"} => reply[r] = NoReply
    /\ target[r] # NoJob => /\ status[target[r]] # "NONE"
                            /\ jobKey[target[r]] = KeyOf[r]
                            /\ jobForm[target[r]] = FormOf[r]

TargetsDiffer ==
    \A r, q \in Requests : target[r] = target[q] /\ target[r] # NoJob => r = q

\* The job a request is answered with bears its form and, if it has one, its key.
AnswerFits(r) ==
    Accepted(r) => /\ reply[r].job \in Jobs
                   /\ status[reply[r].job] # "NONE"
                   /\ jobForm[reply[r].job] = FormOf[r]
                   /\ KeyOf[r] # NoKey => jobKey[reply[r].job] = KeyOf[r]

\* While the queue is never in doubt, a job is not on it before its request
\* says so, nor after it was refused.
NotQueued(r) ==
    "ambiguousAdd" \notin Envelope /\ target[r] # NoJob
        /\ (rpc[r] \in {"enqueue", "markFailed"} \/ reply[r].code = 500)
            => qstate[target[r]] = "none"

\* The unique constraint: one row to a key.
KeysUnique ==
    \A j, k \in Jobs :
        status[j] \notin W!Absent /\ status[k] \notin W!Absent
            /\ jobKey[j] = jobKey[k] /\ jobKey[j] # NoKey
                => j = k

RequestInv == \A r \in Requests : OwnTarget(r) /\ AnswerFits(r) /\ NotQueued(r)

RouteInv == RouteTypes /\ RequestInv /\ TargetsDiffer /\ KeysUnique /\ WorkInv

LEMMA InitRoute == Init => RouteInv
<1> SUFFICES ASSUME Init PROVE RouteInv
  OBVIOUS
<1>1. WorkInv
  BY InitWork DEF Init
<1>2. RouteTypes
  BY DEF Init, RouteTypes, Steps, Codes, NoReply, Answer, Said, Keys, Forms
<1>3. RequestInv /\ TargetsDiffer
  BY DEF Init, RequestInv, OwnTarget, AnswerFits, NotQueued, Accepted, TargetsDiffer,
         NoReply, Answer
<1>4. KeysUnique
  BY DEF Init, KeysUnique
<1> QED BY <1>1, <1>2, <1>3, <1>4 DEF RouteInv

\* A failure that is answered is an answer.
LEMMA FailSends ==
    ASSUME NEW r \in Requests
    PROVE  FailAs(r, "answered") <=> Send(r, Answer(500, NoJob, "nothing"))
BY DEF FailAs, Send

\* A request that has not created a job moves on or is answered, and nothing
\* else happens.
LEMMA AnswerKeeps ==
    ASSUME RouteInv, NEW r \in Requests, rpc[r] \in BeforeCreate,
           UNCHANGED <<target, jobKey, jobForm, workVars>>,
           \/ \E step \in BeforeCreate : GoTo(r, step)
           \/ \E a \in [code : Codes, job : Jobs \cup {NoJob}, said : Said] :
                /\ Send(r, a)
                /\ a.code = 201 => /\ a.job \in Jobs
                                   /\ status[a.job] # "NONE"
                                   /\ jobForm[a.job] = FormOf[r]
                                   /\ KeyOf[r] # NoKey => jobKey[a.job] = KeyOf[r]
    PROVE  RouteInv'
<1>1. WorkInv' /\ KeysUnique' /\ TargetsDiffer'
  BY DEF RouteInv, workVars, WorkInv, WorkTypes, Untouched, KeysUnique, TargetsDiffer
<1>2. RouteTypes'
  <2>1. rpc' \in [Requests -> Steps]
    BY DEF RouteInv, RouteTypes, GoTo, Send, BeforeCreate, Steps
  <2>2. \A a \in [code : Codes, job : Jobs \cup {NoJob}, said : Said] :
            a \in [code : Codes \cup {0}, job : Jobs \cup {NoJob}, said : Said]
    OBVIOUS
  <2>3. reply' \in [Requests -> [code : Codes \cup {0}, job : Jobs \cup {NoJob}, said : Said]]
    BY <2>2 DEF RouteInv, RouteTypes, GoTo, Send
  <2> QED BY <2>1, <2>3 DEF RouteInv, RouteTypes
<1>3. ASSUME NEW q \in Requests PROVE OwnTarget(q)' /\ AnswerFits(q)' /\ NotQueued(q)'
  <2>1. OwnTarget(q) /\ AnswerFits(q) /\ NotQueued(q)
    BY DEF RouteInv, RequestInv
  <2>2. CASE q # r
    <3>1. rpc'[q] = rpc[q] /\ reply'[q] = reply[q]
      BY <2>2 DEF GoTo, Send, RouteInv, RouteTypes
    <3> QED BY <2>1, <3>1 DEF OwnTarget, AnswerFits, NotQueued, Accepted, workVars
  <2>3. CASE q = r
    <3>1. target[r] = NoJob /\ reply[r] = NoReply
      BY <2>1, <2>3 DEF OwnTarget, BeforeCreate
    <3>2. CASE \E step \in BeforeCreate : GoTo(r, step)
      <4>1. rpc'[r] \in BeforeCreate /\ reply'[r] = NoReply
        BY <3>1, <3>2 DEF GoTo, RouteInv, RouteTypes
      <4> QED BY <2>3, <3>1, <4>1
              DEF OwnTarget, AnswerFits, NotQueued, Accepted, NoReply, Answer, BeforeCreate
    <3>3. CASE \E a \in [code : Codes, job : Jobs \cup {NoJob}, said : Said] :
                /\ Send(r, a)
                /\ a.code = 201 => /\ a.job \in Jobs
                                   /\ status[a.job] # "NONE"
                                   /\ jobForm[a.job] = FormOf[r]
                                   /\ KeyOf[r] # NoKey => jobKey[a.job] = KeyOf[r]
      <4>1. rpc'[r] = "answered" /\ AnswerFits(r)'
        BY <3>3 DEF Send, AnswerFits, Accepted, RouteInv, RouteTypes, workVars
      <4> QED BY <2>3, <3>1, <4>1 DEF OwnTarget, NotQueued, BeforeCreate
    <3> QED BY <3>2, <3>3
  <2> QED BY <2>2, <2>3
<1> QED BY <1>1, <1>2, <1>3 DEF RouteInv, RequestInv

\* What a request is told about a row found under its key fits the request.
LEMMA ReuseFits ==
    ASSUME RouteInv, NEW r \in Requests, NEW j \in Found(r)
    PROVE  /\ ReuseAnswer(r, j) \in [code : Codes, job : Jobs \cup {NoJob}, said : Said]
           /\ ReuseAnswer(r, j).code = 201 =>
                /\ ReuseAnswer(r, j).job \in Jobs
                /\ status[ReuseAnswer(r, j).job] # "NONE"
                /\ jobForm[ReuseAnswer(r, j).job] = FormOf[r]
                /\ KeyOf[r] # NoKey => jobKey[ReuseAnswer(r, j).job] = KeyOf[r]
<1>1. j \in Jobs /\ jobKey[j] = KeyOf[r] /\ status[j] # "NONE"
  BY DEF Found, W!Absent
<1>2. CASE jobForm[j] # FormOf[r] \/ status[j] \notin {"PENDING", "RUNNING"}
  BY <1>2 DEF ReuseAnswer, Answer, Codes, Said
<1>3. CASE jobForm[j] = FormOf[r] /\ status[j] = "PENDING"
  BY <1>1, <1>3 DEF ReuseAnswer, Answer, Codes, Said
<1>4. CASE jobForm[j] = FormOf[r] /\ status[j] = "RUNNING"
  BY <1>1, <1>4 DEF ReuseAnswer, Answer, Codes, Said
<1> QED BY <1>2, <1>3, <1>4

\* The handler up to the insert, and every insert that fails.
LEMMA EarlyStepsKeep ==
    ASSUME RouteInv, NEW r \in Requests,
           \/ Arrive(r) \/ Lookup(r) \/ Validate(r) \/ Recheck(r)
           \/ Create(r) /\ UNCHANGED <<target, jobKey, jobForm, workVars>>
                         /\ (GoTo(r, "recheck") \/ FailAs(r, "answered"))
    PROVE  RouteInv'
<1>1. /\ rpc[r] \in BeforeCreate
      /\ UNCHANGED <<target, jobKey, jobForm, workVars>>
  BY DEF Arrive, Lookup, Validate, Recheck, Create, BeforeCreate
<1>2. \/ \E step \in BeforeCreate : GoTo(r, step)
      \/ \E code \in {400, 500} : Send(r, Answer(code, NoJob, "nothing"))
      \/ \E j \in Found(r) : Send(r, ReuseAnswer(r, j))
  BY FailSends DEF Arrive, Lookup, Validate, Recheck, BeforeCreate
<1>3. \A code \in {400, 500} :
        /\ Answer(code, NoJob, "nothing") \in [code : Codes, job : Jobs \cup {NoJob}, said : Said]
        /\ Answer(code, NoJob, "nothing").code # 201
  BY DEF Answer, Codes, Said
<1>4. CASE \E step \in BeforeCreate : GoTo(r, step)
  BY <1>1, <1>4, AnswerKeeps
<1>5. CASE \E code \in {400, 500} : Send(r, Answer(code, NoJob, "nothing"))
  BY <1>1, <1>3, <1>5, AnswerKeeps
<1>6. CASE \E j \in Found(r) : Send(r, ReuseAnswer(r, j))
  BY <1>1, <1>6, ReuseFits, AnswerKeeps
<1> QED BY <1>2, <1>4, <1>5, <1>6

\* A row is inserted under a key no row has, for a job id nobody has used.
LEMMA InsertKeeps ==
    ASSUME RouteInv, NEW r \in Requests, NEW j \in Jobs,
           rpc[r] = "create", ~KeyTaken(r),
           W!CreateJob(j),
           target' = [target EXCEPT ![r] = j],
           jobKey' = [jobKey EXCEPT ![j] = KeyOf[r]],
           jobForm' = [jobForm EXCEPT ![j] = FormOf[r]],
           GoTo(r, "enqueue") \/ FailAs(r, "unaware")
    PROVE  RouteInv'
<1>1. /\ status[j] = "NONE" /\ status' = [status EXCEPT ![j] = "PENDING"]
      /\ UNCHANGED <<qstate, cur, merges>>
  BY DEF W!CreateJob, W!queueVars, W!workerVars, W!statVars
<1>2. /\ target[r] = NoJob /\ reply[r] = NoReply
      /\ \/ rpc' = [rpc EXCEPT ![r] = "enqueue"] /\ UNCHANGED reply
         \/ /\ rpc' = [rpc EXCEPT ![r] = "unaware"]
            /\ reply' = [reply EXCEPT ![r] = Answer(500, NoJob, "nothing")]
  BY DEF GoTo, FailAs, RouteInv, RequestInv, OwnTarget, BeforeCreate
<1>3. qstate[j] = "none"
  BY <1>1 DEF RouteInv, WorkInv
<1>4. WorkInv'
  <2>1. WorkTypes'
    BY <1>1 DEF RouteInv, WorkInv, WorkTypes, W!Status
  <2>2. Untouched'
    BY <1>1 DEF RouteInv, WorkInv, WorkTypes, Untouched
  <2> QED BY <1>1, <2>1, <2>2 DEF RouteInv, WorkInv, WorkTypes
<1>5. RouteTypes'
  <2>1. rpc' \in [Requests -> Steps]
    BY <1>2 DEF RouteInv, RouteTypes, Steps
  <2>2. Answer(500, NoJob, "nothing") \in [code : Codes \cup {0}, job : Jobs \cup {NoJob}, said : Said]
    BY DEF Answer, Codes, Said
  <2>3. reply' \in [Requests -> [code : Codes \cup {0}, job : Jobs \cup {NoJob}, said : Said]]
    BY <1>2, <2>2 DEF RouteInv, RouteTypes
  <2> QED BY <2>1, <2>3 DEF RouteInv, RouteTypes, Keys, Forms
<1>6. KeysUnique'
  <2>1. \A k \in Jobs : KeyOf[r] # NoKey /\ jobKey[k] = KeyOf[r] => status[k] \in W!Absent
    BY DEF KeyTaken, Found
  <2>2. \A k \in Jobs : k # j => status'[k] = status[k] /\ jobKey'[k] = jobKey[k]
    BY <1>1 DEF RouteInv, RouteTypes, WorkInv, WorkTypes
  <2>3. jobKey'[j] = KeyOf[r]
    BY DEF RouteInv, RouteTypes
  <2> QED BY <2>1, <2>2, <2>3 DEF RouteInv, KeysUnique
<1>7. TargetsDiffer'
  BY <1>1, NoJobAssumption DEF RouteInv, RouteTypes, RequestInv, OwnTarget, TargetsDiffer
<1>8. ASSUME NEW q \in Requests PROVE OwnTarget(q)' /\ AnswerFits(q)' /\ NotQueued(q)'
  <2>1. OwnTarget(q) /\ AnswerFits(q) /\ NotQueued(q)
    BY DEF RouteInv, RequestInv
  <2>2. \A k \in Jobs : k # j => /\ status'[k] = status[k] /\ jobKey'[k] = jobKey[k]
                                 /\ jobForm'[k] = jobForm[k]
    BY <1>1 DEF RouteInv, RouteTypes, WorkInv, WorkTypes
  <2>3. AnswerFits(q)'
    <3>1. Accepted(q)' => Accepted(q) /\ reply'[q] = reply[q]
      BY <1>2 DEF Accepted, Answer, RouteInv, RouteTypes
    <3> QED BY <1>1, <2>1, <2>2, <3>1 DEF AnswerFits
  <2>4. CASE q # r
    <3>1. rpc'[q] = rpc[q] /\ target'[q] = target[q] /\ reply'[q] = reply[q]
      BY <1>2, <2>4 DEF RouteInv, RouteTypes
    <3>2. target[q] # NoJob => target[q] \in Jobs /\ target[q] # j
      BY <1>1, <2>1 DEF OwnTarget, RouteInv, RouteTypes
    <3> QED BY <1>1, <1>2, <2>1, <2>2, <2>3, <3>1, <3>2 DEF OwnTarget, NotQueued
  <2>5. CASE q = r
    <3>1. /\ target'[r] = j /\ status'[j] = "PENDING"
          /\ jobKey'[j] = KeyOf[r] /\ jobForm'[j] = FormOf[r]
          /\ rpc'[r] = "unaware" \/ (rpc'[r] = "enqueue" /\ reply'[r] = NoReply)
      BY <1>1, <1>2 DEF RouteInv, RouteTypes, WorkInv, WorkTypes
    <3> QED BY <1>1, <1>2, <1>3, <2>3, <2>5, <3>1, NoJobAssumption
            DEF OwnTarget, NotQueued, BeforeCreate
  <2> QED BY <2>4, <2>5
<1> QED BY <1>4, <1>5, <1>6, <1>7, <1>8 DEF RouteInv, RequestInv

\* The handler goes on with the job it has created.
LEMMA OwnJobKeeps ==
    ASSUME RouteInv, NEW r \in Requests, rpc[r] \in Steps \ {"new", "answered", "unaware", "dead"},
           UNCHANGED <<target, jobKey, jobForm, cur, merges>>,
           NEW j \in Jobs \cup {NoJob}, j = target[r],
           \/ UNCHANGED status
           \/ status[j] \notin W!Absent /\ status' = [status EXCEPT ![j] = "FAILED"],
           \/ UNCHANGED qstate
           \/ j # NoJob /\ qstate' = [qstate EXCEPT ![j] = "waiting"],
           \/ GoTo(r, "dead")
           \/ /\ j # NoJob
              /\ \/ /\ GoTo(r, "markFailed")
                    /\ UNCHANGED qstate \/ "ambiguousAdd" \in Envelope
                 \/ /\ Send(r, Answer(500, NoJob, "nothing"))
                    /\ rpc[r] = "markFailed" /\ UNCHANGED qstate
                 \/ Send(r, Answer(201, j, "pending"))
    PROVE  RouteInv'
<1>1. j # NoJob => j \in Jobs /\ status[j] # "NONE"
  BY DEF RouteInv, RequestInv, OwnTarget
<1>2. WorkInv' /\ \A k \in Jobs : /\ status[k] \in W!Absent => status'[k] = status[k]
                                  /\ status[k] # "NONE" => status'[k] # "NONE"
                                  /\ k # j => qstate'[k] = qstate[k]
  <2>1. CASE j = NoJob
    <3>1. status' = status /\ qstate' = qstate
      BY <2>1, NoJobAssumption DEF RouteInv, WorkInv, WorkTypes
    <3> QED BY <3>1 DEF RouteInv, WorkInv, WorkTypes, Untouched
  <2>2. CASE j # NoJob
    <3>1. WorkTypes'
      BY <1>1, <2>2 DEF RouteInv, WorkInv, WorkTypes, W!Status, W!QueueStates
    <3>2. Untouched'
      BY <1>1, <2>2 DEF RouteInv, WorkInv, WorkTypes, Untouched
    <3> QED BY <1>1, <2>2, <3>1, <3>2 DEF RouteInv, WorkInv, WorkTypes, W!Absent
  <2> QED BY <2>1, <2>2
<1>3. RouteTypes'
  <2>1. rpc' \in [Requests -> Steps]
    BY DEF RouteInv, RouteTypes, GoTo, Send, Steps
  <2>2. /\ Answer(500, NoJob, "nothing") \in [code : Codes \cup {0}, job : Jobs \cup {NoJob}, said : Said]
        /\ Answer(201, j, "pending") \in [code : Codes \cup {0}, job : Jobs \cup {NoJob}, said : Said]
    BY DEF Answer, Codes, Said
  <2>3. reply' \in [Requests -> [code : Codes \cup {0}, job : Jobs \cup {NoJob}, said : Said]]
    BY <2>2 DEF RouteInv, RouteTypes, GoTo, Send
  <2> QED BY <2>1, <2>3 DEF RouteInv, RouteTypes
<1>4. KeysUnique' /\ TargetsDiffer'
  BY <1>2 DEF RouteInv, KeysUnique, TargetsDiffer
<1>5. ASSUME NEW q \in Requests PROVE OwnTarget(q)' /\ AnswerFits(q)' /\ NotQueued(q)'
  <2>1. OwnTarget(q) /\ AnswerFits(q) /\ NotQueued(q) /\ target[q] \in Jobs \cup {NoJob}
    BY DEF RouteInv, RequestInv, RouteTypes
  <2>2. CASE q # r
    <3>1. rpc'[q] = rpc[q] /\ reply'[q] = reply[q]
      BY <2>2 DEF GoTo, Send, RouteInv, RouteTypes
    <3>2. target[q] # NoJob => target[q] # j
      BY <2>2 DEF RouteInv, TargetsDiffer
    <3> QED BY <1>2, <2>1, <3>1, <3>2 DEF OwnTarget, AnswerFits, NotQueued, Accepted
  <2>3. CASE q = r
    <3>1. reply[r] = NoReply
      BY <2>1, <2>3 DEF OwnTarget
    <3>2. \A job \in Jobs : rpc[r] \in {"enqueue", "markFailed"} /\ target[r] = job
                => ("ambiguousAdd" \notin Envelope => qstate[job] = "none")
      BY <2>1, <2>3, NoJobAssumption DEF NotQueued
    <3>3. CASE GoTo(r, "dead")
      <4>1. rpc'[r] = "dead" /\ reply'[r] = NoReply
        BY <3>1, <3>3 DEF GoTo, RouteInv, RouteTypes
      <4> QED BY <1>2, <2>1, <2>3, <4>1
              DEF OwnTarget, AnswerFits, NotQueued, Accepted, NoReply, Answer, BeforeCreate
    <3>4. CASE /\ j # NoJob /\ GoTo(r, "markFailed")
               /\ UNCHANGED qstate \/ "ambiguousAdd" \in Envelope
      <4>1. rpc'[r] = "markFailed" /\ reply'[r] = NoReply
        BY <3>1, <3>4 DEF GoTo, RouteInv, RouteTypes
      <4>2. rpc[r] \in {"enqueue", "markFailed"}
        BY <2>1, <2>3, <3>4 DEF OwnTarget, BeforeCreate, Steps
      <4>3. NotQueued(r)'
        BY <2>1, <3>2, <3>4, <4>2 DEF NotQueued
      <4> QED BY <1>2, <2>1, <2>3, <3>4, <4>1, <4>3
              DEF OwnTarget, AnswerFits, Accepted, NoReply, Answer, BeforeCreate
    <3>5. CASE /\ j # NoJob /\ Send(r, Answer(500, NoJob, "nothing"))
               /\ rpc[r] = "markFailed" /\ UNCHANGED qstate
      <4>1. rpc'[r] = "answered" /\ reply'[r].code = 500
        BY <3>5 DEF Send, Answer, RouteInv, RouteTypes
      <4>2. NotQueued(r)'
        BY <2>1, <3>2, <3>5 DEF NotQueued
      <4> QED BY <1>2, <2>1, <2>3, <4>1, <4>2 DEF OwnTarget, AnswerFits, Accepted, BeforeCreate
    <3>6. CASE j # NoJob /\ Send(r, Answer(201, j, "pending"))
      <4>1. rpc'[r] = "answered" /\ reply'[r].code = 201 /\ reply'[r].job = j
        BY <3>6 DEF Send, Answer, RouteInv, RouteTypes
      <4> QED BY <1>1, <1>2, <2>1, <2>3, <3>6, <4>1
              DEF OwnTarget, AnswerFits, NotQueued, Accepted, BeforeCreate
    <3> QED BY <3>3, <3>4, <3>5, <3>6
  <2> QED BY <2>2, <2>3
<1> QED BY <1>2, <1>3, <1>4, <1>5 DEF RouteInv, RequestInv

LEMMA RequestKeeps ==
    ASSUME RouteInv, NEW r \in Requests, Arrive(r) \/ HandlerStep(r) \/ Die(r)
    PROVE  RouteInv'
<1>1. CASE Arrive(r) \/ Lookup(r) \/ Validate(r) \/ Recheck(r)
  BY <1>1, EarlyStepsKeep
<1>2. CASE Create(r)
  <2>1. CASE UNCHANGED <<target, jobKey, jobForm, workVars>>
             /\ (GoTo(r, "recheck") \/ FailAs(r, "answered"))
    BY <1>2, <2>1, EarlyStepsKeep
  <2>2. CASE /\ ~KeyTaken(r) /\ Insert(r)
             /\ GoTo(r, "enqueue") \/ FailAs(r, "unaware")
    BY <1>2, <2>2, InsertKeeps DEF Create, Insert
  <2> QED BY <1>2, <2>1, <2>2 DEF Create
<1> DEFINE job == target[r]
<1>3. job \in Jobs \cup {NoJob} /\ (rpc[r] \in {"enqueue", "markFailed"} => job # NoJob)
  BY DEF RouteInv, RouteTypes, RequestInv, OwnTarget
<1>4. CASE EnqueueJob(r)
  <2>1. CASE W!Enqueue(job) /\ Send(r, Answer(201, job, "pending"))
    <3>1. UNCHANGED <<status, cur, merges>> /\ qstate' = [qstate EXCEPT ![job] = "waiting"]
      BY <2>1 DEF W!Enqueue, W!rowVars, W!workerVars, W!statVars
    <3> QED BY <1>3, <1>4, <2>1, <3>1, OwnJobKeeps DEF EnqueueJob, Steps
  <2>2. CASE W!EnqueueThrows(job) /\ GoTo(r, "markFailed")
    <3>1. /\ UNCHANGED <<status, cur, merges>>
          /\ \/ UNCHANGED qstate
             \/ "ambiguousAdd" \in Envelope /\ qstate' = [qstate EXCEPT ![job] = "waiting"]
      BY <2>2 DEF W!EnqueueThrows, W!rowVars, W!workerVars, W!statVars
    <3> QED BY <1>3, <1>4, <2>2, <3>1, OwnJobKeeps DEF EnqueueJob, Steps
  <2> QED BY <1>4, <2>1, <2>2 DEF EnqueueJob
<1>5. CASE MarkEnqueueFailed(r)
  <2>1. /\ UNCHANGED <<qstate, cur, merges>>
        /\ \/ UNCHANGED status
           \/ status[job] \notin W!Absent /\ status' = [status EXCEPT ![job] = "FAILED"]
    BY <1>5 DEF MarkEnqueueFailed, W!MarkEnqueueFailed, W!queueVars, W!workerVars, W!statVars
  <2> QED BY <1>3, <1>5, <2>1, FailSends, OwnJobKeeps DEF MarkEnqueueFailed, Steps
<1>6. CASE Die(r)
  <2>1. UNCHANGED <<status, qstate, cur, merges>>
    BY <1>6 DEF Die, W!WebCrash, W!rowVars, W!queueVars, W!workerVars, W!statVars, workVars
  <2>2. rpc[r] \in Steps \ {"new", "answered", "unaware", "dead"}
    BY <1>6 DEF Die, RouteInv, RouteTypes
  <2> QED BY <1>3, <1>6, <2>1, <2>2, OwnJobKeeps DEF Die
<1> QED BY <1>1, <1>2, <1>4, <1>5, <1>6 DEF HandlerStep

\* What the workers and the cleanup do to rows nobody is creating disturbs no request.
LEMMA OthersKeep ==
    ASSUME RouteInv, W!WorkerNext \/ W!CleanupNext, UNCHANGED routeVars
    PROVE  RouteInv'
<1>1. WorkInv' /\ \A j \in Jobs : Kept(j)
  BY WorkersKeep DEF RouteInv
<1>2. RouteTypes' /\ TargetsDiffer'
  BY DEF RouteInv, RouteTypes, TargetsDiffer, routeVars
<1>3. KeysUnique'
  BY <1>1 DEF RouteInv, KeysUnique, Kept, routeVars
<1>4. ASSUME NEW q \in Requests PROVE OwnTarget(q)' /\ AnswerFits(q)' /\ NotQueued(q)'
  <2>1. OwnTarget(q) /\ AnswerFits(q) /\ NotQueued(q) /\ target[q] \in Jobs \cup {NoJob}
    BY DEF RouteInv, RequestInv, RouteTypes
  <2> QED BY <1>1, <2>1 DEF OwnTarget, AnswerFits, NotQueued, Accepted, Kept, routeVars
<1> QED BY <1>1, <1>2, <1>3, <1>4 DEF RouteInv, RequestInv

\* A step that changes nothing.
LEMMA StutterKeeps == RouteInv /\ UNCHANGED vars => RouteInv'
<1> SUFFICES ASSUME RouteInv, UNCHANGED vars PROVE RouteInv'
  OBVIOUS
<1>1. WorkInv' /\ RouteTypes' /\ TargetsDiffer' /\ KeysUnique'
  BY DEF vars, RouteInv, WorkInv, WorkTypes, Untouched, RouteTypes, TargetsDiffer, KeysUnique
<1>2. RequestInv'
  BY DEF vars, RouteInv, RequestInv, OwnTarget, AnswerFits, NotQueued, Accepted
<1> QED BY <1>1, <1>2 DEF RouteInv

\* The strengthened invariant is an invariant.
THEOREM Invariant == Spec => []RouteInv
<1>1. RouteInv /\ [Next]_vars => RouteInv'
  BY RequestKeeps, OthersKeep, StutterKeeps DEF Next
<1> QED BY <1>1, InitRoute, PTL DEF Spec

-----------------------------------------------------------------------------
(* The theorems.                                                           *)

\* Two accepted submissions of one form under one key name one job, unless
\* retention deleted one: the lookup, the unique constraint and the second
\* lookup leave no interleaving in which they do not.
THEOREM SubmissionsShareAJob == Spec => []OneJobPerKey
<1>1. RouteInv => OneJobPerKey
  <2> SUFFICES ASSUME RouteInv, NEW r \in Requests, NEW q \in Requests,
                      Retries(r, q), Accepted(r), Accepted(q),
                      "DELETED" \notin {status[reply[r].job], status[reply[q].job]}
               PROVE  reply[r].job = reply[q].job
    BY DEF OneJobPerKey
  <2>1. AnswerFits(r) /\ AnswerFits(q)
    BY DEF RouteInv, RequestInv
  <2> QED BY <2>1 DEF AnswerFits, Retries, RouteInv, KeysUnique, W!Absent
<1> QED BY <1>1, Invariant, PTL

\* A request is pointed only to a job that merges what the request asked for.
THEOREM AnswersAreOfTheForm == Spec => []AcceptedFormMatches
<1>1. RouteInv => AcceptedFormMatches
  BY DEF RouteInv, RequestInv, AnswerFits, AcceptedFormMatches
<1> QED BY <1>1, Invariant, PTL

\* As long as the queue says truly whether it took a job, no worker starts a
\* job whose creator was refused.
THEOREM RefusedJobsNeverStart ==
    ASSUME "ambiguousAdd" \notin Envelope
    PROVE  Spec => []RefusedNeverStarts
<1>1. RouteInv => RefusedNeverStarts
  <2> SUFFICES ASSUME RouteInv, NEW r \in Requests, reply[r].code = 500, target[r] # NoJob
               PROVE  status[target[r]] \notin {"RUNNING", "SUCCEEDED"} /\ merges[target[r]] = 0
    BY DEF RefusedNeverStarts
  <2>1. target[r] \in Jobs /\ NotQueued(r)
    BY DEF RouteInv, RequestInv, RouteTypes
  <2> QED BY <2>1 DEF NotQueued, RouteInv, WorkInv, Untouched
<1> QED BY <1>1, Invariant, PTL

\* The handlers act on the rows and the queue only through the request steps of
\* PdfWorker, which this composition is built from, so what is proved of
\* PdfWorker holds of the composition.
LEMMA ComposesPdfWorker == Spec => W!Spec
<1>1. Init => W!Init
  BY DEF Init
<1>2. ASSUME RouteInv, [Next]_vars PROVE [W!Next]_W!vars
  <2>1. ASSUME NEW r \in Requests, Arrive(r) \/ Lookup(r) \/ Validate(r) \/ Recheck(r)
        PROVE  UNCHANGED W!vars
    BY <2>1 DEF Arrive, Lookup, Validate, Recheck, workVars, W!vars
  <2>2. ASSUME NEW r \in Requests, Create(r) PROVE [W!Next]_W!vars
    BY <2>2 DEF Create, Insert, workVars, W!vars, W!Next, W!RequestNext
  <2>3. ASSUME NEW r \in Requests, EnqueueJob(r) \/ MarkEnqueueFailed(r) PROVE W!Next
    <3>1. target[r] \in Jobs
      BY <1>2, <2>3 DEF RouteInv, RouteTypes, RequestInv, OwnTarget, EnqueueJob, MarkEnqueueFailed
    <3> QED BY <2>3, <3>1
            DEF EnqueueJob, MarkEnqueueFailed, W!Next, W!RequestNext, W!RequestStep
  <2>4. ASSUME NEW r \in Requests, Die(r) PROVE [W!Next]_W!vars
    <3>1. rpc[r] \in {"enqueue", "markFailed"} => target[r] \in Jobs
      BY <1>2 DEF RouteInv, RouteTypes, RequestInv, OwnTarget
    <3> QED BY <2>4, <3>1 DEF Die, workVars, W!vars, W!Next, W!RequestNext
  <2>5. CASE (W!WorkerNext \/ W!CleanupNext) /\ UNCHANGED routeVars
    BY <2>5 DEF W!Next
  <2>6. CASE UNCHANGED vars
    BY <2>6 DEF vars, W!vars
  <2> QED BY <1>2, <2>1, <2>2, <2>3, <2>4, <2>5, <2>6 DEF Next, HandlerStep
<1> QED BY <1>1, <1>2, Invariant, PTL DEF Spec, W!Spec

-----------------------------------------------------------------------------
(* What the theorems of PdfWorkerProofs say of the composition.            *)

WP == INSTANCE PdfWorkerProofs

\* The two instances of PdfWorker are one specification, definition by
\* definition.
LEMMA SameSpec ==
    /\ WP!Init <=> W!Init
    /\ [WP!Next]_WP!vars <=> [W!Next]_W!vars
    /\ WP!TypeOK <=> W!TypeOK
    /\ WP!MergesBounded <=> W!MergesBounded
BY DEF W!Init, WP!Init, W!Next, WP!Next, W!WorkerNext, WP!WorkerNext,
       W!RequestNext, WP!RequestNext, W!CleanupNext, WP!CleanupNext, W!JobStep,
       WP!JobStep, W!Crash, WP!Crash, W!Restart, WP!Restart, W!Take, WP!Take,
       W!QueueStep, WP!QueueStep, W!Flush, WP!Flush, W!CreateJob, WP!CreateJob,
       W!RequestStep, WP!RequestStep, W!WebCrash, WP!WebCrash, W!PurgeOutput,
       WP!PurgeOutput, W!DeleteRow, WP!DeleteRow, W!Enqueue, WP!Enqueue,
       W!EnqueueThrows, WP!EnqueueThrows, W!MarkEnqueueFailed,
       WP!MarkEnqueueFailed, W!Promote, WP!Promote, W!LockExpires,
       WP!LockExpires, W!StalledCheck, WP!StalledCheck, W!MarkRunning,
       WP!MarkRunning, W!LoadInputs, WP!LoadInputs, W!Merge, WP!Merge,
       W!MarkSucceeded, WP!MarkSucceeded, W!MarkFailed, WP!MarkFailed,
       W!AckLost, WP!AckLost, W!AckCompleted, WP!AckCompleted, W!AckFailed,
       WP!AckFailed, W!GoTo, WP!GoTo, W!Release, WP!Release, W!UpdateSucceeds,
       WP!UpdateSucceeds, W!UpdateThrows, WP!UpdateThrows, W!SetRow, WP!SetRow,
       W!Absent, WP!Absent, W!StartableStatus, WP!StartableStatus,
       W!FailableStatus, WP!FailableStatus, W!HasAttemptsLeft,
       WP!HasAttemptsLeft, W!IsTerminalFailure, WP!IsTerminalFailure,
       W!CountFailure, WP!CountFailure, W!rowVars, WP!rowVars, W!queueVars,
       WP!queueVars, W!workerVars, WP!workerVars, W!storeVars, WP!storeVars,
       W!statVars, WP!statVars, W!vars, WP!vars, W!TypeOK, WP!TypeOK, W!Status,
       WP!Status, W!SubmitSteps, WP!SubmitSteps, W!QueueStates, WP!QueueStates,
       W!WorkerSteps, WP!WorkerSteps, W!MergesBounded, WP!MergesBounded

\* Every state of the composition is well typed, the queue and the workers
\* included.
THEOREM TypeCorrect == Spec => []TypeOK
<1>1. WP!Spec => []WP!TypeOK
  BY WP!TypeCorrect, WorkAssumption
     DEF WP!IsFiniteSet, IsFiniteSet, WP!EventKinds, W!EventKinds
<1>2. RouteInv /\ W!TypeOK => TypeOK
  BY DEF RouteInv, RouteTypes, TypeOK
<1>3. W!Spec => []W!TypeOK
  BY <1>1, SameSpec, PTL DEF WP!Spec, W!Spec
<1> QED BY <1>2, <1>3, Invariant, ComposesPdfWorker, PTL

\* However often a form is submitted, its job is merged no more often than the
\* attempts and the stalled redeliveries of one job allow.
THEOREM JobsMergeBounded == Spec => []W!MergesBounded
<1>1. WP!Spec => []WP!MergesBounded
  BY WP!MergesAreBounded, WorkAssumption
     DEF WP!IsFiniteSet, IsFiniteSet, WP!EventKinds, W!EventKinds
<1>2. W!Spec => []W!MergesBounded
  BY <1>1, SameSpec, PTL DEF WP!Spec, W!Spec
<1> QED BY <1>2, ComposesPdfWorker, PTL

-----------------------------------------------------------------------------
(* What else the theorems of PdfWorkerProofs say of the composition.       *)

\* The promises of PdfWorker are the same in both instances.
LEMMA SamePromises ==
    /\ WP!ExclusiveProcessing <=> W!ExclusiveProcessing
    /\ WP!CompletedIsSucceeded <=> W!CompletedIsSucceeded
    /\ WP!SucceededHasOutput <=> W!SucceededHasOutput
    /\ WP!FailuresCountedOnce <=> W!FailuresCountedOnce
BY DEF WP!ExclusiveProcessing, W!ExclusiveProcessing, WP!CompletedIsSucceeded,
       W!CompletedIsSucceeded, WP!SucceededHasOutput, W!SucceededHasOutput,
       WP!FailuresCountedOnce, W!FailuresCountedOnce, WP!OwnedBy, W!OwnedBy,
       WP!Owns, W!Owns

\* Whatever the requests do, including a second click while the first one is
\* being answered, no two workers merge one job at once, a completed job is
\* SUCCEEDED, a SUCCEEDED one has its output, and failures are counted once.
THEOREM RoutePromises ==
    ASSUME "ambiguousAdd" \notin Envelope
    PROVE  Spec => [](/\ W!ExclusiveProcessing /\ W!CompletedIsSucceeded
                      /\ W!SucceededHasOutput /\ W!FailuresCountedOnce)
<1> USE WorkAssumption DEF WP!IsFiniteSet, IsFiniteSet, WP!EventKinds, W!EventKinds
<1>1. WP!Spec => []WP!ExclusiveProcessing
  BY WP!WorkersExclude
<1>2. WP!Spec => []WP!CompletedIsSucceeded
  BY WP!CompletedJobsSucceeded
<1>3. WP!Spec => []WP!SucceededHasOutput
  BY WP!SucceededJobsHaveOutput
<1>4. WP!Spec => []WP!FailuresCountedOnce
  BY WP!FailureCounting
<1>5. W!Spec => [](/\ W!ExclusiveProcessing /\ W!CompletedIsSucceeded
                   /\ W!SucceededHasOutput /\ W!FailuresCountedOnce)
  BY <1>1, <1>2, <1>3, <1>4, SameSpec, SamePromises, PTL DEF WP!Spec, W!Spec
<1> QED BY <1>5, ComposesPdfWorker, PTL

\* The rows that the handlers, the workers and the cleanup write between them
\* follow the job lifecycle.
THEOREM RouteRowsFollowLifecycle ==
    ASSUME "ambiguousAdd" \notin Envelope
    PROVE  Spec => W!ImplementsLifecycle
<1>1. WP!Spec => WP!ImplementsLifecycle
  BY WP!RowsFollowLifecycle, WorkAssumption
     DEF WP!IsFiniteSet, IsFiniteSet, WP!EventKinds, W!EventKinds
<1>2. /\ WP!Lifecycle!Init <=> W!Lifecycle!Init
      /\ [WP!Lifecycle!Next]_WP!Lifecycle!rowVars <=> [W!Lifecycle!Next]_W!Lifecycle!rowVars
  BY DEF WP!Lifecycle!Init, W!Lifecycle!Init, WP!Lifecycle!Next, W!Lifecycle!Next,
         WP!Lifecycle!rowVars, W!Lifecycle!rowVars, WP!Lifecycle!Create, W!Lifecycle!Create,
         WP!Lifecycle!Start, W!Lifecycle!Start, WP!Lifecycle!Succeed, W!Lifecycle!Succeed,
         WP!Lifecycle!Fail, W!Lifecycle!Fail, WP!Lifecycle!Delete, W!Lifecycle!Delete,
         WP!Lifecycle!Move, W!Lifecycle!Move, WP!Lifecycle!Status, W!Lifecycle!Status,
         WP!Lifecycle!Absent, W!Lifecycle!Absent
<1>3. W!Spec => W!ImplementsLifecycle
  BY <1>1, <1>2, SameSpec, PTL
     DEF WP!Spec, W!Spec, WP!ImplementsLifecycle, W!ImplementsLifecycle,
         WP!Lifecycle!Spec, W!Lifecycle!Spec
<1> QED BY <1>3, ComposesPdfWorker, PTL

-----------------------------------------------------------------------------
(* No accepted job is forgotten.                                           *)

\* A job the queue has not seen is PENDING only while the request that created
\* it still has to queue it or fail it, or died before it did.
CreatorInv ==
    \A j \in Jobs :
        status[j] = "PENDING" /\ qstate[j] = "none" =>
            \E q \in Requests : target[q] = j /\ rpc[q] \in {"enqueue", "markFailed", "unaware", "dead"}

\* No worker and no cleanup makes a row PENDING or takes a job back to where
\* the queue does not know it.
LEMMA WorkersMakeNoneNew ==
    ASSUME WorkInv, W!WorkerNext \/ W!CleanupNext, NEW j \in Jobs,
           status'[j] = "PENDING", qstate'[j] = "none"
    PROVE  status[j] = "PENDING" /\ qstate[j] = "none"
<1>0. status \in [Jobs -> W!Status] /\ qstate \in [Jobs -> W!QueueStates]
  BY DEF WorkInv, WorkTypes
<1>1. \/ UNCHANGED status
      \/ \E k, to : to # "PENDING" /\ status' = [status EXCEPT ![k] = to]
  <2>1. ASSUME NEW w \in Workers, W!MarkRunning(w) \/ W!MarkSucceeded(w) \/ W!MarkFailed(w)
        PROVE  \/ UNCHANGED status
               \/ \E to \in {"RUNNING", "SUCCEEDED", "FAILED"} : status' = [status EXCEPT ![cur[w]] = to]
    BY <2>1 DEF W!MarkRunning, W!MarkSucceeded, W!MarkFailed, W!UpdateThrows, W!UpdateSucceeds,
                W!SetRow, W!rowVars
  <2>2. ASSUME NEW w \in Workers,
               W!LoadInputs(w) \/ W!Merge(w) \/ W!AckLost(w) \/ W!AckCompleted(w) \/ W!AckFailed(w)
                 \/ W!Crash(w) \/ W!Restart(w)
        PROVE  UNCHANGED status
    BY <2>2 DEF W!LoadInputs, W!Merge, W!AckLost, W!AckCompleted, W!AckFailed, W!Crash, W!Restart,
                W!rowVars
  <2>3. ASSUME NEW k \in Jobs, W!QueueStep(k) \/ \E w \in Workers : W!Take(w, k)
        PROVE  UNCHANGED status
    BY <2>3 DEF W!QueueStep, W!Promote, W!LockExpires, W!StalledCheck, W!Take, W!rowVars
  <2>4. ASSUME NEW k \in Jobs, W!PurgeOutput(k) \/ W!DeleteRow(k)
        PROVE  UNCHANGED status \/ status' = [status EXCEPT ![k] = "DELETED"]
    BY <2>4 DEF W!PurgeOutput, W!DeleteRow, W!SetRow, W!rowVars
  <2>5. CASE W!Flush
    BY <2>5 DEF W!Flush, W!rowVars
  <2> QED
    BY <2>1, <2>2, <2>3, <2>4, <2>5 DEF W!WorkerNext, W!CleanupNext, W!JobStep
<1>2. \/ UNCHANGED qstate
      \/ \E k, q : q # "none" /\ qstate' = [qstate EXCEPT ![k] = q]
      \/ W!Flush
  <2>1. ASSUME NEW w \in Workers, W!AckCompleted(w) \/ W!AckFailed(w)
        PROVE  \E q \in {"completed", "delayed", "failed"} : qstate' = [qstate EXCEPT ![cur[w]] = q]
    BY <2>1 DEF W!AckCompleted, W!AckFailed
  <2>2. ASSUME NEW w \in Workers,
               W!MarkRunning(w) \/ W!LoadInputs(w) \/ W!Merge(w) \/ W!MarkSucceeded(w)
                 \/ W!MarkFailed(w) \/ W!AckLost(w) \/ W!Crash(w) \/ W!Restart(w)
        PROVE  UNCHANGED qstate
    BY <2>2 DEF W!MarkRunning, W!LoadInputs, W!Merge, W!MarkSucceeded, W!MarkFailed, W!AckLost,
                W!Crash, W!Restart, W!queueVars
  <2>3. ASSUME NEW k \in Jobs, W!QueueStep(k) \/ \E w \in Workers : W!Take(w, k)
        PROVE  \/ UNCHANGED qstate
               \/ \E q \in {"waiting", "active", "failed"} : qstate' = [qstate EXCEPT ![k] = q]
    BY <2>3 DEF W!QueueStep, W!Promote, W!LockExpires, W!StalledCheck, W!Take
  <2>4. ASSUME NEW k \in Jobs, W!PurgeOutput(k) \/ W!DeleteRow(k) PROVE UNCHANGED qstate
    BY <2>4 DEF W!PurgeOutput, W!DeleteRow, W!queueVars
  <2> QED
    BY <2>1, <2>2, <2>3, <2>4 DEF W!WorkerNext, W!CleanupNext, W!JobStep
<1>3. status[j] = "PENDING"
  BY <1>0, <1>1
<1>4. qstate[j] = "none"
  BY <1>0, <1>2 DEF W!Flush
<1> QED BY <1>3, <1>4

\* A request that has created a job lets go of it only once it is queued, or
\* its row is FAILED or gone.
LEMMA NextCreatorInv ==
    ASSUME "dbError" \notin Envelope
    PROVE  RouteInv /\ CreatorInv /\ [Next]_vars => CreatorInv'
<1> SUFFICES ASSUME RouteInv, CreatorInv, [Next]_vars PROVE CreatorInv'
  OBVIOUS
<1>0. /\ rpc \in [Requests -> Steps] /\ target \in [Requests -> Jobs \cup {NoJob}]
      /\ status \in [Jobs -> W!Status] /\ qstate \in [Jobs -> W!QueueStates]
      /\ \A r \in Requests : OwnTarget(r)
  BY DEF RouteInv, RouteTypes, RequestInv, WorkInv, WorkTypes
<1>1. ASSUME NEW r \in Requests, UNCHANGED <<target, status, qstate>>, target[r] = NoJob,
             \A q \in Requests \ {r} : rpc'[q] = rpc[q]
      PROVE  CreatorInv'
  BY <1>1, NoJobAssumption DEF CreatorInv
<1>2. ASSUME NEW r \in Requests, Arrive(r) \/ Lookup(r) \/ Validate(r) \/ Recheck(r)
      PROVE  CreatorInv'
  <2>1. /\ rpc[r] \in BeforeCreate /\ UNCHANGED <<target, status, qstate>>
        /\ \A q \in Requests \ {r} : rpc'[q] = rpc[q]
    BY <1>0, <1>2
       DEF Arrive, Lookup, Validate, Recheck, BeforeCreate, GoTo, Send, FailAs, workVars
  <2> QED BY <1>0, <1>1, <2>1 DEF OwnTarget
<1>3. ASSUME NEW r \in Requests, Create(r) PROVE CreatorInv'
  <2>1. /\ target[r] = NoJob /\ \A q \in Requests \ {r} : rpc'[q] = rpc[q]
    BY <1>0, <1>3 DEF Create, BeforeCreate, GoTo, FailAs, OwnTarget
  <2>2. CASE UNCHANGED <<target, workVars>>
    BY <1>1, <2>1, <2>2 DEF workVars
  <2>3. CASE Insert(r) /\ (GoTo(r, "enqueue") \/ FailAs(r, "unaware"))
    <3>1. PICK j \in Jobs : W!CreateJob(j) /\ target' = [target EXCEPT ![r] = j]
      BY <2>3 DEF Insert
    <3>2. /\ \A k \in Jobs \ {j} : status'[k] = status[k]
          /\ qstate' = qstate /\ target'[r] = j /\ rpc'[r] \in {"enqueue", "unaware"}
          /\ \A q \in Requests \ {r} : target'[q] = target[q]
      BY <1>0, <2>3, <3>1 DEF W!CreateJob, W!queueVars, GoTo, FailAs
    <3> QED BY <2>1, <3>2, NoJobAssumption DEF CreatorInv
  <2> QED BY <1>3, <2>2, <2>3 DEF Create
<1>4. ASSUME NEW r \in Requests, EnqueueJob(r) \/ MarkEnqueueFailed(r) \/ Die(r),
             target[r] # NoJob
      PROVE  CreatorInv'
  <2>1. /\ target[r] \in Jobs /\ target' = target
        /\ \A q \in Requests \ {r} : rpc'[q] = rpc[q]
    BY <1>0, <1>4 DEF EnqueueJob, MarkEnqueueFailed, Die, GoTo, Send, FailAs
  <2>2. /\ \A j \in Jobs \ {target[r]} : status'[j] = status[j] /\ qstate'[j] = qstate[j]
        /\ \/ rpc'[r] \in {"markFailed", "dead"}
           \/ qstate'[target[r]] = "waiting"
           \/ status'[target[r]] # "PENDING"
    <3>1. CASE EnqueueJob(r)
      BY <1>0, <2>1, <3>1 DEF EnqueueJob, W!Enqueue, W!EnqueueThrows, W!rowVars, GoTo
    <3>2. CASE MarkEnqueueFailed(r)
      BY <1>0, <2>1, <3>2 DEF MarkEnqueueFailed, W!MarkEnqueueFailed, W!queueVars, W!Absent
    <3>3. CASE Die(r)
      BY <1>0, <3>3 DEF Die, W!WebCrash, W!rowVars, W!queueVars, workVars, GoTo
    <3> QED BY <1>4, <3>1, <3>2, <3>3
  <2> QED BY <2>1, <2>2 DEF CreatorInv
<1>5. ASSUME NEW r \in Requests, EnqueueJob(r) \/ MarkEnqueueFailed(r) \/ Die(r),
             target[r] = NoJob
      PROVE  CreatorInv'
  <2>1. Die(r) /\ rpc[r] \notin {"enqueue", "markFailed"}
    BY <1>0, <1>5 DEF EnqueueJob, MarkEnqueueFailed, OwnTarget
  <2>2. UNCHANGED <<target, status, qstate>> /\ \A q \in Requests \ {r} : rpc'[q] = rpc[q]
    BY <1>0, <2>1 DEF Die, GoTo, workVars
  <2> QED BY <1>1, <1>5, <2>2
<1>6. CASE (W!WorkerNext \/ W!CleanupNext) /\ UNCHANGED routeVars
  <2>1. \A j \in Jobs : status'[j] = "PENDING" /\ qstate'[j] = "none" =>
                            status[j] = "PENDING" /\ qstate[j] = "none"
    BY <1>6, WorkersMakeNoneNew DEF RouteInv
  <2> QED BY <1>6, <2>1 DEF CreatorInv, routeVars
<1>7. CASE UNCHANGED vars
  BY <1>7 DEF CreatorInv, vars
<1> QED BY <1>2, <1>3, <1>4, <1>5, <1>6, <1>7 DEF Next, HandlerStep

\* No accepted job is forgotten: the handlers queue or fail what they create,
\* and the queue and the workers keep what they are given, whichever requests
\* are pointed to the job and however often its lock runs out.
THEOREM AcceptedStaysInHand ==
    ASSUME Envelope \cap {"crash", "flush", "dbError"} = {}
    PROVE  Spec => []AcceptedIsInHand
<1>1. WP!Spec => []WP!PendingInHand
  BY WP!PendingIsInHand, WorkAssumption
     DEF WP!IsFiniteSet, IsFiniteSet, WP!EventKinds, W!EventKinds
<1>2. W!Spec => []WP!PendingInHand
  BY <1>1, SameSpec, PTL DEF WP!Spec, W!Spec
<1>3. Init => CreatorInv
  BY DEF Init, W!Init, CreatorInv
<1>4. Spec => []CreatorInv
  <2>1. RouteInv /\ CreatorInv /\ [Next]_vars => CreatorInv'
    BY NextCreatorInv
  <2> QED BY <1>3, <2>1, Invariant, PTL DEF Spec
<1>5. RouteInv /\ CreatorInv /\ WP!PendingInHand => AcceptedIsInHand
  <2> SUFFICES ASSUME RouteInv, CreatorInv, WP!PendingInHand,
                      NEW r \in Requests, Accepted(r), status[reply[r].job] = "PENDING",
                      qstate[reply[r].job] # "waiting"
               PROVE  \/ \E w \in Workers : pc[w] = "taken" /\ cur[w] = reply[r].job
                      \/ \E q \in Requests : target[q] = reply[r].job
                                               /\ rpc[q] \in {"enqueue", "markFailed", "unaware", "dead"}
    BY DEF AcceptedIsInHand
  <2>1. reply[r].job \in Jobs
    BY DEF RouteInv, RequestInv, AnswerFits
  <2> QED BY <2>1 DEF CreatorInv, WP!PendingInHand
<1> QED BY <1>2, <1>4, <1>5, Invariant, ComposesPdfWorker, PTL

-----------------------------------------------------------------------------
(* What a retry is promised.                                               *)

\* A request is answered by a step of its own handler.
LEMMA AnswerStep ==
    ASSUME RouteInv, [Next]_vars, NEW q \in Requests,
           reply[q].code # 409, reply'[q].code = 409
    PROVE  \E j \in Found(q) : reply'[q] = ReuseAnswer(q, j)
<1> USE DEF RouteInv, RouteTypes
<1>1. ASSUME NEW r \in Requests, NEW a, reply' = [reply EXCEPT ![r] = a]
      PROVE  r = q /\ reply'[q] = a
  BY <1>1
<1>2. \A code \in {201, 400, 500}, j \in Jobs \cup {NoJob}, said \in Said :
          Answer(code, j, said).code # 409
  BY DEF Answer
<1>3. reply' # reply
  OBVIOUS
<1>4. ASSUME NEW r \in Requests, Lookup(r) \/ Recheck(r)
      PROVE  \E j \in Found(q) : reply'[q] = ReuseAnswer(q, j)
  <2>1. \/ \E j \in Found(r) : reply' = [reply EXCEPT ![r] = ReuseAnswer(r, j)]
        \/ reply' = [reply EXCEPT ![r] = Answer(500, NoJob, "nothing")]
    BY <1>3, <1>4 DEF Lookup, Recheck, GoTo, Send, FailAs
  <2>2. reply' # [reply EXCEPT ![r] = Answer(500, NoJob, "nothing")]
    BY <1>1 DEF Answer
  <2> QED BY <1>1, <2>1, <2>2
<1>5. ASSUME NEW r \in Requests,
             Arrive(r) \/ Validate(r) \/ Create(r) \/ EnqueueJob(r)
               \/ MarkEnqueueFailed(r) \/ Die(r)
      PROVE  FALSE
  <2>1. \E a \in {Answer(400, NoJob, "nothing"), Answer(500, NoJob, "nothing"),
                  Answer(201, target[r], "pending")} :
            reply' = [reply EXCEPT ![r] = a]
    BY <1>3, <1>5
       DEF Arrive, Validate, Create, EnqueueJob, MarkEnqueueFailed, Die, GoTo, Send, FailAs
  <2> QED BY <1>1, <2>1 DEF Answer
<1>6. ~UNCHANGED routeVars /\ ~UNCHANGED vars
  BY <1>3 DEF routeVars, vars
<1> QED BY <1>4, <1>5, <1>6 DEF Next, HandlerStep

\* A retry is turned away only when the job it repeats has finished, failed or
\* gone by then.
THEOREM RetriesResolve == Spec => RetriesOfUnfinishedResolve
<1> DEFINE Done(r, q) ==
        Retries(r, q) /\ Accepted(r) /\ reply[q].code # 409 /\ reply'[q].code = 409
            => status[reply[r].job] \in {"SUCCEEDED", "FAILED", "DELETED"}
<1>1. ASSUME RouteInv, [Next]_vars, NEW r \in Requests, NEW q \in Requests
      PROVE  Done(r, q)
  <2> SUFFICES ASSUME Retries(r, q), Accepted(r), reply[q].code # 409, reply'[q].code = 409,
                      status[reply[r].job] # "DELETED"
               PROVE  status[reply[r].job] \in {"SUCCEEDED", "FAILED"}
    OBVIOUS
  <2>1. PICK j \in Found(q) : reply'[q] = ReuseAnswer(q, j)
    BY <1>1, AnswerStep
  <2>2. /\ reply[r].job \in Jobs /\ status[reply[r].job] \notin W!Absent
        /\ jobKey[reply[r].job] = KeyOf[r] /\ jobForm[reply[r].job] = FormOf[r]
    BY <1>1 DEF RouteInv, RequestInv, AnswerFits, Retries, W!Absent
  <2>3. j \in Jobs /\ jobKey[j] = KeyOf[q] /\ status[j] \notin W!Absent /\ KeyOf[q] # NoKey
    BY DEF Found
  <2>4. j = reply[r].job
    BY <1>1, <2>2, <2>3 DEF RouteInv, KeysUnique, Retries
  <2>5. status[j] \notin {"PENDING", "RUNNING"}
    BY <2>1, <2>2, <2>4 DEF ReuseAnswer, Answer, Retries
  <2> QED BY <1>1, <2>3, <2>4, <2>5 DEF RouteInv, WorkInv, WorkTypes, W!Status, W!Absent
<1>2. RouteInv /\ [Next]_vars => [\A r, q \in Requests : Done(r, q)]_vars
  BY <1>1
<1> QED BY <1>2, Invariant, PTL DEF Spec, RetriesOfUnfinishedResolve

=============================================================================
