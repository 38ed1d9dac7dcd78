-------------------------- MODULE PdfWorkerProofs ---------------------------
(***************************************************************************)
(* Proofs about PdfWorker, for any number of jobs and workers, any limits  *)
(* and any envelope of outside events.                                     *)
(***************************************************************************)
EXTENDS PdfWorker, FiniteSetTheorems, TLAPS

\* The queue's own bookkeeping: what the handler has not queued yet is on no
\* worker, a job still in play has attempts and stalls left, only an active
\* job is locked, and a worker holds a job exactly while it works on it.
QueueInv ==
    /\ \A j \in Jobs : submit[j] \in {"none", "created"} => qstate[j] = "none"
    /\ \A j \in Jobs : status[j] = "NONE" <=> submit[j] = "none"
    /\ \A j \in Jobs : qstate[j] = "none" => attempts[j] = 0 /\ stalls[j] = 0
    /\ \A j \in Jobs : qstate[j] \in {"waiting", "active", "delayed", "lost"} =>
                            attempts[j] < Attempts /\ stalls[j] <= MaxStalls
    /\ \A j \in Jobs : lock[j] # NoWorker => qstate[j] = "active"
    /\ \A w \in Workers : pc[w] \in {"down", "idle"} <=> cur[w] = NoJob
    /\ \A w \in Workers : cur[w] # NoJob => qstate[cur[w]] # "none"

TypeInv == TypeOK /\ QueueInv

USE JobsAssumption, WorkersAssumption, LimitsAssumption

\* Every state starts well-typed with an empty queue.
LEMMA InitTypeInv == Init => TypeInv
BY DEF Init, TypeInv, TypeOK, QueueInv, Status, SubmitSteps, QueueStates, WorkerSteps

\* A conditional update of a row, whether it reports success or an error,
\* keeps the types of the row and neither creates nor un-creates one.
LEMMA UpdateTypes ==
    ASSUME TypeOK, NEW j \in Jobs, NEW from, NEW to \in Status \ {"NONE"},
           NEW ref \in BOOLEAN, "NONE" \notin from,
           UpdateSucceeds(j, from, to, ref) \/ UpdateThrows(j, from, to, ref)
    PROVE  /\ status' \in [Jobs -> Status]
           /\ outputRef' \in [Jobs -> BOOLEAN]
           /\ \A k \in Jobs : status'[k] = "NONE" <=> status[k] = "NONE"
<1>1. status \in [Jobs -> Status] /\ outputRef \in [Jobs -> BOOLEAN]
    BY DEF TypeOK
<1>2. CASE UpdateSucceeds(j, from, to, ref)
    <2>1. /\ status[j] # "NONE"
          /\ status' = [status EXCEPT ![j] = to]
          /\ outputRef' = [outputRef EXCEPT ![j] = ref]
        BY <1>2 DEF UpdateSucceeds, SetRow
    <2>2. /\ status' \in [Jobs -> Status]
          /\ \A k \in Jobs : status'[k] = "NONE" <=> status[k] = "NONE"
        BY <1>1, <2>1
    <2>3. outputRef' \in [Jobs -> BOOLEAN]
        BY <1>1, <2>1
    <2>4. QED
        BY <2>2, <2>3
<1>3. CASE UNCHANGED rowVars
    BY <1>1, <1>3 DEF rowVars
<1>4. QED
    BY <1>2, <1>3 DEF UpdateThrows

\* No step breaks the types or the bookkeeping of the queue.
LEMMA NextTypeInv == TypeInv /\ [Next]_vars => TypeInv'
<1> SUFFICES ASSUME TypeInv, [Next]_vars PROVE TypeInv'
    OBVIOUS
<1> USE DEF TypeInv, TypeOK, QueueInv, Status, SubmitSteps, QueueStates,
            WorkerSteps, rowVars, queueVars, workerVars, storeVars, statVars
<1>1. ASSUME NEW j \in Jobs, CreateJob(j) PROVE TypeInv'
    BY <1>1 DEF CreateJob
<1>2. ASSUME NEW j \in Jobs, Enqueue(j) PROVE TypeInv'
    BY <1>2 DEF Enqueue
<1>3. ASSUME NEW j \in Jobs, EnqueueThrows(j) PROVE TypeInv'
    BY <1>3 DEF EnqueueThrows
<1>4. ASSUME NEW j \in Jobs, MarkEnqueueFailed(j) PROVE TypeInv'
    BY <1>4 DEF MarkEnqueueFailed, Absent
<1>5. ASSUME NEW j \in Jobs, WebCrash(j) PROVE TypeInv'
    BY <1>5 DEF WebCrash
<1>6. ASSUME NEW j \in Jobs, PurgeOutput(j) PROVE TypeInv'
    BY <1>6 DEF PurgeOutput, Absent
<1>7. ASSUME NEW j \in Jobs, DeleteRow(j) PROVE TypeInv'
    BY <1>7 DEF DeleteRow, SetRow, Absent
<1>8. ASSUME NEW j \in Jobs, Promote(j) PROVE TypeInv'
    BY <1>8 DEF Promote
<1>9. ASSUME NEW j \in Jobs, LockExpires(j) PROVE TypeInv'
    BY <1>9 DEF LockExpires
<1>10. ASSUME NEW j \in Jobs, StalledCheck(j) PROVE TypeInv'
    BY <1>10 DEF StalledCheck, CountFailure, HasAttemptsLeft, IsTerminalFailure
<1>11. ASSUME Flush PROVE TypeInv'
    BY <1>11 DEF Flush
<1>12. ASSUME NEW w \in Workers, NEW j \in Jobs, Take(w, j) PROVE TypeInv'
    BY <1>12 DEF Take
<1>13. ASSUME NEW w \in Workers, MarkRunning(w) PROVE TypeInv'
    <2>1. cur[w] \in Jobs
        BY <1>13 DEF MarkRunning
    <2>2. \/ UpdateSucceeds(cur[w], StartableStatus, "RUNNING", FALSE)
          \/ UpdateThrows(cur[w], StartableStatus, "RUNNING", FALSE)
        BY <1>13 DEF MarkRunning
    <2>3. /\ status' \in [Jobs -> Status]
          /\ outputRef' \in [Jobs -> BOOLEAN]
          /\ \A j \in Jobs : status'[j] = "NONE" <=> status[j] = "NONE"
        BY <2>1, <2>2, UpdateTypes DEF StartableStatus
    <2>4. merges' = [merges EXCEPT ![cur[w]] = @ + 1] \/ merges' = merges
        BY <1>13 DEF MarkRunning
    <2>5. UNCHANGED <<submit, queueVars, storeVars, counted>>
        BY <1>13 DEF MarkRunning
    <2>6. /\ cur' = cur
          /\ \E step \in WorkerSteps \ {"down", "idle"} : pc' = [pc EXCEPT ![w] = step]
        BY <1>13 DEF MarkRunning, GoTo
    <2>7. QED
        BY <2>1, <2>3, <2>4, <2>5, <2>6
<1>14. ASSUME NEW w \in Workers, LoadInputs(w) PROVE TypeInv'
    BY <1>14 DEF LoadInputs, GoTo, Absent
<1>15. ASSUME NEW w \in Workers, Merge(w) PROVE TypeInv'
    BY <1>15 DEF Merge, GoTo
<1>16. ASSUME NEW w \in Workers, MarkSucceeded(w) PROVE TypeInv'
    <2>1. cur[w] \in Jobs
        BY <1>16 DEF MarkSucceeded
    <2>2. \/ UpdateSucceeds(cur[w], {"RUNNING"}, "SUCCEEDED", TRUE)
          \/ UpdateThrows(cur[w], {"RUNNING"}, "SUCCEEDED", TRUE)
        BY <1>16 DEF MarkSucceeded
    <2>3. /\ status' \in [Jobs -> Status]
          /\ outputRef' \in [Jobs -> BOOLEAN]
          /\ \A j \in Jobs : status'[j] = "NONE" <=> status[j] = "NONE"
        BY <2>1, <2>2, UpdateTypes
    <2>4. merges' = merges
        BY <1>16 DEF MarkSucceeded
    <2>5. UNCHANGED <<submit, queueVars, storeVars, counted>>
        BY <1>16 DEF MarkSucceeded
    <2>6. /\ cur' = cur
          /\ \E step \in WorkerSteps \ {"down", "idle"} : pc' = [pc EXCEPT ![w] = step]
        BY <1>16 DEF MarkSucceeded, GoTo
    <2>7. QED
        BY <2>1, <2>3, <2>4, <2>5, <2>6
<1>17. ASSUME NEW w \in Workers, MarkFailed(w) PROVE TypeInv'
    <2>1. cur[w] \in Jobs
        BY <1>17 DEF MarkFailed
    <2>2. \/ UpdateSucceeds(cur[w], FailableStatus, "FAILED", FALSE)
          \/ UpdateThrows(cur[w], FailableStatus, "FAILED", FALSE)
        BY <1>17 DEF MarkFailed
    <2>3. /\ status' \in [Jobs -> Status]
          /\ outputRef' \in [Jobs -> BOOLEAN]
          /\ \A j \in Jobs : status'[j] = "NONE" <=> status[j] = "NONE"
        BY <2>1, <2>2, UpdateTypes DEF FailableStatus
    <2>4. merges' = merges
        BY <1>17 DEF MarkFailed
    <2>5. UNCHANGED <<submit, queueVars, storeVars, counted>>
        BY <1>17 DEF MarkFailed
    <2>6. /\ cur' = cur
          /\ \E step \in WorkerSteps \ {"down", "idle"} : pc' = [pc EXCEPT ![w] = step]
        BY <1>17 DEF MarkFailed, GoTo
    <2>7. QED
        BY <2>1, <2>3, <2>4, <2>5, <2>6
<1>18. ASSUME NEW w \in Workers, AckLost(w) PROVE TypeInv'
    BY <1>18 DEF AckLost, Release
<1>19. ASSUME NEW w \in Workers, AckCompleted(w) PROVE TypeInv'
    BY <1>19 DEF AckCompleted, Release
<1>20. ASSUME NEW w \in Workers, AckFailed(w) PROVE TypeInv'
    BY <1>20 DEF AckFailed, Release, CountFailure, HasAttemptsLeft, IsTerminalFailure
<1>21. ASSUME NEW w \in Workers, Crash(w) PROVE TypeInv'
    BY <1>21 DEF Crash
<1>22. ASSUME NEW w \in Workers, Restart(w) PROVE TypeInv'
    BY <1>22 DEF Restart
<1>23. ASSUME UNCHANGED vars PROVE TypeInv'
    BY <1>23 DEF vars
<1>24. QED
    BY <1>1, <1>2, <1>3, <1>4, <1>5, <1>6, <1>7, <1>8, <1>9, <1>10, <1>11, <1>12, <1>13, <1>14, <1>15, <1>16, <1>17, <1>18, <1>19, <1>20, <1>21, <1>22, <1>23
       DEF Next, WorkerNext, RequestNext, CleanupNext, JobStep, QueueStep, RequestStep

\* Every variable keeps its type: in particular no job is attempted more often
\* than the queue allows.
THEOREM TypeCorrect == Spec => []TypeOK
<1>1. Spec => []TypeInv
    BY InitTypeInv, NextTypeInv, PTL DEF Spec
<1>2. TypeInv => TypeOK
    BY DEF TypeInv
<1>3. QED
    BY <1>1, <1>2, PTL

-----------------------------------------------------------------------------
\* Who may move a row.  A job the handler has not finished queueing is on no
\* worker and PENDING; a worker past markRunning keeps its row out of the
\* statuses markRunning and the handler start from, so no other worker gets
\* past markRunning for the same job.
OwnerInv ==
    /\ \A j \in Jobs : submit[j] \in {"created", "addFailed"} =>
                            qstate[j] = "none" /\ status[j] \in {"PENDING", "DELETED"}
    /\ \A w \in Workers : pc[w] \in {"loading", "merging", "saving"} =>
                            status[cur[w]] \in {"RUNNING", "DELETED"}
    /\ \A w \in Workers : pc[w] = "failing" =>
                            status[cur[w]] \in {"RUNNING", "SUCCEEDED", "DELETED"}
    /\ \A w \in Workers : pc[w] = "ackOk" =>
                            status[cur[w]] \in {"SUCCEEDED", "DELETED"}
    /\ ExclusiveProcessing
    /\ CompletedIsSucceeded

LEMMA InitOwnerInv == Init => OwnerInv
BY DEF Init, OwnerInv, ExclusiveProcessing, CompletedIsSucceeded, OwnedBy, Owns

\* No step lets a second worker in, provided the queue answers truthfully.
LEMMA NextOwnerInv ==
    ASSUME "ambiguousAdd" \notin Envelope
    PROVE  TypeInv /\ OwnerInv /\ [Next]_vars => OwnerInv'
<1> SUFFICES ASSUME TypeInv, OwnerInv, [Next]_vars PROVE OwnerInv'
    OBVIOUS
<1> USE DEF TypeInv, TypeOK, QueueInv, OwnerInv, ExclusiveProcessing, OwnedBy,
            Owns, CompletedIsSucceeded, Status, SubmitSteps, QueueStates,
            WorkerSteps, Absent, rowVars, queueVars, workerVars, storeVars, statVars
<1>1. ASSUME NEW j \in Jobs, CreateJob(j) PROVE OwnerInv'
    BY <1>1 DEF CreateJob
<1>2. ASSUME NEW j \in Jobs, Enqueue(j) PROVE OwnerInv'
    BY <1>2 DEF Enqueue
<1>3. ASSUME NEW j \in Jobs, EnqueueThrows(j) PROVE OwnerInv'
    BY <1>3 DEF EnqueueThrows
<1>4. ASSUME NEW j \in Jobs, MarkEnqueueFailed(j) PROVE OwnerInv'
    BY <1>4 DEF MarkEnqueueFailed
<1>5. ASSUME NEW j \in Jobs, WebCrash(j) PROVE OwnerInv'
    BY <1>5 DEF WebCrash
<1>6. ASSUME NEW j \in Jobs, PurgeOutput(j) PROVE OwnerInv'
    BY <1>6 DEF PurgeOutput
<1>7. ASSUME NEW j \in Jobs, DeleteRow(j) PROVE OwnerInv'
    BY <1>7 DEF DeleteRow, SetRow
<1>8. ASSUME NEW j \in Jobs, Promote(j) PROVE OwnerInv'
    BY <1>8 DEF Promote
<1>9. ASSUME NEW j \in Jobs, LockExpires(j) PROVE OwnerInv'
    BY <1>9 DEF LockExpires
<1>10. ASSUME NEW j \in Jobs, StalledCheck(j) PROVE OwnerInv'
    BY <1>10 DEF StalledCheck
<1>11. ASSUME Flush PROVE OwnerInv'
    BY <1>11 DEF Flush
<1>12. ASSUME NEW w \in Workers, NEW j \in Jobs, Take(w, j) PROVE OwnerInv'
    BY <1>12 DEF Take
<1>13. ASSUME NEW w \in Workers, MarkRunning(w) PROVE OwnerInv'
    <2>1. cur[w] \in Jobs /\ UNCHANGED <<cur, submit, qstate>>
        <3>1. pc[w] = "taken"
            BY <1>13 DEF MarkRunning
        <3>2. UNCHANGED <<cur, submit, qstate>>
            BY <1>13, Zenon DEF MarkRunning, GoTo
        <3>3. QED
            BY <3>1, <3>2
    <2>2. CASE /\ UpdateSucceeds(cur[w], StartableStatus, "RUNNING", FALSE)
               /\ GoTo(w, "loading")
        <3>1. /\ status[cur[w]] \in {"PENDING", "FAILED"}
              /\ status' = [status EXCEPT ![cur[w]] = "RUNNING"]
              /\ pc' = [pc EXCEPT ![w] = "loading"]
            BY <2>2 DEF UpdateSucceeds, SetRow, GoTo, StartableStatus
        <3>2. \A v \in Workers : Owns(v) => cur[v] # cur[w]
            BY <3>1
        <3>3. QED
            BY <2>1, <3>1, <3>2
    <2>3. CASE /\ UpdateThrows(cur[w], StartableStatus, "RUNNING", FALSE)
               /\ GoTo(w, "ackFail")
        <3>1. /\ \/ UNCHANGED status
                 \/ /\ status[cur[w]] \in {"PENDING", "FAILED"}
                    /\ status' = [status EXCEPT ![cur[w]] = "RUNNING"]
              /\ pc' = [pc EXCEPT ![w] = "ackFail"]
            BY <2>3 DEF UpdateThrows, UpdateSucceeds, SetRow, GoTo, StartableStatus
        <3>2. QED
            BY <2>1, <3>1
    <2>4. QED
        BY <1>13, <2>2, <2>3 DEF MarkRunning
<1>14. ASSUME NEW w \in Workers, LoadInputs(w) PROVE OwnerInv'
    BY <1>14 DEF LoadInputs, GoTo
<1>15. ASSUME NEW w \in Workers, Merge(w) PROVE OwnerInv'
    BY <1>15 DEF Merge, GoTo
<1>16. ASSUME NEW w \in Workers, MarkSucceeded(w) PROVE OwnerInv'
    <2>1. /\ cur[w] \in Jobs /\ UNCHANGED <<cur, submit, qstate>>
          /\ pc[w] = "saving"
        <3>1. pc[w] = "saving"
            BY <1>16 DEF MarkSucceeded
        <3>2. UNCHANGED <<cur, submit, qstate>>
            BY <1>16, Zenon DEF MarkSucceeded, GoTo
        <3>3. QED
            BY <3>1, <3>2
    <2>2. CASE /\ UpdateSucceeds(cur[w], {"RUNNING"}, "SUCCEEDED", TRUE)
               /\ GoTo(w, "ackOk")
        <3>1. /\ status' = [status EXCEPT ![cur[w]] = "SUCCEEDED"]
              /\ status[cur[w]] = "RUNNING"
              /\ pc' = [pc EXCEPT ![w] = "ackOk"]
            BY <2>2 DEF UpdateSucceeds, SetRow, GoTo
        <3>2. QED
            BY <2>1, <3>1
    <2>3. CASE /\ UpdateThrows(cur[w], {"RUNNING"}, "SUCCEEDED", TRUE)
               /\ GoTo(w, "failing")
        <3>1. /\ \/ UNCHANGED status
                 \/ /\ status[cur[w]] = "RUNNING"
                    /\ status' = [status EXCEPT ![cur[w]] = "SUCCEEDED"]
              /\ pc' = [pc EXCEPT ![w] = "failing"]
            BY <2>3 DEF UpdateThrows, UpdateSucceeds, SetRow, GoTo
        <3>2. QED
            BY <2>1, <3>1
    <2>4. QED
        BY <1>16, <2>2, <2>3 DEF MarkSucceeded
<1>17. ASSUME NEW w \in Workers, MarkFailed(w) PROVE OwnerInv'
    BY <1>17 DEF MarkFailed, UpdateSucceeds, UpdateThrows, SetRow, GoTo, FailableStatus
<1>18. ASSUME NEW w \in Workers, AckLost(w) PROVE OwnerInv'
    BY <1>18 DEF AckLost, Release
<1>19. ASSUME NEW w \in Workers, AckCompleted(w) PROVE OwnerInv'
    BY <1>19 DEF AckCompleted, Release
<1>20. ASSUME NEW w \in Workers, AckFailed(w) PROVE OwnerInv'
    BY <1>20 DEF AckFailed, HasAttemptsLeft, Release
<1>21. ASSUME NEW w \in Workers, Crash(w) PROVE OwnerInv'
    BY <1>21 DEF Crash
<1>22. ASSUME NEW w \in Workers, Restart(w) PROVE OwnerInv'
    BY <1>22 DEF Restart
<1>23. ASSUME UNCHANGED vars PROVE OwnerInv'
    BY <1>23 DEF vars
<1>24. QED
    BY <1>1, <1>2, <1>3, <1>4, <1>5, <1>6, <1>7, <1>8, <1>9, <1>10, <1>11, <1>12, <1>13, <1>14, <1>15, <1>16, <1>17, <1>18, <1>19, <1>20, <1>21, <1>22, <1>23
       DEF Next, WorkerNext, RequestNext, CleanupNext, JobStep, QueueStep, RequestStep


SafetyInv == TypeInv /\ OwnerInv

LEMMA SafetyInvariant ==
    ASSUME "ambiguousAdd" \notin Envelope
    PROVE  Spec => []SafetyInv
<1>1. Init => SafetyInv
    BY InitTypeInv, InitOwnerInv DEF SafetyInv
<1>2. SafetyInv /\ [Next]_vars => SafetyInv'
    BY NextTypeInv, NextOwnerInv DEF SafetyInv
<1>3. QED
    BY <1>1, <1>2, PTL DEF Spec

\* processQueueJob never runs past markRunning for one job in two workers at
\* once, although BullMQ may deliver the job to both.
THEOREM WorkersExclude ==
    ASSUME "ambiguousAdd" \notin Envelope
    PROVE  Spec => []ExclusiveProcessing
<1>1. SafetyInv => ExclusiveProcessing
    BY DEF SafetyInv, OwnerInv
<1>2. QED
    BY <1>1, SafetyInvariant, PTL

\* BullMQ records a job as completed only when its row is SUCCEEDED.
THEOREM CompletedJobsSucceeded ==
    ASSUME "ambiguousAdd" \notin Envelope
    PROVE  Spec => []CompletedIsSucceeded
<1>1. SafetyInv => CompletedIsSucceeded
    BY DEF SafetyInv, OwnerInv
<1>2. QED
    BY <1>1, SafetyInvariant, PTL

-----------------------------------------------------------------------------
\* The output of a job and its row: a row names an output exactly while it is
\* SUCCEEDED, and the object is there from before that moment on.
OutputNamed == \A j \in Jobs : outputRef[j] = (status[j] = "SUCCEEDED")

OutputStored ==
    /\ \A w \in Workers : pc[w] = "saving" => cur[w] \in outputs \cup purged
    /\ \A j \in Jobs : status[j] = "SUCCEEDED" => j \in outputs \cup purged

OutputInv == OutputNamed /\ OutputStored

LEMMA InitOutputInv == Init => OutputInv
BY DEF Init, OutputInv, OutputNamed, OutputStored

\* Writing both columns together keeps them together.
LEMMA SetRowNamed ==
    ASSUME TypeOK, OutputNamed, NEW j \in Jobs, NEW to \in Status,
           NEW ref \in BOOLEAN, ref = (to = "SUCCEEDED"), SetRow(j, to, ref)
    PROVE  OutputNamed'
<1>1. /\ status \in [Jobs -> Status] /\ outputRef \in [Jobs -> BOOLEAN]
      /\ status' = [status EXCEPT ![j] = to]
      /\ outputRef' = [outputRef EXCEPT ![j] = ref]
    BY DEF TypeOK, SetRow
<1>2. ASSUME NEW k \in Jobs PROVE outputRef'[k] = (status'[k] = "SUCCEEDED")
    <2>1. CASE k = j
        <3>1. outputRef'[k] = ref /\ status'[k] = to
            BY <1>1, <2>1
        <3>2. QED
            BY <3>1
    <2>2. CASE k # j
        <3>1. outputRef'[k] = outputRef[k] /\ status'[k] = status[k]
            BY <1>1, <2>2
        <3>2. QED
            BY <3>1 DEF OutputNamed
    <2>3. QED
        BY <2>1, <2>2
<1>3. QED
    BY <1>2 DEF OutputNamed

\* Likewise for a conditional update, whatever it reports.
LEMMA UpdateNamed ==
    ASSUME TypeOK, OutputNamed, NEW j \in Jobs, NEW from, NEW to \in Status,
           NEW ref \in BOOLEAN, ref = (to = "SUCCEEDED"),
           UpdateSucceeds(j, from, to, ref) \/ UpdateThrows(j, from, to, ref)
    PROVE  OutputNamed'
<1>1. CASE UpdateSucceeds(j, from, to, ref)
    BY <1>1, SetRowNamed DEF UpdateSucceeds
<1>2. CASE UNCHANGED rowVars
    BY <1>2 DEF rowVars, OutputNamed
<1>3. QED
    BY <1>1, <1>2 DEF UpdateThrows

LEMMA NextOutputInv == SafetyInv /\ OutputInv /\ [Next]_vars => OutputInv'
<1> SUFFICES ASSUME SafetyInv, OutputInv, [Next]_vars PROVE OutputInv'
    OBVIOUS
<1> USE DEF SafetyInv, TypeInv, TypeOK, QueueInv, OwnerInv, OutputInv, OutputNamed, OutputStored, Status,
            SubmitSteps, WorkerSteps, Absent, rowVars, queueVars, workerVars,
            storeVars, statVars
<1>1. ASSUME NEW j \in Jobs, CreateJob(j) PROVE OutputInv'
    BY <1>1 DEF CreateJob
<1>2. ASSUME NEW j \in Jobs, Enqueue(j) PROVE OutputInv'
    BY <1>2 DEF Enqueue
<1>3. ASSUME NEW j \in Jobs, EnqueueThrows(j) PROVE OutputInv'
    BY <1>3 DEF EnqueueThrows
<1>4. ASSUME NEW j \in Jobs, MarkEnqueueFailed(j) PROVE OutputInv'
    BY <1>4 DEF MarkEnqueueFailed
<1>5. ASSUME NEW j \in Jobs, WebCrash(j) PROVE OutputInv'
    BY <1>5 DEF WebCrash
<1>6. ASSUME NEW j \in Jobs, PurgeOutput(j) PROVE OutputInv'
    BY <1>6 DEF PurgeOutput
<1>7. ASSUME NEW j \in Jobs, DeleteRow(j) PROVE OutputInv'
    <2>1. OutputNamed'
        BY <1>7, SetRowNamed DEF DeleteRow
    <2>2. OutputStored'
        BY <1>7 DEF DeleteRow, SetRow
    <2>3. QED
        BY <2>1, <2>2
<1>8. ASSUME NEW j \in Jobs, Promote(j) PROVE OutputInv'
    BY <1>8 DEF Promote
<1>9. ASSUME NEW j \in Jobs, LockExpires(j) PROVE OutputInv'
    BY <1>9 DEF LockExpires
<1>10. ASSUME NEW j \in Jobs, StalledCheck(j) PROVE OutputInv'
    BY <1>10 DEF StalledCheck
<1>11. ASSUME Flush PROVE OutputInv'
    BY <1>11 DEF Flush
<1>12. ASSUME NEW w \in Workers, NEW j \in Jobs, Take(w, j) PROVE OutputInv'
    BY <1>12 DEF Take
<1>13. ASSUME NEW w \in Workers, MarkRunning(w) PROVE OutputInv'
    <2>1. cur[w] \in Jobs
        BY <1>13 DEF MarkRunning
    <2>2. \/ UpdateSucceeds(cur[w], StartableStatus, "RUNNING", FALSE)
          \/ UpdateThrows(cur[w], StartableStatus, "RUNNING", FALSE)
        BY <1>13 DEF MarkRunning
    <2>3. OutputNamed'
        BY <2>1, <2>2, UpdateNamed
    <2>4. OutputStored'
        BY <1>13, <2>1 DEF MarkRunning, UpdateSucceeds, UpdateThrows, SetRow, GoTo, StartableStatus
    <2>5. QED
        BY <2>3, <2>4
<1>14. ASSUME NEW w \in Workers, LoadInputs(w) PROVE OutputInv'
    BY <1>14 DEF LoadInputs, GoTo
<1>15. ASSUME NEW w \in Workers, Merge(w) PROVE OutputInv'
    BY <1>15 DEF Merge, GoTo
<1>16. ASSUME NEW w \in Workers, MarkSucceeded(w) PROVE OutputInv'
    <2>1. cur[w] \in Jobs
        BY <1>16 DEF MarkSucceeded
    <2>2. \/ UpdateSucceeds(cur[w], {"RUNNING"}, "SUCCEEDED", TRUE)
          \/ UpdateThrows(cur[w], {"RUNNING"}, "SUCCEEDED", TRUE)
        BY <1>16 DEF MarkSucceeded
    <2>3. OutputNamed'
        BY <2>1, <2>2, UpdateNamed
    <2>4. OutputStored'
        BY <1>16, <2>1 DEF MarkSucceeded, UpdateSucceeds, UpdateThrows, SetRow, GoTo
    <2>5. QED
        BY <2>3, <2>4
<1>17. ASSUME NEW w \in Workers, MarkFailed(w) PROVE OutputInv'
    <2>1. cur[w] \in Jobs
        BY <1>17 DEF MarkFailed
    <2>2. \/ UpdateSucceeds(cur[w], FailableStatus, "FAILED", FALSE)
          \/ UpdateThrows(cur[w], FailableStatus, "FAILED", FALSE)
        BY <1>17 DEF MarkFailed
    <2>3. OutputNamed'
        BY <2>1, <2>2, UpdateNamed
    <2>4. OutputStored'
        BY <1>17, <2>1 DEF MarkFailed, UpdateSucceeds, UpdateThrows, SetRow, GoTo, FailableStatus
    <2>5. QED
        BY <2>3, <2>4
<1>18. ASSUME NEW w \in Workers, AckLost(w) PROVE OutputInv'
    BY <1>18 DEF AckLost, Release
<1>19. ASSUME NEW w \in Workers, AckCompleted(w) PROVE OutputInv'
    BY <1>19 DEF AckCompleted, Release
<1>20. ASSUME NEW w \in Workers, AckFailed(w) PROVE OutputInv'
    BY <1>20 DEF AckFailed, HasAttemptsLeft, Release
<1>21. ASSUME NEW w \in Workers, Crash(w) PROVE OutputInv'
    BY <1>21 DEF Crash
<1>22. ASSUME NEW w \in Workers, Restart(w) PROVE OutputInv'
    BY <1>22 DEF Restart
<1>23. ASSUME UNCHANGED vars PROVE OutputInv'
    BY <1>23 DEF vars
<1>24. QED
    BY <1>1, <1>2, <1>3, <1>4, <1>5, <1>6, <1>7, <1>8, <1>9, <1>10, <1>11, <1>12, <1>13, <1>14, <1>15, <1>16, <1>17, <1>18, <1>19, <1>20, <1>21, <1>22, <1>23
       DEF Next, WorkerNext, RequestNext, CleanupNext, JobStep, QueueStep, RequestStep


FullInv == SafetyInv /\ OutputInv

LEMMA FullInvariant ==
    ASSUME "ambiguousAdd" \notin Envelope
    PROVE  Spec => []FullInv
<1>1. Init => FullInv
    BY InitTypeInv, InitOwnerInv, InitOutputInv DEF FullInv, SafetyInv
<1>2. FullInv /\ [Next]_vars => FullInv'
    BY NextTypeInv, NextOwnerInv, NextOutputInv DEF FullInv, SafetyInv
<1>3. QED
    BY <1>1, <1>2, PTL DEF Spec

\* A SUCCEEDED job has an output key and, until retention begins to delete it,
\* the object under that key.
THEOREM SucceededJobsHaveOutput ==
    ASSUME "ambiguousAdd" \notin Envelope
    PROVE  Spec => []SucceededHasOutput
<1>1. FullInv => SucceededHasOutput
    BY DEF FullInv, OutputInv, OutputNamed, OutputStored, SucceededHasOutput
<1>2. QED
    BY <1>1, FullInvariant, PTL

-----------------------------------------------------------------------------
\* The rows implement JobLifecycle.

\* A write of both columns is a move of the lifecycle.
LEMMA SetRowMoves ==
    ASSUME NEW j \in Jobs, NEW from, NEW to \in Status, status[j] \in from,
           SetRow(j, to, to = "SUCCEEDED")
    PROVE  Lifecycle!Move(j, from, to)
BY DEF SetRow, Lifecycle!Move

\* So is a write of the status alone while no output is named before or after.
LEMMA StatusMoves ==
    ASSUME TypeOK, OutputNamed, NEW j \in Jobs, NEW from, NEW to \in Status,
           status[j] \in from, status[j] # "SUCCEEDED", to # "SUCCEEDED",
           status' = [status EXCEPT ![j] = to], UNCHANGED outputRef
    PROVE  Lifecycle!Move(j, from, to)
<1>1. outputRef[j] = FALSE
    BY DEF OutputNamed
<1>2. outputRef = [outputRef EXCEPT ![j] = FALSE]
    BY <1>1 DEF TypeOK
<1>3. (to = "SUCCEEDED") = FALSE
    OBVIOUS
<1>4. QED
    BY <1>2, <1>3 DEF Lifecycle!Move

\* Every step of the system is a step of the lifecycle or leaves the rows alone.
LEMMA StepImplementsLifecycle ==
    FullInv /\ [Next]_vars => [Lifecycle!Next]_rowVars
<1> SUFFICES ASSUME FullInv, [Next]_vars PROVE [Lifecycle!Next]_rowVars
    OBVIOUS
<1> USE DEF FullInv, SafetyInv, TypeInv, OutputInv
<1>1. ASSUME NEW j \in Jobs, CreateJob(j) PROVE Lifecycle!Next
    <2>1. Lifecycle!Move(j, {"NONE"}, "PENDING")
        BY <1>1, StatusMoves DEF CreateJob, Status
    <2>2. QED
        BY <2>1 DEF Lifecycle!Next, Lifecycle!Create
<1>2. ASSUME NEW j \in Jobs, MarkEnqueueFailed(j) PROVE [Lifecycle!Next]_rowVars
    <2>1. CASE UNCHANGED status
        BY <1>2, <2>1 DEF MarkEnqueueFailed, rowVars
    <2>2. CASE status' = [status EXCEPT ![j] = "FAILED"] /\ status[j] \notin Absent
        <3>1. status[j] = "PENDING"
            BY <1>2, <2>2 DEF MarkEnqueueFailed, OwnerInv, Absent
        <3>2. Lifecycle!Move(j, {"PENDING", "RUNNING"}, "FAILED")
            BY <1>2, <2>2, <3>1, StatusMoves DEF MarkEnqueueFailed, Status
        <3>3. QED
            BY <3>2 DEF Lifecycle!Next, Lifecycle!Fail
    <2>3. QED
        BY <1>2, <2>1, <2>2 DEF MarkEnqueueFailed
<1>3. ASSUME NEW j \in Jobs, DeleteRow(j) PROVE Lifecycle!Next
    <2>1. status[j] \in Lifecycle!Status \ Lifecycle!Absent
        BY <1>3 DEF DeleteRow, TypeOK, Status, Absent, Lifecycle!Status, Lifecycle!Absent
    <2>2. SetRow(j, "DELETED", "DELETED" = "SUCCEEDED")
        BY <1>3 DEF DeleteRow, SetRow
    <2>3. Lifecycle!Move(j, Lifecycle!Status \ Lifecycle!Absent, "DELETED")
        BY <2>1, <2>2, SetRowMoves DEF Status
    <2>4. QED
        BY <2>3 DEF Lifecycle!Next, Lifecycle!Delete
<1>4. ASSUME NEW w \in Workers, MarkRunning(w) PROVE [Lifecycle!Next]_rowVars
    <2>1. cur[w] \in Jobs
        BY <1>4 DEF MarkRunning, TypeOK, QueueInv
    <2>2. CASE UpdateSucceeds(cur[w], StartableStatus, "RUNNING", FALSE)
        <3>1. Lifecycle!Move(cur[w], {"PENDING", "FAILED"}, "RUNNING")
            BY <2>1, <2>2, SetRowMoves DEF UpdateSucceeds, SetRow, StartableStatus, Status
        <3>2. QED
            BY <2>1, <3>1 DEF Lifecycle!Next, Lifecycle!Start
    <2>3. QED
        BY <1>4, <2>2 DEF MarkRunning, UpdateThrows
<1>5. ASSUME NEW w \in Workers, MarkSucceeded(w) PROVE [Lifecycle!Next]_rowVars
    <2>1. cur[w] \in Jobs
        BY <1>5 DEF MarkSucceeded, TypeOK, QueueInv
    <2>2. CASE UpdateSucceeds(cur[w], {"RUNNING"}, "SUCCEEDED", TRUE)
        <3>1. Lifecycle!Move(cur[w], {"RUNNING"}, "SUCCEEDED")
            BY <2>1, <2>2, SetRowMoves DEF UpdateSucceeds, SetRow, Status
        <3>2. QED
            BY <2>1, <3>1 DEF Lifecycle!Next, Lifecycle!Succeed
    <2>3. QED
        BY <1>5, <2>2 DEF MarkSucceeded, UpdateThrows
<1>6. ASSUME NEW w \in Workers, MarkFailed(w) PROVE [Lifecycle!Next]_rowVars
    <2>1. cur[w] \in Jobs
        BY <1>6 DEF MarkFailed, TypeOK, QueueInv
    <2>2. CASE UpdateSucceeds(cur[w], FailableStatus, "FAILED", FALSE)
        <3>1. Lifecycle!Move(cur[w], {"PENDING", "RUNNING"}, "FAILED")
            BY <2>1, <2>2, SetRowMoves DEF UpdateSucceeds, SetRow, FailableStatus, Status
        <3>2. QED
            BY <2>1, <3>1 DEF Lifecycle!Next, Lifecycle!Fail
    <2>3. QED
        BY <1>6, <2>2 DEF MarkFailed, UpdateThrows
<1>7. ASSUME NEW j \in Jobs, RequestStep(j), ~MarkEnqueueFailed(j) PROVE UNCHANGED rowVars
    BY <1>7 DEF RequestStep, Enqueue, EnqueueThrows
<1>8. ASSUME NEW j \in Jobs, WebCrash(j) \/ PurgeOutput(j) \/ QueueStep(j)
      PROVE  UNCHANGED rowVars
    BY <1>8 DEF WebCrash, PurgeOutput, QueueStep, Promote, LockExpires, StalledCheck
<1>9. ASSUME NEW w \in Workers, NEW j \in Jobs, Take(w, j) PROVE UNCHANGED rowVars
    BY <1>9 DEF Take
<1>10. ASSUME NEW w \in Workers,
              LoadInputs(w) \/ Merge(w) \/ AckLost(w) \/ AckCompleted(w)
                \/ AckFailed(w) \/ Crash(w) \/ Restart(w)
       PROVE  UNCHANGED rowVars
    BY <1>10 DEF LoadInputs, Merge, AckLost, AckCompleted, AckFailed, Crash, Restart
<1>11. ASSUME Flush \/ UNCHANGED vars PROVE UNCHANGED rowVars
    BY <1>11 DEF Flush, vars, rowVars
<1>12. QED
    BY <1>1, <1>2, <1>3, <1>4, <1>5, <1>6, <1>7, <1>8, <1>9, <1>10, <1>11
       DEF Next, WorkerNext, RequestNext, CleanupNext, JobStep, RequestStep

\* Whatever the queue, the workers and the cleanup do, a client that polls the
\* row sees the lifecycle: PENDING, RUNNING, back and forth to FAILED while
\* there are attempts left, SUCCEEDED for good, gone.
THEOREM RowsFollowLifecycle ==
    ASSUME "ambiguousAdd" \notin Envelope
    PROVE  Spec => ImplementsLifecycle
<1>1. Init => Lifecycle!Init
    BY DEF Init, Lifecycle!Init
<1>2. QED
    BY <1>1, StepImplementsLifecycle, FullInvariant, PTL
       DEF Spec, ImplementsLifecycle, Lifecycle!Spec, rowVars, Lifecycle!rowVars

\* No step takes a SUCCEEDED row anywhere but away.
THEOREM SucceededStaysSucceeded ==
    ASSUME "ambiguousAdd" \notin Envelope
    PROVE  Spec => SucceededIsStable
<1> DEFINE Stable == \A j \in Jobs : status[j] = "SUCCEEDED" => status'[j] \in {"SUCCEEDED", "DELETED"}
<1>1. FullInv /\ [Lifecycle!Next]_rowVars => Stable
    <2> SUFFICES ASSUME FullInv, [Lifecycle!Next]_rowVars PROVE Stable
        OBVIOUS
    <2>1. status \in [Jobs -> Status]
        BY DEF FullInv, SafetyInv, TypeInv, TypeOK
    <2>2. CASE UNCHANGED rowVars
        BY <2>2 DEF rowVars
    <2>3. CASE Lifecycle!Next
        BY <2>1, <2>3 DEF Lifecycle!Next, Lifecycle!Create, Lifecycle!Start,
           Lifecycle!Succeed, Lifecycle!Fail, Lifecycle!Delete, Lifecycle!Move
    <2>4. QED
        BY <2>2, <2>3
<1>2. FullInv /\ [Next]_vars => [Stable]_vars
    BY <1>1, StepImplementsLifecycle
<1>3. QED
    BY <1>2, FullInvariant, PTL DEF Spec, SucceededIsStable

-----------------------------------------------------------------------------
\* What BullMQ's bookkeeping bounds.

\* jobs_failed_total counts every job whose attempts are used up, and none
\* twice.
THEOREM FailureCounting == Spec => []FailuresCountedOnce
<1>1. Init => FailuresCountedOnce
    BY DEF Init, FailuresCountedOnce
<1>2. TypeInv /\ FailuresCountedOnce /\ [Next]_vars => FailuresCountedOnce'
    <2> SUFFICES ASSUME TypeInv, FailuresCountedOnce, [Next]_vars
                 PROVE  FailuresCountedOnce'
        OBVIOUS
    <2> USE DEF TypeInv, TypeOK, QueueInv, FailuresCountedOnce, CountFailure,
                HasAttemptsLeft, IsTerminalFailure
    <2>1. ASSUME NEW j \in Jobs, StalledCheck(j) PROVE FailuresCountedOnce'
        BY <2>1 DEF StalledCheck
    <2>2. ASSUME NEW w \in Workers, AckFailed(w) PROVE FailuresCountedOnce'
        BY <2>2 DEF AckFailed
    <2>3. ASSUME NEW w \in Workers, AckCompleted(w) PROVE FailuresCountedOnce'
        BY <2>3 DEF AckCompleted, statVars
    <2>4. ASSUME NEW j \in Jobs, Enqueue(j) \/ EnqueueThrows(j) \/ Promote(j)
          PROVE  FailuresCountedOnce'
        BY <2>4 DEF Enqueue, EnqueueThrows, Promote, rowVars, workerVars, storeVars, statVars
    <2>5. ASSUME NEW w \in Workers, NEW j \in Jobs, Take(w, j)
          PROVE  FailuresCountedOnce'
        BY <2>5 DEF Take, statVars
    <2>6. ASSUME Flush PROVE FailuresCountedOnce'
        BY <2>6 DEF Flush, statVars
    <2>7. ASSUME UNCHANGED <<qstate, attempts, counted>> PROVE FailuresCountedOnce'
        BY <2>7
    <2>8. ASSUME NEW j \in Jobs,
                 CreateJob(j) \/ MarkEnqueueFailed(j) \/ WebCrash(j) \/ PurgeOutput(j)
                   \/ DeleteRow(j) \/ LockExpires(j)
          PROVE  UNCHANGED <<qstate, attempts, counted>>
        BY <2>8 DEF CreateJob, MarkEnqueueFailed, WebCrash, PurgeOutput, DeleteRow,
                    LockExpires, queueVars, statVars
    <2>9. ASSUME NEW w \in Workers,
                 MarkRunning(w) \/ LoadInputs(w) \/ Merge(w) \/ MarkSucceeded(w)
                   \/ MarkFailed(w) \/ AckLost(w) \/ Crash(w) \/ Restart(w)
          PROVE  UNCHANGED <<qstate, attempts, counted>>
        BY <2>9 DEF MarkRunning, LoadInputs, Merge, MarkSucceeded, MarkFailed,
                    AckLost, Crash, Restart, queueVars, statVars
    <2>10. QED
        BY <2>1, <2>2, <2>3, <2>4, <2>5, <2>6, <2>7, <2>8, <2>9
           DEF Next, WorkerNext, RequestNext, CleanupNext, JobStep, QueueStep,
               RequestStep, vars
<1>3. QED
    BY <1>1, <1>2, InitTypeInv, NextTypeInv, PTL DEF Spec

\* The workers that have been handed a job and have not tried to mark it
\* RUNNING yet.
Takers(j) == {w \in Workers : pc[w] = "taken" /\ cur[w] = j}

\* The deliveries of a job so far: those that were recorded as attempts, those
\* that stalled, and the one that is (or was, when Redis was flushed) under way.
Deliveries(j) ==
    attempts[j] + stalls[j] + (IF qstate[j] \in {"active", "lost"} THEN 1 ELSE 0)

\* Every merge and every worker about to begin one has a delivery of its own.
MergesPaidFor ==
    \A j \in Jobs : merges[j] + Cardinality(Takers(j)) <= Deliveries(j)

LEMMA TakersFinite ==
    \A j \in Jobs : IsFiniteSet(Takers(j)) /\ Cardinality(Takers(j)) \in Nat
<1> TAKE j \in Jobs
<1>1. Takers(j) \subseteq Workers
    BY DEF Takers
<1>2. QED
    BY <1>1, FS_Subset, FS_CardinalityType

SumBound == \A j \in Jobs : attempts[j] + stalls[j] <= Attempts + MaxStalls

\* A step that hands no job to a worker and takes no delivery back.
LEMMA QuietStep ==
    ASSUME TypeInv, TypeInv', MergesPaidFor, merges' = merges,
           \A j \in Jobs : Deliveries(j)' >= Deliveries(j),
           \A w \in Workers : pc'[w] = "taken" => pc[w] = "taken" /\ cur'[w] = cur[w]
    PROVE  MergesPaidFor'
<1> SUFFICES ASSUME NEW j \in Jobs
             PROVE  merges[j] + Cardinality(Takers(j)') <= Deliveries(j)'
    BY DEF MergesPaidFor
<1>1. Takers(j)' \subseteq Takers(j)
    BY DEF Takers
<1>2. /\ Cardinality(Takers(j)') <= Cardinality(Takers(j))
      /\ Cardinality(Takers(j)) \in Nat /\ Cardinality(Takers(j)') \in Nat
    BY <1>1, TakersFinite, FS_Subset, FS_CardinalityType
<1>3. /\ merges[j] \in Nat /\ attempts[j] \in Nat /\ stalls[j] \in Nat
      /\ attempts'[j] \in Nat /\ stalls'[j] \in Nat
    BY DEF TypeInv, TypeOK
<1>4. Deliveries(j) \in Nat /\ Deliveries(j)' \in Nat
    BY <1>3 DEF Deliveries
<1>5. /\ merges[j] + Cardinality(Takers(j)) <= Deliveries(j)
      /\ Deliveries(j)' >= Deliveries(j)
    BY DEF MergesPaidFor
<1>6. QED
    BY <1>2, <1>3, <1>4, <1>5

\* A delivery pays for the worker it hands the job to.
LEMMA TakePaidFor ==
    ASSUME TypeInv, TypeInv', MergesPaidFor, NEW w \in Workers, NEW k \in Jobs, Take(w, k)
    PROVE  MergesPaidFor'
<1> SUFFICES ASSUME NEW j \in Jobs
             PROVE  merges[j] + Cardinality(Takers(j)') <= Deliveries(j)'
    BY DEF MergesPaidFor, Take, statVars
<1>1. /\ merges[j] \in Nat /\ attempts[j] \in Nat /\ stalls[j] \in Nat
      /\ merges[j] + Cardinality(Takers(j)) <= Deliveries(j)
      /\ attempts' = attempts /\ stalls' = stalls
    BY DEF TypeInv, TypeOK, MergesPaidFor, Take
<1>2. CASE j = k
    <2>1. Takers(j)' = Takers(j) \cup {w} /\ w \notin Takers(j)
        BY <1>2 DEF Takers, Take, TypeInv, TypeOK
    <2>2. /\ Cardinality(Takers(j)') = Cardinality(Takers(j)) + 1
          /\ Cardinality(Takers(j)) \in Nat
        BY <2>1, TakersFinite, FS_AddElement
    <2>3. Deliveries(j) = attempts[j] + stalls[j] /\ Deliveries(j)' = attempts[j] + stalls[j] + 1
        BY <1>1, <1>2 DEF Deliveries, Take, TypeInv, TypeOK
    <2>4. QED
        BY <1>1, <2>2, <2>3
<1>3. CASE j # k
    <2>1. Takers(j)' = Takers(j)
        BY <1>3 DEF Takers, Take, TypeInv, TypeOK
    <2>2. Deliveries(j)' = Deliveries(j)
        BY <1>1, <1>3 DEF Deliveries, Take, TypeInv, TypeOK
    <2>3. QED
        BY <1>1, <2>1, <2>2
<1>4. QED
    BY <1>2, <1>3

\* A worker that gets past markRunning spends its delivery on a merge.
LEMMA MarkRunningPaidFor ==
    ASSUME TypeInv, TypeInv', MergesPaidFor, NEW w \in Workers, MarkRunning(w)
    PROVE  MergesPaidFor'
<1>1. /\ pc[w] = "taken" /\ cur[w] \in Jobs
    BY DEF MarkRunning, TypeInv, TypeOK, QueueInv
<1>2. /\ UNCHANGED <<cur, qstate, attempts, stalls>>
      /\ \E step \in {"loading", "ackFail"} : pc' = [pc EXCEPT ![w] = step]
    <2>1. UNCHANGED <<qstate, attempts, stalls>>
        BY DEF MarkRunning, queueVars
    <2>2. cur' = cur /\ \E step \in {"loading", "ackFail"} : pc' = [pc EXCEPT ![w] = step]
        BY DEF MarkRunning, GoTo
    <2>3. QED
        BY <2>1, <2>2
<1>3. merges' = [merges EXCEPT ![cur[w]] = @ + 1] \/ merges' = merges
    BY DEF MarkRunning
<1> SUFFICES ASSUME NEW j \in Jobs
             PROVE  merges'[j] + Cardinality(Takers(j)') <= Deliveries(j)'
    BY DEF MergesPaidFor
<1>4. /\ merges[j] \in Nat /\ attempts[j] \in Nat /\ stalls[j] \in Nat
      /\ merges[j] + Cardinality(Takers(j)) <= Deliveries(j)
      /\ Deliveries(j)' = Deliveries(j)
    BY <1>2 DEF TypeInv, TypeOK, MergesPaidFor, Deliveries
<1>5. Deliveries(j) \in Nat
    BY <1>4 DEF Deliveries
<1>6. CASE j = cur[w]
    <2>1. Takers(j)' = Takers(j) \ {w} /\ w \in Takers(j)
        BY <1>1, <1>2, <1>6 DEF Takers, TypeInv, TypeOK
    <2>2. /\ Cardinality(Takers(j)') = Cardinality(Takers(j)) - 1
          /\ Cardinality(Takers(j)) \in Nat
        BY <2>1, TakersFinite, FS_RemoveElement
    <2>3. merges'[j] \in {merges[j], merges[j] + 1}
        BY <1>3, <1>6 DEF TypeInv, TypeOK
    <2>4. QED
        BY <1>4, <1>5, <2>2, <2>3
<1>7. CASE j # cur[w]
    <2>1. Takers(j)' = Takers(j)
        BY <1>1, <1>2, <1>7 DEF Takers, TypeInv, TypeOK
    <2>2. merges'[j] = merges[j]
        BY <1>3, <1>7 DEF TypeInv, TypeOK
    <2>3. QED
        BY <1>4, <2>1, <2>2
<1>8. QED
    BY <1>6, <1>7


LEMMA NextMergesPaidFor ==
    TypeInv /\ TypeInv' /\ MergesPaidFor /\ [Next]_vars => MergesPaidFor'
<1> SUFFICES ASSUME TypeInv, TypeInv', MergesPaidFor, [Next]_vars
             PROVE  MergesPaidFor'
    OBVIOUS
<1> DEFINE Quiet == /\ merges' = merges
                    /\ \A j \in Jobs : Deliveries(j)' >= Deliveries(j)
                    /\ \A w \in Workers : pc'[w] = "taken" => pc[w] = "taken" /\ cur'[w] = cur[w]
<1> USE DEF TypeInv, TypeOK, QueueInv, Deliveries
<1>1. ASSUME NEW j \in Jobs, StalledCheck(j) PROVE Quiet
    BY <1>1 DEF StalledCheck, workerVars
<1>2. ASSUME NEW w \in Workers, AckFailed(w) PROVE Quiet
    BY <1>2 DEF AckFailed, HasAttemptsLeft, Release
<1>3. ASSUME NEW w \in Workers, AckCompleted(w) PROVE Quiet
    BY <1>3 DEF AckCompleted, Release, statVars
<1>4. ASSUME NEW j \in Jobs, Enqueue(j) \/ EnqueueThrows(j) PROVE Quiet
    BY <1>4 DEF Enqueue, EnqueueThrows, workerVars, statVars
<1>5. ASSUME NEW j \in Jobs, Promote(j) \/ LockExpires(j) PROVE Quiet
    BY <1>5 DEF Promote, LockExpires, workerVars, statVars
<1>6. ASSUME Flush PROVE Quiet
    BY <1>6 DEF Flush, workerVars, statVars
<1>0. UNCHANGED <<qstate, attempts, stalls>> => \A j \in Jobs : Deliveries(j)' >= Deliveries(j)
    OBVIOUS
<1>7. ASSUME NEW j \in Jobs,
             CreateJob(j) \/ MarkEnqueueFailed(j) \/ WebCrash(j) \/ PurgeOutput(j)
               \/ DeleteRow(j)
      PROVE  Quiet
    <2>1. UNCHANGED <<merges, queueVars, workerVars>>
        BY <1>7 DEF CreateJob, MarkEnqueueFailed, WebCrash, PurgeOutput, DeleteRow, statVars
    <2>2. QED
        BY <1>0, <2>1 DEF queueVars, workerVars
<1>8. ASSUME NEW w \in Workers, LoadInputs(w) \/ Merge(w) PROVE Quiet
    <2>1. UNCHANGED <<merges, queueVars>>
        BY <1>8 DEF LoadInputs, Merge, statVars
    <2>2. cur' = cur /\ \E step \in WorkerSteps \ {"taken"} : pc' = [pc EXCEPT ![w] = step]
        BY <1>8 DEF LoadInputs, Merge, GoTo, WorkerSteps
    <2>3. QED
        BY <1>0, <2>1, <2>2 DEF queueVars
<1>9. ASSUME NEW w \in Workers, MarkSucceeded(w) \/ MarkFailed(w) PROVE Quiet
    <2>1. UNCHANGED <<merges, queueVars>>
        BY <1>9 DEF MarkSucceeded, MarkFailed, statVars
    <2>2. cur' = cur /\ \E step \in WorkerSteps \ {"taken"} : pc' = [pc EXCEPT ![w] = step]
        BY <1>9 DEF MarkSucceeded, MarkFailed, GoTo, WorkerSteps
    <2>3. QED
        BY <1>0, <2>1, <2>2 DEF queueVars
<1>10. ASSUME NEW w \in Workers, AckLost(w) \/ Crash(w) \/ Restart(w) PROVE Quiet
    BY <1>10 DEF AckLost, Crash, Restart, Release, queueVars, statVars
<1>11. ASSUME UNCHANGED vars PROVE Quiet
    BY <1>11 DEF vars
<1>12. Quiet => MergesPaidFor'
    BY QuietStep
<1> HIDE DEF Quiet
<1>13. QED
    BY <1>1, <1>2, <1>3, <1>4, <1>5, <1>6, <1>7, <1>8, <1>9, <1>10, <1>11,
       <1>12, TakePaidFor, MarkRunningPaidFor
       DEF Next, WorkerNext, RequestNext, CleanupNext, JobStep, QueueStep, RequestStep

LEMMA NextSumBound == TypeInv /\ SumBound /\ [Next]_vars => SumBound'
<1> SUFFICES ASSUME TypeInv, SumBound, [Next]_vars PROVE SumBound'
    OBVIOUS
<1> USE DEF TypeInv, TypeOK, QueueInv, SumBound
<1>1. ASSUME NEW j \in Jobs, StalledCheck(j) PROVE SumBound'
    <2>1. attempts[j] < Attempts /\ stalls[j] <= MaxStalls
        BY <1>1 DEF StalledCheck
    <2>2. QED
        BY <1>1, <2>1 DEF StalledCheck
<1>2. ASSUME NEW w \in Workers, AckFailed(w) \/ AckCompleted(w) PROVE SumBound'
    <2>1. /\ pc[w] \in {"ackOk", "ackFail"} /\ lock[cur[w]] = w
          /\ attempts' = [attempts EXCEPT ![cur[w]] = @ + 1]
          /\ stalls' = stalls
        BY <1>2 DEF AckFailed, AckCompleted
    <2>2. cur[w] \in Jobs
        BY <2>1
    <2>3. attempts[cur[w]] < Attempts /\ stalls[cur[w]] <= MaxStalls
        BY <2>1, <2>2
    <2>4. QED
        BY <2>1, <2>2, <2>3
<1>3. ASSUME UNCHANGED <<attempts, stalls>> PROVE SumBound'
    BY <1>3
<1>4. ASSUME NEW j \in Jobs,
             CreateJob(j) \/ RequestStep(j) \/ WebCrash(j) \/ PurgeOutput(j)
               \/ DeleteRow(j) \/ Promote(j) \/ LockExpires(j)
      PROVE  UNCHANGED <<attempts, stalls>>
    BY <1>4 DEF CreateJob, RequestStep, Enqueue, EnqueueThrows, MarkEnqueueFailed,
                WebCrash, PurgeOutput, DeleteRow, Promote, LockExpires, queueVars
<1>5. ASSUME NEW w \in Workers,
             MarkRunning(w) \/ LoadInputs(w) \/ Merge(w) \/ MarkSucceeded(w)
               \/ MarkFailed(w) \/ AckLost(w) \/ Crash(w) \/ Restart(w)
      PROVE  UNCHANGED <<attempts, stalls>>
    BY <1>5 DEF MarkRunning, LoadInputs, Merge, MarkSucceeded, MarkFailed, AckLost,
                Crash, Restart, queueVars
<1>6. ASSUME NEW w \in Workers, NEW j \in Jobs, Take(w, j)
      PROVE  UNCHANGED <<attempts, stalls>>
    BY <1>6 DEF Take
<1>7. ASSUME Flush \/ UNCHANGED vars PROVE UNCHANGED <<attempts, stalls>>
    BY <1>7 DEF Flush, vars
<1>8. QED
    BY <1>1, <1>2, <1>3, <1>4, <1>5, <1>6, <1>7
       DEF Next, WorkerNext, RequestNext, CleanupNext, JobStep, QueueStep

\* No outside event makes the workers merge a job more often than the queue
\* options and the stalled limit allow.
THEOREM MergesAreBounded == Spec => []MergesBounded
<1> DEFINE Inv == TypeInv /\ MergesPaidFor /\ SumBound
<1>1. Init => MergesPaidFor /\ SumBound
    <2> SUFFICES ASSUME Init PROVE MergesPaidFor /\ SumBound
        OBVIOUS
    <2>1. \A j \in Jobs : Takers(j) = {}
        BY DEF Init, Takers
    <2>2. \A j \in Jobs : Cardinality(Takers(j)) = 0
        BY <2>1, FS_EmptySet
    <2>3. QED
        BY <2>2 DEF Init, MergesPaidFor, SumBound, Deliveries
<1>2. Inv /\ [Next]_vars => Inv'
    BY NextTypeInv, NextMergesPaidFor, NextSumBound
<1>3. Inv => MergesBounded
    <2> SUFFICES ASSUME Inv, NEW j \in Jobs PROVE merges[j] <= Attempts + MaxStalls
        BY DEF MergesBounded
    <2>1. /\ merges[j] \in Nat /\ attempts[j] \in Nat /\ stalls[j] \in Nat
          /\ attempts[j] + stalls[j] <= Attempts + MaxStalls
          /\ qstate[j] \in {"active", "lost"} => attempts[j] < Attempts /\ stalls[j] <= MaxStalls
        BY DEF TypeInv, TypeOK, QueueInv, SumBound
    <2>2. merges[j] + Cardinality(Takers(j)) <= Deliveries(j) /\ Cardinality(Takers(j)) \in Nat
        BY TakersFinite DEF MergesPaidFor
    <2>3. QED
        BY <2>1, <2>2 DEF Deliveries
<1>4. Spec => []Inv
    BY <1>1, <1>2, InitTypeInv, PTL DEF Spec
<1>5. QED
    BY <1>3, <1>4, PTL

-----------------------------------------------------------------------------
(* What holds while no worker dies and its calls do not fail.              *)

\* A conditional update that throws has found the row in another status.
LEMMA ReliableUpdateThrows ==
    ASSUME "dbError" \notin Envelope, "lostReply" \notin Envelope,
           NEW j, NEW from, NEW to, NEW ref, UpdateThrows(j, from, to, ref)
    PROVE  status[j] \notin from /\ UNCHANGED rowVars
BY DEF UpdateThrows

\* A step of one worker that has no row in its care leaves the owners of the
\* RUNNING rows as they are.
LEMMA BystanderKeepsOwners ==
    ASSUME RunningIsOwned, NEW w \in Workers, ~Owns(w), UNCHANGED status,
           \A v \in Workers \ {w} : pc'[v] = pc[v] /\ cur'[v] = cur[v]
    PROVE  RunningIsOwned'
BY DEF RunningIsOwned, OwnedBy, Owns

\* No step leaves a RUNNING row behind: markRunning, which alone makes one,
\* makes its worker the owner, and the owner lets it go only after another
\* update of the row.
LEMMA NextRunningIsOwned ==
    ASSUME "crash" \notin Envelope, "dbError" \notin Envelope, "lostReply" \notin Envelope
    PROVE  SafetyInv /\ RunningIsOwned /\ [Next]_vars => RunningIsOwned'
<1> SUFFICES ASSUME SafetyInv, RunningIsOwned, [Next]_vars PROVE RunningIsOwned'
    OBVIOUS
<1>0. /\ pc \in [Workers -> WorkerSteps] /\ cur \in [Workers -> Jobs \cup {NoJob}]
      /\ status \in [Jobs -> Status]
      /\ \A w \in Workers : pc[w] \notin {"down", "idle"} => cur[w] \in Jobs
    BY DEF SafetyInv, TypeInv, TypeOK, QueueInv
<1>1. ASSUME UNCHANGED workerVars, \A j \in Jobs : status'[j] = "RUNNING" => status[j] = "RUNNING"
      PROVE  RunningIsOwned'
    BY <1>1 DEF RunningIsOwned, OwnedBy, Owns, workerVars
<1>2. ASSUME NEW j \in Jobs,
             CreateJob(j) \/ RequestStep(j) \/ WebCrash(j) \/ PurgeOutput(j)
               \/ DeleteRow(j) \/ QueueStep(j)
      PROVE  RunningIsOwned'
    <2>1. UNCHANGED workerVars
        BY <1>2 DEF CreateJob, RequestStep, Enqueue, EnqueueThrows, MarkEnqueueFailed,
                    WebCrash, PurgeOutput, DeleteRow, QueueStep, Promote, LockExpires, StalledCheck
    <2>2. \/ UNCHANGED status
          \/ \E to \in {"PENDING", "FAILED", "DELETED"} : status' = [status EXCEPT ![j] = to]
        BY <1>2 DEF CreateJob, RequestStep, Enqueue, EnqueueThrows, MarkEnqueueFailed,
                    WebCrash, PurgeOutput, DeleteRow, SetRow, QueueStep, Promote, LockExpires,
                    StalledCheck, rowVars
    <2>3. QED
        BY <1>0, <1>1, <2>1, <2>2
<1>3. ASSUME Flush \/ UNCHANGED vars PROVE RunningIsOwned'
    BY <1>1, <1>3 DEF Flush, vars, rowVars, workerVars
<1>4. ASSUME NEW w \in Workers, NEW j \in Jobs, Take(w, j) PROVE RunningIsOwned'
    BY <1>0, <1>4, BystanderKeepsOwners DEF Take, Owns, rowVars
<1>5. ASSUME NEW w \in Workers,
             AckLost(w) \/ AckCompleted(w) \/ AckFailed(w) \/ Crash(w) \/ Restart(w)
      PROVE  RunningIsOwned'
    <2>1. ~Owns(w) /\ UNCHANGED status
        BY <1>5 DEF AckLost, AckCompleted, AckFailed, Crash, Restart, Owns, rowVars
    <2>2. \A v \in Workers \ {w} : pc'[v] = pc[v] /\ cur'[v] = cur[v]
        BY <1>0, <1>5 DEF AckLost, AckCompleted, AckFailed, Crash, Restart, Release
    <2>3. QED
        BY <2>1, <2>2, BystanderKeepsOwners
<1>6. ASSUME NEW w \in Workers, MarkRunning(w) PROVE RunningIsOwned'
    <2>1. pc[w] = "taken" /\ cur[w] \in Jobs /\ ~Owns(w)
        BY <1>0, <1>6 DEF MarkRunning, Owns
    <2>2. CASE UpdateSucceeds(cur[w], StartableStatus, "RUNNING", FALSE) /\ GoTo(w, "loading")
        <3>1. \A j \in Jobs : cur[w] = j => OwnedBy(w, j)'
            BY <1>0, <2>2 DEF GoTo, OwnedBy, Owns
        <3>2. \A j \in Jobs \ {cur[w]} : status'[j] = status[j]
            BY <1>0, <2>1, <2>2 DEF UpdateSucceeds, SetRow
        <3>3. \A v \in Workers, j \in Jobs : OwnedBy(v, j) => OwnedBy(v, j)'
            BY <1>0, <2>1, <2>2 DEF GoTo, OwnedBy, Owns
        <3>4. QED
            BY <2>1, <3>1, <3>2, <3>3 DEF RunningIsOwned
    <2>3. CASE UpdateThrows(cur[w], StartableStatus, "RUNNING", FALSE) /\ GoTo(w, "ackFail")
        <3>1. UNCHANGED status
            BY <2>3, ReliableUpdateThrows DEF rowVars
        <3>2. QED
            BY <1>0, <2>1, <2>3, <3>1, BystanderKeepsOwners DEF GoTo
    <2>4. QED
        BY <1>6, <2>2, <2>3 DEF MarkRunning
<1>7. ASSUME NEW w \in Workers, LoadInputs(w) \/ Merge(w) PROVE RunningIsOwned'
    <2>1. /\ UNCHANGED <<status, cur>> /\ Owns(w)
          /\ \E step \in {"merging", "saving", "failing"} : pc' = [pc EXCEPT ![w] = step]
        BY <1>7 DEF LoadInputs, Merge, GoTo, Owns, rowVars
    <2>2. QED
        BY <1>0, <2>1 DEF RunningIsOwned, OwnedBy, Owns
<1>8. ASSUME NEW w \in Workers, MarkSucceeded(w) PROVE RunningIsOwned'
    <2>1. pc[w] = "saving" /\ cur[w] \in Jobs
        BY <1>0, <1>8 DEF MarkSucceeded
    <2>2. CASE UpdateSucceeds(cur[w], {"RUNNING"}, "SUCCEEDED", TRUE) /\ GoTo(w, "ackOk")
        <3>1. status' = [status EXCEPT ![cur[w]] = "SUCCEEDED"]
            BY <2>2 DEF UpdateSucceeds, SetRow
        <3>2. QED
            BY <1>0, <2>1, <2>2, <3>1 DEF RunningIsOwned, OwnedBy, Owns, GoTo
    <2>3. CASE UpdateThrows(cur[w], {"RUNNING"}, "SUCCEEDED", TRUE) /\ GoTo(w, "failing")
        <3>1. UNCHANGED status
            BY <2>3, ReliableUpdateThrows DEF rowVars
        <3>2. QED
            BY <1>0, <2>1, <2>3, <3>1 DEF RunningIsOwned, OwnedBy, Owns, GoTo
    <2>4. QED
        BY <1>8, <2>2, <2>3 DEF MarkSucceeded
<1>9. ASSUME NEW w \in Workers, MarkFailed(w) PROVE RunningIsOwned'
    <2>1. pc[w] = "failing" /\ cur[w] \in Jobs /\ GoTo(w, "ackFail")
        BY <1>0, <1>9 DEF MarkFailed
    <2>2. status'[cur[w]] # "RUNNING" /\ \A j \in Jobs \ {cur[w]} : status'[j] = status[j]
        <3>1. CASE UpdateSucceeds(cur[w], FailableStatus, "FAILED", FALSE)
            BY <1>0, <2>1, <3>1 DEF UpdateSucceeds, SetRow
        <3>2. CASE UpdateThrows(cur[w], FailableStatus, "FAILED", FALSE)
            BY <3>2, ReliableUpdateThrows DEF FailableStatus, rowVars
        <3>3. QED
            BY <1>9, <3>1, <3>2 DEF MarkFailed
    <2>3. QED
        BY <1>0, <2>1, <2>2 DEF RunningIsOwned, OwnedBy, Owns, GoTo
<1>10. QED
    BY <1>2, <1>3, <1>4, <1>5, <1>6, <1>7, <1>8, <1>9
       DEF Next, WorkerNext, RequestNext, CleanupNext, JobStep

\* While workers do not die and the database answers, every RUNNING row has a
\* worker, whatever becomes of the locks, the queue and the row.
THEOREM RunningRowsAreOwned ==
    ASSUME Envelope \cap {"crash", "dbError", "lostReply", "ambiguousAdd"} = {}
    PROVE  Spec => []RunningIsOwned
<1>1. Init => RunningIsOwned
    BY DEF Init, RunningIsOwned
<1>2. SafetyInv /\ RunningIsOwned /\ [Next]_vars => RunningIsOwned'
    BY NextRunningIsOwned
<1>3. Spec => []SafetyInv
    BY SafetyInvariant
<1>4. QED
    BY <1>1, <1>2, <1>3, PTL DEF Spec

\* Without retention nothing is deleted.
Undeleted == purged = {} /\ \A j \in Jobs : status[j] # "DELETED"

LEMMA NextUndeleted ==
    ASSUME "cleanup" \notin Envelope
    PROVE  TypeInv /\ Undeleted /\ [Next]_vars => Undeleted'
<1> SUFFICES ASSUME TypeInv, Undeleted, [Next]_vars PROVE Undeleted'
    OBVIOUS
<1>0. status \in [Jobs -> Status]
    BY DEF TypeInv, TypeOK
<1>1. ASSUME purged' = purged,
             \/ UNCHANGED status
             \/ \E j, to : to # "DELETED" /\ status' = [status EXCEPT ![j] = to]
      PROVE  Undeleted'
    BY <1>0, <1>1 DEF Undeleted
<1>2. ASSUME NEW j \in Jobs, CreateJob(j) \/ MarkEnqueueFailed(j) PROVE Undeleted'
    BY <1>1, <1>2 DEF CreateJob, MarkEnqueueFailed, storeVars
<1>3. ASSUME NEW w \in Workers, MarkRunning(w) \/ MarkSucceeded(w) \/ MarkFailed(w)
      PROVE  Undeleted'
    <2>1. /\ purged' = purged
          /\ \E from \in {StartableStatus, {"RUNNING"}, FailableStatus},
                to \in {"RUNNING", "SUCCEEDED", "FAILED"}, ref \in BOOLEAN :
                \/ UpdateSucceeds(cur[w], from, to, ref)
                \/ UpdateThrows(cur[w], from, to, ref)
        BY <1>3 DEF MarkRunning, MarkSucceeded, MarkFailed, storeVars
    <2>2. QED
        BY <1>1, <2>1 DEF UpdateSucceeds, UpdateThrows, SetRow, rowVars
<1>4. ASSUME NEW j \in Jobs, PurgeOutput(j) \/ DeleteRow(j) PROVE FALSE
    BY <1>4 DEF PurgeOutput, DeleteRow, Undeleted
<1>5. ASSUME NEW j \in Jobs, Enqueue(j) \/ EnqueueThrows(j) \/ WebCrash(j) \/ QueueStep(j)
      PROVE  Undeleted'
    BY <1>1, <1>5 DEF Enqueue, EnqueueThrows, WebCrash, QueueStep, Promote, LockExpires,
                      StalledCheck, rowVars, storeVars
<1>6. ASSUME NEW w \in Workers, NEW j \in Jobs, Take(w, j) PROVE Undeleted'
    BY <1>1, <1>6 DEF Take, rowVars, storeVars
<1>7. ASSUME NEW w \in Workers,
             LoadInputs(w) \/ Merge(w) \/ AckLost(w) \/ AckCompleted(w) \/ AckFailed(w)
               \/ Crash(w) \/ Restart(w)
      PROVE  Undeleted'
    BY <1>1, <1>7 DEF LoadInputs, Merge, AckLost, AckCompleted, AckFailed, Crash, Restart,
                      rowVars, storeVars
<1>8. ASSUME Flush \/ UNCHANGED vars PROVE Undeleted'
    BY <1>1, <1>8 DEF Flush, vars, rowVars, storeVars
<1>9. QED
    BY <1>2, <1>3, <1>4, <1>5, <1>6, <1>7, <1>8
       DEF Next, WorkerNext, RequestNext, CleanupNext, JobStep, RequestStep

\* Only a worker that saves its job cares for an output no row names.
Saving(w, j) == cur[w] = j /\ pc[w] = "saving"

\* A job that another worker or nobody is saving has no output of its own
\* unless its row names it.
LEMMA OutputIsNamedOrSaved ==
    ASSUME FullInv, OutputIsReferenced, NEW j \in outputs,
           status[j] # "SUCCEEDED"
    PROVE  \E v \in Workers : Saving(v, j) /\ status[j] \in {"RUNNING", "DELETED"}
<1>1. j \in Jobs
    BY DEF FullInv, SafetyInv, TypeInv, TypeOK
<1>2. ~outputRef[j]
    BY <1>1 DEF FullInv, OutputInv, OutputNamed
<1>3. PICK v \in Workers : Saving(v, j)
    BY <1>2 DEF OutputIsReferenced, Saving
<1>4. status[cur[v]] \in {"RUNNING", "DELETED"}
    BY <1>3 DEF Saving, FullInv, SafetyInv, OwnerInv
<1>5. QED
    BY <1>3, <1>4 DEF Saving

\* A step that writes no output key and ends no saving.
LEMMA SavingGoesOn ==
    ASSUME OutputIsReferenced, outputs' \subseteq outputs, UNCHANGED outputRef,
           \A v \in Workers : pc[v] = "saving" => pc'[v] = "saving" /\ cur'[v] = cur[v]
    PROVE  OutputIsReferenced'
BY DEF OutputIsReferenced

LEMMA NextOutputIsReferenced ==
    ASSUME "crash" \notin Envelope, "dbError" \notin Envelope, "lostReply" \notin Envelope
    PROVE  FullInv /\ Undeleted /\ OutputIsReferenced /\ [Next]_vars => OutputIsReferenced'
<1> SUFFICES ASSUME FullInv, Undeleted, OutputIsReferenced, [Next]_vars
             PROVE  OutputIsReferenced'
    OBVIOUS
<1>0. /\ pc \in [Workers -> WorkerSteps] /\ cur \in [Workers -> Jobs \cup {NoJob}]
      /\ status \in [Jobs -> Status] /\ outputRef \in [Jobs -> BOOLEAN] /\ outputs \subseteq Jobs
      /\ \A w \in Workers : pc[w] \notin {"down", "idle"} => cur[w] \in Jobs
    BY DEF FullInv, SafetyInv, TypeInv, TypeOK, QueueInv
<1>1. ASSUME NEW j \in Jobs,
             CreateJob(j) \/ RequestStep(j) \/ WebCrash(j) \/ QueueStep(j)
      PROVE  OutputIsReferenced'
    <2>1. UNCHANGED <<outputs, outputRef, pc, cur>>
        BY <1>1 DEF CreateJob, RequestStep, Enqueue, EnqueueThrows, MarkEnqueueFailed, WebCrash,
                    QueueStep, Promote, LockExpires, StalledCheck, rowVars, workerVars, storeVars
    <2>2. QED
        BY <2>1, SavingGoesOn
<1>2. ASSUME NEW j \in Jobs, PurgeOutput(j) \/ DeleteRow(j) PROVE OutputIsReferenced'
    <2>2. CASE PurgeOutput(j)
        <3>1. UNCHANGED <<outputRef, pc, cur>> /\ outputs' \subseteq outputs
            BY <2>2 DEF PurgeOutput, rowVars, workerVars
        <3>2. QED
            BY <3>1, SavingGoesOn
    <2>3. CASE DeleteRow(j)
        BY <2>3 DEF DeleteRow, Undeleted
    <2>4. QED
        BY <1>2, <2>2, <2>3
<1>3. ASSUME Flush \/ UNCHANGED vars PROVE OutputIsReferenced'
    BY <1>3, SavingGoesOn DEF Flush, vars, rowVars, workerVars, storeVars
<1>4. ASSUME NEW w \in Workers, NEW j \in Jobs, Take(w, j) PROVE OutputIsReferenced'
    BY <1>0, <1>4, SavingGoesOn DEF Take, rowVars, storeVars
<1>5. ASSUME NEW w \in Workers,
             AckLost(w) \/ AckCompleted(w) \/ AckFailed(w) \/ Crash(w) \/ Restart(w)
               \/ LoadInputs(w)
      PROVE  OutputIsReferenced'
    <2>1. pc[w] # "saving" /\ UNCHANGED <<outputs, outputRef>>
        BY <1>5 DEF AckLost, AckCompleted, AckFailed, Crash, Restart, LoadInputs, rowVars, storeVars
    <2>2. \A v \in Workers \ {w} : pc'[v] = pc[v] /\ cur'[v] = cur[v]
        BY <1>0, <1>5 DEF AckLost, AckCompleted, AckFailed, Crash, Restart, LoadInputs, Release, GoTo
    <2>3. QED
        BY <2>1, <2>2, SavingGoesOn
<1>6. ASSUME NEW w \in Workers, MarkRunning(w) PROVE OutputIsReferenced'
    <2>1. /\ pc[w] = "taken" /\ cur[w] \in Jobs /\ outputs' = outputs
          /\ \A v \in Workers : pc[v] = "saving" => pc'[v] = "saving" /\ cur'[v] = cur[v]
        BY <1>0, <1>6 DEF MarkRunning, GoTo, storeVars
    <2>2. CASE UpdateSucceeds(cur[w], StartableStatus, "RUNNING", FALSE)
        <3>1. status[cur[w]] \in {"PENDING", "FAILED"}
            BY <2>2 DEF UpdateSucceeds, StartableStatus
        <3>2. cur[w] \notin outputs
            BY <3>1, OutputIsNamedOrSaved
        <3>3. \A j \in outputs : outputRef'[j] = outputRef[j]
            BY <1>0, <2>2, <3>2 DEF UpdateSucceeds, SetRow
        <3>4. QED
            BY <2>1, <3>3 DEF OutputIsReferenced
    <2>3. CASE UpdateThrows(cur[w], StartableStatus, "RUNNING", FALSE)
        <3>1. UNCHANGED outputRef
            BY <2>3, ReliableUpdateThrows DEF rowVars
        <3>2. QED
            BY <2>1, <3>1, SavingGoesOn
    <2>4. QED
        BY <1>6, <2>2, <2>3 DEF MarkRunning
<1>7. ASSUME NEW w \in Workers, Merge(w) PROVE OutputIsReferenced'
    <2>1. /\ pc[w] = "merging" /\ cur' = cur /\ UNCHANGED outputRef
          /\ \A v \in Workers \ {w} : pc'[v] = pc[v]
        BY <1>0, <1>7 DEF Merge, GoTo, rowVars
    <2>2. CASE outputs' = outputs
        BY <2>1, <2>2, SavingGoesOn
    <2>3. CASE outputs' = outputs \cup {cur[w]} /\ GoTo(w, "saving")
        BY <1>0, <2>1, <2>3 DEF OutputIsReferenced, GoTo
    <2>4. QED
        BY <1>7, <2>2, <2>3 DEF Merge
<1>8. ASSUME NEW w \in Workers, MarkSucceeded(w) PROVE OutputIsReferenced'
    <2>1. pc[w] = "saving" /\ cur[w] \in Jobs /\ outputs' = outputs
        BY <1>0, <1>8 DEF MarkSucceeded, storeVars
    <2>2. status[cur[w]] = "RUNNING"
        BY <2>1 DEF Undeleted, FullInv, SafetyInv, OwnerInv
    <2>3. UpdateSucceeds(cur[w], {"RUNNING"}, "SUCCEEDED", TRUE)
        BY <1>8, <2>2, ReliableUpdateThrows DEF MarkSucceeded
    <2>4. outputRef' = [outputRef EXCEPT ![cur[w]] = TRUE]
        BY <2>3 DEF UpdateSucceeds, SetRow
    <2>5. cur' = cur /\ \A v \in Workers \ {w} : pc'[v] = pc[v]
        BY <1>0, <1>8 DEF MarkSucceeded, GoTo
    <2>6. QED
        BY <1>0, <2>1, <2>4, <2>5 DEF OutputIsReferenced
<1>9. ASSUME NEW w \in Workers, MarkFailed(w) PROVE OutputIsReferenced'
    <2>1. /\ pc[w] = "failing" /\ cur[w] \in Jobs /\ outputs' = outputs
          /\ \A v \in Workers : pc[v] = "saving" => pc'[v] = "saving" /\ cur'[v] = cur[v]
        BY <1>0, <1>9 DEF MarkFailed, GoTo, storeVars
    <2>2. CASE UpdateSucceeds(cur[w], FailableStatus, "FAILED", FALSE)
        <3>1. status[cur[w]] \in {"PENDING", "RUNNING"}
            BY <2>2 DEF UpdateSucceeds, FailableStatus
        <3>2. \A v \in Workers : ~Saving(v, cur[w])
            BY <2>1 DEF Saving, FullInv, SafetyInv, OwnerInv, ExclusiveProcessing, OwnedBy, Owns
        <3>3. cur[w] \notin outputs
            BY <3>1, <3>2, OutputIsNamedOrSaved
        <3>4. \A j \in outputs : outputRef'[j] = outputRef[j]
            BY <1>0, <2>2, <3>3 DEF UpdateSucceeds, SetRow
        <3>5. QED
            BY <2>1, <3>4 DEF OutputIsReferenced
    <2>3. CASE UpdateThrows(cur[w], FailableStatus, "FAILED", FALSE)
        <3>1. UNCHANGED outputRef
            BY <2>3, ReliableUpdateThrows DEF rowVars
        <3>2. QED
            BY <2>1, <3>1, SavingGoesOn
    <2>4. QED
        BY <1>9, <2>2, <2>3 DEF MarkFailed
<1>10. QED
    BY <1>1, <1>2, <1>3, <1>4, <1>5, <1>6, <1>7, <1>8, <1>9
       DEF Next, WorkerNext, RequestNext, CleanupNext, JobStep

\* While workers do not die, no call fails and nothing is deleted, no output
\* is left in storage that neither a row names nor a worker is about to record.
THEOREM OutputsAreReferenced ==
    ASSUME Envelope \cap {"crash", "dbError", "lostReply", "ambiguousAdd", "cleanup"} = {}
    PROVE  Spec => []OutputIsReferenced
<1> DEFINE Inv == Undeleted /\ OutputIsReferenced
<1>1. Init => Inv
    BY DEF Init, Undeleted, OutputIsReferenced
<1>2. FullInv /\ Inv /\ [Next]_vars => Inv'
    BY NextUndeleted, NextOutputIsReferenced DEF FullInv, SafetyInv
<1>3. Spec => []FullInv
    BY FullInvariant
<1>4. QED
    BY <1>1, <1>2, <1>3, PTL DEF Spec

-----------------------------------------------------------------------------
(* When the count of failures tells the truth.                             *)

\* While every live worker keeps its lock, a worker with a job in hand holds
\* the lock of that job, unless Redis lost both, and an active job is in the
\* hands of the worker that holds its lock.
LockInv ==
    /\ \A w \in Workers : cur[w] # NoJob => lock[cur[w]] = w \/ qstate[cur[w]] = "lost"
    /\ \A j \in Jobs : qstate[j] = "active" => lock[j] # NoWorker /\ cur[lock[j]] = j

\* A SUCCEEDED row belongs to a job BullMQ is done with, or whose worker is
\* about to tell it so.
DoneInv ==
    \A j \in Jobs : status[j] = "SUCCEEDED" =>
        \/ qstate[j] \in {"completed", "lost"}
        \/ \E w \in Workers : pc[w] = "ackOk" /\ cur[w] = j

\* No lock runs out while its owner lives and renews it, so no job is handed
\* to a second worker.
LEMMA NextLockInv ==
    ASSUME "crash" \notin Envelope, "stall" \notin Envelope
    PROVE  TypeInv /\ LockInv /\ [Next]_vars => LockInv'
<1> SUFFICES ASSUME TypeInv, LockInv, [Next]_vars PROVE LockInv'
    OBVIOUS
<1>0. /\ pc \in [Workers -> WorkerSteps] /\ cur \in [Workers -> Jobs \cup {NoJob}]
      /\ qstate \in [Jobs -> QueueStates] /\ lock \in [Jobs -> Workers \cup {NoWorker}]
      /\ QueueInv
    BY DEF TypeInv, TypeOK
<1>1. ASSUME UNCHANGED <<cur, lock, qstate>> PROVE LockInv'
    BY <1>1 DEF LockInv
<1>2. ASSUME NEW j \in Jobs,
             CreateJob(j) \/ MarkEnqueueFailed(j) \/ WebCrash(j) \/ PurgeOutput(j) \/ DeleteRow(j)
      PROVE  LockInv'
    BY <1>1, <1>2 DEF CreateJob, MarkEnqueueFailed, WebCrash, PurgeOutput, DeleteRow, queueVars,
                      workerVars
<1>3. ASSUME NEW j \in Jobs, Enqueue(j) \/ EnqueueThrows(j) \/ Promote(j) PROVE LockInv'
    <2>1. /\ UNCHANGED <<cur, lock>> /\ qstate[j] \in {"none", "delayed"}
          /\ qstate' = [qstate EXCEPT ![j] = "waiting"] \/ UNCHANGED qstate
        BY <1>0, <1>3 DEF Enqueue, EnqueueThrows, Promote, workerVars, QueueInv
    <2>2. QED
        BY <1>0, <2>1 DEF LockInv, QueueInv
<1>4. ASSUME NEW j \in Jobs, LockExpires(j) \/ StalledCheck(j) PROVE FALSE
    BY <1>0, <1>4 DEF LockExpires, StalledCheck, LockInv, QueueInv
<1>5. ASSUME NEW w \in Workers, NEW j \in Jobs, Take(w, j) PROVE LockInv'
    <2>1. cur[w] = NoJob /\ \A v \in Workers : cur[v] # j
        BY <1>0, <1>5 DEF Take, LockInv, QueueInv
    <2>2. QED
        BY <1>0, <1>5, <2>1 DEF Take, LockInv
<1>6. ASSUME Flush PROVE LockInv'
    <2>1. cur' = cur /\ \A w \in Workers : cur[w] # NoJob => qstate[cur[w]] \in {"active", "lost"}
        BY <1>0, <1>6 DEF Flush, workerVars, LockInv, QueueInv
    <2>2. QED
        BY <1>0, <1>6, <2>1 DEF Flush, LockInv
<1>7. ASSUME NEW w \in Workers,
             MarkRunning(w) \/ LoadInputs(w) \/ Merge(w) \/ MarkSucceeded(w) \/ MarkFailed(w)
      PROVE  LockInv'
    BY <1>1, <1>7 DEF MarkRunning, LoadInputs, Merge, MarkSucceeded, MarkFailed, GoTo, queueVars
<1>8. ASSUME NEW w \in Workers, AckLost(w) \/ Crash(w) \/ Restart(w) PROVE LockInv'
    <2>1. /\ UNCHANGED <<lock, qstate>>
          /\ cur' = [cur EXCEPT ![w] = NoJob] \/ cur' = cur
          /\ cur[w] = NoJob \/ lock[cur[w]] # w
        BY <1>0, <1>8 DEF AckLost, Crash, Restart, Release, queueVars, QueueInv
    <2>2. QED
        BY <1>0, <2>1 DEF LockInv, QueueInv
<1>9. ASSUME NEW w \in Workers, AckCompleted(w) \/ AckFailed(w) PROVE LockInv'
    <2>1. /\ cur[w] \in Jobs /\ lock[cur[w]] = w /\ qstate[cur[w]] = "active"
          /\ lock' = [lock EXCEPT ![cur[w]] = NoWorker]
          /\ cur' = [cur EXCEPT ![w] = NoJob]
          /\ \E q \in QueueStates \ {"active"} : qstate' = [qstate EXCEPT ![cur[w]] = q]
        BY <1>0, <1>9 DEF AckCompleted, AckFailed, Release, QueueInv, QueueStates
    <2>2. \A v \in Workers \ {w} : cur[v] # cur[w]
        BY <1>0, <2>1 DEF LockInv
    <2>3. QED
        BY <1>0, <2>1, <2>2 DEF LockInv
<1>10. ASSUME UNCHANGED vars PROVE LockInv'
    BY <1>1, <1>10 DEF vars
<1>11. QED
    BY <1>2, <1>3, <1>4, <1>5, <1>6, <1>7, <1>8, <1>9, <1>10
       DEF Next, WorkerNext, RequestNext, CleanupNext, JobStep, QueueStep, RequestStep

\* Only markSucceeded makes a row SUCCEEDED, and its worker is heard when it
\* reports the job as completed.
LEMMA NextDoneInv ==
    ASSUME "crash" \notin Envelope, "stall" \notin Envelope, "lostReply" \notin Envelope
    PROVE  TypeInv /\ LockInv /\ DoneInv /\ [Next]_vars => DoneInv'
<1> SUFFICES ASSUME TypeInv, LockInv, DoneInv, [Next]_vars PROVE DoneInv'
    OBVIOUS
<1>0. /\ pc \in [Workers -> WorkerSteps] /\ cur \in [Workers -> Jobs \cup {NoJob}]
      /\ qstate \in [Jobs -> QueueStates] /\ status \in [Jobs -> Status]
      /\ QueueInv
    BY DEF TypeInv, TypeOK
<1>1. ASSUME \A j \in Jobs : status'[j] = "SUCCEEDED" => status[j] = "SUCCEEDED",
             \A j \in Jobs : qstate[j] \in {"completed", "lost"} => qstate'[j] \in {"completed", "lost"},
             \A w \in Workers : pc[w] = "ackOk" => pc'[w] = "ackOk" /\ cur'[w] = cur[w]
      PROVE  DoneInv'
    BY <1>1 DEF DoneInv
<1>2. ASSUME NEW j \in Jobs,
             CreateJob(j) \/ MarkEnqueueFailed(j) \/ WebCrash(j) \/ PurgeOutput(j) \/ DeleteRow(j)
      PROVE  DoneInv'
    <2>1. UNCHANGED <<qstate, pc, cur>>
        BY <1>2 DEF CreateJob, MarkEnqueueFailed, WebCrash, PurgeOutput, DeleteRow, queueVars,
                    workerVars
    <2>2. \/ UNCHANGED status
          \/ \E to \in {"PENDING", "FAILED", "DELETED"} : status' = [status EXCEPT ![j] = to]
        BY <1>2 DEF CreateJob, MarkEnqueueFailed, WebCrash, PurgeOutput, DeleteRow, SetRow, rowVars
    <2>3. QED
        BY <1>0, <1>1, <2>1, <2>2
<1>3. ASSUME NEW j \in Jobs, Enqueue(j) \/ EnqueueThrows(j) \/ QueueStep(j) PROVE DoneInv'
    <2>1. UNCHANGED <<status, pc, cur>>
        BY <1>3 DEF Enqueue, EnqueueThrows, QueueStep, Promote, LockExpires, StalledCheck, rowVars,
                    workerVars
    <2>2. /\ qstate[j] \in {"none", "delayed", "active"} \/ UNCHANGED qstate
          /\ \A k \in Jobs \ {j} : qstate'[k] = qstate[k]
        BY <1>0, <1>3 DEF Enqueue, EnqueueThrows, QueueStep, Promote, LockExpires, StalledCheck,
                          QueueInv
    <2>3. QED
        BY <1>0, <1>1, <2>1, <2>2
<1>4. ASSUME NEW w \in Workers, NEW j \in Jobs, Take(w, j) PROVE DoneInv'
    BY <1>0, <1>1, <1>4 DEF Take, rowVars
<1>5. ASSUME Flush PROVE DoneInv'
    BY <1>0, <1>1, <1>5 DEF Flush, rowVars, workerVars
<1>6. ASSUME NEW w \in Workers,
             MarkRunning(w) \/ LoadInputs(w) \/ Merge(w) \/ MarkFailed(w) \/ Crash(w) \/ Restart(w)
      PROVE  DoneInv'
    <2>1. pc[w] # "ackOk" /\ UNCHANGED qstate
        BY <1>6 DEF MarkRunning, LoadInputs, Merge, MarkFailed, Crash, Restart, queueVars
    <2>2. \A v \in Workers \ {w} : pc'[v] = pc[v] /\ cur'[v] = cur[v]
        BY <1>0, <1>6 DEF MarkRunning, LoadInputs, Merge, MarkFailed, GoTo, Crash, Restart
    <2>3. UNCHANGED status \/ \E to \in {"RUNNING", "FAILED"} : status' = [status EXCEPT ![cur[w]] = to]
        BY <1>6 DEF MarkRunning, LoadInputs, Merge, MarkFailed, Crash, Restart, UpdateSucceeds,
                    UpdateThrows, SetRow, rowVars
    <2>4. QED
        BY <1>0, <1>1, <2>1, <2>2, <2>3
<1>7. ASSUME NEW w \in Workers, MarkSucceeded(w) PROVE DoneInv'
    <2>1. pc[w] = "saving" /\ cur[w] \in Jobs /\ cur' = cur /\ qstate' = qstate
        <3>1. pc[w] = "saving" /\ cur' = cur /\ qstate' = qstate
            BY <1>7 DEF MarkSucceeded, GoTo, queueVars
        <3>2. QED
            BY <1>0, <3>1 DEF QueueInv
    <2>2. CASE UpdateSucceeds(cur[w], {"RUNNING"}, "SUCCEEDED", TRUE) /\ GoTo(w, "ackOk")
        <3>1. status' = [status EXCEPT ![cur[w]] = "SUCCEEDED"] /\ pc' = [pc EXCEPT ![w] = "ackOk"]
            BY <2>2 DEF UpdateSucceeds, SetRow, GoTo
        <3>2. QED
            BY <1>0, <2>1, <3>1 DEF DoneInv
    <2>3. CASE UpdateThrows(cur[w], {"RUNNING"}, "SUCCEEDED", TRUE) /\ GoTo(w, "failing")
        <3>1. UNCHANGED status /\ pc' = [pc EXCEPT ![w] = "failing"]
            BY <2>3 DEF UpdateThrows, rowVars, GoTo
        <3>2. QED
            BY <1>0, <1>1, <2>1, <3>1
    <2>4. QED
        BY <1>7, <2>2, <2>3 DEF MarkSucceeded
<1>8. ASSUME NEW w \in Workers, AckLost(w) \/ AckCompleted(w) \/ AckFailed(w) PROVE DoneInv'
    <2>1. /\ cur[w] \in Jobs /\ UNCHANGED status
          /\ \A v \in Workers \ {w} : pc'[v] = pc[v] /\ cur'[v] = cur[v]
        BY <1>0, <1>8 DEF AckLost, AckCompleted, AckFailed, Release, rowVars, QueueInv
    <2>2. CASE AckLost(w)
        <3>1. qstate[cur[w]] = "lost" /\ UNCHANGED qstate
            BY <2>1, <2>2 DEF AckLost, LockInv, queueVars
        <3>2. QED
            BY <2>1, <3>1 DEF DoneInv
    <2>3. CASE AckCompleted(w)
        <3>1. qstate' = [qstate EXCEPT ![cur[w]] = "completed"]
            BY <2>3 DEF AckCompleted
        <3>2. QED
            BY <1>0, <2>1, <3>1 DEF DoneInv
    <2>4. CASE AckFailed(w)
        <3>1. pc[w] = "ackFail" /\ qstate[cur[w]] = "active"
            BY <1>0, <2>1, <2>4 DEF AckFailed, QueueInv
        <3>2. \A j \in Jobs \ {cur[w]} : qstate'[j] = qstate[j]
            BY <1>0, <2>4 DEF AckFailed
        <3>3. QED
            BY <2>1, <3>1, <3>2 DEF DoneInv
    <2>5. QED
        BY <1>8, <2>2, <2>3, <2>4
<1>9. ASSUME UNCHANGED vars PROVE DoneInv'
    BY <1>1, <1>9 DEF vars
<1>10. QED
    BY <1>2, <1>3, <1>4, <1>5, <1>6, <1>7, <1>8, <1>9
       DEF Next, WorkerNext, RequestNext, CleanupNext, JobStep, RequestStep

\* The help text of jobs_failed_total is true while no worker dies or loses
\* its lock and no committed update is reported as an error: then no job it
\* counts has a SUCCEEDED row.  A worker that dies or stalls between
\* markSucceeded and BullMQ's record of the attempt breaks it.
THEOREM CountedFailuresDidFail ==
    ASSUME Envelope \cap {"crash", "stall", "lostReply"} = {}
    PROVE  Spec => []CountedFailuresFailed
<1> DEFINE Inv == TypeInv /\ LockInv /\ DoneInv
<1>1. Init => LockInv /\ DoneInv
    BY DEF Init, LockInv, DoneInv
<1>2. Inv /\ [Next]_vars => Inv'
    BY NextTypeInv, NextLockInv, NextDoneInv
<1>3. Inv /\ FailuresCountedOnce => CountedFailuresFailed
    <2> SUFFICES ASSUME Inv, FailuresCountedOnce, NEW j \in Jobs, counted[j] > 0,
                        status[j] = "SUCCEEDED"
                 PROVE  FALSE
        BY DEF CountedFailuresFailed
    <2>1. counted[j] = 1
        BY DEF TypeInv, TypeOK, FailuresCountedOnce
    <2>2. qstate[j] = "failed"
        BY <2>1 DEF FailuresCountedOnce
    <2>3. PICK w \in Workers : pc[w] = "ackOk" /\ cur[w] = j
        BY <2>2 DEF DoneInv
    <2>4. lock[j] = w
        BY <2>2, <2>3, JobsAssumption DEF LockInv
    <2>5. QED
        BY <2>2, <2>4, WorkersAssumption DEF TypeInv, QueueInv
<1>4. Spec => []Inv
    BY <1>1, <1>2, InitTypeInv, PTL DEF Spec
<1>5. QED
    BY <1>3, <1>4, FailureCounting, PTL

-----------------------------------------------------------------------------
(* A PENDING row is never forgotten on the way to its worker.              *)

\* While Redis keeps its data, no worker dies with a job in hand and the
\* database answers, a row whose job has left the waiting list is PENDING only
\* as long as a worker is about to mark it RUNNING.
PendingTaken ==
    \A j \in Jobs :
        status[j] = "PENDING" /\ qstate[j] \in {"active", "delayed", "completed", "failed"} =>
            \E w \in Workers : pc[w] = "taken" /\ cur[w] = j

PastPending ==
    \A w \in Workers :
        pc[w] \notin {"down", "idle", "taken"} => status[cur[w]] \notin {"NONE", "PENDING"}

HandInv == PendingTaken /\ PastPending /\ \A j \in Jobs : qstate[j] # "lost"

LEMMA InitHandInv == Init => HandInv
BY DEF Init, HandInv, PendingTaken, PastPending

\* markRunning moves a PENDING row on, and no step but the insert of a new row
\* makes one PENDING.
LEMMA NextHandInv ==
    ASSUME "crash" \notin Envelope, "flush" \notin Envelope, "dbError" \notin Envelope
    PROVE  TypeInv /\ HandInv /\ [Next]_vars => HandInv'
<1> SUFFICES ASSUME TypeInv, HandInv, [Next]_vars PROVE HandInv'
    OBVIOUS
<1> USE DEF HandInv, PendingTaken, PastPending
<1>0. /\ pc \in [Workers -> WorkerSteps] /\ cur \in [Workers -> Jobs \cup {NoJob}]
      /\ qstate \in [Jobs -> QueueStates] /\ status \in [Jobs -> Status]
      /\ QueueInv
    BY DEF TypeInv, TypeOK
<1>1. ASSUME UNCHANGED <<pc, cur, qstate>>,
             \A j \in Jobs : status'[j] = status[j] \/ status'[j] \notin {"NONE", "PENDING"}
      PROVE  HandInv'
    BY <1>0, <1>1 DEF QueueInv
<1>2. ASSUME NEW j \in Jobs, CreateJob(j) PROVE HandInv'
    <2>1. /\ status[j] = "NONE" /\ status' = [status EXCEPT ![j] = "PENDING"]
          /\ UNCHANGED <<pc, cur, qstate>>
        BY <1>2 DEF CreateJob, queueVars, workerVars
    <2>2. qstate[j] = "none"
        BY <1>0, <2>1 DEF QueueInv
    <2>3. \A w \in Workers : cur[w] # j
        BY <1>0, <2>2, JobsAssumption DEF QueueInv
    <2>4. QED
        BY <1>0, <2>1, <2>2, <2>3
<1>3. ASSUME NEW j \in Jobs, MarkEnqueueFailed(j) \/ WebCrash(j) \/ PurgeOutput(j) \/ DeleteRow(j)
      PROVE  HandInv'
    <2>1. UNCHANGED <<pc, cur, qstate>>
        BY <1>3 DEF MarkEnqueueFailed, WebCrash, PurgeOutput, DeleteRow, queueVars, workerVars
    <2>2. UNCHANGED status \/ \E to \in {"FAILED", "DELETED"} : status' = [status EXCEPT ![j] = to]
        BY <1>3 DEF MarkEnqueueFailed, WebCrash, PurgeOutput, DeleteRow, SetRow, rowVars
    <2>3. QED
        BY <1>0, <1>1, <2>1, <2>2
<1>4. ASSUME NEW j \in Jobs, Enqueue(j) \/ EnqueueThrows(j) \/ Promote(j) \/ LockExpires(j)
      PROVE  HandInv'
    <2>1. /\ UNCHANGED <<status, pc, cur>>
          /\ qstate' = [qstate EXCEPT ![j] = "waiting"] \/ UNCHANGED qstate
        BY <1>4 DEF Enqueue, EnqueueThrows, Promote, LockExpires, rowVars, workerVars
    <2>2. QED
        BY <1>0, <2>1
<1>5. ASSUME NEW j \in Jobs, StalledCheck(j) PROVE HandInv'
    <2>1. /\ UNCHANGED <<status, pc, cur>> /\ qstate[j] = "active"
          /\ \E q \in {"waiting", "failed"} : qstate' = [qstate EXCEPT ![j] = q]
        BY <1>5 DEF StalledCheck, rowVars, workerVars
    <2>2. QED
        BY <1>0, <2>1
<1>6. ASSUME NEW w \in Workers, NEW j \in Jobs, Take(w, j) PROVE HandInv'
    <2>1. /\ UNCHANGED status /\ pc[w] = "idle"
          /\ qstate' = [qstate EXCEPT ![j] = "active"]
          /\ pc' = [pc EXCEPT ![w] = "taken"] /\ cur' = [cur EXCEPT ![w] = j]
        BY <1>6 DEF Take, rowVars
    <2>2. /\ pc'[w] = "taken" /\ cur'[w] = j
          /\ \A v \in Workers \ {w} : pc'[v] = pc[v] /\ cur'[v] = cur[v]
          /\ qstate'[j] = "active" /\ \A k \in Jobs \ {j} : qstate'[k] = qstate[k]
        BY <1>0, <2>1
    <2>3. PendingTaken'
        BY <2>1, <2>2
    <2>4. PastPending' /\ \A k \in Jobs : qstate'[k] # "lost"
        BY <2>1, <2>2
    <2>5. QED
        BY <2>3, <2>4
<1>7. ASSUME NEW w \in Workers, MarkRunning(w) PROVE HandInv'
    <2>1. pc[w] = "taken" /\ cur' = cur /\ qstate' = qstate
        BY <1>7 DEF MarkRunning, GoTo, queueVars
    <2>2. \E step \in {"loading", "ackFail"} : pc' = [pc EXCEPT ![w] = step]
        BY <1>7 DEF MarkRunning, GoTo
    <2>3. cur[w] \in Jobs /\ status[cur[w]] # "NONE"
        BY <1>0, <2>1 DEF QueueInv
    <2>4. /\ status'[cur[w]] \notin {"NONE", "PENDING"}
          /\ \A j \in Jobs \ {cur[w]} : status'[j] = status[j]
        <3>1. CASE UpdateSucceeds(cur[w], StartableStatus, "RUNNING", FALSE)
            BY <1>0, <2>3, <3>1 DEF UpdateSucceeds, SetRow
        <3>2. CASE status[cur[w]] \notin StartableStatus /\ UNCHANGED rowVars
            BY <2>3, <3>2 DEF StartableStatus, rowVars
        <3>3. QED
            BY <1>7, <3>1, <3>2 DEF MarkRunning, UpdateThrows
    <2>5. pc'[w] # "taken" /\ \A v \in Workers \ {w} : pc'[v] = pc[v]
        BY <1>0, <2>2
    <2>6. PendingTaken'
        BY <2>1, <2>4, <2>5
    <2>7. PastPending'
        <3>1. \A v \in Workers : cur[v] = cur[w] \/ cur[v] \notin Jobs \/ status'[cur[v]] = status[cur[v]]
            BY <2>4
        <3>2. QED
            BY <1>0, <2>1, <2>2, <2>4, <2>5, <3>1 DEF QueueInv
    <2>8. QED
        BY <2>1, <2>6, <2>7
<1>8. ASSUME NEW w \in Workers,
             LoadInputs(w) \/ Merge(w) \/ MarkSucceeded(w) \/ MarkFailed(w)
      PROVE  HandInv'
    <2>1. /\ pc[w] \in {"loading", "merging", "saving", "failing"} /\ cur' = cur /\ qstate' = qstate
          /\ \E step \in {"merging", "saving", "failing", "ackOk", "ackFail"} : pc' = [pc EXCEPT ![w] = step]
        BY <1>8 DEF LoadInputs, Merge, MarkSucceeded, MarkFailed, GoTo, queueVars
    <2>2. UNCHANGED status \/ \E to \in {"SUCCEEDED", "FAILED"} : status' = [status EXCEPT ![cur[w]] = to]
        BY <1>8 DEF LoadInputs, Merge, MarkSucceeded, MarkFailed, UpdateSucceeds, UpdateThrows,
                    SetRow, rowVars
    <2>3. /\ \A v \in Workers \ {w} : pc'[v] = pc[v]
          /\ pc'[w] # "taken" /\ status[cur[w]] \notin {"NONE", "PENDING"}
          /\ \A j \in Jobs : status'[j] = status[j] \/ status'[j] \notin {"NONE", "PENDING"}
        BY <1>0, <2>1, <2>2
    <2>4. PendingTaken'
        BY <2>1, <2>3
    <2>5. PastPending'
        BY <1>0, <2>1, <2>3 DEF QueueInv
    <2>6. QED
        BY <2>1, <2>4, <2>5
<1>9. ASSUME NEW w \in Workers, AckLost(w) \/ AckCompleted(w) \/ AckFailed(w) PROVE HandInv'
    <2>1. /\ pc[w] \in {"ackOk", "ackFail"} /\ UNCHANGED status /\ cur[w] \in Jobs
          /\ pc' = [pc EXCEPT ![w] = "idle"] /\ cur' = [cur EXCEPT ![w] = NoJob]
        BY <1>0, <1>9 DEF AckLost, AckCompleted, AckFailed, Release, rowVars, QueueInv
    <2>2. \/ UNCHANGED qstate
          \/ \E q \in {"completed", "delayed", "failed"} : qstate' = [qstate EXCEPT ![cur[w]] = q]
        BY <1>9 DEF AckLost, AckCompleted, AckFailed, queueVars
    <2>3. QED
        BY <1>0, <2>1, <2>2
<1>10. ASSUME NEW w \in Workers, Crash(w) \/ Restart(w) PROVE HandInv'
    <2>1. /\ pc[w] \in {"down", "idle"} /\ UNCHANGED <<status, qstate>>
          /\ \E step \in {"down", "idle"} : pc' = [pc EXCEPT ![w] = step]
          /\ cur' = [cur EXCEPT ![w] = NoJob] \/ cur' = cur
        BY <1>10 DEF Crash, Restart, rowVars, queueVars
    <2>2. QED
        BY <1>0, <2>1
<1>11. ASSUME Flush \/ UNCHANGED vars PROVE HandInv'
    BY <1>11 DEF Flush, vars
<1>12. QED
    BY <1>2, <1>3, <1>4, <1>5, <1>6, <1>7, <1>8, <1>9, <1>10, <1>11
       DEF Next, WorkerNext, RequestNext, CleanupNext, JobStep, RequestStep, QueueStep

\* A PENDING row that was queued waits for a worker or has just been taken by
\* one, also when the lock of that worker runs out.
PendingInHand ==
    \A j \in Jobs :
        status[j] = "PENDING" =>
            \/ qstate[j] \in {"none", "waiting"}
            \/ \E w \in Workers : pc[w] = "taken" /\ cur[w] = j

\* No queued job is forgotten while its row is PENDING.
THEOREM PendingIsInHand ==
    ASSUME Envelope \cap {"crash", "flush", "dbError"} = {}
    PROVE  Spec => []PendingInHand
<1> DEFINE Inv == TypeInv /\ HandInv
<1>1. Inv => PendingInHand
    BY DEF PendingInHand, HandInv, PendingTaken, TypeInv, TypeOK, QueueStates
<1>2. Inv /\ [Next]_vars => Inv'
    BY NextTypeInv, NextHandInv
<1>3. Spec => []Inv
    BY <1>2, InitTypeInv, InitHandInv, PTL DEF Spec
<1>4. QED
    BY <1>1, <1>3, PTL

-----------------------------------------------------------------------------
(* How far BullMQ is from the end.                                         *)

\* A job in play is at least one step from the end.
LEMMA DistanceBound ==
    ASSUME TypeInv, NEW j \in Jobs, qstate[j] \in {"waiting", "active", "delayed"}
    PROVE  /\ Attempts - attempts[j] \in Nat \ {0} /\ MaxStalls - stalls[j] \in Nat
           /\ Distance(j) \in Nat \ {0}
           /\ Distance(j) = 3 * (Attempts - attempts[j] + MaxStalls - stalls[j])
                              + (IF qstate[j] = "delayed" THEN 3
                                 ELSE IF qstate[j] = "waiting" THEN 2 ELSE 1)
<1>1. Attempts - attempts[j] \in Nat \ {0} /\ MaxStalls - stalls[j] \in Nat
    BY DEF TypeInv, TypeOK, QueueInv
<1>2. Distance(j) = 3 * (Attempts - attempts[j] + MaxStalls - stalls[j])
                      + (IF qstate[j] = "delayed" THEN 3
                         ELSE IF qstate[j] = "waiting" THEN 2 ELSE 1)
    BY DEF Distance, DoneStates
<1>3. Attempts - attempts[j] + MaxStalls - stalls[j] \in Nat \ {0}
    BY <1>1 DEF TypeInv, TypeOK
<1>4. QED
    BY <1>1, <1>2, <1>3

\* Nothing that is not a step of BullMQ moves a job it was given, and each of
\* BullMQ's steps uses up an attempt or a stall, or goes on within one.
LEMMA QueueStepIsProgress ==
    ASSUME TypeInv, [Next]_vars, NEW j \in Jobs, qstate[j] # "none", qstate'[j] # qstate[j]
    PROVE  Distance(j)' < Distance(j)
<1> USE DEF TypeInv, TypeOK, QueueInv, QueueStates
<1>0. Attempts \in Nat /\ MaxStalls \in Nat /\ attempts[j] \in Nat /\ stalls[j] \in Nat
    BY LimitsAssumption
<1>1. ASSUME NEW k \in Jobs, Promote(k) PROVE Distance(j)' < Distance(j)
    <2>1. qstate[j] = "delayed" /\ qstate'[j] = "waiting" /\ UNCHANGED <<attempts, stalls>>
        BY <1>1 DEF Promote
    <2>2. QED
        BY <1>0, <2>1 DEF Distance, DoneStates
<1>2. ASSUME NEW k \in Jobs, StalledCheck(k) PROVE Distance(j)' < Distance(j)
    <2>1. /\ qstate[j] = "active" /\ qstate'[j] \in {"waiting", "failed"}
          /\ stalls'[j] = stalls[j] + 1 /\ attempts' = attempts
        BY <1>2 DEF StalledCheck
    <2>2. Distance(j) \in Nat \ {0}
              /\ Distance(j) = 3 * (Attempts - attempts[j] + MaxStalls - stalls[j]) + 1
        BY <2>1, DistanceBound
    <2>3. CASE qstate'[j] = "failed"
        BY <2>2, <2>3 DEF Distance, DoneStates
    <2>4. CASE qstate'[j] = "waiting"
        <3>1. Distance(j)' = 3 * (Attempts - attempts[j] + MaxStalls - (stalls[j] + 1)) + 2
            BY <2>1, <2>4 DEF Distance, DoneStates
        <3>2. QED
            BY <1>0, <2>2, <3>1
    <2>5. QED
        BY <2>1, <2>3, <2>4
<1>3. ASSUME Flush PROVE Distance(j)' < Distance(j)
    <2>1. qstate[j] \in {"waiting", "active", "delayed"} /\ qstate'[j] = "lost"
        BY <1>3 DEF Flush
    <2>2. Distance(j) \in Nat \ {0}
        BY <2>1, DistanceBound
    <2>3. QED
        BY <2>1, <2>2 DEF Distance, DoneStates
<1>4. ASSUME NEW w \in Workers, NEW k \in Jobs, Take(w, k) PROVE Distance(j)' < Distance(j)
    <2>1. qstate[j] = "waiting" /\ qstate'[j] = "active" /\ UNCHANGED <<attempts, stalls>>
        BY <1>4 DEF Take
    <2>2. QED
        BY <1>0, <2>1 DEF Distance, DoneStates
<1>5. ASSUME NEW w \in Workers, AckCompleted(w) \/ AckFailed(w)
      PROVE  Distance(j)' < Distance(j)
    <2>1. cur[w] \in Jobs /\ qstate[cur[w]] = "active"
        BY <1>5, WorkersAssumption DEF AckCompleted, AckFailed
    <2>2. j = cur[w]
        BY <1>5, <2>1 DEF AckCompleted, AckFailed
    <2>3. /\ qstate'[j] \in {"completed", "delayed", "failed"}
          /\ attempts'[j] = attempts[j] + 1 /\ stalls' = stalls
        BY <1>5, <2>1, <2>2 DEF AckCompleted, AckFailed
    <2>4. Distance(j) \in Nat \ {0}
              /\ Distance(j) = 3 * (Attempts - attempts[j] + MaxStalls - stalls[j]) + 1
        BY <2>1, <2>2, DistanceBound
    <2>5. CASE qstate'[j] # "delayed"
        BY <2>3, <2>4, <2>5 DEF Distance, DoneStates
    <2>6. CASE qstate'[j] = "delayed"
        <3>1. Distance(j)' = 3 * (Attempts - (attempts[j] + 1) + MaxStalls - stalls[j]) + 3
            BY <2>3, <2>6 DEF Distance, DoneStates
        <3>2. QED
            BY <1>0, <2>4, <3>1
    <2>7. QED
        BY <2>5, <2>6
<1>6. ASSUME NEW k \in Jobs, Enqueue(k) \/ EnqueueThrows(k) PROVE FALSE
    BY <1>6 DEF Enqueue, EnqueueThrows
<1>7. ASSUME NEW k \in Jobs,
             CreateJob(k) \/ MarkEnqueueFailed(k) \/ WebCrash(k) \/ PurgeOutput(k)
               \/ DeleteRow(k) \/ LockExpires(k)
      PROVE  FALSE
    BY <1>7 DEF CreateJob, MarkEnqueueFailed, WebCrash, PurgeOutput, DeleteRow,
                LockExpires, queueVars
<1>8. ASSUME NEW w \in Workers,
             MarkRunning(w) \/ LoadInputs(w) \/ Merge(w) \/ MarkSucceeded(w)
               \/ MarkFailed(w) \/ AckLost(w) \/ Crash(w) \/ Restart(w)
      PROVE  FALSE
    BY <1>8 DEF MarkRunning, LoadInputs, Merge, MarkSucceeded, MarkFailed, AckLost,
                Crash, Restart, queueVars
<1>9. ASSUME UNCHANGED vars PROVE FALSE
    BY <1>9 DEF vars
<1>10. QED
    BY <1>1, <1>2, <1>3, <1>4, <1>5, <1>6, <1>7, <1>8, <1>9
       DEF Next, WorkerNext, RequestNext, CleanupNext, JobStep, QueueStep, RequestStep

\* However locks are lost, processes die and data is lost, a job that was queued
\* moves through BullMQ towards an end, and stays there: fairness has only to
\* see to it that it moves.
THEOREM QueueAlwaysAdvances == Spec => QueueMakesProgress
<1>1. Spec => []TypeInv
    BY InitTypeInv, NextTypeInv, PTL DEF Spec
<1> DEFINE Advance ==
        \A j \in Jobs :
            qstate[j] # "none" /\ qstate'[j] # qstate[j] => Distance(j)' < Distance(j)
<1>2. TypeInv /\ [Next]_vars => [Advance]_vars
    BY QueueStepIsProgress
<1>3. QED
    BY <1>1, <1>2, PTL DEF Spec, QueueMakesProgress

=============================================================================
