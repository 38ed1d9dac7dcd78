----------------------------- MODULE Retention ------------------------------
(***************************************************************************)
(* Retention cleanup: deleteExpiredFileObjects                             *)
(* (src/src/server/cleanup/deleteExpired.ts), run again and again by the   *)
(* cleanup worker (src/src/workers/cleanupWorker.ts), next to the requests *)
(* that still create jobs on the files and the workers that still finish   *)
(* them.  A run fixes "now" once, selects expired files batch by batch     *)
(* with the outputs their jobs name at that moment, deletes the objects    *)
(* one by one and then the rows in a transaction of two statements.        *)
(*                                                                         *)
(* A file id stands for its row and for its uploaded object, a job id for  *)
(* its row and for the object of its output.                               *)
(***************************************************************************)
EXTENDS Integers, FiniteSets

CONSTANTS
    Files, Jobs,
    NoFile,         \* the fileObjectId of a job whose file is gone
    Cleaners,       \* cleanup runs that may overlap
    BatchSize,      \* CLEANUP_BATCH_SIZE
    Envelope        \* the outside events admitted

EventKinds == {"storageError", "crash", "lateJobs", "attemptFails"}

ASSUME FilesAssumption == NoFile \notin Files /\ Files \cap Jobs = {}
ASSUME BatchAssumption == BatchSize \in Nat \ {0}
ASSUME EnvelopeAssumption == Envelope \subseteq EventKinds

VARIABLES
    fileRow,        \* [Files -> "none" | "ready" | "deleted"]
    expired,        \* files whose expiresAt has passed
    jobRow,         \* [Jobs -> "none" | "validated" | "live" | "deleted"]
    jobFile,        \* [Jobs -> the fileObjectId column, or the file validated]
    outputRef,      \* jobs whose outputRef column is set
    work,           \* [Jobs -> where the worker stands with the job]
    objects,        \* the objects in storage
    late,           \* jobs created or finished after their file had expired
    run             \* [Cleaners -> the locals of a run, or NoRun]

rowVars == <<fileRow, expired, jobRow, jobFile, outputRef, work, late>>
vars == <<fileRow, expired, jobRow, jobFile, outputRef, work, objects, late, run>>

Entry == [file : Files, keys : SUBSET (Files \cup Jobs)]

\* A run: its next step; the files expired at its "now" (due); attemptedIds;
\* what is left of the batch, with the keys to delete, and whether the batch
\* was as large as BatchSize; the file in hand with its keys still to delete;
\* the jobs deleted by its open transaction.
Runs == [step : {"idle", "select", "next", "remove", "deleteJobs", "deleteFile"},
         due : SUBSET Files, attempted : SUBSET Files, batch : SUBSET Entry,
         full : BOOLEAN, current : Files \cup {NoFile},
         keys : SUBSET (Files \cup Jobs), doomed : SUBSET Jobs]

NoRun == [step |-> "idle", due |-> {}, attempted |-> {}, batch |-> {}, full |-> FALSE,
          current |-> NoFile, keys |-> {}, doomed |-> {}]

TypeOK ==
    /\ fileRow \in [Files -> {"none", "ready", "deleted"}]
    /\ expired \subseteq Files
    /\ jobRow \in [Jobs -> {"none", "validated", "live", "deleted"}]
    /\ jobFile \in [Jobs -> Files \cup {NoFile}]
    /\ outputRef \subseteq Jobs
    /\ work \in [Jobs -> {"queued", "merging", "uploaded", "done"}]
    /\ objects \subseteq Files \cup Jobs
    /\ late \subseteq Jobs
    /\ DOMAIN run = Cleaners
    /\ \A c \in Cleaners :
          /\ DOMAIN run[c] = DOMAIN NoRun
          /\ run[c].step \in {"idle", "select", "next", "remove", "deleteJobs", "deleteFile"}
          /\ run[c].due \cup run[c].attempted \subseteq Files
          /\ run[c].batch \subseteq Entry
          /\ run[c].full \in BOOLEAN
          /\ run[c].current \in Files \cup {NoFile}
          /\ run[c].keys \subseteq Files \cup Jobs
          /\ run[c].doomed \subseteq Jobs

Init ==
    /\ fileRow = [f \in Files |-> "none"]
    /\ expired = {}
    /\ jobRow = [j \in Jobs |-> "none"]
    /\ jobFile = [j \in Jobs |-> NoFile]
    /\ outputRef = {}
    /\ work = [j \in Jobs |-> "queued"]
    /\ objects = {}
    /\ late = {}
    /\ run = [c \in Cleaners |-> NoRun]

-----------------------------------------------------------------------------
(* Uploads, requests and workers, as far as they touch what is cleaned.    *)

\* A verified upload: the object is in storage and the row READY.
FileReady(f) ==
    /\ fileRow[f] = "none"
    /\ fileRow' = [fileRow EXCEPT ![f] = "ready"]
    /\ objects' = objects \cup {f}
    /\ UNCHANGED <<expired, jobRow, jobFile, outputRef, work, late, run>>

\* FILE_RETENTION_HOURS have passed.
Expire(f) ==
    /\ fileRow[f] = "ready"
    /\ f \notin expired
    /\ expired' = expired \cup {f}
    /\ UNCHANGED <<fileRow, jobRow, jobFile, outputRef, work, objects, late, run>>

\* What happens to a job after its file has expired makes the job late.
Timely(j) == jobFile'[j] \in Files \ expired
NoteLate(j) ==
    /\ Timely(j) \/ "lateJobs" \in Envelope
    /\ late' = IF Timely(j) THEN late ELSE late \cup {j}

\* validateJobInput accepts READY files, expired or not.
ValidateJob(j, f) ==
    /\ jobRow[j] = "none"
    /\ fileRow[f] = "ready"
    /\ jobRow' = [jobRow EXCEPT ![j] = "validated"]
    /\ jobFile' = [jobFile EXCEPT ![j] = f]
    /\ UNCHANGED <<fileRow, expired, outputRef, work, objects, late, run>>

\* The row is inserted if the foreign key still finds the file.
CreateJob(j) ==
    /\ jobRow[j] = "validated"
    /\ fileRow[jobFile[j]] = "ready"
    /\ jobRow' = [jobRow EXCEPT ![j] = "live"]
    /\ UNCHANGED jobFile
    /\ NoteLate(j)
    /\ UNCHANGED <<fileRow, expired, outputRef, work, objects, run>>

\* A worker marks the job RUNNING and begins to merge.
BeginMerge(j) ==
    /\ jobRow[j] = "live" /\ work[j] = "queued"
    /\ work' = [work EXCEPT ![j] = "merging"]
    /\ UNCHANGED <<fileRow, expired, jobRow, jobFile, outputRef, objects, late, run>>

\* It uploads the output, whether or not the row is still there.
UploadOutput(j) ==
    /\ work[j] = "merging"
    /\ work' = [work EXCEPT ![j] = "uploaded"]
    /\ objects' = objects \cup {j}
    /\ UNCHANGED jobFile
    /\ NoteLate(j)
    /\ UNCHANGED <<fileRow, expired, jobRow, outputRef, run>>

\* markSucceeded, which waits for a transaction that is deleting the row.
RecordOutput(j) ==
    /\ work[j] = "uploaded"
    /\ jobRow[j] = "live" /\ \A c \in Cleaners : j \notin run[c].doomed
    /\ work' = [work EXCEPT ![j] = "done"]
    /\ outputRef' = outputRef \cup {j}
    /\ UNCHANGED jobFile
    /\ NoteLate(j)
    /\ UNCHANGED <<fileRow, expired, jobRow, objects, run>>

\* The merge fails, or markSucceeded does because the database fails or the row
\* is gone.  The row is marked FAILED with no outputRef, if it can be; an output
\* that is in storage stays there.  Another attempt may follow (BeginMerge), or
\* none: nothing here obliges a worker to begin.
AttemptFails(j) ==
    /\ work[j] \in {"merging", "uploaded"}
    /\ "attemptFails" \in Envelope \/ jobRow[j] = "deleted"
    /\ work' = [work EXCEPT ![j] = "queued"]
    /\ UNCHANGED <<fileRow, expired, jobRow, jobFile, outputRef, objects, late, run>>

-----------------------------------------------------------------------------
(* A cleanup run.                                                          *)

\* The run goes on with the locals x.
SetRun(c, x) == run' = [run EXCEPT ![c] = x]

\* The repeatable job fires; "now" is taken once.
StartRun(c) ==
    /\ run[c].step = "idle"
    /\ SetRun(c, [NoRun EXCEPT !.step = "select", !.due = expired])
    /\ UNCHANGED <<rowVars, objects>>

Linked(f) == {j \in Jobs : jobRow[j] = "live" /\ jobFile[j] = f}

\* The object of the file and the outputs its jobs name now.  (Mutants: the
\* outputs are forgotten; empty outputRefs are not filtered out.)
KeysOfFileOnly(f) == {f}
KeysOfWithNull(f) == {f, NoFile} \cup (Linked(f) \cap outputRef)
KeysOf(f) == {f} \cup (Linked(f) \cap outputRef)

\* The expired files a run has not attempted yet.  (Mutants: expiresAt is not
\* compared; attemptedIds is not excluded.)
CandidatesAnyAge(c) == {f \in Files : fileRow[f] = "ready" /\ f \notin run[c].attempted}
CandidatesAgain(c) == {f \in run[c].due : fileRow[f] = "ready"}
Candidates(c) == {f \in run[c].due : fileRow[f] = "ready" /\ f \notin run[c].attempted}

\* The query of the next batch (which files come first is left open).
Select(c) ==
    /\ run[c].step = "select"
    /\ \/ Candidates(c) = {} /\ SetRun(c, NoRun)
       \/ \E chosen \in (SUBSET Candidates(c)) \ {{}} :
             /\ Cardinality(chosen) <= BatchSize
             /\ Cardinality(chosen) = BatchSize \/ chosen = Candidates(c)
             /\ SetRun(c, [run[c] EXCEPT
                    !.batch = {[file |-> f, keys |-> KeysOf(f)] : f \in chosen},
                    !.full = (Cardinality(chosen) = BatchSize),
                    !.step = "next"])
    /\ UNCHANGED <<rowVars, objects>>

\* The next file of the batch, or the end of the batch: another one follows
\* only a full one.
NextFile(c) ==
    /\ run[c].step = "next"
    /\ \/ \E e \in run[c].batch :
             SetRun(c, [run[c] EXCEPT !.batch = @ \ {e},
                                      !.attempted = @ \cup {e.file},
                                      !.current = e.file,
                                      !.keys = e.keys,
                                      !.step = "remove"])
       \/ /\ run[c].batch = {}
          /\ SetRun(c, IF run[c].full THEN [run[c] EXCEPT !.step = "select", !.full = FALSE]
                                      ELSE NoRun)
    /\ UNCHANGED <<rowVars, objects>>

\* The rows of this file are left to a later run.
Skip(c) == SetRun(c, [run[c] EXCEPT !.keys = {}, !.current = NoFile, !.step = "next"])

\* The keys remove() may be called for next: that of the file comes first.
InTurn(c) == {k \in run[c].keys : run[c].current \in run[c].keys => k = run[c].current}

\* remove() of one key; a missing object is as good as
\* a deleted one.  (Mutant: it is a failure.)
RemoveKeyMissingFails(c) ==
    /\ run[c].step = "remove"
    /\ \E k \in InTurn(c) :
          /\ objects' = objects \ {k}
          /\ IF k \in objects
             THEN SetRun(c, [run[c] EXCEPT
                    !.keys = @ \ {k},
                    !.step = IF run[c].keys = {k} THEN "deleteJobs" ELSE "remove"])
             ELSE Skip(c)
    /\ UNCHANGED rowVars

RemoveKey(c) ==
    /\ run[c].step = "remove"
    /\ \E k \in InTurn(c) :
          /\ objects' = objects \ {k}
          /\ SetRun(c, [run[c] EXCEPT
                    !.keys = @ \ {k},
                    !.step = IF run[c].keys = {k} THEN "deleteJobs" ELSE "remove"])
    /\ UNCHANGED rowVars

\* Any other storage error ends the work on this file, even if the object is
\* gone and only the answer was lost.  (Mutant: the rows are deleted all the
\* same.)
RemoveFailsRowsGo(c) ==
    /\ "storageError" \in Envelope
    /\ run[c].step = "remove"
    /\ SetRun(c, [run[c] EXCEPT !.keys = {}, !.step = "deleteJobs"])
    /\ UNCHANGED <<rowVars, objects>>

RemoveFails(c) ==
    /\ "storageError" \in Envelope
    /\ run[c].step = "remove"
    /\ \E k \in InTurn(c) : objects' \in {objects, objects \ {k}}
    /\ Skip(c)
    /\ UNCHANGED rowVars

\* The first statement of the transaction, not visible to others yet; it
\* waits for the rows another run is deleting.
DeleteJobs(c) ==
    LET gone == Linked(run[c].current)
    IN  /\ run[c].step = "deleteJobs"
        /\ \A d \in Cleaners : run[d].doomed \cap gone = {}
        /\ SetRun(c, [run[c] EXCEPT !.doomed = gone, !.step = "deleteFile"])
        /\ UNCHANGED <<rowVars, objects>>

\* The second statement, which looks at expiresAt again, and the commit.  A job
\* inserted between the statements keeps its row and loses its file (the
\* foreign key says ON DELETE SET NULL).
DeleteFile(c) ==
    LET f == run[c].current
        gone == run[c].doomed
    IN  /\ run[c].step = "deleteFile"
        /\ jobRow' = [j \in Jobs |-> IF j \in gone THEN "deleted" ELSE jobRow[j]]
        /\ IF f \in run[c].due
           THEN /\ fileRow' = [fileRow EXCEPT ![f] = "deleted"]
                /\ jobFile' = [j \in Jobs |-> IF j \in Linked(f) \ gone THEN NoFile ELSE jobFile[j]]
           ELSE UNCHANGED <<fileRow, jobFile>>
        /\ SetRun(c, [run[c] EXCEPT !.doomed = {}, !.current = NoFile, !.step = "next"])
        /\ outputRef' = outputRef \ gone
        /\ UNCHANGED <<expired, work, late, objects>>

\* The process dies, or a database call throws and ends the run; an open
\* transaction is rolled back.
Abort(c) ==
    /\ "crash" \in Envelope
    /\ run[c].step # "idle"
    /\ SetRun(c, NoRun)
    /\ UNCHANGED <<rowVars, objects>>

Proceed(c) == Select(c) \/ NextFile(c) \/ RemoveKey(c) \/ DeleteJobs(c) \/ DeleteFile(c)

RunStep(c) == Proceed(c) \/ RemoveFails(c)

-----------------------------------------------------------------------------

EnvNext ==
    \/ \E f \in Files : FileReady(f) \/ Expire(f)
    \/ \E j \in Jobs, f \in Files : ValidateJob(j, f)
    \/ \E j \in Jobs :
          CreateJob(j) \/ BeginMerge(j) \/ UploadOutput(j) \/ RecordOutput(j) \/ AttemptFails(j)

Next == EnvNext \/ \E c \in Cleaners : StartRun(c) \/ RunStep(c) \/ Abort(c)

Spec == Init /\ [][Next]_vars

\* The scheduler starts a run every CLEANUP_REPEAT_EVERY_MS, a run that has
\* started keeps going, and a transaction that waits for rows gets its turn
\* when others keep deleting them (the lock queue of PostgreSQL).
Fairness ==
    \A c \in Cleaners :
        WF_vars(StartRun(c)) /\ WF_vars(RunStep(c)) /\ SF_vars(DeleteJobs(c))

FairSpec == Spec /\ Fairness

-----------------------------------------------------------------------------
(* Properties.                                                             *)

\* A file row goes only after its object: however a run fails, storage never
\* keeps an upload that no row knows of.
NoUploadWithoutRow == \A f \in Files : fileRow[f] = "deleted" => f \notin objects

\* Nothing of a job that was created and had SUCCEEDED before its file expired
\* outlives the file: its row and its output go with it, also when earlier
\* attempts at it had failed after their upload.  (A late job may leave both
\* behind, see DeleteFile and UploadOutput, and a job that ended FAILED an
\* output nobody names, see AttemptFails.)
TimelyJobsLeaveNothing ==
    \A j \in Jobs \ late :
        /\ jobRow[j] = "deleted" /\ work[j] = "done" => j \notin objects
        /\ jobRow[j] = "live" => jobFile[j] \in Files /\ fileRow[jobFile[j]] = "ready"

\* A file that has not expired keeps its row, its object, its jobs and their
\* outputs, whatever the runs are doing.
UnexpiredUntouched ==
    [][\A f \in Files \ expired :
          fileRow[f] = "ready" =>
              /\ fileRow'[f] = "ready"
              /\ objects \cap ({f} \cup Linked(f)) \subseteq objects'
              /\ \A j \in Linked(f) : jobRow'[j] = "live" /\ jobFile'[j] = f]_vars

\* How much a run still has to do at most: each file it has not attempted costs it
\* at most one removal for each key and a few steps more.
Left(c) ==
    IF run[c].step = "idle" THEN 0
    ELSE Cardinality(Files \ run[c].attempted) * (Cardinality(Jobs) + 7)
           + CASE run[c].step = "remove"                       -> Cardinality(run[c].keys) + 5
               [] run[c].step = "deleteJobs"                   -> 5
               [] run[c].step = "deleteFile"                   -> 4
               [] run[c].step = "next" /\ run[c].batch = {}    -> 3
               [] run[c].step = "select"                       -> 2
               [] OTHER                                        -> 1

\* Every step of a run brings it closer to its end, whether storage fails or not,
\* and nothing that uploads, requests, workers or other runs do in between gives
\* it more to do.
RunsMakeProgress ==
    [][\A c \in Cleaners :
          run[c].step # "idle" /\ run'[c] # run[c] => Left(c)' < Left(c)]_vars

\* Every run ends, also when storage keeps failing: attemptedIds keeps a file
\* from being selected twice.
RunsEnd == \A c \in Cleaners : run[c].step # "idle" ~> run[c].step = "idle"

\* Once storage stops failing and runs are no longer cut off, every expired file
\* is deleted, by one of the runs if not by the first, whatever was left
\* half deleted before.
ExpiredAreDeleted ==
    <>[][\A c \in Cleaners : RemoveFails(c) \/ Abort(c) => Proceed(c)]_vars
        => \A f \in Files : f \in expired ~> fileRow[f] = "deleted"

=============================================================================
