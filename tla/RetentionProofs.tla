-------------------------- MODULE RetentionProofs ---------------------------
(***************************************************************************)
(* Theorems about Retention, proved for every number of files, jobs and    *)
(* overlapping runs, every batch size and every subset of outside events.  *)
(***************************************************************************)
EXTENDS Retention, FiniteSetTheorems, TLAPS

\* Where a worker has not begun, the job is still young.
Young == {"none", "validated"}

\* Job j was one of file f: it has not been given another file since.
Bound(j, f) == jobRow[j] \in {"live", "deleted"} /\ jobFile[j] \in {f, NoFile}

\* What is known of the rows and the objects, whoever is at work on them: an
\* expired file has or had a row, a row that is gone has left no upload, and a
\* timely job has what TimelyJobsLeaveNothing promises, while it is live with
\* its output named in its row.
RowsInv ==
    /\ \A f \in expired : fileRow[f] # "none"
    /\ NoUploadWithoutRow
    /\ \A j \in Jobs :
          /\ jobRow[j] \in Young => work[j] = "queued"
          /\ jobRow[j] = "validated" => jobFile[j] \in Files
          /\ jobRow[j] = "deleted" => jobFile[j] \notin Files \ expired
    /\ \A j \in Jobs \ late : jobRow[j] = "live" /\ work[j] = "done" => j \in outputRef
    /\ TimelyJobsLeaveNothing

\* A run that knows of file f and means to delete the keys K will leave nothing
\* of it: f has expired, the keys are f and outputs of its jobs, and what is
\* not among them is not in storage any more.
Covers(K, f) ==
    /\ f \in expired
    /\ K \cap Files \subseteq {f}
    /\ f \in K \/ f \notin objects
    /\ \A j \in K \cap Jobs : Bound(j, f)
    /\ \A j \in Linked(f) \ late : work[j] = "done" => j \in K \/ j \notin objects

InHand == {"remove", "deleteJobs", "deleteFile"}

\* What a run knows.
RunInv(c) ==
    /\ run[c].due \subseteq expired
    /\ \A e \in run[c].batch : e.file \in run[c].due /\ Covers(e.keys, e.file)
    /\ run[c].step \in InHand =>
          /\ run[c].current \in run[c].due
          /\ Covers(run[c].keys, run[c].current)
    /\ run[c].step \in {"deleteJobs", "deleteFile"} => run[c].keys = {}
    /\ run[c].step # "deleteFile" => run[c].doomed = {}
    /\ run[c].step = "deleteFile" =>
          /\ Linked(run[c].current) \ late \subseteq run[c].doomed
          /\ \A j \in run[c].doomed :
                /\ Bound(j, run[c].current)
                /\ j \notin late /\ work[j] = "done" => j \notin objects

\* The types of the variables; a run has those fields and no other.
Types ==
    /\ fileRow \in [Files -> {"none", "ready", "deleted"}]
    /\ expired \subseteq Files
    /\ jobRow \in [Jobs -> {"none", "validated", "live", "deleted"}]
    /\ jobFile \in [Jobs -> Files \cup {NoFile}]
    /\ outputRef \subseteq Jobs
    /\ work \in [Jobs -> {"queued", "merging", "uploaded", "done"}]
    /\ objects \subseteq Files \cup Jobs
    /\ late \subseteq Jobs
    /\ run \in [Cleaners -> Runs]

RetentionInv == Types /\ RowsInv /\ \A c \in Cleaners : RunInv(c)

LEMMA TypesSuffice == Types => TypeOK
<1> SUFFICES ASSUME Types PROVE TypeOK
  OBVIOUS
<1>1. ASSUME NEW c \in Cleaners
      PROVE  /\ DOMAIN run[c] = DOMAIN NoRun
             /\ run[c].step \in {"idle", "select", "next", "remove", "deleteJobs", "deleteFile"}
             /\ run[c].due \cup run[c].attempted \subseteq Files
             /\ run[c].batch \subseteq Entry
             /\ run[c].full \in BOOLEAN
             /\ run[c].current \in Files \cup {NoFile}
             /\ run[c].keys \subseteq Files \cup Jobs
             /\ run[c].doomed \subseteq Jobs
  BY DEF Types, Runs, NoRun
<1> QED BY <1>1 DEF Types, TypeOK

LEMMA NoRunIsARun == NoRun \in Runs
BY DEF NoRun, Runs

LEMMA InitRetention == Init => RetentionInv
<1> SUFFICES ASSUME Init PROVE RetentionInv
  OBVIOUS
<1>1. Types
  BY NoRunIsARun DEF Init, Types
<1>2. RowsInv
  BY DEF Init, RowsInv, Young, NoUploadWithoutRow, TimelyJobsLeaveNothing
<1>3. \A c \in Cleaners : RunInv(c)
  BY DEF Init, RunInv, NoRun, InHand
<1> QED BY <1>1, <1>2, <1>3 DEF RetentionInv

-----------------------------------------------------------------------------

\* What no step undoes, seen from a run with an expired file in hand: an upload
\* that is gone stays away, no timely job of the file is created or finished
\* any more, and a finished job does not get its output back.
Settled ==
    /\ expired \subseteq expired'
    /\ \A f \in expired : f \notin objects => f \notin objects'
    /\ \A j \in Jobs, f \in expired : Bound(j, f) => Bound(j, f)'
    /\ \A j \in Jobs \ late', f \in expired :
          /\ j \in Linked(f)' => j \in Linked(f) \ late
          /\ jobFile'[j] \in {f, NoFile} /\ work'[j] = "done" /\ jobRow'[j] \notin Young =>
                j \notin late /\ work[j] = "done" /\ (j \notin objects => j \notin objects')

\* The requests and the workers keep the types and what is known of the rows,
\* and disturb no run.
LEMMA EnvKeeps ==
    ASSUME RetentionInv, EnvNext
    PROVE  Types' /\ RowsInv' /\ Settled /\ run' = run
<1> USE DEF Types, RowsInv, Settled, Young, Bound, Linked, NoUploadWithoutRow,
            TimelyJobsLeaveNothing
<1>1. ASSUME NEW f \in Files, FileReady(f)
      PROVE  Types' /\ RowsInv' /\ Settled /\ run' = run
  BY <1>1, FilesAssumption DEF RetentionInv, FileReady
<1>2. ASSUME NEW f \in Files, Expire(f)
      PROVE  Types' /\ RowsInv' /\ Settled /\ run' = run
  BY <1>2, FilesAssumption DEF RetentionInv, Expire
<1>3. ASSUME NEW j \in Jobs, NEW f \in Files, ValidateJob(j, f)
      PROVE  Types' /\ RowsInv' /\ Settled /\ run' = run
  BY <1>3, FilesAssumption DEF RetentionInv, ValidateJob
<1>4. ASSUME NEW j \in Jobs, CreateJob(j)
      PROVE  Types' /\ RowsInv' /\ Settled /\ run' = run
  BY <1>4, FilesAssumption DEF RetentionInv, CreateJob, NoteLate, Timely
<1>5. ASSUME NEW j \in Jobs, BeginMerge(j)
      PROVE  Types' /\ RowsInv' /\ Settled /\ run' = run
  BY <1>5, FilesAssumption DEF RetentionInv, BeginMerge
<1>6. ASSUME NEW j \in Jobs, UploadOutput(j)
      PROVE  Types' /\ RowsInv' /\ Settled /\ run' = run
  BY <1>6, FilesAssumption DEF RetentionInv, UploadOutput, NoteLate, Timely
<1>7. ASSUME NEW j \in Jobs, RecordOutput(j)
      PROVE  Types' /\ RowsInv' /\ Settled /\ run' = run
  BY <1>7, FilesAssumption DEF RetentionInv, RecordOutput, NoteLate, Timely
<1>8. ASSUME NEW j \in Jobs, AttemptFails(j)
      PROVE  Types' /\ RowsInv' /\ Settled /\ run' = run
  BY <1>8, FilesAssumption DEF RetentionInv, AttemptFails
<1> QED BY <1>1, <1>2, <1>3, <1>4, <1>5, <1>6, <1>7, <1>8 DEF EnvNext

\* A run that does nothing keeps what it knows.
LEMMA WaitingKeeps ==
    ASSUME Types, Settled, NEW c \in Cleaners, RunInv(c), run'[c] = run[c]
    PROVE  RunInv(c)'
<1>1. ASSUME NEW f \in expired, NEW K, Covers(K, f) PROVE Covers(K, f)'
  BY <1>1 DEF Covers, Settled, Linked, Bound, Types, Young
<1>2. run[c].due \subseteq expired' /\ \A e \in run[c].batch : Covers(e.keys, e.file)'
  BY <1>1 DEF RunInv, Settled
<1>3. run[c].step \in InHand => Covers(run[c].keys, run[c].current)'
  BY <1>1 DEF RunInv
<1>4. ASSUME run[c].step = "deleteFile"
      PROVE  /\ Linked(run[c].current)' \ late' \subseteq run[c].doomed
             /\ \A j \in run[c].doomed :
                   /\ Bound(j, run[c].current)'
                   /\ j \notin late' /\ work'[j] = "done" => j \notin objects'
  <2>1. run[c].current \in expired /\ run[c].doomed \subseteq Jobs
    BY <1>4 DEF RunInv, InHand, Types, Runs
  <2>2. Linked(run[c].current)' \subseteq Jobs
    BY DEF Linked
  <2> QED BY <1>4, <2>1, <2>2 DEF RunInv, Settled, Bound, Young
<1> QED BY <1>2, <1>3, <1>4 DEF RunInv

\* The other runs wait while run c steps.
LEMMA OthersKeep ==
    ASSUME Types, Settled, NEW c \in Cleaners, \A d \in Cleaners : RunInv(d),
           NEW x, SetRun(c, x), RunInv(c)'
    PROVE  \A d \in Cleaners : RunInv(d)'
<1> SUFFICES ASSUME NEW d \in Cleaners, d # c PROVE RunInv(d)'
  OBVIOUS
<1>1. run'[d] = run[d]
  BY DEF SetRun, Types
<1> QED BY <1>1, WaitingKeeps

\* What a step that leaves the rows alone and stores no object has to show: the
\* locals it sets are locals, and what the run knows is true of them.
LEMMA LocalStep ==
    ASSUME RetentionInv, NEW c \in Cleaners, NEW x \in Runs, SetRun(c, x),
           UNCHANGED rowVars, objects' \subseteq objects, RunInv(c)'
    PROVE  RetentionInv'
<1>1. Types'
  BY DEF RetentionInv, Types, SetRun, rowVars
<1>2. RowsInv'
  BY DEF RetentionInv, RowsInv, rowVars, NoUploadWithoutRow, TimelyJobsLeaveNothing
<1>3. Settled
  BY DEF Settled, Bound, Linked, rowVars
<1> QED BY <1>1, <1>2, <1>3, OthersKeep DEF RetentionInv

\* A run of which nothing is known is fine.
LEMMA NoRunKeeps ==
    ASSUME NEW c \in Cleaners, NEW x, run'[c] = x, x.due \subseteq expired',
           x.batch = {}, x.step \notin InHand, x.doomed = {}
    PROVE  RunInv(c)'
BY DEF RunInv, InHand

LEMMA StartRunKeeps ==
    ASSUME RetentionInv, NEW c \in Cleaners, StartRun(c)
    PROVE  RetentionInv'
<1> DEFINE x == [NoRun EXCEPT !.step = "select", !.due = expired]
<1>1. /\ x \in Runs /\ x.due = expired /\ x.batch = {} /\ x.step = "select" /\ x.doomed = {}
  BY DEF NoRun, Runs, RetentionInv, Types
<1>2. SetRun(c, x) /\ UNCHANGED <<rowVars, objects>>
  BY DEF StartRun
<1> HIDE DEF x
<1>3. run'[c] = x
  BY <1>2 DEF SetRun, RetentionInv, Types
<1>4. RunInv(c)'
  BY <1>1, <1>2, <1>3, NoRunKeeps DEF InHand, rowVars
<1> QED BY <1>1, <1>2, <1>4, LocalStep

\* A run that ends, or is cut off.
LEMMA EndKeeps ==
    ASSUME RetentionInv, NEW c \in Cleaners, SetRun(c, NoRun),
           UNCHANGED <<rowVars, objects>>
    PROVE  RetentionInv'
<1>1. run'[c] = NoRun
  BY DEF SetRun, RetentionInv, Types
<1>2. NoRun.due = {} /\ NoRun.batch = {} /\ NoRun.step = "idle" /\ NoRun.doomed = {}
  BY DEF NoRun
<1>3. RunInv(c)'
  BY <1>1, <1>2, NoRunKeeps DEF InHand
<1> QED BY <1>3, NoRunIsARun, LocalStep

\* The keys of a file that is selected cover it: timely outputs are named in
\* the rows.
LEMMA KeysCover ==
    ASSUME Types, RowsInv, NEW f \in expired
    PROVE  KeysOf(f) \subseteq Files \cup Jobs /\ Covers(KeysOf(f), f)
BY FilesAssumption DEF Types, RowsInv, KeysOf, Covers, Linked, Bound

LEMMA SelectKeeps ==
    ASSUME RetentionInv, NEW c \in Cleaners, Select(c)
    PROVE  RetentionInv'
<1>1. CASE SetRun(c, NoRun)
  BY <1>1, EndKeeps DEF Select
<1>2. ASSUME NEW chosen \in SUBSET Candidates(c),
             SetRun(c, [run[c] EXCEPT
                 !.batch = {[file |-> f, keys |-> KeysOf(f)] : f \in chosen},
                 !.full = (Cardinality(chosen) = BatchSize),
                 !.step = "next"])
      PROVE  RetentionInv'
  <2> DEFINE b == {[file |-> f, keys |-> KeysOf(f)] : f \in chosen}
             full == (Cardinality(chosen) = BatchSize)
  <2>1. PICK y \in Runs : y = run[c]
    BY DEF RetentionInv, Types
  <2>2. y.due \subseteq expired /\ chosen \subseteq y.due /\ expired \subseteq Files
    BY <2>1 DEF RetentionInv, RunInv, Candidates, Types
  <2>3. \A f \in chosen : KeysOf(f) \subseteq Files \cup Jobs /\ Covers(KeysOf(f), f)
    BY <2>2, KeysCover DEF RetentionInv
  <2>4. b \in SUBSET Entry /\ full \in BOOLEAN
    BY <2>2, <2>3 DEF Entry
  <2>5. \A e \in b : e.file \in y.due /\ Covers(e.keys, e.file)
    BY <2>2, <2>3
  <2>6. UNCHANGED <<rowVars, objects>> /\ run[c].step = "select"
    BY DEF Select
  <2> HIDE DEF b, full
  <2> DEFINE x == [y EXCEPT !.batch = b, !.full = full, !.step = "next"]
  <2>7. /\ x \in Runs
        /\ x.due = y.due /\ x.batch = b /\ x.step = "next" /\ x.doomed = y.doomed
    BY <2>4 DEF Runs
  <2>8. SetRun(c, x)
    BY <1>2, <2>1, Zenon DEF b, full
  <2>9. y.doomed = {}
    BY <2>1, <2>6 DEF RetentionInv, RunInv
  <2> HIDE DEF x
  <2>10. run'[c] = x
    BY <2>8 DEF SetRun, RetentionInv, Types
  <2>11. \A e \in b : Covers(e.keys, e.file)'
    BY <2>5, <2>6 DEF Covers, Linked, Bound, rowVars
  <2>12. RunInv(c)'
    BY <2>2, <2>5, <2>6, <2>7, <2>9, <2>10, <2>11 DEF RunInv, InHand, rowVars
  <2> QED BY <2>6, <2>7, <2>8, <2>12, LocalStep
<1> QED BY <1>1, <1>2, Zenon DEF Select

LEMMA NextFileKeeps ==
    ASSUME RetentionInv, NEW c \in Cleaners, NextFile(c)
    PROVE  RetentionInv'
<1>1. PICK y \in Runs : y = run[c]
  BY DEF RetentionInv, Types
<1>2. UNCHANGED <<rowVars, objects>> /\ y.step = "next" /\ y.doomed = {} /\ RunInv(c)
  BY <1>1 DEF NextFile, RetentionInv, RunInv
<1>3. ASSUME NEW e \in y.batch,
             SetRun(c, [y EXCEPT !.batch = @ \ {e}, !.attempted = @ \cup {e.file},
                                 !.current = e.file, !.keys = e.keys, !.step = "remove"])
      PROVE  RetentionInv'
  <2> DEFINE x == [y EXCEPT !.batch = @ \ {e}, !.attempted = @ \cup {e.file},
                            !.current = e.file, !.keys = e.keys, !.step = "remove"]
  <2>1. e \in Entry
    BY DEF Runs
  <2>2. /\ x \in Runs /\ x.due = y.due /\ x.batch = y.batch \ {e} /\ x.step = "remove"
        /\ x.current = e.file /\ x.keys = e.keys /\ x.doomed = y.doomed
    BY <2>1 DEF Runs, Entry
  <2>3. SetRun(c, x)
    BY <1>3, Zenon
  <2> HIDE DEF x
  <2>4. run'[c] = x
    BY <2>3 DEF SetRun, RetentionInv, Types
  <2>5. \A d \in y.batch : d.file \in y.due /\ Covers(d.keys, d.file)'
    BY <1>1, <1>2 DEF RunInv, Covers, Linked, Bound, rowVars
  <2>6. RunInv(c)'
    BY <1>1, <1>2, <2>2, <2>4, <2>5 DEF RunInv, InHand, rowVars
  <2> QED BY <1>2, <2>2, <2>3, <2>6, LocalStep
<1>4. ASSUME SetRun(c, [y EXCEPT !.step = "select", !.full = FALSE]), y.batch = {}
      PROVE  RetentionInv'
  <2> DEFINE x == [y EXCEPT !.step = "select", !.full = FALSE]
  <2>1. x \in Runs /\ x.due = y.due /\ x.batch = {} /\ x.step = "select" /\ x.doomed = {}
    BY <1>2, <1>4 DEF Runs
  <2>2. SetRun(c, x)
    BY <1>4
  <2> HIDE DEF x
  <2>3. run'[c] = x /\ x.due \subseteq expired'
    BY <1>1, <1>2, <2>1, <2>2 DEF SetRun, RetentionInv, Types, RunInv, rowVars
  <2>4. RunInv(c)'
    BY <2>1, <2>3, NoRunKeeps DEF InHand
  <2> QED BY <1>2, <2>1, <2>2, <2>4, LocalStep
<1>5. CASE SetRun(c, NoRun)
  BY <1>2, <1>5, EndKeeps
<1>6. \/ \E e \in y.batch :
            SetRun(c, [y EXCEPT !.batch = @ \ {e}, !.attempted = @ \cup {e.file},
                                !.current = e.file, !.keys = e.keys, !.step = "remove"])
      \/ /\ y.batch = {}
         /\ SetRun(c, IF y.full THEN [y EXCEPT !.step = "select", !.full = FALSE] ELSE NoRun)
  BY <1>1, Zenon DEF NextFile
<1> QED BY <1>3, <1>4, <1>5, <1>6, Zenon

\* A file whose object cannot be removed, or perhaps was, is left as it is.
LEMMA RemoveFailsKeeps ==
    ASSUME RetentionInv, NEW c \in Cleaners, RemoveFails(c)
    PROVE  RetentionInv'
<1>1. PICK y \in Runs : y = run[c]
  BY DEF RetentionInv, Types
<1> DEFINE x == [y EXCEPT !.keys = {}, !.current = NoFile, !.step = "next"]
<1>2. /\ UNCHANGED rowVars /\ objects' \subseteq objects
      /\ y.step = "remove" /\ y.doomed = {} /\ RunInv(c)
  BY <1>1 DEF RemoveFails, RetentionInv, RunInv
<1>3. /\ x \in Runs /\ x.due = y.due /\ x.batch = y.batch /\ x.step = "next"
      /\ x.doomed = y.doomed
  BY DEF Runs
<1>4. SetRun(c, x)
  BY <1>1, Zenon DEF RemoveFails, Skip
<1> HIDE DEF x
<1>5. run'[c] = x
  BY <1>4 DEF SetRun, RetentionInv, Types
<1>6. \A e \in y.batch : e.file \in y.due /\ Covers(e.keys, e.file)'
  BY <1>1, <1>2 DEF RunInv, Covers, Linked, Bound, rowVars
<1>7. RunInv(c)'
  BY <1>1, <1>2, <1>3, <1>5, <1>6 DEF RunInv, InHand, rowVars
<1> QED BY <1>2, <1>3, <1>4, <1>7, LocalStep

\* A key is removed: rows stay, an object goes that every run may well miss.
LEMMA RemoveKeyKeeps ==
    ASSUME RetentionInv, NEW c \in Cleaners, RemoveKey(c)
    PROVE  RetentionInv'
<1>1. PICK y \in Runs : y = run[c]
  BY DEF RetentionInv, Types
<1>2. PICK k \in InTurn(c) :
          /\ objects' = objects \ {k}
          /\ SetRun(c, [y EXCEPT !.keys = @ \ {k},
                                 !.step = IF y.keys = {k} THEN "deleteJobs" ELSE "remove"])
  BY <1>1, Zenon DEF RemoveKey
<1>2a. k \in y.keys /\ (y.current \in y.keys => k = y.current)
  BY <1>1, <1>2 DEF InTurn
<1> DEFINE s == IF y.keys = {k} THEN "deleteJobs" ELSE "remove"
           x == [y EXCEPT !.keys = @ \ {k}, !.step = s]
<1>3. UNCHANGED rowVars /\ y.step = "remove" /\ y.doomed = {} /\ RunInv(c)
  BY <1>1 DEF RemoveKey, RetentionInv, RunInv
<1>4. /\ x \in Runs /\ x.due = y.due /\ x.batch = y.batch /\ x.step = s
      /\ x.current = y.current /\ x.keys = y.keys \ {k} /\ x.doomed = y.doomed
  BY DEF Runs
<1>5. SetRun(c, x)
  BY <1>2, Zenon
<1> HIDE DEF x
<1>6. run'[c] = x
  BY <1>5 DEF SetRun, RetentionInv, Types
<1>7. s \in {"remove", "deleteJobs"} /\ (s = "deleteJobs" => x.keys = {})
  BY <1>4
<1> HIDE DEF s
<1>8. \A e \in y.batch : e.file \in y.due /\ Covers(e.keys, e.file)'
  BY <1>1, <1>2, <1>3 DEF RunInv, Covers, Linked, Bound, rowVars
<1>9. y.current \in y.due /\ Covers(x.keys, y.current)'
  BY <1>1, <1>2, <1>3, <1>4, <1>2a DEF RunInv, InHand, Covers, Linked, Bound, rowVars
<1>10. RunInv(c)'
  BY <1>1, <1>3, <1>4, <1>6, <1>7, <1>8, <1>9 DEF RunInv, InHand, rowVars
<1> QED BY <1>2, <1>3, <1>4, <1>5, <1>10, LocalStep

\* The rows of the jobs are marked for deletion: all of the file's jobs there
\* are, so all of its timely ones.
LEMMA DeleteJobsKeeps ==
    ASSUME RetentionInv, NEW c \in Cleaners, DeleteJobs(c)
    PROVE  RetentionInv'
<1>1. PICK y \in Runs : y = run[c]
  BY DEF RetentionInv, Types
<1> DEFINE x == [y EXCEPT !.doomed = Linked(y.current), !.step = "deleteFile"]
<1>2. /\ UNCHANGED <<rowVars, objects>>
      /\ y.step = "deleteJobs" /\ y.keys = {} /\ RunInv(c)
  BY <1>1 DEF DeleteJobs, RetentionInv, RunInv
<1>3. Linked(y.current) \subseteq Jobs
  BY DEF Linked
<1>4. /\ x \in Runs /\ x.due = y.due /\ x.batch = y.batch /\ x.step = "deleteFile"
      /\ x.current = y.current /\ x.keys = y.keys /\ x.doomed = Linked(y.current)
  BY <1>3 DEF Runs
<1>5. SetRun(c, x)
  BY <1>1, Zenon DEF DeleteJobs
<1> HIDE DEF x
<1>6. run'[c] = x
  BY <1>5 DEF SetRun, RetentionInv, Types
<1>7. \A e \in y.batch : e.file \in y.due /\ Covers(e.keys, e.file)'
  BY <1>1, <1>2 DEF RunInv, Covers, Linked, Bound, rowVars
<1>8. /\ y.current \in y.due /\ Covers(y.keys, y.current)
      /\ Covers(y.keys, y.current)'
  BY <1>1, <1>2 DEF RunInv, InHand, Covers, Linked, Bound, rowVars
<1>9. /\ Linked(y.current)' = Linked(y.current)
      /\ \A j \in Linked(y.current) :
            /\ Bound(j, y.current)'
            /\ j \notin late' /\ work'[j] = "done" => j \notin objects'
  BY <1>2, <1>8 DEF Covers, Linked, Bound, rowVars
<1>10. RunInv(c)'
  BY <1>1, <1>2, <1>4, <1>6, <1>7, <1>8, <1>9 DEF RunInv, InHand, rowVars
<1> QED BY <1>2, <1>4, <1>5, <1>10, LocalStep

\* The rows go.
LEMMA DeleteFileKeeps ==
    ASSUME RetentionInv, NEW c \in Cleaners, DeleteFile(c)
    PROVE  RetentionInv'
<1>1. PICK y \in Runs : y = run[c]
  BY DEF RetentionInv, Types
<1> DEFINE x == [y EXCEPT !.doomed = {}, !.current = NoFile, !.step = "next"]
<1>2. y.step = "deleteFile" /\ RunInv(c)
  BY <1>1 DEF DeleteFile, RetentionInv
<1>3. /\ x \in Runs /\ x.due = y.due /\ x.batch = y.batch /\ x.step = "next" /\ x.doomed = {}
  BY DEF Runs
<1>4. SetRun(c, x)
  BY <1>1, Zenon DEF DeleteFile
<1> HIDE DEF x
<1>5. PICK f \in expired, gone \in SUBSET Jobs : f = y.current /\ gone = y.doomed
  BY <1>1, <1>2 DEF RunInv, InHand, Covers, Runs
<1>6. /\ f \notin objects /\ f \in y.due
      /\ Linked(f) \ late \subseteq gone
      /\ \A j \in gone : Bound(j, f) /\ (j \notin late /\ work[j] = "done" => j \notin objects)
  BY <1>1, <1>2, <1>5 DEF RunInv, InHand, Covers
<1>7. /\ jobRow' = [j \in Jobs |-> IF j \in gone THEN "deleted" ELSE jobRow[j]]
      /\ fileRow' = [fileRow EXCEPT ![f] = "deleted"]
      /\ jobFile' = [j \in Jobs |-> IF j \in Linked(f) \ gone THEN NoFile ELSE jobFile[j]]
      /\ outputRef' = outputRef \ gone
      /\ UNCHANGED <<expired, work, late, objects>>
  BY <1>1, <1>5, <1>6 DEF DeleteFile
<1>8. Types'
  BY <1>3, <1>4, <1>7 DEF RetentionInv, Types, SetRun
<1>9. RowsInv'
  <2> USE <1>6, <1>7 DEF RetentionInv, Types
  <2>1. NoUploadWithoutRow' /\ \A g \in expired' : fileRow'[g] # "none"
    BY DEF RowsInv, NoUploadWithoutRow
  <2>2. ASSUME NEW j \in Jobs
        PROVE  /\ jobRow'[j] \in Young => work'[j] = "queued"
               /\ jobRow'[j] = "validated" => jobFile'[j] \in Files
               /\ jobRow'[j] = "deleted" => jobFile'[j] \notin Files \ expired'
    BY FilesAssumption DEF RowsInv, Young, Bound, Linked
  <2>3. ASSUME NEW j \in Jobs \ late', jobRow'[j] = "live", work'[j] = "done"
        PROVE  j \in outputRef'
    BY <2>3 DEF RowsInv
  <2>4. TimelyJobsLeaveNothing'
    BY DEF RowsInv, TimelyJobsLeaveNothing, Linked, Bound
  <2> QED BY <2>1, <2>2, <2>3, <2>4 DEF RowsInv
<1>10. Settled
  BY <1>6, <1>7, FilesAssumption DEF Settled, Bound, Linked, RetentionInv, Types, Young
<1>11. run'[c] = x
  BY <1>4 DEF SetRun, RetentionInv, Types
<1>12. \A e \in y.batch : e.file \in y.due /\ Covers(e.keys, e.file)'
  BY <1>1, <1>2, <1>10
     DEF RunInv, Covers, Settled, Linked, Bound, RetentionInv, Types, Young
<1>13. RunInv(c)'
  BY <1>1, <1>2, <1>3, <1>7, <1>11, <1>12 DEF RunInv, InHand
<1> QED BY <1>4, <1>8, <1>9, <1>10, <1>13, OthersKeep DEF RetentionInv

-----------------------------------------------------------------------------

\* The inductive invariant.
THEOREM Invariant == Spec => []RetentionInv
<1>1. ASSUME RetentionInv, EnvNext PROVE RetentionInv'
  <2>1. Types' /\ RowsInv' /\ Settled /\ run' = run
    BY <1>1, EnvKeeps
  <2> QED BY <1>1, <2>1, WaitingKeeps DEF RetentionInv
<1>2. ASSUME RetentionInv, NEW c \in Cleaners, StartRun(c) \/ RunStep(c) \/ Abort(c)
      PROVE  RetentionInv'
  <2>1. CASE Abort(c)
    BY <1>2, <2>1, EndKeeps DEF Abort
  <2> QED BY <1>2, <2>1, StartRunKeeps, SelectKeeps, NextFileKeeps, RemoveKeyKeeps,
             RemoveFailsKeeps, DeleteJobsKeeps, DeleteFileKeeps DEF RunStep, Proceed
<1>3. ASSUME RetentionInv, UNCHANGED vars PROVE RetentionInv'
  <2>1. Types' /\ RowsInv' /\ Settled /\ run' = run
    BY <1>3 DEF vars, RetentionInv, Types, RowsInv, Settled, Bound, Linked,
                NoUploadWithoutRow, TimelyJobsLeaveNothing
  <2> QED BY <1>3, <2>1, WaitingKeeps DEF RetentionInv
<1>4. RetentionInv /\ [Next]_vars => RetentionInv'
  BY <1>1, <1>2, <1>3 DEF Next
<1> QED BY InitRetention, <1>4, PTL DEF Spec

\* Every state is well typed.
THEOREM TypeCorrect == Spec => []TypeOK
<1>1. RetentionInv => TypeOK
  BY TypesSuffice DEF RetentionInv
<1> QED BY <1>1, Invariant, PTL

\* Storage never keeps an upload that no row knows of, however many runs
\* overlap, fail or are cut off.
THEOREM UploadsGoFirst == Spec => []NoUploadWithoutRow
<1>1. RetentionInv => NoUploadWithoutRow
  BY DEF RetentionInv, RowsInv
<1> QED BY <1>1, Invariant, PTL

\* Nothing of a timely job that SUCCEEDED outlives its file, however many of its
\* attempts had failed before.
THEOREM TimelyJobsGo == Spec => []TimelyJobsLeaveNothing
<1>1. RetentionInv => TimelyJobsLeaveNothing
  BY DEF RetentionInv, RowsInv
<1> QED BY <1>1, Invariant, PTL

\* No step of a run touches a file that has not expired, or what is its.
THEOREM UnexpiredStay == Spec => UnexpiredUntouched
<1> DEFINE Kept(f) ==
        /\ fileRow'[f] = "ready"
        /\ objects \cap ({f} \cup Linked(f)) \subseteq objects'
        /\ \A j \in Linked(f) : jobRow'[j] = "live" /\ jobFile'[j] = f
<1>1. ASSUME RetentionInv, [Next]_vars, NEW f \in Files \ expired, fileRow[f] = "ready"
      PROVE  Kept(f)
  <2> USE <1>1 DEF Linked
  <2>1. CASE EnvNext
    BY <2>1, FilesAssumption
       DEF EnvNext, FileReady, Expire, ValidateJob, CreateJob, BeginMerge, UploadOutput,
           RecordOutput, AttemptFails, RetentionInv, Types
  <2>2. CASE UNCHANGED <<rowVars, objects>>
    BY <2>2 DEF rowVars
  <2>3. ASSUME NEW c \in Cleaners, RemoveKey(c) \/ RemoveFails(c)
        PROVE  Kept(f)
    <3>1. PICK k \in run[c].keys : objects \ {k} \subseteq objects' /\ UNCHANGED rowVars
      BY <2>3 DEF RemoveKey, RemoveFails, InTurn
    <3>2. Covers(run[c].keys, run[c].current)
      BY <2>3 DEF RemoveKey, RemoveFails, RetentionInv, RunInv, InHand
    <3>3. k # f /\ k \notin Linked(f)
      BY <3>1, <3>2, FilesAssumption DEF Covers, Bound
    <3> QED BY <3>1, <3>3 DEF rowVars
  <2>4. ASSUME NEW c \in Cleaners, DeleteFile(c)
        PROVE  Kept(f)
    <3>1. /\ run[c].current \in expired
          /\ \A j \in run[c].doomed : Bound(j, run[c].current)
      BY <2>4 DEF DeleteFile, RetentionInv, RunInv, InHand
    <3> QED BY <2>4, <3>1, FilesAssumption DEF DeleteFile, Bound, RetentionInv, Types
  <2>5. ASSUME NEW c \in Cleaners,
               StartRun(c) \/ Select(c) \/ NextFile(c) \/ DeleteJobs(c) \/ Abort(c)
        PROVE  UNCHANGED <<rowVars, objects>>
    BY <2>5, Zenon DEF StartRun, Select, NextFile, DeleteJobs, Abort
  <2>6. CASE UNCHANGED vars
    BY <2>2, <2>6 DEF vars, rowVars
  <2> QED BY <2>1, <2>2, <2>3, <2>4, <2>5, <2>6 DEF Next, RunStep, Proceed
<1>2. RetentionInv /\ [Next]_vars =>
        [\A f \in Files \ expired : fileRow[f] = "ready" => Kept(f)]_vars
  BY <1>1
<1> QED BY <1>2, Invariant, PTL DEF Spec, UnexpiredUntouched

-----------------------------------------------------------------------------
(* How much a run has to do.                                               *)

\* A run selects no file twice: what is left of its batch are different files
\* that it has not attempted.
Fresh(x) ==
    /\ \A e \in x.batch : e.file \notin x.attempted
    /\ \A d, e \in x.batch : d.file = e.file => d = e

\* Only the run itself touches its locals.
LEMMA OnlyItself ==
    ASSUME RetentionInv, [Next]_vars, NEW c \in Cleaners, run'[c] # run[c]
    PROVE  StartRun(c) \/ RunStep(c) \/ Abort(c)
<1>1. CASE EnvNext \/ UNCHANGED vars
  <2>1. run' = run
    BY <1>1 DEF EnvNext, FileReady, Expire, ValidateJob, CreateJob, BeginMerge, UploadOutput,
                RecordOutput, AttemptFails, vars
  <2> QED BY <2>1
<1>2. ASSUME NEW d \in Cleaners, StartRun(d) \/ RunStep(d) \/ Abort(d)
      PROVE  d = c
  <2>1. ASSUME NEW x, SetRun(d, x) PROVE d = c
    BY <2>1 DEF SetRun, RetentionInv, Types
  <2>2. \E x : SetRun(d, x)
    BY <1>2 DEF StartRun, RunStep, Proceed, Select, NextFile, RemoveKey, DeleteJobs, DeleteFile,
                RemoveFails, Skip, Abort
  <2> QED BY <2>1, <2>2
<1> QED BY <1>1, <1>2 DEF Next

\* What a step of a run does to its step, its batch, attemptedIds and its keys.
RunMoves(x, y) ==
    \/ y = NoRun
    \/ /\ x.step = "select" /\ y.step = "next"
       /\ y.attempted = x.attempted
       /\ y.batch # {} /\ Fresh(y)
    \/ \E e \in x.batch :
       /\ x.step = "next" /\ y.step = "remove"
       /\ y.batch = x.batch \ {e} /\ y.attempted = x.attempted \cup {e.file}
       /\ y.keys = e.keys
    \/ /\ x.step = "next" /\ y.step = "select"
       /\ x.batch = {} /\ y.batch = {} /\ y.attempted = x.attempted
    \/ /\ y.batch = x.batch /\ y.attempted = x.attempted
       /\ \/ x.step = "remove" /\ y.step = "next"
          \/ \E k \in x.keys : /\ x.step = "remove" /\ y.keys = x.keys \ {k}
                               /\ y.step = IF x.keys = {k} THEN "deleteJobs" ELSE "remove"
          \/ x.step = "deleteJobs" /\ y.step = "deleteFile"
          \/ x.step = "deleteFile" /\ y.step = "next"

LEMMA RunsMove ==
    ASSUME RetentionInv, NEW c \in Cleaners, RunStep(c) \/ Abort(c)
    PROVE  RunMoves(run[c], run'[c])
<1>1. PICK x \in Runs : x = run[c]
  BY DEF RetentionInv, Types
<1>2. ASSUME NEW y, SetRun(c, y) PROVE run'[c] = y
  BY <1>2 DEF SetRun, RetentionInv, Types
<1>3. CASE Abort(c)
  BY <1>2, <1>3 DEF Abort, RunMoves
<1>4. CASE Select(c)
  <2>1. CASE SetRun(c, NoRun)
    BY <1>2, <2>1 DEF RunMoves
  <2>2. ASSUME NEW chosen \in (SUBSET Candidates(c)) \ {{}},
               SetRun(c, [run[c] EXCEPT
                   !.batch = {[file |-> f, keys |-> KeysOf(f)] : f \in chosen},
                   !.full = (Cardinality(chosen) = BatchSize),
                   !.step = "next"])
        PROVE  RunMoves(run[c], run'[c])
    <3> DEFINE b == {[file |-> f, keys |-> KeysOf(f)] : f \in chosen}
               full == (Cardinality(chosen) = BatchSize)
    <3>1. b # {} /\ \A e \in b : e.file \notin x.attempted
      <4>1. \A f \in chosen : f \notin x.attempted
        BY <1>1 DEF Candidates
      <4>2. PICK f \in chosen : TRUE
        OBVIOUS
      <4>3. [file |-> f, keys |-> KeysOf(f)] \in b
        BY <4>2
      <4> QED BY <4>1, <4>3
    <3>2. \A d, e \in b : d.file = e.file => d = e
      OBVIOUS
    <3> HIDE DEF b, full
    <3> DEFINE y == [x EXCEPT !.batch = b, !.full = full, !.step = "next"]
    <3>3. y.step = "next" /\ y.batch = b /\ y.attempted = x.attempted
      BY DEF Runs
    <3>4. run'[c] = y
      BY <1>1, <1>2, <2>2 DEF b, full
    <3>5. x.step = "select"
      BY <1>1, <1>4 DEF Select
    <3> HIDE DEF y
    <3> QED BY <1>1, <3>1, <3>2, <3>3, <3>4, <3>5 DEF RunMoves, Fresh
  <2> QED BY <1>4, <2>1, <2>2 DEF Select
<1>5. CASE NextFile(c)
  <2>1. x.step = "next"
    BY <1>1, <1>5 DEF NextFile
  <2>2. ASSUME NEW e \in x.batch,
               SetRun(c, [x EXCEPT !.batch = @ \ {e}, !.attempted = @ \cup {e.file},
                                   !.current = e.file, !.keys = e.keys, !.step = "remove"])
        PROVE  RunMoves(run[c], run'[c])
    <3> DEFINE y == [x EXCEPT !.batch = @ \ {e}, !.attempted = @ \cup {e.file},
                              !.current = e.file, !.keys = e.keys, !.step = "remove"]
    <3>1. /\ y.step = "remove" /\ y.batch = x.batch \ {e}
          /\ y.attempted = x.attempted \cup {e.file} /\ y.keys = e.keys
      BY DEF Runs
    <3>2. run'[c] = y
      BY <1>2, <2>2
    <3> HIDE DEF y
    <3> QED BY <1>1, <2>1, <2>2, <3>1, <3>2 DEF RunMoves
  <2>3. CASE /\ x.batch = {}
             /\ SetRun(c, IF x.full THEN [x EXCEPT !.step = "select", !.full = FALSE] ELSE NoRun)
    <3> DEFINE y == [x EXCEPT !.step = "select", !.full = FALSE]
    <3>1. y.step = "select" /\ y.batch = x.batch /\ y.attempted = x.attempted
      BY DEF Runs
    <3>2. run'[c] = y \/ run'[c] = NoRun
      BY <1>2, <2>3
    <3> HIDE DEF y
    <3> QED BY <1>1, <2>1, <2>3, <3>1, <3>2 DEF RunMoves
  <2> QED BY <1>1, <1>5, <2>2, <2>3 DEF NextFile
<1>6. CASE RemoveKey(c)
  <2>1. PICK k \in x.keys :
            SetRun(c, [x EXCEPT !.keys = @ \ {k},
                                !.step = IF x.keys = {k} THEN "deleteJobs" ELSE "remove"])
    BY <1>1, <1>6 DEF RemoveKey, InTurn
  <2> DEFINE y == [x EXCEPT !.keys = @ \ {k},
                            !.step = IF x.keys = {k} THEN "deleteJobs" ELSE "remove"]
  <2>2. /\ y.step = IF x.keys = {k} THEN "deleteJobs" ELSE "remove"
        /\ y.keys = x.keys \ {k} /\ y.batch = x.batch /\ y.attempted = x.attempted
    BY DEF Runs
  <2>3. run'[c] = y
    BY <1>2, <2>1
  <2>4. x.step = "remove"
    BY <1>1, <1>6 DEF RemoveKey
  <2> HIDE DEF y
  <2> QED BY <1>1, <2>2, <2>3, <2>4 DEF RunMoves
<1>7. CASE RemoveFails(c)
  <2> DEFINE y == [x EXCEPT !.keys = {}, !.current = NoFile, !.step = "next"]
  <2>1. y.step = "next" /\ y.batch = x.batch /\ y.attempted = x.attempted
    BY DEF Runs
  <2>2. run'[c] = y /\ x.step = "remove"
    BY <1>1, <1>2, <1>7 DEF RemoveFails, Skip
  <2> HIDE DEF y
  <2> QED BY <1>1, <2>1, <2>2 DEF RunMoves
<1>8. CASE DeleteJobs(c)
  <2> DEFINE gone == Linked(run[c].current)
             y == [x EXCEPT !.doomed = gone, !.step = "deleteFile"]
  <2> HIDE DEF gone
  <2>1. y.step = "deleteFile" /\ y.batch = x.batch /\ y.attempted = x.attempted
    BY DEF Runs
  <2>2. run'[c] = y /\ x.step = "deleteJobs"
    BY <1>1, <1>2, <1>8 DEF DeleteJobs, gone
  <2> HIDE DEF y
  <2> QED BY <1>1, <2>1, <2>2 DEF RunMoves
<1>9. CASE DeleteFile(c)
  <2> DEFINE y == [x EXCEPT !.doomed = {}, !.current = NoFile, !.step = "next"]
  <2>1. y.step = "next" /\ y.batch = x.batch /\ y.attempted = x.attempted
    BY DEF Runs
  <2>2. run'[c] = y /\ x.step = "deleteFile"
    BY <1>1, <1>2, <1>9 DEF DeleteFile
  <2> HIDE DEF y
  <2> QED BY <1>1, <2>1, <2>2 DEF RunMoves
<1> QED BY <1>3, <1>4, <1>5, <1>6, <1>7, <1>8, <1>9 DEF RunStep, Proceed

LEMMA RunStepMoves ==
    ASSUME RetentionInv, [Next]_vars, NEW c \in Cleaners, run[c].step # "idle",
           run'[c] # run[c]
    PROVE  RunMoves(run[c], run'[c])
<1>1. ~StartRun(c)
  BY DEF StartRun
<1> QED BY <1>1, OnlyItself, RunsMove

\* A run that has started has fresh files in its batch.
LEMMA StaysFresh ==
    ASSUME RetentionInv, [Next]_vars, NEW c \in Cleaners, Fresh(run[c])
    PROVE  Fresh(run'[c])
<1>1. CASE StartRun(c)
  <2>1. run'[c] = [NoRun EXCEPT !.step = "select", !.due = expired]
    BY <1>1 DEF StartRun, SetRun, RetentionInv, Types
  <2>2. [NoRun EXCEPT !.step = "select", !.due = expired].batch = {}
    BY DEF NoRun
  <2> QED BY <2>1, <2>2 DEF Fresh
<1>2. CASE RunStep(c) \/ Abort(c)
  <2>1. RunMoves(run[c], run'[c])
    BY <1>2, RunsMove
  <2>2. Fresh(NoRun)
    BY DEF Fresh, NoRun
  <2>3. ASSUME NEW e \in run[c].batch, run'[c].batch = run[c].batch \ {e},
               run'[c].attempted = run[c].attempted \cup {e.file}
        PROVE  Fresh(run'[c])
    BY <2>3 DEF Fresh
  <2> QED BY <2>1, <2>2, <2>3 DEF RunMoves, Fresh
<1> QED BY <1>1, <1>2, OnlyItself

\* The keys of one file are at most the file and its jobs' outputs.
LEMMA FewKeys ==
    ASSUME IsFiniteSet(Jobs), NEW K \in SUBSET (Files \cup Jobs), NEW f, K \cap Files \subseteq {f}
    PROVE  IsFiniteSet(K) /\ Cardinality(K) \in 0 .. Cardinality(Jobs) + 1
<1>1. K \in SUBSET (Jobs \cup {f})
  OBVIOUS
<1>2. IsFiniteSet(Jobs \cup {f}) /\ Cardinality(Jobs \cup {f}) <= Cardinality(Jobs) + 1
  BY FS_AddElement, FS_CardinalityType
<1>3. IsFiniteSet(K) /\ Cardinality(K) <= Cardinality(Jobs \cup {f})
  BY <1>1, <1>2, FS_Subset
<1> QED BY <1>2, <1>3, FS_CardinalityType

\* Left, of the locals of a run.
PerFile == Cardinality(Jobs) + 7
StepsOf(x) ==
    CASE x.step = "remove"                       -> Cardinality(x.keys) + 5
      [] x.step = "deleteJobs"                   -> 5
      [] x.step = "deleteFile"                   -> 4
      [] x.step = "next" /\ x.batch = {}         -> 3
      [] x.step = "select"                       -> 2
      [] OTHER                                   -> 1
LeftOf(x) ==
    IF x.step = "idle" THEN 0
    ELSE Cardinality(Files \ x.attempted) * PerFile + StepsOf(x)

\* What bounds the keys a run may still have to delete.
Tidy(x) ==
    /\ x.step \in InHand => x.keys \cap Files \subseteq {x.current}
    /\ \A e \in x.batch : e.keys \cap Files \subseteq {e.file}

LEMMA MovesAreProgress ==
    ASSUME IsFiniteSet(Files), IsFiniteSet(Jobs), NEW x \in Runs, NEW y \in Runs,
           RunMoves(x, y), x.step # "idle", Fresh(x), Tidy(x)
    PROVE  LeftOf(y) < LeftOf(x)
<1> DEFINE left(z) == Cardinality(Files \ z.attempted)
<1>1. PerFile \in Nat /\ PerFile = Cardinality(Jobs) + 7 /\ Cardinality(Jobs) \in Nat
  BY FS_CardinalityType DEF PerFile
<1>2. \A z \in Runs : left(z) \in Nat
  BY FS_Subset, FS_CardinalityType
<1>3. \A n \in Nat : n * PerFile \in Nat /\ (n + 1) * PerFile = n * PerFile + PerFile
  BY <1>1
<1>4. x.step \in InHand => Cardinality(x.keys) \in 0 .. Cardinality(Jobs) + 1 /\ IsFiniteSet(x.keys)
  BY FewKeys DEF Tidy, Runs
<1>5. StepsOf(x) \in Nat \ {0} /\ LeftOf(x) = left(x) * PerFile + StepsOf(x)
  BY <1>4, FS_CardinalityType DEF StepsOf, LeftOf, InHand
<1> HIDE DEF left
<1>6. CASE y = NoRun
  <2>1. LeftOf(y) = 0
    BY <1>6 DEF LeftOf, NoRun
  <2>2. left(x) * PerFile \in Nat
    BY <1>2, <1>3
  <2> QED BY <1>5, <2>1, <2>2
<1>7. CASE y.attempted = x.attempted /\ y.step # "idle" /\ StepsOf(y) \in Nat /\ StepsOf(y) < StepsOf(x)
  <2>1. LeftOf(y) = left(x) * PerFile + StepsOf(y)
    BY <1>7 DEF LeftOf, left
  <2>2. left(x) * PerFile \in Nat
    BY <1>2, <1>3
  <2> QED BY <1>5, <1>7, <2>1, <2>2
<1>8. ASSUME NEW e \in x.batch, x.step = "next", y.step = "remove",
             y.attempted = x.attempted \cup {e.file}, y.keys = e.keys
      PROVE  LeftOf(y) < LeftOf(x)
  <2>1. e.file \in Files \ x.attempted /\ e \in Entry
    BY DEF Fresh, Runs, Entry
  <2>2. left(x) = left(y) + 1
    <3>1. Files \ y.attempted = (Files \ x.attempted) \ {e.file}
      BY <1>8
    <3>2. IsFiniteSet(Files \ x.attempted)
      BY FS_Subset
    <3>3. left(x) \in Nat /\ left(y) \in Nat
      BY <1>2
    <3>4. Cardinality((Files \ x.attempted) \ {e.file}) = Cardinality(Files \ x.attempted) - 1
      BY <2>1, <3>2, FS_RemoveElement
    <3>5. left(y) = left(x) - 1
      BY <3>1, <3>4 DEF left
    <3> QED BY <3>3, <3>5
  <2>3. Cardinality(y.keys) \in 0 .. Cardinality(Jobs) + 1
    BY <1>8, <2>1, FewKeys DEF Tidy, Entry
  <2>4. LeftOf(y) = left(y) * PerFile + (Cardinality(y.keys) + 5)
    BY <1>8 DEF LeftOf, StepsOf, left
  <2>5. left(y) * PerFile \in Nat /\ left(x) * PerFile = left(y) * PerFile + PerFile
    BY <1>2, <1>3, <2>2
  <2> QED BY <1>1, <1>5, <2>3, <2>4, <2>5
<1>9. ASSUME NEW k \in x.keys, x.step = "remove", y.keys = x.keys \ {k},
             y.step = IF x.keys = {k} THEN "deleteJobs" ELSE "remove"
      PROVE  y.step # "idle" /\ StepsOf(y) \in Nat /\ StepsOf(y) < StepsOf(x)
  <2>1. IsFiniteSet(x.keys) /\ Cardinality(x.keys) \in Nat
    BY <1>4, <1>9 DEF InHand
  <2>2. Cardinality(y.keys) = Cardinality(x.keys) - 1 /\ Cardinality(y.keys) \in Nat
    BY <1>9, <2>1, FS_RemoveElement, FS_CardinalityType
  <2>3. StepsOf(x) = Cardinality(x.keys) + 5
    BY <1>9 DEF StepsOf
  <2>4. StepsOf(y) = 5 \/ StepsOf(y) = Cardinality(y.keys) + 5
    BY <1>9 DEF StepsOf
  <2> QED BY <1>9, <2>1, <2>2, <2>3, <2>4
<1>10. ASSUME x.step = "remove", y.step = "next"
       PROVE  y.step # "idle" /\ StepsOf(y) \in Nat /\ StepsOf(y) < StepsOf(x)
  <2>1. StepsOf(y) = 1 \/ StepsOf(y) = 3
    BY <1>10 DEF StepsOf
  <2>2. StepsOf(x) = Cardinality(x.keys) + 5 /\ Cardinality(x.keys) \in Nat
    BY <1>4, <1>10 DEF StepsOf, InHand
  <2> QED BY <1>10, <2>1, <2>2
<1>11. ASSUME \/ x.step = "select" /\ y.step = "next" /\ y.batch # {}
              \/ x.step = "next" /\ y.step = "select" /\ x.batch = {}
              \/ x.step = "deleteJobs" /\ y.step = "deleteFile"
              \/ x.step = "deleteFile" /\ y.step = "next"
       PROVE  y.step # "idle" /\ StepsOf(y) \in Nat /\ StepsOf(y) < StepsOf(x)
  BY <1>11 DEF StepsOf
<1> QED BY <1>6, <1>7, <1>8, <1>9, <1>10, <1>11 DEF RunMoves

\* Whatever storage does, and whatever others do to the same rows meanwhile, a
\* run has less to do after each of its steps, and only they change what it has
\* to do: it takes a bounded number of them.
THEOREM RunsAlwaysAdvance ==
    ASSUME IsFiniteSet(Files), IsFiniteSet(Jobs)
    PROVE  Spec => RunsMakeProgress
<1> DEFINE Inv == RetentionInv /\ \A c \in Cleaners : Fresh(run[c])
           Advance == \A c \in Cleaners :
                          run[c].step # "idle" /\ run'[c] # run[c] => Left(c)' < Left(c)
<1>1. Spec => []Inv
  <2>1. Init => \A c \in Cleaners : Fresh(run[c])
    BY DEF Init, NoRun, Fresh
  <2>2. RetentionInv /\ (\A c \in Cleaners : Fresh(run[c])) /\ [Next]_vars
            => (\A c \in Cleaners : Fresh(run[c]))'
    BY StaysFresh
  <2> QED BY <2>1, <2>2, Invariant, PTL DEF Spec
<1>2. ASSUME Inv, [Next]_vars, RetentionInv', NEW c \in Cleaners, run[c].step # "idle",
             run'[c] # run[c]
      PROVE  Left(c)' < Left(c)
  <2>1. run[c] \in Runs /\ run'[c] \in Runs
    BY <1>2 DEF RetentionInv, Types
  <2>2. Tidy(run[c])
    BY <1>2 DEF RetentionInv, RunInv, Covers, Tidy
  <2>3. RunMoves(run[c], run'[c]) /\ Fresh(run[c])
    BY <1>2, RunStepMoves
  <2>4. LeftOf(run'[c]) < LeftOf(run[c])
    BY <1>2, <2>1, <2>2, <2>3, MovesAreProgress
  <2> QED BY <2>4 DEF Left, LeftOf, StepsOf, PerFile
<1>3. Inv /\ [Next]_vars /\ RetentionInv' => [Advance]_vars
  BY <1>2
<1> QED BY <1>1, <1>3, Invariant, PTL DEF Spec, RunsMakeProgress

=============================================================================
