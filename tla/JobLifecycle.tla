---------------------------- MODULE JobLifecycle ----------------------------
(***************************************************************************)
(* What a job row promises the clients that poll it, whatever the queue,   *)
(* the workers and the cleanup do underneath: the status machine of the    *)
(* Job table (src/prisma/schema.prisma) and the rule that only a finished  *)
(* job carries an output.  Rows are identified by ids that are never       *)
(* reused, so a row is created once and deleted once.                      *)
(***************************************************************************)

CONSTANT Jobs   \* the job ids

VARIABLES
    status,     \* [Jobs -> Status], the status column, or NONE / DELETED
    outputRef   \* [Jobs -> BOOLEAN], whether the outputRef column is set

rowVars == <<status, outputRef>>

\* The enum of the schema (CANCELED is never written by any code), the id
\* that has no row yet and the id whose row is gone.
Status == {"NONE", "PENDING", "RUNNING", "SUCCEEDED", "FAILED", "DELETED"}

Absent == {"NONE", "DELETED"}

TypeOK ==
    /\ status \in [Jobs -> Status]
    /\ outputRef \in [Jobs -> BOOLEAN]

-----------------------------------------------------------------------------

Init ==
    /\ status = [j \in Jobs |-> "NONE"]
    /\ outputRef = [j \in Jobs |-> FALSE]

Move(j, from, to) ==
    /\ status[j] \in from
    /\ status' = [status EXCEPT ![j] = to]
    /\ outputRef' = [outputRef EXCEPT ![j] = (to = "SUCCEEDED")]

\* A merge request creates the row.
Create(j) == Move(j, {"NONE"}, "PENDING")

\* A delivery of the queue starts the job, the first time or after a failure.
Start(j) == Move(j, {"PENDING", "FAILED"}, "RUNNING")

\* The merged PDF is recorded.
Succeed(j) == Move(j, {"RUNNING"}, "SUCCEEDED")

\* A delivery fails, or the request could not queue the job.
Fail(j) == Move(j, {"PENDING", "RUNNING"}, "FAILED")

\* Retention removes the row.
Delete(j) == Move(j, Status \ Absent, "DELETED")

Next ==
    \E j \in Jobs : Create(j) \/ Start(j) \/ Succeed(j) \/ Fail(j) \/ Delete(j)

Spec == Init /\ [][Next]_rowVars

=============================================================================
