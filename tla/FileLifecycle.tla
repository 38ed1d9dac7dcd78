---------------------------- MODULE FileLifecycle ---------------------------
(***************************************************************************)
(* What the row of an uploaded file promises to those who read it (the     *)
(* merge route, the worker and the cleanup), whatever the browser, the     *)
(* network and the bucket do: the status machine of the FileObject table   *)
(* (src/prisma/schema.prisma) up to the moment the file is verified or     *)
(* given up.  The object is written once, before it is judged; the         *)
(* judgement agrees with the object and is final.                          *)
(***************************************************************************)

CONSTANT Files  \* the file ids

VARIABLES
    status,     \* [Files -> the status column, or "none" without a row]
    object      \* [Files -> the object stored under the key of the row]

fileVars == <<status, object>>

Init ==
    /\ status = [f \in Files |-> "none"]
    /\ object = [f \in Files |-> "none"]

\* A presign request creates the row.
Create(f) ==
    /\ status[f] = "none"
    /\ status' = [status EXCEPT ![f] = "PENDING_UPLOAD"]
    /\ UNCHANGED object

\* The PUT is complete; the object is what was declared, or is not.
Store(f) ==
    /\ status[f] = "PENDING_UPLOAD" /\ object[f] = "none"
    /\ \E o \in {"whole", "wrong"} : object' = [object EXCEPT ![f] = o]
    /\ UNCHANGED status

\* The object is there with the size and etag declared.
Verify(f) ==
    /\ status[f] = "PENDING_UPLOAD" /\ object[f] = "whole"
    /\ status' = [status EXCEPT ![f] = "READY"]
    /\ UNCHANGED object

\* The object is there and is another one.
Reject(f) ==
    /\ status[f] = "PENDING_UPLOAD" /\ object[f] = "wrong"
    /\ status' = [status EXCEPT ![f] = "FAILED"]
    /\ UNCHANGED object

Next == \E f \in Files : Create(f) \/ Store(f) \/ Verify(f) \/ Reject(f)

Spec == Init /\ [][Next]_fileVars

=============================================================================
