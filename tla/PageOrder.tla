------------------------------ MODULE PageOrder -----------------------------
(***************************************************************************)
(* Which files a merge job merges, and in which order: the form that       *)
(* POST /api/jobs/merge accepts (src/src/lib/jobs/merge.ts,                *)
(* src/src/server/jobs/validateJobInput.ts), and what the worker makes of  *)
(* the input it finds in the row (src/src/server/jobs/processPdfJob.ts,    *)
(* src/src/server/pdf/mergePdf.ts).                                        *)
(*                                                                         *)
(* A form names files (inputFileIds) and gives the positions, from 0, in   *)
(* which they are merged (pageOrder).  A query with "id in ..." returns    *)
(* the rows in no particular order.                                        *)
(***************************************************************************)
EXTENDS Naturals, Sequences, FiniteSets, Functions

CONSTANTS
    FileIds,        \* the ids of the FileObject rows
    ObjectKeys

MinFiles == 2
MaxFiles == 20

Rows == [id : FileIds, objectKey : ObjectKeys]

\* A table: no two rows have the same id.
Tables == {table \in SUBSET Rows : \A a, b \in table : a.id = b.id => a = b}

----------------------------------------------------------------------------
(* The request.                                                            *)

\* createJobRequestSchema: the number of files, and a file only once.
SchemaAccepts(ids) ==
    /\ Len(ids) \in MinFiles .. MaxFiles
    /\ Cardinality(Range(ids)) = Len(ids)

\* The comparison of the Set of pageOrder with that of the positions.
Positions(ids) == {i - 1 : i \in DOMAIN ids}

IsPageOrder(ids, order) ==
    /\ Len(order) = Len(ids)
    /\ Cardinality(Range(order)) = Cardinality(Positions(ids))
    /\ Range(order) \subseteq Positions(ids)

\* What findMany may return: the rows with these ids that the caller may use,
\* each once, in some order.
FindMany(ids, table) ==
    {files \in Seq(Rows) :
        /\ IsInjective(files)
        /\ Range(files) = {row \in table : row.id \in Range(ids)}}

\* filesById.
Has(files, id) == \E i \in DOMAIN files : files[i].id = id
FileById(files, id) == CHOOSE file \in Range(files) : file.id = id

\* orderedFiles of the route, inputFiles of the worker.
InOrderOf(ids, files) == [i \in DOMAIN ids |-> FileById(files, ids[i])]

\* parseAndValidateMergeJobInput accepts: as many files as ids are found.
Accepts(ids, order, files) ==
    /\ SchemaAccepts(ids)
    /\ IsPageOrder(ids, order)
    /\ Len(files) = Len(ids)

\* The file the new row refers to.
PrimaryFile(ids, order, files) == InOrderOf(ids, files)[order[1] + 1]

----------------------------------------------------------------------------
(* The worker.                                                             *)

\* parseMergeInputRef: what is looked at again.
ParseAccepts(ids, order) == IsPageOrder(ids, order)

\* No file is missing when the worker looks for them.
AllFound(ids, files) == \A i \in DOMAIN ids : Has(files, ids[i])

\* getOrderedInputs, which throws when a position is outside of the inputs.
InRange(inputs, order) == \A i \in DOMAIN order : order[i] + 1 \in DOMAIN inputs
OrderedInputs(inputs, order) == [i \in DOMAIN order |-> inputs[order[i] + 1]]

\* The inputs in the order in which their pages are copied.
Merged(ids, order, files) == OrderedInputs(InOrderOf(ids, files), order)

----------------------------------------------------------------------------
(* What is promised of an accepted form, whatever order the database gives *)
(* its rows in, when it is accepted (files) and when it is merged (found). *)

\* The second check for missing files and the check of the primary file never
\* refuse what the checks before them have let through.
LaterChecksPass(ids, order, files) ==
    /\ AllFound(ids, files)
    /\ order[1] + 1 \in DOMAIN InOrderOf(ids, files)
    /\ PrimaryFile(ids, order, files).id = ids[order[1] + 1]

\* The worker accepts the input, and finds every position among its inputs.
WorkerAccepts(ids, order, found) ==
    /\ ParseAccepts(ids, order)
    /\ InRange(InOrderOf(ids, found), order)

\* Every file of the form is merged, none of them twice and no other file, in
\* the order the form asks for, from the object that its row names.
MergesAsAsked(ids, order, table, found) ==
    LET merged == Merged(ids, order, found)
    IN  /\ Len(merged) = Len(ids)
        /\ \A i \in DOMAIN merged : merged[i].id = ids[order[i] + 1] /\ merged[i] \in table
        /\ IsInjective(merged)
        /\ {merged[i].id : i \in DOMAIN merged} = Range(ids)

=============================================================================
