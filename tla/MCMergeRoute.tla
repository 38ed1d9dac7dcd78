---------------------------- MODULE MCMergeRoute ----------------------------
(* MergeRoute on small sets of requests for TLC: two submissions of one form *)
(* under one key (a double click, a retry) and a third request.              *)
EXTENDS MergeRoute, Sequences, TLC

CONSTANTS r1, r2, r3, k1, f1, f2

\* The third request reuses the key for another form.
OneKeyTwoForms == (r1 :> k1) @@ (r2 :> k1) @@ (r3 :> k1)
TwoForms == (r1 :> f1) @@ (r2 :> f1) @@ (r3 :> f2)

\* The third request has no key.
KeyAndNoKey == (r1 :> k1) @@ (r2 :> k1) @@ (r3 :> NoKey)
SameForm == (r1 :> f1) @@ (r2 :> f1) @@ (r3 :> f1)

\* A double click and nothing else.
DoubleClickKeys == (r1 :> k1) @@ (r2 :> k1)
DoubleClickForms == (r1 :> f1) @@ (r2 :> f1)

\* The web process may die, the queue refuse jobs and replies get lost, those of
\* the insert included.
WebFaults == {"webCrash", "addError", "lostReply", "cleanup"}

\* The queue refuses jobs, workers lose locks and restart, but do not die with
\* a job in hand.
LocksAreLost == {"addError", "cleanup", "stall", "restart"}

NoFaults == {}

-----------------------------------------------------------------------------
(* The form of a request, for three files whose rows the database returns in *)
(* any order.                                                                *)

Files == {"a", "b", "c"}

P == INSTANCE PageOrder WITH FileIds <- Files, ObjectKeys <- {"x", "y"}

UpTo3(S) == UNION {[1 .. n -> S] : n \in 0 .. 3}
Answers(ids, table) == {files \in UpTo3(table) : files \in P!FindMany(ids, table)}

\* The comparison of the sets lets through the permutations and nothing else.
ASSUME PageOrdersArePermutations ==
    \A ids \in {i \in UpTo3(Files) : P!SchemaAccepts(i)}, order \in UpTo3(0 .. 3) :
        P!IsPageOrder(ids, order)
            <=> /\ DOMAIN order = DOMAIN ids
                /\ \A p \in 0 .. Len(ids) - 1 : \E i \in DOMAIN order : order[i] = p

\* An accepted form is merged as it asks for; the theorems of PageOrderProofs
\* on a small table.
ASSUME AcceptedFormsMergeAsAsked ==
    \A ids \in {i \in UpTo3(Files) : P!SchemaAccepts(i)}, table \in P!Tables :
        \A order \in {o \in UpTo3(0 .. 3) : P!IsPageOrder(ids, o)},
           files \in Answers(ids, table), found \in Answers(ids, table) :
            P!Accepts(ids, order, files) =>
                /\ P!LaterChecksPass(ids, order, files)
                /\ P!WorkerAccepts(ids, order, found)
                /\ P!MergesAsAsked(ids, order, table, found)

=============================================================================
