---------------------------- MODULE MCPdfWorker -----------------------------
(* PdfWorker on small sets of jobs and workers for TLC.                    *)
EXTENDS PdfWorker, TLC

\* Every outside event but an ambiguous answer of the queue, which would let
\* the request handler overwrite a row a worker has already moved on.
AllButAmbiguousAdd == EventKinds \ {"ambiguousAdd"}

\* Locks are lost, workers restart, the queue refuses or loses jobs and requests
\* die; but no worker dies with a job in hand and no call of a worker fails.
LockLoss == {"stall", "restart", "addError", "flush", "webCrash"}

Symmetry == Permutations(Jobs) \cup Permutations(Workers)

=============================================================================
