------------------------------- MODULE Upload -------------------------------
(***************************************************************************)
(* A batch of files on its way from the browser to READY rows:             *)
(* startPresignedUploads (src/src/lib/upload/s3Put.ts) inside              *)
(* PresignedUploader.tsx, and the two routes it calls, upload/presign and  *)
(* upload/complete (src/src/app/api/upload).  The browser takes one file   *)
(* after the other: presign, PUT, complete, with one retry of completion;  *)
(* the user may cancel the file in hand or leave the page at any time.     *)
(*                                                                         *)
(* A request that the browser has given up goes on at the server, and a    *)
(* request may reach the server twice, so several completions of one file  *)
(* run next to each other.  They read the row, ask the bucket and then     *)
(* update the row without a condition.                                     *)
(***************************************************************************)
EXTENDS Integers

CONSTANTS
    N,              \* files in the batch
    Redelivered,    \* files of which a completion may arrive twice
    Envelope        \* the outside events admitted

EventKinds ==
    {"presignError",    \* presign is refused, or fails after its row exists
     "network",         \* a request or its answer is lost, or the server dies
     "duplicate",       \* a completion request is delivered again
     "putError",        \* the PUT fails, whether or not the object is stored
     "wrongObject",     \* the object has another size or etag than announced
     "lag",             \* HEAD does not see an object that is stored
     "storageError",    \* HEAD fails
     "dbError",         \* a query fails
     "lostCommit",      \* an update commits and reports an error
     "signIn"}          \* the caller is no longer the owner of the row

ASSUME BatchAssumption == N \in Nat \ {0} /\ Redelivered \subseteq 1 .. N
ASSUME EnvelopeAssumption == Envelope \subseteq EventKinds

Items == 1 .. N
Tries == 1 .. 2             \* the request and its retry
Copy == 3                   \* either of them, delivered again
Handlers == (Items \X Tries) \cup (Redelivered \X {Copy})

VARIABLES
    \* the browser
    cur,            \* the item of the loop, N + 1 after the last one
    status,         \* [Items -> item.status]
    phase,          \* what the loop awaits for the current item
    try,            \* the completion request it is at
    answer,         \* what the response it awaits will say
    canceled,       \* canceledIds
    mounted,        \* mountedRef
    delivered,      \* what onComplete was called with
    batch,          \* "running", or "ended" when the promise has resolved
    \* the bucket
    put,            \* [Items -> what has become of the PUT]
    object,         \* [Items -> the object stored]
    \* the server
    row,            \* [Items -> FileObject.status]
    presign,        \* [Items -> the step of the presign handler]
    complete,       \* [Handlers -> the step of a completion handler]
    \* history
    unheard         \* items of which the browser has missed something

browserVars == <<cur, status, phase, try, answer>>
userVars == <<canceled, mounted>>
batchVars == <<delivered, batch>>
bucketVars == <<put, object>>
serverVars == <<row, presign, complete, unheard>>
vars == <<cur, status, phase, try, answer, canceled, mounted, delivered, batch,
          put, object, row, presign, complete, unheard>>

UploadStatus == {"queued", "presigning", "uploading", "completing", "success",
                 "error", "canceled"}
Rows == {"none", "PENDING_UPLOAD", "READY", "FAILED"}
Answers == {"none", "ok", "retryable", "refused"}

TypeOK ==
    /\ cur \in 1 .. N + 1
    /\ status \in [Items -> UploadStatus]
    /\ phase \in {"next", "headers", "body", "sleep"}
    /\ try \in Tries
    /\ answer \in Answers
    /\ canceled \subseteq Items
    /\ mounted \in BOOLEAN
    /\ delivered \subseteq Items
    /\ batch \in {"running", "ended"}
    /\ put \in [Items -> {"none", "sent", "stored", "lost"}]
    /\ object \in [Items -> {"none", "whole", "wrong"}]
    /\ row \in [Items -> Rows]
    /\ presign \in [Items -> {"idle", "create", "sign", "over"}]
    /\ complete \in [Handlers -> {"idle", "find", "head", "ready", "failed", "over"}]
    /\ unheard \subseteq Items

Init ==
    /\ cur = 1
    /\ status = [i \in Items |-> "queued"]
    /\ phase = "next"
    /\ try = 1
    /\ answer = "none"
    /\ canceled = {}
    /\ mounted = TRUE
    /\ delivered = {}
    /\ batch = "running"
    /\ put = [i \in Items |-> "none"]
    /\ object = [i \in Items |-> "none"]
    /\ row = [i \in Items |-> "none"]
    /\ presign = [i \in Items |-> "idle"]
    /\ complete = [h \in Handlers |-> "idle"]
    /\ unheard = {}

----------------------------------------------------------------------------
(* The loop of the batch.  The signal of the current item is aborted       *)
(* exactly when the item is in canceledIds: the loop skips items canceled  *)
(* before, and cancel aborts the active one.                               *)

Aborted == cur \in canceled

At(s, p) == cur \in Items /\ status[cur] = s /\ phase = p

\* The item is finished and the loop goes on.
Settle(s) ==
    /\ status' = [status EXCEPT ![cur] = s]
    /\ cur' = cur + 1
    /\ phase' = "next"
    /\ try' = 1
    /\ answer' = "none"

\* The loop awaits something else.
Await(s, p) ==
    /\ status' = [status EXCEPT ![cur] = s]
    /\ phase' = p
    /\ UNCHANGED cur

SkipItem ==
    /\ At("queued", "next") /\ Aborted
    /\ Settle("canceled")
    /\ UNCHANGED <<userVars, batchVars, bucketVars, serverVars>>

StartItem ==
    /\ At("queued", "next") /\ ~Aborted
    /\ Await("presigning", "headers")
    /\ presign' = [presign EXCEPT ![cur] = "create"]
    /\ UNCHANGED <<try, answer, userVars, batchVars, bucketVars, row, complete, unheard>>

\* fetch resolves when the headers of the response are there.
Headers ==
    /\ At("presigning", "headers") \/ At("completing", "headers")
    /\ answer # "none" /\ ~Aborted
    /\ phase' = "body"
    /\ UNCHANGED <<cur, status, try, answer, userVars, batchVars, bucketVars, serverVars>>

\* parseJsonSafe makes null of a body that was aborted or cut off.
Payloads == IF Aborted THEN {"null"}
            ELSE {"json"} \cup IF "network" \in Envelope THEN {"null"} ELSE {}

\* The upload begins, unless there is no usable body (an error) or the item was
\* canceled when its body had already been read.
PresignBody ==
    /\ At("presigning", "body")
    /\ \/ /\ answer = "ok" /\ "json" \in Payloads
          /\ Await("uploading", "headers")
          /\ answer' = "none"
          /\ put' = [put EXCEPT ![cur] = "sent"]
          /\ UNCHANGED try
       \/ /\ answer # "ok" \/ "null" \in Payloads
          /\ Settle("error") /\ UNCHANGED put
       \/ /\ answer = "ok" /\ Aborted
          /\ Settle("canceled") /\ UNCHANGED put
    /\ UNCHANGED <<userVars, batchVars, object, serverVars>>

\* The PUT is answered with an etag and completion is requested.
PutLoaded ==
    /\ At("uploading", "headers")
    /\ put[cur] = "stored" /\ ~Aborted
    /\ Await("completing", "headers")
    /\ complete' = [complete EXCEPT ![<<cur, 1>>] = "find"]
    /\ UNCHANGED <<try, answer, userVars, batchVars, bucketVars, row, presign, unheard>>

\* The PUT failed, or so it seems to the browser.
PutFails ==
    /\ At("uploading", "headers")
    /\ put[cur] = "lost" \/ "putError" \in Envelope
    /\ ~Aborted
    /\ Settle("error")
    /\ UNCHANGED <<userVars, batchVars, bucketVars, serverVars>>

\* An ok response is enough; a retryable error is retried once.
CompleteBody ==
    /\ At("completing", "body")
    /\ \/ /\ answer = "ok"
          /\ Settle("success")
       \/ /\ answer = "retryable" /\ try = 1 /\ "json" \in Payloads
          /\ Await("completing", "sleep")
          /\ answer' = "none"
          /\ UNCHANGED try
       \/ /\ \/ answer = "refused" \/ try = 2 \/ "null" \in Payloads
          /\ answer # "ok"
          /\ Settle("error")
    /\ UNCHANGED <<userVars, batchVars, bucketVars, serverVars>>

\* (Mutant: the signal is not looked at after the delay.)
RetryUnaware ==
    /\ At("completing", "sleep")
    /\ Await("completing", "headers")
    /\ try' = 2
    /\ complete' = [complete EXCEPT ![<<cur, 2>>] = "find"]
    /\ UNCHANGED <<answer, userVars, batchVars, bucketVars, row, presign, unheard>>

\* The delay is over and the request is sent again.
Retry ==
    /\ At("completing", "sleep") /\ ~Aborted
    /\ Await("completing", "headers")
    /\ try' = 2
    /\ complete' = [complete EXCEPT ![<<cur, 2>>] = "find"]
    /\ UNCHANGED <<answer, userVars, batchVars, bucketVars, row, presign, unheard>>

\* (Mutant: aborting the XMLHttpRequest does not reject the promise of the PUT.)
AbortFetchOnly ==
    /\ phase \in {"headers", "sleep"} /\ Aborted
    /\ status[cur] # "uploading"
    /\ Settle("canceled")
    /\ UNCHANGED <<userVars, batchVars, bucketVars, serverVars>>

\* fetch and XMLHttpRequest reject when the signal is aborted; the delay
\* ends first.  An answer whose headers have arrived is not thrown away.
Abort ==
    /\ phase \in {"headers", "sleep"} /\ Aborted
    /\ Settle("canceled")
    /\ UNCHANGED <<userVars, batchVars, bucketVars, serverVars>>

\* (Mutant: a batch in which one file fails is not handed on at all.)
BatchCompleteAllOrNothing ==
    /\ cur = N + 1 /\ batch = "running"
    /\ batch' = "ended"
    /\ delivered' = IF mounted /\ \A i \in Items : status[i] = "success" THEN Items ELSE {}
    /\ UNCHANGED <<browserVars, userVars, bucketVars, serverVars>>

BatchComplete ==
    /\ cur = N + 1 /\ batch = "running"
    /\ batch' = "ended"
    /\ delivered' = IF mounted THEN {i \in Items : status[i] = "success"} ELSE {}
    /\ UNCHANGED <<browserVars, userVars, bucketVars, serverVars>>

BrowserStep ==
    \/ SkipItem \/ StartItem \/ Headers \/ PresignBody \/ PutLoaded \/ PutFails
    \/ CompleteBody \/ Retry \/ Abort \/ BatchComplete

----------------------------------------------------------------------------
(* The user.                                                               *)

\* The button is shown for the item in hand only.
Cancel ==
    /\ mounted
    /\ cur \in Items /\ status[cur] \in {"presigning", "uploading", "completing"}
    /\ canceled' = canceled \cup {cur}
    /\ UNCHANGED <<browserVars, mounted, batchVars, bucketVars, serverVars>>

\* Leaving the page after the batch changes nothing that is modelled here.
Unmount ==
    /\ mounted /\ batch = "running"
    /\ mounted' = FALSE
    /\ canceled' = Items
    /\ UNCHANGED <<browserVars, batchVars, bucketVars, serverVars>>

----------------------------------------------------------------------------
(* The bucket and the network.                                             *)

PutArrives(i) ==
    /\ put[i] = "sent"
    /\ \E o \in {"whole"} \cup IF "wrongObject" \in Envelope THEN {"wrong"} ELSE {} :
         object' = [object EXCEPT ![i] = o]
    /\ put' = [put EXCEPT ![i] = "stored"]
    /\ UNCHANGED <<browserVars, userVars, batchVars, serverVars>>

\* Aborted by the browser before it was complete, or refused by the bucket.
PutIsLost(i) ==
    /\ put[i] = "sent"
    /\ i \in canceled \/ "putError" \in Envelope
    /\ put' = [put EXCEPT ![i] = "lost"]
    /\ UNCHANGED <<browserVars, userVars, batchVars, object, serverVars>>

\* fetch rejects; the handler may have died, or may still go on.
NetworkFails ==
    /\ "network" \in Envelope /\ ~Aborted
    /\ \/ /\ At("presigning", "headers")
          /\ \E p \in {presign[cur], "over"} : presign' = [presign EXCEPT ![cur] = p]
          /\ UNCHANGED complete
       \/ /\ At("completing", "headers")
          /\ \E c \in {complete[<<cur, try>>], "over"} :
               complete' = [complete EXCEPT ![<<cur, try>>] = c]
          /\ UNCHANGED presign
    /\ Settle("error")
    /\ unheard' = unheard \cup {cur}
    /\ UNCHANGED <<userVars, batchVars, bucketVars, row>>

\* The network stack or a proxy sends the request again while no answer has
\* come back; both copies may reach the server.
Duplicate(h) ==
    /\ "duplicate" \in Envelope
    /\ h[2] = Copy /\ complete[h] = "idle"
    /\ h[1] = cur /\ At("completing", "headers")
    /\ complete' = [complete EXCEPT ![h] = "find"]
    /\ unheard' = unheard \cup {h[1]}
    /\ UNCHANGED <<browserVars, userVars, batchVars, bucketVars, row, presign>>

----------------------------------------------------------------------------
(* POST upload/presign: the row is created before the URL is signed.       *)

\* The handler has something to say to the browser, if it still listens.
AnswerPresign(i, a) ==
    answer' = IF cur = i /\ At("presigning", "headers") THEN a ELSE answer

CreateRow(i) ==
    /\ presign[i] = "create"
    /\ row' = [row EXCEPT ![i] = "PENDING_UPLOAD"]
    /\ presign' = [presign EXCEPT ![i] = "sign"]
    /\ UNCHANGED <<browserVars, userVars, batchVars, bucketVars, complete, unheard>>

SignUrl(i) ==
    /\ presign[i] = "sign"
    /\ presign' = [presign EXCEPT ![i] = "over"]
    /\ AnswerPresign(i, "ok")
    /\ UNCHANGED <<cur, status, phase, try, userVars, batchVars, bucketVars, row, complete, unheard>>

\* Rate limit, validation or database; or signing or counting fails.
PresignThrows(i) ==
    /\ "presignError" \in Envelope
    /\ presign[i] \in {"create", "sign"}
    /\ presign' = [presign EXCEPT ![i] = "over"]
    /\ AnswerPresign(i, "refused")
    /\ UNCHANGED <<cur, status, phase, try, userVars, batchVars, bucketVars, row, complete, unheard>>

PresignStep(i) == CreateRow(i) \/ SignUrl(i) \/ PresignThrows(i)

----------------------------------------------------------------------------
(* POST upload/complete.                                                   *)

\* The handler ends; only the request the browser awaits is heard.
End(h, a) ==
    /\ complete' = [complete EXCEPT ![h] = "over"]
    /\ answer' = IF h = <<cur, try>> /\ At("completing", "headers") THEN a ELSE answer

\* The handler goes on.
GoTo(h, s) ==
    /\ complete' = [complete EXCEPT ![h] = s]
    /\ UNCHANGED answer

\* (Mutant: an answer to a retry that does not look which status was found.)
FindAlreadyDone(h) ==
    /\ complete[h] = "find"
    /\ \/ row[h[1]] = "PENDING_UPLOAD" /\ GoTo(h, "head")
       \/ row[h[1]] # "PENDING_UPLOAD" /\ End(h, "ok")
       \/ "signIn" \in Envelope /\ End(h, "refused")
       \/ "dbError" \in Envelope /\ End(h, "retryable")
    /\ UNCHANGED <<row, unheard>>

Find(h) ==
    /\ complete[h] = "find"
    /\ \/ row[h[1]] = "PENDING_UPLOAD" /\ GoTo(h, "head")
       \/ row[h[1]] # "PENDING_UPLOAD" /\ End(h, "refused")
       \/ "signIn" \in Envelope /\ End(h, "refused")
       \/ "dbError" \in Envelope /\ End(h, "retryable")
    /\ UNCHANGED <<row, unheard>>

\* (Mutant: an object that is not visible is taken for a failed upload.)
NotVisibleFails(h) == GoTo(h, "failed")

NotVisible(h) == End(h, "retryable")

Head(h) ==
    /\ complete[h] = "head"
    /\ \/ object[h[1]] = "whole" /\ GoTo(h, "ready")
       \/ object[h[1]] = "wrong" /\ GoTo(h, "failed")
       \/ "lag" \in Envelope /\ NotVisible(h)
       \/ "storageError" \in Envelope /\ End(h, "retryable")
    /\ UNCHANGED <<row, unheard>>

\* Neither update looks at the status again.
UpdateReady(h) ==
    /\ complete[h] = "ready"
    /\ row' = [row EXCEPT ![h[1]] = "READY"]
    /\ \/ End(h, "ok") /\ UNCHANGED unheard
       \/ /\ "lostCommit" \in Envelope /\ End(h, "retryable")
          /\ unheard' = unheard \cup {h[1]}

UpdateFailed(h) ==
    /\ complete[h] = "failed"
    /\ row' = [row EXCEPT ![h[1]] = "FAILED"]
    /\ \/ End(h, "refused") /\ UNCHANGED unheard
       \/ /\ "lostCommit" \in Envelope /\ End(h, "retryable")
          /\ unheard' = unheard \cup {h[1]}

UpdateThrows(h) ==
    /\ complete[h] \in {"ready", "failed"} /\ "dbError" \in Envelope
    /\ End(h, "retryable")
    /\ UNCHANGED <<row, unheard>>

CompleteStep(h) ==
    /\ Find(h) \/ Head(h) \/ UpdateReady(h) \/ UpdateFailed(h) \/ UpdateThrows(h)
    /\ UNCHANGED <<cur, status, phase, try, userVars, batchVars, bucketVars, presign>>

----------------------------------------------------------------------------
Next ==
    \/ BrowserStep
    \/ Cancel
    \/ Unmount
    \/ NetworkFails
    \/ \E i \in Items : PutArrives(i) \/ PutIsLost(i) \/ PresignStep(i)
    \/ \E h \in Handlers : Duplicate(h) \/ CompleteStep(h)

\* What the browser awaits for an item, of which there is one thing at a time:
\* the presign handler, the PUT, or the handler of a completion request.
Pending(i) ==
    \/ PresignStep(i)
    \/ PutArrives(i) \/ PutIsLost(i)
    \/ \E t \in Tries : CompleteStep(<<i, t>>)

\* The event loop goes on, handlers run to their end, and the bucket takes a
\* PUT or refuses it.  Nobody has to cancel and no call has to fail.
Fairness ==
    /\ WF_vars(BrowserStep)
    /\ \A i \in Items : WF_vars(Pending(i))

Spec == Init /\ [][Next]_vars /\ Fairness

----------------------------------------------------------------------------
(* Properties.                                                             *)

\* The rows behave as the file lifecycle says.  The updates of the completion
\* route are unconditional and several of them may have read PENDING_UPLOAD;
\* still an object is verified before its row is READY, a row is given up only
\* for an object that is really another one (an answer of the bucket that
\* proves nothing settles nothing), and what is settled stays so.
Lifecycle == INSTANCE FileLifecycle WITH Files <- Items, status <- row
ImplementsFileLifecycle == Lifecycle!Spec

\* The page's promise that "Only verified uploads will be included in the
\* merge": what the uploader shows as Ready, and what it hands to onComplete,
\* is READY at the server, through lost answers, retries and cancellation.
SuccessIsReady ==
    /\ \A i \in Items : status[i] = "success" => row[i] = "READY"
    /\ delivered \subseteq {i \in Items : row[i] = "READY"}

\* From the moment a file is canceled, by its button or because the page is
\* left, the uploader sends nothing more for it: no presign, no PUT, and no
\* completion, the retry after the delay included.
NothingSentAfterCancel ==
    [][\A i \in canceled :
        /\ presign[i] = "idle" => presign'[i] = "idle"
        /\ put[i] = "none" => put'[i] = "none"
        /\ \A t \in Tries : complete[<<i, t>>] = "idle" => complete'[<<i, t>>] = "idle"]_vars

\* No file becomes READY behind the user's back: what is READY when the batch
\* ends has been handed on, unless the user canceled it or left, or the network
\* or the database kept something of it from the browser (a lost answer, a
\* request delivered twice, a commit that reported an error).
ReadyIsReturned ==
    batch = "ended" =>
        \A i \in Items \ (canceled \cup unheard) : row[i] = "READY" => i \in delivered

\* The promise of the batch resolves, whatever fails and whenever the user
\* cancels; until then no other batch can be started.
BatchEnds == <>(batch = "ended")

=============================================================================
