---------------------------- MODULE UploadProofs ----------------------------
(***************************************************************************)
(* Theorems about Upload, proved for batches of every size, every set of   *)
(* files whose completion may arrive twice and every subset of outside     *)
(* events.                                                                 *)
(***************************************************************************)
EXTENDS Upload, TLAPS

Active == {"presigning", "uploading", "completing"}
Final == {"success", "error", "canceled"}

\* The loop is at one item; those behind it are final, those before it have
\* sent nothing.
LoopInv ==
    /\ \A i \in Items : i < cur => status[i] \in Final
    /\ \A i \in Items : i > cur => status[i] = "queued"
    /\ cur \in Items =>
          /\ status[cur] \in Active \cup {"queued"}
          /\ status[cur] = "queued" <=> phase = "next"
          /\ phase = "sleep" => status[cur] = "completing"
          /\ status[cur] = "uploading" => phase = "headers"
          /\ status[cur] # "completing" => try = 1
          /\ status[cur] \in {"queued", "uploading"} \/ phase = "sleep" => answer = "none"
    /\ cur = N + 1 => phase = "next" /\ answer = "none"

\* What each actor has done for a file, and what that says of the row and the
\* object: the presign handler, the PUT, the completions.
FileInv ==
    \A i \in Items :
        /\ status[i] = "queued" => presign[i] = "idle"
        /\ presign[i] \in {"idle", "create"} => row[i] = "none"
        /\ presign[i] = "sign" => row[i] = "PENDING_UPLOAD"
        /\ status[i] \in {"queued", "presigning"} => put[i] = "none"
        /\ put[i] # "none" => presign[i] = "over" /\ row[i] # "none"
        /\ object[i] = "none" <=> put[i] # "stored"
        /\ row[i] = "READY" => object[i] = "whole"
        /\ row[i] = "FAILED" => object[i] = "wrong"
        /\ status[i] = "completing" => put[i] = "stored"
        /\ status[i] = "success" => row[i] = "READY"

\* A completion handler runs only for a stored object, and acts on what the
\* object is.
HandlerInv ==
    \A h \in Handlers :
        /\ complete[h] # "idle" => put[h[1]] = "stored"
        /\ complete[h] = "ready" => object[h[1]] = "whole"
        /\ complete[h] = "failed" => object[h[1]] = "wrong"

\* What the browser has been told is so.
AnswerInv ==
    cur \in Items /\ answer = "ok" =>
        /\ status[cur] = "presigning" => presign[cur] = "over" /\ row[cur] = "PENDING_UPLOAD"
        /\ status[cur] = "completing" => row[cur] = "READY"

DeliveryInv ==
    /\ batch = "ended" => cur = N + 1
    /\ delivered \subseteq {i \in Items : status[i] = "success"}

SafetyInv == TypeOK /\ LoopInv /\ FileInv /\ HandlerInv /\ AnswerInv /\ DeliveryInv

LEMMA HandlersAre ==
    \A h \in Handlers : /\ h[1] \in Items /\ h[2] \in 1 .. 3
                        /\ h = <<h[1], h[2]>>
<1> SUFFICES ASSUME NEW h \in Handlers
             PROVE  h[1] \in Items /\ h[2] \in 1 .. 3 /\ h = <<h[1], h[2]>>
  OBVIOUS
<1>1. CASE h \in Items \X Tries
  BY <1>1 DEF Tries
<1>2. CASE h \in Redelivered \X {Copy}
  <2>1. Redelivered \subseteq Items
    BY BatchAssumption DEF Items
  <2> QED BY <1>2, <2>1 DEF Copy
<1> QED BY <1>1, <1>2 DEF Handlers

LEMMA CurrentHandlers == cur \in Items => <<cur, 1>> \in Handlers /\ <<cur, 2>> \in Handlers
BY DEF Handlers, Tries

LEMMA InitUpload == Init => SafetyInv
<1> SUFFICES ASSUME Init PROVE SafetyInv
  OBVIOUS
<1> USE DEF Init
<1>1. TypeOK
  BY BatchAssumption DEF TypeOK, Tries, UploadStatus, Rows, Answers
<1>2. LoopInv
  BY BatchAssumption DEF LoopInv, Items
<1>3. FileInv /\ AnswerInv /\ DeliveryInv
  BY DEF FileInv, AnswerInv, DeliveryInv
<1>4. HandlerInv
  BY DEF HandlerInv
<1> QED BY <1>1, <1>2, <1>3, <1>4 DEF SafetyInv

LEMMA Steps == 1 \in Tries /\ 2 \in Tries /\ \A i \in Items : i + 1 \in 1 .. N + 1
BY BatchAssumption DEF Tries, Items

LEMMA TypesKept == TypeOK /\ [Next]_vars => TypeOK'
<1> SUFFICES ASSUME TypeOK, [Next]_vars PROVE TypeOK'
  OBVIOUS
<1> USE DEF TypeOK, UploadStatus, Rows, Answers
<1>1. CASE BrowserStep
  <2> USE Steps DEF At, Settle, Await, userVars, batchVars, bucketVars, serverVars, browserVars
  <2>1. CASE SkipItem \/ StartItem \/ Headers
    BY <2>1 DEF SkipItem, StartItem, Headers
  <2>2. CASE PresignBody
    <3>1. CASE (Settle("error") \/ Settle("canceled")) /\ UNCHANGED put
      BY <2>2, <3>1 DEF PresignBody
    <3>2. CASE /\ Await("uploading", "headers") /\ UNCHANGED try
               /\ answer' = "none" /\ put' = [put EXCEPT ![cur] = "sent"]
      BY <2>2, <3>2 DEF PresignBody
    <3> QED BY <2>2, <3>1, <3>2, Zenon DEF PresignBody
  <2>3. CASE PutLoaded \/ PutFails
    BY <2>3 DEF PutLoaded, PutFails
  <2>4. CASE CompleteBody \/ Retry
    BY <2>4 DEF CompleteBody, Retry
  <2>5. CASE Abort
    BY <2>5 DEF Abort, Aborted
  <2>6. CASE BatchComplete
    <3>1. delivered' \subseteq Items
      BY <2>6, Zenon DEF BatchComplete
    <3> QED BY <2>6, <3>1 DEF BatchComplete
  <2> QED BY <1>1, <2>1, <2>2, <2>3, <2>4, <2>5, <2>6 DEF BrowserStep
<1>2. CASE Cancel \/ Unmount
  BY <1>2 DEF Cancel, Unmount, browserVars, batchVars, bucketVars, serverVars
<1>3. CASE NetworkFails
  <2>1. /\ cur \in Items /\ Settle("error") /\ unheard' = unheard \cup {cur}
        /\ UNCHANGED <<userVars, batchVars, bucketVars, row>>
    BY <1>3 DEF NetworkFails, At
  <2>2. /\ presign' \in [Items -> {"idle", "create", "sign", "over"}]
        /\ complete' \in [Handlers -> {"idle", "find", "head", "ready", "failed", "over"}]
    BY <1>3 DEF NetworkFails
  <2> QED BY <2>1, <2>2, Steps DEF Settle, userVars, batchVars, bucketVars
<1>4. ASSUME NEW i \in Items, PutArrives(i) \/ PutIsLost(i)
      PROVE  TypeOK'
  BY <1>4 DEF PutArrives, PutIsLost, browserVars, userVars, batchVars, serverVars
<1>5. ASSUME NEW i \in Items, PresignStep(i)
      PROVE  TypeOK'
  BY <1>5 DEF PresignStep, CreateRow, SignUrl, PresignThrows, AnswerPresign, browserVars,
              userVars, batchVars, bucketVars
<1>6. ASSUME NEW h \in Handlers, Duplicate(h)
      PROVE  TypeOK'
  BY <1>6, HandlersAre DEF Duplicate, browserVars, userVars, batchVars, bucketVars
<1>7. ASSUME NEW h \in Handlers, CompleteStep(h)
      PROVE  TypeOK'
  <2> USE HandlersAre DEF End, GoTo, userVars, batchVars, bucketVars
  <2>1. CASE Find(h)
    BY <1>7, <2>1 DEF CompleteStep, Find
  <2>2. CASE Head(h)
    BY <1>7, <2>2 DEF CompleteStep, Head, NotVisible
  <2>3. CASE UpdateReady(h) \/ UpdateFailed(h) \/ UpdateThrows(h)
    BY <1>7, <2>3 DEF CompleteStep, UpdateReady, UpdateFailed, UpdateThrows
  <2> QED BY <1>7, <2>1, <2>2, <2>3 DEF CompleteStep
<1>8. CASE UNCHANGED vars
  BY <1>8 DEF vars
<1> QED BY <1>1, <1>2, <1>3, <1>4, <1>5, <1>6, <1>7, <1>8 DEF Next

\* The browser is where its loop is, and its step keeps what is known of files
\* and handlers.
LEMMA BrowserKeeps ==
    ASSUME SafetyInv, BrowserStep \/ Cancel \/ Unmount \/ NetworkFails, TypeOK'
    PROVE  LoopInv' /\ FileInv' /\ HandlerInv' /\ AnswerInv' /\ DeliveryInv'
<1> USE DEF SafetyInv, TypeOK, LoopInv, FileInv, HandlerInv, AnswerInv, DeliveryInv,
            Active, Final
<1>0. \A i \in Items : i \in Int /\ cur \in Int
  BY DEF Items
<1> USE <1>0 DEF At, Settle, Await, userVars, batchVars, bucketVars, serverVars, browserVars
<1>1. CASE SkipItem
  BY <1>1 DEF SkipItem
<1>2. CASE StartItem
  <2>1. /\ status[cur] = "queued" /\ cur \in Items
        /\ status' = [status EXCEPT ![cur] = "presigning"]
        /\ presign' = [presign EXCEPT ![cur] = "create"]
        /\ phase' = "headers"
        /\ UNCHANGED <<cur, try, answer, batch, delivered, row, put, object, complete>>
    BY <1>2 DEF StartItem
  <2>2. LoopInv'
    <3>1. cur # N + 1
      BY <2>1, BatchAssumption DEF Items
    <3> QED BY <2>1, <3>1
  <2>3. FileInv'
    BY <2>1
  <2>4. HandlerInv' /\ AnswerInv'
    BY <2>1
  <2>5. DeliveryInv'
    BY <2>1
  <2> QED BY <2>2, <2>3, <2>4, <2>5
<1>3. CASE Headers
  BY <1>3 DEF Headers
<1>4. CASE PresignBody
  <2>1. CASE (Settle("error") \/ Settle("canceled")) /\ UNCHANGED put
    BY <1>4, <2>1 DEF PresignBody
  <2>2. CASE /\ answer = "ok" /\ Await("uploading", "headers") /\ UNCHANGED try
             /\ answer' = "none" /\ put' = [put EXCEPT ![cur] = "sent"]
    <3>1. /\ presign[cur] = "over" /\ row[cur] = "PENDING_UPLOAD"
          /\ put[cur] = "none"
      BY <1>4, <2>2 DEF PresignBody
    <3>2. LoopInv' /\ AnswerInv' /\ DeliveryInv'
      BY <1>4, <2>2 DEF PresignBody
    <3>3. FileInv'
      BY <1>4, <2>2, <3>1 DEF PresignBody
    <3>4. HandlerInv'
      BY <1>4, <2>2, <3>1 DEF PresignBody
    <3> QED BY <3>2, <3>3, <3>4
  <2> QED BY <1>4, <2>1, <2>2, Zenon DEF PresignBody
<1>5. CASE PutLoaded
  BY <1>5 DEF PutLoaded
<1>6. CASE PutFails
  BY <1>6 DEF PutFails
<1>7. CASE CompleteBody
  BY <1>7 DEF CompleteBody
<1>8. CASE Retry
  BY <1>8 DEF Retry
<1>9. CASE Abort
  BY <1>9 DEF Abort
<1>10. CASE BatchComplete
  BY <1>10 DEF BatchComplete
<1>11. CASE Cancel \/ Unmount
  BY <1>11 DEF Cancel, Unmount
<1>12. CASE NetworkFails
  BY <1>12 DEF NetworkFails
<1> QED BY <1>1, <1>2, <1>3, <1>4, <1>5, <1>6, <1>7, <1>8, <1>9, <1>10, <1>11, <1>12
        DEF BrowserStep

\* So do the bucket, the handlers and the network.
LEMMA OthersKeep ==
    ASSUME SafetyInv, TypeOK',
           \/ \E i \in Items : PutArrives(i) \/ PutIsLost(i) \/ PresignStep(i)
           \/ \E h \in Handlers : Duplicate(h) \/ CompleteStep(h)
    PROVE  LoopInv' /\ FileInv' /\ HandlerInv' /\ AnswerInv' /\ DeliveryInv'
<1> USE DEF SafetyInv, TypeOK, LoopInv, FileInv, HandlerInv, AnswerInv, DeliveryInv, At,
            userVars, batchVars, bucketVars, serverVars, browserVars
<1>1. ASSUME NEW i \in Items, PutArrives(i)
      PROVE  LoopInv' /\ FileInv' /\ HandlerInv' /\ AnswerInv' /\ DeliveryInv'
  BY <1>1 DEF PutArrives
<1>2. ASSUME NEW i \in Items, PutIsLost(i)
      PROVE  LoopInv' /\ FileInv' /\ HandlerInv' /\ AnswerInv' /\ DeliveryInv'
  BY <1>2 DEF PutIsLost
<1>3. ASSUME NEW i \in Items, PresignStep(i)
      PROVE  LoopInv' /\ FileInv' /\ HandlerInv' /\ AnswerInv' /\ DeliveryInv'
  <2> USE DEF AnswerPresign
  <2>1. CASE CreateRow(i)
    BY <2>1 DEF CreateRow
  <2>2. CASE SignUrl(i)
    BY <2>2 DEF SignUrl
  <2>3. CASE PresignThrows(i)
    BY <2>3 DEF PresignThrows
  <2> QED BY <1>3, <2>1, <2>2, <2>3 DEF PresignStep
<1>4. ASSUME NEW h \in Handlers, Duplicate(h)
      PROVE  LoopInv' /\ FileInv' /\ HandlerInv' /\ AnswerInv' /\ DeliveryInv'
  BY <1>4 DEF Duplicate
<1>5. ASSUME NEW h \in Handlers, CompleteStep(h)
      PROVE  LoopInv' /\ FileInv' /\ HandlerInv' /\ AnswerInv' /\ DeliveryInv'
  <2>1. PICK i \in Items : i = h[1]
    BY HandlersAre
  <2>2. UNCHANGED <<cur, status, phase, try, userVars, batchVars, bucketVars, presign>>
    BY <1>5 DEF CompleteStep
  <2> USE <2>1, <2>2 DEF GoTo, End
  <2>3. CASE Find(h)
    BY <2>3 DEF Find
  <2>4. CASE Head(h)
    BY <2>4 DEF Head, NotVisible
  <2>5. CASE UpdateReady(h)
    BY <2>5 DEF UpdateReady
  <2>6. CASE UpdateFailed(h)
    BY <2>6 DEF UpdateFailed
  <2>7. CASE UpdateThrows(h)
    BY <2>7 DEF UpdateThrows
  <2> QED BY <1>5, <2>3, <2>4, <2>5, <2>6, <2>7 DEF CompleteStep
<1> QED BY <1>1, <1>2, <1>3, <1>4, <1>5

\* The inductive invariant behind what is safe.
THEOREM Invariant == Spec => []SafetyInv
<1>1. ASSUME SafetyInv, [Next]_vars PROVE SafetyInv'
  <2>1. TypeOK'
    BY <1>1, TypesKept DEF SafetyInv
  <2>2. CASE UNCHANGED vars
    BY <1>1, <2>2
       DEF vars, SafetyInv, TypeOK, LoopInv, FileInv, HandlerInv, AnswerInv, DeliveryInv
  <2> QED BY <1>1, <2>1, <2>2, BrowserKeeps, OthersKeep DEF Next, SafetyInv
<1> QED BY InitUpload, <1>1, PTL DEF Spec

\* Every state is well typed.
THEOREM TypeCorrect == Spec => []TypeOK
<1>1. SafetyInv => TypeOK
  BY DEF SafetyInv
<1> QED BY <1>1, Invariant, PTL

\* What the uploader shows as Ready and hands on is READY at the server.
THEOREM ShownIsReady == Spec => []SuccessIsReady
<1>1. SafetyInv => SuccessIsReady
  BY DEF SafetyInv, FileInv, DeliveryInv, SuccessIsReady
<1> QED BY <1>1, Invariant, PTL

\* Nothing is sent for a file that is canceled.
THEOREM CancelIsFinal == Spec => NothingSentAfterCancel
<1> DEFINE Quiet(i) ==
        /\ presign[i] = "idle" => presign'[i] = "idle"
        /\ put[i] = "none" => put'[i] = "none"
        /\ \A t \in Tries : complete[<<i, t>>] = "idle" => complete'[<<i, t>>] = "idle"
<1>1. ASSUME TypeOK, [Next]_vars, NEW i \in canceled PROVE Quiet(i)
  <2> USE <1>1 DEF TypeOK, bucketVars, serverVars
  <2>1. \A t \in Tries : <<i, t>> \in Handlers
    BY DEF Handlers
  <2>2. CASE SkipItem \/ Headers \/ PutFails \/ CompleteBody \/ Abort \/ BatchComplete
    BY <2>2, Zenon DEF SkipItem, Headers, PutFails, CompleteBody, Abort, BatchComplete
  <2>3. CASE StartItem
    BY <2>3 DEF StartItem, At, Aborted
  <2>4. CASE PresignBody
    BY <2>4 DEF PresignBody, Payloads, Aborted, At
  <2>5. CASE PutLoaded \/ Retry
    BY <2>5, <2>1 DEF PutLoaded, Retry, Aborted, At
  <2>6. CASE Cancel \/ Unmount
    BY <2>6 DEF Cancel, Unmount
  <2>7. CASE NetworkFails
    BY <2>1, <2>7 DEF NetworkFails, Aborted, At
  <2>8. ASSUME NEW j \in Items, PutArrives(j) \/ PutIsLost(j) \/ PresignStep(j)
        PROVE  Quiet(i)
    BY <2>8 DEF PutArrives, PutIsLost, PresignStep, CreateRow, SignUrl, PresignThrows
  <2>9. ASSUME NEW h \in Handlers, Duplicate(h)
        PROVE  Quiet(i)
    BY <2>9, <2>1 DEF Duplicate, Copy, Tries
  <2>10. ASSUME NEW h \in Handlers, CompleteStep(h)
         PROVE  Quiet(i)
    <3>1. complete[h] # "idle" /\ \A g \in Handlers : g # h => complete'[g] = complete[g]
      BY <2>10 DEF CompleteStep, Find, Head, NotVisible, UpdateReady, UpdateFailed,
                   UpdateThrows, GoTo, End
    <3>2. put' = put /\ presign' = presign
      BY <2>10 DEF CompleteStep
    <3> QED BY <2>1, <3>1, <3>2
  <2>11. CASE UNCHANGED vars
    BY <2>11 DEF vars
  <2> QED BY <2>2, <2>3, <2>4, <2>5, <2>6, <2>7, <2>8, <2>9, <2>10, <2>11
          DEF Next, BrowserStep
<1>2. TypeOK /\ [Next]_vars => [\A i \in canceled : Quiet(i)]_vars
  BY <1>1
<1> QED BY <1>2, TypeCorrect, PTL DEF Spec, NothingSentAfterCancel

-----------------------------------------------------------------------------

\* The rows of a batch behave as the file lifecycle says: every step creates,
\* stores, verifies or rejects one file, or shows nothing of the kind.
THEOREM UploadImplementsFileLifecycle == Spec => ImplementsFileLifecycle
<1>1. Init => Lifecycle!Init
  BY DEF Init, Lifecycle!Init
<1>2. ASSUME SafetyInv, [Next]_vars
      PROVE  [Lifecycle!Next]_Lifecycle!fileVars
  <2> USE <1>2 DEF SafetyInv, TypeOK, Rows, Lifecycle!fileVars
  <2>1. CASE BrowserStep \/ Cancel \/ Unmount \/ NetworkFails
    BY <2>1, Zenon
       DEF BrowserStep, SkipItem, StartItem, Headers, PresignBody, PutLoaded, PutFails,
           CompleteBody, Retry, Abort, BatchComplete, Cancel, Unmount, NetworkFails,
           bucketVars, serverVars
  <2>2. ASSUME NEW i \in Items, PutArrives(i)
        PROVE  Lifecycle!Store(i)
    BY <2>2 DEF PutArrives, FileInv, HandlerInv, serverVars, Lifecycle!Store
  <2>3. ASSUME NEW i \in Items, CreateRow(i)
        PROVE  Lifecycle!Create(i)
    BY <2>3 DEF CreateRow, FileInv, bucketVars, Lifecycle!Create
  <2>4. ASSUME NEW i \in Items, PutIsLost(i) \/ SignUrl(i) \/ PresignThrows(i)
        PROVE  UNCHANGED Lifecycle!fileVars
    BY <2>4 DEF PutIsLost, SignUrl, PresignThrows, serverVars, bucketVars
  <2>5. ASSUME NEW h \in Handlers, CompleteStep(h)
        PROVE  Lifecycle!Verify(h[1]) \/ Lifecycle!Reject(h[1]) \/ UNCHANGED Lifecycle!fileVars
    <3> USE HandlersAre DEF CompleteStep, bucketVars, FileInv, HandlerInv
    <3>1. CASE UpdateReady(h)
      BY <2>5, <3>1 DEF UpdateReady, Lifecycle!Verify
    <3>2. CASE UpdateFailed(h)
      BY <2>5, <3>2 DEF UpdateFailed, Lifecycle!Reject
    <3> QED BY <2>5, <3>1, <3>2, Zenon DEF Find, Head, UpdateThrows
  <2>6. ASSUME NEW h \in Handlers, Duplicate(h)
        PROVE  UNCHANGED Lifecycle!fileVars
    BY <2>6 DEF Duplicate, bucketVars
  <2>7. CASE UNCHANGED vars
    BY <2>7 DEF vars
  <2> QED BY <2>1, <2>2, <2>3, <2>4, <2>5, <2>6, <2>7, HandlersAre
          DEF Next, PresignStep, Lifecycle!Next
<1> QED BY <1>1, <1>2, Invariant, PTL DEF Spec, ImplementsFileLifecycle, Lifecycle!Spec

-----------------------------------------------------------------------------

Heard(i) == i \in Items \ (canceled \cup unheard)

Running(h) == complete[h] \notin {"idle", "over"}

\* Of a file of which the browser has missed nothing, one completion runs at
\* most, the one it awaits; and when the row is READY the browser has been told,
\* or shows it.
HeardInv ==
    /\ ~mounted => canceled = Items
    /\ batch = "ended" /\ mounted => delivered = {i \in Items : status[i] = "success"}
    /\ \A h \in Handlers :
          Running(h) /\ Heard(h[1]) =>
              h = <<cur, try>> /\ At("completing", "headers") /\ answer = "none"
    /\ \A i \in Items :
          row[i] = "READY" /\ Heard(i) =>
              \/ status[i] = "success"
              \/ i = cur /\ status[i] = "completing" /\ answer = "ok"

\* An item may be settled when nothing runs for it and it is not READY, unless
\* it is settled as successful, or something of it is missed.
LEMMA SettleKeepsHeard ==
    ASSUME TypeOK, HeardInv, cur \in Items, batch = "running", NEW s \in UploadStatus, Settle(s),
           UNCHANGED <<userVars, batchVars, row, complete, unheard>>,
           ~At("completing", "headers") \/ ~Heard(cur),
           s = "success" \/ ~Heard(cur) \/ status[cur] # "completing" \/ answer # "ok",
           status[cur] # "success"
    PROVE  HeardInv'
<1> USE DEF Settle, userVars, batchVars
<1>1. \A i \in Items : i # cur => status'[i] = status[i]
  BY DEF TypeOK
<1>2. status'[cur] = s
  BY DEF TypeOK
<1>3. ASSUME NEW h \in Handlers PROVE ~(Running(h) /\ Heard(h[1]))'
  BY DEF HeardInv, Heard, Running
<1>4. ASSUME NEW i \in Items, row'[i] = "READY", Heard(i)' PROVE status'[i] = "success"
  BY <1>1, <1>2, <1>4 DEF HeardInv, Heard
<1> QED BY <1>3, <1>4 DEF HeardInv

LEMMA HeardKept ==
    ASSUME SafetyInv, HeardInv, [Next]_vars
    PROVE  HeardInv'
<1> USE DEF SafetyInv, TypeOK, HeardInv, Heard, Running, At
<1> USE DEF Settle, Await, userVars, batchVars, bucketVars, serverVars, browserVars
<1>0. cur \in Items => batch = "running" /\ status[cur] # "success"
  BY BatchAssumption DEF DeliveryInv, LoopInv, Active, Items
<1>1. CASE SkipItem
  BY <1>1 DEF SkipItem, Aborted
<1>2. CASE StartItem
  BY <1>2 DEF StartItem
<1>3. CASE Headers
  BY <1>3 DEF Headers
<1>4. CASE PresignBody
  <2>1. CASE (Settle("error") \/ Settle("canceled")) /\ UNCHANGED put
    BY <1>0, <1>4, <2>1, SettleKeepsHeard DEF PresignBody, UploadStatus
  <2>2. CASE Await("uploading", "headers") /\ answer' = "none" /\ UNCHANGED try
    BY <1>4, <2>2 DEF PresignBody
  <2> QED BY <1>4, <2>1, <2>2, Zenon DEF PresignBody
<1>5. CASE PutLoaded
  BY <1>5, HandlersAre DEF PutLoaded, LoopInv, Active
<1>6. CASE PutFails
  BY <1>6 DEF PutFails
<1>7. CASE CompleteBody
  <2>1. CASE answer = "ok" /\ Settle("success")
    BY <1>0, <1>7, <2>1, SettleKeepsHeard DEF CompleteBody, UploadStatus
  <2>2. CASE answer = "retryable" /\ Await("completing", "sleep") /\ answer' = "none"
    BY <1>7, <2>2 DEF CompleteBody
  <2>3. CASE answer # "ok" /\ Settle("error")
    BY <1>0, <1>7, <2>3, SettleKeepsHeard DEF CompleteBody, UploadStatus
  <2> QED BY <1>7, <2>1, <2>2, <2>3, Zenon DEF CompleteBody
<1>8. CASE Retry
  BY <1>8, HandlersAre DEF Retry, LoopInv
<1>9. CASE Abort
  <2>1. cur \in Items /\ ~Heard(cur) /\ Settle("canceled") /\ "canceled" \in UploadStatus
    BY <1>9 DEF Abort, Aborted, UploadStatus
  <2> QED BY <1>0, <1>9, <2>1, SettleKeepsHeard DEF Abort
<1>10. CASE BatchComplete
  BY <1>10 DEF BatchComplete
<1>11. CASE Cancel \/ Unmount
  BY <1>11 DEF Cancel, Unmount, DeliveryInv
<1>12. CASE NetworkFails
  BY <1>12, HandlersAre DEF NetworkFails
<1>13. ASSUME NEW i \in Items, PutArrives(i) \/ PutIsLost(i)
       PROVE  HeardInv'
  BY <1>13 DEF PutArrives, PutIsLost
<1>14. ASSUME NEW i \in Items, PresignStep(i)
       PROVE  HeardInv'
  BY <1>14 DEF PresignStep, CreateRow, SignUrl, PresignThrows, AnswerPresign, FileInv
<1>15. ASSUME NEW h \in Handlers, Duplicate(h)
       PROVE  HeardInv'
  BY <1>15 DEF Duplicate
<1>16. ASSUME NEW h \in Handlers, CompleteStep(h)
       PROVE  HeardInv'
  <2>1. UNCHANGED <<cur, status, phase, try, userVars, batchVars, bucketVars, presign>>
    BY <1>16 DEF CompleteStep
  <2> USE <2>1, HandlersAre DEF GoTo, End
  <2>2. CASE Find(h)
    BY <2>2 DEF Find
  <2>3. CASE Head(h)
    BY <2>3 DEF Head, NotVisible
  <2>4. CASE UpdateReady(h)
    BY <2>4 DEF UpdateReady
  <2>5. CASE UpdateFailed(h)
    BY <2>5 DEF UpdateFailed
  <2>6. CASE UpdateThrows(h)
    BY <2>6 DEF UpdateThrows
  <2> QED BY <1>16, <2>2, <2>3, <2>4, <2>5, <2>6 DEF CompleteStep
<1>17. CASE UNCHANGED vars
  BY <1>17 DEF vars
<1> QED BY <1>1, <1>2, <1>3, <1>4, <1>5, <1>6, <1>7, <1>8, <1>9, <1>10, <1>11, <1>12,
           <1>13, <1>14, <1>15, <1>16, <1>17 DEF Next, BrowserStep

\* No file becomes READY behind the user's back.
THEOREM ReadyIsHandedOn == Spec => []ReadyIsReturned
<1>1. Init => HeardInv
  BY DEF Init, HeardInv, Running
<1>2. Spec => []HeardInv
  BY <1>1, HeardKept, Invariant, PTL DEF Spec
<1>3. SafetyInv /\ HeardInv => ReadyIsReturned
  <2> SUFFICES ASSUME SafetyInv, HeardInv, batch = "ended", NEW i \in Items,
                      Heard(i), row[i] = "READY"
               PROVE  i \in delivered
    BY DEF ReadyIsReturned, Heard
  <2>1. i # cur
    BY BatchAssumption DEF SafetyInv, DeliveryInv, Items
  <2>2. mounted
    BY DEF HeardInv, Heard, SafetyInv, TypeOK
  <2> QED BY <2>1, <2>2 DEF HeardInv
<1> QED BY <1>2, <1>3, Invariant, PTL

=============================================================================
