\* Two files, a completion possibly delivered twice, everything that may fail.
SPECIFICATION Spec
CONSTANTS
    N = 2
    Redelivered = {1}
    Envelope <- AnyEvent
INVARIANTS
    SuccessIsReady
    ReadyIsReturned
PROPERTIES
    ImplementsFileLifecycle
    NothingSentAfterCancel
    BatchEnds
\* The system stops when the batch has ended.
CHECK_DEADLOCK FALSE
