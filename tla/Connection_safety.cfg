CONSTANTS
    MaxStreams = 4
    MaxPendingMessages = 1
    MaxPipeline = 2
    UseCompression = {TRUE}
    Password = {TRUE}
    KeySpace = {TRUE}
SPECIFICATION Spec
INVARIANTS TypeOK ResponsesMatched WaitersCounted ReceiverRunsForWaiters QueueHoldsPipeline
CHECK_DEADLOCK FALSE
