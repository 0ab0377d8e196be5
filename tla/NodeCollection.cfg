CONSTANTS
    N = 3
    MaxAttempts = 2
SPECIFICATION Spec
INVARIANTS TypeOK FaultQueueExact ChooseNeverThrows
PROPERTIES RunsTheLoops EveryNodeHasItsTurn
