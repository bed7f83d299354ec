CONSTANTS
    Streams <- MCStreams
    Chains = {"global", "gate", "group"}
    HeaderLen = 2
    BatchMax = 2
    MaxOut = 3
SPECIFICATION Spec
INVARIANT AnsweredOnce
CHECK_DEADLOCK FALSE
