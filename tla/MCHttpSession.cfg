CONSTANTS
    Streams <- MCStreams
    Chains = {"global", "gate", "group"}
    HeaderLen = 2
    BatchMax = 2
    MaxOut = 3
SPECIFICATION Spec
INVARIANTS PipelineSound
PROPERTIES Served
CHECK_DEADLOCK FALSE
