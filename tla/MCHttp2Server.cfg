SPECIFICATION MCSpec
CONSTANTS
    Streams = {1, 3}
    MaxStreams = 2
    MaxTasks = 1
    MaxBytes = 1
INVARIANTS SessionSound
PROPERTIES AnswersSent DrainEnds
