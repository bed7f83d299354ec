SPECIFICATION Spec
CONSTANTS
  Streams = {1, 3}
  MaxSend = 3
  MaxBody = 2
  MaxFile = 2
  Prefetch = 2
  MaxWindow = 2
INVARIANTS OutputSound WaitsOnlyForPeer
