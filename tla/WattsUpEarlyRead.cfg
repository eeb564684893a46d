CONSTANTS
  Lo = 1
  Hi = 2
  Scale = 2
  FlushRetries = 1
  PacketRetries = 1
  MaxTime = 4
SPECIFICATION Spec
INVARIANT ReadingWithinSession
