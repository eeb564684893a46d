CONSTANTS
  Lo = 1
  Hi = 2
  Scale = 2
  FlushRetries = 1
  PacketRetries = 2
  MaxTime = 3
SPECIFICATION FairSpec
INVARIANTS TypeOK NothingAbandoned TimeUsedOnce MeterReleased
PROPERTIES FinishReturns IsEnergyMonitor
