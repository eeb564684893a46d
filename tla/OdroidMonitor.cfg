CONSTANTS
  N = 2
  Lo = 1
  Hi = 3
  MaxInterval = 2
  MaxPasses = 3
SPECIFICATION FairSpec
INVARIANTS TypeOK ThreadConfined AllOrNothing EnergyEnvelope
PROPERTIES FinishReturns IsEnergyMonitor
