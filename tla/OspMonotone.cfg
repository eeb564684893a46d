CONSTANTS
  WattHourMax = 2
  Retries = 1
  StatusRetries = 2
  QueueSize = 2
  MaxEnergy = 4
  MaxSurplus = 4
SPECIFICATION Spec
PROPERTY ReadingIsMonotone
