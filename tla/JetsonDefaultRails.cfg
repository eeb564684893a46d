SPECIFICATION FairSpec
CONSTANTS
  N = 2
  Lo = 1
  Hi = 2
  MaxInterval = 2
  MaxPasses = 2
  Boards = {{"VDD_IN", "VDD_MUX"}, {"VDD_IN"}, {"POM_5V_IN"}}
  OSP3_INTERVAL_MS_DEFAULT = 10
  Timestamps = {0, 5, 60, 2000}
  Word = 65536
INVARIANT RailsOpen
