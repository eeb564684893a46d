CONSTANTS
  N = 2
  Range = 2
  MaxGap = 2
  MaxOverflows = 2
SPECIFICATION Spec
INVARIANTS TypeOK AllOrNothing NothingLost NeverAhead
PROPERTIES ReadingNeverDecreases
