CONSTANTS
  N = 2
  Range = 2
  MaxGap = 2
  MaxOverflows = 2
  MaxSum = 3
  Mega = 10
  MaxScans = 3
SPECIFICATION Spec
PROPERTY NeverAhead
