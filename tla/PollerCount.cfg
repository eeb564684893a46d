SPECIFICATION Spec
CONSTANTS
  MaxCount = 2
  MaxReads = 4
  Word = 8
INVARIANT StopsAfterCount
