SPECIFICATION LogSpec
CONSTANTS
  MaxFiles = 3
  MaxBytes = 3
  Lines <- MCLines
  MaxRecords = 9
INVARIANTS InOrder OldestLost SizeBounded
