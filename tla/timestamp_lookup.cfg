SPECIFICATION Spec
CONSTANTS
  NaN = NaN
  TimeOf <- MCTimeOf
  Files <- TimestampFiles
  Contents <- MCContents
  Literals <- MCLiterals
  InitialTables <- MCInitialTables
  NoTable = NoTable
  LargestDim = 2
  NotRunning = NotRunning
  MaxChanges = 3
INVARIANTS StringsNameTimestamps
