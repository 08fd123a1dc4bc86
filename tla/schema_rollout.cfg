SPECIFICATION FairSpec
CONSTANTS
  NaN = NaN
  TimeOf <- MCTimeOf
  Files <- MCFiles
  Contents <- MCContents
  Literals <- MCLiterals
  InitialTables <- MCInitialTables
  NoTable = NoTable
  LargestDim = 2
  NotRunning = NotRunning
  MaxChanges = 3
INVARIANTS TypeOK CompatibleKeepsAnswers AcceptedFiltersAreDecided LookupFindsWhatMatches
PROPERTIES ServesOnceTablesFit
