CONSTANTS
  r1 = r1
  r2 = r2
  d1 = d1
  d2 = d2
  NoRow = NoRow
  Rows <- TwoRows
  Sweeps <- TwoSweeps
  Batch = 2
  MaxAttempts = 2
  MaxAborts = 1
SPECIFICATION FairSpec
CHECK_DEADLOCK FALSE
INVARIANTS SingleOwner ProcessedWasTold NotifiedOnce
PROPERTIES SettledRowsStay RowsSettle
