CONSTANTS
  Word = 16
  MaxBuffer = 8
  Requests <- MCRequests
  FileSizes = {0, 1, 2, 3}
  Strangers = {}
  Garbage = Garbage
  MaxRetries = 3
  IdSpace = 4
  DefaultBlksize = 2
  Milliseconds = 2
  Dword = 8
  Faulty = FALSE
  NoFile = NoFile
  Timely = TRUE
  MaxLosses = 4
  MaxDuplicates = 0
  MaxResends = 0
SPECIFICATION TransferFairSpec
INVARIANT TransferTypeOK
INVARIANT FailsOnlyByLoss
PROPERTY Completes
CHECK_DEADLOCK FALSE
