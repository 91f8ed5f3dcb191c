CONSTANTS
  Word = 16
  MaxBuffer = 8
  Requests <- MCRequests
  FileSizes = {1, 2}
  Strangers = {}
  Garbage = Garbage
  MaxRetries = 3
  IdSpace = 4
  DefaultBlksize = 2
  Milliseconds = 2
  Dword = 8
  Faulty = TRUE
  NoFile = NoFile
  Timely = FALSE
  MaxLosses = 1
  MaxDuplicates = 1
  MaxResends = 1
SPECIFICATION TransferSpec
INVARIANT LockStep
PROPERTY ImplementsFileTransfer
CHECK_DEADLOCK FALSE
