CONSTANTS
  Word = 16
  MaxBuffer = 8
  Requests <- MCRequests
  FileSizes = {0, 2, 3, 5}
  Strangers = {s1}
  Garbage = Garbage
  MaxRetries = 3
  IdSpace = 4
  DefaultBlksize = 2
  Milliseconds = 2
  Dword = 8
  Faulty = TRUE
SPECIFICATION RetriesFairSpec
INVARIANT TypeOK
INVARIANT ReaderInFile
INVARIANT FinishedMeansWholeFile
INVARIANT RetryBudget
PROPERTY EndsUnlessUnbounded
PROPERTY StopIsHeeded
\* an exited thread does nothing more
CHECK_DEADLOCK FALSE
