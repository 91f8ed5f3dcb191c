CONSTANTS
  Word = 16
  MaxBuffer = 5
  Files <- MCFiles
  BlockSizes = {1, 2, 3, 5}
  Zero = "NUL"
SPECIFICATION FileSpec
INVARIANT FileTypeOK
INVARIANT DeliveredIsFile
INVARIANT DeliveredIsAnnounced
PROPERTY FailureLosesRest
\* after the last block there is nothing to read
CHECK_DEADLOCK FALSE
