CONSTANTS
  Throws = Throws
  Nothing = Nothing
  TftpPackets <- MCTftpPackets
  TftpBytes <- MCTftpBytes
  Settings <- MCSettings
  Asked <- MCAsked
  OptionBytes <- MCOptionBytes
  SizeofString = 3
  SizeofStringView = 2
SPECIFICATION WireSpec
INVARIANT RoundTrip
INVARIANT HintIsSize
INVARIANT NormalForm
INVARIANT AskedIsHeard
\* one packet goes each way
CHECK_DEADLOCK FALSE
