CONSTANTS
  Config <- MCConfig
  Unspecified = "0.0.0.0"
  Packets <- MCPackets
  Receiver = Receiver
  None = None
  SendsFail = FALSE
  MaxLength = 2
  MaxPackets = 3
SPECIFICATION DhcpFairSpec
INVARIANT DhcpTypeOK
INVARIANT RepliesFollowRequests
PROPERTY EveryRequestIsAnswered
PROPERTY ImplementsServerLife
\* the program ends
CHECK_DEADLOCK FALSE
