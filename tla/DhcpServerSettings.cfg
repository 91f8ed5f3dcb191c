CONSTANTS
  Config <- MCConfig
  Unspecified = "0.0.0.0"
  Packets <- MCPackets
  Receiver = Receiver
  None = None
  SendsFail = FALSE
  MaxLength = 2
  MaxPackets = 1
SPECIFICATION DhcpSpec
\* the program ends
CHECK_DEADLOCK FALSE
INVARIANT SettingsApply
