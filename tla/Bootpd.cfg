CONSTANTS
  None = None
  Throws = Throws
  Bad = Bad
  Invalid = Invalid
  Word = 16
  Dword = 64
  DhcpPort = 3
  TftpPort = 4
  Empty <- MCEmpty
  CommandLines <- MCCommandLines
  DefaultFile <- MCDefaultFile
  AnyHost = "0.0.0.0"
  AddressKeys = {"v4_your_address"}
  SecondsKeys = {"address_lease_time"}
  Handles = {k1, k2}
SPECIFICATION BootpdFairSpec
INVARIANT BootpdTypeOK
INVARIANT SettingsInEffect
INVARIANT BothServe
INVARIANT SocketsAccounted
INVARIANT EndedServesNothing
PROPERTY ServersLive
PROPERTY EndsOrHangs
\* the program ends
CHECK_DEADLOCK FALSE
