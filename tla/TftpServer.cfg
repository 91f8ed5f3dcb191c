CONSTANTS
  Sessions = {a1, a2}
  Receiver = Receiver
  None = None
  Requests = {"rrq", "rrq_forever", "wrq", "malformed"}
  SendsFail = TRUE
  MaxLength = 2
SPECIFICATION ServerFairSpec
INVARIANT ServerTypeOK
INVARIANT NotificationIsOfListedSession
INVARIANT NotifiedOnce
PROPERTY DoneIsReclaimed
PROPERTY ShutdownEndsOrHangs
PROPERTY ImplementsServerLife
\* the program ends
CHECK_DEADLOCK FALSE
