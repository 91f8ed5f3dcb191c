CONSTANTS
  Items = {e1, e2}
  Producers = {p1, p2, p3}
  MaxLength = 3
SPECIFICATION FairSpec
INVARIANT TypeOK
INVARIANT NoLostWakeup
PROPERTY StopEndsSleeper
PROPERTY ImplementsEventQueue
\* once stopped, with the queue at its bound, nobody has anything left to do
CHECK_DEADLOCK FALSE
