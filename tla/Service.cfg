\* The bridge: one retry, two faults, two events, one unhide.  The limiter: two
\* callers, a window of two outcomes, five units of time.  The program ends.
CONSTANTS
  Parts = {"limiter", "bridge"}
  MaxReconnects = 1
  HandlerMayRaise = FALSE
  MaxFaults = 2
  MaxEvents = 2
  MaxQueue = 2
  MaxRestarts = 1
  Callers = {c1, c2}
  c1 = c1
  c2 = c2
  Burst = 2
  RetryAfter = 1
  Factor = 2
  MaxBackoff = 2
  Window = 2
  MinHistory = 2
  FloorGain = 1
  FloorCap = 3
  MaxRetries = 2
  OuterDelay = 2
  MaxTime = 5
  MaxRequests = 4
  MaxOutOfBand = 1
SPECIFICATION Spec
INVARIANTS TypeOK InOrderOnce  TokensEarned
PROPERTIES MirrorSettles BackoffHonoured
CHECK_DEADLOCK FALSE
