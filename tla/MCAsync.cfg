SPECIFICATION Spec
CONSTANTS
  f = f  g = g  None = None
  b1 = b1  b2 = b2  ListHead = ListHead
  high = high
  Fn = {f, g}
  Block = {b1, b2}
  Thread = {high}
  rank <- TheRank
  Prio = {2}
  Delay = {0, 1}
  Never = 9
  Special = {9}
  Interval = {0, 1}
  MAX_POLLFNS = 3
  ExecTypes = {"step"}
  Calls <- AnyCalls
  MaxClock = 2
  MaxCalls = 1
INVARIANTS TypeOK OrdersKept SleepsUntilFirst
PROPERTIES CalledInTime NobodySkipped
CHECK_DEADLOCK FALSE
SYMMETRY Symmetric
