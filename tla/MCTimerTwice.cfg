SPECIFICATION TSpec
CONSTANTS
  r1 = r1  r2 = r2  r3 = r3  None = None  ListHead = ListHead
  b1 = b1  b2 = b2  b3 = b3  b4 = b4
  t1 = t1  q1 = q1  q2 = q2  x = x  y = y
  Thread = {t1}
  rank <- TheRank
  Special = {}
  Interval = {1}
  MAX_POLLFNS = 3
  ExecTypes = {"full"}
  Calls <- ClientCalls
  Fn = {r1, r2}
  Block = {b1, b2, b3}
  Prio = {4}
  Delay = {1}
  Never = 99
  MaxClock = 4
  MaxCalls = 1
  Client = {q1}
  Tag = {x, y}
  Cycles = {1}
  Blocking = {"timer"}
  MaxSleep = 48
INVARIANTS AnsweredOnce
SYMMETRY Symmetric
CHECK_DEADLOCK FALSE
