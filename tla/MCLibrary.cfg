SPECIFICATION LSpec
CONSTANTS
  t1 = t1  t2 = t2  t3 = t3
  State <- Three
  maxevent = 3
  NullState <- None
  defaults = 2
  action <- Actions
  nextst <- NextStates
  Thread = {t1, t2, t3}
  Supplied <- Good
  NULL = NULL
  WORD = 3
  QBYTE = 5
  ToSend <- MessagesUsed
  Args <- ArgsOf
  Handle <- HandlesUsed
  Open <- OpenUsed
  Ask <- AskUsed
  MaxRequests = 3
  MaxReady = 2
  Size = 2
  CurSizes = 3
  MAX_POLLING_INTERVAL = 1
  Starts <- StartDates
  Days = 400
  Times <- TimesUsed
  Intervals <- IntervalsUsed
INVARIANTS TablesMeanTheSame MessagesArrive RequestsWatched EndsOnce DatesAgree
INVARIANTS StructuresAgree ClientsServed
PROPERTY AsDeclared
CHECK_DEADLOCK FALSE
