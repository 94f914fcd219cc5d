CONSTANTS
  t1 = t1  t2 = t2  hi = hi  q1 = q1  q2 = q2  q3 = q3  s1 = s1  go = go
  st = st  low = low  high = high
  Agent = {low, high}
  Queue = {q1, q2, q3}
  Thread = {t1, t2, hi}
  Semaph = {s1}
  Name = {Shutdown}
  Event = {go}
  State = {st}
  NullEvent = NullEvent
  TermEvent = TermEvent
  BadEvent = BadEvent
  NullState = NullState
  None = None
  Shutdown = Shutdown
  FirstState = st
  AgentOf <- MCAgentOf
  QueueOf <- MCQueueOf
  Priority <- MCPriority
  MaxThreads <- MCMaxThreads
  MaxEvents <- MCMaxEvents
  Methods <- MCMethods
  Dialog <- MCDialog
  InitEvents <- MCInitEvents
  InitValue <- MCInitValue
  Calls <- MCCalls
  OutsideCalls <- MCOutsideCalls
  Choices <- MCChoices
  Raised <- MCRaised
  Messages <- MCMessages
  OutsideMessages <- MCOutsideMessages
  WaitFn = TRUE
  LastStatement = TRUE
  MaxCalls = 1
  MaxValue = 2
  MaxSends = 0
  MaxLocations = 0
  MaxSignals = 0
SPECIFICATION Spec
INVARIANTS ListsAgree ActiveSorted
PROPERTIES TopPriorityRuns DeadForGood SemaphoresAreFifo
