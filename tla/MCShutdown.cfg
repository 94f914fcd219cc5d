CONSTANTS
  t1 = t1  t2 = t2  q1 = q1  q2 = q2  worker = worker  st = st  go = go
  work = work  sd = sd  Work = Work  Nop = Nop
  Thread = {t1, t2}
  Agent = {worker}
  Queue = {q1, q2}
  Semaph = {}
  Name = {Work, Shutdown, Nop}
  Event = {go, work, sd}
  State = {st}
  NullEvent = NullEvent
  TermEvent = TermEvent
  BadEvent = BadEvent
  NullState = NullState
  None = None
  Shutdown = Shutdown
  FirstState = st
  AgentOf <- MCAgentOf
  QueueOf <- MCQueueOf
  Priority <- MCPriority
  MaxThreads <- MCMaxThreads
  MaxEvents <- MCMaxEvents
  Methods <- MCMethods
  Dialog <- MCDialog
  InitEvents <- MCInitEvents
  InitValue <- MCInitValue
  Calls <- MCCalls
  OutsideCalls <- MCOutsideCalls
  Choices <- MCChoices
  Raised <- MCRaised
  Messages <- MCMessages
  OutsideMessages <- MCOutsideMessages
  WaitFn = TRUE
  LastStatement = TRUE
  MaxCalls = 1
  MaxValue = 0
  MaxSends = 3
  MaxLocations = 0
  MaxSignals = 2
SPECIFICATION FairSpec
PROPERTIES StopsWhenAsked
