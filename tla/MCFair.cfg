CONSTANTS
  t1 = t1  t2 = t2  t3 = t3  q1 = q1  q2 = q2  s1 = s1  s2 = s2  agent = agent
  st = st  go = go
  Agent = {agent}
  Queue = {q1, q2}
  Thread = {t1, t2, t3}
  Semaph = {s1, s2}
  Name = {Shutdown}
  Event = {go}
  State = {st}
  NullEvent = NullEvent
  TermEvent = TermEvent
  BadEvent = BadEvent
  NullState = NullState
  None = None
  Shutdown = Shutdown
  FirstState = st
  AgentOf <- MCAgentOf
  QueueOf <- MCQueueOf
  Priority <- MCPriority
  MaxThreads <- MCMaxThreads
  MaxEvents <- MCMaxEvents
  Methods <- MCMethods
  Dialog <- MCDialog
  InitEvents <- MCInitEvents
  InitValue <- MCInitValue
  Calls <- MCCalls
  OutsideCalls <- MCOutsideCalls
  Choices <- MCChoices
  Raised <- MCRaised
  Messages <- MCMessages
  OutsideMessages <- MCOutsideMessages
  WaitFn = TRUE
  LastStatement = TRUE
  MaxCalls = 1
  MaxValue = 1
  MaxSends = 0
  MaxLocations = 0
  MaxSignals = 0
SPECIFICATION FairSpec
INVARIANTS NoLostSignal
PROPERTIES ActiveRuns
