CONSTANTS
  t1 = t1  t2 = t2  q1 = q1  q2 = q2  agent = agent  st = st  go = go
  call = call  odd = odd  Data = Data
  Agent = {agent}
  Queue = {q1, q2}
  Thread = {t1, t2}
  Semaph = {}
  Name = {Data, Shutdown}
  Event = {go, call, odd}
  State = {st}
  NullEvent = NullEvent
  TermEvent = TermEvent
  BadEvent = BadEvent
  NullState = NullState
  None = None
  Shutdown = Shutdown
  FirstState = st
  AgentOf <- MCAgentOf
  QueueOf <- MCQueueOf
  Priority <- MCPriority
  MaxThreads <- MCMaxThreads
  MaxEvents <- MCMaxEvents
  Methods <- MCMethods
  Dialog <- MCDialog
  InitEvents <- MCInitEvents
  InitValue <- MCInitValue
  Calls <- MCCalls
  OutsideCalls <- MCOutsideCalls
  Choices <- MCChoices
  Raised <- MCRaised
  Messages <- MCMessages
  OutsideMessages <- MCOutsideMessages
  WaitFn = TRUE
  LastStatement = TRUE
  MaxCalls = 1
  MaxValue = 0
  MaxSends = 1
  MaxLocations = 2
  MaxSignals = 0
SPECIFICATION Spec
INVARIANTS FlagsBelongToModule LocationsResumable
