CONSTANTS
  cl = cl  s = s  s2 = s2  qc = qc  qs = qs  client = client  server = server
  st = st  go = go  low = low  high = high  ack = ack  Low = Low  High = High
  Odd = Odd  Nop = Nop  Ack = Ack  Nak = Nak
  Agent = {client, server}
  Queue = {qc, qs}
  Thread = {cl, s, s2}
  Semaph = {}
  Name = {Low, High, Odd, Nop, Ack, Nak, Shutdown}
  Event = {go, low, high, ack}
  State = {st}
  NullEvent = NullEvent
  TermEvent = TermEvent
  BadEvent = BadEvent
  NullState = NullState
  None = None
  Shutdown = Shutdown
  FirstState = st
  AgentOf <- MCAgentOf
  QueueOf <- MCQueueOf
  Priority <- MCPriority
  MaxThreads <- MCMaxThreads
  MaxEvents <- MCMaxEvents
  Methods <- MCMethods
  Dialog <- MCDialog
  InitEvents <- MCInitEvents
  InitValue <- MCInitValue
  Calls <- MCCalls
  OutsideCalls <- MCOutsideCalls
  Choices <- MCChoices
  Raised <- MCRaised
  Messages <- MCMessages
  OutsideMessages <- MCOutsideMessages
  WaitFn = TRUE
  LastStatement = TRUE
  MaxCalls = 2
  MaxValue = 0
  MaxSends = 6
  MaxLocations = 0
  MaxSignals = 0
SPECIFICATION HSpec
INVARIANTS TypeOK PassiveMeansEmpty CurEventsCounts PointersValid
PROPERTIES DeliveredInOrder AnsweredOnce AcceptedIsAnswered
