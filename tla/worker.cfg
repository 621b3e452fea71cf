SPECIFICATION FairWorkerSpec
CONSTANTS
  m1 = m1
  m2 = m2
  m3 = m3
  Messages = {m1, m2, m3}
  ExitMessage = ExitMessage
  TimerMessage = TimerMessage
  MaxCopies = 2
CHECK_DEADLOCK FALSE
INVARIANTS
  WorkerTypeOK
  NoLostWakeup
  InOrder
  TimerEndsFirst
PROPERTIES
  ExitReturns
  ImplementsMailbox
