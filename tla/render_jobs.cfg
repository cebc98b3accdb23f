SPECIFICATION FairSpec
CONSTANTS
  Jobs = {j1, j2}
  None = None
  MaxConcurrent = 1
  Threads = 3
  QueueTime = 1
  GuardTime = 1
  RunTime = 1
  ProvisionTime = 0
  RenderTime = 1
  ReadTime = 0
  IdleTimeout = 2
  MaxFaults = 1
INVARIANTS RenderType SlotsKept MetricsBalance AnsweredRemoved
PROPERTIES NotCut AllAnswered AllRemoved
