SPECIFICATION FairSpec
CONSTANTS
  Threads <- McThreads
  Priority <- McPriority
  PriorityMax = 5
  Idle = Idle
  Syswatch = Syswatch
  NoThread = NoThread
  Modes = {0, 1, 2}
  ExceptTimeout = 2
  ConfirmTmo = 2
  ResumeDly = 2
  MaxHangs = 2
  MaxNoMem = 1
INVARIANTS TypeOK NoneForgotten
PROPERTIES MoreUrgentSpared LoneHogIsFound HangRunsOut ResumeRunsOut HogIsStopped KilledIsResumed
