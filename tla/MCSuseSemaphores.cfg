SPECIFICATION FairSystemSpec
CONSTANTS
  Clients = {c1}
  BACKLOG = 1
  FirstFd = 4
  LastFd = 6
  Semaphores <- SuseConfig
  MaxMultiprog = 1
  Times = {0}
  Pids = {"p"}
  MaxThreads = 0
  MaxReadied = 0
INVARIANTS SemaphoresAsConfigured
CHECK_DEADLOCK FALSE
