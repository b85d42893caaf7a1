SPECIFICATION FairSystemSpec
CONSTANTS
  Clients = {c1, c2, c3}
  BACKLOG = 2
  FirstFd = 4
  LastFd = 7
  Semaphores <- OneSemaphore
  MaxMultiprog = 4
  Times = {0, 1}
  Pids = {"p"}
  MaxThreads = 4
  MaxReadied = 1
INVARIANTS TableIsOldest AcceptNeverWaits SchedTypeOK OnePlace PassTakesHalf HalfTheDegree
PROPERTY WaiterTaken
CHECK_DEADLOCK FALSE
