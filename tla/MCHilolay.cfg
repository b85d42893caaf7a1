SPECIFICATION AlarmSpec
CONSTANTS
  MAX_ULTS = 4
  QUANTUM = 2
  MaxId = 4
  MaxTime = 2
INVARIANTS TypeOK QueueIntact OneRunning NeverAborts BurstsAccounted
PROPERTIES ImplementsRoundRobin TurnComes ExitReached
