\* A start fails and is tried again, and one process fails, the agent's included.
SPECIFICATION FairSpec
CONSTANTS
  NumberOfWorkers = 2
  NumberOfConnections = 2
  LastTry = 1
  OutputBound = 1
  MaxRefused = 1
  MaxLost = 0
  MaxCrashes = 1
  MaxFaults = 1
PROPERTIES RunEnds 
\* A run that is over, or waits for a client that is lost, may stop.
CHECK_DEADLOCK FALSE
