\* Two workers with two clients and one; a client is given up, and a connection is
\* lost or a process fails.
SPECIFICATION Spec
CONSTANTS
  NumberOfWorkers = 2
  NumberOfConnections = 3
  LastTry = 0
  OutputBound = 1
  MaxRefused = 1
  MaxLost = 1
  MaxCrashes = 1
  MaxFaults = 1
INVARIANTS TypeOK EveryClientWasConnected NothingLeftBehind ConnectedIsOpen WaitsForWork
PROPERTY RunContractKept
\* A run that is over, or waits for a client that is lost, may stop.
CHECK_DEADLOCK FALSE
