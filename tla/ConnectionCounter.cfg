\* Three bits for an int, so that the count of characters turns over several times.
SPECIFICATION Spec
CONSTANTS
  IntMax = 3
  Lengths = {0, 1, 3}
  MaxConnections = 3
  MaxReceived = 18
INVARIANTS TypeOK SnapshotsInOrder PrintedAddsUp ReceivedUpToTurns
PROPERTY PeakIsReached
