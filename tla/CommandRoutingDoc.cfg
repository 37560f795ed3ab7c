\* A teacher and a student of one class.
SPECIFICATION CommandSpec
CONSTANTS
  Teachers = {t1}
  Students = {s1}
  Codes = {k1}
  Code1 = k1
  Code2 = k1
  OtherCode = {}
  CodeOf <- MCCodeOf
  Workers = {w1}
  FullSizes = {0}
  MaxCommands = 1
  None = None
INVARIANT CommandsAreRecorded
\* Every connection id is used up and every connection closed: the model stops.
CHECK_DEADLOCK FALSE
