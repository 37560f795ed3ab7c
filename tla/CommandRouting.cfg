\* Two teachers of two codes, with a student each.
SPECIFICATION CommandSpec
CONSTANTS
  Teachers = {t1, t2}
  Students = {s1, s2}
  Codes = {k1, k2}
  Code1 = k1
  Code2 = k2
  OtherCode = {t2, s2}
  CodeOf <- MCCodeOf
  Workers = {w1}
  FullSizes = {0, 1}
  MaxCommands = 1
  None = None
SYMMETRY MCSymmetry
INVARIANT CommandTypeOK
PROPERTIES HubContractKept ClassIsReached StatusReachesTeacher ToldAreServed
\* Every connection id is used up and every connection closed: the model stops.
CHECK_DEADLOCK FALSE
