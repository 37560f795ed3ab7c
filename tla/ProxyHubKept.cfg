\* Two students that register with one teacher at the same time.
SPECIFICATION Spec
CONSTANTS
  Teachers = {t1}
  Students = {s1, s2}
  Codes = {k1}
  Code1 = k1
  Code2 = k1
  OtherCode = {}
  CodeOf <- MCCodeOf
  Workers = {w1}
  FullSizes = {0}
  None = None
SYMMETRY Symmetry
INVARIANT AddedStudentIsKept
\* Every connection id is used up and every connection closed: the model stops.
CHECK_DEADLOCK FALSE
