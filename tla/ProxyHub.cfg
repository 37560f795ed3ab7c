\* Two teachers and two students with one code, or one teacher and three students.
SPECIFICATION Spec
CONSTANTS
  Teachers = {t1, t2}
  Students = {s1, s2, s3}
  Codes = {k1}
  Code1 = k1
  Code2 = k1
  OtherCode = {}
  CodeOf <- MCCodeOf
  Workers = {w1, w2}
  FullSizes = {0, 1}
  None = None
CONSTRAINT FourConnections
SYMMETRY Symmetry
INVARIANTS TypeOK LoneAddIsKept OnlineOnlyWhileConnected CurrentCountsRejected ListedNoLaterThanFound
           SentIsAnswerable
\* Every connection id is used up and every connection closed: the model stops.
CHECK_DEADLOCK FALSE
