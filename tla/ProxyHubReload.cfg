\* A teacher page that is loaded three times, served by two threads.
SPECIFICATION OneTeacherPage
CONSTANTS
  Teachers = {t1, t2, t3}
  Students = {s1}
  Codes = {k1}
  Code1 = k1
  Code2 = k1
  OtherCode = {}
  CodeOf <- MCCodeOf
  Workers = {w1, w2}
  FullSizes = {0}
  None = None
PROPERTY RefusedOnlyIfTeacherOffline
\* Every connection id is used up and every connection closed: the model stops.
CHECK_DEADLOCK FALSE
