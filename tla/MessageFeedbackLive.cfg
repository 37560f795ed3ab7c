CONSTANTS
  teacher = teacher
  student = student
  m1 = m1
  m2 = m2
  m3 = m3
  Conn = {teacher, student}
  MonitorPeriod = 1
  QueueBound = 1
  Msg = {m2, m3}
  Registration <- StudentRegisters
  ReceiversOf <- OneReceiverOfTwo
  Foreign = {}
  TimeoutSeconds = 2
  FeedbackDelay = 3
SPECIFICATION FairSpec
INVARIANTS TypeOK NoticeAtMostOnce
PROPERTIES EveryMessageSettles QueuedFeedbackRecorded
