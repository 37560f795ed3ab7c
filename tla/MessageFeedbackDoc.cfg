CONSTANTS
  teacher = teacher
  student = student
  m1 = m1
  m2 = m2
  m3 = m3
  Conn = {teacher, student}
  MonitorPeriod = 1
  QueueBound = 1
  Msg = {m1, m2, m3}
  Registration <- BothRegister
  ReceiversOf <- OneReceiver
  Foreign = {}
  TimeoutSeconds = 3
  FeedbackDelay = 5
SPECIFICATION SpecWithHistory
INVARIANT TimeoutOnlyIfUnanswered
