CONSTANTS
  MaxRetries = 2
  MaxSessions = 2
  MaxMounts = 3
  MaxMessages = 2
  MaxClicks = 1
\* A window whose pages, messages and clicks are used up may stop.
SPECIFICATION FairSpec
INVARIANTS TypeOK RegisteredOnce AckedByReceiver CommandsServed
PROPERTIES AnsweredIsShown ClosedIsShown PageServedOrTold Settles
CHECK_DEADLOCK FALSE
