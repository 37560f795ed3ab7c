-------------------------- MODULE MessageFeedback --------------------------
(***************************************************************************)
(* Acknowledged messages of SignalRServer: MessageHistory (the records),   *)
(* ProxyHub.Feedback (a client acknowledges a message) and                 *)
(* FeedbackMonitorService (the loop that tells the sender of a message     *)
(* that its acknowledgement is overdue).                                   *)
(*                                                                         *)
(* Threads of control.  Every connection has a dispatcher that runs the    *)
(* hub invocations of that connection one after another; the monitor is    *)
(* one background task; the clients answer what they receive.  Nothing is  *)
(* locked: each step below is a stretch of code between two points where   *)
(* another thread's write can be observed.                                 *)
(*                                                                         *)
(* Time is counted in seconds.  A record keeps the age of the message      *)
(* (now - SendTime) instead of SendTime itself, and stops counting one     *)
(* second after the timeout: the code only ever compares the age with the  *)
(* timeout.  A sleeping thread counts down the seconds it still sleeps.    *)
(***************************************************************************)
EXTENDS Naturals, Sequences, FiniteSets

CONSTANTS
  Conn,            \* the connections (SignalR connection ids)
  Msg,             \* the messages (MessageSummary.Id, a fresh Guid each)
  Registration,    \* Registration[c]: the messages the registration of c sends, in order
  ReceiversOf,     \* ReceiversOf[m]: the connections in MessageSummary.Receivers
  Foreign,         \* pairs <<c, m>>: c may also send Feedback for m unasked
  TimeoutSeconds,  \* FeedbackMonitorService: 3
  FeedbackDelay,   \* ProxyHub.Feedback: Thread.Sleep(5000)
  MonitorPeriod,   \* FeedbackMonitorService: Thread.Sleep(1000)
  QueueBound       \* bound: queued invocations beyond which no foreign one is sent

ASSUME RegistrationAssumption == Registration \in [Conn -> Seq(Msg)]

\* A message is saved once, by one connection (its Sender).
ASSUME SenderAssumption ==
  \A c, d \in Conn : \A i \in DOMAIN Registration[c], j \in DOMAIN Registration[d] :
     Registration[c][i] = Registration[d][j] => c = d /\ i = j

ASSUME ReceiversAssumption == Msg # {} /\ ReceiversOf \in [Msg -> (SUBSET Conn) \ {{}}]

ASSUME ForeignAssumption == Foreign \subseteq Conn \X Msg

ASSUME TimesAssumption ==
  /\ TimeoutSeconds \in Nat /\ FeedbackDelay \in Nat /\ MonitorPeriod \in Nat
  /\ QueueBound \in Nat

VARIABLES
  open,           \* the connections that are open
  saved,          \* saved[c]: how many messages of its registration c has saved
  pc,             \* pc[c]: what the dispatcher of c does
  current,        \* current[c]: the message the invocation of c is about
  sleep,          \* sleep[c]: seconds the Feedback invocation of c still sleeps
  queue,          \* queue[c]: Feedback invocations of c not yet dispatched
  inbox,          \* inbox[c]: messages sent to c that c has not handled yet
  messageRecords, \* MessageHistory.MessageRecords
  age,            \* age[m]: seconds since MessageSummary.SendTime
  receiverState,  \* receiverState[m]: the receivers with MessageReceiver.State
  feedbackState,  \* the messages with MessageSummary.FeedbackState
  feedbackAge,    \* feedbackAge[m]: age at MessageSummary.FeedbackTime
  noticeState,    \* the messages with MessageSummary.NoticeState
  mpc,            \* what the monitor does
  unseen,         \* records that the query of the monitor has not come to yet
  timeoutRecords, \* timeoutMsgRecords of the monitor, those not worked off yet
  messageSummary, \* the record the monitor is about, in the query and in the loop
  monitorSleep,   \* seconds the monitor still sleeps
  notices,        \* notices[m]: Timeout notices sent for m (to its sender)
  overtaken       \* history: messages acknowledged while the query was about them

hubVars     == <<saved, pc, current, sleep>>
clientVars  == <<open, queue, inbox>>
historyVars == <<messageRecords, receiverState, feedbackState, feedbackAge>>
monitorVars == <<noticeState, mpc, unseen, timeoutRecords, messageSummary, monitorSleep, notices>>
vars == <<hubVars, clientVars, historyVars, monitorVars, age, overtaken>>

(***************************************************************************)
(* Records.                                                                *)
(***************************************************************************)
AgeBound == TimeoutSeconds + 1

\* The age of a message whose feedback has not been recorded yet.
NoAge == AgeBound + 1

\* (mutant) The comparison is not strict.
IsOverdueAtLimit(m) == age[m] >= TimeoutSeconds

\* SendTime.AddSeconds(3) < Now.
IsOverdue(m) == age[m] > TimeoutSeconds

\* (mutant) Messages that were reported already are listed again.
UnsettledAgain(m) == m \notin feedbackState

\* (mutant) Messages that are acknowledged are listed as well.
UnsettledAnswered(m) == m \notin noticeState

\* (mutant) Messages that none of the receivers acknowledged are passed over.
UnsettledHalf(m) == m \notin feedbackState /\ m \notin noticeState /\ receiverState[m] # {}

\* The flags that the query of the monitor looks at.
Unsettled(m) == m \notin feedbackState /\ m \notin noticeState

\* (mutant) The sleep is not bounded below.
CountdownPastZero(n) == n - 1

\* The seconds left of a sleep, one second later.
Countdown(n) == IF n > 0 THEN n - 1 ELSE 0

Init ==
  /\ open = Conn
  /\ saved = [c \in Conn |-> 0]
  /\ pc = [c \in Conn |-> "idle"]
  /\ current = [c \in Conn |-> CHOOSE m \in Msg : TRUE]
  /\ sleep = [c \in Conn |-> 0]
  /\ queue = [c \in Conn |-> << >>]
  /\ inbox = [c \in Conn |-> {}]
  /\ messageRecords = {}
  /\ age = [m \in Msg |-> 0]
  /\ receiverState = [m \in Msg |-> {}]
  /\ feedbackState = {}
  /\ feedbackAge = [m \in Msg |-> NoAge]
  /\ noticeState = {}
  /\ mpc = "scan"
  /\ unseen = {}
  /\ timeoutRecords = {}
  /\ messageSummary = CHOOSE m \in Msg : TRUE
  /\ monitorSleep = 0
  /\ notices = [m \in Msg |-> 0]
  /\ overtaken = {}

(***************************************************************************)
(* RegisterTeacher and RegisterStudent, as far as they use the history:    *)
(* each message is saved, then sent, one after the other.  Saving creates  *)
(* the MessageSummary, whose constructor reads the clock and clears the    *)
(* flags.                                                                  *)
(***************************************************************************)
SaveMessage(c) ==
  /\ \/ pc[c] = "idle" /\ saved[c] = 0 /\ c \in open
     \/ pc[c] = "save"
  /\ saved[c] < Len(Registration[c])
  /\ LET m == Registration[c][saved[c] + 1] IN
       /\ messageRecords' = messageRecords \cup {m}
       /\ age' = [age EXCEPT ![m] = 0]
       /\ current' = [current EXCEPT ![c] = m]
  /\ saved' = [saved EXCEPT ![c] = @ + 1]
  /\ pc' = [pc EXCEPT ![c] = "send"]
  /\ UNCHANGED <<sleep, clientVars, receiverState, feedbackState, feedbackAge,
                 monitorVars, overtaken>>

\* Clients.Client(id).X(...) reaches a connection that is open, and is dropped
\* without an error otherwise.
SendMessage(c) ==
  /\ pc[c] = "send"
  /\ inbox' = [d \in Conn |-> IF d \in open /\ d \in ReceiversOf[current[c]]
                                THEN inbox[d] \cup {current[c]} ELSE inbox[d]]
  /\ pc' = [pc EXCEPT ![c] = IF saved[c] < Len(Registration[c]) THEN "save" ELSE "idle"]
  /\ UNCHANGED <<saved, current, sleep, open, queue, historyVars, monitorVars, age, overtaken>>

(***************************************************************************)
(* The client: the handlers of RegisterSuccess and ReceiveMessage answer   *)
(* with Feedback(messageId) at once.  The hub method is public, so a       *)
(* client may also name a message that was never addressed to it.          *)
(***************************************************************************)
Enqueue(c, m) ==
  /\ c \in open
  /\ queue' = [queue EXCEPT ![c] = Append(@, m)]

ClientFeedback(c, m) ==
  /\ m \in inbox[c]
  /\ inbox' = [inbox EXCEPT ![c] = @ \ {m}]
  /\ Enqueue(c, m)
  /\ UNCHANGED <<open, hubVars, historyVars, monitorVars, age, overtaken>>

ForeignFeedback(c, m) ==
  /\ <<c, m>> \in Foreign
  /\ Len(queue[c]) < QueueBound
  /\ Enqueue(c, m)
  /\ UNCHANGED <<open, inbox, hubVars, historyVars, monitorVars, age, overtaken>>

\* The connection ends: what was sent to it is lost, and of the invocations it
\* sent the server still runs those it has already read.
Disconnect(c) ==
  /\ c \in open
  /\ open' = open \ {c}
  /\ inbox' = [inbox EXCEPT ![c] = {}]
  /\ \E n \in 0..Len(queue[c]) : queue' = [queue EXCEPT ![c] = SubSeq(@, 1, n)]
  /\ UNCHANGED <<hubVars, historyVars, monitorVars, age, overtaken>>

(***************************************************************************)
(* ProxyHub.Feedback: the invocation sleeps first, then updates the record *)
(* in a task of the thread pool.                                           *)
(***************************************************************************)
FeedbackStart(c) ==
  /\ pc[c] = "idle" /\ queue[c] # << >>
  /\ current' = [current EXCEPT ![c] = Head(queue[c])]
  /\ queue' = [queue EXCEPT ![c] = Tail(@)]
  /\ sleep' = [sleep EXCEPT ![c] = FeedbackDelay]
  /\ pc' = [pc EXCEPT ![c] = "sleep"]
  /\ UNCHANGED <<saved, open, inbox, historyVars, monitorVars, age, overtaken>>

\* The message and the receiver are found: receiver.State = true.
FeedbackMark(c) ==
  /\ pc[c] = "sleep" /\ sleep[c] = 0
  /\ current[c] \in messageRecords /\ c \in ReceiversOf[current[c]]
  /\ receiverState' = [receiverState EXCEPT ![current[c]] = @ \cup {c}]
  /\ pc' = [pc EXCEPT ![c] = "check"]
  /\ UNCHANGED <<saved, current, sleep, clientVars, messageRecords, feedbackState,
                 feedbackAge, monitorVars, age, overtaken>>

\* (mutant) A message that was reported is no longer found.
FeedbackFailReported(c) ==
  /\ pc[c] = "sleep" /\ sleep[c] = 0
  /\ \/ current[c] \notin messageRecords \ noticeState
     \/ c \notin ReceiversOf[current[c]]
  /\ pc' = [pc EXCEPT ![c] = "idle"]
  /\ UNCHANGED <<saved, current, sleep, clientVars, historyVars, monitorVars, age, overtaken>>

\* No such message, or no such receiver: the exception ends the invocation.
FeedbackFail(c) ==
  /\ pc[c] = "sleep" /\ sleep[c] = 0
  /\ \/ current[c] \notin messageRecords
     \/ c \notin ReceiversOf[current[c]]
  /\ pc' = [pc EXCEPT ![c] = "idle"]
  /\ UNCHANGED <<saved, current, sleep, clientVars, historyVars, monitorVars, age, overtaken>>

\* Receivers whose State was written by an invocation that has not ended: no
\* fence separates that write from the read of another invocation.
Unpublished(c, m) ==
  {r \in receiverState[m] \ {c} : pc[r] = "check" /\ current[r] = m}

\* (mutant) One acknowledgement is enough.
NoFeedbackAtAll(m, seen) == \A r \in ReceiversOf[m] : r \notin seen

\* noFeedback = Receivers.Any(p => p.State != true), seen being the receivers
\* whose State is read as true.
NoFeedback(m, seen) == \E r \in ReceiversOf[m] : r \notin seen

\* The message counts as acknowledged if no receiver is missing; its
\* FeedbackTime is set in any case.
FeedbackCheck(c) ==
  /\ pc[c] = "check"
  /\ \E stale \in SUBSET Unpublished(c, current[c]) :
       feedbackState' = IF NoFeedback(current[c], receiverState[current[c]] \ stale)
                          THEN feedbackState ELSE feedbackState \cup {current[c]}
  /\ feedbackAge' = [feedbackAge EXCEPT ![current[c]] = age[current[c]]]
  /\ overtaken' = overtaken \cup
       (IF mpc = "clock" THEN {messageSummary} \cap (feedbackState' \ feedbackState) ELSE {})
  /\ pc' = [pc EXCEPT ![c] = "idle"]
  /\ UNCHANGED <<saved, current, sleep, clientVars, messageRecords, receiverState,
                 monitorVars, age>>

(***************************************************************************)
(* FeedbackMonitorService: the query takes one record after the other out  *)
(* of a snapshot of the bag, reads its flags and then the clock, and lists *)
(* it.  The list is worked off after that, with an await in each round,    *)
(* and the flags are not read again.                                       *)
(***************************************************************************)
MonitorScan ==
  /\ mpc = "scan"
  /\ unseen' = messageRecords
  /\ mpc' = "query"
  /\ UNCHANGED <<hubVars, clientVars, historyVars, noticeState, timeoutRecords, messageSummary,
                 monitorSleep, notices, age, overtaken>>

\* The flags of a record are read: if one is set, the query is done with it.
ReadFlags(m) ==
  /\ mpc = "query" /\ m \in unseen
  /\ unseen' = unseen \ {m}
  /\ IF Unsettled(m) THEN mpc' = "clock" /\ messageSummary' = m
                     ELSE UNCHANGED <<mpc, messageSummary>>
  /\ UNCHANGED <<hubVars, clientVars, historyVars, noticeState, timeoutRecords,
                 monitorSleep, notices, age, overtaken>>

\* Only then DateTimeOffset.Now.
ReadClock ==
  /\ mpc = "clock"
  /\ timeoutRecords' = IF IsOverdue(messageSummary) THEN timeoutRecords \cup {messageSummary}
                                                   ELSE timeoutRecords
  /\ mpc' = "query"
  /\ UNCHANGED <<hubVars, clientVars, historyVars, noticeState, unseen, messageSummary,
                 monitorSleep, notices, age, overtaken>>

\* ToList returns.
ScanEnds ==
  /\ mpc = "query" /\ unseen = {}
  /\ mpc' = "foreach"
  /\ UNCHANGED <<hubVars, clientVars, historyVars, noticeState, unseen, timeoutRecords,
                 messageSummary, monitorSleep, notices, age, overtaken>>

\* SendTimeout: the Timeout call to the connection of the sender, awaited.
SendTimeout(m) ==
  /\ mpc = "foreach" /\ m \in timeoutRecords
  /\ notices' = [notices EXCEPT ![m] = @ + 1]
  /\ messageSummary' = m
  /\ mpc' = "await"
  /\ UNCHANGED <<hubVars, clientVars, historyVars, noticeState, unseen, timeoutRecords,
                 monitorSleep, age, overtaken>>

\* The await is over: messageSummary.NoticeState = true, on to the next one.
MarkNoticed ==
  /\ mpc = "await"
  /\ noticeState' = noticeState \cup {messageSummary}
  /\ timeoutRecords' = timeoutRecords \ {messageSummary}
  /\ mpc' = "foreach"
  /\ UNCHANGED <<hubVars, clientVars, historyVars, unseen, messageSummary, monitorSleep, notices,
                 age, overtaken>>

\* The list is worked off: Thread.Sleep(1000).
MonitorSleep ==
  /\ mpc = "foreach" /\ timeoutRecords = {}
  /\ monitorSleep' = MonitorPeriod
  /\ mpc' = "sleep"
  /\ UNCHANGED <<hubVars, clientVars, historyVars, noticeState, unseen, timeoutRecords,
                 messageSummary, notices, age, overtaken>>

MonitorWake ==
  /\ mpc = "sleep" /\ monitorSleep = 0
  /\ mpc' = "scan"
  /\ UNCHANGED <<hubVars, clientVars, historyVars, noticeState, unseen, timeoutRecords,
                 messageSummary, monitorSleep, notices, age, overtaken>>

\* One second passes.
Tick ==
  /\ age' = [m \in Msg |-> IF m \in messageRecords /\ age[m] < AgeBound
                             THEN age[m] + 1 ELSE age[m]]
  /\ sleep' = [c \in Conn |-> Countdown(sleep[c])]
  /\ monitorSleep' = Countdown(monitorSleep)
  /\ UNCHANGED <<saved, pc, current, clientVars, historyVars, noticeState, mpc, unseen,
                 timeoutRecords, messageSummary, notices, overtaken>>

Monitor ==
  \/ MonitorScan \/ ReadClock \/ ScanEnds \/ MarkNoticed \/ MonitorSleep \/ MonitorWake
  \/ \E m \in Msg : ReadFlags(m) \/ SendTimeout(m)

Feedback(c) ==
  FeedbackStart(c) \/ FeedbackMark(c) \/ FeedbackFail(c) \/ FeedbackCheck(c)

Client(c) ==
  \/ Disconnect(c)
  \/ \E m \in Msg : ClientFeedback(c, m) \/ ForeignFeedback(c, m)

Next ==
  \/ Tick
  \/ Monitor
  \/ \E c \in Conn : SaveMessage(c) \/ SendMessage(c) \/ Feedback(c) \/ Client(c)

(***************************************************************************)
(* Time passes, the monitor is a thread that never ends, and the server    *)
(* runs the invocations it has begun and those it has read.  Nothing makes *)
(* a client register, answer or leave.                                     *)
(***************************************************************************)
Fairness ==
  /\ WF_vars(Tick)
  /\ WF_vars(Monitor)
  /\ \A c \in Conn : WF_vars(Feedback(c) \/ SendMessage(c) \/ (pc[c] = "save" /\ SaveMessage(c)))

Spec == Init /\ [][Next]_vars

FairSpec == Spec /\ Fairness

(***************************************************************************)
(* Properties.                                                             *)
(***************************************************************************)

HubTypeOK ==
  /\ saved \in [Conn -> Nat]
  /\ \A c \in Conn : saved[c] <= Len(Registration[c])
  /\ pc \in [Conn -> {"idle", "save", "send", "sleep", "check"}]
  /\ current \in [Conn -> Msg]
  /\ sleep \in [Conn -> 0..FeedbackDelay]

ClientTypeOK ==
  /\ open \subseteq Conn
  /\ queue \in [Conn -> Seq(Msg)]
  /\ inbox \in [Conn -> SUBSET Msg]
  /\ overtaken \subseteq Msg

HistoryTypeOK ==
  /\ messageRecords \subseteq Msg
  /\ age \in [Msg -> 0..AgeBound]
  /\ receiverState \in [Msg -> SUBSET Conn]
  /\ feedbackState \subseteq Msg
  /\ feedbackAge \in [Msg -> 0..NoAge]

MonitorTypeOK ==
  /\ noticeState \subseteq Msg
  /\ mpc \in {"scan", "query", "clock", "foreach", "await", "sleep"}
  /\ unseen \subseteq Msg
  /\ timeoutRecords \subseteq Msg
  /\ messageSummary \in Msg
  /\ monitorSleep \in 0..MonitorPeriod
  /\ notices \in [Msg -> Nat]

\* The type invariant: every variable has its type.
TypeOK == HubTypeOK /\ ClientTypeOK /\ HistoryTypeOK /\ MonitorTypeOK

\* The sender of a message gets at most one Timeout notice for it, however the
\* passes of the monitor and the late answers interleave.
NoticeAtMostOnce == \A m \in Msg : notices[m] <= 1

\* A message that counts as acknowledged has been acknowledged by every one of
\* its receivers.
FeedbackFromAll == \A m \in feedbackState : ReceiversOf[m] \subseteq receiverState[m]

\* A message whose acknowledgement was recorded within the timeout is reported only
\* if that came between two reads of the query, of the flag of this very message and
\* of the clock; any other acknowledgement in time, however close, prevents the
\* report, although the list is worked off long after it was made.
ReportedInTimeOnlyIfOvertaken ==
  \A m \in feedbackState : notices[m] > 0 => feedbackAge[m] > TimeoutSeconds \/ m \in overtaken

\* Every message that is saved is eventually acknowledged or reported.
EveryMessageSettles ==
  \A m \in Msg :
    (m \in messageRecords) ~> (m \in feedbackState \/ m \in noticeState)

\* An acknowledgement that the server has queued for an open connection is
\* recorded eventually, unless the connection ends first.
QueuedFeedbackRecorded ==
  \A c \in Conn : \A m \in Msg :
    (c \in ReceiversOf[m] /\ \E i \in DOMAIN queue[c] : queue[c][i] = m)
      ~> (c \in receiverState[m] \/ c \notin open)

(***************************************************************************)
(* The contract, seen from the records: a message is doubted from the read *)
(* of its flags to that of the clock, and condemned once it is listed.     *)
(***************************************************************************)
Noticed == {m \in Msg : notices[m] > 0}

Contract == INSTANCE FeedbackContract WITH
  sent      <- messageRecords,
  expired   <- {m \in messageRecords : IsOverdue(m)},
  answered  <- feedbackState,
  doubted   <- IF mpc = "clock" THEN {messageSummary} ELSE {},
  condemned <- timeoutRecords \cup Noticed,
  noticed   <- Noticed

\* The history, the hub method and the monitor together keep the contract.
ContractSpec == Contract!Spec

=============================================================================
