----------------------- MODULE MessageFeedback_proofs -----------------------
(***************************************************************************)
(* Safety of MessageFeedback, for every set of connections and messages,   *)
(* every registration and every length of the timeout and of the sleeps.   *)
(***************************************************************************)
EXTENDS MessageFeedback, TLAPS

\* Every record was saved by some registration: the next message of a
\* registration has no record yet.
RecordsInv ==
  \A m \in messageRecords : \E c \in Conn : \E i \in 1..saved[c] : m = Registration[c][i]

\* The query of the monitor, its list, its loop variable and the flags of the
\* records fit together: no record is in the query and in the list, and the only
\* message that was reported and is not flagged is the one whose SendTimeout is
\* being awaited.
MonitorInv ==
  /\ mpc \in {"scan", "sleep"} => timeoutRecords = {}
  /\ timeoutRecords \cap noticeState = {}
  /\ mpc \in {"query", "clock"} => unseen \cap timeoutRecords = {}
  /\ mpc = "clock" => messageSummary \notin unseen \cup timeoutRecords \cup noticeState
  /\ mpc = "await" => messageSummary \in timeoutRecords
  /\ \A m \in Msg : notices[m] = IF m \in noticeState \/ (mpc = "await" /\ m = messageSummary)
                                   THEN 1 ELSE 0

\* What the monitor listed or reported is past its time, and stays so; if it is
\* acknowledged all the same, that came too late or overtook the query.
OverdueInv ==
  /\ \A m \in timeoutRecords \cup Noticed : m \in messageRecords /\ IsOverdue(m)
  /\ unseen \subseteq messageRecords
  /\ mpc = "clock" => /\ messageSummary \in messageRecords
                      /\ messageSummary \in feedbackState => messageSummary \in overtaken
  /\ \A c \in Conn : pc[c] = "check" => current[c] \in messageRecords
  /\ feedbackState \subseteq messageRecords
  /\ \A m \in feedbackState \cap (timeoutRecords \cup Noticed) :
        feedbackAge[m] > TimeoutSeconds \/ m \in overtaken

-----------------------------------------------------------------------------
(***************************************************************************)
(* Type correctness.                                                       *)
(***************************************************************************)

LEMMA CountdownBound == ASSUME NEW n \in Nat, NEW k \in 0..n PROVE Countdown(k) \in 0..n
  BY DEF Countdown

LEMMA NextMessage ==
  ASSUME HubTypeOK, NEW c \in Conn, saved[c] < Len(Registration[c])
  PROVE  /\ saved[c] + 1 \in 1..Len(Registration[c])
         /\ Registration[c][saved[c] + 1] \in Msg
  <1>1. Registration[c] \in Seq(Msg) /\ saved[c] \in Nat
    BY RegistrationAssumption DEF HubTypeOK
  <1> QED BY <1>1

LEMMA TypeInit == Init => TypeOK
  <1> SUFFICES ASSUME Init PROVE TypeOK
    OBVIOUS
  <1> USE DEF Init
  <1>1. (CHOOSE m \in Msg : TRUE) \in Msg
    BY ReceiversAssumption
  <1>2. \A c \in Conn : Len(Registration[c]) \in Nat
    BY RegistrationAssumption
  <1>3. HubTypeOK
    BY <1>1, <1>2, TimesAssumption DEF HubTypeOK
  <1>4. ClientTypeOK
    BY DEF ClientTypeOK
  <1>5. HistoryTypeOK
    BY TimesAssumption DEF HistoryTypeOK, AgeBound, NoAge
  <1>6. MonitorTypeOK
    BY <1>1, TimesAssumption DEF MonitorTypeOK
  <1> QED
    BY <1>3, <1>4, <1>5, <1>6 DEF TypeOK

\* The dispatchers.
LEMMA HubTypeStep == TypeOK /\ [Next]_vars => HubTypeOK'
  <1> SUFFICES ASSUME TypeOK, [Next]_vars PROVE HubTypeOK'
    OBVIOUS
  <1> USE DEF TypeOK, HubTypeOK
  <1>1. CASE UNCHANGED hubVars
    BY <1>1 DEF hubVars
  <1>2. CASE Tick
    <2>1. sleep' \in [Conn -> 0..FeedbackDelay]
      BY <1>2, CountdownBound, TimesAssumption DEF Tick
    <2> QED
      BY <1>2, <2>1 DEF Tick
  <1>3. ASSUME NEW c \in Conn, SaveMessage(c) PROVE HubTypeOK'
    <2>1. Registration[c][saved[c] + 1] \in Msg /\ saved[c] + 1 <= Len(Registration[c])
      BY <1>3, NextMessage, RegistrationAssumption DEF SaveMessage
    <2>2. current' \in [Conn -> Msg] /\ pc' \in [Conn -> {"idle", "save", "send", "sleep", "check"}]
      BY <1>3, <2>1 DEF SaveMessage
    <2>3. saved' \in [Conn -> Nat] /\ \A d \in Conn : saved'[d] <= Len(Registration[d])
      BY <1>3, <2>1 DEF SaveMessage
    <2> QED
      BY <1>3, <2>2, <2>3 DEF SaveMessage
  <1>4. ASSUME NEW c \in Conn, SendMessage(c) PROVE HubTypeOK'
    BY <1>4 DEF SendMessage
  <1>5. ASSUME NEW c \in Conn, FeedbackStart(c) PROVE HubTypeOK'
    <2>1. Head(queue[c]) \in Msg
      BY <1>5 DEF FeedbackStart, ClientTypeOK
    <2> QED
      BY <1>5, <2>1, TimesAssumption DEF FeedbackStart
  <1>6. ASSUME NEW c \in Conn, FeedbackMark(c) \/ FeedbackFail(c) \/ FeedbackCheck(c) PROVE HubTypeOK'
    BY <1>6 DEF FeedbackMark, FeedbackFail, FeedbackCheck
  <1>7. CASE Monitor \/ UNCHANGED vars
    BY <1>1, <1>7 DEF Monitor, MonitorScan, ReadFlags, ReadClock, ScanEnds, SendTimeout,
                      MarkNoticed, MonitorSleep, MonitorWake, vars
  <1>8. ASSUME NEW c \in Conn, Client(c) PROVE HubTypeOK'
    BY <1>1, <1>8 DEF Client, Disconnect, ClientFeedback, ForeignFeedback
  <1> QED
    BY <1>2, <1>3, <1>4, <1>5, <1>6, <1>7, <1>8 DEF Next, Feedback

\* The clients and what they have sent.
LEMMA ClientTypeStep == TypeOK /\ [Next]_vars => ClientTypeOK'
  <1> SUFFICES ASSUME TypeOK, [Next]_vars PROVE ClientTypeOK'
    OBVIOUS
  <1> USE DEF TypeOK, ClientTypeOK
  <1>1. CASE UNCHANGED <<clientVars, overtaken>>
    BY <1>1 DEF clientVars
  <1>2. ASSUME NEW c \in Conn, SendMessage(c) PROVE ClientTypeOK'
    BY <1>2 DEF SendMessage, HubTypeOK
  <1>3. ASSUME NEW c \in Conn, FeedbackStart(c) PROVE ClientTypeOK'
    <2>1. Tail(queue[c]) \in Seq(Msg)
      BY <1>3 DEF FeedbackStart
    <2> QED
      BY <1>3, <2>1 DEF FeedbackStart
  <1>4. ASSUME NEW c \in Conn, Disconnect(c) PROVE ClientTypeOK'
    <2>1. PICK n \in 0..Len(queue[c]) : queue' = [queue EXCEPT ![c] = SubSeq(@, 1, n)]
      BY <1>4 DEF Disconnect
    <2>2. SubSeq(queue[c], 1, n) \in Seq(Msg)
      BY <2>1
    <2> QED
      BY <1>4, <2>1, <2>2 DEF Disconnect
  <1>5. ASSUME NEW c \in Conn, NEW m \in Msg, ClientFeedback(c, m) \/ ForeignFeedback(c, m)
        PROVE  ClientTypeOK'
    <2>1. Append(queue[c], m) \in Seq(Msg)
      OBVIOUS
    <2>2. queue' \in [Conn -> Seq(Msg)]
      BY <1>5, <2>1 DEF ClientFeedback, ForeignFeedback, Enqueue
    <2> QED
      BY <1>5, <2>2 DEF ClientFeedback, ForeignFeedback
  <1>6. CASE Tick \/ Monitor \/ UNCHANGED vars
    BY <1>1, <1>6 DEF Tick, Monitor, MonitorScan, ReadFlags, ReadClock, ScanEnds, SendTimeout,
                      MarkNoticed, MonitorSleep,
                      MonitorWake, vars
  <1>7. ASSUME NEW c \in Conn, SaveMessage(c) \/ FeedbackMark(c) \/ FeedbackFail(c)
        PROVE  ClientTypeOK'
    BY <1>1, <1>7 DEF SaveMessage, FeedbackMark, FeedbackFail
  <1>8. ASSUME NEW c \in Conn, FeedbackCheck(c) PROVE ClientTypeOK'
    BY <1>8 DEF FeedbackCheck, MonitorTypeOK, clientVars
  <1> QED
    BY <1>2, <1>3, <1>4, <1>5, <1>6, <1>7, <1>8 DEF Next, Feedback, Client

\* The records.
LEMMA HistoryTypeStep == TypeOK /\ [Next]_vars => HistoryTypeOK'
  <1> SUFFICES ASSUME TypeOK, [Next]_vars PROVE HistoryTypeOK'
    OBVIOUS
  <1> USE DEF TypeOK, HistoryTypeOK
  <1>1. CASE UNCHANGED <<historyVars, age>>
    BY <1>1 DEF historyVars
  <1>2. CASE Tick
    <2>1. age' \in [Msg -> 0..AgeBound]
      BY <1>2, TimesAssumption DEF Tick, AgeBound
    <2> QED
      BY <1>2, <2>1 DEF Tick, historyVars
  <1>3. ASSUME NEW c \in Conn, SaveMessage(c) PROVE HistoryTypeOK'
    BY <1>3, NextMessage, TimesAssumption DEF SaveMessage, AgeBound
  <1>4. ASSUME NEW c \in Conn, FeedbackMark(c) PROVE HistoryTypeOK'
    BY <1>4 DEF FeedbackMark, HubTypeOK
  <1>5. ASSUME NEW c \in Conn, FeedbackCheck(c) PROVE HistoryTypeOK'
    <2>1. current[c] \in Msg /\ age[current[c]] \in 0..NoAge
      BY TimesAssumption DEF HubTypeOK, AgeBound, NoAge
    <2>2. feedbackAge' \in [Msg -> 0..NoAge]
      BY <1>5, <2>1 DEF FeedbackCheck
    <2> QED
      BY <1>5, <2>1, <2>2 DEF FeedbackCheck
  <1>6. CASE Monitor \/ UNCHANGED vars
    BY <1>1, <1>6 DEF Monitor, MonitorScan, ReadFlags, ReadClock, ScanEnds, SendTimeout,
                      MarkNoticed, MonitorSleep, MonitorWake, vars
  <1>7. ASSUME NEW c \in Conn, SendMessage(c) \/ FeedbackStart(c) \/ FeedbackFail(c) \/ Client(c)
        PROVE  HistoryTypeOK'
    BY <1>1, <1>7 DEF SendMessage, FeedbackStart, FeedbackFail, Client, Disconnect,
                      ClientFeedback, ForeignFeedback
  <1> QED
    BY <1>2, <1>3, <1>4, <1>5, <1>6, <1>7 DEF Next, Feedback

\* The monitor.
LEMMA MonitorTypeStep == TypeOK /\ [Next]_vars => MonitorTypeOK'
  <1> SUFFICES ASSUME TypeOK, [Next]_vars PROVE MonitorTypeOK'
    OBVIOUS
  <1> USE DEF TypeOK, MonitorTypeOK
  <1>1. CASE UNCHANGED monitorVars
    BY <1>1 DEF monitorVars
  <1>2. CASE Tick
    BY <1>2, CountdownBound, TimesAssumption DEF Tick
  <1>3. CASE Monitor
    <2>1. CASE MonitorScan \/ ScanEnds
      BY <2>1 DEF MonitorScan, ScanEnds, HistoryTypeOK
    <2>2. ASSUME NEW m \in Msg, ReadFlags(m) \/ SendTimeout(m) PROVE MonitorTypeOK'
      BY <2>2 DEF ReadFlags, SendTimeout
    <2>3. CASE ReadClock \/ MarkNoticed
      BY <2>3 DEF ReadClock, MarkNoticed
    <2>4. CASE MonitorSleep \/ MonitorWake
      BY <2>4, TimesAssumption DEF MonitorSleep, MonitorWake
    <2> QED
      BY <1>3, <2>1, <2>2, <2>3, <2>4 DEF Monitor
  <1>4. ASSUME NEW c \in Conn, SaveMessage(c) \/ SendMessage(c) \/ Feedback(c) \/ Client(c)
        PROVE  MonitorTypeOK'
    BY <1>1, <1>4 DEF SaveMessage, SendMessage, Feedback, FeedbackStart, FeedbackMark,
                      FeedbackFail,
                      FeedbackCheck, Client, Disconnect, ClientFeedback, ForeignFeedback
  <1>5. CASE UNCHANGED vars
    BY <1>1, <1>5 DEF vars
  <1> QED
    BY <1>2, <1>3, <1>4, <1>5 DEF Next

\* Every step keeps the types.
LEMMA TypeStep == TypeOK /\ [Next]_vars => TypeOK'
  BY HubTypeStep, ClientTypeStep, HistoryTypeStep, MonitorTypeStep DEF TypeOK

\* Spec implies that every variable keeps its type, for every instance.
THEOREM TypeCorrect == Spec => []TypeOK
  BY TypeInit, TypeStep, PTL DEF Spec

-----------------------------------------------------------------------------
(***************************************************************************)
(* The monitor reports a message at most once.                             *)
(***************************************************************************)

LEMMA MonitorInit == Init => MonitorInv
  BY DEF Init, MonitorInv

LEMMA MonitorStep == TypeOK /\ MonitorInv /\ [Next]_vars => MonitorInv'
  <1> SUFFICES ASSUME TypeOK, MonitorInv, [Next]_vars PROVE MonitorInv'
    OBVIOUS
  <1>1. CASE MonitorScan \/ ScanEnds
    BY <1>1 DEF MonitorScan, ScanEnds, MonitorInv
  <1>2. ASSUME NEW m \in Msg, ReadFlags(m) PROVE MonitorInv'
    <2>1. CASE Unsettled(m)
      BY <1>2, <2>1 DEF ReadFlags, Unsettled, MonitorInv
    <2>2. CASE ~Unsettled(m)
      BY <1>2, <2>2 DEF ReadFlags, MonitorInv
    <2> QED
      BY <2>1, <2>2
  <1>3. CASE ReadClock
    BY <1>3 DEF ReadClock, MonitorInv
  <1>4. ASSUME NEW m \in Msg, SendTimeout(m) PROVE MonitorInv'
    BY <1>4 DEF SendTimeout, MonitorInv, TypeOK, HubTypeOK, HistoryTypeOK, MonitorTypeOK
  <1>5. CASE MarkNoticed
    BY <1>5 DEF MarkNoticed, MonitorInv, TypeOK, HubTypeOK, HistoryTypeOK, MonitorTypeOK
  <1>6. CASE MonitorSleep \/ MonitorWake
    BY <1>6 DEF MonitorSleep, MonitorWake, MonitorInv
  <1>7. CASE Tick
    BY <1>7 DEF Tick, MonitorInv
  <1>8. CASE UNCHANGED monitorVars
    BY <1>8 DEF monitorVars, MonitorInv
  <1>9. CASE \E c \in Conn : SaveMessage(c) \/ SendMessage(c) \/ Feedback(c) \/ Client(c)
    BY <1>8, <1>9 DEF SaveMessage, SendMessage, Feedback, FeedbackStart, FeedbackMark,
                      FeedbackFail,
                      FeedbackCheck, Client, Disconnect, ClientFeedback, ForeignFeedback
  <1>10. CASE UNCHANGED vars
    BY <1>8, <1>10 DEF vars
  <1> QED
    BY <1>1, <1>2, <1>3, <1>4, <1>5, <1>6, <1>7, <1>9, <1>10 DEF Next, Monitor

LEMMA MonitorInvImplies == TypeOK /\ MonitorInv => NoticeAtMostOnce
  BY DEF MonitorInv, NoticeAtMostOnce

\* No interleaving of the monitor with late answers reports a message twice.
THEOREM NoticeSafe == Spec => []NoticeAtMostOnce
  <1>1. Spec => []MonitorInv
    BY TypeCorrect, MonitorInit, MonitorStep, PTL DEF Spec
  <1> QED
    BY <1>1, TypeCorrect, MonitorInvImplies, PTL

-----------------------------------------------------------------------------
(***************************************************************************)
(* Acknowledged means acknowledged by all.                                 *)
(***************************************************************************)

LEMMA FromAllStep == TypeOK /\ FeedbackFromAll /\ [Next]_vars => FeedbackFromAll'
  <1> SUFFICES ASSUME TypeOK, FeedbackFromAll, [Next]_vars PROVE FeedbackFromAll'
    OBVIOUS
  <1>1. ASSUME NEW c \in Conn, FeedbackMark(c) PROVE FeedbackFromAll'
    BY <1>1 DEF FeedbackMark, FeedbackFromAll, TypeOK, HubTypeOK, HistoryTypeOK, MonitorTypeOK
  <1>2. ASSUME NEW c \in Conn, FeedbackCheck(c) PROVE FeedbackFromAll'
    BY <1>2 DEF FeedbackCheck, NoFeedback, FeedbackFromAll, TypeOK, HubTypeOK, HistoryTypeOK,
                MonitorTypeOK
  <1>3. CASE UNCHANGED <<receiverState, feedbackState>>
    BY <1>3 DEF FeedbackFromAll
  <1>4. CASE Tick \/ Monitor \/ UNCHANGED vars
    BY <1>3, <1>4 DEF Tick, Monitor, MonitorScan, ReadFlags, ReadClock, ScanEnds, SendTimeout,
                      MarkNoticed, MonitorSleep,
                      MonitorWake, historyVars, vars
  <1>5. ASSUME NEW c \in Conn, SaveMessage(c) \/ SendMessage(c) \/ Feedback(c) \/ Client(c)
        PROVE  FeedbackFromAll'
    BY <1>1, <1>2, <1>3, <1>5
       DEF SaveMessage, SendMessage, Feedback, FeedbackStart, FeedbackFail, Client, Disconnect,
           ClientFeedback, ForeignFeedback, historyVars
  <1> QED
    BY <1>4, <1>5 DEF Next

\* A message counts as acknowledged only when each of its receivers, however
\* many, has acknowledged it, even if their invocations read stale flags.
THEOREM FromAllSafe == Spec => []FeedbackFromAll
  <1>1. Init => FeedbackFromAll
    BY DEF Init, FeedbackFromAll
  <1> QED
    BY <1>1, TypeCorrect, FromAllStep, PTL DEF Spec

-----------------------------------------------------------------------------
(***************************************************************************)
(* An acknowledgement in time prevents the report, unless it overtakes the *)
(* query.                                                                  *)
(***************************************************************************)

\* A message that is about to be saved has no record.
LEMMA FreshMessage ==
  ASSUME TypeOK, RecordsInv, NEW c \in Conn, SaveMessage(c)
  PROVE  Registration[c][saved[c] + 1] \in Msg \ messageRecords
  <1>1. saved[c] + 1 \in DOMAIN Registration[c] /\ Registration[c][saved[c] + 1] \in Msg
    BY NextMessage, RegistrationAssumption DEF SaveMessage, TypeOK
  <1>2. ASSUME NEW d \in Conn, NEW i \in 1..saved[d],
               Registration[c][saved[c] + 1] = Registration[d][i]
        PROVE  FALSE
    <2>1. i \in DOMAIN Registration[d]
      BY RegistrationAssumption DEF TypeOK, HubTypeOK
    <2>2. c = d /\ saved[c] + 1 = i
      BY <1>1, <1>2, <2>1, SenderAssumption
    <2> QED
      BY <2>2 DEF TypeOK, HubTypeOK
  <1> QED
    BY <1>1, <1>2 DEF RecordsInv

LEMMA RecordsStep == TypeOK /\ RecordsInv /\ [Next]_vars => RecordsInv'
  <1> SUFFICES ASSUME TypeOK, RecordsInv, [Next]_vars PROVE RecordsInv'
    OBVIOUS
  <1>1. ASSUME NEW c \in Conn, SaveMessage(c) PROVE RecordsInv'
    <2> SUFFICES ASSUME NEW m \in messageRecords'
                 PROVE  \E d \in Conn : \E i \in 1..saved'[d] : m = Registration[d][i]
      BY DEF RecordsInv
    <2>1. saved \in [Conn -> Nat] /\ saved' = [saved EXCEPT ![c] = saved[c] + 1]
      BY <1>1 DEF SaveMessage, TypeOK, HubTypeOK
    <2>2. CASE m = Registration[c][saved[c] + 1]
      <3>1. saved[c] + 1 \in 1..saved'[c]
        BY <2>1
      <3> QED
        BY <2>2, <3>1
    <2>3. CASE m \in messageRecords
      <3>1. PICK d \in Conn : \E i \in 1..saved[d] : m = Registration[d][i]
        BY <2>3 DEF RecordsInv
      <3>2. PICK i \in 1..saved[d] : m = Registration[d][i]
        BY <3>1
      <3>3. i \in 1..saved'[d]
        BY <2>1
      <3> QED
        BY <3>2, <3>3
    <2> QED
      BY <1>1, <2>2, <2>3 DEF SaveMessage
  <1>2. CASE UNCHANGED <<messageRecords, saved>>
    BY <1>2 DEF RecordsInv
  <1>3. CASE Tick \/ Monitor \/ UNCHANGED vars
    BY <1>2, <1>3 DEF Tick, Monitor, MonitorScan, ReadFlags, ReadClock, ScanEnds, SendTimeout,
                      MarkNoticed, MonitorSleep,
                      MonitorWake, hubVars, historyVars, vars
  <1>4. ASSUME NEW c \in Conn, SendMessage(c) \/ Feedback(c) \/ Client(c) PROVE RecordsInv'
    BY <1>2, <1>4 DEF SendMessage, Feedback, FeedbackStart, FeedbackMark, FeedbackFail,
                      FeedbackCheck,
                      Client, Disconnect, ClientFeedback, ForeignFeedback, hubVars, historyVars
  <1> QED
    BY <1>1, <1>3, <1>4 DEF Next

OverdueIInv == TypeOK /\ RecordsInv /\ MonitorInv /\ OverdueInv

LEMMA OverdueStep == OverdueIInv /\ [Next]_vars => OverdueInv'
  <1> SUFFICES ASSUME OverdueIInv, [Next]_vars PROVE OverdueInv'
    OBVIOUS
  <1> USE DEF OverdueIInv, TypeOK, HubTypeOK, HistoryTypeOK, MonitorTypeOK
  <1>1. ASSUME NEW c \in Conn, SaveMessage(c) PROVE OverdueInv'
    <2>1. Registration[c][saved[c] + 1] \in Msg \ messageRecords
      BY <1>1, FreshMessage
    <2>2. Noticed' = Noticed
      BY <1>1 DEF SaveMessage, Noticed, monitorVars
    <2> QED
      BY <1>1, <2>1, <2>2 DEF SaveMessage, OverdueInv, IsOverdue, monitorVars
  <1>2. ASSUME NEW c \in Conn, FeedbackMark(c) PROVE OverdueInv'
    BY <1>2 DEF FeedbackMark, OverdueInv, IsOverdue, Noticed, monitorVars
  <1>3. ASSUME NEW c \in Conn, FeedbackCheck(c) PROVE OverdueInv'
    BY <1>3 DEF FeedbackCheck, OverdueInv, IsOverdue, Noticed, monitorVars
  <1>4. ASSUME NEW c \in Conn, SendMessage(c) \/ FeedbackStart(c) \/ FeedbackFail(c) PROVE OverdueInv'
    BY <1>4 DEF SendMessage, FeedbackStart, FeedbackFail, OverdueInv, IsOverdue, Noticed,
                historyVars, monitorVars
  <1>5. ASSUME NEW c \in Conn, Client(c) PROVE OverdueInv'
    BY <1>5 DEF Client, Disconnect, ClientFeedback, ForeignFeedback, OverdueInv, IsOverdue,
                Noticed,
                hubVars, historyVars, monitorVars
  <1>6. CASE MonitorScan \/ ScanEnds
    BY <1>6 DEF MonitorScan, ScanEnds, OverdueInv, IsOverdue, Noticed, hubVars, historyVars
  <1>7. ASSUME NEW m \in Msg, ReadFlags(m) PROVE OverdueInv'
    <2>1. m \in messageRecords /\ unseen' \subseteq messageRecords'
      BY <1>7 DEF ReadFlags, OverdueInv, historyVars
    <2>2. CASE Unsettled(m)
      BY <1>7, <2>1, <2>2 DEF ReadFlags, Unsettled, OverdueInv, IsOverdue, Noticed, hubVars,
                              historyVars
    <2>3. CASE ~Unsettled(m)
      BY <1>7, <2>1, <2>3 DEF ReadFlags, OverdueInv, IsOverdue, Noticed, hubVars, historyVars
    <2> QED
      BY <2>2, <2>3
  <1>8. CASE ReadClock
    BY <1>8 DEF ReadClock, OverdueInv, IsOverdue, Noticed, hubVars, historyVars
  <1>9. ASSUME NEW m \in Msg, SendTimeout(m) PROVE OverdueInv'
    <2>1. Noticed' \subseteq Noticed \cup {m} /\ m \in timeoutRecords
      BY <1>9 DEF SendTimeout, Noticed
    <2> QED
      BY <1>9, <2>1 DEF SendTimeout, OverdueInv, IsOverdue, hubVars, historyVars
  <1>10. CASE MarkNoticed \/ MonitorSleep \/ MonitorWake
    BY <1>10 DEF MarkNoticed, MonitorSleep, MonitorWake, OverdueInv, IsOverdue, Noticed,
                hubVars, historyVars
  <1>11. CASE Tick
    <2>1. \A m \in Msg : IsOverdue(m) => IsOverdue(m)'
      BY <1>11, TimesAssumption DEF Tick, IsOverdue, AgeBound
    <2> QED
      BY <1>11, <2>1 DEF Tick, OverdueInv, Noticed, historyVars
  <1>12. CASE UNCHANGED vars
    BY <1>12 DEF vars, OverdueInv, IsOverdue, Noticed, hubVars, historyVars, monitorVars
  <1> QED
    BY <1>1, <1>2, <1>3, <1>4, <1>5, <1>6, <1>7, <1>8, <1>9, <1>10, <1>11, <1>12
       DEF Next, Monitor, Feedback

LEMMA OverdueSafe == Spec => []OverdueIInv
  <1>1. Init => OverdueIInv
    BY TypeInit, MonitorInit DEF Init, OverdueIInv, RecordsInv, OverdueInv, Noticed
  <1>2. OverdueIInv /\ [Next]_vars => OverdueIInv'
    BY TypeStep, RecordsStep, MonitorStep, OverdueStep DEF OverdueIInv
  <1> QED
    BY <1>1, <1>2, PTL DEF Spec

\* A message whose acknowledgement was recorded within the timeout is reported
\* only if that came between the reads of its flags and of the clock by one query,
\* even though the monitor works off a list computed earlier.
THEOREM InTimeSafe == Spec => []ReportedInTimeOnlyIfOvertaken
  <1>1. OverdueIInv => ReportedInTimeOnlyIfOvertaken
    BY DEF OverdueIInv, TypeOK, HistoryTypeOK, OverdueInv, Noticed,
           ReportedInTimeOnlyIfOvertaken
  <1> QED
    BY <1>1, OverdueSafe, PTL

-----------------------------------------------------------------------------
(***************************************************************************)
(* The records keep the contract.                                          *)
(***************************************************************************)

LEMMA ContractInit == Init => Contract!Init
  BY DEF Init, Contract!Init, Noticed

\* Nothing the contract speaks of changes.
LEMMA ContractStutter ==
  ASSUME UNCHANGED <<messageRecords, age, feedbackState, timeoutRecords, notices>>,
         UNCHANGED <<mpc, messageSummary>> \/ (mpc # "clock" /\ mpc' # "clock")
  PROVE  UNCHANGED Contract!vars
  <1>1. UNCHANGED (IF mpc = "clock" THEN {messageSummary} ELSE {})
    OBVIOUS
  <1> QED
    BY <1>1 DEF Contract!vars, Noticed, IsOverdue

LEMMA ContractStep == OverdueIInv /\ [Next]_vars => [Contract!Next]_(Contract!vars)
  <1> SUFFICES ASSUME OverdueIInv, [Next]_vars PROVE [Contract!Next]_(Contract!vars)
    OBVIOUS
  <1> USE DEF OverdueIInv, TypeOK, HubTypeOK, HistoryTypeOK, MonitorTypeOK
  <1> DEFINE expired == {m \in messageRecords : IsOverdue(m)}
  <1>1. ASSUME NEW c \in Conn, SaveMessage(c) PROVE Contract!Next
    <2>1. PICK new \in Msg \ messageRecords : new = Registration[c][saved[c] + 1]
      BY <1>1, FreshMessage
    <2>2. messageRecords' = messageRecords \cup {new} /\ age' = [age EXCEPT ![new] = 0]
      BY <1>1, <2>1 DEF SaveMessage
    <2>3. ~IsOverdue(new)' /\ \A k \in messageRecords : IsOverdue(k)' <=> IsOverdue(k)
      <3>1. age'[new] = 0 /\ \A k \in messageRecords : age'[k] = age[k]
        BY <2>1, <2>2
      <3> QED
        BY <3>1, TimesAssumption DEF IsOverdue
    <2>4. expired' = expired
      BY <2>1, <2>2, <2>3
    <2>5. /\ Noticed' = Noticed /\ feedbackState' = feedbackState
          /\ timeoutRecords' = timeoutRecords /\ mpc' = mpc /\ messageSummary' = messageSummary
      BY <1>1 DEF SaveMessage, Noticed, monitorVars
    <2>6. Contract!Send(new)
      BY <2>1, <2>2, <2>4, <2>5 DEF Contract!Send
    <2> QED
      BY <2>1, <2>6 DEF Contract!Next
  <1>2. ASSUME NEW c \in Conn, FeedbackCheck(c) PROVE [Contract!Next]_(Contract!vars)
    <2>1. CASE feedbackState' = feedbackState
      BY <1>2, <2>1, ContractStutter DEF FeedbackCheck, monitorVars
    <2>2. CASE feedbackState' = feedbackState \cup {current[c]}
      <3>1. current[c] \in Msg \cap messageRecords
        BY <1>2 DEF FeedbackCheck, OverdueInv
      <3>2. expired' = expired /\ Noticed' = Noticed
        BY <1>2 DEF FeedbackCheck, IsOverdue, Noticed, monitorVars
      <3>3. Contract!Answer(current[c])
        BY <1>2, <2>2, <3>1, <3>2 DEF FeedbackCheck, Contract!Answer, monitorVars
      <3> QED
        BY <3>1, <3>3 DEF Contract!Next
    <2> QED
      BY <1>2, <2>1, <2>2 DEF FeedbackCheck
  <1>3. ASSUME NEW m \in Msg, ReadFlags(m) PROVE [Contract!Next]_(Contract!vars)
    <2>1. m \in messageRecords /\ mpc = "query" /\ Noticed' = Noticed /\ expired' = expired
      BY <1>3 DEF ReadFlags, OverdueInv, Noticed, IsOverdue, historyVars
    <2>2. CASE Unsettled(m)
      <3>1. m \notin Noticed /\ m \notin feedbackState
        BY <2>1, <2>2 DEF Unsettled, MonitorInv, Noticed
      <3>2. Contract!Doubt(m)
        BY <1>3, <2>1, <2>2, <3>1 DEF ReadFlags, historyVars, Contract!Doubt
      <3> QED
        BY <3>2 DEF Contract!Next
    <2>3. CASE ~Unsettled(m)
      BY <1>3, <2>3, ContractStutter DEF ReadFlags, historyVars
    <2> QED
      BY <2>2, <2>3
  <1>4. CASE ReadClock
    <2>1. messageSummary \in messageRecords /\ Noticed' = Noticed /\ expired' = expired
      BY <1>4 DEF ReadClock, OverdueInv, Noticed, IsOverdue, historyVars
    <2>2. CASE IsOverdue(messageSummary)
      <3>1. Contract!Condemn(messageSummary)
        BY <1>4, <2>1, <2>2 DEF ReadClock, historyVars, Contract!Condemn
      <3> QED
        BY <3>1 DEF Contract!Next
    <2>3. CASE ~IsOverdue(messageSummary)
      <3>1. Contract!Clear(messageSummary)
        BY <1>4, <2>1, <2>3 DEF ReadClock, historyVars, Contract!Clear
      <3> QED
        BY <3>1 DEF Contract!Next
    <2> QED
      BY <2>2, <2>3
  <1>5. ASSUME NEW m \in Msg, SendTimeout(m) PROVE Contract!Next
    <2>1. m \in timeoutRecords /\ notices[m] = 0 /\ Noticed' = Noticed \cup {m}
      BY <1>5 DEF SendTimeout, MonitorInv, Noticed
    <2>2. expired' = expired
      BY <1>5 DEF SendTimeout, IsOverdue, historyVars
    <2>3. Contract!Notify(m)
      BY <1>5, <2>1, <2>2 DEF SendTimeout, historyVars, Contract!Notify, Noticed
    <2> QED
      BY <2>3 DEF Contract!Next
  <1>6. CASE MarkNoticed
    <2>1. messageSummary \in Noticed
      BY <1>6 DEF MarkNoticed, MonitorInv, Noticed
    <2>2. Noticed' = Noticed /\ expired' = expired
      BY <1>6 DEF MarkNoticed, Noticed, IsOverdue, historyVars
    <2>3. (timeoutRecords \cup Noticed)' = timeoutRecords \cup Noticed
      BY <1>6, <2>1, <2>2 DEF MarkNoticed
    <2> QED
      BY <1>6, <2>2, <2>3 DEF MarkNoticed, historyVars, Contract!vars
  <1>7. CASE Tick
    <2>1. expired \subseteq expired'
      BY <1>7, TimesAssumption DEF Tick, IsOverdue, AgeBound, historyVars
    <2>2. expired' \subseteq messageRecords /\ Noticed' = Noticed
      BY <1>7 DEF Tick, historyVars, Noticed
    <2>3. expired' = expired \cup expired' /\ expired' \in SUBSET Msg
      BY <2>1, <2>2
    <2>4. Contract!Expire(expired')
      BY <1>7, <2>2, <2>3 DEF Tick, historyVars, Contract!Expire
    <2> QED
      BY <2>3, <2>4 DEF Contract!Next
  <1>8. CASE MonitorScan \/ ScanEnds \/ MonitorSleep \/ MonitorWake \/ UNCHANGED vars
    BY <1>8, ContractStutter
       DEF MonitorScan, ScanEnds, MonitorSleep, MonitorWake, vars, historyVars, monitorVars
  <1>9. ASSUME NEW c \in Conn,
               \/ SendMessage(c) \/ FeedbackStart(c) \/ FeedbackMark(c) \/ FeedbackFail(c)
               \/ Client(c)
        PROVE  UNCHANGED Contract!vars
    BY <1>9, ContractStutter
       DEF SendMessage, FeedbackStart, FeedbackMark, FeedbackFail, Client, Disconnect,
           ClientFeedback, ForeignFeedback, historyVars, monitorVars
  <1> QED
    BY <1>1, <1>2, <1>3, <1>4, <1>5, <1>6, <1>7, <1>8, <1>9 DEF Next, Monitor, Feedback

\* The history, the hub method and the monitor together implement the contract.
THEOREM ContractKept == Spec => ContractSpec
  BY ContractInit, ContractStep, OverdueSafe, PTL DEF Spec, ContractSpec, Contract!Spec

=============================================================================
