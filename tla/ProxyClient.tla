----------------------------- MODULE ProxyClient -----------------------------
(***************************************************************************)
(* One browser window with the pages of SignalClient.  The pages share one *)
(* SignalRClientBuilder (window.SignalRClient) and its one HubConnection;  *)
(* moving to another page replaces the callbacks, but neither the          *)
(* connection nor what it is registered as.  The other end is the hub, as  *)
(* far as this window can tell (HubSession), whatever the others do there: *)
(* CommandRouting implements that.                                         *)
(***************************************************************************)
EXTENDS HubConnection, HubSession, Sequences, SequencesExt

CONSTANTS
  MaxMounts,    \* bound: pages that are rendered, one after the other
  MaxMessages,  \* bound: messages the hub sends, Close messages not counted
  MaxClicks     \* bound: commands that are clicked

ASSUME BoundsAssumption == MaxMounts \in Nat /\ MaxMessages \in Nat /\ MaxClicks \in Nat

VARIABLES
  mount,      \* the page on screen is the mount-th that was rendered, 0: none yet
  page,       \* its component
  effectRan,  \* its effects were run
  visited,    \* components in the history of the window
  title,      \* its heading shows a connection
  shown,      \* the messages it lists
  callback,   \* the mount that each callback of the builder belongs to, or 0
  starter,    \* the mount and the component whose start() is pending
  alerted,    \* mounts that showed an alert
  clicks,     \* commands clicked
  inbox,      \* messages of the hub that are under way, or read and not handled
  awaiting,   \* messages whose handler awaits the sending of its feedback
  calls,      \* calls of each session that are under way to the hub
  openedAs,   \* the component whose start() opened a session, "none" if a retry did
  messages    \* messages the hub sent

pageVars == <<mount, page, effectRan, visited, title, shown>>
clientVars == <<callback, starter, alerted, clicks, awaiting>>
hubVars == <<calls, hubSessionVars, openedAs, messages>>
vars == <<hubConnectionVars, pageVars, clientVars, inbox, hubVars>>

Sessions == 1..MaxSessions
Mounts == 1..MaxMounts

-----------------------------------------------------------------------------
(***************************************************************************)
(* The pages, events and commands                                          *)
(***************************************************************************)

\* The routes of .umirc.ts; "Step" stands for the three step pages.
Routes == {"Teacher", "Teacher2", "Student", "Step"}

\* The links on a page.
Links(p) ==
  CASE p = "Teacher" -> {"Teacher2", "Student"}
    [] p = "Step" -> {"Teacher", "Step"}
    [] OTHER -> {}

\* Methods of the hub that the client calls.
ServerEventType ==
  {"RegisterTeacher", "RegisterStudent", "SendMessage", "Feedback", "Start", "Stop"}

\* Names of commands, in their form on the wire: those a teacher gets and
\* sends, then those a student sends.
CommandType ==
  {"s.connected", "s.disconnected", "Status", "t.allowLogin", "s.loginAllow", "s.loginDenied",
   "t.modifySeatNumber", "t.studentGetStatus", "t.commandStatusReturn", "t.applyStartReturn",
   "t.startManual", "t.stopManual", "t.recycle", "t.exit", "t.clean", "t.manualFaile",
   "t.taskStop", "t.beforeProcess", "t.paperUsedReturn"}
  \cup
  {"s.login", "s.verification", "s.commandStatus", "s.paperUsed", "s.studentStatus",
   "s.watchStatus", "s.setExamStatus", "s.paperDown", "s.checkWavein", "s.checkWaveout",
   "s.applyStart", "s.progress", "s.complete", "s.recycleReply", "s.help"}

\* Names under which the hub has a handler.
HandlerNames == {"t.allowLogin", "Start", "Stop", "Status"}

\* The command behind the button of a page.
Command(p) == IF p = "Teacher" THEN "t.allowLogin" ELSE "Status"

\* The components that connect, and what each registers as.
Connecting == {"Teacher", "Student"}
Registration(p) == IF p = "Teacher" THEN "RegisterTeacher" ELSE "RegisterStudent"

\* The hub has a handler for every command that a button sends: the names of
\* the two sides agree as far as they are used.
ASSUME CommandsAssumption == \A p \in Connecting : Command(p) \in CommandType \cap HandlerNames

\* What the hub can send.  A command comes as ReceiveMessage too, without the
\* id of a record: its feedback is sent all the same, and the hub drops it.
\* ReceiveServerError goes to teachers that are gone, CloseConnection to
\* nobody.  Close is the message of the SignalR protocol.
ClientEventType ==
  {"RegisterSuccess", "ReceiveMessage", "ReceiveServerError", "Timeout", "CloseConnection"}

Message == [event : ClientEventType \cup {"Close"}, id : 0..MaxMessages, session : Sessions]

\* A call is a method, or SendMessage with the command named; a feedback names
\* the session on which the message came that it answers.
Call == [method : ServerEventType \cup CommandType, session : Sessions]

\* The callbacks that the builder keeps.  No page sets error or reconnected.
Callbacks == {"registed", "received", "error", "timeout", "reconnected", "close"}

\* The callback for an event whose handler answers with a feedback first.
SlotOf(event) ==
  CASE event = "RegisterSuccess" -> "registed"
    [] event = "ReceiveMessage" -> "received"
    [] event = "ReceiveServerError" -> "error"

Answered == {"RegisterSuccess", "ReceiveMessage", "ReceiveServerError"}

NoStarter == [mount |-> 0, page |-> "none"]

isConnected == connectionState = "Connected"

Init ==
  /\ HubConnectionInit
  /\ mount = 0 /\ page = "none" /\ effectRan = TRUE /\ visited = {}
  /\ title = FALSE /\ shown = {}
  /\ callback = [c \in Callbacks |-> 0]
  /\ starter = NoStarter /\ alerted = {} /\ clicks = 0 /\ awaiting = <<>>
  /\ inbox = <<>>
  /\ calls = [n \in Sessions |-> <<>>]
  /\ server = [n \in Sessions |-> "none"]
  /\ openedAs = [n \in Sessions |-> "none"]
  /\ denied = {} /\ messages = 0

-----------------------------------------------------------------------------
(***************************************************************************)
(* Pages                                                                   *)
(***************************************************************************)

\* A page is opened, by any address first, then by a link or the history of
\* the window.  React runs the effects of a page before it renders the next.
Render(p) ==
  /\ effectRan
  /\ mount < MaxMounts
  /\ mount = 0 \/ p \in Links(page) \cup (visited \ {page})
  /\ mount' = mount + 1
  /\ page' = p
  /\ effectRan' = FALSE
  /\ visited' = visited \cup {p}
  /\ title' = (p # "Step" /\ isConnected)
  /\ shown' = {}
  /\ UNCHANGED <<hubConnectionVars, clientVars, inbox, hubVars>>

\* The callbacks after the effect of each page.  The Teacher page sets onClose
\* twice: the one that stays only logs.  Where a page sets none, the callback
\* of an earlier page stays, which draws on a page that is gone.
TeacherCallbacks ==
  [c \in Callbacks |->
     CASE c \in {"registed", "received", "timeout"} -> mount [] c = "close" -> 0 [] OTHER -> callback[c]]

\* (mutant) A callback that is set already is kept.
StudentCallbacksOnce ==
  [c \in Callbacks |->
     IF c \in {"registed", "received", "timeout", "close"} /\ callback[c] = 0 THEN mount ELSE callback[c]]

\* (mutant) The page sets onClose a second time, as the Teacher page does.
StudentCallbacksLogClose ==
  [c \in Callbacks |->
     CASE c \in {"registed", "received", "timeout"} -> mount [] c = "close" -> 0 [] OTHER -> callback[c]]

StudentCallbacks ==
  [c \in Callbacks |->
     IF c \in {"registed", "received", "timeout", "close"} THEN mount ELSE callback[c]]

Teacher2Callbacks == [callback EXCEPT !["received"] = mount]

EffectBegins ==
  /\ ~effectRan
  /\ effectRan' = TRUE
  /\ callback' = IF page = "Teacher" THEN TeacherCallbacks ELSE StudentCallbacks

Connect ==
  /\ page \in Connecting
  /\ EffectBegins
  /\ Start
  /\ starter' = [mount |-> mount, page |-> page]
  /\ UNCHANGED <<mount, page, visited, title, shown, alerted, clicks, inbox, awaiting, hubVars>>

\* The page shares a connection that is in use: start() rejects.
ConnectRejected ==
  /\ page \in Connecting
  /\ EffectBegins
  /\ StartRejected
  /\ alerted' = alerted \cup {mount}
  /\ UNCHANGED <<mount, page, visited, title, shown, starter, clicks, inbox, awaiting, hubVars>>

\* The Teacher2 page sets a callback, and relies on another page to connect.
Teacher2Effect ==
  /\ page = "Teacher2"
  /\ ~effectRan
  /\ effectRan' = TRUE
  /\ callback' = Teacher2Callbacks
  /\ UNCHANGED <<hubConnectionVars, mount, page, visited, title, shown, starter, alerted, clicks,
                 inbox, awaiting, hubVars>>

\* A step page looks for window.SignalRConnection, which no page with a route
\* ever sets: it adds no handler.
StepEffect ==
  /\ page = "Step"
  /\ ~effectRan
  /\ effectRan' = TRUE
  /\ UNCHANGED <<hubConnectionVars, mount, page, visited, title, shown, clientVars, inbox, hubVars>>

\* A click on a page with a button.  Without a connection it only logs.
Click ==
  /\ page \in Connecting
  /\ isConnected
  /\ clicks < MaxClicks
  /\ clicks' = clicks + 1
  /\ calls' = [calls EXCEPT ![sessions] =
                  Append(@, [method |-> Command(page), session |-> sessions])]
  /\ UNCHANGED <<hubConnectionVars, pageVars, callback, starter, alerted, inbox, awaiting,
                 hubSessionVars, openedAs, messages>>

\* A callback of the page on screen lists a message and draws the page again;
\* one that belongs to a page that is gone has no effect.
OnScreen(slot) == callback[slot] = mount /\ mount # 0

Lists(id) == shown' = shown \cup {id} /\ title' = isConnected

\* The pages whose callback lists a timeout: that of the Student page parses
\* the object it gets as if it were a string, and throws.
ListsTimeout == {"Teacher"}

-----------------------------------------------------------------------------
(***************************************************************************)
(* The connection                                                          *)
(***************************************************************************)

\* start() is through: whatever page is on screen now, the one that called it
\* registers.
Connected ==
  LET n == sessions + 1
  IN  /\ Started
      /\ starter' = NoStarter
      /\ Opened(n)
      /\ openedAs' = [openedAs EXCEPT ![n] = starter.page]
      /\ calls' = [calls EXCEPT ![n] =
                     <<[method |-> Registration(starter.page), session |-> n]>>]
      /\ UNCHANGED <<pageVars, callback, alerted, clicks, inbox, awaiting, messages>>

\* (mutant) The builder catches the error itself.
ConnectFailsSilently ==
  /\ StartFailed
  /\ starter' = NoStarter
  /\ UNCHANGED <<pageVars, callback, alerted, clicks, inbox, awaiting, hubVars>>

\* (mutant) The start stays pending.
ConnectFailsPending ==
  /\ StartFailed
  /\ alerted' = alerted \cup {starter.mount}
  /\ UNCHANGED <<pageVars, callback, starter, clicks, inbox, awaiting, hubVars>>

ConnectFails ==
  /\ StartFailed
  /\ starter' = NoStarter
  /\ alerted' = alerted \cup {starter.mount}
  /\ UNCHANGED <<pageVars, callback, clicks, inbox, awaiting, hubVars>>

\* What was under way to the window is lost.
OnReconnecting ==
  /\ ConnectionLost
  /\ inbox' = <<>>
  /\ UNCHANGED <<pageVars, clientVars, hubVars>>

\* (mutant) The page on screen registers again.
OnReconnectedRegisters ==
  /\ Reconnected
  /\ Opened(sessions + 1)
  /\ calls' = [calls EXCEPT ![sessions + 1] =
                 <<[method |-> Registration(page), session |-> sessions + 1]>>]
  /\ UNCHANGED <<pageVars, clientVars, inbox, openedAs, messages>>

\* A new session.  No page sets onReconnected, and nobody registers.
OnReconnected ==
  /\ Reconnected
  /\ Opened(sessions + 1)
  /\ UNCHANGED <<pageVars, clientVars, inbox, calls, openedAs, messages>>

RetryFails == RetryFailed /\ UNCHANGED <<pageVars, clientVars, inbox, hubVars>>

\* The connection is over.
OnClose ==
  /\ CompleteClose \/ GivenUp
  /\ title' = IF OnScreen("close") THEN FALSE ELSE title
  /\ inbox' = <<>>
  /\ UNCHANGED <<mount, page, effectRan, visited, shown, clientVars, hubVars>>

-----------------------------------------------------------------------------
(***************************************************************************)
(* Messages                                                                *)
(***************************************************************************)

\* The handler sends the feedback on the connection there is, then awaits.
Receive ==
  /\ isConnected
  /\ inbox # <<>>
  /\ Head(inbox).event \in Answered
  /\ calls' = [calls EXCEPT ![sessions] =
                 Append(@, [method |-> "Feedback", session |-> Head(inbox).session])]
  /\ awaiting' = Append(awaiting, Head(inbox))
  /\ inbox' = Tail(inbox)
  /\ UNCHANGED <<hubConnectionVars, pageVars, callback, starter, alerted, clicks,
                 hubSessionVars, openedAs, messages>>

\* (mutant) The feedback is sent after the callback, on the connection of then.
FeedbackSentLast ==
  /\ awaiting # <<>>
  /\ awaiting' = Tail(awaiting)
  /\ IF OnScreen(SlotOf(Head(awaiting).event))
     THEN Lists(Head(awaiting).id)
     ELSE UNCHANGED <<shown, title>>
  /\ calls' = IF isConnected
              THEN [calls EXCEPT ![sessions] =
                      Append(@, [method |-> "Feedback", session |-> Head(awaiting).session])]
              ELSE calls
  /\ UNCHANGED <<hubConnectionVars, mount, page, effectRan, visited, callback, starter, alerted,
                 clicks, inbox, hubSessionVars, openedAs, messages>>

\* The feedback is sent, and the callback is looked up only now.
FeedbackSent ==
  /\ awaiting # <<>>
  /\ awaiting' = Tail(awaiting)
  /\ IF OnScreen(SlotOf(Head(awaiting).event))
     THEN Lists(Head(awaiting).id)
     ELSE UNCHANGED <<shown, title>>
  /\ UNCHANGED <<hubConnectionVars, mount, page, effectRan, visited, callback, starter, alerted,
                 clicks, inbox, hubVars>>

\* The send rejects, which it may before the state of the connection changes: the
\* handler ends with an error that nobody sees, and the callback is never called.
FeedbackFails ==
  /\ awaiting # <<>>
  /\ awaiting' = Tail(awaiting)
  /\ UNCHANGED <<hubConnectionVars, pageVars, callback, starter, alerted, clicks, inbox, hubVars>>

\* A notice of a timeout is not answered.
ReceiveTimeout ==
  /\ isConnected
  /\ inbox # <<>>
  /\ Head(inbox).event = "Timeout"
  /\ IF OnScreen("timeout") /\ page \in ListsTimeout
     THEN Lists(Head(inbox).id)
     ELSE UNCHANGED <<shown, title>>
  /\ inbox' = Tail(inbox)
  /\ UNCHANGED <<hubConnectionVars, mount, page, effectRan, visited, clientVars, hubVars>>

ReceiveClose ==
  /\ inbox # <<>>
  /\ Head(inbox).event = "Close"
  /\ StopInternal
  /\ inbox' = <<>>
  /\ UNCHANGED <<pageVars, clientVars, hubVars>>

-----------------------------------------------------------------------------
(***************************************************************************)
(* The hub                                                                 *)
(***************************************************************************)

\* The hub sends a message; it arrives unless the window lost the session.
Arrives(n) == isConnected /\ n = sessions

Send(n, event, id) ==
  inbox' = IF Arrives(n)
           THEN Append(inbox, [event |-> event, id |-> id, session |-> n])
           ELSE inbox

\* One that does not arrive changes nothing here, and is no step.
SendNext(n, event) ==
  /\ messages < MaxMessages
  /\ Arrives(n)
  /\ messages' = messages + 1
  /\ Send(n, event, messages + 1)

\* OnConnectedAsync: from now on the hub runs the calls of the session.
Accept(n) ==
  /\ Accepted(n)
  /\ UNCHANGED <<hubConnectionVars, pageVars, clientVars, inbox, calls, openedAs, messages>>

\* OnConnectedAsync throws: SignalR closes the connection for good.
Reject(n) ==
  /\ TurnedAway(n)
  /\ calls' = [calls EXCEPT ![n] = <<>>]
  /\ Send(n, "Close", 0)
  /\ UNCHANGED <<hubConnectionVars, pageVars, clientVars, openedAs, messages>>

\* The call of session n that the hub runs, or is about to run.
IsNext(n, method) == Serves(n) /\ calls[n] # <<>> /\ Head(calls[n]).method = method

\* (mutant) The hub runs the calls of a session in any order.
RunsAny(n, method) ==
  /\ Serves(n)
  /\ \E i \in 1..Len(calls[n]) :
       /\ calls[n][i].method = method
       /\ calls' = [calls EXCEPT ![n] = RemoveAt(@, i)]
  /\ UNCHANGED <<hubConnectionVars, pageVars, clientVars, openedAs>>

\* The hub is through with the next call of session n.
Runs(n, method) ==
  /\ IsNext(n, method)
  /\ calls' = [calls EXCEPT ![n] = Tail(@)]
  /\ UNCHANGED <<hubConnectionVars, pageVars, clientVars, openedAs>>

\* The registration is in the storage, or the group: others find the session
\* before the call is over.
RegisterTeacher(n) ==
  /\ IsNext(n, "RegisterTeacher")
  /\ RegisteredAs(n, "teacher")
  /\ UNCHANGED <<hubConnectionVars, pageVars, clientVars, inbox, calls, openedAs, messages>>

RegisterStudent(n) ==
  /\ IsNext(n, "RegisterStudent")
  /\ RegisteredAs(n, "student")
  /\ UNCHANGED <<hubConnectionVars, pageVars, clientVars, inbox, calls, openedAs, messages>>

\* The reply ends the call; it may not arrive, or the call may throw before it.
ReplyRegistration(n) ==
  /\ IsRegistered(n)
  /\ Runs(n, "RegisterTeacher") \/ Runs(n, "RegisterStudent")
  /\ SendNext(n, "RegisterSuccess") \/ UNCHANGED <<inbox, messages>>
  /\ UNCHANGED hubSessionVars

\* The teacher is missing or offline: the student is not told.
RefuseStudent(n) ==
  /\ ~IsRegistered(n)
  /\ Runs(n, "RegisterStudent")
  /\ UNCHANGED <<hubSessionVars, inbox, messages>>

\* t.allowLogin is refused to a connection that did not register as a teacher.
AllowLogin(n) ==
  /\ Runs(n, "t.allowLogin")
  /\ \/ Denied(n)
     \/ server[n] = "teacher" /\ UNCHANGED hubSessionVars
  /\ UNCHANGED <<inbox, messages>>

\* Feedback and Status change nothing that this window gets to see.
ServeOther(n) ==
  /\ Runs(n, "Feedback") \/ Runs(n, "Status")
  /\ UNCHANGED <<hubSessionVars, inbox, messages>>

\* Others make the hub send something to a registered session.
Push(n) ==
  /\ IsRegistered(n)
  /\ \E event \in {"ReceiveMessage", "Timeout"} : SendNext(n, event)
  /\ UNCHANGED <<hubConnectionVars, pageVars, clientVars, calls, hubSessionVars, openedAs>>

\* The hub notices that the transport of a session is gone, or ends it.
SessionEnds(n) ==
  /\ Ended(n)
  /\ calls' = [calls EXCEPT ![n] = <<>>]
  /\ UNCHANGED <<hubConnectionVars, pageVars, clientVars, inbox, openedAs, messages>>

-----------------------------------------------------------------------------
Next ==
  \/ \E p \in Routes : Render(p)
  \/ Connect \/ ConnectRejected \/ Teacher2Effect \/ StepEffect \/ Click
  \/ Connected \/ ConnectFails \/ OnReconnecting \/ OnReconnected \/ RetryFails \/ OnClose
  \/ Receive \/ FeedbackSent \/ FeedbackFails \/ ReceiveTimeout \/ ReceiveClose
  \/ \E n \in Sessions :
       \/ Accept(n) \/ Reject(n)
       \/ RegisterTeacher(n) \/ RegisterStudent(n) \/ ReplyRegistration(n) \/ RefuseStudent(n)
       \/ AllowLogin(n) \/ ServeOther(n) \/ Push(n) \/ SessionEnds(n)

Spec == Init /\ [][Next]_vars

\* React runs the effects of a page; every attempt to connect, and the end of
\* the transport, comes out one way or the other.
Fairness ==
  /\ WF_vars(Connect \/ ConnectRejected \/ Teacher2Effect \/ StepEffect)
  /\ WF_vars(Connected \/ ConnectFails)
  /\ WF_vars(OnReconnected \/ RetryFails \/ OnClose)

FairSpec == Spec /\ Fairness

-----------------------------------------------------------------------------
(***************************************************************************)
(* Properties                                                              *)
(***************************************************************************)

\* Types.  A start() is pending exactly while the connection is Connecting.
TypeOK ==
  /\ HubConnectionTypeOK
  /\ mount \in 0..MaxMounts /\ page \in Routes \cup {"none"} /\ effectRan \in BOOLEAN
  /\ visited \subseteq Routes /\ title \in BOOLEAN /\ shown \subseteq 1..MaxMessages
  /\ callback \in [Callbacks -> 0..MaxMounts]
  /\ starter \in [mount : 0..MaxMounts, page : Routes \cup {"none"}]
  /\ (starter.page \in Connecting) <=> (connectionState = "Connecting")
  /\ alerted \subseteq Mounts /\ clicks \in 0..MaxClicks
  /\ inbox \in Seq(Message) /\ awaiting \in Seq(Message)
  /\ calls \in [Sessions -> Seq(Call)]
  /\ server \in [Sessions -> ServerStates]
  /\ openedAs \in [Sessions -> Connecting \cup {"none"}]
  /\ denied \subseteq Sessions /\ messages \in 0..MaxMessages

\* A call of session n to register.
Registering(n) == {i \in 1..Len(calls[n]) : calls[n][i].method \in {"RegisterTeacher", "RegisterStudent"}}

\* A connection registers at most once (a registered one has no such call but
\* the one that is being run), as what the page registers as whose
\* start() opened it, whatever page the window shows by then; one that an
\* automatic reconnection opened never does.  This is what ProxyHub assumes of
\* its callers (signalRClientBuilder.ts, Teacher.tsx, Student.tsx).
RegisteredOnce ==
  \A n \in Sessions :
    /\ \A i \in Registering(n) :
         /\ Registering(n) = {i}
         /\ i = 1 \/ ~IsRegistered(n)
         /\ openedAs[n] # "none"
         /\ calls[n][i].method = Registration(openedAs[n])
    /\ server[n] = "teacher" => openedAs[n] = "Teacher"
    /\ server[n] = "student" => openedAs[n] = "Student"

\* A message is answered on the connection it was sent to, by which alone
\* MessageHistory.Feedback finds its receiver, however the window reconnects.
AckedByReceiver ==
  \A n \in Sessions : \A i \in 1..Len(calls[n]) : calls[n][i].session = n

\* Whoever may click allowLogin on a connection that the Teacher page opened is
\* served: its registration is in the hub before the command.
CommandsServed == \A n \in denied : openedAs[n] # "Teacher"

\* A message that has been answered is listed by the Teacher or Student page
\* on screen, whichever page was there when it came.
AnsweredIsShown ==
  [][(FeedbackSent /\ effectRan /\ page \in Connecting) => Head(awaiting).id \in shown']_vars

\* When a connection is over for good, a Student page on screen shows that,
\* whichever page had opened it.
ClosedIsShown == [][(OnClose /\ page = "Student" /\ effectRan) => ~title']_vars

\* Pages that have yet to call start(), or whose start() is pending.
Waiting ==
  {i \in Mounts : \/ i = mount /\ page \in Connecting /\ ~effectRan
                  \/ i = starter.mount}

\* A page stops waiting only when it is connected or has shown an alert ...
ServedOrTold == [][\A i \in Waiting \ Waiting' : isConnected' \/ i \in alerted']_vars

\* ... and no page waits for ever: every page that connects gets its connection
\* or shows an alert, on screen or not.
PageServedOrTold == ServedOrTold /\ []<>(Waiting = {})

\* A connection does not stay on its way between states.
Settles == (~isConnected) ~> (connectionState \in {"Connected", "Disconnected"})
==============================================================================
