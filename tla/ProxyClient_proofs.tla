------------------------- MODULE ProxyClient_proofs -------------------------
(***************************************************************************)
(* The browser window keeps its promises, for any number of pages, clicks, *)
(* messages, sessions and retries.                                         *)
(***************************************************************************)
EXTENDS ProxyClient, TLAPS

\* A page that connects has its callbacks once its effects ran; a pending
\* start() belongs to a page that was rendered.
PageInv ==
  /\ page \in Connecting => mount # 0
  /\ (page \in Connecting /\ effectRan) =>
       /\ callback["registed"] = mount /\ callback["received"] = mount
       /\ page = "Student" => callback["close"] = mount
  /\ starter.page \in Connecting <=> starter.mount # 0

\* What is under way came on the current session, and none of it goes to a
\* callback that no page sets.
Sent == {"RegisterSuccess", "ReceiveMessage", "Timeout", "Close"}

InboxOK(m) == m.session = sessions /\ m.event \in Sent /\ (m.event # "Close" => m.id # 0)
AwaitingOK(m) == m.event \in {"RegisterSuccess", "ReceiveMessage"} /\ m.id # 0

InboxInv ==
  /\ inbox # <<>> => isConnected
  /\ \A i \in 1..Len(inbox) : InboxOK(inbox[i])
  /\ \A i \in 1..Len(awaiting) : AwaitingOK(awaiting[i])

\* A registration is the first call of its session, until the reply ends it, and
\* a session that the Teacher page opened has it until it is registered.
SessionOK(n) ==
  /\ n > sessions => calls[n] = <<>> /\ server[n] = "none" /\ openedAs[n] = "none" /\ n \notin denied
  /\ \A i \in 1..Len(calls[n]) : calls[n][i].session = n
  /\ \A i \in Registering(n) :
       /\ i = 1
       /\ openedAs[n] # "none"
       /\ calls[n][i].method = Registration(openedAs[n])
  /\ server[n] = "teacher" => openedAs[n] = "Teacher"
  /\ server[n] = "student" => openedAs[n] = "Student"
  /\ openedAs[n] = "Teacher" =>
       n \notin denied /\ (server[n] \in {"open", "accepted"} => 1 \in Registering(n))

SessionInv == \A n \in Sessions : SessionOK(n)

IInv == TypeOK /\ PageInv /\ InboxInv /\ SessionInv

-----------------------------------------------------------------------------
(***************************************************************************)
(* Sequences                                                               *)
(***************************************************************************)

LEMMA AppendFacts ==
  ASSUME NEW S, NEW s \in Seq(S), NEW x \in S
  PROVE  /\ Append(s, x) \in Seq(S) /\ Append(s, x) # <<>>
         /\ Len(s) \in Nat /\ Len(Append(s, x)) = Len(s) + 1
         /\ \A i \in 1..Len(s) : Append(s, x)[i] = s[i]
         /\ Append(s, x)[Len(s) + 1] = x
OBVIOUS

LEMMA TailFacts ==
  ASSUME NEW S, NEW s \in Seq(S), s # <<>>
  PROVE  /\ Head(s) \in S /\ Head(s) = s[1] /\ Len(s) \in Nat /\ Len(s) >= 1
         /\ Tail(s) \in Seq(S) /\ Len(Tail(s)) = Len(s) - 1
         /\ \A i \in 1..(Len(s) - 1) : Tail(s)[i] = s[i + 1]
OBVIOUS

LEMMA EmptyFacts == \A S : <<>> \in Seq(S) /\ Len(<<>>) = 0
OBVIOUS

LEMMA ExceptOutside ==
  ASSUME NEW D, NEW R, NEW f \in [D -> R], NEW x, x \notin D, NEW e
  PROVE  [f EXCEPT ![x] = e] = f
OBVIOUS

\* What the hub may send fits into the inbox.
LEMMA SendType ==
  ASSUME TypeOK, NEW n \in Sessions, NEW event \in ClientEventType \cup {"Close"},
         NEW id \in 0..MaxMessages, Send(n, event, id)
  PROVE  inbox' \in Seq(Message)
<1>1. [event |-> event, id |-> id, session |-> n] \in Message
  BY DEF Message
<1> QED
  BY <1>1, AppendFacts DEF Send, TypeOK

-----------------------------------------------------------------------------
(***************************************************************************)
(* Types                                                                   *)
(***************************************************************************)

LEMMA InitIInv == Init => IInv
<1> SUFFICES ASSUME Init PROVE IInv
  OBVIOUS
<1> USE BoundsAssumption, RetriesAssumption, SessionsAssumption, EmptyFacts
<1>1. TypeOK
  <2>1. HubConnectionTypeOK
    BY DEF Init, HubConnectionInit, HubConnectionTypeOK, HubConnectionState
  <2>2. /\ starter \in [mount : 0..MaxMounts, page : Routes \cup {"none"}]
        /\ (starter.page \in Connecting) <=> (connectionState = "Connecting")
    BY DEF Init, HubConnectionInit, NoStarter, Connecting
  <2>3. /\ mount \in 0..MaxMounts /\ page \in Routes \cup {"none"}
        /\ shown \subseteq 1..MaxMessages /\ visited \subseteq Routes
        /\ alerted \subseteq Mounts /\ clicks \in 0..MaxClicks
        /\ callback \in [Callbacks -> 0..MaxMounts]
    BY DEF Init
  <2>6. effectRan \in BOOLEAN /\ title \in BOOLEAN
    BY DEF Init
  <2>4. /\ inbox \in Seq(Message) /\ awaiting \in Seq(Message)
        /\ calls \in [Sessions -> Seq(Call)]
    BY DEF Init
  <2>5. /\ server \in [Sessions -> ServerStates]
        /\ openedAs \in [Sessions -> Connecting \cup {"none"}]
        /\ denied \subseteq Sessions /\ messages \in 0..MaxMessages
    BY DEF Init, ServerStates
  <2> QED
    BY <2>1, <2>2, <2>3, <2>4, <2>5, <2>6 DEF TypeOK
<1>2. PageInv /\ InboxInv
  BY DEF Init, PageInv, InboxInv, NoStarter, Connecting
<1>3. SessionInv
  BY DEF Init, SessionInv, SessionOK, Registering, HubConnectionInit
<1> QED
  BY <1>1, <1>2, <1>3 DEF IInv

\* The state machine of the library keeps its types.
LEMMA HubConnectionType ==
  ASSUME HubConnectionTypeOK,
         \/ Start \/ StartRejected \/ Started \/ StartFailed \/ ConnectionLost \/ StopInternal
         \/ CompleteClose \/ Reconnected \/ RetryFailed \/ GivenUp \/ UNCHANGED hubConnectionVars
  PROVE  HubConnectionTypeOK'
<1> USE RetriesAssumption, SessionsAssumption DEF HubConnectionTypeOK, HubConnectionState, Moves, Opens
<1>1. CASE Start \/ StartFailed \/ ConnectionLost \/ StopInternal \/ CompleteClose \/ GivenUp
  BY <1>1 DEF Start, StartFailed, ConnectionLost, StopInternal, CompleteClose, GivenUp
<1>2. CASE Started \/ Reconnected
  BY <1>2 DEF Started, Reconnected
<1>3. CASE RetryFailed
  BY <1>3 DEF RetryFailed
<1>4. CASE StartRejected \/ UNCHANGED hubConnectionVars
  BY <1>4 DEF StartRejected, hubConnectionVars
<1> QED
  BY <1>1, <1>2, <1>3, <1>4

\* The steps of the page, of the connection, and of the handlers of messages.
PageStep ==
  \/ \E p \in Routes : Render(p)
  \/ Connect \/ ConnectRejected \/ Teacher2Effect \/ StepEffect \/ Click

ConnectionStep == Connected \/ ConnectFails \/ OnReconnecting \/ OnReconnected \/ RetryFails \/ OnClose

MessageStep == Receive \/ FeedbackSent \/ FeedbackFails \/ ReceiveTimeout \/ ReceiveClose

\* A step of the hub.
HubStep(n) ==
  \/ Accept(n) \/ Reject(n)
  \/ RegisterTeacher(n) \/ RegisterStudent(n) \/ ReplyRegistration(n) \/ RefuseStudent(n)
  \/ AllowLogin(n) \/ ServeOther(n) \/ Push(n) \/ SessionEnds(n)

LEMMA NextSteps ==
  Next => PageStep \/ ConnectionStep \/ MessageStep \/ \E n \in Sessions : HubStep(n)
BY DEF Next, PageStep, ConnectionStep, MessageStep, HubStep

\* What a page does keeps the types.
LEMMA PageType ==
  ASSUME TypeOK, PageInv, PageStep
  PROVE  TypeOK'
<1> USE BoundsAssumption
<1>0. page \in Connecting => page \in Routes /\ mount \in Mounts
  BY DEF TypeOK, PageInv, Connecting, Routes, Mounts
<1>1. ASSUME NEW p \in Routes, Render(p) PROVE TypeOK'
  <2>1. HubConnectionTypeOK'
    BY <1>1, HubConnectionType DEF Render, TypeOK
  <2>2. title' \in BOOLEAN /\ effectRan' \in BOOLEAN
    BY <1>1 DEF Render
  <2>3. /\ mount' \in 0..MaxMounts /\ page' \in Routes \cup {"none"}
        /\ visited' \subseteq Routes /\ shown' \subseteq 1..MaxMessages
    BY <1>1 DEF Render, TypeOK
  <2>4. UNCHANGED <<hubConnectionVars, clientVars, inbox, hubVars>>
    BY <1>1 DEF Render
  <2> QED
    BY <2>1, <2>2, <2>3, <2>4 DEF TypeOK, hubConnectionVars, clientVars, hubVars, hubSessionVars
<1>2. CASE Connect
  <2>1. HubConnectionTypeOK'
    BY <1>2, HubConnectionType DEF Connect, TypeOK
  <2>2. callback' \in [Callbacks -> 0..MaxMounts]
    BY <1>2 DEF Connect, EffectBegins, TypeOK, TeacherCallbacks, StudentCallbacks
  <2> QED
    BY <1>0, <1>2, <2>1, <2>2 DEF Connect, EffectBegins, TypeOK, Start, Moves, hubVars, hubSessionVars
<1>3. CASE ConnectRejected
  <2>1. HubConnectionTypeOK'
    BY <1>3, HubConnectionType DEF ConnectRejected, TypeOK
  <2>2. callback' \in [Callbacks -> 0..MaxMounts]
    BY <1>3 DEF ConnectRejected, EffectBegins, TypeOK, TeacherCallbacks, StudentCallbacks
  <2> QED
    BY <1>0, <1>3, <2>1, <2>2
    DEF ConnectRejected, EffectBegins, TypeOK, StartRejected, hubConnectionVars, hubVars, hubSessionVars
<1>4. CASE Teacher2Effect
  <2>1. HubConnectionTypeOK'
    BY <1>4, HubConnectionType DEF Teacher2Effect, TypeOK
  <2> QED
    BY <1>4, <2>1 DEF Teacher2Effect, Teacher2Callbacks, TypeOK, hubConnectionVars, hubVars, hubSessionVars
<1>5. CASE StepEffect
  <2>1. HubConnectionTypeOK'
    BY <1>5, HubConnectionType DEF StepEffect, TypeOK
  <2> QED
    BY <1>5, <2>1 DEF StepEffect, TypeOK, hubConnectionVars, clientVars, hubVars, hubSessionVars
<1>6. CASE Click
  <2>1. HubConnectionTypeOK'
    BY <1>6, HubConnectionType DEF Click, TypeOK
  <2> DEFINE call == [method |-> Command(page), session |-> sessions]
  <2>2. ASSUME sessions \in Sessions PROVE call \in Call
    BY <2>2, <1>6, CommandsAssumption DEF Click, Call
  <2>3. calls' \in [Sessions -> Seq(Call)]
    <3> HIDE DEF call
    <3>1. calls' = [calls EXCEPT ![sessions] = Append(calls[sessions], call)]
      BY <1>6 DEF Click, call
    <3>2. CASE sessions \in Sessions
      BY <2>2, <3>1, <3>2, AppendFacts DEF TypeOK
    <3>3. CASE sessions \notin Sessions
      <4>1. calls \in [Sessions -> Seq(Call)]
        BY DEF TypeOK
      <4>2. calls' = calls
        BY <3>1, <3>3, <4>1, ExceptOutside
      <4> QED
        BY <4>1, <4>2
    <3> QED
      BY <3>2, <3>3
  <2> QED
    BY <1>6, <2>1, <2>3 DEF Click, TypeOK, hubConnectionVars, pageVars, hubSessionVars
<1> QED
  BY <1>1, <1>2, <1>3, <1>4, <1>5, <1>6 DEF PageStep

\* What happens to the connection keeps the types.
LEMMA ConnectionType ==
  ASSUME TypeOK, PageInv, ConnectionStep
  PROVE  TypeOK'
<1> USE SessionsAssumption
<1>0. HubConnectionTypeOK'
  BY HubConnectionType
  DEF ConnectionStep, TypeOK, Connected, ConnectFails, OnReconnecting, OnReconnected, RetryFails, OnClose
<1>1. CASE Connected
  <2>1. sessions + 1 \in Sessions /\ starter.page \in Connecting
    BY <1>1 DEF Connected, Started, Opens, TypeOK, HubConnectionTypeOK, Sessions
  <2>2. [method |-> Registration(starter.page), session |-> sessions + 1] \in Call
    BY <2>1 DEF Registration, Call, ServerEventType
  <2>3. calls' \in [Sessions -> Seq(Call)]
    BY <1>1, <2>1, <2>2 DEF Connected, TypeOK
  <2>4. /\ server' \in [Sessions -> ServerStates]
        /\ openedAs' \in [Sessions -> Connecting \cup {"none"}]
        /\ UNCHANGED denied
    BY <1>1, <2>1 DEF Connected, Opened, Becomes, ServerStates, TypeOK
  <2>5. /\ starter' \in [mount : 0..MaxMounts, page : Routes \cup {"none"}]
        /\ (starter'.page \in Connecting) <=> (connectionState' = "Connecting")
    BY <1>1, BoundsAssumption DEF Connected, Started, Opens, NoStarter, Connecting
  <2> QED
    BY <1>0, <1>1, <2>3, <2>4, <2>5 DEF Connected, TypeOK, pageVars
<1>2. CASE ConnectFails
  <2>1. starter.page \in Connecting
    BY <1>2 DEF ConnectFails, StartFailed, Moves, TypeOK
  <2>2. starter.mount \in Mounts
    BY <2>1 DEF TypeOK, PageInv, Mounts
  <2>3. /\ starter' \in [mount : 0..MaxMounts, page : Routes \cup {"none"}]
        /\ (starter'.page \in Connecting) <=> (connectionState' = "Connecting")
    BY <1>2, BoundsAssumption DEF ConnectFails, StartFailed, Moves, NoStarter, Connecting
  <2> QED
    BY <1>0, <1>2, <2>2, <2>3 DEF ConnectFails, TypeOK, pageVars, hubVars, hubSessionVars
<1>3. CASE OnReconnecting
  BY <1>0, <1>3, EmptyFacts
  DEF OnReconnecting, ConnectionLost, Moves, TypeOK, pageVars, clientVars, hubVars, hubSessionVars
<1>4. CASE OnReconnected
  BY <1>0, <1>4 DEF OnReconnected, Reconnected, Opens, Opened, Becomes, ServerStates, TypeOK,
                          Sessions, pageVars, clientVars
<1>5. CASE RetryFails
  BY <1>0, <1>5 DEF RetryFails, RetryFailed, Moves, TypeOK, pageVars, clientVars, hubVars, hubSessionVars
<1>6. CASE OnClose
  BY <1>0, <1>6, EmptyFacts DEF OnClose, CompleteClose, GivenUp, Moves, TypeOK, clientVars, hubVars, hubSessionVars
<1> QED
  BY <1>1, <1>2, <1>3, <1>4, <1>5, <1>6 DEF ConnectionStep

\* A list and a heading stay what they are.
LEMMA ListsType ==
  ASSUME TypeOK, NEW id \in 1..MaxMessages, Lists(id) \/ UNCHANGED <<shown, title>>
  PROVE  shown' \subseteq 1..MaxMessages /\ title' \in BOOLEAN
<1>1. shown' \subseteq 1..MaxMessages
  BY DEF Lists, TypeOK
<1>2. CASE title' = isConnected
  BY <1>1, <1>2 DEF isConnected
<1>3. CASE UNCHANGED title
  BY <1>1, <1>3 DEF TypeOK
<1> QED
  BY <1>2, <1>3 DEF Lists

\* Handling a message keeps the types.
LEMMA MessageType ==
  ASSUME TypeOK, InboxInv, MessageStep
  PROVE  TypeOK'
<1>0. HubConnectionTypeOK'
  BY HubConnectionType
  DEF MessageStep, TypeOK, Receive, FeedbackSent, FeedbackFails, ReceiveTimeout, ReceiveClose, hubConnectionVars
<1>1. /\ inbox # <<>> => /\ Head(inbox) \in Message /\ Tail(inbox) \in Seq(Message)
                         /\ InboxOK(Head(inbox))
      /\ awaiting # <<>> => /\ Head(awaiting) \in Message /\ Tail(awaiting) \in Seq(Message)
                            /\ AwaitingOK(Head(awaiting))
  BY TailFacts DEF TypeOK, InboxInv
<1>2. CASE Receive
  <2> DEFINE call == [method |-> "Feedback", session |-> Head(inbox).session]
  <2>1. call \in Call /\ sessions \in Sessions
    BY <1>1, <1>2 DEF Receive, Call, Message, ServerEventType, InboxOK
  <2>2. calls' \in [Sessions -> Seq(Call)]
    <3> HIDE DEF call
    <3>1. calls' = [calls EXCEPT ![sessions] = Append(calls[sessions], call)]
      BY <1>2 DEF Receive, call
    <3> QED
      BY <2>1, <3>1, AppendFacts DEF TypeOK
  <2>3. awaiting' \in Seq(Message) /\ inbox' \in Seq(Message)
    BY <1>1, <1>2, AppendFacts DEF Receive, TypeOK
  <2> QED
    BY <1>0, <1>2, <2>2, <2>3 DEF Receive, TypeOK, hubConnectionVars, pageVars, hubSessionVars
<1>3. CASE FeedbackSent
  <2>0. Head(awaiting).id \in 1..MaxMessages
    BY <1>1, <1>3, BoundsAssumption DEF FeedbackSent, AwaitingOK, Message
  <2>1. shown' \subseteq 1..MaxMessages /\ title' \in BOOLEAN
    BY <1>3, <2>0, ListsType DEF FeedbackSent
  <2> QED
    BY <1>0, <1>1, <1>3, <2>1 DEF FeedbackSent, TypeOK, hubConnectionVars, hubVars, hubSessionVars
<1>4. CASE FeedbackFails
  BY <1>0, <1>1, <1>4 DEF FeedbackFails, TypeOK, hubConnectionVars, pageVars, hubVars, hubSessionVars
<1>5. CASE ReceiveTimeout
  <2>0. Head(inbox).id \in 1..MaxMessages
    BY <1>1, <1>5, BoundsAssumption DEF ReceiveTimeout, InboxOK, Message
  <2>1. shown' \subseteq 1..MaxMessages /\ title' \in BOOLEAN
    BY <1>5, <2>0, ListsType DEF ReceiveTimeout
  <2> QED
    BY <1>0, <1>1, <1>5, <2>1 DEF ReceiveTimeout, TypeOK, hubConnectionVars, clientVars, hubVars, hubSessionVars
<1>6. CASE ReceiveClose
  BY <1>0, <1>6, EmptyFacts
  DEF ReceiveClose, StopInternal, Moves, TypeOK, pageVars, clientVars, hubVars, hubSessionVars
<1> QED
  BY <1>2, <1>3, <1>4, <1>5, <1>6 DEF MessageStep

\* What a step of the hub sends has its next number; Close has none.
LEMMA HubSends ==
  ASSUME TypeOK, NEW n \in Sessions, HubStep(n)
  PROVE  \/ UNCHANGED <<inbox, messages>>
         \/ /\ UNCHANGED messages
            /\ Send(n, "Close", 0)
         \/ /\ messages < MaxMessages /\ messages' = messages + 1
            /\ \E event \in {"RegisterSuccess", "ReceiveMessage", "Timeout"} : Send(n, event, messages + 1)
<1> USE DEF SendNext
<1>1. CASE Reject(n)
  BY <1>1 DEF Reject
<1>2. CASE ReplyRegistration(n)
  BY <1>2 DEF ReplyRegistration
<1>3. CASE Push(n)
  BY <1>3 DEF Push
<1>4. CASE \/ Accept(n) \/ RegisterTeacher(n) \/ RegisterStudent(n) \/ RefuseStudent(n)
           \/ AllowLogin(n) \/ ServeOther(n) \/ SessionEnds(n)
  BY <1>4 DEF Accept, RegisterTeacher, RegisterStudent, RefuseStudent, AllowLogin, ServeOther, SessionEnds
<1> QED
  BY <1>1, <1>2, <1>3, <1>4 DEF HubStep

\* What a step of the hub does to the calls of its session, and to no other.
LEMMA HubCalls ==
  ASSUME TypeOK, NEW n \in Sessions, HubStep(n)
  PROVE  /\ UNCHANGED <<hubConnectionVars, pageVars, clientVars, openedAs>>
         /\ \/ UNCHANGED calls
            \/ calls' = [calls EXCEPT ![n] = <<>>]
            \/ calls[n] # <<>> /\ calls' = [calls EXCEPT ![n] = Tail(calls[n])]
         /\ \E s \in {server[n], "accepted", "teacher", "student", "gone"} : server' = [server EXCEPT ![n] = s]
         /\ \E D \in {{}, {n}} : denied' = denied \cup D
<1> DEFINE Goal == /\ UNCHANGED <<hubConnectionVars, pageVars, clientVars, openedAs>>
                   /\ \/ UNCHANGED calls
                      \/ calls' = [calls EXCEPT ![n] = <<>>]
                      \/ calls[n] # <<>> /\ calls' = [calls EXCEPT ![n] = Tail(calls[n])]
                   /\ \E s \in {server[n], "accepted", "teacher", "student", "gone"} :
                        server' = [server EXCEPT ![n] = s]
                   /\ \E D \in {{}, {n}} : denied' = denied \cup D
<1>0. server = [server EXCEPT ![n] = server[n]] /\ denied = denied \cup {}
  BY DEF TypeOK
<1> USE DEF Becomes, hubSessionVars
<1>1. CASE Accept(n) \/ Reject(n) \/ SessionEnds(n)
  BY <1>0, <1>1 DEF Accept, Accepted, Reject, TurnedAway, SessionEnds, Ended
<1>2. CASE RegisterTeacher(n) \/ RegisterStudent(n)
  BY <1>0, <1>2 DEF RegisterTeacher, RegisterStudent, RegisteredAs
<1>3. CASE ReplyRegistration(n)
  BY <1>0, <1>3 DEF ReplyRegistration, Runs, IsNext
<1>4. CASE RefuseStudent(n) \/ ServeOther(n)
  BY <1>0, <1>4 DEF RefuseStudent, ServeOther, Runs, IsNext
<1>5. CASE AllowLogin(n)
  BY <1>0, <1>5 DEF AllowLogin, Denied, Runs, IsNext
<1>6. CASE Push(n)
  BY <1>0, <1>6 DEF Push
<1> QED
  BY <1>1, <1>2, <1>3, <1>4, <1>5, <1>6 DEF HubStep

\* A step of the hub keeps the types.
LEMMA HubType ==
  ASSUME TypeOK, NEW n \in Sessions, HubStep(n)
  PROVE  TypeOK'
<1> USE BoundsAssumption
<1>1. UNCHANGED <<hubConnectionVars, pageVars, clientVars, openedAs>>
  BY HubCalls
<1>2. HubConnectionTypeOK'
  BY <1>1, HubConnectionType DEF TypeOK
<1>3. calls' \in [Sessions -> Seq(Call)]
  <2>1. calls[n] \in Seq(Call) /\ (calls[n] # <<>> => Tail(calls[n]) \in Seq(Call))
    BY TailFacts DEF TypeOK
  <2>2. \/ UNCHANGED calls
        \/ calls' = [calls EXCEPT ![n] = <<>>]
        \/ calls[n] # <<>> /\ calls' = [calls EXCEPT ![n] = Tail(calls[n])]
    BY HubCalls
  <2>3. calls \in [Sessions -> Seq(Call)] /\ <<>> \in Seq(Call)
    BY EmptyFacts DEF TypeOK
  <2> QED
    BY <2>1, <2>2, <2>3
<1>4. server' \in [Sessions -> ServerStates]
  <2>1. PICK s \in {server[n], "accepted", "teacher", "student", "gone"} : server' = [server EXCEPT ![n] = s]
    BY HubCalls
  <2> QED
    BY <2>1 DEF TypeOK, ServerStates, Roles
<1>5. denied' \subseteq Sessions
  <2>1. PICK D \in {{}, {n}} : denied' = denied \cup D
    BY HubCalls
  <2> QED
    BY <2>1 DEF TypeOK
<1>6. inbox' \in Seq(Message) /\ messages' \in 0..MaxMessages
  <2>1. messages < MaxMessages => messages + 1 \in 0..MaxMessages
    BY DEF TypeOK
  <2>2. "Close" \in ClientEventType \cup {"Close"} /\ 0 \in 0..MaxMessages
        /\ {"RegisterSuccess", "ReceiveMessage", "Timeout"} \subseteq ClientEventType \cup {"Close"}
    BY DEF ClientEventType
  <2>3. CASE UNCHANGED <<inbox, messages>>
    BY <2>3 DEF TypeOK
  <2>4. CASE UNCHANGED messages /\ Send(n, "Close", 0)
    BY <2>2, <2>4, SendType DEF TypeOK
  <2>5. CASE /\ messages < MaxMessages /\ messages' = messages + 1
             /\ \E event \in {"RegisterSuccess", "ReceiveMessage", "Timeout"} : Send(n, event, messages + 1)
    BY <2>1, <2>2, <2>5, SendType
  <2> QED
    BY <2>3, <2>4, <2>5, HubSends
<1> QED
  BY <1>1, <1>2, <1>3, <1>4, <1>5, <1>6 DEF TypeOK, hubConnectionVars, pageVars, clientVars

-----------------------------------------------------------------------------
(***************************************************************************)
(* Callbacks and messages under way                                        *)
(***************************************************************************)

LEMMA PageInvStep ==
  ASSUME TypeOK, PageInv,
         PageStep \/ ConnectionStep \/ MessageStep \/ \E n \in Sessions : HubStep(n)
  PROVE  PageInv'
<1> USE DEF PageInv, TypeOK
<1>1. ASSUME NEW p \in Routes, Render(p) PROVE PageInv'
  BY <1>1 DEF Render, clientVars
<1>2. ASSUME Connect \/ ConnectRejected PROVE PageInv'
  <2>1. mount' = mount /\ page' = page /\ page \in Connecting
    BY <1>2 DEF Connect, ConnectRejected
  <2>2. page = "Teacher" => callback'["registed"] = mount /\ callback'["received"] = mount
    BY <1>2 DEF Connect, ConnectRejected, EffectBegins, TeacherCallbacks, Callbacks
  <2>3. page = "Student" =>
          callback'["registed"] = mount /\ callback'["received"] = mount /\ callback'["close"] = mount
    BY <1>2 DEF Connect, ConnectRejected, EffectBegins, StudentCallbacks, Callbacks
  <2>4. starter' \in {starter, [mount |-> mount, page |-> page]}
    BY <1>2 DEF Connect, ConnectRejected
  <2> QED
    BY <2>1, <2>2, <2>3, <2>4 DEF Connecting
<1>3. CASE Teacher2Effect \/ StepEffect
  BY <1>3 DEF Teacher2Effect, StepEffect, clientVars, Connecting
<1>4. CASE Click
  BY <1>4 DEF Click, pageVars
<1>5. CASE ConnectionStep
  <2>1. UNCHANGED <<mount, page, effectRan, callback>> /\ starter' \in {starter, NoStarter}
    BY <1>5 DEF ConnectionStep, Connected, ConnectFails, OnReconnecting, OnReconnected, RetryFails, OnClose,
                pageVars, clientVars
  <2> QED
    BY <2>1 DEF NoStarter, Connecting
<1>6. CASE MessageStep
  BY <1>6 DEF MessageStep, Receive, FeedbackSent, FeedbackFails, ReceiveTimeout, ReceiveClose,
              pageVars, clientVars
<1>7. ASSUME NEW n \in Sessions, HubStep(n) PROVE PageInv'
  <2>1. UNCHANGED <<hubConnectionVars, pageVars, clientVars, openedAs>>
    BY <1>7, HubCalls
  <2> QED
    BY <2>1 DEF pageVars, clientVars
<1> QED
  BY <1>1, <1>2, <1>3, <1>4, <1>5, <1>6, <1>7 DEF PageStep

LEMMA InboxInvStep ==
  ASSUME TypeOK, InboxInv,
         PageStep \/ ConnectionStep \/ MessageStep \/ \E n \in Sessions : HubStep(n)
  PROVE  InboxInv'
<1> USE DEF InboxInv, InboxOK, AwaitingOK, isConnected
<1>1. CASE PageStep
  <2>1. UNCHANGED <<inbox, awaiting, sessions>> /\ (isConnected => isConnected')
    BY <1>1 DEF PageStep, Render, Connect, ConnectRejected, Teacher2Effect, StepEffect, Click, clientVars,
                hubConnectionVars, Start, StartRejected, Moves
  <2> QED
    BY <2>1
<1>2. CASE ConnectionStep
  <2>1. inbox' = <<>> /\ UNCHANGED awaiting
    BY <1>2 DEF ConnectionStep, Connected, Started, Opens, ConnectFails, StartFailed, Moves, OnReconnecting,
                OnReconnected, Reconnected, RetryFails, RetryFailed, OnClose, clientVars
  <2> QED
    BY <2>1, EmptyFacts
<1>3. inbox # <<>> => /\ Head(inbox) = inbox[1] /\ Len(Tail(inbox)) = Len(inbox) - 1
                      /\ Len(inbox) \in Nat /\ Len(inbox) >= 1
                      /\ \A i \in 1..(Len(inbox) - 1) : Tail(inbox)[i] = inbox[i + 1]
  BY TailFacts DEF TypeOK
<1>4. awaiting # <<>> => /\ Len(Tail(awaiting)) = Len(awaiting) - 1 /\ Len(awaiting) \in Nat
                         /\ \A i \in 1..(Len(awaiting) - 1) : Tail(awaiting)[i] = awaiting[i + 1]
  BY TailFacts DEF TypeOK
<1>5. CASE Receive
  <2>1. /\ UNCHANGED sessions /\ isConnected' /\ inbox' = Tail(inbox) /\ inbox # <<>>
        /\ awaiting' = Append(awaiting, Head(inbox))
        /\ Head(inbox).event \in Answered
    BY <1>5 DEF Receive, hubConnectionVars
  <2>2. AwaitingOK(Head(inbox))
    BY <1>3, <2>1 DEF Answered, Sent
  <2>3. /\ Len(awaiting) \in Nat /\ Len(awaiting') = Len(awaiting) + 1
        /\ \A i \in 1..Len(awaiting) : awaiting'[i] = awaiting[i]
        /\ awaiting'[Len(awaiting) + 1] = Head(inbox)
    <3>1. awaiting \in Seq(Message) /\ Head(inbox) \in Message
      BY <2>1, TailFacts DEF TypeOK
    <3> QED
      BY <2>1, <3>1, AppendFacts
  <2>4. \A i \in 1..Len(awaiting') : AwaitingOK(awaiting'[i])
    <3> SUFFICES ASSUME NEW i \in 1..Len(awaiting') PROVE AwaitingOK(awaiting'[i])
      OBVIOUS
    <3>1. i \in 1..Len(awaiting) \/ i = Len(awaiting) + 1
      BY <2>3
    <3> QED
      BY <2>2, <2>3, <3>1
  <2>5. \A i \in 1..Len(inbox') : inbox'[i] = inbox[i + 1] /\ i + 1 \in 1..Len(inbox)
    BY <1>3, <2>1
  <2> QED
    BY <2>1, <2>4, <2>5
<1>6. CASE FeedbackSent \/ FeedbackFails
  <2>1. UNCHANGED <<inbox, sessions, connectionState>> /\ awaiting # <<>> /\ awaiting' = Tail(awaiting)
    BY <1>6 DEF FeedbackSent, FeedbackFails, hubConnectionVars
  <2>2. \A i \in 1..Len(awaiting') : awaiting'[i] = awaiting[i + 1] /\ i + 1 \in 1..Len(awaiting)
    BY <1>4, <2>1
  <2> QED
    BY <2>1, <2>2
<1>7. CASE ReceiveTimeout
  <2>1. UNCHANGED <<awaiting, sessions, connectionState>> /\ inbox # <<>> /\ inbox' = Tail(inbox)
    BY <1>7 DEF ReceiveTimeout, clientVars, hubConnectionVars
  <2>2. \A i \in 1..Len(inbox') : inbox'[i] = inbox[i + 1] /\ i + 1 \in 1..Len(inbox)
    BY <1>3, <2>1
  <2> QED
    BY <2>1, <2>2
<1>8. CASE ReceiveClose
  BY <1>8, EmptyFacts DEF ReceiveClose, clientVars
<1>9. ASSUME NEW n \in Sessions, HubStep(n) PROVE InboxInv'
  <2>1. UNCHANGED <<awaiting, sessions, connectionState>>
    BY <1>9, HubCalls DEF hubConnectionVars, clientVars
  <2>2. CASE UNCHANGED inbox
    BY <2>1, <2>2
  <2>3. ASSUME NEW event \in Sent, NEW id \in 0..MaxMessages, event # "Close" => id # 0, Send(n, event, id)
        PROVE  InboxInv'
    <3> DEFINE m == [event |-> event, id |-> id, session |-> n]
    <3>1. CASE inbox' = inbox
      BY <2>1, <3>1
    <3>2. CASE isConnected /\ n = sessions /\ inbox' = Append(inbox, m)
      <4>1. m \in Message /\ inbox \in Seq(Message) /\ InboxOK(m)
        BY <2>3, <3>2 DEF Message, Sent, ClientEventType, TypeOK
      <4> HIDE DEF m
      <4>2. /\ Len(inbox) \in Nat /\ Len(inbox') = Len(inbox) + 1
            /\ \A i \in 1..Len(inbox) : inbox'[i] = inbox[i]
            /\ inbox'[Len(inbox) + 1] = m
        BY <3>2, <4>1, AppendFacts
      <4>3. \A i \in 1..Len(inbox') : InboxOK(inbox'[i])
        <5> SUFFICES ASSUME NEW i \in 1..Len(inbox') PROVE InboxOK(inbox'[i])
          OBVIOUS
        <5>1. i \in 1..Len(inbox) \/ i = Len(inbox) + 1
          BY <4>2
        <5> QED
          BY <4>1, <4>2, <5>1
      <4> QED
        BY <2>1, <3>2, <4>3
    <3> QED
      BY <2>3, <3>1, <3>2 DEF Send, Arrives
  <2>4. messages < MaxMessages => messages + 1 \in 0..MaxMessages /\ messages + 1 # 0
    BY BoundsAssumption DEF TypeOK
  <2> QED
    BY <1>9, <2>2, <2>3, <2>4, BoundsAssumption, HubSends DEF Sent
<1> QED
  BY <1>1, <1>2, <1>5, <1>6, <1>7, <1>8, <1>9 DEF MessageStep

-----------------------------------------------------------------------------
(***************************************************************************)
(* Sessions                                                                *)
(***************************************************************************)

IsRegistration(call) == call.method \in {"RegisterTeacher", "RegisterStudent"}

LEMMA SessionSame ==
  ASSUME NEW n \in Sessions, SessionOK(n), TypeOK, TypeOK', sessions <= sessions',
         calls'[n] = calls[n], server'[n] = server[n], openedAs'[n] = openedAs[n],
         n \in denied' <=> n \in denied
  PROVE  SessionOK(n)'
<1>1. n > sessions' => n > sessions
  BY DEF TypeOK, HubConnectionTypeOK, Sessions
<1> QED
  BY <1>1 DEF SessionOK, Registering

\* A call that is no registration is added behind the others.
LEMMA SessionAppend ==
  ASSUME NEW n \in Sessions, SessionOK(n), TypeOK, n <= sessions,
         NEW call \in Call, call.session = n, ~IsRegistration(call),
         calls' = [calls EXCEPT ![n] = Append(calls[n], call)],
         UNCHANGED <<server, openedAs, denied, sessions>>
  PROVE  SessionOK(n)'
<1>1. /\ Len(calls[n]) \in Nat /\ Len(calls'[n]) = Len(calls[n]) + 1
      /\ \A i \in 1..Len(calls[n]) : calls'[n][i] = calls[n][i]
      /\ calls'[n][Len(calls[n]) + 1] = call
  <2>1. calls[n] \in Seq(Call) /\ calls'[n] = Append(calls[n], call)
    BY DEF TypeOK
  <2> QED
    BY <2>1, AppendFacts
<1>2. ASSUME NEW i \in 1..Len(calls'[n]) PROVE i \in 1..Len(calls[n]) \/ calls'[n][i] = call
  BY <1>1
<1>3. \A i \in 1..Len(calls'[n]) : calls'[n][i].session = n
  BY <1>1, <1>2 DEF SessionOK
<1>4. Registering(n)' = Registering(n)
  <2>1. \A i \in 1..Len(calls[n]) : i \in 1..Len(calls'[n])
    BY <1>1
  <2> QED
    BY <1>1, <1>2, <2>1 DEF Registering, IsRegistration
<1>5. \A i \in Registering(n) : calls'[n][i] = calls[n][i]
  BY <1>1 DEF Registering
<1>6. ~(n > sessions')
  BY DEF TypeOK, HubConnectionTypeOK, Sessions
<1> QED
  BY <1>3, <1>4, <1>5, <1>6 DEF SessionOK

\* After the first call no registration is left.
LEMMA SessionTail ==
  ASSUME NEW n \in Sessions, SessionOK(n), TypeOK, calls[n] # <<>>,
         calls' = [calls EXCEPT ![n] = Tail(calls[n])], UNCHANGED sessions
  PROVE  /\ n <= sessions /\ Registering(n)' = {}
         /\ \A i \in 1..Len(calls'[n]) : calls'[n][i].session = n
         /\ IsRegistration(Head(calls[n])) =>
              openedAs[n] # "none"
              /\ Head(calls[n]).method = Registration(openedAs[n])
         /\ openedAs[n] = "Teacher" /\ server[n] \in {"open", "accepted"} => IsRegistration(Head(calls[n]))
<1>1. /\ Head(calls[n]) = calls[n][1] /\ Len(calls[n]) \in Nat /\ Len(calls[n]) >= 1
      /\ Len(calls'[n]) = Len(calls[n]) - 1
      /\ \A i \in 1..(Len(calls[n]) - 1) : calls'[n][i] = calls[n][i + 1]
  <2>1. calls[n] \in Seq(Call) /\ calls'[n] = Tail(calls[n])
    BY DEF TypeOK
  <2> QED
    BY <2>1, TailFacts
<1>2. n <= sessions
  BY DEF SessionOK, TypeOK, HubConnectionTypeOK, Sessions
<1>3. \A i \in 1..Len(calls'[n]) : i + 1 \in 1..Len(calls[n]) /\ calls'[n][i] = calls[n][i + 1] /\ i + 1 # 1
  BY <1>1
<1>4. Registering(n)' = {}
  BY <1>3 DEF SessionOK, Registering
<1>5. \A i \in 1..Len(calls'[n]) : calls'[n][i].session = n
  BY <1>3 DEF SessionOK
<1>6. 1 \in Registering(n) <=> IsRegistration(Head(calls[n]))
  BY <1>1 DEF Registering, IsRegistration
<1> QED
  BY <1>1, <1>2, <1>4, <1>5, <1>6 DEF SessionOK

\* A session that is gone has no calls left.
LEMMA SessionGone ==
  ASSUME NEW n \in Sessions, SessionOK(n), TypeOK, server[n] \notin {"none", "gone"},
         server' = [server EXCEPT ![n] = "gone"], calls' = [calls EXCEPT ![n] = <<>>],
         UNCHANGED <<openedAs, denied, sessions>>
  PROVE  SessionOK(n)'
<1>1. server'[n] = "gone" /\ calls'[n] = <<>>
  BY DEF TypeOK
<1>2. ~(n > sessions')
  BY DEF SessionOK
<1>3. Registering(n)' = {} /\ Len(calls'[n]) = 0
  BY <1>1, EmptyFacts DEF Registering
<1> QED
  BY <1>1, <1>2, <1>3 DEF SessionOK

\* One step of the hub in the session that it is about.
LEMMA SessionHub ==
  ASSUME NEW n \in Sessions, SessionOK(n), TypeOK, TypeOK', HubStep(n)
  PROVE  SessionOK(n)'
<1>0. UNCHANGED <<openedAs, sessions>>
  BY HubCalls DEF hubConnectionVars
<1> USE DEF Becomes, hubSessionVars
<1>1. CASE Reject(n)
  BY <1>0, <1>1, SessionGone DEF Reject, TurnedAway
<1>2. CASE SessionEnds(n)
  BY <1>0, <1>2, SessionGone DEF SessionEnds, Ended, Roles
<1>3. CASE Accept(n)
  <2>1. server'[n] = "accepted" /\ server[n] = "open" /\ UNCHANGED <<calls, denied>>
    BY <1>3 DEF Accept, Accepted, TypeOK
  <2> QED
    BY <1>0, <2>1 DEF SessionOK, Registering
<1>4. CASE Push(n)
  <2>1. UNCHANGED <<calls, server, denied>>
    BY <1>4 DEF Push
  <2>2. sessions <= sessions'
    BY <1>0 DEF TypeOK, HubConnectionTypeOK
  <2> QED
    BY <1>0, <2>1, <2>2, SessionSame
<1>5. ASSUME NEW method, Runs(n, method)
      PROVE  /\ calls[n] # <<>> /\ calls' = [calls EXCEPT ![n] = Tail(calls[n])]
             /\ Head(calls[n]).method = method /\ server[n] \in {"accepted", "teacher", "student"}
             /\ ~(n > sessions') /\ Registering(n)' = {}
             /\ \A i \in 1..Len(calls'[n]) : calls'[n][i].session = n
             /\ IsRegistration(Head(calls[n])) =>
                  openedAs[n] # "none"
                  /\ Head(calls[n]).method = Registration(openedAs[n])
             /\ openedAs[n] = "Teacher" /\ server[n] \in {"open", "accepted"} => IsRegistration(Head(calls[n]))
  <2>1. /\ calls[n] # <<>> /\ calls' = [calls EXCEPT ![n] = Tail(calls[n])]
        /\ Head(calls[n]).method = method /\ server[n] \in {"accepted", "teacher", "student"}
    BY <1>5 DEF Runs, IsNext, Serves, Roles
  <2>2. n <= sessions => ~(n > sessions')
    BY <1>0 DEF TypeOK, HubConnectionTypeOK, Sessions
  <2> QED
    BY <1>0, <2>1, <2>2, SessionTail
<1>6. openedAs[n] \in {"Teacher", "Student", "none"}
  BY DEF TypeOK, Connecting
<1>7. ASSUME NEW role \in Roles, NEW method,
             IsNext(n, method), RegisteredAs(n, role), UNCHANGED calls,
             method = IF role = "teacher" THEN "RegisterTeacher" ELSE "RegisterStudent"
      PROVE  SessionOK(n)'
  <2>1. server[n] = "accepted" /\ server'[n] = role /\ UNCHANGED denied
    BY <1>7 DEF RegisteredAs, TypeOK
  <2>2. /\ Head(calls[n]) = calls[n][1] /\ Len(calls[n]) \in Nat /\ Len(calls[n]) >= 1
        /\ Head(calls[n]).method = method
    <3>1. calls[n] \in Seq(Call) /\ calls[n] # <<>>
      BY <1>7 DEF TypeOK, IsNext
    <3> QED
      BY <1>7, <3>1, TailFacts DEF IsNext
  <2>3. 1 \in Registering(n)
    BY <1>7, <2>2 DEF Registering
  <2>4. openedAs[n] = IF role = "teacher" THEN "Teacher" ELSE "Student"
    BY <1>6, <1>7, <2>2, <2>3 DEF SessionOK, Registration, Roles
  <2>5. Registering(n)' = Registering(n)
    BY <1>7 DEF Registering
  <2> QED
    BY <1>0, <1>7, <2>1, <2>4, <2>5 DEF SessionOK, Roles
<1>8. CASE RegisterTeacher(n) \/ RegisterStudent(n)
  BY <1>7, <1>8 DEF RegisterTeacher, RegisterStudent, Roles
<1>9. CASE ReplyRegistration(n)
  <2>1. UNCHANGED <<server, denied>> /\ (Runs(n, "RegisterTeacher") \/ Runs(n, "RegisterStudent"))
        /\ server[n] \notin {"open", "accepted"}
    BY <1>9 DEF ReplyRegistration, IsRegistered, Roles
  <2> QED
    BY <1>0, <1>5, <2>1 DEF SessionOK
<1>10. CASE RefuseStudent(n)
  <2>1. UNCHANGED <<server, denied>> /\ Runs(n, "RegisterStudent")
    BY <1>10 DEF RefuseStudent
  <2>2. openedAs[n] = "Student"
    <3>1. Head(calls[n]).method = Registration(openedAs[n]) /\ openedAs[n] # "none"
      BY <1>5, <2>1 DEF IsRegistration
    <3>2. Head(calls[n]).method = "RegisterStudent"
      BY <1>5, <2>1
    <3> QED
      BY <3>1, <3>2, <1>6 DEF Registration
  <2> QED
    BY <1>0, <1>5, <2>1, <2>2 DEF SessionOK
<1>11. CASE AllowLogin(n)
  <2>1. Runs(n, "t.allowLogin") /\ UNCHANGED server
    BY <1>11 DEF AllowLogin, Denied
  <2>2. openedAs[n] = "Teacher" => server[n] = "teacher"
    BY <1>5, <2>1 DEF IsRegistration, SessionOK
  <2>3. openedAs[n] = "Teacher" => n \notin denied'
    BY <1>11, <2>2 DEF AllowLogin, Denied, SessionOK
  <2> QED
    BY <1>0, <1>5, <2>1, <2>2, <2>3 DEF SessionOK
<1>12. CASE ServeOther(n)
  <2>1. UNCHANGED <<server, denied>> /\ (Runs(n, "Feedback") \/ Runs(n, "Status"))
    BY <1>12 DEF ServeOther
  <2>2. openedAs[n] = "Teacher" => server[n] \notin {"open", "accepted"}
    BY <1>5, <2>1 DEF IsRegistration
  <2> QED
    BY <1>0, <1>5, <2>1, <2>2 DEF SessionOK
<1> QED
  BY <1>1, <1>2, <1>3, <1>4, <1>8, <1>9, <1>10, <1>11, <1>12 DEF HubStep

LEMMA SessionInvStep ==
  ASSUME TypeOK, TypeOK', InboxInv, SessionInv,
         PageStep \/ ConnectionStep \/ MessageStep \/ \E n \in Sessions : HubStep(n)
  PROVE  SessionInv'
<1> SUFFICES ASSUME NEW n \in Sessions PROVE SessionOK(n)'
  BY DEF SessionInv
<1>0. SessionOK(n) /\ sessions \in Nat /\ sessions <= sessions
  BY DEF SessionInv, TypeOK, HubConnectionTypeOK
<1>1. ASSUME UNCHANGED <<calls, server, openedAs, denied, sessions>> PROVE SessionOK(n)'
  BY <1>0, <1>1, SessionSame
<1>2. ASSUME NEW call, sessions \in Sessions => call \in Call, call.session = sessions, ~IsRegistration(call),
             calls' = [calls EXCEPT ![sessions] = Append(calls[sessions], call)],
             UNCHANGED <<server, openedAs, denied, sessions>>
      PROVE  SessionOK(n)'
  <2>1. CASE n = sessions
    BY <1>0, <1>2, <2>1, SessionAppend
  <2>2. CASE n # sessions
    <3>1. calls'[n] = calls[n]
      BY <1>2, <2>2 DEF TypeOK
    <3> QED
      BY <1>0, <1>2, <3>1, SessionSame
  <2> QED
    BY <2>1, <2>2
<1>3. CASE Click
  <2> DEFINE call == [method |-> Command(page), session |-> sessions]
  <2>1. /\ calls' = [calls EXCEPT ![sessions] = Append(calls[sessions], call)]
        /\ UNCHANGED <<server, openedAs, denied, sessions>>
    BY <1>3 DEF Click, hubConnectionVars, hubSessionVars
  <2>2. (sessions \in Sessions => call \in Call) /\ call.session = sessions /\ ~IsRegistration(call)
    <3>1. Command(page) \in CommandType /\ Command(page) \notin {"RegisterTeacher", "RegisterStudent"}
      BY <1>3, CommandsAssumption DEF Click, Command
    <3> QED
      BY <3>1 DEF Call, IsRegistration
  <2> HIDE DEF call
  <2> QED
    BY <1>2, <2>1, <2>2
<1>4. CASE PageStep /\ ~Click
  BY <1>1, <1>4 DEF PageStep, Render, Connect, ConnectRejected, Teacher2Effect, StepEffect, hubVars, hubSessionVars,
                    hubConnectionVars, Start, StartRejected, Moves
<1>5. CASE Connected
  <2> DEFINE new == sessions + 1
             call == [method |-> Registration(starter.page), session |-> new]
  <2>1. /\ sessions' = new /\ new \in Sessions /\ starter.page \in Connecting
        /\ calls' = [calls EXCEPT ![new] = <<call>>]
        /\ server' = [server EXCEPT ![new] = "open"]
        /\ openedAs' = [openedAs EXCEPT ![new] = starter.page]
        /\ UNCHANGED denied
    BY <1>5 DEF Connected, Started, Opens, Opened, Becomes, TypeOK, HubConnectionTypeOK, Sessions
  <2>2. CASE n = new
    <3>1. new > sessions /\ ~(n > sessions')
      BY <1>0, <2>1, <2>2
    <3>2. n \notin denied'
      BY <1>0, <2>1, <2>2, <3>1 DEF SessionOK
    <3>3. calls'[n] = <<call>> /\ server'[n] = "open" /\ openedAs'[n] = starter.page
      BY <2>1, <2>2 DEF TypeOK
    <3>4. call.session = n /\ call.method = Registration(openedAs'[n]) /\ IsRegistration(call)
      BY <2>2, <3>3 DEF IsRegistration, Registration
    <3>5. openedAs'[n] # "none"
      BY <2>1, <3>3 DEF Connecting
    <3> HIDE DEF call
    <3>6. 1..Len(calls'[n]) = {1} /\ calls'[n][1] = call
      BY <3>3
    <3>7. Registering(n)' = {1}
      BY <3>4, <3>6 DEF Registering, IsRegistration
    <3> QED
      BY <3>1, <3>2, <3>3, <3>4, <3>5, <3>6, <3>7 DEF SessionOK
  <2>3. CASE n # new
    <3>1. calls'[n] = calls[n] /\ server'[n] = server[n] /\ openedAs'[n] = openedAs[n]
      BY <2>1, <2>3 DEF TypeOK
    <3> QED
      BY <1>0, <2>1, <3>1, SessionSame
  <2> QED
    BY <2>2, <2>3
<1>6. CASE OnReconnected
  <2> DEFINE new == sessions + 1
  <2>1. /\ sessions' = new /\ server' = [server EXCEPT ![new] = "open"]
        /\ UNCHANGED <<calls, openedAs, denied>>
    BY <1>6 DEF OnReconnected, Reconnected, Opens, Opened, Becomes
  <2>2. CASE n = new
    <3>1. new > sessions /\ ~(n > sessions')
      BY <1>0, <2>1, <2>2
    <3>2. server'[n] = "open" /\ calls'[n] = <<>> /\ openedAs'[n] = "none"
      BY <1>0, <2>1, <2>2, <3>1 DEF SessionOK, TypeOK
    <3>3. Registering(n)' = {} /\ Len(calls'[n]) = 0
      BY <3>2, EmptyFacts DEF Registering
    <3> QED
      BY <3>1, <3>2, <3>3 DEF SessionOK
  <2>3. CASE n # new
    <3>1. server'[n] = server[n]
      BY <2>1, <2>3 DEF TypeOK
    <3> QED
      BY <1>0, <2>1, <3>1, SessionSame
  <2> QED
    BY <2>2, <2>3
<1>7. CASE ConnectFails \/ OnReconnecting \/ RetryFails \/ OnClose
  BY <1>1, <1>7 DEF ConnectFails, StartFailed, OnReconnecting, ConnectionLost, RetryFails, RetryFailed, OnClose,
                    CompleteClose, GivenUp, Moves, hubVars, hubSessionVars
<1>8. CASE Receive
  <2> DEFINE call == [method |-> "Feedback", session |-> Head(inbox).session]
  <2>1. /\ calls' = [calls EXCEPT ![sessions] = Append(calls[sessions], call)]
        /\ UNCHANGED <<server, openedAs, denied, sessions>>
    BY <1>8 DEF Receive, hubConnectionVars, hubSessionVars
  <2>2. Head(inbox).session = sessions
    <3>1. Head(inbox) = inbox[1] /\ 1 \in 1..Len(inbox)
      BY <1>8, TailFacts DEF Receive, TypeOK
    <3> QED
      BY <3>1 DEF InboxInv, InboxOK
  <2>3. (sessions \in Sessions => call \in Call) /\ call.session = sessions /\ ~IsRegistration(call)
    BY <2>2 DEF Call, IsRegistration, ServerEventType
  <2> HIDE DEF call
  <2> QED
    BY <1>2, <2>1, <2>3
<1>9. CASE MessageStep /\ ~Receive
  BY <1>1, <1>9 DEF MessageStep, FeedbackSent, FeedbackFails, ReceiveTimeout, ReceiveClose, StopInternal, Moves,
                    hubVars, hubSessionVars, hubConnectionVars
<1>10. ASSUME NEW m \in Sessions, HubStep(m) PROVE SessionOK(n)'
  <2>1. CASE m = n
    BY <1>0, <1>10, <2>1, SessionHub
  <2>2. CASE m # n
    <3>1. UNCHANGED <<openedAs, sessions>>
      BY <1>10, HubCalls DEF hubConnectionVars
    <3>2. \/ UNCHANGED calls
          \/ calls' = [calls EXCEPT ![m] = <<>>]
          \/ calls[m] # <<>> /\ calls' = [calls EXCEPT ![m] = Tail(calls[m])]
      BY <1>10, HubCalls
    <3>3. calls'[n] = calls[n]
      BY <2>2, <3>2 DEF TypeOK
    <3>4. PICK s \in {server[m], "accepted", "teacher", "student", "gone"} : server' = [server EXCEPT ![m] = s]
      BY <1>10, HubCalls
    <3>5. server'[n] = server[n]
      BY <2>2, <3>4 DEF TypeOK
    <3>6. PICK D \in {{}, {m}} : denied' = denied \cup D
      BY <1>10, HubCalls
    <3>7. n \in denied' <=> n \in denied
      BY <2>2, <3>6
    <3> QED
      BY <1>0, <3>1, <3>3, <3>5, <3>7, SessionSame
  <2> QED
    BY <2>1, <2>2
<1> QED
  BY <1>3, <1>4, <1>5, <1>6, <1>7, <1>8, <1>9, <1>10 DEF ConnectionStep

-----------------------------------------------------------------------------
(***************************************************************************)
(* Theorems                                                                *)
(***************************************************************************)

LEMMA IInvStep == IInv /\ [Next]_vars => IInv'
<1> SUFFICES ASSUME IInv, [Next]_vars PROVE IInv'
  OBVIOUS
<1>0. TypeOK /\ PageInv /\ InboxInv /\ SessionInv
  BY DEF IInv
<1>1. CASE UNCHANGED vars
  <2>1. UNCHANGED <<hubConnectionVars, pageVars, clientVars, inbox, hubVars>>
    BY <1>1 DEF vars
  <2>2. TypeOK'
    BY <1>0, <2>1
    DEF TypeOK, HubConnectionTypeOK, hubConnectionVars, pageVars, clientVars, hubVars, hubSessionVars
  <2>3. PageInv'
    BY <1>0, <2>1 DEF PageInv, pageVars, clientVars
  <2>4. InboxInv'
    BY <1>0, <2>1 DEF InboxInv, InboxOK, AwaitingOK, isConnected, hubConnectionVars, clientVars
  <2>5. SessionInv'
    BY <1>0, <2>1 DEF SessionInv, SessionOK, Registering, hubConnectionVars, hubVars, hubSessionVars
  <2> QED
    BY <2>2, <2>3, <2>4, <2>5 DEF IInv
<1>2. CASE Next
  <2>1. PageStep \/ ConnectionStep \/ MessageStep \/ \E n \in Sessions : HubStep(n)
    BY <1>2, NextSteps
  <2>2. TypeOK'
    BY <1>0, <2>1, PageType, ConnectionType, MessageType, HubType
  <2> QED
    BY <1>0, <2>1, <2>2, PageInvStep, InboxInvStep, SessionInvStep DEF IInv
<1> QED
  BY <1>1, <1>2

\* The invariant that carries all the promises of the window.
THEOREM SpecIInv == Spec => []IInv
BY InitIInv, IInvStep, PTL DEF Spec

\* The state stays within its types, and a start() is pending exactly while
\* the connection is Connecting (HubConnection.ts).
THEOREM SpecTypeOK == Spec => []TypeOK
<1>1. IInv => TypeOK
  BY DEF IInv
<1> QED
  BY <1>1, SpecIInv, PTL

\* A connection registers at most once, and only as the page whose start()
\* opened it: whatever pages follow, and however often it reconnects.
THEOREM SpecRegisteredOnce == Spec => []RegisteredOnce
<1>1. IInv => RegisteredOnce
  <2> SUFFICES ASSUME SessionInv, NEW n \in Sessions
               PROVE  /\ \A i \in Registering(n) :
                           /\ Registering(n) = {i}
                           /\ i = 1 \/ ~IsRegistered(n)
                           /\ openedAs[n] # "none"
                           /\ calls[n][i].method = Registration(openedAs[n])
                      /\ server[n] = "teacher" => openedAs[n] = "Teacher"
                      /\ server[n] = "student" => openedAs[n] = "Student"
    BY DEF IInv, RegisteredOnce
  <2> QED
    BY DEF SessionInv, SessionOK
<1> QED
  BY <1>1, SpecIInv, PTL

\* Every answer goes out on the connection that its message came on.
THEOREM SpecAckedByReceiver == Spec => []AckedByReceiver
<1>1. IInv => AckedByReceiver
  BY DEF IInv, SessionInv, SessionOK, AckedByReceiver
<1> QED
  BY <1>1, SpecIInv, PTL

\* No command of a connection that the Teacher page opened is refused.
THEOREM SpecCommandsServed == Spec => []CommandsServed
<1>1. IInv => CommandsServed
  BY DEF IInv, TypeOK, SessionInv, SessionOK, CommandsServed
<1> QED
  BY <1>1, SpecIInv, PTL

\* Whatever page was there when a message came, the one on screen when its
\* answer is sent lists it, if it is one of those that connect.
THEOREM SpecAnsweredIsShown == Spec => AnsweredIsShown
<1>1. IInv /\ [Next]_vars =>
        [(FeedbackSent /\ effectRan /\ page \in Connecting) => Head(awaiting).id \in shown']_vars
  <2> SUFFICES ASSUME IInv, FeedbackSent, effectRan, page \in Connecting
               PROVE  Head(awaiting).id \in shown'
    OBVIOUS
  <2>1. AwaitingOK(Head(awaiting))
    <3>1. Head(awaiting) = awaiting[1] /\ 1 \in 1..Len(awaiting)
      BY TailFacts DEF FeedbackSent, IInv, TypeOK
    <3> QED
      BY <3>1 DEF IInv, InboxInv
  <2>2. SlotOf(Head(awaiting).event) \in {"registed", "received"}
    BY <2>1 DEF AwaitingOK, SlotOf
  <2>3. OnScreen(SlotOf(Head(awaiting).event))
    BY <2>2 DEF IInv, PageInv, OnScreen
  <2> QED
    BY <2>3 DEF FeedbackSent, Lists
<1> QED
  BY <1>1, SpecIInv, PTL DEF Spec, AnsweredIsShown

\* A Student page on screen shows the end of the connection, whichever page
\* had opened it.
THEOREM SpecClosedIsShown == Spec => ClosedIsShown
<1>1. IInv /\ [Next]_vars => [(OnClose /\ page = "Student" /\ effectRan) => ~title']_vars
  <2> SUFFICES ASSUME IInv, OnClose, page = "Student", effectRan PROVE ~title'
    OBVIOUS
  <2>1. OnScreen("close")
    BY DEF IInv, PageInv, OnScreen, Connecting
  <2> QED
    BY <2>1 DEF OnClose
<1> QED
  BY <1>1, SpecIInv, PTL DEF Spec, ClosedIsShown

\* A page that has called start() or is about to is connected, or has shown an
\* alert, when that is over: no other page's start() takes its place.
THEOREM SpecServedOrTold == Spec => ServedOrTold
<1>1. IInv /\ [Next]_vars => [\A i \in Waiting \ Waiting' : isConnected' \/ i \in alerted']_vars
  <2> SUFFICES ASSUME IInv, Next, NEW i \in Waiting \ Waiting'
               PROVE  isConnected' \/ i \in alerted'
    OBVIOUS
  <2> DEFINE Goal == isConnected' \/ i \in alerted'
  <2>0. /\ i \in Mounts /\ i # 0
        /\ (i = mount /\ page \in Connecting /\ ~effectRan) \/ i = starter.mount
        /\ ~(i = mount' /\ page' \in Connecting /\ ~effectRan') /\ i # starter'.mount
        /\ i = starter.mount => connectionState = "Connecting"
    BY DEF IInv, PageInv, TypeOK, Waiting, Mounts
  <2>1. CASE UNCHANGED <<mount, page, effectRan, starter>>
    BY <2>0, <2>1
  <2>2. ASSUME NEW p \in Routes, Render(p) PROVE Goal
    BY <2>0, <2>2 DEF Render, clientVars
  <2>3. CASE Connect \/ ConnectRejected
    BY <2>0, <2>3 DEF Connect, ConnectRejected, EffectBegins, Start, Moves
  <2>4. CASE Teacher2Effect \/ StepEffect
    BY <2>0, <2>4 DEF Teacher2Effect, StepEffect, clientVars, Connecting
  <2>5. CASE Connected \/ ConnectFails
    BY <2>0, <2>5 DEF Connected, Started, Opens, ConnectFails, isConnected, pageVars
  <2>6. CASE \/ Click \/ OnReconnecting \/ OnReconnected \/ RetryFails \/ OnClose \/ MessageStep
             \/ \E n \in Sessions : HubStep(n)
    BY <2>1, <2>6, HubCalls
       DEF IInv, Click, OnReconnecting, OnReconnected, RetryFails, OnClose, MessageStep, Receive, FeedbackSent,
           FeedbackFails, ReceiveTimeout, ReceiveClose, pageVars, clientVars
  <2> QED
    BY <2>2, <2>3, <2>4, <2>5, <2>6, NextSteps DEF PageStep, ConnectionStep
<1> QED
  BY <1>1, SpecIInv, PTL DEF Spec, ServedOrTold
==============================================================================
