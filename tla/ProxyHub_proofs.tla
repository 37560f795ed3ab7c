-------------------------- MODULE ProxyHub_proofs --------------------------
(***************************************************************************)
(* What the registry of ProxyHub keeps, for all sets of connections and    *)
(* codes, whatever the threads that serve them.                            *)
(***************************************************************************)
EXTENDS ProxyHub, FiniteSetTheorems, TLAPS

-----------------------------------------------------------------------------
(***************************************************************************)
(* The bag of teachers                                                     *)
(***************************************************************************)

\* A set of places has a first one: the intervals up to its places are finite
\* sets, and finite sets have no infinite descent.
LEMMA FirstPlace ==
  ASSUME NEW places \in SUBSET Nat, places # {}
  PROVE  \E i \in places : \A j \in places : i <= j
<1> DEFINE prefixes == {1..i : i \in places}
<1>1. prefixes \subseteq FiniteSubsetsOf(Nat) /\ prefixes # {}
  <2>1. \A i \in Nat : IsFiniteSet(1..i)
    BY FS_Interval
  <2>2. \A i \in Nat : 1..i \in SUBSET Nat
    OBVIOUS
  <2> QED
    BY <2>1, <2>2 DEF FiniteSubsetsOf
<1>2. PICK x \in prefixes : \A y \in prefixes : ~(<<y, x>> \in StrictSubsetOrdering(Nat))
  <2> HIDE DEF prefixes
  <2> QED
    BY <1>1, FS_StrictSubsetOrderingWellFounded, WFMin
<1>3. PICK i \in places : x = 1..i
  OBVIOUS
<1>4. ASSUME NEW j \in places, j < i
      PROVE  FALSE
  <2>1. i \in Nat /\ j \in Nat
    OBVIOUS
  <2>2. 1..j \subseteq 1..i /\ 1..j # 1..i
    <3>1. i \in 1..i /\ i \notin 1..j
      BY <1>4, <2>1
    <3> QED
      BY <1>4, <2>1, <3>1
  <2>3. <<1..j, 1..i>> \in StrictSubsetOrdering(Nat)
    BY <2>1, <2>2 DEF StrictSubsetOrdering
  <2> QED
    BY <1>2, <1>3, <2>3
<1> QED
  BY <1>4

\* FirstOrDefault finds a teacher of the code if there is one, and none that the
\* bag enumerates later.
LEMMA FirstTeacherFound ==
  ASSUME StorageTypeOK, NEW k \in DOMAIN teacherClients
  PROVE  \E i \in DOMAIN teacherClients :
           /\ i <= k
           /\ FirstTeacher(CodeOf[teacherClients[k]]) = teacherClients[i]
           /\ CodeOf[teacherClients[i]] = CodeOf[teacherClients[k]]
<1> DEFINE places == {i \in DOMAIN teacherClients : CodeOf[teacherClients[i]] = CodeOf[teacherClients[k]]}
           first == CHOOSE i \in places : \A j \in places : i <= j
<1>1. places \in SUBSET Nat /\ k \in places
  BY DEF StorageTypeOK
<1>2. first \in places /\ \A j \in places : first <= j
  <2> HIDE DEF places
  <2>1. \E i \in places : \A j \in places : i <= j
    BY <1>1, FirstPlace
  <2> QED
    BY <2>1
<1>3. FirstTeacher(CodeOf[teacherClients[k]]) = teacherClients[first]
  BY <1>1 DEF FirstTeacher
<1> QED
  BY <1>1, <1>2, <1>3

\* What it finds, if anything, is a teacher of the bag that has the code.
LEMMA FirstTeacherType ==
  ASSUME StorageTypeOK, NEW code, FirstTeacher(code) # None
  PROVE  \E i \in DOMAIN teacherClients :
           FirstTeacher(code) = teacherClients[i] /\ CodeOf[teacherClients[i]] = code
<1>1. PICK k \in DOMAIN teacherClients : CodeOf[teacherClients[k]] = code
  BY DEF FirstTeacher
<1> QED
  BY <1>1, FirstTeacherFound

\* A new teacher is put somewhere into the bag.
LEMMA PlaceType ==
  ASSUME StorageTypeOK, NEW w
  PROVE  PlaceOf(w) \in 1..(Len(teacherClients) + 1)
<1> DEFINE places == {i \in DOMAIN teacherClients : worker[teacherClients[i]] = w}
<1>1. places \in SUBSET Nat /\ places \subseteq 1..Len(teacherClients) /\ Len(teacherClients) \in Nat
  BY DEF StorageTypeOK
<1>2. CASE places = {}
  <2>1. PlaceOf(w) = 1
    BY <1>2 DEF PlaceOf
  <2> QED
    BY <1>1, <2>1
<1>3. CASE places # {}
  <2>1. PlaceOf(w) = CHOOSE i \in places : \A j \in places : i <= j
    BY <1>3 DEF PlaceOf
  <2>2. PlaceOf(w) \in places
    <3> HIDE DEF places
    <3>1. \E i \in places : \A j \in places : i <= j
      BY <1>1, <1>3, FirstPlace
    <3> QED
      BY <2>1, <3>1
  <2> QED
    BY <1>1, <2>2
<1> QED
  BY <1>2, <1>3

\* Inserting moves the teachers from the place on by one, in their order.
LEMMA InsertMoves ==
  ASSUME NEW s \in Seq(Teachers), NEW p \in 1..(Len(s) + 1), NEW t \in Teachers
  PROVE  /\ InsertAt(s, p, t) \in Seq(Teachers)
         /\ Len(InsertAt(s, p, t)) = Len(s) + 1
         /\ \A i \in DOMAIN s : InsertAt(s, p, t)[IF i < p THEN i ELSE i + 1] = s[i]
<1> DEFINE front == SubSeq(s, 1, p - 1)
           back == SubSeq(s, p, Len(s))
           all == front \o <<t>> \o back
<1>1. InsertAt(s, p, t) = all
  BY DEF InsertAt
<1>2. /\ front \in Seq(Teachers)
      /\ Len(front) = p - 1
      /\ \A i \in 1..(p - 1) : front[i] = s[i]
  OBVIOUS
<1>3. /\ back \in Seq(Teachers)
      /\ Len(back) = Len(s) - p + 1
      /\ \A i \in 1..(Len(s) - p + 1) : back[i] = s[p + i - 1]
  OBVIOUS
<1>4. /\ all \in Seq(Teachers)
      /\ Len(all) = Len(s) + 1
      /\ \A i \in 1..(p - 1) : all[i] = front[i]
      /\ \A i \in 1..(Len(s) - p + 1) : all[p + i] = back[i]
  <2> HIDE DEF front, back
  <2> QED
    BY <1>2, <1>3
<1>5. ASSUME NEW i \in DOMAIN s
      PROVE  all[IF i < p THEN i ELSE i + 1] = s[i]
  <2> HIDE DEF all, front, back
  <2>1. i \in 1..Len(s) /\ Len(s) \in Nat
    OBVIOUS
  <2>2. CASE i < p
    BY <1>2, <1>4, <2>1, <2>2
  <2>3. CASE ~(i < p)
    <3> DEFINE k == i - p + 1
    <3>1. k \in 1..(Len(s) - p + 1) /\ p + k = i + 1 /\ p + k - 1 = i
      BY <2>1, <2>3
    <3> HIDE DEF k
    <3>2. all[p + k] = back[k] /\ back[k] = s[p + k - 1]
      BY <1>3, <1>4, <3>1
    <3> QED
      BY <2>3, <3>1, <3>2
  <2> QED
    BY <2>2, <2>3
<1> QED
  BY <1>1, <1>4, <1>5

-----------------------------------------------------------------------------
(***************************************************************************)
(* The inductive invariant: what a call of RegisterStudent has looked up   *)
(* stays in the bag, in the order in which it was found.                   *)
(***************************************************************************)

LookupInv ==
  /\ \A s \in Students :
       pc[s] \in {"checked", "adding", "sized", "written", "joined", "notified"} => teacher[s] # None
  /\ \A s \in Students : pc[s] \in {"adding", "sized"} => adding[s].teacher # None
  /\ \A s \in Students : pc[s] \in {"new", "connecting", "idle", "checked"} => adding[s].teacher = None
  /\ \A s \in Students : teacher[s] # None =>
       \E j \in DOMAIN teacherClients : teacherClients[j] = teacher[s] /\ CodeOf[teacher[s]] = CodeOf[s]

IInv == TypeOK /\ LookupInv /\ ListedNoLaterThanFound

\* Students and teachers are connections, and None is neither.
LEMMA ConnFacts ==
  /\ Teachers \subseteq Conn
  /\ Students \subseteq Conn
  /\ None \notin Teachers
  /\ None \notin Students
  /\ \A t \in Teachers : t \notin Students
BY ConnAssumption DEF Conn

\* The steps that have nothing to do with registrations.
ConnectionStep(c) ==
  \/ Connect(c) \/ ConnectUpdate(c) \/ ConnectFails(c)
  \/ Disconnect(c) \/ DisconnectUpdate(c) \/ DisconnectFails(c) \/ Close(c)

TeacherStep(t) == RegisterTeacher(t) \/ ReplyTeacher(t)

StudentStep(s) ==
  \/ RegisterStudent(s) \/ RefuseStudent(s)
  \/ AddStudent(s) \/ WriteSize(s) \/ WriteSlot(s)
  \/ JoinGroup(s) \/ NotifyTeacher(s) \/ ReplyStudent(s)

LEMMA NextSteps ==
  Next <=> \/ \E c \in Conn : ConnectionStep(c)
           \/ \E t \in Teachers : TeacherStep(t)
           \/ \E s \in Students : StudentStep(s)
BY DEF Next, ConnectionStep, TeacherStep, StudentStep

\* The initial state.
LEMMA InitIInv == Init => IInv
<1> SUFFICES ASSUME Init PROVE IInv
  OBVIOUS
<1>1. ConnectionTypeOK
  BY DEF Init, ConnectionTypeOK, States
<1>2. StorageTypeOK /\ CallTypeOK
  BY DEF Init, StorageTypeOK, CallTypeOK, NoAdd
<1>3. MessageTypeOK /\ HistoryTypeOK
  BY DEF Init, MessageTypeOK, HistoryTypeOK
<1>4. LookupInv /\ ListedNoLaterThanFound
  BY ConnFacts DEF Init, LookupInv, ListedNoLaterThanFound, NoAdd
<1> QED
  BY <1>1, <1>2, <1>3, <1>4 DEF IInv, TypeOK

\* What a call has looked up are teachers.
LEMMA LookedUp ==
  ASSUME IInv, NEW s \in Students
  PROVE  /\ pc[s] \in {"checked", "adding", "sized", "written", "joined", "notified"} => teacher[s] \in Teachers
         /\ pc[s] \in {"adding", "sized"} => adding[s].teacher \in Teachers
         /\ pc[s] = "checked" => FirstTeacher(CodeOf[s]) \in Teachers
<1>1. teacher[s] \in Teachers \cup {None} /\ adding[s].teacher \in Teachers \cup {None}
  BY DEF IInv, TypeOK, CallTypeOK
<1>2. ASSUME pc[s] = "checked" PROVE FirstTeacher(CodeOf[s]) \in Teachers
  <2>1. PICK j \in DOMAIN teacherClients :
          teacherClients[j] = teacher[s] /\ CodeOf[teacher[s]] = CodeOf[s]
    BY <1>2 DEF IInv, LookupInv
  <2>2. PICK i \in DOMAIN teacherClients : FirstTeacher(CodeOf[s]) = teacherClients[i]
    BY <2>1, FirstTeacherFound DEF IInv, TypeOK
  <2> QED
    BY <2>2 DEF IInv, TypeOK, StorageTypeOK
<1> QED
  BY <1>1, <1>2 DEF IInv, LookupInv

\* The types of the connections.
LEMMA ConnectionTypeStep == IInv /\ [Next]_vars => ConnectionTypeOK'
<1> SUFFICES ASSUME IInv, [Next]_vars PROVE ConnectionTypeOK'
  OBVIOUS
<1> USE ConnFacts DEF IInv, TypeOK, ConnectionTypeOK, Goto
<1>1. ASSUME NEW c \in Conn, ConnectionStep(c) PROVE ConnectionTypeOK'
  <2>1. pc' \in [Conn -> States]
    BY <1>1 DEF ConnectionStep, Connect, ConnectUpdate, ConnectFails, Disconnect, DisconnectUpdate,
                DisconnectFails, Close, States
  <2>2. totalConnectedCount' \in Nat /\ totalDisconnectedCount' \in Nat
    <3>1. CASE Connect(c) \/ Disconnect(c)
      BY <3>1 DEF Connect, Disconnect
    <3>2. CASE UNCHANGED counter
      BY <3>2 DEF counter
    <3> QED
      BY <1>1, <3>1, <3>2 DEF ConnectionStep, ConnectUpdate, ConnectFails, DisconnectUpdate,
                              DisconnectFails, Close
  <2>3. isConnected' \in [Conn -> BOOLEAN]
    <3>1. CASE UNCHANGED isConnected
      BY <3>1
    <3>2. ASSUME NEW b \in BOOLEAN, UpdateConnectedState(c, b) PROVE isConnected' \in [Conn -> BOOLEAN]
      BY <3>2 DEF UpdateConnectedState
    <3> QED
      BY <1>1, <3>1, <3>2 DEF ConnectionStep, Connect, ConnectUpdate, ConnectFails, Disconnect,
                              DisconnectUpdate, DisconnectFails, Close, UpdateFails
  <2>4. groups' \in [Codes -> SUBSET Students]
    <3>1. CASE Close(c)
      BY <3>1 DEF Close
    <3> QED
      BY <1>1, <3>1 DEF ConnectionStep, Connect, ConnectUpdate, ConnectFails, Disconnect,
                        DisconnectUpdate, DisconnectFails
  <2> QED
    BY <2>1, <2>2, <2>3, <2>4
<1>2. ASSUME NEW t \in Teachers, TeacherStep(t) PROVE ConnectionTypeOK'
  BY <1>2 DEF TeacherStep, RegisterTeacher, ReplyTeacher, counter, States
<1>3. ASSUME NEW s \in Students, StudentStep(s) PROVE ConnectionTypeOK'
  <2>1. pc' \in [Conn -> States] /\ UNCHANGED counter
    BY <1>3 DEF StudentStep, RegisterStudent, RefuseStudent, AddStudent, WriteSize, WriteSlot, JoinGroup,
                NotifyTeacher, ReplyStudent, States
  <2>2. isConnected' \in [Conn -> BOOLEAN]
    BY <1>3 DEF StudentStep, RegisterStudent, RefuseStudent, AddStudent, WriteSize, WriteSlot, JoinGroup,
                NotifyTeacher, ReplyStudent
  <2>3. groups' \in [Codes -> SUBSET Students]
    BY <1>3 DEF StudentStep, RegisterStudent, RefuseStudent, AddStudent, WriteSize, WriteSlot, JoinGroup,
                NotifyTeacher, ReplyStudent
  <2> QED
    BY <2>1, <2>2, <2>3 DEF counter
<1>4. CASE UNCHANGED vars
  BY <1>4 DEF vars, counter
<1> QED
  BY <1>1, <1>2, <1>3, <1>4, NextSteps

\* Replacing an element, or none if there is no such slot, keeps a sequence.
LEMMA SlotReplaced ==
  ASSUME NEW S, NEW q \in Seq(S), NEW i, NEW e \in S
  PROVE  [q EXCEPT ![i] = e] \in Seq(S)
<1>1. q \in [1..Len(q) -> S] /\ Len(q) \in Nat
  OBVIOUS
<1>2. [q EXCEPT ![i] = e] \in [1..Len(q) -> S]
  BY <1>1
<1> QED
  BY <1>1, <1>2

\* The types of the storage.
LEMMA StorageTypeStep == IInv /\ [Next]_vars => StorageTypeOK'
<1> SUFFICES ASSUME IInv, [Next]_vars PROVE StorageTypeOK'
  OBVIOUS
<1> USE DEF IInv, TypeOK, StorageTypeOK
<1>1. CASE UNCHANGED <<bag, items, size>>
  BY <1>1 DEF bag
<1>2. ASSUME NEW t \in Teachers, RegisterTeacher(t) PROVE StorageTypeOK'
  <2>1. PICK w \in Workers : /\ worker' = [worker EXCEPT ![t] = w]
                             /\ teacherClients' = InsertAt(teacherClients, PlaceOf(w), t)
    BY <1>2 DEF RegisterTeacher
  <2>2. teacherClients' \in Seq(Teachers)
    BY <2>1, PlaceType, InsertMoves
  <2> QED
    BY <1>2, <2>1, <2>2 DEF RegisterTeacher, lists
<1>3. ASSUME NEW s \in Students, WriteSize(s) PROVE StorageTypeOK'
  <2>1. PICK t \in Teachers, n \in Nat : t = adding[s].teacher /\ n = adding[s].size
    BY <1>3, LookedUp DEF WriteSize, Goto, CallTypeOK
  <2>2. size' = [size EXCEPT ![t] = n + 1] /\ UNCHANGED bag
    BY <1>3, <2>1 DEF WriteSize
  <2>3. items' = items \/ items' = [items EXCEPT ![t] = Append(items[t], None)]
    BY <1>3, <2>1 DEF WriteSize
  <2>4. Append(items[t], None) \in Seq(Students \cup {None})
    BY <2>1
  <2>5. items' \in [Teachers -> Seq(Students \cup {None})]
    <3>1. PICK q \in Seq(Students \cup {None}) : q = Append(items[t], None)
      BY <2>4
    <3> QED
      BY <2>3, <3>1
  <2>6. teacherClients' \in Seq(Teachers) /\ worker' \in [Teachers -> Workers \cup {None}]
    BY <2>2 DEF bag
  <2>7. size' \in [Teachers -> Nat]
    BY <2>1, <2>2
  <2> QED
    BY <2>5, <2>6, <2>7
<1>4. ASSUME NEW s \in Students, WriteSlot(s) PROVE StorageTypeOK'
  <2>1. PICK t \in Teachers, n \in Nat : t = adding[s].teacher /\ n = adding[s].size
    BY <1>4, LookedUp DEF WriteSlot, Goto, CallTypeOK
  <2>2. UNCHANGED <<bag, size>>
    BY <1>4 DEF WriteSlot
  <2>3. items' = items \/ items' = [items EXCEPT ![t] = [items[t] EXCEPT ![n + 1] = s]]
    BY <1>4, <2>1 DEF WriteSlot
  <2>4. [items[t] EXCEPT ![n + 1] = s] \in Seq(Students \cup {None})
    BY SlotReplaced
  <2>5. items' \in [Teachers -> Seq(Students \cup {None})]
    BY <2>3, <2>4
  <2> QED
    BY <2>2, <2>5 DEF bag
<1>5. ASSUME NEW c \in Conn, ConnectionStep(c) PROVE StorageTypeOK'
  BY <1>1, <1>5 DEF ConnectionStep, Connect, ConnectUpdate, ConnectFails, Disconnect, DisconnectUpdate,
                    DisconnectFails, Close, lists
<1>6. ASSUME NEW t \in Teachers, ReplyTeacher(t) PROVE StorageTypeOK'
  BY <1>1, <1>6 DEF ReplyTeacher, lists
<1>7. ASSUME NEW s \in Students, RegisterStudent(s) \/ RefuseStudent(s) \/ AddStudent(s) \/ JoinGroup(s)
                                 \/ NotifyTeacher(s) \/ ReplyStudent(s)
      PROVE  StorageTypeOK'
  BY <1>1, <1>7 DEF RegisterStudent, RefuseStudent, AddStudent, JoinGroup, NotifyTeacher, ReplyStudent, lists
<1>8. CASE UNCHANGED vars
  BY <1>1, <1>8 DEF vars, lists
<1> QED
  BY <1>2, <1>3, <1>4, <1>5, <1>6, <1>7, <1>8, NextSteps DEF TeacherStep, StudentStep

\* The types of the locals of RegisterStudent.
LEMMA CallTypeStep == IInv /\ [Next]_vars => CallTypeOK'
<1> SUFFICES ASSUME IInv, [Next]_vars PROVE CallTypeOK'
  OBVIOUS
<1> USE DEF IInv, TypeOK, CallTypeOK
<1>1. CASE UNCHANGED <<teacher, adding>>
  BY <1>1
<1>2. ASSUME NEW s \in Students, RegisterStudent(s) PROVE CallTypeOK'
  <2>1. PICK i \in DOMAIN teacherClients : FirstTeacher(CodeOf[s]) = teacherClients[i]
    BY <1>2, FirstTeacherType DEF RegisterStudent, TeacherConnected
  <2>2. FirstTeacher(CodeOf[s]) \in Teachers
    BY <2>1 DEF StorageTypeOK
  <2> QED
    BY <1>2, <2>2 DEF RegisterStudent, lists
<1>3. ASSUME NEW s \in Students, AddStudent(s) PROVE CallTypeOK'
  <2>1. PICK t \in Teachers : t = FirstTeacher(CodeOf[s])
    BY <1>3, LookedUp DEF AddStudent, Goto
  <2>2. size[t] \in Nat
    BY <2>1 DEF StorageTypeOK
  <2>3. adding' = [adding EXCEPT ![s] = [teacher |-> t, size |-> size[t]]] /\ UNCHANGED teacher
    BY <1>3, <2>1 DEF AddStudent
  <2> QED
    BY <2>2, <2>3
<1>4. ASSUME NEW s \in Students, WriteSlot(s) PROVE CallTypeOK'
  <2>1. adding' = [adding EXCEPT ![s].size = 0] /\ UNCHANGED teacher
    BY <1>4 DEF WriteSlot
  <2> QED
    BY <2>1
<1>5. ASSUME NEW c \in Conn, ConnectionStep(c) PROVE CallTypeOK'
  BY <1>1, <1>5 DEF ConnectionStep, Connect, ConnectUpdate, ConnectFails, Disconnect, DisconnectUpdate,
                    DisconnectFails, Close, lists
<1>6. ASSUME NEW t \in Teachers, TeacherStep(t) PROVE CallTypeOK'
  BY <1>1, <1>6 DEF TeacherStep, RegisterTeacher, ReplyTeacher, lists
<1>7. ASSUME NEW s \in Students,
             RefuseStudent(s) \/ WriteSize(s) \/ JoinGroup(s) \/ NotifyTeacher(s) \/ ReplyStudent(s)
      PROVE  CallTypeOK'
  BY <1>1, <1>7 DEF RefuseStudent, WriteSize, JoinGroup, NotifyTeacher, ReplyStudent, lists
<1>8. CASE UNCHANGED vars
  BY <1>1, <1>8 DEF vars, lists
<1> QED
  BY <1>2, <1>3, <1>4, <1>5, <1>6, <1>7, <1>8, NextSteps DEF StudentStep

\* A recorded and sent message has the types of a message, and is on record.
LEMMA RecordAndSend ==
  ASSUME MessageTypeOK, NEW c \in Conn, NEW k \in 1..2, NEW receiver \in Conn,
         Record(c, k, receiver)
  PROVE  /\ messageId' \in [Conn -> 0..2]
         /\ messageRecords' \subseteq [id : Conn \X (1..2), receiver : Conn]
         /\ SendSummary(c, receiver) =>
              /\ sent' \subseteq [id : Conn \X (0..2), receiver : Conn]
              /\ SentIsAnswerable => SentIsAnswerable'
         /\ messageRecords \subseteq messageRecords'
<1>1. messageId' = [messageId EXCEPT ![c] = k] /\ messageId'[c] = k
  BY DEF Record, MessageTypeOK
<1>2. [id |-> <<c, k>>, receiver |-> receiver] \in [id : Conn \X (1..2), receiver : Conn]
  OBVIOUS
<1>3. [id |-> <<c, k>>, receiver |-> receiver] \in [id : Conn \X (0..2), receiver : Conn]
  OBVIOUS
<1>4. messageRecords' = messageRecords \cup {[id |-> <<c, k>>, receiver |-> receiver]}
  BY DEF Record
<1>5. SendSummary(c, receiver) => sent' = sent \cup {[id |-> <<c, k>>, receiver |-> receiver]}
  BY <1>1 DEF SendSummary
<1> QED
  BY <1>1, <1>2, <1>3, <1>4, <1>5 DEF MessageTypeOK, SentIsAnswerable

\* The types of the messages, and that each can be acknowledged.
LEMMA MessageStep ==
  IInv /\ [Next]_vars => MessageTypeOK' /\ (SentIsAnswerable => SentIsAnswerable')
<1> DEFINE Goal == MessageTypeOK' /\ (SentIsAnswerable => SentIsAnswerable')
<1> SUFFICES ASSUME IInv, [Next]_vars PROVE Goal
  OBVIOUS
<1>0. MessageTypeOK
  BY DEF IInv, TypeOK
<1>1. CASE UNCHANGED messages
  BY <1>0, <1>1 DEF messages, MessageTypeOK, SentIsAnswerable
<1>2. ASSUME NEW t \in Teachers, ReplyTeacher(t) PROVE Goal
  <2>1. Record(t, 1, t) /\ t \in Conn
    BY <1>2, ConnFacts DEF ReplyTeacher
  <2>2. CASE SendSummary(t, t)
    BY <1>0, <2>1, <2>2, RecordAndSend DEF MessageTypeOK
  <2>3. CASE UNCHANGED sent
    BY <1>0, <2>1, <2>3, RecordAndSend DEF MessageTypeOK, SentIsAnswerable
  <2> QED
    BY <1>2, <2>2, <2>3 DEF ReplyTeacher
<1>3. ASSUME NEW s \in Students, NotifyTeacher(s) PROVE Goal
  <2>1. s \in Conn /\ teacher[s] \in Conn
    BY <1>3, ConnFacts, LookedUp DEF NotifyTeacher, Goto
  <2>2. Record(s, 1, teacher[s]) /\ SendSummary(s, teacher[s])
    BY <1>3 DEF NotifyTeacher
  <2> QED
    BY <1>0, <2>1, <2>2, RecordAndSend DEF MessageTypeOK
<1>4. ASSUME NEW s \in Students, ReplyStudent(s) PROVE Goal
  <2>1. s \in Conn /\ Record(s, 2, s) /\ SendSummary(s, s)
    BY <1>4, ConnFacts DEF ReplyStudent
  <2> QED
    BY <1>0, <2>1, RecordAndSend DEF MessageTypeOK
<1>5. ASSUME NEW c \in Conn, ConnectionStep(c) PROVE Goal
  BY <1>1, <1>5 DEF ConnectionStep, Connect, ConnectUpdate, ConnectFails, Disconnect, DisconnectUpdate,
                    DisconnectFails, Close
<1>6. ASSUME NEW t \in Teachers, RegisterTeacher(t) PROVE Goal
  BY <1>1, <1>6 DEF RegisterTeacher
<1>7. ASSUME NEW s \in Students, RegisterStudent(s) \/ RefuseStudent(s) \/ AddStudent(s)
                                 \/ WriteSize(s) \/ WriteSlot(s) \/ JoinGroup(s)
      PROVE  Goal
  BY <1>1, <1>7 DEF RegisterStudent, RefuseStudent, AddStudent, WriteSize, WriteSlot, JoinGroup
<1>8. CASE UNCHANGED vars
  BY <1>1, <1>8 DEF vars
<1> QED
  BY <1>2, <1>3, <1>4, <1>5, <1>6, <1>7, <1>8, NextSteps DEF TeacherStep, StudentStep

\* The types of the history.
LEMMA HistoryTypeStep == IInv /\ [Next]_vars => HistoryTypeOK'
<1> SUFFICES ASSUME IInv, [Next]_vars PROVE HistoryTypeOK'
  OBVIOUS
<1> USE DEF IInv, TypeOK, HistoryTypeOK
<1>1. CASE UNCHANGED history
  BY <1>1
<1>2. ASSUME NEW c \in Conn, ConnectFails(c) \/ DisconnectFails(c) PROVE HistoryTypeOK'
  <2>1. CASE ConnectFails(c)
    BY <2>1 DEF ConnectFails
  <2>2. CASE DisconnectFails(c)
    BY <2>2 DEF DisconnectFails
  <2> QED
    BY <1>2, <2>1, <2>2
<1>3. ASSUME NEW s \in Students, RefuseStudent(s) PROVE HistoryTypeOK'
  BY <1>3 DEF RefuseStudent
<1>4. ASSUME NEW s \in Students, AddStudent(s) PROVE HistoryTypeOK'
  <2>1. PICK raced \in SUBSET Students : history' = [history EXCEPT !.raced = history.raced \cup raced]
    BY <1>4 DEF AddStudent, Overlapping, Adders
  <2> QED
    BY <2>1
<1>5. ASSUME NEW c \in Conn, Connect(c) \/ ConnectUpdate(c) \/ Disconnect(c) \/ DisconnectUpdate(c) \/ Close(c)
      PROVE  HistoryTypeOK'
  BY <1>1, <1>5 DEF Connect, ConnectUpdate, Disconnect, DisconnectUpdate, Close
<1>6. ASSUME NEW t \in Teachers, TeacherStep(t) PROVE HistoryTypeOK'
  BY <1>1, <1>6 DEF TeacherStep, RegisterTeacher, ReplyTeacher
<1>7. ASSUME NEW s \in Students, RegisterStudent(s) \/ WriteSize(s) \/ WriteSlot(s) \/ JoinGroup(s)
                                 \/ NotifyTeacher(s) \/ ReplyStudent(s)
      PROVE  HistoryTypeOK'
  BY <1>1, <1>7 DEF RegisterStudent, WriteSize, WriteSlot, JoinGroup, NotifyTeacher, ReplyStudent
<1>8. CASE UNCHANGED vars
  BY <1>1, <1>8 DEF vars
<1> QED
  BY <1>2, <1>3, <1>4, <1>5, <1>6, <1>7, <1>8, NextSteps DEF ConnectionStep, StudentStep

\* Every teacher keeps a place in the bag, and the places keep their order.
LEMMA BagGrows ==
  ASSUME StorageTypeOK, NEW t \in Teachers, RegisterTeacher(t)
  PROVE  \E move \in [DOMAIN teacherClients -> DOMAIN teacherClients'] :
           /\ \A i \in DOMAIN teacherClients : teacherClients'[move[i]] = teacherClients[i]
           /\ \A i, j \in DOMAIN teacherClients : i <= j => move[i] <= move[j]
<1>1. PICK w \in Workers : teacherClients' = InsertAt(teacherClients, PlaceOf(w), t)
  BY DEF RegisterTeacher
<1>2. PICK p \in 1..(Len(teacherClients) + 1) : p = PlaceOf(w)
  BY PlaceType
<1> DEFINE move == [i \in DOMAIN teacherClients |-> IF i < p THEN i ELSE i + 1]
<1>3. /\ teacherClients \in Seq(Teachers)
      /\ teacherClients' \in Seq(Teachers)
      /\ Len(teacherClients') = Len(teacherClients) + 1
      /\ \A i \in DOMAIN teacherClients : teacherClients'[IF i < p THEN i ELSE i + 1] = teacherClients[i]
  BY <1>1, <1>2, InsertMoves DEF StorageTypeOK
<1>4. DOMAIN teacherClients = 1..Len(teacherClients) /\ DOMAIN teacherClients' = 1..(Len(teacherClients) + 1)
      /\ Len(teacherClients) \in Nat
  BY <1>3
<1>5. move \in [DOMAIN teacherClients -> DOMAIN teacherClients']
  BY <1>2, <1>4
<1>6. \A i, j \in DOMAIN teacherClients : i <= j => move[i] <= move[j]
  BY <1>2, <1>4
<1>7. \A i \in DOMAIN teacherClients : teacherClients'[move[i]] = teacherClients[i]
  BY <1>3
<1> QED
  BY <1>5, <1>6, <1>7

\* A step that leaves the bag and the locals of the calls alone, and moves no
\* call of RegisterStudent beyond a lookup.
LEMMA LookupUntouched ==
  ASSUME LookupInv, ListedNoLaterThanFound, UNCHANGED <<teacherClients, teacher>>,
         \A s \in Students : adding'[s].teacher = adding[s].teacher,
         \A s \in Students : /\ pc'[s] \in {"adding", "sized"} => pc[s] \in {"adding", "sized"}
                             /\ pc'[s] \in {"new", "connecting", "idle", "checked"}
                                  => pc[s] \in {"new", "connecting", "idle", "checked"}
                             /\ pc'[s] \in {"checked", "adding", "sized", "written", "joined", "notified"}
                                  => pc[s] \in {"checked", "adding", "sized", "written", "joined", "notified"}
  PROVE  LookupInv' /\ ListedNoLaterThanFound'
BY DEF LookupInv, ListedNoLaterThanFound

\* What was looked up stays in the bag, in its order.
LEMMA LookupStep == IInv /\ [Next]_vars => LookupInv' /\ ListedNoLaterThanFound'
<1> DEFINE Goal == LookupInv' /\ ListedNoLaterThanFound'
<1> SUFFICES ASSUME IInv, [Next]_vars PROVE Goal
  OBVIOUS
<1>0. /\ LookupInv /\ ListedNoLaterThanFound
      /\ StorageTypeOK /\ CallTypeOK
      /\ pc \in [Conn -> States]
  BY DEF IInv, TypeOK, ConnectionTypeOK
<1>1. ASSUME NEW c \in Conn, ConnectionStep(c) PROVE Goal
  <2>1. UNCHANGED <<teacherClients, teacher, adding>>
    BY <1>1 DEF ConnectionStep, Connect, ConnectUpdate, ConnectFails, Disconnect, DisconnectUpdate,
                DisconnectFails, Close, bag, lists
  <2>2. \/ pc[c] = "new" /\ pc' = [pc EXCEPT ![c] = "connecting"]
        \/ pc[c] = "connecting" /\ pc' = [pc EXCEPT ![c] = "idle"]
        \/ \E there \in {"leaving", "left", "closed"} : pc' = [pc EXCEPT ![c] = there]
    BY <1>1 DEF ConnectionStep, Connect, ConnectUpdate, ConnectFails, Disconnect, DisconnectUpdate,
                DisconnectFails, Close, Goto
  <2> QED
    BY <1>0, <2>1, <2>2, ConnFacts, LookupUntouched
<1>2. ASSUME NEW t \in Teachers, ReplyTeacher(t) PROVE Goal
  <2>1. UNCHANGED <<teacherClients, teacher, adding>> /\ pc' = [pc EXCEPT ![t] = "ready"]
    BY <1>2 DEF ReplyTeacher, Goto, bag, lists
  <2> QED
    BY <1>0, <2>1, ConnFacts, LookupUntouched
<1>3. ASSUME NEW t \in Teachers, RegisterTeacher(t) PROVE Goal
  <2>1. UNCHANGED <<teacher, adding>> /\ \A s \in Students : pc'[s] = pc[s]
    BY <1>0, <1>3, ConnFacts DEF RegisterTeacher, Goto, lists
  <2>2. PICK move \in [DOMAIN teacherClients -> DOMAIN teacherClients'] :
           /\ \A i \in DOMAIN teacherClients : teacherClients'[move[i]] = teacherClients[i]
           /\ \A i, j \in DOMAIN teacherClients : i <= j => move[i] <= move[j]
    BY <1>0, <1>3, BagGrows
  <2>3. LookupInv'
    BY <1>0, <2>1, <2>2 DEF LookupInv
  <2>4. ASSUME NEW s \in Students, adding[s].teacher # None
        PROVE  \E i, j \in DOMAIN teacherClients' :
                 /\ i <= j
                 /\ teacherClients'[i] = adding[s].teacher
                 /\ teacherClients'[j] = teacher[s]
    <3>1. PICK i, j \in DOMAIN teacherClients :
                 /\ i <= j
                 /\ teacherClients[i] = adding[s].teacher
                 /\ teacherClients[j] = teacher[s]
      BY <1>0, <2>4 DEF ListedNoLaterThanFound
    <3>2. move[i] \in DOMAIN teacherClients' /\ move[j] \in DOMAIN teacherClients' /\ move[i] <= move[j]
      BY <2>2, <3>1
    <3> QED
      BY <2>2, <3>1, <3>2
  <2>5. ListedNoLaterThanFound'
    BY <2>1, <2>4 DEF ListedNoLaterThanFound
  <2> QED
    BY <2>3, <2>5
<1>4. ASSUME NEW s \in Students, RegisterStudent(s) PROVE Goal
  <2>1. PICK j \in DOMAIN teacherClients :
          FirstTeacher(CodeOf[s]) = teacherClients[j] /\ CodeOf[teacherClients[j]] = CodeOf[s]
    BY <1>0, <1>4, FirstTeacherType DEF RegisterStudent, TeacherConnected
  <2>2. /\ teacher' = [teacher EXCEPT ![s] = teacherClients[j]]
        /\ UNCHANGED <<teacherClients, adding>>
        /\ pc[s] = "idle" /\ pc' = [pc EXCEPT ![s] = "checked"]
    BY <1>4, <2>1 DEF RegisterStudent, Goto, bag, lists
  <2>3. teacherClients[j] \in Teachers /\ teacherClients[j] # None
    BY <1>0, <2>1, ConnFacts DEF StorageTypeOK
  <2>4. LookupInv'
    BY <1>0, <2>1, <2>2, <2>3, ConnFacts DEF LookupInv, CallTypeOK
  <2>5. adding[s].teacher = None
    BY <1>0, <2>2 DEF LookupInv
  <2>6. ListedNoLaterThanFound'
    BY <1>0, <2>2, <2>5 DEF ListedNoLaterThanFound, CallTypeOK
  <2> QED
    BY <2>4, <2>6
<1>5. ASSUME NEW s \in Students, AddStudent(s) PROVE Goal
  <2>1. /\ pc[s] = "checked" /\ pc' = [pc EXCEPT ![s] = "adding"]
        /\ UNCHANGED <<teacherClients, teacher>>
    BY <1>5 DEF AddStudent, Goto, bag
  <2>2. PICK k \in DOMAIN teacherClients : teacherClients[k] = teacher[s] /\ CodeOf[teacher[s]] = CodeOf[s]
    BY <1>0, <2>1 DEF LookupInv
  <2>3. PICK i \in DOMAIN teacherClients : i <= k /\ FirstTeacher(CodeOf[s]) = teacherClients[i]
    BY <1>0, <2>2, FirstTeacherFound
  <2>4. teacherClients[i] \in Teachers /\ teacherClients[i] # None
    BY <1>0, <2>3, ConnFacts DEF StorageTypeOK
  <2>5. adding' = [adding EXCEPT ![s] = [teacher |-> teacherClients[i], size |-> size[teacherClients[i]]]]
    BY <1>5, <2>3 DEF AddStudent
  <2>6. LookupInv'
    BY <1>0, <2>1, <2>4, <2>5, ConnFacts DEF LookupInv, CallTypeOK
  <2>7. ListedNoLaterThanFound'
    BY <1>0, <2>1, <2>2, <2>3, <2>5 DEF ListedNoLaterThanFound, CallTypeOK
  <2> QED
    BY <2>6, <2>7
<1>6. ASSUME NEW s \in Students, WriteSlot(s) PROVE Goal
  <2>1. /\ UNCHANGED <<teacherClients, teacher>>
        /\ pc[s] = "sized" /\ pc' = [pc EXCEPT ![s] = "written"]
        /\ adding' = [adding EXCEPT ![s].size = 0]
    BY <1>6 DEF WriteSlot, Goto, bag
  <2>2. \A u \in Students : adding'[u].teacher = adding[u].teacher
    BY <1>0, <2>1 DEF CallTypeOK
  <2> QED
    BY <1>0, <2>1, <2>2, ConnFacts, LookupUntouched
<1>7. ASSUME NEW s \in Students, RefuseStudent(s) \/ WriteSize(s) \/ JoinGroup(s) \/ NotifyTeacher(s)
                                 \/ ReplyStudent(s)
      PROVE  Goal
  <2>1. UNCHANGED <<teacherClients, teacher, adding>>
    BY <1>7 DEF RefuseStudent, WriteSize, JoinGroup, NotifyTeacher, ReplyStudent, bag, lists
  <2>2. \/ pc[s] = "adding" /\ pc' = [pc EXCEPT ![s] = "sized"]
        \/ pc[s] = "written" /\ pc' = [pc EXCEPT ![s] = "joined"]
        \/ pc[s] = "joined" /\ pc' = [pc EXCEPT ![s] = "notified"]
        \/ pc' = [pc EXCEPT ![s] = "ready"]
    BY <1>7 DEF RefuseStudent, WriteSize, JoinGroup, NotifyTeacher, ReplyStudent, Goto
  <2> QED
    BY <1>0, <2>1, <2>2, ConnFacts, LookupUntouched
<1>8. CASE UNCHANGED vars
  BY <1>0, <1>8, LookupUntouched DEF vars, bag, lists
<1> QED
  BY <1>1, <1>2, <1>3, <1>4, <1>5, <1>6, <1>7, <1>8, NextSteps DEF TeacherStep, StudentStep

\* The invariant holds in every reachable state.
LEMMA Inductive == Spec => []IInv
<1>1. IInv /\ [Next]_vars => IInv'
  BY ConnectionTypeStep, StorageTypeStep, CallTypeStep, MessageStep, HistoryTypeStep, LookupStep
     DEF IInv, TypeOK
<1> QED
  BY InitIInv, <1>1, PTL DEF Spec

-----------------------------------------------------------------------------
(***************************************************************************)
(* Theorems                                                                *)
(***************************************************************************)

\* Every variable keeps its type: no lookup of a call comes back with null.
THEOREM TypeCorrect == Spec => []TypeOK
BY Inductive, PTL DEF IInv

\* A student is listed under the teacher it was checked against or under one
\* that the bag enumerates before it.
THEOREM ListedSafe == Spec => []ListedNoLaterThanFound
BY Inductive, PTL DEF IInv

\* Every message carries an id that its receiver can acknowledge.
THEOREM AnswerableSafe == Spec => []SentIsAnswerable
<1>1. Init => SentIsAnswerable
  BY DEF Init, SentIsAnswerable
<1>2. IInv /\ SentIsAnswerable /\ [Next]_vars => SentIsAnswerable'
  BY MessageStep
<1> QED
  BY Inductive, <1>1, <1>2, PTL DEF Spec

-----------------------------------------------------------------------------
(***************************************************************************)
(* The counter                                                             *)
(***************************************************************************)

\* The connections that are counted as current.
Current == {c \in Live : pc[c] # "leaving"}

RejectedInv == \A c \in history.rejected : pc[c] \in {"left", "closed"}

CountInv == CurrentCountsRejected /\ RejectedInv

LEMMA ConnFinite == IsFiniteSet(Conn)
BY FiniteAssumption, FS_Union DEF Conn

\* A connection that starts to be served, or stops, is one more or one less.
LEMMA OneMoreOrLess ==
  ASSUME NEW S \in SUBSET Conn, NEW c \in Conn
  PROVE  /\ Cardinality(S) \in Nat
         /\ c \notin S => Cardinality(S \cup {c}) = Cardinality(S) + 1
         /\ c \in S => Cardinality(S \ {c}) = Cardinality(S) - 1
<1>1. IsFiniteSet(S)
  BY ConnFinite, FS_Subset
<1> QED
  BY <1>1, FS_CardinalityType, FS_AddElement, FS_RemoveElement

\* A step that leaves the counter alone, and no connection starts or stops.
LEMMA CountUntouched ==
  ASSUME CountInv, UNCHANGED <<counter, history.rejected>>,
         \A c \in Conn : (c \in Current) = (c \in Current)',
         \A c \in Conn : pc[c] \in {"left", "closed"} => pc'[c] \in {"left", "closed"},
         HistoryTypeOK
  PROVE  CountInv'
<1>1. Current' = Current
  BY DEF Current, Live
<1>2. CurrentCountsRejected'
  BY <1>1 DEF CountInv, CurrentCountsRejected, counter, Current
<1>3. RejectedInv'
  BY DEF CountInv, RejectedInv, HistoryTypeOK
<1> QED
  BY <1>2, <1>3 DEF CountInv

LEMMA CountStep == IInv /\ CountInv /\ [Next]_vars => CountInv'
<1> SUFFICES ASSUME IInv, CountInv, [Next]_vars PROVE CountInv'
  OBVIOUS
<1>0. /\ pc \in [Conn -> States]
      /\ totalConnectedCount \in Nat /\ totalDisconnectedCount \in Nat
      /\ HistoryTypeOK /\ history.rejected \in SUBSET Conn /\ Current \in SUBSET Conn
  BY DEF IInv, TypeOK, ConnectionTypeOK, HistoryTypeOK, Current, Live
<1>1. totalConnectedCount - totalDisconnectedCount = Cardinality(Current) + Cardinality(history.rejected)
  BY DEF CountInv, CurrentCountsRejected, Current
<1>10. Cardinality(Current) \in Nat /\ Cardinality(history.rejected) \in Nat
  BY <1>0, OneMoreOrLess
<1>2. ASSUME NEW c \in Conn, Connect(c) PROVE CountInv'
  <2>1. pc[c] = "new" /\ pc' = [pc EXCEPT ![c] = "connecting"] /\ UNCHANGED history
    BY <1>2 DEF Connect, Goto
  <2>2. c \notin Current /\ Current' = Current \cup {c}
    BY <1>0, <2>1 DEF Current, Live
  <2>3. totalConnectedCount' = totalConnectedCount + 1 /\ UNCHANGED totalDisconnectedCount
    BY <1>2 DEF Connect
  <2>4. Cardinality(Current \cup {c}) = Cardinality(Current) + 1
    BY <1>0, <2>2, OneMoreOrLess
  <2>5. totalConnectedCount' - totalDisconnectedCount' = Cardinality(Current') + Cardinality(history'.rejected)
    BY <1>0, <1>1, <1>10, <2>1, <2>2, <2>3, <2>4
  <2>6. RejectedInv'
    BY <1>0, <2>1 DEF CountInv, RejectedInv
  <2> QED
    BY <2>5, <2>6 DEF CountInv, CurrentCountsRejected, Current
<1>3. ASSUME NEW c \in Conn, Disconnect(c) PROVE CountInv'
  <2>1. pc[c] \in {"idle", "ready"} /\ pc' = [pc EXCEPT ![c] = "leaving"] /\ UNCHANGED history
    BY <1>3 DEF Disconnect, Goto
  <2>2. c \in Current /\ Current' = Current \ {c}
    BY <1>0, <2>1 DEF Current, Live
  <2>3. totalDisconnectedCount' = totalDisconnectedCount + 1 /\ UNCHANGED totalConnectedCount
    BY <1>3 DEF Disconnect
  <2>4. Cardinality(Current \ {c}) = Cardinality(Current) - 1
    BY <1>0, <2>2, OneMoreOrLess
  <2>5. totalConnectedCount' - totalDisconnectedCount' = Cardinality(Current') + Cardinality(history'.rejected)
    BY <1>0, <1>1, <1>10, <2>1, <2>2, <2>3, <2>4
  <2>6. RejectedInv'
    BY <1>0, <2>1 DEF CountInv, RejectedInv
  <2> QED
    BY <2>5, <2>6 DEF CountInv, CurrentCountsRejected, Current
<1>4. ASSUME NEW c \in Conn, ConnectFails(c) PROVE CountInv'
  <2>1. /\ pc[c] = "connecting" /\ pc' = [pc EXCEPT ![c] = "left"]
        /\ history' = [history EXCEPT !.rejected = history.rejected \cup {c}]
        /\ UNCHANGED counter
    BY <1>4 DEF ConnectFails, Goto
  <2>2. c \in Current /\ Current' = Current \ {c}
    BY <1>0, <2>1 DEF Current, Live
  <2>3. c \notin history.rejected /\ history'.rejected = history.rejected \cup {c}
    BY <1>0, <2>1 DEF CountInv, RejectedInv, HistoryTypeOK
  <2>4. totalConnectedCount' - totalDisconnectedCount' = Cardinality(Current') + Cardinality(history'.rejected)
    BY <1>0, <1>1, <2>1, <2>2, <2>3, OneMoreOrLess DEF counter
  <2>5. RejectedInv'
    BY <1>0, <2>1, <2>3 DEF CountInv, RejectedInv
  <2> QED
    BY <2>4, <2>5 DEF CountInv, CurrentCountsRejected, Current
<1>5. ASSUME NEW c \in Conn, ConnectUpdate(c) \/ DisconnectUpdate(c) \/ DisconnectFails(c) \/ Close(c)
      PROVE  CountInv'
  <2>1. UNCHANGED counter /\ UNCHANGED history.rejected
    BY <1>0, <1>5 DEF ConnectUpdate, DisconnectUpdate, DisconnectFails, Close, HistoryTypeOK
  <2>2. \/ pc[c] = "connecting" /\ pc' = [pc EXCEPT ![c] = "idle"]
        \/ pc[c] = "leaving" /\ pc' = [pc EXCEPT ![c] = "left"]
        \/ pc[c] = "left" /\ pc' = [pc EXCEPT ![c] = "closed"]
    BY <1>5 DEF ConnectUpdate, DisconnectUpdate, DisconnectFails, Close, Goto
  <2>3. \A d \in Conn : (d \in Current) = (d \in Current)'
    BY <1>0, <2>2 DEF Current, Live
  <2>4. \A d \in Conn : pc[d] \in {"left", "closed"} => pc'[d] \in {"left", "closed"}
    BY <1>0, <2>2
  <2> QED
    BY <1>0, <2>1, <2>3, <2>4, CountUntouched
<1>6. ASSUME NEW c \in Conn, UNCHANGED counter, UNCHANGED history.rejected,
             \E here, there \in {"idle", "added", "checked", "adding", "sized", "written", "joined",
                                 "notified", "ready"} :
               pc[c] = here /\ pc' = [pc EXCEPT ![c] = there]
      PROVE  CountInv'
  <2>1. \A d \in Conn : (d \in Current) = (d \in Current)'
    BY <1>0, <1>6 DEF Current, Live
  <2>2. \A d \in Conn : pc[d] \in {"left", "closed"} => pc'[d] \in {"left", "closed"}
    BY <1>0, <1>6
  <2> QED
    BY <1>0, <1>6, <2>1, <2>2, CountUntouched
<1>7. ASSUME NEW t \in Teachers, TeacherStep(t) PROVE CountInv'
  BY <1>6, <1>7, ConnFacts DEF TeacherStep, RegisterTeacher, ReplyTeacher, Goto
<1>8. ASSUME NEW s \in Students, StudentStep(s) PROVE CountInv'
  <2>1. UNCHANGED counter /\ UNCHANGED history.rejected
    BY <1>0, <1>8 DEF StudentStep, RegisterStudent, RefuseStudent, AddStudent, WriteSize, WriteSlot,
                      JoinGroup, NotifyTeacher, ReplyStudent, HistoryTypeOK
  <2>2. \E here, there \in {"idle", "added", "checked", "adding", "sized", "written", "joined",
                            "notified", "ready"} :
          pc[s] = here /\ pc' = [pc EXCEPT ![s] = there]
    BY <1>8 DEF StudentStep, RegisterStudent, RefuseStudent, AddStudent, WriteSize, WriteSlot,
                JoinGroup, NotifyTeacher, ReplyStudent, Goto
  <2> QED
    BY <1>6, <2>1, <2>2, ConnFacts
<1>9. CASE UNCHANGED vars
  BY <1>0, <1>9, CountUntouched DEF vars, Current, Live
<1> QED
  BY <1>2, <1>3, <1>4, <1>5, <1>7, <1>8, <1>9, NextSteps DEF ConnectionStep

\* What the counter reports as current is right but for the connections that
\* were turned away, which it never stops to count.
THEOREM CountSafe == Spec => []CurrentCountsRejected
<1>1. Init => CountInv
  <2> SUFFICES ASSUME Init PROVE CountInv
    OBVIOUS
  <2>1. Current = {} /\ history.rejected = {}
    BY DEF Init, Current, Live
  <2> QED
    <3>1. Cardinality(Current) = 0 /\ Cardinality(history.rejected) = 0
      BY <2>1, FS_EmptySet
    <3>2. totalConnectedCount = 0 /\ totalDisconnectedCount = 0
      BY DEF Init
    <3>3. CurrentCountsRejected
      BY <3>1, <3>2 DEF CurrentCountsRejected, Current
    <3> QED
      BY <2>1, <3>3 DEF CountInv, RejectedInv
<1> QED
  BY Inductive, <1>1, CountStep, PTL DEF Spec, CountInv

-----------------------------------------------------------------------------
(***************************************************************************)
(* The groups                                                              *)
(***************************************************************************)

\* A student whose registration got past the group is in it.
JoinedInv == \A s \in Students : pc[s] \in {"joined", "notified"} => s \in groups[CodeOf[s]]

GroupInv == GroupsExact /\ JoinedInv

\* A step that leaves the groups alone, and tells nobody but a student that is
\* in its group that it is registered.
LEMMA GroupsUntouched ==
  ASSUME IInv, GroupInv, UNCHANGED groups,
         \A c \in Conn : pc'[c] \in {"joined", "notified"} => pc[c] \in {"joined", "notified"},
         \A c \in Conn : pc'[c] \in {"new", "closed"} => pc[c] = pc'[c],
         \A c \in Conn : pc[c] = "closed" => pc'[c] = "closed",
         \A u \in Students : (\E m \in sent' : m.id = <<u, 2>>) =>
                               u \in groups[CodeOf[u]] \/ \E m \in sent : m.id = <<u, 2>>
  PROVE  GroupInv'
<1>1. groups \in [Codes -> SUBSET Students] /\ Students \subseteq Conn
  BY DEF IInv, TypeOK, ConnectionTypeOK, Conn
<1>2. JoinedInv'
  BY <1>1 DEF GroupInv, JoinedInv
<1>3. \A code \in Codes : \A s \in groups'[code] : CodeOf[s] = code /\ pc'[s] \notin {"new", "closed"}
  BY <1>1 DEF GroupInv, GroupsExact
<1>4. ASSUME NEW s \in Students, pc'[s] # "closed", \E m \in sent' : m.id = <<s, 2>>
      PROVE  s \in groups'[CodeOf[s]]
  BY <1>1, <1>4 DEF GroupInv, GroupsExact
<1> QED
  BY <1>2, <1>3, <1>4 DEF GroupInv, GroupsExact

\* The message that is sent carries the id of the record.
LEMMA ToldByRecord ==
  ASSUME MessageTypeOK, NEW c \in Conn, NEW k \in 1..2, NEW receiver,
         Record(c, k, receiver), SendSummary(c, receiver)
  PROVE  sent' = sent \cup {[id |-> <<c, k>>, receiver |-> receiver]}
BY DEF MessageTypeOK, Record, SendSummary

LEMMA GroupStep == IInv /\ GroupInv /\ [Next]_vars => GroupInv'
<1> SUFFICES ASSUME IInv, GroupInv, [Next]_vars PROVE GroupInv'
  OBVIOUS
<1>0. /\ pc \in [Conn -> States] /\ groups \in [Codes -> SUBSET Students]
      /\ MessageTypeOK /\ Students \subseteq Conn /\ Teachers \subseteq Conn
      /\ Teachers \cap Students = {} /\ CodeOf \in [Conn -> Codes]
  BY ConnAssumption, CodeAssumption DEF IInv, TypeOK, ConnectionTypeOK, Conn
<1>1. ASSUME NEW c \in Conn, UNCHANGED <<groups, sent>>,
             \E here \in States \ {"left", "closed"} :
               \E there \in States \ {"new", "joined", "notified", "closed"} :
                 pc[c] = here /\ pc' = [pc EXCEPT ![c] = there]
      PROVE  GroupInv'
  <2>1. \A d \in Conn : /\ pc'[d] \in {"joined", "notified"} => pc[d] \in {"joined", "notified"}
                        /\ pc'[d] \in {"new", "closed"} => pc[d] = pc'[d]
                        /\ pc[d] = "closed" => pc'[d] = "closed"
    BY <1>0, <1>1
  <2> QED
    BY <1>1, <2>1, GroupsUntouched
<1>2. ASSUME NEW c \in Conn, ConnectionStep(c), ~Close(c) PROVE GroupInv'
  BY <1>1, <1>2 DEF ConnectionStep, Connect, ConnectUpdate, ConnectFails, Disconnect, DisconnectUpdate,
                    DisconnectFails, Goto, messages, States
<1>3. ASSUME NEW c \in Conn, Close(c) PROVE GroupInv'
  <2>1. /\ pc' = [pc EXCEPT ![c] = "closed"] /\ pc[c] = "left" /\ UNCHANGED sent
        /\ groups' = [code \in Codes |-> groups[code] \ {c}]
    BY <1>3 DEF Close, Goto, messages
  <2>2. \A code \in Codes : groups'[code] = groups[code] \ {c}
    BY <2>1
  <2>3. \A d \in Conn : pc'[d] = IF d = c THEN "closed" ELSE pc[d]
    BY <1>0, <2>1
  <2>4. JoinedInv'
    BY <1>0, <2>2, <2>3 DEF GroupInv, JoinedInv
  <2>5. GroupsExact'
    BY <1>0, <2>1, <2>2, <2>3 DEF GroupInv, GroupsExact
  <2> QED
    BY <2>4, <2>5 DEF GroupInv
<1>4. ASSUME NEW t \in Teachers, RegisterTeacher(t) PROVE GroupInv'
  BY <1>0, <1>1, <1>4 DEF RegisterTeacher, Goto, messages, States
<1>5. ASSUME NEW t \in Teachers, ReplyTeacher(t) PROVE GroupInv'
  <2>1. UNCHANGED groups /\ pc[t] = "added" /\ pc' = [pc EXCEPT ![t] = "ready"] /\ Record(t, 1, t)
    BY <1>5 DEF ReplyTeacher, Goto
  <2>2. \A m \in sent' : m \in sent \/ m.id = <<t, 1>>
    BY <1>0, <1>5, <2>1, ToldByRecord DEF ReplyTeacher
  <2>3. \A u \in Students : (\E m \in sent' : m.id = <<u, 2>>) => \E m \in sent : m.id = <<u, 2>>
    BY <2>2
  <2>4. \A d \in Conn : /\ pc'[d] \in {"joined", "notified"} => pc[d] \in {"joined", "notified"}
                        /\ pc'[d] \in {"new", "closed"} => pc[d] = pc'[d]
                        /\ pc[d] = "closed" => pc'[d] = "closed"
    BY <1>0, <2>1
  <2> QED
    BY <2>1, <2>3, <2>4, GroupsUntouched
<1>6. ASSUME NEW s \in Students, RegisterStudent(s) \/ RefuseStudent(s) \/ AddStudent(s)
                                 \/ WriteSize(s) \/ WriteSlot(s)
      PROVE  GroupInv'
  BY <1>0, <1>1, <1>6 DEF RegisterStudent, RefuseStudent, AddStudent, WriteSize, WriteSlot, Goto, messages,
                          States
<1>7. ASSUME NEW s \in Students, JoinGroup(s) PROVE GroupInv'
  <2>1. /\ pc' = [pc EXCEPT ![s] = "joined"] /\ pc[s] = "written" /\ UNCHANGED sent
        /\ groups' = [groups EXCEPT ![CodeOf[s]] = groups[CodeOf[s]] \cup {s}]
    BY <1>7 DEF JoinGroup, Goto, messages
  <2>2. \A code \in Codes : groups'[code] = IF code = CodeOf[s] THEN groups[code] \cup {s} ELSE groups[code]
    BY <1>0, <2>1
  <2>3. \A d \in Conn : pc'[d] = IF d = s THEN "joined" ELSE pc[d]
    BY <1>0, <2>1
  <2>4. JoinedInv'
    BY <1>0, <2>2, <2>3 DEF GroupInv, JoinedInv
  <2>5. GroupsExact'
    BY <1>0, <2>1, <2>2, <2>3 DEF GroupInv, GroupsExact
  <2> QED
    BY <2>4, <2>5 DEF GroupInv
<1>8. ASSUME NEW s \in Students, NotifyTeacher(s) \/ ReplyStudent(s) PROVE GroupInv'
  <2>1. UNCHANGED groups /\ pc[s] \in {"joined", "notified"}
    BY <1>8 DEF NotifyTeacher, ReplyStudent, Goto
  <2>2. \A d \in Conn : /\ pc'[d] \in {"joined", "notified"} => pc[d] \in {"joined", "notified"}
                        /\ pc'[d] \in {"new", "closed"} => pc[d] = pc'[d]
                        /\ pc[d] = "closed" => pc'[d] = "closed"
    BY <1>0, <1>8 DEF NotifyTeacher, ReplyStudent, Goto
  <2>3. \A m \in sent' : m \in sent \/ \E k \in 1..2 : m.id = <<s, k>>
    BY <1>0, <1>8, ToldByRecord DEF NotifyTeacher, ReplyStudent
  <2>4. s \in groups[CodeOf[s]]
    BY <2>1 DEF GroupInv, JoinedInv
  <2>5. \A u \in Students : (\E m \in sent' : m.id = <<u, 2>>) =>
                               u \in groups[CodeOf[u]] \/ \E m \in sent : m.id = <<u, 2>>
    BY <2>3, <2>4
  <2> QED
    BY <2>1, <2>2, <2>5, GroupsUntouched
<1>9. CASE UNCHANGED vars
  BY <1>9, GroupsUntouched DEF vars, messages
<1> QED
  BY <1>2, <1>3, <1>4, <1>5, <1>6, <1>7, <1>8, <1>9, NextSteps DEF TeacherStep, StudentStep

LEMMA GroupInductive == Spec => []GroupInv
<1>1. Init => GroupInv
  BY CodeAssumption DEF Init, GroupInv, GroupsExact, JoinedInv, Conn
<1> QED
  BY Inductive, <1>1, GroupStep, PTL DEF Spec

\* The group of a code has exactly the students of the code that joined it and
\* are not closed.
THEOREM GroupsSafe == Spec => []GroupsExact
BY GroupInductive, PTL DEF GroupInv

=============================================================================
