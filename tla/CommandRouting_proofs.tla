----------------------- MODULE CommandRouting_proofs -----------------------
(***************************************************************************)
(* Commands reach their class, reports their teacher, and nobody that was  *)
(* told it is registered is refused: for all sets of connections and codes.*)
(***************************************************************************)
EXTENDS CommandRouting, ProxyHub_proofs

\* Commands change nothing that the other calls use, so whatever holds of the
\* hub holds of the hub with commands.
THEOREM HubIsKept == CommandSpec => Spec
<1>1. CommandInit => Init
  BY DEF CommandInit
<1>2. [CommandNext]_allVars => [Next]_vars
  <2> SUFFICES ASSUME [CommandNext]_allVars PROVE [Next]_vars
    OBVIOUS
  <2>1. ASSUME NEW t \in Teachers, Start(t) \/ Stop(t) \/ AllowLogin(t) \/ DenyLogin(t)
        PROVE  UNCHANGED vars
    BY <2>1 DEF Start, Stop, AllowLogin, DenyLogin
  <2>2. ASSUME NEW s \in Students, Status(s) \/ StatusFails(s) \/ SendStatus(s)
        PROVE  UNCHANGED vars
    BY <2>2 DEF Status, StatusFails, SendStatus
  <2>3. CASE UNCHANGED allVars
    BY <2>3 DEF allVars
  <2> QED
    BY <2>1, <2>2, <2>3 DEF CommandNext
<1> QED
  BY <1>1, <1>2, PTL DEF CommandSpec, Spec

-----------------------------------------------------------------------------
(***************************************************************************)
(* What the handlers rely on: a teacher is in the bag and online between   *)
(* its registration and its end, and the reply comes in between.           *)
(***************************************************************************)

OnlineInv ==
  \A t \in Teachers : pc[t] \in {"added", "ready"} => t \in Registered /\ isConnected[t]

ReplyInv ==
  /\ \A t \in Teachers : (\E m \in sent : m.id = <<t, 1>>) => pc[t] \in {"ready", "leaving", "left", "closed"}
  /\ \A s \in Students : (\E m \in sent : m.id = <<s, 2>>) => teacher[s] # None

ServedInv == OnlineInv /\ ReplyInv

\* Nobody leaves the bag.
LEMMA BagKept == IInv /\ [Next]_vars => Registered \subseteq Registered'
<1> SUFFICES ASSUME IInv, [Next]_vars PROVE Registered \subseteq Registered'
  OBVIOUS
<1>1. StorageTypeOK
  BY DEF IInv, TypeOK
<1>2. ASSUME NEW t \in Teachers, RegisterTeacher(t) PROVE Registered \subseteq Registered'
  <2>1. PICK move \in [DOMAIN teacherClients -> DOMAIN teacherClients'] :
          \A i \in DOMAIN teacherClients : teacherClients'[move[i]] = teacherClients[i]
    BY <1>1, <1>2, BagGrows
  <2> QED
    BY <2>1 DEF Registered, Range
<1>3. ASSUME UNCHANGED teacherClients PROVE Registered \subseteq Registered'
  BY <1>3 DEF Registered
<1>4. ASSUME NEW c \in Conn, ConnectionStep(c) PROVE UNCHANGED teacherClients
  BY <1>4 DEF ConnectionStep, Connect, ConnectUpdate, ConnectFails, Disconnect, DisconnectUpdate,
              DisconnectFails, Close, bag
<1>5. ASSUME NEW t \in Teachers, ReplyTeacher(t) PROVE UNCHANGED teacherClients
  BY <1>5 DEF ReplyTeacher, bag
<1>6. ASSUME NEW s \in Students, StudentStep(s) PROVE UNCHANGED teacherClients
  BY <1>6 DEF StudentStep, RegisterStudent, RefuseStudent, AddStudent, WriteSize, WriteSlot, JoinGroup,
              NotifyTeacher, ReplyStudent, bag
<1>7. ASSUME UNCHANGED vars PROVE UNCHANGED teacherClients
  BY <1>7 DEF vars, bag
<1>8. (\E t \in Teachers : RegisterTeacher(t)) \/ UNCHANGED teacherClients
  BY <1>4, <1>5, <1>6, <1>7, NextSteps DEF TeacherStep
<1> QED
  BY <1>2, <1>3, <1>8

\* A teacher that registers is in the bag.
LEMMA RegisterAdds ==
  ASSUME IInv, NEW t \in Teachers, RegisterTeacher(t)
  PROVE  t \in Registered'
<1>1. StorageTypeOK
  BY DEF IInv, TypeOK
<1>2. PICK w \in Workers : teacherClients' = InsertAt(teacherClients, PlaceOf(w), t)
  BY DEF RegisterTeacher
<1>3. PICK p \in 1..(Len(teacherClients) + 1) : p = PlaceOf(w)
  BY <1>1, PlaceType
<1> DEFINE front == SubSeq(teacherClients, 1, p - 1)
           back == SubSeq(teacherClients, p, Len(teacherClients))
<1>4. front \in Seq(Teachers) /\ back \in Seq(Teachers) /\ Len(front) = p - 1
  BY <1>1 DEF StorageTypeOK
<1>5. teacherClients' = front \o <<t>> \o back
  BY <1>2, <1>3 DEF InsertAt
<1>6. p \in DOMAIN teacherClients' /\ teacherClients'[p] = t
  <2> HIDE DEF front, back
  <2> QED
    BY <1>3, <1>4, <1>5
<1> QED
  BY <1>6 DEF Registered, Range

\* Nobody else is.
LEMMA RegisterAddsOne ==
  ASSUME IInv, NEW t \in Teachers, RegisterTeacher(t)
  PROVE  Registered' \subseteq Registered \cup {t}
<1>1. StorageTypeOK
  BY DEF IInv, TypeOK
<1>2. PICK w \in Workers : teacherClients' = InsertAt(teacherClients, PlaceOf(w), t)
  BY DEF RegisterTeacher
<1>3. PICK p \in 1..(Len(teacherClients) + 1) : p = PlaceOf(w)
  BY <1>1, PlaceType
<1> DEFINE front == SubSeq(teacherClients, 1, p - 1)
           back == SubSeq(teacherClients, p, Len(teacherClients))
<1>4. /\ front \in Seq(Teachers) /\ back \in Seq(Teachers)
      /\ \A i \in DOMAIN front : front[i] \in Registered
      /\ \A i \in DOMAIN back : back[i] \in Registered
  <2>1. teacherClients \in Seq(Teachers) /\ \A i \in 1..Len(teacherClients) : teacherClients[i] \in Registered
    BY <1>1 DEF StorageTypeOK, Registered, Range
  <2>2. front \in Seq(Teachers) /\ \A i \in DOMAIN front : front[i] = teacherClients[i] /\ i \in 1..Len(teacherClients)
    BY <2>1
  <2>3. /\ back \in Seq(Teachers)
        /\ \A i \in DOMAIN back : /\ back[i] = teacherClients[p + i - 1]
                                  /\ p + i - 1 \in 1..Len(teacherClients)
    BY <2>1
  <2> HIDE DEF front, back
  <2> QED
    BY <2>1, <2>2, <2>3
<1>5. teacherClients' = front \o <<t>> \o back
  BY <1>2, <1>3 DEF InsertAt
<1>6. \A i \in DOMAIN teacherClients' : teacherClients'[i] \in Registered \cup {t}
  <2> HIDE DEF front, back
  <2> QED
    BY <1>4, <1>5
<1> QED
  BY <1>6 DEF Registered, Range

LEMMA OnlineStep == IInv /\ OnlineInv /\ [Next]_vars => OnlineInv'
<1> SUFFICES ASSUME IInv, OnlineInv, [Next]_vars, NEW u \in Teachers, pc'[u] \in {"added", "ready"}
             PROVE  u \in Registered' /\ isConnected'[u]
  BY DEF OnlineInv
<1> DEFINE Goal == u \in Registered' /\ isConnected'[u]
<1>0. /\ pc \in [Conn -> States] /\ isConnected \in [Conn -> BOOLEAN] /\ u \in Conn
      /\ Teachers \cap Students = {} /\ Registered \subseteq Registered'
  BY ConnAssumption, BagKept DEF IInv, TypeOK, ConnectionTypeOK, Conn
<1>1. ASSUME pc[u] \in {"added", "ready"}, isConnected'[u] = isConnected[u] PROVE Goal
  BY <1>0, <1>1 DEF OnlineInv
<1>2. ASSUME NEW c \in Conn, ConnectionStep(c) PROVE Goal
  <2>1. pc'[c] \notin {"added", "ready"} /\ pc' = [pc EXCEPT ![c] = pc'[c]]
    BY <1>0, <1>2 DEF ConnectionStep, Connect, ConnectUpdate, ConnectFails, Disconnect, DisconnectUpdate,
                      DisconnectFails, Close, Goto
  <2>2. \A d \in Conn : d # c => isConnected'[d] = isConnected[d]
    BY <1>0, <1>2 DEF ConnectionStep, Connect, ConnectUpdate, ConnectFails, Disconnect, DisconnectUpdate,
                      DisconnectFails, Close, UpdateConnectedState, UpdateFails
  <2> QED
    BY <1>0, <1>1, <2>1, <2>2
<1>3. ASSUME NEW t \in Teachers, RegisterTeacher(t) PROVE Goal
  <2>1. /\ pc' = [pc EXCEPT ![t] = "added"]
        /\ isConnected' = [isConnected EXCEPT ![t] = TRUE]
    BY <1>3 DEF RegisterTeacher, Goto
  <2>2. CASE u = t
    BY <1>0, <1>3, <2>1, <2>2, RegisterAdds
  <2>3. CASE u # t
    BY <1>0, <1>1, <2>1, <2>3
  <2> QED
    BY <2>2, <2>3
<1>4. ASSUME NEW t \in Teachers, ReplyTeacher(t) PROVE Goal
  BY <1>0, <1>1, <1>4 DEF ReplyTeacher, Goto
<1>5. ASSUME NEW s \in Students, StudentStep(s) PROVE Goal
  <2>1. pc'[u] = pc[u] /\ isConnected'[u] = isConnected[u]
    BY <1>0, <1>5 DEF StudentStep, RegisterStudent, RefuseStudent, AddStudent, WriteSize, WriteSlot,
                      JoinGroup, NotifyTeacher, ReplyStudent, Goto
  <2> QED
    BY <1>1, <2>1
<1>6. CASE UNCHANGED vars
  BY <1>1, <1>6 DEF vars
<1> QED
  BY <1>2, <1>3, <1>4, <1>5, <1>6, NextSteps DEF TeacherStep

LEMMA ReplyStep == IInv /\ ReplyInv /\ [Next]_vars => ReplyInv'
<1> SUFFICES ASSUME IInv, ReplyInv, [Next]_vars PROVE ReplyInv'
  OBVIOUS
<1> DEFINE Over == {"ready", "leaving", "left", "closed"}
<1>0. /\ pc \in [Conn -> States] /\ teacher \in [Students -> Teachers \cup {None}]
      /\ MessageTypeOK /\ LookupInv
      /\ Teachers \subseteq Conn /\ Students \subseteq Conn /\ Teachers \cap Students = {}
  BY ConnAssumption DEF IInv, TypeOK, ConnectionTypeOK, CallTypeOK, Conn
\* A step that tells nobody, keeps what was looked up, and takes no connection back.
<1>1. ASSUME UNCHANGED sent,
             \A s \in Students : teacher[s] # None => teacher'[s] # None,
             \A t \in Teachers : pc[t] \in Over => pc'[t] \in Over
      PROVE  ReplyInv'
  BY <1>1 DEF ReplyInv
<1>2. ASSUME NEW c \in Conn, ConnectionStep(c) PROVE ReplyInv'
  <2>1. UNCHANGED <<sent, teacher>>
    BY <1>2 DEF ConnectionStep, Connect, ConnectUpdate, ConnectFails, Disconnect, DisconnectUpdate,
                DisconnectFails, Close, messages
  <2>2. \A d \in Conn : pc[d] \in Over => pc'[d] \in Over
    BY <1>0, <1>2 DEF ConnectionStep, Connect, ConnectUpdate, ConnectFails, Disconnect, DisconnectUpdate,
                      DisconnectFails, Close, Goto
  <2> QED
    BY <1>0, <1>1, <2>1, <2>2
<1>3. ASSUME NEW t \in Teachers, RegisterTeacher(t) PROVE ReplyInv'
  <2>1. UNCHANGED <<sent, teacher>> /\ pc[t] = "idle" /\ pc' = [pc EXCEPT ![t] = "added"]
    BY <1>3 DEF RegisterTeacher, Goto, messages
  <2> QED
    BY <1>0, <1>1, <2>1
<1>4. ASSUME NEW t \in Teachers, ReplyTeacher(t) PROVE ReplyInv'
  <2>1. UNCHANGED teacher /\ pc' = [pc EXCEPT ![t] = "ready"] /\ Record(t, 1, t)
    BY <1>4 DEF ReplyTeacher, Goto
  <2>2. \A m \in sent' : m \in sent \/ m.id = <<t, 1>>
    BY <1>0, <1>4, <2>1, ToldByRecord DEF ReplyTeacher
  <2>3. \A u \in Teachers : pc'[u] = IF u = t THEN "ready" ELSE pc[u]
    BY <1>0, <2>1
  <2>4. ASSUME NEW u \in Teachers, NEW m \in sent', m.id = <<u, 1>> PROVE pc'[u] \in Over
    BY <2>2, <2>3, <2>4 DEF ReplyInv
  <2>5. ASSUME NEW s \in Students, NEW m \in sent', m.id = <<s, 2>> PROVE teacher'[s] # None
    BY <2>1, <2>2, <2>5 DEF ReplyInv
  <2> QED
    BY <2>4, <2>5 DEF ReplyInv
<1>5. ASSUME NEW s \in Students, RegisterStudent(s) PROVE ReplyInv'
  <2>1. /\ UNCHANGED sent /\ FirstTeacher(CodeOf[s]) # None
        /\ teacher' = [teacher EXCEPT ![s] = FirstTeacher(CodeOf[s])]
        /\ pc' = [pc EXCEPT ![s] = "checked"]
    BY <1>5 DEF RegisterStudent, TeacherConnected, Goto, messages
  <2> QED
    BY <1>0, <1>1, <2>1
<1>6. ASSUME NEW s \in Students,
             RefuseStudent(s) \/ AddStudent(s) \/ WriteSize(s) \/ WriteSlot(s) \/ JoinGroup(s)
      PROVE  ReplyInv'
  <2>1. UNCHANGED <<sent, teacher>>
    BY <1>6 DEF RefuseStudent, AddStudent, WriteSize, WriteSlot, JoinGroup, messages
  <2>2. \A t \in Teachers : pc'[t] = pc[t]
    BY <1>0, <1>6 DEF RefuseStudent, AddStudent, WriteSize, WriteSlot, JoinGroup, Goto
  <2> QED
    BY <1>1, <2>1, <2>2
<1>7. ASSUME NEW s \in Students, NotifyTeacher(s) \/ ReplyStudent(s) PROVE ReplyInv'
  <2>1. UNCHANGED teacher /\ teacher[s] # None
    BY <1>0, <1>7 DEF NotifyTeacher, ReplyStudent, Goto, LookupInv
  <2>2. \A m \in sent' : m \in sent \/ \E k \in 1..2 : m.id = <<s, k>>
    BY <1>0, <1>7, ToldByRecord DEF NotifyTeacher, ReplyStudent
  <2>3. \A t \in Teachers : pc'[t] = pc[t]
    BY <1>0, <1>7 DEF NotifyTeacher, ReplyStudent, Goto
  <2>4. ASSUME NEW u \in Teachers, NEW m \in sent', m.id = <<u, 1>> PROVE pc'[u] \in Over
    BY <1>0, <2>2, <2>3, <2>4 DEF ReplyInv
  <2>5. ASSUME NEW v \in Students, NEW m \in sent', m.id = <<v, 2>> PROVE teacher'[v] # None
    BY <2>1, <2>2, <2>5 DEF ReplyInv
  <2> QED
    BY <2>4, <2>5 DEF ReplyInv
<1>8. CASE UNCHANGED vars
  BY <1>1, <1>8 DEF vars, messages
<1> QED
  BY <1>2, <1>3, <1>4, <1>5, <1>6, <1>7, <1>8, NextSteps DEF TeacherStep, StudentStep

LEMMA ServedInductive == Spec => []ServedInv
<1>1. Init => ServedInv
  BY ConnFacts DEF Init, ServedInv, OnlineInv, ReplyInv
<1>2. IInv /\ ServedInv /\ [Next]_vars => ServedInv'
  BY OnlineStep, ReplyStep DEF ServedInv
<1> QED
  BY Inductive, <1>1, <1>2, PTL DEF Spec

-----------------------------------------------------------------------------
(***************************************************************************)
(* The commands                                                            *)
(***************************************************************************)

\* The teacher that a handler found has the code of the student.
LookedInv == \A s \in Students : looked[s] # None => CodeOf[looked[s]] = CodeOf[s]

CommandInv == CommandTypeOK /\ LookedInv

\* What FirstTeacher finds is a registered teacher of the code.
LEMMA FirstRegistered ==
  ASSUME StorageTypeOK, NEW code, FirstTeacher(code) # None
  PROVE  /\ FirstTeacher(code) \in Registered
         /\ FirstTeacher(code) \in Teachers
         /\ CodeOf[FirstTeacher(code)] = code
<1>1. PICK i \in DOMAIN teacherClients :
        FirstTeacher(code) = teacherClients[i] /\ CodeOf[teacherClients[i]] = code
  BY FirstTeacherType
<1> QED
  BY <1>1 DEF Registered, Range, StorageTypeOK

\* Delivering a command keeps the types.
LEMMA DeliverType ==
  ASSUME issued \subseteq Command, failed \subseteq Command, inbox \in [Conn -> SUBSET issued],
         NEW c \in Conn, NEW kind \in Kinds, NEW receivers, Deliver(c, kind, receivers)
  PROVE  /\ issued' \subseteq Command
         /\ failed' \subseteq Command
         /\ inbox' \in [Conn -> SUBSET issued']
<1>1. [kind |-> kind, from |-> c] \in Command
  BY DEF Command
<1> QED
  BY <1>1 DEF Deliver

LEMMA ThrowType ==
  ASSUME issued \subseteq Command, failed \subseteq Command, inbox \in [Conn -> SUBSET issued],
         NEW c \in Conn, NEW kind \in Kinds, Throw(c, kind)
  PROVE  /\ issued' \subseteq Command
         /\ failed' \subseteq Command
         /\ inbox' \in [Conn -> SUBSET issued']
<1>1. [kind |-> kind, from |-> c] \in Command
  BY DEF Command
<1> QED
  BY <1>1 DEF Throw

LEMMA CommandStep == IInv /\ CommandInv /\ [CommandNext]_allVars => CommandInv'
<1> SUFFICES ASSUME IInv, CommandInv, [CommandNext]_allVars PROVE CommandInv'
  OBVIOUS
<1> DEFINE MessagesOK == /\ issued \subseteq Command
                         /\ failed \subseteq Command
                         /\ inbox \in [Conn -> SUBSET issued]
           LookedOK == /\ looked \in [Students -> Teachers \cup {None}]
                       /\ \A s \in Students : looked[s] # None =>
                            looked[s] \in Registered /\ pc[s] \in {"idle", "ready"}
                       /\ LookedInv
<1>0. /\ MessagesOK /\ LookedOK /\ StorageTypeOK
      /\ Teachers \subseteq Conn /\ Students \subseteq Conn
      /\ TeacherKinds \subseteq Kinds /\ "Status" \in Kinds
  BY ConnFacts DEF CommandInv, CommandTypeOK, IInv, TypeOK, Kinds
<1>1. ASSUME MessagesOK', LookedOK' PROVE CommandInv'
  BY <1>1 DEF CommandInv, CommandTypeOK
<1>2. ASSUME Next, \A s \in Students : looked[s] # None => pc'[s] = pc[s], UNCHANGED routing
      PROVE  CommandInv'
  <2>1. Registered \subseteq Registered'
    BY <1>2, BagKept
  <2>2. UNCHANGED <<looked, issued, failed, inbox>>
    BY <1>2 DEF routing
  <2>3. MessagesOK'
    BY <1>0, <2>2
  <2>4. LookedOK'
    BY <1>0, <1>2, <2>1, <2>2 DEF LookedInv
  <2> QED
    BY <1>1, <2>3, <2>4
<1>3. ASSUME NEW t \in Teachers, Start(t) \/ Stop(t) \/ AllowLogin(t) \/ DenyLogin(t)
      PROVE  CommandInv'
  <2>1. UNCHANGED <<pc, teacherClients, looked>>
    BY <1>3 DEF Start, Stop, AllowLogin, DenyLogin, vars, bag
  <2>2. LookedOK'
    BY <1>0, <2>1 DEF LookedInv, Registered
  <2>3. MessagesOK'
    BY <1>0, <1>3, DeliverType, ThrowType DEF Start, Stop, AllowLogin, DenyLogin, TeacherKinds
  <2> QED
    BY <1>1, <2>2, <2>3
<1>4. ASSUME NEW s \in Students, Status(s) PROVE CommandInv'
  <2>1. /\ UNCHANGED <<pc, teacherClients, issued, failed, inbox>>
        /\ pc[s] \in {"idle", "ready"} /\ FirstTeacher(CodeOf[s]) # None
        /\ looked' = [looked EXCEPT ![s] = FirstTeacher(CodeOf[s])]
    BY <1>4 DEF Status, Calls, vars, bag
  <2>2. /\ FirstTeacher(CodeOf[s]) \in Registered
        /\ FirstTeacher(CodeOf[s]) \in Teachers
        /\ CodeOf[FirstTeacher(CodeOf[s])] = CodeOf[s]
    BY <1>0, <2>1, FirstRegistered
  <2>3. Registered' = Registered
    BY <2>1 DEF Registered
  <2>4. LookedOK'
    BY <1>0, <2>1, <2>2, <2>3 DEF LookedInv
  <2>5. MessagesOK'
    BY <1>0, <2>1
  <2> QED
    BY <1>1, <2>4, <2>5
<1>5. ASSUME NEW s \in Students, StatusFails(s) PROVE CommandInv'
  <2>1. UNCHANGED <<pc, teacherClients, looked>>
    BY <1>5 DEF StatusFails, vars, bag
  <2>2. LookedOK'
    BY <1>0, <2>1 DEF LookedInv, Registered
  <2>3. MessagesOK'
    BY <1>0, <1>5, ThrowType DEF StatusFails
  <2> QED
    BY <1>1, <2>2, <2>3
<1>6. ASSUME NEW s \in Students, SendStatus(s) PROVE CommandInv'
  <2>1. UNCHANGED <<pc, teacherClients>> /\ looked' = [looked EXCEPT ![s] = None]
    BY <1>6 DEF SendStatus, vars, bag
  <2>2. Registered' = Registered
    BY <2>1 DEF Registered
  <2>3. LookedOK'
    BY <1>0, <2>1, <2>2 DEF LookedInv
  <2>4. MessagesOK'
    BY <1>0, <1>6, DeliverType DEF SendStatus
  <2> QED
    BY <1>1, <2>3, <2>4
<1>7. CASE UNCHANGED allVars
  <2>1. UNCHANGED <<pc, teacherClients, looked, issued, failed, inbox>>
    BY <1>7 DEF allVars, vars, bag, routing
  <2>2. LookedOK'
    BY <1>0, <2>1 DEF LookedInv, Registered
  <2>3. MessagesOK'
    BY <1>0, <2>1
  <2> QED
    BY <1>1, <2>2, <2>3
<1> QED
  BY <1>2, <1>3, <1>4, <1>5, <1>6, <1>7 DEF CommandNext

LEMMA CommandInductive == CommandSpec => []CommandInv
<1>1. CommandInit => CommandInv
  BY ConnFacts DEF CommandInit, CommandInv, CommandTypeOK, LookedInv
<1>2. CommandSpec => []IInv
  BY HubIsKept, Inductive, PTL
<1> QED
  BY <1>1, <1>2, CommandStep, PTL DEF CommandSpec

\* The types of the commands.
THEOREM CommandTypes == CommandSpec => []CommandTypeOK
BY CommandInductive, PTL DEF CommandInv

-----------------------------------------------------------------------------
(***************************************************************************)
(* Who is reached                                                          *)
(***************************************************************************)

\* Only the receivers of a command that is delivered have it.
LEMMA Delivered ==
  ASSUME CommandTypeOK, NEW c \in Conn, NEW kind, NEW receivers, Deliver(c, kind, receivers),
         [kind |-> kind, from |-> c] \notin issued
  PROVE  \A r \in Conn : [kind |-> kind, from |-> c] \in inbox'[r] <=> r \in receivers
BY DEF CommandTypeOK, Deliver

\* A command of a teacher reaches its class and nobody else.
THEOREM ClassSafe == CommandSpec => ClassIsReached
<1> DEFINE Receivers(m) == {c \in Conn : m \in inbox'[c]}
           Class(m) == {s \in Students : CodeOf[s] = CodeOf[m.from] /\ pc[s] # "closed"}
           Good == \A m \in issued' \ issued : m.kind \in TeacherKinds =>
                     Class(m) \cap Told \subseteq Receivers(m) /\ Receivers(m) \subseteq Class(m)
<1>1. IInv /\ GroupInv /\ CommandInv /\ [CommandNext]_allVars => Good
  <2> SUFFICES ASSUME IInv, GroupInv, CommandInv, [CommandNext]_allVars,
                      NEW m \in issued' \ issued, m.kind \in TeacherKinds
               PROVE  Class(m) \cap Told \subseteq Receivers(m) /\ Receivers(m) \subseteq Class(m)
    OBVIOUS
  <2>0. /\ CommandTypeOK /\ GroupsExact /\ groups \in [Codes -> SUBSET Students]
        /\ Teachers \subseteq Conn /\ Students \subseteq Conn /\ Teachers \cap Students = {}
        /\ CodeOf \in [Conn -> Codes]
    BY ConnAssumption, CodeAssumption
       DEF CommandInv, GroupInv, IInv, TypeOK, ConnectionTypeOK, Conn
  <2>1. ASSUME NEW t \in Teachers, NEW kind \in TeacherKinds, Calls(t, kind),
               Deliver(t, kind, groups[CodeOf[t]])
        PROVE  Class(m) \cap Told \subseteq Receivers(m) /\ Receivers(m) \subseteq Class(m)
    <3>1. m = [kind |-> kind, from |-> t]
      BY <2>1 DEF Deliver
    <3>2. \A r \in Conn : r \in Receivers(m) <=> r \in groups[CodeOf[t]]
      BY <2>0, <2>1, <3>1, Delivered
    <3>3. CodeOf[t] \in Codes /\ m.from = t
      BY <2>0, <3>1
    <3>4. Receivers(m) \subseteq Class(m)
      BY <2>0, <3>2, <3>3 DEF GroupsExact
    <3>5. ASSUME NEW s \in Class(m) \cap Told PROVE s \in groups[CodeOf[t]]
      <4>1. s \in Students /\ s \notin Teachers /\ CodeOf[s] = CodeOf[t] /\ pc[s] # "closed"
        BY <2>0, <3>3, <3>5
      <4>2. \E k \in sent : k.id = <<s, 2>>
        BY <3>5, <4>1 DEF Told
      <4> QED
        BY <2>0, <4>1, <4>2 DEF GroupsExact
    <3> QED
      BY <2>0, <3>2, <3>4, <3>5
  <2>2. ASSUME NEW t \in Teachers, Start(t) \/ Stop(t) \/ AllowLogin(t) \/ DenyLogin(t)
        PROVE  Class(m) \cap Told \subseteq Receivers(m) /\ Receivers(m) \subseteq Class(m)
    <3>1. CASE Start(t)
      BY <2>1, <3>1 DEF Start, TeacherKinds
    <3>2. CASE Stop(t)
      BY <2>1, <3>2 DEF Stop, TeacherKinds
    <3>3. CASE AllowLogin(t)
      BY <2>1, <3>3 DEF AllowLogin, TeacherKinds
    <3>4. CASE DenyLogin(t)
      BY <3>4 DEF DenyLogin, Throw
    <3> QED
      BY <2>2, <3>1, <3>2, <3>3, <3>4
  <2>3. ASSUME NEW s \in Students, Status(s) \/ StatusFails(s) \/ SendStatus(s) PROVE FALSE
    <3>1. SendStatus(s)
      BY <2>3 DEF Status, StatusFails, Throw
    <3> QED
      BY <3>1 DEF SendStatus, Deliver, TeacherKinds
  <2>4. issued' # issued
    OBVIOUS
  <2> QED
    BY <2>2, <2>3, <2>4 DEF CommandNext, allVars, routing
<1>2. CommandSpec => []IInv /\ []GroupInv
  BY HubIsKept, Inductive, GroupInductive, PTL
<1> QED
  BY <1>1, <1>2, CommandInductive, PTL DEF CommandSpec, ClassIsReached

\* While its code has one registration, the status of a registered student
\* reaches the teacher that was told of the student, unless that is closed.
THEOREM StatusSafe == CommandSpec => StatusReachesTeacher
<1> DEFINE Single(t) == \A u \in Registered : CodeOf[u] = CodeOf[t] => u = t
           Good == \A m \in issued' \ issued : m.kind = "Status" /\ m.from \in Told =>
                     LET t == teacher[m.from]
                     IN  Single(t) => pc[t] = "closed" \/ m \in inbox'[t]
<1>1. IInv /\ ServedInv /\ CommandInv /\ [CommandNext]_allVars => Good
  <2> SUFFICES ASSUME IInv, ServedInv, CommandInv, [CommandNext]_allVars,
                      NEW m \in issued' \ issued, m.kind = "Status", m.from \in Told,
                      Single(teacher[m.from]), pc[teacher[m.from]] # "closed"
               PROVE  m \in inbox'[teacher[m.from]]
    OBVIOUS
  <2>0. /\ CommandTypeOK /\ LookedInv /\ LookupInv /\ ReplyInv
        /\ Teachers \subseteq Conn /\ Students \subseteq Conn /\ Teachers \cap Students = {}
        /\ teacher \in [Students -> Teachers \cup {None}]
    BY ConnAssumption DEF CommandInv, ServedInv, IInv, TypeOK, CallTypeOK, Conn
  <2>1. ASSUME NEW t \in Teachers, Start(t) \/ Stop(t) \/ AllowLogin(t) \/ DenyLogin(t) PROVE FALSE
    BY <2>1 DEF Start, Stop, AllowLogin, DenyLogin, Deliver, Throw
  <2>2. ASSUME NEW s \in Students, Status(s) \/ StatusFails(s) \/ SendStatus(s)
        PROVE  m \in inbox'[teacher[m.from]]
    <3>1. SendStatus(s)
      BY <2>2 DEF Status, StatusFails, Throw
    <3>2. /\ m = [kind |-> "Status", from |-> s] /\ m.from = s
          /\ looked[s] # None
          /\ Deliver(s, "Status", {t \in {looked[s]} : pc[t] # "closed"})
      BY <3>1 DEF SendStatus, Deliver
    <3>3. teacher[s] # None
      <4>1. \E k \in sent : k.id = <<s, 2>>
        BY <2>0, <3>2 DEF Told
      <4> QED
        BY <2>0, <4>1 DEF ReplyInv
    <3>4. teacher[s] \in Teachers /\ CodeOf[teacher[s]] = CodeOf[s]
      BY <2>0, <3>3 DEF LookupInv
    <3>5. looked[s] \in Registered /\ CodeOf[looked[s]] = CodeOf[s]
      BY <2>0, <3>2 DEF CommandTypeOK, LookedInv
    <3>6. looked[s] = teacher[s]
      BY <3>2, <3>4, <3>5
    <3> QED
      BY <2>0, <3>2, <3>4, <3>6, Delivered
  <2>3. issued' # issued
    OBVIOUS
  <2> QED
    BY <2>1, <2>2, <2>3 DEF CommandNext, allVars, routing
<1>2. CommandSpec => []IInv /\ []ServedInv
  BY HubIsKept, Inductive, ServedInductive, PTL
<1> QED
  BY <1>1, <1>2, CommandInductive, PTL DEF CommandSpec, StatusReachesTeacher

\* Whoever was told it is registered is never refused a command.
THEOREM ServedSafe == CommandSpec => ToldAreServed
<1> DEFINE Good == \A m \in failed' \ failed : m.from \notin Told
<1>1. IInv /\ ServedInv /\ [CommandNext]_allVars => Good
  <2> SUFFICES ASSUME IInv, ServedInv, [CommandNext]_allVars,
                      NEW m \in failed' \ failed, m.from \in Told
               PROVE  FALSE
    OBVIOUS
  <2>0. /\ StorageTypeOK /\ LookupInv /\ OnlineInv /\ ReplyInv /\ Teachers \cap Students = {}
    BY ConnAssumption DEF ServedInv, IInv, TypeOK
  <2>1. ASSUME NEW t \in Teachers, Start(t) \/ Stop(t) \/ AllowLogin(t) \/ DenyLogin(t) PROVE FALSE
    <3>1. DenyLogin(t)
      BY <2>1 DEF Start, Stop, AllowLogin, Deliver
    <3>2. m.from = t /\ pc[t] \in {"idle", "ready"} /\ ~(t \in Registered /\ isConnected[t])
      BY <3>1 DEF DenyLogin, Throw, Calls, IsTeacherOnline
    <3>3. \E k \in sent : k.id = <<t, 1>>
      BY <3>2 DEF Told
    <3>4. pc[t] = "ready"
      BY <2>0, <3>2, <3>3 DEF ReplyInv
    <3> QED
      BY <2>0, <3>2, <3>4 DEF OnlineInv
  <2>2. ASSUME NEW s \in Students, Status(s) \/ StatusFails(s) \/ SendStatus(s) PROVE FALSE
    <3>1. StatusFails(s)
      BY <2>2 DEF Status, SendStatus, Deliver
    <3>2. m.from = s /\ FirstTeacher(CodeOf[s]) = None
      BY <3>1 DEF StatusFails, Throw
    <3>3. \E k \in sent : k.id = <<s, 2>>
      BY <2>0, <3>2 DEF Told
    <3>4. teacher[s] # None
      BY <2>0, <3>3 DEF ReplyInv
    <3>5. PICK j \in DOMAIN teacherClients :
            teacherClients[j] = teacher[s] /\ CodeOf[teacher[s]] = CodeOf[s]
      BY <2>0, <3>4 DEF LookupInv
    <3>6. PICK i \in DOMAIN teacherClients : FirstTeacher(CodeOf[s]) = teacherClients[i]
      BY <2>0, <3>5, FirstTeacherFound
    <3>7. teacherClients[i] \in Teachers
      BY <2>0, <3>6 DEF StorageTypeOK
    <3> QED
      BY <3>2, <3>6, <3>7, ConnFacts
  <2>3. failed' # failed
    OBVIOUS
  <2> QED
    BY <2>1, <2>2, <2>3 DEF CommandNext, allVars, routing
<1>2. CommandSpec => []IInv /\ []ServedInv
  BY HubIsKept, Inductive, ServedInductive, PTL
<1> QED
  BY <1>1, <1>2, PTL DEF CommandSpec, ToldAreServed

-----------------------------------------------------------------------------
(***************************************************************************)
(* The contract                                                            *)
(***************************************************************************)

\* What the mapping needs of the hub: who is in the bag or in a group is
\* registered, and a refused student never is.
SessionInv ==
  /\ \A t \in Teachers :
       pc[t] \in {"new", "connecting", "idle", "added", "ready", "leaving", "left", "closed"}
  /\ \A t \in Registered : pc[t] \notin {"new", "connecting", "idle"}
  /\ \A s \in history.refused : pc[s] \in {"ready", "leaving", "left", "closed"}
  /\ \A code \in Codes : \A s \in groups[code] :
       s \notin history.refused /\ pc[s] \in {"joined", "notified", "ready", "leaving", "left"}

\* A step of one connection that leaves the bag, the groups and the refused
\* students alone.
LEMMA SessionKept ==
  ASSUME IInv, SessionInv, NEW c \in Conn, NEW there,
         UNCHANGED <<teacherClients, groups, history.refused>>, pc' = [pc EXCEPT ![c] = there],
         \/ pc[c] = "new" /\ there = "connecting"
         \/ pc[c] = "connecting" /\ there \in {"idle", "left"}
         \/ pc[c] \in {"idle", "ready"} /\ there = "leaving"
         \/ pc[c] = "leaving" /\ there = "left"
         \/ pc[c] \in {"added", "notified"} /\ there = "ready"
         \/ /\ c \in Students
            /\ \/ pc[c] \in {"idle", "checked", "adding", "sized"} /\ there \in {"checked", "adding", "sized", "written"}
               \/ pc[c] = "joined" /\ there = "notified"
  PROVE  SessionInv'
<1>0. /\ pc \in [Conn -> States] /\ groups \in [Codes -> SUBSET Students] /\ history.refused \subseteq Students
      /\ Teachers \subseteq Conn /\ Students \subseteq Conn /\ Registered \subseteq Teachers
      /\ Registered' = Registered /\ Teachers \cap Students = {}
  BY ConnAssumption
     DEF IInv, TypeOK, ConnectionTypeOK, StorageTypeOK, HistoryTypeOK, Conn, Registered, Range
<1>1. \A d \in Conn : pc'[d] = IF d = c THEN there ELSE pc[d]
  BY <1>0
<1>2. (\A t \in Teachers :
         pc[t] \in {"new", "connecting", "idle", "added", "ready", "leaving", "left", "closed"})'
  BY <1>0, <1>1 DEF SessionInv
<1>3. (\A t \in Registered : pc[t] \notin {"new", "connecting", "idle"})'
  BY <1>0, <1>1 DEF SessionInv
<1>4. (\A s \in history.refused : pc[s] \in {"ready", "leaving", "left", "closed"})'
  BY <1>0, <1>1 DEF SessionInv
<1>5. ASSUME NEW code \in Codes, NEW s \in groups'[code]
      PROVE  s \notin history'.refused /\ pc'[s] \in {"joined", "notified", "ready", "leaving", "left"}
  BY <1>0, <1>1, <1>5 DEF SessionInv
<1> QED
  BY <1>2, <1>3, <1>4, <1>5 DEF SessionInv

LEMMA SessionStep == IInv /\ SessionInv /\ [Next]_vars => SessionInv'
<1> SUFFICES ASSUME IInv, SessionInv, [Next]_vars PROVE SessionInv'
  OBVIOUS
<1>0. /\ pc \in [Conn -> States] /\ groups \in [Codes -> SUBSET Students] /\ history.refused \subseteq Students
      /\ Teachers \subseteq Conn /\ Students \subseteq Conn /\ Registered \subseteq Teachers
      /\ Teachers \cap Students = {} /\ CodeOf \in [Conn -> Codes]
  BY ConnAssumption, CodeAssumption
     DEF IInv, TypeOK, ConnectionTypeOK, StorageTypeOK, HistoryTypeOK, Conn, Registered, Range
<1>1. ASSUME NEW c \in Conn, ConnectionStep(c), ~Close(c) PROVE SessionInv'
  <2>1. UNCHANGED <<teacherClients, groups, history.refused>>
    BY <1>1 DEF ConnectionStep, Connect, ConnectUpdate, ConnectFails, Disconnect, DisconnectUpdate,
                DisconnectFails, bag, IInv, TypeOK, HistoryTypeOK
  <2>2. \E there :
          /\ pc' = [pc EXCEPT ![c] = there]
          /\ \/ pc[c] = "new" /\ there = "connecting"
             \/ pc[c] = "connecting" /\ there \in {"idle", "left"}
             \/ pc[c] \in {"idle", "ready"} /\ there = "leaving"
             \/ pc[c] = "leaving" /\ there = "left"
    BY <1>1 DEF ConnectionStep, Connect, ConnectUpdate, ConnectFails, Disconnect, DisconnectUpdate,
                DisconnectFails, Goto
  <2> QED
    BY <2>1, <2>2, SessionKept
<1>2. ASSUME NEW c \in Conn, Close(c) PROVE SessionInv'
  <2>1. /\ pc[c] = "left" /\ \A d \in Conn : pc'[d] = IF d = c THEN "closed" ELSE pc[d]
        /\ \A code \in Codes : groups'[code] = groups[code] \ {c}
        /\ UNCHANGED <<teacherClients, history>>
    BY <1>0, <1>2 DEF Close, Goto, bag
  <2>2. Registered' = Registered
    BY <2>1 DEF Registered
  <2> QED
    BY <1>0, <2>1, <2>2 DEF SessionInv
<1>3. ASSUME NEW t \in Teachers, RegisterTeacher(t) PROVE SessionInv'
  <2>1. /\ \A d \in Conn : pc'[d] = IF d = t THEN "added" ELSE pc[d]
        /\ UNCHANGED <<groups, history>> /\ pc[t] = "idle"
    BY <1>0, <1>3 DEF RegisterTeacher, Goto
  <2>2. Registered' \subseteq Registered \cup {t}
    BY <1>3, RegisterAddsOne
  <2> QED
    BY <1>0, <2>1, <2>2 DEF SessionInv
<1>4. ASSUME NEW t \in Teachers, ReplyTeacher(t) PROVE SessionInv'
  BY <1>0, <1>4, SessionKept DEF ReplyTeacher, Goto, bag
<1>5. ASSUME NEW s \in Students, RegisterStudent(s) \/ WriteSize(s) \/ WriteSlot(s) \/ NotifyTeacher(s)
                                 \/ ReplyStudent(s)
      PROVE  SessionInv'
  BY <1>0, <1>5, SessionKept DEF RegisterStudent, WriteSize, WriteSlot, NotifyTeacher, ReplyStudent, Goto, bag
<1>6. ASSUME NEW s \in Students, AddStudent(s) PROVE SessionInv'
  <2>1. UNCHANGED <<teacherClients, groups, history.refused>>
    BY <1>6 DEF AddStudent, bag, IInv, TypeOK, HistoryTypeOK
  <2> QED
    BY <1>0, <1>6, <2>1, SessionKept DEF AddStudent, Goto
<1>7. ASSUME NEW s \in Students, RefuseStudent(s) PROVE SessionInv'
  <2>1. /\ pc[s] = "idle" /\ \A d \in Conn : pc'[d] = IF d = s THEN "ready" ELSE pc[d]
        /\ UNCHANGED <<teacherClients, groups>> /\ history'.refused = history.refused \cup {s}
    BY <1>0, <1>7 DEF RefuseStudent, Goto, bag, IInv, TypeOK, HistoryTypeOK
  <2>2. Registered' = Registered
    BY <2>1 DEF Registered
  <2> QED
    BY <1>0, <2>1, <2>2 DEF SessionInv
<1>8. ASSUME NEW s \in Students, JoinGroup(s) PROVE SessionInv'
  <2>1. /\ pc[s] = "written" /\ \A d \in Conn : pc'[d] = IF d = s THEN "joined" ELSE pc[d]
        /\ \A code \in Codes : groups'[code] \subseteq groups[code] \cup {s}
        /\ UNCHANGED <<teacherClients, history>>
    BY <1>0, <1>8 DEF JoinGroup, Goto, bag
  <2>2. Registered' = Registered
    BY <2>1 DEF Registered
  <2> QED
    BY <1>0, <2>1, <2>2 DEF SessionInv
<1>9. CASE UNCHANGED vars
  BY <1>9 DEF vars, bag, SessionInv, Registered
<1> QED
  BY <1>1, <1>2, <1>3, <1>4, <1>5, <1>6, <1>7, <1>8, <1>9, NextSteps DEF TeacherStep, StudentStep

LEMMA SessionInductive == Spec => []SessionInv
<1>1. Init => SessionInv
  BY ConnFacts DEF Init, SessionInv, Registered, Range, Conn
<1> QED
  BY Inductive, <1>1, SessionStep, PTL DEF Spec

\* What becomes of a connection in the contract: one clause for each state.
LEMMA ServerOf ==
  ASSUME NEW c \in Conn
  PROVE  /\ pc[c] = "new" => Server[c] = "none"
         /\ pc[c] = "connecting" => Server[c] = "open"
         /\ pc[c] \in {"idle", "checked", "adding", "sized", "written"} => Server[c] = "accepted"
         /\ pc[c] \in {"leaving", "left", "closed"} => Server[c] = "gone"
         /\ c \in Teachers /\ pc[c] \in {"added", "ready"} => Server[c] = "teacher"
         /\ c \in Students /\ pc[c] \in {"joined", "notified"} /\ c \notin history.refused => Server[c] = "student"
         /\ c \in Students /\ pc[c] = "ready" =>
              Server[c] = IF c \in history.refused THEN "accepted" ELSE "student"
<1>1. c \in Students => c \notin Teachers
  BY ConnAssumption
<1> QED
  BY <1>1 DEF Server

LEMMA ServerBecomes ==
  ASSUME NEW c \in Conn
  PROVE  /\ pc'[c] = "connecting" => Server'[c] = "open"
         /\ pc'[c] \in {"idle", "checked", "adding", "sized", "written"} => Server'[c] = "accepted"
         /\ pc'[c] \in {"leaving", "left", "closed"} => Server'[c] = "gone"
         /\ c \in Teachers /\ pc'[c] \in {"added", "ready"} => Server'[c] = "teacher"
         /\ c \in Students /\ pc'[c] \in {"joined", "notified"} /\ c \notin history'.refused => Server'[c] = "student"
         /\ c \in Students /\ pc'[c] = "ready" =>
              Server'[c] = IF c \in history'.refused THEN "accepted" ELSE "student"
<1>1. c \in Students => c \notin Teachers
  BY ConnAssumption
<1> QED
  BY <1>1 DEF Server

\* What a step of one connection makes of it in the contract.
LEMMA ServerMoves ==
  ASSUME pc \in [Conn -> States], NEW c \in Conn, NEW there, pc' = [pc EXCEPT ![c] = there],
         \A d \in Conn : d # c => (d \in history'.refused <=> d \in history.refused)
  PROVE  Server' = [Server EXCEPT ![c] = Server'[c]]
<1>1. \A d \in Conn : d # c => Server'[d] = Server[d]
  BY DEF Server
<1>2. /\ Server = [d \in Conn |-> Server[d]]
      /\ Server' = [d \in Conn |-> Server'[d]]
  BY DEF Server
<1> QED
  BY <1>1, <1>2

\* One that a client cannot tell leaves the contract where it is.
LEMMA ServerStays ==
  ASSUME pc \in [Conn -> States], NEW c \in Conn, NEW there, pc' = [pc EXCEPT ![c] = there],
         \A d \in Conn : d # c => (d \in history'.refused <=> d \in history.refused), Server'[c] = Server[c]
  PROVE  Server' = Server
<1>1. \A d \in Conn : d # c => Server'[d] = Server[d]
  BY DEF Server
<1>2. /\ Server = [d \in Conn |-> Server[d]]
      /\ Server' = [d \in Conn |-> Server'[d]]
  BY DEF Server
<1> QED
  BY <1>1, <1>2

LEMMA ServerSame ==
  ASSUME UNCHANGED <<pc, history.refused>>
  PROVE  Server' = Server
BY DEF Server

LEMMA MailSame ==
  ASSUME UNCHANGED <<sent, inbox, history.rejected>>
  PROVE  Mail' = Mail
BY DEF Mail, Replied, Reached

\* A message with a record is mail for its receiver.
LEMMA MailSent ==
  ASSUME NEW c \in Conn, NEW k, NEW receiver \in Conn,
         sent' = sent \cup {[id |-> <<c, k>>, receiver |-> receiver]}, UNCHANGED <<inbox, history.rejected>>
  PROVE  Mail' = Mail \cup ({receiver} \X {IF receiver = c THEN "RegisterSuccess" ELSE "ReceiveMessage"})
<1> DEFINE message == [id |-> <<c, k>>, receiver |-> receiver]
<1>1. message.receiver = receiver /\ message.id[1] = c
  OBVIOUS
<1>2. sent' = sent \cup {message}
  OBVIOUS
<1> HIDE DEF message
<1>3. /\ Replied' = IF receiver = c THEN Replied \cup {receiver} ELSE Replied
      /\ Reached' = IF receiver = c THEN Reached ELSE Reached \cup {receiver}
  BY <1>1, <1>2 DEF Replied, Reached
<1> QED
  BY <1>3 DEF Mail

LEMMA MailReplied ==
  ASSUME NEW c \in Conn, NEW k, sent' = sent \cup {[id |-> <<c, k>>, receiver |-> c]},
         UNCHANGED <<inbox, history.rejected>>
  PROVE  Mail' = Mail \cup ({c} \X {"RegisterSuccess"})
BY MailSent

LEMMA MailPushed ==
  ASSUME NEW c \in Conn, NEW k, NEW receiver \in Conn, receiver # c,
         sent' = sent \cup {[id |-> <<c, k>>, receiver |-> receiver]}, UNCHANGED <<inbox, history.rejected>>
  PROVE  Mail' = Mail \cup ({receiver} \X {"ReceiveMessage"})
BY MailSent

\* A command is mail for those it is delivered to.
LEMMA MailDelivered ==
  ASSUME inbox \in [Conn -> SUBSET issued], NEW c, NEW kind, NEW receivers \in SUBSET Conn,
         Deliver(c, kind, receivers), UNCHANGED <<sent, history.rejected>>
  PROVE  Mail' = Mail \cup (receivers \X {"ReceiveMessage"})
<1>1. \A r \in Conn : inbox'[r] # {} <=> inbox[r] # {} \/ r \in receivers
  BY DEF Deliver
<1>2. Reached' = Reached \cup receivers /\ Replied' = Replied
  BY <1>1 DEF Reached, Replied
<1> QED
  BY <1>2 DEF Mail

LEMMA RefusedSame ==
  ASSUME UNCHANGED failed
  PROVE  Refused' = Refused
BY DEF Refused

LEMMA ContractInit == CommandInit => Contract!Init
<1> SUFFICES ASSUME CommandInit PROVE Contract!Init
  OBVIOUS
<1>1. Init /\ failed = {} /\ inbox = [c \in Conn |-> {}]
  BY DEF CommandInit
<1>2. pc = [c \in Conn |-> "new"] /\ sent = {} /\ history.rejected = {}
  BY <1>1 DEF Init
<1>3. Server = [c \in Conn |-> "none"]
  BY <1>2 DEF Server
<1>4. Refused = {}
  BY <1>1 DEF Refused
<1>5. Mail = {}
  BY <1>1, <1>2 DEF Mail, Replied, Reached
<1> QED
  BY <1>3, <1>4, <1>5 DEF Contract!Init

\* A step of the hub is a step of the contract, or none that a client can tell:
\* one lemma for the connections, the teachers, the students and the commands.
LEMMA ConnectionRefines ==
  ASSUME IInv, NEW c \in Conn, ConnectionStep(c), UNCHANGED <<inbox, failed>>
  PROVE  [Contract!Next]_(Contract!contractVars)
<1>0. /\ pc \in [Conn -> States] /\ Refused' = Refused /\ UNCHANGED sent
      /\ history'.refused = history.refused
      /\ ~ConnectFails(c) => history'.rejected = history.rejected
  <2>1. /\ pc \in [Conn -> States] /\ Refused' = Refused /\ HistoryTypeOK
    BY RefusedSame DEF IInv, TypeOK, ConnectionTypeOK
  <2>2. UNCHANGED sent
    BY DEF ConnectionStep, Connect, ConnectUpdate, ConnectFails, Disconnect, DisconnectUpdate,
           DisconnectFails, Close, messages
  <2>3. \/ UNCHANGED history
        \/ ConnectFails(c) /\ history' = [history EXCEPT !.rejected = @ \cup {c}]
        \/ history' = [history EXCEPT !.failed = @ \cup {c}]
    BY DEF ConnectionStep, Connect, ConnectUpdate, ConnectFails, Disconnect, DisconnectUpdate,
           DisconnectFails, Close
  <2> QED
    BY <2>1, <2>2, <2>3 DEF HistoryTypeOK
<1>1. ASSUME NEW there, pc' = [pc EXCEPT ![c] = there]
      PROVE  Server' = [Server EXCEPT ![c] = Server'[c]] /\ pc'[c] = there
  BY <1>0, <1>1, ServerMoves
<1>2. ASSUME ~ConnectFails(c) PROVE Mail' = Mail
  BY <1>0, <1>2, MailSame
<1>3. CASE Connect(c)
  <2>1. pc[c] = "new" /\ pc' = [pc EXCEPT ![c] = "connecting"]
    BY <1>3 DEF Connect, Goto
  <2>2. Server[c] = "none" /\ Server'[c] = "open"
    BY <1>1, <2>1, ServerOf, ServerBecomes
  <2> QED
    BY <1>0, <1>1, <1>2, <2>1, <2>2 DEF Contract!Next, Contract!Opened, Contract!Becomes, ConnectFails, Goto
<1>4. CASE ConnectUpdate(c)
  <2>1. pc[c] = "connecting" /\ pc' = [pc EXCEPT ![c] = "idle"]
    BY <1>4 DEF ConnectUpdate, Goto
  <2>2. Server[c] = "open" /\ Server'[c] = "accepted"
    BY <1>1, <2>1, ServerOf, ServerBecomes
  <2>3. ~ConnectFails(c)
    BY <1>0, <2>1 DEF ConnectFails, Goto
  <2> QED
    BY <1>0, <1>1, <1>2, <2>1, <2>2, <2>3 DEF Contract!Next, Contract!Accepted, Contract!Becomes
<1>5. CASE ConnectFails(c)
  <2>1. pc[c] = "connecting" /\ pc' = [pc EXCEPT ![c] = "left"]
    BY <1>5 DEF ConnectFails, Goto
  <2>2. Server[c] = "open" /\ Server'[c] = "gone"
    BY <1>1, <2>1, ServerOf, ServerBecomes
  <2>3. Mail' = Mail \cup ({c} \X {"Close"})
    <3>1. history'.rejected = history.rejected \cup {c}
      BY <1>5 DEF ConnectFails, IInv, TypeOK, HistoryTypeOK
    <3>2. Replied' = Replied /\ Reached' = Reached
      BY <1>0 DEF Replied, Reached
    <3> QED
      BY <3>1, <3>2 DEF Mail
  <2> QED
    BY <1>0, <1>1, <2>1, <2>2, <2>3
       DEF Contract!Next, Contract!Reject, Contract!TurnedAway, Contract!Becomes, Contract!Post
<1>6. CASE Disconnect(c)
  <2>1. pc[c] \in {"idle", "ready"} /\ pc' = [pc EXCEPT ![c] = "leaving"]
    BY <1>6 DEF Disconnect, Goto
  <2>2. Server[c] \in {"open", "accepted", "teacher", "student"}
    BY <2>1, ServerOf DEF Conn
  <2>3. Server'[c] = "gone"
    <3>1. pc'[c] = "leaving"
      BY <1>1, <2>1
    <3> QED
      BY <3>1, ServerBecomes
  <2>4. ~ConnectFails(c)
    BY <1>0, <2>1 DEF ConnectFails, Goto
  <2> QED
    BY <1>0, <1>1, <1>2, <2>1, <2>2, <2>3, <2>4
       DEF Contract!Next, Contract!Ended, Contract!Becomes, Contract!Roles
<1>7. CASE DisconnectUpdate(c) \/ DisconnectFails(c) \/ Close(c)
  <2>1. PICK there \in {"left", "closed"} :
          pc[c] \in {"leaving", "left"} /\ pc' = [pc EXCEPT ![c] = there]
    BY <1>7 DEF DisconnectUpdate, DisconnectFails, Close, Goto
  <2>2. Server[c] = "gone" /\ Server'[c] = "gone"
    BY <1>1, <2>1, ServerOf, ServerBecomes
  <2>3. Server' = Server
    BY <1>0, <2>1, <2>2, ServerStays
  <2>4. ~ConnectFails(c)
    BY <1>0, <2>1 DEF ConnectFails, Goto
  <2> QED
    BY <1>0, <1>2, <2>3, <2>4 DEF Contract!contractVars, Contract!hubSessionVars
<1> QED
  BY <1>3, <1>4, <1>5, <1>6, <1>7 DEF ConnectionStep

LEMMA TeacherRefines ==
  ASSUME IInv, NEW t \in Teachers, TeacherStep(t), UNCHANGED <<inbox, failed>>
  PROVE  [Contract!Next]_(Contract!contractVars)
<1>0. /\ pc \in [Conn -> States] /\ Refused' = Refused /\ UNCHANGED history
      /\ t \in Conn /\ t \notin Students
  BY RefusedSame, ConnAssumption
     DEF IInv, TypeOK, ConnectionTypeOK, TeacherStep, RegisterTeacher, ReplyTeacher, Conn
<1>1. ASSUME NEW there, pc' = [pc EXCEPT ![t] = there]
      PROVE  Server' = [Server EXCEPT ![t] = Server'[t]] /\ pc'[t] = there
  BY <1>0, <1>1, ServerMoves
<1>2. CASE RegisterTeacher(t)
  <2>1. pc[t] = "idle" /\ pc' = [pc EXCEPT ![t] = "added"] /\ UNCHANGED sent
    BY <1>2 DEF RegisterTeacher, Goto, messages
  <2>2. Server[t] = "accepted" /\ Server'[t] = "teacher"
    BY <1>0, <1>1, <2>1, ServerOf, ServerBecomes
  <2>3. Mail' = Mail
    BY <1>0, <2>1, MailSame
  <2> QED
    BY <1>0, <1>1, <2>1, <2>2, <2>3
       DEF Contract!Next, Contract!RegisteredAs, Contract!Becomes, Contract!Roles
<1>3. CASE ReplyTeacher(t)
  <2>1. pc[t] = "added" /\ pc' = [pc EXCEPT ![t] = "ready"]
    BY <1>3 DEF ReplyTeacher, Goto
  <2>2. Server[t] = "teacher" /\ Server'[t] = "teacher"
    BY <1>0, <1>1, <2>1, ServerOf, ServerBecomes
  <2>3. Server' = Server
    BY <1>0, <2>1, <2>2, ServerStays
  <2>4. CASE UNCHANGED sent
    BY <1>0, <2>3, <2>4, MailSame DEF Contract!contractVars, Contract!hubSessionVars
  <2>5. CASE SendSummary(t, t)
    <3>1. sent' = sent \cup {[id |-> <<t, 1>>, receiver |-> t]}
      BY <1>0, <1>3, <2>5 DEF ReplyTeacher, Record, SendSummary, IInv, TypeOK, MessageTypeOK
    <3>2. Mail' = Mail \cup ({t} \X {"RegisterSuccess"})
      BY <1>0, <3>1, MailReplied
    <3> QED
      BY <1>0, <2>2, <2>3, <3>2
         DEF Contract!Next, Contract!Reply, Contract!Post, Contract!IsRegistered, Contract!Roles,
             Contract!hubSessionVars
  <2> QED
    BY <1>3, <2>4, <2>5 DEF ReplyTeacher
<1> QED
  BY <1>2, <1>3 DEF TeacherStep

\* A teacher of the bag can be sent something: it is registered, or gone.
LEMMA TeacherReachable ==
  ASSUME SessionInv, NEW t \in Teachers, t \in Registered
  PROVE  Server[t] \in {"teacher", "gone"}
<1>1. pc[t] \in {"added", "ready", "leaving", "left", "closed"} /\ t \in Conn
  BY DEF SessionInv, Conn
<1> QED
  BY <1>1, ServerOf

LEMMA StudentRefines ==
  ASSUME IInv, SessionInv, NEW s \in Students, StudentStep(s), UNCHANGED <<inbox, failed>>
  PROVE  [Contract!Next]_(Contract!contractVars)
<1>0. /\ pc \in [Conn -> States] /\ Refused' = Refused /\ MessageTypeOK /\ HistoryTypeOK /\ LookupInv
      /\ s \in Conn /\ s \notin Teachers /\ Teachers \subseteq Conn
      /\ teacher \in [Students -> Teachers \cup {None}]
  BY RefusedSame, ConnAssumption DEF IInv, TypeOK, ConnectionTypeOK, CallTypeOK, Conn
<1>1. ASSUME NEW there, pc' = [pc EXCEPT ![s] = there],
             \A d \in Conn : d # s => (d \in history'.refused <=> d \in history.refused)
      PROVE  /\ pc'[s] = there
             /\ Server' = [Server EXCEPT ![s] = Server'[s]]
             /\ Server'[s] = Server[s] => Server' = Server
  BY <1>0, <1>1, ServerMoves, ServerStays
<1>2. CASE RegisterStudent(s) \/ AddStudent(s) \/ WriteSize(s) \/ WriteSlot(s)
  <2>1. PICK there \in {"checked", "adding", "sized", "written"} :
          pc[s] \in {"idle", "checked", "adding", "sized"} /\ pc' = [pc EXCEPT ![s] = there]
    BY <1>2 DEF RegisterStudent, AddStudent, WriteSize, WriteSlot, Goto
  <2>2. UNCHANGED <<sent, history.refused, history.rejected>>
    BY <1>0, <1>2 DEF RegisterStudent, AddStudent, WriteSize, WriteSlot, messages, HistoryTypeOK
  <2>3. Server[s] = "accepted" /\ Server'[s] = "accepted"
    BY <1>0, <1>1, <2>1, <2>2, ServerOf, ServerBecomes
  <2>4. Server' = Server /\ Mail' = Mail
    BY <1>1, <2>1, <2>2, <2>3, MailSame
  <2> QED
    BY <1>0, <2>4 DEF Contract!contractVars, Contract!hubSessionVars
<1>3. CASE RefuseStudent(s)
  <2>1. /\ pc[s] = "idle" /\ pc' = [pc EXCEPT ![s] = "ready"] /\ UNCHANGED <<sent, history.rejected>>
        /\ history'.refused = history.refused \cup {s}
    BY <1>0, <1>3 DEF RefuseStudent, Goto, messages, HistoryTypeOK
  <2>2. Server[s] = "accepted" /\ Server'[s] = "accepted"
    BY <1>0, <1>1, <2>1, ServerOf, ServerBecomes
  <2>3. Server' = Server /\ Mail' = Mail
    BY <1>1, <2>1, <2>2, MailSame
  <2> QED
    BY <1>0, <2>3 DEF Contract!contractVars, Contract!hubSessionVars
<1>4. CASE JoinGroup(s)
  <2>1. pc[s] = "written" /\ pc' = [pc EXCEPT ![s] = "joined"] /\ UNCHANGED <<sent, history>>
    BY <1>4 DEF JoinGroup, Goto, messages
  <2>2. s \notin history.refused
    BY <2>1 DEF SessionInv
  <2>3. Server[s] = "accepted" /\ Server'[s] = "student"
    BY <1>0, <1>1, <2>1, <2>2, ServerOf, ServerBecomes
  <2>4. Mail' = Mail /\ Server' = [Server EXCEPT ![s] = "student"]
    BY <1>1, <2>1, <2>3, MailSame
  <2> QED
    BY <1>0, <2>3, <2>4 DEF Contract!Next, Contract!RegisteredAs, Contract!Becomes, Contract!Roles
<1>5. ASSUME pc[s] \in {"joined", "notified"}, UNCHANGED history,
             \E there \in {"notified", "ready"} : pc' = [pc EXCEPT ![s] = there]
      PROVE  Server[s] = "student" /\ Server' = Server
  <2>1. s \notin history.refused
    BY <1>5 DEF SessionInv
  <2>2. PICK there \in {"notified", "ready"} : pc' = [pc EXCEPT ![s] = there]
    BY <1>5
  <2>3. Server[s] = "student" /\ Server'[s] = "student"
    BY <1>0, <1>1, <1>5, <2>1, <2>2, ServerOf, ServerBecomes
  <2> QED
    BY <1>1, <1>5, <2>2, <2>3
<1>6. CASE NotifyTeacher(s)
  <2>1. pc[s] = "joined" /\ pc' = [pc EXCEPT ![s] = "notified"] /\ UNCHANGED history
    BY <1>6 DEF NotifyTeacher, Goto
  <2>2. Server' = Server
    BY <1>5, <2>1
  <2>3. teacher[s] \in Teachers /\ teacher[s] \in Registered
    BY <1>0, <2>1 DEF LookupInv, Registered, Range
  <2>4. Mail' = Mail \cup ({teacher[s]} \X {"ReceiveMessage"})
    <3>1. sent' = sent \cup {[id |-> <<s, 1>>, receiver |-> teacher[s]]}
      BY <1>0, <1>6, ToldByRecord DEF NotifyTeacher
    <3>2. teacher[s] # s /\ teacher[s] \in Conn
      BY <1>0, <2>3
    <3>3. UNCHANGED <<inbox, history.rejected>>
      BY <2>1
    <3> QED
      BY <1>0, <3>1, <3>2, <3>3, MailPushed
  <2>5. Server[teacher[s]] \in {"teacher", "gone"}
    BY <2>3, TeacherReachable
  <2>6. Contract!Push({teacher[s]})
    BY <1>0, <2>2, <2>4, <2>5
       DEF Contract!Push, Contract!Post, Contract!IsRegistered, Contract!Roles, Contract!hubSessionVars
  <2> QED
    BY <1>0, <2>3, <2>6 DEF Contract!Next
<1>7. CASE ReplyStudent(s)
  <2>1. pc[s] = "notified" /\ pc' = [pc EXCEPT ![s] = "ready"] /\ UNCHANGED history
    BY <1>7 DEF ReplyStudent, Goto
  <2>2. Server[s] = "student" /\ Server' = Server
    BY <1>5, <2>1
  <2>3. sent' = sent \cup {[id |-> <<s, 2>>, receiver |-> s]}
    BY <1>0, <1>7, ToldByRecord DEF ReplyStudent
  <2>4. Mail' = Mail \cup ({s} \X {"RegisterSuccess"})
    BY <1>0, <2>1, <2>3, MailReplied
  <2> QED
    BY <1>0, <2>2, <2>4
       DEF Contract!Next, Contract!Reply, Contract!Post, Contract!IsRegistered, Contract!Roles,
           Contract!hubSessionVars
<1> QED
  BY <1>2, <1>3, <1>4, <1>6, <1>7 DEF StudentStep

\* A command that goes to those that are registered, or gone.
LEMMA DeliveryRefines ==
  ASSUME IInv, CommandTypeOK, UNCHANGED vars, NEW c, NEW kind, NEW receivers \in SUBSET Conn,
         Deliver(c, kind, receivers), \A r \in receivers : Server[r] \in {"teacher", "student", "gone"}
  PROVE  [Contract!Next]_(Contract!contractVars)
<1>1. Server' = Server
  BY ServerSame DEF vars
<1>2. Refused' = Refused
  BY RefusedSame DEF Deliver
<1>3. Mail' = Mail \cup (receivers \X {"ReceiveMessage"})
  BY MailDelivered DEF CommandTypeOK, vars, messages
<1>4. Contract!Push(receivers)
  BY <1>1, <1>2, <1>3
     DEF Contract!Push, Contract!Post, Contract!IsRegistered, Contract!Roles, Contract!hubSessionVars
<1> QED
  BY <1>4 DEF Contract!Next

\* Who is in a group is registered, or gone.
LEMMA ClassReachable ==
  ASSUME IInv, SessionInv, NEW code \in Codes
  PROVE  groups[code] \subseteq Conn /\ \A s \in groups[code] : Server[s] \in {"student", "gone"}
<1>1. groups[code] \subseteq Students /\ Students \subseteq Conn
  BY DEF IInv, TypeOK, ConnectionTypeOK, Conn
<1> QED
  BY <1>1, ServerOf DEF SessionInv

LEMMA TeacherCommandRefines ==
  ASSUME IInv, SessionInv, OnlineInv, CommandTypeOK, NEW t \in Teachers,
         Start(t) \/ Stop(t) \/ AllowLogin(t) \/ DenyLogin(t)
  PROVE  [Contract!Next]_(Contract!contractVars)
<1>0. t \in Conn /\ CodeOf[t] \in Codes /\ UNCHANGED vars
  BY CodeAssumption DEF Conn, Start, Stop, AllowLogin, DenyLogin
<1>1. ASSUME NEW kind, Deliver(t, kind, groups[CodeOf[t]])
      PROVE  [Contract!Next]_(Contract!contractVars)
  <2>1. groups[CodeOf[t]] \in SUBSET Conn /\ \A s \in groups[CodeOf[t]] : Server[s] \in {"student", "gone"}
    BY <1>0, ClassReachable
  <2> QED
    BY <1>0, <1>1, <2>1, DeliveryRefines
<1>2. CASE DenyLogin(t)
  <2>1. pc[t] = "idle"
    BY <1>2 DEF DenyLogin, Calls, IsTeacherOnline, OnlineInv
  <2>2. Server[t] = "accepted"
    BY <1>0, <2>1, ServerOf
  <2>3. Server' = Server /\ Mail' = Mail
    BY <1>0, <1>2, ServerSame, MailSame DEF DenyLogin, Throw, vars, messages
  <2>4. Refused' = Refused \cup {t}
    BY <1>0, <1>2 DEF DenyLogin, Throw, Refused
  <2> QED
    BY <1>0, <2>2, <2>3, <2>4 DEF Contract!Next, Contract!Denied, Contract!Serves, Contract!Roles
<1> QED
  BY <1>1, <1>2 DEF Start, Stop, AllowLogin

LEMMA StudentCommandRefines ==
  ASSUME IInv, SessionInv, CommandTypeOK, NEW s \in Students, Status(s) \/ StatusFails(s) \/ SendStatus(s)
  PROVE  [Contract!Next]_(Contract!contractVars)
<1>0. UNCHANGED vars
  BY DEF Status, StatusFails, SendStatus
<1>1. CASE Status(s) \/ StatusFails(s)
  <2>1. Server' = Server /\ Mail' = Mail
    BY <1>0, <1>1, ServerSame, MailSame DEF Status, StatusFails, Throw, vars, messages
  <2>2. Refused' = Refused
    BY <1>1 DEF Status, StatusFails, Throw, Refused
  <2> QED
    BY <2>1, <2>2 DEF Contract!contractVars, Contract!hubSessionVars
<1>2. CASE SendStatus(s)
  <2> DEFINE receivers == {t \in {looked[s]} : pc[t] # "closed"}
  <2>1. looked[s] \in Teachers /\ looked[s] \in Registered
    BY <1>2 DEF SendStatus, CommandTypeOK
  <2>2. receivers \in SUBSET Conn /\ \A r \in receivers : Server[r] \in {"teacher", "gone"}
    BY <2>1, TeacherReachable DEF Conn
  <2>3. Deliver(s, "Status", receivers)
    BY <1>2 DEF SendStatus
  <2> HIDE DEF receivers
  <2> QED
    BY <1>0, <2>2, <2>3, DeliveryRefines
<1> QED
  BY <1>1, <1>2

\* To every client the hub keeps the contract: whatever its storage and its groups
\* are doing, it sends a connection nothing before it is registered but the Close
\* that turns it away, and refuses AllowLogin only to one that is no teacher yet.
THEOREM HubKeepsContract == CommandSpec => HubContractKept
<1> DEFINE Inv == IInv /\ SessionInv /\ ServedInv /\ CommandInv
<1>1. Inv /\ [CommandNext]_allVars => [Contract!Next]_(Contract!contractVars)
  <2> SUFFICES ASSUME Inv, [CommandNext]_allVars PROVE [Contract!Next]_(Contract!contractVars)
    OBVIOUS
  <2>1. IInv /\ SessionInv /\ OnlineInv /\ CommandTypeOK
    BY DEF ServedInv, CommandInv
  <2>2. ASSUME Next, UNCHANGED routing PROVE [Contract!Next]_(Contract!contractVars)
    <3>1. UNCHANGED <<inbox, failed>>
      BY <2>2 DEF routing
    <3> QED
      BY <2>1, <2>2, <3>1, NextSteps, ConnectionRefines, TeacherRefines, StudentRefines
  <2>3. CASE UNCHANGED allVars
    <3>1. Server' = Server /\ Mail' = Mail /\ Refused' = Refused
      BY <2>3, ServerSame, MailSame, RefusedSame DEF allVars, vars, messages, routing
    <3> QED
      BY <3>1 DEF Contract!contractVars, Contract!hubSessionVars
  <2> QED
    BY <2>1, <2>2, <2>3, TeacherCommandRefines, StudentCommandRefines DEF CommandNext
<1>2. CommandSpec => []Inv
  BY HubIsKept, Inductive, SessionInductive, ServedInductive, CommandInductive, PTL
<1> QED
  BY <1>1, <1>2, ContractInit, PTL DEF CommandSpec, HubContractKept, Contract!Spec

=============================================================================
