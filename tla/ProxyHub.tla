------------------------------ MODULE ProxyHub ------------------------------
(***************************************************************************)
(* The connections of ProxyHub and the registry they share: the hub's      *)
(* OnConnectedAsync, RegisterTeacher, RegisterStudent and                  *)
(* OnDisconnectedAsync over the single ClientStorage.                      *)
(*                                                                         *)
(* SignalR runs the calls of one connection one after the other and those  *)
(* of different connections in parallel, on the threads of the pool: pc[c] *)
(* is where the calls of connection c have got to.  A connection id is     *)
(* never used again, and the pages register once, right after connect().   *)
(*                                                                         *)
(* ClientStorage takes no lock.  Its bag of teachers is a concurrent       *)
(* collection; the student list of a teacher is a plain List<>, so an Add  *)
(* reads the size, writes the size and writes the slot in three steps.     *)
(***************************************************************************)
EXTENDS Integers, FiniteSets, Sequences, SequencesExt

CONSTANTS
  Teachers,  \* connections of teacher pages
  Students,  \* connections of student pages
  Codes,     \* teacher codes
  CodeOf,    \* the teacher code each page is configured with
  Workers,   \* threads of the pool, as far as they add to the bag
  FullSizes, \* sizes at which the array of a list is full: 0, 4, 8, 16, ...
  None       \* a null reference

Conn == Teachers \cup Students

ASSUME ConnAssumption == Teachers \cap Students = {} /\ None \notin Conn \cup Workers
ASSUME FiniteAssumption == IsFiniteSet(Teachers) /\ IsFiniteSet(Students)
ASSUME FullSizesAssumption == FullSizes \subseteq Nat
ASSUME CodeAssumption == CodeOf \in [Conn -> Codes]

VARIABLES
  pc,                     \* progress of each connection
  totalConnectedCount,    \* ConnectionCounter
  totalDisconnectedCount,
  teacherClients,         \* the bag TeacherClients, in the order it is enumerated
  worker,                 \* the thread that added a teacher to the bag
  items,                  \* the array behind the StudentClients of a teacher
  size,                   \* the Count of the StudentClients of a teacher
  isConnected,            \* IsConnected of a connection's summary
  groups,                 \* connections in the SignalR group of a code
  teacher,                \* the local of RegisterStudent
  adding,                 \* the Add of a student: the teacher found, and the size read
  messageId,              \* MessageId of a connection's summary
  messageRecords,         \* MessageHistory.MessageRecords: id and receiver
  sent,                   \* messages that carry an id: id and receiver
  history                 \* what happened, for the properties

counter == <<totalConnectedCount, totalDisconnectedCount>>
bag == <<teacherClients, worker>>
lists == <<items, size, adding>>
messages == <<messageId, messageRecords, sent>>
vars == <<pc, counter, bag, lists, isConnected, groups, teacher, messages, history>>

NoAdd == [teacher |-> None, size |-> 0]

-----------------------------------------------------------------------------
(***************************************************************************)
(* The storage                                                             *)
(***************************************************************************)

Registered == Range(teacherClients)

\* The elements of a student list; a slot that a resize lost is null.
StudentClients(t) == {items[t][i] : i \in 1..size[t]}

\* FirstOrDefault over the bag: the first teacher of the code, or null.
FirstTeacher(code) ==
  LET places == {i \in DOMAIN teacherClients : CodeOf[teacherClients[i]] = code}
  IN  IF places = {} THEN None
      ELSE teacherClients[CHOOSE i \in places : \A j \in places : i <= j]

\* Where ConcurrentBag enumerates what thread w adds: every thread has a queue
\* that is enumerated newest first, and a new queue comes before the others.
PlaceOf(w) ==
  LET places == {i \in DOMAIN teacherClients : worker[teacherClients[i]] = w}
  IN  IF places = {} THEN 1 ELSE CHOOSE i \in places : \A j \in places : i <= j

\* Students whose Add to the list of t has begun and has not returned.
Adders(t) == {s \in Students : pc[s] \in {"adding", "sized"} /\ adding[s].teacher = t}

\* The students whose Adds overlap if s begins an Add to the list of t.
Overlapping(s, t) == IF Adders(t) = {} THEN {} ELSE Adders(t) \cup {s}

\* The student lists that UpdateConnectedState scans for a connection that is
\* no teacher: those of the bag, in order, up to the one that lists it.
Scanned(c) ==
  {teacherClients[i] : i \in {k \in DOMAIN teacherClients :
     \A j \in 1..(k - 1) : c \notin StudentClients(teacherClients[j])}}

\* A scan of a List<> that is added to meanwhile throws, or does not; one that
\* meets a null element throws.  It stops at the element it looks for.
ScanMayFail(c) == \E t \in Scanned(c) : Adders(t) # {} \/ None \in StudentClients(t)

ScanMustFail(c) ==
  \E t \in Scanned(c) : \E i \in 1..size[t] :
    items[t][i] = None /\ \A j \in 1..(i - 1) : items[t][j] # c

Listed(c) == \E t \in Registered : c \in StudentClients(t)

\* (mutant) Only teachers are looked up.
UpdateTeacherState(c, b) ==
  isConnected' = IF c \in Registered THEN [isConnected EXCEPT ![c] = b] ELSE isConnected

\* UpdateConnectedState, when it returns.
UpdateConnectedState(c, b) ==
  /\ c \notin Registered => ~ScanMustFail(c)
  /\ isConnected' = IF c \in Registered \/ Listed(c) THEN [isConnected EXCEPT ![c] = b] ELSE isConnected

\* UpdateConnectedState, when the scan throws.
UpdateFails(c) ==
  /\ c \notin Registered
  /\ ScanMayFail(c)
  /\ UNCHANGED isConnected

-----------------------------------------------------------------------------
(***************************************************************************)
(* Connections                                                             *)
(***************************************************************************)

Init ==
  /\ pc = [c \in Conn |-> "new"]
  /\ totalConnectedCount = 0
  /\ totalDisconnectedCount = 0
  /\ teacherClients = <<>>
  /\ worker = [t \in Teachers |-> None]
  /\ items = [t \in Teachers |-> <<>>]
  /\ size = [t \in Teachers |-> 0]
  /\ isConnected = [c \in Conn |-> FALSE]
  /\ groups = [code \in Codes |-> {}]
  /\ teacher = [s \in Students |-> None]
  /\ adding = [s \in Students |-> NoAdd]
  /\ messageId = [c \in Conn |-> 0]
  /\ messageRecords = {}
  /\ sent = {}
  /\ history = [rejected |-> {}, failed |-> {}, refused |-> {}, raced |-> {}]

Goto(c, here, there) == pc[c] = here /\ pc' = [pc EXCEPT ![c] = there]

\* OnConnectedAsync counts the connection ...
Connect(c) ==
  /\ Goto(c, "new", "connecting")
  /\ totalConnectedCount' = totalConnectedCount + 1
  /\ UNCHANGED <<totalDisconnectedCount, bag, lists, isConnected, groups, teacher, messages, history>>

\* ... and updates the state of a summary with its id.
ConnectUpdate(c) ==
  /\ Goto(c, "connecting", "idle")
  /\ UpdateConnectedState(c, TRUE)
  /\ UNCHANGED <<counter, bag, lists, groups, teacher, messages, history>>

\* If that throws, SignalR closes the connection without OnDisconnectedAsync.
ConnectFails(c) ==
  /\ Goto(c, "connecting", "left")
  /\ UpdateFails(c)
  /\ history' = [history EXCEPT !.rejected = @ \cup {c}]
  /\ UNCHANGED <<counter, bag, lists, groups, teacher, messages>>

\* (mutant) A connection that did not register is not counted.
DisconnectRegistered(c) ==
  /\ \E here \in {"idle", "ready"} : Goto(c, here, "leaving")
  /\ totalDisconnectedCount' = IF pc[c] = "idle" THEN totalDisconnectedCount ELSE totalDisconnectedCount + 1
  /\ UNCHANGED <<totalConnectedCount, bag, lists, isConnected, groups, teacher, messages, history>>

\* The client leaves or is timed out; SignalR notices between two calls, and
\* OnDisconnectedAsync counts ...
Disconnect(c) ==
  /\ \E here \in {"idle", "ready"} : Goto(c, here, "leaving")
  /\ totalDisconnectedCount' = totalDisconnectedCount + 1
  /\ UNCHANGED <<totalConnectedCount, bag, lists, isConnected, groups, teacher, messages, history>>

\* (mutant) A teacher that leaves is taken out of the bag.
DisconnectForget(c) ==
  /\ Goto(c, "leaving", "left")
  /\ UpdateConnectedState(c, FALSE)
  /\ teacherClients' = SelectSeq(teacherClients, LAMBDA t : t # c)
  /\ UNCHANGED <<counter, worker, lists, groups, teacher, messages, history>>

\* ... and updates the state of the summary with its id.
DisconnectUpdate(c) ==
  /\ Goto(c, "leaving", "left")
  /\ UpdateConnectedState(c, FALSE)
  /\ UNCHANGED <<counter, bag, lists, groups, teacher, messages, history>>

DisconnectFails(c) ==
  /\ Goto(c, "leaving", "left")
  /\ UpdateFails(c)
  /\ history' = [history EXCEPT !.failed = @ \cup {c}]
  /\ UNCHANGED <<counter, bag, lists, groups, teacher, messages>>

\* Whatever the hub did, SignalR then takes the connection out of its groups.
Close(c) ==
  /\ Goto(c, "left", "closed")
  /\ groups' = [code \in Codes |-> groups[code] \ {c}]
  /\ UNCHANGED <<counter, bag, lists, isConnected, teacher, messages, history>>

-----------------------------------------------------------------------------
(***************************************************************************)
(* Registration of teachers                                                *)
(***************************************************************************)

\* (mutant) The summary is added without its flag set.
RegisterOffline(t) ==
  /\ Goto(t, "idle", "added")
  /\ \E w \in Workers :
       /\ worker' = [worker EXCEPT ![t] = w]
       /\ teacherClients' = InsertAt(teacherClients, PlaceOf(w), t)
  /\ UNCHANGED <<counter, lists, isConnected, groups, teacher, messages, history>>

\* The summary is put into the bag: from now on students find it.
RegisterTeacher(t) ==
  /\ Goto(t, "idle", "added")
  /\ \E w \in Workers :
       /\ worker' = [worker EXCEPT ![t] = w]
       /\ teacherClients' = InsertAt(teacherClients, PlaceOf(w), t)
  /\ isConnected' = [isConnected EXCEPT ![t] = TRUE]
  /\ UNCHANGED <<counter, lists, groups, teacher, messages, history>>

\* A message to receiver is recorded and its id set in the summary of c.
Record(c, k, receiver) ==
  /\ messageRecords' = messageRecords \cup {[id |-> <<c, k>>, receiver |-> receiver]}
  /\ messageId' = [messageId EXCEPT ![c] = k]

\* The summary of c is sent: it carries the id that is set in it.
SendSummary(c, receiver) ==
  sent' = sent \cup {[id |-> <<c, messageId'[c]>>, receiver |-> receiver]}

\* The reply holds the student list of the summary: writing it out throws if a
\* student is being added.
ReplyTeacher(t) ==
  /\ Goto(t, "added", "ready")
  /\ Record(t, 1, t)
  /\ \/ SendSummary(t, t)
     \/ Adders(t) # {} /\ UNCHANGED sent
  /\ UNCHANGED <<counter, bag, lists, isConnected, groups, teacher, history>>

-----------------------------------------------------------------------------
(***************************************************************************)
(* Registration of students                                                *)
(***************************************************************************)

\* The check of RegisterStudent: the first teacher of the code is connected.
TeacherConnected(code) == FirstTeacher(code) # None /\ isConnected[FirstTeacher(code)]

\* (mutant) The student joins the group before it is listed.
RegisterStudentJoins(s) ==
  /\ Goto(s, "idle", "checked")
  /\ TeacherConnected(CodeOf[s])
  /\ teacher' = [teacher EXCEPT ![s] = FirstTeacher(CodeOf[s])]
  /\ groups' = [groups EXCEPT ![CodeOf[s]] = @ \cup {s}]
  /\ UNCHANGED <<counter, bag, lists, isConnected, messages, history>>

\* The check succeeds.
RegisterStudent(s) ==
  /\ Goto(s, "idle", "checked")
  /\ TeacherConnected(CodeOf[s])
  /\ teacher' = [teacher EXCEPT ![s] = FirstTeacher(CodeOf[s])]
  /\ UNCHANGED <<counter, bag, lists, isConnected, groups, messages, history>>

\* It fails: the call throws (without a teacher already while it looks for the
\* connection to report to, else after an error sent to the offline teacher).
RefuseStudent(s) ==
  /\ Goto(s, "idle", "ready")
  /\ ~TeacherConnected(CodeOf[s])
  /\ history' = [history EXCEPT !.refused = @ \cup {s}]
  /\ UNCHANGED <<counter, bag, lists, isConnected, groups, teacher, messages>>

\* (mutant) The last teacher of the code is taken.
AddStudentToLast(s) ==
  LET places == {i \in DOMAIN teacherClients : CodeOf[teacherClients[i]] = CodeOf[s]}
      t == teacherClients[CHOOSE i \in places : \A j \in places : j <= i]
  IN  /\ Goto(s, "checked", "adding")
      /\ adding' = [adding EXCEPT ![s] = [teacher |-> t, size |-> size[t]]]
      /\ history' = [history EXCEPT !.raced = @ \cup Overlapping(s, t)]
      /\ UNCHANGED <<counter, bag, items, size, isConnected, groups, teacher, messages>>

\* (mutant) The student is put into the lists of all the sessions of its teacher.
AddStudentToAll(s) ==
  LET t == FirstTeacher(CodeOf[s])
      others == {u \in Registered \ {t} : CodeOf[u] = CodeOf[s]}
  IN  /\ Goto(s, "checked", "adding")
      /\ adding' = [adding EXCEPT ![s] = [teacher |-> t, size |-> size[t]]]
      /\ items' = [u \in Teachers |-> IF u \in others THEN Append(SubSeq(items[u], 1, size[u]), s)
                                                     ELSE items[u]]
      /\ size' = [u \in Teachers |-> IF u \in others THEN size[u] + 1 ELSE size[u]]
      /\ history' = [history EXCEPT !.raced = @ \cup Overlapping(s, t)]
      /\ UNCHANGED <<counter, bag, isConnected, groups, teacher, messages>>

\* AddStudent looks for the teacher again, and Add reads the size of its list.
AddStudent(s) ==
  LET t == FirstTeacher(CodeOf[s])
  IN  /\ Goto(s, "checked", "adding")
      /\ adding' = [adding EXCEPT ![s] = [teacher |-> t, size |-> size[t]]]
      /\ history' = [history EXCEPT !.raced = @ \cup Overlapping(s, t)]
      /\ UNCHANGED <<counter, bag, items, size, isConnected, groups, teacher, messages>>

\* Add writes the size: the new element is whatever the slot held before.
WriteSize(s) ==
  LET t == adding[s].teacher
      n == adding[s].size
  IN  /\ Goto(s, "adding", "sized")
      /\ size' = [size EXCEPT ![t] = n + 1]
      /\ items' = IF n < Len(items[t]) THEN items ELSE [items EXCEPT ![t] = Append(@, None)]
      /\ UNCHANGED <<counter, bag, adding, isConnected, groups, teacher, messages, history>>

\* Add writes the slot; if another Add is replacing the full array by a larger
\* one, it may be the slot of the old array.
WriteSlot(s) ==
  LET t == adding[s].teacher
      n == adding[s].size
  IN  /\ Goto(s, "sized", "written")
      /\ \/ items' = [items EXCEPT ![t][n + 1] = s]
         \/ /\ \E v \in Adders(t) : pc[v] = "adding" /\ adding[v].size \in FullSizes
            /\ UNCHANGED items
      /\ isConnected' = [isConnected EXCEPT ![s] = TRUE]
      /\ adding' = [adding EXCEPT ![s].size = 0]
      /\ UNCHANGED <<counter, bag, size, groups, teacher, messages, history>>

\* (mutant) The connection of the teacher joins.
JoinTeacher(s) ==
  /\ Goto(s, "written", "joined")
  /\ groups' = [groups EXCEPT ![CodeOf[s]] = @ \cup {teacher[s]}]
  /\ UNCHANGED <<counter, bag, lists, isConnected, teacher, messages, history>>

\* The student joins the group of its code.
JoinGroup(s) ==
  /\ Goto(s, "written", "joined")
  /\ groups' = [groups EXCEPT ![CodeOf[s]] = @ \cup {s}]
  /\ UNCHANGED <<counter, bag, lists, isConnected, teacher, messages, history>>

\* The teacher that was found first is told.
NotifyTeacher(s) ==
  /\ Goto(s, "joined", "notified")
  /\ Record(s, 1, teacher[s])
  /\ SendSummary(s, teacher[s])
  /\ UNCHANGED <<counter, bag, lists, isConnected, groups, teacher, history>>

\* (mutant) The summary is sent before it gets the id of the new record.
ReplyStudentTooEarly(s) ==
  /\ Goto(s, "notified", "ready")
  /\ Record(s, 2, s)
  /\ sent' = sent \cup {[id |-> <<s, messageId[s]>>, receiver |-> s]}
  /\ UNCHANGED <<counter, bag, lists, isConnected, groups, teacher, history>>

\* The student is told.
ReplyStudent(s) ==
  /\ Goto(s, "notified", "ready")
  /\ Record(s, 2, s)
  /\ SendSummary(s, s)
  /\ UNCHANGED <<counter, bag, lists, isConnected, groups, teacher, history>>

Next ==
  \/ \E c \in Conn :
       \/ Connect(c) \/ ConnectUpdate(c) \/ ConnectFails(c)
       \/ Disconnect(c) \/ DisconnectUpdate(c) \/ DisconnectFails(c) \/ Close(c)
  \/ \E t \in Teachers : RegisterTeacher(t) \/ ReplyTeacher(t)
  \/ \E s \in Students :
       \/ RegisterStudent(s) \/ RefuseStudent(s)
       \/ AddStudent(s) \/ WriteSize(s) \/ WriteSlot(s)
       \/ JoinGroup(s) \/ NotifyTeacher(s) \/ ReplyStudent(s)

Spec == Init /\ [][Next]_vars

-----------------------------------------------------------------------------
(***************************************************************************)
(* Properties                                                              *)
(***************************************************************************)

States == {"new", "connecting", "idle", "added", "checked", "adding", "sized", "written", "joined",
           "notified", "ready", "leaving", "left", "closed"}

ConnectionTypeOK ==
  /\ pc \in [Conn -> States]
  /\ totalConnectedCount \in Nat
  /\ totalDisconnectedCount \in Nat
  /\ isConnected \in [Conn -> BOOLEAN]
  /\ groups \in [Codes -> SUBSET Students]

StorageTypeOK ==
  /\ teacherClients \in Seq(Teachers)
  /\ worker \in [Teachers -> Workers \cup {None}]
  /\ items \in [Teachers -> Seq(Students \cup {None})]
  /\ size \in [Teachers -> Nat]

CallTypeOK ==
  /\ teacher \in [Students -> Teachers \cup {None}]
  /\ adding \in [Students -> [teacher : Teachers \cup {None}, size : Nat]]

MessageTypeOK ==
  /\ messageId \in [Conn -> 0..2]
  /\ messageRecords \subseteq [id : Conn \X (1..2), receiver : Conn]
  /\ sent \subseteq [id : Conn \X (0..2), receiver : Conn]

HistoryTypeOK ==
  history \in [rejected : SUBSET Conn, failed : SUBSET Conn, refused : SUBSET Students,
               raced : SUBSET Students]

\* The types.
TypeOK == ConnectionTypeOK /\ StorageTypeOK /\ CallTypeOK /\ MessageTypeOK /\ HistoryTypeOK

\* Connections that SignalR serves.
Live == {c \in Conn : pc[c] \notin {"new", "left", "closed"}}

\* Students whose Add has returned.
AddedStudents == {s \in Students : adding[s].teacher # None /\ pc[s] \notin {"adding", "sized"}}

\* A student whose Add did not overlap another Add to the same list stays in that
\* list for ever, exactly once, and is in no other list: neither the Adds that
\* overlap before it or after it nor the loss of its connection touch its slot.
LoneAddIsKept ==
  \A s \in AddedStudents \ history.raced :
    LET t == adding[s].teacher
    IN  /\ Cardinality({i \in 1..size[t] : items[t][i] = s}) = 1
        /\ \A u \in Teachers \ {t} : s \notin StudentClients(u)

\* A connection that is gone shows as connected, to the lookup of a teacher or in
\* a student list, only if its last update threw or its Add overlapped another.
OnlineOnlyWhileConnected ==
  \A c \in Conn :
    pc[c] \in {"left", "closed"} /\ isConnected[c] /\ (c \in Registered \/ Listed(c)) =>
      c \in history.failed \cup history.raced

\* The difference that ConnectionCounter reports as current is the number of
\* connections before their disconnection and, for ever, of those turned away.
CurrentCountsRejected ==
  totalConnectedCount - totalDisconnectedCount =
    Cardinality({c \in Live : pc[c] # "leaving"}) + Cardinality(history.rejected)

\* A student is listed under the teacher it was checked against, or under one
\* that the bag enumerates before that teacher: another registration of the code.
ListedNoLaterThanFound ==
  \A s \in Students : adding[s].teacher # None =>
    \E i, j \in DOMAIN teacherClients :
      /\ i <= j
      /\ teacherClients[i] = adding[s].teacher
      /\ teacherClients[j] = teacher[s]

\* The group of a code has exactly the students of the code that joined it and
\* are not closed: a command reaches no connection that is gone, and every
\* student that was told it is registered.
GroupsExact ==
  /\ \A code \in Codes : \A s \in groups[code] : CodeOf[s] = code /\ pc[s] \notin {"new", "closed"}
  /\ \A s \in Students : pc[s] # "closed" /\ (\E m \in sent : m.id = <<s, 2>>) => s \in groups[CodeOf[s]]

\* Whoever receives a message can acknowledge it: the id it carries is on record,
\* with that connection as the receiver.
SentIsAnswerable ==
  \A m \in sent : m \in messageRecords

\* A comment at the check in RegisterStudent says that it checks whether the
\* connection of the teacher is in order: it refuses no student while a teacher
\* of its code is registered and connected.
RefusedOnlyIfTeacherOffline ==
  [][\A s \in Students : s \in history'.refused \ history.refused =>
       \A t \in Registered : CodeOf[t] = CodeOf[s] => ~isConnected[t]]_vars

\* AddStudent is documented to keep the information of the student: when its
\* Add has returned and nobody adds to the list, some list has the student.
AddedStudentIsKept ==
  \A s \in AddedStudents : Adders(adding[s].teacher) = {} => Listed(s)

=============================================================================
