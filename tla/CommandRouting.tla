--------------------------- MODULE CommandRouting ---------------------------
(***************************************************************************)
(* The commands of ProxyHub: Start, Stop, AllowLogin and Status, which a   *)
(* client calls between its other calls.  The handlers keep nothing; they  *)
(* look at the storage and hand the command to the group of a code, or to  *)
(* one teacher, without a record in MessageHistory.                        *)
(***************************************************************************)
EXTENDS ProxyHub

CONSTANT MaxCommands  \* bound: commands that are called

ASSUME MaxCommandsAssumption == MaxCommands \in Nat

VARIABLES
  looked,  \* the teacher that the StatusHandler of a student found
  issued,  \* commands whose handler got as far as to send them
  failed,  \* commands whose handler threw
  inbox    \* commands handed to a connection

routing == <<looked, issued, failed, inbox>>
allVars == <<vars, routing>>

\* The kinds of commands that a teacher page and a student page can call.
TeacherKinds == {"Start", "Stop", "AllowLogin"}
Kinds == TeacherKinds \cup {"Status"}

CommandInit ==
  /\ Init
  /\ looked = [s \in Students |-> None]
  /\ issued = {}
  /\ failed = {}
  /\ inbox = [c \in Conn |-> {}]

\* A connection calls a command after the call before it is over; each once.
Calls(c, kind) ==
  /\ pc[c] \in {"idle", "ready"}
  /\ [kind |-> kind, from |-> c] \notin issued \cup failed
  /\ Cardinality(issued) + Cardinality(failed) < MaxCommands

\* The command is handed to the receivers.
Deliver(c, kind, receivers) ==
  LET m == [kind |-> kind, from |-> c]
  IN  /\ issued' = issued \cup {m}
      /\ inbox' = [r \in Conn |-> IF r \in receivers THEN inbox[r] \cup {m} ELSE inbox[r]]
      /\ UNCHANGED failed

Throw(c, kind) ==
  /\ failed' = failed \cup {[kind |-> kind, from |-> c]}
  /\ UNCHANGED <<issued, inbox>>

-----------------------------------------------------------------------------
(***************************************************************************)
(* The handlers                                                            *)
(***************************************************************************)

\* Start goes to the group of the code it names; nobody checks who calls.
Start(t) ==
  /\ Calls(t, "Start")
  /\ Deliver(t, "Start", groups[CodeOf[t]])
  /\ UNCHANGED <<vars, looked>>

\* So does Stop.
Stop(t) ==
  /\ Calls(t, "Stop")
  /\ Deliver(t, "Stop", groups[CodeOf[t]])
  /\ UNCHANGED <<vars, looked>>

\* AllowLogin looks the caller up among the teachers.
IsTeacherOnline(t) == t \in Registered /\ isConnected[t]

\* (mutant) The command goes to the class of the first teacher.
AllowLoginFirst(t) ==
  /\ Calls(t, "AllowLogin")
  /\ IsTeacherOnline(t)
  /\ Deliver(t, "AllowLogin", groups[CodeOf[teacherClients[1]]])
  /\ UNCHANGED <<vars, looked>>

\* A teacher that is online has its class told.
AllowLogin(t) ==
  /\ Calls(t, "AllowLogin")
  /\ IsTeacherOnline(t)
  /\ Deliver(t, "AllowLogin", groups[CodeOf[t]])
  /\ UNCHANGED <<vars, looked>>

\* For any other caller the handler throws.
DenyLogin(t) ==
  /\ Calls(t, "AllowLogin")
  /\ ~IsTeacherOnline(t)
  /\ Throw(t, "AllowLogin")
  /\ UNCHANGED <<vars, looked>>

\* (mutant) The code of the student does not matter.
StatusToAny(s) ==
  /\ Calls(s, "Status") /\ looked[s] = None
  /\ teacherClients # <<>>
  /\ looked' = [looked EXCEPT ![s] = teacherClients[1]]
  /\ UNCHANGED <<vars, issued, failed, inbox>>

\* StatusHandler finds the first teacher of the code ...
Status(s) ==
  /\ Calls(s, "Status") /\ looked[s] = None
  /\ FirstTeacher(CodeOf[s]) # None
  /\ looked' = [looked EXCEPT ![s] = FirstTeacher(CodeOf[s])]
  /\ UNCHANGED <<vars, issued, failed, inbox>>

\* ... or null, which it does not check.
StatusFails(s) ==
  /\ Calls(s, "Status") /\ looked[s] = None
  /\ FirstTeacher(CodeOf[s]) = None
  /\ Throw(s, "Status")
  /\ UNCHANGED <<vars, looked>>

\* The report is sent to the connection that was found, if it is still there.
SendStatus(s) ==
  /\ looked[s] # None
  /\ Deliver(s, "Status", {t \in {looked[s]} : pc[t] # "closed"})
  /\ looked' = [looked EXCEPT ![s] = None]
  /\ UNCHANGED vars

\* A connection whose command is not over begins no other call, and does not end.
CommandNext ==
  \/ /\ Next
     /\ \A s \in Students : looked[s] # None => pc'[s] = pc[s]
     /\ UNCHANGED routing
  \/ \E t \in Teachers : Start(t) \/ Stop(t) \/ AllowLogin(t) \/ DenyLogin(t)
  \/ \E s \in Students : Status(s) \/ StatusFails(s) \/ SendStatus(s)

CommandSpec == CommandInit /\ [][CommandNext]_allVars

-----------------------------------------------------------------------------
(***************************************************************************)
(* What the clients can tell of the hub                                    *)
(***************************************************************************)

\* A teacher is registered when it is in the bag, a student when it is in the
\* group; a student that was refused stays what it was.
Server ==
  [c \in Conn |->
     CASE pc[c] = "new" -> "none"
       [] pc[c] = "connecting" -> "open"
       [] pc[c] \in {"leaving", "left", "closed"} -> "gone"
       [] c \in Teachers /\ pc[c] \in {"added", "ready"} -> "teacher"
       [] c \in Students \ history.refused /\ pc[c] \in {"joined", "notified", "ready"} -> "student"
       [] OTHER -> "accepted"]

\* Connections that were sent the reply to their registration, and a message
\* that somebody else caused.
Replied == {c \in Conn : \E m \in sent : m.receiver = c /\ m.id[1] = c}
Reached == {c \in Conn : inbox[c] # {} \/ \E m \in sent : m.receiver = c /\ m.id[1] # c}

Mail ==
  (history.rejected \X {"Close"}) \cup (Replied \X {"RegisterSuccess"}) \cup (Reached \X {"ReceiveMessage"})

\* Connections that AllowLogin was refused to.
Refused == {c \in Conn : [kind |-> "AllowLogin", from |-> c] \in failed}

Contract ==
  INSTANCE HubContract WITH Session <- Conn, server <- Server, denied <- Refused, mail <- Mail

-----------------------------------------------------------------------------
(***************************************************************************)
(* Properties                                                              *)
(***************************************************************************)

Command == [kind : Kinds, from : Conn]

\* The types: a report is being sent only for a connection that is between
\* calls, and to a connection of the bag.
CommandTypeOK ==
  /\ looked \in [Students -> Teachers \cup {None}]
  /\ \A s \in Students : looked[s] # None => looked[s] \in Registered /\ pc[s] \in {"idle", "ready"}
  /\ issued \subseteq Command
  /\ failed \subseteq Command
  /\ inbox \in [Conn -> SUBSET issued]

\* Connections that got the reply to their registration.
Told == {c \in Conn : \E m \in sent : m.id = <<c, IF c \in Teachers THEN 1 ELSE 2>>}

\* A command of a teacher reaches its class and nobody else: every student of the
\* code that was told it is registered and is not closed, no student of another
\* code, no teacher, and nobody that is gone.
ClassIsReached ==
  [][\A m \in issued' \ issued : m.kind \in TeacherKinds =>
       LET class == {s \in Students : CodeOf[s] = CodeOf[m.from] /\ pc[s] # "closed"}
           reached == {c \in Conn : m \in inbox'[c]}
       IN  class \cap Told \subseteq reached /\ reached \subseteq class]_allVars

\* While its code has one registration, the status of a registered student
\* reaches the teacher that was told of the student, unless that is closed.
StatusReachesTeacher ==
  [][\A m \in issued' \ issued : m.kind = "Status" /\ m.from \in Told =>
       LET t == teacher[m.from]
       IN  (\A u \in Registered : CodeOf[u] = CodeOf[t] => u = t) =>
             pc[t] = "closed" \/ m \in inbox'[t]]_allVars

\* Whoever was told it is registered is never refused a command: the handlers
\* find the teacher connected, and a student's teacher is never null.
ToldAreServed ==
  [][\A m \in failed' \ failed : m.from \notin Told]_allVars

\* To every client the hub is what ProxyClient takes it for: a connection is sent
\* nothing before it is registered, whatever the storage and the groups are doing,
\* and AllowLogin is refused only to one that has not registered as a teacher.
HubContractKept == Contract!Spec

\* ISignalrClient.cs says that the sender of a command is notified when the server
\* gets no feedback for it in time: that takes a record of every command, from its
\* sender and for its receiver, since the monitor looks at nothing else.
CommandsAreRecorded ==
  \A s \in Students : \A m \in inbox[s] :
    \E r \in messageRecords : r.id[1] = m.from /\ r.receiver = s

=============================================================================
