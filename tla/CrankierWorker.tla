--------------------------- MODULE CrankierWorker ---------------------------
(***************************************************************************)
(* The worker processes of Crankier: WorkerReceiver works off the commands *)
(* on the standard input one after the other, each Client makes its        *)
(* connection, and SendStatusUpdateAsync reports on the standard output    *)
(* how many clients are connected.                                         *)
(*                                                                         *)
(* A report is modelled by the set of clients it counts; the code sends    *)
(* the size of that set, and the workers have no client in common.  The    *)
(* code looks at one client after the other while they change: Scan takes  *)
(* them all at one moment.                                                 *)
(***************************************************************************)
EXTENDS Integers, Sequences, FiniteSets

CONSTANTS
  NumberOfWorkers,     \* option --workers
  NumberOfConnections, \* option --connections
  LastTry,             \* Client.ConnectAsync: the connectCount that throws, 3
  OutputBound,         \* bound: reports in the output of a worker
  MaxRefused,          \* bound: calls of StartAsync that fail
  MaxLost,             \* bound: connections that end by themselves
  MaxCrashes,          \* bound: processes that fail or are killed
  MaxFaults            \* bound: the last two together

ASSUME NumbersAssumption ==
  /\ NumberOfWorkers \in Nat \ {0}
  /\ NumberOfConnections \in Nat
  /\ LastTry \in Nat /\ OutputBound \in Nat
  /\ MaxRefused \in Nat /\ MaxLost \in Nat /\ MaxCrashes \in Nat /\ MaxFaults \in Nat

Workers == 0..(NumberOfWorkers - 1)

\* StartWorkersAsync asks the first worker for the remainder as well.
Share(w) ==
  (NumberOfConnections \div NumberOfWorkers)
    + (IF w = 0 THEN NumberOfConnections % NumberOfWorkers ELSE 0)

ClientsOf(w) == {w} \X (1..Share(w))

Clients == UNION {ClientsOf(w) : w \in Workers}

VARIABLES
  process,  \* each worker process, with its exit code once it is over
  input,    \* commands on the standard input of a worker
  output,   \* reports on its standard output
  receiver, \* where the task of WorkerReceiver is
  target,   \* the clients the command asks for
  client,   \* the client it is about: the last one created
  tries,    \* connectCount of that client
  state,    \* ConnectionState of each client, "Absent" before it is created
  open,     \* connections that are open
  stopped,  \* workers whose _sendStatusCts is cancelled and whose bag is empty
  reporter, \* where SendStatusUpdateAsync is
  counted,  \* the clients its locals count
  happened  \* history: what befell the clients, and how often

receiverVars == <<receiver, target, client, tries>>
reporterVars == <<reporter, counted>>
workerVars == <<process, input, output, receiverVars, state, open, stopped, reporterVars, happened>>

WorkerInit ==
  /\ process = [w \in Workers |-> "absent"]
  /\ input = [w \in Workers |-> << >>]
  /\ output = [w \in Workers |-> << >>]
  /\ receiver = [w \in Workers |-> "read"]
  /\ target = [w \in Workers |-> 0]
  /\ client = [w \in Workers |-> 0]
  /\ tries = [w \in Workers |-> 0]
  /\ state = [c \in Clients |-> "Absent"]
  /\ open = {}
  /\ stopped = {}
  /\ reporter = [w \in Workers |-> "check"]
  /\ counted = [w \in Workers |-> {}]
  /\ happened = [connected |-> {}, overtaken |-> {}, refused |-> 0, lost |-> 0, crashed |-> 0]

-----------------------------------------------------------------------------
(***************************************************************************)
(* The receiver                                                            *)
(***************************************************************************)

Running(w) == process[w] = "running"

\* The receiver of w gets from one place to another.
Receiver(w, here, there) ==
  /\ Running(w) /\ receiver[w] = here
  /\ receiver' = [receiver EXCEPT ![w] = there]

\* (mutant) The loop stops one client short.
ReadConnectShort(w) ==
  /\ Receiver(w, "read", "create")
  /\ input[w] # << >> /\ Head(input[w]).command = "connect"
  /\ target' = [target EXCEPT ![w] = client[w] + Head(input[w]).number - 1]
  /\ input' = [input EXCEPT ![w] = Tail(@)]
  /\ UNCHANGED <<process, output, client, tries, state, open, stopped, reporterVars, happened>>

\* Worker.ConnectAsync is called with the number of the command.
ReadConnect(w) ==
  /\ Receiver(w, "read", "create")
  /\ input[w] # << >> /\ Head(input[w]).command = "connect"
  /\ target' = [target EXCEPT ![w] = client[w] + Head(input[w]).number]
  /\ input' = [input EXCEPT ![w] = Tail(@)]
  /\ UNCHANGED <<process, output, client, tries, state, open, stopped, reporterVars, happened>>

\* The next client is put into the bag, and starts to connect.
CreateClient(w) ==
  /\ Receiver(w, "create", "start")
  /\ client[w] < target[w]
  /\ client' = [client EXCEPT ![w] = @ + 1]
  /\ tries' = [tries EXCEPT ![w] = 0]
  /\ state' = [state EXCEPT ![<<w, client[w] + 1>>] = "Connecting"]
  /\ UNCHANGED <<process, input, output, target, open, stopped, reporterVars, happened>>

ConnectEnds(w) ==
  /\ Receiver(w, "create", "read")
  /\ client[w] = target[w]
  /\ UNCHANGED <<process, input, output, target, client, tries, state, open, stopped, reporterVars, happened>>

\* StartAsync returns ...
StartSucceeds(w) ==
  /\ Receiver(w, "start", "started")
  /\ open' = open \cup {<<w, client[w]>>}
  /\ UNCHANGED <<process, input, output, target, client, tries, state, stopped, reporterVars, happened>>

\* ... and the client is marked as connected, whatever happened since.
SetConnected(w) ==
  LET c == <<w, client[w]>>
  IN  /\ Receiver(w, "started", "create")
      /\ state' = [state EXCEPT ![c] = "Connected"]
      /\ happened' = [happened EXCEPT !.connected = @ \cup {c},
                                      !.overtaken = IF c \in open THEN @ ELSE @ \cup {c}]
      /\ UNCHANGED <<process, input, output, target, client, tries, open, stopped, reporterVars>>

\* (mutant) The number of tries is not looked at.
StartFailsForEver(w) ==
  /\ happened.refused < MaxRefused
  /\ happened' = [happened EXCEPT !.refused = @ + 1]
  /\ Receiver(w, "start", "start")
  /\ tries' = [tries EXCEPT ![w] = @ + 1]
  /\ UNCHANGED <<process, input, output, target, client, state, open, stopped, reporterVars>>

\* StartAsync throws.  The last time the client is given up, and the exception
\* ends the whole command: no more clients are created.
StartFails(w) ==
  /\ happened.refused < MaxRefused
  /\ happened' = [happened EXCEPT !.refused = @ + 1]
  /\ \/ /\ tries[w] < LastTry
        /\ Receiver(w, "start", "start")
        /\ tries' = [tries EXCEPT ![w] = @ + 1]
        /\ UNCHANGED state
     \/ /\ tries[w] = LastTry
        /\ Receiver(w, "start", "read")
        /\ state' = [state EXCEPT ![<<w, client[w]>>] = "Faulted"]
        /\ UNCHANGED tries
  /\ UNCHANGED <<process, input, output, target, client, open, stopped, reporterVars>>

FaultsLeft == happened.lost + happened.crashed < MaxFaults

\* (mutant) A connection that ends with an error is not noted.
LoseQuietly(w, c) ==
  /\ Running(w) /\ c \in open
  /\ happened.lost < MaxLost /\ FaultsLeft
  /\ open' = open \ {c}
  /\ happened' = [happened EXCEPT !.lost = @ + 1]
  /\ UNCHANGED <<process, input, output, receiverVars, state, stopped, reporterVars>>

\* The connection ends by itself: the handler of Closed notes it.
Lose(w, c) ==
  /\ Running(w) /\ c \in open
  /\ happened.lost < MaxLost /\ FaultsLeft
  /\ open' = open \ {c}
  /\ \E s \in {"Disconnected", "Faulted"} : state' = [state EXCEPT ![c] = s]
  /\ happened' = [happened EXCEPT !.lost = @ + 1]
  /\ UNCHANGED <<process, input, output, receiverVars, stopped, reporterVars>>

\* Worker.StopAsync takes the clients out of the bag, and then cancels the
\* reports.  A report in between would reach a runner that waits for no more.
ReadStop(w) ==
  /\ Receiver(w, "read", "read")
  /\ input[w] # << >> /\ Head(input[w]).command = "stop"
  /\ input' = [input EXCEPT ![w] = Tail(@)]
  /\ stopped' = stopped \cup {w}
  /\ UNCHANGED <<process, output, target, client, tries, state, open, reporterVars, happened>>

\* StopConnectionAsync, which nobody awaits.
StopConnection(w, c) ==
  /\ Running(w) /\ w \in stopped /\ c \in open
  /\ open' = open \ {c}
  /\ state' = [state EXCEPT ![c] = "Disconnected"]
  /\ UNCHANGED <<process, input, output, receiverVars, stopped, reporterVars, happened>>

-----------------------------------------------------------------------------
(***************************************************************************)
(* The reporter                                                            *)
(***************************************************************************)

Reporter(w, here, there) ==
  /\ Running(w) /\ reporter[w] = here
  /\ reporter' = [reporter EXCEPT ![w] = there]

\* The delay of five seconds is over and the token is not cancelled.
Check(w) ==
  /\ Reporter(w, "check", "scan")
  /\ w \notin stopped
  /\ UNCHANGED <<process, input, output, receiverVars, state, open, stopped, counted, happened>>

\* (mutant) Clients that are still connecting are counted too.
ScanStarted(w) ==
  /\ Reporter(w, "scan", "send")
  /\ counted' = [counted EXCEPT ![w] = IF w \in stopped THEN {}
                                       ELSE {c \in ClientsOf(w) : state[c] \in {"Connecting", "Connected"}}]
  /\ UNCHANGED <<process, input, output, receiverVars, state, open, stopped, happened>>

\* The clients in the bag are counted by their states.
Scan(w) ==
  /\ Reporter(w, "scan", "send")
  /\ counted' = [counted EXCEPT ![w] = IF w \in stopped THEN {}
                                       ELSE {c \in ClientsOf(w) : state[c] = "Connected"}]
  /\ UNCHANGED <<process, input, output, receiverVars, state, open, stopped, happened>>

Send(w) ==
  /\ Reporter(w, "send", "check")
  /\ Len(output[w]) < OutputBound
  /\ output' = [output EXCEPT ![w] = Append(@, counted[w])]
  /\ UNCHANGED <<process, input, receiverVars, state, open, stopped, counted, happened>>

-----------------------------------------------------------------------------
(***************************************************************************)
(* The process                                                             *)
(***************************************************************************)

\* The process is over, and its connections with it.
Exit(w, code) ==
  /\ Running(w)
  /\ process' = [process EXCEPT ![w] = code]
  /\ open' = open \ ClientsOf(w)

\* RunAsync returns when the reports are cancelled.
WorkerEnds(w) ==
  /\ Exit(w, "exit 0")
  /\ reporter[w] = "check" /\ w \in stopped
  /\ UNCHANGED <<input, output, receiverVars, state, stopped, reporterVars, happened>>

\* The process fails.  Killed, it has an exit code; when RunAsync throws, Main
\* drops the result and the exit code is 0.
WorkerFails(w) ==
  /\ \E code \in {"exit 0", "exit 1"} : Exit(w, code)
  /\ happened.crashed < MaxCrashes /\ FaultsLeft
  /\ happened' = [happened EXCEPT !.crashed = @ + 1]
  /\ UNCHANGED <<input, output, receiverVars, state, stopped, reporterVars>>

ReceiverStep(w) ==
  \/ ReadConnect(w) \/ CreateClient(w) \/ ConnectEnds(w)
  \/ StartSucceeds(w) \/ SetConnected(w) \/ StartFails(w) \/ ReadStop(w)

ReporterStep(w) == Check(w) \/ Scan(w) \/ WorkerEnds(w)

ClientStep(w, c) == Lose(w, c) \/ StopConnection(w, c)

-----------------------------------------------------------------------------

Commands == [command : {"connect", "stop"}, number : Nat]

\* The types, and how far the commands can have got.
WorkerTypeOK ==
  /\ process \in [Workers -> {"absent", "running", "exit 0", "exit 1"}]
  /\ input \in [Workers -> Seq(Commands)]
  /\ \A w \in Workers : output[w] \in Seq(SUBSET ClientsOf(w))
  /\ DOMAIN output = Workers
  /\ receiver \in [Workers -> {"read", "create", "start", "started"}]
  /\ target \in [Workers -> Nat]
  /\ client \in [Workers -> Nat]
  /\ tries \in [Workers -> 0..LastTry]
  /\ state \in [Clients -> {"Absent", "Connecting", "Connected", "Disconnected", "Faulted"}]
  /\ open \subseteq Clients
  /\ stopped \subseteq Workers
  /\ reporter \in [Workers -> {"check", "scan", "send"}]
  /\ DOMAIN counted = Workers
  /\ \A w \in Workers : counted[w] \subseteq ClientsOf(w)
  /\ happened \in [connected : SUBSET Clients, overtaken : SUBSET Clients,
                   refused : 0..MaxRefused, lost : 0..MaxLost, crashed : 0..MaxCrashes]

=============================================================================
