------------------------------ MODULE Crankier ------------------------------
(***************************************************************************)
(* A local run of Crankier: Runner.RunAsync in the agent process, the      *)
(* Agent with its table of workers, and the worker processes that it       *)
(* starts, instructs over their standard input and watches.                *)
(*                                                                         *)
(* In the agent process run: the runner; a task per worker that creates    *)
(* it; an AgentReceiver per worker; and the handlers of Process.Exited, on *)
(* threads of the pool, where an exception ends the process.               *)
(***************************************************************************)
EXTENDS CrankierWorker

VARIABLES
  agent,   \* the agent process, and how it ended
  runner,  \* where RunAsync is
  creator, \* where CreateWorker is for each worker
  workers, \* the keys of the table _workers
  status,  \* StatusInformation of each AgentWorker, as the clients counted
  pending, \* workers that the loop of the runner has not come to yet
  exited   \* workers whose Exited event has been raised

agentVars == <<agent, runner, creator, workers, status, pending, exited>>
vars == <<workerVars, agentVars>>

Init ==
  /\ WorkerInit
  /\ agent = "running"
  /\ runner = "create"
  /\ creator = [w \in Workers |-> "start"]
  /\ workers = {}
  /\ status = [w \in Workers |-> {}]
  /\ pending = {}
  /\ exited = {}

\* What is left alone in the worker processes but for their life and input.
insideVars == <<output, receiverVars, state, stopped, reporterVars, happened>>

-----------------------------------------------------------------------------
(***************************************************************************)
(* Creating the workers                                                    *)
(***************************************************************************)

Creator(w, here, there) ==
  /\ agent = "running" /\ runner = "create" /\ creator[w] = here
  /\ creator' = [creator EXCEPT ![w] = there]

\* AgentWorker.Start: the process runs, and its output is read.
StartProcess(w) ==
  /\ Creator(w, "start", "started")
  /\ process' = [process EXCEPT ![w] = "running"]
  /\ UNCHANGED <<input, open, insideVars, agent, runner, workers, status, pending, exited>>

\* The handlers are set.
Subscribe(w) ==
  /\ Creator(w, "started", "subscribed")
  /\ UNCHANGED <<workerVars, agent, runner, workers, status, pending, exited>>

\* The worker is put into the table.
AddWorker(w) ==
  /\ Creator(w, "subscribed", "added")
  /\ workers' = workers \cup {w}
  /\ UNCHANGED <<workerVars, agent, runner, status, pending, exited>>

\* Task.WhenAll over the tasks that create a worker each.
AllCreated ==
  /\ agent = "running" /\ runner = "create"
  /\ \A w \in Workers : creator[w] = "added"
  /\ runner' = "connect"
  /\ pending' = Workers
  /\ UNCHANGED <<workerVars, agent, creator, workers, status, exited>>

-----------------------------------------------------------------------------
(***************************************************************************)
(* The run                                                                 *)
(***************************************************************************)

\* A command is written to the standard input of w.
Write(w, name, n) == input' = [input EXCEPT ![w] = Append(@, [command |-> name, number |-> n])]

\* RunWorker asks a worker for its share.  Nobody sees it fail.
RunWorker(w) ==
  /\ agent = "running" /\ runner = "connect" /\ w \in pending
  /\ IF w \in workers /\ Running(w) THEN Write(w, "connect", Share(w)) ELSE UNCHANGED input
  /\ pending' = pending \ {w}
  /\ runner' = IF pending = {w} THEN "wait" ELSE runner
  /\ UNCHANGED <<process, open, insideVars, agent, creator, workers, status, exited>>

\* A report counts for a worker in the table.
UpdateStatus(w, report) ==
  status' = IF w \in workers THEN [status EXCEPT ![w] = report] ELSE status

\* AgentReceiver reads a report of w.
ReceiveStatus(w) ==
  /\ agent = "running" /\ output[w] # << >>
  /\ output' = [output EXCEPT ![w] = Tail(@)]
  /\ UpdateStatus(w, Head(output[w]))
  /\ UNCHANGED <<process, input, receiverVars, state, open, stopped, reporterVars, happened,
                 agent, runner, creator, workers, pending, exited>>

\* The clients that the reports of all workers count as connected.
Reported == UNION {status[w] : w \in workers}

\* The runner finds as many connections as it asked for ...
AllConnected ==
  /\ agent = "running" /\ runner = "wait"
  /\ Cardinality(Reported) >= NumberOfConnections
  /\ runner' = "hold"
  /\ UNCHANGED <<workerVars, agent, creator, workers, status, pending, exited>>

\* ... and after the time to send, it stops the workers of the table.
BeginStop ==
  /\ agent = "running" /\ runner = "hold"
  /\ runner' = "stop"
  /\ pending' = workers
  /\ UNCHANGED <<workerVars, agent, creator, workers, status, exited>>

\* StopWorkersAsync tells one of them; if the process is over, the write throws
\* and the run is given up.
StopWorker(w) ==
  /\ agent = "running" /\ runner = "stop" /\ w \in pending
  /\ pending' = pending \ {w}
  /\ IF w \in workers /\ Running(w) THEN Write(w, "stop", 0) ELSE UNCHANGED input
  /\ agent' = IF w \in workers /\ ~Running(w) THEN "failed" ELSE agent
  /\ UNCHANGED <<process, open, insideVars, runner, creator, workers, status, exited>>

AllTold ==
  /\ agent = "running" /\ runner = "stop" /\ pending = {}
  /\ runner' = "drain"
  /\ UNCHANGED <<workerVars, agent, creator, workers, status, pending, exited>>

\* (mutant) The runner does not wait for the processes.
DrainedAtOnce ==
  /\ agent = "running" /\ runner = "drain"
  /\ runner' = "done"
  /\ agent' = "finished"
  /\ UNCHANGED <<workerVars, creator, workers, status, pending, exited>>

\* It waits until the table is empty, and the process ends.
Drained ==
  /\ agent = "running" /\ runner = "drain" /\ workers = {}
  /\ runner' = "done"
  /\ agent' = "finished"
  /\ UNCHANGED <<workerVars, creator, workers, status, pending, exited>>

-----------------------------------------------------------------------------
(***************************************************************************)
(* The end of a process                                                    *)
(***************************************************************************)

Over(w) == process[w] \in {"exit 0", "exit 1"}

\* (mutant) The worker stays in the table.
OnExitKeeps(w) ==
  /\ agent = "running" /\ Over(w) /\ w \notin exited
  /\ exited' = exited \cup {w}
  /\ agent' = IF creator[w] = "started" \/ process[w] = "exit 1" THEN "failed" ELSE agent
  /\ UNCHANGED <<workerVars, runner, creator, workers, status, pending>>

\* (mutant) Every exit code is taken for an error.
OnExitThrows(w) ==
  /\ agent = "running" /\ Over(w) /\ w \notin exited
  /\ exited' = exited \cup {w}
  /\ workers' = IF creator[w] = "started" THEN workers ELSE workers \ {w}
  /\ agent' = "failed"
  /\ UNCHANGED <<workerVars, runner, creator, status, pending>>

\* Exited is raised.  The handler throws, and the agent process ends with it, if
\* OnExit is not set yet, or the worker failed.
OnExit(w) ==
  /\ agent = "running" /\ Over(w) /\ w \notin exited
  /\ exited' = exited \cup {w}
  /\ workers' = IF creator[w] = "started" THEN workers ELSE workers \ {w}
  /\ agent' = IF creator[w] = "started" \/ process[w] = "exit 1" THEN "failed" ELSE agent
  /\ UNCHANGED <<workerVars, runner, creator, status, pending>>


\* A worker watches the agent process, and leaves when that is over; so it does
\* when a report finds no reader any more.
Leave(w) ==
  /\ agent # "running"
  /\ Exit(w, "exit 0")
  /\ UNCHANGED <<input, insideVars, agentVars>>

\* The agent process is killed from outside.
AgentKilled ==
  /\ agent = "running"
  /\ agent' = "killed"
  /\ happened.crashed < MaxCrashes /\ FaultsLeft
  /\ happened' = [happened EXCEPT !.crashed = @ + 1]
  /\ UNCHANGED <<process, input, output, receiverVars, state, open, stopped, reporterVars,
                 runner, creator, workers, status, pending, exited>>

-----------------------------------------------------------------------------

\* A report is written as long as the agent process is there to read it.
Report(w) == agent = "running" /\ Send(w) /\ UNCHANGED agentVars

Create(w) == StartProcess(w) \/ Subscribe(w) \/ AddWorker(w)

Run ==
  \/ AllCreated \/ AllConnected \/ BeginStop \/ AllTold \/ Drained
  \/ \E w \in Workers : RunWorker(w) \/ StopWorker(w)

Next ==
  \/ Run \/ AgentKilled
  \/ \E w \in Workers :
       \/ Create(w) \/ Report(w) \/ ReceiveStatus(w) \/ OnExit(w) \/ Leave(w)
       \/ (ReceiverStep(w) \/ ReporterStep(w) \/ WorkerFails(w)) /\ UNCHANGED agentVars
       \/ \E c \in ClientsOf(w) : ClientStep(w, c) /\ UNCHANGED agentVars

Spec == Init /\ [][Next]_vars

(***************************************************************************)
(* Every task and every thread that can go on does so.  Nothing makes a    *)
(* connection end by itself or a process fail.                             *)
(***************************************************************************)
Fairness ==
  /\ WF_vars(Run)
  /\ \A w \in Workers :
       /\ WF_vars(Create(w)) /\ WF_vars(OnExit(w)) /\ WF_vars(Leave(w))
       /\ WF_vars(Report(w)) /\ WF_vars(ReceiveStatus(w))
       /\ WF_vars(ReceiverStep(w) /\ UNCHANGED agentVars)
       /\ WF_vars(ReporterStep(w) /\ UNCHANGED agentVars)

FairSpec == Spec /\ Fairness

-----------------------------------------------------------------------------
(***************************************************************************)
(* Properties                                                              *)
(***************************************************************************)

\* The types.
TypeOK ==
  /\ WorkerTypeOK
  /\ agent \in {"running", "finished", "failed", "killed"}
  /\ runner \in {"create", "connect", "wait", "hold", "stop", "drain", "done"}
  /\ creator \in [Workers -> {"start", "started", "subscribed", "added"}]
  /\ workers \subseteq Workers
  /\ DOMAIN status = Workers
  /\ \A w \in Workers : status[w] \subseteq ClientsOf(w)
  /\ pending \subseteq Workers
  /\ exited \subseteq Workers

\* The runner goes on, and no worker is told to stop, before every single client
\* has been connected: the counts of reports that are up to seconds old, of
\* different workers, never add up too early.
EveryClientWasConnected ==
  runner \in {"hold", "stop", "drain", "done"} \/ (\E w \in Workers : w \in stopped) =>
    happened.connected = Clients

\* A run that ends well leaves nothing behind: every process it started is over
\* and every connection closed.
NothingLeftBehind ==
  runner = "done" => /\ \A w \in Workers : Over(w)
                     /\ open = {}

\* The agent process fails only after a worker process did: neither the order of
\* creation and exit of a worker nor stopping it makes it throw.
AgentFailsWithWorker == agent = "failed" => happened.crashed > 0

\* A client counts as connected while its connection is open, or it was lost
\* between the start of the connection and the note of it.
ConnectedIsOpen ==
  \A w \in Workers : \A c \in ClientsOf(w) :
    Running(w) /\ state[c] = "Connected" => c \in open \/ c \in happened.overtaken

\* How far the run has come.
Phase ==
  IF runner \in {"create", "connect", "wait"} THEN "connecting"
  ELSE IF runner = "hold" THEN "holding"
  ELSE IF runner = "done" THEN "over"
  ELSE "stopping"

\* The life of each worker process, its exit code aside.
Life == [w \in Workers |-> IF Over(w) THEN "over" ELSE process[w]]

Broken == agent \in {"failed", "killed"}

Faults ==
  (IF happened.lost > 0 THEN {"connection"} ELSE {})
    \cup (IF happened.crashed > 0 THEN {"process"} ELSE {})

Contract == INSTANCE RunContract WITH
  Worker <- Workers,
  Client <- [w \in Workers |-> ClientsOf(w)],
  phase <- Phase,
  broken <- Broken,
  process <- Life,
  told <- stopped,
  connected <- happened.connected,
  faults <- Faults

\* Run, with its queues of commands and reports, its table of workers and its
\* threads, the program keeps the contract of a run: without a fault no connection
\* closes and no process ends early, and the agent never gives the run up.
RunContractKept == Contract!Spec

\* Nothing has happened that a run may wait for ever about.
Undisturbed ==
  agent = "running" /\ happened.crashed = 0 /\ happened.lost = 0 /\ happened.refused <= LastTry

\* A command that w has not read yet.
Unread(w, name) == \E i \in DOMAIN input[w] : input[w][i].command = name

\* The runner waits twice without a timeout.  Undisturbed, it waits only for what is
\* on its way: each client is connected, for a report of a worker that goes on to
\* report, or the worker is about to connect it; and each worker of the table has
\* been told to stop, and the event of its exit is still to come.
WaitsForWork ==
  Undisturbed =>
    /\ runner = "wait" => \A w \in Workers :
         /\ w \in workers /\ Running(w) /\ w \notin stopped
         /\ \A c \in ClientsOf(w) : state[c] = "Connected" \/ Unread(w, "connect") \/ receiver[w] # "read"
    /\ runner = "drain" => \A w \in workers :
         /\ w \notin exited
         /\ w \in stopped \/ (Running(w) /\ Unread(w, "stop"))


\* Unless a process fails, a connection ends by itself or a client has all its
\* tries refused, the run comes to its end: every connection is counted in time
\* and every worker leaves the table of the agent.
RunEnds ==
  <>(\/ runner = "done"
     \/ happened.crashed > 0 \/ happened.lost > 0 \/ happened.refused > LastTry)

=============================================================================
