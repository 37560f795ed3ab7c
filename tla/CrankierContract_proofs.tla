---------------------- MODULE CrankierContract_proofs ----------------------
(***************************************************************************)
(* A local run of Crankier keeps the contract of a run, for every number   *)
(* of workers and of connections, and however many starts, connections and *)
(* processes fail: Crankier implements RunContract, step by step.  And the *)
(* runner waits only for what is still to come.                            *)
(***************************************************************************)
EXTENDS Crankier_proofs

-----------------------------------------------------------------------------
(***************************************************************************)
(* What the receiver of a worker is about                                  *)
(***************************************************************************)

\* A client that is being started was never connected, and is not stopped
\* meanwhile; a client whose start has succeeded is open, or was lost.
Fresh(w) ==
  /\ \A i \in 1..Share(w) : <<w, i>> \in happened.connected => i <= client[w]
  /\ receiver[w] \in {"start", "started"} => <<w, client[w]>> \notin happened.connected
  /\ receiver[w] = "started" /\ Running(w) => <<w, client[w]>> \in open \/ happened.lost > 0
  /\ w \in stopped => /\ receiver[w] = "read"
                      /\ \A i \in DOMAIN input[w] : input[w][i].command # "connect"

FreshInv == \A w \in Workers : Fresh(w)

\* What a step leaves alone that has nothing to do with the receiver of v.
Untouched(v) ==
  /\ input'[v] = input[v] /\ client'[v] = client[v] /\ receiver'[v] = receiver[v]
  /\ v \in stopped' => v \in stopped
  /\ \A i \in 1..Share(v) : <<v, i>> \in happened'.connected => <<v, i>> \in happened.connected
  /\ happened.lost > 0 => happened'.lost > 0
  /\ receiver[v] = "started" /\ process'[v] = "running" => process[v] = "running"
  /\ receiver[v] = "started" /\ process'[v] = "running" /\ <<v, client[v]>> \in open
       => <<v, client[v]>> \in open' \/ happened'.lost > 0

\* Such a step keeps what is known about v.
LEMMA UntouchedKeeps ==
  ASSUME TypeInv, NEW v \in Workers, Fresh(v), Untouched(v)
  PROVE  Fresh(v)'
<1>1. receiver[v] \in {"start", "started"} => client[v] \in 1..Share(v)
  <2>1. client[v] \in Nat /\ target[v] \in Nat /\ Share(v) \in Nat
    BY ShareType DEF TypeInv, TypeOK, WorkerTypeOK
  <2> QED
    BY <2>1 DEF TypeInv, CommandInv, WorkerCommands
<1> QED
  BY <1>1 DEF Fresh, Untouched, Running

\* The steps of the receiver of w are about its own client; those of the others
\* leave it alone.
LEMMA OthersUntouched ==
  ASSUME TypeInv, NEW w \in Workers, ReceiverStep(w), UNCHANGED agentVars,
         NEW v \in Workers, v # w
  PROVE  Untouched(v)
<1> USE DEF receiverVars, reporterVars, Receiver, Untouched, Running
<1>a. /\ input \in [Workers -> Seq(Commands)] /\ client \in [Workers -> Nat]
      /\ receiver \in [Workers -> {"read", "create", "start", "started"}]
      /\ happened \in Happenings
  BY DEF TypeInv, TypeOK, WorkerTypeOK, Happenings
<1>1. CASE ReadConnect(w) \/ ReadStop(w) \/ CreateClient(w) \/ ConnectEnds(w) \/ StartSucceeds(w)
  BY <1>1, <1>a DEF ReadConnect, ReadStop, CreateClient, ConnectEnds, StartSucceeds
<1>2. CASE SetConnected(w)
  <2>1. happened'.connected = happened.connected \cup {<<w, client[w]>>} /\ happened'.lost = happened.lost
    BY <1>2, <1>a DEF SetConnected, Happenings
  <2> QED
    BY <1>2, <1>a, <2>1 DEF SetConnected
<1>3. CASE StartFails(w)
  <2>1. happened'.connected = happened.connected /\ happened'.lost = happened.lost
    BY <1>3, <1>a DEF StartFails, Happenings
  <2>2. \E there \in {"start", "read"} : receiver' = [receiver EXCEPT ![w] = there]
    BY <1>3 DEF StartFails
  <2> QED
    BY <1>3, <1>a, <2>1, <2>2 DEF StartFails
<1> QED
  BY <1>1, <1>2, <1>3 DEF ReceiverStep

\* A step of its own receiver.
LEMMA FreshReceiver ==
  ASSUME TypeInv, NEW w \in Workers, Fresh(w), ReceiverStep(w), UNCHANGED agentVars
  PROVE  Fresh(w)'
<1> USE DEF receiverVars, reporterVars, Receiver, Running
<1>a. /\ input \in [Workers -> Seq(Commands)] /\ client \in [Workers -> Nat]
      /\ receiver \in [Workers -> {"read", "create", "start", "started"}]
      /\ happened \in Happenings /\ stopped \subseteq Workers
      /\ client[w] \in Nat /\ target[w] \in Nat /\ Share(w) \in Nat
  BY ShareType DEF TypeInv, TypeOK, WorkerTypeOK, Happenings
<1>b. /\ client[w] <= target[w] /\ target[w] <= Share(w)
      /\ receiver[w] \in {"start", "started"} => client[w] >= 1
  BY DEF TypeInv, CommandInv, WorkerCommands
<1>1. CASE ReadConnect(w)
  <2>1. input[w] # << >> /\ Head(input[w]).command = "connect"
    BY <1>1 DEF ReadConnect
  <2>2. 1 \in DOMAIN input[w] /\ Head(input[w]) = input[w][1]
    BY <1>a, <2>1, CommandSeq
  <2>3. w \notin stopped
    BY <2>1, <2>2 DEF Fresh
  <2> QED
    BY <1>1, <1>a, <2>3 DEF ReadConnect, Fresh
<1>2. CASE ReadStop(w)
  <2>1. \A i \in DOMAIN Tail(input[w]) : Tail(input[w])[i].command # "connect"
    BY <1>2, CommandTaken DEF ReadStop
  <2>2. input'[w] = Tail(input[w]) /\ receiver'[w] = "read"
    BY <1>2, <1>a DEF ReadStop
  <2> QED
    BY <1>2, <2>1, <2>2 DEF ReadStop, Fresh
<1>3. CASE CreateClient(w)
  <2>1. client'[w] = client[w] + 1 /\ client'[w] \in 1..Share(w) /\ receiver'[w] = "start"
    BY <1>3, <1>a, <1>b DEF CreateClient
  <2>2. <<w, client'[w]>> \notin happened.connected
    BY <1>a, <2>1 DEF Fresh
  <2>3. w \notin stopped
    BY <1>3 DEF CreateClient, Fresh
  <2> QED
    BY <1>3, <1>a, <2>1, <2>2, <2>3 DEF CreateClient, Fresh
<1>4. CASE ConnectEnds(w)
  BY <1>4, <1>a DEF ConnectEnds, Fresh
<1>5. CASE StartSucceeds(w)
  BY <1>5, <1>a DEF StartSucceeds, Fresh
<1>6. CASE SetConnected(w)
  <2>1. happened'.connected = happened.connected \cup {<<w, client[w]>>} /\ happened'.lost = happened.lost
    BY <1>6, <1>a DEF SetConnected, Happenings
  <2> QED
    BY <1>6, <1>a, <2>1 DEF SetConnected, Fresh
<1>7. CASE StartFails(w)
  <2>1. happened'.connected = happened.connected /\ happened'.lost = happened.lost
    BY <1>7, <1>a DEF StartFails, Happenings
  <2>2. receiver[w] = "start" /\ receiver'[w] \in {"start", "read"}
    BY <1>7, <1>a DEF StartFails
  <2> QED
    BY <1>7, <1>a, <2>1, <2>2 DEF StartFails, Fresh
<1> QED
  BY <1>1, <1>2, <1>3, <1>4, <1>5, <1>6, <1>7 DEF ReceiverStep

\* The number of lost connections.
LEMMA LostType ==
  ASSUME happened \in Happenings
  PROVE  happened.lost \in Nat
<1>1. happened.lost \in 0..MaxLost
  BY DEF Happenings
<1> QED
  BY <1>1, NumbersAssumption

\* What was counted once more is positive.
LEMMA CountedOnce == \A n \in Nat : n + 1 > 0
OBVIOUS

\* All other steps but those that write a command leave every receiver alone.
LEMMA RestUntouched ==
  ASSUME TypeInv, LifeInv, FreshInv, Next, NEW v \in Workers,
         \A w \in Workers : ~(ReceiverStep(w) /\ UNCHANGED agentVars) /\ ~RunWorker(w) /\ ~StopWorker(w)
  PROVE  Untouched(v)
<1> USE DEF workerVars, insideVars, receiverVars, reporterVars, Untouched, Exit, Running, Over
<1>a. happened \in Happenings /\ process \in [Workers -> {"absent", "running", "exit 0", "exit 1"}]
  BY DEF TypeInv, TypeOK, WorkerTypeOK, Happenings
<1>b. happened.lost \in Nat
  BY <1>a, LostType
<1>1. ASSUME NEW w \in Workers, Send(w) \/ Check(w) \/ Scan(w)
      PROVE  Untouched(v)
  BY <1>1 DEF Send, Check, Scan
<1>2. ASSUME NEW w \in Workers, Leave(w) \/ WorkerEnds(w)
      PROVE  Untouched(v)
  <2>1. UNCHANGED <<input, client, receiver, stopped, happened>> /\ \E code \in {"exit 0", "exit 1"} : Exit(w, code)
    BY <1>2, Zenon DEF Leave, WorkerEnds
  <2>2. <<v, client[v]>> \in ClientsOf(w) => v = w
    BY DEF ClientsOf
  <2> QED
    BY <1>a, <2>1, <2>2
<1>3. ASSUME NEW w \in Workers, WorkerFails(w)
      PROVE  Untouched(v)
  <2>1. UNCHANGED <<input, client, receiver, stopped>> /\ \E code \in {"exit 0", "exit 1"} : Exit(w, code)
    BY <1>3, Zenon DEF WorkerFails
  <2>2. <<v, client[v]>> \in ClientsOf(w) => v = w
    BY DEF ClientsOf
  <2>3. happened'.connected = happened.connected /\ happened'.lost = happened.lost
    BY <1>3, <1>a DEF WorkerFails, Happenings
  <2> QED
    BY <1>a, <2>1, <2>2, <2>3
<1>4. ASSUME NEW w \in Workers, StartProcess(w)
      PROVE  Untouched(v)
  <2>1. receiver[w] = "read"
    BY <1>4 DEF StartProcess, Creator, TypeInv, CommandInv, WorkerCommands, Unasked
  <2> QED
    BY <1>4, <1>a, <2>1 DEF StartProcess
<1>5. ASSUME NEW w \in Workers, Subscribe(w) \/ AddWorker(w) \/ ReceiveStatus(w) \/ OnExit(w)
      PROVE  Untouched(v)
  BY <1>5 DEF Subscribe, AddWorker, ReceiveStatus, UpdateStatus, OnExit
<1>6. CASE AllCreated \/ AllConnected \/ BeginStop \/ AllTold \/ Drained
  BY <1>6 DEF AllCreated, AllConnected, BeginStop, AllTold, Drained
<1>7. CASE AgentKilled
  <2>1. happened'.connected = happened.connected /\ happened'.lost = happened.lost
    BY <1>7, <1>a DEF AgentKilled, Happenings
  <2> QED
    BY <1>7, <2>1 DEF AgentKilled
<1>8. ASSUME NEW w \in Workers, NEW c \in ClientsOf(w), Lose(w, c)
      PROVE  Untouched(v)
  <2>1. happened'.connected = happened.connected /\ happened'.lost = happened.lost + 1
    BY <1>8, <1>a DEF Lose, Happenings
  <2> QED
    BY <1>8, <1>b, <2>1 DEF Lose
<1>9. ASSUME NEW w \in Workers, NEW c \in ClientsOf(w), StopConnection(w, c)
      PROVE  Untouched(v)
  <2>1. c = <<v, client[v]>> => v = w
    BY DEF ClientsOf
  <2>2. c = <<v, client[v]>> => receiver[v] = "read"
    BY <1>9, <2>1 DEF StopConnection, FreshInv, Fresh
  <2> QED
    BY <1>9, <2>2 DEF StopConnection
<1> QED
  BY <1>1, <1>2, <1>3, <1>4, <1>5, <1>6, <1>7, <1>8, <1>9
  DEF Next, Run, Create, Report, ReporterStep, ClientStep

\* A command is written only to a worker that was not told to stop.
LEMMA FreshWritten ==
  ASSUME TypeInv, StopInv, FreshInv, NEW w \in Workers, RunWorker(w) \/ StopWorker(w)
  PROVE  FreshInv'
<1> USE DEF insideVars, receiverVars, reporterVars
<1>1. /\ UNCHANGED <<process, client, receiver, stopped, open, happened>>
      /\ \A v \in Workers : v # w => input'[v] = input[v]
  <2>1. input \in [Workers -> Seq(Commands)]
    BY DEF TypeInv, TypeOK, WorkerTypeOK
  <2>2. \/ input' = input
        \/ \E c : input' = [input EXCEPT ![w] = Append(@, c)]
    BY Zenon DEF RunWorker, StopWorker, Write
  <2>3. UNCHANGED <<process, client, receiver, stopped, open, happened>>
    BY Zenon DEF RunWorker, StopWorker
  <2> QED
    BY <2>1, <2>2, <2>3
<1>2. w \notin stopped
  BY DEF RunWorker, StopWorker, StopInv, Told
<1> QED
  BY <1>1, <1>2 DEF FreshInv, Fresh, Running

\* What the receivers are about is as said, in every run.
LEMMA FreshCorrect == Spec => []FreshInv
<1>1. Init => FreshInv
  BY DEF Init, WorkerInit, FreshInv, Fresh
<1>2. TypeInv /\ LifeInv /\ StopInv /\ FreshInv /\ [Next]_vars => FreshInv'
  <2> SUFFICES ASSUME TypeInv, LifeInv, StopInv, FreshInv, [Next]_vars PROVE FreshInv'
    OBVIOUS
  <2>1. CASE UNCHANGED vars
    BY <2>1 DEF vars, workerVars, receiverVars, FreshInv, Fresh, Running
  <2>2. ASSUME NEW w \in Workers, ReceiverStep(w), UNCHANGED agentVars
        PROVE  FreshInv'
    BY <2>2, FreshReceiver, OthersUntouched, UntouchedKeeps DEF FreshInv
  <2>3. ASSUME NEW w \in Workers, RunWorker(w) \/ StopWorker(w)
        PROVE  FreshInv'
    BY <2>3, FreshWritten
  <2>4. CASE Next /\ \A w \in Workers : /\ ~(ReceiverStep(w) /\ UNCHANGED agentVars)
                                       /\ ~RunWorker(w) /\ ~StopWorker(w)
    BY <2>4, RestUntouched, UntouchedKeeps DEF FreshInv
  <2> QED
    BY <2>1, <2>2, <2>3, <2>4
<1> QED
  BY <1>1, <1>2, TypeInvCorrect, LifeCorrect, StopCorrect, PTL DEF Spec

-----------------------------------------------------------------------------
(***************************************************************************)
(* The end of the run                                                      *)
(***************************************************************************)

\* The agent process finishes with its runner.
FinishInv == agent = "finished" <=> runner = "done"

\* That is so in every run.
LEMMA FinishCorrect == Spec => []FinishInv
<1>1. Init => FinishInv
  BY DEF Init, FinishInv
<1>2. FinishInv /\ [Next]_vars => FinishInv'
  <2> SUFFICES ASSUME FinishInv, [Next]_vars PROVE FinishInv'
    OBVIOUS
  <2> USE DEF FinishInv
  <2>1. CASE UNCHANGED <<agent, runner>>
    BY <2>1
  <2>2. CASE Run
    BY <2>2 DEF Run, AllCreated, AllConnected, BeginStop, AllTold, Drained, RunWorker, StopWorker
  <2>3. ASSUME NEW w \in Workers, AgentKilled \/ OnExit(w)
        PROVE  FinishInv'
    BY <2>3 DEF AgentKilled, OnExit
  <2>4. ASSUME NEW w \in Workers, Create(w) \/ ReceiveStatus(w) \/ Leave(w) \/ UNCHANGED vars \/ UNCHANGED agentVars
        PROVE  UNCHANGED <<agent, runner>>
    BY <2>4 DEF Create, StartProcess, Subscribe, AddWorker, ReceiveStatus, Leave, vars, agentVars
  <2>5. Workers # {}
    BY NumbersAssumption DEF Workers
  <2> QED
    BY <2>1, <2>2, <2>3, <2>4, <2>5 DEF Next, Report
<1> QED
  BY <1>1, <1>2, PTL DEF Spec

-----------------------------------------------------------------------------
(***************************************************************************)
(* Every step is a step of the contract, or none                           *)
(***************************************************************************)

RunInv == TypeInv /\ LifeInv /\ StopInv /\ ReportInv /\ FreshInv /\ FinishInv

\* The initial states are the initial states of the contract.
LEMMA ContractInit == Init => Contract!Init
<1> SUFFICES ASSUME Init PROVE Contract!Init
  OBVIOUS
<1>1. Life = [w \in Workers |-> "absent"]
  BY DEF Init, WorkerInit, Life, Over
<1>2. Faults = {} /\ happened.connected = {}
  BY DEF Init, WorkerInit, Faults
<1> QED
  BY <1>1, <1>2 DEF Init, WorkerInit, Contract!Init, Phase, Broken

\* What the mapped variables depend on.
LEMMA MappingKeeps ==
  /\ UNCHANGED process => UNCHANGED Life
  /\ UNCHANGED runner => UNCHANGED Phase
  /\ UNCHANGED agent => UNCHANGED Broken
  /\ UNCHANGED happened => UNCHANGED <<happened.connected, Faults>>
BY DEF Life, Over, Phase, Broken, Faults

\* A step that the contract does not see.
LEMMA ContractStutter ==
  ASSUME UNCHANGED <<process, stopped, open, happened, Phase, Broken>>
  PROVE  UNCHANGED Contract!vars
BY MappingKeeps DEF Contract!vars

\* A worker process, as the contract sees it.
LEMMA LifeOf ==
  ASSUME TypeInv, NEW w \in Workers
  PROVE  /\ Life[w] = "running" <=> Running(w)
         /\ Life[w] = "absent" <=> process[w] = "absent"
         /\ Life[w] = "over" <=> Over(w)
<1>1. process[w] \in {"absent", "running", "exit 0", "exit 1"}
  BY DEF TypeInv, TypeOK, WorkerTypeOK
<1> QED
  BY <1>1 DEF Life, Running, Over

\* The run breaks where the agent process fails, after a worker process did.
LEMMA BreakStep ==
  ASSUME RunInv, StopInv', UNCHANGED <<process, stopped, open, happened, runner>>,
         agent = "running", agent' = "failed"
  PROVE  Contract!Next
<1>1. ~Broken /\ Broken' = TRUE /\ Phase # "over"
  BY DEF Broken, Phase, RunInv, FinishInv
<1>2. "process" \in Faults
  BY DEF StopInv, AgentFailsWithWorker, Faults
<1>3. Contract!Break
  BY <1>1, <1>2, MappingKeeps DEF Contract!Break
<1> QED
  BY <1>3 DEF Contract!Next

\* The steps of the runner.
LEMMA ContractRun ==
  ASSUME RunInv, RunInv', Run
  PROVE  [Contract!Next]_(Contract!vars)
<1> USE DEF workerVars, insideVars, receiverVars, reporterVars
<1>1. CASE AllCreated \/ AllTold
  <2>1. UNCHANGED <<process, stopped, open, happened, agent>> /\ Phase' = Phase
    BY <1>1 DEF AllCreated, AllTold, Phase
  <2> QED
    BY <2>1, ContractStutter, MappingKeeps
<1>2. CASE AllConnected
  <2>1. UNCHANGED <<process, stopped, open, happened, agent>>
    BY <1>2 DEF AllConnected
  <2>2. Phase = "connecting" /\ Phase' = "holding" /\ ~Broken
    BY <1>2 DEF AllConnected, Phase, Broken
  <2>3. happened.connected = Clients
    BY <1>2, <2>1 DEF AllConnected, RunInv, ReportInv, Found
  <2>4. \A w \in Workers : Life[w] # "absent" /\ ClientsOf(w) \subseteq happened.connected
    <3>1. \A w \in Workers : process[w] # "absent"
      BY <1>2 DEF AllConnected, RunInv, LifeInv
    <3> QED
      BY <2>3, <3>1, LifeOf, ClientsApart DEF RunInv
  <2>5. Contract!Hold
    BY <2>1, <2>2, <2>4, MappingKeeps DEF Contract!Hold
  <2> QED
    BY <2>5 DEF Contract!Next
<1>3. CASE BeginStop
  <2>1. Contract!Stop
    BY <1>3, MappingKeeps DEF BeginStop, Contract!Stop, Phase, Broken
  <2> QED
    BY <2>1 DEF Contract!Next
<1>4. CASE Drained
  <2>1. UNCHANGED <<process, stopped, open, happened, Broken>> /\ ~Broken
    BY <1>4 DEF Drained, Broken
  <2>2. \A w \in Workers : Over(w)
    BY <1>4 DEF Drained, RunInv, LifeInv
  <2>3. Contract!Finish
    BY <1>4, <2>1, <2>2, MappingKeeps, LifeOf DEF Drained, Contract!Finish, Phase, RunInv
  <2> QED
    BY <2>3 DEF Contract!Next
<1>5. ASSUME NEW w \in Workers, RunWorker(w)
      PROVE  UNCHANGED Contract!vars
  <2>1. UNCHANGED <<process, stopped, open, happened, agent>> /\ Phase' = Phase
    BY <1>5 DEF RunWorker, Phase
  <2> QED
    BY <2>1, ContractStutter, MappingKeeps
<1>6. ASSUME NEW w \in Workers, StopWorker(w)
      PROVE  [Contract!Next]_(Contract!vars)
  <2>1. UNCHANGED <<process, stopped, open, happened, runner>> /\ agent = "running" /\ agent' \in {"running", "failed"}
    BY <1>6 DEF StopWorker
  <2>2. CASE agent' = "running"
    BY <2>1, <2>2, ContractStutter, MappingKeeps
  <2>3. CASE agent' = "failed"
    BY <2>1, <2>3, BreakStep DEF RunInv
  <2> QED
    BY <2>1, <2>2, <2>3
<1> QED
  BY <1>1, <1>2, <1>3, <1>4, <1>5, <1>6 DEF Run

\* A process ends: because it was told to, because the run broke, or with a fault.
LEMMA EndStep ==
  ASSUME TypeInv, NEW w \in Workers, NEW code \in {"exit 0", "exit 1"}, Exit(w, code),
         UNCHANGED <<runner, agent, stopped>>, happened'.connected = happened.connected,
         \/ UNCHANGED happened /\ (w \in stopped \/ Broken)
         \/ Faults' = Faults \cup {"process"}
  PROVE  Contract!Next
<1>1. process \in [Workers -> {"absent", "running", "exit 0", "exit 1"}]
  BY DEF TypeInv, TypeOK, WorkerTypeOK
<1>2. Life' = [Life EXCEPT ![w] = "over"]
  BY <1>1 DEF Exit, Life, Over
<1>3. Contract!Ends(w)
  BY <1>2, MappingKeeps, LifeOf DEF Exit, Contract!Ends, Contract!Running
<1>4. Contract!End(w) \/ Contract!Fail(w)
  BY <1>3, MappingKeeps DEF Contract!End, Contract!Fail
<1> QED
  BY <1>4 DEF Contract!Next

\* The steps of a worker process.
LEMMA ContractWorker ==
  ASSUME RunInv, RunInv', NEW w \in Workers, UNCHANGED agentVars,
         ReceiverStep(w) \/ ReporterStep(w) \/ WorkerFails(w) \/ Send(w)
  PROVE  [Contract!Next]_(Contract!vars)
<1> USE DEF agentVars, receiverVars, reporterVars
<1> DEFINE c == <<w, client[w]>>
<1>a. /\ UNCHANGED <<Phase, Broken>>
      /\ happened \in Happenings
  BY MappingKeeps DEF RunInv, TypeInv, TypeOK, WorkerTypeOK, Happenings
<1>b. receiver[w] \in {"start", "started"} => c \in ClientsOf(w) /\ c \notin happened.connected
  <2>1. client[w] \in Nat /\ target[w] \in Nat /\ Share(w) \in Nat
    BY ShareType DEF RunInv, TypeInv, TypeOK, WorkerTypeOK
  <2>2. receiver[w] \in {"start", "started"} => client[w] \in 1..Share(w)
    BY <2>1 DEF RunInv, TypeInv, CommandInv, WorkerCommands
  <2> QED
    BY <2>2, ClientsApart DEF RunInv, FreshInv, Fresh
<1>c. receiver[w] \in {"start", "started"} => Phase = "connecting"
  <2>1. receiver[w] \in {"start", "started"} => ~Found
    BY <1>b, ClientsApart DEF RunInv, ReportInv
  <2> QED
    BY <2>1 DEF Found, Phase, RunInv, TypeInv, TypeOK
<1> HIDE DEF c
<1>1. CASE ReadConnect(w) \/ CreateClient(w) \/ ConnectEnds(w) \/ Send(w) \/ Check(w) \/ Scan(w)
  <2>1. UNCHANGED <<process, stopped, open, happened>>
    BY <1>1, Zenon DEF ReadConnect, CreateClient, ConnectEnds, Send, Check, Scan
  <2> QED
    BY <1>a, <2>1, ContractStutter
<1>2. CASE StartFails(w)
  <2>1. /\ UNCHANGED <<process, stopped, open>>
        /\ happened'.connected = happened.connected
        /\ happened'.lost = happened.lost /\ happened'.crashed = happened.crashed
    BY <1>2, <1>a DEF StartFails, Happenings
  <2> QED
    BY <1>a, <2>1, MappingKeeps DEF Contract!vars, Faults
<1>3. CASE StartSucceeds(w)
  <2>1. /\ UNCHANGED <<process, stopped, happened>>
        /\ Running(w) /\ receiver[w] = "start" /\ open' = open \cup {c}
    BY <1>3 DEF StartSucceeds, Receiver, c
  <2>2. Contract!Open(w, c)
    BY <1>a, <1>b, <1>c, <2>1, MappingKeeps, LifeOf DEF Contract!Open, Contract!Running, RunInv
  <2> QED
    BY <1>b, <2>1, <2>2 DEF Contract!Next
<1>4. CASE SetConnected(w)
  <2>1. /\ UNCHANGED <<process, stopped, open>>
        /\ Running(w) /\ receiver[w] = "started"
    BY <1>4 DEF SetConnected, Receiver
  <2>2. /\ happened'.connected = happened.connected \cup {c}
        /\ happened'.lost = happened.lost /\ happened'.crashed = happened.crashed
    BY <1>4, <1>a DEF SetConnected, Happenings, c
  <2>3. c \in open \/ "connection" \in Faults
    BY <2>1 DEF RunInv, FreshInv, Fresh, Faults, c
  <2>4. UNCHANGED Faults
    BY <2>2 DEF Faults
  <2>5. Contract!Connect(w, c)
    BY <1>a, <1>b, <1>c, <2>1, <2>2, <2>3, <2>4, MappingKeeps, LifeOf
    DEF Contract!Connect, Contract!Running, RunInv
  <2> QED
    BY <1>b, <2>1, <2>5 DEF Contract!Next
<1>5. CASE ReadStop(w)
  <2>1. /\ UNCHANGED <<process, open, happened>> /\ Running(w) /\ stopped' = stopped \cup {w}
        /\ input[w] # << >> /\ Head(input[w]).command = "stop"
    BY <1>5 DEF ReadStop, Receiver
  <2>2. 1 \in DOMAIN input[w] /\ Head(input[w]) = input[w][1]
    <3>1. input[w] \in Seq(Commands)
      BY DEF RunInv, TypeInv, TypeOK, WorkerTypeOK
    <3> QED
      BY <2>1, <3>1, CommandSeq
  <2>3. Told(w)
    BY <2>1, <2>2 DEF RunInv, StopInv
  <2>4. runner # "done"
    BY <2>1 DEF RunInv, LifeInv, NothingLeftBehind, Over, Running
  <2>5. Phase = "stopping"
    BY <2>3, <2>4 DEF Told, Phase
  <2>6. Contract!Tell(w)
    BY <1>a, <2>1, <2>5, MappingKeeps, LifeOf DEF Contract!Tell, Contract!Running, RunInv
  <2> QED
    BY <2>6 DEF Contract!Next
<1>6. CASE WorkerEnds(w)
  <2>1. w \in stopped /\ Exit(w, "exit 0") /\ UNCHANGED <<stopped, happened>>
    BY <1>6 DEF WorkerEnds
  <2> QED
    BY <2>1, EndStep DEF RunInv
<1>7. CASE WorkerFails(w)
  <2>1. PICK code \in {"exit 0", "exit 1"} : Exit(w, code)
    BY <1>7 DEF WorkerFails
  <2>2. /\ happened'.connected = happened.connected
        /\ happened'.lost = happened.lost /\ happened'.crashed = happened.crashed + 1
    BY <1>7, <1>a DEF WorkerFails, Happenings
  <2>3. Faults' = Faults \cup {"process"}
    <3>1. happened.crashed \in Nat
      BY CrashedType DEF RunInv, TypeInv
    <3>2. happened'.crashed > 0
      BY <2>2, <3>1, CountedOnce
    <3> QED
      BY <2>2, <3>2 DEF Faults
  <2>4. UNCHANGED stopped
    BY <1>7 DEF WorkerFails
  <2> QED
    BY <2>1, <2>2, <2>3, <2>4, EndStep DEF RunInv
<1> QED
  BY <1>1, <1>2, <1>3, <1>4, <1>5, <1>6, <1>7 DEF ReceiverStep, ReporterStep

\* The steps of a connection.
LEMMA ContractClient ==
  ASSUME RunInv, NEW w \in Workers, NEW c \in ClientsOf(w), ClientStep(w, c), UNCHANGED agentVars
  PROVE  Contract!Next
<1>1. UNCHANGED <<Phase, Broken, Life, stopped>> /\ Life[w] = "running" /\ c \in open /\ open' = open \ {c}
  <2>1. UNCHANGED <<process, stopped, agent, runner>> /\ Running(w) /\ c \in open /\ open' = open \ {c}
    BY Zenon DEF ClientStep, Lose, StopConnection, agentVars
  <2> QED
    BY <2>1, MappingKeeps, LifeOf DEF RunInv
<1>2. CASE Lose(w, c)
  <2>1. happened \in Happenings
    BY DEF RunInv, TypeInv, TypeOK, WorkerTypeOK, Happenings
  <2>2. /\ happened'.connected = happened.connected
        /\ happened'.lost = happened.lost + 1 /\ happened'.crashed = happened.crashed
    BY <1>2, <2>1 DEF Lose, Happenings
  <2>3. happened'.lost > 0
    BY <2>1, <2>2, LostType, CountedOnce
  <2>4. Faults' = Faults \cup {"connection"}
    BY <2>2, <2>3 DEF Faults
  <2>5. Contract!Lose(w, c)
    BY <1>1, <2>2, <2>4 DEF Contract!Lose, Contract!Running
  <2> QED
    BY <2>5 DEF Contract!Next
<1>3. CASE StopConnection(w, c)
  <2>1. Contract!Close(w, c)
    BY <1>1, <1>3, MappingKeeps DEF StopConnection, Contract!Close, Contract!Running
  <2> QED
    BY <2>1 DEF Contract!Next
<1> QED
  BY <1>2, <1>3 DEF ClientStep

\* The other steps of the agent.
LEMMA ContractAgent ==
  ASSUME RunInv, RunInv', NEW w \in Workers,
         Create(w) \/ ReceiveStatus(w) \/ OnExit(w) \/ Leave(w) \/ AgentKilled
  PROVE  [Contract!Next]_(Contract!vars)
<1> USE DEF workerVars, insideVars, agentVars, receiverVars, reporterVars
<1>1. CASE StartProcess(w)
  <2>1. /\ process[w] = "absent" /\ Phase = "connecting" /\ ~Broken
        /\ process' = [process EXCEPT ![w] = "running"]
        /\ UNCHANGED <<agent, runner, stopped, open, happened>>
    BY <1>1 DEF StartProcess, Creator, Phase, Broken, RunInv, LifeInv
  <2>2. process \in [Workers -> {"absent", "running", "exit 0", "exit 1"}]
    BY DEF RunInv, TypeInv, TypeOK, WorkerTypeOK
  <2>3. Life' = [Life EXCEPT ![w] = "running"]
    BY <2>1, <2>2 DEF Life, Over
  <2>4. Contract!Start(w)
    BY <2>1, <2>3, MappingKeeps, LifeOf DEF Contract!Start, RunInv
  <2> QED
    BY <2>4 DEF Contract!Next
<1>2. CASE Subscribe(w) \/ AddWorker(w) \/ ReceiveStatus(w)
  <2>1. UNCHANGED <<process, stopped, open, happened, runner, agent>>
    BY <1>2, Zenon DEF Subscribe, AddWorker, Creator, ReceiveStatus
  <2> QED
    BY <2>1, ContractStutter, MappingKeeps
<1>3. CASE OnExit(w)
  <2>1. UNCHANGED <<process, stopped, open, happened, runner>> /\ agent = "running" /\ agent' \in {"running", "failed"}
    BY <1>3 DEF OnExit
  <2>2. CASE agent' = "running"
    BY <2>1, <2>2, ContractStutter, MappingKeeps
  <2>3. CASE agent' = "failed"
    BY <2>1, <2>3, BreakStep DEF RunInv
  <2> QED
    BY <2>1, <2>2, <2>3
<1>4. CASE Leave(w)
  <2>1. Exit(w, "exit 0") /\ UNCHANGED <<runner, agent, stopped, happened>>
    BY <1>4 DEF Leave
  <2>2. agent # "finished"
    BY <2>1 DEF RunInv, FinishInv, LifeInv, NothingLeftBehind, Exit, Running, Over
  <2>3. Broken
    BY <1>4, <2>2 DEF Leave, Broken, RunInv, TypeInv, TypeOK
  <2> QED
    BY <2>1, <2>3, EndStep DEF RunInv
<1>5. CASE AgentKilled
  <2>1. happened \in Happenings
    BY DEF RunInv, TypeInv, TypeOK, WorkerTypeOK, Happenings
  <2>2. /\ happened'.connected = happened.connected
        /\ happened'.lost = happened.lost /\ happened'.crashed = happened.crashed + 1
    BY <1>5, <2>1 DEF AgentKilled, Happenings
  <2>3. happened'.crashed > 0
    <3>1. happened.crashed \in Nat
      BY CrashedType DEF RunInv, TypeInv
    <3> QED
      BY <2>2, <3>1, CountedOnce
  <2>4. Faults' = Faults \cup {"process"}
    BY <2>2, <2>3 DEF Faults
  <2>5. UNCHANGED <<process, stopped, open, runner>> /\ Phase # "over" /\ ~Broken /\ Broken' = TRUE
    BY <1>5 DEF AgentKilled, Phase, Broken, RunInv, FinishInv
  <2>6. Contract!Break
    BY <2>2, <2>4, <2>5, MappingKeeps DEF Contract!Break
  <2> QED
    BY <2>6 DEF Contract!Next
<1> QED
  BY <1>1, <1>2, <1>3, <1>4, <1>5 DEF Create

\* A run keeps the contract of a run.
THEOREM RunKeepsContract == Spec => RunContractKept
<1>1. RunInv /\ RunInv' /\ [Next]_vars => [Contract!Next]_(Contract!vars)
  <2> SUFFICES ASSUME RunInv, RunInv', [Next]_vars PROVE [Contract!Next]_(Contract!vars)
    OBVIOUS
  <2>1. CASE UNCHANGED vars
    <3>1. UNCHANGED <<process, stopped, open, happened, runner, agent>>
      BY <2>1 DEF vars, workerVars, agentVars
    <3> QED
      BY <3>1, ContractStutter, MappingKeeps
  <2>2. Workers # {}
    BY NumbersAssumption DEF Workers
  <2> QED
    BY <2>1, <2>2, ContractRun, ContractWorker, ContractClient, ContractAgent DEF Next, Report
<1>2. Spec => []RunInv
  BY TypeInvCorrect, LifeCorrect, StopCorrect, ReportCorrect, FreshCorrect, FinishCorrect, PTL DEF RunInv
<1> QED
  BY <1>1, <1>2, ContractInit, PTL DEF Spec, RunContractKept, Contract!Spec

-----------------------------------------------------------------------------
(***************************************************************************)
(* What the runner waits for                                               *)
(***************************************************************************)

\* The work of w is done or on its way: its connect command, its clients, its end.
Advance(w) ==
  /\ w \in exited => w \in stopped /\ w \notin workers
  /\ ~Unasked(w) => Unread(w, "connect") \/ target[w] = Share(w)
  /\ receiver[w] = "read" => client[w] = target[w]
  /\ \A i \in 1..client[w] :
       \/ i = client[w] /\ receiver[w] \in {"start", "started"}
       \/ state[<<w, i>>] = "Connected"
       \/ w \in stopped
  /\ Told(w) /\ w \in workers => w \in stopped \/ Unread(w, "stop")

\* No client has been tried again more often than starts were refused.
TriesInv == \A w \in Workers : tries[w] <= happened.refused

ProgressInv ==
  /\ TriesInv
  /\ Undisturbed => \A w \in Workers : Advance(w)

\* What has happened is not undone.
LEMMA HappenedSteps ==
  ASSUME TypeInv, Next
  PROVE  /\ happened.refused \in Nat /\ happened.lost \in Nat /\ happened.crashed \in Nat
         /\ happened'.refused \in {happened.refused, happened.refused + 1}
         /\ happened'.lost \in {happened.lost, happened.lost + 1}
         /\ happened'.crashed \in {happened.crashed, happened.crashed + 1}
<1> USE DEF receiverVars, reporterVars, insideVars, workerVars, agentVars
<1>1. /\ happened \in Happenings
      /\ happened.refused \in Nat /\ happened.lost \in Nat /\ happened.crashed \in Nat
  BY HappenedType, NumbersAssumption DEF Happenings
<1>2. \/ UNCHANGED happened
      \/ happened' = [happened EXCEPT !.refused = @ + 1]
      \/ happened' = [happened EXCEPT !.lost = @ + 1]
      \/ happened' = [happened EXCEPT !.crashed = @ + 1]
      \/ \E w \in Workers : SetConnected(w)
  <2>1. ASSUME NEW w \in Workers, ReceiverStep(w) \/ ReporterStep(w) \/ WorkerFails(w), ~SetConnected(w)
        PROVE  \/ UNCHANGED happened
               \/ happened' = [happened EXCEPT !.refused = @ + 1]
               \/ happened' = [happened EXCEPT !.crashed = @ + 1]
    BY <2>1, Zenon DEF ReceiverStep, ReporterStep, ReadConnect, CreateClient, ConnectEnds, StartSucceeds, StartFails,
                       ReadStop, Check, Scan, WorkerEnds, WorkerFails
  <2>2. ASSUME NEW w \in Workers, NEW c \in ClientsOf(w), ClientStep(w, c)
        PROVE  UNCHANGED happened \/ happened' = [happened EXCEPT !.lost = @ + 1]
    BY <2>2, Zenon DEF ClientStep, Lose, StopConnection
  <2>3. ASSUME NEW w \in Workers, Create(w) \/ Report(w) \/ ReceiveStatus(w) \/ OnExit(w) \/ Leave(w)
        PROVE  UNCHANGED happened
    BY <2>3, Zenon DEF Create, StartProcess, Subscribe, AddWorker, Report, Send, ReceiveStatus, OnExit, Leave
  <2>4. ASSUME Run PROVE UNCHANGED happened
    BY <2>4, Zenon DEF Run, AllCreated, AllConnected, BeginStop, AllTold, Drained, RunWorker, StopWorker
  <2>5. ASSUME AgentKilled PROVE happened' = [happened EXCEPT !.crashed = @ + 1]
    BY <2>5, Zenon DEF AgentKilled
  <2> QED
    BY <2>1, <2>2, <2>3, <2>4, <2>5 DEF Next
<1>3. ASSUME NEW w \in Workers, SetConnected(w)
      PROVE  /\ happened'.refused = happened.refused /\ happened'.lost = happened.lost
             /\ happened'.crashed = happened.crashed
  BY <1>3, <1>1 DEF SetConnected, Happenings
<1> QED
  BY <1>1, <1>2, <1>3 DEF Happenings

\* So a state that is undisturbed was so before.
LEMMA DisturbedStays ==
  ASSUME TypeInv, Next, Undisturbed'
  PROVE  Undisturbed
<1> USE DEF receiverVars, reporterVars, insideVars, workerVars, agentVars
<1>1. agent = "running"
  <2>1. ASSUME agent # "running" PROVE UNCHANGED agent
    BY <2>1 DEF Next, Run, AllCreated, AllConnected, BeginStop, AllTold, Drained, RunWorker, StopWorker, AgentKilled,
                Create, Creator, StartProcess, Subscribe, AddWorker, Report, ReceiveStatus, OnExit, Leave
  <2> QED
    BY <2>1 DEF Undisturbed
<1> QED
  BY <1>1, HappenedSteps, NumbersAssumption DEF Undisturbed

\* A client starts without a try, and each further try is a start refused.
LEMMA TriesStep ==
  ASSUME TypeInv, TriesInv, Next
  PROVE  TriesInv'
<1> USE DEF receiverVars, reporterVars, insideVars, workerVars, agentVars
<1>a. /\ tries \in [Workers -> 0..LastTry] /\ LastTry \in Nat
      /\ happened \in Happenings /\ happened.refused \in Nat
      /\ happened'.refused \in {happened.refused, happened.refused + 1}
  BY HappenedType, HappenedSteps, NumbersAssumption DEF TypeInv, TypeOK, WorkerTypeOK
<1>1. CASE UNCHANGED tries
  BY <1>1, <1>a DEF TriesInv
<1>2. ASSUME NEW w \in Workers, CreateClient(w) PROVE TriesInv'
  BY <1>2, <1>a DEF CreateClient, TriesInv
<1>3. ASSUME NEW w \in Workers, StartFails(w) PROVE TriesInv'
  <2>1. happened'.refused = happened.refused + 1
    BY <1>3, <1>a DEF StartFails, Happenings
  <2>2. UNCHANGED tries \/ tries' = [tries EXCEPT ![w] = @ + 1]
    BY <1>3, Zenon DEF StartFails
  <2> QED
    BY <2>1, <2>2, <1>a DEF TriesInv
<1>4. UNCHANGED tries \/ \E w \in Workers : CreateClient(w) \/ StartFails(w)
  <2>1. ASSUME NEW w \in Workers, ReceiverStep(w) \/ ReporterStep(w) \/ WorkerFails(w),
               ~CreateClient(w), ~StartFails(w)
        PROVE  UNCHANGED tries
    BY <2>1, Zenon DEF ReceiverStep, ReporterStep, ReadConnect, ConnectEnds, StartSucceeds, SetConnected, ReadStop,
                       Check, Scan, WorkerEnds, WorkerFails
  <2>2. ASSUME NEW w \in Workers, NEW c \in ClientsOf(w), ClientStep(w, c) PROVE UNCHANGED tries
    BY <2>2, Zenon DEF ClientStep, Lose, StopConnection
  <2>3. ASSUME NEW w \in Workers, Create(w) \/ Report(w) \/ ReceiveStatus(w) \/ OnExit(w) \/ Leave(w)
        PROVE  UNCHANGED tries
    BY <2>3, Zenon DEF Create, StartProcess, Subscribe, AddWorker, Report, Send, ReceiveStatus, OnExit, Leave
  <2>4. ASSUME Run \/ AgentKilled PROVE UNCHANGED tries
    BY <2>4, Zenon DEF Run, AllCreated, AllConnected, BeginStop, AllTold, Drained, RunWorker, StopWorker, AgentKilled
  <2> QED
    BY <2>1, <2>2, <2>3, <2>4 DEF Next
<1> QED
  BY <1>1, <1>2, <1>3, <1>4

\* A step that is about something else.
LEMMA AdvanceKept ==
  ASSUME NEW v \in Workers, Advance(v),
         input'[v] = input[v], target'[v] = target[v], client'[v] = client[v], receiver'[v] = receiver[v],
         \A i \in 1..client[v] : state'[<<v, i>>] = state[<<v, i>>],
         v \in stopped => v \in stopped',
         v \in exited' => v \in stopped' /\ v \notin workers',
         Unasked(v) => Unasked(v)',
         Told(v)' /\ v \in workers' => Told(v) /\ v \in workers
  PROVE  Advance(v)'
BY DEF Advance, Unread

\* A worker is over, while nothing was disturbed, only when it was told to stop.
LEMMA OverStopped ==
  ASSUME TypeInv, LifeInv, StopInv, Undisturbed, NEW w \in Workers
  PROVE  /\ Over(w) => w \in stopped /\ process[w] = "exit 0"
         /\ w \in stopped => Told(w) /\ creator[w] = "added" /\ runner # "create"
<1>1. process[w] \in {"absent", "running", "exit 0", "exit 1"} /\ AllEndedWell
  BY DEF TypeInv, TypeOK, WorkerTypeOK, StopInv, Undisturbed
<1>2. w \in stopped => Told(w)
  BY DEF StopInv
<1> QED
  BY <1>1, <1>2 DEF AllEndedWell, Over, Told, LifeInv

\* The steps of the agent that write no command.
LEMMA AdvanceAgent ==
  ASSUME TypeInv, LifeInv, StopInv, Undisturbed, Undisturbed', NEW v \in Workers, Advance(v), NEW w \in Workers,
         \/ Create(w) \/ ReceiveStatus(w) \/ OnExit(w) \/ Leave(w)
         \/ AllCreated \/ AllConnected \/ BeginStop \/ AllTold \/ Drained \/ AgentKilled
  PROVE  Advance(v)'
<1> USE DEF receiverVars, reporterVars, insideVars, workerVars
<1>1. UNCHANGED <<input, target, client, receiver, state, stopped>>
  BY Zenon DEF Create, StartProcess, Subscribe, AddWorker, ReceiveStatus, OnExit, Leave, AllCreated, AllConnected,
               BeginStop, AllTold, Drained, AgentKilled
<1>2. v \in exited => v \in stopped /\ v \notin workers
  BY DEF Advance
<1>3. ASSUME UNCHANGED <<exited, workers, runner, pending>> PROVE Advance(v)'
  BY <1>1, <1>2, <1>3, AdvanceKept DEF Unasked, Told
<1>4. CASE AddWorker(w)
  <2>1. UNCHANGED <<exited, runner, pending>> /\ runner = "create"
    BY <1>4 DEF AddWorker, Creator
  <2>2. v \notin exited /\ ~Told(v)'
    BY <1>2, <2>1, OverStopped DEF Told
  <2> QED
    BY <1>1, <2>1, <2>2, AdvanceKept DEF Unasked
<1>5. CASE OnExit(w)
  <2>1. UNCHANGED <<runner, pending>> /\ exited' = exited \cup {w}
    BY <1>5 DEF OnExit
  <2>2. w \in stopped /\ creator[w] = "added"
    BY <1>5, OverStopped DEF OnExit
  <2>3. workers' = workers \ {w}
    BY <1>5, <2>2 DEF OnExit
  <2> QED
    BY <1>1, <1>2, <2>1, <2>2, <2>3, AdvanceKept DEF Unasked, Told
<1>6. CASE AllCreated
  BY <1>1, <1>2, <1>6, AdvanceKept DEF AllCreated, Unasked, Told
<1>7. CASE AllConnected \/ BeginStop \/ AllTold
  BY <1>1, <1>2, <1>7, AdvanceKept DEF AllConnected, BeginStop, AllTold, Unasked, Told
<1>8. ~Leave(w) /\ ~Drained /\ ~AgentKilled
  BY DEF Leave, Drained, AgentKilled, Undisturbed
<1>9. CASE StartProcess(w) \/ Subscribe(w) \/ ReceiveStatus(w)
  BY <1>3, <1>9 DEF StartProcess, Subscribe, ReceiveStatus
<1> QED
  BY <1>4, <1>5, <1>6, <1>7, <1>8, <1>9 DEF Create

\* A command is at the end of the input once it is written.
LEMMA WrittenUnread ==
  ASSUME TypeInv, NEW w \in Workers, NEW c \in Commands, input' = [input EXCEPT ![w] = Append(@, c)]
  PROVE  /\ Unread(w, c.command)'
         /\ \A name : Unread(w, name) => Unread(w, name)'
         /\ \A v \in Workers : v # w => input'[v] = input[v]
<1>1. input \in [Workers -> Seq(Commands)] /\ input[w] \in Seq(Commands)
  BY DEF TypeInv, TypeOK, WorkerTypeOK
<1>2. input'[w] = Append(input[w], c)
  BY <1>1
<1>3. /\ DOMAIN input'[w] = 1..(Len(input[w]) + 1) /\ Len(input[w]) \in Nat
      /\ \A i \in DOMAIN input[w] : input'[w][i] = input[w][i] /\ i \in DOMAIN input'[w]
      /\ input'[w][Len(input[w]) + 1] = c
  BY <1>1, <1>2
<1> QED
  BY <1>1, <1>3 DEF Unread

\* The commands: a worker that is asked, or told, is in the table, and is there.
LEMMA AdvanceCommanded ==
  ASSUME TypeInv, LifeInv, StopInv, Undisturbed, Undisturbed', NEW v \in Workers, Advance(v), NEW w \in Workers,
         RunWorker(w) \/ StopWorker(w)
  PROVE  Advance(v)'
<1> USE DEF receiverVars, reporterVars, insideVars
<1>1. /\ UNCHANGED <<target, client, receiver, state, stopped, exited, workers>>
      /\ pending' = pending \ {w} /\ w \in pending
  BY Zenon DEF RunWorker, StopWorker
<1>2. v \in exited => v \in stopped /\ v \notin workers
  BY DEF Advance
<1>3. w \notin stopped /\ creator[w] = "added"
  BY DEF RunWorker, StopWorker, StopInv, Told, LifeInv
<1>4. w \in workers /\ Running(w)
  <2>1. ~Over(w) /\ process[w] # "absent" /\ process[w] \in {"absent", "running", "exit 0", "exit 1"}
    BY <1>3, OverStopped DEF LifeInv, TypeInv, TypeOK, WorkerTypeOK
  <2> QED
    BY <1>3, <2>1 DEF LifeInv, Over, Running
<1>5. CASE RunWorker(w)
  <2>1. input' = [input EXCEPT ![w] = Append(@, [command |-> "connect", number |-> Share(w)])]
    BY <1>4, <1>5 DEF RunWorker, Write
  <2>2. [command |-> "connect", number |-> Share(w)] \in Commands
    BY ShareType, Commanding
  <2>3. runner = "connect" /\ runner' = IF pending = {w} THEN "wait" ELSE "connect"
    BY <1>5 DEF RunWorker
  <2>4. CASE v = w
    <3>1. Unread(v, "connect")' /\ ~Told(v)'
      BY <2>1, <2>2, <2>3, <2>4, WrittenUnread DEF Told
    <3> QED
      BY <1>1, <3>1 DEF Advance
  <2>5. CASE v # w
    <3>1. input'[v] = input[v]
      BY <2>1, <2>2, <2>5, WrittenUnread
    <3>2. ~Told(v)' /\ (Unasked(v) => Unasked(v)')
      BY <1>1, <2>3, <2>5 DEF Told, Unasked
    <3> QED
      BY <1>1, <1>2, <3>1, <3>2, AdvanceKept
  <2> QED
    BY <2>4, <2>5
<1>6. CASE StopWorker(w)
  <2>1. input' = [input EXCEPT ![w] = Append(@, [command |-> "stop", number |-> 0])]
    BY <1>4, <1>6 DEF StopWorker, Write
  <2>2. runner = "stop" /\ runner' = "stop"
    BY <1>6 DEF StopWorker
  <2>3. /\ Unread(w, "stop")' /\ (Unread(w, "connect") => Unread(w, "connect")')
        /\ v # w => input'[v] = input[v]
    BY <2>1, Commanding, WrittenUnread
  <2>4. CASE v = w
    BY <1>1, <2>2, <2>3, <2>4 DEF Advance, Unasked
  <2>5. CASE v # w
    BY <1>1, <1>2, <2>2, <2>3, <2>5, AdvanceKept DEF Told, Unasked
  <2> QED
    BY <2>4, <2>5
<1> QED
  BY <1>5, <1>6

\* The steps of a receiver: a command that is taken is begun, and a client that is
\* no longer being started is connected.
LEMMA AdvanceReceiver ==
  ASSUME TypeInv, StopInv, TriesInv, Undisturbed, Undisturbed', NEW w \in Workers, Advance(w),
         ReceiverStep(w), UNCHANGED agentVars
  PROVE  Advance(w)'
<1> USE DEF receiverVars, reporterVars, agentVars, Receiver, Unasked, Told
<1>a. /\ input \in [Workers -> Seq(Commands)] /\ input[w] \in Seq(Commands)
      /\ client \in [Workers -> Nat] /\ target \in [Workers -> Nat]
      /\ client[w] \in Nat /\ target[w] \in Nat /\ Share(w) \in Nat
      /\ receiver \in [Workers -> {"read", "create", "start", "started"}]
      /\ state \in [Clients -> {"Absent", "Connecting", "Connected", "Disconnected", "Faulted"}]
      /\ stopped \subseteq Workers
      /\ \A i \in 1..Share(w) : <<w, i>> \in Clients
  BY ShareType, ClientsApart DEF TypeInv, TypeOK, WorkerTypeOK
<1>b. /\ \A i \in DOMAIN input[w] :
           input[w][i].command = "connect" => i = 1 /\ input[w][i].number = Share(w) /\ client[w] = 0
      /\ client[w] <= target[w] /\ target[w] <= Share(w)
      /\ receiver[w] \in {"start", "started"} => client[w] >= 1
  BY DEF TypeInv, CommandInv, WorkerCommands
<1>c. /\ w \in exited => w \in stopped /\ w \notin workers
      /\ ~Unasked(w) => Unread(w, "connect") \/ target[w] = Share(w)
      /\ receiver[w] = "read" => client[w] = target[w]
      /\ \A i \in 1..client[w] :
           \/ i = client[w] /\ receiver[w] \in {"start", "started"}
           \/ state[<<w, i>>] = "Connected"
           \/ w \in stopped
      /\ Told(w) /\ w \in workers => w \in stopped \/ Unread(w, "stop")
  BY DEF Advance
<1>d. \A name : input'[w] = input[w] => (Unread(w, name)' <=> Unread(w, name))
  BY DEF Unread
<1>1. CASE ReadConnect(w)
  <2>1. /\ input[w] # << >> /\ Head(input[w]).command = "connect"
        /\ receiver[w] = "read" /\ receiver'[w] = "create"
        /\ target'[w] = client[w] + Head(input[w]).number /\ input'[w] = Tail(input[w])
        /\ UNCHANGED <<client, state, stopped>>
    BY <1>1, <1>a DEF ReadConnect
  <2>2. 1 \in DOMAIN input[w] /\ Head(input[w]) = input[w][1]
    BY <1>a, <2>1, CommandSeq
  <2>3. target'[w] = Share(w)
    BY <1>a, <1>b, <2>1, <2>2
  <2>4. Unread(w, "stop") => Unread(w, "stop")'
    <3>1. ASSUME NEW i \in DOMAIN input[w], input[w][i].command = "stop"
          PROVE  i - 1 \in DOMAIN Tail(input[w]) /\ Tail(input[w])[i - 1] = input[w][i]
      <4>1. i # 1
        BY <2>1, <2>2, <3>1
      <4> QED
        BY <1>a, <2>1, <4>1
    <3> QED
      BY <2>1, <3>1 DEF Unread
  <2> QED
    BY <1>1, <1>c, <2>1, <2>3, <2>4 DEF Advance
<1>2. CASE ReadStop(w)
  <2>1. /\ input[w] # << >> /\ Head(input[w]).command = "stop" /\ receiver'[w] = "read" /\ receiver[w] = "read"
        /\ input'[w] = Tail(input[w]) /\ w \in stopped'
        /\ UNCHANGED <<client, state, target>>
    BY <1>2, <1>a DEF ReadStop
  <2>2. 1 \in DOMAIN input[w] /\ Head(input[w]) = input[w][1]
    BY <1>a, <2>1, CommandSeq
  <2>3. ~Unread(w, "connect")
    <3>1. ASSUME NEW i \in DOMAIN input[w], input[w][i].command = "connect" PROVE FALSE
      BY <1>b, <2>1, <2>2, <3>1
    <3> QED
      BY <3>1 DEF Unread
  <2> QED
    BY <1>2, <1>c, <2>1, <2>3 DEF Advance
<1>3. CASE CreateClient(w)
  <2>1. /\ client'[w] = client[w] + 1 /\ receiver[w] = "create" /\ receiver'[w] = "start"
        /\ state' = [state EXCEPT ![<<w, client[w] + 1>>] = "Connecting"]
        /\ client[w] < target[w] /\ UNCHANGED <<input, target, stopped>>
    BY <1>3, <1>a DEF CreateClient
  <2>2. \A i \in 1..client[w] : state'[<<w, i>>] = state[<<w, i>>]
    BY <1>a, <1>b, <2>1
  <2> QED
    BY <1>a, <1>c, <1>d, <2>1, <2>2 DEF Advance
<1>4. CASE ConnectEnds(w)
  BY <1>4, <1>a, <1>c, <1>d DEF ConnectEnds, Advance
<1>5. CASE StartSucceeds(w)
  BY <1>5, <1>a, <1>c, <1>d DEF StartSucceeds, Advance
<1>6. CASE SetConnected(w)
  <2>1. /\ receiver[w] = "started" /\ receiver'[w] = "create" /\ state' = [state EXCEPT ![<<w, client[w]>>] = "Connected"]
        /\ UNCHANGED <<input, target, client, stopped>>
    BY <1>6, <1>a DEF SetConnected
  <2>2. state'[<<w, client[w]>>] = "Connected" /\ \A i \in 1..client[w] : i # client[w] => state'[<<w, i>>] = state[<<w, i>>]
    BY <1>a, <1>b, <2>1
  <2> QED
    BY <1>a, <1>c, <1>d, <2>1, <2>2 DEF Advance
<1>7. CASE StartFails(w)
  <2>1. happened' = [happened EXCEPT !.refused = @ + 1] /\ receiver[w] = "start" /\ UNCHANGED <<input, target, client, stopped>>
    BY <1>7 DEF StartFails
  <2>2. tries[w] < LastTry
    <3>1. happened'.refused = happened.refused + 1 /\ happened.refused \in Nat /\ tries[w] \in 0..LastTry
      <4>1. happened \in Happenings /\ tries[w] \in 0..LastTry
        BY HappenedType DEF TypeInv, TypeOK, WorkerTypeOK
      <4> QED
        BY <2>1, <4>1, NumbersAssumption DEF Happenings
    <3>2. happened'.refused <= LastTry /\ tries[w] <= happened.refused
      BY DEF Undisturbed, TriesInv
    <3> QED
      BY <3>1, <3>2, NumbersAssumption
  <2>3. receiver' = [receiver EXCEPT ![w] = "start"] /\ UNCHANGED state
    BY <1>7, <2>2, NumbersAssumption DEF StartFails
  <2> QED
    BY <1>a, <1>c, <1>d, <2>1, <2>3 DEF Advance
<1> QED
  BY <1>1, <1>2, <1>3, <1>4, <1>5, <1>6, <1>7 DEF ReceiverStep

\* The steps of the receiver of another worker.
LEMMA AdvanceOther ==
  ASSUME TypeInv, NEW v \in Workers, Advance(v), NEW w \in Workers, w # v,
         ReceiverStep(w), UNCHANGED agentVars
  PROVE  Advance(v)'
<1> USE DEF receiverVars, reporterVars, agentVars, Receiver
<1>a. /\ input \in [Workers -> Seq(Commands)]
      /\ client \in [Workers -> Nat] /\ target \in [Workers -> Nat]
      /\ receiver \in [Workers -> {"read", "create", "start", "started"}]
      /\ state \in [Clients -> {"Absent", "Connecting", "Connected", "Disconnected", "Faulted"}]
  BY DEF TypeInv, TypeOK, WorkerTypeOK
<1>1. \A n, i : <<w, n>> # <<v, i>>
  OBVIOUS
<1>2. /\ input'[v] = input[v] /\ target'[v] = target[v] /\ client'[v] = client[v] /\ receiver'[v] = receiver[v]
      /\ stopped \subseteq stopped'
  <2>1. CASE ReadConnect(w) \/ ReadStop(w) \/ CreateClient(w) \/ ConnectEnds(w) \/ StartSucceeds(w) \/ SetConnected(w)
    BY <2>1, <1>a DEF ReadConnect, ReadStop, CreateClient, ConnectEnds, StartSucceeds, SetConnected
  <2>2. CASE StartFails(w)
    BY <2>2, <1>a DEF StartFails
  <2> QED
    BY <2>1, <2>2 DEF ReceiverStep
<1>3. state' = state \/ \E n, s : state' = [state EXCEPT ![<<w, n>>] = s]
  BY Zenon DEF ReceiverStep, ReadConnect, ReadStop, CreateClient, ConnectEnds, StartSucceeds, SetConnected, StartFails
<1>4. \A i \in 1..client[v] : state'[<<v, i>>] = state[<<v, i>>]
  <2> SUFFICES ASSUME NEW i \in 1..client[v] PROVE state'[<<v, i>>] = state[<<v, i>>]
    OBVIOUS
  <2>1. <<v, i>> \in Clients
    <3>1. client[v] \in Nat /\ target[v] \in Nat /\ Share(v) \in Nat /\ client[v] <= target[v] /\ target[v] <= Share(v)
      BY <1>a, ShareType DEF TypeInv, CommandInv, WorkerCommands
    <3> QED
      BY <3>1, ClientsApart
  <2> QED
    BY <1>a, <1>1, <1>3, <2>1
<1>5. v \in exited => v \in stopped /\ v \notin workers
  BY DEF Advance
<1> QED
  BY <1>2, <1>4, <1>5, AdvanceKept DEF Unasked, Told

\* The reports, the end of a worker and its connections: the clients have been told
\* to stop before one is disconnected.
LEMMA AdvanceRest ==
  ASSUME TypeInv, Undisturbed', NEW v \in Workers, Advance(v), Next, NEW w \in Workers,
         \/ Report(w)
         \/ (ReporterStep(w) \/ WorkerFails(w)) /\ UNCHANGED agentVars
         \/ \E c \in ClientsOf(w) : ClientStep(w, c) /\ UNCHANGED agentVars
  PROVE  Advance(v)'
<1> USE DEF receiverVars, reporterVars, agentVars
<1>a. /\ state \in [Clients -> {"Absent", "Connecting", "Connected", "Disconnected", "Faulted"}]
      /\ client[v] \in Nat /\ target[v] \in Nat /\ Share(v) \in Nat /\ client[v] <= target[v] /\ target[v] <= Share(v)
  BY ShareType DEF TypeInv, TypeOK, WorkerTypeOK, CommandInv, WorkerCommands
<1>b. v \in exited => v \in stopped /\ v \notin workers
  BY DEF Advance
<1>c. happened \in Happenings /\ happened.lost \in Nat /\ happened.crashed \in Nat
  BY HappenedSteps DEF TypeInv, TypeOK, WorkerTypeOK, Happenings
<1>1. CASE Report(w) \/ (ReporterStep(w) /\ UNCHANGED agentVars)
  <2>1. UNCHANGED <<input, target, client, receiver, state, stopped, agentVars>>
    BY <1>1, Zenon DEF Report, Send, ReporterStep, Check, Scan, WorkerEnds
  <2> QED
    BY <1>b, <2>1, AdvanceKept DEF Unasked, Told
<1>2. ~WorkerFails(w)
  <2> SUFFICES ASSUME happened' = [happened EXCEPT !.crashed = @ + 1] PROVE FALSE
    BY Zenon DEF WorkerFails
  <2>1. happened'.crashed = happened.crashed + 1
    BY <1>c DEF Happenings
  <2> QED
    BY <1>c, <2>1 DEF Undisturbed
<1>3. ASSUME NEW c \in ClientsOf(w), ClientStep(w, c), UNCHANGED agentVars
      PROVE  Advance(v)'
  <2>1. ~Lose(w, c)
    BY <1>c DEF Lose, Undisturbed, Happenings
  <2>2. StopConnection(w, c)
    BY <1>3, <2>1 DEF ClientStep
  <2>3. /\ w \in stopped /\ UNCHANGED <<input, target, client, receiver, stopped>>
        /\ state' = [state EXCEPT ![c] = "Disconnected"]
    BY <2>2 DEF StopConnection
  <2>4. CASE v = w
    BY <1>3, <2>3, <2>4 DEF Advance, Unread, Unasked, Told
  <2>5. CASE v # w
    <3>1. \A i \in 1..client[v] : <<v, i>> \in Clients /\ <<v, i>> # c
      BY <1>a, <2>5, ClientsApart
    <3>2. \A i \in 1..client[v] : state'[<<v, i>>] = state[<<v, i>>]
      BY <1>a, <2>3, <3>1
    <3> QED
      BY <1>3, <1>b, <2>3, <3>2, AdvanceKept DEF Unasked, Told
  <2> QED
    BY <2>4, <2>5
<1> QED
  BY <1>1, <1>2, <1>3

LEMMA ProgressCorrect == Spec => []ProgressInv
<1>1. Init => ProgressInv
  <2> SUFFICES ASSUME Init PROVE ProgressInv
    OBVIOUS
  <2>1. \A w \in Workers : Unasked(w) /\ ~Told(w) /\ client[w] = 0 /\ target[w] = 0 /\ tries[w] = 0
    BY DEF Init, WorkerInit, Unasked, Told
  <2> QED
    BY <2>1 DEF Init, WorkerInit, ProgressInv, TriesInv, Advance
<1>2. TypeInv /\ LifeInv /\ StopInv /\ ProgressInv /\ [Next]_vars => ProgressInv'
  <2> SUFFICES ASSUME TypeInv, LifeInv, StopInv, ProgressInv, [Next]_vars PROVE ProgressInv'
    OBVIOUS
  <2>1. CASE UNCHANGED vars
    BY <2>1 DEF vars, workerVars, receiverVars, agentVars, ProgressInv, TriesInv, Undisturbed, Advance, Unread, Unasked, Told
  <2>2. CASE Next
    <3>1. TriesInv /\ TriesInv'
      BY <2>2, TriesStep DEF ProgressInv
    <3>2. ASSUME Undisturbed', NEW v \in Workers PROVE Advance(v)'
      <4>1. Undisturbed /\ Advance(v)
        BY <2>2, <3>2, DisturbedStays DEF ProgressInv
      <4>2. CASE Run \/ AgentKilled
        BY <3>2, <4>1, <4>2, AdvanceAgent, AdvanceCommanded DEF Run
      <4>3. ASSUME NEW w \in Workers, Create(w) \/ ReceiveStatus(w) \/ OnExit(w) \/ Leave(w)
            PROVE  Advance(v)'
        BY <3>2, <4>1, <4>3, AdvanceAgent
      <4>4. ASSUME NEW w \in Workers, ReceiverStep(w) /\ UNCHANGED agentVars
            PROVE  Advance(v)'
        BY <3>1, <3>2, <4>1, <4>4, AdvanceReceiver, AdvanceOther
      <4>5. ASSUME NEW w \in Workers,
                   \/ Report(w)
                   \/ (ReporterStep(w) \/ WorkerFails(w)) /\ UNCHANGED agentVars
                   \/ \E c \in ClientsOf(w) : ClientStep(w, c) /\ UNCHANGED agentVars
            PROVE  Advance(v)'
        BY <2>2, <3>2, <4>1, <4>5, AdvanceRest
      <4> QED
        BY <2>2, <4>2, <4>3, <4>4, <4>5 DEF Next
    <3> QED
      BY <3>1, <3>2 DEF ProgressInv
  <2> QED
    BY <2>1, <2>2
<1> QED
  BY <1>1, <1>2, TypeInvCorrect, LifeCorrect, StopCorrect, PTL DEF Spec

\* The two waits of RunAsync without a timeout, for the count of connections and for
\* the table to be empty, are for something that is still to come: no client is left
\* unconnected by a receiver that is done, and no exit has been missed.
THEOREM WaitsSafe == Spec => []WaitsForWork
<1>1. TypeInv /\ LifeInv /\ StopInv /\ ProgressInv => WaitsForWork
  <2> SUFFICES ASSUME TypeInv, LifeInv, StopInv, ProgressInv, Undisturbed PROVE
        /\ runner = "wait" => \A w \in Workers :
             /\ w \in workers /\ Running(w) /\ w \notin stopped
             /\ \A c \in ClientsOf(w) : state[c] = "Connected" \/ Unread(w, "connect") \/ receiver[w] # "read"
        /\ runner = "drain" => \A w \in workers :
             /\ w \notin exited
             /\ w \in stopped \/ (Running(w) /\ Unread(w, "stop"))
    BY DEF WaitsForWork
  <2>1. ASSUME NEW w \in Workers, runner # "create" PROVE w \in stopped \/ (w \in workers /\ Running(w))
    <3>1. process[w] \in {"absent", "running", "exit 0", "exit 1"}
      BY DEF TypeInv, TypeOK, WorkerTypeOK
    <3> QED
      BY <2>1, <3>1, OverStopped DEF LifeInv, Over, Running
  <2>2. ASSUME runner = "wait", NEW w \in Workers
        PROVE  /\ w \in workers /\ Running(w) /\ w \notin stopped
               /\ \A c \in ClientsOf(w) : state[c] = "Connected" \/ Unread(w, "connect") \/ receiver[w] # "read"
    <3>1. w \notin stopped /\ ~Unasked(w)
      BY <2>2, OverStopped DEF Told, Unasked
    <3>2. Advance(w)
      BY DEF ProgressInv
    <3>3. ASSUME NEW c \in ClientsOf(w), ~Unread(w, "connect"), receiver[w] = "read"
          PROVE  state[c] = "Connected"
      <4>1. client[w] = Share(w)
        BY <3>1, <3>2, <3>3 DEF Advance
      <4>2. \E i \in 1..client[w] : c = <<w, i>>
        BY <3>3, <4>1 DEF ClientsOf
      <4> QED
        BY <3>1, <3>2, <3>3, <4>2 DEF Advance
    <3> QED
      BY <2>1, <2>2, <3>1, <3>3
  <2>3. ASSUME runner = "drain", NEW w \in workers
        PROVE  w \notin exited /\ (w \in stopped \/ (Running(w) /\ Unread(w, "stop")))
    <3>1. w \in Workers /\ Told(w)
      BY <2>3 DEF TypeInv, TypeOK, Told
    <3>2. Advance(w)
      BY <3>1 DEF ProgressInv
    <3> QED
      BY <2>1, <2>3, <3>1, <3>2 DEF Advance
  <2> QED
    BY <2>2, <2>3
<1> QED
  BY <1>1, TypeInvCorrect, LifeCorrect, StopCorrect, ProgressCorrect, PTL

=============================================================================
