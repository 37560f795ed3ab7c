-------------------------- MODULE Crankier_proofs --------------------------
(***************************************************************************)
(* What a local run of Crankier keeps, for every number of workers and of  *)
(* connections, and however many starts, connections and processes fail.   *)
(***************************************************************************)
EXTENDS Crankier, FiniteSetTheorems, TLAPS

-----------------------------------------------------------------------------
(***************************************************************************)
(* The shares of the workers                                               *)
(***************************************************************************)

Quotient == NumberOfConnections \div NumberOfWorkers
Rest == NumberOfConnections % NumberOfWorkers

\* Quotient and rest make up the number of connections.
LEMMA Division ==
  /\ Quotient \in Nat /\ Rest \in Nat
  /\ NumberOfConnections = NumberOfWorkers * Quotient + Rest
BY NumbersAssumption DEF Quotient, Rest

\* A share is a number of clients.
LEMMA ShareType == \A w \in Workers : Share(w) \in Nat
BY Division DEF Share, Quotient, Rest, Workers

\* The clients of different workers are different, and all are among Clients.
LEMMA ClientsApart ==
  /\ \A w \in Workers : ClientsOf(w) \subseteq Clients
  /\ \A c \in Clients : \E w \in Workers : c \in ClientsOf(w)
  /\ \A v, w \in Workers : v # w => ClientsOf(v) \cap ClientsOf(w) = {}
  /\ \A w \in Workers : \A i \in 1..Share(w) : <<w, i>> \in ClientsOf(w)
BY DEF Clients, ClientsOf

-----------------------------------------------------------------------------
(***************************************************************************)
(* Types and commands                                                      *)
(***************************************************************************)

\* The connect command has not been sent to w.
Unasked(w) == runner = "create" \/ (runner = "connect" /\ w \in pending)

\* A worker is asked once, for its share, before it is told to stop; so it never
\* creates more clients than that.
WorkerCommands(w) ==
  /\ Unasked(w) => input[w] = << >> /\ client[w] = 0 /\ target[w] = 0 /\ receiver[w] = "read"
  /\ \A i \in DOMAIN input[w] :
       input[w][i].command = "connect" =>
         i = 1 /\ input[w][i].number = Share(w) /\ client[w] = 0 /\ receiver[w] = "read"
  /\ client[w] <= target[w] /\ target[w] <= Share(w)
  /\ receiver[w] \in {"start", "started"} => client[w] >= 1

CommandInv == \A w \in Workers : WorkerCommands(w)

TypeInv == TypeOK /\ CommandInv

\* The initial states.
LEMMA TypeInit == Init => TypeInv
<1> SUFFICES ASSUME Init PROVE TypeInv
  OBVIOUS
<1> USE DEF Init, WorkerInit
<1>1. TypeOK
  BY NumbersAssumption DEF TypeOK, WorkerTypeOK, Commands
<1>2. CommandInv
  BY ShareType DEF CommandInv, WorkerCommands
<1> QED
  BY <1>1, <1>2 DEF TypeInv

\* A sequence of commands with another at its end, and without its first.
LEMMA CommandSeq ==
  ASSUME NEW s \in Seq(Commands), NEW c \in Commands
  PROVE  /\ Append(s, c) \in Seq(Commands)
         /\ DOMAIN Append(s, c) = 1..(Len(s) + 1)
         /\ \A i \in DOMAIN s : Append(s, c)[i] = s[i]
         /\ Append(s, c)[Len(s) + 1] = c
         /\ s # << >> => /\ Tail(s) \in Seq(Commands)
                         /\ 1 \in DOMAIN s /\ Head(s) = s[1]
                         /\ \A i \in DOMAIN Tail(s) : i + 1 \in DOMAIN s /\ i >= 1 /\ Tail(s)[i] = s[i + 1]
OBVIOUS

\* The commands in writing and reading.
LEMMA Commanding ==
  /\ \A n \in Nat : [command |-> "connect", number |-> n] \in Commands
  /\ [command |-> "stop", number |-> 0] \in Commands
BY DEF Commands

\* The commands that are left once the first is taken.
LEMMA CommandTaken ==
  ASSUME TypeInv, NEW w \in Workers, input[w] # << >>, NEW i \in DOMAIN Tail(input[w])
  PROVE  Tail(input[w])[i].command # "connect"
<1>1. input[w] \in Seq(Commands)
  BY DEF TypeInv, TypeOK, WorkerTypeOK
<1>2. i + 1 \in DOMAIN input[w] /\ i >= 1 /\ i \in Nat /\ Tail(input[w])[i] = input[w][i + 1]
  BY <1>1
<1> QED
  BY <1>2 DEF TypeInv, CommandInv, WorkerCommands

\* A step that concerns the commands of one worker only.
LEMMA CommandStep ==
  ASSUME CommandInv, NEW w \in Workers, UNCHANGED <<runner, pending>>, WorkerCommands(w)',
         \A v \in Workers : v # w => /\ input'[v] = input[v] /\ client'[v] = client[v]
                                     /\ target'[v] = target[v] /\ receiver'[v] = receiver[v]
  PROVE  CommandInv'
<1>1. ASSUME NEW v \in Workers, v # w PROVE WorkerCommands(v)'
  <2>1. WorkerCommands(v)
    BY DEF CommandInv
  <2> QED
    BY <1>1, <2>1 DEF WorkerCommands, Unasked
<1> QED
  BY <1>1 DEF CommandInv, WorkerCommands, Unasked

Happenings == [connected : SUBSET Clients, overtaken : SUBSET Clients,
               refused : 0..MaxRefused, lost : 0..MaxLost, crashed : 0..MaxCrashes]

\* The history counts up to its bounds.
LEMMA HappenedType ==
  ASSUME TypeInv
  PROVE  /\ happened \in Happenings
         /\ happened.refused < MaxRefused => [happened EXCEPT !.refused = @ + 1] \in Happenings
         /\ happened.lost < MaxLost => [happened EXCEPT !.lost = @ + 1] \in Happenings
         /\ happened.crashed < MaxCrashes => [happened EXCEPT !.crashed = @ + 1] \in Happenings
<1>1. happened \in Happenings
  BY DEF TypeInv, TypeOK, WorkerTypeOK, Happenings
<1>2. /\ happened.refused \in Nat /\ happened.lost \in Nat /\ happened.crashed \in Nat
      /\ happened.connected \subseteq Clients /\ happened.overtaken \subseteq Clients
      /\ happened.refused \in 0..MaxRefused /\ happened.lost \in 0..MaxLost /\ happened.crashed \in 0..MaxCrashes
  BY <1>1, NumbersAssumption DEF Happenings
<1>3. happened.refused < MaxRefused => happened.refused + 1 \in 0..MaxRefused
  BY <1>2, NumbersAssumption
<1>4. happened.lost < MaxLost => happened.lost + 1 \in 0..MaxLost
  BY <1>2, NumbersAssumption
<1>5. happened.crashed < MaxCrashes => happened.crashed + 1 \in 0..MaxCrashes
  BY <1>2, NumbersAssumption
<1> QED
  BY <1>1, <1>3, <1>4, <1>5 DEF Happenings

\* A step of a worker process.
LEMMA TypeWorker ==
  ASSUME TypeInv, NEW w \in Workers, UNCHANGED agentVars,
         ReceiverStep(w) \/ ReporterStep(w) \/ WorkerFails(w) \/ Send(w)
  PROVE  TypeInv'
<1> USE DEF agentVars
<1>a. client[w] \in Nat /\ target[w] \in Nat /\ tries[w] \in 0..LastTry /\ Share(w) \in Nat
  BY ShareType DEF TypeInv, TypeOK, WorkerTypeOK
<1>b. client[w] <= target[w] /\ target[w] <= Share(w) /\ (receiver[w] \in {"start", "started"} => client[w] >= 1)
  BY DEF TypeInv, CommandInv, WorkerCommands
<1>c. receiver[w] \in {"start", "started"} => <<w, client[w]>> \in Clients
  <2>1. receiver[w] \in {"start", "started"} => client[w] \in 1..Share(w)
    BY <1>a, <1>b
  <2> QED
    BY <2>1, ClientsApart
<1>d. input[w] \in Seq(Commands)
  BY DEF TypeInv, TypeOK, WorkerTypeOK
<1>e. /\ client \in [Workers -> Nat] /\ client[w] + 1 \in Nat
      /\ tries \in [Workers -> 0..LastTry] /\ 0 \in 0..LastTry
      /\ tries[w] < LastTry => tries[w] + 1 \in 0..LastTry
  <2>1. client \in [Workers -> Nat] /\ tries \in [Workers -> 0..LastTry]
    BY Zenon DEF TypeInv, TypeOK, WorkerTypeOK
  <2> QED
    BY <1>a, <2>1, NumbersAssumption
<1>g. receiver \in [Workers -> {"read", "create", "start", "started"}]
  BY DEF TypeInv, TypeOK, WorkerTypeOK
<1>f. process \in [Workers -> {"absent", "running", "exit 0", "exit 1"}]
  BY DEF TypeInv, TypeOK, WorkerTypeOK
<1>1. CASE ReadConnect(w)
  <2>1. 1 \in DOMAIN input[w] /\ Head(input[w]) = input[w][1] /\ Tail(input[w]) \in Seq(Commands)
    BY <1>1, <1>d, CommandSeq DEF ReadConnect
  <2>2. Head(input[w]).number = Share(w) /\ client[w] = 0 /\ ~Unasked(w)
    BY <1>1, <2>1 DEF ReadConnect, TypeInv, CommandInv, WorkerCommands
  <2>3. /\ receiver' \in [Workers -> {"read", "create", "start", "started"}]
        /\ input' \in [Workers -> Seq(Commands)]
        /\ target' \in [Workers -> Nat]
    <3>1. client[w] + Head(input[w]).number \in Nat
      BY <1>a, <2>2
    <3> QED
      BY <1>1, <2>1, <3>1 DEF ReadConnect, Receiver, TypeInv, TypeOK, WorkerTypeOK
  <2>4. TypeOK'
    BY <1>1, <2>3, Zenon DEF ReadConnect, Receiver, reporterVars, TypeInv, TypeOK, WorkerTypeOK, Over
  <2>5. /\ input'[w] = Tail(input[w]) /\ client'[w] = client[w]
        /\ target'[w] = client[w] + Head(input[w]).number
        /\ receiver'[w] = "create"
        /\ \A v \in Workers : v # w => /\ input'[v] = input[v] /\ client'[v] = client[v]
                                     /\ target'[v] = target[v] /\ receiver'[v] = receiver[v]
    BY <1>1 DEF ReadConnect, Receiver, TypeInv, TypeOK, WorkerTypeOK
  <2>6. \A i \in DOMAIN input'[w] : input'[w][i].command # "connect"
    <3>1. \A i \in DOMAIN Tail(input[w]) : Tail(input[w])[i].command # "connect"
      BY <1>1, CommandTaken DEF ReadConnect
    <3> QED
      BY <2>5, <3>1
  <2>7. WorkerCommands(w)'
    BY <1>a, <1>b, <2>2, <2>5, <2>6 DEF WorkerCommands, Unasked
  <2>8. CommandInv'
    BY <1>1, <2>5, <2>7, CommandStep DEF ReadConnect, TypeInv
  <2> QED
    BY <2>4, <2>8 DEF TypeInv
<1>2. CASE ReadStop(w)
  <2>1. 1 \in DOMAIN input[w] /\ Head(input[w]) = input[w][1] /\ Tail(input[w]) \in Seq(Commands)
    BY <1>2, <1>d, CommandSeq DEF ReadStop
  <2>2. ~Unasked(w)
    BY <1>2 DEF ReadStop, TypeInv, CommandInv, WorkerCommands
  <2>3. /\ receiver' \in [Workers -> {"read", "create", "start", "started"}]
        /\ input' \in [Workers -> Seq(Commands)]
        /\ stopped' \in SUBSET Workers
    <3>1. TRUE
      BY <1>a, <2>2
    <3> QED
      BY <1>2, <2>1, <3>1 DEF ReadStop, Receiver, TypeInv, TypeOK, WorkerTypeOK
  <2>4. TypeOK'
    BY <1>2, <2>3, Zenon DEF ReadStop, Receiver, reporterVars, TypeInv, TypeOK, WorkerTypeOK, Over
  <2>5. /\ input'[w] = Tail(input[w]) /\ client'[w] = client[w]
        /\ target'[w] = target[w]
        /\ receiver'[w] = "read"
        /\ \A v \in Workers : v # w => /\ input'[v] = input[v] /\ client'[v] = client[v]
                                     /\ target'[v] = target[v] /\ receiver'[v] = receiver[v]
    BY <1>2 DEF ReadStop, Receiver, TypeInv, TypeOK, WorkerTypeOK
  <2>6. \A i \in DOMAIN input'[w] : input'[w][i].command # "connect"
    <3>1. \A i \in DOMAIN Tail(input[w]) : Tail(input[w])[i].command # "connect"
      BY <1>2, CommandTaken DEF ReadStop
    <3> QED
      BY <2>5, <3>1
  <2>7. WorkerCommands(w)'
    BY <1>a, <1>b, <2>2, <2>5, <2>6 DEF WorkerCommands, Unasked
  <2>8. CommandInv'
    BY <1>2, <2>5, <2>7, CommandStep DEF ReadStop, TypeInv
  <2> QED
    BY <2>4, <2>8 DEF TypeInv
<1>3. CASE Send(w)
  <2>1. Append(output[w], counted[w]) \in Seq(SUBSET ClientsOf(w))
    <3>1. output[w] \in Seq(SUBSET ClientsOf(w)) /\ counted[w] \in SUBSET ClientsOf(w)
      BY DEF TypeInv, TypeOK, WorkerTypeOK
    <3> QED
      BY <3>1
  <2>2. /\ reporter' \in [Workers -> {"check", "scan", "send"}]
        /\ DOMAIN output' = Workers /\ \A v \in Workers : output'[v] \in Seq(SUBSET ClientsOf(v))
    BY <1>3, <2>1 DEF Send, Reporter, TypeInv, TypeOK, WorkerTypeOK
  <2>3. TypeOK'
    BY <1>3, <2>2, Zenon DEF Send, receiverVars, TypeInv, TypeOK, WorkerTypeOK, Over
  <2>4. CommandInv'
    BY <1>3, Zenon DEF Send, receiverVars, TypeInv, CommandInv, WorkerCommands, Unasked
  <2> QED
    BY <2>3, <2>4 DEF TypeInv
<1>4. CASE CreateClient(w)
  <2>1. /\ receiver' \in [Workers -> {"read", "create", "start", "started"}]
        /\ client' \in [Workers -> Nat]
        /\ tries' \in [Workers -> 0..LastTry]
        /\ state' \in [Clients -> {"Absent", "Connecting", "Connected", "Disconnected", "Faulted"}]
    <3>1. receiver' \in [Workers -> {"read", "create", "start", "started"}]
      BY <1>4, <1>g DEF CreateClient, Receiver
    <3>2. client' \in [Workers -> Nat]
      BY <1>4, <1>e, Zenon DEF CreateClient
    <3>3. tries' \in [Workers -> 0..LastTry]
      BY <1>4, <1>e, Zenon DEF CreateClient
    <3>4. state' \in [Clients -> {"Absent", "Connecting", "Connected", "Disconnected", "Faulted"}]
      BY <1>4, <1>c DEF CreateClient, TypeInv, TypeOK, WorkerTypeOK
    <3> QED
      BY <3>1, <3>2, <3>3, <3>4
  <2>2. TypeOK'
    BY <1>4, <2>1, Zenon DEF CreateClient, Receiver, Reporter, Exit, receiverVars, reporterVars, TypeInv, TypeOK, WorkerTypeOK, Over, Happenings
  <2>3. CommandInv'
    <3>1. /\ receiver[w] = "create" /\ input'[w] = input[w] /\ target'[w] = target[w]
          /\ receiver'[w] = "start" /\ client[w] < target[w] /\ client'[w] = client[w] + 1
          /\ \A v \in Workers : v # w => /\ input'[v] = input[v] /\ client'[v] = client[v]
                                       /\ target'[v] = target[v] /\ receiver'[v] = receiver[v]
      BY <1>4 DEF CreateClient, Receiver, TypeInv, TypeOK, WorkerTypeOK
    <3>2. WorkerCommands(w)
      BY DEF TypeInv, CommandInv
    <3>3. WorkerCommands(w)'
      BY <1>a, <1>b, <3>1, <3>2 DEF WorkerCommands, Unasked
    <3> QED
      BY <1>4, <3>1, <3>3, CommandStep DEF CreateClient, TypeInv
  <2> QED
    BY <2>2, <2>3 DEF TypeInv
<1>5. CASE ConnectEnds(w)
  <2>1. /\ receiver' \in [Workers -> {"read", "create", "start", "started"}]
    <3>1. receiver' \in [Workers -> {"read", "create", "start", "started"}]
      BY <1>5, <1>g DEF ConnectEnds, Receiver
    <3> QED
      BY <3>1
  <2>2. TypeOK'
    BY <1>5, <2>1, Zenon DEF ConnectEnds, Receiver, Reporter, Exit, receiverVars, reporterVars, TypeInv, TypeOK, WorkerTypeOK, Over, Happenings
  <2>3. CommandInv'
    <3>1. /\ receiver[w] = "create" /\ input'[w] = input[w] /\ target'[w] = target[w]
          /\ receiver'[w] = "read" /\ client'[w] = client[w]
          /\ \A v \in Workers : v # w => /\ input'[v] = input[v] /\ client'[v] = client[v]
                                       /\ target'[v] = target[v] /\ receiver'[v] = receiver[v]
      BY <1>5 DEF ConnectEnds, Receiver, TypeInv, TypeOK, WorkerTypeOK
    <3>2. WorkerCommands(w)
      BY DEF TypeInv, CommandInv
    <3>3. WorkerCommands(w)'
      BY <1>a, <1>b, <3>1, <3>2 DEF WorkerCommands, Unasked
    <3> QED
      BY <1>5, <3>1, <3>3, CommandStep DEF ConnectEnds, TypeInv
  <2> QED
    BY <2>2, <2>3 DEF TypeInv
<1>6. CASE StartSucceeds(w)
  <2>1. /\ receiver' \in [Workers -> {"read", "create", "start", "started"}]
        /\ open' \in SUBSET Clients
    <3>1. receiver' \in [Workers -> {"read", "create", "start", "started"}]
      BY <1>6, <1>g DEF StartSucceeds, Receiver
    <3>2. open' \in SUBSET Clients
      BY <1>6, <1>c DEF StartSucceeds, Receiver, TypeInv, TypeOK, WorkerTypeOK
    <3> QED
      BY <3>1, <3>2
  <2>2. TypeOK'
    BY <1>6, <2>1, Zenon DEF StartSucceeds, Receiver, Reporter, Exit, receiverVars, reporterVars, TypeInv, TypeOK, WorkerTypeOK, Over, Happenings
  <2>3. CommandInv'
    <3>1. /\ receiver[w] = "start" /\ input'[w] = input[w] /\ target'[w] = target[w]
          /\ receiver'[w] = "started" /\ client'[w] = client[w]
          /\ \A v \in Workers : v # w => /\ input'[v] = input[v] /\ client'[v] = client[v]
                                       /\ target'[v] = target[v] /\ receiver'[v] = receiver[v]
      BY <1>6 DEF StartSucceeds, Receiver, TypeInv, TypeOK, WorkerTypeOK
    <3>2. WorkerCommands(w)
      BY DEF TypeInv, CommandInv
    <3>3. WorkerCommands(w)'
      BY <1>a, <1>b, <3>1, <3>2 DEF WorkerCommands, Unasked
    <3> QED
      BY <1>6, <3>1, <3>3, CommandStep DEF StartSucceeds, TypeInv
  <2> QED
    BY <2>2, <2>3 DEF TypeInv
<1>7. CASE SetConnected(w)
  <2>1. /\ receiver' \in [Workers -> {"read", "create", "start", "started"}]
        /\ state' \in [Clients -> {"Absent", "Connecting", "Connected", "Disconnected", "Faulted"}]
        /\ happened' \in Happenings
    <3>1. receiver' \in [Workers -> {"read", "create", "start", "started"}]
      BY <1>7, <1>g DEF SetConnected, Receiver
    <3>2. state' \in [Clients -> {"Absent", "Connecting", "Connected", "Disconnected", "Faulted"}]
      BY <1>7, <1>c DEF SetConnected, Receiver, TypeInv, TypeOK, WorkerTypeOK
    <3>3. happened' \in Happenings
      BY <1>7, <1>c, HappenedType DEF SetConnected, Receiver, TypeInv, TypeOK, WorkerTypeOK, Happenings
    <3> QED
      BY <3>1, <3>2, <3>3
  <2>2. TypeOK'
    BY <1>7, <2>1, Zenon DEF SetConnected, Receiver, Reporter, Exit, receiverVars, reporterVars, TypeInv, TypeOK, WorkerTypeOK, Over, Happenings
  <2>3. CommandInv'
    <3>1. /\ receiver[w] = "started" /\ input'[w] = input[w] /\ target'[w] = target[w]
          /\ receiver'[w] = "create" /\ client'[w] = client[w]
          /\ \A v \in Workers : v # w => /\ input'[v] = input[v] /\ client'[v] = client[v]
                                       /\ target'[v] = target[v] /\ receiver'[v] = receiver[v]
      BY <1>7 DEF SetConnected, Receiver, TypeInv, TypeOK, WorkerTypeOK
    <3>2. WorkerCommands(w)
      BY DEF TypeInv, CommandInv
    <3>3. WorkerCommands(w)'
      BY <1>a, <1>b, <3>1, <3>2 DEF WorkerCommands, Unasked
    <3> QED
      BY <1>7, <3>1, <3>3, CommandStep DEF SetConnected, TypeInv
  <2> QED
    BY <2>2, <2>3 DEF TypeInv
<1>8. CASE StartFails(w)
  <2>1. /\ receiver' \in [Workers -> {"read", "create", "start", "started"}]
        /\ tries' \in [Workers -> 0..LastTry]
        /\ state' \in [Clients -> {"Absent", "Connecting", "Connected", "Disconnected", "Faulted"}]
        /\ happened' \in Happenings
    <3>1. receiver' \in [Workers -> {"read", "create", "start", "started"}]
      BY <1>8, <1>g DEF StartFails, Receiver
    <3>2. tries' \in [Workers -> 0..LastTry]
      BY <1>8, <1>e, Zenon DEF StartFails, Receiver
    <3>3. state' \in [Clients -> {"Absent", "Connecting", "Connected", "Disconnected", "Faulted"}]
      BY <1>8, <1>c DEF StartFails, Receiver, TypeInv, TypeOK, WorkerTypeOK
    <3>4. happened' \in Happenings
      BY <1>8, <1>c, HappenedType DEF StartFails, Receiver, TypeInv, TypeOK, WorkerTypeOK, Happenings
    <3> QED
      BY <3>1, <3>2, <3>3, <3>4
  <2>2. TypeOK'
    BY <1>8, <2>1, Zenon DEF StartFails, Receiver, Reporter, Exit, receiverVars, reporterVars, TypeInv, TypeOK, WorkerTypeOK, Over, Happenings
  <2>3. CommandInv'
    <3>1. /\ receiver[w] = "start" /\ input'[w] = input[w] /\ target'[w] = target[w]
          /\ receiver'[w] \in {"start", "read"} /\ client'[w] = client[w]
          /\ \A v \in Workers : v # w => /\ input'[v] = input[v] /\ client'[v] = client[v]
                                       /\ target'[v] = target[v] /\ receiver'[v] = receiver[v]
      BY <1>8 DEF StartFails, Receiver, TypeInv, TypeOK, WorkerTypeOK
    <3>2. WorkerCommands(w)
      BY DEF TypeInv, CommandInv
    <3>3. WorkerCommands(w)'
      BY <1>a, <1>b, <3>1, <3>2 DEF WorkerCommands, Unasked
    <3> QED
      BY <1>8, <3>1, <3>3, CommandStep DEF StartFails, TypeInv
  <2> QED
    BY <2>2, <2>3 DEF TypeInv
<1>9. CASE Check(w)
  <2>1. /\ reporter' \in [Workers -> {"check", "scan", "send"}]
    <3>1. reporter' \in [Workers -> {"check", "scan", "send"}]
      BY <1>9 DEF Check, Reporter, TypeInv, TypeOK, WorkerTypeOK
    <3> QED
      BY <3>1
  <2>2. TypeOK'
    BY <1>9, <2>1, Zenon DEF Check, Receiver, Reporter, Exit, receiverVars, reporterVars, TypeInv, TypeOK, WorkerTypeOK, Over, Happenings
  <2>3. CommandInv'
    BY <1>9, Zenon DEF Check, receiverVars, TypeInv, CommandInv, WorkerCommands, Unasked
  <2> QED
    BY <2>2, <2>3 DEF TypeInv
<1>10. CASE Scan(w)
  <2>1. /\ reporter' \in [Workers -> {"check", "scan", "send"}]
        /\ DOMAIN counted' = Workers /\ \A v \in Workers : counted'[v] \subseteq ClientsOf(v)
    <3>1. reporter' \in [Workers -> {"check", "scan", "send"}]
      BY <1>10 DEF Scan, Reporter, TypeInv, TypeOK, WorkerTypeOK
    <3>2. DOMAIN counted' = Workers /\ \A v \in Workers : counted'[v] \subseteq ClientsOf(v)
      BY <1>10 DEF Scan, Reporter, TypeInv, TypeOK, WorkerTypeOK
    <3> QED
      BY <3>1, <3>2
  <2>2. TypeOK'
    BY <1>10, <2>1, Zenon DEF Scan, Receiver, Reporter, Exit, receiverVars, reporterVars, TypeInv, TypeOK, WorkerTypeOK, Over, Happenings
  <2>3. CommandInv'
    BY <1>10, Zenon DEF Scan, receiverVars, TypeInv, CommandInv, WorkerCommands, Unasked
  <2> QED
    BY <2>2, <2>3 DEF TypeInv
<1>11. CASE WorkerEnds(w)
  <2>1. /\ process' \in [Workers -> {"absent", "running", "exit 0", "exit 1"}]
        /\ open' \in SUBSET Clients
    <3>1. process' \in [Workers -> {"absent", "running", "exit 0", "exit 1"}]
      BY <1>11, <1>f, Zenon DEF WorkerEnds, Exit, Running
    <3>2. open' \in SUBSET Clients
      BY <1>11, <1>c DEF WorkerEnds, Exit, Running, TypeInv, TypeOK, WorkerTypeOK
    <3> QED
      BY <3>1, <3>2
  <2>2. TypeOK'
    BY <1>11, <2>1, Zenon DEF WorkerEnds, Receiver, Reporter, Exit, receiverVars, reporterVars, TypeInv, TypeOK, WorkerTypeOK, Over, Happenings
  <2>3. CommandInv'
    BY <1>11, Zenon DEF WorkerEnds, receiverVars, TypeInv, CommandInv, WorkerCommands, Unasked
  <2> QED
    BY <2>2, <2>3 DEF TypeInv
<1>12. CASE WorkerFails(w)
  <2>1. /\ process' \in [Workers -> {"absent", "running", "exit 0", "exit 1"}]
        /\ open' \in SUBSET Clients
        /\ happened' \in Happenings
    <3>1. process' \in [Workers -> {"absent", "running", "exit 0", "exit 1"}]
      BY <1>12, <1>f, Zenon DEF WorkerFails, Exit, Running
    <3>2. open' \in SUBSET Clients
      BY <1>12, <1>c DEF WorkerFails, Exit, Running, TypeInv, TypeOK, WorkerTypeOK
    <3>3. happened' \in Happenings
      BY <1>12, <1>c, HappenedType DEF WorkerFails, TypeInv, TypeOK, WorkerTypeOK, Happenings
    <3> QED
      BY <3>1, <3>2, <3>3
  <2>2. TypeOK'
    BY <1>12, <2>1, Zenon DEF WorkerFails, Receiver, Reporter, Exit, receiverVars, reporterVars, TypeInv, TypeOK, WorkerTypeOK, Over, Happenings
  <2>3. CommandInv'
    BY <1>12, Zenon DEF WorkerFails, receiverVars, TypeInv, CommandInv, WorkerCommands, Unasked
  <2> QED
    BY <2>2, <2>3 DEF TypeInv
<1> QED
  BY <1>1, <1>2, <1>3, <1>4, <1>5, <1>6, <1>7, <1>8, <1>9, <1>10, <1>11, <1>12 DEF ReceiverStep, ReporterStep

\* A step of a client.
LEMMA TypeClient ==
  ASSUME TypeInv, NEW w \in Workers, NEW c \in ClientsOf(w), ClientStep(w, c), UNCHANGED agentVars
  PROVE  TypeInv'
<1>1. /\ open' \in SUBSET Clients
      /\ state' \in [Clients -> {"Absent", "Connecting", "Connected", "Disconnected", "Faulted"}]
  <2>1. /\ open \in SUBSET Clients
        /\ state \in [Clients -> {"Absent", "Connecting", "Connected", "Disconnected", "Faulted"}]
    BY DEF TypeInv, TypeOK, WorkerTypeOK
  <2>2. open' = open \ {c} /\ \E s \in {"Disconnected", "Faulted"} : state' = [state EXCEPT ![c] = s]
    BY Zenon DEF ClientStep, Lose, StopConnection
  <2> QED
    BY <2>1, <2>2
<1>2. happened' \in Happenings
  BY HappenedType DEF ClientStep, Lose, StopConnection
<1>3. UNCHANGED <<process, input, output, receiver, target, client, tries, stopped, reporter, counted,
                 agent, runner, creator, workers, status, pending, exited>>
  BY Zenon DEF ClientStep, Lose, StopConnection, receiverVars, reporterVars, agentVars
<1>4. TypeOK'
  BY <1>1, <1>2, <1>3, Zenon DEF TypeInv, TypeOK, WorkerTypeOK, Over, Happenings
<1>5. CommandInv'
  BY <1>3, Zenon DEF TypeInv, CommandInv, WorkerCommands, Unasked
<1> QED
  BY <1>4, <1>5 DEF TypeInv

\* The rest and the first of a sequence.
LEMMA TailType ==
  ASSUME NEW S, NEW s \in Seq(S), s # << >>
  PROVE  Tail(s) \in Seq(S) /\ Head(s) \in S
OBVIOUS

\* A step of the agent.
LEMMA TypeAgent ==
  ASSUME TypeInv,
         \/ Run \/ AgentKilled
         \/ \E w \in Workers : Create(w) \/ ReceiveStatus(w) \/ OnExit(w) \/ Leave(w)
  PROVE  TypeInv'
<1> USE DEF insideVars, receiverVars, reporterVars, agentVars
<1>a. input \in [Workers -> Seq(Commands)] /\ \A w \in Workers : Share(w) \in Nat
  BY ShareType DEF TypeInv, TypeOK, WorkerTypeOK
<1>b. process \in [Workers -> {"absent", "running", "exit 0", "exit 1"}]
  BY DEF TypeInv, TypeOK, WorkerTypeOK
<1>c. \A w \in Workers : /\ output[w] \in Seq(SUBSET ClientsOf(w)) /\ DOMAIN output = Workers
                         /\ status[w] \in SUBSET ClientsOf(w) /\ DOMAIN status = Workers
  BY DEF TypeInv, TypeOK, WorkerTypeOK
<1>1. ASSUME NEW w \in Workers, StartProcess(w) PROVE TypeInv'
  <2>1. /\ creator' \in [Workers -> {"start", "started", "subscribed", "added"}]
        /\ process' \in [Workers -> {"absent", "running", "exit 0", "exit 1"}]
    <3>1. creator' \in [Workers -> {"start", "started", "subscribed", "added"}]
      BY <1>1 DEF StartProcess, Creator, TypeInv, TypeOK
    <3>2. process' \in [Workers -> {"absent", "running", "exit 0", "exit 1"}]
      BY <1>1, <1>b, Zenon DEF StartProcess, Exit
    <3> QED
      BY <3>1, <3>2
  <2>2. TypeOK'
    BY <1>1, <2>1, Zenon DEF StartProcess, Creator, workerVars, TypeInv, TypeOK, WorkerTypeOK, Over
  <2>3. CommandInv'
    BY <1>1, Zenon DEF StartProcess, Creator, workerVars, TypeInv, CommandInv, WorkerCommands, Unasked
  <2> QED
    BY <2>2, <2>3 DEF TypeInv
<1>2. ASSUME NEW w \in Workers, Subscribe(w) PROVE TypeInv'
  <2>1. creator' \in [Workers -> {"start", "started", "subscribed", "added"}]
    BY <1>2 DEF Subscribe, Creator, TypeInv, TypeOK
  <2>2. TypeOK'
    BY <1>2, <2>1, Zenon DEF Subscribe, Creator, workerVars, TypeInv, TypeOK, WorkerTypeOK, Over
  <2>3. CommandInv'
    BY <1>2, Zenon DEF Subscribe, Creator, workerVars, TypeInv, CommandInv, WorkerCommands, Unasked
  <2> QED
    BY <2>2, <2>3 DEF TypeInv
<1>3. ASSUME NEW w \in Workers, AddWorker(w) PROVE TypeInv'
  <2>1. /\ creator' \in [Workers -> {"start", "started", "subscribed", "added"}]
        /\ workers' \in SUBSET Workers
    <3>1. creator' \in [Workers -> {"start", "started", "subscribed", "added"}]
      BY <1>3 DEF AddWorker, Creator, TypeInv, TypeOK
    <3>2. workers' \in SUBSET Workers
      BY <1>3 DEF AddWorker, Creator, TypeInv, TypeOK
    <3> QED
      BY <3>1, <3>2
  <2>2. TypeOK'
    BY <1>3, <2>1, Zenon DEF AddWorker, Creator, workerVars, TypeInv, TypeOK, WorkerTypeOK, Over
  <2>3. CommandInv'
    BY <1>3, Zenon DEF AddWorker, Creator, workerVars, TypeInv, CommandInv, WorkerCommands, Unasked
  <2> QED
    BY <2>2, <2>3 DEF TypeInv
<1>4. CASE AllCreated
  <2>1. /\ runner' \in {"create", "connect", "wait", "hold", "stop", "drain", "done"}
        /\ pending' \in SUBSET Workers
    <3>1. runner' \in {"create", "connect", "wait", "hold", "stop", "drain", "done"}
      BY <1>4 DEF AllCreated, TypeInv, TypeOK
    <3>2. pending' \in SUBSET Workers
      BY <1>4 DEF AllCreated, TypeInv, TypeOK
    <3> QED
      BY <3>1, <3>2
  <2>2. TypeOK'
    BY <1>4, <2>1, Zenon DEF AllCreated, workerVars, TypeInv, TypeOK, WorkerTypeOK, Over
  <2>3. CommandInv'
    BY <1>4, Zenon DEF AllCreated, workerVars, TypeInv, CommandInv, WorkerCommands, Unasked
  <2> QED
    BY <2>2, <2>3 DEF TypeInv
<1>5. ASSUME NEW w \in Workers, RunWorker(w) PROVE TypeInv'
  <2>a. Append(input[w], [command |-> "connect", number |-> Share(w)]) \in Seq(Commands)
    BY <1>a, CommandSeq, Commanding
  <2>b. \/ input' = input
        \/ input' = [input EXCEPT ![w] = Append(input[w], [command |-> "connect", number |-> Share(w)])]
    BY <1>5, Zenon DEF RunWorker, Write
  <2>1. /\ input' \in [Workers -> Seq(Commands)]
        /\ pending' \in SUBSET Workers
        /\ runner' \in {"create", "connect", "wait", "hold", "stop", "drain", "done"}
    <3>1. input' \in [Workers -> Seq(Commands)]
      BY <1>a, <2>a, <2>b
    <3>2. pending' \in SUBSET Workers
      BY <1>5 DEF RunWorker, TypeInv, TypeOK
    <3>3. runner' \in {"create", "connect", "wait", "hold", "stop", "drain", "done"}
      BY <1>5 DEF RunWorker, TypeInv, TypeOK
    <3> QED
      BY <3>1, <3>2, <3>3
  <2>2. TypeOK'
    BY <1>5, <2>1, Zenon DEF RunWorker, workerVars, TypeInv, TypeOK, WorkerTypeOK, Over
  <2>3. CommandInv'
    <3>1. UNCHANGED <<client, target, receiver>>
      BY <1>5, Zenon DEF RunWorker
    <3>2. \A v \in Workers : WorkerCommands(v)
      BY Zenon DEF TypeInv, CommandInv
    <3>3. ASSUME NEW v \in Workers, v # w PROVE input'[v] = input[v] /\ (Unasked(v)' => Unasked(v))
      BY <1>5, <3>3, <1>a, <2>b DEF RunWorker, Unasked
    <3>4. ~Unasked(w)'
      BY <1>5 DEF RunWorker, Unasked
    <3>5. \A i \in DOMAIN input'[w] :
            input'[w][i].command = "connect" =>
              i = 1 /\ input'[w][i].number = Share(w) /\ client[w] = 0 /\ receiver[w] = "read"
      <4>1. input[w] = << >> /\ client[w] = 0 /\ receiver[w] = "read"
        BY <1>5, <3>2 DEF RunWorker, WorkerCommands, Unasked
      <4>2. CASE input' = input
        BY <4>1, <4>2
      <4>3. CASE input' = [input EXCEPT ![w] = Append(input[w], [command |-> "connect", number |-> Share(w)])]
        <5>1. input'[w] = << [command |-> "connect", number |-> Share(w)] >>
          BY <1>a, <4>1, <4>3
        <5> QED
          BY <4>1, <5>1
      <4> QED
        BY <2>b, <4>2, <4>3
    <3> QED
      BY <3>1, <3>2, <3>3, <3>4, <3>5 DEF CommandInv, WorkerCommands, Unasked
  <2> QED
    BY <2>2, <2>3 DEF TypeInv
<1>6. ASSUME NEW w \in Workers, ReceiveStatus(w) PROVE TypeInv'
  <2>a. Tail(output[w]) \in Seq(SUBSET ClientsOf(w)) /\ Head(output[w]) \in SUBSET ClientsOf(w)
    BY <1>6, <1>c, TailType DEF ReceiveStatus, UpdateStatus
  <2>1. /\ DOMAIN output' = Workers /\ \A v \in Workers : output'[v] \in Seq(SUBSET ClientsOf(v))
        /\ DOMAIN status' = Workers /\ \A v \in Workers : status'[v] \subseteq ClientsOf(v)
    <3>1. DOMAIN output' = Workers /\ \A v \in Workers : output'[v] \in Seq(SUBSET ClientsOf(v))
      BY <1>6, <1>c, <2>a DEF ReceiveStatus, UpdateStatus
    <3>2. DOMAIN status' = Workers /\ \A v \in Workers : status'[v] \subseteq ClientsOf(v)
      BY <1>6, <1>c, <2>a DEF ReceiveStatus, UpdateStatus
    <3> QED
      BY <3>1, <3>2
  <2>2. TypeOK'
    BY <1>6, <2>1, Zenon DEF ReceiveStatus, UpdateStatus, workerVars, TypeInv, TypeOK, WorkerTypeOK, Over
  <2>3. CommandInv'
    BY <1>6, Zenon DEF ReceiveStatus, UpdateStatus, workerVars, TypeInv, CommandInv, WorkerCommands, Unasked
  <2> QED
    BY <2>2, <2>3 DEF TypeInv
<1>7. CASE AllConnected
  <2>1. runner' \in {"create", "connect", "wait", "hold", "stop", "drain", "done"}
    BY <1>7 DEF AllConnected, TypeInv, TypeOK
  <2>2. TypeOK'
    BY <1>7, <2>1, Zenon DEF AllConnected, workerVars, TypeInv, TypeOK, WorkerTypeOK, Over
  <2>3. CommandInv'
    BY <1>7, Zenon DEF AllConnected, workerVars, TypeInv, CommandInv, WorkerCommands, Unasked
  <2> QED
    BY <2>2, <2>3 DEF TypeInv
<1>8. CASE BeginStop
  <2>1. /\ runner' \in {"create", "connect", "wait", "hold", "stop", "drain", "done"}
        /\ pending' \in SUBSET Workers
    <3>1. runner' \in {"create", "connect", "wait", "hold", "stop", "drain", "done"}
      BY <1>8 DEF BeginStop, TypeInv, TypeOK
    <3>2. pending' \in SUBSET Workers
      BY <1>8 DEF BeginStop, TypeInv, TypeOK
    <3> QED
      BY <3>1, <3>2
  <2>2. TypeOK'
    BY <1>8, <2>1, Zenon DEF BeginStop, workerVars, TypeInv, TypeOK, WorkerTypeOK, Over
  <2>3. CommandInv'
    BY <1>8, Zenon DEF BeginStop, workerVars, TypeInv, CommandInv, WorkerCommands, Unasked
  <2> QED
    BY <2>2, <2>3 DEF TypeInv
<1>9. ASSUME NEW w \in Workers, StopWorker(w) PROVE TypeInv'
  <2>a. Append(input[w], [command |-> "stop", number |-> 0]) \in Seq(Commands)
    BY <1>a, CommandSeq, Commanding
  <2>b. \/ input' = input
        \/ input' = [input EXCEPT ![w] = Append(input[w], [command |-> "stop", number |-> 0])]
    BY <1>9, Zenon DEF StopWorker, Write
  <2>1. /\ input' \in [Workers -> Seq(Commands)]
        /\ pending' \in SUBSET Workers
        /\ agent' \in {"running", "finished", "failed", "killed"}
    <3>1. input' \in [Workers -> Seq(Commands)]
      BY <1>a, <2>a, <2>b
    <3>2. pending' \in SUBSET Workers
      BY <1>9 DEF StopWorker, TypeInv, TypeOK
    <3>3. agent' \in {"running", "finished", "failed", "killed"}
      BY <1>9 DEF StopWorker, TypeInv, TypeOK
    <3> QED
      BY <3>1, <3>2, <3>3
  <2>2. TypeOK'
    BY <1>9, <2>1, Zenon DEF StopWorker, workerVars, TypeInv, TypeOK, WorkerTypeOK, Over
  <2>3. CommandInv'
    <3>1. UNCHANGED <<client, target, receiver>>
      BY <1>9, Zenon DEF StopWorker
    <3>2. \A v \in Workers : WorkerCommands(v)
      BY Zenon DEF TypeInv, CommandInv
    <3>3. ASSUME NEW v \in Workers, v # w PROVE input'[v] = input[v] /\ (Unasked(v)' => Unasked(v))
      BY <1>9, <3>3, <1>a, <2>b DEF StopWorker, Unasked
    <3>4. ~Unasked(w)'
      BY <1>9 DEF StopWorker, Unasked
    <3>5. \A i \in DOMAIN input'[w] :
            input'[w][i].command = "connect" =>
              i = 1 /\ input'[w][i].number = Share(w) /\ client[w] = 0 /\ receiver[w] = "read"
      <4>1. \A i \in DOMAIN input[w] :
              input[w][i].command = "connect" =>
                i = 1 /\ input[w][i].number = Share(w) /\ client[w] = 0 /\ receiver[w] = "read"
        BY <3>2 DEF WorkerCommands
      <4>2. CASE input' = input
        BY <4>1, <4>2
      <4>3. CASE input' = [input EXCEPT ![w] = Append(input[w], [command |-> "stop", number |-> 0])]
        <5>1. input'[w] = Append(input[w], [command |-> "stop", number |-> 0]) /\ input[w] \in Seq(Commands)
          BY <1>a, <4>3
        <5>2. \A i \in DOMAIN input'[w] : i \in DOMAIN input[w] \/ input'[w][i].command = "stop"
          BY <5>1, CommandSeq, Commanding
        <5> QED
          BY <4>1, <5>1, <5>2, CommandSeq, Commanding
      <4> QED
        BY <2>b, <4>2, <4>3
    <3> QED
      BY <3>1, <3>2, <3>3, <3>4, <3>5 DEF CommandInv, WorkerCommands, Unasked
  <2> QED
    BY <2>2, <2>3 DEF TypeInv
<1>10. CASE AllTold
  <2>1. runner' \in {"create", "connect", "wait", "hold", "stop", "drain", "done"}
    BY <1>10 DEF AllTold, TypeInv, TypeOK
  <2>2. TypeOK'
    BY <1>10, <2>1, Zenon DEF AllTold, workerVars, TypeInv, TypeOK, WorkerTypeOK, Over
  <2>3. CommandInv'
    BY <1>10, Zenon DEF AllTold, workerVars, TypeInv, CommandInv, WorkerCommands, Unasked
  <2> QED
    BY <2>2, <2>3 DEF TypeInv
<1>11. CASE Drained
  <2>1. /\ runner' \in {"create", "connect", "wait", "hold", "stop", "drain", "done"}
        /\ agent' \in {"running", "finished", "failed", "killed"}
    <3>1. runner' \in {"create", "connect", "wait", "hold", "stop", "drain", "done"}
      BY <1>11 DEF Drained, TypeInv, TypeOK
    <3>2. agent' \in {"running", "finished", "failed", "killed"}
      BY <1>11 DEF Drained, TypeInv, TypeOK
    <3> QED
      BY <3>1, <3>2
  <2>2. TypeOK'
    BY <1>11, <2>1, Zenon DEF Drained, workerVars, TypeInv, TypeOK, WorkerTypeOK, Over
  <2>3. CommandInv'
    BY <1>11, Zenon DEF Drained, workerVars, TypeInv, CommandInv, WorkerCommands, Unasked
  <2> QED
    BY <2>2, <2>3 DEF TypeInv
<1>12. ASSUME NEW w \in Workers, OnExit(w) PROVE TypeInv'
  <2>1. /\ exited' \in SUBSET Workers
        /\ workers' \in SUBSET Workers
        /\ agent' \in {"running", "finished", "failed", "killed"}
    <3>1. exited' \in SUBSET Workers
      BY <1>12 DEF OnExit, TypeInv, TypeOK
    <3>2. workers' \in SUBSET Workers
      BY <1>12 DEF OnExit, TypeInv, TypeOK
    <3>3. agent' \in {"running", "finished", "failed", "killed"}
      BY <1>12 DEF OnExit, TypeInv, TypeOK
    <3> QED
      BY <3>1, <3>2, <3>3
  <2>2. TypeOK'
    BY <1>12, <2>1, Zenon DEF OnExit, workerVars, TypeInv, TypeOK, WorkerTypeOK, Over
  <2>3. CommandInv'
    BY <1>12, Zenon DEF OnExit, workerVars, TypeInv, CommandInv, WorkerCommands, Unasked
  <2> QED
    BY <2>2, <2>3 DEF TypeInv
<1>13. ASSUME NEW w \in Workers, Leave(w) PROVE TypeInv'
  <2>1. /\ process' \in [Workers -> {"absent", "running", "exit 0", "exit 1"}]
        /\ open' \in SUBSET Clients
    <3>1. process' \in [Workers -> {"absent", "running", "exit 0", "exit 1"}]
      BY <1>13, <1>b, Zenon DEF Leave, Exit
    <3>2. open' \in SUBSET Clients
      BY <1>13 DEF Leave, Exit, TypeInv, TypeOK, WorkerTypeOK
    <3> QED
      BY <3>1, <3>2
  <2>2. TypeOK'
    BY <1>13, <2>1, Zenon DEF Leave, Exit, workerVars, TypeInv, TypeOK, WorkerTypeOK, Over
  <2>3. CommandInv'
    BY <1>13, Zenon DEF Leave, workerVars, TypeInv, CommandInv, WorkerCommands, Unasked
  <2> QED
    BY <2>2, <2>3 DEF TypeInv
<1>14. CASE AgentKilled
  <2>1. /\ agent' \in {"running", "finished", "failed", "killed"}
        /\ happened' \in Happenings
    <3>1. agent' \in {"running", "finished", "failed", "killed"}
      BY <1>14 DEF AgentKilled, TypeInv, TypeOK
    <3>2. happened' \in Happenings
      BY <1>14, HappenedType DEF AgentKilled
    <3> QED
      BY <3>1, <3>2
  <2>2. TypeOK'
    BY <1>14, <2>1, Zenon DEF AgentKilled, workerVars, TypeInv, TypeOK, WorkerTypeOK, Over, Happenings
  <2>3. CommandInv'
    BY <1>14, Zenon DEF AgentKilled, workerVars, TypeInv, CommandInv, WorkerCommands, Unasked
  <2> QED
    BY <2>2, <2>3 DEF TypeInv
<1> QED
  BY <1>1, <1>2, <1>3, <1>4, <1>5, <1>6, <1>7, <1>8, <1>9, <1>10, <1>11, <1>12, <1>13, <1>14 DEF Run, Create

\* Every step keeps the types and what is known about the commands.
LEMMA TypeInvCorrect == Spec => []TypeInv
<1>1. TypeInv /\ [Next]_vars => TypeInv'
  <2> SUFFICES ASSUME TypeInv, [Next]_vars PROVE TypeInv'
    OBVIOUS
  <2>1. CASE UNCHANGED vars
    <3>1. TypeOK'
      BY <2>1, Zenon DEF vars, workerVars, agentVars, receiverVars, reporterVars, TypeInv, TypeOK, WorkerTypeOK
    <3>2. CommandInv'
      BY <2>1, Zenon DEF vars, workerVars, agentVars, receiverVars, TypeInv, CommandInv, WorkerCommands, Unasked
    <3> QED
      BY <3>1, <3>2 DEF TypeInv
  <2>2. CASE Next
    BY <2>2, TypeWorker, TypeClient, TypeAgent DEF Next, Report
  <2> QED
    BY <2>1, <2>2
<1> QED
  BY <1>1, TypeInit, PTL DEF Spec

\* Every variable keeps its type, and no worker creates more clients than its
\* share: what it is told on its input, once, is the share.
THEOREM TypeCorrect == Spec => []TypeOK
<1>1. TypeInv => TypeOK
  BY DEF TypeInv
<1> QED
  BY <1>1, TypeInvCorrect, PTL

-----------------------------------------------------------------------------
(***************************************************************************)
(* What is left behind                                                     *)
(***************************************************************************)

\* A worker is started before it is added, and leaves the table only when its
\* process is over; a process that does not run has no connection.
LifeInv ==
  /\ \A w \in Workers : creator[w] = "start" <=> process[w] = "absent"
  /\ runner # "create" => \A w \in Workers : creator[w] = "added"
  /\ \A w \in Workers : creator[w] = "added" /\ w \notin workers => Over(w)
  /\ \A w \in Workers : ~Running(w) => open \cap ClientsOf(w) = {}
  /\ NothingLeftBehind

\* Steps of the runner that only move it on.
RunnerMoves ==
  /\ runner # "create" /\ runner' \notin {"create", "done"}
  /\ UNCHANGED <<process, open, creator, workers>>

\* What a step does to the life of the processes.
LEMMA LifeSteps ==
  ASSUME Next
  PROVE  \/ UNCHANGED <<process, creator, runner, workers>> /\ open' \subseteq open
         \/ \E w \in Workers :
              /\ UNCHANGED <<creator, runner, workers>>
              /\ \E code \in {"exit 0", "exit 1"} : Exit(w, code)
         \/ \E w \in Workers :
              /\ UNCHANGED <<process, creator, runner, workers>>
              /\ StartSucceeds(w)
         \/ \E w \in Workers : StartProcess(w) \/ Subscribe(w) \/ AddWorker(w) \/ OnExit(w)
         \/ AllCreated \/ RunnerMoves \/ Drained
<1> USE DEF workerVars, agentVars, insideVars, receiverVars, reporterVars
<1>1. ASSUME NEW w \in Workers, Send(w) \/ Check(w) \/ Scan(w) \/ ReadConnect(w) \/ CreateClient(w)
                                \/ ConnectEnds(w) \/ SetConnected(w) \/ StartFails(w) \/ ReadStop(w),
             UNCHANGED agentVars
      PROVE  UNCHANGED <<process, creator, runner, workers>> /\ open' \subseteq open
  BY <1>1 DEF Send, Check, Scan, ReadConnect, CreateClient, ConnectEnds, SetConnected, StartFails, ReadStop
<1>2. ASSUME NEW w \in Workers, StopWorker(w) \/ ReceiveStatus(w) \/ AgentKilled
      PROVE  UNCHANGED <<process, creator, runner, workers>> /\ open' \subseteq open
  BY <1>2 DEF StopWorker, ReceiveStatus, UpdateStatus, AgentKilled
<1>3. ASSUME NEW w \in Workers, NEW c \in ClientsOf(w), ClientStep(w, c), UNCHANGED agentVars
      PROVE  UNCHANGED <<process, creator, runner, workers>> /\ open' \subseteq open
  BY <1>3 DEF ClientStep, Lose, StopConnection
<1>4. ASSUME NEW w \in Workers,
             Leave(w) \/ (WorkerEnds(w) /\ UNCHANGED agentVars) \/ (WorkerFails(w) /\ UNCHANGED agentVars)
      PROVE  /\ UNCHANGED <<creator, runner, workers>>
             /\ \E code \in {"exit 0", "exit 1"} : Exit(w, code)
  BY <1>4 DEF Leave, WorkerEnds, WorkerFails
<1>5. ASSUME NEW w \in Workers, StartSucceeds(w), UNCHANGED agentVars
      PROVE  UNCHANGED <<process, creator, runner, workers>>
  BY <1>5 DEF StartSucceeds
<1>6. ASSUME NEW w \in Workers, AllConnected \/ BeginStop \/ AllTold \/ RunWorker(w)
      PROVE  RunnerMoves
  BY <1>6 DEF AllConnected, BeginStop, AllTold, RunWorker, RunnerMoves
<1>7. Workers # {}
  BY NumbersAssumption DEF Workers
<1> QED
  BY <1>1, <1>2, <1>3, <1>4, <1>5, <1>6, <1>7
  DEF Next, Run, Create, Report, ReceiverStep, ReporterStep

\* The life of the processes is as said, in every run.
LEMMA LifeCorrect == Spec => []LifeInv
<1>1. Init => LifeInv
  BY DEF Init, WorkerInit, LifeInv, NothingLeftBehind, Over, Running
<1>2. TypeOK /\ LifeInv /\ [Next]_vars => LifeInv'
  <2> SUFFICES ASSUME TypeOK, LifeInv, [Next]_vars PROVE LifeInv'
    OBVIOUS
  <2>a. /\ process \in [Workers -> {"absent", "running", "exit 0", "exit 1"}]
        /\ creator \in [Workers -> {"start", "started", "subscribed", "added"}]
        /\ open \subseteq Clients
    BY DEF TypeOK, WorkerTypeOK
  <2>1. CASE UNCHANGED vars
    BY <2>1 DEF vars, workerVars, agentVars, LifeInv, NothingLeftBehind, Over, Running
  <2>2. CASE UNCHANGED <<process, creator, runner, workers>> /\ open' \subseteq open
    BY <2>2 DEF LifeInv, NothingLeftBehind, Over, Running
  <2>3. ASSUME NEW w \in Workers, NEW code \in {"exit 0", "exit 1"}, Exit(w, code),
               UNCHANGED <<creator, runner, workers>>
        PROVE  LifeInv'
    BY <2>a, <2>3 DEF Exit, LifeInv, NothingLeftBehind, Over, Running
  <2>4. ASSUME NEW w \in Workers, StartSucceeds(w), UNCHANGED <<process, creator, runner, workers>>
        PROVE  LifeInv'
    <3>1. Running(w) /\ \E c : open' = open \cup {<<w, c>>}
      BY <2>4 DEF StartSucceeds, Receiver
    <3>2. \A v \in Workers : v # w => \A c : <<w, c>> \notin ClientsOf(v)
      BY DEF ClientsOf
    <3>3. runner # "done"
      BY <3>1 DEF LifeInv, NothingLeftBehind, Over, Running
    <3> QED
      BY <2>4, <3>1, <3>2, <3>3 DEF LifeInv, NothingLeftBehind, Over, Running
  <2>5. ASSUME NEW w \in Workers, StartProcess(w) \/ Subscribe(w) \/ AddWorker(w)
        PROVE  LifeInv'
    BY <2>a, <2>5 DEF StartProcess, Subscribe, AddWorker, Creator, workerVars, LifeInv, NothingLeftBehind, Over, Running
  <2>6. ASSUME NEW w \in Workers, OnExit(w)
        PROVE  LifeInv'
    BY <2>6 DEF OnExit, workerVars, LifeInv, NothingLeftBehind, Over, Running
  <2>7. CASE AllCreated \/ RunnerMoves
    BY <2>7 DEF AllCreated, RunnerMoves, workerVars, LifeInv, NothingLeftBehind, Over, Running
  <2>8. CASE Drained
    <3>1. \A w \in Workers : Over(w)
      BY <2>8 DEF Drained, LifeInv
    <3>2. \A w \in Workers : open \cap ClientsOf(w) = {}
      BY <3>1 DEF LifeInv, Over, Running
    <3>3. open = {}
      BY <2>a, <3>2, ClientsApart
    <3> QED
      BY <2>8, <3>1, <3>3 DEF Drained, workerVars, LifeInv, NothingLeftBehind, Over, Running
  <2> QED
    BY <2>1, <2>2, <2>3, <2>4, <2>5, <2>6, <2>7, <2>8, LifeSteps
<1> QED
  BY <1>1, <1>2, TypeCorrect, PTL DEF Spec

\* A run that ends well leaves no process and no connection behind.
THEOREM NothingLeft == Spec => []NothingLeftBehind
<1>1. LifeInv => NothingLeftBehind
  BY DEF LifeInv
<1> QED
  BY <1>1, LifeCorrect, PTL

-----------------------------------------------------------------------------
(***************************************************************************)
(* Why the agent fails                                                     *)
(***************************************************************************)

\* The loop that stops the workers has come to w.
Told(w) == runner \in {"stop", "drain", "done"} /\ (runner = "stop" => w \notin pending)

AllEndedWell == \A w \in Workers : process[w] # "exit 1" /\ (process[w] = "exit 0" => w \in stopped)

\* While no process failed, a worker ends only because it was told to stop, and
\* nothing is written to it after that.
StopInv ==
  /\ \A w \in Workers : \A i \in DOMAIN input[w] : input[w][i].command = "stop" => Told(w)
  /\ \A w \in stopped : Told(w)
  /\ agent = "running" /\ happened.crashed = 0 => AllEndedWell
  /\ AgentFailsWithWorker

\* What a step does to the input of the workers.
LEMMA InputSteps ==
  ASSUME TypeOK, Next
  PROVE  \/ input' = input
         \/ \E w \in Workers : /\ RunWorker(w)
                               /\ input' = [input EXCEPT ![w] = Append(@, [command |-> "connect", number |-> Share(w)])]
         \/ \E w \in Workers : /\ StopWorker(w)
                               /\ input' = [input EXCEPT ![w] = Append(@, [command |-> "stop", number |-> 0])]
         \/ \E w \in Workers : /\ ReadConnect(w) \/ ReadStop(w)
                               /\ UNCHANGED agentVars
                               /\ input[w] # << >> /\ input' = [input EXCEPT ![w] = Tail(@)]
<1> USE DEF workerVars, agentVars, insideVars, receiverVars, reporterVars
<1>1. ASSUME NEW w \in Workers, Send(w) \/ Check(w) \/ Scan(w) \/ CreateClient(w) \/ ConnectEnds(w)
                                \/ SetConnected(w) \/ StartFails(w) \/ StartSucceeds(w) \/ WorkerEnds(w) \/ WorkerFails(w)
      PROVE  input' = input
  BY <1>1, Zenon DEF Send, Check, Scan, CreateClient, ConnectEnds, SetConnected, StartFails, StartSucceeds,
     WorkerEnds, WorkerFails
<1>2. ASSUME NEW w \in Workers, Create(w) \/ ReceiveStatus(w) \/ OnExit(w) \/ Leave(w)
      PROVE  input' = input
  BY <1>2, Zenon DEF Create, StartProcess, Subscribe, AddWorker, ReceiveStatus, UpdateStatus, OnExit, Leave
<1>3. CASE AllCreated \/ AllConnected \/ BeginStop \/ AllTold \/ Drained \/ AgentKilled
  BY <1>3, Zenon DEF AllCreated, AllConnected, BeginStop, AllTold, Drained, AgentKilled
<1>4. ASSUME NEW w \in Workers, NEW c \in ClientsOf(w), ClientStep(w, c)
      PROVE  input' = input
  BY <1>4, Zenon DEF ClientStep, Lose, StopConnection
<1>5. ASSUME NEW w \in Workers, RunWorker(w)
      PROVE  \/ input' = input
             \/ input' = [input EXCEPT ![w] = Append(@, [command |-> "connect", number |-> Share(w)])]
  BY <1>5, Zenon DEF RunWorker, Write
<1>6. ASSUME NEW w \in Workers, StopWorker(w)
      PROVE  \/ input' = input
             \/ input' = [input EXCEPT ![w] = Append(@, [command |-> "stop", number |-> 0])]
  BY <1>6, Zenon DEF StopWorker, Write
<1>7. ASSUME NEW w \in Workers, ReadConnect(w) \/ ReadStop(w)
      PROVE  input[w] # << >> /\ input' = [input EXCEPT ![w] = Tail(@)]
  BY <1>7, Zenon DEF ReadConnect, ReadStop
<1> QED
  BY <1>1, <1>2, <1>3, <1>4, <1>5, <1>6, <1>7 DEF Next, Run, Report, ReceiverStep, ReporterStep

\* The loop does not go back.
LEMMA ToldStays ==
  ASSUME TypeOK, Next, NEW v \in Workers, Told(v)
  PROVE  Told(v)'
<1> USE DEF workerVars, agentVars, Told
<1>1. ASSUME NEW w \in Workers, Create(w) \/ ReceiveStatus(w) \/ OnExit(w) \/ Leave(w) \/ RunWorker(w)
      PROVE  Told(v)'
  BY <1>1 DEF Create, StartProcess, Subscribe, AddWorker, ReceiveStatus, UpdateStatus, OnExit, Leave, RunWorker
<1>2. ASSUME NEW w \in Workers, StopWorker(w)
      PROVE  Told(v)'
  BY <1>2 DEF StopWorker
<1>3. CASE AllCreated \/ AllConnected \/ BeginStop \/ AllTold \/ Drained \/ AgentKilled
  BY <1>3 DEF AllCreated, AllConnected, BeginStop, AllTold, Drained, AgentKilled
<1>4. CASE UNCHANGED agentVars
  BY <1>4
<1> QED
  BY <1>1, <1>2, <1>3, <1>4 DEF Next, Run, Report

\* A command to stop is written when the loop comes to the worker, and read later.
LEMMA StopCommands ==
  ASSUME TypeOK, StopInv, Next, NEW v \in Workers, NEW i \in DOMAIN input'[v], input'[v][i].command = "stop"
  PROVE  Told(v)'
<1>a. input \in [Workers -> Seq(Commands)] /\ \A w \in Workers : Share(w) \in Nat
  BY ShareType DEF TypeOK, WorkerTypeOK
<1>b. \A j \in DOMAIN input[v] : input[v][j].command = "stop" => Told(v)'
  BY ToldStays DEF StopInv
<1>1. CASE input' = input
  BY <1>1, <1>b
<1>2. ASSUME NEW w \in Workers, RunWorker(w),
             input' = [input EXCEPT ![w] = Append(@, [command |-> "connect", number |-> Share(w)])]
      PROVE  Told(v)'
  <2>1. CASE v # w
    BY <1>a, <1>b, <1>2, <2>1
  <2>2. CASE v = w
    <3>1. input'[v] = Append(input[v], [command |-> "connect", number |-> Share(v)]) /\ input[v] \in Seq(Commands)
      BY <1>a, <1>2, <2>2
    <3>2. [command |-> "connect", number |-> Share(v)] \in Commands
      BY <1>a, Commanding
    <3>3. i \in DOMAIN input[v] /\ input'[v][i] = input[v][i]
      BY <3>1, <3>2, CommandSeq
    <3> QED
      BY <1>b, <3>3
  <2> QED
    BY <2>1, <2>2
<1>3. ASSUME NEW w \in Workers, StopWorker(w),
             input' = [input EXCEPT ![w] = Append(@, [command |-> "stop", number |-> 0])]
      PROVE  Told(v)'
  <2>1. CASE v # w
    BY <1>a, <1>b, <1>3, <2>1
  <2>2. CASE v = w
    BY <1>3, <2>2 DEF StopWorker, Told
  <2> QED
    BY <2>1, <2>2
<1>4. ASSUME NEW w \in Workers, input[w] # << >>, input' = [input EXCEPT ![w] = Tail(@)]
      PROVE  Told(v)'
  <2>1. CASE v # w
    BY <1>a, <1>b, <1>4, <2>1
  <2>2. CASE v = w
    <3>1. input'[v] = Tail(input[v]) /\ input[v] \in Seq(Commands) /\ input[v] # << >>
      BY <1>a, <1>4, <2>2
    <3>2. i + 1 \in DOMAIN input[v] /\ input'[v][i] = input[v][i + 1]
      BY <3>1, CommandSeq
    <3> QED
      BY <1>b, <3>2
  <2> QED
    BY <2>1, <2>2
<1> QED
  BY <1>1, <1>2, <1>3, <1>4, InputSteps

\* Only the command to stop makes a worker stop its reports.
LEMMA StoppedSteps ==
  ASSUME Next
  PROVE  \/ UNCHANGED stopped
         \/ \E w \in Workers : ReadStop(w) /\ UNCHANGED agentVars
<1> USE DEF workerVars, insideVars, receiverVars, reporterVars
<1>1. ASSUME NEW w \in Workers, Send(w) \/ Check(w) \/ Scan(w) \/ CreateClient(w) \/ ConnectEnds(w)
                                \/ SetConnected(w) \/ StartFails(w) \/ StartSucceeds(w) \/ ReadConnect(w)
                                \/ WorkerEnds(w) \/ WorkerFails(w)
      PROVE  UNCHANGED stopped
  BY <1>1, Zenon DEF Send, Check, Scan, CreateClient, ConnectEnds, SetConnected, StartFails, StartSucceeds,
     ReadConnect, WorkerEnds, WorkerFails
<1>2. ASSUME NEW w \in Workers, Create(w) \/ ReceiveStatus(w) \/ OnExit(w) \/ Leave(w) \/ RunWorker(w) \/ StopWorker(w)
      PROVE  UNCHANGED stopped
  BY <1>2, Zenon DEF Create, StartProcess, Subscribe, AddWorker, ReceiveStatus, UpdateStatus, OnExit, Leave, RunWorker, StopWorker
<1>3. CASE AllCreated \/ AllConnected \/ BeginStop \/ AllTold \/ Drained \/ AgentKilled
  BY <1>3, Zenon DEF AllCreated, AllConnected, BeginStop, AllTold, Drained, AgentKilled
<1>4. ASSUME NEW w \in Workers, NEW c \in ClientsOf(w), ClientStep(w, c)
      PROVE  UNCHANGED stopped
  BY <1>4, Zenon DEF ClientStep, Lose, StopConnection
<1> QED
  BY <1>1, <1>2, <1>3, <1>4 DEF Next, Run, Report, ReceiverStep, ReporterStep

\* The number of failed processes.
LEMMA CrashedType ==
  ASSUME TypeOK
  PROVE  happened.crashed \in Nat
<1>1. happened.crashed \in 0..MaxCrashes
  BY DEF TypeOK, WorkerTypeOK
<1> QED
  BY <1>1, NumbersAssumption

\* The steps that end a worker, and those that make the agent fail: a worker that
\* ended was told to stop, so it is neither written to nor just being created.
LEMMA FailSteps ==
  ASSUME TypeOK, LifeInv, StopInv, Next
  PROVE  /\ agent' = "running" /\ happened'.crashed = 0 => AllEndedWell'
         /\ AgentFailsWithWorker'
<1> DEFINE Ended == agent = "running" /\ happened.crashed = 0 => AllEndedWell
<1> USE DEF workerVars, agentVars, insideVars, receiverVars, reporterVars, AgentFailsWithWorker, AllEndedWell
<1>a. /\ process \in [Workers -> {"absent", "running", "exit 0", "exit 1"}]
      /\ happened.crashed \in Nat
      /\ Ended /\ AgentFailsWithWorker
  <2>1. process \in [Workers -> {"absent", "running", "exit 0", "exit 1"}]
    BY DEF TypeOK, WorkerTypeOK
  <2> QED
    BY <2>1, CrashedType DEF StopInv
<1>b. happened \in [connected : SUBSET Clients, overtaken : SUBSET Clients,
                    refused : 0..MaxRefused, lost : 0..MaxLost, crashed : 0..MaxCrashes]
  BY DEF TypeOK, WorkerTypeOK
<1>1. CASE /\ UNCHANGED <<process, agent>> /\ happened'.crashed = happened.crashed
           /\ stopped \subseteq stopped'
  BY <1>1, <1>a DEF Over
<1>2. ASSUME NEW w \in Workers, Send(w) \/ Check(w) \/ Scan(w) \/ CreateClient(w) \/ ConnectEnds(w)
                                \/ StartSucceeds(w) \/ ReadConnect(w) \/ ReadStop(w), UNCHANGED agentVars
      PROVE  /\ UNCHANGED <<process, agent>> /\ happened'.crashed = happened.crashed
             /\ stopped \subseteq stopped'
  BY <1>2 DEF Send, Check, Scan, CreateClient, ConnectEnds, StartSucceeds, ReadConnect, ReadStop
<1>3. ASSUME NEW w \in Workers, SetConnected(w) \/ StartFails(w), UNCHANGED agentVars
      PROVE  /\ UNCHANGED <<process, agent>> /\ happened'.crashed = happened.crashed
             /\ stopped \subseteq stopped'
  BY <1>3, <1>b DEF SetConnected, StartFails
<1>4. ASSUME NEW w \in Workers, NEW c \in ClientsOf(w), ClientStep(w, c), UNCHANGED agentVars
      PROVE  /\ UNCHANGED <<process, agent>> /\ happened'.crashed = happened.crashed
             /\ stopped \subseteq stopped'
  BY <1>4, <1>b DEF ClientStep, Lose, StopConnection
<1>5. ASSUME NEW w \in Workers, Subscribe(w) \/ AddWorker(w) \/ ReceiveStatus(w) \/ RunWorker(w)
                                \/ AllCreated \/ AllConnected \/ BeginStop \/ AllTold
      PROVE  /\ UNCHANGED <<process, agent>> /\ happened'.crashed = happened.crashed
             /\ stopped \subseteq stopped'
  BY <1>5 DEF Subscribe, AddWorker, ReceiveStatus, UpdateStatus, RunWorker, AllCreated, AllConnected, BeginStop, AllTold
<1>6. ASSUME NEW w \in Workers, StartProcess(w)
      PROVE  Ended' /\ AgentFailsWithWorker'
  BY <1>6, <1>a DEF StartProcess, Over
<1>7. ASSUME NEW w \in Workers, Leave(w) \/ Drained \/ AgentKilled
      PROVE  Ended' /\ AgentFailsWithWorker'
  BY <1>7, <1>a, <1>b DEF Leave, Drained, AgentKilled
<1>8. ASSUME NEW w \in Workers, WorkerEnds(w), UNCHANGED agentVars
      PROVE  Ended' /\ AgentFailsWithWorker'
  BY <1>8, <1>a DEF WorkerEnds, Exit, Over
<1>9. ASSUME NEW w \in Workers, WorkerFails(w), UNCHANGED agentVars
      PROVE  Ended' /\ AgentFailsWithWorker'
  <2>1. happened'.crashed = happened.crashed + 1
    BY <1>9, <1>b DEF WorkerFails
  <2>2. happened'.crashed # 0 /\ happened'.crashed > 0
    BY <2>1, CrashedType
  <2> QED
    BY <2>2
<1>10. ASSUME NEW w \in Workers, OnExit(w)
       PROVE  Ended' /\ AgentFailsWithWorker'
  <2>1. CASE happened.crashed = 0
    <3>1. w \in stopped
      BY <1>10, <1>a, <2>1 DEF OnExit, Over
    <3>2. creator[w] = "added"
      BY <3>1 DEF StopInv, Told, LifeInv
    <3>3. process[w] # "exit 1"
      BY <1>10, <1>a, <2>1 DEF OnExit
    <3> QED
      BY <1>10, <1>a, <3>2, <3>3 DEF OnExit, Over
  <2>2. CASE happened.crashed > 0
    <3>1. happened'.crashed # 0 /\ happened'.crashed > 0
      <4>1. happened' = happened
        BY <1>10, Zenon DEF OnExit
      <4> QED
        BY <2>2, <4>1, CrashedType
    <3> QED
      BY <3>1
  <2>3. happened.crashed = 0 \/ happened.crashed > 0
    BY CrashedType
  <2> QED
    BY <2>1, <2>2, <2>3, Zenon
<1>11. ASSUME NEW w \in Workers, StopWorker(w)
       PROVE  Ended' /\ AgentFailsWithWorker'
  <2>1. CASE happened.crashed = 0
    <3>1. w \notin stopped
      BY <1>11 DEF StopWorker, StopInv, Told
    <3>2. w \in workers => Running(w)
      BY <1>11, <1>a, <2>1, <3>1 DEF StopWorker, LifeInv, Over, Running
    <3> QED
      BY <1>11, <1>a, <3>2 DEF StopWorker, Over
  <2>2. CASE happened.crashed > 0
    <3>1. happened'.crashed # 0 /\ happened'.crashed > 0
      <4>1. happened' = happened
        BY <1>11, Zenon DEF StopWorker
      <4> QED
        BY <2>2, <4>1, CrashedType
    <3> QED
      BY <3>1
  <2>3. happened.crashed = 0 \/ happened.crashed > 0
    BY CrashedType
  <2> QED
    BY <2>1, <2>2, <2>3, Zenon
<1>12. Workers # {}
  BY NumbersAssumption DEF Workers
<1> QED
  BY <1>1, <1>2, <1>3, <1>4, <1>5, <1>6, <1>7, <1>8, <1>9, <1>10, <1>11, <1>12
  DEF Next, Run, Create, Report, ReceiverStep, ReporterStep

\* What is told to the workers is as said, in every run.
LEMMA StopCorrect == Spec => []StopInv
<1>1. Init => StopInv
  <2> SUFFICES ASSUME Init PROVE StopInv
    OBVIOUS
  <2>1. \A w \in Workers : DOMAIN input[w] = {} /\ ~Over(w)
    BY DEF Init, WorkerInit, Over
  <2> QED
    BY <2>1 DEF Init, WorkerInit, StopInv, AllEndedWell, AgentFailsWithWorker
<1>2. TypeOK /\ LifeInv /\ StopInv /\ [Next]_vars => StopInv'
  <2> SUFFICES ASSUME TypeOK, LifeInv, StopInv, [Next]_vars PROVE StopInv'
    OBVIOUS
  <2>1. CASE UNCHANGED vars
    BY <2>1 DEF vars, workerVars, agentVars, StopInv, AllEndedWell, AgentFailsWithWorker, Told
  <2>2. CASE Next
    <3>a. /\ process \in [Workers -> {"absent", "running", "exit 0", "exit 1"}]
          /\ stopped \subseteq Workers
      BY DEF TypeOK, WorkerTypeOK
    <3>1. \A w \in Workers : \A i \in DOMAIN input'[w] : input'[w][i].command = "stop" => Told(w)'
      BY <2>2, StopCommands
    <3>2. ASSUME NEW w \in stopped' PROVE Told(w)'
      <4>1. CASE w \in stopped
        BY <2>2, <3>a, <4>1, ToldStays DEF StopInv
      <4>2. CASE w \notin stopped
        <5>1. \E v \in Workers : ReadStop(v) /\ UNCHANGED agentVars
          BY <2>2, <3>2, <4>2, StoppedSteps
        <5>2. PICK v \in Workers : ReadStop(v) /\ UNCHANGED agentVars
          BY <5>1
        <5>3. w = v
          BY <3>2, <4>2, <5>2 DEF ReadStop
        <5>4. input[v] \in Seq(Commands) /\ input[v] # << >> /\ Head(input[v]).command = "stop"
          BY <5>2 DEF ReadStop, TypeOK, WorkerTypeOK
        <5>5. Told(v)
          BY <5>4, CommandSeq DEF StopInv
        <5> QED
          BY <2>2, <5>3, <5>5, ToldStays
      <4> QED
        BY <4>1, <4>2
    <3>3. /\ agent' = "running" /\ happened'.crashed = 0 => AllEndedWell'
          /\ AgentFailsWithWorker'
      BY <2>2, <3>a, FailSteps
    <3> QED
      BY <3>1, <3>2, <3>3 DEF StopInv
  <2> QED
    BY <2>1, <2>2
<1> QED
  BY <1>1, <1>2, TypeCorrect, LifeCorrect, PTL DEF Spec

\* The agent process fails only after a worker process did.
THEOREM AgentFails == Spec => []AgentFailsWithWorker
<1>1. StopInv => AgentFailsWithWorker
  BY DEF StopInv
<1> QED
  BY <1>1, StopCorrect, PTL

-----------------------------------------------------------------------------
(***************************************************************************)
(* The states of the clients                                               *)
(***************************************************************************)

\* Besides, a worker that is not started has no client yet.
StateInv ==
  /\ \A w \in Workers : creator[w] = "start" => \A c \in ClientsOf(w) : state[c] = "Absent"
  /\ ConnectedIsOpen

\* A client counts as connected while its connection is open, but for the race.
THEOREM ConnectedOpen == Spec => []ConnectedIsOpen
<1>1. Init => StateInv
  BY ClientsApart DEF Init, WorkerInit, StateInv, ConnectedIsOpen
<1>2. TypeOK /\ LifeInv /\ StateInv /\ [Next]_vars => StateInv'
  <2> SUFFICES ASSUME TypeOK, LifeInv, StateInv, [Next]_vars PROVE StateInv'
    OBVIOUS
  <2> USE DEF receiverVars, reporterVars, agentVars, insideVars
  <2>a. /\ process \in [Workers -> {"absent", "running", "exit 0", "exit 1"}]
        /\ creator \in [Workers -> {"start", "started", "subscribed", "added"}]
        /\ state \in [Clients -> {"Absent", "Connecting", "Connected", "Disconnected", "Faulted"}]
        /\ open \subseteq Clients
    BY DEF TypeOK, WorkerTypeOK
  <2>b. happened \in [connected : SUBSET Clients, overtaken : SUBSET Clients,
                      refused : 0..MaxRefused, lost : 0..MaxLost, crashed : 0..MaxCrashes]
    BY DEF TypeOK, WorkerTypeOK
  <2>c. \A w \in Workers : Running(w) => creator[w] # "start"
    BY DEF LifeInv, Running
  <2>d. \A v, w \in Workers : \A i : \A c \in ClientsOf(v) : c = <<w, i>> => v = w
    BY DEF ClientsOf
  <2>1. CASE UNCHANGED vars
    BY <2>1 DEF vars, workerVars, StateInv, ConnectedIsOpen, Running
  <2>2. CASE UNCHANGED <<process, creator, state, open>> /\ happened'.overtaken = happened.overtaken
    BY <2>2 DEF StateInv, ConnectedIsOpen, Running
  <2>3. ASSUME NEW w \in Workers,
               \/ /\ ReadConnect(w) \/ ConnectEnds(w) \/ ReadStop(w) \/ Check(w) \/ Scan(w) \/ Send(w)
                  /\ UNCHANGED agentVars
               \/ RunWorker(w) \/ StopWorker(w) \/ ReceiveStatus(w) \/ OnExit(w)
               \/ AllCreated \/ AllConnected \/ BeginStop \/ AllTold \/ Drained \/ AgentKilled
        PROVE  UNCHANGED <<process, creator, state, open>> /\ happened'.overtaken = happened.overtaken
    <3>1. CASE AgentKilled
      BY <2>b, <3>1 DEF AgentKilled
    <3>2. CASE ~AgentKilled
      BY <2>3, <3>2 DEF ReadConnect, ConnectEnds, ReadStop, Check, Scan, Send, RunWorker, StopWorker, ReceiveStatus, UpdateStatus,
         OnExit, AllCreated, AllConnected, BeginStop, AllTold, Drained, workerVars
    <3> QED
      BY <3>1, <3>2
  <2>4. ASSUME NEW w \in Workers, CreateClient(w), UNCHANGED agentVars PROVE StateInv'
    <3>1. /\ Running(w) /\ \E c : state' = [state EXCEPT ![c] = "Connecting"] /\ \E i : c = <<w, i>>
          /\ UNCHANGED <<process, open, happened>>
      BY <2>4 DEF CreateClient, Receiver
    <3> QED
      BY <2>4, <2>a, <2>c, <2>d, <3>1, ClientsApart DEF StateInv, ConnectedIsOpen, Running
  <2>5. ASSUME NEW w \in Workers, StartSucceeds(w), UNCHANGED agentVars PROVE StateInv'
    <3>1. UNCHANGED <<process, state, happened>> /\ open \subseteq open'
      BY <2>5 DEF StartSucceeds
    <3> QED
      BY <2>5, <3>1 DEF StateInv, ConnectedIsOpen, Running
  <2>6. ASSUME NEW w \in Workers, SetConnected(w), UNCHANGED agentVars PROVE StateInv'
    <3> DEFINE c == <<w, client[w]>>
    <3>1. /\ Running(w) /\ state' = [state EXCEPT ![c] = "Connected"]
          /\ UNCHANGED <<process, open>>
      BY <2>6, Zenon DEF SetConnected, Receiver
    <3>2. happened'.overtaken = IF c \in open THEN happened.overtaken ELSE happened.overtaken \cup {c}
      BY <2>6, <2>b DEF SetConnected
    <3>3. \A v \in Workers : c \in ClientsOf(v) => v = w
      BY <2>d
    <3> HIDE DEF c
    <3>4. \A v \in Workers : \A d \in ClientsOf(v) :
            state'[d] = state[d] \/ (v = w /\ d = c)
      <4>1. \A d \in Clients : d # c => state'[d] = state[d]
        BY <2>a, <3>1
      <4>2. \A v \in Workers : ClientsOf(v) \subseteq Clients
        BY ClientsApart
      <4> QED
        BY <3>3, <4>1, <4>2
    <3>5. c \in open \/ c \in happened'.overtaken
      BY <3>2
    <3>6. happened.overtaken \subseteq happened'.overtaken
      BY <3>2
    <3> QED
      BY <2>6, <2>c, <3>1, <3>4, <3>5, <3>6 DEF StateInv, ConnectedIsOpen, Running
  <2>7. ASSUME NEW w \in Workers, StartFails(w), UNCHANGED agentVars PROVE StateInv'
    <3>1. /\ Running(w) /\ UNCHANGED <<process, open>>
          /\ state' = state \/ \E c : state' = [state EXCEPT ![c] = "Faulted"] /\ \E i : c = <<w, i>>
      BY <2>7 DEF StartFails, Receiver
    <3>2. happened'.overtaken = happened.overtaken
      BY <2>7, <2>b DEF StartFails
    <3>3. \A v \in Workers : \A d \in ClientsOf(v) :
            state'[d] = state[d] \/ (v = w /\ state'[d] = "Faulted")
      <4>1. CASE state' = state
        BY <4>1
      <4>2. CASE \E c : state' = [state EXCEPT ![c] = "Faulted"] /\ \E i : c = <<w, i>>
        <5>1. PICK c : state' = [state EXCEPT ![c] = "Faulted"] /\ \E i : c = <<w, i>>
          BY <4>2
        <5>2. \A d \in Clients : state'[d] = state[d] \/ (d = c /\ state'[d] = "Faulted")
          BY <2>a, <5>1
        <5>3. \A v \in Workers : ClientsOf(v) \subseteq Clients /\ (c \in ClientsOf(v) => v = w)
          BY <2>d, <5>1, ClientsApart
        <5> QED
          BY <5>2, <5>3
      <4> QED
        BY <3>1, <4>1, <4>2
    <3> QED
      BY <2>7, <2>c, <3>1, <3>2, <3>3 DEF StateInv, ConnectedIsOpen, Running
  <2>8. ASSUME NEW w \in Workers, NEW c \in ClientsOf(w), ClientStep(w, c), UNCHANGED agentVars PROVE StateInv'
    <3>1. /\ Running(w) /\ UNCHANGED process
          /\ open' = open \ {c} /\ \E s \in {"Disconnected", "Faulted"} : state' = [state EXCEPT ![c] = s]
      BY <2>8, Zenon DEF ClientStep, Lose, StopConnection
    <3>2. happened'.overtaken = happened.overtaken
      BY <2>8, <2>b DEF ClientStep, Lose, StopConnection
    <3>3. \A v \in Workers : c \in ClientsOf(v) => v = w
      BY ClientsApart
    <3>4. c \in Clients
      BY ClientsApart
    <3>5. \A v \in Workers : \A d \in ClientsOf(v) :
            \/ state'[d] = state[d] /\ (d \in open' <=> d \in open)
            \/ v = w /\ state'[d] # "Connected"
      <4>1. \A d \in Clients : d # c => state'[d] = state[d] /\ (d \in open' <=> d \in open)
        BY <2>a, <3>1
      <4>2. state'[c] # "Connected"
        BY <2>a, <3>1, <3>4
      <4> QED
        BY <3>3, <4>1, <4>2, ClientsApart
    <3> QED
      BY <2>8, <2>c, <3>1, <3>2, <3>5 DEF StateInv, ConnectedIsOpen, Running
  <2>9. ASSUME NEW w \in Workers, NEW code \in {"exit 0", "exit 1"}, Exit(w, code),
               UNCHANGED <<creator, state>>, happened'.overtaken = happened.overtaken
        PROVE  StateInv'
    BY <2>9, <2>a, ClientsApart DEF Exit, StateInv, ConnectedIsOpen, Running
  <2>10. ASSUME NEW w \in Workers,
                \/ Leave(w)
                \/ (WorkerEnds(w) \/ WorkerFails(w)) /\ UNCHANGED agentVars
         PROVE  /\ \E code \in {"exit 0", "exit 1"} : Exit(w, code)
                /\ UNCHANGED <<creator, state>> /\ happened'.overtaken = happened.overtaken
    BY <2>10, <2>b DEF Leave, WorkerEnds, WorkerFails
  <2>11. ASSUME NEW w \in Workers, Create(w) PROVE StateInv'
    BY <2>11, <2>a DEF Create, StartProcess, Subscribe, AddWorker, Creator, workerVars, StateInv, ConnectedIsOpen, Running
  <2>12. CASE Next
    <3>1. Workers # {}
      BY NumbersAssumption DEF Workers
    <3> QED
      BY <2>12, <2>2, <2>3, <2>4, <2>5, <2>6, <2>7, <2>8, <2>9, <2>10, <2>11, <3>1
      DEF Next, Run, Report, ReceiverStep, ReporterStep
  <2> QED
    BY <2>1, <2>12
<1>3. StateInv => ConnectedIsOpen
  BY DEF StateInv
<1> QED
  BY <1>1, <1>2, <1>3, TypeCorrect, LifeCorrect, PTL DEF Spec

-----------------------------------------------------------------------------
(***************************************************************************)
(* The counts add up                                                       *)
(***************************************************************************)

\* The clients of a worker come after those of the workers before it.
LEMMA Blocks ==
  ASSUME NEW v \in Nat, NEW w \in Nat, v < w, NEW q \in Nat
  PROVE  v * q + q <= w * q
<1>1. PICK d \in Nat : w = v + 1 + d
  BY w - v - 1 \in Nat
<1>2. w * q = v * q + q + d * q
  BY <1>1
<1>3. d * q \in Nat /\ v * q \in Nat
  OBVIOUS
<1> QED
  BY <1>2, <1>3

\* There are not more clients than connections are asked for.
LEMMA ClientsNumber == IsFiniteSet(Clients) /\ Cardinality(Clients) <= NumberOfConnections
<1> DEFINE N == NumberOfWorkers  q == Quotient  r == Rest
           Before(w) == IF w = 0 THEN 0 ELSE r + w * q
           number == [c \in Clients |-> Before(c[1]) + c[2]]
<1>1. /\ N \in Nat \ {0} /\ q \in Nat /\ r \in Nat /\ NumberOfConnections \in Nat
      /\ NumberOfConnections = N * q + r
  BY Division, NumbersAssumption
<1>2. \A c \in Clients : /\ c = <<c[1], c[2]>> /\ c[1] \in Workers
                         /\ c[2] \in Nat \ {0} /\ c[2] <= Share(c[1])
  BY ShareType DEF Clients, ClientsOf
<1>3. \A w \in Workers : /\ w \in Nat /\ w < N
                         /\ Share(w) = IF w = 0 THEN q + r ELSE q
  BY <1>1 DEF Workers, Share, Quotient, Rest
<1> HIDE DEF N, q, r
<1>4. \A w \in Workers : /\ Before(w) \in Nat /\ Share(w) \in Nat
                         /\ Before(w) + Share(w) = w * q + q + r
  <2> TAKE w \in Workers
  <2>1. w * q \in Nat
    BY <1>1, <1>3
  <2>2. CASE w = 0
    BY <1>1, <1>3, <2>2
  <2>3. CASE w # 0
    BY <1>1, <1>3, <2>1, <2>3
  <2> QED
    BY <2>2, <2>3
<1>5. \A v, w \in Workers : v < w => Before(v) + Share(v) <= Before(w)
  <2> SUFFICES ASSUME NEW v \in Workers, NEW w \in Workers, v < w
               PROVE  Before(v) + Share(v) <= Before(w)
    OBVIOUS
  <2>1. v * q + q <= w * q /\ v * q \in Nat /\ w * q \in Nat
    BY <1>1, <1>3, Blocks
  <2>2. Before(w) = r + w * q
    BY <1>3
  <2> QED
    BY <1>1, <1>4, <2>1, <2>2
<1>6. \A w \in Workers : Before(w) + Share(w) <= NumberOfConnections
  <2> TAKE w \in Workers
  <2>1. w * q + q <= N * q /\ w * q \in Nat /\ N * q \in Nat
    BY <1>1, <1>3, Blocks
  <2> QED
    BY <1>1, <1>4, <2>1
<1> HIDE DEF Before
<1>7. number \in [Clients -> 1..NumberOfConnections]
  BY <1>1, <1>2, <1>4, <1>6
<1>8. \A c, d \in Clients : number[c] = number[d] => c = d
  <2> SUFFICES ASSUME NEW c \in Clients, NEW d \in Clients, number[c] = number[d]
               PROVE  c = d
    OBVIOUS
  <2>1. Before(c[1]) + c[2] = Before(d[1]) + d[2]
    OBVIOUS
  <2>2. c[1] \in Nat /\ d[1] \in Nat
    BY <1>2, <1>3
  <2>3. ~(c[1] < d[1])
    BY <1>2, <1>4, <1>5, <2>1
  <2>4. ~(d[1] < c[1])
    BY <1>2, <1>4, <1>5, <2>1
  <2>5. c[1] = d[1]
    BY <2>2, <2>3, <2>4
  <2>6. c[2] = d[2]
    BY <1>2, <1>4, <2>1, <2>5
  <2> QED
    BY <1>2, <2>5, <2>6
<1>9. number \in Injection(Clients, 1..NumberOfConnections)
  BY <1>7, <1>8 DEF Injection, IsInjective
<1>10. IsFiniteSet(1..NumberOfConnections) /\ Cardinality(1..NumberOfConnections) = NumberOfConnections
  BY <1>1, FS_Interval
<1> QED
  BY <1>9, <1>10, FS_Injection

\* A sequence with another element at its end.
LEMMA AppendType ==
  ASSUME NEW S, NEW s \in Seq(S), NEW x \in S
  PROVE  /\ DOMAIN Append(s, x) = 1..(Len(s) + 1)
         /\ \A i \in DOMAIN s : Append(s, x)[i] = s[i]
         /\ Append(s, x)[Len(s) + 1] = x
         /\ DOMAIN s = 1..Len(s) /\ Len(s) \in Nat
OBVIOUS

\* The runner has found all connections.
Found == runner \in {"hold", "stop", "drain", "done"}

\* Whatever counts a client, and however old it is, the client was connected.
ReportInv ==
  /\ \A c \in Clients : state[c] = "Connected" => c \in happened.connected
  /\ \A w \in Workers : counted[w] \subseteq happened.connected
  /\ \A w \in Workers : \A i \in DOMAIN output[w] : output[w][i] \subseteq happened.connected
  /\ \A w \in Workers : status[w] \subseteq happened.connected
  /\ Found => happened.connected = Clients

\* Steps that count nothing.
NothingCounted ==
  /\ UNCHANGED <<counted, output, status>>
  /\ happened'.connected = happened.connected
  /\ \A c \in Clients : state'[c] = "Connected" => state[c] = "Connected"
  /\ Found' => Found

\* Which steps count something.
LEMMA CountSteps ==
  ASSUME TypeOK, Next
  PROVE  \/ NothingCounted
         \/ AllConnected
         \/ \E w \in Workers :
              \/ ReceiveStatus(w)
              \/ (SetConnected(w) \/ Scan(w) \/ Send(w)) /\ UNCHANGED agentVars
<1> USE DEF workerVars, agentVars, insideVars, receiverVars, reporterVars
<1>a. state \in [Clients -> {"Absent", "Connecting", "Connected", "Disconnected", "Faulted"}]
  BY DEF TypeOK, WorkerTypeOK
<1>b. happened \in [connected : SUBSET Clients, overtaken : SUBSET Clients,
                    refused : 0..MaxRefused, lost : 0..MaxLost, crashed : 0..MaxCrashes]
  BY DEF TypeOK, WorkerTypeOK
<1>1. ASSUME NEW w \in Workers, UNCHANGED agentVars,
             ReadConnect(w) \/ ConnectEnds(w) \/ StartSucceeds(w) \/ ReadStop(w) \/ Check(w) \/ WorkerEnds(w)
      PROVE  NothingCounted
  BY <1>1 DEF ReadConnect, ConnectEnds, StartSucceeds, ReadStop, Check, WorkerEnds, NothingCounted, Found
<1>2. ASSUME NEW w \in Workers, Create(w) \/ OnExit(w) \/ Leave(w) \/ RunWorker(w) \/ StopWorker(w)
      PROVE  NothingCounted
  BY <1>2 DEF Create, StartProcess, Subscribe, AddWorker, OnExit, Leave, RunWorker, StopWorker, NothingCounted, Found
<1>3. CASE AllCreated \/ BeginStop \/ AllTold \/ Drained
  BY <1>3 DEF AllCreated, BeginStop, AllTold, Drained, NothingCounted, Found
<1>4. ASSUME NEW w \in Workers, AgentKilled \/ (WorkerFails(w) /\ UNCHANGED agentVars)
      PROVE  NothingCounted
  BY <1>4, <1>b DEF AgentKilled, WorkerFails, NothingCounted, Found
<1>5. ASSUME NEW w \in Workers, CreateClient(w), UNCHANGED agentVars
      PROVE  NothingCounted
  BY <1>5, <1>a DEF CreateClient, NothingCounted, Found
<1>6. ASSUME NEW w \in Workers, StartFails(w), UNCHANGED agentVars
      PROVE  NothingCounted
  <2>1. state' = state \/ \E c : state' = [state EXCEPT ![c] = "Faulted"]
    BY <1>6, Zenon DEF StartFails
  <2>2. happened'.connected = happened.connected
    BY <1>6, <1>b DEF StartFails
  <2> QED
    BY <1>6, <1>a, <2>1, <2>2 DEF StartFails, NothingCounted, Found
<1>7. ASSUME NEW w \in Workers, NEW c \in ClientsOf(w), ClientStep(w, c), UNCHANGED agentVars
      PROVE  NothingCounted
  <2>1. \E s \in {"Disconnected", "Faulted"} : state' = [state EXCEPT ![c] = s]
    BY <1>7, Zenon DEF ClientStep, Lose, StopConnection
  <2>2. happened'.connected = happened.connected
    BY <1>7, <1>b DEF ClientStep, Lose, StopConnection
  <2>3. \A d \in Clients : state'[d] = "Connected" => state[d] = "Connected"
    BY <1>a, <2>1
  <2> QED
    BY <1>7, <2>2, <2>3 DEF ClientStep, Lose, StopConnection, NothingCounted, Found
<1>8. Workers # {}
  BY NumbersAssumption DEF Workers
<1> QED
  BY <1>1, <1>2, <1>3, <1>4, <1>5, <1>6, <1>7, <1>8 DEF Next, Run, Report, ReceiverStep, ReporterStep

\* What counts clients is as said, in every run.
LEMMA ReportCorrect == Spec => []ReportInv
<1>1. Init => ReportInv
  <2> SUFFICES ASSUME Init PROVE ReportInv
    OBVIOUS
  <2>1. \A w \in Workers : counted[w] = {} /\ DOMAIN output[w] = {} /\ status[w] = {}
    BY DEF Init, WorkerInit
  <2> QED
    BY <2>1 DEF Init, WorkerInit, ReportInv, Found
<1>2. TypeOK /\ TypeOK' /\ ReportInv /\ [Next]_vars => ReportInv'
  <2> SUFFICES ASSUME TypeOK, TypeOK', ReportInv, [Next]_vars PROVE ReportInv'
    OBVIOUS
  <2> USE DEF receiverVars, reporterVars, agentVars
  <2>a. /\ happened.connected \subseteq Clients /\ happened'.connected \subseteq Clients
        /\ DOMAIN counted = Workers
        /\ DOMAIN output = Workers /\ DOMAIN status = Workers
        /\ \A w \in Workers : output[w] \in Seq(SUBSET ClientsOf(w)) /\ counted[w] \in SUBSET ClientsOf(w)
    BY DEF TypeOK, WorkerTypeOK
  <2>b. happened \in [connected : SUBSET Clients, overtaken : SUBSET Clients,
                      refused : 0..MaxRefused, lost : 0..MaxLost, crashed : 0..MaxCrashes]
    BY DEF TypeOK, WorkerTypeOK
  <2>1. CASE UNCHANGED vars
    BY <2>1 DEF vars, workerVars, ReportInv, Found
  <2>2. CASE NothingCounted
    BY <2>2 DEF NothingCounted, ReportInv
  <2>3. CASE AllConnected
    <3>1. Reported \subseteq happened.connected
      BY DEF Reported, ReportInv, TypeOK
    <3>2. Reported \subseteq Clients /\ Cardinality(Reported) >= NumberOfConnections
      BY <2>3, <2>a, <3>1 DEF AllConnected
    <3>3. Cardinality(Reported) <= Cardinality(Clients) /\ IsFiniteSet(Clients)
          /\ (Cardinality(Clients) = Cardinality(Reported) => Clients = Reported)
      BY <3>2, ClientsNumber, FS_Subset
    <3>4. Cardinality(Clients) \in Nat /\ Cardinality(Reported) \in Nat /\ NumberOfConnections \in Nat
      BY <3>2, ClientsNumber, FS_Subset, FS_CardinalityType, NumbersAssumption
    <3>5. Reported = Clients
      BY <3>2, <3>3, <3>4, ClientsNumber
    <3>6. happened.connected = Clients
      BY <2>a, <3>1, <3>5
    <3> QED
      BY <2>3, <3>6 DEF AllConnected, workerVars, ReportInv, Found
  <2>4. ASSUME NEW w \in Workers, ReceiveStatus(w) PROVE ReportInv'
    <3>1. /\ output[w] \in Seq(SUBSET ClientsOf(w)) /\ output[w] # << >>
          /\ output' = [output EXCEPT ![w] = Tail(output[w])]
          /\ status' = status \/ status' = [status EXCEPT ![w] = Head(output[w])]
          /\ UNCHANGED <<state, counted, happened, runner>>
      BY <2>4, <2>a DEF ReceiveStatus, UpdateStatus
    <3>2. \A i \in DOMAIN Tail(output[w]) : i + 1 \in DOMAIN output[w] /\ Tail(output[w])[i] = output[w][i + 1]
      BY <3>1
    <3>3. 1 \in DOMAIN output[w] /\ Head(output[w]) = output[w][1]
      BY <3>1
    <3>4. \A v \in Workers : status'[v] \subseteq happened.connected
      BY <2>a, <3>1, <3>3 DEF ReportInv
    <3>5. \A v \in Workers : \A i \in DOMAIN output'[v] : output'[v][i] \subseteq happened.connected
      BY <2>a, <3>1, <3>2 DEF ReportInv
    <3> QED
      BY <3>1, <3>4, <3>5 DEF ReportInv, Found
  <2>5. ASSUME NEW w \in Workers, SetConnected(w), UNCHANGED agentVars PROVE ReportInv'
    <3> DEFINE c == <<w, client[w]>>
    <3>1. /\ state' = [state EXCEPT ![c] = "Connected"]
          /\ UNCHANGED <<output, counted, status, runner>>
      BY <2>5, Zenon DEF SetConnected
    <3>2. happened'.connected = happened.connected \cup {c}
      BY <2>5, <2>b DEF SetConnected
    <3>3. state \in [Clients -> {"Absent", "Connecting", "Connected", "Disconnected", "Faulted"}]
      BY DEF TypeOK, WorkerTypeOK
    <3> HIDE DEF c
    <3>4. \A d \in Clients : state'[d] = "Connected" => d = c \/ state[d] = "Connected"
      BY <3>1, <3>3
    <3>5. Found' => happened'.connected = Clients
      BY <2>a, <3>1, <3>2 DEF ReportInv, Found
    <3> QED
      BY <3>1, <3>2, <3>4, <3>5 DEF ReportInv
  <2>6. ASSUME NEW w \in Workers, Scan(w), UNCHANGED agentVars PROVE ReportInv'
    <3>1. /\ counted' = [counted EXCEPT ![w] = IF w \in stopped THEN {}
                                               ELSE {d \in ClientsOf(w) : state[d] = "Connected"}]
          /\ UNCHANGED <<output, state, happened, status, runner>>
      BY <2>6, Zenon DEF Scan
    <3>2. {d \in ClientsOf(w) : state[d] = "Connected"} \subseteq happened.connected
      BY ClientsApart DEF ReportInv
    <3>3. \A v \in Workers : counted'[v] \subseteq happened.connected
      BY <2>a, <3>1, <3>2 DEF ReportInv, TypeOK, WorkerTypeOK
    <3> QED
      BY <3>1, <3>3 DEF ReportInv, Found
  <2>7. ASSUME NEW w \in Workers, Send(w), UNCHANGED agentVars PROVE ReportInv'
    <3>1. /\ output' = [output EXCEPT ![w] = Append(output[w], counted[w])]
          /\ UNCHANGED <<counted, state, happened, status, runner>>
      BY <2>7, Zenon DEF Send
    <3>2. /\ DOMAIN Append(output[w], counted[w]) = 1..(Len(output[w]) + 1)
          /\ \A i \in DOMAIN output[w] : Append(output[w], counted[w])[i] = output[w][i]
          /\ Append(output[w], counted[w])[Len(output[w]) + 1] = counted[w]
          /\ DOMAIN output[w] = 1..Len(output[w]) /\ Len(output[w]) \in Nat
      BY <2>a, AppendType
    <3>3. \A i \in DOMAIN Append(output[w], counted[w]) : Append(output[w], counted[w])[i] \subseteq happened.connected
      BY <3>2 DEF ReportInv
    <3>4. \A v \in Workers : \A i \in DOMAIN output'[v] : output'[v][i] \subseteq happened.connected
      BY <2>a, <3>1, <3>3 DEF ReportInv
    <3> QED
      BY <3>1, <3>4 DEF ReportInv, Found
  <2> QED
    BY <2>1, <2>2, <2>3, <2>4, <2>5, <2>6, <2>7, CountSteps
<1> QED
  BY <1>1, <1>2, TypeCorrect, PTL DEF Spec

\* The runner goes on, and a worker is told to stop, only after every client was
\* connected, as the counts of different workers never count more than there was.
THEOREM ConnectedFirst == Spec => []EveryClientWasConnected
<1>1. ReportInv /\ StopInv /\ TypeOK => EveryClientWasConnected
  BY DEF ReportInv, StopInv, Told, Found, EveryClientWasConnected, TypeOK, WorkerTypeOK
<1> QED
  BY <1>1, ReportCorrect, TypeCorrect, StopCorrect, PTL

=============================================================================
