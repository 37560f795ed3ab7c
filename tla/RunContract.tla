----------------------------- MODULE RunContract -----------------------------
(***************************************************************************)
(* What a run of Crankier promises, without queues, tables, reports or     *)
(* retries: processes are started, each connects its clients, and the run  *)
(* holds only when all of them have been connected.  Then the workers are  *)
(* told to stop; a worker that was told closes its connections and ends,   *)
(* and the run is over when all have ended.  Without a fault nothing else  *)
(* happens: no connection closes and no process ends before it is told.    *)
(* The run breaks only because of a process that failed, and the workers   *)
(* of a broken run may leave at any time.                                  *)
(***************************************************************************)
CONSTANTS
  Worker,
  Client   \* the clients of each worker

VARIABLES
  phase,      \* how far the run has come
  broken,     \* it has been given up there
  process,    \* the process of each worker
  told,       \* workers that know they have to stop
  open,       \* connections that are open
  connected,  \* clients that have been connected
  faults      \* what has gone wrong so far: "connection", "process"

vars == <<phase, broken, process, told, open, connected, faults>>

Running(w) == process[w] = "running"

Init ==
  /\ phase = "connecting"
  /\ broken = FALSE
  /\ process = [w \in Worker |-> "absent"]
  /\ told = {} /\ open = {} /\ connected = {} /\ faults = {}

Start(w) ==
  /\ phase = "connecting" /\ ~broken
  /\ process[w] = "absent"
  /\ process' = [process EXCEPT ![w] = "running"]
  /\ UNCHANGED <<phase, broken, told, open, connected, faults>>

\* A client gets a connection once, before the run holds ...
Open(w, c) ==
  /\ phase = "connecting" /\ Running(w) /\ c \notin connected
  /\ open' = open \cup {c}
  /\ UNCHANGED <<phase, broken, process, told, connected, faults>>

\* ... and counts as connected from then on.
Connect(w, c) ==
  /\ phase = "connecting" /\ Running(w) /\ c \notin connected
  /\ c \in open \/ "connection" \in faults
  /\ connected' = connected \cup {c}
  /\ UNCHANGED <<phase, broken, process, told, open, faults>>

Lose(w, c) ==
  /\ Running(w) /\ c \in open
  /\ open' = open \ {c}
  /\ faults' = faults \cup {"connection"}
  /\ UNCHANGED <<phase, broken, process, told, connected>>

Hold ==
  /\ phase = "connecting" /\ ~broken
  /\ \A w \in Worker : process[w] # "absent" /\ Client[w] \subseteq connected
  /\ phase' = "holding"
  /\ UNCHANGED <<broken, process, told, open, connected, faults>>

Stop ==
  /\ phase = "holding" /\ ~broken
  /\ phase' = "stopping"
  /\ UNCHANGED <<broken, process, told, open, connected, faults>>

Tell(w) ==
  /\ phase = "stopping" /\ Running(w)
  /\ told' = told \cup {w}
  /\ UNCHANGED <<phase, broken, process, open, connected, faults>>

Close(w, c) ==
  /\ Running(w) /\ w \in told
  /\ open' = open \ {c}
  /\ UNCHANGED <<phase, broken, process, told, connected, faults>>

\* A process ends with its connections.
Ends(w) ==
  /\ Running(w)
  /\ process' = [process EXCEPT ![w] = "over"]
  /\ open' = open \ Client[w]
  /\ UNCHANGED <<phase, broken, told, connected>>

End(w) == Ends(w) /\ (w \in told \/ broken) /\ UNCHANGED faults

Fail(w) == Ends(w) /\ faults' = faults \cup {"process"}

Finish ==
  /\ phase = "stopping" /\ ~broken
  /\ \A w \in Worker : process[w] = "over"
  /\ phase' = "over"
  /\ UNCHANGED <<broken, process, told, open, connected, faults>>

\* The process that fails may be the one that conducts the run.
Break ==
  /\ phase # "over" /\ ~broken
  /\ broken' = TRUE
  /\ faults' \in {faults, faults \cup {"process"}} /\ "process" \in faults'
  /\ UNCHANGED <<phase, process, told, open, connected>>

Next ==
  \/ Hold \/ Stop \/ Finish \/ Break
  \/ \E w \in Worker :
       \/ Start(w) \/ Tell(w) \/ End(w) \/ Fail(w)
       \/ \E c \in Client[w] : Open(w, c) \/ Connect(w, c) \/ Lose(w, c) \/ Close(w, c)

Spec == Init /\ [][Next]_vars

=============================================================================
