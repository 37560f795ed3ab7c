---------------------------- MODULE HubConnection ----------------------------
(***************************************************************************)
(* The state machine of a HubConnection of the SignalR client library,     *)
(* built withAutomaticReconnect(), as far as the browser client uses it:   *)
(* start(), the retries after a lost connection, and the Close message.    *)
(* stop() is left out: nobody calls it.  connectionStarted is not a        *)
(* variable: it is TRUE in Connected, Reconnecting and Disconnecting.      *)
(*                                                                         *)
(* The sources are those of the library as the repository ships them, in   *)
(* the version that the browser client depends on.  A Close message that   *)
(* is read together with the answer to the handshake ends start() with an  *)
(* error (StartFailed); after a reconnection it is taken up one step later *)
(* here, in which nobody gets to see the state.                            *)
(***************************************************************************)
EXTENDS Naturals

CONSTANTS
  MaxRetries,  \* delays of the reconnect policy: 4 by default
  MaxSessions  \* bound: connections that are opened, with a connection id each

ASSUME RetriesAssumption == MaxRetries \in Nat \ {0}
ASSUME SessionsAssumption == MaxSessions \in Nat \ {0}

VARIABLES
  connectionState,
  previousReconnectAttempts,  \* of the running reconnect(), 0 if none runs
  sessions                    \* connection ids so far: the last is the current one

hubConnectionVars == <<connectionState, previousReconnectAttempts, sessions>>

HubConnectionState ==
  {"Disconnected", "Connecting", "Connected", "Disconnecting", "Reconnecting"}

HubConnectionInit ==
  /\ connectionState = "Disconnected"
  /\ previousReconnectAttempts = 0
  /\ sessions = 0

\* The connection goes from one state to another without a new connection id.
Moves(from, to, attempts) ==
  /\ connectionState = from
  /\ connectionState' = to
  /\ previousReconnectAttempts' = attempts
  /\ UNCHANGED sessions

\* The handshake is through: the connection has a new id.
Opens(from) ==
  /\ connectionState = from
  /\ sessions < MaxSessions
  /\ connectionState' = "Connected"
  /\ previousReconnectAttempts' = 0
  /\ sessions' = sessions + 1

\* start() goes to work, or rejects at once.
Start == Moves("Disconnected", "Connecting", 0)

StartRejected == connectionState # "Disconnected" /\ UNCHANGED hubConnectionVars

Started == Opens("Connecting")

StartFailed == Moves("Connecting", "Disconnected", 0)

\* The transport is gone: connectionClosed() begins to reconnect.
ConnectionLost == Moves("Connected", "Reconnecting", 1)

\* The server sent a Close message that does not allow to reconnect.
StopInternal == Moves("Connected", "Disconnecting", 0)

\* The transport is gone after StopInternal: completeClose().
CompleteClose == Moves("Disconnecting", "Disconnected", 0)

Reconnected == Opens("Reconnecting")

\* (mutant) Attempts are not counted.
RetryFailedUncounted ==
  /\ previousReconnectAttempts < MaxRetries
  /\ Moves("Reconnecting", "Reconnecting", previousReconnectAttempts)

\* An attempt failed; the policy has another delay, or has none and gives up.
RetryFailed ==
  /\ previousReconnectAttempts < MaxRetries
  /\ Moves("Reconnecting", "Reconnecting", previousReconnectAttempts + 1)

GivenUp ==
  /\ previousReconnectAttempts >= MaxRetries
  /\ Moves("Reconnecting", "Disconnected", 0)

\* Retries are counted while there are any, and only then.
HubConnectionTypeOK ==
  /\ connectionState \in HubConnectionState
  /\ previousReconnectAttempts \in
       IF connectionState = "Reconnecting" THEN 1..MaxRetries ELSE {0}
  /\ sessions \in 0..MaxSessions
==============================================================================
