------------------------------ MODULE HubSession ------------------------------
(***************************************************************************)
(* What becomes of a connection in the hub, as its client can tell: it is  *)
(* opened, accepted or turned away, registers as one of two roles, and     *)
(* ends.  The window (ProxyClient) takes its steps from here, and HubContract *)
(* states them as a specification, which the hub (CommandRouting)          *)
(* implements: neither model assumes more of the other.                    *)
(***************************************************************************)

VARIABLES
  server,  \* what the hub knows of each connection
  denied   \* connections with a command that the hub refused

hubSessionVars == <<server, denied>>

Roles == {"teacher", "student"}
ServerStates == {"none", "open", "accepted", "gone"} \cup Roles

\* The hub runs the calls of a connection that it has accepted.
Serves(n) == server[n] \in {"accepted"} \cup Roles

\* Only what is registered can be found by others, and be sent something.
IsRegistered(n) == server[n] \in Roles

Becomes(n, before, after) ==
  /\ server[n] \in before
  /\ server' = [server EXCEPT ![n] = after]
  /\ UNCHANGED denied

Opened(n) == Becomes(n, {"none"}, "open")

Accepted(n) == Becomes(n, {"open"}, "accepted")

TurnedAway(n) == Becomes(n, {"open"}, "gone")

RegisteredAs(n, role) == Becomes(n, {"accepted"}, role)

Ended(n) == Becomes(n, {"open", "accepted"} \cup Roles, "gone")

\* A command is refused to whoever is not registered as a teacher.
Denied(n) ==
  /\ Serves(n) /\ server[n] # "teacher"
  /\ denied' = denied \cup {n}
  /\ UNCHANGED server
==============================================================================
