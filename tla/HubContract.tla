------------------------------ MODULE HubContract ------------------------------
(***************************************************************************)
(* What the hub promises to each of its clients, without a storage, groups *)
(* or records: the steps of HubSession, and what may be sent when.  A      *)
(* connection is sent nothing before it is registered, but the Close that  *)
(* turns it away; what reaches it first, the reply to its registration or  *)
(* a message of somebody else, is left open.                               *)
(***************************************************************************)
EXTENDS HubSession

CONSTANT Session  \* the connections

VARIABLE mail  \* what has been sent: to whom, and the event

contractVars == <<hubSessionVars, mail>>

Init ==
  /\ server = [n \in Session |-> "none"]
  /\ denied = {}
  /\ mail = {}

Post(receivers, event) == mail' = mail \cup (receivers \X {event})

Reject(n) == TurnedAway(n) /\ Post({n}, "Close")

\* The reply to a registration.
Reply(n) ==
  /\ IsRegistered(n)
  /\ Post({n}, "RegisterSuccess")
  /\ UNCHANGED hubSessionVars

\* Something that others caused; what is sent to one that is gone is lost.
Push(receivers) ==
  /\ \A n \in receivers : IsRegistered(n) \/ server[n] = "gone"
  /\ Post(receivers, "ReceiveMessage")
  /\ UNCHANGED hubSessionVars

Next ==
  \/ \E n \in Session :
       \/ Reject(n) \/ Reply(n)
       \/ /\ \/ Opened(n) \/ Accepted(n) \/ Denied(n) \/ Ended(n)
             \/ \E role \in Roles : RegisteredAs(n, role)
          /\ UNCHANGED mail
  \/ \E receivers \in SUBSET Session : Push(receivers)

Spec == Init /\ [][Next]_contractVars
==============================================================================
