-------------------------- MODULE FeedbackContract --------------------------
(***************************************************************************)
(* What the acknowledgement service promises, without connections, threads *)
(* or sleeping: a message is sent; it may be acknowledged at any time      *)
(* after that; its time may run out.  A message found unacknowledged is in *)
(* doubt until the clock is read, and then condemned if its time has run   *)
(* out, even if it was acknowledged meanwhile.  One that is acknowledged   *)
(* and not in doubt is safe for ever.  The sender of a condemned message,  *)
(* and of no other, is notified, once.                                     *)
(***************************************************************************)
CONSTANT Msg

VARIABLES
  sent,       \* messages that have been sent
  expired,    \* sent messages whose time has run out
  answered,   \* messages acknowledged by all their receivers
  doubted,    \* messages found unacknowledged, the clock still to be read
  condemned,  \* messages found unacknowledged and past their time
  noticed     \* messages whose sender has been notified

vars == <<sent, expired, answered, doubted, condemned, noticed>>

Init ==
  /\ sent = {} /\ expired = {} /\ answered = {}
  /\ doubted = {} /\ condemned = {} /\ noticed = {}

Send(m) ==
  /\ m \notin sent
  /\ sent' = sent \cup {m}
  /\ UNCHANGED <<expired, answered, doubted, condemned, noticed>>

Expire(S) ==
  /\ S \subseteq sent
  /\ expired' = expired \cup S
  /\ UNCHANGED <<sent, answered, doubted, condemned, noticed>>

Answer(m) ==
  /\ m \in sent
  /\ answered' = answered \cup {m}
  /\ UNCHANGED <<sent, expired, doubted, condemned, noticed>>

Doubt(m) ==
  /\ doubted = {}
  /\ m \in sent \ (answered \cup noticed)
  /\ doubted' = {m}
  /\ UNCHANGED <<sent, expired, answered, condemned, noticed>>

Clear(m) ==
  /\ m \in doubted \ expired
  /\ doubted' = {}
  /\ UNCHANGED <<sent, expired, answered, condemned, noticed>>

Condemn(m) ==
  /\ m \in doubted \cap expired
  /\ doubted' = {}
  /\ condemned' = condemned \cup {m}
  /\ UNCHANGED <<sent, expired, answered, noticed>>

Notify(m) ==
  /\ m \in condemned \ noticed
  /\ noticed' = noticed \cup {m}
  /\ UNCHANGED <<sent, expired, answered, doubted, condemned>>

Next ==
  \/ \E m \in Msg : Send(m) \/ Answer(m) \/ Doubt(m) \/ Clear(m) \/ Condemn(m) \/ Notify(m)
  \/ \E S \in SUBSET Msg : Expire(S)

Spec == Init /\ [][Next]_vars

=============================================================================
