--------------------------- MODULE MCFeedbackDoc ---------------------------
(***************************************************************************)
(* The instances of MCMessageFeedback with a history variable, for what    *)
(* the interface of the hub says of a timeout.                             *)
(***************************************************************************)
EXTENDS MCMessageFeedback

VARIABLE timely  \* <<c, m>> such that Feedback of c for m reached the server in time

\* The invocations that a step adds to the queues, for messages in their time.
Arrivals ==
  {<<c, m>> \in Conn \X messageRecords : queue'[c] = Append(queue[c], m) /\ ~IsOverdue(m)}

SpecWithHistory ==
  Init /\ timely = {} /\ [][Next /\ timely' = timely \cup Arrivals]_<<vars, timely>>

\* What the interface documents: the sender is told only if the receivers did
\* not send Feedback within the time limit.
TimeoutOnlyIfUnanswered ==
  \A m \in Msg : notices[m] > 0 => \E c \in ReceiversOf[m] : <<c, m>> \notin timely

=============================================================================
