------------------------- MODULE ConnectionCounter -------------------------
(***************************************************************************)
(* ConnectionCounter (the same class in SignalRServer and SignalRBenchmark)*)
(* and the loop of HostedCounterService that reports it once a second.     *)
(*                                                                         *)
(* Every method of the counter holds its lock from the first statement to  *)
(* the last, so each is one action.  The service takes a Summary under the *)
(* lock and prints it, and the difference to the one it printed before,    *)
(* after the lock is free again: hubs may count in between.                *)
(***************************************************************************)
EXTENDS Integers

CONSTANTS
  IntMax,         \* the largest value of an int: 2^31 - 1
  Lengths,        \* the lengths of the payloads that clients send
  MaxConnections, \* bound: connections accepted in a behaviour
  MaxReceived     \* bound: characters received in a behaviour

ASSUME IntMaxAssumption == IntMax \in Nat \ {0}
ASSUME LengthsAssumption == Lengths \subseteq 0..IntMax
ASSUME MaxConnectionsAssumption == MaxConnections \in 0..IntMax
ASSUME MaxReceivedAssumption == MaxReceived \in Nat

VARIABLES
  totalConnectedCount,
  peakConnectedCount,
  totalDisconnectedCount,
  receiveCount,
  summary,        \* the local of the loop, NoSummary between two rounds
  lastSummary,    \* HostedCounterService._lastSummary, NoSummary before the first
  firstSummary,   \* history: the first value of lastSummary
  printed,        \* history: the sums over the lines printed so far
  received        \* history: the characters received so far

counterVars == <<totalConnectedCount, peakConnectedCount, totalDisconnectedCount, receiveCount, received>>
serviceVars == <<summary, lastSummary, firstSummary, printed>>
vars == <<counterVars, serviceVars>>

NoSummary == [connected |-> -1, disconnected |-> -1, current |-> -1, peak |-> -1, received |-> 0]

\* (mutant) An addition that is clipped at the largest int.
PlusClipped(a, b) == IF a + b > IntMax THEN IntMax ELSE a + b

\* (mutant) An addition that never wraps.
PlusUnbounded(a, b) == a + b

\* Unchecked addition of two ints, of which the second is not negative.
Plus(a, b) == IF a + b > IntMax THEN a + b - 2 * (IntMax + 1) ELSE a + b

CurrentConnections == totalConnectedCount - totalDisconnectedCount

LargerOf(a, b) == IF a >= b THEN a ELSE b

Init ==
  /\ totalConnectedCount = 0
  /\ peakConnectedCount = 0
  /\ totalDisconnectedCount = 0
  /\ receiveCount = 0
  /\ summary = NoSummary
  /\ lastSummary = NoSummary
  /\ firstSummary = NoSummary
  /\ printed = [connected |-> 0, disconnected |-> 0, current |-> 0]
  /\ received = 0

\* (mutant) The current number of connections is counted twice.
ConnectedTwice ==
  /\ totalConnectedCount < MaxConnections
  /\ totalConnectedCount' = totalConnectedCount + 1
  /\ peakConnectedCount' = LargerOf(totalConnectedCount + 2 - totalDisconnectedCount, peakConnectedCount)
  /\ UNCHANGED <<totalDisconnectedCount, receiveCount, received, serviceVars>>

\* (mutant) A peak that follows the number of connections down.
ConnectedFollowed ==
  /\ totalConnectedCount < MaxConnections
  /\ totalConnectedCount' = totalConnectedCount + 1
  /\ peakConnectedCount' = totalConnectedCount + 1 - totalDisconnectedCount
  /\ UNCHANGED <<totalDisconnectedCount, receiveCount, received, serviceVars>>

\* OnConnectedAsync of a hub.
Connected ==
  /\ totalConnectedCount < MaxConnections
  /\ totalConnectedCount' = totalConnectedCount + 1
  /\ peakConnectedCount' = LargerOf(totalConnectedCount + 1 - totalDisconnectedCount, peakConnectedCount)
  /\ UNCHANGED <<totalDisconnectedCount, receiveCount, received, serviceVars>>

\* OnDisconnectedAsync of a hub: only for a connection that was connected.
Disconnected ==
  /\ CurrentConnections > 0
  /\ totalDisconnectedCount' = totalDisconnectedCount + 1
  /\ UNCHANGED <<totalConnectedCount, peakConnectedCount, receiveCount, received, serviceVars>>

\* SendPayload of a hub, called by a connected client.
Receive(length) ==
  /\ CurrentConnections > 0
  /\ received + length <= MaxReceived
  /\ receiveCount' = Plus(receiveCount, length)
  /\ received' = received + length
  /\ UNCHANGED <<totalConnectedCount, peakConnectedCount, totalDisconnectedCount, serviceVars>>

\* The property Summary: all five counts, read under the lock.
Summary ==
  [connected    |-> totalConnectedCount,
   disconnected |-> totalDisconnectedCount,
   current      |-> CurrentConnections,
   peak         |-> peakConnectedCount,
   received     |-> receiveCount]

\* A round of the service begins; a summary without a peak ends it at once.
TakeSummary ==
  /\ summary = NoSummary
  /\ peakConnectedCount > 0
  /\ summary' = Summary
  /\ UNCHANGED <<counterVars, lastSummary, firstSummary, printed>>

\* (mutant) The service reads the counter again for what it remembers.
PrintSummaryReadAgain ==
  /\ summary # NoSummary
  /\ printed' = IF lastSummary = NoSummary
                  THEN printed
                  ELSE [f \in DOMAIN printed |-> printed[f] + summary[f] - lastSummary[f]]
  /\ firstSummary' = IF lastSummary = NoSummary THEN Summary ELSE firstSummary
  /\ lastSummary' = Summary
  /\ summary' = NoSummary
  /\ UNCHANGED counterVars

\* The differences are printed, but for the first summary, which is only
\* remembered; then the service sleeps for a second.
PrintSummary ==
  /\ summary # NoSummary
  /\ printed' = IF lastSummary = NoSummary
                  THEN printed
                  ELSE [f \in DOMAIN printed |-> printed[f] + summary[f] - lastSummary[f]]
  /\ firstSummary' = IF lastSummary = NoSummary THEN summary ELSE firstSummary
  /\ lastSummary' = summary
  /\ summary' = NoSummary
  /\ UNCHANGED counterVars

Next ==
  \/ Connected
  \/ Disconnected
  \/ \E n \in Lengths : Receive(n)
  \/ TakeSummary
  \/ PrintSummary

Spec == Init /\ [][Next]_vars

-----------------------------------------------------------------------------
(***************************************************************************)
(* Properties                                                              *)
(***************************************************************************)

Summaries ==
  [connected : 0..IntMax, disconnected : 0..IntMax, current : 0..IntMax, peak : 1..IntMax,
   received : (-IntMax - 1)..IntMax]

\* The types: the counts of connections never leave the range of an int, the
\* count of characters may become negative.
TypeOK ==
  /\ totalConnectedCount \in 0..MaxConnections
  /\ peakConnectedCount \in 0..MaxConnections
  /\ totalDisconnectedCount \in 0..MaxConnections
  /\ receiveCount \in (-IntMax - 1)..IntMax
  /\ summary \in Summaries \cup {NoSummary}
  /\ lastSummary \in Summaries \cup {NoSummary}
  /\ firstSummary \in Summaries \cup {NoSummary}
  /\ printed \in [connected : Int, disconnected : Int, current : Int]
  /\ received \in Nat

\* The fields of a summary agree with each other.
Consistent(s) ==
  /\ s.current = s.connected - s.disconnected
  /\ s.current <= s.peak
  /\ s.peak <= s.connected
  /\ s.disconnected <= s.connected

\* No count is ahead of the other summary's.
NoLaterThan(s, t) ==
  /\ s.connected <= t.connected
  /\ s.disconnected <= t.disconnected
  /\ s.peak <= t.peak

\* Summaries are snapshots: the fields of each agree with each other although
\* hubs count while the service prints, and no count ever runs backwards from
\* one report to the next, or from a report to the counter.
SnapshotsInOrder ==
  /\ Consistent(Summary)
  /\ summary # NoSummary => Consistent(summary) /\ NoLaterThan(summary, Summary)
  /\ lastSummary # NoSummary => Consistent(lastSummary) /\ NoLaterThan(lastSummary, Summary)
  /\ lastSummary # NoSummary /\ summary # NoSummary => NoLaterThan(lastSummary, summary)

\* Nothing is lost between two reports: the differences printed so far and the
\* first summary, which is never printed, add up to the last one.
PrintedAddsUp ==
  /\ (firstSummary = NoSummary) = (lastSummary = NoSummary)
  /\ \A f \in DOMAIN printed : firstSummary[f] + printed[f] = lastSummary[f]

\* The peak is the high-water mark: it only moves up, and only to a number of
\* connections that are open at that moment.
PeakIsReached ==
  [][peakConnectedCount' # peakConnectedCount =>
       /\ peakConnectedCount' > peakConnectedCount
       /\ peakConnectedCount' = CurrentConnections']_vars

\* The count of characters is exact up to whole turns of an int: it never loses
\* a character, but it is the number received only while that fits.
ReceivedUpToTurns ==
  \E turns \in 0..received : received = receiveCount + turns * (2 * (IntMax + 1))

=============================================================================
