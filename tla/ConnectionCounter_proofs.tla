---------------------- MODULE ConnectionCounter_proofs ----------------------
(***************************************************************************)
(* What ConnectionCounter keeps, for every width of an int, every set of   *)
(* payload lengths and every number of connections.                        *)
(***************************************************************************)
EXTENDS ConnectionCounter, TLAPS

\* The invariants together are inductive: the order of the summaries needs
\* their types, and the types of a summary need that the counter agrees with
\* itself.
IInv == TypeOK /\ SnapshotsInOrder /\ PrintedAddsUp

\* NoSummary is told from every summary of the counter by its peak.
LEMMA NoSummaryFresh ==
  /\ NoSummary \notin Summaries
  /\ \A s \in Summaries : s # NoSummary
BY DEF NoSummary, Summaries

\* The initial state satisfies the invariant.
LEMMA InitIInv == Init => IInv
<1> SUFFICES ASSUME Init PROVE IInv
  OBVIOUS
<1> USE IntMaxAssumption, MaxConnectionsAssumption
<1>1. TypeOK
  BY DEF Init, TypeOK
<1>2. SnapshotsInOrder
  BY DEF Init, SnapshotsInOrder, Summary, Consistent, CurrentConnections
<1>3. PrintedAddsUp
  BY DEF Init, PrintedAddsUp, NoSummary
<1> QED
  BY <1>1, <1>2, <1>3 DEF IInv

\* A connection or a disconnection moves every count of the counter forward,
\* the summaries that were taken before stay behind it.
LEMMA CountsMoveOn ==
  ASSUME IInv, Connected \/ Disconnected
  PROVE  IInv'
<1> USE IntMaxAssumption, MaxConnectionsAssumption
<1>1. /\ UNCHANGED serviceVars
      /\ UNCHANGED <<receiveCount, received>>
  BY DEF Connected, Disconnected
<1>2. TypeOK'
  BY <1>1 DEF IInv, TypeOK, Connected, Disconnected, LargerOf, CurrentConnections, serviceVars
<1>3. Consistent(Summary')
  BY DEF IInv, TypeOK, SnapshotsInOrder, Consistent, Summary, Connected, Disconnected,
         LargerOf, CurrentConnections
<1>4. \A s \in Summaries : NoLaterThan(s, Summary) => NoLaterThan(s, Summary')
  BY DEF IInv, TypeOK, NoLaterThan, Summary, Summaries, Connected, Disconnected,
         LargerOf, CurrentConnections
<1>5. SnapshotsInOrder'
  <2>1. summary' # NoSummary => Consistent(summary') /\ NoLaterThan(summary', Summary')
    BY <1>1, <1>4 DEF IInv, TypeOK, SnapshotsInOrder, serviceVars
  <2>2. lastSummary' # NoSummary => Consistent(lastSummary') /\ NoLaterThan(lastSummary', Summary')
    BY <1>1, <1>4 DEF IInv, TypeOK, SnapshotsInOrder, serviceVars
  <2>3. lastSummary' # NoSummary /\ summary' # NoSummary => NoLaterThan(lastSummary', summary')
    BY <1>1 DEF IInv, SnapshotsInOrder, serviceVars
  <2> QED
    BY <1>3, <2>1, <2>2, <2>3 DEF SnapshotsInOrder
<1>6. PrintedAddsUp'
  BY <1>1 DEF IInv, PrintedAddsUp, serviceVars
<1> QED
  BY <1>2, <1>5, <1>6 DEF IInv

\* A sum of two counts of an int is an int again, and differs from the sum by
\* nothing or by one turn.
LEMMA PlusIsInt ==
  ASSUME NEW a \in (-IntMax - 1)..IntMax, NEW n \in 0..IntMax
  PROVE  /\ Plus(a, n) \in (-IntMax - 1)..IntMax
         /\ Plus(a, n) = a + n \/ Plus(a, n) = a + n - 2 * (IntMax + 1)
BY IntMaxAssumption DEF Plus

\* Receiving a payload concerns no connection.
LEMMA ReceiveKeeps ==
  ASSUME IInv, NEW n \in Lengths, Receive(n)
  PROVE  IInv'
<1>1. n \in 0..IntMax
  BY LengthsAssumption
<1>2. UNCHANGED <<totalConnectedCount, peakConnectedCount, totalDisconnectedCount, serviceVars>>
  BY DEF Receive
<1>3. TypeOK'
  <2>1. receiveCount' \in (-IntMax - 1)..IntMax
    BY <1>1, PlusIsInt DEF Receive, IInv, TypeOK
  <2>2. received' \in Nat
    BY <1>1, IntMaxAssumption DEF Receive, IInv, TypeOK
  <2> QED
    BY <1>2, <2>1, <2>2 DEF IInv, TypeOK, serviceVars
<1>4. /\ Consistent(Summary)' = Consistent(Summary)
      /\ \A s : NoLaterThan(s, Summary') = NoLaterThan(s, Summary)
  BY <1>2 DEF Consistent, NoLaterThan, Summary, CurrentConnections
<1>5. SnapshotsInOrder'
  BY <1>2, <1>4 DEF IInv, SnapshotsInOrder, serviceVars, Consistent, NoLaterThan
<1>6. PrintedAddsUp'
  BY <1>2 DEF IInv, PrintedAddsUp, serviceVars
<1> QED
  BY <1>3, <1>5, <1>6 DEF IInv

\* The summary that is taken is the counter's, and no earlier than the last.
LEMMA TakeKeeps ==
  ASSUME IInv, TakeSummary
  PROVE  IInv'
<1> USE IntMaxAssumption, MaxConnectionsAssumption
<1>1. Summary \in Summaries
  BY DEF IInv, TypeOK, TakeSummary, SnapshotsInOrder, Consistent, Summary, Summaries, CurrentConnections
<1>2. UNCHANGED <<counterVars, lastSummary, firstSummary, printed>> /\ summary' = Summary
  BY DEF TakeSummary
<1>3. TypeOK'
  BY <1>1, <1>2 DEF IInv, TypeOK, counterVars
<1>4. Summary' = Summary
  BY <1>2 DEF Summary, CurrentConnections, counterVars
<1>5. NoLaterThan(Summary, Summary)
  BY DEF IInv, TypeOK, NoLaterThan, Summary
<1>6. SnapshotsInOrder'
  BY <1>2, <1>4, <1>5 DEF IInv, SnapshotsInOrder
<1>7. PrintedAddsUp'
  BY <1>2 DEF IInv, PrintedAddsUp
<1> QED
  BY <1>3, <1>6, <1>7 DEF IInv

\* Printing hands the summary over: it was in order before, and the difference
\* to the last one is what the sums miss.
LEMMA PrintKeeps ==
  ASSUME IInv, PrintSummary
  PROVE  IInv'
<1>1. /\ UNCHANGED counterVars
      /\ summary # NoSummary
      /\ summary' = NoSummary
      /\ lastSummary' = summary
      /\ summary \in Summaries
  BY DEF PrintSummary, IInv, TypeOK
<1>2. DOMAIN printed = {"connected", "disconnected", "current"}
  BY DEF IInv, TypeOK
<1>3. CASE lastSummary = NoSummary
  <2>1. printed' = printed /\ firstSummary' = summary
    BY <1>3 DEF PrintSummary
  <2>2. firstSummary = NoSummary
    BY <1>3 DEF IInv, PrintedAddsUp
  <2>3. TypeOK'
    BY <1>1, <2>1 DEF IInv, TypeOK, counterVars
  <2> QED
    <3>1. SnapshotsInOrder'
      BY <1>1 DEF IInv, SnapshotsInOrder, Summary, CurrentConnections, counterVars
    <3>2. PrintedAddsUp'
      <4>1. printed = [connected |-> 0, disconnected |-> 0, current |-> 0]
        BY <1>2, <1>3, <2>2 DEF IInv, PrintedAddsUp, TypeOK, NoSummary
      <4> QED
        BY <1>1, <1>2, <2>1, <4>1 DEF PrintedAddsUp, Summaries
    <3> QED
      BY <2>3, <3>1, <3>2 DEF IInv
<1>4. CASE lastSummary # NoSummary
  <2>1. lastSummary \in Summaries /\ firstSummary \in Summaries
    BY <1>4 DEF IInv, TypeOK, PrintedAddsUp
  <2>2. /\ firstSummary' = firstSummary
        /\ printed' = [f \in DOMAIN printed |-> printed[f] + summary[f] - lastSummary[f]]
    BY <1>4 DEF PrintSummary
  <2>3. printed' \in [connected : Int, disconnected : Int, current : Int]
    BY <1>1, <1>2, <2>1, <2>2 DEF IInv, TypeOK, Summaries
  <2>4. TypeOK'
    BY <1>1, <2>2, <2>3 DEF IInv, TypeOK, counterVars
  <2>5. SnapshotsInOrder'
    BY <1>1 DEF IInv, SnapshotsInOrder, Summary, CurrentConnections, counterVars
  <2>6. \A f \in DOMAIN printed : firstSummary[f] + printed[f] = lastSummary[f]
    BY <1>4 DEF IInv, PrintedAddsUp
  <2>7. \A f \in DOMAIN printed' : firstSummary[f] + printed'[f] = summary[f]
    BY <1>1, <1>2, <2>1, <2>2, <2>6 DEF IInv, TypeOK, Summaries
  <2>8. PrintedAddsUp'
    BY <1>1, <2>1, <2>2, <2>7, NoSummaryFresh DEF PrintedAddsUp
  <2> QED
    BY <2>4, <2>5, <2>8 DEF IInv
<1> QED
  BY <1>3, <1>4

\* A step that changes nothing keeps the invariant.
LEMMA StutterKeeps ==
  ASSUME IInv, UNCHANGED vars
  PROVE  IInv'
BY DEF IInv, TypeOK, SnapshotsInOrder, PrintedAddsUp, vars, counterVars, serviceVars, Summary,
       CurrentConnections

\* The invariant holds in every reachable state.
LEMMA Inductive == Spec => []IInv
<1>1. IInv /\ [Next]_vars => IInv'
  BY CountsMoveOn, ReceiveKeeps, TakeKeeps, PrintKeeps, StutterKeeps DEF Next
<1> QED
  BY InitIInv, <1>1, PTL DEF Spec

\* Every variable keeps its type: an int is wide enough for the counts of
\* connections, whatever the hubs do.
THEOREM CounterTypes == Spec => []TypeOK
BY Inductive, PTL DEF IInv

\* The summaries of HostedCounterService are snapshots, and their counts never
\* run backwards.
THEOREM SnapshotsSafe == Spec => []SnapshotsInOrder
BY Inductive, PTL DEF IInv

\* The printed differences add up to the last summary.
THEOREM PrintedSafe == Spec => []PrintedAddsUp
BY Inductive, PTL DEF IInv

\* The peak moves only up, and only to a number of open connections.
THEOREM PeakSafe == Spec => PeakIsReached
<1>1. IInv /\ [Next]_vars =>
        [peakConnectedCount' # peakConnectedCount =>
           /\ peakConnectedCount' > peakConnectedCount
           /\ peakConnectedCount' = CurrentConnections']_vars
  <2> SUFFICES ASSUME IInv, Next, peakConnectedCount' # peakConnectedCount
               PROVE  /\ peakConnectedCount' > peakConnectedCount
                      /\ peakConnectedCount' = CurrentConnections'
    BY DEF vars
  <2>1. Connected
    BY DEF Next, Disconnected, Receive, TakeSummary, PrintSummary, counterVars
  <2> QED
    BY <2>1, MaxConnectionsAssumption DEF IInv, TypeOK, Connected, LargerOf, CurrentConnections
<1> QED
  BY Inductive, <1>1, PTL DEF Spec, PeakIsReached

\* A turn of the int lowers what is missing by what is received.
LEMMA OneTurnMore ==
  ASSUME NEW turns \in Int, NEW a \in Int, NEW n \in Int, NEW width \in Int
  PROVE  a + turns * width + n = (a + n - width) + (turns + 1) * width
<1>1. (turns + 1) * width = turns * width + width
  OBVIOUS
<1>2. turns * width \in Int
  OBVIOUS
<1> QED
  BY <1>1, <1>2

\* There are no more turns than characters, whatever the width.
LEMMA TurnsAreFew ==
  ASSUME NEW k \in Nat \ {0}, NEW half \in Nat \ {0}
  PROVE  k * (2 * half) - half >= k
<1>1. (2 * k - 1) * (half - 1) >= 0
  <2>1. 2 * k - 1 \in Nat /\ half - 1 \in Nat
    OBVIOUS
  <2>2. \A m, n \in Nat : m * n >= 0
    OBVIOUS
  <2> QED
    BY <2>1, <2>2
<1>2. (2 * k - 1) * (half - 1) = k * (2 * half) - half - 2 * k + 1
  OBVIOUS
<1>3. k * (2 * half) \in Int
  OBVIOUS
<1> QED
  BY <1>1, <1>2, <1>3

\* The count of characters equals the number received up to whole turns of the
\* int, for every width.
THEOREM ReceivedSafe == Spec => []ReceivedUpToTurns
<1>1. Init => ReceivedUpToTurns
  <2> SUFFICES ASSUME Init PROVE ReceivedUpToTurns
    OBVIOUS
  <2>1. 0 \in 0..received /\ received = receiveCount + 0 * (2 * (IntMax + 1))
    BY IntMaxAssumption DEF Init
  <2> QED
    BY <2>1 DEF ReceivedUpToTurns
<1>2. ASSUME IInv, ReceivedUpToTurns, [Next]_vars
      PROVE  ReceivedUpToTurns'
  <2>1. CASE UNCHANGED <<receiveCount, received>>
    BY <1>2, <2>1 DEF ReceivedUpToTurns
  <2>2. ASSUME NEW n \in Lengths, Receive(n)
        PROVE  ReceivedUpToTurns'
    <3> DEFINE width == 2 * (IntMax + 1)
    <3>1. n \in 0..IntMax /\ width \in Nat /\ width > 0 /\ IntMax < width
      BY LengthsAssumption, IntMaxAssumption
    <3>2. receiveCount \in (-IntMax - 1)..IntMax /\ received \in Nat
      BY <1>2 DEF IInv, TypeOK
    <3>3. PICK turns \in 0..received : received = receiveCount + turns * width
      BY <1>2 DEF ReceivedUpToTurns
    <3>4. received' = received + n /\ receiveCount' = Plus(receiveCount, n)
      BY <2>2 DEF Receive
    <3>5. CASE receiveCount' = receiveCount + n
      <4>1. turns \in 0..received' /\ turns * width \in Int
        BY <3>1, <3>2, <3>3, <3>4
      <4>2. received' = receiveCount' + turns * width
        BY <3>1, <3>2, <3>3, <3>4, <3>5, <4>1
      <4> QED
        BY <4>1, <4>2 DEF ReceivedUpToTurns
    <3>6. CASE receiveCount' = receiveCount + n - width
      <4>1. received' = receiveCount' + (turns + 1) * width
        BY <3>1, <3>2, <3>3, <3>4, <3>6, OneTurnMore
      <4>2. turns + 1 \in 0..received'
        <5>1. turns + 1 \in Nat \ {0} /\ IntMax + 1 \in Nat \ {0}
          BY <3>2, IntMaxAssumption
        <5>2. (turns + 1) * width - (IntMax + 1) >= turns + 1
          BY <5>1, TurnsAreFew
        <5>3. receiveCount' >= -(IntMax + 1) /\ receiveCount' \in Int
          BY <3>1, <3>2, <3>4, PlusIsInt, IntMaxAssumption
        <5>4. (turns + 1) * width \in Int
          BY <5>1, <3>1
        <5> QED
          BY <4>1, <5>1, <5>2, <5>3, <5>4, <3>1, <3>2, <3>4
      <4> QED
        BY <4>1, <4>2 DEF ReceivedUpToTurns
    <3> QED
      BY <3>2, <3>1, <3>4, <3>5, <3>6, PlusIsInt
  <2>3. CASE UNCHANGED vars
    BY <2>1, <2>3 DEF vars, counterVars
  <2>4. Connected \/ Disconnected => UNCHANGED <<receiveCount, received>>
    BY DEF Connected, Disconnected
  <2>5. TakeSummary \/ PrintSummary => UNCHANGED <<receiveCount, received>>
    BY DEF TakeSummary, PrintSummary, counterVars
  <2> QED
    BY <1>2, <2>1, <2>2, <2>3, <2>4, <2>5 DEF Next
<1> QED
  BY Inductive, <1>1, <1>2, PTL DEF Spec

=============================================================================
