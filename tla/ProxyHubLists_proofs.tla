----------------------- MODULE ProxyHubLists_proofs -----------------------
(***************************************************************************)
(* The student lists that the connections fill without a lock: a student   *)
(* whose Add overlapped no other is kept, whatever the Adds do to each     *)
(* other before and after it, and the flags of connections that are gone   *)
(* are right.  For all sets of connections, codes and threads.             *)
(***************************************************************************)
EXTENDS ProxyHub_proofs

\* A slot holds a student that was added to this list, or null, and a student has
\* one slot at most; the array is as long as the list and as what a call in
\* progress has read of it.
SlotsInv ==
  /\ \A t \in Teachers :
       /\ size[t] <= Len(items[t])
       /\ \A i \in 1..Len(items[t]) : items[t][i] # None =>
            items[t][i] \in AddedStudents /\ adding[items[t][i]].teacher = t
       /\ \A i, j \in 1..Len(items[t]) : items[t][i] # None /\ items[t][i] = items[t][j] => i = j
  /\ \A s \in Students : pc[s] \in {"adding", "sized"} =>
       adding[s].size <= Len(items[adding[s].teacher])

\* An Add that overlaps no other is alone and has read the right size; its
\* student then has a slot in the list that no call in progress will write to.
Kept(s) ==
  LET t == adding[s].teacher
  IN  IF s \in AddedStudents
        THEN \E k \in 1..size[t] : items[t][k] = s /\ \A v \in Adders(t) : k <= adding[v].size
        ELSE /\ Adders(t) = {s}
             /\ size[t] = IF pc[s] = "adding" THEN adding[s].size ELSE adding[s].size + 1

KeptInv == \A s \in Students \ history.raced : adding[s].teacher # None => Kept(s)

ListsInv == SlotsInv /\ KeptInv

\* A connection that has not registered is neither in the bag nor in a list; one
\* that is gone is not online, where a lookup might find it.
OnlineInv ==
  /\ \A t \in Teachers : pc[t] \in {"new", "connecting", "idle"} => t \notin Registered
  /\ \A t \in Teachers : pc[t] \in {"left", "closed"} /\ isConnected[t] /\ t \in Registered =>
       t \in history.failed
  /\ \A s \in Students : pc[s] \in {"left", "closed"} /\ isConnected[s] /\ adding[s].teacher # None =>
       s \in history.failed \cup history.raced

LInv == IInv /\ ListsInv /\ OnlineInv

-----------------------------------------------------------------------------
(***************************************************************************)
(* The lists                                                               *)
(***************************************************************************)

LEMMA SlotWritten ==
  ASSUME NEW S, NEW q \in Seq(S), NEW i, NEW e \in S
  PROVE  /\ [q EXCEPT ![i] = e] \in Seq(S) /\ Len([q EXCEPT ![i] = e]) = Len(q)
         /\ \A j \in 1..Len(q) : [q EXCEPT ![i] = e][j] = IF j = i THEN e ELSE q[j]
<1>1. q \in [1..Len(q) -> S] /\ Len(q) \in Nat
  OBVIOUS
<1> DEFINE w == [q EXCEPT ![i] = e]
<1>2. w \in [1..Len(q) -> S] /\ \A j \in 1..Len(q) : w[j] = IF j = i THEN e ELSE q[j]
  BY <1>1
<1> HIDE DEF w
<1>3. w \in Seq(S) /\ Len(w) = Len(q)
  BY <1>1, <1>2
<1> QED
  BY <1>2, <1>3 DEF w

LEMMA SlotAppended ==
  ASSUME NEW S, NEW q \in Seq(S), NEW e \in S
  PROVE  /\ Len(q) \in Nat /\ Len(Append(q, e)) = Len(q) + 1
         /\ \A j \in 1..Len(q) : Append(q, e)[j] = q[j]
         /\ Append(q, e)[Len(q) + 1] = e
OBVIOUS

LEMMA ConcatFacts ==
  \A q, r \in Seq(Teachers) :
    /\ q \o r \in Seq(Teachers) /\ Len(q) \in Nat /\ Len(r) \in Nat
    /\ Len(q \o r) = Len(q) + Len(r)
    /\ \A i \in 1..Len(q) : (q \o r)[i] = q[i]
    /\ \A i \in 1..Len(r) : (q \o r)[Len(q) + i] = r[i]
OBVIOUS

LEMMA ListFacts ==
  ASSUME IInv
  PROVE  /\ pc \in [Conn -> States] /\ Students \subseteq Conn /\ None \notin Students
         /\ items \in [Teachers -> Seq(Students \cup {None})] /\ size \in [Teachers -> Nat]
         /\ \A t \in Teachers : items[t] \in Seq(Students \cup {None}) /\ Len(items[t]) \in Nat /\ size[t] \in Nat
         /\ adding \in [Students -> [teacher : Teachers \cup {None}, size : Nat]]
         /\ \A s \in Students : adding[s].teacher \in Teachers \cup {None} /\ adding[s].size \in Nat
BY ConnAssumption DEF IInv, TypeOK, ConnectionTypeOK, StorageTypeOK, CallTypeOK, Conn

\* A step that leaves the lists and the calls that add to them alone.
LEMMA ListsUntouched ==
  ASSUME ListsInv, UNCHANGED <<items, size, adding>>, history'.raced = history.raced,
         \A s \in Students :
           pc[s] \in {"adding", "sized"} \/ pc'[s] \in {"adding", "sized"} => pc'[s] = pc[s]
  PROVE  ListsInv'
<1>1. \A u \in Teachers \cup {None} : Adders(u)' = Adders(u)
  BY DEF Adders
<1>2. AddedStudents' = AddedStudents
  BY DEF AddedStudents
<1>3. SlotsInv'
  BY <1>2 DEF ListsInv, SlotsInv
<1>4. ASSUME NEW s \in Students \ history.raced, adding[s].teacher # None PROVE Kept(s)'
  <2>1. Kept(s)
    BY <1>4 DEF ListsInv, KeptInv
  <2>2. Adders(adding[s].teacher)' = Adders(adding[s].teacher)
    BY DEF Adders
  <2>3. s \notin AddedStudents => pc'[s] = pc[s]
    BY <1>4 DEF AddedStudents
  <2> QED
    BY <1>2, <2>1, <2>2, <2>3 DEF Kept
<1> QED
  BY <1>3, <1>4 DEF ListsInv, KeptInv

\* A student of another list keeps its slot.
LEMMA KeptElsewhere ==
  ASSUME NEW v \in Students, NEW u \in Teachers, u = adding[v].teacher, Kept(v),
         adding'[v] = adding[v], pc'[v] = pc[v], items'[u] = items[u], size'[u] = size[u],
         Adders(u)' = Adders(u), \A w \in Adders(u) : adding'[w] = adding[w]
  PROVE  Kept(v)'
<1>1. v \in AddedStudents' <=> v \in AddedStudents
  BY DEF AddedStudents
<1> QED
  BY <1>1 DEF Kept

LEMMA ListsAddStudent ==
  ASSUME IInv, ListsInv, NEW s \in Students, AddStudent(s)
  PROVE  ListsInv'
<1>0. /\ pc \in [Conn -> States] /\ s \in Conn
      /\ adding \in [Students -> [teacher : Teachers \cup {None}, size : Nat]]
      /\ size \in [Teachers -> Nat]
  BY ListFacts
<1>1. PICK t \in Teachers : t = FirstTeacher(CodeOf[s])
  BY LookedUp DEF AddStudent, Goto
<1>2. /\ pc[s] = "checked" /\ pc' = [pc EXCEPT ![s] = "adding"] /\ UNCHANGED <<items, size>>
      /\ adding' = [adding EXCEPT ![s] = [teacher |-> t, size |-> size[t]]]
      /\ history' = [history EXCEPT !.raced = history.raced \cup Overlapping(s, t)]
  BY <1>1 DEF AddStudent, Goto
<1>3. adding[s].teacher = None /\ pc[s] \notin {"adding", "sized"} /\ None \notin Teachers
  BY <1>2, ConnFacts DEF IInv, LookupInv
<1>4. /\ pc'[s] = "adding" /\ adding'[s].teacher = t /\ adding'[s].size = size[t]
      /\ \A v \in Students \ {s} : pc'[v] = pc[v] /\ adding'[v] = adding[v]
  BY <1>0, <1>2
<1>5. AddedStudents' = AddedStudents /\ s \notin AddedStudents
  BY <1>3, <1>4 DEF AddedStudents
<1>6. \A u \in Teachers : Adders(u)' = IF u = t THEN Adders(t) \cup {s} ELSE Adders(u)
  BY <1>3, <1>4 DEF Adders
<1>7. SlotsInv'
  <2>1. \A v \in AddedStudents : adding'[v] = adding[v]
    BY <1>4, <1>5 DEF AddedStudents
  <2>2. \A v \in Students : pc'[v] \in {"adding", "sized"} => adding'[v].size <= Len(items[adding'[v].teacher])
    BY <1>4 DEF ListsInv, SlotsInv
  <2> QED
    BY <1>2, <1>5, <2>1, <2>2 DEF ListsInv, SlotsInv
<1>8. history'.raced = history.raced \cup Overlapping(s, t)
  BY <1>2 DEF IInv, TypeOK, HistoryTypeOK
<1>9. ASSUME NEW v \in Students, v \notin history'.raced, adding'[v].teacher # None PROVE Kept(v)'
  <2>1. CASE v = s
    <3>1. Adders(t) = {}
      BY <1>8, <1>9, <2>1 DEF Overlapping
    <3> QED
      BY <1>2, <1>4, <1>5, <1>6, <2>1, <3>1 DEF Kept
  <2>2. CASE v # s
    <3>1. Kept(v) /\ adding'[v] = adding[v] /\ pc'[v] = pc[v] /\ adding[v].teacher \in Teachers
      BY <1>0, <1>4, <1>8, <1>9, <2>2 DEF ListsInv, KeptInv
    <3>2. CASE adding[v].teacher # t
      <4>1. PICK u \in Teachers : u = adding[v].teacher
        BY <3>1
      <4>2. \A w \in Adders(u) : adding'[w] = adding[w]
        BY <1>3, <1>4 DEF Adders
      <4> QED
        BY <1>2, <1>6, <3>1, <3>2, <4>1, <4>2, KeptElsewhere
    <3>3. CASE adding[v].teacher = t
      <4>1. v \notin Adders(t)
        BY <1>8, <1>9 DEF Overlapping
      <4>2. v \in AddedStudents
        BY <3>1, <3>3, <4>1 DEF Kept
      <4>3. PICK k \in 1..size[t] : items[t][k] = v /\ \A w \in Adders(t) : k <= adding[w].size
        BY <3>1, <3>3, <4>2 DEF Kept
      <4>4. \A w \in Adders(t)' : k <= adding'[w].size
        BY <1>0, <1>4, <1>6, <4>3 DEF Adders
      <4> QED
        BY <1>2, <1>5, <3>1, <3>3, <4>2, <4>3, <4>4 DEF Kept
    <3> QED
      BY <3>2, <3>3
  <2> QED
    BY <2>1, <2>2
<1> QED
  BY <1>7, <1>9 DEF ListsInv, KeptInv

LEMMA ListsWriteSize ==
  ASSUME IInv, ListsInv, NEW s \in Students, WriteSize(s)
  PROVE  ListsInv'
<1>0. /\ pc \in [Conn -> States] /\ s \in Conn /\ None \notin Students
      /\ items \in [Teachers -> Seq(Students \cup {None})] /\ size \in [Teachers -> Nat]
      /\ \A v \in Students : adding[v].teacher \in Teachers \cup {None} /\ adding[v].size \in Nat
  BY ListFacts
<1>1. PICK t \in Teachers, n \in Nat : t = adding[s].teacher /\ n = adding[s].size
  BY LookedUp, ListFacts DEF WriteSize, Goto
<1>2. /\ pc[s] = "adding" /\ pc' = [pc EXCEPT ![s] = "sized"] /\ UNCHANGED <<adding, history>>
      /\ size' = [size EXCEPT ![t] = n + 1]
      /\ items' = IF n < Len(items[t]) THEN items ELSE [items EXCEPT ![t] = Append(items[t], None)]
  BY <1>1 DEF WriteSize, Goto
<1>3. /\ pc'[s] = "sized" /\ \A v \in Students \ {s} : pc'[v] = pc[v]
      /\ size'[t] = n + 1
      /\ \A u \in Teachers \ {t} : size'[u] = size[u] /\ items'[u] = items[u]
  BY <1>0, <1>2
<1>4. AddedStudents' = AddedStudents /\ \A u \in Teachers : Adders(u)' = Adders(u)
  BY <1>2, <1>3 DEF AddedStudents, Adders
<1>5. s \in Adders(t) /\ s \notin AddedStudents
  BY <1>1, <1>2 DEF Adders, AddedStudents
<1>6. /\ Len(items[t]) \in Nat /\ n <= Len(items[t]) /\ size[t] \in Nat /\ size[t] <= Len(items[t])
      /\ \A j \in 1..Len(items[t]) : items'[t][j] = items[t][j]
      /\ IF n < Len(items[t]) THEN Len(items'[t]) = Len(items[t])
         ELSE Len(items'[t]) = Len(items[t]) + 1 /\ items'[t][Len(items[t]) + 1] = None
  <2>1. n <= Len(items[t]) /\ size[t] <= Len(items[t])
    BY <1>1, <1>2 DEF ListsInv, SlotsInv
  <2>2. items[t] \in Seq(Students \cup {None}) /\ None \in Students \cup {None} /\ size[t] \in Nat
    BY <1>0
  <2>3. items'[t] = IF n < Len(items[t]) THEN items[t] ELSE Append(items[t], None)
    BY <1>0, <1>2
  <2> QED
    BY <2>1, <2>2, <2>3, SlotAppended
<1>7. SlotsInv'
  <2>1. ASSUME NEW u \in Teachers
        PROVE  /\ size'[u] <= Len(items'[u]) /\ Len(items[u]) <= Len(items'[u])
               /\ \A i \in 1..Len(items'[u]) : items'[u][i] # None =>
                    i \in 1..Len(items[u]) /\ items'[u][i] = items[u][i]
    <3>1. CASE u = t
      <4>1. \A i \in 1..(Len(items[t]) + 1) : i \in 1..Len(items[t]) \/ i = Len(items[t]) + 1
        BY <1>6
      <4> QED
        BY <1>3, <1>6, <3>1, <4>1
    <3>2. CASE u # t
      BY <1>2, <1>3, <3>2, ListFacts DEF ListsInv, SlotsInv
    <3> QED
      BY <3>1, <3>2
  <2>2. ASSUME NEW v \in Students, pc'[v] \in {"adding", "sized"}
        PROVE  adding'[v].size <= Len(items'[adding'[v].teacher])
    <3>1. pc[v] \in {"adding", "sized"}
      BY <1>2, <1>3, <2>2
    <3>2. adding[v].teacher \in Teachers /\ adding[v].size <= Len(items[adding[v].teacher])
      BY <3>1, LookedUp DEF ListsInv, SlotsInv
    <3>3. PICK u \in Teachers : u = adding[v].teacher
      BY <3>2
    <3>4. Len(items[u]) <= Len(items'[u]) /\ Len(items[u]) \in Nat /\ adding[v].size \in Nat
      BY <2>1, ListFacts
    <3>5. Len(items'[u]) \in Nat
      BY <1>3, <1>6, <3>4
    <3> QED
      BY <1>2, <3>2, <3>3, <3>4, <3>5
  <2>3. ASSUME NEW u \in Teachers
        PROVE  /\ \A i \in 1..Len(items'[u]) : items'[u][i] # None =>
                    items'[u][i] \in AddedStudents /\ adding[items'[u][i]].teacher = u
               /\ \A i, j \in 1..Len(items'[u]) : items'[u][i] # None /\ items'[u][i] = items'[u][j] => i = j
    <3>1. /\ \A i \in 1..Len(items[u]) : items[u][i] # None =>
               items[u][i] \in AddedStudents /\ adding[items[u][i]].teacher = u
          /\ \A i, j \in 1..Len(items[u]) : items[u][i] # None /\ items[u][i] = items[u][j] => i = j
      BY DEF ListsInv, SlotsInv
    <3>2. ASSUME NEW i \in 1..Len(items'[u]), items'[u][i] # None
          PROVE  items'[u][i] \in AddedStudents /\ adding[items'[u][i]].teacher = u
      BY <2>1, <3>1, <3>2
    <3>3. ASSUME NEW i \in 1..Len(items'[u]), NEW j \in 1..Len(items'[u]),
                 items'[u][i] # None, items'[u][i] = items'[u][j]
          PROVE  i = j
      <4>1. i \in 1..Len(items[u]) /\ items'[u][i] = items[u][i]
        BY <2>1, <3>3
      <4>2. j \in 1..Len(items[u]) /\ items'[u][j] = items[u][j]
        BY <2>1, <3>3
      <4> QED
        BY <3>1, <3>3, <4>1, <4>2
    <3> QED
      BY <3>2, <3>3
  <2> QED
    BY <1>2, <1>4, <2>1, <2>2, <2>3 DEF SlotsInv
<1>8. ASSUME NEW v \in Students \ history.raced, adding[v].teacher # None PROVE Kept(v)'
  <2>0. Kept(v) /\ adding[v].teacher \in Teachers
    BY <1>0, <1>8 DEF ListsInv, KeptInv
  <2>1. CASE v = s
    <3>1. Adders(t) = {s} /\ size[t] = n
      BY <1>1, <1>2, <1>5, <2>0, <2>1 DEF Kept
    <3> QED
      BY <1>1, <1>2, <1>3, <1>4, <1>5, <2>1, <3>1 DEF Kept
  <2>2. CASE v # s /\ adding[v].teacher # t
    <3>1. PICK u \in Teachers : u = adding[v].teacher
      BY <2>0
    <3> QED
      BY <1>2, <1>3, <1>4, <2>0, <2>2, <3>1, KeptElsewhere
  <2>3. CASE v # s /\ adding[v].teacher = t
    <3>1. v \in AddedStudents
      BY <1>5, <2>0, <2>3 DEF Kept
    <3>2. PICK k \in 1..size[t] : items[t][k] = v /\ \A w \in Adders(t) : k <= adding[w].size
      BY <2>0, <2>3, <3>1 DEF Kept
    <3>3. k <= n /\ k \in Nat
      BY <1>1, <1>5, <1>6, <3>2
    <3>4. k \in 1..size'[t] /\ items'[t][k] = v
      BY <1>3, <1>6, <3>2, <3>3
    <3>5. adding'[v].teacher = t /\ v \in AddedStudents' /\ \A w \in Adders(t)' : k <= adding'[w].size
      BY <1>2, <1>4, <2>3, <3>1, <3>2
    <3> QED
      BY <3>4, <3>5 DEF Kept
  <2> QED
    BY <2>1, <2>2, <2>3
<1> QED
  BY <1>2, <1>7, <1>8 DEF ListsInv, KeptInv

LEMMA ListsWriteSlot ==
  ASSUME IInv, ListsInv, NEW s \in Students, WriteSlot(s)
  PROVE  ListsInv'
<1>0. /\ pc \in [Conn -> States] /\ s \in Conn /\ None \notin Students
      /\ items \in [Teachers -> Seq(Students \cup {None})] /\ size \in [Teachers -> Nat]
      /\ adding \in [Students -> [teacher : Teachers \cup {None}, size : Nat]]
  BY ListFacts
<1>1. PICK t \in Teachers, n \in Nat : t = adding[s].teacher /\ n = adding[s].size
  BY LookedUp, ListFacts DEF WriteSlot, Goto
<1>2. /\ pc[s] = "sized" /\ pc' = [pc EXCEPT ![s] = "written"] /\ UNCHANGED <<size, history>>
      /\ adding' = [adding EXCEPT ![s].size = 0]
      /\ \/ items' = [items EXCEPT ![t][n + 1] = s]
         \/ (\E v \in Adders(t) : pc[v] = "adding") /\ UNCHANGED items
  BY <1>1 DEF WriteSlot, Goto
<1>3. /\ pc'[s] = "written" /\ \A v \in Students \ {s} : pc'[v] = pc[v] /\ adding'[v] = adding[v]
      /\ \A v \in Students : adding'[v].teacher = adding[v].teacher
  BY <1>0, <1>2
<1>4. s \in Adders(t) /\ s \notin AddedStudents /\ AddedStudents' = AddedStudents \cup {s}
  BY <1>1, <1>2, <1>3, ConnFacts DEF AddedStudents, Adders
<1>5. \A u \in Teachers : Adders(u)' = Adders(u) \ {s}
  BY <1>3 DEF Adders
<1>6. /\ \A u \in Teachers \ {t} : items'[u] = items[u]
      /\ Len(items'[t]) = Len(items[t]) /\ Len(items[t]) \in Nat
      /\ \/ \A j \in 1..Len(items[t]) : items'[t][j] = IF j = n + 1 THEN s ELSE items[t][j]
         \/ (\E v \in Adders(t) : pc[v] = "adding") /\ UNCHANGED items
  <2>1. items[t] \in Seq(Students \cup {None}) /\ s \in Students \cup {None}
    BY <1>0
  <2>2. CASE items' = [items EXCEPT ![t][n + 1] = s]
    <3>1. items'[t] = [items[t] EXCEPT ![n + 1] = s] /\ \A u \in Teachers \ {t} : items'[u] = items[u]
      BY <1>0, <2>2
    <3> QED
      BY <2>1, <3>1, SlotWritten
  <2>3. CASE (\E v \in Adders(t) : pc[v] = "adding") /\ UNCHANGED items
    BY <2>1, <2>3
  <2> QED
    BY <1>2, <2>2, <2>3
<1>7. SlotsInv'
  <2>1. ASSUME NEW u \in Teachers
        PROVE  /\ size'[u] <= Len(items'[u]) /\ Len(items[u]) = Len(items'[u])
               /\ \A i \in 1..Len(items'[u]) :
                    items'[u][i] = items[u][i] \/ (u = t /\ i = n + 1 /\ items'[u][i] = s)
    BY <1>2, <1>6 DEF ListsInv, SlotsInv
  <2>2. ASSUME NEW u \in Teachers
        PROVE  /\ \A i \in 1..Len(items'[u]) : items'[u][i] # None =>
                    items'[u][i] \in AddedStudents' /\ adding'[items'[u][i]].teacher = u
               /\ \A i, j \in 1..Len(items'[u]) : items'[u][i] # None /\ items'[u][i] = items'[u][j] => i = j
    <3>1. /\ \A i \in 1..Len(items[u]) : items[u][i] # None =>
               items[u][i] \in AddedStudents /\ adding[items[u][i]].teacher = u
          /\ \A i, j \in 1..Len(items[u]) : items[u][i] # None /\ items[u][i] = items[u][j] => i = j
      BY DEF ListsInv, SlotsInv
    <3>2. \A i \in 1..Len(items[u]) : items[u][i] # s
      BY <1>4, <1>0, <3>1
    <3>3. AddedStudents \subseteq Students
      BY DEF AddedStudents
    <3>4. \A i \in 1..Len(items'[u]) : items'[u][i] # None =>
                    items'[u][i] \in AddedStudents' /\ adding'[items'[u][i]].teacher = u
      <4>1. ASSUME NEW i \in 1..Len(items'[u]), items'[u][i] # None
            PROVE  items'[u][i] \in AddedStudents' /\ adding'[items'[u][i]].teacher = u
        <5>1. CASE items'[u][i] = items[u][i]
          BY <1>3, <1>4, <2>1, <3>1, <3>3, <4>1, <5>1
        <5>2. CASE u = t /\ items'[u][i] = s
          BY <1>1, <1>3, <1>4, <5>2
        <5> QED
          BY <2>1, <5>1, <5>2
      <4> QED
        BY <4>1
    <3>5. ASSUME NEW i \in 1..Len(items'[u]), NEW j \in 1..Len(items'[u]),
                 items'[u][i] # None, items'[u][i] = items'[u][j]
          PROVE  i = j
      <4>1. i \in 1..Len(items[u]) /\ j \in 1..Len(items[u])
        BY <2>1
      <4>2. \A k \in 1..Len(items'[u]) : items'[u][k] = s => k = n + 1
        BY <2>1, <3>2
      <4>3. CASE items'[u][i] = s
        BY <3>5, <4>2, <4>3
      <4>4. CASE items'[u][i] # s
        BY <2>1, <3>1, <3>5, <4>1, <4>4
      <4> QED
        BY <4>3, <4>4
    <3> QED
      BY <3>4, <3>5
  <2>3. ASSUME NEW v \in Students, pc'[v] \in {"adding", "sized"}
        PROVE  adding'[v].size <= Len(items'[adding'[v].teacher])
    <3>1. pc[v] \in {"adding", "sized"} /\ adding'[v] = adding[v]
      BY <1>3, <2>3
    <3>2. adding[v].teacher \in Teachers /\ adding[v].size <= Len(items[adding[v].teacher])
      BY <3>1, LookedUp DEF ListsInv, SlotsInv
    <3> QED
      BY <2>1, <3>1, <3>2
  <2> QED
    BY <2>1, <2>2, <2>3 DEF SlotsInv
<1>8. ASSUME NEW v \in Students \ history.raced, adding[v].teacher # None PROVE Kept(v)'
  <2>0. Kept(v) /\ adding[v].teacher \in Teachers
    BY <1>0, <1>8 DEF ListsInv, KeptInv
  <2>1. CASE v = s
    <3>1. Adders(t) = {s} /\ size[t] = n + 1
      BY <1>1, <1>2, <1>4, <2>0, <2>1 DEF Kept
    <3>2. n + 1 \in 1..Len(items[t])
      BY <1>6, <3>1 DEF ListsInv, SlotsInv
    <3>3. items'[t][n + 1] = s
      BY <1>2, <1>6, <3>1, <3>2
    <3>4. Adders(t)' = {} /\ n + 1 \in 1..size'[t]
      BY <1>2, <1>5, <3>1
    <3> QED
      BY <1>1, <1>3, <1>4, <2>1, <3>3, <3>4 DEF Kept
  <2>2. CASE v # s /\ adding[v].teacher # t
    <3>1. PICK u \in Teachers : u = adding[v].teacher
      BY <2>0
    <3>2. s \notin Adders(u) /\ \A w \in Adders(u) : adding'[w] = adding[w]
      BY <1>1, <1>3, <2>2, <3>1 DEF Adders
    <3>3. Adders(u)' = Adders(u)
      BY <1>5, <3>2
    <3> QED
      BY <1>2, <1>3, <1>6, <2>0, <2>2, <3>1, <3>2, <3>3, KeptElsewhere
  <2>3. CASE v # s /\ adding[v].teacher = t
    <3>1. v \in AddedStudents
      BY <1>4, <2>0, <2>3 DEF Kept
    <3>2. PICK k \in 1..size[t] : items[t][k] = v /\ \A w \in Adders(t) : k <= adding[w].size
      BY <2>0, <2>3, <3>1 DEF Kept
    <3>3. k \in 1..Len(items[t]) /\ k # n + 1
      <4>1. k <= n /\ size[t] <= Len(items[t]) /\ size[t] \in Nat
        BY <1>0, <1>1, <1>4, <3>2 DEF ListsInv, SlotsInv
      <4> QED
        BY <1>6, <3>2, <4>1
    <3>4. items'[t][k] = v
      BY <1>6, <3>2, <3>3
    <3>5. \A w \in Adders(t)' : k <= adding'[w].size
      BY <1>3, <1>5, <3>2 DEF Adders
    <3> QED
      BY <1>2, <1>3, <1>4, <2>3, <3>1, <3>2, <3>4, <3>5 DEF Kept
  <2> QED
    BY <2>1, <2>2, <2>3
<1> QED
  BY <1>2, <1>3, <1>7, <1>8 DEF ListsInv, KeptInv

LEMMA ListsStep == IInv /\ ListsInv /\ [Next]_vars => ListsInv'
<1> SUFFICES ASSUME IInv, ListsInv, [Next]_vars PROVE ListsInv'
  OBVIOUS
<1>0. pc \in [Conn -> States] /\ Students \subseteq Conn /\ Teachers \cap Students = {}
      /\ history \in [rejected : SUBSET Conn, failed : SUBSET Conn, refused : SUBSET Students,
                      raced : SUBSET Students]
  BY ListFacts, ConnAssumption DEF IInv, TypeOK, HistoryTypeOK
<1>1. ASSUME UNCHANGED lists, history'.raced = history.raced, NEW c \in Conn,
             \E here \in States \ {"adding", "sized"} : \E there \in States \ {"adding", "sized"} :
               pc[c] = here /\ pc' = [pc EXCEPT ![c] = there]
      PROVE  ListsInv'
  BY <1>0, <1>1, ListsUntouched DEF lists
<1>2. ASSUME NEW c \in Conn, ConnectionStep(c) PROVE ListsInv'
  <2>1. UNCHANGED lists /\ history'.raced = history.raced
    BY <1>0, <1>2 DEF ConnectionStep, Connect, ConnectUpdate, ConnectFails, Disconnect, DisconnectUpdate,
                      DisconnectFails, Close
  <2>2. \E here \in States \ {"adding", "sized"} : \E there \in States \ {"adding", "sized"} :
          pc[c] = here /\ pc' = [pc EXCEPT ![c] = there]
    BY <1>2 DEF ConnectionStep, Connect, ConnectUpdate, ConnectFails, Disconnect, DisconnectUpdate,
                DisconnectFails, Close, Goto, States
  <2> QED
    BY <1>1, <2>1, <2>2
<1>3. ASSUME NEW t \in Teachers, TeacherStep(t) PROVE ListsInv'
  BY <1>0, <1>1, <1>3 DEF TeacherStep, RegisterTeacher, ReplyTeacher, Goto, States, Conn
<1>4. ASSUME NEW s \in Students, RegisterStudent(s) \/ RefuseStudent(s) \/ JoinGroup(s)
                                 \/ NotifyTeacher(s) \/ ReplyStudent(s)
      PROVE  ListsInv'
  <2>1. UNCHANGED lists /\ history'.raced = history.raced
    BY <1>0, <1>4 DEF RegisterStudent, RefuseStudent, JoinGroup, NotifyTeacher, ReplyStudent
  <2>2. \E here \in States \ {"adding", "sized"} : \E there \in States \ {"adding", "sized"} :
          pc[s] = here /\ pc' = [pc EXCEPT ![s] = there]
    BY <1>4 DEF RegisterStudent, RefuseStudent, JoinGroup, NotifyTeacher, ReplyStudent, Goto, States
  <2> QED
    BY <1>0, <1>1, <2>1, <2>2
<1>5. CASE UNCHANGED vars
  BY <1>5, ListsUntouched DEF vars, lists
<1> QED
  BY <1>2, <1>3, <1>4, <1>5, ListsAddStudent, ListsWriteSize, ListsWriteSlot, NextSteps DEF StudentStep

-----------------------------------------------------------------------------
(***************************************************************************)
(* The flags                                                               *)
(***************************************************************************)

\* Nobody but the teacher that registers comes into the bag.
LEMMA OnlyOneIsAdded ==
  ASSUME IInv, NEW t \in Teachers, RegisterTeacher(t)
  PROVE  Registered' \subseteq Registered \cup {t}
<1>1. teacherClients \in Seq(Teachers)
  BY DEF IInv, TypeOK, StorageTypeOK
<1>2. PICK w \in Workers : teacherClients' = InsertAt(teacherClients, PlaceOf(w), t)
  BY DEF RegisterTeacher
<1>3. PICK p \in 1..(Len(teacherClients) + 1) : p = PlaceOf(w)
  BY PlaceType DEF IInv, TypeOK
<1> DEFINE front == SubSeq(teacherClients, 1, p - 1)
           back == SubSeq(teacherClients, p, Len(teacherClients))
<1>4. teacherClients' = front \o <<t>> \o back
  BY <1>2, <1>3 DEF InsertAt
<1>5. /\ front \in Seq(Teachers) /\ Len(front) = p - 1
      /\ \A i \in 1..(p - 1) : front[i] = teacherClients[i]
  BY <1>1
<1>6. /\ back \in Seq(Teachers) /\ Len(back) = Len(teacherClients) - p + 1
      /\ \A i \in 1..(Len(teacherClients) - p + 1) : back[i] = teacherClients[p + i - 1]
  BY <1>1
<1> HIDE DEF front, back
<1>7. /\ Len(teacherClients) \in Nat /\ Len(teacherClients') = Len(teacherClients) + 1
      /\ teacherClients' \in Seq(Teachers)
      /\ \A i \in 1..(p - 1) : teacherClients'[i] = front[i]
      /\ teacherClients'[p] = t
      /\ \A i \in 1..(Len(teacherClients) - p + 1) : teacherClients'[p + i] = back[i]
  <2>1. Len(teacherClients) \in Nat
    BY <1>1
  <2>2. /\ Len(front) = p - 1 /\ Len(front) + 1 = p /\ Len(back) = Len(teacherClients) - p + 1
        /\ p + Len(back) = Len(teacherClients) + 1
    BY <1>3, <1>5, <1>6, <2>1
  <2>3. /\ teacherClients' \in Seq(Teachers)
        /\ Len(teacherClients') = Len(front) + 1 + Len(back)
        /\ \A i \in 1..Len(front) : teacherClients'[i] = front[i]
        /\ teacherClients'[Len(front) + 1] = t
        /\ \A i \in 1..Len(back) : teacherClients'[Len(front) + 1 + i] = back[i]
    <3> DEFINE one == <<t>>
               begin == front \o one
    <3>1. one \in Seq(Teachers) /\ Len(one) = 1 /\ one[1] = t
      OBVIOUS
    <3>2. teacherClients' = begin \o back
      BY <1>4
    <3> HIDE DEF one
    <3>3. /\ begin \in Seq(Teachers) /\ Len(begin) = Len(front) + 1 /\ Len(front) \in Nat
          /\ \A i \in 1..Len(front) : begin[i] = front[i]
          /\ begin[Len(front) + 1] = t
      <4>1. front \in Seq(Teachers)
        BY <1>5
      <4>2. /\ begin \in Seq(Teachers) /\ Len(begin) = Len(front) + Len(one) /\ Len(front) \in Nat
            /\ \A i \in 1..Len(front) : begin[i] = front[i]
            /\ \A i \in 1..Len(one) : begin[Len(front) + i] = one[i]
        BY <3>1, <4>1, ConcatFacts
      <4> QED
        BY <3>1, <4>2
    <3> HIDE DEF begin
    <3>4. /\ begin \o back \in Seq(Teachers) /\ Len(begin \o back) = Len(begin) + Len(back)
          /\ \A i \in 1..Len(begin) : (begin \o back)[i] = begin[i]
          /\ \A i \in 1..Len(back) : (begin \o back)[Len(begin) + i] = back[i]
      <4>1. begin \in Seq(Teachers) /\ back \in Seq(Teachers)
        BY <1>6, <3>3
      <4> QED
        BY <4>1, ConcatFacts
    <3> QED
      BY <3>2, <3>3, <3>4
  <2>4. Len(teacherClients') = Len(teacherClients) + 1 /\ teacherClients'[p] = t
    BY <2>2, <2>3
  <2>5. \A i \in 1..(p - 1) : teacherClients'[i] = front[i]
    BY <2>2, <2>3
  <2>6. \A i \in 1..(Len(teacherClients) - p + 1) : teacherClients'[p + i] = back[i]
    BY <2>2, <2>3
  <2> QED
    BY <2>1, <2>3, <2>4, <2>5, <2>6
<1>8. ASSUME NEW i \in DOMAIN teacherClients'
      PROVE  teacherClients'[i] = t \/ \E j \in DOMAIN teacherClients : teacherClients'[i] = teacherClients[j]
  <2>1. i \in 1..(Len(teacherClients) + 1) /\ DOMAIN teacherClients = 1..Len(teacherClients)
    BY <1>1, <1>7
  <2>2. CASE i < p
    BY <1>3, <1>5, <1>7, <2>1, <2>2
  <2>3. CASE i = p
    BY <1>7, <2>3
  <2>4. CASE i > p
    <3> DEFINE k == i - p
    <3>0. p \in Nat /\ p >= 1 /\ i \in Nat /\ i <= Len(teacherClients) + 1 /\ Len(teacherClients) \in Nat
      BY <1>3, <1>7, <2>1
    <3>1. k \in 1..(Len(teacherClients) - p + 1) /\ p + k = i /\ p + k - 1 \in 1..Len(teacherClients)
      BY <2>4, <3>0
    <3> HIDE DEF k
    <3>2. teacherClients'[p + k] = back[k] /\ back[k] = teacherClients[p + k - 1]
      BY <1>6, <1>7, <3>1
    <3> QED
      BY <2>1, <3>1, <3>2
  <2> QED
    BY <1>3, <2>1, <2>2, <2>3, <2>4
<1> QED
  BY <1>8 DEF Registered, Range

\* A list that a student was added to belongs to a teacher in the bag.
LEMMA OwnerRegistered ==
  ASSUME IInv, NEW s \in Students, adding[s].teacher # None
  PROVE  adding[s].teacher \in Registered
BY DEF IInv, ListedNoLaterThanFound, Registered, Range

\* A step that touches one connection, which is not gone after it.
LEMMA OnlineElsewhere ==
  ASSUME OnlineInv, NEW c \in Conn,
         \A d \in Conn \ {c} : pc'[d] = pc[d] /\ isConnected'[d] = isConnected[d],
         \A s \in Students \ {c} : adding'[s].teacher = adding[s].teacher,
         Registered' \subseteq Registered \cup {c},
         history.failed \subseteq history'.failed, history.raced \subseteq history'.raced,
         pc'[c] \notin {"left", "closed"},
         pc'[c] \in {"new", "connecting", "idle"} =>
           pc[c] \in {"new", "connecting", "idle"} /\ Registered' = Registered
  PROVE  OnlineInv'
BY ConnFacts DEF OnlineInv

LEMMA OnlineStep == LInv /\ [Next]_vars => OnlineInv'
<1> SUFFICES ASSUME LInv, [Next]_vars PROVE OnlineInv'
  OBVIOUS
<1>0. /\ IInv /\ ListsInv /\ OnlineInv
      /\ pc \in [Conn -> States] /\ isConnected \in [Conn -> BOOLEAN]
      /\ Students \subseteq Conn /\ Teachers \subseteq Conn /\ Teachers \cap Students = {}
      /\ adding \in [Students -> [teacher : Teachers \cup {None}, size : Nat]]
      /\ history \in [rejected : SUBSET Conn, failed : SUBSET Conn, refused : SUBSET Students,
                      raced : SUBSET Students]
      /\ Registered \subseteq Teachers
  BY ConnFacts, ConnAssumption
  DEF LInv, IInv, TypeOK, ConnectionTypeOK, CallTypeOK, HistoryTypeOK, StorageTypeOK, Registered, Range
<1>1. ASSUME NEW c \in Conn, Connect(c) \/ ConnectUpdate(c) \/ Disconnect(c) PROVE OnlineInv'
  <2>1. UNCHANGED <<teacherClients, adding, history>>
    BY <1>1 DEF Connect, ConnectUpdate, Disconnect, bag, lists
  <2>2. \E there \in {"connecting", "idle", "leaving"} :
          pc' = [pc EXCEPT ![c] = there] /\ (there # "leaving" => pc[c] \in {"new", "connecting"})
    BY <1>1 DEF Connect, ConnectUpdate, Disconnect, Goto
  <2>3. \A d \in Conn \ {c} : isConnected'[d] = isConnected[d]
    BY <1>0, <1>1 DEF Connect, ConnectUpdate, Disconnect, UpdateConnectedState
  <2>4. Registered' = Registered
    BY <2>1 DEF Registered
  <2> QED
    BY <1>0, <2>1, <2>2, <2>3, <2>4, OnlineElsewhere
<1>2. ASSUME NEW c \in Conn, ConnectFails(c) PROVE OnlineInv'
  <2>1. /\ pc[c] = "connecting" /\ pc' = [pc EXCEPT ![c] = "left"]
        /\ UNCHANGED <<teacherClients, adding, isConnected>>
        /\ history'.failed = history.failed /\ history'.raced = history.raced
    BY <1>0, <1>2 DEF ConnectFails, Goto, UpdateFails, bag, lists
  <2>2. Registered' = Registered
    BY <2>1 DEF Registered
  <2>3. c \in Students => adding[c].teacher = None
    BY <1>0, <2>1 DEF IInv, LookupInv
  <2>4. c \in Teachers => c \notin Registered
    BY <1>0, <2>1 DEF OnlineInv
  <2> QED
    BY <1>0, <2>1, <2>2, <2>3, <2>4 DEF OnlineInv
<1>3. ASSUME NEW c \in Conn, DisconnectUpdate(c) PROVE OnlineInv'
  <2>1. /\ pc[c] = "leaving" /\ pc' = [pc EXCEPT ![c] = "left"]
        /\ UNCHANGED <<teacherClients, adding, history>>
        /\ isConnected' = IF c \in Registered \/ Listed(c) THEN [isConnected EXCEPT ![c] = FALSE] ELSE isConnected
    BY <1>3 DEF DisconnectUpdate, Goto, UpdateConnectedState, bag, lists
  <2>2. Registered' = Registered
    BY <2>1 DEF Registered
  <2>3. ASSUME c \in Students, adding[c].teacher # None, c \notin history.raced
        PROVE  Listed(c)
    <3>1. PICK t \in Teachers : t = adding[c].teacher
      BY <1>0, <2>3
    <3>2. c \in AddedStudents /\ Kept(c) /\ t \in Registered
      BY <1>0, <2>1, <2>3, <3>1, OwnerRegistered DEF AddedStudents, ListsInv, KeptInv
    <3>3. \E i \in 1..size[t] : items[t][i] = c
      BY <3>1, <3>2 DEF Kept
    <3> QED
      BY <3>2, <3>3 DEF Listed, StudentClients
  <2>4. c \in Students => ~isConnected'[c] \/ adding[c].teacher = None \/ c \in history.raced
    BY <1>0, <2>1, <2>3
  <2>5. c \in Teachers => ~isConnected'[c] \/ c \notin Registered
    BY <1>0, <2>1
  <2>6. \A d \in Conn \ {c} : pc'[d] = pc[d] /\ isConnected'[d] = isConnected[d]
    BY <1>0, <2>1
  <2>7. pc'[c] = "left"
    BY <1>0, <2>1
  <2> QED
    BY <1>0, <2>1, <2>2, <2>4, <2>5, <2>6, <2>7 DEF OnlineInv
<1>4. ASSUME NEW c \in Conn, DisconnectFails(c) PROVE OnlineInv'
  <2>1. /\ pc' = [pc EXCEPT ![c] = "left"] /\ UNCHANGED <<teacherClients, adding, isConnected>>
        /\ history'.failed = history.failed \cup {c} /\ history'.raced = history.raced
    BY <1>0, <1>4 DEF DisconnectFails, Goto, UpdateFails, bag, lists
  <2>2. Registered' = Registered
    BY <2>1 DEF Registered
  <2> QED
    BY <1>0, <2>1, <2>2 DEF OnlineInv
<1>5. ASSUME NEW c \in Conn, Close(c) PROVE OnlineInv'
  <2>1. /\ pc[c] = "left" /\ pc' = [pc EXCEPT ![c] = "closed"]
        /\ UNCHANGED <<teacherClients, adding, isConnected, history>>
    BY <1>5 DEF Close, Goto, bag, lists
  <2>2. Registered' = Registered
    BY <2>1 DEF Registered
  <2> QED
    BY <1>0, <2>1, <2>2 DEF OnlineInv
<1>6. ASSUME NEW t \in Teachers, RegisterTeacher(t) PROVE OnlineInv'
  <2>1. /\ pc' = [pc EXCEPT ![t] = "added"] /\ isConnected' = [isConnected EXCEPT ![t] = TRUE]
        /\ UNCHANGED <<adding, history>>
    BY <1>6 DEF RegisterTeacher, Goto, lists
  <2>2. Registered' \subseteq Registered \cup {t}
    BY <1>0, <1>6, OnlyOneIsAdded
  <2> QED
    BY <1>0, <2>1, <2>2, OnlineElsewhere
<1>7. ASSUME NEW t \in Teachers, ReplyTeacher(t) PROVE OnlineInv'
  <2>1. /\ pc' = [pc EXCEPT ![t] = "ready"] /\ UNCHANGED <<adding, history, isConnected, teacherClients>>
    BY <1>7 DEF ReplyTeacher, Goto, lists, bag
  <2>2. Registered' = Registered
    BY <2>1 DEF Registered
  <2> QED
    BY <1>0, <2>1, <2>2, OnlineElsewhere
<1>8. ASSUME NEW s \in Students, StudentStep(s) PROVE OnlineInv'
  <2>1. UNCHANGED teacherClients
    BY <1>8 DEF StudentStep, RegisterStudent, RefuseStudent, AddStudent, WriteSize, WriteSlot, JoinGroup,
                NotifyTeacher, ReplyStudent, bag
  <2>2. \E there \in {"ready", "checked", "adding", "sized", "written", "joined", "notified"} :
          pc' = [pc EXCEPT ![s] = there]
    BY <1>8 DEF StudentStep, RegisterStudent, RefuseStudent, AddStudent, WriteSize, WriteSlot, JoinGroup,
                NotifyTeacher, ReplyStudent, Goto
  <2>3. isConnected' \in {isConnected, [isConnected EXCEPT ![s] = TRUE]}
    BY <1>8 DEF StudentStep, RegisterStudent, RefuseStudent, AddStudent, WriteSize, WriteSlot, JoinGroup,
                NotifyTeacher, ReplyStudent
  <2>4. \A u \in Students \ {s} : adding'[u] = adding[u]
    BY <1>0, <1>8 DEF StudentStep, RegisterStudent, RefuseStudent, AddStudent, WriteSize, WriteSlot, JoinGroup,
                      NotifyTeacher, ReplyStudent, lists
  <2>5. history.failed \subseteq history'.failed /\ history.raced \subseteq history'.raced
    BY <1>0, <1>8 DEF StudentStep, RegisterStudent, RefuseStudent, AddStudent, WriteSize, WriteSlot, JoinGroup,
                      NotifyTeacher, ReplyStudent
  <2>6. Registered' = Registered
    BY <2>1 DEF Registered
  <2> QED
    BY <1>0, <2>2, <2>3, <2>4, <2>5, <2>6, OnlineElsewhere
<1>9. CASE UNCHANGED vars
  BY <1>0, <1>9 DEF vars, bag, lists, OnlineInv, Registered
<1> QED
  BY <1>1, <1>2, <1>3, <1>4, <1>5, <1>6, <1>7, <1>8, <1>9, NextSteps DEF ConnectionStep, TeacherStep

LEMMA ListsInductive == Spec => []LInv
<1>1. Init => ListsInv
  BY ConnFacts DEF Init, ListsInv, SlotsInv, KeptInv, NoAdd
<1>2. Init => OnlineInv
  BY ConnFacts DEF Init, OnlineInv, Registered, Range, NoAdd
<1>3. Init => IInv
  BY InitIInv
<1>4. LInv /\ [Next]_vars /\ IInv' => LInv'
  BY ListsStep, OnlineStep DEF LInv
<1>5. Init => LInv
  BY <1>1, <1>2, <1>3 DEF LInv
<1> QED
  BY Inductive, <1>4, <1>5, PTL DEF Spec

-----------------------------------------------------------------------------
(***************************************************************************)
(* Theorems                                                                *)
(***************************************************************************)

\* A student whose Add overlapped no other Add to the same list is in that list
\* for ever, exactly once, and in no other, however many Adds overlap before it and
\* after it (ClientStorage.cs).
THEOREM LoneAddSafe == Spec => []LoneAddIsKept
<1>1. LInv => LoneAddIsKept
  <2> SUFFICES ASSUME LInv, NEW s \in AddedStudents \ history.raced
               PROVE  /\ Cardinality({i \in 1..size[adding[s].teacher] : items[adding[s].teacher][i] = s}) = 1
                      /\ \A u \in Teachers \ {adding[s].teacher} : s \notin StudentClients(u)
    BY DEF LoneAddIsKept
  <2>1. PICK t \in Teachers : t = adding[s].teacher
    BY ListFacts DEF LInv, AddedStudents
  <2>2. Kept(s) /\ SlotsInv /\ s # None
    BY <2>1, ConnFacts DEF LInv, ListsInv, KeptInv, AddedStudents
  <2>3. PICK i \in 1..size[t] : items[t][i] = s
    BY <2>1, <2>2 DEF Kept
  <2>4. \A u \in Teachers : \A j \in 1..size[u] : j \in 1..Len(items[u])
    BY <2>2, ListFacts DEF LInv, SlotsInv
  <2>5. {j \in 1..size[t] : items[t][j] = s} = {i}
    BY <2>2, <2>3, <2>4 DEF SlotsInv
  <2>6. \A u \in Teachers : s \in StudentClients(u) => u = t
    BY <2>1, <2>2, <2>4 DEF StudentClients, SlotsInv
  <2> QED
    BY <2>1, <2>5, <2>6, FS_Singleton
<1> QED
  BY <1>1, ListsInductive, PTL

\* A connection that is gone shows as connected only if its last update threw,
\* or its Add overlapped another.
THEOREM OnlineSafe == Spec => []OnlineOnlyWhileConnected
<1>1. LInv => OnlineOnlyWhileConnected
  <2> SUFFICES ASSUME LInv, NEW c \in Conn, pc[c] \in {"left", "closed"}, isConnected[c],
                      c \in Registered \/ Listed(c)
               PROVE  c \in history.failed \cup history.raced
    BY DEF OnlineOnlyWhileConnected
  <2>1. OnlineInv /\ SlotsInv /\ IInv
    BY DEF LInv, ListsInv
  <2>2. Registered \subseteq Teachers
    BY <2>1 DEF IInv, TypeOK, StorageTypeOK, Registered, Range
  <2>3. CASE c \in Registered
    BY <2>1, <2>2, <2>3 DEF OnlineInv
  <2>4. CASE Listed(c)
    <3>1. PICK t \in Teachers : \E i \in 1..size[t] : items[t][i] = c
      BY <2>2, <2>4 DEF Listed, StudentClients
    <3>2. PICK i \in 1..size[t] : items[t][i] = c
      BY <3>1
    <3>3. i \in 1..Len(items[t]) /\ items[t] \in Seq(Students \cup {None})
      BY <2>1, ListFacts DEF SlotsInv
    <3>4. c \in Students
      <4>1. c \in Students \cup {None}
        BY <3>2, <3>3
      <4> QED
        BY <4>1, ConnAssumption
    <3>5. adding[c].teacher = t /\ t # None
      BY <2>1, <3>2, <3>3, <3>4, ConnFacts DEF SlotsInv
    <3> QED
      BY <2>1, <3>4, <3>5 DEF OnlineInv
  <2> QED
    BY <2>3, <2>4
<1> QED
  BY <1>1, ListsInductive, PTL

=============================================================================
