----------------------------- MODULE MCProxyHub -----------------------------
(***************************************************************************)
(* Instances of ProxyHub for TLC.                                          *)
(***************************************************************************)
EXTENDS ProxyHub, TLC

CONSTANTS Code1, Code2, OtherCode

\* Everybody uses one code, but those of OtherCode.
MCCodeOf == [c \in Conn |-> IF c \in OtherCode THEN Code2 ELSE Code1]

\* Connections of a kind with one code, and threads, are interchangeable.
Symmetry == Permutations(Teachers) \cup Permutations(Students) \cup Permutations(Workers)

\* A teacher page that is reloaded: each connection begins after the last ended.
OneTeacherPage ==
  Init /\ [][/\ Next
             /\ \A t \in Teachers : pc[t] = "new" /\ pc'[t] # "new" =>
                  \A u \in Teachers \ {t} : pc[u] \in {"new", "closed"}]_vars

\* Bound: four connections, two sessions of a teacher with two students, or one
\* with three.
FourConnections == Cardinality({c \in Conn : pc[c] # "new"}) <= 4

=============================================================================
