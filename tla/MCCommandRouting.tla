-------------------------- MODULE MCCommandRouting --------------------------
(***************************************************************************)
(* Instances of CommandRouting for TLC.                                    *)
(***************************************************************************)
EXTENDS CommandRouting, TLC

CONSTANTS Code1, Code2, OtherCode

\* Everybody uses one code, but those of OtherCode.
MCCodeOf == [c \in Conn |-> IF c \in OtherCode THEN Code2 ELSE Code1]

\* The two classes may change places.
MCSymmetry ==
  {p \in Permutations(Conn \cup Codes) :
     /\ {p[t] : t \in Teachers} = Teachers /\ {p[s] : s \in Students} = Students
     /\ \A c \in Conn : CodeOf[p[c]] = p[CodeOf[c]]}

=============================================================================
