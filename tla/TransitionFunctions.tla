------------------------ MODULE TransitionFunctions ------------------------
(***************************************************************************)
(* TransitionFunction, the weights of the typestate analysis: a set of     *)
(* transitions between typestates, or one of the two constants.  What the  *)
(* automaton and poststar need of a weight domain is OrderAssumption of    *)
(* PostStar; the functions that mention every typestate provide it, the    *)
(* others do not.                                                          *)
(*                                                                         *)
(* Transition.identity() is in no function: no code puts it into one.  The *)
(* statements of the last state change are left out: equals ignores them,  *)
(* and nothing reads them.                                                 *)
(***************************************************************************)

CONSTANT TypeState

Fun(R) == [rep |-> "none", value |-> R]
one == [rep |-> "ONE", value |-> {}]
zero == [rep |-> "ZERO", value |-> {}]

TransitionFunction ==
  { Fun(R) : R \in SUBSET (TypeState \X TypeState) } \cup {one, zero}

\* The transitions of R, each followed by those of S that start where it ends
Joined(R, S) ==
  { << x[1][1], x[2][2] >> : x \in { y \in R \X S : y[1][2] = y[2][1] } }

ExtendWith(u, v) ==
  IF v = one THEN u
  ELSE IF u = one THEN v
  ELSE IF zero \in {u, v} THEN zero
  ELSE Fun(Joined(u.value, v.value))

\* The identity, for the typestates R mentions
Stays(R) == { << t[1], t[1] >> : t \in R }

CombineWith(u, v) ==
  IF u = zero THEN v
  ELSE IF v = zero THEN u
  ELSE IF u = one /\ v = one THEN one
  ELSE LET R == u.value \cup v.value
       IN  Fun(IF one \in {u, v} THEN R \cup Stays(R) ELSE R)

\* The functions that say something of every typestate, and the constants
Total ==
  { u \in TransitionFunction :
      u \in {one, zero} \/ \A x \in TypeState : \E t \in u.value : t[1] = x }
=============================================================================
