----------------------------- MODULE MCTwoPhases -----------------------------
(***************************************************************************)
(* An instance of TwoPhases for TLC.                                       *)
(*                                                                         *)
(*   s1:  y = x           x is the seed's object a, or null                *)
(*   c:   foo(x)          where foo(t) opens t at s5: a strong update      *)
(*   d:   bar(y)          where bar(z) opens z at s2; from one branch      *)
(*                        before it z is another object, b: a weak update  *)
(***************************************************************************)
EXTENDS TwoPhases

CONSTANTS
  a, b, nul,                    \* allocations
  s1, c, e5, s5, d, s2,         \* control flow edges; e5 leads into foo
  p1, p2,                       \* statements before s5 and s2
  x, y, t, z                    \* variables

strongNode == << s5, t >>
weakNode == << s2, z >>
MCStart == << s1, x >>
MCNonOne == {strongNode, weakNode}
MCPreds == [n \in MCNonOne |-> IF n = strongNode THEN {p1} ELSE {p1, p2}]
MCSites == [n \in MCNonOne |->
  IF n = strongNode THEN [p \in {p1} |-> {a, nul}]
  ELSE [p \in {p1, p2} |-> IF p = p1 THEN {a} ELSE {b}]]
MCFlows == [i \in {a, b, nul} |->
  IF i = a THEN {strongNode, weakNode, << c, x >>, << c, y >>}
  ELSE IF i = b THEN {weakNode} ELSE {}]
MCCallers == [n \in MCNonOne |-> IF n = strongNode THEN {c} ELSE {d}]
MCSummaries == [i \in {a, b, nul} |-> IF i = a THEN {<< c, x >>} ELSE {}]
MCRules ==
  { << << s1, x >>, << s1, y >>, {} >>,
    << << s1, y >>, << c, y >>, {<< c, y >>} >>,
    << << s1, x >>, << e5, t >>, {<< c, x >>} >>,
    << << e5, t >>, strongNode, {strongNode} >>,
    << strongNode, << c, x >>, {} >>,
    << << c, y >>, << d, y >>, {<< d, y >>} >>,
    << << c, y >>, weakNode, {<< d, y >>} >> }
=============================================================================
