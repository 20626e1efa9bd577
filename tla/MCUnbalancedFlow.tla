--------------------------- MODULE MCUnbalancedFlow ---------------------------
(***************************************************************************)
(* Instances of UnbalancedFlow for TLC, and a reference for the            *)
(* permissions the query graph is to give.                                 *)
(***************************************************************************)
EXTENDS UnbalancedFlow

CONSTANTS
  r, f, b, g, m0, m1, m2, x1, x2, x3, shared, none,
  Programs  \* what the solvers may do

VARIABLE program

\* A query r for what m0 is passed finds an allocation f, which reaches a field
\* store with the base b; in m1 it finds another one, g.
MCHome == [q \in Query |-> IF q = g THEN m1 ELSE m0]
Nested == { << r, m0, f >>, << f, m0, b >> }
MCRaises == Nested \cup { << r, m1, g >> }
\* m1 calls m0, m2 calls m1, and m0 calls itself.
MCCallerOf == [x \in Site |-> CASE x = x1 -> m1 [] x = x2 -> m2 [] x = x3 -> m0]
MCKnown == { << x1, m0 >>, << x2, m1 >> }
MCResolved == { << x3, m0 >> }

\* Per program: which flows leave a method, the queries raised and the calls
\* reached, and when the solvers go on in the middle of other work.
Program(escapes, raises, calls, interrupts, depth) ==
  [escapes |-> escapes, raises |-> raises, calls |-> calls,
   interrupts |-> interrupts, depth |-> depth]
Left == << shared, m0 >>
LeftTwice == {Left, << shared, m1 >>}
\* Nested queries whose flows leave both methods
NestedLeaving == Program(LeftTwice, Nested, {}, {}, 0)
\* Nested queries; a query raised behind a return; a recursive method; a query
\* raised in a method that may have been called; flows that meet those of a root.
ReturnPrograms ==
  [nested |-> Program({Left}, Nested, {}, {"solving", "tell"}, 2),
   outer |-> Program(LeftTwice \cup {<< g, m1 >>}, {<< r, m1, g >>}, {}, Interrupts, 8),
   recursive |-> Program({Left}, {}, {<< shared, x3 >>}, Interrupts, 2),
   called |-> Program({<< f, m0 >>}, {<< r, m0, f >>}, {<< shared, x3 >>}, {"solving", "tell"}, 2),
   forced |-> NestedLeaving]
ForcedPrograms == [forced |-> NestedLeaving]

AllEscapes == UNION { Programs[i].escapes : i \in DOMAIN Programs }

ProgramSolvers(i) ==
  \/ \E q \in Roots : Solve(q)
  \/ /\ stack # << >> => Top.op \in i.interrupts /\ Len(stack) <= i.depth
     /\ \/ \E e \in i.raises : Raise(e[1], e[2], e[3])
        \/ \E s \in Solver : \E t \in Derived(s) :
             /\ t.label[1] = "exit" => << s, t.label[2] >> \in i.escapes
             /\ Derive(s, t)
        \/ \E c \in i.calls : ReachCall(c[1], c[2])
        \/ \E c \in Resolved : AddCall(c[1], c[2])

(***************************************************************************)
(* The reference: the contexts of a query c are the states that a listener *)
(* for c would climb in the call automata of c's ancestors, given the      *)
(* query edges there are.  Triples <<ancestor, state, method behind>>.     *)
(***************************************************************************)
Out(p, x) == { t \in Of(SolverOf(p)) : t.start = x }
\* c's context reaches the start of its ancestor p.
Leaves(p, x) == \E t \in Out(p, x) : Initial(SolverOf(p), t.target)
EdgesInto(p) == { e \in edges : e[3] = p }

RECURSIVE Climb(_)
Climb(S) ==
  LET up == UNION { { << n[1], t.target, LabelMethod(t.label) >> : t \in Out(n[1], n[2]) } : n \in S }
            \cup UNION { { << e[1], Fact(e[2]), None >> : e \in EdgesInto(n[1]) } :
                           n \in { n \in S : Leaves(n[1], n[2]) } }
  IN  IF up \subseteq S THEN S ELSE Climb(S \cup up)

ContextsOf(c) == Climb({ << e[1], Fact(e[2]), None >> : e \in EdgesInto(c) })

\* c may return to the call sites on the way, ...
CalledFrom(c) ==
  UNION { { << SolverOf(c), n[3], t.label[2] >> : t \in Out(n[1], n[2]) } :
            n \in { n \in ContextsOf(c) :
                      n[2] \in Generated /\ n[3] \notin {None} \cup Excluded } }

\* ... and to the callers of the methods in which the ancestors start.
CallersOf(c) ==
  LET homes == UNION { { FactMethod(n[1], t.target) : t \in
                         { t \in Out(n[1], n[2]) : Initial(SolverOf(n[1]), t.target) } } :
                       n \in ContextsOf(c) } \ Excluded
  IN  IF c \notin Backward THEN {}
      ELSE { << SolverOf(c), e[2], e[1] >> : e \in { e \in graph : e[2] \in homes } }

(* At every moment a solver may only return to call sites of its queries'  *)
(* contexts, and to callers of methods their ancestors start in            *)
(* (QueryGraph.SourceListener, UnbalancedContextListener).                 *)
PermitsJustified ==
  permits \subseteq UNION { CalledFrom(c) \cup CallersOf(c) : c \in solved }

ProgramInit == Init /\ program \in DOMAIN Programs
ProgramNext == (ProgramSolvers(Programs[program]) \/ Engine) /\ UNCHANGED program
ProgramSpec ==
  ProgramInit /\ [][ProgramNext]_<< vars, program >> /\ WF_vars(Engine)

===============================================================================
