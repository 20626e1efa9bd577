-------------------------- MODULE MCQueryLifecycle --------------------------
(***************************************************************************)
(* Instances of QueryLifecycle and GuidedAnalysis for TLC: what a client   *)
(* asks of a solver, and the queries that are solved in between.           *)
(***************************************************************************)
EXTENDS GuidedAnalysis

CONSTANTS
  b, b2, b3, b4,        \* backward queries
  f, f2, f3,            \* forward queries
  Programs              \* what the client does

VARIABLES program, todo  \* which program it is; the calls it has still to make

MCForward == {f, f2, f3}
MCWork == [q \in Query |-> 2]
MCReturns == [q \in Query |-> IF q \in {b2, f2} THEN 1 ELSE 0]

\* A virtual call in the middle of f and b is resolved by queries of its own, a
\* strong update of f3 asks for its aliases, b2 reaches the allocation f2, and f2 a
\* store with the base b4.
MCNested ==
  { [query |-> f, at |-> 1, callee |-> b3, entry |-> "resolve"],
    [query |-> f, at |-> 1, callee |-> b, entry |-> "resolve"],
    [query |-> b, at |-> 2, callee |-> b3, entry |-> "resolve"],
    [query |-> f3, at |-> 1, callee |-> b3, entry |-> "solve"],
    [query |-> b2, at |-> 1, callee |-> f2, entry |-> "inner"],
    [query |-> f2, at |-> 1, callee |-> b4, entry |-> "inner"] }
MCCrashes == {<< f, 2 >>, << b2, 1 >>}
MCOptions == { [multiple |-> m, limit |-> n] : m \in BOOLEAN, n \in {0, 2} }
NoLimit == {[multiple |-> TRUE, limit |-> 0]}
MCRaises ==
  { [query |-> b, at |-> 1, child |-> b2], [query |-> b, at |-> 2, child |-> f],
    [query |-> f, at |-> 1, child |-> b2], [query |-> b2, at |-> 3, child |-> b],
    [query |-> f2, at |-> 2, child |-> b3] }
MCAllocations == [q \in Query |-> IF q = b2 THEN {f2} ELSE {}]

Solve(q) == [query |-> q, entry |-> "solve", parent |-> NoParent]
Scope(q, p) == [query |-> q, entry |-> "scope", parent |-> p]
SoundPrograms ==
  [single |-> [multiple |-> FALSE, calls |-> << Solve(b) >>, run |-> {}],
   once |-> [multiple |-> FALSE, calls |-> << Solve(f) >>, run |-> {}],
   store |-> [multiple |-> FALSE, calls |-> << Solve(f2) >>, run |-> {}],
   aliases |-> [multiple |-> TRUE, calls |-> << Solve(f3), Solve(b3) >>, run |-> {}],
   many |-> [multiple |-> TRUE, run |-> {},
             calls |-> << Solve(f), Scope(b2, f), Solve(f), Solve(b), Scope(b2, b) >>],
   backward |-> [multiple |-> TRUE, calls |-> << >>, run |-> {b}],
   forward |-> [multiple |-> TRUE, calls |-> << >>, run |-> {f}]]
\* ... and two queries that raise the same one, with all the time they need.
TwicePrograms == [twice |-> [multiple |-> TRUE, calls |-> << >>, run |-> {b}]]

ClientCall ==
  /\ todo # << >>
  /\ LET c == Head(todo)
     IN  IF c.parent \in seeded \cup {NoParent}
         THEN Call(c.query, c.entry, c.parent) /\ todo' = Tail(todo)
         ELSE Quiet /\ todo' = Tail(todo) /\ UNCHANGED vars
  /\ UNCHANGED << guidedVars, program >>

ProgramInit ==
  /\ GuidedInit /\ program \in DOMAIN Programs
  /\ options.multiple = Programs[program].multiple
  /\ todo = Programs[program].calls
ProgramAnalysis == Analysis /\ UNCHANGED << program, todo >>
ProgramNext ==
  \/ ProgramAnalysis
  \/ ClientCall
  \/ \E q \in Programs[program].run : Run(q) /\ UNCHANGED << program, todo >>
  \/ Environment /\ UNCHANGED << guidedVars, program, todo >>
ProgramVars == << vars, guidedVars, program, todo >>
ProgramSpec == ProgramInit /\ [][ProgramNext]_ProgramVars /\ WF_ProgramVars(ProgramAnalysis)
=============================================================================
