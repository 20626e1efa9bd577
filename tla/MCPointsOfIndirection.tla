------------------------- MODULE MCPointsOfIndirection -------------------------
(***************************************************************************)
(* Instances of PointsOfIndirection for TLC: small programs with the       *)
(* transitions the solvers derive for them.                                *)
(***************************************************************************)
EXTENDS ActivationHistory, TLC

CONSTANTS
  d, e, e2, e3, s,                   \* edges: an earlier one, stores, a call site
  vx, vy, vz,                  \* variables
  ab, ab2, ax, ax2,            \* the allocations, which are unbalanced
  f, g, h,                           \* fields
  b, b2, q, q2,                      \* allocations of the base and of the flow
  cb, cb2, cq, cq2,                  \* the unbalanced states of their calls
  none, eps,
  Programs                           \* what the solvers may derive

VARIABLE program                     \* the one they run on

MCInitial ==
  [r \in Query |->
     << d, CASE r = b -> ab [] r = b2 -> ab2 [] r = q -> ax [] r = q2 -> ax2 >>]
Store == [edge |-> e, base |-> vy, field |-> f, stored |-> vx]
Store2 == [edge |-> e2, base |-> vy, field |-> h, stored |-> vx]

\* A variable v that is reached at edge c with no field, and one, z, whose
\* field g, or whose fields g and h, lead to the allocation.
Plain(r, v, c) == Tr(<< c, v >>, none, MCInitial[r])
G == << << d, vz >>, g >>
H == << << d, vy >>, h >>
ByField(r, c) == { Tr(<< c, vz >>, g, G), Tr(G, none, MCInitial[r]) }
ByFields(r, c) ==
  { Tr(<< c, vz >>, g, G), Tr(G, h, H), Tr(H, none, MCInitial[r]) }

\* What the queries derive in their field and call automata
OwnOf(own) ==
  [a \in Automaton |->
     IF a[2] \in DOMAIN own THEN own[a[2]][IF a[1] = "fields" THEN 1 ELSE 2] ELSE {}]

OneMethod == [i \in Val \cup Edge |-> "m"]

\* y.f = x in a callee, where z.g.h is an alias of y; x is passed to it at s,
\* where z is another alias of y.
AliasOwn == OwnOf(
  b :> << { Plain(b, vy, e), Plain(b, vz, s) } \cup ByFields(b, e),
          { Tr(vy, e, cb), Tr(vz, s, cb) } >> @@
  q :> << { Plain(q, vx, e) }, { Tr(vx, e, << vx, s >>), Tr(vx, s, cq) } >>)
AliasUses == {<< s, vx >>}

\* y.f = x and y.h = x, on two branches, with one allocation for y, so that
\* the stores share a pair of solvers; fields lead to aliases of y.
TwoStores(fields) == OwnOf(
  b :> << { Plain(b, vy, e), Plain(b, vy, e2) } \cup fields,
          { Tr(vy, e, cb), Tr(vy, e2, cb) } >> @@
  q :> << { Plain(q, vx, e), Plain(q, vx, e2) }, { Tr(vx, e, cq), Tr(vx, e2, cq) } >>)

\* With the alias z.g at the first store only.
HalfOwn == TwoStores(ByField(b, e))

\* With the alias z at the first store only.
PlainOwn == TwoStores({ Plain(b, vz, e) })

\* With the longer alias z.g.h at both.
LongOwn == TwoStores(ByFields(b, e) \cup ByFields(b, e2))

\* y.f = x where y has two allocations, one of them also in z.
BasesOwn == OwnOf(
  b :> << { Plain(b, vy, e) }, { Tr(vy, e, cb) } >> @@
  b2 :> << { Plain(b2, vy, e), Plain(b2, vz, e) }, { Tr(vy, e, cb2), Tr(vz, e, cb2) } >> @@
  q :> << { Plain(q, vx, e) }, { Tr(vx, e, cq) } >>)

\* y.f = x in a callee, where the base is passed for y and z and two allocations
\* are passed for x, all at the same call.
FlowsOwn == OwnOf(
  b :> << { Plain(b, vy, e), Plain(b, vz, e) },
          { Tr(vy, e, << vy, s >>), Tr(vz, e, << vz, s >>) } >> @@
  q :> << { Plain(q, vx, e) }, { Tr(vx, e, << vx, s >>) } >> @@
  q2 :> << { Plain(q2, vx, e) }, { Tr(vx, e, << vx, s >>) } >>)

\* y.f = x and x.g = y in a list: each allocation is imported into the other,
\* and y is reached from z by any number of fields g.
Store3 == [edge |-> e3, base |-> vx, field |-> g, stored |-> vy]
CycleOwn == OwnOf(
  b :> << { Plain(b, vy, e), Plain(b, vy, e3), Tr(G, g, G) } \cup ByField(b, e),
          { Tr(vy, e, cb), Tr(vy, e3, cb) } >> @@
  q :> << { Plain(q, vx, e), Plain(q, vx, e3) }, { Tr(vx, e, cq), Tr(vx, e3, cq) } >>)

\* The programs of a run, the stores of each and what may interrupt a call in
\* it: more of the alias is found, the flow reaches the second store, or
\* (meanwhile) the alias is found while others are replayed.
SoundPrograms ==
  [alias |-> AliasOwn, cycle |-> CycleOwn, half |-> HalfOwn, long |-> LongOwn,
   bases |-> BasesOwn, flows |-> FlowsOwn, meanwhile |-> PlainOwn]
LongPrograms == [long |-> LongOwn]
BasesPrograms == [bases |-> BasesOwn]
FlowsPrograms == [flows |-> FlowsOwn]
AllWrite == {Store, Store2, Store3}
StoresOf ==
  [alias |-> {Store}, cycle |-> {Store, Store3},
   half |-> {Store, Store2}, long |-> {Store, Store2},
   bases |-> {Store}, flows |-> {Store}, meanwhile |-> {Store, Store2}]
Interrupts ==
  [alias |-> {<< Fields(b), Tr(G, h, H) >>}, half |-> {<< q, << e2, vx >> >>},
   cycle |-> {}, long |-> {}, bases |-> {},
   flows |-> {}, meanwhile |-> {<< Fields(b), Plain(b, vz, e) >>}]
MCInterrupting == UNION { Interrupts[i] : i \in DOMAIN Programs }
AllOwn ==
  [a \in Automaton |-> UNION { Programs[i][a] : i \in DOMAIN Programs }]

MayStart(i, c) == stack # << >> => c \in Interrupts[i]
ProgramSolvers(i) ==
  \/ \E a \in Automaton : \E t \in Programs[i][a] :
       MayStart(i, << a, t >>) /\ Derive(a, t)
  \/ \E r \in Query, w \in StoresOf[i] : \E v \in {w.base, w.stored} :
       MayStart(i, << r, << w.edge, v >> >>) /\ ReachStore(r, w, v)

ProgramInit == HistInit /\ program \in DOMAIN Programs
ProgramNext ==
  (ProgramSolvers(program) \/ Engine) /\ NoteOvertaken /\ UNCHANGED program
ProgramSpec ==
  ProgramInit /\ [][ProgramNext]_<< histVars, program >> /\ WF_vars(Engine)
=============================================================================
