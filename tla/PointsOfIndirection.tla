------------------------- MODULE PointsOfIndirection -------------------------
(***************************************************************************)
(* Indirect flows through the heap.  A field store x.f = y is a point of   *)
(* indirection (boomerang.WeightedBoomerang.FieldWritePOI): for every      *)
(* allocation `base' that reaches x and every allocation `flow' that       *)
(* reaches y, the access paths of `base' at the store are aliases of x and *)
(* are copied, with f put behind them, into the automata of the solver of  *)
(* `flow' (boomerang.poi.ExecuteImportFieldStmtPOI).                       *)
(*                                                                         *)
(* The copying is done by listeners, while both solvers are still running. *)
(* As in PostStar the Java call stack is the variable `stack', innermost   *)
(* call first, and a loop may pick any element that is left of its         *)
(* snapshot.  Weights are left out.                                        *)
(***************************************************************************)
EXTENDS Naturals, Sequences, FiniteSets

CONSTANTS
  Query,            \* the forward queries, each with a solver of its own
  Edge, Val, Field,
  Empty, Epsilon,   \* Field.empty() and Field.epsilon()
  Initial,          \* createQueryNodeField: the initial state of a solver's
                    \* field automaton
  CallTarget,       \* the unbalanced states of the call automata
  Write,            \* the points of indirection: edge, base, field and stored
  ArrayWrite,       \* ... and those of them that store into an array
  Uses,             \* <<e, v>>: e starts with a call that uses v and is not
                    \* assigned to it
  MethodOf,         \* the method of a value and of an edge's start
  Own,              \* what the solvers' own pushdown systems may derive
  Interrupting      \* bound for TLC: what the solvers may derive or reach while
                    \* a call is in progress; they do the rest in between

VARIABLES
  trans,            \* the transitions of the automata
  indexed,          \* perStatementFieldTransitions, perStatementCallTransitions
  listeners,        \* the listeners of the automata and of these two indices
  reached,          \* the nodes a solver has reported to its listener
  bases, flows,     \* actualBaseAllocations, flowAllocations
  activatedPoi, poiListeners,   \* by pair of flow and base
  active, reachable, delayed,   \* by ExecuteImportFieldStmtPOI
  stack             \* the calls and loops in progress, innermost first

autVars == << trans, indexed, listeners >>
poiVars == << bases, flows >>
pairVars == << activatedPoi, poiListeners >>
execVars == << active, reachable, delayed >>
vars == << autVars, reached, poiVars, pairVars, execVars, stack >>

-----------------------------------------------------------------------------
Node == Edge \X Val
Generated == Node \X Field        \* generateFieldState
FieldState == Node \cup Generated
CallState == Val \cup (Val \X Edge) \cup CallTarget

Fields(q) == << "fields", q >>    \* getFieldAutomaton
Calls(q) == << "calls", q >>      \* getCallAutomaton
Automaton == {"fields", "calls"} \X Query

FieldTransition ==
  [start : FieldState, label : Field \cup {Empty, Epsilon}, target : FieldState]
CallTransition == [start : CallState, label : Edge, target : CallState]
Tr(s, a, q) == [start |-> s, label |-> a, target |-> q]

\* A run of a store for one pair of allocations; two are equal when base, flow
\* and edge are, and no two stores share an edge.
Exec == [w : Write, base : Query, flow : Query]
Pair(x) == << x.flow, x.base >>

ASSUME PlaceAssumption ==
  /\ Initial \in [Query -> Node]
  /\ Write \subseteq [edge : Edge, base : Val, field : Field, stored : Val]
  /\ \A v, w \in Write : v.edge = w.edge => v = w
  /\ ArrayWrite \subseteq Write
  /\ Empty \notin Field /\ Epsilon \notin Field /\ Empty # Epsilon
  /\ Node \cap Generated = {}

ASSUME OwnAssumption ==
  /\ DOMAIN Own = Automaton
  /\ \A q \in Query : /\ Own[Fields(q)] \subseteq FieldTransition
                      /\ Own[Calls(q)] \subseteq CallTransition

-----------------------------------------------------------------------------
(* Listeners.  `on' is the automaton, `at' the edge or the state they are  *)
(* registered for.                                                         *)

FlowAllocation(q, w) ==                                 \* ForwardHandleFieldWrite
  [kind |-> "flow", on |-> Fields(q), at |-> w.edge, q |-> q, w |-> w]
BaseAllocation(q, w) ==                       \* TriggerBaseAllocationAtFieldWrite
  [kind |-> "base", on |-> Fields(q), at |-> << w.edge, w.base >>, q |-> q, w |-> w]
PointsTo(x) ==                                                  \* BaseVarPointsTo
  [kind |-> "pointsTo", on |-> Fields(x.base), at |-> x.w.edge, x |-> x]
Aliases(x) ==                                             \* ImportIndirectAliases
  [kind |-> "aliases", on |-> Fields(x.base), at |-> x.w.edge, x |-> x]
From(x, s) ==                                        \* ImportFieldTransitionsFrom
  [kind |-> "from", on |-> Fields(x.base), at |-> s, x |-> x]
AtSite(x, e, v) ==                                \* CallSiteOrExitStmtFieldImport
  [kind |-> "atSite", on |-> Fields(x.base), at |-> e, x |-> x, fact |-> v]
CallAliases(x) ==                                     \* ImportIndirectCallAliases
  [kind |-> "callAliases", on |-> Calls(x.flow), at |-> x.w.edge, x |-> x]
AtStore(x, target) ==                           \* ImportIndirectCallAliasesAtSucc
  [kind |-> "atStore", on |-> Calls(x.base), at |-> x.w.edge, x |-> x,
   target |-> target]
AnySite(x) ==                                          \* ForAnyCallSiteOrExitStmt
  [kind |-> "anySite", on |-> Calls(x.flow), at |-> "any", x |-> x]
OnReach(x, e) ==                                         \* ImportOnReachStatement
  [kind |-> "onReach", on |-> Calls(x.base), at |-> e, x |-> x]
FromCall(x, t) ==                                      \* ImportTransitionFromCall
  [kind |-> "fromCall", on |-> Calls(x.base), at |-> t.label, x |-> x,
   start |-> t.start, target |-> t.target]

\* equals compares less than the fields: a listener is an inner class, and of
\* the store and the pair it belongs to it compares only what is named here.
Equal(l, k) ==
  /\ l.kind = k.kind /\ l.on = k.on /\ l.at = k.at
  /\ l.kind \in {"flow", "base", "pointsTo", "aliases"} => l = k
  /\ l.kind \in {"from", "callAliases", "onReach", "atSite", "fromCall"}
       => l.x.flow = k.x.flow
  /\ l.kind = "anySite" => l.x.base = k.x.base
  /\ l.kind = "atSite" => l.fact = k.fact
  /\ l.kind \in {"atStore", "fromCall"} => l.target = k.target

-----------------------------------------------------------------------------
(* Calls and loops, the elements of the stack                              *)

Add(a, t) == [op |-> "add", on |-> a, t |-> t]
Index(a, t) == [op |-> "index", on |-> a, t |-> t]
States(a, t) == [op |-> "states", on |-> a, t |-> t]
Tell(t, ls) == [op |-> "tell", t |-> t, ls |-> ls]
Register(l) == [op |-> "register", l |-> l]
Replay(l, ts) == [op |-> "replay", l |-> l, ts |-> ts]
BackwardSolve == [op |-> "backward"]
AddBase(w, q) == [op |-> "addBase", w |-> w, q |-> q]
AddFlow(w, q) == [op |-> "addFlow", w |-> w, q |-> q]
Execute(xs) == [op |-> "execute", xs |-> xs]
RegisterActivation(x) == [op |-> "registerActivation", x |-> x]
Activations(x, ns) == [op |-> "activations", x |-> x, ns |-> ns]
Solve(x) == [op |-> "solve", x |-> x]
FlowsTo(x) == [op |-> "flowsTo", x |-> x]
QueueOrAdd(x, t) == [op |-> "queueOrAdd", x |-> x, t |-> t]
AddReachable(x, n) == [op |-> "addReachable", x |-> x, n |-> n]
Release(x, ts) == [op |-> "release", x |-> x, ts |-> ts]
ActivateAll(p, n) == [op |-> "activateAll", p |-> p, n |-> n]
TriggerAll(xs, n) == [op |-> "triggerAll", xs |-> xs, n |-> n]

\* trigger
Connecting(x, n) == Tr(n, x.w.field, << << x.w.edge, x.w.base >>, x.w.field >>)
Trigger(x, n) == << Add(Fields(x.flow), Connecting(x, n)), AddReachable(x, n) >>

\* importFieldTransitionsStartingAt
Import(x, t) ==
  IF t.label = Epsilon THEN << >>
  ELSE IF t.label = Empty
  THEN IF t.target = Initial[x.base] THEN << ActivateAll(Pair(x), t.start) >> ELSE << >>
  ELSE IF t.target \in Generated
  THEN << QueueOrAdd(x, t), Register(From(x, t.target)) >>
  ELSE << >>

FactOf(s) == IF s \in Val \cup CallTarget THEN s ELSE s[1]   \* INode.fact

\* onAddedTransition, onOutTransitionAdded or onWeightAdded of a listener
FieldHandler(l, t) ==
  CASE l.kind = "flow" -> IF t.start \in Node THEN << AddFlow(l.w, l.q) >> ELSE << >>
    [] l.kind = "base" -> IF t.target = Initial[l.q] THEN << AddBase(l.w, l.q) >> ELSE << >>
    [] l.kind = "pointsTo" ->
         IF t.start \in Node /\ t.start[2] = l.x.w.base /\ t.label = Empty
         THEN << FlowsTo(l.x) >> ELSE << >>
    [] l.kind = "aliases" -> IF t.start \in Node THEN Import(l.x, t) ELSE << >>
    [] l.kind = "from" -> Import(l.x, t)
    [] l.kind = "atSite" ->
         IF t.start \in Node /\ t.start[2] = l.fact THEN Import(l.x, t) ELSE << >>

CallHandler(l, t) ==
  CASE l.kind = "callAliases" ->
         IF FactOf(t.start) = l.x.w.stored
         THEN << Register(AtStore(l.x, t.target)) >> ELSE << >>
    [] l.kind = "atStore" ->
         IF l.x.w \notin ArrayWrite /\ FactOf(t.start) # l.x.w.base
         THEN << Add(Calls(l.x.flow), Tr(t.start, t.label, l.target)) >> ELSE << >>
    [] l.kind = "anySite" ->
         IF t.target \in CallTarget /\ << t.label, FactOf(t.start) >> \in Uses
         THEN << Register(OnReach(l.x, t.label)), Register(FromCall(l.x, t)) >>
         ELSE << >>
    [] l.kind = "onReach" ->
         IF t.start \in Val THEN << Register(AtSite(l.x, t.label, t.start)) >> ELSE << >>
    [] l.kind = "fromCall" ->
         IF t.start \in Val \ {l.start} /\ MethodOf[t.start] = MethodOf[t.label]
         THEN << Add(Calls(l.x.flow), Tr(t.start, t.label, l.target)) >> ELSE << >>

Handler(l, t) == IF l.on[1] = "fields" THEN FieldHandler(l, t) ELSE CallHandler(l, t)

-----------------------------------------------------------------------------
Top == Head(stack)
Running(op) == stack # << >> /\ Top.op = op

\* The solvers go on wherever their own listeners run.
ClientTurn(c) ==
  stack # << >> => /\ Top.op \in {"index", "states", "tell", "backward"}
                   /\ c \in Interrupting

Init ==
  /\ trans = {} /\ indexed = {} /\ listeners = {} /\ reached = {}
  /\ bases = {} /\ flows = {} /\ activatedPoi = {} /\ poiListeners = {}
  /\ active = {} /\ reachable = {} /\ delayed = {}
  /\ stack = << >>

\* A solver derives a transition of its own.
Derive(a, t) ==
  /\ ClientTurn(<< a, t >>)
  /\ << a, t >> \notin trans
  /\ stack' = << Add(a, t) >> \o stack
  /\ UNCHANGED << autVars, reached, poiVars, pairVars, execVars >>

\* forwardHandleFieldWrite, when a node is reached in both automata
ReachStore(q, w, v) ==
  /\ ClientTurn(<< q, << w.edge, v >> >>)
  /\ << q, << w.edge, v >> >> \notin reached
  /\ \E p \in trans : p[1] = Fields(q) /\ p[2].start = << w.edge, v >> /\ p[2].label # Epsilon
  /\ \E p \in trans : p[1] = Calls(q) /\ p[2].start = v /\ p[2].label = w.edge
  /\ reached' = reached \cup {<< q, << w.edge, v >> >>}
  /\ stack' =
       ( IF v = w.stored
         THEN << BackwardSolve, Register(FlowAllocation(q, w)) >> ELSE << >> )
       \o ( IF v = w.base THEN << Register(BaseAllocation(q, w)) >> ELSE << >> )
       \o stack
  /\ UNCHANGED << autVars, poiVars, pairVars, execVars >>

-----------------------------------------------------------------------------
(* The automata and their listeners *)

\* Who hears of t: a state listener, a statement listener or, "any", a
\* listener of the whole automaton.
Place(a, t) == IF a[1] = "calls" THEN t.label
               ELSE IF t.start \in Node THEN t.start[1] ELSE t.start[1][1]
Hearing(a, at) == { l \in listeners : l.on = a /\ l.at = at }

AddTransition ==
  /\ Running("add")
  /\ LET a == Top.on
         t == Top.t
     IN  IF << a, t >> \in trans
         THEN stack' = Tail(stack) /\ UNCHANGED trans
         ELSE /\ trans' = trans \cup {<< a, t >>}
              /\ \E loop \in IF a[1] = "fields"
                             THEN { << Index(a, t), States(a, t) >> }
                             ELSE { << Index(a, t), Tell(t, Hearing(a, "any")) >>,
                                    << Tell(t, Hearing(a, "any")), Index(a, t) >> } :
                   stack' = loop \o Tail(stack)
  /\ UNCHANGED << indexed, listeners, reached, poiVars, pairVars, execVars >>

\* addTransitionToStatement, addCallTransitionToStatement
IndexTransition ==
  /\ Running("index")
  /\ indexed' = indexed \cup {<< Top.on, Top.t >>}
  /\ stack' = << Tell(Top.t, Hearing(Top.on, Place(Top.on, Top.t))) >> \o Tail(stack)
  /\ UNCHANGED << trans, listeners, reached, poiVars, pairVars, execVars >>

\* The state listeners are read when the update listeners have been told.
ServeStates ==
  /\ Running("states")
  /\ stack' = << Tell(Top.t, Hearing(Top.on, Top.t.start)) >> \o Tail(stack)
  /\ UNCHANGED << autVars, reached, poiVars, pairVars, execVars >>

Deliver ==
  /\ Running("tell")
  /\ \E l \in Top.ls :
       stack' = Handler(l, Top.t) \o << Tell(Top.t, Top.ls \ {l}) >> \o Tail(stack)
  /\ UNCHANGED << autVars, reached, poiVars, pairVars, execVars >>

\* What l is told of when it is registered.
Present(l) ==
  { p[2] : p \in { p \in IF l.kind \in {"base", "from", "anySite"} THEN trans ELSE indexed :
      /\ p[1] = l.on
      /\ \/ l.kind \in {"base", "from"} /\ p[2].start = l.at
         \/ l.kind = "anySite"
         \/ l.kind \notin {"base", "from", "anySite"} /\ Place(p[1], p[2]) = l.at } }

\* registerListener, registerStatementFieldTransitionListener,
\* registerStatementCallTransitionListener
RegisterListener ==
  /\ Running("register")
  /\ IF \E l \in listeners : Equal(l, Top.l)
     THEN stack' = Tail(stack) /\ UNCHANGED listeners
     ELSE /\ listeners' = listeners \cup {Top.l}
          /\ stack' = << Replay(Top.l, Present(Top.l)) >> \o Tail(stack)
  /\ UNCHANGED << trans, indexed, reached, poiVars, pairVars, execVars >>

ReplayTransition ==
  /\ Running("replay")
  /\ \E t \in Top.ts :
       stack' = Handler(Top.l, t) \o << Replay(Top.l, Top.ts \ {t}) >> \o Tail(stack)
  /\ UNCHANGED << autVars, reached, poiVars, pairVars, execVars >>

-----------------------------------------------------------------------------
(* PointOfIndirection and FieldWritePOI.execute *)

Run(w, b, f) == [w |-> w, base |-> b, flow |-> f]

AddBaseAllocation ==
  /\ Running("addBase")
  /\ LET w == Top.w
         new == { Run(w, Top.q, p[2]) : p \in { p \in flows : p[1] = w } }
     IN  /\ bases' = bases \cup {<< w, Top.q >>}
         /\ stack' = IF << w, Top.q >> \in bases THEN Tail(stack)
                     ELSE << Execute(new) >> \o Tail(stack)
  /\ UNCHANGED << autVars, reached, flows, pairVars, execVars >>

\* Mutant: an allocation that comes first in one kind waits for the other.
AddFlowAllocationFirst ==
  /\ Running("addFlow")
  /\ flows' = flows \cup {<< Top.w, Top.q >>}
  /\ stack' = Tail(stack)
  /\ UNCHANGED << autVars, reached, bases, pairVars, execVars >>

AddFlowAllocation ==
  /\ Running("addFlow")
  /\ LET w == Top.w
         new == { Run(w, p[2], Top.q) : p \in { p \in bases : p[1] = w } }
     IN  /\ flows' = flows \cup {<< w, Top.q >>}
         /\ stack' = IF << w, Top.q >> \in flows THEN Tail(stack)
                     ELSE << Execute(new) >> \o Tail(stack)
  /\ UNCHANGED << autVars, reached, bases, pairVars, execVars >>

ExecuteOne ==
  /\ Running("execute")
  /\ \E x \in Top.xs :
       stack' = << RegisterActivation(x), Solve(x), Execute(Top.xs \ {x}) >> \o Tail(stack)
  /\ UNCHANGED << autVars, reached, poiVars, pairVars, execVars >>

-----------------------------------------------------------------------------
(* The activations of a pair of solvers *)

Activated(p) == { e[2] : e \in { e \in activatedPoi : e[1] = p } }
Registered(p) == { x \in poiListeners : Pair(x) = p }

\* Mutant: earlier activations are not replayed.
BeginActivationsNone ==
  /\ Running("registerActivation")
  /\ stack' = << Activations(Top.x, {}) >> \o Tail(stack)
  /\ UNCHANGED << autVars, reached, poiVars, pairVars, execVars >>

BeginActivations ==
  /\ Running("registerActivation")
  /\ stack' = << Activations(Top.x, Activated(Pair(Top.x))) >> \o Tail(stack)
  /\ UNCHANGED << autVars, reached, poiVars, pairVars, execVars >>

\* The nodes activated so far are replayed; only then x is registered.
ReplayActivation ==
  /\ Running("activations")
  /\ \/ /\ \E n \in Top.ns :
             stack' = Trigger(Top.x, n) \o << Activations(Top.x, Top.ns \ {n}) >> \o Tail(stack)
        /\ UNCHANGED poiListeners
     \/ /\ Top.ns = {}
        /\ poiListeners' = poiListeners \cup {Top.x}
        /\ stack' = Tail(stack)
  /\ UNCHANGED << autVars, reached, poiVars, activatedPoi, execVars >>

ActivateAllPois ==
  /\ Running("activateAll")
  /\ activatedPoi' = activatedPoi \cup {<< Top.p, Top.n >>}
  /\ stack' = IF << Top.p, Top.n >> \in activatedPoi THEN Tail(stack)
              ELSE << TriggerAll(Registered(Top.p), Top.n) >> \o Tail(stack)
  /\ UNCHANGED << autVars, reached, poiVars, poiListeners, execVars >>

TriggerOne ==
  /\ Running("triggerAll")
  /\ \E x \in Top.xs :
       stack' = Trigger(x, Top.n) \o << TriggerAll(Top.xs \ {x}, Top.n) >> \o Tail(stack)
  /\ UNCHANGED << autVars, reached, poiVars, pairVars, execVars >>

-----------------------------------------------------------------------------
(* ExecuteImportFieldStmtPOI *)

StartSolve ==
  /\ Running("solve")
  /\ stack' = IF Top.x.base = Top.x.flow THEN Tail(stack)
              ELSE << Register(PointsTo(Top.x)) >> \o Tail(stack)
  /\ UNCHANGED << autVars, reached, poiVars, pairVars, execVars >>

\* Mutant: nothing is imported at call sites.
BaseFlowsToStoreOnly ==
  /\ Running("flowsTo")
  /\ active' = active \cup {Top.x}
  /\ stack' = IF Top.x \in active THEN Tail(stack)
              ELSE << Register(Aliases(Top.x)), Register(CallAliases(Top.x)) >> \o Tail(stack)
  /\ UNCHANGED << autVars, reached, poiVars, pairVars, reachable, delayed >>

\* flowsTo: handlingAtFieldStatements, handlingAtCallSites
BaseFlowsTo ==
  /\ Running("flowsTo")
  /\ active' = active \cup {Top.x}
  /\ stack' = IF Top.x \in active THEN Tail(stack)
              ELSE << Register(Aliases(Top.x)), Register(CallAliases(Top.x)),
                      Register(AnySite(Top.x)) >> \o Tail(stack)
  /\ UNCHANGED << autVars, reached, poiVars, pairVars, reachable, delayed >>

\* Mutant: a transition is added before its target is connected.
QueueOrAddTransitionAtOnce ==
  /\ Running("queueOrAdd")
  /\ stack' = << Add(Fields(Top.x.flow), Top.t), AddReachable(Top.x, Top.t.start) >>
              \o Tail(stack)
  /\ UNCHANGED << autVars, reached, poiVars, pairVars, execVars >>

QueueOrAddTransition ==
  /\ Running("queueOrAdd")
  /\ LET x == Top.x
         t == Top.t
     IN  IF << x, t.target >> \in reachable
         THEN /\ stack' = << Add(Fields(x.flow), t), AddReachable(x, t.start) >> \o Tail(stack)
              /\ UNCHANGED delayed
         ELSE /\ delayed' = delayed \cup {<< x, t >>}
              /\ stack' = Tail(stack)
  /\ UNCHANGED << autVars, reached, poiVars, pairVars, active, reachable >>

\* Mutant: every waiting transition is released.
MakeReachableAll ==
  /\ Running("addReachable")
  /\ LET x == Top.x
         due == { p[2] : p \in { p \in delayed : p[1] = x } }
     IN  /\ reachable' = reachable \cup {<< x, Top.n >>}
         /\ stack' = IF << x, Top.n >> \in reachable THEN Tail(stack)
                     ELSE << Release(x, due) >> \o Tail(stack)
  /\ UNCHANGED << autVars, reached, poiVars, pairVars, active, delayed >>

MakeReachable ==
  /\ Running("addReachable")
  /\ LET x == Top.x
         due == { p[2] : p \in { p \in delayed : p[1] = x /\ p[2].target = Top.n } }
     IN  /\ reachable' = reachable \cup {<< x, Top.n >>}
         /\ stack' = IF << x, Top.n >> \in reachable THEN Tail(stack)
                     ELSE << Release(x, due) >> \o Tail(stack)
  /\ UNCHANGED << autVars, reached, poiVars, pairVars, active, delayed >>

\* Mutant: what a released transition starts at is not made reachable.
ReleaseTransitionOnly ==
  /\ Running("release")
  /\ \E t \in Top.ts :
       stack' = << Add(Fields(Top.x.flow), t), Release(Top.x, Top.ts \ {t}) >> \o Tail(stack)
  /\ UNCHANGED << autVars, reached, poiVars, pairVars, execVars >>

\* Mutant: a released transition stays due.
ReleaseTransitionAgain ==
  /\ Running("release")
  /\ \E t \in Top.ts :
       stack' = << Add(Fields(Top.x.flow), t), AddReachable(Top.x, t.start) >> \o stack
  /\ UNCHANGED << autVars, reached, poiVars, pairVars, execVars >>

\* InsertFieldTransitionCallback.trigger
ReleaseTransition ==
  /\ Running("release")
  /\ \E t \in Top.ts :
       stack' = << Add(Fields(Top.x.flow), t), AddReachable(Top.x, t.start),
                   Release(Top.x, Top.ts \ {t}) >> \o Tail(stack)
  /\ UNCHANGED << autVars, reached, poiVars, pairVars, execVars >>

-----------------------------------------------------------------------------
\* A call or loop that has nothing left to do returns.
Return ==
  /\ \/ Running("tell") /\ Top.ls = {}
     \/ Running("replay") /\ Top.ts = {}
     \/ Running("release") /\ Top.ts = {}
     \/ Running("execute") /\ Top.xs = {}
     \/ Running("triggerAll") /\ Top.xs = {}
     \/ Running("backward")
  /\ stack' = Tail(stack)
  /\ UNCHANGED << autVars, reached, poiVars, pairVars, execVars >>

Solvers ==
  \/ \E a \in Automaton : \E t \in Own[a] : Derive(a, t)
  \/ \E q \in Query, w \in Write : \E v \in {w.base, w.stored} : ReachStore(q, w, v)

Engine ==
  \/ AddTransition \/ IndexTransition \/ ServeStates \/ Deliver
  \/ RegisterListener \/ ReplayTransition
  \/ AddBaseAllocation \/ AddFlowAllocation \/ ExecuteOne
  \/ BeginActivations \/ ReplayActivation \/ ActivateAllPois \/ TriggerOne
  \/ StartSolve \/ BaseFlowsTo \/ QueueOrAddTransition \/ MakeReachable
  \/ ReleaseTransition \/ Return

Next == Solvers \/ Engine

Spec == Init /\ [][Next]_vars

\* A call on the stack of a running thread is executed.
FairSpec == Spec /\ WF_vars(Engine)


-----------------------------------------------------------------------------
(* Properties *)

Transitions(a) == { p[2] : p \in { p \in trans : p[1] = a } }
Quiet == stack = << >>

(* Whichever of a base and a flow allocation of a store is found first,    *)
(* and whatever other pairs are found while one is executed, the pair is   *)
(* executed (PointOfIndirection.addBaseAllocation, addFlowAllocation).     *)
PairsMeet ==
  Quiet => \A w \in Write, b, f \in Query :
    << w, b >> \in bases /\ << w, f >> \in flows =>
      LET x == Run(w, b, f)
      IN  /\ x \in poiListeners
          /\ b # f => PointsTo(x) \in listeners

(* A state is reachable only when its access path leads, inside the flow's *)
(* automaton, to the field that was stored, so no copied field hangs in    *)
(* the air (ExecuteImportFieldStmtPOI.trigger, queueOrAdd, addReachable).  *)
Connected ==
  \A r \in reachable :
    LET x == r[1]
    IN  \/ << Fields(x.flow), Connecting(x, r[2]) >> \in trans
        \/ \E p \in trans : /\ p[1] = Fields(x.flow) /\ p[2].start = r[2]
                            /\ << x, p[2].target >> \in reachable

(* Nothing is invented: a field transition of a flow's automaton is its    *)
(* own, or connects an activated state of a base to the stored field, or   *)
(* is one of the base's, copied for a store the base flows to at whose     *)
(* base variable it points (importFieldTransitionsStartingAt).             *)
WithinImported ==
  \A q \in Query : \A t \in Transitions(Fields(q)) \ Own[Fields(q)] :
    \E w \in Write, b \in Query :
      LET x == Run(w, b, q)
      IN  /\ << w, b >> \in bases /\ << w, q >> \in flows
          /\ \/ t.start \in Activated(Pair(x)) /\ t = Connecting(x, t.start)
             \/ /\ x \in active
                /\ << Fields(b), t >> \in trans
                /\ << x, t.target >> \in reachable

\* The call sites at which a pair imports, by importSolvers.
Sites(x) ==
  { t \in Transitions(Calls(x.flow)) :
      t.target \in CallTarget /\ << t.label, FactOf(t.start) >> \in Uses }

\* The field transitions of the base that begin an access path to import.
BeginAtStore(x) ==
  { t \in Transitions(Fields(x.base)) :
      t.start \in Node /\ t.start[1] = x.w.edge /\ t.label # Epsilon }
BeginAtSites(x) ==
  { t \in Transitions(Fields(x.base)) :
      /\ t.start \in Node /\ t.label # Epsilon
      /\ \E s \in Sites(x), u \in Transitions(Calls(x.base)) :
           u.label = s.label /\ u.start \in Val /\ t.start = << s.label, u.start >> }

\* ... and all those on these paths.
GoesOn(s, t) ==
  s.label # Empty /\ s.target \in Generated /\ t.start = s.target /\ t.label # Epsilon
Walked(x) ==
  LET all == Transitions(Fields(x.base))
      Closed(W) == /\ BeginAtStore(x) \cup BeginAtSites(x) \subseteq W
                   /\ \A s \in W, t \in all : GoesOn(s, t) => t \in W
  IN  { t \in all : \A W \in SUBSET all : Closed(W) => t \in W }

\* A step of a path is in the flow's automaton, or waits for its target.
InFlow(x, t) == << Fields(x.flow), t >> \in trans /\ << x, t.start >> \in reachable
Taken(x, t) ==
  /\ << x, t >> \in delayed \/ InFlow(x, t)
  /\ << x, t.target >> \in reachable => InFlow(x, t)

(* When nothing runs, every access path of the base at the store, and at   *)
(* the calls the flow's variables are used in, has been followed to its    *)
(* end, which is activated.  Every step is taken, those at a store by that *)
(* store, the others by at least one store of the pair of solvers          *)
(* (ExecuteImportFieldStmtPOI, the ImportFieldTransitionsFrom chain).      *)
PathsImported ==
  Quiet => \A x \in active : \A t \in Walked(x) :
    IF t.label = Empty
    THEN t.target = Initial[x.base] => t.start \in Activated(Pair(x))
    ELSE t.target \in Generated =>
           \E y \in active : /\ Pair(y) = Pair(x) /\ Taken(y, t)
                             /\ t \in BeginAtStore(x) => y = x

(* ... and each store puts its paths into the flow's automaton, where they *)
(* go on with the stored field: every step towards a state that is         *)
(* reachable for the store is there.                                       *)
FieldsImported ==
  Quiet => \A x \in active : \A t \in Walked(x) :
    t.label # Empty /\ t.target \in Generated /\ << x, t.target >> \in reachable
      => InFlow(x, t)

\* What a variable that x's base flows to is to get of the flow's contexts: at the
\* store those of the stored variable, at a call the unbalanced ones.
CopiedCall(x, s, u) == << Calls(x.flow), Tr(u.start, u.label, s.target) >> \in trans
StoreCallsImported(x) ==
  x.w \notin ArrayWrite =>
    \A s \in Transitions(Calls(x.flow)), u \in Transitions(Calls(x.base)) :
      /\ s.label = x.w.edge /\ u.label = x.w.edge
      /\ FactOf(s.start) = x.w.stored /\ FactOf(u.start) # x.w.base
      => CopiedCall(x, s, u)
SiteCallsImported(x) ==
  \A s \in Sites(x), u \in Transitions(Calls(x.base)) :
    /\ u.label = s.label /\ u.start \in Val
    /\ MethodOf[u.start] = MethodOf[u.label]
    => CopiedCall(x, s, u)

(* When nothing runs, the variables the base flows to at the store are in  *)
(* the calling contexts of the stored variable, and those it flows to at a *)
(* call in the unbalanced contexts of the flow (ImportIndirectCallAliases, *)
(* ForAnyCallSiteOrExitStmt).                                              *)
CallsImported ==
  Quiet => \A x \in active : StoreCallsImported(x) /\ SiteCallsImported(x)

\* No other pair of the store has the base or the flow of x.
OnlyAtStore(x) ==
  \A y \in active : y.w = x.w /\ (y.base = x.base \/ y.flow = x.flow) => y = x

(* ... at the store at least where no other pair shares an allocation with *)
(* it: a listener is dropped only in favour of one of such a pair.         *)
ContextsImported ==
  Quiet => \A x \in active :
    (OnlyAtStore(x) => StoreCallsImported(x)) /\ SiteCallsImported(x)

(* The listeners of one solver that run the listeners of another come to   *)
(* an end, also when two solvers import from each other                    *)
(* (ExecuteImportFieldStmtPOI, WeightedPAutomaton).                        *)
ComesToRest == []<>Quiet

=============================================================================
