---------------------------- MODULE UnbalancedFlow ----------------------------
(***************************************************************************)
(* Returns out of the method a query starts in.  A flow that leaves a      *)
(* method it was not called into is unbalanced                             *)
(* (AbstractBoomerangSolver.addPotentialUnbalancedFlow) and goes on at a   *)
(* call site only with permission (allowUnbalanced), which the query graph *)
(* (boomerang.QueryGraph) derives from the calling contexts of the queries *)
(* that raised this one, or when the query is a root.  The call graph that *)
(* names the call sites (callgraph.ObservableDynamicICFG) grows meanwhile. *)
(*                                                                         *)
(* All backward queries share one solver, hence one call automaton and one *)
(* set of permissions.  As in PostStar the Java call stack is the variable *)
(* `stack', innermost call first, and a loop picks any element left of its *)
(* snapshot.  One variable stands for the facts of a solver in a method,   *)
(* so that flows of two queries can meet; weights are left out.            *)
(***************************************************************************)
EXTENDS Naturals, Sequences, FiniteSets

CONSTANTS
  Query, Backward,  \* the queries, and those that are BackwardQuery
  Home,             \* the method of a query's variable
  Roots,            \* the queries that are passed to solve
  Method, Site,
  CallerOf,         \* the method of a call site
  Known,            \* pairs of site and callee in the call graph beforehand
  Resolved,         \* ... and those found for a listener to the site's callees
  Escapes,          \* pairs <<s, m>>: the flows of solver s in m reach m's exit
  Raises,           \* triples <<p, m, c>>: p raises c when it flows in m
  Excluded,         \* dataFlowScope.isExcluded
  Shared, None,     \* the backward solver; null
  Interrupts,       \* bound for TLC: the calls during which the solvers go on ...
  ClientDepth       \* ... and how deep the stack is when they do

VARIABLES
  graph,            \* demandDrivenCallGraph
  calleeListeners,  \* CallSiteCalleeListeners, by solver and site
  callerListeners,  \* CallerListeners
  solved,           \* queries that have been solved
  rootQuery,        \* rootQuery of WeightedBoomerang
  roots,            \* roots of the query graph
  sources,          \* initialStatesToSource, by solver
  trans,            \* the transitions of the call automata, by solver
  callRules,        \* the push rules of calls: solver, site, callee
  flows,            \* unbalancedDataFlows, by solver
  permits,          \* unbalancedDataFlowListeners, by solver
  edges,            \* query edges <<parent, method of the node, child>>
  sourceListeners,  \* SourceListeners on the call automata
  edgeListeners,    \* UnbalancedContextListeners
  stack             \* the calls and loops in progress, innermost first

icfgVars == << graph, calleeListeners, callerListeners >>
queryVars == << solved, rootQuery, roots >>
autVars == << sources, trans, callRules >>
flowVars == << flows, permits >>
graphVars == << edges, sourceListeners, edgeListeners >>
vars == << icfgVars, queryVars, autVars, flowVars, graphVars, stack >>

-----------------------------------------------------------------------------
Solver == (Query \ Backward) \cup {Shared}
SolverOf(q) == IF q \in Backward THEN Shared ELSE q

\* States of a call automaton: the facts of a method, and the generated states
\* of a query's start, of a call into a method and of an unbalanced return.
Fact(m) == << "fact", m >>
Start(q) == << "start", q >>
Entry(m) == << "entry", m >>
Return(s) == << "return", s >>
Generated == ({"start"} \X Query) \cup ({"entry"} \X Method) \cup ({"return"} \X Site)
State == ({"fact"} \X Method) \cup Generated

\* Labels: inside a method, at its exit, before and behind a call site.
Label == ({"in", "exit"} \X Method) \cup ({"before", "behind"} \X Site)
Transition == [start : State, label : Label, target : Generated]
Tr(s, a, q) == [start |-> s, label |-> a, target |-> q]

At(m, x) == Tr(Fact(m), << "in", m >>, x)
Exit(m, x) == Tr(Fact(m), << "exit", m >>, x)
Behind(x, s, y) == Tr(x, << "behind", s >>, y)
LabelMethod(a) == IF a[1] \in {"in", "exit"} THEN a[2] ELSE CallerOf[a[2]]

Forced(q) == [kind |-> "force", solver |-> q[1], t |-> q[2], callee |-> LabelMethod(q[2].label)]
Context(c, m) == [kind |-> "context", child |-> c, callee |-> m]
Source(x, p, c, m) == [state |-> x, parent |-> p, child |-> c, callee |-> m]
Unbalanced(c, p, t) == [child |-> c, parent |-> p, t |-> t]

ASSUME QueryAssumption ==
  /\ Backward \subseteq Query /\ Roots \subseteq Query
  /\ Home \in [Query -> Method] /\ CallerOf \in [Site -> Method]
  /\ Known \subseteq Site \X Method /\ Resolved \subseteq Site \X Method
  /\ Escapes \subseteq Solver \X Method
  /\ Raises \subseteq Query \X Method \X Query
  /\ Excluded \subseteq Method
  /\ None \notin Query \cup Method /\ Shared \notin Query /\ ClientDepth \in Nat
  /\ Interrupts \subseteq
       {"solving", "tell", "replay", "callees", "callersKnown", "tellCallers"}

(***************************************************************************)
(* The calls and loops of the stack                                        *)
(***************************************************************************)
Add(s, t) == [op |-> "add", s |-> s, t |-> t]
Heard(s, t) == [op |-> "heard", s |-> s, t |-> t]           \* UnbalancedListener
States(s, t) == [op |-> "states", s |-> s, t |-> t]
Tell(s, t, ls) == [op |-> "tell", s |-> s, t |-> t, rest |-> ls]
Solving == [op |-> "solving"]                               \* processNode
Forcing(s, t) == [op |-> "force", s |-> s, t |-> t]
ToSites(s, t, xs) == [op |-> "toSites", s |-> s, t |-> t, rest |-> xs]
FlowsTo(s, x, ts) == [op |-> "flowsTo", s |-> s, site |-> x, rest |-> ts]
Propagate(s, x, t) == [op |-> "propagate", s |-> s, site |-> x, t |-> t]
Declare(s, y, x) == [op |-> "declare", s |-> s, state |-> y, parent |-> x]
Allow(c, m, x) == [op |-> "allow", child |-> c, callee |-> m, site |-> x]
AddCaller(l) == [op |-> "addCaller", l |-> l]
CallersKnown(l, xs) == [op |-> "callersKnown", l |-> l, rest |-> xs]
Callees(x, m, ls) == [op |-> "callees", site |-> x, callee |-> m, rest |-> ls]
Callers(x, m) == [op |-> "callers", site |-> x, callee |-> m]
TellCallers(x, ls) == [op |-> "tellCallers", site |-> x, rest |-> ls]
Listen(l) == [op |-> "listen", l |-> l]                     \* a SourceListener
Replay(l, ts) == [op |-> "replay", l |-> l, rest |-> ts]
Ask(l, t) == [op |-> "ask", l |-> l, t |-> t]               \* isUnbalancedState
Watch(l) == [op |-> "watch", l |-> l]                       \* registerEdgeListener
EdgesKnown(l, es) == [op |-> "edgesKnown", l |-> l, rest |-> es]
NoParent(l) == [op |-> "noParent", l |-> l]
AddEdge(p, m, c) == [op |-> "addEdge", e |-> << p, m, c >>]
TellEdge(e, ls) == [op |-> "tellEdge", e |-> e, rest |-> ls]

Top == Head(stack)
Running(op) == stack # << >> /\ Top.op = op
Push(fs) == stack' = fs \o stack
Replace(fs) == stack' = fs \o Tail(stack)
\* A loop makes the calls fs for x, an element of what is left.
Take(x, fs) == Replace(fs \o << [Top EXCEPT !.rest = @ \ {x}] >>)

Of(s) == { p[2] : p \in { p \in trans : p[1] = s } }
Initial(s, x) == \E p \in sources : p[1] = s /\ p[2] = x

-----------------------------------------------------------------------------
Init ==
  /\ graph = Known /\ calleeListeners = {} /\ callerListeners = {}
  /\ solved = {} /\ rootQuery = None /\ roots = {}
  /\ sources = {} /\ trans = {} /\ callRules = {}
  /\ flows = {} /\ permits = {}
  /\ edges = {} /\ sourceListeners = {} /\ edgeListeners = {}
  /\ stack = << >>

(* The clients: queries and the solvers' own flows *)

\* The solvers go on where their listeners run, and while a node is processed.
ClientTurn ==
  stack # << >> => Top.op \in Interrupts /\ Len(stack) <= ClientDepth

\* backwardSolve, forwardSolve and SyncPDSSolver.solve
StartSolver(q, fs) ==
  /\ solved' = solved \cup {q}
  /\ rootQuery' = IF q \in Backward /\ rootQuery = None THEN q ELSE rootQuery
  /\ sources' = sources \cup {<< SolverOf(q), Start(q), q >>}
  /\ Push(<< Add(SolverOf(q), At(Home[q], Start(q))), Solving >> \o fs)

\* solve(BackwardQuery), solve(ForwardQuery)
Solve(q) ==
  /\ stack = << >> /\ q \notin roots
  /\ roots' = roots \cup {q}
  /\ StartSolver(q, << >>)
  /\ UNCHANGED << icfgVars, trans, callRules, flowVars, graphVars >>

\* A field store or an allocation is reached: the query it raises is solved
\* before its edge is added.
Raise(p, m, c) ==
  /\ ClientTurn
  /\ \E t \in Of(SolverOf(p)) : t.start = Fact(m) /\ t.label = << "in", m >>
  /\ p \in solved /\ << p, m, c >> \notin edges
  /\ \A i \in 1..Len(stack) : stack[i] # AddEdge(p, m, c)
  /\ StartSolver(c, << AddEdge(p, m, c) >>)
  /\ UNCHANGED << icfgVars, roots, trans, callRules, flowVars, graphVars >>

\* What the solver's pushdown system derives next.
Derived(s) ==
  LET T == Of(s)
      ins == { t \in T : t.label[1] = "in" }
      exits == { t \in T : t.label[1] = "exit" }
      behind == { t \in T : t.label[1] = "behind" }
      called == { x \in { r \in callRules : r[1] = s } \X ins :
                    x[2].label[2] = CallerOf[x[1][2]] }
  IN  { Exit(t.label[2], t.target) : t \in { t \in ins : << s, t.label[2] >> \in Escapes } }
      \cup { At(x[1][3], Entry(x[1][3])) : x \in called }
      \cup { Behind(Entry(x[1][3]), x[1][2], x[2].target) : x \in called }
      \cup { At(CallerOf[x[2].label[2]], x[2].target) :
               x \in { x \in exits \X behind : x[1].target = x[2].start } }

Derive(s, t) ==
  /\ ClientTurn
  /\ t \notin Of(s)
  /\ Push(<< Add(s, t) >>)
  /\ UNCHANGED << icfgVars, queryVars, autVars, flowVars, graphVars >>

\* A flow reaches a call site: addCalleeListener, with a handler that adds the
\* call's push rule.
ReachCall(s, x) ==
  /\ ClientTurn
  /\ << s, x >> \notin calleeListeners
  /\ \E t \in Of(s) : t.label = << "in", CallerOf[x] >>
  /\ calleeListeners' = calleeListeners \cup {<< s, x >>}
  /\ callRules' = callRules \cup { << s, x, m >> : m \in { m \in Method : << x, m >> \in graph } }
  /\ UNCHANGED << graph, callerListeners, queryVars, sources, trans, flowVars, graphVars, stack >>

\* addCallIfNotInGraph, for a callee that is resolved for a listener
AddCall(x, m) ==
  /\ ClientTurn
  /\ << x, m >> \in Resolved \ graph
  /\ \E s \in Solver : << s, x >> \in calleeListeners
  /\ graph' = graph \cup {<< x, m >>}
  /\ Push(<< Callees(x, m, { s \in Solver : << s, x >> \in calleeListeners }), Callers(x, m) >>)
  /\ UNCHANGED << calleeListeners, callerListeners, queryVars, autVars, flowVars, graphVars >>

-----------------------------------------------------------------------------
(* WeightedPAutomaton.addTransition and its listeners *)

AddTransition ==
  /\ Running("add")
  /\ IF << Top.s, Top.t >> \in trans
     THEN trans' = trans /\ Replace(<< >>)
     ELSE /\ trans' = trans \cup {<< Top.s, Top.t >>}
          /\ Replace(<< Heard(Top.s, Top.t), States(Top.s, Top.t) >>)
  /\ UNCHANGED << icfgVars, queryVars, sources, callRules, flowVars, graphVars >>

\* UnbalancedListener.onWeightAdded, and the first half of
\* addPotentialUnbalancedFlow
AddPotentialUnbalancedFlow ==
  /\ Running("heard")
  /\ LET s == Top.s  t == Top.t  m == LabelMethod(t.label) IN
     IF t.label[1] = "exit" /\ Initial(s, t.target)
     THEN /\ flows' = flows \cup {<< s, t >>}
          /\ Replace((IF << s, t >> \in flows THEN << >>
                      ELSE << ToSites(s, t, { x \in Site : << s, m, x >> \in permits }) >>)
                     \o << Forcing(s, t) >>)
     ELSE flows' = flows /\ Replace(<< >>)
  /\ UNCHANGED << icfgVars, queryVars, autVars, permits, graphVars >>

\* forceUnbalanced of the backward solver and of a forward solver
ForceUnbalanced(s, x) ==
  IF s = Shared THEN << s, x, rootQuery >> \in sources ELSE s \in roots

\* Mutant: only callers that are found later are told of a forced flow.
ForceFlowLate ==
  /\ Running("force")
  /\ callerListeners' = callerListeners \cup
       (IF ForceUnbalanced(Top.s, Top.t.target) THEN {Forced(<< Top.s, Top.t >>)} ELSE {})
  /\ Replace(<< >>)
  /\ UNCHANGED << graph, calleeListeners, queryVars, autVars, flowVars, graphVars >>

ForceFlow ==
  /\ Running("force")
  /\ Replace(IF ForceUnbalanced(Top.s, Top.t.target)
             THEN << AddCaller(Forced(<< Top.s, Top.t >>)) >> ELSE << >>)
  /\ UNCHANGED << icfgVars, queryVars, autVars, flowVars, graphVars >>

\* The loop over the call sites a new flow may return to.
\* Mutant: a served call site stays in the loop.
PropagateToSitesAgain ==
  /\ Running("toSites")
  /\ IF Top.rest = {} THEN Replace(<< >>)
     ELSE \E x \in Top.rest : Push(<< Propagate(Top.s, x, Top.t) >>)
  /\ UNCHANGED << icfgVars, queryVars, autVars, flowVars, graphVars >>

PropagateToSites ==
  /\ Running("toSites")
  /\ \E x \in Top.rest : Take(x, << Propagate(Top.s, x, Top.t) >>)
  /\ UNCHANGED << icfgVars, queryVars, autVars, flowVars, graphVars >>

\* Mutant: the flows that arrived before their permission are left.
AllowUnbalancedLater ==
  /\ Running("allow")
  /\ permits' = IF Top.callee \in Excluded THEN permits
                ELSE permits \cup {<< SolverOf(Top.child), Top.callee, Top.site >>}
  /\ Replace(<< >>)
  /\ UNCHANGED << icfgVars, queryVars, autVars, flows, graphVars >>

AllowUnbalanced ==
  /\ Running("allow")
  /\ LET s == SolverOf(Top.child)  p == << s, Top.callee, Top.site >> IN
     IF Top.callee \in Excluded \/ p \in permits
     THEN permits' = permits /\ Replace(<< >>)
     ELSE /\ permits' = permits \cup {p}
          /\ Replace(<< FlowsTo(s, Top.site,
               { f[2] : f \in { f \in flows :
                   f[1] = s /\ LabelMethod(f[2].label) = Top.callee } }) >>)
  /\ UNCHANGED << icfgVars, queryVars, autVars, flows, graphVars >>

\* ... and the loop over the flows that a new permission lets go on.
PropagateFlows ==
  /\ Running("flowsTo")
  /\ \E t \in Top.rest : Take(t, << Propagate(Top.s, Top.site, t) >>)
  /\ UNCHANGED << icfgVars, queryVars, autVars, flowVars, graphVars >>

IsMatchingCallSiteCalleePair(x, m) == << x, m >> \in graph

\* The variable of the query a solver was created with.
FirstHome(s) == IF s = Shared THEN Home[rootQuery] ELSE Home[s]

\* Mutant: the return's state is declared when the flow is there already.
DeclareLate ==
  /\ Running("propagate")
  /\ LET s == Top.s  x == Top.site IN
     Replace(IF ~ IsMatchingCallSiteCalleePair(x, LabelMethod(Top.t.label)) THEN << >>
             ELSE << Add(s, Tr(Fact(FirstHome(s)), << "before", x >>, Return(x))),
                     Add(s, Behind(Top.t.target, x, Return(x))),
                     Add(s, At(CallerOf[x], Return(x))),
                     Declare(s, Return(x), Top.t.target) >>)
  /\ UNCHANGED << icfgVars, queryVars, autVars, flowVars, graphVars >>

\* propagateUnbalancedToCallSite: a transition from the query's variable into
\* the state of the return, the state's declaration, and a push rule that leads
\* from the flow's target into it.
PropagateUnbalancedToCallSite ==
  /\ Running("propagate")
  /\ LET s == Top.s  x == Top.site IN
     Replace(IF ~ IsMatchingCallSiteCalleePair(x, LabelMethod(Top.t.label)) THEN << >>
             ELSE << Add(s, Tr(Fact(FirstHome(s)), << "before", x >>, Return(x))),
                     Declare(s, Return(x), Top.t.target),
                     Add(s, Behind(Top.t.target, x, Return(x))) >>)
  /\ UNCHANGED << icfgVars, queryVars, autVars, flowVars, graphVars >>

AddUnbalancedState ==
  /\ Running("declare")
  /\ sources' = sources \cup
       { << Top.s, Top.state, p[3] >> :
           p \in { p \in sources : p[1] = Top.s /\ p[2] = Top.parent } }
  /\ Replace(<< >>)
  /\ UNCHANGED << icfgVars, queryVars, trans, callRules, flowVars, graphVars >>

-----------------------------------------------------------------------------
(* ObservableDynamicICFG *)

\* addCallerListener: the listeners are anonymous, and always new.
AddCallerListener ==
  /\ Running("addCaller")
  /\ callerListeners' = callerListeners \cup {Top.l}
  /\ Replace(<< CallersKnown(Top.l, { x \in Site : << x, Top.l.callee >> \in graph }) >>)
  /\ UNCHANGED << graph, calleeListeners, queryVars, autVars, flowVars, graphVars >>

\* onCallerAdded, of addPotentialUnbalancedFlow and of noParentEdge
OnCallerAdded(l, x) ==
  IF l.kind = "force" THEN Propagate(l.solver, x, l.t) ELSE Allow(l.child, l.callee, x)

TellKnownCallers ==
  /\ Running("callersKnown")
  /\ \E x \in Top.rest : Take(x, << OnCallerAdded(Top.l, x) >>)
  /\ UNCHANGED << icfgVars, queryVars, autVars, flowVars, graphVars >>

\* addCallIfNotInGraph tells the listeners to the site's callees ...
TellCalleeListeners ==
  /\ Running("callees")
  /\ \E s \in Top.rest :
       /\ callRules' = callRules \cup {<< s, Top.site, Top.callee >>}
       /\ Take(s, << >>)
  /\ UNCHANGED << icfgVars, queryVars, sources, trans, flowVars, graphVars >>

\* ... and then those to the callee's callers, which it reads only now.
CallersAdded ==
  /\ Running("callers")
  /\ Replace(<< TellCallers(Top.site, { l \in callerListeners : l.callee = Top.callee }) >>)
  /\ UNCHANGED << icfgVars, queryVars, autVars, flowVars, graphVars >>

TellCallerListeners ==
  /\ Running("tellCallers")
  /\ \E l \in Top.rest : Take(l, << OnCallerAdded(l, Top.site) >>)
  /\ UNCHANGED << icfgVars, queryVars, autVars, flowVars, graphVars >>

-----------------------------------------------------------------------------
(* QueryGraph *)

AddQueryEdge ==
  /\ Running("addEdge")
  /\ edges' = edges \cup {Top.e}
  /\ Replace((IF Top.e \in edges THEN << >>
              ELSE << TellEdge(Top.e, { l \in edgeListeners : l.parent = Top.e[3] }) >>)
             \o << Listen(Source(Fact(Top.e[2]), Top.e[1], Top.e[3], None)) >>)
  /\ UNCHANGED << icfgVars, queryVars, autVars, flowVars, sourceListeners, edgeListeners >>

\* UnbalancedContextListener.edgeAdded: the child's contexts go on in those of
\* its parent's parent.
EdgeAdded(l, e) == Listen(Source(Fact(e[2]), e[1], l.child, None))

TellEdgeListeners ==
  /\ Running("tellEdge")
  /\ \E l \in Top.rest : Take(l, << EdgeAdded(l, Top.e) >>)
  /\ UNCHANGED << icfgVars, queryVars, autVars, flowVars, graphVars >>

\* Mutant: a listener hears of later transitions only.
RegisterSourceListenerLate ==
  /\ Running("listen")
  /\ sourceListeners' = sourceListeners \cup {Top.l}
  /\ Replace(<< >>)
  /\ UNCHANGED << icfgVars, queryVars, autVars, flowVars, edges, edgeListeners >>

\* registerListener of a SourceListener on the parent's call automaton
RegisterSourceListener ==
  /\ Running("listen")
  /\ sourceListeners' = sourceListeners \cup {Top.l}
  /\ Replace(IF Top.l \in sourceListeners THEN << >>
             ELSE << Replay(Top.l, { t \in Of(SolverOf(Top.l.parent)) : t.start = Top.l.state }) >>)
  /\ UNCHANGED << icfgVars, queryVars, autVars, flowVars, edges, edgeListeners >>

\* Mutant: the method of the call site instead of the method behind.
OnOutTransitionAddedHere(l, t) ==
  (IF t.start \in Generated /\ l.callee # None
   THEN << Allow(l.child, LabelMethod(t.label), t.label[2]) >> ELSE << >>)
  \o << Listen(Source(t.target, l.parent, l.child, LabelMethod(t.label))), Ask(l, t) >>

\* SourceListener.onOutTransitionAdded
OnOutTransitionAdded(l, t) ==
  (IF t.start \in Generated /\ l.callee # None
   THEN << Allow(l.child, l.callee, t.label[2]) >> ELSE << >>)
  \o << Listen(Source(t.target, l.parent, l.child, LabelMethod(t.label))), Ask(l, t) >>

\* The state listeners of a new transition's start, in a snapshot read after
\* the UnbalancedListener has run.
ServeStates ==
  /\ Running("states")
  /\ Replace(<< Tell(Top.s, Top.t,
       { l \in sourceListeners : SolverOf(l.parent) = Top.s /\ l.state = Top.t.start }) >>)
  /\ UNCHANGED << icfgVars, queryVars, autVars, flowVars, graphVars >>

Deliver ==
  /\ \/ Running("tell") /\ \E l \in Top.rest : Take(l, OnOutTransitionAdded(l, Top.t))
     \/ Running("replay") /\ \E t \in Top.rest : Take(t, OnOutTransitionAdded(Top.l, t))
  /\ UNCHANGED << icfgVars, queryVars, autVars, flowVars, graphVars >>

AskUnbalanced ==
  /\ Running("ask")
  /\ Replace(IF Initial(SolverOf(Top.l.parent), Top.t.target)
             THEN << Watch(Unbalanced(Top.l.child, Top.l.parent, Top.t)) >> ELSE << >>)
  /\ UNCHANGED << icfgVars, queryVars, autVars, flowVars, graphVars >>

RegisterEdgeListener ==
  /\ Running("watch")
  /\ edgeListeners' = edgeListeners \cup {Top.l}
  /\ LET es == { e \in edges : e[3] = Top.l.parent } IN
     Replace(IF Top.l \in edgeListeners THEN << >>
             ELSE IF es = {} THEN << NoParent(Top.l) >> ELSE << EdgesKnown(Top.l, es) >>)
  /\ UNCHANGED << icfgVars, queryVars, autVars, flowVars, edges, sourceListeners >>

TellKnownEdges ==
  /\ Running("edgesKnown")
  /\ \E e \in Top.rest : Take(e, << EdgeAdded(Top.l, e) >>)
  /\ UNCHANGED << icfgVars, queryVars, autVars, flowVars, graphVars >>

\* The method of the fact of an unbalanced state of p's solver: also that of a
\* return is the method of the variable it was made with.
FactMethod(p, x) == IF x[1] = "start" THEN Home[x[2]] ELSE FirstHome(SolverOf(p))

\* Mutant: forward queries return to the callers, too.
NoParentEdgeForAll ==
  /\ Running("noParent")
  /\ Replace(<< AddCaller(Context(Top.l.child, FactMethod(Top.l.parent, Top.l.t.target))) >>)
  /\ UNCHANGED << icfgVars, queryVars, autVars, flowVars, graphVars >>

NoParentEdge ==
  /\ Running("noParent")
  /\ LET l == Top.l IN
     Replace(IF l.child \in Backward
             THEN << AddCaller(Context(l.child, FactMethod(l.parent, l.t.target))) >>
             ELSE << >>)
  /\ UNCHANGED << icfgVars, queryVars, autVars, flowVars, graphVars >>

-----------------------------------------------------------------------------
Loops == {"tell", "replay", "toSites", "flowsTo", "callersKnown", "callees",
          "tellCallers", "edgesKnown", "tellEdge"}

\* A loop is through, or a node has been processed.
EndLoop ==
  /\ stack # << >>
  /\ \/ Top.op \in Loops /\ Top.rest = {}
     \/ Running("solving")
  /\ Replace(<< >>)
  /\ UNCHANGED << icfgVars, queryVars, autVars, flowVars, graphVars >>

Solvers ==
  \/ \E q \in Roots : Solve(q)
  \/ \E e \in Raises : Raise(e[1], e[2], e[3])
  \/ \E s \in Solver : \E t \in Derived(s) : Derive(s, t)
  \/ \E s \in Solver, x \in Site : ReachCall(s, x)
  \/ \E c \in Resolved : AddCall(c[1], c[2])

Engine ==
  \/ AddTransition \/ AddPotentialUnbalancedFlow \/ ForceFlow \/ PropagateToSites
  \/ AllowUnbalanced \/ PropagateFlows \/ PropagateUnbalancedToCallSite
  \/ AddUnbalancedState \/ AddCallerListener \/ TellKnownCallers
  \/ TellCalleeListeners \/ CallersAdded \/ TellCallerListeners
  \/ AddQueryEdge \/ TellEdgeListeners \/ RegisterSourceListener \/ ServeStates
  \/ Deliver \/ AskUnbalanced \/ RegisterEdgeListener \/ TellKnownEdges
  \/ NoParentEdge \/ EndLoop

Next == Solvers \/ Engine

Spec == Init /\ [][Next]_vars

\* A call on the stack of a running thread is executed.
FairSpec == Spec /\ WF_vars(Engine)

-----------------------------------------------------------------------------
(* Properties *)

(* The automata hold typed transitions and the tables are about solvers,   *)
(* methods and queries that exist (AbstractBoomerangSolver, QueryGraph).   *)
TypeOK ==
  /\ graph \subseteq Known \cup Resolved
  /\ calleeListeners \subseteq Solver \X Site
  /\ \A l \in callerListeners : l.kind \in {"force", "context"} /\ l.callee \in Method
  /\ solved \subseteq Query /\ rootQuery \in Backward \cup {None} /\ roots \subseteq solved
  /\ sources \subseteq Solver \X Generated \X solved
  /\ trans \subseteq Solver \X Transition
  /\ callRules \subseteq Solver \X Site \X Method
  /\ flows \subseteq trans
  /\ permits \subseteq Solver \X Method \X Site
  /\ edges \subseteq Raises
  /\ \A l \in sourceListeners : /\ l.state \in State /\ l.callee \in Method \cup {None}
                                /\ l.parent \in solved /\ l.child \in solved
  /\ \A l \in edgeListeners : << SolverOf(l.parent), l.t >> \in trans

(* A permission names a call site of the method, which the call graph has: *)
(* the look at the callers known at that moment, which is never repeated,  *)
(* turns no flow down (AbstractBoomerangSolver.isMatchingCallSiteCalleePair). *)
PermitsMatch ==
  /\ \A p \in permits : << p[3], p[2] >> \in graph
  /\ Running("propagate") => << Top.site, LabelMethod(Top.t.label) >> \in graph

\* The flow t of solver s goes on behind call site x.
Returned(s, t, x) ==
  << s, Behind(t.target, x, Return(x)) >> \in trans /\ Initial(s, Return(x))

(* In the end every unbalanced flow has returned to every call site that   *)
(* it was permitted to return to, whichever came first                     *)
(* (AbstractBoomerangSolver.addPotentialUnbalancedFlow, allowUnbalanced).  *)
QuietReturned ==
  stack = << >> =>
    \A f \in flows, p \in permits :
      p[1] = f[1] /\ p[2] = LabelMethod(f[2].label) => Returned(f[1], f[2], p[3])

(* ... and every flow of a root query has returned to every caller the     *)
(* call graph ends with (BackwardBoomerangSolver.forceUnbalanced).         *)
QuietForced ==
  stack = << >> =>
    \A f \in flows : ForceUnbalanced(f[1], f[2].target) =>
      \A x \in Site : << x, LabelMethod(f[2].label) >> \in graph => Returned(f[1], f[2], x)

\* Only a root's flows end in the state x of solver s: no other query is a source
\* of x, or has raised the query of s.
OnlyOfRoot(s, x) ==
  IF s = Shared THEN \A p \in sources : p[1] = s /\ p[2] = x => p[3] = rootQuery
  ELSE \A e \in edges : e[3] # s

(* In the end every flow that was forced, or that nothing but a root query *)
(* can have led to, has returned to every caller the call graph ends with: *)
(* a root loses a caller only where its flow meets that of another query   *)
(* (AbstractBoomerangSolver.addPotentialUnbalancedFlow, forceUnbalanced).  *)
QuietForcedAlone ==
  stack = << >> =>
    \A f \in flows : Forced(f) \in callerListeners \/ OnlyOfRoot(f[1], f[2].target) =>
      \A x \in Site : << x, LabelMethod(f[2].label) >> \in graph => Returned(f[1], f[2], x)

(* In the end every flow that reached an exit with a target that is        *)
(* declared unbalanced by then is taken for an unbalanced flow, although    *)
(* the listener asks only once and flows run ahead of declarations          *)
(* (AbstractBoomerangSolver.UnbalancedListener, propagateUnbalancedToCallSite). *)
QuietCaught ==
  stack = << >> =>
    \A p \in trans : p[2].label[1] = "exit" /\ Initial(p[1], p[2].target) => p \in flows

\* A source listener is a context of its child: it climbs the transitions from
\* its state in the automaton of its parent, ...
Climbs(l, p) == p[1] = SolverOf(l.parent) /\ p[2].start = l.state
\* ... and leaves the parent by one that ends where the parent's query started.
LeavesBy(l, p) == Climbs(l, p) /\ Initial(p[1], p[2].target)

\* The contexts of all queries are in L: those of the edges they have, and with
\* a context those it climbs to and those it goes on in behind its parent.
Contexts(L) ==
  /\ \A e \in edges : Source(Fact(e[2]), e[1], e[3], None) \in L
  /\ \A l \in L, p \in trans : Climbs(l, p) =>
       Source(p[2].target, l.parent, l.child, LabelMethod(p[2].label)) \in L
  /\ \A l \in L, p \in trans, e \in edges : LeavesBy(l, p) /\ e[3] = l.parent =>
       Source(Fact(e[2]), e[1], l.child, None) \in L

\* The context's child may return from m to its callers, those in C.
Returns(l, m, C) ==
  m \in Excluded \/ \A x \in C : << SolverOf(l.child), m, x >> \in permits

(* In the end a query may return to every call site in the calling         *)
(* contexts of the queries that led to it, and to every caller of the root *)
(* they end in, whatever the order in which queries, edges, transitions,   *)
(* calls and declarations arrived (boomerang.QueryGraph).                  *)
QuietPermitted ==
  stack = << >> =>
    /\ Contexts(sourceListeners)
    /\ \A l \in sourceListeners, p \in trans : Climbs(l, p) =>
         /\ l.state \in Generated /\ l.callee # None => Returns(l, l.callee, {p[2].label[2]})
         /\ LeavesBy(l, p) /\ l.child \in Backward /\ (\A e \in edges : e[3] # l.parent) =>
              LET m == FactMethod(l.parent, p[2].target)
              IN  Returns(l, m, { x \in Site : << x, m >> \in graph })

(* When the clients have nothing left to do, the calls in progress return. *)
ComesToRest == []<>(stack = << >>)

=============================================================================
