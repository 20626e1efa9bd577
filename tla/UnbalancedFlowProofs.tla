------------------------ MODULE UnbalancedFlowProofs ------------------------
(***************************************************************************)
(* Theorems about UnbalancedFlow, for all queries, methods, call sites,    *)
(* flows and call graphs.                                                  *)
(*                                                                         *)
(* The look at the callers known at that moment, which                     *)
(* isMatchingCallSiteCalleePair takes once per flow and call site, turns   *)
(* nothing down: every state of a call automaton belongs to one method,    *)
(* that of all labels that lead to it, and a label behind a call site      *)
(* starts at a state of a method that the call graph has as callee.        *)
(*                                                                         *)
(* The later parts: every permitted return is made, every flow with a      *)
(* declared target is caught, permissions come from calling contexts, no   *)
(* context's permission is missing in the end, and a root's flow that      *)
(* meets no other query's returns to every caller.                         *)
(***************************************************************************)
EXTENDS UnbalancedFlow, StackLemmas

-----------------------------------------------------------------------------
(* The inductive invariant *)

\* The solvers of queries that have been solved
Used == { s \in Solver : IF s = Shared THEN rootQuery # None ELSE s \in solved }

\* The method a state of a call automaton belongs to
MethodOf(x) ==
  IF x[1] = "start" THEN Home[x[2]] ELSE IF x[1] = "entry" THEN x[2] ELSE CallerOf[x[2]]

\* The transitions that lead into a state of their method, and out of a generated
\* state only behind a call site of its method
Placed ==
  { t \in Transition :
      /\ LabelMethod(t.label) = MethodOf(t.target)
      /\ t.start \in Generated =>
           /\ t.label[1] = "behind"
           /\ << t.label[2], MethodOf(t.start) >> \in graph }

CallersOf(m) == { x \in Site : << x, m >> \in graph }

CallRule == { r \in Used \X Site \X Method : << r[2], r[3] >> \in graph }
Permit == { p \in Used \X Method \X Site : << p[3], p[2] >> \in graph }

QueryEdge == { e \in Raises : e[1] \in solved /\ e[3] \in solved }

SourceListener ==
  { l \in [state : State, parent : solved, child : solved, callee : Method \cup {None}] :
      l.state \in Generated /\ l.callee # None => l.callee = MethodOf(l.state) }

EdgeListener ==
  { l \in [child : solved, parent : solved, t : Placed] : << SolverOf(l.parent), l.t >> \in trans }

CallerListener ==
  { l \in [kind : {"force"}, solver : Used, t : Placed, callee : Method] :
      l.callee = LabelMethod(l.t.label) }
  \cup [kind : {"context"}, child : solved, callee : Method]

\* A transition before a call site leads from the fact the solver was created with
\* to the state of the return.
Ahead(s, t) ==
  t.label[1] = "before" => t.start = Fact(FirstHome(s)) /\ t.target = Return(t.label[2])

(* What a call or loop on the stack is about *)

AddFrame == { f \in [op : {"add"}, s : Used, t : Placed] : Ahead(f.s, f.t) }
HeardFrame ==
  { f \in [op : {"heard", "states", "force"}, s : Used, t : Placed] : << f.s, f.t >> \in trans }
TellFrame ==
  { f \in [op : {"tell"}, s : Used, t : Placed, rest : SUBSET SourceListener] :
      /\ << f.s, f.t >> \in trans
      /\ \A l \in f.rest : l.state = f.t.start /\ SolverOf(l.parent) = f.s }
SolvingFrame == [op : {"solving"}]
ToSitesFrame ==
  { f \in [op : {"toSites"}, s : Used, t : Placed, rest : SUBSET Site] :
      f.rest \subseteq CallersOf(LabelMethod(f.t.label)) }
FlowsToFrame ==
  { f \in [op : {"flowsTo"}, s : Used, site : Site, rest : SUBSET Placed] :
      \A t \in f.rest : << f.site, LabelMethod(t.label) >> \in graph }
PropagateFrame ==
  { f \in [op : {"propagate"}, s : Used, site : Site, t : Placed] :
      << f.site, LabelMethod(f.t.label) >> \in graph }
DeclareFrame == [op : {"declare"}, s : Used, state : Generated, parent : Generated]
AllowFrame ==
  { f \in [op : {"allow"}, child : solved, callee : Method, site : Site] :
      << f.site, f.callee >> \in graph }
AddCallerFrame == [op : {"addCaller"}, l : CallerListener]
CallersKnownFrame ==
  { f \in [op : {"callersKnown"}, l : CallerListener, rest : SUBSET Site] :
      f.rest \subseteq CallersOf(f.l.callee) }
CalleesFrame ==
  { f \in [op : {"callees"}, site : Site, callee : Method, rest : SUBSET Used] :
      << f.site, f.callee >> \in graph }
CallersFrame ==
  { f \in [op : {"callers"}, site : Site, callee : Method] : << f.site, f.callee >> \in graph }
TellCallersFrame ==
  { f \in [op : {"tellCallers"}, site : Site, rest : SUBSET CallerListener] :
      \A l \in f.rest : << f.site, l.callee >> \in graph }
ListenFrame == [op : {"listen"}, l : SourceListener]
ReplayFrame ==
  { f \in [op : {"replay"}, l : SourceListener, rest : SUBSET Placed] :
      \A t \in f.rest : t.start = f.l.state /\ << SolverOf(f.l.parent), t >> \in trans }
AskFrame ==
  { f \in [op : {"ask"}, l : SourceListener, t : Placed] : << SolverOf(f.l.parent), f.t >> \in trans }
WatchFrame == [op : {"watch", "noParent"}, l : EdgeListener]
EdgesKnownFrame == [op : {"edgesKnown"}, l : EdgeListener, rest : SUBSET QueryEdge]
AddEdgeFrame == [op : {"addEdge"}, e : QueryEdge]
TellEdgeFrame == [op : {"tellEdge"}, e : QueryEdge, rest : SUBSET EdgeListener]

SolverFrame ==
  AddFrame \cup HeardFrame \cup TellFrame \cup SolvingFrame \cup ToSitesFrame
  \cup FlowsToFrame \cup PropagateFrame \cup DeclareFrame \cup AllowFrame
CallFrame ==
  AddCallerFrame \cup CallersKnownFrame \cup CalleesFrame \cup CallersFrame
  \cup TellCallersFrame
QueryFrame ==
  ListenFrame \cup ReplayFrame \cup AskFrame \cup WatchFrame \cup EdgesKnownFrame
  \cup AddEdgeFrame \cup TellEdgeFrame
Frame == SolverFrame \cup CallFrame \cup QueryFrame

IcfgInv ==
  /\ graph \subseteq Known \cup Resolved
  /\ calleeListeners \subseteq Used \X Site
  /\ callerListeners \subseteq CallerListener
QueriesInv ==
  /\ solved \subseteq Query /\ rootQuery \in Backward \cup {None} /\ roots \subseteq solved
  /\ \A q \in solved : SolverOf(q) \in Used
  /\ edges \subseteq QueryEdge
  /\ sourceListeners \subseteq SourceListener /\ edgeListeners \subseteq EdgeListener
AutomataInv ==
  /\ sources \subseteq Used \X Generated \X solved
  /\ trans \subseteq Used \X Placed /\ \A p \in trans : Ahead(p[1], p[2])
  /\ callRules \subseteq CallRule /\ flows \subseteq trans /\ permits \subseteq Permit

Inv == IcfgInv /\ QueriesInv /\ AutomataInv /\ stack \in Seq(Frame)

-----------------------------------------------------------------------------
(* States and transitions *)

LEMMA SolverTyped ==
  ASSUME NEW q \in Query
  PROVE  /\ SolverOf(q) \in Solver /\ Home[q] \in Method
         /\ Shared \in Solver /\ (SolverOf(q) = Shared <=> q \in Backward)
  BY QueryAssumption DEF SolverOf, Solver

LEMMA StateTyped ==
  /\ \A m \in Method : Fact(m) \in State /\ Fact(m) \notin Generated
  /\ \A q \in Query : Start(q) \in Generated /\ MethodOf(Start(q)) = Home[q]
  /\ \A m \in Method : Entry(m) \in Generated /\ MethodOf(Entry(m)) = m
  /\ \A x \in Site : Return(x) \in Generated /\ MethodOf(Return(x)) = CallerOf[x]
  /\ \A x \in Generated : x \in State /\ MethodOf(x) \in Method
<1>1. \A m \in Method : Fact(m) \in State /\ Fact(m) \notin Generated
  BY DEF Fact, State, Generated
<1>2. \A q \in Query : Start(q) \in Generated /\ MethodOf(Start(q)) = Home[q]
  BY DEF Start, Generated, MethodOf
<1>3. \A m \in Method : Entry(m) \in Generated /\ MethodOf(Entry(m)) = m
  BY DEF Entry, Generated, MethodOf
<1>4. \A x \in Site : Return(x) \in Generated /\ MethodOf(Return(x)) = CallerOf[x]
  BY DEF Return, Generated, MethodOf
<1>5. \A x \in Generated : x \in State /\ MethodOf(x) \in Method
  BY QueryAssumption DEF Generated, State, MethodOf
<1> QED
  BY <1>1, <1>2, <1>3, <1>4, <1>5

LEMMA PlacedTyped ==
  ASSUME NEW t \in Placed
  PROVE  /\ t \in Transition /\ t.target \in Generated /\ t.target \in State /\ t.start \in State
         /\ LabelMethod(t.label) \in Method /\ LabelMethod(t.label) = MethodOf(t.target)
         /\ t.start \in Generated =>
              /\ t.label[1] = "behind" /\ t.label[2] \in Site
              /\ << t.label[2], MethodOf(t.start) >> \in graph
<1>1. t \in Transition /\ t.target \in Generated /\ t.start \in State /\ t.label \in Label
  BY DEF Placed, Transition
<1>2. LabelMethod(t.label) = MethodOf(t.target)
  BY DEF Placed
<1>3. t.label[1] = "behind" => t.label[2] \in Site
  BY <1>1 DEF Label
<1> QED
  BY <1>1, <1>2, <1>3, StateTyped DEF Placed

LEMMA InMethod ==
  ASSUME NEW m \in Method, NEW x \in Generated, MethodOf(x) = m
  PROVE  At(m, x) \in Placed /\ Exit(m, x) \in Placed
<1>1. << "in", m >> \in Label /\ << "exit", m >> \in Label /\ Fact(m) \in State
      /\ Fact(m) \notin Generated
  BY StateTyped DEF Label
<1> QED
  BY <1>1 DEF At, Exit, Tr, Placed, Transition, LabelMethod

LEMMA BeforeCall ==
  ASSUME NEW m \in Method, NEW x \in Site
  PROVE  Tr(Fact(m), << "before", x >>, Return(x)) \in Placed
<1>1. << "before", x >> \in Label /\ Fact(m) \in State /\ Fact(m) \notin Generated
      /\ Return(x) \in Generated /\ MethodOf(Return(x)) = CallerOf[x]
  BY StateTyped DEF Label
<1> QED
  BY <1>1 DEF Tr, Placed, Transition, LabelMethod

LEMMA BehindCall ==
  ASSUME NEW x \in Site, NEW y \in Generated, NEW z \in Generated,
         << x, MethodOf(y) >> \in graph, MethodOf(z) = CallerOf[x]
  PROVE  Behind(y, x, z) \in Placed
<1>1. << "behind", x >> \in Label /\ y \in State
  BY StateTyped DEF Label
<1> QED
  BY <1>1 DEF Behind, Tr, Placed, Transition, LabelMethod

-----------------------------------------------------------------------------
(* What is true of a frame stays true: the tables only grow. *)

Grows ==
  /\ graph \subseteq graph' /\ trans \subseteq trans' /\ solved \subseteq solved'
  /\ rootQuery # None => rootQuery' = rootQuery

LEMMA GrowTables ==
  ASSUME Grows
  PROVE  /\ Used \subseteq Used' /\ Placed \subseteq Placed' /\ QueryEdge \subseteq QueryEdge'
         /\ \A m : CallersOf(m) \subseteq CallersOf(m)'
<1>1. Used \subseteq Used'
  BY DEF Grows, Used
<1>2. Placed \subseteq Placed'
  BY DEF Grows, Placed
<1>3. QueryEdge \subseteq QueryEdge'
  BY DEF Grows, QueryEdge
<1>4. \A m : CallersOf(m) \subseteq CallersOf(m)'
  BY DEF Grows, CallersOf
<1> QED
  BY <1>1, <1>2, <1>3, <1>4

LEMMA GrowListeners ==
  ASSUME Grows
  PROVE  /\ SourceListener \subseteq SourceListener' /\ EdgeListener \subseteq EdgeListener'
         /\ CallerListener \subseteq CallerListener'
<1>1. SourceListener \subseteq SourceListener'
  BY DEF Grows, SourceListener
<1>2. EdgeListener \subseteq EdgeListener'
  BY GrowTables DEF Grows, EdgeListener
<1>3. CallerListener \subseteq CallerListener'
  BY GrowTables DEF Grows, CallerListener
<1> QED
  BY <1>1, <1>2, <1>3

LEMMA GrowAhead ==
  ASSUME Grows, NEW s \in Used, NEW t, Ahead(s, t) PROVE Ahead(s, t)'
<1>1. FirstHome(s)' = FirstHome(s)
  BY DEF Grows, Used, FirstHome
<1> QED
  BY <1>1 DEF Ahead, Fact, Return

LEMMA GrowSolverFrames == ASSUME Grows PROVE SolverFrame \subseteq SolverFrame'
<1> USE GrowTables, GrowListeners
<1>1. AddFrame \subseteq AddFrame'
  BY GrowAhead DEF AddFrame
<1>2. HeardFrame \subseteq HeardFrame'
  BY DEF HeardFrame, Grows
<1>3. TellFrame \subseteq TellFrame'
  BY DEF TellFrame, Grows
<1>4. SolvingFrame \subseteq SolvingFrame'
  BY DEF SolvingFrame
<1>5. ToSitesFrame \subseteq ToSitesFrame'
  BY DEF ToSitesFrame, CallersOf, Grows
<1>6. FlowsToFrame \subseteq FlowsToFrame'
  BY DEF FlowsToFrame, Grows
<1>7. PropagateFrame \subseteq PropagateFrame'
  BY DEF PropagateFrame, Grows
<1>8. DeclareFrame \subseteq DeclareFrame'
  BY DEF DeclareFrame
<1>9. AllowFrame \subseteq AllowFrame'
  BY DEF AllowFrame, Grows
<1> QED
  BY <1>1, <1>2, <1>3, <1>4, <1>5, <1>6, <1>7, <1>8, <1>9 DEF SolverFrame

LEMMA GrowCallFrames == ASSUME Grows PROVE CallFrame \subseteq CallFrame'
<1> USE GrowTables, GrowListeners
<1>1. AddCallerFrame \subseteq AddCallerFrame'
  BY DEF AddCallerFrame
<1>2. CallersKnownFrame \subseteq CallersKnownFrame'
  BY DEF CallersKnownFrame, CallersOf, Grows
<1>3. CalleesFrame \subseteq CalleesFrame'
  BY DEF CalleesFrame, Grows
<1>4. CallersFrame \subseteq CallersFrame'
  BY DEF CallersFrame, Grows
<1>5. TellCallersFrame \subseteq TellCallersFrame'
  BY DEF TellCallersFrame, Grows
<1> QED
  BY <1>1, <1>2, <1>3, <1>4, <1>5 DEF CallFrame

LEMMA GrowQueryFrames == ASSUME Grows PROVE QueryFrame \subseteq QueryFrame'
<1> USE GrowTables, GrowListeners
<1>1. ListenFrame \subseteq ListenFrame'
  BY DEF ListenFrame
<1>2. ReplayFrame \subseteq ReplayFrame'
  BY DEF ReplayFrame, Grows
<1>3. AskFrame \subseteq AskFrame'
  BY DEF AskFrame, Grows
<1>4. WatchFrame \subseteq WatchFrame'
  BY DEF WatchFrame
<1>5. EdgesKnownFrame \subseteq EdgesKnownFrame'
  BY DEF EdgesKnownFrame
<1>6. AddEdgeFrame \subseteq AddEdgeFrame'
  BY DEF AddEdgeFrame
<1>7. TellEdgeFrame \subseteq TellEdgeFrame'
  BY DEF TellEdgeFrame
<1> QED
  BY <1>1, <1>2, <1>3, <1>4, <1>5, <1>6, <1>7 DEF QueryFrame

LEMMA GrowFrames == ASSUME Grows PROVE Frame \subseteq Frame'
  BY GrowSolverFrames, GrowCallFrames, GrowQueryFrames DEF Frame

-----------------------------------------------------------------------------
(* The frame on top *)

LEMMA FrameOps ==
  ASSUME NEW f
  PROVE  /\ f \in AddFrame => f.op = "add"
         /\ f \in HeardFrame => f.op \in {"heard", "states", "force"}
         /\ f \in TellFrame => f.op = "tell"
         /\ f \in SolvingFrame => f.op = "solving"
         /\ f \in ToSitesFrame => f.op = "toSites"
         /\ f \in FlowsToFrame => f.op = "flowsTo"
         /\ f \in PropagateFrame => f.op = "propagate"
         /\ f \in DeclareFrame => f.op = "declare"
         /\ f \in AllowFrame => f.op = "allow"
         /\ f \in AddCallerFrame => f.op = "addCaller"
         /\ f \in CallersKnownFrame => f.op = "callersKnown"
         /\ f \in CalleesFrame => f.op = "callees"
         /\ f \in CallersFrame => f.op = "callers"
         /\ f \in TellCallersFrame => f.op = "tellCallers"
         /\ f \in ListenFrame => f.op = "listen"
         /\ f \in ReplayFrame => f.op = "replay"
         /\ f \in AskFrame => f.op = "ask"
         /\ f \in WatchFrame => f.op \in {"watch", "noParent"}
         /\ f \in EdgesKnownFrame => f.op = "edgesKnown"
         /\ f \in AddEdgeFrame => f.op = "addEdge"
         /\ f \in TellEdgeFrame => f.op = "tellEdge"
<1>1. /\ f \in AddFrame => f.op = "add"
      /\ f \in HeardFrame => f.op \in {"heard", "states", "force"}
      /\ f \in TellFrame => f.op = "tell"
      /\ f \in SolvingFrame => f.op = "solving"
      /\ f \in ToSitesFrame => f.op = "toSites"
      /\ f \in FlowsToFrame => f.op = "flowsTo"
      /\ f \in PropagateFrame => f.op = "propagate"
      /\ f \in DeclareFrame => f.op = "declare"
      /\ f \in AllowFrame => f.op = "allow"
  BY DEF AddFrame, HeardFrame, TellFrame, SolvingFrame, ToSitesFrame, FlowsToFrame,
         PropagateFrame, DeclareFrame, AllowFrame
<1>2. /\ f \in AddCallerFrame => f.op = "addCaller"
      /\ f \in CallersKnownFrame => f.op = "callersKnown"
      /\ f \in CalleesFrame => f.op = "callees"
      /\ f \in CallersFrame => f.op = "callers"
      /\ f \in TellCallersFrame => f.op = "tellCallers"
  BY DEF AddCallerFrame, CallersKnownFrame, CalleesFrame, CallersFrame, TellCallersFrame
<1>3. /\ f \in ListenFrame => f.op = "listen"
      /\ f \in ReplayFrame => f.op = "replay"
      /\ f \in AskFrame => f.op = "ask"
      /\ f \in WatchFrame => f.op \in {"watch", "noParent"}
      /\ f \in EdgesKnownFrame => f.op = "edgesKnown"
      /\ f \in AddEdgeFrame => f.op = "addEdge"
      /\ f \in TellEdgeFrame => f.op = "tellEdge"
  BY DEF ListenFrame, ReplayFrame, AskFrame, WatchFrame, EdgesKnownFrame, AddEdgeFrame,
         TellEdgeFrame
<1> QED
  BY <1>1, <1>2, <1>3

LEMMA TopFrame ==
  ASSUME stack \in Seq(Frame), stack # << >>
  PROVE  /\ Tail(stack) \in Seq(Frame) /\ Top \in Frame
         /\ Top.op = "add" => Top \in AddFrame
         /\ Top.op \in {"heard", "states", "force"} => Top \in HeardFrame
         /\ Top.op = "tell" => Top \in TellFrame
         /\ Top.op = "solving" => Top \in SolvingFrame
         /\ Top.op = "toSites" => Top \in ToSitesFrame
         /\ Top.op = "flowsTo" => Top \in FlowsToFrame
         /\ Top.op = "propagate" => Top \in PropagateFrame
         /\ Top.op = "declare" => Top \in DeclareFrame
         /\ Top.op = "allow" => Top \in AllowFrame
         /\ Top.op = "addCaller" => Top \in AddCallerFrame
         /\ Top.op = "callersKnown" => Top \in CallersKnownFrame
         /\ Top.op = "callees" => Top \in CalleesFrame
         /\ Top.op = "callers" => Top \in CallersFrame
         /\ Top.op = "tellCallers" => Top \in TellCallersFrame
         /\ Top.op = "listen" => Top \in ListenFrame
         /\ Top.op = "replay" => Top \in ReplayFrame
         /\ Top.op = "ask" => Top \in AskFrame
         /\ Top.op \in {"watch", "noParent"} => Top \in WatchFrame
         /\ Top.op = "edgesKnown" => Top \in EdgesKnownFrame
         /\ Top.op = "addEdge" => Top \in AddEdgeFrame
         /\ Top.op = "tellEdge" => Top \in TellEdgeFrame
<1>1. Tail(stack) \in Seq(Frame) /\ Top \in Frame
  BY DEF Top
<1> QED
  BY <1>1, FrameOps DEF Frame, SolverFrame, CallFrame, QueryFrame

LEMMA StackGrows ==
  ASSUME stack \in Seq(Frame), Grows, NEW fs \in Seq(Frame')
  PROVE  /\ stack \in Seq(Frame') /\ fs \o stack \in Seq(Frame')
         /\ stack # << >> => Tail(stack) \in Seq(Frame') /\ fs \o Tail(stack) \in Seq(Frame')
<1>1. Frame \subseteq Frame'
  BY GrowFrames
<1>2. \A S, T : S \subseteq T => Seq(S) \subseteq Seq(T)
  OBVIOUS
<1>3. stack \in Seq(Frame')
  BY <1>1, <1>2
<1> HIDE DEF Frame
<1>4. stack # << >> => Tail(stack) \in Seq(Frame')
  BY <1>3
<1> QED
  BY <1>3, <1>4

-----------------------------------------------------------------------------
(* Steps *)

\* The calls and loops below the top one stay on the stack.
BelowKept == stack # << >> => Elems(Tail(stack)) \subseteq Elems(stack')

LEMMA PushKeeps ==
  ASSUME NEW S, stack \in Seq(S), NEW fs \in Seq(S), Push(fs)
  PROVE  BelowKept
<1>1. Elems(stack') = Elems(fs) \cup Elems(stack)
  BY ConcatElems DEF Push
<1> QED
  BY <1>1, TopOrBelow DEF BelowKept

LEMMA ReplaceKeeps ==
  ASSUME NEW S, stack \in Seq(S), stack # << >>, NEW fs \in Seq(S), Replace(fs)
  PROVE  BelowKept /\ Elems(stack') = Elems(fs) \cup Elems(Tail(stack))
<1>1. Tail(stack) \in Seq(S)
  OBVIOUS
<1>2. Elems(stack') = Elems(fs) \cup Elems(Tail(stack))
  BY <1>1, ConcatElems DEF Replace
<1> QED
  BY <1>2 DEF BelowKept

\* What the tables hold stays typed, and what is added to them is typed.
LEMMA StepInv ==
  ASSUME Inv, Grows,
         graph' \subseteq Known \cup Resolved,
         calleeListeners' \subseteq calleeListeners \cup (Used' \X Site),
         callerListeners' \subseteq callerListeners \cup CallerListener',
         solved' \subseteq Query, rootQuery' \in Backward \cup {None}, roots' \subseteq solved',
         \A q \in solved' \ solved : SolverOf(q) \in Used',
         edges' \subseteq edges \cup QueryEdge',
         sourceListeners' \subseteq sourceListeners \cup SourceListener',
         edgeListeners' \subseteq edgeListeners \cup EdgeListener',
         sources' \subseteq sources \cup (Used' \X Generated \X solved'),
         trans' \subseteq trans \cup (Used' \X Placed'),
         \A p \in trans' \ trans : Ahead(p[1], p[2])',
         callRules' \subseteq callRules \cup CallRule',
         flows' \subseteq trans', permits' \subseteq permits \cup Permit',
         stack' \in Seq(Frame')
  PROVE  Inv'
<1>1. /\ Used \subseteq Used' /\ Placed \subseteq Placed' /\ QueryEdge \subseteq QueryEdge'
      /\ SourceListener \subseteq SourceListener' /\ EdgeListener \subseteq EdgeListener'
      /\ CallerListener \subseteq CallerListener' /\ solved \subseteq solved'
  BY GrowTables, GrowListeners DEF Grows
<1>2. CallRule \subseteq CallRule' /\ Permit \subseteq Permit'
  BY <1>1 DEF CallRule, Permit, Grows
<1>3. IcfgInv'
  BY <1>1 DEF Inv, IcfgInv
<1>4. QueriesInv'
  BY <1>1 DEF Inv, QueriesInv
<1>5. sources' \subseteq Used' \X Generated \X solved'
  BY <1>1 DEF Inv, AutomataInv
<1>6. trans' \subseteq Used' \X Placed'
  BY <1>1 DEF Inv, AutomataInv
<1>7. \A p \in trans' : Ahead(p[1], p[2])'
  BY GrowAhead DEF Inv, AutomataInv
<1>8. AutomataInv'
  BY <1>2, <1>5, <1>6, <1>7 DEF Inv, AutomataInv
<1> QED
  BY <1>3, <1>4, <1>8 DEF Inv

LEMMA OnlyStack ==
  ASSUME Inv, UNCHANGED << icfgVars, queryVars, autVars, flowVars, graphVars >>,
         stack' \in Seq(Frame)
  PROVE  Inv'
<1>1. Grows
  BY DEF Grows, icfgVars, queryVars, autVars
<1>2. stack' \in Seq(Frame')
  <2>1. \A S, T : S \subseteq T => Seq(S) \subseteq Seq(T)
    OBVIOUS
  <2> QED
    BY <1>1, <2>1, GrowFrames
<1> QED
  BY <1>1, <1>2, StepInv
  DEF Inv, IcfgInv, QueriesInv, AutomataInv, icfgVars, queryVars, autVars, flowVars, graphVars

\* Calls take the place of the top frame.
LEMMA ReplacedTop ==
  ASSUME Inv, stack # << >>, NEW fs \in Seq(Frame), Replace(fs)
  PROVE  stack' \in Seq(Frame) /\ BelowKept
<1>1. stack \in Seq(Frame)
  BY DEF Inv
<1> HIDE DEF Frame
<1>2. Tail(stack) \in Seq(Frame)
  BY <1>1
<1> QED
  BY <1>1, <1>2, ReplaceKeeps DEF Replace

LEMMA LoopGoesOn ==
  ASSUME Inv, stack # << >>, NEW fs \in Seq(Frame), NEW x, Take(x, fs),
         [Top EXCEPT !.rest = @ \ {x}] \in Frame
  PROVE  stack' \in Seq(Frame) /\ BelowKept
<1> DEFINE f == [Top EXCEPT !.rest = @ \ {x}]
<1> HIDE DEF Frame, f
<1>1. fs \o << f >> \in Seq(Frame)
  BY DEF f
<1> QED
  BY <1>1, ReplacedTop DEF Take, f

LEMMA InitInv == Init => Inv
<1> SUFFICES ASSUME Init PROVE Inv
  OBVIOUS
<1>1. stack \in Seq(Frame)
  BY DEF Init
<1> QED
  BY <1>1 DEF Init, Inv, IcfgInv, QueriesInv, AutomataInv

LEMMA SolveNode ==
  ASSUME Inv, NEW q \in Query, NEW fs,
         StartSolver(q, fs), UNCHANGED << icfgVars, trans, callRules, flowVars, graphVars >>,
         roots' \subseteq roots \cup {q}, fs \in Seq(Frame')
  PROVE  Inv' /\ BelowKept
<1>1. SolverOf(q) \in Solver /\ Home[q] \in Method /\ (SolverOf(q) = Shared <=> q \in Backward)
      /\ None \notin Query
  BY SolverTyped, QueryAssumption
<1>2. /\ solved' = solved \cup {q}
      /\ rootQuery' = IF q \in Backward /\ rootQuery = None THEN q ELSE rootQuery
      /\ sources' = sources \cup {<< SolverOf(q), Start(q), q >>}
  BY DEF StartSolver
<1>3. Grows /\ rootQuery' \in Backward \cup {None} /\ SolverOf(q) \in Used'
  <2>1. Grows /\ rootQuery' \in Backward \cup {None}
    BY <1>1, <1>2 DEF Grows, Inv, QueriesInv, icfgVars
  <2>2. CASE q \in Backward
    <3>1. rootQuery' # None
      BY <1>1, <1>2, <2>2
    <3> QED BY <1>1, <2>1, <2>2, <3>1 DEF Used, Solver
  <2>3. CASE q \notin Backward
    <3>1. SolverOf(q) = q /\ q \in solved' /\ SolverOf(q) # Shared
      BY <1>1, <1>2, <2>3 DEF SolverOf
    <3> QED BY <1>1, <2>1, <3>1 DEF Used, Solver
  <2> QED BY <2>2, <2>3
<1>4. Start(q) \in Generated /\ MethodOf(Start(q)) = Home[q]
  BY StateTyped
<1>5. At(Home[q], Start(q)) \in Placed'
  BY <1>1, <1>3, <1>4, InMethod, GrowTables
<1>6. Add(SolverOf(q), At(Home[q], Start(q))) \in Frame' /\ Solving \in Frame'
  <2>1. Ahead(SolverOf(q), At(Home[q], Start(q)))'
    BY DEF Ahead, At, Tr
  <2> QED
    BY <1>3, <1>5, <2>1 DEF Add, Solving, AddFrame, SolvingFrame, SolverFrame, Frame
<1>7. stack' \in Seq(Frame') /\ BelowKept
  <2> DEFINE f == Add(SolverOf(q), At(Home[q], Start(q)))
             g == << f, Solving >> \o fs
  <2>1. g \in Seq(Frame') /\ Push(g)
    BY <1>6 DEF StartSolver
  <2>2. stack \in Seq(Frame') /\ g \o stack \in Seq(Frame')
    BY <1>3, <2>1, StackGrows DEF Inv
  <2> QED
    BY <2>1, <2>2, PushKeeps DEF Push
<1>8. << SolverOf(q), Start(q), q >> \in Used' \X Generated \X solved'
  BY <1>2, <1>3, <1>4
<1> QED
  BY <1>2, <1>3, <1>7, <1>8, StepInv
  DEF Inv, IcfgInv, QueriesInv, AutomataInv, icfgVars, flowVars, graphVars

LEMMA SolveInv == ASSUME Inv, NEW q \in Roots, Solve(q) PROVE Inv' /\ BelowKept
<1>1. q \in Query
  BY QueryAssumption
<1>2. << >> \in Seq(Frame')
  OBVIOUS
<1> QED
  BY <1>1, <1>2, SolveNode DEF Solve

LEMMA RaiseInv == ASSUME Inv, NEW e \in Raises, Raise(e[1], e[2], e[3]) PROVE Inv' /\ BelowKept
<1>1. e[1] \in solved /\ e[3] \in Query /\ e = << e[1], e[2], e[3] >>
  BY QueryAssumption DEF Raise
<1>2. solved' = solved \cup {e[3]}
  BY DEF Raise, StartSolver
<1>3. AddEdge(e[1], e[2], e[3]) \in Frame'
  BY <1>1, <1>2 DEF AddEdge, AddEdgeFrame, QueryEdge, QueryFrame, Frame
<1>4. << AddEdge(e[1], e[2], e[3]) >> \in Seq(Frame')
  BY <1>3
<1> QED
  BY <1>1, <1>4, SolveNode DEF Raise, queryVars, autVars

-----------------------------------------------------------------------------
(* Loops *)

LEMMA SolverLoops ==
  ASSUME NEW x
  PROVE  /\ \A f \in TellFrame : [f EXCEPT !.rest = @ \ {x}] \in TellFrame
         /\ \A f \in ToSitesFrame : [f EXCEPT !.rest = @ \ {x}] \in ToSitesFrame
         /\ \A f \in FlowsToFrame : [f EXCEPT !.rest = @ \ {x}] \in FlowsToFrame
<1>1. \A f \in TellFrame : [f EXCEPT !.rest = @ \ {x}] \in TellFrame
  BY DEF TellFrame
<1>2. \A f \in ToSitesFrame : [f EXCEPT !.rest = @ \ {x}] \in ToSitesFrame
  BY DEF ToSitesFrame
<1>3. \A f \in FlowsToFrame : [f EXCEPT !.rest = @ \ {x}] \in FlowsToFrame
  BY DEF FlowsToFrame
<1> QED
  BY <1>1, <1>2, <1>3

LEMMA CallLoops ==
  ASSUME NEW x
  PROVE  /\ \A f \in CallersKnownFrame : [f EXCEPT !.rest = @ \ {x}] \in CallersKnownFrame
         /\ \A f \in CalleesFrame : [f EXCEPT !.rest = @ \ {x}] \in CalleesFrame
         /\ \A f \in TellCallersFrame : [f EXCEPT !.rest = @ \ {x}] \in TellCallersFrame
<1>1. \A f \in CallersKnownFrame : [f EXCEPT !.rest = @ \ {x}] \in CallersKnownFrame
  BY DEF CallersKnownFrame
<1>2. \A f \in CalleesFrame : [f EXCEPT !.rest = @ \ {x}] \in CalleesFrame
  BY DEF CalleesFrame
<1>3. \A f \in TellCallersFrame : [f EXCEPT !.rest = @ \ {x}] \in TellCallersFrame
  BY DEF TellCallersFrame
<1> QED
  BY <1>1, <1>2, <1>3

LEMMA QueryLoops ==
  ASSUME NEW x
  PROVE  /\ \A f \in ReplayFrame : [f EXCEPT !.rest = @ \ {x}] \in ReplayFrame
         /\ \A f \in EdgesKnownFrame : [f EXCEPT !.rest = @ \ {x}] \in EdgesKnownFrame
         /\ \A f \in TellEdgeFrame : [f EXCEPT !.rest = @ \ {x}] \in TellEdgeFrame
<1>1. \A f \in ReplayFrame : [f EXCEPT !.rest = @ \ {x}] \in ReplayFrame
  BY DEF ReplayFrame
<1>2. \A f \in EdgesKnownFrame : [f EXCEPT !.rest = @ \ {x}] \in EdgesKnownFrame
  BY DEF EdgesKnownFrame
<1>3. \A f \in TellEdgeFrame : [f EXCEPT !.rest = @ \ {x}] \in TellEdgeFrame
  BY DEF TellEdgeFrame
<1> QED
  BY <1>1, <1>2, <1>3

LEMMA RestFrame ==
  ASSUME Inv, stack # << >>, Top.op \in Loops, NEW x
  PROVE  [Top EXCEPT !.rest = @ \ {x}] \in Frame
<1>1. stack \in Seq(Frame)
  BY DEF Inv
<1>2. Top.op \in {"tell", "toSites", "flowsTo"} => [Top EXCEPT !.rest = @ \ {x}] \in SolverFrame
  BY <1>1, TopFrame, SolverLoops DEF SolverFrame
<1>3. Top.op \in {"callersKnown", "callees", "tellCallers"} =>
        [Top EXCEPT !.rest = @ \ {x}] \in CallFrame
  BY <1>1, TopFrame, CallLoops DEF CallFrame
<1>4. Top.op \in {"replay", "edgesKnown", "tellEdge"} =>
        [Top EXCEPT !.rest = @ \ {x}] \in QueryFrame
  BY <1>1, TopFrame, QueryLoops DEF QueryFrame
<1> QED
  BY <1>2, <1>3, <1>4 DEF Loops, Frame

\* A step of a loop that only makes one call, or several.
LEMMA LoopStep ==
  ASSUME Inv, stack # << >>, Top.op \in Loops, NEW x, NEW fs \in Seq(Frame), Take(x, fs),
         UNCHANGED << icfgVars, queryVars, autVars, flowVars, graphVars >>
  PROVE  Inv' /\ BelowKept
<1>1. stack' \in Seq(Frame) /\ BelowKept
  BY RestFrame, LoopGoesOn
<1> QED
  BY <1>1, OnlyStack

-----------------------------------------------------------------------------
(* The steps of the solvers *)

LEMMA FirstHomeTyped == ASSUME Inv, NEW s \in Used PROVE FirstHome(s) \in Method
  BY QueryAssumption DEF Inv, QueriesInv, Used, Solver, FirstHome

LEMMA PropagateTyped ==
  ASSUME NEW s \in Used, NEW x \in Site, NEW t \in Placed, << x, LabelMethod(t.label) >> \in graph
  PROVE  Propagate(s, x, t) \in Frame
<1>1. Propagate(s, x, t) \in PropagateFrame
  BY DEF Propagate, PropagateFrame
<1> QED
  BY <1>1 DEF Frame, SolverFrame

LEMMA AddTyped ==
  ASSUME NEW s \in Used, NEW t \in Placed, Ahead(s, t) PROVE Add(s, t) \in Frame
<1>1. Add(s, t) \in AddFrame
  BY DEF Add, AddFrame
<1> QED
  BY <1>1 DEF Frame, SolverFrame

LEMMA AllowTyped ==
  ASSUME NEW c \in solved, NEW m \in Method, NEW x \in Site, << x, m >> \in graph
  PROVE  Allow(c, m, x) \in Frame
<1>1. Allow(c, m, x) \in AllowFrame
  BY DEF Allow, AllowFrame
<1> QED
  BY <1>1 DEF Frame, SolverFrame

LEMMA ListenTyped == ASSUME NEW l \in SourceListener PROVE Listen(l) \in Frame
<1>1. Listen(l) \in ListenFrame
  BY DEF Listen, ListenFrame
<1> QED
  BY <1>1 DEF Frame, QueryFrame

LEMMA AddCallerTyped == ASSUME NEW l \in CallerListener PROVE AddCaller(l) \in Frame
<1>1. AddCaller(l) \in AddCallerFrame
  BY DEF AddCaller, AddCallerFrame
<1> QED
  BY <1>1 DEF Frame, CallFrame

LEMMA DerivedPlaced ==
  ASSUME Inv, NEW s \in Solver, NEW t \in Derived(s)
  PROVE  s \in Used /\ t \in Placed
<1> DEFINE T == Of(s)
           ins == { u \in T : u.label[1] = "in" }
           exits == { u \in T : u.label[1] = "exit" }
           behind == { u \in T : u.label[1] = "behind" }
           called == { x \in { r \in callRules : r[1] = s } \X ins :
                         x[2].label[2] = CallerOf[x[1][2]] }
<1>1. T \subseteq Placed /\ (T # {} => s \in Used)
  BY DEF Inv, AutomataInv, Of
<1>2. \A u \in Placed : /\ u.target \in Generated /\ u.label \in Label
                        /\ LabelMethod(u.label) = MethodOf(u.target)
                        /\ u.label[1] = "behind" => u.label[2] \in Site
  BY PlacedTyped DEF Placed, Transition, Label
<1>3. ASSUME NEW u \in ins, t = Exit(u.label[2], u.target)
      PROVE  s \in Used /\ t \in Placed
  <2>1. u.label[2] = LabelMethod(u.label) /\ u.target \in Generated
        /\ MethodOf(u.target) = u.label[2] /\ u.label[2] \in Method
    BY <1>1, <1>2, StateTyped DEF LabelMethod
  <2> QED
    BY <1>1, <1>3, <2>1, InMethod
<1>4. ASSUME NEW x \in called, t = At(x[1][3], Entry(x[1][3]))
      PROVE  s \in Used /\ t \in Placed
  <2>1. x[1] \in callRules /\ x[1] \in CallRule /\ T # {}
    BY DEF Inv, AutomataInv
  <2>2. x[1][3] \in Method
    BY <2>1 DEF CallRule
  <2> QED
    BY <1>1, <1>4, <2>1, <2>2, InMethod, StateTyped
<1>5. ASSUME NEW x \in called, t = Behind(Entry(x[1][3]), x[1][2], x[2].target)
      PROVE  s \in Used /\ t \in Placed
  <2>1. x[1] \in CallRule /\ x[2] \in T /\ x[2].label[1] = "in" /\ x[2].label[2] = CallerOf[x[1][2]]
    BY DEF Inv, AutomataInv
  <2>2. x[1][2] \in Site /\ x[1][3] \in Method /\ << x[1][2], x[1][3] >> \in graph
    BY <2>1 DEF CallRule
  <2>3. x[2].target \in Generated /\ MethodOf(x[2].target) = CallerOf[x[1][2]]
    BY <1>1, <1>2, <2>1 DEF LabelMethod
  <2> QED
    BY <1>1, <1>5, <2>1, <2>2, <2>3, BehindCall, StateTyped
<1>6. ASSUME NEW x \in exits \X behind, t = At(CallerOf[x[2].label[2]], x[2].target)
      PROVE  s \in Used /\ t \in Placed
  <2>1. x[2] \in T /\ x[2].label[1] = "behind" /\ x[2].label[2] \in Site
    BY <1>1, <1>2
  <2>2. x[2].target \in Generated /\ MethodOf(x[2].target) = CallerOf[x[2].label[2]]
    BY <1>1, <1>2, <2>1 DEF LabelMethod
  <2> QED
    BY <1>1, <1>6, <2>1, <2>2, InMethod, QueryAssumption
<1> QED
  BY <1>3, <1>4, <1>5, <1>6 DEF Derived

LEMMA DerivedBehind ==
  ASSUME NEW s, NEW t \in Derived(s) PROVE t.label[1] # "before"
<1>1. (\E m, x : t = Exit(m, x)) \/ (\E m, x : t = At(m, x)) \/ \E x, r, y : t = Behind(x, r, y)
  BY DEF Derived
<1>2. \A m, x : Exit(m, x).label[1] # "before" /\ At(m, x).label[1] # "before"
  BY DEF Exit, At, Tr
<1>3. \A x, r, y : Behind(x, r, y).label[1] # "before"
  BY DEF Behind, Tr
<1> QED BY <1>1, <1>2, <1>3

LEMMA DeriveInv ==
  ASSUME Inv, NEW s \in Solver, NEW t \in Derived(s), Derive(s, t) PROVE Inv' /\ BelowKept
<1>1. Add(s, t) \in Frame
  BY DerivedPlaced, DerivedBehind, AddTyped DEF Ahead
<1>2. << Add(s, t) >> \in Seq(Frame) /\ Push(<< Add(s, t) >>) /\ stack \in Seq(Frame)
  BY <1>1 DEF Derive, Inv
<1>3. stack' \in Seq(Frame)
  BY <1>1 DEF Derive, Push, Inv
<1>4. BelowKept
  BY <1>2, PushKeeps
<1> QED
  BY <1>3, <1>4, OnlyStack DEF Derive

LEMMA ReachCallInv ==
  ASSUME Inv, NEW s \in Solver, NEW x \in Site, ReachCall(s, x) PROVE Inv' /\ BelowKept
<1>1. s \in Used
  BY DEF ReachCall, Of, Inv, AutomataInv
<1>2. Grows
  BY DEF ReachCall, Grows, queryVars
<1>3. s \in Used' /\ stack' \in Seq(Frame')
  <2>1. << >> \in Seq(Frame') /\ << >> \o stack = stack
    BY DEF Inv
  <2> QED
    BY <1>1, <1>2, <2>1, GrowTables, StackGrows DEF Inv, ReachCall
<1>4. \A m \in Method : << x, m >> \in graph => << s, x, m >> \in CallRule'
  BY <1>2, <1>3 DEF CallRule, Grows
<1>5. callRules' \subseteq callRules \cup CallRule'
  BY <1>4 DEF ReachCall
<1>6. BelowKept
  <2>1. stack \in Seq(Frame) /\ stack' = stack
    BY DEF ReachCall, Inv
  <2>2. stack # << >> => Elems(Tail(stack)) \subseteq Elems(stack)
    BY <2>1, TopOrBelow
  <2> QED
    BY <2>1, <2>2 DEF BelowKept
<1> QED
  BY <1>2, <1>3, <1>5, <1>6, StepInv
  DEF ReachCall, Inv, IcfgInv, QueriesInv, AutomataInv, queryVars, flowVars, graphVars

LEMMA AddCallInv ==
  ASSUME Inv, NEW c \in Resolved, AddCall(c[1], c[2]) PROVE Inv' /\ BelowKept
<1>1. c[1] \in Site /\ c[2] \in Method /\ c = << c[1], c[2] >>
  BY QueryAssumption
<1>2. Grows /\ << c[1], c[2] >> \in graph'
  BY DEF AddCall, Grows, queryVars, autVars
<1> DEFINE ls == { s \in Solver : << s, c[1] >> \in calleeListeners }
           fs == << Callees(c[1], c[2], ls), Callers(c[1], c[2]) >>
<1>3. ls \subseteq Used'
  BY <1>2, GrowTables DEF Inv, IcfgInv
<1>4. Callees(c[1], c[2], ls) \in CalleesFrame' /\ Callers(c[1], c[2]) \in CallersFrame'
  BY <1>1, <1>2, <1>3 DEF Callees, CalleesFrame, Callers, CallersFrame
<1>5. fs \in Seq(Frame')
  BY <1>4 DEF Frame, CallFrame
<1>6. stack' \in Seq(Frame') /\ BelowKept
  <2>1. stack \in Seq(Frame') /\ fs \o stack \in Seq(Frame') /\ Push(fs)
    BY <1>2, <1>5, StackGrows DEF AddCall, Inv
  <2> HIDE DEF fs
  <2> QED
    BY <1>5, <2>1, PushKeeps DEF Push
<1>7. graph' \subseteq Known \cup Resolved
  BY <1>1 DEF AddCall, Inv, IcfgInv
<1> QED
  BY <1>2, <1>6, <1>7, StepInv
  DEF AddCall, Inv, IcfgInv, QueriesInv, AutomataInv, queryVars, autVars, flowVars, graphVars

LEMMA EndLoopInv == ASSUME Inv, EndLoop PROVE Inv' /\ BelowKept
<1>1. << >> \in Seq(Frame) /\ stack # << >> /\ Replace(<< >>)
  BY DEF EndLoop
<1> QED
  BY <1>1, ReplacedTop, OnlyStack DEF EndLoop

-----------------------------------------------------------------------------
(* The steps of the engine on the call automata *)

LEMMA AddTransitionInv == ASSUME Inv, AddTransition PROVE Inv' /\ BelowKept
<1>1. stack # << >> /\ Top \in AddFrame
  BY TopFrame DEF AddTransition, Running, Inv
<1>2. Top.s \in Used /\ Top.t \in Placed /\ Ahead(Top.s, Top.t)
  BY <1>1 DEF AddFrame
<1>3. Grows
  BY DEF AddTransition, Grows, icfgVars, queryVars
<1>4. Top.s \in Used' /\ Top.t \in Placed'
  BY <1>2, <1>3, GrowTables
<1>5. stack' \in Seq(Frame') /\ BelowKept
  <2>1. CASE << Top.s, Top.t >> \in trans
    <3>1. << >> \in Seq(Frame') /\ Replace(<< >>)
      BY <2>1 DEF AddTransition
    <3>2. << >> \o Tail(stack) \in Seq(Frame') /\ stack \in Seq(Frame')
      BY <1>1, <1>3, <3>1, StackGrows DEF Inv
    <3> QED
      BY <1>1, <3>1, <3>2, ReplaceKeeps DEF Replace
  <2>2. CASE << Top.s, Top.t >> \notin trans
    <3> DEFINE fs == << Heard(Top.s, Top.t), States(Top.s, Top.t) >>
    <3>1. << Top.s, Top.t >> \in trans' /\ Replace(fs)
      BY <2>2 DEF AddTransition
    <3>2. Heard(Top.s, Top.t) \in HeardFrame' /\ States(Top.s, Top.t) \in HeardFrame'
      BY <1>4, <3>1 DEF Heard, States, HeardFrame
    <3>3. fs \in Seq(Frame')
      BY <3>2 DEF Frame, SolverFrame
    <3>4. fs \o Tail(stack) \in Seq(Frame') /\ stack \in Seq(Frame')
      BY <1>1, <1>3, <3>3, StackGrows DEF Inv
    <3> HIDE DEF fs
    <3> QED
      BY <1>1, <3>1, <3>3, <3>4, ReplaceKeeps DEF Replace
  <2> QED
    BY <2>1, <2>2
<1>6. trans' \subseteq trans \cup (Used' \X Placed')
  BY <1>4 DEF AddTransition
<1>7. ASSUME NEW p \in trans' \ trans PROVE Ahead(p[1], p[2])'
  <2>1. p = << Top.s, Top.t >>
    BY <1>7 DEF AddTransition
  <2>2. p[1] \in Used /\ Ahead(p[1], p[2])
    BY <1>2, <2>1
  <2> QED
    BY <1>3, <2>2, GrowAhead
<1> QED
  BY <1>3, <1>5, <1>6, <1>7, StepInv
  DEF AddTransition, Inv, IcfgInv, QueriesInv, AutomataInv, Grows, icfgVars, queryVars, flowVars,
      graphVars

\* A step that changes tables which no frame is about, and replaces the top frame.
LEMMA TableStep ==
  ASSUME Inv, stack # << >>, NEW fs \in Seq(Frame), Replace(fs),
         UNCHANGED << graph, queryVars, trans >>,
         calleeListeners' = calleeListeners,
         callerListeners' \subseteq callerListeners \cup CallerListener,
         edges' \subseteq edges \cup QueryEdge,
         sourceListeners' \subseteq sourceListeners \cup SourceListener,
         edgeListeners' \subseteq edgeListeners \cup EdgeListener,
         sources' \subseteq sources \cup (Used \X Generated \X solved),
         callRules' \subseteq callRules \cup CallRule,
         flows' \subseteq trans, permits' \subseteq permits \cup Permit
  PROVE  Inv' /\ BelowKept
<1>1. Grows
  BY DEF Grows, queryVars
<1>2. /\ Used \subseteq Used' /\ Placed \subseteq Placed' /\ QueryEdge \subseteq QueryEdge'
      /\ SourceListener \subseteq SourceListener' /\ EdgeListener \subseteq EdgeListener'
      /\ CallerListener \subseteq CallerListener' /\ solved' = solved
  BY <1>1, GrowTables, GrowListeners DEF queryVars
<1>3. CallRule \subseteq CallRule' /\ Permit \subseteq Permit'
  BY <1>1, <1>2 DEF CallRule, Permit, Grows
<1>4. Used \X Generated \X solved \subseteq Used' \X Generated \X solved'
  BY <1>2
<1>5. stack' \in Seq(Frame')
  <2>1. \A S, T : S \subseteq T => Seq(S) \subseteq Seq(T)
    OBVIOUS
  <2> QED
    BY <1>1, <2>1, GrowFrames, ReplacedTop
<1>6. trans' = trans /\ graph' = graph
  OBVIOUS
<1> QED
  BY <1>1, <1>2, <1>3, <1>4, <1>5, <1>6, StepInv, ReplacedTop DEF Inv, IcfgInv, QueriesInv, AutomataInv, queryVars

LEMMA AddPotentialUnbalancedFlowInv == ASSUME Inv, AddPotentialUnbalancedFlow PROVE Inv' /\ BelowKept
<1> DEFINE s == Top.s
           t == Top.t
           m == LabelMethod(t.label)
           sites == { x \in Site : << s, m, x >> \in permits }
<1>1. stack # << >> /\ Top \in HeardFrame
  BY TopFrame DEF AddPotentialUnbalancedFlow, Running, Inv
<1>2. s \in Used /\ t \in Placed /\ << s, t >> \in trans
  BY <1>1 DEF HeardFrame
<1>3. sites \subseteq CallersOf(m)
  BY DEF Inv, AutomataInv, Permit, CallersOf
<1>4. ToSites(s, t, sites) \in ToSitesFrame /\ Forcing(s, t) \in HeardFrame
  BY <1>2, <1>3 DEF ToSites, ToSitesFrame, Forcing, HeardFrame
<1>5. ToSites(s, t, sites) \in Frame /\ Forcing(s, t) \in Frame
  BY <1>4 DEF Frame, SolverFrame
<1> HIDE DEF Frame
<1>6. << >> \in Seq(Frame) /\ << Forcing(s, t) >> \in Seq(Frame)
      /\ (IF << s, t >> \in flows THEN << >> ELSE << ToSites(s, t, sites) >>)
           \o << Forcing(s, t) >> \in Seq(Frame)
  BY <1>5
<1>7. \E fs \in Seq(Frame) : Replace(fs)
  BY <1>6 DEF AddPotentialUnbalancedFlow
<1>8. flows' \subseteq trans
  BY <1>2 DEF AddPotentialUnbalancedFlow, Inv, AutomataInv
<1> QED
  BY <1>1, <1>7, <1>8, TableStep
  DEF AddPotentialUnbalancedFlow, icfgVars, queryVars, autVars, graphVars

LEMMA ForceFlowInv == ASSUME Inv, ForceFlow PROVE Inv' /\ BelowKept
<1>1. stack # << >> /\ Top \in HeardFrame
  BY TopFrame DEF ForceFlow, Running, Inv
<1>2. Top.s \in Used /\ Top.t \in Placed
  BY <1>1 DEF HeardFrame
<1>3. Forced(<< Top.s, Top.t >>) \in CallerListener
  BY <1>2, PlacedTyped DEF Forced, CallerListener
<1>4. AddCaller(Forced(<< Top.s, Top.t >>)) \in Frame
  BY <1>3, AddCallerTyped
<1>5. << AddCaller(Forced(<< Top.s, Top.t >>)) >> \in Seq(Frame) /\ << >> \in Seq(Frame)
  BY <1>4
<1>6. \E fs \in Seq(Frame) : Replace(fs)
  BY <1>5 DEF ForceFlow
<1> QED
  BY <1>1, <1>6, ReplacedTop, OnlyStack DEF ForceFlow

LEMMA PropagateToSitesInv == ASSUME Inv, PropagateToSites PROVE Inv' /\ BelowKept
<1>1. stack # << >> /\ Top.op \in Loops /\ Top \in ToSitesFrame
  BY TopFrame DEF PropagateToSites, Running, Inv, Loops
<1>2. PICK x \in Top.rest : Take(x, << Propagate(Top.s, x, Top.t) >>)
  BY DEF PropagateToSites
<1>3. Top.s \in Used /\ Top.t \in Placed /\ x \in Site /\ << x, LabelMethod(Top.t.label) >> \in graph
  BY <1>1, <1>2 DEF ToSitesFrame, CallersOf
<1>4. << Propagate(Top.s, x, Top.t) >> \in Seq(Frame)
  BY <1>3, PropagateTyped
<1> QED
  BY <1>1, <1>2, <1>4, LoopStep DEF PropagateToSites

LEMMA AllowUnbalancedInv == ASSUME Inv, AllowUnbalanced PROVE Inv' /\ BelowKept
<1> DEFINE s == SolverOf(Top.child)
           p == << s, Top.callee, Top.site >>
           ts == { f[2] : f \in { f \in flows : f[1] = s /\ LabelMethod(f[2].label) = Top.callee } }
<1>1. stack # << >> /\ Top \in AllowFrame
  BY TopFrame DEF AllowUnbalanced, Running, Inv
<1>2. Top.child \in solved /\ Top.callee \in Method /\ Top.site \in Site
      /\ << Top.site, Top.callee >> \in graph
  BY <1>1 DEF AllowFrame
<1>3. s \in Used
  BY <1>2 DEF Inv, QueriesInv
<1>4. p \in Permit
  BY <1>2, <1>3 DEF Permit
<1>5. \A t \in ts : t \in Placed /\ LabelMethod(t.label) = Top.callee
  BY DEF Inv, AutomataInv
<1>6. FlowsTo(s, Top.site, ts) \in FlowsToFrame
  BY <1>2, <1>3, <1>5 DEF FlowsTo, FlowsToFrame
<1>7. FlowsTo(s, Top.site, ts) \in Frame
  BY <1>6 DEF Frame, SolverFrame
<1>8. << FlowsTo(s, Top.site, ts) >> \in Seq(Frame) /\ << >> \in Seq(Frame)
  BY <1>7
<1>9. \E fs \in Seq(Frame) : Replace(fs)
  BY <1>8 DEF AllowUnbalanced
<1>10. permits' \subseteq permits \cup Permit
  BY <1>4 DEF AllowUnbalanced
<1> QED
  BY <1>1, <1>9, <1>10, TableStep
  DEF AllowUnbalanced, Inv, AutomataInv, icfgVars, queryVars, autVars, graphVars

LEMMA PropagateFlowsInv == ASSUME Inv, PropagateFlows PROVE Inv' /\ BelowKept
<1>1. stack # << >> /\ Top.op \in Loops /\ Top \in FlowsToFrame
  BY TopFrame DEF PropagateFlows, Running, Inv, Loops
<1>2. PICK t \in Top.rest : Take(t, << Propagate(Top.s, Top.site, t) >>)
  BY DEF PropagateFlows
<1>3. Top.s \in Used /\ t \in Placed /\ Top.site \in Site
      /\ << Top.site, LabelMethod(t.label) >> \in graph
  BY <1>1, <1>2 DEF FlowsToFrame
<1>4. << Propagate(Top.s, Top.site, t) >> \in Seq(Frame)
  BY <1>3, PropagateTyped
<1> QED
  BY <1>1, <1>2, <1>4, LoopStep DEF PropagateFlows

LEMMA PropagateInv == ASSUME Inv, PropagateUnbalancedToCallSite PROVE Inv' /\ BelowKept
<1> DEFINE s == Top.s
           x == Top.site
           r == Tr(Fact(FirstHome(s)), << "before", x >>, Return(x))
           b == Behind(Top.t.target, x, Return(x))
           d == Declare(s, Return(x), Top.t.target)
<1>1. stack # << >> /\ Top \in PropagateFrame
  BY TopFrame DEF PropagateUnbalancedToCallSite, Running, Inv
<1>2. s \in Used /\ x \in Site /\ Top.t \in Placed /\ << x, LabelMethod(Top.t.label) >> \in graph
  BY <1>1 DEF PropagateFrame
<1>3. Top.t.target \in Generated /\ MethodOf(Top.t.target) = LabelMethod(Top.t.label)
  BY <1>2, PlacedTyped
<1>4. r \in Placed
  BY <1>2, FirstHomeTyped, BeforeCall
<1>5. b \in Placed
  BY <1>2, <1>3, BehindCall, StateTyped
<1>6. d \in Frame
  <2>1. d \in DeclareFrame
    BY <1>2, <1>3, StateTyped DEF Declare, DeclareFrame
  <2> QED
    BY <2>1 DEF Frame, SolverFrame
<1>7. Add(s, r) \in Frame /\ Add(s, b) \in Frame
  <2>1. Ahead(s, r) /\ Ahead(s, b)
    BY DEF Ahead, Behind, Tr
  <2> QED
    BY <1>2, <1>4, <1>5, <2>1, AddTyped
<1>8. << Add(s, r), d, Add(s, b) >> \in Seq(Frame) /\ << >> \in Seq(Frame)
  <2> HIDE DEF d, r, b, s
  <2> QED
    BY <1>6, <1>7
<1>9. \E fs \in Seq(Frame) : Replace(fs)
  BY <1>8 DEF PropagateUnbalancedToCallSite
<1> QED
  BY <1>1, <1>9, ReplacedTop, OnlyStack DEF PropagateUnbalancedToCallSite

LEMMA AddUnbalancedStateInv == ASSUME Inv, AddUnbalancedState PROVE Inv' /\ BelowKept
<1>1. stack # << >> /\ Top \in DeclareFrame
  BY TopFrame DEF AddUnbalancedState, Running, Inv
<1>2. sources' \subseteq sources \cup (Used \X Generated \X solved)
  BY <1>1 DEF DeclareFrame, AddUnbalancedState, Inv, AutomataInv
<1>3. << >> \in Seq(Frame)
  OBVIOUS
<1> QED
  BY <1>1, <1>2, <1>3, TableStep
  DEF AddUnbalancedState, Inv, AutomataInv, icfgVars, queryVars, flowVars, graphVars

-----------------------------------------------------------------------------
(* The steps of the engine on the call graph *)

LEMMA AddCallerListenerInv == ASSUME Inv, AddCallerListener PROVE Inv' /\ BelowKept
<1> DEFINE xs == { x \in Site : << x, Top.l.callee >> \in graph }
<1>1. stack # << >> /\ Top \in AddCallerFrame
  BY TopFrame DEF AddCallerListener, Running, Inv
<1>2. Top.l \in CallerListener
  BY <1>1 DEF AddCallerFrame
<1>3. CallersKnown(Top.l, xs) \in CallersKnownFrame
  BY <1>2 DEF CallersKnown, CallersKnownFrame, CallersOf
<1>4. CallersKnown(Top.l, xs) \in Frame
  BY <1>3 DEF Frame, CallFrame
<1>5. << CallersKnown(Top.l, xs) >> \in Seq(Frame)
  BY <1>4
<1>6. Replace(<< CallersKnown(Top.l, xs) >>)
      /\ callerListeners' \subseteq callerListeners \cup CallerListener
  BY <1>2 DEF AddCallerListener
<1> QED
  BY <1>1, <1>5, <1>6, TableStep
  DEF AddCallerListener, Inv, AutomataInv, queryVars, autVars, flowVars, graphVars

LEMMA OnCallerAddedTyped ==
  ASSUME NEW l \in CallerListener, NEW x \in Site, << x, l.callee >> \in graph
  PROVE  OnCallerAdded(l, x) \in Frame
<1>1. CASE l.kind = "force"
  <2>1. l.solver \in Used /\ l.t \in Placed /\ l.callee = LabelMethod(l.t.label)
    BY <1>1 DEF CallerListener
  <2> QED
    BY <1>1, <2>1, PropagateTyped DEF OnCallerAdded
<1>2. CASE l.kind = "context"
  <2>1. l.child \in solved /\ l.callee \in Method
    BY <1>2 DEF CallerListener
  <2> QED
    BY <1>2, <2>1, AllowTyped DEF OnCallerAdded
<1>3. l.kind \in {"force", "context"}
  BY DEF CallerListener
<1> QED
  BY <1>1, <1>2, <1>3

LEMMA TellKnownCallersInv == ASSUME Inv, TellKnownCallers PROVE Inv' /\ BelowKept
<1>1. stack # << >> /\ Top.op \in Loops /\ Top \in CallersKnownFrame
  BY TopFrame DEF TellKnownCallers, Running, Inv, Loops
<1>2. PICK x \in Top.rest : Take(x, << OnCallerAdded(Top.l, x) >>)
  BY DEF TellKnownCallers
<1>3. Top.l \in CallerListener /\ x \in Site /\ << x, Top.l.callee >> \in graph
  BY <1>1, <1>2 DEF CallersKnownFrame, CallersOf
<1>4. << OnCallerAdded(Top.l, x) >> \in Seq(Frame)
  BY <1>3, OnCallerAddedTyped
<1> QED
  BY <1>1, <1>2, <1>4, LoopStep DEF TellKnownCallers

LEMMA TellCalleeListenersInv == ASSUME Inv, TellCalleeListeners PROVE Inv' /\ BelowKept
<1>1. stack # << >> /\ Top.op \in Loops /\ Top \in CalleesFrame
  BY TopFrame DEF TellCalleeListeners, Running, Inv, Loops
<1>2. PICK s \in Top.rest : /\ callRules' = callRules \cup {<< s, Top.site, Top.callee >>}
                            /\ Take(s, << >>)
  BY DEF TellCalleeListeners
<1>3. << s, Top.site, Top.callee >> \in CallRule
  BY <1>1, <1>2 DEF CalleesFrame, CallRule
<1>4. << [Top EXCEPT !.rest = @ \ {s}] >> \in Seq(Frame)
  BY <1>1, RestFrame
<1>5. Replace(<< [Top EXCEPT !.rest = @ \ {s}] >>)
  <2> DEFINE f == [Top EXCEPT !.rest = @ \ {s}]
  <2>1. Replace(<< >> \o << f >>) /\ << >> \o << f >> = << f >>
    BY <1>2 DEF Take
  <2> QED
    BY <2>1
<1>6. callRules' \subseteq callRules \cup CallRule
  BY <1>2, <1>3
<1> QED
  BY <1>1, <1>4, <1>5, <1>6, TableStep
  DEF TellCalleeListeners, Inv, AutomataInv, icfgVars, queryVars, flowVars, graphVars

LEMMA CallersAddedInv == ASSUME Inv, CallersAdded PROVE Inv' /\ BelowKept
<1> DEFINE ls == { l \in callerListeners : l.callee = Top.callee }
<1>1. stack # << >> /\ Top \in CallersFrame
  BY TopFrame DEF CallersAdded, Running, Inv
<1>2. Top.site \in Site /\ << Top.site, Top.callee >> \in graph
  BY <1>1 DEF CallersFrame
<1>3. TellCallers(Top.site, ls) \in TellCallersFrame
  BY <1>2 DEF TellCallers, TellCallersFrame, Inv, IcfgInv
<1>4. TellCallers(Top.site, ls) \in Frame
  BY <1>3 DEF Frame, CallFrame
<1>5. << TellCallers(Top.site, ls) >> \in Seq(Frame)
  BY <1>4
<1> QED
  BY <1>1, <1>5, ReplacedTop, OnlyStack DEF CallersAdded

LEMMA TellCallerListenersInv == ASSUME Inv, TellCallerListeners PROVE Inv' /\ BelowKept
<1>1. stack # << >> /\ Top.op \in Loops /\ Top \in TellCallersFrame
  BY TopFrame DEF TellCallerListeners, Running, Inv, Loops
<1>2. PICK l \in Top.rest : Take(l, << OnCallerAdded(l, Top.site) >>)
  BY DEF TellCallerListeners
<1>3. l \in CallerListener /\ Top.site \in Site /\ << Top.site, l.callee >> \in graph
  BY <1>1, <1>2 DEF TellCallersFrame
<1>4. << OnCallerAdded(l, Top.site) >> \in Seq(Frame)
  BY <1>3, OnCallerAddedTyped
<1> QED
  BY <1>1, <1>2, <1>4, LoopStep DEF TellCallerListeners

-----------------------------------------------------------------------------
(* The steps of the engine on the query graph *)

LEMMA AddQueryEdgeInv == ASSUME Inv, AddQueryEdge PROVE Inv' /\ BelowKept
<1> DEFINE e == Top.e
           ls == { l \in edgeListeners : l.parent = e[3] }
           l0 == Source(Fact(e[2]), e[1], e[3], None)
<1>1. stack # << >> /\ Top \in AddEdgeFrame
  BY TopFrame DEF AddQueryEdge, Running, Inv
<1>2. e \in QueryEdge /\ e[2] \in Method /\ e[1] \in solved /\ e[3] \in solved
  BY <1>1, QueryAssumption DEF AddEdgeFrame, QueryEdge
<1>3. l0 \in SourceListener
  BY <1>2, StateTyped DEF Source, SourceListener
<1>4. TellEdge(e, ls) \in TellEdgeFrame
  BY <1>2 DEF TellEdge, TellEdgeFrame, Inv, QueriesInv
<1>5. TellEdge(e, ls) \in Frame /\ Listen(l0) \in Frame
  BY <1>3, <1>4, ListenTyped DEF Frame, QueryFrame
<1> HIDE DEF Frame, ls, l0, e
<1>6. (IF e \in edges THEN << >> ELSE << TellEdge(e, ls) >>) \o << Listen(l0) >> \in Seq(Frame)
  BY <1>5
<1>7. Replace((IF e \in edges THEN << >> ELSE << TellEdge(e, ls) >>) \o << Listen(l0) >>)
  BY DEF AddQueryEdge, e, ls, l0
<1>8. edges' \subseteq edges \cup QueryEdge
  BY <1>2 DEF AddQueryEdge, e
<1> QED
  BY <1>1, <1>6, <1>7, <1>8, TableStep
  DEF AddQueryEdge, Inv, AutomataInv, icfgVars, queryVars, autVars, flowVars

LEMMA EdgeAddedTyped ==
  ASSUME NEW l \in EdgeListener, NEW e \in QueryEdge
  PROVE  EdgeAdded(l, e) \in Frame
<1>1. e[2] \in Method /\ e[1] \in solved /\ l.child \in solved
  BY QueryAssumption DEF QueryEdge, EdgeListener
<1>2. Source(Fact(e[2]), e[1], l.child, None) \in SourceListener
  BY <1>1, StateTyped DEF Source, SourceListener
<1> QED
  BY <1>2, ListenTyped DEF EdgeAdded

LEMMA TellEdgeListenersInv == ASSUME Inv, TellEdgeListeners PROVE Inv' /\ BelowKept
<1>1. stack # << >> /\ Top.op \in Loops /\ Top \in TellEdgeFrame
  BY TopFrame DEF TellEdgeListeners, Running, Inv, Loops
<1>2. PICK l \in Top.rest : Take(l, << EdgeAdded(l, Top.e) >>)
  BY DEF TellEdgeListeners
<1>3. l \in EdgeListener /\ Top.e \in QueryEdge
  BY <1>1, <1>2 DEF TellEdgeFrame
<1>4. << EdgeAdded(l, Top.e) >> \in Seq(Frame)
  BY <1>3, EdgeAddedTyped
<1> QED
  BY <1>1, <1>2, <1>4, LoopStep DEF TellEdgeListeners

LEMMA TellKnownEdgesInv == ASSUME Inv, TellKnownEdges PROVE Inv' /\ BelowKept
<1>1. stack # << >> /\ Top.op \in Loops /\ Top \in EdgesKnownFrame
  BY TopFrame DEF TellKnownEdges, Running, Inv, Loops
<1>2. PICK e \in Top.rest : Take(e, << EdgeAdded(Top.l, e) >>)
  BY DEF TellKnownEdges
<1>3. Top.l \in EdgeListener /\ e \in QueryEdge
  BY <1>1, <1>2 DEF EdgesKnownFrame
<1>4. << EdgeAdded(Top.l, e) >> \in Seq(Frame)
  BY <1>3, EdgeAddedTyped
<1> QED
  BY <1>1, <1>2, <1>4, LoopStep DEF TellKnownEdges

LEMMA RegisterSourceListenerInv == ASSUME Inv, RegisterSourceListener PROVE Inv' /\ BelowKept
<1> DEFINE ts == { t \in Of(SolverOf(Top.l.parent)) : t.start = Top.l.state }
<1>1. stack # << >> /\ Top \in ListenFrame
  BY TopFrame DEF RegisterSourceListener, Running, Inv
<1>2. Top.l \in SourceListener
  BY <1>1 DEF ListenFrame
<1>3. \A t \in ts : t \in Placed /\ << SolverOf(Top.l.parent), t >> \in trans
  BY DEF Of, Inv, AutomataInv
<1>4. Replay(Top.l, ts) \in ReplayFrame
  BY <1>2, <1>3 DEF Replay, ReplayFrame
<1>5. Replay(Top.l, ts) \in Frame
  BY <1>4 DEF Frame, QueryFrame
<1>6. << Replay(Top.l, ts) >> \in Seq(Frame) /\ << >> \in Seq(Frame)
  BY <1>5
<1>7. \E fs \in Seq(Frame) : Replace(fs)
  BY <1>6 DEF RegisterSourceListener
<1>8. sourceListeners' \subseteq sourceListeners \cup SourceListener
  BY <1>2 DEF RegisterSourceListener
<1> QED
  BY <1>1, <1>7, <1>8, TableStep
  DEF RegisterSourceListener, Inv, AutomataInv, icfgVars, queryVars, autVars, flowVars

LEMMA ServeStatesInv == ASSUME Inv, ServeStates PROVE Inv' /\ BelowKept
<1> DEFINE ls == { l \in sourceListeners : SolverOf(l.parent) = Top.s /\ l.state = Top.t.start }
<1>1. stack # << >> /\ Top \in HeardFrame
  BY TopFrame DEF ServeStates, Running, Inv
<1>2. Tell(Top.s, Top.t, ls) \in TellFrame
  BY <1>1 DEF HeardFrame, Tell, TellFrame, Inv, QueriesInv
<1>3. Tell(Top.s, Top.t, ls) \in Frame
  BY <1>2 DEF Frame, SolverFrame
<1>4. << Tell(Top.s, Top.t, ls) >> \in Seq(Frame)
  BY <1>3
<1> QED
  BY <1>1, <1>4, ReplacedTop, OnlyStack DEF ServeStates

\* A listener that walks up the automaton names the method its state belongs to.
LEMMA OnOutTransitionAddedTyped ==
  ASSUME NEW l \in SourceListener, NEW t \in Placed, t.start = l.state,
         << SolverOf(l.parent), t >> \in trans
  PROVE  OnOutTransitionAdded(l, t) \in Seq(Frame)
<1> DEFINE m == LabelMethod(t.label)
           next == Source(t.target, l.parent, l.child, m)
<1>1. l.parent \in solved /\ l.child \in solved /\ l.state \in State
      /\ (l.state \in Generated /\ l.callee # None => l.callee = MethodOf(l.state))
  BY DEF SourceListener
<1>2. m \in Method /\ m = MethodOf(t.target) /\ t.target \in State
  BY PlacedTyped
<1>3. next \in SourceListener
  BY <1>1, <1>2 DEF Source, SourceListener
<1>4. Ask(l, t) \in AskFrame
  BY DEF Ask, AskFrame
<1>5. Listen(next) \in Frame /\ Ask(l, t) \in Frame
  BY <1>3, <1>4, ListenTyped DEF Frame, QueryFrame
<1>6. t.start \in Generated /\ l.callee # None => Allow(l.child, l.callee, t.label[2]) \in Frame
  <2> SUFFICES ASSUME t.start \in Generated, l.callee # None
               PROVE  Allow(l.child, l.callee, t.label[2]) \in Frame
    OBVIOUS
  <2>1. l.callee = MethodOf(t.start) /\ t.label[2] \in Site
        /\ << t.label[2], MethodOf(t.start) >> \in graph /\ MethodOf(t.start) \in Method
    BY <1>1, PlacedTyped, StateTyped
  <2> QED
    BY <1>1, <2>1, AllowTyped
<1> HIDE DEF next
<1>7. (IF t.start \in Generated /\ l.callee # None
       THEN << Allow(l.child, l.callee, t.label[2]) >> ELSE << >>)
      \o << Listen(next), Ask(l, t) >> \in Seq(Frame)
  BY <1>5, <1>6
<1> QED
  BY <1>7 DEF OnOutTransitionAdded, next

LEMMA DeliverInv == ASSUME Inv, Deliver PROVE Inv' /\ BelowKept
<1>1. CASE Running("tell")
  <2>1. stack # << >> /\ Top.op \in Loops /\ Top \in TellFrame
    BY <1>1, TopFrame DEF Running, Inv, Loops
  <2>2. PICK l \in Top.rest : Take(l, OnOutTransitionAdded(l, Top.t))
    BY <1>1 DEF Deliver, Running
  <2>3. l \in SourceListener /\ Top.t \in Placed /\ Top.t.start = l.state
        /\ << SolverOf(l.parent), Top.t >> \in trans
    BY <2>1, <2>2 DEF TellFrame
  <2> QED
    BY <2>1, <2>2, <2>3, OnOutTransitionAddedTyped, LoopStep DEF Deliver
<1>2. CASE Running("replay")
  <2>1. stack # << >> /\ Top.op \in Loops /\ Top \in ReplayFrame
    BY <1>2, TopFrame DEF Running, Inv, Loops
  <2>2. PICK t \in Top.rest : Take(t, OnOutTransitionAdded(Top.l, t))
    BY <1>2 DEF Deliver, Running
  <2>3. Top.l \in SourceListener /\ t \in Placed /\ t.start = Top.l.state
        /\ << SolverOf(Top.l.parent), t >> \in trans
    BY <2>1, <2>2 DEF ReplayFrame
  <2> QED
    BY <2>1, <2>2, <2>3, OnOutTransitionAddedTyped, LoopStep DEF Deliver
<1> QED
  BY <1>1, <1>2 DEF Deliver

LEMMA AskUnbalancedInv == ASSUME Inv, AskUnbalanced PROVE Inv' /\ BelowKept
<1> DEFINE w == Unbalanced(Top.l.child, Top.l.parent, Top.t)
<1>1. stack # << >> /\ Top \in AskFrame
  BY TopFrame DEF AskUnbalanced, Running, Inv
<1>2. w \in EdgeListener
  BY <1>1 DEF AskFrame, SourceListener, Unbalanced, EdgeListener
<1>3. Watch(w) \in WatchFrame
  BY <1>2 DEF Watch, WatchFrame
<1>4. Watch(w) \in Frame
  BY <1>3 DEF Frame, QueryFrame
<1>5. << Watch(w) >> \in Seq(Frame) /\ << >> \in Seq(Frame)
  BY <1>4
<1>6. \E fs \in Seq(Frame) : Replace(fs)
  BY <1>5 DEF AskUnbalanced
<1> QED
  BY <1>1, <1>6, ReplacedTop, OnlyStack DEF AskUnbalanced

LEMMA RegisterEdgeListenerInv == ASSUME Inv, RegisterEdgeListener PROVE Inv' /\ BelowKept
<1> DEFINE es == { e \in edges : e[3] = Top.l.parent }
<1>1. stack # << >> /\ Top \in WatchFrame
  BY TopFrame DEF RegisterEdgeListener, Running, Inv
<1>2. Top.l \in EdgeListener
  BY <1>1 DEF WatchFrame
<1>3. NoParent(Top.l) \in WatchFrame /\ EdgesKnown(Top.l, es) \in EdgesKnownFrame
  BY <1>2 DEF NoParent, WatchFrame, EdgesKnown, EdgesKnownFrame, Inv, QueriesInv
<1>4. NoParent(Top.l) \in Frame /\ EdgesKnown(Top.l, es) \in Frame
  BY <1>3 DEF Frame, QueryFrame
<1>5. << NoParent(Top.l) >> \in Seq(Frame) /\ << EdgesKnown(Top.l, es) >> \in Seq(Frame)
      /\ << >> \in Seq(Frame)
  BY <1>4
<1>6. \E fs \in Seq(Frame) : Replace(fs)
  BY <1>5 DEF RegisterEdgeListener
<1>7. edgeListeners' \subseteq edgeListeners \cup EdgeListener
  BY <1>2 DEF RegisterEdgeListener
<1> QED
  BY <1>1, <1>6, <1>7, TableStep
  DEF RegisterEdgeListener, Inv, AutomataInv, icfgVars, queryVars, autVars, flowVars

LEMMA NoParentEdgeInv == ASSUME Inv, NoParentEdge PROVE Inv' /\ BelowKept
<1> DEFINE m == FactMethod(Top.l.parent, Top.l.t.target)
<1>1. stack # << >> /\ Top \in WatchFrame
  BY TopFrame DEF NoParentEdge, Running, Inv
<1>2. Top.l.child \in solved /\ Top.l.parent \in solved /\ Top.l.t \in Placed
  BY <1>1 DEF WatchFrame, EdgeListener
<1>3. SolverOf(Top.l.parent) \in Used /\ Top.l.t.target \in Generated
  BY <1>2, PlacedTyped DEF Inv, QueriesInv
<1>4. m \in Method
  BY <1>3, FirstHomeTyped, QueryAssumption DEF FactMethod, Generated
<1>5. Context(Top.l.child, m) \in CallerListener
  BY <1>2, <1>4 DEF Context, CallerListener
<1>6. << AddCaller(Context(Top.l.child, m)) >> \in Seq(Frame) /\ << >> \in Seq(Frame)
  BY <1>5, AddCallerTyped
<1>7. \E fs \in Seq(Frame) : Replace(fs)
  BY <1>6 DEF NoParentEdge
<1> QED
  BY <1>1, <1>7, ReplacedTop, OnlyStack DEF NoParentEdge

-----------------------------------------------------------------------------
LEMMA NextInv == ASSUME Inv, [Next]_vars PROVE Inv'
<1>1. CASE Solvers
  BY <1>1, SolveInv, RaiseInv, DeriveInv, ReachCallInv, AddCallInv DEF Solvers
<1>2. CASE Engine
  BY <1>2, AddTransitionInv, AddPotentialUnbalancedFlowInv, ForceFlowInv, PropagateToSitesInv,
     AllowUnbalancedInv, PropagateFlowsInv, PropagateInv, AddUnbalancedStateInv,
     AddCallerListenerInv, TellKnownCallersInv, TellCalleeListenersInv, CallersAddedInv,
     TellCallerListenersInv, AddQueryEdgeInv, TellEdgeListenersInv, RegisterSourceListenerInv,
     ServeStatesInv, DeliverInv, AskUnbalancedInv, RegisterEdgeListenerInv, TellKnownEdgesInv,
     NoParentEdgeInv, EndLoopInv
  DEF Engine
<1>3. CASE UNCHANGED vars
  BY <1>3, OnlyStack DEF vars, Inv
<1> QED
  BY <1>1, <1>2, <1>3 DEF Next

-----------------------------------------------------------------------------
(* A flow and a permission that meet: the return is made, or a call or loop on the *)
(* stack is going to make it.                                                      *)

\* A call or loop that is about to send the flow t to the call site x
Awaits(g, s, t, x) ==
  \/ g.op = "toSites" /\ g.s = s /\ g.t = t /\ x \in g.rest
  \/ g.op = "flowsTo" /\ g.s = s /\ g.site = x /\ t \in g.rest
  \/ g = Propagate(s, x, t)

Promised(s, t, x) ==
  LET b == Behind(t.target, x, Return(x)) IN
  \/ \E g \in Elems(stack) : Awaits(g, s, t, x)
  \/ /\ << s, b >> \in trans \/ Add(s, b) \in Elems(stack)
     /\ Initial(s, Return(x)) \/ Declare(s, Return(x), t.target) \in Elems(stack)

Meets(s, t, x) == << s, t >> \in flows /\ << s, LabelMethod(t.label), x >> \in permits

FlowsInitial == \A f \in flows : Initial(f[1], f[2].target)
ReturnInv ==
  /\ FlowsInitial
  /\ \A s \in Solver, t \in Transition, x \in Site : Meets(s, t, x) => Promised(s, t, x)

\* What the top frame does not make good stays promised.
LEMMA Carried ==
  ASSUME Inv, BelowKept, trans \subseteq trans', sources \subseteq sources',
         NEW s, NEW t, NEW x, Promised(s, t, x),
         stack # << >> =>
           /\ ~ Awaits(Top, s, t, x)
           /\ Top = Add(s, Behind(t.target, x, Return(x))) =>
                << s, Behind(t.target, x, Return(x)) >> \in trans'
           /\ Top = Declare(s, Return(x), t.target) => Initial(s, Return(x))'
  PROVE  Promised(s, t, x)'
<1> DEFINE b == Behind(t.target, x, Return(x))
           d == Declare(s, Return(x), t.target)
<1>1. \A g \in Elems(stack) : stack # << >> /\ (g = Top \/ g \in Elems(stack'))
  <2>1. stack \in Seq(Frame) /\ (stack = << >> => Elems(stack) = {})
    BY DEF Inv, Elems
  <2> QED
    BY <2>1, TopOrBelow DEF BelowKept, Top
<1>2. CASE \E g \in Elems(stack) : Awaits(g, s, t, x)
  <2>1. \E g \in Elems(stack') : Awaits(g, s, t, x)
    BY <1>1, <1>2
  <2> QED
    BY <2>1 DEF Promised
<1>3. Initial(s, Return(x)) => Initial(s, Return(x))'
  BY DEF Initial
<1>4. CASE /\ << s, b >> \in trans \/ Add(s, b) \in Elems(stack)
           /\ Initial(s, Return(x)) \/ d \in Elems(stack)
  <2>1. << s, b >> \in trans' \/ Add(s, b) \in Elems(stack')
    BY <1>1, <1>4
  <2>2. Initial(s, Return(x))' \/ d \in Elems(stack')
    BY <1>1, <1>3, <1>4
  <2> QED
    BY <2>1, <2>2 DEF Promised
<1> QED
  BY <1>2, <1>4 DEF Promised

LEMMA InitialKept ==
  ASSUME FlowsInitial, sources \subseteq sources', flows' = flows
  PROVE  FlowsInitial'
  BY DEF FlowsInitial, Initial

\* The steps of calls and loops that have no part in a return
LEMMA Unaffected ==
  ASSUME Inv, ReturnInv, BelowKept,
         stack # << >> => Top.op \notin {"toSites", "flowsTo", "propagate", "add", "declare"},
         UNCHANGED flowVars, trans \subseteq trans', sources \subseteq sources'
  PROVE  ReturnInv'
<1>1. flows' = flows /\ permits' = permits
  BY DEF flowVars
<1>2. FlowsInitial'
  BY <1>1, InitialKept DEF ReturnInv
<1>3. ASSUME NEW s \in Solver, NEW t \in Transition, NEW x \in Site, Meets(s, t, x)'
      PROVE  Promised(s, t, x)'
  <2>1. Promised(s, t, x)
    BY <1>1, <1>3 DEF Meets, ReturnInv
  <2>2. stack # << >> =>
          /\ ~ Awaits(Top, s, t, x)
          /\ Top # Add(s, Behind(t.target, x, Return(x)))
          /\ Top # Declare(s, Return(x), t.target)
    BY DEF Awaits, Propagate, Add, Declare
  <2> QED
    BY <2>1, <2>2, Carried
<1> QED
  BY <1>2, <1>3 DEF ReturnInv

LEMMA OnTop ==
  ASSUME stack \in Seq(Frame), stack # << >>, NEW f, NEW g, NEW h
  PROVE  /\ Replace(<< f >>) => f \in Elems(stack')
         /\ Replace(<< f >> \o << g >>) => f \in Elems(stack') /\ g \in Elems(stack')
         /\ Replace(<< f, g, h >>) =>
              f \in Elems(stack') /\ g \in Elems(stack') /\ h \in Elems(stack')
<1> DEFINE S == Frame \cup {f, g, h}
           r == Tail(stack)
<1>1. r \in Seq(S)
  <2>1. \A A, B : A \subseteq B => Seq(A) \subseteq Seq(B)
    OBVIOUS
  <2>2. r \in Seq(Frame)
    OBVIOUS
  <2> QED
    BY <2>1, <2>2
<1>2. << f >> \in Seq(S) /\ << f >> \o << g >> \in Seq(S) /\ << f, g, h >> \in Seq(S)
  OBVIOUS
<1>3. f \in Elems(<< f >>)
  BY DEF Elems
<1>4. f \in Elems(<< f >> \o << g >>) /\ g \in Elems(<< f >> \o << g >>)
  BY DEF Elems
<1>5. f \in Elems(<< f, g, h >>) /\ g \in Elems(<< f, g, h >>) /\ h \in Elems(<< f, g, h >>)
  BY DEF Elems
<1> HIDE DEF S, r
<1>6. \A u \in Seq(S) : Elems(u) \subseteq Elems(u \o r)
  BY <1>1, ConcatElems
<1> QED
  BY <1>2, <1>3, <1>4, <1>5, <1>6 DEF Replace, r

-----------------------------------------------------------------------------
LEMMA SolversReturn == ASSUME Inv, ReturnInv, Solvers PROVE ReturnInv'
<1>1. ClientTurn /\ stack # << >> =>
        Top.op \notin {"toSites", "flowsTo", "propagate", "add", "declare"}
  BY QueryAssumption DEF ClientTurn
<1>2. ASSUME NEW q \in Roots, Solve(q) PROVE ReturnInv'
  <2>1. stack = << >> /\ UNCHANGED flowVars /\ trans' = trans /\ sources \subseteq sources'
    BY <1>2 DEF Solve, StartSolver
  <2> QED
    BY <1>2, <2>1, SolveInv, Unaffected
<1>3. ASSUME NEW e \in Raises, Raise(e[1], e[2], e[3]) PROVE ReturnInv'
  <2>1. ClientTurn /\ UNCHANGED flowVars /\ trans' = trans /\ sources \subseteq sources'
    BY <1>3 DEF Raise, StartSolver
  <2> QED
    BY <1>1, <1>3, <2>1, RaiseInv, Unaffected
<1>4. ASSUME NEW s \in Solver, NEW t \in Derived(s), Derive(s, t) PROVE ReturnInv'
  <2>1. ClientTurn /\ UNCHANGED flowVars /\ trans' = trans /\ sources' = sources
    BY <1>4 DEF Derive, autVars
  <2> QED
    BY <1>1, <1>4, <2>1, DeriveInv, Unaffected
<1>5. ASSUME NEW s \in Solver, NEW x \in Site, ReachCall(s, x) PROVE ReturnInv'
  <2>1. ClientTurn /\ UNCHANGED flowVars /\ trans' = trans /\ sources' = sources
    BY <1>5 DEF ReachCall
  <2> QED
    BY <1>1, <1>5, <2>1, ReachCallInv, Unaffected
<1>6. ASSUME NEW c \in Resolved, AddCall(c[1], c[2]) PROVE ReturnInv'
  <2>1. ClientTurn /\ UNCHANGED flowVars /\ trans' = trans /\ sources' = sources
    BY <1>6 DEF AddCall, autVars
  <2> QED
    BY <1>1, <1>6, <2>1, AddCallInv, Unaffected
<1> QED
  BY <1>2, <1>3, <1>4, <1>5, <1>6 DEF Solvers

LEMMA CallGraphReturns ==
  ASSUME Inv, ReturnInv,
         \/ ForceFlow \/ AddCallerListener \/ TellKnownCallers \/ TellCalleeListeners
         \/ CallersAdded \/ TellCallerListeners
  PROVE  ReturnInv'
<1>1. BelowKept
  BY ForceFlowInv, AddCallerListenerInv, TellKnownCallersInv, TellCalleeListenersInv,
     CallersAddedInv, TellCallerListenersInv
<1>2. Top.op \notin {"toSites", "flowsTo", "propagate", "add", "declare"}
  BY DEF Running, ForceFlow, AddCallerListener, TellKnownCallers, TellCalleeListeners,
         CallersAdded, TellCallerListeners
<1>3. UNCHANGED flowVars /\ trans' = trans /\ sources' = sources
  BY DEF ForceFlow, AddCallerListener, TellKnownCallers, TellCalleeListeners,
         CallersAdded, TellCallerListeners, autVars
<1> QED
  BY <1>1, <1>2, <1>3, Unaffected

LEMMA QueryGraphReturns ==
  ASSUME Inv, ReturnInv,
         \/ AddQueryEdge \/ TellEdgeListeners \/ RegisterSourceListener \/ ServeStates
         \/ Deliver \/ AskUnbalanced \/ RegisterEdgeListener \/ TellKnownEdges \/ NoParentEdge
  PROVE  ReturnInv'
<1>1. BelowKept
  BY AddQueryEdgeInv, TellEdgeListenersInv, RegisterSourceListenerInv, ServeStatesInv,
     DeliverInv, AskUnbalancedInv, RegisterEdgeListenerInv, TellKnownEdgesInv, NoParentEdgeInv
<1>2. Top.op \notin {"toSites", "flowsTo", "propagate", "add", "declare"}
  BY DEF Running, AddQueryEdge, TellEdgeListeners, RegisterSourceListener, ServeStates, Deliver,
         AskUnbalanced, RegisterEdgeListener, TellKnownEdges, NoParentEdge
<1>3. UNCHANGED flowVars /\ trans' = trans /\ sources' = sources
  BY DEF AddQueryEdge, TellEdgeListeners, RegisterSourceListener, ServeStates, Deliver,
         AskUnbalanced, RegisterEdgeListener, TellKnownEdges, NoParentEdge, autVars
<1> QED
  BY <1>1, <1>2, <1>3, Unaffected

LEMMA EndLoopReturns == ASSUME Inv, ReturnInv, EndLoop PROVE ReturnInv'
<1>1. BelowKept /\ flows' = flows /\ permits' = permits /\ trans' = trans /\ sources' = sources
  BY EndLoopInv DEF EndLoop, flowVars, autVars
<1>2. FlowsInitial'
  BY <1>1, InitialKept DEF ReturnInv
<1>3. ASSUME NEW s \in Solver, NEW t \in Transition, NEW x \in Site, Meets(s, t, x)'
      PROVE  Promised(s, t, x)'
  <2>1. Promised(s, t, x)
    BY <1>1, <1>3 DEF Meets, ReturnInv
  <2>2. /\ ~ Awaits(Top, s, t, x) /\ Top # Add(s, Behind(t.target, x, Return(x)))
        /\ Top # Declare(s, Return(x), t.target)
    BY DEF EndLoop, Running, Loops, Awaits, Propagate, Add, Declare
  <2> QED
    BY <1>1, <2>1, <2>2, Carried
<1> QED
  BY <1>2, <1>3 DEF ReturnInv

LEMMA AddTransitionReturns == ASSUME Inv, ReturnInv, AddTransition PROVE ReturnInv'
<1>1. BelowKept /\ flows' = flows /\ permits' = permits /\ sources' = sources
      /\ trans \subseteq trans' /\ << Top.s, Top.t >> \in trans' /\ Top.op = "add"
  BY AddTransitionInv DEF AddTransition, Running, flowVars
<1>2. FlowsInitial'
  BY <1>1, InitialKept DEF ReturnInv
<1>3. ASSUME NEW s \in Solver, NEW t \in Transition, NEW x \in Site, Meets(s, t, x)'
      PROVE  Promised(s, t, x)'
  <2> DEFINE b == Behind(t.target, x, Return(x))
  <2>1. Promised(s, t, x)
    BY <1>1, <1>3 DEF Meets, ReturnInv
  <2>2. Top = Add(s, b) => << s, b >> \in trans'
    BY <1>1 DEF Add
  <2>3. ~ Awaits(Top, s, t, x) /\ Top # Declare(s, Return(x), t.target)
    BY <1>1 DEF Awaits, Propagate, Declare
  <2> QED
    BY <1>1, <2>1, <2>2, <2>3, Carried
<1> QED
  BY <1>2, <1>3 DEF ReturnInv

\* The target of a flow is unbalanced, so the state of its return becomes so.
LEMMA AddUnbalancedStateReturns == ASSUME Inv, ReturnInv, AddUnbalancedState PROVE ReturnInv'
<1>1. BelowKept /\ flows' = flows /\ permits' = permits /\ trans' = trans
      /\ sources \subseteq sources' /\ Top.op = "declare"
  BY AddUnbalancedStateInv DEF AddUnbalancedState, Running, flowVars
<1>2. FlowsInitial'
  BY <1>1, InitialKept DEF ReturnInv
<1>3. ASSUME NEW s \in Solver, NEW t \in Transition, NEW x \in Site, Meets(s, t, x)'
      PROVE  Promised(s, t, x)'
  <2>1. Promised(s, t, x) /\ Initial(s, t.target)
    BY <1>1, <1>3 DEF Meets, ReturnInv, FlowsInitial
  <2>2. Top = Declare(s, Return(x), t.target) => Initial(s, Return(x))'
    <3> SUFFICES ASSUME Top = Declare(s, Return(x), t.target) PROVE Initial(s, Return(x))'
      OBVIOUS
    <3>1. Top.s = s /\ Top.state = Return(x) /\ Top.parent = t.target
      BY DEF Declare
    <3>2. PICK p \in sources : p[1] = s /\ p[2] = t.target
      BY <2>1 DEF Initial
    <3>3. << s, Return(x), p[3] >> \in sources'
      BY <3>1, <3>2 DEF AddUnbalancedState
    <3> QED
      BY <3>3 DEF Initial
  <2>3. ~ Awaits(Top, s, t, x) /\ Top # Add(s, Behind(t.target, x, Return(x)))
    BY <1>1 DEF Awaits, Propagate, Add
  <2> QED
    BY <1>1, <2>1, <2>2, <2>3, Carried
<1> QED
  BY <1>2, <1>3 DEF ReturnInv

\* A new flow finds the permissions of before, ...
LEMMA AddFlowReturns == ASSUME Inv, ReturnInv, AddPotentialUnbalancedFlow PROVE ReturnInv'
<1> DEFINE s0 == Top.s
           t0 == Top.t
           sites == { x \in Site : << s0, LabelMethod(t0.label), x >> \in permits }
<1>1. BelowKept /\ permits' = permits /\ trans' = trans /\ sources' = sources
      /\ Top.op = "heard" /\ stack # << >> /\ flows' \subseteq flows \cup {<< s0, t0 >>}
  BY AddPotentialUnbalancedFlowInv DEF AddPotentialUnbalancedFlow, Running, autVars
<1>2. FlowsInitial'
  <2>1. << s0, t0 >> \in flows' => << s0, t0 >> \in flows \/ Initial(s0, t0.target)
    BY DEF AddPotentialUnbalancedFlow
  <2>2. \A f \in flows' : f \in flows \/ (f[1] = s0 /\ f[2] = t0 /\ Initial(s0, t0.target))
    BY <1>1, <2>1
  <2> QED
    BY <1>1, <2>2 DEF FlowsInitial, Initial, ReturnInv
<1>3. ASSUME NEW s \in Solver, NEW t \in Transition, NEW x \in Site, Meets(s, t, x)'
      PROVE  Promised(s, t, x)'
  <2>1. CASE << s, t >> \in flows
    <3>1. Promised(s, t, x)
      BY <1>1, <1>3, <2>1 DEF Meets, ReturnInv
    <3>2. /\ ~ Awaits(Top, s, t, x) /\ Top # Add(s, Behind(t.target, x, Return(x)))
          /\ Top # Declare(s, Return(x), t.target)
      BY <1>1 DEF Awaits, Propagate, Add, Declare
    <3> QED
      BY <1>1, <3>1, <3>2, Carried
  <2>2. CASE << s, t >> \notin flows
    <3>1. s = s0 /\ t = t0 /\ x \in sites
      BY <1>1, <1>3, <2>2 DEF Meets
    <3>2. Replace(<< ToSites(s0, t0, sites) >> \o << Forcing(s0, t0) >>)
      <4>1. t0.label[1] = "exit" /\ Initial(s0, t0.target)
        BY <1>3, <2>2 DEF Meets, AddPotentialUnbalancedFlow
      <4> QED
        BY <2>2, <3>1, <4>1 DEF AddPotentialUnbalancedFlow
    <3>3. ToSites(s0, t0, sites) \in Elems(stack')
      BY <1>1, <3>2, OnTop DEF Inv
    <3>4. Awaits(ToSites(s0, t0, sites), s, t, x)
      BY <3>1 DEF Awaits, ToSites
    <3> QED
      BY <3>3, <3>4 DEF Promised
  <2> QED
    BY <2>1, <2>2
<1> QED
  BY <1>2, <1>3 DEF ReturnInv

\* ... and a new permission the flows.
LEMMA AllowReturns == ASSUME Inv, ReturnInv, AllowUnbalanced PROVE ReturnInv'
<1> DEFINE s0 == SolverOf(Top.child)
           p == << s0, Top.callee, Top.site >>
           ts == { f[2] : f \in { f \in flows : f[1] = s0 /\ LabelMethod(f[2].label) = Top.callee } }
<1>1. BelowKept /\ flows' = flows /\ trans' = trans /\ sources' = sources
      /\ Top.op = "allow" /\ stack # << >> /\ permits' \subseteq permits \cup {p}
  BY AllowUnbalancedInv DEF AllowUnbalanced, Running, autVars
<1>2. FlowsInitial'
  BY <1>1, InitialKept DEF ReturnInv
<1>3. ASSUME NEW s \in Solver, NEW t \in Transition, NEW x \in Site, Meets(s, t, x)'
      PROVE  Promised(s, t, x)'
  <2>1. CASE << s, LabelMethod(t.label), x >> \in permits
    <3>1. Promised(s, t, x)
      BY <1>1, <1>3, <2>1 DEF Meets, ReturnInv
    <3>2. /\ ~ Awaits(Top, s, t, x) /\ Top # Add(s, Behind(t.target, x, Return(x)))
          /\ Top # Declare(s, Return(x), t.target)
      BY <1>1 DEF Awaits, Propagate, Add, Declare
    <3> QED
      BY <1>1, <3>1, <3>2, Carried
  <2>2. CASE << s, LabelMethod(t.label), x >> \notin permits
    <3>1. s = s0 /\ LabelMethod(t.label) = Top.callee /\ x = Top.site /\ << s, t >> \in flows
          /\ p \notin permits
      BY <1>1, <1>3, <2>2 DEF Meets
    <3>2. t \in ts
      BY <3>1
    <3>3. Top.callee \notin Excluded
      BY <1>3, <2>2 DEF Meets, AllowUnbalanced
    <3>4. Replace(<< FlowsTo(s0, Top.site, ts) >>)
      BY <3>1, <3>3 DEF AllowUnbalanced
    <3>5. FlowsTo(s0, Top.site, ts) \in Elems(stack')
      BY <1>1, <3>4, OnTop DEF Inv
    <3>6. Awaits(FlowsTo(s0, Top.site, ts), s, t, x)
      BY <3>1, <3>2 DEF Awaits, FlowsTo
    <3> QED
      BY <3>5, <3>6 DEF Promised
  <2> QED
    BY <2>1, <2>2
<1> QED
  BY <1>2, <1>3 DEF ReturnInv

LEMMA PropagateToSitesReturns == ASSUME Inv, ReturnInv, PropagateToSites PROVE ReturnInv'
<1>1. BelowKept /\ flows' = flows /\ permits' = permits /\ trans' = trans /\ sources' = sources
      /\ stack # << >> /\ Top.op = "toSites" /\ Top \in ToSitesFrame
  BY PropagateToSitesInv, TopFrame
  DEF PropagateToSites, Running, Inv, flowVars, autVars
<1>2. FlowsInitial'
  BY <1>1, InitialKept DEF ReturnInv
<1>3. PICK x0 \in Top.rest : Take(x0, << Propagate(Top.s, x0, Top.t) >>)
  BY DEF PropagateToSites
<1> DEFINE f == [Top EXCEPT !.rest = @ \ {x0}]
<1>4. Propagate(Top.s, x0, Top.t) \in Elems(stack') /\ f \in Elems(stack')
  BY <1>1, <1>3, OnTop DEF Take, Inv
<1>5. f.op = "toSites" /\ f.s = Top.s /\ f.t = Top.t /\ f.rest = Top.rest \ {x0}
  BY <1>1 DEF ToSitesFrame
<1>6. ASSUME NEW s \in Solver, NEW t \in Transition, NEW x \in Site, Meets(s, t, x)'
      PROVE  Promised(s, t, x)'
  <2>1. Promised(s, t, x)
    BY <1>1, <1>6 DEF Meets, ReturnInv
  <2>2. CASE Awaits(Top, s, t, x)
    <3>1. Top.s = s /\ Top.t = t /\ x \in Top.rest
      BY <1>1, <2>2 DEF Awaits, Propagate
    <3>2. Awaits(f, s, t, x) \/ Awaits(Propagate(Top.s, x0, Top.t), s, t, x)
      BY <1>5, <3>1 DEF Awaits
    <3> QED
      BY <1>4, <3>2 DEF Promised
  <2>3. CASE ~ Awaits(Top, s, t, x)
    <3>1. Top # Add(s, Behind(t.target, x, Return(x))) /\ Top # Declare(s, Return(x), t.target)
      BY <1>1 DEF Add, Declare
    <3> QED
      BY <1>1, <2>1, <2>3, <3>1, Carried
  <2> QED
    BY <2>2, <2>3
<1> QED
  BY <1>2, <1>6 DEF ReturnInv

LEMMA PropagateFlowsReturns == ASSUME Inv, ReturnInv, PropagateFlows PROVE ReturnInv'
<1>1. BelowKept /\ flows' = flows /\ permits' = permits /\ trans' = trans /\ sources' = sources
      /\ stack # << >> /\ Top.op = "flowsTo" /\ Top \in FlowsToFrame
  BY PropagateFlowsInv, TopFrame
  DEF PropagateFlows, Running, Inv, flowVars, autVars
<1>2. FlowsInitial'
  BY <1>1, InitialKept DEF ReturnInv
<1>3. PICK t0 \in Top.rest : Take(t0, << Propagate(Top.s, Top.site, t0) >>)
  BY DEF PropagateFlows
<1> DEFINE f == [Top EXCEPT !.rest = @ \ {t0}]
<1>4. Propagate(Top.s, Top.site, t0) \in Elems(stack') /\ f \in Elems(stack')
  BY <1>1, <1>3, OnTop DEF Take, Inv
<1>5. f.op = "flowsTo" /\ f.s = Top.s /\ f.site = Top.site /\ f.rest = Top.rest \ {t0}
  BY <1>1 DEF FlowsToFrame
<1>6. ASSUME NEW s \in Solver, NEW t \in Transition, NEW x \in Site, Meets(s, t, x)'
      PROVE  Promised(s, t, x)'
  <2>1. Promised(s, t, x)
    BY <1>1, <1>6 DEF Meets, ReturnInv
  <2>2. CASE Awaits(Top, s, t, x)
    <3>1. Top.s = s /\ Top.site = x /\ t \in Top.rest
      BY <1>1, <2>2 DEF Awaits, Propagate
    <3>2. Awaits(f, s, t, x) \/ Awaits(Propagate(Top.s, Top.site, t0), s, t, x)
      BY <1>5, <3>1 DEF Awaits
    <3> QED
      BY <1>4, <3>2 DEF Promised
  <2>3. CASE ~ Awaits(Top, s, t, x)
    <3>1. Top # Add(s, Behind(t.target, x, Return(x))) /\ Top # Declare(s, Return(x), t.target)
      BY <1>1 DEF Add, Declare
    <3> QED
      BY <1>1, <2>1, <2>3, <3>1, Carried
  <2> QED
    BY <2>2, <2>3
<1> QED
  BY <1>2, <1>6 DEF ReturnInv

\* The return is made: its call edge is in the graph, as PermitsMatch says.
LEMMA PropagateReturns == ASSUME Inv, ReturnInv, PropagateUnbalancedToCallSite PROVE ReturnInv'
<1>1. BelowKept /\ flows' = flows /\ permits' = permits /\ trans' = trans /\ sources' = sources
      /\ stack # << >> /\ Top.op = "propagate"
      /\ IsMatchingCallSiteCalleePair(Top.site, LabelMethod(Top.t.label))
  BY PropagateInv, TopFrame
  DEF PropagateUnbalancedToCallSite, Running, Inv, PropagateFrame, IsMatchingCallSiteCalleePair,
      flowVars, autVars
<1>2. FlowsInitial'
  BY <1>1, InitialKept DEF ReturnInv
<1>3. ASSUME NEW s \in Solver, NEW t \in Transition, NEW x \in Site, Meets(s, t, x)'
      PROVE  Promised(s, t, x)'
  <2>1. Promised(s, t, x)
    BY <1>1, <1>3 DEF Meets, ReturnInv
  <2>2. CASE Awaits(Top, s, t, x)
    <3> DEFINE a == Add(s, Tr(Fact(FirstHome(s)), << "before", x >>, Return(x)))
               d == Declare(s, Return(x), t.target)
               b == Add(s, Behind(t.target, x, Return(x)))
    <3>1. Top.s = s /\ Top.site = x /\ Top.t = t
      BY <1>1, <2>2 DEF Awaits, Propagate
    <3>2. Replace(<< a, d, b >>)
      BY <1>1, <3>1 DEF PropagateUnbalancedToCallSite
    <3>3. d \in Elems(stack') /\ b \in Elems(stack')
      <4> HIDE DEF a, d, b
      <4> QED
        BY <1>1, <3>2, OnTop DEF Inv
    <3> QED
      BY <3>3 DEF Promised
  <2>3. CASE ~ Awaits(Top, s, t, x)
    <3>1. Top # Add(s, Behind(t.target, x, Return(x))) /\ Top # Declare(s, Return(x), t.target)
      BY <1>1 DEF Add, Declare
    <3> QED
      BY <1>1, <2>1, <2>3, <3>1, Carried
  <2> QED
    BY <2>2, <2>3
<1> QED
  BY <1>2, <1>3 DEF ReturnInv

LEMMA NextReturns == ASSUME Inv, ReturnInv, [Next]_vars PROVE ReturnInv'
<1>1. CASE Solvers
  BY <1>1, SolversReturn
<1>2. CASE Engine
  BY <1>2, CallGraphReturns, QueryGraphReturns, EndLoopReturns, AddTransitionReturns,
     AddUnbalancedStateReturns, AddFlowReturns, AllowReturns, PropagateToSitesReturns,
     PropagateFlowsReturns, PropagateReturns
  DEF Engine
<1>3. CASE UNCHANGED vars
  BY <1>3
  DEF vars, autVars, flowVars, ReturnInv, FlowsInitial, Initial, Meets, Promised, Awaits
<1> QED
  BY <1>1, <1>2, <1>3 DEF Next

-----------------------------------------------------------------------------
LEMMA InvType == ASSUME Inv PROVE TypeOK
<1>1. \A s \in Used : s \in Solver
  BY DEF Used
<1>2. graph \subseteq Known \cup Resolved /\ calleeListeners \subseteq Solver \X Site
  BY <1>1 DEF Inv, IcfgInv
<1>3. \A l \in callerListeners : l.kind \in {"force", "context"} /\ l.callee \in Method
  BY DEF Inv, IcfgInv, CallerListener
<1>4. solved \subseteq Query /\ rootQuery \in Backward \cup {None} /\ roots \subseteq solved
      /\ flows \subseteq trans
  BY DEF Inv, QueriesInv, AutomataInv
<1>5. sources \subseteq Solver \X Generated \X solved
  BY <1>1 DEF Inv, AutomataInv
<1>6. trans \subseteq Solver \X Transition
  BY <1>1 DEF Inv, AutomataInv, Placed
<1>7. callRules \subseteq Solver \X Site \X Method
  BY <1>1 DEF Inv, AutomataInv, CallRule
<1>8. permits \subseteq Solver \X Method \X Site
  BY <1>1 DEF Inv, AutomataInv, Permit
<1>9. edges \subseteq Raises
  BY DEF Inv, QueriesInv, QueryEdge
<1>10. \A l \in sourceListeners : /\ l.state \in State /\ l.callee \in Method \cup {None}
                                  /\ l.parent \in solved /\ l.child \in solved
  BY DEF Inv, QueriesInv, SourceListener
<1>11. \A l \in edgeListeners : << SolverOf(l.parent), l.t >> \in trans
  BY DEF Inv, QueriesInv, EdgeListener
<1> QED
  BY <1>2, <1>3, <1>4, <1>5, <1>6, <1>7, <1>8, <1>9, <1>10, <1>11 DEF TypeOK

LEMMA InvPermits == ASSUME Inv PROVE PermitsMatch
<1>1. \A p \in permits : << p[3], p[2] >> \in graph
  BY DEF Inv, AutomataInv, Permit
<1>2. ASSUME Running("propagate") PROVE << Top.site, LabelMethod(Top.t.label) >> \in graph
  <2>1. Top \in PropagateFrame
    BY <1>2, TopFrame DEF Running, Inv
  <2> QED
    BY <2>1 DEF PropagateFrame
<1> QED
  BY <1>1, <1>2 DEF PermitsMatch

LEMMA Inductive == Spec => []Inv
<1>1. Inv /\ [Next]_vars => Inv'
  BY NextInv
<1> QED
  BY InitInv, <1>1, PTL DEF Spec

(* The tables of the solvers, of the call graph and of the query graph are *)
(* about solvers, methods, call sites and queries that exist, and a        *)
(* listener of the query graph is about a transition its parent's          *)
(* automaton has (AbstractBoomerangSolver, ObservableDynamicICFG, QueryGraph). *)
THEOREM TypeCorrect == Spec => []TypeOK
  BY Inductive, InvType, PTL

(* Whatever the order in which flows, permissions, queries and call edges  *)
(* arrive, a permission names a call site that has the method as callee in *)
(* the call graph, and so does each return a flow is sent to: the check    *)
(* that is made once and never repeated turns no flow down                 *)
(* (AbstractBoomerangSolver.isMatchingCallSiteCalleePair).                 *)
THEOREM PermissionsMatch == Spec => []PermitsMatch
  BY Inductive, InvPermits, PTL

\* When no call is in progress the promises have been kept.
LEMMA QuietPromises == ASSUME Inv, ReturnInv PROVE QuietReturned
<1> SUFFICES ASSUME stack = << >>, NEW f \in flows, NEW p \in permits,
                    p[1] = f[1], p[2] = LabelMethod(f[2].label)
             PROVE  Returned(f[1], f[2], p[3])
  BY DEF QuietReturned
<1>1. f[1] \in Solver /\ f[2] \in Transition /\ f = << f[1], f[2] >>
  <2>1. f \in Solver \X Transition
    BY InvType DEF TypeOK
  <2> QED
    BY <2>1
<1>2. p[3] \in Site /\ p = << p[1], p[2], p[3] >>
  <2>1. p \in Solver \X Method \X Site
    BY InvType DEF TypeOK
  <2> QED
    BY <2>1
<1>3. Promised(f[1], f[2], p[3])
  BY <1>1, <1>2 DEF ReturnInv, Meets
<1>4. Elems(stack) = {}
  BY DEF Elems
<1> QED
  BY <1>3, <1>4 DEF Promised, Returned

(* In the end every unbalanced flow has returned to every call site it was *)
(* permitted to return to, in whatever order and nesting the flow, the     *)
(* permission, the query edges and the call edges arrived                  *)
(* (AbstractBoomerangSolver.addPotentialUnbalancedFlow, allowUnbalanced).  *)
THEOREM AllReturned == Spec => []QuietReturned
<1>1. Init => ReturnInv
  BY DEF Init, ReturnInv, FlowsInitial, Meets
<1>2. Inv /\ ReturnInv /\ [Next]_vars => ReturnInv'
  BY NextReturns
<1>3. Spec => []ReturnInv
  BY Inductive, <1>1, <1>2, PTL DEF Spec
<1> QED
  BY Inductive, <1>3, QuietPromises, PTL

-----------------------------------------------------------------------------
(* A state is declared unbalanced before any flow reaches an exit with it as *)
(* target.  The only transition into a return's state that may be under way  *)
(* before is the one behind the call site, and the declaration is made right *)
(* before it.                                                                *)

InitialIn(S, s, x) == \E p \in S : p[1] = s /\ p[2] = x

\* The target of the transition is declared, or it is never going to be.
Sound(S, s, t) ==
  t.label[1] = "before" \/ t.target[1] = "entry" \/ InitialIn(S, s, t.target)

OfFlow(F, l) == l.kind = "force" => << l.solver, l.t >> \in F

\* What a call or loop carries are flows, and what it declares the state of a return
\* from one.
Flowing(S, F, f) ==
  /\ f.op \in {"force", "toSites", "propagate"} => << f.s, f.t >> \in F
  /\ f.op = "flowsTo" => \A t \in f.rest : << f.s, t >> \in F
  /\ f.op \in {"addCaller", "callersKnown"} => OfFlow(F, f.l)
  /\ f.op = "tellCallers" => \A l \in f.rest : OfFlow(F, l)
  /\ f.op = "declare" => f.state[1] # "entry" /\ InitialIn(S, f.s, f.parent)

Declares(f, s, x) == f.op = "declare" /\ f.s = s /\ f.state = x

InOrder(S, u) ==
  \A i \in 1 .. Len(u) :
    u[i].op = "add" =>
      Sound(S, u[i].s, u[i].t) \/ (i > 1 /\ Declares(u[i - 1], u[i].s, u[i].t.target))

Caught(p) ==
  p[2].label[1] = "exit" /\ Initial(p[1], p[2].target) =>
    p \in flows \/ Heard(p[1], p[2]) \in Elems(stack)

CaughtInv ==
  /\ \A p \in sources : p[2][1] # "entry"
  /\ \A l \in callerListeners : OfFlow(flows, l)
  /\ \A p \in trans : Sound(sources, p[1], p[2]) /\ Caught(p)
  /\ \A f \in Elems(stack) : Flowing(sources, flows, f)
  /\ InOrder(sources, stack)

LEMMA FlowingGrows ==
  ASSUME NEW S, NEW S2, S \subseteq S2, NEW F, NEW F2, F \subseteq F2
  PROVE  /\ \A s, t : Sound(S, s, t) => Sound(S2, s, t)
         /\ \A f : Flowing(S, F, f) => Flowing(S2, F2, f)
         /\ \A u : InOrder(S, u) => InOrder(S2, u)
<1>1. \A s, x : InitialIn(S, s, x) => InitialIn(S2, s, x)
  BY DEF InitialIn
<1>2. \A s, t : Sound(S, s, t) => Sound(S2, s, t)
  BY <1>1 DEF Sound
<1>3. \A l : OfFlow(F, l) => OfFlow(F2, l)
  BY DEF OfFlow
<1>4. \A f : Flowing(S, F, f) => Flowing(S2, F2, f)
  BY <1>1, <1>3 DEF Flowing
<1>5. \A u : InOrder(S, u) => InOrder(S2, u)
  BY <1>2 DEF InOrder
<1> QED BY <1>2, <1>4, <1>5

\* Calls on top of others
LEMMA OrderPushed ==
  ASSUME NEW S, NEW T, NEW u \in Seq(T), NEW v \in Seq(T), InOrder(S, u), InOrder(S, v)
  PROVE  InOrder(S, u \o v)
<1>1. /\ Len(u \o v) = Len(u) + Len(v) /\ Len(u) \in Nat /\ Len(v) \in Nat
      /\ \A i \in 1 .. Len(u) + Len(v) : (u \o v)[i] = IF i <= Len(u) THEN u[i] ELSE v[i - Len(u)]
  OBVIOUS
<1> DEFINE w == u \o v
<1>2. SUFFICES ASSUME NEW i \in 1 .. Len(u) + Len(v), w[i].op = "add"
               PROVE  Sound(S, w[i].s, w[i].t)
                      \/ (i > 1 /\ Declares(w[i - 1], w[i].s, w[i].t.target))
  BY <1>1 DEF InOrder
<1>3. CASE i <= Len(u)
  <2>1. i \in 1 .. Len(u) /\ w[i] = u[i] /\ (i > 1 => w[i - 1] = u[i - 1])
    BY <1>1, <1>3
  <2> HIDE DEF w
  <2> QED BY <1>2, <2>1 DEF InOrder
<1>4. CASE i > Len(u)
  <2>1. i - Len(u) \in 1 .. Len(v) /\ w[i] = v[i - Len(u)]
    BY <1>1, <1>4
  <2>2. ASSUME i - Len(u) > 1 PROVE i > 1 /\ w[i - 1] = v[(i - Len(u)) - 1]
    <3>1. /\ i > 1 /\ i - 1 \in 1 .. Len(u) + Len(v) /\ ~ (i - 1 <= Len(u))
          /\ (i - 1) - Len(u) = (i - Len(u)) - 1
      BY <1>1, <1>4, <2>2
    <3>2. w[i - 1] = v[(i - 1) - Len(u)]
      BY <1>1, <3>1
    <3> QED BY <3>1, <3>2
  <2> HIDE DEF w
  <2> QED BY <1>2, <2>1, <2>2 DEF InOrder
<1>5. i <= Len(u) \/ i > Len(u)
  BY <1>1
<1> HIDE DEF w
<1> QED BY <1>3, <1>4, <1>5

\* ... and without the top one
LEMMA OrderPopped ==
  ASSUME NEW S, NEW T, NEW u \in Seq(T), u # << >>, InOrder(S, u),
         \/ u[1].op # "declare"
         \/ Len(u) > 1 /\ u[2].op = "add" => Sound(S, u[2].s, u[2].t)
  PROVE  InOrder(S, Tail(u))
<1> DEFINE v == Tail(u)
<1>1. /\ Len(u) \in Nat /\ Len(v) = Len(u) - 1
      /\ \A i \in 1 .. Len(v) : v[i] = u[i + 1]
  BY Popped
<1> HIDE DEF v
<1>2. SUFFICES ASSUME NEW i \in 1 .. Len(v), v[i].op = "add"
               PROVE  Sound(S, v[i].s, v[i].t)
                      \/ (i > 1 /\ Declares(v[i - 1], v[i].s, v[i].t.target))
  BY DEF InOrder, v
<1>3. /\ i + 1 \in 1 .. Len(u) /\ i + 1 > 1 /\ (i + 1) - 1 = i /\ v[i] = u[i + 1]
      /\ i > 1 => v[i - 1] = u[i]
  BY <1>1
<1>4. Sound(S, v[i].s, v[i].t) \/ Declares(u[i], v[i].s, v[i].t.target)
  <2>1. \/ Sound(S, u[i + 1].s, u[i + 1].t)
        \/ Declares(u[(i + 1) - 1], u[i + 1].s, u[i + 1].t.target)
    BY <1>2, <1>3 DEF InOrder
  <2> QED BY <1>3, <2>1
<1>5. CASE i = 1
  BY <1>1, <1>2, <1>3, <1>4, <1>5 DEF Declares
<1>6. CASE i > 1
  BY <1>3, <1>4, <1>6
<1> QED BY <1>1, <1>5, <1>6

LEMMA NoCalls == ASSUME NEW T, NEW u \in Seq(T) PROVE u \o << >> = u /\ << >> \o u = u
  OBVIOUS

LEMMA SameCalls ==
  ASSUME NEW T, NEW u \in Seq(T), NEW v \in Seq(T), Len(u) = Len(v),
         \A i \in 1 .. Len(u) : u[i] = v[i]
  PROVE  u = v
  OBVIOUS

\* Short sequences of calls
LEMMA ShortCalls ==
  ASSUME NEW a, NEW b, NEW c
  PROVE  /\ << a >> \in Seq({a}) /\ << a, b >> \in Seq({a, b})
         /\ << >> \in Seq({a, b, c}) /\ Elems(<< >>) = {}
         /\ << a >> \in Seq({a, b, c}) /\ Elems(<< a >>) = {a}
         /\ << a, b >> \in Seq({a, b, c}) /\ Elems(<< a, b >>) = {a, b}
         /\ << a, b, c >> \in Seq({a, b, c}) /\ Elems(<< a, b, c >>) = {a, b, c}
         /\ << >> \o << a >> = << a >> /\ << a >> \o << b >> = << a, b >>
         /\ << >> \o << a, b >> = << a, b >> /\ << a >> \o << b, c >> = << a, b, c >>
         /\ << a, b >> \o << >> = << a, b >> /\ << a, b >> \o << c >> = << a, b, c >>
<1>1. Elems(<< >>) = {} /\ Elems(<< a >>) = {a}
  BY DEF Elems
<1>2. Elems(<< a, b >>) = {a, b}
  BY DEF Elems
<1>3. Elems(<< a, b, c >>) = {a, b, c}
  BY DEF Elems
<1>4. /\ << >> \in Seq({a, b, c}) /\ << a >> \in Seq({a, b, c})
      /\ << a, b >> \in Seq({a, b, c}) /\ << a, b, c >> \in Seq({a, b, c})
  OBVIOUS
<1>5. /\ << >> \o << a >> = << a >> /\ << a >> \o << b >> = << a, b >>
      /\ << >> \o << a, b >> = << a, b >> /\ << a >> \o << b, c >> = << a, b, c >>
      /\ << a, b >> \o << >> = << a, b >> /\ << a, b >> \o << c >> = << a, b, c >>
  <2>1. << >> \o << a >> = << a >>
    BY <1>4, NoCalls
  <2>2. << a >> \o << b >> = << a, b >>
    <3> DEFINE u == << a >> \o << b >>
               v == << a, b >>
    <3>1. u \in Seq({a, b, c}) /\ Len(u) = 2 /\ \A i \in 1 .. 2 : u[i] = v[i]
      OBVIOUS
    <3>2. v \in Seq({a, b, c}) /\ Len(v) = 2
      OBVIOUS
    <3> HIDE DEF u, v
    <3> QED BY <3>1, <3>2, SameCalls DEF u, v
  <2>3. << >> \o << a, b >> = << a, b >>
    BY <1>4, NoCalls
  <2>4. << a >> \o << b, c >> = << a, b, c >>
    <3> DEFINE u == << a >> \o << b, c >>
               v == << a, b, c >>
    <3>1. u \in Seq({a, b, c}) /\ Len(u) = 3 /\ \A i \in 1 .. 3 : u[i] = v[i]
      OBVIOUS
    <3>2. v \in Seq({a, b, c}) /\ Len(v) = 3
      OBVIOUS
    <3> HIDE DEF u, v
    <3> QED BY <3>1, <3>2, SameCalls DEF u, v
  <2>5. << a, b >> \o << >> = << a, b >>
    BY <1>4, NoCalls
  <2>6. << a, b >> \o << c >> = << a, b, c >>
    <3> DEFINE u == << a, b >> \o << c >>
               v == << a, b, c >>
    <3>1. u \in Seq({a, b, c}) /\ Len(u) = 3 /\ \A i \in 1 .. 3 : u[i] = v[i]
      OBVIOUS
    <3>2. v \in Seq({a, b, c}) /\ Len(v) = 3
      OBVIOUS
    <3> HIDE DEF u, v
    <3> QED BY <3>1, <3>2, SameCalls DEF u, v
  <2> QED BY <2>1, <2>2, <2>3, <2>4, <2>5, <2>6
<1>6. << a >> \in Seq({a}) /\ << a, b >> \in Seq({a, b})
  OBVIOUS
<1> QED BY <1>1, <1>2, <1>3, <1>4, <1>5, <1>6

LEMMA OrderPlain ==
  ASSUME NEW S, NEW T, NEW u \in Seq(T), \A f \in Elems(u) : f.op = "add" => Sound(S, f.s, f.t)
  PROVE  InOrder(S, u)
BY DEF InOrder, Elems

\* A step that makes the calls fs, on top of the stack or in place of its top frame
LEMMA CaughtStep ==
  ASSUME Inv, CaughtInv, NEW U, NEW fs \in Seq(U),
         \/ Push(fs)
         \/ /\ Replace(fs) /\ stack # << >> /\ Top.op # "declare"
            /\ Top.op = "heard" /\ Top.t.label[1] = "exit" /\ InitialIn(sources', Top.s, Top.t.target) =>
                 << Top.s, Top.t >> \in flows',
         sources \subseteq sources', flows \subseteq flows',
         \A p \in sources' : p[2][1] # "entry",
         \A l \in callerListeners' : OfFlow(flows', l),
         \A p \in trans' \ trans :
           Sound(sources', p[1], p[2]) /\ Heard(p[1], p[2]) \in Elems(fs),
         InOrder(sources', fs), \A f \in Elems(fs) : Flowing(sources', flows', f)
  PROVE  CaughtInv'
<1> DEFINE T == Frame \cup U
           r == IF Push(fs) THEN stack ELSE Tail(stack)
<1>0. \A s, t : Sound(sources, s, t) => Sound(sources', s, t)
  BY FlowingGrows
<1>1. /\ stack \in Seq(T) /\ fs \in Seq(T)
      /\ stack # << >> => /\ Tail(stack) \in Seq(T) /\ Top = stack[1]
                          /\ Elems(stack) = {Top} \cup Elems(Tail(stack))
  <2>1. \A A, B : A \subseteq B => Seq(A) \subseteq Seq(B)
    OBVIOUS
  <2>2. stack \in Seq(T) /\ fs \in Seq(T)
    BY <2>1 DEF Inv
  <2> HIDE DEF T
  <2> QED BY <2>2, Popped, TopOrBelow DEF Top
<1>2. /\ stack' = fs \o r /\ r \in Seq(T) /\ Elems(r) \subseteq Elems(stack)
      /\ \/ Push(fs) /\ r = stack
         \/ ~ Push(fs) /\ Elems(stack) = {Top} \cup Elems(r) /\ r = Tail(stack)
  BY <1>1 DEF Push, Replace
<1>3. InOrder(sources', r)
  <2>1. InOrder(sources', stack)
    BY FlowingGrows DEF CaughtInv
  <2>2. CASE Push(fs)
    BY <2>1, <2>2
  <2>3. CASE ~ Push(fs)
    <3> HIDE DEF T
    <3> QED BY <1>1, <2>1, <2>3, OrderPopped
  <2> QED BY <2>2, <2>3
<1> HIDE DEF T, r
<1>4. Elems(stack') = Elems(fs) \cup Elems(r)
  BY <1>1, <1>2, ConcatElems
<1>5. InOrder(sources', stack')
  BY <1>1, <1>2, <1>3, OrderPushed
<1>6. \A f \in Elems(stack') : Flowing(sources', flows', f)
  BY <1>2, <1>4, FlowingGrows DEF CaughtInv
<1>7. ASSUME NEW p \in trans', p \in trans PROVE Sound(sources', p[1], p[2]) /\ Caught(p)'
  <2>1. Sound(sources, p[1], p[2]) /\ Caught(p)
    BY <1>7 DEF CaughtInv
  <2>2. SUFFICES ASSUME p[2].label[1] = "exit", InitialIn(sources', p[1], p[2].target)
                 PROVE  p \in flows' \/ Heard(p[1], p[2]) \in Elems(stack')
    <3>1. Sound(sources', p[1], p[2])
      BY <1>0, <2>1
    <3>2. Caught(p)' <=>
            (p[2].label[1] = "exit" /\ InitialIn(sources', p[1], p[2].target) =>
               p \in flows' \/ Heard(p[1], p[2]) \in Elems(stack'))
      BY DEF Caught, Initial, InitialIn
    <3> QED BY <3>1, <3>2
  <2>3. p[2].target[1] # "entry"
    BY <2>2 DEF InitialIn
  <2>4. Initial(p[1], p[2].target)
    BY <2>1, <2>2, <2>3 DEF Sound, Initial, InitialIn
  <2>5. p \in flows \/ Heard(p[1], p[2]) \in Elems(stack)
    BY <2>1, <2>2, <2>4 DEF Caught
  <2>6. CASE ~ Push(fs) /\ Heard(p[1], p[2]) = Top
    <3>1. Top.op = "heard" /\ Top.s = p[1] /\ Top.t = p[2]
      BY <2>6 DEF Heard
    <3>2. p = << p[1], p[2] >>
      BY <1>7 DEF Inv, AutomataInv
    <3> QED BY <2>2, <2>6, <3>1, <3>2
  <2> QED BY <1>2, <1>4, <2>5, <2>6
<1>8. ASSUME NEW p \in trans', p \notin trans PROVE Sound(sources', p[1], p[2]) /\ Caught(p)'
  BY <1>4, <1>8 DEF Caught
<1> QED BY <1>5, <1>6, <1>7, <1>8 DEF CaughtInv

\* Calls that add no transition, while the tables stay as they are
LEMMA CaughtCalls ==
  ASSUME Inv, CaughtInv, NEW U, NEW fs \in Seq(U),
         \/ Push(fs)
         \/ Replace(fs) /\ stack # << >> /\ Top.op \notin {"declare", "heard"},
         UNCHANGED << sources, trans, flows, callerListeners >>,
         \A f \in Elems(fs) : f.op # "add" /\ Flowing(sources, flows, f)
  PROVE  CaughtInv'
<1>1. InOrder(sources, fs)
  BY OrderPlain
<1> QED BY <1>1, CaughtStep DEF CaughtInv

\* A loop that makes calls which add no transition
LEMMA CaughtLoop ==
  ASSUME Inv, CaughtInv, stack # << >>, Top.op \in Loops, NEW U, NEW fs \in Seq(U),
         NEW x, Take(x, fs),
         UNCHANGED << sources, trans, flows, callerListeners >>,
         \A f \in Elems(fs) : f.op # "add" /\ Flowing(sources, flows, f)
  PROVE  CaughtInv'
<1> DEFINE g == [Top EXCEPT !.rest = @ \ {x}]
<1>1. Top \in Frame /\ Flowing(sources, flows, Top) /\ Top.op \notin {"declare", "heard", "add"}
  <2>1. Top \in Elems(stack)
    BY TopOrBelow DEF Inv, Top
  <2> QED BY <2>1, TopFrame DEF Inv, CaughtInv, Loops
<1>2. /\ g.op = Top.op /\ g.rest \subseteq Top.rest
      /\ Top.op \in {"toSites", "flowsTo"} => g.s = Top.s
      /\ Top.op = "toSites" => g.t = Top.t
      /\ Top.op = "callersKnown" => g.l = Top.l
  BY TopFrame DEF Inv, Loops, TellFrame, ReplayFrame, ToSitesFrame, FlowsToFrame, CallersKnownFrame,
     CalleesFrame, TellCallersFrame, EdgesKnownFrame, TellEdgeFrame
<1> HIDE DEF g
<1>3. g.op # "add" /\ Flowing(sources, flows, g)
  BY <1>1, <1>2 DEF Flowing, Loops
<1> DEFINE w == fs \o << g >>
           V == U \cup {g}
<1>4. w \in Seq(V) /\ Elems(w) = Elems(fs) \cup {g}
  <2>1. \A A, B : A \subseteq B => Seq(A) \subseteq Seq(B)
    OBVIOUS
  <2>2. fs \in Seq(V) /\ << g >> \in Seq(V)
    BY <2>1
  <2>3. Elems(<< g >>) = {g}
    BY ShortCalls
  <2> HIDE DEF V
  <2> QED BY <2>2, <2>3, ConcatElems
<1>5. Replace(w)
  BY DEF Take, g
<1> HIDE DEF w, V
<1>6. \A f \in Elems(w) : f.op # "add" /\ Flowing(sources, flows, f)
  BY <1>3, <1>4
<1> QED BY <1>1, <1>4, <1>5, <1>6, CaughtCalls

\* What the pushdown system derives has a sound target: that of the transition it
\* comes from, or the entry of a call.
LEMMA DerivedSound ==
  ASSUME Inv, CaughtInv, NEW s \in Solver, NEW t \in Derived(s)
  PROVE  Sound(sources, s, t)
<1> DEFINE T == Of(s)
           ins == { u \in T : u.label[1] = "in" }
           behind == { u \in T : u.label[1] = "behind" }
<1>1. \A u \in T : << s, u >> \in trans
  BY DEF Inv, AutomataInv, Of
<1>2. ASSUME NEW u \in T, u.label[1] # "before", NEW a, NEW b
      PROVE  Sound(sources, s, Tr(a, b, u.target))
  <2>1. Sound(sources, s, u)
    BY <1>1 DEF CaughtInv
  <2> QED BY <1>2, <2>1 DEF Sound, Tr
<1>3. \A m, a, b : Sound(sources, s, Tr(a, b, Entry(m)))
  BY DEF Sound, Tr, Entry
<1>4. \/ \E u \in ins : t = Exit(u.label[2], u.target)
      \/ \E x \in callRules : t = At(x[3], Entry(x[3]))
      \/ \E x \in callRules, u \in ins : t = Behind(Entry(x[3]), x[2], u.target)
      \/ \E u \in behind : \E v \in T : t = At(CallerOf[v.label[2]], u.target)
                                    \/ t = At(CallerOf[u.label[2]], u.target)
  BY DEF Derived
<1>5. \A u \in ins : u \in T /\ u.label[1] # "before"
  OBVIOUS
<1>6. \A u \in behind : u \in T /\ u.label[1] # "before"
  OBVIOUS
<1> HIDE DEF T, ins, behind
<1> QED BY <1>2, <1>3, <1>4, <1>5, <1>6 DEF Exit, At, Behind

LEMMA CaughtStart ==
  ASSUME Inv, CaughtInv, NEW q \in Query, NEW e, NEW fs, fs = << >> \/ (fs = << e >> /\ e.op = "addEdge"),
         StartSolver(q, fs), UNCHANGED << icfgVars, trans, callRules, flowVars, graphVars >>
  PROVE  CaughtInv'
<1> DEFINE a == Add(SolverOf(q), At(Home[q], Start(q)))
           w == << a, Solving >> \o fs
<1>1. /\ sources' = sources \cup {<< SolverOf(q), Start(q), q >>} /\ Push(w)
      /\ UNCHANGED << trans, flows, callerListeners >>
  BY DEF StartSolver, icfgVars, flowVars
<1>2. w \in Seq({a, Solving, e}) /\ Elems(w) \subseteq {a, Solving, e}
      /\ (e \in Elems(w) => e = a \/ e = Solving \/ e.op = "addEdge")
  <2> HIDE DEF a
  <2> DEFINE b == Solving
             V == {a, b, e}
  <2> HIDE DEF a, b
  <2>1. << a, b >> \in Seq(V) /\ Elems(<< a, b >>) = {a, b}
    <3>1. Elems(<< a, b >>) = {a, b}
      BY ShortCalls
    <3> QED BY <3>1
  <2>2. fs \in Seq(V) /\ Elems(fs) \subseteq {e} /\ (e \in Elems(fs) => e.op = "addEdge")
    <3>1. Elems(<< >>) = {} /\ Elems(<< e >>) = {e}
      BY ShortCalls
    <3>2. << >> \in Seq(V) /\ << e >> \in Seq(V)
      OBVIOUS
    <3> QED BY <3>1, <3>2
  <2> HIDE DEF V
  <2>3. << a, b >> \o fs \in Seq(V) /\ Elems(<< a, b >> \o fs) = {a, b} \cup Elems(fs)
    <3> DEFINE u == << a, b >>
    <3>1. u \in Seq(V) /\ Elems(u) = {a, b}
      BY <2>1
    <3> HIDE DEF u
    <3>2. u \o fs \in Seq(V) /\ Elems(u \o fs) = {a, b} \cup Elems(fs)
      BY <2>2, <3>1, ConcatElems
    <3> QED BY <3>2 DEF u
  <2> QED BY <2>2, <2>3 DEF b, V
<1>3. Start(q)[1] # "entry"
  BY DEF Start
<1>4. \A p \in sources' : p[2][1] # "entry"
  BY <1>1, <1>3 DEF CaughtInv
<1>5. Sound(sources', SolverOf(q), At(Home[q], Start(q)))
  <2>1. InitialIn(sources', SolverOf(q), Start(q))
    <3> DEFINE p == << SolverOf(q), Start(q), q >>
    <3>1. p \in sources' /\ p[1] = SolverOf(q) /\ p[2] = Start(q)
      BY <1>1
    <3> HIDE DEF p
    <3> QED BY <3>1 DEF InitialIn
  <2> QED BY <2>1 DEF Sound, At, Tr
<1>6. a.op = "add" /\ a.s = SolverOf(q) /\ a.t = At(Home[q], Start(q)) /\ Solving.op = "solving"
  BY DEF Add, Solving
<1> HIDE DEF a, w
<1>7. \A f \in Elems(w) : f.op = "add" => Sound(sources', f.s, f.t)
  BY <1>2, <1>5, <1>6
<1>8. \A f \in Elems(w) : Flowing(sources', flows', f)
  BY <1>2, <1>6 DEF Flowing
<1>9. InOrder(sources', w)
  BY <1>2, <1>7, OrderPlain
<1> QED
  BY <1>1, <1>2, <1>4, <1>8, <1>9, CaughtStep DEF CaughtInv

LEMMA CaughtSolvers == ASSUME Inv, CaughtInv, Solvers PROVE CaughtInv'
<1>1. ASSUME NEW q \in Roots, Solve(q) PROVE CaughtInv'
  <2>1. StartSolver(q, << >>) /\ q \in Query
        /\ UNCHANGED << icfgVars, trans, callRules, flowVars, graphVars >>
    BY <1>1, QueryAssumption DEF Solve
  <2> QED BY <2>1, CaughtStart
<1>2. ASSUME NEW e \in Raises, Raise(e[1], e[2], e[3]) PROVE CaughtInv'
  <2> DEFINE g == AddEdge(e[1], e[2], e[3])
  <2>1. StartSolver(e[3], << g >>) /\ e[3] \in Query /\ g.op = "addEdge"
        /\ UNCHANGED << icfgVars, trans, callRules, flowVars, graphVars >>
    BY <1>2, QueryAssumption DEF Raise, AddEdge
  <2> HIDE DEF g
  <2> QED BY <2>1, CaughtStart
<1>3. ASSUME NEW s \in Solver, NEW t \in Derived(s), Derive(s, t) PROVE CaughtInv'
  <2> DEFINE a == Add(s, t)
  <2>1. Push(<< a >>) /\ UNCHANGED << sources, trans, flows, callerListeners >>
    BY <1>3 DEF Derive, autVars, flowVars, icfgVars
  <2>2. a.op = "add" /\ Sound(sources, a.s, a.t)
    BY DerivedSound DEF Add
  <2> HIDE DEF a
  <2>3. << a >> \in Seq({a}) /\ Elems(<< a >>) = {a}
    BY ShortCalls
  <2>4. InOrder(sources, << a >>)
    BY <2>2, <2>3, OrderPlain
  <2>5. Flowing(sources, flows, a)
    BY <2>2 DEF Flowing
  <2> QED BY <2>1, <2>3, <2>4, <2>5, CaughtStep DEF CaughtInv
<1>4. ASSUME NEW s \in Solver, NEW x \in Site, ReachCall(s, x) PROVE CaughtInv'
  <2>1. UNCHANGED << stack, sources, trans, flows, callerListeners >>
    BY <1>4 DEF ReachCall, flowVars
  <2> QED BY <2>1 DEF CaughtInv, Caught, Initial
<1>5. ASSUME NEW c \in Resolved, AddCall(c[1], c[2]) PROVE CaughtInv'
  <2> DEFINE a == Callees(c[1], c[2], { s \in Solver : << s, c[1] >> \in calleeListeners })
             b == Callers(c[1], c[2])
  <2>1. Push(<< a, b >>) /\ UNCHANGED << sources, trans, flows, callerListeners >>
    BY <1>5 DEF AddCall, autVars, flowVars
  <2>2. a.op = "callees" /\ b.op = "callers"
    BY DEF Callees, Callers
  <2> HIDE DEF a, b
  <2>3. << a, b >> \in Seq({a, b}) /\ Elems(<< a, b >>) = {a, b}
    BY ShortCalls
  <2>4. \A f \in {a, b} : f.op # "add" /\ Flowing(sources, flows, f)
    BY <2>2 DEF Flowing
  <2> QED BY <2>1, <2>3, <2>4, CaughtCalls
<1> QED
  BY <1>1, <1>2, <1>3, <1>4, <1>5 DEF Solvers

\* The top frame
LEMMA CaughtTop ==
  ASSUME Inv, CaughtInv, stack # << >>
  PROVE  /\ Flowing(sources, flows, Top)
         /\ Top.op = "add" => Sound(sources, Top.s, Top.t)
<1>1. Top \in Elems(stack) /\ Top = stack[1] /\ Len(stack) \in Nat \ {0}
  BY TopOrBelow, Popped DEF Inv, Top
<1> QED BY <1>1 DEF CaughtInv, InOrder

LEMMA CaughtAddTransition == ASSUME Inv, CaughtInv, AddTransition PROVE CaughtInv'
<1> DEFINE a == Heard(Top.s, Top.t)
           b == States(Top.s, Top.t)
<1>1. /\ stack # << >> /\ Top.op = "add"
      /\ UNCHANGED << sources, flows, callerListeners >>
      /\ \/ trans' = trans /\ Replace(<< >>)
         \/ trans' = trans \cup {<< Top.s, Top.t >>} /\ Replace(<< a, b >>)
  BY DEF AddTransition, Running, icfgVars, flowVars
<1>2. Sound(sources, Top.s, Top.t)
  BY <1>1, CaughtTop
<1>3. a.op = "heard" /\ b.op = "states"
  BY DEF Heard, States
<1>4. CASE trans' = trans /\ Replace(<< >>)
  <2>1. << >> \in Seq({1}) /\ Elems(<< >>) = {}
    BY DEF Elems
  <2> QED BY <1>1, <1>4, <2>1, CaughtCalls
<1>5. CASE trans' = trans \cup {<< Top.s, Top.t >>} /\ Replace(<< a, b >>)
  <2>1. \A p \in trans' \ trans : Sound(sources, p[1], p[2]) /\ Heard(p[1], p[2]) = a
    BY <1>2, <1>5
  <2> HIDE DEF a, b
  <2>2. << a, b >> \in Seq({a, b}) /\ Elems(<< a, b >>) = {a, b}
    BY ShortCalls
  <2>3. InOrder(sources, << a, b >>)
    BY <1>3, <2>2, OrderPlain
  <2>4. \A f \in Elems(<< a, b >>) : Flowing(sources, flows, f)
    BY <1>3, <2>2 DEF Flowing
  <2> QED BY <1>1, <1>5, <2>1, <2>2, <2>3, <2>4, CaughtStep DEF CaughtInv
<1> QED BY <1>1, <1>4, <1>5

\* An exit into a declared state makes a flow.
LEMMA CaughtAddFlow == ASSUME Inv, CaughtInv, AddPotentialUnbalancedFlow PROVE CaughtInv'
<1> DEFINE s == Top.s
           t == Top.t
           a == ToSites(s, t, { x \in Site : << s, LabelMethod(t.label), x >> \in permits })
           b == Forcing(s, t)
<1>1. /\ stack # << >> /\ Top.op = "heard"
      /\ UNCHANGED << sources, trans, callerListeners >>
      /\ IF t.label[1] = "exit" /\ Initial(s, t.target)
         THEN /\ flows' = flows \cup {<< s, t >>}
              /\ Replace((IF << s, t >> \in flows THEN << >> ELSE << a >>) \o << b >>)
         ELSE flows' = flows /\ Replace(<< >>)
  BY DEF AddPotentialUnbalancedFlow, Running, icfgVars, autVars
<1>2. /\ flows \subseteq flows' /\ \A p \in sources' : p[2][1] # "entry"
      /\ \A l \in callerListeners' : OfFlow(flows', l)
  BY <1>1 DEF CaughtInv, OfFlow
<1>3. t.label[1] = "exit" /\ InitialIn(sources', s, t.target) => << s, t >> \in flows'
  BY <1>1 DEF Initial, InitialIn
<1>4. /\ a.op = "toSites" /\ a.s = s /\ a.t = t /\ b.op = "force" /\ b.s = s /\ b.t = t
  BY DEF ToSites, Forcing
<1> HIDE DEF a, b
<1>5. PICK fs \in Seq({a, b}) :
        /\ Replace(fs)
        /\ Elems(fs) = {} \/ (Elems(fs) \subseteq {a, b} /\ << s, t >> \in flows')
  <2>1. /\ << >> \in Seq({a, b}) /\ Elems(<< >>) = {}
        /\ << b >> \in Seq({a, b}) /\ Elems(<< b >>) = {b}
        /\ << a, b >> \in Seq({a, b}) /\ Elems(<< a, b >>) = {a, b}
        /\ << >> \o << b >> = << b >> /\ << a >> \o << b >> = << a, b >>
    <3>1. Elems(<< >>) = {} /\ Elems(<< b >>) = {b} /\ Elems(<< a, b >>) = {a, b}
      BY ShortCalls
    <3>2. << >> \o << b >> = << b >>
      BY ShortCalls
    <3>3. << a >> \o << b >> = << a, b >>
      BY ShortCalls
    <3>4. << >> \in Seq({a, b}) /\ << b >> \in Seq({a, b}) /\ << a, b >> \in Seq({a, b})
      OBVIOUS
    <3> QED BY <3>1, <3>2, <3>3, <3>4
  <2>2. CASE ~ (t.label[1] = "exit" /\ Initial(s, t.target))
    BY <1>1, <2>1, <2>2
  <2>3. CASE t.label[1] = "exit" /\ Initial(s, t.target) /\ << s, t >> \in flows
    <3>1. Replace(<< b >>) /\ << s, t >> \in flows'
      BY <1>1, <2>1, <2>3
    <3> QED BY <2>1, <3>1
  <2>4. CASE t.label[1] = "exit" /\ Initial(s, t.target) /\ << s, t >> \notin flows
    <3>1. Replace(<< a, b >>) /\ << s, t >> \in flows'
      BY <1>1, <2>1, <2>4
    <3> QED BY <2>1, <3>1
  <2> QED BY <2>2, <2>3, <2>4
<1>6. \A f \in Elems(fs) : f.op # "add" /\ Flowing(sources', flows', f)
  BY <1>4, <1>5 DEF Flowing
<1>7. InOrder(sources', fs)
  BY <1>6, OrderPlain
<1>8. trans' \ trans = {}
  BY <1>1
<1> QED BY <1>1, <1>2, <1>3, <1>5, <1>6, <1>7, <1>8, CaughtStep

LEMMA CaughtForceFlow == ASSUME Inv, CaughtInv, ForceFlow PROVE CaughtInv'
<1> DEFINE l == Forced(<< Top.s, Top.t >>)
           a == AddCaller(l)
<1>1. /\ stack # << >> /\ Top.op = "force"
      /\ UNCHANGED << sources, trans, flows, callerListeners >>
      /\ Replace(<< >>) \/ Replace(<< a >>)
  BY DEF ForceFlow, Running, icfgVars, autVars, flowVars
<1>2. << Top.s, Top.t >> \in flows
  BY <1>1, CaughtTop DEF Flowing
<1>3. l.solver = Top.s /\ l.t = Top.t
  BY DEF Forced
<1>4. a.op = "addCaller" /\ a.l = l
  BY DEF AddCaller
<1> HIDE DEF l, a
<1>5. a.op # "add" /\ Flowing(sources, flows, a)
  BY <1>2, <1>3, <1>4 DEF Flowing, OfFlow
<1>6. << >> \in Seq({a}) /\ Elems(<< >>) = {} /\ << a >> \in Seq({a}) /\ Elems(<< a >>) = {a}
  <2>1. Elems(<< >>) = {} /\ Elems(<< a >>) = {a}
    BY ShortCalls
  <2> QED BY <2>1
<1> QED BY <1>1, <1>5, <1>6, CaughtCalls

\* The state of a return is declared from that of a flow, and the transition behind
\* the call site follows.
LEMMA CaughtPropagate ==
  ASSUME Inv, FlowsInitial, CaughtInv, PropagateUnbalancedToCallSite PROVE CaughtInv'
<1> DEFINE s == Top.s
           x == Top.site
           a == Add(s, Tr(Fact(FirstHome(s)), << "before", x >>, Return(x)))
           d == Declare(s, Return(x), Top.t.target)
           b == Add(s, Behind(Top.t.target, x, Return(x)))
<1>1. /\ stack # << >> /\ Top.op = "propagate"
      /\ UNCHANGED << sources, trans, flows, callerListeners >>
      /\ Replace(<< >>) \/ Replace(<< a, d, b >>)
  BY DEF PropagateUnbalancedToCallSite, Running, icfgVars, autVars, flowVars
<1>2. << s, Top.t >> \in flows
  BY <1>1, CaughtTop DEF Flowing
<1>3. InitialIn(sources, s, Top.t.target)
  BY <1>2 DEF FlowsInitial, Initial, InitialIn
<1>4. /\ a.op = "add" /\ a.s = s /\ a.t.label[1] = "before"
      /\ d.op = "declare" /\ d.s = s /\ d.state = Return(x) /\ d.parent = Top.t.target
      /\ b.op = "add" /\ b.s = s /\ b.t.target = Return(x) /\ Return(x)[1] # "entry"
  BY DEF Add, Declare, Behind, Tr, Return
<1> HIDE DEF a, d, b
<1>5. CASE Replace(<< >>)
  <2>1. << >> \in Seq({1}) /\ Elems(<< >>) = {}
    BY DEF Elems
  <2> QED BY <1>1, <1>5, <2>1, CaughtCalls
<1>6. CASE Replace(<< a, d, b >>)
  <2> DEFINE w == << a, d, b >>
  <2>1. w \in Seq({a, d, b}) /\ Elems(w) = {a, d, b} /\ Len(w) = 3
        /\ w[1] = a /\ w[2] = d /\ w[3] = b
    <3>1. Elems(w) = {a, d, b}
      BY DEF Elems
    <3> QED BY <3>1
  <2> HIDE DEF w
  <2>2. InOrder(sources, w)
    <3> SUFFICES ASSUME NEW i \in 1 .. 3, w[i].op = "add"
                 PROVE  Sound(sources, w[i].s, w[i].t)
                        \/ (i > 1 /\ Declares(w[i - 1], w[i].s, w[i].t.target))
      BY <2>1 DEF InOrder
    <3>1. CASE i = 1
      BY <1>4, <2>1, <3>1 DEF Sound
    <3>2. CASE i = 2
      BY <1>4, <2>1, <3>2
    <3>3. CASE i = 3
      BY <1>4, <2>1, <3>3 DEF Declares
    <3> QED BY <3>1, <3>2, <3>3
  <2>3. \A f \in Elems(w) : Flowing(sources, flows, f)
    BY <1>3, <1>4, <2>1 DEF Flowing
  <2>4. Replace(w)
    BY <1>6 DEF w
  <2> QED BY <1>1, <2>1, <2>2, <2>3, <2>4, CaughtStep DEF CaughtInv
<1> QED BY <1>1, <1>5, <1>6

LEMMA CaughtToSites == ASSUME Inv, CaughtInv, PropagateToSites PROVE CaughtInv'
<1>1. /\ stack # << >> /\ Top.op = "toSites" /\ Top.op \in Loops
      /\ UNCHANGED << sources, trans, flows, callerListeners >>
  BY DEF PropagateToSites, Running, icfgVars, autVars, flowVars, Loops
<1>2. PICK x \in Top.rest : Take(x, << Propagate(Top.s, x, Top.t) >>)
  BY DEF PropagateToSites
<1> DEFINE a == Propagate(Top.s, x, Top.t)
<1>3. a.op # "add" /\ Flowing(sources, flows, a)
  BY <1>1, CaughtTop DEF Propagate, Flowing
<1>4. Take(x, << a >>)
  BY <1>2
<1> HIDE DEF a
<1>5. << a >> \in Seq({a}) /\ Elems(<< a >>) = {a}
  BY ShortCalls
<1> QED BY <1>1, <1>3, <1>4, <1>5, CaughtLoop

LEMMA CaughtFlows == ASSUME Inv, CaughtInv, PropagateFlows PROVE CaughtInv'
<1>1. /\ stack # << >> /\ Top.op = "flowsTo" /\ Top.op \in Loops
      /\ UNCHANGED << sources, trans, flows, callerListeners >>
  BY DEF PropagateFlows, Running, icfgVars, autVars, flowVars, Loops
<1>2. PICK t \in Top.rest : Take(t, << Propagate(Top.s, Top.site, t) >>)
  BY DEF PropagateFlows
<1> DEFINE a == Propagate(Top.s, Top.site, t)
<1>3. a.op # "add" /\ Flowing(sources, flows, a)
  BY <1>1, CaughtTop DEF Propagate, Flowing
<1>4. Take(t, << a >>)
  BY <1>2
<1> HIDE DEF a
<1>5. << a >> \in Seq({a}) /\ Elems(<< a >>) = {a}
  BY ShortCalls
<1> QED BY <1>1, <1>3, <1>4, <1>5, CaughtLoop

LEMMA CaughtAllow == ASSUME Inv, CaughtInv, AllowUnbalanced PROVE CaughtInv'
<1> DEFINE s == SolverOf(Top.child)
           ts == { f[2] : f \in { f \in flows : f[1] = s /\ LabelMethod(f[2].label) = Top.callee } }
           a == FlowsTo(s, Top.site, ts)
<1>1. /\ stack # << >> /\ Top.op = "allow"
      /\ UNCHANGED << sources, trans, flows, callerListeners >>
      /\ Replace(<< >>) \/ Replace(<< a >>)
  BY DEF AllowUnbalanced, Running, icfgVars, autVars
<1>2. \A t \in ts : << s, t >> \in flows
  <2>1. \A f \in flows : f = << f[1], f[2] >>
    BY DEF Inv, AutomataInv
  <2> QED BY <2>1
<1>3. a.op = "flowsTo" /\ a.s = s /\ a.rest = ts
  BY DEF FlowsTo
<1> HIDE DEF s, ts, a
<1>4. a.op # "add" /\ Flowing(sources, flows, a)
  BY <1>2, <1>3 DEF Flowing
<1>5. << >> \in Seq({a}) /\ Elems(<< >>) = {} /\ << a >> \in Seq({a}) /\ Elems(<< a >>) = {a}
  <2>1. Elems(<< >>) = {} /\ Elems(<< a >>) = {a}
    BY ShortCalls
  <2> QED BY <2>1
<1> QED BY <1>1, <1>4, <1>5, CaughtCalls

\* The parent of what is declared is declared itself.
LEMMA CaughtDeclare == ASSUME Inv, CaughtInv, AddUnbalancedState PROVE CaughtInv'
<1> DEFINE new == { << Top.s, Top.state, p[3] >> :
                      p \in { p \in sources : p[1] = Top.s /\ p[2] = Top.parent } }
<1>1. /\ stack # << >> /\ Top.op = "declare" /\ Replace(<< >>)
      /\ UNCHANGED << trans, flows, callerListeners >> /\ sources' = sources \cup new
  BY DEF AddUnbalancedState, Running, icfgVars, flowVars
<1>2. Top.state[1] # "entry" /\ InitialIn(sources, Top.s, Top.parent)
  BY <1>1, CaughtTop DEF Flowing
<1>3. InitialIn(sources', Top.s, Top.state)
  <2>1. PICK p \in sources : p[1] = Top.s /\ p[2] = Top.parent
    BY <1>2 DEF InitialIn
  <2> DEFINE r == << Top.s, Top.state, p[3] >>
  <2>2. r \in sources' /\ r[1] = Top.s /\ r[2] = Top.state
    BY <1>1, <2>1
  <2> HIDE DEF r
  <2> QED BY <2>2 DEF InitialIn
<1>4. \A p \in sources' : p[2][1] # "entry"
  BY <1>1, <1>2 DEF CaughtInv
<1> HIDE DEF new
<1>5. /\ stack' = Tail(stack) /\ stack \in Seq(Frame)
      /\ Elems(stack) = {Top} \cup Elems(stack') /\ Top = stack[1]
  <2>1. Tail(stack) \in Seq(Frame) /\ Elems(stack) = {Top} \cup Elems(Tail(stack)) /\ Top = stack[1]
    BY <1>1, Popped, TopOrBelow DEF Inv, Top
  <2> HIDE DEF Frame
  <2>2. << >> \o Tail(stack) = Tail(stack)
    BY <2>1, NoCalls
  <2> QED BY <1>1, <2>1, <2>2 DEF Replace, Inv
<1>6. InOrder(sources', stack')
  <2>1. InOrder(sources', stack)
    BY <1>1, FlowingGrows DEF CaughtInv
  <2>2. ASSUME Len(stack) > 1, stack[2].op = "add" PROVE Sound(sources', stack[2].s, stack[2].t)
    <3>1. 2 \in 1 .. Len(stack) /\ 2 - 1 = 1
      BY <1>5, <2>2
    <3>2. Sound(sources', stack[2].s, stack[2].t) \/ Declares(Top, stack[2].s, stack[2].t.target)
      BY <1>5, <2>1, <2>2, <3>1 DEF InOrder
    <3> QED BY <1>3, <3>2 DEF Declares, Sound
  <2> HIDE DEF Frame
  <2> QED BY <1>1, <1>5, <2>1, <2>2, OrderPopped
<1>7. \A f \in Elems(stack') : Flowing(sources', flows', f)
  BY <1>1, <1>5, FlowingGrows DEF CaughtInv
<1>8. ASSUME NEW p \in trans PROVE Sound(sources', p[1], p[2]) /\ Caught(p)'
  <2>1. Sound(sources, p[1], p[2]) /\ Caught(p) /\ Sound(sources', p[1], p[2])
    <3>1. Sound(sources, p[1], p[2]) /\ Caught(p)
      BY DEF CaughtInv
    <3>2. sources \subseteq sources' /\ flows \subseteq flows
      BY <1>1
    <3> QED BY <3>1, <3>2, FlowingGrows
  <2>2. SUFFICES ASSUME p[2].label[1] = "exit", InitialIn(sources', p[1], p[2].target)
                 PROVE  p \in flows' \/ Heard(p[1], p[2]) \in Elems(stack')
    BY <2>1 DEF Caught, Initial, InitialIn
  <2>3. p[2].target[1] # "entry"
    BY <1>4, <2>2 DEF InitialIn
  <2>4. Initial(p[1], p[2].target)
    BY <2>1, <2>2, <2>3 DEF Sound, Initial, InitialIn
  <2>5. p \in flows \/ Heard(p[1], p[2]) \in Elems(stack)
    BY <2>1, <2>2, <2>4 DEF Caught
  <2>6. Heard(p[1], p[2]) # Top
    BY <1>1 DEF Heard
  <2> QED BY <1>1, <1>5, <2>5, <2>6
<1> QED BY <1>1, <1>4, <1>6, <1>7, <1>8 DEF CaughtInv

-----------------------------------------------------------------------------
LEMMA CaughtAddCaller == ASSUME Inv, CaughtInv, AddCallerListener PROVE CaughtInv'
<1> DEFINE a == CallersKnown(Top.l, { x \in Site : << x, Top.l.callee >> \in graph })
<1>1. /\ stack # << >> /\ Top.op = "addCaller" /\ Replace(<< a >>)
      /\ UNCHANGED << sources, trans, flows >> /\ callerListeners' = callerListeners \cup {Top.l}
  BY DEF AddCallerListener, Running, autVars, flowVars
<1>2. OfFlow(flows, Top.l)
  BY <1>1, CaughtTop DEF Flowing
<1>3. a.op = "callersKnown" /\ a.l = Top.l
  BY DEF CallersKnown
<1> HIDE DEF a
<1>4. a.op # "add" /\ Flowing(sources, flows, a)
  BY <1>2, <1>3 DEF Flowing
<1>5. << a >> \in Seq({a}) /\ Elems(<< a >>) = {a}
  BY ShortCalls
<1>6. InOrder(sources, << a >>)
  BY <1>4, <1>5, OrderPlain
<1> QED BY <1>1, <1>2, <1>4, <1>5, <1>6, CaughtStep DEF CaughtInv

LEMMA CaughtOnCallerAdded ==
  ASSUME NEW l, OfFlow(flows, l), NEW x
  PROVE  OnCallerAdded(l, x).op # "add" /\ Flowing(sources, flows, OnCallerAdded(l, x))
<1>1. CASE l.kind = "force"
  <2> DEFINE a == OnCallerAdded(l, x)
  <2>1. a.op = "propagate" /\ a.s = l.solver /\ a.t = l.t
    BY <1>1 DEF OnCallerAdded, Propagate
  <2> HIDE DEF a
  <2>2. a.op # "add" /\ Flowing(sources, flows, a)
    BY <1>1, <2>1 DEF OfFlow, Flowing
  <2> QED BY <2>2 DEF a
<1>2. CASE l.kind # "force"
  <2> DEFINE a == OnCallerAdded(l, x)
  <2>1. a.op = "allow"
    BY <1>2 DEF OnCallerAdded, Allow
  <2> HIDE DEF a
  <2>2. a.op # "add" /\ Flowing(sources, flows, a)
    BY <2>1 DEF Flowing
  <2> QED BY <2>2 DEF a
<1> QED BY <1>1, <1>2

LEMMA CaughtTellCallers ==
  ASSUME Inv, CaughtInv, TellKnownCallers \/ TellCallerListeners PROVE CaughtInv'
<1>1. /\ stack # << >> /\ Top.op \in {"callersKnown", "tellCallers"} /\ Top.op \in Loops
      /\ UNCHANGED << sources, trans, flows, callerListeners >>
  BY DEF TellKnownCallers, TellCallerListeners, Running, icfgVars, autVars, flowVars, Loops
<1>2. Flowing(sources, flows, Top)
  BY <1>1, CaughtTop
<1>3. PICK l, x, y : OfFlow(flows, l) /\ Take(y, << OnCallerAdded(l, x) >>)
  <2>1. CASE TellKnownCallers
    <3>1. PICK x \in Top.rest : Take(x, << OnCallerAdded(Top.l, x) >>)
      BY <2>1 DEF TellKnownCallers
    <3>2. OfFlow(flows, Top.l)
      BY <1>2, <2>1 DEF TellKnownCallers, Running, Flowing
    <3> QED BY <3>1, <3>2
  <2>2. CASE TellCallerListeners
    <3>1. PICK l \in Top.rest : Take(l, << OnCallerAdded(l, Top.site) >>)
      BY <2>2 DEF TellCallerListeners
    <3>2. OfFlow(flows, l)
      BY <1>2, <2>2, <3>1 DEF TellCallerListeners, Running, Flowing
    <3> QED BY <3>1, <3>2
  <2> QED BY <2>1, <2>2
<1> DEFINE a == OnCallerAdded(l, x)
<1>4. a.op # "add" /\ Flowing(sources, flows, a)
  BY <1>3, CaughtOnCallerAdded
<1>5. Take(y, << a >>)
  BY <1>3
<1> HIDE DEF a
<1>6. << a >> \in Seq({a}) /\ Elems(<< a >>) = {a}
  BY ShortCalls
<1> QED BY <1>1, <1>4, <1>5, <1>6, CaughtLoop

LEMMA CaughtCallers == ASSUME Inv, CaughtInv, CallersAdded PROVE CaughtInv'
<1> DEFINE ls == { l \in callerListeners : l.callee = Top.callee }
           a == TellCallers(Top.site, ls)
<1>1. /\ stack # << >> /\ Top.op = "callers" /\ Replace(<< a >>)
      /\ UNCHANGED << sources, trans, flows, callerListeners >>
  BY DEF CallersAdded, Running, icfgVars, autVars, flowVars
<1>2. \A l \in ls : OfFlow(flows, l)
  BY DEF CaughtInv
<1>3. a.op = "tellCallers" /\ a.rest = ls
  BY DEF TellCallers
<1> HIDE DEF a, ls
<1>4. a.op # "add" /\ Flowing(sources, flows, a)
  BY <1>2, <1>3 DEF Flowing
<1>5. << a >> \in Seq({a}) /\ Elems(<< a >>) = {a}
  BY ShortCalls
<1> QED BY <1>1, <1>4, <1>5, CaughtCalls

LEMMA CaughtNoParent == ASSUME Inv, CaughtInv, NoParentEdge PROVE CaughtInv'
<1> DEFINE c == Context(Top.l.child, FactMethod(Top.l.parent, Top.l.t.target))
           a == AddCaller(c)
<1>1. /\ stack # << >> /\ Top.op = "noParent" /\ (Replace(<< >>) \/ Replace(<< a >>))
      /\ UNCHANGED << sources, trans, flows, callerListeners >>
  BY DEF NoParentEdge, Running, icfgVars, autVars, flowVars
<1>2. c.kind = "context"
  BY DEF Context
<1>3. a.op = "addCaller" /\ a.l = c
  BY DEF AddCaller
<1> HIDE DEF a, c
<1>4. a.op # "add" /\ Flowing(sources, flows, a)
  BY <1>2, <1>3 DEF Flowing, OfFlow
<1>5. << >> \in Seq({a}) /\ Elems(<< >>) = {} /\ << a >> \in Seq({a}) /\ Elems(<< a >>) = {a}
  <2>1. Elems(<< >>) = {} /\ Elems(<< a >>) = {a}
    BY ShortCalls
  <2> QED BY <2>1
<1> QED BY <1>1, <1>4, <1>5, CaughtCalls

\* Calls and loops that no flow is carried by
Idle == {"states", "tell", "allow", "callees", "listen", "replay", "ask", "watch",
         "noParent", "edgesKnown", "tellEdge"}

LEMMA CaughtIdle ==
  ASSUME Inv, CaughtInv, stack # << >>, Top.op \notin {"declare", "heard"},
         UNCHANGED << sources, trans, flows, callerListeners >>,
         NEW a, a.op \in Idle, NEW b, b.op \in Idle,
         Replace(<< >>) \/ Replace(<< a >>) \/ Replace(<< a, b >>)
  PROVE  CaughtInv'
<1>1. \A f \in {a, b} : f.op # "add" /\ Flowing(sources, flows, f)
  BY DEF Flowing, Idle
<1>2. /\ << >> \in Seq({a, b}) /\ Elems(<< >>) = {}
      /\ << a >> \in Seq({a, b}) /\ Elems(<< a >>) = {a}
      /\ << a, b >> \in Seq({a, b}) /\ Elems(<< a, b >>) = {a, b}
  <2>1. Elems(<< >>) = {} /\ Elems(<< a >>) = {a} /\ Elems(<< a, b >>) = {a, b}
    BY ShortCalls
  <2> QED BY <2>1
<1>3. PICK fs \in Seq({a, b}) : Replace(fs) /\ Elems(fs) \subseteq {a, b}
  BY <1>2
<1> QED BY <1>1, <1>3, CaughtCalls

\* ... and loops
LEMMA CaughtIdleLoop ==
  ASSUME Inv, CaughtInv, stack # << >>, Top.op \in Loops,
         UNCHANGED << sources, trans, flows, callerListeners >>,
         NEW U, NEW fs \in Seq(U), \A f \in Elems(fs) : f.op \in Idle,
         NEW x, Take(x, fs)
  PROVE  CaughtInv'
<1>1. \A f \in Elems(fs) : f.op # "add" /\ Flowing(sources, flows, f)
  BY DEF Flowing, Idle
<1> QED BY <1>1, CaughtLoop

LEMMA CaughtDeliver == ASSUME Inv, CaughtInv, Deliver PROVE CaughtInv'
<1>1. /\ stack # << >> /\ Top.op \in Loops
      /\ UNCHANGED << sources, trans, flows, callerListeners >>
  BY DEF Deliver, Running, icfgVars, autVars, flowVars, Loops
<1>2. PICK l, t, x : Take(x, OnOutTransitionAdded(l, t))
  BY DEF Deliver
<1> DEFINE a == Allow(l.child, l.callee, t.label[2])
           b == Listen(Source(t.target, l.parent, l.child, LabelMethod(t.label)))
           c == Ask(l, t)
           fs == OnOutTransitionAdded(l, t)
           V == {a, b, c}
<1>3. a.op \in Idle /\ b.op \in Idle /\ c.op \in Idle
  BY DEF Allow, Listen, Ask, Idle
<1>4. fs = (IF t.start \in Generated /\ l.callee # None THEN << a >> ELSE << >>) \o << b, c >>
  BY DEF OnOutTransitionAdded
<1> HIDE DEF a, b, c, fs
<1>5. fs \in Seq(V) /\ Elems(fs) \subseteq V
  <2> DEFINE w == << b, c >>
  <2>1. w \in Seq(V) /\ Elems(w) = {b, c}
    <3>1. Elems(<< b, c >>) = {b, c}
      BY ShortCalls
    <3> QED BY <3>1
  <2>2. << a >> \in Seq(V) /\ Elems(<< a >>) = {a} /\ << >> \in Seq(V) /\ Elems(<< >>) = {}
    <3>1. Elems(<< >>) = {} /\ Elems(<< a >>) = {a}
      BY ShortCalls
    <3> QED BY <3>1
  <2>3. PICK u \in Seq(V) : Elems(u) \subseteq {a} /\ fs = u \o w
    BY <1>4, <2>2
  <2> HIDE DEF w
  <2>4. fs \in Seq(V) /\ Elems(fs) = Elems(u) \cup Elems(w)
    <3> HIDE DEF V
    <3> QED BY <2>1, <2>3, ConcatElems
  <2> QED BY <2>1, <2>3, <2>4
<1>6. \A f \in Elems(fs) : f.op \in Idle
  BY <1>3, <1>5
<1>7. Take(x, fs)
  BY <1>2 DEF fs
<1> HIDE DEF V
<1> QED BY <1>1, <1>5, <1>6, <1>7, CaughtIdleLoop

LEMMA CaughtLoops ==
  ASSUME Inv, CaughtInv, TellCalleeListeners \/ TellEdgeListeners \/ TellKnownEdges
  PROVE  CaughtInv'
<1>1. /\ stack # << >> /\ Top.op \in Loops
      /\ UNCHANGED << sources, trans, flows, callerListeners >>
  BY DEF TellCalleeListeners, TellEdgeListeners, TellKnownEdges, Running, icfgVars, autVars,
         flowVars, Loops
<1>2. PICK x, l, e : Take(x, << >>) \/ Take(x, << EdgeAdded(l, e) >>)
  BY DEF TellCalleeListeners, TellEdgeListeners, TellKnownEdges
<1> DEFINE a == EdgeAdded(l, e)
<1>3. a.op \in Idle
  BY DEF EdgeAdded, Listen, Idle
<1>4. Take(x, << >>) \/ Take(x, << a >>)
  BY <1>2
<1> HIDE DEF a
<1>5. << >> \in Seq({a}) /\ Elems(<< >>) = {} /\ << a >> \in Seq({a}) /\ Elems(<< a >>) = {a}
  <2>1. Elems(<< >>) = {} /\ Elems(<< a >>) = {a}
    BY ShortCalls
  <2> QED BY <2>1
<1>6. PICK fs \in Seq({a}) : Take(x, fs) /\ \A f \in Elems(fs) : f.op \in Idle
  BY <1>3, <1>4, <1>5
<1> QED BY <1>1, <1>6, CaughtIdleLoop

LEMMA CaughtQueryGraph ==
  ASSUME Inv, CaughtInv,
         AddQueryEdge \/ RegisterSourceListener \/ ServeStates \/ AskUnbalanced
         \/ RegisterEdgeListener \/ EndLoop
  PROVE  CaughtInv'
<1>1. /\ stack # << >> /\ Top.op \notin {"declare", "heard"}
      /\ UNCHANGED << sources, trans, flows, callerListeners >>
  BY DEF AddQueryEdge, RegisterSourceListener, ServeStates, AskUnbalanced, RegisterEdgeListener,
         EndLoop, Running, icfgVars, autVars, flowVars, Loops
<1>2. ASSUME AddQueryEdge PROVE CaughtInv'
  <2> DEFINE a == TellEdge(Top.e, { l \in edgeListeners : l.parent = Top.e[3] })
             b == Listen(Source(Fact(Top.e[2]), Top.e[1], Top.e[3], None))
  <2>1. Replace((IF Top.e \in edges THEN << >> ELSE << a >>) \o << b >>)
    BY <1>2 DEF AddQueryEdge
  <2>2. a.op \in Idle /\ b.op \in Idle
    BY DEF TellEdge, Listen, Idle
  <2> HIDE DEF a, b
  <2>3. << >> \o << b >> = << b >>
    BY ShortCalls
  <2>4. << a >> \o << b >> = << a, b >>
    BY ShortCalls
  <2>5. Replace(<< b >>) \/ Replace(<< a, b >>)
    BY <2>1, <2>3, <2>4
  <2>6. CASE Replace(<< b >>)
    BY <1>1, <2>2, <2>6, CaughtIdle
  <2>7. CASE Replace(<< a, b >>)
    BY <1>1, <2>2, <2>7, CaughtIdle
  <2> QED BY <2>5, <2>6, <2>7
<1>3. ASSUME ~ AddQueryEdge PROVE CaughtInv'
  <2>1. \E a : a.op \in Idle /\ (Replace(<< >>) \/ Replace(<< a >>))
    <3> DEFINE replay == Replay(Top.l, { t \in Of(SolverOf(Top.l.parent)) : t.start = Top.l.state })
               tell == Tell(Top.s, Top.t, { l \in sourceListeners :
                              SolverOf(l.parent) = Top.s /\ l.state = Top.t.start })
               watch == Watch(Unbalanced(Top.l.child, Top.l.parent, Top.t))
               known == EdgesKnown(Top.l, { e \in edges : e[3] = Top.l.parent })
               none == NoParent(Top.l)
    <3>1. /\ replay.op \in Idle /\ tell.op \in Idle /\ watch.op \in Idle /\ known.op \in Idle
          /\ none.op \in Idle
      BY DEF Replay, Tell, Watch, EdgesKnown, NoParent, Idle
    <3>2. \/ Replace(<< >>) \/ Replace(<< replay >>) \/ Replace(<< tell >>)
          \/ Replace(<< watch >>) \/ Replace(<< known >>) \/ Replace(<< none >>)
      <4>1. RegisterSourceListener => Replace(<< >>) \/ Replace(<< replay >>)
        BY DEF RegisterSourceListener
      <4>2. ServeStates => Replace(<< tell >>)
        BY DEF ServeStates
      <4>3. AskUnbalanced => Replace(<< >>) \/ Replace(<< watch >>)
        BY DEF AskUnbalanced
      <4>4. RegisterEdgeListener => Replace(<< >>) \/ Replace(<< known >>) \/ Replace(<< none >>)
        BY DEF RegisterEdgeListener
      <4>5. EndLoop => Replace(<< >>)
        BY DEF EndLoop
      <4> HIDE DEF replay, tell, watch, known, none
      <4> QED BY <1>3, <4>1, <4>2, <4>3, <4>4, <4>5
    <3> HIDE DEF replay, tell, watch, known, none
    <3> QED BY <3>1, <3>2
  <2>2. PICK a : a.op \in Idle /\ (Replace(<< >>) \/ Replace(<< a >>))
    BY <2>1
  <2> QED BY <1>1, <2>2, CaughtIdle
<1> QED BY <1>2, <1>3

LEMMA NextCaught == ASSUME Inv, FlowsInitial, CaughtInv, [Next]_vars PROVE CaughtInv'
<1>1. CASE Solvers
  BY <1>1, CaughtSolvers
<1>2. CASE Engine
  BY <1>2, CaughtAddTransition, CaughtAddFlow, CaughtForceFlow, CaughtToSites, CaughtAllow,
     CaughtFlows, CaughtPropagate, CaughtDeclare, CaughtAddCaller, CaughtTellCallers,
     CaughtCallers, CaughtNoParent, CaughtDeliver, CaughtLoops, CaughtQueryGraph
  DEF Engine
<1>3. CASE UNCHANGED vars
  BY <1>3 DEF vars, autVars, flowVars, icfgVars, CaughtInv, Caught, Initial
<1> QED BY <1>1, <1>2, <1>3 DEF Next

LEMMA Catches == Spec => [](Inv /\ ReturnInv /\ CaughtInv)
<1>1. Init => ReturnInv
  BY DEF Init, ReturnInv, FlowsInitial, Meets
<1>2. Init => CaughtInv
  <2> SUFFICES ASSUME Init PROVE CaughtInv
    OBVIOUS
  <2>1. stack = << >> /\ sources = {} /\ trans = {} /\ callerListeners = {}
    BY DEF Init
  <2>2. Elems(<< >>) = {}
    BY DEF Elems
  <2> QED BY <2>1, <2>2 DEF CaughtInv, InOrder
<1>3. Inv /\ ReturnInv /\ [Next]_vars => ReturnInv'
  BY NextReturns
<1>4. Inv /\ ReturnInv /\ CaughtInv /\ [Next]_vars => CaughtInv'
  BY NextCaught DEF ReturnInv
<1> QED
  BY Inductive, <1>1, <1>2, <1>3, <1>4, PTL DEF Spec

(* In the end every flow that reached an exit with a target that is        *)
(* declared unbalanced by then has been taken for an unbalanced flow.  The *)
(* listener asks once only, and flows run ahead while a return is made, but *)
(* nothing leads from the state of a return before it is declared, in any   *)
(* nesting of the calls (UnbalancedListener.onWeightAdded,                  *)
(* AbstractBoomerangSolver.propagateUnbalancedToCallSite).                  *)
THEOREM AllCaught == Spec => []QuietCaught
<1>1. CaughtInv => QuietCaught
  <2> SUFFICES ASSUME CaughtInv, stack = << >>, NEW p \in trans, p[2].label[1] = "exit",
                      Initial(p[1], p[2].target)
               PROVE  p \in flows
    BY DEF QuietCaught
  <2>1. Elems(<< >>) = {}
    BY DEF Elems
  <2> QED BY <2>1 DEF CaughtInv, Caught
<1> QED BY <1>1, Catches, PTL

-----------------------------------------------------------------------------
(* Permissions come from contexts.  K stands for a set of contexts that is *)
(* closed under what a query's contexts go on in.                          *)

\* m is where the automata end that a context of c leaves.
Rooted(K, c, m) ==
  /\ c \in Backward
  /\ \E l \in K, p \in trans :
       l.child = c /\ LeavesBy(l, p) /\ m = FactMethod(l.parent, p[2].target)
\* A context of c passes call site x out of m.
Called(K, c, m, x) ==
  \E l \in K, p \in trans :
    l.child = c /\ l.callee = m /\ l.state \in Generated /\ Climbs(l, p) /\ p[2].label[2] = x
Allowed(K, c, m, x) == Called(K, c, m, x) \/ (Rooted(K, c, m) /\ << x, m >> \in graph)
Justified(K, p) ==
  p[2] \notin Excluded /\ \E c \in solved : p[1] = SolverOf(c) /\ Allowed(K, c, p[2], p[3])

\* A context of the child leaves the parent by the listener's transition.
OfContext(K, l) ==
  \E k \in K, p \in trans :
    k.child = l.child /\ k.parent = l.parent /\ LeavesBy(k, p) /\ p[2] = l.t
OfCaller(K, l) == l.kind = "context" => Rooted(K, l.child, l.callee)

\* What is on the stack is about contexts of K.
Climbing(K, f) ==
  /\ f.op \in {"listen", "replay", "ask"} => f.l \in K
  /\ f.op = "ask" => f.t.start = f.l.state
  /\ f.op = "tell" => f.rest \subseteq K
  /\ f.op \in {"watch", "noParent", "edgesKnown"} => OfContext(K, f.l)
  /\ f.op = "edgesKnown" => \A e \in f.rest : e \in edges /\ e[3] = f.l.parent
  /\ f.op = "tellEdge" =>
       f.e \in edges /\ \A l \in f.rest : OfContext(K, l) /\ l.parent = f.e[3]
  /\ f.op = "allow" => Allowed(K, f.child, f.callee, f.site)
  /\ f.op \in {"addCaller", "callersKnown"} => OfCaller(K, f.l)
  /\ f.op = "tellCallers" => \A l \in f.rest : OfCaller(K, l)

Within(K) ==
  /\ sourceListeners \subseteq K
  /\ \A l \in edgeListeners : OfContext(K, l)
  /\ \A l \in callerListeners : OfCaller(K, l)
  /\ \A p \in permits : Justified(K, p)
  /\ \A f \in Elems(stack) : Climbing(K, f)

WithinInv == \A K : Contexts(K) => Within(K)

\* The tables only grow, and the first root query stays.
Keeps ==
  /\ graph \subseteq graph' /\ trans \subseteq trans' /\ sources \subseteq sources'
  /\ edges \subseteq edges' /\ solved \subseteq solved'
  /\ rootQuery # None => rootQuery' = rootQuery

LEMMA LeavesKept ==
  ASSUME Inv, Keeps, NEW k, NEW p \in trans
  PROVE  /\ p \in trans' /\ (Climbs(k, p) => Climbs(k, p)')
         /\ LeavesBy(k, p) =>
              LeavesBy(k, p)' /\ FactMethod(k.parent, p[2].target)' = FactMethod(k.parent, p[2].target)
<1>1. p \in trans' /\ (Climbs(k, p) => Climbs(k, p)')
  BY DEF Keeps, Climbs
<1>2. LeavesBy(k, p) => LeavesBy(k, p)'
  BY DEF Keeps, LeavesBy, Climbs, Initial
<1>3. Climbs(k, p) => FactMethod(k.parent, p[2].target)' = FactMethod(k.parent, p[2].target)
  <2>1. Climbs(k, p) => SolverOf(k.parent) \in Used
    BY DEF Climbs, Inv, AutomataInv
  <2>2. SolverOf(k.parent) \in Used => FirstHome(SolverOf(k.parent))' = FirstHome(SolverOf(k.parent))
    BY DEF Used, Keeps, FirstHome, SolverOf
  <2> QED BY <2>1, <2>2 DEF FactMethod, SolverOf
<1> QED BY <1>1, <1>2, <1>3 DEF LeavesBy

LEMMA ContextsKept ==
  ASSUME Keeps, NEW K, Contexts(K)' PROVE Contexts(K)
  BY DEF Keeps, Contexts, LeavesBy, Climbs, Initial

LEMMA RootedKept ==
  ASSUME Inv, Keeps, NEW K, NEW c, NEW m, Rooted(K, c, m) PROVE Rooted(K, c, m)'
<1>1. PICK l \in K, p \in trans :
        l.child = c /\ LeavesBy(l, p) /\ m = FactMethod(l.parent, p[2].target)
  BY DEF Rooted
<1>2. p \in trans' /\ LeavesBy(l, p)' /\ m = FactMethod(l.parent, p[2].target)'
  BY <1>1, LeavesKept
<1> QED BY <1>1, <1>2 DEF Rooted

LEMMA AllowedKept ==
  ASSUME Inv, Keeps, NEW K, NEW c, NEW m, NEW x, Allowed(K, c, m, x) PROVE Allowed(K, c, m, x)'
<1>1. ASSUME Called(K, c, m, x) PROVE Called(K, c, m, x)'
  <2>1. PICK l \in K, p \in trans :
          l.child = c /\ l.callee = m /\ l.state \in Generated /\ Climbs(l, p) /\ p[2].label[2] = x
    BY <1>1 DEF Called
  <2>2. p \in trans' /\ Climbs(l, p)'
    BY <2>1, LeavesKept
  <2> QED BY <2>1, <2>2 DEF Called
<1>2. << x, m >> \in graph => << x, m >> \in graph'
  BY DEF Keeps
<1> QED BY <1>1, <1>2, RootedKept DEF Allowed

LEMMA OfContextKept ==
  ASSUME Inv, Keeps, NEW K, NEW l, OfContext(K, l) PROVE OfContext(K, l)'
<1>1. PICK k \in K, p \in trans :
        k.child = l.child /\ k.parent = l.parent /\ LeavesBy(k, p) /\ p[2] = l.t
  BY DEF OfContext
<1>2. p \in trans' /\ LeavesBy(k, p)'
  BY <1>1, LeavesKept
<1> QED BY <1>1, <1>2 DEF OfContext

LEMMA ClimbingKept ==
  ASSUME Inv, Keeps, NEW K, NEW f, Climbing(K, f) PROVE Climbing(K, f)'
<1>1. \A l : OfContext(K, l) => OfContext(K, l)'
  BY OfContextKept
<1>2. \A l : OfCaller(K, l) => OfCaller(K, l)'
  BY RootedKept DEF OfCaller
<1>3. \A c, m, x : Allowed(K, c, m, x) => Allowed(K, c, m, x)'
  BY AllowedKept
<1>4. edges \subseteq edges'
  BY DEF Keeps
<1> QED BY <1>1, <1>2, <1>3, <1>4 DEF Climbing

LEMMA JustifiedKept ==
  ASSUME Inv, Keeps, NEW K, NEW p, Justified(K, p) PROVE Justified(K, p)'
<1>1. PICK c \in solved : p[1] = SolverOf(c) /\ Allowed(K, c, p[2], p[3])
  BY DEF Justified
<1>2. c \in solved' /\ Allowed(K, c, p[2], p[3])'
  BY <1>1, AllowedKept DEF Keeps
<1>3. p[2] \notin Excluded
  BY DEF Justified
<1> QED BY <1>1, <1>2, <1>3 DEF Justified, SolverOf

\* The calls of a step come on top.
LEMMA NewCalls ==
  ASSUME Inv, NEW U, NEW fs \in Seq(U), Push(fs) \/ (stack # << >> /\ Replace(fs))
  PROVE  /\ Elems(stack') \subseteq Elems(fs) \cup Elems(stack)
         /\ Elems(fs) \subseteq Elems(stack')
<1> DEFINE T == Frame \cup U
           r == IF Push(fs) THEN stack ELSE Tail(stack)
<1>1. /\ stack \in Seq(T) /\ fs \in Seq(T)
      /\ stack # << >> => Tail(stack) \in Seq(T) /\ Elems(Tail(stack)) \subseteq Elems(stack)
  <2>1. \A A, B : A \subseteq B => Seq(A) \subseteq Seq(B)
    OBVIOUS
  <2>2. stack \in Seq(T) /\ fs \in Seq(T)
    BY <2>1 DEF Inv
  <2> HIDE DEF T
  <2> QED BY <2>2, Popped, TopOrBelow
<1>2. stack' = fs \o r /\ r \in Seq(T) /\ Elems(r) \subseteq Elems(stack)
  BY <1>1 DEF Push, Replace
<1> HIDE DEF T, r
<1> QED BY <1>1, <1>2, ConcatElems

LEMMA WithinStep ==
  ASSUME Inv, Keeps, NEW K, Within(K), NEW U, NEW fs \in Seq(U),
         Push(fs) \/ (stack # << >> /\ Replace(fs)),
         sourceListeners' \subseteq sourceListeners \cup K,
         \A l \in edgeListeners' \ edgeListeners : OfContext(K, l)',
         \A l \in callerListeners' \ callerListeners : OfCaller(K, l)',
         \A p \in permits' \ permits : Justified(K, p)',
         \A f \in Elems(fs) : Climbing(K, f)'
  PROVE  Within(K)'
<1>1. \A l \in edgeListeners' : OfContext(K, l)'
  BY OfContextKept DEF Within
<1>2. \A l \in callerListeners' : OfCaller(K, l)'
  BY RootedKept DEF Within, OfCaller
<1>3. \A p \in permits' : Justified(K, p)'
  BY JustifiedKept DEF Within
<1>4. \A f \in Elems(stack') : Climbing(K, f)'
  BY NewCalls, ClimbingKept DEF Within
<1>5. (sourceListeners \subseteq K)'
  BY DEF Within
<1> QED BY <1>1, <1>2, <1>3, <1>4, <1>5 DEF Within

\* The tables the contexts are about stay as they are.
LEMMA WithinCalls ==
  ASSUME Inv, Keeps, NEW K, Within(K), NEW U, NEW fs \in Seq(U),
         Push(fs) \/ (stack # << >> /\ Replace(fs)),
         UNCHANGED << sourceListeners, edgeListeners, callerListeners, permits >>,
         \A f \in Elems(fs) : Climbing(K, f)'
  PROVE  Within(K)'
<1>1. /\ sourceListeners' = sourceListeners /\ edgeListeners' = edgeListeners
      /\ callerListeners' = callerListeners /\ permits' = permits
  OBVIOUS
<1> QED BY <1>1, WithinStep

LEMMA WithinLoop ==
  ASSUME Inv, Keeps, NEW K, Within(K), stack # << >>, Top.op \in Loops,
         NEW U, NEW fs \in Seq(U), NEW x, Take(x, fs),
         UNCHANGED << sourceListeners, edgeListeners, callerListeners, permits >>,
         \A f \in Elems(fs) : Climbing(K, f)'
  PROVE  Within(K)'
<1> PICK top : top = Top
  OBVIOUS
<1> DEFINE g == [top EXCEPT !.rest = @ \ {x}]
<1>1. Top \in Frame /\ Climbing(K, top)
  <2>1. Top \in Elems(stack)
    BY TopOrBelow DEF Inv, Top
  <2> QED BY <2>1, TopFrame DEF Inv, Within
<1>2. /\ g.op = top.op /\ g.rest \subseteq top.rest
      /\ top.op \in {"callersKnown", "replay", "edgesKnown"} => g.l = top.l
      /\ top.op = "tellEdge" => g.e = top.e
  BY TopFrame DEF Inv, Loops, TellFrame, ReplayFrame, ToSitesFrame, FlowsToFrame, CallersKnownFrame,
     CalleesFrame, TellCallersFrame, EdgesKnownFrame, TellEdgeFrame
<1> HIDE DEF g
<1>3. Climbing(K, g)'
  <2>1. Climbing(K, top)'
    BY <1>1, ClimbingKept
  <2> QED BY <1>2, <2>1 DEF Climbing, Loops
<1> DEFINE w == fs \o << g >>
           V == U \cup {g}
<1>4. w \in Seq(V) /\ Elems(w) = Elems(fs) \cup {g}
  <2>1. \A A, B : A \subseteq B => Seq(A) \subseteq Seq(B)
    OBVIOUS
  <2>2. fs \in Seq(V) /\ << g >> \in Seq(V)
    BY <2>1
  <2>3. Elems(<< g >>) = {g}
    BY ShortCalls
  <2> HIDE DEF V
  <2>4. Elems(w) = Elems(fs) \cup Elems(<< g >>)
    BY <2>2, ConcatElems
  <2>5. w \in Seq(V)
    BY <2>2
  <2> QED BY <2>3, <2>4, <2>5
<1>5. Replace(w)
  BY DEF Take, g
<1> HIDE DEF w, V
<1>6. \A f \in Elems(w) : Climbing(K, f)'
  BY <1>3, <1>4
<1> QED BY <1>4, <1>5, <1>6, WithinCalls

LEMMA JoinedCalls ==
  ASSUME NEW a, NEW b, NEW c
  PROVE  /\ << a >> \o << b >> = << a, b >> /\ << a >> \o << b, c >> = << a, b, c >>
         /\ << a, b >> \o << c >> = << a, b, c >>
<1>1. << a >> \o << b >> = << a, b >>
  <2> DEFINE u == << a >> \o << b >>
             v == << a, b >>
  <2>1. u \in Seq({a, b, c}) /\ Len(u) = 2 /\ \A i \in 1 .. 2 : u[i] = v[i]
    OBVIOUS
  <2>2. v \in Seq({a, b, c}) /\ Len(v) = 2
    OBVIOUS
  <2> HIDE DEF u, v
  <2> QED BY <2>1, <2>2, SameCalls DEF u, v
<1>2. << a >> \o << b, c >> = << a, b, c >>
  <2> DEFINE u == << a >> \o << b, c >>
             v == << a, b, c >>
  <2>1. u \in Seq({a, b, c}) /\ Len(u) = 3 /\ \A i \in 1 .. 3 : u[i] = v[i]
    OBVIOUS
  <2>2. v \in Seq({a, b, c}) /\ Len(v) = 3
    OBVIOUS
  <2> HIDE DEF u, v
  <2> QED BY <2>1, <2>2, SameCalls DEF u, v
<1>3. << a, b >> \o << c >> = << a, b, c >>
  <2> DEFINE u == << a, b >> \o << c >>
             v == << a, b, c >>
  <2>1. u \in Seq({a, b, c}) /\ Len(u) = 3 /\ \A i \in 1 .. 3 : u[i] = v[i]
    OBVIOUS
  <2>2. v \in Seq({a, b, c}) /\ Len(v) = 3
    OBVIOUS
  <2> HIDE DEF u, v
  <2> QED BY <2>1, <2>2, SameCalls DEF u, v
<1> QED BY <1>1, <1>2, <1>3

LEMMA OneCall ==
  ASSUME NEW a PROVE Elems(<< >>) = {} /\ Elems(<< a >>) = {a}
  BY DEF Elems

\* At most three calls
LEMMA FewCalls ==
  ASSUME NEW a, NEW b, NEW c, NEW fs,
         fs = << >> \/ fs = << a >> \/ fs = << a, b >> \/ fs = << a, b, c >>
  PROVE  fs \in Seq({a, b, c}) /\ Elems(fs) \subseteq {a, b, c}
<1>1. CASE fs = << >>
  <2>1. Elems(<< >>) = {}
    BY ShortCalls
  <2> QED BY <1>1, <2>1
<1>2. CASE fs = << a >>
  <2>1. Elems(<< a >>) = {a}
    BY ShortCalls
  <2> QED BY <1>2, <2>1
<1>3. CASE fs = << a, b >>
  <2>1. Elems(<< a, b >>) = {a, b}
    BY ShortCalls
  <2> QED BY <1>3, <2>1
<1>4. CASE fs = << a, b, c >>
  <2>1. Elems(<< a, b, c >>) = {a, b, c}
    BY DEF Elems
  <2> QED BY <1>4, <2>1
<1> QED BY <1>1, <1>2, <1>3, <1>4

LEMMA WithinFew ==
  ASSUME Inv, Keeps, NEW K, Within(K), NEW a, NEW b, NEW c,
         NEW fs, fs = << >> \/ fs = << a >> \/ fs = << a, b >> \/ fs = << a, b, c >>,
         Push(fs) \/ (stack # << >> /\ Replace(fs)) \/
           (stack # << >> /\ Top.op \in Loops /\ \E x : Take(x, fs)),
         UNCHANGED << sourceListeners, edgeListeners, callerListeners, permits >>,
         Climbing(K, a)', Climbing(K, b)', Climbing(K, c)'
  PROVE  Within(K)'
<1> DEFINE U == {a, b, c}
<1>3. fs \in Seq(U) /\ Elems(fs) \subseteq U
  BY FewCalls
<1>4. \A f \in Elems(fs) : Climbing(K, f)'
  BY <1>3
<1> HIDE DEF U
<1>5. CASE Push(fs) \/ (stack # << >> /\ Replace(fs))
  BY <1>3, <1>4, <1>5, WithinCalls
<1>6. CASE stack # << >> /\ Top.op \in Loops /\ \E x : Take(x, fs)
  BY <1>3, <1>4, <1>6, WithinLoop
<1> QED BY <1>5, <1>6

\* Calls and loops that no context is behind
Plain == {"add", "heard", "states", "solving", "force", "toSites", "flowsTo", "propagate",
          "declare", "callees", "callers", "addEdge"}

LEMMA PlainClimbs == ASSUME NEW K, NEW f, f.op \in Plain PROVE Climbing(K, f)'
  BY DEF Climbing, Plain

LEMMA WithinStart ==
  ASSUME Inv, Keeps, NEW K, Within(K), NEW q, NEW fs, NEW e,
         fs = << >> \/ (fs = << e >> /\ e.op = "addEdge"),
         StartSolver(q, fs), UNCHANGED << icfgVars, trans, callRules, flowVars, graphVars >>
  PROVE  Within(K)'
<1> PICK a : a = Add(SolverOf(q), At(Home[q], Start(q)))
  OBVIOUS
<1> PICK b : b = Solving
  OBVIOUS
<1>1. a.op = "add" /\ b.op = "solving"
  BY DEF Add, Solving
<1>2. Push(<< a, b >> \o fs)
  BY DEF StartSolver
<1>3. << a, b >> \o << >> = << a, b >> /\ << a, b >> \o << e >> = << a, b, e >>
  <2>1. << a, b >> \o << >> = << a, b >>
    BY NoCalls
  <2>2. << a, b >> \o << e >> = << a, b, e >>
    BY JoinedCalls
  <2> QED BY <2>1, <2>2
<1>4. UNCHANGED << sourceListeners, edgeListeners, callerListeners, permits >>
  BY DEF icfgVars, flowVars, graphVars
<1>5. Climbing(K, a)' /\ Climbing(K, b)'
  BY <1>1, PlainClimbs DEF Plain
<1>6. CASE fs = << >>
  <2>1. Push(<< a, b >>)
    BY <1>2, <1>3, <1>6
  <2> QED BY <1>4, <1>5, <2>1, WithinFew
<1>7. CASE fs = << e >> /\ e.op = "addEdge"
  <2>1. Push(<< a, b, e >>)
    BY <1>2, <1>3, <1>7
  <2>2. Climbing(K, e)'
    BY <1>7, PlainClimbs DEF Plain
  <2> QED BY <1>4, <1>5, <2>1, <2>2, WithinFew
<1> QED BY <1>6, <1>7

LEMMA WithinSolvers == ASSUME Inv, Keeps, NEW K, Within(K), Solvers PROVE Within(K)'
<1>1. ASSUME NEW q \in Roots, Solve(q) PROVE Within(K)'
  <2>1. StartSolver(q, << >>) /\ UNCHANGED << icfgVars, trans, callRules, flowVars, graphVars >>
    BY <1>1 DEF Solve
  <2> QED BY <2>1, WithinStart
<1>2. ASSUME NEW e \in Raises, Raise(e[1], e[2], e[3]) PROVE Within(K)'
  <2> DEFINE f == AddEdge(e[1], e[2], e[3])
  <2>1. /\ StartSolver(e[3], << f >>)
        /\ UNCHANGED << icfgVars, trans, callRules, flowVars, graphVars >>
    BY <1>2 DEF Raise
  <2>2. f.op = "addEdge"
    BY DEF AddEdge
  <2> HIDE DEF f
  <2> QED BY <2>1, <2>2, WithinStart
<1>3. ASSUME NEW s \in Solver, NEW t \in Derived(s), Derive(s, t) PROVE Within(K)'
  <2> PICK a : a = Add(s, t)
    OBVIOUS
  <2>1. Push(<< a >>)
    BY <1>3 DEF Derive
  <2>2. Climbing(K, a)'
    BY PlainClimbs DEF Add, Plain
  <2>3. UNCHANGED << sourceListeners, edgeListeners, callerListeners, permits >>
    BY <1>3 DEF Derive, icfgVars, flowVars, graphVars
  <2> QED BY <2>1, <2>2, <2>3, WithinFew
<1>4. ASSUME NEW s \in Solver, NEW x \in Site, ReachCall(s, x) PROVE Within(K)'
  <2>1. UNCHANGED << sourceListeners, edgeListeners, callerListeners, permits, stack >>
    BY <1>4 DEF ReachCall, flowVars, graphVars
  <2>2. Push(<< >>)
    BY <2>1, NoCalls DEF Push, Inv
  <2>3. \A f \in Elems(<< >>) : Climbing(K, f)'
    BY DEF Elems
  <2>4. << >> \in Seq({})
    OBVIOUS
  <2> QED BY <2>1, <2>2, <2>3, <2>4, WithinCalls
<1>5. ASSUME NEW r \in Resolved, AddCall(r[1], r[2]) PROVE Within(K)'
  <2> PICK a : a = Callees(r[1], r[2], { s \in Solver : << s, r[1] >> \in calleeListeners })
    OBVIOUS
  <2> PICK b : b = Callers(r[1], r[2])
    OBVIOUS
  <2>1. Push(<< a, b >>)
    BY <1>5 DEF AddCall
  <2>2. Climbing(K, a)' /\ Climbing(K, b)'
    <3>1. a.op = "callees" /\ b.op = "callers"
      BY DEF Callees, Callers
    <3> QED BY <3>1, PlainClimbs DEF Plain
  <2>3. UNCHANGED << sourceListeners, edgeListeners, callerListeners, permits >>
    BY <1>5 DEF AddCall, flowVars, graphVars
  <2> QED BY <2>1, <2>2, <2>3, WithinFew
<1> QED BY <1>1, <1>2, <1>3, <1>4, <1>5 DEF Solvers

\* Calls and loops that hand on no context
LEMMA WithinPlain ==
  ASSUME Inv, Keeps, NEW K, Within(K),
         \/ AddTransition \/ AddPotentialUnbalancedFlow \/ PropagateToSites \/ PropagateFlows
         \/ PropagateUnbalancedToCallSite \/ AddUnbalancedState \/ TellCalleeListeners \/ EndLoop
  PROVE  Within(K)'
<1>1. /\ stack # << >>
      /\ UNCHANGED << sourceListeners, edgeListeners, callerListeners, permits >>
  BY DEF AddTransition, AddPotentialUnbalancedFlow, PropagateToSites, PropagateFlows,
         PropagateUnbalancedToCallSite, AddUnbalancedState, TellCalleeListeners, EndLoop, Running,
         icfgVars, flowVars, graphVars
<1>2. SUFFICES \E a, b, c :
        /\ a.op \in Plain /\ b.op \in Plain /\ c.op \in Plain
        /\ \E fs : /\ fs = << >> \/ fs = << a >> \/ fs = << a, b >> \/ fs = << a, b, c >>
                   /\ Replace(fs) \/ (Top.op \in Loops /\ \E x : Take(x, fs))
  BY <1>1, PlainClimbs, WithinFew
<1>3. CASE AddTransition
  <2>1. Heard(Top.s, Top.t).op \in Plain /\ States(Top.s, Top.t).op \in Plain
    BY DEF Heard, States, Plain
  <2>2. Replace(<< >>) \/ Replace(<< Heard(Top.s, Top.t), States(Top.s, Top.t) >>)
    BY <1>3 DEF AddTransition
  <2> HIDE DEF Plain
  <2> QED BY <2>1, <2>2
<1>4. CASE AddPotentialUnbalancedFlow
  <2> DEFINE a == ToSites(Top.s, Top.t, { x \in Site : << Top.s, LabelMethod(Top.t.label), x >> \in permits })
             b == Forcing(Top.s, Top.t)
  <2>1. a.op \in Plain /\ b.op \in Plain
    BY DEF ToSites, Forcing, Plain
  <2>2. Replace((IF << Top.s, Top.t >> \in flows THEN << >> ELSE << a >>) \o << b >>) \/ Replace(<< >>)
    BY <1>4 DEF AddPotentialUnbalancedFlow
  <2> HIDE DEF a, b
  <2>3. << >> \o << b >> = << b >> /\ << a >> \o << b >> = << a, b >>
    BY ShortCalls
  <2>4. Replace(<< b >>) \/ Replace(<< a, b >>) \/ Replace(<< >>)
    BY <2>2, <2>3
  <2> QED BY <2>1, <2>4
<1>5. CASE PropagateToSites
  <2>1. PICK x : Take(x, << Propagate(Top.s, x, Top.t) >>) /\ Top.op \in Loops
    BY <1>5 DEF PropagateToSites, Running, Loops
  <2>2. Propagate(Top.s, x, Top.t).op \in Plain
    BY DEF Propagate, Plain
  <2> QED BY <2>1, <2>2
<1>6. CASE PropagateFlows
  <2>1. PICK t : Take(t, << Propagate(Top.s, Top.site, t) >>) /\ Top.op \in Loops
    BY <1>6 DEF PropagateFlows, Running, Loops
  <2>2. Propagate(Top.s, Top.site, t).op \in Plain
    BY DEF Propagate, Plain
  <2> QED BY <2>1, <2>2
<1>7. CASE PropagateUnbalancedToCallSite
  <2> DEFINE a == Add(Top.s, Tr(Fact(FirstHome(Top.s)), << "before", Top.site >>, Return(Top.site)))
             b == Declare(Top.s, Return(Top.site), Top.t.target)
             c == Add(Top.s, Behind(Top.t.target, Top.site, Return(Top.site)))
  <2>1. a.op \in Plain /\ b.op \in Plain /\ c.op \in Plain
    BY DEF Add, Declare, Plain
  <2>2. Replace(<< >>) \/ Replace(<< a, b, c >>)
    BY <1>7 DEF PropagateUnbalancedToCallSite
  <2> HIDE DEF a, b, c
  <2> QED BY <2>1, <2>2
<1>8. CASE AddUnbalancedState \/ TellCalleeListeners \/ EndLoop
  <2>1. Replace(<< >>) \/ (Top.op \in Loops /\ \E x : Take(x, << >>))
    BY <1>8 DEF AddUnbalancedState, TellCalleeListeners, EndLoop, Running, Loops
  <2>2. Solving.op \in Plain
    BY DEF Solving, Plain
  <2> QED BY <2>1, <2>2
<1> QED BY <1>3, <1>4, <1>5, <1>6, <1>7, <1>8

-----------------------------------------------------------------------------
LEMMA WithinTop ==
  ASSUME Inv, NEW K, Within(K), stack # << >> PROVE Climbing(K, Top)
  BY TopOrBelow DEF Inv, Top, Within

LEMMA WithinForce == ASSUME Inv, Keeps, NEW K, Within(K), ForceFlow PROVE Within(K)'
<1> PICK a : a = AddCaller(Forced(<< Top.s, Top.t >>))
  OBVIOUS
<1>1. /\ stack # << >> /\ (Replace(<< >>) \/ Replace(<< a >>))
      /\ UNCHANGED << sourceListeners, edgeListeners, callerListeners, permits >>
  BY DEF ForceFlow, Running, icfgVars, flowVars, graphVars
<1>2. a.op = "addCaller" /\ a.l.kind = "force"
  BY DEF AddCaller, Forced
<1>3. Climbing(K, a)'
  BY <1>2 DEF Climbing, OfCaller
<1> QED BY <1>1, <1>3, WithinFew

LEMMA WithinAllow == ASSUME Inv, Keeps, NEW K, Within(K), AllowUnbalanced PROVE Within(K)'
<1>1. /\ stack # << >> /\ Top.op = "allow"
      /\ sourceListeners' = sourceListeners /\ edgeListeners' = edgeListeners
      /\ callerListeners' = callerListeners
  BY DEF AllowUnbalanced, Running, icfgVars, graphVars
<1>2. Top \in AllowFrame /\ Top.child \in solved /\ Allowed(K, Top.child, Top.callee, Top.site)
  BY <1>1, WithinTop, TopFrame DEF Inv, AllowFrame, Climbing
<1>3. ASSUME NEW p \in permits' \ permits PROVE Justified(K, p)'
  <2>1. p = << SolverOf(Top.child), Top.callee, Top.site >> /\ Top.callee \notin Excluded
    BY <1>3 DEF AllowUnbalanced
  <2>2. Justified(K, p)
    BY <1>2, <2>1 DEF Justified
  <2> QED BY <2>2, JustifiedKept
<1>4. PICK a : a.op \in Plain /\ (Replace(<< >>) \/ Replace(<< a >>))
  <2> DEFINE b == FlowsTo(SolverOf(Top.child), Top.site,
               { f[2] : f \in { f \in flows :
                   f[1] = SolverOf(Top.child) /\ LabelMethod(f[2].label) = Top.callee } })
  <2>1. b.op \in Plain
    BY DEF FlowsTo, Plain
  <2>2. Replace(<< >>) \/ Replace(<< b >>)
    BY DEF AllowUnbalanced
  <2> HIDE DEF b
  <2> QED BY <2>1, <2>2
<1>5. Climbing(K, a)'
  BY <1>4, PlainClimbs
<1>6. /\ << >> \in Seq({a}) /\ << a >> \in Seq({a})
      /\ Elems(<< >>) \subseteq {a} /\ Elems(<< a >>) \subseteq {a}
  <2>1. Elems(<< >>) = {} /\ Elems(<< a >>) = {a}
    BY ShortCalls
  <2> QED BY <2>1
<1>7. PICK fs \in Seq({a}) : Replace(fs) /\ Elems(fs) \subseteq {a}
  BY <1>4, <1>6
<1> QED BY <1>1, <1>3, <1>5, <1>7, WithinStep

LEMMA WithinAddCaller == ASSUME Inv, Keeps, NEW K, Within(K), AddCallerListener PROVE Within(K)'
<1> PICK l : l = Top.l
  OBVIOUS
<1> PICK a : a = CallersKnown(l, { x \in Site : << x, l.callee >> \in graph })
  OBVIOUS
<1>1. /\ stack # << >> /\ Top.op = "addCaller" /\ Replace(<< a >>)
      /\ sourceListeners' = sourceListeners /\ edgeListeners' = edgeListeners
      /\ permits' = permits /\ callerListeners' = callerListeners \cup {l}
  BY DEF AddCallerListener, Running, flowVars, graphVars
<1>2. OfCaller(K, l)
  BY <1>1, WithinTop DEF Climbing
<1>3. OfCaller(K, l)'
  BY <1>2, RootedKept DEF OfCaller
<1>4. Climbing(K, a)'
  <2>1. a.op = "callersKnown" /\ a.l = l
    BY DEF CallersKnown
  <2> QED BY <1>3, <2>1 DEF Climbing
<1>5. << a >> \in Seq({a}) /\ Elems(<< a >>) = {a}
  BY ShortCalls
<1>6. \A k \in callerListeners' \ callerListeners : OfCaller(K, k)'
  BY <1>1, <1>3
<1>7. \A f \in Elems(<< a >>) : Climbing(K, f)'
  BY <1>4, <1>5
<1> QED BY <1>1, <1>5, <1>6, <1>7, WithinStep

LEMMA WithinTellCallers ==
  ASSUME Inv, Keeps, NEW K, Within(K), TellKnownCallers \/ TellCallerListeners PROVE Within(K)'
<1>1. /\ stack # << >> /\ Top.op \in {"callersKnown", "tellCallers"} /\ Top.op \in Loops
      /\ UNCHANGED << sourceListeners, edgeListeners, callerListeners, permits >>
  BY DEF TellKnownCallers, TellCallerListeners, Running, icfgVars, flowVars, graphVars, Loops
<1>2. Climbing(K, Top)
  BY <1>1, WithinTop
<1>3. PICK l, x, y : /\ l \in CallerListener /\ << x, l.callee >> \in graph
                     /\ OfCaller(K, l) /\ Take(y, << OnCallerAdded(l, x) >>)
  <2>1. CASE TellKnownCallers
    <3>1. PICK x \in Top.rest : Take(x, << OnCallerAdded(Top.l, x) >>)
      BY <2>1 DEF TellKnownCallers
    <3>2. Top.op = "callersKnown" /\ Top \in CallersKnownFrame /\ OfCaller(K, Top.l)
      BY <1>2, <2>1, TopFrame DEF TellKnownCallers, Running, Climbing, Inv
    <3>3. Top.l \in CallerListener /\ << x, Top.l.callee >> \in graph
      BY <3>1, <3>2 DEF CallersKnownFrame, CallersOf
    <3> QED BY <3>1, <3>2, <3>3
  <2>2. CASE TellCallerListeners
    <3>1. PICK l \in Top.rest : Take(l, << OnCallerAdded(l, Top.site) >>)
      BY <2>2 DEF TellCallerListeners
    <3>2. Top.op = "tellCallers" /\ Top \in TellCallersFrame /\ OfCaller(K, l)
      BY <1>2, <2>2, <3>1, TopFrame DEF TellCallerListeners, Running, Climbing, Inv
    <3>3. l \in CallerListener /\ << Top.site, l.callee >> \in graph
      BY <3>1, <3>2 DEF TellCallersFrame
    <3> QED BY <3>1, <3>2, <3>3
  <2> QED BY <1>1, <2>1, <2>2
<1> PICK a : a = OnCallerAdded(l, x)
  OBVIOUS
<1>4. Climbing(K, a)
  <2>1. CASE l.kind = "force"
    <3>1. a.op = "propagate"
      BY <2>1 DEF OnCallerAdded, Propagate
    <3> QED BY <3>1 DEF Climbing
  <2>2. CASE l.kind # "force"
    <3>1. a.op = "allow" /\ a.child = l.child /\ a.callee = l.callee /\ a.site = x
      BY <2>2 DEF OnCallerAdded, Allow
    <3>2. l.kind = "context"
      BY <1>3, <2>2 DEF CallerListener
    <3>3. Allowed(K, l.child, l.callee, x)
      BY <1>3, <3>2 DEF OfCaller, Allowed
    <3> QED BY <3>1, <3>3 DEF Climbing
  <2> QED BY <2>1, <2>2
<1>5. Climbing(K, a)'
  BY <1>4, ClimbingKept
<1>6. Take(y, << a >>)
  BY <1>3
<1> QED BY <1>1, <1>5, <1>6, WithinFew

LEMMA WithinCallers == ASSUME Inv, Keeps, NEW K, Within(K), CallersAdded PROVE Within(K)'
<1> PICK a : a = TellCallers(Top.site, { l \in callerListeners : l.callee = Top.callee })
  OBVIOUS
<1>1. /\ stack # << >> /\ Replace(<< a >>)
      /\ UNCHANGED << sourceListeners, edgeListeners, callerListeners, permits >>
  BY DEF CallersAdded, Running, icfgVars, flowVars, graphVars
<1>2. Climbing(K, a)
  <2>1. a.op = "tellCallers" /\ a.rest \subseteq callerListeners
    BY DEF TellCallers
  <2> QED BY <2>1 DEF Within, Climbing
<1>3. Climbing(K, a)'
  BY <1>2, ClimbingKept
<1> QED BY <1>1, <1>3, WithinFew

LEMMA WithinNoParent == ASSUME Inv, Keeps, NEW K, Within(K), NoParentEdge PROVE Within(K)'
<1> PICK m : m = FactMethod(Top.l.parent, Top.l.t.target)
  OBVIOUS
<1> PICK c : c = Context(Top.l.child, m)
  OBVIOUS
<1> PICK a : a = AddCaller(c)
  OBVIOUS
<1>1. /\ stack # << >> /\ Top.op = "noParent"
      /\ Replace(<< >>) \/ (Top.l.child \in Backward /\ Replace(<< a >>))
      /\ UNCHANGED << sourceListeners, edgeListeners, callerListeners, permits >>
  BY DEF NoParentEdge, Running, icfgVars, flowVars, graphVars
<1>2. OfContext(K, Top.l)
  BY <1>1, WithinTop DEF Climbing
<1>3. Top.l.child \in Backward => Rooted(K, Top.l.child, m)
  <2>1. PICK k \in K, p \in trans :
          k.child = Top.l.child /\ k.parent = Top.l.parent /\ LeavesBy(k, p) /\ p[2] = Top.l.t
    BY <1>2 DEF OfContext
  <2> QED BY <2>1 DEF Rooted
<1>4. a.op = "addCaller" /\ a.l.kind = "context" /\ a.l.child = Top.l.child /\ a.l.callee = m
  BY DEF AddCaller, Context
<1>5. Top.l.child \in Backward => Climbing(K, a)
  BY <1>3, <1>4 DEF Climbing, OfCaller
<1>6. CASE Replace(<< >>)
  <2>1. << >> \in Seq({}) /\ Elems(<< >>) = {}
    BY DEF Elems
  <2> QED BY <1>1, <1>6, <2>1, WithinCalls
<1>7. CASE Top.l.child \in Backward /\ Replace(<< a >>)
  <2>1. Climbing(K, a)'
    BY <1>5, <1>7, ClimbingKept
  <2> QED BY <1>1, <1>7, <2>1, WithinFew
<1> QED BY <1>1, <1>6, <1>7

LEMMA WithinRegister ==
  ASSUME Inv, Keeps, NEW K, Within(K), RegisterSourceListener PROVE Within(K)'
<1> PICK l : l = Top.l
  OBVIOUS
<1> PICK a : a = Replay(l, { t \in Of(SolverOf(l.parent)) : t.start = l.state })
  OBVIOUS
<1>1. /\ stack # << >> /\ Top.op = "listen" /\ (Replace(<< >>) \/ Replace(<< a >>))
      /\ sourceListeners' = sourceListeners \cup {l} /\ edgeListeners' = edgeListeners
      /\ callerListeners' = callerListeners /\ permits' = permits
  BY DEF RegisterSourceListener, Running, icfgVars, flowVars
<1>2. l \in K
  BY <1>1, WithinTop DEF Climbing
<1>3. Climbing(K, a)'
  <2>1. a.op = "replay" /\ a.l = l
    BY DEF Replay
  <2> QED BY <1>2, <2>1 DEF Climbing
<1>4. /\ << >> \in Seq({a}) /\ << a >> \in Seq({a})
      /\ Elems(<< >>) \subseteq {a} /\ Elems(<< a >>) \subseteq {a}
  <2>1. Elems(<< >>) = {} /\ Elems(<< a >>) = {a}
    BY ShortCalls
  <2> QED BY <2>1
<1>5. PICK fs \in Seq({a}) : Replace(fs) /\ Elems(fs) \subseteq {a}
  BY <1>1, <1>4
<1> QED BY <1>1, <1>2, <1>3, <1>5, WithinStep

LEMMA ContextClimbs ==
  ASSUME NEW K, Contexts(K), NEW l \in K, NEW t, t.start = l.state,
         << SolverOf(l.parent), t >> \in trans
  PROVE  Source(t.target, l.parent, l.child, LabelMethod(t.label)) \in K
<1> DEFINE p == << SolverOf(l.parent), t >>
<1>1. p \in trans /\ Climbs(l, p) /\ p[2] = t
  BY DEF Climbs
<1> QED BY <1>1 DEF Contexts

LEMMA ContextGoesOn ==
  ASSUME NEW K, Contexts(K), NEW l, OfContext(K, l), NEW e \in edges, e[3] = l.parent
  PROVE  Source(Fact(e[2]), e[1], l.child, None) \in K
  BY DEF Contexts, OfContext

LEMMA WithinEdge ==
  ASSUME Inv, Keeps, NEW K, Contexts(K)', Within(K), AddQueryEdge PROVE Within(K)'
<1> PICK e : e = Top.e
  OBVIOUS
<1> PICK a : a = TellEdge(e, { l \in edgeListeners : l.parent = e[3] })
  OBVIOUS
<1> PICK b : b = Listen(Source(Fact(e[2]), e[1], e[3], None))
  OBVIOUS
<1>1. /\ stack # << >> /\ Replace((IF e \in edges THEN << >> ELSE << a >>) \o << b >>)
      /\ e \in edges'
      /\ UNCHANGED << sourceListeners, edgeListeners, callerListeners, permits >>
  BY DEF AddQueryEdge, Running, icfgVars, flowVars
<1>2. Climbing(K, b)'
  <2>1. Source(Fact(e[2]), e[1], e[3], None) \in K
    BY <1>1 DEF Contexts
  <2>2. b.op = "listen" /\ b.l = Source(Fact(e[2]), e[1], e[3], None)
    BY DEF Listen
  <2> QED BY <2>1, <2>2 DEF Climbing
<1>3. Climbing(K, a)'
  <2>1. a.op = "tellEdge" /\ a.e = e /\ a.rest = { l \in edgeListeners : l.parent = e[3] }
    BY DEF TellEdge
  <2>2. \A l \in a.rest : OfContext(K, l)' /\ l.parent = e[3]
    BY <2>1, OfContextKept DEF Within
  <2> QED BY <1>1, <2>1, <2>2 DEF Climbing
<1>4. << >> \o << b >> = << b >> /\ << a >> \o << b >> = << a, b >>
  <2>1. << >> \o << b >> = << b >>
    BY NoCalls
  <2>2. << a >> \o << b >> = << a, b >>
    BY JoinedCalls
  <2> QED BY <2>1, <2>2
<1>5. CASE Replace(<< b >>)
  BY <1>1, <1>2, <1>5, WithinFew
<1>6. CASE Replace(<< a, b >>)
  BY <1>1, <1>2, <1>3, <1>6, WithinFew
<1> QED BY <1>1, <1>4, <1>5, <1>6

LEMMA WithinEdgeAdded ==
  ASSUME Inv, Keeps, NEW K, Contexts(K), Within(K), TellEdgeListeners \/ TellKnownEdges
  PROVE  Within(K)'
<1>1. /\ stack # << >> /\ Top.op \in {"tellEdge", "edgesKnown"} /\ Top.op \in Loops
      /\ UNCHANGED << sourceListeners, edgeListeners, callerListeners, permits >>
  BY DEF TellEdgeListeners, TellKnownEdges, Running, icfgVars, flowVars, graphVars, Loops
<1>2. Climbing(K, Top)
  BY <1>1, WithinTop
<1>3. PICK l, e, x : /\ OfContext(K, l) /\ e \in edges /\ e[3] = l.parent
                     /\ Take(x, << EdgeAdded(l, e) >>)
  <2>1. CASE TellEdgeListeners
    <3>1. PICK l \in Top.rest : Take(l, << EdgeAdded(l, Top.e) >>) /\ Top.op = "tellEdge"
      BY <2>1 DEF TellEdgeListeners, Running
    <3>2. OfContext(K, l) /\ Top.e \in edges /\ Top.e[3] = l.parent
      BY <1>2, <3>1 DEF Climbing
    <3> QED BY <3>1, <3>2
  <2>2. CASE TellKnownEdges
    <3>1. PICK e \in Top.rest : Take(e, << EdgeAdded(Top.l, e) >>) /\ Top.op = "edgesKnown"
      BY <2>2 DEF TellKnownEdges, Running
    <3>2. OfContext(K, Top.l) /\ e \in edges /\ e[3] = Top.l.parent
      BY <1>2, <3>1 DEF Climbing
    <3> QED BY <3>1, <3>2
  <2> QED BY <2>1, <2>2
<1> PICK a : a = EdgeAdded(l, e)
  OBVIOUS
<1>4. Climbing(K, a)'
  <2>1. a.op = "listen" /\ a.l = Source(Fact(e[2]), e[1], l.child, None)
    BY DEF EdgeAdded, Listen
  <2>2. a.l \in K
    BY <1>3, <2>1, ContextGoesOn
  <2> QED BY <2>1, <2>2 DEF Climbing
<1>5. Take(x, << a >>)
  BY <1>3
<1> QED BY <1>1, <1>4, <1>5, WithinFew

LEMMA WithinServe == ASSUME Inv, Keeps, NEW K, Within(K), ServeStates PROVE Within(K)'
<1> PICK a : a = Tell(Top.s, Top.t,
       { l \in sourceListeners : SolverOf(l.parent) = Top.s /\ l.state = Top.t.start })
  OBVIOUS
<1>1. /\ stack # << >> /\ Replace(<< a >>)
      /\ UNCHANGED << sourceListeners, edgeListeners, callerListeners, permits >>
  BY DEF ServeStates, Running, icfgVars, flowVars, graphVars
<1>2. Climbing(K, a)'
  <2>1. a.op = "tell" /\ a.rest \subseteq sourceListeners
    BY DEF Tell
  <2> QED BY <2>1 DEF Within, Climbing
<1> QED BY <1>1, <1>2, WithinFew

LEMMA WithinDeliver ==
  ASSUME Inv, Keeps, NEW K, Contexts(K), Within(K), Deliver PROVE Within(K)'
<1>1. /\ stack # << >> /\ Top.op \in {"tell", "replay"} /\ Top.op \in Loops
      /\ UNCHANGED << sourceListeners, edgeListeners, callerListeners, permits >>
  BY DEF Deliver, Running, icfgVars, flowVars, graphVars, Loops
<1>2. Climbing(K, Top)
  BY <1>1, WithinTop
<1>3. PICK l, t, x : /\ l \in K /\ t.start = l.state /\ << SolverOf(l.parent), t >> \in trans
                     /\ Take(x, OnOutTransitionAdded(l, t))
  <2>1. CASE Running("tell") /\ \E l \in Top.rest : Take(l, OnOutTransitionAdded(l, Top.t))
    <3>1. PICK l \in Top.rest : Take(l, OnOutTransitionAdded(l, Top.t))
      BY <2>1
    <3>2. Top \in TellFrame /\ l \in K
      BY <1>1, <1>2, <2>1, <3>1, TopFrame DEF Running, Climbing, Inv
    <3>3. << Top.s, Top.t >> \in trans /\ l.state = Top.t.start /\ SolverOf(l.parent) = Top.s
      BY <3>1, <3>2 DEF TellFrame
    <3> QED BY <3>1, <3>2, <3>3
  <2>2. CASE Running("replay") /\ \E t \in Top.rest : Take(t, OnOutTransitionAdded(Top.l, t))
    <3>1. PICK t \in Top.rest : Take(t, OnOutTransitionAdded(Top.l, t))
      BY <2>2
    <3>2. Top \in ReplayFrame /\ Top.l \in K
      BY <1>1, <1>2, <2>2, TopFrame DEF Running, Climbing, Inv
    <3>3. t.start = Top.l.state /\ << SolverOf(Top.l.parent), t >> \in trans
      BY <3>1, <3>2 DEF ReplayFrame
    <3> QED BY <3>1, <3>2, <3>3
  <2> QED BY <2>1, <2>2 DEF Deliver
<1> PICK a : a = Allow(l.child, l.callee, t.label[2])
  OBVIOUS
<1> PICK b : b = Listen(Source(t.target, l.parent, l.child, LabelMethod(t.label)))
  OBVIOUS
<1> PICK c : c = Ask(l, t)
  OBVIOUS
<1>4. Climbing(K, b)' /\ Climbing(K, c)'
  <2>1. b.op = "listen" /\ b.l = Source(t.target, l.parent, l.child, LabelMethod(t.label))
    BY DEF Listen
  <2>2. c.op = "ask" /\ c.l = l /\ c.t = t
    BY DEF Ask
  <2>3. b.l \in K
    BY <1>3, <2>1, ContextClimbs
  <2>4. Climbing(K, b)'
    BY <2>1, <2>3 DEF Climbing
  <2>5. Climbing(K, c)'
    BY <1>3, <2>2 DEF Climbing
  <2> QED BY <2>4, <2>5
<1>5. ASSUME l.state \in Generated PROVE Climbing(K, a)'
  <2>1. a.op = "allow" /\ a.child = l.child /\ a.callee = l.callee /\ a.site = t.label[2]
    BY DEF Allow
  <2>2. Called(K, l.child, l.callee, t.label[2])
    <3> DEFINE p == << SolverOf(l.parent), t >>
    <3>1. p \in trans /\ Climbs(l, p) /\ p[2] = t
      BY <1>3 DEF Climbs
    <3> QED BY <1>3, <1>5, <3>1 DEF Called
  <2>3. Climbing(K, a)
    BY <2>1, <2>2 DEF Climbing, Allowed
  <2> QED BY <2>3, ClimbingKept
<1>6. << >> \o << b, c >> = << b, c >> /\ << a >> \o << b, c >> = << a, b, c >>
  <2>1. << >> \o << b, c >> = << b, c >>
    BY NoCalls
  <2>2. << a >> \o << b, c >> = << a, b, c >>
    BY JoinedCalls
  <2> QED BY <2>1, <2>2
<1>7. \/ Take(x, << b, c >>)
      \/ l.state \in Generated /\ Take(x, << a, b, c >>)
  BY <1>3, <1>6 DEF OnOutTransitionAdded
<1>8. CASE Take(x, << b, c >>)
  BY <1>1, <1>4, <1>8, WithinFew
<1>9. CASE l.state \in Generated /\ Take(x, << a, b, c >>)
  BY <1>1, <1>4, <1>5, <1>9, WithinFew
<1> QED BY <1>7, <1>8, <1>9

LEMMA WithinAsk == ASSUME Inv, Keeps, NEW K, Within(K), AskUnbalanced PROVE Within(K)'
<1> PICK l : l = Top.l
  OBVIOUS
<1> PICK t : t = Top.t
  OBVIOUS
<1> PICK a : a = Watch(Unbalanced(l.child, l.parent, t))
  OBVIOUS
<1>1. /\ stack # << >> /\ Top.op = "ask"
      /\ Replace(<< >>) \/ (Initial(SolverOf(l.parent), t.target) /\ Replace(<< a >>))
      /\ UNCHANGED << sourceListeners, edgeListeners, callerListeners, permits >>
  BY DEF AskUnbalanced, Running, icfgVars, flowVars, graphVars
<1>2. l \in K /\ t.start = l.state
  BY <1>1, WithinTop DEF Climbing
<1>3. << SolverOf(l.parent), t >> \in trans
  BY <1>1, TopFrame DEF Inv, AskFrame
<1>4. ASSUME Initial(SolverOf(l.parent), t.target) PROVE Climbing(K, a)
  <2> DEFINE p == << SolverOf(l.parent), t >>
  <2>1. p \in trans /\ LeavesBy(l, p) /\ p[2] = t
    BY <1>2, <1>3, <1>4 DEF Climbs, LeavesBy
  <2>2. a.op = "watch" /\ a.l.child = l.child /\ a.l.parent = l.parent /\ a.l.t = t
    BY DEF Watch, Unbalanced
  <2>3. OfContext(K, a.l)
    BY <1>2, <2>1, <2>2 DEF OfContext
  <2> QED BY <2>2, <2>3 DEF Climbing
<1>5. CASE Replace(<< >>)
  <2>1. << >> \in Seq({}) /\ Elems(<< >>) = {}
    BY DEF Elems
  <2> QED BY <1>1, <1>5, <2>1, WithinCalls
<1>6. CASE Initial(SolverOf(l.parent), t.target) /\ Replace(<< a >>)
  <2>1. Climbing(K, a)'
    BY <1>4, <1>6, ClimbingKept
  <2> QED BY <1>1, <1>6, <2>1, WithinFew
<1> QED BY <1>1, <1>5, <1>6

LEMMA WithinWatch == ASSUME Inv, Keeps, NEW K, Within(K), RegisterEdgeListener PROVE Within(K)'
<1> PICK l : l = Top.l
  OBVIOUS
<1> PICK es : es = { e \in edges : e[3] = l.parent }
  OBVIOUS
<1> PICK a : a = NoParent(l)
  OBVIOUS
<1> PICK b : b = EdgesKnown(l, es)
  OBVIOUS
<1>1. /\ stack # << >> /\ Top.op = "watch"
      /\ Replace(<< >>) \/ Replace(<< a >>) \/ Replace(<< b >>)
      /\ sourceListeners' = sourceListeners /\ callerListeners' = callerListeners
      /\ permits' = permits /\ edgeListeners' = edgeListeners \cup {l}
  BY DEF RegisterEdgeListener, Running, icfgVars, flowVars
<1>2. OfContext(K, l)
  BY <1>1, WithinTop DEF Climbing
<1>3. OfContext(K, l)'
  BY <1>2, OfContextKept
<1>4. Climbing(K, a)' /\ Climbing(K, b)'
  <2>1. a.op = "noParent" /\ a.l = l /\ b.op = "edgesKnown" /\ b.l = l /\ b.rest = es
    BY DEF NoParent, EdgesKnown
  <2>2. \A e \in es : e \in edges' /\ e[3] = l.parent
    BY DEF Keeps
  <2>3. Climbing(K, a)'
    BY <1>3, <2>1 DEF Climbing
  <2>4. Climbing(K, b)'
    BY <1>3, <2>1, <2>2 DEF Climbing
  <2> QED BY <2>3, <2>4
<1>5. PICK fs \in Seq({a, b}) : Replace(fs) /\ Elems(fs) \subseteq {a, b}
  <2>1. Elems(<< >>) = {} /\ Elems(<< a >>) = {a} /\ Elems(<< b >>) = {b}
    BY OneCall
  <2>2. << >> \in Seq({a, b}) /\ << a >> \in Seq({a, b}) /\ << b >> \in Seq({a, b})
    OBVIOUS
  <2> QED BY <1>1, <2>1, <2>2
<1>6. \A k \in edgeListeners' \ edgeListeners : OfContext(K, k)'
  BY <1>1, <1>3
<1>7. \A f \in Elems(fs) : Climbing(K, f)'
  BY <1>4, <1>5
<1> QED BY <1>1, <1>5, <1>6, <1>7, WithinStep

-----------------------------------------------------------------------------
LEMMA NextKeeps == ASSUME Inv, [Next]_vars PROVE Keeps
<1>1. CASE Solvers
  <2>1. ASSUME NEW q \in Query, NEW fs, StartSolver(q, fs),
               UNCHANGED << icfgVars, trans, callRules, flowVars, graphVars >>
        PROVE  Keeps
    BY <2>1 DEF StartSolver, icfgVars, graphVars, Keeps
  <2>2. CASE \E q \in Roots : Solve(q)
    BY <2>1, <2>2, QueryAssumption DEF Solve
  <2>3. CASE \E e \in Raises : Raise(e[1], e[2], e[3])
    BY <2>1, <2>3, QueryAssumption DEF Raise
  <2>4. CASE \E s \in Solver : \E t \in Derived(s) : Derive(s, t)
    BY <2>4 DEF Derive, icfgVars, queryVars, autVars, graphVars, Keeps
  <2>5. CASE \E s \in Solver, x \in Site : ReachCall(s, x)
    BY <2>5 DEF ReachCall, queryVars, graphVars, Keeps
  <2>6. CASE \E c \in Resolved : AddCall(c[1], c[2])
    BY <2>6 DEF AddCall, queryVars, autVars, graphVars, Keeps
  <2> QED BY <1>1, <2>2, <2>3, <2>4, <2>5, <2>6 DEF Solvers
<1>2. CASE Engine
  <2>1. graph' = graph /\ solved' = solved /\ rootQuery' = rootQuery
    BY <1>2 DEF Engine, AddTransition, AddPotentialUnbalancedFlow, ForceFlow, PropagateToSites,
      AllowUnbalanced, PropagateFlows, PropagateUnbalancedToCallSite, AddUnbalancedState,
      AddCallerListener, TellKnownCallers, TellCalleeListeners, CallersAdded, TellCallerListeners,
      AddQueryEdge, TellEdgeListeners, RegisterSourceListener, ServeStates, Deliver,
      AskUnbalanced, RegisterEdgeListener, TellKnownEdges, NoParentEdge, EndLoop,
      icfgVars, queryVars
  <2>2. trans \subseteq trans' /\ sources \subseteq sources'
    BY <1>2 DEF Engine, AddTransition, AddPotentialUnbalancedFlow, ForceFlow, PropagateToSites,
      AllowUnbalanced, PropagateFlows, PropagateUnbalancedToCallSite, AddUnbalancedState,
      AddCallerListener, TellKnownCallers, TellCalleeListeners, CallersAdded, TellCallerListeners,
      AddQueryEdge, TellEdgeListeners, RegisterSourceListener, ServeStates, Deliver,
      AskUnbalanced, RegisterEdgeListener, TellKnownEdges, NoParentEdge, EndLoop, autVars
  <2>3. edges \subseteq edges'
    BY <1>2 DEF Engine, AddTransition, AddPotentialUnbalancedFlow, ForceFlow, PropagateToSites,
      AllowUnbalanced, PropagateFlows, PropagateUnbalancedToCallSite, AddUnbalancedState,
      AddCallerListener, TellKnownCallers, TellCalleeListeners, CallersAdded, TellCallerListeners,
      AddQueryEdge, TellEdgeListeners, RegisterSourceListener, ServeStates, Deliver,
      AskUnbalanced, RegisterEdgeListener, TellKnownEdges, NoParentEdge, EndLoop, graphVars
  <2> QED BY <2>1, <2>2, <2>3 DEF Keeps
<1>3. CASE UNCHANGED vars
  BY <1>3 DEF vars, icfgVars, queryVars, autVars, graphVars, Keeps
<1> QED BY <1>1, <1>2, <1>3 DEF Next

LEMMA NextWithin == ASSUME Inv, WithinInv, [Next]_vars PROVE WithinInv'
<1> SUFFICES ASSUME NEW K, Contexts(K)' PROVE Within(K)'
  BY DEF WithinInv
<1>1. Keeps
  BY NextKeeps
<1>2. Contexts(K) /\ Within(K)
  BY <1>1, ContextsKept DEF WithinInv
<1>3. CASE Solvers
  BY <1>1, <1>2, <1>3, WithinSolvers
<1>4. CASE Engine
  BY <1>1, <1>2, <1>4, WithinPlain, WithinForce, WithinAllow, WithinAddCaller, WithinTellCallers,
     WithinCallers, WithinNoParent, WithinRegister, WithinEdge, WithinEdgeAdded, WithinServe,
     WithinDeliver, WithinAsk, WithinWatch
  DEF Engine
<1>5. CASE UNCHANGED vars
  BY <1>1, <1>2, <1>5, OfContextKept, ClimbingKept, JustifiedKept, RootedKept
  DEF vars, icfgVars, flowVars, graphVars, Within, OfCaller
<1> QED BY <1>3, <1>4, <1>5 DEF Next

(* At every moment a solver may only return to call sites in the calling   *)
(* contexts of its queries, and to callers of methods in which their       *)
(* ancestors start: any set of contexts that is closed under what the      *)
(* edges, the automata and the declarations of the moment lead to, the     *)
(* least one included, justifies every permission                          *)
(* (QueryGraph.SourceListener, UnbalancedContextListener).                 *)
THEOREM PermitsFromContexts ==
  Spec => [](\A K : Contexts(K) => \A p \in permits : Justified(K, p))
<1>1. Init => WithinInv
  <2>1. Elems(<< >>) = {}
    BY DEF Elems
  <2> QED BY <2>1 DEF Init, WithinInv, Within
<1>2. WithinInv => \A K : Contexts(K) => \A p \in permits : Justified(K, p)
  BY DEF WithinInv, Within
<1>3. Inv /\ WithinInv /\ [Next]_vars => WithinInv'
  BY NextWithin
<1> QED BY <1>1, <1>2, <1>3, Inductive, PTL DEF Spec

-----------------------------------------------------------------------------
(* Every context is heard of.  What a table promises is there, or a call or *)
(* loop on the stack is going to bring it.                                 *)
Pending(f) == f \in Elems(stack)

Told(l) == l \in sourceListeners \/ Pending(Listen(l))
Given(c, m, x) ==
  m \in Excluded \/ << SolverOf(c), m, x >> \in permits \/ Pending(Allow(c, m, x))
Watched(k) == k \in edgeListeners \/ Pending(Watch(k))
Asked(l) == l \in callerListeners \/ Pending(AddCaller(l))

Next1(l, t) == Source(t.target, l.parent, l.child, LabelMethod(t.label))
Behind1(k, e) == Source(Fact(e[2]), e[1], k.child, None)

\* The target of such a transition is declared when a listener asks; a transition
\* before a call site comes ahead of the declaration.
Asks(t) == t.label[1] # "before" /\ t.target[1] # "entry"

\* l has been called with the transition, or a loop is going to.
Served(l, t) ==
  /\ Told(Next1(l, t))
  /\ l.state \in Generated /\ l.callee # None => Given(l.child, l.callee, t.label[2])
  /\ Pending(Ask(l, t)) \/ (Asks(t) => Watched(Unbalanced(l.child, l.parent, t)))
ToServe(f, l, s, t) ==
  \/ f = States(s, t)
  \/ f.op = "tell" /\ f.s = s /\ f.t = t /\ l \in f.rest
  \/ f.op = "replay" /\ f.l = l /\ t \in f.rest
DueTo(l, s, t) == \E f \in Elems(stack) : ToServe(f, l, s, t)

\* k is going to be called with the edge.
ToTell(f, k, e) ==
  (f.op = "tellEdge" /\ f.e = e /\ k \in f.rest) \/ (f.op = "edgesKnown" /\ f.l = k /\ e \in f.rest)
DueEdge(k, e) == \E f \in Elems(stack) : ToTell(f, k, e)

\* l is going to be called with the caller.
ToCaller(f, l, x) ==
  \/ f = Callers(x, l.callee)
  \/ f.op = "tellCallers" /\ f.site = x /\ l \in f.rest
  \/ f.op = "callersKnown" /\ f.l = l /\ x \in f.rest
DueCaller(l, x) == \E f \in Elems(stack) : ToCaller(f, l, x)

RootOf(k) == Context(k.child, FactMethod(k.parent, k.t.target))
IsRoot(k) == k.child \in Backward /\ \A e \in edges : e[3] # k.parent

\* The contexts of edges are listened for, ...
EdgesTold == \A e \in edges : Told(Source(Fact(e[2]), e[1], e[3], None))
\* ... each listener is called with every transition from its state, ...
ClimbsServed ==
  \A l \in sourceListeners, p \in trans : Climbs(l, p) =>
    Served(l, p[2]) \/ DueTo(l, p[1], p[2])
\* ... where its parent may end, it goes on behind every edge to that parent, ...
GoesOnBehind ==
  \A k \in edgeListeners, e \in edges : e[3] = k.parent => Told(Behind1(k, e)) \/ DueEdge(k, e)
\* ... and asks for the callers of a root, ...
RootsAsk == \A k \in edgeListeners : IsRoot(k) => Pending(NoParent(k)) \/ Asked(RootOf(k))
\* ... each of which it may return to.
CallersGiven ==
  \A l \in callerListeners, x \in Site :
    l.kind = "context" /\ << x, l.callee >> \in graph =>
      Given(l.child, l.callee, x) \/ DueCaller(l, x)

\* A solver starts with a transition from its first query's variable, which ends where
\* the transitions from there that go ahead of their declarations lead to.
First(s) == IF s = Shared THEN rootQuery ELSE s
FirstOf(s) == At(FirstHome(s), Start(First(s)))
Started == \A s \in Used : << s, FirstOf(s) >> \in trans \/ Pending(Add(s, FirstOf(s)))

PermitInv == EdgesTold /\ ClimbsServed /\ GoesOnBehind /\ RootsAsk /\ CallersGiven /\ Started

-----------------------------------------------------------------------------
(* Which step is made, and what it leaves *)

LEMMA EngineBy ==
  ASSUME Engine
  PROVE  /\ stack # << >>
         /\ Top.op = "listen" => RegisterSourceListener
         /\ Top.op = "allow" => AllowUnbalanced
         /\ Top.op = "watch" => RegisterEdgeListener
         /\ Top.op = "ask" => AskUnbalanced
         /\ Top.op = "noParent" => NoParentEdge
         /\ Top.op = "addCaller" => AddCallerListener
         /\ Top.op = "states" => ServeStates
         /\ Top.op = "callers" => CallersAdded
         /\ Top.op \in {"tell", "replay"} => Deliver \/ EndLoop
         /\ Top.op = "edgesKnown" => TellKnownEdges \/ EndLoop
         /\ Top.op = "tellEdge" => TellEdgeListeners \/ EndLoop
         /\ Top.op = "callersKnown" => TellKnownCallers \/ EndLoop
         /\ Top.op = "tellCallers" => TellCallerListeners \/ EndLoop
         /\ Top.op = "toSites" => PropagateToSites \/ EndLoop
         /\ Top.op = "flowsTo" => PropagateFlows \/ EndLoop
         /\ Top.op = "propagate" => PropagateUnbalancedToCallSite
         /\ Top.op = "declare" => AddUnbalancedState
         /\ Top.op = "add" => AddTransition
         /\ Top.op = "force" => ForceFlow
         /\ Top.op = "addEdge" => AddQueryEdge
<1>1. stack # << >>
  BY DEF Engine, AddTransition, AddPotentialUnbalancedFlow, ForceFlow, PropagateToSites,
    AllowUnbalanced, PropagateFlows, PropagateUnbalancedToCallSite, AddUnbalancedState,
    AddCallerListener, TellKnownCallers, TellCalleeListeners, CallersAdded, TellCallerListeners,
    AddQueryEdge, TellEdgeListeners, RegisterSourceListener, ServeStates, Deliver,
    AskUnbalanced, RegisterEdgeListener, TellKnownEdges, NoParentEdge, EndLoop, Running
<1>2. /\ AddTransition => Top.op = "add"
      /\ AddPotentialUnbalancedFlow => Top.op = "heard"
      /\ ForceFlow => Top.op = "force"
      /\ PropagateToSites => Top.op = "toSites"
      /\ AllowUnbalanced => Top.op = "allow"
      /\ PropagateFlows => Top.op = "flowsTo"
      /\ PropagateUnbalancedToCallSite => Top.op = "propagate"
      /\ AddUnbalancedState => Top.op = "declare"
      /\ AddCallerListener => Top.op = "addCaller"
      /\ TellKnownCallers => Top.op = "callersKnown"
      /\ TellCalleeListeners => Top.op = "callees"
      /\ CallersAdded => Top.op = "callers"
      /\ TellCallerListeners => Top.op = "tellCallers"
  BY DEF AddTransition, AddPotentialUnbalancedFlow, ForceFlow, PropagateToSites,
    AllowUnbalanced, PropagateFlows, PropagateUnbalancedToCallSite, AddUnbalancedState,
    AddCallerListener, TellKnownCallers, TellCalleeListeners, CallersAdded, TellCallerListeners,
    Running
<1>3. /\ AddQueryEdge => Top.op = "addEdge"
      /\ TellEdgeListeners => Top.op = "tellEdge"
      /\ RegisterSourceListener => Top.op = "listen"
      /\ ServeStates => Top.op = "states"
      /\ Deliver => Top.op \in {"tell", "replay"}
      /\ AskUnbalanced => Top.op = "ask"
      /\ RegisterEdgeListener => Top.op = "watch"
      /\ TellKnownEdges => Top.op = "edgesKnown"
      /\ NoParentEdge => Top.op = "noParent"
      /\ EndLoop => Top.op \in Loops \cup {"solving"}
  BY DEF AddQueryEdge, TellEdgeListeners, RegisterSourceListener, ServeStates, Deliver,
    AskUnbalanced, RegisterEdgeListener, TellKnownEdges, NoParentEdge, EndLoop, Running
<1> QED BY <1>1, <1>2, <1>3 DEF Engine, Loops

LEMMA EngineKeeps == ASSUME Inv, Engine PROVE BelowKept
  BY AddTransitionInv, AddPotentialUnbalancedFlowInv, ForceFlowInv, PropagateToSitesInv,
     AllowUnbalancedInv, PropagateFlowsInv, PropagateInv, AddUnbalancedStateInv,
     AddCallerListenerInv, TellKnownCallersInv, TellCalleeListenersInv, CallersAddedInv,
     TellCallerListenersInv, AddQueryEdgeInv, TellEdgeListenersInv, RegisterSourceListenerInv,
     ServeStatesInv, DeliverInv, AskUnbalancedInv, RegisterEdgeListenerInv, TellKnownEdgesInv,
     NoParentEdgeInv, EndLoopInv
  DEF Engine

LEMMA TwoCalls == ASSUME NEW a, NEW b PROVE Elems(<< a, b >>) = {a, b}
  BY DEF Elems

LEMMA PushedOn ==
  ASSUME Inv, NEW U, NEW fs \in Seq(U), Push(fs)
  PROVE  Elems(stack') = Elems(fs) \cup Elems(stack)
<1> DEFINE T == Frame \cup U
<1>1. stack \in Seq(T) /\ fs \in Seq(T)
  <2>1. \A A, B : A \subseteq B => Seq(A) \subseteq Seq(B)
    OBVIOUS
  <2> QED BY <2>1 DEF Inv
<1> HIDE DEF T
<1> QED BY <1>1, ConcatElems DEF Push

LEMMA SolversKeep == ASSUME Inv, Solvers PROVE Elems(stack) \subseteq Elems(stack')
<1>1. SUFFICES \/ stack' = stack
               \/ \E a, b, c, fs : /\ fs = << a >> \/ fs = << a, b >> \/ fs = << a, b, c >>
                                   /\ Push(fs)
  <2>1. ASSUME NEW a, NEW b, NEW c, NEW fs, Push(fs),
               fs = << a >> \/ fs = << a, b >> \/ fs = << a, b, c >>
        PROVE  Elems(stack) \subseteq Elems(stack')
    <3>1. fs \in Seq({a, b, c})
      BY <2>1, FewCalls
    <3> QED BY <2>1, <3>1, PushedOn
  <2> QED BY <2>1
<1>2. ASSUME NEW q, NEW e, NEW fs, fs = << >> \/ fs = << e >>, StartSolver(q, fs)
      PROVE  \E a, b : Push(<< a, b >>) \/ Push(<< a, b, e >>)
  <2> DEFINE a == Add(SolverOf(q), At(Home[q], Start(q)))
  <2>1. Push(<< a, Solving >> \o fs)
    BY <1>2 DEF StartSolver
  <2> HIDE DEF a
  <2>2. << a, Solving >> \o << >> = << a, Solving >>
    BY NoCalls
  <2>3. << a, Solving >> \o << e >> = << a, Solving, e >>
    BY JoinedCalls
  <2> QED BY <1>2, <2>1, <2>2, <2>3
<1>3. CASE \E q \in Roots : Solve(q)
  <2>1. \E q : StartSolver(q, << >>)
    BY <1>3 DEF Solve
  <2> QED BY <1>2, <2>1
<1>4. CASE \E e \in Raises : Raise(e[1], e[2], e[3])
  <2>1. \E q, e : StartSolver(q, << e >>)
    BY <1>4 DEF Raise
  <2> QED BY <1>2, <2>1
<1>5. CASE \E s \in Solver : \E t \in Derived(s) : Derive(s, t)
  <2>1. \E a : Push(<< a >>)
    BY <1>5 DEF Derive
  <2> QED BY <2>1
<1>6. CASE \E s \in Solver, x \in Site : ReachCall(s, x)
  BY <1>6 DEF ReachCall
<1>7. CASE \E r \in Resolved : AddCall(r[1], r[2])
  <2>1. \E a, b : Push(<< a, b >>)
    BY <1>7 DEF AddCall
  <2> QED BY <2>1
<1> QED BY <1>3, <1>4, <1>5, <1>6, <1>7 DEF Solvers

\* What is pending stays so, but for the top frame of an engine step.
LEMMA PendingStays ==
  ASSUME Inv, [Next]_vars, NEW f, Pending(f)
  PROVE  Pending(f)' \/ (Engine /\ f = Top)
<1>1. CASE Solvers
  BY <1>1, SolversKeep DEF Pending
<1>2. CASE Engine
  <2>1. stack # << >> /\ BelowKept
    BY <1>2, EngineBy, EngineKeeps
  <2> QED BY <1>2, <2>1, TopOrBelow DEF Inv, BelowKept, Pending, Top
<1>3. CASE UNCHANGED vars
  BY <1>3 DEF vars, Pending
<1> QED BY <1>1, <1>2, <1>3 DEF Next

\* What a step adds to the stack
LEMMA Brought ==
  ASSUME Inv, NEW a, NEW b, NEW c, NEW fs,
         fs = << >> \/ fs = << a >> \/ fs = << a, b >> \/ fs = << a, b, c >>,
         \/ Push(fs) \/ (stack # << >> /\ Replace(fs))
  PROVE  \A f \in Elems(fs) : Pending(f)'
<1>1. fs \in Seq({a, b, c})
  BY FewCalls
<1> QED BY <1>1, NewCalls DEF Pending

LEMMA BroughtByLoop ==
  ASSUME Inv, stack # << >>, NEW x, NEW a, NEW b, NEW c, NEW fs,
         fs = << >> \/ fs = << a >> \/ fs = << a, b >> \/ fs = << a, b, c >>, Take(x, fs)
  PROVE  /\ \A f \in Elems(fs) : Pending(f)'
         /\ \A f : f = [Top EXCEPT !.rest = @ \ {x}] => Pending(f)'
<1> DEFINE g == [Top EXCEPT !.rest = @ \ {x}]
           V == {a, b, c, g}
<1>1. fs \in Seq({a, b, c})
  BY FewCalls
<1> PICK h : h = g
  OBVIOUS
<1>2. Replace(fs \o << h >>)
  BY DEF Take
<1> HIDE DEF g
<1>3. fs \in Seq({a, b, c, h}) /\ << h >> \in Seq({a, b, c, h}) /\ Elems(<< h >>) = {h}
  <2>1. \A A, B : A \subseteq B => Seq(A) \subseteq Seq(B)
    OBVIOUS
  <2>2. fs \in Seq({a, b, c, h})
    BY <1>1, <2>1
  <2>3. << h >> \in Seq({a, b, c, h})
    OBVIOUS
  <2> QED BY <2>2, <2>3, OneCall
<1>4. Elems(fs \o << h >>) = Elems(fs) \cup {h} /\ fs \o << h >> \in Seq({a, b, c, h})
  BY <1>3, ConcatElems
<1>5. Elems(fs \o << h >>) \subseteq Elems(stack')
  BY <1>2, <1>4, NewCalls
<1> QED BY <1>4, <1>5 DEF Pending, g

\* Which step adds to which table
LEMMA Makers ==
  ASSUME Inv, [Next]_vars
  PROVE  /\ sourceListeners' = sourceListeners \/ RegisterSourceListener
         /\ edgeListeners' = edgeListeners \/ RegisterEdgeListener
         /\ callerListeners' = callerListeners \/ AddCallerListener
         /\ permits' = permits \/ AllowUnbalanced
         /\ edges' = edges \/ AddQueryEdge
         /\ trans' = trans \/ AddTransition
         /\ graph' = graph \/ \E r \in Resolved : AddCall(r[1], r[2])
         /\ Keeps /\ sourceListeners \subseteq sourceListeners'
         /\ edgeListeners \subseteq edgeListeners' /\ callerListeners \subseteq callerListeners'
         /\ permits \subseteq permits'
<1>1. CASE Solvers
  <2>1. UNCHANGED << sourceListeners, edgeListeners, callerListeners, permits, edges, trans >>
    BY <1>1 DEF Solvers, Solve, Raise, Derive, ReachCall, AddCall, icfgVars, queryVars, autVars,
           flowVars, graphVars
  <2>2. graph' = graph \/ \E r \in Resolved : AddCall(r[1], r[2])
    BY <1>1 DEF Solvers, Solve, Raise, Derive, ReachCall, icfgVars
  <2> QED BY <2>1, <2>2, NextKeeps
<1>2. CASE Engine
  <2>1. /\ graph' = graph
        /\ callerListeners' = callerListeners \/ AddCallerListener
        /\ trans' = trans \/ AddTransition
    BY <1>2 DEF Engine, AddTransition, AddPotentialUnbalancedFlow, ForceFlow, PropagateToSites,
      AllowUnbalanced, PropagateFlows, PropagateUnbalancedToCallSite, AddUnbalancedState,
      AddCallerListener, TellKnownCallers, TellCalleeListeners, CallersAdded, TellCallerListeners,
      AddQueryEdge, TellEdgeListeners, RegisterSourceListener, ServeStates, Deliver,
      AskUnbalanced, RegisterEdgeListener, TellKnownEdges, NoParentEdge, EndLoop,
      icfgVars, autVars
  <2>2. /\ permits' = permits \/ AllowUnbalanced
        /\ edges' = edges \/ AddQueryEdge
        /\ sourceListeners' = sourceListeners \/ RegisterSourceListener
        /\ edgeListeners' = edgeListeners \/ RegisterEdgeListener
    BY <1>2 DEF Engine, AddTransition, AddPotentialUnbalancedFlow, ForceFlow, PropagateToSites,
      AllowUnbalanced, PropagateFlows, PropagateUnbalancedToCallSite, AddUnbalancedState,
      AddCallerListener, TellKnownCallers, TellCalleeListeners, CallersAdded, TellCallerListeners,
      AddQueryEdge, TellEdgeListeners, RegisterSourceListener, ServeStates, Deliver,
      AskUnbalanced, RegisterEdgeListener, TellKnownEdges, NoParentEdge, EndLoop,
      flowVars, graphVars
  <2>3. /\ RegisterSourceListener => sourceListeners \subseteq sourceListeners'
        /\ RegisterEdgeListener => edgeListeners \subseteq edgeListeners'
        /\ AddCallerListener => callerListeners \subseteq callerListeners'
        /\ AllowUnbalanced => permits \subseteq permits'
    BY DEF RegisterSourceListener, RegisterEdgeListener, AddCallerListener, AllowUnbalanced
  <2> QED BY <2>1, <2>2, <2>3, NextKeeps
<1>3. CASE UNCHANGED vars
  BY <1>3, NextKeeps DEF vars, icfgVars, queryVars, autVars, flowVars, graphVars
<1> QED BY <1>1, <1>2, <1>3 DEF Next

LEMMA ToldKept == ASSUME Inv, [Next]_vars, NEW l, Told(l) PROVE Told(l)'
<1>1. CASE l \in sourceListeners
  BY <1>1, Makers DEF Told
<1>2. CASE Pending(Listen(l))
  <2>1. CASE Engine /\ Listen(l) = Top
    <3>1. Top.op = "listen" /\ Top.l = l
      BY <2>1 DEF Listen
    <3>2. l \in sourceListeners'
      BY <2>1, <3>1, EngineBy DEF RegisterSourceListener
    <3> QED BY <3>2 DEF Told
  <2> QED BY <1>2, <2>1, PendingStays DEF Told
<1> QED BY <1>1, <1>2 DEF Told

LEMMA GivenKept == ASSUME Inv, [Next]_vars, NEW c, NEW m, NEW x, Given(c, m, x) PROVE Given(c, m, x)'
<1>0. SolverOf(c)' = SolverOf(c)
  BY DEF SolverOf
<1>1. CASE m \in Excluded \/ << SolverOf(c), m, x >> \in permits
  BY <1>0, <1>1, Makers DEF Given
<1>2. CASE Pending(Allow(c, m, x))
  <2>1. CASE Engine /\ Allow(c, m, x) = Top
    <3>1. Top.op = "allow" /\ Top.child = c /\ Top.callee = m /\ Top.site = x
      BY <2>1 DEF Allow
    <3>2. m \in Excluded \/ << SolverOf(c), m, x >> \in permits'
      BY <2>1, <3>1, EngineBy DEF AllowUnbalanced
    <3> QED BY <1>0, <3>2 DEF Given
  <2> QED BY <1>2, <2>1, PendingStays DEF Given
<1> QED BY <1>1, <1>2 DEF Given

LEMMA WatchedKept == ASSUME Inv, [Next]_vars, NEW k, Watched(k) PROVE Watched(k)'
<1>1. CASE k \in edgeListeners
  BY <1>1, Makers DEF Watched
<1>2. CASE Pending(Watch(k))
  <2>1. CASE Engine /\ Watch(k) = Top
    <3>1. Top.op = "watch" /\ Top.l = k
      BY <2>1 DEF Watch
    <3>2. k \in edgeListeners'
      BY <2>1, <3>1, EngineBy DEF RegisterEdgeListener
    <3> QED BY <3>2 DEF Watched
  <2> QED BY <1>2, <2>1, PendingStays DEF Watched
<1> QED BY <1>1, <1>2 DEF Watched

LEMMA AskedKept == ASSUME Inv, [Next]_vars, NEW l, Asked(l) PROVE Asked(l)'
<1>1. CASE l \in callerListeners
  BY <1>1, Makers DEF Asked
<1>2. CASE Pending(AddCaller(l))
  <2>1. CASE Engine /\ AddCaller(l) = Top
    <3>1. Top.op = "addCaller" /\ Top.l = l
      BY <2>1 DEF AddCaller
    <3>2. l \in callerListeners'
      BY <2>1, <3>1, EngineBy DEF AddCallerListener
    <3> QED BY <3>2 DEF Asked
  <2> QED BY <1>2, <2>1, PendingStays DEF Asked
<1> QED BY <1>1, <1>2 DEF Asked

\* A target is declared by the time a listener asks for it.
LEMMA AskAnswered ==
  ASSUME Inv, CaughtInv, Engine, NEW l, NEW t, Ask(l, t) = Top
  PROVE  Asks(t) => Pending(Watch(Unbalanced(l.child, l.parent, t)))'
<1> PICK a : a = Watch(Unbalanced(l.child, l.parent, t))
  OBVIOUS
<1>1. Top.op = "ask" /\ Top.l = l /\ Top.t = t /\ AskUnbalanced /\ stack # << >>
  BY EngineBy DEF Ask
<1>2. << SolverOf(l.parent), t >> \in trans
  BY <1>1, TopFrame DEF Inv, AskFrame
<1>3. Asks(t) => Initial(SolverOf(l.parent), t.target)
  <2> DEFINE p == << SolverOf(l.parent), t >>
  <2>1. Sound(sources, p[1], p[2])
    BY <1>2 DEF CaughtInv
  <2>2. Sound(sources, SolverOf(l.parent), t)
    BY <2>1
  <2> QED BY <2>2 DEF Sound, Initial, InitialIn, Asks
<1>4. Asks(t) => Replace(<< a >>)
  BY <1>1, <1>3 DEF AskUnbalanced
<1>5. Elems(<< a >>) = {a}
  BY OneCall
<1> QED BY <1>1, <1>4, <1>5, Brought

LEMMA ServedKept ==
  ASSUME Inv, CaughtInv, [Next]_vars, NEW l, NEW t, Served(l, t) PROVE Served(l, t)'
<1>1. Told(Next1(l, t))'
  BY ToldKept DEF Served, Next1, Source, LabelMethod
<1>2. l.state \in Generated /\ l.callee # None => Given(l.child, l.callee, t.label[2])'
  BY GivenKept DEF Served
<1>3. CASE Asks(t) => Watched(Unbalanced(l.child, l.parent, t))
  <2>1. Asks(t) => Watched(Unbalanced(l.child, l.parent, t))'
    BY <1>3, WatchedKept
  <2> QED BY <1>1, <1>2, <2>1 DEF Served
<1>4. CASE Pending(Ask(l, t))
  <2>1. CASE Pending(Ask(l, t))'
    BY <1>1, <1>2, <2>1 DEF Served
  <2>2. CASE Engine /\ Ask(l, t) = Top
    <3>1. Asks(t) => Watched(Unbalanced(l.child, l.parent, t))'
      BY <2>2, AskAnswered DEF Watched
    <3> QED BY <1>1, <1>2, <3>1 DEF Served
  <2> QED BY <1>4, <2>1, <2>2, PendingStays
<1> QED BY <1>3, <1>4 DEF Served

\* A listener that is called with a transition, and the loop that calls it
LEMMA ServedNow ==
  ASSUME Inv, stack # << >>, NEW l, NEW t, NEW x, Take(x, OnOutTransitionAdded(l, t))
  PROVE  /\ l.state = t.start => Served(l, t)'
         /\ \A f : f = [Top EXCEPT !.rest = @ \ {x}] => Pending(f)'
<1> PICK a : a = Allow(l.child, l.callee, t.label[2])
  OBVIOUS
<1> PICK b : b = Listen(Next1(l, t))
  OBVIOUS
<1> PICK c : c = Ask(l, t)
  OBVIOUS
<1> PICK fs : fs = OnOutTransitionAdded(l, t)
  OBVIOUS
<1>1. Take(x, fs)
  OBVIOUS
<1>2. fs = (IF t.start \in Generated /\ l.callee # None THEN << a >> ELSE << >>) \o << b, c >>
  BY DEF OnOutTransitionAdded, Next1
<1>3. << a >> \o << b, c >> = << a, b, c >>
  BY JoinedCalls
<1>4. << >> \o << b, c >> = << b, c >>
  <2>1. << b, c >> \in Seq({b, c})
    OBVIOUS
  <2> QED BY <2>1, NoCalls
<1>5. /\ fs = << b, c >> \/ fs = << a, b, c >>
      /\ t.start \in Generated /\ l.callee # None => fs = << a, b, c >>
  BY <1>2, <1>3, <1>4
<1>6. /\ \A f \in Elems(fs) : Pending(f)'
      /\ \A f : f = [Top EXCEPT !.rest = @ \ {x}] => Pending(f)'
  <2>1. CASE fs = << b, c >>
    BY <1>1, <2>1, BroughtByLoop
  <2>2. CASE fs = << a, b, c >>
    BY <1>1, <2>2, BroughtByLoop
  <2> QED BY <1>5, <2>1, <2>2
<1>7. ASSUME l.state = t.start PROVE Served(l, t)'
  <2>1. Pending(b)' /\ Pending(c)' /\ (l.state \in Generated /\ l.callee # None => Pending(a)')
    <3>1. Elems(<< b, c >>) = {b, c}
      BY TwoCalls
    <3>2. Elems(<< a, b, c >>) = {a, b, c}
      BY DEF Elems
    <3> QED BY <1>5, <1>6, <1>7, <3>1, <3>2
  <2>2. Told(Next1(l, t))'
    BY <2>1 DEF Told, Next1, Listen, Source, LabelMethod
  <2>3. l.state \in Generated /\ l.callee # None => Given(l.child, l.callee, t.label[2])'
    BY <2>1 DEF Given, Allow
  <2>4. Pending(Ask(l, t))'
    BY <2>1 DEF Ask
  <2> QED BY <2>2, <2>3, <2>4 DEF Served
<1> QED BY <1>6, <1>7

\* What a loop goes on with
LEMMA LoopLeft ==
  ASSUME Inv, stack # << >>, Top.op \in Loops, NEW x, NEW f, f = [Top EXCEPT !.rest = @ \ {x}]
  PROVE  /\ f.op = Top.op /\ f.rest = Top.rest \ {x}
         /\ Top.op \in {"tell", "toSites"} => f.s = Top.s /\ f.t = Top.t
         /\ Top.op = "flowsTo" => f.s = Top.s /\ f.site = Top.site
         /\ Top.op \in {"replay", "edgesKnown", "callersKnown"} => f.l = Top.l
         /\ Top.op = "tellEdge" => f.e = Top.e
         /\ Top.op = "tellCallers" => f.site = Top.site
<1> PICK top : top = Top
  OBVIOUS
<1> QED
  BY TopFrame DEF Inv, Loops, TellFrame, ReplayFrame, ToSitesFrame, FlowsToFrame,
     CallersKnownFrame, CalleesFrame, TellCallersFrame, EdgesKnownFrame, TellEdgeFrame

LEMMA DueKept ==
  ASSUME Inv, [Next]_vars, NEW l \in sourceListeners, NEW p, Climbs(l, p), DueTo(l, p[1], p[2])
  PROVE  Served(l, p[2])' \/ DueTo(l, p[1], p[2])'
<1> PICK s : s = p[1]
  OBVIOUS
<1> PICK t : t = p[2]
  OBVIOUS
<1>1. SolverOf(l.parent) = s /\ t.start = l.state
  BY DEF Climbs
<1>2. PICK f : Pending(f) /\ ToServe(f, l, s, t)
  BY DEF DueTo, Pending
<1>3. ToServe(f, l, s, t)'
  BY <1>2 DEF ToServe, States
<1>4. CASE Pending(f)'
  BY <1>3, <1>4 DEF DueTo, Pending
<1>5. CASE Engine /\ f = Top
  <2>1. stack # << >>
    BY <1>5, EngineBy
  <2>2. CASE f = States(s, t)
    <3> DEFINE ls == { k \in sourceListeners : SolverOf(k.parent) = s /\ k.state = t.start }
    <3> PICK a : a = Tell(s, t, ls)
      OBVIOUS
    <3>1. Top.op = "states" /\ Top.s = s /\ Top.t = t
      BY <1>5, <2>2 DEF States
    <3>2. Replace(<< a >>)
      BY <1>5, <3>1, EngineBy DEF ServeStates
    <3>3. Pending(a)'
      <4>1. Elems(<< a >>) = {a}
        BY OneCall
      <4> QED BY <2>1, <3>2, <4>1, Brought
    <3>4. a.op = "tell" /\ a.s = s /\ a.t = t /\ l \in a.rest
      BY <1>1 DEF Tell
    <3> QED BY <3>3, <3>4 DEF DueTo, ToServe, Pending
  <2>3. CASE f.op = "tell" /\ f.s = s /\ f.t = t /\ l \in f.rest
    <3>1. Deliver
      BY <1>5, <2>3, EngineBy DEF EndLoop, Running
    <3>2. PICK k \in Top.rest : Take(k, OnOutTransitionAdded(k, t))
      BY <1>5, <2>3, <3>1 DEF Deliver, Running
    <3>3. CASE k = l
      BY <1>1, <2>1, <3>2, <3>3, ServedNow
    <3>4. CASE k # l
      <4> PICK g : g = [Top EXCEPT !.rest = @ \ {k}]
        OBVIOUS
      <4>1. Pending(g)'
        BY <2>1, <3>2, ServedNow
      <4>2. ToServe(g, l, s, t)
        BY <1>5, <2>1, <2>3, <3>4, LoopLeft DEF ToServe, Loops
      <4> QED BY <4>1, <4>2 DEF DueTo, ToServe, States, Pending
    <3> QED BY <3>3, <3>4
  <2>4. CASE f.op = "replay" /\ f.l = l /\ t \in f.rest
    <3>1. Deliver
      BY <1>5, <2>4, EngineBy DEF EndLoop, Running
    <3>2. PICK u \in Top.rest : Take(u, OnOutTransitionAdded(l, u))
      BY <1>5, <2>4, <3>1 DEF Deliver, Running
    <3>3. CASE u = t
      BY <1>1, <2>1, <3>2, <3>3, ServedNow
    <3>4. CASE u # t
      <4> PICK g : g = [Top EXCEPT !.rest = @ \ {u}]
        OBVIOUS
      <4>1. Pending(g)'
        BY <2>1, <3>2, ServedNow
      <4>2. ToServe(g, l, s, t)
        BY <1>5, <2>1, <2>4, <3>4, LoopLeft DEF ToServe, Loops
      <4> QED BY <4>1, <4>2 DEF DueTo, ToServe, States, Pending
    <3> QED BY <3>3, <3>4
  <2> QED BY <1>2, <2>2, <2>3, <2>4 DEF ToServe
<1> QED BY <1>2, <1>4, <1>5, PendingStays

\* A loop that makes one call for an element of what is left
LEMMA OneTaken ==
  ASSUME Inv, stack # << >>, NEW x, NEW a, Take(x, << a >>)
  PROVE  Pending(a)' /\ \A f : f = [Top EXCEPT !.rest = @ \ {x}] => Pending(f)'
<1>1. Elems(<< a >>) = {a}
  BY OneCall
<1> QED BY <1>1, BroughtByLoop

LEMMA DueEdgeKept ==
  ASSUME Inv, [Next]_vars, NEW k, NEW e, DueEdge(k, e)
  PROVE  Told(Behind1(k, e))' \/ DueEdge(k, e)'
<1>1. PICK f : Pending(f) /\ ToTell(f, k, e)
  BY DEF DueEdge, Pending
<1>2. CASE Pending(f)'
  BY <1>1, <1>2 DEF DueEdge, Pending, ToTell
<1>3. CASE Engine /\ f = Top
  <2>1. stack # << >>
    BY <1>3, EngineBy
  <2>2. ASSUME NEW a, a = EdgeAdded(k, e), NEW x, Take(x, << a >>) PROVE Told(Behind1(k, e))'
    BY <2>1, <2>2, OneTaken DEF EdgeAdded, Told, Behind1, Source, Fact, Listen
  <2>3. ASSUME NEW x, NEW a, Take(x, << a >>),
               NEW g, g = [Top EXCEPT !.rest = @ \ {x}], ToTell(g, k, e)
        PROVE  DueEdge(k, e)'
    BY <2>1, <2>3, OneTaken DEF DueEdge, ToTell, Pending
  <2>4. CASE f.op = "tellEdge" /\ f.e = e /\ k \in f.rest
    <3>1. TellEdgeListeners
      BY <1>3, <2>4, EngineBy DEF EndLoop, Running
    <3>2. PICK j \in Top.rest : Take(j, << EdgeAdded(j, e) >>)
      BY <1>3, <2>4, <3>1 DEF TellEdgeListeners
    <3>3. CASE j = k
      BY <2>2, <3>2, <3>3
    <3>4. CASE j # k
      <4> PICK g : g = [Top EXCEPT !.rest = @ \ {j}]
        OBVIOUS
      <4>1. ToTell(g, k, e)
        BY <1>3, <2>1, <2>4, <3>4, LoopLeft DEF ToTell, Loops
      <4> QED BY <2>3, <3>2, <4>1
    <3> QED BY <3>3, <3>4
  <2>5. CASE f.op = "edgesKnown" /\ f.l = k /\ e \in f.rest
    <3>1. TellKnownEdges
      BY <1>3, <2>5, EngineBy DEF EndLoop, Running
    <3>2. PICK d \in Top.rest : Take(d, << EdgeAdded(k, d) >>)
      BY <1>3, <2>5, <3>1 DEF TellKnownEdges
    <3>3. CASE d = e
      BY <2>2, <3>2, <3>3
    <3>4. CASE d # e
      <4> PICK g : g = [Top EXCEPT !.rest = @ \ {d}]
        OBVIOUS
      <4>1. ToTell(g, k, e)
        BY <1>3, <2>1, <2>5, <3>4, LoopLeft DEF ToTell, Loops
      <4> QED BY <2>3, <3>2, <4>1
    <3> QED BY <3>3, <3>4
  <2> QED BY <1>1, <2>4, <2>5 DEF ToTell
<1> QED BY <1>1, <1>2, <1>3, PendingStays

LEMMA DueCallerKept ==
  ASSUME Inv, [Next]_vars, NEW l \in callerListeners, NEW x, DueCaller(l, x)
  PROVE  (\E a : a = OnCallerAdded(l, x) /\ Pending(a)') \/ DueCaller(l, x)'
<1>1. PICK f : Pending(f) /\ ToCaller(f, l, x)
  BY DEF DueCaller, Pending
<1>2. CASE Pending(f)'
  BY <1>1, <1>2 DEF DueCaller, Pending, ToCaller, Callers
<1>3. CASE Engine /\ f = Top
  <2>1. stack # << >>
    BY <1>3, EngineBy
  <2>2. ASSUME NEW a, a = OnCallerAdded(l, x), NEW y, Take(y, << a >>)
        PROVE  \E c : c = OnCallerAdded(l, x) /\ Pending(c)'
    BY <2>1, <2>2, OneTaken
  <2>3. ASSUME NEW y, NEW a, Take(y, << a >>),
               NEW g, g = [Top EXCEPT !.rest = @ \ {y}], ToCaller(g, l, x)
        PROVE  DueCaller(l, x)'
    BY <2>1, <2>3, OneTaken DEF DueCaller, ToCaller, Callers, Pending
  <2>4. CASE f = Callers(x, l.callee)
    <3> PICK a : a = TellCallers(x, { k \in callerListeners : k.callee = l.callee })
      OBVIOUS
    <3>1. Top.op = "callers" /\ Top.site = x /\ Top.callee = l.callee
      BY <1>3, <2>4 DEF Callers
    <3>2. Replace(<< a >>)
      BY <1>3, <3>1, EngineBy DEF CallersAdded
    <3>3. Pending(a)'
      <4>1. Elems(<< a >>) = {a}
        BY OneCall
      <4> QED BY <2>1, <3>2, <4>1, Brought
    <3>4. a.op = "tellCallers" /\ a.site = x /\ l \in a.rest
      BY DEF TellCallers
    <3> QED BY <3>3, <3>4 DEF DueCaller, ToCaller, Pending
  <2>5. CASE f.op = "tellCallers" /\ f.site = x /\ l \in f.rest
    <3>1. TellCallerListeners
      BY <1>3, <2>5, EngineBy DEF EndLoop, Running
    <3>2. PICK k \in Top.rest : Take(k, << OnCallerAdded(k, x) >>)
      BY <1>3, <2>5, <3>1 DEF TellCallerListeners
    <3>3. CASE k = l
      BY <2>2, <3>2, <3>3
    <3>4. CASE k # l
      <4> PICK g : g = [Top EXCEPT !.rest = @ \ {k}]
        OBVIOUS
      <4>1. ToCaller(g, l, x)
        BY <1>3, <2>1, <2>5, <3>4, LoopLeft DEF ToCaller, Loops
      <4> QED BY <2>3, <3>2, <4>1
    <3> QED BY <3>3, <3>4
  <2>6. CASE f.op = "callersKnown" /\ f.l = l /\ x \in f.rest
    <3>1. TellKnownCallers
      BY <1>3, <2>6, EngineBy DEF EndLoop, Running
    <3>2. PICK y \in Top.rest : Take(y, << OnCallerAdded(l, y) >>)
      BY <1>3, <2>6, <3>1 DEF TellKnownCallers
    <3>3. CASE y = x
      BY <2>2, <3>2, <3>3
    <3>4. CASE y # x
      <4> PICK g : g = [Top EXCEPT !.rest = @ \ {y}]
        OBVIOUS
      <4>1. ToCaller(g, l, x)
        BY <1>3, <2>1, <2>6, <3>4, LoopLeft DEF ToCaller, Loops
      <4> QED BY <2>3, <3>2, <4>1
    <3> QED BY <3>3, <3>4
  <2> QED BY <1>1, <2>4, <2>5, <2>6 DEF ToCaller
<1> QED BY <1>1, <1>2, <1>3, PendingStays

\* The method of a fact of a solver that is used
LEMMA RootOfKept ==
  ASSUME Inv, [Next]_vars, NEW k \in edgeListeners PROVE RootOf(k)' = RootOf(k)
<1>1. SolverOf(k.parent) \in Used
  BY DEF Inv, QueriesInv, EdgeListener
<1>2. FirstHome(SolverOf(k.parent))' = FirstHome(SolverOf(k.parent))
  BY <1>1, Makers DEF Keeps, Used, FirstHome, SolverOf
<1> QED BY <1>2 DEF RootOf, Context, FactMethod

LEMMA NoParentKept ==
  ASSUME Inv, [Next]_vars, NEW k \in edgeListeners, k.child \in Backward,
         Pending(NoParent(k)) \/ Asked(RootOf(k))
  PROVE  Pending(NoParent(k))' \/ Asked(RootOf(k))'
<1>1. RootOf(k)' = RootOf(k)
  BY RootOfKept
<1>2. CASE Asked(RootOf(k))
  <2> PICK c : c = RootOf(k)
    OBVIOUS
  <2>1. Asked(c)'
    BY <1>2, AskedKept
  <2> QED BY <1>1, <2>1 DEF Asked
<1>3. CASE Pending(NoParent(k)) /\ Engine /\ NoParent(k) = Top
  <2> PICK a : a = AddCaller(RootOf(k))
    OBVIOUS
  <2>1. Top.op = "noParent" /\ Top.l = k /\ stack # << >>
    BY <1>3, EngineBy DEF NoParent
  <2>2. Replace(<< a >>)
    BY <1>3, <2>1, EngineBy DEF NoParentEdge, RootOf
  <2>3. Pending(a)'
    <3>1. Elems(<< a >>) = {a}
      BY OneCall
    <3> QED BY <2>1, <2>2, <3>1, Brought
  <2> QED BY <1>1, <2>3 DEF Asked, AddCaller
<1>4. CASE Pending(NoParent(k)) /\ ~ (Engine /\ NoParent(k) = Top)
  <2>1. Pending(NoParent(k))'
    BY <1>4, PendingStays
  <2> QED BY <2>1
<1> QED BY <1>2, <1>3, <1>4

-----------------------------------------------------------------------------
(* Every step keeps the promises. *)

LEMMA NextEdgesTold == ASSUME Inv, EdgesTold, [Next]_vars PROVE EdgesTold'
<1> SUFFICES ASSUME NEW e \in edges' PROVE Told(Source(Fact(e[2]), e[1], e[3], None))'
  BY DEF EdgesTold, Source, Fact
<1> PICK l : l = Source(Fact(e[2]), e[1], e[3], None)
  OBVIOUS
<1>1. CASE e \in edges
  <2>1. Told(l)'
    BY <1>1, ToldKept DEF EdgesTold
  <2> QED BY <2>1 DEF Told, Listen
<1>2. CASE e \notin edges
  <2>1. AddQueryEdge /\ stack # << >> /\ Top.e = e
    BY <1>2, Makers DEF AddQueryEdge, Running
  <2> PICK a : a = Listen(l)
    OBVIOUS
  <2> PICK b : b = TellEdge(e, { k \in edgeListeners : k.parent = e[3] })
    OBVIOUS
  <2>2. Replace(<< b >> \o << a >>)
    BY <1>2, <2>1 DEF AddQueryEdge
  <2>3. Replace(<< b, a >>)
    BY <2>2, JoinedCalls
  <2>4. Elems(<< b, a >>) = {a, b}
    BY TwoCalls
  <2>5. Pending(a)'
    BY <2>1, <2>3, <2>4, Brought
  <2> QED BY <2>5 DEF Told, Listen
<1> QED BY <1>1, <1>2

LEMMA NextClimbsServed ==
  ASSUME Inv, CaughtInv, ClimbsServed, [Next]_vars PROVE ClimbsServed'
<1> SUFFICES ASSUME NEW l \in sourceListeners', NEW p \in trans', Climbs(l, p)
             PROVE  Served(l, p[2])' \/ DueTo(l, p[1], p[2])'
  <2>1. \A l, p : Climbs(l, p)' <=> Climbs(l, p)
    BY DEF Climbs, SolverOf
  <2> QED BY <2>1 DEF ClimbsServed
<1>1. CASE l \in sourceListeners /\ p \in trans
  <2>1. CASE Served(l, p[2])
    <3> PICK t : t = p[2]
      OBVIOUS
    <3>1. Served(l, t)'
      BY <2>1, ServedKept
    <3> QED BY <3>1
  <2>2. CASE DueTo(l, p[1], p[2])
    BY <1>1, <2>2, DueKept
  <2> QED BY <1>1, <2>1, <2>2 DEF ClimbsServed
<1>2. CASE l \notin sourceListeners
  <2>1. RegisterSourceListener /\ stack # << >> /\ Top.l = l /\ trans' = trans
    BY <1>2, Makers DEF RegisterSourceListener, Running, autVars
  <2> PICK a : a = Replay(l, { t \in Of(SolverOf(l.parent)) : t.start = l.state })
    OBVIOUS
  <2>2. Replace(<< a >>)
    BY <1>2, <2>1 DEF RegisterSourceListener
  <2>3. Pending(a)'
    <3>1. Elems(<< a >>) = {a}
      BY OneCall
    <3> QED BY <2>1, <2>2, <3>1, Brought
  <2>4. a.op = "replay" /\ a.l = l /\ p[2] \in a.rest
    BY <2>1 DEF Replay, Of, Climbs
  <2> QED BY <2>3, <2>4 DEF DueTo, ToServe, Pending
<1>3. CASE p \notin trans
  <2>1. AddTransition /\ stack # << >> /\ p = << Top.s, Top.t >>
    BY <1>3, Makers DEF AddTransition, Running
  <2> PICK a : a = Heard(Top.s, Top.t)
    OBVIOUS
  <2> PICK b : b = States(Top.s, Top.t)
    OBVIOUS
  <2>2. Replace(<< a, b >>)
    BY <1>3, <2>1 DEF AddTransition
  <2>3. Elems(<< a, b >>) = {a, b}
    BY TwoCalls
  <2>4. Pending(b)'
    BY <2>1, <2>2, <2>3, Brought
  <2>5. b = States(p[1], p[2])
    BY <2>1
  <2> QED BY <2>4, <2>5 DEF DueTo, ToServe, Pending, States
<1> QED BY <1>1, <1>2, <1>3

LEMMA NextGoesOnBehind == ASSUME Inv, GoesOnBehind, [Next]_vars PROVE GoesOnBehind'
<1> SUFFICES ASSUME NEW k \in edgeListeners', NEW e \in edges', e[3] = k.parent
             PROVE  Told(Behind1(k, e))' \/ DueEdge(k, e)'
  BY DEF GoesOnBehind
<1>1. CASE k \in edgeListeners /\ e \in edges
  <2> PICK l : l = Behind1(k, e)
    OBVIOUS
  <2>1. CASE Told(l)
    <3>1. Told(l)'
      BY <2>1, ToldKept
    <3> QED BY <3>1 DEF Told, Behind1, Source, Fact, Listen
  <2>2. CASE DueEdge(k, e)
    BY <2>2, DueEdgeKept
  <2> QED BY <1>1, <2>1, <2>2 DEF GoesOnBehind
<1>2. CASE k \notin edgeListeners
  <2>1. RegisterEdgeListener /\ stack # << >> /\ Top.l = k /\ edges' = edges
    BY <1>2, Makers DEF RegisterEdgeListener, Running
  <2> PICK es : es = { d \in edges : d[3] = k.parent }
    OBVIOUS
  <2> PICK a : a = EdgesKnown(k, es)
    OBVIOUS
  <2>2. Replace(<< a >>) /\ e \in es
    BY <1>2, <2>1 DEF RegisterEdgeListener
  <2>3. Pending(a)'
    <3>1. Elems(<< a >>) = {a}
      BY OneCall
    <3> QED BY <2>1, <2>2, <3>1, Brought
  <2>4. a.op = "edgesKnown" /\ a.l = k /\ e \in a.rest
    BY <2>2 DEF EdgesKnown
  <2> QED BY <2>3, <2>4 DEF DueEdge, ToTell, Pending
<1>3. CASE k \in edgeListeners /\ e \notin edges
  <2>1. AddQueryEdge /\ stack # << >> /\ Top.e = e
    BY <1>3, Makers DEF AddQueryEdge, Running
  <2> PICK a : a = TellEdge(e, { j \in edgeListeners : j.parent = e[3] })
    OBVIOUS
  <2> PICK b : b = Listen(Source(Fact(e[2]), e[1], e[3], None))
    OBVIOUS
  <2>2. Replace(<< a >> \o << b >>)
    BY <1>3, <2>1 DEF AddQueryEdge
  <2>3. Replace(<< a, b >>)
    BY <2>2, JoinedCalls
  <2>4. Elems(<< a, b >>) = {a, b}
    BY TwoCalls
  <2>5. Pending(a)'
    BY <2>1, <2>3, <2>4, Brought
  <2>6. a.op = "tellEdge" /\ a.e = e /\ k \in a.rest
    BY <1>3 DEF TellEdge
  <2> QED BY <2>5, <2>6 DEF DueEdge, ToTell, Pending
<1> QED BY <1>1, <1>2, <1>3

LEMMA NextRootsAsk == ASSUME Inv, RootsAsk, [Next]_vars PROVE RootsAsk'
<1> SUFFICES ASSUME NEW k \in edgeListeners', IsRoot(k)'
             PROVE  Pending(NoParent(k))' \/ Asked(RootOf(k))'
  BY DEF RootsAsk
<1>1. IsRoot(k) /\ k.child \in Backward
  BY Makers DEF IsRoot, Keeps
<1>2. CASE k \in edgeListeners
  BY <1>1, <1>2, NoParentKept DEF RootsAsk
<1>3. CASE k \notin edgeListeners
  <2>1. RegisterEdgeListener /\ stack # << >> /\ Top.l = k /\ edges' = edges
    BY <1>3, Makers DEF RegisterEdgeListener, Running
  <2> PICK a : a = NoParent(k)
    OBVIOUS
  <2>2. Replace(<< a >>)
    BY <1>1, <1>3, <2>1 DEF RegisterEdgeListener, IsRoot
  <2>3. Pending(a)'
    <3>1. Elems(<< a >>) = {a}
      BY OneCall
    <3> QED BY <2>1, <2>2, <3>1, Brought
  <2> QED BY <2>3 DEF NoParent
<1> QED BY <1>2, <1>3

\* A new listener is told of the callers there are, and the listeners of a new caller.
LEMMA NewDueCaller ==
  ASSUME Inv, [Next]_vars, NEW l \in callerListeners', NEW x \in Site, << x, l.callee >> \in graph',
         ~ (l \in callerListeners /\ << x, l.callee >> \in graph)
  PROVE  DueCaller(l, x)'
<1>1. CASE l \notin callerListeners
  <2>1. AddCallerListener /\ stack # << >> /\ Top.l = l /\ graph' = graph
    BY <1>1, Makers DEF AddCallerListener, Running
  <2> PICK a : a = CallersKnown(l, { y \in Site : << y, l.callee >> \in graph })
    OBVIOUS
  <2>2. Replace(<< a >>)
    BY <2>1 DEF AddCallerListener
  <2>3. Pending(a)'
    <3>1. Elems(<< a >>) = {a}
      BY OneCall
    <3> QED BY <2>1, <2>2, <3>1, Brought
  <2>4. a.op = "callersKnown" /\ a.l = l /\ x \in a.rest
    BY <2>1 DEF CallersKnown
  <2> QED BY <2>3, <2>4 DEF DueCaller, ToCaller, Pending
<1>2. CASE << x, l.callee >> \notin graph
  <2>1. PICK r \in Resolved : AddCall(r[1], r[2])
    BY <1>2, Makers
  <2>2. x = r[1] /\ l.callee = r[2]
    BY <1>2, <2>1 DEF AddCall
  <2> PICK a : a = Callees(x, l.callee, { s \in Solver : << s, x >> \in calleeListeners })
    OBVIOUS
  <2> PICK b : b = Callers(x, l.callee)
    OBVIOUS
  <2>3. Push(<< a, b >>)
    BY <2>1, <2>2 DEF AddCall
  <2>4. Elems(<< a, b >>) = {a, b}
    BY TwoCalls
  <2>5. Pending(b)'
    <3> PICK fs : fs = << a, b >>
      OBVIOUS
    <3>1. Push(fs) /\ b \in Elems(fs)
      BY <2>3, <2>4
    <3>2. \A f \in Elems(fs) : Pending(f)'
      BY <3>1, Brought
    <3> QED BY <3>1, <3>2
  <2>6. ToCaller(b, l, x)'
    BY DEF ToCaller, Callers
  <2>7. b \in Elems(stack')
    BY <2>5 DEF Pending
  <2> QED BY <2>6, <2>7 DEF DueCaller
<1> QED BY <1>1, <1>2

LEMMA NextCallersGiven == ASSUME Inv, CallersGiven, [Next]_vars PROVE CallersGiven'
<1> SUFFICES ASSUME NEW l \in callerListeners', NEW x \in Site, l.kind = "context",
                    << x, l.callee >> \in graph'
             PROVE  Given(l.child, l.callee, x)' \/ DueCaller(l, x)'
  BY DEF CallersGiven
<1>1. CASE l \in callerListeners /\ << x, l.callee >> \in graph
  <2>1. CASE Given(l.child, l.callee, x)
    BY <2>1, GivenKept
  <2>2. CASE DueCaller(l, x)
    <3>1. CASE \E a : a = OnCallerAdded(l, x) /\ Pending(a)'
      BY <3>1 DEF OnCallerAdded, Given, Allow
    <3> QED BY <1>1, <2>2, <3>1, DueCallerKept
  <2> QED BY <1>1, <2>1, <2>2 DEF CallersGiven
<1>2. CASE ~ (l \in callerListeners /\ << x, l.callee >> \in graph)
  BY <1>2, NewDueCaller
<1> QED BY <1>1, <1>2

LEMMA StartedBy ==
  ASSUME Inv, [Next]_vars, NEW s \in Used' \ Used
  PROVE  \E q, fs : /\ q \in Query /\ StartSolver(q, fs) /\ SolverOf(q) = s
                    /\ fs = << >> \/ \E e : fs = << e >>
<1>1. CASE \E q, fs : q \in Query /\ StartSolver(q, fs) /\ (fs = << >> \/ \E e : fs = << e >>)
  <2>1. PICK q, fs : q \in Query /\ StartSolver(q, fs) /\ (fs = << >> \/ \E e : fs = << e >>)
    BY <1>1
  <2>2. SolverOf(q) = s
    <3>1. solved' = solved \cup {q} /\ (rootQuery' = rootQuery \/ q \in Backward)
      BY <2>1 DEF StartSolver
    <3> QED BY <2>1, <3>1, SolverTyped DEF Used, SolverOf, Solver, StartSolver
  <2> QED BY <2>1, <2>2
<1>2. CASE solved' = solved /\ rootQuery' = rootQuery
  BY <1>2 DEF Used
<1>3. CASE Solvers
  <2>1. CASE \E q \in Roots : Solve(q)
    BY <1>1, <2>1, QueryAssumption DEF Solve
  <2>2. CASE \E e \in Raises : Raise(e[1], e[2], e[3])
    <3>1. PICK e \in Raises : Raise(e[1], e[2], e[3])
      BY <2>2
    <3>2. e[3] \in Query /\ StartSolver(e[3], << AddEdge(e[1], e[2], e[3]) >>)
      BY <3>1, QueryAssumption DEF Raise
    <3> QED BY <1>1, <3>2
  <2>3. CASE ~ (\E q \in Roots : Solve(q)) /\ ~ \E e \in Raises : Raise(e[1], e[2], e[3])
    BY <1>2, <1>3, <2>3 DEF Solvers, Derive, ReachCall, AddCall, queryVars
  <2> QED BY <2>1, <2>2, <2>3
<1>4. CASE Engine
  BY <1>2, <1>4 DEF Engine, AddTransition, AddPotentialUnbalancedFlow, ForceFlow,
    PropagateToSites, AllowUnbalanced, PropagateFlows, PropagateUnbalancedToCallSite,
    AddUnbalancedState, AddCallerListener, TellKnownCallers, TellCalleeListeners, CallersAdded,
    TellCallerListeners, AddQueryEdge, TellEdgeListeners, RegisterSourceListener, ServeStates,
    Deliver, AskUnbalanced, RegisterEdgeListener, TellKnownEdges, NoParentEdge, EndLoop,
    queryVars
<1>5. CASE UNCHANGED vars
  BY <1>2, <1>5 DEF vars, queryVars
<1> QED BY <1>3, <1>4, <1>5 DEF Next

LEMMA NextStarted == ASSUME Inv, Started, [Next]_vars PROVE Started'
<1> SUFFICES ASSUME NEW s \in Used'
             PROVE  << s, FirstOf(s) >>' \in trans' \/ Pending(Add(s, FirstOf(s)))'
  BY DEF Started
<1>1. CASE s \in Used
  <2>1. FirstOf(s)' = FirstOf(s)
    BY <1>1, Makers DEF Keeps, Used, FirstOf, First, FirstHome, At, Start, Fact, Tr
  <2> PICK t : t = FirstOf(s)
    OBVIOUS
  <2> PICK a : a = Add(s, t)
    OBVIOUS
  <2>2. CASE << s, t >> \in trans
    BY <2>1, <2>2, Makers DEF Keeps
  <2>3. CASE Pending(a)'
    BY <2>1, <2>3 DEF Add
  <2>4. CASE Pending(a) /\ Engine /\ a = Top
    <3>1. Top.op = "add" /\ Top.s = s /\ Top.t = t
      BY <2>4 DEF Add
    <3>2. AddTransition
      BY <2>4, <3>1, EngineBy
    <3>3. << s, t >> \in trans'
      BY <3>1, <3>2 DEF AddTransition
    <3> QED BY <2>1, <3>3
  <2> QED BY <1>1, <2>2, <2>3, <2>4, PendingStays DEF Started
<1>2. CASE s \notin Used
  <2>1. PICK q, fs : /\ q \in Query /\ StartSolver(q, fs) /\ SolverOf(q) = s
                     /\ fs = << >> \/ \E e : fs = << e >>
    BY <1>2, StartedBy
  <2>2. FirstOf(s)' = At(Home[q], Start(q))
    <3>1. CASE q \in Backward
      BY <1>2, <2>1, <3>1 DEF StartSolver, SolverOf, Used, FirstOf, First, FirstHome, Solver
    <3>2. CASE q \notin Backward
      BY <2>1, <3>2, SolverTyped DEF SolverOf, FirstOf, First, FirstHome
    <3> QED BY <3>1, <3>2
  <2> PICK a : a = Add(s, At(Home[q], Start(q)))
    OBVIOUS
  <2>3. Pending(a)'
    <3>1. Push(<< a, Solving >> \o fs)
      BY <2>1 DEF StartSolver
    <3>2. \E e : Push(<< a, Solving >>) \/ Push(<< a, Solving, e >>)
      <4>1. CASE fs = << >>
        <5>1. << a, Solving >> \in Seq({a, Solving})
          OBVIOUS
        <5> QED BY <3>1, <4>1, <5>1, NoCalls
      <4>2. CASE \E e : fs = << e >>
        <5>1. PICK e : fs = << e >>
          BY <4>2
        <5>2. << a, Solving >> \o << e >> = << a, Solving, e >>
          BY JoinedCalls
        <5> QED BY <3>1, <5>1, <5>2
      <4> QED BY <2>1, <4>1, <4>2
    <3>3. PICK e : Push(<< a, Solving >>) \/ Push(<< a, Solving, e >>)
      BY <3>2
    <3>4. a \in Elems(<< a, Solving >>) /\ a \in Elems(<< a, Solving, e >>)
      BY DEF Elems
    <3> QED BY <3>3, <3>4, Brought
  <2> QED BY <2>2, <2>3 DEF Add
<1> QED BY <1>1, <1>2

LEMMA NextPermits ==
  ASSUME Inv, CaughtInv, PermitInv, [Next]_vars PROVE PermitInv'
  BY NextEdgesTold, NextClimbsServed, NextGoesOnBehind, NextRootsAsk, NextCallersGiven,
     NextStarted
  DEF PermitInv

\* When nothing is on the stack the promises are kept.
LEMMA QuietServed ==
  ASSUME PermitInv, stack = << >>, NEW l \in sourceListeners, NEW p \in trans, Climbs(l, p)
  PROVE  /\ Source(p[2].target, l.parent, l.child, LabelMethod(p[2].label)) \in sourceListeners
         /\ l.state \in Generated /\ l.callee # None => Returns(l, l.callee, {p[2].label[2]})
         /\ Asks(p[2]) => Unbalanced(l.child, l.parent, p[2]) \in edgeListeners
<1>1. Elems(stack) = {}
  BY OneCall
<1>2. Served(l, p[2])
  BY <1>1 DEF PermitInv, ClimbsServed, DueTo
<1> QED BY <1>1, <1>2 DEF Served, Told, Given, Watched, Pending, Next1, Returns

\* Where a listener leaves its parent, a listener to the edges of that parent is
\* registered, for this transition or the first of the solver.
LEMMA QuietWatched ==
  ASSUME Inv, CaughtInv, PermitInv, stack = << >>,
         NEW l \in sourceListeners, NEW p \in trans, LeavesBy(l, p)
  PROVE  \E k \in edgeListeners :
           /\ k.child = l.child /\ k.parent = l.parent
           /\ FactMethod(k.parent, k.t.target) = FactMethod(l.parent, p[2].target)
<1> PICK s : s = SolverOf(l.parent)
  OBVIOUS
<1>1. Climbs(l, p) /\ p[1] = s /\ p[2].start = l.state /\ p[2].target[1] # "entry"
  BY DEF LeavesBy, Climbs, Initial, CaughtInv
<1>2. CASE p[2].label[1] # "before"
  <2> PICK k : k = Unbalanced(l.child, l.parent, p[2])
    OBVIOUS
  <2>1. k \in edgeListeners
    BY <1>1, <1>2, QuietServed DEF Asks
  <2>2. k.child = l.child /\ k.parent = l.parent /\ k.t = p[2]
    BY DEF Unbalanced
  <2> QED BY <2>1, <2>2
<1>3. CASE p[2].label[1] = "before"
  <2>1. s \in Used /\ p \in Used \X Placed /\ l.state = Fact(FirstHome(s))
    BY <1>1, <1>3 DEF Inv, QueriesInv, AutomataInv, SourceListener, Ahead
  <2> PICK t : t = FirstOf(s)
    OBVIOUS
  <2> PICK u : u = << s, t >>
    OBVIOUS
  <2>2. u \in trans
    <3>1. Elems(stack) = {}
      BY OneCall
    <3> QED BY <2>1, <3>1 DEF PermitInv, Started, Pending
  <2>3. t.start = l.state /\ t.label[1] = "in" /\ t.target = Start(First(s))
    BY <2>1 DEF FirstOf, At, Tr
  <2>4. Climbs(l, u) /\ u[2] = t /\ Asks(t)
    BY <2>3 DEF Climbs, Asks, Start
  <2> PICK k : k = Unbalanced(l.child, l.parent, t)
    OBVIOUS
  <2>5. k \in edgeListeners
    BY <2>2, <2>4, QuietServed
  <2>6. k.child = l.child /\ k.parent = l.parent /\ k.t = t
    BY DEF Unbalanced
  <2>7. FactMethod(l.parent, t.target) = FirstHome(s)
    BY <2>3 DEF FactMethod, Start, First, FirstHome
  <2>8. FactMethod(l.parent, p[2].target) = FirstHome(s)
    <3>1. p[2].target = Return(p[2].label[2])
      BY <1>3 DEF Inv, AutomataInv, Ahead
    <3> QED BY <3>1 DEF FactMethod, Return
  <2> QED BY <2>5, <2>6, <2>7, <2>8
<1> QED BY <1>2, <1>3

LEMMA QuietPermits == ASSUME Inv, CaughtInv, PermitInv PROVE QuietPermitted
<1> SUFFICES ASSUME stack = << >> PROVE QuietPermitted
  BY DEF QuietPermitted
<1>1. Elems(stack) = {}
  BY OneCall
<1>2. \A e \in edges : Source(Fact(e[2]), e[1], e[3], None) \in sourceListeners
  BY <1>1 DEF PermitInv, EdgesTold, Told, Pending
<1>3. \A l \in sourceListeners, p \in trans : Climbs(l, p) =>
        /\ Source(p[2].target, l.parent, l.child, LabelMethod(p[2].label)) \in sourceListeners
        /\ l.state \in Generated /\ l.callee # None => Returns(l, l.callee, {p[2].label[2]})
  BY QuietServed
<1>4. ASSUME NEW l \in sourceListeners, NEW p \in trans, NEW e \in edges,
             LeavesBy(l, p), e[3] = l.parent
      PROVE  Source(Fact(e[2]), e[1], l.child, None) \in sourceListeners
  <2>1. PICK k \in edgeListeners : k.child = l.child /\ k.parent = l.parent
    BY <1>4, QuietWatched
  <2>2. Told(Behind1(k, e)) \/ DueEdge(k, e)
    BY <1>4, <2>1 DEF PermitInv, GoesOnBehind
  <2> QED BY <1>1, <2>1, <2>2 DEF Told, Pending, DueEdge, Behind1
<1>5. ASSUME NEW l \in sourceListeners, NEW p \in trans, LeavesBy(l, p),
             l.child \in Backward, \A e \in edges : e[3] # l.parent,
             NEW m, m = FactMethod(l.parent, p[2].target)
      PROVE  Returns(l, m, { x \in Site : << x, m >> \in graph })
  <2>1. PICK k \in edgeListeners : /\ k.child = l.child /\ k.parent = l.parent
                                   /\ FactMethod(k.parent, k.t.target) = m
    BY <1>5, QuietWatched
  <2> PICK c : c = Context(l.child, m)
    OBVIOUS
  <2>2. IsRoot(k) /\ RootOf(k) = c
    BY <1>5, <2>1 DEF IsRoot, RootOf
  <2>3. c \in callerListeners
    BY <1>1, <2>2 DEF PermitInv, RootsAsk, Asked, Pending
  <2>4. c.kind = "context" /\ c.child = l.child /\ c.callee = m
    BY DEF Context
  <2>5. \A x \in Site : << x, m >> \in graph =>
          m \in Excluded \/ << SolverOf(l.child), m, x >> \in permits
    BY <1>1, <2>3, <2>4 DEF PermitInv, CallersGiven, Given, DueCaller, Pending
  <2> QED BY <2>5 DEF Returns
<1>6. Contexts(sourceListeners)
  BY <1>2, <1>3, <1>4 DEF Contexts
<1> QED BY <1>3, <1>5, <1>6 DEF QuietPermitted, LeavesBy

(* In the end every query may return to every call site in the calling     *)
(* contexts of the queries that led to it, and, as a backward query, to    *)
(* every caller of the root they end in.  No order of queries, edges,      *)
(* transitions, calls and declarations loses one: each table calls the     *)
(* listeners it has when an element comes, and a listener the elements     *)
(* there are, and a listener that asks whether a target is declared before *)
(* it is asks for the solver's first transition as well                    *)
(* (QueryGraph.SourceListener, UnbalancedContextListener,                  *)
(* WeightedPAutomaton, ObservableDynamicICFG).                             *)
THEOREM AllPermitted == Spec => []QuietPermitted
<1>1. Init => PermitInv
  BY DEF Init, PermitInv, EdgesTold, ClimbsServed, GoesOnBehind, RootsAsk, CallersGiven,
         Started, Used, Solver
<1>2. Inv /\ CaughtInv /\ PermitInv /\ [Next]_vars => PermitInv'
  BY NextPermits
<1>3. Inv /\ CaughtInv /\ PermitInv => QuietPermitted
  BY QuietPermits
<1> QED BY <1>1, <1>2, <1>3, Catches, PTL DEF Spec

-----------------------------------------------------------------------------
(* A flow that is forced returns to every caller the call graph ends with, and *)
(* one that only a root can have led to is forced.                             *)

\* A return that is promised is made, or stays so.
LEMMA PromisedKept ==
  ASSUME Inv, [Next]_vars, NEW s, NEW t, NEW x, Initial(s, t.target), Promised(s, t, x)
  PROVE  Promised(s, t, x)'
<1> PICK y : y = Return(x)
  OBVIOUS
<1> PICK b : b = Behind(t.target, x, y)
  OBVIOUS
<1> PICK d : d = Declare(s, y, t.target)
  OBVIOUS
<1> PICK g0 : g0 = Propagate(s, x, t)
  OBVIOUS
<1>1. /\ \A g : Pending(g)' /\ Awaits(g, s, t, x) => Promised(s, t, x)'
      /\ Pending(g0)' => Promised(s, t, x)'
      /\ << s, b >> \in trans' \/ Pending(Add(s, b))' =>
           (Initial(s, y)' \/ Pending(d)' => Promised(s, t, x)')
  BY DEF Promised, Pending, Awaits, Propagate, Declare, Behind, Return, Tr, Add
<1>2. ASSUME NEW g, Pending(g), Awaits(g, s, t, x), Engine, g = Top
      PROVE  Promised(s, t, x)'
  <2>1. stack # << >>
    BY <1>2, EngineBy
  <2>2. CASE g.op = "toSites" /\ g.s = s /\ g.t = t /\ x \in g.rest
    <3>1. PropagateToSites
      BY <1>2, <2>2, EngineBy DEF EndLoop, Running
    <3>2. PICK z \in Top.rest : Take(z, << Propagate(s, z, t) >>)
      BY <1>2, <2>2, <3>1 DEF PropagateToSites
    <3>3. CASE z = x
      BY <1>1, <2>1, <3>2, <3>3, OneTaken
    <3>4. CASE z # x
      <4> PICK f : f = [Top EXCEPT !.rest = @ \ {z}]
        OBVIOUS
      <4>1. Awaits(f, s, t, x)
        BY <1>2, <2>1, <2>2, <3>4, LoopLeft DEF Awaits, Loops
      <4> QED BY <1>1, <2>1, <3>2, <4>1, OneTaken
    <3> QED BY <3>3, <3>4
  <2>3. CASE g.op = "flowsTo" /\ g.s = s /\ g.site = x /\ t \in g.rest
    <3>1. PropagateFlows
      BY <1>2, <2>3, EngineBy DEF EndLoop, Running
    <3>2. PICK u \in Top.rest : Take(u, << Propagate(s, x, u) >>)
      BY <1>2, <2>3, <3>1 DEF PropagateFlows
    <3>3. CASE u = t
      BY <1>1, <2>1, <3>2, <3>3, OneTaken
    <3>4. CASE u # t
      <4> PICK f : f = [Top EXCEPT !.rest = @ \ {u}]
        OBVIOUS
      <4>1. Awaits(f, s, t, x)
        BY <1>2, <2>1, <2>3, <3>4, LoopLeft DEF Awaits, Loops
      <4> QED BY <1>1, <2>1, <3>2, <4>1, OneTaken
    <3> QED BY <3>3, <3>4
  <2>4. CASE g = g0
    <3>1. Top.op = "propagate" /\ Top.s = s /\ Top.site = x /\ Top.t = t
      BY <1>2, <2>4 DEF Propagate
    <3>2. IsMatchingCallSiteCalleePair(x, LabelMethod(t.label))
      BY <2>1, <3>1, TopFrame DEF Inv, PropagateFrame, IsMatchingCallSiteCalleePair
    <3> PICK a : a = Add(s, Tr(Fact(FirstHome(s)), << "before", x >>, y))
      OBVIOUS
    <3> PICK c : c = Add(s, b)
      OBVIOUS
    <3>3. Replace(<< a, d, c >>)
      BY <1>2, <3>1, <3>2, EngineBy DEF PropagateUnbalancedToCallSite
    <3>4. Pending(d)' /\ Pending(c)'
      BY <2>1, <3>3, OnTop DEF Inv, Pending
    <3> QED BY <1>1, <3>4 DEF Add
  <2> QED BY <1>2, <2>2, <2>3, <2>4 DEF Awaits
<1>3. CASE \E g : Pending(g) /\ Awaits(g, s, t, x)
  BY <1>1, <1>2, <1>3, PendingStays
<1>4. CASE (<< s, b >> \in trans \/ Pending(Add(s, b))) /\ (Initial(s, y) \/ Pending(d))
  <2>1. << s, b >> \in trans' \/ Pending(Add(s, b))'
    <3>1. CASE << s, b >> \in trans
      BY <3>1, Makers DEF Keeps
    <3>2. CASE Engine /\ Add(s, b) = Top
      <4>1. Top.op = "add" /\ Top.s = s /\ Top.t = b
        BY <3>2 DEF Add
      <4> QED BY <3>2, <4>1, EngineBy DEF AddTransition
    <3>3. CASE Pending(Add(s, b)) /\ ~ (Engine /\ Add(s, b) = Top)
      <4> PICK a : a = Add(s, b)
        OBVIOUS
      <4>1. Pending(a)'
        BY <3>3, PendingStays
      <4> QED BY <4>1 DEF Add
    <3> QED BY <1>4, <3>1, <3>2, <3>3
  <2>2. Initial(s, y)' \/ Pending(d)'
    <3>1. CASE Initial(s, y)
      BY <3>1, Makers DEF Keeps, Initial
    <3>2. CASE Engine /\ d = Top
      <4>1. Top.op = "declare" /\ Top.s = s /\ Top.state = y /\ Top.parent = t.target
        BY <3>2 DEF Declare
      <4>2. AddUnbalancedState
        BY <3>2, <4>1, EngineBy
      <4>3. PICK p \in sources : p[1] = s /\ p[2] = t.target
        BY DEF Initial
      <4>4. << s, y, p[3] >> \in sources'
        BY <4>1, <4>2, <4>3 DEF AddUnbalancedState
      <4> QED BY <4>4 DEF Initial
    <3> QED BY <1>4, <3>1, <3>2, PendingStays
  <2> QED BY <1>1, <2>1, <2>2
<1> QED BY <1>3, <1>4 DEF Promised, Pending

\* The flow of a listener that forces it returns to each caller that is known.
CallersForced ==
  \A l \in callerListeners, x \in Site :
    l.kind = "force" /\ << x, l.callee >> \in graph =>
      Promised(l.solver, l.t, x) \/ DueCaller(l, x)

\* A query is a root, or another one has raised it ...
RaisedBy(p, m, q) == << p, m, q >> \in edges \/ Pending(AddEdge(p, m, q))
Raised(q) == \E p, m : RaisedBy(p, m, q)
RootOrRaised == \A q \in solved : q \in roots \/ Raised(q)

\* ... so that a flow that is not forced is shared with a query that is no root.
Shares(s, x) ==
  IF s = Shared THEN \E p \in sources : p[1] = s /\ p[2] = x /\ p[3] # rootQuery
  ELSE Raised(s)
FlowForced(f) ==
  Pending(Forcing(f[1], f[2])) \/ Asked(Forced(f)) \/ Shares(f[1], f[2].target)
FlowsForced == \A f \in flows : FlowForced(f)

ForceInv == CallersForced /\ RootOrRaised /\ FlowsForced

LEMMA NextCallersForced ==
  ASSUME Inv, FlowsInitial, CaughtInv, CallersForced, [Next]_vars PROVE CallersForced'
<1> SUFFICES ASSUME NEW l \in callerListeners', NEW x \in Site, l.kind = "force",
                    << x, l.callee >> \in graph'
             PROVE  Promised(l.solver, l.t, x)' \/ DueCaller(l, x)'
  BY DEF CallersForced
<1>1. CASE l \in callerListeners /\ << x, l.callee >> \in graph
  <2>1. Initial(l.solver, l.t.target)
    <3>1. << l.solver, l.t >> \in flows
      BY <1>1 DEF CaughtInv, OfFlow
    <3> PICK f : f = << l.solver, l.t >>
      OBVIOUS
    <3>2. f \in flows /\ f[1] = l.solver /\ f[2] = l.t
      BY <3>1
    <3> QED BY <3>2 DEF FlowsInitial
  <2>2. CASE Promised(l.solver, l.t, x)
    BY <2>1, <2>2, PromisedKept
  <2>3. CASE DueCaller(l, x)
    <3>1. ASSUME NEW a, a = OnCallerAdded(l, x), Pending(a)' PROVE Promised(l.solver, l.t, x)'
      <4>1. Awaits(a, l.solver, l.t, x)
        BY <3>1 DEF OnCallerAdded, Awaits
      <4> QED BY <3>1, <4>1 DEF Promised, Pending, Awaits, Propagate
    <3> QED BY <1>1, <2>3, <3>1, DueCallerKept
  <2> QED BY <1>1, <2>2, <2>3 DEF CallersForced
<1>2. CASE ~ (l \in callerListeners /\ << x, l.callee >> \in graph)
  BY <1>2, NewDueCaller
<1> QED BY <1>1, <1>2

\* A query that was raised has an edge, or is about to get it.
LEMMA RaisedKept == ASSUME Inv, [Next]_vars, NEW q, Raised(q) PROVE Raised(q)'
<1>1. PICK p, m : RaisedBy(p, m, q)
  BY DEF Raised
<1> PICK e : e = << p, m, q >>
  OBVIOUS
<1> PICK f : f = AddEdge(p, m, q)
  OBVIOUS
<1>2. e \in edges' \/ Pending(f)' => Raised(q)'
  BY DEF Raised, RaisedBy, AddEdge
<1>3. CASE e \in edges
  BY <1>2, <1>3, Makers DEF Keeps
<1>4. CASE Pending(f) /\ Engine /\ f = Top
  <2>1. Top.op = "addEdge" /\ Top.e = e
    BY <1>4 DEF AddEdge
  <2>2. e \in edges'
    BY <1>4, <2>1, EngineBy DEF AddQueryEdge
  <2> QED BY <1>2, <2>2
<1>5. CASE Pending(f) /\ ~ (Engine /\ f = Top)
  BY <1>2, <1>5, PendingStays
<1> QED BY <1>1, <1>3, <1>4, <1>5 DEF RaisedBy

\* Which step adds queries, roots, sources and flows
LEMMA QueryMakers ==
  ASSUME Inv, [Next]_vars
  PROVE  /\ \/ solved' = solved
            \/ \E q \in Roots : Solve(q)
            \/ \E e \in Raises : Raise(e[1], e[2], e[3])
         /\ roots \subseteq roots'
         /\ flows' = flows \/ AddPotentialUnbalancedFlow
<1>1. CASE Solvers
  <2>1. flows' = flows /\ roots \subseteq roots'
    BY <1>1 DEF Solvers, Solve, Raise, Derive, ReachCall, AddCall, queryVars, flowVars
  <2>2. \/ solved' = solved
        \/ \E q \in Roots : Solve(q)
        \/ \E e \in Raises : Raise(e[1], e[2], e[3])
    BY <1>1 DEF Solvers, Derive, ReachCall, AddCall, queryVars
  <2> QED BY <2>1, <2>2
<1>2. CASE Engine
  <2>1. solved' = solved /\ roots' = roots
    BY <1>2 DEF Engine, AddTransition, AddPotentialUnbalancedFlow, ForceFlow, PropagateToSites,
      AllowUnbalanced, PropagateFlows, PropagateUnbalancedToCallSite, AddUnbalancedState,
      AddCallerListener, TellKnownCallers, TellCalleeListeners, CallersAdded, TellCallerListeners,
      AddQueryEdge, TellEdgeListeners, RegisterSourceListener, ServeStates, Deliver,
      AskUnbalanced, RegisterEdgeListener, TellKnownEdges, NoParentEdge, EndLoop, queryVars
  <2>2. flows' = flows \/ AddPotentialUnbalancedFlow
    BY <1>2 DEF Engine, AddTransition, ForceFlow, PropagateToSites,
      AllowUnbalanced, PropagateFlows, PropagateUnbalancedToCallSite, AddUnbalancedState,
      AddCallerListener, TellKnownCallers, TellCalleeListeners, CallersAdded, TellCallerListeners,
      AddQueryEdge, TellEdgeListeners, RegisterSourceListener, ServeStates, Deliver,
      AskUnbalanced, RegisterEdgeListener, TellKnownEdges, NoParentEdge, EndLoop, flowVars
  <2> QED BY <2>1, <2>2
<1>3. CASE UNCHANGED vars
  BY <1>3 DEF vars, queryVars, flowVars
<1> QED BY <1>1, <1>2, <1>3 DEF Next

LEMMA NextRootOrRaised == ASSUME Inv, RootOrRaised, [Next]_vars PROVE RootOrRaised'
<1> SUFFICES ASSUME NEW q \in solved' PROVE q \in roots' \/ Raised(q)'
  BY DEF RootOrRaised
<1>1. CASE q \in solved
  BY <1>1, RaisedKept, QueryMakers DEF RootOrRaised
<1>2. CASE q \notin solved /\ \E r \in Roots : Solve(r)
  BY <1>2 DEF Solve, StartSolver
<1>3. CASE q \notin solved /\ \E e \in Raises : Raise(e[1], e[2], e[3])
  <2>1. PICK e \in Raises : Raise(e[1], e[2], e[3])
    BY <1>3
  <2> PICK p, m : p = e[1] /\ m = e[2]
    OBVIOUS
  <2> PICK f : f = AddEdge(p, m, q)
    OBVIOUS
  <2> PICK a : a = Add(SolverOf(q), At(Home[q], Start(q)))
    OBVIOUS
  <2>2. e[3] = q
    BY <1>3, <2>1 DEF Raise, StartSolver
  <2>3. StartSolver(q, << f >>)
    BY <2>1, <2>2 DEF Raise
  <2>4. Push(<< a, Solving >> \o << f >>)
    BY <2>3 DEF StartSolver
  <2>5. << a, Solving >> \o << f >> = << a, Solving, f >>
    BY JoinedCalls
  <2>6. f \in Elems(<< a, Solving, f >>)
    BY DEF Elems
  <2>7. Pending(f)'
    BY <2>4, <2>5, <2>6, Brought
  <2> QED BY <2>7 DEF Raised, RaisedBy, AddEdge
<1> QED BY <1>1, <1>2, <1>3, QueryMakers

LEMMA SharesKept ==
  ASSUME Inv, [Next]_vars, NEW s, NEW x, Shares(s, x) PROVE Shares(s, x)'
<1>1. CASE s = Shared
  <2>1. PICK p \in sources : p[1] = s /\ p[2] = x /\ p[3] # rootQuery
    BY <1>1 DEF Shares
  <2>2. s \in Used
    <3>1. p \in Used \X Generated \X solved
      BY <2>1 DEF Inv, AutomataInv
    <3> QED BY <2>1, <3>1
  <2>3. rootQuery' = rootQuery /\ p \in sources'
    BY <1>1, <2>1, <2>2, Makers DEF Keeps, Used
  <2> QED BY <1>1, <2>1, <2>3 DEF Shares
<1>2. CASE s # Shared
  BY <1>2, RaisedKept DEF Shares
<1> QED BY <1>1, <1>2

\* A flow that is not forced when it is new is shared with a query that is no root.
LEMMA ForceOrShares ==
  ASSUME Inv, FlowsInitial, RootOrRaised, NEW f \in flows, ~ ForceUnbalanced(f[1], f[2].target)
  PROVE  Shares(f[1], f[2].target)
<1>1. PICK p \in sources : p[1] = f[1] /\ p[2] = f[2].target
  BY DEF FlowsInitial, Initial
<1>2. p \in Used \X Generated \X solved
  BY <1>1 DEF Inv, AutomataInv
<1>3. p = << p[1], p[2], p[3] >> /\ f[1] \in Used
  BY <1>1, <1>2
<1>4. CASE f[1] = Shared
  <2>1. p[3] # rootQuery
    BY <1>1, <1>3, <1>4 DEF ForceUnbalanced
  <2> QED BY <1>1, <1>4, <2>1 DEF Shares
<1>5. CASE f[1] # Shared
  BY <1>3, <1>5 DEF Used, ForceUnbalanced, RootOrRaised, Shares
<1> QED BY <1>4, <1>5

LEMMA FlowForcedKept ==
  ASSUME Inv, FlowsInitial, RootOrRaised, [Next]_vars, NEW f \in flows, FlowForced(f)
  PROVE  FlowForced(f)'
<1> PICK k : k = Forcing(f[1], f[2])
  OBVIOUS
<1> PICK l : l = Forced(f)
  OBVIOUS
<1>1. Pending(k)' \/ Asked(l)' \/ Shares(f[1], f[2].target)' => FlowForced(f)'
  BY DEF FlowForced, Forcing, Forced, LabelMethod, Asked, Pending
<1>2. CASE Pending(k) /\ Engine /\ k = Top
  <2>1. Top.op = "force" /\ Top.s = f[1] /\ Top.t = f[2] /\ stack # << >>
    BY <1>2, EngineBy DEF Forcing
  <2>2. ForceFlow
    BY <1>2, <2>1, EngineBy
  <2>3. CASE ForceUnbalanced(f[1], f[2].target)
    <3> PICK a : a = AddCaller(l)
      OBVIOUS
    <3>1. Forced(<< Top.s, Top.t >>) = l
      BY <2>1 DEF Forced
    <3>2. Replace(<< a >>)
      BY <2>1, <2>2, <2>3, <3>1 DEF ForceFlow
    <3>3. Elems(<< a >>) = {a}
      BY OneCall
    <3>4. Pending(a)'
      BY <2>1, <3>2, <3>3, Brought
    <3> QED BY <1>1, <3>4 DEF Asked, AddCaller
  <2>4. CASE ~ ForceUnbalanced(f[1], f[2].target)
    BY <1>1, <2>4, ForceOrShares, SharesKept
  <2> QED BY <2>3, <2>4
<1>3. CASE Pending(k) /\ ~ (Engine /\ k = Top)
  BY <1>1, <1>3, PendingStays
<1>4. CASE Asked(l) \/ Shares(f[1], f[2].target)
  BY <1>1, <1>4, AskedKept, SharesKept
<1> QED BY <1>2, <1>3, <1>4 DEF FlowForced

LEMMA NextFlowsForced ==
  ASSUME Inv, FlowsInitial, RootOrRaised, FlowsForced, [Next]_vars PROVE FlowsForced'
<1> SUFFICES ASSUME NEW f \in flows' PROVE FlowForced(f)'
  BY DEF FlowsForced
<1>1. CASE f \in flows
  BY <1>1, FlowForcedKept DEF FlowsForced
<1>2. CASE f \notin flows
  <2>1. AddPotentialUnbalancedFlow
    BY <1>2, QueryMakers
  <2>2. f = << Top.s, Top.t >> /\ stack # << >> /\ Top.op = "heard"
    BY <1>2, <2>1 DEF AddPotentialUnbalancedFlow, Running
  <2> PICK k : k = Forcing(Top.s, Top.t)
    OBVIOUS
  <2> PICK a : a = ToSites(Top.s, Top.t,
                     { x \in Site : << Top.s, LabelMethod(Top.t.label), x >> \in permits })
    OBVIOUS
  <2>3. Replace(<< a >> \o << k >>)
    BY <1>2, <2>1, <2>2 DEF AddPotentialUnbalancedFlow
  <2>4. Pending(k)'
    BY <2>2, <2>3, OnTop DEF Inv, Pending
  <2>5. k = Forcing(f[1], f[2])
    BY <2>2
  <2> QED BY <2>4, <2>5 DEF FlowForced, Forcing
<1> QED BY <1>1, <1>2

LEMMA QuietForces == ASSUME Inv, ForceInv PROVE QuietForcedAlone
<1> SUFFICES ASSUME stack = << >>, NEW f \in flows,
                    Forced(f) \in callerListeners \/ OnlyOfRoot(f[1], f[2].target),
                    NEW x \in Site, << x, LabelMethod(f[2].label) >> \in graph
             PROVE  Returned(f[1], f[2], x)
  BY DEF QuietForcedAlone
<1> PICK l : l = Forced(f)
  OBVIOUS
<1>1. Elems(stack) = {}
  BY OneCall
<1>2. l \in callerListeners
  <2>1. OnlyOfRoot(f[1], f[2].target) => ~ Shares(f[1], f[2].target)
    BY <1>1 DEF OnlyOfRoot, Shares, Raised, RaisedBy, Pending
  <2> QED BY <1>1, <2>1 DEF ForceInv, FlowsForced, FlowForced, Pending, Asked
<1>3. l.kind = "force" /\ l.solver = f[1] /\ l.t = f[2] /\ l.callee = LabelMethod(f[2].label)
  BY DEF Forced
<1>4. Promised(f[1], f[2], x)
  BY <1>1, <1>2, <1>3 DEF ForceInv, CallersForced, DueCaller
<1> QED BY <1>1, <1>4 DEF Promised, Returned

(* In the end a flow that is forced has returned to every caller the call  *)
(* graph ends with, those that were found before it, after it and in the   *)
(* middle of it; and a flow is forced unless its target is shared, at that *)
(* moment, with a query that is no root.  That the question is asked once  *)
(* costs nothing else (AbstractBoomerangSolver.addPotentialUnbalancedFlow, *)
(* forceUnbalanced, ObservableDynamicICFG.addCallerListener).              *)
THEOREM ForcedAlone == Spec => []QuietForcedAlone
<1>1. Init => ForceInv
  BY DEF Init, ForceInv, CallersForced, RootOrRaised, FlowsForced
<1>2. Inv /\ ReturnInv /\ CaughtInv /\ ForceInv /\ [Next]_vars => ForceInv'
  BY NextCallersForced, NextRootOrRaised, NextFlowsForced DEF ForceInv, ReturnInv
<1>3. Inv /\ ForceInv => QuietForcedAlone
  BY QuietForces
<1> QED BY <1>1, <1>2, <1>3, Catches, PTL DEF Spec
=============================================================================
