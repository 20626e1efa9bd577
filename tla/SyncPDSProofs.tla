---------------------------- MODULE SyncPDSProofs ----------------------------
(***************************************************************************)
(* Theorems about SyncPDS, for every program, field and set of listeners.  *)
(*                                                                         *)
(* TypeCorrect comes first.  It types the rules and transitions of both    *)
(* systems through Saturation's derivation operators, which shows that     *)
(* only proper nodes are ever reported to the two context sets.  The other *)
(* theorems rest on what one step does to `calls': a call that is still    *)
(* ahead stays ahead unless it is the one that runs.                       *)
(***************************************************************************)
EXTENDS SyncPDS, TLAPS

-----------------------------------------------------------------------------
(* What the two systems derive is typed. *)

\* Every transition the call automaton may take up next is typed.
LEMMA CallDueTyped ==
  ASSUME TypeOK
  PROVE  C!Due \subseteq CallTransition
<1>1. C!RuleDerives(callRules, callTrans) \subseteq CallTransition
  <2> SUFFICES ASSUME NEW r \in callRules, NEW t \in callTrans
               PROVE  /\ r.kind = "normal" => C!NormalDerives(r, t) \subseteq CallTransition
                      /\ r.kind = "push" => C!PushDerives(r, t) \subseteq CallTransition
    BY DEF C!RuleDerives
  <2>0. r \in CallRule /\ t \in CallTransition
    BY DEF TypeOK
  <2>1. ASSUME r.kind = "normal"
        PROVE  C!NormalDerives(r, t) \subseteq CallTransition
    <3>1. r.s2 \in Fact /\ r.l2 \in Stmt
      BY <2>0, <2>1 DEF CallRule
    <3> QED
      BY <3>1, <2>0 DEF C!NormalDerives, C!Tr, C!Label, CallTransition, CallState
  <2>2. ASSUME r.kind = "push"
        PROVE  C!PushDerives(r, t) \subseteq CallTransition
    <3>1. r.s2 \in Fact /\ r.l2 \in Stmt /\ r.site \in Stmt
      BY <2>0, <2>2 DEF CallRule
    <3> QED
      BY <3>1, <2>0 DEF C!PushDerives, C!Tr, C!Label, CallTransition, CallState
  <2> QED
    BY <2>1, <2>2
<1>2. C!PopDerives(callTrans, callPops) \subseteq CallTransition
  BY DEF C!PopDerives, C!Popped, C!Tr, TypeOK, CallTransition, CallState
<1>3. C!EpsilonDerives(callTrans) \subseteq CallTransition
  BY DEF C!EpsilonDerives, C!Tr, TypeOK, CallTransition, CallState
<1> QED
  BY <1>1, <1>2, <1>3 DEF C!Due, C!Derived, TypeOK

\* Every transition the field automaton may take up next is typed.
LEMMA FieldDueTyped ==
  ASSUME TypeOK
  PROVE  F!Due \subseteq FieldTransition
<1>1. F!RuleDerives(fieldRules, fieldTrans) \subseteq FieldTransition
  <2> SUFFICES ASSUME NEW r \in fieldRules, NEW t \in fieldTrans
               PROVE  /\ r.kind = "normal" => F!NormalDerives(r, t) \subseteq FieldTransition
                      /\ r.kind = "push" => F!PushDerives(r, t) \subseteq FieldTransition
    BY DEF F!RuleDerives
  <2>0. r \in FieldRule /\ t \in FieldTransition
    BY DEF TypeOK
  <2>1. ASSUME r.kind = "normal"
        PROVE  F!NormalDerives(r, t) \subseteq FieldTransition
    <3>1. r.s2 \in Node /\ r.l2 = AnyField
      BY <2>0, <2>1 DEF FieldRule
    <3> QED
      BY <3>1, <2>0 DEF F!NormalDerives, F!Tr, F!Label, FieldTransition, FieldState
  <2>2. ASSUME r.kind = "push"
        PROVE  F!PushDerives(r, t) \subseteq FieldTransition
    <3>1. r.s2 \in Node /\ r.l2 \in Field /\ r.site = AnyField
      BY <2>0, <2>2 DEF FieldRule
    <3> QED
      BY <3>1, <2>0 DEF F!PushDerives, F!Tr, F!Label, FieldTransition, FieldState
  <2> QED
    BY <2>1, <2>2
<1>2. F!PopDerives(fieldTrans, fieldPops) \subseteq FieldTransition
  BY DEF F!PopDerives, F!Popped, F!Tr, TypeOK, FieldTransition, FieldState
<1>3. F!EpsilonDerives(fieldTrans) \subseteq FieldTransition
  BY DEF F!EpsilonDerives, F!Tr, TypeOK, FieldTransition, FieldState
<1> QED
  BY <1>1, <1>2, <1>3 DEF F!Due, F!Derived, TypeOK

\* Where the pops of the call system wait.
LEMMA CallWaitTyped ==
  ASSUME TypeOK
  PROVE  C!Waiting(callRules, callTrans, callPops) \subseteq
           [state : CallState \cup {CallTarget}, label : Stmt, start : Fact]
<1>1. ASSUME NEW r \in callRules, r.kind = "pop"
      PROVE  r.s1 \in Fact /\ r.l1 \in Stmt /\ r.s2 \in Fact
  BY <1>1 DEF TypeOK, CallRule
<1> QED
  BY <1>1 DEF C!Waiting, C!Pop, TypeOK, CallTransition, CallState

\* Where the pops of the field system wait.
LEMMA FieldWaitTyped ==
  ASSUME TypeOK
  PROVE  F!Waiting(fieldRules, fieldTrans, fieldPops) \subseteq
           [state : FieldState \cup {FieldTarget}, label : Field, start : Node]
<1>1. ASSUME NEW r \in fieldRules, r.kind = "pop"
      PROVE  r.s1 \in Node /\ r.l1 \in Field /\ r.s2 \in Node
  BY <1>1 DEF TypeOK, FieldRule
<1> QED
  BY <1>1 DEF F!Waiting, F!Pop, TypeOK, FieldTransition, FieldState

-----------------------------------------------------------------------------
(* The calls the handlers make are typed. *)

\* A call that is typed is typed as an element of a sequence of one.
LEMMA OneCall ==
  ASSUME NEW c \in Call
  PROVE  << c >> \in Seq(Call) \ {<< >>}
OBVIOUS

\* FactOf answers with a fact.
LEMMA FactOfTyped ==
  ASSUME NEW q \in CallState
  PROVE  FactOf(q) \in Fact
BY DEF FactOf, CallState

\* The calls computeSuccessor and a summary lead to add rules and listeners.
FlowCall == { c \in Call : c.op \in {"callRule", "fieldRule", "summaryListener"} }

\* propagate makes typed calls.
LEMMA PropagateTyped ==
  ASSUME NEW n \in Node, NEW s \in Flow[n]
  PROVE  Propagate(n, s) \in Seq(FlowCall) \ {<< >>}
<1>0. s \in Succession
  BY SolverAssumption DEF SolverAssumption
<1>1. n[1] \in Stmt /\ n[2] \in Fact
  BY DEF Node
<1>2. ASSUME NEW m \in Node, NEW e \in SUBSET Field
      PROVE  NormalCall(n, m) \in FlowCall /\ NormalField(n, m, e) \in FlowCall
  BY <1>1, <1>2 DEF NormalCall, NormalField, AddCallRule, AddFieldRule, Normal,
     FlowCall, Call, CallRule, FieldRule, Node
<1>3. CASE s.kind = "normal"
  <2>1. s.node \in Node
    BY <1>0, <1>3 DEF Succession
  <2> QED
    BY <1>2, <1>3, <2>1 DEF Propagate
<1>4. CASE s.kind = "exclusion"
  <2>1. s.node \in Node /\ s.field \in Field
    BY <1>0, <1>4 DEF Succession
  <2> QED
    BY <1>2, <1>4, <2>1 DEF Propagate
<1>5. CASE s.kind = "pushField"
  <2>1. s.node \in Node /\ s.field \in Field
    BY <1>0, <1>5 DEF Succession
  <2>2. AddFieldRule(Push(n, AnyField, s.node, s.field, AnyField)) \in FlowCall
    BY <2>1 DEF AddFieldRule, Push, FlowCall, Call, FieldRule
  <2> QED
    BY <1>2, <1>5, <2>1, <2>2 DEF Propagate
<1>6. CASE s.kind = "popField"
  <2>1. s.node \in Node /\ s.field \in Field
    BY <1>0, <1>6 DEF Succession
  <2>2. AddFieldRule(Pop(n, s.field, s.node)) \in FlowCall
    BY <2>1 DEF AddFieldRule, Pop, FlowCall, Call, FieldRule
  <2> QED
    BY <1>2, <1>6, <2>1, <2>2 DEF Propagate
<1>7. CASE s.kind = "pushCall"
  <2>1. s.node \in Node /\ s.site \in Stmt
    BY <1>0, <1>7 DEF Succession
  <2>2. s.node[1] \in Stmt /\ s.node[2] \in Fact
    BY <2>1 DEF Node
  <2>3. AddCallRule(Push(n[2], n[1], s.node[2], s.node[1], s.site)) \in FlowCall
    BY <1>1, <2>1, <2>2 DEF AddCallRule, Push, FlowCall, Call, CallRule
  <2>4. AddSummaryListener(s.site, s.node[2], s.node[1]) \in FlowCall
    BY <2>1, <2>2 DEF AddSummaryListener, FlowCall, Call
  <2> QED
    BY <1>2, <1>7, <2>1, <2>3, <2>4 DEF Propagate
<1>8. CASE s.kind = "popCall"
  <2>1. s.fact \in Fact
    BY <1>0, <1>8 DEF Succession
  <2>2. AddCallRule(Pop(n[2], n[1], s.fact)) \in FlowCall
    BY <1>1, <2>1 DEF AddCallRule, Pop, FlowCall, Call, CallRule
  <2> QED
    BY <1>8, <2>2 DEF Propagate
<1> QED
  BY <1>0, <1>3, <1>4, <1>5, <1>6, <1>7, <1>8 DEF Succession

\* A listener applies a summary with typed calls.
LEMMA SummaryTyped ==
  ASSUME NEW l \in Stmt \X Fact \X Stmt,
         NEW t \in CallTransition, t.label \in Stmt
  PROVE  AddedSummary(l, t) \subseteq Seq(FlowCall) \ {<< >>}
<1>1. FactOf(t.start) \in Fact
  BY FactOfTyped DEF CallTransition
<1>2. SUFFICES ASSUME NEW m \in Returned[<< l[1], t.label, FactOf(t.start) >>]
               PROVE  ApplyCallSummary(l, t, m) \in Seq(FlowCall) \ {<< >>}
  BY DEF AddedSummary
<1>3. m \in Node
  BY <1>1, <1>2, SolverAssumption DEF SolverAssumption
<1>4. NormalCall(<< l[1], FactOf(t.start) >>, m) \in FlowCall
  BY <1>1, <1>3 DEF NormalCall, AddCallRule, Normal, FlowCall, Call, CallRule, Node
<1>5. NormalField(<< t.label, FactOf(t.start) >>, m, {}) \in FlowCall
  BY <1>1, <1>3 DEF NormalField, AddFieldRule, Normal, FlowCall, Call, FieldRule, Node
<1> QED
  BY <1>4, <1>5 DEF ApplyCallSummary

\* A handler that only adds rules and listeners is typed and processes no node.
LEMMA FlowCalls ==
  ASSUME NEW z \in Seq(FlowCall) \ {<< >>}
  PROVE  /\ z \in Seq(Call) \ {<< >>}
         /\ \A i \in 1..Len(z), n \in Node : z[i] # ProcessNode(n)
<1>1. \A i \in 1..Len(z) : z[i] \in FlowCall
  OBVIOUS
<1>2. \A i \in 1..Len(z) : z[i] \in Call
  BY <1>1 DEF FlowCall
<1>3. z \in Seq(Call) \ {<< >>}
  BY <1>2
<1>4. \A c \in FlowCall, n \in Node : c # ProcessNode(n)
  BY DEF FlowCall, ProcessNode
<1> QED
  BY <1>1, <1>3, <1>4

-----------------------------------------------------------------------------
(* Type correctness *)

CallSeq == Seq(Call) \ {<< >>}

\* The call that runs is typed.
LEMMA HeadTyped ==
  ASSUME TypeOK, NEW s \in calls
  PROVE  s \in CallSeq /\ Head(s) \in Call
BY DEF TypeOK, CallSeq

\* When a call runs, what is left of its handler is typed.
LEMMA GoesTyped ==
  ASSUME TypeOK, NEW s \in calls, NEW new, new \subseteq CallSeq, Goes(s, new)
  PROVE  calls' \subseteq CallSeq
<1>1. ASSUME Len(s) > 1
      PROVE  Tail(s) \in CallSeq
  <2>1. s \in Seq(Call)
    BY DEF TypeOK
  <2>2. Tail(s) \in Seq(Call) /\ Len(Tail(s)) = Len(s) - 1
    BY <1>1, <2>1
  <2>3. Len(Tail(s)) # 0 /\ Len(<< >>) = 0
    BY <1>1, <2>1, <2>2
  <2>4. Tail(s) # << >>
    BY <2>3, Zenon
  <2> QED
    BY <2>2, <2>4 DEF CallSeq
<1> QED
  BY <1>1 DEF Goes, TypeOK, CallSeq

LEMMA SolveTyped ==
  ASSUME TypeOK, Solve
  PROVE  TypeOK'
<1>1. Start[1] \in Stmt /\ Start[2] \in Fact /\ Start \in Node
  BY SolverAssumption DEF SolverAssumption, Node
<1>2. AddFieldTransition(Tr(Start, EmptyField, FieldTarget)) \in Call
  BY <1>1 DEF AddFieldTransition, Tr, Call, FieldTransition, FieldState
<1>3. AddCallTransition(Tr(Start[2], Start[1], CallTarget)) \in Call
  BY <1>1 DEF AddCallTransition, Tr, Call, CallTransition, CallState
<1>4. ProcessNode(Start) \in Call
  BY <1>1 DEF ProcessNode, Call
<1> DEFINE three == << AddFieldTransition(Tr(Start, EmptyField, FieldTarget)),
                       AddCallTransition(Tr(Start[2], Start[1], CallTarget)),
                       ProcessNode(Start) >>
<1>5. calls' \subseteq CallSeq
  <2>1. three \in CallSeq
    BY <1>2, <1>3, <1>4 DEF CallSeq
  <2> QED
    BY <2>1 DEF Solve, TypeOK, CallSeq
<1> QED
  BY <1>5 DEF Solve, TypeOK, CallSeq, callVars, fieldVars, summaryVars,
     contextVars, reachVars

LEMMA CallTransitionAddedTyped ==
  ASSUME TypeOK, CallTransitionAdded
  PROVE  TypeOK'
<1>1. PICK t \in C!Due :
        /\ callTrans' = callTrans \cup {t}
        /\ calls' = IF t.start \in Fact /\ t.label # EpsilonStmt
                    THEN calls \cup {<< SetCallingContextReachable(<< t.label, t.start >>) >>}
                    ELSE calls
  BY DEF CallTransitionAdded
<1>2. t \in CallTransition
  BY <1>1, CallDueTyped
<1>3. ASSUME t.start \in Fact, t.label # EpsilonStmt
      PROVE  SetCallingContextReachable(<< t.label, t.start >>) \in Call
  BY <1>2, <1>3 DEF SetCallingContextReachable, Call, CallTransition, Node
<1>4. calls' \subseteq CallSeq
  BY <1>1, <1>3, OneCall DEF TypeOK, CallSeq
<1> QED
  BY <1>1, <1>2, <1>4 DEF CallTransitionAdded, TypeOK, CallSeq, fieldVars,
     summaryVars, contextVars, reachVars

LEMMA FieldTransitionAddedTyped ==
  ASSUME TypeOK, FieldTransitionAdded
  PROVE  TypeOK'
<1>1. PICK t \in F!Due :
        /\ fieldTrans' = fieldTrans \cup {t}
        /\ calls' = IF t.start \in Node /\ t.label # EpsilonField
                    THEN calls \cup {<< SetFieldContextReachable(t.start) >>}
                    ELSE calls
  BY DEF FieldTransitionAdded
<1>2. t \in FieldTransition
  BY <1>1, FieldDueTyped
<1>3. ASSUME t.start \in Node
      PROVE  SetFieldContextReachable(t.start) \in Call
  BY <1>3 DEF SetFieldContextReachable, Call
<1>4. calls' \subseteq CallSeq
  BY <1>1, <1>3, OneCall DEF TypeOK, CallSeq
<1> QED
  BY <1>1, <1>2, <1>4 DEF FieldTransitionAdded, TypeOK, CallSeq, callVars,
     summaryVars, contextVars, reachVars

LEMMA PopWaitsTyped ==
  ASSUME TypeOK, PopWaits
  PROVE  TypeOK'
<1>1. CASE C!Wait /\ UNCHANGED fieldVars
  BY <1>1, CallWaitTyped DEF PopWaits, C!Wait, TypeOK, fieldVars, summaryVars,
     contextVars, reachVars
<1>2. CASE F!Wait /\ UNCHANGED callVars
  BY <1>2, FieldWaitTyped DEF PopWaits, F!Wait, TypeOK, callVars, summaryVars,
     contextVars, reachVars
<1> QED
  BY <1>1, <1>2 DEF PopWaits

LEMMA SummaryEdgeAddedTyped ==
  ASSUME TypeOK, SummaryEdgeAdded
  PROVE  TypeOK'
<1>1. PICK x \in C!Popped(callTrans, callPops) :
        /\ summaryEdges' = summaryEdges \cup {x[2]}
        /\ calls' = calls \cup UNION { AddedSummary(l, x[2]) : l \in summaryListeners }
  BY DEF SummaryEdgeAdded
<1>2. x[2] \in CallTransition /\ x[2].label \in Stmt
  BY <1>1 DEF C!Popped, C!Accepts, TypeOK
<1>3. calls' \subseteq CallSeq
  BY <1>1, <1>2, SummaryTyped, FlowCalls DEF TypeOK, CallSeq
<1> QED
  BY <1>1, <1>2, <1>3 DEF SummaryEdgeAdded, TypeOK, CallSeq, callVars, fieldVars,
     contextVars, reachVars

LEMMA RunAutomatonTyped ==
  ASSUME TypeOK, NEW s \in calls, RunAutomaton(s)
  PROVE  TypeOK'
<1>1. Head(s) \in Call
  BY HeadTyped
<1>2. calls' \subseteq CallSeq
  BY GoesTyped DEF RunAutomaton
<1>3. CASE Head(s).op = "callRule" /\ callRules' = callRules \cup {Head(s).rule}
           /\ UNCHANGED << callSeeds, fieldRules, fieldSeeds >>
  <2>1. Head(s).rule \in CallRule
    BY <1>1, <1>3 DEF Call
  <2> QED
    BY <1>2, <1>3, <2>1 DEF RunAutomaton, TypeOK, CallSeq, summaryVars, contextVars, reachVars
<1>4. CASE Head(s).op = "fieldRule" /\ fieldRules' = fieldRules \cup {Head(s).rule}
           /\ UNCHANGED << callRules, callSeeds, fieldSeeds >>
  <2>1. Head(s).rule \in FieldRule
    BY <1>1, <1>4 DEF Call
  <2> QED
    BY <1>2, <1>4, <2>1 DEF RunAutomaton, TypeOK, CallSeq, summaryVars, contextVars, reachVars
<1>5. CASE Head(s).op = "callTransition" /\ callSeeds' = callSeeds \cup {Head(s).t}
           /\ UNCHANGED << callRules, fieldRules, fieldSeeds >>
  <2>1. Head(s).t \in CallTransition
    BY <1>1, <1>5 DEF Call
  <2> QED
    BY <1>2, <1>5, <2>1 DEF RunAutomaton, TypeOK, CallSeq, summaryVars, contextVars, reachVars
<1>6. CASE Head(s).op = "fieldTransition" /\ fieldSeeds' = fieldSeeds \cup {Head(s).t}
           /\ UNCHANGED << callRules, callSeeds, fieldRules >>
  <2>1. Head(s).t \in FieldTransition
    BY <1>1, <1>6 DEF Call
  <2> QED
    BY <1>2, <1>6, <2>1 DEF RunAutomaton, TypeOK, CallSeq, summaryVars, contextVars, reachVars
<1> QED
  BY <1>3, <1>4, <1>5, <1>6 DEF RunAutomaton

\* The node of a call that has one.
LEMMA NodeOfCall ==
  ASSUME NEW c \in Call, c.op \in {"calling", "field", "process", "nodeReachable"}
  PROVE  c.node \in Node
BY DEF Call

\* Calls that take a node are typed.
LEMMA NodeCalls ==
  ASSUME NEW n \in Node
  PROVE  /\ << ProcessNode(n) >> \in CallSeq
         /\ << NodeReachable(n) >> \in CallSeq
BY DEF ProcessNode, NodeReachable, CallSeq, Call

LEMMA RunSetContextReachableTyped ==
  ASSUME TypeOK, NEW s \in calls, RunSetContextReachable(s)
  PROVE  TypeOK'
<1>1. Head(s) \in Call
  BY HeadTyped
<1>2. Head(s).op \in {"calling", "field"}
  BY DEF RunSetContextReachable
<1>3. Head(s).node \in Node
  BY <1>1, <1>2, NodeOfCall
<1>4. PICK new \in SUBSET {<< ProcessNode(Head(s).node) >>} : Goes(s, new)
  BY DEF RunSetContextReachable
<1>5. calls' \subseteq CallSeq
  BY <1>3, <1>4, NodeCalls, GoesTyped
<1>6. callingContextReachable' \subseteq Node /\ fieldContextReachable' \subseteq Node
  BY <1>3 DEF RunSetContextReachable, TypeOK
<1> QED
  BY <1>5, <1>6 DEF RunSetContextReachable, TypeOK, CallSeq, callVars, fieldVars,
     summaryVars, reachVars

LEMMA RunProcessNodeTyped ==
  ASSUME TypeOK, NEW s \in calls, RunProcessNode(s)
  PROVE  TypeOK'
<1>1. Head(s) \in Call /\ Head(s).op = "process"
  BY HeadTyped DEF RunProcessNode
<1>2. Head(s).node \in Node
  BY <1>1, NodeOfCall
<1>3. PICK new \in SUBSET {<< NodeReachable(Head(s).node) >>} : Goes(s, new)
  BY DEF RunProcessNode
<1>4. calls' \subseteq CallSeq
  BY <1>2, <1>3, NodeCalls, GoesTyped
<1>5. reachedStates' \subseteq Node
  BY <1>2 DEF RunProcessNode, TypeOK
<1> QED
  BY <1>4, <1>5 DEF RunProcessNode, TypeOK, CallSeq, callVars, fieldVars,
     summaryVars, contextVars

LEMMA RunNodeReachableTyped ==
  ASSUME TypeOK, NEW s \in calls, RunNodeReachable(s)
  PROVE  TypeOK'
<1>1. Head(s) \in Call /\ Head(s).op = "nodeReachable"
  BY HeadTyped DEF RunNodeReachable
<1>2. Head(s).node \in Node
  BY <1>1, NodeOfCall
<1>3. { Propagate(Head(s).node, f) : f \in Flow[Head(s).node] } \subseteq CallSeq
  BY <1>2, PropagateTyped, FlowCalls DEF CallSeq
<1>4. calls' \subseteq CallSeq
  BY <1>3, GoesTyped DEF RunNodeReachable
<1> QED
  BY <1>4 DEF RunNodeReachable, TypeOK, CallSeq, callVars, fieldVars, summaryVars,
     contextVars

LEMMA RunAddSummaryListenerTyped ==
  ASSUME TypeOK, NEW s \in calls, RunAddSummaryListener(s)
  PROVE  TypeOK'
<1>1. Head(s) \in Call /\ Head(s).op = "summaryListener"
  BY HeadTyped DEF RunAddSummaryListener
<1>2. Head(s).l \in Stmt \X Fact \X Stmt
  BY <1>1 DEF Call
<1>3. UNION { AddedSummary(Head(s).l, t) : t \in summaryEdges } \subseteq CallSeq
  BY <1>2, SummaryTyped, FlowCalls DEF TypeOK, CallSeq
<1>4. calls' \subseteq CallSeq
  BY <1>3, GoesTyped DEF RunAddSummaryListener
<1> QED
  BY <1>2, <1>4 DEF RunAddSummaryListener, TypeOK, CallSeq, callVars, fieldVars,
     contextVars, reachVars

LEMMA TypeStep ==
  ASSUME TypeOK, [Next]_vars
  PROVE  TypeOK'
<1>1. CASE Solve
  BY <1>1, SolveTyped
<1>2. CASE \E l \in Watchers : Watch(l)
  BY <1>2 DEF Watch, TypeOK, callVars, fieldVars, summaryVars, contextVars
<1>3. CASE \E l \in DOMAIN NodeWatchers : WatchNode(l)
  BY <1>3 DEF WatchNode, TypeOK, callVars, fieldVars, summaryVars, contextVars
<1>4. CASE Automata
  BY <1>4, CallTransitionAddedTyped, FieldTransitionAddedTyped, PopWaitsTyped,
     SummaryEdgeAddedTyped DEF Automata
<1>5. CASE Run
  BY <1>5, RunAutomatonTyped, RunSetContextReachableTyped, RunProcessNodeTyped,
     RunNodeReachableTyped, RunAddSummaryListenerTyped DEF Run
<1>6. CASE UNCHANGED vars
  BY <1>6 DEF TypeOK, vars, callVars, fieldVars, summaryVars, contextVars, reachVars
<1> QED
  BY <1>1, <1>2, <1>3, <1>4, <1>5, <1>6 DEF Next, Client

(***************************************************************************)
(* The automata and the two context sets hold what their types say; the    *)
(* solver never takes a generated state or an eps label for a node         *)
(* (CallAutomatonListener, FieldUpdateListener).                           *)
(***************************************************************************)
THEOREM TypeCorrect == Spec => []TypeOK
<1>1. Init => TypeOK
  BY DEF Init, TypeOK
<1>2. TypeOK /\ [Next]_vars => TypeOK'
  BY TypeStep
<1> QED
  BY <1>1, <1>2, PTL DEF Spec

-----------------------------------------------------------------------------
(* Where the two contexts meet *)

\* A call that is ahead stays ahead when another call runs.
LEMMA StaysAhead ==
  ASSUME TypeOK, NEW s \in calls, NEW new, Goes(s, new),
         NEW c, Ahead(c), Head(s) # c
  PROVE  Ahead(c)'
<1>0. PICK z \in calls : \E i \in 1..Len(z) : z[i] = c
  BY DEF Ahead
<1>1. PICK i \in 1..Len(z) : z[i] = c
  BY <1>0
<1>2. CASE z # s
  <2>1. z \in calls'
    BY <1>2 DEF Goes
  <2> QED
    BY <1>1, <2>1 DEF Ahead
<1>3. CASE z = s
  <2>1. s \in Seq(Call) /\ s # << >>
    BY DEF TypeOK
  <2>2. i # 1
    BY <1>1, <1>3, <2>1
  <2>3. Len(s) > 1 /\ i - 1 \in 1..(Len(s) - 1)
    BY <1>1, <1>3, <2>1, <2>2
  <2>4. i - 1 \in 1..Len(Tail(s)) /\ Tail(s)[i - 1] = c
    BY <1>1, <1>3, <2>1, <2>3
  <2>5. Tail(s) \in calls'
    BY <2>3 DEF Goes
  <2> QED
    BY <2>4, <2>5 DEF Ahead
<1> QED
  BY <1>2, <1>3

\* A step that takes no call away leaves every call ahead that was.
LEMMA GrowsAhead ==
  ASSUME calls \subseteq calls', NEW c, Ahead(c)
  PROVE  Ahead(c)'
BY DEF Ahead

\* A call that is handed over is ahead.
LEMMA HandedOver ==
  ASSUME NEW s \in calls, NEW c, NEW new, << c >> \in new, Goes(s, new)
  PROVE  Ahead(c)'
<1> DEFINE one == << c >>
<1>1. one \in calls'
  BY DEF Goes
<1>2. 1 \in 1..Len(one) /\ one[1] = c
  OBVIOUS
<1> QED
  BY <1>1, <1>2 DEF Ahead

\* A call ahead after a step was ahead before it or has just been handed over.
LEMMA AheadBefore ==
  ASSUME TypeOK, NEW s \in calls, NEW new, Goes(s, new), NEW c, Ahead(c)'
  PROVE  Ahead(c) \/ \E z \in new : \E i \in 1..Len(z) : z[i] = c
<1>0. PICK z \in calls' : \E i \in 1..Len(z) : z[i] = c
  BY DEF Ahead
<1>1. PICK i \in 1..Len(z) : z[i] = c
  BY <1>0
<1>2. CASE z \in calls \/ z \in new
  BY <1>1, <1>2 DEF Ahead
<1>3. CASE z = Tail(s) /\ Len(s) > 1
  <2>1. s \in Seq(Call)
    BY DEF TypeOK
  <2>2. i + 1 \in 1..Len(s) /\ s[i + 1] = c
    BY <1>1, <1>3, <2>1
  <2> QED
    BY <2>2 DEF Ahead
<1> QED
  BY <1>1, <1>2, <1>3 DEF Goes

\* A step of a client or an automaton takes no call away.
LEMMA OnlyRunTakesCalls ==
  ASSUME Client \/ Automata
  PROVE  /\ calls \subseteq calls'
         /\ UNCHANGED << contextVars, reachedStates >>
BY DEF Client, Solve, Watch, WatchNode, Automata, CallTransitionAdded,
   FieldTransitionAdded, PopWaits, SummaryEdgeAdded, reachVars

(***************************************************************************)
(* Whatever runs between, a node both systems have found is processed or   *)
(* is going to be (setCallingContextReachable, setFieldContextReachable).  *)
(***************************************************************************)
THEOREM ContextsMeet ==
  Spec => []BothContextsMeet
<1>1. Init => BothContextsMeet
  BY DEF Init, BothContextsMeet
<1>2. TypeOK /\ BothContextsMeet /\ [Next]_vars => BothContextsMeet'
  <2> SUFFICES ASSUME TypeOK, BothContextsMeet, [Next]_vars,
                      NEW n \in (callingContextReachable \cap fieldContextReachable)',
                      n \notin reachedStates'
               PROVE  Ahead(ProcessNode(n))'
    BY DEF BothContextsMeet
  <2>1. CASE Client \/ Automata
    <3>1. Ahead(ProcessNode(n))
      BY <2>1, OnlyRunTakesCalls DEF BothContextsMeet, contextVars
    <3> QED
      BY <2>1, <3>1, OnlyRunTakesCalls, GrowsAhead
  <2>2. ASSUME NEW s \in calls, RunSetContextReachable(s)
        PROVE  Ahead(ProcessNode(n))'
    <3>1. Head(s) # ProcessNode(n)
      BY <2>2 DEF RunSetContextReachable, ProcessNode
    <3>2. PICK new : Goes(s, new)
      BY <2>2 DEF RunSetContextReachable
    <3>3. CASE n \in callingContextReachable \cap fieldContextReachable
      <4>1. Ahead(ProcessNode(n))
        BY <2>2, <3>3 DEF BothContextsMeet, RunSetContextReachable, reachVars
      <4> QED
        BY <3>1, <3>2, <4>1, StaysAhead
    <3>4. CASE n \notin callingContextReachable \cap fieldContextReachable
      <4>1. Goes(s, {<< ProcessNode(n) >>})
        BY <2>2, <3>4 DEF RunSetContextReachable
      <4> QED
        BY <4>1, HandedOver
    <3> QED
      BY <3>3, <3>4
  <2>3. ASSUME NEW s \in calls, RunProcessNode(s)
        PROVE  Ahead(ProcessNode(n))'
    <3>1. PICK new : Goes(s, new)
      BY <2>3 DEF RunProcessNode
    <3>2. Ahead(ProcessNode(n))
      BY <2>3 DEF BothContextsMeet, RunProcessNode, contextVars
    <3>3. Head(s) # ProcessNode(n)
      BY <2>3 DEF RunProcessNode, ProcessNode
    <3> QED
      BY <3>1, <3>2, <3>3, StaysAhead
  <2>4. ASSUME NEW s \in calls,
               RunAutomaton(s) \/ RunNodeReachable(s) \/ RunAddSummaryListener(s)
        PROVE  Ahead(ProcessNode(n))'
    <3>1. PICK new : Goes(s, new)
      BY <2>4 DEF RunAutomaton, RunNodeReachable, RunAddSummaryListener
    <3>2. Ahead(ProcessNode(n))
      BY <2>4 DEF BothContextsMeet, RunAutomaton, RunNodeReachable,
         RunAddSummaryListener, contextVars, reachVars
    <3>3. Head(s) # ProcessNode(n)
      BY <2>4 DEF RunAutomaton, RunNodeReachable, RunAddSummaryListener, ProcessNode
    <3> QED
      BY <3>1, <3>2, <3>3, StaysAhead
  <2>5. CASE UNCHANGED vars
    BY <2>5 DEF vars, contextVars, reachVars, BothContextsMeet, Ahead
  <2> QED
    BY <2>1, <2>2, <2>3, <2>4, <2>5 DEF Next, Run
<1> QED
  BY <1>1, <1>2, TypeCorrect, PTL DEF Spec

\* The inductive form of ReachedInBoth: a node that is about to be processed is
\* reachable in both contexts too.
ProcessedInBoth ==
  /\ ReachedInBoth
  /\ \A n \in Node : Ahead(ProcessNode(n)) =>
       n \in (callingContextReachable \cap fieldContextReachable) \cup {Start}

\* The step of a call that starts no new processing, or only where both meet.
LEMMA ProcessedStays ==
  ASSUME TypeOK, ProcessedInBoth, NEW s \in calls, NEW new, Goes(s, new),
         callingContextReachable \subseteq callingContextReachable',
         fieldContextReachable \subseteq fieldContextReachable',
         reachedStates' = reachedStates,
         \A z \in new, n \in Node : (\E i \in 1..Len(z) : z[i] = ProcessNode(n)) =>
            n \in (callingContextReachable \cap fieldContextReachable)'
  PROVE  ProcessedInBoth'
<1>1. ReachedInBoth'
  BY DEF ProcessedInBoth, ReachedInBoth
<1>2. ASSUME NEW n \in Node, Ahead(ProcessNode(n))'
      PROVE  n \in (callingContextReachable \cap fieldContextReachable)' \cup {Start}
  <2>1. Ahead(ProcessNode(n)) \/ \E z \in new : \E i \in 1..Len(z) : z[i] = ProcessNode(n)
    BY <1>2, AheadBefore
  <2> QED
    BY <2>1 DEF ProcessedInBoth
<1> QED
  BY <1>1, <1>2 DEF ProcessedInBoth

\* The calls an automaton makes on the solver process no node.
LEMMA AutomataProcessNothing ==
  ASSUME TypeOK, Automata, NEW n \in Node, Ahead(ProcessNode(n))'
  PROVE  Ahead(ProcessNode(n))
<1> DEFINE quiet(z) == \A i \in 1..Len(z) : z[i] # ProcessNode(n)
<1>0. PICK z \in calls' : \E i \in 1..Len(z) : z[i] = ProcessNode(n)
  BY DEF Ahead
<1>1. ASSUME NEW m
      PROVE  quiet(<< SetCallingContextReachable(m) >>)
  BY DEF SetCallingContextReachable, ProcessNode
<1>2. ASSUME NEW m
      PROVE  quiet(<< SetFieldContextReachable(m) >>)
  BY DEF SetFieldContextReachable, ProcessNode
<1>3. ASSUME NEW x \in C!Popped(callTrans, callPops), NEW l \in summaryListeners,
             NEW y \in AddedSummary(l, x[2])
      PROVE  quiet(y)
  <2>1. x[2] \in CallTransition /\ x[2].label \in Stmt
    BY DEF C!Popped, C!Accepts, TypeOK
  <2>2. l \in Stmt \X Fact \X Stmt
    BY DEF TypeOK
  <2>3. y \in Seq(FlowCall) \ {<< >>}
    BY <2>1, <2>2, SummaryTyped
  <2> QED
    BY <2>3, FlowCalls
<1>4. z \in calls \/ quiet(z)
  <2>1. CASE CallTransitionAdded
    BY <1>1, <2>1 DEF CallTransitionAdded
  <2>2. CASE FieldTransitionAdded
    BY <1>2, <2>2 DEF FieldTransitionAdded
  <2>3. CASE PopWaits
    BY <2>3 DEF PopWaits
  <2>4. CASE SummaryEdgeAdded
    BY <1>3, <2>4 DEF SummaryEdgeAdded
  <2> QED
    BY <2>1, <2>2, <2>3, <2>4 DEF Automata
<1> QED
  BY <1>0, <1>4 DEF Ahead

(***************************************************************************)
(* A node is reached only when both systems have found it, or as the start *)
(* (setCallingContextReachable, setFieldContextReachable, solve).          *)
(***************************************************************************)
THEOREM ReachedOnlyInBoth ==
  Spec => []ReachedInBoth
<1>1. Init => ProcessedInBoth
  BY DEF Init, ProcessedInBoth, ReachedInBoth, Ahead
<1>2. TypeOK /\ ProcessedInBoth /\ [Next]_vars => ProcessedInBoth'
  <2> SUFFICES ASSUME TypeOK, ProcessedInBoth, [Next]_vars
               PROVE  ProcessedInBoth'
    OBVIOUS
  <2>1. CASE Solve
    <3>1. ASSUME NEW n \in Node, n # Start, Ahead(ProcessNode(n))'
          PROVE  Ahead(ProcessNode(n))
      <4> DEFINE three == << AddFieldTransition(Tr(Start, EmptyField, FieldTarget)),
                             AddCallTransition(Tr(Start[2], Start[1], CallTarget)),
                             ProcessNode(Start) >>
      <4>1. \A i \in 1..Len(three) : three[i] # ProcessNode(n)
        BY <3>1 DEF AddFieldTransition, AddCallTransition, ProcessNode
      <4>2. calls' = calls \cup {three}
        BY <2>1 DEF Solve
      <4> HIDE DEF three
      <4> QED
        BY <3>1, <4>1, <4>2 DEF Ahead
    <3> QED
      BY <2>1, <3>1 DEF Solve, ProcessedInBoth, ReachedInBoth, contextVars, reachVars
  <2>2. CASE (\E l \in Watchers : Watch(l)) \/ (\E l \in DOMAIN NodeWatchers : WatchNode(l))
    BY <2>2 DEF Watch, WatchNode, ProcessedInBoth, ReachedInBoth, Ahead, contextVars
  <2>3. CASE Automata
    BY <2>3, AutomataProcessNothing, OnlyRunTakesCalls
    DEF ProcessedInBoth, ReachedInBoth, contextVars
  <2>4. ASSUME NEW s \in calls, RunAutomaton(s)
        PROVE  ProcessedInBoth'
    BY <2>4, ProcessedStays DEF RunAutomaton, contextVars, reachVars
  <2>5. ASSUME NEW s \in calls, RunSetContextReachable(s)
        PROVE  ProcessedInBoth'
    <3>1. PICK new \in SUBSET {<< ProcessNode(Head(s).node) >>} :
            /\ Goes(s, new)
            /\ new # {} => Head(s).node \in (callingContextReachable \cap fieldContextReachable)'
      BY <2>5 DEF RunSetContextReachable
    <3>2. ASSUME NEW z \in new, NEW n \in Node, NEW i \in 1..Len(z), z[i] = ProcessNode(n)
          PROVE  n = Head(s).node /\ new # {}
      BY <3>1, <3>2 DEF ProcessNode
    <3>3. /\ callingContextReachable \subseteq callingContextReachable'
          /\ fieldContextReachable \subseteq fieldContextReachable'
          /\ reachedStates' = reachedStates
      BY <2>5 DEF RunSetContextReachable, reachVars
    <3> QED
      BY <3>1, <3>2, <3>3, ProcessedStays
  <2>6. ASSUME NEW s \in calls, RunProcessNode(s)
        PROVE  ProcessedInBoth'
    <3>0. Head(s) \in Call /\ Head(s) = ProcessNode(Head(s).node) /\ Head(s).node \in Node
      BY <2>6, HeadTyped DEF RunProcessNode, Call, ProcessNode
    <3>1. Head(s).node \in (callingContextReachable \cap fieldContextReachable) \cup {Start}
      <4>1. s \in Seq(Call) /\ s # << >>
        BY DEF TypeOK
      <4>2. 1 \in 1..Len(s) /\ s[1] = ProcessNode(Head(s).node)
        BY <3>0, <4>1
      <4> QED
        BY <3>0, <4>2 DEF ProcessedInBoth, Ahead
    <3>2. ReachedInBoth'
      BY <2>6, <3>1 DEF RunProcessNode, ProcessedInBoth, ReachedInBoth, contextVars
    <3>3. PICK new \in SUBSET {<< NodeReachable(Head(s).node) >>} : Goes(s, new)
      BY <2>6 DEF RunProcessNode
    <3>4. ASSUME NEW n \in Node, Ahead(ProcessNode(n))'
          PROVE  Ahead(ProcessNode(n))
      <4>1. \A z \in new : \A i \in 1..Len(z) : z[i] # ProcessNode(n)
        BY <3>3 DEF NodeReachable, ProcessNode
      <4> QED
        BY <3>3, <3>4, <4>1, AheadBefore
    <3> QED
      BY <2>6, <3>2, <3>4 DEF RunProcessNode, ProcessedInBoth, contextVars
  <2>7. ASSUME NEW s \in calls, RunNodeReachable(s)
        PROVE  ProcessedInBoth'
    <3>1. Head(s) \in Call /\ Head(s).op = "nodeReachable"
      BY <2>7, HeadTyped DEF RunNodeReachable
    <3>2. Head(s).node \in Node
      BY <3>1, NodeOfCall
    <3> DEFINE new == { Propagate(Head(s).node, f) : f \in Flow[Head(s).node] }
    <3>3. \A z \in new, n \in Node : ~ \E i \in 1..Len(z) : z[i] = ProcessNode(n)
      BY <3>2, PropagateTyped, FlowCalls
    <3>4. Goes(s, new)
      BY <2>7 DEF RunNodeReachable
    <3> HIDE DEF new
    <3> QED
      BY <2>7, <3>3, <3>4, ProcessedStays DEF RunNodeReachable, contextVars
  <2>8. ASSUME NEW s \in calls, RunAddSummaryListener(s)
        PROVE  ProcessedInBoth'
    <3>1. Head(s) \in Call /\ Head(s).op = "summaryListener"
      BY <2>8, HeadTyped DEF RunAddSummaryListener
    <3>2. Head(s).l \in Stmt \X Fact \X Stmt
      BY <3>1 DEF Call
    <3> DEFINE new == UNION { AddedSummary(Head(s).l, t) : t \in summaryEdges }
    <3>3. \A z \in new, n \in Node : ~ \E i \in 1..Len(z) : z[i] = ProcessNode(n)
      BY <3>2, SummaryTyped, FlowCalls DEF TypeOK
    <3>4. Goes(s, new)
      BY <2>8 DEF RunAddSummaryListener
    <3> HIDE DEF new
    <3> QED
      BY <2>8, <3>3, <3>4, ProcessedStays DEF RunAddSummaryListener, contextVars, reachVars
  <2>9. CASE UNCHANGED vars
    BY <2>9 DEF vars, contextVars, reachVars, ProcessedInBoth, ReachedInBoth, Ahead
  <2> QED
    BY <2>1, <2>2, <2>3, <2>4, <2>5, <2>6, <2>7, <2>8, <2>9 DEF Next, Client, Run
<1>3. ProcessedInBoth => ReachedInBoth
  BY DEF ProcessedInBoth
<1> QED
  BY <1>1, <1>2, <1>3, TypeCorrect, PTL DEF Spec

\* A node is processed exactly when both systems have found it: at once, or by a call
\* that a handler in progress is still going to make (setCallingContextReachable,
\* setFieldContextReachable, processNode).
THEOREM ReachedWhenMet == Spec => []MetInBoth
<1>1. BothContextsMeet /\ ReachedInBoth => MetInBoth
  BY DEF MetInBoth
<1> QED
  BY <1>1, ContextsMeet, ReachedOnlyInBoth, PTL

-----------------------------------------------------------------------------
(* Listeners *)

\* What a listener of all nodes has been told of: every reached node, once.
LEMMA ToldStep ==
  ASSUME ToldOnce, NEW l \in Watchers \cap watching, NEW n, n \notin reachedStates,
         reachedStates' = reachedStates \cup {n},
         told' = Tell(Watchers \cap watching, n)
  PROVE  /\ \A m \in reachedStates' : << l, m >> \in DOMAIN told'
         /\ \A x \in DOMAIN told' : x[1] = l => told'[x] = 1 /\ x[2] \in reachedStates'
<1> DEFINE at(x) == (IF x \in DOMAIN told THEN told[x] ELSE 0)
                    + (IF x \in (Watchers \cap watching) \X {n} THEN 1 ELSE 0)
<1>1. DOMAIN told' = DOMAIN told \cup ((Watchers \cap watching) \X {n})
  BY DEF Tell
<1>2. \A x \in DOMAIN told' : told'[x] = at(x)
  BY <1>1 DEF Tell
<1>3. << l, n >> \notin DOMAIN told
  BY DEF ToldOnce
<1>4. \A m \in reachedStates' : << l, m >> \in DOMAIN told'
  BY <1>1 DEF ToldOnce
<1>5. ASSUME NEW x \in DOMAIN told', x[1] = l
      PROVE  told'[x] = 1 /\ x[2] \in reachedStates'
  <2>1. CASE x \in DOMAIN told
    <3>1. told[x] = 1 /\ x[2] \in reachedStates
      BY <1>5, <2>1 DEF ToldOnce
    <3>2. x \notin (Watchers \cap watching) \X {n}
      BY <3>1
    <3>3. told'[x] = told[x] + 0
      BY <1>2, <2>1, <3>2
    <3> QED
      BY <3>1, <3>3
  <2>2. CASE x \notin DOMAIN told
    <3>1. x \in (Watchers \cap watching) \X {n}
      BY <1>1, <2>2
    <3>2. told'[x] = 0 + 1
      BY <1>2, <2>2, <3>1
    <3> QED
      BY <3>1, <3>2
  <2> QED
    BY <2>1, <2>2
<1> QED
  BY <1>4, <1>5

\* Telling listeners of single nodes does not concern the others.
LEMMA ToldOthers ==
  ASSUME ToldOnce, NEW ls \in SUBSET DOMAIN NodeWatchers, NEW n,
         UNCHANGED reachedStates, told' = Tell(ls, n),
         Watchers \cap watching' = Watchers \cap watching
  PROVE  ToldOnce'
<1>1. SUFFICES ASSUME NEW l \in Watchers \cap watching
               PROVE  /\ \A m \in reachedStates : << l, m >> \in DOMAIN told'
                      /\ \A x \in DOMAIN told' : x[1] = l => told'[x] = 1 /\ x[2] \in reachedStates
  BY DEF ToldOnce
<1>2. DOMAIN told' = DOMAIN told \cup (ls \X {n})
  BY DEF Tell
<1>3. l \notin ls
  BY ListenerAssumption DEF ListenerAssumption
<1>4. ASSUME NEW x \in DOMAIN told', x[1] = l
      PROVE  told'[x] = 1 /\ x[2] \in reachedStates
  <2>1. x \notin ls \X {n} /\ x \in DOMAIN told
    BY <1>2, <1>3, <1>4
  <2>2. told[x] = 1 /\ x[2] \in reachedStates
    BY <1>4, <2>1 DEF ToldOnce
  <2>3. told'[x] = told[x] + 0
    BY <1>2, <2>1 DEF Tell
  <2> QED
    BY <2>2, <2>3
<1>5. \A m \in reachedStates : << l, m >> \in DOMAIN told'
  BY <1>2 DEF ToldOnce
<1> QED
  BY <1>4, <1>5

\* The inductive form of ToldOnce: only registered listeners are told.
ToldWhenWatching ==
  /\ ToldOnce
  /\ \A x \in DOMAIN told : x[1] \in watching

\* A new listener of all nodes is told of the nodes that are there.
LEMMA ToldOnRegistration ==
  ASSUME ToldWhenWatching, NEW k \in Watchers, Watch(k)
  PROVE  ToldWhenWatching'
<1>1. DOMAIN told' = DOMAIN told \cup ({k} \X reachedStates)
  BY DEF Watch
<1>2. \A x \in DOMAIN told' : told'[x] = IF x \in DOMAIN told THEN told[x] ELSE 1
  BY DEF Watch
<1>3. reachedStates' = reachedStates /\ watching' = watching \cup {k} /\ k \notin watching
  BY DEF Watch
<1>4. \A x \in DOMAIN told : x[1] # k
  BY <1>3 DEF ToldWhenWatching
<1>5. ASSUME NEW l \in Watchers \cap watching'
      PROVE  /\ \A m \in reachedStates : << l, m >> \in DOMAIN told'
             /\ \A x \in DOMAIN told' : x[1] = l => told'[x] = 1 /\ x[2] \in reachedStates
  <2>1. CASE l = k
    BY <2>1, <1>1, <1>2, <1>4
  <2>2. CASE l # k
    BY <2>2, <1>1, <1>2, <1>3 DEF ToldWhenWatching, ToldOnce
  <2> QED
    BY <2>1, <2>2
<1>6. \A x \in DOMAIN told' : x[1] \in watching'
  BY <1>1, <1>3 DEF ToldWhenWatching
<1> QED
  BY <1>3, <1>5, <1>6 DEF ToldWhenWatching, ToldOnce

(***************************************************************************)
(* A listener of all nodes is told of every reached node exactly once,     *)
(* whenever it is registered (registerListener, addReachableState).        *)
(***************************************************************************)
THEOREM ListenersAreTold ==
  Spec => []ToldOnce
<1>1. Init => ToldWhenWatching
  BY DEF Init, ToldWhenWatching, ToldOnce
<1>2. ToldWhenWatching /\ [Next]_vars => ToldWhenWatching'
  <2> SUFFICES ASSUME ToldWhenWatching, [Next]_vars
               PROVE  ToldWhenWatching'
    OBVIOUS
  <2>0. ASSUME NEW ls, NEW n, told' = Tell(ls, n), ls \subseteq watching'
        PROVE  watching \subseteq watching' => \A x \in DOMAIN told' : x[1] \in watching'
    BY <2>0 DEF Tell, ToldWhenWatching
  <2>1. CASE UNCHANGED reachVars
    BY <2>1 DEF reachVars, ToldWhenWatching, ToldOnce
  <2>2. ASSUME NEW k \in Watchers, Watch(k)
        PROVE  ToldWhenWatching'
    BY <2>2, ToldOnRegistration
  <2>3. ASSUME NEW k \in DOMAIN NodeWatchers, WatchNode(k)
        PROVE  ToldWhenWatching'
    <3>1. watching' = watching \cup {k} /\ reachedStates' = reachedStates
      BY <2>3 DEF WatchNode
    <3>2. Watchers \cap watching' = Watchers \cap watching
      BY <3>1, ListenerAssumption DEF ListenerAssumption
    <3>3. CASE told' = told
      BY <3>1, <3>2, <3>3 DEF ToldWhenWatching, ToldOnce
    <3>4. CASE told' = Tell({k}, NodeWatchers[k])
      <4>1. ToldOnce'
        BY <3>1, <3>2, <3>4, ToldOthers DEF ToldWhenWatching
      <4> QED
        BY <2>0, <3>1, <3>4, <4>1 DEF ToldWhenWatching
    <3> QED
      BY <2>3, <3>3, <3>4 DEF WatchNode
  <2>4. ASSUME NEW s \in calls, RunProcessNode(s)
        PROVE  ToldWhenWatching'
    <3>1. watching' = watching
      BY <2>4 DEF RunProcessNode
    <3>2. CASE Head(s).node \in reachedStates
      BY <2>4, <3>1, <3>2 DEF RunProcessNode, ToldWhenWatching, ToldOnce
    <3>3. CASE Head(s).node \notin reachedStates
      <4>1. /\ reachedStates' = reachedStates \cup {Head(s).node}
            /\ told' = Tell(Watchers \cap watching, Head(s).node)
        BY <2>4, <3>3 DEF RunProcessNode
      <4>2. ToldOnce'
        BY <3>1, <3>3, <4>1, ToldStep DEF ToldWhenWatching, ToldOnce
      <4> QED
        BY <2>0, <3>1, <4>1, <4>2 DEF ToldWhenWatching
    <3> QED
      BY <3>2, <3>3
  <2>5. ASSUME NEW s \in calls, RunNodeReachable(s)
        PROVE  ToldWhenWatching'
    <3>1. /\ told' = Tell(NodeWatchersOf(Head(s).node), Head(s).node)
          /\ watching' = watching /\ reachedStates' = reachedStates
      BY <2>5 DEF RunNodeReachable
    <3>2. NodeWatchersOf(Head(s).node) \subseteq DOMAIN NodeWatchers \cap watching
      BY DEF NodeWatchersOf
    <3>3. ToldOnce'
      BY <3>1, <3>2, ToldOthers DEF ToldWhenWatching
    <3> QED
      BY <2>0, <3>1, <3>2, <3>3 DEF ToldWhenWatching
  <2>6. CASE Solve \/ Automata
    BY <2>1, <2>6 DEF Solve, Automata, CallTransitionAdded, FieldTransitionAdded,
       PopWaits, SummaryEdgeAdded
  <2>7. ASSUME NEW s \in calls,
               RunAutomaton(s) \/ RunSetContextReachable(s) \/ RunAddSummaryListener(s)
        PROVE  ToldWhenWatching'
    BY <2>1, <2>7 DEF RunAutomaton, RunSetContextReachable, RunAddSummaryListener
  <2>8. CASE UNCHANGED vars
    BY <2>1, <2>8 DEF vars
  <2> QED
    BY <2>2, <2>3, <2>4, <2>5, <2>6, <2>7, <2>8 DEF Next, Client, Run
<1>3. ToldWhenWatching => ToldOnce
  BY DEF ToldWhenWatching
<1> QED
  BY <1>1, <1>2, <1>3, PTL DEF Spec

\* Only what processes a node tells its own listeners, and the call that does is
\* one by itself: it is not queued behind others.
LEMMA ToldStays ==
  ASSUME TypeOK, ToldOfNode, DOMAIN told \subseteq DOMAIN told',
         reachedStates' = reachedStates, watching' = watching,
         \A n : << NodeReachable(n) >> \in calls => << NodeReachable(n) >> \in calls'
  PROVE  ToldOfNode'
BY DEF ToldOfNode

\* A call that runs leaves the others where they are.
LEMMA OthersStay ==
  ASSUME NEW s \in calls, NEW new, Goes(s, new), NEW n, Head(s).op # "nodeReachable"
  PROVE  << NodeReachable(n) >> \in calls => << NodeReachable(n) >> \in calls'
<1> DEFINE one == << NodeReachable(n) >>
<1>1. Head(one) = NodeReachable(n)
  OBVIOUS
<1>2. NodeReachable(n).op = "nodeReachable"
  BY DEF NodeReachable
<1>3. one # s
  BY <1>1, <1>2
<1> QED
  BY <1>3 DEF Goes

(***************************************************************************)
(* A listener of one node is told of it however its registration falls     *)
(* between the node, the loop over the other listeners and its own loop    *)
(* (registerListener, processNode): when it comes after the last it is     *)
(* told by registerListener, and before it the loop is still to run.       *)
(***************************************************************************)
THEOREM NodeListenersAreTold ==
  Spec => []ToldOfNode
<1>1. Init => ToldOfNode
  BY DEF Init, ToldOfNode
<1>2. TypeOK /\ ToldOfNode /\ [Next]_vars => ToldOfNode'
  <2> SUFFICES ASSUME TypeOK, ToldOfNode, [Next]_vars
               PROVE  ToldOfNode'
    OBVIOUS
  <2>0. ASSUME NEW ls, NEW n
        PROVE  DOMAIN Tell(ls, n) = DOMAIN told \cup (ls \X {n})
    BY DEF Tell
  <2>1. CASE Solve \/ Automata
    <3>1. calls \subseteq calls' /\ UNCHANGED reachVars
      BY <2>1 DEF Solve, Automata, CallTransitionAdded, FieldTransitionAdded,
         PopWaits, SummaryEdgeAdded
    <3> QED
      BY <3>1, ToldStays DEF reachVars
  <2>2. ASSUME NEW k \in Watchers, Watch(k)
        PROVE  ToldOfNode'
    <3>1. DOMAIN told \subseteq DOMAIN told'
      BY <2>2 DEF Watch
    <3>2. /\ watching' = watching \cup {k} /\ reachedStates' = reachedStates
          /\ calls' = calls
      BY <2>2 DEF Watch
    <3>3. DOMAIN NodeWatchers \cap watching' = DOMAIN NodeWatchers \cap watching
      BY <3>2, ListenerAssumption DEF ListenerAssumption
    <3> QED
      BY <3>1, <3>2, <3>3 DEF ToldOfNode
  <2>3. ASSUME NEW k \in DOMAIN NodeWatchers, WatchNode(k)
        PROVE  ToldOfNode'
    <3>1. /\ watching' = watching \cup {k} /\ reachedStates' = reachedStates
          /\ calls' = calls
          /\ told' = IF NodeWatchers[k] \in reachedStates
                     THEN Tell({k}, NodeWatchers[k]) ELSE told
      BY <2>3 DEF WatchNode
    <3>2. DOMAIN told \subseteq DOMAIN told'
      BY <3>1 DEF Tell
    <3>3. NodeWatchers[k] \in reachedStates => << k, NodeWatchers[k] >> \in DOMAIN told'
      BY <3>1 DEF Tell
    <3> QED
      BY <3>1, <3>2, <3>3 DEF ToldOfNode
  <2>4. ASSUME NEW s \in calls, RunProcessNode(s)
        PROVE  ToldOfNode'
    <3> DEFINE c == Head(s)
    <3>1. c.op = "process" /\ watching' = watching
      BY <2>4 DEF RunProcessNode
    <3>2. CASE c.node \in reachedStates
      <4>1. Goes(s, {}) /\ UNCHANGED << reachedStates, told >>
        BY <2>4, <3>2 DEF RunProcessNode
      <4>2. \A n : << NodeReachable(n) >> \in calls => << NodeReachable(n) >> \in calls'
        BY <3>1, <4>1, OthersStay
      <4> QED
        BY <3>1, <4>1, <4>2, ToldStays
    <3>3. CASE c.node \notin reachedStates
      <4>1. /\ reachedStates' = reachedStates \cup {c.node}
            /\ told' = Tell(Watchers \cap watching, c.node)
            /\ Goes(s, {<< NodeReachable(c.node) >>})
        BY <2>4, <3>3 DEF RunProcessNode
      <4>2. \A n : << NodeReachable(n) >> \in calls => << NodeReachable(n) >> \in calls'
        BY <3>1, <4>1, OthersStay
      <4>3. << NodeReachable(c.node) >> \in calls'
        BY <4>1 DEF Goes
      <4>4. DOMAIN told \subseteq DOMAIN told'
        BY <4>1 DEF Tell
      <4> SUFFICES ASSUME NEW l \in DOMAIN NodeWatchers \cap watching,
                          NodeWatchers[l] \in reachedStates'
                   PROVE  \/ << l, NodeWatchers[l] >> \in DOMAIN told'
                          \/ << NodeReachable(NodeWatchers[l]) >> \in calls'
        BY <3>1 DEF ToldOfNode
      <4>5. CASE NodeWatchers[l] = c.node
        BY <4>3, <4>5
      <4>6. CASE NodeWatchers[l] # c.node
        BY <4>1, <4>2, <4>4, <4>6 DEF ToldOfNode
      <4> QED
        BY <4>5, <4>6
    <3> QED
      BY <3>2, <3>3
  <2>5. ASSUME NEW s \in calls, RunNodeReachable(s)
        PROVE  ToldOfNode'
    <3> DEFINE n == Head(s).node
               one(m) == << NodeReachable(m) >>
    <3>1. /\ Head(s).op = "nodeReachable"
          /\ told' = Tell(NodeWatchersOf(n), n)
          /\ Goes(s, { Propagate(n, f) : f \in Flow[n] })
          /\ watching' = watching /\ reachedStates' = reachedStates
      BY <2>5 DEF RunNodeReachable
    <3>2. DOMAIN told' = DOMAIN told \cup (NodeWatchersOf(n) \X {n})
      BY <3>1, <2>0
    <3>3. \A m : one(m) \in calls /\ one(m) # s => one(m) \in calls'
      BY <3>1 DEF Goes
    <3>4. \A m : one(m) = s => m = n
      BY DEF NodeReachable
    <3> SUFFICES ASSUME NEW l \in DOMAIN NodeWatchers \cap watching,
                        NodeWatchers[l] \in reachedStates
                 PROVE  \/ << l, NodeWatchers[l] >> \in DOMAIN told'
                        \/ one(NodeWatchers[l]) \in calls'
      BY <3>1 DEF ToldOfNode
    <3>5. CASE NodeWatchers[l] = n
      <4>1. l \in NodeWatchersOf(n)
        BY <3>5 DEF NodeWatchersOf
      <4> QED
        BY <3>2, <3>5, <4>1
    <3>6. CASE NodeWatchers[l] # n
      BY <3>2, <3>3, <3>4, <3>6 DEF ToldOfNode
    <3> QED
      BY <3>5, <3>6
  <2>6. ASSUME NEW s \in calls,
               RunAutomaton(s) \/ RunSetContextReachable(s) \/ RunAddSummaryListener(s)
        PROVE  ToldOfNode'
    <3>1. UNCHANGED reachVars /\ Head(s).op # "nodeReachable" /\ \E new : Goes(s, new)
      BY <2>6 DEF RunAutomaton, RunSetContextReachable, RunAddSummaryListener
    <3>2. \A n : << NodeReachable(n) >> \in calls => << NodeReachable(n) >> \in calls'
      BY <3>1, OthersStay
    <3> QED
      BY <3>1, <3>2, ToldStays DEF reachVars
  <2>7. CASE UNCHANGED vars
    BY <2>7 DEF vars, reachVars, ToldOfNode
  <2> QED
    BY <2>1, <2>2, <2>3, <2>4, <2>5, <2>6, <2>7 DEF Next, Client, Run
<1> QED
  BY <1>1, <1>2, TypeCorrect, PTL DEF Spec

-----------------------------------------------------------------------------
(* The least solution.  A candidate k says what the two systems, the       *)
(* summaries and the reached nodes might be; it is a solution when it is   *)
(* closed under everything one part makes the other do.                    *)

CallSeed == Tr(Start[2], Start[1], CallTarget)
FieldSeed == Tr(Start, EmptyField, FieldTarget)

InCalls(k, n) ==
  \E t \in k.callTrans :
    t.start \in Fact /\ t.label # EpsilonStmt /\ n = << t.label, t.start >>
InFields(k, n) == \E t \in k.fieldTrans : t.start \in Node /\ t.label # EpsilonField /\ n = t.start

\* What the call c is about is part of k.
Has(k, c) ==
  /\ c.op = "callRule" => c.rule \in k.callRules
  /\ c.op = "fieldRule" => c.rule \in k.fieldRules
  /\ c.op = "callTransition" => c.t = CallSeed
  /\ c.op = "fieldTransition" => c.t = FieldSeed
  /\ c.op = "summaryListener" => c.l \in k.summaryListeners
  /\ c.op = "calling" => InCalls(k, c.node)
  /\ c.op = "field" => InFields(k, c.node)
  /\ c.op \in {"process", "nodeReachable"} => c.node \in k.nodes
HasAll(k, z) == \A i \in 1..Len(z) : Has(k, z[i])

CallsClosed(k) ==
  /\ ({CallSeed} \cup C!Derived(k.callRules, k.callTrans, k.callPops))
       \ SelfLoops(EpsilonStmt, CallState) \subseteq k.callTrans
  /\ C!Waiting(k.callRules, k.callTrans, k.callPops) \subseteq k.callPops
  /\ \A x \in C!Popped(k.callTrans, k.callPops) : x[2] \in k.summaryEdges
FieldsClosed(k) ==
  /\ ({FieldSeed} \cup F!Derived(k.fieldRules, k.fieldTrans, k.fieldPops))
       \ (Prevented \cup SelfLoops(EpsilonField, FieldState)) \subseteq k.fieldTrans
  /\ F!Waiting(k.fieldRules, k.fieldTrans, k.fieldPops) \subseteq k.fieldPops
NodesClosed(k) ==
  /\ Start \in k.nodes /\ k.nodes \subseteq Node
  /\ \A n \in Node : InCalls(k, n) /\ InFields(k, n) => n \in k.nodes
  /\ \A n \in k.nodes : \A f \in Flow[n] : HasAll(k, Propagate(n, f))
  /\ \A l \in k.summaryListeners, t \in k.summaryEdges :
       \A z \in AddedSummary(l, t) : HasAll(k, z)
Solution(k) == CallsClosed(k) /\ FieldsClosed(k) /\ NodesClosed(k)

\* What the solver has at the moment, and that it is part of k.
Now ==
  [callRules |-> callRules, callTrans |-> callTrans, callPops |-> callPops,
   fieldRules |-> fieldRules, fieldTrans |-> fieldTrans, fieldPops |-> fieldPops,
   summaryEdges |-> summaryEdges, summaryListeners |-> summaryListeners,
   nodes |-> reachedStates]
PartOf(k) ==
  /\ callRules \subseteq k.callRules /\ callTrans \subseteq k.callTrans
  /\ callPops \subseteq k.callPops
  /\ fieldRules \subseteq k.fieldRules /\ fieldTrans \subseteq k.fieldTrans
  /\ fieldPops \subseteq k.fieldPops
  /\ summaryEdges \subseteq k.summaryEdges /\ summaryListeners \subseteq k.summaryListeners
  /\ reachedStates \subseteq k.nodes

\* The inductive form: what is ahead, waiting as a seed or noted as a context is
\* part of the candidate, too.
WithinSolution(k) ==
  /\ PartOf(k)
  /\ callSeeds \subseteq {CallSeed} /\ fieldSeeds \subseteq {FieldSeed}
  /\ \A n \in callingContextReachable : InCalls(k, n)
  /\ \A n \in fieldContextReachable : InFields(k, n)
  /\ \A z \in calls : HasAll(k, z)

\* What a system derives grows with its rules, transitions and waiting pops.
LEMMA CallsDeriveMore ==
  ASSUME NEW rs, NEW T, NEW P, NEW rs2, NEW T2, NEW P2,
         rs \subseteq rs2, T \subseteq T2, P \subseteq P2
  PROVE  /\ C!Derived(rs, T, P) \subseteq C!Derived(rs2, T2, P2)
         /\ C!Waiting(rs, T, P) \subseteq C!Waiting(rs2, T2, P2)
         /\ C!Popped(T, P) \subseteq C!Popped(T2, P2)
<1>1. C!RuleDerives(rs, T) \subseteq C!RuleDerives(rs2, T2)
  BY DEF C!RuleDerives
<1>2. C!Popped(T, P) \subseteq C!Popped(T2, P2)
  BY DEF C!Popped
<1>3. C!PopDerives(T, P) \subseteq C!PopDerives(T2, P2)
  BY <1>2 DEF C!PopDerives
<1>4. C!EpsilonDerives(T) \subseteq C!EpsilonDerives(T2)
  BY DEF C!EpsilonDerives
<1>5. C!Waiting(rs, T, P) \subseteq C!Waiting(rs2, T2, P2)
  BY DEF C!Waiting
<1> QED
  BY <1>1, <1>2, <1>3, <1>4, <1>5 DEF C!Derived

LEMMA FieldsDeriveMore ==
  ASSUME NEW rs, NEW T, NEW P, NEW rs2, NEW T2, NEW P2,
         rs \subseteq rs2, T \subseteq T2, P \subseteq P2
  PROVE  /\ F!Derived(rs, T, P) \subseteq F!Derived(rs2, T2, P2)
         /\ F!Waiting(rs, T, P) \subseteq F!Waiting(rs2, T2, P2)
<1>1. F!RuleDerives(rs, T) \subseteq F!RuleDerives(rs2, T2)
  BY DEF F!RuleDerives
<1>2. F!Popped(T, P) \subseteq F!Popped(T2, P2)
  BY DEF F!Popped
<1>3. F!PopDerives(T, P) \subseteq F!PopDerives(T2, P2)
  BY <1>2 DEF F!PopDerives
<1>4. F!EpsilonDerives(T) \subseteq F!EpsilonDerives(T2)
  BY DEF F!EpsilonDerives
<1>5. F!Waiting(rs, T, P) \subseteq F!Waiting(rs2, T2, P2)
  BY DEF F!Waiting
<1> QED
  BY <1>1, <1>3, <1>4, <1>5 DEF F!Derived

\* What a handler still has to call is part of the candidate when what it had was.
LEMMA GoesWithin ==
  ASSUME TypeOK, NEW k, \A z \in calls : HasAll(k, z), NEW s \in calls,
         NEW new, \A z \in new : HasAll(k, z), Goes(s, new)
  PROVE  \A z \in calls' : HasAll(k, z)
<1>1. ASSUME Len(s) > 1
      PROVE  HasAll(k, Tail(s))
  <2>1. s \in Seq(Call)
    BY DEF TypeOK
  <2>2. \A i \in 1..Len(Tail(s)) : i + 1 \in 1..Len(s) /\ Tail(s)[i] = s[i + 1]
    BY <1>1, <2>1
  <2> QED
    BY <2>2 DEF HasAll
<1> QED
  BY <1>1 DEF Goes

LEMMA HeadWithin ==
  ASSUME TypeOK, NEW k, \A z \in calls : HasAll(k, z), NEW s \in calls
  PROVE  Has(k, Head(s))
<1>1. s \in Seq(Call) /\ s # << >>
  BY DEF TypeOK
<1>2. 1 \in 1..Len(s) /\ Head(s) = s[1]
  BY <1>1
<1> QED
  BY <1>2 DEF HasAll

LEMMA OneWithin ==
  ASSUME NEW k, NEW c, Has(k, c)
  PROVE  HasAll(k, << c >>)
<1>1. Len(<< c >>) = 1 /\ << c >>[1] = c
  OBVIOUS
<1>2. \A i \in 1..1 : i = 1
  OBVIOUS
<1> QED
  BY <1>1, <1>2 DEF HasAll

LEMMA SolveWithin ==
  ASSUME TypeOK, NEW k, Solution(k), WithinSolution(k), Solve
  PROVE  WithinSolution(k)'
<1> DEFINE z == << AddFieldTransition(FieldSeed), AddCallTransition(CallSeed), ProcessNode(Start) >>
<1>1. calls' = calls \cup {z}
  BY DEF Solve, FieldSeed, CallSeed
<1>2. /\ Has(k, AddFieldTransition(FieldSeed)) /\ Has(k, AddCallTransition(CallSeed))
      /\ Has(k, ProcessNode(Start))
  BY DEF Has, AddFieldTransition, AddCallTransition, ProcessNode, Solution, NodesClosed
<1>3. Len(z) = 3 /\ z[1] = AddFieldTransition(FieldSeed) /\ z[2] = AddCallTransition(CallSeed)
      /\ z[3] = ProcessNode(Start)
  OBVIOUS
<1>4. \A i \in 1..3 : i = 1 \/ i = 2 \/ i = 3
  OBVIOUS
<1> HIDE DEF z
<1>5. HasAll(k, z)
  BY <1>2, <1>3, <1>4 DEF HasAll
<1> QED
  BY <1>1, <1>5 DEF Solve, WithinSolution, PartOf, callVars, fieldVars, summaryVars, contextVars,
     reachVars

LEMMA CallTransitionWithin ==
  ASSUME TypeOK, NEW k, Solution(k), WithinSolution(k), CallTransitionAdded
  PROVE  WithinSolution(k)'
<1>1. PICK t \in C!Due :
        /\ callTrans' = callTrans \cup {t}
        /\ calls' = IF t.start \in Fact /\ t.label # EpsilonStmt
                    THEN calls \cup {<< SetCallingContextReachable(<< t.label, t.start >>) >>}
                    ELSE calls
        /\ UNCHANGED << callRules, callSeeds, callPops, fieldVars, summaryVars,
                        contextVars, reachVars, solved >>
  BY DEF CallTransitionAdded
<1>2. /\ t \in callSeeds \cup C!Derived(callRules, callTrans, callPops)
      /\ t \notin SelfLoops(EpsilonStmt, CallState)
  BY DEF C!Due
<1>3. t \in k.callTrans
  <2>1. C!Derived(callRules, callTrans, callPops)
          \subseteq C!Derived(k.callRules, k.callTrans, k.callPops)
    BY CallsDeriveMore DEF WithinSolution, PartOf
  <2> QED
    BY <1>2, <2>1 DEF Solution, CallsClosed, WithinSolution
<1>4. ASSUME t.start \in Fact, t.label # EpsilonStmt
      PROVE  HasAll(k, << SetCallingContextReachable(<< t.label, t.start >>) >>)
  <2>1. InCalls(k, << t.label, t.start >>)
    BY <1>3, <1>4 DEF InCalls
  <2>2. Has(k, SetCallingContextReachable(<< t.label, t.start >>))
    BY <2>1 DEF Has, SetCallingContextReachable
  <2> QED
    BY <2>2, OneWithin
<1>5. \A z \in calls' : HasAll(k, z)
  BY <1>1, <1>4 DEF WithinSolution
<1> QED
  BY <1>1, <1>3, <1>5 DEF WithinSolution, PartOf, fieldVars, summaryVars, contextVars, reachVars

LEMMA FieldTransitionWithin ==
  ASSUME TypeOK, NEW k, Solution(k), WithinSolution(k), FieldTransitionAdded
  PROVE  WithinSolution(k)'
<1>1. PICK t \in F!Due :
        /\ fieldTrans' = fieldTrans \cup {t}
        /\ calls' = IF t.start \in Node /\ t.label # EpsilonField
                    THEN calls \cup {<< SetFieldContextReachable(t.start) >>}
                    ELSE calls
        /\ UNCHANGED << callVars, fieldRules, fieldSeeds, fieldPops, summaryVars,
                        contextVars, reachVars, solved >>
  BY DEF FieldTransitionAdded
<1>2. /\ t \in fieldSeeds \cup F!Derived(fieldRules, fieldTrans, fieldPops)
      /\ t \notin Prevented \cup SelfLoops(EpsilonField, FieldState)
  BY DEF F!Due
<1>3. t \in k.fieldTrans
  <2>1. F!Derived(fieldRules, fieldTrans, fieldPops)
          \subseteq F!Derived(k.fieldRules, k.fieldTrans, k.fieldPops)
    BY FieldsDeriveMore DEF WithinSolution, PartOf
  <2> QED
    BY <1>2, <2>1 DEF Solution, FieldsClosed, WithinSolution
<1>4. ASSUME t.start \in Node, t.label # EpsilonField
      PROVE  HasAll(k, << SetFieldContextReachable(t.start) >>)
  <2>1. InFields(k, t.start)
    BY <1>3, <1>4 DEF InFields
  <2>2. Has(k, SetFieldContextReachable(t.start))
    BY <2>1 DEF Has, SetFieldContextReachable
  <2> QED
    BY <2>2, OneWithin
<1>5. \A z \in calls' : HasAll(k, z)
  BY <1>1, <1>4 DEF WithinSolution
<1> QED
  BY <1>1, <1>3, <1>5 DEF WithinSolution, PartOf, callVars, summaryVars, contextVars, reachVars

LEMMA AutomataWithin ==
  ASSUME TypeOK, NEW k, Solution(k), WithinSolution(k), PopWaits \/ SummaryEdgeAdded
  PROVE  WithinSolution(k)'
<1>1. CASE C!Wait /\ UNCHANGED fieldVars /\ UNCHANGED << summaryVars, contextVars, reachVars, calls >>
  <2>0. C!Waiting(callRules, callTrans, callPops)
          \subseteq C!Waiting(k.callRules, k.callTrans, k.callPops)
    BY CallsDeriveMore DEF WithinSolution, PartOf
  <2>1. C!Waiting(callRules, callTrans, callPops) \subseteq k.callPops
    BY <2>0 DEF Solution, CallsClosed
  <2>2. /\ callPops' \subseteq k.callPops
        /\ UNCHANGED << callRules, callSeeds, callTrans >>
    BY <1>1, <2>1 DEF C!Wait, WithinSolution, PartOf
  <2> QED
    BY <1>1, <2>2 DEF WithinSolution, PartOf, fieldVars, summaryVars, contextVars, reachVars
<1>2. CASE F!Wait /\ UNCHANGED callVars /\ UNCHANGED << summaryVars, contextVars, reachVars, calls >>
  <2>1. F!Waiting(fieldRules, fieldTrans, fieldPops) \subseteq k.fieldPops
    BY FieldsDeriveMore DEF WithinSolution, PartOf, Solution, FieldsClosed
  <2>2. /\ fieldPops' \subseteq k.fieldPops
        /\ UNCHANGED << fieldRules, fieldSeeds, fieldTrans >>
    BY <1>2, <2>1 DEF F!Wait, WithinSolution, PartOf
  <2> QED
    BY <1>2, <2>2 DEF WithinSolution, PartOf, callVars, summaryVars, contextVars, reachVars
<1>3. CASE SummaryEdgeAdded
  <2>1. PICK x \in C!Popped(callTrans, callPops) :
          /\ summaryEdges' = summaryEdges \cup {x[2]}
          /\ calls' = calls \cup UNION { AddedSummary(l, x[2]) : l \in summaryListeners }
          /\ UNCHANGED << callVars, fieldVars, summaryListeners, contextVars, reachVars, solved >>
    BY <1>3 DEF SummaryEdgeAdded
  <2>2. C!Popped(callTrans, callPops) \subseteq C!Popped(k.callTrans, k.callPops)
    BY CallsDeriveMore DEF WithinSolution, PartOf
  <2>3. x[2] \in k.summaryEdges
    BY <2>2 DEF Solution, CallsClosed
  <2>4. \A z \in calls' : HasAll(k, z)
    BY <2>1, <2>3 DEF WithinSolution, PartOf, Solution, NodesClosed
  <2> QED
    BY <2>1, <2>3, <2>4 DEF WithinSolution, PartOf, callVars, fieldVars, contextVars, reachVars
<1> QED
  BY <1>1, <1>2, <1>3 DEF PopWaits

LEMMA RunWithin ==
  ASSUME TypeOK, NEW k, Solution(k), WithinSolution(k), NEW s \in calls,
         \/ RunAutomaton(s) \/ RunSetContextReachable(s) \/ RunProcessNode(s)
         \/ RunNodeReachable(s) \/ RunAddSummaryListener(s)
  PROVE  WithinSolution(k)'
<1> DEFINE c == Head(s)
<1>0. Has(k, c) /\ c \in Call /\ \A z \in calls : HasAll(k, z)
  BY HeadWithin, HeadTyped DEF WithinSolution
<1>1. CASE RunAutomaton(s)
  <2>1. \A z \in calls' : HasAll(k, z)
    <3>1. Goes(s, {})
      BY <1>1 DEF RunAutomaton
    <3> QED
      BY <1>0, <3>1, GoesWithin
  <2>2. /\ callRules' \subseteq k.callRules /\ fieldRules' \subseteq k.fieldRules
        /\ callSeeds' \subseteq {CallSeed} /\ fieldSeeds' \subseteq {FieldSeed}
    BY <1>0, <1>1 DEF RunAutomaton, Has, WithinSolution, PartOf
  <2> QED
    BY <1>1, <2>1, <2>2 DEF RunAutomaton, WithinSolution, PartOf, summaryVars, contextVars, reachVars
<1>2. CASE RunSetContextReachable(s)
  <2> DEFINE new == IF c.op = "calling"
                    THEN IF c.node \in fieldContextReachable /\ c.node \notin callingContextReachable
                         THEN {<< ProcessNode(c.node) >>} ELSE {}
                    ELSE IF c.node \in callingContextReachable /\ c.node \notin fieldContextReachable
                         THEN {<< ProcessNode(c.node) >>} ELSE {}
  <2>1. /\ c.op \in {"calling", "field"}
        /\ c.op = "calling" => /\ callingContextReachable' = callingContextReachable \cup {c.node}
                               /\ UNCHANGED fieldContextReachable
        /\ c.op = "field" => /\ fieldContextReachable' = fieldContextReachable \cup {c.node}
                             /\ UNCHANGED callingContextReachable
        /\ Goes(s, new)
        /\ UNCHANGED << callVars, fieldVars, summaryVars, reachVars, solved >>
    BY <1>2 DEF RunSetContextReachable
  <2>2. /\ c.op = "calling" => InCalls(k, c.node)
        /\ c.op = "field" => InFields(k, c.node)
    BY <1>0 DEF Has
  <2>3. c.node \in Node
    BY <1>0, <2>1, NodeOfCall
  <2>4. ASSUME c.node \in callingContextReachable \cup {c.node},
               \/ c.op = "calling" /\ c.node \in fieldContextReachable
               \/ c.op = "field" /\ c.node \in callingContextReachable
        PROVE  HasAll(k, << ProcessNode(c.node) >>)
    <3>1. InCalls(k, c.node) /\ InFields(k, c.node)
      BY <2>2, <2>4 DEF WithinSolution
    <3>2. c.node \in k.nodes
      BY <2>3, <3>1 DEF Solution, NodesClosed
    <3>3. Has(k, ProcessNode(c.node))
      BY <3>2 DEF Has, ProcessNode
    <3> QED
      BY <3>3, OneWithin
  <2>5. \A z \in new : HasAll(k, z)
    BY <2>1, <2>4
  <2> HIDE DEF new
  <2>6. \A z \in calls' : HasAll(k, z)
    BY <1>0, <2>1, <2>5, GoesWithin
  <2>7. /\ \A n \in callingContextReachable' : InCalls(k, n)
        /\ \A n \in fieldContextReachable' : InFields(k, n)
    BY <2>1, <2>2 DEF WithinSolution
  <2> QED
    BY <2>1, <2>6, <2>7 DEF WithinSolution, PartOf, callVars, fieldVars, summaryVars, reachVars
<1>3. CASE RunProcessNode(s)
  <2>1. c.op = "process" /\ c.node \in k.nodes
    BY <1>0, <1>3 DEF RunProcessNode, Has
  <2>2. Has(k, NodeReachable(c.node))
    BY <2>1 DEF Has, NodeReachable
  <2>3. PICK new \in {{}, {<< NodeReachable(c.node) >>}} : Goes(s, new)
    BY <1>3 DEF RunProcessNode
  <2>4. \A z \in calls' : HasAll(k, z)
    BY <1>0, <2>2, <2>3, GoesWithin, OneWithin
  <2>5. reachedStates' \subseteq k.nodes
    BY <1>3, <2>1 DEF RunProcessNode, WithinSolution, PartOf
  <2> QED
    BY <1>3, <2>4, <2>5 DEF RunProcessNode, WithinSolution, PartOf, callVars, fieldVars, summaryVars,
       contextVars
<1>4. CASE RunNodeReachable(s)
  <2>1. c.op = "nodeReachable" /\ c.node \in k.nodes
    BY <1>0, <1>4 DEF RunNodeReachable, Has
  <2>2. Goes(s, { Propagate(c.node, f) : f \in Flow[c.node] })
    BY <1>4 DEF RunNodeReachable
  <2>3. \A z \in { Propagate(c.node, f) : f \in Flow[c.node] } : HasAll(k, z)
    BY <2>1 DEF Solution, NodesClosed
  <2>4. \A z \in calls' : HasAll(k, z)
    BY <1>0, <2>2, <2>3, GoesWithin
  <2> QED
    BY <1>4, <2>4 DEF RunNodeReachable, WithinSolution, PartOf, callVars, fieldVars, summaryVars,
       contextVars
<1>5. CASE RunAddSummaryListener(s)
  <2>1. c.op = "summaryListener" /\ c.l \in k.summaryListeners
    BY <1>0, <1>5 DEF RunAddSummaryListener, Has
  <2>2. /\ Goes(s, UNION { AddedSummary(c.l, t) : t \in summaryEdges })
        /\ summaryListeners' = summaryListeners \cup {c.l}
    BY <1>5 DEF RunAddSummaryListener
  <2>3. \A z \in UNION { AddedSummary(c.l, t) : t \in summaryEdges } : HasAll(k, z)
    BY <2>1 DEF Solution, NodesClosed, WithinSolution, PartOf
  <2>4. \A z \in calls' : HasAll(k, z)
    BY <1>0, <2>2, <2>3, GoesWithin
  <2> QED
    BY <1>5, <2>1, <2>2, <2>4 DEF RunAddSummaryListener, WithinSolution, PartOf, callVars, fieldVars,
       contextVars, reachVars
<1> QED
  BY <1>1, <1>2, <1>3, <1>4, <1>5

(***************************************************************************)
(* Nothing is invented: in whatever order the systems, the summaries and   *)
(* the contexts tell each other of what they have, at every moment all of  *)
(* it is part of every solution, so no node is reached that the solver     *)
(* would not reach in every other order as well (SyncPDSSolver).           *)
(***************************************************************************)
THEOREM NothingInvented ==
  ASSUME NEW CONSTANT k, Solution(k)
  PROVE  Spec => []PartOf(k)
<1>1. Init => WithinSolution(k)
  BY DEF Init, WithinSolution, PartOf
<1>2. TypeOK /\ WithinSolution(k) /\ [Next]_vars => WithinSolution(k)'
  <2> SUFFICES ASSUME TypeOK, WithinSolution(k), [Next]_vars
               PROVE  WithinSolution(k)'
    OBVIOUS
  <2>1. CASE Solve
    BY <2>1, SolveWithin
  <2>2. CASE Automata
    BY <2>2, CallTransitionWithin, FieldTransitionWithin, AutomataWithin DEF Automata
  <2>3. CASE Run
    BY <2>3, RunWithin DEF Run
  <2>4. CASE \/ \E l \in Watchers : Watch(l)
             \/ \E l \in DOMAIN NodeWatchers : WatchNode(l)
             \/ UNCHANGED vars
    BY <2>4 DEF Watch, WatchNode, vars, reachVars, WithinSolution, PartOf, callVars, fieldVars,
       summaryVars, contextVars
  <2> QED
    BY <2>1, <2>2, <2>3, <2>4 DEF Next, Client
<1>3. WithinSolution(k) => PartOf(k)
  BY DEF WithinSolution
<1> QED
  BY <1>1, <1>2, <1>3, TypeCorrect, PTL DEF Spec

-----------------------------------------------------------------------------
(* Nothing is lost: whatever follows from what is there has been done, or  *)
(* a handler in progress is still going to do it.                          *)

Done(c) ==
  \/ c.op = "callRule" /\ c.rule \in callRules
  \/ c.op = "fieldRule" /\ c.rule \in fieldRules
  \/ c.op = "callTransition" /\ c.t \in callSeeds
  \/ c.op = "fieldTransition" /\ c.t \in fieldSeeds
  \/ c.op = "summaryListener" /\ c.l \in summaryListeners
  \/ c.op = "calling" /\ c.node \in callingContextReachable
  \/ c.op = "field" /\ c.node \in fieldContextReachable
  \/ c.op = "process" /\ c.node \in reachedStates
Made(c) == Done(c) \/ Ahead(c)
MadeAll(z) == \A i \in 1..Len(z) : Made(z[i])

NothingLost ==
  /\ solved => /\ Made(AddFieldTransition(FieldSeed)) /\ Made(AddCallTransition(CallSeed))
               /\ Made(ProcessNode(Start))
  /\ \A t \in callTrans : t.start \in Fact /\ t.label # EpsilonStmt =>
       Made(SetCallingContextReachable(<< t.label, t.start >>))
  /\ \A t \in fieldTrans : t.start \in Node /\ t.label # EpsilonField =>
       Made(SetFieldContextReachable(t.start))
  /\ \A n \in reachedStates :
       << NodeReachable(n) >> \in calls \/ \A f \in Flow[n] : MadeAll(Propagate(n, f))
  /\ \A l \in summaryListeners, t \in summaryEdges : \A z \in AddedSummary(l, t) : MadeAll(z)

LEMMA StepGrows ==
  ASSUME [Next]_vars
  PROVE  /\ callRules \subseteq callRules' /\ fieldRules \subseteq fieldRules'
         /\ callSeeds \subseteq callSeeds' /\ fieldSeeds \subseteq fieldSeeds'
         /\ summaryListeners \subseteq summaryListeners'
         /\ callingContextReachable \subseteq callingContextReachable'
         /\ fieldContextReachable \subseteq fieldContextReachable'
         /\ reachedStates \subseteq reachedStates'
<1> DEFINE Grow == /\ callRules \subseteq callRules' /\ fieldRules \subseteq fieldRules'
                   /\ callSeeds \subseteq callSeeds' /\ fieldSeeds \subseteq fieldSeeds'
                   /\ summaryListeners \subseteq summaryListeners'
                   /\ callingContextReachable \subseteq callingContextReachable'
                   /\ fieldContextReachable \subseteq fieldContextReachable'
                   /\ reachedStates \subseteq reachedStates'
<1>1. CASE Client \/ UNCHANGED vars
  BY <1>1 DEF Client, Solve, Watch, WatchNode, vars, callVars, fieldVars, summaryVars, contextVars,
     reachVars
<1>2. CASE Automata
  BY <1>2 DEF Automata, CallTransitionAdded, FieldTransitionAdded, PopWaits, SummaryEdgeAdded, C!Wait,
     F!Wait, callVars, fieldVars, summaryVars, contextVars, reachVars
<1>3. ASSUME NEW s \in calls, RunAutomaton(s)
      PROVE  Grow
  BY <1>3 DEF RunAutomaton, summaryVars, contextVars, reachVars
<1>4. ASSUME NEW s \in calls, RunSetContextReachable(s)
      PROVE  Grow
  BY <1>4 DEF RunSetContextReachable, callVars, fieldVars, summaryVars, reachVars
<1>5. ASSUME NEW s \in calls, RunProcessNode(s)
      PROVE  Grow
  BY <1>5 DEF RunProcessNode, callVars, fieldVars, summaryVars, contextVars
<1>6. ASSUME NEW s \in calls, RunNodeReachable(s) \/ RunAddSummaryListener(s)
      PROVE  Grow
  BY <1>6 DEF RunNodeReachable, RunAddSummaryListener, callVars, fieldVars, summaryVars, contextVars,
     reachVars
<1> QED
  BY <1>1, <1>2, <1>3, <1>4, <1>5, <1>6 DEF Next, Run

\* A call that runs does what it is for.
LEMMA Runs ==
  ASSUME NEW s \in calls, Head(s).op # "nodeReachable",
         \/ RunAutomaton(s) \/ RunSetContextReachable(s) \/ RunProcessNode(s)
         \/ RunAddSummaryListener(s)
  PROVE  Done(Head(s))'
<1> DEFINE c == Head(s)
<1>1. CASE RunAutomaton(s)
  BY <1>1 DEF RunAutomaton, Done
<1>2. CASE RunSetContextReachable(s)
  BY <1>2 DEF RunSetContextReachable, Done
<1>3. CASE RunProcessNode(s)
  BY <1>3 DEF RunProcessNode, Done
<1>4. CASE RunAddSummaryListener(s)
  BY <1>4 DEF RunAddSummaryListener, Done
<1> QED
  BY <1>1, <1>2, <1>3, <1>4

LEMMA MadeStays ==
  ASSUME TypeOK, [Next]_vars, NEW c, Made(c), c.op # "nodeReachable"
  PROVE  Made(c)'
<1>1. CASE Done(c)
  <2>1. Done(c)'
    BY <1>1, StepGrows DEF Done
  <2> QED
    BY <2>1 DEF Made
<1>2. CASE Ahead(c)
  <2>1. CASE Client \/ Automata \/ UNCHANGED vars
    <3>1. calls \subseteq calls'
      BY <2>1, OnlyRunTakesCalls DEF vars
    <3> QED
      BY <1>2, <3>1, GrowsAhead DEF Made
  <2>2. CASE Run
    <3>1. PICK s \in calls :
            \/ RunAutomaton(s) \/ RunSetContextReachable(s) \/ RunProcessNode(s)
            \/ RunNodeReachable(s) \/ RunAddSummaryListener(s)
      BY <2>2 DEF Run
    <3>2. CASE Head(s) = c
      <4>1. ~ RunNodeReachable(s)
        BY <3>2 DEF RunNodeReachable
      <4>2. Done(c)'
        BY <3>1, <3>2, <4>1, Runs
      <4> QED
        BY <4>2 DEF Made
    <3>3. CASE Head(s) # c
      <4>1. \E new : Goes(s, new)
        BY <3>1 DEF RunAutomaton, RunSetContextReachable, RunProcessNode, RunNodeReachable,
           RunAddSummaryListener
      <4>2. Ahead(c)'
        BY <1>2, <3>3, <4>1, StaysAhead
      <4> QED
        BY <4>2 DEF Made
    <3> QED
      BY <3>2, <3>3
  <2> QED
    BY <2>1, <2>2 DEF Next
<1> QED
  BY <1>1, <1>2 DEF Made

LEMMA MadeAllStays ==
  ASSUME TypeOK, [Next]_vars, NEW z \in Seq(FlowCall), MadeAll(z)
  PROVE  MadeAll(z)'
<1>1. \A i \in 1..Len(z) : z[i].op # "nodeReachable"
  BY DEF FlowCall
<1> QED
  BY <1>1, MadeStays DEF MadeAll

\* A handler that begins has all of its calls ahead.
LEMMA BegunIsMade ==
  ASSUME NEW z \in calls'
  PROVE  MadeAll(z)'
BY DEF MadeAll, Made, Ahead

LEMMA OneIsMade ==
  ASSUME NEW c, << c >> \in calls'
  PROVE  Made(c)'
<1> DEFINE z == << c >>
<1>1. Len(z) = 1 /\ z[1] = c /\ 1 \in 1..Len(z) /\ z \in calls'
  OBVIOUS
<1> QED
  BY <1>1 DEF Made, Ahead

LEMMA NothingLostStep ==
  ASSUME TypeOK, NothingLost, [Next]_vars
  PROVE  NothingLost'
<1>1. ASSUME solved'
      PROVE  /\ Made(AddFieldTransition(FieldSeed))' /\ Made(AddCallTransition(CallSeed))'
             /\ Made(ProcessNode(Start))'
  <2>1. CASE solved
    BY <2>1, MadeStays DEF NothingLost, AddFieldTransition, AddCallTransition, ProcessNode
  <2>2. CASE ~ solved
    <3> DEFINE z == << AddFieldTransition(FieldSeed), AddCallTransition(CallSeed),
                       ProcessNode(Start) >>
    <3>1. Solve
      BY <1>1, <2>2 DEF Next, Client, Watch, WatchNode, Automata, CallTransitionAdded,
         FieldTransitionAdded, PopWaits, SummaryEdgeAdded, Run, RunAutomaton,
         RunSetContextReachable, RunProcessNode, RunNodeReachable, RunAddSummaryListener, vars
    <3>2. z \in calls'
      BY <3>1 DEF Solve, FieldSeed, CallSeed
    <3>3. /\ Len(z) = 3 /\ z[1] = AddFieldTransition(FieldSeed)
          /\ z[2] = AddCallTransition(CallSeed) /\ z[3] = ProcessNode(Start)
      OBVIOUS
    <3> HIDE DEF z
    <3>4. MadeAll(z)'
      BY <3>2, BegunIsMade
    <3> QED
      BY <3>3, <3>4 DEF MadeAll
  <2> QED
    BY <2>1, <2>2
<1>2. ASSUME NEW t \in callTrans', t.start \in Fact, t.label # EpsilonStmt
      PROVE  Made(SetCallingContextReachable(<< t.label, t.start >>))'
  <2>1. CASE t \in callTrans
    BY <1>2, <2>1, MadeStays DEF NothingLost, SetCallingContextReachable
  <2>2. CASE t \notin callTrans
    <3>1. CallTransitionAdded
      BY <2>2 DEF Next, Client, Solve, Watch, WatchNode, Automata, FieldTransitionAdded, PopWaits,
         SummaryEdgeAdded, C!Wait, Run, RunAutomaton, RunSetContextReachable, RunProcessNode,
         RunNodeReachable, RunAddSummaryListener, vars, callVars
    <3>2. << SetCallingContextReachable(<< t.label, t.start >>) >> \in calls'
      BY <1>2, <2>2, <3>1 DEF CallTransitionAdded
    <3> QED
      BY <3>2, OneIsMade
  <2> QED
    BY <2>1, <2>2
<1>3. ASSUME NEW t \in fieldTrans', t.start \in Node, t.label # EpsilonField
      PROVE  Made(SetFieldContextReachable(t.start))'
  <2>1. CASE t \in fieldTrans
    BY <1>3, <2>1, MadeStays DEF NothingLost, SetFieldContextReachable
  <2>2. CASE t \notin fieldTrans
    <3>1. FieldTransitionAdded
      BY <2>2 DEF Next, Client, Solve, Watch, WatchNode, Automata, CallTransitionAdded, PopWaits,
         SummaryEdgeAdded, F!Wait, Run, RunAutomaton, RunSetContextReachable, RunProcessNode,
         RunNodeReachable, RunAddSummaryListener, vars, fieldVars
    <3>2. << SetFieldContextReachable(t.start) >> \in calls'
      BY <1>3, <2>2, <3>1 DEF FieldTransitionAdded
    <3> QED
      BY <3>2, OneIsMade
  <2> QED
    BY <2>1, <2>2
<1>4. ASSUME NEW n \in reachedStates'
      PROVE  << NodeReachable(n) >> \in calls' \/ \A f \in Flow[n] : MadeAll(Propagate(n, f))'
  <2>0. TypeOK'
    BY TypeStep
  <2>1. n \in Node
    BY <2>0 DEF TypeOK
  <2>2. CASE n \in reachedStates /\ \A f \in Flow[n] : MadeAll(Propagate(n, f))
    BY <2>1, <2>2, PropagateTyped, MadeAllStays
  <2>3. CASE n \in reachedStates /\ << NodeReachable(n) >> \in calls
    <3>1. CASE << NodeReachable(n) >> \in calls'
      BY <3>1
    <3>2. CASE << NodeReachable(n) >> \notin calls'
      <4>1. PICK s \in calls :
              \/ RunAutomaton(s) \/ RunSetContextReachable(s) \/ RunProcessNode(s)
              \/ RunNodeReachable(s) \/ RunAddSummaryListener(s)
        BY <2>3, <3>2, OnlyRunTakesCalls DEF Next, Run, vars
      <4>2. \E new : Goes(s, new)
        BY <4>1 DEF RunAutomaton, RunSetContextReachable, RunProcessNode, RunNodeReachable,
           RunAddSummaryListener
      <4>3. s = << NodeReachable(n) >>
        BY <2>3, <3>2, <4>2 DEF Goes
      <4>4. Head(s).op = "nodeReachable" /\ Head(s).node = n
        BY <4>3 DEF NodeReachable
      <4>5. RunNodeReachable(s)
        BY <4>1, <4>4 DEF RunAutomaton, RunSetContextReachable, RunProcessNode,
           RunAddSummaryListener
      <4>6. \A f \in Flow[n] : Propagate(n, f) \in calls'
        BY <4>4, <4>5 DEF RunNodeReachable, Goes
      <4> QED
        BY <4>6, BegunIsMade
    <3> QED
      BY <3>1, <3>2
  <2>4. CASE n \notin reachedStates
    <3>1. PICK s \in calls : RunProcessNode(s)
      BY <1>4, <2>4, OnlyRunTakesCalls DEF Next, Run, RunAutomaton, RunSetContextReachable,
         RunNodeReachable, RunAddSummaryListener, vars, reachVars
    <3> QED
      BY <1>4, <2>4, <3>1 DEF RunProcessNode, Goes
  <2> QED
    BY <2>2, <2>3, <2>4 DEF NothingLost
<1>5. ASSUME NEW l \in summaryListeners', NEW t \in summaryEdges', NEW z \in AddedSummary(l, t)
      PROVE  MadeAll(z)'
  <2>0. TypeOK'
    BY TypeStep
  <2>1. z \in Seq(FlowCall)
    <3>1. l \in Stmt \X Fact \X Stmt /\ t \in CallTransition /\ t.label \in Stmt
      BY <2>0 DEF TypeOK
    <3> QED
      BY <3>1, SummaryTyped
  <2>2. CASE l \in summaryListeners /\ t \in summaryEdges
    BY <2>1, <2>2, MadeAllStays DEF NothingLost
  <2>3. CASE t \notin summaryEdges
    <3>1. SummaryEdgeAdded
      BY <2>3 DEF Next, Client, Solve, Watch, WatchNode, Automata, CallTransitionAdded,
         FieldTransitionAdded, PopWaits, Run, RunAutomaton, RunSetContextReachable,
         RunProcessNode, RunNodeReachable, RunAddSummaryListener, vars, summaryVars
    <3>2. z \in calls'
      BY <2>3, <3>1 DEF SummaryEdgeAdded
    <3> QED
      BY <3>2, BegunIsMade
  <2>4. CASE l \notin summaryListeners /\ t \in summaryEdges
    <3>1. PICK s \in calls : RunAddSummaryListener(s)
      BY <2>4 DEF Next, Client, Solve, Watch, WatchNode, Automata, CallTransitionAdded,
         FieldTransitionAdded, PopWaits, SummaryEdgeAdded, Run, RunAutomaton,
         RunSetContextReachable, RunProcessNode, RunNodeReachable, vars, summaryVars
    <3>2. z \in calls'
      BY <2>4, <3>1 DEF RunAddSummaryListener, Goes
    <3> QED
      BY <3>2, BegunIsMade
  <2> QED
    BY <2>2, <2>3, <2>4
<1> QED
  BY <1>1, <1>2, <1>3, <1>4, <1>5 DEF NothingLost

\* When nothing is ahead, what has to be done is done.
LEMMA QuietHasAll ==
  ASSUME calls = {}, NEW z \in Seq(FlowCall), MadeAll(z)
  PROVE  HasAll(Now, z)
<1> SUFFICES ASSUME NEW i \in 1..Len(z)
             PROVE  Has(Now, z[i])
  BY DEF HasAll
<1>1. z[i].op \in {"callRule", "fieldRule", "summaryListener"}
  BY DEF FlowCall
<1>2. Done(z[i])
  BY DEF MadeAll, Made, Ahead
<1> QED
  BY <1>1, <1>2 DEF Has, Done, Now

LEMMA QuietSolves ==
  ASSUME TypeOK, NothingLost, BothContextsMeet, Quiet
  PROVE  Solution(Now)
<1>0. calls = {} /\ solved /\ \A c : ~ Ahead(c)
  BY DEF Quiet, Ahead
<1>1. CallSeed \in callSeeds /\ FieldSeed \in fieldSeeds /\ Start \in reachedStates
  BY <1>0 DEF NothingLost, Made, Done, AddCallTransition, AddFieldTransition, ProcessNode
<1>2. CallsClosed(Now)
  BY <1>1 DEF CallsClosed, Now, Quiet, C!Closed, C!Due
<1>3. FieldsClosed(Now)
  BY <1>1 DEF FieldsClosed, Now, Quiet, F!Closed, F!Due
<1>4. ASSUME NEW n \in Node, InCalls(Now, n), InFields(Now, n)
      PROVE  n \in reachedStates
  <2>1. n \in callingContextReachable
    BY <1>0, <1>4 DEF InCalls, Now, NothingLost, Made, Done, SetCallingContextReachable
  <2>2. n \in fieldContextReachable
    BY <1>0, <1>4 DEF InFields, Now, NothingLost, Made, Done, SetFieldContextReachable
  <2> QED
    BY <1>0, <2>1, <2>2 DEF BothContextsMeet
<1>5. ASSUME NEW n \in reachedStates, NEW f \in Flow[n]
      PROVE  HasAll(Now, Propagate(n, f))
  <2>1. n \in Node /\ << NodeReachable(n) >> \notin calls
    BY <1>0 DEF TypeOK
  <2> QED
    BY <1>0, <2>1, PropagateTyped, QuietHasAll DEF NothingLost
<1>6. ASSUME NEW l \in summaryListeners, NEW t \in summaryEdges, NEW z \in AddedSummary(l, t)
      PROVE  HasAll(Now, z)
  <2>1. l \in Stmt \X Fact \X Stmt /\ t \in CallTransition /\ t.label \in Stmt
    BY DEF TypeOK
  <2>2. z \in Seq(FlowCall) /\ MadeAll(z)
    BY <2>1, SummaryTyped DEF NothingLost
  <2> QED
    BY <1>0, <2>2, QuietHasAll
<1>7. reachedStates \subseteq Node
  BY DEF TypeOK
<1>8. NodesClosed(Now)
  BY <1>1, <1>4, <1>5, <1>6, <1>7 DEF NodesClosed, Now
<1> QED
  BY <1>2, <1>3, <1>8 DEF Solution

(***************************************************************************)
(* Nothing is lost: what a solver at rest has is a solution, whichever of  *)
(* a call and its summary, or of the two contexts of a node, came last.    *)
(* With NothingInvented it is the least one, and the same in every order.  *)
(***************************************************************************)
THEOREM QuietIsClosed ==
  Spec => [](Quiet => Solution(Now))
<1>1. Init => NothingLost
  BY DEF Init, NothingLost
<1>2. TypeOK /\ NothingLost /\ [Next]_vars => NothingLost'
  BY NothingLostStep
<1>3. TypeOK /\ NothingLost /\ BothContextsMeet => (Quiet => Solution(Now))
  BY QuietSolves
<1> QED
  BY <1>1, <1>2, <1>3, TypeCorrect, ContextsMeet, PTL DEF Spec

=============================================================================
