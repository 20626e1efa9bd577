------------------------------- MODULE SyncPDS -------------------------------
(***************************************************************************)
(* The synchronized pushdown systems (sync.pds.solver.SyncPDSSolver): a    *)
(* data flow node is reached when it is reached in the call system and in  *)
(* the field system, and a reached node's successors become rules of both. *)
(*                                                                         *)
(* The two automata are what Saturation promises: they take up derived     *)
(* transitions one by one, in any order, while the solver's own calls are  *)
(* in progress.  `calls' holds these: each element is what is left of a    *)
(* sequence of calls one handler makes.  The Java stack runs the innermost *)
(* first; here any may go on, of which that is one case.                   *)
(***************************************************************************)
EXTENDS Naturals, Sequences

CONSTANTS
  Stmt, Fact, Field,
  EpsilonStmt, EpsilonField, EmptyField, AnyField,
  Start,                    \* the node solve is called with
  CallTarget, FieldTarget,  \* and the initial states
  Flow,         \* computeSuccessor: the states it propagates from a node
  Returned,     \* applyCallSummary: the nodes a returned fact is mapped to
  Prevented,    \* preventFieldTransitionAdd, a set of field transitions
  Watchers,     \* SyncPDSUpdateListeners that may be registered
  NodeWatchers  \* SyncStatePDSUpdateListeners, a function to their node

VARIABLES
  callRules, callSeeds, callTrans, callPops,      \* callingPDS, callAutomaton
  fieldRules, fieldSeeds, fieldTrans, fieldPops,  \* fieldPDS, fieldAutomaton
  summaryEdges,             \* summaryEdges of the call automaton
  summaryListeners,         \* summaryEdgeListener of the call automaton
  callingContextReachable, fieldContextReachable, reachedStates,
  solved,                   \* solve has been called
  watching,                 \* updateListeners, reachedStateUpdateListeners
  told,                     \* how often a listener has been told of a node
  calls                     \* what is left of the calls in progress

callVars == << callRules, callSeeds, callTrans, callPops >>
fieldVars == << fieldRules, fieldSeeds, fieldTrans, fieldPops >>
summaryVars == << summaryEdges, summaryListeners >>
contextVars == << callingContextReachable, fieldContextReachable >>
reachVars == << reachedStates, watching, told >>
vars == << callVars, fieldVars, summaryVars, contextVars, reachVars, solved,
           calls >>

Node == Stmt \X Fact

\* The kinds of State computeSuccessor returns: a Node, an ExclusionNode, a
\* PushNode or a PopNode of one of the two systems.
Succession ==
  [kind : {"normal"}, node : Node]
  \cup [kind : {"exclusion", "pushField", "popField"}, node : Node, field : Field]
  \cup [kind : {"pushCall"}, node : Node, site : Stmt]
  \cup [kind : {"popCall"}, fact : Fact]

ASSUME SolverAssumption ==
  /\ Start \in Node
  /\ Flow \in [Node -> SUBSET Succession]
  /\ Returned \in [Stmt \X Stmt \X Fact -> SUBSET Node]

ASSUME ListenerAssumption ==
  /\ DOMAIN NodeWatchers \cap Watchers = {}
  /\ \A l \in DOMAIN NodeWatchers : NodeWatchers[l] \in Node

-----------------------------------------------------------------------------
Tr(s, a, q) == [start |-> s, label |-> a, target |-> q]

\* The rules of both systems, as Saturation reads them.
Normal(s1, l1, s2, l2, excl) ==
  [kind |-> "normal", s1 |-> s1, l1 |-> l1, s2 |-> s2, l2 |-> l2, excl |-> excl]
Push(s1, l1, s2, l2, site) ==
  [kind |-> "push", s1 |-> s1, l1 |-> l1, s2 |-> s2, l2 |-> l2, site |-> site]
Pop(s1, l1, s2) == [kind |-> "pop", s1 |-> s1, l1 |-> l1, s2 |-> s2]

CallState == Fact \cup (Fact \X Stmt)
FieldState == Node \cup (Node \X Field)

SelfLoops(eps, states) == { Tr(q, eps, q) : q \in states }

C == INSTANCE Saturation WITH
  Control <- Fact \cup {CallTarget}, Symbol <- Stmt \cup {EpsilonStmt},
  Epsilon <- EpsilonStmt, Empties <- {EpsilonStmt}, Any <- AnyField,
  Subsumes <- {}, Rules <- {}, Seeds <- {},
  Rejected <- SelfLoops(EpsilonStmt, CallState),
  rules <- callRules, seeds <- callSeeds, trans <- callTrans, pops <- callPops

F == INSTANCE Saturation WITH
  Control <- Node \cup {FieldTarget},
  Symbol <- Field \cup {EpsilonField, EmptyField},
  Epsilon <- EpsilonField, Empties <- {EpsilonField, EmptyField},
  Any <- AnyField, Subsumes <- {}, Rules <- {}, Seeds <- {},
  Rejected <- Prevented \cup SelfLoops(EpsilonField, FieldState),
  rules <- fieldRules, seeds <- fieldSeeds, trans <- fieldTrans,
  pops <- fieldPops

-----------------------------------------------------------------------------
(* Calls *)

AddCallRule(r) == [op |-> "callRule", rule |-> r]
AddFieldRule(r) == [op |-> "fieldRule", rule |-> r]
AddCallTransition(t) == [op |-> "callTransition", t |-> t]
AddFieldTransition(t) == [op |-> "fieldTransition", t |-> t]
SetCallingContextReachable(n) == [op |-> "calling", node |-> n]
SetFieldContextReachable(n) == [op |-> "field", node |-> n]
ProcessNode(n) == [op |-> "process", node |-> n]
NodeReachable(n) == [op |-> "nodeReachable", node |-> n]
AddSummaryListener(site, fact, sp) ==
  [op |-> "summaryListener", l |-> << site, fact, sp >>]

NormalCall(n, m) == AddCallRule(Normal(n[2], n[1], m[2], m[1], {}))
NormalField(n, m, excl) ==
  AddFieldRule(Normal(n, AnyField, m, AnyField, excl))

\* propagate: processNormal, processPush and processPop
Propagate(n, s) ==
  CASE s.kind = "normal" -> << NormalField(n, s.node, {}), NormalCall(n, s.node) >>
    [] s.kind = "exclusion" ->
         << NormalField(n, s.node, {s.field}), NormalCall(n, s.node) >>
    [] s.kind = "pushField" ->
         << AddFieldRule(Push(n, AnyField, s.node, s.field, AnyField)),
            NormalCall(n, s.node) >>
    [] s.kind = "popField" ->
         << AddFieldRule(Pop(n, s.field, s.node)), NormalCall(n, s.node) >>
    [] s.kind = "pushCall" ->
         << NormalField(n, s.node, {}),
            AddCallRule(Push(n[2], n[1], s.node[2], s.node[1], s.site)),
            AddSummaryListener(s.site, s.node[2], s.node[1]) >>
    [] s.kind = "popCall" -> << AddCallRule(Pop(n[2], n[1], s.fact)) >>

\* INode.fact(); a generated state answers with the fact it is made from.
FactOf(q) == IF q \in Fact THEN q ELSE q[1]

\* applyCallSummary, for one of the nodes the returned fact is mapped to
ApplyCallSummary(l, t, m) ==
  << NormalCall(<< l[1], FactOf(t.start) >>, m),
     NormalField(<< t.label, FactOf(t.start) >>, m, {}) >>

\* What addedSummary of the listener l does with the summary edge t.
AddedSummary(l, t) ==
  IF t.target = << l[2], l[3] >>
  THEN { ApplyCallSummary(l, t, m) : m \in Returned[<< l[1], t.label, FactOf(t.start) >>] }
  ELSE {}

-----------------------------------------------------------------------------
Init ==
  /\ callRules = {} /\ callSeeds = {} /\ callTrans = {} /\ callPops = {}
  /\ fieldRules = {} /\ fieldSeeds = {} /\ fieldTrans = {} /\ fieldPops = {}
  /\ summaryEdges = {} /\ summaryListeners = {}
  /\ callingContextReachable = {} /\ fieldContextReachable = {}
  /\ reachedStates = {} /\ solved = FALSE
  /\ watching = {} /\ told = [x \in {} |-> 0]
  /\ calls = {}

\* solve, with an empty field
Solve ==
  /\ ~ solved
  /\ solved' = TRUE
  /\ calls' = calls \cup
       { << AddFieldTransition(Tr(Start, EmptyField, FieldTarget)),
            AddCallTransition(Tr(Start[2], Start[1], CallTarget)),
            ProcessNode(Start) >> }
  /\ UNCHANGED << callVars, fieldVars, summaryVars, contextVars, reachVars >>

-----------------------------------------------------------------------------
(* The automata and the solver's listeners on them *)

\* The call automaton takes up t and CallAutomatonListener is told.
CallTransitionAdded ==
  \E t \in C!Due :
    /\ callTrans' = callTrans \cup {t}
    /\ calls' = IF t.start \in Fact /\ t.label # EpsilonStmt
                THEN calls \cup {<< SetCallingContextReachable(<< t.label, t.start >>) >>}
                ELSE calls
    /\ UNCHANGED << callRules, callSeeds, callPops, fieldVars, summaryVars,
                    contextVars, reachVars, solved >>

\* The field automaton takes up t and FieldUpdateListener is told.
FieldTransitionAdded ==
  \E t \in F!Due :
    /\ fieldTrans' = fieldTrans \cup {t}
    /\ calls' = IF t.start \in Node /\ t.label # EpsilonField
                THEN calls \cup {<< SetFieldContextReachable(t.start) >>}
                ELSE calls
    /\ UNCHANGED << callVars, fieldRules, fieldSeeds, fieldPops, summaryVars,
                    contextVars, reachVars, solved >>

PopWaits ==
  /\ \/ C!Wait /\ UNCHANGED fieldVars
     \/ F!Wait /\ UNCHANGED callVars
  /\ UNCHANGED << summaryVars, contextVars, reachVars, solved, calls >>

\* registerSummaryEdge, when a pop takes t into a generated state
SummaryEdgeAdded ==
  \E x \in C!Popped(callTrans, callPops) :
    LET t == x[2] IN
    /\ t \notin summaryEdges
    /\ summaryEdges' = summaryEdges \cup {t}
    /\ calls' = calls \cup UNION { AddedSummary(l, t) : l \in summaryListeners }
    /\ UNCHANGED << callVars, fieldVars, summaryListeners, contextVars,
                    reachVars, solved >>

-----------------------------------------------------------------------------
(* The calls.  c is the call that runs, rest what follows it in its handler; *)
(* new are the calls the call makes.                                         *)

Goes(s, new) ==
  calls' = (calls \ {s})
           \cup (IF Len(s) > 1 THEN {Tail(s)} ELSE {}) \cup new

RunAutomaton(s) ==
  LET c == Head(s) IN
  /\ \/ /\ c.op = "callRule"
        /\ callRules' = callRules \cup {c.rule}
        /\ UNCHANGED << callSeeds, fieldRules, fieldSeeds >>
     \/ /\ c.op = "fieldRule"
        /\ fieldRules' = fieldRules \cup {c.rule}
        /\ UNCHANGED << callRules, callSeeds, fieldSeeds >>
     \/ /\ c.op = "callTransition"
        /\ callSeeds' = callSeeds \cup {c.t}
        /\ UNCHANGED << callRules, fieldRules, fieldSeeds >>
     \/ /\ c.op = "fieldTransition"
        /\ fieldSeeds' = fieldSeeds \cup {c.t}
        /\ UNCHANGED << callRules, callSeeds, fieldRules >>
  /\ Goes(s, {})
  /\ UNCHANGED << callTrans, callPops, fieldTrans, fieldPops, summaryVars,
                  contextVars, reachVars, solved >>

\* Mutant: only the call system looks whether the other has the node.
RunSetContextOneSided(s) ==
  LET c == Head(s) IN
  /\ \/ /\ c.op = "calling"
        /\ callingContextReachable' = callingContextReachable \cup {c.node}
        /\ UNCHANGED fieldContextReachable
        /\ Goes(s, IF c.node \in fieldContextReachable
                   THEN {<< ProcessNode(c.node) >>} ELSE {})
     \/ /\ c.op = "field"
        /\ fieldContextReachable' = fieldContextReachable \cup {c.node}
        /\ UNCHANGED callingContextReachable
        /\ Goes(s, {})
  /\ UNCHANGED << callVars, fieldVars, summaryVars, reachVars, solved >>

\* Mutant: the call system does not look whether the field system has the node.
RunSetContextUnsynchronized(s) ==
  LET c == Head(s) IN
  /\ \/ /\ c.op = "calling"
        /\ callingContextReachable' = callingContextReachable \cup {c.node}
        /\ UNCHANGED fieldContextReachable
        /\ Goes(s, {<< ProcessNode(c.node) >>})
     \/ /\ c.op = "field"
        /\ fieldContextReachable' = fieldContextReachable \cup {c.node}
        /\ UNCHANGED callingContextReachable
        /\ Goes(s, IF c.node \in callingContextReachable
                   THEN {<< ProcessNode(c.node) >>} ELSE {})
  /\ UNCHANGED << callVars, fieldVars, summaryVars, reachVars, solved >>

RunSetContextReachable(s) ==
  LET c == Head(s)
      both(other) == IF c.node \in other THEN {<< ProcessNode(c.node) >>} ELSE {}
  IN
  /\ \/ /\ c.op = "calling"
        /\ callingContextReachable' = callingContextReachable \cup {c.node}
        /\ UNCHANGED fieldContextReachable
        /\ Goes(s, IF c.node \in callingContextReachable THEN {}
                   ELSE both(fieldContextReachable))
     \/ /\ c.op = "field"
        /\ fieldContextReachable' = fieldContextReachable \cup {c.node}
        /\ UNCHANGED callingContextReachable
        /\ Goes(s, IF c.node \in fieldContextReachable THEN {}
                   ELSE both(callingContextReachable))
  /\ UNCHANGED << callVars, fieldVars, summaryVars, reachVars, solved >>

\* One more call of each listener in ls about n.
Tell(ls, n) ==
  [x \in DOMAIN told \cup (ls \X {n}) |->
     (IF x \in DOMAIN told THEN told[x] ELSE 0)
     + (IF x \in ls \X {n} THEN 1 ELSE 0)]

NodeWatchersOf(n) == { l \in DOMAIN NodeWatchers \cap watching : NodeWatchers[l] = n }

\* processNode: addReachableState, up to the loop over the node's own
\* listeners, which is read after the loop over the other listeners has run.
RunProcessNode(s) ==
  LET c == Head(s) IN
  /\ c.op = "process"
  /\ IF c.node \in reachedStates
     THEN Goes(s, {}) /\ UNCHANGED << reachedStates, told >>
     ELSE /\ reachedStates' = reachedStates \cup {c.node}
          /\ told' = Tell(Watchers \cap watching, c.node)
          /\ Goes(s, {<< NodeReachable(c.node) >>})
  /\ UNCHANGED << callVars, fieldVars, summaryVars, contextVars, watching, solved >>

\* The rest of processNode: the node's own listeners, then computeSuccessor,
\* which propagates one flow after the other.
RunNodeReachable(s) ==
  LET c == Head(s) IN
  /\ c.op = "nodeReachable"
  /\ told' = Tell(NodeWatchersOf(c.node), c.node)
  /\ Goes(s, { Propagate(c.node, f) : f \in Flow[c.node] })
  /\ UNCHANGED << callVars, fieldVars, summaryVars, contextVars, reachedStates,
                  watching, solved >>

\* Mutant: a listener is not told of the summaries that are already there.
RunAddSummaryListenerLate(s) ==
  LET c == Head(s) IN
  /\ c.op = "summaryListener"
  /\ summaryListeners' = summaryListeners \cup {c.l}
  /\ Goes(s, {})
  /\ UNCHANGED << callVars, fieldVars, summaryEdges, contextVars, reachVars,
                  solved >>

\* Mutant: the replay of the summaries registers the listener again.
RunAddSummaryListenerAgain(s) ==
  LET c == Head(s) IN
  /\ c.op = "summaryListener"
  /\ summaryListeners' = summaryListeners \cup {c.l}
  /\ Goes(s, UNION { AddedSummary(c.l, t) : t \in summaryEdges } \cup {<< c >>})
  /\ UNCHANGED << callVars, fieldVars, summaryEdges, contextVars, reachVars,
                  solved >>

RunAddSummaryListener(s) ==
  LET c == Head(s) IN
  /\ c.op = "summaryListener"
  /\ summaryListeners' = summaryListeners \cup {c.l}
  /\ Goes(s, UNION { AddedSummary(c.l, t) : t \in summaryEdges })
  /\ UNCHANGED << callVars, fieldVars, summaryEdges, contextVars, reachVars,
                  solved >>

\* Mutant: a listener is not told of the nodes reached before.
WatchLate(l) ==
  /\ l \notin watching
  /\ watching' = watching \cup {l}
  /\ UNCHANGED << callVars, fieldVars, summaryVars, contextVars, reachedStates,
                  told, solved, calls >>

\* registerListener(SyncPDSUpdateListener)
Watch(l) ==
  /\ l \notin watching
  /\ watching' = watching \cup {l}
  /\ told' = [x \in DOMAIN told \cup ({l} \X reachedStates) |->
                IF x \in DOMAIN told THEN told[x] ELSE 1]
  /\ UNCHANGED << callVars, fieldVars, summaryVars, contextVars, reachedStates,
                  solved, calls >>

\* registerListener(SyncStatePDSUpdateListener)
WatchNode(l) ==
  /\ l \notin watching
  /\ watching' = watching \cup {l}
  /\ told' = IF NodeWatchers[l] \in reachedStates
             THEN Tell({l}, NodeWatchers[l]) ELSE told
  /\ UNCHANGED << callVars, fieldVars, summaryVars, contextVars, reachedStates,
                  solved, calls >>

-----------------------------------------------------------------------------
Client == Solve \/ (\E l \in Watchers : Watch(l))
                \/ (\E l \in DOMAIN NodeWatchers : WatchNode(l))

Automata == CallTransitionAdded \/ FieldTransitionAdded \/ PopWaits
            \/ SummaryEdgeAdded

Run == \E s \in calls :
  \/ RunAutomaton(s) \/ RunSetContextReachable(s) \/ RunProcessNode(s)
  \/ RunNodeReachable(s) \/ RunAddSummaryListener(s)

Next == Client \/ Automata \/ Run

Spec == Init /\ [][Next]_vars

\* A call in progress returns, and the automata saturate (Saturation).
FairSpec == Spec /\ WF_vars(Automata \/ Run)

-----------------------------------------------------------------------------
(* Properties *)

CallRule ==
  [kind : {"normal"}, s1 : Fact, l1 : Stmt, s2 : Fact, l2 : Stmt, excl : {{}}]
  \cup [kind : {"push"}, s1 : Fact, l1 : Stmt, s2 : Fact, l2 : Stmt, site : Stmt]
  \cup [kind : {"pop"}, s1 : Fact, l1 : Stmt, s2 : Fact]

FieldRule ==
  [kind : {"normal"}, s1 : Node, l1 : {AnyField}, s2 : Node, l2 : {AnyField},
   excl : SUBSET Field]
  \cup [kind : {"push"}, s1 : Node, l1 : {AnyField}, s2 : Node, l2 : Field,
        site : {AnyField}]
  \cup [kind : {"pop"}, s1 : Node, l1 : Field, s2 : Node]

CallTransition ==
  [start : CallState, label : Stmt \cup {EpsilonStmt},
   target : CallState \cup {CallTarget}]

FieldTransition ==
  [start : FieldState, label : Field \cup {EpsilonField, EmptyField},
   target : FieldState \cup {FieldTarget}]

Call ==
  [op : {"callRule"}, rule : CallRule]
  \cup [op : {"fieldRule"}, rule : FieldRule]
  \cup [op : {"callTransition"}, t : CallTransition]
  \cup [op : {"fieldTransition"}, t : FieldTransition]
  \cup [op : {"calling", "field", "process", "nodeReachable"}, node : Node]
  \cup [op : {"summaryListener"}, l : Stmt \X Fact \X Stmt]

TypeOK ==
  /\ callRules \subseteq CallRule /\ callSeeds \subseteq CallTransition
  /\ callTrans \subseteq CallTransition
  /\ callPops \subseteq [state : CallState \cup {CallTarget}, label : Stmt, start : Fact]
  /\ fieldRules \subseteq FieldRule /\ fieldSeeds \subseteq FieldTransition
  /\ fieldTrans \subseteq FieldTransition
  /\ fieldPops \subseteq [state : FieldState \cup {FieldTarget}, label : Field, start : Node]
  /\ summaryEdges \subseteq { t \in CallTransition : t.label \in Stmt }
  /\ summaryListeners \subseteq Stmt \X Fact \X Stmt
  /\ callingContextReachable \subseteq Node /\ fieldContextReachable \subseteq Node
  /\ reachedStates \subseteq Node
  /\ solved \in BOOLEAN
  /\ watching \subseteq Watchers \cup DOMAIN NodeWatchers
  /\ calls \subseteq Seq(Call) \ {<< >>}

Quiet ==
  /\ solved /\ calls = {} /\ C!Closed /\ F!Closed
  /\ \A x \in C!Popped(callTrans, callPops) : x[2] \in summaryEdges

\* Some handler in progress is still going to make the call c.
Ahead(c) == \E s \in calls : \E i \in 1..Len(s) : s[i] = c

(***************************************************************************)
(* Whichever of the two contexts of a node comes last, and whatever runs   *)
(* between, the node is processed: a node that is reachable in both        *)
(* contexts is reached or about to be.                                     *)
(***************************************************************************)
BothContextsMeet ==
  \A n \in callingContextReachable \cap fieldContextReachable :
    n \in reachedStates \/ Ahead(ProcessNode(n))

\* Only a node that is reachable in both contexts is reached (the start is
\* processed by solve itself).
ReachedInBoth ==
  reachedStates \subseteq
    (callingContextReachable \cap fieldContextReachable) \cup {Start}

\* What the two systems are synchronized for: a node is processed exactly when both
\* its contexts are found (setCallingContextReachable, setFieldContextReachable).
MetInBoth == BothContextsMeet /\ ReachedInBoth

\* Every listener is told of every reached node: a listener of all nodes once,
\* however its registration falls between a node and its loop.
ToldOnce ==
  \A l \in Watchers \cap watching :
    /\ \A n \in reachedStates : << l, n >> \in DOMAIN told
    /\ \A x \in DOMAIN told : x[1] = l => told[x] = 1 /\ x[2] \in reachedStates

ToldOfNode ==
  \A l \in DOMAIN NodeWatchers \cap watching :
    LET n == NodeWatchers[l] IN
    n \in reachedStates =>
      << l, n >> \in DOMAIN told \/ << NodeReachable(n) >> \in calls

\* The solver comes to rest.
ComesToRest == solved ~> Quiet

=============================================================================
