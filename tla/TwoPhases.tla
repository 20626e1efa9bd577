------------------------------ MODULE TwoPhases ------------------------------
(***************************************************************************)
(* IDEALSeedSolver and IDEALWeightFunctions.  In the first phase, object   *)
(* flow, every statement that changes the state of the seed's object asks  *)
(* backwards, in the middle of the seed's solve, for what its receiver may *)
(* point to.  The answers say where the second phase, value flow, may      *)
(* update strongly: there it prevents the flows of the other variables and *)
(* lets the receiver hand its own state on to them.                        *)
(*                                                                         *)
(* Boomerang is environment: what its solvers find is given by constants,  *)
(* the order in which they find it, and the nesting of the queries, are    *)
(* free.                                                                   *)
(***************************************************************************)
EXTENDS Naturals, Sequences

CONSTANTS
  Stmt, Val,            \* control flow edges; variables
  Alloc, seed,          \* allocation sites, as forward queries; the seed
  Null,                 \* those of the value null
  start,                \* the node the seed starts at
  NonOne,               \* the nodes of the seed's flow with a weight of its own
  Preds,                \* by node: the statements before it
  Sites,                \* by node and statement before it: the allocations the
                        \* backward query from there reaches
  Flows,                \* by allocation: the nodes of its call automaton
  Callers,              \* by node: the call sites on the stacks it is reached with
  Summaries,            \* by allocation: the nodes <<call site, variable>> to which
                        \* a call returns it
  Rules,                \* the call rules of the second phase, <<from, to, at>>, at
                        \* the node asked before the rule is added, if any
  StrongUpdates         \* enableStrongUpdates

Node == Stmt \X Val
SitesOf(n) == UNION { Sites[n][p] : p \in Preds[n] }

ASSUME EnvironmentAssumption ==
  /\ seed \in Alloc /\ Null \subseteq Alloc /\ NonOne \subseteq Node /\ start \in Node
  /\ \A n \in NonOne : /\ Preds[n] # {}
                       /\ Sites[n] \in [Preds[n] -> SUBSET Alloc]
                       /\ Callers[n] \subseteq Stmt
  /\ \A a \in Alloc : Flows[a] \subseteq Node /\ Summaries[a] \subseteq Node
  /\ Rules \subseteq Node \X Node \X SUBSET Node
  /\ StrongUpdates \in BOOLEAN

VARIABLES
  phase,                \* "object", "value", "done", or "stopped"
  found,                \* what phase1Solver has found so far
  queries,              \* the TriggerBackwardQuery that wait for their query, the
                        \* innermost first
  listeners,            \* what the queries have registered with the solvers
  updates,              \* affectedStrongUpdateStmt and weakUpdates of the solver,
                        \* potentialStrongUpdates and weakUpdates of the weights
  indirectAlias, nodesWithStrongUpdate,
  killed, value         \* the rules prevented; the nodes with a value

vars == << phase, found, queries, listeners, updates, indirectAlias,
           nodesWithStrongUpdate, killed, value >>

NothingFound == [ nonOne |-> {}, empty |-> {}, solvers |-> {seed}, flows |-> {},
                  summaries |-> {}, reached |-> {}, callers |-> {} ]
Init ==
  /\ phase = "object" /\ found = NothingFound /\ queries = << >>
  /\ listeners = [ reach |-> {}, alias |-> {}, stack |-> {}, summary |-> {} ]
  /\ updates = [ affected |-> {}, weakNodes |-> {}, potential |-> {}, weak |-> {} ]
  /\ indirectAlias = {} /\ nodesWithStrongUpdate = {}
  /\ killed = {} /\ value = {start}

-----------------------------------------------------------------------------
(* What the listeners do *)

\* Mutant: the statement of a node that is weak already is not told.
AddAffectedOnly(u, pairs) ==
  [u EXCEPT !.affected = @ \cup pairs, !.potential = @ \cup { p[2] : p \in pairs }]

\* addAffectedPotentialStrongUpdate, for pairs of a node and a statement
AddAffected(u, pairs) ==
  LET new == pairs \ u.affected
  IN  [u EXCEPT !.affected = @ \cup new,
                !.potential = @ \cup { p[2] : p \in new },
                !.weak = @ \cup { p[2] : p \in { q \in new : q[1] \in u.weakNodes } }]

\* What the listeners of synchedEmptyStackReachable do, for the pairs of an
\* allocation and a node they are called with.
SetWeakUpdate(u, pairs) ==
  LET nodes == { p[2] : p \in { q \in pairs : q[1] \notin Null \cup {seed} } }
      new == nodes \ u.weakNodes
  IN  [u EXCEPT !.weakNodes = @ \cup new,
                !.weak = @ \cup { p[2] : p \in { q \in u.affected : q[1] \in new } }]

\* Mutant: a listener for aliases hears of the flows to come, not of those there are.
AddAliasesLater(flows, aliasListeners) ==
  LET heard == { p \in (flows \ found.flows) \X aliasListeners :
                   p[1][1] = p[2][1] /\ p[1][2][1] = p[2][2][1] }
  IN  /\ nodesWithStrongUpdate' = nodesWithStrongUpdate \cup { p[2][2] : p \in heard }
      /\ indirectAlias' =
           indirectAlias \cup
             { << p[2][2], p[1][2] >> : p \in { q \in heard : q[2][2] # q[1][2] } }

\* The listeners for the aliases of a node, pairs of an allocation and the node, take
\* every variable of the allocation's automaton at the node's statement.
AddAliases(flows, aliasListeners) ==
  LET heard == { p \in flows \X aliasListeners :
                   p[1][1] = p[2][1] /\ p[1][2][1] = p[2][2][1] }
  IN  /\ nodesWithStrongUpdate' = nodesWithStrongUpdate \cup { p[2][2] : p \in heard }
      /\ indirectAlias' =
           indirectAlias \cup
             { << p[2][2], p[1][2] >> : p \in { q \in heard : q[2][2] # q[1][2] } }

\* What listeners for the summaries of an allocation at a call site leave there:
\* listeners for the aliases of the variable the call returns.
Returned(summaries, summaryListeners) ==
  { s \in summaries : << s[1], s[2][1] >> \in summaryListeners }

\* addApplySummaryListener and registerListener of new listeners
Register(summaryListeners, aliasListeners) ==
  LET new == aliasListeners \cup Returned(found.summaries, summaryListeners)
  IN  /\ listeners' = [listeners EXCEPT !.summary = @ \cup summaryListeners,
                                        !.alias = @ \cup new]
      /\ AddAliases(found.flows, new)

-----------------------------------------------------------------------------
(* The first phase *)

rest == << phase, queries, listeners, updates, indirectAlias, nodesWithStrongUpdate,
           killed, value >>

\* TriggerBackwardQuery, for a node that has both a weight and the empty field: the
\* backward queries are asked from one statement before it after the other.
Trigger(n) ==
  IF n \in found'.nonOne \cap found'.empty
  THEN /\ updates' = AddAffected(updates, {<< n, n[1] >>})
       /\ \E p \in Preds[n] :
            queries' = << [ node |-> n, pred |-> p, left |-> Preds[n] \ {p} ] >> \o queries
       /\ UNCHANGED << phase, listeners, indirectAlias, nodesWithStrongUpdate,
                       killed, value >>
  ELSE UNCHANGED rest

\* addOtherThanOneWeight, with the listener of runPhase
FindNonOne(n) ==
  /\ phase = "object" /\ n \notin found.nonOne
  /\ found' = [found EXCEPT !.nonOne = @ \cup {n}]
  /\ Trigger(n)

\* A transition over the empty field leaves the node of the seed's field automaton.
ReachEmpty(n) ==
  /\ phase = "object" /\ n \notin found.empty
  /\ found' = [found EXCEPT !.empty = @ \cup {n}]
  /\ Trigger(n)

\* A running query, or one that has ended, has found an allocation.
FindAllocation(a) ==
  /\ phase = "object" /\ a \notin found.solvers
  /\ \E n \in found.nonOne \cap found.empty : a \in SitesOf(n)
  /\ found' = [found EXCEPT !.solvers = @ \cup {a}]
  /\ UNCHANGED rest

FindFlow(a, m) ==
  /\ phase = "object" /\ a \in found.solvers /\ << a, m >> \notin found.flows
  /\ found' = [found EXCEPT !.flows = @ \cup {<< a, m >>}]
  /\ AddAliases({<< a, m >>}, listeners.alias)
  /\ UNCHANGED << phase, queries, listeners, updates, killed, value >>

FindSummary(a, m) ==
  /\ phase = "object" /\ a \in found.solvers /\ << a, m >> \notin found.summaries
  /\ found' = [found EXCEPT !.summaries = @ \cup {<< a, m >>}]
  /\ LET new == Returned({<< a, m >>}, listeners.summary)
     IN  /\ listeners' = [listeners EXCEPT !.alias = @ \cup new]
         /\ AddAliases(found.flows, new)
  /\ UNCHANGED << phase, queries, updates, killed, value >>

\* The node is reached from the allocation with nothing on either stack.
ReachNode(a, n) ==
  /\ phase = "object" /\ a \in found.solvers /\ << a, n >> \notin found.reached
  /\ found' = [found EXCEPT !.reached = @ \cup {<< a, n >>}]
  /\ updates' = SetWeakUpdate(updates, {<< a, n >>} \cap listeners.reach)
  /\ UNCHANGED << phase, queries, listeners, indirectAlias, nodesWithStrongUpdate,
                  killed, value >>

\* The seed's automaton has a stack with the call site for the node: stackElement of
\* the listeners that are there, pairs of the node and a query's allocations.
FindCaller(n, c) ==
  /\ phase = "object" /\ << n, c >> \notin found.callers
  /\ found' = [found EXCEPT !.callers = @ \cup {<< n, c >>}]
  /\ LET heard == { l \in listeners.stack : l[1] = n }
     IN  /\ updates' = IF heard = {} THEN updates ELSE AddAffected(updates, {<< n, c >>})
         /\ Register((UNION { l[2] : l \in heard }) \X {c}, {})
  /\ UNCHANGED << phase, queries, killed, value >>

\* The query of the innermost trigger has returned these allocations:
\* setWeakUpdateIfNecessary, the two injectAliases, and the next query if there is one.
Answer(sites) ==
  LET q == Head(queries)
      n == q.node
      weak == SetWeakUpdate(updates, { r \in found.reached : r[2] = n })
      callers == { p \in found.callers : p[1] = n }
      sums == sites \X { p[2] : p \in callers }
      new == sites \X {n} \cup Returned(found.summaries, sums)
  IN  /\ updates' = AddAffected(weak, callers)
      /\ listeners' = [listeners EXCEPT !.reach = @ \cup found.solvers \X {n},
                                        !.stack = @ \cup {<< n, sites >>},
                                        !.summary = @ \cup sums, !.alias = @ \cup new]
      /\ AddAliases(found.flows, new)
      /\ IF q.left = {} THEN queries' = Tail(queries)
         ELSE \E p \in q.left :
                queries' = << [q EXCEPT !.pred = p, !.left = @ \ {p}] >> \o Tail(queries)
      /\ UNCHANGED << phase, found, killed, value >>

Asked == Sites[Head(queries).node][Head(queries).pred]
EndQuery ==
  /\ phase = "object" /\ queries # << >> /\ Asked \subseteq found.solvers
  /\ Answer(Asked)

\* The time is over or something throws in the middle of a query.  The phase ends as
\* timed out, or, where an exception is caught by the seed's solve or nobody looks at
\* the clock again, the second phase begins with the sets as they are: what it makes
\* of them is not followed.
StopPhase1 ==
  /\ phase = "object" /\ queries # << >>
  /\ phase' = "stopped" /\ queries' = << >>
  /\ UNCHANGED << found, listeners, updates, indirectAlias, nodesWithStrongUpdate,
                  killed, value >>

AllFound ==
  [ nonOne |-> NonOne, empty |-> NonOne,
    solvers |-> {seed} \cup UNION { SitesOf(n) : n \in NonOne },
    flows |-> UNION { {a} \X Flows[a] : a \in Alloc },
    summaries |-> UNION { {a} \X Summaries[a] : a \in Alloc },
    reached |-> UNION { (SitesOf(n) \ {seed}) \X {n} : n \in NonOne },
    callers |-> UNION { {n} \X Callers[n] : n \in NonOne } ]

EndPhase1 ==
  /\ phase = "object" /\ queries = << >> /\ found = AllFound
  /\ phase' = "value"
  /\ UNCHANGED << found, queries, listeners, updates, indirectAlias,
                  nodesWithStrongUpdate, killed, value >>

-----------------------------------------------------------------------------
(* The second phase *)

\* Mutant: a statement is updated strongly although its receiver is weak.
AnyUpdateStatement(s) == s \in updates.potential /\ StrongUpdates

IsStrongUpdateStatement(s) ==
  s \in updates.potential /\ s \notin updates.weak /\ StrongUpdates
IsKillFlow(m) == m \notin nodesWithStrongUpdate

\* preventStrongUpdateFlows
Prevented(r) == \E m \in r[3] : IsStrongUpdateStatement(m[1]) /\ IsKillFlow(m)

\* addCallRule of the seed's solver, when the rule's first node has a value
AddRule(r) ==
  /\ phase = "value" /\ r[1] \in value /\ r[2] \notin value /\ r \notin killed
  /\ IF Prevented(r) THEN killed' = killed \cup {r} /\ UNCHANGED value
                     ELSE value' = value \cup {r[2]} /\ UNCHANGED killed
  /\ UNCHANGED << phase, found, queries, listeners, updates, indirectAlias,
                  nodesWithStrongUpdate >>

\* The listener of registerIndirectFlowListener: the aliases of a node with a value
IndirectFlow(m) ==
  /\ phase = "value"
  /\ value' = value \cup { x[2] : x \in { y \in indirectAlias : y[1] = m } }
  /\ UNCHANGED << phase, found, queries, listeners, updates, indirectAlias,
                  nodesWithStrongUpdate, killed >>

EndPhase2 ==
  /\ phase = "value"
  /\ \A r \in Rules : r[1] \in value => r[2] \in value \/ r \in killed
  /\ \A x \in indirectAlias : x[1] \in value => x[2] \in value
  /\ phase' = "done"
  /\ UNCHANGED << found, queries, listeners, updates, indirectAlias,
                  nodesWithStrongUpdate, killed, value >>

-----------------------------------------------------------------------------
\* What the solve does on its own
Solve ==
  \/ \E n \in NonOne : FindNonOne(n) \/ ReachEmpty(n)
  \/ \E a \in Alloc : FindAllocation(a)
  \/ \E a \in Alloc : \E m \in Flows[a] : FindFlow(a, m)
  \/ \E a \in Alloc : \E m \in Summaries[a] : FindSummary(a, m)
  \/ \E n \in NonOne : \E a \in SitesOf(n) \ {seed} : ReachNode(a, n)
  \/ \E n \in NonOne : \E c \in Callers[n] : FindCaller(n, c)
  \/ EndQuery \/ EndPhase1
  \/ \E r \in Rules : AddRule(r)
  \/ \E m \in value : IndirectFlow(m)
  \/ EndPhase2
Next == Solve \/ StopPhase1
Spec == Init /\ [][Next]_vars /\ WF_vars(Solve)

-----------------------------------------------------------------------------
(* Properties *)

\* What a node stands for, whatever the order: the statements it affects are its own and
\* those of its callers, and it is weak if it may be reached from another allocation
\* that is not null.
Affects(n) == {n[1]} \cup Callers[n]
MayBeWeak(n) == SitesOf(n) \ (Null \cup {seed}) # {}

\* The listeners for aliases that are there in the end: those of the nodes, and those of
\* the variables that the calls return an allocation to.
OfNodes == UNION { SitesOf(n) \X {n} : n \in NonOne }
OfCalls == { x \in AllFound.summaries :
               \E n \in NonOne : x[1] \in SitesOf(n) /\ x[2][1] \in Callers[n] }

\* The sets of the updates, and the aliases: the variables of the allocations' automata
\* at the statement of a listener.
Agreed ==
  /\ updates.potential = UNION { Affects(n) : n \in NonOne }
  /\ updates.weak = UNION { Affects(n) : n \in { k \in NonOne : MayBeWeak(k) } }
  /\ nodesWithStrongUpdate =
       { l[2] : l \in { k \in OfNodes \cup OfCalls :
                          \E m \in Flows[k[1]] : m[1] = k[2][1] } }
  /\ indirectAlias =
       UNION { { << l[2], m >> : m \in { k \in Flows[l[1]] : k[1] = l[2][1] /\ k # l[2] } } :
               l \in OfNodes \cup OfCalls }

\* Whatever the order of weights, fields, allocations, flows, summaries, callers and
\* nested queries, the second phase starts from the same sets when no query was stopped
\* (addAffectedPotentialStrongUpdate, setWeakUpdate, the injectAliases).
PhasesAgree == phase \in {"value", "done"} => Agreed

\* A flow is prevented only at a statement where the receiver, and that of any call
\* below it, points to the seed's object or null in all branches, whenever the
\* queries found that out (isStrongUpdateStatement).
KilledOnlyAlone ==
  \A r \in killed : \E m \in r[3] : \A n \in NonOne :
    m[1] \in {n[1]} \cup Callers[n] => SitesOf(n) \subseteq Null \cup {seed}

\* The second phase ends, and every variable whose flow is prevented has a value in
\* the end: the receiver's, over the indirect flow (registerIndirectFlowListener).
KilledReturns ==
  <>(\/ phase = "stopped"
     \/ phase = "done" /\ \A r \in killed : r[3] \subseteq value)
=============================================================================
