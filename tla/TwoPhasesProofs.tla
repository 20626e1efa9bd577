--------------------------- MODULE TwoPhasesProofs ---------------------------
(***************************************************************************)
(* KilledOnlyAlone for every program: the second phase prevents no flow at *)
(* a statement whose receiver may be another object.                       *)
(*                                                                         *)
(* Weakness reaches a statement along two paths that the first phase may   *)
(* complete in any order: the node is reached from another allocation, and *)
(* the statement is affected by the node.  The invariant says that nothing *)
(* found is without its listener, and that updates are closed under both.  *)
(***************************************************************************)
EXTENDS TwoPhases, StackLemmas, TLAPS

Updates == [affected : SUBSET (NonOne \X Stmt), weakNodes : SUBSET NonOne,
            potential : SUBSET Stmt, weak : SUBSET Stmt]
Found == [nonOne : SUBSET NonOne, empty : SUBSET NonOne, solvers : SUBSET Alloc,
          flows : SUBSET (Alloc \X Node), summaries : SUBSET (Alloc \X Node),
          reached : SUBSET (Alloc \X NonOne), callers : SUBSET (NonOne \X Stmt)]
Listeners == [reach : SUBSET (Alloc \X NonOne), alias : SUBSET (Alloc \X Node),
              stack : SUBSET (NonOne \X SUBSET Alloc), summary : SUBSET (Alloc \X Stmt)]
Before == UNION { Preds[n] : n \in NonOne }
Asking == [node : NonOne, pred : Before, left : SUBSET Before]

-----------------------------------------------------------------------------
(* The updates *)

\* What is affected by a weak node is weak.
Closed(u) == \A p \in u.affected : p[1] \in u.weakNodes => p[2] \in u.weak

LEMMA AddAffectedCloses ==
  ASSUME NEW u \in Updates, Closed(u), NEW pairs \in SUBSET (NonOne \X Stmt)
  PROVE  LET v == AddAffected(u, pairs)
         IN  /\ v \in Updates /\ Closed(v) /\ v.weakNodes = u.weakNodes
             /\ v.affected = u.affected \cup pairs
<1> DEFINE v == AddAffected(u, pairs)
           new == pairs \ u.affected
<1>1. v = [u EXCEPT !.affected = @ \cup new,
                    !.potential = @ \cup { p[2] : p \in new },
                    !.weak = @ \cup { p[2] : p \in { q \in new : q[1] \in u.weakNodes } }]
  BY DEF AddAffected
<1>2. /\ v.affected = u.affected \cup new
      /\ v.weakNodes = u.weakNodes
      /\ v.weak = u.weak \cup { p[2] : p \in { q \in new : q[1] \in u.weakNodes } }
  BY <1>1 DEF Updates
<1> DEFINE stmts == { p[2] : p \in new }
           weak == { p[2] : p \in { q \in new : q[1] \in u.weakNodes } }
<1>3. v \in Updates
  <2>1. stmts \subseteq Stmt /\ weak \subseteq Stmt /\ new \subseteq NonOne \X Stmt
    OBVIOUS
  <2>2. v = [u EXCEPT !.affected = @ \cup new, !.potential = @ \cup stmts, !.weak = @ \cup weak]
    BY <1>1
  <2> HIDE DEF v, stmts, weak, new
  <2> QED BY <2>1, <2>2 DEF Updates
<1>4. Closed(v)
  BY <1>2 DEF Closed
<1> QED
  BY <1>2, <1>3, <1>4

LEMMA SetWeakUpdateCloses ==
  ASSUME NEW u \in Updates, Closed(u), NEW pairs \in SUBSET (Alloc \X NonOne)
  PROVE  LET v == SetWeakUpdate(u, pairs)
         IN  /\ v \in Updates /\ Closed(v) /\ v.affected = u.affected
             /\ u.weakNodes \subseteq v.weakNodes
             /\ \A q \in pairs : q[1] \notin Null \cup {seed} => q[2] \in v.weakNodes
<1> DEFINE v == SetWeakUpdate(u, pairs)
           nodes == { p[2] : p \in { q \in pairs : q[1] \notin Null \cup {seed} } }
           new == nodes \ u.weakNodes
<1>1. v = [u EXCEPT !.weakNodes = @ \cup new,
                    !.weak = @ \cup { p[2] : p \in { q \in u.affected : q[1] \in new } }]
  BY DEF SetWeakUpdate
<1>2. nodes \subseteq NonOne
  OBVIOUS
<1>3. \A q \in pairs : q[1] \notin Null \cup {seed} => q[2] \in nodes
  OBVIOUS
<1> HIDE DEF nodes
<1>4. /\ v.affected = u.affected
      /\ v.weakNodes = u.weakNodes \cup new
      /\ v.weak = u.weak \cup { p[2] : p \in { q \in u.affected : q[1] \in new } }
  BY <1>1 DEF Updates
<1> DEFINE weak == { p[2] : p \in { q \in u.affected : q[1] \in new } }
<1>5. v \in Updates
  <2>1. weak \subseteq Stmt /\ new \subseteq NonOne
    BY <1>2 DEF Updates
  <2>2. v = [u EXCEPT !.weakNodes = @ \cup new, !.weak = @ \cup weak]
    BY <1>1
  <2> HIDE DEF v, weak, new
  <2> QED BY <2>1, <2>2 DEF Updates
<1>6. Closed(v)
  BY <1>4 DEF Closed
<1> QED
  BY <1>3, <1>4, <1>5, <1>6

-----------------------------------------------------------------------------
(* The invariant *)

OfNode(q) == q.pred \in Preds[q.node] /\ q.left \subseteq Preds[q.node]
TypeInv ==
  /\ phase \in {"object", "value", "done", "stopped"}
  /\ found \in Found /\ updates \in Updates /\ listeners \in Listeners
  /\ queries \in Seq(Asking) /\ killed \subseteq Rules
  /\ \A i \in 1 .. Len(queries) : OfNode(queries[i])

\* A node that has triggered affects its statement, and the statements of its callers
\* once a query has left a listener for them.
AllAffected ==
  /\ \A n \in found.nonOne \cap found.empty : << n, n[1] >> \in updates.affected
  /\ \A l \in listeners.stack : \A c \in Stmt :
       << l[1], c >> \in found.callers => << l[1], c >> \in updates.affected

\* A node is weak when a listener has seen it reached from another allocation.
AllWeak ==
  \A p \in found.reached \cap listeners.reach :
    p[1] \notin Null \cup {seed} => p[2] \in updates.weakNodes

\* The query from p has left its listeners.
Asked1(n, p) ==
  Sites[n][p] \X {n} \subseteq listeners.reach /\ << n, Sites[n][p] >> \in listeners.stack
AskedFrom(q) == \A p \in Preds[q.node] : p = q.pred \/ p \in q.left \/ Asked1(q.node, p)
Answered(n) == (\A p \in Preds[n] : Asked1(n, p)) /\ \E l \in listeners.stack : l[1] = n
Asks(n) == \E i \in 1 .. Len(queries) : queries[i].node = n

\* A node that has triggered has asked all it has to, or is still asking.
AllAsked ==
  /\ \A i \in 1 .. Len(queries) : AskedFrom(queries[i])
  /\ phase = "object" => \A n \in found.nonOne \cap found.empty : Asks(n) \/ Answered(n)

\* The sets the second phase starts from
Complete ==
  \A n \in NonOne : \A c \in {n[1]} \cup Callers[n] :
    SitesOf(n) \subseteq Null \cup {seed} \/ c \in updates.weak

Inv ==
  /\ Closed(updates) /\ AllAffected /\ AllWeak /\ AllAsked
  /\ phase \in {"value", "done"} => Complete
  /\ phase \in {"object", "stopped"} => killed = {}
  /\ KilledOnlyAlone

LEMMA InitInv == Init => TypeInv /\ Inv
<1> SUFFICES ASSUME Init PROVE TypeInv /\ Inv
  OBVIOUS
<1>1. found \in Found
  BY EnvironmentAssumption DEF Init, NothingFound, Found
<1>2. updates \in Updates /\ listeners \in Listeners
  BY DEF Init, Updates, Listeners
<1>3. queries \in Seq(Asking) /\ Len(queries) = 0
  BY DEF Init
<1>4. TypeInv
  BY <1>1, <1>2, <1>3 DEF Init, TypeInv
<1>5. Closed(updates) /\ AllAffected /\ AllWeak
  BY DEF Init, NothingFound, Closed, AllAffected, AllWeak
<1>6. AllAsked
  BY <1>3 DEF AllAsked, Init, NothingFound
<1> QED
  BY <1>4, <1>5, <1>6 DEF Init, Inv, KilledOnlyAlone

\* A step that finds a weight or an empty field
LEMMA TriggerInv ==
  ASSUME TypeInv, Inv, phase = "object", NEW n \in NonOne, found' \in Found,
         found'.reached = found.reached, found'.callers = found.callers,
         found'.nonOne \cap found'.empty \subseteq (found.nonOne \cap found.empty) \cup {n},
         Trigger(n)
  PROVE  TypeInv' /\ Inv'
<1>1. CASE n \in found'.nonOne \cap found'.empty
  <2>1. /\ updates' = AddAffected(updates, {<< n, n[1] >>})
        /\ UNCHANGED << phase, listeners, killed >>
    BY <1>1 DEF Trigger
  <2>2. PICK p \in Preds[n] :
          queries' = << [ node |-> n, pred |-> p, left |-> Preds[n] \ {p} ] >> \o queries
    BY <1>1 DEF Trigger
  <2> DEFINE q == [ node |-> n, pred |-> p, left |-> Preds[n] \ {p} ]
  <2>3. q \in Asking /\ q.node = n /\ q.pred = p /\ q.left = Preds[n] \ {p}
    BY <2>2 DEF Asking, Before
  <2>4. queries \in Seq(Asking) /\ Len(queries) \in Nat
    BY DEF TypeInv
  <2>5. queries' = << q >> \o queries
    BY <2>2
  <2> HIDE DEF q
  <2>6. /\ queries' \in Seq(Asking) /\ Len(queries') = Len(queries) + 1
        /\ \A i \in 1 .. Len(queries) + 1 : queries'[i] = IF i = 1 THEN q ELSE queries[i - 1]
    BY <2>3, <2>4, <2>5, Pushed
  <2>7. {<< n, n[1] >>} \in SUBSET (NonOne \X Stmt)
    BY EnvironmentAssumption DEF Node
  <2>8. /\ updates' \in Updates /\ Closed(updates') /\ updates'.weakNodes = updates.weakNodes
        /\ updates'.affected = updates.affected \cup {<< n, n[1] >>}
    BY <2>1, <2>7, AddAffectedCloses DEF TypeInv, Inv
  <2>9. TypeInv'
    <3>1. \A i \in 1 .. Len(queries') : OfNode(queries'[i])
      <4> SUFFICES ASSUME NEW i \in 1 .. Len(queries')
                   PROVE  OfNode(queries'[i])
        OBVIOUS
      <4>1. CASE i = 1
        BY <2>2, <2>3, <2>6, <4>1 DEF OfNode
      <4>2. CASE i # 1
        <5>1. i - 1 \in 1 .. Len(queries) /\ queries'[i] = queries[i - 1]
          BY <2>4, <2>6, <4>2
        <5> QED BY <5>1 DEF TypeInv
      <4> QED BY <4>1, <4>2
    <3> QED BY <2>1, <2>6, <2>8, <3>1 DEF TypeInv
  <2>10. AllAffected'
    BY <2>1, <2>8 DEF AllAffected, Inv
  <2>11. AllWeak'
    BY <2>1, <2>8 DEF AllWeak, Inv
  <2>12. \A m, k : Asked1(m, k)' = Asked1(m, k)
    BY <2>1 DEF Asked1
  <2>13. \A i \in 1 .. Len(queries') : AskedFrom(queries[i])'
    <3> SUFFICES ASSUME NEW i \in 1 .. Len(queries') PROVE AskedFrom(queries[i])'
      OBVIOUS
    <3>1. CASE i = 1
      BY <2>3, <2>6, <3>1 DEF AskedFrom
    <3>2. CASE i # 1
      <4>1. i - 1 \in 1 .. Len(queries) /\ queries'[i] = queries[i - 1]
        BY <2>4, <2>6, <3>2
      <4> QED BY <4>1, <2>12 DEF AskedFrom, Inv, AllAsked
    <3> QED BY <3>1, <3>2
  <2>14. \A m \in NonOne : Answered(m) => Answered(m)'
    BY <2>1, <2>12 DEF Answered
  <2>15. \A m \in NonOne : Asks(m) \/ m = n => Asks(m)'
    <3> SUFFICES ASSUME NEW m \in NonOne, Asks(m) \/ m = n PROVE Asks(m)'
      OBVIOUS
    <3>1. CASE m = n
      <4>1. 1 \in 1 .. Len(queries') /\ queries'[1].node = n
        BY <2>3, <2>4, <2>6
      <4> QED BY <3>1, <4>1 DEF Asks
    <3>2. CASE Asks(m)
      <4>1. PICK i \in 1 .. Len(queries) : queries[i].node = m
        BY <3>2 DEF Asks
      <4>2. i + 1 \in 1 .. Len(queries') /\ queries'[i + 1] = queries[i]
        BY <2>4, <2>6
      <4> QED BY <4>1, <4>2 DEF Asks
    <3> QED BY <3>1, <3>2
  <2>16. AllAsked'
    <3>1. ASSUME NEW m \in found'.nonOne \cap found'.empty
          PROVE  Asks(m)' \/ Answered(m)'
      <4>1. m \in NonOne /\ (m = n \/ m \in found.nonOne \cap found.empty)
        BY <3>1 DEF Found
      <4> QED BY <2>14, <2>15, <4>1 DEF AllAsked, Inv
    <3> QED BY <2>13, <3>1 DEF AllAsked
  <2> QED
    BY <2>1, <2>8, <2>9, <2>10, <2>11, <2>16 DEF Inv, KilledOnlyAlone
<1>2. CASE n \notin found'.nonOne \cap found'.empty
  <2>1. UNCHANGED << phase, queries, listeners, updates, killed >>
    BY <1>2 DEF Trigger, rest
  <2>2. found'.nonOne \cap found'.empty \subseteq found.nonOne \cap found.empty
    BY <1>2
  <2>3. TypeInv'
    BY <2>1 DEF TypeInv
  <2>4. AllAffected' /\ AllWeak'
    BY <2>1, <2>2 DEF AllAffected, AllWeak, Inv
  <2>5. AllAsked'
    BY <2>1, <2>2 DEF AllAsked, Inv, AskedFrom, Asked1, Answered, Asks
  <2> QED BY <2>1, <2>3, <2>4, <2>5 DEF Inv, KilledOnlyAlone
<1> QED
  BY <1>1, <1>2

\* A step that leaves the queries alone, and closes the updates
LEMMA GrowInv ==
  ASSUME TypeInv, Inv, phase = "object", UNCHANGED << phase, queries, killed >>,
         found' \in Found, found'.nonOne = found.nonOne, found'.empty = found.empty,
         listeners' \in Listeners, listeners'.reach = listeners.reach,
         listeners'.stack = listeners.stack,
         updates' \in Updates, Closed(updates'),
         updates.affected \subseteq updates'.affected, AllAffected', AllWeak'
  PROVE  TypeInv' /\ Inv'
<1>1. TypeInv'
  BY DEF TypeInv
<1>2. AllAsked'
  BY DEF AllAsked, Inv, AskedFrom, Asked1, Answered, Asks
<1> QED
  BY <1>1, <1>2 DEF Inv, KilledOnlyAlone

LEMMA FindAllocationInv ==
  ASSUME TypeInv, Inv, NEW a \in Alloc, FindAllocation(a)
  PROVE  TypeInv' /\ Inv'
<1>1. /\ phase = "object" /\ found' = [found EXCEPT !.solvers = @ \cup {a}]
      /\ UNCHANGED << phase, queries, listeners, updates, killed >>
  BY DEF FindAllocation, rest
<1>2. /\ found' \in Found /\ found'.nonOne = found.nonOne /\ found'.empty = found.empty
      /\ found'.reached = found.reached /\ found'.callers = found.callers
  BY <1>1 DEF TypeInv, Found
<1>3. AllAffected' /\ AllWeak'
  BY <1>1, <1>2 DEF AllAffected, AllWeak, Inv
<1> QED
  BY <1>1, <1>2, <1>3, GrowInv DEF TypeInv, Inv

LEMMA FindFlowInv ==
  ASSUME TypeInv, Inv, NEW a \in Alloc, NEW m \in Flows[a], FindFlow(a, m)
  PROVE  TypeInv' /\ Inv'
<1>1. /\ phase = "object" /\ found' = [found EXCEPT !.flows = @ \cup {<< a, m >>}]
      /\ UNCHANGED << phase, queries, listeners, updates, killed >>
  BY DEF FindFlow
<1>2. << a, m >> \in Alloc \X Node
  BY EnvironmentAssumption
<1>3. /\ found' \in Found /\ found'.nonOne = found.nonOne /\ found'.empty = found.empty
      /\ found'.reached = found.reached /\ found'.callers = found.callers
  BY <1>1, <1>2 DEF TypeInv, Found
<1>4. AllAffected' /\ AllWeak'
  BY <1>1, <1>3 DEF AllAffected, AllWeak, Inv
<1> QED
  BY <1>1, <1>3, <1>4, GrowInv DEF TypeInv, Inv

\* What listeners for summaries leave has its type.
LEMMA ReturnedType ==
  ASSUME NEW sums \in SUBSET (Alloc \X Node), NEW sites
  PROVE  Returned(sums, sites) \subseteq Alloc \X Node
  BY DEF Returned

LEMMA FindSummaryInv ==
  ASSUME TypeInv, Inv, NEW a \in Alloc, NEW m \in Summaries[a], FindSummary(a, m)
  PROVE  TypeInv' /\ Inv'
<1> DEFINE new == Returned({<< a, m >>}, listeners.summary)
<1>1. /\ phase = "object" /\ found' = [found EXCEPT !.summaries = @ \cup {<< a, m >>}]
      /\ listeners' = [listeners EXCEPT !.alias = @ \cup new]
      /\ UNCHANGED << phase, queries, updates, killed >>
  BY DEF FindSummary
<1>2. << a, m >> \in Alloc \X Node
  BY EnvironmentAssumption
<1>3. /\ found' \in Found /\ found'.nonOne = found.nonOne /\ found'.empty = found.empty
      /\ found'.reached = found.reached /\ found'.callers = found.callers
  BY <1>1, <1>2 DEF TypeInv, Found
<1>4. new \subseteq Alloc \X Node
  BY <1>2, ReturnedType
<1> HIDE DEF new
<1>5. /\ listeners' \in Listeners /\ listeners'.reach = listeners.reach
      /\ listeners'.stack = listeners.stack
  BY <1>1, <1>4 DEF TypeInv, Listeners
<1>6. AllAffected' /\ AllWeak'
  BY <1>1, <1>3, <1>5 DEF AllAffected, AllWeak, Inv
<1> QED
  BY <1>1, <1>3, <1>5, <1>6, GrowInv DEF TypeInv, Inv

LEMMA ReachNodeInv ==
  ASSUME TypeInv, Inv, NEW a \in Alloc, NEW n \in NonOne, ReachNode(a, n)
  PROVE  TypeInv' /\ Inv'
<1> DEFINE pairs == {<< a, n >>} \cap listeners.reach
<1>1. /\ phase = "object" /\ found' = [found EXCEPT !.reached = @ \cup {<< a, n >>}]
      /\ updates' = SetWeakUpdate(updates, pairs)
      /\ UNCHANGED << phase, queries, listeners, killed >>
  BY DEF ReachNode
<1>2. pairs \in SUBSET (Alloc \X NonOne)
  OBVIOUS
<1>3. /\ found' \in Found /\ found'.nonOne = found.nonOne /\ found'.empty = found.empty
      /\ found'.reached = found.reached \cup {<< a, n >>} /\ found'.callers = found.callers
  <2>1. << a, n >> \in Alloc \X NonOne
    OBVIOUS
  <2> QED BY <1>1, <2>1 DEF TypeInv, Found
<1>4. /\ updates' \in Updates /\ Closed(updates')
      /\ updates'.affected = updates.affected
      /\ updates.weakNodes \subseteq updates'.weakNodes
      /\ \A q \in pairs : q[1] \notin Null \cup {seed} => q[2] \in updates'.weakNodes
  BY <1>1, <1>2, SetWeakUpdateCloses DEF TypeInv, Inv
<1>5. AllAffected'
  BY <1>1, <1>3, <1>4 DEF AllAffected, Inv
<1>6. AllWeak'
  <2> SUFFICES ASSUME NEW p \in found'.reached \cap listeners'.reach,
                      p[1] \notin Null \cup {seed}
               PROVE  p[2] \in updates'.weakNodes
    BY DEF AllWeak
  <2>1. CASE p \in found.reached
    BY <1>1, <1>4, <2>1 DEF AllWeak, Inv
  <2>2. CASE p = << a, n >>
    BY <1>1, <1>4, <2>2
  <2> QED BY <1>3, <2>1, <2>2
<1> QED
  BY <1>1, <1>3, <1>4, <1>5, <1>6, GrowInv DEF TypeInv, Inv

LEMMA FindCallerInv ==
  ASSUME TypeInv, Inv, NEW n \in NonOne, NEW c \in Callers[n], FindCaller(n, c)
  PROVE  TypeInv' /\ Inv'
<1> DEFINE heard == { l \in listeners.stack : l[1] = n }
           sums == (UNION { l[2] : l \in heard }) \X {c}
           new == {} \cup Returned(found.summaries, sums)
<1>1. /\ phase = "object" /\ found' = [found EXCEPT !.callers = @ \cup {<< n, c >>}]
      /\ updates' = IF heard = {} THEN updates ELSE AddAffected(updates, {<< n, c >>})
      /\ listeners' = [listeners EXCEPT !.summary = @ \cup sums, !.alias = @ \cup new]
      /\ UNCHANGED << phase, queries, killed >>
  BY DEF FindCaller, Register
<1>2. c \in Stmt
  BY EnvironmentAssumption
<1>3. /\ found' \in Found /\ found'.nonOne = found.nonOne /\ found'.empty = found.empty
      /\ found'.reached = found.reached
      /\ found'.callers = found.callers \cup {<< n, c >>}
  <2>1. << n, c >> \in NonOne \X Stmt
    BY <1>2
  <2> HIDE DEF heard, sums, new
  <2> QED BY <1>1, <2>1 DEF TypeInv, Found
<1>4. sums \subseteq Alloc \X Stmt
  BY <1>2 DEF TypeInv, Listeners
<1>5. new \subseteq Alloc \X Node
  BY ReturnedType DEF TypeInv, Found
<1> HIDE DEF sums, new
<1>6. /\ listeners' \in Listeners /\ listeners'.reach = listeners.reach
      /\ listeners'.stack = listeners.stack
  BY <1>1, <1>4, <1>5 DEF TypeInv, Listeners
<1>7. {<< n, c >>} \in SUBSET (NonOne \X Stmt)
  BY <1>2
<1>8. /\ updates' \in Updates /\ Closed(updates') /\ updates'.weakNodes = updates.weakNodes
      /\ updates.affected \subseteq updates'.affected
      /\ heard # {} => << n, c >> \in updates'.affected
  BY <1>1, <1>7, AddAffectedCloses DEF TypeInv, Inv
<1>9. AllAffected'
  <2>1. \A m \in found'.nonOne \cap found'.empty : << m, m[1] >> \in updates'.affected
    BY <1>3, <1>8 DEF AllAffected, Inv
  <2>2. ASSUME NEW l \in listeners'.stack, NEW d \in Stmt, << l[1], d >> \in found'.callers
        PROVE  << l[1], d >> \in updates'.affected
    <3>1. CASE << l[1], d >> \in found.callers
      BY <1>6, <1>8, <3>1 DEF AllAffected, Inv
    <3>2. CASE << l[1], d >> = << n, c >>
      BY <1>6, <1>8, <3>2
    <3> QED BY <1>3, <2>2, <3>1, <3>2
  <2> QED BY <2>1, <2>2 DEF AllAffected
<1>10. AllWeak'
  BY <1>3, <1>6, <1>8 DEF AllWeak, Inv
<1> QED
  BY <1>1, <1>3, <1>6, <1>8, <1>9, <1>10, GrowInv DEF TypeInv, Inv

-----------------------------------------------------------------------------
(* A query has returned *)

LEMMA EndQueryInv ==
  ASSUME TypeInv, Inv, EndQuery
  PROVE  TypeInv' /\ Inv'
<1>1. queries \in Seq(Asking) /\ queries # << >>
  BY DEF EndQuery, TypeInv
<1>2. PICK q \in Asking :
        /\ q = Head(queries) /\ q = queries[1] /\ Len(queries) \in Nat \ {0}
        /\ Tail(queries) \in Seq(Asking) /\ Len(Tail(queries)) = Len(queries) - 1
        /\ \A i \in 1 .. Len(queries) - 1 : Tail(queries)[i] = queries[i + 1]
  BY <1>1, Popped
<1>3. PICK sites : sites = Asked
  OBVIOUS
<1> DEFINE n == q.node
           here == { r \in found.reached : r[2] = n }
           weak == SetWeakUpdate(updates, here)
           callers == { p \in found.callers : p[1] = n }
           sums == sites \X { p[2] : p \in callers }
           new == sites \X {n} \cup Returned(found.summaries, sums)
<1>4. /\ phase = "object" /\ sites \subseteq found.solvers
      /\ updates' = AddAffected(weak, callers)
      /\ listeners' = [listeners EXCEPT !.reach = @ \cup found.solvers \X {n},
                                        !.stack = @ \cup {<< n, sites >>},
                                        !.summary = @ \cup sums, !.alias = @ \cup new]
      /\ IF q.left = {} THEN queries' = Tail(queries)
         ELSE \E p \in q.left :
                queries' = << [q EXCEPT !.pred = p, !.left = @ \ {p}] >> \o Tail(queries)
      /\ UNCHANGED << phase, found, killed >>
  BY <1>2, <1>3 DEF EndQuery, Answer
<1>5. /\ OfNode(q) /\ AskedFrom(q)
      /\ n \in NonOne /\ sites = Sites[n][q.pred] /\ n \in Node
  BY <1>2, <1>3, EnvironmentAssumption DEF TypeInv, Inv, AllAsked, Asking, Asked
<1> HIDE DEF n
<1>6. here \in SUBSET (Alloc \X NonOne) /\ callers \in SUBSET (NonOne \X Stmt)
  BY DEF TypeInv, Found
<1>7. /\ weak \in Updates /\ Closed(weak) /\ weak.affected = updates.affected
      /\ updates.weakNodes \subseteq weak.weakNodes
      /\ \A r \in here : r[1] \notin Null \cup {seed} => r[2] \in weak.weakNodes
  BY <1>6, SetWeakUpdateCloses DEF TypeInv, Inv
<1> HIDE DEF weak
<1>8. /\ updates' \in Updates /\ Closed(updates') /\ updates'.weakNodes = weak.weakNodes
      /\ updates'.affected = updates.affected \cup callers
  BY <1>4, <1>6, <1>7, AddAffectedCloses
<1>9. sites \subseteq Alloc /\ sums \subseteq Alloc \X Stmt /\ new \subseteq Alloc \X Node
  <2>1. sites \subseteq Alloc
    BY <1>4 DEF TypeInv, Found
  <2>2. sums \subseteq Alloc \X Stmt
    BY <1>6, <2>1
  <2>3. Returned(found.summaries, sums) \subseteq Alloc \X Node
    BY ReturnedType DEF TypeInv, Found
  <2> QED BY <1>5, <2>1, <2>2, <2>3
<1> HIDE DEF sums, new
<1>10. /\ listeners' \in Listeners
       /\ listeners'.reach = listeners.reach \cup found.solvers \X {n}
       /\ listeners'.stack = listeners.stack \cup {<< n, sites >>}
  <2>1. /\ found.solvers \X {n} \subseteq Alloc \X NonOne
        /\ << n, sites >> \in NonOne \X SUBSET Alloc
    BY <1>5, <1>9 DEF TypeInv, Found
  <2> QED BY <1>4, <1>9, <2>1 DEF TypeInv, Listeners
<1>11. AllAffected'
  <2>1. \A m \in found'.nonOne \cap found'.empty : << m, m[1] >> \in updates'.affected
    BY <1>4, <1>8 DEF AllAffected, Inv
  <2>2. ASSUME NEW l \in listeners'.stack, NEW c \in Stmt, << l[1], c >> \in found'.callers
        PROVE  << l[1], c >> \in updates'.affected
    <3>1. CASE l \in listeners.stack
      BY <1>4, <1>8, <2>2, <3>1 DEF AllAffected, Inv
    <3>2. CASE l = << n, sites >>
      BY <1>4, <1>8, <2>2, <3>2
    <3> QED BY <1>10, <3>1, <3>2
  <2> QED BY <2>1, <2>2 DEF AllAffected
<1>12. AllWeak'
  <2> SUFFICES ASSUME NEW p \in found'.reached \cap listeners'.reach,
                      p[1] \notin Null \cup {seed}
               PROVE  p[2] \in updates'.weakNodes
    BY DEF AllWeak
  <2>1. CASE p \in listeners.reach
    BY <1>4, <1>7, <1>8, <2>1 DEF AllWeak, Inv
  <2>2. CASE p \in found.solvers \X {n}
    BY <1>4, <1>7, <1>8, <2>2
  <2> QED BY <1>10, <2>1, <2>2
<1>13. Asked1(n, q.pred)' /\ \A m, k : Asked1(m, k) => Asked1(m, k)'
  BY <1>4, <1>5, <1>10 DEF Asked1
<1>14. \A f : AskedFrom(f) => AskedFrom(f)'
  BY <1>13 DEF AskedFrom
<1>15. \A m : Answered(m) => Answered(m)'
  BY <1>10, <1>13 DEF Answered
<1>16. \A m \in found'.nonOne \cap found'.empty : Asks(m) \/ Answered(m)
  BY <1>4 DEF Inv, AllAsked
<1>17. CASE q.left = {}
  <2>1. queries' = Tail(queries)
    BY <1>4, <1>17
  <2>2. /\ queries' \in Seq(Asking) /\ Len(queries') = Len(queries) - 1
        /\ \A i \in 1 .. Len(queries') : /\ i + 1 \in 1 .. Len(queries)
                                         /\ queries'[i] = queries[i + 1]
    BY <1>2, <2>1
  <2>3. TypeInv'
    BY <1>4, <1>8, <1>10, <2>2 DEF TypeInv, OfNode
  <2>4. \A i \in 1 .. Len(queries') : AskedFrom(queries[i])'
    <3> SUFFICES ASSUME NEW i \in 1 .. Len(queries') PROVE AskedFrom(queries[i])'
      OBVIOUS
    <3>1. AskedFrom(queries[i + 1])
      BY <2>2 DEF Inv, AllAsked
    <3> QED BY <1>13, <2>2, <3>1 DEF AskedFrom
  <2>5. ASSUME NEW m \in found'.nonOne \cap found'.empty PROVE (Asks(m) \/ Answered(m))'
    <3>1. CASE m = n
      <4>1. \A p \in Preds[n] : Asked1(n, p)'
        BY <1>5, <1>13, <1>17 DEF AskedFrom, n
      <4>2. << n, sites >>[1] = n
        OBVIOUS
      <4> QED BY <1>10, <3>1, <4>1, <4>2 DEF Answered
    <3>2. CASE m # n /\ Asks(m)
      <4>1. PICK i \in 1 .. Len(queries) : queries[i].node = m
        BY <3>2 DEF Asks
      <4>2. i # 1
        BY <1>2, <3>2, <4>1 DEF n
      <4>3. i - 1 \in 1 .. Len(queries') /\ queries'[i - 1] = queries[i]
        BY <1>2, <2>2, <4>2
      <4> QED BY <4>1, <4>3 DEF Asks
    <3> QED BY <1>15, <1>16, <3>1, <3>2
  <2>6. AllAsked'
    BY <2>4, <2>5 DEF AllAsked
  <2> QED BY <1>4, <1>8, <1>11, <1>12, <2>3, <2>6 DEF Inv, KilledOnlyAlone
<1>18. CASE q.left # {}
  <2>1. PICK p \in q.left :
          queries' = << [q EXCEPT !.pred = p, !.left = @ \ {p}] >> \o Tail(queries)
    BY <1>4, <1>18
  <2> DEFINE f == [q EXCEPT !.pred = p, !.left = @ \ {p}]
  <2>2. f \in Asking /\ f.node = n /\ f.pred = p /\ f.left = q.left \ {p}
    <3>1. p \in Before
      BY <1>2 DEF Asking
    <3> QED BY <1>2, <3>1 DEF Asking, n
  <2> HIDE DEF f
  <2>3. queries' = << f >> \o Tail(queries)
    BY <2>1 DEF f
  <2>4. /\ queries' \in Seq(Asking) /\ Len(queries') = Len(queries)
        /\ \A i \in 1 .. Len(queries) : queries'[i] = IF i = 1 THEN f ELSE queries[i]
    BY <1>1, <2>2, <2>3, Replaced
  <2>5. OfNode(f)
    BY <1>5, <2>1, <2>2 DEF OfNode, n
  <2>6. \A i \in 1 .. Len(queries') : OfNode(queries'[i])
    BY <2>4, <2>5 DEF TypeInv
  <2>7. TypeInv'
    BY <1>4, <1>8, <1>10, <2>4, <2>6 DEF TypeInv, OfNode
  <2>8. \A k \in Preds[n] : k = p \/ k \in q.left \ {p} \/ Asked1(n, k)'
    BY <1>5, <1>13 DEF AskedFrom, n
  <2>9. \A i \in 1 .. Len(queries') : AskedFrom(queries[i])'
    <3> SUFFICES ASSUME NEW i \in 1 .. Len(queries') PROVE AskedFrom(queries[i])'
      OBVIOUS
    <3>1. CASE i = 1
      <4>1. queries'[i] = f
        BY <2>4, <3>1
      <4> QED BY <2>2, <2>8, <4>1 DEF AskedFrom
    <3>2. CASE i # 1
      <4>1. queries'[i] = queries[i] /\ AskedFrom(queries[i])
        BY <2>4, <3>2 DEF Inv, AllAsked
      <4> QED BY <1>13, <4>1 DEF AskedFrom
    <3> QED BY <3>1, <3>2
  <2>10. ASSUME NEW m, Asks(m) PROVE Asks(m)'
    <3>1. PICK i \in 1 .. Len(queries) : queries[i].node = m
      BY <2>10 DEF Asks
    <3>2. queries'[i].node = m
      BY <1>2, <2>2, <2>4, <3>1 DEF n
    <3> QED BY <2>4, <3>1, <3>2 DEF Asks
  <2>11. AllAsked'
    <3>1. ASSUME NEW m \in found'.nonOne \cap found'.empty PROVE Asks(m)' \/ Answered(m)'
      BY <1>15, <1>16, <2>10
    <3> QED BY <2>9, <3>1 DEF AllAsked
  <2> QED BY <1>4, <1>8, <1>11, <1>12, <2>7, <2>11 DEF Inv, KilledOnlyAlone
<1> QED
  BY <1>17, <1>18

-----------------------------------------------------------------------------
(* The second phase *)

\* When everything is found and no query waits, every statement that a node with
\* another allocation affects is weak.
LEMMA FoundComplete ==
  ASSUME TypeInv, Inv, phase = "object", queries = << >>, found = AllFound
  PROVE  Complete
<1> SUFFICES ASSUME NEW n \in NonOne, NEW c \in {n[1]} \cup Callers[n],
                    ~ (SitesOf(n) \subseteq Null \cup {seed})
             PROVE  c \in updates.weak
  BY DEF Complete
<1>1. PICK p \in Preds[n] : \E a \in Sites[n][p] : a \notin Null \cup {seed}
  BY DEF SitesOf
<1>2. PICK a \in Sites[n][p] : a \notin Null \cup {seed}
  BY <1>1
<1>3. n \in found.nonOne \cap found.empty /\ ~ Asks(n)
  BY DEF AllFound, Asks
<1>4. Answered(n)
  BY <1>3 DEF Inv, AllAsked
<1>5. << a, n >> \in listeners.reach
  BY <1>2, <1>4 DEF Answered, Asked1
<1>6. << a, n >> \in found.reached
  BY <1>2 DEF AllFound, SitesOf
<1>7. n \in updates.weakNodes
  BY <1>2, <1>5, <1>6 DEF AllWeak, Inv
<1>8. << n, c >> \in updates.affected
  <2>1. CASE c = n[1]
    BY <1>3, <2>1 DEF AllAffected, Inv
  <2>2. CASE c \in Callers[n]
    <3>1. c \in Stmt /\ << n, c >> \in found.callers
      BY <2>2, EnvironmentAssumption DEF AllFound
    <3>2. PICK l \in listeners.stack : l[1] = n
      BY <1>4 DEF Answered
    <3> QED BY <3>1, <3>2 DEF AllAffected, Inv
  <2> QED BY <2>1, <2>2
<1> QED
  BY <1>7, <1>8 DEF Closed, Inv

\* A step after which no query waits, and only the phase and the queries have changed
LEMMA PhaseInv ==
  ASSUME TypeInv, Inv, phase' \in {"value", "done", "stopped"},
         queries' = << >> \/ queries' = queries,
         UNCHANGED << found, listeners, updates, killed >>,
         phase' = "stopped" => killed = {}, phase' \in {"value", "done"} => Complete
  PROVE  TypeInv' /\ Inv'
<1>1. queries' \in Seq(Asking) /\ \A i \in 1 .. Len(queries') : OfNode(queries'[i])
  <2>1. CASE queries' = << >>
    BY <2>1
  <2>2. CASE queries' = queries
    BY <2>2 DEF TypeInv
  <2> QED BY <2>1, <2>2
<1>2. TypeInv'
  BY <1>1 DEF TypeInv, OfNode
<1>3. \A i \in 1 .. Len(queries') : AskedFrom(queries[i])'
  <2>1. CASE queries' = << >>
    BY <2>1
  <2>2. CASE queries' = queries
    BY <2>2 DEF Inv, AllAsked, AskedFrom, Asked1
  <2> QED BY <2>1, <2>2
<1>4. AllAffected' /\ AllWeak' /\ AllAsked'
  BY <1>3 DEF Inv, AllAffected, AllWeak, AllAsked
<1> QED
  BY <1>2, <1>4 DEF Inv, Complete, KilledOnlyAlone

LEMMA AddRuleInv ==
  ASSUME TypeInv, Inv, NEW r \in Rules, AddRule(r)
  PROVE  TypeInv' /\ Inv'
<1>1. /\ phase = "value"
      /\ \/ killed' = killed
         \/ killed' = killed \cup {r} /\ Prevented(r)
      /\ UNCHANGED << phase, found, queries, listeners, updates, nodesWithStrongUpdate >>
  BY DEF AddRule
<1>2. TypeInv'
  BY <1>1 DEF TypeInv, OfNode
<1>3. UNCHANGED << phase, found, queries, listeners, updates >> /\ Complete /\ Closed(updates)
  BY <1>1 DEF Inv
<1>4. AllAffected' /\ AllWeak' /\ Complete' /\ Closed(updates')
  BY <1>3 DEF Inv, AllAffected, AllWeak, Complete, Closed
<1>5. AllAsked'
  BY <1>3 DEF Inv, AllAsked, AskedFrom, Asked1, Answered, Asks
<1>6. KilledOnlyAlone'
  <2>1. CASE killed' = killed
    BY <2>1 DEF Inv, KilledOnlyAlone
  <2>2. CASE killed' = killed \cup {r} /\ Prevented(r)
    <3>1. PICK m \in r[3] : m[1] \notin updates.weak
      BY <2>2 DEF Prevented, IsStrongUpdateStatement
    <3>2. \A n \in NonOne :
            m[1] \in {n[1]} \cup Callers[n] => SitesOf(n) \subseteq Null \cup {seed}
      BY <1>3, <3>1 DEF Complete
    <3> QED BY <2>2, <3>1, <3>2 DEF Inv, KilledOnlyAlone
  <2> QED BY <1>1, <2>1, <2>2
<1>7. phase' = "value"
  BY <1>1
<1> QED
  BY <1>2, <1>4, <1>5, <1>6, <1>7 DEF Inv

LEMMA NextInv == TypeInv /\ Inv /\ [Next]_vars => TypeInv' /\ Inv'
<1> SUFFICES ASSUME TypeInv, Inv, [Next]_vars PROVE TypeInv' /\ Inv'
  OBVIOUS
<1>1. ASSUME NEW n \in NonOne, FindNonOne(n) PROVE TypeInv' /\ Inv'
  <2>1. phase = "object" /\ found' = [found EXCEPT !.nonOne = @ \cup {n}] /\ Trigger(n)
    BY <1>1 DEF FindNonOne
  <2>2. found' \in Found /\ found'.reached = found.reached /\ found'.callers = found.callers
        /\ found'.nonOne = found.nonOne \cup {n} /\ found'.empty = found.empty
    BY <2>1 DEF TypeInv, Found
  <2> QED BY <2>1, <2>2, TriggerInv
<1>2. ASSUME NEW n \in NonOne, ReachEmpty(n) PROVE TypeInv' /\ Inv'
  <2>1. phase = "object" /\ found' = [found EXCEPT !.empty = @ \cup {n}] /\ Trigger(n)
    BY <1>2 DEF ReachEmpty
  <2>2. found' \in Found /\ found'.reached = found.reached /\ found'.callers = found.callers
        /\ found'.nonOne = found.nonOne /\ found'.empty = found.empty \cup {n}
    BY <2>1 DEF TypeInv, Found
  <2> QED BY <2>1, <2>2, TriggerInv
<1>3. ASSUME NEW n \in NonOne, NEW a \in SitesOf(n) \ {seed}, ReachNode(a, n)
      PROVE  TypeInv' /\ Inv'
  <2>1. a \in Alloc
    BY EnvironmentAssumption DEF SitesOf
  <2> QED BY <1>3, <2>1, ReachNodeInv
<1>4. ASSUME EndPhase1 PROVE TypeInv' /\ Inv'
  <2>1. Complete
    BY <1>4, FoundComplete DEF EndPhase1
  <2> QED BY <1>4, <2>1, PhaseInv DEF EndPhase1
<1>5. ASSUME StopPhase1 PROVE TypeInv' /\ Inv'
  BY <1>5, PhaseInv DEF StopPhase1, Inv
<1>6. ASSUME NEW m \in value, IndirectFlow(m) PROVE TypeInv' /\ Inv'
  BY <1>6, PhaseInv DEF IndirectFlow, Inv
<1>7. ASSUME EndPhase2 PROVE TypeInv' /\ Inv'
  BY <1>7, PhaseInv DEF EndPhase2, Inv
<1>8. CASE UNCHANGED vars
  <2>1. UNCHANGED << phase, found, queries, listeners, updates, killed >>
    BY <1>8 DEF vars
  <2>2. TypeInv'
    BY <2>1 DEF TypeInv, OfNode
  <2>3. AllAffected' /\ AllWeak' /\ AllAsked' /\ KilledOnlyAlone'
    BY <2>1 DEF Inv, AllAffected, AllWeak, AllAsked, AskedFrom, Asked1, Answered, Asks,
                KilledOnlyAlone
  <2> QED BY <2>1, <2>2, <2>3 DEF Inv, Closed, Complete
<1> QED
  BY <1>1, <1>2, <1>3, <1>4, <1>5, <1>6, <1>7, <1>8, FindAllocationInv, FindFlowInv,
     FindSummaryInv, FindCallerInv, EndQueryInv, AddRuleInv DEF Next, Solve

-----------------------------------------------------------------------------
(* What the sets contain, however they came about *)

Affecting(u) == { p[2] : p \in u.affected }
Weakening(u) == { p[2] : p \in { q \in u.affected : q[1] \in u.weakNodes } }
Exact(u) == u.potential = Affecting(u) /\ u.weak = Weakening(u)

\* Only nodes that are reached from another allocation are weak, and only the statement
\* of a node and those of its callers are affected.
OfSeed(u) ==
  /\ \A n \in u.weakNodes : MayBeWeak(n)
  /\ \A p \in u.affected : p[2] \in {p[1][1]} \cup Callers[p[1]]

\* What the listeners L for aliases have heard of the flows F
Told(F, L) == { l[2] : l \in { k \in L : \E f \in F : f[1] = k[1] /\ f[2][1] = k[2][1] } }
Aliases(F, L) ==
  UNION { { << l[2], f[2] >> : f \in { g \in F : /\ g[1] = l[1] /\ g[2][1] = l[2][1]
                                                /\ l[2] # g[2] } } : l \in L }

\* The listeners that the queries leave, by what they have left with the seed's solver
Direct(stack) == UNION { l[2] \X {l[1]} : l \in stack }
CallersOf(callers, n) == { p[2] : p \in { q \in callers : q[1] = n } }
ForSummaries(stack, callers) == UNION { l[2] \X CallersOf(callers, l[1]) : l \in stack }
Left(ls, F) ==
  /\ ls.summary = ForSummaries(ls.stack, F.callers)
  /\ ls.alias = Direct(ls.stack) \cup Returned(F.summaries, ls.summary)
  /\ \A l \in ls.stack : l[2] \subseteq SitesOf(l[1])

Heard ==
  /\ nodesWithStrongUpdate = Told(found.flows, listeners.alias)
  /\ indirectAlias = Aliases(found.flows, listeners.alias)
Within ==
  /\ \A p \in found.reached : p[1] \in SitesOf(p[2]) \ {seed}
  /\ \A p \in found.callers : p[2] \in Callers[p[1]]
ObjectInv == Exact(updates) /\ OfSeed(updates) /\ Left(listeners, found) /\ Heard /\ Within
ExactInv == (phase = "object" => ObjectInv) /\ PhasesAgree

LEMMA AddAffectedExact ==
  ASSUME NEW u \in Updates, Exact(u), OfSeed(u), NEW pairs \in SUBSET (NonOne \X Stmt),
         \A p \in pairs : p[2] \in {p[1][1]} \cup Callers[p[1]]
  PROVE  Exact(AddAffected(u, pairs)) /\ OfSeed(AddAffected(u, pairs))
<1> DEFINE v == AddAffected(u, pairs)
           new == pairs \ u.affected
           stmts == { p[2] : p \in new }
           weak == { p[2] : p \in { q \in new : q[1] \in u.weakNodes } }
<1>1. v = [u EXCEPT !.affected = @ \cup new, !.potential = @ \cup stmts, !.weak = @ \cup weak]
  BY DEF AddAffected
<1> HIDE DEF v
<1>2. /\ v.affected = u.affected \cup new /\ v.weakNodes = u.weakNodes
      /\ v.potential = u.potential \cup stmts /\ v.weak = u.weak \cup weak
  <2> HIDE DEF new, stmts, weak
  <2> QED BY <1>1 DEF Updates
<1>3. Affecting(v) = Affecting(u) \cup stmts
  BY <1>2 DEF Affecting
<1>4. Weakening(v) = Weakening(u) \cup weak
  BY <1>2 DEF Weakening
<1>5. OfSeed(v)
  BY <1>2 DEF OfSeed
<1> QED
  BY <1>2, <1>3, <1>4, <1>5 DEF Exact, v

LEMMA SetWeakUpdateExact ==
  ASSUME NEW u \in Updates, Exact(u), OfSeed(u), NEW pairs \in SUBSET (Alloc \X NonOne),
         \A p \in pairs : p[1] \in SitesOf(p[2]) \ {seed}
  PROVE  Exact(SetWeakUpdate(u, pairs)) /\ OfSeed(SetWeakUpdate(u, pairs))
<1> DEFINE v == SetWeakUpdate(u, pairs)
           nodes == { p[2] : p \in { q \in pairs : q[1] \notin Null \cup {seed} } }
           new == nodes \ u.weakNodes
           weak == { p[2] : p \in { q \in u.affected : q[1] \in new } }
<1>1. v = [u EXCEPT !.weakNodes = @ \cup new, !.weak = @ \cup weak]
  BY DEF SetWeakUpdate
<1>2. \A n \in nodes : MayBeWeak(n)
  BY DEF MayBeWeak
<1> HIDE DEF v, nodes
<1>3. /\ v.affected = u.affected /\ v.weakNodes = u.weakNodes \cup new
      /\ v.potential = u.potential /\ v.weak = u.weak \cup weak
  <2> HIDE DEF new, weak
  <2> QED BY <1>1 DEF Updates
<1>4. Affecting(v) = Affecting(u)
  BY <1>3 DEF Affecting
<1>5. Weakening(v) = Weakening(u) \cup weak
  BY <1>3 DEF Weakening
<1>6. OfSeed(v)
  BY <1>2, <1>3 DEF OfSeed
<1> QED
  BY <1>3, <1>4, <1>5, <1>6 DEF Exact, v

\* More flows or more listeners, and what was heard stays heard.
LEMMA ToldOfFlows ==
  ASSUME NEW F, NEW G, NEW L
  PROVE  Told(F \cup G, L) = Told(F, L) \cup Told(G, L)
  BY DEF Told

LEMMA ToldOfMore ==
  ASSUME NEW F, NEW G, NEW L
  PROVE  Told(F, L \cup G) = Told(F, L) \cup Told(F, G)
  BY DEF Told

LEMMA AliasesOfFlows ==
  ASSUME NEW F, NEW G, NEW L
  PROVE  Aliases(F \cup G, L) = Aliases(F, L) \cup Aliases(G, L)
<1> DEFINE One(A, l) == { << l[2], f[2] >> : f \in { g \in A : /\ g[1] = l[1]
                                                            /\ g[2][1] = l[2][1]
                                                            /\ l[2] # g[2] } }
<1>1. \A A, B : Aliases(A, B) = UNION { One(A, l) : l \in B }
  BY DEF Aliases
<1>2. \A l : One(F \cup G, l) = One(F, l) \cup One(G, l)
  OBVIOUS
<1> HIDE DEF One
<1>3. \A x : (\E l \in L : x \in One(F \cup G, l)) <=>
              (\E l \in L : x \in One(F, l)) \/ (\E l \in L : x \in One(G, l))
  BY <1>2
<1>4. \A A, x : x \in Aliases(A, L) <=> \E l \in L : x \in One(A, l)
  BY <1>1
<1>5. \A x : x \in Aliases(F \cup G, L) <=> x \in Aliases(F, L) \/ x \in Aliases(G, L)
  BY <1>3, <1>4
<1>6. \A x : x \in Aliases(F \cup G, L) <=> x \in Aliases(F, L) \cup Aliases(G, L)
  BY <1>5
<1> QED
  BY <1>6

LEMMA AliasesOfMore ==
  ASSUME NEW F, NEW G, NEW L
  PROVE  Aliases(F, L \cup G) = Aliases(F, L) \cup Aliases(F, G)
<1> DEFINE One(A, l) == { << l[2], f[2] >> : f \in { g \in A : /\ g[1] = l[1]
                                                            /\ g[2][1] = l[2][1]
                                                            /\ l[2] # g[2] } }
<1>1. \A A, B : Aliases(A, B) = UNION { One(A, l) : l \in B }
  BY DEF Aliases
<1> HIDE DEF One
<1> QED
  BY <1>1

LEMMA ReturnedOfFlows ==
  ASSUME NEW F, NEW G, NEW L
  PROVE  Returned(F \cup G, L) = Returned(F, L) \cup Returned(G, L)
  BY DEF Returned

LEMMA ReturnedOfMore ==
  ASSUME NEW F, NEW G, NEW L
  PROVE  Returned(F, L \cup G) = Returned(F, L) \cup Returned(F, G)
  BY DEF Returned

\* What a listener is told when it registers, or when a flow comes
LEMMA AddAliasesTold ==
  ASSUME NEW F, NEW L, AddAliases(F, L)
  PROVE  /\ nodesWithStrongUpdate' = nodesWithStrongUpdate \cup Told(F, L)
         /\ indirectAlias' = indirectAlias \cup Aliases(F, L)
<1> DEFINE heard == { p \in F \X L : p[1][1] = p[2][1] /\ p[1][2][1] = p[2][2][1] }
           told == { p[2][2] : p \in heard }
           more == { << p[2][2], p[1][2] >> : p \in { q \in heard : q[2][2] # q[1][2] } }
<1>1. /\ nodesWithStrongUpdate' = nodesWithStrongUpdate \cup told
      /\ indirectAlias' = indirectAlias \cup more
  BY DEF AddAliases
<1>2. \A f, l : << f, l >> \in heard <=>
        f \in F /\ l \in L /\ f[1] = l[1] /\ f[2][1] = l[2][1]
  OBVIOUS
<1>3. \A p \in heard : p = << p[1], p[2] >>
  OBVIOUS
<1> HIDE DEF heard
<1>4. told = Told(F, L)
  <2>1. \A x \in told : x \in Told(F, L)
    BY <1>2, <1>3 DEF Told
  <2>2. ASSUME NEW x \in Told(F, L) PROVE x \in told
    <3>1. PICK l \in L : x = l[2] /\ \E f \in F : f[1] = l[1] /\ f[2][1] = l[2][1]
      BY DEF Told
    <3>2. PICK f \in F : << f, l >> \in heard
      BY <1>2, <3>1
    <3> QED BY <3>1, <3>2
  <2> HIDE DEF told
  <2> QED BY <2>1, <2>2
<1>5. more = Aliases(F, L)
  <2>1. ASSUME NEW x \in more PROVE x \in Aliases(F, L)
    <3>1. PICK p \in heard : p[2][2] # p[1][2] /\ x = << p[2][2], p[1][2] >>
      OBVIOUS
    <3>2. PICK l \in L : l = p[2]
      BY <1>2, <1>3
    <3>3. PICK f \in F : f = p[1] /\ f[1] = l[1] /\ f[2][1] = l[2][1]
      BY <1>2, <1>3, <3>2
    <3>4. x = << l[2], f[2] >> /\ l[2] # f[2]
      BY <3>1, <3>2, <3>3
    <3> QED BY <3>3, <3>4 DEF Aliases
  <2>2. ASSUME NEW x \in Aliases(F, L) PROVE x \in more
    <3>1. PICK l \in L :
            x \in { << l[2], f[2] >> : f \in { g \in F : /\ g[1] = l[1] /\ g[2][1] = l[2][1]
                                                       /\ l[2] # g[2] } }
      BY DEF Aliases
    <3>2. PICK f \in F : f[1] = l[1] /\ f[2][1] = l[2][1] /\ l[2] # f[2] /\ x = << l[2], f[2] >>
      BY <3>1
    <3>3. << f, l >> \in heard
      BY <1>2, <3>2
    <3>4. PICK p \in heard : p = << f, l >>
      BY <3>3
    <3> QED BY <3>2, <3>4
  <2> HIDE DEF more
  <2>3. more \subseteq Aliases(F, L) /\ Aliases(F, L) \subseteq more
    BY <2>1, <2>2
  <2> QED BY <2>3
<1> QED
  BY <1>1, <1>4, <1>5

\* A listener that registers is told of what is there, a flow that comes is told to all.
LEMMA HeardOfMore ==
  ASSUME Heard, NEW new,
         \/ /\ found'.flows = found.flows \cup new /\ listeners'.alias = listeners.alias
            /\ AddAliases(new, listeners.alias)
         \/ /\ found'.flows = found.flows /\ listeners'.alias = listeners.alias \cup new
            /\ AddAliases(found.flows, new)
  PROVE  Heard'
<1> DEFINE F == found.flows
           L == listeners.alias
<1>1. CASE /\ found'.flows = F \cup new /\ listeners'.alias = L
           /\ AddAliases(new, L)
  <2>1. /\ nodesWithStrongUpdate' = nodesWithStrongUpdate \cup Told(new, L)
        /\ indirectAlias' = indirectAlias \cup Aliases(new, L)
    BY <1>1, AddAliasesTold
  <2>2. /\ nodesWithStrongUpdate' = Told(F \cup new, L)
        /\ indirectAlias' = Aliases(F \cup new, L)
    <3>1. Told(F \cup new, L) = Told(F, L) \cup Told(new, L)
      BY ToldOfFlows
    <3>2. Aliases(F \cup new, L) = Aliases(F, L) \cup Aliases(new, L)
      BY AliasesOfFlows
    <3> QED BY <2>1, <3>1, <3>2, Zenon DEF Heard
  <2>3. /\ nodesWithStrongUpdate' = Told(found'.flows, listeners'.alias)
        /\ indirectAlias' = Aliases(found'.flows, listeners'.alias)
    BY <1>1, <2>2, Zenon
  <2> QED BY <2>3 DEF Heard
<1>2. CASE /\ found'.flows = F /\ listeners'.alias = L \cup new
           /\ AddAliases(F, new)
  <2>1. /\ nodesWithStrongUpdate' = nodesWithStrongUpdate \cup Told(F, new)
        /\ indirectAlias' = indirectAlias \cup Aliases(F, new)
    BY <1>2, AddAliasesTold
  <2>2. /\ nodesWithStrongUpdate' = Told(F, L \cup new)
        /\ indirectAlias' = Aliases(F, L \cup new)
    <3>1. Told(F, L \cup new) = Told(F, L) \cup Told(F, new)
      BY ToldOfMore
    <3>2. Aliases(F, L \cup new) = Aliases(F, L) \cup Aliases(F, new)
      BY AliasesOfMore
    <3> QED BY <2>1, <3>1, <3>2, Zenon DEF Heard
  <2>3. /\ nodesWithStrongUpdate' = Told(found'.flows, listeners'.alias)
        /\ indirectAlias' = Aliases(found'.flows, listeners'.alias)
    BY <1>2, <2>2, Zenon
  <2> QED BY <2>3 DEF Heard
<1> QED
  BY <1>1, <1>2

LEMMA DirectOfMore ==
  ASSUME NEW stack, NEW n, NEW sites, NEW x
  PROVE  x \in Direct(stack \cup {<< n, sites >>}) <=>
           x \in Direct(stack) \/ x \in sites \X {n}
<1>1. << n, sites >>[1] = n /\ << n, sites >>[2] = sites
  OBVIOUS
<1> QED
  BY <1>1 DEF Direct

LEMMA ForSummariesOfQuery ==
  ASSUME NEW stack, NEW callers, NEW n, NEW sites, NEW x
  PROVE  x \in ForSummaries(stack \cup {<< n, sites >>}, callers) <=>
           x \in ForSummaries(stack, callers) \/ x \in sites \X CallersOf(callers, n)
<1>1. << n, sites >>[1] = n /\ << n, sites >>[2] = sites
  OBVIOUS
<1> QED
  BY <1>1 DEF ForSummaries

\* The allocations of the queries that have left a listener for the callers of n
AskedOf(stack, n) == UNION { l[2] : l \in { k \in stack : k[1] = n } }

LEMMA ForSummariesOfCaller ==
  ASSUME NEW stack, NEW callers, NEW n, NEW c, NEW x
  PROVE  x \in ForSummaries(stack, callers \cup {<< n, c >>}) <=>
           x \in ForSummaries(stack, callers) \/ x \in AskedOf(stack, n) \X {c}
<1> DEFINE all == callers \cup {<< n, c >>}
           sites == UNION { l[2] : l \in { k \in stack : k[1] = n } }
           more == sites \X {c}
<1>1. \A k : CallersOf(all, k) = IF k = n THEN CallersOf(callers, k) \cup {c}
                                          ELSE CallersOf(callers, k)
  <2>1. << n, c >>[1] = n /\ << n, c >>[2] = c
    OBVIOUS
  <2> QED BY <2>1 DEF CallersOf
<1>2. \A l, y : y \in l[2] \X CallersOf(all, l[1]) <=>
        y \in l[2] \X CallersOf(callers, l[1]) \/ (l[1] = n /\ y \in l[2] \X {c})
  BY <1>1
<1>3. \A y : y \in more <=> \E l \in stack : l[1] = n /\ y \in l[2] \X {c}
  <2>1. \A y : y \in more <=> \E z \in sites : y = << z, c >>
    OBVIOUS
  <2>2. \A l, y : y \in l[2] \X {c} <=> \E z \in l[2] : y = << z, c >>
    OBVIOUS
  <2> HIDE DEF more
  <2> QED BY <2>1, <2>2
<1>4. \A C, y : y \in ForSummaries(stack, C) <=> \E l \in stack : y \in l[2] \X CallersOf(C, l[1])
  BY DEF ForSummaries
<1> HIDE DEF all, more
<1>5. \A y : y \in ForSummaries(stack, all) <=> y \in ForSummaries(stack, callers) \/ y \in more
  BY <1>2, <1>3, <1>4
<1> QED
  BY <1>5 DEF all, more, AskedOf

LEMMA InitExact == Init => ExactInv
<1> SUFFICES ASSUME Init PROVE ExactInv
  OBVIOUS
<1>1. Exact(updates) /\ OfSeed(updates)
  BY DEF Init, Exact, OfSeed, Affecting, Weakening
<1>2. Left(listeners, found)
  BY DEF Init, NothingFound, Left, ForSummaries, Direct, Returned
<1>3. Heard /\ Within
  BY DEF Init, NothingFound, Heard, Within, Told, Aliases
<1> QED
  BY <1>1, <1>2, <1>3 DEF ExactInv, ObjectInv, Init, PhasesAgree

LEMMA TriggerExact ==
  ASSUME TypeInv, ObjectInv, NEW n \in NonOne,
         found'.flows = found.flows, found'.summaries = found.summaries,
         found'.reached = found.reached, found'.callers = found.callers, Trigger(n)
  PROVE  ObjectInv'
<1>1. UNCHANGED << listeners, indirectAlias, nodesWithStrongUpdate >>
  BY DEF Trigger, rest
<1>2. Left(listeners, found)' /\ Heard' /\ Within'
  BY <1>1 DEF ObjectInv, Left, Heard, Within
<1>3. Exact(updates') /\ OfSeed(updates')
  <2>1. CASE updates' = updates
    BY <2>1 DEF ObjectInv
  <2>2. CASE updates' = AddAffected(updates, {<< n, n[1] >>})
    <3>1. {<< n, n[1] >>} \in SUBSET (NonOne \X Stmt)
      BY EnvironmentAssumption DEF Node
    <3> QED BY <2>2, <3>1, AddAffectedExact DEF ObjectInv, TypeInv
  <2> QED BY <2>1, <2>2 DEF Trigger, rest
<1> QED
  BY <1>2, <1>3 DEF ObjectInv

LEMMA FindAllocationExact ==
  ASSUME TypeInv, ObjectInv, NEW a \in Alloc, FindAllocation(a)
  PROVE  ObjectInv'
<1>1. /\ found' = [found EXCEPT !.solvers = @ \cup {a}]
      /\ UNCHANGED << listeners, updates, indirectAlias, nodesWithStrongUpdate >>
  BY DEF FindAllocation, rest
<1>2. /\ found'.flows = found.flows /\ found'.summaries = found.summaries
      /\ found'.reached = found.reached /\ found'.callers = found.callers
  BY <1>1 DEF TypeInv, Found
<1> QED
  BY <1>1, <1>2 DEF ObjectInv, Left, Heard, Within

LEMMA FindFlowExact ==
  ASSUME TypeInv, ObjectInv, NEW a \in Alloc, NEW m, FindFlow(a, m)
  PROVE  ObjectInv'
<1>1. /\ found' = [found EXCEPT !.flows = @ \cup {<< a, m >>}]
      /\ UNCHANGED << listeners, updates >>
      /\ AddAliases({<< a, m >>}, listeners.alias)
  BY DEF FindFlow
<1>2. /\ found'.flows = found.flows \cup {<< a, m >>} /\ found'.summaries = found.summaries
      /\ found'.reached = found.reached /\ found'.callers = found.callers
  BY <1>1 DEF TypeInv, Found
<1>3. Heard'
  <2>1. Heard /\ listeners'.alias = listeners.alias
    BY <1>1 DEF ObjectInv
  <2> QED BY <1>1, <1>2, <2>1, HeardOfMore
<1> QED
  BY <1>1, <1>2, <1>3 DEF ObjectInv, Left, Within

LEMMA FindSummaryExact ==
  ASSUME TypeInv, ObjectInv, NEW a \in Alloc, NEW m, FindSummary(a, m)
  PROVE  ObjectInv'
<1> DEFINE new == Returned({<< a, m >>}, listeners.summary)
<1>1. /\ found' = [found EXCEPT !.summaries = @ \cup {<< a, m >>}]
      /\ listeners' = [listeners EXCEPT !.alias = @ \cup new]
      /\ updates' = updates /\ AddAliases(found.flows, new)
  BY DEF FindSummary
<1>2. /\ found'.flows = found.flows /\ found'.summaries = found.summaries \cup {<< a, m >>}
      /\ found'.reached = found.reached /\ found'.callers = found.callers
  BY <1>1 DEF TypeInv, Found
<1>3. Returned(found'.summaries, listeners.summary) =
        Returned(found.summaries, listeners.summary) \cup new
  <2>1. Returned(found.summaries \cup {<< a, m >>}, listeners.summary) =
          Returned(found.summaries, listeners.summary) \cup new
    BY ReturnedOfFlows
  <2> HIDE DEF new
  <2> QED BY <1>2, <2>1, Zenon
<1> HIDE DEF new
<1>4. /\ listeners'.alias = listeners.alias \cup new /\ listeners'.stack = listeners.stack
      /\ listeners'.summary = listeners.summary
  BY <1>1 DEF TypeInv, Listeners
<1>5. Left(listeners, found)'
  BY <1>2, <1>3, <1>4 DEF ObjectInv, Left
<1>6. Heard'
  BY <1>1, <1>2, <1>4, HeardOfMore DEF ObjectInv
<1> QED
  BY <1>1, <1>2, <1>5, <1>6 DEF ObjectInv, Within

LEMMA ReachNodeExact ==
  ASSUME TypeInv, ObjectInv, NEW a \in Alloc, NEW n \in NonOne, a \in SitesOf(n) \ {seed},
         ReachNode(a, n)
  PROVE  ObjectInv'
<1> DEFINE pairs == {<< a, n >>} \cap listeners.reach
<1>1. /\ found' = [found EXCEPT !.reached = @ \cup {<< a, n >>}]
      /\ updates' = SetWeakUpdate(updates, pairs)
      /\ UNCHANGED << listeners, indirectAlias, nodesWithStrongUpdate >>
  BY DEF ReachNode
<1>2. /\ found'.flows = found.flows /\ found'.summaries = found.summaries
      /\ found'.reached = found.reached \cup {<< a, n >>} /\ found'.callers = found.callers
  BY <1>1 DEF TypeInv, Found
<1>3. pairs \in SUBSET (Alloc \X NonOne) /\ \A p \in pairs : p[1] \in SitesOf(p[2]) \ {seed}
  OBVIOUS
<1>4. Exact(updates') /\ OfSeed(updates')
  BY <1>1, <1>3, SetWeakUpdateExact DEF ObjectInv, TypeInv
<1>5. Within'
  BY <1>2 DEF ObjectInv, Within
<1>6. Left(listeners, found)' /\ Heard'
  BY <1>1, <1>2 DEF ObjectInv, Left, Heard
<1> QED
  BY <1>4, <1>5, <1>6 DEF ObjectInv

LEMMA FindCallerExact ==
  ASSUME TypeInv, ObjectInv, NEW n \in NonOne, NEW c \in Callers[n], FindCaller(n, c)
  PROVE  ObjectInv'
<1> DEFINE heard == { l \in listeners.stack : l[1] = n }
           sums == (UNION { l[2] : l \in heard }) \X {c}
           new == {} \cup Returned(found.summaries, sums)
<1>1. /\ found' = [found EXCEPT !.callers = @ \cup {<< n, c >>}]
      /\ updates' = IF heard = {} THEN updates ELSE AddAffected(updates, {<< n, c >>})
      /\ listeners' = [listeners EXCEPT !.summary = @ \cup sums, !.alias = @ \cup new]
      /\ AddAliases(found.flows, new)
  BY DEF FindCaller, Register
<1>2. ForSummaries(listeners.stack, found.callers \cup {<< n, c >>}) =
        ForSummaries(listeners.stack, found.callers) \cup sums
  <2>1. sums = AskedOf(listeners.stack, n) \X {c}
    BY DEF AskedOf
  <2> HIDE DEF sums
  <2>2. \A x : x \in ForSummaries(listeners.stack, found.callers \cup {<< n, c >>}) <=>
                x \in ForSummaries(listeners.stack, found.callers)
                  \/ x \in AskedOf(listeners.stack, n) \X {c}
    BY ForSummariesOfCaller, Zenon
  <2> QED BY <2>1, <2>2
<1> HIDE DEF heard, sums
<1>3. /\ found'.flows = found.flows /\ found'.summaries = found.summaries
      /\ found'.reached = found.reached /\ found'.callers = found.callers \cup {<< n, c >>}
  BY <1>1 DEF TypeInv, Found
<1>4. Within'
  BY <1>3 DEF ObjectInv, Within
<1>5. Exact(updates') /\ OfSeed(updates')
  <2>1. /\ {<< n, c >>} \in SUBSET (NonOne \X Stmt)
        /\ \A p \in {<< n, c >>} : p[2] \in {p[1][1]} \cup Callers[p[1]]
    BY EnvironmentAssumption
  <2>2. CASE updates' = updates
    BY <2>2 DEF ObjectInv
  <2>3. CASE updates' = AddAffected(updates, {<< n, c >>})
    BY <2>1, <2>3, AddAffectedExact DEF ObjectInv, TypeInv
  <2> QED BY <1>1, <2>2, <2>3
<1>6. new = {} \cup Returned(found.summaries, sums)
  OBVIOUS
<1> HIDE DEF new
<1>7. /\ listeners'.stack = listeners.stack /\ listeners'.alias = listeners.alias \cup new
      /\ listeners'.summary = listeners.summary \cup sums
  BY <1>1 DEF TypeInv, Listeners
<1>8. Left(listeners', found')
  <2>1. /\ Left(listeners, found)
        /\ ForSummaries(listeners.stack, found.callers) = listeners.summary
        /\ \A l \in listeners.stack : l[2] \subseteq SitesOf(l[1])
    BY DEF ObjectInv, Left
  <2>2. ForSummaries(listeners.stack, found'.callers) = listeners.summary \cup sums
    BY <1>2, <1>3, <2>1, Zenon
  <2>3. ForSummaries(listeners'.stack, found'.callers) = listeners'.summary
    BY <1>7, <2>2, Zenon
  <2>4. Returned(found.summaries, listeners.summary \cup sums) =
          Returned(found.summaries, listeners.summary) \cup Returned(found.summaries, sums)
    BY ReturnedOfMore
  <2>5. Returned(found'.summaries, listeners'.summary) =
          Returned(found.summaries, listeners.summary) \cup Returned(found.summaries, sums)
    BY <1>3, <1>7, <2>4, Zenon
  <2>6. listeners.alias =
          Direct(listeners.stack) \cup Returned(found.summaries, listeners.summary)
    BY <2>1 DEF Left
  <2>7. listeners'.alias =
          Direct(listeners'.stack) \cup Returned(found'.summaries, listeners'.summary)
    BY <1>6, <1>7, <2>5, <2>6
  <2> QED BY <1>7, <2>1, <2>3, <2>7 DEF Left
<1>9. Heard'
  BY <1>1, <1>3, <1>7, HeardOfMore DEF ObjectInv
<1> QED
  BY <1>4, <1>5, <1>8, <1>9 DEF ObjectInv

LEMMA EndQueryExact ==
  ASSUME TypeInv, Inv, ObjectInv, EndQuery
  PROVE  ObjectInv'
<1>1. PICK q \in Asking : q = Head(queries) /\ OfNode(q)
  <2>1. queries \in Seq(Asking) /\ queries # << >>
    BY DEF EndQuery, TypeInv
  <2>2. PICK f \in Asking : f = Head(queries) /\ f = queries[1] /\ Len(queries) \in Nat \ {0}
    BY <2>1, Popped
  <2> QED BY <2>2 DEF TypeInv
<1>2. PICK n \in NonOne : n = q.node
  BY DEF Asking
<1>3. PICK sites : sites = Asked
  OBVIOUS
<1> DEFINE here == { r \in found.reached : r[2] = n }
           weak == SetWeakUpdate(updates, here)
           callers == { p \in found.callers : p[1] = n }
           sums == sites \X { p[2] : p \in callers }
           new == sites \X {n} \cup Returned(found.summaries, sums)
<1>4. /\ updates' = AddAffected(weak, callers)
      /\ listeners' = [listeners EXCEPT !.reach = @ \cup found.solvers \X {n},
                                        !.stack = @ \cup {<< n, sites >>},
                                        !.summary = @ \cup sums, !.alias = @ \cup new]
      /\ AddAliases(found.flows, new) /\ found' = found
  BY <1>1, <1>2, <1>3 DEF EndQuery, Answer
<1>5. sites \subseteq SitesOf(n)
  BY <1>1, <1>2, <1>3 DEF Asked, SitesOf, OfNode
<1>6. Exact(updates') /\ OfSeed(updates')
  <2>1. here \in SUBSET (Alloc \X NonOne) /\ \A p \in here : p[1] \in SitesOf(p[2]) \ {seed}
    BY DEF TypeInv, Found, ObjectInv, Within
  <2>2. /\ callers \in SUBSET (NonOne \X Stmt)
        /\ \A p \in callers : p[2] \in {p[1][1]} \cup Callers[p[1]]
    BY DEF TypeInv, Found, ObjectInv, Within
  <2> HIDE DEF here, callers
  <2>3. Exact(weak) /\ OfSeed(weak)
    BY <2>1, SetWeakUpdateExact DEF ObjectInv, TypeInv
  <2>4. weak \in Updates
    BY <2>1, SetWeakUpdateCloses DEF TypeInv, Inv
  <2> HIDE DEF weak
  <2> QED BY <1>4, <2>2, <2>3, <2>4, AddAffectedExact
<1>7. ForSummaries(listeners.stack \cup {<< n, sites >>}, found.callers) =
        ForSummaries(listeners.stack, found.callers) \cup sums
  <2>1. sums = sites \X CallersOf(found.callers, n)
    BY DEF CallersOf
  <2> HIDE DEF sums
  <2>2. \A x : x \in ForSummaries(listeners.stack \cup {<< n, sites >>}, found.callers) <=>
                \/ x \in ForSummaries(listeners.stack, found.callers)
                \/ x \in sites \X CallersOf(found.callers, n)
    BY ForSummariesOfQuery, Zenon
  <2> QED BY <2>1, <2>2
<1>8. Direct(listeners.stack \cup {<< n, sites >>}) = Direct(listeners.stack) \cup sites \X {n}
  <2>1. \A x : x \in Direct(listeners.stack \cup {<< n, sites >>}) <=>
                x \in Direct(listeners.stack) \/ x \in sites \X {n}
    BY DirectOfMore, Zenon
  <2> QED BY <2>1
<1>9. new = sites \X {n} \cup Returned(found.summaries, sums)
  OBVIOUS
<1> HIDE DEF sums, new, weak
<1>10. /\ listeners'.stack = listeners.stack \cup {<< n, sites >>}
       /\ listeners'.alias = listeners.alias \cup new
       /\ listeners'.summary = listeners.summary \cup sums
  BY <1>4 DEF TypeInv, Listeners
<1>11. Left(listeners', found')
  <2>1. /\ ForSummaries(listeners.stack, found.callers) = listeners.summary
        /\ listeners.alias =
             Direct(listeners.stack) \cup Returned(found.summaries, listeners.summary)
        /\ \A l \in listeners.stack : l[2] \subseteq SitesOf(l[1])
    BY DEF ObjectInv, Left
  <2>2. ForSummaries(listeners'.stack, found'.callers) = listeners'.summary
    BY <1>4, <1>7, <1>10, <2>1, Zenon
  <2>3. Direct(listeners'.stack) = Direct(listeners.stack) \cup sites \X {n}
    BY <1>8, <1>10, Zenon
  <2>4. Returned(found.summaries, listeners.summary \cup sums) =
          Returned(found.summaries, listeners.summary) \cup Returned(found.summaries, sums)
    BY ReturnedOfMore
  <2>5. Returned(found'.summaries, listeners'.summary) =
          Returned(found.summaries, listeners.summary) \cup Returned(found.summaries, sums)
    BY <1>4, <1>10, <2>4, Zenon
  <2>6. listeners'.alias =
          Direct(listeners'.stack) \cup Returned(found'.summaries, listeners'.summary)
    BY <1>9, <1>10, <2>1, <2>3, <2>5
  <2>7. \A l \in listeners'.stack : l[2] \subseteq SitesOf(l[1])
    BY <1>5, <1>10, <2>1
  <2> QED BY <2>2, <2>6, <2>7 DEF Left
<1>12. Heard'
  BY <1>4, <1>10, HeardOfMore DEF ObjectInv
<1> QED
  BY <1>4, <1>6, <1>11, <1>12 DEF ObjectInv, Within

-----------------------------------------------------------------------------
(* The sets the second phase starts from *)

\* When everything is found and no query waits, every node has asked all it has to.
LEMMA FoundAnswered ==
  ASSUME TypeInv, Inv, phase = "object", queries = << >>, found = AllFound,
         NEW n \in NonOne
  PROVE  /\ \A p \in Preds[n] : Asked1(n, p)
         /\ \E l \in listeners.stack : l[1] = n
<1>1. n \in found.nonOne \cap found.empty /\ ~ Asks(n)
  BY DEF AllFound, Asks
<1> QED
  BY <1>1 DEF Inv, AllAsked, Answered

LEMMA FoundAffected ==
  ASSUME TypeInv, Inv, ObjectInv, phase = "object", queries = << >>, found = AllFound,
         NEW n \in NonOne, NEW c
  PROVE  << n, c >> \in updates.affected <=> c \in {n[1]} \cup Callers[n]
<1>1. ASSUME << n, c >> \in updates.affected PROVE c \in {n[1]} \cup Callers[n]
  <2>1. << n, c >>[1] = n /\ << n, c >>[2] = c
    OBVIOUS
  <2> QED BY <1>1, <2>1 DEF ObjectInv, OfSeed
<1>2. << n, n[1] >> \in updates.affected
  <2>1. n \in found.nonOne \cap found.empty
    BY DEF AllFound
  <2> QED BY <2>1 DEF Inv, AllAffected
<1>3. ASSUME c \in Callers[n] PROVE << n, c >> \in updates.affected
  <2>1. c \in Stmt /\ << n, c >> \in found.callers
    BY <1>3, EnvironmentAssumption DEF AllFound
  <2>2. PICK l \in listeners.stack : l[1] = n
    BY FoundAnswered
  <2> QED BY <2>1, <2>2 DEF Inv, AllAffected
<1> QED
  BY <1>1, <1>2, <1>3

LEMMA FoundWeak ==
  ASSUME TypeInv, Inv, ObjectInv, phase = "object", queries = << >>, found = AllFound,
         NEW n \in NonOne
  PROVE  n \in updates.weakNodes <=> MayBeWeak(n)
<1>1. n \in updates.weakNodes => MayBeWeak(n)
  BY DEF ObjectInv, OfSeed
<1>2. ASSUME MayBeWeak(n) PROVE n \in updates.weakNodes
  <2>1. PICK p \in Preds[n] : \E a \in Sites[n][p] : a \notin Null \cup {seed}
    BY <1>2 DEF SitesOf, MayBeWeak
  <2>2. PICK a \in Sites[n][p] : a \notin Null \cup {seed}
    BY <2>1
  <2>3. << a, n >> \in listeners.reach
    BY <2>2, FoundAnswered DEF Asked1
  <2>4. << a, n >> \in found.reached
    BY <2>2 DEF AllFound, SitesOf
  <2> QED BY <2>2, <2>3, <2>4 DEF AllWeak, Inv
<1> QED
  BY <1>1, <1>2

LEMMA FoundUpdates ==
  ASSUME TypeInv, Inv, ObjectInv, phase = "object", queries = << >>, found = AllFound
  PROVE  /\ updates.potential = UNION { Affects(n) : n \in NonOne }
         /\ updates.weak =
              UNION { Affects(n) : n \in { k \in NonOne : MayBeWeak(k) } }
<1>1. \A p \in updates.affected : p[1] \in NonOne /\ p = << p[1], p[2] >>
  BY DEF TypeInv, Updates
<1>2. \A n \in NonOne : \A c : << n, c >> \in updates.affected <=> c \in Affects(n)
  BY FoundAffected DEF Affects
<1>3. \A n, c : << n, c >>[1] = n /\ << n, c >>[2] = c
  OBVIOUS
<1>4. updates.potential = Affecting(updates) /\ updates.weak = Weakening(updates)
  BY DEF ObjectInv, Exact
<1>5. Affecting(updates) = UNION { Affects(n) : n \in NonOne }
  <2>1. \A x : x \in Affecting(updates) <=> \E n \in NonOne : x \in Affects(n)
    <3>1. \A x : x \in Affecting(updates) <=> \E p \in updates.affected : x = p[2]
      BY DEF Affecting
    <3>2. ASSUME NEW p \in updates.affected PROVE \E n \in NonOne : p[2] \in Affects(n)
      BY <1>1, <1>2
    <3>3. ASSUME NEW n \in NonOne, NEW x \in Affects(n)
          PROVE  \E p \in updates.affected : x = p[2]
      BY <1>2, <1>3
    <3> QED BY <3>1, <3>2, <3>3
  <2> QED BY <2>1
<1>6. Weakening(updates) = UNION { Affects(n) : n \in { k \in NonOne : MayBeWeak(k) } }
  <2>1. \A n \in NonOne : n \in updates.weakNodes <=> MayBeWeak(n)
    BY FoundWeak
  <2>2. \A x : x \in Weakening(updates) <=>
          \E n \in NonOne : MayBeWeak(n) /\ x \in Affects(n)
    <3>1. \A x : x \in Weakening(updates) <=>
            \E p \in updates.affected : p[1] \in updates.weakNodes /\ x = p[2]
      BY DEF Weakening
    <3>2. ASSUME NEW p \in updates.affected, p[1] \in updates.weakNodes
          PROVE  \E n \in NonOne : MayBeWeak(n) /\ p[2] \in Affects(n)
      BY <1>1, <1>2, <2>1, <3>2
    <3>3. ASSUME NEW n \in NonOne, MayBeWeak(n), NEW x \in Affects(n)
          PROVE  \E p \in updates.affected : p[1] \in updates.weakNodes /\ x = p[2]
      <4>1. << n, x >> \in updates.affected /\ n \in updates.weakNodes
        BY <1>2, <2>1, <3>3
      <4> QED BY <1>3, <4>1
    <3> QED BY <3>1, <3>2, <3>3
  <2> QED BY <2>2
<1> QED
  BY <1>4, <1>5, <1>6

\* The listeners for aliases that are there
LEMMA FoundListeners ==
  ASSUME TypeInv, Inv, ObjectInv, phase = "object", queries = << >>, found = AllFound
  PROVE  listeners.alias = OfNodes \cup OfCalls
<1>1. ASSUME NEW l \in listeners.stack
      PROVE  l[1] \in NonOne /\ l[2] \subseteq SitesOf(l[1])
  BY DEF TypeInv, Listeners, ObjectInv, Left
<1>2. ASSUME NEW n \in NonOne, NEW a \in SitesOf(n)
      PROVE  \E l \in listeners.stack : l[1] = n /\ a \in l[2]
  <2>1. PICK p \in Preds[n] : a \in Sites[n][p]
    BY DEF SitesOf
  <2>2. << n, Sites[n][p] >> \in listeners.stack
    BY FoundAnswered DEF Asked1
  <2>3. << n, Sites[n][p] >>[1] = n /\ << n, Sites[n][p] >>[2] = Sites[n][p]
    OBVIOUS
  <2> QED BY <2>1, <2>2, <2>3
<1>3. ASSUME NEW n \in NonOne PROVE CallersOf(found.callers, n) = Callers[n]
  <2>1. found.callers = UNION { {k} \X Callers[k] : k \in NonOne }
    BY DEF AllFound
  <2>2. \A c : c \in Callers[n] <=> << n, c >> \in found.callers
    BY <2>1
  <2>3. \A p \in found.callers : p = << p[1], p[2] >>
    BY <2>1
  <2>4. \A c : c \in CallersOf(found.callers, n) <=>
                 \E p \in found.callers : p[1] = n /\ c = p[2]
    BY DEF CallersOf
  <2>5. \A c : << n, c >>[1] = n /\ << n, c >>[2] = c
    OBVIOUS
  <2>6. ASSUME NEW c \in CallersOf(found.callers, n) PROVE c \in Callers[n]
    <3>1. PICK p \in found.callers : p[1] = n /\ c = p[2]
      BY <2>4
    <3>2. p = << n, c >>
      BY <2>3, <3>1
    <3> QED BY <2>2, <3>1, <3>2
  <2>7. ASSUME NEW c \in Callers[n] PROVE c \in CallersOf(found.callers, n)
    <3>1. PICK p \in found.callers : p = << n, c >>
      BY <2>2
    <3>2. p[1] = n /\ p[2] = c
      BY <2>5, <3>1
    <3> QED BY <2>4, <3>2
  <2> QED BY <2>6, <2>7
<1>4. Direct(listeners.stack) = OfNodes
  <2>1. ASSUME NEW x \in Direct(listeners.stack) PROVE x \in OfNodes
    <3>1. PICK l \in listeners.stack : x \in l[2] \X {l[1]}
      BY DEF Direct
    <3>2. x \in SitesOf(l[1]) \X {l[1]}
      BY <1>1, <3>1
    <3> QED BY <1>1, <3>2 DEF OfNodes
  <2>2. ASSUME NEW x \in OfNodes PROVE x \in Direct(listeners.stack)
    <3>1. PICK n \in NonOne : x \in SitesOf(n) \X {n}
      BY DEF OfNodes
    <3>2. PICK a \in SitesOf(n) : x = << a, n >>
      BY <3>1
    <3>3. PICK l \in listeners.stack : l[1] = n /\ a \in l[2]
      BY <1>2
    <3>4. x \in l[2] \X {l[1]}
      BY <3>2, <3>3
    <3> QED BY <3>4 DEF Direct
  <2> QED BY <2>1, <2>2
<1>5. ASSUME NEW a, NEW c
      PROVE  << a, c >> \in ForSummaries(listeners.stack, found.callers) <=>
               \E n \in NonOne : a \in SitesOf(n) /\ c \in Callers[n]
  <2>1. << a, c >> \in ForSummaries(listeners.stack, found.callers) <=>
          \E l \in listeners.stack : a \in l[2] /\ c \in CallersOf(found.callers, l[1])
    BY DEF ForSummaries
  <2>2. ASSUME NEW l \in listeners.stack, a \in l[2], c \in CallersOf(found.callers, l[1])
        PROVE  \E n \in NonOne : a \in SitesOf(n) /\ c \in Callers[n]
    BY <1>1, <1>3, <2>2
  <2>3. ASSUME NEW n \in NonOne, a \in SitesOf(n), c \in Callers[n]
        PROVE  \E l \in listeners.stack : a \in l[2] /\ c \in CallersOf(found.callers, l[1])
    <3>1. PICK l \in listeners.stack : l[1] = n /\ a \in l[2]
      BY <1>2, <2>3
    <3> QED BY <1>3, <2>3, <3>1
  <2> QED BY <2>1, <2>2, <2>3
<1>6. /\ listeners.summary = ForSummaries(listeners.stack, found.callers)
      /\ listeners.alias =
           Direct(listeners.stack) \cup Returned(found.summaries, listeners.summary)
  BY DEF ObjectInv, Left
<1>7. Returned(found.summaries, listeners.summary) = OfCalls
  <2>1. \A x : x \in Returned(found.summaries, listeners.summary) <=>
          x \in AllFound.summaries /\ << x[1], x[2][1] >> \in listeners.summary
    BY DEF Returned
  <2>2. \A x : x \in OfCalls <=>
          /\ x \in AllFound.summaries
          /\ \E n \in NonOne : x[1] \in SitesOf(n) /\ x[2][1] \in Callers[n]
    BY DEF OfCalls
  <2>3. \A x : << x[1], x[2][1] >> \in listeners.summary <=>
          \E n \in NonOne : x[1] \in SitesOf(n) /\ x[2][1] \in Callers[n]
    BY <1>5, <1>6
  <2>4. \A x : x \in Returned(found.summaries, listeners.summary) <=> x \in OfCalls
    BY <2>1, <2>2, <2>3
  <2> QED BY <2>4
<1> QED
  BY <1>4, <1>6, <1>7

LEMMA FoundAliases ==
  ASSUME NEW L \in SUBSET (Alloc \X Node)
  PROVE  /\ Told(AllFound.flows, L) =
              { l[2] : l \in { k \in L : \E m \in Flows[k[1]] : m[1] = k[2][1] } }
         /\ Aliases(AllFound.flows, L) =
              UNION { { << l[2], m >> : m \in { k \in Flows[l[1]] :
                                                 k[1] = l[2][1] /\ k # l[2] } } : l \in L }
<1> DEFINE F == AllFound.flows
<1>1. F = UNION { {a} \X Flows[a] : a \in Alloc }
  BY DEF AllFound
<1>2. \A f \in F : f[1] \in Alloc /\ f[2] \in Flows[f[1]]
  BY <1>1
<1>3. ASSUME NEW a \in Alloc, NEW m \in Flows[a]
      PROVE  \E f \in F : f[1] = a /\ f[2] = m
  <2>1. << a, m >> \in F /\ << a, m >>[1] = a /\ << a, m >>[2] = m
    BY <1>1
  <2> QED BY <2>1
<1>4. \A l \in L : l[1] \in Alloc
  OBVIOUS
<1> HIDE DEF F
<1>5. \A l \in L : (\E f \in F : f[1] = l[1] /\ f[2][1] = l[2][1]) <=>
                     \E m \in Flows[l[1]] : m[1] = l[2][1]
  BY <1>2, <1>3, <1>4
<1>6. Told(F, L) = { l[2] : l \in { k \in L : \E m \in Flows[k[1]] : m[1] = k[2][1] } }
  BY <1>5 DEF Told
<1> DEFINE One(l) == { << l[2], f[2] >> : f \in { g \in F : /\ g[1] = l[1] /\ g[2][1] = l[2][1]
                                                          /\ l[2] # g[2] } }
           Of(l) == { << l[2], m >> : m \in { k \in Flows[l[1]] :
                                                 k[1] = l[2][1] /\ k # l[2] } }
<1>7. ASSUME NEW l \in L PROVE One(l) = Of(l)
  <2>1. ASSUME NEW x \in One(l) PROVE x \in Of(l)
    <3>1. PICK f \in F : /\ f[1] = l[1] /\ f[2][1] = l[2][1] /\ l[2] # f[2]
                         /\ x = << l[2], f[2] >>
      OBVIOUS
    <3> QED BY <1>2, <3>1
  <2>2. ASSUME NEW x \in Of(l) PROVE x \in One(l)
    <3>1. PICK m \in Flows[l[1]] : m[1] = l[2][1] /\ m # l[2] /\ x = << l[2], m >>
      OBVIOUS
    <3>2. PICK f \in F : f[1] = l[1] /\ f[2] = m
      BY <1>3, <1>4
    <3> QED BY <3>1, <3>2
  <2> HIDE DEF One, Of
  <2> QED BY <2>1, <2>2
<1>8. Aliases(F, L) = UNION { One(l) : l \in L }
  BY DEF Aliases
<1> HIDE DEF One
<1>9. Aliases(F, L) = UNION { Of(l) : l \in L }
  <2> HIDE DEF Of
  <2>1. \A x : x \in Aliases(F, L) <=> \E l \in L : x \in One(l)
    BY <1>8
  <2>2. \A x : x \in Aliases(F, L) <=> \E l \in L : x \in Of(l)
    BY <1>7, <2>1
  <2> QED BY <2>2
<1> QED
  BY <1>6, <1>9 DEF F

LEMMA FoundAgrees ==
  ASSUME TypeInv, Inv, ObjectInv, phase = "object", queries = << >>, found = AllFound
  PROVE  Agreed
<1> DEFINE heard == OfNodes \cup OfCalls
<1>1. listeners.alias = heard /\ heard \in SUBSET (Alloc \X Node)
  <2>1. listeners.alias = heard
    BY FoundListeners
  <2> HIDE DEF heard
  <2> QED BY <2>1 DEF TypeInv, Listeners
<1> HIDE DEF heard
<1>2. /\ nodesWithStrongUpdate = Told(AllFound.flows, heard)
      /\ indirectAlias = Aliases(AllFound.flows, heard)
  BY <1>1, Zenon DEF ObjectInv, Heard
<1>3. /\ nodesWithStrongUpdate =
           { l[2] : l \in { k \in heard : \E m \in Flows[k[1]] : m[1] = k[2][1] } }
      /\ indirectAlias =
           UNION { { << l[2], m >> : m \in { k \in Flows[l[1]] :
                                              k[1] = l[2][1] /\ k # l[2] } } : l \in heard }
  BY <1>1, <1>2, FoundAliases
<1>4. /\ updates.potential = UNION { Affects(n) : n \in NonOne }
      /\ updates.weak = UNION { Affects(n) : n \in { k \in NonOne : MayBeWeak(k) } }
  BY FoundUpdates
<1> QED
  BY <1>3, <1>4, Zenon DEF Agreed, heard

LEMMA NextExact == TypeInv /\ Inv /\ ExactInv /\ [Next]_vars => ExactInv'
<1> SUFFICES ASSUME TypeInv, Inv, ExactInv, [Next]_vars PROVE ExactInv'
  OBVIOUS
<1>1. phase' = "object" => PhasesAgree'
  BY DEF PhasesAgree
<1>2. ASSUME phase = "object", phase' = phase, ObjectInv' PROVE ExactInv'
  BY <1>1, <1>2 DEF ExactInv
<1>3. phase = "object" => ObjectInv
  BY DEF ExactInv
<1>4. ASSUME NEW n \in NonOne, FindNonOne(n) \/ ReachEmpty(n) PROVE ExactInv'
  <2>1. /\ phase = "object" /\ Trigger(n)
        /\ found' = [found EXCEPT !.nonOne = @ \cup {n}]
             \/ found' = [found EXCEPT !.empty = @ \cup {n}]
    BY <1>4 DEF FindNonOne, ReachEmpty
  <2>2. /\ found'.flows = found.flows /\ found'.summaries = found.summaries
        /\ found'.reached = found.reached /\ found'.callers = found.callers
    BY <2>1 DEF TypeInv, Found
  <2>3. phase' = phase
    BY <2>1 DEF Trigger, rest
  <2> QED BY <1>2, <1>3, <2>1, <2>2, <2>3, TriggerExact
<1>5. ASSUME NEW a \in Alloc, FindAllocation(a) PROVE ExactInv'
  BY <1>2, <1>3, <1>5, FindAllocationExact DEF FindAllocation, rest
<1>6. ASSUME NEW a \in Alloc, NEW m, FindFlow(a, m) PROVE ExactInv'
  BY <1>2, <1>3, <1>6, FindFlowExact DEF FindFlow
<1>7. ASSUME NEW a \in Alloc, NEW m, FindSummary(a, m) PROVE ExactInv'
  BY <1>2, <1>3, <1>7, FindSummaryExact DEF FindSummary
<1>8. ASSUME NEW n \in NonOne, NEW a \in SitesOf(n) \ {seed}, ReachNode(a, n)
      PROVE  ExactInv'
  <2>1. a \in Alloc
    BY EnvironmentAssumption DEF SitesOf
  <2> QED BY <1>2, <1>3, <1>8, <2>1, ReachNodeExact DEF ReachNode
<1>9. ASSUME NEW n \in NonOne, NEW c \in Callers[n], FindCaller(n, c) PROVE ExactInv'
  BY <1>2, <1>3, <1>9, FindCallerExact DEF FindCaller
<1>10. ASSUME EndQuery PROVE ExactInv'
  BY <1>2, <1>3, <1>10, EndQueryExact DEF EndQuery, Answer
<1>11. ASSUME EndPhase1 PROVE ExactInv'
  <2>1. Agreed
    BY <1>3, <1>11, FoundAgrees DEF EndPhase1
  <2>2. UNCHANGED << updates, indirectAlias, nodesWithStrongUpdate >> /\ phase' = "value"
    BY <1>11 DEF EndPhase1
  <2>3. Agreed'
    BY <2>1, <2>2 DEF Agreed
  <2> QED BY <2>2, <2>3 DEF ExactInv, PhasesAgree
<1>12. ASSUME phase' \in {"value", "done"}, phase \in {"value", "done"},
              UNCHANGED << updates, indirectAlias, nodesWithStrongUpdate >>
       PROVE  ExactInv'
  BY <1>12 DEF ExactInv, PhasesAgree, Agreed
<1>13. ASSUME \/ \E r \in Rules : AddRule(r)
              \/ \E m \in value : IndirectFlow(m)
              \/ EndPhase2
       PROVE  ExactInv'
  BY <1>12, <1>13 DEF AddRule, IndirectFlow, EndPhase2
<1>14. ASSUME StopPhase1 PROVE ExactInv'
  BY <1>14 DEF StopPhase1, ExactInv, PhasesAgree
<1>15. CASE UNCHANGED vars
  BY <1>15 DEF vars, ExactInv, ObjectInv, PhasesAgree, Agreed, Left, Heard, Within
<1> QED
  BY <1>4, <1>5, <1>6, <1>7, <1>8, <1>9, <1>10, <1>11, <1>13, <1>14, <1>15
     DEF Next, Solve

-----------------------------------------------------------------------------
(* The theorems *)

\* What is found, left with the solvers and updated is about the nodes and allocations
\* of the seed's flow, and a query is asked from a statement before its node
\* (IDEALSeedSolver.runPhase, TriggerBackwardQuery).
THEOREM TypesKept == Spec => []TypeInv
  BY InitInv, NextInv, PTL DEF Spec

\* In every reachable state, whatever the program, the flows prevented are those at
\* statements whose receivers, and those of the calls below them, point to the seed's
\* object or null in all branches (isStrongUpdateStatement, setWeakUpdate).
THEOREM UpdatesKillAlone == Spec => []KilledOnlyAlone
<1>1. Inv => KilledOnlyAlone
  BY DEF Inv
<1> QED
  BY <1>1, InitInv, NextInv, PTL DEF Spec

\* When no query was stopped the second phase starts from the same sets for every order
\* of weights, fields, allocations, flows, summaries, callers and nested queries, whatever
\* the program: they are a function of what Boomerang finds (addAffectedPotentialStrong-
\* Update, setWeakUpdate, the two injectAliases).
THEOREM OrderDoesNotMatter == Spec => []PhasesAgree
<1>1. ExactInv => PhasesAgree
  BY DEF ExactInv
<1> QED
  BY <1>1, InitInv, InitExact, NextInv, NextExact, PTL DEF Spec
=============================================================================
