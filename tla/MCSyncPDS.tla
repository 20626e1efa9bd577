------------------------------ MODULE MCSyncPDS ------------------------------
(***************************************************************************)
(* Instances of SyncPDS for TLC, and a reference for the nodes it reaches: *)
(* the least set of nodes that both pushdown systems reach with the rules  *)
(* the set itself gives rise to.                                           *)
(***************************************************************************)
EXTENDS SyncPDS

CONSTANTS s1, s2, s3, s4, s5, u, v, w, p, q, x, y, f, g, epsS, epsF, none, any, call0, field0, l1, l2

MCCallStart == << s1, u >>
Succ(n) == [kind |-> "normal", node |-> n]
PushF(fld, n) == [kind |-> "pushField", node |-> n, field |-> fld]
PopF(fld, n) == [kind |-> "popField", node |-> n, field |-> fld]
Excl(fld, n) == [kind |-> "exclusion", node |-> n, field |-> fld]
PushCall(site, n) == [kind |-> "pushCall", node |-> n, site |-> site]
Return(fact) == [kind |-> "popCall", fact |-> fact]

FlowOf(pairs) ==
  [n \in Node |-> { e[2] : e \in { e \in pairs : e[1] = n } }]
ReturnedOf(pairs) ==
  [k \in Stmt \X Stmt \X Fact |-> { e[2] : e \in { e \in pairs : e[1] = k } }]

\* u is passed to a callee that stores g into it and returns it as w.  The
\* caller overwrites f, which passes the g on, and g, which does not; it loads
\* the g once, and fails to load it again.
CallFlow == FlowOf({
  << << s1, u >>, PushCall(s4, << s2, p >>) >>,
  << << s2, p >>, PushF(g, << s3, q >>) >>,
  << << s3, q >>, Return(q) >>,
  << << s4, w >>, Excl(f, << s5, w >>) >>,
  << << s4, w >>, Excl(g, << s5, y >>) >>,
  << << s5, w >>, PopF(g, << s5, x >>) >>,
  << << s5, x >>, PopF(g, << s5, p >>) >> })
CallReturned == ReturnedOf({ << << s4, s3, q >>, << s4, w >> >> })

\* Two callers of one callee, one with the field f set.  After the
\* call at s4 only the f comes back: a solver may refuse the empty field there.
JoinFlow == FlowOf({
  << << s1, u >>, PushF(f, << s2, v >>) >>,
  << << s1, u >>, PushCall(s5, << s3, p >>) >>,
  << << s2, v >>, PushCall(s4, << s3, p >>) >>,
  << << s3, p >>, Return(p) >>,
  << << s4, x >>, PopF(f, << s4, u >>) >> })
JoinPrevented == { Tr(<< s4, x >>, none, field0) }
JoinReturned == ReturnedOf({ << << s4, s3, p >>, << s4, x >> >> })

\* A listener to the node of the second load's base, whose field the first
\* load has popped.
WatchLoad == [l \in {l2} |-> << s5, x >>]
NoWatchers == [n \in {} |-> << s1, u >>]
-----------------------------------------------------------------------------
(* The reference *)

RECURSIVE CloseCalls(_, _, _), CloseFields(_, _, _), LeastReached(_, _)

\* What the call system makes of the rules rs: transitions and waiting pops.
CloseCalls(rs, T, P) ==
  LET T2 == T \cup (C!Derived(rs, T, P) \ SelfLoops(EpsilonStmt, CallState))
      P2 == P \cup C!Waiting(rs, T, P)
  IN  IF T2 = T /\ P2 = P THEN << T, P >> ELSE CloseCalls(rs, T2, P2)

CloseFields(rs, T, P) ==
  LET T2 == T \cup (F!Derived(rs, T, P) \ (Prevented \cup SelfLoops(EpsilonField, FieldState)))
      P2 == P \cup F!Waiting(rs, T, P)
  IN  IF T2 = T /\ P2 = P THEN << T, P >> ELSE CloseFields(rs, T2, P2)

Elements(s) == { s[i] : i \in 1..Len(s) }
RulesIn(cs, op) == { c.rule : c \in { c \in cs : c.op = op } }

\* The calls the nodes ns and the summaries of the call system make.
CallsFor(ns, summaries) ==
  LET own == UNION { Elements(Propagate(n, s)) : << n, s >> \in
                       UNION { { << n, s >> : s \in Flow[n] } : n \in ns } }
      ls == { c.l : c \in { c \in own : c.op = "summaryListener" } }
  IN  own \cup UNION { UNION { Elements(a) : a \in AddedSummary(z[1], z[2]) } :
                         z \in ls \X summaries }

\* The nodes reached when ns are known to be, from what they give rise to.
LeastReached(ns, summaries) ==
  LET cs == CallsFor(ns, summaries)
      calling == CloseCalls(RulesIn(cs, "callRule"),
                            {Tr(Start[2], Start[1], CallTarget)}, {})
      field == CloseFields(RulesIn(cs, "fieldRule"),
                           {Tr(Start, EmptyField, FieldTarget)}, {})
      ns2 == ns \cup
        { n \in Node :
            /\ \E t \in calling[1] : t.start = n[2] /\ t.label = n[1]
            /\ \E t \in field[1] : t.start = n /\ t.label # EpsilonField }
      summaries2 == { z[2] : z \in C!Popped(calling[1], calling[2]) }
  IN  IF ns2 = ns /\ summaries2 = summaries THEN ns
      ELSE LeastReached(ns2, summaries2)

Reached == LeastReached({Start}, {})

(* The nodes reached are those of the least solution, whatever the order   *)
(* of the notifications (SyncPDSSolver).                                   *)
QuietIsSynchronized == Quiet => reachedStates = Reached

(* Along the way no node is reached that is not in the least solution.     *)
WithinSynchronized == reachedStates \subseteq Reached

=============================================================================
