----------------------------- MODULE MCPostStar -----------------------------
(***************************************************************************)
(* Instances of PostStar for TLC, and a reference for what poststar is to  *)
(* compute: the textbook saturation of Reps, Schwoon, Jha and Melski as a  *)
(* least fixed point, without listeners, stacks or orders.                 *)
(***************************************************************************)
EXTENDS ReachabilityListeners, FiniteSetsExt

CONSTANTS
  p, q, fin, a, b, c, eps, none, any,
  Programs  \* records of what the clients may add, and when

VARIABLE program  \* what the clients add: chosen at the start

\* Weights are the transition functions on two typestates that mention both.
TypeStates == {0, 1}
TF == INSTANCE TransitionFunctions WITH TypeState <- TypeStates
MCWeights == TF!Total
MCOne == TF!one
Go == TF!Fun({ << 0, 1 >>, << 1, 1 >> })
Back == TF!Fun({ << 0, 0 >>, << 1, 0 >> })
Swap == TF!Fun({ << 0, 1 >>, << 1, 0 >> })
Stay == TF!Fun({ << 0, 0 >>, << 0, 1 >>, << 1, 1 >> })
ExtendWith(u, v) == TF!ExtendWith(u, v)
CombineWith(u, v) == TF!CombineWith(u, v)

Normal(s1, l1, s2, l2, w) ==
  [kind |-> "normal", s1 |-> s1, l1 |-> l1, s2 |-> s2, l2 |-> l2,
   excl |-> {}, w |-> w]
Push(s1, l1, s2, l2, site, w) ==
  [kind |-> "push", s1 |-> s1, l1 |-> l1, s2 |-> s2, l2 |-> l2,
   site |-> site, w |-> w]
PopR(s1, l1, s2, w) ==
  [kind |-> "pop", s1 |-> s1, l1 |-> l1, s2 |-> s2, w |-> w]

MCControl == {p, q, fin}
MCSymbol == {a, b, c, eps, none}
MCEmpties == {eps, none}
MCUnbalanced == {fin}

Copy(s1, s2, excl, w) ==
  [kind |-> "normal", s1 |-> s1, l1 |-> any, s2 |-> s2, l2 |-> any,
   excl |-> excl, w |-> w]

\* A call at a to c, which returns to b as q; b is itself a return, out of the
\* method the query starts in.  The seed comes a second time with more weight.
CallRules == { Push(p, a, p, c, b, Swap), PopR(p, c, q, Stay), PopR(q, b, q, Go) }
CallSeeds == { << Tr(p, a, fin), MCOne >>, << Tr(p, a, fin), Go >> }

\* The callee c calls itself and returns to b, whose pop follows eps transitions.
RecursionRules == { Push(p, a, p, c, b, MCOne), Push(p, c, p, c, b, Go),
                    PopR(p, c, q, Back), PopR(q, b, q, MCOne) }
RecursionSeeds == { << Tr(p, a, fin), MCOne >> }

\* Field accesses: a store pushes a on whatever is there, a load pops it, and an
\* assignment copies every access path but those that start with b.
FieldRules == { Push(p, any, q, a, any, MCOne), PopR(q, a, p, Go),
                Copy(p, q, {b}, Back) }
FieldSeeds == { << Tr(p, c, fin), MCOne >>, << Tr(p, b, fin), Go >> }

\* Calls nest: << q, c >>, << q, a >> and << q, b >> are one, two and three
\* transitions away from fin, and with a depth bound of 2 the last is cut off;
\* the second seed is a short way into << q, b >>.
DepthRules == { Push(p, a, q, c, b, MCOne), Push(q, c, q, a, b, Go),
                Push(q, a, q, b, c, Back) }
DepthSeeds == { << Tr(p, a, fin), MCOne >>, << Tr(q, a, fin), Go >> }

\* No rules: the clients add the edges of a graph, a cycle of empty fields and a
\* way out of it and back, and listen behind two of its states.
GraphSeeds ==
  { Tr(p, none, q), Tr(q, none, p), Tr(q, a, fin), Tr(fin, b, q) } \X {MCOne}

\* Between calls clients may always run; `depth' bounds for TLC how deep inside
\* loops they may, which for "call" is deeper than the stack grows.
OrderPrograms ==
  [call |-> [rules |-> CallRules, seeds |-> CallSeeds, depth |-> 20, watch |-> {}],
   recursion |-> [rules |-> RecursionRules, seeds |-> RecursionSeeds, depth |-> 1, watch |-> {}],
   field |-> [rules |-> FieldRules, seeds |-> FieldSeeds, depth |-> 2, watch |-> {}],
   graph |-> [rules |-> {}, seeds |-> GraphSeeds, depth |-> 1, watch |-> {p, fin}]]
DepthPrograms ==
  [nested |-> [rules |-> DepthRules, seeds |-> DepthSeeds, depth |-> 2, watch |-> {}]]
AllRules == UNION { Programs[i].rules : i \in DOMAIN Programs }
AllSeeds == UNION { Programs[i].seeds : i \in DOMAIN Programs }

ProgramClient(i) ==
  \/ Idle /\ Programs[i].rules # {} /\ StartPostStar /\ UNCHANGED visitor
  \/ /\ Len(stack) <= Programs[i].depth
     /\ \/ Idle /\ (\E r \in Programs[i].rules : AddRule(r)) /\ UNCHANGED visitor
        \/ Idle /\ (\E x \in Programs[i].seeds : AddSeed(x)) /\ UNCHANGED visitor
        \/ \E s \in Programs[i].watch : RegisterDFSListener(s)

ProgramInit ==
  /\ Init /\ program \in DOMAIN Programs
  /\ visitor \in { NewVisitor(k) : k \in IF Programs[program].watch = {} THEN {"dfs"}
                                          ELSE {"dfs", "epsilon"} }
ProgramNext == (ProgramClient(program) \/ VisitedEngine) /\ UNCHANGED program
ProgramSpec ==
  ProgramInit /\ [][ProgramNext]_<< visited, program >> /\ WF_visited(VisitedEngine)

-----------------------------------------------------------------------------
(* The reference: functions from transitions to weights                    *)

Offer(S, t, w) ==
  IF SelfLoop(t) THEN S
  ELSE [x \in DOMAIN S \cup {t} |->
          IF x # t THEN S[x] ELSE IF t \in DOMAIN S THEN Combine(S[t], w) ELSE w]

Label(x, t) == IF x = Any THEN t.label ELSE x

\* What one rule derives from the weight w of one transition.
ByRule(r, t, w) ==
  CASE r.kind = "normal" ->
         IF \/ t.label \in r.excl
            \/ r.l2 = Any /\ t.label = Epsilon
         THEN {}
         ELSE { << Tr(r.s2, Label(r.l2, t), t.target), Extend(w, r.w) >> }
    [] r.kind = "push" ->
         IF r.site = Any /\ t.label = Epsilon THEN {}
         ELSE { << Tr(<< r.s2, r.l2 >>, Label(r.site, t), t.target),
                   Extend(w, r.w) >>,
                << Tr(r.s2, r.l2, << r.s2, r.l2 >>), One >> }
    [] r.kind = "pop" ->
         IF t.target \in Generated
         THEN { << Tr(r.s2, Epsilon, t.target), Extend(w, r.w) >> }
         ELSE {}

Applies(S, r, t, detour) ==
  /\ r.l1 \in {t.label, Any}
  /\ \/ t.start = r.s1
     \/ detour /\ r.kind = "pop" /\ Tr(r.s1, Epsilon, t.start) \in DOMAIN S

Derived(S, rs, detour) ==
  UNION ( { IF Applies(S, r, t, detour) THEN ByRule(r, t, S[t]) ELSE {} :
              r \in rs, t \in DOMAIN S }
          \cup { IF e.label = Epsilon /\ t.start = e.target
                 THEN { << Tr(e.start, t.label, t.target), Extend(S[t], S[e]) >> }
                 ELSE {} : e \in DOMAIN S, t \in DOMAIN S } )

RECURSIVE LeastFixpoint(_, _, _)
LeastFixpoint(S, rs, detour) ==
  LET next == FoldSet(LAMBDA x, acc : Offer(acc, x[1], x[2]), S,
                      Derived(S, rs, detour))
  IN  IF next = S THEN S ELSE LeastFixpoint(next, rs, detour)

SeedWeights == FoldSet(LAMBDA s, acc : Offer(acc, s[1], s[2]), << >>, seeded)
Textbook(rs) == LeastFixpoint(SeedWeights, rs, FALSE)

\* HandlePopListener follows an eps transition to its target and applies the
\* pop rule there, without the weight of the eps transition.
WithDetours(rs) == LeastFixpoint(SeedWeights, rs, TRUE)

Known == IF started THEN rules ELSE {}

(* When no call is in progress the automaton has exactly the transitions   *)
(* of the textbook's poststar, whatever order the rules, the seeds and the *)
(* notifications came in, and its weights are a function of the rules and  *)
(* seeds alone and absorb the textbook's: HandlePopListener adds the       *)
(* detour above, it loses none (PostStar, WeightedPAutomaton).             *)
QuietIsPostStar ==
  stack = << >> =>
    /\ DOMAIN weight = DOMAIN Textbook(Known)
    /\ weight = WithDetours(Known)
    /\ \A t \in DOMAIN weight : Leq(Textbook(Known)[t], weight[t])

(* ... and the unbalanced pops reported are those of the pop rules that    *)
(* read a transition into an initial state, with its final weight          *)
(* (WeightedPAutomaton.unbalancedPop).                                     *)
QuietPops ==
  stack = << >> =>
    LET pops(r) == { t \in DOMAIN weight :
                       /\ t.label = r.l1 /\ t.target \in Unbalanced
                       /\ \/ t.start = r.s1
                          \/ Tr(r.s1, Epsilon, t.start) \in DOMAIN weight }
        all == UNION { { << r.s2, t >> : t \in pops(r) } :
                         r \in { r \in Known : r.kind = "pop" } }
    IN  unbalancedPops = [x \in all |-> weight[x[2]]]

(* With a depth bound, what is cut off (BoundedDepth) is all that is lost: *)
(* the bounded automaton is part of the unbounded one, with weights that   *)
(* are part of its weights.                                                *)
WithinPostStar ==
  stack = << >> =>
    /\ DOMAIN weight \subseteq DOMAIN Textbook(Known)
    /\ \A t \in DOMAIN weight : Leq(weight[t], WithDetours(Known)[t])

-----------------------------------------------------------------------------
\* What PostStar promises, without weights, calls and loops.
Promise == INSTANCE Saturation WITH
  Seeds <- { s[1] : s \in Seeds },
  Rejected <- { Tr(x, Epsilon, x) : x \in State },
  rules <- Known,
  seeds <- { s[1] : s \in seeded },
  trans <- DOMAIN weight,
  pops <- { [state |-> l.state, label |-> l.label, start |-> l.start] :
              l \in { l \in listeners : l.kind = "pop" } }

(* PostStar implements Saturation: it only takes up derived transitions,   *)
(* one at a time, and ends with all of them (PostStar, WeightedPAutomaton, *)
(* WeightedPushdownSystem).                                                *)
ImplementsSaturation == Promise!Spec

=============================================================================
