----------------------------- MODULE Saturation -----------------------------
(***************************************************************************)
(* What a pushdown system promises the solvers built on it: its automaton  *)
(* takes up, one by one and in any order, the transitions that its rules   *)
(* derive from transitions it has, and in the end it has them all.  There  *)
(* are no weights, no call stack and no loops here; PostStar implements    *)
(* this module.                                                            *)
(***************************************************************************)
CONSTANTS
  Control, Symbol,   \* states rules mention, stack alphabet
  Epsilon, Empties,  \* fa.epsilon(), the symbols whose class implements Empty
  Any,               \* a Wildcard
  Subsumes,          \* pairs of different symbols, the first accepts the second
  Rules, Seeds,      \* rules and transitions the clients may add
  Rejected           \* transitions the automaton does not take

VARIABLES
  rules,  \* the rules that have been added
  seeds,  \* the transitions clients have added
  trans,  \* the transitions of the automaton
  pops    \* where pop rules wait: at s1, and behind Empty transitions from it

vars == << rules, seeds, trans, pops >>

Generated == Control \X Symbol
Tr(s, a, q) == [start |-> s, label |-> a, target |-> q]
Pop(q, a, p) == [state |-> q, label |-> a, start |-> p]

-----------------------------------------------------------------------------
Accepts(a, b) == a = b \/ << a, b >> \in Subsumes
Label(x, t) == IF x = Any THEN t.label ELSE x

NormalDerives(r, t) ==
  IF t.label \in r.excl \/ (r.l2 = Any /\ t.label = Epsilon) THEN {}
  ELSE { Tr(r.s2, Label(r.l2, t), t.target) }

PushDerives(r, t) ==
  IF r.site = Any /\ t.label = Epsilon THEN {}
  ELSE { Tr(<< r.s2, r.l2 >>, Label(r.site, t), t.target),
         Tr(r.s2, r.l2, << r.s2, r.l2 >>) }

\* What normal and push rules derive.
RuleDerives(rs, T) ==
  UNION { IF x[1].kind = "normal" THEN NormalDerives(x[1], x[2])
          ELSE IF x[1].kind = "push" THEN PushDerives(x[1], x[2]) ELSE {} :
            x \in { x \in rs \X T :
                      x[2].start = x[1].s1 /\ x[1].l1 \in {x[2].label, Any} } }

\* The transitions T that a waiting pop takes into a generated state.
Popped(T, P) ==
  { x \in P \X T :
      /\ x[2].start = x[1].state /\ x[2].target \in Generated
      /\ Accepts(x[2].label, x[1].label) \/ Accepts(x[1].label, x[2].label) }

PopDerives(T, P) ==
  { Tr(x[1].start, Epsilon, x[2].target) : x \in Popped(T, P) }

\* An eps transition passes on what leaves its target.
EpsilonDerives(T) ==
  { Tr(x[1].start, x[2].label, x[2].target) :
      x \in { x \in T \X T : x[1].label = Epsilon /\ x[2].start = x[1].target } }

Derived(rs, T, P) == RuleDerives(rs, T) \cup PopDerives(T, P) \cup EpsilonDerives(T)

Waiting(rs, T, P) ==
  { Pop(r.s1, r.l1, r.s2) : r \in { r \in rs : r.kind = "pop" } }
  \cup { Pop(x[2].target, x[1].label, x[1].start) :
           x \in { x \in P \X T : x[2].start = x[1].state /\ x[2].label \in Empties } }

-----------------------------------------------------------------------------
Init == rules = {} /\ seeds = {} /\ trans = {} /\ pops = {}

AddRules ==
  /\ rules' \in SUBSET Rules /\ rules \subseteq rules'
  /\ UNCHANGED << seeds, trans, pops >>

AddSeed ==
  /\ \E t \in Seeds : seeds' = seeds \cup {t}
  /\ UNCHANGED << rules, trans, pops >>

Due == ((seeds \cup Derived(rules, trans, pops)) \ trans) \ Rejected

Take ==
  /\ \E t \in Due : trans' = trans \cup {t}
  /\ UNCHANGED << rules, seeds, pops >>

Wait ==
  /\ \E x \in Waiting(rules, trans, pops) \ pops : pops' = pops \cup {x}
  /\ UNCHANGED << rules, seeds, trans >>

\* The automaton has everything its rules derive.
Closed == Due = {} /\ Waiting(rules, trans, pops) \subseteq pops

Next == AddRules \/ AddSeed \/ Take \/ Wait

Spec == Init /\ [][Next]_vars /\ WF_vars(Take \/ Wait)

=============================================================================
