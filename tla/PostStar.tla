------------------------------ MODULE PostStar ------------------------------
(***************************************************************************)
(* The saturation engine of the solver: a weighted pushdown system         *)
(* (wpds.impl.WeightedPushdownSystem), the weighted P-automaton it         *)
(* saturates (wpds.impl.WeightedPAutomaton) and the listeners that drive   *)
(* the saturation (wpds.impl.PostStar), without nested summary automata.   *)
(*                                                                         *)
(* Everything runs on one thread, but nothing runs in a fixed order: a     *)
(* call that changes the automaton calls listeners, whose handlers call    *)
(* the automaton again, and every loop walks a snapshot of a hash          *)
(* collection.  The Java call stack is the variable `stack': its first     *)
(* element is the call or the loop that runs now, and a loop may pick any  *)
(* of its remaining elements.                                              *)
(***************************************************************************)
EXTENDS Integers, Sequences, Functions

CONSTANTS
  Control,          \* the states rules mention and the final states
  Symbol,           \* the stack alphabet
  Epsilon,          \* the symbol fa.epsilon()
  Empties,          \* the symbols whose class implements Empty
  Any,              \* a Wildcard, found in rules only
  Subsumes,         \* pairs <<a, b>> of different symbols with a.accepts(b)
  Unbalanced,       \* the keys of initialStatesToSource
  Weights, One,     \* the weight domain ...
  Extend(_, _),     \* ... extendWith ...
  Combine(_, _),    \* ... and combineWith
  Rules,            \* the rules the clients may add
  Seeds,            \* the transitions, with weights, the clients may add
  MaxDepth,         \* getMaxDepth(); no bound unless positive
  ClientDepth       \* bound for TLC: clients call only while the stack is
                    \* no deeper than this

VARIABLES
  rules,            \* pushRules, popRules and normalRules of the system
  started,          \* poststar has registered its PostStarUpdateListener
  seeded,           \* ghost: the elements of Seeds the clients have added
  weight,           \* transitionToWeights, whose domain is `transitions'
  distance,         \* stateToDistanceToInitial
  listeners,        \* stateListeners, each a key of its own state
  unbalancedPops,   \* unbalancedPops
  stack             \* the calls and loops in progress, innermost first

vars == << rules, started, seeded, weight, distance, listeners,
           unbalancedPops, stack >>

-----------------------------------------------------------------------------
(* States, transitions and symbols *)

Generated == Control \X Symbol
State == Control \cup Generated
Transition == [start : State, label : Symbol, target : State]

Tr(s, a, q) == [start |-> s, label |-> a, target |-> q]

\* PushRule, NormalRule and PopRule; `excl' is what an ExclusionWildcard in
\* place of l2 excludes.
NormalRule == [kind : {"normal"}, s1 : Control, l1 : Symbol \cup {Any},
               s2 : Control, l2 : Symbol \cup {Any}, excl : SUBSET Symbol,
               w : Weights]
PushRule == [kind : {"push"}, s1 : Control, l1 : Symbol \cup {Any},
             s2 : Control, l2 : Symbol, site : Symbol \cup {Any}, w : Weights]
PopRule == [kind : {"pop"}, s1 : Control, l1 : Symbol \ Empties,
            s2 : Control, w : Weights]

Accepts(a, b) == a = b \/ <<a, b>> \in Subsumes

\* u is absorbed by w: combining it into w changes nothing.
Leq(u, w) == Combine(w, u) = w

(***************************************************************************)
(* What the constants must satisfy: a weight domain is an idempotent       *)
(* commutative monoid with a monotone Extend.  A pop rule on an Empty      *)
(* symbol makes HandlePopListener throw, so PopRule has none.              *)
(***************************************************************************)
ASSUME SymbolAssumption ==
  /\ Epsilon \in Empties /\ Empties \subseteq Symbol
  /\ Unbalanced \subseteq Control
  /\ Control \cap Generated = {}
  /\ MaxDepth \in Int /\ ClientDepth \in Nat

ASSUME RuleAssumption ==
  /\ Rules \subseteq NormalRule \cup PushRule \cup PopRule
  /\ Seeds \subseteq Transition \X Weights

ASSUME WeightAssumption ==
  /\ One \in Weights
  /\ \A u, v \in Weights : Extend(u, v) \in Weights
  /\ \A u, v \in Weights : Combine(u, v) \in Weights

ASSUME OrderAssumption ==
  /\ \A u \in Weights : Combine(u, u) = u
  /\ \A u, v \in Weights : Combine(u, v) = Combine(v, u)
  /\ \A u, v, w \in Weights :
        Combine(Combine(u, v), w) = Combine(u, Combine(v, w))
  /\ \A u, v, w \in Weights :
        Leq(u, v) => /\ Leq(Extend(u, w), Extend(v, w))
                     /\ Leq(Extend(w, u), Extend(w, v))

-----------------------------------------------------------------------------
(* Listeners.  Two listeners are equal exactly when their fields are.      *)

PopListener(q, a, p, w) ==
  [kind |-> "pop", state |-> q, label |-> a, start |-> p, w |-> w]
TransitiveListener(p, a, q, w) ==
  [kind |-> "transitive", state |-> q, label |-> a, start |-> p, w |-> w]
RuleListener(r) == [kind |-> r.kind, state |-> r.s1, rule |-> r]

ListenerOf(r) == IF r.kind = "pop" THEN PopListener(r.s1, r.l1, r.s2, r.w)
                                   ELSE RuleListener(r)

Listener ==
  [kind : {"pop"}, state : State, label : Symbol \ Empties, start : Control,
   w : Weights]
  \cup [kind : {"transitive"}, state : State, label : Symbol,
        start : Control, w : Weights]
  \cup { RuleListener(r) : r \in NormalRule \cup PushRule }

(***************************************************************************)
(* The frames of the stack.  Add, Register and Pop are calls that are about *)
(* to run; the others are loops, with what is left of their snapshot.      *)
(***************************************************************************)
Add(t, w) == [op |-> "add", t |-> t, w |-> w]
Register(l) == [op |-> "register", l |-> l]
UnbalancedPop(p, t, w) == [op |-> "pop", p |-> p, t |-> t, w |-> w]

\* The loop over WPAUpdateListeners: clients run; nothing of PostStar's does.
Updated(t, w) == [op |-> "updated", t |-> t, w |-> w]
\* The loop over UnbalancedPopListeners: clients run.
Popped == [op |-> "popped"]
\* The loop over the state listeners of the start of t.
Notify(t, w, ls) == [op |-> "notify", t |-> t, w |-> w, ls |-> ls]
\* The replay of the transitions that were there when l was registered.
Replay(l, ts) == [op |-> "replay", l |-> l, ts |-> ts]
\* The replay of the rules that were there when poststar was called.
RuleLoop(rs) == [op |-> "rules", rs |-> rs]

Frame ==
  [op : {"add", "updated"}, t : Transition, w : Weights]
  \cup [op : {"register"}, l : Listener]
  \cup [op : {"pop"}, p : Control, t : Transition, w : Weights]
  \cup {Popped}
  \cup [op : {"notify"}, t : Transition, w : Weights, ls : SUBSET Listener]
  \cup [op : {"replay"}, l : Listener, ts : SUBSET Transition]
  \cup [op : {"rules"}, rs : SUBSET Rules]

-----------------------------------------------------------------------------
(* onOutTransitionAdded of the four listeners: the calls it makes, in order *)

\* Mutant: a pop does not look behind eps transitions.
PopCallsHere(l, t, w) ==
  IF /\ Accepts(t.label, l.label) \/ Accepts(l.label, t.label)
     /\ t.target \in Generated
  THEN << Add(Tr(l.start, Epsilon, t.target), Extend(w, l.w)),
          Register(TransitiveListener(l.start, t.label, t.target,
                                      Extend(w, l.w))) >>
  ELSE << >>

PopCalls(l, t, w) ==
  LET match == Accepts(t.label, l.label) \/ Accepts(l.label, t.label)
      new == Extend(w, l.w)
  IN  ( IF match /\ t.target \in Generated
        THEN << Add(Tr(l.start, Epsilon, t.target), new),
                Register(TransitiveListener(l.start, t.label, t.target, new)) >>
        ELSE IF match /\ t.target \in Unbalanced
        THEN << UnbalancedPop(l.start, t, w) >>
        ELSE << >> )
      \o
      ( IF t.label \in Empties
        THEN << Register(PopListener(t.target, l.label, l.start, l.w)) >>
        ELSE << >> )

TransitiveCalls(l, t, w) ==
  << Add(Tr(l.start, t.label, t.target), Extend(w, l.w)) >>

\* Mutant: the symbol of the rule is not compared.
MatchesAll(r, t) == TRUE
Matches(r, t) == r.l1 = Any \/ r.l1 = t.label

NormalCalls(r, t, w) ==
  IF /\ Matches(r, t)
     /\ t.label \notin r.excl
     /\ ~ (r.l2 = Any /\ t.label = Epsilon)
  THEN << Add(Tr(r.s2, IF r.l2 = Any THEN t.label ELSE r.l2, t.target),
              Extend(w, r.w)) >>
  ELSE << >>

\* Mutant: the caller's weight enters the summary of the callee as well.
PushCallsTwice(r, t, w) ==
  LET inner == << r.s2, r.l2 >>
  IN  IF Matches(r, t) /\ ~ (r.site = Any /\ t.label = Epsilon)
      THEN << Add(Tr(inner, IF r.site = Any THEN t.label ELSE r.site, t.target),
                  Extend(w, r.w)),
              Add(Tr(r.s2, r.l2, inner), Extend(w, r.w)) >>
      ELSE << >>

PushCalls(r, t, w) ==
  LET inner == << r.s2, r.l2 >>     \* createState
  IN  IF Matches(r, t) /\ ~ (r.site = Any /\ t.label = Epsilon)
      THEN << Add(Tr(inner, IF r.site = Any THEN t.label ELSE r.site, t.target),
                  Extend(w, r.w)),
              Add(Tr(r.s2, r.l2, inner), One) >>
      ELSE << >>

Calls(l, t, w) ==
  CASE l.kind = "pop"        -> PopCalls(l, t, w)
    [] l.kind = "transitive" -> TransitiveCalls(l, t, w)
    [] l.kind = "normal"     -> NormalCalls(l.rule, t, w)
    [] l.kind = "push"       -> PushCalls(l.rule, t, w)

-----------------------------------------------------------------------------
Top == Head(stack)
Running(op) == stack # << >> /\ Top.op = op

\* Clients run between calls, and as listeners inside the loops that reach them.
ClientTurn ==
  /\ stack # << >> => Top.op \in {"updated", "notify", "popped"}
  /\ Len(stack) <= ClientDepth

\* Mutant: a listener is not told of the transitions that are already there.
OutOfNothing(q) == {}
OutOf(q) == { t \in DOMAIN weight : t.start = q }

Init ==
  /\ rules = {} /\ started = FALSE /\ seeded = {}
  /\ weight = << >> /\ distance = << >>
  /\ listeners = {} /\ unbalancedPops = << >>
  /\ stack = << >>

-----------------------------------------------------------------------------
(* The clients: the solvers built on the pushdown system *)

\* WeightedPushdownSystem.addRule and PostStarUpdateListener.onRuleAdded
AddRule(r) ==
  /\ ClientTurn
  /\ r \notin rules
  /\ rules' = rules \cup {r}
  /\ stack' = IF started THEN << Register(ListenerOf(r)) >> \o stack ELSE stack
  /\ UNCHANGED << started, seeded, weight, distance, listeners, unbalancedPops >>

\* PostStar.poststar: registerUpdateListener replays the rules
StartPostStar ==
  /\ stack = << >>
  /\ ~ started
  /\ started' = TRUE
  /\ stack' = << RuleLoop(rules) >>
  /\ UNCHANGED << rules, seeded, weight, distance, listeners, unbalancedPops >>

\* A client calls addWeightForTransition.
AddSeed(s) ==
  /\ ClientTurn
  /\ s \notin seeded
  /\ seeded' = seeded \cup {s}
  /\ stack' = << Add(s[1], s[2]) >> \o stack
  /\ UNCHANGED << rules, started, weight, distance, listeners, unbalancedPops >>

-----------------------------------------------------------------------------
(* WeightedPAutomaton.addWeightForTransition *)

SelfLoop(t) == t.start = t.target /\ t.label = Epsilon

\* computeDistance: the distance it returns and the map it leaves behind.
TargetDistance(t) ==
  IF t.target \in Unbalanced THEN 0
  ELSE IF t.target \in DOMAIN distance THEN distance[t.target] ELSE -1

Closer(t) ==
  /\ TargetDistance(t) >= 0
  /\ t.start \in DOMAIN distance => TargetDistance(t) + 1 < distance[t.start]

Distance(t) ==
  IF TargetDistance(t) = -1 THEN -1
  ELSE IF Closer(t) THEN TargetDistance(t) + 1 ELSE distance[t.start]

\* Mutant: a state is given the distance of its successor.
DistanceAfterSame(t) ==
  IF Closer(t)
  THEN [q \in DOMAIN distance \cup {t.start} |->
          IF q = t.start THEN TargetDistance(t) ELSE distance[q]]
  ELSE distance

DistanceAfter(t) ==
  IF Closer(t)
  THEN [q \in DOMAIN distance \cup {t.start} |->
          IF q = t.start THEN TargetDistance(t) + 1 ELSE distance[q]]
  ELSE distance

\* Mutant: one too many.
TooDeepByOne(t) == MaxDepth > 0 /\ Distance(t) > MaxDepth + 1
TooDeep(t) == MaxDepth > 0 /\ Distance(t) > MaxDepth

\* Mutant: the last weight wins.
CombinedLast(t, w) == w
Combined(t, w) == IF t \in DOMAIN weight THEN Combine(weight[t], w) ELSE w

AddReject(t) ==
  /\ SelfLoop(t) \/ TooDeep(t)
  /\ distance' = IF SelfLoop(t) THEN distance ELSE DistanceAfter(t)
  /\ stack' = Tail(stack)
  /\ UNCHANGED weight

AddAbsorbed(t, w) ==
  /\ ~ SelfLoop(t) /\ ~ TooDeep(t)
  /\ t \in DOMAIN weight /\ Combined(t, w) = weight[t]
  /\ distance' = DistanceAfter(t)
  /\ stack' = Tail(stack)
  /\ UNCHANGED weight

AddChanged(t, w) ==
  /\ ~ SelfLoop(t) /\ ~ TooDeep(t)
  /\ ~ (t \in DOMAIN weight /\ Combined(t, w) = weight[t])
  /\ distance' = DistanceAfter(t)
  /\ weight' = [x \in DOMAIN weight \cup {t} |->
                  IF x = t THEN Combined(t, w) ELSE weight[x]]
  /\ stack' = << Updated(t, Combined(t, w)) >> \o Tail(stack)

AddWeight ==
  /\ Running("add")
  /\ \/ AddReject(Top.t)
     \/ AddAbsorbed(Top.t, Top.w)
     \/ AddChanged(Top.t, Top.w)
  /\ UNCHANGED << rules, started, seeded, listeners, unbalancedPops >>

\* The update listeners are served: the state listeners are read only now.
ServeStateListeners ==
  /\ Running("updated")
  /\ stack' = << Notify(Top.t, Top.w,
                        { l \in listeners : l.state = Top.t.start }) >>
              \o Tail(stack)
  /\ UNCHANGED << rules, started, seeded, weight, distance, listeners,
                  unbalancedPops >>

\* Mutant: the loop does not advance.
DeliverAgain ==
  /\ Running("notify")
  /\ \E l \in Top.ls :
       stack' = Calls(l, Top.t, Top.w) \o stack
  /\ UNCHANGED << rules, started, seeded, weight, distance, listeners,
                  unbalancedPops >>

\* One listener of the snapshot runs, with the weight the loop was entered with.
Deliver ==
  /\ Running("notify")
  /\ \E l \in Top.ls :
       stack' = Calls(l, Top.t, Top.w)
                \o << Notify(Top.t, Top.w, Top.ls \ {l}) >> \o Tail(stack)
  /\ UNCHANGED << rules, started, seeded, weight, distance, listeners,
                  unbalancedPops >>

-----------------------------------------------------------------------------
(* WeightedPAutomaton.registerListener(WPAStateListener) *)

RegisterListener ==
  /\ Running("register")
  /\ IF Top.l \in listeners
     THEN stack' = Tail(stack) /\ UNCHANGED listeners
     ELSE /\ listeners' = listeners \cup {Top.l}
          /\ stack' = << Replay(Top.l, OutOf(Top.l.state)) >> \o Tail(stack)
  /\ UNCHANGED << rules, started, seeded, weight, distance, unbalancedPops >>

\* One transition of the snapshot is replayed, with the weight it has by now.
ReplayTransition ==
  /\ Running("replay")
  /\ \E t \in Top.ts :
       stack' = Calls(Top.l, t, weight[t])
                \o << Replay(Top.l, Top.ts \ {t}) >> \o Tail(stack)
  /\ UNCHANGED << rules, started, seeded, weight, distance, listeners,
                  unbalancedPops >>

-----------------------------------------------------------------------------
\* Mutant: the weight of the first pop is kept.
RecordFirstPop ==
  /\ Running("pop")
  /\ LET e == << Top.p, Top.t >>
     IN  IF e \in DOMAIN unbalancedPops
         THEN stack' = Tail(stack) /\ UNCHANGED unbalancedPops
         ELSE /\ unbalancedPops' =
                   [x \in DOMAIN unbalancedPops \cup {e} |->
                      IF x = e THEN Top.w ELSE unbalancedPops[x]]
              /\ stack' = << Popped >> \o Tail(stack)
  /\ UNCHANGED << rules, started, seeded, weight, distance, listeners >>

\* WeightedPAutomaton.unbalancedPop
RecordUnbalancedPop ==
  /\ Running("pop")
  /\ LET e == << Top.p, Top.t >>
         new == IF e \in DOMAIN unbalancedPops
                THEN Combine(unbalancedPops[e], Top.w) ELSE Top.w
     IN  IF e \in DOMAIN unbalancedPops /\ new = unbalancedPops[e]
         THEN stack' = Tail(stack) /\ UNCHANGED unbalancedPops
         ELSE /\ unbalancedPops' =
                   [x \in DOMAIN unbalancedPops \cup {e} |->
                      IF x = e THEN new ELSE unbalancedPops[x]]
              /\ stack' = << Popped >> \o Tail(stack)
  /\ UNCHANGED << rules, started, seeded, weight, distance, listeners >>

\* WeightedPushdownSystem.registerUpdateListener, one rule of its snapshot
ReplayRule ==
  /\ Running("rules")
  /\ \E r \in Top.rs :
       stack' = << Register(ListenerOf(r)), RuleLoop(Top.rs \ {r}) >> \o Tail(stack)
  /\ UNCHANGED << rules, started, seeded, weight, distance, listeners,
                  unbalancedPops >>

\* A loop that has served its whole snapshot returns.
Return ==
  /\ \/ Running("notify") /\ Top.ls = {}
     \/ Running("replay") /\ Top.ts = {}
     \/ Running("rules") /\ Top.rs = {}
     \/ Running("popped")
  /\ stack' = Tail(stack)
  /\ UNCHANGED << rules, started, seeded, weight, distance, listeners,
                  unbalancedPops >>

-----------------------------------------------------------------------------
Client == StartPostStar \/ (\E r \in Rules : AddRule(r))
                        \/ (\E s \in Seeds : AddSeed(s))

Engine == \/ AddWeight \/ ServeStateListeners \/ Deliver
          \/ RegisterListener \/ ReplayTransition
          \/ RecordUnbalancedPop \/ ReplayRule \/ Return

Next == Client \/ Engine

Spec == Init /\ [][Next]_vars

\* A call on the stack of a running thread is executed.
FairSpec == Spec /\ WF_vars(Engine)

-----------------------------------------------------------------------------
(* Properties *)

TypeOK ==
  /\ rules \subseteq Rules
  /\ started \in BOOLEAN
  /\ seeded \subseteq Seeds
  /\ DOMAIN weight \subseteq Transition
  /\ \A t \in DOMAIN weight : weight[t] \in Weights
  /\ DOMAIN distance \subseteq State
  /\ \A q \in DOMAIN distance : distance[q] \in Nat \ {0}
  /\ listeners \subseteq Listener
  /\ DOMAIN unbalancedPops \subseteq Control \X Transition
  /\ \A e \in DOMAIN unbalancedPops : unbalancedPops[e] \in Weights
  /\ stack \in Seq(Frame)

\* What a call asks for is in force.
Done(c) ==
  \/ /\ c.op = "add"
     /\ \/ SelfLoop(c.t)
        \/ c.t \in DOMAIN weight /\ Leq(c.w, weight[c.t])
  \/ c.op = "register" /\ c.l \in listeners
  \/ /\ c.op = "pop"
     /\ << c.p, c.t >> \in DOMAIN unbalancedPops
     /\ Leq(c.w, unbalancedPops[<< c.p, c.t >>])

\* The listener l has been told of the transition t with its present weight,
\* and all that its handler asked for is in force.
Served(l, t) == \A c \in Range(Calls(l, t, weight[t])) : Done(c)

Saturated ==
  /\ started => \A r \in rules : ListenerOf(r) \in listeners
  /\ \A s \in seeded : Done(Add(s[1], s[2]))
  /\ \A l \in listeners, t \in DOMAIN weight : t.start = l.state => Served(l, t)

(***************************************************************************)
(* Whenever no call is in progress the automaton is saturated: no          *)
(* notification was lost to a snapshot taken too early, to a listener      *)
(* registered while the loops were running, to a listener that equals an   *)
(* earlier one, or to a weight that grew after it was captured (without a  *)
(* depth bound; AddReject of a too deep transition gives this up).         *)
(***************************************************************************)
QuietImpliesSaturated == stack = << >> => Saturated

\* What a call asks for is in force, or the call is still to run.
Owed(c) == Done(c) \/ c \in Range(stack)

\* A loop in progress is going to tell l of t with its present weight.
Awaited(l, t) ==
  \E f \in Range(stack) :
     \/ f.op = "updated" /\ f.t = t /\ f.w = weight[t]
     \/ f.op = "notify" /\ f.t = t /\ f.w = weight[t] /\ l \in f.ls
     \/ f.op = "replay" /\ f.l = l /\ t \in f.ts

(***************************************************************************)
(* Why a quiet automaton is saturated: in every state, in the middle of    *)
(* any nesting of calls and loops, each rule, seed and pair of listener    *)
(* and transition has been dealt with or is still ahead of a call or loop  *)
(* on the stack.                                                           *)
(***************************************************************************)
NothingLost ==
  /\ started => \A r \in rules :
       \/ Owed(Register(ListenerOf(r)))
       \/ \E f \in Range(stack) : f.op = "rules" /\ r \in f.rs
  /\ \A s \in seeded : Owed(Add(s[1], s[2]))
  /\ \A l \in listeners, t \in DOMAIN weight :
       t.start = l.state =>
         \/ Awaited(l, t)
         \/ \A c \in Range(Calls(l, t, weight[t])) : Owed(c)

\* A transition never leaves the automaton and its weight only grows: a
\* client that was told of a weight is never contradicted later.
WeightsOnlyGrow ==
  [][ \A t \in DOMAIN weight :
        t \in DOMAIN weight' /\ Leq(weight[t], weight'[t]) ]_vars

\* The state q has a path of at most n transitions to an initial state.
NearInitial(q, n) ==
  \E k \in 1 .. n : \E path \in [1 .. k -> DOMAIN weight] :
    /\ path[1].start = q /\ path[k].target \in Unbalanced
    /\ \A i \in 1 .. k - 1 : path[i].target = path[i + 1].start

(***************************************************************************)
(* With a depth bound every state that reads a transition has a path of at *)
(* most MaxDepth transitions to an initial state, although distances are   *)
(* recorded for rejected transitions too, are not updated when a successor *)
(* comes closer, and the loops that reject run in any order                *)
(* (addWeightForTransition, computeDistance).                              *)
(***************************************************************************)
BoundedDepth ==
  MaxDepth > 0 => \A t \in DOMAIN weight : NearInitial(t.start, MaxDepth)

\* When the clients stop, the engine stops: the notifications, which trigger
\* further notifications, come to an end.
ComesToRest == []<>(stack = << >>)

=============================================================================
