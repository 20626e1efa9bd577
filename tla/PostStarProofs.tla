--------------------------- MODULE PostStarProofs ---------------------------
(***************************************************************************)
(* Proofs about PostStar, for every set of rules, seeds, symbols, states   *)
(* and weights that satisfies its assumptions, and about the reachability  *)
(* listeners beside it.                                                    *)
(***************************************************************************)
EXTENDS ReachabilityListeners, SequenceTheorems, WellFoundedInduction, TLAPS

-----------------------------------------------------------------------------
(* Sequences as stacks *)

LEMMA RangeConcat ==
  ASSUME NEW S, NEW s \in Seq(S), NEW e \in Seq(S)
  PROVE  e \o s \in Seq(S) /\ Range(e \o s) = Range(e) \cup Range(s)
<1>1. /\ e \o s \in Seq(S)
      /\ Len(e \o s) = Len(e) + Len(s)
      /\ \A i \in 1 .. Len(e) + Len(s) :
           (e \o s)[i] = IF i <= Len(e) THEN e[i] ELSE s[i - Len(e)]
  BY ConcatProperties
<1>2. ASSUME NEW x \in Range(e) PROVE x \in Range(e \o s)
  <2>1. PICK i \in DOMAIN e : x = e[i]
    BY <1>2 DEF Range
  <2>2. i \in 1 .. Len(e) + Len(s) /\ i <= Len(e)
    BY <2>1
  <2> QED BY <1>1, <2>1, <2>2 DEF Range
<1>3. ASSUME NEW x \in Range(s) PROVE x \in Range(e \o s)
  <2>1. PICK i \in DOMAIN s : x = s[i]
    BY <1>3 DEF Range
  <2>2. Len(e) + i \in 1 .. Len(e) + Len(s) /\ ~ (Len(e) + i <= Len(e))
        /\ (Len(e) + i) - Len(e) = i
    BY <2>1
  <2> QED BY <1>1, <2>1, <2>2 DEF Range
<1>4. ASSUME NEW x \in Range(e \o s) PROVE x \in Range(e) \cup Range(s)
  <2>1. PICK i \in 1 .. Len(e) + Len(s) : x = (e \o s)[i]
    BY <1>1, <1>4 DEF Range
  <2>2. CASE i <= Len(e)
    BY <1>1, <2>1, <2>2 DEF Range
  <2>3. CASE ~ (i <= Len(e))
    <3>1. i - Len(e) \in 1 .. Len(s)
      BY <2>3
    <3> QED BY <1>1, <2>1, <2>3, <3>1 DEF Range
  <2> QED BY <2>2, <2>3
<1> QED BY <1>1, <1>2, <1>3, <1>4

LEMMA RangeTail ==
  ASSUME NEW S, NEW s \in Seq(S), s # << >>
  PROVE  /\ Head(s) \in S /\ Tail(s) \in Seq(S)
         /\ Range(s) = {Head(s)} \cup Range(Tail(s))
<1>1. /\ Head(s) \in S /\ Tail(s) \in Seq(S)
      /\ Len(s) \in Nat \ {0} /\ Len(Tail(s)) = Len(s) - 1
      /\ \A i \in 1 .. Len(Tail(s)) : Tail(s)[i] = s[i + 1]
      /\ Head(s) = s[1]
  BY HeadTailProperties, EmptySeq
<1>2. ASSUME NEW x \in Range(s) PROVE x \in {Head(s)} \cup Range(Tail(s))
  <2>1. PICK i \in 1 .. Len(s) : x = s[i]
    BY <1>2 DEF Range
  <2>2. CASE i = 1
    BY <1>1, <2>1, <2>2
  <2>3. CASE i # 1
    <3>1. i - 1 \in 1 .. Len(Tail(s)) /\ (i - 1) + 1 = i
      BY <1>1, <2>3
    <3>2. Tail(s)[i - 1] = s[i]
      BY <1>1, <3>1
    <3>3. i - 1 \in DOMAIN Tail(s)
      BY <1>1, <3>1
    <3>4. s[i] \in Range(Tail(s))
      BY <3>2, <3>3 DEF Range
    <3> QED BY <2>1, <3>4
  <2> QED BY <2>2, <2>3
<1>3. ASSUME NEW x \in Range(Tail(s)) PROVE x \in Range(s)
  <2>1. PICK i \in 1 .. Len(Tail(s)) : x = Tail(s)[i]
    BY <1>1, <1>3 DEF Range
  <2>2. i + 1 \in 1 .. Len(s)
    BY <1>1
  <2> QED BY <1>1, <2>1, <2>2 DEF Range
<1>4. Head(s) \in Range(s)
  BY <1>1 DEF Range
<1> QED BY <1>1, <1>2, <1>3, <1>4

-----------------------------------------------------------------------------
(* Types *)

CallFrame ==
  [op : {"add"}, t : Transition, w : Weights]
  \cup [op : {"register"}, l : Listener]
  \cup [op : {"pop"}, p : Control, t : Transition, w : Weights]

LEMMA FrameKinds ==
  ASSUME NEW f \in Frame
  PROVE  /\ f.op \in {"add", "updated", "register", "pop", "popped", "notify",
                      "replay", "rules"}
         /\ f.op \in {"add", "updated", "notify"} => f.t \in Transition /\ f.w \in Weights
         /\ f.op = "register" => f.l \in Listener
         /\ f.op = "pop" => f.p \in Control /\ f.t \in Transition /\ f.w \in Weights
         /\ f.op = "notify" => f.ls \subseteq Listener
         /\ f.op = "replay" => f.l \in Listener /\ f.ts \subseteq Transition
         /\ f.op = "rules" => f.rs \subseteq Rules
<1>1. CASE f \in [op : {"add", "updated"}, t : Transition, w : Weights]
  BY <1>1
<1>2. CASE f \in [op : {"register"}, l : Listener]
  BY <1>2
<1>3. CASE f \in [op : {"pop"}, p : Control, t : Transition, w : Weights]
  BY <1>3
<1>4. CASE f = Popped
  BY <1>4 DEF Popped
<1>5. CASE f \in [op : {"notify"}, t : Transition, w : Weights, ls : SUBSET Listener]
  BY <1>5
<1>6. CASE f \in [op : {"replay"}, l : Listener, ts : SUBSET Transition]
  BY <1>6
<1>7. CASE f \in [op : {"rules"}, rs : SUBSET Rules]
  BY <1>7
<1> QED BY <1>1, <1>2, <1>3, <1>4, <1>5, <1>6, <1>7 DEF Frame

LEMMA CallsAreFrames == CallFrame \subseteq Frame
BY DEF CallFrame, Frame

LEMMA FrameTypes ==
  /\ \A t \in Transition, w \in Weights :
        Add(t, w) \in CallFrame /\ Updated(t, w) \in Frame
  /\ \A l \in Listener : Register(l) \in CallFrame
  /\ \A p \in Control, t \in Transition, w \in Weights :
        UnbalancedPop(p, t, w) \in CallFrame
  /\ Popped \in Frame
  /\ \A t \in Transition, w \in Weights, ls \in SUBSET Listener :
        Notify(t, w, ls) \in Frame
  /\ \A l \in Listener, ts \in SUBSET Transition : Replay(l, ts) \in Frame
  /\ \A rs \in SUBSET Rules : RuleLoop(rs) \in Frame
BY DEF Add, Updated, Register, UnbalancedPop, Popped, Notify, Replay, RuleLoop,
       CallFrame, Frame

LEMMA ListenerTypes ==
  /\ \A s \in State, a \in Symbol \ Empties, c \in Control, w \in Weights :
        PopListener(s, a, c, w) \in Listener
  /\ \A c \in Control, a \in Symbol, s \in State, w \in Weights :
        TransitiveListener(c, a, s, w) \in Listener
  /\ \A r \in Rules : ListenerOf(r) \in Listener
<1>1. \A s \in State, a \in Symbol \ Empties, c \in Control, w \in Weights :
        PopListener(s, a, c, w) \in Listener
  BY DEF PopListener, Listener
<1>2. \A c \in Control, a \in Symbol, s \in State, w \in Weights :
        TransitiveListener(c, a, s, w) \in Listener
  BY DEF TransitiveListener, Listener
<1>3. ASSUME NEW r \in Rules PROVE ListenerOf(r) \in Listener
  <2>1. CASE r \in PopRule
    <3>1. /\ r.kind = "pop" /\ r.s1 \in State /\ r.l1 \in Symbol \ Empties
          /\ r.s2 \in Control /\ r.w \in Weights
      BY <2>1 DEF PopRule, State
    <3> QED BY <1>1, <3>1 DEF ListenerOf
  <2>2. CASE r \in NormalRule \cup PushRule
    <3>1. r.kind # "pop"
      BY <2>2 DEF NormalRule, PushRule
    <3> QED BY <2>2, <3>1 DEF ListenerOf, Listener
  <2> QED BY <2>1, <2>2, RuleAssumption
<1> QED BY <1>1, <1>2, <1>3

\* The fields of a listener, by its kind.
LEMMA ListenerKinds ==
  ASSUME NEW l \in Listener
  PROVE  \/ /\ l.kind = "pop" /\ l.state \in State /\ l.label \in Symbol \ Empties
            /\ l.start \in Control /\ l.w \in Weights
         \/ /\ l.kind = "transitive" /\ l.state \in State /\ l.label \in Symbol
            /\ l.start \in Control /\ l.w \in Weights
         \/ l.kind = "normal" /\ l.rule \in NormalRule
         \/ l.kind = "push" /\ l.rule \in PushRule
<1>1. CASE l \in { RuleListener(r) : r \in NormalRule \cup PushRule }
  <2>1. PICK r \in NormalRule \cup PushRule : l = RuleListener(r)
    BY <1>1
  <2>2. l.kind = r.kind /\ l.rule = r
    BY <2>1 DEF RuleListener
  <2>3. r \in NormalRule => r.kind = "normal"
    BY DEF NormalRule
  <2>4. r \in PushRule => r.kind = "push"
    BY DEF PushRule
  <2> QED BY <2>1, <2>2, <2>3, <2>4
<1>2. CASE l \in [kind : {"pop"}, state : State, label : Symbol \ Empties,
                  start : Control, w : Weights]
  BY <1>2
<1>3. CASE l \in [kind : {"transitive"}, state : State, label : Symbol,
                  start : Control, w : Weights]
  BY <1>3
<1> QED BY <1>1, <1>2, <1>3 DEF Listener

LEMMA TransitionTypes ==
  /\ \A t \in Transition : t.start \in State /\ t.label \in Symbol /\ t.target \in State
  /\ \A s \in State, a \in Symbol, u \in State : Tr(s, a, u) \in Transition
BY DEF Transition, Tr

LEMMA CallsType ==
  ASSUME NEW l \in Listener, NEW t \in Transition, NEW w \in Weights
  PROVE  Calls(l, t, w) \in Seq(CallFrame)
<1> USE TransitionTypes, FrameTypes
<1>c. Control \subseteq State /\ Epsilon \in Symbol /\ One \in Weights
  BY SymbolAssumption, WeightAssumption DEF State
<1>1. CASE l.kind = "pop"
  <2>1. /\ l.state \in State /\ l.label \in Symbol \ Empties
        /\ l.start \in Control /\ l.w \in Weights
    BY <1>1, ListenerKinds
  <2> DEFINE new == Extend(w, l.w)
  <2>2. new \in Weights
    BY <2>1, WeightAssumption
  <2>3. Add(Tr(l.start, Epsilon, t.target), new) \in CallFrame
    BY <1>c, <2>1, <2>2
  <2>4. Register(TransitiveListener(l.start, t.label, t.target, new)) \in CallFrame
    BY <2>1, <2>2, ListenerTypes
  <2>5. UnbalancedPop(l.start, t, w) \in CallFrame
    BY <2>1
  <2>6. Register(PopListener(t.target, l.label, l.start, l.w)) \in CallFrame
    BY <2>1, ListenerTypes
  <2> HIDE DEF new
  <2>7. PopCalls(l, t, w) \in Seq(CallFrame)
    BY <2>3, <2>4, <2>5, <2>6 DEF PopCalls, new
  <2> QED BY <1>1, <2>7 DEF Calls
<1>2. CASE l.kind = "transitive"
  <2>1. l.start \in Control /\ l.w \in Weights
    BY <1>2, ListenerKinds
  <2>2. Add(Tr(l.start, t.label, t.target), Extend(w, l.w)) \in CallFrame
    BY <1>c, <2>1, WeightAssumption
  <2> QED BY <1>2, <2>2 DEF Calls, TransitiveCalls
<1>3. CASE l.kind = "normal"
  <2> DEFINE r == l.rule
             a == IF r.l2 = Any THEN t.label ELSE r.l2
  <2>1. r.s2 \in Control /\ r.l2 \in Symbol \cup {Any} /\ r.w \in Weights
    BY <1>3, ListenerKinds DEF NormalRule
  <2>2. a \in Symbol
    BY <2>1
  <2>3. Add(Tr(r.s2, a, t.target), Extend(w, r.w)) \in CallFrame
    BY <1>c, <2>1, <2>2, WeightAssumption
  <2> QED BY <1>3, <2>3 DEF Calls, NormalCalls
<1>4. CASE l.kind = "push"
  <2> DEFINE r == l.rule
             a == IF r.site = Any THEN t.label ELSE r.site
             inner == << r.s2, r.l2 >>
  <2>1. /\ r.s2 \in Control /\ r.l2 \in Symbol /\ r.site \in Symbol \cup {Any}
        /\ r.w \in Weights
    BY <1>4, ListenerKinds DEF PushRule
  <2>2. a \in Symbol /\ inner \in State
    BY <2>1 DEF State, Generated
  <2>3. Add(Tr(inner, a, t.target), Extend(w, r.w)) \in CallFrame
    BY <2>1, <2>2, WeightAssumption
  <2>4. Add(Tr(r.s2, r.l2, inner), One) \in CallFrame
    BY <1>c, <2>1, <2>2
  <2> QED BY <1>4, <2>3, <2>4 DEF Calls, PushCalls
<1> QED BY <1>1, <1>2, <1>3, <1>4, ListenerKinds

-----------------------------------------------------------------------------
(* The type invariant *)

\* A replay only holds transitions of the automaton: the weight it reads when
\* it delivers one of them exists.
ReplayKnown ==
  \A f \in Range(stack) : f.op = "replay" => f.ts \subseteq DOMAIN weight

TypeInv == TypeOK /\ ReplayKnown

\* The top frame of a stack that runs op.
LEMMA TopFrame ==
  ASSUME TypeOK, NEW op, Running(op)
  PROVE  /\ stack \in Seq(Frame) /\ stack # << >>
         /\ Top \in Frame /\ Top.op = op
         /\ Tail(stack) \in Seq(Frame)
         /\ Range(stack) = {Top} \cup Range(Tail(stack))
BY RangeTail DEF TypeOK, Running, Top

LEMMA EmptyRange == Range(<< >>) = {}
BY DEF Range

LEMMA SingleRange ==
  ASSUME NEW S, NEW x \in S
  PROVE  << x >> \in Seq(S) /\ Range(<< x >>) = {x}
<1>1. << x >> \in Seq(S) /\ DOMAIN << x >> = {1} /\ << x >>[1] = x
  OBVIOUS
<1>2. ASSUME NEW z \in Range(<< x >>) PROVE z = x
  BY <1>1, <1>2 DEF Range
<1>3. x \in Range(<< x >>)
  BY <1>1 DEF Range
<1> QED BY <1>1, <1>2, <1>3

\* Replacing the top frame by the frames e.
LEMMA Replace ==
  ASSUME stack \in Seq(Frame), stack # << >>, NEW e \in Seq(Frame),
         stack' = e \o Tail(stack)
  PROVE  /\ stack' \in Seq(Frame)
         /\ Range(stack') = Range(e) \cup Range(Tail(stack))
<1>1. Tail(stack) \in Seq(Frame)
  BY RangeTail
<1> QED BY <1>1, RangeConcat

\* Putting the frame x on top.
LEMMA PushFrame ==
  ASSUME stack \in Seq(Frame), NEW x \in Frame, stack' = << x >> \o stack
  PROVE  stack' \in Seq(Frame) /\ Range(stack') = {x} \cup Range(stack)
<1>1. << x >> \in Seq(Frame) /\ Range(<< x >>) = {x}
  BY SingleRange
<1> QED BY <1>1, RangeConcat

\* One handler runs inside a loop: its calls, then the rest y of the loop.
LEMMA HandlerFrames ==
  ASSUME TypeOK, NEW op, Running(op),
         NEW l \in Listener, NEW t \in Transition, NEW w \in Weights,
         NEW y \in Frame,
         stack' = Calls(l, t, w) \o << y >> \o Tail(stack)
  PROVE  /\ stack' \in Seq(Frame)
         /\ Range(stack') = Range(Calls(l, t, w)) \cup {y} \cup Range(Tail(stack))
         /\ Range(Calls(l, t, w)) \subseteq CallFrame
<1>1. Calls(l, t, w) \in Seq(CallFrame)
  BY CallsType
<1>2. Calls(l, t, w) \in Seq(Frame)
  BY <1>1, CallsAreFrames
<1>3. << y >> \in Seq(Frame) /\ Range(<< y >>) = {y}
  BY SingleRange
<1>4. /\ Calls(l, t, w) \o << y >> \in Seq(Frame)
      /\ Range(Calls(l, t, w) \o << y >>) = Range(Calls(l, t, w)) \cup {y}
  BY <1>2, <1>3, RangeConcat
<1>5. Range(Calls(l, t, w)) \subseteq CallFrame
  BY <1>1 DEF Range
<1> QED BY <1>4, <1>5, TopFrame, Replace

LEMMA TypeInit == Init => TypeInv
<1> SUFFICES ASSUME Init PROVE TypeInv
  OBVIOUS
<1>1. DOMAIN << >> = {} /\ << >> \in Seq(Frame)
  OBVIOUS
<1> QED BY <1>1, EmptyRange DEF Init, TypeInv, TypeOK, ReplayKnown

LEMMA ClientTypes ==
  ASSUME TypeInv, Client
  PROVE  TypeInv'
<1> USE DEF TypeInv
<1>1. CASE StartPostStar
  <2>1. stack' \in Seq(Frame) /\ Range(stack') = {RuleLoop(rules)}
    BY <1>1, SingleRange, FrameTypes DEF StartPostStar, TypeOK
  <2> QED BY <1>1, <2>1 DEF StartPostStar, TypeOK, ReplayKnown, RuleLoop
<1>2. ASSUME NEW r \in Rules, AddRule(r) PROVE TypeInv'
  <2>1. Register(ListenerOf(r)) \in Frame
    BY ListenerTypes, FrameTypes, CallsAreFrames
  <2>2. stack' \in Seq(Frame) /\ Range(stack') \subseteq {Register(ListenerOf(r))} \cup Range(stack)
    BY <1>2, <2>1, PushFrame DEF AddRule, TypeOK
  <2> QED BY <1>2, <2>2 DEF AddRule, TypeOK, ReplayKnown, Register
<1>3. ASSUME NEW s \in Seeds, AddSeed(s) PROVE TypeInv'
  <2>1. s[1] \in Transition /\ s[2] \in Weights
    BY RuleAssumption
  <2>2. Add(s[1], s[2]) \in Frame
    BY <2>1, FrameTypes, CallsAreFrames
  <2>3. stack' \in Seq(Frame) /\ Range(stack') = {Add(s[1], s[2])} \cup Range(stack)
    BY <1>3, <2>2, PushFrame DEF AddSeed, TypeOK
  <2> QED BY <1>3, <2>3 DEF AddSeed, TypeOK, ReplayKnown, Add
<1> QED BY <1>1, <1>2, <1>3 DEF Client

LEMMA DistanceType ==
  ASSUME TypeOK, NEW t \in Transition
  PROVE  /\ DOMAIN DistanceAfter(t) \subseteq State
         /\ \A s \in DOMAIN DistanceAfter(t) : DistanceAfter(t)[s] \in Nat \ {0}
<1>1. TargetDistance(t) \in Int
  BY DEF TargetDistance, TypeOK
<1>2. CASE Closer(t)
  <2>1. TargetDistance(t) + 1 \in Nat \ {0}
    BY <1>1, <1>2 DEF Closer
  <2> QED BY <1>2, <2>1, TransitionTypes DEF DistanceAfter, TypeOK
<1>3. CASE ~ Closer(t)
  BY <1>3 DEF DistanceAfter, TypeOK
<1> QED BY <1>2, <1>3

-----------------------------------------------------------------------------
(* What each step of the engine leaves on the stack *)

LEMMA AddFrames ==
  ASSUME TypeOK, AddWeight
  PROVE  /\ stack' \in Seq(Frame) /\ Top.t \in Transition /\ Top.w \in Weights
         /\ Combined(Top.t, Top.w) \in Weights
         /\ Range(stack') = IF AddChanged(Top.t, Top.w)
                           THEN {Updated(Top.t, Combined(Top.t, Top.w))} \cup Range(Tail(stack))
                           ELSE Range(Tail(stack))
<1> DEFINE t == Top.t
           w == Top.w
<1>1. /\ stack \in Seq(Frame) /\ stack # << >> /\ Tail(stack) \in Seq(Frame)
      /\ t \in Transition /\ w \in Weights
  BY TopFrame, FrameKinds DEF AddWeight
<1>2. AddReject(t) \/ AddAbsorbed(t, w) \/ AddChanged(t, w)
  BY DEF AddWeight
<1> HIDE DEF t, w
<1>3. Combined(t, w) \in Weights
  BY <1>1, WeightAssumption DEF Combined, TypeOK
<1>4. CASE AddChanged(t, w)
  <2>1. Updated(t, Combined(t, w)) \in Frame
    BY <1>1, <1>3, FrameTypes
  <2>2. /\ stack' \in Seq(Frame)
        /\ Range(stack') = {Updated(t, Combined(t, w))} \cup Range(Tail(stack))
    BY <1>1, <1>4, <2>1, SingleRange, Replace DEF AddChanged
  <2> QED BY <1>1, <1>3, <1>4, <2>2 DEF t, w
<1>5. CASE ~ AddChanged(t, w)
  <2>1. stack' = Tail(stack)
    BY <1>2, <1>5 DEF AddReject, AddAbsorbed
  <2> QED BY <1>1, <1>3, <1>5, <2>1 DEF t, w
<1> QED BY <1>4, <1>5

LEMMA ServeFrames ==
  ASSUME TypeOK, ServeStateListeners
  PROVE  /\ stack' \in Seq(Frame)
         /\ Range(stack') =
              {Notify(Top.t, Top.w, { l \in listeners : l.state = Top.t.start })}
              \cup Range(Tail(stack))
<1> DEFINE y == Notify(Top.t, Top.w, { l \in listeners : l.state = Top.t.start })
<1>1. Top.t \in Transition /\ Top.w \in Weights /\ stack \in Seq(Frame) /\ stack # << >>
  BY TopFrame, FrameKinds DEF ServeStateListeners
<1>2. y \in Frame
  BY <1>1, FrameTypes DEF TypeOK
<1>3. << y >> \in Seq(Frame) /\ Range(<< y >>) = {y}
  BY <1>2, SingleRange
<1> QED BY <1>1, <1>3, Replace DEF ServeStateListeners

LEMMA DeliverFrames ==
  ASSUME TypeOK, Deliver
  PROVE  \E l \in Top.ls :
           /\ l \in Listener /\ stack' \in Seq(Frame)
           /\ Range(stack') = Range(Calls(l, Top.t, Top.w))
                             \cup {Notify(Top.t, Top.w, Top.ls \ {l})} \cup Range(Tail(stack))
           /\ Range(Calls(l, Top.t, Top.w)) \subseteq CallFrame
<1>1. PICK l \in Top.ls :
        stack' = Calls(l, Top.t, Top.w)
                 \o << Notify(Top.t, Top.w, Top.ls \ {l}) >> \o Tail(stack)
  BY DEF Deliver
<1> DEFINE y == Notify(Top.t, Top.w, Top.ls \ {l})
<1>2. /\ Running("notify") /\ l \in Listener /\ Top.t \in Transition
      /\ Top.w \in Weights /\ y \in Frame
  BY TopFrame, FrameKinds, FrameTypes DEF Deliver
<1> HIDE DEF y
<1> QED BY <1>1, <1>2, HandlerFrames DEF y

LEMMA ReplayFrames ==
  ASSUME TypeInv, ReplayTransition
  PROVE  \E t \in Top.ts :
           /\ t \in DOMAIN weight /\ Top.ts \subseteq DOMAIN weight
           /\ Top.l \in Listener /\ stack' \in Seq(Frame)
           /\ Range(stack') = Range(Calls(Top.l, t, weight[t]))
                             \cup {Replay(Top.l, Top.ts \ {t})} \cup Range(Tail(stack))
           /\ Range(Calls(Top.l, t, weight[t])) \subseteq CallFrame
<1> USE DEF TypeInv
<1>1. PICK t \in Top.ts :
        stack' = Calls(Top.l, t, weight[t])
                 \o << Replay(Top.l, Top.ts \ {t}) >> \o Tail(stack)
  BY DEF ReplayTransition
<1> DEFINE y == Replay(Top.l, Top.ts \ {t})
<1>2. /\ Running("replay") /\ Top.l \in Listener /\ t \in Transition
      /\ y \in Frame /\ Top \in Range(stack) /\ Top.op = "replay"
  BY TopFrame, FrameKinds, FrameTypes DEF ReplayTransition
<1>3. t \in DOMAIN weight /\ Top.ts \subseteq DOMAIN weight /\ weight[t] \in Weights
  BY <1>2 DEF ReplayKnown, TypeOK
<1> HIDE DEF y
<1> QED BY <1>1, <1>2, <1>3, HandlerFrames DEF y

LEMMA RuleFrames ==
  ASSUME TypeOK, ReplayRule
  PROVE  \E r \in Top.rs :
           /\ stack' \in Seq(Frame)
           /\ Range(stack') = {Register(ListenerOf(r)), RuleLoop(Top.rs \ {r})}
                             \cup Range(Tail(stack))
<1>1. PICK r \in Top.rs :
        stack' = << Register(ListenerOf(r)), RuleLoop(Top.rs \ {r}) >> \o Tail(stack)
  BY DEF ReplayRule
<1> DEFINE x == Register(ListenerOf(r))
           y == RuleLoop(Top.rs \ {r})
<1>2. stack \in Seq(Frame) /\ stack # << >> /\ x \in Frame /\ y \in Frame
  BY TopFrame, FrameKinds, FrameTypes, ListenerTypes, CallsAreFrames DEF ReplayRule
<1> HIDE DEF x, y
<1>3. << x, y >> \in Seq(Frame) /\ DOMAIN << x, y >> = {1, 2}
      /\ << x, y >>[1] = x /\ << x, y >>[2] = y
  BY <1>2
<1>4. Range(<< x, y >>) = {x, y}
  BY <1>3 DEF Range
<1> QED BY <1>1, <1>2, <1>3, <1>4, Replace DEF x, y

LEMMA ReturnFrames ==
  ASSUME TypeOK, Return
  PROVE  stack' \in Seq(Frame) /\ Range(stack') = Range(Tail(stack))
BY TopFrame DEF Return

LEMMA RegisterFrames ==
  ASSUME TypeOK, RegisterListener
  PROVE  /\ Top.l \in Listener /\ stack' \in Seq(Frame)
         /\ Range(stack') = IF Top.l \in listeners THEN Range(Tail(stack))
                           ELSE {Replay(Top.l, OutOf(Top.l.state))} \cup Range(Tail(stack))
<1>1. /\ stack \in Seq(Frame) /\ stack # << >> /\ Tail(stack) \in Seq(Frame)
      /\ Top.l \in Listener
  BY TopFrame, FrameKinds DEF RegisterListener
<1>2. CASE Top.l \in listeners
  BY <1>1, <1>2 DEF RegisterListener
<1>3. CASE Top.l \notin listeners
  <2> DEFINE y == Replay(Top.l, OutOf(Top.l.state))
  <2>1. y \in Frame
    BY <1>1, FrameTypes DEF TypeOK, OutOf
  <2>2. << y >> \in Seq(Frame) /\ Range(<< y >>) = {y}
    BY <2>1, SingleRange
  <2> QED BY <1>1, <1>3, <2>2, Replace DEF RegisterListener
<1> QED BY <1>2, <1>3

LEMMA PopFrames ==
  ASSUME TypeOK, RecordUnbalancedPop
  PROVE  /\ stack' \in Seq(Frame)
         /\ Range(stack') = Range(Tail(stack))
            \/ Range(stack') = {Popped} \cup Range(Tail(stack))
<1>1. stack \in Seq(Frame) /\ stack # << >> /\ Tail(stack) \in Seq(Frame)
  BY TopFrame DEF RecordUnbalancedPop
<1>2. << Popped >> \in Seq(Frame) /\ Range(<< Popped >>) = {Popped}
  BY FrameTypes, SingleRange
<1>3. stack' = Tail(stack) \/ stack' = << Popped >> \o Tail(stack)
  BY DEF RecordUnbalancedPop
<1> QED BY <1>1, <1>2, <1>3, Replace

LEMMA TailStays ==
  ASSUME TypeInv, Engine
  PROVE  /\ stack # << >> /\ stack \in Seq(Frame)
         /\ Range(stack) = {Top} \cup Range(Tail(stack))
         /\ Range(Tail(stack)) \subseteq Range(stack')
<1> USE DEF TypeInv
<1>1. PICK op : Running(op)
  BY DEF Engine, AddWeight, ServeStateListeners, Deliver, RegisterListener,
     ReplayTransition, RecordUnbalancedPop, ReplayRule, Return
<1>2. Range(Tail(stack)) \subseteq Range(stack')
  BY AddFrames, ServeFrames, DeliverFrames, RegisterFrames, ReplayFrames,
     PopFrames, RuleFrames, ReturnFrames DEF Engine
<1> QED BY <1>1, <1>2, TopFrame

-----------------------------------------------------------------------------
LEMMA AddTypes ==
  ASSUME TypeInv, AddWeight
  PROVE  TypeInv'
<1> USE DEF TypeInv
<1> DEFINE t == Top.t
           w == Top.w
<1>1. /\ stack' \in Seq(Frame) /\ t \in Transition /\ w \in Weights
      /\ Combined(t, w) \in Weights
      /\ Range(Tail(stack)) \subseteq Range(stack)
      /\ Range(stack') = IF AddChanged(t, w)
                        THEN {Updated(t, Combined(t, w))} \cup Range(Tail(stack))
                        ELSE Range(Tail(stack))
  BY AddFrames, TailStays DEF Engine
<1>2. AddReject(t) \/ AddAbsorbed(t, w) \/ AddChanged(t, w)
  BY DEF AddWeight
<1> HIDE DEF t, w
<1>3. distance' = distance \/ distance' = DistanceAfter(t)
  BY <1>2 DEF AddReject, AddAbsorbed, AddChanged
<1>4. /\ DOMAIN weight \subseteq DOMAIN weight' /\ DOMAIN weight' \subseteq Transition
      /\ \A x \in DOMAIN weight' : weight'[x] \in Weights
  BY <1>1, <1>2 DEF AddReject, AddAbsorbed, AddChanged, TypeOK
<1>5. TypeOK'
  BY <1>1, <1>3, <1>4, DistanceType DEF AddWeight, TypeOK
<1>6. ReplayKnown'
  BY <1>1, <1>4 DEF ReplayKnown, Updated
<1> QED BY <1>5, <1>6

LEMMA LoopTypes ==
  ASSUME TypeInv, ServeStateListeners \/ Deliver \/ ReplayTransition \/ ReplayRule \/ Return
  PROVE  TypeInv'
<1> USE DEF TypeInv
<1>1. Range(Tail(stack)) \subseteq Range(stack)
  BY TailStays DEF Engine
<1>2. UNCHANGED << rules, started, seeded, weight, distance, listeners, unbalancedPops >>
  BY DEF ServeStateListeners, Deliver, ReplayTransition, ReplayRule, Return
<1>3. \A f \in CallFrame : f.op # "replay"
  BY DEF CallFrame
<1>4. CASE ServeStateListeners
  BY <1>1, <1>2, <1>4, ServeFrames DEF TypeOK, ReplayKnown, Notify
<1>5. CASE Deliver
  BY <1>1, <1>2, <1>3, <1>5, DeliverFrames DEF TypeOK, ReplayKnown, Notify
<1>6. CASE ReplayTransition
  BY <1>1, <1>2, <1>3, <1>6, ReplayFrames DEF TypeOK, ReplayKnown, Replay
<1>7. CASE ReplayRule
  BY <1>1, <1>2, <1>7, RuleFrames DEF TypeOK, ReplayKnown, Register, RuleLoop
<1>8. CASE Return
  BY <1>1, <1>2, <1>8, ReturnFrames DEF TypeOK, ReplayKnown
<1> QED BY <1>4, <1>5, <1>6, <1>7, <1>8

LEMMA RegisterTypes ==
  ASSUME TypeInv, RegisterListener
  PROVE  TypeInv'
<1> USE DEF TypeInv
<1>1. Range(Tail(stack)) \subseteq Range(stack)
  BY TailStays DEF Engine
<1>2. \/ Range(stack') = Range(Tail(stack))
      \/ Range(stack') = {Replay(Top.l, OutOf(Top.l.state))} \cup Range(Tail(stack))
  BY RegisterFrames
<1>3. ReplayKnown'
  BY <1>1, <1>2 DEF RegisterListener, ReplayKnown, Replay, OutOf
<1>4. TypeOK'
  BY RegisterFrames DEF RegisterListener, TypeOK
<1> QED BY <1>3, <1>4

LEMMA PopTypes ==
  ASSUME TypeInv, RecordUnbalancedPop
  PROVE  TypeInv'
<1> USE DEF TypeInv
<1> DEFINE entry == << Top.p, Top.t >>
           new == IF entry \in DOMAIN unbalancedPops
                  THEN Combine(unbalancedPops[entry], Top.w) ELSE Top.w
<1>1. Range(Tail(stack)) \subseteq Range(stack)
  BY TailStays DEF Engine
<1>2. entry \in Control \X Transition /\ Top.w \in Weights
  BY TopFrame, FrameKinds DEF RecordUnbalancedPop
<1>3. new \in Weights
  BY <1>2, WeightAssumption DEF TypeOK
<1>4. \/ UNCHANGED unbalancedPops
      \/ unbalancedPops' = [x \in DOMAIN unbalancedPops \cup {entry} |->
                             IF x = entry THEN new ELSE unbalancedPops[x]]
  BY DEF RecordUnbalancedPop
<1> HIDE DEF entry, new
<1>5. /\ DOMAIN unbalancedPops' \subseteq Control \X Transition
      /\ \A x \in DOMAIN unbalancedPops' : unbalancedPops'[x] \in Weights
  BY <1>2, <1>3, <1>4 DEF TypeOK
<1>6. TypeOK'
  <2>1. stack' \in Seq(Frame)
    BY PopFrames
  <2>2. UNCHANGED << rules, started, seeded, weight, distance, listeners >>
    BY DEF RecordUnbalancedPop
  <2> QED BY <1>5, <2>1, <2>2 DEF TypeOK
<1>7. ReplayKnown'
  <2>1. weight' = weight
    BY DEF RecordUnbalancedPop
  <2>2. Range(stack') \subseteq {Popped} \cup Range(Tail(stack))
    BY PopFrames
  <2>3. Popped.op # "replay"
    BY DEF Popped
  <2> QED BY <1>1, <2>1, <2>2, <2>3 DEF ReplayKnown
<1> QED BY <1>6, <1>7

LEMMA TypeStep == TypeInv /\ [Next]_vars => TypeInv'
<1> SUFFICES ASSUME TypeInv, [Next]_vars PROVE TypeInv'
  OBVIOUS
<1>1. CASE UNCHANGED vars
  BY <1>1 DEF vars, TypeInv, TypeOK, ReplayKnown
<1>2. CASE Next
  BY <1>2, ClientTypes, AddTypes, LoopTypes, RegisterTypes, PopTypes
  DEF Next, Engine
<1> QED BY <1>1, <1>2

\* The state of the pushdown system, of the automaton and of the call stack is
\* well-formed in every reachable state, and a replay loop only ever holds
\* transitions whose weight exists (WeightedPAutomaton, PostStar).
THEOREM TypeCorrect == Spec => []TypeOK
<1>1. Init => TypeInv
  BY TypeInit
<1>2. TypeInv /\ [Next]_vars => TypeInv'
  BY TypeStep
<1>3. TypeInv => TypeOK
  BY DEF TypeInv
<1> QED BY <1>1, <1>2, <1>3, PTL DEF Spec

-----------------------------------------------------------------------------
(* Weights only grow *)

LEMMA LeqReflexive == \A u \in Weights : Leq(u, u)
BY OrderAssumption DEF Leq

LEMMA LeqTransitive ==
  ASSUME NEW u \in Weights, NEW v \in Weights, NEW w \in Weights,
         Leq(u, v), Leq(v, w)
  PROVE  Leq(u, w)
<1>1. Combine(v, u) = v /\ Combine(w, v) = w
  BY DEF Leq
<1>2. Combine(Combine(w, v), u) = Combine(w, Combine(v, u))
  BY OrderAssumption
<1> QED BY <1>1, <1>2 DEF Leq

\* Combining absorbs both operands.
LEMMA LeqCombine ==
  ASSUME NEW u \in Weights, NEW w \in Weights
  PROVE  Leq(u, Combine(u, w)) /\ Leq(w, Combine(u, w))
<1>1. Combine(Combine(u, w), w) = Combine(u, w)
  BY OrderAssumption
<1>2. Combine(Combine(u, w), u) = Combine(u, w)
  <2>1. Combine(u, w) = Combine(w, u)
    BY OrderAssumption
  <2>2. Combine(Combine(w, u), u) = Combine(w, Combine(u, u))
    BY OrderAssumption
  <2> QED BY <2>1, <2>2, OrderAssumption
<1> QED BY <1>1, <1>2 DEF Leq

\* What no step takes back.
Grows ==
  /\ \A t \in DOMAIN weight : t \in DOMAIN weight' /\ Leq(weight[t], weight'[t])
  /\ listeners \subseteq listeners'
  /\ \A e \in DOMAIN unbalancedPops :
       e \in DOMAIN unbalancedPops' /\ Leq(unbalancedPops[e], unbalancedPops'[e])

LEMMA StepGrows ==
  ASSUME TypeInv, [Next]_vars
  PROVE  Grows
<1>1. \A t \in DOMAIN weight : Leq(weight[t], weight[t])
  BY LeqReflexive DEF TypeInv, TypeOK
<1>2. \A e \in DOMAIN unbalancedPops : Leq(unbalancedPops[e], unbalancedPops[e])
  BY LeqReflexive DEF TypeInv, TypeOK
<1>3. CASE UNCHANGED vars
  BY <1>1, <1>2, <1>3 DEF vars, Grows
<1>4. CASE Client
  BY <1>1, <1>2, <1>4 DEF Client, StartPostStar, AddRule, AddSeed, Grows
<1>5. CASE AddWeight
  <2>1. Top.t \in Transition /\ Top.w \in Weights
    BY <1>5, TopFrame, FrameKinds DEF AddWeight, TypeInv
  <2>2. CASE UNCHANGED weight
    BY <1>1, <1>2, <1>5, <2>2 DEF AddWeight, Grows
  <2>3. CASE AddChanged(Top.t, Top.w)
    <3>1. ASSUME NEW t \in DOMAIN weight
          PROVE  t \in DOMAIN weight' /\ Leq(weight[t], weight'[t])
      <4>1. CASE t = Top.t
        BY <2>1, <2>3, <4>1, LeqCombine DEF AddChanged, Combined, TypeInv, TypeOK
      <4>2. CASE t # Top.t
        BY <1>1, <2>3, <4>2 DEF AddChanged
      <4> QED BY <4>1, <4>2
    <3> QED BY <1>2, <1>5, <3>1 DEF AddWeight, Grows
  <2> QED BY <1>5, <2>2, <2>3 DEF AddWeight, AddReject, AddAbsorbed
<1>6. CASE RecordUnbalancedPop
  <2> DEFINE e == << Top.p, Top.t >>
  <2>1. Top.w \in Weights
    BY <1>6, TopFrame, FrameKinds DEF RecordUnbalancedPop, TypeInv
  <2>2. CASE UNCHANGED unbalancedPops
    BY <1>1, <1>2, <1>6, <2>2 DEF RecordUnbalancedPop, Grows
  <2>3. CASE unbalancedPops' =
               [x \in DOMAIN unbalancedPops \cup {e} |->
                  IF x = e THEN IF e \in DOMAIN unbalancedPops
                                THEN Combine(unbalancedPops[e], Top.w) ELSE Top.w
                           ELSE unbalancedPops[x]]
    <3> HIDE DEF e
    <3>1. \A x \in DOMAIN unbalancedPops :
            x \in DOMAIN unbalancedPops' /\ Leq(unbalancedPops[x], unbalancedPops'[x])
      BY <1>2, <2>1, <2>3, LeqCombine DEF TypeInv, TypeOK
    <3> QED BY <1>1, <1>6, <3>1 DEF RecordUnbalancedPop, Grows
  <2> QED BY <1>6, <2>2, <2>3 DEF RecordUnbalancedPop
<1>7. CASE RegisterListener
  BY <1>1, <1>2, <1>7 DEF RegisterListener, Grows
<1>8. CASE ServeStateListeners \/ Deliver \/ ReplayTransition \/ ReplayRule \/ Return
  BY <1>1, <1>2, <1>8
  DEF ServeStateListeners, Deliver, ReplayTransition, ReplayRule, Return, Grows
<1> QED BY <1>3, <1>4, <1>5, <1>6, <1>7, <1>8 DEF Next, Engine

\* No step removes a transition or lowers its weight (addWeightForTransition
\* combines, whatever notification a stale weight came from).
THEOREM WeightsGrow == Spec => WeightsOnlyGrow
<1>1. Init => TypeInv
  BY TypeInit
<1>2. TypeInv /\ [Next]_vars => TypeInv'
  BY TypeStep
<1>3. TypeInv /\ [Next]_vars =>
        [ \A t \in DOMAIN weight :
            t \in DOMAIN weight' /\ Leq(weight[t], weight'[t]) ]_vars
  BY StepGrows DEF Grows
<1> QED BY <1>1, <1>2, <1>3, PTL DEF Spec, WeightsOnlyGrow

-----------------------------------------------------------------------------
(* Nothing is lost.  The depth bound rejects transitions for good, so these *)
(* results assume it is off, as it is by default.                           *)

Inv == TypeInv /\ NothingLost

LEMMA DoneStays ==
  ASSUME TypeInv, TypeInv', Grows, NEW c \in CallFrame, Done(c)
  PROVE  Done(c)'
<1>1. c \in Frame
  BY CallsAreFrames
<1>2. CASE c.op = "add"
  <2>1. CASE SelfLoop(c.t)
    BY <1>2, <2>1 DEF Done
  <2>2. CASE ~ SelfLoop(c.t)
    <3>1. c.t \in DOMAIN weight /\ Leq(c.w, weight[c.t])
      BY <1>2, <2>2 DEF Done
    <3>2. c.t \in DOMAIN weight' /\ Leq(weight[c.t], weight'[c.t])
      BY <3>1 DEF Grows
    <3>3. c.w \in Weights /\ weight[c.t] \in Weights /\ weight'[c.t] \in Weights
      BY <1>1, <1>2, <3>1, <3>2, FrameKinds DEF TypeInv, TypeOK
    <3>4. Leq(c.w, weight'[c.t])
      BY <3>1, <3>2, <3>3, LeqTransitive
    <3> QED BY <1>2, <3>2, <3>4 DEF Done
  <2> QED BY <2>1, <2>2
<1>3. CASE c.op = "register"
  BY <1>3 DEF Done, Grows
<1>4. CASE c.op = "pop"
  <2> DEFINE e == << c.p, c.t >>
  <2>1. e \in DOMAIN unbalancedPops /\ Leq(c.w, unbalancedPops[e])
    BY <1>4 DEF Done
  <2>2. e \in DOMAIN unbalancedPops' /\ Leq(unbalancedPops[e], unbalancedPops'[e])
    BY <2>1 DEF Grows
  <2>3. /\ c.w \in Weights /\ unbalancedPops[e] \in Weights
        /\ unbalancedPops'[e] \in Weights
    BY <1>1, <1>4, <2>1, <2>2, FrameKinds DEF TypeInv, TypeOK
  <2> HIDE DEF e
  <2>4. Leq(c.w, unbalancedPops'[e])
    BY <2>1, <2>2, <2>3, LeqTransitive
  <2> QED BY <1>4, <2>2, <2>4 DEF Done, e
<1> QED BY <1>2, <1>3, <1>4 DEF CallFrame

\* A step either leaves a frame on the stack or serves it as the top.
LEMMA FramesStay ==
  ASSUME TypeInv, [Next]_vars, NEW f \in Range(stack)
  PROVE  f \in Range(stack') \/ (stack # << >> /\ f = Top /\ Engine)
<1>1. CASE UNCHANGED vars
  BY <1>1 DEF vars
<1>2. CASE StartPostStar
  BY <1>2, EmptyRange DEF StartPostStar
<1>3. ASSUME NEW r \in Rules, AddRule(r) PROVE f \in Range(stack')
  <2>1. Register(ListenerOf(r)) \in Frame
    BY ListenerTypes, FrameTypes, CallsAreFrames
  <2> QED BY <1>3, <2>1, PushFrame DEF AddRule, TypeInv, TypeOK
<1>4. ASSUME NEW s \in Seeds, AddSeed(s) PROVE f \in Range(stack')
  <2>1. Add(s[1], s[2]) \in Frame
    BY RuleAssumption, FrameTypes, CallsAreFrames
  <2> QED BY <1>4, <2>1, PushFrame DEF AddSeed, TypeInv, TypeOK
<1>5. CASE Engine
  BY <1>5, TailStays
<1> QED BY <1>1, <1>2, <1>3, <1>4, <1>5 DEF Next, Client

\* A call that runs as the top of the stack is in force afterwards.
LEMMA CallRuns ==
  ASSUME TypeInv, Engine, ~ (MaxDepth > 0), NEW c \in CallFrame, c = Top
  PROVE  Done(c)'
<1> USE DEF TypeInv
<1>1. CASE AddWeight
  <2>1. c.op = "add" /\ c.t \in Transition /\ c.w \in Weights
    BY <1>1, TopFrame, FrameKinds DEF AddWeight
  <2>2. CASE AddReject(c.t)
    <3>1. SelfLoop(c.t)
      BY <2>2 DEF AddReject, TooDeep
    <3> QED BY <2>1, <3>1 DEF Done
  <2>3. CASE AddAbsorbed(c.t, c.w)
    <3>1. c.t \in DOMAIN weight' /\ Combine(weight'[c.t], c.w) = weight'[c.t]
      BY <2>3 DEF AddAbsorbed, Combined
    <3> QED BY <2>1, <3>1 DEF Done, Leq
  <2>4. CASE AddChanged(c.t, c.w)
    <3>1. c.t \in DOMAIN weight' /\ weight'[c.t] = Combined(c.t, c.w)
      BY <2>4 DEF AddChanged
    <3>2. Leq(c.w, Combined(c.t, c.w))
      BY <2>1, LeqCombine, LeqReflexive DEF Combined, TypeOK
    <3> QED BY <2>1, <3>1, <3>2 DEF Done
  <2> QED BY <1>1, <2>2, <2>3, <2>4 DEF AddWeight
<1>2. CASE RegisterListener
  <2>1. c.op = "register" /\ c.l \in listeners'
    BY <1>2 DEF RegisterListener, Running
  <2> QED BY <2>1 DEF Done
<1>3. CASE RecordUnbalancedPop
  <2> DEFINE e == << c.p, c.t >>
             new == IF e \in DOMAIN unbalancedPops
                    THEN Combine(unbalancedPops[e], c.w) ELSE c.w
  <2>1. c.op = "pop" /\ c.w \in Weights
    BY <1>3, TopFrame, FrameKinds DEF RecordUnbalancedPop
  <2>2. Leq(c.w, new)
    BY <2>1, LeqCombine, LeqReflexive DEF TypeOK
  <2>3. e \in DOMAIN unbalancedPops' /\ unbalancedPops'[e] = new
    BY <1>3 DEF RecordUnbalancedPop
  <2> HIDE DEF e, new
  <2>4. e \in DOMAIN unbalancedPops' /\ Leq(c.w, unbalancedPops'[e])
    BY <2>2, <2>3
  <2> QED BY <2>1, <2>4 DEF Done, e
<1>4. CASE ServeStateListeners \/ Deliver \/ ReplayTransition \/ ReplayRule \/ Return
  <2>1. c.op \notin {"add", "register", "pop"}
    BY <1>4 DEF ServeStateListeners, Deliver, ReplayTransition, ReplayRule, Return, Running
  <2> QED BY <2>1 DEF CallFrame
<1> QED BY <1>1, <1>2, <1>3, <1>4 DEF Engine

LEMMA StepOwed ==
  ASSUME TypeInv, [Next]_vars, ~ (MaxDepth > 0), NEW c \in CallFrame, Owed(c)
  PROVE  Owed(c)'
<1>1. TypeInv' /\ Grows
  BY TypeStep, StepGrows
<1>2. CASE Done(c)
  BY <1>1, <1>2, DoneStays DEF Owed
<1>3. CASE c \in Range(stack')
  BY <1>3 DEF Owed
<1>4. CASE c \in Range(stack) /\ c \notin Range(stack')
  <2>1. c = Top /\ Engine
    BY <1>4, FramesStay
  <2> QED BY <2>1, CallRuns DEF Owed
<1> QED BY <1>2, <1>3, <1>4 DEF Owed

\* The pair of l and t is dealt with, or still ahead of a loop.
Cared(l, t) ==
  \/ Awaited(l, t)
  \/ \A c \in Range(Calls(l, t, weight[t])) : Owed(c)

LEMMA CallsRange ==
  ASSUME NEW l \in Listener, NEW t \in Transition, NEW w \in Weights
  PROVE  Range(Calls(l, t, w)) \subseteq CallFrame
<1>1. Calls(l, t, w) \in Seq(CallFrame)
  BY CallsType
<1> QED BY <1>1 DEF Range

\* A pair whose transition keeps its weight stays cared for.
LEMMA CaredStays ==
  ASSUME TypeInv, [Next]_vars, ~ (MaxDepth > 0),
         NEW l \in listeners, NEW t \in DOMAIN weight, t.start = l.state,
         Cared(l, t), weight'[t] = weight[t]
  PROVE  Cared(l, t)'
<1>1. l \in Listener /\ t \in Transition /\ weight[t] \in Weights
  BY DEF TypeInv, TypeOK
<1>2. CASE \A c \in Range(Calls(l, t, weight[t])) : Owed(c)
  <2>1. \A c \in Range(Calls(l, t, weight[t])) : Owed(c)'
    BY <1>1, <1>2, CallsRange, StepOwed
  <2>2. Calls(l, t, weight'[t]) = Calls(l, t, weight[t])
    OBVIOUS
  <2>3. \A c \in Range(Calls(l, t, weight'[t])) : Owed(c)'
    BY <2>1, <2>2
  <2> QED BY <2>3 DEF Cared
<1>3. CASE Awaited(l, t)
  <2>1. PICK f \in Range(stack) :
          \/ f.op = "updated" /\ f.t = t /\ f.w = weight[t]
          \/ f.op = "notify" /\ f.t = t /\ f.w = weight[t] /\ l \in f.ls
          \/ f.op = "replay" /\ f.l = l /\ t \in f.ts
    BY <1>3 DEF Awaited
  <2>2. CASE f \in Range(stack')
    BY <2>1, <2>2 DEF Cared, Awaited
  <2>3. CASE f \notin Range(stack')
    <3>1. Engine /\ f = Top /\ stack # << >>
      BY <2>3, FramesStay
    <3>2. CASE ServeStateListeners
      <4>1. Top.op = "updated"
        BY <3>2 DEF ServeStateListeners, Running
      <4> DEFINE y == Notify(Top.t, Top.w, { k \in listeners : k.state = Top.t.start })
      <4>2. y \in Range(stack')
        BY <3>2, ServeFrames DEF TypeInv
      <4>3. /\ y.op = "notify" /\ y.t = t /\ y.w = weight'[t] /\ l \in y.ls
        BY <2>1, <3>1, <4>1 DEF Notify
      <4> HIDE DEF y
      <4> QED BY <4>2, <4>3 DEF Cared, Awaited
    <3>3. CASE Deliver
      <4>1. Top.op = "notify"
        BY <3>3 DEF Deliver, Running
      <4>2. PICK k \in Top.ls :
              Range(stack') = Range(Calls(k, Top.t, Top.w))
                              \cup {Notify(Top.t, Top.w, Top.ls \ {k})} \cup Range(Tail(stack))
        BY <3>3, DeliverFrames DEF TypeInv
      <4>3. Top.t = t /\ Top.w = weight'[t] /\ l \in Top.ls
        BY <2>1, <3>1, <4>1
      <4>4. CASE k = l
        <5>1. Range(Calls(l, t, weight'[t])) \subseteq Range(stack')
          BY <4>2, <4>3, <4>4
        <5> QED BY <5>1 DEF Cared, Owed
      <4>5. CASE k # l
        <5> DEFINE y == Notify(Top.t, Top.w, Top.ls \ {k})
        <5>1. y \in Range(stack')
          BY <4>2
        <5>2. y.op = "notify" /\ y.t = t /\ y.w = weight'[t] /\ l \in y.ls
          BY <4>3, <4>5 DEF Notify
        <5> HIDE DEF y
        <5> QED BY <5>1, <5>2 DEF Cared, Awaited
      <4> QED BY <4>4, <4>5
    <3>4. CASE ReplayTransition
      <4>1. Top.op = "replay"
        BY <3>4 DEF ReplayTransition, Running
      <4>2. PICK x \in Top.ts :
              Range(stack') = Range(Calls(Top.l, x, weight[x]))
                              \cup {Replay(Top.l, Top.ts \ {x})} \cup Range(Tail(stack))
        BY <3>4, ReplayFrames
      <4>3. Top.l = l /\ t \in Top.ts
        BY <2>1, <3>1, <4>1
      <4>4. CASE x = t
        <5>1. Range(Calls(l, t, weight'[t])) \subseteq Range(stack')
          BY <4>2, <4>3, <4>4
        <5> QED BY <5>1 DEF Cared, Owed
      <4>5. CASE x # t
        <5> DEFINE y == Replay(Top.l, Top.ts \ {x})
        <5>1. y \in Range(stack')
          BY <4>2
        <5>2. y.op = "replay" /\ y.l = l /\ t \in y.ts
          BY <4>3, <4>5 DEF Replay
        <5> HIDE DEF y
        <5> QED BY <5>1, <5>2 DEF Cared, Awaited
      <4> QED BY <4>4, <4>5
    <3>5. CASE AddWeight \/ RegisterListener \/ RecordUnbalancedPop \/ ReplayRule
      BY <2>1, <3>1, <3>5
      DEF AddWeight, RegisterListener, RecordUnbalancedPop, ReplayRule, Running
    <3>6. CASE Return
      BY <2>1, <3>1, <3>6 DEF Return, Running
    <3> QED BY <3>1, <3>2, <3>3, <3>4, <3>5, <3>6 DEF Engine
  <2> QED BY <2>2, <2>3
<1> QED BY <1>2, <1>3 DEF Cared

LEMMA PairsStayCared ==
  ASSUME Inv, [Next]_vars, ~ (MaxDepth > 0),
         NEW l \in listeners', NEW t \in DOMAIN weight', t.start = l.state
  PROVE  Cared(l, t)'
<1> USE DEF Inv
<1>1. CASE l \in listeners /\ t \in DOMAIN weight /\ weight'[t] = weight[t]
  <2>1. Cared(l, t)
    BY <1>1 DEF NothingLost, Cared
  <2> QED BY <1>1, <2>1, CaredStays
<1>2. CASE t \notin DOMAIN weight \/ weight'[t] # weight[t]
  <2>1. AddWeight
    BY <1>2 DEF Next, Client, Engine, vars, StartPostStar, AddRule, AddSeed,
       ServeStateListeners, Deliver, RegisterListener, ReplayTransition,
       RecordUnbalancedPop, ReplayRule, Return
  <2>2. AddChanged(Top.t, Top.w)
    BY <1>2, <2>1 DEF AddWeight, AddReject, AddAbsorbed
  <2>3. t = Top.t /\ weight'[t] = Combined(Top.t, Top.w)
    BY <1>2, <2>2 DEF AddChanged
  <2> DEFINE y == Updated(Top.t, Combined(Top.t, Top.w))
  <2>4. y \in Range(stack')
    BY <2>1, <2>2, AddFrames DEF TypeInv
  <2>5. y.op = "updated" /\ y.t = t /\ y.w = weight'[t]
    BY <2>3 DEF Updated
  <2> HIDE DEF y
  <2> QED BY <2>4, <2>5 DEF Cared, Awaited
<1>3. CASE l \notin listeners
  <2>1. RegisterListener
    BY <1>3 DEF Next, Client, Engine, vars, StartPostStar, AddRule, AddSeed,
       AddWeight, ServeStateListeners, Deliver, ReplayTransition,
       RecordUnbalancedPop, ReplayRule, Return
  <2>2. l = Top.l /\ Top.l \notin listeners /\ weight' = weight
    BY <1>3, <2>1 DEF RegisterListener
  <2> DEFINE y == Replay(Top.l, OutOf(Top.l.state))
  <2>3. y \in Range(stack')
    BY <2>1, <2>2, RegisterFrames DEF TypeInv
  <2>4. y.op = "replay" /\ y.l = l /\ t \in y.ts
    BY <2>2 DEF Replay, OutOf
  <2> HIDE DEF y
  <2> QED BY <2>3, <2>4 DEF Cared, Awaited
<1> QED BY <1>1, <1>2, <1>3

LEMMA RulesStayOwed ==
  ASSUME Inv, [Next]_vars, ~ (MaxDepth > 0), started', NEW r \in rules'
  PROVE  \/ Owed(Register(ListenerOf(r)))'
         \/ \E f \in Range(stack') : f.op = "rules" /\ r \in f.rs
<1> USE DEF Inv
<1> DEFINE c == Register(ListenerOf(r))
<1>0. TypeInv'
  BY TypeStep
<1>1. c \in CallFrame
  <2>1. r \in Rules
    BY <1>0 DEF TypeInv, TypeOK
  <2> QED BY <2>1, ListenerTypes, FrameTypes
<1> HIDE DEF c
<1>2. CASE started /\ r \in rules
  <2>1. CASE Owed(c)
    BY <1>1, <2>1, StepOwed DEF c
  <2>2. CASE ~ Owed(c)
    <3>1. PICK f \in Range(stack) : f.op = "rules" /\ r \in f.rs
      BY <1>2, <2>2 DEF NothingLost, c
    <3>2. CASE f \in Range(stack')
      BY <3>1, <3>2
    <3>3. CASE f \notin Range(stack')
      <4>1. Engine /\ f = Top
        BY <3>3, FramesStay
      <4>2. ReplayRule
        BY <3>1, <4>1 DEF Engine, AddWeight, ServeStateListeners, Deliver,
           RegisterListener, ReplayTransition, RecordUnbalancedPop, Return, Running
      <4>3. PICK x \in Top.rs :
              Range(stack') = {Register(ListenerOf(x)), RuleLoop(Top.rs \ {x})}
                              \cup Range(Tail(stack))
        BY <4>2, RuleFrames DEF TypeInv
      <4>4. CASE x = r
        BY <4>3, <4>4 DEF Owed, c
      <4>5. CASE x # r
        <5> DEFINE y == RuleLoop(Top.rs \ {x})
        <5>1. y \in Range(stack') /\ y.op = "rules" /\ r \in y.rs
          BY <3>1, <4>1, <4>3, <4>5 DEF RuleLoop
        <5> HIDE DEF y
        <5> QED BY <5>1
      <4> QED BY <4>4, <4>5
    <3> QED BY <3>2, <3>3
  <2> QED BY <2>1, <2>2
<1>3. CASE ~ started
  <2>1. StartPostStar
    BY <1>3 DEF Next, Client, Engine, vars, AddRule, AddSeed, AddWeight,
       ServeStateListeners, Deliver, RegisterListener, ReplayTransition,
       RecordUnbalancedPop, ReplayRule, Return
  <2> DEFINE y == RuleLoop(rules)
  <2>2. y \in Frame
    BY FrameTypes DEF TypeInv, TypeOK
  <2>3. Range(stack') = {y} /\ y.op = "rules" /\ r \in y.rs
    BY <2>1, <2>2, SingleRange DEF StartPostStar, RuleLoop
  <2> HIDE DEF y
  <2> QED BY <2>3
<1>4. CASE started /\ r \notin rules
  <2>1. AddRule(r)
    BY <1>4 DEF Next, Client, Engine, vars, StartPostStar, AddRule, AddSeed, AddWeight,
       ServeStateListeners, Deliver, RegisterListener, ReplayTransition,
       RecordUnbalancedPop, ReplayRule, Return
  <2>2. c \in Range(stack')
    BY <1>1, <1>4, <2>1, CallsAreFrames, PushFrame DEF AddRule, c, TypeInv, TypeOK
  <2> QED BY <2>2 DEF Owed, c
<1> QED BY <1>2, <1>3, <1>4

LEMMA SeedsStayOwed ==
  ASSUME Inv, [Next]_vars, ~ (MaxDepth > 0), NEW s \in seeded'
  PROVE  Owed(Add(s[1], s[2]))'
<1> USE DEF Inv
<1> DEFINE c == Add(s[1], s[2])
<1>0. TypeInv'
  BY TypeStep
<1>1. c \in CallFrame
  <2>1. s \in Transition \X Weights
    BY <1>0, RuleAssumption DEF TypeInv, TypeOK
  <2> QED BY <2>1, FrameTypes
<1> HIDE DEF c
<1>2. CASE s \in seeded
  BY <1>1, <1>2, StepOwed DEF NothingLost, c
<1>3. CASE s \notin seeded
  <2>1. AddSeed(s)
    BY <1>3 DEF Next, Client, Engine, vars, StartPostStar, AddRule, AddSeed, AddWeight,
       ServeStateListeners, Deliver, RegisterListener, ReplayTransition,
       RecordUnbalancedPop, ReplayRule, Return
  <2>2. c \in Range(stack')
    BY <1>1, <2>1, CallsAreFrames, PushFrame DEF AddSeed, c, TypeInv, TypeOK
  <2> QED BY <2>2 DEF Owed, c
<1> QED BY <1>2, <1>3

LEMMA InvStep ==
  ASSUME ~ (MaxDepth > 0), Inv, [Next]_vars
  PROVE  Inv'
<1>1. TypeInv'
  BY TypeStep DEF Inv
<1>2. \A l \in listeners', t \in DOMAIN weight' : t.start = l.state => Cared(l, t)'
  BY PairsStayCared
<1>3. NothingLost'
  BY <1>2, RulesStayOwed, SeedsStayOwed DEF NothingLost, Cared
<1> QED BY <1>1, <1>3 DEF Inv

LEMMA InvInit == Init => Inv
BY TypeInit DEF Init, Inv, NothingLost

\* In the middle of any nesting of handlers, every rule, seed and pair of a
\* listener and a transition is in force or ahead of a call on the stack.
THEOREM NothingIsLost ==
  ASSUME ~ (MaxDepth > 0)
  PROVE  Spec => []NothingLost
<1>1. Init => Inv
  BY InvInit
<1>2. Inv /\ [Next]_vars => Inv'
  BY InvStep
<1>3. Inv => NothingLost
  BY DEF Inv
<1> QED BY <1>1, <1>2, <1>3, PTL DEF Spec

\* When no call is in progress the automaton is closed under the rules: the
\* fixed point the listeners compute is complete, in whatever order rules,
\* seeds and notifications were interleaved.
THEOREM Saturation ==
  ASSUME ~ (MaxDepth > 0)
  PROVE  Spec => []QuietImpliesSaturated
<1>1. Init => Inv
  BY InvInit
<1>2. Inv /\ [Next]_vars => Inv'
  BY InvStep
<1>3. Inv => QuietImpliesSaturated
  <2> SUFFICES ASSUME Inv, stack = << >> PROVE Saturated
    BY DEF QuietImpliesSaturated
  <2>1. Range(stack) = {}
    BY EmptyRange
  <2>2. \A c : Owed(c) => Done(c)
    BY <2>1 DEF Owed
  <2>3. \A l, t : ~ Awaited(l, t)
    BY <2>1 DEF Awaited
  <2>4. started => \A r \in rules : Done(Register(ListenerOf(r)))
    BY <2>1, <2>2 DEF Inv, NothingLost
  <2>5. started => \A r \in rules : ListenerOf(r) \in listeners
    BY <2>4 DEF Done, Register
  <2>6. \A s \in seeded : Done(Add(s[1], s[2]))
    BY <2>2 DEF Inv, NothingLost
  <2>7. ASSUME NEW l \in listeners, NEW t \in DOMAIN weight, t.start = l.state
        PROVE  Served(l, t)
    BY <2>2, <2>3, <2>7 DEF Inv, NothingLost, Served
  <2> QED BY <2>5, <2>6, <2>7 DEF Saturated
<1> QED BY <1>1, <1>2, <1>3, PTL DEF Spec

-----------------------------------------------------------------------------
(* The automaton PostStar leaves behind is the least one closed under the  *)
(* rules: it depends on the rules and the seeds, not on the order in which *)
(* hash collections were walked, listeners registered or rules discovered. *)
(*                                                                         *)
(* S, L and U stand for a candidate: weights of transitions, listeners and *)
(* unbalanced pops.                                                        *)

\* k does all that l does: a transitive listener of a larger weight covers one
\* of a smaller weight; other listeners cover only themselves.
Covers(k, l) ==
  \/ k = l
  \/ /\ l.kind = "transitive"
     /\ k.kind = "transitive" /\ k.state = l.state /\ k.start = l.start
     /\ Leq(l.w, k.w)

\* The candidate has what the call c asks for.
Within(S, L, U, c) ==
  \/ /\ c.op = "add"
     /\ SelfLoop(c.t) \/ (c.t \in DOMAIN S /\ Leq(c.w, S[c.t]))
  \/ c.op = "register" /\ \E k \in L : Covers(k, c.l)
  \/ /\ c.op = "pop"
     /\ << c.p, c.t >> \in DOMAIN U /\ Leq(c.w, U[<< c.p, c.t >>])

Candidate(S, L, U) ==
  /\ DOMAIN S \subseteq Transition /\ \A t \in DOMAIN S : S[t] \in Weights
  /\ L \subseteq Listener
  /\ DOMAIN U \subseteq Control \X Transition /\ \A x \in DOMAIN U : U[x] \in Weights

\* The candidate is closed under the rules and seeds known so far.
Closed(S, L, U) ==
  /\ \A r \in rules : \E k \in L : Covers(k, ListenerOf(r))
  /\ \A s \in seeded : Within(S, L, U, Add(s[1], s[2]))
  /\ \A l \in L, t \in DOMAIN S :
       t.start = l.state => \A c \in Range(Calls(l, t, S[t])) : Within(S, L, U, c)

\* The automaton is part of the candidate.
Below(S, L, U) ==
  /\ \A t \in DOMAIN weight : t \in DOMAIN S /\ Leq(weight[t], S[t])
  /\ \A l \in listeners : \E k \in L : Covers(k, l)
  /\ \A x \in DOMAIN unbalancedPops : x \in DOMAIN U /\ Leq(unbalancedPops[x], U[x])

\* What is on the stack only ever leads to parts of the candidate.
FrameWithin(S, L, U, f) ==
  CASE f.op \in {"add", "register", "pop"} -> Within(S, L, U, f)
    [] f.op \in {"updated", "notify"} ->
         /\ f.t \in DOMAIN S /\ Leq(f.w, S[f.t])
         /\ f.op = "notify" =>
              \A l \in f.ls : l \in listeners /\ l.state = f.t.start
    [] f.op = "replay" ->
         f.l \in listeners /\ \A t \in f.ts : t.start = f.l.state
    [] f.op = "rules" -> f.rs \subseteq rules
    [] OTHER -> TRUE

BelowInv(S, L, U) ==
  Closed(S, L, U) =>
    Below(S, L, U) /\ \A f \in Range(stack) : FrameWithin(S, L, U, f)

-----------------------------------------------------------------------------
(* Handlers are monotone *)

LEMMA AddWithin ==
  ASSUME NEW S, NEW L, NEW U, Candidate(S, L, U), NEW t \in Transition,
         NEW u \in Weights, NEW w \in Weights, Leq(u, w),
         Within(S, L, U, Add(t, w))
  PROVE  Within(S, L, U, Add(t, u))
<1>1. CASE SelfLoop(t)
  BY <1>1 DEF Within, Add
<1>2. CASE ~ SelfLoop(t)
  <2>1. t \in DOMAIN S /\ Leq(w, S[t]) /\ S[t] \in Weights
    BY <1>2 DEF Within, Add, Candidate
  <2>2. Leq(u, S[t])
    BY <2>1, LeqTransitive
  <2> QED BY <2>1, <2>2 DEF Within, Add
<1> QED BY <1>1, <1>2

LEMMA ExtendMonotone ==
  ASSUME NEW u \in Weights, NEW v \in Weights, NEW x \in Weights, NEW y \in Weights,
         Leq(u, v), Leq(x, y)
  PROVE  Leq(Extend(u, x), Extend(v, y))
<1>1. Leq(Extend(u, x), Extend(v, x)) /\ Leq(Extend(v, x), Extend(v, y))
  BY OrderAssumption
<1>2. /\ Extend(u, x) \in Weights /\ Extend(v, x) \in Weights /\ Extend(v, y) \in Weights
  BY WeightAssumption
<1> QED BY <1>1, <1>2, LeqTransitive

LEMMA PairRange == \A x, y : Range(<< x, y >>) = {x, y}
<1> SUFFICES ASSUME NEW x, NEW y PROVE Range(<< x, y >>) = {x, y}
  OBVIOUS
<1>1. DOMAIN << x, y >> = {1, 2} /\ << x, y >>[1] = x /\ << x, y >>[2] = y
  OBVIOUS
<1> QED BY <1>1 DEF Range

LEMMA CoversTransitive ==
  ASSUME NEW j \in Listener, NEW k \in Listener, NEW l \in Listener,
         Covers(j, k), Covers(k, l)
  PROVE  Covers(j, l)
<1>1. CASE j = k \/ k = l
  BY <1>1
<1>2. CASE /\ l.kind = "transitive" /\ k.kind = "transitive" /\ j.kind = "transitive"
           /\ j.state = l.state /\ j.start = l.start
           /\ Leq(l.w, k.w) /\ Leq(k.w, j.w)
  <2>1. l.w \in Weights /\ k.w \in Weights /\ j.w \in Weights
    BY <1>2, ListenerKinds
  <2> QED BY <1>2, <2>1, LeqTransitive DEF Covers
<1> QED BY <1>1, <1>2 DEF Covers

\* The calls of HandlePopListener, as a set.
LEMMA PopCallsRange ==
  ASSUME NEW l, NEW t, NEW w
  PROVE  LET match == Accepts(t.label, l.label) \/ Accepts(l.label, t.label)
             new == Extend(w, l.w)
         IN  Range(PopCalls(l, t, w)) =
               (IF match /\ t.target \in Generated
                THEN {Add(Tr(l.start, Epsilon, t.target), new),
                      Register(TransitiveListener(l.start, t.label, t.target, new))}
                ELSE IF match /\ t.target \in Unbalanced
                THEN {UnbalancedPop(l.start, t, w)}
                ELSE {})
               \cup (IF t.label \in Empties
                     THEN {Register(PopListener(t.target, l.label, l.start, l.w))}
                     ELSE {})
<1> DEFINE match == Accepts(t.label, l.label) \/ Accepts(l.label, t.label)
           new == Extend(w, l.w)
           x == Add(Tr(l.start, Epsilon, t.target), new)
           y == Register(TransitiveListener(l.start, t.label, t.target, new))
           v == UnbalancedPop(l.start, t, w)
           z == Register(PopListener(t.target, l.label, l.start, l.w))
           first == IF match /\ t.target \in Generated THEN << x, y >>
                    ELSE IF match /\ t.target \in Unbalanced THEN << v >> ELSE << >>
           second == IF t.label \in Empties THEN << z >> ELSE << >>
<1>1. PopCalls(l, t, w) = first \o second
  BY DEF PopCalls
<1> HIDE DEF x, y, v, z, match
<1>2. first \in Seq({x, y, v, z}) /\ second \in Seq({x, y, v, z})
  <2> DEFINE T == {x, y, v, z}
  <2>1. x \in T /\ y \in T /\ v \in T /\ z \in T
    OBVIOUS
  <2> HIDE DEF T
  <2>2. << x, y >> \in Seq(T) /\ << v >> \in Seq(T) /\ << z >> \in Seq(T) /\ << >> \in Seq(T)
    BY <2>1
  <2>3. first \in Seq(T) /\ second \in Seq(T)
    BY <2>2
  <2> QED BY <2>3 DEF T
<1>3. Range(first) = IF match /\ t.target \in Generated THEN {x, y}
                     ELSE IF match /\ t.target \in Unbalanced THEN {v} ELSE {}
  BY PairRange, SingleRange, EmptyRange
<1>4. Range(second) = IF t.label \in Empties THEN {z} ELSE {}
  BY SingleRange, EmptyRange
<1> HIDE DEF first, second
<1>5. Range(first \o second) = Range(first) \cup Range(second)
  BY <1>2, RangeConcat
<1> QED BY <1>1, <1>3, <1>4, <1>5 DEF x, y, v, z, match

\* The handler of a listener that k covers, run with a weight that w absorbs,
\* asks for nothing that k run with w does not ask for.
LEMMA CallsMonotone ==
  ASSUME NEW S, NEW L, NEW U, Candidate(S, L, U),
         NEW k \in Listener, NEW l \in Listener, Covers(k, l),
         NEW t \in Transition, NEW u \in Weights, NEW w \in Weights, Leq(u, w),
         \A c \in Range(Calls(k, t, w)) : Within(S, L, U, c)
  PROVE  \A c \in Range(Calls(l, t, u)) : Within(S, L, U, c)
<1> USE TransitionTypes, LeqReflexive
<1>c. Control \subseteq State /\ Epsilon \in Symbol /\ One \in Weights
  BY SymbolAssumption, WeightAssumption DEF State
<1>1. CASE l.kind = "pop"
  <2>1. k = l
    BY <1>1 DEF Covers
  <2>2. /\ l.state \in State /\ l.label \in Symbol \ Empties
        /\ l.start \in Control /\ l.w \in Weights
    BY <1>1, ListenerKinds
  <2> DEFINE new == Extend(u, l.w)
             big == Extend(w, l.w)
             e == Tr(l.start, Epsilon, t.target)
             x == TransitiveListener(l.start, t.label, t.target, new)
             y == TransitiveListener(l.start, t.label, t.target, big)
             z == Register(PopListener(t.target, l.label, l.start, l.w))
             match == Accepts(t.label, l.label) \/ Accepts(l.label, t.label)
  <2>3. new \in Weights /\ big \in Weights /\ Leq(new, big)
    BY <2>2, ExtendMonotone, WeightAssumption
  <2>4. x \in Listener /\ y \in Listener /\ e \in Transition
    BY <1>c, <2>2, <2>3, ListenerTypes
  <2>5. Covers(y, x)
    BY <2>3 DEF Covers, TransitiveListener
  <2> HIDE DEF new, big, match
  <2>6. Range(PopCalls(l, t, u)) =
          (IF match /\ t.target \in Generated THEN {Add(e, new), Register(x)}
           ELSE IF match /\ t.target \in Unbalanced THEN {UnbalancedPop(l.start, t, u)}
           ELSE {})
          \cup (IF t.label \in Empties THEN {z} ELSE {})
    BY PopCallsRange DEF new, match
  <2>7. Range(PopCalls(l, t, w)) =
          (IF match /\ t.target \in Generated THEN {Add(e, big), Register(y)}
           ELSE IF match /\ t.target \in Unbalanced THEN {UnbalancedPop(l.start, t, w)}
           ELSE {})
          \cup (IF t.label \in Empties THEN {z} ELSE {})
    BY PopCallsRange DEF big, match
  <2>8. \A c \in Range(PopCalls(l, t, w)) : Within(S, L, U, c)
    BY <1>1, <2>1 DEF Calls
  <2>9. Within(S, L, U, Add(e, big)) => Within(S, L, U, Add(e, new))
    BY <2>3, <2>4, AddWithin
  <2>10. Within(S, L, U, Register(y)) => Within(S, L, U, Register(x))
    <3>1. SUFFICES ASSUME Within(S, L, U, Register(y)) PROVE Within(S, L, U, Register(x))
      OBVIOUS
    <3>2. PICK j \in L : Covers(j, y)
      BY <3>1 DEF Within, Register
    <3>3. j \in Listener
      BY DEF Candidate
    <3>4. Covers(j, x)
      BY <2>3, <2>4, <2>5, <3>2, <3>3, CoversTransitive DEF TransitiveListener
    <3> QED BY <3>4 DEF Within, Register
  <2>11. Within(S, L, U, UnbalancedPop(l.start, t, w))
           => Within(S, L, U, UnbalancedPop(l.start, t, u))
    <3> DEFINE a == << l.start, t >>
    <3>1. SUFFICES ASSUME a \in DOMAIN U, Leq(w, U[a]) PROVE Leq(u, U[a])
      BY DEF Within, UnbalancedPop
    <3>2. U[a] \in Weights
      BY <3>1 DEF Candidate
    <3> QED BY <3>1, <3>2, LeqTransitive
  <2> HIDE DEF e, x, y, z
  <2>12. \A c \in Range(PopCalls(l, t, u)) : Within(S, L, U, c)
    BY <2>6, <2>7, <2>8, <2>9, <2>10, <2>11
  <2> QED BY <1>1, <2>12 DEF Calls
<1>2. CASE l.kind = "transitive"
  <2>1. k.kind = "transitive" /\ k.start = l.start /\ Leq(l.w, k.w)
        /\ l.start \in Control /\ l.w \in Weights /\ k.w \in Weights
    BY <1>2, ListenerKinds DEF Covers
  <2> DEFINE e == Tr(l.start, t.label, t.target)
  <2>2. e \in Transition
    BY <1>c, <2>1
  <2>3. /\ Extend(u, l.w) \in Weights /\ Extend(w, k.w) \in Weights
        /\ Leq(Extend(u, l.w), Extend(w, k.w))
    BY <2>1, ExtendMonotone, WeightAssumption
  <2>4. /\ Range(Calls(l, t, u)) = {Add(e, Extend(u, l.w))}
        /\ Range(Calls(k, t, w)) = {Add(e, Extend(w, k.w))}
    BY <1>2, <2>1, SingleRange DEF Calls, TransitiveCalls
  <2> HIDE DEF e
  <2> QED BY <2>2, <2>3, <2>4, AddWithin
<1>3. CASE l.kind = "normal"
  <2>1. k = l
    BY <1>3 DEF Covers
  <2> DEFINE r == l.rule
             a == IF r.l2 = Any THEN t.label ELSE r.l2
             e == Tr(r.s2, a, t.target)
  <2>2. r.s2 \in Control /\ r.l2 \in Symbol \cup {Any} /\ r.w \in Weights
    BY <1>3, ListenerKinds DEF NormalRule
  <2>3. e \in Transition
    BY <1>c, <2>2
  <2>4. /\ Extend(u, r.w) \in Weights /\ Extend(w, r.w) \in Weights
        /\ Leq(Extend(u, r.w), Extend(w, r.w))
    BY <2>2, OrderAssumption, WeightAssumption
  <2>5. \/ Calls(l, t, u) = << >> /\ Calls(l, t, w) = << >>
        \/ /\ Calls(l, t, u) = << Add(e, Extend(u, r.w)) >>
           /\ Calls(l, t, w) = << Add(e, Extend(w, r.w)) >>
    BY <1>3 DEF Calls, NormalCalls
  <2> HIDE DEF e, r
  <2>6. CASE Calls(l, t, u) = << >>
    BY <2>6, EmptyRange
  <2>7. CASE /\ Calls(l, t, u) = << Add(e, Extend(u, r.w)) >>
             /\ Calls(l, t, w) = << Add(e, Extend(w, r.w)) >>
    <3>1. Range(Calls(l, t, u)) = {Add(e, Extend(u, r.w))}
          /\ Range(Calls(l, t, w)) = {Add(e, Extend(w, r.w))}
      BY <2>7, SingleRange
    <3> QED BY <2>1, <2>3, <2>4, <3>1, AddWithin
  <2> QED BY <2>5, <2>6, <2>7
<1>4. CASE l.kind = "push"
  <2>1. k = l
    BY <1>4 DEF Covers
  <2> DEFINE r == l.rule
             a == IF r.site = Any THEN t.label ELSE r.site
             inner == << r.s2, r.l2 >>
             e == Tr(inner, a, t.target)
             call == Add(Tr(r.s2, r.l2, inner), One)
  <2>2. /\ r.s2 \in Control /\ r.l2 \in Symbol /\ r.site \in Symbol \cup {Any}
        /\ r.w \in Weights
    BY <1>4, ListenerKinds DEF PushRule
  <2>3. e \in Transition
    BY <2>2 DEF State, Generated
  <2>4. /\ Extend(u, r.w) \in Weights /\ Extend(w, r.w) \in Weights
        /\ Leq(Extend(u, r.w), Extend(w, r.w))
    BY <2>2, OrderAssumption, WeightAssumption
  <2>5. \/ Calls(l, t, u) = << >> /\ Calls(l, t, w) = << >>
        \/ /\ Calls(l, t, u) = << Add(e, Extend(u, r.w)), call >>
           /\ Calls(l, t, w) = << Add(e, Extend(w, r.w)), call >>
    BY <1>4 DEF Calls, PushCalls
  <2> HIDE DEF e, r, call
  <2>6. CASE Calls(l, t, u) = << >>
    BY <2>6, EmptyRange
  <2>7. CASE /\ Calls(l, t, u) = << Add(e, Extend(u, r.w)), call >>
             /\ Calls(l, t, w) = << Add(e, Extend(w, r.w)), call >>
    <3>1. Range(Calls(l, t, u)) = {Add(e, Extend(u, r.w)), call}
          /\ Range(Calls(l, t, w)) = {Add(e, Extend(w, r.w)), call}
      BY <2>7, PairRange
    <3> QED BY <2>1, <2>3, <2>4, <3>1, AddWithin
  <2> QED BY <2>5, <2>6, <2>7
<1> QED BY <1>1, <1>2, <1>3, <1>4, ListenerKinds

-----------------------------------------------------------------------------
(* Every step stays below a closed candidate *)

\* A listener of the automaton, told of one of its transitions with a weight
\* the candidate absorbs, asks for nothing outside the candidate.
LEMMA HandlerWithin ==
  ASSUME NEW S, NEW L, NEW U, TypeOK, Candidate(S, L, U), Closed(S, L, U),
         NEW l \in listeners, \E k \in L : Covers(k, l),
         NEW t \in DOMAIN S, t.start = l.state,
         NEW w \in Weights, Leq(w, S[t])
  PROVE  \A c \in Range(Calls(l, t, w)) : Within(S, L, U, c)
<1>1. PICK k \in L : Covers(k, l)
  OBVIOUS
<1>2. /\ k \in Listener /\ l \in Listener /\ t \in Transition /\ S[t] \in Weights
  BY DEF Candidate, TypeOK
<1>3. t.start = k.state
  BY <1>1 DEF Covers
<1>4. \A c \in Range(Calls(k, t, S[t])) : Within(S, L, U, c)
  BY <1>3 DEF Closed
<1> QED BY <1>1, <1>2, <1>4, CallsMonotone

LEMMA ClosedBefore ==
  ASSUME NEW S, NEW L, NEW U, [Next]_vars, Closed(S, L, U)'
  PROVE  Closed(S, L, U) /\ rules \subseteq rules' /\ seeded \subseteq seeded'
<1>1. rules \subseteq rules' /\ seeded \subseteq seeded'
  BY DEF Next, Client, Engine, vars, StartPostStar, AddRule, AddSeed, AddWeight,
     ServeStateListeners, Deliver, RegisterListener, ReplayTransition,
     RecordUnbalancedPop, ReplayRule, Return
<1>2. /\ \A r \in rules' : \E k \in L : Covers(k, ListenerOf(r))
      /\ \A s \in seeded' : Within(S, L, U, Add(s[1], s[2]))
      /\ \A l \in L, t \in DOMAIN S :
           t.start = l.state => \A c \in Range(Calls(l, t, S[t])) : Within(S, L, U, c)
  BY DEF Closed
<1> QED BY <1>1, <1>2 DEF Closed

LEMMA CallFrameKinds == \A c \in CallFrame : c.op \in {"add", "register", "pop"}
BY DEF CallFrame

LEMMA LeqBoth ==
  ASSUME NEW u \in Weights, NEW v \in Weights, NEW w \in Weights, Leq(u, w), Leq(v, w)
  PROVE  Leq(Combine(u, v), w)
<1>1. Combine(w, u) = w /\ Combine(w, v) = w
  BY DEF Leq
<1>2. Combine(Combine(w, u), v) = Combine(w, Combine(u, v))
  BY OrderAssumption
<1> QED BY <1>1, <1>2 DEF Leq

\* The steps of the engine that leave weights alone.
LEMMA EngineBelow ==
  ASSUME NEW S, NEW L, NEW U, Candidate(S, L, U), TypeInv, Closed(S, L, U),
         Below(S, L, U), \A f \in Range(stack) : FrameWithin(S, L, U, f),
         Engine, ~ AddWeight
  PROVE  (Below(S, L, U) /\ \A f \in Range(stack) : FrameWithin(S, L, U, f))'
<1> USE DEF TypeInv
<1>1. /\ Range(stack) = {Top} \cup Range(Tail(stack)) /\ stack \in Seq(Frame)
      /\ FrameWithin(S, L, U, Top) /\ Top \in Frame
  BY TailStays, RangeTail DEF Top
<1>2. UNCHANGED << weight, rules >> /\ listeners \subseteq listeners'
  BY DEF Engine, ServeStateListeners, Deliver, RegisterListener, ReplayTransition,
     RecordUnbalancedPop, ReplayRule, Return
<1>3. \A f \in Range(Tail(stack)) : FrameWithin(S, L, U, f)'
  BY <1>1, <1>2 DEF FrameWithin
<1>4. \A c \in CallFrame : Within(S, L, U, c) => FrameWithin(S, L, U, c)'
  BY CallFrameKinds DEF FrameWithin
<1>5. UNCHANGED << listeners, unbalancedPops >> => Below(S, L, U)'
  BY <1>2 DEF Below
<1>6. CASE ServeStateListeners
  <2> DEFINE y == Notify(Top.t, Top.w, { l \in listeners : l.state = Top.t.start })
  <2>1. Top.t \in DOMAIN S /\ Leq(Top.w, S[Top.t])
    BY <1>1, <1>6 DEF FrameWithin, ServeStateListeners, Running
  <2>2. ASSUME NEW f, f = y PROVE FrameWithin(S, L, U, f)'
    BY <2>2, <1>6, <2>1 DEF FrameWithin, Notify, ServeStateListeners
  <2> HIDE DEF y
  <2> QED BY <1>3, <1>5, <1>6, <2>2, ServeFrames DEF ServeStateListeners, y
<1>7. CASE Deliver
  <2>1. PICK l \in Top.ls :
          /\ Range(stack') = Range(Calls(l, Top.t, Top.w))
                            \cup {Notify(Top.t, Top.w, Top.ls \ {l})} \cup Range(Tail(stack))
          /\ Range(Calls(l, Top.t, Top.w)) \subseteq CallFrame
    BY <1>7, DeliverFrames
  <2>2. /\ Top.t \in DOMAIN S /\ Leq(Top.w, S[Top.t]) /\ Top.w \in Weights
        /\ \A k \in Top.ls : k \in listeners /\ k.state = Top.t.start
    BY <1>1, <1>7, FrameKinds DEF FrameWithin, Deliver, Running
  <2>3. \E k \in L : Covers(k, l)
    BY <2>2 DEF Below
  <2>4. \A c \in Range(Calls(l, Top.t, Top.w)) : Within(S, L, U, c)
    BY <2>2, <2>3, HandlerWithin
  <2> DEFINE y == Notify(Top.t, Top.w, Top.ls \ {l})
  <2>5. ASSUME NEW f, f = y PROVE FrameWithin(S, L, U, f)'
    BY <2>5, <1>7, <2>2 DEF FrameWithin, Notify, Deliver
  <2> HIDE DEF y
  <2> QED BY <1>3, <1>4, <1>5, <1>7, <2>1, <2>4, <2>5 DEF Deliver, y
<1>8. CASE ReplayTransition
  <2>1. PICK t \in Top.ts :
          /\ t \in DOMAIN weight
          /\ Range(stack') = Range(Calls(Top.l, t, weight[t]))
                            \cup {Replay(Top.l, Top.ts \ {t})} \cup Range(Tail(stack))
          /\ Range(Calls(Top.l, t, weight[t])) \subseteq CallFrame
    BY <1>8, ReplayFrames
  <2>2. Top.l \in listeners /\ \A x \in Top.ts : x.start = Top.l.state
    BY <1>1, <1>8 DEF FrameWithin, ReplayTransition, Running
  <2>3. t \in DOMAIN S /\ Leq(weight[t], S[t]) /\ weight[t] \in Weights
        /\ \E k \in L : Covers(k, Top.l)
    BY <2>1, <2>2 DEF Below, TypeOK
  <2>4. \A c \in Range(Calls(Top.l, t, weight[t])) : Within(S, L, U, c)
    BY <2>2, <2>3, HandlerWithin
  <2> DEFINE y == Replay(Top.l, Top.ts \ {t})
  <2>5. ASSUME NEW f, f = y PROVE FrameWithin(S, L, U, f)'
    BY <2>5, <1>8, <2>2 DEF FrameWithin, Replay, ReplayTransition
  <2> HIDE DEF y
  <2> QED BY <1>3, <1>4, <1>5, <1>8, <2>1, <2>4, <2>5 DEF ReplayTransition, y
<1>9. CASE ReplayRule
  <2>1. PICK r \in Top.rs :
          Range(stack') = {Register(ListenerOf(r)), RuleLoop(Top.rs \ {r})}
                          \cup Range(Tail(stack))
    BY <1>9, RuleFrames
  <2>2. Top.rs \subseteq rules
    BY <1>1, <1>9 DEF FrameWithin, ReplayRule, Running
  <2> DEFINE x == Register(ListenerOf(r))
             y == RuleLoop(Top.rs \ {r})
  <2>3. ASSUME NEW f, f = x PROVE FrameWithin(S, L, U, f)'
    BY <2>3, <2>2 DEF Closed, FrameWithin, Within, Register
  <2>4. ASSUME NEW f, f = y PROVE FrameWithin(S, L, U, f)'
    BY <2>4, <1>2, <2>2 DEF FrameWithin, RuleLoop
  <2> HIDE DEF x, y
  <2> QED BY <1>3, <1>5, <1>9, <2>1, <2>3, <2>4 DEF ReplayRule, x, y
<1>10. CASE RegisterListener
  <2> DEFINE y == Replay(Top.l, OutOf(Top.l.state))
  <2>1. Range(stack') \subseteq {y} \cup Range(Tail(stack))
        /\ (Top.l \in listeners => Range(stack') = Range(Tail(stack)))
    BY <1>10, RegisterFrames
  <2>2. Top.l \in listeners' /\ listeners' \subseteq listeners \cup {Top.l}
        /\ UNCHANGED unbalancedPops
    BY <1>10 DEF RegisterListener
  <2>3. ASSUME NEW f, f = y PROVE FrameWithin(S, L, U, f)'
    BY <2>3, <2>2 DEF FrameWithin, Replay, OutOf
  <2>4. \E k \in L : Covers(k, Top.l)
    BY <1>1, <1>10 DEF FrameWithin, Within, RegisterListener, Running
  <2>5. \A l \in listeners' : \E k \in L : Covers(k, l)
    BY <2>2, <2>4 DEF Below
  <2>6. Below(S, L, U)'
    BY <1>2, <2>2, <2>5 DEF Below
  <2> HIDE DEF y
  <2> QED BY <1>3, <2>1, <2>3, <2>6
<1>11. CASE RecordUnbalancedPop
  <2> DEFINE entry == << Top.p, Top.t >>
             new == IF entry \in DOMAIN unbalancedPops
                    THEN Combine(unbalancedPops[entry], Top.w) ELSE Top.w
  <2>1. Range(stack') \subseteq {Popped} \cup Range(Tail(stack))
    BY <1>11, PopFrames
  <2>2. ASSUME NEW f, f = Popped PROVE FrameWithin(S, L, U, f)'
    BY <2>2, <2>2 DEF FrameWithin, Popped
  <2>3. /\ entry \in DOMAIN U /\ Leq(Top.w, U[entry]) /\ Top.w \in Weights
        /\ U[entry] \in Weights
    BY <1>1, <1>11, FrameKinds DEF FrameWithin, Within, RecordUnbalancedPop, Running, Candidate
  <2>4. Leq(new, U[entry])
    <3>1. CASE entry \in DOMAIN unbalancedPops
      <4>1. Leq(unbalancedPops[entry], U[entry]) /\ unbalancedPops[entry] \in Weights
        BY <3>1 DEF Below, TypeOK
      <4> HIDE DEF entry
      <4>2. Leq(Combine(unbalancedPops[entry], Top.w), U[entry])
        BY <2>3, <4>1, LeqBoth
      <4> QED BY <3>1, <4>2
    <3>2. CASE entry \notin DOMAIN unbalancedPops
      BY <2>3, <3>2
    <3> QED BY <3>1, <3>2
  <2>5. \/ UNCHANGED unbalancedPops
        \/ unbalancedPops' = [x \in DOMAIN unbalancedPops \cup {entry} |->
                               IF x = entry THEN new ELSE unbalancedPops[x]]
    BY <1>11 DEF RecordUnbalancedPop
  <2> HIDE DEF entry, new
  <2>6. \A x \in DOMAIN unbalancedPops' : x \in DOMAIN U /\ Leq(unbalancedPops'[x], U[x])
    BY <2>3, <2>4, <2>5 DEF Below
  <2>7. UNCHANGED listeners
    BY <1>11 DEF RecordUnbalancedPop
  <2>8. Below(S, L, U)'
    BY <1>2, <2>6, <2>7 DEF Below
  <2> QED BY <1>3, <2>1, <2>2, <2>8
<1>12. CASE Return
  BY <1>3, <1>5, <1>12, ReturnFrames DEF Return
<1> QED BY <1>6, <1>7, <1>8, <1>9, <1>10, <1>11, <1>12 DEF Engine

LEMMA BelowStep ==
  ASSUME NEW S, NEW L, NEW U, Candidate(S, L, U), TypeInv, BelowInv(S, L, U), [Next]_vars
  PROVE  BelowInv(S, L, U)'
<1> SUFFICES ASSUME Closed(S, L, U)'
             PROVE  (Below(S, L, U) /\ \A f \in Range(stack) : FrameWithin(S, L, U, f))'
  BY DEF BelowInv
<1> USE DEF TypeInv
<1>1. /\ Closed(S, L, U) /\ rules \subseteq rules'
      /\ Below(S, L, U) /\ \A f \in Range(stack) : FrameWithin(S, L, U, f)
  BY ClosedBefore DEF BelowInv
<1>2. CASE UNCHANGED vars
  BY <1>1, <1>2 DEF vars, Below, FrameWithin
<1>3. CASE StartPostStar
  <2>1. Range(stack') = {RuleLoop(rules)}
    <3>1. RuleLoop(rules) \in Frame
      BY FrameTypes DEF TypeOK
    <3> QED BY <1>3, <3>1, SingleRange DEF StartPostStar
  <2>2. ASSUME NEW f, f = RuleLoop(rules) PROVE FrameWithin(S, L, U, f)'
    BY <2>2, <1>3 DEF FrameWithin, RuleLoop, StartPostStar
  <2> QED BY <1>1, <1>3, <2>1, <2>2 DEF StartPostStar, Below
<1>4. ASSUME NEW r \in Rules, AddRule(r)
      PROVE  (Below(S, L, U) /\ \A f \in Range(stack) : FrameWithin(S, L, U, f))'
  <2> DEFINE y == Register(ListenerOf(r))
  <2>1. y \in Frame
    BY ListenerTypes, FrameTypes, CallsAreFrames
  <2>2. Range(stack') \subseteq {y} \cup Range(stack)
    BY <1>4, <2>1, PushFrame DEF AddRule, TypeOK
  <2>3. \E k \in L : Covers(k, ListenerOf(r))
    BY <1>4 DEF Closed, AddRule
  <2>4. ASSUME NEW f, f = y PROVE FrameWithin(S, L, U, f)'
    BY <2>4, <2>3 DEF FrameWithin, Within, Register
  <2> HIDE DEF y
  <2>5. \A f \in Range(stack) : FrameWithin(S, L, U, f)'
    BY <1>1, <1>4 DEF FrameWithin, AddRule
  <2>6. Below(S, L, U)'
    BY <1>1, <1>4 DEF Below, AddRule
  <2> QED BY <2>2, <2>4, <2>5, <2>6
<1>5. ASSUME NEW s \in Seeds, AddSeed(s)
      PROVE  (Below(S, L, U) /\ \A f \in Range(stack) : FrameWithin(S, L, U, f))'
  <2> DEFINE y == Add(s[1], s[2])
  <2>1. y \in Frame
    BY RuleAssumption, FrameTypes, CallsAreFrames
  <2>2. Range(stack') \subseteq {y} \cup Range(stack)
    BY <1>5, <2>1, PushFrame DEF AddSeed, TypeOK
  <2>3. Within(S, L, U, y)
    BY <1>5 DEF Closed, AddSeed
  <2>4. ASSUME NEW f, f = y PROVE FrameWithin(S, L, U, f)'
    BY <2>4, <2>3 DEF FrameWithin, Add
  <2> HIDE DEF y
  <2>5. \A f \in Range(stack) : FrameWithin(S, L, U, f)'
    BY <1>1, <1>5 DEF FrameWithin, AddSeed
  <2>6. Below(S, L, U)'
    BY <1>1, <1>5 DEF Below, AddSeed
  <2> QED BY <2>2, <2>4, <2>5, <2>6
<1>6. CASE AddWeight
  <2> DEFINE t == Top.t
             w == Top.w
             y == Updated(t, Combined(t, w))
  <2>1. /\ t \in Transition /\ w \in Weights /\ Combined(t, w) \in Weights
        /\ Top \in Range(stack) /\ Top.op = "add"
        /\ Range(stack') \subseteq {y} \cup Range(Tail(stack))
        /\ ~ AddChanged(t, w) => Range(stack') = Range(Tail(stack))
        /\ Range(Tail(stack)) \subseteq Range(stack)
    BY <1>6, AddFrames, TailStays, TopFrame DEF AddWeight, Engine
  <2>2. UNCHANGED << rules, listeners, unbalancedPops >>
    BY <1>6 DEF AddWeight
  <2>3. \A f \in Range(stack) : FrameWithin(S, L, U, f)'
    BY <1>1, <2>2 DEF FrameWithin
  <2>4. CASE UNCHANGED weight /\ ~ AddChanged(t, w)
    BY <1>1, <2>1, <2>2, <2>3, <2>4 DEF Below
  <2>5. CASE AddChanged(t, w)
    <3>1. ~ SelfLoop(t)
      BY <2>5 DEF AddChanged
    <3>2. t \in DOMAIN S /\ Leq(w, S[t]) /\ S[t] \in Weights
      BY <1>1, <2>1, <3>1 DEF FrameWithin, Within, Candidate
    <3>3. Leq(Combined(t, w), S[t])
      <4>1. CASE t \in DOMAIN weight
        <5>1. Leq(weight[t], S[t]) /\ weight[t] \in Weights
          BY <1>1, <4>1 DEF Below, TypeOK
        <5>2. Leq(Combine(weight[t], w), S[t])
          BY <2>1, <3>2, <5>1, LeqBoth
        <5> QED BY <4>1, <5>2 DEF Combined
      <4>2. CASE t \notin DOMAIN weight
        BY <3>2, <4>2 DEF Combined
      <4> QED BY <4>1, <4>2
    <3>4. ASSUME NEW f, f = y PROVE FrameWithin(S, L, U, f)'
      BY <3>4, <3>2, <3>3 DEF FrameWithin, Updated
    <3> HIDE DEF y
    <3>5. \A x \in DOMAIN weight' : x \in DOMAIN S /\ Leq(weight'[x], S[x])
      BY <1>1, <2>5, <3>2, <3>3 DEF AddChanged, Below
    <3>6. Below(S, L, U)'
      BY <1>1, <2>2, <3>5 DEF Below
    <3> QED BY <2>1, <2>3, <3>4, <3>6
  <2> QED BY <1>6, <2>4, <2>5 DEF AddWeight, AddReject, AddAbsorbed, AddChanged
<1>7. CASE Engine /\ ~ AddWeight
  BY <1>1, <1>7, EngineBelow
<1> QED BY <1>2, <1>3, <1>4, <1>5, <1>6, <1>7 DEF Next, Client

\* The automaton never leaves any candidate closed under the rules and seeds
\* known so far: it derives nothing that the rules do not ask for, and stale
\* weights and repeated notifications add nothing.
THEOREM NothingInvented ==
  ASSUME NEW S, NEW L, NEW U, Candidate(S, L, U)
  PROVE  Spec => [](Closed(S, L, U) => Below(S, L, U))
<1>1. Init => TypeInv /\ BelowInv(S, L, U)
  <2> SUFFICES ASSUME Init PROVE TypeInv /\ BelowInv(S, L, U)
    OBVIOUS
  <2>1. Range(stack) = {} /\ DOMAIN weight = {} /\ listeners = {} /\ DOMAIN unbalancedPops = {}
    BY EmptyRange DEF Init
  <2> QED BY <2>1, TypeInit DEF BelowInv, Below
<1>2. TypeInv /\ BelowInv(S, L, U) /\ [Next]_vars => (TypeInv /\ BelowInv(S, L, U))'
  BY TypeStep, BelowStep
<1>3. BelowInv(S, L, U) => (Closed(S, L, U) => Below(S, L, U))
  BY DEF BelowInv
<1> QED BY <1>1, <1>2, <1>3, PTL DEF Spec

\* A quiet automaton is itself a closed candidate, so with NothingInvented it is
\* the least one: what the analysis computes does not depend on the order.
THEOREM QuietIsClosed ==
  ASSUME ~ (MaxDepth > 0)
  PROVE  Spec => [](started /\ stack = << >> => Closed(weight, listeners, unbalancedPops))
<1>1. Saturated /\ started => Closed(weight, listeners, unbalancedPops)
  <2> SUFFICES ASSUME Saturated, started PROVE Closed(weight, listeners, unbalancedPops)
    OBVIOUS
  <2>1. \A c : Done(c) => Within(weight, listeners, unbalancedPops, c)
    BY DEF Done, Within, Covers
  <2> QED BY <2>1 DEF Saturated, Served, Closed, Covers
<1>2. Spec => []QuietImpliesSaturated
  BY Saturation
<1>3. QuietImpliesSaturated
        => (started /\ stack = << >> => Closed(weight, listeners, unbalancedPops))
  BY <1>1 DEF QuietImpliesSaturated
<1> QED BY <1>2, <1>3, PTL

-----------------------------------------------------------------------------
(* PostStar implements the safety part of Saturation: every step either    *)
(* takes up one derived transition, lets one pop wait where it may, adds   *)
(* rules or a seed, or changes nothing that Saturation speaks of.          *)
(* Transitive listeners are what makes this delicate: one is registered    *)
(* for an eps transition that is added just before, so the calls of a      *)
(* handler have to run in their order, and the depth bound, which may      *)
(* reject that eps transition, has to be off.                              *)

\* The rules, the seeds and the waiting pops as Saturation sees them.
Known == IF started THEN rules ELSE {}
Sown == { s[1] : s \in seeded }
Waits == { [state |-> l.state, label |-> l.label, start |-> l.start] :
             l \in { l \in listeners : l.kind = "pop" } }

Promise == INSTANCE Saturation WITH
  Seeds <- { s[1] : s \in Seeds },
  Rejected <- { Tr(x, Epsilon, x) : x \in State },
  rules <- Known, seeds <- Sown, trans <- DOMAIN weight, pops <- Waits

Promised == Sown \cup Promise!Derived(Known, DOMAIN weight, Waits)
Awaiting == Promise!Waiting(Known, DOMAIN weight, Waits)

\* The eps transition a transitive listener follows.
Link(l) == Tr(l.start, Epsilon, l.state)

\* The listener l stands for a known rule, or for an eps transition that is there.
Founded(l) ==
  /\ l.kind \in {"normal", "push"} => l.rule \in Known /\ l.state = l.rule.s1
  /\ l.kind = "transitive" => Link(l) \in DOMAIN weight

\* A frame only asks for what is derived, and only tells what is there.
Justified(f) ==
  /\ f.op = "add" => f.t \in Promised
  /\ f.op = "register" =>
       /\ f.l.kind \in {"normal", "push"} => Founded(f.l)
       /\ f.l.kind = "transitive" => f.l.state \in Generated
       /\ f.l.kind = "pop" => Promise!Pop(f.l.state, f.l.label, f.l.start) \in Awaiting
  /\ f.op \in {"updated", "notify"} => f.t \in DOMAIN weight
  /\ f.op = "notify" => \A l \in f.ls : l \in listeners /\ l.state = f.t.start
  /\ f.op = "replay" => f.l \in listeners /\ \A t \in f.ts : t \in OutOf(f.l.state)
  /\ f.op = "rules" => started /\ f.rs \subseteq rules

\* In the stack s the eps transition of a transitive listener is among the
\* transitions T, or added by a call that runs before the listener is registered.
LinkedAt(T, s, i) ==
  \/ Link(s[i].l) \in T
  \/ \E j \in 1 .. Len(s) : j < i /\ s[j].op = "add" /\ s[j].t = Link(s[i].l)
Linked(T, s) ==
  \A i \in 1 .. Len(s) :
    s[i].op = "register" /\ s[i].l.kind = "transitive" => LinkedAt(T, s, i)

JustInv ==
  /\ \A l \in listeners : Founded(l)
  /\ \A f \in Range(stack) : Justified(f)
  /\ Linked(DOMAIN weight, stack)

\* More rules, transitions and waiting pops derive more.
LEMMA DerivedMonotone ==
  ASSUME NEW rs, NEW T, NEW P, NEW rs2, NEW T2, NEW P2,
         rs \subseteq rs2, T \subseteq T2, P \subseteq P2
  PROVE  /\ Promise!Derived(rs, T, P) \subseteq Promise!Derived(rs2, T2, P2)
         /\ Promise!Waiting(rs, T, P) \subseteq Promise!Waiting(rs2, T2, P2)
<1>1. Promise!RuleDerives(rs, T) \subseteq Promise!RuleDerives(rs2, T2)
  BY DEF Promise!RuleDerives
<1>2. Promise!Popped(T, P) \subseteq Promise!Popped(T2, P2)
  BY DEF Promise!Popped
<1>3. Promise!PopDerives(T, P) \subseteq Promise!PopDerives(T2, P2)
  BY <1>2 DEF Promise!PopDerives
<1>4. Promise!EpsilonDerives(T) \subseteq Promise!EpsilonDerives(T2)
  BY DEF Promise!EpsilonDerives
<1>5. Promise!Waiting(rs, T, P) \subseteq Promise!Waiting(rs2, T2, P2)
  BY DEF Promise!Waiting
<1> QED BY <1>1, <1>3, <1>4, <1>5 DEF Promise!Derived

\* What the justifications rest on is never taken back.
Lasts ==
  /\ rules \subseteq rules' /\ (started => started') /\ Sown \subseteq Sown'
  /\ DOMAIN weight \subseteq DOMAIN weight' /\ listeners \subseteq listeners'

LEMMA StepLasts ==
  ASSUME TypeInv, [Next]_vars
  PROVE  Lasts
<1>1. DOMAIN weight \subseteq DOMAIN weight' /\ listeners \subseteq listeners'
  BY StepGrows DEF Grows
<1>2. rules \subseteq rules' /\ (started => started') /\ seeded \subseteq seeded'
  <2>1. CASE Client
    <3>1. StartPostStar \/ (\E r \in Rules : AddRule(r)) \/ (\E x \in Seeds : AddSeed(x))
      BY <2>1 DEF Client
    <3>2. CASE StartPostStar
      BY <3>2 DEF StartPostStar
    <3>3. ASSUME NEW r \in Rules, AddRule(r)
          PROVE  rules \subseteq rules' /\ started' = started /\ seeded' = seeded
      BY <3>3 DEF AddRule
    <3>4. ASSUME NEW x \in Seeds, AddSeed(x)
          PROVE  seeded \subseteq seeded' /\ started' = started /\ rules' = rules
      BY <3>4 DEF AddSeed
    <3> QED BY <3>1, <3>2, <3>3, <3>4
  <2>2. CASE Engine \/ UNCHANGED vars
    <3>1. UNCHANGED << rules, started, seeded >>
      BY <2>2 DEF vars, Engine, AddWeight, ServeStateListeners, Deliver,
         RegisterListener, ReplayTransition, RecordUnbalancedPop, ReplayRule, Return
    <3> QED BY <3>1
  <2> QED BY <2>1, <2>2 DEF Next
<1>3. Sown \subseteq Sown'
  BY <1>2 DEF Sown
<1> QED BY <1>1, <1>2, <1>3 DEF Lasts

LEMMA JustifiedStays ==
  ASSUME Lasts
  PROVE  /\ Known \subseteq Known' /\ Waits \subseteq Waits'
         /\ Promised \subseteq Promised' /\ Awaiting \subseteq Awaiting'
         /\ \A l : Founded(l) => Founded(l)'
         /\ \A f : Justified(f) => Justified(f)'
<1>1. Known \subseteq Known'
  BY DEF Known, Lasts
<1>2. Waits \subseteq Waits'
  BY DEF Waits, Lasts
<1>3. /\ Promise!Derived(Known, DOMAIN weight, Waits)
           \subseteq Promise!Derived(Known', DOMAIN weight', Waits')
      /\ Promise!Waiting(Known, DOMAIN weight, Waits)
           \subseteq Promise!Waiting(Known', DOMAIN weight', Waits')
  BY <1>1, <1>2, DerivedMonotone DEF Lasts
<1>4. Promised \subseteq Promised' /\ Awaiting \subseteq Awaiting'
  BY <1>3 DEF Promised, Awaiting, Lasts
<1>5. \A l : Founded(l) => Founded(l)'
  BY <1>1 DEF Founded, Lasts
<1>6. \A l : OutOf(l.state) \subseteq OutOf(l.state)'
  BY DEF OutOf, Lasts
<1>7. \A f : Justified(f) => Justified(f)'
  BY <1>1, <1>4, <1>5, <1>6 DEF Justified, Lasts
<1> QED BY <1>1, <1>2, <1>4, <1>5, <1>7

\* The rules a listener or a replay can hold.
LEMMA RuleKinds ==
  \A r \in Rules :
    /\ r.kind \in {"normal", "push", "pop"} /\ r.s1 \in Control
    /\ ListenerOf(r).kind = r.kind /\ ListenerOf(r).state = r.s1
    /\ r.kind # "pop" => ListenerOf(r).rule = r
    /\ r.kind = "pop" => ListenerOf(r).label = r.l1 /\ ListenerOf(r).start = r.s2
BY RuleAssumption
DEF NormalRule, PushRule, PopRule, ListenerOf, PopListener, RuleListener

LEMMA RuleJustified ==
  ASSUME TypeOK, NEW r \in Rules, started, r \in rules
  PROVE  Justified(Register(ListenerOf(r)))
<1>1. r \in Known
  BY DEF Known
<1>2. r.kind = "pop" => Promise!Pop(r.s1, r.l1, r.s2) \in Awaiting
  BY <1>1 DEF Awaiting, Promise!Waiting
<1> QED BY <1>1, <1>2, RuleKinds DEF Justified, Register, Founded

\* What a handler asks for is derived: the calls of a listener l that is told
\* of the transition t.
LEMMA HandlerJustified ==
  ASSUME TypeOK, NEW l \in listeners, Founded(l),
         NEW t \in DOMAIN weight, t.start = l.state, NEW w \in Weights
  PROVE  /\ \A c \in Range(Calls(l, t, w)) : Justified(c)
         /\ Linked(DOMAIN weight, Calls(l, t, w))
<1>t. l \in Listener /\ t \in Transition
  BY DEF TypeOK
<1>k. l.kind \in {"pop", "transitive", "normal", "push"}
  BY <1>t, ListenerKinds
<1>1. CASE l.kind = "pop"
  <2> DEFINE x == [state |-> l.state, label |-> l.label, start |-> l.start]
             match == Accepts(t.label, l.label) \/ Accepts(l.label, t.label)
             new == Extend(w, l.w)
             e == Tr(l.start, Epsilon, t.target)
             k == TransitiveListener(l.start, t.label, t.target, new)
  <2>1. x \in Waits
    BY <1>1 DEF Waits
  <2>2. match /\ t.target \in Generated => e \in Promised
    <3> SUFFICES ASSUME match, t.target \in Generated PROVE e \in Promised
      OBVIOUS
    <3>1. << x, t >> \in Promise!Popped(DOMAIN weight, Waits)
      BY <2>1 DEF Promise!Popped, Promise!Accepts, Accepts, Promise!Generated, Generated
    <3>2. e \in Promise!PopDerives(DOMAIN weight, Waits)
      BY <3>1 DEF Promise!PopDerives, Promise!Tr, Tr
    <3> QED BY <3>2 DEF Promised, Promise!Derived
  <2>3. t.label \in Empties => Promise!Pop(t.target, l.label, l.start) \in Awaiting
    <3> SUFFICES ASSUME t.label \in Empties
                 PROVE  Promise!Pop(t.target, l.label, l.start) \in Awaiting
      OBVIOUS
    <3> DEFINE pairs == { y \in Waits \X DOMAIN weight :
                            y[2].start = y[1].state /\ y[2].label \in Empties }
    <3>1. << x, t >> \in pairs
      BY <2>1
    <3>2. Promise!Pop(t.target, l.label, l.start)
            \in { Promise!Pop(y[2].target, y[1].label, y[1].start) : y \in pairs }
      BY <3>1 DEF Promise!Pop
    <3> QED BY <3>2 DEF Awaiting, Promise!Waiting
  <2>4. Link(k) = e /\ k.kind = "transitive" /\ k.state = t.target
    BY DEF Link, TransitiveListener
  <2> DEFINE first == IF match /\ t.target \in Generated
                      THEN << Add(e, new), Register(k) >>
                      ELSE IF match /\ t.target \in Unbalanced
                      THEN << UnbalancedPop(l.start, t, w) >> ELSE << >>
             second == IF t.label \in Empties
                       THEN << Register(PopListener(t.target, l.label, l.start, l.w)) >>
                       ELSE << >>
             cs == Calls(l, t, w)
  <2>5. cs = first \o second
    BY <1>1 DEF Calls, PopCalls
  <2>6. \A i \in 1 .. Len(cs) :
          \/ match /\ t.target \in Generated /\ i = 1 /\ cs[i] = Add(e, new)
          \/ match /\ t.target \in Generated /\ i = 2 /\ cs[i] = Register(k)
             /\ cs[1] = Add(e, new)
          \/ cs[i] = UnbalancedPop(l.start, t, w)
          \/ t.label \in Empties
             /\ cs[i] = Register(PopListener(t.target, l.label, l.start, l.w))
    <3> HIDE DEF e, k, new, match, cs
    <3> QED BY <2>5
  <2> HIDE DEF e, k, new, cs
  <2>7. \A i \in 1 .. Len(cs) : Justified(cs[i])
    BY <2>2, <2>3, <2>4, <2>6
    DEF Justified, Add, Register, UnbalancedPop, PopListener
  <2>8. Linked(DOMAIN weight, cs)
    BY <2>4, <2>6 DEF Linked, LinkedAt, Add, Register, UnbalancedPop, PopListener
  <2>9. Range(cs) = { cs[i] : i \in 1 .. Len(cs) }
    BY <1>t, CallsType DEF Range, cs
  <2> QED BY <2>7, <2>8, <2>9 DEF cs
<1>2. CASE l.kind = "transitive"
  <2> DEFINE e == Tr(l.start, t.label, t.target)
             c == Add(e, Extend(w, l.w))
  <2>1. Calls(l, t, w) = << c >>
    BY <1>2 DEF Calls, TransitiveCalls
  <2>2. Link(l) \in DOMAIN weight /\ Link(l).label = Epsilon /\ Link(l).start = l.start
        /\ Link(l).target = l.state
    BY <1>2 DEF Founded, Link, Tr
  <2>3. e \in Promise!EpsilonDerives(DOMAIN weight)
    <3>1. << Link(l), t >> \in { x \in (DOMAIN weight) \X (DOMAIN weight) :
                                   x[1].label = Epsilon /\ x[2].start = x[1].target }
      BY <2>2
    <3>2. e = Promise!Tr(Link(l).start, t.label, t.target)
      BY <2>2 DEF Promise!Tr, Tr
    <3> QED BY <3>1, <3>2 DEF Promise!EpsilonDerives
  <2>4. e \in Promised
    BY <2>3 DEF Promised, Promise!Derived
  <2>5. Justified(c)
    BY <2>4 DEF Justified, Add
  <2>6. Linked(DOMAIN weight, << c >>)
    BY DEF Linked, Add
  <2> HIDE DEF c
  <2>7. Range(<< c >>) = {c}
    BY DEF Range
  <2> QED BY <2>1, <2>5, <2>6, <2>7
<1>3. CASE l.kind \in {"normal", "push"}
  <2> DEFINE r == l.rule
  <2>1. r \in Known /\ l.state = r.s1 /\ r.kind = l.kind
    BY <1>3, <1>t, ListenerKinds DEF Founded, NormalRule, PushRule
  <2>2. Matches(r, t) => << r, t >> \in { x \in Known \X DOMAIN weight :
                            x[2].start = x[1].s1 /\ x[1].l1 \in {x[2].label, Any} }
    BY <2>1 DEF Matches
  <2>3. \A e : /\ Matches(r, t)
               /\ \/ r.kind = "normal" /\ e \in Promise!NormalDerives(r, t)
                  \/ r.kind = "push" /\ e \in Promise!PushDerives(r, t)
               => e \in Promised
    <3>1. \A e : /\ Matches(r, t)
                 /\ \/ r.kind = "normal" /\ e \in Promise!NormalDerives(r, t)
                    \/ r.kind = "push" /\ e \in Promise!PushDerives(r, t)
                 => e \in Promise!RuleDerives(Known, DOMAIN weight)
      BY <2>2 DEF Promise!RuleDerives
    <3> QED BY <3>1 DEF Promised, Promise!Derived
  <2>4. CASE l.kind = "normal"
    <3> DEFINE e == Tr(r.s2, IF r.l2 = Any THEN t.label ELSE r.l2, t.target)
               c == Add(e, Extend(w, r.w))
    <3>1. CASE Calls(l, t, w) = << >>
      BY <3>1, EmptyRange DEF Linked
    <3>2. CASE Calls(l, t, w) # << >>
      <4>1. /\ Calls(l, t, w) = << c >> /\ Matches(r, t)
            /\ t.label \notin r.excl /\ ~ (r.l2 = Any /\ t.label = Epsilon)
        BY <2>4, <3>2 DEF Calls, NormalCalls
      <4>2. e \in Promise!NormalDerives(r, t)
        BY <4>1 DEF Promise!NormalDerives, Promise!Label, Promise!Tr, Tr
      <4>3. e \in Promised
        BY <2>1, <2>3, <2>4, <4>1, <4>2
      <4>4. Justified(c) /\ Linked(DOMAIN weight, << c >>)
        BY <4>3 DEF Justified, Linked, Add
      <4> HIDE DEF c
      <4>5. Range(<< c >>) = {c}
        BY DEF Range
      <4> QED BY <4>1, <4>4, <4>5
    <3> QED BY <3>1, <3>2
  <2>5. CASE l.kind = "push"
    <3> DEFINE i == << r.s2, r.l2 >>
               e == Tr(i, IF r.site = Any THEN t.label ELSE r.site, t.target)
               d == Tr(r.s2, r.l2, i)
               c == Add(e, Extend(w, r.w))
               b == Add(d, One)
    <3>1. CASE Calls(l, t, w) = << >>
      BY <3>1, EmptyRange DEF Linked
    <3>2. CASE Calls(l, t, w) # << >>
      <4>1. Calls(l, t, w) = << c, b >> /\ Matches(r, t) /\ ~ (r.site = Any /\ t.label = Epsilon)
        BY <2>5, <3>2 DEF Calls, PushCalls
      <4>2. e \in Promise!PushDerives(r, t) /\ d \in Promise!PushDerives(r, t)
        BY <4>1 DEF Promise!PushDerives, Promise!Label, Promise!Tr, Tr
      <4>3. e \in Promised /\ d \in Promised
        BY <2>1, <2>3, <2>5, <4>1, <4>2
      <4>4. Justified(c) /\ Justified(b) /\ Linked(DOMAIN weight, << c, b >>)
        BY <4>3 DEF Justified, Linked, Add
      <4> HIDE DEF c, b
      <4>5. Range(<< c, b >>) = {c, b}
        BY PairRange
      <4> QED BY <4>1, <4>4, <4>5
    <3> QED BY <3>1, <3>2
  <2> QED BY <1>3, <2>4, <2>5
<1> QED BY <1>1, <1>2, <1>3, <1>k

-----------------------------------------------------------------------------
(* The order on the stack *)

LEMMA LinkedStays ==
  ASSUME NEW T, NEW U, T \subseteq U, NEW s, Linked(T, s)
  PROVE  Linked(U, s)
BY DEF Linked, LinkedAt

LEMMA LinkedConcat ==
  ASSUME NEW T, NEW s \in Seq(Frame), NEW e \in Seq(Frame), Linked(T, s), Linked(T, e)
  PROVE  Linked(T, e \o s)
<1> DEFINE u == e \o s
<1>1. /\ Len(u) = Len(e) + Len(s)
      /\ \A i \in 1 .. Len(u) : u[i] = IF i <= Len(e) THEN e[i] ELSE s[i - Len(e)]
  BY ConcatProperties
<1>2. Len(e) \in Nat /\ Len(s) \in Nat
  OBVIOUS
<1> HIDE DEF u
<1> SUFFICES ASSUME NEW i \in 1 .. Len(u), u[i].op = "register", u[i].l.kind = "transitive"
             PROVE  LinkedAt(T, u, i)
  BY DEF Linked, u
<1>3. CASE i <= Len(e)
  <2>1. i \in 1 .. Len(e) /\ u[i] = e[i]
    BY <1>1, <1>2, <1>3
  <2>2. LinkedAt(T, e, i)
    BY <2>1 DEF Linked
  <2>3. \A j \in 1 .. Len(e) : j \in 1 .. Len(u) /\ u[j] = e[j]
    <3> TAKE j \in 1 .. Len(e)
    <3>1. j \in 1 .. Len(u) /\ j <= Len(e)
      BY <1>1, <1>2
    <3> QED BY <1>1, <3>1
  <2> QED BY <2>1, <2>2, <2>3 DEF LinkedAt
<1>4. CASE ~ (i <= Len(e))
  <2> DEFINE k == i - Len(e)
  <2>1. k \in 1 .. Len(s) /\ u[i] = s[k]
    BY <1>1, <1>2, <1>4
  <2>2. LinkedAt(T, s, k)
    BY <2>1 DEF Linked
  <2>3. \A j \in 1 .. Len(s) : /\ j + Len(e) \in 1 .. Len(u) /\ u[j + Len(e)] = s[j]
                               /\ j < k => j + Len(e) < i
    <3> TAKE j \in 1 .. Len(s)
    <3>1. j + Len(e) \in 1 .. Len(u) /\ ~ (j + Len(e) <= Len(e)) /\ (j + Len(e)) - Len(e) = j
      BY <1>1, <1>2
    <3>2. j < k => j + Len(e) < i
      BY <1>1, <1>2
    <3> QED BY <1>1, <3>1, <3>2
  <2> QED BY <2>1, <2>2, <2>3 DEF LinkedAt
<1> QED BY <1>3, <1>4

\* The frame on top has run: nothing further down waits for it any more.
LEMMA LinkedTail ==
  ASSUME NEW T, NEW s \in Seq(Frame), s # << >>, Linked(T, s),
         Head(s).op = "add" =>
           \A i \in 1 .. Len(s) :
             s[i].op = "register" /\ s[i].l.kind = "transitive"
             /\ Link(s[i].l) = Head(s).t => Head(s).t \in T
  PROVE  Linked(T, Tail(s))
<1> DEFINE u == Tail(s)
<1>1. /\ Len(u) = Len(s) - 1 /\ Len(s) \in Nat \ {0} /\ Head(s) = s[1]
      /\ \A i \in 1 .. Len(u) : u[i] = s[i + 1]
  BY HeadTailProperties
<1> HIDE DEF u
<1> SUFFICES ASSUME NEW i \in 1 .. Len(u), u[i].op = "register", u[i].l.kind = "transitive"
             PROVE  LinkedAt(T, u, i)
  BY DEF Linked, u
<1>2. i + 1 \in 1 .. Len(s) /\ u[i] = s[i + 1]
  BY <1>1
<1>3. LinkedAt(T, s, i + 1)
  BY <1>2 DEF Linked
<1>4. ASSUME NEW j \in 1 .. Len(s), j < i + 1, s[j].op = "add", s[j].t = Link(s[i + 1].l)
      PROVE  LinkedAt(T, u, i)
  <2>0. CASE j = 1
    <3>1. Head(s).op = "add" /\ Link(s[i + 1].l) = Head(s).t
      BY <1>1, <1>4, <2>0
    <3>2. Head(s).t \in T
      BY <1>2, <3>1
    <3> QED BY <1>2, <3>1, <3>2 DEF LinkedAt
  <2>1. ASSUME j # 1
        PROVE  j - 1 \in 1 .. Len(u) /\ u[j - 1] = s[j] /\ j - 1 < i
    <3>1. j - 1 \in 1 .. Len(u) /\ (j - 1) + 1 = j /\ j - 1 < i
      BY <1>1, <1>4, <2>1
    <3> QED BY <1>1, <3>1
  <2> QED BY <1>2, <1>4, <2>0, <2>1 DEF LinkedAt
<1> QED BY <1>2, <1>3, <1>4 DEF LinkedAt

-----------------------------------------------------------------------------
\* A step that replaces the frame on top by the frames e.
LEMMA JustifiedReplace ==
  ASSUME TypeInv, JustInv, [Next]_vars, stack # << >>,
         NEW e \in Seq(Frame), stack' = e \o Tail(stack),
         \A c \in Range(e) : Justified(c)',
         Linked(DOMAIN weight', e),
         Top.op = "add" =>
           \A i \in 1 .. Len(stack) :
             stack[i].op = "register" /\ stack[i].l.kind = "transitive"
             /\ Link(stack[i].l) = Top.t => Top.t \in DOMAIN weight'
  PROVE  /\ \A f \in Range(stack') : Justified(f)'
         /\ Linked(DOMAIN weight', stack')
<1>1. stack \in Seq(Frame) /\ Tail(stack) \in Seq(Frame)
      /\ Range(Tail(stack)) \subseteq Range(stack)
  BY RangeTail DEF TypeInv, TypeOK
<1>2. Range(stack') = Range(e) \cup Range(Tail(stack))
  BY <1>1, Replace
<1>3. \A f \in Range(stack) : Justified(f)'
  BY StepLasts, JustifiedStays DEF JustInv
<1>4. Linked(DOMAIN weight', stack)
  BY StepLasts, LinkedStays DEF JustInv, Lasts
<1>5. Linked(DOMAIN weight', Tail(stack))
  BY <1>1, <1>4, LinkedTail DEF Top
<1>6. Linked(DOMAIN weight', e \o Tail(stack))
  BY <1>1, <1>5, LinkedConcat
<1> QED BY <1>1, <1>2, <1>3, <1>6

\* A step that calls into the automaton from outside.
LEMMA JustifiedPush ==
  ASSUME TypeInv, JustInv, [Next]_vars, NEW x \in Frame,
         stack' = << x >> \o stack, Justified(x)',
         x.op = "register" => x.l.kind # "transitive"
  PROVE  /\ \A f \in Range(stack') : Justified(f)'
         /\ Linked(DOMAIN weight', stack')
<1>1. stack \in Seq(Frame) /\ << x >> \in Seq(Frame)
  BY DEF TypeInv, TypeOK
<1>2. Range(stack') = {x} \cup Range(stack)
  BY <1>1, PushFrame
<1>3. \A f \in Range(stack) : Justified(f)'
  BY StepLasts, JustifiedStays DEF JustInv
<1>4. Linked(DOMAIN weight', stack)
  BY StepLasts, LinkedStays DEF JustInv, Lasts
<1>5. Linked(DOMAIN weight', << x >>)
  BY DEF Linked
<1> QED BY <1>1, <1>2, <1>3, <1>4, <1>5, LinkedConcat

\* Listeners other than a new one l stay founded.
LEMMA FoundedStays ==
  ASSUME TypeInv, JustInv, [Next]_vars, listeners' = listeners
  PROVE  \A l \in listeners' : Founded(l)'
BY StepLasts, JustifiedStays DEF JustInv

LEMMA ClientJust ==
  ASSUME TypeInv, JustInv, Client
  PROVE  JustInv'
<1>n. [Next]_vars
  BY DEF Next
<1>l. Lasts
  BY <1>n, StepLasts
<1>1. CASE StartPostStar
  <2>1. stack' = << RuleLoop(rules) >> /\ started' /\ rules' = rules /\ listeners' = listeners
    BY <1>1 DEF StartPostStar
  <2>2. Range(stack') = {RuleLoop(rules)}
    BY <2>1, SingleRange, FrameTypes DEF TypeInv, TypeOK
  <2>3. \A f \in Range(stack') : Justified(f)'
    BY <2>1, <2>2 DEF Justified, RuleLoop
  <2>4. Linked(DOMAIN weight', stack')
    BY <2>1 DEF Linked, RuleLoop
  <2> QED BY <1>n, <2>1, <2>3, <2>4, FoundedStays DEF JustInv
<1>2. ASSUME NEW r \in Rules, AddRule(r) PROVE JustInv'
  <2>1. /\ listeners' = listeners /\ r \in rules' /\ started' = started
        /\ stack' = IF started THEN << Register(ListenerOf(r)) >> \o stack ELSE stack
        /\ weight' = weight
    BY <1>2 DEF AddRule
  <2>2. CASE started
    <3>1. Register(ListenerOf(r)) \in Frame
      BY ListenerTypes, FrameTypes, CallsAreFrames
    <3>2. TypeOK'
      BY <1>n, TypeStep DEF TypeInv
    <3>3. Justified(Register(ListenerOf(r)))'
      <4>1. r \in Known'
        BY <2>1, <2>2 DEF Known
      <4>2. r.kind = "pop" => Promise!Pop(r.s1, r.l1, r.s2) \in Awaiting'
        BY <4>1 DEF Awaiting, Promise!Waiting
      <4> QED BY <4>1, <4>2, RuleKinds DEF Justified, Register, Founded
    <3>4. ListenerOf(r).kind # "transitive"
      BY RuleKinds
    <3>5. /\ \A f \in Range(stack') : Justified(f)'
          /\ Linked(DOMAIN weight', stack')
      BY <1>n, <2>1, <2>2, <3>1, <3>3, <3>4, JustifiedPush DEF Register
    <3> QED BY <1>n, <2>1, <3>5, FoundedStays DEF JustInv
  <2>3. CASE ~ started
    <3>1. \A f \in Range(stack') : Justified(f)'
      BY <1>l, <2>1, <2>3, JustifiedStays DEF JustInv
    <3> QED BY <1>n, <2>1, <2>3, <3>1, FoundedStays DEF JustInv
  <2> QED BY <2>2, <2>3
<1>3. ASSUME NEW s \in Seeds, AddSeed(s) PROVE JustInv'
  <2>1. /\ listeners' = listeners /\ s \in seeded'
        /\ stack' = << Add(s[1], s[2]) >> \o stack
    BY <1>3 DEF AddSeed
  <2>2. Add(s[1], s[2]) \in Frame
    BY RuleAssumption, FrameTypes, CallsAreFrames
  <2>3. Justified(Add(s[1], s[2]))'
    BY <2>1 DEF Justified, Add, Promised, Sown
  <2>4. /\ \A f \in Range(stack') : Justified(f)'
        /\ Linked(DOMAIN weight', stack')
    BY <1>n, <2>1, <2>2, <2>3, JustifiedPush DEF Add
  <2> QED BY <1>n, <2>1, <2>4, FoundedStays DEF JustInv
<1> QED BY <1>1, <1>2, <1>3 DEF Client

\* The frame on top is justified.
LEMMA TopJustified ==
  ASSUME TypeInv, JustInv, NEW op, Running(op)
  PROVE  Top \in Range(stack) /\ Justified(Top) /\ Top \in Frame /\ Top.op = op
         /\ stack # << >> /\ stack \in Seq(Frame)
<1>1. Top \in Range(stack) /\ Top \in Frame /\ Top.op = op
  BY TopFrame DEF TypeInv
<1> QED BY <1>1, TopFrame DEF JustInv, TypeInv

LEMMA AddJust ==
  ASSUME TypeInv, JustInv, [Next]_vars, AddWeight, ~ (MaxDepth > 0)
  PROVE  JustInv'
<1> DEFINE t == Top.t
           w == Top.w
<1>1. /\ Top \in Range(stack) /\ Justified(Top) /\ stack # << >> /\ stack \in Seq(Frame)
      /\ Top.op = "add" /\ t \in Transition /\ Combined(t, w) \in Weights
  BY TopJustified, AddFrames DEF AddWeight, TypeInv
<1>2. AddReject(t) \/ AddAbsorbed(t, w) \/ AddChanged(t, w)
  BY DEF AddWeight
<1>3. listeners' = listeners
  BY DEF AddWeight
<1>4. SelfLoop(t) \/ t \in DOMAIN weight'
  BY <1>2 DEF AddReject, AddAbsorbed, AddChanged, TooDeep
<1>5. \A i \in 1 .. Len(stack) :
        stack[i].op = "register" /\ stack[i].l.kind = "transitive"
        /\ Link(stack[i].l) = t => t \in DOMAIN weight'
  <2> SUFFICES ASSUME NEW i \in 1 .. Len(stack),
                      stack[i].op = "register", stack[i].l.kind = "transitive",
                      Link(stack[i].l) = t, SelfLoop(t)
               PROVE  FALSE
    BY <1>4
  <2> DEFINE f == stack[i]
  <2>1. f \in Range(stack) /\ f \in Frame
    BY <1>1 DEF Range
  <2>2. f.l.state \in Generated
    BY <2>1 DEF JustInv, Justified
  <2>3. f.l \in Listener
    BY <2>1, FrameKinds
  <2>4. f.l.start \in Control
    BY <2>3, ListenerKinds
  <2> QED BY <2>2, <2>4, SymbolAssumption DEF Link, SelfLoop, Tr
<1> HIDE DEF t, w
<1> DEFINE e == IF AddChanged(t, w) THEN << Updated(t, Combined(t, w)) >> ELSE << >>
<1>6. /\ e \in Seq(Frame) /\ stack' = e \o Tail(stack)
      /\ e = << >> \/ (e = << Updated(t, Combined(t, w)) >> /\ t \in DOMAIN weight')
  <2>1. CASE AddChanged(t, w)
    <3>1. Updated(t, Combined(t, w)) \in Frame
      BY <1>1, FrameTypes
    <3>2. << Updated(t, Combined(t, w)) >> \in Seq(Frame)
      BY <3>1
    <3>3. stack' = << Updated(t, Combined(t, w)) >> \o Tail(stack) /\ t \in DOMAIN weight'
      BY <2>1 DEF AddChanged
    <3> QED BY <2>1, <3>2, <3>3
  <2>2. CASE ~ AddChanged(t, w)
    <3>1. stack' = Tail(stack) /\ Tail(stack) \in Seq(Frame)
      BY <1>1, <1>2, <2>2, RangeTail DEF AddReject, AddAbsorbed
    <3>2. e = << >> /\ e \in Seq(Frame) /\ Tail(stack) = e \o Tail(stack)
      BY <2>2, <3>1, ConcatEmptySeq
    <3>3. stack' = e \o Tail(stack)
      BY <3>1, <3>2, Zenon
    <3> QED BY <3>2, <3>3
  <2> QED BY <2>1, <2>2
<1> HIDE DEF e
<1>7. \A c \in Range(e) : c = Updated(t, Combined(t, w)) /\ t \in DOMAIN weight'
  BY <1>6 DEF Range
<1>8. \A c \in Range(e) : Justified(c)'
  BY <1>7 DEF Justified, Updated
<1>9. Linked(DOMAIN weight', e)
  BY <1>6 DEF Linked, Updated
<1>10. /\ \A f \in Range(stack') : Justified(f)'
       /\ Linked(DOMAIN weight', stack')
  BY <1>1, <1>5, <1>6, <1>8, <1>9, JustifiedReplace DEF t
<1> QED BY <1>3, <1>10, FoundedStays DEF JustInv

LEMMA HandlerJust ==
  ASSUME TypeInv, JustInv, [Next]_vars, NEW op, Running(op), op # "add",
         UNCHANGED << rules, started, seeded, weight, listeners >>,
         NEW l \in listeners, NEW t \in DOMAIN weight, t.start = l.state,
         NEW w \in Weights, NEW y \in Frame, Justified(y), y.op # "register",
         stack' = Calls(l, t, w) \o << y >> \o Tail(stack)
  PROVE  JustInv'
<1> DEFINE cs == Calls(l, t, w)
           e == cs \o << y >>
<1>1. stack # << >> /\ Top.op = op
  BY TopJustified
<1>2. l \in Listener /\ t \in Transition
  BY DEF TypeInv, TypeOK
<1>3. cs \in Seq(Frame)
  BY <1>2, CallsType, CallsAreFrames
<1>4. << y >> \in Seq(Frame) /\ Range(<< y >>) = {y} /\ Linked(DOMAIN weight, << y >>)
  BY SingleRange DEF Linked
<1>5. /\ \A c \in Range(cs) : Justified(c)
      /\ Linked(DOMAIN weight, cs)
  BY HandlerJustified DEF JustInv, TypeInv
<1> HIDE DEF cs
<1>6. e \in Seq(Frame) /\ Range(e) = Range(cs) \cup {y}
  BY <1>3, <1>4, RangeConcat
<1>7. \A c \in Range(e) : Justified(c)'
  BY <1>4, <1>5, <1>6, StepLasts, JustifiedStays
<1>8. Linked(DOMAIN weight', e)
  BY <1>3, <1>4, <1>5, LinkedConcat
<1>9. stack' = e \o Tail(stack)
  BY DEF cs
<1> HIDE DEF e
<1>10. /\ \A f \in Range(stack') : Justified(f)'
       /\ Linked(DOMAIN weight', stack')
  BY <1>1, <1>6, <1>7, <1>8, <1>9, JustifiedReplace
<1> QED BY <1>10, FoundedStays DEF JustInv

LEMMA LoopJust ==
  ASSUME TypeInv, JustInv, [Next]_vars,
         ServeStateListeners \/ Deliver \/ ReplayTransition \/ ReplayRule \/ Return
         \/ RecordUnbalancedPop
  PROVE  JustInv'
<1>u. UNCHANGED << rules, started, seeded, weight, listeners >>
  BY DEF ServeStateListeners, Deliver, ReplayTransition, ReplayRule, Return,
     RecordUnbalancedPop
<1>k. \A f \in Frame : Justified(f) => Justified(f)'
  BY StepLasts, JustifiedStays
<1>1. CASE ServeStateListeners
  <2> DEFINE y == Notify(Top.t, Top.w, { l \in listeners : l.state = Top.t.start })
  <2>1. /\ Justified(Top) /\ Top \in Frame /\ Top.op = "updated" /\ stack # << >>
    BY <1>1, TopJustified DEF ServeStateListeners
  <2>2. y \in Frame
    BY <2>1, FrameKinds, FrameTypes DEF TypeInv, TypeOK
  <2>3. Justified(y) /\ y.op = "notify"
    BY <2>1 DEF Justified, Notify
  <2>4. << y >> \in Seq(Frame) /\ Range(<< y >>) = {y} /\ Linked(DOMAIN weight', << y >>)
    <3> HIDE DEF y
    <3> QED BY <2>2, <2>3, SingleRange DEF Linked
  <2>5. stack' = << y >> \o Tail(stack)
    BY <1>1 DEF ServeStateListeners
  <2> HIDE DEF y
  <2>6. /\ \A f \in Range(stack') : Justified(f)'
        /\ Linked(DOMAIN weight', stack')
    BY <1>k, <2>1, <2>2, <2>3, <2>4, <2>5, JustifiedReplace
  <2> QED BY <1>u, <2>6, FoundedStays DEF JustInv
<1>2. CASE Deliver
  <2>1. PICK l \in Top.ls :
          stack' = Calls(l, Top.t, Top.w)
                   \o << Notify(Top.t, Top.w, Top.ls \ {l}) >> \o Tail(stack)
    BY <1>2 DEF Deliver
  <2> DEFINE y == Notify(Top.t, Top.w, Top.ls \ {l})
  <2>2. /\ Justified(Top) /\ Top \in Frame /\ Top.op = "notify" /\ Running("notify")
    BY <1>2, TopJustified DEF Deliver
  <2>3. /\ y \in Frame /\ Top.w \in Weights
    BY <2>2, FrameKinds, FrameTypes
  <2>4. /\ l \in listeners /\ Top.t \in DOMAIN weight /\ Top.t.start = l.state
    BY <2>2 DEF Justified
  <2>5. Justified(y) /\ y.op # "register"
    BY <2>2 DEF Justified, Notify
  <2> HIDE DEF y
  <2> QED BY <1>u, <2>1, <2>2, <2>3, <2>4, <2>5, HandlerJust DEF y
<1>3. CASE ReplayTransition
  <2>1. PICK t \in Top.ts :
          stack' = Calls(Top.l, t, weight[t])
                   \o << Replay(Top.l, Top.ts \ {t}) >> \o Tail(stack)
    BY <1>3 DEF ReplayTransition
  <2> DEFINE y == Replay(Top.l, Top.ts \ {t})
  <2>2. /\ Justified(Top) /\ Top \in Frame /\ Top.op = "replay" /\ Running("replay")
    BY <1>3, TopJustified DEF ReplayTransition
  <2>3. y \in Frame
    BY <2>2, FrameKinds, FrameTypes
  <2>4. /\ Top.l \in listeners /\ t \in DOMAIN weight /\ t.start = Top.l.state
    BY <2>2 DEF Justified, OutOf
  <2>5. weight[t] \in Weights
    BY <2>4 DEF TypeInv, TypeOK
  <2>6. Justified(y) /\ y.op # "register"
    BY <2>2 DEF Justified, Replay
  <2> HIDE DEF y
  <2> QED BY <1>u, <2>1, <2>2, <2>3, <2>4, <2>5, <2>6, HandlerJust DEF y
<1>4. CASE ReplayRule
  <2>1. PICK r \in Top.rs :
          stack' = << Register(ListenerOf(r)), RuleLoop(Top.rs \ {r}) >> \o Tail(stack)
    BY <1>4 DEF ReplayRule
  <2> DEFINE x == Register(ListenerOf(r))
             y == RuleLoop(Top.rs \ {r})
  <2>2. /\ Justified(Top) /\ Top \in Frame /\ Top.op = "rules" /\ stack # << >>
    BY <1>4, TopJustified DEF ReplayRule
  <2>3. r \in Rules /\ r \in rules /\ started
    BY <2>2, FrameKinds DEF Justified
  <2>4. x \in Frame /\ y \in Frame
    BY <2>2, <2>3, FrameKinds, FrameTypes, ListenerTypes, CallsAreFrames
  <2>5. Justified(x) /\ Justified(y)
    BY <2>2, <2>3, RuleJustified DEF Justified, RuleLoop, TypeInv
  <2>6. x.op = "register" /\ x.l.kind # "transitive" /\ y.op = "rules"
    BY <2>3, RuleKinds DEF Register, RuleLoop
  <2> HIDE DEF x, y
  <2>7. << x, y >> \in Seq(Frame) /\ Range(<< x, y >>) = {x, y}
        /\ Linked(DOMAIN weight', << x, y >>)
    BY <2>4, <2>6, PairRange DEF Linked
  <2>8. /\ \A f \in Range(stack') : Justified(f)'
        /\ Linked(DOMAIN weight', stack')
    BY <1>k, <2>1, <2>2, <2>4, <2>5, <2>7, JustifiedReplace DEF x, y
  <2> QED BY <1>u, <2>8, FoundedStays DEF JustInv
<1>5. CASE Return \/ RecordUnbalancedPop
  <2>1. PICK op : Running(op) /\ op # "add"
    BY <1>5 DEF Return, RecordUnbalancedPop
  <2>2. Top.op # "add" /\ stack # << >> /\ stack \in Seq(Frame) /\ Tail(stack) \in Seq(Frame)
    BY <2>1, TopJustified, RangeTail
  <2>3. PICK e \in Seq(Frame) : stack' = e \o Tail(stack) /\ (e = << >> \/ e = << Popped >>)
    <3>1. stack' = Tail(stack) \/ stack' = << Popped >> \o Tail(stack)
      BY <1>5 DEF Return, RecordUnbalancedPop
    <3>2. << Popped >> \in Seq(Frame)
      BY FrameTypes
    <3>3. Tail(stack) = << >> \o Tail(stack) /\ << >> \in Seq(Frame)
      BY <2>2, ConcatEmptySeq
    <3> QED BY <3>1, <3>2, <3>3
  <2>4. /\ \A c \in Range(e) : c = Popped
        /\ Linked(DOMAIN weight', e)
    BY <2>3 DEF Range, Linked, Popped
  <2>5. \A c \in Range(e) : Justified(c)'
    BY <2>4 DEF Justified, Popped
  <2>6. /\ \A f \in Range(stack') : Justified(f)'
        /\ Linked(DOMAIN weight', stack')
    BY <2>2, <2>3, <2>4, <2>5, JustifiedReplace
  <2> QED BY <1>u, <2>6, FoundedStays DEF JustInv
<1> QED BY <1>1, <1>2, <1>3, <1>4, <1>5

LEMMA RegisterJust ==
  ASSUME TypeInv, JustInv, [Next]_vars, RegisterListener
  PROVE  JustInv'
<1>1. /\ Justified(Top) /\ Top \in Frame /\ Top.op = "register" /\ stack # << >>
      /\ stack \in Seq(Frame) /\ Tail(stack) \in Seq(Frame) /\ Top.l \in Listener
  BY TopJustified, RangeTail, FrameKinds DEF RegisterListener
<1>2. weight' = weight
  BY DEF RegisterListener
<1>3. CASE Top.l \in listeners
  <2>1. stack' = << >> \o Tail(stack) /\ << >> \in Seq(Frame) /\ listeners' = listeners
    BY <1>1, <1>3, ConcatEmptySeq DEF RegisterListener
  <2>2. Range(<< >>) = {} /\ Linked(DOMAIN weight', << >>)
    BY EmptyRange DEF Linked
  <2>3. /\ \A f \in Range(stack') : Justified(f)'
        /\ Linked(DOMAIN weight', stack')
    BY <1>1, <2>1, <2>2, JustifiedReplace
  <2> QED BY <2>1, <2>3, FoundedStays DEF JustInv
<1>4. CASE Top.l \notin listeners
  <2> DEFINE l == Top.l
             y == Replay(l, OutOf(l.state))
  <2>1. stack' = << y >> \o Tail(stack) /\ listeners' = listeners \cup {l}
    BY <1>4 DEF RegisterListener
  <2>2. y \in Frame
    BY <1>1, FrameTypes DEF TypeInv, TypeOK, OutOf
  <2>3. \A f \in Range(<< y >>) : Justified(f)'
    <3>1. ASSUME NEW f, f = y PROVE Justified(f)'
      <4>1. f.op = "replay" /\ f.l \in listeners' /\ f.ts = OutOf(f.l.state)
        BY <2>1, <3>1 DEF Replay
      <4>2. \A t \in f.ts : t \in OutOf(f.l.state)'
        BY <1>2, <4>1 DEF OutOf
      <4> QED BY <4>1, <4>2 DEF Justified
    <3>2. Range(<< y >>) = {y}
      BY <2>2, SingleRange
    <3> QED BY <3>1, <3>2
  <2>4. << y >> \in Seq(Frame) /\ Range(<< y >>) = {y} /\ Linked(DOMAIN weight', << y >>)
    BY <2>2, SingleRange DEF Linked, Replay
  <2>5. Founded(l)
    <3>1. stack[1] = Top /\ 1 \in 1 .. Len(stack)
      BY <1>1 DEF Top
    <3>2. l.kind = "transitive" => LinkedAt(DOMAIN weight, stack, 1)
      BY <1>1, <3>1 DEF JustInv, Linked
    <3>3. l.kind = "transitive" => Link(l) \in DOMAIN weight
      BY <3>1, <3>2 DEF LinkedAt
    <3> QED BY <1>1, <3>3 DEF Justified, Founded
  <2> HIDE DEF y
  <2>6. /\ \A f \in Range(stack') : Justified(f)'
        /\ Linked(DOMAIN weight', stack')
    BY <1>1, <2>1, <2>3, <2>4, JustifiedReplace
  <2>7. \A k \in listeners' : Founded(k)'
    BY <2>1, <2>5, StepLasts, JustifiedStays DEF JustInv
  <2> QED BY <2>6, <2>7 DEF JustInv
<1> QED BY <1>3, <1>4

LEMMA JustStep ==
  ASSUME ~ (MaxDepth > 0)
  PROVE  TypeInv /\ JustInv /\ [Next]_vars => JustInv'
<1> SUFFICES ASSUME TypeInv, JustInv, [Next]_vars PROVE JustInv'
  OBVIOUS
<1>1. CASE UNCHANGED vars
  <2>1. /\ \A f \in Range(stack) : Justified(f)'
        /\ \A l \in listeners : Founded(l)'
    BY StepLasts, JustifiedStays DEF JustInv
  <2> QED BY <1>1, <2>1 DEF vars, JustInv
<1>2. CASE Next
  BY <1>2, ClientJust, AddJust, LoopJust, RegisterJust DEF Next, Engine
<1> QED BY <1>1, <1>2

\* The refinement, step by step.
LEMMA StepSaturates ==
  ASSUME TypeInv, JustInv, [Next]_vars
  PROVE  [Promise!Next]_(Promise!vars)
<1> USE DEF TypeInv
<1>1. CASE Client
  <2>1. CASE StartPostStar
    <3>1. /\ Known' = rules /\ rules \subseteq Rules /\ Known = {}
          /\ UNCHANGED << Sown, DOMAIN weight, Waits >>
      BY <2>1 DEF StartPostStar, Known, Sown, Waits, TypeOK
    <3> QED BY <3>1 DEF Promise!Next, Promise!AddRules
  <2>2. ASSUME NEW r \in Rules, AddRule(r) PROVE [Promise!Next]_(Promise!vars)
    <3>1. /\ rules' = rules \cup {r} /\ started' = started /\ rules \subseteq Rules
          /\ UNCHANGED << Sown, DOMAIN weight, Waits >>
      BY <2>2 DEF AddRule, Sown, Waits, TypeOK
    <3>2. Known \subseteq Known' /\ Known' \in SUBSET Rules
      BY <3>1 DEF Known
    <3> QED BY <3>1, <3>2 DEF Promise!Next, Promise!AddRules
  <2>3. ASSUME NEW s \in Seeds, AddSeed(s) PROVE [Promise!Next]_(Promise!vars)
    <3>1. /\ seeded' = seeded \cup {s}
          /\ UNCHANGED << Known, DOMAIN weight, Waits >>
      BY <2>3 DEF AddSeed, Known, Waits
    <3>2. Sown' = Sown \cup {s[1]} /\ s[1] \in { x[1] : x \in Seeds }
      BY <3>1 DEF Sown
    <3> QED BY <3>1, <3>2 DEF Promise!Next, Promise!AddSeed
  <2> QED BY <1>1, <2>1, <2>2, <2>3 DEF Client
<1>2. CASE AddWeight
  <2>1. Justified(Top) /\ Top.op = "add" /\ Top.t \in Transition
    BY <1>2, TopJustified, AddFrames DEF AddWeight
  <2>2. UNCHANGED << Known, Sown, Waits >>
    BY <1>2 DEF AddWeight, Known, Sown, Waits
  <2>3. CASE UNCHANGED weight
    BY <2>2, <2>3 DEF Promise!vars
  <2>4. CASE AddChanged(Top.t, Top.w)
    <3>1. DOMAIN weight' = DOMAIN weight \cup {Top.t} /\ ~ SelfLoop(Top.t)
      BY <2>4 DEF AddChanged
    <3>2. Top.t \in Promised
      BY <2>1 DEF Justified
    <3>3. Top.t \notin { Tr(x, Epsilon, x) : x \in State }
      BY <3>1 DEF SelfLoop, Tr
    <3>4. CASE Top.t \in DOMAIN weight
      BY <2>2, <3>1, <3>4 DEF Promise!vars
    <3>5. CASE Top.t \notin DOMAIN weight
      <4>1. Top.t \in Promise!Due
        BY <3>2, <3>3, <3>5 DEF Promised, Promise!Due
      <4> QED BY <2>2, <3>1, <4>1 DEF Promise!Next, Promise!Take
    <3> QED BY <3>4, <3>5
  <2> QED BY <1>2, <2>3, <2>4 DEF AddWeight, AddReject, AddAbsorbed
<1>3. CASE RegisterListener
  <2>1. Justified(Top) /\ Top.op = "register"
    BY <1>3, TopJustified DEF RegisterListener
  <2>2. UNCHANGED << Known, Sown, DOMAIN weight >>
    BY <1>3 DEF RegisterListener, Known, Sown
  <2>3. CASE UNCHANGED Waits
    BY <2>2, <2>3 DEF Promise!vars
  <2>4. CASE Waits' # Waits
    <3> DEFINE x == [state |-> Top.l.state, label |-> Top.l.label, start |-> Top.l.start]
    <3>1. listeners' = listeners \cup {Top.l}
      BY <1>3, <2>4 DEF RegisterListener, Waits
    <3>2. Top.l.kind = "pop" /\ Waits' = Waits \cup {x}
      BY <2>4, <3>1 DEF Waits
    <3>3. x \in Awaiting
      BY <2>1, <3>2 DEF Justified, Promise!Pop
    <3>4. x \notin Waits
      BY <2>4, <3>2
    <3> QED BY <2>2, <3>2, <3>3, <3>4 DEF Awaiting, Promise!Next, Promise!Wait
  <2> QED BY <2>3, <2>4
<1>4. CASE \/ UNCHANGED vars
           \/ ServeStateListeners \/ Deliver \/ ReplayTransition \/ ReplayRule
           \/ Return \/ RecordUnbalancedPop
  <2>1. UNCHANGED << rules, started, seeded, weight, listeners >>
    BY <1>4 DEF vars, ServeStateListeners, Deliver, ReplayTransition, ReplayRule,
       Return, RecordUnbalancedPop
  <2>2. UNCHANGED << Known, Sown, DOMAIN weight, Waits >>
    BY <2>1 DEF Known, Sown, Waits
  <2> QED BY <2>2 DEF Promise!vars
<1> QED BY <1>1, <1>2, <1>3, <1>4 DEF Next, Engine

\* The engine is a saturation: whatever the clients add from inside its loops
\* and however its calls nest, each transition it takes up is a seed or derived
\* by a rule, a pop or an eps transition from transitions it has by then, and it
\* takes up one at a time (WeightedPAutomaton.addWeightForTransition and the
\* listeners of PostStar; without a depth bound).
THEOREM SaturatesStepByStep ==
  ASSUME ~ (MaxDepth > 0)
  PROVE  Spec => Promise!Init /\ [][Promise!Next]_(Promise!vars)
<1>1. Init => TypeInv /\ JustInv /\ Promise!Init
  <2> SUFFICES ASSUME Init PROVE TypeInv /\ JustInv /\ Promise!Init
    OBVIOUS
  <2>1. /\ Range(stack) = {} /\ DOMAIN weight = {} /\ listeners = {} /\ ~ started
        /\ seeded = {} /\ stack = << >>
    BY EmptyRange DEF Init
  <2>2. Linked(DOMAIN weight, stack)
    BY <2>1 DEF Linked
  <2> QED BY <2>1, <2>2, TypeInit DEF JustInv, Promise!Init, Known, Sown, Waits
<1>2. TypeInv /\ JustInv /\ [Next]_vars => (TypeInv /\ JustInv)'
  BY TypeStep, JustStep
<1>3. TypeInv /\ JustInv /\ [Next]_vars => [Promise!Next]_(Promise!vars)
  BY StepSaturates
<1> QED BY <1>1, <1>2, <1>3, PTL DEF Spec

-----------------------------------------------------------------------------
(* The depth bound.  Every distance up to the bound is the length of a     *)
(* descent: the state has a transition to an initial state or to one whose *)
(* distance is smaller.  A distance that is recorded for a rejected        *)
(* transition is beyond the bound, and one that is out of date because a   *)
(* successor came closer is only too large.                                *)

\* The states with a distance, and the initial states.
Reaching == Unbalanced \cup DOMAIN distance

Shallow ==
  \A t \in DOMAIN weight :
    /\ t.start \in DOMAIN distance /\ distance[t.start] <= MaxDepth
    /\ t.target \in Reaching

StepsDown(q, t) ==
  /\ t.start = q
  /\ \/ t.target \in Unbalanced
     \/ t.target \in DOMAIN distance /\ distance[t.target] < distance[q]
Descends ==
  \A q \in DOMAIN distance :
    distance[q] <= MaxDepth => \E t \in DOMAIN weight : StepsDown(q, t)

\* What is told of is in the automaton.
Tells(f) == f.op \in {"updated", "notify"} => f.t \in DOMAIN weight

\* In the stack s each transition to add leads to one of the states K, or to the
\* start of one that is added before: HandlePushListener adds the transition out
\* of a generated state before the one into it.
AnchoredAt(K, s, i) ==
  \/ s[i].t.target \in K
  \/ \E j \in 1 .. Len(s) : j < i /\ s[j].op = "add" /\ s[j].t.start = s[i].t.target
Anchored(K, s) == \A i \in 1 .. Len(s) : s[i].op = "add" => AnchoredAt(K, s, i)

DepthInv ==
  /\ Shallow /\ Descends
  /\ \A f \in Range(stack) : Tells(f)
  /\ Anchored(Reaching, stack)

\* A client adds a transition only to a state that is initial or has a distance
\* by then, as SyncPDSSolver.solve does for the call automaton and for a start
\* without a field.  With a field it adds the transition into the generated state
\* first: computeDistance answers -1, and it is accepted whatever the bound.
SeedsReach == \A s \in seeded' \ seeded : s[1].target \in Reaching

LEMMA AnchoredStays ==
  ASSUME NEW K, NEW L, K \subseteq L, NEW s, Anchored(K, s)
  PROVE  Anchored(L, s)
BY DEF Anchored, AnchoredAt

LEMMA AnchoredConcat ==
  ASSUME NEW K, NEW s \in Seq(Frame), NEW e \in Seq(Frame), Anchored(K, s), Anchored(K, e)
  PROVE  Anchored(K, e \o s)
<1> DEFINE u == e \o s
<1>1. /\ Len(u) = Len(e) + Len(s)
      /\ \A i \in 1 .. Len(u) : u[i] = IF i <= Len(e) THEN e[i] ELSE s[i - Len(e)]
  BY ConcatProperties
<1>2. Len(e) \in Nat /\ Len(s) \in Nat
  OBVIOUS
<1> HIDE DEF u
<1> SUFFICES ASSUME NEW i \in 1 .. Len(u), u[i].op = "add"
             PROVE  AnchoredAt(K, u, i)
  BY DEF Anchored, u
<1>3. CASE i <= Len(e)
  <2>1. i \in 1 .. Len(e) /\ u[i] = e[i]
    BY <1>1, <1>2, <1>3
  <2>2. AnchoredAt(K, e, i)
    BY <2>1 DEF Anchored
  <2>3. \A j \in 1 .. Len(e) : j \in 1 .. Len(u) /\ u[j] = e[j]
    <3> TAKE j \in 1 .. Len(e)
    <3>1. j \in 1 .. Len(u) /\ j <= Len(e)
      BY <1>1, <1>2
    <3> QED BY <1>1, <3>1
  <2> QED BY <2>1, <2>2, <2>3 DEF AnchoredAt
<1>4. CASE ~ (i <= Len(e))
  <2> DEFINE k == i - Len(e)
  <2>1. k \in 1 .. Len(s) /\ u[i] = s[k]
    BY <1>1, <1>2, <1>4
  <2>2. AnchoredAt(K, s, k)
    BY <2>1 DEF Anchored
  <2>3. \A j \in 1 .. Len(s) : /\ j + Len(e) \in 1 .. Len(u) /\ u[j + Len(e)] = s[j]
                               /\ j < k => j + Len(e) < i
    <3> TAKE j \in 1 .. Len(s)
    <3>1. j + Len(e) \in 1 .. Len(u) /\ ~ (j + Len(e) <= Len(e)) /\ (j + Len(e)) - Len(e) = j
      BY <1>1, <1>2
    <3>2. j < k => j + Len(e) < i
      BY <1>1, <1>2
    <3> QED BY <1>1, <3>1, <3>2
  <2> QED BY <2>1, <2>2, <2>3 DEF AnchoredAt
<1> QED BY <1>3, <1>4

LEMMA AnchoredTail ==
  ASSUME NEW K, NEW s \in Seq(Frame), s # << >>, Anchored(K, s),
         Head(s).op = "add" => Head(s).t.start \in K
  PROVE  Anchored(K, Tail(s))
<1> DEFINE u == Tail(s)
<1>1. /\ Len(u) = Len(s) - 1 /\ Len(s) \in Nat \ {0} /\ Head(s) = s[1]
      /\ \A i \in 1 .. Len(u) : u[i] = s[i + 1]
  BY HeadTailProperties
<1> HIDE DEF u
<1> SUFFICES ASSUME NEW i \in 1 .. Len(u), u[i].op = "add"
             PROVE  AnchoredAt(K, u, i)
  BY DEF Anchored, u
<1>2. i + 1 \in 1 .. Len(s) /\ u[i] = s[i + 1]
  BY <1>1
<1>3. AnchoredAt(K, s, i + 1)
  BY <1>2 DEF Anchored
<1>4. ASSUME NEW j \in 1 .. Len(s), j < i + 1, s[j].op = "add",
             s[j].t.start = s[i + 1].t.target
      PROVE  AnchoredAt(K, u, i)
  <2>0. CASE j = 1
    <3>1. Head(s).op = "add" /\ Head(s).t.start = s[i + 1].t.target
      BY <1>1, <1>4, <2>0
    <3> QED BY <1>2, <3>1 DEF AnchoredAt
  <2>1. ASSUME j # 1
        PROVE  j - 1 \in 1 .. Len(u) /\ u[j - 1] = s[j] /\ j - 1 < i
    <3>1. j - 1 \in 1 .. Len(u) /\ (j - 1) + 1 = j /\ j - 1 < i
      BY <1>1, <1>4, <2>1
    <3> QED BY <1>1, <3>1
  <2> QED BY <1>2, <1>4, <2>0, <2>1 DEF AnchoredAt
<1> QED BY <1>2, <1>3, <1>4 DEF AnchoredAt

\* The calls of a handler that is told of a transition to one of the states K.
LEMMA HandlerAnchored ==
  ASSUME NEW K, NEW l \in Listener, NEW t \in Transition, t.target \in K, NEW w
  PROVE  Anchored(K, Calls(l, t, w))
<1>1. CASE l.kind = "pop"
  <2> DEFINE a == Add(Tr(l.start, Epsilon, t.target), Extend(w, l.w))
             b == Register(TransitiveListener(l.start, t.label, t.target, Extend(w, l.w)))
             c == UnbalancedPop(l.start, t, w)
             d == Register(PopListener(t.target, l.label, l.start, l.w))
             cs == Calls(l, t, w)
  <2>1. a.op = "add" /\ a.t.target = t.target
    BY DEF Add, Tr
  <2>2. b.op # "add" /\ c.op # "add" /\ d.op # "add"
    BY DEF Register, UnbalancedPop
  <2>3. \A i \in 1 .. Len(PopCalls(l, t, w)) : PopCalls(l, t, w)[i] \in {a, b, c, d}
    <3> DEFINE m == Accepts(t.label, l.label) \/ Accepts(l.label, t.label)
    <3>1. PopCalls(l, t, w) =
            ( IF m /\ t.target \in Generated THEN << a, b >>
              ELSE IF m /\ t.target \in Unbalanced THEN << c >> ELSE << >> )
            \o ( IF t.label \in Empties THEN << d >> ELSE << >> )
      BY DEF PopCalls
    <3> HIDE DEF a, b, c, d, m
    <3> QED BY <3>1
  <2>4. cs = PopCalls(l, t, w)
    BY <1>1 DEF Calls
  <2> HIDE DEF a, b, c, d, cs
  <2>5. \A i \in 1 .. Len(cs) : cs[i].op = "add" => cs[i].t.target = t.target
    BY <2>1, <2>2, <2>3, <2>4
  <2> QED BY <2>5 DEF Anchored, AnchoredAt, cs
<1>2. CASE l.kind \in {"transitive", "normal"}
  <2>1. PICK a, v : \/ Calls(l, t, w) = << >>
                   \/ (Calls(l, t, w) = << Add(a, v) >> /\ a.target = t.target)
    <3>1. CASE l.kind = "transitive"
      <4>1. Tr(l.start, t.label, t.target).target = t.target
        BY DEF Tr
      <4> QED BY <3>1, <4>1 DEF Calls, TransitiveCalls
    <3>2. CASE l.kind = "normal"
      <4> DEFINE r == l.rule
                 a == Tr(r.s2, IF r.l2 = Any THEN t.label ELSE r.l2, t.target)
      <4>1. a.target = t.target
        BY DEF Tr
      <4> QED BY <3>2, <4>1 DEF Calls, NormalCalls
    <3> QED BY <1>2, <3>1, <3>2
  <2> QED BY <2>1 DEF Anchored, AnchoredAt, Add
<1>3. CASE l.kind = "push"
  <2> DEFINE r == l.rule
             q == << r.s2, r.l2 >>
             a == Tr(q, IF r.site = Any THEN t.label ELSE r.site, t.target)
             b == Tr(r.s2, r.l2, q)
  <2>1. a.target = t.target /\ a.start = q /\ b.target = q
    BY DEF Tr
  <2>2. \/ Calls(l, t, w) = << >>
        \/ Calls(l, t, w) = << Add(a, Extend(w, r.w)), Add(b, One) >>
    BY <1>3 DEF Calls, PushCalls
  <2> HIDE DEF a, b, q
  <2>3. Anchored(K, << Add(a, Extend(w, r.w)), Add(b, One) >>)
    <3> DEFINE c == Add(a, Extend(w, r.w))
               d == Add(b, One)
               cs == << c, d >>
    <3>1. c.op = "add" /\ c.t.target \in K /\ c.t.start = d.t.target
      BY <2>1 DEF Add
    <3> HIDE DEF c, d
    <3>2. Len(cs) = 2 /\ cs[1] = c /\ cs[2] = d
      OBVIOUS
    <3> HIDE DEF cs
    <3>3. AnchoredAt(K, cs, 1)
      BY <3>1, <3>2 DEF AnchoredAt
    <3>4. AnchoredAt(K, cs, 2)
      BY <3>1, <3>2 DEF AnchoredAt
    <3>5. \A i \in 1 .. Len(cs) : i = 1 \/ i = 2
      BY <3>2
    <3>6. Anchored(K, cs)
      BY <3>3, <3>4, <3>5 DEF Anchored
    <3> QED BY <3>6 DEF cs, c, d
  <2> QED BY <2>2, <2>3 DEF Anchored
<1> QED BY <1>1, <1>2, <1>3, ListenerKinds

-----------------------------------------------------------------------------
\* The stack below the frames e that replace the one on top.
LEMMA AnchoredReplace ==
  ASSUME TypeInv, DepthInv, stack # << >>,
         Reaching \subseteq Reaching', DOMAIN weight \subseteq DOMAIN weight',
         Top.op = "add" => Top.t.start \in Reaching',
         NEW e \in Seq(Frame), stack' = e \o Tail(stack),
         Anchored(Reaching', e), \A f \in Range(e) : Tells(f)'
  PROVE  /\ \A f \in Range(stack') : Tells(f)'
         /\ Anchored(Reaching', stack')
<1>1. stack \in Seq(Frame) /\ Tail(stack) \in Seq(Frame)
      /\ Range(Tail(stack)) \subseteq Range(stack)
  BY RangeTail DEF TypeInv, TypeOK
<1>2. Range(stack') = Range(e) \cup Range(Tail(stack))
  BY <1>1, Replace
<1>3. \A f \in Range(stack) : Tells(f)'
  BY DEF DepthInv, Tells
<1>4. Anchored(Reaching', stack)
  BY AnchoredStays DEF DepthInv
<1>5. Anchored(Reaching', Tail(stack))
  BY <1>1, <1>4, AnchoredTail DEF Top
<1>6. Anchored(Reaching', e \o Tail(stack))
  BY <1>1, <1>5, AnchoredConcat
<1> QED BY <1>1, <1>2, <1>3, <1>6

\* Where the automaton stays as it is, only the stack is left to look at.
LEMMA DepthOfStack ==
  ASSUME DepthInv, UNCHANGED << weight, distance >>,
         \A f \in Range(stack') : Tells(f)', Anchored(Reaching, stack')
  PROVE  DepthInv'
<1>1. Reaching' = Reaching
  BY DEF Reaching
<1>2. Shallow'
  BY <1>1 DEF DepthInv, Shallow
<1>3. Descends'
  BY DEF DepthInv, Descends, StepsDown
<1> QED BY <1>1, <1>2, <1>3 DEF DepthInv

\* computeDistance: a distance only gets smaller, and the start of a transition
\* whose target is known has one afterwards.
LEMMA DistanceFalls ==
  ASSUME TypeOK, NEW t \in Transition, t.target \in Reaching
  PROVE  LET d == DistanceAfter(t)
         IN  /\ DOMAIN d = DOMAIN distance \cup {t.start}
             /\ Distance(t) = d[t.start] /\ d[t.start] \in Nat \ {0}
             /\ \A q \in DOMAIN distance : d[q] <= distance[q] /\ d[q] \in Nat
             /\ \A q \in DOMAIN distance : q # t.start => d[q] = distance[q]
             /\ \/ /\ d[t.start] = TargetDistance(t) + 1
                   /\ \/ t.target \in Unbalanced
                      \/ t.target \in DOMAIN distance
                         /\ distance[t.target] = TargetDistance(t)
                \/ t.start \in DOMAIN distance /\ d = distance
<1> DEFINE n == TargetDistance(t)
<1>1. /\ n \in Nat
      /\ \/ t.target \in Unbalanced
         \/ t.target \in DOMAIN distance /\ distance[t.target] = n
  BY DEF Reaching, TargetDistance, TypeOK
<1>2. \A q \in DOMAIN distance : distance[q] \in Nat \ {0}
  BY DEF TypeOK
<1> HIDE DEF n
<1>3. Closer(t) <=> (t.start \in DOMAIN distance => n + 1 < distance[t.start])
  BY <1>1 DEF Closer, n
<1>4. Distance(t) = IF Closer(t) THEN n + 1 ELSE distance[t.start]
  BY <1>1 DEF Distance, n
<1>5. CASE Closer(t)
  <2>1. DistanceAfter(t) = [q \in DOMAIN distance \cup {t.start} |->
                              IF q = t.start THEN n + 1 ELSE distance[q]]
    BY <1>5 DEF DistanceAfter, n
  <2> DEFINE d == DistanceAfter(t)
  <2>2. /\ DOMAIN d = DOMAIN distance \cup {t.start} /\ d[t.start] = n + 1
        /\ \A q \in DOMAIN distance : q # t.start => d[q] = distance[q]
    BY <2>1
  <2> HIDE DEF d
  <2>3. \A q \in DOMAIN distance : d[q] <= distance[q] /\ d[q] \in Nat
    BY <1>1, <1>2, <1>3, <1>5, <2>2
  <2>4. Distance(t) = d[t.start] /\ d[t.start] \in Nat \ {0}
    BY <1>1, <1>4, <1>5, <2>2
  <2> QED BY <1>1, <2>2, <2>3, <2>4 DEF n, d
<1>6. CASE ~ Closer(t)
  <2>1. DistanceAfter(t) = distance /\ t.start \in DOMAIN distance
    BY <1>3, <1>6 DEF DistanceAfter
  <2> QED BY <1>2, <1>4, <1>6, <2>1
<1> QED BY <1>5, <1>6

\* A transition is taken up only within the bound; then its start steps down over
\* it, and every other state as before.
LEMMA AddDepth ==
  ASSUME TypeInv, DepthInv, MaxDepth > 0, AddWeight
  PROVE  DepthInv'
<1> DEFINE t == Top.t
           w == Top.w
           d == DistanceAfter(t)
<1>1. /\ stack \in Seq(Frame) /\ stack # << >> /\ Top.op = "add"
      /\ t \in Transition /\ Combined(t, w) \in Weights
  BY TopFrame, AddFrames DEF AddWeight, TypeInv
<1>2. AddReject(t) \/ AddAbsorbed(t, w) \/ AddChanged(t, w)
  BY DEF AddWeight
<1>3. t.target \in Reaching
  <2>1. stack[1] = Top /\ 1 \in 1 .. Len(stack)
    BY <1>1 DEF Top
  <2>2. AnchoredAt(Reaching, stack, 1)
    BY <1>1, <2>1 DEF DepthInv, Anchored
  <2>3. \A j \in 1 .. Len(stack) : ~ (j < 1)
    OBVIOUS
  <2> QED BY <2>1, <2>2, <2>3 DEF AnchoredAt
<1> HIDE DEF t, w
<1>4. \/ SelfLoop(t) /\ UNCHANGED << weight, distance >>
      \/ /\ distance' = d
         /\ \/ TooDeep(t) /\ weight' = weight
            \/ /\ ~ TooDeep(t) /\ t \in DOMAIN weight'
               /\ DOMAIN weight' = DOMAIN weight \cup {t}
  BY <1>2 DEF AddReject, AddAbsorbed, AddChanged
<1> HIDE DEF d
<1>5. /\ DOMAIN d = DOMAIN distance \cup {t.start}
      /\ Distance(t) = d[t.start] /\ d[t.start] \in Nat \ {0}
      /\ \A q \in DOMAIN distance : d[q] <= distance[q] /\ d[q] \in Nat
      /\ \A q \in DOMAIN distance : q # t.start => d[q] = distance[q]
      /\ \/ /\ d[t.start] = TargetDistance(t) + 1
            /\ \/ t.target \in Unbalanced
               \/ t.target \in DOMAIN distance
                  /\ distance[t.target] = TargetDistance(t)
         \/ t.start \in DOMAIN distance /\ d = distance
  BY <1>1, <1>3, DistanceFalls DEF TypeInv, d
<1>6. /\ Reaching \subseteq Reaching' /\ t.start \in Reaching'
      /\ DOMAIN weight \subseteq DOMAIN weight'
  <2>1. CASE SelfLoop(t) /\ UNCHANGED << weight, distance >>
    BY <1>3, <2>1 DEF SelfLoop, Reaching
  <2>2. CASE distance' = d
    BY <1>4, <1>5, <2>2 DEF Reaching
  <2> QED BY <1>4, <2>1, <2>2
<1>7. \A q \in DOMAIN distance : distance[q] \in Nat
  BY DEF TypeInv, TypeOK
<1>8. MaxDepth \in Int
  BY SymbolAssumption
<1>9. Shallow' /\ Descends'
  <2>1. CASE UNCHANGED << weight, distance >>
    BY <2>1 DEF DepthInv, Shallow, Descends, StepsDown, Reaching
  <2>2. CASE distance' = d /\ TooDeep(t) /\ weight' = weight
    <3>1. d[t.start] > MaxDepth
      BY <1>5, <2>2 DEF TooDeep
    <3>2. \A q \in DOMAIN d : d[q] <= MaxDepth => q # t.start /\ q \in DOMAIN distance
      BY <1>5, <1>8, <3>1
    <3>3. Shallow'
      <4>1. ASSUME NEW x \in DOMAIN weight
            PROVE  x.start \in DOMAIN d /\ d[x.start] <= MaxDepth
        BY <1>5, <1>7, <1>8 DEF DepthInv, Shallow
      <4> QED BY <1>6, <2>2, <4>1 DEF DepthInv, Shallow
    <3>4. Descends'
      <4> SUFFICES ASSUME NEW q \in DOMAIN d, d[q] <= MaxDepth
                   PROVE  \E x \in DOMAIN weight : StepsDown(q, x)'
        BY <2>2 DEF Descends
      <4>1. q # t.start /\ q \in DOMAIN distance /\ d[q] = distance[q]
        BY <1>5, <3>2
      <4>2. PICK x \in DOMAIN weight : StepsDown(q, x)
        BY <4>1 DEF DepthInv, Descends
      <4>3. x.target \in DOMAIN distance /\ distance[x.target] < distance[q]
            => x.target \in DOMAIN d /\ d[x.target] < d[q]
        BY <1>5, <1>7, <4>1
      <4>4. StepsDown(q, x)'
        BY <2>2, <4>2, <4>3 DEF StepsDown
      <4> QED BY <4>4
    <3> QED BY <3>3, <3>4
  <2>3. CASE distance' = d /\ ~ TooDeep(t) /\ DOMAIN weight' = DOMAIN weight \cup {t}
    <3>1. d[t.start] <= MaxDepth
      BY <1>5, <1>8, <2>3 DEF TooDeep
    <3>2. Shallow'
      <4>1. ASSUME NEW x \in DOMAIN weight
            PROVE  x.start \in DOMAIN d /\ d[x.start] <= MaxDepth
        BY <1>5, <1>7, <1>8 DEF DepthInv, Shallow
      <4> QED BY <1>3, <1>5, <1>6, <2>3, <3>1, <4>1 DEF DepthInv, Shallow
    <3>3. Descends'
      <4> SUFFICES ASSUME NEW q \in DOMAIN d, d[q] <= MaxDepth
                   PROVE  \E x \in DOMAIN weight \cup {t} : StepsDown(q, x)'
        BY <2>3 DEF Descends
      <4>1. CASE q \in DOMAIN distance /\ d[q] = distance[q]
        <5>1. PICK x \in DOMAIN weight : StepsDown(q, x)
          BY <4>1 DEF DepthInv, Descends
        <5>2. x.target \in DOMAIN distance /\ distance[x.target] < distance[q]
              => x.target \in DOMAIN d /\ d[x.target] < d[q]
          BY <1>5, <1>7, <4>1
        <5>3. StepsDown(q, x)'
          BY <2>3, <5>1, <5>2 DEF StepsDown
        <5> QED BY <5>3
      <4>2. CASE /\ q = t.start /\ d[q] = TargetDistance(t) + 1
                 /\ \/ t.target \in Unbalanced
                    \/ t.target \in DOMAIN distance
                       /\ distance[t.target] = TargetDistance(t)
        <5>1. t.target \in DOMAIN distance /\ distance[t.target] = TargetDistance(t)
              => t.target \in DOMAIN d /\ d[t.target] < d[q]
          BY <1>5, <1>7, <4>2
        <5>2. /\ t.start = q
              /\ \/ t.target \in Unbalanced
                 \/ t.target \in DOMAIN distance' /\ distance'[t.target] < distance'[q]
          BY <2>3, <4>2, <5>1
        <5> QED BY <5>2 DEF StepsDown
      <4> QED BY <1>5, <4>1, <4>2
    <3> QED BY <3>2, <3>3
  <2> QED BY <1>4, <2>1, <2>2, <2>3
<1>10. PICK e \in Seq(Frame) :
         /\ stack' = e \o Tail(stack)
         /\ e = << >> \/ (e = << Updated(t, Combined(t, w)) >> /\ t \in DOMAIN weight')
  <2>1. CASE AddChanged(t, w)
    <3>1. << Updated(t, Combined(t, w)) >> \in Seq(Frame)
      BY <1>1, FrameTypes
    <3> QED BY <2>1, <3>1 DEF AddChanged
  <2>2. CASE ~ AddChanged(t, w)
    <3>1. stack' = Tail(stack) /\ Tail(stack) \in Seq(Frame)
      BY <1>1, <1>2, <2>2, RangeTail DEF AddReject, AddAbsorbed
    <3>2. << >> \in Seq(Frame) /\ Tail(stack) = << >> \o Tail(stack)
      BY <3>1, ConcatEmptySeq
    <3> QED BY <3>1, <3>2
  <2> QED BY <2>1, <2>2
<1>11. Anchored(Reaching', e) /\ \A f \in Range(e) : Tells(f)'
  BY <1>10 DEF Anchored, Updated, Range, Tells
<1>12. /\ \A f \in Range(stack') : Tells(f)'
       /\ Anchored(Reaching', stack')
  BY <1>1, <1>6, <1>10, <1>11, AnchoredReplace DEF t
<1> QED BY <1>9, <1>12 DEF DepthInv

\* The calls of a handler, then the rest y of its loop.
LEMMA HandlerDepth ==
  ASSUME TypeInv, DepthInv, MaxDepth > 0, NEW op, Running(op), op # "add",
         UNCHANGED << weight, distance >>,
         NEW l \in Listener, NEW t \in DOMAIN weight, NEW w \in Weights,
         NEW y \in Frame, y.op \in {"notify", "replay"}, y.op = "notify" => y.t = t,
         stack' = Calls(l, t, w) \o << y >> \o Tail(stack)
  PROVE  DepthInv'
<1> DEFINE cs == Calls(l, t, w)
           e == cs \o << y >>
<1>1. stack # << >> /\ Top.op = op
  BY TopFrame DEF TypeInv
<1>2. t \in Transition /\ t.target \in Reaching
  BY DEF TypeInv, TypeOK, DepthInv, Shallow
<1>3. cs \in Seq(CallFrame) /\ cs \in Seq(Frame)
  BY <1>2, CallsType, CallsAreFrames
<1>4. << y >> \in Seq(Frame) /\ Range(<< y >>) = {y} /\ Anchored(Reaching, << y >>)
  BY SingleRange DEF Anchored
<1>5. Anchored(Reaching, cs)
  BY <1>2, HandlerAnchored
<1>6. \A c \in Range(cs) : c.op \notin {"updated", "notify"}
  BY <1>3 DEF Range, CallFrame
<1> HIDE DEF cs
<1>7. e \in Seq(Frame) /\ Range(e) = Range(cs) \cup {y}
  BY <1>3, <1>4, RangeConcat
<1>8. \A c \in Range(e) : Tells(c)'
  BY <1>6, <1>7 DEF Tells
<1>9. Anchored(Reaching, e)
  BY <1>3, <1>4, <1>5, AnchoredConcat
<1>10. stack' = e \o Tail(stack)
  BY DEF cs
<1>11. Reaching' = Reaching
  BY DEF Reaching
<1> HIDE DEF e
<1>12. /\ \A f \in Range(stack') : Tells(f)'
       /\ Anchored(Reaching', stack')
  BY <1>1, <1>7, <1>8, <1>9, <1>10, <1>11, AnchoredReplace
<1> QED BY <1>11, <1>12, DepthOfStack

LEMMA LoopDepth ==
  ASSUME TypeInv, DepthInv, MaxDepth > 0,
         ServeStateListeners \/ Deliver \/ RegisterListener \/ ReplayTransition
         \/ ReplayRule \/ Return \/ RecordUnbalancedPop
  PROVE  DepthInv'
<1>u. UNCHANGED << weight, distance >> /\ Reaching' = Reaching
  BY DEF ServeStateListeners, Deliver, RegisterListener, ReplayTransition, ReplayRule,
     Return, RecordUnbalancedPop, Reaching
<1>1. CASE Deliver
  <2>1. PICK l \in Top.ls :
          stack' = Calls(l, Top.t, Top.w)
                   \o << Notify(Top.t, Top.w, Top.ls \ {l}) >> \o Tail(stack)
    BY <1>1 DEF Deliver
  <2> DEFINE y == Notify(Top.t, Top.w, Top.ls \ {l})
  <2>2. /\ Running("notify") /\ Top \in Frame /\ Top.op = "notify" /\ Top \in Range(stack)
    BY <1>1, TopFrame DEF Deliver, TypeInv
  <2>3. y \in Frame /\ Top.w \in Weights /\ l \in Listener
    BY <2>2, FrameKinds, FrameTypes
  <2>4. Top.t \in DOMAIN weight
    BY <2>2 DEF DepthInv, Tells
  <2>5. y.op = "notify" /\ y.t = Top.t
    BY DEF Notify
  <2> HIDE DEF y
  <2> QED BY <1>u, <2>1, <2>2, <2>3, <2>4, <2>5, HandlerDepth DEF y
<1>2. CASE ReplayTransition
  <2>1. PICK t \in Top.ts :
          stack' = Calls(Top.l, t, weight[t])
                   \o << Replay(Top.l, Top.ts \ {t}) >> \o Tail(stack)
    BY <1>2 DEF ReplayTransition
  <2> DEFINE y == Replay(Top.l, Top.ts \ {t})
  <2>2. /\ Running("replay") /\ Top \in Frame /\ Top.op = "replay" /\ Top \in Range(stack)
    BY <1>2, TopFrame DEF ReplayTransition, TypeInv
  <2>3. y \in Frame /\ Top.l \in Listener
    BY <2>2, FrameKinds, FrameTypes
  <2>4. t \in DOMAIN weight /\ weight[t] \in Weights
    BY <2>2 DEF TypeInv, ReplayKnown, TypeOK
  <2>5. y.op = "replay"
    BY DEF Replay
  <2>6. stack' = Calls(Top.l, t, weight[t]) \o << y >> \o Tail(stack)
    BY <2>1
  <2> HIDE DEF y
  <2> QED BY <1>u, <2>2, <2>3, <2>4, <2>5, <2>6, HandlerDepth
<1>3. CASE \/ ServeStateListeners \/ RegisterListener \/ ReplayRule \/ Return
           \/ RecordUnbalancedPop
  <2>1. PICK op : Running(op) /\ op # "add"
    BY <1>3 DEF ServeStateListeners, RegisterListener, ReplayRule, Return, RecordUnbalancedPop
  <2>2. /\ stack # << >> /\ Top.op # "add" /\ Top \in Frame /\ Top \in Range(stack)
        /\ stack \in Seq(Frame) /\ Tail(stack) \in Seq(Frame) /\ Top.op = op
    BY <2>1, TopFrame DEF TypeInv
  <2>3. PICK e \in Seq(Frame) :
          /\ stack' = e \o Tail(stack)
          /\ \A i \in 1 .. Len(e) :
                /\ e[i].op # "add"
                /\ e[i].op \in {"updated", "notify"} => e[i].t \in DOMAIN weight
    <3>1. CASE ServeStateListeners
      <4> DEFINE y == Notify(Top.t, Top.w, { l \in listeners : l.state = Top.t.start })
      <4>1. Top.op = "updated"
        BY <3>1, <2>2 DEF ServeStateListeners, Running
      <4>2. y \in Frame /\ y.t = Top.t /\ y.op = "notify" /\ Top.t \in DOMAIN weight
        BY <2>2, <4>1, FrameKinds, FrameTypes DEF TypeInv, TypeOK, DepthInv, Tells, Notify
      <4>3. stack' = << y >> \o Tail(stack)
        BY <3>1 DEF ServeStateListeners
      <4> HIDE DEF y
      <4>4. << y >> \in Seq(Frame) /\ \A i \in 1 .. Len(<< y >>) : << y >>[i] = y
        BY <4>2
      <4> DEFINE e == << y >>
      <4>5. /\ e \in Seq(Frame) /\ stack' = e \o Tail(stack)
            /\ \A i \in 1 .. Len(e) : e[i] = y
        BY <4>3, <4>4
      <4> HIDE DEF e
      <4> QED BY <4>2, <4>5
    <3>2. CASE RegisterListener /\ Top.l \notin listeners
      <4> DEFINE y == Replay(Top.l, OutOf(Top.l.state))
      <4>1. Top.op = "register"
        BY <3>2, <2>2 DEF RegisterListener, Running
      <4>2. y \in Frame /\ y.op = "replay"
        BY <2>2, <4>1, FrameKinds, FrameTypes DEF TypeInv, TypeOK, OutOf, Replay
      <4>3. stack' = << y >> \o Tail(stack)
        BY <3>2 DEF RegisterListener
      <4> HIDE DEF y
      <4>4. << y >> \in Seq(Frame) /\ \A i \in 1 .. Len(<< y >>) : << y >>[i] = y
        BY <4>2
      <4> DEFINE e == << y >>
      <4>5. /\ e \in Seq(Frame) /\ stack' = e \o Tail(stack)
            /\ \A i \in 1 .. Len(e) : e[i] = y
        BY <4>3, <4>4
      <4> HIDE DEF e
      <4> QED BY <4>2, <4>5
    <3>3. CASE ReplayRule
      <4>1. PICK r \in Top.rs :
              stack' = << Register(ListenerOf(r)), RuleLoop(Top.rs \ {r}) >> \o Tail(stack)
        BY <3>3 DEF ReplayRule
      <4> DEFINE x == Register(ListenerOf(r))
                 y == RuleLoop(Top.rs \ {r})
      <4>2. Top.op = "rules"
        BY <3>3, <2>2 DEF ReplayRule, Running
      <4>3. x \in Frame /\ y \in Frame
        BY <2>2, <4>1, <4>2, FrameKinds, FrameTypes, ListenerTypes, CallsAreFrames
      <4>4. x.op = "register" /\ y.op = "rules"
        BY DEF Register, RuleLoop
      <4>5. stack' = << x, y >> \o Tail(stack)
        BY <4>1
      <4> HIDE DEF x, y
      <4> DEFINE e == << x, y >>
      <4>6. /\ e \in Seq(Frame) /\ stack' = e \o Tail(stack)
            /\ \A i \in 1 .. Len(e) : e[i] = x \/ e[i] = y
        BY <4>3, <4>5
      <4> HIDE DEF e
      <4> QED BY <4>4, <4>6
    <3>4. CASE stack' = << Popped >> \o Tail(stack)
      <4>1. << Popped >> \in Seq(Frame) /\ Popped.op = "popped"
        BY FrameTypes DEF Popped
      <4> DEFINE e == << Popped >>
      <4>2. /\ e \in Seq(Frame) /\ stack' = e \o Tail(stack)
            /\ \A i \in 1 .. Len(e) : e[i] = Popped
        BY <3>4, <4>1
      <4> HIDE DEF e
      <4> QED BY <4>1, <4>2
    <3>5. CASE stack' = Tail(stack)
      <4>1. << >> \in Seq(Frame) /\ Tail(stack) = << >> \o Tail(stack)
        BY <2>2, ConcatEmptySeq
      <4> DEFINE e == << >>
      <4>2. e \in Seq(Frame) /\ \A i \in 1 .. Len(e) : FALSE
        OBVIOUS
      <4>3. stack' = e \o Tail(stack)
        BY <3>5, <4>1, Zenon
      <4> HIDE DEF e
      <4> QED BY <4>2, <4>3
    <3> QED BY <1>3, <3>1, <3>2, <3>3, <3>4, <3>5
        DEF RegisterListener, Return, RecordUnbalancedPop
  <2>4. Anchored(Reaching', e)
    BY <2>3 DEF Anchored
  <2>5. \A f \in Range(e) : Tells(f)'
    BY <1>u, <2>3 DEF Tells, Range
  <2>6. /\ \A f \in Range(stack') : Tells(f)'
        /\ Anchored(Reaching', stack')
    BY <1>u, <2>2, <2>3, <2>4, <2>5, AnchoredReplace
  <2> QED BY <1>u, <2>6, DepthOfStack
<1> QED BY <1>1, <1>2, <1>3

LEMMA ClientDepthKept ==
  ASSUME TypeInv, DepthInv, Client, SeedsReach
  PROVE  DepthInv'
<1>1. CASE StartPostStar
  <2>1. stack' = << RuleLoop(rules) >> /\ UNCHANGED << weight, distance >>
    BY <1>1 DEF StartPostStar
  <2>2. Range(stack') = {RuleLoop(rules)}
    BY <2>1, SingleRange, FrameTypes DEF TypeInv, TypeOK
  <2>3. \A f \in Range(stack') : Tells(f)'
    BY <2>2 DEF Tells, RuleLoop
  <2>4. Anchored(Reaching, stack')
    BY <2>1 DEF Anchored, RuleLoop
  <2> QED BY <2>1, <2>3, <2>4, DepthOfStack
<1>2. ASSUME NEW x \in Frame, stack' = << x >> \o stack,
             UNCHANGED << weight, distance >>, x.op \in {"add", "register"},
             x.op = "add" => x.t.target \in Reaching
      PROVE  DepthInv'
  <2>1. stack \in Seq(Frame) /\ << x >> \in Seq(Frame)
    BY DEF TypeInv, TypeOK
  <2>2. Range(stack') = {x} \cup Range(stack)
    BY <1>2, <2>1, PushFrame
  <2>3. \A f \in Range(stack') : Tells(f)'
    BY <1>2, <2>2 DEF DepthInv, Tells
  <2>4. Anchored(Reaching, << x >>)
    BY <1>2 DEF Anchored, AnchoredAt
  <2>5. Anchored(Reaching, stack')
    BY <1>2, <2>1, <2>4, AnchoredConcat DEF DepthInv
  <2> QED BY <1>2, <2>3, <2>5, DepthOfStack
<1>3. ASSUME NEW r \in Rules, AddRule(r) PROVE DepthInv'
  <2>1. UNCHANGED << weight, distance >>
        /\ stack' = IF started THEN << Register(ListenerOf(r)) >> \o stack ELSE stack
    BY <1>3 DEF AddRule
  <2>2. Register(ListenerOf(r)) \in Frame /\ Register(ListenerOf(r)).op = "register"
    BY ListenerTypes, FrameTypes, CallsAreFrames DEF Register
  <2>3. CASE started
    <3> DEFINE x == Register(ListenerOf(r))
    <3>1. x \in Frame /\ x.op = "register" /\ stack' = << x >> \o stack
      BY <2>1, <2>2, <2>3
    <3> HIDE DEF x
    <3> QED BY <1>2, <2>1, <3>1
  <2>4. CASE ~ started
    <3>1. (\A f \in Range(stack') : Tells(f)') /\ Anchored(Reaching, stack')
      BY <2>1, <2>4 DEF DepthInv, Tells
    <3> QED BY <2>1, <3>1, DepthOfStack
  <2> QED BY <2>3, <2>4
<1>4. ASSUME NEW s \in Seeds, AddSeed(s) PROVE DepthInv'
  <2> DEFINE x == Add(s[1], s[2])
  <2>1. UNCHANGED << weight, distance >> /\ stack' = << x >> \o stack
        /\ s \in seeded' \ seeded
    BY <1>4 DEF AddSeed
  <2>2. x \in Frame /\ x.op = "add" /\ x.t = s[1]
    BY RuleAssumption, FrameTypes, CallsAreFrames DEF Add
  <2>3. x.t.target \in Reaching
    BY <2>1, <2>2 DEF SeedsReach
  <2> HIDE DEF x
  <2> QED BY <1>2, <2>1, <2>2, <2>3
<1> QED BY <1>1, <1>3, <1>4 DEF Client

LEMMA DepthStep ==
  ASSUME MaxDepth > 0
  PROVE  TypeInv /\ DepthInv /\ [Next]_vars /\ [SeedsReach]_vars => DepthInv'
<1> SUFFICES ASSUME TypeInv, DepthInv, [Next]_vars, [SeedsReach]_vars PROVE DepthInv'
  OBVIOUS
<1>1. CASE UNCHANGED vars
  <2>1. UNCHANGED << weight, distance, stack >>
    BY <1>1 DEF vars
  <2>2. (\A f \in Range(stack') : Tells(f)') /\ Anchored(Reaching, stack')
    BY <2>1 DEF DepthInv, Tells
  <2> QED BY <2>1, <2>2, DepthOfStack
<1>2. CASE Next /\ SeedsReach
  BY <1>2, AddDepth, LoopDepth, ClientDepthKept DEF Next, Engine
<1> QED BY <1>1, <1>2

\* Every set of natural numbers has a least element.
LEMMA Least ==
  ASSUME NEW T \in SUBSET Nat, T # {}
  PROVE  \E x \in T : \A y \in T : x <= y
<1> DEFINE R == { p \in Nat \X Nat : p[1] < p[2] }
<1>1. R = OpToRel(<, Nat)
  BY DEF OpToRel
<1>2. IsWellFoundedOn(R, Nat)
  BY <1>1, NatLessThanWellFounded
<1>3. ASSUME NEW x \in Nat, NEW y \in Nat, ~ (<< y, x >> \in R) PROVE x <= y
  <2>1. << y, x >> \in Nat \X Nat /\ << y, x >>[1] = y /\ << y, x >>[2] = x
    OBVIOUS
  <2> QED BY <1>3, <2>1
<1> HIDE DEF R
<1>4. PICK x \in T : \A y \in T : ~ (<< y, x >> \in R)
  BY <1>2, WFMin
<1>5. \A y \in T : x <= y
  BY <1>3, <1>4
<1> QED BY <1>4, <1>5

\* A state whose distance is within the bound has a path of that length: the one
\* with the least distance among those that have none would step down to another.
LEMMA DistanceIsNear ==
  ASSUME TypeInv, DepthInv, NEW q \in DOMAIN distance, distance[q] <= MaxDepth
  PROVE  NearInitial(q, distance[q])
<1> DEFINE Far(n) == \E s \in DOMAIN distance :
                       distance[s] = n /\ n <= MaxDepth /\ ~ NearInitial(s, n)
           T == { n \in Nat : Far(n) }
<1>1. \A s \in DOMAIN distance : distance[s] \in Nat \ {0}
  BY DEF TypeInv, TypeOK
<1>2. SUFFICES ASSUME T # {} PROVE FALSE
  BY <1>1
<1>3. PICK n \in T : \A m \in T : n <= m
  <2>1. T \in SUBSET Nat
    OBVIOUS
  <2> HIDE DEF T
  <2> QED BY <1>2, <2>1, Least
<1>4. PICK s \in DOMAIN distance :
        distance[s] = n /\ n <= MaxDepth /\ ~ NearInitial(s, n)
  BY <1>3
<1>5. n \in Nat \ {0} /\ MaxDepth \in Int
  BY <1>1, <1>4, SymbolAssumption
<1>6. PICK t \in DOMAIN weight : StepsDown(s, t)
  BY <1>4 DEF DepthInv, Descends
<1>7. CASE t.target \in Unbalanced
  <2> DEFINE path == [i \in 1 .. 1 |-> t]
  <2>1. /\ path \in [1 .. 1 -> DOMAIN weight] /\ path[1] = t /\ 1 \in 1 .. n
        /\ \A i \in 1 .. 1 - 1 : FALSE
    BY <1>5
  <2> HIDE DEF path
  <2>2. NearInitial(s, n)
    BY <1>6, <1>7, <2>1 DEF NearInitial, StepsDown
  <2> QED BY <1>4, <2>2
<1>8. CASE t.target \in DOMAIN distance /\ distance[t.target] < distance[s]
  <2> DEFINE m == distance[t.target]
  <2>1. m \in Nat \ {0} /\ m < n /\ m <= MaxDepth
    BY <1>1, <1>4, <1>5, <1>8
  <2>2. m \notin T
    <3>1. m \in T => n <= m
      BY <1>3
    <3> QED BY <1>5, <2>1, <3>1
  <2>3. NearInitial(t.target, m)
    BY <1>8, <2>1, <2>2
  <2> HIDE DEF m, T
  <2>4. PICK k \in 1 .. m : \E path \in [1 .. k -> DOMAIN weight] :
          /\ path[1].start = t.target /\ path[k].target \in Unbalanced
          /\ \A i \in 1 .. k - 1 : path[i].target = path[i + 1].start
    BY <2>3 DEF NearInitial
  <2>5. PICK path \in [1 .. k -> DOMAIN weight] :
          /\ path[1].start = t.target /\ path[k].target \in Unbalanced
          /\ \A i \in 1 .. k - 1 : path[i].target = path[i + 1].start
    BY <2>4
  <2> DEFINE longer == [i \in 1 .. k + 1 |-> IF i = 1 THEN t ELSE path[i - 1]]
  <2>6. k \in Nat \ {0} /\ k + 1 \in 1 .. n
    BY <1>5, <2>1, <2>4
  <2>7. longer \in [1 .. k + 1 -> DOMAIN weight]
    <3>1. \A i \in 1 .. k + 1 : i # 1 => i - 1 \in 1 .. k
      BY <2>6
    <3> QED BY <1>6, <2>5, <3>1
  <2>8. longer[1] = t /\ \A i \in 1 .. k : longer[i + 1] = path[i]
    <3>1. \A i \in 1 .. k : i + 1 \in 1 .. k + 1 /\ i + 1 # 1 /\ (i + 1) - 1 = i
      BY <2>6
    <3>2. 1 \in 1 .. k + 1
      BY <2>6
    <3> QED BY <3>1, <3>2
  <2> HIDE DEF longer
  <2>9. longer[1].start = s /\ longer[k + 1].target \in Unbalanced
    <3>1. k \in 1 .. k
      BY <2>6
    <3> QED BY <1>6, <2>5, <2>8, <3>1 DEF StepsDown
  <2>10. ASSUME NEW i \in 1 .. (k + 1) - 1
         PROVE  longer[i].target = longer[i + 1].start
    <3>1. CASE i = 1
      <4>1. 1 \in 1 .. k
        BY <2>6
      <4>2. longer[1 + 1] = path[1]
        BY <2>8, <4>1
      <4> QED BY <2>5, <2>8, <3>1, <4>2
    <3>2. CASE i # 1
      <4>1. i - 1 \in 1 .. k - 1 /\ i - 1 \in 1 .. k /\ i \in 1 .. k /\ (i - 1) + 1 = i
        BY <2>6, <3>2
      <4>2. longer[i] = path[i - 1] /\ longer[i + 1] = path[i]
        BY <2>8, <4>1
      <4>3. path[i - 1].target = path[i].start
        BY <2>5, <4>1
      <4> QED BY <4>2, <4>3
    <3> QED BY <3>1, <3>2
  <2>11. NearInitial(s, n)
    BY <2>6, <2>7, <2>9, <2>10 DEF NearInitial
  <2> QED BY <1>4, <2>11
<1> QED BY <1>6, <1>7, <1>8 DEF StepsDown

LEMMA NearerIsNear ==
  ASSUME NEW q, NEW m \in Nat, NEW n \in Int, m <= n, NearInitial(q, m)
  PROVE  NearInitial(q, n)
<1>1. \A k \in 1 .. m : k \in 1 .. n
  OBVIOUS
<1> QED BY <1>1 DEF NearInitial

\* The depth bound means what it says: as long as clients add transitions only to
\* states that are initial or have a distance, every state that reads a transition
\* is at most MaxDepth transitions away from an initial one, although computeDistance
\* records distances of rejected transitions and never corrects one that a shorter
\* way further down has made too large (WeightedPAutomaton.addWeightForTransition).
THEOREM DepthIsBounded ==
  Spec /\ [][SeedsReach]_vars => []BoundedDepth
<1>1. CASE ~ (MaxDepth > 0)
  <2>1. BoundedDepth
    BY <1>1 DEF BoundedDepth
  <2> QED BY <2>1, PTL
<1>2. CASE MaxDepth > 0
  <2>1. Init => TypeInv /\ DepthInv
    <3> SUFFICES ASSUME Init PROVE TypeInv /\ DepthInv
      OBVIOUS
    <3>1. /\ Range(stack) = {} /\ DOMAIN weight = {} /\ DOMAIN distance = {}
          /\ stack = << >>
      BY EmptyRange DEF Init
    <3>2. Anchored(Reaching, stack)
      BY <3>1 DEF Anchored
    <3> QED BY <3>1, <3>2, TypeInit DEF DepthInv, Shallow, Descends
  <2>2. TypeInv /\ DepthInv /\ [Next]_vars /\ [SeedsReach]_vars => (TypeInv /\ DepthInv)'
    BY <1>2, TypeStep, DepthStep
  <2>3. TypeInv /\ DepthInv => BoundedDepth
    <3> SUFFICES ASSUME TypeInv, DepthInv, NEW t \in DOMAIN weight
                 PROVE  NearInitial(t.start, MaxDepth)
      BY DEF BoundedDepth
    <3>1. t.start \in DOMAIN distance /\ distance[t.start] <= MaxDepth
      BY DEF DepthInv, Shallow
    <3>2. distance[t.start] \in Nat /\ MaxDepth \in Int
      BY <3>1, SymbolAssumption DEF TypeInv, TypeOK
    <3>3. NearInitial(t.start, distance[t.start])
      BY <3>1, DistanceIsNear
    <3> QED BY <3>1, <3>2, <3>3, NearerIsNear
  <2> QED BY <2>1, <2>2, <2>3, PTL DEF Spec
<1> QED BY <1>1, <1>2


-----------------------------------------------------------------------------
(***************************************************************************)
(* The reachability listeners.  The tables of the visitor only grow; what  *)
(* holds of them between its calls is said for a visitor v, so that it can *)
(* be stated of what each of its operations returns.                       *)
(***************************************************************************)

Pairs == State \X State
Visitor ==
  [ kind : {"dfs", "epsilon"}, registered : BOOLEAN, adjacent : SUBSET Pairs,
    refs : SUBSET Pairs, inverse : SUBSET Pairs, listeners : SUBSET State,
    closures : SUBSET Pairs, heard : SUBSET (State \X Transition), due : SUBSET Nat,
    replay : SUBSET Transition, worklist : SUBSET Pairs, asking : SUBSET State ]

\* A set of states that is not left along the transitions v continues with ...
StaysIn(v, W) ==
  \A t \in DOMAIN weight : t.start \in W /\ ContinueWith(v, t) => t.target \in W
\* ... is not left along the pairs ps either.
Follows(v, ps) ==
  \A W : StaysIn(v, W) => \A x \in ps : x[1] \in W => x[2] \in W

\* An update loop is in progress for t.
InUpdate(t) == \E f \in Range(stack) : f.op = "updated" /\ f.t = t

\* Nothing is invented: each pair leads along transitions.  A listener has its closures,
\* which have heard of what is out of their states, or are going to.
ClosuresOf(v) == { << x[2], x[1] >> : x \in { y \in v.inverse : y[1] \in v.listeners } }
Sound(v) ==
  /\ Follows(v, v.inverse) /\ Follows(v, v.adjacent)
  /\ v.closures = ClosuresOf(v)
  /\ \A x \in v.heard :
       x[1] \in v.listeners /\ x[2] \in DOMAIN weight /\ << x[1], x[2].start >> \in v.inverse
  /\ \A c \in v.closures, t \in DOMAIN weight :
       t.start = c[1] => << c[2], t >> \in v.heard \/ InUpdate(t)

\* Nothing is lost: the pairs found are closed under the edges, but for those on the
\* worklist.
Joined(v) ==
  /\ v.adjacent \subseteq v.refs /\ v.refs \subseteq v.inverse /\ v.worklist \subseteq v.refs
  /\ \A x \in v.refs \ v.worklist, y \in v.adjacent :
       y[1] = x[2] => << x[1], y[2] >> \in v.refs

\* The visitor has been called with t.
Seen(v, t) ==
  /\ << t.start, t.start >> \in v.inverse
  /\ ContinueWith(v, t) => << t.start, t.target >> \in v.adjacent

\* What no operation changes, and what only grows
Kept(v, r) ==
  /\ r.kind = v.kind /\ r.registered = v.registered /\ r.listeners = v.listeners
  /\ r.due = v.due /\ r.replay = v.replay /\ r.asking = v.asking
  /\ v.adjacent \subseteq r.adjacent /\ v.inverse \subseteq r.inverse

\* What inverseReaches adds to the closures, and what these hear
NewClosures(v, ps) ==
  { << x[2], x[1] >> : x \in { y \in ps \ v.inverse : y[1] \in v.listeners } }
NewlyHeard(v, ps) ==
  UNION { {c[2]} \X OutOf(c[1]) : c \in NewClosures(v, ps) \ v.closures }

LEMMA InverseIs ==
  ASSUME TypeOK, NEW v \in Visitor, NEW ps, ps \subseteq Pairs, NEW r, r = InverseReaches(v, ps)
  PROVE  /\ r \in Visitor /\ Kept(v, r)
         /\ r.adjacent = v.adjacent /\ r.refs = v.refs /\ r.worklist = v.worklist
         /\ r.inverse = v.inverse \cup ps
         /\ r.closures = v.closures \cup NewClosures(v, ps)
         /\ r.heard = v.heard \cup NewlyHeard(v, ps)
<1> PICK new : new = NewClosures(v, ps)
  OBVIOUS
<1> PICK more : more = NewlyHeard(v, ps)
  OBVIOUS
<1>1. new \subseteq Pairs
  BY DEF Pairs, NewClosures
<1>2. more \subseteq State \X Transition
  BY <1>1 DEF Pairs, OutOf, TypeOK, NewlyHeard
<1> PICK u : u = [v EXCEPT !.inverse = @ \cup (ps \ v.inverse)]
  OBVIOUS
<1>3. r = Close(u, new)
  BY DEF InverseReaches, NewClosures
<1>4. u \in Visitor /\ u.closures = v.closures /\ u.heard = v.heard
  BY DEF Visitor
<1>5. r = [u EXCEPT !.closures = @ \cup new, !.heard = @ \cup more]
  BY <1>3, <1>4 DEF Close, NewlyHeard
<1>6. r = [v EXCEPT !.inverse = v.inverse \cup ps, !.closures = v.closures \cup new,
                    !.heard = v.heard \cup more]
  BY <1>5 DEF Visitor
<1>7. /\ r.kind = v.kind /\ r.registered = v.registered /\ r.listeners = v.listeners
      /\ r.due = v.due /\ r.replay = v.replay /\ r.asking = v.asking
      /\ r.adjacent = v.adjacent /\ r.refs = v.refs /\ r.worklist = v.worklist
      /\ r.inverse = v.inverse \cup ps /\ r.closures = v.closures \cup new
      /\ r.heard = v.heard \cup more
  BY <1>6 DEF Visitor
<1>8. /\ v.inverse \cup ps \in SUBSET Pairs /\ v.closures \cup new \in SUBSET Pairs
      /\ v.heard \cup more \in SUBSET (State \X Transition)
  BY <1>1, <1>2 DEF Visitor
<1>9. r \in Visitor
  BY <1>6, <1>8 DEF Visitor
<1> QED BY <1>7, <1>9 DEF Kept

LEMMA InverseSound ==
  ASSUME TypeOK, NEW v \in Visitor, NEW ps, ps \subseteq Pairs, NEW r, r = InverseReaches(v, ps),
         Sound(v), Follows(v, ps)
  PROVE  Sound(r)
<1>1. /\ r \in Visitor /\ Kept(v, r) /\ r.adjacent = v.adjacent
      /\ r.inverse = v.inverse \cup ps
  BY InverseIs
<1> PICK new : new = { << x[2], x[1] >> : x \in { y \in ps \ v.inverse : y[1] \in v.listeners } }
  OBVIOUS
<1> PICK more : more = UNION { {c[2]} \X OutOf(c[1]) : c \in new \ v.closures }
  OBVIOUS
<1>2. r.closures = v.closures \cup new /\ r.heard = v.heard \cup more
  BY InverseIs DEF NewClosures, NewlyHeard
<1>3. \A W : StaysIn(r, W) <=> StaysIn(v, W)
  BY <1>1 DEF Kept, StaysIn, ContinueWith
<1>4. Follows(r, r.inverse) /\ Follows(r, r.adjacent)
  BY <1>1, <1>3 DEF Sound, Follows
<1>5. r.closures = ClosuresOf(r)
  BY <1>1, <1>2 DEF Sound, ClosuresOf, Kept
<1>6. ASSUME NEW x \in r.heard
      PROVE  /\ x[1] \in r.listeners /\ x[2] \in DOMAIN weight
             /\ << x[1], x[2].start >> \in r.inverse
  <2>1. CASE x \in v.heard
    BY <1>1, <2>1 DEF Sound, Kept
  <2>2. CASE x \in more
    <3>1. PICK c \in new : x \in {c[2]} \X OutOf(c[1])
      BY <2>2
    <3>2. PICK y \in ps : c = << y[2], y[1] >> /\ y[1] \in v.listeners
      OBVIOUS
    <3>3. x[1] = y[1] /\ x[2] \in DOMAIN weight /\ x[2].start = y[2]
      BY <3>1, <3>2 DEF OutOf
    <3>4. y = << y[1], y[2] >>
      BY DEF Pairs
    <3> QED BY <1>1, <3>2, <3>3, <3>4 DEF Kept
  <2> QED BY <1>2, <2>1, <2>2
<1>7. ASSUME NEW c \in r.closures, NEW t \in DOMAIN weight, t.start = c[1]
      PROVE  << c[2], t >> \in r.heard \/ InUpdate(t)
  <2>1. CASE c \in v.closures
    BY <1>2, <1>7, <2>1 DEF Sound
  <2>2. CASE c \in new \ v.closures
    BY <1>2, <1>7, <2>2 DEF OutOf
  <2> QED BY <1>2, <2>1, <2>2
<1> QED BY <1>4, <1>5, <1>6, <1>7 DEF Sound

LEMMA FoundIs ==
  ASSUME TypeOK, NEW v \in Visitor, NEW ps, ps \subseteq Pairs, NEW r, r = Found(v, ps)
  PROVE  /\ r \in Visitor /\ Kept(v, r)
         /\ r.adjacent = v.adjacent /\ r.refs = v.refs \cup ps
         /\ r.worklist = v.worklist \cup (ps \ v.refs)
         /\ r.inverse = v.inverse \cup ps
         /\ Sound(v) /\ Follows(v, ps) => Sound(r)
<1>u. PICK u : u = [v EXCEPT !.refs = @ \cup (ps \ v.refs), !.worklist = @ \cup (ps \ v.refs)]
  OBVIOUS
<1>1. r = InverseReaches(u, ps)
  BY <1>u DEF Found
<1>2. /\ u \in Visitor /\ Kept(v, u) /\ u.adjacent = v.adjacent /\ u.inverse = v.inverse
      /\ u.refs = v.refs \cup ps /\ u.worklist = v.worklist \cup (ps \ v.refs)
      /\ u.closures = v.closures /\ u.heard = v.heard
  BY <1>u DEF Visitor, Kept
<1>3. \A W : StaysIn(u, W) <=> StaysIn(v, W)
  BY <1>2 DEF Kept, StaysIn, ContinueWith
<1>4. Follows(v, ps) => Follows(u, ps)
  BY <1>3 DEF Follows
<1>5. Sound(v) => Sound(u)
  BY <1>2, <1>3 DEF Sound, Follows, ClosuresOf, Kept
<1>6. /\ r \in Visitor /\ Kept(u, r)
      /\ r.adjacent = u.adjacent /\ r.refs = u.refs /\ r.worklist = u.worklist
      /\ r.inverse = u.inverse \cup ps
  <2>1. u \in Visitor
    BY <1>2
  <2> QED BY <1>1, <2>1, InverseIs
<1>7. Sound(v) /\ Follows(v, ps) => Sound(r)
  BY <1>1, <1>2, <1>4, <1>5, InverseSound
<1> QED BY <1>2, <1>6, <1>7 DEF Kept

LEMMA InsertIs ==
  ASSUME TypeOK, NEW v \in Visitor, NEW a \in State, NEW b \in State,
         NEW r, r = InsertEdge(v, a, b), v.worklist = {}, Joined(v), Sound(v),
         Follows(v, {<< a, b >>})
  PROVE  /\ r \in Visitor /\ Kept(v, r) /\ << a, b >> \in r.adjacent
         /\ Sound(r) /\ Joined(r)
<1> PICK before : before = {a} \cup { x[1] : x \in { y \in v.refs : y[2] = a } }
  OBVIOUS
<1> PICK ps : ps = before \X {b}
  OBVIOUS
<1>u. PICK u : u = [v EXCEPT !.adjacent = @ \cup {<< a, b >>}]
  OBVIOUS
<1>1. r = Found(u, ps)
  BY <1>u DEF InsertEdge
<1>2. ps \subseteq Pairs
  BY DEF Pairs, Visitor
<1>3. /\ u \in Visitor /\ Kept(v, u) /\ u.adjacent = v.adjacent \cup {<< a, b >>}
      /\ u.inverse = v.inverse /\ u.refs = v.refs /\ u.worklist = {}
      /\ u.closures = v.closures /\ u.heard = v.heard
  BY <1>u DEF Visitor, Kept, Pairs
<1>4. \A W : StaysIn(u, W) <=> StaysIn(v, W)
  BY <1>3 DEF Kept, StaysIn, ContinueWith
<1>5. Sound(u)
  BY <1>3, <1>4 DEF Sound, Follows, ClosuresOf, Kept
<1>6. Follows(u, ps)
  <2> SUFFICES ASSUME NEW W, StaysIn(v, W), NEW x \in ps, x[1] \in W PROVE x[2] \in W
    BY <1>4 DEF Follows
  <2>1. x[2] = b /\ x[1] \in before
    OBVIOUS
  <2>2. a \in W
    <3>1. CASE x[1] = a
      BY <3>1
    <3>2. CASE \E y \in v.refs : y[2] = a /\ x[1] = y[1]
      <4>1. PICK y \in v.inverse : y[2] = a /\ x[1] = y[1]
        BY <3>2 DEF Joined
      <4> QED BY <4>1 DEF Sound, Follows
    <3> QED BY <2>1, <3>1, <3>2
  <2> QED BY <2>1, <2>2 DEF Follows
<1>7. /\ r \in Visitor /\ Kept(u, r)
      /\ r.adjacent = u.adjacent /\ r.refs = u.refs \cup ps
      /\ r.worklist = u.worklist \cup (ps \ u.refs)
      /\ r.inverse = u.inverse \cup ps
      /\ Sound(r)
  <2>1. u \in Visitor
    BY <1>3
  <2> QED BY <1>1, <1>2, <1>5, <1>6, <2>1, FoundIs
<1>8. Joined(r)
  <2>1. << a, b >> \in ps
    OBVIOUS
  <2>2. /\ r.adjacent \subseteq r.refs /\ r.refs \subseteq r.inverse
        /\ r.worklist \subseteq r.refs
    BY <1>3, <1>7, <2>1 DEF Joined
  <2>3. ASSUME NEW x \in r.refs \ r.worklist, NEW y \in r.adjacent, y[1] = x[2]
        PROVE  << x[1], y[2] >> \in r.refs
    <3>1. x \in v.refs \ v.worklist
      BY <1>3, <1>7
    <3>2. CASE y \in v.adjacent
      BY <1>3, <1>7, <2>3, <3>1, <3>2 DEF Joined
    <3>3. CASE y = << a, b >>
      <4>1. x[2] = a /\ y[2] = b
        BY <2>3, <3>3
      <4>2. x[1] \in before
        BY <3>1, <4>1
      <4> QED BY <1>7, <4>1, <4>2
    <3> QED BY <1>3, <1>7, <3>2, <3>3
  <2> QED BY <2>2, <2>3 DEF Joined
<1> QED BY <1>3, <1>7, <1>8 DEF Kept

LEMMA VisitIs ==
  ASSUME TypeOK, NEW v \in Visitor, NEW t \in DOMAIN weight, NEW r, r = Visit(v, t),
         v.worklist = {}, Joined(v), Sound(v)
  PROVE  /\ r \in Visitor /\ Kept(v, r) /\ Seen(r, t) /\ Sound(r) /\ Joined(r)
<1> PICK ps : ps = {<< t.start, t.start >>}
  OBVIOUS
<1>1. t \in Transition /\ t.start \in State /\ t.target \in State
  BY TransitionTypes DEF TypeOK
<1>2. ps \subseteq Pairs /\ Follows(v, ps)
  BY <1>1 DEF Pairs, Follows
<1> PICK u : u = InverseReaches(v, ps)
  OBVIOUS
<1>3. /\ u \in Visitor /\ Kept(v, u) /\ u.adjacent = v.adjacent /\ u.refs = v.refs
      /\ u.worklist = {} /\ u.inverse = v.inverse \cup ps
  BY <1>2, InverseIs
<1>4. Sound(u)
  BY <1>2, InverseSound
<1>5. Joined(u)
  BY <1>3 DEF Joined
<1>6. << t.start, t.start >> \in u.inverse
  BY <1>3
<1>7. CASE ~ ContinueWith(u, t)
  <2>1. r = u
    <3>1. ~ ContinueWith(v, t)
      BY <1>3, <1>7 DEF Kept, ContinueWith
    <3> QED BY <3>1 DEF Visit
  <2> QED BY <1>3, <1>4, <1>5, <1>6, <1>7, <2>1 DEF Seen
<1>8. CASE ContinueWith(u, t)
  <2>1. r = InsertEdge(u, t.start, t.target)
    <3>1. ContinueWith(v, t)
      BY <1>3, <1>8 DEF Kept, ContinueWith
    <3> QED BY <3>1 DEF Visit
  <2>2. Follows(u, {<< t.start, t.target >>})
    BY <1>8 DEF Follows, StaysIn
  <2>3. /\ r \in Visitor /\ Kept(u, r) /\ << t.start, t.target >> \in r.adjacent
        /\ Sound(r) /\ Joined(r)
    BY <1>1, <1>3, <1>4, <1>5, <2>1, <2>2, InsertIs
  <2> QED BY <1>3, <1>6, <2>3 DEF Kept, Seen
<1> QED BY <1>7, <1>8

\* Visitors with the same tables
Alike(v, u) ==
  /\ u.kind = v.kind /\ u.registered = v.registered /\ u.adjacent = v.adjacent
  /\ u.refs = v.refs /\ u.inverse = v.inverse /\ u.closures = v.closures
  /\ u.heard = v.heard

LEMMA FollowIs ==
  ASSUME TypeOK, NEW v \in Visitor, Joined(v), Sound(v), NEW e \in v.worklist,
         NEW ps, ps = {e[1]} \X { x[2] : x \in { y \in v.adjacent : y[1] = e[2] } },
         NEW u \in Visitor, Alike(v, u), u.worklist = v.worklist \ {e},
         u.listeners = v.listeners, u.due = v.due, u.replay = v.replay, u.asking = v.asking,
         NEW r, r = Found(u, ps)
  PROVE  r \in Visitor /\ Kept(v, r) /\ Sound(r) /\ Joined(r)
<1>1. e \in v.refs /\ e \in v.inverse /\ ps \subseteq Pairs
  BY DEF Joined, Pairs, Visitor
<1>2. Kept(v, u)
  BY DEF Alike, Kept
<1>3. \A W : StaysIn(u, W) <=> StaysIn(v, W)
  BY DEF Alike, StaysIn, ContinueWith
<1>4. Sound(u)
  BY <1>3 DEF Alike, Sound, Follows, ClosuresOf
<1>5. Follows(u, ps)
  <2> SUFFICES ASSUME NEW W, StaysIn(v, W), NEW x \in ps, x[1] \in W PROVE x[2] \in W
    BY <1>3 DEF Follows
  <2>1. PICK y \in v.adjacent : x[1] = e[1] /\ x[2] = y[2] /\ y[1] = e[2]
    OBVIOUS
  <2>2. e[2] \in W
    BY <1>1, <2>1 DEF Sound, Follows
  <2> QED BY <2>1, <2>2 DEF Sound, Follows
<1>6. /\ r \in Visitor /\ Kept(u, r)
      /\ r.adjacent = u.adjacent /\ r.refs = u.refs \cup ps
      /\ r.worklist = u.worklist \cup (ps \ u.refs)
      /\ r.inverse = u.inverse \cup ps
      /\ Sound(r)
  BY <1>1, <1>4, <1>5, FoundIs
<1>7. /\ r.adjacent = v.adjacent /\ r.refs = v.refs \cup ps
      /\ r.worklist = (v.worklist \ {e}) \cup (ps \ v.refs)
      /\ r.inverse = v.inverse \cup ps
  BY <1>6 DEF Alike
<1>8. Joined(r)
  <2>1. /\ r.adjacent \subseteq r.refs /\ r.refs \subseteq r.inverse
        /\ r.worklist \subseteq r.refs
    BY <1>7 DEF Joined
  <2>2. ASSUME NEW x \in r.refs \ r.worklist, NEW y \in r.adjacent, y[1] = x[2]
        PROVE  << x[1], y[2] >> \in r.refs
    <3>1. x \in v.refs /\ (x \notin v.worklist \/ x = e) /\ y \in v.adjacent
      BY <1>7
    <3>2. CASE x = e
      <4>1. << e[1], y[2] >> \in ps
        BY <2>2, <3>1, <3>2
      <4> QED BY <1>7, <3>2, <4>1
    <3>3. CASE x \notin v.worklist
      BY <1>7, <2>2, <3>1, <3>3 DEF Joined
    <3> QED BY <3>1, <3>2, <3>3
  <2> QED BY <2>1, <2>2 DEF Joined
<1> QED BY <1>2, <1>6, <1>8 DEF Kept

LEMMA ListenIs ==
  ASSUME TypeOK, NEW v \in Visitor, Joined(v), Sound(v), NEW s \in v.asking,
         NEW new, new = { << x[2], s >> : x \in { y \in v.inverse : y[1] = s } },
         NEW u \in Visitor, Alike(v, u), u.worklist = v.worklist,
         u.listeners = v.listeners \cup {s}, u.due = v.due, u.replay = v.replay,
         NEW r, r = Close(u, new)
  PROVE  /\ r \in Visitor /\ Sound(r) /\ Joined(r)
         /\ r.kind = v.kind /\ r.registered = v.registered /\ r.due = v.due
         /\ r.replay = v.replay /\ r.adjacent = v.adjacent /\ r.inverse = v.inverse
<1>m. PICK more : more = UNION { {c[2]} \X OutOf(c[1]) : c \in new \ v.closures }
  OBVIOUS
<1>1. s \in State /\ new \subseteq Pairs
  BY DEF Pairs, Visitor
<1>2. more \subseteq State \X Transition
  BY <1>1, <1>m DEF Pairs, OutOf, TypeOK
<1>4. r = [u EXCEPT !.closures = u.closures \cup new, !.heard = u.heard \cup more]
  BY <1>m DEF Close, Alike
<1>5. /\ u.closures \cup new \in SUBSET Pairs
      /\ u.heard \cup more \in SUBSET (State \X Transition)
  BY <1>1, <1>2 DEF Visitor
<1>6. r \in Visitor
  BY <1>4, <1>5 DEF Visitor
<1>7. /\ r.kind = u.kind /\ r.registered = u.registered /\ r.due = u.due
      /\ r.replay = u.replay /\ r.adjacent = u.adjacent /\ r.inverse = u.inverse
      /\ r.refs = u.refs /\ r.worklist = u.worklist /\ r.listeners = u.listeners
      /\ r.closures = u.closures \cup new /\ r.heard = u.heard \cup more
  BY <1>4 DEF Visitor
<1>a. /\ r.kind = v.kind /\ r.registered = v.registered /\ r.due = v.due
      /\ r.replay = v.replay /\ r.adjacent = v.adjacent /\ r.inverse = v.inverse
      /\ r.refs = v.refs /\ r.worklist = v.worklist /\ r.listeners = v.listeners \cup {s}
      /\ r.closures = v.closures \cup new /\ r.heard = v.heard \cup more
  BY <1>7 DEF Alike
<1>8. Joined(r)
  BY <1>a DEF Joined
<1>9. Sound(r)
  <2>1. Follows(r, r.inverse) /\ Follows(r, r.adjacent)
    BY <1>a DEF Sound, Follows, StaysIn, ContinueWith
  <2>2. r.closures = ClosuresOf(r)
    <3>1. ASSUME NEW c \in ClosuresOf(r) PROVE c \in r.closures
      <4>1. PICK y \in v.inverse : c = << y[2], y[1] >> /\ y[1] \in v.listeners \cup {s}
        BY <1>a DEF ClosuresOf
      <4>2. CASE y[1] \in v.listeners
        BY <1>a, <4>1, <4>2 DEF Sound, ClosuresOf
      <4>3. CASE y[1] = s
        BY <1>a, <4>1, <4>3
      <4> QED BY <4>1, <4>2, <4>3
    <3>2. ASSUME NEW c \in r.closures PROVE c \in ClosuresOf(r)
      <4>1. CASE c \in v.closures
        <5>1. PICK y \in v.inverse : c = << y[2], y[1] >> /\ y[1] \in v.listeners
          BY <4>1 DEF Sound, ClosuresOf
        <5> QED BY <1>a, <5>1 DEF ClosuresOf
      <4>2. CASE c \in new
        BY <1>a, <4>2 DEF ClosuresOf
      <4> QED BY <1>a, <4>1, <4>2
    <3> QED BY <3>1, <3>2
  <2>3. ASSUME NEW x \in r.heard
        PROVE  /\ x[1] \in r.listeners /\ x[2] \in DOMAIN weight
               /\ << x[1], x[2].start >> \in r.inverse
    <3>1. CASE x \in v.heard
      BY <1>a, <3>1 DEF Sound
    <3>2. CASE x \in more
      <4>1. PICK c \in new : x \in {c[2]} \X OutOf(c[1])
        BY <1>m, <3>2
      <4>2. PICK y \in v.inverse : c = << y[2], s >> /\ y[1] = s
        OBVIOUS
      <4>3. x[1] = s /\ x[2] \in DOMAIN weight /\ x[2].start = y[2]
        BY <4>1, <4>2 DEF OutOf
      <4>4. y = << y[1], y[2] >>
        BY DEF Pairs, Visitor
      <4> QED BY <1>a, <4>2, <4>3, <4>4
    <3> QED BY <1>a, <3>1, <3>2
  <2>4. ASSUME NEW c \in r.closures, NEW t \in DOMAIN weight, t.start = c[1]
        PROVE  << c[2], t >> \in r.heard \/ InUpdate(t)
    <3>1. CASE c \in v.closures
      BY <1>a, <2>4, <3>1 DEF Sound
    <3>2. CASE c \in new \ v.closures
      BY <1>m, <1>a, <2>4, <3>2 DEF OutOf
    <3> QED BY <1>a, <3>1, <3>2
  <2> QED BY <2>1, <2>2, <2>3, <2>4 DEF Sound
<1> QED BY <1>6, <1>a, <1>8, <1>9

\* The update loop at depth d is about t, and the visitor is going to be called by one.
DepthOf(s, d) == Len(s) + 1 - d
UpdatesAt(s, d, t) ==
  /\ d \in 1 .. Len(s)
  /\ s[DepthOf(s, d)].op = "updated" /\ s[DepthOf(s, d)].t = t
ToVisit(v, t) == t \in v.replay \/ \E d \in v.due : UpdatesAt(stack, d, t)

(***************************************************************************)
(* Every transition has been seen, or will be: by the replay to a new      *)
(* visitor or by an update loop that has yet to call it.                   *)
(***************************************************************************)
ReachInv ==
  /\ TypeInv /\ visitor \in Visitor /\ Sound(visitor) /\ Joined(visitor)
  /\ \A t : InUpdate(t) \/ t \in visitor.replay => t \in DOMAIN weight
  /\ visitor.listeners \cup visitor.asking # {} => visitor.registered
  /\ visitor.registered => \A t \in DOMAIN weight : Seen(visitor, t) \/ ToVisit(visitor, t)

\* A visit that is followed by the end of its turn
LEMMA VisitOnce ==
  ASSUME TypeOK, NEW v \in Visitor, v.worklist = {}, Joined(v), Sound(v),
         NEW t \in DOMAIN weight, NEW u, u = Visit(v, t),
         NEW r \in Visitor, Alike(u, r), r.worklist = u.worklist,
         r.listeners = u.listeners, r.asking = u.asking
  PROVE  /\ Sound(r) /\ Joined(r) /\ Seen(r, t) /\ r.kind = v.kind
         /\ r.registered = v.registered /\ r.listeners = v.listeners
         /\ r.asking = v.asking /\ v.adjacent \subseteq r.adjacent
         /\ v.inverse \subseteq r.inverse
<1>1. Kept(v, u) /\ Seen(u, t) /\ Sound(u) /\ Joined(u)
  BY VisitIs
<1>2. Sound(r)
  BY <1>1 DEF Alike, Sound, Follows, StaysIn, ContinueWith, ClosuresOf
<1>3. Joined(r)
  BY <1>1 DEF Alike, Joined
<1>4. Seen(r, t)
  BY <1>1 DEF Alike, Seen, ContinueWith
<1> QED BY <1>1, <1>2, <1>3, <1>4 DEF Alike, Kept

\* The steps of the visitor itself
LEMMA VisitorSteps ==
  ASSUME ReachInv, UNCHANGED vars, FollowEdge \/ ReplayVisit \/ Listen \/ VisitorTurn
  PROVE  ReachInv'
<1>v. PICK v : v = visitor
  OBVIOUS
<1>r. PICK r : r = visitor'
  OBVIOUS
<1>1. /\ TypeInv /\ TypeOK /\ v \in Visitor /\ Sound(v) /\ Joined(v)
      /\ v.listeners \cup v.asking # {} => v.registered
      /\ \A t \in v.replay : t \in DOMAIN weight
      /\ \A t : InUpdate(t) => t \in DOMAIN weight
      /\ v.registered => \A t \in DOMAIN weight : Seen(v, t) \/ ToVisit(v, t)
  BY <1>v DEF ReachInv, TypeInv
<1>2. UNCHANGED << weight, stack >>
  BY DEF vars
<1>3. TypeInv'
  BY <1>1, TypeStep
<1>4. ASSUME r \in Visitor, Sound(r), Joined(r), v.adjacent \subseteq r.adjacent,
             v.inverse \subseteq r.inverse, r.kind = v.kind, r.registered = v.registered,
             r.replay \subseteq v.replay, r.listeners \cup r.asking = v.listeners \cup v.asking,
             \A t \in DOMAIN weight : ToVisit(v, t) => ToVisit(r, t) \/ Seen(r, t)
      PROVE  ReachInv'
  <2>1. (visitor \in Visitor)' /\ Sound(visitor)' /\ Joined(visitor)'
    BY <1>2, <1>4, <1>r
      DEF Sound, Follows, StaysIn, ContinueWith, ClosuresOf, InUpdate, Joined
  <2>2. \A t : InUpdate(t)' \/ t \in visitor'.replay => t \in DOMAIN weight'
    BY <1>1, <1>2, <1>4, <1>r DEF InUpdate
  <2>3. visitor'.listeners \cup visitor'.asking # {} => visitor'.registered
    BY <1>1, <1>4, <1>r
  <2>4. ASSUME visitor'.registered, NEW t \in DOMAIN weight'
        PROVE  Seen(visitor, t)' \/ ToVisit(visitor, t)'
    <3>1. Seen(v, t) \/ ToVisit(v, t)
      BY <1>1, <1>2, <1>4, <1>r, <2>4
    <3>2. Seen(v, t) => Seen(r, t)
      BY <1>4 DEF Seen, ContinueWith
    <3>3. Seen(r, t) \/ ToVisit(r, t)
      BY <1>2, <1>4, <3>1, <3>2
    <3>4. Seen(r, t) => Seen(visitor, t)'
      BY <1>r DEF Seen, ContinueWith
    <3>5. ToVisit(r, t) => ToVisit(visitor, t)'
      BY <1>2, <1>r DEF ToVisit, UpdatesAt, DepthOf
    <3> QED BY <3>3, <3>4, <3>5
  <2> QED BY <1>3, <2>1, <2>2, <2>3, <2>4 DEF ReachInv
<1>5. CASE FollowEdge
  <2>1. PICK e \in v.worklist :
          r = Found([v EXCEPT !.worklist = @ \ {e}],
                    {e[1]} \X { x[2] : x \in { y \in v.adjacent : y[1] = e[2] } })
    BY <1>5, <1>v, <1>r DEF FollowEdge
  <2>u. PICK u : u = [v EXCEPT !.worklist = @ \ {e}]
    OBVIOUS
  <2>p. PICK ps : ps = {e[1]} \X { x[2] : x \in { y \in v.adjacent : y[1] = e[2] } }
    OBVIOUS
  <2>2. r = Found(u, ps)
    BY <2>1, <2>u, <2>p
  <2>3. /\ u \in Visitor /\ Alike(v, u) /\ u.worklist = v.worklist \ {e}
        /\ u.listeners = v.listeners /\ u.due = v.due /\ u.replay = v.replay
        /\ u.asking = v.asking
    BY <1>1, <2>u DEF Visitor, Alike
  <2>4. r \in Visitor /\ Kept(v, r) /\ Sound(r) /\ Joined(r)
    BY <1>1, <2>2, <2>3, <2>p, FollowIs
  <2>5. \A t : ToVisit(v, t) => ToVisit(r, t)
    BY <2>4 DEF Kept, ToVisit
  <2> QED BY <1>4, <2>4, <2>5 DEF Kept
<1>6. CASE Listen
  <2>1. PICK s \in v.asking :
          r = Close([v EXCEPT !.listeners = @ \cup {s}, !.asking = @ \ {s}],
                    { << x[2], s >> : x \in { y \in v.inverse : y[1] = s } })
    BY <1>6, <1>v, <1>r DEF Listen
  <2>u. PICK u : u = [v EXCEPT !.listeners = v.listeners \cup {s}, !.asking = v.asking \ {s}]
    OBVIOUS
  <2>n. PICK new : new = { << x[2], s >> : x \in { y \in v.inverse : y[1] = s } }
    OBVIOUS
  <2>2. r = Close(u, new)
    BY <2>1, <2>u, <2>n
  <2>3. /\ v.listeners \cup {s} \in SUBSET State /\ v.asking \ {s} \in SUBSET State
    BY <1>1 DEF Visitor
  <2>4. /\ u \in Visitor /\ Alike(v, u) /\ u.worklist = v.worklist
        /\ u.listeners = v.listeners \cup {s} /\ u.due = v.due /\ u.replay = v.replay
        /\ u.asking = v.asking \ {s}
    BY <1>1, <2>3, <2>u DEF Visitor, Alike
  <2>5. /\ r \in Visitor /\ Sound(r) /\ Joined(r)
        /\ r.kind = v.kind /\ r.registered = v.registered /\ r.due = v.due
        /\ r.replay = v.replay /\ r.adjacent = v.adjacent /\ r.inverse = v.inverse
    BY <1>1, <2>2, <2>4, <2>n, ListenIs
  <2>6. r.listeners \cup r.asking = v.listeners \cup v.asking
    <3>1. r.listeners = u.listeners /\ r.asking = u.asking
      BY <2>2, <2>4 DEF Close, Visitor
    <3> QED BY <2>4, <3>1
  <2>7. \A t : ToVisit(v, t) => ToVisit(r, t)
    BY <2>5 DEF ToVisit
  <2> QED BY <1>4, <2>5, <2>6, <2>7
<1>7. CASE ReplayVisit
  <2>1. PICK t \in v.replay : v.worklist = {} /\ r = [Visit(v, t) EXCEPT !.replay = @ \ {t}]
    BY <1>7, <1>v, <1>r DEF ReplayVisit
  <2>u. PICK u : u = Visit(v, t)
    OBVIOUS
  <2>2. t \in DOMAIN weight
    BY <1>1
  <2>3. u \in Visitor /\ Kept(v, u)
    BY <1>1, <2>1, <2>2, <2>u, VisitIs
  <2>4. /\ r \in Visitor /\ Alike(u, r) /\ r.worklist = u.worklist
        /\ r.listeners = u.listeners /\ r.asking = u.asking /\ r.due = u.due
        /\ r.replay = u.replay \ {t}
    BY <2>1, <2>3, <2>u DEF Visitor, Alike
  <2>5. /\ Sound(r) /\ Joined(r) /\ Seen(r, t) /\ r.kind = v.kind
        /\ r.registered = v.registered /\ r.listeners = v.listeners
        /\ r.asking = v.asking /\ v.adjacent \subseteq r.adjacent
        /\ v.inverse \subseteq r.inverse
    <3>1. v.worklist = {}
      BY <2>1
    <3> QED BY <1>1, <2>2, <2>4, <2>u, <3>1, VisitOnce
  <2>6. r.due = v.due /\ r.replay = v.replay \ {t}
    BY <2>3, <2>4 DEF Kept
  <2>7. \A x : ToVisit(v, x) => ToVisit(r, x) \/ Seen(r, x)
    BY <2>5, <2>6 DEF ToVisit
  <2> QED BY <1>4, <2>4, <2>5, <2>6, <2>7
<1>8. CASE VisitorTurn
  <2>d. PICK d, t : d = Len(stack) /\ t = Top.t
    OBVIOUS
  <2>1. /\ v.worklist = {} /\ Running("updated")
        /\ r = [Visit(v, t) EXCEPT !.due = @ \ {d}]
    BY <1>8, <1>v, <1>r, <2>d DEF VisitorTurn, Idle
  <2>u. PICK u : u = Visit(v, t)
    OBVIOUS
  <2>2. t \in DOMAIN weight
    <3>1. Top \in Range(stack) /\ Top.op = "updated"
      BY <1>1, <2>1, TopFrame
    <3> QED BY <1>1, <2>d, <3>1 DEF InUpdate
  <2>3. u \in Visitor /\ Kept(v, u)
    BY <1>1, <2>1, <2>2, <2>u, VisitIs
  <2>4. /\ r \in Visitor /\ Alike(u, r) /\ r.worklist = u.worklist
        /\ r.listeners = u.listeners /\ r.asking = u.asking /\ r.due = u.due \ {d}
        /\ r.replay = u.replay
    BY <2>1, <2>3, <2>u DEF Visitor, Alike
  <2>5. /\ Sound(r) /\ Joined(r) /\ Seen(r, t) /\ r.kind = v.kind
        /\ r.registered = v.registered /\ r.listeners = v.listeners
        /\ r.asking = v.asking /\ v.adjacent \subseteq r.adjacent
        /\ v.inverse \subseteq r.inverse
    <3>1. v.worklist = {}
      BY <2>1
    <3> QED BY <1>1, <2>2, <2>4, <2>u, <3>1, VisitOnce
  <2>6. r.due = v.due \ {d} /\ r.replay = v.replay
    BY <2>3, <2>4 DEF Kept
  <2>7. \A x : UpdatesAt(stack, d, x) => x = t
    <3>1. stack \in Seq(Frame) /\ stack # << >>
      BY <1>1, <2>1, TopFrame
    <3>2. DepthOf(stack, d) = 1 /\ stack[1] = Top
      BY <2>d, <3>1 DEF DepthOf, Top
    <3> QED BY <2>d, <3>2 DEF UpdatesAt
  <2>8. \A x : ToVisit(v, x) => ToVisit(r, x) \/ Seen(r, x)
    BY <2>5, <2>6, <2>7 DEF ToVisit
  <2> QED BY <1>4, <2>4, <2>5, <2>6, <2>8
<1> QED BY <1>5, <1>6, <1>7, <1>8

\* What lies below the frames e keeps its depth.
LEMMA KeepsDepth ==
  ASSUME NEW s \in Seq(Frame), NEW e \in Seq(Frame), NEW r, r = e \o s,
         NEW d, NEW t, UpdatesAt(s, d, t)
  PROVE  UpdatesAt(r, d, t)
<1>1. Len(r) = Len(e) + Len(s) /\ Len(e) \in Nat /\ Len(s) \in Nat
  OBVIOUS
<1>2. \A i \in 1 .. Len(s) : r[Len(e) + i] = s[i]
  OBVIOUS
<1>3. d \in 1 .. Len(s)
  BY DEF UpdatesAt
<1> PICK i : i = DepthOf(s, d)
  OBVIOUS
<1>4. i \in 1 .. Len(s) /\ DepthOf(r, d) = Len(e) + i /\ d \in 1 .. Len(r)
  BY <1>1, <1>3 DEF DepthOf
<1>5. r[DepthOf(r, d)] = s[DepthOf(s, d)]
  BY <1>2, <1>4
<1> QED BY <1>4, <1>5 DEF UpdatesAt

LEMMA BelowTop ==
  ASSUME NEW s \in Seq(Frame), s # << >>, NEW d, NEW t, UpdatesAt(s, d, t)
  PROVE  \/ d = Len(s) /\ Head(s).op = "updated" /\ Head(s).t = t
         \/ UpdatesAt(Tail(s), d, t)
<1>1. /\ Len(s) \in Nat \ {0} /\ Head(s) = s[1]
      /\ Tail(s) \in Seq(Frame) /\ Len(Tail(s)) = Len(s) - 1
  OBVIOUS
<1>2. \A i \in 1 .. Len(s) - 1 : Tail(s)[i] = s[i + 1]
  OBVIOUS
<1>3. d \in 1 .. Len(s)
  BY DEF UpdatesAt
<1>4. CASE d = Len(s)
  <2>1. DepthOf(s, d) = 1
    BY <1>1, <1>4 DEF DepthOf
  <2> QED BY <1>1, <1>4, <2>1 DEF UpdatesAt
<1>5. CASE d # Len(s)
  <2> PICK i : i = DepthOf(Tail(s), d)
    OBVIOUS
  <2>1. i \in 1 .. Len(s) - 1 /\ DepthOf(s, d) = i + 1 /\ d \in 1 .. Len(Tail(s))
    BY <1>1, <1>3, <1>5 DEF DepthOf
  <2>2. Tail(s)[DepthOf(Tail(s), d)] = s[DepthOf(s, d)]
    BY <1>2, <2>1
  <2> QED BY <2>1, <2>2 DEF UpdatesAt
<1> QED BY <1>4, <1>5

\* What a step of PostStar has to keep
LEMMA StepKeeps ==
  ASSUME ReachInv, TypeInv', DOMAIN weight \subseteq DOMAIN weight',
         (visitor \in Visitor)',
         visitor'.kind = visitor.kind, visitor'.registered = visitor.registered,
         visitor'.adjacent = visitor.adjacent, visitor'.refs = visitor.refs,
         visitor'.inverse = visitor.inverse, visitor'.listeners = visitor.listeners,
         visitor'.closures = visitor.closures, visitor'.worklist = visitor.worklist,
         visitor'.replay = visitor.replay, visitor'.asking = visitor.asking,
         visitor.heard \subseteq visitor'.heard,
         \A x \in visitor'.heard \ visitor.heard :
           /\ x[1] \in visitor.listeners /\ x[2] \in DOMAIN weight
           /\ << x[1], x[2].start >> \in visitor.inverse,
         \A t : InUpdate(t)' => t \in DOMAIN weight',
         \A t : InUpdate(t) =>
           InUpdate(t)' \/ \A c \in visitor.closures :
                             t.start = c[1] => << c[2], t >> \in visitor'.heard,
         \A t \in DOMAIN weight' \ DOMAIN weight :
           InUpdate(t)' /\ (visitor.registered => ToVisit(visitor, t)'),
         \A t : ToVisit(visitor, t) => ToVisit(visitor, t)'
  PROVE  ReachInv'
<1>1. /\ Sound(visitor) /\ Joined(visitor)
      /\ \A t : InUpdate(t) \/ t \in visitor.replay => t \in DOMAIN weight
      /\ visitor.listeners \cup visitor.asking # {} => visitor.registered
      /\ visitor.registered => \A t \in DOMAIN weight : Seen(visitor, t) \/ ToVisit(visitor, t)
  BY DEF ReachInv
<1>2. Joined(visitor)'
  BY <1>1 DEF Joined
<1>3. Sound(visitor)'
  <2>1. \A W : StaysIn(visitor, W)' => StaysIn(visitor, W)
    BY DEF StaysIn, ContinueWith
  <2>2. Follows(visitor, visitor.inverse)' /\ Follows(visitor, visitor.adjacent)'
    BY <1>1, <2>1 DEF Sound, Follows
  <2>3. (visitor.closures = ClosuresOf(visitor))'
    BY <1>1 DEF Sound, ClosuresOf
  <2>4. \A x \in visitor'.heard :
          /\ x[1] \in visitor'.listeners /\ x[2] \in DOMAIN weight'
          /\ << x[1], x[2].start >> \in visitor'.inverse
    BY <1>1 DEF Sound
  <2>5. ASSUME NEW c \in visitor'.closures, NEW t \in DOMAIN weight', t.start = c[1]
        PROVE  << c[2], t >> \in visitor'.heard \/ InUpdate(t)'
    <3>1. CASE t \in DOMAIN weight
      BY <1>1, <2>5, <3>1 DEF Sound
    <3> QED BY <3>1
  <2> QED BY <2>2, <2>3, <2>4, <2>5 DEF Sound
<1>4. \A t : InUpdate(t)' \/ t \in visitor'.replay => t \in DOMAIN weight'
  BY <1>1
<1>5. ASSUME visitor'.registered, NEW t \in DOMAIN weight'
      PROVE  Seen(visitor, t)' \/ ToVisit(visitor, t)'
  <2>1. CASE t \in DOMAIN weight
    <3>1. Seen(visitor, t) => Seen(visitor, t)'
      BY DEF Seen, ContinueWith
    <3> QED BY <1>1, <1>5, <2>1, <3>1
  <2> QED BY <1>5, <2>1
<1>6. visitor'.listeners \cup visitor'.asking # {} => visitor'.registered
  BY <1>1
<1> QED BY <1>2, <1>3, <1>4, <1>5, <1>6 DEF ReachInv

\* The loops and calls the visitor has no part in
Beside == \/ Deliver \/ RegisterListener \/ ReplayTransition
          \/ RecordUnbalancedPop \/ ReplayRule \/ Return

\* They replace the top of the stack, which is no update loop, and add none.
LEMMA BesideFrames ==
  ASSUME TypeInv, Beside
  PROVE  /\ \E e \in Seq(Frame) : stack' = e \o Tail(stack)
         /\ \A f \in Range(stack') : f.op = "updated" => f \in Range(Tail(stack))
         /\ Top.op # "updated" /\ stack # << >> /\ weight' = weight
<1> USE DEF TypeInv
<1>1. /\ stack # << >> /\ stack \in Seq(Frame) /\ Tail(stack) \in Seq(Frame)
      /\ Top.op # "updated" /\ weight' = weight
  <2>1. PICK op \in {"notify", "register", "replay", "pop", "rules", "popped"} : Running(op)
    BY DEF Beside, Deliver, RegisterListener, ReplayTransition, RecordUnbalancedPop,
       ReplayRule, Return
  <2>2. weight' = weight
    BY DEF Beside, Deliver, RegisterListener, ReplayTransition, RecordUnbalancedPop,
       ReplayRule, Return
  <2> QED BY <2>1, <2>2, TopFrame
<1>2. \A f \in CallFrame : f.op # "updated"
  BY CallFrameKinds
<1>3. << >> \in Seq(Frame) /\ << >> \o Tail(stack) = Tail(stack)
  BY <1>1
<1>4. CASE Deliver
  <2>1. PICK l \in Top.ls :
          stack' = Calls(l, Top.t, Top.w)
                   \o << Notify(Top.t, Top.w, Top.ls \ {l}) >> \o Tail(stack)
    BY <1>4 DEF Deliver
  <2>2. /\ l \in Listener /\ Top.t \in Transition /\ Top.w \in Weights
        /\ Notify(Top.t, Top.w, Top.ls \ {l}) \in Frame
    BY <1>4, TopFrame, FrameKinds, FrameTypes DEF Deliver
  <2>3. Calls(l, Top.t, Top.w) \in Seq(Frame)
    BY <2>2, CallsType, CallsAreFrames
  <2>4. Calls(l, Top.t, Top.w) \o << Notify(Top.t, Top.w, Top.ls \ {l}) >> \in Seq(Frame)
    BY <2>2, <2>3
  <2>5. \A f \in Range(stack') : f.op = "updated" => f \in Range(Tail(stack))
    BY <1>2, <1>4, DeliverFrames DEF Notify
  <2> QED BY <1>1, <2>1, <2>4, <2>5
<1>5. CASE ReplayTransition
  <2>1. PICK t \in Top.ts :
          stack' = Calls(Top.l, t, weight[t])
                   \o << Replay(Top.l, Top.ts \ {t}) >> \o Tail(stack)
    BY <1>5 DEF ReplayTransition
  <2>2. /\ Running("replay") /\ Top.l \in Listener /\ t \in Transition
        /\ Replay(Top.l, Top.ts \ {t}) \in Frame /\ Top \in Range(stack) /\ Top.op = "replay"
    BY <1>5, TopFrame, FrameKinds, FrameTypes DEF ReplayTransition
  <2>3. weight[t] \in Weights
    BY <2>2 DEF ReplayKnown, TypeOK
  <2>4. Calls(Top.l, t, weight[t]) \in Seq(Frame)
    BY <2>2, <2>3, CallsType, CallsAreFrames
  <2>5. Calls(Top.l, t, weight[t]) \o << Replay(Top.l, Top.ts \ {t}) >> \in Seq(Frame)
    BY <2>2, <2>4
  <2>6. \A f \in Range(stack') : f.op = "updated" => f \in Range(Tail(stack))
    BY <1>2, <1>5, ReplayFrames DEF Replay
  <2> QED BY <1>1, <2>1, <2>5, <2>6
<1>6. CASE ReplayRule
  <2>1. PICK r \in Top.rs :
          stack' = << Register(ListenerOf(r)), RuleLoop(Top.rs \ {r}) >> \o Tail(stack)
    BY <1>6 DEF ReplayRule
  <2>2. Register(ListenerOf(r)) \in Frame /\ RuleLoop(Top.rs \ {r}) \in Frame
    BY <1>6, TopFrame, FrameKinds, FrameTypes, ListenerTypes, CallsAreFrames DEF ReplayRule
  <2>3. << Register(ListenerOf(r)), RuleLoop(Top.rs \ {r}) >> \in Seq(Frame)
    BY <2>2
  <2>4. \A f \in Range(stack') : f.op = "updated" => f \in Range(Tail(stack))
    BY <1>6, RuleFrames DEF Register, RuleLoop
  <2> QED BY <1>1, <2>1, <2>3, <2>4
<1>7. CASE RegisterListener
  <2>1. \/ stack' = Tail(stack)
        \/ stack' = << Replay(Top.l, OutOf(Top.l.state)) >> \o Tail(stack)
    BY <1>7 DEF RegisterListener
  <2>2. Replay(Top.l, OutOf(Top.l.state)) \in Frame
    BY <1>7, RegisterFrames, FrameTypes DEF TypeOK, OutOf
  <2>3. << Replay(Top.l, OutOf(Top.l.state)) >> \in Seq(Frame)
    BY <2>2
  <2>4. \A f \in Range(stack') : f.op = "updated" => f \in Range(Tail(stack))
    BY <1>7, RegisterFrames DEF Replay
  <2> QED BY <1>1, <1>3, <2>1, <2>3, <2>4
<1>8. CASE RecordUnbalancedPop
  <2>1. stack' = Tail(stack) \/ stack' = << Popped >> \o Tail(stack)
    BY <1>8 DEF RecordUnbalancedPop
  <2>2. << Popped >> \in Seq(Frame)
    BY FrameTypes
  <2>3. \A f \in Range(stack') : f.op = "updated" => f \in Range(Tail(stack))
    BY <1>8, PopFrames DEF Popped
  <2> QED BY <1>1, <1>3, <2>1, <2>2, <2>3
<1>9. CASE Return
  <2>1. stack' = Tail(stack)
    BY <1>9 DEF Return
  <2> QED BY <1>1, <1>3, <2>1
<1> QED BY <1>4, <1>5, <1>6, <1>7, <1>8, <1>9 DEF Beside

LEMMA BesideReach ==
  ASSUME ReachInv, TypeInv', Beside, UNCHANGED visitor
  PROVE  ReachInv'
<1>1. TypeInv /\ TypeOK /\ visitor \in Visitor
  BY DEF ReachInv, TypeInv
<1>2. PICK e \in Seq(Frame) : stack' = e \o Tail(stack)
  BY <1>1, BesideFrames
<1>3. /\ \A f \in Range(stack') : f.op = "updated" => f \in Range(Tail(stack))
      /\ Top.op # "updated" /\ stack # << >> /\ weight' = weight
      /\ stack \in Seq(Frame) /\ Tail(stack) \in Seq(Frame)
      /\ Range(stack) = {Top} \cup Range(Tail(stack))
      /\ Range(Tail(stack)) \subseteq Range(stack')
  <2>1. Engine
    BY DEF Engine, Beside
  <2> QED BY <1>1, <2>1, BesideFrames, TailStays, RangeTail
<1>4. \A t : InUpdate(t)' <=> InUpdate(t)
  BY <1>3 DEF InUpdate
<1>5. \A t : ToVisit(visitor, t) => ToVisit(visitor, t)'
  <2> SUFFICES ASSUME NEW t, NEW d \in visitor.due, UpdatesAt(stack, d, t)
               PROVE  UpdatesAt(stack', d, t)
    BY DEF ToVisit, UpdatesAt, DepthOf
  <2>1. UpdatesAt(Tail(stack), d, t)
    BY <1>3, BelowTop DEF Top
  <2> QED BY <1>2, <1>3, <2>1, KeepsDepth
<1>6. \A t : InUpdate(t) => t \in DOMAIN weight
  BY DEF ReachInv
<1> QED BY <1>1, <1>3, <1>4, <1>5, <1>6, StepKeeps

\* The clients' calls
LEMMA ClientReach ==
  ASSUME ReachInv, TypeInv', Client, UNCHANGED visitor
  PROVE  ReachInv'
<1>1. TypeInv /\ TypeOK /\ visitor \in Visitor /\ stack \in Seq(Frame)
  BY DEF ReachInv, TypeInv, TypeOK
<1>2. \/ stack' = stack
      \/ \E x \in Frame : x.op # "updated" /\ stack' = << x >> \o stack
  <2>1. CASE StartPostStar
    <3>1. stack' = << RuleLoop(rules) >> \o stack
      <4>1. << RuleLoop(rules) >> \o << >> = << RuleLoop(rules) >>
        OBVIOUS
      <4> QED BY <2>1, <4>1 DEF StartPostStar
    <3>2. RuleLoop(rules) \in Frame /\ RuleLoop(rules).op # "updated"
      BY <1>1, FrameTypes DEF TypeOK, RuleLoop
    <3> QED BY <3>1, <3>2
  <2>2. ASSUME NEW r \in Rules, AddRule(r)
        PROVE  \/ stack' = stack
               \/ \E x \in Frame : x.op # "updated" /\ stack' = << x >> \o stack
    <3>1. Register(ListenerOf(r)) \in Frame /\ Register(ListenerOf(r)).op # "updated"
      BY ListenerTypes, FrameTypes, CallsAreFrames DEF Register
    <3> QED BY <2>2, <3>1 DEF AddRule
  <2>3. ASSUME NEW s \in Seeds, AddSeed(s)
        PROVE  \E x \in Frame : x.op # "updated" /\ stack' = << x >> \o stack
    <3>1. s[1] \in Transition /\ s[2] \in Weights
      BY RuleAssumption
    <3>2. Add(s[1], s[2]) \in Frame /\ Add(s[1], s[2]).op # "updated"
      BY <3>1, FrameTypes, CallsAreFrames DEF Add
    <3> QED BY <2>3, <3>2 DEF AddSeed
  <2> QED BY <2>1, <2>2, <2>3 DEF Client
<1>3. weight' = weight
  BY DEF Client, StartPostStar, AddRule, AddSeed
<1>4. \A t : InUpdate(t)' <=> InUpdate(t)
  <2>1. CASE stack' = stack
    BY <2>1 DEF InUpdate
  <2>2. ASSUME NEW x \in Frame, x.op # "updated", stack' = << x >> \o stack
        PROVE  \A t : InUpdate(t)' <=> InUpdate(t)
    <3>1. Range(stack') = {x} \cup Range(stack)
      BY <1>1, <2>2, PushFrame
    <3> QED BY <2>2, <3>1 DEF InUpdate
  <2> QED BY <1>2, <2>1, <2>2
<1>5. \A t : ToVisit(visitor, t) => ToVisit(visitor, t)'
  <2> SUFFICES ASSUME NEW t, NEW d \in visitor.due, UpdatesAt(stack, d, t)
               PROVE  UpdatesAt(stack', d, t)
    BY DEF ToVisit, UpdatesAt, DepthOf
  <2>1. CASE stack' = stack
    BY <2>1 DEF UpdatesAt, DepthOf
  <2>2. ASSUME NEW x \in Frame, stack' = << x >> \o stack
        PROVE  UpdatesAt(stack', d, t)
    <3>1. << x >> \in Seq(Frame)
      OBVIOUS
    <3> QED BY <1>1, <2>2, <3>1, KeepsDepth
  <2> QED BY <1>2, <2>1, <2>2
<1>6. \A t : InUpdate(t) => t \in DOMAIN weight
  BY DEF ReachInv
<1> QED BY <1>1, <1>3, <1>4, <1>5, <1>6, StepKeeps

\* A weight that changes begins an update loop, which is going to call the visitor.
LEMMA AddReach ==
  ASSUME ReachInv, TypeInv', VisitedAddWeight
  PROVE  ReachInv'
<1> PICK t, f : t = Top.t /\ f = Updated(Top.t, Combined(Top.t, Top.w))
  OBVIOUS
<1>1. /\ TypeInv /\ TypeOK /\ visitor \in Visitor /\ AddWeight
      /\ stack \in Seq(Frame) /\ stack # << >> /\ Tail(stack) \in Seq(Frame)
      /\ Top.op = "add" /\ t \in Transition /\ f \in Frame /\ f.op = "updated" /\ f.t = t
  <2>1. TypeInv /\ TypeOK /\ visitor \in Visitor /\ AddWeight
    BY DEF ReachInv, TypeInv, VisitedAddWeight
  <2> QED BY <2>1, TopFrame, AddFrames, FrameTypes DEF AddWeight, Updated
<1>2. /\ Range(stack) = {Top} \cup Range(Tail(stack))
      /\ Range(Tail(stack)) \subseteq Range(stack')
  BY <1>1, TailStays DEF Engine
<1>3. \A x : InUpdate(x) => x \in DOMAIN weight /\ InUpdate(x)'
  BY <1>1, <1>2 DEF ReachInv, InUpdate
<1>4. \A d, x : UpdatesAt(stack, d, x) => UpdatesAt(Tail(stack), d, x)
  BY <1>1, BelowTop DEF Top
<1>5. CASE AddChanged(t, Top.w)
  <2>1. /\ stack' = << f >> \o Tail(stack) /\ DOMAIN weight' = DOMAIN weight \cup {t}
        /\ weight' # weight
    <3>1. weight' # weight
      <4>1. weight' = [x \in DOMAIN weight \cup {t} |->
                         IF x = t THEN Combined(t, Top.w) ELSE weight[x]]
        BY <1>5 DEF AddChanged
      <4>2. t \in DOMAIN weight' /\ weight'[t] = Combined(t, Top.w)
        BY <4>1
      <4> QED BY <1>5, <4>2 DEF AddChanged
    <3> QED BY <1>5, <3>1 DEF AddChanged
  <2>2. << f >> \in Seq(Frame)
    BY <1>1
  <2>3. /\ Range(stack') = {f} \cup Range(Tail(stack)) /\ stack' \in Seq(Frame)
    BY <1>1, <2>1, SingleRange, Replace
  <2>4. InUpdate(t)'
    BY <1>1, <2>3 DEF InUpdate
  <2>5. \A x : InUpdate(x)' => x \in DOMAIN weight'
    BY <1>1, <1>2, <1>3, <2>1, <2>3 DEF InUpdate
  <2>6. \A d, x : UpdatesAt(stack, d, x) => UpdatesAt(stack', d, x)
    BY <1>1, <1>4, <2>1, <2>2, KeepsDepth
  <2>7. UpdatesAt(stack', Len(stack), t)
    <3>1. /\ Len(stack) \in Nat \ {0} /\ Len(Tail(stack)) = Len(stack) - 1
      BY <1>1
    <3>2. Len(stack') = Len(stack) /\ stack'[1] = f
      BY <1>1, <2>1, <3>1
    <3>3. DepthOf(stack', Len(stack)) = 1
      BY <3>1, <3>2 DEF DepthOf
    <3> QED BY <1>1, <3>1, <3>2, <3>3 DEF UpdatesAt
  <2>8. CASE ~ visitor.registered
    <3>1. visitor' = visitor
      BY <2>8 DEF VisitedAddWeight
    <3>2. \A x : ToVisit(visitor, x) => ToVisit(visitor, x)'
      BY <2>6, <3>1 DEF ToVisit
    <3> QED BY <1>1, <1>3, <2>1, <2>4, <2>5, <2>8, <3>1, <3>2, StepKeeps
  <2>9. CASE visitor.registered
    <3>u. PICK u : u = [visitor EXCEPT !.due = visitor.due \cup {Len(stack)}]
      OBVIOUS
    <3>1. visitor' = u
      BY <2>1, <2>9, <3>u DEF VisitedAddWeight
    <3>2. visitor.due \cup {Len(stack)} \in SUBSET Nat
      BY <1>1 DEF Visitor
    <3>3. /\ u \in Visitor /\ u.kind = visitor.kind /\ u.registered = visitor.registered
          /\ u.adjacent = visitor.adjacent /\ u.refs = visitor.refs
          /\ u.inverse = visitor.inverse /\ u.listeners = visitor.listeners
          /\ u.closures = visitor.closures /\ u.worklist = visitor.worklist
          /\ u.replay = visitor.replay /\ u.asking = visitor.asking
          /\ u.heard = visitor.heard /\ u.due = visitor.due \cup {Len(stack)}
      BY <1>1, <3>2, <3>u DEF Visitor
    <3>4. (visitor \in Visitor)'
      BY <3>1, <3>3
    <3>5. \A x : ToVisit(visitor, x) => ToVisit(visitor, x)'
      BY <2>6, <3>1, <3>3 DEF ToVisit
    <3>6. ToVisit(visitor, t)'
      BY <2>7, <3>1, <3>3 DEF ToVisit
    <3> QED BY <1>1, <1>3, <2>1, <2>4, <2>5, <3>1, <3>3, <3>4, <3>5, <3>6, StepKeeps
  <2> QED BY <2>8, <2>9
<1>6. CASE ~ AddChanged(t, Top.w)
  <2>1. stack' = Tail(stack) /\ weight' = weight
    BY <1>1, <1>6 DEF AddWeight, AddReject, AddAbsorbed
  <2>2. visitor' = visitor
    BY <2>1 DEF VisitedAddWeight
  <2>3. \A x : InUpdate(x)' => x \in DOMAIN weight'
    BY <1>2, <1>3, <2>1 DEF InUpdate
  <2>4. \A x : ToVisit(visitor, x) => ToVisit(visitor, x)'
    BY <1>4, <2>1, <2>2 DEF ToVisit
  <2> QED BY <1>1, <1>3, <2>1, <2>2, <2>3, <2>4, StepKeeps
<1> QED BY <1>5, <1>6

\* When the update loop ends, the closures hear of its transition.
LEMMA ServeReach ==
  ASSUME ReachInv, TypeInv', VisitedServe
  PROVE  ReachInv'
<1>p. PICK t, more : t = Top.t /\ more = { << c[2], t >> : c \in { d \in visitor.closures : d[1] = t.start } }
  OBVIOUS
<1>u. PICK u : u = [visitor EXCEPT !.heard = visitor.heard \cup more]
  OBVIOUS
<1>1. /\ TypeInv /\ TypeOK /\ visitor \in Visitor /\ ServeStateListeners /\ Sound(visitor)
      /\ Len(stack) \notin visitor.due
  BY DEF ReachInv, TypeInv, VisitedServe
<1>2. /\ stack \in Seq(Frame) /\ stack # << >> /\ Tail(stack) \in Seq(Frame)
      /\ Top.op = "updated" /\ Top \in Range(stack) /\ t \in Transition
  BY <1>1, <1>p, TopFrame, FrameKinds DEF ServeStateListeners
<1>3. /\ Range(stack) = {Top} \cup Range(Tail(stack))
      /\ Range(Tail(stack)) \subseteq Range(stack')
  BY <1>1, TailStays DEF Engine
<1>4. \A x : InUpdate(x) => x \in DOMAIN weight
  BY DEF ReachInv
<1>5. t \in DOMAIN weight /\ weight' = weight
  BY <1>1, <1>2, <1>4, <1>p DEF InUpdate, ServeStateListeners
<1>6. visitor' = u
  BY <1>p, <1>u DEF VisitedServe
<1>7. ASSUME NEW x \in more
      PROVE  /\ x \in State \X Transition /\ x[1] \in visitor.listeners
             /\ x[2] = t /\ << x[1], t.start >> \in visitor.inverse
  <2>1. PICK c \in visitor.closures : x = << c[2], t >> /\ c[1] = t.start
    BY <1>7, <1>p
  <2>2. PICK y \in visitor.inverse : c = << y[2], y[1] >> /\ y[1] \in visitor.listeners
    BY <1>1, <2>1 DEF Sound, ClosuresOf
  <2>3. y = << y[1], y[2] >> /\ y[1] \in State
    BY <1>1 DEF Pairs, Visitor
  <2> QED BY <1>2, <2>1, <2>2, <2>3
<1>8. visitor.heard \cup more \in SUBSET (State \X Transition)
  BY <1>1, <1>7 DEF Visitor
<1>9. /\ u \in Visitor /\ u.kind = visitor.kind /\ u.registered = visitor.registered
      /\ u.adjacent = visitor.adjacent /\ u.refs = visitor.refs
      /\ u.inverse = visitor.inverse /\ u.listeners = visitor.listeners
      /\ u.closures = visitor.closures /\ u.worklist = visitor.worklist
      /\ u.replay = visitor.replay /\ u.asking = visitor.asking
      /\ u.heard = visitor.heard \cup more /\ u.due = visitor.due
  BY <1>1, <1>8, <1>u DEF Visitor
<1>a. (visitor \in Visitor)'
  BY <1>6, <1>9
<1>b. \A x \in visitor'.heard \ visitor.heard :
        /\ x[1] \in visitor.listeners /\ x[2] \in DOMAIN weight
        /\ << x[1], x[2].start >> \in visitor.inverse
  BY <1>5, <1>6, <1>7, <1>9
<1>c. \A x : InUpdate(x)' => x \in DOMAIN weight'
  <2>1. \A f \in Range(stack') : f.op = "updated" => f \in Range(Tail(stack))
    BY <1>1, ServeFrames DEF Notify
  <2> QED BY <1>3, <1>4, <1>5, <2>1 DEF InUpdate
<1>d. ASSUME NEW x, InUpdate(x), ~ InUpdate(x)', NEW c \in visitor.closures, x.start = c[1]
      PROVE  << c[2], x >> \in visitor'.heard
  <2>1. x = t
    BY <1>3, <1>d, <1>p DEF InUpdate
  <2>2. << c[2], t >> \in more
    BY <1>d, <1>p, <2>1
  <2> QED BY <1>6, <1>9, <2>1, <2>2
<1>e. ASSUME NEW x, NEW d \in visitor.due, UpdatesAt(stack, d, x)
      PROVE  UpdatesAt(stack', d, x)
  <2>1. UpdatesAt(Tail(stack), d, x)
    BY <1>1, <1>2, <1>e, BelowTop
  <2>n. PICK y : y = Notify(t, Top.w, { l \in listeners : l.state = t.start })
    OBVIOUS
  <2>2. stack' = << y >> \o Tail(stack)
    BY <1>1, <1>p, <2>n DEF ServeStateListeners
  <2>3. y \in Frame
    <3>1. Top.w \in Weights
      BY <1>1, TopFrame, FrameKinds DEF ServeStateListeners
    <3> QED BY <1>1, <1>2, <2>n, <3>1, FrameTypes DEF TypeOK
  <2>4. << y >> \in Seq(Frame)
    BY <2>3
  <2> QED BY <1>2, <2>1, <2>2, <2>4, KeepsDepth
<1>f. \A x : ToVisit(visitor, x) => ToVisit(visitor, x)'
  BY <1>6, <1>9, <1>e DEF ToVisit
<1>g. visitor.heard \subseteq visitor'.heard
  BY <1>6, <1>9
<1> QED BY <1>1, <1>5, <1>6, <1>9, <1>a, <1>b, <1>c, <1>d, <1>f, <1>g, StepKeeps

\* The automaton replays all its transitions to a new visitor.
LEMMA RegisterReach ==
  ASSUME ReachInv, TypeInv', NEW s \in State, RegisterDFSListener(s)
  PROVE  ReachInv'
<1>u. PICK u, ts : /\ ts = IF visitor.registered THEN {} ELSE DOMAIN weight
                   /\ u = [visitor EXCEPT !.registered = TRUE, !.asking = {s}, !.replay = ts]
  OBVIOUS
<1>1. /\ visitor \in Visitor /\ Sound(visitor) /\ Joined(visitor)
      /\ visitor.replay = {} /\ DOMAIN weight \subseteq Transition
      /\ \A t : InUpdate(t) => t \in DOMAIN weight
      /\ visitor.registered => \A t \in DOMAIN weight : Seen(visitor, t) \/ ToVisit(visitor, t)
  BY DEF ReachInv, TypeInv, TypeOK, RegisterDFSListener, Idle
<1>2. visitor' = u /\ UNCHANGED << weight, stack >>
  BY <1>u DEF RegisterDFSListener, vars
<1>3. ts \in SUBSET Transition /\ ts \subseteq DOMAIN weight
  BY <1>1, <1>u
<1>4. /\ u \in Visitor /\ u.kind = visitor.kind /\ u.registered = TRUE
      /\ u.adjacent = visitor.adjacent /\ u.refs = visitor.refs
      /\ u.inverse = visitor.inverse /\ u.listeners = visitor.listeners
      /\ u.closures = visitor.closures /\ u.worklist = visitor.worklist
      /\ u.replay = ts /\ u.due = visitor.due /\ u.heard = visitor.heard
  BY <1>1, <1>3, <1>u DEF Visitor
<1>5. (visitor \in Visitor)' /\ Joined(visitor)'
  BY <1>1, <1>2, <1>4 DEF Joined
<1>6. Sound(visitor)'
  BY <1>1, <1>2, <1>4 DEF Sound, Follows, StaysIn, ContinueWith, ClosuresOf, InUpdate
<1>7. \A t : InUpdate(t)' \/ t \in visitor'.replay => t \in DOMAIN weight'
  BY <1>1, <1>2, <1>3, <1>4 DEF InUpdate
<1>8. ASSUME NEW t \in DOMAIN weight' PROVE Seen(visitor, t)' \/ ToVisit(visitor, t)'
  <2>1. CASE visitor.registered
    <3>1. Seen(visitor, t) => Seen(visitor, t)'
      BY <1>2, <1>4 DEF Seen, ContinueWith
    <3>2. ToVisit(visitor, t) => ToVisit(visitor, t)'
      BY <1>1, <1>2, <1>4 DEF ToVisit
    <3> QED BY <1>1, <1>2, <2>1, <3>1, <3>2
  <2>2. CASE ~ visitor.registered
    BY <1>2, <1>4, <1>u, <2>2 DEF ToVisit
  <2> QED BY <2>1, <2>2
<1> QED BY <1>2, <1>4, <1>5, <1>6, <1>7, <1>8 DEF ReachInv

LEMMA ReachInit == VisitedInit => ReachInv
<1> SUFFICES ASSUME VisitedInit PROVE ReachInv
  OBVIOUS
<1>1. PICK k \in {"dfs", "epsilon"} : visitor = NewVisitor(k)
  BY DEF VisitedInit
<1>2. /\ visitor.kind = k /\ visitor.registered = FALSE /\ visitor.adjacent = {}
      /\ visitor.refs = {} /\ visitor.inverse = {} /\ visitor.listeners = {}
      /\ visitor.closures = {} /\ visitor.heard = {} /\ visitor.due = {}
      /\ visitor.replay = {} /\ visitor.worklist = {} /\ visitor.asking = {}
  BY <1>1 DEF NewVisitor
<1>3. visitor \in Visitor
  BY <1>1 DEF NewVisitor, Visitor
<1>4. TypeInv /\ stack = << >>
  BY TypeInit DEF VisitedInit, Init
<1>5. Sound(visitor)
  BY <1>2 DEF Sound, Follows, ClosuresOf
<1>6. Joined(visitor)
  BY <1>2 DEF Joined
<1>7. \A t : ~ InUpdate(t)
  BY <1>4, EmptyRange DEF InUpdate
<1> QED BY <1>2, <1>3, <1>4, <1>5, <1>6, <1>7 DEF ReachInv

LEMMA ReachStep == ReachInv /\ [VisitedNext]_visited => ReachInv'
<1> SUFFICES ASSUME ReachInv, [VisitedNext]_visited PROVE ReachInv'
  OBVIOUS
<1>1. TypeInv'
  <2>1. TypeInv
    BY DEF ReachInv
  <2>2. [Next]_vars
    BY DEF VisitedNext, VisitedEngine, visited, FollowEdge, ReplayVisit, Listen, VisitorTurn,
       VisitedAddWeight, VisitedServe, RegisterDFSListener, Next, Engine
  <2> QED BY <2>1, <2>2, TypeStep
<1>2. CASE FollowEdge \/ ReplayVisit \/ Listen \/ VisitorTurn
  <2>1. UNCHANGED vars
    BY <1>2 DEF FollowEdge, ReplayVisit, Listen, VisitorTurn
  <2> QED BY <1>2, <2>1, VisitorSteps
<1>3. CASE VisitedAddWeight
  BY <1>1, <1>3, AddReach
<1>4. CASE VisitedServe
  BY <1>1, <1>4, ServeReach
<1>5. CASE Beside /\ UNCHANGED visitor
  BY <1>1, <1>5, BesideReach
<1>6. CASE Client /\ UNCHANGED visitor
  BY <1>1, <1>6, ClientReach
<1>7. ASSUME NEW s \in State, RegisterDFSListener(s) PROVE ReachInv'
  BY <1>1, <1>7, RegisterReach
<1>8. CASE UNCHANGED visited
  BY <1>8 DEF visited, vars, ReachInv, TypeInv, TypeOK, ReplayKnown, Done, Sound, Follows,
     StaysIn, ContinueWith, ClosuresOf, InUpdate, Joined, Seen, ToVisit, UpdatesAt, DepthOf
<1> QED BY <1>2, <1>3, <1>4, <1>5, <1>6, <1>7, <1>8
      DEF VisitedNext, VisitedEngine, Beside

(***************************************************************************)
(* What is behind s is what the pairs found say: the least set closed      *)
(* under the transitions followed, once every transition has been seen.    *)
(***************************************************************************)
LEMMA HeardIsBehind ==
  ASSUME ReachInv, NEW x \in visitor.heard
  PROVE  x[2] \in DOMAIN weight /\ x[2].start \in Behind(x[1])
<1> DEFINE s == x[1]
           q == x[2].start
           all == {s} \cup { t.target : t \in DOMAIN weight }
<1>1. x[2] \in DOMAIN weight /\ << s, q >> \in visitor.inverse
  BY DEF ReachInv, Sound
<1>2. ASSUME NEW W, s \in W, GoesOn(W) PROVE q \in W
  <2>1. StaysIn(visitor, W)
    BY <1>2 DEF GoesOn, StaysIn
  <2> QED BY <1>1, <1>2, <2>1 DEF ReachInv, Sound, Follows
<1>3. GoesOn(all)
  BY DEF GoesOn
<1>4. q \in all
  BY <1>2, <1>3
<1> QED BY <1>1, <1>2, <1>4 DEF Behind

LEMMA BehindIsHeard ==
  ASSUME ReachInv, stack = << >>, Idle, NEW s \in visitor.listeners,
         NEW t \in DOMAIN weight, t.start \in Behind(s)
  PROVE  << s, t >> \in visitor.heard
<1> DEFINE all == {s} \cup { x.target : x \in DOMAIN weight }
           W == { q \in all : q = s \/ << s, q >> \in visitor.refs }
<1>1. Sound(visitor) /\ Joined(visitor) /\ visitor.worklist = {}
  BY DEF ReachInv, Idle
<1>2. \A x : ~ InUpdate(x) /\ ~ ToVisit(visitor, x)
  <2>1. \A x : ~ InUpdate(x)
    BY EmptyRange DEF InUpdate
  <2>2. ASSUME NEW d, NEW x PROVE ~ UpdatesAt(stack, d, x)
    BY DEF UpdatesAt
  <2> QED BY <2>1, <2>2 DEF ToVisit, Idle
<1>3. \A x \in DOMAIN weight : Seen(visitor, x)
  BY <1>2 DEF ReachInv
<1>4. GoesOn(W)
  <2> SUFFICES ASSUME NEW x \in DOMAIN weight, x.start \in W, ContinueWith(visitor, x)
               PROVE  x.target \in W
    BY DEF GoesOn
  <2>1. << x.start, x.target >> \in visitor.adjacent
    BY <1>3 DEF Seen
  <2>2. << s, x.target >> \in visitor.refs
    <3>1. CASE x.start = s
      BY <1>1, <2>1, <3>1 DEF Joined
    <3>2. CASE << s, x.start >> \in visitor.refs
      BY <1>1, <2>1, <3>2 DEF Joined
    <3> QED BY <3>1, <3>2
  <2> QED BY <2>2
<1>5. t.start \in W
  <2>1. s \in W /\ W \in SUBSET all
    OBVIOUS
  <2> HIDE DEF W
  <2> QED BY <1>4, <2>1 DEF Behind
<1>6. << s, t.start >> \in visitor.inverse
  <2>1. CASE t.start = s
    BY <1>3, <2>1 DEF Seen
  <2>2. CASE << s, t.start >> \in visitor.refs
    BY <1>1, <2>2 DEF Joined
  <2> QED BY <1>5, <2>1, <2>2
<1>7. << t.start, s >> \in visitor.closures
  <2> PICK y : y = << s, t.start >>
    OBVIOUS
  <2>1. y \in visitor.inverse /\ y[1] \in visitor.listeners /\ << t.start, s >> = << y[2], y[1] >>
    BY <1>6
  <2> QED BY <1>1, <2>1 DEF Sound, ClosuresOf
<1>8. << s, t >> \in visitor.heard \/ InUpdate(t)
  <2> PICK c : c = << t.start, s >>
    OBVIOUS
  <2>1. c \in visitor.closures /\ t.start = c[1] /\ c[2] = s
    BY <1>7
  <2> QED BY <1>1, <2>1 DEF Sound
<1> QED BY <1>2, <1>8

LEMMA HeardFromInv == ReachInv => HeardReachable
<1> SUFFICES ASSUME ReachInv PROVE HeardReachable
  OBVIOUS
<1> DEFINE all == UNION { {s} \X { t \in DOMAIN weight : t.start \in Behind(s) } :
                           s \in visitor.listeners }
<1>1. ASSUME NEW x \in visitor.heard PROVE x \in all
  <2>1. x[1] \in visitor.listeners /\ x = << x[1], x[2] >>
    <3>1. x \in State \X Transition
      BY DEF ReachInv, Visitor
    <3>2. x[1] \in visitor.listeners
      BY DEF ReachInv, Sound
    <3> QED BY <3>1, <3>2
  <2>2. x[2] \in DOMAIN weight /\ x[2].start \in Behind(x[1])
    BY HeardIsBehind
  <2>3. x \in {x[1]} \X { t \in DOMAIN weight : t.start \in Behind(x[1]) }
    BY <2>1, <2>2
  <2> QED BY <2>1, <2>3
<1>2. ASSUME stack = << >>, Idle, NEW x \in all PROVE x \in visitor.heard
  <2>1. PICK s \in visitor.listeners :
          x \in {s} \X { t \in DOMAIN weight : t.start \in Behind(s) }
    OBVIOUS
  <2>2. PICK t \in DOMAIN weight : t.start \in Behind(s) /\ x = << s, t >>
    BY <2>1
  <2> QED BY <1>2, <2>2, BehindIsHeard
<1> QED BY <1>1, <1>2 DEF HeardReachable

(***************************************************************************)
(* For all transitions, listeners and orders of the calls: a client's      *)
(* listener hears of the transitions behind its state and of no others,    *)
(* and by the time no call is in progress of all of them                   *)
(* (ForwardDFSVisitor, ForwardDFSEpsilonVisitor).                          *)
(***************************************************************************)
THEOREM ListenersHear == VisitedSpec => []HeardReachable
<1>1. VisitedInit => ReachInv
  BY ReachInit
<1>2. ReachInv /\ [VisitedNext]_visited => ReachInv'
  BY ReachStep
<1>3. ReachInv => HeardReachable
  BY HeardFromInv
<1> QED BY <1>1, <1>2, <1>3, PTL DEF VisitedSpec

=============================================================================
