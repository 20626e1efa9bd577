------------------------- MODULE QueryLifecycleProofs -------------------------
(***************************************************************************)
(* Theorems about QueryLifecycle, for all queries, nestings, crashes and   *)
(* time limits, and about GuidedAnalysis, which drives it, for all that    *)
(* its manager may answer.                                                 *)
(*                                                                         *)
(* What the clients see depends on the calls in progress, so each theorem  *)
(* rests on what holds of every frame of the stack.  A step does one of    *)
(* three things to it: it adds a frame, changes the top one, or drops it.  *)
(***************************************************************************)
EXTENDS GuidedAnalysis, StackLemmas, TLAPS

-----------------------------------------------------------------------------
(* Types *)

TypeInv ==
  /\ options \in [multiple : BOOLEAN, limit : Nat] /\ solving \in BOOLEAN
  /\ watch \in [running : BOOLEAN, elapsed : Nat]
  /\ key \in Query \cup {NoParent} /\ seeded \subseteq Query /\ listening \subseteq Query
  /\ stack \in Seq(Frame) /\ thrown \in {"nothing", "timeout", "crash"}
  /\ outcome \in
       [Query -> [end : {"none", "complete", "timedout", "crashed"}, late : BOOLEAN]]
  /\ history \in [spent : Nat, broken : SUBSET Query, nested : BOOLEAN,
                  escaped : BOOLEAN]

\* The frame a call begins with
First(q, entry, parent) ==
  [query |-> q, entry |-> entry, parent |-> parent, new |-> q \notin seeded,
   added |-> 0, pending |-> IF q \in seeded THEN 1 ELSE Work[q], calls |-> {},
   late |-> Expired]

LEMMA FirstTyped ==
  ASSUME TypeInv, NEW q \in Query, NEW entry \in Entry, NEW parent \in Query \cup {NoParent}
  PROVE  /\ First(q, entry, parent) \in Frame
         /\ First(q, entry, parent).pending > 0
         /\ First(q, entry, parent).late = Expired
         /\ First(q, entry, parent).entry = entry
<1>1. Work[q] \in Nat \ {0} /\ Expired \in BOOLEAN
  BY LifecycleAssumption DEF Expired
<1> QED
  BY <1>1 DEF First, Frame

LEMMA TypeInit == Init => TypeInv
<1> SUFFICES ASSUME Init PROVE TypeInv
  OBVIOUS
<1>1. options \in [multiple : BOOLEAN, limit : Nat]
  BY LifecycleAssumption DEF Init
<1>2. stack \in Seq(Frame)
  BY DEF Init
<1> QED
  BY <1>1, <1>2 DEF Init, TypeInv

\* A call that begins
LEMMA BeginTyped ==
  ASSUME TypeInv, NEW q \in Query, NEW entry \in Entry, NEW parent \in Query \cup {NoParent},
         NEW rest \in Seq(Frame), Begin(q, entry, parent, rest)
  PROVE  /\ stack' = << First(q, entry, parent) >> \o rest
         /\ stack' \in Seq(Frame) /\ solving' \in BOOLEAN
         /\ watch' \in [running : BOOLEAN, elapsed : Nat] /\ key' \in Query \cup {NoParent}
<1>1. stack' = << First(q, entry, parent) >> \o rest
  BY DEF Begin, First
<1>2. First(q, entry, parent) \in Frame
  BY FirstTyped
<1>3. stack' \in Seq(Frame)
  BY <1>1, <1>2, Pushed
<1>4. watch' \in [running : BOOLEAN, elapsed : Nat]
  BY DEF Begin, TypeInv, StartWatch
<1>5. solving' \in BOOLEAN /\ key' \in Query \cup {NoParent}
  BY DEF Begin, TypeInv
<1> QED
  BY <1>1, <1>3, <1>4, <1>5

\* The stack a nested call is pushed on
Rest(n) == << [Top EXCEPT !.calls = @ \ {n}] >> \o Tail(stack)

LEMMA TopTyped ==
  ASSUME TypeInv, stack # << >>
  PROVE  /\ Top \in Frame /\ Top = stack[1] /\ Tail(stack) \in Seq(Frame)
         /\ Top.query \in Query /\ Top.entry \in Entry /\ Top.late \in BOOLEAN
         /\ Top.pending \in Nat /\ Top.added \in Nat /\ Top.calls \subseteq Nested
         /\ Top.parent \in Query \cup {NoParent}
<1>1. Top \in Frame /\ Top = stack[1] /\ Tail(stack) \in Seq(Frame)
  BY Popped DEF TypeInv, Top
<1> QED
  BY <1>1 DEF Frame

LEMMA RestTyped ==
  ASSUME TypeInv, stack # << >>, NEW n \in Top.calls
  PROVE  /\ Rest(n) \in Seq(Frame) /\ n \in Nested
         /\ [Top EXCEPT !.calls = @ \ {n}] \in Frame
<1>1. Top \in Frame /\ Tail(stack) \in Seq(Frame) /\ Top.calls \subseteq Nested
  BY TopTyped
<1>2. [Top EXCEPT !.calls = Top.calls \ {n}] \in Frame
  BY <1>1 DEF Frame
<1> QED
  BY <1>1, <1>2, Pushed DEF Rest

\* What a nested call is made with
LEMMA NestedTyped ==
  ASSUME TypeInv, NEW n \in Nested
  PROVE  /\ n.callee \in Query /\ n.query \in Query /\ Starts(n) \in Entry
         /\ ParentIn(n) \in Query \cup {NoParent} /\ n.entry # "scope"
  BY LifecycleAssumption DEF TypeInv, Starts, ParentIn

LEMMA ReturnTyped ==
  ASSUME TypeInv, stack # << >>, NEW e \in {"complete", "timedout", "crashed"},
         Return(Top, e)
  PROVE  /\ watch' \in [running : BOOLEAN, elapsed : Nat] /\ listening' \subseteq Query
         /\ stack' = Tail(stack) /\ stack' \in Seq(Frame) /\ thrown' = "nothing"
         /\ outcome' = [outcome EXCEPT ![Top.query] = [end |-> e, late |-> Top.late]]
         /\ outcome' \in [Query -> [end : {"none", "complete", "timedout", "crashed"},
                                    late : BOOLEAN]]
<1>1. Top \in Frame /\ Tail(stack) \in Seq(Frame) /\ Top.late \in BOOLEAN
  BY TopTyped
<1>2. watch' \in [running : BOOLEAN, elapsed : Nat]
  BY DEF Return, StopWatch, TypeInv
<1>3. listening' \subseteq Query
  BY DEF Return, Unregistered, TypeInv
<1>4. [end |-> e, late |-> Top.late]
        \in [end : {"none", "complete", "timedout", "crashed"}, late : BOOLEAN]
  BY <1>1
<1>5. outcome' = [outcome EXCEPT ![Top.query] = [end |-> e, late |-> Top.late]]
  BY DEF Return
<1>6. outcome' \in [Query -> [end : {"none", "complete", "timedout", "crashed"},
                              late : BOOLEAN]]
  BY <1>4, <1>5 DEF TypeInv
<1> QED
  BY <1>1, <1>2, <1>3, <1>5, <1>6 DEF Return

\* What AddTransition does to the stack
Added ==
  << [Top EXCEPT !.added = @ + 1, !.pending = @ - 1, !.calls = Hits(Top)] >> \o Tail(stack)

LEMMA AddTransitionStack ==
  ASSUME TypeInv, AddTransition
  PROVE  /\ stack # << >> /\ Top.pending > 0
         /\ \/ /\ Expired /\ watch' = StopWatch /\ stack' = stack /\ thrown' = "timeout"
               /\ UNCHANGED << seeded, listening >>
            \/ /\ ~ Expired /\ stack' = Added /\ UNCHANGED << watch, thrown >>
               /\ seeded' = seeded \cup {Top.query} /\ listening' = listening \cup {Top.query}
         /\ Added \in Seq(Frame)
         /\ [Top EXCEPT !.added = @ + 1, !.pending = @ - 1, !.calls = Hits(Top)] \in Frame
         /\ UNCHANGED << options, solving, graphVars, outcome, history >>
<1>1. stack # << >> /\ Top.pending > 0
  BY DEF AddTransition, Running
<1>2. /\ Top \in Frame /\ Tail(stack) \in Seq(Frame)
      /\ Top.pending \in Nat /\ Top.added \in Nat
  BY <1>1, TopTyped
<1> DEFINE c == Hits(Top)
<1>3. c \in SUBSET Nested /\ Top.added + 1 \in Nat /\ Top.pending - 1 \in Nat
  BY <1>1, <1>2 DEF Hits
<1>4. [Top EXCEPT !.added = Top.added + 1, !.pending = Top.pending - 1, !.calls = c] \in Frame
  <2> HIDE DEF c
  <2> QED BY <1>2, <1>3 DEF Frame
<1>5. Added \in Seq(Frame)
  BY <1>2, <1>4, Pushed DEF Added
<1>6. \/ /\ Expired /\ watch' = StopWatch /\ stack' = stack /\ thrown' = "timeout"
         /\ UNCHANGED << seeded, listening >>
      \/ /\ ~ Expired /\ stack' = Added /\ UNCHANGED << watch, thrown >>
         /\ seeded' = seeded \cup {Top.query} /\ listening' = listening \cup {Top.query}
  BY DEF AddTransition, CheckTimeout, Added
<1>7. UNCHANGED << options, solving, graphVars, outcome, history >>
  BY DEF AddTransition
<1> QED
  BY <1>1, <1>4, <1>5, <1>6, <1>7

\* What AddEdge does to the stack
Edged == << [Top EXCEPT !.new = TRUE, !.pending = Permitted(Top)] >> \o Tail(stack)

LEMMA AddEdgeStack ==
  ASSUME TypeInv, AddEdge
  PROVE  /\ stack # << >> /\ Top.pending = 0
         /\ [Top EXCEPT !.new = TRUE, !.pending = Permitted(Top)] \in Frame
         /\ stack' = Edged /\ stack' \in Seq(Frame)
         /\ UNCHANGED << options, solving, watch, key, seeded, listening, thrown,
                         outcome, history >>
<1>1. stack # << >> /\ Top.pending = 0
  BY DEF AddEdge, Running
<1>2. /\ Top \in Frame /\ Tail(stack) \in Seq(Frame) /\ Top.query \in Query
  BY <1>1, TopTyped
<1> DEFINE more == Permitted(Top)
<1>3. more \in Nat
  BY <1>2, LifecycleAssumption DEF Permitted
<1>4. stack' = Edged
  BY DEF AddEdge, Edged
<1>5. [Top EXCEPT !.new = TRUE, !.pending = more] \in Frame
  <2> HIDE DEF more
  <2> QED BY <1>2, <1>3 DEF Frame
<1>6. stack' \in Seq(Frame)
  BY <1>2, <1>4, <1>5, Pushed DEF Edged
<1>7. UNCHANGED << options, solving, watch, key, seeded, listening, thrown, outcome, history >>
  BY DEF AddEdge
<1> QED
  BY <1>1, <1>4, <1>5, <1>6, <1>7

\* What a nested call does
LEMMA SolveNestedStack ==
  ASSUME TypeInv, SolveNested
  PROVE  /\ stack # << >>
         /\ \E n \in Top.calls :
              /\ Rest(n) \in Seq(Frame) /\ n \in Nested
              /\ \/ /\ stack' = Rest(n) /\ thrown' = "crash"
                    /\ UNCHANGED << solving, watch, key, history >>
                 \/ /\ Begin(n.callee, Starts(n), ParentIn(n), Rest(n))
                    /\ history' = [history EXCEPT !.nested = @ \/ n.entry = "solve"]
                    /\ UNCHANGED thrown
         /\ UNCHANGED << options, seeded, listening, outcome >>
<1>1. stack # << >>
  BY DEF SolveNested, Running
<1>2. PICK n \in Top.calls :
        \/ /\ stack' = Rest(n) /\ thrown' = "crash"
           /\ UNCHANGED << solving, watch, key, history >>
        \/ /\ Begin(n.callee, Starts(n), ParentIn(n), Rest(n))
           /\ history' = [history EXCEPT !.nested = @ \/ n.entry = "solve"]
           /\ UNCHANGED thrown
  BY DEF SolveNested, Rest
<1>3. Rest(n) \in Seq(Frame) /\ n \in Nested
  BY <1>1, RestTyped
<1>4. UNCHANGED << options, seeded, listening, outcome >>
  BY DEF SolveNested
<1> QED
  BY <1>1, <1>2, <1>3, <1>4

\* A call from outside keeps the types.
LEMMA CallTyped ==
  ASSUME TypeInv, NEW q \in Query, NEW entry \in {"solve", "scope"},
         NEW p \in Query \cup {NoParent}, Call(q, entry, p)
  PROVE  TypeInv'
<1>1. Begin(q, entry, p, << >>) /\ << >> \in Seq(Frame) /\ entry \in Entry
  BY DEF Call, Entry
<1>2. /\ stack' \in Seq(Frame) /\ solving' \in BOOLEAN
      /\ watch' \in [running : BOOLEAN, elapsed : Nat] /\ key' \in Query \cup {NoParent}
  BY <1>1, BeginTyped
<1>3. UNCHANGED << options, seeded, listening, thrown, outcome, history >>
  BY DEF Call
<1> QED BY <1>2, <1>3 DEF TypeInv

\* Every step keeps the types.
LEMMA TypeStep == TypeInv /\ [Next]_vars => TypeInv'
<1> SUFFICES ASSUME TypeInv, [Next]_vars PROVE TypeInv'
  OBVIOUS
<1>1. CASE SolveNested
  <2>1. PICK n \in Top.calls :
          /\ Rest(n) \in Seq(Frame) /\ n \in Nested
          /\ \/ /\ stack' = Rest(n) /\ thrown' = "crash"
                /\ UNCHANGED << solving, watch, key, history >>
             \/ /\ Begin(n.callee, Starts(n), ParentIn(n), Rest(n))
                /\ history' = [history EXCEPT !.nested = @ \/ n.entry = "solve"]
                /\ UNCHANGED thrown
    BY <1>1, SolveNestedStack
  <2>2. /\ n.callee \in Query /\ Starts(n) \in Entry /\ ParentIn(n) \in Query \cup {NoParent}
    BY <2>1, NestedTyped
  <2>3. UNCHANGED << options, seeded, listening, outcome >>
    BY <1>1, SolveNestedStack
  <2>4. CASE Begin(n.callee, Starts(n), ParentIn(n), Rest(n))
    <3>1. /\ stack' \in Seq(Frame) /\ solving' \in BOOLEAN
          /\ watch' \in [running : BOOLEAN, elapsed : Nat] /\ key' \in Query \cup {NoParent}
      BY <2>1, <2>2, <2>4, BeginTyped
    <3>2. history' \in [spent : Nat, broken : SUBSET Query, nested : BOOLEAN,
                        escaped : BOOLEAN]
      BY <2>1 DEF TypeInv
    <3>3. thrown' \in {"nothing", "timeout", "crash"}
      BY <2>1 DEF TypeInv
    <3> QED BY <2>3, <3>1, <3>2, <3>3 DEF TypeInv
  <2>5. CASE stack' = Rest(n) /\ thrown' = "crash" /\ UNCHANGED << solving, watch, key, history >>
    BY <2>1, <2>3, <2>5 DEF TypeInv
  <2> QED BY <2>1, <2>4, <2>5
<1>2. CASE AddTransition
  <2>1. watch' \in [running : BOOLEAN, elapsed : Nat]
    BY <1>2, AddTransitionStack DEF TypeInv, StopWatch
  <2>2. stack' \in Seq(Frame) /\ thrown' \in {"nothing", "timeout", "crash"}
    BY <1>2, AddTransitionStack DEF TypeInv
  <2>3. seeded' \subseteq Query /\ listening' \subseteq Query
    BY <1>2, AddTransitionStack, TopTyped DEF TypeInv
  <2>4. UNCHANGED << options, solving, key, outcome, history >>
    BY <1>2, AddTransitionStack DEF graphVars
  <2> QED BY <2>1, <2>2, <2>3, <2>4 DEF TypeInv
<1>3. CASE AddEdge
  <2>1. /\ stack' \in Seq(Frame)
        /\ UNCHANGED << options, solving, watch, key, seeded, listening, thrown, outcome,
                        history >>
    BY <1>3, AddEdgeStack
  <2> QED BY <2>1 DEF TypeInv
<1>4. CASE Complete
  <2>1. stack # << >>
    BY <1>4 DEF Complete, Running
  <2>2. UNCHANGED << options, solving, key, seeded, history >>
    BY <1>4 DEF Complete, graphVars
  <2>3. CASE Top.entry = "inner"
    <3>1. stack' = Tail(stack) /\ UNCHANGED << watch, listening, outcome, thrown >>
      BY <1>4, <2>3 DEF Complete
    <3> QED BY <2>1, <2>2, <3>1, TopTyped DEF TypeInv
  <2>4. CASE Top.entry # "inner"
    <3>1. Return(Top, "complete")
      BY <1>4, <2>4 DEF Complete
    <3> QED BY <2>1, <2>2, <3>1, ReturnTyped DEF TypeInv
  <2> QED BY <2>3, <2>4
<1>5. CASE Catch
  <2>1. stack # << >> /\ UNCHANGED << options, solving, key, seeded >>
    BY <1>5 DEF Catch, graphVars
  <2>2. PICK e \in {"timedout", "crashed"} : Return(Top, e)
    BY <1>5 DEF Catch
  <2>3. history' \in [spent : Nat, broken : SUBSET Query, nested : BOOLEAN,
                      escaped : BOOLEAN]
    BY <1>5, <2>1, TopTyped DEF Catch, Broken, TypeInv
  <2>4. e \in {"complete", "timedout", "crashed"}
    BY <2>2
  <2> QED BY <2>1, <2>2, <2>3, <2>4, ReturnTyped DEF TypeInv
<1>6. CASE Unwind
  <2>1. stack # << >> /\ UNCHANGED << options, solving, key, seeded, watch, listening, outcome >>
    BY <1>6 DEF Unwind, graphVars
  <2>2. stack' \in Seq(Frame) /\ thrown' \in {"nothing", "timeout", "crash"}
    BY <1>6, <2>1, TopTyped DEF Unwind, TypeInv
  <2>3. Broken \subseteq Query /\ (history.escaped \/ Len(stack) = 1) \in BOOLEAN
    BY <2>1, TopTyped DEF Broken, TypeInv
  <2>4. history' \in [spent : Nat, broken : SUBSET Query, nested : BOOLEAN,
                      escaped : BOOLEAN]
    BY <1>6, <2>3 DEF Unwind, TypeInv
  <2> QED BY <2>1, <2>2, <2>4 DEF TypeInv
<1>7. CASE Crash
  BY <1>7 DEF Crash, TypeInv, graphVars
<1>8. CASE Tick
  <2>1. watch' \in [running : BOOLEAN, elapsed : Nat]
    BY <1>8 DEF Tick, TypeInv
  <2>2. history' \in [spent : Nat, broken : SUBSET Query, nested : BOOLEAN,
                      escaped : BOOLEAN]
    BY <1>8 DEF Tick, TypeInv
  <2> QED BY <1>8, <2>1, <2>2 DEF Tick, TypeInv, graphVars
<1>9. ASSUME NEW q \in Query, NEW entry \in {"solve", "scope"},
             NEW p \in Query \cup {NoParent}, Call(q, entry, p)
      PROVE  TypeInv'
  BY <1>9, CallTyped
<1>10. CASE Client
  BY <1>9, <1>10 DEF Client, TypeInv
<1>11. CASE UNCHANGED vars
  BY <1>11 DEF vars, graphVars, TypeInv
<1> QED
  BY <1>1, <1>2, <1>3, <1>4, <1>5, <1>6, <1>7, <1>8, <1>10, <1>11
  DEF Next, Engine, Environment

\* The calls in progress, the watch, the query graph and the outcomes keep their
\* types however calls nest and end (WeightedBoomerang.solve).
THEOREM TypesKept == Spec => []TypeInv
<1> QED
  BY TypeInit, TypeStep, PTL DEF Spec

-----------------------------------------------------------------------------
(* The frames: one that began when the time was over has still to add; only the
   outermost is timed, until a timed query is solved inside another, and in an
   instance for one query it is no scope. *)

FramesOK(s, over, nested, multiple) ==
  \A i \in 1 .. Len(s) :
    /\ s[i].late => over /\ s[i].pending > 0
    /\ i = Len(s) => Timed(s[i].entry) /\ (~ multiple => s[i].entry = "solve")
    /\ i < Len(s) /\ ~ nested => ~ Timed(s[i].entry)

LEMMA FramesPopped ==
  ASSUME NEW s \in Seq(Frame), s # << >>, NEW o \in BOOLEAN, NEW n \in BOOLEAN,
         NEW m \in BOOLEAN, FramesOK(s, o, n, m)
  PROVE  FramesOK(Tail(s), o, n, m)
<1>1. /\ Len(s) \in Nat \ {0} /\ Tail(s) \in Seq(Frame) /\ Len(Tail(s)) = Len(s) - 1
      /\ \A i \in 1 .. Len(s) - 1 : Tail(s)[i] = s[i + 1]
  BY Popped
<1> SUFFICES ASSUME NEW i \in 1 .. Len(Tail(s))
             PROVE  /\ Tail(s)[i].late => o /\ Tail(s)[i].pending > 0
                    /\ i = Len(Tail(s)) => /\ Timed(Tail(s)[i].entry)
                                           /\ ~ m => Tail(s)[i].entry = "solve"
                    /\ i < Len(Tail(s)) /\ ~ n => ~ Timed(Tail(s)[i].entry)
  BY DEF FramesOK
<1>2. i + 1 \in 1 .. Len(s) /\ Tail(s)[i] = s[i + 1]
  BY <1>1
<1>3. (i = Len(Tail(s)) <=> i + 1 = Len(s)) /\ (i < Len(Tail(s)) <=> i + 1 < Len(s))
  BY <1>1
<1> QED
  BY <1>2, <1>3 DEF FramesOK

\* The top frame is changed, but not its entry and not whether it is late.
LEMMA FramesReplaced ==
  ASSUME NEW s \in Seq(Frame), s # << >>, NEW o \in BOOLEAN, NEW n \in BOOLEAN,
         NEW m \in BOOLEAN, FramesOK(s, o, n, m), NEW f \in Frame,
         f.entry = s[1].entry, f.late = s[1].late, f.late => f.pending > 0
  PROVE  FramesOK(<< f >> \o Tail(s), o, n, m)
<1> DEFINE r == << f >> \o Tail(s)
<1>1. /\ Len(r) = Len(s)
      /\ \A i \in 1 .. Len(s) : r[i] = IF i = 1 THEN f ELSE s[i]
  BY Replaced
<1> HIDE DEF r
<1>2. FramesOK(r, o, n, m)
  <2> SUFFICES ASSUME NEW i \in 1 .. Len(s)
               PROVE  /\ r[i].late => o /\ r[i].pending > 0
                      /\ i = Len(s) => Timed(r[i].entry) /\ (~ m => r[i].entry = "solve")
                      /\ i < Len(s) /\ ~ n => ~ Timed(r[i].entry)
    BY <1>1 DEF FramesOK
  <2>1. CASE i = 1
    <3>1. r[i] = f /\ 1 \in 1 .. Len(s)
      BY <1>1, <2>1
    <3> QED BY <2>1, <3>1 DEF FramesOK
  <2>2. CASE i # 1
    <3>1. r[i] = s[i]
      BY <1>1, <2>2
    <3> QED BY <3>1 DEF FramesOK
  <2> QED BY <2>1, <2>2
<1> QED
  BY <1>2 DEF r

\* A frame on top: of the others an untimed one, if no timed one was there before
LEMMA FramesPushed ==
  ASSUME NEW s \in Seq(Frame), NEW o \in BOOLEAN, NEW n \in BOOLEAN, NEW m \in BOOLEAN,
         FramesOK(s, o, n, m), NEW f \in Frame, NEW k \in BOOLEAN, n => k,
         f.late => o /\ f.pending > 0,
         s # << >> /\ ~ k => ~ Timed(f.entry),
         s = << >> => Timed(f.entry) /\ (~ m => f.entry = "solve")
  PROVE  FramesOK(<< f >> \o s, o, k, m)
<1> DEFINE r == << f >> \o s
<1>1. /\ Len(r) = Len(s) + 1
      /\ \A i \in 1 .. Len(s) + 1 : r[i] = IF i = 1 THEN f ELSE s[i - 1]
  BY Pushed
<1>2. Len(s) \in Nat /\ (s = << >> <=> Len(s) = 0)
  OBVIOUS
<1> HIDE DEF r
<1>3. FramesOK(r, o, k, m)
  <2> SUFFICES ASSUME NEW i \in 1 .. Len(s) + 1
               PROVE  /\ r[i].late => o /\ r[i].pending > 0
                      /\ i = Len(s) + 1 =>
                           Timed(r[i].entry) /\ (~ m => r[i].entry = "solve")
                      /\ i < Len(s) + 1 /\ ~ k => ~ Timed(r[i].entry)
    BY <1>1 DEF FramesOK
  <2>1. CASE i = 1
    <3>1. r[i] = f
      BY <1>1, <2>1
    <3>2. (i = Len(s) + 1 => s = << >>) /\ (i < Len(s) + 1 => s # << >>)
      BY <1>2, <2>1
    <3> QED BY <3>1, <3>2
  <2>2. CASE i # 1
    <3>1. r[i] = s[i - 1] /\ i - 1 \in 1 .. Len(s)
      BY <1>1, <1>2, <2>2
    <3>2. (i = Len(s) + 1 <=> i - 1 = Len(s)) /\ (i < Len(s) + 1 <=> i - 1 < Len(s))
      BY <1>2
    <3> QED BY <3>1, <3>2 DEF FramesOK
  <2> QED BY <2>1, <2>2
<1> QED
  BY <1>3 DEF r

-----------------------------------------------------------------------------
(* The invariant *)

\* What a call leaves behind depends on whether one is in progress.
CallsInv ==
  /\ FramesOK(stack, Expired, history.nested, options.multiple)
  /\ stack # << >> \/ seeded # {} => solving
  /\ stack = << >> /\ ~ history.escaped => ~ watch.running
  /\ stack = << >> /\ ~ history.escaped /\ ~ options.multiple => listening = {}
  /\ stack # << >> /\ ~ Expired /\ ~ history.nested /\ ~ history.escaped => watch.running
  /\ TimeCounted
  /\ NoLateAnswer

LEMMA CallsInit == Init => CallsInv
<1> SUFFICES ASSUME Init PROVE CallsInv
  OBVIOUS
<1>1. Len(stack) = 0 /\ ~ (stack # << >>)
  BY DEF Init
<1>2. FramesOK(stack, Expired, history.nested, options.multiple)
  BY <1>1 DEF FramesOK
<1>3. NoLateAnswer
  BY DEF Init, NoLateAnswer
<1>4. TimeCounted
  BY DEF Init, TimeCounted
<1> QED
  BY <1>1, <1>2, <1>3, <1>4 DEF CallsInv, Init

\* The time is over for good.
LEMMA ExpiredStays ==
  ASSUME TypeInv, options' = options,
         watch' \in { watch, StartWatch, StopWatch }
  PROVE  Expired' = Expired /\ watch'.elapsed = watch.elapsed
  BY DEF Expired, StartWatch, StopWatch, TypeInv

\* A nested call leaves a frame below it as it was but for what it has to solve.
LEMMA RestFrames ==
  ASSUME TypeInv, CallsInv, stack # << >>, NEW n \in Top.calls
  PROVE  /\ FramesOK(Rest(n), Expired, history.nested, options.multiple)
         /\ Rest(n) # << >> /\ Rest(n) \in Seq(Frame)
<1> DEFINE f == [Top EXCEPT !.calls = @ \ {n}]
<1>1. /\ Top \in Frame /\ Top = stack[1] /\ Tail(stack) \in Seq(Frame)
      /\ Top.calls \subseteq Nested
  BY TopTyped
<1>2. f \in Frame /\ f.entry = Top.entry /\ f.late = Top.late /\ f.pending = Top.pending
  BY <1>1 DEF Frame
<1>3. stack[1].late => stack[1].pending > 0
  <2>1. 1 \in 1 .. Len(stack)
    BY Popped DEF TypeInv
  <2> QED BY <2>1 DEF CallsInv, FramesOK
<1>4. Expired \in BOOLEAN /\ history.nested \in BOOLEAN /\ options.multiple \in BOOLEAN
  BY DEF Expired, TypeInv
<1>5. stack \in Seq(Frame) /\ FramesOK(stack, Expired, history.nested, options.multiple)
  BY DEF TypeInv, CallsInv
<1>6. Rest(n) = << f >> \o Tail(stack)
  BY DEF Rest
<1> HIDE DEF f
<1>7. FramesOK(<< f >> \o Tail(stack), Expired, history.nested, options.multiple)
  BY <1>1, <1>2, <1>3, <1>4, <1>5, FramesReplaced
<1>8. << f >> \o Tail(stack) # << >> /\ << f >> \o Tail(stack) \in Seq(Frame)
  BY <1>1, <1>2, Pushed
<1> QED
  BY <1>6, <1>7, <1>8

LEMMA CallsSolveNested ==
  ASSUME TypeInv, CallsInv, SolveNested PROVE CallsInv'
<1>1. stack # << >> /\ UNCHANGED << options, seeded, listening, outcome >>
  BY SolveNestedStack
<1>2. PICK n \in Top.calls :
        /\ n \in Nested
        /\ \/ /\ stack' = Rest(n) /\ thrown' = "crash"
              /\ UNCHANGED << solving, watch, key, history >>
           \/ /\ Begin(n.callee, Starts(n), ParentIn(n), Rest(n))
              /\ history' = [history EXCEPT !.nested = @ \/ n.entry = "solve"]
              /\ UNCHANGED thrown
  BY SolveNestedStack
<1>3. /\ FramesOK(Rest(n), Expired, history.nested, options.multiple)
      /\ Rest(n) # << >> /\ Rest(n) \in Seq(Frame)
  BY <1>1, <1>2, RestFrames
<1>4. NoLateAnswer'
  BY <1>1 DEF NoLateAnswer, CallsInv
<1>5. CASE stack' = Rest(n) /\ UNCHANGED << solving, watch, history >>
  <2>1. Expired' = Expired /\ TimeCounted'
    BY <1>1, <1>5 DEF Expired, TimeCounted, CallsInv
  <2>2. FramesOK(stack, Expired, history.nested, options.multiple)'
    BY <1>1, <1>3, <1>5, <2>1
  <2> QED BY <1>1, <1>3, <1>4, <1>5, <2>1, <2>2 DEF CallsInv
<1>6. CASE /\ Begin(n.callee, Starts(n), ParentIn(n), Rest(n))
           /\ history' = [history EXCEPT !.nested = @ \/ n.entry = "solve"]
  <2> DEFINE f == First(n.callee, Starts(n), ParentIn(n))
  <2>1. /\ n.callee \in Query /\ Starts(n) \in Entry /\ ParentIn(n) \in Query \cup {NoParent}
        /\ n.entry # "scope"
    BY <1>2, NestedTyped
  <2>2. /\ f \in Frame /\ f.pending > 0 /\ f.late = Expired /\ f.entry = Starts(n)
    BY <2>1, FirstTyped
  <2>3. /\ stack' = << f >> \o Rest(n)
    BY <1>3, <1>6, <2>1, BeginTyped
  <2>4. watch' = IF Timed(Starts(n)) THEN StartWatch ELSE watch
    BY <1>6 DEF Begin
  <2>5. Expired' = Expired /\ watch'.elapsed = watch.elapsed
    BY <1>1, <2>4, ExpiredStays
  <2>6. /\ history'.nested = (history.nested \/ n.entry = "solve")
        /\ history'.escaped = history.escaped /\ history'.spent = history.spent
    BY <1>6 DEF TypeInv
  <2>7. Timed(Starts(n)) => history'.nested
    BY <2>1, <2>6 DEF Timed, Starts
  <2>8. /\ Expired \in BOOLEAN /\ history.nested \in BOOLEAN /\ options.multiple \in BOOLEAN
        /\ history'.nested \in BOOLEAN /\ (history.nested => history'.nested)
    BY <2>6 DEF Expired, TypeInv
  <2> HIDE DEF f
  <2>9. FramesOK(<< f >> \o Rest(n), Expired, history'.nested, options.multiple)
    BY <1>3, <2>2, <2>7, <2>8, FramesPushed
  <2>10. FramesOK(stack, Expired, history.nested, options.multiple)'
    BY <1>1, <2>3, <2>5, <2>9
  <2>11. stack' # << >>
    BY <1>3, <2>2, <2>3, Pushed
  <2>12. solving'
    BY <1>1, <1>6 DEF Begin, CallsInv
  <2>13. ~ Expired' /\ ~ history'.nested /\ ~ history'.escaped => watch'.running
    BY <1>1, <2>4, <2>5, <2>6, <2>7, <2>8 DEF CallsInv
  <2>14. TimeCounted'
    BY <2>5, <2>6, <2>8 DEF TimeCounted, CallsInv
  <2> QED BY <1>4, <2>10, <2>11, <2>12, <2>13, <2>14 DEF CallsInv
<1> QED
  BY <1>2, <1>5, <1>6

LEMMA CallsAddTransition ==
  ASSUME TypeInv, CallsInv, AddTransition PROVE CallsInv'
<1>1. /\ stack # << >> /\ Top.pending > 0
      /\ UNCHANGED << options, solving, outcome, history >>
  BY AddTransitionStack
<1>2. NoLateAnswer'
  BY <1>1 DEF NoLateAnswer, CallsInv
<1>3. solving
  BY <1>1 DEF CallsInv
<1>4. CASE Expired /\ watch' = StopWatch /\ stack' = stack
  <2>1. Expired' = Expired /\ watch'.elapsed = watch.elapsed
    BY <1>1, <1>4, ExpiredStays
  <2>2. TimeCounted'
    BY <1>4, <2>1 DEF TimeCounted
  <2>3. FramesOK(stack, Expired, history.nested, options.multiple)'
    BY <1>1, <1>4, <2>1 DEF CallsInv
  <2> QED BY <1>1, <1>2, <1>3, <1>4, <2>1, <2>2, <2>3 DEF CallsInv
<1>5. CASE ~ Expired /\ stack' = Added /\ UNCHANGED watch
  <2>1. Expired' = Expired /\ TimeCounted'
    BY <1>1, <1>5 DEF Expired, TimeCounted, CallsInv
  <2> DEFINE c == Hits(Top)
             f == [Top EXCEPT !.added = @ + 1, !.pending = @ - 1, !.calls = c]
  <2>2. /\ Top \in Frame /\ Top = stack[1] /\ Tail(stack) \in Seq(Frame)
        /\ Top.pending \in Nat /\ Top.added \in Nat /\ Top.late \in BOOLEAN
    BY <1>1, TopTyped
  <2>3. ~ Top.late
    <3>1. 1 \in 1 .. Len(stack)
      BY <1>1, Popped DEF TypeInv
    <3> QED BY <1>5, <2>2, <3>1 DEF CallsInv, FramesOK
  <2>4. c \in SUBSET Nested
    BY DEF Hits
  <2>5. stack' = << f >> \o Tail(stack)
    BY <1>5 DEF Added
  <2> HIDE DEF c
  <2>6. f \in Frame
    <3>1. Top.added + 1 \in Nat /\ Top.pending - 1 \in Nat
      BY <1>1, <2>2
    <3> QED BY <2>2, <2>4, <3>1 DEF Frame
  <2>7. f.entry = Top.entry /\ f.late = Top.late
    BY <2>2 DEF Frame
  <2> HIDE DEF f
  <2>8. Expired \in BOOLEAN /\ history.nested \in BOOLEAN /\ options.multiple \in BOOLEAN
    BY DEF Expired, TypeInv
  <2>9. stack \in Seq(Frame) /\ FramesOK(stack, Expired, history.nested, options.multiple)
    BY DEF TypeInv, CallsInv
  <2>10. FramesOK(<< f >> \o Tail(stack), Expired, history.nested, options.multiple)
    BY <1>1, <2>2, <2>3, <2>6, <2>7, <2>8, <2>9, FramesReplaced
  <2>11. FramesOK(stack, Expired, history.nested, options.multiple)'
    BY <1>1, <2>1, <2>5, <2>10
  <2>12. stack' # << >>
    BY <2>2, <2>5, <2>6, Pushed
  <2> QED BY <1>1, <1>2, <1>3, <1>5, <2>1, <2>11, <2>12 DEF CallsInv
<1> QED
  BY <1>4, <1>5, AddTransitionStack

LEMMA CallsAddEdge ==
  ASSUME TypeInv, CallsInv, AddEdge PROVE CallsInv'
<1>1. /\ stack # << >> /\ Top.pending = 0
      /\ UNCHANGED << options, solving, watch, seeded, listening, outcome, history >>
  BY AddEdgeStack
<1> DEFINE f == [Top EXCEPT !.new = TRUE, !.pending = Permitted(Top)]
<1>2. f \in Frame /\ stack' = << f >> \o Tail(stack)
  BY AddEdgeStack DEF Edged
<1>3. Top \in Frame /\ Top = stack[1] /\ Tail(stack) \in Seq(Frame) /\ Top.late \in BOOLEAN
  BY <1>1, TopTyped
<1>4. f.entry = Top.entry /\ f.late = Top.late /\ f \in Frame
  BY <1>2, <1>3 DEF Frame
<1>5. ~ Top.late
  <2>1. 1 \in 1 .. Len(stack)
    BY <1>1, Popped DEF TypeInv
  <2> QED BY <1>1, <1>3, <2>1 DEF CallsInv, FramesOK
<1>6. stack' = << f >> \o Tail(stack)
  BY <1>2
<1> HIDE DEF f
<1>7. Expired' = Expired /\ TimeCounted' /\ NoLateAnswer'
  BY <1>1 DEF Expired, TimeCounted, NoLateAnswer, CallsInv
<1>8. Expired \in BOOLEAN /\ history.nested \in BOOLEAN /\ options.multiple \in BOOLEAN
  BY DEF Expired, TypeInv
<1>9. stack \in Seq(Frame) /\ FramesOK(stack, Expired, history.nested, options.multiple)
  BY DEF TypeInv, CallsInv
<1>10. FramesOK(<< f >> \o Tail(stack), Expired, history.nested, options.multiple)
  BY <1>1, <1>3, <1>4, <1>5, <1>8, <1>9, FramesReplaced
<1>11. FramesOK(stack, Expired, history.nested, options.multiple)'
  BY <1>1, <1>6, <1>7, <1>10
<1>12. stack' # << >>
  BY <1>3, <1>4, <1>6, Pushed
<1> QED
  BY <1>1, <1>7, <1>11, <1>12 DEF CallsInv

\* What a solve that ends leaves, for one that may return as it does
LEMMA CallsReturn ==
  ASSUME TypeInv, CallsInv, stack # << >>, NEW e \in {"complete", "timedout", "crashed"},
         Return(Top, e), Top.late => e # "complete", Top.entry # "inner",
         UNCHANGED << options, solving, seeded >>,
         history'.nested = history.nested, history'.escaped = history.escaped,
         history'.spent = history.spent
  PROVE  CallsInv'
<1>1. /\ Top \in Frame /\ Top = stack[1] /\ Top.query \in Query
  BY TopTyped
<1>2. /\ stack' = Tail(stack)
      /\ outcome' = [outcome EXCEPT ![Top.query] = [end |-> e, late |-> Top.late]]
  BY ReturnTyped
<1>3. watch' = IF Timed(Top.entry) THEN StopWatch ELSE watch
  BY DEF Return
<1>4. Expired' = Expired /\ watch'.elapsed = watch.elapsed
  BY <1>3, ExpiredStays
<1>5. TimeCounted'
  BY <1>4 DEF TimeCounted, CallsInv
<1>6. NoLateAnswer'
  <2> SUFFICES ASSUME NEW q \in Query, outcome'[q].late PROVE outcome'[q].end # "complete"
    BY DEF NoLateAnswer
  <2>1. CASE q = Top.query
    BY <1>1, <1>2, <2>1 DEF TypeInv
  <2>2. CASE q # Top.query
    <3>1. outcome'[q] = outcome[q]
      BY <1>1, <1>2, <2>2 DEF TypeInv
    <3> QED BY <3>1 DEF CallsInv, NoLateAnswer
  <2> QED BY <2>1, <2>2
<1>7. Expired \in BOOLEAN /\ history.nested \in BOOLEAN /\ options.multiple \in BOOLEAN
  BY DEF Expired, TypeInv
<1>8. stack \in Seq(Frame) /\ FramesOK(stack, Expired, history.nested, options.multiple)
  BY DEF TypeInv, CallsInv
<1>9. FramesOK(Tail(stack), Expired, history.nested, options.multiple)
  BY <1>7, <1>8, FramesPopped
<1>10. FramesOK(stack, Expired, history.nested, options.multiple)'
  BY <1>2, <1>4, <1>9
<1>11. Len(stack) \in Nat \ {0} /\ (Tail(stack) = << >> <=> Len(stack) = 1)
  BY <1>8, Popped
<1>12. CASE Len(stack) = 1
  <2>1. stack' = << >>
    BY <1>2, <1>11, <1>12
  <2>2. Timed(Top.entry) /\ (~ options.multiple => Top.entry = "solve")
    BY <1>1, <1>8, <1>12 DEF FramesOK
  <2>3. ~ watch'.running
    BY <1>3, <2>2 DEF StopWatch, TypeInv
  <2>4. ~ options.multiple => listening' = {}
    BY <2>2 DEF Return, Unregistered
  <2> QED BY <1>5, <1>6, <1>10, <2>1, <2>3, <2>4 DEF CallsInv
<1>13. CASE Len(stack) # 1
  <2>1. stack' # << >>
    BY <1>2, <1>11, <1>13
  <2>2. ~ history.nested => ~ Timed(Top.entry)
    BY <1>1, <1>8, <1>11, <1>13 DEF FramesOK
  <2>3. ~ Expired' /\ ~ history'.nested /\ ~ history'.escaped => watch'.running
    BY <1>3, <1>4, <2>2 DEF CallsInv
  <2>4. solving'
    BY DEF CallsInv
  <2> QED BY <1>5, <1>6, <1>10, <2>1, <2>3, <2>4 DEF CallsInv
<1> QED
  BY <1>12, <1>13

LEMMA CallsEnd ==
  ASSUME TypeInv, CallsInv, Complete \/ Catch \/ Unwind PROVE CallsInv'
<1>1. stack # << >> /\ UNCHANGED << options, solving, seeded >>
  BY DEF Complete, Catch, Unwind, Running
<1>2. /\ Top \in Frame /\ Top = stack[1] /\ Len(stack) \in Nat \ {0}
      /\ (Tail(stack) = << >> <=> Len(stack) = 1)
  BY <1>1, TopTyped, Popped DEF TypeInv
<1>3. Expired \in BOOLEAN /\ history.nested \in BOOLEAN /\ options.multiple \in BOOLEAN
  BY DEF Expired, TypeInv
<1>4. stack \in Seq(Frame) /\ FramesOK(stack, Expired, history.nested, options.multiple)
  BY DEF TypeInv, CallsInv
<1>5. FramesOK(Tail(stack), Expired, history.nested, options.multiple)
  BY <1>1, <1>3, <1>4, FramesPopped
<1>6. CASE Complete
  <2>1. UNCHANGED history /\ Top.pending = 0
    BY <1>6 DEF Complete
  <2>2. CASE Top.entry = "inner"
    <3>1. stack' = Tail(stack) /\ UNCHANGED << watch, listening, outcome, thrown >>
      BY <1>6, <2>2 DEF Complete
    <3>2. Expired' = Expired /\ TimeCounted' /\ NoLateAnswer'
      BY <1>1, <2>1, <3>1 DEF Expired, TimeCounted, NoLateAnswer, CallsInv
    <3>3. FramesOK(stack, Expired, history.nested, options.multiple)'
      BY <1>1, <1>5, <2>1, <3>1, <3>2
    <3>4. stack' # << >>
      BY <1>2, <1>4, <2>2, <3>1 DEF FramesOK, Timed
    <3> QED BY <1>1, <2>1, <3>1, <3>2, <3>3, <3>4 DEF CallsInv
  <2>3. CASE Top.entry # "inner"
    <3>1. Return(Top, "complete")
      BY <1>6, <2>3 DEF Complete
    <3>2. ~ Top.late
      BY <1>2, <1>4, <2>1 DEF FramesOK
    <3> QED BY <1>1, <2>1, <2>3, <3>1, <3>2, CallsReturn
  <2> QED BY <2>2, <2>3
<1>7. CASE Catch
  <2>1. PICK e \in {"timedout", "crashed"} : Return(Top, e)
    BY <1>7 DEF Catch
  <2>2. /\ history'.nested = history.nested /\ history'.escaped = history.escaped
        /\ history'.spent = history.spent
    BY <1>7 DEF Catch, TypeInv
  <2>3. Top.entry # "inner"
    BY <1>7 DEF Catch, Catches
  <2>4. e \in {"complete", "timedout", "crashed"} /\ e # "complete"
    BY <2>1
  <2> QED BY <1>1, <2>1, <2>2, <2>3, <2>4, CallsReturn
<1>8. CASE Unwind
  <2>1. stack' = Tail(stack) /\ UNCHANGED << watch, listening, outcome >>
    BY <1>8 DEF Unwind
  <2>2. /\ history'.nested = history.nested /\ history'.spent = history.spent
        /\ history'.escaped = (history.escaped \/ Len(stack) = 1)
    BY <1>8 DEF Unwind, TypeInv
  <2>3. Expired' = Expired /\ NoLateAnswer'
    BY <1>1, <2>1 DEF Expired, NoLateAnswer, CallsInv
  <2>4. TimeCounted'
    BY <2>1, <2>2, <2>3 DEF TimeCounted, CallsInv
  <2>5. FramesOK(stack, Expired, history.nested, options.multiple)'
    BY <1>1, <1>5, <2>1, <2>2, <2>3
  <2>6. stack' = << >> => history'.escaped
    BY <1>2, <2>1, <2>2
  <2>7. ~ Expired' /\ ~ history'.nested /\ ~ history'.escaped => watch'.running
    BY <1>1, <2>1, <2>2, <2>3 DEF CallsInv
  <2> QED BY <1>1, <2>3, <2>4, <2>5, <2>6, <2>7 DEF CallsInv
<1> QED
  BY <1>6, <1>7, <1>8

LEMMA CallsTick ==
  ASSUME TypeInv, CallsInv, Tick PROVE CallsInv'
<1>1. stack # << >> /\ UNCHANGED << options, solving, seeded, listening, stack, outcome >>
  BY DEF Tick, Running
<1>2. /\ history'.nested = history.nested /\ history'.escaped = history.escaped
      /\ history'.spent = history.spent + 1
  BY DEF Tick, TypeInv
<1>3. /\ watch.running => watch'.elapsed = watch.elapsed + 1
      /\ ~ watch.running => watch'.elapsed = watch.elapsed
      /\ watch'.running = watch.running
  BY DEF Tick, TypeInv
<1>4. Expired => Expired'
  BY <1>1, <1>3 DEF Expired, TypeInv
<1>5. NoLateAnswer'
  BY <1>1 DEF NoLateAnswer, CallsInv
<1>6. TimeCounted'
  <2> SUFFICES ASSUME ~ history'.nested, ~ history'.escaped, ~ Expired'
               PROVE  watch'.elapsed = history'.spent
    BY DEF TimeCounted
  <2>1. watch.running
    BY <1>1, <1>2, <1>4 DEF CallsInv
  <2>2. watch.elapsed = history.spent
    BY <1>2, <1>4 DEF CallsInv, TimeCounted
  <2> QED BY <1>2, <1>3, <2>1, <2>2
<1>7. FramesOK(stack, Expired, history.nested, options.multiple)'
  BY <1>1, <1>2, <1>4 DEF CallsInv, FramesOK
<1>8. ~ Expired' /\ ~ history'.nested /\ ~ history'.escaped => watch'.running
  BY <1>1, <1>2, <1>3, <1>4 DEF CallsInv
<1> QED
  BY <1>1, <1>5, <1>6, <1>7, <1>8 DEF CallsInv

\* A call from outside: in an instance for one query it is never a scope, since the
\* query it would be under was solved before.
LEMMA CallsCall ==
  ASSUME TypeInv, CallsInv, NEW q \in Query, NEW entry \in {"solve", "scope"},
         NEW p \in Query \cup {NoParent}, Call(q, entry, p),
         entry = "scope" => p \in seeded \/ options.multiple
  PROVE  CallsInv'
<1>1. entry \in {"solve", "scope"} /\ Call(q, entry, p)
  OBVIOUS
<1>2. /\ stack = << >> /\ ~ Rejects(entry) /\ Begin(q, entry, p, << >>)
      /\ UNCHANGED << options, seeded, listening, outcome, history >>
  BY <1>1 DEF Call, Quiet
<1> DEFINE f == First(q, entry, p)
<1>3. << >> \in Seq(Frame) /\ entry \in Entry
  BY <1>1 DEF Entry
<1>4. f \in Frame /\ f.pending > 0 /\ f.late = Expired /\ f.entry = entry
  BY <1>1, <1>3, FirstTyped
<1>5. stack' = << f >> \o << >>
  BY <1>1, <1>2, <1>3, BeginTyped
<1>6. Timed(entry)
  BY <1>1 DEF Timed
<1>7. ~ options.multiple => entry = "solve"
  BY <1>2 DEF Rejects, CallsInv
<1>8. watch' = StartWatch
  BY <1>2, <1>6 DEF Begin
<1>9. Expired' = Expired /\ watch'.elapsed = watch.elapsed /\ watch'.running
  BY <1>2, <1>8, ExpiredStays DEF StartWatch, TypeInv
<1>10. TimeCounted' /\ NoLateAnswer'
  BY <1>2, <1>9 DEF TimeCounted, NoLateAnswer, CallsInv
<1> HIDE DEF f
<1>11. Expired \in BOOLEAN /\ history.nested \in BOOLEAN /\ options.multiple \in BOOLEAN
  BY DEF Expired, TypeInv
<1>12. FramesOK(<< >>, Expired, history.nested, options.multiple)
  BY <1>2 DEF CallsInv
<1>13. FramesOK(<< f >> \o << >>, Expired, history.nested, options.multiple)
  BY <1>3, <1>4, <1>6, <1>7, <1>11, <1>12, FramesPushed
<1>14. FramesOK(stack, Expired, history.nested, options.multiple)'
  BY <1>2, <1>5, <1>9, <1>13
<1>15. stack' # << >>
  BY <1>3, <1>4, <1>5, Pushed
<1>16. solving'
  BY <1>1, <1>2 DEF Begin
<1> QED
  BY <1>9, <1>10, <1>14, <1>15, <1>16 DEF CallsInv

LEMMA CallsClient ==
  ASSUME TypeInv, CallsInv, Client PROVE CallsInv'
<1>1. PICK q \in Query, entry \in {"solve", "scope"}, p \in Query \cup {NoParent} :
        Call(q, entry, p) /\ (entry = "scope" => p \in seeded)
  BY DEF Client, TypeInv
<1> QED BY <1>1, CallsCall

\* Every step keeps the invariant.
LEMMA CallsStep == TypeInv /\ CallsInv /\ [Next]_vars => CallsInv'
<1> SUFFICES ASSUME TypeInv, CallsInv, [Next]_vars PROVE CallsInv'
  OBVIOUS
<1>1. CASE Crash
  <2>1. UNCHANGED << options, solving, watch, seeded, listening, stack, outcome, history >>
    BY <1>1 DEF Crash
  <2> QED BY <2>1 DEF CallsInv, TimeCounted, NoLateAnswer, Expired
<1>2. CASE UNCHANGED vars
  <2>1. UNCHANGED << options, solving, watch, seeded, listening, stack, outcome, history >>
    BY <1>2 DEF vars
  <2> QED BY <2>1 DEF CallsInv, TimeCounted, NoLateAnswer, Expired
<1> QED
  BY <1>1, <1>2, CallsSolveNested, CallsAddTransition, CallsAddEdge, CallsEnd, CallsTick,
     CallsClient
  DEF Next, Engine, Environment

LEMMA Calls == Spec => []CallsInv
<1> QED
  BY TypeInit, TypeStep, CallsInit, CallsStep, PTL DEF Spec

-----------------------------------------------------------------------------
\* When the time is over no query completes any more, whichever solve has stopped
\* the watch (checkTimeout in WeightedBoomerang).
THEOREM LateNeverAnswered == Spec => []NoLateAnswer
<1>1. CallsInv => NoLateAnswer
  BY DEF CallsInv
<1> QED BY <1>1, Calls, PTL

\* When the last solve has returned the watch stands, and an instance for one query
\* keeps no listeners: whatever the nesting, time-outs and caught crashes.
THEOREM CleanedUp == Spec => []CleanUp
<1>1. CallsInv => CleanUp
  BY DEF CallsInv, CleanUp, Quiet
<1> QED BY <1>1, Calls, PTL

\* The watch that all solves share counts the time spent in them exactly once, for
\* any nesting of untimed queries in timed ones.
THEOREM TimeCountedOnce == Spec => []TimeCounted
<1>1. CallsInv => TimeCounted
  BY DEF CallsInv
<1> QED BY <1>1, Calls, PTL

-----------------------------------------------------------------------------
(* Whole results.  What the automata lack of a query is what the calls in progress
   have still to add to them: it is zero when no call is left.  A call that is cut
   breaks the balance - for the query whose flows it was to add, and only if what it
   added was new; of two calls for the same query the inner one adds nothing new,
   unless a listener of the flows has called it. *)

\* What the call x still owes the automata of q
Owes(x, q) == IF x.query = q /\ x.new THEN x.pending ELSE 0

\* n is what the calls of the stack owe q: g sums it up from below.
Sums(s, q, n) ==
  \E g \in [1 .. Len(s) + 1 -> Nat] :
    /\ g[1] = n /\ g[Len(s) + 1] = 0
    /\ \A i \in 1 .. Len(s) : g[i] = g[i + 1] + Owes(s[i], q)

LEMMA OwesTyped ==
  ASSUME NEW x \in Frame, NEW q PROVE Owes(x, q) \in Nat
  BY DEF Owes, Frame

LEMMA SumsTyped ==
  ASSUME NEW s \in Seq(Frame), NEW q, NEW n, Sums(s, q, n) PROVE n \in Nat
<1>1. PICK g \in [1 .. Len(s) + 1 -> Nat] : g[1] = n
  BY DEF Sums
<1>2. 1 \in 1 .. Len(s) + 1
  OBVIOUS
<1> QED BY <1>1, <1>2

LEMMA SumsEmpty ==
  ASSUME NEW q, NEW n, Sums(<< >>, q, n) PROVE n = 0
<1>1. Len(<< >>) = 0
  OBVIOUS
<1> QED BY <1>1 DEF Sums

\* Calls for other queries owe q nothing.
LEMMA SumsNothing ==
  ASSUME NEW s \in Seq(Frame), NEW q, \A i \in 1 .. Len(s) : s[i].query # q
  PROVE  Sums(s, q, 0)
<1> DEFINE g == [i \in 1 .. Len(s) + 1 |-> 0]
<1>1. Len(s) \in Nat /\ g \in [1 .. Len(s) + 1 -> Nat]
  OBVIOUS
<1>2. g[1] = 0 /\ g[Len(s) + 1] = 0
  BY <1>1
<1>3. ASSUME NEW i \in 1 .. Len(s) PROVE g[i] = g[i + 1] + Owes(s[i], q)
  BY <1>1 DEF Owes
<1> HIDE DEF g
<1> QED BY <1>1, <1>2, <1>3 DEF Sums

LEMMA SumsPushed ==
  ASSUME NEW s \in Seq(Frame), NEW x \in Frame, NEW q, NEW n, Sums(s, q, n)
  PROVE  Sums(<< x >> \o s, q, n + Owes(x, q))
<1>1. PICK g \in [1 .. Len(s) + 1 -> Nat] :
        /\ g[1] = n /\ g[Len(s) + 1] = 0
        /\ \A i \in 1 .. Len(s) : g[i] = g[i + 1] + Owes(s[i], q)
  BY DEF Sums
<1>2. n \in Nat /\ Owes(x, q) \in Nat /\ Len(s) \in Nat
  BY SumsTyped, OwesTyped
<1> DEFINE r == << x >> \o s
           h == [i \in 1 .. Len(s) + 2 |-> IF i = 1 THEN n + Owes(x, q) ELSE g[i - 1]]
<1>3. /\ Len(r) = Len(s) + 1
      /\ \A i \in 1 .. Len(s) + 1 : r[i] = IF i = 1 THEN x ELSE s[i - 1]
  BY Pushed
<1>4. h \in [1 .. Len(s) + 2 -> Nat]
  BY <1>2
<1>5. /\ h[1] = n + Owes(x, q) /\ \A i \in 1 .. Len(s) + 1 : h[i + 1] = g[i]
  BY <1>2
<1> HIDE DEF h, r
<1>6. h[Len(s) + 2] = 0
  <2>1. Len(s) + 1 \in 1 .. Len(s) + 1 /\ (Len(s) + 1) + 1 = Len(s) + 2
    BY <1>2
  <2>2. h[(Len(s) + 1) + 1] = g[Len(s) + 1]
    BY <1>5, <2>1
  <2> QED BY <1>1, <2>1, <2>2
<1>7. ASSUME NEW i \in 1 .. Len(s) + 1 PROVE h[i] = h[i + 1] + Owes(r[i], q)
  <2>1. CASE i = 1
    <3>1. h[i + 1] = n /\ r[i] = x
      BY <1>1, <1>2, <1>3, <1>5, <2>1
    <3> QED BY <1>5, <2>1, <3>1
  <2>2. CASE i # 1
    <3>1. i - 1 \in 1 .. Len(s) /\ i - 1 \in 1 .. Len(s) + 1 /\ (i - 1) + 1 = i
      BY <1>2, <2>2
    <3>2. h[i] = g[i - 1] /\ h[i + 1] = g[i] /\ r[i] = s[i - 1]
      <4>1. h[(i - 1) + 1] = g[i - 1]
        BY <1>5, <3>1
      <4> QED BY <1>3, <1>5, <2>2, <3>1, <4>1
    <3>3. g[i - 1] = g[(i - 1) + 1] + Owes(s[i - 1], q)
      BY <1>1, <3>1
    <3> QED BY <3>1, <3>2, <3>3
  <2> QED BY <2>1, <2>2
<1>8. Len(r) + 1 = Len(s) + 2
  BY <1>2, <1>3
<1>9. Sums(r, q, n + Owes(x, q))
  BY <1>3, <1>4, <1>5, <1>6, <1>7, <1>8 DEF Sums
<1> QED BY <1>9 DEF r

LEMMA SumsPopped ==
  ASSUME NEW s \in Seq(Frame), s # << >>, NEW q, NEW n, Sums(s, q, n)
  PROVE  \E m \in Nat : n = m + Owes(s[1], q) /\ Sums(Tail(s), q, m)
<1>1. PICK g \in [1 .. Len(s) + 1 -> Nat] :
        /\ g[1] = n /\ g[Len(s) + 1] = 0
        /\ \A i \in 1 .. Len(s) : g[i] = g[i + 1] + Owes(s[i], q)
  BY DEF Sums
<1> DEFINE t == Tail(s)
           h == [i \in 1 .. Len(s) |-> g[i + 1]]
<1>2. /\ Len(s) \in Nat \ {0} /\ Len(t) = Len(s) - 1
      /\ \A i \in 1 .. Len(s) - 1 : t[i] = s[i + 1]
  BY Popped
<1>3. h \in [1 .. Len(s) -> Nat]
  BY <1>2
<1>4. \A i \in 1 .. Len(s) : h[i] = g[i + 1]
  BY <1>2
<1> HIDE DEF h, t
<1>5. 1 \in 1 .. Len(s) /\ Len(s) \in 1 .. Len(s) /\ Len(t) + 1 = Len(s)
  BY <1>2
<1>6. h[1] \in Nat /\ n = h[1] + Owes(s[1], q)
  <2>1. g[1] = g[1 + 1] + Owes(s[1], q) /\ h[1] = g[1 + 1]
    BY <1>1, <1>4, <1>5
  <2> QED BY <1>1, <1>3, <1>5, <2>1
<1>7. h[Len(s)] = 0
  BY <1>1, <1>4, <1>5
<1>8. ASSUME NEW i \in 1 .. Len(t) PROVE h[i] = h[i + 1] + Owes(t[i], q)
  <2>1. i + 1 \in 1 .. Len(s) /\ i \in 1 .. Len(s) /\ i \in 1 .. Len(s) - 1
    BY <1>2
  <2>2. g[i + 1] = g[(i + 1) + 1] + Owes(s[i + 1], q)
    BY <1>1, <2>1
  <2>3. h[i] = g[i + 1] /\ h[i + 1] = g[(i + 1) + 1] /\ t[i] = s[i + 1]
    BY <1>2, <1>4, <2>1
  <2> QED BY <2>2, <2>3
<1>9. Sums(t, q, h[1])
  BY <1>3, <1>5, <1>7, <1>8 DEF Sums
<1> QED BY <1>6, <1>9 DEF t

LEMMA SumsReplaced ==
  ASSUME NEW s \in Seq(Frame), s # << >>, NEW x \in Frame, NEW q, NEW n, Sums(s, q, n)
  PROVE  \E m \in Nat : n = m + Owes(s[1], q) /\ Sums(<< x >> \o Tail(s), q, m + Owes(x, q))
<1>1. PICK m \in Nat : n = m + Owes(s[1], q) /\ Sums(Tail(s), q, m)
  BY SumsPopped
<1>2. Tail(s) \in Seq(Frame)
  BY Popped
<1>3. Sums(<< x >> \o Tail(s), q, m + Owes(x, q))
  BY <1>1, <1>2, SumsPushed
<1> QED BY <1>1, <1>3

-----------------------------------------------------------------------------
(* Whole results: the frames *)

\* A call that has added nothing yet, for a query the automata do not know
Fresh(x) == x.new /\ x.calls = {} /\ x.pending = Work[x.query]
\* A call above another for its query
Settled(x) == ~ x.new \/ x.query \in Inners

FramesWhole(s, known) ==
  \A i \in 1 .. Len(s) :
    /\ s[i].query \in known \/ (i = 1 /\ Fresh(s[i]))
    /\ s[i].entry = "inner" => s[i].query \in Inners
    /\ s[i].entry = "scope" => i = Len(s)
    /\ \A j \in i + 1 .. Len(s) : s[j].query = s[i].query => Settled(s[i])

LEMMA WholePopped ==
  ASSUME NEW s \in Seq(Frame), s # << >>, NEW known, FramesWhole(s, known)
  PROVE  /\ FramesWhole(Tail(s), known)
         /\ \A i \in 1 .. Len(Tail(s)) : Tail(s)[i].query \in known
<1>1. /\ Len(s) \in Nat \ {0} /\ Len(Tail(s)) = Len(s) - 1
      /\ \A i \in 1 .. Len(s) - 1 : Tail(s)[i] = s[i + 1]
  BY Popped
<1> DEFINE t == Tail(s)
<1>2. \A i \in 1 .. Len(t) : t[i] = s[i + 1] /\ i + 1 \in 1 .. Len(s)
  BY <1>1
<1>5. Len(t) = Len(s) - 1 /\ Len(s) \in Nat
  BY <1>1
<1> HIDE DEF t
<1>3. ASSUME NEW i \in 1 .. Len(t)
      PROVE  /\ t[i].query \in known
             /\ t[i].entry = "inner" => t[i].query \in Inners
             /\ t[i].entry = "scope" => i = Len(t)
             /\ \A j \in i + 1 .. Len(t) : t[j].query = t[i].query => Settled(t[i])
  <2>1. t[i] = s[i + 1] /\ i + 1 \in 1 .. Len(s) /\ i + 1 # 1
    BY <1>2
  <2>2. /\ t[i].query \in known
        /\ t[i].entry = "inner" => t[i].query \in Inners
        /\ t[i].entry = "scope" => i + 1 = Len(s)
    BY <2>1 DEF FramesWhole
  <2>3. ASSUME NEW j \in i + 1 .. Len(t), t[j].query = t[i].query PROVE Settled(t[i])
    <3>1. j \in 1 .. Len(t) /\ j + 1 \in (i + 1) + 1 .. Len(s)
      BY <1>5
    <3>2. t[j] = s[j + 1]
      BY <1>2, <3>1
    <3> QED BY <2>1, <2>3, <3>1, <3>2 DEF FramesWhole
  <2>4. i + 1 = Len(s) => i = Len(t)
    BY <1>5
  <2> QED BY <2>2, <2>3, <2>4
<1>4. FramesWhole(t, known)
  BY <1>3 DEF FramesWhole
<1> QED BY <1>3, <1>4 DEF t

\* The top frame is changed, but not its query and not its entry.
LEMMA WholeReplaced ==
  ASSUME NEW s \in Seq(Frame), s # << >>, NEW known, FramesWhole(s, known),
         NEW more, known \subseteq more, NEW x \in Frame,
         x.query = s[1].query, x.entry = s[1].entry, x.query \in more \/ Fresh(x),
         Settled(s[1]) => Settled(x) \/ x.entry = "scope"
  PROVE  FramesWhole(<< x >> \o Tail(s), more)
<1> DEFINE r == << x >> \o Tail(s)
<1>1. /\ Len(r) = Len(s)
      /\ \A i \in 1 .. Len(s) : r[i] = IF i = 1 THEN x ELSE s[i]
  BY Replaced
<1>2. Len(s) \in Nat \ {0} /\ 1 \in 1 .. Len(s)
  BY Popped
<1> HIDE DEF r
<1>3. \A i \in 1 .. Len(s) : r[i].query = s[i].query /\ r[i].entry = s[i].entry
  BY <1>1
<1>4. ASSUME NEW i \in 1 .. Len(s)
      PROVE  /\ r[i].query \in more \/ (i = 1 /\ Fresh(r[i]))
             /\ r[i].entry = "inner" => r[i].query \in Inners
             /\ r[i].entry = "scope" => i = Len(s)
             /\ \A j \in i + 1 .. Len(s) : r[j].query = r[i].query => Settled(r[i])
  <2>1. r[i].query \in more \/ (i = 1 /\ Fresh(r[i]))
    <3>1. CASE i = 1
      BY <1>1, <3>1
    <3>2. CASE i # 1
      BY <1>3, <3>2 DEF FramesWhole
    <3> QED BY <3>1, <3>2
  <2>2. /\ r[i].entry = "inner" => r[i].query \in Inners
        /\ r[i].entry = "scope" => i = Len(s)
    BY <1>3 DEF FramesWhole
  <2>3. ASSUME NEW j \in i + 1 .. Len(s), r[j].query = r[i].query PROVE Settled(r[i])
    <3>1. j \in 1 .. Len(s) /\ i # Len(s)
      OBVIOUS
    <3>2. Settled(s[i])
      BY <1>3, <2>3, <3>1 DEF FramesWhole
    <3>3. CASE i = 1
      BY <1>1, <2>2, <3>1, <3>2, <3>3
    <3>4. CASE i # 1
      BY <1>1, <3>2, <3>4
    <3> QED BY <3>3, <3>4
  <2> QED BY <2>1, <2>2, <2>3
<1>5. FramesWhole(r, more)
  BY <1>1, <1>4 DEF FramesWhole
<1> QED BY <1>5 DEF r

\* A frame on top of others that have begun
LEMMA WholePushed ==
  ASSUME NEW s \in Seq(Frame), NEW known, FramesWhole(s, known),
         s # << >> => s[1].query \in known, NEW x \in Frame,
         x.query \in known \/ Fresh(x), x.query \in known => ~ x.new,
         x.entry = "inner" => x.query \in Inners, x.entry = "scope" => s = << >>
  PROVE  FramesWhole(<< x >> \o s, known)
<1> DEFINE r == << x >> \o s
<1>1. /\ Len(r) = Len(s) + 1 /\ Len(s) \in Nat
      /\ \A i \in 1 .. Len(s) + 1 : r[i] = IF i = 1 THEN x ELSE s[i - 1]
  BY Pushed
<1>2. s = << >> <=> Len(s) = 0
  OBVIOUS
<1> HIDE DEF r
<1>3. \A i \in 1 .. Len(s) : s[i].query \in known
  BY <1>2 DEF FramesWhole
<1>4. ASSUME NEW i \in 1 .. Len(s) + 1
      PROVE  /\ r[i].query \in known \/ (i = 1 /\ Fresh(r[i]))
             /\ r[i].entry = "inner" => r[i].query \in Inners
             /\ r[i].entry = "scope" => i = Len(s) + 1
             /\ \A j \in i + 1 .. Len(s) + 1 : r[j].query = r[i].query => Settled(r[i])
  <2>1. CASE i = 1
    <3>1. r[i] = x
      BY <1>1, <2>1
    <3>2. ASSUME NEW j \in i + 1 .. Len(s) + 1, r[j].query = r[i].query PROVE Settled(r[i])
      <4>1. r[j] = s[j - 1] /\ j - 1 \in 1 .. Len(s)
        BY <1>1, <2>1
      <4> QED BY <1>3, <3>1, <3>2, <4>1 DEF Settled
    <3>3. x.entry = "scope" => i = Len(s) + 1
      BY <1>2, <2>1
    <3> QED BY <2>1, <3>1, <3>2, <3>3
  <2>2. CASE i # 1
    <3>1. r[i] = s[i - 1] /\ i - 1 \in 1 .. Len(s)
      BY <1>1, <2>2
    <3>2. ASSUME NEW j \in i + 1 .. Len(s) + 1, r[j].query = r[i].query PROVE Settled(r[i])
      <4>1. r[j] = s[j - 1] /\ j - 1 \in (i - 1) + 1 .. Len(s)
        BY <1>1, <2>2
      <4> QED BY <3>1, <3>2, <4>1 DEF FramesWhole
    <3>3. /\ r[i].entry = "inner" => r[i].query \in Inners
          /\ r[i].entry = "scope" => i - 1 = Len(s)
      BY <3>1 DEF FramesWhole
    <3> QED BY <1>1, <1>3, <3>1, <3>2, <3>3
  <2> QED BY <2>1, <2>2
<1>5. FramesWhole(r, known)
  BY <1>1, <1>4 DEF FramesWhole
<1> QED BY <1>5 DEF r

-----------------------------------------------------------------------------
(* Whole results: the invariant *)

\* The balance of q holds: there is time, or no call for q can be cut any more that
\* began when there was - one in progress keeps the others from what is new.
Kept(q, s) ==
  \/ ~ Expired
  \/ /\ q \notin Inners
     /\ \/ \E i \in 1 .. Len(s) : s[i].query = q /\ ~ s[i].late
        \/ outcome[q].end = "complete" /\ \A i \in 1 .. Len(s) : s[i].query # q

WholeStack(s) ==
  /\ FramesWhole(s, seeded)
  /\ \A q \in seeded \ history.broken : Kept(q, s) => Sums(s, q, left[q])

WholeInv ==
  /\ DOMAIN left = Query
  /\ thrown = "timeout" => Expired
  /\ \A q \in Query : q \notin seeded => left[q] = Work[q] /\ outcome[q].end # "complete"
  /\ WholeStack(stack)

LEMMA WholeInit == Init => WholeInv
<1> SUFFICES ASSUME Init PROVE WholeInv
  OBVIOUS
<1>1. /\ left = Work /\ seeded = {} /\ thrown = "nothing" /\ Len(stack) = 0
      /\ \A q \in Query : outcome[q].end # "complete"
  BY DEF Init
<1>2. WholeStack(stack)
  BY <1>1 DEF WholeStack, FramesWhole
<1> QED BY <1>1, <1>2, LifecycleAssumption DEF WholeInv

\* What a nested call leaves below it
LEMMA RestWhole ==
  ASSUME TypeInv, WholeInv, stack # << >>, NEW n \in Top.calls
  PROVE  WholeStack(Rest(n)) /\ Rest(n) # << >> /\ Rest(n)[1].query \in seeded
<1> DEFINE x == [Top EXCEPT !.calls = @ \ {n}]
<1>1. /\ Top \in Frame /\ Top = stack[1] /\ Tail(stack) \in Seq(Frame)
      /\ Top.calls \subseteq Nested
  BY TopTyped
<1>2. /\ x \in Frame /\ x.query = Top.query /\ x.entry = Top.entry /\ x.late = Top.late
      /\ x.pending = Top.pending /\ x.new = Top.new
  BY <1>1 DEF Frame
<1>3. stack \in Seq(Frame) /\ FramesWhole(stack, seeded)
  BY DEF TypeInv, WholeInv, WholeStack
<1>4. Rest(n) = << x >> \o Tail(stack)
  BY DEF Rest
<1>5. 1 \in 1 .. Len(stack)
  BY <1>3, Popped
<1>6. Top.query \in seeded
  BY <1>1, <1>3, <1>5 DEF FramesWhole, Fresh
<1> HIDE DEF x
<1>7. /\ Rest(n) # << >> /\ Len(Rest(n)) = Len(stack)
      /\ \A i \in 1 .. Len(stack) : Rest(n)[i] = IF i = 1 THEN x ELSE stack[i]
  BY <1>2, <1>3, <1>4, Replaced
<1>8. Settled(stack[1]) => Settled(x)
  BY <1>1, <1>2 DEF Settled
<1>9. FramesWhole(Rest(n), seeded)
  BY <1>1, <1>2, <1>3, <1>4, <1>6, <1>8, WholeReplaced
<1>10. ASSUME NEW q \in seeded \ history.broken, Kept(q, Rest(n))
       PROVE  Sums(Rest(n), q, left[q])
  <2>1. \A i \in 1 .. Len(stack) :
          Rest(n)[i].query = stack[i].query /\ Rest(n)[i].late = stack[i].late
    BY <1>1, <1>2, <1>7
  <2>2. Kept(q, stack)
    BY <1>7, <1>10, <2>1 DEF Kept
  <2>3. Sums(stack, q, left[q])
    BY <2>2 DEF WholeInv, WholeStack
  <2>4. PICK m \in Nat : left[q] = m + Owes(stack[1], q) /\ Sums(Rest(n), q, m + Owes(x, q))
    BY <1>2, <1>3, <1>4, <2>3, SumsReplaced
  <2>5. Owes(x, q) = Owes(stack[1], q)
    BY <1>1, <1>2 DEF Owes
  <2> QED BY <2>4, <2>5
<1> QED BY <1>1, <1>2, <1>5, <1>6, <1>7, <1>9, <1>10 DEF WholeStack

\* A call that begins owes what the automata lack of a query that is new to them, and
\* nothing of one they know.
LEMMA BeginWhole ==
  ASSUME TypeInv, NEW s \in Seq(Frame), WholeStack(s), s # << >> => s[1].query \in seeded,
         NEW q \in Query, NEW entry \in Entry, NEW parent \in Query \cup {NoParent},
         entry = "inner" => q \in Inners, entry = "scope" => s = << >>
  PROVE  WholeStack(<< First(q, entry, parent) >> \o s)
<1> DEFINE x == First(q, entry, parent)
           r == << x >> \o s
<1>1. /\ x \in Frame /\ x.query = q /\ x.entry = entry /\ x.late = Expired
      /\ x.new = (q \notin seeded) /\ (q \notin seeded => Fresh(x))
  BY FirstTyped DEF First, Fresh
<1> HIDE DEF x
<1>2. FramesWhole(r, seeded)
  BY <1>1, WholePushed DEF WholeStack
<1>3. ASSUME NEW p \in seeded \ history.broken, Kept(p, r) PROVE Sums(r, p, left[p])
  <2>1. Owes(x, p) = 0
    BY <1>1 DEF Owes
  <2>2. /\ Len(r) = Len(s) + 1 /\ Len(s) \in Nat
        /\ \A i \in 1 .. Len(s) + 1 : r[i] = IF i = 1 THEN x ELSE s[i - 1]
    BY <1>1, Pushed
  <2>3. Kept(p, s)
    <3>1. CASE ~ Expired
      BY <3>1 DEF Kept
    <3>2. CASE /\ Expired /\ p \notin Inners
               /\ \E i \in 1 .. Len(r) : r[i].query = p /\ ~ r[i].late
      <4>1. PICK i \in 1 .. Len(r) : r[i].query = p /\ ~ r[i].late
        BY <3>2
      <4>2. i # 1
        BY <1>1, <2>2, <3>2, <4>1
      <4>3. i - 1 \in 1 .. Len(s) /\ r[i] = s[i - 1]
        BY <2>2, <4>2
      <4> QED BY <3>2, <4>1, <4>3 DEF Kept
    <3>3. CASE /\ p \notin Inners /\ outcome[p].end = "complete"
               /\ \A i \in 1 .. Len(r) : r[i].query # p
      <4>1. ASSUME NEW i \in 1 .. Len(s) PROVE s[i].query # p
        <5>1. i + 1 \in 1 .. Len(r) /\ r[i + 1] = s[i]
          BY <2>2
        <5> QED BY <3>3, <5>1
      <4> QED BY <3>3, <4>1 DEF Kept
    <3> HIDE DEF r
    <3> QED BY <1>3, <3>1, <3>2, <3>3 DEF Kept
  <2>4. Sums(s, p, left[p])
    BY <2>3 DEF WholeStack
  <2>5. Sums(r, p, left[p] + Owes(x, p)) /\ left[p] \in Nat
    BY <1>1, <2>4, SumsPushed, SumsTyped
  <2> HIDE DEF r
  <2> QED BY <2>1, <2>5
<1> QED BY <1>2, <1>3 DEF WholeStack, x, r

LEMMA WholeSolveNested ==
  ASSUME TypeInv, WholeInv, SolveNested PROVE WholeInv'
<1>1. stack # << >> /\ UNCHANGED << options, seeded, left, outcome >>
  BY SolveNestedStack DEF SolveNested
<1>2. PICK n \in Top.calls :
        /\ n \in Nested /\ Rest(n) \in Seq(Frame)
        /\ \/ /\ stack' = Rest(n) /\ thrown' = "crash" /\ UNCHANGED << watch, history >>
           \/ /\ Begin(n.callee, Starts(n), ParentIn(n), Rest(n))
              /\ history' = [history EXCEPT !.nested = @ \/ n.entry = "solve"]
              /\ UNCHANGED thrown
  BY SolveNestedStack
<1>3. WholeStack(Rest(n)) /\ Rest(n) # << >> /\ Rest(n)[1].query \in seeded
  BY <1>1, RestWhole
<1>4. /\ Expired' = Expired /\ history'.broken = history.broken /\ WholeStack(stack')
      /\ thrown' = "timeout" => thrown = "timeout"
  <2>1. CASE stack' = Rest(n) /\ thrown' = "crash" /\ UNCHANGED << watch, history >>
    BY <1>1, <1>3, <2>1 DEF Expired
  <2>2. CASE /\ Begin(n.callee, Starts(n), ParentIn(n), Rest(n))
             /\ history' = [history EXCEPT !.nested = @ \/ n.entry = "solve"]
             /\ UNCHANGED thrown
    <3>1. /\ n.callee \in Query /\ Starts(n) \in Entry /\ ParentIn(n) \in Query \cup {NoParent}
          /\ Starts(n) # "scope"
      BY <1>2, NestedTyped DEF Starts
    <3>2. Starts(n) = "inner" => n.callee \in Inners
      <4>1. n.query \in Query
        BY <1>2, NestedTyped
      <4> QED BY <1>2, <4>1 DEF Inners, Inner, Starts
    <3>3. stack' = << First(n.callee, Starts(n), ParentIn(n)) >> \o Rest(n)
      BY <1>2, <2>2, <3>1, BeginTyped
    <3>4. WholeStack(stack')
      BY <1>2, <1>3, <3>1, <3>2, <3>3, BeginWhole
    <3>5. watch' \in {watch, StartWatch}
      BY <2>2 DEF Begin
    <3>6. Expired' = Expired /\ history'.broken = history.broken
      BY <1>1, <2>2, <3>5, ExpiredStays DEF TypeInv
    <3> QED BY <2>2, <3>4, <3>6
  <2> QED BY <1>2, <2>1, <2>2
<1>5. WholeStack(stack)'
  BY <1>1, <1>4 DEF WholeStack, Kept
<1> QED BY <1>1, <1>4, <1>5 DEF WholeInv

\* A transition that is added, or the time is over.
LEMMA WholeAddTransition ==
  ASSUME TypeInv, WholeInv, AddTransition PROVE WholeInv'
<1>1. stack # << >> /\ Top.pending > 0 /\ UNCHANGED << options, outcome, history >>
  BY AddTransitionStack
<1>2. CASE /\ Expired /\ watch' = StopWatch /\ stack' = stack /\ thrown' = "timeout"
           /\ UNCHANGED << seeded, left >>
  <2>1. Expired' = Expired
    BY <1>1, <1>2, ExpiredStays
  <2>2. WholeStack(stack)'
    BY <1>1, <1>2, <2>1 DEF WholeInv, WholeStack, Kept
  <2> QED BY <1>1, <1>2, <2>1, <2>2 DEF WholeInv
<1>3. CASE /\ ~ Expired /\ stack' = Added /\ UNCHANGED << watch, thrown >>
           /\ seeded' = seeded \cup {Top.query}
           /\ left' = IF Top.new THEN [left EXCEPT ![Top.query] = @ - 1] ELSE left
  <2> DEFINE x == [Top EXCEPT !.added = @ + 1, !.pending = @ - 1, !.calls = Hits(Top)]
  <2>1. /\ Top \in Frame /\ Top = stack[1] /\ Tail(stack) \in Seq(Frame)
        /\ Top.query \in Query /\ Top.pending \in Nat /\ stack \in Seq(Frame)
    BY <1>1, TopTyped DEF TypeInv
  <2>2. x \in Frame /\ stack' = << x >> \o Tail(stack)
    BY <1>3, AddTransitionStack DEF Added
  <2>3. /\ x.query = Top.query /\ x.entry = Top.entry /\ x.new = Top.new
        /\ x.pending = Top.pending - 1
    BY <2>1 DEF Frame
  <2> HIDE DEF x
  <2>4. Expired' = Expired /\ ~ Expired
    BY <1>1, <1>3 DEF Expired
  <2>5. FramesWhole(stack, seeded)
    BY DEF WholeInv, WholeStack
  <2>6. FramesWhole(stack', seeded')
    <3>1. seeded \subseteq seeded' /\ x.query \in seeded'
      BY <1>3, <2>3
    <3>2. Settled(stack[1]) => Settled(x)
      BY <2>1, <2>3 DEF Settled
    <3> QED BY <1>1, <2>1, <2>2, <2>3, <2>5, <3>1, <3>2, WholeReplaced
  <2>7. Top.query \in seeded \/ (Top.new /\ Top.pending = Work[Top.query])
    <3>1. 1 \in 1 .. Len(stack)
      BY <1>1, <2>1, Popped
    <3> QED BY <2>1, <2>5, <3>1 DEF FramesWhole, Fresh
  <2>8. ASSUME NEW q \in seeded' \ history.broken PROVE Sums(stack', q, left'[q])
    <3>1. q \in Query /\ DOMAIN left = Query
      BY <1>3, <2>1 DEF TypeInv, WholeInv
    <3>2. left'[q] = IF q = Top.query /\ Top.new THEN left[q] - 1 ELSE left[q]
      BY <1>3, <3>1
    <3>3. CASE q \in seeded
      <4>1. Sums(stack, q, left[q])
        BY <2>4, <2>8, <3>3 DEF WholeInv, WholeStack, Kept
      <4>2. PICK m \in Nat : left[q] = m + Owes(stack[1], q) /\ Sums(stack', q, m + Owes(x, q))
        BY <1>1, <2>1, <2>2, <4>1, SumsReplaced
      <4>3. left'[q] = m + Owes(x, q)
        <5>1. CASE q = Top.query /\ Top.new
          <6>1. Owes(stack[1], q) = Top.pending /\ Owes(x, q) = Top.pending - 1
            BY <2>1, <2>3, <5>1 DEF Owes
          <6> QED BY <1>1, <2>1, <3>2, <4>2, <5>1, <6>1
        <5>2. CASE ~ (q = Top.query /\ Top.new)
          <6>1. Owes(stack[1], q) = 0 /\ Owes(x, q) = 0
            BY <2>1, <2>3, <5>2 DEF Owes
          <6> QED BY <3>2, <4>2, <5>2, <6>1
        <5> QED BY <5>1, <5>2
      <4> QED BY <4>2, <4>3
    <3>4. CASE q \notin seeded
      <4>1. q = Top.query /\ Top.new /\ Top.pending = Work[q] /\ left[q] = Work[q]
        BY <1>3, <2>7, <2>8, <3>1, <3>4 DEF WholeInv
      <4>2. \A i \in 1 .. Len(Tail(stack)) : Tail(stack)[i].query # q
        BY <1>1, <2>1, <2>5, <3>4, WholePopped
      <4>3. Sums(Tail(stack), q, 0)
        BY <2>1, <4>2, SumsNothing
      <4>4. Sums(stack', q, 0 + Owes(x, q)) /\ Owes(x, q) \in Nat
        BY <2>1, <2>2, <4>3, SumsPushed, OwesTyped
      <4>5. Owes(x, q) = left'[q]
        BY <2>3, <3>2, <4>1 DEF Owes
      <4> QED BY <4>4, <4>5
    <3> QED BY <3>3, <3>4
  <2>9. WholeStack(stack)'
    BY <1>1, <2>6, <2>8 DEF WholeStack
  <2>10. DOMAIN left' = Query
    BY <1>3 DEF WholeInv
  <2>11. ASSUME NEW q \in Query, q \notin seeded'
         PROVE  left'[q] = Work[q] /\ outcome'[q].end # "complete"
    BY <1>1, <1>3, <2>11 DEF WholeInv
  <2>12. thrown' = "timeout" => Expired'
    BY <1>3, <2>4 DEF WholeInv
  <2> QED BY <2>9, <2>10, <2>11, <2>12 DEF WholeInv
<1> QED
  BY <1>2, <1>3, AddTransitionStack DEF AddTransition, CheckTimeout, Added

\* An edge: what it permits is new, whatever the call has added before.
LEMMA WholeAddEdge ==
  ASSUME TypeInv, WholeInv, AddEdge PROVE WholeInv'
<1>1. /\ stack # << >> /\ Top.pending = 0
      /\ UNCHANGED << options, watch, seeded, thrown, outcome, history >>
  BY AddEdgeStack
<1> DEFINE more == Permitted(Top)
           x == [Top EXCEPT !.new = TRUE, !.pending = more]
<1>2. x \in Frame /\ stack' = << x >> \o Tail(stack)
  BY AddEdgeStack DEF Edged
<1>3. /\ Top \in Frame /\ Top = stack[1] /\ Top.query \in Query /\ stack \in Seq(Frame)
      /\ Top.entry \in Entry
  BY <1>1, TopTyped DEF TypeInv
<1>4. left' = [left EXCEPT ![Top.query] = @ + more] /\ Top.entry \in {"scope", "inner"}
  BY DEF AddEdge, InGraph
<1>5. /\ x.query = Top.query /\ x.entry = Top.entry /\ x.new /\ x.pending = more
      /\ x.late = Top.late
  BY <1>3 DEF Frame
<1>6. more \in Nat
  BY <1>3, LifecycleAssumption DEF Permitted
<1> HIDE DEF x, more
<1>7. Expired' = Expired
  BY <1>1 DEF Expired
<1>8. FramesWhole(stack, seeded)
  BY DEF WholeInv, WholeStack
<1>9. 1 \in 1 .. Len(stack)
  BY <1>1, <1>3, Popped
<1>10. Top.query \in seeded
  BY <1>1, <1>3, <1>8, <1>9, LifecycleAssumption DEF FramesWhole, Fresh
<1>11. FramesWhole(stack', seeded)
  <2>1. Top.entry = "inner" => Top.query \in Inners
    BY <1>3, <1>8, <1>9 DEF FramesWhole
  <2>2. Settled(x) \/ x.entry = "scope"
    BY <1>4, <1>5, <2>1 DEF Settled
  <2> QED BY <1>1, <1>2, <1>3, <1>5, <1>8, <1>10, <2>2, WholeReplaced
<1>12. ASSUME NEW q \in seeded \ history.broken, Kept(q, stack') PROVE Sums(stack', q, left'[q])
  <2>1. /\ Len(stack') = Len(stack)
        /\ \A i \in 1 .. Len(stack) : stack'[i] = IF i = 1 THEN x ELSE stack[i]
    BY <1>1, <1>2, <1>3, Replaced
  <2>2. \A i \in 1 .. Len(stack) :
          stack'[i].query = stack[i].query /\ stack'[i].late = stack[i].late
    BY <1>3, <1>5, <2>1
  <2>3. Kept(q, stack)
    BY <1>12, <2>1, <2>2 DEF Kept
  <2>4. Sums(stack, q, left[q])
    BY <2>3 DEF WholeInv, WholeStack
  <2>5. PICK m \in Nat : left[q] = m + Owes(stack[1], q) /\ Sums(stack', q, m + Owes(x, q))
    BY <1>1, <1>2, <1>3, <2>4, SumsReplaced
  <2>6. Owes(stack[1], q) = 0
    BY <1>1, <1>3 DEF Owes
  <2>7. left'[q] = IF q = Top.query THEN left[q] + more ELSE left[q]
    BY <1>4 DEF WholeInv, TypeInv
  <2>8. Owes(x, q) = IF q = Top.query THEN more ELSE 0
    BY <1>5 DEF Owes
  <2>9. left'[q] = m + Owes(x, q)
    BY <1>6, <2>5, <2>6, <2>7, <2>8
  <2> QED BY <2>5, <2>9
<1>13. WholeStack(stack)'
  BY <1>1, <1>7, <1>11, <1>12 DEF WholeStack, Kept
<1>14. DOMAIN left' = Query
  BY <1>4 DEF WholeInv
<1>15. ASSUME NEW q \in Query, q \notin seeded'
       PROVE  left'[q] = Work[q] /\ outcome'[q].end # "complete"
  BY <1>1, <1>4, <1>10, <1>15 DEF WholeInv
<1> QED BY <1>1, <1>7, <1>13, <1>14, <1>15 DEF WholeInv

\* A solve that ends and leaves the balance: its query is whole, or broken, or it may
\* be cut again, or there was another call for it below, which adds what is new.
LEMMA WholeEnd ==
  ASSUME TypeInv, CallsInv, WholeInv, Complete \/ Catch \/ Unwind PROVE WholeInv'
<1>1. /\ stack # << >> /\ UNCHANGED << options, seeded, left >> /\ stack' = Tail(stack)
      /\ thrown' \in {thrown, "nothing"}
  BY DEF Complete, Catch, Unwind, Running, Return
<1>2. /\ Top \in Frame /\ Top.query \in Query /\ stack \in Seq(Frame)
      /\ Len(stack) \in Nat \ {0} /\ Len(Tail(stack)) = Len(stack) - 1
      /\ \A i \in 1 .. Len(stack) - 1 : Tail(stack)[i] = stack[i + 1]
  BY <1>1, TopTyped, Popped DEF TypeInv
<1>3. Top = stack[1] /\ 1 \in 1 .. Len(stack) /\ Top.query \in Query
  BY <1>1, <1>2, TopTyped
<1>4. Expired' = Expired
  <2>1. watch' \in {watch, StartWatch, StopWatch}
    BY DEF Complete, Catch, Unwind, Return
  <2> QED BY <1>1, <2>1, ExpiredStays
<1>5. FramesWhole(stack, seeded)
  BY DEF WholeInv, WholeStack
<1>6. /\ FramesWhole(stack', seeded)
      /\ \A i \in 1 .. Len(stack') : stack'[i].query \in seeded
  BY <1>1, <1>2, <1>5, WholePopped
<1>7. /\ history.broken \subseteq history'.broken
      /\ \/ Complete /\ history' = history
         \/ ~ Complete /\ thrown = "timeout"
         \/ ~ Complete /\ Top.query \in history'.broken
  <2>1. CASE Complete
    BY <2>1 DEF Complete
  <2>2. CASE ~ Complete
    <3>1. thrown \in {"timeout", "crash"} /\ history'.broken = Broken
      BY <2>2 DEF Catch, Unwind, TypeInv
    <3> QED BY <2>2, <3>1 DEF Broken
  <2> QED BY <2>1, <2>2
<1>8. \A q \in Query : q # Top.query => outcome'[q] = outcome[q]
  BY DEF Complete, Catch, Unwind, Return, TypeInv
<1>9. ASSUME Complete
      PROVE  /\ Top.pending = 0 /\ ~ Top.late /\ Top.query \in seeded
             /\ Top.entry = "inner" => outcome' = outcome
  <2>1. Top.pending = 0 /\ (Top.entry = "inner" => outcome' = outcome)
    BY <1>9 DEF Complete
  <2>2. ~ Top.late
    BY <1>3, <2>1 DEF CallsInv, FramesOK
  <2>3. Work[Top.query] # 0
    BY <1>3, LifecycleAssumption
  <2>4. Top.query \in seeded
    BY <1>3, <1>5, <2>1, <2>3 DEF FramesWhole, Fresh
  <2> QED BY <2>1, <2>2, <2>4
<1>10. ASSUME ~ Complete
       PROVE  \/ outcome'[Top.query].end # "complete"
              \/ /\ outcome' = outcome
                 /\ thrown = "timeout" => Top.entry = "inner"
  <2>1. CASE Catch
    <3>1. PICK e \in {"timedout", "crashed"} : Return(Top, e)
      BY <2>1 DEF Catch
    <3> QED BY <1>3, <3>1 DEF Return, TypeInv
  <2>2. CASE Unwind
    BY <2>2 DEF Unwind, Catches
  <2> QED BY <1>10, <2>1, <2>2
<1>11. Top.entry = "inner" => Top.query \in Inners
  BY <1>3, <1>5 DEF FramesWhole
<1>12. ASSUME NEW q \in seeded \ history'.broken, Kept(q, stack)'
       PROVE  Sums(stack', q, left[q])
  <2>1. q \in Query /\ q \notin history.broken
    BY <1>7, <1>12 DEF TypeInv
  <2>2. ASSUME NEW i \in 1 .. Len(stack'), stack'[i].query = q
        PROVE  i + 1 \in 1 + 1 .. Len(stack) /\ stack'[i] = stack[i + 1]
    BY <1>1, <1>2
  <2>3. Kept(q, stack) /\ (q = Top.query /\ Top.new => Top.pending = 0)
    <3>1. CASE ~ Expired
      <4>1. q = Top.query => Complete
        BY <1>7, <1>12, <3>1 DEF WholeInv
      <4> QED BY <1>9, <3>1, <4>1 DEF Kept
    <3>2. CASE /\ q \notin Inners
               /\ \E i \in 1 .. Len(stack') : stack'[i].query = q /\ ~ stack'[i].late
      <4>1. PICK i \in 1 .. Len(stack') : stack'[i].query = q /\ ~ stack'[i].late
        BY <3>2
      <4>2. i + 1 \in 1 + 1 .. Len(stack) /\ stack'[i] = stack[i + 1]
        BY <2>2, <4>1
      <4>3. q = Top.query => ~ Top.new
        BY <1>3, <1>5, <3>2, <4>1, <4>2 DEF FramesWhole, Settled
      <4>4. i + 1 \in 1 .. Len(stack)
        BY <4>2
      <4> QED BY <3>2, <4>1, <4>2, <4>3, <4>4 DEF Kept
    <3>3. CASE /\ q \notin Inners /\ outcome'[q].end = "complete"
               /\ \A i \in 1 .. Len(stack') : stack'[i].query # q
      <4>1. CASE q = Top.query
        <5>1. Complete
          BY <1>7, <1>10, <1>11, <1>12, <3>3, <4>1
        <5> QED BY <1>3, <1>9, <3>3, <4>1, <5>1 DEF Kept
      <4>2. CASE q # Top.query
        <5>1. ASSUME NEW i \in 1 .. Len(stack) PROVE stack[i].query # q
          <6>1. CASE i = 1
            BY <1>3, <4>2, <6>1
          <6>2. CASE i # 1
            <7>1. i - 1 \in 1 .. Len(stack') /\ stack'[i - 1] = stack[i]
              BY <1>1, <1>2, <6>2
            <7> QED BY <3>3, <7>1
          <6> QED BY <6>1, <6>2
        <5> QED BY <1>8, <2>1, <3>3, <4>2, <5>1 DEF Kept
      <4> QED BY <4>1, <4>2
    <3> QED BY <1>4, <1>12, <3>1, <3>2, <3>3 DEF Kept
  <2>4. Sums(stack, q, left[q])
    BY <1>12, <2>1, <2>3 DEF WholeInv, WholeStack
  <2>5. PICK m \in Nat : left[q] = m + Owes(stack[1], q) /\ Sums(stack', q, m)
    BY <1>1, <1>2, <2>4, SumsPopped
  <2>6. Owes(stack[1], q) = 0
    BY <1>3, <2>3 DEF Owes
  <2> QED BY <2>5, <2>6
<1>13. WholeStack(stack)'
  BY <1>1, <1>6, <1>12 DEF WholeStack
<1>14. ASSUME NEW q \in Query, q \notin seeded PROVE outcome'[q].end # "complete"
  <2>1. outcome[q].end # "complete"
    BY <1>14 DEF WholeInv
  <2>2. CASE q # Top.query
    BY <1>8, <2>1, <2>2
  <2>3. CASE q = Top.query
    BY <1>9, <1>10, <1>14, <2>1, <2>3
  <2> QED BY <2>2, <2>3
<1> QED BY <1>1, <1>4, <1>13, <1>14 DEF WholeInv

LEMMA WholeEnvironment ==
  ASSUME TypeInv, WholeInv, Environment \/ UNCHANGED vars PROVE WholeInv'
<1>1. /\ UNCHANGED << options, seeded, left, stack, outcome >>
      /\ history'.broken = history.broken
      /\ thrown' = "timeout" => thrown = "timeout"
  BY DEF Environment, Crash, Tick, vars, TypeInv
<1>2. Expired => Expired'
  BY DEF Environment, Crash, Tick, vars, Expired, TypeInv
<1>3. \A q : Kept(q, stack)' => Kept(q, stack)
  BY <1>1, <1>2 DEF Kept
<1>4. WholeStack(stack)'
  BY <1>1, <1>3 DEF WholeInv, WholeStack
<1> QED BY <1>1, <1>2, <1>4 DEF WholeInv

\* A call from outside
LEMMA WholeCall ==
  ASSUME TypeInv, WholeInv, NEW q \in Query, NEW entry \in {"solve", "scope"},
         NEW p \in Query \cup {NoParent}, Call(q, entry, p)
  PROVE  WholeInv'
<1>1. /\ stack = << >> /\ Begin(q, entry, p, << >>)
      /\ UNCHANGED << options, seeded, left, thrown, outcome, history >>
  BY DEF Call, Quiet
<1>2. << >> \in Seq(Frame) /\ entry \in Entry /\ entry # "inner"
  BY DEF Entry
<1>3. stack' = << First(q, entry, p) >> \o << >>
  BY <1>1, <1>2, BeginTyped
<1>4. WholeStack(<< >>)
  BY <1>1 DEF WholeInv
<1>5. WholeStack(stack')
  BY <1>2, <1>3, <1>4, BeginWhole
<1>6. watch' \in {watch, StartWatch}
  BY <1>1 DEF Begin
<1>7. Expired' = Expired
  BY <1>1, <1>6, ExpiredStays
<1>8. WholeStack(stack)'
  BY <1>1, <1>5, <1>7 DEF WholeStack, Kept
<1> QED BY <1>1, <1>7, <1>8 DEF WholeInv

LEMMA WholeStep == TypeInv /\ CallsInv /\ WholeInv /\ [Next]_vars => WholeInv'
<1> SUFFICES ASSUME TypeInv, CallsInv, WholeInv, [Next]_vars PROVE WholeInv'
  OBVIOUS
<1>1. CASE Client
  <2>1. PICK q \in Query, entry \in {"solve", "scope"}, p \in Query \cup {NoParent} :
          Call(q, entry, p)
    BY <1>1 DEF Client, TypeInv
  <2> QED BY <2>1, WholeCall
<1> QED
  BY <1>1, WholeSolveNested, WholeAddTransition, WholeAddEdge, WholeEnd, WholeEnvironment
  DEF Next, Engine

LEMMA Whole == TypeInv /\ WholeInv => AnsweredWhole
<1> SUFFICES ASSUME TypeInv, WholeInv PROVE AnsweredWhole
  OBVIOUS
<1> SUFFICES ASSUME stack = << >>, NEW q \in Query \ history.broken
             PROVE  /\ q \in seeded /\ ~ Expired => left[q] = 0
                    /\ q \notin Inners /\ outcome[q].end = "complete" => left[q] = 0
  BY Zenon DEF AnsweredWhole, Quiet
<1>1. Len(stack) = 0
  OBVIOUS
<1>2. q \notin seeded => outcome[q].end # "complete"
  BY DEF WholeInv
<1>3. ASSUME q \in seeded, Kept(q, stack) PROVE left[q] = 0
  <2>1. Sums(<< >>, q, left[q])
    BY <1>3 DEF WholeInv, WholeStack
  <2> QED BY <2>1, SumsEmpty
<1> QED BY <1>1, <1>2, <1>3 DEF Kept

-----------------------------------------------------------------------------
\* When no solve is in progress nothing is lost of any query, and what has completed
\* is the whole result - however queries are nested, repeated, cut or put under new
\* parents in between, but for those a crash went through, and after the time-out for
\* those that are solved in the middle of another's flows.
THEOREM AnswersAreWhole == Spec => []AnsweredWhole
<1>1. TypeInv /\ CallsInv /\ WholeInv /\ [Next]_vars => (TypeInv /\ CallsInv /\ WholeInv)'
  BY TypeStep, CallsStep, WholeStep
<1>2. Init => TypeInv /\ CallsInv /\ WholeInv
  BY TypeInit, CallsInit, WholeInit
<1> QED BY <1>1, <1>2, Whole, PTL DEF Spec

-----------------------------------------------------------------------------
(* GuidedAnalysis: what the worklist asks of the solver, and the graph that *)
(* is left.  A query enters the graph as a root or, when its solve ends,   *)
(* with an edge; one that ends otherwise leaves a trace: the time is over, *)
(* or a crash went through a query.                                        *)

\* The queries of the graph
Rooted == roots \cup { e[2] : e \in edges }
Excused == Expired \/ history.broken # {}

\* What holds of a frame
FrameInGraph(x) ==
  /\ x.entry \in {"solve", "resolve"} => x.query \in roots
  /\ x.entry = "scope" => x.parent \in Rooted \/ x.late \/ history.broken # {}

Solved == { x.query : x \in Elems(stack) }

GraphInv ==
  /\ \A q \in seeded : q \in Rooted \cup Solved \/ Excused
  /\ \A x \in Elems(stack) : FrameInGraph(x)
  /\ \A e \in edges : e[3] = "scope" => e[1] \in Rooted \/ history.broken # {}
  /\ thrown = "timeout" => Expired

\* The worklist: every query it will be asked to solve under another has a parent
\* in the graph, or no query will get an edge any more.
Item == [query : Query, parent : Query \cup {NoParent}]
Table == [of : Query, raises : SUBSET Query]
WorkInv ==
  /\ phase # "idle" => options.multiple
  /\ queue \in Seq(Item)
  /\ phase \in {"solving", "reading"} => current \in Query
  /\ phase = "solving" => current \in Rooted \cup Solved \/ Excused
  /\ \A t \in tables : t \in Table /\ (t.of \in Rooted \/ Excused)
  /\ \A x \in Elems(queue) : x.parent # NoParent => x.parent \in Rooted \/ Excused

\* What the frames in the graph rest on does not go away.
GraphGrows ==
  /\ roots \subseteq roots' /\ edges \subseteq edges'
  /\ history.broken \subseteq history.broken' /\ (Expired => Expired')

LEMMA GraphGrowsFacts ==
  ASSUME GraphGrows
  PROVE  /\ Rooted \subseteq Rooted' /\ (Excused => Excused')
         /\ \A x : FrameInGraph(x) => FrameInGraph(x)'
<1>1. Rooted \subseteq Rooted'
  BY DEF GraphGrows, Rooted
<1>2. Excused => Excused'
  BY DEF GraphGrows, Excused
<1>3. ASSUME NEW x, FrameInGraph(x) PROVE FrameInGraph(x)'
  BY <1>1, <1>3 DEF GraphGrows, FrameInGraph
<1> QED BY <1>1, <1>2, <1>3

\* A step that changes the graph in no other way than to grow it, and replaces the
\* top frame by one of the same call or drops one whose query is in the graph.
LEMMA GraphKept ==
  ASSUME GraphInv, GraphGrows, edges' = edges, thrown' = "timeout" => Expired',
         NEW F, \A x \in F : FrameInGraph(x)',
         Elems(stack') \subseteq Elems(stack) \cup F,
         \A q \in seeded' : q \in seeded \/ q \in Rooted' \cup Solved' \/ Excused',
         \A q \in Solved : q \in Rooted' \cup Solved' \/ Excused'
  PROVE  GraphInv'
<1>1. \A q \in seeded' : q \in Rooted' \cup Solved' \/ Excused'
  BY GraphGrowsFacts DEF GraphInv
<1>2. \A x \in Elems(stack') : FrameInGraph(x)'
  BY GraphGrowsFacts DEF GraphInv
<1>3. \A e \in edges' : e[3] = "scope" => e[1] \in Rooted' \/ history'.broken # {}
  BY GraphGrowsFacts DEF GraphInv, GraphGrows
<1>4. thrown' = "timeout" => Expired'
  OBVIOUS
<1> QED BY <1>1, <1>2, <1>3, <1>4 DEF GraphInv

\* The elements of a stack with one more on top
LEMMA ElemsPushed ==
  ASSUME NEW S, NEW s \in Seq(S), NEW f \in S
  PROVE  Elems(<< f >> \o s) = {f} \cup Elems(s)
<1> DEFINE e == << f >>
<1>1. e \in Seq(S) /\ Elems(e) = {f}
  BY DEF Elems
<1> HIDE DEF e
<1>2. Elems(e \o s) = Elems(e) \cup Elems(s)
  BY <1>1, ConcatElems
<1> QED BY <1>1, <1>2 DEF e

\* The elements of a stack whose top is replaced
LEMMA ElemsReplaced ==
  ASSUME NEW S, NEW s \in Seq(S), s # << >>, NEW f \in S
  PROVE  /\ Elems(<< f >> \o Tail(s)) = {f} \cup Elems(Tail(s))
         /\ Elems(s) = {s[1]} \cup Elems(Tail(s)) /\ Tail(s) \in Seq(S)
<1>1. Tail(s) \in Seq(S) /\ << f >> \in Seq(S) /\ Head(s) = s[1]
  BY Popped
<1>2. Elems(<< f >> \o Tail(s)) = {f} \cup Elems(Tail(s))
  BY <1>1, ElemsPushed
<1>3. Elems(s) = {Head(s)} \cup Elems(Tail(s))
  BY TopOrBelow
<1> QED BY <1>1, <1>2, <1>3

LEMMA GraphCall ==
  ASSUME TypeInv, GraphInv, NEW q \in Query, NEW entry \in {"solve", "scope"},
         NEW p \in Query \cup {NoParent}, Call(q, entry, p),
         entry = "scope" => p \in Rooted \/ Excused
  PROVE  GraphInv' /\ GraphGrows /\ q \in Solved'
<1> DEFINE f == First(q, entry, p)
<1>1. /\ Begin(q, entry, p, << >>) /\ << >> \in Seq(Frame) /\ entry \in Entry /\ stack = << >>
      /\ thrown = "nothing"
  BY DEF Call, Entry, Quiet
<1>2. stack' = << f >> \o << >> /\ f \in Frame
  BY <1>1, BeginTyped, FirstTyped
<1>3. f.entry = entry /\ f.query = q /\ f.parent = p /\ f.late = Expired
  BY DEF First
<1> HIDE DEF f
<1>4. Elems(stack') = {f} /\ Elems(stack) = {}
  <2>1. Elems(<< >>) = {}
    BY DEF Elems
  <2>2. Elems(<< f >> \o << >>) = {f} \cup Elems(<< >>)
    BY <1>1, <1>2, ElemsPushed
  <2> QED BY <1>1, <1>2, <2>1, <2>2
<1>5. /\ UNCHANGED << options, seeded, edges, thrown, history >>
      /\ roots' = IF entry = "solve" THEN roots \cup {q} ELSE roots
      /\ watch' \in {watch, StartWatch}
  BY <1>1 DEF Call, Begin
<1>6. Expired' = Expired
  BY <1>5, ExpiredStays
<1>7. GraphGrows
  BY <1>5, <1>6 DEF GraphGrows
<1>8. Rooted \subseteq Rooted'
  BY <1>7, GraphGrowsFacts
<1>9. ASSUME NEW x \in {f} PROVE FrameInGraph(x)'
  <2>1. x.entry = entry /\ x.query = q /\ x.parent = p /\ x.late = Expired
    BY <1>3, <1>9
  <2> QED BY <1>5, <1>8, <2>1 DEF FrameInGraph, Excused
<1>10. Solved = {} /\ Solved' = {q}
  BY <1>3, <1>4 DEF Solved
<1>11. thrown' # "timeout" /\ edges' = edges /\ seeded' = seeded
  BY <1>1, <1>5
<1>12. GraphInv'
  BY <1>4, <1>7, <1>9, <1>10, <1>11, GraphKept
<1> QED BY <1>7, <1>10, <1>12

\* The top frame goes on: the frame g is of the same call.
LEMMA GraphSame ==
  ASSUME TypeInv, GraphInv, stack # << >>, NEW g \in Frame,
         g.query = Top.query, g.entry = Top.entry, g.parent = Top.parent, g.late = Top.late
  PROVE  LET r == << g >> \o Tail(stack)
         IN  /\ r \in Seq(Frame)
             /\ { x.query : x \in Elems(r) } = Solved
             /\ \A x \in Elems(r) : FrameInGraph(x)
             /\ Top.query \in Solved
<1> DEFINE r == << g >> \o Tail(stack)
<1>1. /\ Elems(r) = {g} \cup Elems(Tail(stack)) /\ Elems(stack) = {Top} \cup Elems(Tail(stack))
      /\ r \in Seq(Frame)
  BY ElemsReplaced, TopTyped, Pushed DEF TypeInv
<1> HIDE DEF r
<1>2. { x.query : x \in Elems(r) } = Solved /\ Top.query \in Solved
  BY <1>1 DEF Solved
<1>3. FrameInGraph(g)
  BY <1>1 DEF GraphInv, FrameInGraph
<1> QED BY <1>1, <1>2, <1>3 DEF GraphInv, r

LEMMA GraphSolveNested ==
  ASSUME TypeInv, GraphInv, SolveNested
  PROVE  GraphInv' /\ GraphGrows /\ Solved \subseteq Solved'
<1>1. stack # << >> /\ UNCHANGED << options, seeded, edges >> /\ thrown = "nothing"
  BY DEF SolveNested, Running
<1>2. PICK n \in Top.calls :
        \/ /\ stack' = Rest(n) /\ thrown' = "crash"
           /\ UNCHANGED << solving, watch, roots, key, history >>
        \/ /\ Begin(n.callee, Starts(n), ParentIn(n), Rest(n))
           /\ history' = [history EXCEPT !.nested = @ \/ n.entry = "solve"]
           /\ UNCHANGED thrown
  BY DEF SolveNested, Rest
<1> DEFINE g == [Top EXCEPT !.calls = @ \ {n}]
<1>3. /\ g \in Frame /\ n \in Nested /\ Rest(n) \in Seq(Frame)
  BY <1>1, <1>2, RestTyped
<1>4. g.query = Top.query /\ g.entry = Top.entry /\ g.parent = Top.parent /\ g.late = Top.late
  BY <1>1, TopTyped DEF Frame
<1>5. Rest(n) = << g >> \o Tail(stack)
  BY DEF Rest
<1> HIDE DEF g
<1>6. /\ { x.query : x \in Elems(Rest(n)) } = Solved
      /\ \A x \in Elems(Rest(n)) : FrameInGraph(x)
  BY <1>1, <1>3, <1>4, <1>5, GraphSame
<1>7. CASE /\ stack' = Rest(n) /\ thrown' = "crash"
           /\ UNCHANGED << watch, roots, history >>
  <2>1. Expired' = Expired /\ GraphGrows
    BY <1>1, <1>7 DEF Expired, GraphGrows
  <2>2. Solved' = Solved
    BY <1>6, <1>7 DEF Solved
  <2>3. \A x \in Elems(stack') : FrameInGraph(x)'
    BY <1>6, <1>7, <2>1, GraphGrowsFacts
  <2>4. GraphInv'
    BY <1>1, <1>7, <2>1, <2>2, <2>3, GraphGrowsFacts DEF GraphInv, GraphGrows
  <2> QED BY <2>1, <2>2, <2>4
<1>8. CASE /\ Begin(n.callee, Starts(n), ParentIn(n), Rest(n))
           /\ history' = [history EXCEPT !.nested = @ \/ n.entry = "solve"]
           /\ UNCHANGED thrown
  <2> DEFINE f == First(n.callee, Starts(n), ParentIn(n))
  <2>1. /\ n.callee \in Query /\ Starts(n) \in Entry /\ ParentIn(n) \in Query \cup {NoParent}
        /\ n.entry # "scope" /\ Starts(n) = n.entry
    BY <1>3, NestedTyped DEF Starts
  <2>2. /\ stack' = << f >> \o Rest(n) /\ f \in Frame
        /\ f.entry = n.entry /\ f.query = n.callee
    BY <1>3, <1>8, <2>1, BeginTyped, FirstTyped DEF First
  <2> HIDE DEF f
  <2>3. Elems(stack') = {f} \cup Elems(Rest(n))
    BY <1>3, <2>2, ElemsPushed
  <2>4. /\ roots' = IF n.entry \in {"solve", "resolve"} THEN roots \cup {n.callee} ELSE roots
        /\ watch' \in {watch, StartWatch} /\ history'.broken = history.broken
    BY <1>8, <2>1 DEF Begin, TypeInv
  <2>5. Expired' = Expired
    BY <1>1, <2>4, ExpiredStays
  <2>6. GraphGrows
    BY <1>1, <2>4, <2>5 DEF GraphGrows
  <2>7. Solved' = Solved \cup {n.callee}
    BY <1>6, <2>2, <2>3 DEF Solved
  <2>8. ASSUME NEW x \in Elems(stack') PROVE FrameInGraph(x)'
    <3>1. CASE x = f
      <4>1. x.entry = n.entry /\ x.query = n.callee
        BY <2>2, <3>1
      <4> QED BY <2>1, <2>4, <4>1 DEF FrameInGraph
    <3>2. CASE x \in Elems(Rest(n))
      BY <1>6, <2>6, <3>2, GraphGrowsFacts
    <3> QED BY <2>3, <2>8, <3>1, <3>2
  <2>9. GraphInv'
    BY <1>1, <1>8, <2>4, <2>6, <2>7, <2>8, GraphGrowsFacts DEF GraphInv, GraphGrows
  <2> QED BY <2>6, <2>7, <2>9
<1> QED BY <1>2, <1>7, <1>8

LEMMA GraphAddTransition ==
  ASSUME TypeInv, GraphInv, AddTransition
  PROVE  GraphInv' /\ GraphGrows /\ Solved \subseteq Solved'
<1>1. /\ stack # << >> /\ UNCHANGED << options, roots, edges, history >>
      /\ \/ Expired /\ watch' = StopWatch /\ stack' = stack /\ thrown' = "timeout"
            /\ seeded' = seeded
         \/ ~ Expired /\ stack' = Added /\ UNCHANGED << watch, thrown >>
            /\ seeded' = seeded \cup {Top.query}
      /\ Added \in Seq(Frame)
  BY AddTransitionStack DEF graphVars
<1>2. Expired' = Expired
  BY <1>1, ExpiredStays DEF Expired
<1>3. GraphGrows
  BY <1>1, <1>2 DEF GraphGrows
<1>4. CASE Expired /\ stack' = stack /\ seeded' = seeded
  <2>1. Solved' = Solved
    BY <1>4 DEF Solved
  <2>2. \A x \in Elems(stack') : FrameInGraph(x)'
    BY <1>3, <1>4, GraphGrowsFacts DEF GraphInv
  <2>3. GraphInv'
    BY <1>1, <1>2, <1>3, <1>4, <2>1, <2>2, GraphGrowsFacts DEF GraphInv, GraphGrows
  <2> QED BY <1>3, <2>1, <2>3
<1>5. CASE ~ Expired /\ stack' = Added /\ thrown' = thrown
           /\ seeded' = seeded \cup {Top.query}
  <2> DEFINE g == [Top EXCEPT !.added = @ + 1, !.pending = @ - 1, !.calls = Hits(Top)]
  <2>1. Added = << g >> \o Tail(stack)
    BY DEF Added
  <2>2. Top \in Frame /\ Tail(stack) \in Seq(Frame)
    BY <1>1, TopTyped
  <2>3. g \in Frame
    BY AddTransitionStack
  <2>4. g.query = Top.query /\ g.entry = Top.entry /\ g.parent = Top.parent /\ g.late = Top.late
    BY <2>2 DEF Frame
  <2> HIDE DEF g
  <2>5. /\ { x.query : x \in Elems(Added) } = Solved
        /\ \A x \in Elems(Added) : FrameInGraph(x)
        /\ Top.query \in Solved
    BY <1>1, <2>1, <2>3, <2>4, GraphSame
  <2>6. Solved' = Solved
    BY <1>5, <2>5 DEF Solved
  <2>7. \A x \in Elems(stack') : FrameInGraph(x)'
    BY <1>3, <1>5, <2>5, GraphGrowsFacts
  <2>8. GraphInv'
    BY <1>1, <1>2, <1>3, <1>5, <2>5, <2>6, <2>7, GraphGrowsFacts DEF GraphInv, GraphGrows
  <2> QED BY <1>3, <2>6, <2>8
<1> QED BY <1>1, <1>4, <1>5

\* An edge is added for a query that was not late, so its parent is in the graph.
LEMMA GraphAddEdge ==
  ASSUME TypeInv, CallsInv, GraphInv, AddEdge
  PROVE  GraphInv' /\ GraphGrows /\ Solved \subseteq Solved'
<1> DEFINE g == [Top EXCEPT !.new = TRUE, !.pending = Permitted(Top)]
<1>1. /\ stack # << >> /\ Top.pending = 0 /\ g \in Frame
      /\ stack' = << g >> \o Tail(stack)
      /\ UNCHANGED << options, watch, seeded, thrown, history >>
  BY AddEdgeStack DEF Edged
<1>2. edges' = edges \cup {Edge(Top)} /\ roots' = roots
  BY DEF AddEdge
<1>3. Expired' = Expired
  BY <1>1 DEF Expired
<1>4. GraphGrows
  BY <1>1, <1>2, <1>3 DEF GraphGrows
<1>5. Top \in Frame /\ Top = stack[1] /\ Len(stack) \in Nat \ {0} /\ stack \in Seq(Frame)
  BY <1>1, TopTyped, Popped DEF TypeInv
<1>6. g.query = Top.query /\ g.entry = Top.entry /\ g.parent = Top.parent /\ g.late = Top.late
  BY <1>5 DEF Frame
<1> HIDE DEF g
<1>7. /\ { x.query : x \in Elems(stack') } = Solved
      /\ \A x \in Elems(stack') : FrameInGraph(x)
  BY <1>1, <1>6, GraphSame
<1>8. Solved' = Solved
  BY <1>7 DEF Solved
<1>9. \A x \in Elems(stack') : FrameInGraph(x)'
  BY <1>4, <1>7, GraphGrowsFacts
<1>10. Top.entry = "scope" => Top.parent \in Rooted \/ history.broken # {}
  <2>1. ~ Top.late
    BY <1>1, <1>5 DEF CallsInv, FramesOK
  <2>2. Top \in Elems(stack)
    BY <1>5 DEF Elems
  <2> QED BY <2>1, <2>2 DEF GraphInv, FrameInGraph
<1>11. ASSUME NEW e \in edges', e[3] = "scope"
       PROVE  e[1] \in Rooted' \/ history'.broken # {}
  <2>1. CASE e \in edges
    BY <1>4, <1>11, <2>1, GraphGrowsFacts DEF GraphInv, GraphGrows
  <2>2. CASE e = Edge(Top)
    <3>1. e[1] = Top.parent /\ e[3] = Top.entry
      BY <2>2 DEF Edge
    <3> QED BY <1>4, <1>10, <1>11, <3>1, GraphGrowsFacts DEF GraphGrows
  <2> QED BY <1>2, <1>11, <2>1, <2>2
<1>12. \A q \in seeded' : q \in Rooted' \cup Solved' \/ Excused'
  BY <1>1, <1>4, <1>8, GraphGrowsFacts DEF GraphInv
<1>13. thrown' = "timeout" => Expired'
  BY <1>1, <1>3 DEF GraphInv
<1>14. GraphInv'
  BY <1>9, <1>11, <1>12, <1>13 DEF GraphInv
<1> QED BY <1>4, <1>8, <1>14

\* A query whose solve ends is in the graph, or the time is over, or a crash went
\* through it.
LEMMA GraphEnd ==
  ASSUME TypeInv, GraphInv, Complete \/ Catch \/ Unwind
  PROVE  /\ GraphInv' /\ GraphGrows
         /\ \A q \in Solved : q \in Rooted' \cup Solved' \/ Excused'
<1>1. /\ stack # << >> /\ stack' = Tail(stack)
      /\ UNCHANGED << options, roots, edges, seeded >>
      /\ watch' \in {watch, StopWatch}
  BY DEF Complete, Catch, Unwind, Running, Return, graphVars
<1>2. Top \in Frame /\ Top = stack[1] /\ Tail(stack) \in Seq(Frame) /\ Top.query \in Query
  BY <1>1, TopTyped
<1>3. Elems(stack) = {Top} \cup Elems(stack')
  BY <1>1, <1>2, ElemsReplaced DEF TypeInv
<1>4. Expired' = Expired
  BY <1>1, ExpiredStays
<1>5. /\ history.broken \subseteq history'.broken /\ (thrown' = "timeout" => thrown = "timeout")
      /\ Complete \/ thrown = "timeout" \/ Top.query \in history'.broken
  <2>1. CASE Complete
    BY <2>1 DEF Complete, Return
  <2>2. CASE Catch
    <3>1. history'.broken = Broken /\ thrown' = "nothing" /\ thrown \in {"timeout", "crash"}
      BY <2>2 DEF Catch, Return, TypeInv
    <3> QED BY <3>1 DEF Broken
  <2>3. CASE Unwind
    <3>1. history'.broken = Broken /\ thrown' \in {"nothing", thrown}
          /\ thrown \in {"timeout", "crash"}
      BY <2>3 DEF Unwind, TypeInv
    <3> QED BY <3>1 DEF Broken
  <2> QED BY <2>1, <2>2, <2>3
<1>6. GraphGrows
  BY <1>1, <1>4, <1>5 DEF GraphGrows
<1>7. Top.query \in Rooted' \/ Excused'
  <2>1. CASE Complete
    <3>1. InGraph(Top) /\ FrameInGraph(Top)
      BY <1>3, <2>1 DEF Complete, GraphInv
    <3>2. CASE Top.entry \in {"scope", "inner"}
      <4>1. Edge(Top) \in edges' /\ Edge(Top)[2] = Top.query
        BY <1>1, <3>1, <3>2 DEF InGraph, Edge
      <4> QED BY <4>1 DEF Rooted
    <3>3. CASE Top.entry \in {"solve", "resolve"}
      BY <1>1, <3>1, <3>3 DEF FrameInGraph, Rooted
    <3> QED BY <1>2, <3>2, <3>3 DEF Frame, Entry
  <2>2. CASE thrown = "timeout"
    BY <1>4, <2>2 DEF GraphInv, Excused
  <2>3. CASE Top.query \in history'.broken
    BY <2>3 DEF Excused
  <2> QED BY <1>5, <2>1, <2>2, <2>3
<1>8. \A q \in Solved : q \in Rooted' \cup Solved' \/ Excused'
  BY <1>3, <1>7 DEF Solved
<1>9. \A q \in seeded' : q \in seeded \/ q \in Rooted' \cup Solved' \/ Excused'
  BY <1>1
<1>10. thrown' = "timeout" => Expired'
  BY <1>4, <1>5 DEF GraphInv
<1>11. GraphInv'
  <2> DEFINE F == {}
  <2>1. Elems(stack') \subseteq Elems(stack) \cup F /\ \A x \in F : FrameInGraph(x)'
    BY <1>3
  <2> HIDE DEF F
  <2> QED BY <1>1, <1>6, <1>8, <1>9, <1>10, <2>1, GraphKept
<1> QED BY <1>6, <1>8, <1>11

LEMMA GraphEnvironment ==
  ASSUME TypeInv, GraphInv, Environment
  PROVE  GraphInv' /\ GraphGrows /\ Solved' = Solved
<1>1. UNCHANGED << options, roots, edges, seeded, stack >> /\ history'.broken = history.broken
  BY DEF Environment, Crash, Tick, graphVars, TypeInv
<1>2. (thrown' = "timeout" => thrown = "timeout") /\ (Expired => Expired')
  BY <1>1 DEF Environment, Crash, Tick, Running, Expired, TypeInv
<1>3. GraphGrows /\ Solved' = Solved
  BY <1>1, <1>2 DEF GraphGrows, Solved
<1>4. \A x \in Elems(stack') : FrameInGraph(x)'
  BY <1>1, <1>3, GraphGrowsFacts DEF GraphInv
<1>5. GraphInv'
  BY <1>1, <1>2, <1>3, <1>4, GraphGrowsFacts DEF GraphInv, GraphGrows
<1> QED BY <1>3, <1>5

-----------------------------------------------------------------------------
(* The worklist *)

GuidedInv == TypeInv /\ CallsInv /\ GraphInv /\ WorkInv
allVars == << vars, guidedVars >>

LEMMA GuidedInitially == GuidedInit => GuidedInv
<1> SUFFICES ASSUME GuidedInit PROVE GuidedInv
  OBVIOUS
<1>1. Init
  BY DEF GuidedInit
<1>2. TypeInv /\ CallsInv
  BY <1>1, TypeInit, CallsInit
<1>3. GraphInv
  <2>1. stack = << >> /\ edges = {} /\ seeded = {} /\ thrown = "nothing"
    BY <1>1 DEF Init
  <2>2. Elems(<< >>) = {}
    BY DEF Elems
  <2> QED BY <2>1, <2>2 DEF GraphInv
<1>4. WorkInv
  <2>1. phase = "idle" /\ queue = << >> /\ tables = {}
    BY DEF GuidedInit
  <2>2. Elems(<< >>) = {} /\ << >> \in Seq(Item)
    BY DEF Elems
  <2> QED BY <2>1, <2>2 DEF WorkInv
<1> QED BY <1>2, <1>3, <1>4 DEF GuidedInv

\* The worklist while the solver works
LEMMA WorkKept ==
  ASSUME WorkInv, GraphGrows, \A q \in Solved : q \in Rooted' \cup Solved' \/ Excused',
         UNCHANGED << options, guidedVars >>
  PROVE  WorkInv'
<1>1. UNCHANGED << phase, start, queue, visited, current, tables, raised >>
  BY DEF guidedVars
<1>2. Rooted \subseteq Rooted' /\ (Excused => Excused')
  BY GraphGrowsFacts
<1>3. (phase # "idle" => options.multiple)' /\ (queue \in Seq(Item))'
  BY <1>1 DEF WorkInv
<1>4. /\ (phase \in {"solving", "reading"} => current \in Query)'
      /\ (phase = "solving" => current \in Rooted \cup Solved \/ Excused)'
  BY <1>1, <1>2 DEF WorkInv
<1>5. (\A t \in tables : t \in Table /\ (t.of \in Rooted \/ Excused))'
  BY <1>1, <1>2 DEF WorkInv
<1>6. (\A x \in Elems(queue) : x.parent # NoParent => x.parent \in Rooted \/ Excused)'
  BY <1>1, <1>2 DEF WorkInv
<1> QED BY <1>3, <1>4, <1>5, <1>6 DEF WorkInv

LEMMA GuidedEngine ==
  ASSUME GuidedInv, Engine \/ Environment, UNCHANGED guidedVars
  PROVE  GuidedInv'
<1>1. TypeInv /\ CallsInv /\ GraphInv /\ WorkInv
  BY DEF GuidedInv
<1>2. [Next]_vars
  BY DEF Next
<1>3. TypeInv' /\ CallsInv'
  BY <1>1, <1>2, TypeStep, CallsStep
<1>4. /\ GraphInv' /\ GraphGrows
      /\ \A q \in Solved : q \in Rooted' \cup Solved' \/ Excused'
  <2>1. CASE SolveNested
    BY <1>1, <2>1, GraphSolveNested
  <2>2. CASE AddTransition
    BY <1>1, <2>2, GraphAddTransition
  <2>3. CASE AddEdge
    BY <1>1, <2>3, GraphAddEdge
  <2>4. CASE Complete \/ Catch \/ Unwind
    BY <1>1, <2>4, GraphEnd
  <2>5. CASE Environment
    BY <1>1, <2>5, GraphEnvironment
  <2> QED BY <2>1, <2>2, <2>3, <2>4, <2>5 DEF Engine
<1>5. options' = options
  BY DEF Engine, Environment, SolveNested, AddTransition, AddEdge, Complete, Catch, Unwind,
         Crash, Tick
<1>6. WorkInv'
  BY <1>1, <1>4, <1>5, WorkKept
<1> QED BY <1>3, <1>4, <1>6 DEF GuidedInv

\* A step of the worklist that leaves the solver alone
LEMMA SolverSame ==
  ASSUME TypeInv, CallsInv, GraphInv, UNCHANGED vars
  PROVE  /\ TypeInv' /\ CallsInv' /\ GraphInv'
         /\ Rooted' = Rooted /\ Solved' = Solved /\ Excused' = Excused
         /\ options' = options
<1>1. TypeInv' /\ CallsInv'
  BY TypeStep, CallsStep
<1>2. /\ UNCHANGED << options, watch, roots, edges, seeded, stack, thrown, history >>
  BY DEF vars, graphVars
<1>3. Rooted' = Rooted /\ Solved' = Solved /\ Excused' = Excused /\ Expired' = Expired
  BY <1>2 DEF Rooted, Solved, Excused, Expired
<1>4. \A x : FrameInGraph(x) => FrameInGraph(x)'
  BY <1>2, <1>3 DEF FrameInGraph
<1>5. GraphInv'
  BY <1>2, <1>3, <1>4 DEF GraphInv
<1> QED BY <1>1, <1>2, <1>3, <1>5

LEMMA ElemsAppended ==
  ASSUME NEW S, NEW s \in Seq(S), NEW x \in S
  PROVE  Append(s, x) \in Seq(S) /\ Elems(Append(s, x)) = Elems(s) \cup {x}
<1> DEFINE r == Append(s, x)
<1>1. /\ r \in Seq(S) /\ Len(r) = Len(s) + 1 /\ r[Len(s) + 1] = x /\ Len(s) \in Nat
      /\ \A i \in 1 .. Len(s) : r[i] = s[i]
  OBVIOUS
<1> HIDE DEF r
<1>2. Elems(r) = Elems(s) \cup {x}
  <2>1. ASSUME NEW e \in Elems(r) PROVE e \in Elems(s) \cup {x}
    <3>1. PICK i \in 1 .. Len(s) + 1 : e = r[i]
      BY <1>1, <2>1 DEF Elems
    <3>2. CASE i \in 1 .. Len(s)
      BY <1>1, <3>1, <3>2 DEF Elems
    <3>3. CASE i = Len(s) + 1
      BY <1>1, <3>1, <3>3
    <3> QED BY <1>1, <3>1, <3>2, <3>3
  <2>2. ASSUME NEW i \in 1 .. Len(s) PROVE s[i] \in Elems(r)
    <3>1. i \in 1 .. Len(r) /\ r[i] = s[i]
      BY <1>1
    <3> QED BY <3>1 DEF Elems
  <2>3. x \in Elems(r)
    <3>1. Len(s) + 1 \in 1 .. Len(r)
      BY <1>1
    <3> QED BY <1>1, <3>1 DEF Elems
  <2> QED BY <2>1, <2>2, <2>3 DEF Elems
<1> QED BY <1>1, <1>2 DEF r

LEMMA GuidedRun ==
  ASSUME GuidedInv, NEW q \in Query, Run(q) PROVE GuidedInv'
<1>1. TypeInv /\ CallsInv /\ GraphInv /\ WorkInv
  BY DEF GuidedInv
<1>2. UNCHANGED << vars, visited, current, tables, raised >> /\ phase' = "loop" /\ options.multiple
  BY DEF Run
<1>3. /\ TypeInv' /\ CallsInv' /\ GraphInv' /\ options' = options
      /\ Rooted' = Rooted /\ Excused' = Excused
  BY <1>1, <1>2, SolverSame
<1> DEFINE x == [query |-> q, parent |-> NoParent]
<1>4. queue' = << x >> /\ x \in Item /\ x.parent = NoParent
  BY DEF Run, Item
<1> HIDE DEF x
<1>5. queue' \in Seq(Item) /\ Elems(queue') = {x}
  BY <1>4 DEF Elems
<1>6. WorkInv'
  BY <1>1, <1>2, <1>3, <1>4, <1>5 DEF WorkInv
<1> QED BY <1>3, <1>6 DEF GuidedInv

\* The next query of the worklist is solved under its parent.
LEMMA GuidedSolveNext ==
  ASSUME GuidedInv, SolveNext PROVE GuidedInv'
<1>1. TypeInv /\ CallsInv /\ GraphInv /\ WorkInv
  BY DEF GuidedInv
<1> DEFINE pop == Head(queue)
           entry == IF pop.parent = NoParent THEN "solve" ELSE "scope"
<1>2. /\ phase = "loop" /\ queue # << >> /\ queue' = Tail(queue) /\ phase' = "solving"
      /\ Call(pop.query, entry, pop.parent) /\ current' = pop.query /\ tables' = tables
  BY DEF SolveNext
<1>3. /\ pop \in Item /\ Tail(queue) \in Seq(Item)
      /\ Elems(queue) = {pop} \cup Elems(Tail(queue))
  BY <1>1, <1>2, Popped, TopOrBelow DEF WorkInv
<1>4. /\ pop.query \in Query /\ pop.parent \in Query \cup {NoParent}
      /\ entry \in {"solve", "scope"}
      /\ entry = "scope" => pop.parent \in Rooted \/ Excused
  BY <1>1, <1>3 DEF Item, WorkInv
<1>5. options.multiple
  BY <1>1, <1>2 DEF WorkInv
<1> HIDE DEF entry, pop
<1>6. TypeInv' /\ CallsInv'
  BY <1>1, <1>2, <1>4, <1>5, CallTyped, CallsCall
<1>7. GraphInv' /\ GraphGrows /\ pop.query \in Solved'
  BY <1>1, <1>2, <1>4, GraphCall
<1>8. options' = options
  BY <1>2 DEF Call
<1>9. Rooted \subseteq Rooted' /\ (Excused => Excused')
  BY <1>7, GraphGrowsFacts
<1>10. WorkInv'
  <2>1. (phase # "idle" => options.multiple)' /\ (queue \in Seq(Item))'
    BY <1>2, <1>3, <1>5, <1>8
  <2>2. /\ (phase \in {"solving", "reading"} => current \in Query)'
        /\ (phase = "solving" => current \in Rooted \cup Solved \/ Excused)'
    BY <1>2, <1>4, <1>7
  <2>3. (\A t \in tables : t \in Table /\ (t.of \in Rooted \/ Excused))'
    BY <1>1, <1>2, <1>9 DEF WorkInv
  <2>4. (\A x \in Elems(queue) : x.parent # NoParent => x.parent \in Rooted \/ Excused)'
    BY <1>1, <1>2, <1>3, <1>9 DEF WorkInv
  <2> QED BY <2>1, <2>2, <2>3, <2>4 DEF WorkInv
<1> QED BY <1>6, <1>7, <1>10 DEF GuidedInv

\* The tables that are read are those of queries that were solved: they are in the
\* graph, or nothing more will be.
LEMMA GuidedRead ==
  ASSUME GuidedInv, Read PROVE GuidedInv'
<1>1. TypeInv /\ CallsInv /\ GraphInv /\ WorkInv
  BY DEF GuidedInv
<1>2. /\ UNCHANGED << vars, start, queue, visited, current, raised >>
      /\ phase = "solving" /\ stack = << >>
      /\ phase' \in {"aborted", "reading"} /\ tables' \in {tables, Tables}
  BY DEF Read, Quiet
<1>3. /\ TypeInv' /\ CallsInv' /\ GraphInv' /\ options' = options
      /\ Rooted' = Rooted /\ Excused' = Excused
  BY <1>1, <1>2, SolverSame
<1>4. Solved = {}
  <2>1. Elems(<< >>) = {}
    BY DEF Elems
  <2> QED BY <1>2, <2>1 DEF Solved
<1>5. current \in Query /\ (current \in Rooted \/ Excused) /\ options.multiple
  BY <1>1, <1>2, <1>4 DEF WorkInv
<1>6. \A q \in seeded : q \in Query /\ (q \in Rooted \/ Excused)
  BY <1>1, <1>4 DEF GraphInv, TypeInv
<1>7. \A S : RaisedBy(S) \subseteq Query
  BY GuidedAssumption DEF RaisedBy
<1>8. \A t \in Tables : t \in Table /\ (t.of \in Rooted \/ Excused)
  <2> SUFFICES ASSUME NEW t \in Tables PROVE t \in Table /\ (t.of \in Rooted \/ Excused)
    OBVIOUS
  <2>1. PICK S \in SUBSET Query, q \in Query :
          t = [of |-> q, raises |-> RaisedBy(S)] /\ (q = current \/ q \in seeded)
    <3>1. {current} \in SUBSET Query /\ Query \ Forward \in SUBSET Query
      BY <1>5
    <3>2. \A f \in Allocations[current] \cap seeded : {f} \in SUBSET Query /\ f \in Query
      BY <1>6
    <3>3. \/ t = [of |-> current, raises |-> RaisedBy({current})]
          \/ t = [of |-> current, raises |-> RaisedBy(Query \ Forward)]
          \/ \E f \in Allocations[current] \cap seeded :
               t = [of |-> f, raises |-> RaisedBy({f})]
      BY DEF Tables
    <3> QED BY <1>5, <3>1, <3>2, <3>3
  <2> HIDE DEF Table
  <2>2. RaisedBy(S) \in SUBSET Query
    BY <1>7
  <2>3. t \in Table /\ t.of = q
    BY <2>1, <2>2 DEF Table
  <2> QED BY <1>5, <1>6, <2>1, <2>3
<1>9. WorkInv'
  <2>1. (phase # "idle" => options.multiple)' /\ (queue \in Seq(Item))'
    BY <1>1, <1>2, <1>3, <1>5 DEF WorkInv
  <2>2. (\A t \in tables : t \in Table /\ (t.of \in Rooted \/ Excused))'
    BY <1>1, <1>2, <1>3, <1>8 DEF WorkInv
  <2>3. (\A x \in Elems(queue) : x.parent # NoParent => x.parent \in Rooted \/ Excused)'
    BY <1>1, <1>2, <1>3 DEF WorkInv
  <2>4. phase' # "solving" /\ current' \in Query
    BY <1>2, <1>5
  <2> QED BY <2>1, <2>2, <2>3, <2>4 DEF WorkInv
<1> QED BY <1>3, <1>9 DEF GuidedInv

\* A query that is queued has the query of the table it was raised in as its parent.
LEMMA GuidedAddToQueue ==
  ASSUME GuidedInv, AddToQueue PROVE GuidedInv'
<1>1. TypeInv /\ CallsInv /\ GraphInv /\ WorkInv
  BY DEF GuidedInv
<1>2. UNCHANGED << vars, phase, start, current >>
  BY DEF AddToQueue
<1>3. /\ TypeInv' /\ CallsInv' /\ GraphInv' /\ options' = options
      /\ Rooted' = Rooted /\ Excused' = Excused
  BY <1>1, <1>2, SolverSame
<1>4. PICK t \in tables : \E c \in t.raises :
        /\ tables' = (tables \ {t}) \cup {[t EXCEPT !.raises = @ \ {c}]}
        /\ queue' \in {queue, Append(queue, [query |-> c, parent |-> t.of])}
  BY DEF AddToQueue
<1>5. PICK c \in t.raises :
        /\ tables' = (tables \ {t}) \cup {[t EXCEPT !.raises = @ \ {c}]}
        /\ queue' \in {queue, Append(queue, [query |-> c, parent |-> t.of])}
  BY <1>4
<1>6. t \in Table /\ (t.of \in Rooted \/ Excused) /\ t.of \in Query /\ c \in Query
  BY <1>1, <1>5 DEF WorkInv, Table
<1>7. ASSUME NEW u \in tables' PROVE u \in Table /\ (u.of \in Rooted \/ Excused)
  BY <1>1, <1>5, <1>6, <1>7 DEF WorkInv, Table
<1> DEFINE i == [query |-> c, parent |-> t.of]
<1>8. i \in Item /\ i.parent = t.of
  BY <1>6 DEF Item
<1>9. queue' \in {queue, Append(queue, i)}
  BY <1>5
<1> HIDE DEF i
<1>10. queue' \in Seq(Item) /\ Elems(queue') \subseteq Elems(queue) \cup {i}
  <2>1. queue \in Seq(Item)
    BY <1>1 DEF WorkInv
  <2>2. Append(queue, i) \in Seq(Item) /\ Elems(Append(queue, i)) = Elems(queue) \cup {i}
    BY <1>8, <2>1, ElemsAppended
  <2> QED BY <1>9, <2>1, <2>2
<1>11. \A x \in Elems(queue') : x.parent # NoParent => x.parent \in Rooted \/ Excused
  BY <1>1, <1>6, <1>8, <1>10 DEF WorkInv
<1>12. phase = "solving" => (current \in Rooted \cup Solved \/ Excused)'
  BY DEF AddToQueue
<1>13. WorkInv'
  BY <1>1, <1>2, <1>3, <1>7, <1>10, <1>11, <1>12 DEF WorkInv
<1> QED BY <1>3, <1>13 DEF GuidedInv

\* The other steps of run
LEMMA GuidedOther ==
  ASSUME GuidedInv, Abort \/ EndTable \/ EndTables \/ EndRun \/ UNCHANGED allVars
  PROVE  GuidedInv'
<1>1. TypeInv /\ CallsInv /\ GraphInv /\ WorkInv
  BY DEF GuidedInv
<1>2. /\ UNCHANGED << vars, queue, current >> /\ tables' \subseteq tables
      /\ phase = "idle" => phase' = "idle"
      /\ phase' = phase \/ phase' \notin {"solving", "reading"}
  BY DEF Abort, EndTable, EndTables, EndRun, allVars, guidedVars
<1>3. /\ TypeInv' /\ CallsInv' /\ GraphInv' /\ options' = options
      /\ Rooted' = Rooted /\ Excused' = Excused /\ Solved' = Solved
  BY <1>1, <1>2, SolverSame
<1>4. (phase # "idle" => options.multiple)' /\ (queue \in Seq(Item))'
  BY <1>1, <1>2, <1>3 DEF WorkInv
<1>5. /\ (phase \in {"solving", "reading"} => current \in Query)'
      /\ (phase = "solving" => current \in Rooted \cup Solved \/ Excused)'
  BY <1>1, <1>2, <1>3 DEF WorkInv
<1>6. (\A t \in tables : t \in Table /\ (t.of \in Rooted \/ Excused))'
  BY <1>1, <1>2, <1>3 DEF WorkInv
<1>7. (\A x \in Elems(queue) : x.parent # NoParent => x.parent \in Rooted \/ Excused)'
  BY <1>1, <1>2, <1>3 DEF WorkInv
<1> QED BY <1>3, <1>4, <1>5, <1>6, <1>7 DEF GuidedInv, WorkInv

LEMMA GuidedStep == GuidedInv /\ [GuidedNext]_<< vars, guidedVars >> => GuidedInv'
<1> SUFFICES ASSUME GuidedInv, [GuidedNext]_<< vars, guidedVars >> PROVE GuidedInv'
  OBVIOUS
<1>1. CASE \E q \in Query : Run(q)
  BY <1>1, GuidedRun
<1>2. CASE Analysis
  BY <1>2, GuidedSolveNext, GuidedRead, GuidedAddToQueue, GuidedOther, GuidedEngine
  DEF Analysis
<1>3. CASE Environment /\ UNCHANGED guidedVars
  BY <1>3, GuidedEngine
<1>4. CASE UNCHANGED << vars, guidedVars >>
  BY <1>4, GuidedOther DEF allVars
<1> QED BY <1>1, <1>2, <1>3, <1>4 DEF GuidedNext

LEMMA Guided == GuidedSpec => []GuidedInv
<1> QED
  BY GuidedInitially, GuidedStep, PTL DEF GuidedSpec

\* The worklist calls the solver like any other client.
LEMMA WholeGuided == GuidedInv /\ WholeInv /\ [GuidedNext]_<< vars, guidedVars >> => WholeInv'
<1> SUFFICES ASSUME GuidedInv, WholeInv, [GuidedNext]_<< vars, guidedVars >> PROVE WholeInv'
  OBVIOUS
<1>1. TypeInv /\ CallsInv /\ WorkInv
  BY DEF GuidedInv
<1>2. CASE Engine \/ Environment
  BY <1>1, <1>2, WholeStep DEF Next
<1>3. CASE UNCHANGED vars
  BY <1>1, <1>3, WholeEnvironment
<1>4. CASE SolveNext
  <2> DEFINE pop == Head(queue)
             entry == IF pop.parent = NoParent THEN "solve" ELSE "scope"
  <2>1. Call(pop.query, entry, pop.parent)
    BY <1>4 DEF SolveNext
  <2>2. pop \in Item
    BY <1>1, <1>4, Popped DEF SolveNext, WorkInv
  <2>3. /\ pop.query \in Query /\ pop.parent \in Query \cup {NoParent}
        /\ entry \in {"solve", "scope"}
    BY <2>2 DEF Item
  <2> HIDE DEF pop, entry
  <2> QED BY <1>1, <2>1, <2>3, WholeCall
<1> QED
  BY <1>2, <1>3, <1>4
  DEF GuidedNext, Analysis, Run, Read, Abort, AddToQueue, EndTable, EndTables, EndRun

-----------------------------------------------------------------------------
\* In an analysis that no crash went through, a query that raised one of the graph
\* is in the graph itself: a parent that was cut before it got its edge has used up
\* the time, so that no query raised by it gets one either (run and
\* triggerNewBackwardQueries in DemandDrivenGuidedAnalysis, solveUnderScope).
THEOREM ParentsAreInGraph == GuidedSpec => []ParentsInGraph
<1>1. GuidedInv => ParentsInGraph
  BY DEF GuidedInv, GraphInv, ParentsInGraph, Rooted
<1> QED BY <1>1, Guided, PTL

\* What the solve methods promise any client they keep for the worklist as well:
\* no query it asks for is answered late, none that is answered has lost anything, and
\* it finds the watch standing whenever no crash has left a solve (run in
\* DemandDrivenGuidedAnalysis).
THEOREM WorklistIsServed ==
  GuidedSpec => [](NoLateAnswer /\ CleanUp /\ TimeCounted /\ AnsweredWhole)
<1>1. GuidedInv => NoLateAnswer /\ CleanUp /\ TimeCounted /\ TypeInv
  BY DEF GuidedInv, CallsInv, CleanUp, Quiet
<1>2. GuidedInit => WholeInv
  BY WholeInit DEF GuidedInit
<1>3. GuidedInv /\ WholeInv /\ [GuidedNext]_<< vars, guidedVars >> => (GuidedInv /\ WholeInv)'
  BY GuidedStep, WholeGuided
<1> QED BY <1>1, <1>2, <1>3, GuidedInitially, Whole, PTL DEF GuidedSpec
=============================================================================
