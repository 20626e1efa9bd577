---------------------- MODULE PointsOfIndirectionProofs ----------------------
(***************************************************************************)
(* Theorems about PointsOfIndirection, for all queries, stores and         *)
(* programs, and without a bound on what interrupts a call.                *)
(*                                                                         *)
(* Listeners of one solver feed the automata of another while both run.    *)
(* What a listener, a waiting transition or a call on the stack stands for *)
(* was true when it was made; the tables only grow, so it is true when it  *)
(* is used.                                                                *)
(***************************************************************************)
EXTENDS ActivationHistory, StackLemmas

-----------------------------------------------------------------------------
(* The inductive invariant *)

\* The runs whose base and flow allocation are both known
Met == { x \in Exec : << x.w, x.base >> \in bases /\ << x.w, x.flow >> \in flows }

\* Why a transition is in the field automaton of q
Connects(x, t) == t.start \in Activated(Pair(x)) /\ t = Connecting(x, t.start)
Copied(x, t) ==
  x \in active /\ << Fields(x.base), t >> \in trans /\ << x, t.target >> \in reachable
Justified(q, t) ==
  \/ t \in Own[Fields(q)]
  \/ \E x \in Met : x.flow = q /\ (Connects(x, t) \/ Copied(x, t))

AnyTransition == FieldTransition \cup CallTransition
Allowed ==
  { p \in Automaton \X AnyTransition :
      IF p[1][1] = "fields"
      THEN p[2] \in FieldTransition /\ Justified(p[1][2], p[2])
      ELSE p[2] \in CallTransition }

FieldListener ==
  { FlowAllocation(q, w) : q \in Query, w \in Write }
  \cup { BaseAllocation(q, w) : q \in Query, w \in Write }
  \cup { PointsTo(x) : x \in Met }
  \cup { Aliases(x) : x \in active }
  \cup { From(x, s) : x \in active, s \in Generated }
  \cup { AtSite(x, e, v) : x \in active, e \in Edge, v \in Val }
\* The call sites of a flow, with the pair that imports there
SiteOf == { p \in active \X CallTransition : << Calls(p[1].flow), p[2] >> \in trans }
CallListener ==
  { CallAliases(x) : x \in active }
  \cup { AtStore(x, u) : x \in active, u \in CallState }
  \cup { AnySite(x) : x \in active }
  \cup { OnReach(x, e) : x \in active, e \in Edge }
  \cup { FromCall(p[1], p[2]) : p \in SiteOf }
Listener == FieldListener \cup CallListener

(* What a call or loop on the stack is about *)

AddFrame ==
  { f \in [op : {"add"}, on : Automaton, t : AnyTransition] : << f.on, f.t >> \in Allowed }
HeardFrame ==
  { f \in [op : {"index", "states"}, on : Automaton, t : AnyTransition] :
      << f.on, f.t >> \in trans }
TellFrame ==
  { f \in [op : {"tell"}, t : AnyTransition, ls : SUBSET Listener] :
      \A l \in f.ls : << l.on, f.t >> \in trans }
RegisterFrame == [op : {"register"}, l : Listener]
ReplayFrame ==
  { f \in [op : {"replay"}, l : Listener, ts : SUBSET AnyTransition] :
      \A t \in f.ts : << f.l.on, t >> \in trans }
BackwardFrame == [op : {"backward"}]
AllocationFrame == [op : {"addBase", "addFlow"}, w : Write, q : Query]
ExecuteFrame == [op : {"execute"}, xs : SUBSET Met]
RunFrame == [op : {"registerActivation", "solve", "flowsTo"}, x : Met]
ActivationsFrame ==
  { f \in [op : {"activations"}, x : Met, ns : SUBSET FieldState] :
      f.ns \subseteq Activated(Pair(f.x)) }
QueueFrame ==
  { f \in [op : {"queueOrAdd"}, x : active, t : FieldTransition] :
      << Fields(f.x.base), f.t >> \in trans }
ReleaseFrame ==
  { f \in [op : {"release"}, x : Met, ts : SUBSET FieldTransition] :
      \A t \in f.ts : Copied(f.x, t) }
ActivateFrame == [op : {"activateAll"}, p : Query \X Query, n : FieldState]
TriggerFrame ==
  { f \in [op : {"triggerAll"}, xs : SUBSET Met, n : FieldState] :
      \A x \in f.xs : f.n \in Activated(Pair(x)) }
ReachFrame == [op : {"addReachable"}, x : Met, n : FieldState]

AutFrame == AddFrame \cup HeardFrame \cup TellFrame \cup RegisterFrame \cup ReplayFrame
PoiFrame == BackwardFrame \cup AllocationFrame \cup ExecuteFrame \cup RunFrame
ImportFrame ==
  ActivationsFrame \cup QueueFrame \cup ReleaseFrame \cup ActivateFrame \cup TriggerFrame
PlainFrame == AutFrame \cup PoiFrame \cup ImportFrame
Frame == PlainFrame \cup ReachFrame

Waiting ==
  { p \in active \X FieldTransition : << Fields(p[1].base), p[2] >> \in trans }

TablesInv ==
  /\ trans \subseteq Allowed /\ indexed \subseteq trans /\ listeners \subseteq Listener
  /\ bases \subseteq Write \X Query /\ flows \subseteq Write \X Query
  /\ activatedPoi \subseteq (Query \X Query) \X FieldState /\ poiListeners \subseteq Met
  /\ active \subseteq Met /\ reachable \subseteq Met \X FieldState /\ delayed \subseteq Waiting

(* A state is made reachable by the call after the one that adds the transition it *)
(* is reached over.  T and R are the transitions and the reachable states.         *)
Backed(T, R, x, n) ==
  \/ << Fields(x.flow), Connecting(x, n) >> \in T
  \/ \E p \in T : /\ p[1] = Fields(x.flow) /\ p[2].start = n
                  /\ << x, p[2].target >> \in R
Backs(R, g, x, n) ==
  /\ g.op = "add" /\ g.on = Fields(x.flow) /\ g.t.start = n
  /\ g.t = Connecting(x, n) \/ << x, g.t.target >> \in R
Linked(T, R, s) ==
  \A i \in 1 .. Len(s) :
    s[i].op = "addReachable" =>
      \/ Backed(T, R, s[i].x, s[i].n)
      \/ i > 1 /\ Backs(R, s[i - 1], s[i].x, s[i].n)

AllBacked == \A r \in reachable : Backed(trans, reachable, r[1], r[2])

Inv ==
  TablesInv /\ stack \in Seq(Frame) /\ AllBacked /\ Linked(trans, reachable, stack)

-----------------------------------------------------------------------------
(* States, transitions, listeners *)

LEMMA AutomataOf ==
  ASSUME NEW q \in Query
  PROVE  /\ Fields(q) \in Automaton /\ Calls(q) \in Automaton
         /\ Fields(q)[1] = "fields" /\ Fields(q)[2] = q /\ Calls(q)[1] = "calls"
  BY DEF Automaton, Fields, Calls

LEMMA MetTyped ==
  ASSUME NEW x \in Met
  PROVE  /\ x.w \in Write /\ x.base \in Query /\ x.flow \in Query
         /\ x = Run(x.w, x.base, x.flow) /\ Pair(x) \in Query \X Query
  BY DEF Met, Exec, Run, Pair

LEMMA ActivatedIs ==
  ASSUME activatedPoi \subseteq (Query \X Query) \X FieldState, NEW p, NEW n
  PROVE  /\ n \in Activated(p) <=> << p, n >> \in activatedPoi
         /\ n \in Activated(p) => n \in FieldState
<1>1. \A e \in activatedPoi : e = << e[1], e[2] >> /\ e[2] \in FieldState
  OBVIOUS
<1> QED
  BY <1>1 DEF Activated

LEMMA ConnectingTyped ==
  ASSUME NEW x \in Met, NEW n \in FieldState
  PROVE  /\ Connecting(x, n) \in FieldTransition
         /\ Connecting(x, n).start = n
<1>1. /\ x.w.field \in Field /\ << x.w.edge, x.w.base >> \in Node
  BY MetTyped, PlaceAssumption DEF Node
<1>2. << << x.w.edge, x.w.base >>, x.w.field >> \in FieldState
  BY <1>1 DEF Generated, FieldState
<1> QED
  BY <1>1, <1>2 DEF Connecting, Tr, FieldTransition

-----------------------------------------------------------------------------
(* What is true of a frame stays true: the tables only grow. *)

Grows ==
  /\ trans \subseteq trans' /\ bases \subseteq bases' /\ flows \subseteq flows'
  /\ activatedPoi \subseteq activatedPoi' /\ active \subseteq active'
  /\ reachable \subseteq reachable'

LEMMA GrowTables ==
  ASSUME Grows
  PROVE  /\ Met \subseteq Met' /\ Allowed \subseteq Allowed' /\ Listener \subseteq Listener'
         /\ Waiting \subseteq Waiting'
         /\ \A p : Activated(p) \subseteq Activated(p)'
         /\ \A x, t : Copied(x, t) => Copied(x, t)'
<1>1. Met \subseteq Met'
  BY DEF Grows, Met
<1>2. \A p : Activated(p) \subseteq Activated(p)'
  BY DEF Grows, Activated
<1>3. \A x, t : Copied(x, t) => Copied(x, t)'
  BY DEF Grows, Copied
<1>4. \A x, t : Connects(x, t) => Connects(x, t)'
  BY <1>2 DEF Connects
<1>5. \A q, t : Justified(q, t) => Justified(q, t)'
  BY <1>1, <1>3, <1>4 DEF Justified
<1>6. Allowed \subseteq Allowed'
  BY <1>5 DEF Allowed
<1>7. FieldListener \subseteq FieldListener'
  BY <1>1 DEF Grows, FieldListener
<1>8. CallListener \subseteq CallListener'
  BY DEF Grows, CallListener, SiteOf
<1>9. Waiting \subseteq Waiting'
  BY DEF Grows, Waiting
<1> QED
  BY <1>1, <1>2, <1>3, <1>6, <1>7, <1>8, <1>9 DEF Listener

LEMMA GrowAutFrames == ASSUME Grows PROVE AutFrame \subseteq AutFrame'
<1> USE GrowTables
<1>1. AddFrame \subseteq AddFrame'
  BY DEF AddFrame
<1>2. HeardFrame \subseteq HeardFrame'
  BY DEF HeardFrame, Grows
<1>3. TellFrame \subseteq TellFrame'
  BY DEF TellFrame, Grows
<1>4. RegisterFrame \subseteq RegisterFrame'
  BY DEF RegisterFrame
<1>5. ReplayFrame \subseteq ReplayFrame'
  BY DEF ReplayFrame, Grows
<1> QED
  BY <1>1, <1>2, <1>3, <1>4, <1>5 DEF AutFrame

LEMMA GrowPoiFrames == ASSUME Grows PROVE PoiFrame \subseteq PoiFrame'
<1>1. ExecuteFrame \subseteq ExecuteFrame' /\ RunFrame \subseteq RunFrame'
  BY GrowTables DEF ExecuteFrame, RunFrame
<1> QED
  BY <1>1 DEF PoiFrame, BackwardFrame, AllocationFrame

LEMMA GrowImportFrames == ASSUME Grows PROVE ImportFrame \subseteq ImportFrame'
<1> USE GrowTables
<1>1. ActivationsFrame \subseteq ActivationsFrame'
  BY DEF ActivationsFrame
<1>2. QueueFrame \subseteq QueueFrame'
  BY DEF QueueFrame, Grows
<1>3. ReleaseFrame \subseteq ReleaseFrame'
  BY DEF ReleaseFrame
<1>4. TriggerFrame \subseteq TriggerFrame'
  BY DEF TriggerFrame
<1> QED
  BY <1>1, <1>2, <1>3, <1>4 DEF ImportFrame, ActivateFrame

LEMMA GrowFrames ==
  ASSUME Grows PROVE PlainFrame \subseteq PlainFrame' /\ Frame \subseteq Frame'
<1>1. ReachFrame \subseteq ReachFrame'
  BY GrowTables DEF ReachFrame
<1> QED
  BY <1>1, GrowAutFrames, GrowPoiFrames, GrowImportFrames DEF PlainFrame, Frame

-----------------------------------------------------------------------------
(* The frame on top *)

LEMMA FrameOps ==
  ASSUME NEW f
  PROVE  /\ f \in AddFrame => f.op = "add"
         /\ f \in HeardFrame => f.op \in {"index", "states"}
         /\ f \in TellFrame => f.op = "tell"
         /\ f \in RegisterFrame => f.op = "register"
         /\ f \in ReplayFrame => f.op = "replay"
         /\ f \in BackwardFrame => f.op = "backward"
         /\ f \in AllocationFrame => f.op \in {"addBase", "addFlow"}
         /\ f \in ExecuteFrame => f.op = "execute"
         /\ f \in RunFrame => f.op \in {"registerActivation", "solve", "flowsTo"}
         /\ f \in ActivationsFrame => f.op = "activations"
         /\ f \in QueueFrame => f.op = "queueOrAdd"
         /\ f \in ReleaseFrame => f.op = "release"
         /\ f \in ActivateFrame => f.op = "activateAll"
         /\ f \in TriggerFrame => f.op = "triggerAll"
         /\ f \in ReachFrame => f.op = "addReachable"
<1>1. /\ f \in AddFrame => f.op = "add"
      /\ f \in HeardFrame => f.op \in {"index", "states"}
      /\ f \in TellFrame => f.op = "tell"
      /\ f \in RegisterFrame => f.op = "register"
      /\ f \in ReplayFrame => f.op = "replay"
  BY DEF AddFrame, HeardFrame, TellFrame, RegisterFrame, ReplayFrame
<1>2. /\ f \in BackwardFrame => f.op = "backward"
      /\ f \in AllocationFrame => f.op \in {"addBase", "addFlow"}
      /\ f \in ExecuteFrame => f.op = "execute"
      /\ f \in RunFrame => f.op \in {"registerActivation", "solve", "flowsTo"}
  BY DEF BackwardFrame, AllocationFrame, ExecuteFrame, RunFrame
<1>3. /\ f \in ActivationsFrame => f.op = "activations"
      /\ f \in QueueFrame => f.op = "queueOrAdd"
      /\ f \in ReleaseFrame => f.op = "release"
      /\ f \in ActivateFrame => f.op = "activateAll"
      /\ f \in TriggerFrame => f.op = "triggerAll"
      /\ f \in ReachFrame => f.op = "addReachable"
  BY DEF ActivationsFrame, QueueFrame, ReleaseFrame, ActivateFrame, TriggerFrame, ReachFrame
<1> QED
  BY <1>1, <1>2, <1>3

LEMMA TopFrame ==
  ASSUME stack \in Seq(Frame), stack # << >>
  PROVE  /\ Tail(stack) \in Seq(Frame) /\ Top \in Frame
         /\ Top.op = "add" => Top \in AddFrame
         /\ Top.op \in {"index", "states"} => Top \in HeardFrame
         /\ Top.op = "tell" => Top \in TellFrame
         /\ Top.op = "register" => Top \in RegisterFrame
         /\ Top.op = "replay" => Top \in ReplayFrame
         /\ Top.op \in {"addBase", "addFlow"} => Top \in AllocationFrame
         /\ Top.op = "execute" => Top \in ExecuteFrame
         /\ Top.op \in {"registerActivation", "solve", "flowsTo"} => Top \in RunFrame
         /\ Top.op = "activations" => Top \in ActivationsFrame
         /\ Top.op = "queueOrAdd" => Top \in QueueFrame
         /\ Top.op = "release" => Top \in ReleaseFrame
         /\ Top.op = "activateAll" => Top \in ActivateFrame
         /\ Top.op = "triggerAll" => Top \in TriggerFrame
         /\ Top.op = "addReachable" => Top \in ReachFrame
<1>1. Tail(stack) \in Seq(Frame) /\ Top \in Frame
  BY DEF Top
<1> QED
  BY <1>1, FrameOps DEF Frame, PlainFrame, AutFrame, PoiFrame, ImportFrame

LEMMA StackGrows ==
  ASSUME stack \in Seq(Frame), Grows
  PROVE  stack \in Seq(Frame') /\ (stack # << >> => Tail(stack) \in Seq(Frame'))
<1>1. Frame \subseteq Frame'
  BY GrowFrames
<1>2. \A S, T : S \subseteq T => Seq(S) \subseteq Seq(T)
  OBVIOUS
<1>3. stack \in Seq(Frame')
  BY <1>1, <1>2
<1> HIDE DEF Frame
<1> QED
  BY <1>3

LEMMA PlainIsFrame == Seq(PlainFrame) \subseteq Seq(Frame)
<1>1. \A S, T : S \subseteq T => Seq(S) \subseteq Seq(T)
  OBVIOUS
<1> QED
  BY <1>1 DEF Frame

-----------------------------------------------------------------------------
(* Linked sequences *)

LEMMA LinkedMore ==
  ASSUME NEW T, NEW R, NEW T2, NEW R2, T \subseteq T2, R \subseteq R2, NEW s, Linked(T, R, s)
  PROVE  Linked(T2, R2, s)
<1>1. \A x, n : Backed(T, R, x, n) => Backed(T2, R2, x, n)
  BY DEF Backed
<1>2. \A g, x, n : Backs(R, g, x, n) => Backs(R2, g, x, n)
  BY DEF Backs
<1> QED
  BY <1>1, <1>2 DEF Linked

LEMMA LinkedConcat ==
  ASSUME NEW T, NEW R, NEW S, NEW u \in Seq(S), NEW v \in Seq(S),
         Linked(T, R, u), Linked(T, R, v)
  PROVE  Linked(T, R, u \o v)
<1> DEFINE w == u \o v
<1>1. Len(w) = Len(u) + Len(v) /\ Len(u) \in Nat /\ Len(v) \in Nat
  OBVIOUS
<1>2. \A i \in 1 .. Len(u) + Len(v) : w[i] = IF i <= Len(u) THEN u[i] ELSE v[i - Len(u)]
  OBVIOUS
<1> HIDE DEF w
<1> SUFFICES ASSUME NEW i \in 1 .. Len(u) + Len(v), w[i].op = "addReachable"
             PROVE  \/ Backed(T, R, w[i].x, w[i].n)
                    \/ i > 1 /\ Backs(R, w[i - 1], w[i].x, w[i].n)
  BY <1>1 DEF Linked, w
<1>3. CASE i <= Len(u)
  <2>1. i \in 1 .. Len(u) /\ w[i] = u[i] /\ (i > 1 => w[i - 1] = u[i - 1])
    BY <1>1, <1>2, <1>3
  <2> QED
    BY <2>1 DEF Linked
<1>4. CASE ~ (i <= Len(u))
  <2> DEFINE j == i - Len(u)
  <2>1. j \in 1 .. Len(v) /\ w[i] = v[j]
    BY <1>1, <1>2, <1>4
  <2>2. j > 1 => i > 1 /\ w[i - 1] = v[j - 1]
    <3>1. j > 1 => i > 1 /\ i - 1 \in 1 .. Len(u) + Len(v) /\ ~ (i - 1 <= Len(u))
                   /\ (i - 1) - Len(u) = j - 1
      BY <1>1, <1>4
    <3> QED
      BY <1>2, <3>1
  <2> HIDE DEF j
  <2> QED
    BY <2>1, <2>2 DEF Linked
<1> QED
  BY <1>3, <1>4

\* The top call may go when what it was to add is there.
LEMMA LinkedTail ==
  ASSUME NEW T, NEW R, NEW S, NEW s \in Seq(S), s # << >>, Linked(T, R, s),
         Head(s).op = "add" => << Head(s).on, Head(s).t >> \in T
  PROVE  Linked(T, R, Tail(s))
<1> DEFINE r == Tail(s)
<1>1. Len(s) \in Nat \ {0} /\ Len(r) = Len(s) - 1 /\ Head(s) = s[1]
      /\ \A i \in 1 .. Len(s) - 1 : r[i] = s[i + 1]
  BY Popped
<1> HIDE DEF r
<1> SUFFICES ASSUME NEW i \in 1 .. Len(s) - 1, r[i].op = "addReachable"
             PROVE  \/ Backed(T, R, r[i].x, r[i].n)
                    \/ i > 1 /\ Backs(R, r[i - 1], r[i].x, r[i].n)
  BY <1>1 DEF Linked, r
<1>2. i + 1 \in 1 .. Len(s) /\ i + 1 > 1 /\ (i + 1) - 1 = i /\ r[i] = s[i + 1]
  BY <1>1
<1>3. Backed(T, R, r[i].x, r[i].n) \/ Backs(R, s[i], r[i].x, r[i].n)
  BY <1>2 DEF Linked
<1>4. CASE i > 1
  <2>1. i - 1 \in 1 .. Len(s) - 1 /\ (i - 1) + 1 = i
    BY <1>1, <1>4
  <2>2. r[i - 1] = s[i]
    BY <1>1, <2>1
  <2> QED
    BY <1>3, <1>4, <2>2
<1>5. CASE i = 1 /\ Backs(R, s[i], r[i].x, r[i].n)
  <2>1. << s[1].on, s[1].t >> \in T
    BY <1>1, <1>5 DEF Backs
  <2> QED
    BY <1>5, <2>1 DEF Backs, Backed
<1>6. i > 1 \/ i = 1
  BY <1>1
<1> QED
  BY <1>3, <1>4, <1>5, <1>6

LEMMA PlainLinked ==
  ASSUME NEW T, NEW R, NEW S, \A f \in S : f.op # "addReachable", NEW s \in Seq(S)
  PROVE  Linked(T, R, s)
  BY DEF Linked

LEMMA PlainOps == \A f \in PlainFrame : f.op # "addReachable"
  BY FrameOps DEF PlainFrame, AutFrame, PoiFrame, ImportFrame

\* A call that makes a state reachable, after the one that adds the transition
LEMMA PairLinked ==
  ASSUME NEW T, NEW R, NEW g, NEW h, g.op # "addReachable", Backs(R, g, h.x, h.n)
  PROVE  Linked(T, R, << g, h >>)
<1>1. Len(<< g, h >>) = 2 /\ << g, h >>[1] = g /\ << g, h >>[2] = h
  OBVIOUS
<1>2. \A i \in 1 .. 2 : i = 1 \/ (i = 2 /\ i > 1 /\ i - 1 = 1)
  OBVIOUS
<1> QED
  BY <1>1, <1>2 DEF Linked

-----------------------------------------------------------------------------
(* Steps *)

\* The calls and loops below the top one stay on the stack.
BelowKept == stack # << >> => Elems(Tail(stack)) \subseteq Elems(stack')

\* The calls fs come on top, or in the place of the top one, which leaves a
\* transition it was to add in its automaton.
Becomes(fs) ==
  \/ stack' = fs \o stack
  \/ /\ stack # << >> /\ stack' = fs \o Tail(stack)
     /\ Top.op = "add" => << Top.on, Top.t >> \in trans'

LEMMA StackStep ==
  ASSUME stack \in Seq(Frame), Linked(trans, reachable, stack), Grows,
         NEW fs \in Seq(Frame'), Linked(trans', reachable', fs), Becomes(fs)
  PROVE  /\ stack' \in Seq(Frame') /\ Linked(trans', reachable', stack')
         /\ BelowKept /\ Elems(fs) \subseteq Elems(stack')
<1>1. stack \in Seq(Frame') /\ Linked(trans', reachable', stack)
  BY StackGrows, LinkedMore DEF Grows
<1> HIDE DEF Frame
<1>2. CASE stack' = fs \o stack
  <2>1. Elems(stack') = Elems(fs) \cup Elems(stack)
    BY <1>1, <1>2, ConcatElems
  <2>2. BelowKept
    BY <1>1, <2>1, TopOrBelow DEF BelowKept
  <2>3. Linked(trans', reachable', fs \o stack)
    BY <1>1, LinkedConcat
  <2> QED
    BY <1>1, <1>2, <2>1, <2>2, <2>3
<1>3. CASE /\ stack # << >> /\ stack' = fs \o Tail(stack)
           /\ Top.op = "add" => << Top.on, Top.t >> \in trans'
  <2>1. Tail(stack) \in Seq(Frame')
    BY <1>1, <1>3
  <2>2. Linked(trans', reachable', Tail(stack))
    BY <1>1, <1>3, LinkedTail DEF Top
  <2>3. Elems(stack') = Elems(fs) \cup Elems(Tail(stack))
    BY <1>3, <2>1, ConcatElems
  <2>4. Linked(trans', reachable', fs \o Tail(stack))
    BY <2>1, <2>2, LinkedConcat
  <2> QED
    BY <1>3, <2>1, <2>3, <2>4 DEF BelowKept
<1> QED
  BY <1>2, <1>3 DEF Becomes

LEMMA PlainSeq ==
  ASSUME NEW fs \in Seq(PlainFrame')
  PROVE  fs \in Seq(Frame') /\ Linked(trans', reachable', fs)
<1>1. \A S, T : S \subseteq T => Seq(S) \subseteq Seq(T)
  OBVIOUS
<1>2. PlainFrame' \subseteq Frame'
  BY DEF Frame
<1>3. (\A f \in PlainFrame : f.op # "addReachable")'
  BY PlainOps, PTL
<1> HIDE DEF PlainFrame
<1> QED
  BY <1>1, <1>2, <1>3, PlainLinked

LEMMA StepInv ==
  ASSUME Inv, Grows,
         trans' \subseteq trans \cup Allowed', indexed' \subseteq indexed \cup trans',
         listeners' \subseteq listeners \cup Listener',
         bases' \subseteq bases \cup (Write \X Query),
         flows' \subseteq flows \cup (Write \X Query),
         activatedPoi' \subseteq activatedPoi \cup ((Query \X Query) \X FieldState),
         poiListeners' \subseteq poiListeners \cup Met',
         active' \subseteq active \cup Met',
         reachable' \subseteq reachable \cup (Met' \X FieldState),
         delayed' \subseteq delayed \cup Waiting',
         \A r \in reachable' \ reachable : Backed(trans', reachable', r[1], r[2]),
         NEW fs \in Seq(Frame'), Linked(trans', reachable', fs), Becomes(fs)
  PROVE  Inv' /\ BelowKept
<1>1. /\ Met \subseteq Met' /\ Allowed \subseteq Allowed' /\ Listener \subseteq Listener'
      /\ Waiting \subseteq Waiting'
  BY GrowTables
<1>2. TablesInv'
  BY <1>1 DEF Inv, TablesInv, Grows
<1>3. AllBacked'
  <2>1. \A x, n : Backed(trans, reachable, x, n) => Backed(trans', reachable', x, n)
    BY DEF Grows, Backed
  <2> QED
    BY <2>1 DEF Inv, AllBacked
<1> QED
  BY <1>2, <1>3, StackStep DEF Inv

Tables == << autVars, poiVars, pairVars, execVars >>

LEMMA OnlyStack ==
  ASSUME Inv, UNCHANGED Tables,
         NEW fs \in Seq(Frame), Linked(trans, reachable, fs), Becomes(fs)
  PROVE  Inv' /\ BelowKept
<1>1. Grows
  BY DEF Grows, Tables, autVars, poiVars, pairVars, execVars
<1>2. fs \in Seq(Frame')
  <2>1. \A S, T : S \subseteq T => Seq(S) \subseteq Seq(T)
    OBVIOUS
  <2> QED
    BY <1>1, <2>1, GrowFrames
<1> QED
  BY <1>1, <1>2, StepInv DEF Inv, TablesInv, Tables, autVars, poiVars, pairVars, execVars

LEMMA OnlyPlain ==
  ASSUME Inv, UNCHANGED Tables, NEW fs \in Seq(PlainFrame), Becomes(fs)
  PROVE  Inv' /\ BelowKept
<1>1. Linked(trans, reachable, fs)
  BY PlainOps, PlainLinked
<1> HIDE DEF PlainFrame, Frame
<1> QED
  BY <1>1, PlainIsFrame, OnlyStack

LEMMA InitInv == Init => Inv
<1> SUFFICES ASSUME Init PROVE Inv
  OBVIOUS
<1>1. stack \in Seq(Frame) /\ Linked(trans, reachable, stack)
  BY DEF Init, Linked
<1> QED
  BY <1>1 DEF Init, Inv, TablesInv, AllBacked

-----------------------------------------------------------------------------
(* What listeners do *)

LEMMA TransTyped ==
  ASSUME TablesInv, NEW a, NEW t, << a, t >> \in trans
  PROVE  /\ a \in Automaton /\ t \in AnyTransition /\ << a, t >> \in Allowed
         /\ IF a[1] = "fields" THEN t \in FieldTransition ELSE t \in CallTransition
  BY DEF TablesInv, Allowed

LEMMA ActiveMet ==
  ASSUME TablesInv, NEW x \in active
  PROVE  /\ x \in Met /\ x.base \in Query /\ x.flow \in Query /\ x.w \in Write
         /\ Pair(x) \in Query \X Query
  BY MetTyped DEF TablesInv

LEMMA RegisterTyped ==
  ASSUME NEW l \in Listener PROVE Register(l) \in PlainFrame
  BY DEF Register, RegisterFrame, AutFrame, PlainFrame

LEMMA ImportTyped ==
  ASSUME TablesInv, NEW x \in active, NEW t, << Fields(x.base), t >> \in trans
  PROVE  Import(x, t) \in Seq(PlainFrame)
<1>1. t \in FieldTransition /\ t.start \in FieldState
  BY ActiveMet, AutomataOf, TransTyped DEF FieldTransition
<1>2. ActivateAll(Pair(x), t.start) \in PlainFrame
  BY <1>1, ActiveMet DEF ActivateAll, ActivateFrame, ImportFrame, PlainFrame
<1>3. QueueOrAdd(x, t) \in PlainFrame
  BY <1>1 DEF QueueOrAdd, QueueFrame, ImportFrame, PlainFrame
<1>4. t.target \in Generated => Register(From(x, t.target)) \in PlainFrame
  <2>1. t.target \in Generated => From(x, t.target) \in FieldListener
    BY DEF FieldListener
  <2> QED
    BY <2>1, RegisterTyped DEF Listener
<1> HIDE DEF PlainFrame
<1> QED
  BY <1>2, <1>3, <1>4 DEF Import

LEMMA ImportingHandler ==
  ASSUME TablesInv, NEW x \in active, NEW t, NEW l, << l.on, t >> \in trans,
         \/ l = Aliases(x)
         \/ \E s \in Generated : l = From(x, s)
         \/ \E e \in Edge, v \in Val : l = AtSite(x, e, v)
  PROVE  Handler(l, t) \in Seq(PlainFrame)
<1>1. l.on = Fields(x.base) /\ l.x = x /\ l.kind \in {"aliases", "from", "atSite"}
  BY DEF Aliases, From, AtSite
<1>2. l.on[1] = "fields"
  BY <1>1, ActiveMet, AutomataOf
<1>3. Import(x, t) \in Seq(PlainFrame) /\ << >> \in Seq(PlainFrame)
  BY <1>1, ImportTyped
<1> HIDE DEF PlainFrame
<1> QED
  BY <1>1, <1>2, <1>3 DEF Handler, FieldHandler

LEMMA AllocationHandler ==
  ASSUME NEW q \in Query, NEW w \in Write, NEW t, NEW l,
         l = FlowAllocation(q, w) \/ l = BaseAllocation(q, w)
  PROVE  Handler(l, t) \in Seq(PlainFrame)
<1>1. l.on = Fields(q) /\ l.q = q /\ l.w = w /\ l.kind \in {"flow", "base"}
  BY DEF FlowAllocation, BaseAllocation
<1>2. l.on[1] = "fields"
  BY <1>1, AutomataOf
<1>3. AddFlow(w, q) \in PlainFrame /\ AddBase(w, q) \in PlainFrame
  BY DEF AddFlow, AddBase, AllocationFrame, PoiFrame, PlainFrame
<1> HIDE DEF PlainFrame
<1> QED
  BY <1>1, <1>2, <1>3 DEF Handler, FieldHandler

LEMMA PointsToHandler ==
  ASSUME NEW x \in Met, NEW t
  PROVE  Handler(PointsTo(x), t) \in Seq(PlainFrame)
<1> DEFINE l == PointsTo(x)
<1>1. l.on = Fields(x.base) /\ l.x = x /\ l.kind = "pointsTo"
  BY DEF PointsTo
<1>2. l.on[1] = "fields"
  BY <1>1, MetTyped, AutomataOf
<1>3. FlowsTo(x) \in PlainFrame
  BY DEF FlowsTo, RunFrame, PoiFrame, PlainFrame
<1> HIDE DEF PlainFrame, l
<1>4. Handler(l, t) \in Seq(PlainFrame)
  BY <1>1, <1>2, <1>3 DEF Handler, FieldHandler
<1> QED
  BY <1>4 DEF l

LEMMA FieldHandlerTyped ==
  ASSUME TablesInv, NEW l \in FieldListener, NEW t, << l.on, t >> \in trans
  PROVE  Handler(l, t) \in Seq(PlainFrame)
<1>1. CASE \E q \in Query, w \in Write :
             l = FlowAllocation(q, w) \/ l = BaseAllocation(q, w)
  BY <1>1, AllocationHandler
<1>2. CASE \E x \in Met : l = PointsTo(x)
  BY <1>2, PointsToHandler
<1>3. CASE \E x \in active : l = Aliases(x)
  BY <1>3, ImportingHandler
<1>4. CASE \E x \in active, s \in Generated : l = From(x, s)
  BY <1>4, ImportingHandler
<1>5. CASE \E x \in active, e \in Edge, v \in Val : l = AtSite(x, e, v)
  BY <1>5, ImportingHandler
<1> QED
  BY <1>1, <1>2, <1>3, <1>4, <1>5 DEF FieldListener

LEMMA CallAddTyped ==
  ASSUME NEW q \in Query, NEW s \in CallState, NEW e \in Edge, NEW u \in CallState
  PROVE  Add(Calls(q), Tr(s, e, u)) \in PlainFrame
<1>1. Tr(s, e, u) \in CallTransition
  BY DEF Tr, CallTransition
<1>2. << Calls(q), Tr(s, e, u) >> \in Allowed
  BY <1>1, AutomataOf DEF Allowed, AnyTransition
<1> QED
  BY <1>1, <1>2, AutomataOf DEF Add, AddFrame, AnyTransition, AutFrame, PlainFrame

LEMMA CallHandlerTyped ==
  ASSUME TablesInv, NEW l \in CallListener, NEW t, << l.on, t >> \in trans
  PROVE  Handler(l, t) \in Seq(PlainFrame)
<1>1. PICK x \in active :
        \/ l = CallAliases(x) \/ l = AnySite(x)
        \/ \E u \in CallState : l = AtStore(x, u)
        \/ \E e \in Edge : l = OnReach(x, e)
        \/ \E u \in CallTransition : l = FromCall(x, u)
  <2>1. CASE l \in { FromCall(p[1], p[2]) : p \in SiteOf }
    <3>1. PICK p \in SiteOf : l = FromCall(p[1], p[2])
      BY <2>1
    <3>2. p[1] \in active /\ p[2] \in CallTransition
      BY DEF SiteOf
    <3> QED BY <3>1, <3>2
  <2>2. CASE l \notin { FromCall(p[1], p[2]) : p \in SiteOf }
    BY <2>2 DEF CallListener
  <2> QED BY <2>1, <2>2
<1>2. /\ l.on \in {Calls(x.base), Calls(x.flow)} /\ l.x = x
      /\ l.kind \in {"callAliases", "anySite", "atStore", "onReach", "fromCall"}
  BY <1>1 DEF CallAliases, AnySite, AtStore, OnReach, FromCall
<1>3. x.base \in Query /\ x.flow \in Query /\ l.on[1] # "fields"
  BY <1>2, ActiveMet, AutomataOf
<1>4. /\ t \in CallTransition /\ t.start \in CallState /\ t.label \in Edge
      /\ t.target \in CallState
  BY <1>3, TransTyped DEF CallTransition
<1>5. l.kind \in {"atStore", "fromCall"} => l.target \in CallState
  BY <1>1 DEF CallAliases, AnySite, AtStore, OnReach, FromCall, CallTransition
<1>6. l.target \in CallState => Add(Calls(x.flow), Tr(t.start, t.label, l.target)) \in PlainFrame
  BY <1>3, <1>4, CallAddTyped
<1>7. /\ AtStore(x, t.target) \in Listener /\ OnReach(x, t.label) \in Listener
      /\ l.kind = "anySite" => FromCall(x, t) \in Listener
  <2>1. AtStore(x, t.target) \in CallListener /\ OnReach(x, t.label) \in CallListener
    BY <1>4 DEF CallListener
  <2>2. ASSUME l.kind = "anySite" PROVE FromCall(x, t) \in CallListener
    <3>1. l.on = Calls(x.flow)
      BY <1>1, <2>2 DEF CallAliases, AnySite, AtStore, OnReach, FromCall
    <3> PICK p : p = << x, t >>
      OBVIOUS
    <3>2. p \in SiteOf
      BY <1>4, <3>1 DEF SiteOf
    <3> QED BY <3>2 DEF CallListener
  <2> QED BY <2>1, <2>2 DEF Listener
<1>8. t.start \in Val => AtSite(x, t.label, t.start) \in Listener
  BY <1>4 DEF Listener, FieldListener
<1>9. /\ Register(AtStore(x, t.target)) \in PlainFrame
      /\ Register(OnReach(x, t.label)) \in PlainFrame
      /\ l.kind = "anySite" => Register(FromCall(x, t)) \in PlainFrame
      /\ t.start \in Val => Register(AtSite(x, t.label, t.start)) \in PlainFrame
  BY <1>7, <1>8, RegisterTyped
<1> HIDE DEF PlainFrame
<1> QED
  BY <1>2, <1>3, <1>5, <1>6, <1>9 DEF Handler, CallHandler

LEMMA HandlerTyped ==
  ASSUME TablesInv, NEW l \in Listener, NEW t, << l.on, t >> \in trans
  PROVE  Handler(l, t) \in Seq(PlainFrame)
  BY FieldHandlerTyped, CallHandlerTyped DEF Listener

-----------------------------------------------------------------------------
(* The solvers *)

LEMMA Drops ==
  ASSUME Inv, stack # << >>, stack' = Tail(stack),
         Top.op = "add" => << Top.on, Top.t >> \in trans'
  PROVE  Becomes(<< >>) /\ << >> \in Seq(PlainFrame)
<1>1. Tail(stack) \in Seq(Frame)
  BY TopFrame DEF Inv
<1> HIDE DEF Frame, PlainFrame
<1>2. << >> \o Tail(stack) = Tail(stack)
  BY <1>1
<1> QED
  BY <1>2 DEF Becomes

LEMMA DeriveInv ==
  ASSUME Inv, NEW a \in Automaton, NEW t \in Own[a], Derive(a, t)
  PROVE  Inv' /\ BelowKept
<1>1. << a, t >> \in Allowed
  <2>1. PICK q \in Query : a = Fields(q) \/ a = Calls(q)
    BY DEF Automaton, Fields, Calls
  <2>2. IF a = Fields(q) THEN t \in FieldTransition ELSE t \in CallTransition
    BY <2>1, OwnAssumption
  <2>3. a = Fields(q) => Justified(q, t)
    BY DEF Justified
  <2> QED
    BY <2>1, <2>2, <2>3, AutomataOf DEF Allowed, AnyTransition
<1>2. Add(a, t) \in PlainFrame
  BY <1>1 DEF Add, AddFrame, Allowed, AutFrame, PlainFrame
<1>3. << Add(a, t) >> \in Seq(PlainFrame) /\ Becomes(<< Add(a, t) >>)
  BY <1>2 DEF Derive, Becomes
<1> QED
  BY <1>3, OnlyPlain DEF Derive, Tables

LEMMA ReachStoreInv ==
  ASSUME Inv, NEW q \in Query, NEW w \in Write, NEW v, ReachStore(q, w, v)
  PROVE  Inv' /\ BelowKept
<1> DEFINE fs == (IF v = w.stored
                  THEN << BackwardSolve, Register(FlowAllocation(q, w)) >> ELSE << >>)
                 \o (IF v = w.base THEN << Register(BaseAllocation(q, w)) >> ELSE << >>)
<1>1. FlowAllocation(q, w) \in Listener /\ BaseAllocation(q, w) \in Listener
  BY DEF Listener, FieldListener
<1>2. /\ Register(FlowAllocation(q, w)) \in PlainFrame
      /\ Register(BaseAllocation(q, w)) \in PlainFrame
  BY <1>1, RegisterTyped
<1>3. BackwardSolve \in PlainFrame
  BY DEF BackwardSolve, BackwardFrame, PoiFrame, PlainFrame
<1>4. Becomes(fs)
  BY DEF ReachStore, Becomes
<1>5. UNCHANGED Tables
  BY DEF ReachStore, Tables
<1>6. fs \in Seq(PlainFrame)
  <2> HIDE DEF PlainFrame
  <2> QED
    BY <1>2, <1>3
<1> HIDE DEF fs
<1> QED
  BY <1>4, <1>5, <1>6, OnlyPlain

-----------------------------------------------------------------------------
(* The automata *)

LEMMA HeardTyped ==
  ASSUME TablesInv, NEW a, NEW t, << a, t >> \in trans
  PROVE  /\ Index(a, t) \in PlainFrame /\ States(a, t) \in PlainFrame
         /\ \A at : Tell(t, Hearing(a, at)) \in PlainFrame
<1>1. a \in Automaton /\ t \in AnyTransition
  BY TransTyped
<1>2. Index(a, t) \in HeardFrame /\ States(a, t) \in HeardFrame
  BY <1>1 DEF Index, States, HeardFrame
<1>3. \A at : Tell(t, Hearing(a, at)) \in TellFrame
  <2>1. \A at : Hearing(a, at) \subseteq Listener /\ \A l \in Hearing(a, at) : l.on = a
    BY DEF Hearing, TablesInv
  <2> QED
    BY <1>1, <2>1 DEF Tell, TellFrame
<1> QED
  BY <1>2, <1>3 DEF AutFrame, PlainFrame

LEMMA AddTransitionInv == ASSUME Inv, AddTransition PROVE Inv' /\ BelowKept
<1>1. stack # << >> /\ Top.op = "add" /\ Top \in AddFrame
  BY TopFrame DEF AddTransition, Running, Inv
<1>2. << Top.on, Top.t >> \in Allowed
  BY <1>1 DEF AddFrame
<1>3. UNCHANGED << indexed, listeners, poiVars, pairVars, execVars >>
  BY DEF AddTransition
<1>4. CASE << Top.on, Top.t >> \in trans
  <2>1. stack' = Tail(stack) /\ trans' = trans
    BY <1>4 DEF AddTransition
  <2>2. Becomes(<< >>) /\ << >> \in Seq(PlainFrame)
    BY <1>1, <1>4, <2>1, Drops
  <2> QED
    BY <1>3, <2>1, <2>2, OnlyPlain DEF Tables, autVars
<1>5. CASE << Top.on, Top.t >> \notin trans
  <2> DEFINE a == Top.on
             t == Top.t
             tell == Tell(t, Hearing(a, "any"))
  <2>1. trans' = trans \cup {<< a, t >>}
    BY <1>5 DEF AddTransition
  <2>2. /\ bases' = bases /\ flows' = flows /\ activatedPoi' = activatedPoi
        /\ poiListeners' = poiListeners /\ active' = active /\ reachable' = reachable
        /\ delayed' = delayed /\ indexed' = indexed /\ listeners' = listeners
    BY <1>3 DEF poiVars, pairVars, execVars
  <2>3. Grows
    BY <2>1, <2>2 DEF Grows
  <2>4. << a, t >> \in Allowed'
    BY <1>2, <2>3, GrowTables
  <2>5. Index(a, t) \in PlainFrame' /\ States(a, t) \in PlainFrame' /\ tell \in PlainFrame'
    <3>1. Listener \subseteq Listener' /\ Hearing(a, "any") \subseteq Listener
          /\ \A l \in Hearing(a, "any") : l.on = a
      BY <2>3, GrowTables DEF Hearing, Inv, TablesInv
    <3>2. a \in Automaton /\ t \in AnyTransition /\ << a, t >> \in trans'
      BY <1>2, <2>1 DEF Allowed
    <3>3. Index(a, t) \in HeardFrame' /\ States(a, t) \in HeardFrame'
      BY <3>2 DEF Index, States, HeardFrame
    <3>4. tell \in TellFrame'
      BY <3>1, <3>2 DEF Tell, TellFrame
    <3> QED
      BY <3>3, <3>4 DEF AutFrame, PlainFrame
  <2>6. \E fs \in Seq(PlainFrame') : stack' = fs \o Tail(stack)
    <3>1. \E fs \in { << Index(a, t), States(a, t) >>, << Index(a, t), tell >>,
                      << tell, Index(a, t) >> } : stack' = fs \o Tail(stack)
      BY <1>5 DEF AddTransition
    <3> HIDE DEF PlainFrame, a, t, tell
    <3>2. { << Index(a, t), States(a, t) >>, << Index(a, t), tell >>,
            << tell, Index(a, t) >> } \subseteq Seq(PlainFrame')
      BY <2>5
    <3> QED
      BY <3>1, <3>2
  <2>7. PICK fs \in Seq(PlainFrame') : stack' = fs \o Tail(stack)
    BY <2>6
  <2>8. Becomes(fs)
    BY <1>1, <2>1, <2>7 DEF Becomes
  <2>9. fs \in Seq(Frame') /\ Linked(trans', reachable', fs)
    BY <2>7, PlainSeq
  <2> QED
    BY <2>1, <2>2, <2>3, <2>4, <2>8, <2>9, StepInv DEF Inv, TablesInv
<1> QED
  BY <1>4, <1>5

LEMMA IndexTransitionInv == ASSUME Inv, IndexTransition PROVE Inv' /\ BelowKept
<1> DEFINE f == Tell(Top.t, Hearing(Top.on, Place(Top.on, Top.t)))
<1>1. stack # << >> /\ Top.op = "index" /\ Top \in HeardFrame
  BY TopFrame DEF IndexTransition, Running, Inv
<1>2. << Top.on, Top.t >> \in trans
  BY <1>1 DEF HeardFrame
<1>3. f \in PlainFrame
  BY <1>2, HeardTyped DEF Inv
<1>4. /\ trans' = trans /\ bases' = bases /\ flows' = flows /\ activatedPoi' = activatedPoi
      /\ poiListeners' = poiListeners /\ active' = active /\ reachable' = reachable
      /\ delayed' = delayed /\ listeners' = listeners
      /\ indexed' = indexed \cup {<< Top.on, Top.t >>}
  BY DEF IndexTransition, poiVars, pairVars, execVars
<1>5. Grows
  BY <1>4 DEF Grows
<1>6. << f >> \in Seq(PlainFrame')
  <2>1. f \in PlainFrame'
    BY <1>3, <1>5, GrowFrames
  <2> HIDE DEF f, PlainFrame
  <2> QED
    BY <2>1
<1>7. Becomes(<< f >>)
  BY <1>1 DEF IndexTransition, Becomes
<1>8. << f >> \in Seq(Frame') /\ Linked(trans', reachable', << f >>)
  BY <1>6, PlainSeq
<1> HIDE DEF f
<1> QED
  BY <1>2, <1>4, <1>5, <1>7, <1>8, StepInv DEF Inv, TablesInv

LEMMA ServeStatesInv == ASSUME Inv, ServeStates PROVE Inv' /\ BelowKept
<1> DEFINE f == Tell(Top.t, Hearing(Top.on, Top.t.start))
<1>1. stack # << >> /\ Top.op = "states" /\ Top \in HeardFrame
  BY TopFrame DEF ServeStates, Running, Inv
<1>2. << Top.on, Top.t >> \in trans
  BY <1>1 DEF HeardFrame
<1>3. f \in PlainFrame
  BY <1>2, HeardTyped DEF Inv
<1>4. Becomes(<< f >>) /\ UNCHANGED Tables
  BY <1>1 DEF ServeStates, Becomes, Tables
<1>5. << f >> \in Seq(PlainFrame)
  BY <1>3
<1> QED
  BY <1>4, <1>5, OnlyPlain

LEMMA DeliverInv == ASSUME Inv, Deliver PROVE Inv' /\ BelowKept
<1>1. stack # << >> /\ Top.op = "tell" /\ Top \in TellFrame
  BY TopFrame DEF Deliver, Running, Inv
<1>2. PICK l \in Top.ls :
        stack' = Handler(l, Top.t) \o << Tell(Top.t, Top.ls \ {l}) >> \o Tail(stack)
  BY DEF Deliver
<1> DEFINE f == Tell(Top.t, Top.ls \ {l})
           fs == Handler(l, Top.t) \o << f >>
<1>3. Handler(l, Top.t) \in Seq(PlainFrame)
  BY <1>1, HandlerTyped DEF TellFrame, Inv
<1>4. f \in PlainFrame
  BY <1>1 DEF Tell, TellFrame, AutFrame, PlainFrame
<1>5. fs \in Seq(PlainFrame)
  <2> HIDE DEF f, PlainFrame
  <2> QED
    BY <1>3, <1>4
<1>6. Becomes(fs) /\ UNCHANGED Tables
  BY <1>1, <1>2 DEF Deliver, Becomes, Tables
<1> HIDE DEF fs
<1> QED
  BY <1>5, <1>6, OnlyPlain

LEMMA PresentTyped ==
  ASSUME TablesInv, NEW l
  PROVE  \A t \in Present(l) : t \in AnyTransition /\ << l.on, t >> \in trans
<1>1. \A p \in trans \cup indexed : p = << p[1], p[2] >> /\ p[2] \in AnyTransition /\ p \in trans
  BY DEF TablesInv, Allowed
<1> QED
  BY <1>1 DEF Present

LEMMA RegisterListenerInv == ASSUME Inv, RegisterListener PROVE Inv' /\ BelowKept
<1>1. stack # << >> /\ Top.op = "register" /\ Top \in RegisterFrame
  BY TopFrame DEF RegisterListener, Running, Inv
<1>2. Top.l \in Listener
  BY <1>1 DEF RegisterFrame
<1>3. CASE \E l \in listeners : Equal(l, Top.l)
  <2>1. stack' = Tail(stack) /\ UNCHANGED Tables
    BY <1>3 DEF RegisterListener, Tables, autVars
  <2> QED
    BY <1>1, <2>1, Drops, OnlyPlain
<1>4. CASE ~ \E l \in listeners : Equal(l, Top.l)
  <2> DEFINE f == Replay(Top.l, Present(Top.l))
  <2>1. /\ trans' = trans /\ bases' = bases /\ flows' = flows /\ activatedPoi' = activatedPoi
        /\ poiListeners' = poiListeners /\ active' = active /\ reachable' = reachable
        /\ delayed' = delayed /\ indexed' = indexed /\ listeners' = listeners \cup {Top.l}
    BY <1>4 DEF RegisterListener, poiVars, pairVars, execVars
  <2>2. Grows
    BY <2>1 DEF Grows
  <2>3. f \in PlainFrame
    BY <1>2, PresentTyped DEF Replay, ReplayFrame, AutFrame, PlainFrame, Inv
  <2>4. << f >> \in Seq(PlainFrame')
    <3>1. f \in PlainFrame'
      BY <2>2, <2>3, GrowFrames
    <3> HIDE DEF f, PlainFrame
    <3> QED
      BY <3>1
  <2>5. Becomes(<< f >>)
    BY <1>1, <1>4 DEF RegisterListener, Becomes
  <2>6. << f >> \in Seq(Frame') /\ Linked(trans', reachable', << f >>)
    BY <2>4, PlainSeq
  <2>7. listeners' \subseteq listeners \cup Listener'
    BY <1>2, <2>1, <2>2, GrowTables
  <2> HIDE DEF f
  <2> QED
    BY <2>1, <2>2, <2>5, <2>6, <2>7, StepInv DEF Inv, TablesInv
<1> QED
  BY <1>3, <1>4

LEMMA ReplayTransitionInv == ASSUME Inv, ReplayTransition PROVE Inv' /\ BelowKept
<1>1. stack # << >> /\ Top.op = "replay" /\ Top \in ReplayFrame
  BY TopFrame DEF ReplayTransition, Running, Inv
<1>2. PICK t \in Top.ts :
        stack' = Handler(Top.l, t) \o << Replay(Top.l, Top.ts \ {t}) >> \o Tail(stack)
  BY DEF ReplayTransition
<1> DEFINE f == Replay(Top.l, Top.ts \ {t})
           fs == Handler(Top.l, t) \o << f >>
<1>3. Handler(Top.l, t) \in Seq(PlainFrame)
  BY <1>1, HandlerTyped DEF ReplayFrame, Inv
<1>4. f \in PlainFrame
  BY <1>1 DEF Replay, ReplayFrame, AutFrame, PlainFrame
<1>5. fs \in Seq(PlainFrame)
  <2> HIDE DEF f, PlainFrame
  <2> QED
    BY <1>3, <1>4
<1>6. Becomes(fs) /\ UNCHANGED Tables
  BY <1>1, <1>2 DEF ReplayTransition, Becomes, Tables
<1> HIDE DEF fs
<1> QED
  BY <1>5, <1>6, OnlyPlain

-----------------------------------------------------------------------------
(* PointOfIndirection and FieldWritePOI.execute *)

LEMMA ExecuteTyped ==
  ASSUME NEW xs, xs \subseteq Met PROVE Execute(xs) \in PlainFrame
  BY DEF Execute, ExecuteFrame, PoiFrame, PlainFrame

LEMMA AllocationStep ==
  ASSUME Inv, stack # << >>, Top.op # "add", UNCHANGED << autVars, pairVars, execVars >>,
         bases \subseteq bases', flows \subseteq flows',
         bases' \subseteq bases \cup (Write \X Query),
         flows' \subseteq flows \cup (Write \X Query),
         NEW xs, xs \subseteq Met',
         stack' = Tail(stack) \/ stack' = << Execute(xs) >> \o Tail(stack)
  PROVE  Inv' /\ BelowKept
<1>1. /\ trans' = trans /\ activatedPoi' = activatedPoi
      /\ poiListeners' = poiListeners /\ active' = active /\ reachable' = reachable
      /\ delayed' = delayed /\ listeners' = listeners /\ indexed' = indexed
  BY DEF autVars, pairVars, execVars
<1>2. Grows
  BY <1>1 DEF Grows
<1>3. Execute(xs) \in PlainFrame'
  BY DEF Execute, ExecuteFrame, PoiFrame, PlainFrame
<1>4. \E fs \in Seq(PlainFrame') : Becomes(fs)
  <2>1. stack' = Tail(stack) => Becomes(<< >>)
    BY Drops
  <2> HIDE DEF PlainFrame
  <2>2. stack' = << Execute(xs) >> \o Tail(stack) => Becomes(<< Execute(xs) >>)
    BY DEF Becomes
  <2>3. << Execute(xs) >> \in Seq(PlainFrame') /\ << >> \in Seq(PlainFrame')
    BY <1>3
  <2> QED
    BY <2>1, <2>2, <2>3
<1>5. PICK fs \in Seq(PlainFrame') : Becomes(fs)
  BY <1>4
<1>6. fs \in Seq(Frame') /\ Linked(trans', reachable', fs)
  BY <1>5, PlainSeq
<1> QED
  BY <1>1, <1>2, <1>5, <1>6, StepInv DEF Inv, TablesInv

LEMMA NewRuns ==
  ASSUME TablesInv, NEW w \in Write, NEW q \in Query
  PROVE  /\ \A p \in flows : p[1] = w => /\ p = << w, p[2] >> /\ p[2] \in Query
                                         /\ Run(w, q, p[2]) \in Exec
         /\ \A p \in bases : p[1] = w => /\ p = << w, p[2] >> /\ p[2] \in Query
                                         /\ Run(w, p[2], q) \in Exec
<1>1. \A p \in flows : p = << p[1], p[2] >> /\ p[2] \in Query
  BY DEF TablesInv
<1>2. \A p \in bases : p = << p[1], p[2] >> /\ p[2] \in Query
  BY DEF TablesInv
<1>3. \A b, f \in Query : Run(w, b, f) \in Exec
  BY DEF Run, Exec
<1> QED
  BY <1>1, <1>2, <1>3

LEMMA AddBaseAllocationInv == ASSUME Inv, AddBaseAllocation PROVE Inv' /\ BelowKept
<1> DEFINE w == Top.w
           q == Top.q
           new == { Run(w, q, p[2]) : p \in { p \in flows : p[1] = w } }
<1>1. stack # << >> /\ Top.op = "addBase" /\ Top \in AllocationFrame
  BY TopFrame DEF AddBaseAllocation, Running, Inv
<1>2. w \in Write /\ q \in Query
  BY <1>1 DEF AllocationFrame
<1>3. bases' = bases \cup {<< w, q >>} /\ flows' = flows
  BY DEF AddBaseAllocation
<1>4. new \subseteq Met'
  <2>1. ASSUME NEW p \in flows, p[1] = w
        PROVE  Run(w, q, p[2]) \in Met'
    <3>1. p = << w, p[2] >> /\ Run(w, q, p[2]) \in Exec
      BY <1>2, <2>1, NewRuns DEF Inv
    <3>2. << w, q >> \in bases' /\ << w, p[2] >> \in flows'
      BY <1>3, <2>1, <3>1
    <3>3. Run(w, q, p[2]).w = w /\ Run(w, q, p[2]).base = q /\ Run(w, q, p[2]).flow = p[2]
      BY DEF Run
    <3> QED
      BY <3>1, <3>2, <3>3 DEF Met
  <2> QED
    BY <2>1
<1>5. stack' = Tail(stack) \/ stack' = << Execute(new) >> \o Tail(stack)
  BY DEF AddBaseAllocation
<1>6. UNCHANGED << autVars, pairVars, execVars >>
  BY DEF AddBaseAllocation
<1> HIDE DEF w, q, new
<1> QED
  BY <1>1, <1>2, <1>3, <1>4, <1>5, <1>6, AllocationStep

LEMMA AddFlowAllocationInv == ASSUME Inv, AddFlowAllocation PROVE Inv' /\ BelowKept
<1> DEFINE w == Top.w
           q == Top.q
           new == { Run(w, p[2], q) : p \in { p \in bases : p[1] = w } }
<1>1. stack # << >> /\ Top.op = "addFlow" /\ Top \in AllocationFrame
  BY TopFrame DEF AddFlowAllocation, Running, Inv
<1>2. w \in Write /\ q \in Query
  BY <1>1 DEF AllocationFrame
<1>3. flows' = flows \cup {<< w, q >>} /\ bases' = bases
  BY DEF AddFlowAllocation
<1>4. new \subseteq Met'
  <2>1. ASSUME NEW p \in bases, p[1] = w
        PROVE  Run(w, p[2], q) \in Met'
    <3>1. p = << w, p[2] >> /\ Run(w, p[2], q) \in Exec
      BY <1>2, <2>1, NewRuns DEF Inv
    <3>2. << w, q >> \in flows' /\ << w, p[2] >> \in bases'
      BY <1>3, <2>1, <3>1
    <3>3. Run(w, p[2], q).w = w /\ Run(w, p[2], q).flow = q /\ Run(w, p[2], q).base = p[2]
      BY DEF Run
    <3> QED
      BY <3>1, <3>2, <3>3 DEF Met
  <2> QED
    BY <2>1
<1>5. stack' = Tail(stack) \/ stack' = << Execute(new) >> \o Tail(stack)
  BY DEF AddFlowAllocation
<1>6. UNCHANGED << autVars, pairVars, execVars >>
  BY DEF AddFlowAllocation
<1> HIDE DEF w, q, new
<1> QED
  BY <1>1, <1>2, <1>3, <1>4, <1>5, <1>6, AllocationStep

LEMMA RunTyped ==
  ASSUME NEW x \in Met
  PROVE  RegisterActivation(x) \in PlainFrame /\ Solve(x) \in PlainFrame
  BY DEF RegisterActivation, Solve, RunFrame, PoiFrame, PlainFrame

LEMMA ExecuteOneInv == ASSUME Inv, ExecuteOne PROVE Inv' /\ BelowKept
<1>1. stack # << >> /\ Top.op = "execute" /\ Top \in ExecuteFrame
  BY TopFrame DEF ExecuteOne, Running, Inv
<1>2. PICK x \in Top.xs :
        stack' = << RegisterActivation(x), Solve(x), Execute(Top.xs \ {x}) >> \o Tail(stack)
  BY DEF ExecuteOne
<1> DEFINE fs == << RegisterActivation(x), Solve(x), Execute(Top.xs \ {x}) >>
<1>3. x \in Met /\ Top.xs \ {x} \subseteq Met
  BY <1>1 DEF ExecuteFrame
<1>4. fs \in Seq(PlainFrame)
  BY <1>3, RunTyped, ExecuteTyped
<1>5. Becomes(fs) /\ UNCHANGED Tables
  BY <1>1, <1>2 DEF ExecuteOne, Becomes, Tables
<1> HIDE DEF fs
<1> QED
  BY <1>4, <1>5, OnlyPlain

-----------------------------------------------------------------------------
(* The activations of a pair of solvers *)

LEMMA BeginActivationsInv == ASSUME Inv, BeginActivations PROVE Inv' /\ BelowKept
<1> DEFINE f == Activations(Top.x, Activated(Pair(Top.x)))
<1>1. stack # << >> /\ Top.op = "registerActivation" /\ Top \in RunFrame
  BY TopFrame DEF BeginActivations, Running, Inv
<1>2. Activated(Pair(Top.x)) \subseteq FieldState
  BY ActivatedIs DEF Inv, TablesInv
<1>3. f \in PlainFrame
  BY <1>1, <1>2 DEF RunFrame, Activations, ActivationsFrame, ImportFrame, PlainFrame
<1>4. << f >> \in Seq(PlainFrame)
  BY <1>3
<1>5. Becomes(<< f >>) /\ UNCHANGED Tables
  BY <1>1 DEF BeginActivations, Becomes, Tables
<1> QED
  BY <1>4, <1>5, OnlyPlain

\* trigger adds the connecting transition, and then makes its start reachable.
LEMMA TriggerTyped ==
  ASSUME TablesInv, NEW x \in Met, NEW n \in Activated(Pair(x))
  PROVE  /\ Trigger(x, n) \in Seq(Frame)
         /\ Linked(trans, reachable, Trigger(x, n))
<1> DEFINE t == Connecting(x, n)
           g == Add(Fields(x.flow), t)
           h == AddReachable(x, n)
<1>1. n \in FieldState /\ t \in FieldTransition /\ t.start = n
  BY ActivatedIs, ConnectingTyped DEF TablesInv
<1>2. x.flow \in Query /\ Fields(x.flow) \in Automaton /\ Fields(x.flow)[1] = "fields"
      /\ Fields(x.flow)[2] = x.flow
  BY MetTyped, AutomataOf
<1>3. Justified(x.flow, t)
  BY <1>1 DEF Justified, Connects
<1>4. << Fields(x.flow), t >> \in Allowed
  BY <1>1, <1>2, <1>3 DEF Allowed, AnyTransition
<1>5. g \in Frame
  BY <1>1, <1>2, <1>4 DEF Add, AddFrame, AnyTransition, AutFrame, PlainFrame, Frame
<1>6. h \in Frame
  BY <1>1 DEF AddReachable, ReachFrame, Frame
<1>7. g.op # "addReachable" /\ Backs(reachable, g, h.x, h.n)
  BY <1>1 DEF Add, AddReachable, Backs
<1>8. Linked(trans, reachable, << g, h >>)
  BY <1>7, PairLinked
<1> HIDE DEF g, h, Frame
<1>9. << g, h >> \in Seq(Frame)
  BY <1>5, <1>6
<1> QED
  BY <1>8, <1>9 DEF Trigger, g, h, t

LEMMA ThenPlain ==
  ASSUME NEW fs \in Seq(Frame), Linked(trans, reachable, fs), NEW f \in PlainFrame
  PROVE  fs \o << f >> \in Seq(Frame) /\ Linked(trans, reachable, fs \o << f >>)
<1>1. << f >> \in Seq(PlainFrame)
  OBVIOUS
<1>2. Linked(trans, reachable, << f >>)
  BY <1>1, PlainOps, PlainLinked
<1>3. << f >> \in Seq(Frame)
  BY <1>1, PlainIsFrame
<1>4. Linked(trans, reachable, fs \o << f >>)
  BY <1>2, <1>3, LinkedConcat
<1>5. fs \o << f >> \in Seq(Frame)
  BY <1>3
<1> QED
  BY <1>4, <1>5

LEMMA ReplayActivationInv == ASSUME Inv, ReplayActivation PROVE Inv' /\ BelowKept
<1>1. stack # << >> /\ Top.op = "activations" /\ Top \in ActivationsFrame
  BY TopFrame DEF ReplayActivation, Running, Inv
<1>2. Top.x \in Met /\ Top.ns \subseteq Activated(Pair(Top.x)) /\ Top.ns \subseteq FieldState
  BY <1>1 DEF ActivationsFrame
<1>3. ASSUME NEW n \in Top.ns, UNCHANGED poiListeners,
             stack' = Trigger(Top.x, n) \o << Activations(Top.x, Top.ns \ {n}) >> \o Tail(stack)
      PROVE  Inv' /\ BelowKept
  <2> DEFINE f == Activations(Top.x, Top.ns \ {n})
             fs == Trigger(Top.x, n) \o << f >>
  <2>1. f \in PlainFrame
    BY <1>2 DEF Activations, ActivationsFrame, ImportFrame, PlainFrame
  <2>2. Trigger(Top.x, n) \in Seq(Frame) /\ Linked(trans, reachable, Trigger(Top.x, n))
    BY <1>2, <1>3, TriggerTyped DEF Inv
  <2>3. Becomes(fs) /\ UNCHANGED Tables
    BY <1>1, <1>3 DEF ReplayActivation, Becomes, Tables, pairVars
  <2> HIDE DEF f
  <2>4. fs \in Seq(Frame) /\ Linked(trans, reachable, fs)
    BY <2>1, <2>2, ThenPlain
  <2> HIDE DEF fs
  <2> QED
    BY <2>3, <2>4, OnlyStack
<1>4. ASSUME poiListeners' = poiListeners \cup {Top.x}, stack' = Tail(stack)
      PROVE  Inv' /\ BelowKept
  <2>1. /\ trans' = trans /\ activatedPoi' = activatedPoi
        /\ bases' = bases /\ flows' = flows /\ active' = active /\ reachable' = reachable
        /\ delayed' = delayed /\ listeners' = listeners /\ indexed' = indexed
    BY DEF ReplayActivation, autVars, poiVars, execVars
  <2>2. Grows
    BY <2>1 DEF Grows
  <2>3. Becomes(<< >>) /\ << >> \in Seq(PlainFrame')
    BY <1>1, <1>4, Drops
  <2>4. << >> \in Seq(Frame') /\ Linked(trans', reachable', << >>)
    BY <2>3, PlainSeq
  <2>5. Top.x \in Met'
    BY <1>2, <2>2, GrowTables
  <2> QED
    BY <1>4, <2>1, <2>2, <2>3, <2>4, <2>5, StepInv DEF Inv, TablesInv
<1> QED
  BY <1>3, <1>4 DEF ReplayActivation

LEMMA ActivateAllPoisInv == ASSUME Inv, ActivateAllPois PROVE Inv' /\ BelowKept
<1> DEFINE f == TriggerAll(Registered(Top.p), Top.n)
<1>1. stack # << >> /\ Top.op = "activateAll" /\ Top \in ActivateFrame
  BY TopFrame DEF ActivateAllPois, Running, Inv
<1>2. Top.p \in Query \X Query /\ Top.n \in FieldState
  BY <1>1 DEF ActivateFrame
<1>3. /\ trans' = trans /\ poiListeners' = poiListeners
      /\ bases' = bases /\ flows' = flows /\ active' = active /\ reachable' = reachable
      /\ delayed' = delayed /\ listeners' = listeners /\ indexed' = indexed
      /\ activatedPoi' = activatedPoi \cup {<< Top.p, Top.n >>}
  BY DEF ActivateAllPois, autVars, poiVars, execVars
<1>4. Grows
  BY <1>3 DEF Grows
<1>5. f \in PlainFrame'
  <2>1. Registered(Top.p) \subseteq Met'
    BY <1>4, GrowTables DEF Registered, Inv, TablesInv
  <2>2. \A x \in Registered(Top.p) : Top.n \in Activated(Pair(x))'
    <3>1. << Top.p, Top.n >>[1] = Top.p /\ << Top.p, Top.n >>[2] = Top.n
      OBVIOUS
    <3>2. \A x \in Registered(Top.p) : Pair(x) = Top.p
      BY DEF Registered
    <3>3. \A p : Activated(p)' = { e[2] : e \in { e \in activatedPoi' : e[1] = p } }
      BY DEF Activated
    <3> QED
      BY <1>3, <3>1, <3>2, <3>3
  <2>3. f.op = "triggerAll" /\ f = [op |-> "triggerAll", xs |-> Registered(Top.p), n |-> Top.n]
    BY DEF TriggerAll
  <2> QED
    BY <1>2, <2>1, <2>2 DEF TriggerAll, TriggerFrame, ImportFrame, PlainFrame
<1>6. \E fs \in Seq(PlainFrame') : Becomes(fs)
  <2>1. stack' = Tail(stack) => Becomes(<< >>)
    BY <1>1, Drops
  <2> HIDE DEF PlainFrame, f
  <2>2. stack' = << f >> \o Tail(stack) => Becomes(<< f >>)
    BY <1>1 DEF Becomes
  <2>3. << f >> \in Seq(PlainFrame') /\ << >> \in Seq(PlainFrame')
    BY <1>5
  <2>4. stack' = Tail(stack) \/ stack' = << f >> \o Tail(stack)
    BY DEF ActivateAllPois, f
  <2> QED
    BY <2>1, <2>2, <2>3, <2>4
<1>7. PICK fs \in Seq(PlainFrame') : Becomes(fs)
  BY <1>6
<1>8. fs \in Seq(Frame') /\ Linked(trans', reachable', fs)
  BY <1>7, PlainSeq
<1>9. activatedPoi' \subseteq activatedPoi \cup ((Query \X Query) \X FieldState)
  BY <1>2, <1>3
<1> QED
  BY <1>3, <1>4, <1>7, <1>8, <1>9, StepInv DEF Inv, TablesInv

LEMMA TriggerOneInv == ASSUME Inv, TriggerOne PROVE Inv' /\ BelowKept
<1>1. stack # << >> /\ Top.op = "triggerAll" /\ Top \in TriggerFrame
  BY TopFrame DEF TriggerOne, Running, Inv
<1>2. PICK x \in Top.xs :
        stack' = Trigger(x, Top.n) \o << TriggerAll(Top.xs \ {x}, Top.n) >> \o Tail(stack)
  BY DEF TriggerOne
<1> DEFINE f == TriggerAll(Top.xs \ {x}, Top.n)
           fs == Trigger(x, Top.n) \o << f >>
<1>3. x \in Met /\ Top.n \in Activated(Pair(x))
  BY <1>1 DEF TriggerFrame
<1>4. f \in PlainFrame
  BY <1>1 DEF TriggerAll, TriggerFrame, ImportFrame, PlainFrame
<1>5. Trigger(x, Top.n) \in Seq(Frame) /\ Linked(trans, reachable, Trigger(x, Top.n))
  BY <1>3, TriggerTyped DEF Inv
<1>6. Becomes(fs) /\ UNCHANGED Tables
  BY <1>1, <1>2 DEF TriggerOne, Becomes, Tables
<1> HIDE DEF f
<1>7. fs \in Seq(Frame) /\ Linked(trans, reachable, fs)
  BY <1>4, <1>5, ThenPlain
<1> HIDE DEF fs
<1> QED
  BY <1>6, <1>7, OnlyStack

-----------------------------------------------------------------------------
(* ExecuteImportFieldStmtPOI *)

LEMMA StartSolveInv == ASSUME Inv, StartSolve PROVE Inv' /\ BelowKept
<1> DEFINE f == Register(PointsTo(Top.x))
<1>1. stack # << >> /\ Top.op = "solve" /\ Top \in RunFrame
  BY TopFrame DEF StartSolve, Running, Inv
<1>2. Top.x \in Met
  BY <1>1 DEF RunFrame
<1>3. PointsTo(Top.x) \in Listener
  BY <1>2 DEF Listener, FieldListener
<1>4. f \in PlainFrame
  BY <1>3, RegisterTyped
<1>5. stack' = Tail(stack) \/ stack' = << f >> \o Tail(stack)
  BY DEF StartSolve
<1>6. UNCHANGED Tables
  BY DEF StartSolve, Tables
<1> HIDE DEF f
<1>7. stack' = << f >> \o Tail(stack) => Becomes(<< f >>) /\ << f >> \in Seq(PlainFrame)
  BY <1>1, <1>4 DEF Becomes
<1> QED
  BY <1>1, <1>5, <1>6, <1>7, Drops, OnlyPlain

LEMMA BaseFlowsToInv == ASSUME Inv, BaseFlowsTo PROVE Inv' /\ BelowKept
<1> DEFINE x == Top.x
           fs == << Register(Aliases(x)), Register(CallAliases(x)), Register(AnySite(x)) >>
<1>1. stack # << >> /\ Top.op = "flowsTo" /\ Top \in RunFrame
  BY TopFrame DEF BaseFlowsTo, Running, Inv
<1>2. x \in Met
  BY <1>1 DEF RunFrame
<1>3. /\ trans' = trans /\ activatedPoi' = activatedPoi /\ poiListeners' = poiListeners
      /\ bases' = bases /\ flows' = flows /\ reachable' = reachable
      /\ delayed' = delayed /\ listeners' = listeners /\ indexed' = indexed
      /\ active' = active \cup {x}
  BY DEF BaseFlowsTo, autVars, poiVars, pairVars
<1>4. Grows
  BY <1>3 DEF Grows
<1>5. fs \in Seq(PlainFrame')
  <2>1. x \in active'
    BY <1>3
  <2>2. Aliases(x) \in Listener' /\ CallAliases(x) \in Listener' /\ AnySite(x) \in Listener'
    BY <2>1 DEF Listener, FieldListener, CallListener
  <2>3. \A l \in Listener' : Register(l) \in PlainFrame'
    BY DEF Register, RegisterFrame, AutFrame, PlainFrame
  <2> QED
    BY <2>2, <2>3
<1>6. \E gs \in Seq(PlainFrame') : Becomes(gs)
  <2>1. stack' = Tail(stack) => Becomes(<< >>)
    BY <1>1, Drops
  <2>2. stack' = fs \o Tail(stack) => Becomes(fs)
    BY <1>1 DEF Becomes
  <2>3. stack' = Tail(stack) \/ stack' = fs \o Tail(stack)
    BY DEF BaseFlowsTo
  <2> HIDE DEF fs
  <2>4. << >> \in Seq(PlainFrame')
    OBVIOUS
  <2> QED
    BY <1>5, <2>1, <2>2, <2>3, <2>4
<1>7. PICK gs \in Seq(PlainFrame') : Becomes(gs)
  BY <1>6
<1>8. gs \in Seq(Frame') /\ Linked(trans', reachable', gs)
  BY <1>7, PlainSeq
<1>9. active' \subseteq active \cup Met'
  BY <1>2, <1>3, <1>4, GrowTables
<1> HIDE DEF x
<1> QED
  BY <1>3, <1>4, <1>7, <1>8, <1>9, StepInv DEF Inv, TablesInv

\* A copied transition is added before its start is made reachable.
LEMMA CopyTyped ==
  ASSUME TablesInv, NEW x \in Met, NEW t \in FieldTransition, Copied(x, t)
  PROVE  LET fs == << Add(Fields(x.flow), t), AddReachable(x, t.start) >>
         IN  fs \in Seq(Frame) /\ Linked(trans, reachable, fs)
<1> DEFINE g == Add(Fields(x.flow), t)
           h == AddReachable(x, t.start)
<1>1. t.start \in FieldState
  BY DEF FieldTransition
<1>2. x.flow \in Query /\ Fields(x.flow) \in Automaton /\ Fields(x.flow)[1] = "fields"
      /\ Fields(x.flow)[2] = x.flow
  BY MetTyped, AutomataOf
<1>3. << Fields(x.flow), t >> \in Allowed
  BY <1>2 DEF Allowed, AnyTransition, Justified
<1>4. g \in Frame
  BY <1>2, <1>3 DEF Add, AddFrame, AnyTransition, AutFrame, PlainFrame, Frame
<1>5. h \in Frame
  BY <1>1 DEF AddReachable, ReachFrame, Frame
<1>6. g.op # "addReachable" /\ Backs(reachable, g, h.x, h.n)
  BY DEF Add, AddReachable, Backs, Copied
<1>7. Linked(trans, reachable, << g, h >>)
  BY <1>6, PairLinked
<1> HIDE DEF g, h, Frame
<1>8. << g, h >> \in Seq(Frame)
  BY <1>4, <1>5
<1> QED
  BY <1>7, <1>8 DEF g, h

LEMMA QueueOrAddTransitionInv == ASSUME Inv, QueueOrAddTransition PROVE Inv' /\ BelowKept
<1> DEFINE x == Top.x
           t == Top.t
<1>1. stack # << >> /\ Top.op = "queueOrAdd" /\ Top \in QueueFrame
  BY TopFrame DEF QueueOrAddTransition, Running, Inv
<1>2. /\ x \in active /\ x \in Met /\ t \in FieldTransition
      /\ << Fields(x.base), t >> \in trans
  BY <1>1 DEF QueueFrame, Inv, TablesInv
<1>3. CASE << x, t.target >> \in reachable
  <2> DEFINE fs == << Add(Fields(x.flow), t), AddReachable(x, t.start) >>
  <2>1. Copied(x, t)
    BY <1>2, <1>3 DEF Copied
  <2>2. fs \in Seq(Frame) /\ Linked(trans, reachable, fs)
    BY <1>2, <2>1, CopyTyped DEF Inv
  <2>3. Becomes(fs) /\ UNCHANGED Tables
    BY <1>1, <1>3 DEF QueueOrAddTransition, Becomes, Tables, execVars
  <2> HIDE DEF fs
  <2> QED
    BY <2>2, <2>3, OnlyStack
<1>4. CASE << x, t.target >> \notin reachable
  <2>1. /\ trans' = trans /\ activatedPoi' = activatedPoi /\ poiListeners' = poiListeners
        /\ bases' = bases /\ flows' = flows /\ active' = active /\ reachable' = reachable
        /\ listeners' = listeners /\ indexed' = indexed
        /\ delayed' = delayed \cup {<< x, t >>} /\ stack' = Tail(stack)
    BY <1>4 DEF QueueOrAddTransition, autVars, poiVars, pairVars
  <2>2. Grows
    BY <2>1 DEF Grows
  <2>3. Becomes(<< >>) /\ << >> \in Seq(PlainFrame')
    BY <1>1, <2>1, Drops
  <2>4. << >> \in Seq(Frame') /\ Linked(trans', reachable', << >>)
    BY <2>3, PlainSeq
  <2>5. << x, t >> \in Waiting'
    <3>1. << x, t >> \in Waiting
      BY <1>2 DEF Waiting
    <3> QED
      BY <2>2, <3>1, GrowTables
  <2> HIDE DEF x, t
  <2> QED
    BY <2>1, <2>2, <2>3, <2>4, <2>5, StepInv DEF Inv, TablesInv
<1> QED
  BY <1>3, <1>4

LEMMA MakeReachableInv == ASSUME Inv, MakeReachable PROVE Inv' /\ BelowKept
<1> DEFINE x == Top.x
           n == Top.n
           due == { p[2] : p \in { p \in delayed : p[1] = x /\ p[2].target = n } }
           f == Release(x, due)
<1>1. stack # << >> /\ Top.op = "addReachable" /\ Top \in ReachFrame
  BY TopFrame DEF MakeReachable, Running, Inv
<1>2. x \in Met /\ n \in FieldState
  BY <1>1 DEF ReachFrame
<1>3. /\ trans' = trans /\ activatedPoi' = activatedPoi /\ poiListeners' = poiListeners
      /\ bases' = bases /\ flows' = flows /\ active' = active /\ delayed' = delayed
      /\ listeners' = listeners /\ indexed' = indexed
      /\ reachable' = reachable \cup {<< x, n >>}
  BY DEF MakeReachable, autVars, poiVars, pairVars
<1>4. Grows
  BY <1>3 DEF Grows
<1>5. Backed(trans, reachable, x, n)
  <2>1. Len(stack) \in Nat \ {0} /\ stack[1] = Top
    BY <1>1, Popped DEF Inv, Top
  <2>2. 1 \in 1 .. Len(stack) /\ ~ (1 > 1)
    BY <2>1
  <2> QED
    BY <1>1, <2>1, <2>2 DEF Linked, Inv
<1>6. Backed(trans', reachable', x, n)
  BY <1>4, <1>5 DEF Grows, Backed
<1>7. f \in PlainFrame'
  <2>1. ASSUME NEW p \in delayed, p[1] = x, p[2].target = n
        PROVE  /\ p[2] \in FieldTransition /\ x \in active'
               /\ << Fields(x.base), p[2] >> \in trans' /\ << x, p[2].target >> \in reachable'
    <3>1. p[2] \in FieldTransition /\ x \in active /\ << Fields(x.base), p[2] >> \in trans
      BY <2>1 DEF Inv, TablesInv, Waiting
    <3> QED
      BY <1>3, <2>1, <3>1
  <2>2. x \in Met'
    BY <1>2, <1>4, GrowTables
  <2>3. \A t \in due : /\ t \in FieldTransition /\ x \in active'
                        /\ << Fields(x.base), t >> \in trans' /\ << x, t.target >> \in reachable'
    BY <2>1
  <2> HIDE DEF due, x
  <2>4. f \in ReleaseFrame'
    BY <2>2, <2>3 DEF Release, ReleaseFrame, Copied
  <2> QED
    BY <2>4 DEF ImportFrame, PlainFrame
<1>8. \E fs \in Seq(PlainFrame') : Becomes(fs)
  <2>1. stack' = Tail(stack) => Becomes(<< >>)
    BY <1>1, Drops
  <2>2. stack' = Tail(stack) \/ stack' = << f >> \o Tail(stack)
    BY DEF MakeReachable
  <2> HIDE DEF f, PlainFrame
  <2>3. stack' = << f >> \o Tail(stack) => Becomes(<< f >>)
    BY <1>1 DEF Becomes
  <2>4. << f >> \in Seq(PlainFrame') /\ << >> \in Seq(PlainFrame')
    BY <1>7
  <2> QED
    BY <2>1, <2>2, <2>3, <2>4
<1>9. PICK fs \in Seq(PlainFrame') : Becomes(fs)
  BY <1>8
<1>10. fs \in Seq(Frame') /\ Linked(trans', reachable', fs)
  BY <1>9, PlainSeq
<1>11. \A r \in reachable' \ reachable : Backed(trans', reachable', r[1], r[2])
  BY <1>3, <1>6
<1>12. reachable' \subseteq reachable \cup (Met' \X FieldState)
  BY <1>2, <1>3, <1>4, GrowTables
<1> HIDE DEF x, n, due, f
<1> QED
  BY <1>3, <1>4, <1>9, <1>10, <1>11, <1>12, StepInv DEF Inv, TablesInv

LEMMA Triple == ASSUME NEW f, NEW g, NEW h PROVE << f, g, h >> = << f, g >> \o << h >>
  OBVIOUS

LEMMA ReleaseTransitionInv == ASSUME Inv, ReleaseTransition PROVE Inv' /\ BelowKept
<1> DEFINE x == Top.x
<1>1. stack # << >> /\ Top.op = "release" /\ Top \in ReleaseFrame
  BY TopFrame DEF ReleaseTransition, Running, Inv
<1>2. PICK t \in Top.ts :
        stack' = << Add(Fields(x.flow), t), AddReachable(x, t.start),
                    Release(x, Top.ts \ {t}) >> \o Tail(stack)
  BY DEF ReleaseTransition
<1> DEFINE g == Add(Fields(x.flow), t)
           h == AddReachable(x, t.start)
           f == Release(x, Top.ts \ {t})
<1>3. x \in Met /\ t \in FieldTransition /\ Copied(x, t)
  BY <1>1 DEF ReleaseFrame
<1>4. << g, h >> \in Seq(Frame) /\ Linked(trans, reachable, << g, h >>)
  BY <1>3, CopyTyped DEF Inv
<1>5. f \in PlainFrame
  BY <1>1 DEF Release, ReleaseFrame, ImportFrame, PlainFrame
<1> DEFINE fs == << g, h >> \o << f >>
<1>6. Becomes(fs)
  <2>1. stack' = << g, h, f >> \o Tail(stack)
    BY <1>2
  <2> HIDE DEF g, h, f
  <2>2. << g, h, f >> = << g, h >> \o << f >>
    BY Triple
  <2> QED
    BY <1>1, <2>1, <2>2 DEF Becomes
<1>7. UNCHANGED Tables
  BY DEF ReleaseTransition, Tables
<1> HIDE DEF g, h, f
<1>8. fs \in Seq(Frame) /\ Linked(trans, reachable, fs)
  BY <1>4, <1>5, ThenPlain
<1> HIDE DEF fs
<1> QED
  BY <1>6, <1>7, <1>8, OnlyStack

LEMMA ReturnInv == ASSUME Inv, Return PROVE Inv' /\ BelowKept
<1>1. stack # << >> /\ Top.op # "add" /\ stack' = Tail(stack)
  BY DEF Return, Running
<1>2. UNCHANGED Tables
  BY DEF Return, Tables
<1> QED
  BY <1>1, <1>2, Drops, OnlyPlain

-----------------------------------------------------------------------------
LEMMA SolversInv == ASSUME Inv, Solvers PROVE Inv' /\ BelowKept
  BY DeriveInv, ReachStoreInv DEF Solvers

LEMMA EngineInv == ASSUME Inv, Engine PROVE Inv' /\ BelowKept
  BY AddTransitionInv, IndexTransitionInv, ServeStatesInv, DeliverInv, RegisterListenerInv,
     ReplayTransitionInv, AddBaseAllocationInv, AddFlowAllocationInv, ExecuteOneInv,
     BeginActivationsInv, ReplayActivationInv, ActivateAllPoisInv, TriggerOneInv, StartSolveInv,
     BaseFlowsToInv, QueueOrAddTransitionInv, MakeReachableInv, ReleaseTransitionInv, ReturnInv
  DEF Engine

LEMMA NextInv == ASSUME Inv, [Next]_vars PROVE Inv'
<1>1. CASE UNCHANGED vars
  <2>1. UNCHANGED << trans, indexed, listeners, bases, flows, activatedPoi, poiListeners,
                     active, reachable, delayed, stack >>
    BY <1>1 DEF vars, autVars, poiVars, pairVars, execVars
  <2>2. Grows
    BY <2>1 DEF Grows
  <2>3. stack' \in Seq(Frame')
    BY <2>1, <2>2, StackGrows DEF Inv
  <2>4. Linked(trans', reachable', stack') /\ AllBacked'
    BY <2>1 DEF Inv, AllBacked, Linked, Backed, Backs
  <2>5. TablesInv'
    BY <2>1, <2>2, GrowTables DEF Inv, TablesInv
  <2> QED
    BY <2>3, <2>4, <2>5 DEF Inv
<1> QED
  BY <1>1, SolversInv, EngineInv DEF Next

LEMMA Inductive == Spec => []Inv
<1>1. Init => Inv
  BY InitInv
<1>2. Inv /\ [Next]_vars => Inv'
  BY NextInv
<1> QED
  BY <1>1, <1>2, PTL DEF Spec

-----------------------------------------------------------------------------
(* Theorems *)

\* What every table and every call in progress is made of: transitions are in the
\* automaton of their kind, listeners and runs belong to allocations that are known.
THEOREM TypesKept == Spec => [](TablesInv /\ stack \in Seq(Frame))
<1>1. Inv => TablesInv /\ stack \in Seq(Frame)
  BY DEF Inv
<1> QED
  BY <1>1, Inductive, PTL

\* No copied field hangs in the air: what is reachable leads, inside the flow's
\* automaton, to the field that was stored.
THEOREM AlwaysConnected == Spec => []Connected
<1>1. Inv => Connected
  BY DEF Inv, AllBacked, Backed, Connected
<1> QED
  BY <1>1, Inductive, PTL

\* Nothing is invented: a transition of a flow's field automaton is its own, the
\* connection of an activated state, or a copy from a base that flows to a store.
THEOREM NothingInvented == Spec => []WithinImported
<1>1. Inv => WithinImported
  <2> SUFFICES ASSUME Inv, NEW q \in Query,
                      NEW t \in Transitions(Fields(q)) \ Own[Fields(q)]
               PROVE  \E w \in Write, b \in Query :
                        LET x == Run(w, b, q)
                        IN  /\ << w, b >> \in bases /\ << w, q >> \in flows
                            /\ \/ t.start \in Activated(Pair(x)) /\ t = Connecting(x, t.start)
                               \/ /\ x \in active
                                  /\ << Fields(b), t >> \in trans
                                  /\ << x, t.target >> \in reachable
    BY DEF WithinImported
  <2>1. << Fields(q), t >> \in Allowed
    <3>1. \A p \in trans : p = << p[1], p[2] >> /\ p \in Allowed
      BY DEF Inv, TablesInv, Allowed
    <3> QED
      BY <3>1 DEF Transitions
  <2>2. Justified(q, t)
    BY <2>1, AutomataOf DEF Allowed
  <2>3. PICK x \in Met : x.flow = q /\ (Connects(x, t) \/ Copied(x, t))
    BY <2>2 DEF Justified
  <2>4. x = Run(x.w, x.base, q) /\ x.w \in Write /\ x.base \in Query
    BY <2>3, MetTyped
  <2>5. << x.w, x.base >> \in bases /\ << x.w, q >> \in flows
    BY <2>3 DEF Met
  <2> QED
    BY <2>3, <2>4, <2>5 DEF Connects, Copied
<1> QED
  BY <1>1, Inductive, PTL

-----------------------------------------------------------------------------
(* Every pair of a base and a flow allocation is executed: its run is      *)
(* registered, or a call on the stack is going to register it.             *)

WillRegister(g, x) ==
  \/ g.op = "execute" /\ x \in g.xs
  \/ g.op \in {"registerActivation", "activations"} /\ g.x = x
WillSolve(g, x) ==
  \/ g.op = "execute" /\ x \in g.xs
  \/ g.op = "solve" /\ g.x = x
  \/ g.op = "register" /\ g.l = PointsTo(x)

Registers(x) == x \in poiListeners \/ \E g \in Elems(stack) : WillRegister(g, x)
Solves(x) ==
  \/ x.base = x.flow \/ PointsTo(x) \in listeners
  \/ \E g \in Elems(stack) : WillSolve(g, x)

PairsInv == \A x \in Met : Registers(x) /\ Solves(x)

\* What the top frame does not make good stays promised.
LEMMA Carried ==
  ASSUME Inv, BelowKept, poiListeners \subseteq poiListeners', listeners \subseteq listeners',
         NEW x, Registers(x), Solves(x),
         stack # << >> => /\ WillRegister(Top, x) => Registers(x)'
                          /\ WillSolve(Top, x) => Solves(x)'
  PROVE  Registers(x)' /\ Solves(x)'
<1>1. \A g \in Elems(stack) : stack # << >> /\ (g = Top \/ g \in Elems(stack'))
  <2>1. stack \in Seq(Frame) /\ (stack = << >> => Elems(stack) = {})
    BY DEF Inv, Elems
  <2> QED
    BY <2>1, TopOrBelow DEF BelowKept, Top
<1>2. Registers(x)'
  BY <1>1 DEF Registers
<1>3. Solves(x)'
  BY <1>1 DEF Solves
<1> QED
  BY <1>2, <1>3

\* The steps of calls and loops that owe no run anything
LEMMA Unaffected ==
  ASSUME Inv, PairsInv, BelowKept, UNCHANGED poiVars,
         poiListeners \subseteq poiListeners', listeners \subseteq listeners',
         stack # << >> => \A x : ~ WillRegister(Top, x) /\ ~ WillSolve(Top, x)
  PROVE  PairsInv'
<1>1. Met' = Met
  BY DEF Met, poiVars
<1>2. ASSUME NEW x \in Met PROVE Registers(x)' /\ Solves(x)'
  BY <1>2, Carried DEF PairsInv
<1> QED
  BY <1>1, <1>2 DEF PairsInv

LEMMA OnTop ==
  ASSUME stack \in Seq(Frame), stack # << >>, NEW S, NEW fs \in Seq(S),
         stack' = fs \o Tail(stack)
  PROVE  Elems(fs) \subseteq Elems(stack')
<1> DEFINE U == Frame \cup S
           r == Tail(stack)
<1>1. \A A, B : A \subseteq B => Seq(A) \subseteq Seq(B)
  OBVIOUS
<1>2. r \in Seq(Frame)
  BY TopFrame
<1>3. r \in Seq(U) /\ fs \in Seq(U)
  <2>1. Frame \subseteq U /\ S \subseteq U
    OBVIOUS
  <2> HIDE DEF U, Frame, r
  <2> QED
    BY <1>1, <1>2, <2>1
<1> HIDE DEF U, r
<1>4. Elems(fs \o r) = Elems(fs) \cup Elems(r)
  BY <1>3, ConcatElems
<1> QED
  BY <1>4 DEF r

LEMMA TopsOf ==
  ASSUME stack \in Seq(Frame), stack # << >>, NEW f, NEW g, NEW h
  PROVE  /\ stack' = << f >> \o Tail(stack) => f \in Elems(stack')
         /\ stack' = << f, g, h >> \o Tail(stack) =>
              f \in Elems(stack') /\ g \in Elems(stack') /\ h \in Elems(stack')
<1>1. << f >> \in Seq({f}) /\ << f, g, h >> \in Seq({f, g, h})
  OBVIOUS
<1>2. f \in Elems(<< f >>)
  BY DEF Elems
<1>3. f \in Elems(<< f, g, h >>) /\ g \in Elems(<< f, g, h >>) /\ h \in Elems(<< f, g, h >>)
  BY DEF Elems
<1> QED
  BY <1>1, <1>2, <1>3, OnTop

LEMMA SolversPairs == ASSUME Inv, PairsInv, Solvers PROVE PairsInv'
<1>1. UNCHANGED << poiVars, poiListeners, listeners >>
  BY DEF Solvers, Derive, ReachStore, autVars, pairVars
<1>2. stack # << >> => Top.op \in {"index", "states", "tell", "backward"}
  BY DEF Solvers, Derive, ReachStore, ClientTurn
<1>3. stack # << >> => \A x : ~ WillRegister(Top, x) /\ ~ WillSolve(Top, x)
  BY <1>2 DEF WillRegister, WillSolve
<1> QED
  BY <1>1, <1>3, SolversInv, Unaffected

IdleSteps ==
  \/ AddTransition \/ IndexTransition \/ ServeStates \/ Deliver \/ ReplayTransition
  \/ ActivateAllPois \/ TriggerOne
  \/ BaseFlowsTo \/ QueueOrAddTransition \/ MakeReachable \/ ReleaseTransition \/ Return

LEMMA IdlePairs == ASSUME Inv, PairsInv, IdleSteps PROVE PairsInv'
<1>1. BelowKept
  BY EngineInv DEF IdleSteps, Engine
<1>2. CASE Return
  <2>1. UNCHANGED << poiVars, poiListeners, listeners >>
    BY <1>2 DEF Return, autVars, pairVars
  <2>2. \A x : ~ WillRegister(Top, x) /\ ~ WillSolve(Top, x)
    BY <1>2 DEF Return, Running, WillRegister, WillSolve
  <2> QED
    BY <1>1, <2>1, <2>2, Unaffected
<1>3. CASE AddTransition \/ IndexTransition \/ ServeStates \/ Deliver \/ ReplayTransition
  <2>1. UNCHANGED << poiVars, poiListeners, listeners >>
    BY <1>3 DEF AddTransition, IndexTransition, ServeStates, Deliver, ReplayTransition,
                autVars, pairVars
  <2>2. Top.op \in {"add", "index", "states", "tell", "replay"}
    BY <1>3 DEF AddTransition, IndexTransition, ServeStates, Deliver, ReplayTransition, Running
  <2>3. \A x : ~ WillRegister(Top, x) /\ ~ WillSolve(Top, x)
    BY <2>2 DEF WillRegister, WillSolve
  <2> QED
    BY <1>1, <2>1, <2>3, Unaffected
<1>4. CASE \/ ActivateAllPois \/ TriggerOne \/ BaseFlowsTo \/ QueueOrAddTransition
           \/ MakeReachable \/ ReleaseTransition
  <2>1. UNCHANGED << poiVars, poiListeners, listeners >>
    BY <1>4 DEF ActivateAllPois, TriggerOne, BaseFlowsTo, QueueOrAddTransition, MakeReachable,
                ReleaseTransition, autVars, pairVars
  <2>2. Top.op \in {"activateAll", "triggerAll", "flowsTo", "queueOrAdd", "addReachable",
                    "release"}
    BY <1>4 DEF ActivateAllPois, TriggerOne, BaseFlowsTo, QueueOrAddTransition, MakeReachable,
                ReleaseTransition, Running
  <2>3. \A x : ~ WillRegister(Top, x) /\ ~ WillSolve(Top, x)
    BY <2>2 DEF WillRegister, WillSolve
  <2> QED
    BY <1>1, <2>1, <2>3, Unaffected
<1> QED
  BY <1>2, <1>3, <1>4 DEF IdleSteps

LEMMA RegisterPairs == ASSUME Inv, PairsInv, RegisterListener PROVE PairsInv'
<1>1. BelowKept
  BY RegisterListenerInv
<1>2. /\ UNCHANGED << poiVars, poiListeners >> /\ listeners \subseteq listeners'
      /\ stack # << >> /\ Top.op = "register"
  BY DEF RegisterListener, Running, pairVars
<1>3. Met' = Met
  BY <1>2 DEF Met, poiVars
<1>4. ASSUME NEW x \in Met PROVE Registers(x)' /\ Solves(x)'
  <2>1. ~ WillRegister(Top, x)
    BY <1>2 DEF WillRegister
  <2>2. ASSUME WillSolve(Top, x) PROVE Solves(x)'
    <3>1. Top.l = PointsTo(x)
      BY <1>2, <2>2 DEF WillSolve
    <3>2. \A l : Equal(l, Top.l) => l = Top.l
      BY <3>1 DEF Equal, PointsTo
    <3>3. PointsTo(x) \in listeners'
      BY <3>1, <3>2 DEF RegisterListener
    <3> QED
      BY <3>3 DEF Solves
  <2> QED
    BY <1>1, <1>2, <2>1, <2>2, Carried DEF PairsInv
<1> QED
  BY <1>3, <1>4 DEF PairsInv

\* The allocation that comes second executes the pairs it makes.
LEMMA AddBasePairs == ASSUME Inv, PairsInv, AddBaseAllocation PROVE PairsInv'
<1> DEFINE w == Top.w
           q == Top.q
           new == { Run(w, q, p[2]) : p \in { p \in flows : p[1] = w } }
<1>1. BelowKept
  BY AddBaseAllocationInv
<1>2. /\ stack # << >> /\ Top.op = "addBase"
      /\ bases' = bases \cup {<< w, q >>} /\ flows' = flows
      /\ poiListeners' = poiListeners /\ listeners' = listeners
      /\ << w, q >> \notin bases => stack' = << Execute(new) >> \o Tail(stack)
  BY DEF AddBaseAllocation, Running, pairVars, autVars
<1>3. \A x : ~ WillRegister(Top, x) /\ ~ WillSolve(Top, x)
  BY <1>2 DEF WillRegister, WillSolve
<1>4. ASSUME NEW x \in Met PROVE Registers(x)' /\ Solves(x)'
  BY <1>1, <1>2, <1>3, Carried DEF PairsInv
<1>5. ASSUME NEW x \in Met', x \notin Met PROVE Registers(x)' /\ Solves(x)'
  <2>1. x \in Exec /\ << x.w, x.base >> \in bases' /\ << x.w, x.flow >> \in flows
    BY <1>2, <1>5 DEF Met
  <2>2. << x.w, x.base >> = << w, q >> /\ << w, q >> \notin bases
    BY <1>2, <1>5, <2>1 DEF Met
  <2>3. x = Run(w, q, x.flow) /\ << w, x.flow >> \in flows
    BY <2>1, <2>2 DEF Exec, Run
  <2>4. x \in new
    <3>1. << w, x.flow >>[1] = w /\ << w, x.flow >>[2] = x.flow
      OBVIOUS
    <3> QED
      BY <2>3, <3>1
  <2>5. Execute(new) \in Elems(stack')
    <3>1. stack \in Seq(Frame) /\ stack' = << Execute(new) >> \o Tail(stack)
      BY <1>2, <2>2 DEF Inv
    <3> QED
      BY <1>2, <3>1, TopsOf
  <2>6. WillRegister(Execute(new), x) /\ WillSolve(Execute(new), x)
    BY <2>4 DEF WillRegister, WillSolve, Execute
  <2> HIDE DEF new
  <2> QED
    BY <2>5, <2>6 DEF Registers, Solves
<1> QED
  BY <1>4, <1>5 DEF PairsInv

LEMMA AddFlowPairs == ASSUME Inv, PairsInv, AddFlowAllocation PROVE PairsInv'
<1> DEFINE w == Top.w
           q == Top.q
           new == { Run(w, p[2], q) : p \in { p \in bases : p[1] = w } }
<1>1. BelowKept
  BY AddFlowAllocationInv
<1>2. /\ stack # << >> /\ Top.op = "addFlow"
      /\ flows' = flows \cup {<< w, q >>} /\ bases' = bases
      /\ poiListeners' = poiListeners /\ listeners' = listeners
      /\ << w, q >> \notin flows => stack' = << Execute(new) >> \o Tail(stack)
  BY DEF AddFlowAllocation, Running, pairVars, autVars
<1>3. \A x : ~ WillRegister(Top, x) /\ ~ WillSolve(Top, x)
  BY <1>2 DEF WillRegister, WillSolve
<1>4. ASSUME NEW x \in Met PROVE Registers(x)' /\ Solves(x)'
  BY <1>1, <1>2, <1>3, Carried DEF PairsInv
<1>5. ASSUME NEW x \in Met', x \notin Met PROVE Registers(x)' /\ Solves(x)'
  <2>1. x \in Exec /\ << x.w, x.flow >> \in flows' /\ << x.w, x.base >> \in bases
    BY <1>2, <1>5 DEF Met
  <2>2. << x.w, x.flow >> = << w, q >> /\ << w, q >> \notin flows
    BY <1>2, <1>5, <2>1 DEF Met
  <2>3. x = Run(w, x.base, q) /\ << w, x.base >> \in bases
    BY <2>1, <2>2 DEF Exec, Run
  <2>4. x \in new
    <3>1. << w, x.base >>[1] = w /\ << w, x.base >>[2] = x.base
      OBVIOUS
    <3> QED
      BY <2>3, <3>1
  <2>5. Execute(new) \in Elems(stack')
    <3>1. stack \in Seq(Frame) /\ stack' = << Execute(new) >> \o Tail(stack)
      BY <1>2, <2>2 DEF Inv
    <3> QED
      BY <1>2, <3>1, TopsOf
  <2>6. WillRegister(Execute(new), x) /\ WillSolve(Execute(new), x)
    BY <2>4 DEF WillRegister, WillSolve, Execute
  <2> HIDE DEF new
  <2> QED
    BY <2>5, <2>6 DEF Registers, Solves
<1> QED
  BY <1>4, <1>5 DEF PairsInv

LEMMA ExecuteOnePairs == ASSUME Inv, PairsInv, ExecuteOne PROVE PairsInv'
<1>1. BelowKept
  BY ExecuteOneInv
<1>2. /\ stack # << >> /\ Top.op = "execute" /\ stack \in Seq(Frame)
      /\ UNCHANGED << poiVars, poiListeners, listeners >>
  BY DEF ExecuteOne, Running, pairVars, autVars, Inv
<1>3. PICK y \in Top.xs :
        stack' = << RegisterActivation(y), Solve(y), Execute(Top.xs \ {y}) >> \o Tail(stack)
  BY DEF ExecuteOne
<1>4. /\ RegisterActivation(y) \in Elems(stack') /\ Solve(y) \in Elems(stack')
      /\ Execute(Top.xs \ {y}) \in Elems(stack')
  BY <1>2, <1>3, TopsOf
<1>5. Met' = Met
  BY <1>2 DEF Met, poiVars
<1>6. ASSUME NEW x \in Met PROVE Registers(x)' /\ Solves(x)'
  <2>1. ASSUME x \in Top.xs PROVE Registers(x)' /\ Solves(x)'
    <3>1. CASE x = y
      <4>1. WillRegister(RegisterActivation(y), x) /\ WillSolve(Solve(y), x)
        BY <3>1 DEF WillRegister, WillSolve, RegisterActivation, Solve
      <4> QED
        BY <1>4, <4>1 DEF Registers, Solves
    <3>2. CASE x # y
      <4> DEFINE f == Execute(Top.xs \ {y})
      <4>1. WillRegister(f, x) /\ WillSolve(f, x)
        BY <2>1, <3>2 DEF WillRegister, WillSolve, Execute
      <4> HIDE DEF f
      <4>2. f \in Elems(stack')
        BY <1>4 DEF f
      <4> QED
        BY <4>1, <4>2 DEF Registers, Solves
    <3> QED
      BY <3>1, <3>2
  <2>2. WillRegister(Top, x) \/ WillSolve(Top, x) => x \in Top.xs
    BY <1>2 DEF WillRegister, WillSolve
  <2> QED
    BY <1>1, <1>2, <2>1, <2>2, Carried DEF PairsInv
<1> QED
  BY <1>5, <1>6 DEF PairsInv

LEMMA BeginActivationsPairs == ASSUME Inv, PairsInv, BeginActivations PROVE PairsInv'
<1> DEFINE f == Activations(Top.x, Activated(Pair(Top.x)))
<1>1. BelowKept
  BY BeginActivationsInv
<1>2. /\ stack # << >> /\ Top.op = "registerActivation" /\ stack \in Seq(Frame)
      /\ UNCHANGED << poiVars, poiListeners, listeners >>
      /\ stack' = << f >> \o Tail(stack)
  BY DEF BeginActivations, Running, pairVars, autVars, Inv
<1>3. f \in Elems(stack')
  BY <1>2, TopsOf
<1>4. Met' = Met
  BY <1>2 DEF Met, poiVars
<1>5. ASSUME NEW x \in Met PROVE Registers(x)' /\ Solves(x)'
  <2>1. ~ WillSolve(Top, x)
    BY <1>2 DEF WillSolve
  <2>2. ASSUME WillRegister(Top, x) PROVE Registers(x)'
    <3>1. WillRegister(f, x)
      BY <1>2, <2>2 DEF WillRegister, Activations
    <3> HIDE DEF f
    <3> QED
      BY <1>3, <3>1 DEF Registers
  <2> QED
    BY <1>1, <1>2, <2>1, <2>2, Carried DEF PairsInv
<1> QED
  BY <1>4, <1>5 DEF PairsInv

LEMMA ReplayActivationPairs == ASSUME Inv, PairsInv, ReplayActivation PROVE PairsInv'
<1>1. BelowKept
  BY ReplayActivationInv
<1>2. /\ stack # << >> /\ Top.op = "activations" /\ stack \in Seq(Frame)
      /\ UNCHANGED << poiVars, listeners >> /\ poiListeners \subseteq poiListeners'
  BY DEF ReplayActivation, Running, autVars, Inv
<1>3. Met' = Met
  BY <1>2 DEF Met, poiVars
<1>4. ASSUME NEW x \in Met, Top.x = x PROVE Registers(x)'
  <2>1. CASE poiListeners' = poiListeners \cup {Top.x}
    BY <1>4, <2>1 DEF Registers
  <2>2. ASSUME NEW n \in Top.ns,
               stack' = Trigger(Top.x, n) \o << Activations(Top.x, Top.ns \ {n}) >> \o Tail(stack)
        PROVE  Registers(x)'
    <3> DEFINE f == Activations(Top.x, Top.ns \ {n})
               g == Add(Fields(Top.x.flow), Connecting(Top.x, n))
               h == AddReachable(Top.x, n)
    <3>1. stack' = << g, h >> \o << f >> \o Tail(stack)
      BY <2>2 DEF Trigger
    <3>2. WillRegister(f, x)
      BY <1>4 DEF WillRegister, Activations
    <3> HIDE DEF f, g, h
    <3>3. << g, h >> \o << f >> = << g, h, f >>
      BY Triple
    <3>4. f \in Elems(stack')
      BY <1>2, <3>1, <3>3, TopsOf
    <3> QED
      BY <3>2, <3>4 DEF Registers
  <2> QED
    BY <2>1, <2>2 DEF ReplayActivation
<1>5. ASSUME NEW x \in Met PROVE Registers(x)' /\ Solves(x)'
  <2>1. ~ WillSolve(Top, x) /\ (WillRegister(Top, x) => Top.x = x)
    BY <1>2 DEF WillSolve, WillRegister
  <2> QED
    BY <1>1, <1>2, <1>4, <2>1, Carried DEF PairsInv
<1> QED
  BY <1>3, <1>5 DEF PairsInv

LEMMA StartSolvePairs == ASSUME Inv, PairsInv, StartSolve PROVE PairsInv'
<1> DEFINE f == Register(PointsTo(Top.x))
<1>1. BelowKept
  BY StartSolveInv
<1>2. /\ stack # << >> /\ Top.op = "solve" /\ stack \in Seq(Frame)
      /\ UNCHANGED << poiVars, poiListeners, listeners >>
      /\ Top.x.base = Top.x.flow \/ stack' = << f >> \o Tail(stack)
  BY DEF StartSolve, Running, pairVars, autVars, Inv
<1>3. Top.x.base = Top.x.flow \/ f \in Elems(stack')
  BY <1>2, TopsOf
<1>4. Met' = Met
  BY <1>2 DEF Met, poiVars
<1>5. ASSUME NEW x \in Met PROVE Registers(x)' /\ Solves(x)'
  <2>1. ~ WillRegister(Top, x)
    BY <1>2 DEF WillRegister
  <2>2. ASSUME WillSolve(Top, x) PROVE Solves(x)'
    <3>1. Top.x = x
      BY <1>2, <2>2 DEF WillSolve
    <3>2. WillSolve(f, x)
      BY <3>1 DEF WillSolve, Register
    <3> HIDE DEF f
    <3> QED
      BY <1>3, <3>1, <3>2 DEF Solves
  <2> QED
    BY <1>1, <1>2, <2>1, <2>2, Carried DEF PairsInv
<1> QED
  BY <1>4, <1>5 DEF PairsInv

LEMMA NextPairs == ASSUME Inv, PairsInv, [Next]_vars PROVE PairsInv'
<1>1. CASE UNCHANGED vars
  <2>1. UNCHANGED << bases, flows, poiListeners, listeners, stack >>
    BY <1>1 DEF vars, autVars, poiVars, pairVars
  <2> QED
    BY <2>1 DEF PairsInv, Met, Registers, Solves
<1>2. CASE Engine
  BY <1>2, IdlePairs, RegisterPairs, AddBasePairs, AddFlowPairs, ExecuteOnePairs,
     BeginActivationsPairs, ReplayActivationPairs, StartSolvePairs
  DEF Engine, IdleSteps
<1> QED
  BY <1>1, <1>2, SolversPairs DEF Next

\* Whichever allocation of a store is found first, and whatever interrupts the
\* execution of other pairs, every pair is executed.
THEOREM PairsExecuted == Spec => []PairsMeet
<1>1. Init => Inv /\ PairsInv
  <2>1. Init => Met = {}
    BY DEF Init, Met
  <2> QED
    BY <2>1, InitInv DEF PairsInv
<1>2. (Inv /\ PairsInv) /\ [Next]_vars => (Inv /\ PairsInv)'
  BY NextInv, NextPairs
<1>3. PairsInv => PairsMeet
  <2> SUFFICES ASSUME PairsInv, stack = << >>, NEW w \in Write, NEW b \in Query, NEW f \in Query,
                      << w, b >> \in bases, << w, f >> \in flows
               PROVE  /\ Run(w, b, f) \in poiListeners
                      /\ b # f => PointsTo(Run(w, b, f)) \in listeners
    BY DEF PairsMeet, Quiet
  <2>1. Run(w, b, f) \in Met /\ Run(w, b, f).base = b /\ Run(w, b, f).flow = f
    BY DEF Met, Exec, Run
  <2>2. Elems(stack) = {}
    BY DEF Elems
  <2> QED
    BY <2>1, <2>2 DEF PairsInv, Registers, Solves
<1> QED
  BY <1>1, <1>2, <1>3, PTL DEF Spec

-----------------------------------------------------------------------------
(* Nothing is lost.  A call that was to be made is on the stack, or what   *)
(* it does has been done.                                                  *)

Pending(c) == c \in Elems(stack)

Entering(x, t) ==
  /\ << Fields(x.flow), t >> \in trans \/ Pending(Add(Fields(x.flow), t))
  /\ << x, t.start >> \in reachable \/ Pending(AddReachable(x, t.start))

\* The calls listeners make
HandlerOps ==
  {"add", "register", "addFlow", "addBase", "flowsTo", "activateAll", "queueOrAdd"}

Made(c) ==
  \/ Pending(c)
  \/ c.op = "add" /\ << c.on, c.t >> \in trans
  \/ c.op = "register" /\ \E k \in listeners : Equal(k, c.l)
  \/ c.op = "addFlow" /\ << c.w, c.q >> \in flows
  \/ c.op = "addBase" /\ << c.w, c.q >> \in bases
  \/ c.op = "flowsTo" /\ c.x \in active
  \/ c.op = "activateAll" /\ << c.p, c.n >> \in activatedPoi
  \/ c.op = "queueOrAdd" /\ (<< c.x, c.t >> \in delayed \/ Entering(c.x, c.t))
  \/ c.op \notin HandlerOps

TablesGrow ==
  /\ trans \subseteq trans' /\ indexed \subseteq indexed' /\ listeners \subseteq listeners'
  /\ bases \subseteq bases' /\ flows \subseteq flows'
  /\ activatedPoi \subseteq activatedPoi' /\ poiListeners \subseteq poiListeners'
  /\ active \subseteq active' /\ reachable \subseteq reachable' /\ delayed \subseteq delayed'

LEMMA NextGrows == ASSUME [Next]_vars PROVE TablesGrow
<1> USE DEF TablesGrow, autVars, poiVars, pairVars, execVars
<1>1. CASE Solvers
  BY <1>1 DEF Solvers, Derive, ReachStore
<1>2. CASE \/ AddTransition \/ IndexTransition \/ ServeStates \/ Deliver
           \/ RegisterListener \/ ReplayTransition
  BY <1>2 DEF AddTransition, IndexTransition, ServeStates, Deliver, RegisterListener,
    ReplayTransition
<1>3. CASE \/ AddBaseAllocation \/ AddFlowAllocation \/ ExecuteOne \/ BeginActivations
           \/ ReplayActivation \/ ActivateAllPois \/ TriggerOne \/ StartSolve
  BY <1>3 DEF AddBaseAllocation, AddFlowAllocation, ExecuteOne, BeginActivations,
    ReplayActivation, ActivateAllPois, TriggerOne, StartSolve
<1>4. CASE \/ BaseFlowsTo \/ QueueOrAddTransition \/ MakeReachable \/ ReleaseTransition
           \/ Return
  BY <1>4 DEF BaseFlowsTo, QueueOrAddTransition, MakeReachable, ReleaseTransition, Return
<1>5. CASE UNCHANGED vars
  BY <1>5 DEF vars
<1> QED BY <1>1, <1>2, <1>3, <1>4, <1>5 DEF Next, Engine

\* The call on top says what the engine does.
LEMMA EngineBy ==
  ASSUME Engine
  PROVE  /\ stack # << >>
         /\ Top.op = "add" => AddTransition
         /\ Top.op = "index" => IndexTransition
         /\ Top.op = "states" => ServeStates
         /\ Top.op = "tell" => Deliver \/ (Top.ls = {} /\ Return)
         /\ Top.op = "register" => RegisterListener
         /\ Top.op = "replay" => ReplayTransition \/ (Top.ts = {} /\ Return)
         /\ Top.op = "addBase" => AddBaseAllocation
         /\ Top.op = "addFlow" => AddFlowAllocation
         /\ Top.op = "activations" => ReplayActivation
         /\ Top.op = "activateAll" => ActivateAllPois
         /\ Top.op = "triggerAll" => TriggerOne \/ (Top.xs = {} /\ Return)
         /\ Top.op = "flowsTo" => BaseFlowsTo
         /\ Top.op = "queueOrAdd" => QueueOrAddTransition
         /\ Top.op = "addReachable" => MakeReachable
         /\ Top.op = "release" => ReleaseTransition \/ (Top.ts = {} /\ Return)
<1>1. /\ AddTransition => Running("add")
      /\ IndexTransition => Running("index")
      /\ ServeStates => Running("states")
      /\ Deliver => Running("tell")
      /\ RegisterListener => Running("register")
      /\ ReplayTransition => Running("replay")
      /\ AddBaseAllocation => Running("addBase")
      /\ AddFlowAllocation => Running("addFlow")
      /\ ExecuteOne => Running("execute")
      /\ BeginActivations => Running("registerActivation")
  BY DEF AddTransition, IndexTransition, ServeStates, Deliver, RegisterListener,
    ReplayTransition, AddBaseAllocation, AddFlowAllocation, ExecuteOne, BeginActivations
<1>2. /\ ReplayActivation => Running("activations")
      /\ ActivateAllPois => Running("activateAll")
      /\ TriggerOne => Running("triggerAll")
      /\ StartSolve => Running("solve")
      /\ BaseFlowsTo => Running("flowsTo")
      /\ QueueOrAddTransition => Running("queueOrAdd")
      /\ MakeReachable => Running("addReachable")
      /\ ReleaseTransition => Running("release")
      /\ Return => \/ Running("tell") /\ Top.ls = {}
                   \/ Running("replay") /\ Top.ts = {}
                   \/ Running("release") /\ Top.ts = {}
                   \/ Running("execute")
                   \/ Running("triggerAll") /\ Top.xs = {}
                   \/ Running("backward")
  BY DEF ReplayActivation, ActivateAllPois, TriggerOne, StartSolve, BaseFlowsTo,
    QueueOrAddTransition, MakeReachable, ReleaseTransition, Return
<1> QED BY <1>1, <1>2 DEF Engine, Running

LEMMA OneCall == ASSUME NEW a PROVE Elems(<< >>) = {} /\ Elems(<< a >>) = {a}
  BY DEF Elems

LEMMA TwoCalls == ASSUME NEW a, NEW b PROVE Elems(<< a, b >>) = {a, b}
  BY DEF Elems

LEMMA ThreeCalls == ASSUME NEW a, NEW b, NEW c PROVE Elems(<< a, b, c >>) = {a, b, c}
  BY DEF Elems

LEMMA FewTyped ==
  ASSUME NEW a, NEW b, NEW c, NEW fs,
         fs = << >> \/ fs = << a >> \/ fs = << a, b >> \/ fs = << a, b, c >>
  PROVE  fs \in Seq({a, b, c})
<1>1. /\ << >> \in Seq({a, b, c}) /\ << a >> \in Seq({a, b, c})
      /\ << a, b >> \in Seq({a, b, c}) /\ << a, b, c >> \in Seq({a, b, c})
  OBVIOUS
<1> QED BY <1>1

LEMMA PushedOn ==
  ASSUME Inv, NEW U, NEW fs \in Seq(U), stack' = fs \o stack
  PROVE  Elems(stack') = Elems(fs) \cup Elems(stack)
<1> DEFINE T == Frame \cup U
<1>1. stack \in Seq(T) /\ fs \in Seq(T)
  <2>1. \A A, B : A \subseteq B => Seq(A) \subseteq Seq(B)
    OBVIOUS
  <2> QED BY <2>1 DEF Inv
<1> HIDE DEF T
<1> QED BY <1>1, ConcatElems

LEMMA SolversKeep == ASSUME Inv, Solvers PROVE Elems(stack) \subseteq Elems(stack')
<1>1. CASE \E a \in Automaton : \E t \in Own[a] : Derive(a, t)
  <2>1. PICK a, t : stack' = << Add(a, t) >> \o stack
    BY <1>1 DEF Derive
  <2> PICK f : f = Add(a, t)
    OBVIOUS
  <2>2. << f >> \in Seq({f}) /\ stack' = << f >> \o stack
    BY <2>1
  <2> QED BY <2>2, PushedOn
<1>2. CASE \E q \in Query, w \in Write : \E v \in {w.base, w.stored} : ReachStore(q, w, v)
  <2>1. PICK q, w, v : ReachStore(q, w, v)
    BY <1>2
  <2> PICK a, b, c : /\ a = BackwardSolve /\ b = Register(FlowAllocation(q, w))
                     /\ c = Register(BaseAllocation(q, w))
    OBVIOUS
  <2> PICK fs : fs = IF v = w.stored THEN << a, b >> ELSE << >>
    OBVIOUS
  <2> PICK gs : gs = IF v = w.base THEN << c >> ELSE << >>
    OBVIOUS
  <2>2. stack' = fs \o gs \o stack
    BY <2>1 DEF ReachStore
  <2>3. fs \in Seq({a, b, c}) /\ gs \in Seq({a, b, c})
    <3>1. << >> \in Seq({a, b, c}) /\ << a, b >> \in Seq({a, b, c}) /\ << c >> \in Seq({a, b, c})
      OBVIOUS
    <3> QED BY <3>1
  <2>4. fs \o gs \in Seq({a, b, c})
    BY <2>3
  <2> PICK hs : hs = fs \o gs
    OBVIOUS
  <2> QED BY <2>2, <2>4, PushedOn
<1> QED BY <1>1, <1>2 DEF Solvers

LEMMA PendingStays ==
  ASSUME Inv, [Next]_vars, NEW c, Pending(c)
  PROVE  Pending(c)' \/ (Engine /\ c = Top)
<1>1. CASE Solvers
  BY <1>1, SolversKeep DEF Pending
<1>2. CASE Engine
  <2>1. stack # << >> /\ BelowKept
    BY <1>2, EngineBy, EngineInv
  <2> QED BY <1>2, <2>1, TopOrBelow DEF Inv, BelowKept, Pending, Top
<1>3. CASE UNCHANGED vars
  BY <1>3 DEF vars, Pending
<1> QED BY <1>1, <1>2, <1>3 DEF Next

\* The calls that take the place of the top one
LEMMA Brought ==
  ASSUME Inv, stack # << >>, NEW a, NEW b, NEW c, NEW fs,
         fs = << >> \/ fs = << a >> \/ fs = << a, b >> \/ fs = << a, b, c >>,
         stack' = fs \o Tail(stack)
  PROVE  \A f \in Elems(fs) : Pending(f)'
<1>1. fs \in Seq({a, b, c})
  BY FewTyped
<1> QED BY <1>1, OnTop DEF Inv, Pending

LEMMA BroughtTwo ==
  ASSUME Inv, stack # << >>, NEW f, NEW g, stack' = << f, g >> \o Tail(stack)
  PROVE  Pending(f)' /\ Pending(g)'
<1> PICK fs : fs = << f, g >>
  OBVIOUS
<1>1. \A h \in Elems(fs) : Pending(h)'
  BY Brought
<1>2. Elems(fs) = {f, g}
  BY TwoCalls
<1> QED BY <1>1, <1>2

-----------------------------------------------------------------------------
(* A call that is made stays made. *)

\* A transition to add and a state to make reachable, one after the other
LEMMA AddedKept ==
  ASSUME Inv, [Next]_vars, NEW a, NEW t, << a, t >> \in trans \/ Pending(Add(a, t))
  PROVE  (<< a, t >> \in trans \/ Pending(Add(a, t)))'
<1> PICK c : c = Add(a, t)
  OBVIOUS
<1>1. << a, t >> \in trans' \/ Pending(c)' => (<< a, t >> \in trans \/ Pending(Add(a, t)))'
  BY DEF Pending, Add
<1>2. CASE << a, t >> \in trans
  BY <1>1, <1>2, NextGrows DEF TablesGrow
<1>3. CASE Pending(c) /\ Engine /\ c = Top
  <2>1. AddTransition /\ Top.on = a /\ Top.t = t
    BY <1>3, EngineBy DEF Add
  <2> QED BY <1>1, <2>1 DEF AddTransition
<1> QED BY <1>1, <1>2, <1>3, PendingStays

LEMMA ReachingKept ==
  ASSUME Inv, [Next]_vars, NEW x, NEW n,
         << x, n >> \in reachable \/ Pending(AddReachable(x, n))
  PROVE  (<< x, n >> \in reachable \/ Pending(AddReachable(x, n)))'
<1> PICK c : c = AddReachable(x, n)
  OBVIOUS
<1>1. << x, n >> \in reachable' \/ Pending(c)'
        => (<< x, n >> \in reachable \/ Pending(AddReachable(x, n)))'
  BY DEF Pending, AddReachable
<1>2. CASE << x, n >> \in reachable
  BY <1>1, <1>2, NextGrows DEF TablesGrow
<1>3. CASE Pending(c) /\ Engine /\ c = Top
  <2>1. MakeReachable /\ Top.x = x /\ Top.n = n
    BY <1>3, EngineBy DEF AddReachable
  <2> QED BY <1>1, <2>1 DEF MakeReachable
<1> QED BY <1>1, <1>2, <1>3, PendingStays

LEMMA EnteringKept ==
  ASSUME Inv, [Next]_vars, NEW x, NEW t, Entering(x, t) PROVE Entering(x, t)'
<1>1. /\ (<< Fields(x.flow), t >> \in trans \/ Pending(Add(Fields(x.flow), t)))'
      /\ (<< x, t.start >> \in reachable \/ Pending(AddReachable(x, t.start)))'
  BY AddedKept, ReachingKept DEF Entering
<1> QED BY <1>1 DEF Entering

\* The two calls that copy t
LEMMA BothEnter ==
  ASSUME NEW x, NEW t, Pending(Add(Fields(x.flow), t))', Pending(AddReachable(x, t.start))'
  PROVE  Entering(x, t)'
  BY DEF Entering

LEMMA QueueOrAddMade ==
  ASSUME Inv, QueueOrAddTransition, NEW x, NEW t, x = Top.x, t = Top.t
  PROVE  << x, t >> \in delayed' \/ Entering(x, t)'
<1>1. CASE << x, t.target >> \notin reachable
  BY <1>1 DEF QueueOrAddTransition
<1>2. CASE << x, t.target >> \in reachable
  <2> PICK a, b : a = Add(Fields(x.flow), t) /\ b = AddReachable(x, t.start)
    OBVIOUS
  <2>1. stack' = << a, b >> \o Tail(stack) /\ stack # << >>
    BY <1>2 DEF QueueOrAddTransition, Running
  <2>2. a \in Elems(<< a, b >>) /\ b \in Elems(<< a, b >>)
    BY TwoCalls
  <2>3. Pending(a)' /\ Pending(b)'
    BY <2>1, <2>2, Brought
  <2> QED BY <2>3, BothEnter
<1> QED BY <1>1, <1>2

LEMMA EqualItself == ASSUME NEW l PROVE Equal(l, l)
  BY DEF Equal

LEMMA MadeKept ==
  ASSUME Inv, [Next]_vars, NEW c, Made(c)
  PROVE  Made(c)'
<1>1. CASE c.op = "queueOrAdd" /\ Entering(c.x, c.t)
  <2> PICK x, t : x = c.x /\ t = c.t
    OBVIOUS
  <2>1. Entering(x, t)'
    BY <1>1, EnteringKept
  <2> QED BY <1>1, <2>1 DEF Made
<1>2. CASE ~ Pending(c) /\ ~ (c.op = "queueOrAdd" /\ Entering(c.x, c.t))
  BY <1>2, NextGrows DEF Made, TablesGrow
<1>3. CASE Pending(c)'
  BY <1>3 DEF Made, Pending
<1>4. CASE Engine /\ c = Top
  <2>1. stack # << >>
    BY <1>4, EngineBy
  <2>2. CASE c.op = "add"
    BY <1>4, <2>2, EngineBy DEF Made, AddTransition
  <2>3. CASE c.op = "register"
    <3>1. RegisterListener
      BY <1>4, <2>3, EngineBy
    <3>2. \E k \in listeners' : Equal(k, Top.l)
      BY <3>1, EqualItself DEF RegisterListener
    <3> QED BY <1>4, <2>3, <3>2 DEF Made
  <2>4. CASE c.op = "addFlow"
    BY <1>4, <2>4, EngineBy DEF Made, AddFlowAllocation
  <2>5. CASE c.op = "addBase"
    BY <1>4, <2>5, EngineBy DEF Made, AddBaseAllocation
  <2>6. CASE c.op = "flowsTo"
    BY <1>4, <2>6, EngineBy DEF Made, BaseFlowsTo
  <2>7. CASE c.op = "activateAll"
    BY <1>4, <2>7, EngineBy DEF Made, ActivateAllPois
  <2>8. CASE c.op = "queueOrAdd"
    <3> PICK x, t : x = Top.x /\ t = Top.t
      OBVIOUS
    <3>1. QueueOrAddTransition
      BY <1>4, <2>8, EngineBy
    <3>2. << x, t >> \in delayed' \/ Entering(x, t)'
      BY <3>1, QueueOrAddMade
    <3> QED BY <1>4, <2>8, <3>2 DEF Made
  <2>9. CASE c.op \notin HandlerOps
    BY <2>9 DEF Made
  <2> QED BY <2>2, <2>3, <2>4, <2>5, <2>6, <2>7, <2>8, <2>9 DEF HandlerOps
<1> QED BY <1>1, <1>2, <1>3, <1>4, PendingStays

-----------------------------------------------------------------------------
(* Every listener hears of every transition at its place, and what it      *)
(* calls then is made.                                                     *)

AtPlace(l, t) ==
  \/ l.kind \in {"base", "from"} /\ t.start = l.at
  \/ l.kind = "anySite"
  \/ l.kind \notin {"base", "from", "anySite"} /\ Place(l.on, t) = l.at

\* A loop is going to tell l of t.
Tells(g, l, t) ==
  \/ g.op = "tell" /\ g.t = t /\ l \in g.ls
  \/ g.op = "replay" /\ g.l = l /\ t \in g.ts
  \/ /\ g.op = "states" /\ g.on = l.on /\ g.t = t
     /\ l.kind \in {"base", "from"} /\ l.at = t.start
Owed(l, t) == \E g \in Elems(stack) : Tells(g, l, t)
Served(l, t) == Owed(l, t) \/ \A c \in Elems(Handler(l, t)) : Made(c)
AllServed == \A l \in listeners : \A t \in Present(l) : Served(l, t)

LEMMA PresentIs ==
  ASSUME TablesInv, NEW l, NEW t
  PROVE  t \in Present(l) <=>
           /\ << l.on, t >> \in IF l.kind \in {"base", "from", "anySite"} THEN trans ELSE indexed
           /\ AtPlace(l, t)
<1>1. \A p \in trans : p = << p[1], p[2] >>
  BY DEF TablesInv, Allowed
<1>2. \A p \in indexed : p = << p[1], p[2] >>
  BY <1>1 DEF TablesInv
<1> QED BY <1>1, <1>2 DEF Present, AtPlace

LEMMA HandledKept ==
  ASSUME Inv, [Next]_vars, NEW l, NEW t, \A c \in Elems(Handler(l, t)) : Made(c)
  PROVE  Served(l, t)'
<1> PICK hs : hs = Handler(l, t)
  OBVIOUS
<1>1. \A c \in Elems(hs) : Made(c)'
  BY MadeKept
<1> QED BY <1>1 DEF Served, Elems

LEMMA ElemsOfBoth ==
  ASSUME NEW S, NEW fs \in Seq(S), NEW T, NEW gs \in Seq(T)
  PROVE  fs \o gs \in Seq(S \cup T) /\ Elems(fs \o gs) = Elems(fs) \cup Elems(gs)
<1> PICK U : U = S \cup T
  OBVIOUS
<1>1. fs \in Seq(U) /\ gs \in Seq(U)
  <2>1. \A A, B : A \subseteq B => Seq(A) \subseteq Seq(B)
    OBVIOUS
  <2> QED BY <2>1
<1>2. fs \o gs \in Seq(U)
  BY <1>1
<1> QED BY <1>1, <1>2, ConcatElems

LEMMA WithLoop ==
  ASSUME NEW S, NEW fs \in Seq(S), NEW g
  PROVE  fs \o << g >> \in Seq(S \cup {g}) /\ Elems(fs \o << g >>) = Elems(fs) \cup {g}
<1>1. << g >> \in Seq({g}) /\ Elems(<< g >>) = {g}
  BY OneCall
<1> PICK gs, G : gs = << g >> /\ G = {g}
  OBVIOUS
<1>2. gs \in Seq(G) /\ Elems(gs) = G
  BY <1>1
<1>3. fs \o gs \in Seq(S \cup G) /\ Elems(fs \o gs) = Elems(fs) \cup Elems(gs)
  BY <1>2, ElemsOfBoth
<1> QED BY <1>2, <1>3

\* The loop at the top tells one of its listeners, or it is one turn further.
LEMMA ToldMade ==
  ASSUME Inv, stack # << >>, NEW l, NEW t, NEW g,
         Handler(l, t) \in Seq(PlainFrame),
         stack' = Handler(l, t) \o << g >> \o Tail(stack)
  PROVE  Served(l, t)' /\ Pending(g)'
<1> PICK hs : hs = Handler(l, t)
  OBVIOUS
<1> PICK fs : fs = hs \o << g >>
  OBVIOUS
<1>1. fs \in Seq(PlainFrame \cup {g}) /\ Elems(fs) = Elems(hs) \cup {g}
  <2> HIDE DEF PlainFrame
  <2> QED BY WithLoop
<1>2. stack' = fs \o Tail(stack)
  OBVIOUS
<1>3. Elems(fs) \subseteq Elems(stack')
  <2> HIDE DEF PlainFrame
  <2> QED BY <1>1, <1>2, OnTop DEF Inv
<1>4. \A c \in Elems(hs) : Pending(c)'
  BY <1>1, <1>3 DEF Pending
<1>5. Pending(g)'
  BY <1>1, <1>3 DEF Pending
<1>6. Served(l, t)'
  BY <1>4 DEF Served, Made, Elems
<1> QED BY <1>5, <1>6

LEMMA OwedKept ==
  ASSUME Inv, [Next]_vars, NEW l \in listeners, NEW t, Owed(l, t) PROVE Served(l, t)'
<1>1. l \in Listener
  BY DEF Inv, TablesInv
<1>2. PICK g \in Elems(stack) : Tells(g, l, t)
  BY DEF Owed
<1>3. ASSUME NEW h, Pending(h)', Tells(h, l, t) PROVE Served(l, t)'
  BY <1>3 DEF Served, Owed, Pending, Tells
<1>4. CASE Engine /\ g = Top /\ g.op = "tell"
  <2>1. Top.t = t /\ l \in Top.ls /\ Deliver /\ stack # << >> /\ Top \in TellFrame
    BY <1>2, <1>4, EngineBy, TopFrame DEF Tells, Inv
  <2>2. PICK k \in Top.ls :
          stack' = Handler(k, t) \o << Tell(t, Top.ls \ {k}) >> \o Tail(stack)
    BY <2>1 DEF Deliver
  <2>3. k \in Listener /\ << k.on, t >> \in trans
    BY <2>1 DEF TellFrame
  <2> PICK h : h = Tell(t, Top.ls \ {k})
    OBVIOUS
  <2>4. Served(k, t)' /\ Pending(h)'
    BY <2>1, <2>2, <2>3, HandlerTyped, ToldMade DEF Inv
  <2>5. k # l => Tells(h, l, t)
    BY <2>1 DEF Tells, Tell
  <2> QED BY <1>3, <2>4, <2>5
<1>5. CASE Engine /\ g = Top /\ g.op = "replay"
  <2>1. Top.l = l /\ t \in Top.ts /\ ReplayTransition /\ stack # << >> /\ Top \in ReplayFrame
    BY <1>2, <1>5, EngineBy, TopFrame DEF Tells, Inv
  <2>2. PICK u \in Top.ts :
          stack' = Handler(l, u) \o << Replay(l, Top.ts \ {u}) >> \o Tail(stack)
    BY <2>1 DEF ReplayTransition
  <2>3. << l.on, u >> \in trans
    BY <2>1 DEF ReplayFrame
  <2> PICK h : h = Replay(l, Top.ts \ {u})
    OBVIOUS
  <2>4. stack' = Handler(l, u) \o << h >> \o Tail(stack)
    BY <2>1, <2>2
  <2>5. Handler(l, u) \in Seq(PlainFrame)
    BY <1>1, <2>3, HandlerTyped DEF Inv
  <2>6. Served(l, u)' /\ Pending(h)'
    BY <2>1, <2>4, <2>5, ToldMade
  <2>7. u # t => Tells(h, l, t)
    BY <2>1 DEF Tells, Replay
  <2> QED BY <1>3, <2>6, <2>7
<1>6. CASE Pending(g)'
  BY <1>2, <1>3, <1>6
<1>7. CASE Engine /\ g = Top /\ g.op = "states"
  <2>1. /\ Top.on = l.on /\ Top.t = t /\ l.at = t.start
        /\ ServeStates /\ stack # << >>
    BY <1>2, <1>7, EngineBy DEF Tells
  <2> PICK h : h = Tell(t, Hearing(l.on, t.start))
    OBVIOUS
  <2>2. stack' = << h >> \o Tail(stack)
    BY <2>1 DEF ServeStates
  <2>3. Pending(h)'
    BY <2>1, <2>2, TopsOf DEF Inv, Pending
  <2>4. Tells(h, l, t)
    BY <2>1 DEF Tells, Tell, Hearing
  <2> QED BY <1>3, <2>3, <2>4
<1>8. g.op \in {"tell", "replay", "states"}
  BY <1>2 DEF Tells
<1> QED BY <1>4, <1>5, <1>6, <1>7, <1>8, PendingStays DEF Pending

LEMMA ServedKept ==
  ASSUME Inv, AllServed, [Next]_vars, NEW l \in listeners, NEW t \in Present(l)
  PROVE  Served(l, t)'
  BY HandledKept, OwedKept DEF AllServed, Served

\* A loop that is going to tell l of t is on the stack.
LEMMA OwedNow ==
  ASSUME NEW g, NEW l, NEW t, Pending(g)', Tells(g, l, t) PROVE Served(l, t)'
  BY DEF Served, Owed, Pending, Tells

LEMMA NowPresent ==
  ASSUME Inv', NEW l, NEW t, t \in Present(l)'
  PROVE  /\ << l.on, t >> \in IF l.kind \in {"base", "from", "anySite"} THEN trans' ELSE indexed'
         /\ AtPlace(l, t)
<1>1. \A p \in trans' : p = << p[1], p[2] >>
  BY DEF Inv, TablesInv, Allowed
<1>2. \A p \in indexed' : p = << p[1], p[2] >>
  BY <1>1 DEF Inv, TablesInv
<1> QED BY <1>1, <1>2 DEF Present, AtPlace

LEMMA ListenerKinds ==
  ASSUME NEW l \in Listener
  PROVE  /\ l.kind \in {"base", "from"} => l.on[1] = "fields"
         /\ l.kind = "anySite" => l.on[1] = "calls" /\ l.at = "any"
  BY DEF Listener, FieldListener, CallListener, FlowAllocation, BaseAllocation, PointsTo,
    Aliases, From, AtSite, CallAliases, AtStore, AnySite, OnReach, FromCall, Fields, Calls

LEMMA AddTransitionServed ==
  ASSUME Inv, Inv', AllServed, AddTransition PROVE AllServed'
<1>1. [Next]_vars /\ stack # << >>
  BY DEF Next, Engine, AddTransition, Running
<1> PICK a, t : a = Top.on /\ t = Top.t
  OBVIOUS
<1> SUFFICES ASSUME NEW l \in listeners', NEW u \in Present(l)', u \notin Present(l)
             PROVE  Served(l, u)'
  <2>1. listeners' = listeners
    BY DEF AddTransition
  <2> QED BY <1>1, <2>1, ServedKept DEF AllServed
<1>2. l \in listeners /\ l \in Listener /\ indexed' = indexed
  BY DEF AddTransition, Inv, TablesInv
<1>3. /\ l.kind \in {"base", "from", "anySite"} /\ l.on = a /\ u = t /\ AtPlace(l, t)
      /\ << a, t >> \notin trans
  <2>1. /\ << l.on, u >> \in IF l.kind \in {"base", "from", "anySite"} THEN trans' ELSE indexed'
        /\ AtPlace(l, u)
    BY NowPresent
  <2>2. << l.on, u >> \notin IF l.kind \in {"base", "from", "anySite"} THEN trans ELSE indexed
    BY <2>1, PresentIs DEF Inv
  <2> QED BY <1>2, <2>1, <2>2 DEF AddTransition
<1>4. CASE a[1] = "fields"
  <2> PICK f, g : f = Index(a, t) /\ g = States(a, t)
    OBVIOUS
  <2>1. stack' = << f, g >> \o Tail(stack)
    BY <1>3, <1>4 DEF AddTransition
  <2>2. Pending(g)'
    BY <1>1, <2>1, BroughtTwo
  <2>3. l.kind \in {"base", "from"} /\ l.at = t.start
    BY <1>2, <1>3, <1>4, ListenerKinds DEF AtPlace
  <2>4. Tells(g, l, t)
    BY <1>3, <2>3 DEF Tells, States
  <2> QED BY <1>3, <2>2, <2>4, OwedNow
<1>5. CASE a[1] # "fields"
  <2> PICK f, g : f = Index(a, t) /\ g = Tell(t, Hearing(a, "any"))
    OBVIOUS
  <2>1. stack' = << f, g >> \o Tail(stack) \/ stack' = << g, f >> \o Tail(stack)
    BY <1>3, <1>5 DEF AddTransition
  <2>2. Pending(g)'
    BY <1>1, <2>1, BroughtTwo
  <2>3. l.kind = "anySite" /\ l.at = "any"
    BY <1>2, <1>3, <1>5, ListenerKinds
  <2>4. Tells(g, l, t)
    BY <1>2, <1>3, <2>3 DEF Tells, Tell, Hearing
  <2> QED BY <1>3, <2>2, <2>4, OwedNow
<1> QED BY <1>4, <1>5

LEMMA IndexTransitionServed ==
  ASSUME Inv, Inv', AllServed, IndexTransition PROVE AllServed'
<1>1. [Next]_vars /\ stack # << >>
  BY DEF Next, Engine, IndexTransition, Running
<1> PICK a, t : a = Top.on /\ t = Top.t
  OBVIOUS
<1> SUFFICES ASSUME NEW l \in listeners', NEW u \in Present(l)', u \notin Present(l)
             PROVE  Served(l, u)'
  <2>1. listeners' = listeners
    BY DEF IndexTransition
  <2> QED BY <1>1, <2>1, ServedKept DEF AllServed
<1>2. l \in listeners /\ trans' = trans /\ indexed' = indexed \cup {<< a, t >>}
  BY DEF IndexTransition
<1>3. /\ l.kind \notin {"base", "from", "anySite"} /\ l.on = a /\ u = t /\ Place(a, t) = l.at
  <2>1. /\ << l.on, u >> \in IF l.kind \in {"base", "from", "anySite"} THEN trans' ELSE indexed'
        /\ AtPlace(l, u)
    BY NowPresent
  <2>2. << l.on, u >> \notin IF l.kind \in {"base", "from", "anySite"} THEN trans ELSE indexed
    BY <2>1, PresentIs DEF Inv
  <2>3. l.kind \notin {"base", "from", "anySite"} /\ l.on = a /\ u = t
    BY <1>2, <2>1, <2>2
  <2> QED BY <2>1, <2>3 DEF AtPlace
<1> PICK g : g = Tell(t, Hearing(a, Place(a, t)))
  OBVIOUS
<1>4. stack' = << g >> \o Tail(stack)
  BY DEF IndexTransition
<1>5. Pending(g)'
  BY <1>1, <1>4, Brought, OneCall
<1>6. Tells(g, l, t)
  BY <1>2, <1>3 DEF Tells, Tell, Hearing
<1> QED BY <1>3, <1>5, <1>6, OwedNow

LEMMA RegisterListenerServed ==
  ASSUME Inv, Inv', AllServed, RegisterListener PROVE AllServed'
<1>1. [Next]_vars /\ stack # << >>
  BY DEF Next, Engine, RegisterListener, Running
<1>2. trans' = trans /\ indexed' = indexed
  BY DEF RegisterListener
<1> SUFFICES ASSUME NEW l \in listeners', NEW t \in Present(l)'
             PROVE  Served(l, t)'
  BY DEF AllServed
<1>3. t \in Present(l)
  BY <1>2 DEF Present
<1>4. CASE l \in listeners
  BY <1>1, <1>3, <1>4, ServedKept
<1>5. CASE l \notin listeners
  <2> PICK g : g = Replay(l, Present(l))
    OBVIOUS
  <2>1. l = Top.l /\ stack' = << g >> \o Tail(stack)
    BY <1>5 DEF RegisterListener
  <2>2. Pending(g)'
    BY <1>1, <2>1, Brought, OneCall
  <2>3. Tells(g, l, t)
    BY <1>3 DEF Tells, Replay
  <2> QED BY <2>2, <2>3, OwedNow
<1> QED BY <1>4, <1>5

LEMMA NextServed == ASSUME Inv, Inv', AllServed, [Next]_vars PROVE AllServed'
<1>1. CASE UNCHANGED autVars
  <2>1. listeners' = listeners /\ \A l : Present(l)' = Present(l)
    BY <1>1 DEF Present, autVars
  <2> QED BY <2>1, ServedKept DEF AllServed
<1>2. CASE AddTransition \/ IndexTransition \/ RegisterListener
  BY <1>2, AddTransitionServed, IndexTransitionServed, RegisterListenerServed
<1>3. \/ UNCHANGED autVars
      \/ AddTransition \/ IndexTransition \/ RegisterListener
  BY DEF Next, Engine, Solvers, Derive, ReachStore, ServeStates, Deliver, ReplayTransition,
    AddBaseAllocation, AddFlowAllocation, ExecuteOne, BeginActivations, ReplayActivation,
    ActivateAllPois, TriggerOne, StartSolve, BaseFlowsTo, QueueOrAddTransition,
    MakeReachable, ReleaseTransition, Return, vars
<1> QED BY <1>1, <1>2, <1>3

-----------------------------------------------------------------------------
(* What else is made good *)

\* Every transition is indexed, the base and the call automata of an active pair are
\* listened to, and what waits for a reachable state enters.
Releases(g, x, t) == g.op = "release" /\ g.x = x /\ t \in g.ts
Indexes(p) == p \in indexed \/ Pending(Index(p[1], p[2]))
Listens(x) ==
  Made(Register(Aliases(x))) /\ Made(Register(CallAliases(x))) /\ Made(Register(AnySite(x)))
Enters(x, t) == Entering(x, t) \/ \E g \in Elems(stack) : Releases(g, x, t)
LossInv ==
  /\ AllServed
  /\ \A p \in trans : Indexes(p)
  /\ \A x \in active : Listens(x)
  /\ \A x, t : << x, t >> \in delayed /\ << x, t.target >> \in reachable => Enters(x, t)

LEMMA NextIndexes == ASSUME Inv, LossInv, [Next]_vars PROVE (\A p \in trans : Indexes(p))'
<1> SUFFICES ASSUME NEW p \in trans' PROVE Indexes(p)'
  OBVIOUS
<1> PICK c : c = Index(p[1], p[2])
  OBVIOUS
<1>1. p \in indexed' \/ Pending(c)' => Indexes(p)'
  BY DEF Indexes, Pending, Index
<1>2. CASE p \in indexed
  BY <1>1, <1>2, NextGrows DEF TablesGrow
<1>3. CASE p \in trans /\ Pending(c)
  <2>1. CASE Engine /\ c = Top
    <3>1. IndexTransition /\ Top.on = p[1] /\ Top.t = p[2]
      BY <2>1, EngineBy DEF Index
    <3>2. p = << p[1], p[2] >>
      BY <1>3 DEF Inv, TablesInv, Allowed
    <3> QED BY <1>1, <3>1, <3>2 DEF IndexTransition
  <2> QED BY <1>1, <1>3, <2>1, PendingStays
<1>4. CASE p \notin trans
  <2>1. AddTransition
    BY <1>4 DEF Next, Engine, Solvers, Derive, ReachStore, IndexTransition, RegisterListener,
      ServeStates, Deliver, ReplayTransition,
      AddBaseAllocation, AddFlowAllocation, ExecuteOne, BeginActivations, ReplayActivation,
      ActivateAllPois, TriggerOne, StartSolve, BaseFlowsTo, QueueOrAddTransition,
      MakeReachable, ReleaseTransition, Return, vars, autVars
  <2> PICK a, t : a = Top.on /\ t = Top.t
    OBVIOUS
  <2>2. p = << a, t >> /\ << a, t >> \notin trans /\ stack # << >>
    BY <1>4, <2>1 DEF AddTransition, Running
  <2> PICK g : g = IF a[1] = "fields" THEN States(a, t) ELSE Tell(t, Hearing(a, "any"))
    OBVIOUS
  <2>3. c = Index(a, t)
    BY <2>2
  <2>4. stack' = << c, g >> \o Tail(stack) \/ stack' = << g, c >> \o Tail(stack)
    BY <2>1, <2>2, <2>3 DEF AddTransition
  <2>5. Pending(c)'
    BY <2>2, <2>4, BroughtTwo
  <2> QED BY <1>1, <2>5
<1> QED BY <1>2, <1>3, <1>4 DEF LossInv, Indexes, Pending

LEMMA NextListens == ASSUME Inv, LossInv, [Next]_vars PROVE (\A x \in active : Listens(x))'
<1> SUFFICES ASSUME NEW x \in active' PROVE Listens(x)'
  OBVIOUS
<1> PICK a, b, c : /\ a = Register(Aliases(x)) /\ b = Register(CallAliases(x))
                   /\ c = Register(AnySite(x))
  OBVIOUS
<1>1. Made(a)' /\ Made(b)' /\ Made(c)' => Listens(x)'
  BY DEF Listens, Made, Pending
<1>2. CASE x \in active
  <2>1. Made(a) /\ Made(b) /\ Made(c)
    BY <1>2 DEF LossInv, Listens, Made, Pending
  <2> QED BY <1>1, <2>1, MadeKept
<1>3. CASE x \notin active
  <2>1. BaseFlowsTo
    BY <1>3 DEF Next, Engine, Solvers, Derive, ReachStore, IndexTransition, RegisterListener,
      ServeStates, Deliver, ReplayTransition, AddTransition,
      AddBaseAllocation, AddFlowAllocation, ExecuteOne, BeginActivations, ReplayActivation,
      ActivateAllPois, TriggerOne, StartSolve, QueueOrAddTransition,
      MakeReachable, ReleaseTransition, Return, vars, execVars
  <2>2. x = Top.x /\ stack' = << a, b, c >> \o Tail(stack) /\ stack # << >>
    BY <1>3, <2>1 DEF BaseFlowsTo, Running
  <2>3. Pending(a)' /\ Pending(b)' /\ Pending(c)'
    BY <2>2, TopsOf DEF Inv, Pending
  <2> QED BY <1>1, <2>3 DEF Made
<1> QED BY <1>2, <1>3

LEMMA EntersKept ==
  ASSUME Inv, [Next]_vars, NEW x, NEW t, Enters(x, t) PROVE Enters(x, t)'
<1>1. CASE Entering(x, t)
  BY <1>1, EnteringKept DEF Enters
<1>2. ASSUME NEW h, Pending(h)', Releases(h, x, t) PROVE Enters(x, t)'
  BY <1>2 DEF Enters, Pending, Releases
<1>3. ASSUME NEW g, Pending(g), Releases(g, x, t), Engine, g = Top PROVE Enters(x, t)'
  <2>1. Top.x = x /\ t \in Top.ts /\ ReleaseTransition /\ stack # << >>
    BY <1>3, EngineBy DEF Releases
  <2>2. PICK u \in Top.ts :
          stack' = << Add(Fields(x.flow), u), AddReachable(x, u.start),
                      Release(x, Top.ts \ {u}) >> \o Tail(stack)
    BY <2>1 DEF ReleaseTransition
  <2> PICK a, b, h : /\ a = Add(Fields(x.flow), u) /\ b = AddReachable(x, u.start)
                     /\ h = Release(x, Top.ts \ {u})
    OBVIOUS
  <2>3. stack' = << a, b, h >> \o Tail(stack)
    BY <2>2
  <2>4. Pending(a)' /\ Pending(b)' /\ Pending(h)'
    BY <2>1, <2>3, TopsOf DEF Inv, Pending
  <2>5. CASE u = t
    <3>1. Entering(x, t)'
      BY <2>4, <2>5, BothEnter
    <3> QED BY <3>1 DEF Enters
  <2>6. CASE u # t
    <3>1. Releases(h, x, t)
      BY <2>1, <2>6 DEF Releases, Release
    <3> QED BY <1>2, <2>4, <3>1
  <2> QED BY <2>5, <2>6
<1>4. CASE \E g \in Elems(stack) : Releases(g, x, t)
  BY <1>2, <1>3, <1>4, PendingStays DEF Pending
<1> QED BY <1>1, <1>4 DEF Enters

LEMMA NextEnters ==
  ASSUME Inv, LossInv, [Next]_vars, NEW x, NEW t,
         << x, t >> \in delayed', << x, t.target >> \in reachable'
  PROVE  Enters(x, t)'
<1>1. CASE << x, t >> \in delayed /\ << x, t.target >> \in reachable
  BY <1>1, EntersKept DEF LossInv
<1>2. CASE << x, t.target >> \notin reachable
  <2>1. MakeReachable
    BY <1>2 DEF Next, Engine, Solvers, Derive, ReachStore, IndexTransition, RegisterListener,
      ServeStates, Deliver, ReplayTransition, AddTransition,
      AddBaseAllocation, AddFlowAllocation, ExecuteOne, BeginActivations, ReplayActivation,
      ActivateAllPois, TriggerOne, StartSolve, QueueOrAddTransition, BaseFlowsTo,
      ReleaseTransition, Return, vars, execVars
  <2> PICK n, due : /\ n = Top.n
                    /\ due = { p[2] : p \in { p \in delayed : p[1] = x /\ p[2].target = n } }
    OBVIOUS
  <2>2. x = Top.x /\ t.target = n /\ << x, t >> \in delayed /\ stack # << >>
    BY <1>2, <2>1 DEF MakeReachable, Running
  <2> PICK g : g = Release(x, due)
    OBVIOUS
  <2>3. stack' = << g >> \o Tail(stack)
    BY <1>2, <2>1, <2>2 DEF MakeReachable
  <2>4. Pending(g)'
    BY <2>2, <2>3, TopsOf DEF Inv, Pending
  <2>5. t \in due
    <3> PICK p : p = << x, t >>
      OBVIOUS
    <3> QED BY <2>2
  <2>6. Releases(g, x, t)
    BY <2>5 DEF Releases, Release
  <2> QED BY <2>4, <2>6 DEF Enters, Pending, Releases
<1>3. CASE << x, t >> \notin delayed /\ << x, t.target >> \in reachable
  <2>1. QueueOrAddTransition
    BY <1>3 DEF Next, Engine, Solvers, Derive, ReachStore, IndexTransition, RegisterListener,
      ServeStates, Deliver, ReplayTransition, AddTransition,
      AddBaseAllocation, AddFlowAllocation, ExecuteOne, BeginActivations, ReplayActivation,
      ActivateAllPois, TriggerOne, StartSolve, MakeReachable, BaseFlowsTo,
      ReleaseTransition, Return, vars, execVars
  <2> QED BY <1>3, <2>1 DEF QueueOrAddTransition
<1> QED BY <1>1, <1>2, <1>3

LEMMA NextLoss == ASSUME Inv, Inv', LossInv, [Next]_vars PROVE LossInv'
<1>1. AllServed'
  BY NextServed DEF LossInv
<1> QED BY <1>1, NextIndexes, NextListens, NextEnters DEF LossInv

LEMMA NothingLost == Spec => [](Inv /\ LossInv)
<1>1. Init => Inv /\ LossInv
  BY InitInv DEF Init, LossInv, AllServed
<1>2. (Inv /\ LossInv) /\ [Next]_vars => (Inv /\ LossInv)'
  BY NextInv, NextLoss
<1> QED BY <1>1, <1>2, PTL DEF Spec

-----------------------------------------------------------------------------
(* When nothing runs, what is owed has been done. *)

LEMMA NothingPending == ASSUME Quiet PROVE Elems(stack) = {} /\ \A c : ~ Pending(c)
  BY DEF Quiet, Elems, Pending

LEMMA AtRest ==
  ASSUME Inv, LossInv, Quiet, NEW l \in listeners, NEW t, << l.on, t >> \in trans,
         AtPlace(l, t)
  PROVE  \A c \in Elems(Handler(l, t)) : Made(c)
<1>1. << l.on, t >> \in indexed
  BY NothingPending DEF LossInv, Indexes
<1>2. t \in Present(l)
  BY <1>1, PresentIs DEF Inv
<1>3. ~ Owed(l, t)
  BY NothingPending DEF Owed
<1> QED BY <1>2, <1>3 DEF LossInv, AllServed, Served

LEMMA RegisteredAtRest ==
  ASSUME Quiet, NEW l, Made(Register(l)) PROVE \E k \in listeners : Equal(k, l)
  BY NothingPending DEF Made, Register, HandlerOps

LEMMA AddedAtRest ==
  ASSUME Quiet, NEW a, NEW t, Made(Add(a, t)) PROVE << a, t >> \in trans
  BY NothingPending DEF Made, Add, HandlerOps

\* A listener at rest registers l, or adds t.
LEMMA RegistersAtRest ==
  ASSUME Inv, LossInv, Quiet, NEW l \in listeners, NEW t, << l.on, t >> \in trans,
         AtPlace(l, t), NEW k, Register(k) \in Elems(Handler(l, t))
  PROVE  \E h \in listeners : Equal(h, k)
  BY AtRest, RegisteredAtRest

LEMMA AddsAtRest ==
  ASSUME Inv, LossInv, Quiet, NEW l \in listeners, NEW t, << l.on, t >> \in trans,
         AtPlace(l, t), NEW a, NEW u, Add(a, u) \in Elems(Handler(l, t))
  PROVE  << a, u >> \in trans
  BY AtRest, AddedAtRest

\* Which listener stands in for another
LEMMA CallKinds ==
  ASSUME TablesInv, NEW k \in listeners
  PROVE  /\ k.kind = "anySite" => \E y \in active : k = AnySite(y)
         /\ k.kind = "onReach" => \E y \in active, e \in Edge : k = OnReach(y, e)
         /\ k.kind = "callAliases" => \E y \in active : k = CallAliases(y)
         /\ k.kind = "atStore" => \E y \in active, u \in CallState : k = AtStore(y, u)
         /\ k.kind = "fromCall" => \E p \in SiteOf : k = FromCall(p[1], p[2])
<1> USE DEF FlowAllocation, BaseAllocation, PointsTo, Aliases, From, AtSite, CallAliases,
      AtStore, AnySite, OnReach, FromCall
<1>1. k \in Listener
  BY DEF TablesInv
<1>2. k \in FieldListener => k.kind \in {"flow", "base", "pointsTo", "aliases", "from", "atSite"}
  BY DEF FieldListener
<1> QED BY <1>1, <1>2 DEF Listener, CallListener

LEMMA FieldKinds ==
  ASSUME TablesInv, NEW k \in listeners
  PROVE  /\ k.kind = "from" => \E y \in active, s \in Generated : k = From(y, s)
         /\ k.kind = "atSite" =>
              \E y \in active, e \in Edge, v \in Val : k = AtSite(y, e, v)
<1> USE DEF FlowAllocation, BaseAllocation, PointsTo, Aliases, From, AtSite, CallAliases,
      AtStore, AnySite, OnReach, FromCall
<1>1. k \in Listener
  BY DEF TablesInv
<1>2. k \in CallListener =>
        k.kind \in {"callAliases", "atStore", "anySite", "onReach", "fromCall"}
  BY DEF CallListener
<1> QED BY <1>1, <1>2 DEF Listener, FieldListener

\* ... for the same pair of solvers
LEMMA StandsIn ==
  ASSUME Inv, NEW k \in listeners, NEW x
  PROVE  /\ Equal(k, AnySite(x)) => \E y \in active : k = AnySite(y) /\ Pair(y) = Pair(x)
         /\ \A e : Equal(k, OnReach(x, e)) =>
              \E y \in active : k = OnReach(y, e) /\ Pair(y) = Pair(x)
         /\ \A e, v : Equal(k, AtSite(x, e, v)) =>
              \E y \in active : k = AtSite(y, e, v) /\ Pair(y) = Pair(x)
         /\ \A s : Equal(k, From(x, s)) =>
              \E y \in active : k = From(y, s) /\ Pair(y) = Pair(x)
         /\ \A t : Equal(k, FromCall(x, t)) =>
              \E p \in SiteOf : /\ k = FromCall(p[1], p[2]) /\ Pair(p[1]) = Pair(x)
                                /\ p[2].label = t.label /\ p[2].target = t.target
<1> USE DEF AtSite, AnySite, OnReach, From, FromCall, Equal, Pair, Fields, Calls
<1>1. Equal(k, AnySite(x)) => \E y \in active : k = AnySite(y) /\ Pair(y) = Pair(x)
  BY CallKinds DEF Inv
<1>2. ASSUME NEW e, Equal(k, OnReach(x, e))
      PROVE  \E y \in active : k = OnReach(y, e) /\ Pair(y) = Pair(x)
  BY <1>2, CallKinds DEF Inv
<1>3. ASSUME NEW e, NEW v, Equal(k, AtSite(x, e, v))
      PROVE  \E y \in active : k = AtSite(y, e, v) /\ Pair(y) = Pair(x)
  BY <1>3, FieldKinds DEF Inv
<1>4. ASSUME NEW s, Equal(k, From(x, s))
      PROVE  \E y \in active : k = From(y, s) /\ Pair(y) = Pair(x)
  BY <1>4, FieldKinds DEF Inv
<1>5. ASSUME NEW t, Equal(k, FromCall(x, t))
      PROVE  \E p \in SiteOf : /\ k = FromCall(p[1], p[2]) /\ Pair(p[1]) = Pair(x)
                               /\ p[2].label = t.label /\ p[2].target = t.target
  BY <1>5, CallKinds DEF Inv
<1> QED BY <1>1, <1>2, <1>3, <1>4, <1>5

\* What is registered or added, by listener
LEMMA Calling ==
  ASSUME NEW x, NEW t
  PROVE  /\ t.target \in CallTarget /\ << t.label, FactOf(t.start) >> \in Uses
              => /\ Register(OnReach(x, t.label)) \in Elems(Handler(AnySite(x), t))
                 /\ Register(FromCall(x, t)) \in Elems(Handler(AnySite(x), t))
         /\ \A e : t.start \in Val =>
              Register(AtSite(x, t.label, t.start)) \in Elems(Handler(OnReach(x, e), t))
         /\ \A s : t.start \in Val \ {s.start} /\ MethodOf[t.start] = MethodOf[t.label]
              => Add(Calls(x.flow), Tr(t.start, t.label, s.target))
                   \in Elems(Handler(FromCall(x, s), t))
         /\ FactOf(t.start) = x.w.stored =>
              Register(AtStore(x, t.target)) \in Elems(Handler(CallAliases(x), t))
         /\ \A u : x.w \notin ArrayWrite /\ FactOf(t.start) # x.w.base
              => Add(Calls(x.flow), Tr(t.start, t.label, u)) \in Elems(Handler(AtStore(x, u), t))
<1> USE DEF Handler, CallHandler, Calls, OnReach, AnySite, FromCall, CallAliases, AtStore
<1>1. ASSUME t.target \in CallTarget, << t.label, FactOf(t.start) >> \in Uses
      PROVE  /\ Register(OnReach(x, t.label)) \in Elems(Handler(AnySite(x), t))
             /\ Register(FromCall(x, t)) \in Elems(Handler(AnySite(x), t))
  <2> PICK a, b : a = Register(OnReach(x, t.label)) /\ b = Register(FromCall(x, t))
    OBVIOUS
  <2>1. Handler(AnySite(x), t) = << a, b >>
    BY <1>1
  <2>2. a \in Elems(<< a, b >>) /\ b \in Elems(<< a, b >>)
    BY TwoCalls
  <2> QED BY <2>1, <2>2
<1>2. ASSUME NEW e, t.start \in Val
      PROVE  Register(AtSite(x, t.label, t.start)) \in Elems(Handler(OnReach(x, e), t))
  <2> PICK a : a = Register(AtSite(x, t.label, t.start))
    OBVIOUS
  <2>1. Handler(OnReach(x, e), t) = << a >>
    BY <1>2
  <2> QED BY <2>1, OneCall
<1>3. ASSUME NEW s, t.start \in Val \ {s.start}, MethodOf[t.start] = MethodOf[t.label]
      PROVE  Add(Calls(x.flow), Tr(t.start, t.label, s.target)) \in Elems(Handler(FromCall(x, s), t))
  <2> PICK a : a = Add(Calls(x.flow), Tr(t.start, t.label, s.target))
    OBVIOUS
  <2>1. Handler(FromCall(x, s), t) = << a >>
    BY <1>3
  <2> QED BY <2>1, OneCall
<1>4. ASSUME FactOf(t.start) = x.w.stored
      PROVE  Register(AtStore(x, t.target)) \in Elems(Handler(CallAliases(x), t))
  <2> PICK a : a = Register(AtStore(x, t.target))
    OBVIOUS
  <2>1. Handler(CallAliases(x), t) = << a >>
    BY <1>4
  <2> QED BY <2>1, OneCall
<1>5. ASSUME NEW u, x.w \notin ArrayWrite, FactOf(t.start) # x.w.base
      PROVE  Add(Calls(x.flow), Tr(t.start, t.label, u)) \in Elems(Handler(AtStore(x, u), t))
  <2> PICK a : a = Add(Calls(x.flow), Tr(t.start, t.label, u))
    OBVIOUS
  <2>1. Handler(AtStore(x, u), t) = << a >>
    BY <1>5
  <2> QED BY <2>1, OneCall
<1> QED BY <1>1, <1>2, <1>3, <1>4, <1>5

\* ... or imported
Imported(x, t) == \A c \in Elems(Import(x, t)) : Made(c)

LEMMA Importing ==
  ASSUME NEW x, NEW t
  PROVE  /\ t.start \in Node => Handler(Aliases(x), t) = Import(x, t)
         /\ \A s : Handler(From(x, s), t) = Import(x, t)
         /\ \A e, v : t.start \in Node /\ t.start[2] = v => Handler(AtSite(x, e, v), t) = Import(x, t)
  BY DEF Handler, FieldHandler, Fields, Aliases, From, AtSite

LEMMA TransitionIs ==
  ASSUME Inv, NEW a, NEW t PROVE t \in Transitions(a) <=> << a, t >> \in trans
<1>1. \A p \in trans : p = << p[1], p[2] >>
  BY DEF Inv, TablesInv, Allowed
<1>2. t \in Transitions(a) => << a, t >> \in trans
  BY <1>1 DEF Transitions
<1>3. << a, t >> \in trans => t \in Transitions(a)
  <2> PICK p : p = << a, t >>
    OBVIOUS
  <2>1. p[1] = a /\ p[2] = t
    OBVIOUS
  <2> QED BY <2>1 DEF Transitions
<1> QED BY <1>2, <1>3

\* The listeners of the pair of x at a call site of the flow
LEMMA SiteAtRest ==
  ASSUME Inv, LossInv, Quiet, NEW x \in active, NEW s \in Sites(x)
  PROVE  /\ \E y \in active : OnReach(y, s.label) \in listeners /\ Pair(y) = Pair(x)
         /\ \E p \in SiteOf : /\ FromCall(p[1], p[2]) \in listeners /\ Pair(p[1]) = Pair(x)
                              /\ p[2].label = s.label /\ p[2].target = s.target
<1>1. PICK y \in active : AnySite(y) \in listeners /\ Pair(y) = Pair(x)
  <2>1. PICK k \in listeners : Equal(k, AnySite(x))
    BY RegisteredAtRest DEF LossInv, Listens
  <2> QED BY <2>1, StandsIn
<1>2. << AnySite(y).on, s >> \in trans /\ AtPlace(AnySite(y), s)
  <2>1. s \in Transitions(Calls(x.flow)) /\ y.flow = x.flow
    BY <1>1 DEF Sites, Pair
  <2> QED BY <2>1, TransitionIs DEF AnySite, AtPlace
<1>3. /\ Register(OnReach(y, s.label)) \in Elems(Handler(AnySite(y), s))
      /\ Register(FromCall(y, s)) \in Elems(Handler(AnySite(y), s))
  BY Calling DEF Sites
<1>4. PICK k \in listeners : Equal(k, OnReach(y, s.label))
  BY <1>1, <1>2, <1>3, RegistersAtRest
<1>5. PICK h \in listeners : Equal(h, FromCall(y, s))
  BY <1>1, <1>2, <1>3, RegistersAtRest
<1>6. \E z \in active : k = OnReach(z, s.label) /\ Pair(z) = Pair(y)
  BY <1>4, StandsIn
<1>7. \E p \in SiteOf : /\ h = FromCall(p[1], p[2]) /\ Pair(p[1]) = Pair(y)
                        /\ p[2].label = s.label /\ p[2].target = s.target
  BY <1>5, StandsIn
<1> QED BY <1>1, <1>6, <1>7

LEMMA AtCall ==
  ASSUME NEW l, NEW q, NEW t, l.on = Calls(q), l.kind \notin {"base", "from", "anySite"}
  PROVE  AtPlace(l, t) <=> t.label = l.at
  BY DEF AtPlace, Place, Calls

LEMMA FactAtRest ==
  ASSUME Inv, LossInv, Quiet, NEW x \in active, NEW s \in Sites(x),
         NEW u \in Transitions(Calls(x.base)), u.label = s.label, u.start \in Val
  PROVE  \E y \in active : AtSite(y, s.label, u.start) \in listeners /\ Pair(y) = Pair(x)
<1>1. PICK y \in active : OnReach(y, s.label) \in listeners /\ Pair(y) = Pair(x)
  BY SiteAtRest
<1>2. << OnReach(y, s.label).on, u >> \in trans /\ AtPlace(OnReach(y, s.label), u)
  <2>1. y.base = x.base
    BY <1>1 DEF Pair
  <2> QED BY <2>1, TransitionIs, AtCall DEF OnReach
<1>3. Register(AtSite(y, u.label, u.start)) \in Elems(Handler(OnReach(y, s.label), u))
  BY Calling
<1>4. PICK k \in listeners : Equal(k, AtSite(y, u.label, u.start))
  BY <1>1, <1>2, <1>3, RegistersAtRest
<1> QED BY <1>1, <1>4, StandsIn

-----------------------------------------------------------------------------
(* The calling contexts *)

LEMMA SiteCallsAtRest ==
  ASSUME Inv, LossInv, Quiet, NEW x \in active PROVE SiteCallsImported(x)
<1> SUFFICES ASSUME NEW s \in Sites(x), NEW u \in Transitions(Calls(x.base)),
                    u.label = s.label, u.start \in Val, MethodOf[u.start] = MethodOf[u.label]
             PROVE  << Calls(x.flow), Tr(u.start, u.label, s.target) >> \in trans
  BY DEF SiteCallsImported, CopiedCall
<1>1. PICK p \in SiteOf : /\ FromCall(p[1], p[2]) \in listeners /\ Pair(p[1]) = Pair(x)
                          /\ p[2].label = s.label /\ p[2].target = s.target
  BY SiteAtRest
<1> PICK y, t : y = p[1] /\ t = p[2]
  OBVIOUS
<1>2. y.base = x.base /\ y.flow = x.flow /\ t \in CallTransition /\ << Calls(y.flow), t >> \in trans
  BY <1>1 DEF SiteOf, Pair
<1>3. << FromCall(y, t).on, u >> \in trans /\ AtPlace(FromCall(y, t), u)
  BY <1>1, <1>2, TransitionIs, AtCall DEF FromCall
<1>4. CASE u.start # t.start
  <2>1. Add(Calls(y.flow), Tr(u.start, u.label, t.target)) \in Elems(Handler(FromCall(y, t), u))
    BY <1>4, Calling
  <2>2. << Calls(y.flow), Tr(u.start, u.label, t.target) >> \in trans
    BY <1>1, <1>3, <2>1, AddsAtRest
  <2> QED BY <1>1, <1>2, <2>2
<1>5. CASE u.start = t.start
  <2>1. t = Tr(u.start, u.label, s.target)
    BY <1>1, <1>2, <1>5 DEF Tr, CallTransition
  <2> QED BY <1>2, <2>1
<1> QED BY <1>4, <1>5

LEMMA StoreCallsAtRest ==
  ASSUME Inv, LossInv, Quiet, NEW x \in active, OnlyAtStore(x) PROVE StoreCallsImported(x)
<1> SUFFICES ASSUME x.w \notin ArrayWrite,
                    NEW s \in Transitions(Calls(x.flow)), NEW u \in Transitions(Calls(x.base)),
                    s.label = x.w.edge, u.label = x.w.edge,
                    FactOf(s.start) = x.w.stored, FactOf(u.start) # x.w.base
             PROVE  << Calls(x.flow), Tr(u.start, u.label, s.target) >> \in trans
  BY DEF StoreCallsImported, CopiedCall
<1>1. \A y \in active : y.w \in Write
  BY MetTyped DEF Inv, TablesInv
<1>2. CallAliases(x) \in listeners
  <2>1. PICK k \in listeners : Equal(k, CallAliases(x))
    BY RegisteredAtRest DEF LossInv, Listens
  <2>2. PICK y \in active : k = CallAliases(y)
    BY <2>1, CallKinds DEF Inv, Equal, CallAliases
  <2>3. y.flow = x.flow /\ y.w.edge = x.w.edge
    BY <2>1, <2>2 DEF Equal, CallAliases
  <2>4. y.w = x.w
    BY <1>1, <2>3, PlaceAssumption
  <2>5. y = x
    BY <2>3, <2>4 DEF OnlyAtStore
  <2> QED BY <2>1, <2>2, <2>5
<1>3. AtStore(x, s.target) \in listeners
  <2>1. << CallAliases(x).on, s >> \in trans /\ AtPlace(CallAliases(x), s)
    BY TransitionIs, AtCall DEF CallAliases
  <2>2. Register(AtStore(x, s.target)) \in Elems(Handler(CallAliases(x), s))
    BY Calling
  <2>3. PICK k \in listeners : Equal(k, AtStore(x, s.target))
    BY <1>2, <2>1, <2>2, RegistersAtRest
  <2>4. PICK y \in active, t \in CallState : k = AtStore(y, t)
    BY <2>3, CallKinds DEF Inv, Equal, AtStore
  <2>5. y.base = x.base /\ y.w.edge = x.w.edge /\ t = s.target
    BY <2>3, <2>4 DEF Equal, AtStore, Calls
  <2>6. y.w = x.w
    BY <1>1, <2>5, PlaceAssumption
  <2>7. y = x
    BY <2>5, <2>6 DEF OnlyAtStore
  <2> QED BY <2>3, <2>4, <2>5, <2>7
<1>4. << AtStore(x, s.target).on, u >> \in trans /\ AtPlace(AtStore(x, s.target), u)
  BY TransitionIs, AtCall DEF AtStore
<1>5. Add(Calls(x.flow), Tr(u.start, u.label, s.target))
        \in Elems(Handler(AtStore(x, s.target), u))
  BY Calling
<1> QED BY <1>3, <1>4, <1>5, AddsAtRest

\* At a call every variable the base flows to gets the unbalanced contexts of the flow,
\* whichever of the listeners that stand in for one another is left; at the store those
\* of the stored variable, when no other pair of it shares an allocation.
THEOREM ContextsAreImported == Spec => []ContextsImported
<1>1. Inv /\ LossInv => ContextsImported
  BY SiteCallsAtRest, StoreCallsAtRest DEF ContextsImported
<1> QED BY <1>1, NothingLost, PTL

-----------------------------------------------------------------------------
(* The access paths *)

LEMMA ImportMade ==
  ASSUME Inv, LossInv, Quiet, NEW x \in active, NEW t \in FieldTransition,
         t.label # Epsilon, Imported(x, t)
  PROVE  /\ t.label = Empty /\ t.target = Initial[x.base] => t.start \in Activated(Pair(x))
         /\ t.label # Empty /\ t.target \in Generated =>
              /\ Taken(x, t)
              /\ \E y \in active : From(y, t.target) \in listeners /\ Pair(y) = Pair(x)
<1>1. ASSUME t.label = Empty, t.target = Initial[x.base]
      PROVE  t.start \in Activated(Pair(x))
  <2> PICK a : a = ActivateAll(Pair(x), t.start)
    OBVIOUS
  <2>1. Import(x, t) = << a >>
    BY <1>1 DEF Import
  <2>2. Made(a)
    BY <2>1, OneCall DEF Imported
  <2>3. << Pair(x), t.start >> \in activatedPoi
    BY <2>2, NothingPending DEF Made, ActivateAll, HandlerOps
  <2> QED BY <2>3, ActivatedIs DEF Inv, TablesInv
<1>2. ASSUME t.label # Empty, t.target \in Generated
      PROVE  /\ Taken(x, t)
             /\ \E y \in active : From(y, t.target) \in listeners /\ Pair(y) = Pair(x)
  <2> PICK a, b : a = QueueOrAdd(x, t) /\ b = Register(From(x, t.target))
    OBVIOUS
  <2>1. Import(x, t) = << a, b >>
    BY <1>2 DEF Import
  <2>2. Made(a) /\ Made(b)
    BY <2>1, TwoCalls DEF Imported
  <2>3. \A y, s : Entering(y, s) => InFlow(y, s)
    BY NothingPending DEF Entering, InFlow
  <2>4. << x, t >> \in delayed \/ InFlow(x, t)
    BY <2>2, <2>3, NothingPending DEF Made, QueueOrAdd, HandlerOps
  <2>5. << x, t >> \in delayed /\ << x, t.target >> \in reachable => InFlow(x, t)
    BY <2>3, NothingPending DEF LossInv, Enters
  <2>6. PICK k \in listeners : Equal(k, From(x, t.target))
    BY <2>2, RegisteredAtRest
  <2>7. \E y \in active : k = From(y, t.target) /\ Pair(y) = Pair(x)
    BY <2>6, StandsIn
  <2> QED BY <2>4, <2>5, <2>7 DEF Taken
<1> QED BY <1>1, <1>2

\* One of the runs of the pair of x has imported t, x itself at the store.
Reached(x) ==
  { t \in Transitions(Fields(x.base)) :
      /\ t.label # Epsilon
      /\ \E y \in active : /\ Pair(y) = Pair(x) /\ Imported(y, t)
                           /\ t \in BeginAtStore(x) => y = x }

LEMMA StoreAtRest ==
  ASSUME Inv, LossInv, Quiet, NEW x \in active, NEW t \in BeginAtStore(x)
  PROVE  t \in Reached(x)
<1>1. /\ t \in Transitions(Fields(x.base)) /\ t.start \in Node /\ t.start[1] = x.w.edge
      /\ t.label # Epsilon
  BY DEF BeginAtStore
<1>2. Aliases(x) \in listeners
  <2>1. PICK k \in listeners : Equal(k, Aliases(x))
    BY RegisteredAtRest DEF LossInv, Listens
  <2> QED BY <2>1 DEF Equal, Aliases
<1>3. << Aliases(x).on, t >> \in trans /\ AtPlace(Aliases(x), t)
  BY <1>1, TransitionIs DEF Aliases, AtPlace, Place, Fields
<1>4. Handler(Aliases(x), t) = Import(x, t)
  BY <1>1, Importing
<1>5. \A c \in Elems(Import(x, t)) : Made(c)
  BY <1>2, <1>3, <1>4, AtRest
<1> QED BY <1>1, <1>5 DEF Reached, Imported

LEMMA SitesAtRest ==
  ASSUME Inv, LossInv, Quiet, NEW x \in active, NEW t \in BeginAtSites(x)
  PROVE  t \in Reached(x)
<1>1. PICK s \in Sites(x), u \in Transitions(Calls(x.base)) :
        u.label = s.label /\ u.start \in Val /\ t.start = << s.label, u.start >>
  BY DEF BeginAtSites
<1>2. t \in Transitions(Fields(x.base)) /\ t.start \in Node /\ t.label # Epsilon
  BY DEF BeginAtSites
<1>3. PICK y \in active : AtSite(y, s.label, u.start) \in listeners /\ Pair(y) = Pair(x)
  BY <1>1, FactAtRest
<1> PICK l : l = AtSite(y, s.label, u.start)
  OBVIOUS
<1>4. << l.on, t >> \in trans /\ AtPlace(l, t)
  <2>1. y.base = x.base
    BY <1>3 DEF Pair
  <2> QED BY <1>1, <1>2, <2>1, TransitionIs DEF AtSite, AtPlace, Place, Fields
<1>5. Handler(l, t) = Import(y, t)
  BY <1>1, <1>2, Importing
<1>6. Imported(y, t)
  BY <1>3, <1>4, <1>5, AtRest DEF Imported
<1>7. CASE t \in BeginAtStore(x)
  BY <1>7, StoreAtRest
<1> QED BY <1>2, <1>3, <1>6, <1>7 DEF Reached

LEMMA GoesOnAtRest ==
  ASSUME Inv, LossInv, Quiet, NEW x \in active, NEW s \in Reached(x),
         NEW t \in Transitions(Fields(x.base)), GoesOn(s, t)
  PROVE  t \in Reached(x)
<1>1. PICK y \in active : Pair(y) = Pair(x) /\ Imported(y, s)
  BY DEF Reached
<1>2. s \in FieldTransition
  <2>1. << Fields(x.base), s >> \in trans /\ x \in Met
    BY TransitionIs DEF Reached, Inv, TablesInv
  <2> QED BY <2>1, TransTyped, AutomataOf, MetTyped DEF Inv
<1>3. PICK z \in active : From(z, s.target) \in listeners /\ Pair(z) = Pair(y)
  BY <1>1, <1>2, ImportMade DEF Reached, GoesOn
<1>4. << From(z, s.target).on, t >> \in trans /\ AtPlace(From(z, s.target), t)
  <2>1. z.base = x.base
    BY <1>1, <1>3 DEF Pair
  <2> QED BY <2>1, TransitionIs DEF From, AtPlace, GoesOn
<1>5. Imported(z, t)
  BY <1>3, <1>4, Importing, AtRest DEF Imported
<1>6. t \notin BeginAtStore(x)
  BY PlaceAssumption DEF GoesOn, BeginAtStore
<1> QED BY <1>1, <1>3, <1>5, <1>6 DEF Reached, GoesOn

LEMMA WalkedAtRest ==
  ASSUME Inv, LossInv, Quiet, NEW x \in active PROVE Walked(x) \subseteq Reached(x)
<1>1. Reached(x) \in SUBSET Transitions(Fields(x.base))
  BY DEF Reached
<1>2. BeginAtStore(x) \cup BeginAtSites(x) \subseteq Reached(x)
  BY StoreAtRest, SitesAtRest
<1>3. \A s \in Reached(x), t \in Transitions(Fields(x.base)) : GoesOn(s, t) => t \in Reached(x)
  BY GoesOnAtRest
<1> QED BY <1>1, <1>2, <1>3 DEF Walked

\* No order in which the listeners are registered and told, and no call that is delayed,
\* loses an access path of the base.
THEOREM PathsAreImported == Spec => []PathsImported
<1>1. ASSUME Inv, LossInv PROVE PathsImported
  <2> SUFFICES ASSUME Quiet, NEW x \in active, NEW t \in Walked(x)
               PROVE  IF t.label = Empty
                      THEN t.target = Initial[x.base] => t.start \in Activated(Pair(x))
                      ELSE t.target \in Generated =>
                             \E y \in active : /\ Pair(y) = Pair(x) /\ Taken(y, t)
                                               /\ t \in BeginAtStore(x) => y = x
    BY DEF PathsImported
  <2>1. t \in Reached(x)
    BY <1>1, WalkedAtRest
  <2>2. PICK y \in active : /\ Pair(y) = Pair(x) /\ Imported(y, t)
                            /\ t \in BeginAtStore(x) => y = x
    BY <2>1 DEF Reached
  <2>3. t \in FieldTransition
    <3>1. << Fields(x.base), t >> \in trans /\ x \in Met
      BY <1>1, <2>1, TransitionIs DEF Reached, Inv, TablesInv
    <3> QED BY <1>1, <3>1, TransTyped, AutomataOf, MetTyped DEF Inv
  <2>4. y.base = x.base /\ t.label # Epsilon
    BY <2>1, <2>2 DEF Pair, Reached
  <2> QED BY <1>1, <2>2, <2>3, <2>4, ImportMade
<1> QED BY <1>1, NothingLost, PTL

-----------------------------------------------------------------------------
(* The activations.  A run that is executed later is first told of the     *)
(* states activated so far, and registered then.                           *)

\* The elements of the stack after a step
LEMMA AfterStep ==
  ASSUME Inv, NEW S, NEW fs \in Seq(S), stack' = fs \o Tail(stack), stack # << >>
  PROVE  \A g \in Elems(stack') : g \in Elems(stack) \/ g \in Elems(fs)
<1> DEFINE U == Frame \cup S
           r == Tail(stack)
<1>1. r \in Seq(U) /\ fs \in Seq(U)
  <2>1. \A A, B : A \subseteq B => Seq(A) \subseteq Seq(B)
    OBVIOUS
  <2>2. Frame \subseteq U /\ S \subseteq U
    OBVIOUS
  <2>3. r \in Seq(Frame)
    BY TopFrame DEF Inv
  <2> HIDE DEF U, Frame, r
  <2> QED BY <2>1, <2>2, <2>3
<1> HIDE DEF U, r
<1>2. Elems(fs \o r) = Elems(fs) \cup Elems(r)
  BY <1>1, ConcatElems
<1>3. Elems(r) \subseteq Elems(stack)
  <2> HIDE DEF Frame
  <2> QED BY TopOrBelow DEF Inv, r
<1> QED BY <1>2, <1>3 DEF r

LEMMA FewElems ==
  ASSUME NEW a, NEW b, NEW c, NEW fs,
         fs = << >> \/ fs = << a >> \/ fs = << a, b >> \/ fs = << a, b, c >>
  PROVE  fs \in Seq({a, b, c}) /\ Elems(fs) \subseteq {a, b, c}
<1>1. fs \in Seq({a, b, c})
  BY FewTyped
<1>2. Elems(<< >>) \subseteq {a, b, c} /\ Elems(<< a >>) \subseteq {a, b, c}
      /\ Elems(<< a, b >>) \subseteq {a, b, c} /\ Elems(<< a, b, c >>) \subseteq {a, b, c}
  BY OneCall, TwoCalls, ThreeCalls
<1> QED BY <1>1, <1>2

LEMMA AfterFew ==
  ASSUME Inv, stack # << >>, NEW a, NEW b, NEW c, NEW fs,
         fs = << >> \/ fs = << a >> \/ fs = << a, b >> \/ fs = << a, b, c >>,
         stack' = fs \o Tail(stack)
  PROVE  \A g \in Elems(stack') : g \in Elems(stack) \cup {a, b, c}
<1> PICK S : S = {a, b, c}
  OBVIOUS
<1>1. fs \in Seq(S) /\ Elems(fs) \subseteq S
  BY FewElems
<1>2. \A g \in Elems(stack') : g \in Elems(stack) \/ g \in Elems(fs)
  BY <1>1, AfterStep
<1> QED BY <1>1, <1>2

\* What listeners call
LEMMA HandlerCalls ==
  ASSUME NEW l \in Listener, NEW t
  PROVE  \A c \in Elems(Handler(l, t)) : c.op \in HandlerOps
<1> PICK hs : hs = Handler(l, t)
  OBVIOUS
<1>1. \E a, b : /\ a.op \in HandlerOps /\ b.op \in HandlerOps
                /\ hs = << >> \/ hs = << a >> \/ hs = << a, b >>
  <2> USE DEF Add, Register, AddFlow, AddBase, FlowsTo, ActivateAll, QueueOrAdd, HandlerOps
  <2>1. ASSUME NEW x, Import(x, t) = hs
        PROVE  \E a, b : /\ a.op \in HandlerOps /\ b.op \in HandlerOps
                         /\ hs = << >> \/ hs = << a >> \/ hs = << a, b >>
    <3>1. \/ hs = << >>
          \/ hs = << ActivateAll(Pair(x), t.start) >>
          \/ hs = << QueueOrAdd(x, t), Register(From(x, t.target)) >>
      BY <2>1 DEF Import
    <3>2. hs = << >> => \E a, b : /\ a.op \in HandlerOps /\ b.op \in HandlerOps /\ hs = << >>
      <4> PICK a : a = Register(l)
        OBVIOUS
      <4>1. a.op \in HandlerOps
        OBVIOUS
      <4> QED BY <4>1
    <3>3. hs = << ActivateAll(Pair(x), t.start) >> =>
            \E a : a.op \in HandlerOps /\ hs = << a >>
      OBVIOUS
    <3>4. hs = << QueueOrAdd(x, t), Register(From(x, t.target)) >> =>
            \E a, b : /\ a.op \in HandlerOps /\ b.op \in HandlerOps /\ hs = << a, b >>
      OBVIOUS
    <3> QED BY <3>1, <3>2, <3>3, <3>4
  <2>2. CASE hs = << >>
    <3> PICK a : a = Register(l)
      OBVIOUS
    <3>1. a.op \in HandlerOps
      OBVIOUS
    <3> QED BY <2>2, <3>1
  <2>3. CASE \E a : a.op \in HandlerOps /\ hs = << a >>
    BY <2>3
  <2>4. CASE \E a, b : a.op \in HandlerOps /\ b.op \in HandlerOps /\ hs = << a, b >>
    BY <2>4
  <2>5. CASE l \in FieldListener
    <3>1. l.on[1] = "fields" /\ l.kind \in {"flow", "base", "pointsTo", "aliases", "from", "atSite"}
      BY <2>5 DEF FieldListener, FlowAllocation, BaseAllocation, PointsTo, Aliases, From, AtSite,
        Fields
    <3>2. \/ \E x : Import(x, t) = hs
          \/ hs = << >>
          \/ \E a : a.op \in HandlerOps /\ hs = << a >>
      BY <3>1 DEF Handler, FieldHandler
    <3> QED BY <2>1, <2>2, <2>3, <3>2
  <2>6. CASE l \in CallListener
    <3>1. l.on[1] # "fields"
          /\ l.kind \in {"callAliases", "atStore", "anySite", "onReach", "fromCall"}
      <4>1. CASE \E p \in SiteOf : l = FromCall(p[1], p[2])
        BY <4>1 DEF FromCall, Calls
      <4>2. CASE ~ \E p \in SiteOf : l = FromCall(p[1], p[2])
        BY <2>6, <4>2 DEF CallListener, CallAliases, AtStore, AnySite, OnReach, Calls
      <4> QED BY <4>1, <4>2
    <3>2. \/ hs = << >>
          \/ \E a : a.op \in HandlerOps /\ hs = << a >>
          \/ \E a, b : a.op \in HandlerOps /\ b.op \in HandlerOps /\ hs = << a, b >>
      BY <3>1 DEF Handler, CallHandler
    <3> QED BY <2>2, <2>3, <2>4, <3>2
  <2> QED BY <2>5, <2>6 DEF Listener
<1>2. PICK a, b : /\ a.op \in HandlerOps /\ b.op \in HandlerOps
                  /\ hs = << >> \/ hs = << a >> \/ hs = << a, b >>
  BY <1>1
<1>3. Elems(hs) \subseteq {a, b}
  <2>1. Elems(<< >>) = {} /\ Elems(<< a >>) = {a} /\ Elems(<< a, b >>) = {a, b}
    BY OneCall, TwoCalls
  <2> QED BY <1>2, <2>1
<1> QED BY <1>2, <1>3

\* Nothing else begins to tell a run of the states activated so far.
Restarts(g) == g.op = "activations"

LEMMA HandlerLoop ==
  ASSUME Inv, stack # << >>, NEW l \in Listener, NEW t, << l.on, t >> \in trans,
         NEW f, ~ Restarts(f), stack' = Handler(l, t) \o << f >> \o Tail(stack)
  PROVE  \A g \in Elems(stack') : Restarts(g) => g \in Elems(stack)
<1> PICK hs, fs, P, S : /\ hs = Handler(l, t) /\ fs = hs \o << f >>
                        /\ P = PlainFrame /\ S = PlainFrame \cup {f}
  OBVIOUS
<1>1. hs \in Seq(P)
  BY HandlerTyped DEF Inv
<1>2. fs \in Seq(P \cup {f}) /\ Elems(fs) = Elems(hs) \cup {f}
  BY <1>1, WithLoop
<1>3. stack' = fs \o Tail(stack)
  OBVIOUS
<1>4. \A g \in Elems(stack') : g \in Elems(stack) \/ g \in Elems(fs)
  BY <1>2, <1>3, AfterStep
<1>5. \A g \in Elems(hs) : ~ Restarts(g)
  BY HandlerCalls DEF Restarts, HandlerOps
<1> QED BY <1>2, <1>4, <1>5

LEMMA BothWithin ==
  ASSUME NEW U, NEW fs \in Seq(U), NEW gs \in Seq(U), Elems(fs) \subseteq U, Elems(gs) \subseteq U,
         NEW hs, hs = fs \o gs
  PROVE  hs \in Seq(U) /\ Elems(hs) \subseteq U
<1>1. Elems(fs \o gs) = Elems(fs) \cup Elems(gs)
  BY ConcatElems
<1>2. fs \o gs \in Seq(U)
  OBVIOUS
<1> QED BY <1>1, <1>2

LEMMA SolversRestart ==
  ASSUME Inv, Solvers PROVE \A g \in Elems(stack') : Restarts(g) => g \in Elems(stack)
<1> USE DEF Restarts
<1>1. ASSUME NEW a, NEW t, stack' = << Add(a, t) >> \o stack
      PROVE  \A g \in Elems(stack') : Restarts(g) => g \in Elems(stack)
  <2> PICK f : f = Add(a, t)
    OBVIOUS
  <2>1. << f >> \in Seq({f}) /\ stack' = << f >> \o stack /\ f.op = "add"
    BY <1>1 DEF Add
  <2>2. Elems(stack') = {f} \cup Elems(stack)
    <3> PICK fs : fs = << f >>
      OBVIOUS
    <3>1. fs \in Seq({f}) /\ stack' = fs \o stack /\ Elems(fs) = {f}
      BY <2>1, OneCall
    <3> QED BY <3>1, PushedOn
  <2> QED BY <2>1, <2>2
<1>2. ASSUME NEW q, NEW w, NEW v, ReachStore(q, w, v)
      PROVE  \A g \in Elems(stack') : Restarts(g) => g \in Elems(stack)
  <2> PICK a, b, c : /\ a = BackwardSolve /\ b = Register(FlowAllocation(q, w))
                     /\ c = Register(BaseAllocation(q, w))
    OBVIOUS
  <2> PICK U : U = {a, b, c}
    OBVIOUS
  <2>1. PICK fs, gs : /\ fs \in Seq(U) /\ gs \in Seq(U)
                      /\ Elems(fs) \subseteq U /\ Elems(gs) \subseteq U
                      /\ stack' = fs \o gs \o stack
    <3> PICK fs : fs = IF v = w.stored THEN << a, b >> ELSE << >>
      OBVIOUS
    <3> PICK gs : gs = IF v = w.base THEN << c >> ELSE << >>
      OBVIOUS
    <3>1. << >> \in Seq(U) /\ << a, b >> \in Seq(U) /\ << c >> \in Seq(U)
      OBVIOUS
    <3>2. Elems(<< >>) = {} /\ Elems(<< a, b >>) = {a, b} /\ Elems(<< c >>) = {c}
      BY OneCall, TwoCalls
    <3>3. fs \in Seq(U) /\ gs \in Seq(U) /\ Elems(fs) \subseteq U /\ Elems(gs) \subseteq U
      BY <3>1, <3>2
    <3>4. stack' = fs \o gs \o stack
      BY <1>2 DEF ReachStore
    <3> QED BY <3>3, <3>4
  <2> PICK fg : fg = fs \o gs
    OBVIOUS
  <2>2. fg \in Seq(U) /\ Elems(fg) \subseteq U
    BY <2>1, BothWithin
  <2>3. Elems(stack') = Elems(fg) \cup Elems(stack)
    BY <2>1, <2>2, PushedOn
  <2>4. a.op = "backward" /\ b.op = "register" /\ c.op = "register"
    BY DEF BackwardSolve, Register
  <2> QED BY <2>2, <2>3, <2>4
<1> QED BY <1>1, <1>2 DEF Solvers, Derive

\* The calls of a step, but for those of listeners
Few(a, b, c) ==
  /\ ~ Restarts(a) /\ ~ Restarts(b) /\ ~ Restarts(c)
  /\ \/ stack' = Tail(stack) \/ stack' = << a >> \o Tail(stack)
     \/ stack' = << a, b >> \o Tail(stack) \/ stack' = << a, b, c >> \o Tail(stack)

LEMMA FewRestart ==
  ASSUME Inv, stack # << >>, NEW a, NEW b, NEW c, Few(a, b, c)
  PROVE  \A g \in Elems(stack') : Restarts(g) => g \in Elems(stack)
<1> PICK fs : \/ fs = << >> /\ stack' = Tail(stack)
              \/ fs = << a >> /\ stack' = << a >> \o Tail(stack)
              \/ fs = << a, b >> /\ stack' = << a, b >> \o Tail(stack)
              \/ fs = << a, b, c >> /\ stack' = << a, b, c >> \o Tail(stack)
  BY DEF Few
<1>1. stack' = fs \o Tail(stack)
  <2>1. Tail(stack) \in Seq(Frame)
    BY TopFrame DEF Inv
  <2> HIDE DEF Frame
  <2>2. << >> \o Tail(stack) = Tail(stack)
    BY <2>1
  <2> QED BY <2>2
<1>2. \A g \in Elems(stack') : g \in Elems(stack) \cup {a, b, c}
  BY <1>1, AfterFew
<1> QED BY <1>2 DEF Few

\* Every step but that of a loop over listeners or activations leaves at most three
\* calls, none of which is one.
LEMMA FewCalls ==
  ASSUME \/ AddTransition \/ IndexTransition \/ ServeStates \/ RegisterListener
         \/ AddBaseAllocation \/ AddFlowAllocation \/ ExecuteOne \/ ActivateAllPois
         \/ StartSolve \/ BaseFlowsTo \/ QueueOrAddTransition \/ MakeReachable
         \/ ReleaseTransition \/ Return
  PROVE  stack # << >> /\ \E a, b, c : Few(a, b, c)
<1> USE DEF Restarts, Index, States, Tell, Replay, Register, Execute, RegisterActivation, Solve,
      TriggerAll, Add, AddReachable, Release
<1>1. ASSUME NEW a, ~ Restarts(a), stack' \in {Tail(stack), << a >> \o Tail(stack)}
      PROVE  \E b, c : Few(a, b, c)
  BY <1>1 DEF Few
<1>2. ASSUME NEW a, NEW b, ~ Restarts(a), ~ Restarts(b),
             stack' \in {Tail(stack), << a, b >> \o Tail(stack)}
      PROVE  \E c : Few(a, b, c)
  BY <1>2 DEF Few
<1>3. ASSUME NEW a, NEW b, NEW c, ~ Restarts(a), ~ Restarts(b), ~ Restarts(c),
             stack' \in {Tail(stack), << a, b, c >> \o Tail(stack)}
      PROVE  Few(a, b, c)
  BY <1>3 DEF Few
<1>4. CASE AddTransition
  <2> PICK a, b, c : /\ a = Index(Top.on, Top.t) /\ b = States(Top.on, Top.t)
                     /\ c = Tell(Top.t, Hearing(Top.on, "any"))
    OBVIOUS
  <2>1. ~ Restarts(a) /\ ~ Restarts(b) /\ ~ Restarts(c)
    OBVIOUS
  <2>2. \/ stack' = Tail(stack) \/ stack' = << a, b >> \o Tail(stack)
        \/ stack' = << a, c >> \o Tail(stack) \/ stack' = << c, a >> \o Tail(stack)
    BY <1>4 DEF AddTransition
  <2>3. stack # << >>
    BY <1>4 DEF AddTransition, Running
  <2> QED BY <1>2, <2>1, <2>2, <2>3
<1>5. CASE IndexTransition
  <2> PICK a : a = Tell(Top.t, Hearing(Top.on, Place(Top.on, Top.t)))
    OBVIOUS
  <2>1. ~ Restarts(a) /\ stack' = << a >> \o Tail(stack) /\ stack # << >>
    BY <1>5 DEF IndexTransition, Running
  <2> QED BY <1>1, <2>1
<1>6. CASE ServeStates
  <2> PICK a : a = Tell(Top.t, Hearing(Top.on, Top.t.start))
    OBVIOUS
  <2>1. ~ Restarts(a) /\ stack' = << a >> \o Tail(stack) /\ stack # << >>
    BY <1>6 DEF ServeStates, Running
  <2> QED BY <1>1, <2>1
<1>7. CASE RegisterListener
  <2> PICK a : a = Replay(Top.l, Present(Top.l))
    OBVIOUS
  <2>1. /\ ~ Restarts(a) /\ stack # << >>
        /\ stack' \in {Tail(stack), << a >> \o Tail(stack)}
    BY <1>7 DEF RegisterListener, Running
  <2> QED BY <1>1, <2>1
<1>8. CASE AddBaseAllocation
  <2> PICK a : a = Execute({ Run(Top.w, Top.q, p[2]) : p \in { p \in flows : p[1] = Top.w } })
    OBVIOUS
  <2>1. /\ ~ Restarts(a) /\ stack # << >>
        /\ stack' \in {Tail(stack), << a >> \o Tail(stack)}
    BY <1>8 DEF AddBaseAllocation, Running
  <2> QED BY <1>1, <2>1
<1>9. CASE AddFlowAllocation
  <2> PICK a : a = Execute({ Run(Top.w, p[2], Top.q) : p \in { p \in bases : p[1] = Top.w } })
    OBVIOUS
  <2>1. /\ ~ Restarts(a) /\ stack # << >>
        /\ stack' \in {Tail(stack), << a >> \o Tail(stack)}
    BY <1>9 DEF AddFlowAllocation, Running
  <2> QED BY <1>1, <2>1
<1>10. CASE ExecuteOne
  <2>1. PICK x : stack' = << RegisterActivation(x), Solve(x), Execute(Top.xs \ {x}) >> \o Tail(stack)
    BY <1>10 DEF ExecuteOne
  <2> PICK a, b, c : /\ a = RegisterActivation(x) /\ b = Solve(x) /\ c = Execute(Top.xs \ {x})
    OBVIOUS
  <2>2. /\ ~ Restarts(a) /\ ~ Restarts(b) /\ ~ Restarts(c) /\ stack # << >>
        /\ stack' = << a, b, c >> \o Tail(stack)
    BY <1>10, <2>1 DEF ExecuteOne, Running
  <2> QED BY <1>3, <2>2
<1>11. CASE ActivateAllPois
  <2> PICK a : a = TriggerAll(Registered(Top.p), Top.n)
    OBVIOUS
  <2>1. /\ ~ Restarts(a) /\ stack # << >>
        /\ stack' \in {Tail(stack), << a >> \o Tail(stack)}
    BY <1>11 DEF ActivateAllPois, Running
  <2> QED BY <1>1, <2>1
<1>12. CASE StartSolve
  <2> PICK a : a = Register(PointsTo(Top.x))
    OBVIOUS
  <2>1. /\ ~ Restarts(a) /\ stack # << >>
        /\ stack' \in {Tail(stack), << a >> \o Tail(stack)}
    BY <1>12 DEF StartSolve, Running
  <2> QED BY <1>1, <2>1
<1>13. CASE BaseFlowsTo
  <2> PICK a, b, c : /\ a = Register(Aliases(Top.x)) /\ b = Register(CallAliases(Top.x))
                     /\ c = Register(AnySite(Top.x))
    OBVIOUS
  <2>1. /\ ~ Restarts(a) /\ ~ Restarts(b) /\ ~ Restarts(c) /\ stack # << >>
        /\ stack' \in {Tail(stack), << a, b, c >> \o Tail(stack)}
    BY <1>13 DEF BaseFlowsTo, Running
  <2> QED BY <1>3, <2>1
<1>14. CASE QueueOrAddTransition
  <2> PICK a, b : /\ a = Add(Fields(Top.x.flow), Top.t) /\ b = AddReachable(Top.x, Top.t.start)
    OBVIOUS
  <2>1. /\ ~ Restarts(a) /\ ~ Restarts(b) /\ stack # << >>
        /\ stack' \in {Tail(stack), << a, b >> \o Tail(stack)}
    BY <1>14 DEF QueueOrAddTransition, Running
  <2> QED BY <1>2, <2>1
<1>15. CASE MakeReachable
  <2> PICK a : a = Release(Top.x,
                 { p[2] : p \in { p \in delayed : p[1] = Top.x /\ p[2].target = Top.n } })
    OBVIOUS
  <2>1. /\ ~ Restarts(a) /\ stack # << >>
        /\ stack' \in {Tail(stack), << a >> \o Tail(stack)}
    BY <1>15 DEF MakeReachable, Running
  <2> QED BY <1>1, <2>1
<1>16. CASE ReleaseTransition
  <2>1. PICK t : stack' = << Add(Fields(Top.x.flow), t), AddReachable(Top.x, t.start),
                             Release(Top.x, Top.ts \ {t}) >> \o Tail(stack)
    BY <1>16 DEF ReleaseTransition
  <2> PICK a, b, c : /\ a = Add(Fields(Top.x.flow), t) /\ b = AddReachable(Top.x, t.start)
                     /\ c = Release(Top.x, Top.ts \ {t})
    OBVIOUS
  <2>2. /\ ~ Restarts(a) /\ ~ Restarts(b) /\ ~ Restarts(c) /\ stack # << >>
        /\ stack' = << a, b, c >> \o Tail(stack)
    BY <1>16, <2>1 DEF ReleaseTransition, Running
  <2> QED BY <1>3, <2>2
<1>17. CASE Return
  <2> PICK a : a = Execute({})
    OBVIOUS
  <2>1. ~ Restarts(a) /\ stack # << >> /\ stack' = Tail(stack)
    BY <1>17 DEF Return, Running
  <2> QED BY <1>1, <2>1
<1> QED BY <1>4, <1>5, <1>6, <1>7, <1>8, <1>9, <1>10, <1>11, <1>12, <1>13, <1>14, <1>15,
          <1>16, <1>17

\* A run is connected to an activated state, or a loop is going to connect it.
Joins(x, n) == Entering(x, Connecting(x, n))
Triggers(g, x, n) == g.op = "triggerAll" /\ x \in g.xs /\ g.n = n
Overtaken(x, n) == << x, n >> \in overtaken
ToldAll(g) ==
  Restarts(g) => \A n \in Activated(Pair(g.x)) :
                   n \in g.ns \/ Joins(g.x, n) \/ Overtaken(g.x, n)
Triggered(x, n) == Joins(x, n) \/ \E g \in Elems(stack) : Triggers(g, x, n)
TrigInv ==
  /\ \A x \in poiListeners : \A n \in Activated(Pair(x)) : Triggered(x, n) \/ Overtaken(x, n)
  /\ \A g \in Elems(stack) : ToldAll(g)

\* What overtakes a run is noted, once and for all.
LEMMA Noted ==
  ASSUME NoteOvertaken
  PROVE  /\ \A x, n : Overtaken(x, n) => Overtaken(x, n)'
         /\ \A g \in Elems(stack) : Restarts(g) =>
              \A n \in Activated(Pair(g.x))' \ Activated(Pair(g.x)) : Overtaken(g.x, n)'
<1>1. overtaken \subseteq overtaken'
  BY DEF NoteOvertaken
<1>2. ASSUME NEW g \in Elems(stack), Restarts(g),
             NEW n \in Activated(Pair(g.x))' \ Activated(Pair(g.x))
      PROVE  << g.x, n >> \in overtaken'
  <2>1. PICK i \in DOMAIN stack : stack[i] = g
    BY DEF Elems
  <2>2. PICK e \in activatedPoi' \ activatedPoi : e[1] = Pair(g.x) /\ e[2] = n
    BY <1>2 DEF Activated
  <2>3. g.x \in Replaying(e[1])
    BY <1>2, <2>1, <2>2 DEF Replaying, Restarts
  <2>4. << g.x, n >> \in Replaying(e[1]) \X {e[2]}
    BY <2>2, <2>3
  <2> QED BY <2>2, <2>4 DEF NoteOvertaken
<1> QED BY <1>1, <1>2 DEF Overtaken

LEMMA TriggerIs ==
  ASSUME NEW x, NEW n
  PROVE  /\ Trigger(x, n) = << Add(Fields(x.flow), Connecting(x, n)), AddReachable(x, n) >>
         /\ Connecting(x, n).start = n
  BY DEF Trigger, Connecting, Tr

LEMMA TriggerThen ==
  ASSUME NEW x, NEW n, NEW g, NEW a, NEW b,
         a = Add(Fields(x.flow), Connecting(x, n)), b = AddReachable(x, n)
  PROVE  Trigger(x, n) \o << g >> = << a, b, g >>
<1>1. Trigger(x, n) = << a, b >>
  BY DEF Trigger
<1>2. << a, b, g >> = << a, b >> \o << g >>
  BY Zenon, Triple
<1> QED BY <1>1, <1>2, Zenon

LEMMA TriggerCalls ==
  ASSUME Inv, stack # << >>, NEW x, NEW n, NEW g, NEW a, NEW b,
         a = Add(Fields(x.flow), Connecting(x, n)), b = AddReachable(x, n),
         NEW fs, fs = << a, b, g >>, stack' = fs \o Tail(stack)
  PROVE  /\ Joins(x, n)' /\ Pending(g)'
         /\ \A h \in Elems(stack') : Restarts(h) => h \in Elems(stack) \cup {g}
<1>1. Pending(a)' /\ Pending(b)' /\ Pending(g)'
  <2>1. stack' = << a, b, g >> \o Tail(stack)
    OBVIOUS
  <2> QED BY <2>1, TopsOf DEF Inv, Pending
<1>2. Joins(x, n)'
  <2> PICK t : t = Connecting(x, n)
    OBVIOUS
  <2>1. t.start = n
    BY TriggerIs
  <2>2. Entering(x, t)'
    BY <1>1, <2>1, BothEnter
  <2> QED BY <2>2 DEF Joins, Entering, Pending
<1>3. ~ Restarts(a) /\ ~ Restarts(b)
  BY DEF Restarts, Add, AddReachable
<1>4. \A h \in Elems(stack') : h \in Elems(stack) \cup {a, b, g}
  BY AfterFew
<1> QED BY <1>1, <1>2, <1>3, <1>4

LEMMA JoinsKept == ASSUME Inv, [Next]_vars, NEW x, NEW n, Joins(x, n) PROVE Joins(x, n)'
<1> PICK t : t = Connecting(x, n)
  OBVIOUS
<1>1. Entering(x, t)'
  BY EnteringKept DEF Joins
<1> QED BY <1>1 DEF Joins, Entering, Pending

\* What is on the stack after a step
LEMMA RestartsOnly ==
  ASSUME Inv, [Next]_vars, NEW g \in Elems(stack'), Restarts(g), g \notin Elems(stack)
  PROVE  \/ BeginActivations /\ g = Activations(Top.x, Activated(Pair(Top.x)))
         \/ ReplayActivation /\ \E n \in Top.ns : g = Activations(Top.x, Top.ns \ {n}) /\ Joins(g.x, n)'
<1>1. CASE Solvers
  BY <1>1, SolversRestart
<1>2. CASE UNCHANGED vars
  BY <1>2 DEF vars
<1>3. CASE \/ AddTransition \/ IndexTransition \/ ServeStates \/ RegisterListener
           \/ AddBaseAllocation \/ AddFlowAllocation \/ ExecuteOne \/ ActivateAllPois
           \/ StartSolve \/ BaseFlowsTo \/ QueueOrAddTransition \/ MakeReachable
           \/ ReleaseTransition \/ Return
  BY <1>3, FewCalls, FewRestart
<1>4. CASE Deliver
  <2>1. stack # << >> /\ Top \in TellFrame
    BY <1>4, TopFrame DEF Deliver, Running, Inv
  <2>2. PICK l \in Top.ls : stack' = Handler(l, Top.t) \o << Tell(Top.t, Top.ls \ {l}) >> \o Tail(stack)
    BY <1>4 DEF Deliver
  <2> PICK f, t : f = Tell(Top.t, Top.ls \ {l}) /\ t = Top.t
    OBVIOUS
  <2>3. /\ l \in Listener /\ << l.on, t >> \in trans /\ ~ Restarts(f)
        /\ stack' = Handler(l, t) \o << f >> \o Tail(stack)
    BY <2>1, <2>2 DEF TellFrame, Restarts, Tell
  <2> QED BY <2>1, <2>3, HandlerLoop
<1>5. CASE ReplayTransition
  <2>1. stack # << >> /\ Top \in ReplayFrame
    BY <1>5, TopFrame DEF ReplayTransition, Running, Inv
  <2>2. PICK t \in Top.ts : stack' = Handler(Top.l, t) \o << Replay(Top.l, Top.ts \ {t}) >> \o Tail(stack)
    BY <1>5 DEF ReplayTransition
  <2> PICK f, l : f = Replay(Top.l, Top.ts \ {t}) /\ l = Top.l
    OBVIOUS
  <2>3. /\ l \in Listener /\ << l.on, t >> \in trans /\ ~ Restarts(f)
        /\ stack' = Handler(l, t) \o << f >> \o Tail(stack)
    BY <2>1, <2>2 DEF ReplayFrame, Restarts, Replay
  <2> QED BY <2>1, <2>3, HandlerLoop
<1>6. CASE TriggerOne
  <2>1. PICK x \in Top.xs :
          stack' = Trigger(x, Top.n) \o << TriggerAll(Top.xs \ {x}, Top.n) >> \o Tail(stack)
    BY <1>6 DEF TriggerOne
  <2> PICK f, n, a, b : /\ f = TriggerAll(Top.xs \ {x}, Top.n) /\ n = Top.n
                        /\ a = Add(Fields(x.flow), Connecting(x, n)) /\ b = AddReachable(x, n)
    OBVIOUS
  <2>2. Trigger(x, n) \o << f >> = << a, b, f >>
    BY TriggerThen
  <2> PICK fs : fs = << a, b, f >>
    OBVIOUS
  <2>3. stack # << >> /\ ~ Restarts(f) /\ stack' = fs \o Tail(stack)
    BY <1>6, <2>1, <2>2 DEF TriggerOne, Running, Restarts, TriggerAll
  <2>4. \A h \in Elems(stack') : Restarts(h) => h \in Elems(stack) \cup {f}
    BY <2>3, TriggerCalls, Zenon
  <2> QED BY <2>3, <2>4
<1>7. CASE BeginActivations
  <2> PICK f : f = Activations(Top.x, Activated(Pair(Top.x)))
    OBVIOUS
  <2>1. stack # << >> /\ stack' = << f >> \o Tail(stack)
    BY <1>7 DEF BeginActivations, Running
  <2>2. g \in Elems(stack) \cup {f}
    <3> PICK fs : fs = << f >>
      OBVIOUS
    <3>1. fs \in Seq({f}) /\ stack' = fs \o Tail(stack) /\ Elems(fs) = {f}
      BY <2>1, OneCall
    <3> QED BY <2>1, <3>1, AfterStep
  <2> QED BY <1>7, <2>2
<1>8. CASE ReplayActivation
  <2>1. stack # << >>
    BY <1>8 DEF ReplayActivation, Running
  <2>2. CASE \E n \in Top.ns :
               stack' = Trigger(Top.x, n) \o << Activations(Top.x, Top.ns \ {n}) >> \o Tail(stack)
    <3>1. PICK n \in Top.ns :
            stack' = Trigger(Top.x, n) \o << Activations(Top.x, Top.ns \ {n}) >> \o Tail(stack)
      BY <2>2
    <3> PICK f, x, a, b :
          /\ f = Activations(Top.x, Top.ns \ {n}) /\ x = Top.x
          /\ a = Add(Fields(x.flow), Connecting(x, n)) /\ b = AddReachable(x, n)
      OBVIOUS
    <3>2. Trigger(x, n) \o << f >> = << a, b, f >>
      BY TriggerThen
    <3> PICK fs : fs = << a, b, f >>
      OBVIOUS
    <3>3. stack' = fs \o Tail(stack)
      BY <3>1, <3>2
    <3>4. /\ Joins(x, n)'
          /\ \A h \in Elems(stack') : Restarts(h) => h \in Elems(stack) \cup {f}
      BY <2>1, <3>3, TriggerCalls, Zenon
    <3>5. g = f /\ Joins(x, n)'
      BY <3>4
    <3>6. g.x = x
      BY <3>5 DEF Activations
    <3> QED BY <1>8, <3>5, <3>6
  <2>3. CASE stack' = Tail(stack)
    <3> PICK F, s : F = Frame /\ s = stack
      OBVIOUS
    <3>1. s \in Seq(F) /\ s # << >>
      BY <2>1 DEF Inv
    <3>2. Elems(Tail(s)) \subseteq Elems(s)
      BY <3>1, TopOrBelow
    <3> QED BY <2>3, <3>2
  <2> QED BY <1>8, <2>2, <2>3 DEF ReplayActivation
<1> QED BY <1>1, <1>2, <1>3, <1>4, <1>5, <1>6, <1>7, <1>8 DEF Next, Engine

LEMMA TriggeredKept ==
  ASSUME Inv, [Next]_vars, NEW x, NEW n, Triggered(x, n) PROVE Triggered(x, n)'
<1>1. CASE Joins(x, n)
  BY <1>1, JoinsKept DEF Triggered
<1>2. ASSUME NEW h, Pending(h)', Triggers(h, x, n) PROVE Triggered(x, n)'
  BY <1>2 DEF Triggered, Pending, Triggers
<1>3. ASSUME NEW g, Triggers(g, x, n), Engine, g = Top PROVE Triggered(x, n)'
  <2>1. x \in Top.xs /\ Top.n = n /\ TriggerOne /\ stack # << >>
    BY <1>3, EngineBy DEF Triggers
  <2>2. PICK y \in Top.xs :
          stack' = Trigger(y, n) \o << TriggerAll(Top.xs \ {y}, n) >> \o Tail(stack)
    BY <2>1 DEF TriggerOne
  <2> PICK f : f = TriggerAll(Top.xs \ {y}, n)
    OBVIOUS
  <2> PICK a : a = Add(Fields(y.flow), Connecting(y, n))
    OBVIOUS
  <2> PICK b : b = AddReachable(y, n)
    OBVIOUS
  <2>3. Trigger(y, n) \o << f >> = << a, b, f >>
    BY TriggerThen
  <2>4. stack' = << a, b, f >> \o Tail(stack)
    BY <2>2, <2>3
  <2>5. Pending(a)' /\ Pending(b)' /\ Pending(f)'
    BY <2>1, <2>4, TopsOf DEF Inv, Pending
  <2>6. Joins(y, n)'
    <3> PICK t : t = Connecting(y, n)
      OBVIOUS
    <3>1. t.start = n
      BY TriggerIs
    <3>2. Entering(y, t)'
      BY <2>5, <3>1, BothEnter
    <3> QED BY <3>2 DEF Joins, Entering, Pending
  <2>7. y # x => Triggers(f, x, n)
    BY <2>1 DEF Triggers, TriggerAll
  <2> QED BY <1>2, <2>5, <2>7, <2>6 DEF Triggered
<1>4. CASE \E g \in Elems(stack) : Triggers(g, x, n)
  BY <1>2, <1>3, <1>4, PendingStays DEF Pending
<1> QED BY <1>1, <1>4 DEF Triggered

\* Who changes the tables of the activations
LEMMA PairTables ==
  ASSUME [Next]_vars
  PROVE  /\ ~ ActivateAllPois => activatedPoi' = activatedPoi
         /\ ~ ReplayActivation => poiListeners' = poiListeners
  BY DEF Next, Engine, Solvers, Derive, ReachStore, IndexTransition, RegisterListener,
    ServeStates, Deliver, ReplayTransition, AddTransition, AddBaseAllocation,
    AddFlowAllocation, ExecuteOne, BeginActivations, ReplayActivation, ActivateAllPois,
    TriggerOne, StartSolve, QueueOrAddTransition, BaseFlowsTo, MakeReachable,
    ReleaseTransition, Return, vars, pairVars

LEMMA NextTriggered ==
  ASSUME Inv, Inv', TrigInv, [Next]_vars, NoteOvertaken, NEW x \in poiListeners',
         NEW n \in Activated(Pair(x))'
  PROVE  Triggered(x, n)' \/ Overtaken(x, n)'
<1>1. CASE x \in poiListeners /\ n \in Activated(Pair(x))
  <2>1. Triggered(x, n) \/ Overtaken(x, n)
    BY <1>1 DEF TrigInv
  <2> QED BY <2>1, TriggeredKept, Noted
<1>2. CASE x \notin poiListeners
  <2>1. ReplayActivation /\ x = Top.x /\ Top.ns = {} /\ stack # << >>
    BY <1>2, PairTables DEF ReplayActivation, Running
  <2>2. n \in Activated(Pair(x))
    BY <2>1 DEF ReplayActivation, Activated
  <2>3. Top \in Elems(stack)
    BY <2>1, TopOrBelow DEF Inv, Top
  <2>4. Restarts(Top)
    BY <2>1 DEF ReplayActivation, Running, Restarts
  <2>5. Joins(x, n) \/ Overtaken(x, n)
    BY <2>1, <2>2, <2>3, <2>4 DEF TrigInv, ToldAll
  <2>6. Joins(x, n)' \/ Overtaken(x, n)'
    BY <2>5, JoinsKept, Noted
  <2> QED BY <2>6 DEF Triggered
<1>3. CASE x \in poiListeners /\ n \notin Activated(Pair(x))
  <2>1. <<Pair(x), n>> \in activatedPoi' /\ <<Pair(x), n>> \notin activatedPoi
    <3>1. \A e \in activatedPoi' : e = << e[1], e[2] >>
      BY DEF Inv, TablesInv
    <3> PICK e : e = << Pair(x), n >>
      OBVIOUS
    <3>2. e[1] = Pair(x) /\ e[2] = n
      OBVIOUS
    <3>3. e \notin activatedPoi
      BY <1>3, <3>2 DEF Activated
    <3>4. e \in activatedPoi'
      BY <3>1 DEF Activated
    <3> QED BY <3>3, <3>4
  <2>2. ActivateAllPois
    BY <2>1, PairTables
  <2> PICK f : f = TriggerAll(Registered(Pair(x)), n)
    OBVIOUS
  <2>3. stack # << >> /\ stack' = << f >> \o Tail(stack)
    BY <2>1, <2>2 DEF ActivateAllPois, Running
  <2>4. Pending(f)'
    BY <2>3, TopsOf DEF Inv, Pending
  <2>5. Triggers(f, x, n)
    BY <1>3 DEF Triggers, TriggerAll, Registered
  <2> QED BY <2>4, <2>5 DEF Triggered, Pending, Triggers
<1> QED BY <1>1, <1>2, <1>3

LEMMA NextToldAll ==
  ASSUME Inv, TrigInv, [Next]_vars, NoteOvertaken, NEW g \in Elems(stack'), Restarts(g),
         NEW n \in Activated(Pair(g.x))'
  PROVE  n \in g.ns \/ Joins(g.x, n)' \/ Overtaken(g.x, n)'
<1>1. CASE g \in Elems(stack) /\ n \in Activated(Pair(g.x))
  <2>1. n \in g.ns \/ Joins(g.x, n) \/ Overtaken(g.x, n)
    BY <1>1 DEF TrigInv, ToldAll
  <2> QED BY <2>1, JoinsKept, Noted
<1>2. CASE g \in Elems(stack) /\ n \notin Activated(Pair(g.x))
  BY <1>2, Noted
<1>3. CASE BeginActivations /\ g = Activations(Top.x, Activated(Pair(Top.x)))
  BY <1>3 DEF BeginActivations, Activations, Activated, pairVars
<1>4. CASE ReplayActivation /\ \E m \in Top.ns : g = Activations(Top.x, Top.ns \ {m}) /\ Joins(g.x, m)'
  <2>1. PICK m \in Top.ns : g = Activations(Top.x, Top.ns \ {m}) /\ Joins(g.x, m)'
    BY <1>4
  <2>2. g.x = Top.x /\ g.ns = Top.ns \ {m}
    BY <2>1 DEF Activations
  <2>3. Restarts(Top) /\ stack # << >> /\ n \in Activated(Pair(Top.x))
    BY <1>4, <2>2 DEF ReplayActivation, Running, Restarts, Activated
  <2>4. Top \in Elems(stack)
    BY <2>3, TopOrBelow DEF Inv, Top
  <2>5. n \in Top.ns \/ Joins(Top.x, n) \/ Overtaken(Top.x, n)
    BY <2>3, <2>4 DEF TrigInv, ToldAll
  <2> PICK x : x = Top.x
    OBVIOUS
  <2>6. Joins(x, n) \/ Overtaken(x, n) => Joins(x, n)' \/ Overtaken(x, n)'
    BY JoinsKept, Noted
  <2>7. g.x = x
    BY <2>2
  <2>8. Joins(x, n) \/ Overtaken(x, n) => Joins(g.x, n)' \/ Overtaken(g.x, n)'
    BY <2>6, <2>7
  <2> QED BY <2>1, <2>2, <2>5, <2>8
<1> QED BY <1>1, <1>2, <1>3, <1>4, RestartsOnly

\* A state activated by one run of a pair of solvers is continued by every run of the
\* pair, in every order of registering and activating, unless it is activated while the
\* earlier ones are replayed to that very run: this is the only way to lose one.
THEOREM ActivationsReachAll == HistSpec => []AllTriggered
<1>1. HistInit => TrigInv
  BY NothingPending DEF HistInit, Init, TrigInv, Quiet
<1>2. ASSUME Inv, Inv', TrigInv, [Next]_vars, NoteOvertaken PROVE TrigInv'
  BY <1>2, NextTriggered, NextToldAll DEF TrigInv, ToldAll
<1>3. ASSUME Inv, Inv', TrigInv, UNCHANGED histVars PROVE TrigInv'
  <2>1. NoteOvertaken
    BY <1>3 DEF NoteOvertaken, histVars, vars, pairVars
  <2>2. [Next]_vars
    BY <1>3 DEF histVars
  <2> QED BY <1>2, <1>3, <2>1, <2>2
<1>4. Inv /\ TrigInv => AllTriggered
  <2> SUFFICES ASSUME Inv, TrigInv, Quiet, NEW x \in poiListeners, NEW n \in Activated(Pair(x)),
                      << x, n >> \notin overtaken
               PROVE  /\ << Fields(x.flow), Connecting(x, n) >> \in trans
                      /\ << x, n >> \in reachable
    BY DEF AllTriggered
  <2>1. Triggered(x, n)
    BY DEF TrigInv, Overtaken
  <2>2. Joins(x, n)
    BY <2>1, NothingPending DEF Triggered
  <2> QED BY <2>2, NothingPending, TriggerIs DEF Joins, Entering
<1>5. HistSpec => Spec
  <2>1. HistInit => Init
    BY DEF HistInit
  <2>2. [HistNext]_histVars => [Next]_vars
    BY DEF HistNext, histVars
  <2> QED BY <2>1, <2>2, PTL DEF HistSpec, Spec
<1>6. Spec => []Inv
  BY Inductive
<1>7. Inv /\ Inv' /\ TrigInv /\ [HistNext]_histVars => TrigInv'
  BY <1>2, <1>3 DEF HistNext
<1> QED BY <1>1, <1>4, <1>5, <1>6, <1>7, PTL DEF HistSpec

=============================================================================
