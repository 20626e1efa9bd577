----------------------- MODULE ReachabilityListeners -----------------------
(***************************************************************************)
(* ForwardDFSVisitor and ForwardDFSEpsilonVisitor beside PostStar: a       *)
(* client asks to hear of every transition behind a state, and the visitor *)
(* keeps the transitive closure of the automaton while it grows.           *)
(*                                                                         *)
(* The visitor is an update listener.  The automaton tells it of a         *)
(* transition while other update listeners, called before or after it in   *)
(* the same loop, add more; so it may hear of a transition after those     *)
(* that follow from it.  The clients' listeners only collect, so nothing   *)
(* of PostStar's runs while the visitor follows the edges it has found.    *)
(***************************************************************************)
EXTENDS PostStar

\* `registered' with the automaton; adjacent; the pairs in refCount, which are those
\* of reaches; inverseReaches; the states with a client's listener; the TransitiveClosure
\* listeners << state, listened >>; what was passed to reachable, << listened, transition >>;
\* the depths of the stack at which an update loop has yet to call the visitor; and what
\* is left of its own loops: the replay to a new visitor, the worklist of insertEdge and
\* the listener to register after the replay.
VARIABLE visitor

visited == << vars, visitor >>

NewVisitor(kind) ==
  [ kind |-> kind, registered |-> FALSE, adjacent |-> {}, refs |-> {}, inverse |-> {},
    listeners |-> {}, closures |-> {}, heard |-> {}, due |-> {},
    replay |-> {}, worklist |-> {}, asking |-> {} ]

Idle == visitor.replay = {} /\ visitor.worklist = {} /\ visitor.asking = {}

\* registerListener for new TransitiveClosures, which hear what is there
Close(v, closures) ==
  [v EXCEPT !.closures = @ \cup closures,
            !.heard = @ \cup UNION { {c[2]} \X OutOf(c[1]) : c \in closures \ v.closures }]

\* inverseReaches, for pairs of states
InverseReaches(v, pairs) ==
  LET new == pairs \ v.inverse
  IN  Close([v EXCEPT !.inverse = @ \cup new],
            { << x[2], x[1] >> : x \in { y \in new : y[1] \in v.listeners } })

\* makeClosure for pairs of states; those without a refCount go on the worklist.
Found(v, pairs) ==
  LET new == pairs \ v.refs
  IN  InverseReaches([v EXCEPT !.refs = @ \cup new, !.worklist = @ \cup new], pairs)

\* Mutant: what reaches the start of the new edge is not looked at.
InsertEdgeForward(v, a, b) ==
  Found([v EXCEPT !.adjacent = @ \cup {<< a, b >>}], {<< a, b >>})

InsertEdge(v, a, b) ==
  LET before == {a} \cup { x[1] : x \in { y \in v.refs : y[2] = a } }
  IN  Found([v EXCEPT !.adjacent = @ \cup {<< a, b >>}], before \X {b})

ContinueWith(v, t) == v.kind = "epsilon" => t.label \in Empties

\* onWeightAdded
Visit(v, t) ==
  LET own == InverseReaches(v, {<< t.start, t.start >>})
  IN  IF ContinueWith(v, t) THEN InsertEdge(own, t.start, t.target) ELSE own

-----------------------------------------------------------------------------
\* The worklist of insertEdge: an edge found is followed along `adjacent'.
FollowEdge ==
  /\ \E e \in visitor.worklist :
       visitor' = Found([visitor EXCEPT !.worklist = @ \ {e}],
                        {e[1]} \X { x[2] : x \in { y \in visitor.adjacent : y[1] = e[2] } })
  /\ UNCHANGED vars

\* registerListener(WPAUpdateListener), one transition of its snapshot
ReplayVisit ==
  /\ visitor.worklist = {}
  /\ \E t \in visitor.replay :
       visitor' = [Visit(visitor, t) EXCEPT !.replay = @ \ {t}]
  /\ UNCHANGED vars

\* registerListener of the visitor
Listen ==
  /\ visitor.worklist = {} /\ visitor.replay = {}
  /\ \E s \in visitor.asking :
       visitor' = Close([visitor EXCEPT !.listeners = @ \cup {s}, !.asking = @ \ {s}],
                        { << x[2], s >> : x \in { y \in visitor.inverse : y[1] = s } })
  /\ UNCHANGED vars

\* registerDFSListener and registerDFSEpsilonListener: the first creates the visitor,
\* to which the automaton replays its transitions.
RegisterDFSListener(s) ==
  /\ ClientTurn /\ Idle
  /\ s \notin visitor.listeners
  /\ visitor' = [visitor EXCEPT !.registered = TRUE, !.asking = {s},
                                !.replay = IF visitor.registered THEN {} ELSE DOMAIN weight]
  /\ UNCHANGED vars

\* The update loop of a transition calls the visitor.
VisitorTurn ==
  /\ Idle
  /\ Running("updated") /\ Len(stack) \in visitor.due
  /\ visitor' = [Visit(visitor, Top.t) EXCEPT !.due = @ \ {Len(stack)}]
  /\ UNCHANGED vars

\* An update loop, begun when the visitor was there, calls it before it ends.
VisitedAddWeight ==
  /\ AddWeight
  /\ visitor' = IF visitor.registered /\ weight' # weight
                THEN [visitor EXCEPT !.due = @ \cup {Len(stack)}] ELSE visitor

\* The loop over the state listeners calls the closures.
VisitedServe ==
  /\ ServeStateListeners /\ Len(stack) \notin visitor.due
  /\ visitor' = [visitor EXCEPT !.heard = @ \cup
       { << c[2], Top.t >> : c \in { d \in visitor.closures : d[1] = Top.t.start } }]

VisitedEngine ==
  \/ FollowEdge \/ ReplayVisit \/ Listen \/ VisitorTurn
  \/ Idle /\ (VisitedAddWeight \/ VisitedServe)
  \/ /\ Idle
     /\ Deliver \/ RegisterListener \/ ReplayTransition \/ RecordUnbalancedPop
        \/ ReplayRule \/ Return
     /\ UNCHANGED visitor

VisitedInit == Init /\ visitor \in { NewVisitor(k) : k \in {"dfs", "epsilon"} }
VisitedNext ==
  \/ VisitedEngine
  \/ Idle /\ Client /\ UNCHANGED visitor
  \/ \E s \in State : RegisterDFSListener(s)
VisitedSpec == VisitedInit /\ [][VisitedNext]_visited

-----------------------------------------------------------------------------
\* The states behind s: those in every set that has s and goes on along the transitions
\* the visitor continues with.
GoesOn(W) ==
  \A t \in DOMAIN weight : t.start \in W /\ ContinueWith(visitor, t) => t.target \in W
Behind(s) ==
  LET all == {s} \cup { t.target : t \in DOMAIN weight }
  IN  { q \in all : \A W \in SUBSET all : s \in W /\ GoesOn(W) => q \in W }

\* A listener hears of the transitions out of the states behind its own, of no others,
\* and of all of them by the time no call is in progress: in whatever order the
\* transitions, the calls of the visitor and the listener itself have come, and along
\* epsilon transitions only for the second kind (ForwardDFSVisitor.insertEdge).
HeardReachable ==
  LET all == UNION { {s} \X { t \in DOMAIN weight : t.start \in Behind(s) } :
                       s \in visitor.listeners }
  IN  visitor.heard \subseteq all /\ (stack = << >> /\ Idle => visitor.heard = all)
=============================================================================
