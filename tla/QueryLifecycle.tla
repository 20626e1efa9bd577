--------------------------- MODULE QueryLifecycle ---------------------------
(***************************************************************************)
(* The solve methods of WeightedBoomerang: what a query shares with the    *)
(* queries solved before it, after it and in the middle of it - the solver *)
(* and its automata, the stopwatch, the query graph - and how it ends,     *)
(* when it completes, runs out of time or crashes.                         *)
(*                                                                         *)
(* The flows of a query are counted, not computed: `left' says how many    *)
(* transitions its automata lack.  A call derives them one by one, and     *)
(* more when an edge of the query graph permits it to return into the      *)
(* parent's contexts; what a call that is cut has not derived nobody       *)
(* derives later, because the transitions that lead there are not new.     *)
(***************************************************************************)
EXTENDS Naturals, Sequences

CONSTANTS
  Query, Forward,       \* the queries; the forward ones
  Work,                 \* how many transitions the flows of a query make
  Returns,              \* ... and how many more an edge to a parent permits
  Nested,               \* which queries are solved in the middle of a query's
                        \* flows: [query, at, callee, entry]
  Crashes,              \* where a listener or a client's code may throw
  Options,              \* allowMultipleQueries; analysisTimeoutMS, 0 for none
  NoParent,
  MaxTime               \* bound for TLC: how long the queries may take

VARIABLES
  options, solving,
  watch,                \* analysisWatch
  roots, edges,         \* the query graph; an edge with the call that added it
  key,                  \* the query the backward solver was created for: the first
  seeded,               \* the queries whose first transition is in the automata
  left,                 \* by query: the transitions that are not, but follow
  listening,            \* the queries whose solvers have listeners
  stack,                \* the solve calls in progress, innermost first
  thrown,               \* the exception on its way
  outcome,              \* by query: how its last solve ended for the caller
  history               \* what no code reads: the time spent in solve, the queries
                        \* a crash went through, whether a timed query was solved
                        \* inside another, whether a crash left solve

graphVars == << roots, edges, key >>
vars == << options, solving, watch, graphVars, seeded, left, listening, stack, thrown,
           outcome, history >>

-----------------------------------------------------------------------------
\* solve(query), solveUnderScope, solve(query, false) and, with no guard and no
\* clean-up, what the solvers call for each other: forwardSolve for an allocation
\* that is reached, backwardSolve for the base of a store.
Entry == {"solve", "scope", "resolve", "inner"}
Timed(entry) == entry \in {"solve", "scope"}

ASSUME LifecycleAssumption ==
  /\ Forward \subseteq Query /\ NoParent \notin Query /\ MaxTime \in Nat
  /\ Work \in [Query -> Nat \ {0}] /\ Returns \in [Query -> Nat]
  /\ Nested \subseteq [query : Query, at : Nat, callee : Query, entry : Entry]
  /\ \A n \in Nested : n.entry # "scope" /\ (n.query \notin Forward /\ n.entry = "inner" =>
                                             n.callee \in Forward)
  /\ Crashes \subseteq Query \X Nat
  /\ Options \subseteq [multiple : BOOLEAN, limit : Nat]

Frame ==
  [query : Query, entry : Entry, parent : Query \cup {NoParent},
   new : BOOLEAN,         \* what it adds is new
   added : Nat,           \* what this call has added so far
   pending : Nat,         \* ... and what it has still to add
   calls : SUBSET Nested, \* what the transition just added makes it solve
   late : BOOLEAN]        \* the time was over when it began

Top == Head(stack)
Quiet == stack = << >> /\ thrown = "nothing"
Running == stack # << >> /\ thrown = "nothing"

Expired == options.limit > 0 /\ watch.elapsed > options.limit

\* Mutant: every solve counts its own time.
StartWatchAnew == IF watch.running THEN watch ELSE [running |-> TRUE, elapsed |-> 0]

\* Stopwatch.start and stop, each after isRunning
StartWatch == [watch EXCEPT !.running = TRUE]
StopWatch == [watch EXCEPT !.running = FALSE]

-----------------------------------------------------------------------------
Init ==
  /\ options \in Options
  /\ solving = FALSE /\ watch = [running |-> FALSE, elapsed |-> 0]
  /\ roots = {} /\ edges = {} /\ key = NoParent /\ seeded = {} /\ left = Work /\ listening = {}
  /\ stack = << >> /\ thrown = "nothing"
  /\ outcome = [q \in Query |-> [end |-> "none", late |-> FALSE]]
  /\ history = [spent |-> 0, broken |-> {}, nested |-> FALSE, escaped |-> FALSE]

\* The guard of the four solve methods
Rejects(entry) == entry # "inner" /\ ~ options.multiple /\ solving

\* A query's call begins, over the calls `rest'.
Begin(q, entry, parent, rest) ==
  /\ stack' =
       << [query |-> q, entry |-> entry, parent |-> parent, new |-> q \notin seeded,
           added |-> 0, pending |-> IF q \in seeded THEN 1 ELSE Work[q], calls |-> {},
           late |-> Expired] >> \o rest
  /\ solving' = (solving \/ entry # "inner")
  /\ watch' = IF Timed(entry) THEN StartWatch ELSE watch
  /\ roots' = IF entry \in {"solve", "resolve"} THEN roots \cup {q} ELSE roots
  /\ key' = IF key = NoParent /\ q \notin Forward THEN q ELSE key

\* A client calls solve or solveUnderScope.
Call(q, entry, parent) ==
  /\ Quiet /\ Timed(entry) /\ ~ Rejects(entry)
  /\ Begin(q, entry, parent, << >>)
  /\ UNCHANGED << options, edges, seeded, left, listening, thrown, outcome,
                  history >>

\* Mutant: the resolver's query is timed like any other.
StartsTimed(n) == IF n.entry = "resolve" THEN "solve" ELSE n.entry

\* BoomerangResolver: solve(query, false); IDEALSeedSolver: solve(query)
Starts(n) == n.entry

\* The allocations are given to the query the backward solver was created for.
ParentIn(n) ==
  IF n.entry # "inner" THEN NoParent ELSE IF n.query \in Forward THEN n.query ELSE key

\* A listener solves a query in the middle of the flows of another.
SolveNested ==
  /\ Running
  /\ \E n \in Top.calls :
       LET rest == << [Top EXCEPT !.calls = @ \ {n}] >> \o Tail(stack)
       IN  IF Rejects(n.entry)
           THEN /\ thrown' = "crash" /\ stack' = rest
                /\ UNCHANGED << solving, watch, roots, key, history >>
           ELSE /\ Begin(n.callee, Starts(n), ParentIn(n), rest)
                /\ history' = [history EXCEPT !.nested = @ \/ n.entry = "solve"]
                /\ UNCHANGED thrown
  /\ UNCHANGED << options, edges, seeded, left, listening, outcome >>

\* Mutant: the time is up only while the watch is running.
CheckTimeoutRunning(adds) ==
  IF Expired /\ watch.running
  THEN /\ watch' = StopWatch /\ thrown' = "timeout"
       /\ UNCHANGED << seeded, left, listening, stack >>
  ELSE adds /\ UNCHANGED << watch, thrown >>

\* checkTimeout, before a transition is added, and the transition
CheckTimeout(adds) ==
  IF Expired
  THEN /\ watch' = StopWatch /\ thrown' = "timeout"
       /\ UNCHANGED << seeded, left, listening, stack >>
  ELSE adds /\ UNCHANGED << watch, thrown >>

\* What the next transition of the call x makes it solve, if it is new
Hits(x) ==
  { n \in Nested : x.new /\ n.query = x.query /\ n.at = x.added + 1 }

AddTransition ==
  /\ Running /\ Top.calls = {} /\ Top.pending > 0
  /\ CheckTimeout(
       /\ seeded' = seeded \cup {Top.query}
       /\ left' = IF Top.new THEN [left EXCEPT ![Top.query] = @ - 1] ELSE left
       /\ listening' = listening \cup {Top.query}
       /\ stack' =
            << [Top EXCEPT !.added = @ + 1, !.pending = @ - 1, !.calls = Hits(Top)] >>
            \o Tail(stack))
  /\ UNCHANGED << options, solving, graphVars, outcome, history >>

\* The edge is added after the solve: now flows may return to the parent.
Edge(x) == << x.parent, x.query, x.entry >>
InGraph(x) == x.entry \in {"scope", "inner"} => Edge(x) \in edges
\* What an edge for the call x permits, unless the parent has it already
Permitted(x) ==
  IF \E e \in edges : e[1] = x.parent /\ e[2] = x.query THEN 0 ELSE Returns[x.query]

\* Mutant: the edge tells nobody that the contexts of the parent are there now.
AddEdgeOld ==
  /\ Running /\ Top.calls = {} /\ Top.pending = 0 /\ ~ InGraph(Top)
  /\ edges' = edges \cup {Edge(Top)}
  /\ left' = [left EXCEPT ![Top.query] = @ + Permitted(Top)]
  /\ stack' = << [Top EXCEPT !.pending = Permitted(Top)] >> \o Tail(stack)
  /\ UNCHANGED << options, solving, watch, roots, key, seeded, listening,
                  thrown, outcome, history >>

AddEdge ==
  /\ Running /\ Top.calls = {} /\ Top.pending = 0 /\ ~ InGraph(Top)
  /\ edges' = edges \cup {Edge(Top)}
  /\ left' = [left EXCEPT ![Top.query] = @ + Permitted(Top)]
  /\ stack' =
       << [Top EXCEPT !.new = TRUE, !.pending = Permitted(Top)] >> \o Tail(stack)
  /\ UNCHANGED << options, solving, watch, roots, key, seeded, listening,
                  thrown, outcome, history >>

\* A listener throws.
Crash ==
  /\ Running /\ Top.calls = {}
  /\ << Top.query, Top.added >> \in Crashes
  /\ thrown' = "crash"
  /\ UNCHANGED << options, solving, watch, graphVars, seeded, left, listening,
                  stack, outcome, history >>

-----------------------------------------------------------------------------
(* How a solve ends *)

\* unregisterAllListeners; not in solveUnderScope of a backward query
Unregistered(x) ==
  IF options.multiple \/ (x.entry = "scope" /\ x.query \notin Forward)
  THEN listening ELSE {}

\* What follows the try block, for one that ended as e.
Return(x, e) ==
  /\ watch' = IF Timed(x.entry) THEN StopWatch ELSE watch
  /\ listening' = Unregistered(x)
  /\ outcome' = [outcome EXCEPT ![x.query] = [end |-> e, late |-> x.late]]
  /\ stack' = Tail(stack) /\ thrown' = "nothing"

Complete ==
  /\ Running /\ Top.calls = {} /\ Top.pending = 0 /\ InGraph(Top)
  /\ IF Top.entry = "inner"
     THEN stack' = Tail(stack) /\ UNCHANGED << watch, listening, outcome, thrown >>
     ELSE Return(Top, "complete")
  /\ UNCHANGED << options, solving, graphVars, seeded, left, history >>

\* All of them catch a time-out; a crash only those of forward queries.
Catches(x) ==
  /\ x.entry # "inner"
  /\ thrown = "timeout" \/ (thrown = "crash" /\ x.query \in Forward)

Broken ==
  IF thrown = "crash" THEN history.broken \cup {Top.query} ELSE history.broken

\* Mutant: a crash leaves solve through the caller without the clean-up.
CatchKeepRunning ==
  /\ stack # << >> /\ thrown # "nothing" /\ Catches(Top)
  /\ IF thrown = "timeout" THEN Return(Top, "timedout")
     ELSE /\ outcome' = [outcome EXCEPT ![Top.query] = [end |-> "crashed", late |-> Top.late]]
          /\ stack' = Tail(stack) /\ thrown' = "nothing"
          /\ UNCHANGED << watch, listening >>
  /\ history' = [history EXCEPT !.broken = Broken]
  /\ UNCHANGED << options, solving, graphVars, seeded, left >>

Catch ==
  /\ stack # << >> /\ thrown # "nothing" /\ Catches(Top)
  /\ Return(Top, IF thrown = "timeout" THEN "timedout" ELSE "crashed")
  /\ history' = [history EXCEPT !.broken = Broken]
  /\ UNCHANGED << options, solving, graphVars, seeded, left >>

Unwind ==
  /\ stack # << >> /\ thrown # "nothing" /\ ~ Catches(Top)
  /\ stack' = Tail(stack)
  /\ thrown' = IF Len(stack) = 1 THEN "nothing" ELSE thrown
  /\ history' = [history EXCEPT !.broken = Broken, !.escaped = @ \/ Len(stack) = 1]
  /\ UNCHANGED << options, solving, watch, graphVars, seeded, left, listening, outcome >>

-----------------------------------------------------------------------------
Tick ==
  /\ Running /\ history.spent < MaxTime
  /\ watch' = IF watch.running THEN [watch EXCEPT !.elapsed = @ + 1] ELSE watch
  /\ history' = [history EXCEPT !.spent = @ + 1]
  /\ UNCHANGED << options, solving, graphVars, seeded, left, listening, stack,
                  thrown, outcome >>

Engine == SolveNested \/ AddTransition \/ AddEdge \/ Complete \/ Catch \/ Unwind
Environment == Crash \/ Tick
Client ==
  \E q \in Query : \/ Call(q, "solve", NoParent)
                   \/ \E p \in seeded : Call(q, "scope", p)

Next == Engine \/ Environment \/ Client
Spec == Init /\ [][Next]_vars /\ WF_vars(Engine)

-----------------------------------------------------------------------------
(* Correctness *)

\* A result that is not marked as timed out is the whole result, that of the
\* queries its flows needed included, however the queries before it ended - unless
\* a crash went through a solve of the query, which the result does not show.
Inner(q) == { n.callee : n \in { m \in Nested : m.query = q /\ m.entry = "inner" } }
WholeUnlessTimedOut ==
  Quiet => \A q \in Query \ history.broken :
             outcome[q].end = "complete" =>
               \A r \in {q} \cup Inner(q) : r \in history.broken \/ left[r] = 0

\* Whoever asks and in whatever order: as long as there is time, nothing is lost of a
\* query the automata know; and what completes is the whole result, unless the query
\* may be cut later in the middle of another's flows, which the result does not show.
Inners == UNION { Inner(q) : q \in Query }
AnsweredWhole ==
  Quiet => \A q \in Query \ history.broken :
             /\ q \in seeded /\ ~ Expired => left[q] = 0
             /\ q \notin Inners /\ outcome[q].end = "complete" => left[q] = 0

\* When the time is over no query completes any more: the watch that a nested
\* time-out has stopped still tells the queries around it.
NoLateAnswer == \A q \in Query : outcome[q].late => outcome[q].end # "complete"

\* The watch counts the time spent in solve, neither twice when queries nest nor
\* in between - as long as no timed query is solved inside another.
TimeCounted ==
  ~ history.nested /\ ~ history.escaped /\ ~ Expired => watch.elapsed = history.spent

\* When the last solve has returned, by whichever of its ways, the watch stands
\* and an instance for one query keeps no listeners.
CleanUp ==
  Quiet /\ ~ history.escaped =>
    /\ ~ watch.running
    /\ ~ options.multiple => listening = {}
=============================================================================
