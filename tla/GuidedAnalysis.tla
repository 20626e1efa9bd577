--------------------------- MODULE GuidedAnalysis ---------------------------
(***************************************************************************)
(* DemandDrivenGuidedAnalysis: a worklist of queries on one solver.  Each  *)
(* query is solved under the query that raised it, and whatever its flows  *)
(* reach may raise further queries.                                        *)
(***************************************************************************)
EXTENDS QueryLifecycle

CONSTANTS
  Raises,               \* what the manager answers: [query, at, child] for the
                        \* transition number at of query's flows
  Allocations           \* by query: the allocations its backward flows reach

VARIABLES
  phase,                \* of run: "idle", "loop", "solving", "reading", "done",
                        \* "aborted" by an exception
  start,                \* the initial query
  queue, visited,
  current,              \* pop.query
  tables,               \* the tables of its results still to be read: the query
                        \* they are read for and those they raise
  raised                \* what no code reads: which query raised which

guidedVars == << phase, start, queue, visited, current, tables, raised >>

ASSUME GuidedAssumption ==
  /\ Raises \subseteq [query : Query, at : Nat, child : Query]
  /\ Allocations \in [Query -> SUBSET Forward]

\* The queries the flows of those in qs raise, as far as they were derived.
RaisedBy(qs) ==
  { r.child : r \in { x \in Raises :
      x.query \in qs \cap seeded
      /\ x.at <= Work[x.query] + Returns[x.query] - left[x.query] } }

GuidedInit ==
  /\ Init /\ phase = "idle" /\ start = NoParent /\ queue = << >> /\ visited = {}
  /\ current = NoParent /\ tables = {} /\ raised = {}

-----------------------------------------------------------------------------
\* run(query), once per instance; the constructor demands allowMultipleQueries.
Run(q) ==
  /\ phase = "idle" /\ options.multiple /\ Quiet
  /\ phase' = "loop" /\ start' = q
  /\ queue' = << [query |-> q, parent |-> NoParent] >>
  /\ UNCHANGED << vars, visited, current, tables, raised >>

SolveNext ==
  /\ phase = "loop" /\ queue # << >>
  /\ LET pop == Head(queue)
     IN  /\ Call(pop.query, IF pop.parent = NoParent THEN "solve" ELSE "scope", pop.parent)
         /\ current' = pop.query
  /\ queue' = Tail(queue) /\ phase' = "solving"
  /\ UNCHANGED << start, visited, tables, raised >>

\* All backward queries share a solver, which is looked up by the initial query;
\* the results of a backward query give the tables of its allocations as well.
Tables ==
  IF current \in Forward THEN {[of |-> current, raises |-> RaisedBy({current})]}
  ELSE {[of |-> current, raises |-> RaisedBy(Query \ Forward)]}
       \cup { [of |-> f, raises |-> RaisedBy({f})] : f \in Allocations[current] \cap seeded }

Read ==
  /\ phase = "solving" /\ Quiet /\ ~ history.escaped
  /\ IF current \notin Forward /\ start \in Forward
     THEN phase' = "aborted" /\ UNCHANGED tables         \* NullPointerException
     ELSE phase' = "reading" /\ tables' = Tables
  /\ UNCHANGED << vars, start, queue, visited, current, raised >>

\* The exception of a backward query leaves run.
Abort ==
  /\ phase = "solving" /\ Quiet /\ history.escaped
  /\ phase' = "aborted"
  /\ UNCHANGED << vars, start, queue, visited, current, tables, raised >>

\* Mutant: a query is queued as often as it is raised.
AddToQueueAgain ==
  /\ phase = "reading"
  /\ \E t \in tables : \E c \in t.raises :
       /\ t.of # current => \A u \in tables : u.of # current
       /\ tables' = (tables \ {t}) \cup {[t EXCEPT !.raises = @ \ {c}]}
       /\ raised' = raised \cup {<< t.of, c >>}
       /\ queue' = Append(queue, [query |-> c, parent |-> t.of])
       /\ visited' = visited \cup {c}
  /\ UNCHANGED << vars, phase, start, current >>

\* triggerNewBackwardQueries and addToQueue; the table of the query itself is read
\* before those of its allocations.
AddToQueue ==
  /\ phase = "reading"
  /\ \E t \in tables : \E c \in t.raises :
       /\ t.of # current => \A u \in tables : u.of # current
       /\ tables' = (tables \ {t}) \cup {[t EXCEPT !.raises = @ \ {c}]}
       /\ raised' = raised \cup {<< t.of, c >>}
       /\ IF c \in visited THEN UNCHANGED << queue, visited >>
          ELSE /\ queue' = Append(queue, [query |-> c, parent |-> t.of])
               /\ visited' = visited \cup {c}
  /\ UNCHANGED << vars, phase, start, current >>

EndTable ==
  /\ phase = "reading"
  /\ \E t \in tables : t.raises = {} /\ tables' = tables \ {t}
  /\ UNCHANGED << vars, phase, start, queue, visited, current, raised >>

EndTables ==
  /\ phase = "reading" /\ tables = {}
  /\ phase' = "loop"
  /\ UNCHANGED << vars, start, queue, visited, current, tables, raised >>

EndRun ==
  /\ phase = "loop" /\ queue = << >>
  /\ phase' = "done"
  /\ UNCHANGED << vars, start, queue, visited, current, tables, raised >>

Analysis ==
  \/ SolveNext \/ Read \/ Abort \/ AddToQueue \/ EndTable \/ EndTables \/ EndRun
  \/ (Engine /\ UNCHANGED guidedVars)

GuidedNext ==
  \/ \E q \in Query : Run(q)
  \/ Analysis
  \/ (Environment /\ UNCHANGED guidedVars)

GuidedSpec ==
  GuidedInit /\ [][GuidedNext]_<< vars, guidedVars >> /\ WF_<< vars, guidedVars >>(Analysis)

-----------------------------------------------------------------------------
(* Correctness *)

\* A query that raised one of the graph is in the graph itself: a query that was
\* cut before it got its edge leaves no time for those it has raised.
ParentsInGraph ==
  Quiet /\ history.broken = {} =>
    \A e \in edges : e[3] = "scope" /\ e[1] \notin roots => \E i \in edges : i[2] = e[1]

\* run ends, with its graph or with the exception of a backward query or of the
\* look-up by an initial query that is forward.
RunEnds ==
  (phase = "loop") ~>
    (phase = "done" \/ (phase = "aborted" /\ (history.escaped \/ start \in Forward)))

\* The comment of run: the graph holds an edge from every query to those it has
\* triggered.
AllTriggersInGraph ==
  phase = "done" => \A p \in raised : << p[1], p[2], "scope" >> \in edges
=============================================================================
