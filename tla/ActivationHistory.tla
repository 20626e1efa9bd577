-------------------------- MODULE ActivationHistory --------------------------
(***************************************************************************)
(* PointsOfIndirection with a history variable, which says which states    *)
(* registerActivationListener does not hand to the run it registers.  It   *)
(* triggers the run for a snapshot of the states activated so far and puts *)
(* it into poiListeners only afterwards; triggering makes the solvers go   *)
(* on, and a state of the pair they activate in between is in neither.     *)
(***************************************************************************)
EXTENDS PointsOfIndirection

VARIABLE overtaken     \* runs with the states activated during their replay

histVars == << vars, overtaken >>

\* The runs of a pair whose replay is in progress
Replaying(p) ==
  { stack[i].x : i \in { i \in DOMAIN stack :
                           stack[i].op = "activations" /\ Pair(stack[i].x) = p } }

\* A state that a step activates for a pair overtakes them.
NoteOvertaken ==
  overtaken' = overtaken \cup
    UNION { Replaying(e[1]) \X {e[2]} : e \in activatedPoi' \ activatedPoi }

HistInit == Init /\ overtaken = {}
HistNext == Next /\ NoteOvertaken
HistSpec == HistInit /\ [][HistNext]_histVars

-----------------------------------------------------------------------------
(* A state activated by one store of a pair of solvers is continued by     *)
(* every store of the pair, whether that store is executed before, in the  *)
(* middle of the execution of another or later, with one exception: a      *)
(* state that is activated while the earlier ones are replayed to the      *)
(* store's own run, which the code may lose (activateAllPois,              *)
(* registerActivationListener, FieldWritePOI.execute).                     *)
AllTriggered ==
  Quiet => \A x \in poiListeners : \A n \in Activated(Pair(x)) :
    << x, n >> \notin overtaken =>
      /\ << Fields(x.flow), Connecting(x, n) >> \in trans
      /\ << x, n >> \in reachable
=============================================================================
