--------------------------- MODULE WorkerContract ---------------------------
(* The abstract specification of one worker thread: the view the main      *)
(* thread has of it changes only as WorkerView allows.                     *)
EXTENDS WorkerView

VARIABLE view

Init == \E precheck \in BOOLEAN : view = Fresh(precheck)

Next == Step(view, view') \/ Tell(view, view') \/ Take(view, view')

Spec == Init /\ [][Next]_view
=============================================================================
