---------------------------- MODULE MCScheduler ----------------------------
(* Instances of Scheduler for TLC. *)
EXTENDS Scheduler, TLC

CONSTANTS p1, p2, n1, n2, b1, b2

OneRoom == [n \in Nodes |-> 1]

Fresh      == [state |-> "none", gated |-> FALSE, node |-> None]
Behind     == [Fresh EXCEPT !.gated = TRUE]
Placed(n)  == [Fresh EXCEPT !.state = "bound", !.node = n]
Absent     == [Fresh EXCEPT !.state = "gone"]

Start(a, b, faults, writes) ==
    [api |-> p1 :> a @@ p2 :> b, faults |-> faults, patches |-> writes]

Waits == [Fresh EXCEPT !.state = "pending"]

\* two pods after one place, and what a cluster may do to them; the faults that
\* no property about two pods survives come with one pod, as the gate does,
\* which a pod held for five minutes passes over and over, and the status patch
\* of a rejected pod with one that competes only with a bound pod
Clusters ==
    { Start(Fresh, Fresh, {"error"}, 0), Start(Behind, Absent, {}, 0),
      Start(Fresh, Placed(n1), {}, 1), Start(Waits, Placed(n1), {}, 0) }
    \cup { Start(Fresh, Absent, {kind}, 1) : kind \in {"reject", "finalizer", "edit"} }
    \cup { Start(Fresh, Absent, {kind}, 0) : kind \in {"lost", "relist", "flap"} }

ASSUME FitAssumption == StartsFit

\* two pods, and the news of two nodes; a gate alone; a bind unanswered
TwoPods  == { Start(Fresh, Fresh, {}, 0) }
GateOnly == { Start(Behind, Absent, {}, 0) }
OneLost  == { Start(Fresh, Fresh, {"lost"}, 0) }
=============================================================================
