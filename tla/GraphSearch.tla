----------------------------- MODULE GraphSearch -----------------------------
(***************************************************************************)
(* What a worklist search over a graph promises, whatever its stacks look   *)
(* like: it marks nodes one at a time, only nodes it has a reason to mark,  *)
(* and it finishes only when nothing reachable is left.  Backtrack (the     *)
(* def-use search of DOP-Gadgets) is shown to implement it; CallerWalk (its *)
(* search for the callers of a function) states its result with it.         *)
(***************************************************************************)
EXTENDS Naturals, FiniteSets

CONSTANT Nodes

VARIABLES
    edges,    \* [Nodes -> SUBSET Nodes], fixed during a search
    start,    \* the set of nodes the search starts from
    reached,  \* nodes marked so far
    status    \* "running", "done" or "exited" (given up half way)

vars == <<edges, start, reached, status>>

TypeOK ==
    /\ edges \in [Nodes -> SUBSET Nodes]
    /\ start \in SUBSET Nodes
    /\ reached \in SUBSET Nodes
    /\ status \in {"running", "done", "exited"}

(* Nodes the search may mark next.                                          *)
Frontier == (start \cup UNION {edges[v] : v \in reached}) \ reached

ClosedSet(S) == \A v \in S : edges[v] \subseteq S

(* The nodes reachable from start: those in every closed set around it.     *)
Reach == {v \in Nodes : \A S \in SUBSET Nodes : start \subseteq S /\ ClosedSet(S) => v \in S}

Init ==
    /\ edges \in [Nodes -> SUBSET Nodes]
    /\ start \in SUBSET Nodes
    /\ reached = {}
    /\ status = "running"

Mark(v) ==
    /\ status = "running"
    /\ v \in Frontier
    /\ reached' = reached \cup {v}
    /\ UNCHANGED <<edges, start>>

Grow == \E v \in Nodes : Mark(v) /\ status' = "running"

GiveUp == \E v \in Nodes : Mark(v) /\ status' = "exited"

Finish ==
    /\ status = "running"
    /\ Frontier = {}
    /\ status' = "done"
    /\ UNCHANGED <<edges, start, reached>>

Next == Grow \/ GiveUp \/ Finish

Spec == Init /\ [][Next]_vars /\ WF_vars(Next)

------------------------------------------------------------------------------
(* A search never marks a node that is not reachable, and one that returns  *)
(* has marked every node that is.                                           *)
Exact ==
    /\ reached \subseteq Reach
    /\ status = "done" => reached = Reach
==============================================================================
