----------------------------- MODULE CycleBreak -----------------------------
(***************************************************************************)
(* What the cycle eliminator of gen_graph.py promises, stated without the  *)
(* depth-first search: from an input CFG it picks, in one step, a set of   *)
(* edges to remove such that                                               *)
(*   - the graph that remains is acyclic (the Katz iteration then          *)
(*     converges), and                                                     *)
(*   - every removed edge closes a cycle (no edge that lies on no cycle,   *)
(*     e.g. a cross or forward edge, is ever dropped).                     *)
(***************************************************************************)
EXTENDS GraphStore

CONSTANT InputGraphs   \* the CFGs (edge sets) the tool may be given

VARIABLES graph,       \* the input CFG
          removed,     \* the edges removed so far
          broken       \* TRUE once elimination has happened

vars == <<graph, removed, broken>>

ClosesCycle(E, e) == e[1] = e[2] \/ Reaches(E, e[2], e[1])

ValidRemoval(E, R) ==
    /\ IsAcyclic(E \ R)
    /\ \A e \in R : ClosesCycle(E, e)

Init ==
    /\ graph \in InputGraphs
    /\ removed = {}
    /\ broken = FALSE

Break ==
    /\ ~broken
    /\ broken' = TRUE
    /\ removed' \in SUBSET graph
    /\ ValidRemoval(graph, removed')
    /\ UNCHANGED graph

Spec == Init /\ [][Break]_vars /\ WF_vars(Break)

\* Every input admits a removal (the back edges of any depth-first search),
\* so Break stays enabled until it happens and WF_vars(Break) amounts to
\* eventually broken.  An implementation is checked against this form,
\* which TLC evaluates without computing ENABLED through a refinement
\* mapping.
SpecTerminating == Init /\ [][Break]_vars /\ <>broken

=============================================================================
