---------------------------- MODULE RemoveCycles ----------------------------
(***************************************************************************)
(* remove_cycles of src/tools/bbweight/bb-weight-angr.py, lines 106-159:   *)
(* remove the self-loops, then, while nx.find_cycle finds a cycle, walk    *)
(* its edges from the last and remove the first one whose target has more  *)
(* than one predecessor; then a second loop over nx.simple_cycles.         *)
(*                                                                         *)
(* The graph is the set of edges get_predecessors sees.  The default       *)
(* removal of lines 124-127 sits inside the for loop, so it runs after     *)
(* every edge that is not removed, and removing the last edge a second     *)
(* time raises: the bare except of line 128 then leaves the while loop.    *)
(* The script runs on Python 3 (angr needs it), where the generator of     *)
(* nx.simple_cycles has no .next(): line 133 raises AttributeError and the *)
(* second loop ends at once.                                               *)
(***************************************************************************)
EXTENDS GraphStore, Sequences, Functions

CONSTANTS Graphs   \* the edge sets the function's CFG may have

\* The edges of an edge list.
ToSetOf(c) == {c[k] : k \in DOMAIN c}

\* The cycles of E as nx.find_cycle returns them: the edge list of a
\* simple cycle, starting at any of its nodes.
Cycles(E) ==
    LET N == EndPoints(E)
        Ring(s) == [k \in 1..Len(s) |-> <<s[k], s[(k % Len(s)) + 1]>>]
    IN {Ring(s) : s \in {s \in UNION {[1..k -> N] : k \in 2..Cardinality(N)} :
                           /\ IsInjective(s)
                           /\ \A e \in ToSetOf(Ring(s)) : e \in E}}

VARIABLES orig,      \* cfg.graph when remove_cycles is called
          g,         \* cfg.graph now
          removed,   \* removed_edges
          cycle,     \* the cycle of the current while iteration
          i,         \* the for loop's index
          pc         \* "selfloops", "find", "for", "simple", "done"

vars == <<orig, g, removed, cycle, i, pc>>

Init ==
    /\ orig \in Graphs
    /\ g = orig
    /\ removed = {}
    /\ cycle = <<>> /\ i = 1
    /\ pc = "selfloops"

\* Mutant: the self-loops are removed but not appended to removed_edges.
RemoveSelfLoopsNoRecord ==
    /\ pc = "selfloops"
    /\ g' = {e \in g : e[1] # e[2]}
    /\ pc' = "find"
    /\ UNCHANGED <<orig, removed, cycle, i>>

\* Lines 108-113: every edge n -> n is removed.
RemoveSelfLoops ==
    /\ pc = "selfloops"
    /\ g' = {e \in g : e[1] # e[2]}
    /\ removed' = removed \cup {e \in g : e[1] = e[2]}
    /\ pc' = "find"
    /\ UNCHANGED <<orig, cycle, i>>

\* Lines 115-117: find_cycle returns a cycle, or raises NetworkXNoCycle,
\* which the bare except of lines 128-129 turns into a break.
FindCycle ==
    /\ pc = "find"
    /\ \/ /\ Cycles(g) = {}
          /\ pc' = "simple"
          /\ UNCHANGED <<cycle, i>>
       \/ /\ \E c \in Cycles(g) : cycle' = c
          /\ i' = 1
          /\ pc' = "for"
    /\ UNCHANGED <<orig, g, removed>>

\* Mutant: the break of line 123 is taken without the remove_edge.
ForStepNoRemove ==
    /\ pc = "for"
    /\ LET e == cycle[Len(cycle) - i + 1]
           last == cycle[Len(cycle)]
       IN \/ /\ Cardinality(Preds(g, e[2])) > 1
             /\ pc' = "find"
             /\ UNCHANGED <<g, removed, i>>
          \/ /\ Cardinality(Preds(g, e[2])) <= 1
             /\ last \in g
             /\ g' = g \ {last}
             /\ removed' = removed \cup {last}
             /\ i' = i + 1
             /\ pc' = IF i = Len(cycle) THEN "find" ELSE "for"
          \/ /\ Cardinality(Preds(g, e[2])) <= 1
             /\ last \notin g
             /\ pc' = "simple"
             /\ UNCHANGED <<g, removed, i>>
    /\ UNCHANGED <<orig, cycle>>

\* Lines 118-129, one iteration of the for loop over cycle[-i]; removing
\* an edge that is gone raises, and lines 128-129 leave the while loop.
ForStep ==
    /\ pc = "for"
    /\ LET e == cycle[Len(cycle) - i + 1]
           last == cycle[Len(cycle)]
       IN \/ /\ Cardinality(Preds(g, e[2])) > 1
             /\ g' = g \ {e}
             /\ removed' = removed \cup {e}
             /\ pc' = "find"
             /\ UNCHANGED i
          \/ /\ Cardinality(Preds(g, e[2])) <= 1
             /\ last \in g
             /\ g' = g \ {last}
             /\ removed' = removed \cup {last}
             /\ i' = i + 1
             /\ pc' = IF i = Len(cycle) THEN "find" ELSE "for"
          \/ /\ Cardinality(Preds(g, e[2])) <= 1
             /\ last \notin g
             /\ pc' = "simple"
             /\ UNCHANGED <<g, removed, i>>
    /\ UNCHANGED <<orig, cycle>>

\* Lines 131-159: AttributeError on .next() (line 133), caught: break.
\* The removal of lines 136-152 is never reached; lines 153-159 only print.
SimpleCycles ==
    /\ pc = "simple"
    /\ pc' = "done"
    /\ UNCHANGED <<orig, g, removed, cycle, i>>

Returned == pc = "done" /\ UNCHANGED vars

Next == RemoveSelfLoops \/ FindCycle \/ ForStep \/ SimpleCycles \/ Returned

\* remove_cycles runs to its end in one thread of control.
Spec == Init /\ [][Next]_vars /\ WF_vars(Next)

-----------------------------------------------------------------------------
TypeOK ==
    /\ g \subseteq orig
    /\ removed = orig \ g
    /\ pc \in {"selfloops", "find", "for", "simple", "done"}

\* The while True loop of lines 115-129 ends: every iteration removes an
\* edge of the finite graph before find_cycle is called again, or breaks.
RemoveCyclesReturns == <>(pc = "done")

\* What main's "remove the loop-back edges" (line 303) relies on: when
\* remove_cycles returns, the CFG has no cycle left, so that
\* calculate_weight_blocks can weight every block.
LeavesAcyclic == pc = "done" => IsAcyclic(g)

=============================================================================
