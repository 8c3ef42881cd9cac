--------------------------- MODULE DetectBackEdge ---------------------------
(***************************************************************************)
(* detect_back_edge(graph) of src/tools/kscheduler/gen_graph.py, lines     *)
(* 15-39, and the removal of the edges it returns, lines 130-136.          *)
(*                                                                         *)
(* The recursive dfs(node, path) is modelled by an explicit stack of       *)
(* frames, one per active call: the node it was called for and the         *)
(* neighbours its "for nei in graph[node]" loop has not reached yet.       *)
(* The order of graph.items() and of each child list is the input order    *)
(* of the CFG section, which is arbitrary: the model picks the next root   *)
(* and the next neighbour nondeterministically, which covers every order.  *)
(***************************************************************************)
EXTENDS GraphStore, Sequences

CONSTANT InputGraphs   \* the CFGs (edge sets) the tool may be given

VARIABLES graph,       \* global_graph as an edge set (fixed during the DFS)
          visited,     \* visited
          path,        \* the current path: the nodes of the active frames
          stack,       \* the active dfs() calls, innermost last
          backEdge,    \* back_edge, in the order it is appended
          done         \* detect_back_edge returned and its edges were removed

vars == <<graph, visited, path, stack, backEdge, done>>

Frame(n) == [node |-> n, todo |-> Succs(graph, n)]

Top == stack[Len(stack)]

Init ==
    /\ graph \in InputGraphs
    /\ visited = {}
    /\ path = {}
    /\ stack = <<>>
    /\ backEdge = <<>>
    /\ done = FALSE

\* Lines 31-36: the outer loop reaches a node not visited yet and calls
\* dfs(node, {node}).
StartRoot(n) ==
    /\ ~done
    /\ stack = <<>>
    /\ n \in EndPoints(graph) \ visited
    /\ visited' = visited \cup {n}
    /\ path' = {n}
    /\ stack' = <<Frame(n)>>
    /\ UNCHANGED <<graph, backEdge, done>>

\* Mutant: any visited neighbour counts as a back edge (the "elif nei in
\* path" test weakened to visited), so cross edges are removed too.
ExploreVisitedIsBack(nei) ==
    /\ stack # <<>>
    /\ nei \in Top.todo
    /\ LET rest == [stack EXCEPT ![Len(stack)].todo = @ \ {nei}]
       IN  \/ /\ nei \notin visited
              /\ visited' = visited \cup {nei}
              /\ path' = path \cup {nei}
              /\ stack' = Append(rest, Frame(nei))
              /\ UNCHANGED backEdge
           \/ /\ nei \in visited
              /\ backEdge' = Append(backEdge, <<Top.node, nei>>)
              /\ stack' = rest
              /\ UNCHANGED <<visited, path>>
    /\ UNCHANGED <<graph, done>>

\* Mutant: the back edge is recorded with its ends swapped.
ExploreSwappedEdge(nei) ==
    /\ stack # <<>>
    /\ nei \in Top.todo
    /\ LET rest == [stack EXCEPT ![Len(stack)].todo = @ \ {nei}]
       IN  \/ /\ nei \notin visited
              /\ visited' = visited \cup {nei}
              /\ path' = path \cup {nei}
              /\ stack' = Append(rest, Frame(nei))
              /\ UNCHANGED backEdge
           \/ /\ nei \in visited
              /\ nei \in path
              /\ backEdge' = Append(backEdge, <<nei, Top.node>>)
              /\ stack' = rest
              /\ UNCHANGED <<visited, path>>
           \/ /\ nei \in visited
              /\ nei \notin path
              /\ stack' = rest
              /\ UNCHANGED <<visited, path, backEdge>>
    /\ UNCHANGED <<graph, done>>

\* Lines 19-28: one iteration of "for nei in graph[node]" of the innermost
\* call.  An unvisited neighbour is entered (lines 20-23); a neighbour on
\* the current path closes a cycle and is recorded (lines 27-28); any other
\* visited neighbour is skipped.
Explore(nei) ==
    /\ stack # <<>>
    /\ nei \in Top.todo
    /\ LET rest == [stack EXCEPT ![Len(stack)].todo = @ \ {nei}]
       IN  \/ /\ nei \notin visited
              /\ visited' = visited \cup {nei}
              /\ path' = path \cup {nei}
              /\ stack' = Append(rest, Frame(nei))
              /\ UNCHANGED backEdge
           \/ /\ nei \in visited
              /\ nei \in path
              /\ backEdge' = Append(backEdge, <<Top.node, nei>>)
              /\ stack' = rest
              /\ UNCHANGED <<visited, path>>
           \/ /\ nei \in visited
              /\ nei \notin path
              /\ stack' = rest
              /\ UNCHANGED <<visited, path, backEdge>>
    /\ UNCHANGED <<graph, done>>

\* Line 24 (and the end of a root call at line 36): the loop of the
\* innermost call is exhausted; it returns and its node leaves the path.
Return ==
    /\ stack # <<>>
    /\ Top.todo = {}
    /\ path' = path \ {Top.node}
    /\ stack' = SubSeq(stack, 1, Len(stack) - 1)
    /\ UNCHANGED <<graph, visited, backEdge, done>>

\* Lines 130-136: every node has been a root or been reached, the function
\* returns, and each returned edge is removed from the three maps.  Each
\* edge is tested once by the DFS, so the list has no duplicate and every
\* list.remove and del succeeds.
Finish ==
    /\ ~done
    /\ stack = <<>>
    /\ visited = EndPoints(graph)
    /\ done' = TRUE
    /\ UNCHANGED <<graph, visited, path, stack, backEdge>>

\* The program goes on to scoring; the elimination itself stays put.
Terminated == done /\ UNCHANGED vars

Next ==
    \/ \E n \in EndPoints(graph) : StartRoot(n)
    \/ \E nei \in EndPoints(graph) : Explore(nei)
    \/ Return
    \/ Finish
    \/ Terminated

\* The tool is one sequential Python process: it keeps running until the
\* function returns.
Spec == Init /\ [][Next]_vars /\ WF_vars(Next)

-----------------------------------------------------------------------------
\* Types: the stack holds frames of nodes of the graph, and every recorded
\* back edge is an edge of the input graph (so list.remove at line 134
\* finds it).
TypeOK ==
    /\ visited \subseteq EndPoints(graph)
    /\ path \subseteq visited
    /\ stack \in Seq([node : EndPoints(graph), todo : SUBSET EndPoints(graph)])
    /\ backEdge \in Seq(graph)
    /\ done \in BOOLEAN

\* The residual graph is the input minus the recorded back edges.
Residual == graph \ {backEdge[i] : i \in DOMAIN backEdge}

\* Refinement: detect_back_edge plus the removal loop implement the
\* abstract cycle breaker.  Once gen_graph.py has removed the edges it
\* found, the CFG it scores and pickles is acyclic, every removed edge
\* closed a cycle (a cross edge to a finished node is kept, spec 4.2), and
\* the elimination terminates.
Abstract == INSTANCE CycleBreak
    WITH removed <- IF done THEN graph \ Residual ELSE {},
         broken  <- done

ImplementsCycleBreak == Abstract!SpecTerminating

=============================================================================
