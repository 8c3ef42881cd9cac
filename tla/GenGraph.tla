------------------------------ MODULE GenGraph ------------------------------
(***************************************************************************)
(* src/tools/kscheduler/gen_graph.py from the parse of the CFG section     *)
(* (line 96) to the last output file (line 194).                           *)
(*                                                                         *)
(* The child and parent lists are Python lists, kept as sequences: the     *)
(* parser appends under "not in" guards, the back-edge removal uses        *)
(* list.remove (first occurrence) and the restore appends again.  The DFS  *)
(* of detect_back_edge is the DetectBackEdge module, run on the current    *)
(* edge set of global_graph.  The scores are exact rationals (Katz).      *)
(***************************************************************************)
EXTENDS GraphStore, Katz, SequencesExt

CONSTANTS Inputs,  \* CFG sections: sequences of <<from, to>> lines
          NoFile   \* model value: an output file not written yet

VARIABLES lines,                 \* the decoded section, one pair per line
          next,                  \* index of the next line to parse
          global_graph,          \* node -> list of children
          global_reverse_graph,  \* node -> list of parents
          global_graph_weighted, \* node -> [child -> weight]
          visited, path, stack, backEdge,   \* detect_back_edge's state
          global_back_edge,      \* the back edges removed
          graph_data_pack,       \* the pickled store
          katz_cent,             \* the centrality file: id -> score
          child_node, parent_node, border_edges,   \* the other outputs
          phase                  \* which part of the script runs

vars == <<lines, next, global_graph, global_reverse_graph,
          global_graph_weighted, visited, path, stack, backEdge,
          global_back_edge, graph_data_pack, katz_cent, child_node,
          parent_node, border_edges, phase>>
dfsVars == <<visited, path, stack, backEdge>>
outVars == <<global_back_edge, graph_data_pack, katz_cent, child_node,
             parent_node, border_edges>>

\* The edge set the lists of a forward map stand for.
ListEdges(fwd) == UNION {{<<p, fwd[p][i]>> : i \in DOMAIN fwd[p]} : p \in DOMAIN fwd}

DFS == INSTANCE DetectBackEdge
         WITH graph <- ListEdges(global_graph),
              done <- phase # "dfs",
              InputGraphs <- {}

\* Mutant: the "not in" guards of lines 103 and 108 dropped.
AddToListNoDedup(f, k, x) ==
    IF k \notin DOMAIN f THEN f @@ (k :> <<x>>)
    ELSE [f EXCEPT ![k] = Append(@, x)]

\* Append x to the list of key k of a defaultdict(list), unless present.
AddToList(f, k, x) ==
    IF k \notin DOMAIN f THEN f @@ (k :> <<x>>)
    ELSE IF Contains(f[k], x) THEN f
    ELSE [f EXCEPT ![k] = Append(@, x)]

Init ==
    /\ lines \in Inputs
    /\ next = 1
    /\ global_graph = <<>> /\ global_reverse_graph = <<>>
    /\ global_graph_weighted = <<>>
    /\ visited = {} /\ path = {} /\ stack = <<>> /\ backEdge = <<>>
    /\ global_back_edge = <<>>
    /\ graph_data_pack = NoFile /\ katz_cent = NoFile
    /\ child_node = NoFile /\ parent_node = NoFile /\ border_edges = NoFile
    /\ phase = "parse"

\* A new weight is 1 (lines 110-114), an existing one is kept.
AddWeight(w, from, to) ==
    IF from \notin DOMAIN w THEN w @@ (from :> (to :> 1))
    ELSE IF to \in DOMAIN w[from] THEN w
    ELSE [w EXCEPT ![from] = @ @@ (to :> 1)]

\* The three maps as one record, and their update.
Current == [fwd |-> global_graph, rev |-> global_reverse_graph,
            wt |-> global_graph_weighted]
SetStore(s) ==
    /\ global_graph' = s.fwd
    /\ global_reverse_graph' = s.rev
    /\ global_graph_weighted' = s.wt

\* Lines 97-114 for the line "from to": the edge enters each map unless it
\* is already there.
ParseEdge(s, e) ==
    [fwd |-> AddToList(s.fwd, e[1], e[2]),
     rev |-> AddToList(s.rev, e[2], e[1]),
     wt  |-> AddWeight(s.wt, e[1], e[2])]

\* Lines 115-128: every endpoint gets an entry, possibly empty, in all
\* three maps.
Filled(s) ==
    LET nodes == DOMAIN s.fwd \cup DOMAIN s.rev
                 \cup UNION {ToSet(s.fwd[k]) : k \in DOMAIN s.fwd}
        Pad(f) == [n \in nodes |-> IF n \in DOMAIN f THEN f[n] ELSE <<>>]
    IN [fwd |-> Pad(s.fwd), rev |-> Pad(s.rev), wt |-> Pad(s.wt)]

\* Line 96: the next line of the section is parsed.
ParseLine ==
    /\ phase = "parse"
    /\ next <= Len(lines)
    /\ SetStore(ParseEdge(Current, lines[next]))
    /\ next' = next + 1
    /\ UNCHANGED <<lines, phase, dfsVars, outVars>>

\* The for loop of line 96 is done; lines 115-128 run.
FillNodes ==
    /\ phase = "parse"
    /\ next > Len(lines)
    /\ SetStore(Filled(Current))
    /\ phase' = "dfs"
    /\ UNCHANGED <<lines, next, dfsVars, outVars>>

\* Line 130: detect_back_edge(global_graph), one step of its DFS.
DfsStep ==
    /\ phase = "dfs"
    /\ UNCHANGED <<lines, next, global_graph, global_reverse_graph,
                   global_graph_weighted, outVars, phase>>
    /\ \/ \E n \in DOMAIN global_graph : DFS!StartRoot(n)
       \/ \E n \in DOMAIN global_graph : DFS!Explore(n)
       \/ DFS!Return

\* Mutant: only the first back edge found is removed and recorded.
RemoveBackEdgesFirstOnly ==
    /\ phase = "dfs"
    /\ stack = <<>>
    /\ visited = DOMAIN global_graph
    /\ LET first == IF backEdge = <<>> THEN <<>> ELSE <<Head(backEdge)>>
           R == ToSet(first)
           Kids(n) == {e[2] : e \in {x \in R : x[1] = n}}
           Dads(n) == {e[1] : e \in {x \in R : x[2] = n}}
       IN /\ global_graph' = [n \in DOMAIN global_graph |->
                 FoldLeft(RemoveFirst, global_graph[n], SetToSeq(Kids(n)))]
          /\ global_reverse_graph' = [n \in DOMAIN global_reverse_graph |->
                 FoldLeft(RemoveFirst, global_reverse_graph[n], SetToSeq(Dads(n)))]
          /\ global_graph_weighted' = [n \in DOMAIN global_graph_weighted |->
                 [c \in DOMAIN global_graph_weighted[n] \ Kids(n) |->
                     global_graph_weighted[n][c]]]
          /\ global_back_edge' = first
    /\ phase' = "removed"
    /\ UNCHANGED <<lines, next, dfsVars, graph_data_pack, katz_cent,
                   child_node, parent_node, border_edges>>

\* Lines 130-136: the DFS has returned; each back edge, in the order found,
\* is removed from the child list, the weights and the parent list.
RemoveBackEdges ==
    /\ phase = "dfs"
    /\ stack = <<>>
    /\ visited = DOMAIN global_graph
    /\ LET R == ToSet(backEdge)
           Kids(n) == {e[2] : e \in {x \in R : x[1] = n}}
           Dads(n) == {e[1] : e \in {x \in R : x[2] = n}}
       IN /\ global_graph' = [n \in DOMAIN global_graph |->
                 FoldLeft(RemoveFirst, global_graph[n], SetToSeq(Kids(n)))]
          /\ global_reverse_graph' = [n \in DOMAIN global_reverse_graph |->
                 FoldLeft(RemoveFirst, global_reverse_graph[n], SetToSeq(Dads(n)))]
          /\ global_graph_weighted' = [n \in DOMAIN global_graph_weighted |->
                 [c \in DOMAIN global_graph_weighted[n] \ Kids(n) |->
                     global_graph_weighted[n][c]]]
    /\ global_back_edge' = backEdge
    /\ phase' = "removed"
    /\ UNCHANGED <<lines, next, dfsVars, graph_data_pack, katz_cent,
                   child_node, parent_node, border_edges>>


\* Lines 138-139: the store, with the back edges removed, is pickled.
Dump ==
    /\ phase = "removed"
    /\ graph_data_pack' = [fwd |-> global_graph, rev |-> global_reverse_graph,
                           wt |-> global_graph_weighted]
    /\ phase' = "dumped"
    /\ UNCHANGED <<lines, next, global_graph, global_reverse_graph,
                   global_graph_weighted, dfsVars, global_back_edge, katz_cent,
                   child_node, parent_node, border_edges>>

\* Mutant: the centrality file written without the +1 of line 168.
ScoreUnshifted ==
    /\ phase = "dumped"
    /\ DOMAIN global_graph_weighted # {}
    /\ katz_cent' = ScaledRank(global_graph_weighted)
    /\ phase' = "scored"
    /\ UNCHANGED <<lines, next, global_graph, global_reverse_graph,
                   global_graph_weighted, dfsVars, global_back_edge,
                   graph_data_pack, child_node, parent_node, border_edges>>

\* Lines 141-168: the weighted graph is reversed into networkit and scored;
\* the centrality file has a line for every key of global_graph_weighted,
\* shifted by one, with its scaled score (the round to 14 digits of line
\* 168 is left out: equal scores round alike).
Score ==
    /\ phase = "dumped"
    /\ DOMAIN global_graph_weighted # {}
    /\ katz_cent' = LET S == ScaledRank(global_graph_weighted) IN
                    [i \in {n + 1 : n \in DOMAIN S} |-> S[i - 1]]
    /\ phase' = "scored"
    /\ UNCHANGED <<lines, next, global_graph, global_reverse_graph,
                   global_graph_weighted, dfsVars, global_back_edge,
                   graph_data_pack, child_node, parent_node, border_edges>>

\* Line 156: with no node, max() of the empty score list raises
\* ValueError and the script ends; the pickle is already written.
ScoreCrash ==
    /\ phase = "dumped"
    /\ DOMAIN global_graph_weighted = {}
    /\ phase' = "crashed"
    /\ UNCHANGED <<lines, next, global_graph, global_reverse_graph,
                   global_graph_weighted, dfsVars, outVars>>

\* Append the back edge e to the child and parent lists (lines 172-173).
RestoreEdge(m, e) ==
    [fwd |-> [m.fwd EXCEPT ![e[1]] = Append(@, e[2])],
     rev |-> [m.rev EXCEPT ![e[2]] = Append(@, e[1])]]

\* Lines 171-173: the back edges go back into the child and parent lists,
\* in the order they were found; the weights keep them out.
Restore ==
    /\ phase = "scored"
    /\ LET m == FoldLeft(RestoreEdge,
                         [fwd |-> global_graph, rev |-> global_reverse_graph],
                         global_back_edge)
       IN /\ global_graph' = m.fwd
          /\ global_reverse_graph' = m.rev
    /\ phase' = "restored"
    /\ UNCHANGED <<lines, next, global_graph_weighted, dfsVars, outVars>>

\* Mutant: the key is shifted but the list elements are not.
ShiftedKeysOnly(m) == [k \in {n + 1 : n \in DOMAIN m} |-> m[k - 1]]

\* A map of lists as the file writes it: "key+1 ele+1 ...", one line per
\* key in sorted order (the order is that of the function's domain).
Shifted(m) == [k \in {n + 1 : n \in DOMAIN m} |->
                  [i \in DOMAIN m[k - 1] |-> m[k - 1][i] + 1]]

\* Lines 175-183: the child and parent files.
WriteAdjacency ==
    /\ phase = "restored"
    /\ child_node' = Shifted(global_graph)
    /\ parent_node' = Shifted(global_reverse_graph)
    /\ phase' = "adjacency"
    /\ UNCHANGED <<lines, next, global_graph, global_reverse_graph,
                   global_graph_weighted, dfsVars, global_back_edge,
                   graph_data_pack, katz_cent, border_edges>>

\* Lines 185-194: each child list is sorted in place; a node with more than
\* one child contributes all its edges, in sorted order.
WriteBorder ==
    /\ phase = "adjacency"
    /\ LET sorted == [n \in DOMAIN global_graph |->
                        SortSeq(global_graph[n], LAMBDA a, b : a < b)]
           fanout == {n \in DOMAIN sorted : Len(sorted[n]) > 1}
       IN /\ global_graph' = sorted
          /\ border_edges' = FoldLeft(LAMBDA acc, n :
                 acc \o [i \in DOMAIN sorted[n] |-> <<n + 1, sorted[n][i] + 1>>],
                 <<>>, SetToSortSeq(fanout, LAMBDA a, b : a < b))
    /\ phase' = "done"
    /\ UNCHANGED <<lines, next, global_reverse_graph, global_graph_weighted,
                   dfsVars, global_back_edge, graph_data_pack, katz_cent,
                   child_node, parent_node>>

Next ==
    \/ ParseLine
    \/ FillNodes
    \/ DfsStep
    \/ RemoveBackEdges
    \/ Dump
    \/ Score
    \/ ScoreCrash
    \/ Restore
    \/ WriteAdjacency
    \/ WriteBorder

\* gen_graph.py is one sequential process that runs to its end.
Spec == Init /\ [][Next]_vars /\ WF_vars(Next)

-----------------------------------------------------------------------------
\* The edges of the CFG section and its blocks.
InputEdges == ToSet(lines)
InputNodes == EndPoints(InputEdges)

Phases == {"parse", "dfs", "removed", "dumped", "scored", "crashed",
           "restored", "adjacency", "done"}

\* The phases after a file has been written.
Pickled == Phases \ {"parse", "dfs", "removed"}
Scored == {"scored", "restored", "adjacency", "done"}
Listed == {"adjacency", "done"}

\* A map of duplicate-free lists over the given nodes.
ListMap(f, N) == DOMAIN f \subseteq N /\ \A k \in DOMAIN f :
                    f[k] \in Seq(N) /\ IsInjective(f[k])

TypeOK ==
    /\ phase \in Phases
    /\ next \in 1..Len(lines) + 1
    /\ \A k \in DOMAIN global_graph : global_graph[k] \in Seq(InputNodes)
    /\ \A k \in DOMAIN global_reverse_graph :
          global_reverse_graph[k] \in Seq(InputNodes)
    /\ global_back_edge \in Seq(InputEdges)
    /\ phase \in Scored => DOMAIN katz_cent \subseteq {n + 1 : n \in InputNodes}

\* Spec 3 and 4.1: once the section is parsed, the child lists, the
\* parent lists and the weights have one entry per block, no list holds a
\* block twice, and c is a child of p exactly when p is a parent of c;
\* (p, c) has a weight exactly when it is in the child list and not a
\* removed back edge.  This must survive the "not in" guards of the parser
\* (lines 100-114), list.remove of the removal (lines 134-136), the
\* re-append of the restore (lines 171-173) and the in-place sort of the
\* border step (line 188).
ListsConsistent ==
    phase # "parse" =>
      /\ DOMAIN global_graph = InputNodes
      /\ DOMAIN global_reverse_graph = InputNodes
      /\ DOMAIN global_graph_weighted = InputNodes
      /\ ListMap(global_graph, InputNodes)
      /\ ListMap(global_reverse_graph, InputNodes)
      /\ \A p, c \in InputNodes :
            /\ Contains(global_graph[p], c) <=> Contains(global_reverse_graph[c], p)
            /\ c \in DOMAIN global_graph_weighted[p] <=>
                  Contains(global_graph[p], c) /\ <<p, c>> \notin ToSet(global_back_edge)

\* Spec 4.2 and 8: the pickle the update loop starts from keeps every block,
\* holds exactly the input edges minus the recorded back edges, and has no
\* cycle.  The DFS finds the back edges; lines 131-136 must remove all of
\* them from the lists before line 139 pickles the store.
PickleIsAcyclicResidual ==
    phase \in Pickled =>
      LET P == ListEdges(graph_data_pack.fwd) IN
      /\ DOMAIN graph_data_pack.fwd = InputNodes
      /\ P = InputEdges \ ToSet(global_back_edge)
      /\ IsAcyclic(P)

\* Spec 6 and 8 (round trip): the files for the fuzzer describe the input
\* CFG, back edges included, with every id shifted up by one: the child
\* file lists each block with its children, the parent file is its
\* mirror, the centrality file scores every block, and the border file
\* holds, in ascending order, exactly the edges leaving a block with more
\* than one child.
OutputsDescribeInputCFG ==
    LET Up == {n + 1 : n \in InputNodes}
        UpEdges == {<<e[1] + 1, e[2] + 1>> : e \in InputEdges}
    IN
    /\ phase \in Scored => DOMAIN katz_cent = Up
    /\ phase \in Listed =>
         /\ DOMAIN child_node = Up /\ DOMAIN parent_node = Up
         /\ ListEdges(child_node) = UpEdges
         /\ ListEdges(parent_node) = {<<e[2], e[1]>> : e \in UpEdges}
    /\ phase = "done" =>
         /\ ToSet(border_edges) =
              {e \in UpEdges : Cardinality(Succs(UpEdges, e[1])) > 1}
         /\ \A i \in 1..Len(border_edges) - 1 :
              LET a == border_edges[i]  b == border_edges[i + 1] IN
              a[1] < b[1] \/ (a[1] = b[1] /\ a[2] < b[2])

\* Spec 4.3 and 8 (normalization): the centrality file holds a solution of
\* the Katz equation on the pickled residual graph (not on the graph with
\* the back edges restored), scaled so that the maximum is exactly 10:
\* every block without a residual child scores the same m > 0, and every
\* block scores m plus half the sum of its residual children's scores,
\* each divided by the weight of its edge.  Lines 148-152 must turn the
\* edges around into networkit and lines 155-164 scale by the maximum.
CentralityIsScaledKatz ==
    phase \in Scored =>
      LET W == global_graph_weighted
          F(n) == katz_cent[n + 1]
          Sinks == {n \in DOMAIN W : DOMAIN W[n] = {}}
          m == F(CHOOSE n \in Sinks : TRUE)
      IN /\ Sinks # {}
         /\ QLess(Zero, m)
         /\ \E n \in DOMAIN W : F(n) = Ten
         /\ \A n \in DOMAIN W :
               /\ ~QLess(Ten, F(n))
               /\ F(n) = QAdd(m, QMul(Alpha,
                                QSum(DOMAIN W[n],
                                     LAMBDA c : QDiv(F(c), Q(W[n][c], 1)))))

=============================================================================
