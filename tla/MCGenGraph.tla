----------------------------- MODULE MCGenGraph -----------------------------
EXTENDS GenGraph

\* Block ids 0..2 and every section of up to four lines over them: all
\* two- and three-cycles, self-loops, duplicate lines and the empty section.
MCNode == 0..2
MCInputs == UNION {[1..k -> MCNode \X MCNode] : k \in 0..4}

\* Every CFG over blocks 0..2 (512 edge sets, up to nine lines), each as
\* one section listing its edges in a fixed order: dense graphs for the
\* depth-first search (cross and forward edges beside several cycles).
MCPairs == <<<<0, 0>>, <<0, 1>>, <<0, 2>>, <<1, 0>>, <<1, 1>>, <<1, 2>>,
             <<2, 0>>, <<2, 1>>, <<2, 2>>>>
MCGraphInputs == {SelectSeq(MCPairs, LAMBDA e : e \in E) :
                    E \in SUBSET (MCNode \X MCNode)}

MCAllInputs == MCInputs \cup MCGraphInputs

=============================================================================
