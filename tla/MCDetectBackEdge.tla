-------------------------- MODULE MCDetectBackEdge --------------------------
EXTENDS DetectBackEdge

\* Every CFG over three block ids, self-loops included: 512 graphs, among
\* them every shape of cycle, nested cycle and cross edge on three nodes.
MCNode == 0..2
MCInputGraphs == SUBSET (MCNode \X MCNode)

=============================================================================
