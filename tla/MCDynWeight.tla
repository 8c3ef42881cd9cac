---------------------------- MODULE MCDynWeight ----------------------------
EXTENDS DynWeight, TLC

\* Block ids 0..3 and every acyclic CFG over them that gen_graph.py can
\* pickle (543 CFGs, the empty one of an empty CFG section included).
\* Four blocks give chains whose contraction composes weights up to 3 and
\* diamonds where a bridge already exists.
MCNode == 0..3
MCAllGraphs == {E \in SUBSET (MCNode \X MCNode) : IsAcyclic(E)}

\* The loop never compares block ids with each other: it shifts every id
\* by the same amount and the batches range over all ids, so renaming the
\* blocks maps behaviours to behaviours.  One CFG of each class of
\* CFGs equal up to renaming is enough.
Renamed(E, p) == {<<p[e[1]], p[e[2]]>> : e \in E}
MCInitGraphs ==
    {CHOOSE F \in {Renamed(E, p) : p \in Permutations(MCNode)} : TRUE :
       E \in MCAllGraphs}

\* AFL ids 0..4: 1..4 name the blocks, 0 maps to id -1, which no block has.
MCAflIds == 0..4

\* For the crash run: CFGs that use all of blocks 0..2, and two batches of
\* up to two ids, which can cover every block.
MCNode3 == 0..2
MCInitGraphs3 == {E \in SUBSET (MCNode3 \X MCNode3) :
                    EndPoints(E) = MCNode3 /\ IsAcyclic(E)}
MCAflIds3 == 0..3

=============================================================================
