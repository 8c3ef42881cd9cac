----------------------------- MODULE BlockWeight -----------------------------
(***************************************************************************)
(* The block weights of one function, src/tools/bbweight/bb-weight-angr.py *)
(* lines 36-104: calculate_weight_edges gives every edge out of a block    *)
(* the probability 1/#successors (1.0 when a successor is a                *)
(* PathTerminator), and calculate_weight_blocks then sweeps the blocks in  *)
(* the graph's node order until nodes_done reaches the number of blocks:   *)
(* a block without predecessors gets the weight fweight recorded for its   *)
(* address (or 1.0), a block whose predecessors all have a weight gets the *)
(* sum of edge weight times predecessor weight.                            *)
(*                                                                         *)
(* A CFG is a record: the blocks in the order cfg.graph.nodes() yields     *)
(* them, the edges get_successors/get_predecessors see (fake returns       *)
(* excluded) and the PathTerminator blocks.  Weights are exact rationals,  *)
(* records [num, den]; the floats of the code round them.                  *)
(***************************************************************************)
EXTENDS GraphStore, QArith, Sequences, FiniteSetsExt

CONSTANTS CFGs,   \* the CFGs a function may have
          Prior   \* [fw, nw]: fweight and nweight as the functions
                  \* processed before leave them (module globals, lines
                  \* 33-34, never cleared between functions)

BlocksOf(c) == {c.order[k] : k \in 1..Len(c.order)}

\* Lines 36-46: the weight calculate_weight_edges stores on every edge out
\* of p (it is the same for all of them); blocks without successors are
\* skipped.
EdgeWeight(c, p) ==
    IF Succs(c.edges, p) \cap c.terms # {} THEN One
    ELSE Q(1, Cardinality(Succs(c.edges, p)))

\* Lines 73-76: a block without predecessors is a function entry or an
\* orphan and takes fweight[addr][0] if the address has an entry.
EntryWeight(fw, n) == IF n \in DOMAIN fw THEN fw[n] ELSE One

\* Lines 88-91: nweight[n] = sum of weight(p -> n) * nweight[p].
PredWeight(c, nw, n) ==
    QSum(Preds(c.edges, n), LAMBDA p : QMul(EdgeWeight(c, p), nw[p]))

\* Set (or overwrite) the weight of one address.
SetWeight(nw, n, w) == [x \in DOMAIN nw \cup {n} |-> IF x = n THEN w ELSE nw[x]]

\* Mutant: the test that every predecessor has a weight is dropped and a
\* missing one counts 0.
VisitBlockNoWait(c, fw, st, n) ==
    LET P == Preds(c.edges, n) IN
    IF P = {}
    THEN [nw |-> SetWeight(st.nw, n, EntryWeight(fw, n)),
          done |-> st.done + 1, stuck |-> 0]
    ELSE [nw |-> SetWeight(st.nw, n,
                   QSum(P \cap DOMAIN st.nw,
                        LAMBDA p : QMul(EdgeWeight(c, p), st.nw[p]))),
          done |-> st.done + 1, stuck |-> 0]

\* Lines 64-93, the body of the for loop for block n, as a function of the
\* loop's state st = [nw, done, stuck].  The skip of already weighted
\* blocks (lines 69-70) is commented out: a block is weighted, and counted
\* in nodes_done, again on every sweep.
VisitBlock(c, fw, st, n) ==
    LET P == Preds(c.edges, n) IN
    IF P = {}
    THEN [nw |-> SetWeight(st.nw, n, EntryWeight(fw, n)),
          done |-> st.done + 1, stuck |-> 0]
    ELSE IF P \subseteq DOMAIN st.nw
    THEN [nw |-> SetWeight(st.nw, n, PredWeight(c, st.nw, n)),
          done |-> st.done + 1, stuck |-> 0]
    ELSE st

VARIABLES cfg,          \* the function's CFG
          fweight,      \* the fweight entries when the function is processed
          nweight,      \* the global address -> weight map
          nweight0,     \* nweight at the call (history)
          fin_nodes,    \* the blocks weighted in this call (line 55)
          nodes_done, stuck,
          j,            \* 0: at the while test; k: block k of the sweep
          phase         \* "run", "done" (returned), "exit1" (algo_stuck)

vars == <<cfg, fweight, nweight, nweight0, fin_nodes, nodes_done, stuck, j,
          phase>>

Total == Len(cfg.order)

Init ==
    /\ cfg \in CFGs
    /\ \E p \in Prior : fweight = p.fw /\ nweight = p.nw
    /\ nweight0 = nweight
    /\ fin_nodes = {}
    /\ nodes_done = 0 /\ stuck = 0 /\ j = 0
    /\ phase = "run"

\* Lines 95-104: algo_stuck prints and plots the CFG, then sys.exit(1).
AlgoStuck == phase' = "exit1"

\* Lines 55-63: the while test, then stuck += 1 and the check that calls
\* algo_stuck.
WhileTest ==
    /\ phase = "run" /\ j = 0
    /\ IF nodes_done >= Total
       THEN phase' = "done" /\ UNCHANGED stuck
       ELSE /\ stuck' = stuck + 1
            /\ IF stuck + 1 >= 2 * Total THEN AlgoStuck ELSE UNCHANGED phase
    /\ j' = IF nodes_done >= Total THEN 0 ELSE 1
    /\ UNCHANGED <<cfg, fweight, nweight, nweight0, fin_nodes, nodes_done>>

\* Mutant: the position is not wrapped at the end of the sweep.
NextPosNoWrap == j + 1

\* Line 64: the for loop moves to the next block; after the last one it is
\* back at the while test.
NextPos == IF j = Total THEN 0 ELSE j + 1

\* Lines 64-93: the next block of the sweep; a block that is weighted is
\* added to fin_nodes (lines 78 and 87).
Visit ==
    /\ phase = "run" /\ j \in 1..Total
    /\ LET st == VisitBlock(cfg, fweight,
                   [nw |-> nweight, done |-> nodes_done, stuck |-> stuck],
                   cfg.order[j])
       IN /\ nweight' = st.nw
          /\ nodes_done' = st.done
          /\ stuck' = st.stuck
          /\ fin_nodes' = IF st.done > nodes_done
                           THEN fin_nodes \cup {cfg.order[j]}
                           ELSE fin_nodes
    /\ j' = NextPos
    /\ UNCHANGED <<cfg, fweight, nweight0, phase>>

\* The function returns or the script exits.
Returned == phase \in {"done", "exit1"} /\ UNCHANGED vars

Next == WhileTest \/ Visit \/ Returned

Spec == Init /\ [][Next]_vars

-----------------------------------------------------------------------------
\* The weight of a block of an acyclic CFG, by its definition: the entry
\* weight at a block without predecessors, else the probability mass its
\* predecessors pass on.
RECURSIVE RefWeight(_, _, _)
RefWeight(c, fw, n) ==
    IF Preds(c.edges, n) = {} THEN EntryWeight(fw, n)
    ELSE QSum(Preds(c.edges, n),
              LAMBDA p : QMul(EdgeWeight(c, p), RefWeight(c, fw, p)))

PriorBlocks == UNION {DOMAIN p.nw : p \in Prior}

TypeOK ==
    /\ \E p \in Prior : fweight = p.fw /\ nweight0 = p.nw
    /\ DOMAIN nweight \subseteq BlocksOf(cfg) \cup PriorBlocks
    /\ fin_nodes \subseteq BlocksOf(cfg) \cap DOMAIN nweight
    /\ nodes_done \in 0..(2 * Total)
    /\ stuck \in 0..(2 * Total)
    /\ j \in 0..Total
    /\ phase \in {"run", "done", "exit1"}

\* Whatever the node order, a weight the sweep stores in this call is the
\* block's probability mass: a block is only weighted once all its
\* predecessors have a weight, and re-weighting it on a later sweep gives
\* the same value.  This needs the weights nweight already held for this
\* CFG's blocks (line 83 accepts them) to be the ones this call computes;
\* they are for the first function and for a callee entry with one
\* caller, not for an entry whose last caller passed more than the min.
WeightsFollowPredecessors ==
    (\A n \in BlocksOf(cfg) \cap DOMAIN nweight0 :
        nweight0[n] = RefWeight(cfg, fweight, n))
    => \A n \in fin_nodes : nweight[n] = RefWeight(cfg, fweight, n)

\* When calculate_weight_blocks returns, every block has a weight: lines
\* 313-321 read nweight[node.addr] for every node of the CFG.
AllBlocksWeighted == phase = "done" => BlocksOf(cfg) \subseteq DOMAIN nweight

=============================================================================
