-------------------------------- MODULE Katz --------------------------------
(***************************************************************************)
(* The centrality scorer of gen_graph.py (lines 141-164) as operators over *)
(* exact rationals.  A store's weight map W (node -> [child -> weight])    *)
(* becomes a networkit graph whose edges run from child to parent with     *)
(* weight 1/weight; networkit's KatzCentrality (alpha 0.5, beta 1.0, from  *)
(* spec section 4.3, the library is not part of this repository) iterates  *)
(*     x(n) = beta + alpha * Sum over in-edges (c, n, w) of w * x(c)       *)
(* from x = 0, and the script scales the result so that its maximum is 10. *)
(* On an acyclic graph the iteration is exact after as many rounds as the  *)
(* graph has nodes; the final division by the L2 length that networkit     *)
(* applies is left out, as the scaling to the maximum cancels it.          *)
(***************************************************************************)
EXTENDS QArith, FiniteSets

Alpha == Q(1, 2)
Beta == One
Ten == Q(10, 1)

\* Mutant: the networkit edges keep the direction of the control flow.
NkGraphUnreversed(W) ==
    UNION {{<<n, c, Q(1, W[n][c])>> : c \in DOMAIN W[n]} : n \in DOMAIN W}

\* Lines 141-152: one node per key of W (the contiguous ids of lines
\* 142-146 are a bijection, kept as the real ids here) and, for every
\* weighted edge node -> nei, the networkit edge nei -> node of weight
\* 1/weight.
NkGraph(W) ==
    UNION {{<<c, n, Q(1, W[n][c])>> : c \in DOMAIN W[n]} : n \in DOMAIN W}

\* Round k of the Katz iteration at node n of the networkit graph G.
RECURSIVE KatzIter(_, _, _)
KatzIter(G, n, k) ==
    IF k = 0 THEN Zero
    ELSE QAdd(Beta,
              QMul(Alpha,
                   QSum({e \in G : e[2] = n},
                        LAMBDA e : QMul(e[3], KatzIter(G, e[1], k - 1)))))

\* Lines 153-154: the Katz scores of the nodes V, iterated to the fixpoint.
KatzScores(G, V) == [n \in V |-> KatzIter(G, n, Cardinality(V))]

\* The largest value of a score map (line 156).
MaxScore(S) == CHOOSE v \in {S[n] : n \in DOMAIN S} :
                   \A n \in DOMAIN S : ~QLess(v, S[n])

\* Lines 155-164: a node at the maximum gets 10, every other one
\* 10 / max_score * score.
Scale(S) ==
    [n \in DOMAIN S |->
        IF S[n] = MaxScore(S) THEN Ten
        ELSE QMul(QDiv(Ten, MaxScore(S)), S[n])]

\* Lines 141-164: the scaled Katz score of every node of the weight map W.
ScaledRank(W) == Scale(KatzScores(NkGraph(W), DOMAIN W))

=============================================================================
