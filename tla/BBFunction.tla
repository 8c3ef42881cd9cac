----------------------------- MODULE BBFunction -----------------------------
(***************************************************************************)
(* The processing of one function in main, src/tools/bbweight/             *)
(* bb-weight-angr.py lines 302-310: remove_cycles(cfg_f) (the RemoveCycles *)
(* module), then calculate_weight_edges and calculate_weight_blocks on the *)
(* graph it leaves (the BlockWeight module).  The two run one after the    *)
(* other on the same cfg_f.graph: the CFG BlockWeight sees is the node     *)
(* order and PathTerminators of the function with the residual edges.      *)
(***************************************************************************)
EXTENDS GraphStore, Sequences

CONSTANTS CFGs, Prior   \* as in BlockWeight

VARIABLES order, terms,                        \* of cfg_f, fixed
          orig, g, removed, cycle, i, pc,      \* of remove_cycles
          fweight, nweight, nweight0, fin_nodes,
          nodes_done, stuck, j, phase  \* of the weights

removeVars == <<orig, g, removed, cycle, i, pc>>
weightVars == <<fweight, nweight, nweight0, fin_nodes, nodes_done, stuck, j,
                phase>>
vars == <<order, terms, removeVars, weightVars>>

R == INSTANCE RemoveCycles WITH Graphs <- {c.edges : c \in CFGs}

W == INSTANCE BlockWeight
       WITH cfg <- [order |-> order, edges |-> g, terms |-> terms]

Init ==
    /\ \E c \in CFGs : order = c.order /\ terms = c.terms /\ orig = c.edges
    /\ g = orig /\ removed = {} /\ cycle = <<>> /\ i = 1
    /\ pc = "selfloops"
    /\ \E p \in Prior : fweight = p.fw /\ nweight = p.nw
    /\ nweight0 = nweight /\ fin_nodes = {}
    /\ nodes_done = 0 /\ stuck = 0 /\ j = 0 /\ phase = "run"

\* Line 303: a step of remove_cycles(cfg_f).
RemoveCyclesStep ==
    /\ R!RemoveSelfLoops \/ R!FindCycle \/ R!ForStep \/ R!SimpleCycles
    /\ UNCHANGED <<order, terms, weightVars>>

\* Lines 309-310: once remove_cycles has returned, a step of the weights
\* on the graph it left.
WeightStep ==
    /\ pc = "done"
    /\ UNCHANGED <<order, terms, removeVars>>
    /\ W!WhileTest \/ W!Visit

Returned == phase \in {"done", "exit1"} /\ UNCHANGED vars

Next == RemoveCyclesStep \/ WeightStep \/ Returned

\* One thread of control; remove_cycles is always able to go on (only its
\* progress is asked for below).
Spec == Init /\ [][Next]_vars /\ WF_vars(RemoveCyclesStep)

-----------------------------------------------------------------------------
TypeOK == R!TypeOK /\ W!TypeOK

\* remove_cycles returns for every CFG and every cycle find_cycle picks.
RemoveCyclesReturns == R!RemoveCyclesReturns

\* Whatever the node order, every weight stored for a CFG that
\* remove_cycles left acyclic is the block's probability mass.
WeightsFollowPredecessors ==
    IsAcyclic(g) => W!WeightsFollowPredecessors

\* remove_cycles leaves no cycle (the comment of line 303).
LeavesAcyclic == R!LeavesAcyclic

\* When calculate_weight_blocks returns, every block has a weight: lines
\* 313-321 read nweight[node.addr] for every node of cfg_f.
AllBlocksWeighted == W!AllBlocksWeighted

=============================================================================
