----------------------------- MODULE GraphStore -----------------------------
(***************************************************************************)
(* Operators shared by the K-scheduler graph modules.                      *)
(*                                                                         *)
(* The Python tools keep a CFG as three co-indexed dictionaries:           *)
(*   global_graph          node -> list of children   (here: fwd)          *)
(*   global_reverse_graph  node -> list of parents    (here: rev)          *)
(*   global_graph_weighted node -> {child: weight}    (here: wt)           *)
(* Every list is appended to only under a "not in" guard, so it never      *)
(* holds a duplicate and is modelled as a set.  A raw CFG is a set of      *)
(* <<from, to>> pairs.                                                     *)
(***************************************************************************)
EXTENDS Integers, FiniteSets

\* The node ids that occur in an edge set.  gen_graph.py knows no other
\* nodes: unique_nodes is collected from the edge endpoints only.
EndPoints(E) == {e[1] : e \in E} \cup {e[2] : e \in E}

Succs(E, n) == {e[2] : e \in {x \in E : x[1] = n}}

Preds(E, n) == {e[1] : e \in {x \in E : x[2] = n}}

\* The store gen_graph.py builds from an edge set (lines 96-128): every
\* endpoint has an entry, possibly empty, in all three maps, and every
\* weight is 1.
StoreOf(E) ==
    [fwd |-> [n \in EndPoints(E) |-> Succs(E, n)],
     rev |-> [n \in EndPoints(E) |-> Preds(E, n)],
     wt  |-> [n \in EndPoints(E) |-> [c \in Succs(E, n) |-> 1]]]

\* The edge set a forward map stands for.
EdgesOf(fwd) == UNION {{<<p, c>> : c \in fwd[p]} : p \in DOMAIN fwd}

\* The ends of the walks of exactly k edges from p whose interior nodes
\* all lie in S.
RECURSIVE WalkEnds(_, _, _, _)
WalkEnds(E, S, p, k) ==
    IF k = 1 THEN Succs(E, p)
    ELSE UNION {Succs(E, m) : m \in WalkEnds(E, S, p, k - 1) \cap S}

\* The lengths of the walks p ~> c of E whose interior lies in S, up to
\* the number of nodes (enough for any simple path).
WalkLengths(E, S, p, c) ==
    {k \in 1..Cardinality(EndPoints(E)) : c \in WalkEnds(E, S, p, k)}

Reaches(E, p, c) == WalkLengths(E, EndPoints(E), p, c) # {}

IsAcyclic(E) == \A n \in EndPoints(E) : ~Reaches(E, n, n)

=============================================================================
