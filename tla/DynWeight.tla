----------------------------- MODULE DynWeight -----------------------------
(***************************************************************************)
(* The online update loop of src/tools/kscheduler/gen_dyn_weight.py and    *)
(* the fuzzer it serves.                                                   *)
(*                                                                         *)
(* The loop (the consumer) holds the graph store loaded from the pickle    *)
(* that gen_graph.py wrote (an acyclic CFG, every weight 1).  It polls the *)
(* file "signal"; on "1\n" it reads "cur_coverage" (1-based AFL ids),      *)
(* contracts every covered node out of the store, rescores the remaining   *)
(* nodes, rewrites "dyn_katz_cent" and writes "0\n" to "signal".           *)
(*                                                                         *)
(* The fuzzer (the producer) is outside src/ and is modelled from the      *)
(* spec (sections 5 and 6): it writes cur_coverage and then raises the     *)
(* signal, only while the signal is not asserted, and reads dyn_katz_cent  *)
(* once it sees the acknowledgement.                                       *)
(*                                                                         *)
(* The Katz scores themselves are abstracted to the set of ids the score   *)
(* file lists; every in-memory step between two file operations is one    *)
(* action.                                                                 *)
(***************************************************************************)
EXTENDS GraphStore, Sequences, SequencesExt

CONSTANTS InitGraphs,  \* acyclic CFGs gen_graph.py may have pickled
          AflIds,      \* ids the fuzzer may report (1-based; 0 maps to no node)
          MaxBatch,    \* longest coverage batch
          MaxPosts,    \* number of batches the fuzzer posts in a behaviour
          MaxRestarts, \* number of times the host restarts the loop
          NoFile       \* a file that does not exist

ASSUME /\ \A E \in InitGraphs : IsAcyclic(E)
       /\ AflIds \subseteq Nat
       /\ MaxBatch \in Nat /\ MaxPosts \in Nat /\ MaxRestarts \in Nat

VARIABLES global_graph,          \* node -> children
          global_reverse_graph,  \* node -> parents
          global_graph_weighted, \* node -> [child -> weight]
          pc,                    \* where the loop is
          scaled_rank,           \* ids of the scores computed, not yet written
          signal,                \* contents of the file "signal"
          cur_coverage,          \* contents of the file "cur_coverage"
          dyn_katz_cent,         \* contents of the file "dyn_katz_cent"
          fuzzer,                \* the fuzzer's control state
          posts,                 \* batches posted so far
          cfg0,                  \* the pickled CFG (history)
          covered,               \* 0-based ids reported so far (history)
          seen,                  \* the score file as the fuzzer last read it
          restarts               \* restarts of the loop so far

store == <<global_graph, global_reverse_graph, global_graph_weighted>>
vars == <<store, pc, scaled_rank, signal, cur_coverage, dyn_katz_cent,
          fuzzer, posts, cfg0, covered, seen, restarts>>

Batches == UNION {[1..k -> AflIds] : k \in 0..MaxBatch}

-----------------------------------------------------------------------------
(***************************************************************************)
(* Contraction of one covered node, lines 31-54.  s is the store as a    *)
(* record [fwd, rev, wt, ok]; ok becomes FALSE where the Python code       *)
(* raises (a KeyError or a list.remove ValueError), which kills the loop.  *)
(***************************************************************************)

\* Line 36: the children of v that parent p is not linked to yet.
NewChildren(s, v, p) == s.fwd[v] \ s.fwd[p]

\* Mutant: the reverse links of the bridges are not written (39-40).
BridgeNoReverse(s, v) ==
    LET C == s.fwd[v]  P == s.rev[v] IN
    [s EXCEPT
      !.fwd = [n \in DOMAIN s.fwd |-> IF n \in P THEN s.fwd[n] \cup C ELSE s.fwd[n]],
      !.wt  = [n \in DOMAIN s.wt |->
                 IF n \in P
                 THEN [c \in DOMAIN s.wt[n] \cup NewChildren(s, v, n) |->
                         IF c \in NewChildren(s, v, n) THEN s.wt[n][v] + s.wt[v][c]
                         ELSE s.wt[n][c]]
                 ELSE s.wt[n]]]

\* Mutant: a bridge takes the weight of its second half only (line 38).
BridgeHalfWeight(s, v) ==
    LET C == s.fwd[v]  P == s.rev[v] IN
    [s EXCEPT
      !.fwd = [n \in DOMAIN s.fwd |-> IF n \in P THEN s.fwd[n] \cup C ELSE s.fwd[n]],
      !.rev = [n \in DOMAIN s.rev |-> IF n \in C THEN s.rev[n] \cup P ELSE s.rev[n]],
      !.wt  = [n \in DOMAIN s.wt |->
                 IF n \in P
                 THEN [c \in DOMAIN s.wt[n] \cup NewChildren(s, v, n) |->
                         IF c \in NewChildren(s, v, n) THEN s.wt[v][c]
                         ELSE s.wt[n][c]]
                 ELSE s.wt[n]]]

\* Lines 32-40: link every parent p of v to every child c of v it is not
\* linked to yet, with weight wt[p][v] + wt[v][c]; an existing edge keeps
\* its weight.
Bridge(s, v) ==
    LET C == s.fwd[v]  P == s.rev[v] IN
    [s EXCEPT
      !.fwd = [n \in DOMAIN s.fwd |-> IF n \in P THEN s.fwd[n] \cup C ELSE s.fwd[n]],
      !.rev = [n \in DOMAIN s.rev |-> IF n \in C THEN s.rev[n] \cup P ELSE s.rev[n]],
      !.wt  = [n \in DOMAIN s.wt |->
                 IF n \in P
                 THEN [c \in DOMAIN s.wt[n] \cup NewChildren(s, v, n) |->
                         IF c \in NewChildren(s, v, n) THEN s.wt[n][v] + s.wt[v][c]
                         ELSE s.wt[n][c]]
                 ELSE s.wt[n]]]

\* Mutant: v is not removed from its parents' child lists (line 49).
UnlinkKeepChildLists(s, v, C, P) ==
    LET live == DOMAIN s.fwd \ {v} IN
    [s EXCEPT
      !.fwd = [n \in live |-> s.fwd[n]],
      !.rev = [n \in live |-> IF n \in C THEN s.rev[n] \ {v} ELSE s.rev[n]],
      !.wt  = [n \in live |->
                 IF n \in P THEN [c \in DOMAIN s.wt[n] \ {v} |-> s.wt[n][c]]
                 ELSE s.wt[n]]]

\* Lines 43-54: delete v's own entries, then v from the child list and
\* the weights of each of its parents P and from the parent list of each
\* of its children C (P and C are the lists read at line 32).
Unlink(s, v, C, P) ==
    LET live == DOMAIN s.fwd \ {v} IN
    [s EXCEPT
      !.fwd = [n \in live |-> IF n \in P THEN s.fwd[n] \ {v} ELSE s.fwd[n]],
      !.rev = [n \in live |-> IF n \in C THEN s.rev[n] \ {v} ELSE s.rev[n]],
      !.wt  = [n \in live |->
                 IF n \in P THEN [c \in DOMAIN s.wt[n] \ {v} |-> s.wt[n][c]]
                 ELSE s.wt[n]]]

\* The lookups of lines 38, 49, 51 and 54 that raise unless these hold.
\* A self-loop fails too: after "del global_graph[node]" the defaultdict
\* hands back a fresh empty list and remove(node) raises.
CanContract(s, v) ==
    LET C == s.fwd[v]  P == s.rev[v] IN
    /\ v \notin P
    /\ \A p \in P : v \in DOMAIN s.wt[p] /\ v \in s.fwd[p]
    /\ \A p \in P : NewChildren(s, v, p) \subseteq DOMAIN s.wt[v]
    /\ \A c \in C : v \in s.rev[c]

\* Mutant: the covered node is deleted without linking its parents to its
\* children (lines 33-40 dropped).
ContractNodeNoBridge(s, v) ==
    IF ~s.ok \/ v \notin DOMAIN s.fwd THEN s
    ELSE IF ~CanContract(s, v) THEN [s EXCEPT !.ok = FALSE]
    ELSE Unlink(s, v, s.fwd[v], s.rev[v])

\* Lines 30-54 for one covered node; an id that is not a node of the
\* graph (line 31) leaves the store alone.
ContractNode(s, v) ==
    IF ~s.ok \/ v \notin DOMAIN s.fwd THEN s
    ELSE IF ~CanContract(s, v) THEN [s EXCEPT !.ok = FALSE]
    ELSE Unlink(Bridge(s, v), v, s.fwd[v], s.rev[v])

\* Mutant: the ids are taken as they are, without the shift of line 27.
CoveredNodesUnshifted(batch) == batch

\* Lines 25-27: the AFL ids of cur_coverage shifted to 0-based node ids.
CoveredNodes(batch) == [i \in DOMAIN batch |-> batch[i] - 1]

\* Lines 30-54: the covered nodes contracted one after the other.
ApplyBatch(s, batch) ==
    FoldLeft(ContractNode, s, CoveredNodes(batch))

\* Lines 57-83: the keys of scaled_rank, one per node of the weighted
\* map, shifted back to 1-based ids when written.
ScaledRankIds(s) == {n + 1 : n \in DOMAIN s.wt}

Store == [fwd |-> global_graph, rev |-> global_reverse_graph,
          wt |-> global_graph_weighted, ok |-> TRUE]

-----------------------------------------------------------------------------
Init ==
    /\ cfg0 \in InitGraphs
    /\ global_graph = StoreOf(cfg0).fwd            \* line 15
    /\ global_reverse_graph = StoreOf(cfg0).rev
    /\ global_graph_weighted = StoreOf(cfg0).wt
    /\ pc = "poll"
    /\ scaled_rank = {}
    /\ signal = NoFile
    /\ cur_coverage = <<>>
    /\ dyn_katz_cent = NoFile
    /\ fuzzer = "idle"
    /\ posts = 0
    /\ covered = {}
    /\ seen = NoFile
    /\ restarts = 0

\* Lines 18-23: no signal file, or not "1\n": sleep and poll again.
PollNoSignal ==
    /\ pc = "poll"
    /\ signal # "1"
    /\ UNCHANGED vars

\* Mutant: "0\n" is written to the signal file before the scores (line 85
\* moved before line 80).
RescoreAckFirst ==
    /\ pc = "poll"
    /\ signal = "1"
    /\ LET s == ApplyBatch(Store, cur_coverage)
       IN  /\ s.ok
           /\ DOMAIN s.wt # {}
           /\ global_graph' = s.fwd
           /\ global_reverse_graph' = s.rev
           /\ global_graph_weighted' = s.wt
           /\ scaled_rank' = ScaledRankIds(s)
    /\ dyn_katz_cent' = [ids |-> {}, complete |-> FALSE]
    /\ signal' = "0"
    /\ pc' = "write_cent"
    /\ UNCHANGED <<cur_coverage, fuzzer, posts, cfg0, covered, seen, restarts>>

\* Lines 23-80: the signal is "1\n"; read the coverage, contract, score
\* and open dyn_katz_cent for writing, which truncates it.
Rescore ==
    /\ pc = "poll"
    /\ signal = "1"
    /\ LET s == ApplyBatch(Store, cur_coverage)
       IN  /\ s.ok
           /\ DOMAIN s.wt # {}
           /\ global_graph' = s.fwd
           /\ global_reverse_graph' = s.rev
           /\ global_graph_weighted' = s.wt
           /\ scaled_rank' = ScaledRankIds(s)
    /\ dyn_katz_cent' = [ids |-> {}, complete |-> FALSE]
    /\ pc' = "write_cent"
    /\ UNCHANGED <<signal, cur_coverage, fuzzer, posts, cfg0, covered, seen,
                   restarts>>

\* Lines 30-70: the same step when the contraction raises, or when no
\* node is left: max() of the empty score list (line 70) raises
\* ValueError.  Either way the process dies before it writes anything.
Crash ==
    /\ pc = "poll"
    /\ signal = "1"
    /\ LET s == ApplyBatch(Store, cur_coverage)
       IN  ~s.ok \/ DOMAIN s.wt = {}
    /\ pc' = "crashed"
    /\ UNCHANGED <<store, scaled_rank, signal, cur_coverage, dyn_katz_cent,
                   fuzzer, posts, cfg0, covered, seen, restarts>>

\* Lines 80-83: the score lines are written and the file is closed.
WriteCent ==
    /\ pc = "write_cent"
    /\ dyn_katz_cent' = [ids |-> scaled_rank, complete |-> TRUE]
    /\ pc' = "write_signal"
    /\ UNCHANGED <<store, scaled_rank, signal, cur_coverage, fuzzer, posts,
                   cfg0, covered, seen, restarts>>

\* Line 85: open("signal", "w") truncates the signal file; the "0\n" is
\* written by the next statement, so a kill in between leaves it empty.
OpenSignal ==
    /\ pc = "write_signal"
    /\ signal' = ""
    /\ pc' = "ack"
    /\ UNCHANGED <<store, scaled_rank, cur_coverage, dyn_katz_cent, fuzzer,
                   posts, cfg0, covered, seen, restarts>>

\* Line 85: acknowledge by writing "0\n" to the signal file.
Ack ==
    /\ pc = "ack"
    /\ signal' = "0"
    /\ pc' = "poll"
    /\ UNCHANGED <<store, scaled_rank, cur_coverage, dyn_katz_cent, fuzzer,
                   posts, cfg0, covered, seen, restarts>>

\* Lines 13-15, run again: the host kills the loop at any point (or finds
\* it dead) and starts it again (spec section 5).  The store is reloaded
\* from the pickle, which gen_graph.py wrote once; the files signal,
\* cur_coverage and dyn_katz_cent keep what they held.
Restart ==
    /\ restarts < MaxRestarts
    /\ global_graph' = StoreOf(cfg0).fwd
    /\ global_reverse_graph' = StoreOf(cfg0).rev
    /\ global_graph_weighted' = StoreOf(cfg0).wt
    /\ pc' = "poll"
    /\ scaled_rank' = {}
    /\ restarts' = restarts + 1
    /\ UNCHANGED <<signal, cur_coverage, dyn_katz_cent, fuzzer, posts, cfg0,
                   covered, seen>>

-----------------------------------------------------------------------------
(* The fuzzer, from the spec. *)

\* It writes a batch of newly covered ids to cur_coverage while the signal
\* is not asserted.
Post(b) ==
    /\ fuzzer = "idle"
    /\ signal \in {NoFile, "0"}
    /\ posts < MaxPosts
    /\ cur_coverage' = b
    /\ covered' = covered \cup {b[i] - 1 : i \in DOMAIN b}
    /\ posts' = posts + 1
    /\ fuzzer' = "posting"
    /\ UNCHANGED <<store, pc, scaled_rank, signal, dyn_katz_cent, cfg0, seen,
                   restarts>>

\* It then writes "1\n" to the signal file.
Raise ==
    /\ fuzzer = "posting"
    /\ signal' = "1"
    /\ fuzzer' = "waiting"
    /\ UNCHANGED <<store, pc, scaled_rank, cur_coverage, dyn_katz_cent,
                   posts, cfg0, covered, seen, restarts>>

\* Once the signal reads "0\n" it reads the new scores.
Observe ==
    /\ fuzzer = "waiting"
    /\ signal = "0"
    /\ seen' = dyn_katz_cent
    /\ fuzzer' = "idle"
    /\ UNCHANGED <<store, pc, scaled_rank, signal, cur_coverage,
                   dyn_katz_cent, posts, cfg0, covered, restarts>>

Consumer == Rescore \/ Crash \/ WriteCent \/ OpenSignal \/ Ack

Next ==
    \/ PollNoSignal \/ Consumer
    \/ \E b \in Batches : Post(b)
    \/ Raise \/ Observe
    \/ Restart

\* The loop runs forever (while True with a 5 s sleep), and the fuzzer,
\* once it has written coverage, goes on to raise the signal and to read
\* the answer.  Posting itself is not forced: the fuzzer may find nothing.
Spec == Init /\ [][Next]_vars
        /\ WF_vars(Consumer) /\ WF_vars(Raise) /\ WF_vars(Observe)

-----------------------------------------------------------------------------
Live == DOMAIN global_graph

\* The nodes contracted away so far.
Removed == EndPoints(cfg0) \ Live

TypeOK ==
    /\ pc \in {"poll", "write_cent", "write_signal", "ack", "crashed"}
    /\ signal \in {NoFile, "", "0", "1"}
    /\ fuzzer \in {"idle", "posting", "waiting"}
    /\ Live \subseteq EndPoints(cfg0)
    /\ \A n \in Live : global_graph[n] \subseteq Live
    /\ \A n \in DOMAIN global_graph_weighted :
          \A c \in DOMAIN global_graph_weighted[n] :
             global_graph_weighted[n][c] \in Nat \ {0}
    /\ posts \in 0..MaxPosts
    /\ restarts \in 0..MaxRestarts

\* Spec section 3: the three maps of the store stay co-indexed through any
\* sequence of contractions: the same node set, and c is a child of p
\* exactly when p is a parent of c and (p, c) has a weight.
StoreConsistent ==
    /\ DOMAIN global_reverse_graph = Live
    /\ DOMAIN global_graph_weighted = Live
    /\ \A n \in Live : global_reverse_graph[n] \subseteq Live
    /\ \A p, c \in Live :
          /\ c \in global_graph[p] <=> p \in global_reverse_graph[c]
          /\ c \in global_graph[p] <=> c \in DOMAIN global_graph_weighted[p]

\* Contraction preserves reachability and adds nothing else: after any
\* batches, p -> c is an edge exactly when the pickled CFG has a path from
\* p to c all of whose interior nodes have been contracted.  (The edge set
\* does not depend on the order of the covered nodes, and the graph stays
\* acyclic, so the Katz iteration keeps converging.)
EdgesAreContractedPaths ==
    EdgesOf(global_graph) =
        {e \in Live \X Live : WalkLengths(cfg0, Removed, e[1], e[2]) # {}}

\* Bridged weights compose additively along a real path: the weight of
\* every edge is the length of some path of the pickled CFG between its
\* ends through contracted nodes (which one depends on the order in which
\* bridges were first written).
WeightsArePathLengths ==
    \A p \in Live : \A c \in DOMAIN global_graph_weighted[p] :
        global_graph_weighted[p][c] \in WalkLengths(cfg0, Removed, p, c)

\* As long as the loop has not been restarted, what the fuzzer reads after
\* each acknowledgement is a complete score file listing exactly the
\* blocks it has not yet reported, in its own 1-based ids: every reported
\* id went through the -1 shift of line 27, was contracted, and the +1
\* shift of line 83 maps the rest back.  (A restart reloads the pickle and
\* brings the blocks of earlier batches back; FuzzerSeesLastBatchApplied
\* says what still holds then.)
FuzzerSeesCoverageApplied ==
    fuzzer = "idle" /\ posts > 0 /\ restarts = 0 =>
        seen = [ids |-> {n + 1 : n \in EndPoints(cfg0) \ covered},
                complete |-> TRUE]

\* Across restarts of the loop (lines 13-15 reload the pickle, so the
\* contractions of earlier batches are lost) the fuzzer still never reads
\* a half-written score file or one that ignores its last batch: a kill
\* before line 85 leaves the signal at "1\n" and cur_coverage in place, so
\* the restarted loop applies the batch again.  What it reads lists every
\* block it never reported and none of the batch it last posted.
FuzzerSeesLastBatchApplied ==
    fuzzer = "idle" /\ posts > 0 =>
        /\ seen.complete
        /\ {n + 1 : n \in EndPoints(cfg0) \ covered} \subseteq seen.ids
        /\ seen.ids \cap ToSet(cur_coverage) = {}

\* Every batch the fuzzer posts is eventually acknowledged (spec 4.5,
\* the single-slot mailbox of section 5).
EveryPostAnswered == fuzzer = "waiting" ~> fuzzer = "idle"

=============================================================================
