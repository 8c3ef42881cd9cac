# TLA+ models of the K-scheduler graph engine (fuzzuf `tools/`)

This directory holds TLA+ specifications of the Python tools under `src/`,
the TLC configurations that check them, and `PROJECT.json`, which lists the
components, the runs, the mutants that each property must catch, the map
from every modelling definition to the source lines it translates, and the
hazards of the code.

## 1. Inventory

### Components

| Component | Source | State it keeps | Operations |
|---|---|---|---|
| Section lookup | `kscheduler/gen_graph.py` 55-84, 91-95 | `sections`, `header`, `skip_next`, `section_name`, `section_size` | run `objdump -h`, find the first `.cfg-*` section, `objcopy` it to a temp file |
| Edge-list parser / graph store build | `gen_graph.py` 86-128 (and the copy in `check/dump_cfg.py` 80-130) | `global_graph` (node -> children list), `global_reverse_graph` (node -> parents list), `global_graph_weighted` (node -> {child: weight}) | parse one `from to` line, dedup, weight 1; add an empty entry for every endpoint |
| Cycle eliminator | `gen_graph.py` 15-39, 130-136 (copy in `dump_cfg.py` 16-40) | `visited`, the recursive `path` set, `back_edge` list; afterwards `global_back_edge` | recursive DFS from every unvisited node; classify an edge to a node on the current path as a back edge; remove the back edges from the three maps |
| Centrality scorer | `gen_graph.py` 141-168, `gen_dyn_weight.py` 57-83 | `real_id_2_tmp_id`, `tmp_id_2_real_id`, the networkit graph, `scaled_rank` | reverse every edge with weight 1/w, Katz(alpha 0.5, beta 1), scale to (0, 10], write `id+1 score` lines |
| Adjacency outputs | `gen_graph.py` 138-139, 170-194 | the pickle `graph_data_pack`; the back edges re-appended | pickle the acyclic store; restore back edges; write child, parent and border-edge files |
| Coverage contraction | `gen_dyn_weight.py` 30-54 | the three maps of the store | for each covered node: bridge parents to children (weight sum, first writer wins), delete the node and its links |
| Update loop | `gen_dyn_weight.py` 13-87 | `covered_node`, the store; the files `signal`, `cur_coverage`, `dyn_katz_cent` | poll `signal` every 5 s; on `"1\n"` read coverage, contract, rescore, rewrite the score file, write `"0\n"` |
| Fuzzer (external, not in `src/`) | spec sections 5-6 | its own control state | write `cur_coverage`, write `"1\n"`, wait for `"0\n"`, read scores |
| BB weight (angr) | `bbweight/bb-weight-angr.py` | `fweight`, `nweight`, `cmp_imm_operands`, the networkx CFG | edge weights 1/outdegree, block weights by a fixpoint over predecessors with a `stuck` counter, cycle removal heuristics, per-function scheduling over the call graph |
| DIE typer | `algorithms/die/typer.py` | `records` (location -> type or `mixed` with subtypes) | run d8 with a timeout, parse `~~~TypeInfo` lines, merge types per location |
| PolyExecutor | `polyexecutor/polyexecutor.py` | `canonical_map`, `taint_forest` | run the PUT under polytracker, build the taint forest, resolve label origins recursively, write CMP/LEA lines |

### How they interact

`gen_graph.py` runs once: section lookup -> parser -> cycle eliminator ->
pickle of the acyclic store -> scorer -> `katz_cent`, then restores the back
edges and writes the child, parent and border files.  `gen_dyn_weight.py`
then runs forever beside the fuzzer: it loads the pickle and talks to the
fuzzer only through three files: `cur_coverage` and `signal` written by the
fuzzer, `dyn_katz_cent` and `signal` written by the loop.  The signal file is
a single-slot mailbox: the fuzzer posts (`"1\n"`) only when the previous post
has been acknowledged (`"0\n"`).  The other tools are independent programs.

### What is hard

* The mailbox protocol between two processes through non-atomic file writes
  (`open(..., "w")` truncates first); the order of "write scores" and "reset
  signal" is all that keeps the fuzzer from reading a truncated score file.
* The loop has no error handling: a `KeyError`/`ValueError` in contraction or
  `max()` of an empty score list (every block covered) kills it with the
  signal still `"1\n"`, and the fuzzer waits forever.
* Contraction is destructive graph surgery on three maps that must stay
  co-indexed, over arbitrary sequences of batches with duplicates and absent
  ids; bridged weights depend on the order of the covered nodes.
* The id shift: coverage ids are 1-based (`-1` on read), output ids are
  1-based (`+1` on write).
* The DFS must remove exactly edges closing a cycle (to a node on the active
  path, not merely visited) and remove enough of them; the recursive DFS
  runs under `sys.setrecursionlimit(50000)`.

* The section lookup runs objdump as a second process: whether it has
  exited at the first `poll()` changes how often `communicate()` is
  called, and the second call raises.

### What makes each component correct

* Store: the three maps have the same keys and `c in fwd[p] <=> p in
  rev[c] <=> (p, c) has a weight` (spec section 3).
* Cycle eliminator: the residual graph is acyclic, every removed edge closes
  a cycle, the elimination terminates.
* Contraction: edges after any batches are exactly the paths of the pickled
  CFG through contracted nodes; weights are lengths of such paths; the
  graph stays acyclic.
* Update loop with the fuzzer: each acknowledgement leaves a complete score
  file listing exactly the unreported blocks; every post is answered (the
  code fails this: the crash at line 70 and a kill inside line 85).
* Scorer: scores in (0, 10], max exactly 10, one per node of the store,
  solving the Katz equation of spec 4.3 on the acyclic residual.

## 2. Plan

Modules, in the order they are (to be) written; the most important
behaviour first.  `MCListings` (shared by the MC modules) builds objdump
listings.

1. `GraphStore` (done): shared operators: endpoints, successors, the store
   gen_graph builds (`StoreOf`), walks through a node set, acyclicity.
2. `CycleBreak` (done): abstract specification of the eliminator.
3. `DetectBackEdge` (done): the DFS step by step, shown to implement
   `CycleBreak` by a refinement mapping.
4. `DynWeight` (done): contraction engine + update loop + the fuzzer (spec
   modelled), with the store invariant, the contraction characterisation,
   the fuzzer's view and the liveness of the mailbox (violated by the
   crash of line 70).
5. `GenGraph` (done): the whole of `gen_graph.py` after the section lookup:
   per-line parse actions with duplicates, the endpoint fill, the DFS (by
   INSTANCE of `DetectBackEdge`), the removal, the pickle, the scorer call,
   back-edge restore and the child/parent/border outputs; round trip of the
   back edges (spec 8), border edges, the crash of `max()` on an empty CFG.
   Left: the `read(section_size - 1)` truncation (needs the digits).
5a. `SectionLookup` (done): objdump as a second process, the poll loop,
   the scan of the listing; `DumpCfg` (done): `check/dump_cfg.py` as the
   composition of the lookup, the parser and its edge print.
6. `Katz` (done for `GenGraph`): the scorer as operators over exact
   rationals (`QArith`), the iteration RECURSIVE over the rounds, checked
   against the Katz equation of spec 4.3 in `gen_graph_outputs`.
   `DynWeight` still publishes ids only (its runs are at their time bound).
7. `DynWeight` restart (done): `Restart`, the host stopping and starting
   the loop at any point, a fault bounded by `MaxRestarts`, exercised in
   the safety run, with line 85 split so a restart can land inside it.
8. `BlockWeight`, `RemoveCycles`, `BBFunction`, `BBWeight` (done):
   `calculate_weight_blocks` (pass structure, `nodes_done` counting recomputed nodes, the `stuck` counter) and `remove_cycles`
   (the default removal inside the loop, the swallowed exceptions), their
   composition for one function, and the function schedule of main.
9. `Typer` (done): the per-location type merge of `typer.parse` and its
   `return {}` on a JSON error.

## 3. Modules and runs

### `GraphStore`
Pure operators.  `StoreOf(E)` is the store gen_graph.py builds from an edge
set (lines 96-128): all lists are appended under "not in" guards, so they
never hold duplicates and are modelled as sets.

### `CycleBreak` (abstract)
Variables `graph`, `removed`, `broken`.  One step `Break` picks a removal
that leaves the graph acyclic and removes only edges that close a cycle.

### `DetectBackEdge`
Variables: `graph` (input), `visited`, `path`, `stack` (one frame per active
`dfs()` call: node and neighbours not yet looked at), `backEdge`, `done`.
Actions: `StartRoot` (outer loop, lines 31-36), `Explore(nei)` (one
iteration of the loop body, lines 19-28: descend, record a back edge, or
skip), `Return` (line 24), `Finish` (function returns and lines 130-136
remove the edges).  The order of roots and neighbours is the input order,
which is arbitrary, so it is chosen nondeterministically.

Run `back_edge_refines` (`MCDetectBackEdge.cfg`): all 512 CFGs over three
block ids, self-loops included; checks `TypeOK` and
`ImplementsCycleBreak`, the refinement of `CycleBreak` under the mapping
`removed <- graph \ Residual` (once done), which also requires termination.
Fairness: `WF_vars(Next)`: the tool is one sequential process.

### `DynWeight`
Variables: the store (`global_graph`, `global_reverse_graph`,
`global_graph_weighted`), the loop's `pc` and `scaled_rank`, the files
`signal`, `cur_coverage`, `dyn_katz_cent`, the fuzzer's `fuzzer`, `posts`,
`seen`, and history `cfg0` (the pickled CFG) and `covered` (0-based ids
reported).  Contraction is the operator `ContractNode` = `Bridge` then
`Unlink` (lines 30-54), folded over the batch by `ApplyBatch`; `CanContract`
is the set of lookups that would raise.  Loop actions: `PollNoSignal`,
`Rescore` (read coverage, contract, score, truncate the score file),
`Crash` (the same step when contraction raises or no node is left),
`WriteCent`, `OpenSignal` and `Ack` (line 85: `open("signal", "w")`
empties the file, then `"0\n"` is written; a restart can land between
the two).  Fault: `Restart` (lines 13-15 run again: the host
stops the loop at any point, or finds it dead, and starts it; the store is
reloaded from the pickle, the files keep their contents), at most
`MaxRestarts` times.  Fuzzer actions (from the spec): `Post(b)`, `Raise`,
`Observe`.  `NoFile` is a model value (a file that does not exist).  The Katz scores are abstracted to the set of ids listed.  The
fuzzer's writes are single steps (it is outside src/, and the spec gives
no more detail); the loop's truncation of each file it writes is a step of
its own.

Runs:
* `dyn_contract_safety` (`MCDynWeight.cfg`, about 1 minute): the acyclic
  CFGs on blocks 0..3, one of each class of CFGs equal up to renaming the
  blocks (the loop shifts every id alike and the batches range over all
  ids, so the renaming is a symmetry).  AFL ids 0..4 (0 maps to no
  block), three batches of up to two ids, and one restart of the loop at
  any step.  Checks `TypeOK`, `StoreConsistent`, `EdgesAreContractedPaths`,
  `WeightsArePathLengths`, `FuzzerSeesCoverageApplied` (before any
  restart) and `FuzzerSeesLastBatchApplied`: across a restart the fuzzer
  still reads a complete score file that lists every block it never
  reported and none of its last batch, because a kill before line 85
  leaves `"1\n"` and the batch in their files and the restarted loop
  applies the batch again.  Four blocks give chains contracted to weight
  3, diamonds where the bridge already exists, batches with duplicates,
  absent ids and ids contracted earlier.  Deadlock is not checked: the
  loop really stops when it crashes, and a kill inside line 85 stops the
  mailbox.

Known behaviour, not given a run: a restart forgets the contractions of
every batch but the last (the pickle of line 15 is written once, as spec
section 6 prescribes), so a block the fuzzer reported earlier is scored
again; this is why `FuzzerSeesCoverageApplied` is stated before the first
restart.

Known divergence, not given a run (the project keeps at most twelve
runs): a kill between the truncation and the write of line 85 leaves the
signal file empty.  The restarted loop waits for `"1\n"` and the fuzzer
for `"0\n"`, so no post is ever answered again; spec section 5 asks for
whole-file replace.  Checked by hand with TLC: `EveryPostAnswered` with
`MaxRestarts = 1`, on CFGs using all of blocks 0..3 and two single-id
batches (so the crash below cannot happen), fails in 12 s on post, raise,
rescore, write, `OpenSignal`, `Restart`.
* `dyn_crash_on_full_coverage` (`MCDynWeightCrash.cfg`, expected
  violation): CFGs on all of blocks 0..2, two batches of two ids.  Once
  every block is covered, `max()` of the empty score list raises, the loop
  dies with the signal at `"1\n"`, and `EveryPostAnswered` fails.

### `SectionLookup`
Variables: `out` (the listing objdump prints), `fits` (it fits in the
pipe buffer), `rc`, `objdump` (running/exited), `stdout_closed`,
`sections` (what the script collected), `pc`, `error`, and the scan's
`i`, `header`, `skip_next`, `section_name`, `section_size`.  A listing
line is a record of its kind, its token count and, for a section line,
the name and size; `MCListings` builds listings the way `objdump -h`
prints them (preamble, header, a section line and a flags line per
section).  Actions: `ObjdumpExit` (the other process; enabled early only
when the listing fits), `Poll` (line 57), `Communicate` (lines 58-62: a
second call on the closed pipe raises ValueError), `CheckStatus` (63-65),
`ScanLine`/`ScanTokens` (69-85), `ScanEnd`, `UseSection` (line 92,
NameError when nothing was listed).  Fairness: weak fairness of objdump
and of the script, both are running processes.

The lookup's safety properties are checked inside `dump_cfg_edges` (below),
over the same 259 listings of up to three sections named `text`, `cfg_a`
and `cfg_b`, with either flags line, both pipe cases and both statuses:
`SelectsFirstCfgSection` says that when the script reaches objcopy, the name
and size are those of the first CFG section. `LargeListingNoValueError`
says that a listing larger than the pipe buffer never makes the collection
raise.

Run:
* `section_lookup_poll_race` (`MCSectionLookupRace.cfg`, expected
  violation, `LookupCompletes`): objdump exits before the first `poll()`,
  the inverted `while` runs `communicate()` twice, and the second call
  raises ValueError.

Known divergence, not given a run: when no `.cfg-` section is listed, the
scan ends without a break and the last section listed goes to objcopy
(line 83). Spec section 7 says such output is absent and fatal.

### `GenGraph`
Variables: the section `lines` and the parse position `next`; the three
maps as Python lists (`global_graph`, `global_reverse_graph`) and a dict
of dicts (`global_graph_weighted`); the DFS state of `DetectBackEdge`
(`visited`, `path`, `stack`, `backEdge`), which is instantiated on
`ListEdges(global_graph)`; `global_back_edge`; the files
`graph_data_pack`, `katz_cent`, `child_node`, `parent_node`,
`border_edges`; `phase`.  Actions, in program order: `ParseLine` (one
line, `ParseEdge`), `FillNodes`, `DfsStep`, `RemoveBackEdges` (list.remove
of the first occurrence), `Dump`, `Score` / `ScoreCrash` (line 156),
`Restore`, `WriteAdjacency`, `WriteBorder` (with the in-place sort).
`katz_cent` maps each written id to its score, `ScaledRank` of the
`Katz` module.
Fairness: `WF_vars(Next)`, one sequential process.

### `QArith` and `Katz`
`QArith`: exact rationals in lowest terms (`Q`, `QAdd`, `QMul`, `QDiv`,
`QLess`, `QSum`), shared by `BlockWeight` and `Katz`; the code's floats
round these values.  `Katz` (pure operators): `NkGraph` is lines 141-152
(every weighted edge node -> nei becomes the networkit edge nei -> node
of weight 1/weight; the contiguous ids are a bijection and are kept as
the real ids); `KatzIter(G, n, k)` is round k of networkit's iteration
x(n) = 1 + 0.5 * sum of w * x(c) over the in-edges (c, n, w), from x = 0,
RECURSIVE in k and modelled from spec 4.3 (networkit is a library, not
part of the repository); `KatzScores` runs as many rounds as there are
nodes, exact on an acyclic graph; `Scale` is lines 155-164 (a node at
`max_score` gets 10, the others `10 / max_score * score`).  networkit's
final division by the L2 length is left out: the scaling cancels it.

Runs:
* `gen_graph_outputs` (`MCGenGraph.cfg`): all 7381 sections of up to four
  lines over blocks 0..2 (self-loops, duplicates, 2- and 3-cycles, two
  cycles sharing a block, the empty section), plus every CFG over blocks
  0..2 as one section (512 edge sets, up to nine lines): dense graphs
  where the depth-first search meets cross and forward edges beside
  several cycles (465k states, under 20 s).  `ListsConsistent`,
  `PickleIsAcyclicResidual` (the pickle is acyclic and is the input minus
  the recorded back edges), `OutputsDescribeInputCFG` (child, parent,
  centrality and border files describe the input CFG, shifted by one),
  `CentralityIsScaledKatz` (the scores written solve the Katz equation on
  the residual graph up to the scale, every leaf scores the same m > 0,
  and the maximum is exactly 10).  The equation is checked independently
  of the iteration that computes the scores.

Known divergence, not given a run: spec section 8's example (residual
edges 0->1, 1->2, 1->3) promises `score(0) > score(1)`.  Spec 4.3's own
formula, as the code calls it, gives both blocks 1 + 0.5 * 2 = 2, so
both are written as 10 (blocks 2 and 3 get 5).  A block whose only child
has two leaf children ties with that child, and with three it scores
lower.  That needs four blocks; over the three blocks of the run, ties at
the maximum come from blocks with the same children (0->2, 1->2), and
`CentralityIsScaledKatz` requires each of them to be written as 10.

Known divergence, not given a run: an empty section, or a failed objcopy
(line 95), is pickled and then crashes at `max()` (line 156, `ScoreCrash`,
reached in `gen_graph_outputs`). No file for the fuzzer is written. Spec 4.3
and 7 say the caller must skip scoring an empty graph. This is the same
empty-list `max()` as the `dyn_crash_on_full_coverage` finding.

### `DumpCfg`
`check/dump_cfg.py`: `SectionLookup` (INSTANCE) for lines 56-85, `Objcopy`
(contents of the found section from the constant `Contents`; a non-CFG
section is empty or fails to parse), `ParseLine` and `FillNodes` built
from the `GenGraph` operators, `WriteEdges` (lines 132-134, the printed
lines as a bag of edges).  Run `dump_cfg_edges`: every listing above and
CFG contents of up to two lines (and a section that repeats its line).
`WritesFirstCfgEdgesOnce` says that a run which ends prints each edge of the
first CFG section exactly once. `SelectsFirstCfgSection` and
`LargeListingNoValueError` are the lookup properties described above.

### `BlockWeight`
`bb-weight-angr.py` lines 36-104 cover one function's block weights.

Constants:
* `CFGs` are records: `order` is the order of `cfg.graph.nodes()`, `edges`
  are the edges `get_predecessors`/`get_successors` see (fake returns
  excluded), and `terms` are the PathTerminator blocks.
* `Prior` holds the `fweight` and `nweight` maps at the call.  Both are
  module globals (lines 33-34) that no line clears between functions, so
  `nweight` already holds the weights of the blocks of every function
  processed before, the entry of this function included when a caller's
  CFG holds it.

Weights are exact rationals in lowest terms (`QArith`). The code uses floats.

Operators:
* `EdgeWeight` models `calculate_weight_edges`: the weight is 1/#successors,
  or 1.0 when a successor is a PathTerminator.
* `VisitBlock` is one body of the sweep. A block with no predecessor gets
  its entry weight. A block whose predecessors are all weighted gets their
  sum. Any other block is left as it is.

The skip of blocks that already have a weight (lines 69-70) is commented
out in the code. So every sweep re-weights such blocks and counts them
again in `nodes_done`.

Variables: `cfg`, `fweight`, `nweight`, `fin_nodes` (the blocks weighted
in this call, line 55), `nodes_done`, `stuck`, `j` (0 at the while test, k
at block k of a sweep), `phase`, and the history `nweight0` (`nweight` at
the call).

Actions:
* `WhileTest` covers lines 55-63. It ends with `AlgoStuck` (sys.exit(1))
  when `stuck` reaches twice the number of blocks.
* `Visit` covers lines 64-93.

`RefWeight` (RECURSIVE) is the reference definition of a block's
probability mass on an acyclic CFG.

### `RemoveCycles`
`remove_cycles`, lines 106-135, works on the edge set.

Actions:
* `RemoveSelfLoops`.
* `FindCycle`: `nx.find_cycle` may return any simple cycle, starting at any
  of its nodes. `Cycles(E)` is that set. When there is none, the loop
  breaks.
* `ForStep`: one iteration of the for loop over `cycle[-i]`. It has three
  cases:
  * the target has more than one predecessor: that edge is removed and the
    loop breaks;
  * otherwise the default removal of `cycle[-1]`, which is indented inside
    the loop, runs;
  * when that edge is already gone, `remove_edge` raises and the bare
    except leaves the while loop.
* `SimpleCycles`: on Python 3, `.next()` on the generator raises
  AttributeError and the loop ends at once.

### `BBFunction`
Lines 302-310 of main for one function: `remove_cycles(cfg_f)` followed by
the weights. `RemoveCycles` and `BlockWeight` are instantiated on shared
variables, and BlockWeight's `cfg` is mapped to the function's order and
terminators with the edges that are left.

Fairness is weak fairness of `RemoveCyclesStep` only. It is one thread of
control, and only the return of remove_cycles is asked for.

The instances cover:
* every CFG of three blocks, cycles and self-loops included;
* every acyclic CFG of four blocks up to renaming;
* every node order;
* no PathTerminator, or one sink that is one;
* the globals at the call (`MCPrior`): empty (the first function); or
  block 1 as this function's entry, weighted 1/2 by one caller; or
  weighted 1/2 by one caller and 1 by a later one, so that `fweight` keeps
  the min 1/2 and `nweight` the last 1.  A block 9 of a caller only is in
  both.

Runs:
* `bb_function` (`MCBBFunction.cfg`, 854,529 states, about 70 s):
  * `RemoveCyclesReturns`: the while loop always ends.
  * `WeightsFollowPredecessors`: every block the sweep weights in this
    call gets `RefWeight`, whatever the node order and however often it
    is re-weighted, provided the weights `nweight` already held for this
    CFG's blocks are the ones this call computes.

Known divergence, not given a run (the project keeps at most twelve
runs): with the two-caller globals the proviso fails, and so does the
weight.  Line 83 accepts the stale weight of the entry, so a successor
listed before it is weighted from the last caller's weight, not from the
min (order 2, 1, 3 with edge 1->2: weight 1 instead of 1/2).  TLC finds
this when the property is stated without its proviso.
* `bb_function_unweighted` (`MCBBFunctionUnweighted.cfg`, expected
  violation, `AllBlocksWeighted`): chain 3->2->1 swept in order 1,2,3.
  Blocks re-counted on later sweeps push `nodes_done` to the total while
  block 1 has no weight, and main's read of `nweight` at line 316 or 319
  raises KeyError.
* `remove_cycles_leaves_cycle` (`MCBBFunctionCycleLeft.cfg`, expected
  violation, `LeavesAcyclic`): edges 1->2, 1->3, 2->1, 3->2 with cycle
  3->2->1->3. The default removal runs twice, the second raises, and cycle
  1->2->1 remains.

### `BBWeight`
The function loop of main, lines 264-324, with `remove_cycles_callgraph`
(161-184), which on Python 3 removes nothing, and `dump_analysis`
(210-238).  Variable `weight` is the file "weight" (the entries it has a
line for; `NoFile` before it is written).

`fweight[x]` is abstracted to the set of processed callers whose weight of
x the `min` of line 316 covers. `used[f]` is that set when f's blocks were
weighted (line 74).

Actions:
* `Examine` is one iteration of the for loop. It either waits (`Skip`,
  lines 280-284) or runs `Process` (285-324: the stuck counter is reset, f
  is removed, fweight is merged over f's callees, and the loop breaks).
* `LoopEnd`.
* `Dump` (lines 326-327 and 210-230): a line of "weight" for every fweight
  entry; then line 230 raises TypeError (`"%full.dict" % filename`: `%f`
  wants a number), so no dictionary file is written and the script dies.

`Waits` follows the test of line 283 as Python runs it:
`callgraph.predecessors(addr)` is an iterator (networkx 2), and
`a[0] in predecessors` consumes it.  The first pending function either is
a caller, which makes the list non-empty, or reads the iterator to its
end, which makes every later test fail.  So f waits only when the first
pending function calls it.

Fairness: `WF_vars(Next)`, one sequential process.

Run `bb_weight_schedule` (`MCBBWeight.cfg`) covers every call graph over
functions 1..3, self-calls included, and the call graphs in which function
3 is missing (line 281):
* `AllFunctionsProcessed`: the stuck bound ends every wait, so every
  function is processed, even with recursion, and the weight file has a
  line for each.

Run `bb_callee_before_caller` (`MCBBWeightOrder.cfg`, expected violation,
`EntryWeightCoversAllCallers`): the wait is meant to weight a function's
blocks only after all its callers, so that its entry weight is the min
over every call site.  With call graph {2->1} and functions 1, 2, 3,
function 1 is first in the list and no pending function before it calls
it, so it is processed at once; its entry takes 1.0, and caller 2 later
sets `fweight[1]` without 1 being reweighted.

Known divergence, not given a run: the dictionaries of `dump_analysis`
(`<binary>full.dict`, `<binary>unique.dict`) are never written, since
line 230 always raises; the crash is one deterministic statement, which a
plain run of the script shows.

The stuck bound of line 280 also lets a callee go first when its caller
waits on itself (2 calls itself and 3).

### `Typer`
`algorithms/die/typer.py`.

An output line is one of three kinds:
* a TypeInfo line with its location and type;
* a `bad` line whose JSON does not parse;
* any other line.

Types are records as d8 prints them. `mixed` is the form the script builds.

Actions:
* `RunD8` covers lines 83-93. There are three outcomes: the whole output
  (normal exit or CalledProcessError); the output a timeout kill cuts
  inside a line (`D8Results`: a cut TypeInfo line no longer matches, or it
  holds truncated JSON); or no output (`e.output` is None, and `parse(None)`
  raises AttributeError).
* `ParseLine` covers lines 30-72: skip the line, return `{}` on a JSON
  error, or record or merge the type with `MergeType`.
* `ParseEnd`.
* `Write` covers lines 94-96.

No fairness; only safety is checked.

Run `typer_merge` (`MCTyper.cfg`) covers every output of up to four lines
over two locations and three types, so a location can see three types and
one of them twice:
* `RecordsAreSeenTypes`: each record stands for exactly the distinct types
  read at its location.
* `FileIsAllOrNothing`: the file is written exactly when the whole output
  parsed and has a TypeInfo line, and it then holds every type.

Known behaviour, not given a run:
* a timeout that cuts a TypeInfo line discards every type (line 42);
* a d8 that prints nothing before the timeout crashes the script.

## 4. Not modelled (yet) and why

* `objcopy` itself and the bytes of sections: a section's content is a
  constant set of edge lists; the `read(section_size - 1)` truncation
  would need the digits and is listed as a hazard.
* The Katz values of `gen_dyn_weight.py` (`DynWeight` lists ids only); the
  rational arithmetic on every rescore would push its runs, already near
  three minutes, past their bound.  The scorer itself is `Katz`, checked
  in `gen_graph_outputs`.  Float rounding and the `round(.., 14)` of the
  score lines are left out.
* In `bb-weight-angr.py`:
  * the angr and capstone analyses themselves (CFGFast, CFGEmulated and its
    own `remove_cycles`): the CFGs are constants;
  * `find_CMP_operands` and the hex split of lines 221-227: instruction
    data, and their only output, the dictionary files, is never written
    (line 230 raises first);
  * the values of the inverted weights of `dump_analysis` (the fweight
    entries are abstracted to sets of callers);
  * the never called `remove_pathterminator`;
  * `printCFG` and `plot_cfg`, which only print.
* Float rounding of the weights: the model uses exact rationals, and an
  underflow would need far deeper CFGs than TLC can enumerate.
* `typer.py`: the d8 process itself, the regular expression and the JSON
  text (abstracted to the line kinds they tell apart).
* `polyexecutor.py` is not modelled yet. Its pure part fits TLC over small
  forests: `TaintForest.origins` and `offsets` (lines 78-93), the forest
  build (54-76) and the CMP/LEA loop (129-157). The project keeps at most
  twelve runs, and every one of them is spent on the components above
(two divergences of modelled code, in `DynWeight` and `BBFunction`, are
also without a run for this reason). A
  slot would have to be freed first, for example by a cheaper merge of the
  two DynWeight pass runs, or by checking the CycleBreak refinement inside
  `gen_graph_outputs`. Both merges were tried and were far too slow: the
  second reached 52k states in 15 minutes, against 465k states in 30 s
  without the refinement property. The
  rest of `polyexecutor.py` is polytracker database queries and text
  output. Its hazards (the unmemoised recursion of `origins` and the
  `128 - returncode` test, and the database left behind when a run
  fails part-way) are listed in PROJECT.json.
* Logging and output formatting.
