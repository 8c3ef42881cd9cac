------------------------------ MODULE BBWeight ------------------------------
(***************************************************************************)
(* The main loop of src/tools/bbweight/bb-weight-angr.py, lines 264-324:   *)
(* the functions of the binary are processed one at a time, a function     *)
(* only when none of its callers is still pending (or when the stuck       *)
(* counter says the call graph must have a loop).  Processing a function   *)
(* builds its CFG, removes cycles, weights its blocks (the RemoveCycles    *)
(* and BlockWeight modules) and merges the block weights into fweight.     *)
(*                                                                         *)
(* The CFG of a function (call_depth=0) holds the entry blocks of its      *)
(* callees, so processing f sets or lowers (min, line 316) the fweight     *)
(* entry of each callee; the entry block of f takes fweight[f] as its      *)
(* weight when f is processed (line 74).  fweight[x] is abstracted to the  *)
(* set of processed callers whose weight of x the min covers; used[f] is   *)
(* that set when f's blocks were weighted.                                 *)
(***************************************************************************)
EXTENDS GraphStore, Sequences, SequencesExt

CONSTANTS FuncOrder,   \* the functions of the main object, in address order
          CallGraphs,  \* [nodes, edges]: the call graphs CFGFast may find
          NoFile       \* a file that is not written

VARIABLES callgraph, functions, pos, stuck, fweight, used, pc,
          weight    \* the file "weight": the entries it has a line for

vars == <<callgraph, functions, pos, stuck, fweight, used, pc, weight>>

Funcs == ToSet(FuncOrder)

\* The callees of f: call edges out of a function node.
Callees(f) == Succs(callgraph.edges, f)

Init ==
    /\ callgraph \in CallGraphs
    /\ functions = FuncOrder
    /\ pos = 1 /\ stuck = 0
    /\ fweight = <<>> /\ used = <<>>
    /\ pc = "callgraph"
    /\ weight = NoFile

\* Line 273, remove_cycles_callgraph (lines 161-184): on Python 3 the
\* generator of nx.simple_cycles has no .next() (line 165); the
\* AttributeError is caught and the loop breaks, so the removal of lines
\* 168-184 is never reached and no edge is removed.
RemoveCyclesCallgraph ==
    /\ pc = "callgraph"
    /\ weight = NoFile
    /\ pc' = "loop"
    /\ UNCHANGED <<callgraph, functions, pos, stuck, fweight, used, weight>>

\* Lines 278-284: the function at pos waits while stuck is below twice the
\* number of pending functions, it is in the call graph and the test of
\* line 283 finds a caller.  callgraph.predecessors(addr) is an iterator
\* (networkx 2): "a[0] in predecessors" consumes it up to the match, so
\* for the first pending function it is read to the end unless that
\* function is a caller, and every later test finds it exhausted.  The
\* list is non-empty exactly when the first pending function calls f.
Waits(f, s) ==
    /\ s < 2 * Len(functions)
    /\ f \in callgraph.nodes
    /\ functions[1] \in Preds(callgraph.edges, f)

\* Lines 313-321 for the nodes of f's CFG: its own entry keeps its entry
\* (or gets one, weight 1.0), each callee's entry takes the min with the
\* weight f passes on.
Merged(f) ==
    [x \in DOMAIN fweight \cup {f} \cup Callees(f) |->
        CASE x = f -> IF f \in DOMAIN fweight THEN fweight[f] ELSE {}
          [] x \in Callees(f) ->
               (IF x \in DOMAIN fweight THEN fweight[x] ELSE {}) \cup {f}
          [] OTHER -> fweight[x]]

\* Mutant: a skipped function does not count as a stuck step.
SkipNoCount ==
    /\ pos' = IF pos = Len(functions) THEN 1 ELSE pos + 1
    /\ UNCHANGED <<stuck, functions, fweight, used>>

\* Line 284: continue with the next function (the for loop ends after the
\* last one and the while loop restarts it from the first).
Skip ==
    /\ stuck' = stuck + 1
    /\ pos' = IF pos = Len(functions) THEN 1 ELSE pos + 1
    /\ UNCHANGED <<functions, fweight, used>>

\* Mutant: stuck is not reset when a function is processed.
ProcessNoReset(f) ==
    /\ functions' = RemoveAt(functions, pos)
    /\ used' = used @@ (f :> (IF f \in DOMAIN fweight THEN fweight[f] ELSE {}))
    /\ fweight' = Merged(f)
    /\ pos' = 1
    /\ UNCHANGED stuck

\* Lines 285-324: stuck is reset, f is removed from functions, its blocks
\* are weighted from fweight[f] (or 1.0), fweight is merged, and the for
\* loop is left (break), so the while loop scans again from the first
\* pending function.
Process(f) ==
    /\ stuck' = 0
    /\ functions' = RemoveAt(functions, pos)
    /\ used' = used @@ (f :> (IF f \in DOMAIN fweight THEN fweight[f] ELSE {}))
    /\ fweight' = Merged(f)
    /\ pos' = 1

\* Lines 278-280: one iteration of the for loop over functions.
Examine ==
    /\ pc = "loop"
    /\ functions # <<>>
    /\ LET f == functions[pos] IN
       \/ Waits(f, stuck + 1) /\ Skip
       \/ ~Waits(f, stuck + 1) /\ Process(f)
    /\ UNCHANGED <<callgraph, pc, weight>>

\* Line 277: no function is left; dump_analysis follows.
LoopEnd ==
    /\ pc = "loop"
    /\ functions = <<>>
    /\ pc' = "dump"
    /\ UNCHANGED <<callgraph, functions, pos, stuck, fweight, used, weight>>

\* Lines 326-327, dump_analysis (lines 210-238): every fweight entry is
\* inverted (1.0/a) and written as a line of "weight" (the values are
\* abstracted here; the lines are the entries).  Line 230 then raises
\* TypeError: in "%full.dict" % filename, "%f" asks for a number and
\* filename is a str, so neither dictionary file is written and the
\* script dies before line 329.
Dump ==
    /\ pc = "dump"
    /\ weight' = DOMAIN fweight
    /\ pc' = "exited"
    /\ UNCHANGED <<callgraph, functions, pos, stuck, fweight, used>>

Finished == pc = "exited" /\ UNCHANGED vars

Next == RemoveCyclesCallgraph \/ Examine \/ LoopEnd \/ Dump \/ Finished

\* One thread of control that always has a next statement.
Spec == Init /\ [][Next]_vars /\ WF_vars(Next)

-----------------------------------------------------------------------------
TypeOK ==
    /\ callgraph \in CallGraphs
    /\ ToSet(functions) \subseteq Funcs
    /\ pos \in 1..Len(FuncOrder)
    /\ stuck = 0 \/ stuck < 2 * Len(functions)
    /\ DOMAIN fweight \subseteq Funcs
    /\ DOMAIN used \subseteq Funcs
    /\ weight = NoFile \/ weight \subseteq Funcs
    /\ pc \in {"callgraph", "loop", "dump", "exited"}

\* The stuck counter of lines 280-285 ends the wait even when recursion
\* keeps every pending function waiting on another, so the loop of line
\* 277 ends with every function processed, and the weight file of
\* dump_analysis then has a line for the entry of every function.
AllFunctionsProcessed ==
    <>(pc = "exited" /\ DOMAIN used = Funcs /\ weight = Funcs)

\* The intent of the wait of lines 280-284: with an acyclic call graph
\* every function is processed after all its callers, so the entry weight
\* its blocks were computed from (line 74) is the min over every call
\* site, and no later caller lowers fweight of its entry after its blocks
\* were weighted.
EntryWeightCoversAllCallers ==
    IsAcyclic(callgraph.edges) =>
        \A f \in DOMAIN used :
            /\ used[f] = Preds(callgraph.edges, f)
            /\ used[f] = fweight[f]

=============================================================================
