---------------------------- MODULE MCBBFunction ----------------------------
EXTENDS BBFunction, Functions, TLC

Orders(B) == {o \in [1..Cardinality(B) -> B] : IsInjective(o)}
Sinks(E, B) == {b \in B : Succs(E, b) = {} /\ Preds(E, b) # {}}
CFGsOver(B, Gs) ==
    UNION {{[order |-> o, edges |-> E, terms |-> T] :
              o \in Orders(B), T \in {{}} \cup {{b} : b \in Sinks(E, B)}} :
           E \in Gs}

\* Every CFG over three blocks, cycles and self-loops included, and every
\* acyclic CFG over four blocks up to renaming (edges b -> c with b < c);
\* every node order, and no PathTerminator or one sink that is.
MCCFGs ==
    CFGsOver(1..3, SUBSET ((1..3) \X (1..3)))
    \cup CFGsOver(1..4, SUBSET {e \in (1..4) \X (1..4) : e[1] < e[2]})

\* fweight and nweight at the call.  Lines 313-321 copy every weight of
\* a processed function into fweight, so the two agree except at a block
\* two functions weighted: fweight keeps the min, nweight the last one.
\* The first function finds both empty; block 1 may be this function's
\* entry, weighted 1/2 in the CFG of one caller, or 1/2 by one and 1 by a
\* later one; block 9 is a block of a caller only.
Half == [num |-> 1, den |-> 2]
Whole == [num |-> 1, den |-> 1]
MCPrior ==
    {[fw |-> <<>>, nw |-> <<>>],
     [fw |-> (1 :> Half) @@ (9 :> Whole), nw |-> (1 :> Half) @@ (9 :> Whole)],
     [fw |-> (1 :> Half) @@ (9 :> Whole), nw |-> (1 :> Whole) @@ (9 :> Whole)]}

\* The three-block chain 3 -> 2 -> 1, swept in the order 1, 2, 3.
MCChain == {[order |-> <<1, 2, 3>>, edges |-> {<<3, 2>>, <<2, 1>>},
             terms |-> {}]}

\* Every CFG over three blocks, in the order 1, 2, 3.
MCCyclic == {[order |-> <<1, 2, 3>>, edges |-> E, terms |-> {}] :
               E \in SUBSET ((1..3) \X (1..3))}

=============================================================================
