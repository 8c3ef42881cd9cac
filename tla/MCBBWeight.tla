----------------------------- MODULE MCBBWeight -----------------------------
EXTENDS BBWeight

\* Three functions at addresses 1 < 2 < 3.  Every call graph over them,
\* recursion and mutual recursion included, and the graphs in which
\* function 3 is missing from the call graph (line 281).
MCFuncOrder == <<1, 2, 3>>
MCCallGraphs ==
    {[nodes |-> 1..3, edges |-> E] : E \in SUBSET ((1..3) \X (1..3))}
    \cup {[nodes |-> 1..2, edges |-> E] : E \in SUBSET ((1..2) \X (1..2))}

=============================================================================
