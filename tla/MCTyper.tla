------------------------------- MODULE MCTyper -------------------------------
EXTENDS Typer

\* Two locations and three types; every output of up to four lines that
\* are TypeInfo lines or other lines (so a location can see three types,
\* one of them twice).
MCLocs == {"<1,2,3>", "<4,5,6>"}
MCTypes == {[type |-> "number"], [type |-> "string"], [type |-> "object"]}
MCLines ==
    {Other} \cup {[kind |-> "info", loc |-> l, ti |-> t] : l \in MCLocs, t \in MCTypes}
MCOutputs == UNION {[1..n -> MCLines] : n \in 0..4}

=============================================================================
