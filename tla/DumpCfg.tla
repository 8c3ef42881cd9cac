------------------------------ MODULE DumpCfg ------------------------------
(***************************************************************************)
(* src/check/dump_cfg.py: the section lookup and the parser of            *)
(* gen_graph.py (the same lines, copied), then a print of every edge of    *)
(* the parsed graph.  Its detect_back_edge (lines 16-40) is never called.  *)
(*                                                                         *)
(* The lookup is the SectionLookup module and the parser the ParseLine and *)
(* FillNodes actions of GenGraph, composed on shared variables; the        *)
(* variables of GenGraph that dump_cfg.py does not have are fixed.         *)
(***************************************************************************)
EXTENDS Naturals, Sequences, FiniteSets, Bags

CONSTANTS Listings, NoName,  \* as in SectionLookup
          Contents,          \* section name -> the contents it may have
          NoFile

VARIABLES out, fits, rc, objdump, stdout_closed, sections, pc, error, i,
          header, skip_next, section_name, section_size,
          lines, next, global_graph, global_reverse_graph,
          global_graph_weighted,
          phase,      \* "lookup", "parse", "parsed", "written", "crashed"
          written     \* the "%d -> %d" lines printed, as a bag of edges

lookupVars == <<out, fits, rc, objdump, stdout_closed, sections, pc, error,
                i, header, skip_next, section_name, section_size>>
graphVars == <<lines, next, global_graph, global_reverse_graph,
               global_graph_weighted>>
vars == <<lookupVars, graphVars, phase, written>>

L == INSTANCE SectionLookup

G == INSTANCE GenGraph
       WITH Inputs <- UNION {Contents[n] : n \in DOMAIN Contents},
            visited <- {}, path <- {}, stack <- <<>>, backEdge <- <<>>,
            global_back_edge <- <<>>, graph_data_pack <- NoFile,
            katz_cent <- NoFile, child_node <- NoFile,
            parent_node <- NoFile, border_edges <- NoFile

\* Lines 87-90: the three defaultdicts start empty.
Init ==
    /\ L!Init
    /\ lines = <<>> /\ next = 1
    /\ global_graph = <<>> /\ global_reverse_graph = <<>>
    /\ global_graph_weighted = <<>>
    /\ phase = "lookup"
    /\ written = EmptyBag

\* Lines 56-85: a step of the lookup.
Lookup ==
    /\ phase = "lookup"
    /\ L!Script
    /\ UNCHANGED <<graphVars, phase, written>>

\* objdump exits.
ObjdumpExit == L!ObjdumpExit /\ UNCHANGED <<graphVars, phase, written>>

\* Lines 92-97: objcopy dumps the section found and the script reads it.
\* A CFG section holds edge lines; any other section is either empty or
\* bytes that the decode or the int() of line 99 rejects.
Objcopy ==
    /\ phase = "lookup"
    /\ pc = "objcopy"
    /\ \/ /\ section_name \in DOMAIN Contents
          /\ lines' \in Contents[section_name]
          /\ phase' = "parse"
       \/ /\ section_name \notin DOMAIN Contents
          /\ lines' = <<>>
          /\ phase' \in {"parse", "crashed"}
    /\ UNCHANGED <<lookupVars, next, global_graph, global_reverse_graph,
                   global_graph_weighted, written>>

\* Lines 97-115: one line of the section, as in gen_graph.py.
ParseLine ==
    /\ phase = "parse"
    /\ next <= Len(lines)
    /\ G!SetStore(G!ParseEdge(G!Current, lines[next]))
    /\ next' = next + 1
    /\ UNCHANGED <<lookupVars, lines, phase, written>>

\* Lines 117-130: the entries of the blocks that are only targets.
FillNodes ==
    /\ phase = "parse"
    /\ next > Len(lines)
    /\ G!SetStore(G!Filled(G!Current))
    /\ phase' = "parsed"
    /\ UNCHANGED <<lookupVars, lines, next, written>>

\* The multiset of edges the nested loop of lines 132-134 prints: one line
\* per element of each child list.
EdgeLines(fwd) ==
    [e \in G!ListEdges(fwd) |->
        Cardinality({j \in DOMAIN fwd[e[1]] : fwd[e[1]][j] = e[2]})]

\* Lines 132-134: print every child of every node.
WriteEdges ==
    /\ phase = "parsed"
    /\ written' = EdgeLines(global_graph)
    /\ phase' = "written"
    /\ UNCHANGED <<lookupVars, graphVars>>

\* The steps of the script (objdump's exit is the other process).
Script ==
    \/ Lookup
    \/ Objcopy
    \/ ParseLine
    \/ FillNodes
    \/ WriteEdges

Next == ObjdumpExit \/ Script

\* objdump and the script are both running processes.
Spec == Init /\ [][Next]_vars /\ WF_vars(ObjdumpExit)
          /\ WF_vars(Script)

-----------------------------------------------------------------------------
\* End to end: when the binary has a CFG section and dump_cfg.py gets to
\* the end, it has written each edge of the first CFG section exactly once,
\* however often the section repeats a line (the "not in" guards of lines
\* 101-115) and whichever block ids only appear as targets.
WritesFirstCfgEdgesOnce ==
    phase = "written" /\ L!CfgLines(out) # {} =>
      /\ lines \in Contents[out[L!FirstOf(L!CfgLines(out))].name]
      /\ written = [e \in G!InputEdges |-> 1]

\* The lookup of lines 55-92 inside the whole script: the name and size
\* passed to objcopy are those of the first CFG section (see SectionLookup).
SelectsFirstCfgSection == L!SelectsFirstCfgSection

\* A listing larger than the pipe buffer never makes lines 56-85 raise
\* ValueError on the closed stdout (see SectionLookup).
LargeListingNoValueError == L!LargeListingNoValueError

=============================================================================
