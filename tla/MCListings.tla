----------------------------- MODULE MCListings -----------------------------
(* objdump -h listings for the models that scan them. *)
EXTENDS Naturals, SequencesExt

\* The section lines of a listing that name a CFG section.
CfgLineSet(o) == {j \in DOMAIN o : o[j].kind = "sec" /\ o[j].name \in {"cfg_a", "cfg_b"}}

\* objdump -h listings: a blank line, "<file>:  file format elf64-x86-64",
\* a blank line, "Sections:", the "Idx Name Size VMA LMA File off Algn"
\* header, then for each section its line (7 tokens) and its flags line
\* ("CONTENTS, ALLOC, LOAD, DATA" or just "ALLOC").  Section j has size j.
MCLine(k, n, nm, sz) == [kind |-> k, ntok |-> n, name |-> nm, size |-> sz]
MCPreamble == <<MCLine("blank", 0, "", 0), MCLine("word", 4, "", 0),
                MCLine("blank", 0, "", 0), MCLine("word", 1, "", 0),
                MCLine("idx", 7, "", 0)>>
MCListing(secs, fl) ==
    MCPreamble \o FlattenSeq([j \in DOMAIN secs |->
        <<MCLine("sec", 7, secs[j], j), MCLine("flags", fl[j], "", 0)>>])

MCNames == {"text", "cfg_a", "cfg_b"}
MCSectionLists == UNION {[1..k -> MCNames] : k \in 0..3}

MCListings == UNION {{MCListing(s, fl) : fl \in [DOMAIN s -> {1, 4}]} :
                     s \in MCSectionLists}

\* Listings with a CFG section.
MCCfgListings == {o \in MCListings : CfgLineSet(o) # {}}
=============================================================================
