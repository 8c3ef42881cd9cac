----------------------------- MODULE MCDumpCfg -----------------------------
EXTENDS DumpCfg, MCListings

\* Every listing of MCListings, and CFG
\* sections of up to two lines over blocks 0..2 (cfg_a) or a fixed
\* two-line section (cfg_b).
MCNode == 0..2
MCContents == [n \in {"cfg_a", "cfg_b"} |->
                 IF n = "cfg_a"
                 THEN UNION {[1..k -> MCNode \X MCNode] : k \in 0..2}
                 ELSE {<<<<0, 1>>, <<0, 1>>>>}]
=============================================================================
