---------------------------- MODULE SectionLookup ----------------------------
(***************************************************************************)
(* The section lookup at the start of src/tools/kscheduler/gen_graph.py,   *)
(* lines 55-84 and 91-92: run "objdump -h" with its stdout on a pipe,      *)
(* collect the output, then scan it for the first ".cfg-" section.         *)
(*                                                                         *)
(* Two processes run: objdump, which writes its listing into the pipe and  *)
(* exits, and the script.  objdump can exit on its own only when the whole *)
(* listing fits in the pipe buffer; otherwise it waits for the script to   *)
(* read.  A line of the listing is a record: its kind, its token count     *)
(* and, for a section line, the section's name and size.                   *)
(***************************************************************************)
EXTENDS Naturals, Sequences

CONSTANTS Listings,  \* what objdump -h may print: sequences of Line records
          NoName     \* model value: section_name before any assignment

\* Names in a listing are either CFG sections or other sections.
IsCfg(name) == name \in {"cfg_a", "cfg_b"}

VARIABLES out,            \* the listing objdump prints
          fits,           \* it fits in the pipe buffer
          rc,             \* objdump's exit status
          objdump,        \* "running" or "exited"
          stdout_closed,  \* list_sections.stdout was read and closed
          sections,       \* the text collected by the script
          pc,             \* where the script is
          error,          \* the exception that ended it, if any
          i,              \* the next line of the scan
          header, skip_next, section_name, section_size

vars == <<out, fits, rc, objdump, stdout_closed, sections, pc, error, i,
          header, skip_next, section_name, section_size>>
scanVars == <<i, header, skip_next, section_name, section_size>>

Init ==
    /\ out \in Listings
    /\ fits \in BOOLEAN
    /\ rc \in {0, 1}
    /\ objdump = "running"
    /\ stdout_closed = FALSE
    /\ sections = <<>>
    /\ pc = "poll"
    /\ error = "none"
    /\ i = 1 /\ header = TRUE /\ skip_next = FALSE
    /\ section_name = NoName /\ section_size = 0

\* objdump finishes writing and exits; a listing larger than the pipe
\* buffer needs the script to be reading it.
ObjdumpExit ==
    /\ objdump = "running"
    /\ fits \/ pc \in {"comm_loop", "comm_final"}
    /\ objdump' = "exited"
    /\ UNCHANGED <<out, fits, rc, stdout_closed, sections, pc, error, scanVars>>

\* Line 57: "while list_sections.poll() is not None": the body runs only
\* when objdump has already exited.
Poll ==
    /\ pc = "poll"
    /\ pc' = IF objdump = "exited" THEN "comm_loop" ELSE "comm_final"
    /\ UNCHANGED <<out, fits, rc, objdump, stdout_closed, sections, error,
                   scanVars>>

\* communicate() without a timeout and with only stdout piped reads stdout
\* to its end and closes it; read() of the closed file raises ValueError.
\* Lines 58-59 (loop body, back to the poll) and 61-62 (after the loop).
Communicate ==
    /\ pc \in {"comm_loop", "comm_final"}
    /\ \/ /\ stdout_closed
          /\ pc' = "crashed" /\ error' = "ValueError"
          /\ UNCHANGED sections
       \/ /\ ~stdout_closed
          /\ objdump = "exited"
          /\ sections' = sections \o out
          /\ pc' = IF pc = "comm_loop" THEN "poll" ELSE "rc"
          /\ UNCHANGED error
    /\ stdout_closed' = TRUE
    /\ UNCHANGED <<out, fits, rc, objdump, scanVars>>

\* Lines 63-65: a failing objdump ends the script with its status.
CheckStatus ==
    /\ pc = "rc"
    /\ pc' = IF rc = 0 THEN "scan" ELSE "exit"
    /\ UNCHANGED <<out, fits, rc, objdump, stdout_closed, sections, error,
                   scanVars>>

\* Mutant: no break at line 84; the scan goes on past a CFG section.
ScanTokensNoBreak(l) ==
    \/ /\ l.ntok = 0
       /\ UNCHANGED <<pc, error, header, skip_next, section_name, section_size>>
    \/ /\ l.ntok > 0 /\ header
       /\ header' = (l.kind # "idx")
       /\ UNCHANGED <<pc, error, skip_next, section_name, section_size>>
    \/ /\ l.ntok > 0 /\ ~header
       /\ IF l.ntok > 2
          THEN section_name' = l.name /\ section_size' = l.size
          ELSE UNCHANGED <<section_name, section_size>>
       /\ skip_next' = TRUE
       /\ UNCHANGED <<pc, error, header>>

\* Lines 74-78 and 80-85 with the line l, once skip_next is clear.
ScanTokens(l) ==
    \/ /\ l.ntok = 0
       /\ UNCHANGED <<pc, error, header, skip_next, section_name, section_size>>
    \/ /\ l.ntok > 0 /\ header
       /\ header' = (l.kind # "idx")
       /\ UNCHANGED <<pc, error, skip_next, section_name, section_size>>
    \/ /\ l.ntok > 0 /\ ~header
       /\ IF l.ntok > 2
          THEN section_name' = l.name /\ section_size' = l.size
          ELSE UNCHANGED <<section_name, section_size>>
       /\ IF l.ntok > 2 /\ IsCfg(l.name)
          THEN pc' = "lookup_done" /\ UNCHANGED skip_next
          ELSE skip_next' = TRUE /\ UNCHANGED pc
       /\ UNCHANGED <<error, header>>

\* Mutant: skip_next is never tested (line 71 dropped): the flags line
\* after a section is taken for a section and int(tokens[size_index], 16)
\* raises ValueError on a word such as "ALLOC,".
ScanLineNoSkip ==
    /\ pc = "scan"
    /\ i <= Len(sections)
    /\ LET l == sections[i] IN
       \/ /\ l.kind = "flags" /\ l.ntok > 2 /\ ~header
          /\ pc' = "crashed" /\ error' = "ValueError"
          /\ UNCHANGED <<header, skip_next, section_name, section_size>>
       \/ /\ ~(l.kind = "flags" /\ l.ntok > 2 /\ ~header)
          /\ ScanTokens(l)
    /\ i' = i + 1
    /\ UNCHANGED <<out, fits, rc, objdump, stdout_closed, sections>>

\* Lines 69-85, one line of the listing.  The line after a section line is
\* skipped (its flags); before the "Idx Name Size ..." header every line is
\* ignored; after it a line of more than max(name_index, size_index) = 2
\* tokens is a section: its name and int(size, 16) are kept and a ".cfg-"
\* name ends the loop (break, so skip_next is not set).
ScanLine ==
    /\ pc = "scan"
    /\ i <= Len(sections)
    /\ LET l == sections[i] IN
       \/ /\ skip_next
          /\ skip_next' = FALSE
          /\ UNCHANGED <<pc, error, header, section_name, section_size>>
       \/ /\ ~skip_next
          /\ ScanTokens(l)
    /\ i' = i + 1
    /\ UNCHANGED <<out, fits, rc, objdump, stdout_closed, sections>>

\* The for loop runs out of lines without a break.
ScanEnd ==
    /\ pc = "scan"
    /\ i > Len(sections)
    /\ pc' = "lookup_done"
    /\ UNCHANGED <<out, fits, rc, objdump, stdout_closed, sections, error,
                   scanVars>>

\* Line 92: objcopy is called with section_name; with no section line at
\* all the name was never bound and NameError is raised.
UseSection ==
    /\ pc = "lookup_done"
    /\ IF section_name = NoName
       THEN pc' = "crashed" /\ error' = "NameError"
       ELSE pc' = "objcopy" /\ UNCHANGED error
    /\ UNCHANGED <<out, fits, rc, objdump, stdout_closed, sections, scanVars>>

Script == Poll \/ Communicate \/ CheckStatus \/ ScanLine \/ ScanEnd \/ UseSection

Next == ObjdumpExit \/ Script

\* Both are running processes: objdump finishes when it can, the script
\* runs its next statement.
Spec == Init /\ [][Next]_vars /\ WF_vars(ObjdumpExit) /\ WF_vars(Script)

-----------------------------------------------------------------------------
\* The section lines of a listing that name a CFG section.
CfgLines(o) == {j \in DOMAIN o : o[j].kind = "sec" /\ IsCfg(o[j].name)}

\* The first line of a non-empty set of line numbers.
FirstOf(S) == CHOOSE j \in S : \A k \in S : j <= k

\* Line 92 gets the first ".cfg-" section of the listing: the scan must
\* read the listing exactly once, skip the flags lines, start after the
\* header and stop at the first CFG section, so the name and the size
\* passed on (the size for temp.read at line 96) are both that section's.
SelectsFirstCfgSection ==
    pc = "objcopy" /\ CfgLines(out) # {} =>
      LET j == FirstOf(CfgLines(out)) IN
      /\ section_name = out[j].name
      /\ section_size = out[j].size

\* A listing larger than the pipe buffer keeps objdump alive until the
\* script reads it after the loop of line 57, so collecting and scanning
\* it never raises ValueError.
LargeListingNoValueError == ~fits => error # "ValueError"

\* Lines 55-92: whenever objdump lists a CFG section and succeeds, the
\* script gets to objcopy.
LookupCompletes ==
    (CfgLines(out) # {} /\ rc = 0) => <>(pc = "objcopy")

=============================================================================
