------------------------------- MODULE Typer -------------------------------
(***************************************************************************)
(* src/tools/algorithms/die/typer.py: run d8 on a script with a 30 s       *)
(* timeout, parse the "~~~TypeInfo:<loc>:<json>" lines of its output and   *)
(* merge the types seen at each location, then write the records as JSON   *)
(* when there is at least one.                                             *)
(*                                                                         *)
(* An output line is a record: a TypeInfo line with its location and the   *)
(* type json.loads returns ("info"), one whose JSON does not parse ("bad", *)
(* only the line a timeout cut), or any other line ("other").  Types are   *)
(* records [type |-> ...] as d8 prints them; "mixed" is the merged form    *)
(* the script builds.                                                      *)
(***************************************************************************)
EXTENDS Naturals, Sequences, SequencesExt, Functions, TLC

CONSTANTS Outputs,   \* the full outputs d8 may print
          NoOutput,  \* e.output of a timeout before d8 printed anything
          NoFile     \* type_path not written

Other == [kind |-> "other"]

\* What a line cut by the kill of a timeout can be: a cut TypeInfo line
\* either no longer matches the pattern or holds truncated JSON.
Partials(l) ==
    IF l.kind = "info" THEN {Other, [kind |-> "bad", loc |-> l.loc]}
    ELSE {Other}

\* Lines 86-91: the output check_output returns or the exception carries.
\* A timeout yields what was read up to the kill, cut inside a line.
D8Results(o) ==
    {o} \cup UNION {{Append(SubSeq(o, 1, n), p) : p \in Partials(o[n + 1])} :
                      n \in 0..(Len(o) - 1)}

\* Mutant: a type already listed in a mixed record is appended again.
MergeTypeNoDedup(rec, t) ==
    CASE rec.type = "mixed" -> [rec EXCEPT !.extra.subTypes = Append(@, t)]
      [] rec # t -> [type |-> "mixed", extra |-> [subTypes |-> <<t, rec>>]]
      [] OTHER -> rec

\* Mutant: a mixed record is mixed again instead of extended.
MergeTypeNested(rec, t) ==
    IF rec # t THEN [type |-> "mixed", extra |-> [subTypes |-> <<t, rec>>]]
    ELSE rec

\* Lines 45-72: merge the type t seen again at a location into its record.
MergeType(rec, t) ==
    CASE rec.type = "mixed" ->
           IF t \in ToSet(rec.extra.subTypes) THEN rec
           ELSE [rec EXCEPT !.extra.subTypes = Append(@, t)]
      [] rec # t -> [type |-> "mixed", extra |-> [subTypes |-> <<t, rec>>]]
      [] OTHER -> rec

VARIABLES output,   \* what line 93 passes to parse
          k,        \* the index of the for loop of line 30
          records,  \* location -> record
          file,     \* the contents of type_path
          pc        \* "run", "parse", "return", "done", "crashed"

vars == <<output, k, records, file, pc>>

Init ==
    /\ output = NoOutput /\ k = 1 /\ records = <<>>
    /\ file = NoFile
    /\ pc = "run"

\* Lines 83-93: run d8; parse(None) raises AttributeError at line 30.
RunD8 ==
    /\ pc = "run"
    /\ \/ \E o \in Outputs : output' \in D8Results(o) /\ pc' = "parse"
       \/ output' = NoOutput /\ pc' = "crashed"
    /\ UNCHANGED <<k, records, file>>

\* Mutant: a line whose JSON does not parse is skipped.
ParseLineSkipBad ==
    /\ pc = "parse" /\ k <= Len(output)
    /\ LET l == output[k] IN
       \/ l.kind \in {"other", "bad"} /\ UNCHANGED <<records, pc>>
       \/ /\ l.kind = "info"
          /\ records' = IF l.loc \in DOMAIN records
                        THEN [records EXCEPT ![l.loc] = MergeType(@, l.ti)]
                        ELSE records @@ (l.loc :> l.ti)
          /\ UNCHANGED pc
    /\ k' = k + 1
    /\ UNCHANGED <<output, file>>

\* Lines 30-72, one line: skip it when the pattern does not match, return
\* {} when its JSON does not parse, else record or merge its type.
ParseLine ==
    /\ pc = "parse" /\ k <= Len(output)
    /\ LET l == output[k] IN
       \/ l.kind = "other" /\ UNCHANGED <<records, pc>>
       \/ l.kind = "bad" /\ records' = <<>> /\ pc' = "return"
       \/ /\ l.kind = "info"
          /\ records' = IF l.loc \in DOMAIN records
                        THEN [records EXCEPT ![l.loc] = MergeType(@, l.ti)]
                        ELSE records @@ (l.loc :> l.ti)
          /\ UNCHANGED pc
    /\ k' = k + 1
    /\ UNCHANGED <<output, file>>

\* Line 74: every line is parsed.
ParseEnd ==
    /\ pc = "parse" /\ k > Len(output)
    /\ pc' = "return"
    /\ UNCHANGED <<output, k, records, file>>

\* Lines 94-96: the records are written only when there is one.
Write ==
    /\ pc = "return"
    /\ file' = IF records = <<>> THEN NoFile ELSE records
    /\ pc' = "done"
    /\ UNCHANGED <<output, k, records>>

\* The script has exited.
Exited == pc \in {"done", "crashed"} /\ UNCHANGED vars

Next == RunD8 \/ ParseLine \/ ParseEnd \/ Write \/ Exited

Spec == Init /\ [][Next]_vars

-----------------------------------------------------------------------------
\* The TypeInfo lines of an output, the locations they name and the types
\* they report at a location.
InfoLines(o) == {n \in DOMAIN o : o[n].kind = "info"}
LocsIn(o) == {o[n].loc : n \in InfoLines(o)}
SeenAt(o, loc) == {o[n].ti : n \in {m \in InfoLines(o) : o[m].loc = loc}}
TypesIn == UNION {{o[n].ti : n \in InfoLines(o)} : o \in Outputs}

\* The types a record stands for.
Denote(rec) ==
    IF rec.type = "mixed" THEN ToSet(rec.extra.subTypes) ELSE {rec}

TypeOK ==
    /\ output = NoOutput \/ k \in 1..(Len(output) + 1)
    /\ \A loc \in DOMAIN records :
         \/ records[loc] \in TypesIn
         \/ /\ records[loc].type = "mixed"
            /\ ToSet(records[loc].extra.subTypes) \subseteq TypesIn
    /\ file = NoFile \/ DOMAIN file # {}
    /\ pc \in {"run", "parse", "return", "done", "crashed"}

\* The merge of lines 45-72 keeps, for every location read so far, exactly
\* the distinct types reported there: a type seen again is not added twice
\* (the for/else of lines 52-58) and mixing keeps the first type.
RecordsAreSeenTypes ==
    pc = "parse" =>
      LET read == SubSeq(output, 1, k - 1) IN
      /\ DOMAIN records = LocsIn(read)
      /\ \A loc \in DOMAIN records :
           /\ Denote(records[loc]) = SeenAt(read, loc)
           /\ records[loc].type = "mixed" =>
                IsInjective(records[loc].extra.subTypes)

\* All or nothing (line 42): the type file is written exactly when every
\* line of d8's output parsed and one of them is a TypeInfo line, and then
\* it holds every type of the output; a TypeInfo line cut by the timeout
\* of line 87 discards the types already collected.
FileIsAllOrNothing ==
    pc = "done" =>
      /\ file # NoFile <=>
           (\A n \in DOMAIN output : output[n].kind # "bad")
           /\ LocsIn(output) # {}
      /\ file # NoFile =>
           /\ DOMAIN file = LocsIn(output)
           /\ \A loc \in DOMAIN file : Denote(file[loc]) = SeenAt(output, loc)

=============================================================================
