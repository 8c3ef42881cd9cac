\* gen_graph.py from the parsed section to its last output file, on every
\* section of up to four lines and on every CFG over three blocks.
CONSTANT Inputs <- MCAllInputs
CONSTANT NoFile = NoFile
SPECIFICATION Spec
INVARIANT TypeOK
INVARIANT ListsConsistent
INVARIANT PickleIsAcyclicResidual
INVARIANT OutputsDescribeInputCFG
INVARIANT CentralityIsScaledKatz
\* The script exits after its last file (or after the crash of line 156).
CHECK_DEADLOCK FALSE
