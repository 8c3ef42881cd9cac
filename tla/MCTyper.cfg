\* typer.py over every d8 output of up to four lines, each either complete,
\* cut by the timeout inside a line, or absent.
CONSTANT Outputs <- MCOutputs
CONSTANT NoOutput = NoOutput
CONSTANT NoFile = NoFile
SPECIFICATION Spec
INVARIANT TypeOK
INVARIANT RecordsAreSeenTypes
INVARIANT FileIsAllOrNothing
\* The script exits: written, nothing written, or crashed.
CHECK_DEADLOCK FALSE
