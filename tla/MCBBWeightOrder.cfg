\* Every call graph over three functions: is every function processed
\* after all its callers?
CONSTANTS FuncOrder <- MCFuncOrder
          CallGraphs <- MCCallGraphs
          NoFile = NoFile
SPECIFICATION Spec
INVARIANT EntryWeightCoversAllCallers
