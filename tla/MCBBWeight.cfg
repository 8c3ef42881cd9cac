CONSTANTS FuncOrder <- MCFuncOrder
          CallGraphs <- MCCallGraphs
          NoFile = NoFile
SPECIFICATION Spec
INVARIANT TypeOK
PROPERTY AllFunctionsProcessed
