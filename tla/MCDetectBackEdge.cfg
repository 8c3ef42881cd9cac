CONSTANT InputGraphs <- MCInputGraphs
SPECIFICATION Spec
INVARIANT TypeOK
PROPERTY ImplementsCycleBreak
