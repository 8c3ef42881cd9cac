\* Every three-block CFG: does remove_cycles leave it acyclic?
CONSTANTS CFGs <- MCCyclic
          Prior <- MCPrior
SPECIFICATION Spec
INVARIANT LeavesAcyclic
