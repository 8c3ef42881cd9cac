\* One function: remove_cycles, then the block weights.
CONSTANTS CFGs <- MCCFGs
          Prior <- MCPrior
SPECIFICATION Spec
INVARIANTS TypeOK WeightsFollowPredecessors
PROPERTY RemoveCyclesReturns
