\* A chain whose blocks cfg.graph.nodes() yields against the edge order.
CONSTANTS CFGs <- MCChain
          Prior <- MCPrior
SPECIFICATION Spec
INVARIANT AllBlocksWeighted
