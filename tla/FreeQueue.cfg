SPECIFICATION Spec
CONSTANTS
  NumBlocks = 4
  None = None
INVARIANT CountAgrees
PROPERTIES
  ImplementsQueue
