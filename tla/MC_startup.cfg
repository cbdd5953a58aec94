SPECIFICATION FairSpec
CONSTANTS
  Nodes <- MCNodes
  Neighbors <- MCNeighbors
  MaxStarts <- MCMaxStarts
INVARIANTS TypeOK NeverCrossed
PROPERTIES MismatchEnds StartsUp
CHECK_DEADLOCK FALSE
