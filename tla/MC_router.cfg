SPECIFICATION FairSpec
CONSTANTS
  Nodes <- MCNodes
  Topologies <- MCTopologies
  MaxSeq <- MCMaxSeq
  CanStop = TRUE
INVARIANT TypeOK
INVARIANT BestOverHeardLinks
INVARIANT FloodReaches
PROPERTY RoutesOnlyImprove
PROPERTY Converges
PROPERTY StopsTogether
CHECK_DEADLOCK FALSE
