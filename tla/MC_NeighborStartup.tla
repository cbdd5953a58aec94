------------------------- MODULE MC_NeighborStartup --------------------------
(***************************************************************************)
(* Three routers on a cycle, one of which may be started a second time.    *)
(***************************************************************************)
EXTENDS NeighborStartup

MCNodes == 1 .. 3
MCNeighbors == [r \in MCNodes |-> MCNodes \ {r}]
MCMaxStarts == [r \in MCNodes |-> IF r = 1 THEN 2 ELSE 1]
=============================================================================
