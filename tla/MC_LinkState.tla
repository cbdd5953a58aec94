---------------------------- MODULE MC_LinkState -----------------------------
(***************************************************************************)
(* Three routers, as in PA3_initialization.txt: a cycle where the direct   *)
(* link 1-2 costs more than the way by 3, a cycle where it costs the same, *)
(* and a chain, where packets of one end may reach the other before        *)
(* anything leads back to their origin.                                    *)
(***************************************************************************)
EXTENDS LinkState

MCNodes == 1 .. 3

To(d, c) == [dest |-> d, cost |-> c]

Cycle(direct) ==
  <<<<To(2, direct), To(3, 1)>>, <<To(1, direct), To(3, 1)>>, <<To(1, 1), To(2, 1)>>>>
Chain == <<<<To(2, 3)>>, <<To(1, 3), To(3, 1)>>, <<To(2, 1)>>>>

MCTopologies == {Cycle(4), Cycle(2), Chain}
MCMaxSeq == [t \in MCTopologies |-> IF t = Chain THEN 2 ELSE 1]
=============================================================================
