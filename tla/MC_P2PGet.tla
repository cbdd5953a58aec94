----------------------------- MODULE MC_P2PGet -------------------------------
(***************************************************************************)
(* Three peers: ann has three bytes under the name, bob two, cyd none and  *)
(* a directory it cannot write to.                                         *)
(***************************************************************************)
EXTENDS P2PGet, TLC

MCOriginal == ("ann" :> <<"a1", "a2", "a3">>) @@ ("bob" :> <<"b1", "b2">>) @@ ("cyd" :> NoFile)
MCSources == ("ann" :> {"ann", "bob"}) @@ ("bob" :> {"ann", "cyd"}) @@ ("cyd" :> {"ann", "bob"})
MCMaxGets == ("ann" :> 1) @@ ("bob" :> 1) @@ ("cyd" :> 1)
=============================================================================
