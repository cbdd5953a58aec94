------------------------------- MODULE MC_P2P --------------------------------
(***************************************************************************)
(* An instance of P2PSystem: two clients that offer a file of one name,    *)
(* and a third that comes with the name of the second.  There are up to    *)
(* two records, and a connection holds one: a listing blocks with the      *)
(* mutex held until its client reads.  Two clients list, so that the death *)
(* of one, and of the server with it, can meet the listing of the other.   *)
(***************************************************************************)
EXTENDS P2PSystem, TLC

MCNameOf == ("ann" :> "ann") @@ ("bob" :> "bob") @@ ("bob2" :> "bob")
MCFilesOf == ("ann" :> {"notes", "."}) @@ ("bob" :> {"notes", "plan"}) @@ ("bob2" :> {})
MCMaxLs == ("ann" :> 1) @@ ("bob" :> 1) @@ ("bob2" :> 0)
=============================================================================
