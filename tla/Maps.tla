-------------------------------- MODULE Maps ---------------------------------
(***************************************************************************)
(* Maps with a changing domain, as the tries and the file lists of PA4 are *)
(* used: an entry put under a key hides the one that was there.            *)
(***************************************************************************)

\* g with f laid over it.
Over(f, g) == [x \in DOMAIN f \cup DOMAIN g |-> IF x \in DOMAIN f THEN f[x] ELSE g[x]]

\* g with v put under x.
WithEntry(g, x, v) == [y \in DOMAIN g \cup {x} |-> IF y = x THEN v ELSE g[y]]
=============================================================================
