------------------------------- MODULE MCPlugins -------------------------------
(* A version, its successor, and a rebuild under the successor's number. *)
EXTENDS Plugins, TLC
CONSTANTS v1, v2, w2
Bodies == {v1, v2, w2}
Numbers == v1 :> 1 @@ v2 :> 2 @@ w2 :> 2
Newest == {w2}
=============================================================================
