-------------------------------- MODULE MCMirror --------------------------------
(* Two bodies; one file in the folder and one beside it. *)
EXTENDS Mirror
CONSTANTS f, g, a, b
Two == {f, g}
Inner == {f}
Bodies == {a, b}
=============================================================================
