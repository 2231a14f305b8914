---------------------------- MODULE MCVaultSession ----------------------------
(* Two or three files, two bodies. *)
EXTENDS VaultSession
CONSTANTS f, g, h, a, b
Two == {f, g}
Three == {f, g, h}
Bodies == {a, b}
=============================================================================
