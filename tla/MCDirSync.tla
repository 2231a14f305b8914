------------------------------ MODULE MCDirSync ------------------------------
(* Two folders at the top and one below the first. *)
EXTENDS DirSync
F == <<"F">>
G == <<"F", "G">>
H == <<"H">>
Nested == {F, G}
Three == {F, G, H}
=============================================================================
