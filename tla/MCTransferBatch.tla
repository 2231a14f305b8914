--------------------------- MODULE MCTransferBatch ---------------------------
(* b (empty) and c (larger than the byte budget) go to folder F, d is sent   *)
(* in chunks to F/G, and watch mode renames a file into F (m).               *)
EXTENDS TransferBatch, TLC

MCItems == <<"b", "d", "c">>
MCHow == [f \in Tasks |-> CASE f = "d" -> "chunked" [] f = "m" -> "move" [] OTHER -> "put"]
MCAbove == [f \in Tasks |-> IF f = "d" THEN <<"F", "F/G">> ELSE <<"F">>]
MCBytes == [f \in Tasks |-> CASE f = "b" -> 0 [] f = "c" -> 5 [] OTHER -> 2]
=============================================================================
