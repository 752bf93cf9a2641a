--------------------------- MODULE MCTokenFactory ---------------------------
(* Account "alice" has two spellings; "tf1" is the module account. *)
EXTENDS TokenFactory

MCAccOf == [s \in Strings |-> IF s = "tf1" THEN "tokenfactory" ELSE IF s = "bob1" THEN "bob" ELSE "alice"]

MCNative == {<<"bank", "unibi">>}
=============================================================================
