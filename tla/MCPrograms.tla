---------------------------- MODULE MCPrograms ----------------------------
(***************************************************************************)
(* Clients over four texts, the last of which does not compile: two of the *)
(* others fit one schema, three do not.                                    *)
(***************************************************************************)
EXTENDS Programs, TLC

Texts     == {"v", "x", "y", "z"}
Weights   == [t \in Texts |-> IF t = "v" THEN 3 ELSE 2]
Broken    == {"z"}
Asked     == {<<"x", "x", "y">>, <<"x", "v", "y">>, <<"v">>, <<"y", "z">>}
Symmetric == Permutations(Client)
=============================================================================
