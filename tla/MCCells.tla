------------------------------ MODULE MCCells ------------------------------
(***************************************************************************)
(* Two threads and the others; the index of a validator and the keys of    *)
(* another, or one of them and a hash.                                     *)
(***************************************************************************)
EXTENDS Cells

CellOf(k, v) == [kind |-> k, of |-> v]
AllCells == {CellOf("index", "v"), CellOf("keys", "w"), CellOf("hash", "v")}
TwoAtOnce == {{CellOf("index", "v"), CellOf("hash", "v")}, {CellOf("index", "v"), CellOf("keys", "w")}}
=============================================================================
