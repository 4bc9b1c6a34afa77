------------------------------ MODULE MCI2CBus ------------------------------
(***************************************************************************)
(* Transfers for TLC: a write and a read that need the FIFO several times, *)
(* and a read that fits into it.                                           *)
(***************************************************************************)
EXTENDS I2CBus

MCTransfers == {<<3, 0>>, <<1, 4>>, <<1, 1>>}
=============================================================================
