------------------------------ MODULE MCPlcIO ------------------------------
(***************************************************************************)
(* PlcIO with calls for none to three bytes.                               *)
(***************************************************************************)
EXTENDS PlcIO

MCCounts == {0, 1, 3}
=============================================================================
