------------------------------ MODULE MCAlloc -------------------------------
(***************************************************************************)
(* A small instance of MmvAlloc: chunks of 6 units with a header of 1,     *)
(* requests of which one, two or five fill a chunk and one that only the   *)
(* memory of a large table can take, tables that begin smaller than a      *)
(* chunk and become larger than one.                                       *)
(***************************************************************************)
EXTENDS MmvAlloc

MCRequest   == {1, 3, 5, 7}
MCTableSize == {2, 4}
=============================================================================
