-------------------------- MODULE MCL2OutputOracle --------------------------
(***************************************************************************)
(* Small instances of L2OutputOracle for TLC.                              *)
(***************************************************************************)
EXTENDS L2OutputOracle

CONSTANTS alice, bob, genesis, next
=============================================================================
