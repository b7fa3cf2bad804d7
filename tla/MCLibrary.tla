------------------------------ MODULE MCLibrary ------------------------------
(***************************************************************************)
(* Library for TLC.                                                        *)
(***************************************************************************)
EXTENDS Library, TLC

CONSTANT a1
=============================================================================
