------------------------------ MODULE MCEspOta ------------------------------
(***************************************************************************)
(* EspOta with two interchangeable update handles.                         *)
(***************************************************************************)
EXTENDS EspOta, TLC

HandleSymmetry == Permutations(Handles)
============================================================================
