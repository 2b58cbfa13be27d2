------------------------------- MODULE MCMesh -------------------------------
(* Mesh for TLC: joiners are interchangeable. *)
EXTENDS Mesh, TLC

JoinerSymmetry == Permutations(Joiners)
=============================================================================
