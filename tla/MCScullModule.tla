---------------------------- MODULE MCScullModule ----------------------------
(* ScullModule, instantiated for TLC.  Open files are interchangeable. *)
EXTENDS ScullModule, TLC

Symmetry == Permutations(File)
=============================================================================
