------------------------------- MODULE MCScull -------------------------------
(* Scull, instantiated for TLC.  Threads and files are interchangeable. *)
EXTENDS Scull, TLC

Symmetry == Permutations(Thread) \cup Permutations(File)
=============================================================================
