------------------------------ MODULE MCCharDev ------------------------------
(* CharDev, instantiated for TLC: one device of each kind, or one that takes *)
(* any mode (03_char_driver's device, and device3 and device4 of 06).        *)
EXTENDS CharDev, TLC

CONSTANTS ro, wo, rw   \* names of devices

AllKinds == (ro :> "RDONLY") @@ (wo :> "WRONLY") @@ (rw :> "RDWR")
OnlyRdwr == rw :> "RDWR"

BackAndForth == {-1, 1}

Symmetry == Permutations(Thread) \cup Permutations(File)
=============================================================================
