-------------------------------- MODULE MCPcd --------------------------------
(* Pcd, instantiated for TLC: every call that the two modules make may fail. *)
EXTENDS Pcd

AnyCall == {"region", "class", "register", "device", "memory", "cdev", "node"}
=============================================================================
