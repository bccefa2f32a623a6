------------------------------- MODULE MCPcdOf -------------------------------
(* PcdOf, instantiated for TLC: every call of the driver may fail. *)
EXTENDS PcdOf

AnyCall == {"region", "class", "register", "memory", "cdev", "node"}
=============================================================================
