--------------------------- MODULE MCCharDevModule ---------------------------
(* CharDevModule, instantiated for TLC: the four devices of the source, and *)
(* every kernel call that hello_init makes may fail.                        *)
EXTENDS CharDevModule

Devices == 4
AnyCall == {"region", "class", "cdev", "device"}
=============================================================================
