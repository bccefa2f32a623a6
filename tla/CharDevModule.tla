---------------------------- MODULE CharDevModule ----------------------------
(***************************************************************************)
(* Loading and unloading of char_demo.ko, which is built from              *)
(* 06_char_dirver_multiple ("four") or from 03_char_driver ("one"); the    *)
(* loader has one module of a name at a time, and the next insmod may      *)
(* bring the other build.  hello_init takes a region of device numbers, a  *)
(* class, and a cdev and a node for every device, each build in an order   *)
(* of its own; each of these can fail, and then everything taken so far is *)
(* given back.  hello_exit gives it all back.  Each kernel call is a step, *)
(* and users open devices in between.                                      *)
(***************************************************************************)
EXTENDS Integers

CONSTANTS
  File,         \* open-file slots
  NoDevice,     \* the device of a closed file
  MINOR_COUNT,  \* devices of the build "four"
  Failures      \* which of "region", "class", "cdev", "device" occur

ASSUME CharDevModuleAssumption ==
  /\ MINOR_COUNT \in Nat \ {0}
  /\ NoDevice \notin 0 .. MINOR_COUNT - 1
  /\ Failures \subseteq {"region", "class", "cdev", "device"}

VARIABLES
  build,   \* what the module was built from: "one" or "four"
  module,  \* "absent", "coming", "live" or "going"
  pc,      \* the point init or exit has reached
  i,       \* minorDevLoopCount
  failed,  \* whether ret is negative
  region,  \* whether the region of device numbers is registered
  class,   \* whether the class exists
  cdevs,   \* devices whose cdev is in the kernel's map
  nodes,   \* devices that have a node under /dev
  open     \* the device each file is open on, or NoDevice

vars == <<build, module, pc, i, failed, region, class, cdevs, nodes, open>>

Index == 0 .. MINOR_COUNT - 1
Served == IF build = "one" THEN {0} ELSE Index
AllClosed == \A f \in File : open[f] = NoDevice

Init ==
  /\ build \in {"one", "four"}
  /\ module = "absent"
  /\ pc = "none"
  /\ i = 0
  /\ failed = FALSE
  /\ region = FALSE
  /\ class = FALSE
  /\ cdevs = {}
  /\ nodes = {}
  /\ open = [f \in File |-> NoDevice]

-----------------------------------------------------------------------------
(* insmod: hello_init of 06. *)

\* What happens to a file whose module has been freed is not modelled.
Insmod ==
  /\ module = "absent"
  /\ AllClosed
  /\ module' = "coming"
  /\ build' \in {"one", "four"}
  /\ pc' = IF build' = "one" THEN "one_region" ELSE "region"
  /\ i' = 0
  /\ failed' = FALSE
  /\ UNCHANGED <<region, class, cdevs, nodes, open>>

AllocRegion ==
  /\ pc = "region"
  /\ region' = TRUE
  /\ pc' = "class"
  /\ UNCHANGED <<build, module, i, failed, class, cdevs, nodes, open>>

CreateClass ==
  /\ pc = "class"
  /\ class' = TRUE
  /\ pc' = "cdev"
  /\ UNCHANGED <<build, module, i, failed, region, cdevs, nodes, open>>

\* Mutant of AddCdev: the loop runs once too often.
AddCdev_OneMore ==
  /\ pc = "cdev"
  /\ i <= MINOR_COUNT
  /\ cdevs' = cdevs \cup {i}
  /\ pc' = "device"
  /\ UNCHANGED <<build, module, i, failed, region, class, nodes, open>>

AddCdev ==
  /\ pc = "cdev"
  /\ i < MINOR_COUNT
  /\ cdevs' = cdevs \cup {i}
  /\ pc' = "device"
  /\ UNCHANGED <<build, module, i, failed, region, class, nodes, open>>

CreateDevice ==
  /\ pc = "device"
  /\ nodes' = nodes \cup {i}
  /\ i' = i + 1
  /\ pc' = "cdev"
  /\ UNCHANGED <<build, module, failed, region, class, cdevs, open>>

\* Mutant of GiveUp: the unwinding starts below the index that failed.
GiveUp_BelowFailed(what, at, to) ==
  /\ what \in Failures
  /\ pc = at
  /\ failed' = TRUE
  /\ i' = IF to = "destroy" THEN i - 1 ELSE i
  /\ pc' = to
  /\ UNCHANGED <<build, module, region, class, cdevs, nodes, open>>

\* The call at the point "at" fails, and init goes on at the label "to".
GiveUp(what, at, to) ==
  /\ what \in Failures
  /\ pc = at
  /\ failed' = TRUE
  /\ pc' = to
  /\ UNCHANGED <<build, module, i, region, class, cdevs, nodes, open>>

RegionFails == GiveUp("region", "region", "return")
ClassFails == GiveUp("class", "class", "unregister")
CdevFails == i < MINOR_COUNT /\ GiveUp("cdev", "cdev", "destroy")
DeviceFails == GiveUp("device", "device", "destroy")

\* The loader keeps the module when init returns 0, and frees it otherwise.
InitReturns ==
  /\ module = "coming"
  /\ pc = "return" \/ (pc = "cdev" /\ i = MINOR_COUNT)
  /\ module' = IF failed THEN "absent" ELSE "live"
  /\ pc' = "none"
  /\ UNCHANGED <<build, i, failed, region, class, cdevs, nodes, open>>

-----------------------------------------------------------------------------
(* insmod: hello_init of 03.  The one cdev is live before the class exists; *)
(* a failure enters the chain of labels at the one for what was taken last. *)

OneAllocRegion ==
  /\ pc = "one_region"
  /\ region' = TRUE
  /\ pc' = "one_cdev"
  /\ UNCHANGED <<build, module, i, failed, class, cdevs, nodes, open>>

OneAddCdev ==
  /\ pc = "one_cdev"
  /\ cdevs' = {0}
  /\ pc' = "one_class"
  /\ UNCHANGED <<build, module, i, failed, region, class, nodes, open>>

OneCreateClass ==
  /\ pc = "one_class"
  /\ class' = TRUE
  /\ pc' = "one_device"
  /\ UNCHANGED <<build, module, i, failed, region, cdevs, nodes, open>>

OneCreateDevice ==
  /\ pc = "one_device"
  /\ nodes' = {0}
  /\ pc' = "return"
  /\ UNCHANGED <<build, module, i, failed, region, class, cdevs, open>>

\* Mutant of OneFails: a failed device_create skips the label CLASS_DEL.
OneFails_SkipsClass ==
  \/ GiveUp("region", "one_region", "return")
  \/ GiveUp("cdev", "one_cdev", "unregister")
  \/ GiveUp("class", "one_class", "CDEV_DEL")
  \/ GiveUp("device", "one_device", "CDEV_DEL")

OneFails ==
  \/ GiveUp("region", "one_region", "return")
  \/ GiveUp("cdev", "one_cdev", "unregister")
  \/ GiveUp("class", "one_class", "CDEV_DEL")
  \/ GiveUp("device", "one_device", "CLASS_DEL")

-----------------------------------------------------------------------------
(* Giving back: in 06 after a failure from the failed index down, and in    *)
(* hello_exit from 0 up; in 03 hello_exit makes the calls of the labels.    *)

\* The cdevs' owner is the module: rmmod waits for their files to be closed.
Rmmod ==
  /\ module = "live"
  /\ AllClosed
  /\ module' = "going"
  /\ i' = 0
  /\ pc' = IF build = "one" THEN "one_destroy" ELSE "destroy"
  /\ UNCHANGED <<build, failed, region, class, cdevs, nodes, open>>

\* device_destroy; of a device that was never created it does nothing.
DestroyDevice ==
  /\ pc = "destroy"
  /\ i \in Index
  /\ nodes' = nodes \ {i}
  /\ pc' = "del"
  /\ UNCHANGED <<build, module, i, failed, region, class, cdevs, open>>

\* Mutant of DelCdev: the unwinding counts the wrong way.
DelCdev_StaysAtZero ==
  /\ pc = "del"
  /\ cdevs' = cdevs \ {i}
  /\ i' = IF module = "going" THEN i + 1 ELSE IF i > 0 THEN i - 1 ELSE 0
  /\ pc' = "destroy"
  /\ UNCHANGED <<build, module, failed, region, class, nodes, open>>

\* cdev_del; of a cdev that was never added it does nothing.
DelCdev ==
  /\ pc = "del"
  /\ cdevs' = cdevs \ {i}
  /\ i' = IF module = "going" THEN i + 1 ELSE i - 1
  /\ pc' = "destroy"
  /\ UNCHANGED <<build, module, failed, region, class, nodes, open>>

DestroyClass ==
  /\ pc = "destroy"
  /\ i \notin Index
  /\ class' = FALSE
  /\ pc' = "unregister"
  /\ UNCHANGED <<build, module, i, failed, region, cdevs, nodes, open>>

OneDestroyDevice ==
  /\ pc = "one_destroy"
  /\ nodes' = {}
  /\ pc' = "CLASS_DEL"
  /\ UNCHANGED <<build, module, i, failed, region, class, cdevs, open>>

OneDestroyClass ==
  /\ pc = "CLASS_DEL"
  /\ class' = FALSE
  /\ pc' = "CDEV_DEL"
  /\ UNCHANGED <<build, module, i, failed, region, cdevs, nodes, open>>

OneDelCdev ==
  /\ pc = "CDEV_DEL"
  /\ cdevs' = {}
  /\ pc' = "unregister"
  /\ UNCHANGED <<build, module, i, failed, region, class, nodes, open>>

\* unregister_chrdev_region, the last call of both exits: the module is freed.
UnregisterRegion ==
  /\ pc = "unregister"
  /\ region' = FALSE
  /\ IF module = "going" THEN module' = "absent" /\ pc' = "none"
                         ELSE pc' = "return" /\ UNCHANGED module
  /\ UNCHANGED <<build, i, failed, class, cdevs, nodes, open>>

-----------------------------------------------------------------------------
(* Users.  A device can be opened as soon as its cdev is added, also while  *)
(* the module is coming; the file keeps rmmod out, but not the loader that  *)
(* frees a module whose init has failed.                                    *)

UserOpen(f) == \E m \in cdevs :
  /\ module \in {"coming", "live"}
  /\ open[f] = NoDevice
  /\ open' = [open EXCEPT ![f] = m]
  /\ UNCHANGED <<build, module, pc, i, failed, region, class, cdevs, nodes>>

UserClose(f) ==
  /\ open[f] # NoDevice
  /\ open' = [open EXCEPT ![f] = NoDevice]
  /\ UNCHANGED <<build, module, pc, i, failed, region, class, cdevs, nodes>>

OneStep ==
  \/ OneAllocRegion   \/ OneAddCdev      \/ OneCreateClass \/ OneCreateDevice
  \/ OneFails         \/ OneDestroyDevice \/ OneDestroyClass \/ OneDelCdev

LoadStep ==
  \/ OneStep
  \/ AllocRegion   \/ CreateClass \/ AddCdev      \/ CreateDevice
  \/ RegionFails   \/ ClassFails  \/ CdevFails    \/ DeviceFails
  \/ InitReturns   \/ DestroyDevice \/ DelCdev
  \/ DestroyClass  \/ UnregisterRegion

Next ==
  \/ Insmod \/ Rmmod \/ LoadStep
  \/ \E f \in File : UserOpen(f) \/ UserClose(f)

Spec == Init /\ [][Next]_vars

\* insmod and rmmod run on without waiting for anybody.
FairSpec == Spec /\ WF_vars(LoadStep)

-----------------------------------------------------------------------------
(* Properties. *)

Points == {"none", "region", "class", "cdev", "device", "destroy", "del",
           "unregister", "return", "one_region", "one_cdev", "one_class",
           "one_device", "one_destroy", "CLASS_DEL", "CDEV_DEL"}

\* Every variable keeps its type; the loop index stays within one of its range.
TypeOK ==
  /\ build \in {"one", "four"}
  /\ module \in {"absent", "coming", "live", "going"}
  /\ pc \in Points
  /\ i \in -1 .. MINOR_COUNT
  /\ failed \in BOOLEAN
  /\ region \in BOOLEAN
  /\ class \in BOOLEAN
  /\ cdevs \subseteq Index
  /\ nodes \subseteq Index
  /\ open \in [File -> Index \cup {NoDevice}]

\* Whichever call of init failed, and after exit, the kernel keeps nothing of the
\* driver: no cdev, no node, no class, no region.
NothingLeft ==
  module = "absent" => cdevs = {} /\ nodes = {} /\ ~class /\ ~region

\* A node under /dev always leads to a cdev, a node always has its class, and a
\* cdev a region that reserves its number, whatever is going up or down.
NodesBacked ==
  /\ nodes \subseteq cdevs
  /\ nodes # {} => class
  /\ cdevs # {} => region

\* A loaded driver serves all the devices of its build: init skips none.
LoadedIsComplete == module = "live" => cdevs = Served /\ nodes = Served

Region == <<"region", 0>>
Class == <<"class", 0>>
Resource == {Region, Class} \cup ({"cdev", "node"} \X Index)
Needs == {<<<<"cdev", k>>, Region>> : k \in Index}
  \cup {<<<<"node", k>>, Class>> : k \in Index}
  \cup {<<<<"node", k>>, <<"cdev", k>>>> : k \in Index}

\* What a load plans to hold, what is held, and how far the load has come.
Plan == {Region, Class} \cup ({"cdev", "node"} \X Served)
Held == {r \in {Region} : region} \cup {r \in {Class} : class}
  \cup ({"cdev"} \X cdevs) \cup ({"node"} \X nodes)
Status == IF module = "coming" /\ failed THEN "failing" ELSE module

Loading == INSTANCE Lifecycle WITH
  Resource <- Resource, Needs <- Needs, status <- Status, plan <- Plan, held <- Held

\* Both builds keep the lifecycle of a driver: while a load goes on things are only
\* taken, each after what it needs; once a call has failed, and in exit, they are
\* only given back, each before what it needs, until none is left.
LifecycleSpec == Loading!Spec

\* Every insmod and rmmod comes to an end, its unwinding loop included.
LoadEnds == pc # "none" ~> pc = "none"
=============================================================================
