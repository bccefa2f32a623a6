--------------------------------- MODULE Pcd ---------------------------------
(***************************************************************************)
(* The platform driver of 07_platform: the module pcd, which registers the *)
(* driver, and the module setup (pcd_device_setup), which registers the    *)
(* devices.  Each is loaded and unloaded by a thread of its own, in any    *)
(* order and at the same time, and either thread may be the one in which   *)
(* the platform core calls the driver's probe or remove.                   *)
(*                                                                         *)
(* The core is modelled from how the two modules use it: it binds a device *)
(* to the driver when the second of them is registered, unbinds it when    *)
(* the first is unregistered, and holds the device's lock meanwhile.  A    *)
(* device that is being taken away is probed no more.                      *)
(***************************************************************************)
EXTENDS Integers, FiniteSets

CONSTANTS
  File,      \* open-file slots
  NoDevice,  \* the device of a closed file
  NDEVS,     \* devices in platform_pcdevs
  Drift,     \* bound: setup is loaded only while total_devices is within it
  Failures   \* which of "region", "class", "register", "device", "memory",
             \* "cdev", "node" occur

ASSUME PcdAssumption ==
  /\ NDEVS \in Nat \ {0}
  /\ Drift \in Nat
  /\ NoDevice \notin 0 .. NDEVS - 1
  /\ Failures \subseteq {"region", "class", "register", "device", "memory", "cdev", "node"}

Module == {"pcd", "setup"}
Dev == 0 .. NDEVS - 1
Resource == {"data", "buffer", "cdev", "node"}

VARIABLES
  loaded,    \* each module: "absent", "coming", "live" or "going"
  pc,        \* the point its thread has reached
  at,        \* the device its thread is at
  region,    \* whether the region of device numbers is registered
  class,     \* whether pcd_class exists
  driver,    \* whether the core finds the driver
  devices,   \* devices the core finds
  bound,     \* devices bound to the driver
  rejected,  \* history: devices whose last probe failed
  has,       \* each device: what probe has taken for it and is not given back
  total,     \* pcdrv_data.total_devices
  reg,       \* what a thread has read of it
  open,      \* the device each file is open on, or NoDevice
  fault      \* a device that is not registered was unregistered

numbers == <<region, class>>
core    == <<driver, devices, bound, rejected>>
counter == <<total, reg>>
rest    == <<open, fault>>
vars    == <<loaded, pc, at, numbers, core, has, counter, rest>>

AllClosed == \A f \in File : open[f] = NoDevice

ProbePoints == Resource \cup {"count", "counted", "cdev_del", "buffer_free", "data_free"}
RemovePoints == {"destroy", "remove_cdev", "uncount", "uncounted", "devres"}

Probing(m) == pc[m] \in ProbePoints
Removing(m) == pc[m] \in RemovePoints

\* Nobody holds the lock of device d.
Free(d) == \A m \in Module : (Probing(m) \/ Removing(m)) => at[m] # d

Init ==
  /\ loaded = [m \in Module |-> "absent"]
  /\ pc = [m \in Module |-> "none"]
  /\ at = [m \in Module |-> 0]
  /\ region = FALSE
  /\ class = FALSE
  /\ driver = FALSE
  /\ devices = {}
  /\ bound = {}
  /\ rejected = {}
  /\ has = [d \in Dev |-> {}]
  /\ total = 0
  /\ reg = [m \in Module |-> 0]
  /\ open = [f \in File |-> NoDevice]
  /\ fault = FALSE

Goto(m, from, to) ==
  /\ pc[m] = from
  /\ pc' = [pc EXCEPT ![m] = to]

Becomes(m, status) == loaded' = [loaded EXCEPT ![m] = status]

\* A thread goes on and nothing else changes; insmod or rmmod of m comes to its end.
Move(m, from, to) ==
  Goto(m, from, to) /\ UNCHANGED <<loaded, at, numbers, core, has, counter, rest>>
End(m, from, status) ==
  /\ Goto(m, from, "none")
  /\ Becomes(m, status)
  /\ UNCHANGED <<at, numbers, core, has, counter, rest>>

-----------------------------------------------------------------------------
(* insmod of pcd: pcd_platform_driver_init. *)

PcdInsmod ==
  /\ Goto("pcd", "none", "region")
  /\ loaded["pcd"] = "absent"
  /\ Becomes("pcd", "coming")
  /\ total' = 0
  /\ UNCHANGED <<at, numbers, core, has, reg, rest>>

AllocRegion ==
  /\ Goto("pcd", "region", "class")
  /\ region' = TRUE
  /\ UNCHANGED <<loaded, at, class, core, has, counter, rest>>

RegionFails == "region" \in Failures /\ End("pcd", "region", "absent")

CreateClass ==
  /\ Goto("pcd", "class", "register")
  /\ class' = TRUE
  /\ UNCHANGED <<loaded, at, region, core, has, counter, rest>>

ClassFails == "class" \in Failures /\ Move("pcd", "class", "unregister")

\* From here on a device that is registered finds the driver.
RegisterDriver ==
  /\ Goto("pcd", "register", "attach")
  /\ driver' = TRUE
  /\ at' = [at EXCEPT !["pcd"] = 0]
  /\ rejected' = {}
  /\ UNCHANGED <<loaded, numbers, devices, bound, has, counter, rest>>

\* The result of platform_driver_register is not looked at.
RegisterFails == "register" \in Failures /\ End("pcd", "register", "live")

\* The core walks the devices that are there, in the order of their registration.
AttachProbe ==
  /\ Move("pcd", "attach", "data")
  /\ at["pcd"] \in devices \ bound
  /\ Free(at["pcd"])

AttachSkip ==
  /\ pc["pcd"] = "attach"
  /\ at["pcd"] \in Dev
  /\ at["pcd"] \in devices => at["pcd"] \in bound /\ Free(at["pcd"])
  /\ at' = [at EXCEPT !["pcd"] = @ + 1]
  /\ UNCHANGED <<loaded, pc, numbers, core, has, counter, rest>>

AttachEnds == at["pcd"] = NDEVS /\ End("pcd", "attach", "live")

-----------------------------------------------------------------------------
(* rmmod of pcd: pcd_platform_driver_exit. *)

\* Mutants of PcdRmmod: exit forgets to unregister the driver; open files do not count.
PcdRmmod_KeepsDriver ==
  /\ Goto("pcd", "none", "class_destroy")
  /\ loaded["pcd"] = "live"
  /\ AllClosed
  /\ Becomes("pcd", "going")
  /\ UNCHANGED <<at, numbers, core, has, counter, rest>>

PcdRmmod_NoOwner ==
  /\ Goto("pcd", "none", IF driver THEN "unlink" ELSE "class_destroy")
  /\ loaded["pcd"] = "live"
  /\ Becomes("pcd", "going")
  /\ UNCHANGED <<at, numbers, core, has, counter, rest>>

\* Unregistering a driver that is not registered only warns.
PcdRmmod ==
  /\ Goto("pcd", "none", IF driver THEN "unlink" ELSE "class_destroy")
  /\ loaded["pcd"] = "live"
  /\ AllClosed
  /\ Becomes("pcd", "going")
  /\ UNCHANGED <<at, numbers, core, has, counter, rest>>

UnlinkDriver ==
  /\ Goto("pcd", "unlink", "drain")
  /\ driver' = FALSE
  /\ UNCHANGED <<loaded, at, numbers, devices, bound, rejected, has, counter, rest>>

\* The core waits for a probe that had found the driver before.
DrainProbes == ~Probing("setup") /\ Move("pcd", "drain", "detach")

DetachDevice == \E d \in bound :
  /\ Goto("pcd", "detach", "destroy")
  /\ Free(d)
  /\ at' = [at EXCEPT !["pcd"] = d]
  /\ UNCHANGED <<loaded, numbers, core, has, counter, rest>>

DetachEnds == bound = {} /\ Move("pcd", "detach", "class_destroy")

DestroyClass ==
  /\ Goto("pcd", "class_destroy", "unregister")
  /\ class' = FALSE
  /\ UNCHANGED <<loaded, at, region, core, has, counter, rest>>

\* The end of exit, and of an init that failed: the module is freed.
UnregisterRegion ==
  /\ Goto("pcd", "unregister", "none")
  /\ region' = FALSE
  /\ Becomes("pcd", "absent")
  /\ UNCHANGED <<at, class, core, has, counter, rest>>

-----------------------------------------------------------------------------
(* insmod of setup: pcdev_platform_init, all of it platform_add_devices. *)

SetupInsmod ==
  /\ Goto("setup", "none", "add")
  /\ loaded["setup"] = "absent"
  /\ total \in -Drift .. Drift
  /\ Becomes("setup", "coming")
  /\ at' = [at EXCEPT !["setup"] = 0]
  /\ UNCHANGED <<numbers, core, has, counter, rest>>

\* Mutant of AddDevice: one device more than the array has.
AddDevice_OneMore ==
  /\ Goto("setup", "add", "visit")
  /\ at["setup"] <= NDEVS
  /\ devices' = devices \cup {at["setup"]}
  /\ rejected' = rejected \ {at["setup"]}
  /\ UNCHANGED <<loaded, at, numbers, driver, bound, has, counter, rest>>

AddDevice ==
  /\ Goto("setup", "add", "visit")
  /\ at["setup"] < NDEVS
  /\ devices' = devices \cup {at["setup"]}
  /\ rejected' = rejected \ {at["setup"]}
  /\ UNCHANGED <<loaded, at, numbers, driver, bound, has, counter, rest>>

VisitProbe ==
  /\ Move("setup", "visit", "data")
  /\ driver
  /\ at["setup"] \notin bound
  /\ Free(at["setup"])

VisitSkip ==
  /\ Goto("setup", "visit", "add")
  /\ driver => at["setup"] \in bound
  /\ Free(at["setup"])
  /\ at' = [at EXCEPT !["setup"] = @ + 1]
  /\ UNCHANGED <<loaded, numbers, core, has, counter, rest>>

\* Mutant of SetupEnds: one device less than the array has.
SetupEnds_OneShort == at["setup"] = NDEVS - 1 /\ End("setup", "add", "live")

SetupEnds == at["setup"] = NDEVS /\ End("setup", "add", "live")

\* platform_add_devices takes back the devices it had added ...
AddDeviceFails ==
  /\ "device" \in Failures
  /\ Goto("setup", "add", "undo")
  /\ at["setup"] < NDEVS
  /\ at' = [at EXCEPT !["setup"] = @ - 1]
  /\ UNCHANGED <<loaded, numbers, core, has, counter, rest>>

\* ... and returns an error that init does not look at.
UndoEnds == at["setup"] = -1 /\ End("setup", "undo", "live")

-----------------------------------------------------------------------------
(* rmmod of setup: pcdev_platform_exit.  Files that are open on the devices  *)
(* do not hold this module.                                                  *)

SetupRmmod ==
  /\ Goto("setup", "none", "del")
  /\ loaded["setup"] = "live"
  /\ Becomes("setup", "going")
  /\ at' = [at EXCEPT !["setup"] = 0]
  /\ UNCHANGED <<numbers, core, has, counter, rest>>

\* platform_device_unregister: nobody finds the device any more ...
UnlinkDevice ==
  /\ Goto("setup", pc["setup"], IF pc["setup"] = "undo" THEN "undo_drop" ELSE "drop")
  /\ pc["setup"] \in {"del", "undo"}
  /\ at["setup"] \in devices
  /\ Free(at["setup"])
  /\ devices' = devices \ {at["setup"]}
  /\ UNCHANGED <<loaded, at, numbers, driver, bound, rejected, has, counter, rest>>

\* ... and it is taken from its driver, if it has one.
ReleaseBound ==
  /\ Move("setup", pc["setup"], "destroy")
  /\ pc["setup"] \in {"drop", "undo_drop"}
  /\ at["setup"] \in bound
  /\ Free(at["setup"])

\* Setup goes on with the next device: up in exit, down in platform_add_devices.
NextDevice ==
  /\ pc' = [pc EXCEPT !["setup"] = IF loaded["setup"] = "going" THEN "del" ELSE "undo"]
  /\ at' = [at EXCEPT !["setup"] = IF loaded["setup"] = "going" THEN @ + 1 ELSE @ - 1]

ReleaseUnbound ==
  /\ pc["setup"] \in {"drop", "undo_drop"}
  /\ at["setup"] \notin bound
  /\ Free(at["setup"])
  /\ NextDevice
  /\ UNCHANGED <<loaded, numbers, core, has, counter, rest>>

\* Exit unregisters all devices, also those that were never registered.
UnregisterMissing ==
  /\ pc["setup"] = "del"
  /\ at["setup"] \in Dev \ devices
  /\ fault' = TRUE
  /\ UNCHANGED <<loaded, pc, at, numbers, core, has, counter, open>>

SetupGone == at["setup"] = NDEVS /\ End("setup", "del", "absent")

-----------------------------------------------------------------------------
(* pcd_platform_driver_probe, in either thread, with the device's lock.  The *)
(* result of device_create goes through pcdrv_data.device_pcd, which all     *)
(* probes share; a probe tests the value it has just stored, which no call   *)
(* separates from the test.  The value is loaded again, after pr_err, only   *)
(* to make the code that a failing probe returns: another probe's result     *)
(* found there changes that code, and the core undoes the probe all the same.*)

\* A call takes a resource, and the thread waits at the point named for it until then.
Take(m, what, to) ==
  /\ Goto(m, what, to)
  /\ has' = [has EXCEPT ![at[m]] = @ \cup {what}]
  /\ UNCHANGED <<loaded, at, numbers, core, counter, rest>>

GiveBack(m, from, what, to) ==
  /\ Goto(m, from, to)
  /\ has' = [has EXCEPT ![at[m]] = @ \ {what}]
  /\ UNCHANGED <<loaded, at, numbers, core, counter, rest>>

AllocData(m)   == Take(m, "data", "buffer")
AllocBuffer(m) == Take(m, "buffer", "cdev")
AddCdev(m)     == Take(m, "cdev", "node")
CreateNode(m)  == Take(m, "node", "count")

\* Neither total_devices++ nor total_devices-- is an atomic operation.
ReadCount(m) ==
  /\ Goto(m, "count", "counted") \/ Goto(m, "uncount", "uncounted")
  /\ reg' = [reg EXCEPT ![m] = total]
  /\ UNCHANGED <<loaded, at, numbers, core, has, total, rest>>

\* The walk that called probe goes on.
Resume(m) ==
  /\ pc' = [pc EXCEPT ![m] = IF m = "pcd" THEN "attach" ELSE "add"]
  /\ at' = [at EXCEPT ![m] = @ + 1]

StoreCount(m) ==
  /\ pc[m] = "counted"
  /\ total' = reg[m] + 1
  /\ bound' = bound \cup {at[m]}
  /\ rejected' = rejected \ {at[m]}
  /\ Resume(m)
  /\ UNCHANGED <<loaded, numbers, driver, devices, has, reg, rest>>

\* Mutant of ProbeFails: a failed device_create goes to buffer_free.
ProbeFails_KeepsCdev(m) ==
  \/ "memory" \in Failures /\ Move(m, "buffer", "data_free")
  \/ "cdev" \in Failures /\ Move(m, "cdev", "buffer_free")
  \/ "node" \in Failures /\ Move(m, "node", "buffer_free")

ProbeFails(m) ==
  \/ "memory" \in Failures /\ Move(m, "buffer", "data_free")
  \/ "cdev" \in Failures /\ Move(m, "cdev", "buffer_free")
  \/ "node" \in Failures /\ Move(m, "node", "cdev_del")

DelCdev(m)    == GiveBack(m, "cdev_del", "cdev", "buffer_free")
FreeBuffer(m) == GiveBack(m, "buffer_free", "buffer", "data_free")

\* Mutant of FreeData: the probe is tried again until it succeeds.
FreeData_Retries(m) ==
  /\ pc[m] = "data_free" \/ (pc[m] = "data" /\ "memory" \in Failures)
  /\ pc' = [pc EXCEPT ![m] = "data"]
  /\ has' = [has EXCEPT ![at[m]] = @ \ {"data"}]
  /\ UNCHANGED <<loaded, at, numbers, core, counter, rest>>

\* dev_data_free and out; also reached when the first allocation failed.
FreeData(m) ==
  /\ pc[m] = "data_free" \/ (pc[m] = "data" /\ "memory" \in Failures)
  /\ has' = [has EXCEPT ![at[m]] = @ \ {"data"}]
  /\ rejected' = rejected \cup {at[m]}
  /\ Resume(m)
  /\ UNCHANGED <<loaded, numbers, driver, devices, bound, counter, rest>>

-----------------------------------------------------------------------------
(* pcd_platform_driver_remove, in either thread, with the device's lock. *)

\* Mutant of DestroyNode: the cdev goes first.
DestroyNode_CdevFirst(m) == GiveBack(m, "destroy", "cdev", "remove_cdev")

DestroyNode(m) == GiveBack(m, "destroy", "node", "remove_cdev")
RemoveCdev(m)  == GiveBack(m, "remove_cdev", "cdev", "uncount")

StoreUncount(m) ==
  /\ Goto(m, "uncounted", "devres")
  /\ total' = reg[m] - 1
  /\ UNCHANGED <<loaded, at, numbers, core, has, reg, rest>>

\* The core frees what devm_kzalloc returned and the device has no driver.
ReleaseManaged(m) ==
  /\ pc[m] = "devres"
  /\ has' = [has EXCEPT ![at[m]] = @ \ {"data", "buffer"}]
  /\ bound' = bound \ {at[m]}
  /\ \/ m = "setup" /\ NextDevice
     \/ m = "pcd" /\ pc' = [pc EXCEPT ![m] = "detach"] /\ UNCHANGED at
  /\ UNCHANGED <<loaded, numbers, driver, devices, rejected, counter, rest>>

-----------------------------------------------------------------------------
(* Users: pcd_open and pcd_release do nothing of their own.  An open file     *)
(* holds the module pcd, not its device.                                      *)

UserOpen(f) == \E d \in Dev :
  /\ "cdev" \in has[d]
  /\ loaded["pcd"] \in {"coming", "live"}
  /\ open[f] = NoDevice
  /\ open' = [open EXCEPT ![f] = d]
  /\ UNCHANGED <<loaded, pc, at, numbers, core, has, counter, fault>>

UserClose(f) ==
  /\ open[f] # NoDevice
  /\ open' = [open EXCEPT ![f] = NoDevice]
  /\ UNCHANGED <<loaded, pc, at, numbers, core, has, counter, fault>>

Call(m) ==
  \/ AllocData(m)   \/ AllocBuffer(m) \/ AddCdev(m)     \/ CreateNode(m)
  \/ ReadCount(m)   \/ StoreCount(m)  \/ ProbeFails(m)  \/ DelCdev(m)
  \/ FreeBuffer(m)  \/ FreeData(m)    \/ DestroyNode(m) \/ RemoveCdev(m)
  \/ StoreUncount(m) \/ ReleaseManaged(m)

PcdStep ==
  \/ AllocRegion    \/ RegionFails   \/ CreateClass  \/ ClassFails
  \/ RegisterDriver \/ RegisterFails \/ AttachProbe  \/ AttachSkip
  \/ AttachEnds     \/ UnlinkDriver  \/ DrainProbes  \/ DetachDevice
  \/ DetachEnds     \/ DestroyClass  \/ UnregisterRegion
  \/ Call("pcd")

SetupStep ==
  \/ AddDevice      \/ VisitProbe    \/ VisitSkip    \/ SetupEnds
  \/ AddDeviceFails \/ UndoEnds      \/ UnlinkDevice \/ ReleaseBound
  \/ ReleaseUnbound \/ UnregisterMissing \/ SetupGone
  \/ Call("setup")

Next ==
  /\ ~fault
  /\ \/ PcdInsmod \/ PcdRmmod \/ SetupInsmod \/ SetupRmmod
     \/ PcdStep \/ SetupStep
     \/ \E f \in File : UserOpen(f) \/ UserClose(f)

Spec == Init /\ [][Next]_vars

\* Both threads run on, and a device's lock goes to its waiters in turn.
FairSpec == Spec /\ SF_vars(~fault /\ PcdStep) /\ SF_vars(~fault /\ SetupStep)

-----------------------------------------------------------------------------
(* Properties. *)

Points == ProbePoints \cup RemovePoints \cup
  {"none", "region", "class", "register", "attach", "unlink", "drain", "detach",
   "class_destroy", "unregister", "add", "visit", "undo", "del", "drop", "undo_drop"}

\* Every variable keeps its type.
TypeOK ==
  /\ loaded \in [Module -> {"absent", "coming", "live", "going"}]
  /\ pc \in [Module -> Points]
  /\ at \in [Module -> -1 .. NDEVS]
  /\ region \in BOOLEAN
  /\ class \in BOOLEAN
  /\ driver \in BOOLEAN
  /\ devices \subseteq Dev
  /\ bound \subseteq Dev
  /\ rejected \subseteq Dev
  /\ has \in [Dev -> SUBSET Resource]
  /\ total \in Int
  /\ reg \in [Module -> Int]
  /\ open \in [File -> Dev \cup {NoDevice}]
  /\ fault \in BOOLEAN

\* What is taken last rests on what was taken first, in both threads: a node on
\* its cdev and the class, a cdev on its buffer, its data and the region.
Stacked == \A d \in Dev :
  /\ "node" \in has[d] => "cdev" \in has[d] /\ class
  /\ "cdev" \in has[d] => "buffer" \in has[d] /\ region
  /\ "buffer" \in has[d] => "data" \in has[d]

\* While nobody is at work on a device, it has all of what probe takes if it is
\* bound to the driver, and nothing of it otherwise, a failed probe included.
AllOrNothing == \A d \in Dev :
  Free(d) => has[d] = IF d \in bound THEN Resource ELSE {}

\* In whatever order the modules come and go, the first to be gone leaves no
\* device bound, and pcd leaves nothing in the kernel.
NothingLeft ==
  /\ loaded["setup"] = "absent" => bound = {} /\ devices = {}
  /\ loaded["pcd"] = "absent" =>
       ~region /\ ~class /\ ~driver /\ bound = {} /\ \A d \in Dev : has[d] = {}

\* Once both modules have been loaded, in either order or at the same time, each
\* device is served, or else its probe has failed.
EveryDeviceServed ==
  loaded["pcd"] = "live" /\ driver /\ loaded["setup"] = "live" /\ devices # {}
    => bound \cup rejected = Dev

\* An open file keeps the module pcd, so no call enters code that is gone.
OpenFilesHoldModule == ~AllClosed => loaded["pcd"] \in {"coming", "live"}

\* How far the driver has come with device d, and what it holds for it; the buffer
\* comes and goes with the data.
StatusOf(d) ==
  IF Free(d) THEN IF d \in bound THEN "live" ELSE "absent"
  ELSE IF \E m \in Module : at[m] = d /\ Removing(m) THEN "going"
  ELSE IF \E m \in Module : at[m] = d /\ pc[m] \in {"cdev_del", "buffer_free", "data_free"}
  THEN "failing" ELSE "coming"
HeldFor(d) == has[d] \ {"buffer"}

Serving(d) == INSTANCE Lifecycle WITH
  Resource <- {"data", "cdev", "node"}, Needs <- {<<"cdev", "data">>, <<"node", "cdev">>},
  status <- StatusOf(d), plan <- {"data", "cdev", "node"}, held <- HeldFor(d)

\* Each device has a lifecycle of its own, whichever of the two threads probes or
\* removes it: a probe only takes until a call fails, then it only gives back, and a
\* bound device keeps all it has until its remove.
DeviceLifecycles ==
  /\ \A d \in Dev : Serving(d)!Init
  /\ [][\A d \in Dev : [Serving(d)!Next]_(Serving(d)!lifecycle)]_vars

\* Every insmod and rmmod comes to an end, whichever waits for the other's lock.
LoadEnds == \A m \in Module : pc[m] # "none" ~> (pc[m] = "none" \/ fault)
=============================================================================
