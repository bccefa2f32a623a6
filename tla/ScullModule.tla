----------------------------- MODULE ScullModule -----------------------------
(***************************************************************************)
(* Loading and unloading of the 01_hello_world module: my_module_init,     *)
(* scull_setup_cdev and my_module_exit, each kernel call they make being a *)
(* step that can fail where the code can see it fail, while users open and *)
(* close the devices that are already live.                                *)
(*                                                                         *)
(* The kernel's side is modelled from how the driver uses it: the table of *)
(* device-number regions, the map from device numbers to cdevs, and the    *)
(* loader, which frees the module when init returns a negative value and   *)
(* lets rmmod in only when no file is open.                                *)
(***************************************************************************)
EXTENDS Integers, FiniteSets

CONSTANTS
  File,         \* open-file slots
  NoDevice,     \* the device of a closed file
  NrDevs,       \* scull_nr_devs
  Majors,       \* major numbers; 0 asks for a dynamic one
  Params,       \* values of scull_major that insmod is called with
  Failures      \* which of "region", "devices", "cdev" occur

ASSUME ScullModuleAssumption ==
  /\ NrDevs \in Nat \ {0}
  /\ Majors \subseteq Nat
  /\ 0 \in Majors
  /\ Params \subseteq Majors
  /\ NoDevice \notin 0 .. NrDevs - 1
  /\ Failures \subseteq {"region", "devices", "cdev"}

VARIABLES
  module,   \* "absent", "coming", "live" or "going"
  pc,       \* the point init or exit has reached
  i,        \* its loop index
  ret,      \* init's ret
  first,    \* the major number of its dev_t first
  major,    \* scull_major
  written,  \* history: scull_major was written through sysfs since insmod
  devices,  \* whether scull_devices is allocated
  ready,    \* devices whose quantum, qset and semaphore are set
  regions,  \* majors whose region is registered
  cdevs,    \* <<major, index>> of the cdevs in the map
  stale,    \* cdevs still in the map after their module was freed
  open      \* the device each file is open on, or NoDevice

vars == <<module, pc, i, ret, first, major, written, devices, ready, regions, cdevs,
          stale, open>>
kernel == <<regions, cdevs, stale>>

Index  == 0 .. NrDevs - 1
EBUSY  == -16
ENOMEM == -12

AllClosed == \A f \in File : open[f] = NoDevice

Init ==
  /\ module = "absent"
  /\ pc = "none"
  /\ i = 0
  /\ ret = 0
  /\ first = 0
  /\ major = 0
  /\ written = FALSE
  /\ devices = FALSE
  /\ ready = {}
  /\ regions = {}
  /\ cdevs = {}
  /\ stale = {}
  /\ open = [f \in File |-> NoDevice]

-----------------------------------------------------------------------------
(* insmod: my_module_init.  The module's variables start afresh: memory that a *)
(* failed load has left behind is no longer pointed to.  What happens to a     *)
(* file whose module has been freed is not modelled.                           *)

Insmod ==
  /\ module = "absent"
  /\ AllClosed
  /\ module' = "coming"
  /\ pc' = "region"
  /\ ret' = 0
  /\ devices' = FALSE
  /\ written' = FALSE
  /\ \E m \in Params : major' = m
  /\ UNCHANGED <<i, first, ready, kernel, open>>

\* Mutant of RegisterRegion: the dynamic major number is not kept.
RegisterRegion_KeepsMajor ==
  /\ pc = "region"
  /\ \E m \in Majors \ (regions \cup {0}) :
       /\ major \in {0, m}
       /\ first' = m
       /\ regions' = regions \cup {m}
  /\ ret' = 0
  /\ pc' = "alloc"
  /\ UNCHANGED <<module, i, major, devices, ready, cdevs, stale, open, written>>

\* register_chrdev_region, or alloc_chrdev_region when scull_major is 0.
RegisterRegion ==
  /\ pc = "region"
  /\ \E m \in Majors \ (regions \cup {0}) :
       /\ major \in {0, m}
       /\ first' = m
       /\ major' = m
       /\ regions' = regions \cup {m}
  /\ ret' = 0
  /\ pc' = "alloc"
  /\ UNCHANGED <<module, i, devices, ready, cdevs, stale, open, written>>

\* The failure is noted and init goes on.  A failed alloc_chrdev_region leaves
\* first unset, and scull_major takes the major number of whatever it holds.
RegionFails ==
  /\ pc = "region"
  /\ "region" \in Failures \/ major \in regions
  /\ ret' = EBUSY
  /\ IF major # 0 THEN first' = major ELSE first' \in Majors
  /\ major' = first'
  /\ pc' = "alloc"
  /\ UNCHANGED <<module, i, devices, ready, kernel, open, written>>

AllocDevices ==
  /\ pc = "alloc"
  /\ devices' = TRUE
  /\ i' = 0
  /\ pc' = "setup"
  /\ UNCHANGED <<module, ret, first, major, ready, kernel, open, written>>

\* goto fail: the region stays registered.
AllocFails ==
  /\ "devices" \in Failures
  /\ pc = "alloc"
  /\ ret' = ENOMEM
  /\ pc' = "fail"
  /\ UNCHANGED <<module, i, first, major, devices, ready, kernel, open, written>>

\* Mutants of SetUpDevice: the loop runs once too often; the device goes live
\* before its fields are set.
SetUpDevice_OneMore ==
  /\ pc = "setup"
  /\ i <= NrDevs
  /\ ready' = ready \cup {i}
  /\ pc' = "add"
  /\ UNCHANGED <<module, i, ret, first, major, devices, kernel, open, written>>

SetUpDevice_Late ==
  /\ pc = "setup"
  /\ i < NrDevs
  /\ ready' = ready \cup (0 .. i - 1)
  /\ pc' = "add"
  /\ UNCHANGED <<module, i, ret, first, major, devices, kernel, open, written>>

\* The device's quantum, qset and semaphore are set before it goes live.
SetUpDevice ==
  /\ pc = "setup"
  /\ i < NrDevs
  /\ ready' = ready \cup {i}
  /\ pc' = "add"
  /\ UNCHANGED <<module, i, ret, first, major, devices, kernel, open, written>>

\* scull_setup_cdev: the device is live once cdev_add has returned.
AddCdev ==
  /\ pc = "add"
  /\ cdevs' = cdevs \cup {<<major, i>>}
  /\ i' = i + 1
  /\ pc' = "setup"
  /\ UNCHANGED <<module, ret, first, major, devices, ready, regions, stale, open, written>>

\* cdev_add fails: the error is logged, the loop goes on and ret is untouched.
AddCdevFails ==
  /\ "cdev" \in Failures
  /\ pc = "add"
  /\ i' = i + 1
  /\ pc' = "setup"
  /\ UNCHANGED <<module, ret, first, major, devices, ready, kernel, open, written>>

\* Init returns ret.  On a negative value the loader frees the module, whatever
\* the driver still has registered; the kmalloc'ed scull_devices go unowned.
InitReturns ==
  /\ pc = "fail" \/ (pc = "setup" /\ i = NrDevs)
  /\ pc' = "none"
  /\ i' = 0
  /\ \/ /\ ret >= 0
        /\ module' = "live"
        /\ UNCHANGED <<devices, ready, cdevs, stale>>
     \/ /\ ret < 0
        /\ module' = "absent"
        /\ ready' = {}
        /\ cdevs' = {}
        /\ stale' = stale \cup cdevs
        /\ UNCHANGED devices
  /\ UNCHANGED <<ret, first, major, regions, open, written>>

-----------------------------------------------------------------------------
(* rmmod: my_module_exit. *)

Rmmod ==
  /\ module = "live"
  /\ AllClosed
  /\ module' = "going"
  /\ first' = major
  /\ i' = 0
  /\ pc' = IF devices THEN "del" ELSE "unregister"
  /\ UNCHANGED <<ret, major, devices, ready, kernel, open, written>>

\* Mutant of DelCdev: the number is computed again from scull_major.
DelCdev_CurrentMajor ==
  /\ pc = "del"
  /\ i < NrDevs
  /\ cdevs' = cdevs \ {<<major, i>>}
  /\ ready' = ready \ {i}
  /\ i' = i + 1
  /\ UNCHANGED <<module, pc, ret, first, major, devices, regions, stale, open, written>>

\* scull_trim, then cdev_del, which finds the number the cdev was added under.
DelCdev ==
  /\ pc = "del"
  /\ i < NrDevs
  /\ cdevs' = {c \in cdevs : c[2] # i}
  /\ ready' = ready \ {i}
  /\ i' = i + 1
  /\ UNCHANGED <<module, pc, ret, first, major, devices, regions, stale, open, written>>

\* Mutant of FreeDevices: kfree(scull_devices) is missing.
FreeDevices_Leaks ==
  /\ pc = "del"
  /\ i = NrDevs
  /\ pc' = "unregister"
  /\ UNCHANGED <<module, i, ret, first, major, devices, ready, kernel, open, written>>

FreeDevices ==
  /\ pc = "del"
  /\ i = NrDevs
  /\ devices' = FALSE
  /\ pc' = "unregister"
  /\ UNCHANGED <<module, i, ret, first, major, ready, kernel, open, written>>

\* unregister_chrdev_region; exit returns and the loader frees the module.
UnregisterRegion ==
  /\ pc = "unregister"
  /\ regions' = regions \ {first}
  /\ stale' = stale \cup cdevs
  /\ cdevs' = {}
  /\ module' = "absent"
  /\ pc' = "none"
  /\ i' = 0
  /\ UNCHANGED <<ret, first, major, devices, ready, open, written>>

-----------------------------------------------------------------------------
(* Users. *)

\* A live cdev can be opened as soon as it is added: the module's count can be
\* taken while it is still coming, and no longer once it is going.
UserOpen(f) == \E c \in cdevs :
  /\ module \in {"coming", "live"}
  /\ open[f] = NoDevice
  /\ open' = [open EXCEPT ![f] = c[2]]
  /\ UNCHANGED <<module, pc, i, ret, first, major, devices, ready, kernel, written>>

UserClose(f) ==
  /\ open[f] # NoDevice
  /\ open' = [open EXCEPT ![f] = NoDevice]
  /\ UNCHANGED <<module, pc, i, ret, first, major, devices, ready, kernel, written>>

\* scull_major is a parameter with write permission in sysfs.
WriteMajor ==
  /\ module \in {"coming", "live"}
  /\ \E m \in Majors : major' = m
  /\ written' = TRUE
  /\ UNCHANGED <<module, pc, i, ret, first, devices, ready, kernel, open>>

LoadStep ==
  \/ RegisterRegion \/ RegionFails \/ AllocDevices \/ AllocFails \/ SetUpDevice
  \/ AddCdev \/ AddCdevFails \/ InitReturns \/ DelCdev \/ FreeDevices
  \/ UnregisterRegion

Next ==
  \/ Insmod \/ Rmmod \/ LoadStep \/ WriteMajor
  \/ \E f \in File : UserOpen(f) \/ UserClose(f)

Spec == Init /\ [][Next]_vars

-----------------------------------------------------------------------------
(* Properties. *)

\* Every variable keeps its type.
TypeOK ==
  /\ module \in {"absent", "coming", "live", "going"}
  /\ pc \in {"none", "region", "alloc", "setup", "add", "fail", "del", "unregister"}
  /\ i \in 0 .. NrDevs
  /\ ret \in {0, EBUSY, ENOMEM}
  /\ first \in Majors
  /\ major \in Majors
  /\ written \in BOOLEAN
  /\ devices \in BOOLEAN
  /\ ready \subseteq Index
  /\ regions \subseteq Majors \ {0}
  /\ cdevs \subseteq Majors \X Index
  /\ stale \subseteq Majors \X Index
  /\ open \in [File -> Index \cup {NoDevice}]

\* An open file's device is set up and its memory is there, even when it was opened
\* in the middle of init or while other calls failed, until a failed init frees
\* the module under it.
OpenDeviceReady ==
  \A f \in File : open[f] # NoDevice /\ module # "absent" =>
    /\ open[f] \in ready
    /\ devices
    /\ module # "going"

\* A live device number lies in a region the driver holds, unless the region was
\* refused or root has moved scull_major: numbers are reserved before the first
\* cdev_add and given back after the last cdev_del.
CdevsInRegion == ret = 0 /\ ~written => \A c \in cdevs : c[1] \in regions

\* Exit takes every cdev out of the map before the region goes, also when
\* scull_major is no longer the number the devices were added under.
ExitFindsEveryDevice == pc = "unregister" => cdevs = {}

\* When the module is gone, no device number leads to the memory it occupied.
NoStaleDevice == stale = {}

\* A module that was loaded and unloaded again keeps neither its device numbers
\* nor its memory, unless root has moved scull_major.
NothingHeld ==
  module = "absent" /\ ret = 0 /\ ~written => first \notin regions /\ ~devices
=============================================================================
