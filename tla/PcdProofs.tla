------------------------------ MODULE PcdProofs ------------------------------
(***************************************************************************)
(* Proofs about Pcd, for any number of devices and files and any choice of *)
(* failing calls.  The properties are not inductive: that a device at rest *)
(* has all or nothing needs what it has at each point of probe and remove  *)
(* (Work), that no two threads are at work on it (Locked), and, for the    *)
(* class and the region, how far pcd has come while the other thread       *)
(* probes (PcdState, Drained).  IInv puts these together; each of its      *)
(* parts has a lemma of its own.                                           *)
(***************************************************************************)
EXTENDS Pcd, TLAPS

Busy(m) == Probing(m) \/ Removing(m)

PcdPoints ==
  {"none", "region", "class", "register", "attach", "unlink", "drain", "detach",
   "class_destroy", "unregister"}
SetupPoints == {"none", "add", "visit", "undo", "del", "drop", "undo_drop"}

\* Each thread is at a point of its own module, or in probe or remove.
Places ==
  /\ pc["pcd"] \in PcdPoints \cup ProbePoints \cup RemovePoints
  /\ pc["setup"] \in SetupPoints \cup ProbePoints \cup RemovePoints

\* The loop indices, and the device of a thread that is in probe or remove.
Indices ==
  /\ \A m \in Module : Busy(m) => at[m] \in Dev
  /\ pc["pcd"] = "attach" => at["pcd"] \in 0 .. NDEVS
  /\ pc["setup"] \in {"add", "del"} => at["setup"] \in 0 .. NDEVS
  /\ pc["setup"] \in {"visit", "drop", "undo_drop"} => at["setup"] \in Dev
  /\ pc["setup"] = "undo" => at["setup"] \in -1 .. NDEVS - 1

\* The lock of a device: two threads are never at work on the same one.
Locked == Busy("pcd") /\ Busy("setup") => at["pcd"] # at["setup"]

\* How far pcd has come decides what it has registered.
PcdState ==
  /\ loaded["pcd"] = "absent" => pc["pcd"] = "none" /\ ~region
  /\ loaded["pcd"] = "coming" =>
       pc["pcd"] \in {"region", "class", "register", "attach", "unregister"}
                       \cup ProbePoints
  /\ loaded["pcd"] = "live" => pc["pcd"] = "none" /\ region /\ class
  /\ loaded["pcd"] = "going" =>
       pc["pcd"] \in {"unlink", "drain", "detach", "class_destroy", "unregister"}
                       \cup RemovePoints
  /\ pc["pcd"] = "region" => ~region
  /\ pc["pcd"] \notin {"none", "region"} => region
  /\ loaded["pcd"] = "absent" \/ pc["pcd"] \in {"region", "class", "unregister"} => ~class
  /\ pc["pcd"] \in {"register", "attach", "unlink", "drain", "detach", "class_destroy"}
                     \/ Busy("pcd") => class
  /\ pc["pcd"] \in {"attach", "unlink"} \/ Probing("pcd") => driver
  /\ driver => \/ loaded["pcd"] = "live"
               \/ pc["pcd"] \in {"attach", "unlink"} \/ Probing("pcd")

\* A probe in the other thread has found the driver, and the driver goes only
\* after it; once it is gone no device is left with it.
Drained ==
  /\ Probing("setup") => driver \/ pc["pcd"] = "drain"
  /\ driver \/ pc["pcd"] \in {"drain", "detach"} \/ Removing("pcd") \/ bound = {}

\* How far setup has come decides which devices the core finds.
Found(S) == \A d \in Dev : d \in devices <=> d \in S

SetupState ==
  /\ loaded["setup"] = "absent" => pc["setup"] = "none" /\ devices = {}
  /\ loaded["setup"] = "coming" =>
       pc["setup"] \in {"add", "visit", "undo", "undo_drop"}
                         \cup ProbePoints \cup RemovePoints
  /\ loaded["setup"] = "live" => pc["setup"] = "none" /\ (devices = {} \/ Found(Dev))
  /\ loaded["setup"] = "going" => pc["setup"] \in {"del", "drop"} \cup RemovePoints
  /\ pc["setup"] = "add" => Found(0 .. at["setup"] - 1)
  /\ pc["setup"] \in {"visit", "undo"} \/ Probing("setup") => Found(0 .. at["setup"])
  /\ pc["setup"] = "undo_drop" \/ (Removing("setup") /\ loaded["setup"] = "coming") =>
       Found(0 .. at["setup"] - 1)
  /\ pc["setup"] = "del" => devices = {} \/ Found(at["setup"] .. NDEVS - 1)
  /\ pc["setup"] = "drop" \/ (Removing("setup") /\ loaded["setup"] = "going") =>
       Found(at["setup"] + 1 .. NDEVS - 1)

\* A device that is bound is there, or is the one that setup is taking away.
BoundThere ==
  /\ \A d \in bound : d \in devices
       \/ (d = at["setup"] /\ (pc["setup"] \in {"drop", "undo_drop"} \/ Removing("setup")))
  /\ Probing("pcd") => at["pcd"] \in devices

\* What a device has while a thread is at work on it.
WorkOK(m) ==
  /\ Probing(m) => at[m] \notin bound
  /\ Removing(m) => at[m] \in bound
  /\ Busy(m) => ("data" \in has[at[m]] <=> pc[m] # "data")
  /\ Busy(m) => ("buffer" \in has[at[m]] <=> pc[m] \notin {"data", "buffer", "data_free"})
  /\ Busy(m) => ("cdev" \in has[at[m]] <=>
       pc[m] \in {"node", "count", "counted", "cdev_del", "destroy", "remove_cdev"})
  /\ Busy(m) => ("node" \in has[at[m]] <=> pc[m] \in {"count", "counted", "destroy"})

Work == \A m \in Module : WorkOK(m)

\* A device that is registered while the driver is has had its probe, or one of the
\* two walks has still to come to it.
Awaited(d) ==
  \/ (pc["pcd"] = "attach" \/ Probing("pcd")) /\ d >= at["pcd"]
  \/ (pc["setup"] = "visit" \/ Probing("setup")) /\ d = at["setup"]

ServedAt(d) == driver /\ d \in devices => d \in bound \/ d \in rejected \/ Awaited(d)

Served == \A d \in Dev : ServedAt(d)

\* No file is open before the driver is registered, or once pcd is on its way out.
Quiet ==
  loaded["pcd"] \in {"absent", "going"} \/ pc["pcd"] \in {"region", "class", "unregister"}
    => AllClosed

\* TypeOK in parts, which are proved one by one.
ControlType ==
  /\ loaded \in [Module -> {"absent", "coming", "live", "going"}]
  /\ pc \in [Module -> Points]
IndexType == at \in [Module -> -1 .. NDEVS]
SetType ==
  /\ region \in BOOLEAN /\ class \in BOOLEAN /\ driver \in BOOLEAN /\ fault \in BOOLEAN
  /\ devices \subseteq Dev /\ bound \subseteq Dev /\ rejected \subseteq Dev
HasType == has \in [Dev -> SUBSET Resource]
CountType ==
  /\ total \in Int /\ reg \in [Module -> Int]
  /\ open \in [File -> Dev \cup {NoDevice}]

\* AllOrNothing, one resource at a time.
Resting == \A d \in Dev, r \in Resource : Free(d) => (r \in has[d] <=> d \in bound)

IInv ==
  /\ TypeOK /\ Places /\ Indices /\ Locked
  /\ PcdState /\ Drained /\ SetupState /\ BoundThere
  /\ Work /\ Resting /\ Served /\ Quiet
\* A step inside probe or inside remove: nothing moves but the thread's point, what
\* its device has, and the counter.
Stays(m) ==
  /\ \E p \in Points : pc' = [pc EXCEPT ![m] = p] /\
       \/ Probing(m) /\ p \in ProbePoints
       \/ Removing(m) /\ p \in RemovePoints
  /\ UNCHANGED <<loaded, at, numbers, core, rest>>

\* There is at least one device.
LEMMA NFact == NDEVS \in Nat /\ NDEVS >= 1 /\ Dev = 0 .. NDEVS - 1
  BY PcdAssumption DEF Dev

\* A step of probe or remove stays inside, or gives the device's lock back.
LEMMA CallCases ==
  ASSUME TypeOK, Places, NEW m \in Module, Call(m)
  PROVE  Stays(m) \/ StoreCount(m) \/ FreeData(m) \/ ReleaseManaged(m)
  BY DEF Call, Stays, Points, Probing, Removing, ProbePoints, RemovePoints, Resource, Goto,
    Move, Take, GiveBack, core, numbers, counter, rest, AllocData, AllocBuffer, AddCdev,
    CreateNode, ReadCount, ProbeFails, DelCdev, FreeBuffer, DestroyNode, RemoveCdev,
    StoreUncount

\* With both modules absent there is nothing.
LEMMA IInvInit == Init => IInv
<1> SUFFICES ASSUME Init PROVE IInv
  OBVIOUS
<1> USE NFact DEF Init, Module, Busy, Probing, Removing, ProbePoints, RemovePoints,
  Resource
<1>1. ControlType /\ IndexType
  BY DEF ControlType, IndexType, Points
<1>2. TypeOK
  <2>1. SetType
    BY DEF SetType
  <2>2. CountType
    BY DEF CountType
  <2>3. HasType
    BY DEF HasType
  <2> QED
    BY <1>1, <2>1, <2>2, <2>3 DEF TypeOK, ControlType, IndexType, SetType, HasType, CountType
<1>3. Places /\ Indices /\ Locked
  BY DEF Places, Indices, Locked, PcdPoints, SetupPoints
<1>4. PcdState /\ Drained /\ SetupState /\ BoundThere
  BY DEF PcdState, Drained, SetupState, BoundThere
<1>5. Work /\ Resting /\ Served
  BY DEF Work, WorkOK, Resting, Served, ServedAt
<1>6. Quiet
  BY DEF Quiet, AllClosed
<1> QED
  BY <1>2, <1>3, <1>4, <1>5, <1>6 DEF IInv

-----------------------------------------------------------------------------
(* One lemma for each part of IInv: every step keeps it. *)

\* A step keeps the points of both threads and the states of both modules.
LEMMA ControlTypeStep == ASSUME IInv, [Next]_vars PROVE ControlType'
<1> USE NFact DEF Module, Goto, Becomes, Move, End, core, counter, numbers, rest,
  Points, ProbePoints, RemovePoints, Resource, TypeOK, ControlType
<1>0. TypeOK
  BY DEF IInv
<1>1. ASSUME NEW m \in Module, Call(m) PROVE ControlType'
  BY <1>0, <1>1 DEF Call, AllocData, AllocBuffer, AddCdev, CreateNode, ReadCount,
    StoreCount, ProbeFails, DelCdev, FreeBuffer, FreeData, DestroyNode, RemoveCdev,
    StoreUncount, ReleaseManaged, Take, GiveBack, Resume, NextDevice
<1>2. CASE PcdInsmod \/ PcdRmmod \/ SetupInsmod \/ SetupRmmod
  BY <1>0, <1>2 DEF PcdInsmod, PcdRmmod, SetupInsmod, SetupRmmod
<1>3. CASE PcdStep
  BY <1>0, <1>3, <1>1 DEF PcdStep, AllocRegion, RegionFails, CreateClass, ClassFails,
    RegisterDriver, RegisterFails, AttachProbe, AttachSkip, AttachEnds, UnlinkDriver,
    DrainProbes, DetachDevice, DetachEnds, DestroyClass, UnregisterRegion
<1>4. CASE SetupStep
  BY <1>0, <1>4, <1>1 DEF SetupStep, AddDevice, VisitProbe, VisitSkip, SetupEnds,
    AddDeviceFails, UndoEnds, UnlinkDevice, ReleaseBound, ReleaseUnbound,
    UnregisterMissing, SetupGone, NextDevice
<1>5. CASE (\E f \in File : UserOpen(f) \/ UserClose(f)) \/ UNCHANGED vars
  BY <1>0, <1>5 DEF UserOpen, UserClose, vars
<1> QED
  BY <1>2, <1>3, <1>4, <1>5 DEF Next

\* A step keeps the loop indices within one of the devices.
LEMMA IndexTypeStep == ASSUME IInv, [Next]_vars PROVE IndexType'
<1> USE NFact DEF Module, Goto, Becomes, Move, End, core, counter, numbers, rest, Busy,
  Probing, Removing, ProbePoints, RemovePoints, Resource, PcdPoints, SetupPoints,
  TypeOK, Places, Indices, IndexType
<1>0. TypeOK /\ Places /\ Indices
  BY DEF IInv
<1>1. ASSUME NEW m \in Module, Stays(m) PROVE IndexType'
  BY <1>0, <1>1 DEF Stays
<1>2. ASSUME NEW m \in Module, StoreCount(m) PROVE IndexType'
  BY <1>0, <1>2 DEF StoreCount, Resume
<1>3. ASSUME NEW m \in Module, FreeData(m) PROVE IndexType'
  BY <1>0, <1>3 DEF FreeData, Resume
<1>4. ASSUME NEW m \in Module, ReleaseManaged(m) PROVE IndexType'
  BY <1>0, <1>4 DEF ReleaseManaged, NextDevice
<1>5. ASSUME NEW m \in Module, Call(m) PROVE IndexType'
  BY <1>1, <1>2, <1>3, <1>4, <1>5, <1>0, CallCases
<1>6. CASE PcdInsmod \/ PcdRmmod \/ SetupInsmod \/ SetupRmmod
  BY <1>0, <1>6 DEF PcdInsmod, PcdRmmod, SetupInsmod, SetupRmmod
<1>7. CASE PcdStep
  BY <1>0, <1>7, <1>5 DEF PcdStep, AllocRegion, RegionFails, CreateClass, ClassFails,
    RegisterDriver, RegisterFails, AttachProbe, AttachSkip, AttachEnds, UnlinkDriver,
    DrainProbes, DetachDevice, DetachEnds, DestroyClass, UnregisterRegion
<1>8. CASE SetupStep
  BY <1>0, <1>8, <1>5 DEF SetupStep, AddDevice, VisitProbe, VisitSkip, SetupEnds,
    AddDeviceFails, UndoEnds, UnlinkDevice, ReleaseBound, ReleaseUnbound,
    UnregisterMissing, SetupGone, NextDevice
<1>9. CASE (\E f \in File : UserOpen(f) \/ UserClose(f)) \/ UNCHANGED vars
  BY <1>0, <1>9 DEF UserOpen, UserClose, vars
<1> QED
  BY <1>6, <1>7, <1>8, <1>9 DEF Next

\* A step takes nothing for a device that is not in platform_pcdevs.
LEMMA SetTypeStep == ASSUME IInv, [Next]_vars PROVE SetType'
<1> USE NFact DEF Module, Goto, Becomes, Move, End, core, counter, numbers, rest, Busy,
  Probing, Removing, ProbePoints, RemovePoints, Resource, PcdPoints, SetupPoints,
  TypeOK, Places, Indices, SetType
<1>0. TypeOK /\ Places /\ Indices
  BY DEF IInv
<1>1. ASSUME NEW m \in Module, Stays(m) PROVE SetType'
  BY <1>0, <1>1 DEF Stays
<1>2. ASSUME NEW m \in Module, StoreCount(m) PROVE SetType'
  BY <1>0, <1>2 DEF StoreCount, Resume
<1>3. ASSUME NEW m \in Module, FreeData(m) PROVE SetType'
  BY <1>0, <1>3 DEF FreeData, Resume
<1>4. ASSUME NEW m \in Module, ReleaseManaged(m) PROVE SetType'
  BY <1>0, <1>4 DEF ReleaseManaged, NextDevice
<1>5. ASSUME NEW m \in Module, Call(m) PROVE SetType'
  BY <1>1, <1>2, <1>3, <1>4, <1>5, <1>0, CallCases
<1>6. CASE PcdInsmod \/ PcdRmmod \/ SetupInsmod \/ SetupRmmod
  BY <1>0, <1>6 DEF PcdInsmod, PcdRmmod, SetupInsmod, SetupRmmod
<1>7. CASE PcdStep
  BY <1>0, <1>7, <1>5 DEF PcdStep, AllocRegion, RegionFails, CreateClass, ClassFails,
    RegisterDriver, RegisterFails, AttachProbe, AttachSkip, AttachEnds, UnlinkDriver,
    DrainProbes, DetachDevice, DetachEnds, DestroyClass, UnregisterRegion
<1>8. CASE AddDevice
  <2>1. at["setup"] \in Dev
    BY <1>0, <1>8 DEF AddDevice
  <2> QED
    BY <1>0, <1>8, <2>1 DEF AddDevice
<1>9. CASE UnlinkDevice
  BY <1>0, <1>9 DEF UnlinkDevice
<1>10. CASE VisitProbe \/ VisitSkip \/ SetupEnds \/ AddDeviceFails \/ UndoEnds \/
  ReleaseBound \/ ReleaseUnbound \/ UnregisterMissing \/ SetupGone
  BY <1>0, <1>10 DEF VisitProbe, VisitSkip, SetupEnds, AddDeviceFails, UndoEnds,
    ReleaseBound, ReleaseUnbound, UnregisterMissing, SetupGone, NextDevice
<1>11. CASE SetupStep
  BY <1>8, <1>9, <1>10, <1>5, <1>11 DEF SetupStep, Module
<1>12. CASE (\E f \in File : UserOpen(f) \/ UserClose(f)) \/ UNCHANGED vars
  BY <1>0, <1>12 DEF UserOpen, UserClose, vars
<1> QED
  BY <1>6, <1>7, <1>11, <1>12 DEF Next

\* A step takes resources and nothing else.
LEMMA HasTypeStep == ASSUME IInv, [Next]_vars PROVE HasType'
<1> USE NFact DEF Module, Goto, Becomes, Move, End, core, counter, numbers, rest, Busy,
  Probing, Removing, ProbePoints, RemovePoints, Resource, PcdPoints, SetupPoints,
  TypeOK, Places, Indices, HasType
<1>0. TypeOK /\ Places /\ Indices
  BY DEF IInv
<1>1. ASSUME NEW m \in Module, AllocData(m) \/ AllocBuffer(m) \/ AddCdev(m) \/
  CreateNode(m) PROVE HasType'
  BY <1>0, <1>1 DEF AllocData, AllocBuffer, AddCdev, CreateNode, Take
<1>2. ASSUME NEW m \in Module, DelCdev(m) \/ FreeBuffer(m) PROVE HasType'
  BY <1>0, <1>2 DEF DelCdev, FreeBuffer, GiveBack
<1>3. ASSUME NEW m \in Module, DestroyNode(m) \/ RemoveCdev(m) PROVE HasType'
  BY <1>0, <1>3 DEF DestroyNode, RemoveCdev, GiveBack
<1>4. ASSUME NEW m \in Module, ReadCount(m) \/ ProbeFails(m) \/ StoreUncount(m) \/
  StoreCount(m) \/ FreeData(m) \/ ReleaseManaged(m) PROVE HasType'
  BY <1>0, <1>4 DEF ReadCount, ProbeFails, StoreUncount, StoreCount, FreeData,
    ReleaseManaged, Resume, NextDevice
<1>5. ASSUME NEW m \in Module, Call(m) PROVE HasType'
  BY <1>1, <1>2, <1>3, <1>4, <1>5 DEF Call
<1>6. CASE PcdInsmod \/ PcdRmmod \/ SetupInsmod \/ SetupRmmod
  BY <1>0, <1>6 DEF PcdInsmod, PcdRmmod, SetupInsmod, SetupRmmod
<1>7. CASE PcdStep
  BY <1>0, <1>7, <1>5 DEF PcdStep, AllocRegion, RegionFails, CreateClass, ClassFails,
    RegisterDriver, RegisterFails, AttachProbe, AttachSkip, AttachEnds, UnlinkDriver,
    DrainProbes, DetachDevice, DetachEnds, DestroyClass, UnregisterRegion
<1>8. CASE SetupStep
  BY <1>0, <1>8, <1>5 DEF SetupStep, AddDevice, VisitProbe, VisitSkip, SetupEnds,
    AddDeviceFails, UndoEnds, UnlinkDevice, ReleaseBound, ReleaseUnbound,
    UnregisterMissing, SetupGone, NextDevice
<1>9. CASE (\E f \in File : UserOpen(f) \/ UserClose(f)) \/ UNCHANGED vars
  BY <1>0, <1>9 DEF UserOpen, UserClose, vars
<1> QED
  BY <1>6, <1>7, <1>8, <1>9 DEF Next

\* A step keeps total_devices an integer, however the updates are lost.
LEMMA CountTypeStep == ASSUME IInv, [Next]_vars PROVE CountType'
<1> USE NFact DEF Module, Goto, Becomes, Move, End, core, counter, numbers, rest,
  Resource, TypeOK, CountType
<1>0. TypeOK
  BY DEF IInv
<1>1. ASSUME NEW m \in Module, Call(m) PROVE CountType'
  BY <1>0, <1>1 DEF Call, AllocData, AllocBuffer, AddCdev, CreateNode, ReadCount,
    StoreCount, ProbeFails, DelCdev, FreeBuffer, FreeData, DestroyNode, RemoveCdev,
    StoreUncount, ReleaseManaged, Take, GiveBack, Resume, NextDevice
<1>2. CASE PcdInsmod \/ PcdRmmod \/ SetupInsmod \/ SetupRmmod
  BY <1>0, <1>2 DEF PcdInsmod, PcdRmmod, SetupInsmod, SetupRmmod
<1>3. CASE PcdStep
  BY <1>0, <1>3, <1>1 DEF PcdStep, AllocRegion, RegionFails, CreateClass, ClassFails,
    RegisterDriver, RegisterFails, AttachProbe, AttachSkip, AttachEnds, UnlinkDriver,
    DrainProbes, DetachDevice, DetachEnds, DestroyClass, UnregisterRegion
<1>4. CASE SetupStep
  BY <1>0, <1>4, <1>1 DEF SetupStep, AddDevice, VisitProbe, VisitSkip, SetupEnds,
    AddDeviceFails, UndoEnds, UnlinkDevice, ReleaseBound, ReleaseUnbound,
    UnregisterMissing, SetupGone, NextDevice
<1>5. CASE (\E f \in File : UserOpen(f) \/ UserClose(f)) \/ UNCHANGED vars
  BY <1>0, <1>5 DEF UserOpen, UserClose, vars
<1> QED
  BY <1>2, <1>3, <1>4, <1>5 DEF Next

\* A step keeps each thread in its own module, or in probe or remove.
LEMMA PlacesStep == ASSUME IInv, [Next]_vars PROVE Places'
<1> USE NFact DEF Module, Goto, Becomes, Move, End, core, counter, numbers, rest,
  PcdPoints, SetupPoints, ProbePoints, RemovePoints, Resource, TypeOK, Places,
  SetupState
<1>0. TypeOK /\ Places /\ SetupState
  BY DEF IInv
<1>1. ASSUME NEW m \in Module, Call(m) PROVE Places'
  BY <1>0, <1>1 DEF Call, AllocData, AllocBuffer, AddCdev, CreateNode, ReadCount,
    StoreCount, ProbeFails, DelCdev, FreeBuffer, FreeData, DestroyNode, RemoveCdev,
    StoreUncount, ReleaseManaged, Take, GiveBack, Resume, NextDevice
<1>2. CASE PcdInsmod \/ PcdRmmod \/ SetupInsmod \/ SetupRmmod
  BY <1>0, <1>2 DEF PcdInsmod, PcdRmmod, SetupInsmod, SetupRmmod
<1>3. CASE PcdStep
  BY <1>0, <1>3, <1>1 DEF PcdStep, AllocRegion, RegionFails, CreateClass, ClassFails,
    RegisterDriver, RegisterFails, AttachProbe, AttachSkip, AttachEnds, UnlinkDriver,
    DrainProbes, DetachDevice, DetachEnds, DestroyClass, UnregisterRegion
<1>4. CASE SetupStep
  BY <1>0, <1>4, <1>1 DEF SetupStep, AddDevice, VisitProbe, VisitSkip, SetupEnds,
    AddDeviceFails, UndoEnds, UnlinkDevice, ReleaseBound, ReleaseUnbound,
    UnregisterMissing, SetupGone, NextDevice
<1>5. CASE (\E f \in File : UserOpen(f) \/ UserClose(f)) \/ UNCHANGED vars
  BY <1>0, <1>5 DEF UserOpen, UserClose, vars
<1> QED
  BY <1>2, <1>3, <1>4, <1>5 DEF Next

\* A step into a walk, a probe or a remove has a device to be at.
LEMMA IndicesStep == ASSUME IInv, [Next]_vars PROVE Indices'
<1> USE NFact DEF Module, Goto, Becomes, Move, End, core, counter, numbers, rest, Busy,
  Probing, Removing, ProbePoints, RemovePoints, Resource, PcdPoints, SetupPoints,
  TypeOK, Places, Indices, SetupState, BoundThere
<1>0. TypeOK /\ Places /\ Indices /\ SetupState /\ BoundThere
  BY DEF IInv
<1>1. ASSUME NEW m \in Module, Stays(m) PROVE Indices'
  BY <1>0, <1>1 DEF Stays
<1>2. ASSUME NEW m \in Module, StoreCount(m) PROVE Indices'
  BY <1>0, <1>2 DEF StoreCount, Resume
<1>3. ASSUME NEW m \in Module, FreeData(m) PROVE Indices'
  BY <1>0, <1>3 DEF FreeData, Resume
<1>4. ASSUME NEW m \in Module, ReleaseManaged(m) PROVE Indices'
  BY <1>0, <1>4 DEF ReleaseManaged, NextDevice
<1>5. ASSUME NEW m \in Module, Call(m) PROVE Indices'
  BY <1>1, <1>2, <1>3, <1>4, <1>5, <1>0, CallCases
<1>6. CASE PcdInsmod \/ PcdRmmod \/ SetupInsmod \/ SetupRmmod
  BY <1>0, <1>6 DEF PcdInsmod, PcdRmmod, SetupInsmod, SetupRmmod
<1>7. CASE PcdStep
  BY <1>0, <1>7, <1>5 DEF PcdStep, AllocRegion, RegionFails, CreateClass, ClassFails,
    RegisterDriver, RegisterFails, AttachProbe, AttachSkip, AttachEnds, UnlinkDriver,
    DrainProbes, DetachDevice, DetachEnds, DestroyClass, UnregisterRegion
<1>8. CASE SetupStep
  BY <1>0, <1>8, <1>5 DEF SetupStep, AddDevice, VisitProbe, VisitSkip, SetupEnds,
    AddDeviceFails, UndoEnds, UnlinkDevice, ReleaseBound, ReleaseUnbound,
    UnregisterMissing, SetupGone, NextDevice
<1>9. CASE (\E f \in File : UserOpen(f) \/ UserClose(f)) \/ UNCHANGED vars
  BY <1>0, <1>9 DEF UserOpen, UserClose, vars
<1> QED
  BY <1>6, <1>7, <1>8, <1>9 DEF Next

\* A step takes a device's lock only while the other thread has it not.
LEMMA LockedStep == ASSUME IInv, [Next]_vars PROVE Locked'
<1> USE NFact DEF Module, Goto, Becomes, Move, End, core, counter, numbers, rest, Busy,
  Probing, Removing, ProbePoints, RemovePoints, Resource, Free, PcdPoints, SetupPoints,
  TypeOK, Places, Locked
<1>0. TypeOK /\ Places /\ Locked
  BY DEF IInv
<1>1. ASSUME NEW m \in Module, Call(m) PROVE Locked'
  BY <1>0, <1>1 DEF Call, AllocData, AllocBuffer, AddCdev, CreateNode, ReadCount,
    StoreCount, ProbeFails, DelCdev, FreeBuffer, FreeData, DestroyNode, RemoveCdev,
    StoreUncount, ReleaseManaged, Take, GiveBack, Resume, NextDevice
<1>2. CASE PcdInsmod \/ PcdRmmod \/ SetupInsmod \/ SetupRmmod
  BY <1>0, <1>2 DEF PcdInsmod, PcdRmmod, SetupInsmod, SetupRmmod
<1>3. CASE PcdStep
  BY <1>0, <1>3, <1>1 DEF PcdStep, AllocRegion, RegionFails, CreateClass, ClassFails,
    RegisterDriver, RegisterFails, AttachProbe, AttachSkip, AttachEnds, UnlinkDriver,
    DrainProbes, DetachDevice, DetachEnds, DestroyClass, UnregisterRegion
<1>4. CASE SetupStep
  BY <1>0, <1>4, <1>1 DEF SetupStep, AddDevice, VisitProbe, VisitSkip, SetupEnds,
    AddDeviceFails, UndoEnds, UnlinkDevice, ReleaseBound, ReleaseUnbound,
    UnregisterMissing, SetupGone, NextDevice
<1>5. CASE (\E f \in File : UserOpen(f) \/ UserClose(f)) \/ UNCHANGED vars
  BY <1>0, <1>5 DEF UserOpen, UserClose, vars
<1> QED
  BY <1>2, <1>3, <1>4, <1>5 DEF Next

\* A step keeps region, class and driver as the point of pcd says.
LEMMA PcdStateStep == ASSUME IInv, [Next]_vars PROVE PcdState'
<1> USE NFact DEF Module, Goto, Becomes, Move, End, core, counter, numbers, rest, Busy,
  Probing, Removing, ProbePoints, RemovePoints, Resource, PcdPoints, SetupPoints,
  TypeOK, Places, PcdState, SetupState
<1>0. TypeOK /\ Places /\ PcdState /\ SetupState
  BY DEF IInv
<1>1. ASSUME NEW m \in Module, Stays(m) PROVE PcdState'
  BY <1>0, <1>1 DEF Stays
<1>2. ASSUME NEW m \in Module, StoreCount(m) PROVE PcdState'
  BY <1>0, <1>2 DEF StoreCount, Resume
<1>3. ASSUME NEW m \in Module, FreeData(m) PROVE PcdState'
  BY <1>0, <1>3 DEF FreeData, Resume
<1>4. ASSUME NEW m \in Module, ReleaseManaged(m) PROVE PcdState'
  BY <1>0, <1>4 DEF ReleaseManaged, NextDevice
<1>5. ASSUME NEW m \in Module, Call(m) PROVE PcdState'
  BY <1>1, <1>2, <1>3, <1>4, <1>5, <1>0, CallCases
<1>6. CASE PcdInsmod \/ PcdRmmod \/ SetupInsmod \/ SetupRmmod
  BY <1>0, <1>6 DEF PcdInsmod, PcdRmmod, SetupInsmod, SetupRmmod
<1>7. CASE PcdStep
  BY <1>0, <1>7, <1>5 DEF PcdStep, AllocRegion, RegionFails, CreateClass, ClassFails,
    RegisterDriver, RegisterFails, AttachProbe, AttachSkip, AttachEnds, UnlinkDriver,
    DrainProbes, DetachDevice, DetachEnds, DestroyClass, UnregisterRegion
<1>8. CASE SetupStep
  BY <1>0, <1>8, <1>5 DEF SetupStep, AddDevice, VisitProbe, VisitSkip, SetupEnds,
    AddDeviceFails, UndoEnds, UnlinkDevice, ReleaseBound, ReleaseUnbound,
    UnregisterMissing, SetupGone, NextDevice
<1>9. CASE (\E f \in File : UserOpen(f) \/ UserClose(f)) \/ UNCHANGED vars
  BY <1>0, <1>9 DEF UserOpen, UserClose, vars
<1> QED
  BY <1>6, <1>7, <1>8, <1>9 DEF Next

\* A step that unregisters the driver waits for the other thread's probe, and
\* the walk over bound devices ends with none.
LEMMA DrainedStep == ASSUME IInv, [Next]_vars PROVE Drained'
<1> USE NFact DEF Module, Goto, Becomes, Move, End, core, counter, numbers, rest, Busy,
  Probing, Removing, ProbePoints, RemovePoints, Resource, PcdPoints, SetupPoints,
  TypeOK, Places, PcdState, Drained
<1>0. TypeOK /\ Places /\ PcdState /\ Drained
  BY DEF IInv
<1>1. ASSUME NEW m \in Module, Stays(m) PROVE Drained'
  BY <1>0, <1>1 DEF Stays
<1>2. ASSUME NEW m \in Module, StoreCount(m) PROVE Drained'
  BY <1>0, <1>2 DEF StoreCount, Resume
<1>3. ASSUME NEW m \in Module, FreeData(m) PROVE Drained'
  BY <1>0, <1>3 DEF FreeData, Resume
<1>4. ASSUME NEW m \in Module, ReleaseManaged(m) PROVE Drained'
  BY <1>0, <1>4 DEF ReleaseManaged, NextDevice
<1>5. ASSUME NEW m \in Module, Call(m) PROVE Drained'
  BY <1>1, <1>2, <1>3, <1>4, <1>5, <1>0, CallCases
<1>6. CASE PcdInsmod \/ PcdRmmod \/ SetupInsmod \/ SetupRmmod
  BY <1>0, <1>6 DEF PcdInsmod, PcdRmmod, SetupInsmod, SetupRmmod
<1>7. CASE AllocRegion \/ RegionFails \/ CreateClass \/ ClassFails \/ RegisterDriver \/
  RegisterFails
  BY <1>0, <1>7 DEF AllocRegion, RegionFails, CreateClass, ClassFails, RegisterDriver,
    RegisterFails
<1>8. CASE AttachProbe \/ AttachSkip \/ AttachEnds
  BY <1>0, <1>8 DEF AttachProbe, AttachSkip, AttachEnds
<1>9. CASE UnlinkDriver \/ DrainProbes
  BY <1>0, <1>9 DEF UnlinkDriver, DrainProbes
<1>10. CASE DetachDevice \/ DetachEnds \/ DestroyClass \/ UnregisterRegion
  BY <1>0, <1>10 DEF DetachDevice, DetachEnds, DestroyClass, UnregisterRegion
<1>11. CASE PcdStep
  BY <1>7, <1>8, <1>9, <1>10, <1>5, <1>11 DEF PcdStep, Module
<1>12. CASE AddDevice \/ SetupEnds \/ AddDeviceFails \/ UndoEnds
  BY <1>0, <1>12 DEF AddDevice, SetupEnds, AddDeviceFails, UndoEnds
<1>13. CASE VisitProbe \/ VisitSkip
  BY <1>0, <1>13 DEF VisitProbe, VisitSkip
<1>14. CASE UnlinkDevice \/ ReleaseBound \/ ReleaseUnbound \/ UnregisterMissing \/
  SetupGone
  BY <1>0, <1>14 DEF UnlinkDevice, ReleaseBound, ReleaseUnbound, UnregisterMissing,
    SetupGone, NextDevice
<1>15. CASE SetupStep
  BY <1>12, <1>13, <1>14, <1>5, <1>15 DEF SetupStep, Module
<1>16. CASE (\E f \in File : UserOpen(f) \/ UserClose(f)) \/ UNCHANGED vars
  BY <1>0, <1>16 DEF UserOpen, UserClose, vars
<1> QED
  BY <1>6, <1>11, <1>15, <1>16 DEF Next

\* A step keeps the devices that the core finds as the point of setup says.
LEMMA SetupStateStep == ASSUME IInv, [Next]_vars PROVE SetupState'
<1> USE NFact DEF Module, Goto, Becomes, Move, End, core, counter, numbers, rest, Busy,
  Probing, Removing, ProbePoints, RemovePoints, Resource, Found, PcdPoints, SetupPoints,
  TypeOK, Places, Indices, SetupState
<1>0. TypeOK /\ Places /\ Indices /\ SetupState
  BY DEF IInv
<1>1. ASSUME NEW m \in Module, Stays(m) PROVE SetupState'
  BY <1>0, <1>1 DEF Stays
<1>2. ASSUME NEW m \in Module, StoreCount(m) PROVE SetupState'
  BY <1>0, <1>2 DEF StoreCount, Resume
<1>3. ASSUME NEW m \in Module, FreeData(m) PROVE SetupState'
  BY <1>0, <1>3 DEF FreeData, Resume
<1>4. ASSUME NEW m \in Module, ReleaseManaged(m) PROVE SetupState'
  BY <1>0, <1>4 DEF ReleaseManaged, NextDevice
<1>5. ASSUME NEW m \in Module, Call(m) PROVE SetupState'
  BY <1>1, <1>2, <1>3, <1>4, <1>5, <1>0, CallCases
<1>6. CASE SetupInsmod
  BY <1>0, <1>6 DEF SetupInsmod
<1>7. CASE SetupRmmod
  BY <1>0, <1>7 DEF SetupRmmod
<1>8. CASE PcdInsmod \/ PcdRmmod
  BY <1>0, <1>8 DEF PcdInsmod, PcdRmmod
<1>9. CASE AllocRegion \/ RegionFails \/ CreateClass \/ ClassFails \/ RegisterDriver \/
  RegisterFails
  BY <1>0, <1>9 DEF AllocRegion, RegionFails, CreateClass, ClassFails, RegisterDriver,
    RegisterFails
<1>10. CASE AttachProbe \/ AttachSkip \/ AttachEnds
  BY <1>0, <1>10 DEF AttachProbe, AttachSkip, AttachEnds
<1>11. CASE UnlinkDriver \/ DrainProbes \/ DetachDevice \/ DetachEnds \/ DestroyClass \/
  UnregisterRegion
  BY <1>0, <1>11 DEF UnlinkDriver, DrainProbes, DetachDevice, DetachEnds, DestroyClass,
    UnregisterRegion
<1>12. CASE PcdStep
  BY <1>9, <1>10, <1>11, <1>5, <1>12 DEF PcdStep, Module
<1>13. CASE AddDevice
  BY <1>0, <1>13 DEF AddDevice
<1>14. CASE VisitSkip
  BY <1>0, <1>14 DEF VisitSkip
<1>15. CASE UnlinkDevice
  BY <1>0, <1>15 DEF UnlinkDevice
<1>16. CASE ReleaseUnbound
  BY <1>0, <1>16 DEF ReleaseUnbound, NextDevice
<1>17. CASE AddDeviceFails
  BY <1>0, <1>17 DEF AddDeviceFails
<1>18. CASE UndoEnds
  BY <1>0, <1>18 DEF UndoEnds
<1>19. CASE SetupEnds
  BY <1>0, <1>19 DEF SetupEnds
<1>20. CASE VisitProbe \/ ReleaseBound
  BY <1>0, <1>20 DEF VisitProbe, ReleaseBound
<1>21. CASE SetupGone
  BY <1>0, <1>21 DEF SetupGone
<1>22. CASE UnregisterMissing
  BY <1>0, <1>22 DEF UnregisterMissing
<1>23. CASE SetupStep
  BY <1>13, <1>14, <1>15, <1>16, <1>17, <1>18, <1>19, <1>20, <1>21, <1>22, <1>5, <1>23
    DEF SetupStep, Module
<1>24. CASE (\E f \in File : UserOpen(f) \/ UserClose(f)) \/ UNCHANGED vars
  BY <1>0, <1>24 DEF UserOpen, UserClose, vars
<1> QED
  BY <1>6, <1>7, <1>8, <1>12, <1>23, <1>24 DEF Next

\* A step unbinds a device before setup goes on to the next.
LEMMA BoundThereStep == ASSUME IInv, [Next]_vars PROVE BoundThere'
<1> USE NFact DEF Module, Goto, Becomes, Move, End, core, counter, numbers, rest, Busy,
  Probing, Removing, ProbePoints, RemovePoints, Resource, Free, Found, PcdPoints,
  SetupPoints, TypeOK, Places, Indices, SetupState, BoundThere
<1>0. TypeOK /\ Places /\ Indices /\ SetupState /\ BoundThere
  BY DEF IInv
<1>1. ASSUME NEW m \in Module, Stays(m) PROVE BoundThere'
  BY <1>0, <1>1 DEF Stays
<1>2. ASSUME NEW m \in Module, StoreCount(m) PROVE BoundThere'
  BY <1>0, <1>2 DEF StoreCount, Resume
<1>3. ASSUME NEW m \in Module, FreeData(m) PROVE BoundThere'
  BY <1>0, <1>3 DEF FreeData, Resume
<1>4. ASSUME NEW m \in Module, ReleaseManaged(m) PROVE BoundThere'
  BY <1>0, <1>4 DEF ReleaseManaged, NextDevice
<1>5. ASSUME NEW m \in Module, Call(m) PROVE BoundThere'
  BY <1>1, <1>2, <1>3, <1>4, <1>5, <1>0, CallCases
<1>6. CASE PcdInsmod \/ PcdRmmod
  BY <1>0, <1>6 DEF PcdInsmod, PcdRmmod
<1>7. CASE SetupInsmod \/ SetupRmmod
  BY <1>0, <1>7 DEF SetupInsmod, SetupRmmod
<1>8. CASE AllocRegion \/ RegionFails \/ CreateClass \/ ClassFails \/ RegisterDriver \/
  RegisterFails
  BY <1>0, <1>8 DEF AllocRegion, RegionFails, CreateClass, ClassFails, RegisterDriver,
    RegisterFails
<1>9. CASE AttachProbe \/ AttachSkip \/ AttachEnds
  BY <1>0, <1>9 DEF AttachProbe, AttachSkip, AttachEnds
<1>10. CASE DetachDevice
  BY <1>0, <1>10 DEF DetachDevice
<1>11. CASE UnlinkDriver \/ DrainProbes \/ DetachEnds \/ DestroyClass \/
  UnregisterRegion
  BY <1>0, <1>11 DEF UnlinkDriver, DrainProbes, DetachEnds, DestroyClass,
    UnregisterRegion
<1>12. CASE PcdStep
  BY <1>8, <1>9, <1>10, <1>11, <1>5, <1>12 DEF PcdStep, Module
<1>13. CASE AddDevice
  BY <1>0, <1>13 DEF AddDevice
<1>14. CASE VisitProbe \/ ReleaseBound
  BY <1>0, <1>14 DEF VisitProbe, ReleaseBound
<1>15. CASE UnlinkDevice
  BY <1>0, <1>15 DEF UnlinkDevice
<1>16. CASE VisitSkip \/ SetupEnds \/ AddDeviceFails \/ UndoEnds \/ ReleaseUnbound \/
  UnregisterMissing \/ SetupGone
  BY <1>0, <1>16 DEF VisitSkip, SetupEnds, AddDeviceFails, UndoEnds, ReleaseUnbound,
    UnregisterMissing, SetupGone, NextDevice
<1>17. CASE SetupStep
  BY <1>13, <1>14, <1>15, <1>16, <1>5, <1>17 DEF SetupStep, Module
<1>18. CASE (\E f \in File : UserOpen(f) \/ UserClose(f)) \/ UNCHANGED vars
  BY <1>0, <1>18 DEF UserOpen, UserClose, vars
<1> QED
  BY <1>6, <1>7, <1>12, <1>17, <1>18 DEF Next

\* A step of probe, of its labels or of remove leaves its device with what the
\* next point needs, and another device alone.
LEMMA WorkStep == ASSUME IInv, [Next]_vars PROVE Work'
<1> USE NFact DEF Module, Goto, Becomes, Move, End, core, counter, numbers, rest, Busy,
  Probing, Removing, ProbePoints, RemovePoints, Resource, Free, WorkOK, PcdPoints,
  SetupPoints, TypeOK, Places, Indices, Locked, Work, Resting
<1>0. TypeOK /\ Places /\ Indices /\ Locked /\ Work /\ Resting
  BY DEF IInv
<1>1. ASSUME NEW m \in Module, AllocData(m) \/ AllocBuffer(m) \/ AddCdev(m) \/
  CreateNode(m) PROVE Work'
  BY <1>0, <1>1 DEF AllocData, AllocBuffer, AddCdev, CreateNode, Take
<1>2. ASSUME NEW m \in Module, DelCdev(m) \/ FreeBuffer(m) PROVE Work'
  BY <1>0, <1>2 DEF DelCdev, FreeBuffer, GiveBack
<1>3. ASSUME NEW m \in Module, DestroyNode(m) \/ RemoveCdev(m) PROVE Work'
  BY <1>0, <1>3 DEF DestroyNode, RemoveCdev, GiveBack
<1>4. ASSUME NEW m \in Module, StoreCount(m) PROVE Work'
  BY <1>0, <1>4 DEF StoreCount, Resume
<1>5. ASSUME NEW m \in Module, FreeData(m) PROVE Work'
  BY <1>0, <1>5 DEF FreeData, Resume
<1>6. ASSUME NEW m \in Module, ReleaseManaged(m) PROVE Work'
  BY <1>0, <1>6 DEF ReleaseManaged, NextDevice
<1>7. ASSUME NEW m \in Module, ReadCount(m) \/ ProbeFails(m) \/ StoreUncount(m) PROVE
  Work'
  BY <1>0, <1>7 DEF ReadCount, ProbeFails, StoreUncount
<1>8. ASSUME NEW m \in Module, Call(m) PROVE Work'
  BY <1>1, <1>2, <1>3, <1>4, <1>5, <1>6, <1>7, <1>8 DEF Call
<1>9. CASE PcdInsmod \/ PcdRmmod \/ SetupInsmod \/ SetupRmmod
  BY <1>0, <1>9 DEF PcdInsmod, PcdRmmod, SetupInsmod, SetupRmmod
<1>10. CASE PcdStep
  BY <1>0, <1>10, <1>8 DEF PcdStep, AllocRegion, RegionFails, CreateClass, ClassFails,
    RegisterDriver, RegisterFails, AttachProbe, AttachSkip, AttachEnds, UnlinkDriver,
    DrainProbes, DetachDevice, DetachEnds, DestroyClass, UnregisterRegion
<1>11. CASE SetupStep
  BY <1>0, <1>11, <1>8 DEF SetupStep, AddDevice, VisitProbe, VisitSkip, SetupEnds,
    AddDeviceFails, UndoEnds, UnlinkDevice, ReleaseBound, ReleaseUnbound,
    UnregisterMissing, SetupGone, NextDevice
<1>12. CASE (\E f \in File : UserOpen(f) \/ UserClose(f)) \/ UNCHANGED vars
  BY <1>0, <1>12 DEF UserOpen, UserClose, vars
<1> QED
  BY <1>9, <1>10, <1>11, <1>12 DEF Next

\* A step leaves a device with all or nothing when it gives its lock back.
LEMMA RestingStep == ASSUME IInv, [Next]_vars PROVE Resting'
<1> USE NFact DEF Module, Goto, Becomes, Move, End, core, counter, numbers, rest, Busy,
  Probing, Removing, ProbePoints, RemovePoints, Resource, Free, WorkOK, PcdPoints,
  SetupPoints, TypeOK, Places, Indices, Locked, Work, Resting
<1>0. TypeOK /\ Places /\ Indices /\ Locked /\ Work /\ Resting
  BY DEF IInv
<1>1. ASSUME NEW m \in Module, AllocData(m) \/ AllocBuffer(m) \/ AddCdev(m) \/
  CreateNode(m) PROVE Resting'
  BY <1>0, <1>1 DEF AllocData, AllocBuffer, AddCdev, CreateNode, Take
<1>2. ASSUME NEW m \in Module, DelCdev(m) \/ FreeBuffer(m) PROVE Resting'
  BY <1>0, <1>2 DEF DelCdev, FreeBuffer, GiveBack
<1>3. ASSUME NEW m \in Module, DestroyNode(m) \/ RemoveCdev(m) PROVE Resting'
  BY <1>0, <1>3 DEF DestroyNode, RemoveCdev, GiveBack
<1>4. ASSUME NEW m \in Module, StoreCount(m) PROVE Resting'
  BY <1>0, <1>4 DEF StoreCount, Resume
<1>5. ASSUME NEW m \in Module, FreeData(m) PROVE Resting'
  BY <1>0, <1>5 DEF FreeData, Resume
<1>6. ASSUME NEW m \in Module, ReleaseManaged(m) PROVE Resting'
  BY <1>0, <1>6 DEF ReleaseManaged, NextDevice
<1>7. ASSUME NEW m \in Module, ReadCount(m) \/ ProbeFails(m) \/ StoreUncount(m) PROVE
  Resting'
  BY <1>0, <1>7 DEF ReadCount, ProbeFails, StoreUncount
<1>8. ASSUME NEW m \in Module, Call(m) PROVE Resting'
  BY <1>1, <1>2, <1>3, <1>4, <1>5, <1>6, <1>7, <1>8 DEF Call
<1>9. CASE PcdInsmod \/ PcdRmmod \/ SetupInsmod \/ SetupRmmod
  BY <1>0, <1>9 DEF PcdInsmod, PcdRmmod, SetupInsmod, SetupRmmod
<1>10. CASE PcdStep
  BY <1>0, <1>10, <1>8 DEF PcdStep, AllocRegion, RegionFails, CreateClass, ClassFails,
    RegisterDriver, RegisterFails, AttachProbe, AttachSkip, AttachEnds, UnlinkDriver,
    DrainProbes, DetachDevice, DetachEnds, DestroyClass, UnregisterRegion
<1>11. CASE SetupStep
  BY <1>0, <1>11, <1>8 DEF SetupStep, AddDevice, VisitProbe, VisitSkip, SetupEnds,
    AddDeviceFails, UndoEnds, UnlinkDevice, ReleaseBound, ReleaseUnbound,
    UnregisterMissing, SetupGone, NextDevice
<1>12. CASE (\E f \in File : UserOpen(f) \/ UserClose(f)) \/ UNCHANGED vars
  BY <1>0, <1>12 DEF UserOpen, UserClose, vars
<1> QED
  BY <1>9, <1>10, <1>11, <1>12 DEF Next

\* A step passes over a registered device only if it is bound or its probe has
\* failed.
LEMMA ServedStep == IInv /\ [Next]_vars => Served'
<1> SUFFICES ASSUME IInv, [Next]_vars, NEW d \in Dev PROVE ServedAt(d)'
  BY DEF Served
<1> USE NFact DEF Module, Goto, Becomes, Move, End, core, counter, numbers, rest, Busy,
  Probing, Removing, ProbePoints, RemovePoints, Resource, Awaited, Found, PcdPoints,
  SetupPoints
<1>0. TypeOK /\ Places /\ Indices /\ PcdState /\ SetupState /\ ServedAt(d)
  BY DEF IInv, Served
<1>1. ASSUME NEW m \in Module, Stays(m) PROVE ServedAt(d)'
  BY <1>0, <1>1 DEF TypeOK, Places, Indices, PcdState, SetupState, ServedAt, Stays
<1>2. ASSUME NEW m \in Module, StoreCount(m) PROVE ServedAt(d)'
  BY <1>0, <1>2 DEF TypeOK, Places, Indices, PcdState, SetupState, ServedAt, StoreCount,
    Resume
<1>3. ASSUME NEW m \in Module, FreeData(m) PROVE ServedAt(d)'
  BY <1>0, <1>3 DEF TypeOK, Places, Indices, PcdState, SetupState, ServedAt, FreeData,
    Resume
<1>4. ASSUME NEW m \in Module, ReleaseManaged(m) PROVE ServedAt(d)'
  BY <1>0, <1>4 DEF TypeOK, Places, Indices, PcdState, SetupState, ServedAt,
    ReleaseManaged, NextDevice
<1>5. ASSUME NEW m \in Module, Call(m) PROVE ServedAt(d)'
  BY <1>1, <1>2, <1>3, <1>4, <1>5, <1>0, CallCases
<1>6. CASE PcdInsmod
  BY <1>0, <1>6 DEF TypeOK, Places, Indices, PcdState, SetupState, ServedAt, PcdInsmod
<1>7. CASE PcdRmmod
  BY <1>0, <1>7 DEF TypeOK, Places, Indices, PcdState, SetupState, ServedAt, PcdRmmod
<1>8. CASE SetupInsmod
  BY <1>0, <1>8 DEF TypeOK, Places, Indices, PcdState, SetupState, ServedAt, SetupInsmod
<1>9. CASE SetupRmmod
  BY <1>0, <1>9 DEF TypeOK, Places, Indices, PcdState, SetupState, ServedAt, SetupRmmod
<1>10. CASE AllocRegion \/ RegionFails \/ CreateClass \/ ClassFails
  BY <1>0, <1>10 DEF TypeOK, Places, Indices, PcdState, SetupState, ServedAt,
    AllocRegion, RegionFails, CreateClass, ClassFails
<1>11. CASE RegisterDriver
  BY <1>0, <1>11 DEF TypeOK, Places, Indices, PcdState, SetupState, ServedAt,
    RegisterDriver
<1>12. CASE RegisterFails
  BY <1>0, <1>12 DEF TypeOK, Places, Indices, PcdState, SetupState, ServedAt,
    RegisterFails
<1>13. CASE AttachProbe
  BY <1>0, <1>13 DEF TypeOK, Places, Indices, PcdState, SetupState, ServedAt,
    AttachProbe
<1>14. CASE AttachSkip
  BY <1>0, <1>14 DEF TypeOK, Places, Indices, PcdState, SetupState, ServedAt, AttachSkip
<1>15. CASE AttachEnds
  BY <1>0, <1>15 DEF TypeOK, Places, Indices, PcdState, SetupState, ServedAt, AttachEnds
<1>16. CASE UnlinkDriver
  BY <1>0, <1>16 DEF TypeOK, Places, Indices, PcdState, SetupState, ServedAt,
    UnlinkDriver
<1>17. CASE DetachDevice
  BY <1>0, <1>17 DEF TypeOK, Places, Indices, PcdState, SetupState, ServedAt,
    DetachDevice
<1>18. CASE DrainProbes \/ DetachEnds \/ DestroyClass \/ UnregisterRegion
  BY <1>0, <1>18 DEF TypeOK, Places, Indices, PcdState, SetupState, ServedAt,
    DrainProbes, DetachEnds, DestroyClass, UnregisterRegion
<1>19. CASE PcdStep
  BY <1>10, <1>11, <1>12, <1>13, <1>14, <1>15, <1>16, <1>17, <1>18, <1>5, <1>19 DEF
    PcdStep, Module
<1>20. CASE AddDevice
  BY <1>0, <1>20 DEF TypeOK, Places, Indices, PcdState, SetupState, ServedAt, AddDevice
<1>21. CASE VisitProbe
  BY <1>0, <1>21 DEF TypeOK, Places, Indices, PcdState, SetupState, ServedAt, VisitProbe
<1>22. CASE VisitSkip
  BY <1>0, <1>22 DEF TypeOK, Places, Indices, PcdState, SetupState, ServedAt, VisitSkip
<1>23. CASE SetupEnds \/ AddDeviceFails \/ UndoEnds
  BY <1>0, <1>23 DEF TypeOK, Places, Indices, PcdState, SetupState, ServedAt, SetupEnds,
    AddDeviceFails, UndoEnds
<1>24. CASE UnlinkDevice
  BY <1>0, <1>24 DEF TypeOK, Places, Indices, PcdState, SetupState, ServedAt,
    UnlinkDevice
<1>25. CASE ReleaseBound \/ ReleaseUnbound \/ UnregisterMissing \/ SetupGone
  BY <1>0, <1>25 DEF TypeOK, Places, Indices, PcdState, SetupState, ServedAt,
    ReleaseBound, ReleaseUnbound, UnregisterMissing, SetupGone, NextDevice
<1>26. CASE SetupStep
  BY <1>20, <1>21, <1>22, <1>23, <1>24, <1>25, <1>5, <1>26 DEF SetupStep, Module
<1>27. CASE (\E f \in File : UserOpen(f) \/ UserClose(f)) \/ UNCHANGED vars
  BY <1>0, <1>27 DEF ServedAt, UserOpen, UserClose, vars
<1> QED
  BY <1>6, <1>7, <1>8, <1>9, <1>19, <1>26, <1>27 DEF Next

\* A step opens no device before the driver is registered, or when pcd goes.
LEMMA QuietStep == ASSUME IInv, [Next]_vars PROVE Quiet'
<1> USE NFact DEF Module, Goto, Becomes, Move, End, core, counter, numbers, rest, Busy,
  Probing, Removing, ProbePoints, RemovePoints, Resource, AllClosed, WorkOK, Free,
  PcdPoints, SetupPoints, TypeOK, Places, PcdState, Drained, Work, Resting, Quiet
<1>0. TypeOK /\ Places /\ PcdState /\ Drained /\ Work /\ Resting /\ Quiet
  BY DEF IInv
<1>1. ASSUME NEW m \in Module, Call(m) PROVE Quiet'
  BY <1>0, <1>1 DEF Call, AllocData, AllocBuffer, AddCdev, CreateNode, ReadCount,
    StoreCount, ProbeFails, DelCdev, FreeBuffer, FreeData, DestroyNode, RemoveCdev,
    StoreUncount, ReleaseManaged, Take, GiveBack, Resume, NextDevice
<1>2. CASE PcdInsmod \/ PcdRmmod \/ SetupInsmod \/ SetupRmmod
  BY <1>0, <1>2 DEF PcdInsmod, PcdRmmod, SetupInsmod, SetupRmmod
<1>3. CASE PcdStep
  BY <1>0, <1>3, <1>1 DEF PcdStep, AllocRegion, RegionFails, CreateClass, ClassFails,
    RegisterDriver, RegisterFails, AttachProbe, AttachSkip, AttachEnds, UnlinkDriver,
    DrainProbes, DetachDevice, DetachEnds, DestroyClass, UnregisterRegion
<1>4. CASE SetupStep
  BY <1>0, <1>4, <1>1 DEF SetupStep, AddDevice, VisitProbe, VisitSkip, SetupEnds,
    AddDeviceFails, UndoEnds, UnlinkDevice, ReleaseBound, ReleaseUnbound,
    UnregisterMissing, SetupGone, NextDevice
<1>5. CASE (\E f \in File : UserOpen(f) \/ UserClose(f)) \/ UNCHANGED vars
  BY <1>0, <1>5 DEF UserOpen, UserClose, vars
<1> QED
  BY <1>2, <1>3, <1>4, <1>5 DEF Next

-----------------------------------------------------------------------------
\* IInv holds in every state of every behaviour.
LEMMA Invariant == Spec => []IInv
<1>1. ControlType' /\ IndexType' /\ SetType' /\ HasType' /\ CountType' => TypeOK'
  BY DEF TypeOK, ControlType, IndexType, SetType, HasType, CountType
<1>2. IInv /\ [Next]_vars => IInv'
  BY ControlTypeStep, IndexTypeStep, SetTypeStep, HasTypeStep, CountTypeStep, <1>1, PlacesStep,
     IndicesStep, LockedStep, PcdStateStep, DrainedStep, SetupStateStep, BoundThereStep,
     WorkStep, RestingStep, ServedStep, QuietStep DEF IInv
<1> QED
  BY <1>2, IInvInit, PTL DEF Spec

\* Every variable keeps its type, and so the loops of the two modules and of the
\* core stay on the devices of platform_pcdevs.
THEOREM TypeCorrect == Spec => []TypeOK
<1>1. IInv => TypeOK
  BY DEF IInv
<1> QED
  BY <1>1, Invariant, PTL

\* A device at rest has all that probe takes if it is bound, and nothing otherwise,
\* whichever call of probe failed and whichever thread it failed in.
THEOREM WholeOrNothing == Spec => []AllOrNothing
<1>1. ASSUME IInv, NEW d \in Dev, Free(d)
      PROVE  has[d] = IF d \in bound THEN Resource ELSE {}
  <2>1. has[d] \subseteq Resource
    BY <1>1 DEF IInv, TypeOK
  <2>2. \A r \in Resource : r \in has[d] <=> d \in bound
    BY <1>1 DEF IInv, Resting
  <2> QED
    BY <2>1, <2>2
<1>2. IInv => AllOrNothing
  BY <1>1 DEF AllOrNothing
<1> QED
  BY <1>2, Invariant, PTL

\* No node outlives its cdev or the class, and no cdev its memory or the region,
\* also while one thread unloads pcd and the other is in probe or remove.
THEOREM ResourcesStack == Spec => []Stacked
<1>1. ASSUME IInv, NEW d \in Dev
      PROVE  /\ "node" \in has[d] => "cdev" \in has[d]
             /\ "cdev" \in has[d] => "buffer" \in has[d]
             /\ "buffer" \in has[d] => "data" \in has[d]
             /\ "cdev" \in has[d] => d \in bound \/ Probing("pcd") \/ Probing("setup")
  <2>1. CASE Free(d)
    BY <1>1, <2>1 DEF IInv, Resting, Resource
  <2>2. ASSUME NEW m \in Module, Busy(m), at[m] = d
        PROVE  /\ "node" \in has[d] => "cdev" \in has[d]
               /\ "cdev" \in has[d] => "buffer" \in has[d]
               /\ "buffer" \in has[d] => "data" \in has[d]
               /\ d \in bound \/ Probing("pcd") \/ Probing("setup")
    BY <1>1, <2>2 DEF IInv, Work, WorkOK, Busy, Probing, Removing, ProbePoints, RemovePoints,
      Resource, Module
  <2> QED
    BY <2>1, <2>2 DEF Free, Busy
<1>2. ASSUME IInv, bound # {} \/ Probing("pcd") \/ Probing("setup")
      PROVE  class /\ region
  BY <1>2 DEF IInv, Drained, PcdState, Places, PcdPoints, Busy, Probing, Removing, ProbePoints,
    RemovePoints, Resource, TypeOK, Module
<1>3. IInv => Stacked
  BY <1>1, <1>2 DEF Stacked
<1> QED
  BY <1>3, Invariant, PTL

\* When either module is gone no device is bound; when pcd is gone the kernel keeps
\* nothing of it, a failed init and a driver that was never registered included.
THEOREM NothingStays == Spec => []NothingLeft
<1> USE DEF Busy, Probing, Removing, ProbePoints, RemovePoints, Resource, Module
<1>1. ASSUME IInv, loaded["setup"] = "absent" PROVE bound = {} /\ devices = {}
  BY <1>1 DEF IInv, SetupState, BoundThere
<1>2. ASSUME IInv, loaded["pcd"] = "absent" PROVE ~region /\ ~class /\ ~driver /\ bound = {}
  BY <1>2 DEF IInv, PcdState, Drained
<1>3. ASSUME IInv, loaded["pcd"] = "absent", NEW d \in Dev PROVE has[d] = {}
  <2>1. Free(d)
    BY <1>2, <1>3 DEF IInv, PcdState, Drained, Free, Work, WorkOK
  <2>2. has[d] \subseteq Resource /\ \A r \in Resource : r \notin has[d]
    BY <1>2, <1>3, <2>1 DEF IInv, Resting, TypeOK
  <2> QED
    BY <2>2
<1>4. IInv => NothingLeft
  BY <1>1, <1>2, <1>3 DEF NothingLeft
<1> QED
  BY <1>4, Invariant, PTL

\* Neither order of loading, nor loading both at once, misses a device: each is
\* bound, or its probe has failed.
THEOREM AllServed == Spec => []EveryDeviceServed
<1>1. ASSUME IInv, loaded["pcd"] = "live", driver, loaded["setup"] = "live", devices # {},
             NEW d \in Dev
      PROVE  d \in bound \/ d \in rejected
  BY <1>1 DEF IInv, PcdState, SetupState, Found, Served, ServedAt, Awaited, Probing,
    ProbePoints, Resource
<1>2. IInv => EveryDeviceServed
  BY <1>1 DEF EveryDeviceServed, IInv, TypeOK
<1> QED
  BY <1>2, Invariant, PTL

\* rmmod of pcd, and an init that fails, leave no file open on code that is gone.
THEOREM OpenFilesProtected == Spec => []OpenFilesHoldModule
<1>1. IInv => OpenFilesHoldModule
  BY DEF IInv, Quiet, OpenFilesHoldModule, TypeOK, Module
<1> QED
  BY <1>1, Invariant, PTL
-----------------------------------------------------------------------------
(* Each device has a lifecycle of its own. *)

Failing == {"cdev_del", "buffer_free", "data_free"}

At(m, d) == Busy(m) /\ at[m] = d

\* Who is at work on device d, and how far that work has come, is what it was.
SameWork(d) == \A m \in Module :
  /\ At(m, d)' <=> At(m, d)
  /\ At(m, d) => /\ pc'[m] \in RemovePoints <=> pc[m] \in RemovePoints
                 /\ pc'[m] \in Failing <=> pc[m] \in Failing

\* The status of a device that somebody is at work on, and of one that is at rest.
Statuses ==
  /\ \A m \in Module, d \in Dev : At(m, d) =>
       StatusOf(d) = IF Removing(m) THEN "going"
                     ELSE IF pc[m] \in Failing THEN "failing" ELSE "coming"
  /\ \A d \in Dev : Free(d) => StatusOf(d) = IF d \in bound THEN "live" ELSE "absent"

LEMMA StatusesNow == Locked => Statuses
<1> SUFFICES ASSUME Locked PROVE Statuses
  OBVIOUS
<1>1. \A m, n \in Module : Busy(m) /\ Busy(n) /\ at[m] = at[n] => m = n
  BY DEF Locked, Module
<1>2. \A m \in Module : Removing(m) => Busy(m)
  BY DEF Busy
<1>3. \A m \in Module : pc[m] \in Failing => Busy(m) /\ ~Removing(m)
  BY DEF Failing, Busy, Probing, ProbePoints, Removing, RemovePoints, Resource
<1>4. ASSUME NEW m \in Module, NEW d \in Dev, At(m, d)
      PROVE  StatusOf(d) = IF Removing(m) THEN "going"
                           ELSE IF pc[m] \in Failing THEN "failing" ELSE "coming"
  <2>1. ~Free(d)
    BY <1>4 DEF At, Free, Busy
  <2>2. (\E n \in Module : at[n] = d /\ Removing(n)) <=> Removing(m)
    BY <1>1, <1>2, <1>4 DEF At
  <2>3. (\E n \in Module : at[n] = d /\ pc[n] \in Failing) <=> pc[m] \in Failing
    BY <1>1, <1>3, <1>4 DEF At
  <2> QED BY <2>1, <2>2, <2>3 DEF StatusOf, Failing
<1> QED BY <1>4 DEF Statuses, StatusOf

LEMMA StatusesNext == Locked' => Statuses'
BY StatusesNow, PTL

LEMMA StatusRests ==
  ASSUME NEW d \in Dev, SameWork(d), d \in bound' <=> d \in bound
  PROVE  StatusOf(d)' = StatusOf(d)
<1>1. Free(d)' <=> Free(d)
  BY DEF SameWork, At, Free, Busy
<1>2. (\E m \in Module : at[m] = d /\ Removing(m))' <=> \E m \in Module : at[m] = d /\ Removing(m)
  BY DEF SameWork, At, Busy, Removing
<1>3. (\E m \in Module : at[m] = d /\ pc[m] \in Failing)'
        <=> \E m \in Module : at[m] = d /\ pc[m] \in Failing
  <2>1. \A m \in Module : /\ pc[m] \in Failing => Busy(m)
                          /\ pc'[m] \in Failing => Busy(m)'
    BY DEF Failing, Busy, Probing, ProbePoints, Resource
  <2> QED BY <2>1 DEF SameWork, At
<1> QED BY <1>1, <1>2, <1>3 DEF StatusOf, Failing

\* Steps of a device's lifecycle.
LEMMA Takes ==
  ASSUME NEW d \in Dev, NEW r \in {"data", "cdev", "node"},
         StatusOf(d) = "coming", StatusOf(d)' = "coming",
         r \notin has[d], has'[d] = has[d] \cup {r},
         r = "cdev" => "data" \in has[d], r = "node" => "cdev" \in has[d]
  PROVE  Serving(d)!Next
BY DEF Serving!Next, Serving!Take, HeldFor

LEMMA Gives ==
  ASSUME NEW d \in Dev, NEW r \in {"data", "cdev", "node"},
         StatusOf(d) \in {"failing", "going"},
         HeldFor(d)' = HeldFor(d) \ {r}, r \in HeldFor(d),
         StatusOf(d)' = StatusOf(d) \/ (StatusOf(d)' = "absent" /\ HeldFor(d)' = {}),
         r = "data" => "cdev" \notin has[d], r = "cdev" => "node" \notin has[d]
  PROVE  Serving(d)!Next
BY DEF Serving!Next, Serving!GiveBack, HeldFor

LEMMA Keeps ==
  ASSUME NEW d \in Dev, StatusOf(d)' = StatusOf(d), HeldFor(d)' = HeldFor(d)
  PROVE  [Serving(d)!Next]_(Serving(d)!lifecycle)
BY DEF Serving!lifecycle

\* What a device at work has at each point, in the terms of its lifecycle.
LEMMA HasAt ==
  ASSUME IInv, NEW m \in Module, NEW d \in Dev, At(m, d)
  PROVE  /\ has[d] \subseteq Resource
         /\ "data" \in has[d] <=> pc[m] # "data"
         /\ "cdev" \in has[d] <=>
              pc[m] \in {"node", "count", "counted", "cdev_del", "destroy", "remove_cdev"}
         /\ "node" \in has[d] <=> pc[m] \in {"count", "counted", "destroy"}
         /\ Removing(m) <=> d \in bound
<1>1. WorkOK(m) /\ has \in [Dev -> SUBSET Resource]
  BY DEF IInv, Work, TypeOK
<1> QED BY <1>1 DEF WorkOK, Busy, At

\* A step of probe or remove of one device leaves the others as they are.
LEMMA CallElsewhere ==
  ASSUME IInv, NEW m \in Module, Call(m), NEW d \in Dev, d # at[m]
  PROVE  StatusOf(d)' = StatusOf(d) /\ has'[d] = has[d]
<1>0. TypeOK /\ Places
  BY DEF IInv
<1>1. /\ \A n \in Module \ {m} : pc'[n] = pc[n] /\ at'[n] = at[n]
      /\ Busy(m)' => at'[m] = at[m]
      /\ d \in bound' <=> d \in bound
  <2>1. CASE Stays(m)
    BY <1>0, <2>1 DEF Stays, TypeOK, core
  <2>2. CASE StoreCount(m) \/ FreeData(m) \/ ReleaseManaged(m)
    <3>1. /\ pc'[m] \notin ProbePoints \cup RemovePoints
          /\ \A n \in Module \ {m} : pc'[n] = pc[n] /\ at'[n] = at[n]
      BY <1>0, <2>2 DEF StoreCount, FreeData, ReleaseManaged, Resume, NextDevice, TypeOK,
         ProbePoints, RemovePoints, Resource
    <3> QED BY <1>0, <2>2, <3>1 DEF Busy, Probing, Removing, StoreCount, FreeData,
         ReleaseManaged
  <2> QED BY <1>0, <2>1, <2>2, CallCases
<1>2. SameWork(d)
  BY <1>1 DEF SameWork, At, Busy, Probing, Removing
<1>3. has'[d] = has[d]
  BY <1>0 DEF TypeOK, Call, AllocData, AllocBuffer, AddCdev, CreateNode, ReadCount,
    StoreCount, ProbeFails, DelCdev, FreeBuffer, FreeData, DestroyNode, RemoveCdev,
    StoreUncount, ReleaseManaged, Take, GiveBack, Move
<1> QED BY <1>1, <1>2, <1>3, StatusRests

\* A step of probe or remove is one of the lifecycle of its device.
LEMMA CallServes ==
  ASSUME IInv, IInv', NEW m \in Module, Call(m), NEW d \in Dev, at[m] = d
  PROVE  [Serving(d)!Next]_(Serving(d)!lifecycle)
<1>0. TypeOK /\ Places /\ Statuses /\ Statuses' /\ m \in {"pcd", "setup"}
  BY StatusesNow, StatusesNext DEF IInv, Module
<1>1. At(m, d)
  BY <1>0 DEF Call, AllocData, AllocBuffer, AddCdev, CreateNode, ReadCount, StoreCount,
     ProbeFails, DelCdev, FreeBuffer, FreeData, DestroyNode, RemoveCdev, StoreUncount,
     ReleaseManaged, Take, GiveBack, Move, Goto, Busy, Probing, Removing, ProbePoints,
     RemovePoints, Resource, At
<1>2. /\ has[d] \subseteq Resource
      /\ "data" \in has[d] <=> pc[m] # "data"
      /\ "cdev" \in has[d] <=>
           pc[m] \in {"node", "count", "counted", "cdev_del", "destroy", "remove_cdev"}
      /\ "node" \in has[d] <=> pc[m] \in {"count", "counted", "destroy"}
      /\ Removing(m) <=> d \in bound
  BY <1>1, HasAt
<1>3. StatusOf(d) = IF Removing(m) THEN "going"
                    ELSE IF pc[m] \in Failing THEN "failing" ELSE "coming"
  BY <1>0, <1>1 DEF Statuses
<1>4. ASSUME Stays(m)
      PROVE  StatusOf(d)' = IF Removing(m) THEN "going"
                            ELSE IF pc'[m] \in Failing THEN "failing" ELSE "coming"
  <2>1. At(m, d)' /\ (Removing(m)' <=> Removing(m))
    BY <1>0, <1>4 DEF Stays, At, Busy, Probing, Removing, ProbePoints, RemovePoints, Resource,
       TypeOK
  <2> QED BY <1>0, <2>1 DEF Statuses
<1>5. ASSUME StoreCount(m) \/ FreeData(m) \/ ReleaseManaged(m)
      PROVE  StatusOf(d)' = IF d \in bound' THEN "live" ELSE "absent"
  <2>1. ~Busy(m)' /\ \A n \in Module \ {m} : pc'[n] = pc[n] /\ at'[n] = at[n]
    BY <1>0, <1>5 DEF StoreCount, FreeData, ReleaseManaged, Resume, NextDevice, TypeOK,
       Busy, Probing, Removing, ProbePoints, RemovePoints, Resource
  <2>2. \A n \in Module \ {m} : Busy(n) => at[n] # d
    BY <1>1 DEF IInv, Locked, Module, At
  <2>3. Free(d)'
    BY <2>1, <2>2 DEF Free, Busy, Probing, Removing
  <2> QED BY <1>0, <2>3 DEF Statuses
<1>6. ASSUME NEW what \in Resource, NEW to \in ProbePoints \ Failing, Take(m, what, to)
      PROVE  StatusOf(d) = "coming" /\ StatusOf(d)' = "coming" /\ has'[d] = has[d] \cup {what}
  <2>1. Stays(m) /\ pc'[m] = to /\ pc[m] = what /\ ~Removing(m)
    BY <1>0, <1>6 DEF Take, Goto, Stays, Probing, Removing, ProbePoints, RemovePoints,
       Points, Resource, TypeOK, core, numbers, rest, counter
  <2>2. has'[d] = has[d] \cup {what}
    BY <1>0, <1>6 DEF Take, TypeOK
  <2> QED BY <1>3, <1>4, <1>6, <2>1, <2>2 DEF Failing, Resource
<1>7. CASE AllocData(m) \/ AddCdev(m) \/ CreateNode(m)
  <2>1. PICK r \in {"data", "cdev", "node"} :
          /\ pc[m] = r /\ StatusOf(d) = "coming" /\ StatusOf(d)' = "coming"
          /\ has'[d] = has[d] \cup {r}
    <3>1. CASE AllocData(m)
      BY <1>6, <3>1 DEF AllocData, Take, Goto, ProbePoints, Failing, Resource
    <3>2. CASE AddCdev(m)
      BY <1>6, <3>2 DEF AddCdev, Take, Goto, ProbePoints, Failing, Resource
    <3>3. CASE CreateNode(m)
      BY <1>6, <3>3 DEF CreateNode, Take, Goto, ProbePoints, Failing, Resource
    <3> QED BY <1>7, <3>1, <3>2, <3>3
  <2>2. /\ r \notin has[d]
        /\ r = "cdev" => "data" \in has[d]
        /\ r = "node" => "cdev" \in has[d]
    BY <1>2, <2>1
  <2> QED BY <2>1, <2>2, Takes
<1>8. CASE AllocBuffer(m)
  <2>1. StatusOf(d) = "coming" /\ StatusOf(d)' = "coming" /\ has'[d] = has[d] \cup {"buffer"}
    BY <1>6, <1>8 DEF AllocBuffer, Take, Goto, ProbePoints, Failing, Resource
  <2>2. HeldFor(d)' = HeldFor(d)
    BY <2>1 DEF HeldFor
  <2> QED BY <2>1, <2>2, Keeps
<1>9. CASE ReadCount(m) \/ StoreUncount(m)
  <2>1. /\ Stays(m) /\ pc[m] \notin Failing /\ pc'[m] \notin Failing /\ has' = has
    BY <1>0, <1>9 DEF ReadCount, StoreUncount, Goto, Stays, Probing, Removing, ProbePoints,
       RemovePoints, Points, Resource, Failing, TypeOK, core, numbers, rest
  <2> QED BY <1>3, <1>4, <2>1, Keeps DEF HeldFor
<1>10. CASE ProbeFails(m)
  <2>1. /\ Stays(m) /\ ~Removing(m) /\ pc[m] \notin Failing /\ pc'[m] \in Failing /\ has' = has
    BY <1>0, <1>10 DEF ProbeFails, Move, Goto, Stays, Probing, Removing, ProbePoints,
       RemovePoints, Points, Resource, Failing, TypeOK, core, numbers, rest
  <2>2. StatusOf(d) = "coming" /\ StatusOf(d)' = "failing"
    BY <1>3, <1>4, <2>1
  <2> QED BY <2>1, <2>2 DEF HeldFor, Serving!Next, Serving!Fail
<1>11. CASE StoreCount(m)
  <2>1. pc[m] = "counted" /\ has' = has /\ d \in bound'
    BY <1>11 DEF StoreCount
  <2>2. StatusOf(d) = "coming" /\ StatusOf(d)' = "live"
    BY <1>3, <1>5, <1>11, <2>1 DEF Removing, RemovePoints, Failing
  <2>3. HeldFor(d) = {"data", "cdev", "node"}
    BY <1>2, <2>1 DEF HeldFor, Resource
  <2> QED BY <2>1, <2>2, <2>3 DEF HeldFor, Serving!Next, Serving!Complete
<1>12. CASE DelCdev(m) \/ DestroyNode(m) \/ RemoveCdev(m)
  <2>1. PICK r \in {"cdev", "node"} :
          /\ has'[d] = has[d] \ {r}
          /\ pc[m] = IF r = "node" THEN "destroy"
                     ELSE IF Removing(m) THEN "remove_cdev" ELSE "cdev_del"
    BY <1>0, <1>12 DEF DelCdev, DestroyNode, RemoveCdev, GiveBack, Goto, TypeOK, Removing,
       RemovePoints
  <2>2. Stays(m) /\ (~Removing(m) => pc[m] \in Failing /\ pc'[m] \in Failing)
    BY <1>0, <1>12 DEF DelCdev, DestroyNode, RemoveCdev, GiveBack, Goto, Stays, Probing,
       Removing, ProbePoints, RemovePoints, Points, Resource, Failing, TypeOK, core, numbers,
       rest
  <2>3. StatusOf(d) \in {"failing", "going"} /\ StatusOf(d)' = StatusOf(d)
    BY <1>3, <1>4, <2>2
  <2>4. r \in HeldFor(d) /\ HeldFor(d)' = HeldFor(d) \ {r} /\ (r = "cdev" => "node" \notin has[d])
    BY <1>2, <2>1 DEF HeldFor
  <2> QED BY <2>3, <2>4, Gives
<1>13. CASE FreeBuffer(m)
  <2>1. /\ Stays(m) /\ ~Removing(m) /\ pc[m] \in Failing /\ pc'[m] \in Failing
        /\ has'[d] = has[d] \ {"buffer"}
    BY <1>0, <1>13 DEF FreeBuffer, GiveBack, Goto, Stays, Probing, Removing, ProbePoints,
       RemovePoints, Points, Resource, Failing, TypeOK, core, numbers, rest
  <2> QED BY <1>3, <1>4, <2>1, Keeps DEF HeldFor
<1>14. CASE FreeData(m)
  <2>1. /\ pc[m] \in {"data", "data_free"} /\ has'[d] = has[d] \ {"data"} /\ bound' = bound
        /\ ~Removing(m)
    BY <1>0, <1>14 DEF FreeData, TypeOK, Removing, RemovePoints
  <2>2. StatusOf(d)' = "absent"
    BY <1>2, <1>5, <1>14, <2>1
  <2>3. HeldFor(d)' = {}
    BY <1>2, <2>1 DEF HeldFor, Resource
  <2>4. CASE pc[m] = "data"
    <3>1. StatusOf(d) = "coming" /\ HeldFor(d) = {}
      BY <1>2, <1>3, <2>1, <2>4 DEF HeldFor, Resource, Failing
    <3> QED BY <2>2, <2>3, <3>1 DEF Serving!Next, Serving!Fail
  <2>5. CASE pc[m] = "data_free"
    <3>1. StatusOf(d) = "failing" /\ HeldFor(d) = {"data"} /\ "cdev" \notin has[d]
      BY <1>2, <1>3, <2>1, <2>5 DEF HeldFor, Resource, Failing
    <3> QED BY <2>2, <2>3, <3>1, Gives
  <2> QED BY <2>1, <2>4, <2>5
<1>15. CASE ReleaseManaged(m)
  <2>1. /\ pc[m] = "devres" /\ has'[d] = has[d] \ {"data", "buffer"} /\ d \notin bound'
    BY <1>0, <1>15 DEF ReleaseManaged, TypeOK
  <2>2. StatusOf(d) = "going" /\ StatusOf(d)' = "absent"
    BY <1>3, <1>5, <1>15, <2>1 DEF Removing, RemovePoints
  <2>3. HeldFor(d) = {"data"} /\ HeldFor(d)' = {} /\ "cdev" \notin has[d]
    BY <1>2, <2>1 DEF HeldFor, Resource
  <2> QED BY <2>2, <2>3, Gives
<1> QED BY <1>7, <1>8, <1>9, <1>10, <1>11, <1>12, <1>13, <1>14, <1>15 DEF Call

\* A thread that has taken a device's lock begins a probe or a remove of it.
LEMMA BeginServes ==
  ASSUME IInv, IInv', AttachProbe \/ VisitProbe \/ DetachDevice \/ ReleaseBound,
         NEW d \in Dev
  PROVE  [Serving(d)!Next]_(Serving(d)!lifecycle)
<1>0. TypeOK /\ Places /\ Statuses /\ Statuses'
  BY StatusesNow, StatusesNext DEF IInv
<1>1. PICK m \in Module :
        /\ ~Busy(m) /\ Busy(m)' /\ Free(at'[m]) /\ pc'[m] \in {"data", "destroy"}
        /\ pc'[m] = "data" <=> at'[m] \notin bound
        /\ \A n \in Module \ {m} : pc'[n] = pc[n] /\ at'[n] = at[n]
        /\ bound' = bound /\ has' = has
  <2>1. CASE AttachProbe
    BY <1>0, <2>1 DEF AttachProbe, Move, Goto, TypeOK, core, Busy, Probing, Removing,
       ProbePoints, RemovePoints, Resource, Module
  <2>2. CASE VisitProbe
    BY <1>0, <2>2 DEF VisitProbe, Move, Goto, TypeOK, core, Busy, Probing, Removing,
       ProbePoints, RemovePoints, Resource, Module
  <2>3. CASE DetachDevice
    BY <1>0, <2>3 DEF DetachDevice, Goto, TypeOK, core, Busy, Probing, Removing,
       ProbePoints, RemovePoints, Resource, Module
  <2>4. CASE ReleaseBound
    BY <1>0, <2>4 DEF ReleaseBound, Move, Goto, TypeOK, core, Busy, Probing, Removing,
       ProbePoints, RemovePoints, Resource, Module
  <2> QED BY <2>1, <2>2, <2>3, <2>4
<1>2. CASE at'[m] # d
  <2>1. SameWork(d)
    BY <1>1, <1>2 DEF SameWork, At, Busy, Probing, Removing
  <2> QED BY <1>1, <2>1, StatusRests, Keeps DEF HeldFor
<1>3. CASE at'[m] = d
  <2>1. Free(d) /\ At(m, d)'
    BY <1>1, <1>3 DEF At
  <2>2. StatusOf(d) = IF d \in bound THEN "live" ELSE "absent"
    BY <1>0, <2>1 DEF Statuses
  <2>3. StatusOf(d)' = IF d \in bound THEN "going" ELSE "coming"
    <3>1. pc'[m] \notin Failing /\ (Removing(m)' <=> d \in bound)
      BY <1>1, <1>3 DEF Failing, Removing, RemovePoints
    <3> QED BY <1>0, <2>1, <3>1 DEF Statuses
  <2> QED BY <1>1, <2>2, <2>3
      DEF HeldFor, Serving!Next, Serving!Load, Serving!Unload
<1> QED BY <1>2, <1>3

\* Everything else leaves all devices as they are.
LEMMA RestServes ==
  ASSUME IInv, [Next]_vars, \A m \in Module : ~Call(m),
         ~AttachProbe, ~VisitProbe, ~DetachDevice, ~ReleaseBound, NEW d \in Dev
  PROVE  [Serving(d)!Next]_(Serving(d)!lifecycle)
<1>0. TypeOK /\ Places
  BY DEF IInv
<1>1. /\ bound' = bound /\ has' = has
      /\ \A m \in Module : \/ pc'[m] = pc[m] /\ at'[m] = at[m]
                           \/ ~Busy(m) /\ ~Busy(m)'
  <2> USE <1>0 DEF TypeOK, Module, Goto, Move, End, Becomes, core, numbers, counter, rest, Busy,
      Probing, Removing, ProbePoints, RemovePoints, Resource
  <2>1. CASE PcdInsmod \/ PcdRmmod \/ SetupInsmod \/ SetupRmmod
    BY <2>1 DEF PcdInsmod, PcdRmmod, SetupInsmod, SetupRmmod
  <2>2. CASE PcdStep
    BY <2>2 DEF PcdStep, AllocRegion, RegionFails, CreateClass, ClassFails, RegisterDriver,
      RegisterFails, AttachSkip, AttachEnds, UnlinkDriver, DrainProbes, DetachEnds,
      DestroyClass, UnregisterRegion
  <2>3. CASE SetupStep
    BY <2>3 DEF SetupStep, AddDevice, VisitSkip, SetupEnds, AddDeviceFails, UndoEnds,
      UnlinkDevice, ReleaseUnbound, UnregisterMissing, SetupGone, NextDevice
  <2>4. CASE (\E f \in File : UserOpen(f) \/ UserClose(f)) \/ UNCHANGED vars
    BY <2>4 DEF UserOpen, UserClose, vars
  <2> QED BY <2>1, <2>2, <2>3, <2>4 DEF Next
<1>2. SameWork(d)
  BY <1>1 DEF SameWork, At, Busy, Probing, Removing
<1> QED BY <1>1, <1>2, StatusRests, Keeps DEF HeldFor

LEMMA Serves ==
  ASSUME IInv, IInv', [Next]_vars, NEW d \in Dev
  PROVE  [Serving(d)!Next]_(Serving(d)!lifecycle)
<1>1. ASSUME NEW m \in Module, Call(m) PROVE [Serving(d)!Next]_(Serving(d)!lifecycle)
  <2>1. CASE at[m] = d
    BY <1>1, <2>1, CallServes
  <2>2. CASE at[m] # d
    BY <1>1, <2>2, CallElsewhere, Keeps DEF HeldFor
  <2> QED BY <2>1, <2>2
<1> QED BY <1>1, BeginServes, RestServes

\* The driver gives each of its devices the lifecycle that Lifecycle promises,
\* whichever thread probes and removes it and whichever call fails.
THEOREM EachDeviceServed == Spec => DeviceLifecycles
<1>1. Init => \A d \in Dev : Serving(d)!Init
  BY DEF Init, Serving!Init, StatusOf, HeldFor, Free, Probing, Removing, ProbePoints,
     RemovePoints, Resource
<1>2. IInv /\ IInv' /\ [Next]_vars
        => [\A d \in Dev : [Serving(d)!Next]_(Serving(d)!lifecycle)]_vars
  BY Serves
<1> QED BY <1>1, <1>2, Invariant, PTL DEF Spec, DeviceLifecycles
=============================================================================
