--------------------------- MODULE ScullModuleProofs ---------------------------
(***************************************************************************)
(* Proofs about ScullModule, for any number of devices and files, any set  *)
(* of major numbers and any choice of failing calls.  Made inductive, the  *)
(* properties need how far init or exit has come (Progress), that a cdev   *)
(* in the map is a device that is set up and not yet taken out (Live), and *)
(* that without a failed region or a write to scull_major the driver holds *)
(* the region of scull_major, which exit copies into first (Held).         *)
(***************************************************************************)
EXTENDS ScullModule, TLAPS

\* The module's state and the point of its init or exit.
Progress ==
  /\ module \in {"absent", "live"} => pc = "none"
  /\ module = "coming" => pc \in {"region", "alloc", "setup", "add", "fail"}
  /\ module = "going" => pc \in {"del", "unregister"}
  /\ pc = "add" => i < NrDevs
  /\ pc = "fail" => ret = ENOMEM

\* A cdev in the map, and an open file, lead to a device that is set up.
Live ==
  /\ \A c \in cdevs : c[2] \in ready
  /\ \A f \in File : open[f] # NoDevice /\ module # "absent" => open[f] \in ready
  /\ module = "absent" \/ pc \in {"region", "alloc", "fail"} => cdevs = {}
  /\ module = "going" \/ pc \in {"region", "alloc", "fail"} => AllClosed
  /\ module = "live" \/ pc \in {"setup", "add", "del"} => devices
  /\ pc = "add" => i \in ready
  /\ pc = "del" => \A c \in cdevs : c[2] >= i
  /\ pc = "unregister" => cdevs = {} /\ ~devices

\* The region that the driver holds.
Held ==
  ret = 0 /\ ~written =>
    /\ module = "live" \/ pc \in {"alloc", "setup", "add", "del"} =>
         first = major /\ major \in regions
    /\ \A c \in cdevs : c[1] \in regions
    /\ module = "absent" => first \notin regions /\ ~devices

IInv == TypeOK /\ Progress /\ Live /\ Held

-----------------------------------------------------------------------------
(* Every step keeps each part of IInv. *)

\* Every step keeps the types.
LEMMA TypeStep == ASSUME IInv, [Next]_vars PROVE TypeOK'
<1> USE ScullModuleAssumption DEF kernel, EBUSY, ENOMEM, Index
<1>0. TypeOK /\ Progress
  BY DEF IInv
<1>1. CASE Insmod
  BY <1>0, <1>1 DEF TypeOK, Progress, Insmod
<1>2. CASE RegisterRegion
  BY <1>0, <1>2 DEF TypeOK, Progress, RegisterRegion
<1>3. CASE RegionFails
  BY <1>0, <1>3 DEF TypeOK, Progress, RegionFails
<1>4. CASE AllocDevices
  BY <1>0, <1>4 DEF TypeOK, Progress, AllocDevices
<1>5. CASE AllocFails
  BY <1>0, <1>5 DEF TypeOK, Progress, AllocFails
<1>6. CASE SetUpDevice
  BY <1>0, <1>6 DEF TypeOK, Progress, SetUpDevice
<1>7. CASE AddCdev
  BY <1>0, <1>7 DEF TypeOK, Progress, AddCdev
<1>8. CASE InitReturns
  <2>1. written' \in BOOLEAN /\ devices' \in BOOLEAN
    BY <1>0, <1>8, Zenon DEF TypeOK, InitReturns
  <2>2. /\ module' \in {"absent", "coming", "live", "going"}
        /\ pc' \in {"none", "region", "alloc", "setup", "add", "fail", "del", "unregister"}
        /\ i' \in 0 .. NrDevs /\ ret' \in {0, EBUSY, ENOMEM}
        /\ first' \in Majors /\ major' \in Majors
    BY <1>0, <1>8 DEF TypeOK, InitReturns
  <2>3. /\ ready' \subseteq Index /\ regions' \subseteq Majors \ {0}
        /\ cdevs' \subseteq Majors \X Index /\ stale' \subseteq Majors \X Index
        /\ open' \in [File -> Index \cup {NoDevice}]
    BY <1>0, <1>8 DEF TypeOK, InitReturns
  <2> QED
    BY <2>1, <2>2, <2>3 DEF TypeOK
<1>9. CASE DelCdev
  BY <1>0, <1>9 DEF TypeOK, Progress, DelCdev
<1>10. CASE UnregisterRegion
  BY <1>0, <1>10 DEF TypeOK, Progress, UnregisterRegion
<1>11. CASE Rmmod
  BY <1>0, <1>11 DEF TypeOK, Progress, Rmmod
<1>12. CASE AddCdevFails
  BY <1>0, <1>12 DEF TypeOK, Progress, AddCdevFails
<1>13. CASE FreeDevices
  <2>1. written' \in BOOLEAN /\ devices' \in BOOLEAN
    BY <1>0, <1>13, Zenon DEF TypeOK, FreeDevices
  <2>2. /\ module' \in {"absent", "coming", "live", "going"}
        /\ pc' \in {"none", "region", "alloc", "setup", "add", "fail", "del", "unregister"}
        /\ i' \in 0 .. NrDevs /\ ret' \in {0, EBUSY, ENOMEM}
        /\ first' \in Majors /\ major' \in Majors
    BY <1>0, <1>13 DEF TypeOK, FreeDevices
  <2>3. /\ ready' \subseteq Index /\ regions' \subseteq Majors \ {0}
        /\ cdevs' \subseteq Majors \X Index /\ stale' \subseteq Majors \X Index
        /\ open' \in [File -> Index \cup {NoDevice}]
    BY <1>0, <1>13 DEF TypeOK, FreeDevices
  <2> QED
    BY <2>1, <2>2, <2>3 DEF TypeOK
<1>14. CASE WriteMajor
  <2>1. written' \in BOOLEAN /\ devices' \in BOOLEAN
    BY <1>0, <1>14, Zenon DEF TypeOK, WriteMajor
  <2>2. /\ module' \in {"absent", "coming", "live", "going"}
        /\ pc' \in {"none", "region", "alloc", "setup", "add", "fail", "del", "unregister"}
        /\ i' \in 0 .. NrDevs /\ ret' \in {0, EBUSY, ENOMEM}
        /\ first' \in Majors /\ major' \in Majors
    BY <1>0, <1>14 DEF TypeOK, WriteMajor
  <2>3. /\ ready' \subseteq Index /\ regions' \subseteq Majors \ {0}
        /\ cdevs' \subseteq Majors \X Index /\ stale' \subseteq Majors \X Index
        /\ open' \in [File -> Index \cup {NoDevice}]
    BY <1>0, <1>14 DEF TypeOK, WriteMajor
  <2> QED
    BY <2>1, <2>2, <2>3 DEF TypeOK
<1>15. ASSUME NEW f \in File, UserOpen(f) \/ UserClose(f) PROVE TypeOK'
  BY <1>0, <1>15 DEF TypeOK, Progress, UserOpen, UserClose
<1>16. CASE UNCHANGED vars
  BY <1>0, <1>16 DEF vars, TypeOK, Progress
<1> QED
  BY <1>1, <1>2, <1>3, <1>4, <1>5, <1>6, <1>7, <1>8, <1>9, <1>10, <1>11, <1>12, <1>13,
    <1>14, <1>15, <1>16 DEF Next, LoadStep

\* Init and exit take their steps in order.
LEMMA ProgressStep == ASSUME IInv, [Next]_vars PROVE Progress'
<1> USE ScullModuleAssumption DEF kernel, EBUSY, ENOMEM, Index
<1>0. Progress /\ TypeOK
  BY DEF IInv
<1>1. CASE InitReturns
  BY <1>0, <1>1 DEF Progress, TypeOK, InitReturns
<1>2. CASE AddCdev \/ AddCdevFails
  BY <1>0, <1>2 DEF Progress, TypeOK, AddCdev, AddCdevFails
<1>3. CASE Insmod \/ RegisterRegion \/ RegionFails \/ AllocDevices \/ AllocFails \/
  SetUpDevice \/ DelCdev \/ FreeDevices \/ UnregisterRegion \/ Rmmod \/ WriteMajor
  BY <1>0, <1>3 DEF Progress, TypeOK, Insmod, RegisterRegion, RegionFails, AllocDevices,
    AllocFails, SetUpDevice, DelCdev, FreeDevices, UnregisterRegion, Rmmod, WriteMajor
<1>4. ASSUME NEW f \in File, UserOpen(f) \/ UserClose(f) PROVE Progress'
  BY <1>0, <1>4 DEF Progress, TypeOK, UserOpen, UserClose
<1>5. CASE UNCHANGED vars
  BY <1>0, <1>5 DEF vars, Progress, TypeOK
<1> QED
  BY <1>1, <1>2, <1>3, <1>4, <1>5 DEF Next, LoadStep

\* A device is set up before it goes live, and goes before its memory.
LEMMA LiveStep == ASSUME IInv, [Next]_vars PROVE Live'
<1> USE ScullModuleAssumption DEF kernel, EBUSY, ENOMEM, Index, AllClosed
<1>0. Live /\ TypeOK /\ Progress
  BY DEF IInv
<1>1. CASE Insmod
  BY <1>0, <1>1 DEF Live, TypeOK, Progress, Insmod
<1>2. CASE RegisterRegion \/ RegionFails
  BY <1>0, <1>2 DEF Live, TypeOK, Progress, RegisterRegion, RegionFails
<1>3. CASE SetUpDevice
  BY <1>0, <1>3 DEF Live, TypeOK, Progress, SetUpDevice
<1>4. CASE AddCdev
  BY <1>0, <1>4 DEF Live, TypeOK, Progress, AddCdev
<1>5. CASE AddCdevFails
  BY <1>0, <1>5 DEF Live, TypeOK, Progress, AddCdevFails
<1>6. CASE InitReturns
  BY <1>0, <1>6 DEF Live, TypeOK, Progress, InitReturns
<1>7. CASE DelCdev
  BY <1>0, <1>7 DEF Live, TypeOK, Progress, DelCdev
<1>8. CASE FreeDevices
  BY <1>0, <1>8 DEF Live, TypeOK, Progress, FreeDevices
<1>9. CASE UnregisterRegion
  BY <1>0, <1>9 DEF Live, TypeOK, Progress, UnregisterRegion
<1>10. CASE Rmmod
  BY <1>0, <1>10 DEF Live, TypeOK, Progress, Rmmod
<1>11. CASE AllocDevices \/ AllocFails \/ WriteMajor
  BY <1>0, <1>11 DEF Live, TypeOK, Progress, AllocDevices, AllocFails, WriteMajor
<1>12. ASSUME NEW f \in File, UserOpen(f) \/ UserClose(f) PROVE Live'
  BY <1>0, <1>12 DEF Live, TypeOK, Progress, UserOpen, UserClose
<1>13. CASE UNCHANGED vars
  BY <1>0, <1>13 DEF vars, Live, TypeOK, Progress
<1> QED
  BY <1>1, <1>2, <1>3, <1>4, <1>5, <1>6, <1>7, <1>8, <1>9, <1>10, <1>11, <1>12, <1>13
    DEF Next, LoadStep

\* The region stays as long as a cdev lies in it.
LEMMA HeldStep == ASSUME IInv, [Next]_vars PROVE Held'
<1> USE ScullModuleAssumption DEF kernel, EBUSY, ENOMEM, Index
<1>0. Held /\ TypeOK /\ Progress /\ Live
  BY DEF IInv
<1>1. CASE Insmod
  BY <1>0, <1>1 DEF Held, TypeOK, Progress, Live, Insmod
<1>2. CASE RegisterRegion
  BY <1>0, <1>2 DEF Held, TypeOK, Progress, Live, RegisterRegion
<1>3. CASE RegionFails
  BY <1>0, <1>3 DEF Held, TypeOK, Progress, Live, RegionFails
<1>4. CASE AddCdev
  BY <1>0, <1>4 DEF Held, TypeOK, Progress, Live, AddCdev
<1>5. CASE InitReturns
  BY <1>0, <1>5 DEF Held, TypeOK, Progress, Live, InitReturns
<1>6. CASE DelCdev
  BY <1>0, <1>6 DEF Held, TypeOK, Progress, Live, DelCdev
<1>7. CASE FreeDevices
  BY <1>0, <1>7 DEF Held, TypeOK, Progress, Live, FreeDevices
<1>8. CASE UnregisterRegion
  BY <1>0, <1>8 DEF Held, TypeOK, Progress, Live, UnregisterRegion
<1>9. CASE Rmmod
  BY <1>0, <1>9 DEF Held, TypeOK, Progress, Live, Rmmod
<1>10. CASE AllocDevices \/ AllocFails \/ SetUpDevice \/ AddCdevFails \/ WriteMajor
  BY <1>0, <1>10 DEF Held, TypeOK, Progress, Live, AllocDevices, AllocFails,
    SetUpDevice, AddCdevFails, WriteMajor
<1>11. ASSUME NEW f \in File, UserOpen(f) \/ UserClose(f) PROVE Held'
  BY <1>0, <1>11 DEF Held, TypeOK, Progress, Live, UserOpen, UserClose
<1>12. CASE UNCHANGED vars
  BY <1>0, <1>12 DEF vars, Held, TypeOK, Progress, Live
<1> QED
  BY <1>1, <1>2, <1>3, <1>4, <1>5, <1>6, <1>7, <1>8, <1>9, <1>10, <1>11, <1>12 DEF Next,
    LoadStep

-----------------------------------------------------------------------------
(* The theorems. *)

LEMMA Invariant == Spec => []IInv
<1>1. Init => IInv
  <2> SUFFICES ASSUME Init PROVE IInv
    OBVIOUS
  <2>1. TypeOK
    <3>1. written \in BOOLEAN /\ devices \in BOOLEAN
      BY Zenon DEF Init
    <3> QED
      BY <3>1, ScullModuleAssumption DEF Init, TypeOK, Index
  <2>2. Progress /\ Live /\ Held
    BY DEF Init, Progress, Live, Held, AllClosed
  <2> QED
    BY <2>1, <2>2 DEF IInv
<1>2. IInv /\ [Next]_vars => IInv'
  BY TypeStep, ProgressStep, LiveStep, HeldStep DEF IInv
<1> QED
  BY <1>1, <1>2, PTL DEF Spec

\* Every variable keeps its type: neither loop of init and exit leaves scull_devices.
THEOREM TypeCorrect == Spec => []TypeOK
<1>1. IInv => TypeOK
  BY DEF IInv
<1> QED
  BY <1>1, Invariant, PTL

\* Whatever a user opens, at any moment of init, is a device that is set up.
THEOREM OpenedIsReady == Spec => []OpenDeviceReady
<1>1. IInv => OpenDeviceReady
  <2> SUFFICES ASSUME IInv, NEW f \in File, open[f] # NoDevice, module # "absent"
      PROVE open[f] \in ready /\ devices /\ module # "going"
    BY DEF OpenDeviceReady
  <2> QED
    BY DEF IInv, TypeOK, Progress, Live, AllClosed
<1> QED
  BY <1>1, Invariant, PTL

\* Device numbers are reserved before the first cdev_add and given back after the last
\* cdev_del.
THEOREM NumbersReserved == Spec => []CdevsInRegion
<1>1. IInv => CdevsInRegion
  BY DEF IInv, Held, CdevsInRegion
<1> QED
  BY <1>1, Invariant, PTL

\* Exit takes every cdev out of the map, also after scull_major was written.
THEOREM ExitFindsAll == Spec => []ExitFindsEveryDevice
<1>1. IInv => ExitFindsEveryDevice
  BY DEF IInv, Live, ExitFindsEveryDevice
<1> QED
  BY <1>1, Invariant, PTL

\* A load that succeeded, followed by rmmod, keeps nothing.
THEOREM NothingStays == Spec => []NothingHeld
<1>1. IInv => NothingHeld
  BY DEF IInv, Held, NothingHeld
<1> QED
  BY <1>1, Invariant, PTL
=============================================================================
