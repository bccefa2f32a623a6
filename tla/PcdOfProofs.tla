----------------------------- MODULE PcdOfProofs -----------------------------
(***************************************************************************)
(* Proofs about PcdOf, for any number of threads and devices and any       *)
(* choice of failing calls.  Three groups of conjuncts make the properties *)
(* inductive.  Control says who runs what while the module loads, is live  *)
(* and goes, Locks that the devices' locks hold, Memory and Nodes what a   *)
(* device has at each point of its probe and remove: these hold whatever   *)
(* overlaps.  Alone, Map, Count, Names, Order and Dense speak of the runs  *)
(* in which no two probes or removes have overlapped: what the map of      *)
(* cdevs, the numbers and total_devices are at each point of the one that  *)
(* runs.                                                                   *)
(***************************************************************************)
EXTENDS PcdOf, TLAPS, FiniteSetTheorems

Points ==
  {"idle", "region", "class", "register", "attach", "drain", "detach", "class_destroy",
   "unregister"} \cup ProbePoints \cup RemovePoints

\* The parts of TypeOK that most steps need.
Places ==
  /\ loaded \in {"absent", "coming", "live", "going"}
  /\ pc \in [Thread -> Points]
  /\ at \in [Thread -> 0 .. NDEVS]
Devices == bound \subseteq Dev /\ managed \subseteq Dev
Values ==
  /\ num \in [Dev -> Int]
  /\ reg \in [Thread -> Int]
  /\ total \in Int
  /\ \A x \in nodes : x.num \in Int /\ x.name \in Int /\ x.dev \in Dev

Others == {"idle"} \cup ProbePoints \cup RemovePoints

\* Init and exit belong to the walker, and while it loads, or detaches, the other
\* threads rest.
Walk ==
  /\ \A t \in Thread : pc[t] \notin Others => t = walker
  /\ loaded \in {"absent", "live"} => walker = NoThread
  /\ loaded \in {"coming", "going"} => walker \in Thread /\ pc[walker] # "idle"
  /\ \A t \in Thread :
       loaded # "live" /\ t # walker /\ (loaded = "going" => pc[walker] # "drain")
         => pc[t] = "idle"

\* Where the walker is decides whether it loads or unloads, and what is registered.
Stage ==
  /\ \A t \in Thread : pc[t] \in {"region", "class", "register", "attach"} => loaded = "coming"
  /\ \A t \in Thread : pc[t] \in {"drain", "detach", "class_destroy"} => loaded = "going"
  /\ \A t \in Thread : loaded = "coming" => pc[t] \notin RemovePoints
  /\ \A t \in Thread : loaded = "going" /\ t = walker => pc[t] \notin ProbePoints
  /\ \A t \in Thread : Busy(t) \/ pc[t] \in {"attach", "drain", "detach"} => driver
  /\ \A t \in Thread : pc[t] \in {"region", "class", "register", "class_destroy", "unregister"} => ~driver
  /\ \A t \in Thread : pc[t] \in {"region", "class", "unregister"} => ~class
  /\ \A t \in Thread : pc[t] = "region" => ~region
  /\ loaded = "absent" => ~region /\ ~class /\ ~driver
  /\ bound # {} => driver

\* A device's lock: one thread at a time; a probe finds the device unbound, a remove
\* bound; init has bound no device that it has not come to.
Locks ==
  /\ \A t \in Thread : Busy(t) => at[t] \in Dev
  /\ \A t, u \in Thread : Busy(t) /\ Busy(u) /\ at[t] = at[u] => t = u
  /\ \A t \in Thread : pc[t] \in ProbePoints => at[t] \notin bound
  /\ \A t \in Thread : pc[t] \in RemovePoints => at[t] \in bound
  /\ \A t \in Thread : \A d \in bound :
       loaded = "coming" /\ pc[t] \in ProbePoints \cup {"attach"} => d < at[t]

\* A device at rest holds memory exactly if it is bound.
Memory ==
  /\ \A d \in Dev : Free(d) => (d \in managed <=> d \in bound)
  /\ \A t \in Thread : Busy(t) /\ pc[t] # "alloc" => at[t] \in managed

Counting == {"count", "counted"}
NodeGone == {"cdev_remove", "uncount", "uncounted", "devres"}

\* The devices that have a node.
WithNode(d) ==
  \/ d \in bound /\ \A t \in Thread : at[t] = d => pc[t] \notin NodeGone
  \/ \E t \in Thread : at[t] = d /\ pc[t] \in Counting

Nodes ==
  /\ \A x \in nodes : WithNode(x.dev) /\ x.num = num[x.dev]
  /\ \A d \in Dev : WithNode(d) => \E x \in nodes : x.dev = d
  /\ \A x, y \in nodes : x.num = y.num \/ x.name = y.name => x = y

Alone == ~met => \A t, u \in Thread : Busy(t) /\ Busy(u) => t = u

CdevThere == {"name", "node", "count", "counted", "cdev_del"}
CdevGone  == {"uncount", "uncounted", "devres"}

Settled(B) == {[num |-> num[d], dev |-> d, depth |-> 0] : d \in B}
NewCdev(t) ==
  [num |-> num[at[t]], dev |-> at[t],
   depth |-> IF \E d \in bound : num[d] = num[at[t]] THEN 1 ELSE 0]

\* The map of cdevs at each point.
Map == ~met =>
  /\ \A d, e \in bound : num[d] = num[e] => d = e
  /\ (\A t \in Thread : pc[t] \notin CdevThere \cup CdevGone) => map = Settled(bound)
  /\ \A t \in Thread : pc[t] \in CdevThere => map = Settled(bound) \cup {NewCdev(t)}
  /\ \A t \in Thread : pc[t] \in CdevGone => map = Settled(bound \ {at[t]})

Numbered == {"cdev", "name", "node", "count", "counted", "cdev_del"}

\* The count and the numbers at each point.
Count == ~met =>
  /\ loaded # "absent" /\ (\A t \in Thread : pc[t] # "devres") => total = Cardinality(bound)
  /\ \A t \in Thread : pc[t] = "devres" => total = Cardinality(bound) - 1
  /\ \A t \in Thread : pc[t] \in {"node", "counted", "uncounted"} => reg[t] = total
  /\ \A t \in Thread : pc[t] \in Numbered \ {"cdev_del"} => num[at[t]] = total
  /\ \A t \in Thread : pc[t] \in Numbered => num[at[t]] \in 0 .. NDEVS - 1
  /\ \A d \in bound : num[d] \in 0 .. NDEVS - 1

\* While only the last device numbered is removed, the numbers in use are those below
\* the count.
Order == ~met /\ ~gap =>
  /\ refused = {}
  /\ \A x \in nodes : x.name = x.num /\ x.num <= total
  /\ (\A t \in Thread : pc[t] \notin Counting) => \A x \in nodes : x.num < total
  /\ \A t \in Thread : pc[t] = "destroy" => num[at[t]] = total - 1
  /\ \A t \in Thread : pc[t] \in NodeGone \ {"devres"} => \A x \in nodes : x.num < total - 1

\* A node is named for the number it has.
Names == ~met => \A x \in nodes : x.name = x.num

Removing == {"destroy", "cdev_remove", "uncount", "uncounted"}

\* As long, the bound devices have all the numbers below the count, and the device at
\* work the first one or the last.
Dense == ~met /\ ~gap =>
  /\ \A n \in 0 .. total - 1 : \E d \in bound : num[d] = n
  /\ \A d \in bound : num[d] <= total
  /\ (\A t \in Thread : pc[t] # "devres") => \A d \in bound : num[d] < total
  /\ \A t \in Thread : pc[t] \in Numbered \cup {"devres"} => num[at[t]] = total
  /\ \A t \in Thread : pc[t] \in Removing => num[at[t]] = total - 1

IInv ==
  /\ TypeOK /\ Walk /\ Stage /\ Locks /\ Memory /\ Nodes /\ IsFiniteSet(map)
  /\ Alone /\ Map /\ Count /\ Names /\ Order /\ Dense

-----------------------------------------------------------------------------
LEMMA Constants ==
  NoThread \notin Thread /\ NDEVS \in Nat /\ NDEVS >= 1 /\ Dev = 0 .. NDEVS - 1
  BY PcdOfAssumption DEF Dev

\* Init and exit stay with one thread.
LEMMA WalkStep == ASSUME IInv, [Next]_vars PROVE Walk'
<1> USE Constants DEF Goto, module, kernel, counter, history, Others, Free, Busy,
  ProbePoints, RemovePoints
<1>0. Walk /\ Places /\ Stage
  BY DEF IInv, TypeOK, Places, Points
<1>1. ASSUME NEW t \in Thread, Insmod(t) \/ Rmmod(t) PROVE Walk'
  BY <1>0, <1>1 DEF Walk, Places, Stage, Insmod, Rmmod
<1>2. ASSUME NEW t \in Thread, Bind(t) \/ Unbind(t) PROVE Walk'
  BY <1>0, <1>2 DEF Walk, Places, Stage, Bind, Unbind, Enter
<1>3. ASSUME NEW t \in Thread, StoreCount(t) PROVE Walk'
  BY <1>0, <1>3 DEF Walk, Places, Stage, StoreCount, Return
<1>4. ASSUME NEW t \in Thread, Release(t) PROVE Walk'
  BY <1>0, <1>4 DEF Walk, Places, Stage, Release, Return
<1>5. ASSUME NEW t \in Thread, RegionFails(t) \/ RegisterFails(t) PROVE Walk'
  BY <1>0, <1>5 DEF Walk, Places, Stage, RegionFails, RegisterFails, Over
<1>6. ASSUME NEW t \in Thread, AttachEnds(t) PROVE Walk'
  BY <1>0, <1>6 DEF Walk, Places, Stage, AttachEnds, Over
<1>7. ASSUME NEW t \in Thread, UnregisterRegion(t) PROVE Walk'
  BY <1>0, <1>7 DEF Walk, Places, Stage, UnregisterRegion, Over
<1>8. ASSUME NEW t \in Thread, Drain(t) PROVE Walk'
  BY <1>0, <1>8 DEF Walk, Places, Stage, Drain
<1>9. ASSUME NEW t \in Thread, AllocRegion(t) \/ CreateClass(t) \/ ClassFails(t) \/
  RegisterDriver(t) \/ Attach(t) \/ Detach(t) \/ DetachEnds(t) \/ DestroyClass(t) PROVE
  Walk'
  BY <1>0, <1>9 DEF Walk, Places, Stage, AllocRegion, CreateClass, ClassFails,
    RegisterDriver, Attach, Detach, DetachEnds, DestroyClass
<1>10. ASSUME NEW t \in Thread, Allocate(t) \/ TakeNumber(t) \/ AddCdev(t) \/
  CdevFails(t) \/ ReadTotal(t) \/ CreateNode(t) \/ NodeFails(t) \/ DelCdev(t) \/
  DestroyNode(t) \/ StoreUncount(t) PROVE Walk'
  BY <1>0, <1>10 DEF Walk, Places, Stage, Allocate, TakeNumber, AddCdev, CdevFails,
    ReadTotal, CreateNode, NodeFails, DelCdev, DestroyNode, StoreUncount
<1>11. CASE UNCHANGED vars
  BY <1>0, <1>11 DEF vars, Walk, Places, Stage
<1> QED
  BY <1>1, <1>2, <1>3, <1>4, <1>5, <1>6, <1>7, <1>8, <1>9, <1>10, <1>11 DEF Next, Step,
    Call

\* Each step of init and exit finds what the one before it left.
LEMMA StageStep == ASSUME IInv, [Next]_vars PROVE Stage'
<1> USE Constants DEF Goto, module, kernel, counter, history, Others, Busy, ProbePoints,
  RemovePoints
<1>0. Stage /\ Places /\ Walk
  BY DEF IInv, TypeOK, Places, Points
<1>1. ASSUME NEW t \in Thread, RegionFails(t) \/ RegisterFails(t) PROVE Stage'
  BY <1>0, <1>1 DEF Stage, Places, Walk, RegionFails, RegisterFails, Over
<1>2. ASSUME NEW t \in Thread, AttachEnds(t) PROVE Stage'
  BY <1>0, <1>2 DEF Stage, Places, Walk, AttachEnds, Over
<1>3. ASSUME NEW t \in Thread, UnregisterRegion(t) PROVE Stage'
  BY <1>0, <1>3 DEF Stage, Places, Walk, UnregisterRegion, Over
<1>4. ASSUME NEW t \in Thread, Insmod(t) PROVE Stage'
  BY <1>0, <1>4 DEF Stage, Places, Walk, Insmod
<1>5. ASSUME NEW t \in Thread, Rmmod(t) PROVE Stage'
  BY <1>0, <1>5 DEF Stage, Places, Walk, Rmmod
<1>6. ASSUME NEW t \in Thread, Drain(t) PROVE Stage'
  BY <1>0, <1>6 DEF Stage, Places, Walk, Drain
<1>7. ASSUME NEW t \in Thread, RegisterDriver(t) PROVE Stage'
  BY <1>0, <1>7 DEF Stage, Places, Walk, RegisterDriver
<1>8. ASSUME NEW t \in Thread, DetachEnds(t) PROVE Stage'
  BY <1>0, <1>8 DEF Stage, Places, Walk, DetachEnds
<1>9. ASSUME NEW t \in Thread, DestroyClass(t) PROVE Stage'
  BY <1>0, <1>9 DEF Stage, Places, Walk, DestroyClass
<1>10. ASSUME NEW t \in Thread, StoreCount(t) PROVE Stage'
  BY <1>0, <1>10 DEF Stage, Places, Walk, StoreCount, Return
<1>11. ASSUME NEW t \in Thread, Release(t) PROVE Stage'
  BY <1>0, <1>11 DEF Stage, Places, Walk, Release, Return
<1>12. ASSUME NEW t \in Thread, AllocRegion(t) \/ CreateClass(t) \/ ClassFails(t) \/
  Attach(t) \/ Detach(t) PROVE Stage'
  BY <1>0, <1>12 DEF Stage, Places, Walk, AllocRegion, CreateClass, ClassFails, Attach,
    Detach
<1>13. ASSUME NEW t \in Thread, Bind(t) \/ Unbind(t) PROVE Stage'
  BY <1>0, <1>13 DEF Stage, Places, Walk, Bind, Unbind, Enter
<1>14. ASSUME NEW t \in Thread, Allocate(t) \/ TakeNumber(t) \/ AddCdev(t) \/
  CdevFails(t) \/ ReadTotal(t) \/ CreateNode(t) \/ NodeFails(t) \/ DelCdev(t) \/
  DestroyNode(t) \/ StoreUncount(t) PROVE Stage'
  BY <1>0, <1>14 DEF Stage, Places, Walk, Allocate, TakeNumber, AddCdev, CdevFails,
    ReadTotal, CreateNode, NodeFails, DelCdev, DestroyNode, StoreUncount
<1>15. CASE UNCHANGED vars
  BY <1>0, <1>15 DEF vars, Stage, Places, Walk
<1> QED
  BY <1>1, <1>2, <1>3, <1>4, <1>5, <1>6, <1>7, <1>8, <1>9, <1>10, <1>11, <1>12, <1>13,
    <1>14, <1>15 DEF Next, Step, Call

\* The locks hold.
LEMMA LocksStep == ASSUME IInv, [Next]_vars PROVE Locks'
<1> USE Constants DEF Goto, module, kernel, counter, history, Others, Free, Busy,
  ProbePoints, RemovePoints
<1>0. Locks /\ Places /\ Devices /\ Walk /\ Stage
  BY DEF IInv, TypeOK, Places, Points, Devices
<1>1. ASSUME NEW t \in Thread, RegionFails(t) \/ RegisterFails(t) PROVE Locks'
  BY <1>0, <1>1 DEF Locks, Places, Devices, Walk, Stage, RegionFails, RegisterFails,
    Over
<1>2. ASSUME NEW t \in Thread, AttachEnds(t) PROVE Locks'
  BY <1>0, <1>2 DEF Locks, Places, Devices, Walk, Stage, AttachEnds, Over
<1>3. ASSUME NEW t \in Thread, UnregisterRegion(t) PROVE Locks'
  BY <1>0, <1>3 DEF Locks, Places, Devices, Walk, Stage, UnregisterRegion, Over
<1>4. ASSUME NEW t \in Thread, RegisterDriver(t) PROVE Locks'
  BY <1>0, <1>4 DEF Locks, Places, Devices, Walk, Stage, RegisterDriver
<1>5. ASSUME NEW t \in Thread, Attach(t) PROVE Locks'
  BY <1>0, <1>5 DEF Locks, Places, Devices, Walk, Stage, Attach
<1>6. ASSUME NEW t \in Thread, Detach(t) PROVE Locks'
  BY <1>0, <1>6 DEF Locks, Places, Devices, Walk, Stage, Detach
<1>7. ASSUME NEW t \in Thread, Insmod(t) PROVE Locks'
  BY <1>0, <1>7 DEF Locks, Places, Devices, Walk, Stage, Insmod
<1>8. ASSUME NEW t \in Thread, StoreCount(t) PROVE Locks'
  BY <1>0, <1>8 DEF Locks, Places, Devices, Walk, Stage, StoreCount, Return
<1>9. ASSUME NEW t \in Thread, Release(t) PROVE Locks'
  BY <1>0, <1>9 DEF Locks, Places, Devices, Walk, Stage, Release, Return
<1>10. ASSUME NEW t \in Thread, Bind(t) PROVE Locks'
  BY <1>0, <1>10 DEF Locks, Places, Devices, Walk, Stage, Bind, Enter
<1>11. ASSUME NEW t \in Thread, Unbind(t) PROVE Locks'
  BY <1>0, <1>11 DEF Locks, Places, Devices, Walk, Stage, Unbind, Enter
<1>12. ASSUME NEW t \in Thread, Allocate(t) PROVE Locks'
  BY <1>0, <1>12 DEF Locks, Places, Devices, Walk, Stage, Allocate
<1>13. ASSUME NEW t \in Thread, TakeNumber(t) \/ AddCdev(t) \/ CdevFails(t) PROVE Locks'
  <2>1. /\ at' = at /\ bound' = bound /\ loaded' = loaded
        /\ \A u \in Thread : /\ pc'[u] \in ProbePoints <=> pc[u] \in ProbePoints
                             /\ pc'[u] \in RemovePoints <=> pc[u] \in RemovePoints
                             /\ pc'[u] = "attach" <=> pc[u] = "attach"
    BY <1>0, <1>13 DEF Places, TakeNumber, AddCdev, CdevFails
  <2> QED
    BY <1>0, <2>1 DEF Locks, Busy
<1>14. ASSUME NEW t \in Thread, ReadTotal(t) PROVE Locks'
  BY <1>0, <1>14 DEF Locks, Places, Devices, Walk, Stage, ReadTotal
<1>15. ASSUME NEW t \in Thread, CreateNode(t) \/ NodeFails(t) PROVE Locks'
  <2>1. /\ at' = at /\ bound' = bound /\ loaded' = loaded
        /\ \A u \in Thread : /\ pc'[u] \in ProbePoints <=> pc[u] \in ProbePoints
                             /\ pc'[u] \in RemovePoints <=> pc[u] \in RemovePoints
                             /\ pc'[u] = "attach" <=> pc[u] = "attach"
    BY <1>0, <1>15 DEF Places, CreateNode, NodeFails
  <2> QED
    BY <1>0, <2>1 DEF Locks, Busy
<1>16. ASSUME NEW t \in Thread, DelCdev(t) \/ DestroyNode(t) \/ StoreUncount(t) PROVE
  Locks'
  <2>1. /\ at' = at /\ bound' = bound /\ loaded' = loaded
        /\ \A u \in Thread : /\ pc'[u] \in ProbePoints <=> pc[u] \in ProbePoints
                             /\ pc'[u] \in RemovePoints <=> pc[u] \in RemovePoints
                             /\ pc'[u] = "attach" <=> pc[u] = "attach"
    BY <1>0, <1>16 DEF Places, DelCdev, DestroyNode, StoreUncount
  <2> QED
    BY <1>0, <2>1 DEF Locks, Busy
<1>17. ASSUME NEW t \in Thread, AllocRegion(t) \/ CreateClass(t) \/ ClassFails(t) \/
  Rmmod(t) \/ Drain(t) \/ DetachEnds(t) \/ DestroyClass(t) PROVE Locks'
  BY <1>0, <1>17 DEF Locks, Places, Devices, Walk, Stage, AllocRegion, CreateClass,
    ClassFails, Rmmod, Drain, DetachEnds, DestroyClass
<1>18. CASE UNCHANGED vars
  BY <1>0, <1>18 DEF vars, Locks, Places, Devices, Walk, Stage
<1> QED
  BY <1>1, <1>2, <1>3, <1>4, <1>5, <1>6, <1>7, <1>8, <1>9, <1>10, <1>11, <1>12, <1>13,
    <1>14, <1>15, <1>16, <1>17, <1>18 DEF Next, Step, Call

\* Memory comes and goes with the binding.
LEMMA MemoryStep == ASSUME IInv, [Next]_vars PROVE Memory'
<1> USE Constants DEF Goto, module, kernel, counter, history, Others, Free, Busy,
  ProbePoints, RemovePoints
<1>0. Memory /\ Places /\ Devices /\ Walk /\ Stage /\ Locks
  BY DEF IInv, TypeOK, Places, Points, Devices
<1>1. ASSUME NEW t \in Thread, RegionFails(t) \/ RegisterFails(t) PROVE Memory'
  BY <1>0, <1>1 DEF Memory, Places, Devices, Walk, Stage, Locks, RegionFails,
    RegisterFails, Over
<1>2. ASSUME NEW t \in Thread, AttachEnds(t) PROVE Memory'
  BY <1>0, <1>2 DEF Memory, Places, Devices, Walk, Stage, Locks, AttachEnds, Over
<1>3. ASSUME NEW t \in Thread, UnregisterRegion(t) PROVE Memory'
  BY <1>0, <1>3 DEF Memory, Places, Devices, Walk, Stage, Locks, UnregisterRegion, Over
<1>4. ASSUME NEW t \in Thread, Attach(t) PROVE Memory'
  BY <1>0, <1>4 DEF Memory, Places, Devices, Walk, Stage, Locks, Attach
<1>5. ASSUME NEW t \in Thread, Detach(t) PROVE Memory'
  BY <1>0, <1>5 DEF Memory, Places, Devices, Walk, Stage, Locks, Detach
<1>6. ASSUME NEW t \in Thread, Insmod(t) PROVE Memory'
  BY <1>0, <1>6 DEF Memory, Places, Devices, Walk, Stage, Locks, Insmod
<1>7. ASSUME NEW t \in Thread, StoreCount(t) PROVE Memory'
  BY <1>0, <1>7 DEF Memory, Places, Devices, Walk, Stage, Locks, StoreCount, Return
<1>8. ASSUME NEW t \in Thread, Release(t) PROVE Memory'
  BY <1>0, <1>8 DEF Memory, Places, Devices, Walk, Stage, Locks, Release, Return
<1>9. ASSUME NEW t \in Thread, Allocate(t) PROVE Memory'
  BY <1>0, <1>9 DEF Memory, Places, Devices, Walk, Stage, Locks, Allocate
<1>10. ASSUME NEW t \in Thread, Bind(t) PROVE Memory'
  BY <1>0, <1>10 DEF Memory, Places, Devices, Walk, Stage, Locks, Bind, Enter
<1>11. ASSUME NEW t \in Thread, Unbind(t) PROVE Memory'
  BY <1>0, <1>11 DEF Memory, Places, Devices, Walk, Stage, Locks, Unbind, Enter
<1>12. ASSUME NEW t \in Thread, AllocRegion(t) \/ CreateClass(t) \/ ClassFails(t) \/
  RegisterDriver(t) \/ Rmmod(t) \/ Drain(t) \/ DetachEnds(t) \/ DestroyClass(t) PROVE
  Memory'
  BY <1>0, <1>12 DEF Memory, Places, Devices, Walk, Stage, Locks, AllocRegion,
    CreateClass, ClassFails, RegisterDriver, Rmmod, Drain, DetachEnds, DestroyClass
<1>13. ASSUME NEW t \in Thread, TakeNumber(t) \/ AddCdev(t) \/ CdevFails(t) \/
  ReadTotal(t) \/ CreateNode(t) \/ NodeFails(t) \/ DelCdev(t) \/ DestroyNode(t) \/
  StoreUncount(t) PROVE Memory'
  BY <1>0, <1>13 DEF Memory, Places, Devices, Walk, Stage, Locks, TakeNumber, AddCdev,
    CdevFails, ReadTotal, CreateNode, NodeFails, DelCdev, DestroyNode, StoreUncount
<1>14. CASE UNCHANGED vars
  BY <1>0, <1>14 DEF vars, Memory, Places, Devices, Walk, Stage, Locks
<1> QED
  BY <1>1, <1>2, <1>3, <1>4, <1>5, <1>6, <1>7, <1>8, <1>9, <1>10, <1>11, <1>12, <1>13,
    <1>14 DEF Next, Step, Call

\* The history met tells of every overlap.
LEMMA AloneStep == ASSUME IInv, [Next]_vars PROVE Alone'
<1> USE DEF Goto, module, kernel, counter, history, Others, Busy, ProbePoints,
  RemovePoints
<1>0. Alone /\ Places /\ Walk /\ Stage
  BY DEF IInv, TypeOK, Places, Points
<1>1. ASSUME NEW t \in Thread, RegionFails(t) \/ RegisterFails(t) \/ AttachEnds(t) \/
  UnregisterRegion(t) PROVE Alone'
  BY <1>0, <1>1 DEF Alone, Places, Walk, Stage, RegionFails, RegisterFails, AttachEnds,
    UnregisterRegion, Over
<1>2. ASSUME NEW t \in Thread, Attach(t) PROVE Alone'
  BY <1>0, <1>2 DEF Alone, Places, Walk, Stage, Attach
<1>3. ASSUME NEW t \in Thread, Detach(t) PROVE Alone'
  BY <1>0, <1>3 DEF Alone, Places, Walk, Stage, Detach
<1>4. ASSUME NEW t \in Thread, StoreCount(t) PROVE Alone'
  BY <1>0, <1>4 DEF Alone, Places, Walk, Stage, StoreCount, Return
<1>5. ASSUME NEW t \in Thread, Release(t) PROVE Alone'
  BY <1>0, <1>5 DEF Alone, Places, Walk, Stage, Release, Return
<1>6. ASSUME NEW t \in Thread, Bind(t) \/ Unbind(t) PROVE Alone'
  <2>1. ~met' => ~met /\ \A u \in Thread : ~Busy(u)
    BY <1>6, Zenon DEF Bind, Unbind, Enter
  <2>2. \A u \in Thread \ {t} : pc'[u] = pc[u]
    BY <1>0, <1>6 DEF Bind, Unbind, Enter, Places, Points
  <2> QED
    BY <2>1, <2>2 DEF Alone
<1>7. ASSUME NEW t \in Thread, Insmod(t) \/ AllocRegion(t) \/ CreateClass(t) \/
  ClassFails(t) \/ RegisterDriver(t) \/ Rmmod(t) \/ Drain(t) \/ DetachEnds(t) \/
  DestroyClass(t) PROVE Alone'
  BY <1>0, <1>7 DEF Alone, Places, Walk, Stage, Insmod, AllocRegion, CreateClass,
    ClassFails, RegisterDriver, Rmmod, Drain, DetachEnds, DestroyClass
<1>8. ASSUME NEW t \in Thread, Allocate(t) \/ TakeNumber(t) \/ AddCdev(t) \/
  CdevFails(t) \/ ReadTotal(t) \/ CreateNode(t) \/ NodeFails(t) \/ DelCdev(t) \/
  DestroyNode(t) \/ StoreUncount(t) PROVE Alone'
  BY <1>0, <1>8 DEF Alone, Places, Walk, Stage, Allocate, TakeNumber, AddCdev,
    CdevFails, ReadTotal, CreateNode, NodeFails, DelCdev, DestroyNode, StoreUncount
<1>9. CASE UNCHANGED vars
  BY <1>0, <1>9 DEF vars, Alone, Places, Walk, Stage
<1> QED
  BY <1>1, <1>2, <1>3, <1>4, <1>5, <1>6, <1>7, <1>8, <1>9 DEF Next, Step, Call

\* The map of cdevs stays finite.
LEMMA FiniteStep == ASSUME IsFiniteSet(map), [Next]_vars PROVE IsFiniteSet(map)'
<1> USE DEF Goto, Over, Enter, module, kernel, counter, history
<1>1. CASE map' = map
  BY <1>1
<1>2. ASSUME NEW t \in Thread, AddCdev(t) PROVE IsFiniteSet(map')
  <2>1. PICK e : map' = map \cup {e}
    BY <1>2 DEF AddCdev
  <2> QED
    BY <2>1, FS_AddElement
<1>3. ASSUME NEW t \in Thread, DelCdev(t) PROVE IsFiniteSet(map')
  <2>1. map' \subseteq map
    BY <1>3 DEF DelCdev
  <2> QED
    BY <2>1, FS_Subset
<1>4. ASSUME NEW t \in Thread, Insmod(t) \/ AllocRegion(t) \/ CreateClass(t) \/
  ClassFails(t) \/ RegisterDriver(t) \/ RegionFails(t) \/ RegisterFails(t) \/ Attach(t) \/
  AttachEnds(t) \/ Rmmod(t) \/ Drain(t) \/ Detach(t) \/ DetachEnds(t) \/ DestroyClass(t) \/
  UnregisterRegion(t) PROVE map' = map
  BY <1>4 DEF Insmod, AllocRegion, CreateClass, ClassFails, RegisterDriver, RegionFails,
    RegisterFails, Attach, AttachEnds, Rmmod, Drain, Detach, DetachEnds, DestroyClass,
    UnregisterRegion
<1>5. ASSUME NEW t \in Thread, Bind(t) \/ Unbind(t) \/ Allocate(t) \/ TakeNumber(t) \/
  CdevFails(t) \/ ReadTotal(t) \/ CreateNode(t) \/ NodeFails(t) \/ StoreCount(t) \/
  Release(t) \/ DestroyNode(t) \/ StoreUncount(t) PROVE map' = map
  BY <1>5 DEF Bind, Unbind, Allocate, TakeNumber, CdevFails, ReadTotal, CreateNode,
    NodeFails, StoreCount, Release, DestroyNode, StoreUncount
<1>6. CASE UNCHANGED vars
  BY <1>6 DEF vars
<1> QED
  BY <1>1, <1>2, <1>3, <1>4, <1>5, <1>6 DEF Next, Step, Call

\* Every step keeps the types.
LEMMA TypeStep == ASSUME IInv, [Next]_vars PROVE TypeOK'
<1> USE Constants DEF Goto, module, kernel, counter, history, Busy, ProbePoints,
  RemovePoints
<1>0. TypeOK /\ Walk /\ Stage /\ Locks /\ IsFiniteSet(map)
  BY DEF IInv, TypeOK
<1>1. ASSUME NEW t \in Thread, Insmod(t) PROVE TypeOK'
  <2>1. /\ loaded' \in {"absent", "coming", "live", "going"}
        /\ walker' \in Thread \cup {NoThread}
        /\ pc' \in [Thread -> ProbePoints \cup RemovePoints \cup
             {"idle", "region", "class", "register", "attach", "drain", "detach",
              "class_destroy", "unregister"}]
        /\ at' \in [Thread -> 0 .. NDEVS]
    BY <1>0, <1>1 DEF TypeOK, Insmod
  <2>2. /\ region' \in BOOLEAN /\ class' \in BOOLEAN /\ driver' \in BOOLEAN
        /\ met' \in BOOLEAN /\ gap' \in BOOLEAN
    BY <1>0, <1>1, Zenon DEF TypeOK, Insmod
  <2>3. num' \in [Dev -> Int] /\ total' \in Int /\ reg' \in [Thread -> Int]
    BY <1>0, <1>1 DEF TypeOK, Insmod
  <2>4. bound' \subseteq Dev /\ managed' \subseteq Dev /\ refused' \subseteq Dev
    BY <1>0, <1>1 DEF TypeOK, Insmod
  <2>5. /\ map' \subseteq [num : Int, dev : Dev, depth : Nat]
        /\ nodes' \subseteq [num : Int, name : Int, dev : Dev]
    BY <1>0, <1>1 DEF TypeOK, Insmod
  <2> QED
    BY <2>1, <2>2, <2>3, <2>4, <2>5 DEF TypeOK
<1>2. ASSUME NEW t \in Thread, Rmmod(t) PROVE TypeOK'
  <2>1. /\ loaded' \in {"absent", "coming", "live", "going"}
        /\ walker' \in Thread \cup {NoThread}
        /\ pc' \in [Thread -> ProbePoints \cup RemovePoints \cup
             {"idle", "region", "class", "register", "attach", "drain", "detach",
              "class_destroy", "unregister"}]
        /\ at' \in [Thread -> 0 .. NDEVS]
    BY <1>0, <1>2 DEF TypeOK, Rmmod
  <2>2. /\ region' \in BOOLEAN /\ class' \in BOOLEAN /\ driver' \in BOOLEAN
        /\ met' \in BOOLEAN /\ gap' \in BOOLEAN
    BY <1>0, <1>2, Zenon DEF TypeOK, Rmmod
  <2>3. num' \in [Dev -> Int] /\ total' \in Int /\ reg' \in [Thread -> Int]
    BY <1>0, <1>2 DEF TypeOK, Rmmod
  <2>4. bound' \subseteq Dev /\ managed' \subseteq Dev /\ refused' \subseteq Dev
    BY <1>0, <1>2 DEF TypeOK, Rmmod
  <2>5. /\ map' \subseteq [num : Int, dev : Dev, depth : Nat]
        /\ nodes' \subseteq [num : Int, name : Int, dev : Dev]
    BY <1>0, <1>2 DEF TypeOK, Rmmod
  <2> QED
    BY <2>1, <2>2, <2>3, <2>4, <2>5 DEF TypeOK
<1>3. ASSUME NEW t \in Thread, AllocRegion(t) \/ CreateClass(t) \/ ClassFails(t) PROVE
  TypeOK'
  BY <1>0, <1>3 DEF TypeOK, Walk, Stage, Locks, AllocRegion, CreateClass, ClassFails
<1>4. ASSUME NEW t \in Thread, RegisterDriver(t) PROVE TypeOK'
  BY <1>0, <1>4 DEF TypeOK, Walk, Stage, Locks, RegisterDriver
<1>5. ASSUME NEW t \in Thread, RegionFails(t) PROVE TypeOK'
  <2>1. /\ loaded' \in {"absent", "coming", "live", "going"}
        /\ walker' \in Thread \cup {NoThread}
        /\ pc' \in [Thread -> ProbePoints \cup RemovePoints \cup
             {"idle", "region", "class", "register", "attach", "drain", "detach",
              "class_destroy", "unregister"}]
        /\ at' \in [Thread -> 0 .. NDEVS]
    BY <1>0, <1>5 DEF TypeOK, RegionFails, Over
  <2>2. /\ region' \in BOOLEAN /\ class' \in BOOLEAN /\ driver' \in BOOLEAN
        /\ met' \in BOOLEAN /\ gap' \in BOOLEAN
    BY <1>0, <1>5, Zenon DEF TypeOK, RegionFails, Over
  <2>3. num' \in [Dev -> Int] /\ total' \in Int /\ reg' \in [Thread -> Int]
    BY <1>0, <1>5 DEF TypeOK, RegionFails, Over
  <2>4. bound' \subseteq Dev /\ managed' \subseteq Dev /\ refused' \subseteq Dev
    BY <1>0, <1>5 DEF TypeOK, RegionFails, Over
  <2>5. /\ map' \subseteq [num : Int, dev : Dev, depth : Nat]
        /\ nodes' \subseteq [num : Int, name : Int, dev : Dev]
    BY <1>0, <1>5 DEF TypeOK, RegionFails, Over
  <2> QED
    BY <2>1, <2>2, <2>3, <2>4, <2>5 DEF TypeOK
<1>6. ASSUME NEW t \in Thread, RegisterFails(t) PROVE TypeOK'
  <2>1. /\ loaded' \in {"absent", "coming", "live", "going"}
        /\ walker' \in Thread \cup {NoThread}
        /\ pc' \in [Thread -> ProbePoints \cup RemovePoints \cup
             {"idle", "region", "class", "register", "attach", "drain", "detach",
              "class_destroy", "unregister"}]
        /\ at' \in [Thread -> 0 .. NDEVS]
    BY <1>0, <1>6 DEF TypeOK, RegisterFails, Over
  <2>2. /\ region' \in BOOLEAN /\ class' \in BOOLEAN /\ driver' \in BOOLEAN
        /\ met' \in BOOLEAN /\ gap' \in BOOLEAN
    BY <1>0, <1>6, Zenon DEF TypeOK, RegisterFails, Over
  <2>3. num' \in [Dev -> Int] /\ total' \in Int /\ reg' \in [Thread -> Int]
    BY <1>0, <1>6 DEF TypeOK, RegisterFails, Over
  <2>4. bound' \subseteq Dev /\ managed' \subseteq Dev /\ refused' \subseteq Dev
    BY <1>0, <1>6 DEF TypeOK, RegisterFails, Over
  <2>5. /\ map' \subseteq [num : Int, dev : Dev, depth : Nat]
        /\ nodes' \subseteq [num : Int, name : Int, dev : Dev]
    BY <1>0, <1>6 DEF TypeOK, RegisterFails, Over
  <2> QED
    BY <2>1, <2>2, <2>3, <2>4, <2>5 DEF TypeOK
<1>7. ASSUME NEW t \in Thread, AttachEnds(t) PROVE TypeOK'
  BY <1>0, <1>7 DEF TypeOK, Walk, Stage, Locks, AttachEnds, Over
<1>8. ASSUME NEW t \in Thread, UnregisterRegion(t) PROVE TypeOK'
  <2>1. /\ loaded' \in {"absent", "coming", "live", "going"}
        /\ walker' \in Thread \cup {NoThread}
        /\ pc' \in [Thread -> ProbePoints \cup RemovePoints \cup
             {"idle", "region", "class", "register", "attach", "drain", "detach",
              "class_destroy", "unregister"}]
        /\ at' \in [Thread -> 0 .. NDEVS]
    BY <1>0, <1>8 DEF TypeOK, UnregisterRegion, Over
  <2>2. /\ region' \in BOOLEAN /\ class' \in BOOLEAN /\ driver' \in BOOLEAN
        /\ met' \in BOOLEAN /\ gap' \in BOOLEAN
    BY <1>0, <1>8, Zenon DEF TypeOK, UnregisterRegion, Over
  <2>3. num' \in [Dev -> Int] /\ total' \in Int /\ reg' \in [Thread -> Int]
    BY <1>0, <1>8 DEF TypeOK, UnregisterRegion, Over
  <2>4. bound' \subseteq Dev /\ managed' \subseteq Dev /\ refused' \subseteq Dev
    BY <1>0, <1>8 DEF TypeOK, UnregisterRegion, Over
  <2>5. /\ map' \subseteq [num : Int, dev : Dev, depth : Nat]
        /\ nodes' \subseteq [num : Int, name : Int, dev : Dev]
    BY <1>0, <1>8 DEF TypeOK, UnregisterRegion, Over
  <2> QED
    BY <2>1, <2>2, <2>3, <2>4, <2>5 DEF TypeOK
<1>9. ASSUME NEW t \in Thread, Attach(t) PROVE TypeOK'
  BY <1>0, <1>9 DEF TypeOK, Walk, Stage, Locks, Attach
<1>10. ASSUME NEW t \in Thread, Drain(t) PROVE TypeOK'
  BY <1>0, <1>10 DEF TypeOK, Walk, Stage, Locks, Drain
<1>11. ASSUME NEW t \in Thread, Detach(t) PROVE TypeOK'
  BY <1>0, <1>11 DEF TypeOK, Walk, Stage, Locks, Detach
<1>12. ASSUME NEW t \in Thread, DetachEnds(t) \/ DestroyClass(t) PROVE TypeOK'
  BY <1>0, <1>12 DEF TypeOK, Walk, Stage, Locks, DetachEnds, DestroyClass
<1>13. ASSUME NEW t \in Thread, Bind(t) PROVE TypeOK'
  <2>1. /\ loaded' \in {"absent", "coming", "live", "going"}
        /\ walker' \in Thread \cup {NoThread}
        /\ pc' \in [Thread -> ProbePoints \cup RemovePoints \cup
             {"idle", "region", "class", "register", "attach", "drain", "detach",
              "class_destroy", "unregister"}]
        /\ at' \in [Thread -> 0 .. NDEVS]
    BY <1>0, <1>13 DEF TypeOK, Bind, Enter
  <2>2. /\ region' \in BOOLEAN /\ class' \in BOOLEAN /\ driver' \in BOOLEAN
        /\ met' \in BOOLEAN /\ gap' \in BOOLEAN
    BY <1>0, <1>13, Zenon DEF TypeOK, Bind, Enter
  <2>3. num' \in [Dev -> Int] /\ total' \in Int /\ reg' \in [Thread -> Int]
    BY <1>0, <1>13 DEF TypeOK, Bind, Enter
  <2>4. bound' \subseteq Dev /\ managed' \subseteq Dev /\ refused' \subseteq Dev
    BY <1>0, <1>13 DEF TypeOK, Bind, Enter
  <2>5. /\ map' \subseteq [num : Int, dev : Dev, depth : Nat]
        /\ nodes' \subseteq [num : Int, name : Int, dev : Dev]
    BY <1>0, <1>13 DEF TypeOK, Bind, Enter
  <2> QED
    BY <2>1, <2>2, <2>3, <2>4, <2>5 DEF TypeOK
<1>14. ASSUME NEW t \in Thread, Unbind(t) PROVE TypeOK'
  <2>1. /\ loaded' \in {"absent", "coming", "live", "going"}
        /\ walker' \in Thread \cup {NoThread}
        /\ pc' \in [Thread -> ProbePoints \cup RemovePoints \cup
             {"idle", "region", "class", "register", "attach", "drain", "detach",
              "class_destroy", "unregister"}]
        /\ at' \in [Thread -> 0 .. NDEVS]
    BY <1>0, <1>14 DEF TypeOK, Unbind, Enter
  <2>2. /\ region' \in BOOLEAN /\ class' \in BOOLEAN /\ driver' \in BOOLEAN
        /\ met' \in BOOLEAN /\ gap' \in BOOLEAN
    BY <1>0, <1>14, Zenon DEF TypeOK, Unbind, Enter
  <2>3. num' \in [Dev -> Int] /\ total' \in Int /\ reg' \in [Thread -> Int]
    BY <1>0, <1>14 DEF TypeOK, Unbind, Enter
  <2>4. bound' \subseteq Dev /\ managed' \subseteq Dev /\ refused' \subseteq Dev
    BY <1>0, <1>14 DEF TypeOK, Unbind, Enter
  <2>5. /\ map' \subseteq [num : Int, dev : Dev, depth : Nat]
        /\ nodes' \subseteq [num : Int, name : Int, dev : Dev]
    BY <1>0, <1>14 DEF TypeOK, Unbind, Enter
  <2> QED
    BY <2>1, <2>2, <2>3, <2>4, <2>5 DEF TypeOK
<1>15. ASSUME NEW t \in Thread, Allocate(t) PROVE TypeOK'
  BY <1>0, <1>15 DEF TypeOK, Walk, Stage, Locks, Allocate
<1>16. ASSUME NEW t \in Thread, TakeNumber(t) PROVE TypeOK'
  BY <1>0, <1>16 DEF TypeOK, Walk, Stage, Locks, TakeNumber
<1>17. ASSUME NEW t \in Thread, AddCdev(t) PROVE TypeOK'
  <2>1. Under(num[at[t]]) \subseteq map
    BY DEF Under
  <2>2. Cardinality(Under(num[at[t]])) \in Nat
    BY <1>0, <2>1, FS_Subset, FS_CardinalityType
  <2>3. at[t] \in Dev
    BY <1>0, <1>17 DEF AddCdev, Locks
  <2>4. [num |-> num[at[t]], dev |-> at[t], depth |-> Cardinality(Under(num[at[t]]))]
          \in [num : Int, dev : Dev, depth : Nat]
    BY <1>0, <2>2, <2>3 DEF TypeOK
  <2>5. map' \subseteq [num : Int, dev : Dev, depth : Nat]
    BY <1>0, <1>17, <2>4 DEF TypeOK, AddCdev
  <2> QED
    BY <1>0, <1>17, <2>5 DEF TypeOK, AddCdev
<1>18. ASSUME NEW t \in Thread, CreateNode(t) PROVE TypeOK'
  <2>1. at[t] \in Dev
    BY <1>0, <1>18 DEF CreateNode, Locks
  <2>2. [num |-> num[at[t]], name |-> reg[t], dev |-> at[t]] \in [num : Int, name : Int, dev : Dev]
    BY <1>0, <2>1 DEF TypeOK
  <2>3. nodes' \subseteq [num : Int, name : Int, dev : Dev]
    BY <1>0, <1>18, <2>2 DEF TypeOK, CreateNode
  <2> QED
    BY <1>0, <1>18, <2>3 DEF TypeOK, CreateNode
<1>19. ASSUME NEW t \in Thread, NodeFails(t) PROVE TypeOK'
  <2>0. at[t] \in Dev
    BY <1>0, <1>19 DEF Locks, NodeFails
  <2>1. /\ loaded' \in {"absent", "coming", "live", "going"}
        /\ walker' \in Thread \cup {NoThread}
        /\ pc' \in [Thread -> ProbePoints \cup RemovePoints \cup
             {"idle", "region", "class", "register", "attach", "drain", "detach",
              "class_destroy", "unregister"}]
        /\ at' \in [Thread -> 0 .. NDEVS]
    BY <1>0, <1>19 DEF TypeOK, Walk, Stage, Locks, NodeFails
  <2>2. /\ region' \in BOOLEAN /\ class' \in BOOLEAN /\ driver' \in BOOLEAN
        /\ met' \in BOOLEAN /\ gap' \in BOOLEAN
    BY <1>0, <1>19, Zenon DEF TypeOK, NodeFails
  <2>3. num' \in [Dev -> Int] /\ total' \in Int /\ reg' \in [Thread -> Int]
    BY <1>0, <1>19, <2>0 DEF TypeOK, NodeFails
  <2>4. bound' \subseteq Dev /\ managed' \subseteq Dev /\ refused' \subseteq Dev
    BY <1>0, <1>19, <2>0 DEF TypeOK, NodeFails
  <2>5. /\ map' \subseteq [num : Int, dev : Dev, depth : Nat]
        /\ nodes' \subseteq [num : Int, name : Int, dev : Dev]
    BY <1>0, <1>19 DEF TypeOK, NodeFails
  <2> QED
    BY <2>1, <2>2, <2>3, <2>4, <2>5 DEF TypeOK
<1>20. ASSUME NEW t \in Thread, StoreCount(t) PROVE TypeOK'
  <2>0. at[t] \in Dev
    BY <1>0, <1>20 DEF Locks, StoreCount
  <2>1. /\ loaded' \in {"absent", "coming", "live", "going"}
        /\ walker' \in Thread \cup {NoThread}
        /\ pc' \in [Thread -> ProbePoints \cup RemovePoints \cup
             {"idle", "region", "class", "register", "attach", "drain", "detach",
              "class_destroy", "unregister"}]
        /\ at' \in [Thread -> 0 .. NDEVS]
    BY <1>0, <1>20 DEF TypeOK, Walk, Stage, Locks, StoreCount, Return
  <2>2. /\ region' \in BOOLEAN /\ class' \in BOOLEAN /\ driver' \in BOOLEAN
        /\ met' \in BOOLEAN /\ gap' \in BOOLEAN
    BY <1>0, <1>20, Zenon DEF TypeOK, StoreCount, Return
  <2>3. num' \in [Dev -> Int] /\ total' \in Int /\ reg' \in [Thread -> Int]
    BY <1>0, <1>20, <2>0 DEF TypeOK, StoreCount, Return
  <2>4. bound' \subseteq Dev /\ managed' \subseteq Dev /\ refused' \subseteq Dev
    BY <1>0, <1>20, <2>0 DEF TypeOK, StoreCount, Return
  <2>5. /\ map' \subseteq [num : Int, dev : Dev, depth : Nat]
        /\ nodes' \subseteq [num : Int, name : Int, dev : Dev]
    BY <1>0, <1>20 DEF TypeOK, StoreCount, Return
  <2> QED
    BY <2>1, <2>2, <2>3, <2>4, <2>5 DEF TypeOK
<1>21. ASSUME NEW t \in Thread, Release(t) PROVE TypeOK'
  <2>0. at[t] \in Dev
    BY <1>0, <1>21 DEF Locks, Release
  <2>1. /\ loaded' \in {"absent", "coming", "live", "going"}
        /\ walker' \in Thread \cup {NoThread}
        /\ pc' \in [Thread -> ProbePoints \cup RemovePoints \cup
             {"idle", "region", "class", "register", "attach", "drain", "detach",
              "class_destroy", "unregister"}]
        /\ at' \in [Thread -> 0 .. NDEVS]
    BY <1>0, <1>21 DEF TypeOK, Walk, Stage, Locks, Release, Return
  <2>2. /\ region' \in BOOLEAN /\ class' \in BOOLEAN /\ driver' \in BOOLEAN
        /\ met' \in BOOLEAN /\ gap' \in BOOLEAN
    BY <1>0, <1>21, Zenon DEF TypeOK, Release, Return
  <2>3. num' \in [Dev -> Int] /\ total' \in Int /\ reg' \in [Thread -> Int]
    BY <1>0, <1>21, <2>0 DEF TypeOK, Release, Return
  <2>4. bound' \subseteq Dev /\ managed' \subseteq Dev /\ refused' \subseteq Dev
    BY <1>0, <1>21, <2>0 DEF TypeOK, Release, Return
  <2>5. /\ map' \subseteq [num : Int, dev : Dev, depth : Nat]
        /\ nodes' \subseteq [num : Int, name : Int, dev : Dev]
    BY <1>0, <1>21 DEF TypeOK, Release, Return
  <2> QED
    BY <2>1, <2>2, <2>3, <2>4, <2>5 DEF TypeOK
<1>22. ASSUME NEW t \in Thread, DelCdev(t) PROVE TypeOK'
  BY <1>0, <1>22 DEF TypeOK, Walk, Stage, Locks, DelCdev
<1>23. ASSUME NEW t \in Thread, DestroyNode(t) PROVE TypeOK'
  BY <1>0, <1>23 DEF TypeOK, Walk, Stage, Locks, DestroyNode
<1>24. ASSUME NEW t \in Thread, StoreUncount(t) PROVE TypeOK'
  <2>1. /\ loaded' \in {"absent", "coming", "live", "going"}
        /\ walker' \in Thread \cup {NoThread}
        /\ pc' \in [Thread -> ProbePoints \cup RemovePoints \cup
             {"idle", "region", "class", "register", "attach", "drain", "detach",
              "class_destroy", "unregister"}]
        /\ at' \in [Thread -> 0 .. NDEVS]
    BY <1>0, <1>24 DEF TypeOK, StoreUncount
  <2>2. /\ region' \in BOOLEAN /\ class' \in BOOLEAN /\ driver' \in BOOLEAN
        /\ met' \in BOOLEAN /\ gap' \in BOOLEAN
    BY <1>0, <1>24, Zenon DEF TypeOK, StoreUncount
  <2>3. num' \in [Dev -> Int] /\ total' \in Int /\ reg' \in [Thread -> Int]
    BY <1>0, <1>24 DEF TypeOK, StoreUncount
  <2>4. bound' \subseteq Dev /\ managed' \subseteq Dev /\ refused' \subseteq Dev
    BY <1>0, <1>24 DEF TypeOK, StoreUncount
  <2>5. /\ map' \subseteq [num : Int, dev : Dev, depth : Nat]
        /\ nodes' \subseteq [num : Int, name : Int, dev : Dev]
    BY <1>0, <1>24 DEF TypeOK, StoreUncount
  <2> QED
    BY <2>1, <2>2, <2>3, <2>4, <2>5 DEF TypeOK
<1>25. ASSUME NEW t \in Thread, ReadTotal(t) PROVE TypeOK'
  BY <1>0, <1>25 DEF TypeOK, Walk, Stage, Locks, ReadTotal
<1>26. ASSUME NEW t \in Thread, CdevFails(t) PROVE TypeOK'
  BY <1>0, <1>26 DEF TypeOK, Walk, Stage, Locks, CdevFails
<1>27. CASE UNCHANGED vars
  BY <1>0, <1>27 DEF vars, TypeOK, Walk, Stage, Locks
<1> QED
  BY <1>1, <1>2, <1>3, <1>4, <1>5, <1>6, <1>7, <1>8, <1>9, <1>10, <1>11, <1>12, <1>13,
    <1>14, <1>15, <1>16, <1>17, <1>18, <1>19, <1>20, <1>21, <1>22, <1>23, <1>24, <1>25,
    <1>26, <1>27 DEF Next, Step, Call

\* A node comes with its device's number, and goes by it.
LEMMA NodesStep == ASSUME IInv, [Next]_vars PROVE Nodes'
<1> USE Constants DEF Goto, module, kernel, counter, history, Others, Free, WithNode,
  Counting, NodeGone, Busy, ProbePoints, RemovePoints
<1>0. Nodes /\ TypeOK /\ Places /\ Devices /\ Walk /\ Stage /\ Locks
  BY DEF IInv, TypeOK, Places, Points, Devices
<1>1. ASSUME NEW t \in Thread, RegionFails(t) \/ RegisterFails(t) PROVE Nodes'
  BY <1>0, <1>1 DEF Nodes, Places, Devices, Walk, Stage, Locks, RegionFails,
    RegisterFails, Over
<1>2. ASSUME NEW t \in Thread, AttachEnds(t) PROVE Nodes'
  BY <1>0, <1>2 DEF Nodes, Places, Devices, Walk, Stage, Locks, AttachEnds, Over
<1>3. ASSUME NEW t \in Thread, UnregisterRegion(t) PROVE Nodes'
  BY <1>0, <1>3 DEF Nodes, Places, Devices, Walk, Stage, Locks, UnregisterRegion, Over
<1>4. ASSUME NEW t \in Thread, Attach(t) PROVE Nodes'
  BY <1>0, <1>4 DEF Nodes, Places, Devices, Walk, Stage, Locks, Attach
<1>5. ASSUME NEW t \in Thread, Detach(t) PROVE Nodes'
  BY <1>0, <1>5 DEF Nodes, Places, Devices, Walk, Stage, Locks, Detach
<1>6. ASSUME NEW t \in Thread, Insmod(t) PROVE Nodes'
  BY <1>0, <1>6 DEF Nodes, Places, Devices, Walk, Stage, Locks, Insmod
<1>7. ASSUME NEW t \in Thread, StoreCount(t) PROVE Nodes'
  <2>1. /\ at[t] \in Dev /\ at[t] \notin bound
        /\ \A u \in Thread : at[u] = at[t] /\ Busy(u) => u = t
    BY <1>0, <1>7 DEF Locks, StoreCount
  <2>2. /\ pc[t] = "counted" /\ pc'[t] \in {"idle", "attach", "detach"}
        /\ nodes' = nodes /\ num' = num /\ bound' = bound \cup {at[t]}
        /\ \A u \in Thread \ {t} : pc'[u] = pc[u] /\ at'[u] = at[u]
    BY <1>0, <1>7 DEF StoreCount, Return, Places
  <2>3. \A d \in Dev : WithNode(d)' = WithNode(d)
    <3> TAKE d \in Dev
    <3>1. CASE d = at[t]
      BY <2>1, <2>2, <3>1
    <3>2. CASE d # at[t]
      BY <2>2, <3>2
    <3> QED
      BY <3>1, <3>2
  <2>4. \A x \in nodes : x.dev \in Dev
    BY <1>0 DEF TypeOK
  <2> HIDE DEF WithNode
  <2> QED
    BY <1>0, <2>2, <2>3, <2>4 DEF Nodes
<1>8. ASSUME NEW t \in Thread, Release(t) PROVE Nodes'
  BY <1>0, <1>8 DEF Nodes, Places, Devices, Walk, Stage, Locks, Release, Return
<1>9. ASSUME NEW t \in Thread, Allocate(t) PROVE Nodes'
  BY <1>0, <1>9 DEF Nodes, Places, Devices, Walk, Stage, Locks, Allocate
<1>10. ASSUME NEW t \in Thread, TakeNumber(t) PROVE Nodes'
  BY <1>0, <1>10 DEF Nodes, Places, Devices, Walk, Stage, Locks, TakeNumber
<1>11. ASSUME NEW t \in Thread, Bind(t) PROVE Nodes'
  BY <1>0, <1>11 DEF Nodes, Places, Devices, Walk, Stage, Locks, Bind, Enter
<1>12. ASSUME NEW t \in Thread, Unbind(t) PROVE Nodes'
  BY <1>0, <1>12 DEF Nodes, Places, Devices, Walk, Stage, Locks, Unbind, Enter
<1>13. ASSUME NEW t \in Thread, CreateNode(t) PROVE Nodes'
  <2> DEFINE new == [num |-> num[at[t]], name |-> reg[t], dev |-> at[t]]
  <2>1. /\ at[t] \in Dev /\ at[t] \notin bound
        /\ \A u \in Thread : at[u] = at[t] /\ Busy(u) => u = t
    BY <1>0, <1>13 DEF Locks, CreateNode
  <2>2. /\ pc[t] = "node" /\ pc'[t] = "count" /\ nodes' = nodes \cup {new} /\ ~InUse(t)
        /\ at' = at /\ num' = num /\ bound' = bound
        /\ \A u \in Thread \ {t} : pc'[u] = pc[u]
    BY <1>0, <1>13 DEF CreateNode, Places
  <2>3. ~WithNode(at[t]) /\ WithNode(at[t])'
    BY <2>1, <2>2
  <2>4. \A d \in Dev \ {at[t]} : WithNode(d)' = WithNode(d)
    BY <2>2
  <2>5. new.num = num[at[t]] /\ new.name = reg[t] /\ new.dev = at[t]
    OBVIOUS
  <2>6. \A x \in nodes : x.num # new.num /\ x.name # new.name
    BY <2>2, <2>5 DEF InUse
  <2>7. \A x \in nodes : x.dev # at[t]
    BY <1>0, <2>3 DEF Nodes
  <2>8. \A x \in nodes : x.dev \in Dev
    BY <1>0 DEF TypeOK
  <2> HIDE DEF WithNode, new
  <2>9. \A x \in nodes' : WithNode(x.dev)' /\ x.num = num'[x.dev]
    BY <1>0, <2>2, <2>3, <2>4, <2>5, <2>7, <2>8 DEF Nodes
  <2>10. \A d \in Dev : WithNode(d)' => \E x \in nodes' : x.dev = d
    BY <1>0, <2>2, <2>3, <2>4, <2>5 DEF Nodes
  <2>11. \A x, y \in nodes' : x.num = y.num \/ x.name = y.name => x = y
    BY <1>0, <2>2, <2>6 DEF Nodes
  <2> QED
    BY <2>9, <2>10, <2>11 DEF Nodes
<1>14. ASSUME NEW t \in Thread, DestroyNode(t) PROVE Nodes'
  BY <1>0, <1>14 DEF Nodes, Places, Devices, Walk, Stage, Locks, DestroyNode
<1>15. ASSUME NEW t \in Thread, ReadTotal(t) PROVE Nodes'
  BY <1>0, <1>15 DEF Nodes, Places, Devices, Walk, Stage, Locks, ReadTotal
<1>16. ASSUME NEW t \in Thread, NodeFails(t) PROVE Nodes'
  BY <1>0, <1>16 DEF Nodes, Places, Devices, Walk, Stage, Locks, NodeFails
<1>17. ASSUME NEW t \in Thread, DelCdev(t) PROVE Nodes'
  BY <1>0, <1>17 DEF Nodes, Places, Devices, Walk, Stage, Locks, DelCdev
<1>18. ASSUME NEW t \in Thread, AllocRegion(t) \/ CreateClass(t) \/ ClassFails(t) \/
  RegisterDriver(t) \/ Rmmod(t) \/ Drain(t) \/ DetachEnds(t) \/ DestroyClass(t) PROVE
  Nodes'
  BY <1>0, <1>18 DEF Nodes, Places, Devices, Walk, Stage, Locks, AllocRegion,
    CreateClass, ClassFails, RegisterDriver, Rmmod, Drain, DetachEnds, DestroyClass
<1>19. ASSUME NEW t \in Thread, AddCdev(t) \/ CdevFails(t) \/ StoreUncount(t) PROVE
  Nodes'
  BY <1>0, <1>19 DEF Nodes, Places, Devices, Walk, Stage, Locks, AddCdev, CdevFails,
    StoreUncount
<1>20. CASE UNCHANGED vars
  BY <1>0, <1>20 DEF vars, Nodes, Places, Devices, Walk, Stage, Locks
<1> QED
  BY <1>1, <1>2, <1>3, <1>4, <1>5, <1>6, <1>7, <1>8, <1>9, <1>10, <1>11, <1>12, <1>13,
    <1>14, <1>15, <1>16, <1>17, <1>18, <1>19, <1>20 DEF Next, Step, Call

\* In a map of settled cdevs a number has at most one.
LEMMA UnderSettled ==
  ASSUME map = Settled(bound), \A d, e \in bound : num[d] = num[e] => d = e, NEW n
  PROVE  Cardinality(Under(n)) = IF \E d \in bound : num[d] = n THEN 1 ELSE 0
<1>1. CASE \E d \in bound : num[d] = n
  <2>1. PICK d \in bound : num[d] = n
    BY <1>1
  <2>2. \A e \in Under(n) : e = [num |-> num[d], dev |-> d, depth |-> 0]
    BY <2>1 DEF Under, Settled
  <2>3. [num |-> num[d], dev |-> d, depth |-> 0] \in Under(n)
    BY <2>1 DEF Under, Settled
  <2>4. Under(n) = {[num |-> num[d], dev |-> d, depth |-> 0]}
    BY <2>2, <2>3
  <2> QED
    BY <1>1, <2>4, FS_Singleton
<1>2. CASE ~\E d \in bound : num[d] = n
  <2>1. Under(n) = {}
    BY <1>2 DEF Under, Settled
  <2> QED
    BY <1>2, <2>1, FS_EmptySet
<1> QED
  BY <1>1, <1>2

\* A probe that fails takes out the cdev that it put in, although an older one has
\* its number.
LEMMA RemoveNew ==
  ASSUME NEW t \in Thread, map = Settled(bound) \cup {NewCdev(t)}, at[t] \notin bound
  PROVE  map \ Newest(num[at[t]]) = Settled(bound)
<1> DEFINE n == num[at[t]]
           new == NewCdev(t)
<1>1. new.num = n /\ new.dev = at[t] /\ new.depth = IF \E d \in bound : num[d] = n THEN 1 ELSE 0
  BY DEF NewCdev
<1>2. \A e \in Settled(bound) : e.depth = 0 /\ e.dev \in bound /\ num[e.dev] = e.num
  BY DEF Settled
<1>3. new \in Under(n) /\ Under(n) \subseteq Settled(bound) \cup {new}
  BY <1>1 DEF Under
<1> HIDE DEF n, new
<1>4. new \in Newest(n)
  BY <1>1, <1>2, <1>3 DEF Newest
<1>5. \A e \in Settled(bound) : e \notin Newest(n)
  <2> SUFFICES ASSUME NEW e \in Settled(bound), e \in Newest(n) PROVE FALSE
    OBVIOUS
  <2>1. e.num = n /\ new.depth <= e.depth
    BY <1>3 DEF Newest, Under
  <2> QED
    BY <2>1, <1>1, <1>2
<1> QED
  BY <1>4, <1>5 DEF n, new

\* A remove takes out its own cdev.
LEMMA RemoveOwn ==
  ASSUME map = Settled(bound), \A d, e \in bound : num[d] = num[e] => d = e, NEW d \in bound
  PROVE  map \ Newest(num[d]) = Settled(bound \ {d})
<1>1. \A e \in map : e.depth = 0 /\ e.dev \in bound /\ num[e.dev] = e.num
  BY DEF Settled
<1>2. \A e \in map : e \in Newest(num[d]) <=> e.dev = d
  BY <1>1 DEF Newest, Under
<1>3. \A e \in map : e \in Settled(bound \ {d}) <=> e.dev # d
  BY DEF Settled
<1>4. Settled(bound \ {d}) \subseteq map
  BY DEF Settled
<1> QED
  BY <1>2, <1>3, <1>4

\* The map of cdevs follows the one probe or remove that runs.
LEMMA MapStep == ASSUME IInv, [Next]_vars PROVE Map'
<1> USE DEF Goto, module, kernel, counter, history, Others, Busy, ProbePoints,
  RemovePoints
<1>0. Map /\ Places /\ Devices /\ Walk /\ Stage /\ Locks /\ Nodes /\ Alone
  BY DEF IInv, TypeOK, Places, Points, Devices
<1>1. ASSUME NEW t \in Thread, Insmod(t) \/ AllocRegion(t) \/ CreateClass(t) \/
  ClassFails(t) \/ RegisterDriver(t) PROVE Map'
  <2>1. map' = map /\ bound' = bound /\ num' = num /\ (~met' => ~met)
    BY <1>1 DEF Insmod, AllocRegion, CreateClass, ClassFails, RegisterDriver
  <2>2. \A u \in Thread :
          /\ pc'[u] \in CdevThere <=> pc[u] \in CdevThere
          /\ pc'[u] \in CdevGone <=> pc[u] \in CdevGone
          /\ pc[u] \in CdevThere \cup CdevGone => at'[u] = at[u]
    BY <1>0, <1>1 DEF Places, Points, CdevThere, CdevGone, Insmod, AllocRegion,
      CreateClass, ClassFails, RegisterDriver
  <2>3. \A u \in Thread : at'[u] = at[u] => NewCdev(u)' = NewCdev(u)
    BY <2>1 DEF NewCdev
  <2> QED
    BY <1>0, <2>1, <2>2, <2>3 DEF Map, Settled
<1>2. ASSUME NEW t \in Thread, RegionFails(t) \/ RegisterFails(t) \/ AttachEnds(t) \/
  UnregisterRegion(t) PROVE Map'
  <2>1. map' = map /\ bound' = bound /\ num' = num /\ (~met' => ~met)
    BY <1>2 DEF RegionFails, RegisterFails, AttachEnds, UnregisterRegion, Over
  <2>2. \A u \in Thread :
          /\ pc'[u] \in CdevThere <=> pc[u] \in CdevThere
          /\ pc'[u] \in CdevGone <=> pc[u] \in CdevGone
          /\ pc[u] \in CdevThere \cup CdevGone => at'[u] = at[u]
    BY <1>0, <1>2 DEF Places, Points, CdevThere, CdevGone, RegionFails, RegisterFails,
      AttachEnds, UnregisterRegion, Over
  <2>3. \A u \in Thread : at'[u] = at[u] => NewCdev(u)' = NewCdev(u)
    BY <2>1 DEF NewCdev
  <2> QED
    BY <1>0, <2>1, <2>2, <2>3 DEF Map, Settled
<1>3. ASSUME NEW t \in Thread, Rmmod(t) \/ Drain(t) \/ DetachEnds(t) \/ DestroyClass(t)
  PROVE Map'
  <2>1. map' = map /\ bound' = bound /\ num' = num /\ (~met' => ~met)
    BY <1>3 DEF Rmmod, Drain, DetachEnds, DestroyClass
  <2>2. \A u \in Thread :
          /\ pc'[u] \in CdevThere <=> pc[u] \in CdevThere
          /\ pc'[u] \in CdevGone <=> pc[u] \in CdevGone
          /\ pc[u] \in CdevThere \cup CdevGone => at'[u] = at[u]
    BY <1>0, <1>3 DEF Places, Points, CdevThere, CdevGone, Rmmod, Drain, DetachEnds,
      DestroyClass
  <2>3. \A u \in Thread : at'[u] = at[u] => NewCdev(u)' = NewCdev(u)
    BY <2>1 DEF NewCdev
  <2> QED
    BY <1>0, <2>1, <2>2, <2>3 DEF Map, Settled
<1>4. ASSUME NEW t \in Thread, Attach(t) \/ Detach(t) PROVE Map'
  <2>1. map' = map /\ bound' = bound /\ num' = num /\ (~met' => ~met)
    BY <1>4 DEF Attach, Detach
  <2>2. \A u \in Thread :
          /\ pc'[u] \in CdevThere <=> pc[u] \in CdevThere
          /\ pc'[u] \in CdevGone <=> pc[u] \in CdevGone
          /\ pc[u] \in CdevThere \cup CdevGone => at'[u] = at[u]
    BY <1>0, <1>4 DEF Places, Points, CdevThere, CdevGone, Attach, Detach
  <2>3. \A u \in Thread : at'[u] = at[u] => NewCdev(u)' = NewCdev(u)
    BY <2>1 DEF NewCdev
  <2> QED
    BY <1>0, <2>1, <2>2, <2>3 DEF Map, Settled
<1>5. ASSUME NEW t \in Thread, Bind(t) \/ Unbind(t) PROVE Map'
  <2>1. map' = map /\ bound' = bound /\ num' = num /\ (~met' => ~met)
    BY <1>5 DEF Bind, Unbind, Enter
  <2>2. \A u \in Thread :
          /\ pc'[u] \in CdevThere <=> pc[u] \in CdevThere
          /\ pc'[u] \in CdevGone <=> pc[u] \in CdevGone
          /\ pc[u] \in CdevThere \cup CdevGone => at'[u] = at[u]
    BY <1>0, <1>5 DEF Places, Points, CdevThere, CdevGone, Bind, Unbind, Enter
  <2>3. \A u \in Thread : at'[u] = at[u] => NewCdev(u)' = NewCdev(u)
    BY <2>1 DEF NewCdev
  <2> QED
    BY <1>0, <2>1, <2>2, <2>3 DEF Map, Settled
<1>6. ASSUME NEW t \in Thread, Allocate(t) \/ CdevFails(t) \/ ReadTotal(t) PROVE Map'
  <2>1. map' = map /\ bound' = bound /\ num' = num /\ (~met' => ~met)
    BY <1>6 DEF Allocate, CdevFails, ReadTotal
  <2>2. \A u \in Thread :
          /\ pc'[u] \in CdevThere <=> pc[u] \in CdevThere
          /\ pc'[u] \in CdevGone <=> pc[u] \in CdevGone
          /\ pc[u] \in CdevThere \cup CdevGone => at'[u] = at[u]
    BY <1>0, <1>6 DEF Places, Points, CdevThere, CdevGone, Allocate, CdevFails,
      ReadTotal
  <2>3. \A u \in Thread : at'[u] = at[u] => NewCdev(u)' = NewCdev(u)
    BY <2>1 DEF NewCdev
  <2> QED
    BY <1>0, <2>1, <2>2, <2>3 DEF Map, Settled
<1>7. ASSUME NEW t \in Thread, CreateNode(t) \/ NodeFails(t) \/ DestroyNode(t) \/
  StoreUncount(t) PROVE Map'
  <2>1. map' = map /\ bound' = bound /\ num' = num /\ (~met' => ~met)
    BY <1>7 DEF CreateNode, NodeFails, DestroyNode, StoreUncount
  <2>2. \A u \in Thread :
          /\ pc'[u] \in CdevThere <=> pc[u] \in CdevThere
          /\ pc'[u] \in CdevGone <=> pc[u] \in CdevGone
          /\ pc[u] \in CdevThere \cup CdevGone => at'[u] = at[u]
    BY <1>0, <1>7 DEF Places, Points, CdevThere, CdevGone, CreateNode, NodeFails,
      DestroyNode, StoreUncount
  <2>3. \A u \in Thread : at'[u] = at[u] => NewCdev(u)' = NewCdev(u)
    BY <2>1 DEF NewCdev
  <2> QED
    BY <1>0, <2>1, <2>2, <2>3 DEF Map, Settled
<1>8. ASSUME NEW t \in Thread, TakeNumber(t) PROVE Map'
  <2>1. map' = map /\ bound' = bound /\ met' = met /\ \A d \in bound : num'[d] = num[d]
    BY <1>0, <1>8 DEF TakeNumber, Locks
  <2>2. \A u \in Thread : pc'[u] \notin CdevThere \cup CdevGone => pc[u] \notin CdevThere \cup CdevGone
    BY <1>0, <1>8 DEF TakeNumber, Places, CdevThere, CdevGone
  <2>3. ~met => \A u \in Thread : pc'[u] \notin CdevThere \cup CdevGone
    BY <1>0, <1>8 DEF TakeNumber, Places, Alone, CdevThere, CdevGone
  <2>4. Settled(bound)' = Settled(bound)
    BY <2>1 DEF Settled
  <2> QED
    BY <1>0, <2>1, <2>2, <2>3, <2>4 DEF Map
<1>9. ASSUME NEW t \in Thread, AddCdev(t) PROVE Map'
  <2> SUFFICES ASSUME ~met' PROVE Map'
    BY DEF Map
  <2>1. /\ bound' = bound /\ num' = num /\ at' = at /\ ~met
        /\ pc[t] = "cdev" /\ pc'[t] = "name"
    BY <1>0, <1>9 DEF AddCdev, Places
  <2>2. \A u \in Thread \ {t} : pc'[u] = pc[u] /\ pc[u] \notin CdevThere \cup CdevGone
    BY <1>0, <1>9, <2>1 DEF AddCdev, Places, Alone, CdevThere, CdevGone
  <2>3. map = Settled(bound) /\ \A d, e \in bound : num[d] = num[e] => d = e
    BY <1>0, <2>1, <2>2 DEF Map, CdevThere, CdevGone
  <2>4. map' = Settled(bound) \cup {NewCdev(t)}
    BY <1>9, <2>3, UnderSettled DEF AddCdev, NewCdev
  <2>5. Settled(bound)' = Settled(bound) /\ NewCdev(t)' = NewCdev(t)
    BY <2>1 DEF Settled, NewCdev
  <2> QED
    BY <2>1, <2>2, <2>3, <2>4, <2>5 DEF Map, CdevThere, CdevGone
<1>10. ASSUME NEW t \in Thread, DelCdev(t) PROVE Map'
  <2> SUFFICES ASSUME ~met' PROVE Map'
    BY DEF Map
  <2>1. /\ bound' = bound /\ num' = num /\ at' = at /\ ~met
        /\ map' = map \ Newest(num[at[t]])
    BY <1>0, <1>10 DEF DelCdev
  <2>2. \A u \in Thread \ {t} : pc'[u] = pc[u] /\ pc[u] \notin CdevThere \cup CdevGone
    BY <1>0, <1>10, <2>1 DEF DelCdev, Places, Alone, CdevThere, CdevGone
  <2>3. \A d, e \in bound : num[d] = num[e] => d = e
    BY <1>0, <2>1 DEF Map
  <2>4. CASE pc[t] = "cdev_del"
    <3>1. pc'[t] = "release" /\ at[t] \notin bound
      BY <1>0, <1>10, <2>4 DEF DelCdev, Places, Locks
    <3>2. map = Settled(bound) \cup {NewCdev(t)}
      BY <1>0, <2>1, <2>4 DEF Map, CdevThere
    <3>3. map' = Settled(bound)
      BY <2>1, <3>1, <3>2, RemoveNew
    <3>4. Settled(bound)' = Settled(bound)
      BY <2>1 DEF Settled
    <3> QED
      BY <2>1, <2>2, <2>3, <3>1, <3>3, <3>4 DEF Map, CdevThere, CdevGone
  <2>5. CASE pc[t] # "cdev_del"
    <3>1. pc[t] = "cdev_remove" /\ pc'[t] = "uncount" /\ at[t] \in bound
      BY <1>0, <1>10, <2>5 DEF DelCdev, Places, Locks
    <3>2. map = Settled(bound)
      BY <1>0, <2>1, <2>2, <3>1 DEF Map, CdevThere, CdevGone
    <3>3. map' = Settled(bound \ {at[t]})
      BY <2>1, <2>3, <3>1, <3>2, RemoveOwn
    <3>4. Settled(bound \ {at[t]})' = Settled(bound \ {at[t]})
      BY <2>1 DEF Settled
    <3> QED
      BY <2>1, <2>2, <2>3, <3>1, <3>3, <3>4 DEF Map, CdevThere, CdevGone
  <2> QED
    BY <2>4, <2>5
<1>11. ASSUME NEW t \in Thread, StoreCount(t) PROVE Map'
  <2> SUFFICES ASSUME ~met' PROVE Map'
    BY DEF Map
  <2>1. /\ bound' = bound \cup {at[t]} /\ num' = num /\ map' = map /\ ~met
        /\ pc[t] = "counted" /\ pc'[t] \in {"idle", "attach", "detach"}
        /\ at[t] \in Dev /\ at[t] \notin bound
    BY <1>0, <1>11 DEF StoreCount, Return, Places, Locks
  <2>2. \A u \in Thread \ {t} : pc'[u] = pc[u] /\ ~Busy(u)
    BY <1>0, <1>11, <2>1 DEF StoreCount, Return, Places, Alone
  <2>3. /\ map = Settled(bound) \cup {NewCdev(t)}
        /\ \A d, e \in bound : num[d] = num[e] => d = e
    BY <1>0, <2>1 DEF Map, CdevThere
  <2>4. \A d \in bound \cup {at[t]} : WithNode(d)
    BY <2>1, <2>2 DEF WithNode, Counting, NodeGone
  <2>5. \A d \in bound : num[d] # num[at[t]]
    <3>1. PICK x \in nodes : x.dev = at[t] /\ x.num = num[at[t]]
      BY <1>0, <2>1, <2>4 DEF Nodes
    <3> SUFFICES ASSUME NEW d \in bound PROVE num[d] # num[at[t]]
      OBVIOUS
    <3>2. PICK y \in nodes : y.dev = d /\ y.num = num[d]
      BY <1>0, <2>4 DEF Nodes, Devices
    <3> QED
      BY <1>0, <2>1, <3>1, <3>2 DEF Nodes
  <2>6. NewCdev(t) = [num |-> num[at[t]], dev |-> at[t], depth |-> 0]
    BY <2>5 DEF NewCdev
  <2>7. map' = Settled(bound)'
    BY <2>1, <2>3, <2>6 DEF Settled
  <2>8. \A u \in Thread : pc'[u] \notin CdevThere \cup CdevGone
    BY <2>1, <2>2 DEF CdevThere, CdevGone
  <2>9. \A d, e \in bound' : num'[d] = num'[e] => d = e
    BY <2>1, <2>3, <2>5
  <2> QED
    BY <2>7, <2>8, <2>9 DEF Map
<1>12. ASSUME NEW t \in Thread, Release(t) PROVE Map'
  <2> SUFFICES ASSUME ~met' PROVE Map'
    BY DEF Map
  <2>1. /\ bound' = bound \ {at[t]} /\ map' = map /\ ~met
        /\ pc'[t] \in {"idle", "attach", "detach"}
        /\ \A d \in bound' : num'[d] = num[d]
    BY <1>0, <1>12 DEF Release, Return, Places, Devices, Locks
  <2>2. \A u \in Thread \ {t} : pc'[u] = pc[u] /\ ~Busy(u)
    BY <1>0, <1>12, <2>1 DEF Release, Return, Places, Alone
  <2>3. map = Settled(bound \ {at[t]})
    <3>1. CASE pc[t] = "release"
      <4>1. bound \ {at[t]} = bound
        BY <1>0, <3>1 DEF Locks
      <4>2. map = Settled(bound)
        BY <1>0, <2>1, <2>2, <3>1 DEF Map, CdevThere, CdevGone
      <4> QED
        BY <4>1, <4>2
    <3>2. CASE pc[t] = "devres"
      BY <1>0, <2>1, <3>2 DEF Map, CdevGone
    <3> QED
      BY <1>12, <3>1, <3>2 DEF Release
  <2>4. map' = Settled(bound)'
    BY <2>1, <2>3 DEF Settled
  <2>5. \A u \in Thread : pc'[u] \notin CdevThere \cup CdevGone
    BY <2>1, <2>2 DEF CdevThere, CdevGone
  <2>6. \A d, e \in bound' : num'[d] = num'[e] => d = e
    BY <1>0, <2>1 DEF Map
  <2> QED
    BY <2>4, <2>5, <2>6 DEF Map
<1>13. CASE UNCHANGED vars
  BY <1>0, <1>13 DEF vars, Map, Settled, NewCdev
<1> QED
  BY <1>1, <1>2, <1>3, <1>4, <1>5, <1>6, <1>7, <1>8, <1>9, <1>10, <1>11, <1>12, <1>13
    DEF Next, Step, Call

\* The devices are finitely many, so the bound ones can be counted.
LEMMA Counted ==
  ASSUME Devices
  PROVE  /\ Cardinality(bound) \in Nat
         /\ bound = {} => Cardinality(bound) = 0
         /\ \A d \in Dev \ bound :
              Cardinality(bound \cup {d}) = Cardinality(bound) + 1 /\ Cardinality(bound) < NDEVS
         /\ \A d \in bound : Cardinality(bound \ {d}) = Cardinality(bound) - 1
<1>1. IsFiniteSet(Dev) /\ Cardinality(Dev) = NDEVS
  BY Constants, FS_Interval
<1>2. IsFiniteSet(bound) /\ Cardinality(bound) \in Nat
  BY <1>1, FS_Subset, FS_CardinalityType DEF Devices
<1>3. bound = {} => Cardinality(bound) = 0
  BY FS_EmptySet
<1>4. ASSUME NEW d \in Dev \ bound
      PROVE  Cardinality(bound \cup {d}) = Cardinality(bound) + 1 /\ Cardinality(bound) < NDEVS
  <2>1. Cardinality(bound \cup {d}) = Cardinality(bound) + 1
    BY <1>2, <1>4, FS_AddElement
  <2>2. bound \cup {d} \subseteq Dev
    BY <1>4 DEF Devices
  <2>3. Cardinality(bound \cup {d}) <= NDEVS
    BY <1>1, <2>2, FS_Subset
  <2> QED
    BY <1>2, <2>1, <2>3, Constants
<1>5. ASSUME NEW d \in bound PROVE Cardinality(bound \ {d}) = Cardinality(bound) - 1
  BY <1>2, <1>5, FS_RemoveElement
<1> QED
  BY <1>2, <1>3, <1>4, <1>5

\* The count follows the one probe or remove that runs.
LEMMA CountStep == ASSUME IInv, [Next]_vars PROVE Count'
<1> USE Constants DEF Goto, module, kernel, counter, history, Busy, ProbePoints,
  RemovePoints
<1>0. Count /\ Places /\ Devices /\ Values /\ Walk /\ Stage /\ Locks /\ Alone
  BY DEF IInv, TypeOK, Places, Points, Devices, Values
<1>1. ASSUME NEW t \in Thread, AllocRegion(t) \/ CreateClass(t) \/ ClassFails(t) \/
  RegisterDriver(t) PROVE Count'
  <2>1. /\ total' = total /\ bound' = bound /\ num' = num /\ (~met' => ~met)
        /\ loaded' # "absent" => loaded # "absent"
    BY <1>0, <1>1 DEF Stage, AllocRegion, CreateClass, ClassFails, RegisterDriver
  <2>2. \A u \in Thread :
          /\ pc'[u] = "devres" <=> pc[u] = "devres"
          /\ pc'[u] \in {"node", "counted", "uncounted"} => pc'[u] = pc[u] /\ reg'[u] = reg[u]
          /\ pc'[u] \in Numbered => at'[u] = at[u] /\ pc[u] \in Numbered
          /\ pc'[u] \in Numbered \ {"cdev_del"} => pc[u] # "cdev_del"
    BY <1>0, <1>1 DEF Places, Values, Numbered, AllocRegion, CreateClass, ClassFails,
      RegisterDriver
  <2> QED
    BY <1>0, <2>1, <2>2 DEF Count
<1>2. ASSUME NEW t \in Thread, RegionFails(t) \/ RegisterFails(t) \/ AttachEnds(t) \/
  UnregisterRegion(t) PROVE Count'
  <2>1. /\ total' = total /\ bound' = bound /\ num' = num /\ (~met' => ~met)
        /\ loaded' # "absent" => loaded # "absent"
    BY <1>0, <1>2 DEF Stage, RegionFails, RegisterFails, AttachEnds, UnregisterRegion,
      Over
  <2>2. \A u \in Thread :
          /\ pc'[u] = "devres" <=> pc[u] = "devres"
          /\ pc'[u] \in {"node", "counted", "uncounted"} => pc'[u] = pc[u] /\ reg'[u] = reg[u]
          /\ pc'[u] \in Numbered => at'[u] = at[u] /\ pc[u] \in Numbered
          /\ pc'[u] \in Numbered \ {"cdev_del"} => pc[u] # "cdev_del"
    BY <1>0, <1>2 DEF Places, Values, Numbered, RegionFails, RegisterFails, AttachEnds,
      UnregisterRegion, Over
  <2> QED
    BY <1>0, <2>1, <2>2 DEF Count
<1>3. ASSUME NEW t \in Thread, Attach(t) \/ Detach(t) PROVE Count'
  <2>1. /\ total' = total /\ bound' = bound /\ num' = num /\ (~met' => ~met)
        /\ loaded' # "absent" => loaded # "absent"
    BY <1>0, <1>3 DEF Stage, Attach, Detach
  <2>2. \A u \in Thread :
          /\ pc'[u] = "devres" <=> pc[u] = "devres"
          /\ pc'[u] \in {"node", "counted", "uncounted"} => pc'[u] = pc[u] /\ reg'[u] = reg[u]
          /\ pc'[u] \in Numbered => at'[u] = at[u] /\ pc[u] \in Numbered
          /\ pc'[u] \in Numbered \ {"cdev_del"} => pc[u] # "cdev_del"
    BY <1>0, <1>3 DEF Places, Values, Numbered, Attach, Detach
  <2> QED
    BY <1>0, <2>1, <2>2 DEF Count
<1>4. ASSUME NEW t \in Thread, Rmmod(t) \/ Drain(t) \/ DetachEnds(t) \/ DestroyClass(t)
  PROVE Count'
  <2>1. /\ total' = total /\ bound' = bound /\ num' = num /\ (~met' => ~met)
        /\ loaded' # "absent" => loaded # "absent"
    BY <1>0, <1>4 DEF Stage, Rmmod, Drain, DetachEnds, DestroyClass
  <2>2. \A u \in Thread :
          /\ pc'[u] = "devres" <=> pc[u] = "devres"
          /\ pc'[u] \in {"node", "counted", "uncounted"} => pc'[u] = pc[u] /\ reg'[u] = reg[u]
          /\ pc'[u] \in Numbered => at'[u] = at[u] /\ pc[u] \in Numbered
          /\ pc'[u] \in Numbered \ {"cdev_del"} => pc[u] # "cdev_del"
    BY <1>0, <1>4 DEF Places, Values, Numbered, Rmmod, Drain, DetachEnds, DestroyClass
  <2> QED
    BY <1>0, <2>1, <2>2 DEF Count
<1>5. ASSUME NEW t \in Thread, Bind(t) \/ Unbind(t) PROVE Count'
  <2>1. /\ total' = total /\ bound' = bound /\ num' = num /\ (~met' => ~met)
        /\ loaded' # "absent" => loaded # "absent"
    BY <1>0, <1>5 DEF Stage, Bind, Unbind, Enter
  <2>2. \A u \in Thread :
          /\ pc'[u] = "devres" <=> pc[u] = "devres"
          /\ pc'[u] \in {"node", "counted", "uncounted"} => pc'[u] = pc[u] /\ reg'[u] = reg[u]
          /\ pc'[u] \in Numbered => at'[u] = at[u] /\ pc[u] \in Numbered
          /\ pc'[u] \in Numbered \ {"cdev_del"} => pc[u] # "cdev_del"
    BY <1>0, <1>5 DEF Places, Values, Numbered, Bind, Unbind, Enter
  <2> QED
    BY <1>0, <2>1, <2>2 DEF Count
<1>6. ASSUME NEW t \in Thread, Allocate(t) \/ CdevFails(t) PROVE Count'
  <2>1. /\ total' = total /\ bound' = bound /\ num' = num /\ (~met' => ~met)
        /\ loaded' # "absent" => loaded # "absent"
    BY <1>0, <1>6 DEF Stage, Allocate, CdevFails
  <2>2. \A u \in Thread :
          /\ pc'[u] = "devres" <=> pc[u] = "devres"
          /\ pc'[u] \in {"node", "counted", "uncounted"} => pc'[u] = pc[u] /\ reg'[u] = reg[u]
          /\ pc'[u] \in Numbered => at'[u] = at[u] /\ pc[u] \in Numbered
          /\ pc'[u] \in Numbered \ {"cdev_del"} => pc[u] # "cdev_del"
    BY <1>0, <1>6 DEF Places, Values, Numbered, Allocate, CdevFails
  <2> QED
    BY <1>0, <2>1, <2>2 DEF Count
<1>7. ASSUME NEW t \in Thread, AddCdev(t) PROVE Count'
  <2>1. /\ total' = total /\ bound' = bound /\ num' = num /\ (~met' => ~met)
        /\ loaded' # "absent" => loaded # "absent"
    BY <1>0, <1>7 DEF Stage, AddCdev
  <2>2. \A u \in Thread :
          /\ pc'[u] = "devres" <=> pc[u] = "devres"
          /\ pc'[u] \in {"node", "counted", "uncounted"} => pc'[u] = pc[u] /\ reg'[u] = reg[u]
          /\ pc'[u] \in Numbered => at'[u] = at[u] /\ pc[u] \in Numbered
          /\ pc'[u] \in Numbered \ {"cdev_del"} => pc[u] # "cdev_del"
    BY <1>0, <1>7 DEF Places, Values, Numbered, AddCdev
  <2> QED
    BY <1>0, <2>1, <2>2 DEF Count
<1>8. ASSUME NEW t \in Thread, CreateNode(t) \/ NodeFails(t) PROVE Count'
  <2>1. /\ total' = total /\ bound' = bound /\ num' = num /\ (~met' => ~met)
        /\ loaded' # "absent" => loaded # "absent"
    BY <1>0, <1>8 DEF Stage, CreateNode, NodeFails
  <2>2. \A u \in Thread :
          /\ pc'[u] = "devres" <=> pc[u] = "devres"
          /\ pc'[u] \in {"node", "counted", "uncounted"} => pc'[u] = pc[u] /\ reg'[u] = reg[u]
          /\ pc'[u] \in Numbered => at'[u] = at[u] /\ pc[u] \in Numbered
          /\ pc'[u] \in Numbered \ {"cdev_del"} => pc[u] # "cdev_del"
    BY <1>0, <1>8 DEF Places, Values, Numbered, CreateNode, NodeFails
  <2> QED
    BY <1>0, <2>1, <2>2 DEF Count
<1>9. ASSUME NEW t \in Thread, DelCdev(t) \/ DestroyNode(t) PROVE Count'
  <2>1. /\ total' = total /\ bound' = bound /\ num' = num /\ (~met' => ~met)
        /\ loaded' # "absent" => loaded # "absent"
    BY <1>0, <1>9 DEF Stage, DelCdev, DestroyNode
  <2>2. \A u \in Thread :
          /\ pc'[u] = "devres" <=> pc[u] = "devres"
          /\ pc'[u] \in {"node", "counted", "uncounted"} => pc'[u] = pc[u] /\ reg'[u] = reg[u]
          /\ pc'[u] \in Numbered => at'[u] = at[u] /\ pc[u] \in Numbered
          /\ pc'[u] \in Numbered \ {"cdev_del"} => pc[u] # "cdev_del"
    BY <1>0, <1>9 DEF Places, Values, Numbered, DelCdev, DestroyNode
  <2> QED
    BY <1>0, <2>1, <2>2 DEF Count
<1>10. ASSUME NEW t \in Thread, Insmod(t) PROVE Count'
  <2>1. total' = 0 /\ bound' = bound /\ bound = {} /\ (\A u \in Thread : ~Busy(u)')
    BY <1>0, <1>10 DEF Insmod, Places, Walk, Stage, Others
  <2> QED
    BY <2>1, <1>0, Counted DEF Count, Numbered
<1>11. ASSUME NEW t \in Thread, TakeNumber(t) PROVE Count'
  <2> SUFFICES ASSUME ~met' PROVE Count'
    BY DEF Count
  <2>1. /\ total' = total /\ bound' = bound /\ loaded' = loaded /\ at' = at /\ reg' = reg /\ ~met
        /\ pc[t] = "number" /\ pc'[t] = "cdev"
        /\ at[t] \in Dev /\ at[t] \notin bound
        /\ num' = [num EXCEPT ![at[t]] = total]
    BY <1>0, <1>11 DEF TakeNumber, Places, Locks
  <2>2. \A u \in Thread \ {t} : pc'[u] = pc[u] /\ ~Busy(u)
    BY <1>0, <1>11, <2>1 DEF TakeNumber, Places, Alone
  <2>3. num'[at[t]] = total /\ \A d \in bound : num'[d] = num[d]
    BY <1>0, <2>1 DEF Values, Devices
  <2>4. loaded # "absent"
    BY <1>0, <2>1 DEF Stage
  <2>5. total = Cardinality(bound)
    BY <1>0, <2>1, <2>2, <2>4 DEF Count
  <2>6. Cardinality(bound) \in Nat /\ Cardinality(bound) < NDEVS
    BY <1>0, <2>1, Counted
  <2>7. total \in 0 .. NDEVS - 1
    BY <2>5, <2>6
  <2> QED
    BY <1>0, <2>1, <2>2, <2>3, <2>5, <2>7 DEF Count, Numbered
<1>12. ASSUME NEW t \in Thread, ReadTotal(t) PROVE Count'
  <2> SUFFICES ASSUME ~met' PROVE Count'
    BY DEF Count
  <2>1. /\ total' = total /\ bound' = bound /\ num' = num /\ loaded' = loaded /\ at' = at /\ ~met
        /\ reg'[t] = total
        /\ \/ pc[t] = "name" /\ pc'[t] = "node"
           \/ pc[t] = "count" /\ pc'[t] = "counted"
           \/ pc[t] = "uncount" /\ pc'[t] = "uncounted"
    BY <1>0, <1>12 DEF ReadTotal, Places, Values
  <2>2. \A u \in Thread \ {t} : pc'[u] = pc[u] /\ ~Busy(u)
    BY <1>0, <1>12, <2>1 DEF ReadTotal, Places, Alone
  <2> QED
    BY <1>0, <2>1, <2>2 DEF Count, Numbered
<1>13. ASSUME NEW t \in Thread, StoreCount(t) PROVE Count'
  <2> SUFFICES ASSUME ~met' PROVE Count'
    BY DEF Count
  <2>1. /\ total' = reg[t] + 1 /\ bound' = bound \cup {at[t]} /\ num' = num /\ ~met
        /\ pc[t] = "counted" /\ pc'[t] \in {"idle", "attach", "detach"}
        /\ at[t] \in Dev /\ at[t] \notin bound
    BY <1>0, <1>13 DEF StoreCount, Return, Places, Locks
  <2>2. \A u \in Thread \ {t} : pc'[u] = pc[u] /\ ~Busy(u)
    BY <1>0, <1>13, <2>1 DEF StoreCount, Return, Places, Alone
  <2>3. loaded # "absent"
    BY <1>0, <2>1 DEF Stage
  <2>4. total = Cardinality(bound) /\ reg[t] = total /\ num[at[t]] \in 0 .. NDEVS - 1
    BY <1>0, <2>1, <2>2, <2>3 DEF Count, Numbered
  <2>5. total' = Cardinality(bound')
    BY <1>0, <2>1, <2>4, Counted
  <2> QED
    BY <1>0, <2>1, <2>2, <2>4, <2>5 DEF Count, Numbered
<1>14. ASSUME NEW t \in Thread, StoreUncount(t) PROVE Count'
  <2> SUFFICES ASSUME ~met' PROVE Count'
    BY DEF Count
  <2>1. /\ total' = reg[t] - 1 /\ bound' = bound /\ num' = num /\ loaded' = loaded /\ ~met
        /\ pc[t] = "uncounted" /\ pc'[t] = "devres"
    BY <1>0, <1>14 DEF StoreUncount, Places
  <2>2. \A u \in Thread \ {t} : pc'[u] = pc[u] /\ ~Busy(u)
    BY <1>0, <1>14, <2>1 DEF StoreUncount, Places, Alone
  <2>3. loaded # "absent"
    BY <1>0, <2>1 DEF Stage
  <2>4. total = Cardinality(bound) /\ reg[t] = total
    BY <1>0, <2>1, <2>2, <2>3 DEF Count
  <2> QED
    BY <1>0, <2>1, <2>2, <2>4 DEF Count, Numbered
<1>15. ASSUME NEW t \in Thread, Release(t) PROVE Count'
  <2> SUFFICES ASSUME ~met' PROVE Count'
    BY DEF Count
  <2>1. /\ total' = total /\ bound' = bound \ {at[t]} /\ ~met
        /\ pc'[t] \in {"idle", "attach", "detach"}
        /\ \A d \in bound' : num'[d] = num[d]
    BY <1>0, <1>15 DEF Release, Return, Places, Devices, Locks
  <2>2. \A u \in Thread \ {t} : pc'[u] = pc[u] /\ ~Busy(u)
    BY <1>0, <1>15, <2>1 DEF Release, Return, Places, Alone
  <2>3. loaded # "absent"
    BY <1>0, <1>15 DEF Stage, Release
  <2>4. total = Cardinality(bound \ {at[t]})
    <3>1. CASE pc[t] = "release"
      <4>1. bound \ {at[t]} = bound
        BY <1>0, <3>1 DEF Locks
      <4> QED
        BY <1>0, <2>1, <2>2, <2>3, <3>1, <4>1 DEF Count
    <3>2. CASE pc[t] = "devres"
      <4>1. at[t] \in bound
        BY <1>0, <3>2 DEF Locks
      <4> QED
        BY <1>0, <2>1, <3>2, <4>1, Counted DEF Count
    <3> QED
      BY <1>15, <3>1, <3>2 DEF Release
  <2> QED
    BY <1>0, <2>1, <2>2, <2>4 DEF Count, Numbered
<1>16. CASE UNCHANGED vars
  BY <1>0, <1>16 DEF vars, Count, Places, Devices, Values, Walk, Stage, Locks, Alone
<1> QED
  BY <1>1, <1>2, <1>3, <1>4, <1>5, <1>6, <1>7, <1>8, <1>9, <1>10, <1>11, <1>12, <1>13,
    <1>14, <1>15, <1>16 DEF Next, Step, Call

\* While the last number goes first, the numbers in use stay below the count.
LEMMA OrderStep == ASSUME IInv, [Next]_vars PROVE Order'
<1> USE Constants DEF Goto, module, kernel, counter, history, Busy, ProbePoints,
  RemovePoints
<1>0. Order /\ Places /\ Devices /\ Values /\ Walk /\ Stage /\ Alone /\ Count /\ Nodes
  BY DEF IInv, TypeOK, Places, Points, Devices, Values
<1>1. ASSUME NEW t \in Thread, AllocRegion(t) \/ CreateClass(t) \/ ClassFails(t) \/
  RegisterDriver(t) PROVE Order'
  <2>1. /\ refused' = refused /\ nodes' = nodes /\ total' = total /\ num' = num
        /\ (~met' => ~met) /\ (~gap' => ~gap)
    BY <1>1 DEF AllocRegion, CreateClass, ClassFails, RegisterDriver
  <2>2. \A u \in Thread :
          /\ pc'[u] \in Counting <=> pc[u] \in Counting
          /\ pc'[u] = "destroy" => pc[u] = "destroy" /\ at'[u] = at[u]
          /\ pc'[u] \in NodeGone \ {"devres"} => pc[u] \in NodeGone \ {"devres"}
    BY <1>0, <1>1 DEF Places, Counting, NodeGone, AllocRegion, CreateClass, ClassFails,
      RegisterDriver
  <2> QED
    BY <1>0, <2>1, <2>2 DEF Order
<1>2. ASSUME NEW t \in Thread, RegionFails(t) \/ RegisterFails(t) \/ AttachEnds(t) \/
  UnregisterRegion(t) PROVE Order'
  <2>1. /\ refused' = refused /\ nodes' = nodes /\ total' = total /\ num' = num
        /\ (~met' => ~met) /\ (~gap' => ~gap)
    BY <1>2 DEF RegionFails, RegisterFails, AttachEnds, UnregisterRegion, Over
  <2>2. \A u \in Thread :
          /\ pc'[u] \in Counting <=> pc[u] \in Counting
          /\ pc'[u] = "destroy" => pc[u] = "destroy" /\ at'[u] = at[u]
          /\ pc'[u] \in NodeGone \ {"devres"} => pc[u] \in NodeGone \ {"devres"}
    BY <1>0, <1>2 DEF Places, Counting, NodeGone, RegionFails, RegisterFails,
      AttachEnds, UnregisterRegion, Over
  <2> QED
    BY <1>0, <2>1, <2>2 DEF Order
<1>3. ASSUME NEW t \in Thread, Attach(t) \/ Rmmod(t) PROVE Order'
  <2>1. /\ refused' = refused /\ nodes' = nodes /\ total' = total /\ num' = num
        /\ (~met' => ~met) /\ (~gap' => ~gap)
    BY <1>3 DEF Attach, Rmmod
  <2>2. \A u \in Thread :
          /\ pc'[u] \in Counting <=> pc[u] \in Counting
          /\ pc'[u] = "destroy" => pc[u] = "destroy" /\ at'[u] = at[u]
          /\ pc'[u] \in NodeGone \ {"devres"} => pc[u] \in NodeGone \ {"devres"}
    BY <1>0, <1>3 DEF Places, Counting, NodeGone, Attach, Rmmod
  <2> QED
    BY <1>0, <2>1, <2>2 DEF Order
<1>4. ASSUME NEW t \in Thread, Drain(t) \/ DetachEnds(t) \/ DestroyClass(t) PROVE Order'
  <2>1. /\ refused' = refused /\ nodes' = nodes /\ total' = total /\ num' = num
        /\ (~met' => ~met) /\ (~gap' => ~gap)
    BY <1>4 DEF Drain, DetachEnds, DestroyClass
  <2>2. \A u \in Thread :
          /\ pc'[u] \in Counting <=> pc[u] \in Counting
          /\ pc'[u] = "destroy" => pc[u] = "destroy" /\ at'[u] = at[u]
          /\ pc'[u] \in NodeGone \ {"devres"} => pc[u] \in NodeGone \ {"devres"}
    BY <1>0, <1>4 DEF Places, Counting, NodeGone, Drain, DetachEnds, DestroyClass
  <2> QED
    BY <1>0, <2>1, <2>2 DEF Order
<1>5. ASSUME NEW t \in Thread, Bind(t) PROVE Order'
  <2>1. /\ refused' = refused /\ nodes' = nodes /\ total' = total /\ num' = num /\ gap' = gap
    BY <1>5 DEF Bind, Enter
  <2>2. ~met' => ~met
    BY <1>5, Zenon DEF Bind, Enter
  <2>3. \A u \in Thread :
          /\ pc'[u] \in Counting <=> pc[u] \in Counting
          /\ pc'[u] = "destroy" => pc[u] = "destroy" /\ at'[u] = at[u]
          /\ pc'[u] \in NodeGone \ {"devres"} => pc[u] \in NodeGone \ {"devres"}
    BY <1>0, <1>5 DEF Places, Counting, NodeGone, Bind, Enter
  <2> QED
    BY <1>0, <2>1, <2>2, <2>3 DEF Order
<1>6. ASSUME NEW t \in Thread, Allocate(t) \/ CdevFails(t) PROVE Order'
  <2>1. /\ refused' = refused /\ nodes' = nodes /\ total' = total /\ num' = num
        /\ (~met' => ~met) /\ (~gap' => ~gap)
    BY <1>6 DEF Allocate, CdevFails
  <2>2. \A u \in Thread :
          /\ pc'[u] \in Counting <=> pc[u] \in Counting
          /\ pc'[u] = "destroy" => pc[u] = "destroy" /\ at'[u] = at[u]
          /\ pc'[u] \in NodeGone \ {"devres"} => pc[u] \in NodeGone \ {"devres"}
    BY <1>0, <1>6 DEF Places, Counting, NodeGone, Allocate, CdevFails
  <2> QED
    BY <1>0, <2>1, <2>2 DEF Order
<1>7. ASSUME NEW t \in Thread, AddCdev(t) PROVE Order'
  <2>1. /\ refused' = refused /\ nodes' = nodes /\ total' = total /\ num' = num
        /\ (~met' => ~met) /\ (~gap' => ~gap)
    BY <1>7 DEF AddCdev
  <2>2. \A u \in Thread :
          /\ pc'[u] \in Counting <=> pc[u] \in Counting
          /\ pc'[u] = "destroy" => pc[u] = "destroy" /\ at'[u] = at[u]
          /\ pc'[u] \in NodeGone \ {"devres"} => pc[u] \in NodeGone \ {"devres"}
    BY <1>0, <1>7 DEF Places, Counting, NodeGone, AddCdev
  <2> QED
    BY <1>0, <2>1, <2>2 DEF Order
<1>8. ASSUME NEW t \in Thread, ReadTotal(t) \/ DelCdev(t) PROVE Order'
  <2>1. /\ refused' = refused /\ nodes' = nodes /\ total' = total /\ num' = num
        /\ (~met' => ~met) /\ (~gap' => ~gap)
    BY <1>8 DEF ReadTotal, DelCdev
  <2>2. \A u \in Thread :
          /\ pc'[u] \in Counting <=> pc[u] \in Counting
          /\ pc'[u] = "destroy" => pc[u] = "destroy" /\ at'[u] = at[u]
          /\ pc'[u] \in NodeGone \ {"devres"} => pc[u] \in NodeGone \ {"devres"}
    BY <1>0, <1>8 DEF Places, Counting, NodeGone, ReadTotal, DelCdev
  <2> QED
    BY <1>0, <2>1, <2>2 DEF Order
<1>9. ASSUME NEW t \in Thread, Insmod(t) PROVE Order'
  <2>1. refused' = {} /\ nodes' = nodes /\ bound = {} /\ \A u \in Thread : pc[u] = "idle" /\ ~Busy(u)'
    BY <1>0, <1>9 DEF Insmod, Places, Walk, Stage, Others
  <2>2. nodes = {}
    BY <1>0, <2>1 DEF Nodes, WithNode, Counting
  <2> QED
    BY <2>1, <2>2 DEF Order, NodeGone
<1>10. ASSUME NEW t \in Thread, Detach(t) \/ Unbind(t) PROVE Order'
  <2> SUFFICES ASSUME ~met', ~gap' PROVE Order'
    BY DEF Order
  <2>1. /\ refused' = refused /\ nodes' = nodes /\ total' = total /\ num' = num
        /\ pc[t] \in {"idle", "detach"} /\ pc'[t] = "destroy"
    BY <1>0, <1>10 DEF Detach, Unbind, Enter, Places
  <2>2. \A u \in Thread \ {t} : pc'[u] = pc[u] /\ at'[u] = at[u]
    BY <1>0, <1>10 DEF Detach, Unbind, Enter, Places
  <2>3. ~met
    BY <1>10 DEF Detach, Unbind, Enter
  <2>4. PICK d \in bound : at' = [at EXCEPT ![t] = d] /\ gap' = (gap \/ num[d] # total - 1)
    BY <1>10, Zenon DEF Detach, Unbind, Enter
  <2>5. ~gap /\ num[d] = total - 1
    BY <2>4, Zenon
  <2>6. num'[at'[t]] = total - 1
    BY <1>0, <2>1, <2>4, <2>5 DEF Places
  <2> QED
    BY <1>0, <2>1, <2>2, <2>3, <2>5, <2>6 DEF Order, Counting, NodeGone
<1>11. ASSUME NEW t \in Thread, TakeNumber(t) PROVE Order'
  <2> SUFFICES ASSUME ~met', ~gap' PROVE Order'
    BY DEF Order
  <2>1. /\ refused' = refused /\ nodes' = nodes /\ total' = total /\ ~met /\ ~gap
        /\ pc[t] = "number" /\ pc'[t] = "cdev"
    BY <1>0, <1>11 DEF TakeNumber, Places
  <2>2. \A u \in Thread \ {t} : pc'[u] = pc[u] /\ ~Busy(u)
    BY <1>0, <1>11, <2>1 DEF TakeNumber, Places, Alone
  <2> QED
    BY <1>0, <2>1, <2>2 DEF Order, Counting, NodeGone
<1>12. ASSUME NEW t \in Thread, CreateNode(t) PROVE Order'
  <2> SUFFICES ASSUME ~met', ~gap' PROVE Order'
    BY DEF Order
  <2>1. /\ refused' = refused /\ total' = total /\ ~met /\ ~gap
        /\ pc[t] = "node" /\ pc'[t] = "count"
        /\ nodes' = nodes \cup {[num |-> num[at[t]], name |-> reg[t], dev |-> at[t]]}
    BY <1>0, <1>12 DEF CreateNode, Places
  <2>2. \A u \in Thread \ {t} : pc'[u] = pc[u] /\ ~Busy(u)
    BY <1>0, <1>12, <2>1 DEF CreateNode, Places, Alone
  <2>3. num[at[t]] = total /\ reg[t] = total
    BY <1>0, <2>1 DEF Count, Numbered
  <2> QED
    BY <1>0, <2>1, <2>2, <2>3 DEF Order, Counting, NodeGone, Values
<1>13. ASSUME NEW t \in Thread, NodeFails(t) PROVE Order'
  <2> SUFFICES ASSUME ~met', ~gap' PROVE Order'
    BY DEF Order
  <2>1. /\ nodes' = nodes /\ total' = total /\ num' = num /\ ~met /\ ~gap
        /\ pc[t] = "node" /\ pc'[t] = "cdev_del"
    BY <1>0, <1>13 DEF NodeFails, Places
  <2>2. \A u \in Thread \ {t} : pc'[u] = pc[u] /\ ~Busy(u)
    BY <1>0, <1>13, <2>1 DEF NodeFails, Places, Alone
  <2>3. num[at[t]] = total /\ reg[t] = total
    BY <1>0, <2>1 DEF Count, Numbered
  <2>4. \A x \in nodes : x.num < total /\ x.name = x.num
    BY <1>0, <2>1, <2>2 DEF Order, Counting
  <2>5. ~InUse(t)
    BY <1>0, <2>3, <2>4 DEF InUse, Values
  <2>6. refused' = refused
    BY <1>13, <2>5 DEF NodeFails
  <2> QED
    BY <1>0, <2>1, <2>2, <2>6 DEF Order, Counting, NodeGone
<1>14. ASSUME NEW t \in Thread, StoreCount(t) PROVE Order'
  <2> SUFFICES ASSUME ~met', ~gap' PROVE Order'
    BY DEF Order
  <2>1. /\ refused' = refused /\ nodes' = nodes /\ total' = reg[t] + 1 /\ ~met /\ ~gap
        /\ pc[t] = "counted" /\ pc'[t] \in {"idle", "attach", "detach"}
    BY <1>0, <1>14 DEF StoreCount, Return, Places
  <2>2. \A u \in Thread \ {t} : pc'[u] = pc[u] /\ ~Busy(u)
    BY <1>0, <1>14, <2>1 DEF StoreCount, Return, Places, Alone
  <2>3. reg[t] = total
    BY <1>0, <2>1 DEF Count
  <2> QED
    BY <1>0, <2>1, <2>2, <2>3 DEF Order, Counting, NodeGone, Values
<1>15. ASSUME NEW t \in Thread, StoreUncount(t) PROVE Order'
  <2> SUFFICES ASSUME ~met', ~gap' PROVE Order'
    BY DEF Order
  <2>1. /\ refused' = refused /\ nodes' = nodes /\ total' = reg[t] - 1 /\ ~met /\ ~gap
        /\ pc[t] = "uncounted" /\ pc'[t] = "devres"
    BY <1>0, <1>15 DEF StoreUncount, Places
  <2>2. \A u \in Thread \ {t} : pc'[u] = pc[u] /\ ~Busy(u)
    BY <1>0, <1>15, <2>1 DEF StoreUncount, Places, Alone
  <2>3. reg[t] = total
    BY <1>0, <2>1 DEF Count
  <2> QED
    BY <1>0, <2>1, <2>2, <2>3 DEF Order, Counting, NodeGone, Values
<1>16. ASSUME NEW t \in Thread, DestroyNode(t) PROVE Order'
  <2> SUFFICES ASSUME ~met', ~gap' PROVE Order'
    BY DEF Order
  <2>1. /\ refused' = refused /\ total' = total /\ ~met /\ ~gap
        /\ nodes' = {x \in nodes : x.num # num[at[t]]}
        /\ pc[t] = "destroy" /\ pc'[t] = "cdev_remove"
    BY <1>0, <1>16 DEF DestroyNode, Places
  <2>2. \A u \in Thread \ {t} : pc'[u] = pc[u] /\ ~Busy(u)
    BY <1>0, <1>16, <2>1 DEF DestroyNode, Places, Alone
  <2>3. num[at[t]] = total - 1 /\ \A x \in nodes : x.num < total
    BY <1>0, <2>1, <2>2 DEF Order, Counting
  <2> QED
    BY <1>0, <2>1, <2>2, <2>3 DEF Order, Counting, NodeGone, Values
<1>17. ASSUME NEW t \in Thread, Release(t) PROVE Order'
  <2> SUFFICES ASSUME ~met', ~gap' PROVE Order'
    BY DEF Order
  <2>1. /\ refused' = refused /\ nodes' = nodes /\ total' = total /\ ~met /\ ~gap
        /\ pc[t] \in {"release", "devres"} /\ pc'[t] \in {"idle", "attach", "detach"}
    BY <1>0, <1>17 DEF Release, Return, Places
  <2>2. \A u \in Thread \ {t} : pc'[u] = pc[u] /\ ~Busy(u)
    BY <1>0, <1>17, <2>1 DEF Release, Return, Places, Alone
  <2> QED
    BY <1>0, <2>1, <2>2 DEF Order, Counting, NodeGone
<1>18. CASE UNCHANGED vars
  BY <1>0, <1>18 DEF vars, Order, Places, Devices, Values, Walk, Stage, Alone, Count,
    Nodes
<1> QED
  BY <1>1, <1>2, <1>3, <1>4, <1>5, <1>6, <1>7, <1>8, <1>9, <1>10, <1>11, <1>12, <1>13,
    <1>14, <1>15, <1>16, <1>17, <1>18 DEF Next, Step, Call

\* The name of a node is made from the count that its number was made from.
LEMMA NamesStep == ASSUME IInv, [Next]_vars PROVE Names'
<1> USE DEF Goto, module, kernel, counter, history
<1>0. Names /\ Count
  BY DEF IInv
<1>1. ASSUME nodes' \subseteq nodes, ~met' => ~met PROVE Names'
  BY <1>0, <1>1 DEF Names
<1>2. ASSUME NEW t \in Thread, CreateNode(t) PROVE Names'
  <2> SUFFICES ASSUME ~met' PROVE \A x \in nodes' : x.name = x.num
    BY DEF Names
  <2>1. /\ ~met /\ pc[t] = "node"
        /\ nodes' = nodes \cup {[num |-> num[at[t]], name |-> reg[t], dev |-> at[t]]}
    BY <1>2 DEF CreateNode
  <2>2. num[at[t]] = reg[t]
    BY <1>0, <2>1 DEF Count, Numbered
  <2> QED
    BY <1>0, <2>1, <2>2 DEF Names
<1>3. ASSUME NEW t \in Thread, Insmod(t) \/ AllocRegion(t) \/ CreateClass(t) \/
  ClassFails(t) \/ RegisterDriver(t) \/ RegionFails(t) \/ RegisterFails(t) \/ Attach(t) \/
  AttachEnds(t) \/ Rmmod(t) \/ Drain(t) \/ Detach(t) \/ DetachEnds(t) \/ DestroyClass(t) \/
  UnregisterRegion(t) PROVE Names'
  BY <1>1, <1>3 DEF Insmod, AllocRegion, CreateClass, ClassFails, RegisterDriver,
    RegionFails, RegisterFails, Attach, AttachEnds, Rmmod, Drain, Detach, DetachEnds,
    DestroyClass, UnregisterRegion, Over
<1>4. ASSUME NEW t \in Thread, Bind(t) \/ Unbind(t) PROVE Names'
  <2>1. nodes' = nodes
    BY <1>4 DEF Bind, Unbind, Enter
  <2>2. ~met' => ~met
    BY <1>4, Zenon DEF Bind, Unbind, Enter
  <2> QED
    BY <1>1, <2>1, <2>2
<1>5. ASSUME NEW t \in Thread, Allocate(t) \/ TakeNumber(t) \/ AddCdev(t) \/
  CdevFails(t) \/ ReadTotal(t) \/ NodeFails(t) \/ StoreCount(t) \/ DelCdev(t) \/
  Release(t) \/ DestroyNode(t) \/ StoreUncount(t) PROVE Names'
  BY <1>1, <1>5 DEF Allocate, TakeNumber, AddCdev, CdevFails, ReadTotal, NodeFails,
    StoreCount, DelCdev, Release, DestroyNode, StoreUncount
<1>6. CASE UNCHANGED vars
  BY <1>1, <1>6 DEF vars
<1> QED
  BY <1>2, <1>3, <1>4, <1>5, <1>6 DEF Next, Step, Call

\* A step that leaves the numbers, the count and the bound devices alone.
LEMMA DenseRests ==
  ASSUME Dense, total' = total, bound' = bound, num' = num, ~met' => ~met, ~gap' => ~gap,
         \A u \in Thread :
           /\ pc'[u] = "devres" <=> pc[u] = "devres"
           /\ pc'[u] \in Numbered \cup {"devres"} => pc[u] \in Numbered \cup {"devres"} /\ at'[u] = at[u]
           /\ pc'[u] \in Removing => pc[u] \in Removing /\ at'[u] = at[u]
  PROVE  Dense'
BY DEF Dense

\* While the last number goes first, the numbers in use are those below the count.
LEMMA DenseStep == ASSUME IInv, [Next]_vars PROVE Dense'
<1> USE DEF Goto, module, kernel, counter, history, Busy, ProbePoints, RemovePoints
<1>0. /\ Dense /\ Places /\ Devices /\ Values /\ Walk /\ Stage /\ Locks /\ Alone /\ Count
      /\ Map
  BY DEF IInv, TypeOK, Places, Points, Devices, Values
<1>1. ASSUME NEW t \in Thread, AllocRegion(t) \/ CreateClass(t) \/ ClassFails(t) \/
  RegisterDriver(t) PROVE Dense'
  <2>1. /\ total' = total /\ bound' = bound /\ num' = num /\ (~met' => ~met) /\ (~gap' => ~gap)
    BY <1>1 DEF AllocRegion, CreateClass, ClassFails, RegisterDriver
  <2>2. \A u \in Thread :
          /\ pc'[u] = "devres" <=> pc[u] = "devres"
          /\ pc'[u] \in Numbered \cup {"devres"} => pc[u] \in Numbered \cup {"devres"} /\ at'[u] = at[u]
          /\ pc'[u] \in Removing => pc[u] \in Removing /\ at'[u] = at[u]
    BY <1>0, <1>1 DEF Places, Numbered, Removing, AllocRegion, CreateClass, ClassFails,
      RegisterDriver
  <2> QED
    BY <1>0, <2>1, <2>2, DenseRests
<1>2. ASSUME NEW t \in Thread, RegionFails(t) \/ RegisterFails(t) \/ AttachEnds(t) \/
  UnregisterRegion(t) PROVE Dense'
  <2>1. /\ total' = total /\ bound' = bound /\ num' = num /\ (~met' => ~met) /\ (~gap' => ~gap)
    BY <1>2 DEF RegionFails, RegisterFails, AttachEnds, UnregisterRegion, Over
  <2>2. \A u \in Thread :
          /\ pc'[u] = "devres" <=> pc[u] = "devres"
          /\ pc'[u] \in Numbered \cup {"devres"} => pc[u] \in Numbered \cup {"devres"} /\ at'[u] = at[u]
          /\ pc'[u] \in Removing => pc[u] \in Removing /\ at'[u] = at[u]
    BY <1>0, <1>2 DEF Places, Numbered, Removing, RegionFails, RegisterFails, AttachEnds,
      UnregisterRegion, Over
  <2> QED
    BY <1>0, <2>1, <2>2, DenseRests
<1>3. ASSUME NEW t \in Thread, Attach(t) \/ Rmmod(t) \/ Drain(t) \/ DetachEnds(t) \/
  DestroyClass(t) PROVE Dense'
  <2>1. /\ total' = total /\ bound' = bound /\ num' = num /\ (~met' => ~met) /\ (~gap' => ~gap)
    BY <1>3 DEF Attach, Rmmod, Drain, DetachEnds, DestroyClass
  <2>2. \A u \in Thread :
          /\ pc'[u] = "devres" <=> pc[u] = "devres"
          /\ pc'[u] \in Numbered \cup {"devres"} => pc[u] \in Numbered \cup {"devres"} /\ at'[u] = at[u]
          /\ pc'[u] \in Removing => pc[u] \in Removing /\ at'[u] = at[u]
    BY <1>0, <1>3 DEF Places, Numbered, Removing, Attach, Rmmod, Drain, DetachEnds,
      DestroyClass
  <2> QED
    BY <1>0, <2>1, <2>2, DenseRests
<1>4. ASSUME NEW t \in Thread, Bind(t) PROVE Dense'
  <2>1. /\ total' = total /\ bound' = bound /\ num' = num /\ gap' = gap
    BY <1>4 DEF Bind, Enter
  <2>2. ~met' => ~met
    BY <1>4, Zenon DEF Bind, Enter
  <2>3. \A u \in Thread :
          /\ pc'[u] = "devres" <=> pc[u] = "devres"
          /\ pc'[u] \in Numbered \cup {"devres"} => pc[u] \in Numbered \cup {"devres"} /\ at'[u] = at[u]
          /\ pc'[u] \in Removing => pc[u] \in Removing /\ at'[u] = at[u]
    BY <1>0, <1>4 DEF Places, Numbered, Removing, Bind, Enter
  <2> QED
    BY <1>0, <2>1, <2>2, <2>3, DenseRests
<1>5. ASSUME NEW t \in Thread, Allocate(t) \/ CdevFails(t) \/ AddCdev(t) PROVE Dense'
  <2>1. /\ total' = total /\ bound' = bound /\ num' = num /\ (~met' => ~met) /\ (~gap' => ~gap)
    BY <1>5 DEF Allocate, CdevFails, AddCdev
  <2>2. \A u \in Thread :
          /\ pc'[u] = "devres" <=> pc[u] = "devres"
          /\ pc'[u] \in Numbered \cup {"devres"} => pc[u] \in Numbered \cup {"devres"} /\ at'[u] = at[u]
          /\ pc'[u] \in Removing => pc[u] \in Removing /\ at'[u] = at[u]
    BY <1>0, <1>5 DEF Places, Numbered, Removing, Allocate, CdevFails, AddCdev
  <2> QED
    BY <1>0, <2>1, <2>2, DenseRests
<1>6. ASSUME NEW t \in Thread, ReadTotal(t) \/ CreateNode(t) \/ NodeFails(t) PROVE Dense'
  <2>1. /\ total' = total /\ bound' = bound /\ num' = num /\ (~met' => ~met) /\ (~gap' => ~gap)
    BY <1>6 DEF ReadTotal, CreateNode, NodeFails
  <2>2. \A u \in Thread :
          /\ pc'[u] = "devres" <=> pc[u] = "devres"
          /\ pc'[u] \in Numbered \cup {"devres"} => pc[u] \in Numbered \cup {"devres"} /\ at'[u] = at[u]
          /\ pc'[u] \in Removing => pc[u] \in Removing /\ at'[u] = at[u]
    BY <1>0, <1>6 DEF Places, Numbered, Removing, ReadTotal, CreateNode, NodeFails
  <2> QED
    BY <1>0, <2>1, <2>2, DenseRests
<1>7. ASSUME NEW t \in Thread, DelCdev(t) \/ DestroyNode(t) PROVE Dense'
  <2>1. /\ total' = total /\ bound' = bound /\ num' = num /\ (~met' => ~met) /\ (~gap' => ~gap)
    BY <1>7 DEF DelCdev, DestroyNode
  <2>2. \A u \in Thread :
          /\ pc'[u] = "devres" <=> pc[u] = "devres"
          /\ pc'[u] \in Numbered \cup {"devres"} => pc[u] \in Numbered \cup {"devres"} /\ at'[u] = at[u]
          /\ pc'[u] \in Removing => pc[u] \in Removing /\ at'[u] = at[u]
    BY <1>0, <1>7 DEF Places, Numbered, Removing, DelCdev, DestroyNode
  <2> QED
    BY <1>0, <2>1, <2>2, DenseRests
<1>8. ASSUME NEW t \in Thread, Insmod(t) PROVE Dense'
  <2>1. total' = 0 /\ bound' = {} /\ (\A u \in Thread : ~Busy(u)')
    BY <1>0, <1>8 DEF Insmod, Places, Walk, Stage, Others
  <2> QED
    BY <2>1 DEF Dense, Numbered, Removing
<1>9. ASSUME NEW t \in Thread, Detach(t) \/ Unbind(t) PROVE Dense'
  <2> SUFFICES ASSUME ~met', ~gap' PROVE Dense'
    BY DEF Dense
  <2>1. /\ total' = total /\ bound' = bound /\ num' = num
        /\ pc[t] \in {"idle", "detach"} /\ pc'[t] = "destroy"
    BY <1>0, <1>9 DEF Detach, Unbind, Enter, Places
  <2>2. \A u \in Thread \ {t} : pc'[u] = pc[u] /\ at'[u] = at[u]
    BY <1>0, <1>9 DEF Detach, Unbind, Enter, Places
  <2>3. ~met
    BY <1>9 DEF Detach, Unbind, Enter
  <2>4. PICK d \in bound : at' = [at EXCEPT ![t] = d] /\ gap' = (gap \/ num[d] # total - 1)
    BY <1>9, Zenon DEF Detach, Unbind, Enter
  <2>5. ~gap /\ num[d] = total - 1
    BY <2>4, Zenon
  <2>6. num'[at'[t]] = total - 1
    BY <1>0, <2>1, <2>4, <2>5 DEF Places
  <2> QED
    BY <1>0, <2>1, <2>2, <2>3, <2>5, <2>6 DEF Dense, Numbered, Removing
<1>10. ASSUME NEW t \in Thread, TakeNumber(t) PROVE Dense'
  <2> SUFFICES ASSUME ~met', ~gap' PROVE Dense'
    BY DEF Dense
  <2>1. /\ total' = total /\ bound' = bound /\ at' = at /\ ~met /\ ~gap
        /\ pc[t] = "number" /\ pc'[t] = "cdev"
        /\ at[t] \in Dev /\ at[t] \notin bound
        /\ num' = [num EXCEPT ![at[t]] = total]
    BY <1>0, <1>10 DEF TakeNumber, Places, Locks
  <2>2. \A u \in Thread \ {t} : pc'[u] = pc[u] /\ ~Busy(u)
    BY <1>0, <1>10, <2>1 DEF TakeNumber, Places, Alone
  <2>3. num'[at[t]] = total /\ \A d \in bound : num'[d] = num[d]
    BY <1>0, <2>1 DEF Values, Devices
  <2>4. \A u \in Thread : pc[u] # "devres" /\ pc'[u] # "devres" /\ pc'[u] \notin Removing
    BY <2>1, <2>2 DEF Removing
  <2>5. \A u \in Thread : pc'[u] \in Numbered \cup {"devres"} => u = t
    BY <2>1, <2>2 DEF Numbered
  <2> QED
    BY <1>0, <2>1, <2>3, <2>4, <2>5 DEF Dense
<1>11. ASSUME NEW t \in Thread, StoreCount(t) PROVE Dense'
  <2> SUFFICES ASSUME ~met', ~gap' PROVE Dense'
    BY DEF Dense
  <2>1. /\ total' = reg[t] + 1 /\ bound' = bound \cup {at[t]} /\ num' = num /\ ~met /\ ~gap
        /\ pc[t] = "counted" /\ pc'[t] \in {"idle", "attach", "detach"}
    BY <1>0, <1>11 DEF StoreCount, Return, Places
  <2>2. \A u \in Thread \ {t} : pc'[u] = pc[u] /\ ~Busy(u)
    BY <1>0, <1>11, <2>1 DEF StoreCount, Return, Places, Alone
  <2>3. reg[t] = total /\ num[at[t]] = total
    BY <1>0, <2>1 DEF Count, Numbered
  <2>4. \A u \in Thread : /\ pc[u] # "devres" /\ pc'[u] # "devres"
                          /\ pc'[u] \notin Removing /\ pc'[u] \notin Numbered
    BY <2>1, <2>2 DEF Removing, Numbered
  <2>5. \A d \in bound' : num[d] < total'
    BY <1>0, <2>1, <2>3, <2>4 DEF Dense, Values, Devices
  <2>6. \A n \in 0 .. total' - 1 : \E d \in bound' : num[d] = n
    <3> SUFFICES ASSUME NEW n \in 0 .. total' - 1 PROVE \E d \in bound' : num[d] = n
      OBVIOUS
    <3>1. n = total \/ n \in 0 .. total - 1
      BY <1>0, <2>1, <2>3 DEF Values
    <3> QED
      BY <1>0, <2>1, <2>3, <3>1 DEF Dense
  <2>7. \A d \in bound' : num[d] <= total'
    BY <1>0, <2>1, <2>3, <2>5 DEF Dense, Values, Devices
  <2> QED
    BY <2>1, <2>4, <2>5, <2>6, <2>7 DEF Dense
<1>12. ASSUME NEW t \in Thread, StoreUncount(t) PROVE Dense'
  <2> SUFFICES ASSUME ~met', ~gap' PROVE Dense'
    BY DEF Dense
  <2>1. /\ total' = reg[t] - 1 /\ bound' = bound /\ num' = num /\ at' = at /\ ~met /\ ~gap
        /\ pc[t] = "uncounted" /\ pc'[t] = "devres"
    BY <1>0, <1>12 DEF StoreUncount, Places
  <2>2. \A u \in Thread \ {t} : pc'[u] = pc[u] /\ ~Busy(u)
    BY <1>0, <1>12, <2>1 DEF StoreUncount, Places, Alone
  <2>3. reg[t] = total /\ num[at[t]] = total - 1
    BY <1>0, <2>1 DEF Count, Dense, Removing
  <2>4. \A u \in Thread : pc[u] # "devres" /\ pc'[u] \notin Removing
    BY <2>1, <2>2 DEF Removing
  <2>5. \A u \in Thread : pc'[u] \in Numbered \cup {"devres"} => u = t
    BY <2>1, <2>2 DEF Numbered
  <2>6. \A d \in bound : num[d] <= total - 1
    BY <1>0, <2>1, <2>4 DEF Dense, Values, Devices
  <2>7. \A n \in 0 .. total - 2 : n \in 0 .. total - 1
    BY <1>0 DEF Values
  <2> QED
    BY <1>0, <2>1, <2>3, <2>4, <2>5, <2>6, <2>7 DEF Dense, Values
<1>13. ASSUME NEW t \in Thread, Release(t) PROVE Dense'
  <2> SUFFICES ASSUME ~met', ~gap' PROVE Dense'
    BY DEF Dense
  <2>1. /\ total' = total /\ bound' = bound \ {at[t]} /\ ~met /\ ~gap
        /\ pc[t] \in {"release", "devres"} /\ pc'[t] \in {"idle", "attach", "detach"}
        /\ \A d \in bound' : num'[d] = num[d]
    BY <1>0, <1>13 DEF Release, Return, Places, Devices, Locks
  <2>2. \A u \in Thread \ {t} : pc'[u] = pc[u] /\ ~Busy(u)
    BY <1>0, <1>13, <2>1 DEF Release, Return, Places, Alone
  <2>3. \A u \in Thread : /\ pc'[u] # "devres" /\ pc'[u] \notin Removing
                          /\ pc'[u] \notin Numbered
    BY <2>1, <2>2 DEF Removing, Numbered
  <2>4. /\ \A d \in bound' : num[d] < total
        /\ \A n \in 0 .. total - 1 : \E d \in bound' : num[d] = n
    <3>1. CASE pc[t] = "release"
      <4>1. bound' = bound
        BY <1>0, <2>1, <3>1 DEF Locks
      <4>2. \A u \in Thread : pc[u] # "devres"
        BY <2>2, <3>1
      <4> QED
        BY <1>0, <2>1, <4>1, <4>2 DEF Dense
    <3>2. CASE pc[t] = "devres"
      <4>1. at[t] \in bound /\ num[at[t]] = total
        BY <1>0, <2>1, <3>2 DEF Locks, Dense
      <4>2. \A d \in bound' : num[d] # total /\ num[d] <= total
        BY <1>0, <2>1, <4>1 DEF Map, Dense
      <4>3. \A d \in bound' : num[d] < total
        BY <1>0, <2>1, <4>2 DEF Values, Devices
      <4>4. \A n \in 0 .. total - 1 : n # total
        BY <1>0 DEF Values
      <4> QED
        BY <1>0, <2>1, <4>1, <4>3, <4>4 DEF Dense
    <3> QED
      BY <2>1, <3>1, <3>2
  <2>5. \A d \in bound' : num[d] <= total
    BY <1>0, <2>1, <2>4 DEF Values, Devices
  <2> QED
    BY <2>1, <2>3, <2>4, <2>5 DEF Dense
<1>14. CASE UNCHANGED vars
  BY <1>0, <1>14 DEF vars, Dense
<1> QED
  BY <1>1, <1>2, <1>3, <1>4, <1>5, <1>6, <1>7, <1>8, <1>9, <1>10, <1>11, <1>12, <1>13,
    <1>14 DEF Next, Step, Call

-----------------------------------------------------------------------------
(* The theorems. *)

\* Initially nothing is loaded, bound or numbered.
LEMMA InitHolds == Init => IInv
<1> SUFFICES ASSUME Init PROVE IInv
  OBVIOUS
<1>1. /\ loaded = "absent" /\ walker = NoThread /\ bound = {} /\ managed = {} /\ map = {}
      /\ nodes = {} /\ total = 0 /\ refused = {}
      /\ region = FALSE /\ class = FALSE /\ driver = FALSE /\ met = FALSE /\ gap = FALSE
      /\ \A t \in Thread : pc[t] = "idle" /\ at[t] = 0 /\ reg[t] = 0
  BY DEF Init
<1>2. \A t \in Thread : ~Busy(t)
  BY <1>1 DEF Busy, ProbePoints, RemovePoints
<1>3. TypeOK
  <2>1. /\ pc \in [Thread -> {"idle"}] /\ at \in [Thread -> {0}] /\ reg \in [Thread -> {0}]
        /\ num \in [Dev -> {0}]
    BY DEF Init
  <2>2. /\ region \in BOOLEAN /\ class \in BOOLEAN /\ driver \in BOOLEAN
        /\ met \in BOOLEAN /\ gap \in BOOLEAN
    BY <1>1, Zenon
  <2> QED
    BY <1>1, <2>1, <2>2, Constants DEF TypeOK
<1>4. Walk /\ Stage /\ Locks /\ Memory /\ Alone
  BY <1>1, <1>2 DEF Walk, Stage, Locks, Memory, Alone, Others, Busy, ProbePoints,
    RemovePoints
<1>5. Nodes
  BY <1>1 DEF Nodes, WithNode, Counting
<1>6. Map
  BY <1>1 DEF Map, Settled, CdevThere, CdevGone
<1>7. Count /\ Names /\ Order /\ Dense
  BY <1>1 DEF Count, Names, Order, Dense, Removing, Numbered, Counting, NodeGone
<1>8. IsFiniteSet(map)
  BY <1>1, FS_EmptySet
<1> QED
  BY <1>3, <1>4, <1>5, <1>6, <1>7, <1>8 DEF IInv

LEMMA Invariant == Spec => []IInv
<1>1. IInv /\ [Next]_vars => IInv'
  <2> SUFFICES ASSUME IInv, [Next]_vars PROVE IInv'
    OBVIOUS
  <2>1. IsFiniteSet(map)'
    BY FiniteStep DEF IInv
  <2> QED
    BY <2>1, TypeStep, WalkStep, StageStep, LocksStep, MemoryStep, NodesStep, AloneStep,
      MapStep, CountStep, NamesStep, OrderStep, DenseStep DEF IInv
<1> QED
  BY <1>1, InitHolds, PTL DEF Spec

\* Every variable keeps its type for any number of threads and devices: no walk of the
\* core leaves the tree, whatever is bound and unbound.
THEOREM TypeCorrect == Spec => []TypeOK
<1>1. IInv => TypeOK
  BY DEF IInv
<1> QED
  BY <1>1, Invariant, PTL

\* Although two probes may read the same total_devices, a bound device always has the
\* node that was made for it, and remove destroys no other device's.
THEOREM NodesStayOwned == Spec => []NodesOwned
<1>1. IInv => NodesOwned
  <2> SUFFICES ASSUME IInv PROVE NodesOwned
    OBVIOUS
  <2>1. Nodes /\ Devices
    BY DEF IInv, TypeOK, Devices
  <2>2. ASSUME NEW d \in bound, Free(d) PROVE \E x \in nodes : x.dev = d /\ x.num = num[d]
    <3>1. WithNode(d)
      BY <2>2 DEF WithNode, Free, Busy, NodeGone, ProbePoints, RemovePoints
    <3>2. PICK x \in nodes : x.dev = d
      BY <2>1, <3>1 DEF Nodes, Devices
    <3> QED
      BY <2>1, <3>2 DEF Nodes
  <2> QED
    BY <2>1, <2>2 DEF Nodes, NodesOwned
<1> QED
  BY <1>1, Invariant, PTL

\* Without the module the kernel keeps none of its region, class, driver, nodes and
\* memory, whichever calls failed; and no refused device keeps memory.
THEOREM NothingStays == Spec => []NothingLeft
<1>1. IInv => NothingLeft
  <2> SUFFICES ASSUME IInv PROVE NothingLeft
    OBVIOUS
  <2>1. Walk /\ Stage /\ Memory /\ Nodes /\ Devices
    BY DEF IInv, TypeOK, Devices
  <2>2. Quiet => managed = bound
    BY <2>1 DEF Quiet, Memory, Free, Devices
  <2>3. ASSUME loaded = "absent"
        PROVE  ~region /\ ~class /\ ~driver /\ bound = {} /\ nodes = {} /\ Quiet
    <3>1. \A t \in Thread : pc[t] = "idle"
      BY <2>1, <2>3, Constants DEF Walk
    <3>2. ~region /\ ~class /\ ~driver /\ bound = {}
      BY <2>1, <2>3 DEF Stage
    <3> QED
      BY <2>1, <3>1, <3>2 DEF Nodes, WithNode, Counting, Quiet, Busy, ProbePoints,
        RemovePoints
  <2> QED
    BY <2>2, <2>3 DEF NothingLeft
<1> QED
  BY <1>1, Invariant, PTL

\* Where the map stands while nobody, or one probe, or one remove is at work.
LEMMA MapNow ==
  ASSUME Map, ~met
  PROVE  \/ map = Settled(bound) /\ \A t \in Thread : pc[t] \notin CdevThere \cup CdevGone
         \/ \E t \in Thread : pc[t] \in CdevThere /\ map = Settled(bound) \cup {NewCdev(t)}
         \/ \E t \in Thread : pc[t] \in CdevGone /\ map = Settled(bound \ {at[t]})
BY DEF Map

\* The newest cdev of a settled device's number is its own.
LEMMA NewestSettled ==
  ASSUME NEW B, NEW d \in B, \A a, b \in B : num[a] = num[b] => a = b, map = Settled(B)
  PROVE  \E e \in map : Newest(num[d]) = {e} /\ e.dev = d
<1> DEFINE own == [num |-> num[d], dev |-> d, depth |-> 0]
<1>1. own \in map /\ \A e \in Under(num[d]) : e = own
  BY DEF Settled, Under
<1>2. own \in Under(num[d]) /\ own.depth <= own.depth /\ own.dev = d
  BY <1>1 DEF Under
<1> HIDE DEF own
<1> QED
  BY <1>1, <1>2 DEF Newest

\* So it is while a probe has a cdev in the map, unless that has the same number: then
\* it is the probe's.
LEMMA NewestProbed ==
  ASSUME Map, ~met, NEW t \in Thread, map = Settled(bound) \cup {NewCdev(t)},
         NEW d \in bound \cup {at[t]}, at[t] \notin bound
  PROVE  \E e \in map : /\ Newest(num[d]) = {e}
                        /\ e.dev = IF num[d] = num[at[t]] THEN at[t] ELSE d
<1> DEFINE new == NewCdev(t)
           own == [num |-> num[d], dev |-> d, depth |-> 0]
<1>1. new.num = num[at[t]] /\ new.dev = at[t]
      /\ new.depth = IF \E a \in bound : num[a] = num[at[t]] THEN 1 ELSE 0
  BY DEF NewCdev
<1>2. \A e \in Settled(bound) : e.depth = 0 /\ e.dev \in bound /\ num[e.dev] = e.num
  BY DEF Settled
<1>3. \A a, b \in bound : num[a] = num[b] => a = b
  BY DEF Map
<1>4. CASE num[d] = num[at[t]]
  <2>1. new \in Under(num[d]) /\ Under(num[d]) \subseteq Settled(bound) \cup {new}
    BY <1>1, <1>4 DEF Under
  <2> HIDE DEF new
  <2>2. \A e \in Under(num[d]) : e.depth <= new.depth
    BY <1>1, <1>2, <2>1
  <2>3. \A e \in Settled(bound) : e \notin Newest(num[d])
    <3> SUFFICES ASSUME NEW e \in Settled(bound), e \in Newest(num[d]) PROVE FALSE
      OBVIOUS
    <3>1. e.num = num[d] /\ new.depth <= e.depth
      BY <2>1 DEF Newest, Under
    <3> QED
      BY <3>1, <1>1, <1>2, <1>4
  <2>4. Newest(num[d]) = {new}
    BY <2>1, <2>2, <2>3 DEF Newest
  <2>5. new \in map
    BY DEF new
  <2> QED
    BY <1>1, <1>4, <2>4, <2>5
<1>5. CASE num[d] # num[at[t]]
  <2>1. d \in bound /\ own \in Settled(bound)
    BY <1>5 DEF Settled
  <2>2. \A e \in Under(num[d]) : e = own
    <3> SUFFICES ASSUME NEW e \in Under(num[d]) PROVE e = own
      OBVIOUS
    <3>1. e \in Settled(bound) \cup {new} /\ e.num = num[d]
      BY DEF Under
    <3>2. e \in Settled(bound)
      BY <1>1, <1>5, <3>1
    <3> QED
      BY <1>3, <2>1, <3>1, <3>2 DEF Settled
  <2>3. own \in Under(num[d]) /\ own.depth <= own.depth /\ own.dev = d
    BY <2>1 DEF Under
  <2>4. own \in map
    BY <2>1
  <2> HIDE DEF own
  <2> QED
    BY <1>5, <2>2, <2>3, <2>4 DEF Newest
<1> QED
  BY <1>4, <1>5

\* With one probe or remove at a time an open of a node finds the cdev of the node's
\* device, unless the probe at work has been given the node's number after a removal out
\* of order.
LEMMA OpenFinds ==
  ASSUME IInv, ~met, NEW x \in nodes
  PROVE  \E e \in map : /\ Newest(x.num) = {e}
                        /\ e.dev = x.dev \/ (gap /\ Intruding(e.dev))
<1>1. Map /\ Nodes /\ Locks /\ Alone /\ Order /\ Dense /\ Devices /\ Values
  BY DEF IInv, TypeOK, Devices, Values
<1>2. WithNode(x.dev) /\ x.num = num[x.dev]
  BY <1>1 DEF Nodes
<1>3. \A a, b \in bound : num[a] = num[b] => a = b
  BY <1>1 DEF Map
<1>4. CASE map = Settled(bound) /\ \A t \in Thread : pc[t] \notin CdevThere \cup CdevGone
  <2>1. x.dev \in bound
    BY <1>2, <1>4 DEF WithNode, Counting, CdevThere
  <2> QED
    BY <1>2, <1>3, <1>4, <2>1, NewestSettled
<1>5. ASSUME NEW t \in Thread, pc[t] \in CdevGone, map = Settled(bound \ {at[t]})
      PROVE  \E e \in map : Newest(x.num) = {e} /\ e.dev = x.dev
  <2>1. x.dev \in bound \ {at[t]}
    <3>1. \A u \in Thread : pc[u] \notin Counting
      BY <1>1, <1>5 DEF Alone, CdevGone, Counting, Busy, ProbePoints, RemovePoints
    <3> QED
      BY <1>2, <1>5, <3>1 DEF WithNode, CdevGone, NodeGone
  <2>2. \A a, b \in bound \ {at[t]} : num[a] = num[b] => a = b
    BY <1>3
  <2> QED
    BY <1>2, <1>5, <2>1, <2>2, NewestSettled
<1>6. ASSUME NEW t \in Thread, pc[t] \in CdevThere, map = Settled(bound) \cup {NewCdev(t)}
      PROVE  \E e \in map : /\ Newest(x.num) = {e}
                            /\ e.dev = x.dev \/ (gap /\ Intruding(e.dev))
  <2>1. at[t] \notin bound /\ at[t] \in Dev
    BY <1>1, <1>6 DEF Locks, CdevThere, Busy, ProbePoints
  <2>2. x.dev \in bound \cup {at[t]}
    <3>1. \A u \in Thread : pc[u] \in Counting => u = t
      BY <1>1, <1>6 DEF Alone, CdevThere, Counting, Busy, ProbePoints
    <3> QED
      BY <1>2, <3>1 DEF WithNode
  <2>3. PICK e \in map : /\ Newest(x.num) = {e}
                         /\ e.dev = IF x.num = num[at[t]] THEN at[t] ELSE x.dev
    BY <1>1, <1>2, <1>6, <2>1, <2>2, NewestProbed
  <2>4. ASSUME x.num = num[at[t]], x.dev # at[t] PROVE gap /\ Intruding(at[t])
    <3>1. pc[t] \notin Counting
      <4> SUFFICES ASSUME pc[t] \in Counting PROVE FALSE
        OBVIOUS
      <4>1. WithNode(at[t])
        BY DEF WithNode
      <4>2. PICK y \in nodes : y.dev = at[t]
        BY <1>1, <2>1, <4>1 DEF Nodes
      <4> QED
        BY <1>1, <2>4, <4>2 DEF Nodes
    <3>2. Intruding(at[t])
      BY <1>6, <3>1 DEF Intruding, CdevThere, Counting
    <3>3. gap
      <4> SUFFICES ASSUME ~gap PROVE FALSE
        OBVIOUS
      <4>1. \A u \in Thread : pc[u] \notin Counting
        BY <1>1, <1>6, <3>1 DEF Alone, CdevThere, Counting, Busy, ProbePoints
      <4>2. x.num < total
        BY <1>1, <4>1 DEF Order
      <4>3. num[at[t]] = total
        BY <1>1, <1>6 DEF Dense, CdevThere, Numbered
      <4> QED
        BY <1>1, <2>4, <4>2, <4>3 DEF Values
    <3> QED
      BY <3>2, <3>3
  <2> QED
    BY <2>3, <2>4
<1> QED
  BY <1>1, <1>4, <1>5, <1>6, MapNow

\* One probe or remove at a time: at rest the map of cdevs is the bound devices', and at
\* every moment none outlives its memory and an open of a node finds the cdev of the
\* node's device, but for a probe that is being refused its number.
THEOREM CdevsStayOwned == Spec => []CdevsOwned
<1>1. IInv => CdevsOwned
  <2> SUFFICES ASSUME IInv, ~met PROVE CdevsOwned
    BY DEF CdevsOwned
  <2>1. Map /\ Memory /\ Locks /\ Alone /\ Devices
    BY DEF IInv, TypeOK, Devices
  <2>2. Quiet => map = Settled(bound)
    BY <2>1 DEF Map, Quiet, Busy, CdevThere, CdevGone, ProbePoints, RemovePoints
  <2>3. \A d \in bound : d \in managed
    BY <2>1 DEF Memory, Locks, Free, Devices, Busy, ProbePoints, RemovePoints
  <2>4. ASSUME NEW e \in map PROVE e.dev \in managed
    <3>1. CASE e.dev \in bound
      BY <2>3, <3>1
    <3>2. CASE e.dev \notin bound
      <4>1. PICK t \in Thread : pc[t] \in CdevThere /\ e = NewCdev(t)
        BY <2>1, <3>2, <2>4, MapNow DEF Settled
      <4> QED
        BY <2>1, <4>1 DEF NewCdev, Memory, Busy, CdevThere, ProbePoints
    <3> QED
      BY <3>1, <3>2
  <2>5. \A x \in nodes : /\ Newest(x.num) # {}
                         /\ \A e \in Newest(x.num) : e.dev = x.dev \/ (gap /\ Intruding(e.dev))
    BY OpenFinds
  <2> QED
    BY <2>2, <2>4, <2>5 DEF CdevsOwned, Settled
<1> QED
  BY <1>1, Invariant, PTL

\* As long as the last device numbered is the first to be removed, there is a cdev under
\* every number up to one in use.
LEMMA NoBreak ==
  ASSUME IInv, ~met, ~gap, NEW x \in map \cup nodes, NEW n \in 0 .. x.num
  PROVE  Under(n) # {}
<1>1. Map /\ Nodes /\ Locks /\ Alone /\ Order /\ Dense /\ Devices /\ Values
  BY DEF IInv, TypeOK, Devices, Values
<1>2. \A d \in bound : num[d] \in Int
  BY <1>1 DEF Values, Devices
<1>3. ASSUME NEW B, NEW d \in B, num[d] = n, Settled(B) \subseteq map PROVE Under(n) # {}
  <2>1. [num |-> num[d], dev |-> d, depth |-> 0] \in map
    BY <1>3 DEF Settled
  <2> QED
    BY <1>3, <2>1 DEF Under
<1>4. CASE map = Settled(bound) /\ \A t \in Thread : pc[t] \notin CdevThere \cup CdevGone
  <2>1. PICK d \in bound : x.num = num[d]
    <3>1. CASE x \in map
      BY <1>4, <3>1 DEF Settled
    <3>2. CASE x \in nodes
      BY <1>1, <1>4, <3>2 DEF Nodes, WithNode, Counting, CdevThere
    <3> QED
      BY <3>1, <3>2
  <2>2. num[d] < total
    BY <1>1, <1>4 DEF Dense, CdevGone
  <2>3. n \in 0 .. total - 1
    BY <1>1, <1>2, <2>1, <2>2 DEF Values
  <2>4. \E a \in bound : num[a] = n
    BY <1>1, <2>3 DEF Dense
  <2> QED
    BY <1>3, <1>4, <2>4
<1>5. ASSUME NEW t \in Thread, pc[t] \in CdevGone, map = Settled(bound \ {at[t]})
      PROVE  Under(n) # {}
  <2>1. at[t] \in bound /\ \A u \in Thread : pc[u] \notin Counting
    BY <1>1, <1>5 DEF Locks, Alone, CdevGone, Counting, Busy, ProbePoints, RemovePoints
  <2>2. PICK d \in bound \ {at[t]} : x.num = num[d]
    <3>1. CASE x \in map
      BY <1>5, <3>1 DEF Settled
    <3>2. CASE x \in nodes
      BY <1>1, <1>5, <2>1, <3>2 DEF Nodes, WithNode, CdevGone, NodeGone
    <3> QED
      BY <3>1, <3>2
  <2>3. num[d] # num[at[t]]
    BY <1>1, <2>1 DEF Map
  <2>4. num[d] < num[at[t]] /\ num[at[t]] <= total
    <3>1. CASE pc[t] = "devres"
      BY <1>1, <1>2, <2>1, <2>3, <3>1 DEF Dense, Values
    <3>2. CASE pc[t] \in Removing
      <4>1. \A u \in Thread : pc[u] # "devres"
        BY <1>1, <3>2 DEF Alone, Busy, RemovePoints, Removing
      <4> QED
        BY <1>1, <1>2, <2>1, <2>3, <3>2, <4>1 DEF Dense, Values
    <3> QED
      BY <1>5, <3>1, <3>2 DEF CdevGone, Removing
  <2>5. n \in 0 .. total - 1 /\ n # num[at[t]]
    BY <1>1, <1>2, <2>1, <2>2, <2>4 DEF Values
  <2>6. PICK a \in bound : num[a] = n
    BY <1>1, <2>5 DEF Dense
  <2> QED
    BY <1>3, <1>5, <2>5, <2>6
<1>6. ASSUME NEW t \in Thread, pc[t] \in CdevThere, map = Settled(bound) \cup {NewCdev(t)}
      PROVE  Under(n) # {}
  <2>1. num[at[t]] = total /\ NewCdev(t) \in Under(total)
    BY <1>1, <1>6 DEF Dense, CdevThere, Numbered, Under, NewCdev
  <2>2. x.num <= total
    <3>1. CASE x \in nodes
      BY <1>1, <3>1 DEF Order
    <3>2. CASE x \in Settled(bound)
      BY <1>1, <3>2 DEF Settled, Dense
    <3>3. CASE x = NewCdev(t)
      BY <1>1, <2>1, <3>3 DEF NewCdev, Values
    <3> QED
      BY <1>6, <3>1, <3>2, <3>3
  <2>3. x.num \in Int
    BY DEF IInv, TypeOK
  <2>4. n = total \/ n \in 0 .. total - 1
    BY <1>1, <2>2, <2>3 DEF Values
  <2>5. CASE n \in 0 .. total - 1
    <3>1. PICK a \in bound : num[a] = n
      BY <1>1, <2>5 DEF Dense
    <3> QED
      BY <1>3, <1>6, <3>1
  <2> QED
    BY <2>1, <2>4, <2>5
<1> QED
  BY <1>1, <1>4, <1>5, <1>6, MapNow

\* One probe or remove at a time keeps the count exact and the name of a node the same
\* as its number, and never gives a number beyond the devices of the tree; until a
\* removal out of order it never leaves one out.
THEOREM CountStaysExact == Spec => []CountKept
<1>1. IInv => CountKept
  <2> SUFFICES ASSUME IInv, ~met PROVE CountKept
    BY DEF CountKept
  <2>1. Map /\ Count /\ Names /\ Nodes /\ Devices /\ Alone /\ Locks
    BY DEF IInv, TypeOK, Devices
  <2>2. Quiet /\ loaded # "absent" => total = Cardinality(bound)
    BY <2>1 DEF Count, Quiet, Busy, ProbePoints, RemovePoints
  <2>3. ASSUME NEW e \in map PROVE e.num \in 0 .. NDEVS - 1
    <3>1. \/ \E d \in bound : e.num = num[d]
          \/ \E t \in Thread : pc[t] \in CdevThere /\ e.num = num[at[t]]
      BY <2>1, <2>3, MapNow DEF Settled, NewCdev
    <3> QED
      BY <2>1, <3>1 DEF Count, CdevThere, Numbered
  <2>4. ASSUME NEW x \in nodes PROVE x.num \in 0 .. NDEVS - 1
    <3>1. WithNode(x.dev) /\ x.num = num[x.dev]
      BY <2>1 DEF Nodes
    <3> QED
      BY <2>1, <3>1 DEF Count, WithNode, Counting, Numbered
  <2>5. \A x \in nodes : x.name = x.num
    BY <2>1 DEF Names
  <2>6. ~gap => \A x \in map \cup nodes : \A n \in 0 .. x.num : Under(n) # {}
    BY NoBreak
  <2> QED
    BY <2>2, <2>3, <2>4, <2>5, <2>6 DEF CountKept
<1> QED
  BY <1>1, Invariant, PTL

\* One probe or remove at a time, the last number first: no device is refused unless a
\* call fails.
THEOREM NoneRefusedInOrder == Spec => []ServedInOrder
<1>1. IInv => ServedInOrder
  BY DEF IInv, Order, ServedInOrder
<1> QED
  BY <1>1, Invariant, PTL
-----------------------------------------------------------------------------
(* Each device has a lifecycle of its own. *)

Failing == {"cdev_del", "release"}

At(t, d) == Busy(t) /\ at[t] = d

\* Who is at work on device d, and how far that work has come, is what it was.
SameWork(d) == \A t \in Thread :
  /\ At(t, d)' <=> At(t, d)
  /\ At(t, d) => /\ pc'[t] \in RemovePoints <=> pc[t] \in RemovePoints
                 /\ pc'[t] \in Failing <=> pc[t] \in Failing

\* The status of a device that somebody is at work on, and of one that is at rest.
Statuses ==
  /\ \A t \in Thread, d \in Dev : At(t, d) =>
       StatusOf(d) = IF pc[t] \in RemovePoints THEN "going"
                     ELSE IF pc[t] \in Failing THEN "failing" ELSE "coming"
  /\ \A d \in Dev : Free(d) => StatusOf(d) = IF d \in bound THEN "live" ELSE "absent"

LEMMA StatusesNow == Locks => Statuses
<1> SUFFICES ASSUME Locks PROVE Statuses
  OBVIOUS
<1>1. \A t, u \in Thread : Busy(t) /\ Busy(u) /\ at[t] = at[u] => t = u
  BY DEF Locks
<1>2. \A t \in Thread : /\ pc[t] \in RemovePoints => Busy(t)
                        /\ pc[t] \in Failing => Busy(t) /\ pc[t] \notin RemovePoints
  BY DEF Busy, Failing, ProbePoints, RemovePoints
<1>3. ASSUME NEW t \in Thread, NEW d \in Dev, At(t, d)
      PROVE  StatusOf(d) = IF pc[t] \in RemovePoints THEN "going"
                           ELSE IF pc[t] \in Failing THEN "failing" ELSE "coming"
  <2>1. ~Free(d)
    BY <1>3 DEF At, Free
  <2>2. (\E u \in Thread : at[u] = d /\ pc[u] \in RemovePoints) <=> pc[t] \in RemovePoints
    BY <1>1, <1>2, <1>3 DEF At
  <2>3. (\E u \in Thread : at[u] = d /\ pc[u] \in Failing) <=> pc[t] \in Failing
    BY <1>1, <1>2, <1>3 DEF At
  <2> QED BY <2>1, <2>2, <2>3 DEF StatusOf, Failing
<1> QED BY <1>3 DEF Statuses, StatusOf

LEMMA StatusesNext == Locks' => Statuses'
BY StatusesNow, PTL

LEMMA StatusRests ==
  ASSUME NEW d \in Dev, SameWork(d), d \in bound' <=> d \in bound
  PROVE  StatusOf(d)' = StatusOf(d)
<1>1. Free(d)' <=> Free(d)
  BY DEF SameWork, At, Free
<1>2. (\E t \in Thread : at[t] = d /\ pc[t] \in RemovePoints)'
        <=> \E t \in Thread : at[t] = d /\ pc[t] \in RemovePoints
  BY DEF SameWork, At, Busy
<1>3. (\E t \in Thread : at[t] = d /\ pc[t] \in Failing)'
        <=> \E t \in Thread : at[t] = d /\ pc[t] \in Failing
  <2>1. \A t \in Thread : /\ pc[t] \in Failing => Busy(t)
                          /\ pc'[t] \in Failing => Busy(t)'
    BY DEF Failing, Busy, ProbePoints
  <2> QED BY <2>1 DEF SameWork, At
<1> QED BY <1>1, <1>2, <1>3 DEF StatusOf, Failing

\* Steps of a device's lifecycle, seen through some of the things it holds.
LEMMA Keeps ==
  ASSUME NEW d \in Dev, NEW things \in SUBSET Things, StatusOf(d)' = StatusOf(d),
         \A what \in things : Holds(d, what)' <=> Holds(d, what)
  PROVE  [Serving(d, things)!Next]_(Serving(d, things)!lifecycle)
BY DEF Serving!lifecycle, HeldFor

LEMMA Takes ==
  ASSUME NEW d \in Dev, NEW things \in SUBSET Things, NEW r \in Things,
         StatusOf(d) = "coming",
         StatusOf(d)' = "coming" \/ (StatusOf(d)' = "failing" /\ r \in things),
         r \in things => Holds(d, r)' /\ ~Holds(d, r),
         \A what \in things \ {r} : Holds(d, what)' <=> Holds(d, what),
         r \in {"cdev", "node"} => Holds(d, "memory"),
         r = "node" /\ "cdev" \in things => Holds(d, "cdev")
  PROVE  [Serving(d, things)!Next]_(Serving(d, things)!lifecycle)
<1>1. CASE r \notin things
  BY <1>1, Keeps
<1>2. CASE r \in things
  <2>1. HeldFor(d, things)' = HeldFor(d, things) \cup {r} /\ r \notin HeldFor(d, things)
    BY <1>2 DEF HeldFor
  <2>2. \A s \in things : <<r, s>> \in {"cdev", "node"} \X {"memory"} \cup {<<"node", "cdev">>}
                           => s \in HeldFor(d, things)
    BY <1>2 DEF HeldFor, Things
  <2> QED BY <1>2, <2>1, <2>2 DEF Serving!Next, Serving!Take
<1> QED BY <1>1, <1>2

LEMMA Fails ==
  ASSUME NEW d \in Dev, NEW things \in SUBSET Things,
         StatusOf(d) = "coming", StatusOf(d)' = "failing",
         \A what \in things : Holds(d, what)' <=> Holds(d, what)
  PROVE  Serving(d, things)!Next
BY DEF Serving!Next, Serving!Fail, HeldFor

LEMMA Gives ==
  ASSUME NEW d \in Dev, NEW things \in SUBSET Things, NEW r \in Things,
         StatusOf(d) \in {"failing", "going"},
         \/ StatusOf(d)' = StatusOf(d)
         \/ StatusOf(d)' = "absent" /\ r \in things /\ \A what \in things : ~Holds(d, what)',
         r \in things => Holds(d, r) /\ ~Holds(d, r)',
         \A what \in things \ {r} : Holds(d, what)' <=> Holds(d, what),
         r \in {"memory", "cdev"} => ~Holds(d, "node"),
         r = "memory" /\ "cdev" \in things => ~Holds(d, "cdev")
  PROVE  [Serving(d, things)!Next]_(Serving(d, things)!lifecycle)
<1>1. CASE r \notin things
  BY <1>1, Keeps
<1>2. CASE r \in things
  <2>1. HeldFor(d, things)' = HeldFor(d, things) \ {r} /\ r \in HeldFor(d, things)
    BY <1>2 DEF HeldFor
  <2>2. \A s \in HeldFor(d, things) :
          <<s, r>> \notin {"cdev", "node"} \X {"memory"} \cup {<<"node", "cdev">>}
    BY <1>2 DEF HeldFor, Things
  <2>3. StatusOf(d)' = StatusOf(d) \/ (StatusOf(d)' = "absent" /\ HeldFor(d, things)' = {})
    BY DEF HeldFor
  <2> QED BY <1>2, <2>1, <2>2, <2>3 DEF Serving!Next, Serving!GiveBack
<1> QED BY <1>1, <1>2

\* What a device at work holds at each point; of its cdev this is known as long as no
\* two have overlapped.
HeldAtWork ==
  /\ \A t \in Thread, d \in Dev : At(t, d) =>
       /\ pc[t] # "alloc" => Holds(d, "memory")
       /\ Holds(d, "node") <=> pc[t] \in {"count", "counted", "destroy"}
  /\ ~met => \A t \in Thread, d \in Dev : Busy(t) =>
       (Holds(d, "cdev") <=> IF at[t] = d THEN pc[t] \in CdevThere \cup {"destroy", "cdev_remove"}
                             ELSE d \in bound)

LEMMA HeldAtWorkNow == IInv => HeldAtWork
<1> SUFFICES ASSUME IInv PROVE HeldAtWork
  OBVIOUS
<1>0. Locks /\ Memory /\ Nodes /\ Alone /\ Map
  BY DEF IInv
<1>1. ASSUME NEW t \in Thread, NEW d \in Dev, At(t, d)
      PROVE  /\ pc[t] # "alloc" => Holds(d, "memory")
             /\ Holds(d, "node") <=> pc[t] \in {"count", "counted", "destroy"}
  <2>1. pc[t] # "alloc" => Holds(d, "memory")
    BY <1>0, <1>1 DEF Memory, At, Holds
  <2>2. Holds(d, "node") <=> WithNode(d)
    BY <1>0 DEF Nodes, Holds
  <2>3. /\ d \in bound <=> pc[t] \in RemovePoints
        /\ \A u \in Thread : at[u] = d /\ Busy(u) => u = t
    BY <1>0, <1>1 DEF Locks, At, Busy
  <2>4. \A u \in Thread : pc[u] \in NodeGone \cup Counting => Busy(u)
    BY DEF NodeGone, Counting, Busy, ProbePoints, RemovePoints
  <2>5. WithNode(d) <=> pc[t] \in Counting \/ (pc[t] \in RemovePoints /\ pc[t] \notin NodeGone)
    BY <1>1, <2>3, <2>4 DEF WithNode, At
  <2> QED BY <2>1, <2>2, <2>5 DEF Counting, NodeGone, RemovePoints
<1>2. ASSUME ~met, NEW t \in Thread, NEW d \in Dev, Busy(t)
      PROVE  Holds(d, "cdev") <=>
               IF at[t] = d THEN pc[t] \in CdevThere \cup {"destroy", "cdev_remove"}
               ELSE d \in bound
  <2>1. \A u \in Thread : Busy(u) => u = t
    BY <1>0, <1>2 DEF Alone
  <2>2. \A u \in Thread : pc[u] \in CdevThere \cup CdevGone => Busy(u)
    BY DEF CdevThere, CdevGone, Busy, ProbePoints, RemovePoints
  <2>3. ASSUME NEW B PROVE (\E e \in Settled(B) : e.dev = d) <=> d \in B
    <3>1. ASSUME d \in B PROVE [num |-> num[d], dev |-> d, depth |-> 0] \in Settled(B)
      BY <3>1 DEF Settled
    <3>2. \A e \in Settled(B) : e.dev \in B
      BY DEF Settled
    <3> QED BY <3>1, <3>2
  <2>4. at[t] = d => (d \in bound <=> pc[t] \in RemovePoints)
    BY <1>0, <1>2 DEF Locks, Busy
  <2>5. CASE pc[t] \in CdevThere
    <3>1. map = Settled(bound) \cup {NewCdev(t)}
      BY <1>0, <1>2, <2>5 DEF Map
    <3>2. NewCdev(t).dev = at[t]
      BY DEF NewCdev
    <3>3. (\E e \in map : e.dev = d) <=> d \in bound \/ at[t] = d
      BY <2>3, <3>1, <3>2
    <3> QED BY <2>5, <3>3 DEF Holds
  <2>6. CASE pc[t] \in CdevGone
    <3>1. map = Settled(bound \ {at[t]})
      BY <1>0, <1>2, <2>6 DEF Map
    <3>2. (\E e \in map : e.dev = d) <=> d \in bound \ {at[t]}
      BY <2>3, <3>1
    <3> QED BY <2>6, <3>2 DEF Holds, CdevThere, CdevGone
  <2>7. CASE pc[t] \notin CdevThere \cup CdevGone
    <3>1. map = Settled(bound)
      BY <1>0, <1>2, <2>1, <2>2, <2>7 DEF Map
    <3>2. Holds(d, "cdev") <=> d \in bound
      BY <2>3, <3>1 DEF Holds
    <3>3. at[t] = d => (d \in bound <=> pc[t] \in {"destroy", "cdev_remove"})
      BY <2>4, <2>7 DEF CdevGone, RemovePoints
    <3> QED BY <2>7, <3>2, <3>3
  <2> QED BY <2>5, <2>6, <2>7
<1> QED BY <1>1, <1>2 DEF HeldAtWork

LEMMA HeldAtWorkNext == IInv' => HeldAtWork'
BY HeldAtWorkNow, PTL

\* A step inside probe or inside remove, and one that ends them.
Stays(t) ==
  /\ \E p \in Points : pc' = [pc EXCEPT ![t] = p] /\
       \/ pc[t] \in ProbePoints /\ p \in ProbePoints
       \/ pc[t] \in RemovePoints /\ p \in RemovePoints
  /\ at' = at /\ bound' = bound

LEMMA CallCases ==
  ASSUME NEW t \in Thread, Call(t)
  PROVE  Busy(t) /\ (Stays(t) \/ StoreCount(t) \/ Release(t))
<1>1. CASE Allocate(t) \/ TakeNumber(t) \/ AddCdev(t) \/ CdevFails(t) \/ ReadTotal(t)
  BY <1>1 DEF Allocate, TakeNumber, AddCdev, CdevFails, ReadTotal, Goto, Stays, Busy, Points,
     ProbePoints, RemovePoints
<1>2. CASE CreateNode(t) \/ NodeFails(t) \/ DelCdev(t) \/ DestroyNode(t) \/ StoreUncount(t)
  BY <1>2 DEF CreateNode, NodeFails, DelCdev, DestroyNode, StoreUncount, Goto, Stays, Busy,
     Points, ProbePoints, RemovePoints
<1>3. CASE StoreCount(t) \/ Release(t)
  BY <1>3 DEF StoreCount, Release, Busy, ProbePoints, RemovePoints
<1> QED BY <1>1, <1>2, <1>3 DEF Call

\* A probe or remove that ends leaves its device at rest.
LEMMA EndRests ==
  ASSUME IInv, NEW t \in Thread, StoreCount(t) \/ Release(t), NEW d \in Dev, at[t] = d
  PROVE  /\ ~Busy(t)' /\ Free(d)'
         /\ \A u \in Thread \ {t} : pc'[u] = pc[u] /\ at'[u] = at[u]
<1>0. Places /\ Locks /\ Busy(t)
  BY DEF IInv, TypeOK, Places, Points, StoreCount, Release, Busy, ProbePoints, RemovePoints
<1>1. ~Busy(t)' /\ \A u \in Thread \ {t} : pc'[u] = pc[u] /\ at'[u] = at[u]
  BY <1>0 DEF StoreCount, Release, Return, Places, Busy, ProbePoints, RemovePoints
<1>2. \A u \in Thread \ {t} : Busy(u) => at[u] # d
  BY <1>0 DEF Locks
<1> QED BY <1>1, <1>2 DEF Free, Busy

\* A step of probe or remove of one device leaves the others as they are.
LEMMA CallElsewhere ==
  ASSUME IInv, IInv', NEW t \in Thread, Call(t), NEW d \in Dev, d # at[t]
  PROVE  /\ StatusOf(d)' = StatusOf(d)
         /\ \A what \in Things : (met' => what # "cdev")
              => (Holds(d, what)' <=> Holds(d, what))
<1>0. Places /\ Locks /\ Nodes /\ TypeOK /\ Busy(t) /\ at[t] \in Dev
      /\ HeldAtWork /\ HeldAtWork'
  BY CallCases, HeldAtWorkNow, HeldAtWorkNext DEF IInv, TypeOK, Places, Points, Locks
<1>1. /\ \A u \in Thread \ {t} : pc'[u] = pc[u] /\ at'[u] = at[u]
      /\ Busy(t)' => at'[t] = at[t] /\ Stays(t)
      /\ d \in bound' <=> d \in bound
  <2>1. CASE Stays(t)
    BY <1>0, <2>1 DEF Stays, Places
  <2>2. CASE StoreCount(t) \/ Release(t)
    BY <1>0, <2>2, EndRests DEF StoreCount, Release
  <2> QED BY <2>1, <2>2, CallCases
<1>2. SameWork(d)
  BY <1>0, <1>1 DEF SameWork, At, Busy
<1>3. Holds(d, "memory")' <=> Holds(d, "memory")
  BY DEF Holds, Call, Allocate, TakeNumber, AddCdev, CdevFails, ReadTotal, CreateNode,
     NodeFails, StoreCount, DelCdev, Release, DestroyNode, StoreUncount
<1>4. Holds(d, "node")' <=> Holds(d, "node")
  <2>1. CASE DestroyNode(t)
    <3>1. nodes' = {x \in nodes : x.num # num[at[t]]} /\ pc[t] = "destroy"
      BY <2>1 DEF DestroyNode, Goto
    <3>2. PICK y \in nodes : y.dev = at[t]
      BY <1>0, <3>1 DEF HeldAtWork, At, Holds
    <3>3. \A x \in nodes : x.dev = d => x.num # num[at[t]]
      BY <1>0, <3>2 DEF Nodes
    <3> QED BY <3>1, <3>3 DEF Holds
  <2>2. CASE CreateNode(t)
    BY <2>2 DEF CreateNode, Holds
  <2>3. CASE ~DestroyNode(t) /\ ~CreateNode(t)
    <3>1. nodes' = nodes
      BY <2>3 DEF kernel, Call, Allocate, TakeNumber, AddCdev, CdevFails, ReadTotal, NodeFails,
         StoreCount, DelCdev, Release, StoreUncount
    <3> QED BY <3>1 DEF Holds
  <2> QED BY <2>1, <2>2, <2>3
<1>5. ~met' => (Holds(d, "cdev")' <=> Holds(d, "cdev"))
  <2>1. CASE DelCdev(t)
    <3>1. Busy(t)' /\ at' = at /\ bound' = bound /\ met' = met
      BY <1>0, <2>1 DEF DelCdev, Goto, history, Places, Busy, ProbePoints, RemovePoints
    <3> QED BY <1>0, <3>1 DEF HeldAtWork
  <2>2. CASE AddCdev(t)
    BY <2>2 DEF AddCdev, Holds
  <2>3. CASE ~DelCdev(t) /\ ~AddCdev(t)
    <3>1. map' = map
      BY <2>3 DEF kernel, Call, Allocate, TakeNumber, CdevFails, ReadTotal, CreateNode,
         NodeFails, StoreCount, Release, DestroyNode, StoreUncount
    <3> QED BY <3>1 DEF Holds
  <2> QED BY <2>1, <2>2, <2>3
<1> QED BY <1>1, <1>2, <1>3, <1>4, <1>5, StatusRests DEF Things

\* A step of probe or remove is one of the lifecycle of its device.
LEMMA CallServes ==
  ASSUME IInv, IInv', NEW t \in Thread, Call(t), NEW d \in Dev, at[t] = d,
         NEW things \in SUBSET Things, met' => "cdev" \notin things
  PROVE  [Serving(d, things)!Next]_(Serving(d, things)!lifecycle)
<1>0. /\ Places /\ Locks /\ Nodes /\ Statuses /\ Statuses' /\ HeldAtWork /\ HeldAtWork'
      /\ At(t, d) /\ Busy(t)
  BY CallCases, StatusesNow, StatusesNext, HeldAtWorkNow, HeldAtWorkNext
     DEF IInv, TypeOK, Places, Points, At
<1>1. met' = met
  BY DEF history, Call, Allocate, TakeNumber, AddCdev, CdevFails, ReadTotal, CreateNode,
     NodeFails, StoreCount, DelCdev, Release, DestroyNode, StoreUncount
<1>2. /\ pc[t] # "alloc" => Holds(d, "memory")
      /\ Holds(d, "node") <=> pc[t] \in {"count", "counted", "destroy"}
      /\ "cdev" \in things =>
           (Holds(d, "cdev") <=> pc[t] \in CdevThere \cup {"destroy", "cdev_remove"})
      /\ StatusOf(d) = IF pc[t] \in RemovePoints THEN "going"
                       ELSE IF pc[t] \in Failing THEN "failing" ELSE "coming"
  BY <1>0, <1>1 DEF HeldAtWork, Statuses
<1>3. ASSUME Stays(t)
      PROVE  /\ pc'[t] # "alloc" => Holds(d, "memory")'
             /\ Holds(d, "node")' <=> pc'[t] \in {"count", "counted", "destroy"}
             /\ "cdev" \in things =>
                  (Holds(d, "cdev")' <=> pc'[t] \in CdevThere \cup {"destroy", "cdev_remove"})
             /\ StatusOf(d)' = IF pc[t] \in RemovePoints THEN "going"
                               ELSE IF pc'[t] \in Failing THEN "failing" ELSE "coming"
  <2>1. At(t, d)' /\ (pc'[t] \in RemovePoints <=> pc[t] \in RemovePoints)
    BY <1>0, <1>3 DEF Stays, At, Busy, Places, ProbePoints, RemovePoints
  <2> QED BY <1>0, <2>1 DEF HeldAtWork, Statuses, At
<1>4. ASSUME StoreCount(t) \/ Release(t)
      PROVE  StatusOf(d)' = IF d \in bound' THEN "live" ELSE "absent"
  BY <1>0, <1>4, EndRests DEF Statuses
<1>5. \A what \in things : what \in {"memory", "cdev", "node"}
  BY DEF Things
<1>6. ASSUME NEW what, managed' = managed, map' = map, nodes' = nodes
      PROVE  Holds(d, what)' <=> Holds(d, what)
  BY <1>6 DEF Holds
<1>7. CASE Allocate(t)
  <2>1. /\ Stays(t) /\ pc[t] = "alloc" /\ pc'[t] \in {"number", "release"}
        /\ managed' = managed \cup {d} /\ UNCHANGED kernel
    BY <1>0, <1>7 DEF Allocate, Stays, Places, Points, ProbePoints
  <2>2. StatusOf(d) = "coming" /\ StatusOf(d)' \in {"coming", "failing"} /\ Holds(d, "memory")'
    BY <1>2, <1>3, <2>1 DEF RemovePoints, Failing
  <2>3. \A what \in things \ {"memory"} : Holds(d, what)' <=> Holds(d, what)
    BY <1>5, <2>1 DEF Holds, kernel
  <2>4. CASE Holds(d, "memory") \/ "memory" \notin things
    BY <2>2, <2>3, <2>4, Keeps, Fails
  <2>5. CASE ~Holds(d, "memory") /\ "memory" \in things
    BY <2>2, <2>3, <2>5, Takes DEF Things
  <2> QED BY <2>4, <2>5
<1>8. CASE TakeNumber(t) \/ ReadTotal(t) \/ StoreUncount(t)
  <2>1. /\ Stays(t) /\ managed' = managed /\ UNCHANGED kernel
        /\ pc[t] \notin Failing /\ pc'[t] \notin Failing
    BY <1>0, <1>8 DEF TakeNumber, ReadTotal, StoreUncount, Goto, Stays, Places, Points,
       ProbePoints, RemovePoints, Failing
  <2> QED BY <1>2, <1>3, <1>6, <2>1, Keeps DEF kernel
<1>9. CASE AddCdev(t)
  <2>1. /\ Stays(t) /\ pc[t] = "cdev" /\ pc'[t] = "name" /\ managed' = managed /\ nodes' = nodes
    BY <1>0, <1>9 DEF AddCdev, Goto, Stays, Places, Points, ProbePoints
  <2>2. /\ StatusOf(d) = "coming" /\ StatusOf(d)' = "coming" /\ Holds(d, "memory")
        /\ "cdev" \in things => Holds(d, "cdev")' /\ ~Holds(d, "cdev")
    BY <1>2, <1>3, <2>1 DEF RemovePoints, Failing, CdevThere
  <2>3. \A what \in things \ {"cdev"} : Holds(d, what)' <=> Holds(d, what)
    BY <1>5, <2>1 DEF Holds
  <2> QED BY <2>2, <2>3, Takes DEF Things
<1>10. CASE CdevFails(t) \/ NodeFails(t)
  <2>1. /\ Stays(t) /\ managed' = managed /\ UNCHANGED kernel
        /\ pc[t] \in {"cdev", "node"} /\ pc'[t] \in Failing
    BY <1>0, <1>10 DEF CdevFails, NodeFails, Goto, Stays, Places, Points, ProbePoints, Failing
  <2>2. StatusOf(d) = "coming" /\ StatusOf(d)' = "failing"
    BY <1>2, <1>3, <2>1 DEF RemovePoints, Failing
  <2> QED BY <1>6, <2>1, <2>2, Fails DEF kernel
<1>11. CASE CreateNode(t)
  <2>1. /\ Stays(t) /\ pc[t] = "node" /\ pc'[t] = "count" /\ managed' = managed /\ map' = map
    BY <1>0, <1>11 DEF CreateNode, Goto, Stays, Places, Points, ProbePoints
  <2>2. /\ StatusOf(d) = "coming" /\ StatusOf(d)' = "coming" /\ Holds(d, "memory")
        /\ Holds(d, "node")' /\ ~Holds(d, "node")
        /\ "cdev" \in things => Holds(d, "cdev")
    BY <1>2, <1>3, <2>1 DEF RemovePoints, Failing, CdevThere
  <2>3. \A what \in things \ {"node"} : Holds(d, what)' <=> Holds(d, what)
    BY <1>5, <2>1 DEF Holds
  <2> QED BY <2>2, <2>3, Takes DEF Things
<1>12. CASE StoreCount(t)
  <2>1. /\ pc[t] = "counted" /\ d \in bound' /\ managed' = managed /\ map' = map /\ nodes' = nodes
    BY <1>12 DEF StoreCount, kernel
  <2>2. StatusOf(d) = "coming" /\ StatusOf(d)' = "live"
    BY <1>2, <1>4, <1>12, <2>1 DEF RemovePoints, Failing
  <2>3. \A what \in things : Holds(d, what)
    BY <1>2, <1>5, <2>1 DEF CdevThere
  <2>4. HeldFor(d, things) = things /\ HeldFor(d, things)' = things
    BY <1>6, <2>1, <2>3 DEF HeldFor
  <2> QED BY <2>2, <2>4 DEF Serving!Next, Serving!Complete
<1>13. CASE DelCdev(t)
  <2>1. /\ Stays(t) /\ managed' = managed /\ nodes' = nodes
        /\ \/ pc[t] = "cdev_del" /\ pc'[t] = "release"
           \/ pc[t] = "cdev_remove" /\ pc'[t] = "uncount"
    BY <1>0, <1>13 DEF DelCdev, Goto, Stays, Places, Points, ProbePoints, RemovePoints
  <2>2. /\ StatusOf(d) \in {"failing", "going"} /\ StatusOf(d)' = StatusOf(d)
        /\ ~Holds(d, "node")
        /\ "cdev" \in things => Holds(d, "cdev") /\ ~Holds(d, "cdev")'
    BY <1>2, <1>3, <2>1 DEF RemovePoints, Failing, CdevThere
  <2>3. \A what \in things \ {"cdev"} : Holds(d, what)' <=> Holds(d, what)
    BY <1>5, <2>1 DEF Holds
  <2> QED BY <2>2, <2>3, Gives DEF Things
<1>14. CASE DestroyNode(t)
  <2>1. /\ Stays(t) /\ managed' = managed /\ map' = map
        /\ pc[t] = "destroy" /\ pc'[t] = "cdev_remove"
    BY <1>0, <1>14 DEF DestroyNode, Goto, Stays, Places, Points, RemovePoints
  <2>2. /\ StatusOf(d) = "going" /\ StatusOf(d)' = "going"
        /\ Holds(d, "node") /\ ~Holds(d, "node")'
    BY <1>2, <1>3, <2>1 DEF RemovePoints
  <2>3. \A what \in things \ {"node"} : Holds(d, what)' <=> Holds(d, what)
    BY <1>5, <2>1 DEF Holds
  <2> QED BY <2>2, <2>3, Gives DEF Things
<1>15. CASE Release(t)
  <2>1. /\ pc[t] \in {"release", "devres"} /\ d \notin bound' /\ d \notin managed'
        /\ map' = map /\ nodes' = nodes
    BY <1>15 DEF Release, kernel
  <2>2. /\ StatusOf(d) \in {"failing", "going"} /\ StatusOf(d)' = "absent"
        /\ Holds(d, "memory") /\ ~Holds(d, "node")
        /\ "cdev" \in things => ~Holds(d, "cdev")
    BY <1>2, <1>4, <1>15, <2>1 DEF RemovePoints, Failing, CdevThere
  <2>3. ~Holds(d, "memory")'
    BY <2>1 DEF Holds
  <2>4. \A what \in things \ {"memory"} : Holds(d, what)' <=> Holds(d, what)
    BY <1>5, <2>1 DEF Holds
  <2>5. \A what \in things : ~Holds(d, what)'
    BY <1>5, <2>2, <2>3, <2>4
  <2>6. CASE "memory" \in things
    BY <2>2, <2>3, <2>4, <2>5, <2>6, Gives DEF Things
  <2>7. CASE "memory" \notin things
    <3>1. HeldFor(d, things) = {} /\ HeldFor(d, things)' = {}
      BY <2>4, <2>5, <2>7 DEF HeldFor
    <3> QED BY <2>2, <3>1 DEF Serving!Next, Serving!Gone
  <2> QED BY <2>6, <2>7
<1> QED BY <1>7, <1>8, <1>9, <1>10, <1>11, <1>12, <1>13, <1>14, <1>15 DEF Call

\* A thread that has taken a device's lock begins a probe or a remove of it.
LEMMA BeginServes ==
  ASSUME IInv, IInv', NEW t \in Thread, Attach(t) \/ Detach(t) \/ Bind(t) \/ Unbind(t),
         NEW d \in Dev, NEW things \in SUBSET Things
  PROVE  [Serving(d, things)!Next]_(Serving(d, things)!lifecycle)
<1>0. Places /\ Locks' /\ Statuses /\ Statuses'
  BY StatusesNow, StatusesNext DEF IInv, TypeOK, Places, Points
<1>1. /\ ~Busy(t) /\ Busy(t)' /\ pc'[t] \in {"alloc", "destroy"}
      /\ \A u \in Thread \ {t} : pc'[u] = pc[u] /\ at'[u] = at[u]
      /\ bound' = bound /\ managed' = managed /\ map' = map /\ nodes' = nodes
  BY <1>0 DEF Attach, Detach, Bind, Unbind, Enter, Goto, kernel, Places, Busy, ProbePoints,
     RemovePoints
<1>2. \A what \in things : Holds(d, what)' <=> Holds(d, what)
  BY <1>1 DEF Holds
<1>3. CASE at'[t] # d
  <2>1. SameWork(d)
    BY <1>1, <1>3 DEF SameWork, At, Busy
  <2> QED BY <1>1, <1>2, <2>1, StatusRests, Keeps
<1>4. CASE at'[t] = d
  <2>1. Free(d)
    BY <1>0, <1>1, <1>4 DEF Free, Locks, Busy
  <2>2. StatusOf(d) = IF d \in bound THEN "live" ELSE "absent"
    BY <1>0, <2>1 DEF Statuses
  <2>3. /\ At(t, d)' /\ pc'[t] \notin Failing
        /\ pc'[t] \in RemovePoints <=> d \in bound
    BY <1>0, <1>1, <1>4 DEF At, Locks, Failing, ProbePoints, RemovePoints
  <2>4. StatusOf(d)' = IF d \in bound THEN "going" ELSE "coming"
    BY <1>0, <2>3 DEF Statuses
  <2>5. HeldFor(d, things)' = HeldFor(d, things)
    BY <1>2 DEF HeldFor
  <2> QED BY <2>2, <2>4, <2>5 DEF Serving!Next, Serving!Load, Serving!Unload
<1> QED BY <1>3, <1>4

\* Everything else leaves all devices as they are.
LEMMA RestServes ==
  ASSUME IInv, [Next]_vars,
         \A t \in Thread : ~Call(t) /\ ~Attach(t) /\ ~Detach(t) /\ ~Bind(t) /\ ~Unbind(t),
         NEW d \in Dev, NEW things \in SUBSET Things
  PROVE  [Serving(d, things)!Next]_(Serving(d, things)!lifecycle)
<1>0. Places
  BY DEF IInv, TypeOK, Places, Points
<1>1. /\ bound' = bound /\ managed' = managed /\ map' = map /\ nodes' = nodes
      /\ \A t \in Thread : \/ pc'[t] = pc[t] /\ at'[t] = at[t]
                           \/ ~Busy(t) /\ ~Busy(t)'
  <2> USE <1>0 DEF Places, Goto, Over, kernel, module, Busy, ProbePoints, RemovePoints
  <2>1. CASE \E t \in Thread : Insmod(t) \/ AllocRegion(t) \/ CreateClass(t) \/ ClassFails(t)
    BY <2>1 DEF Insmod, AllocRegion, CreateClass, ClassFails
  <2>2. CASE \E t \in Thread : RegisterDriver(t) \/ RegionFails(t) \/ RegisterFails(t)
                                 \/ AttachEnds(t)
    BY <2>2 DEF RegisterDriver, RegionFails, RegisterFails, AttachEnds
  <2>3. CASE \E t \in Thread : Rmmod(t) \/ Drain(t) \/ DetachEnds(t) \/ DestroyClass(t)
                                 \/ UnregisterRegion(t)
    BY <2>3 DEF Rmmod, Drain, DetachEnds, DestroyClass, UnregisterRegion
  <2>4. CASE UNCHANGED vars
    BY <2>4 DEF vars
  <2> QED BY <2>1, <2>2, <2>3, <2>4 DEF Next, Step
<1>2. SameWork(d)
  BY <1>1 DEF SameWork, At, Busy
<1>3. \A what \in things : Holds(d, what)' <=> Holds(d, what)
  BY <1>1 DEF Holds
<1> QED BY <1>1, <1>2, <1>3, StatusRests, Keeps

LEMMA Serves ==
  ASSUME IInv, IInv', [Next]_vars, NEW d \in Dev, NEW things \in SUBSET Things,
         met' => "cdev" \notin things
  PROVE  [Serving(d, things)!Next]_(Serving(d, things)!lifecycle)
<1>1. ASSUME NEW t \in Thread, Call(t)
      PROVE  [Serving(d, things)!Next]_(Serving(d, things)!lifecycle)
  <2>1. CASE at[t] = d
    BY <1>1, <2>1, CallServes
  <2>2. CASE at[t] # d
    <3>1. /\ StatusOf(d)' = StatusOf(d)
          /\ \A what \in things : Holds(d, what)' <=> Holds(d, what)
      BY <1>1, <2>2, CallElsewhere
    <3> QED BY <3>1, Keeps
  <2> QED BY <2>1, <2>2
<1> QED BY <1>1, BeginServes, RestServes

\* The driver gives each of its devices the lifecycle that Lifecycle promises, whoever
\* binds and unbinds the others meanwhile and whichever call fails.
THEOREM EachDeviceServed == Spec => DeviceLifecycles
<1>1. Init => \A d \in Dev : Serving(d, Things)!Init
  BY DEF Init, Serving!Init, StatusOf, HeldFor, Holds, Things, Free, Busy, ProbePoints,
     RemovePoints
<1>2. IInv /\ IInv' /\ [Next]_vars
        => [\A d \in Dev, things \in {Things, Things \ {"cdev"}} :
             (met' => "cdev" \notin things)
               => [Serving(d, things)!Next]_(Serving(d, things)!lifecycle)]_vars
  BY Serves
<1> QED BY <1>1, <1>2, Invariant, PTL DEF Spec, DeviceLifecycles
=============================================================================
