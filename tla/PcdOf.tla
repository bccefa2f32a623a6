--------------------------------- MODULE PcdOf ---------------------------------
(***************************************************************************)
(* The platform driver of 09_platform_of.  Its devices are nodes of the    *)
(* device tree: they are there before the driver and stay after it, and    *)
(* users unbind and bind them one by one through sysfs while the driver is *)
(* loaded.  The device numbers come from total_devices, which a probe      *)
(* increments and a remove decrements.                                     *)
(*                                                                         *)
(* The kernel is modelled from how the driver uses it.  A device's lock    *)
(* covers its probe and its remove, so those of different devices overlap. *)
(* The map of cdevs keeps the cdevs of one number as a stack: the newest   *)
(* is the one that an open finds and that cdev_del takes out, whoever      *)
(* calls it.  device_create refuses a number or a name that is in use.     *)
(* Its result goes through pcdrv_data.device_pcd, which all probes share;  *)
(* a probe tests the value it has just stored, which no call separates     *)
(* from the test.  The value is loaded again, after pr_err, only to make   *)
(* the code that a failing probe returns: another probe's result found     *)
(* there changes that code, and the core undoes the probe all the same.    *)
(***************************************************************************)
EXTENDS Integers, FiniteSets

CONSTANTS
  Thread,       \* threads that load and unload the driver, bind and unbind devices
  NoThread,     \* no thread
  NDEVS,        \* devices in the tree that match the driver
  Drift,        \* bound: users bind and unbind only while total_devices is within it
  Failures      \* which of "region", "class", "register", "memory", "cdev", "node" occur

ASSUME PcdOfAssumption ==
  /\ NoThread \notin Thread
  /\ NDEVS \in Nat \ {0}
  /\ Drift \in Nat
  /\ Failures \subseteq {"region", "class", "register", "memory", "cdev", "node"}

Dev == 0 .. NDEVS - 1

VARIABLES
  loaded,   \* the module: "absent", "coming", "live" or "going"
  walker,   \* the thread in its init or exit, or NoThread
  pc,       \* the point each thread has reached
  at,       \* the device it is at
  region,   \* whether the region of device numbers is registered
  class,    \* whether pcd_class exists
  driver,   \* whether the driver is registered
  bound,    \* devices bound to the driver
  managed,  \* devices that hold memory of devm_kzalloc: their data and cdev
  num,      \* dev_data->device_num of each device, less device_num_base
  map,      \* the kernel's map of cdevs: [num, dev, depth]
  nodes,    \* the nodes under /dev: [num, name, dev]
  total,    \* pcdrv_data.total_devices
  reg,      \* what a thread has read of it
  met,      \* history: two probes or removes have overlapped
  gap,      \* history: a device was removed that was not the last one numbered
  refused   \* history: devices refused although no call failed

module  == <<loaded, walker, region, class, driver>>
kernel  == <<map, nodes>>
counter == <<total, reg>>
history == <<met, gap, refused>>
vars    == <<module, pc, at, bound, managed, num, kernel, counter, history>>

ProbePoints  == {"alloc", "number", "cdev", "name", "node", "count", "counted",
                 "cdev_del", "release"}
RemovePoints == {"destroy", "cdev_remove", "uncount", "uncounted", "devres"}

Busy(t) == pc[t] \in ProbePoints \cup RemovePoints

\* Nobody holds the lock of device d.
Free(d) == \A t \in Thread : Busy(t) => at[t] # d

Init ==
  /\ loaded = "absent"
  /\ walker = NoThread
  /\ pc = [t \in Thread |-> "idle"]
  /\ at = [t \in Thread |-> 0]
  /\ region = FALSE
  /\ class = FALSE
  /\ driver = FALSE
  /\ bound = {}
  /\ managed = {}
  /\ num = [d \in Dev |-> 0]
  /\ map = {}
  /\ nodes = {}
  /\ total = 0
  /\ reg = [t \in Thread |-> 0]
  /\ met = FALSE
  /\ gap = FALSE
  /\ refused = {}

Goto(t, from, to) ==
  /\ pc[t] = from
  /\ pc' = [pc EXCEPT ![t] = to]

-----------------------------------------------------------------------------
(* insmod: pcd_platform_driver_init. *)

Insmod(t) ==
  /\ Goto(t, "idle", "region")
  /\ loaded = "absent"
  /\ loaded' = "coming"
  /\ walker' = t
  /\ total' = 0
  /\ gap' = FALSE
  /\ refused' = {}
  /\ UNCHANGED <<at, region, class, driver, bound, managed, num, kernel, reg, met>>

AllocRegion(t) ==
  /\ Goto(t, "region", "class")
  /\ region' = TRUE
  /\ UNCHANGED <<loaded, walker, at, class, driver, bound, managed, num, kernel, counter, history>>

CreateClass(t) ==
  /\ Goto(t, "class", "register")
  /\ class' = TRUE
  /\ UNCHANGED <<loaded, walker, at, region, driver, bound, managed, num, kernel, counter, history>>

ClassFails(t) ==
  /\ "class" \in Failures
  /\ Goto(t, "class", "unregister")
  /\ UNCHANGED <<module, at, bound, managed, num, kernel, counter, history>>

\* The core probes the devices in the order of the tree; the files through which
\* users bind and unbind are there only after that.
RegisterDriver(t) ==
  /\ Goto(t, "register", "attach")
  /\ driver' = TRUE
  /\ at' = [at EXCEPT ![t] = 0]
  /\ UNCHANGED <<loaded, walker, region, class, bound, managed, num, kernel, counter, history>>

\* init or exit is over: the module is live, or it is freed.  (A local variable that
\* is no longer used is 0.)
Over(t, from, status) ==
  /\ Goto(t, from, "idle")
  /\ loaded' = status
  /\ walker' = NoThread
  /\ at' = [at EXCEPT ![t] = 0]
  /\ UNCHANGED <<class, driver, bound, managed, num, kernel, counter, history>>

RegionFails(t) ==
  "region" \in Failures /\ Over(t, "region", "absent") /\ UNCHANGED region

\* The result of platform_driver_register is not looked at.
RegisterFails(t) ==
  "register" \in Failures /\ Over(t, "register", "live") /\ UNCHANGED region

\* Mutant of Attach: one device more than the tree has.
Attach_OneMore(t) ==
  /\ Goto(t, "attach", "alloc")
  /\ at[t] \in 0 .. NDEVS
  /\ UNCHANGED <<module, at, bound, managed, num, kernel, counter, history>>

Attach(t) ==
  /\ Goto(t, "attach", "alloc")
  /\ at[t] \in Dev
  /\ UNCHANGED <<module, at, bound, managed, num, kernel, counter, history>>

AttachEnds(t) == at[t] = NDEVS /\ Over(t, "attach", "live") /\ UNCHANGED region

-----------------------------------------------------------------------------
(* rmmod: pcd_platform_driver_exit. *)

\* Mutant of Rmmod: the driver stays registered.
Rmmod_KeepsDriver(t) ==
  /\ Goto(t, "idle", "class_destroy")
  /\ loaded = "live"
  /\ loaded' = "going"
  /\ walker' = t
  /\ UNCHANGED <<at, region, class, driver, bound, managed, num, kernel, counter, history>>

Rmmod(t) ==
  /\ Goto(t, "idle", IF driver THEN "drain" ELSE "class_destroy")
  /\ loaded = "live"
  /\ loaded' = "going"
  /\ walker' = t
  /\ UNCHANGED <<at, region, class, driver, bound, managed, num, kernel, counter, history>>

\* The core takes the files for bind and unbind away when nobody is in them.
Drain(t) ==
  /\ Goto(t, "drain", "detach")
  /\ \A u \in Thread \ {t} : ~Busy(u)
  /\ UNCHANGED <<module, at, bound, managed, num, kernel, counter, history>>

Detach(t) == \E d \in bound :
  /\ Goto(t, "detach", "destroy")
  /\ at' = [at EXCEPT ![t] = d]
  /\ gap' = (gap \/ num[d] # total - 1)
  /\ UNCHANGED <<module, bound, managed, num, kernel, counter, met, refused>>

DetachEnds(t) ==
  /\ Goto(t, "detach", "class_destroy")
  /\ bound = {}
  /\ driver' = FALSE
  /\ UNCHANGED <<loaded, walker, at, region, class, bound, managed, num, kernel, counter, history>>

DestroyClass(t) ==
  /\ Goto(t, "class_destroy", "unregister")
  /\ class' = FALSE
  /\ UNCHANGED <<loaded, walker, at, region, driver, bound, managed, num, kernel, counter, history>>

\* The end of exit, and of an init that failed.
UnregisterRegion(t) == region' = FALSE /\ Over(t, "unregister", "absent")

-----------------------------------------------------------------------------
(* Users write the name of a device to the driver's bind or unbind file. *)

Enter(t, d, to) ==
  /\ Goto(t, "idle", to)
  /\ loaded = "live" /\ driver
  /\ total \in -Drift .. NDEVS + Drift
  /\ Free(d)
  /\ at' = [at EXCEPT ![t] = d]
  /\ met' = (met \/ \E u \in Thread : Busy(u))
  /\ UNCHANGED <<module, bound, managed, num, kernel, counter, refused>>

Bind(t) == \E d \in Dev \ bound : Enter(t, d, "alloc") /\ UNCHANGED gap

Unbind(t) == \E d \in bound :
  Enter(t, d, "destroy") /\ gap' = (gap \/ num[d] # total - 1)

\* A probe or a remove is over, and its caller goes on.
Return(t) ==
  /\ pc' = [pc EXCEPT ![t] = IF t # walker THEN "idle"
                             ELSE IF loaded = "coming" THEN "attach" ELSE "detach"]
  /\ at' = [at EXCEPT ![t] = IF t = walker /\ loaded = "coming" THEN @ + 1 ELSE 0]

-----------------------------------------------------------------------------
(* pcd_platform_driver_probe, with the device's lock. *)

\* The platform data, the device's data and the buffer are allocated, or one of
\* them is not, or the tree has not all of the properties.
Allocate(t) ==
  /\ pc[t] = "alloc"
  /\ \/ pc' = [pc EXCEPT ![t] = "number"]
     \/ "memory" \in Failures /\ pc' = [pc EXCEPT ![t] = "release"]
  /\ managed' = managed \cup {at[t]}
  /\ UNCHANGED <<module, at, bound, num, kernel, counter, history>>

TakeNumber(t) ==
  /\ Goto(t, "number", "cdev")
  /\ num' = [num EXCEPT ![at[t]] = total]
  /\ UNCHANGED <<module, at, bound, managed, kernel, counter, history>>

\* The cdevs under a number, and the newest of them.
Under(n) == {e \in map : e.num = n}
Newest(n) == {e \in Under(n) : \A f \in Under(n) : f.depth <= e.depth}

AddCdev(t) ==
  /\ Goto(t, "cdev", "name")
  /\ LET n == num[at[t]]
     IN  map' = map \cup {[num |-> n, dev |-> at[t], depth |-> Cardinality(Under(n))]}
  /\ UNCHANGED <<module, at, bound, managed, num, nodes, counter, history>>

CdevFails(t) ==
  /\ "cdev" \in Failures
  /\ Goto(t, "cdev", "release")
  /\ UNCHANGED <<module, at, bound, managed, num, kernel, counter, history>>

\* total_devices is read again for the name of the node ...
ReadTotal(t) ==
  /\ Goto(t, "name", "node") \/ Goto(t, "count", "counted") \/ Goto(t, "uncount", "uncounted")
  /\ reg' = [reg EXCEPT ![t] = total]
  /\ UNCHANGED <<module, at, bound, managed, num, kernel, total, history>>

InUse(t) == \E x \in nodes : x.num = num[at[t]] \/ x.name = reg[t]

CreateNode(t) ==
  /\ Goto(t, "node", "count")
  /\ ~InUse(t)
  /\ nodes' = nodes \cup {[num |-> num[at[t]], name |-> reg[t], dev |-> at[t]]}
  /\ reg' = [reg EXCEPT ![t] = 0]
  /\ UNCHANGED <<module, at, bound, managed, num, map, total, history>>

\* Mutants of NodeFails: the cdev stays; the node is tried again.
NodeFails_KeepsCdev(t) ==
  /\ Goto(t, "node", "release")
  /\ \/ InUse(t) /\ refused' = refused \cup {at[t]}
     \/ "node" \in Failures /\ UNCHANGED refused
  /\ reg' = [reg EXCEPT ![t] = 0]
  /\ UNCHANGED <<module, at, bound, managed, num, kernel, total, met, gap>>

NodeFails_TriesAgain(t) ==
  /\ Goto(t, "node", "name")
  /\ InUse(t) \/ "node" \in Failures
  /\ reg' = [reg EXCEPT ![t] = 0]
  /\ UNCHANGED <<module, at, bound, managed, num, kernel, total, history>>

NodeFails(t) ==
  /\ Goto(t, "node", "cdev_del")
  /\ \/ InUse(t) /\ refused' = refused \cup {at[t]}
     \/ "node" \in Failures /\ UNCHANGED refused
  /\ reg' = [reg EXCEPT ![t] = 0]
  /\ UNCHANGED <<module, at, bound, managed, num, kernel, total, met, gap>>

\* ... and once more to be incremented, as it is to be decremented in remove.
StoreCount(t) ==
  /\ pc[t] = "counted"
  /\ total' = reg[t] + 1
  /\ reg' = [reg EXCEPT ![t] = 0]
  /\ bound' = bound \cup {at[t]}
  /\ Return(t)
  /\ UNCHANGED <<module, managed, num, kernel, history>>

\* Mutant of DelCdev: remove does not count down.
DelCdev_NoUncount(t) ==
  /\ Goto(t, "cdev_del", "release") \/ Goto(t, "cdev_remove", "devres")
  /\ map' = map \ Newest(num[at[t]])
  /\ UNCHANGED <<module, at, bound, managed, num, nodes, counter, history>>

\* cdev_del, in a probe that failed and in remove.
DelCdev(t) ==
  /\ Goto(t, "cdev_del", "release") \/ Goto(t, "cdev_remove", "uncount")
  /\ map' = map \ Newest(num[at[t]])
  /\ UNCHANGED <<module, at, bound, managed, num, nodes, counter, history>>

\* The core frees what devm_kzalloc returned, after a probe that failed and after
\* remove; the device has no driver then.
Release(t) ==
  /\ pc[t] \in {"release", "devres"}
  /\ managed' = managed \ {at[t]}
  /\ bound' = bound \ {at[t]}
  /\ num' = [num EXCEPT ![at[t]] = 0]
  /\ Return(t)
  /\ UNCHANGED <<module, kernel, counter, history>>

-----------------------------------------------------------------------------
(* pcd_platform_driver_remove, with the device's lock. *)

\* Mutants of DestroyNode: it takes the last number, or nothing.
DestroyNode_Last(t) ==
  /\ Goto(t, "destroy", "cdev_remove")
  /\ nodes' = {x \in nodes : x.num # total - 1}
  /\ UNCHANGED <<module, at, bound, managed, num, map, counter, history>>

DestroyNode_Nothing(t) ==
  /\ Goto(t, "destroy", "cdev_remove")
  /\ UNCHANGED <<module, at, bound, managed, num, kernel, counter, history>>

DestroyNode(t) ==
  /\ Goto(t, "destroy", "cdev_remove")
  /\ nodes' = {x \in nodes : x.num # num[at[t]]}
  /\ UNCHANGED <<module, at, bound, managed, num, map, counter, history>>

StoreUncount(t) ==
  /\ Goto(t, "uncounted", "devres")
  /\ total' = reg[t] - 1
  /\ reg' = [reg EXCEPT ![t] = 0]
  /\ UNCHANGED <<module, at, bound, managed, num, kernel, history>>

Call(t) ==
  \/ Allocate(t)   \/ TakeNumber(t) \/ AddCdev(t)    \/ CdevFails(t)
  \/ ReadTotal(t)  \/ CreateNode(t) \/ NodeFails(t)  \/ StoreCount(t)
  \/ DelCdev(t)    \/ Release(t)    \/ DestroyNode(t) \/ StoreUncount(t)

Step(t) ==
  \/ AllocRegion(t) \/ RegionFails(t)   \/ CreateClass(t) \/ ClassFails(t)
  \/ Attach(t)      \/ RegisterDriver(t) \/ RegisterFails(t) \/ AttachEnds(t)
  \/ Drain(t)       \/ Detach(t)        \/ DetachEnds(t)  \/ DestroyClass(t)
  \/ UnregisterRegion(t) \/ Call(t)

Next == \E t \in Thread :
  Insmod(t) \/ Rmmod(t) \/ Bind(t) \/ Unbind(t) \/ Step(t)

Spec == Init /\ [][Next]_vars

\* A thread inside the driver, or waiting in rmmod, runs on.
FairSpec == Spec /\ \A t \in Thread : WF_vars(Step(t))

-----------------------------------------------------------------------------
(* Properties. *)

Quiet == \A t \in Thread : ~Busy(t)

\* The type invariant of the driver and of the kernel's lists.
TypeOK ==
  /\ loaded \in {"absent", "coming", "live", "going"}
  /\ walker \in Thread \cup {NoThread}
  /\ pc \in [Thread -> ProbePoints \cup RemovePoints \cup
       {"idle", "region", "class", "register", "attach", "drain", "detach",
        "class_destroy", "unregister"}]
  /\ at \in [Thread -> 0 .. NDEVS]
  /\ region \in BOOLEAN
  /\ class \in BOOLEAN
  /\ driver \in BOOLEAN
  /\ bound \subseteq Dev
  /\ managed \subseteq Dev
  /\ num \in [Dev -> Int]
  /\ map \subseteq [num : Int, dev : Dev, depth : Nat]
  /\ nodes \subseteq [num : Int, name : Int, dev : Dev]
  /\ total \in Int
  /\ reg \in [Thread -> Int]
  /\ met \in BOOLEAN
  /\ gap \in BOOLEAN
  /\ refused \subseteq Dev

\* Whoever binds and unbinds what meanwhile, a device that is bound keeps the node
\* that was made for it, and no other device has a node of that number or name.
NodesOwned ==
  /\ \A d \in bound : Free(d) => \E x \in nodes : x.dev = d /\ x.num = num[d]
  /\ \A x, y \in nodes : x.num = y.num \/ x.name = y.name => x = y

\* Without the module its region, class, driver, nodes and memory are gone, whichever
\* calls failed and whatever overlapped; while nobody probes or removes, the devices
\* that hold memory are those that are bound, those that the driver refused among the
\* others.  (What is left in the map of cdevs, CdevsOwned says.)
NothingLeft ==
  /\ loaded = "absent" => ~region /\ ~class /\ ~driver /\ bound = {} /\ managed = {} /\ nodes = {}
  /\ Quiet => managed = bound

\* A probe has added the cdev of device d under a number in use, and will be refused.
Intruding(d) == \E t \in Thread : at[t] = d /\ pc[t] \in {"name", "node", "cdev_del"}

\* As long as no two probes or removes have overlapped: no cdev outlives the memory it
\* lies in, the bound devices have one each and nothing else is left in the map, and an
\* open of a node finds the cdev of the node's own device.  After a removal out of order
\* there is one exception: while a probe that was given the node's number is on its way
\* to being refused, the open finds the cdev of that probe's device.
CdevsOwned == ~met =>
  /\ Quiet => map = {[num |-> num[d], dev |-> d, depth |-> 0] : d \in bound}
  /\ \A e \in map : e.dev \in managed
  /\ \A x \in nodes : Newest(x.num) # {}
  /\ \A x \in nodes : \A e \in Newest(x.num) : e.dev = x.dev \/ (gap /\ Intruding(e.dev))

\* As long as no two have overlapped: the count is the number of bound devices, number
\* and name of a node are made from the same count, and no number is beyond the devices
\* of the tree.  Until a removal out of order the numbers in use run from 0 without a
\* break, so one lies outside the driver's region only when more devices are served
\* than the region has numbers.
CountKept == ~met =>
  /\ Quiet /\ loaded # "absent" => total = Cardinality(bound)
  /\ \A x \in map \cup nodes : x.num \in 0 .. NDEVS - 1
  /\ \A x \in nodes : x.name = x.num
  /\ ~gap => \A x \in map \cup nodes : \A n \in 0 .. x.num : Under(n) # {}

\* As long as no two have overlapped and devices were removed in the reverse order
\* of their numbers, a device is refused only if a call fails.
ServedInOrder == ~met /\ ~gap => refused = {}

\* How far the driver has come with device d, and what it holds for it.
StatusOf(d) ==
  IF Free(d) THEN IF d \in bound THEN "live" ELSE "absent"
  ELSE IF \E t \in Thread : at[t] = d /\ pc[t] \in RemovePoints THEN "going"
  ELSE IF \E t \in Thread : at[t] = d /\ pc[t] \in {"cdev_del", "release"}
  THEN "failing" ELSE "coming"
Things == {"memory", "cdev", "node"}
Holds(d, what) ==
  CASE what = "memory" -> d \in managed
    [] what = "cdev"   -> \E e \in map : e.dev = d
    [] what = "node"   -> \E x \in nodes : x.dev = d

HeldFor(d, things) == {what \in things : Holds(d, what)}

Serving(d, things) == INSTANCE Lifecycle WITH
  Resource <- things, Needs <- {"cdev", "node"} \X {"memory"} \cup {<<"node", "cdev">>},
  status <- StatusOf(d), plan <- things, held <- HeldFor(d, things)

\* Each device has a lifecycle of its own: a probe only takes until a call fails, then
\* it only gives back, and a bound device keeps all it has until its remove.  Of its
\* memory and its node this is true whatever overlaps; of its cdev, as long as no two
\* probes or removes have overlapped.
DeviceLifecycles ==
  /\ \A d \in Dev : Serving(d, Things)!Init
  /\ [][\A d \in Dev, things \in {Things, Things \ {"cdev"}} :
          (met' => "cdev" \notin things)
            => [Serving(d, things)!Next]_(Serving(d, things)!lifecycle)]_vars

\* Every load, unload, bind and unbind that is entered comes to its end.
LoadEnds == \A t \in Thread : pc[t] # "idle" ~> pc[t] = "idle"
=============================================================================
