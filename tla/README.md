# A verification project for the `mymodules` kernel modules

The repository (`src/pgm/`) is a set of Linux kernel modules, most of them
character drivers, one step more elaborate each. This directory holds TLA+
models of them, TLC configurations that check the models on small instances, and
proofs, checked by TLAPS, that hold for instances of any size. File and line
references are to `src/pgm/...`; `PROJECT.json` maps every definition that models
code to the lines it stands for.

Run a check with `tlc -config <run>.cfg <module>`, a proof with
`tlapm <module>.tla`.

## 1. The system

| part | state | operations | what is hard | what makes it correct |
|---|---|---|---|---|
| `01_hello_world` file operations (scull) | per device: `sem`, `size`, a list of items, each an array of quanta; per file: mode and position | `scull_open`, `scull_trim`, `scull_follow`, `scull_read`, `scull_write`, `scull_release` | a truncating open takes no lock; allocations, user copies and the wait for the semaphore fail half way; the position is a copy | reads and writes exclude each other and give the semaphore back; each call takes effect at one moment; no freed memory is used, none in use is lost |
| `01_hello_world` init and exit | `scull_major`, `scull_devices`, the kernel's regions and cdevs | `my_module_init`, `scull_setup_cdev`, `my_module_exit`, writes to the parameter in sysfs | devices are live before init returns; calls fail, some without stopping init; `scull_major` changes | open devices are ready; nothing stays behind |
| `06_char_dirver_multiple` file operations | per device: buffer, permission; per file: mode, device, position | `my_dev_open`, `my_dev_read`, `my_dev_write`, `my_dev_lseek`, `my_dev_release` | no lock anywhere; `lseek` stores into the position other calls work on a copy of | copies stay inside the buffer; permissions hold; every byte is moved once |
| `06_char_dirver_multiple` init and exit | region, class, four cdevs, four nodes | `hello_init`, `hello_exit` | any call fails at any index; the unwinding loop; users open devices meanwhile | nothing stays behind; nodes lead to cdevs; a loaded driver serves all its devices |
| `03_char_driver` | the same with one device and no permission | the same, unwinding through labels | the same; the cdev is live before class and node exist | the same |
| `07_platform`: `pcd.c`, `pcd_device_setup.c` | `pcdrv_data`: first number, class, `device_pcd`, `total_devices`; per device: number, buffer, cdev | probe, remove, init and exit of a driver module and of a module of devices | two modules load in any order; probes share `device_pcd`; ignored results; remove while a file is open | all that probe takes or nothing of it; nothing stays behind |
| `08_platform_idTable_matching` | the same, and an id table | the same, matched by id table | the names in the table and of the devices differ, and the table has no end | the driver is bound to its devices, which it never is |
| `09_platform_of` | the same, data from the device tree, numbers from `total_devices` | probe, remove, init and exit of a driver; users bind and unbind devices through sysfs | a number is used again after a removal; probes of two devices overlap on the counter | an open finds the device the node was made for; count and numbers are exact; nothing stays behind |
| `05_nw_driver` | one `net_device` | init, exit, open, stop, transmit | the interface is registered before its operations are set | operations are there when the interface is, which they are not |
| `02_print_values` | none | prints in init and exit | - | - |
| `04_test_app` | none beyond one run | user programs | - | - |

The parts interact only through the kernel. Users reach a driver through the VFS,
which owns file positions, calls `release` after the last call on a file, and
takes a reference on the module at open. The module loader calls init and exit,
frees a module whose init returns a negative value, and refuses to unload one
that has references. The `01`, `03`, `06` and `07` to `09` modules register device
numbers with one table of regions and one map from numbers to cdevs. In `07` to
`09` the platform core calls `probe` and `remove` of the driver module for
devices that the other module registers.

There are no tests in the repository. Its promises are in comments, and the runs
that end in a violation quote them.

## 2. The modules

| module | models | abstract specification |
|---|---|---|
| `Scull` (`MCScull`) | one scull device: list, quanta, semaphore, files, threads in its operations | `ScullStore`: a sparse byte store, each call at one moment |
| `ScullModule` (`MCScullModule`) | loading and unloading of `01_hello_world` | - |
| `CharDev` (`MCCharDev`) | file operations of `06`, and of `03` as the case of one read-write device | `CharStore`: byte arrays, each byte of a call at one moment |
| `CharDevModule` (`MCCharDevModule`) | loading and unloading of `06` (build `"four"`) and of `03` (build `"one"`) | `Lifecycle`: what is held is taken and given back nested by need |
| `Pcd` (`MCPcd`) | driver and devices of `07`: loading, unloading, probe, remove | `Lifecycle`, one for each device |
| `PcdOf` (`MCPcdOf`) | driver of `09`: loading, unloading, probe, remove, binding and unbinding by users | `Lifecycle`, one for each device |
| `ScullProofs`, `ScullStoreProofs`, `ScullModuleProofs`, `CharDevProofs`, `CharDevStoreProofs`, `CharDevModuleProofs`, `PcdProofs`, `PcdOfProofs` | theorems | - |

### 2.1 Scull

A thread is at a point of its system call (`pc`) and holds the locals of the code
(`dptr`, `pos`, `count`, `ret`). Each stretch of code between two uses of shared
state is an action, in the order of the source:

| actions | code (`01_hello_world/my_module.c`) |
|---|---|
| `Open`, `Release` | `scull_open` of a file that is not write-only, `scull_release` |
| `OpenTruncating` | `scull_open` of a write-only file, up to the call of `scull_trim` |
| `TrimLook`, `TrimQuantum`, `TrimArray`, `TrimNull` | lines 92 to 98 of `scull_trim`: is there an array, one turn of the loop over its quanta, its `kfree`, `data = NULL` |
| `TrimNext`, `TrimItem` | lines 101 to 104: the item behind, the `kfree` of the item |
| `TrimSize`, `TrimDone` | lines 106 and 109 and the return |
| `EnterRead`, `EnterWrite`, `Return` | the VFS hands over a copy of the position or the caller's offset, and stores the copy back |
| `Down`, `Interrupted`, `Up` | `down_interruptible` and its failure, `out: up` |
| `ReadPastEnd`, `ReadBelow`, `ReadClamp` | the comparison with `size`; the clamp to it, which wraps when a truncation came between |
| `FollowNext`, `Followed`, `ItemNotAllocated` | a turn of the loop of `scull_follow`, its end; its unchecked `kmalloc` |
| `ReadNoArray`, `ReadArray`, `ReadHole`, `ReadFound`, `CopyToUser` | the rest of `scull_read` |
| `WriteArray`, `WriteNoArray`, `WriteQuantum`, `WriteNoQuantum`, `CopyFromUser`, `WriteSize` | the rest of `scull_write` |
| `CopyFails` | `copy_to_user` or `copy_from_user` stops short; into the kernel the rest of the range becomes zero |
| `FollowFreed`, `UseFreed`, `FreedTwice` | a pointer to memory that is gone is followed, or handed to `kfree`; `fault` is set and the system stops there |

An item is named by its place in the list. The code never clears a `next`
pointer, so a place stands for an address: `linked` counts the pointers set so
far, `live` says which places have not been freed. `arrays` and `quanta` are the pointers
that are set, `deadArrays` and `deadQuanta` those of them whose memory `kfree` has already
taken back, and `leaked` is a history variable: the last pointer to memory still in use was
overwritten or freed. Every read of `size`, `data`, `data[i]` or `next` that another thread
can change is a step, but that a test is one step with the store or `kfree` it decides (lines
94, 146, 242, 254, 273): what another thread does in between has the effect it would have before
or after, or is a use of freed memory that another interleaving shows as well. An allocation,
the store of its pointer and the `memset` that clears it are one step for the same reason. Each mention of `dptr->data` is
taken as a load: a build that keeps the pointer in a register meets the same faults in
neighbouring interleavings. `size_t` has `WORD` values, at least as many as there are
positions in use. What the program does after it has used freed memory is not
modelled: the run stops in the state that shows the use. One device is enough,
as devices share nothing that the operations change. `ioctl` and `llseek` change
no state. Positions are mathematical integers; the code's `int item` and `rest`
would only differ beyond 2^31 items.

`ScullStore` is what callers see: a partial function from positions to bytes, a
size, and calls that take effect in one step between call and return. Reads
return a nonempty prefix of what is asked when there is something at the
position, a failed write may have changed positions of its own range and nothing
else, a truncation empties the store. `Scull!Store` is the refinement mapping:
the content is read through the list, and between the copy of a write and the
update of `dev->size` the abstract size is already the new one. A truncation takes
effect when it looks at the first item: from there to the end of `scull_trim` the store
is empty although later items are still there (`Emptied`). The end of the loop would be
too late, as bytes that the store still promised would be gone by then.

### 2.2 ScullModule

Every kernel call of `my_module_init`, `scull_setup_cdev` and `my_module_exit` is
an action, with a failing twin where the code sees a result. `RegionFails` goes
on, as the code does, with the negative value in `ret`; `AddCdevFails` only logs.
`InitReturns` is the loader's decision: on a negative value the module goes, and
its cdevs that are still in the kernel's map become `stale`. Users open and close
devices from the first `cdev_add` on. `WriteMajor` is a write to the parameter
through sysfs. `insmod` waits for files on a freed module to be closed. `NothingHeld`
speaks of loads that returned 0 and during which nobody wrote the parameter: the
history variable `written` records that somebody did. What happens otherwise is
code behaviour that the actions have (section 3) and the property leaves out.

### 2.3 CharDev

The driver takes no lock, so user copies move one byte per step (`CopyOut`,
`CopyIn`), `lseek` stores and reloads the position in two steps, and all calls
interleave. A `size_t` has `WORD` values: `Left` is `maxSize - *fPos` with its
wrap-around for a position beyond the end. `Open` has the permission check; a
failed one changes nothing and is not a step. `CharStore` promises no atomicity of
calls: a byte moves once, at one moment, in any order, and a call that succeeds has
moved exactly the bytes of its range that lie on the device.

### 2.4 CharDevModule

Both builds make a module named `char_demo`, so the loader has one of them at a time:
`build` says which, and `Insmod` may bring the other. `hello_init` of `06` is a loop over
the minor numbers with a failing twin for every call; `GiveUp` is the jump to the label.
The unwinding loop and `hello_exit` share `DestroyDevice` and `DelCdev`, which differ only
in the direction of the index. `device_destroy` and `cdev_del` of something that was not
added do nothing, which is what the failed index relies on. Rmmod waits for the files to be
closed, as the module loader does. A file that is open when init fails is not protected by the
code, and no property is stated of it. The actions `One...` are
`hello_init` and `hello_exit` of `03`: another order (the cdev before the class), and the
points of the unwinding are named after its labels. Insmod after a failed load waits
until the files opened on the freed module are closed: what such a file does is not
modelled.

`Lifecycle` knows neither loops nor labels. A driver plans what to hold, takes each thing
after what it needs, is complete only with all of it, and on a failure or an unload gives
back each thing before what it needs, down to nothing. `CharDevModule` states what is held
(`Held`), what needs what (`Needs`: node, cdev, class, region) and the plan of each build;
`LifecycleSpec` is the refinement. It says of a single call order what the invariants
cannot: nothing is taken on the way down, nothing is given back on the way up, and nothing
is left out of a load that succeeds. `Pcd` and `PcdOf` use the same module for probe and
remove of one device.

### 2.5 Pcd

Two threads load and unload the modules `pcd` and `pcd_device_setup`, at any time and
at the same time. Probe and remove of a device run in whichever of them makes the
driver and the device meet, so their actions take the thread as a parameter:

| actions | code (`07_platform`) |
|---|---|
| `PcdInsmod` ... `RegisterDriver`, and the failing twins | `pcd_platform_driver_init` |
| `PcdRmmod`, `DestroyClass`, `UnregisterRegion` | `pcd_platform_driver_exit`, and `unreg_chrdev` of init |
| `SetupInsmod`, `AddDevice`, `SetupEnds`, `AddDeviceFails`, `UndoEnds` | `pcdev_platform_init` |
| `SetupRmmod`, `UnlinkDevice`, `ReleaseBound`, `UnregisterMissing`, `SetupGone` | `pcdev_platform_exit` |
| `AllocData`, `AllocBuffer`, `AddCdev`, `CreateNode`, `ReadCount`, `StoreCount` | `pcd_platform_driver_probe` |
| `ProbeFails`, `DelCdev`, `FreeBuffer`, `FreeData` | its labels |
| `DestroyNode`, `RemoveCdev`, `ReadCount`, `StoreUncount`, `ReleaseManaged` | `pcd_platform_driver_remove`, and devres after it |
| `AttachProbe`, `AttachSkip`, `DrainProbes`, `DetachDevice`, `VisitProbe`, `VisitSkip`, `ReleaseUnbound` | the platform core, from how the two modules use it |

`has[d]` is what probe has taken for device `d` and nobody has given back. The core
holds the lock of a device around probe and remove (`Free(d)` says that
nobody does), waits at the end of `platform_driver_unregister` for a probe that had
found the driver, and never probes a device that is being removed.
`pcdrv_data.total_devices` is read and stored in two steps, since `++` and `--` are not
atomic: it drifts, which nothing in the code depends on, and `Drift` bounds it.
`device_pcd`, which probes share, is written and tested in one step: the value tested is the
one just stored, with no call in between that would make the compiler load it again. It is
loaded again behind `pr_err`, only for the code that a failing probe returns; whichever value
is found there, the core takes the probe for failed and undoes it. `rejected` is a history variable: the devices whose last probe failed.
`UnregisterMissing` is an exit that unregisters devices which `platform_add_devices`,
whose result init ignores, never added or took back: `fault` is set and the run stops
there, because the kernel's behaviour from then on is not modelled.

`DeviceLifecycles` says that each device, seen alone, goes through a `Lifecycle`: the status
is where the thread that is at it stands (`StatusOf(d)`), the things are its data, its cdev and
its node (`HeldFor(d)`), a node needs its cdev and a cdev its data. The buffer is left out: it
is freed with the data or just before it, and nothing rests on it. A probe whose first
allocation fails holds nothing to give back, and a remove gives back the data and is over in
one step, as devres does.

### 2.6 PcdOf

The devices of `09` are nodes of the device tree: they are there before the driver and
stay after it. Any thread loads or unloads the driver, or writes the name of a device to
its `bind` or `unbind` file, so that probes and removes of different devices overlap.

| actions | code (`09_platform_of/pcd.c`) |
|---|---|
| `Insmod` ... `RegisterDriver`, the failing twins, `AttachEnds` | `pcd_platform_driver_init` |
| `Rmmod`, `DetachEnds`, `DestroyClass`, `UnregisterRegion` | `pcd_platform_driver_exit`, and `unreg_chrdev` of init |
| `Allocate`, `TakeNumber`, `AddCdev`, `CreateNode`, `StoreCount`, `CdevFails`, `NodeFails` | `pcd_platform_driver_probe` and `pcdev_get_platdata_from_dt` |
| `DestroyNode`, `DelCdev`, `StoreUncount` | `pcd_platform_driver_remove` |
| `ReadTotal` | each read of `total_devices` that something is done with later: the name of the node, `++`, `--` |
| `Attach`, `Drain`, `Detach`, `Bind`, `Unbind`, `Return`, `Release` | the driver core, from how the driver uses it |

A device number is the value of `total_devices` when probe reads it (`num`), so numbers can
coincide. Nothing compares it with the size of the region (`MAX_DEVICES`), so the size is no
part of the model: a number at or beyond it is served like any other. The kernel keeps the cdevs of one number as a stack (`map`, with a `depth`):
an open, and a `cdev_del` of any of them, finds the newest. It refuses a node whose
number or name is in use (`InUse`). Of `device_pcd` the model says what section 2.5 says. What the device tree says of a device is reduced to
whether everything that probe asks for is there.

Three history variables say what a state cannot: `met`, that two probes or removes have
ever overlapped; `gap`, that since the load a device was removed that was not the last one
numbered; `refused`, the devices that were refused although no call failed. The properties
that need histories without an overlap say so by `met`, because with an overlap this code loses updates of
the counter, gives one number to two devices, and takes the wrong cdev out of the map;
`ServedInOrder` needs `gap` because after a removal out of order the next number is in
use, line 278.

That next number is not refused at once: its cdev is added first, on top of the one in use,
and only the node is refused. Until the probe has taken its cdev out again an open of the
older device's node finds the newcomer's cdev (`Intruding`). `CdevsOwned` has this as its one
exception, and says that otherwise, in the middle of a probe or a remove as well, an open
finds the cdev of the node's own device. `CountKept` says that number and name agree, that a
number is below the number of devices in the tree, and that until a removal out of order the
numbers in use run from 0 without a break. So a number can lie outside the driver's region
only when more devices are served than the region has numbers, which the code does not
prevent.

`DeviceLifecycles` is stated twice over: for the memory and the node of a device in every
behaviour, and with its cdev as long as no two probes or removes have overlapped. The
first half is not implied by the second, as overlaps are what it is about.

## 3. What the runs check

| run | instance | shows |
|---|---|---|
| `scull_shared` | 2 threads, 2 files, quantum 2, 2 list items, counts 1 and 2, 2 byte values, no truncation; quantum and wait for the semaphore fail | `TypeOK`, `NoFault`; `DenseDevice`: no hole below the size, no position beyond it; `StoreSpec`: every call takes effect at one moment |
| `scull_truncate` | 1 thread, 2 files, quantum 1, 2 list items, offsets of the caller's own, write-only opens, failing array, quantum and copy | `StoreSpec` with holes and truncations; `NothingLeaked`: a truncation frees all there is; `ShortListSafe`: nothing faults while the list has never had a second item |
| `scull_racing` | 2 threads, 2 files, quantum 1, truncations against reads and writes, every failure, fair | `MutualExclusion`, `ReadsLeaveMemory`, and `OnlyNextDangles`: pointers to freed memory are found only where a truncation is at work, and in `dev->next`; all in every state up to a use of freed memory; `CallsReturn`: no call waits for ever, unless one faults |
| `scull_module` | 2 devices, 2 files, majors 1 and 2 (0 asks for any), every failure, writes to `scull_major` | `OpenDeviceReady`, `CdevsInRegion`, `NothingHeld`, `ExitFindsEveryDevice`, `TypeOK` |
| `chardev_shared` | 2 threads, 1 shared file, one device of each kind with 2 bytes, seeks by -1 and 1, pread and pwrite at 0, failing copies | `CopiesInBuffer`, `PermissionHonoured`, `StoreSpec`, `TypeOK` (positions stay on the device) |
| `chardev_module` | builds with 1 and with 4 devices, 2 files, every call may fail, fair | `NothingLeft`, `LoadEnds`, `TypeOK`; `LifecycleSpec`: both builds implement `Lifecycle`, so nodes lead to cdevs (`NodesBacked`) and a loaded driver serves every device (`LoadedIsComplete`) |
| `pcd` | 2 devices, 1 file, every call may fail, both threads fair | `Stacked`, `AllOrNothing`: what a probe takes, also when it fails or the driver goes; `NothingLeft`, `EveryDeviceServed`: in any order of the modules; `OpenFilesHoldModule`, `LoadEnds`, `TypeOK`; `DeviceLifecycles`: each device implements `Lifecycle` |
| `pcd_of` | 2 devices, 2 threads, every call may fail, both threads fair | `NodesOwned`, `NothingLeft`: however probes and removes overlap; `CdevsOwned`: what an open finds, without an overlap; `CountKept`: count, numbers and names, without an overlap; `ServedInOrder`: a device is refused only after removals out of order; `DeviceLifecycles`; `LoadEnds`, `TypeOK` |

Runs that end in a violation, each of something a comment of the source says:

| run | violated | what happens |
|---|---|---|
| `scull_reopen` | `NoUseAfterFree` | `scull_trim` frees the items behind the device and leaves `dev->next` set (line 101); the next trim walks into freed memory |
| `scull_truncate_race` | `NoFault` | `scull_open` trims without the "mutual exclusion semaphore" (line 126) while a write is inside it |
| `scull_module_no_region` | `NoStaleDevice` | a refused region is only logged (line 381); cdevs are added, then init returns the error and the module is freed under them |
| `chardev_pread` | `CopiesInBuffer` | a `pread` beyond the device wraps `maxSize - *fPos` (`06`, line 201); "count always should be validated" |

More divergences follow from actions of the models and are not runs of their
own: `ItemNotAllocated` (line 148 hands `kmalloc`'s result to `memset` unchecked),
`FreedTwice` (two truncating opens free one quantum or array twice, lines 94 to 104),
`TrimArray`, `TrimNull` and `TrimDone` (a quantum or array that a writer attaches while a
truncation passes is lost, lines 94 to 109 against line 256), `ReadClamp` (the count of a read
wraps at line 179 after a truncation; line 197 cuts it again),
`AllocFails` (line 392 returns `-ENOMEM` with the region registered) and
`WriteMajor` before `Rmmod` (line 425 computes the region to give back from a
parameter that may have changed), and what `PcdOf` does once `met` or `gap` holds
(section 2.6): no comment of `09` promises otherwise.

Why the bounds are enough. The clamps of scull depend on how a position lies
against the size, the end of a quantum and the end of an item: quantum 2 with
`MaxPos` 3 and counts 1 and 2 has calls that are cut by each of the three, calls
that are cut by none, and a second item. `scull_truncate` has items of two quanta of one byte,
so that with `MaxPos` 3 and the offset 2 there are holes of part of an item and of a whole one,
and truncations of one item and of two. `scull_racing` has two items of one quantum of
one byte: every point of a truncation meets every point of a read, a write and another truncation. Two threads give every pairwise race, and
no path of the code looks at two other threads; two files give a position that is
stale because of the other file. Two byte values tell an overwritten byte from a
kept one, and `Junk` is a byte nobody wrote. In `chardev_shared` a device of two
bytes has a first and a last byte, and the offsets -1 and 1 reach all three
positions; the threads share one file because all they can disturb is that file's
position and the device, and `pread` gives each its own position. `chardev_module` has
a first, a last and middle devices for its two loops; `scull_module` and `pcd` have a
first and a last one, no device of theirs being treated unlike its neighbours, and in
`pcd` one device for each of the two threads to be at. In `pcd_of` two devices and two
threads are what an overlap, a shared number and a removal out of order take.

Bounds that are named: `MaxPos` (no write goes past it), `Counts`, `Seeks`,
`Offsets`, `Byte`, `Majors`, `Params`, `WORD`, `Drift`, and `Failures`, which says which of the
failing calls may fail in a run. `Drift` of `PcdOf` keeps users from binding and unbinding
once lost updates have taken `total_devices` that far outside the number of devices; what is
under way goes on. Nothing else is bounded: system calls, opens,
loads and unloads go on for ever. Deadlock is checked, except where the system
really stops: in the runs of `Scull` with a use of freed memory, and in `pcd` with an
unregistering of what is not registered.

Fairness. `FairSpec` of `Scull` has weak fairness of `Run(t)`, the steps of a
thread inside a call: the kernel schedules a runnable thread. A signal (`Interrupted`) is no
part of it: nobody promises one to a thread that waits, so a semaphore that is not given back
would leave its waiters there for ever. It has strong
fairness of `Down(t)`: semaphore waiters are queued first come first served, so
one that waits is not passed over for ever. Nothing is assumed of users: they
need not call, nor close. `CharDevModule` has weak fairness of the steps of init
and exit, which wait for nobody; rmmod itself need never come.
`Pcd` has strong fairness of each thread's steps, because a device's lock is handed to
its waiters in turn; that insmod and rmmod are called at all is not assumed. `PcdOf` has weak fairness of each
thread's steps: inside init, exit, probe and remove a thread waits for nobody but, in `Drain`,
for probes and removes to be over, and rmmod keeps new ones out while it waits.

Every property that a passing run checks has a mutant beside the definition it
changes (`X_Y` is a mutant of `X`): a plausible mistake in that code, such as a
return in place of `goto out`, a missing clamp, or the unwinding that starts one
index too low, under which TLC finds the property violated.

## 4. What is proved

The theorems hold for any numbers of threads, files and devices, any sizes and
counts, and every choice of failures; they assume only what the modules' `ASSUME`
says of the constants, unless the statement adds to it.

`ScullProofs`. The inductive invariant `Inv` is `TypeOK`, `MutualExclusion`, and
`CallOK(t)`: what a thread knows of its call at each point. Types alone are not
inductive: that `pos + count` stays below `MaxPos` needs the entry guard carried
through the clamps, and that `CopyFromUser` stays inside one quantum needs the
clamp to `QUANTUM - QPos(pos)`. Facts on division with remainder are lemmas at the
head of the module.
- `TypeCorrect`, `Exclusive`: types, and mutual exclusion with the semaphore given
  back once on every path.
- `PointersCleared`: `OnlyNextDangles`, truncations in the middle of writes and of each other
  included. It needs that a truncation past the second item has freed it (`Cut`): items are
  freed from the front, so of the pointers to freed ones only `dev->next` is still reached.
- `ReadsChangeNothing`: needs that no position below the size lies beyond the list,
  so that `scull_follow` has nothing to allocate for a read.
- `NoFaultWithoutTruncation`: under `"WRONLY" \notin OpenModes` and
  `"item" \notin Failures` there is never a fault. The premises are the two causes
  the violating runs show; all other failures are allowed. The invariant adds
  that every linked place is live and that what a writer has found stays.

`ScullStoreProofs`. The proof that `Scull` implements `ScullStore` rests on the arithmetic of
the list: that `Item`, `SPos` and `QPos` name a different byte for each position, and that the
bytes a copy moves are those of its range (the lemmas at the head). `RInv` adds to `Inv` what
ties each thread to its request (`Known`): before it takes effect a call still has the position
it was given, a count that is at least one, and no result; a truncation (`KnownTrim`) has freed all it has
passed, and what it has read of the list is still so. One lemma for each kind of step shows that it is a step of the store or leaves the
store alone.
- `ImplementsStore`: for any geometry, threads, files, offsets and failures, if who truncates
  is alone (`TruncatesAlone`: nobody opens write-only, or there is one thread). The premise
  is what the code lacks: a truncation takes no lock, and `scull_truncate_race` shows what
  comes of it. A fault needs no premise: the system stops there and the store with it.
- `TruncationFreesAll`: `NothingLeaked`, under `TruncatesAlone`. The invariant adds that the slots
  which the loop has passed are freed, so that nothing in use goes with the array.
- `DeviceIsDense`: `DenseDevice`, under the premises of `scull_shared` (no write-only open, no
  offset of a caller's own). `NoHoles` adds that a write that has copied and not yet set
  the size has left no hole below its end, without which the step that sets it proves nothing.
- `ShortListNeverFaults`: `ShortListSafe`, under `TruncatesAlone` and
  `"item" \notin Failures`. `ShortIntact` adds that what an operation has found is there when it
  uses it, and that a truncation does not pass the end of the list.

`ScullModuleProofs`. `IInv` adds to `TypeOK` the module's state at each point of init and exit
(`Progress`), that a cdev in the map is a set-up device that exit has not come to (`Live`), and
that the region of `scull_major` is held from its registration to the end of exit (`Held`).
`NothingHeld` alone is not inductive: that exit gives back the region init took is the
equation `first = major`, which must hold at every point from the registration on and which a
write to the parameter breaks, hence `written`.
- `TypeCorrect`, `OpenedIsReady`, `NumbersReserved`, `ExitFindsAll`, `NothingStays`, for any number
  of devices and files, any majors, and any choice of failures.

`CharDevProofs`. `Inv` adds to `TypeOK` that an open file's mode was permitted and
`CallOK(t)`: the copy of the position is on the device or is an offset of the
caller's own, and a copy from a position on the device ends inside the buffer.
- `TypeCorrect`: the file position stays in `0 .. BUFSIZE` under every interleaving
  of seeks, reads and writes on a shared file.
- `CopiesStayInside`, for offsets of pread and pwrite on the device
  (`Offsets \subseteq 0 .. BUFSIZE`), the premise `chardev_pread` shows necessary.
- `PermissionsHold`: an action property, from the mode kept in the file.

`CharDevStoreProofs`. `SInv` adds to `Inv` how far each call has come (`Progress`): the position
it started from is that of its request, its count is the request cut at the end of the device,
and as many bytes as it has done lie in the caller's buffer.
- `ImplementsStore`: `CharDev` implements `CharStore` for any numbers of threads, files and
  devices, whatever `lseek` stores into the position meanwhile, if offsets of pread and pwrite
  lie on the device; beyond it the count is not cut, which `chardev_pread` shows.

`CharDevModuleProofs`. `Inv` says for every point of init, unwinding and exit which
cdevs and nodes exist as a function of the loop index (`Rising`, `Unwinding`,
`Exiting`, `Resting`); the last cdev of a failed index has no node yet, which is why
the plain property is not inductive.
- `TypeCorrect`, `NothingStays`, `LoadedServesAll`, `NodesAreBacked`, for any number of devices.
- `ImplementsLifecycle`: the refinement. Under `Inv` every action is a step of `Lifecycle` or leaves
  its variables alone: one lemma for each thing that is taken, one for each that is given back.

`PcdProofs`. `IInv` puts together how far each of the two threads has come and what
that means (`PcdState`, `SetupState`), that two threads are never at work on one device
(`Locked`), what a device has at each point of probe and remove (`Work`) and at rest
(`Resting`), and that after the driver is gone no device is left with it (`Drained`).
None of the properties is inductive: `AllOrNothing` says nothing of a device in
probe, so the step that ends a probe needs `Work`; `Stacked` needs that a probe in one
thread keeps the other from destroying the class, which is `Drained` at every point of
rmmod; `EveryDeviceServed` needs that a device neither bound nor rejected is still
ahead of one of the two walks (`Served`). Every part has one lemma, with one step for
each group of actions that can disturb it; what a thread does inside probe and remove is
summed up once (`CallCases`).
- `EachDeviceServed`: `DeviceLifecycles`. A step of the thread at a device is one of that
  device's lifecycle (`CallServes`, `BeginServes`), and leaves the status and the things of all
  other devices alone (`CallElsewhere`, `RestServes`).
- `TypeCorrect`, `WholeOrNothing`, `ResourcesStack`, `NothingStays`, `AllServed`,
  `OpenFilesProtected`, for any number of devices and files and any choice of failures.
  They are theorems about the two modules over the core as modelled: the lock, the wait
  in `DrainProbes` and the refusal to unload a module in use are the kernel's.

`PcdOfProofs`. `IInv` has thirteen parts. `Walk` and `Stage`: init and exit belong to one thread, and
where it is decides who else may be in the driver and what is registered. `Locks`: one
thread at a device, probing it only unbound and removing it only bound. `Memory` and
`Nodes`: what a device has at each point, which hold however threads overlap. `Alone`, `Map`
and `Count`: without an overlap there is one thread at most in probe or remove, so map and count
are those of the bound devices but for what that thread is doing. `Order`: without a gap the
numbers in use are those below the count. `Names` and `Dense`: without an overlap name and number
of a node agree, and until a gap the numbers in use have no break.
- `EachDeviceServed`: `DeviceLifecycles`, along the same lemmas as in `PcdProofs`. What a
  `device_destroy` and a `cdev_del` of one device do to another's node and cdev is the point:
  they go by number. The node is safe because no two nodes share one (`Nodes`), the cdev
  only without an overlap (`Map`).
- `TypeCorrect`, `NodesStayOwned`, `NothingStays`, `CdevsStayOwned`, `CountStaysExact`,
  `NoneRefusedInOrder`, for any numbers of threads and devices and any choice of failures; about the driver over the kernel as modelled.

Only model-checked: liveness (`CallsReturn`, `LoadEnds`), which is outside the
prover, and that no state of the passing runs is a deadlock. Every other property of a
passing run is a theorem. `ShortListSafe` is proved without failing items, as it is checked;
`NoFault` of a device that is truncated after its list had a second item is false, which
`scull_reopen` shows.

## 5. What is not modelled, and what is left

- `08_platform_idTable_matching`: no name in its id table is the name of a device of its setup
  module (`pcd_devs_*` against `pcd_dev_*`), so its probe is never called for them, and a model of
  what does run would have no steps beyond init and exit of `07`. Its table has no empty entry
  at the end; what the kernel reads behind it is not defined by this code.
- `05_nw_driver`: `register_netdev` looks at `netdev_ops`, which is set only afterwards, so nothing
  behind that call is reached. Open and stop set and clear a flag of the kernel's that no code of
  the module reads.
- `02_print_values` and `04_test_app` keep no shared state; the Makefiles, shell scripts and log
  messages have none either.
- A file that stays open on a device of `07` or `09` whose driver is unbound, or on a module whose
  init failed: the code does not protect it, and what the kernel then finds is not modelled.
- Positions beyond 2^31 list items.

Left to do, in this order:

1. Composition of `Scull` with `ScullModule`: exit trims devices whose files are all closed.
2. A specification of loading and unloading for `ScullModule`, which is no `Lifecycle`: a load
   goes on without the devices whose `cdev_add` failed.
