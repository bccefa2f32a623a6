-------------------------------- MODULE Scull --------------------------------
(***************************************************************************)
(* One scull device of the 01_hello_world driver: the list of quantum sets *)
(* behind it, the open files on it, and the threads inside its file        *)
(* operations.  scull_read and scull_write run between down_interruptible  *)
(* and up on the device's semaphore; scull_open, and the scull_trim it     *)
(* calls for a write-only open, take no lock.  One device is enough: two   *)
(* devices share nothing that an operation changes.                        *)
(*                                                                         *)
(* List items are named by their place, 0 being the device itself.  No     *)
(* code ever clears a next pointer, so the pointer to place k is set at    *)
(* most once, and its place can stand for an item's address.  Every read   *)
(* of dev->size, data, data[i] or next that another thread can change is a *)
(* step, together with the store or the kfree that it decides; an          *)
(* allocation, the store of its pointer and the memset that clears it are  *)
(* one step.                                                               *)
(***************************************************************************)
EXTENDS Integers, Sequences, FiniteSets

CONSTANTS
  Thread,     \* threads that issue system calls
  File,       \* open-file slots
  NoFile,     \* no file
  QUANTUM,    \* bytes in a quantum (scull_quantum)
  QSET,       \* quanta in a list item (scull_qset)
  WORD,       \* the values of a size_t: its arithmetic is modulo WORD
  MaxPos,     \* bound: no write goes past this position
  Counts,     \* bound: the byte counts callers ask for
  Byte,       \* bytes callers write
  Zero,       \* the byte a failed copy pads with
  Junk,       \* the content of a byte nobody has written
  OpenModes,  \* access modes callers open with
  Offsets,    \* offsets callers pass to pread and pwrite
  Failures    \* which of "item", "array", "quantum", "copy", "signal" occur

Modes == {"RDONLY", "WRONLY", "RDWR"}

ASSUME ScullAssumption ==
  /\ QUANTUM \in Nat \ {0}
  /\ QSET \in Nat \ {0}
  /\ MaxPos \in Nat
  /\ WORD \in Nat
  /\ MaxPos + QUANTUM <= WORD
  /\ Counts \subseteq Nat
  /\ Offsets \subseteq 0 .. MaxPos
  /\ NoFile \notin File
  /\ Zero \in Byte
  /\ Junk \notin Byte
  /\ OpenModes \subseteq Modes
  /\ Failures \subseteq {"item", "array", "quantum", "copy", "signal"}

VARIABLES
  sem,      \* dev->sem: 1 when free, 0 when down
  size,     \* dev->size
  linked,   \* how many next pointers have been set: places 0..linked exist
  live,     \* places whose memory has not been freed
  arrays,   \* places with data # NULL
  quanta,   \* <<place, slot>> with data[slot] # NULL
  deadArrays, \* those of arrays that kfree has already taken back
  deadQuanta, \* those of quanta that kfree has already taken back
  leaked,   \* history: the last pointer to memory in use was lost
  mem,      \* the bytes of the quanta
  f_mode,   \* access mode of each open file, or "closed"
  f_pos,    \* filp->f_pos
  pc,       \* where each thread is
  call,     \* the call it is in
  dptr,     \* the place of the list item it holds a pointer to
  slot,     \* scull_trim's i
  next,     \* scull_trim's next, 0 for NULL
  pos,      \* its copy of the file position (*f_pos)
  count,    \* its count, once clamped
  ret,      \* its retval
  got,      \* the bytes copy_to_user gave it
  fault     \* "none", or the memory error that stopped the system

dead   == <<deadArrays, deadQuanta, leaked>>
memory == <<linked, live, arrays, quanta, dead, mem>>
files  == <<f_mode, f_pos>>
cursor == <<slot, next>>
locals == <<dptr, cursor, pos, count, ret, got>>
vars   == <<sem, size, memory, files, pc, call, locals, fault>>

-----------------------------------------------------------------------------
(* Where a position lives: list item, slot in its array, byte in the quantum. *)

ITEMSIZE == QUANTUM * QSET
Item(p) == p \div ITEMSIZE
SPos(p) == (p % ITEMSIZE) \div QUANTUM
QPos(p) == (p % ITEMSIZE) % QUANTUM

\* A read ends where its quantum ends, however far its count reaches.
Top   == MaxPos + QUANTUM - 1

Place == 0 .. Item(Top)
Slot  == 0 .. QSET - 1
Cell  == Place \X Slot \X (0 .. QUANTUM - 1)

MinOf(a, b) == IF a < b THEN a ELSE b
MaxOf(a, b) == IF a < b THEN b ELSE a

EFAULT      == -14
ENOMEM      == -12
ERESTARTSYS == -512
Errors      == {EFAULT, ENOMEM, ERESTARTSYS}

Readable(m) == m \in {"RDONLY", "RDWR"}
Writable(m) == m \in {"WRONLY", "RDWR"}

NoCall == [op |-> "none", file |-> NoFile, mode |-> "RDONLY", at |-> 0,
           len |-> 0, data |-> <<>>, seek |-> FALSE]

Unused(f) == \A t \in Thread : call[t].file # f

(* The array of place k can be used: its item is there, and so is the array. *)
HasArray(k) == k \in live /\ k \in arrays \ deadArrays

Init ==
  /\ sem = 1
  /\ size = 0
  /\ linked = 0
  /\ live = {0}
  /\ arrays = {}
  /\ quanta = {}
  /\ deadArrays = {}
  /\ deadQuanta = {}
  /\ leaked = FALSE
  /\ mem = [c \in Cell |-> Junk]
  /\ f_mode = [f \in File |-> "closed"]
  /\ f_pos = [f \in File |-> 0]
  /\ pc = [t \in Thread |-> "idle"]
  /\ call = [t \in Thread |-> NoCall]
  /\ dptr = [t \in Thread |-> 0]
  /\ slot = [t \in Thread |-> 0]
  /\ next = [t \in Thread |-> 0]
  /\ pos = [t \in Thread |-> 0]
  /\ count = [t \in Thread |-> 0]
  /\ ret = [t \in Thread |-> 0]
  /\ got = [t \in Thread |-> <<>>]
  /\ fault = "none"

-----------------------------------------------------------------------------
(* open and release. *)

\* scull_open: anything but a write-only open returns at once.
Open(t) == \E f \in File, m \in OpenModes \ {"WRONLY"} :
  /\ pc[t] = "idle"
  /\ f_mode[f] = "closed"
  /\ Unused(f)
  /\ f_mode' = [f_mode EXCEPT ![f] = m]
  /\ f_pos' = [f_pos EXCEPT ![f] = 0]
  /\ UNCHANGED <<sem, size, memory, pc, call, locals, fault>>

\* scull_open for O_WRONLY: it trims before it returns, without the semaphore.
OpenTruncating(t) == \E f \in File :
  /\ "WRONLY" \in OpenModes
  /\ pc[t] = "idle"
  /\ f_mode[f] = "closed"
  /\ Unused(f)
  /\ call' = [call EXCEPT ![t] = [NoCall EXCEPT !.op = "open", !.file = f,
                                                !.mode = "WRONLY"]]
  /\ pc' = [pc EXCEPT ![t] = "trim"]
  /\ UNCHANGED <<sem, size, memory, files, locals, fault>>

\* The pointers below place k are gone, with k's own memory or because its data
\* was set to NULL; an array that was still in use there is lost.
Forget(k) ==
  /\ arrays' = arrays \ {k}
  /\ quanta' = {q \in quanta : q[1] # k}
  /\ deadArrays' = deadArrays \ {k}
  /\ deadQuanta' = {q \in deadQuanta : q[1] # k}
  /\ leaked' = (leaked \/ k \in arrays \ deadArrays)

\* scull_trim at an item: is there an array to free?
TrimLook(t) ==
  /\ pc[t] = "trim"
  /\ dptr[t] \in live
  /\ pc' = [pc EXCEPT ![t] = IF dptr[t] \in arrays THEN "frees" ELSE "next"]
  /\ UNCHANGED <<sem, size, memory, files, call, locals, fault>>

\* Mutant of TrimQuantum: the loop over the array stops one slot early.
TrimQuantum_OneShort(t) ==
  LET q == <<dptr[t], slot[t]>> IN
  /\ pc[t] = "frees"
  /\ HasArray(dptr[t])
  /\ q \notin deadQuanta
  /\ deadQuanta' = IF q \in quanta /\ slot[t] < QSET - 1
                   THEN deadQuanta \cup {q} ELSE deadQuanta
  /\ slot' = [slot EXCEPT ![t] = IF @ < QSET - 1 THEN @ + 1 ELSE 0]
  /\ pc' = [pc EXCEPT ![t] = IF slot[t] < QSET - 1 THEN "frees" ELSE "array"]
  /\ UNCHANGED <<sem, size, linked, live, arrays, quanta, deadArrays, leaked, mem,
                 files, call, dptr, next, pos, count, ret, got, fault>>

\* One turn of the loop over the array: its quantum, if any, is freed and the
\* pointer to it keeps its value.
TrimQuantum(t) ==
  LET q == <<dptr[t], slot[t]>> IN
  /\ pc[t] = "frees"
  /\ HasArray(dptr[t])
  /\ q \notin deadQuanta
  /\ deadQuanta' = IF q \in quanta THEN deadQuanta \cup {q} ELSE deadQuanta
  /\ slot' = [slot EXCEPT ![t] = IF @ < QSET - 1 THEN @ + 1 ELSE 0]
  /\ pc' = [pc EXCEPT ![t] = IF slot[t] < QSET - 1 THEN "frees" ELSE "array"]
  /\ UNCHANGED <<sem, size, linked, live, arrays, quanta, deadArrays, leaked, mem,
                 files, call, dptr, next, pos, count, ret, got, fault>>

\* kfree(dptr->data), which does nothing for NULL.  A quantum that a writer has
\* attached behind the loop is lost with the array.
TrimArray(t) ==
  /\ pc[t] = "array"
  /\ dptr[t] \in live
  /\ dptr[t] \notin deadArrays
  /\ deadArrays' = deadArrays \cup ({dptr[t]} \cap arrays)
  /\ leaked' = (leaked \/ \E q \in quanta \ deadQuanta : q[1] = dptr[t])
  /\ pc' = [pc EXCEPT ![t] = "null"]
  /\ UNCHANGED <<sem, size, linked, live, arrays, quanta, deadQuanta, mem, files, call,
                 locals, fault>>

\* Mutant of TrimNull: dptr->data keeps its value.
TrimNull_KeepsPointer(t) ==
  /\ pc[t] = "null"
  /\ dptr[t] \in live
  /\ pc' = [pc EXCEPT ![t] = "next"]
  /\ UNCHANGED <<sem, size, memory, files, call, locals, fault>>

\* dptr->data = NULL.
TrimNull(t) ==
  /\ pc[t] = "null"
  /\ dptr[t] \in live
  /\ Forget(dptr[t])
  /\ pc' = [pc EXCEPT ![t] = "next"]
  /\ UNCHANGED <<sem, size, linked, live, mem, files, call, locals, fault>>

\* next = dptr->next.
TrimNext(t) ==
  /\ pc[t] = "next"
  /\ dptr[t] \in live
  /\ next' = [next EXCEPT ![t] = IF dptr[t] < linked THEN dptr[t] + 1 ELSE 0]
  /\ pc' = [pc EXCEPT ![t] = "item"]
  /\ UNCHANGED <<sem, size, memory, files, call, dptr, slot, pos, count, ret, got, fault>>

\* The item itself is freed, unless it is the device, and the loop goes on to
\* next.  An item that a writer has linked behind it since is lost.
TrimItem(t) ==
  /\ pc[t] = "item"
  /\ \/ dptr[t] = 0 /\ UNCHANGED memory
     \/ /\ dptr[t] # 0
        /\ dptr[t] \in live
        /\ live' = live \ {dptr[t]}
        /\ arrays' = arrays \ {dptr[t]}
        /\ quanta' = {q \in quanta : q[1] # dptr[t]}
        /\ deadArrays' = deadArrays \ {dptr[t]}
        /\ deadQuanta' = {q \in deadQuanta : q[1] # dptr[t]}
        /\ leaked' = (leaked \/ dptr[t] \in arrays \ deadArrays
                             \/ (next[t] = 0 /\ dptr[t] < linked))
        /\ UNCHANGED <<linked, mem>>
  /\ pc' = [pc EXCEPT ![t] = IF next[t] = 0 THEN "trimmed" ELSE "trim"]
  /\ dptr' = [dptr EXCEPT ![t] = next[t]]
  /\ next' = [next EXCEPT ![t] = 0]
  /\ UNCHANGED <<sem, size, files, call, slot, pos, count, ret, got, fault>>

\* Mutant of TrimSize: dev->size is not reset.
TrimSize_Keeps(t) ==
  /\ pc[t] = "trimmed"
  /\ pc' = [pc EXCEPT ![t] = "drop"]
  /\ UNCHANGED <<sem, size, memory, files, call, locals, fault>>

TrimSize(t) ==
  /\ pc[t] = "trimmed"
  /\ size' = 0
  /\ pc' = [pc EXCEPT ![t] = "drop"]
  /\ UNCHANGED <<sem, memory, files, call, locals, fault>>

\* The end of scull_trim and of scull_open: dev->data = NULL once more, which
\* loses an array that a writer has attached since the loop.
TrimDone(t) ==
  /\ pc[t] = "drop"
  /\ Forget(0)
  /\ f_mode' = [f_mode EXCEPT ![call[t].file] = call[t].mode]
  /\ f_pos' = [f_pos EXCEPT ![call[t].file] = 0]
  /\ pc' = [pc EXCEPT ![t] = "idle"]
  /\ call' = [call EXCEPT ![t] = NoCall]
  /\ UNCHANGED <<sem, size, linked, live, mem, locals, fault>>

\* scull_release, reached when no call uses the file any more.
Release(t) == \E f \in File :
  /\ pc[t] = "idle"
  /\ f_mode[f] # "closed"
  /\ Unused(f)
  /\ f_mode' = [f_mode EXCEPT ![f] = "closed"]
  /\ f_pos' = [f_pos EXCEPT ![f] = 0]
  /\ UNCHANGED <<sem, size, memory, pc, call, locals, fault>>

-----------------------------------------------------------------------------
(* Entry of a read or a write.  The VFS hands the operation a copy of the   *)
(* file position (seek), or the caller's own offset, and stores the copy    *)
(* back when the operation has returned without an error.                   *)

Enter(t, f, op, at, len, data, seek) ==
  /\ pc[t] = "idle"
  /\ call' = [call EXCEPT ![t] =
       [op |-> op, file |-> f, mode |-> f_mode[f], at |-> at, len |-> len,
        data |-> data, seek |-> seek]]
  /\ pos' = [pos EXCEPT ![t] = at]
  /\ count' = [count EXCEPT ![t] = len]
  /\ pc' = [pc EXCEPT ![t] = "down"]
  /\ UNCHANGED <<sem, size, memory, files, dptr, cursor, ret, got, fault>>

EnterRead(t) == \E f \in File, len \in Counts :
  /\ Readable(f_mode[f])
  /\ \/ Enter(t, f, "read", f_pos[f], len, <<>>, TRUE)
     \/ \E at \in Offsets : Enter(t, f, "read", at, len, <<>>, FALSE)

EnterWrite(t) == \E f \in File, len \in Counts : \E data \in [1 .. len -> Byte] :
  /\ Writable(f_mode[f])
  /\ \/ /\ f_pos[f] + len <= MaxPos
        /\ Enter(t, f, "write", f_pos[f], len, data, TRUE)
     \/ \E at \in Offsets :
          /\ at + len <= MaxPos
          /\ Enter(t, f, "write", at, len, data, FALSE)

Down(t) ==
  /\ pc[t] = "down"
  /\ sem = 1
  /\ sem' = 0
  /\ pc' = [pc EXCEPT ![t] = IF call[t].op = "read" THEN "rsize" ELSE "follow"]
  /\ UNCHANGED <<size, memory, files, call, locals, fault>>

\* Mutant of Interrupted: goto out where the code returns.
Interrupted_GoesToOut(t) ==
  /\ "signal" \in Failures
  /\ pc[t] = "down"
  /\ ret' = [ret EXCEPT ![t] = ERESTARTSYS]
  /\ pc' = [pc EXCEPT ![t] = "up"]
  /\ UNCHANGED <<sem, size, memory, files, call, dptr, cursor, pos, count, got, fault>>

\* down_interruptible returns nonzero: the call ends without the semaphore.
Interrupted(t) ==
  /\ "signal" \in Failures
  /\ pc[t] = "down"
  /\ ret' = [ret EXCEPT ![t] = ERESTARTSYS]
  /\ pc' = [pc EXCEPT ![t] = "return"]
  /\ UNCHANGED <<sem, size, memory, files, call, dptr, cursor, pos, count, got, fault>>

\* goto out with retval = r.
Out(t, r) ==
  /\ ret' = [ret EXCEPT ![t] = r]
  /\ pc' = [pc EXCEPT ![t] = "up"]

-----------------------------------------------------------------------------
(* Inside the semaphore. *)

\* Mutant of ReadPastEnd: return where the code has goto out.
ReadPastEnd_KeepsSem(t) ==
  /\ pc[t] = "rsize"
  /\ pos[t] >= size
  /\ pc' = [pc EXCEPT ![t] = "return"]
  /\ UNCHANGED <<sem, size, memory, files, call, locals, fault>>

ReadPastEnd(t) ==
  /\ pc[t] = "rsize"
  /\ pos[t] >= size
  /\ Out(t, 0)
  /\ UNCHANGED <<sem, size, memory, files, call, dptr, cursor, pos, count, got, fault>>

\* Mutant of ReadBelow: > where the code has >=.
ReadBelow_AtEnd(t) ==
  /\ pc[t] = "rsize"
  /\ pos[t] <= size
  /\ pc' = [pc EXCEPT ![t] = "rclamp"]
  /\ UNCHANGED <<sem, size, memory, files, call, locals, fault>>

ReadBelow(t) ==
  /\ pc[t] = "rsize"
  /\ pos[t] < size
  /\ pc' = [pc EXCEPT ![t] = "rclamp"]
  /\ UNCHANGED <<sem, size, memory, files, call, locals, fault>>

\* Mutant of ReadClamp: no clamp to the size.
ReadClamp_Missing(t) ==
  /\ pc[t] = "rclamp"
  /\ pc' = [pc EXCEPT ![t] = "follow"]
  /\ UNCHANGED <<sem, size, memory, files, call, locals, fault>>

\* The clamp to the size, which a truncation may have set to 0 since the test:
\* then dev->size - *f_pos wraps.  The code reads dev->size twice here; nothing
\* but a truncation changes it meanwhile, and to 0, so one reading is as good.
ReadClamp(t) ==
  /\ pc[t] = "rclamp"
  /\ count' = [count EXCEPT ![t] = IF pos[t] + @ <= size THEN @
                                  ELSE IF pos[t] <= size THEN size - pos[t]
                                  ELSE WORD + size - pos[t]]
  /\ pc' = [pc EXCEPT ![t] = "follow"]
  /\ UNCHANGED <<sem, size, memory, files, call, dptr, cursor, pos, ret, got, fault>>

\* One turn of the loop of scull_follow: the next item, allocated if missing.
FollowNext(t) ==
  /\ pc[t] = "follow"
  /\ dptr[t] < Item(pos[t])
  /\ dptr[t] \in live
  /\ \/ dptr[t] < linked /\ UNCHANGED <<linked, live>>
     \/ /\ dptr[t] = linked
        /\ linked' = linked + 1
        /\ live' = live \cup {linked + 1}
  /\ dptr' = [dptr EXCEPT ![t] = @ + 1]
  /\ UNCHANGED <<sem, size, arrays, quanta, dead, mem, files, pc, call, cursor, pos, count,
                 ret, got, fault>>

\* scull_follow returns the position's item.
Followed(t) ==
  /\ pc[t] = "follow"
  /\ dptr[t] = Item(pos[t])
  /\ pc' = [pc EXCEPT ![t] = IF call[t].op = "read" THEN "rdata" ELSE "wdata"]
  /\ UNCHANGED <<sem, size, memory, files, call, locals, fault>>

\* dptr->data[s_pos]: its name, and whether there is a quantum to find there.
Here(t)   == <<dptr[t], SPos(pos[t])>>
Mapped(t) == HasArray(dptr[t]) /\ Here(t) \in quanta \ deadQuanta

\* No array, or no quantum in it, at the position: holes are not filled.
ReadNoArray(t) ==
  /\ pc[t] = "rdata"
  /\ dptr[t] \in live \ arrays
  /\ Out(t, 0)
  /\ UNCHANGED <<sem, size, memory, files, call, dptr, cursor, pos, count, got, fault>>

ReadArray(t) ==
  /\ pc[t] = "rdata"
  /\ dptr[t] \in live \cap arrays
  /\ pc' = [pc EXCEPT ![t] = "rslot"]
  /\ UNCHANGED <<sem, size, memory, files, call, locals, fault>>

ReadHole(t) ==
  /\ pc[t] = "rslot"
  /\ HasArray(dptr[t])
  /\ Here(t) \notin quanta
  /\ Out(t, 0)
  /\ UNCHANGED <<sem, size, memory, files, call, dptr, cursor, pos, count, got, fault>>

ReadFound(t) ==
  /\ pc[t] = "rslot"
  /\ HasArray(dptr[t])
  /\ Here(t) \in quanta
  /\ count' = [count EXCEPT ![t] = MinOf(@, QUANTUM - QPos(pos[t]))]
  /\ pc' = [pc EXCEPT ![t] = "copy"]
  /\ UNCHANGED <<sem, size, memory, files, call, dptr, cursor, pos, ret, got, fault>>

Advance(t) ==
  /\ pos' = [pos EXCEPT ![t] = @ + count[t]]
  /\ ret' = [ret EXCEPT ![t] = count[t]]

CopyToUser(t) ==
  /\ pc[t] = "copy"
  /\ call[t].op = "read"
  /\ Mapped(t)
  /\ got' = [got EXCEPT ![t] = [k \in 1 .. count[t] |->
               mem[<<dptr[t], SPos(pos[t]), QPos(pos[t]) + k - 1>>]]]
  /\ Advance(t)
  /\ pc' = [pc EXCEPT ![t] = "up"]
  /\ UNCHANGED <<sem, size, memory, files, call, dptr, cursor, count, fault>>

\* The item's array of quantum pointers is there, or is allocated and zeroed.
WriteArray(t) ==
  /\ pc[t] = "wdata"
  /\ dptr[t] \in live
  /\ arrays' = arrays \cup {dptr[t]}
  /\ pc' = [pc EXCEPT ![t] = "wslot"]
  /\ UNCHANGED <<sem, size, linked, live, quanta, dead, mem, files, call, locals, fault>>

\* Mutants of WriteNoArray: return where the code has goto out; no check at all.
WriteNoArray_KeepsSem(t) ==
  /\ "array" \in Failures
  /\ pc[t] = "wdata"
  /\ dptr[t] \in live \ arrays
  /\ ret' = [ret EXCEPT ![t] = ENOMEM]
  /\ pc' = [pc EXCEPT ![t] = "return"]
  /\ UNCHANGED <<sem, size, memory, files, call, dptr, cursor, pos, count, got, fault>>

WriteNoArray_Unchecked(t) ==
  /\ "array" \in Failures
  /\ pc[t] = "wdata"
  /\ dptr[t] \in live \ arrays
  /\ pc' = [pc EXCEPT ![t] = "wslot"]
  /\ UNCHANGED <<sem, size, memory, files, call, locals, fault>>

WriteNoArray(t) ==
  /\ "array" \in Failures
  /\ pc[t] = "wdata"
  /\ dptr[t] \in live \ arrays
  /\ Out(t, ENOMEM)
  /\ UNCHANGED <<sem, size, memory, files, call, dptr, cursor, pos, count, got, fault>>

\* The quantum is there, or is allocated and left as kmalloc returned it.
WriteQuantum(t) ==
  /\ pc[t] = "wslot"
  /\ HasArray(dptr[t])
  /\ quanta' = quanta \cup {Here(t)}
  /\ mem' = [c \in Cell |-> IF <<c[1], c[2]>> = Here(t) /\ Here(t) \notin quanta
                            THEN Junk ELSE mem[c]]
  /\ count' = [count EXCEPT ![t] = MinOf(@, QUANTUM - QPos(pos[t]))]
  /\ pc' = [pc EXCEPT ![t] = "copy"]
  /\ UNCHANGED <<sem, size, linked, live, arrays, dead, files, call, dptr, cursor, pos,
                 ret, got, fault>>

\* Mutant of WriteNoQuantum: the quantum kmalloc did not return is not noticed.
WriteNoQuantum_Unchecked(t) ==
  /\ "quantum" \in Failures
  /\ pc[t] = "wslot"
  /\ HasArray(dptr[t])
  /\ Here(t) \notin quanta
  /\ pc' = [pc EXCEPT ![t] = "copy"]
  /\ UNCHANGED <<sem, size, memory, files, call, locals, fault>>

WriteNoQuantum(t) ==
  /\ "quantum" \in Failures
  /\ pc[t] = "wslot"
  /\ HasArray(dptr[t])
  /\ Here(t) \notin quanta
  /\ Out(t, ENOMEM)
  /\ UNCHANGED <<sem, size, memory, files, call, dptr, cursor, pos, count, got, fault>>

\* Bytes bytes[1], bytes[2], ... land at the position.
PutBytes(t, bytes) ==
  mem' = [c \in Cell |->
    IF <<c[1], c[2]>> = Here(t) /\ c[3] \in QPos(pos[t]) .. QPos(pos[t]) + count[t] - 1
    THEN bytes[c[3] - QPos(pos[t]) + 1] ELSE mem[c]]

CopyFromUser(t) ==
  /\ pc[t] = "copy"
  /\ call[t].op = "write"
  /\ Mapped(t)
  /\ PutBytes(t, call[t].data)
  /\ Advance(t)
  /\ pc' = [pc EXCEPT ![t] = "wsize"]
  /\ UNCHANGED <<sem, size, linked, live, arrays, quanta, dead, files, call, dptr, cursor,
                 count, got, fault>>

\* A user copy that stops short returns nonzero.  Into the kernel it leaves
\* what it had copied and pads the rest of the range with zeros.
CopyFails(t) ==
  /\ "copy" \in Failures
  /\ pc[t] = "copy"
  /\ Mapped(t)
  /\ count[t] > 0
  /\ \/ call[t].op = "read" /\ UNCHANGED mem
     \/ /\ call[t].op = "write"
        /\ \E n \in 0 .. count[t] - 1 :
             PutBytes(t, [k \in 1 .. count[t] |-> IF k <= n THEN call[t].data[k] ELSE Zero])
  /\ Out(t, EFAULT)
  /\ UNCHANGED <<sem, size, linked, live, arrays, quanta, dead, files, call, dptr, cursor,
                 pos, count, got, fault>>

\* Mutant of WriteSize: the size follows the position without being compared.
WriteSize_Shrinks(t) ==
  /\ pc[t] = "wsize"
  /\ size' = pos[t]
  /\ pc' = [pc EXCEPT ![t] = "up"]
  /\ UNCHANGED <<sem, memory, files, call, locals, fault>>

WriteSize(t) ==
  /\ pc[t] = "wsize"
  /\ size' = MaxOf(size, pos[t])
  /\ pc' = [pc EXCEPT ![t] = "up"]
  /\ UNCHANGED <<sem, memory, files, call, locals, fault>>

Up(t) ==
  /\ pc[t] = "up"
  /\ sem' = sem + 1
  /\ pc' = [pc EXCEPT ![t] = "return"]
  /\ UNCHANGED <<size, memory, files, call, locals, fault>>

\* The VFS stores the position back and the call returns to its caller.
Return(t) ==
  /\ pc[t] = "return"
  /\ f_pos' = IF call[t].seek /\ ret[t] >= 0
              THEN [f_pos EXCEPT ![call[t].file] = pos[t]] ELSE f_pos
  /\ pc' = [pc EXCEPT ![t] = "idle"]
  /\ call' = [call EXCEPT ![t] = NoCall]
  /\ dptr' = [dptr EXCEPT ![t] = 0]
  /\ pos' = [pos EXCEPT ![t] = 0]
  /\ count' = [count EXCEPT ![t] = 0]
  /\ ret' = [ret EXCEPT ![t] = 0]
  /\ got' = [got EXCEPT ![t] = <<>>]
  /\ UNCHANGED <<sem, size, memory, f_mode, cursor, fault>>

-----------------------------------------------------------------------------
(* Dereferences of memory that is not there. *)

\* A list item that scull_follow or scull_trim is at has been freed.
FollowFreed(t) ==
  /\ dptr[t] \notin live
  /\ \/ pc[t] = "follow" /\ dptr[t] < Item(pos[t])
     \/ pc[t] \in {"trim", "frees", "array", "null", "next"}
  /\ fault' = "use_after_free"

\* The item, array or quantum an operation had found is gone when it is used:
\* the compiled code finds either the freed block or the NULL left behind.
UseFreed(t) ==
  /\ \/ pc[t] \in {"rdata", "wdata"} /\ dptr[t] \notin live
     \/ pc[t] \in {"rslot", "wslot"} /\ ~HasArray(dptr[t])
     \/ pc[t] = "frees" /\ dptr[t] \in live /\ ~HasArray(dptr[t])
     \/ pc[t] = "copy" /\ ~Mapped(t)
  /\ fault' \in {"use_after_free", "null_deref"}

\* scull_trim hands kfree what another scull_trim has freed already.
FreedTwice(t) ==
  /\ \/ pc[t] = "frees" /\ HasArray(dptr[t]) /\ <<dptr[t], slot[t]>> \in deadQuanta
     \/ pc[t] = "array" /\ dptr[t] \in live \cap deadArrays
     \/ pc[t] = "item" /\ dptr[t] \notin live \cup {0}
  /\ fault' = "double_free"

\* scull_follow hands kmalloc's result to memset without looking at it.
ItemNotAllocated(t) ==
  /\ "item" \in Failures
  /\ pc[t] = "follow"
  /\ dptr[t] < Item(pos[t])
  /\ dptr[t] \in live
  /\ dptr[t] = linked
  /\ fault' = "null_deref"

Oops(t) ==
  /\ FollowFreed(t) \/ UseFreed(t) \/ FreedTwice(t) \/ ItemNotAllocated(t)
  /\ UNCHANGED <<sem, size, memory, files, pc, call, locals>>

-----------------------------------------------------------------------------
\* A call that has been entered runs on by itself.
Run(t) ==
  \/ TrimLook(t)      \/ TrimQuantum(t)   \/ TrimArray(t)    \/ TrimNull(t)
  \/ TrimNext(t)      \/ TrimItem(t)      \/ TrimSize(t)     \/ TrimDone(t)
  \/ Down(t)          \/ ReadPastEnd(t)   \/ ReadBelow(t)    \/ ReadClamp(t)
  \/ FollowNext(t)    \/ Followed(t)      \/ ReadNoArray(t)  \/ ReadArray(t)
  \/ ReadHole(t)      \/ ReadFound(t)     \/ CopyToUser(t)   \/ WriteArray(t)
  \/ WriteNoArray(t)  \/ WriteQuantum(t)  \/ WriteNoQuantum(t)
  \/ CopyFromUser(t)  \/ CopyFails(t)     \/ WriteSize(t)    \/ Up(t)
  \/ Return(t)        \/ Oops(t)

Next ==
  /\ fault = "none"
  /\ \E t \in Thread :
       \/ Open(t) \/ OpenTruncating(t) \/ Release(t)
       \/ EnterRead(t) \/ EnterWrite(t) \/ Interrupted(t)
       \/ Run(t)

Spec == Init /\ [][Next]_vars

\* A thread inside a call keeps running, and down_interruptible queues its
\* waiters first come first served, so no thread is passed over for ever.  No
\* signal is ever promised to a waiter.
FairSpec ==
  /\ Spec
  /\ \A t \in Thread : /\ WF_vars(fault = "none" /\ Run(t))
                       /\ SF_vars(fault = "none" /\ Down(t))

-----------------------------------------------------------------------------
(* Properties. *)

InSem(t) == pc[t] \in {"rsize", "rclamp", "follow", "rdata", "rslot", "wdata", "wslot",
                      "copy", "wsize", "up"}

TrimPoints == {"trim", "frees", "array", "null", "next", "item", "trimmed", "drop"}
Trimming(t) == pc[t] \in TrimPoints

Points == {"idle", "down", "rsize", "rclamp", "follow", "rdata", "rslot", "wdata", "wslot",
           "copy", "wsize", "up", "return"} \cup TrimPoints

Calls == [op : {"none", "open", "read", "write"}, file : File \cup {NoFile},
          mode : Modes, at : 0 .. Top, len : Nat, data : Seq(Byte),
          seek : BOOLEAN]

\* Every variable keeps its type; the semaphore never counts above one.
TypeOK ==
  /\ sem \in {0, 1}
  /\ size \in 0 .. MaxPos
  /\ linked \in Place
  /\ live \subseteq Place
  /\ arrays \subseteq Place
  /\ quanta \subseteq Place \X Slot
  /\ deadArrays \subseteq arrays
  /\ deadQuanta \subseteq quanta
  /\ leaked \in BOOLEAN
  /\ mem \in [Cell -> Byte \cup {Junk}]
  /\ f_mode \in [File -> Modes \cup {"closed"}]
  /\ f_pos \in [File -> 0 .. Top]
  /\ pc \in [Thread -> Points]
  /\ call \in [Thread -> Calls]
  /\ dptr \in [Thread -> Place]
  /\ slot \in [Thread -> Slot]
  /\ next \in [Thread -> Place]
  /\ pos \in [Thread -> 0 .. Top]
  /\ count \in [Thread -> Nat]
  /\ ret \in [Thread -> Nat \cup Errors]
  /\ got \in [Thread -> Seq(Byte \cup {Junk})]
  /\ fault \in {"none", "use_after_free", "null_deref", "double_free"}

\* scull_read and scull_write exclude each other on one device, and every path
\* out of them, errors included, gives the semaphore back exactly once.
MutualExclusion ==
  /\ \A t, u \in Thread : InSem(t) /\ InSem(u) => t = u
  /\ sem = 0 <=> \E t \in Thread : InSem(t)

\* A pointer to memory that scull_trim has freed is found only where a scull_trim
\* is still at work: to a quantum while one has passed its slot and not yet set
\* data to NULL, to an array just before that, to an item never, except
\* that dev->next is left behind.  However reads, writes and truncating opens
\* interleave, none of them leaves any other such pointer on the device.
Passed(t, q) ==
  /\ dptr[t] = q[1]
  /\ pc[t] \in {"array", "null"} \/ (pc[t] = "frees" /\ slot[t] > q[2])

OnlyNextDangles ==
  /\ \A k \in deadArrays : \E t \in Thread : dptr[t] = k /\ pc[t] = "null"
  /\ \A q \in deadQuanta : \E t \in Thread : Passed(t, q)
  /\ \A k \in 2 .. linked : k \notin live => 1 \notin live

\* Memory is freed before the last pointer to it is lost: a truncating open finds
\* every quantum of every array of every item.
NothingLeaked == ~leaked

\* No operation touches memory that was freed or never allocated.
NoFault == fault = "none"

\* As long as the list has never had a second item, a truncating open leaves nothing
\* behind that a later operation falls over: dev->next is the only pointer that
\* scull_trim forgets.
ShortListSafe == linked = 0 => fault = "none"

\* Memory that scull_trim has returned to the system is not used again.
NoUseAfterFree == fault # "use_after_free"

Written(p) ==
  /\ <<Item(p), SPos(p)>> \in quanta
  /\ mem[<<Item(p), SPos(p), QPos(p)>>] \in Byte

\* While nobody truncates and nobody passes an offset of his own, the device
\* has no holes: no file position and no call gets past the size, and every
\* byte below the size was written by somebody.
DenseDevice ==
  /\ \A p \in 0 .. size - 1 : Written(p)
  /\ \A f \in File : f_pos[f] <= size
  /\ \A t \in Thread : pc[t] # "wsize" => pos[t] <= size

\* Reading allocates nothing and changes nothing, although scull_read walks the
\* list with scull_follow, which allocates the items it does not find.
ReadsLeaveMemory ==
  [][\A t \in Thread : call[t].op = "read" /\ (pc'[t] # pc[t] \/ dptr'[t] # dptr[t])
                        => UNCHANGED <<size, memory>>]_vars

\* The device is a store on which each call takes effect at one point between
\* its entry and its return.  A read takes effect when its outcome is decided, a
\* write when its bytes are copied, a truncation when it looks at the first item.
Truncating(t) == Trimming(t) /\ (pc[t] = "trim" => dptr[t] > 0)
Effected(t) == pc[t] \in {"wsize", "up", "return"} \/ Truncating(t)
Emptied == \E t \in Thread : Truncating(t)

ContentAt(p) ==
  IF Written(p) /\ ~Emptied THEN mem[<<Item(p), SPos(p), QPos(p)>>] ELSE Junk
StoredSize ==
  IF Emptied THEN 0
  ELSE IF \E t \in Thread : pc[t] = "wsize"
  THEN MaxOf(size, pos[CHOOSE t \in Thread : pc[t] = "wsize"])
  ELSE size
PhaseOf(t) == IF pc[t] = "idle" THEN "idle" ELSE IF Effected(t) THEN "done" ELSE "called"
ReqOf(t) ==
  IF pc[t] = "idle" THEN NoCall
  ELSE [op |-> call[t].op, at |-> call[t].at, len |-> call[t].len, data |-> call[t].data]
RespOf(t) == IF Effected(t) THEN [ret |-> ret[t], bytes |-> got[t]] ELSE "none"

Content   == [p \in 0 .. MaxPos - 1 |-> ContentAt(p)]
Phases    == [t \in Thread |-> PhaseOf(t)]
Requests  == [t \in Thread |-> ReqOf(t)]
Responses == [t \in Thread |-> RespOf(t)]

Store == INSTANCE ScullStore WITH
  Undef <- Junk, NoReq <- NoCall, NoResp <- "none",
  content <- Content, size <- StoredSize,
  phase <- Phases, req <- Requests, resp <- Responses

StoreSpec == Store!Spec

\* Every open, read and write that is entered comes back, unless one faults.
CallsReturn == \A t \in Thread : pc[t] # "idle" ~> (pc[t] = "idle" \/ fault # "none")
=============================================================================
