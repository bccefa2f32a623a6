------------------------------- MODULE CharDev -------------------------------
(***************************************************************************)
(* The file operations of the 06_char_dirver_multiple driver: devices of   *)
(* BUFSIZE bytes with a permission each, files opened on them, and threads *)
(* inside my_dev_read, my_dev_write and my_dev_lseek.  The driver takes no *)
(* lock: copies move byte by byte between those of other threads, and      *)
(* lseek stores into the file position that a read or a write on the same  *)
(* file has already taken its copy of.                                     *)
(*                                                                         *)
(* 03_char_driver has the same operations on one device without a          *)
(* permission check: Minor = {m}, Perm[m] = "RDWR".                        *)
(***************************************************************************)
EXTENDS Integers, Sequences

CONSTANTS
  Thread,     \* threads that issue system calls
  File,       \* open-file slots
  NoFile,     \* no file
  Minor,      \* the devices
  Perm,       \* Perm[m]: the perm field of device m
  BUFSIZE,    \* bytes in a device
  WORD,       \* how many values a size_t has
  Counts,     \* bound: the byte counts callers ask for
  Seeks,      \* bound: the offsets callers seek with
  Offsets,    \* offsets callers pass to pread and pwrite
  Byte,       \* bytes callers write
  Zero,       \* the byte that buffers start with and failed copies pad with
  Failures    \* whether "copy" occurs

Modes == {"RDONLY", "WRONLY", "RDWR"}

ASSUME CharDevAssumption ==
  /\ BUFSIZE \in Nat
  /\ Perm \in [Minor -> Modes]
  /\ Minor # {}
  /\ Counts \subseteq Nat
  /\ Seeks \subseteq Int
  /\ WORD \in Nat
  /\ Offsets \subseteq 0 .. WORD - 1
  /\ Zero \in Byte
  /\ NoFile \notin File
  /\ Failures \subseteq {"copy"}

VARIABLES
  buffer,  \* the devices' buffers
  f_mode,  \* access mode of each open file, or "closed"
  f_dev,   \* the device in its private_data
  f_pos,   \* its file position
  pc,      \* where each thread is
  call,    \* the call it is in
  pos,     \* *fPos, its copy of the position; in lseek, temp
  count,   \* its count, once adjusted
  got,     \* the bytes copy_to_user has given it
  done,    \* how many bytes have been copied
  ret      \* what the call returns

files  == <<f_mode, f_dev, f_pos>>
locals == <<pos, count, got, done, ret>>
vars   == <<buffer, files, pc, call, locals>>

Positions == 0 .. BUFSIZE - 1

EPERM  == -1
ENOMEM == -12
EFAULT == -14
EINVAL == -22

Readable(m) == m \in {"RDONLY", "RDWR"}
Writable(m) == m \in {"WRONLY", "RDWR"}

NoCall == [op |-> "none", file |-> NoFile, dev |-> CHOOSE m \in Minor : TRUE,
           at |-> 0, len |-> 0, data |-> <<>>, seek |-> TRUE]

Unused(f) == \A t \in Thread : call[t].file # f

Init ==
  /\ buffer = [m \in Minor |-> [p \in Positions |-> Zero]]
  /\ f_mode = [f \in File |-> "closed"]
  /\ f_dev = [f \in File |-> CHOOSE m \in Minor : TRUE]
  /\ f_pos = [f \in File |-> 0]
  /\ pc = [t \in Thread |-> "idle"]
  /\ call = [t \in Thread |-> NoCall]
  /\ pos = [t \in Thread |-> 0]
  /\ count = [t \in Thread |-> 0]
  /\ got = [t \in Thread |-> <<>>]
  /\ done = [t \in Thread |-> 0]
  /\ ret = [t \in Thread |-> 0]

-----------------------------------------------------------------------------
(* open and release. *)

\* Mutant of Permitted: the device's own bit is looked for, the other is not.
Permitted_OwnBit(perm, mode) ==
  \/ perm = "RDWR"
  \/ perm = "RDONLY" /\ Readable(mode)
  \/ perm = "WRONLY" /\ Writable(mode)

\* checkPermission: an RDWR device takes any mode, the others only their own.
Permitted(perm, mode) == perm = "RDWR" \/ mode = perm

\* my_dev_open; an open that is not permitted leaves nothing behind.
Open(t) == \E f \in File, m \in Minor, mode \in Modes :
  /\ pc[t] = "idle"
  /\ f_mode[f] = "closed"
  /\ Permitted(Perm[m], mode)
  /\ f_mode' = [f_mode EXCEPT ![f] = mode]
  /\ f_dev' = [f_dev EXCEPT ![f] = m]
  /\ f_pos' = [f_pos EXCEPT ![f] = 0]
  /\ UNCHANGED <<buffer, pc, call, locals>>

\* my_dev_release, reached when no call uses the file any more.
Release(t) == \E f \in File :
  /\ pc[t] = "idle"
  /\ f_mode[f] # "closed"
  /\ Unused(f)
  /\ f_mode' = [f_mode EXCEPT ![f] = "closed"]
  /\ f_dev' = [f_dev EXCEPT ![f] = NoCall.dev]
  /\ f_pos' = [f_pos EXCEPT ![f] = 0]
  /\ UNCHANGED <<buffer, pc, call, locals>>

-----------------------------------------------------------------------------
(* read and write.  The VFS hands them a copy of the file position and      *)
(* stores it back when they have returned without an error (seek); pread    *)
(* and pwrite hand them an offset that is the caller's own.                 *)

Enter(t, f, op, at, len, data, seek) ==
  /\ pc[t] = "idle"
  /\ call' = [call EXCEPT ![t] = [op |-> op, file |-> f, dev |-> f_dev[f], at |-> at,
                                  len |-> len, data |-> data, seek |-> seek]]
  /\ pos' = [pos EXCEPT ![t] = at]
  /\ count' = [count EXCEPT ![t] = len]
  /\ pc' = [pc EXCEPT ![t] = "adjust"]
  /\ UNCHANGED <<buffer, files, got, done, ret>>

EnterRead(t) == \E f \in File, len \in Counts :
  /\ Readable(f_mode[f])
  /\ \/ Enter(t, f, "read", f_pos[f], len, <<>>, TRUE)
     \/ \E at \in Offsets : Enter(t, f, "read", at, len, <<>>, FALSE)

EnterWrite(t) == \E f \in File, len \in Counts : \E data \in [1 .. len -> Byte] :
  /\ Writable(f_mode[f])
  /\ \/ Enter(t, f, "write", f_pos[f], len, data, TRUE)
     \/ \E at \in Offsets : Enter(t, f, "write", at, len, data, FALSE)

\* maxSize - *fPos, in a size_t.
Left(p) == IF p <= BUFSIZE THEN BUFSIZE - p ELSE WORD - (p - BUFSIZE)

\* Mutant of Adjusted: the last byte of the device is left out.
Adjusted_Short(t) == IF pos[t] + count[t] >= BUFSIZE /\ count[t] > 0
                     THEN Left(pos[t] + 1) ELSE count[t]

\* The count is cut to what is left of the device behind the position.
Adjusted(t) == IF pos[t] + count[t] > BUFSIZE THEN Left(pos[t]) ELSE count[t]

\* Mutant of Adjust: the count is not cut.
Adjust_Missing(t) ==
  /\ pc[t] = "adjust"
  /\ call[t].op = "read" \/ count[t] > 0
  /\ pc' = [pc EXCEPT ![t] = "copy"]
  /\ UNCHANGED <<buffer, files, call, locals>>

Adjust(t) ==
  /\ pc[t] = "adjust"
  /\ call[t].op = "read" \/ Adjusted(t) > 0
  /\ count' = [count EXCEPT ![t] = Adjusted(t)]
  /\ pc' = [pc EXCEPT ![t] = "copy"]
  /\ UNCHANGED <<buffer, files, call, pos, got, done, ret>>

\* my_dev_write refuses a write of which no byte fits.
NoRoom(t) ==
  /\ pc[t] = "adjust"
  /\ call[t].op = "write"
  /\ Adjusted(t) = 0
  /\ count' = [count EXCEPT ![t] = 0]
  /\ ret' = [ret EXCEPT ![t] = ENOMEM]
  /\ pc' = [pc EXCEPT ![t] = "return"]
  /\ UNCHANGED <<buffer, files, call, pos, got, done>>

\* The range of the copy ends inside the buffer.
Fits(t) == pos[t] + count[t] <= BUFSIZE

\* copy_to_user moves one more byte.
CopyOut(t) ==
  /\ pc[t] = "copy"
  /\ call[t].op = "read"
  /\ Fits(t)
  /\ done[t] < count[t]
  /\ got' = [got EXCEPT ![t] = Append(@, buffer[call[t].dev][pos[t] + done[t]])]
  /\ done' = [done EXCEPT ![t] = @ + 1]
  /\ UNCHANGED <<buffer, files, pc, call, pos, count, ret>>

\* copy_from_user moves one more byte.
CopyIn(t) ==
  /\ pc[t] = "copy"
  /\ call[t].op = "write"
  /\ Fits(t)
  /\ done[t] < count[t]
  /\ buffer' = [buffer EXCEPT ![call[t].dev][pos[t] + done[t]] = call[t].data[done[t] + 1]]
  /\ done' = [done EXCEPT ![t] = @ + 1]
  /\ UNCHANGED <<files, pc, call, pos, count, got, ret>>

\* A user copy stops short.  Into the kernel it pads what is left with zeros.
\* One of nearly WORD bytes, from beyond the end of the buffer, never succeeds.
CopyFails(t) ==
  /\ "copy" \in Failures \/ ~Fits(t)
  /\ pc[t] = "copy"
  /\ done[t] < count[t]
  /\ buffer' = IF call[t].op = "read" THEN buffer
               ELSE [buffer EXCEPT ![call[t].dev] = [p \in Positions |->
                 IF p \in pos[t] + done[t] .. pos[t] + count[t] - 1 THEN Zero ELSE @[p]]]
  /\ ret' = [ret EXCEPT ![t] = EFAULT]
  /\ pc' = [pc EXCEPT ![t] = "return"]
  /\ UNCHANGED <<files, call, pos, count, got, done>>

Copied(t) ==
  /\ pc[t] = "copy"
  /\ Fits(t)
  /\ done[t] = count[t]
  /\ pos' = [pos EXCEPT ![t] = @ + count[t]]
  /\ ret' = [ret EXCEPT ![t] = count[t]]
  /\ pc' = [pc EXCEPT ![t] = "return"]
  /\ UNCHANGED <<buffer, files, call, count, got, done>>

-----------------------------------------------------------------------------
(* lseek, which works on the file position itself. *)

\* Mutant of EnterSeek: a target beyond the end is not refused.
EnterSeek_PastEnd(t) == \E f \in File, off \in Seeks, relative \in BOOLEAN :
  LET temp == IF relative THEN f_pos[f] + off ELSE off IN
  /\ pc[t] = "idle"
  /\ f_mode[f] # "closed"
  /\ temp >= 0
  /\ call' = [call EXCEPT ![t] = [NoCall EXCEPT !.op = "lseek", !.file = f,
                                                !.dev = f_dev[f]]]
  /\ pos' = [pos EXCEPT ![t] = temp]
  /\ pc' = [pc EXCEPT ![t] = "store"]
  /\ UNCHANGED <<buffer, files, count, got, done, ret>>

\* SEEK_SET takes the offset; SEEK_CUR, and SEEK_END too, add it to the current
\* position.  A target outside the device, or another whence, is refused.
EnterSeek(t) == \E f \in File, off \in Seeks, relative \in BOOLEAN :
  LET temp == IF relative THEN f_pos[f] + off ELSE off IN
  /\ pc[t] = "idle"
  /\ f_mode[f] # "closed"
  /\ temp \in 0 .. BUFSIZE
  /\ call' = [call EXCEPT ![t] = [NoCall EXCEPT !.op = "lseek", !.file = f,
                                                !.dev = f_dev[f]]]
  /\ pos' = [pos EXCEPT ![t] = temp]
  /\ pc' = [pc EXCEPT ![t] = "store"]
  /\ UNCHANGED <<buffer, files, count, got, done, ret>>

BadSeek(t) == \E f \in File :
  /\ pc[t] = "idle"
  /\ f_mode[f] # "closed"
  /\ call' = [call EXCEPT ![t] = [NoCall EXCEPT !.op = "lseek", !.file = f,
                                                !.dev = f_dev[f]]]
  /\ ret' = [ret EXCEPT ![t] = EINVAL]
  /\ pc' = [pc EXCEPT ![t] = "return"]
  /\ UNCHANGED <<buffer, files, pos, count, got, done>>

StorePosition(t) ==
  /\ pc[t] = "store"
  /\ f_pos' = [f_pos EXCEPT ![call[t].file] = pos[t]]
  /\ pc' = [pc EXCEPT ![t] = "reload"]
  /\ UNCHANGED <<buffer, f_mode, f_dev, call, locals>>

\* return file->f_pos: by now it may be somebody else's.
ReloadPosition(t) ==
  /\ pc[t] = "reload"
  /\ ret' = [ret EXCEPT ![t] = f_pos[call[t].file]]
  /\ pc' = [pc EXCEPT ![t] = "return"]
  /\ UNCHANGED <<buffer, files, call, pos, count, got, done>>

-----------------------------------------------------------------------------
\* The call returns to its caller; after a read or a write that succeeded the
\* VFS stores the position back.
Return(t) ==
  /\ pc[t] = "return"
  /\ f_pos' = IF call[t].op # "lseek" /\ call[t].seek /\ ret[t] >= 0
              THEN [f_pos EXCEPT ![call[t].file] = pos[t]] ELSE f_pos
  /\ pc' = [pc EXCEPT ![t] = "idle"]
  /\ call' = [call EXCEPT ![t] = NoCall]
  /\ pos' = [pos EXCEPT ![t] = 0]
  /\ count' = [count EXCEPT ![t] = 0]
  /\ got' = [got EXCEPT ![t] = <<>>]
  /\ done' = [done EXCEPT ![t] = 0]
  /\ ret' = [ret EXCEPT ![t] = 0]
  /\ UNCHANGED <<buffer, f_mode, f_dev>>

Next == \E t \in Thread :
  \/ Open(t)      \/ Release(t)       \/ EnterRead(t) \/ EnterWrite(t)
  \/ Adjust(t)    \/ NoRoom(t)        \/ CopyOut(t)   \/ CopyIn(t)
  \/ CopyFails(t) \/ Copied(t)        \/ EnterSeek(t) \/ BadSeek(t)
  \/ StorePosition(t) \/ ReloadPosition(t) \/ Return(t)

Spec == Init /\ [][Next]_vars

-----------------------------------------------------------------------------
(* Properties. *)

Points == {"idle", "adjust", "copy", "store", "reload", "return"}

Calls == [op : {"none", "read", "write", "lseek"}, file : File \cup {NoFile},
          dev : Minor, at : Nat, len : Nat, data : Seq(Byte), seek : BOOLEAN]

\* Every variable keeps its type; no file position leaves the device, however
\* seeks, reads and writes on one file overtake each other.
TypeOK ==
  /\ buffer \in [Minor -> [Positions -> Byte]]
  /\ f_mode \in [File -> Modes \cup {"closed"}]
  /\ f_dev \in [File -> Minor]
  /\ f_pos \in [File -> 0 .. BUFSIZE]
  /\ pc \in [Thread -> Points]
  /\ call \in [Thread -> Calls]
  /\ pos \in [Thread -> Nat]
  /\ count \in [Thread -> Nat]
  /\ got \in [Thread -> Seq(Byte)]
  /\ done \in [Thread -> Nat]
  /\ ret \in [Thread -> Nat \cup {ENOMEM, EFAULT, EINVAL}]

\* Every byte a user copy touches lies inside the device's buffer: "count always
\* should be validated with max size supported by the implementation".
CopiesInBuffer == \A t \in Thread : pc[t] = "copy" => Fits(t)

\* A device that may only be read never changes, and bytes of a device that may
\* only be written reach nobody, although only open looks at the permission.
PermissionHonoured ==
  [][\A m \in Minor :
       /\ Perm[m] = "RDONLY" => buffer'[m] = buffer[m]
       /\ Perm[m] = "WRONLY" => \A t \in Thread : call[t].dev = m => got'[t] = <<>>]_vars

\* Each device is a byte store: see CharStore.
Busy(t) == call[t].op \in {"read", "write"}
NoRet == BUFSIZE + 1   \* more than any call returns

ReqOf(t) ==
  IF Busy(t) THEN [op |-> call[t].op, dev |-> call[t].dev, at |-> call[t].at,
                   len |-> call[t].len, data |-> call[t].data]
  ELSE NoCall
TodoOf(t) ==
  IF Busy(t) THEN {p \in Positions : call[t].at + done[t] <= p
                                     /\ p < call[t].at + call[t].len}
  ELSE {}
MovedOf(t) ==
  [p \in call[t].at .. call[t].at + Len(got[t]) - 1 |-> got[t][p - call[t].at + 1]]
RetOf(t) == IF Busy(t) /\ pc[t] = "return" THEN ret[t] ELSE NoRet

Requests == [t \in Thread |-> ReqOf(t)]
Todos    == [t \in Thread |-> TodoOf(t)]
Moves    == [t \in Thread |-> MovedOf(t)]
Results  == [t \in Thread |-> RetOf(t)]

Store == INSTANCE CharStore WITH
  NoReq <- NoCall, content <- buffer,
  req <- Requests, todo <- Todos, moved <- Moves, ret <- Results

StoreSpec == Store!Spec
=============================================================================
