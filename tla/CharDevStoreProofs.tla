------------------------- MODULE CharDevStoreProofs -------------------------
(***************************************************************************)
(* CharDev implements CharStore: without a lock, and with lseek storing    *)
(* into the positions that reads and writes work on copies of, each byte   *)
(* of a call is still moved once, from or to the position the call asked   *)
(* for.  To Inv of CharDevProofs the proof adds what ties the progress of  *)
(* a call to its request (Progress): where it started, how far it is to    *)
(* go, and how far it has come.                                            *)
(***************************************************************************)
EXTENDS CharDevProofs

\* A request for len bytes at position at, cut at the end of the device.
Cut(at, len) == IF at + len > BUFSIZE THEN BUFSIZE - at ELSE len

Progress(t) ==
  /\ pos[t] \in 0 .. BUFSIZE
  /\ Busy(t) => call[t].at \in 0 .. BUFSIZE /\ call[t].dev \in Minor
  /\ ~Busy(t) => call[t].at = 0 /\ call[t].op \in {"none", "lseek"}
  /\ Busy(t) => pc[t] \in {"adjust", "copy", "return"}
  /\ pc[t] \in {"adjust", "copy"} => pos[t] = call[t].at
  /\ pc[t] = "adjust" => count[t] = call[t].len
  /\ pc[t] = "copy" => count[t] = Cut(call[t].at, call[t].len)
  /\ pc[t] = "copy" /\ call[t].op = "write" => count[t] > 0
  /\ call[t].op = "read" => Len(got[t]) = done[t]
  /\ ret[t] <= BUFSIZE

SInv == Inv /\ \A t \in Thread : Progress(t)

-----------------------------------------------------------------------------
(* Progress is invariant. *)

LEMMA CutFacts ==
  ASSUME NEW at \in 0 .. BUFSIZE, NEW len \in Nat
  PROVE  /\ Cut(at, len) \in Nat /\ Cut(at, len) <= len
         /\ at + Cut(at, len) <= BUFSIZE
         /\ \A p \in Positions : p < at + len <=> p < at + Cut(at, len)
  BY ConstantFacts DEF Cut, Positions

\* From a position on the device, what the code adjusts the count to is the cut.
LEMMA AdjustedIsCut ==
  ASSUME TypeOK, NEW t \in Thread, pos[t] \in 0 .. BUFSIZE
  PROVE  Adjusted(t) = Cut(pos[t], count[t])
  BY ConstantFacts DEF TypeOK, Adjusted, Left, Cut

\* A step of thread t leaves the results of the other threads alone.
LEMMA OthersResult ==
  ASSUME TypeOK, NEW t \in Thread, Act(t), NEW u \in Thread \ {t}
  PROVE  ret'[u] = ret[u]
<1> USE DEF files, locals, TypeOK
<1>1. CASE Open(t) \/ Release(t) \/ StorePosition(t) \/ ReloadPosition(t)
  BY <1>1 DEF Open, Release, StorePosition, ReloadPosition
<1>2. CASE EnterRead(t) \/ EnterWrite(t)
  BY <1>2 DEF EnterRead, EnterWrite, Enter
<1>3. CASE Adjust(t) \/ NoRoom(t) \/ CopyOut(t) \/ CopyIn(t)
  BY <1>3 DEF Adjust, NoRoom, CopyOut, CopyIn
<1>4. CASE CopyFails(t) \/ Copied(t) \/ Return(t)
  BY <1>4 DEF CopyFails, Copied, Return
<1>5. CASE EnterSeek(t) \/ BadSeek(t)
  BY <1>5 DEF EnterSeek, BadSeek
<1> QED BY <1>1, <1>2, <1>3, <1>4, <1>5 DEF Act

\* What thread t knows of the request it is in survives its own steps.
LEMMA ProgressOwn ==
  ASSUME Offsets \subseteq 0 .. BUFSIZE, SInv, NEW t \in Thread, Act(t)
  PROVE  Progress(t)'
<1> USE DEF files, locals
<1>0. /\ TypeOK /\ CallOK(t) /\ Progress(t) /\ BUFSIZE \in Nat /\ call[t] \in Calls
      /\ pos[t] \in Nat /\ count[t] \in Nat /\ done[t] \in Nat
  BY ConstantFacts DEF SInv, Inv, TypeOK
<1>1. CASE Open(t) \/ Release(t) \/ StorePosition(t)
  BY <1>0, <1>1 DEF Progress, Busy, Open, Release, StorePosition, TypeOK
<1>2. ASSUME NEW f \in File, NEW op \in {"read", "write"}, NEW len \in Counts, NEW data,
             NEW at \in (0 .. BUFSIZE) \cup Offsets, NEW seek \in BOOLEAN,
             Enter(t, f, op, at, len, data, seek)
      PROVE  Progress(t)'
  <2>1. /\ call'[t].op = op /\ call'[t].at = at /\ call'[t].len = len
        /\ call'[t].dev = f_dev[f] /\ f_dev[f] \in Minor
        /\ pos'[t] = at /\ count'[t] = len /\ pc'[t] = "adjust"
        /\ got'[t] = got[t] /\ done'[t] = done[t] /\ ret'[t] = ret[t] /\ pc[t] = "idle"
    BY <1>0, <1>2 DEF Enter, TypeOK
  <2>2. got[t] = <<>> /\ done[t] = 0
    BY <1>0, <2>1 DEF CallOK
  <2>3. at \in 0 .. BUFSIZE /\ Len(<<>>) = 0
    BY <1>2
  <2> QED BY <1>0, <2>1, <2>2, <2>3 DEF Progress, Busy
<1>3. CASE EnterRead(t)
  <2>1. PICK f \in File, len \in Counts, at \in Nat, seek \in BOOLEAN :
          /\ at \in (0 .. BUFSIZE) \cup Offsets
          /\ Enter(t, f, "read", at, len, <<>>, seek)
    BY <1>0, <1>3, EnterReadCases
  <2> QED BY <1>2, <2>1
<1>4. CASE EnterWrite(t)
  <2>1. PICK f \in File, len \in Counts, data \in Seq(Byte), at \in Nat, seek \in BOOLEAN :
          /\ at \in (0 .. BUFSIZE) \cup Offsets
          /\ Enter(t, f, "write", at, len, data, seek)
    BY <1>0, <1>4, EnterWriteCases
  <2> QED BY <1>2, <2>1
<1>5. CASE Adjust(t) \/ NoRoom(t)
  <2>1. Adjusted(t) = Cut(call[t].at, call[t].len) /\ Adjusted(t) \in Nat
    BY <1>0, <1>5, AdjustedIsCut, AdjustedFacts DEF Adjust, NoRoom, Progress
  <2>2. CASE Adjust(t)
    <3>1. call[t].op \in {"read", "write"}
      BY <1>0, <2>2 DEF Adjust, CallOK
    <3> QED BY <1>0, <2>1, <2>2, <3>1 DEF Progress, Busy, Adjust, TypeOK
  <2>3. CASE NoRoom(t)
    BY <1>0, <2>3 DEF Progress, Busy, NoRoom, TypeOK, ENOMEM
  <2> QED BY <1>5, <2>2, <2>3
<1>6. CASE CopyOut(t)
  <2>1. Len(got'[t]) = Len(got[t]) + 1 /\ done'[t] = done[t] + 1
    BY <1>0, <1>6 DEF CopyOut, TypeOK
  <2> QED BY <1>0, <1>6, <2>1 DEF Progress, Busy, CopyOut, TypeOK
<1>7. CASE CopyIn(t) \/ CopyFails(t)
  <2>1. CASE CopyIn(t)
    BY <1>0, <2>1 DEF Progress, Busy, CopyIn, TypeOK
  <2>2. CASE CopyFails(t)
    BY <1>0, <2>2 DEF Progress, Busy, CopyFails, TypeOK, EFAULT
  <2> QED BY <1>7, <2>1, <2>2
<1>8. CASE Copied(t)
  <2>1. pos[t] + count[t] \in 0 .. BUFSIZE /\ count[t] <= BUFSIZE
    BY <1>0, <1>8 DEF Copied, Fits
  <2> QED BY <1>0, <1>8, <2>1 DEF Progress, Busy, Copied, TypeOK
<1>9. CASE EnterSeek(t) \/ BadSeek(t)
  <2>1. PICK f \in File : call' = [call EXCEPT ![t] =
          [NoCall EXCEPT !.op = "lseek", !.file = f, !.dev = f_dev[f]]]
    BY <1>9 DEF EnterSeek, BadSeek
  <2>2. call'[t].op = "lseek" /\ call'[t].at = 0
    BY <1>0, <2>1 DEF NoCall, TypeOK
  <2>3. pc'[t] \in {"store", "return"} /\ pos'[t] \in 0 .. BUFSIZE
    BY <1>0, <1>9 DEF EnterSeek, BadSeek, TypeOK, Progress
  <2>4. ret'[t] <= BUFSIZE
    <3>1. CASE EnterSeek(t)
      BY <1>0, <3>1 DEF EnterSeek, Progress
    <3>2. CASE BadSeek(t)
      BY <1>0, <3>2 DEF BadSeek, TypeOK, EINVAL
    <3> QED BY <1>9, <3>1, <3>2
  <2> QED BY <2>2, <2>3, <2>4 DEF Progress, Busy
<1>10. CASE ReloadPosition(t)
  <2>1. f_pos[call[t].file] \in 0 .. BUFSIZE
    BY <1>0, <1>10 DEF ReloadPosition, CallOK, TypeOK
  <2>2. call[t].op = "lseek"
    BY <1>0, <1>10 DEF ReloadPosition, CallOK
  <2> QED BY <1>0, <1>10, <2>1, <2>2 DEF Progress, Busy, ReloadPosition, TypeOK
<1>11. CASE Return(t)
  <2>1. /\ call'[t].op = "none" /\ call'[t].at = 0 /\ pc'[t] = "idle" /\ pos'[t] = 0
        /\ ret'[t] = 0
    BY <1>0, <1>11 DEF Return, TypeOK, NoCall
  <2> QED BY <1>0, <2>1 DEF Progress, Busy
<1> QED BY <1>1, <1>3, <1>4, <1>5, <1>6, <1>7, <1>8, <1>9, <1>10, <1>11 DEF Act

LEMMA ProgressStep ==
  ASSUME Offsets \subseteq 0 .. BUFSIZE, SInv, [Next]_vars
  PROVE  SInv'
<1>0. Inv /\ TypeOK /\ \A t \in Thread : Progress(t)
  BY DEF SInv, Inv
<1>1. Inv'
  BY <1>0, TypeStep, CallStep, PermitStep DEF Inv
<1>2. CASE UNCHANGED vars
  <2>1. \A t \in Thread : Progress(t)'
    BY <1>0, <1>2 DEF vars, locals, Progress, Busy
  <2> QED BY <1>1, <2>1 DEF SInv
<1>3. ASSUME NEW t \in Thread, Act(t), NEW u \in Thread PROVE Progress(u)'
  <2>1. CASE u = t
    BY <1>3, <2>1, ProgressOwn
  <2>2. CASE u # t
    <3>1. ret'[u] = ret[u]
      BY <1>0, <1>3, <2>2, OthersResult
    <3> QED BY <1>0, <1>3, <2>2, <3>1, OthersRest DEF Others, Progress, Busy
  <2> QED BY <2>1, <2>2
<1> QED BY <1>1, <1>2, <1>3 DEF Next, Act, SInv

LEMMA SInvInit == Init => SInv
<1> SUFFICES ASSUME Init PROVE SInv
  OBVIOUS
<1>1. \A t \in Thread : call[t] = NoCall /\ pc[t] = "idle" /\ pos[t] = 0 /\ ret[t] = 0
  BY DEF Init
<1>2. NoCall.op = "none" /\ NoCall.at = 0
  BY DEF NoCall
<1> QED BY <1>1, <1>2, InvInit, ConstantFacts DEF SInv, Progress, Busy

-----------------------------------------------------------------------------
(* The steps of CharStore. *)

\* A step of thread t changes what CharStore sees of t, and of no other thread.
LEMMA SeenOfOthers ==
  ASSUME SInv, NEW t \in Thread, Act(t)
  PROVE  /\ Requests' = [Requests EXCEPT ![t] = ReqOf(t)']
         /\ Todos' = [Todos EXCEPT ![t] = TodoOf(t)']
         /\ Moves' = [Moves EXCEPT ![t] = MovedOf(t)']
         /\ Results' = [Results EXCEPT ![t] = RetOf(t)']
<1>1. ASSUME NEW u \in Thread \ {t}
      PROVE  /\ ReqOf(u)' = ReqOf(u) /\ TodoOf(u)' = TodoOf(u)
             /\ MovedOf(u)' = MovedOf(u) /\ RetOf(u)' = RetOf(u)
  <2>1. ret'[u] = ret[u]
    BY <1>1, OthersResult DEF SInv, Inv
  <2>2. /\ pc'[u] = pc[u] /\ call'[u] = call[u] /\ done'[u] = done[u] /\ got'[u] = got[u]
    BY <1>1, OthersRest DEF SInv, Inv, Others
  <2> QED BY <2>1, <2>2 DEF ReqOf, TodoOf, MovedOf, RetOf, Busy
<1> QED BY <1>1 DEF Requests, Todos, Moves, Results

\* A step that changes neither a buffer nor what is seen of its thread stutters.
LEMMA Stutters ==
  ASSUME SInv, NEW t \in Thread, Act(t), buffer' = buffer,
         ReqOf(t)' = ReqOf(t), TodoOf(t)' = TodoOf(t),
         MovedOf(t)' = MovedOf(t), RetOf(t)' = RetOf(t)
  PROVE  UNCHANGED Store!vars
  BY SeenOfOthers DEF Store!vars, Requests, Todos, Moves, Results

\* Before the first byte and after the last call, nothing has been moved.
LEMMA NothingMoved ==
  ASSUME NEW at \in Nat, NEW s, Len(s) = 0
  PROVE  [p \in at .. at + Len(s) - 1 |-> s[p - at + 1]] = Store!Nothing
<1>1. at .. at + Len(s) - 1 = {}
  OBVIOUS
<1> QED BY <1>1 DEF Store!Nothing

\* Entering a read or a write is the invocation of a request.
LEMMA InvokeStep ==
  ASSUME SInv, SInv', NEW t \in Thread, Act(t), NEW f \in File, NEW op \in {"read", "write"},
         NEW len \in Counts, NEW data \in IF op = "write" THEN [1 .. len -> Byte] ELSE {<<>>},
         NEW at \in 0 .. BUFSIZE, NEW seek \in BOOLEAN, Enter(t, f, op, at, len, data, seek)
  PROVE  Store!Invoke(t)
<1>0. /\ pc[t] = "idle" /\ call[t].op = "none" /\ call[t].at = 0 /\ got[t] = <<>>
      /\ done[t] = 0 /\ f_dev[f] \in Minor /\ len \in Nat /\ at \in Nat
  <2>1. pc[t] = "idle" /\ TypeOK /\ CallOK(t) /\ Progress(t)
    BY DEF SInv, Inv, Enter
  <2>2. call[t].op = "none" /\ call[t].at = 0 /\ got[t] = <<>> /\ done[t] = 0
    BY <2>1 DEF CallOK, Progress, Busy
  <2> QED BY <2>1, <2>2, ConstantFacts DEF TypeOK
<1>1. /\ call'[t].op = op /\ call'[t].dev = f_dev[f] /\ call'[t].at = at
      /\ call'[t].len = len /\ call'[t].data = data
      /\ pc'[t] = "adjust" /\ got'[t] = got[t] /\ done'[t] = 0 /\ buffer' = buffer
  BY <1>0 DEF SInv, Inv, TypeOK, Enter
<1>2. ReqOf(t) = NoCall
  BY <1>0 DEF ReqOf, Busy
<1>3. ReqOf(t)' = [op |-> op, dev |-> f_dev[f], at |-> at, len |-> len, data |-> data]
  BY <1>1 DEF ReqOf, Busy
<1>4. TodoOf(t)' = Store!Covered(at, len)
  BY <1>0, <1>1 DEF TodoOf, Busy, Store!Covered, Store!Positions, Positions
<1>5. MovedOf(t)' = MovedOf(t)
  <2>1. Len(<<>>) = 0 /\ 0 \in Nat
    OBVIOUS
  <2>2. MovedOf(t) = Store!Nothing
    BY <1>0, <2>1, NothingMoved DEF MovedOf
  <2>3. MovedOf(t)' = Store!Nothing
    BY <1>0, <1>1, <2>1, NothingMoved DEF MovedOf
  <2> QED BY <2>2, <2>3
<1>6. RetOf(t)' = RetOf(t)
  BY <1>0, <1>1 DEF RetOf, Busy
<1>7. /\ f_dev[f] \in Minor
      /\ Requests' = [Requests EXCEPT ![t] =
           [op |-> op, dev |-> f_dev[f], at |-> at, len |-> len, data |-> data]]
      /\ Todos' = [Todos EXCEPT ![t] = Store!Covered(at, len)]
  BY <1>0, <1>3, <1>4, SeenOfOthers
<1>8. Requests[t] = NoCall /\ Moves' = Moves /\ Results' = Results
  BY <1>2, <1>5, <1>6, SeenOfOthers DEF Requests, Moves, Results
<1> QED BY <1>1, <1>7, <1>8 DEF Store!Invoke

\* From the entry to the copy of the last byte a request is pending.
LEMMA PendingFacts ==
  ASSUME SInv, NEW t \in Thread, pc[t] \in {"adjust", "copy"}
  PROVE  /\ Busy(t) /\ call[t].dev \in Minor /\ call[t].at \in 0 .. BUFSIZE
         /\ call[t].len \in Nat
         /\ Requests[t].op = call[t].op /\ Requests[t].dev = call[t].dev
         /\ Requests[t].at = call[t].at /\ Requests[t].len = call[t].len
         /\ Requests[t].data = call[t].data
         /\ Requests[t] # NoCall /\ Results[t] = NoRet
<1>1. CallOK(t) /\ Progress(t) /\ call[t] \in Calls
  BY DEF SInv, Inv, TypeOK
<1>2. Busy(t)
  BY <1>1 DEF CallOK, Busy
<1>3. Requests[t] = [op |-> call[t].op, dev |-> call[t].dev, at |-> call[t].at,
                     len |-> call[t].len, data |-> call[t].data]
  BY <1>2 DEF Requests, ReqOf
<1>4. Requests[t].op # NoCall.op
  BY <1>2, <1>3, ConstantFacts DEF Busy
<1>5. Results[t] = NoRet
  BY DEF Results, RetOf
<1> QED BY <1>1, <1>2, <1>3, <1>4, <1>5 DEF Progress, Calls

\* While bytes are copied, those still to be moved are the rest of the range.
LEMMA CopyFacts ==
  ASSUME SInv, NEW t \in Thread, pc[t] = "copy"
  PROVE  /\ pos[t] = call[t].at /\ Fits(t)
         /\ pos[t] \in Nat /\ done[t] \in Nat /\ count[t] \in Nat
         /\ done[t] <= count[t] /\ count[t] <= BUFSIZE /\ count[t] <= call[t].len
         /\ TodoOf(t) = pos[t] + done[t] .. pos[t] + count[t] - 1
         /\ Store!Covered(call[t].at, call[t].len) = pos[t] .. pos[t] + count[t] - 1
<1>1. TypeOK /\ CallOK(t) /\ Progress(t)
  BY DEF SInv, Inv
<1>2. Busy(t) /\ call[t].at \in 0 .. BUFSIZE /\ call[t].len \in Nat
  BY PendingFacts
<1>3. /\ pos[t] = call[t].at /\ pos[t] \in 0 .. BUFSIZE /\ BUFSIZE \in Nat
      /\ done[t] \in Nat /\ count[t] \in Nat /\ done[t] <= count[t]
      /\ count[t] = Cut(call[t].at, call[t].len)
  BY <1>1, ConstantFacts DEF TypeOK, CallOK, Progress
<1>4. /\ pos[t] + count[t] <= BUFSIZE /\ count[t] <= call[t].len
      /\ \A p \in Positions : p < call[t].at + call[t].len <=> p < pos[t] + count[t]
  BY <1>2, <1>3, CutFacts
<1>5. TodoOf(t) = pos[t] + done[t] .. pos[t] + count[t] - 1
  <2>1. TodoOf(t) = {p \in Positions : pos[t] + done[t] <= p /\ p < pos[t] + count[t]}
    BY <1>2, <1>3, <1>4 DEF TodoOf
  <2> QED BY <1>3, <1>4, <2>1 DEF Positions
<1>6. Store!Covered(call[t].at, call[t].len) = pos[t] .. pos[t] + count[t] - 1
  <2>1. Store!Covered(call[t].at, call[t].len)
          = {p \in Positions : pos[t] <= p /\ p < pos[t] + count[t]}
    BY <1>3, <1>4 DEF Store!Covered, Store!Positions, Positions
  <2> QED BY <1>3, <1>4, <2>1 DEF Positions
<1> QED BY <1>3, <1>4, <1>5, <1>6 DEF Fits

\* Copying one more byte leaves the rest of them to be moved.
LEMMA CopyShrinks ==
  ASSUME SInv, NEW t \in Thread, pc[t] = "copy", call'[t] = call[t], done'[t] = done[t] + 1
  PROVE  TodoOf(t)' = TodoOf(t) \ {pos[t] + done[t]}
<1> DEFINE p == pos[t] + done[t]
<1>1. Busy(t) /\ call[t].at \in Nat /\ call[t].len \in Nat /\ BUFSIZE \in Nat
  BY PendingFacts, ConstantFacts
<1>2. pos[t] = call[t].at /\ done[t] \in Nat
  BY CopyFacts
<1>3. TodoOf(t) = {q \in Positions : p <= q /\ q < call[t].at + call[t].len}
  BY <1>1, <1>2 DEF TodoOf
<1>4. TodoOf(t)' = {q \in Positions : call[t].at + (done[t] + 1) <= q
                                     /\ q < call[t].at + call[t].len}
  BY <1>1 DEF TodoOf, Busy
<1>5. \A q \in Positions : call[t].at + (done[t] + 1) <= q <=> p <= q /\ q # p
  BY <1>1, <1>2 DEF Positions
<1> QED BY <1>3, <1>4, <1>5

\* Cutting the count moves nothing.
LEMMA AdjustStutters ==
  ASSUME SInv, NEW t \in Thread, Act(t), Adjust(t)
  PROVE  UNCHANGED Store!vars
<1>1. /\ pc[t] = "adjust" /\ pc'[t] = "copy" /\ buffer' = buffer
      /\ UNCHANGED <<call, done, got>>
  BY DEF SInv, Inv, TypeOK, Adjust
<1> QED BY <1>1, Stutters DEF ReqOf, TodoOf, MovedOf, RetOf, Busy

\* A write of which no byte fits completes with -ENOMEM.
LEMMA NoRoomCompletes ==
  ASSUME SInv, NEW t \in Thread, Act(t), NoRoom(t)
  PROVE  Store!Complete(t)
<1>0. TypeOK /\ CallOK(t) /\ Progress(t) /\ BUFSIZE \in Nat
  BY ConstantFacts DEF SInv, Inv
<1>1. /\ pc[t] = "adjust" /\ pc'[t] = "return" /\ buffer' = buffer /\ call[t].op = "write"
      /\ UNCHANGED <<call, done, got>> /\ ret'[t] = -12
  BY <1>0 DEF TypeOK, NoRoom, ENOMEM
<1>2. /\ Store!Pending(t, "write") /\ Requests[t].op = "write"
      /\ Requests[t].at = call[t].at /\ Requests[t].len = call[t].len
      /\ call[t].at \in 0 .. BUFSIZE /\ call[t].len \in Nat /\ Busy(t)
  BY <1>1, PendingFacts DEF Store!Pending
<1>3. Cut(call[t].at, call[t].len) = 0
  BY <1>0, <1>1, AdjustedIsCut DEF NoRoom, Progress
<1>4. \A p \in Positions : call[t].at <= p => ~(p < call[t].at + call[t].len)
  BY <1>2, <1>3, CutFacts DEF Positions
<1>5. Todos[t] = {}
  BY <1>0, <1>1, <1>2, <1>4 DEF Todos, TodoOf, CallOK
<1>6. Store!Covered(call[t].at, call[t].len) = call[t].at .. call[t].at + 0 - 1
  <2>1. Store!Covered(call[t].at, call[t].len) = {}
    BY <1>4 DEF Store!Covered, Store!Positions, Positions
  <2>2. call[t].at .. call[t].at + 0 - 1 = {}
    BY <1>2
  <2> QED BY <2>1, <2>2
<1>7. /\ ReqOf(t)' = ReqOf(t) /\ TodoOf(t)' = TodoOf(t) /\ MovedOf(t)' = MovedOf(t)
      /\ RetOf(t)' = -12
  BY <1>1, <1>2 DEF ReqOf, TodoOf, MovedOf, RetOf, Busy
<1>8. /\ Requests' = Requests /\ Todos' = Todos /\ Moves' = Moves
      /\ Results' = [Results EXCEPT ![t] = -12]
  BY <1>7, SeenOfOthers DEF Requests, Todos, Moves
<1>9. 0 \in 0 .. BUFSIZE
  BY <1>0
<1> QED BY <1>1, <1>2, <1>5, <1>6, <1>8, <1>9 DEF Store!Complete

\* A read or a write whose last byte is copied completes with their number.
LEMMA CopiedCompletes ==
  ASSUME SInv, NEW t \in Thread, Act(t), Copied(t)
  PROVE  Store!Complete(t)
<1>0. TypeOK /\ Progress(t) /\ BUFSIZE \in Nat
  BY ConstantFacts DEF SInv, Inv
<1>1. /\ pc[t] = "copy" /\ pc'[t] = "return" /\ buffer' = buffer /\ done[t] = count[t]
      /\ UNCHANGED <<call, done, got>> /\ ret'[t] = count[t]
  BY <1>0 DEF TypeOK, Copied
<1>2. /\ Store!Pending(t, "read") \/ Store!Pending(t, "write")
      /\ Requests[t].op = call[t].op
      /\ Requests[t].at = call[t].at /\ Requests[t].len = call[t].len /\ Busy(t)
  BY <1>1, PendingFacts DEF Busy, Store!Pending
<1>3. /\ pos[t] = call[t].at /\ TodoOf(t) = pos[t] + done[t] .. pos[t] + count[t] - 1
      /\ Store!Covered(call[t].at, call[t].len) = pos[t] .. pos[t] + count[t] - 1
      /\ count[t] \in 0 .. BUFSIZE /\ pos[t] \in Nat
  BY <1>0, <1>1, CopyFacts
<1>4. Todos[t] = {}
  BY <1>1, <1>3 DEF Todos
<1>5. call[t].op = "write" => count[t] # 0
  BY <1>0, <1>1 DEF Progress
<1>6. /\ ReqOf(t)' = ReqOf(t) /\ TodoOf(t)' = TodoOf(t) /\ MovedOf(t)' = MovedOf(t)
      /\ RetOf(t)' = count[t]
  BY <1>1, <1>2 DEF ReqOf, TodoOf, MovedOf, RetOf, Busy
<1>7. /\ Requests' = Requests /\ Todos' = Todos /\ Moves' = Moves
      /\ Results' = [Results EXCEPT ![t] = count[t]]
  BY <1>6, SeenOfOthers DEF Requests, Todos, Moves
<1> QED BY <1>1, <1>2, <1>3, <1>4, <1>5, <1>7 DEF Store!Complete

\* The positions of n bytes from position a on, with one more byte.
LEMMA OneMore ==
  ASSUME NEW a \in Nat, NEW n \in Nat
  PROVE  /\ (a .. a + n - 1) \cup {a + n} = a .. a + (n + 1) - 1
         /\ \A q \in a .. a + (n + 1) - 1 :
              q # a + n => q \in a .. a + n - 1 /\ q - a + 1 \in 1 .. n
  OBVIOUS

\* copy_to_user gives the caller the next byte of the device.
LEMMA CopyOutReads ==
  ASSUME SInv, NEW t \in Thread, Act(t), CopyOut(t)
  PROVE  Store!ReadSome(t)
<1> DEFINE p == pos[t] + done[t]
           b == buffer[call[t].dev][p]
<1>0. TypeOK /\ Progress(t) /\ got[t] \in Seq(Byte) /\ buffer \in [Minor -> [Positions -> Byte]]
  BY DEF SInv, Inv, TypeOK
<1>1. /\ pc[t] = "copy" /\ call[t].op = "read" /\ done[t] < count[t]
      /\ UNCHANGED <<pc, call, ret, buffer>>
      /\ got'[t] = Append(got[t], b) /\ done'[t] = done[t] + 1
  BY <1>0 DEF TypeOK, CopyOut
<1>2. /\ Store!Pending(t, "read") /\ Requests[t].dev = call[t].dev /\ Busy(t)
      /\ call[t].dev \in Minor /\ call[t].at \in Nat /\ call[t].len \in Nat
  BY <1>1, PendingFacts, ConstantFacts DEF Store!Pending
<1>3. /\ pos[t] = call[t].at /\ pos[t] \in Nat /\ done[t] \in Nat /\ count[t] \in Nat
      /\ TodoOf(t) = p .. pos[t] + count[t] - 1 /\ count[t] <= call[t].len
      /\ pos[t] + count[t] <= BUFSIZE
  BY <1>1, CopyFacts DEF Fits
<1>4. p \in TodoOf(t) /\ p \in Positions /\ b \in Byte
  <2>1. p \in TodoOf(t) /\ p \in Positions
    BY <1>1, <1>3, ConstantFacts DEF Positions
  <2> QED BY <1>0, <1>2, <2>1
<1>5. TodoOf(t)' = TodoOf(t) \ {p}
  BY <1>1, <1>2, <1>3, CopyShrinks
<1>6. MovedOf(t)' = [q \in DOMAIN MovedOf(t) \cup {p} |->
                       IF q \in {p} THEN buffer[Requests[t].dev][q] ELSE MovedOf(t)[q]]
  <2>1. /\ Len(got[t]) = done[t] /\ Len(got'[t]) = done[t] + 1
        /\ \A k \in 1 .. done[t] : got'[t][k] = got[t][k]
        /\ got'[t][done[t] + 1] = b
    <3> HIDE DEF b
    <3> QED BY <1>0, <1>1, <1>3, <1>4 DEF Progress
  <2>2. DOMAIN MovedOf(t) \cup {p} = call[t].at .. call[t].at + Len(got'[t]) - 1
    <3>1. DOMAIN MovedOf(t) = call[t].at .. call[t].at + done[t] - 1
      BY <2>1 DEF MovedOf
    <3> QED BY <1>2, <1>3, <2>1, <3>1, OneMore
  <2>3. ASSUME NEW q \in call[t].at .. call[t].at + Len(got'[t]) - 1
        PROVE  got'[t][q - call[t].at + 1]
                 = IF q \in {p} THEN buffer[Requests[t].dev][q] ELSE MovedOf(t)[q]
    <3>1. CASE q = p
      BY <1>2, <1>3, <2>1, <3>1
    <3>2. CASE q # p
      <4>1. q \in call[t].at .. call[t].at + Len(got[t]) - 1 /\ q - call[t].at + 1 \in 1 .. done[t]
        <5>1. q \in call[t].at .. call[t].at + (done[t] + 1) - 1 /\ q # call[t].at + done[t]
          BY <1>3, <2>1, <2>3, <3>2
        <5> QED BY <1>2, <1>3, <2>1, <5>1, OneMore
      <4> QED BY <2>1, <3>2, <4>1 DEF MovedOf
    <3> QED BY <3>1, <3>2
  <2>4. MovedOf(t)' = [q \in call[t].at .. call[t].at + Len(got'[t]) - 1 |->
                         got'[t][q - call[t].at + 1]]
    BY <1>1 DEF MovedOf
  <2> QED BY <2>2, <2>3, <2>4
<1>7. ReqOf(t)' = ReqOf(t) /\ RetOf(t)' = RetOf(t)
  BY <1>1 DEF ReqOf, RetOf, Busy
<1>8. /\ Requests' = Requests /\ Results' = Results /\ Todos[t] = TodoOf(t)
      /\ Moves[t] = MovedOf(t)
      /\ Todos' = [Todos EXCEPT ![t] = Todos[t] \ {p}]
      /\ Moves' = [Moves EXCEPT ![t] = [q \in DOMAIN Moves[t] \cup {p} |->
                     IF q \in {p} THEN buffer[Requests[t].dev][q] ELSE Moves[t][q]]]
  BY <1>5, <1>6, <1>7, SeenOfOthers DEF Requests, Results, Todos, Moves
<1>9. {p} \in SUBSET Todos[t]
  BY <1>4, <1>8
<1> QED BY <1>1, <1>2, <1>8, <1>9 DEF Store!ReadSome

\* copy_from_user stores the caller's next byte.
LEMMA CopyInWrites ==
  ASSUME SInv, NEW t \in Thread, Act(t), CopyIn(t)
  PROVE  Store!WriteSome(t)
<1> DEFINE p == pos[t] + done[t]
<1>0. TypeOK /\ buffer \in [Minor -> [Positions -> Byte]]
  BY DEF SInv, Inv, TypeOK
<1>1. /\ pc[t] = "copy" /\ call[t].op = "write" /\ done[t] < count[t]
      /\ UNCHANGED <<pc, call, ret, got>> /\ done'[t] = done[t] + 1
      /\ buffer' = [buffer EXCEPT ![call[t].dev][p] = call[t].data[done[t] + 1]]
  BY <1>0 DEF TypeOK, CopyIn
<1>2. /\ Store!Pending(t, "write") /\ Busy(t) /\ Requests[t].dev = call[t].dev
      /\ Requests[t].data = call[t].data /\ Requests[t].at = call[t].at
      /\ call[t].dev \in Minor /\ call[t].at \in Nat /\ call[t].len \in Nat
  BY <1>1, PendingFacts, ConstantFacts DEF Store!Pending
<1>3. /\ pos[t] = call[t].at /\ pos[t] \in Nat /\ done[t] \in Nat /\ count[t] \in Nat
      /\ TodoOf(t) = p .. pos[t] + count[t] - 1 /\ count[t] <= call[t].len
      /\ pos[t] + count[t] <= BUFSIZE
  BY <1>1, CopyFacts DEF Fits
<1>4. p \in TodoOf(t) /\ p \in Positions /\ p - call[t].at + 1 = done[t] + 1
  BY <1>1, <1>3, ConstantFacts DEF Positions
<1>5. TodoOf(t)' = TodoOf(t) \ {p}
  BY <1>1, <1>2, <1>3, CopyShrinks
<1>6. ReqOf(t)' = ReqOf(t) /\ RetOf(t)' = RetOf(t) /\ MovedOf(t)' = MovedOf(t)
  BY <1>1 DEF ReqOf, RetOf, MovedOf, Busy
<1>7. /\ Requests' = Requests /\ Results' = Results /\ Moves' = Moves
      /\ Todos[t] = TodoOf(t) /\ Todos' = [Todos EXCEPT ![t] = Todos[t] \ {p}]
  BY <1>5, <1>6, SeenOfOthers DEF Requests, Results, Todos, Moves
<1>8. buffer' = [buffer EXCEPT ![Requests[t].dev] = [q \in Store!Positions |->
         IF q \in {p} THEN Requests[t].data[q - Requests[t].at + 1]
         ELSE buffer[Requests[t].dev][q]]]
  <2>1. [buffer[call[t].dev] EXCEPT ![p] = call[t].data[done[t] + 1]]
          = [q \in Positions |-> IF q \in {p} THEN call[t].data[q - call[t].at + 1]
                                 ELSE buffer[call[t].dev][q]]
    BY <1>0, <1>2, <1>4
  <2> QED BY <1>0, <1>1, <1>2, <2>1 DEF Store!Positions, Positions
<1>9. {p} \in SUBSET Todos[t]
  BY <1>4, <1>7
<1> QED BY <1>2, <1>7, <1>8, <1>9 DEF Store!WriteSome

\* A copy that stops short is a fault with bytes left; a write's become zero.
LEMMA CopyFailsFaults ==
  ASSUME SInv, NEW t \in Thread, Act(t), CopyFails(t)
  PROVE  Store!Fault(t)
<1>0. TypeOK
  BY DEF SInv, Inv
<1>1. /\ pc[t] = "copy" /\ pc'[t] = "return" /\ ret'[t] = -14 /\ done[t] < count[t]
      /\ UNCHANGED <<call, got, done>>
      /\ buffer' = IF call[t].op = "read" THEN buffer
                   ELSE [buffer EXCEPT ![call[t].dev] = [p \in Positions |->
                     IF p \in pos[t] + done[t] .. pos[t] + count[t] - 1 THEN Zero ELSE @[p]]]
  BY <1>0 DEF TypeOK, CopyFails, EFAULT
<1>2. /\ Store!Pending(t, "read") \/ Store!Pending(t, "write")
      /\ Requests[t].op = call[t].op /\ Requests[t].dev = call[t].dev /\ Busy(t)
  BY <1>1, PendingFacts DEF Busy, Store!Pending
<1>3. TodoOf(t) = pos[t] + done[t] .. pos[t] + count[t] - 1 /\ TodoOf(t) # {}
  <2>1. /\ done[t] \in Nat /\ count[t] \in Nat /\ pos[t] \in Nat /\ done[t] < count[t]
        /\ TodoOf(t) = pos[t] + done[t] .. pos[t] + count[t] - 1
    BY <1>1, CopyFacts
  <2>2. pos[t] + done[t] \in pos[t] + done[t] .. pos[t] + count[t] - 1
    BY <2>1
  <2> QED BY <2>1, <2>2
<1>4. /\ ReqOf(t)' = ReqOf(t) /\ TodoOf(t)' = TodoOf(t) /\ MovedOf(t)' = MovedOf(t)
      /\ RetOf(t)' = -14
  BY <1>1, <1>2 DEF ReqOf, TodoOf, MovedOf, RetOf, Busy
<1>5. /\ Requests' = Requests /\ Todos' = Todos /\ Moves' = Moves
      /\ Todos[t] = TodoOf(t) /\ Results' = [Results EXCEPT ![t] = -14]
  BY <1>4, SeenOfOthers DEF Requests, Todos, Moves
<1>6. buffer' = IF Requests[t].op = "read" THEN buffer
                ELSE [buffer EXCEPT ![Requests[t].dev] = [p \in Store!Positions |->
                        IF p \in Todos[t] THEN Zero ELSE @[p]]]
  BY <1>1, <1>2, <1>3, <1>5 DEF Store!Positions, Positions
<1> QED BY <1>2, <1>3, <1>5, <1>6 DEF Store!Fault

\* lseek is in no request: whatever it does, nothing of CharStore moves.
LEMMA SeekStutters ==
  ASSUME SInv, SInv', NEW t \in Thread, Act(t),
         EnterSeek(t) \/ BadSeek(t) \/ StorePosition(t) \/ ReloadPosition(t)
  PROVE  UNCHANGED Store!vars
<1>0. TypeOK /\ CallOK(t) /\ Progress(t) /\ Progress(t)'
  BY DEF SInv, Inv
<1>1. buffer' = buffer /\ UNCHANGED <<got, done>>
  BY DEF EnterSeek, BadSeek, StorePosition, ReloadPosition, locals, files
<1>2. ~Busy(t) /\ ~Busy(t)'
  <2>1. CASE EnterSeek(t) \/ BadSeek(t)
    <3>1. PICK f \in File : call' = [call EXCEPT ![t] =
            [NoCall EXCEPT !.op = "lseek", !.file = f, !.dev = f_dev[f]]]
      BY <2>1 DEF EnterSeek, BadSeek
    <3>2. call'[t].op = "lseek"
      BY <1>0, <3>1 DEF NoCall, TypeOK
    <3>3. pc[t] = "idle"
      BY <2>1 DEF EnterSeek, BadSeek
    <3> QED BY <1>0, <3>2, <3>3 DEF Progress, Busy
  <2>2. CASE StorePosition(t) \/ ReloadPosition(t)
    BY <1>0, <2>2 DEF StorePosition, ReloadPosition, Progress, Busy
  <2> QED BY <2>1, <2>2
<1>3. call[t].at = 0 /\ call'[t].at = 0
  BY <1>0, <1>2 DEF Progress, Busy
<1> QED BY <1>1, <1>2, <1>3, Stutters DEF ReqOf, TodoOf, MovedOf, RetOf, Busy

\* The return of a read or a write ends its request; lseek never had one.
LEMMA ReturnReturns ==
  ASSUME SInv, NEW t \in Thread, Act(t), Return(t)
  PROVE  Store!Return(t) \/ UNCHANGED Store!vars
<1>0. TypeOK /\ CallOK(t) /\ Progress(t) /\ BUFSIZE \in Nat /\ ret[t] \in Int
  <2>1. TypeOK /\ CallOK(t) /\ Progress(t) /\ BUFSIZE \in Nat
    BY ConstantFacts DEF SInv, Inv
  <2>2. ret[t] \in Nat \cup {-12, -14, -22}
    BY <2>1 DEF TypeOK, ENOMEM, EFAULT, EINVAL
  <2> QED BY <2>1, <2>2
<1>1. /\ pc[t] = "return" /\ pc'[t] = "idle" /\ buffer' = buffer
      /\ call'[t] = NoCall /\ got'[t] = <<>> /\ done'[t] = 0
  BY <1>0 DEF TypeOK, Return
<1>2. NoCall.op = "none" /\ NoCall.at = 0
  BY DEF NoCall
<1>3. /\ ReqOf(t)' = NoCall /\ TodoOf(t)' = {} /\ RetOf(t)' = NoRet
      /\ MovedOf(t)' = Store!Nothing
  <2>1. ReqOf(t)' = NoCall /\ TodoOf(t)' = {} /\ RetOf(t)' = NoRet
    BY <1>1, <1>2 DEF ReqOf, TodoOf, RetOf, Busy, NoRet
  <2>2. Len(got'[t]) = 0 /\ 0 \in Nat
    BY <1>1
  <2>3. MovedOf(t)' = Store!Nothing
    BY <1>1, <1>2, <2>2, NothingMoved DEF MovedOf
  <2> QED BY <2>1, <2>3
<1>4. CASE Busy(t)
  <2>1. Results[t] # NoRet
    BY <1>0, <1>1, <1>4 DEF Results, RetOf, NoRet, Progress
  <2>2. /\ Requests' = [Requests EXCEPT ![t] = NoCall] /\ Todos' = [Todos EXCEPT ![t] = {}]
        /\ Moves' = [Moves EXCEPT ![t] = Store!Nothing]
        /\ Results' = [Results EXCEPT ![t] = NoRet]
    BY <1>3, SeenOfOthers
  <2> QED BY <1>1, <2>1, <2>2 DEF Store!Return
<1>5. CASE ~Busy(t)
  <2>1. /\ ReqOf(t) = NoCall /\ TodoOf(t) = {} /\ RetOf(t) = NoRet
    BY <1>5 DEF ReqOf, TodoOf, RetOf
  <2>2. MovedOf(t) = Store!Nothing
    <3>1. call[t].at = 0 /\ got[t] = <<>>
      BY <1>0, <1>5 DEF Progress, CallOK
    <3>2. Len(got[t]) = 0 /\ 0 \in Nat
      BY <3>1
    <3> QED BY <3>1, <3>2, NothingMoved DEF MovedOf
  <2> QED BY <1>1, <1>3, <2>1, <2>2, Stutters
<1> QED BY <1>4, <1>5

\* Every step of CharDev is a step of CharStore, or leaves what it sees alone.
LEMMA StoreStep ==
  ASSUME Offsets \subseteq 0 .. BUFSIZE, SInv, SInv', [Next]_vars
  PROVE  [Store!Next]_(Store!vars)
<1>0. TypeOK
  BY DEF SInv, Inv
<1>1. CASE UNCHANGED vars
  BY <1>1 DEF vars, locals, Store!vars, Requests, Todos, Moves, Results,
              ReqOf, TodoOf, MovedOf, RetOf, Busy
<1>2. ASSUME NEW t \in Thread, Act(t)
      PROVE  [Store!Next]_(Store!vars)
  <2>0. CallOK(t) /\ Progress(t)
    BY DEF SInv, Inv
  <2>1. CASE Open(t) \/ Release(t)
    <3>1. buffer' = buffer /\ UNCHANGED <<pc, call, done, got, ret>>
      BY <2>1 DEF Open, Release, locals
    <3> QED BY <1>2, <3>1, Stutters DEF ReqOf, TodoOf, MovedOf, RetOf, Busy
  <2>2. CASE EnterRead(t)
    <3>1. PICK f \in File, len \in Counts, at \in Nat, seek \in BOOLEAN :
            /\ at \in (0 .. BUFSIZE) \cup Offsets
            /\ Enter(t, f, "read", at, len, <<>>, seek)
      BY <1>0, <2>2, EnterReadCases
    <3>2. Store!Invoke(t)
      BY <1>2, <3>1, InvokeStep
    <3> QED BY <3>2 DEF Store!Next
  <2>3. CASE EnterWrite(t)
    <3>1. PICK f \in File, len \in Counts :
            \E data \in [1 .. len -> Byte] : EnterWrite(t)!(f, len)!(data)
      BY <2>3 DEF EnterWrite
    <3>2. PICK data \in [1 .. len -> Byte] : EnterWrite(t)!(f, len)!(data)
      BY <3>1
    <3>3. f_pos[f] \in 0 .. BUFSIZE
      BY <1>0 DEF TypeOK
    <3>4. PICK at \in 0 .. BUFSIZE, seek \in BOOLEAN :
            Enter(t, f, "write", at, len, data, seek)
      BY <3>2, <3>3
    <3>5. Store!Invoke(t)
      BY <1>2, <3>4, InvokeStep
    <3> QED BY <3>5 DEF Store!Next
  <2>4. CASE Adjust(t)
    BY <1>2, <2>4, AdjustStutters
  <2>5. CASE NoRoom(t)
    BY <1>2, <2>5, NoRoomCompletes DEF Store!Next
  <2>6. CASE CopyOut(t)
    BY <1>2, <2>6, CopyOutReads DEF Store!Next
  <2>7. CASE CopyIn(t)
    BY <1>2, <2>7, CopyInWrites DEF Store!Next
  <2>8. CASE CopyFails(t)
    BY <1>2, <2>8, CopyFailsFaults DEF Store!Next
  <2>9. CASE Copied(t)
    BY <1>2, <2>9, CopiedCompletes DEF Store!Next
  <2>10. CASE EnterSeek(t) \/ BadSeek(t)
    BY <1>2, <2>10, SeekStutters
  <2>11. CASE StorePosition(t) \/ ReloadPosition(t)
    BY <1>2, <2>11, SeekStutters
  <2>12. CASE Return(t)
    BY <1>2, <2>12, ReturnReturns DEF Store!Next
  <2> QED BY <1>2, <2>1, <2>2, <2>3, <2>4, <2>5, <2>6, <2>7, <2>8, <2>9, <2>10, <2>11, <2>12
          DEF Act
<1> QED BY <1>1, <1>2 DEF Next, Act

\* What CharStore sees at the start is its own start.
LEMMA StoreInit == Init => Store!Init
<1> SUFFICES ASSUME Init PROVE Store!Init
  OBVIOUS
<1>1. ASSUME NEW t \in Thread
      PROVE  /\ ReqOf(t) = NoCall /\ TodoOf(t) = {} /\ RetOf(t) = NoRet
             /\ MovedOf(t) = Store!Nothing
  <2>1. call[t] = NoCall /\ got[t] = <<>>
    BY DEF Init
  <2>2. call[t].op = "none" /\ call[t].at = 0 /\ Len(got[t]) = 0 /\ 0 \in Nat
    BY <2>1 DEF NoCall
  <2> QED BY <2>2, NothingMoved DEF ReqOf, TodoOf, RetOf, MovedOf, Busy
<1>2. buffer = [m \in Minor |-> [p \in Positions |-> Zero]]
  BY DEF Init
<1> QED BY <1>1, <1>2 DEF Store!Init, Store!Positions, Positions,
                         Requests, Todos, Moves, Results

LEMMA SInvAlways ==
  ASSUME Offsets \subseteq 0 .. BUFSIZE
  PROVE  Spec => []SInv
<1>1. SInv /\ [Next]_vars => SInv'
  BY ProgressStep
<1> QED BY SInvInit, <1>1, PTL DEF Spec

\* The char driver implements the byte store: my_dev_read and my_dev_write,
\* called without pread's and pwrite's offsets beyond the end, give and take each
\* byte once, at the position the caller asked for, however calls overlap and
\* whatever lseek does meanwhile to the position they started from.
THEOREM ImplementsStore ==
  ASSUME Offsets \subseteq 0 .. BUFSIZE
  PROVE  Spec => StoreSpec
<1>1. SInv /\ SInv' /\ [Next]_vars => [Store!Next]_(Store!vars)
  BY StoreStep
<1> QED BY StoreInit, SInvAlways, <1>1, PTL DEF Spec, StoreSpec, Store!Spec
=============================================================================
