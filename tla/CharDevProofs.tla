---------------------------- MODULE CharDevProofs ----------------------------
(***************************************************************************)
(* Proofs about CharDev, for any number of threads, files and devices, any *)
(* buffer size and any permissions.  The inductive invariant Inv adds to   *)
(* TypeOK what a thread knows of its own call (CallOK), among it that a    *)
(* copy at a position inside the device ends inside the buffer and that    *)
(* the device lets the operation in, and that every open file was          *)
(* permitted (OpenPermitted).                                              *)
(***************************************************************************)
EXTENDS CharDev, TLAPS

\* What a thread inside a call knows of it at each point.
CallOK(t) ==
  /\ pc[t] \in {"adjust", "copy"} => call[t].op \in {"read", "write"}
  /\ pc[t] = "idle" => call[t].op = "none"
  /\ call[t].op \in {"none", "lseek"} => call[t].seek
  /\ pc[t] \in {"store", "reload"} => call[t].op = "lseek"
  /\ call[t].op # "none" => call[t].file \in File
  /\ call[t].op = "write" =>
       /\ call[t].data \in [1 .. call[t].len -> Byte]
       /\ Writable(Perm[call[t].dev])
  /\ pos[t] \in (0 .. BUFSIZE) \cup Offsets
  /\ call[t].seek => pos[t] <= BUFSIZE
  /\ call[t].op = "write" /\ pc[t] = "adjust" => count[t] <= call[t].len
  /\ call[t].op = "write" /\ pc[t] = "copy" /\ Fits(t) => count[t] <= call[t].len
  /\ call[t].op = "read" => Readable(Perm[call[t].dev])
  /\ pc[t] = "copy" => done[t] <= count[t]
  /\ pc[t] = "copy" /\ pos[t] <= BUFSIZE => Fits(t)
  /\ pc[t] \in {"idle", "adjust", "store", "reload"} => done[t] = 0
  /\ call[t].op # "read" => got[t] = <<>>

OpenPermitted == \A f \in File :
  f_mode[f] # "closed" => Permitted(Perm[f_dev[f]], f_mode[f])

Inv == TypeOK /\ OpenPermitted /\ \A t \in Thread : CallOK(t)

LEMMA ConstantFacts ==
  /\ BUFSIZE \in Nat /\ 0 \in 0 .. BUFSIZE
  /\ Perm \in [Minor -> Modes]
  /\ Counts \subseteq Nat
  /\ Zero \in Byte
  /\ WORD \in Nat /\ Offsets \subseteq 0 .. WORD - 1 /\ Offsets \subseteq Nat
  /\ NoCall \in Calls /\ NoCall.op = "none" /\ NoCall.dev \in Minor /\ NoCall.seek
<1>1. (CHOOSE m \in Minor : TRUE) \in Minor
  BY CharDevAssumption
<1>2. BUFSIZE \in Nat
  BY CharDevAssumption
<1>3. NoCall \in Calls /\ NoCall.op = "none" /\ NoCall.dev \in Minor /\ NoCall.seek
  BY <1>1, <1>2 DEF NoCall, Calls
<1> QED BY <1>2, <1>3, CharDevAssumption

\* Where a read or a write starts: at the file's position or at an offset.
LEMMA EnterReadCases ==
  ASSUME TypeOK, NEW t \in Thread, EnterRead(t)
  PROVE  \E f \in File, len \in Counts, at \in Nat, seek \in BOOLEAN :
           /\ Readable(f_mode[f])
           /\ at \in (0 .. BUFSIZE) \cup Offsets
           /\ seek => at <= BUFSIZE
           /\ Enter(t, f, "read", at, len, <<>>, seek)
<1>1. PICK f \in File, len \in Counts :
        /\ Readable(f_mode[f])
        /\ \/ Enter(t, f, "read", f_pos[f], len, <<>>, TRUE)
           \/ \E at \in Offsets : Enter(t, f, "read", at, len, <<>>, FALSE)
  BY DEF EnterRead
<1>2. f_pos[f] \in 0 .. BUFSIZE /\ f_pos[f] \in Nat /\ f_pos[f] <= BUFSIZE
  BY ConstantFacts DEF TypeOK
<1>3. CASE Enter(t, f, "read", f_pos[f], len, <<>>, TRUE)
  BY <1>1, <1>2, <1>3
<1>4. CASE \E at \in Offsets : Enter(t, f, "read", at, len, <<>>, FALSE)
  BY <1>1, <1>4, ConstantFacts
<1> QED BY <1>1, <1>3, <1>4

LEMMA EnterWriteCases ==
  ASSUME TypeOK, NEW t \in Thread, EnterWrite(t)
  PROVE  \E f \in File, len \in Counts, data \in Seq(Byte), at \in Nat, seek \in BOOLEAN :
           /\ data \in [1 .. len -> Byte]
           /\ Writable(f_mode[f])
           /\ at \in (0 .. BUFSIZE) \cup Offsets
           /\ seek => at <= BUFSIZE
           /\ Enter(t, f, "write", at, len, data, seek)
<1>1. PICK f \in File, len \in Counts : \E data \in [1 .. len -> Byte] :
        /\ Writable(f_mode[f])
        /\ \/ Enter(t, f, "write", f_pos[f], len, data, TRUE)
           \/ \E at \in Offsets : Enter(t, f, "write", at, len, data, FALSE)
  BY DEF EnterWrite
<1>2. PICK data \in [1 .. len -> Byte] :
        /\ Writable(f_mode[f])
        /\ \/ Enter(t, f, "write", f_pos[f], len, data, TRUE)
           \/ \E at \in Offsets : Enter(t, f, "write", at, len, data, FALSE)
  BY <1>1
<1>3. f_pos[f] \in 0 .. BUFSIZE /\ f_pos[f] \in Nat /\ f_pos[f] <= BUFSIZE
  BY ConstantFacts DEF TypeOK
<1>4. data \in Seq(Byte)
  BY ConstantFacts
<1>5. CASE Enter(t, f, "write", f_pos[f], len, data, TRUE)
  BY <1>2, <1>3, <1>4, <1>5
<1>6. CASE \E at \in Offsets : Enter(t, f, "write", at, len, data, FALSE)
  BY <1>2, <1>4, <1>6, ConstantFacts
<1> QED BY <1>2, <1>5, <1>6

\* From a position inside the device, the adjusted count fits and is no larger.
LEMMA AdjustedFacts ==
  ASSUME TypeOK, NEW t \in Thread, CallOK(t)
  PROVE  /\ Adjusted(t) \in Nat
         /\ pos[t] + Adjusted(t) <= BUFSIZE => Adjusted(t) <= count[t]
         /\ pos[t] <= BUFSIZE => pos[t] + Adjusted(t) <= BUFSIZE
<1>1. /\ BUFSIZE \in Nat /\ WORD \in Nat /\ pos[t] \in Nat /\ count[t] \in Nat
      /\ pos[t] <= BUFSIZE \/ pos[t] < WORD
  BY ConstantFacts DEF TypeOK, CallOK
<1> QED BY <1>1 DEF Adjusted, Left

\* No step breaks a type.
LEMMA TypeStep ==
  ASSUME Inv, [Next]_vars
  PROVE  TypeOK'
<1> USE DEF files, locals
<1>0. TypeOK /\ \A t \in Thread : CallOK(t)
  BY DEF Inv
<1>1. CASE UNCHANGED vars
  BY <1>0, <1>1 DEF vars, TypeOK
<1>2. ASSUME NEW t \in Thread, Open(t) PROVE TypeOK'
  BY <1>0, <1>2, ConstantFacts DEF TypeOK, Open
<1>3. ASSUME NEW t \in Thread, Release(t) PROVE TypeOK'
  BY <1>0, <1>3, ConstantFacts DEF TypeOK, Release
<1>4. ASSUME NEW t \in Thread, NEW f \in File, NEW op \in {"read", "write"},
             NEW len \in Counts, NEW data \in Seq(Byte), NEW at \in Nat,
             NEW seek \in BOOLEAN, Enter(t, f, op, at, len, data, seek)
      PROVE  TypeOK'
  <2>1. [op |-> op, file |-> f, dev |-> f_dev[f], at |-> at, len |-> len,
         data |-> data, seek |-> seek] \in Calls
    BY <1>0, ConstantFacts DEF Calls, TypeOK
  <2> QED BY <1>0, <1>4, <2>1, ConstantFacts DEF TypeOK, Enter, Points
<1>5. ASSUME NEW t \in Thread, EnterRead(t) PROVE TypeOK'
  <2>1. PICK f \in File, len \in Counts, at \in Nat, seek \in BOOLEAN :
          Enter(t, f, "read", at, len, <<>>, seek)
    BY <1>0, <1>5, EnterReadCases
  <2>2. <<>> \in Seq(Byte)
    OBVIOUS
  <2> QED BY <1>4, <2>1, <2>2
<1>6. ASSUME NEW t \in Thread, EnterWrite(t) PROVE TypeOK'
  <2>1. PICK f \in File, len \in Counts, data \in Seq(Byte), at \in Nat, seek \in BOOLEAN :
          Enter(t, f, "write", at, len, data, seek)
    BY <1>0, <1>6, EnterWriteCases
  <2> QED BY <1>4, <2>1
<1>7. ASSUME NEW t \in Thread, Adjust(t) PROVE TypeOK'
  <2>1. Adjusted(t) \in Nat
    BY <1>0, AdjustedFacts
  <2> QED BY <1>0, <1>7, <2>1 DEF TypeOK, Adjust, Points
<1>8. ASSUME NEW t \in Thread, NoRoom(t) PROVE TypeOK'
  BY <1>0, <1>8 DEF TypeOK, NoRoom, Points
<1>9. ASSUME NEW t \in Thread, CopyOut(t) PROVE TypeOK'
  <2>1. pos[t] + done[t] \in Positions /\ call[t].dev \in Minor
    BY <1>0, <1>9, ConstantFacts DEF CopyOut, Fits, TypeOK, Calls, Positions
  <2>2. buffer[call[t].dev][pos[t] + done[t]] \in Byte
    BY <1>0, <2>1 DEF TypeOK
  <2>3. Append(got[t], buffer[call[t].dev][pos[t] + done[t]]) \in Seq(Byte)
    BY <1>0, <2>2 DEF TypeOK
  <2> QED BY <1>0, <1>9, <2>3 DEF TypeOK, CopyOut
<1>10. ASSUME NEW t \in Thread, CopyIn(t) PROVE TypeOK'
  <2>1. /\ call[t].data \in [1 .. call[t].len -> Byte] /\ call[t].len \in Nat
        /\ done[t] + 1 \in 1 .. call[t].len
    BY <1>0, <1>10 DEF CopyIn, CallOK, TypeOK, Calls
  <2>2. call[t].data[done[t] + 1] \in Byte
    BY <2>1
  <2>3. buffer' \in [Minor -> [Positions -> Byte]]
    BY <1>0, <1>10, <2>2 DEF TypeOK, CopyIn
  <2> QED BY <1>0, <1>10, <2>3 DEF TypeOK, CopyIn
<1>11. ASSUME NEW t \in Thread, CopyFails(t) PROVE TypeOK'
  <2>1. buffer' \in [Minor -> [Positions -> Byte]]
    BY <1>0, <1>11, ConstantFacts DEF TypeOK, CopyFails
  <2> QED BY <1>0, <1>11, <2>1 DEF TypeOK, CopyFails, Points
<1>12. ASSUME NEW t \in Thread, Copied(t) PROVE TypeOK'
  <2>1. pos[t] + count[t] \in Nat
    BY <1>0, <1>12 DEF Copied, TypeOK
  <2> QED BY <1>0, <1>12, <2>1 DEF TypeOK, Copied, Points
<1>13. ASSUME NEW t \in Thread, NEW f \in File
       PROVE  [NoCall EXCEPT !.op = "lseek", !.file = f, !.dev = f_dev[f]] \in Calls
  BY <1>0, ConstantFacts DEF NoCall, Calls, TypeOK
<1>14. ASSUME NEW t \in Thread, EnterSeek(t) PROVE TypeOK'
  <2>1. PICK f \in File, temp \in 0 .. BUFSIZE :
          /\ call' = [call EXCEPT ![t] = [NoCall EXCEPT !.op = "lseek", !.file = f,
                                                        !.dev = f_dev[f]]]
          /\ pos' = [pos EXCEPT ![t] = temp]
    BY <1>14 DEF EnterSeek
  <2>2. pc' = [pc EXCEPT ![t] = "store"] /\ UNCHANGED <<buffer, files, count, got, done, ret>>
    BY <1>14 DEF EnterSeek
  <2>3. temp \in Nat
    BY ConstantFacts
  <2>4. call' \in [Thread -> Calls] /\ pos' \in [Thread -> Nat]
    BY <1>0, <1>13, <2>1, <2>3 DEF TypeOK
  <2> QED BY <1>0, <2>2, <2>4 DEF TypeOK, Points
<1>15. ASSUME NEW t \in Thread, BadSeek(t) PROVE TypeOK'
  BY <1>0, <1>13, <1>15 DEF TypeOK, BadSeek, Points
<1>16. ASSUME NEW t \in Thread, StorePosition(t) PROVE TypeOK'
  <2>0. call[t].op = "lseek"
    BY <1>0, <1>16 DEF StorePosition, CallOK
  <2>1. pos[t] \in 0 .. BUFSIZE
    <3>1. call[t].seek
      BY <1>0, <2>0 DEF CallOK
    <3>2. pos[t] <= BUFSIZE /\ pos[t] \in Nat
      BY <1>0, <3>1 DEF CallOK, TypeOK
    <3>3. BUFSIZE \in Nat
      BY ConstantFacts
    <3> QED BY <3>2, <3>3
  <2> QED BY <1>0, <1>16, <2>1 DEF TypeOK, StorePosition, Points
<1>17. ASSUME NEW t \in Thread, ReloadPosition(t) PROVE TypeOK'
  <2>1. f_pos[call[t].file] \in Nat
    <3>1. call[t].file \in File
      BY <1>0, <1>17 DEF CallOK, ReloadPosition
    <3> QED BY <1>0, <3>1, ConstantFacts DEF TypeOK
  <2> QED BY <1>0, <1>17, <2>1 DEF TypeOK, ReloadPosition, Points
<1>18. ASSUME NEW t \in Thread, Return(t) PROVE TypeOK'
  <2>1. call[t].seek => pos[t] \in 0 .. BUFSIZE
    BY <1>0, ConstantFacts DEF TypeOK, CallOK
  <2>3. f_pos' \in [File -> 0 .. BUFSIZE]
    BY <1>0, <1>18, <2>1 DEF TypeOK, Return
  <2>2. <<>> \in Seq(Byte)
    OBVIOUS
  <2> QED BY <1>0, <1>18, <2>2, <2>3, ConstantFacts DEF TypeOK, Return, Points
<1> QED
  BY <1>1, <1>2, <1>3, <1>5, <1>6, <1>7, <1>8, <1>9, <1>10, <1>11, <1>12, <1>14,
     <1>15, <1>16, <1>17, <1>18 DEF Next

\* A step of thread t changes nothing that another thread knows of its own call.
Others(t) == \A u \in Thread \ {t} :
  /\ pc'[u] = pc[u] /\ call'[u] = call[u] /\ pos'[u] = pos[u]
  /\ count'[u] = count[u] /\ done'[u] = done[u] /\ got'[u] = got[u]

Act(t) ==
  \/ Open(t)      \/ Release(t)       \/ EnterRead(t) \/ EnterWrite(t)
  \/ Adjust(t)    \/ NoRoom(t)        \/ CopyOut(t)   \/ CopyIn(t)
  \/ CopyFails(t) \/ Copied(t)        \/ EnterSeek(t) \/ BadSeek(t)
  \/ StorePosition(t) \/ ReloadPosition(t) \/ Return(t)

LEMMA OthersRest ==
  ASSUME TypeOK, NEW t \in Thread, Act(t)
  PROVE  Others(t)
<1> USE DEF files, locals, TypeOK, Others
<1>1. CASE Open(t) \/ Release(t) \/ StorePosition(t) \/ ReloadPosition(t)
  BY <1>1 DEF Open, Release, StorePosition, ReloadPosition
<1>2. CASE EnterRead(t) \/ EnterWrite(t)
  BY <1>2 DEF EnterRead, EnterWrite, Enter
<1>3. CASE Adjust(t) \/ NoRoom(t) \/ CopyOut(t) \/ CopyIn(t)
  BY <1>3 DEF Adjust, NoRoom, CopyOut, CopyIn
<1>4. CASE CopyFails(t) \/ Copied(t) \/ Return(t)
  BY <1>4 DEF CopyFails, Copied, Return
<1>5. CASE EnterSeek(t) \/ BadSeek(t)
  BY <1>5 DEF EnterSeek, BadSeek
<1> QED BY <1>1, <1>2, <1>3, <1>4, <1>5 DEF Act

\* No step breaks what a thread knows of its own call.
LEMMA CallStep ==
  ASSUME Inv, [Next]_vars
  PROVE  \A t \in Thread : CallOK(t)'
<1> USE DEF files, locals
<1>0. TypeOK /\ OpenPermitted /\ \A t \in Thread : CallOK(t)
  BY DEF Inv
<1>1. CASE UNCHANGED vars
  BY <1>0, <1>1 DEF vars, CallOK, Fits
<1>2. ASSUME NEW t \in Thread, Act(t) PROVE CallOK(t)'
  <2>0. CallOK(t) /\ Perm \in [Minor -> Modes]
    BY <1>0, ConstantFacts
  <2> USE DEF TypeOK
  <2>1. CASE Open(t) \/ Release(t) \/ StorePosition(t) \/ ReloadPosition(t)
    BY <1>0, <2>0, <2>1 DEF CallOK, Open, Release, StorePosition, ReloadPosition
  <2>2. CASE EnterRead(t)
    <3>1. PICK f \in File, len \in Counts, at \in Nat, seek \in BOOLEAN :
            /\ Readable(f_mode[f])
            /\ at \in (0 .. BUFSIZE) \cup Offsets
            /\ seek => at <= BUFSIZE
            /\ Enter(t, f, "read", at, len, <<>>, seek)
      BY <1>0, <2>2, EnterReadCases
    <3>2. Readable(Perm[f_dev[f]])
      BY <1>0, <2>0, <3>1 DEF OpenPermitted, Permitted, Readable, Modes
    <3> QED BY <1>0, <2>0, <3>1, <3>2 DEF CallOK, Enter
  <2>3. CASE EnterWrite(t)
    <3>1. PICK f \in File, len \in Counts, data \in Seq(Byte), at \in Nat,
               seek \in BOOLEAN :
            /\ data \in [1 .. len -> Byte]
            /\ Writable(f_mode[f])
            /\ at \in (0 .. BUFSIZE) \cup Offsets
            /\ seek => at <= BUFSIZE
            /\ Enter(t, f, "write", at, len, data, seek)
      BY <1>0, <2>3, EnterWriteCases
    <3>2. Writable(Perm[f_dev[f]]) /\ len \in Nat
      BY <1>0, <2>0, <3>1, ConstantFacts DEF OpenPermitted, Permitted, Writable, Modes
    <3>3. pc[t] = "idle" /\ got[t] = <<>>
      BY <2>0, <3>1 DEF CallOK, Enter
    <3> QED BY <1>0, <2>0, <3>1, <3>2, <3>3 DEF CallOK, Enter
  <2>4. CASE Adjust(t)
    <3>1. /\ Adjusted(t) \in Nat
          /\ pos[t] + Adjusted(t) <= BUFSIZE => Adjusted(t) <= count[t]
          /\ pos[t] <= BUFSIZE => pos[t] + Adjusted(t) <= BUFSIZE
      BY <1>0, <2>0, AdjustedFacts
    <3>2. call[t].len \in Nat
      BY <1>0 DEF Calls
    <3> QED BY <1>0, <2>0, <2>4, <3>1, <3>2 DEF CallOK, Adjust, Fits
  <2>5. CASE NoRoom(t) \/ CopyIn(t) \/ CopyFails(t) \/ Copied(t)
    <3>1. CASE NoRoom(t)
      BY <1>0, <2>0, <3>1 DEF CallOK, NoRoom
    <3>2. CASE CopyIn(t)
      BY <1>0, <2>0, <3>2 DEF CallOK, CopyIn, Fits
    <3>3. CASE CopyFails(t)
      BY <1>0, <2>0, <3>3 DEF CallOK, CopyFails
    <3>4. CASE Copied(t)
      <4>1. pos'[t] = pos[t] + count[t] /\ pos'[t] \in 0 .. BUFSIZE
        BY <1>0, <3>4, ConstantFacts DEF Copied, Fits
      <4> QED BY <1>0, <2>0, <3>4, <4>1, ConstantFacts DEF CallOK, Copied
    <3> QED BY <2>5, <3>1, <3>2, <3>3, <3>4
  <2>6. CASE CopyOut(t)
    BY <1>0, <2>0, <2>6 DEF CallOK, CopyOut, Fits
  <2>7. CASE EnterSeek(t) \/ BadSeek(t)
    <3>1. PICK f \in File : call' = [call EXCEPT ![t] =
            [NoCall EXCEPT !.op = "lseek", !.file = f, !.dev = f_dev[f]]]
      BY <2>7 DEF EnterSeek, BadSeek
    <3>2. call'[t].op = "lseek" /\ call'[t].file \in File /\ call'[t].seek
      BY <1>0, <3>1 DEF NoCall
    <3>3. pc[t] = "idle" /\ pc'[t] \in {"store", "return"} /\ UNCHANGED <<done, got>>
      BY <1>0, <2>7 DEF EnterSeek, BadSeek
    <3>4. pos'[t] \in 0 .. BUFSIZE
      <4>1. CASE EnterSeek(t)
        BY <1>0, <4>1 DEF EnterSeek
      <4>2. CASE BadSeek(t)
        BY <1>0, <2>0, <4>2, ConstantFacts DEF BadSeek, CallOK
      <4> QED BY <2>7, <4>1, <4>2
    <3> QED BY <2>0, <3>2, <3>3, <3>4, ConstantFacts DEF CallOK
  <2>8. CASE Return(t)
    <3>1. /\ call'[t].op = "none" /\ call'[t].seek /\ pc'[t] = "idle"
          /\ done'[t] = 0 /\ got'[t] = <<>> /\ pos'[t] = 0
      BY <1>0, <2>8, ConstantFacts DEF Return
    <3> QED BY <3>1, ConstantFacts DEF CallOK
  <2> QED BY <1>2, <2>1, <2>2, <2>3, <2>4, <2>5, <2>6, <2>7, <2>8 DEF Act
<1>3. ASSUME NEW t \in Thread, Act(t), NEW u \in Thread PROVE CallOK(u)'
  <2>1. CASE u = t
    BY <1>2, <1>3, <2>1
  <2>2. CASE u # t
    BY <1>0, <1>3, <2>2, OthersRest DEF Others, CallOK, Fits
  <2> QED BY <2>1, <2>2
<1> QED BY <1>1, <1>3 DEF Next, Act

\* Only a permitted open gives a file its mode and its device.
LEMMA PermitStep ==
  ASSUME Inv, [Next]_vars
  PROVE  OpenPermitted'
<1> USE DEF files, OpenPermitted
<1>0. TypeOK /\ OpenPermitted
  BY DEF Inv
<1>1. CASE UNCHANGED <<f_mode, f_dev>>
  BY <1>0, <1>1
<1>2. ASSUME NEW t \in Thread, Open(t) PROVE OpenPermitted'
  BY <1>0, <1>2 DEF Open, TypeOK
<1>3. ASSUME NEW t \in Thread, Release(t) PROVE OpenPermitted'
  BY <1>0, <1>3 DEF Release, TypeOK
<1>4. ASSUME NEW t \in Thread, Act(t), ~Open(t), ~Release(t)
      PROVE  UNCHANGED <<f_mode, f_dev>>
  BY <1>4 DEF Act, EnterRead, EnterWrite, Enter, Adjust, NoRoom, CopyOut, CopyIn,
     CopyFails, Copied, EnterSeek, BadSeek, StorePosition, ReloadPosition, Return
<1>5. CASE UNCHANGED vars
  BY <1>1, <1>5 DEF vars
<1> QED BY <1>1, <1>2, <1>3, <1>4, <1>5 DEF Next, Act

LEMMA InvInit == Init => Inv
<1> SUFFICES ASSUME Init PROVE Inv
  OBVIOUS
<1>1. TypeOK
  <2>1. (CHOOSE m \in Minor : TRUE) \in Minor /\ <<>> \in Seq(Byte)
    BY CharDevAssumption
  <2> QED BY <2>1, ConstantFacts DEF Init, TypeOK, Points
<1>2. OpenPermitted
  BY DEF Init, OpenPermitted
<1>3. \A t \in Thread : CallOK(t)
  <2>1. ASSUME NEW t \in Thread PROVE CallOK(t)
    <3>1. call[t].op = "none" /\ call[t].seek
      BY ConstantFacts DEF Init
    <3>2. pc[t] = "idle" /\ pos[t] = 0 /\ done[t] = 0 /\ got[t] = <<>>
      BY DEF Init
    <3> QED BY <3>1, <3>2, ConstantFacts DEF CallOK
  <2> QED BY <2>1
<1> QED BY <1>1, <1>2, <1>3 DEF Inv

THEOREM InvAlways == Spec => []Inv
<1>1. Inv /\ [Next]_vars => Inv'
  BY TypeStep, CallStep, PermitStep DEF Inv
<1> QED BY <1>1, InvInit, PTL DEF Spec

\* Every variable keeps its type; in particular no interleaving of seeks, reads and
\* writes on a shared file ever takes its position out of the device.
THEOREM TypeCorrect == Spec => []TypeOK
  BY InvAlways, PTL DEF Inv

\* No user copy reaches outside the device's buffer, as long as no pread or pwrite
\* names an offset beyond it.
THEOREM CopiesStayInside ==
  ASSUME Offsets \subseteq 0 .. BUFSIZE
  PROVE  Spec => []CopiesInBuffer
<1>1. ASSUME Inv, NEW t \in Thread, pc[t] = "copy" PROVE Fits(t)
  <2>1. CallOK(t) /\ pos[t] \in 0 .. BUFSIZE
    BY <1>1 DEF Inv, CallOK
  <2> QED BY <1>1, <2>1, ConstantFacts DEF CallOK
<1>2. Inv => CopiesInBuffer
  BY <1>1 DEF CopiesInBuffer
<1> QED BY <1>2, InvAlways, PTL

\* What open refuses never happens later: a read-only device never changes and a
\* write-only device is never read.
THEOREM PermissionsHold == Spec => PermissionHonoured
<1> DEFINE A == \A m \in Minor :
       /\ Perm[m] = "RDONLY" => buffer'[m] = buffer[m]
       /\ Perm[m] = "WRONLY" => \A t \in Thread : call[t].dev = m => got'[t] = <<>>
<1>1. ASSUME Inv, Next PROVE A
  <2>0. TypeOK /\ \A t \in Thread : CallOK(t)
    BY <1>1 DEF Inv
  <2>1. PICK t \in Thread : Act(t)
    BY <1>1 DEF Next, Act
  <2>2. \A m \in Minor : Perm[m] = "RDONLY" => buffer'[m] = buffer[m]
    <3>1. CASE CopyIn(t) \/ CopyFails(t)
      <4>1. call[t].op = "write" => Perm[call[t].dev] # "RDONLY"
        BY <2>0 DEF CallOK, Writable
      <4>2. call[t].op = "write" \/ buffer' = buffer
        <5>1. call[t].op \in {"read", "write"}
          BY <2>0, <3>1 DEF CallOK, CopyIn, CopyFails
        <5> QED BY <3>1, <5>1 DEF CopyIn, CopyFails
      <4>3. call[t].dev \in Minor /\ buffer \in [Minor -> [Positions -> Byte]]
        BY <2>0 DEF TypeOK, Calls
      <4> QED BY <3>1, <4>1, <4>2, <4>3 DEF CopyIn, CopyFails
    <3>2. CASE ~CopyIn(t) /\ ~CopyFails(t)
      <4>1. buffer' = buffer
        BY <2>1, <3>2 DEF files, locals, Act, Open, Release, EnterRead, EnterWrite, Enter,
           Adjust, NoRoom, CopyOut, Copied, EnterSeek, BadSeek, StorePosition,
           ReloadPosition, Return
      <4> QED BY <4>1
    <3> QED BY <3>1, <3>2
  <2>3. ASSUME NEW u \in Thread, Perm[call[u].dev] = "WRONLY" PROVE got'[u] = <<>>
    <3>1. call[u].op # "read" /\ got[u] = <<>>
      BY <2>0, <2>3 DEF CallOK, Readable
    <3>2. CASE u # t
      BY <2>0, <2>1, <3>1, <3>2, OthersRest DEF Others
    <3>3. CASE u = t
      <4>1. ~CopyOut(t)
        BY <3>1, <3>3 DEF CopyOut
      <4>2. CASE Return(t)
        BY <2>0, <3>3, <4>2 DEF Return, TypeOK
      <4>3. CASE ~Return(t)
        <5>1. got' = got
          BY <2>1, <4>1, <4>3 DEF files, locals, Act, Open, Release, EnterRead, EnterWrite,
             Enter, Adjust, NoRoom, CopyIn, CopyFails, Copied, EnterSeek, BadSeek,
             StorePosition, ReloadPosition
        <5> QED BY <3>1, <5>1
      <4> QED BY <4>2, <4>3
    <3> QED BY <3>2, <3>3
  <2> QED BY <2>2, <2>3
<1>2. Inv /\ [Next]_vars => [A]_vars
  BY <1>1
<1> QED BY <1>2, InvAlways, PTL DEF Spec, PermissionHonoured
=============================================================================
