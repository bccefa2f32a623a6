----------------------------- MODULE ScullProofs -----------------------------
(***************************************************************************)
(* Proofs about Scull, for any number of threads and files, any quantum    *)
(* and array size, and any sequence of calls.  The inductive invariant     *)
(* Inv adds to TypeOK and MutualExclusion what every point of an operation *)
(* knows of its own call (CallOK): which operation it is, that its range   *)
(* ends inside the device, and, once the count is clamped to the quantum,  *)
(* that the range ends inside one quantum.                                 *)
(***************************************************************************)
EXTENDS Scull, TLAPS

-----------------------------------------------------------------------------
(* Division with remainder. *)

\* The quotient and the remainder of a natural number.
LEMMA DivMod ==
  ASSUME NEW a \in Nat, NEW d \in Nat \ {0}
  PROVE  /\ a \div d \in Nat
         /\ a % d \in 0 .. d - 1
         /\ a = d * (a \div d) + (a % d)
  BY SMT

\* Multiplication by a positive number is monotone, strictly so by a whole d.
LEMMA MulMono ==
  ASSUME NEW a \in Nat, NEW b \in Nat, NEW d \in Nat \ {0}, a <= b
  PROVE  d * a <= d * b
  BY SMT

LEMMA MulSucc ==
  ASSUME NEW a \in Nat, NEW b \in Nat, NEW d \in Nat \ {0}, a < b
  PROVE  d * a + d <= d * b
  BY SMT

\* A number below n times d has a quotient below n.
LEMMA DivBound ==
  ASSUME NEW a \in Nat, NEW d \in Nat \ {0}, NEW n \in Nat, a < d * n
  PROVE  a \div d < n
<1> DEFINE x == a \div d
<1>1. x \in Nat
  BY DivMod
<1>2. CASE n <= x
  <2>1. d * n <= d * x
    BY <1>1, <1>2, MulMono
  <2>2. d * x \in Nat /\ d * n \in Nat
    BY <1>1
  <2>3. a = d * x + (a % d) /\ a % d \in 0 .. d - 1
    BY DivMod
  <2> HIDE DEF x
  <2> QED BY <2>1, <2>2, <2>3
<1> QED BY <1>1, <1>2

\* The quotient is monotone in the dividend.
LEMMA DivMono ==
  ASSUME NEW a \in Nat, NEW b \in Nat, NEW d \in Nat \ {0}, a <= b
  PROVE  a \div d <= b \div d
<1> DEFINE y == b \div d
<1>1. y \in Nat /\ y + 1 \in Nat
  BY DivMod
<1>2. b = d * y + (b % d) /\ b % d \in 0 .. d - 1
  BY DivMod
<1>3. d * y + d <= d * (y + 1) /\ d * y \in Nat /\ d * (y + 1) \in Nat
  BY <1>1, MulSucc
<1> HIDE DEF y
<1>4. a < d * (y + 1)
  BY <1>2, <1>3
<1>5. a \div d < y + 1 /\ a \div d \in Nat
  BY <1>1, <1>4, DivBound, DivMod
<1> QED BY <1>1, <1>5 DEF y

-----------------------------------------------------------------------------
(* Where a position lives. *)

LEMMA ItemSizePositive == QUANTUM \in Nat \ {0} /\ ITEMSIZE \in Nat \ {0}
<1>1. QUANTUM \in Nat \ {0} /\ QSET \in Nat \ {0}
  BY ScullAssumption
<1>2. QUANTUM * 1 <= QUANTUM * QSET
  BY <1>1, MulMono
<1> QED BY <1>1, <1>2 DEF ITEMSIZE

\* Every position of the device has a list item, a slot and a byte.
LEMMA Addressing ==
  ASSUME NEW p \in 0 .. Top
  PROVE  /\ Item(p) \in Place
         /\ SPos(p) \in Slot
         /\ QPos(p) \in 0 .. QUANTUM - 1
<1>1. Top \in Nat /\ p \in Nat /\ p <= Top /\ QSET \in Nat
  BY ScullAssumption DEF Top
<1>2. Item(p) \in Nat /\ Item(Top) \in Nat /\ Item(p) <= Item(Top)
  BY <1>1, ItemSizePositive, DivMod, DivMono DEF Item
<1>3. p % ITEMSIZE \in Nat /\ p % ITEMSIZE < QUANTUM * QSET
  BY <1>1, ItemSizePositive, DivMod DEF ITEMSIZE
<1>4. SPos(p) \in Nat /\ SPos(p) < QSET
  BY <1>1, <1>3, ItemSizePositive, DivMod, DivBound DEF SPos
<1>5. QPos(p) \in 0 .. QUANTUM - 1
  BY <1>3, ItemSizePositive, DivMod DEF QPos
<1> QED BY <1>1, <1>2, <1>4, <1>5 DEF Place, Slot

-----------------------------------------------------------------------------
(* The inductive invariant. *)

\* What a thread inside a call knows of it at each point.
CallOK(t) ==
  /\ pc[t] \in {"rsize", "rclamp", "rdata", "rslot"} => call[t].op = "read"
  /\ pc[t] \in {"wdata", "wslot", "wsize"} => call[t].op = "write"
  /\ pc[t] \in {"down", "follow", "copy"} => call[t].op \in {"read", "write"}
  /\ pc[t] \in TrimPoints => call[t].op = "open"
  /\ call[t].op = "write" => call[t].data \in [1 .. call[t].len -> Byte]
  /\ call[t].op = "write" /\ pc[t] \in {"down", "follow", "wdata", "wslot", "copy"}
       => count[t] <= call[t].len /\ pos[t] + count[t] <= MaxPos
  /\ pc[t] = "wsize" => pos[t] <= MaxPos
  /\ call[t].op = "read" /\ pc[t] \in {"rclamp", "follow", "rdata", "rslot", "copy"}
       => pos[t] < MaxPos
  /\ pc[t] = "copy" => QPos(pos[t]) + count[t] <= QUANTUM

Inv == TypeOK /\ MutualExclusion /\ \A t \in Thread : CallOK(t)


\* Facts about the constants that the typing proofs use.
LEMMA ConstantFacts ==
  /\ MaxPos \in Nat /\ Top \in Nat /\ 0 \in 0 .. MaxPos /\ 0 \in 0 .. Top
  /\ Top = MaxPos + QUANTUM - 1 /\ MaxPos <= Top /\ Top < WORD /\ WORD \in Nat
  /\ QUANTUM \in Nat /\ QSET \in Nat \ {0}
  /\ Item(Top) \in Nat
  /\ 0 \in Place /\ 0 \in Slot
  /\ Offsets \subseteq 0 .. MaxPos /\ Offsets \subseteq 0 .. Top
  /\ Counts \subseteq Nat
  /\ Zero \in Byte
  /\ OpenModes \subseteq Modes
  /\ NoCall \in Calls
  /\ NoCall.op = "none"
<1>1. /\ MaxPos \in Nat /\ QUANTUM \in Nat \ {0} /\ WORD \in Nat /\ QSET \in Nat \ {0}
      /\ Top = MaxPos + QUANTUM - 1 /\ MaxPos + QUANTUM <= WORD
  BY ScullAssumption DEF Top
<1>2. Top \in Nat /\ MaxPos <= Top /\ Top < WORD /\ 0 \in Slot /\ Offsets \subseteq 0 .. Top
  BY <1>1, ScullAssumption DEF Slot
<1>3. Item(Top) \in Nat
  BY <1>1, <1>2, ItemSizePositive, DivMod DEF Item
<1>4. NoCall \in Calls /\ NoCall.op = "none"
  BY <1>2 DEF NoCall, Calls, Modes
<1> QED BY <1>1, <1>2, <1>3, <1>4, ScullAssumption DEF Place

\* A byte of the range a call copies has a place in its quantum.
LEMMA RangeInQuantum ==
  ASSUME NEW t \in Thread, TypeOK, CallOK(t), pc[t] = "copy"
  PROVE  /\ count[t] \in Nat
         /\ Here(t) \in Place \X Slot
         /\ \A k \in 1 .. count[t] :
              <<dptr[t], SPos(pos[t]), QPos(pos[t]) + k - 1>> \in Cell
<1>1. pos[t] \in 0 .. Top /\ count[t] \in Nat /\ dptr[t] \in Place
  BY DEF TypeOK
<1>2. SPos(pos[t]) \in Slot /\ QPos(pos[t]) \in 0 .. QUANTUM - 1
  BY <1>1, Addressing
<1>3. QPos(pos[t]) + count[t] <= QUANTUM
  BY DEF CallOK
<1>4. \A k \in 1 .. count[t] : QPos(pos[t]) + k - 1 \in 0 .. QUANTUM - 1
  BY <1>1, <1>2, <1>3, ConstantFacts
<1> QED BY <1>1, <1>2, <1>4 DEF Cell, Here

\* Copying bytes into the quantum keeps the memory's type.
LEMMA PutBytesType ==
  ASSUME NEW t \in Thread, TypeOK, CallOK(t), pc[t] = "copy",
         NEW bytes \in [1 .. count[t] -> Byte], PutBytes(t, bytes)
  PROVE  mem' \in [Cell -> Byte \cup {Junk}]
<1>1. pos[t] \in 0 .. Top /\ count[t] \in Nat /\ QPos(pos[t]) \in Nat
  BY Addressing DEF TypeOK
<1>2. ASSUME NEW c \in Cell,
             c[3] \in QPos(pos[t]) .. QPos(pos[t]) + count[t] - 1
      PROVE  bytes[c[3] - QPos(pos[t]) + 1] \in Byte
  <2>1. c[3] \in Int
    BY <1>1, <1>2
  <2>2. c[3] - QPos(pos[t]) + 1 \in 1 .. count[t]
    BY <1>1, <1>2, <2>1
  <2> QED BY <2>2
<1> QED BY <1>2 DEF PutBytes, TypeOK


\* No step breaks a type.
LEMMA TypeStep ==
  ASSUME TypeOK, MutualExclusion, \A t \in Thread : CallOK(t), [Next]_vars
  PROVE  TypeOK'
<1> USE DEF vars, memory, files, locals, dead, cursor
<1>1. CASE UNCHANGED vars
  BY <1>1 DEF TypeOK
<1>2. ASSUME NEW t \in Thread, Open(t) PROVE TypeOK'
  BY <1>2, ConstantFacts DEF TypeOK, Open, Modes
<1>3. ASSUME NEW t \in Thread, OpenTruncating(t) PROVE TypeOK'
  <2>1. PICK f \in File : OpenTruncating(t)!(f)
    BY <1>3 DEF OpenTruncating
  <2>2. [NoCall EXCEPT !.op = "open", !.file = f, !.mode = "WRONLY"] \in Calls
    BY ConstantFacts DEF NoCall, Calls, Modes
  <2> QED BY <2>1, <2>2 DEF TypeOK, Points, TrimPoints
<1>4. ASSUME NEW t \in Thread,
             TrimLook(t) \/ TrimQuantum(t) \/ TrimArray(t) \/ TrimNull(t)
      PROVE  TypeOK'
  <2>1. CASE TrimLook(t)
    BY <2>1 DEF TypeOK, TrimLook, Points, TrimPoints
  <2>2. CASE TrimQuantum(t)
    <3>1. slot' \in [Thread -> Slot]
      <4>1. slot[t] \in 0 .. QSET - 1 /\ 0 \in Slot
        BY ConstantFacts DEF TypeOK, Slot
      <4>2. slot[t] < QSET - 1 => slot[t] + 1 \in Slot
        BY <4>1, ConstantFacts DEF Slot
      <4> QED BY <2>2, <4>1, <4>2 DEF TypeOK, TrimQuantum
    <3>2. pc' \in [Thread -> Points] /\ deadQuanta' \subseteq quanta
      BY <2>2 DEF TypeOK, TrimQuantum, Points, TrimPoints
    <3> QED BY <2>2, <3>1, <3>2 DEF TypeOK, TrimQuantum
  <2>3. CASE TrimArray(t)
    BY <2>3 DEF TypeOK, TrimArray, Points, TrimPoints
  <2>4. CASE TrimNull(t)
    BY <2>4 DEF TypeOK, TrimNull, Forget, Points, TrimPoints
  <2> QED BY <1>4, <2>1, <2>2, <2>3, <2>4
<1>5. ASSUME NEW t \in Thread,
             TrimNext(t) \/ TrimItem(t) \/ TrimSize(t) \/ TrimDone(t)
      PROVE  TypeOK'
  <2>1. CASE TrimNext(t)
    <3>1. dptr[t] < linked => dptr[t] + 1 \in Place
      BY ConstantFacts DEF TypeOK, Place
    <3> QED BY <2>1, <3>1, ConstantFacts DEF TypeOK, TrimNext, Points, TrimPoints
  <2>2. CASE TrimItem(t)
    <3>1. next[t] \in Place /\ dptr' \in [Thread -> Place] /\ next' \in [Thread -> Place]
      BY <2>2, ConstantFacts DEF TypeOK, TrimItem
    <3>2. pc' \in [Thread -> Points]
      BY <2>2 DEF TypeOK, TrimItem, Points, TrimPoints
    <3>3. /\ linked' = linked /\ live' \subseteq Place /\ arrays' \subseteq Place /\ mem' = mem
          /\ quanta' \subseteq Place \X Slot /\ deadArrays' \subseteq arrays'
          /\ deadQuanta' \subseteq quanta' /\ leaked' \in BOOLEAN
      BY <2>2 DEF TypeOK, TrimItem
    <3> QED BY <2>2, <3>1, <3>2, <3>3 DEF TypeOK, TrimItem
  <2>3. CASE TrimSize(t)
    BY <2>3, ConstantFacts DEF TypeOK, TrimSize, Points, TrimPoints
  <2>4. CASE TrimDone(t)
    <3>1. call[t].mode \in Modes
      BY DEF TypeOK, Calls
    <3>2. f_mode' \in [File -> Modes \cup {"closed"}] /\ f_pos' \in [File -> 0 .. Top]
      BY <2>4, <3>1, ConstantFacts DEF TypeOK, TrimDone
    <3>3. call' \in [Thread -> Calls] /\ pc' \in [Thread -> Points]
      BY <2>4, ConstantFacts DEF TypeOK, TrimDone, Points
    <3>4. /\ arrays' \subseteq Place /\ quanta' \subseteq Place \X Slot
          /\ deadArrays' \subseteq arrays' /\ deadQuanta' \subseteq quanta' /\ leaked' \in BOOLEAN
      BY <2>4 DEF TypeOK, TrimDone, Forget
    <3> QED BY <2>4, <3>2, <3>3, <3>4 DEF TypeOK, TrimDone
  <2> QED BY <1>5, <2>1, <2>2, <2>3, <2>4
<1>6. ASSUME NEW t \in Thread, Release(t) PROVE TypeOK'
  BY <1>6, ConstantFacts DEF TypeOK, Release
<1>7. ASSUME NEW t \in Thread, NEW f \in File, NEW op \in {"read", "write"},
             NEW at \in 0 .. Top, NEW len \in Counts, NEW data \in Seq(Byte),
             NEW seek \in BOOLEAN, f_mode[f] \in Modes,
             Enter(t, f, op, at, len, data, seek)
      PROVE  TypeOK'
  <2>1. [op |-> op, file |-> f, mode |-> f_mode[f], at |-> at, len |-> len,
         data |-> data, seek |-> seek] \in Calls
    BY <1>7, ConstantFacts DEF Calls
  <2> QED BY <1>7, <2>1, ConstantFacts DEF TypeOK, Enter, Points
<1>8. ASSUME NEW t \in Thread, EnterRead(t) PROVE TypeOK'
  <2>1. PICK f \in File, len \in Counts : EnterRead(t)!(f, len)
    BY <1>8 DEF EnterRead
  <2>2. f_mode[f] \in Modes /\ f_pos[f] \in 0 .. Top /\ <<>> \in Seq(Byte)
    BY <2>1 DEF Readable, Modes, TypeOK
  <2> QED BY <1>7, <2>1, <2>2, ConstantFacts
<1>9. ASSUME NEW t \in Thread, EnterWrite(t) PROVE TypeOK'
  <2>1. PICK f \in File, len \in Counts : 
          \E data \in [1 .. len -> Byte] : EnterWrite(t)!(f, len)!(data)
    BY <1>9 DEF EnterWrite
  <2>2. PICK data \in [1 .. len -> Byte] : EnterWrite(t)!(f, len)!(data)
    BY <2>1
  <2>3. f_mode[f] \in Modes /\ f_pos[f] \in 0 .. Top
    BY <2>1 DEF Writable, Modes, TypeOK
  <2>4. data \in Seq(Byte)
    BY ConstantFacts
  <2> QED BY <1>7, <2>2, <2>3, <2>4, ConstantFacts
<1>10. ASSUME NEW t \in Thread, Down(t) PROVE TypeOK'
  BY <1>10 DEF TypeOK, Down, Points
<1>11. ASSUME NEW t \in Thread, Interrupted(t) PROVE TypeOK'
  BY <1>11 DEF TypeOK, Interrupted, Points, Errors
<1>12. ASSUME NEW t \in Thread, ReadPastEnd(t) \/ ReadBelow(t) PROVE TypeOK'
  <2>1. CASE ReadPastEnd(t)
    BY <2>1 DEF TypeOK, ReadPastEnd, Out, Points
  <2>2. CASE ReadBelow(t)
    BY <2>2 DEF TypeOK, ReadBelow, Points
  <2> QED BY <1>12, <2>1, <2>2
<1>13. ASSUME NEW t \in Thread, ReadClamp(t) PROVE TypeOK'
  <2>1. count'[t] \in Nat /\ count' \in [Thread -> Nat]
    BY <1>13, ConstantFacts DEF TypeOK, ReadClamp
  <2> QED BY <1>13, <2>1 DEF TypeOK, ReadClamp, Points
<1>14. ASSUME NEW t \in Thread, FollowNext(t) \/ Followed(t) PROVE TypeOK'
  <2>1. CASE FollowNext(t)
    <3>1. Item(pos[t]) \in Place /\ linked \in Place /\ dptr[t] \in Place
      BY Addressing DEF TypeOK
    <3>2. dptr[t] + 1 \in Place
      BY <2>1, <3>1, ConstantFacts DEF Place, FollowNext
    <3>3. linked' \in Place /\ live' \subseteq Place
      BY <2>1, <3>2 DEF TypeOK, FollowNext
    <3> QED BY <2>1, <3>2, <3>3 DEF TypeOK, FollowNext
  <2>2. CASE Followed(t)
    BY <2>2 DEF TypeOK, Followed, Points
  <2> QED BY <1>14, <2>1, <2>2
<1>15. ASSUME NEW t \in Thread, ReadNoArray(t) \/ ReadArray(t) \/ ReadHole(t) PROVE TypeOK'
  <2>1. CASE ReadNoArray(t)
    BY <2>1 DEF TypeOK, ReadNoArray, Out, Points
  <2>2. CASE ReadArray(t)
    BY <2>2 DEF TypeOK, ReadArray, Points
  <2>3. CASE ReadHole(t)
    BY <2>3 DEF TypeOK, ReadHole, Out, Points
  <2> QED BY <1>15, <2>1, <2>2, <2>3
<1>16. ASSUME NEW t \in Thread PROVE MinOf(count[t], QUANTUM - QPos(pos[t])) \in Nat
  <2>1. QPos(pos[t]) \in 0 .. QUANTUM - 1 /\ count[t] \in Nat
    BY Addressing DEF TypeOK
  <2> QED BY <2>1, ConstantFacts DEF MinOf
<1>17. ASSUME NEW t \in Thread, ReadFound(t) PROVE TypeOK'
  BY <1>16, <1>17 DEF TypeOK, ReadFound, Points
<1>18. ASSUME NEW t \in Thread, Advance(t), pos[t] + count[t] <= Top
       PROVE  pos' \in [Thread -> 0 .. Top] /\ ret' \in [Thread -> Nat \cup Errors]
  BY <1>18, ConstantFacts DEF TypeOK, Advance
<1>19. ASSUME NEW t \in Thread, CopyToUser(t) PROVE TypeOK'
  <2>0. CallOK(t) /\ pc[t] = "copy" /\ pos[t] < MaxPos /\ QPos(pos[t]) + count[t] <= QUANTUM
    BY <1>19 DEF CopyToUser, CallOK
  <2>1. CallOK(t) /\ pc[t] = "copy" /\ pos[t] + count[t] <= Top
    <3>1. QPos(pos[t]) \in Nat /\ pos[t] \in Nat /\ count[t] \in Nat
      BY Addressing DEF TypeOK
    <3> QED BY <2>0, <3>1, ConstantFacts
  <2> DEFINE bytes == [k \in 1 .. count[t] |->
                         mem[<<dptr[t], SPos(pos[t]), QPos(pos[t]) + k - 1>>]]
  <2>2. bytes \in Seq(Byte \cup {Junk})
    <3>1. count[t] \in Nat /\ mem \in [Cell -> Byte \cup {Junk}]
      BY DEF TypeOK
    <3>2. bytes \in [1 .. count[t] -> Byte \cup {Junk}]
      BY <2>1, <3>1, RangeInQuantum
    <3> HIDE DEF bytes
    <3> QED BY <3>1, <3>2
  <2>3. got' \in [Thread -> Seq(Byte \cup {Junk})]
    BY <1>19, <2>2 DEF CopyToUser, TypeOK
  <2>4. pos' \in [Thread -> 0 .. Top] /\ ret' \in [Thread -> Nat \cup Errors]
    BY <1>18, <1>19, <2>1 DEF CopyToUser
  <2> QED BY <1>19, <2>3, <2>4 DEF TypeOK, CopyToUser, Points
<1>20. ASSUME NEW t \in Thread, WriteArray(t) PROVE TypeOK'
  BY <1>20 DEF TypeOK, WriteArray, Points
<1>21. ASSUME NEW t \in Thread, WriteNoArray(t) PROVE TypeOK'
  BY <1>21 DEF TypeOK, WriteNoArray, Out, Points, Errors
<1>22. ASSUME NEW t \in Thread, WriteQuantum(t) PROVE TypeOK'
  <2>1. Here(t) \in Place \X Slot
    BY Addressing DEF TypeOK, Here
  <2>2. quanta' \subseteq Place \X Slot /\ mem' \in [Cell -> Byte \cup {Junk}]
    BY <1>22, <2>1 DEF TypeOK, WriteQuantum
  <2> QED BY <1>16, <1>22, <2>2 DEF TypeOK, WriteQuantum, Points
<1>23. ASSUME NEW t \in Thread, WriteNoQuantum(t) PROVE TypeOK'
  BY <1>23 DEF TypeOK, WriteNoQuantum, Out, Points, Errors
<1>24. ASSUME NEW t \in Thread, CopyFromUser(t) PROVE TypeOK'
  <2>1. /\ CallOK(t) /\ pc[t] = "copy" /\ pos[t] + count[t] <= Top
        /\ count[t] \in Nat /\ call[t].len \in Nat /\ count[t] <= call[t].len
        /\ call[t].data \in [1 .. call[t].len -> Byte]
    BY <1>24, ConstantFacts DEF CopyFromUser, CallOK, TypeOK, Calls
  <2> DEFINE bytes == [k \in 1 .. count[t] |-> call[t].data[k]]
  <2>2. bytes \in [1 .. count[t] -> Byte]
    BY <2>1
  <2>3. PutBytes(t, bytes)
    <3>1. ASSUME NEW c \in Cell,
                 c[3] \in QPos(pos[t]) .. QPos(pos[t]) + count[t] - 1
          PROVE  bytes[c[3] - QPos(pos[t]) + 1] = call[t].data[c[3] - QPos(pos[t]) + 1]
      <4>1. QPos(pos[t]) \in Int /\ c[3] \in Int
        BY <3>1, Addressing DEF TypeOK
      <4>2. c[3] - QPos(pos[t]) + 1 \in 1 .. count[t]
        BY <2>1, <3>1, <4>1
      <4> QED BY <4>2
    <3> QED BY <1>24, <3>1 DEF CopyFromUser, PutBytes
  <2>4. mem' \in [Cell -> Byte \cup {Junk}]
    <3> HIDE DEF bytes
    <3> QED BY <2>1, <2>2, <2>3, PutBytesType
  <2>5. pos' \in [Thread -> 0 .. Top] /\ ret' \in [Thread -> Nat \cup Errors]
    BY <1>18, <1>24, <2>1 DEF CopyFromUser
  <2> QED BY <1>24, <2>4, <2>5 DEF TypeOK, CopyFromUser, Points
<1>25. ASSUME NEW t \in Thread, CopyFails(t) PROVE TypeOK'
  <2>1. mem' \in [Cell -> Byte \cup {Junk}]
    <3>1. CASE UNCHANGED mem
      BY <3>1 DEF TypeOK
    <3>2. ASSUME NEW n \in 0 .. count[t] - 1, call[t].op = "write",
                 PutBytes(t, [k \in 1 .. count[t] |->
                                IF k <= n THEN call[t].data[k] ELSE Zero])
          PROVE  mem' \in [Cell -> Byte \cup {Junk}]
      <4>1. /\ CallOK(t) /\ pc[t] = "copy" /\ count[t] \in Nat /\ call[t].len \in Nat
            /\ count[t] <= call[t].len /\ call[t].data \in [1 .. call[t].len -> Byte]
        BY <1>25, <3>2 DEF CopyFails, CallOK, TypeOK, Calls
      <4>2. [k \in 1 .. count[t] |-> IF k <= n THEN call[t].data[k] ELSE Zero]
              \in [1 .. count[t] -> Byte]
        BY <4>1, ConstantFacts
      <4> QED BY <3>2, <4>1, <4>2, PutBytesType
    <3> QED BY <1>25, <3>1, <3>2 DEF CopyFails
  <2> QED BY <1>25, <2>1 DEF TypeOK, CopyFails, Out, Points, Errors
<1>26. ASSUME NEW t \in Thread, WriteSize(t) PROVE TypeOK'
  <2>1. MaxOf(size, pos[t]) \in 0 .. MaxPos
    BY <1>26 DEF TypeOK, MaxOf, CallOK, WriteSize
  <2> QED BY <1>26, <2>1 DEF TypeOK, WriteSize, Points
<1>27. ASSUME NEW t \in Thread, Up(t) PROVE TypeOK'
  <2>1. sem = 0
    BY <1>27 DEF TypeOK, MutualExclusion, InSem, Up
  <2> QED BY <1>27, <2>1 DEF TypeOK, Up, Points
<1>28. ASSUME NEW t \in Thread, Return(t) PROVE TypeOK'
  <2>1. f_pos' \in [File -> 0 .. Top]
    BY <1>28 DEF TypeOK, Return
  <2>2. <<>> \in Seq(Byte \cup {Junk})
    OBVIOUS
  <2> QED BY <1>28, <2>1, <2>2, ConstantFacts DEF TypeOK, Return, Points
<1>29. ASSUME NEW t \in Thread, Oops(t) PROVE TypeOK'
  <2>1. fault' \in {"none", "use_after_free", "null_deref", "double_free"}
    BY <1>29 DEF Oops, FollowFreed, UseFreed, FreedTwice, ItemNotAllocated
  <2> QED BY <1>29, <2>1 DEF TypeOK, Oops
<1> QED
  BY <1>1, <1>2, <1>3, <1>4, <1>5, <1>6, <1>8, <1>9, <1>10, <1>11, <1>12, <1>13,
     <1>14, <1>15, <1>17, <1>19, <1>20, <1>21, <1>22, <1>23, <1>24, <1>25,
     <1>26, <1>27, <1>28, <1>29 DEF Next, Run

\* A step of thread t moves no other thread: not its point, its call or its locals.
Others(t) == \A u \in Thread \ {t} :
  /\ pc'[u] = pc[u] /\ call'[u] = call[u] /\ pos'[u] = pos[u] /\ count'[u] = count[u]
  /\ dptr'[u] = dptr[u] /\ slot'[u] = slot[u] /\ next'[u] = next[u]

Act(t) == \/ Open(t) \/ OpenTruncating(t) \/ Release(t)
          \/ EnterRead(t) \/ EnterWrite(t) \/ Interrupted(t) \/ Run(t)

\* The steps of scull_trim, and those inside the semaphore that find something.
TrimStep(t) == \/ TrimLook(t) \/ TrimQuantum(t) \/ TrimArray(t) \/ TrimNull(t)
               \/ TrimNext(t) \/ TrimItem(t) \/ TrimSize(t) \/ TrimDone(t)

LEMMA OthersRest ==
  ASSUME TypeOK, NEW t \in Thread, Act(t)
  PROVE  Others(t)
<1> USE DEF files, memory, locals, dead, cursor, TypeOK, Others
<1>1. CASE Open(t) \/ OpenTruncating(t) \/ Release(t)
  BY <1>1 DEF Open, OpenTruncating, Release
<1>2. CASE EnterRead(t) \/ EnterWrite(t)
  BY <1>2 DEF EnterRead, EnterWrite, Enter
<1>3. CASE Down(t) \/ Interrupted(t) \/ ReadPastEnd(t) \/ ReadBelow(t) \/ ReadClamp(t)
           \/ FollowNext(t) \/ Followed(t)
  BY <1>3 DEF Down, Interrupted, ReadPastEnd, ReadBelow, ReadClamp, FollowNext, Followed, Out
<1>4. CASE ReadNoArray(t) \/ ReadArray(t) \/ ReadHole(t) \/ ReadFound(t)
           \/ CopyToUser(t) \/ CopyFromUser(t)
  BY <1>4 DEF ReadNoArray, ReadArray, ReadHole, ReadFound, CopyToUser, CopyFromUser,
              Advance, Out
<1>5. CASE WriteArray(t) \/ WriteNoArray(t) \/ WriteQuantum(t) \/ WriteNoQuantum(t)
  BY <1>5 DEF WriteArray, WriteNoArray, WriteQuantum, WriteNoQuantum, Out
<1>6. CASE CopyFails(t) \/ WriteSize(t) \/ Up(t) \/ Return(t) \/ Oops(t)
  BY <1>6 DEF CopyFails, WriteSize, Up, Return, Oops, Out
<1>7. CASE TrimStep(t)
  BY <1>7 DEF TrimStep, TrimLook, TrimQuantum, TrimArray, TrimNull, TrimNext, TrimItem,
              TrimSize, TrimDone
<1> QED BY <1>1, <1>2, <1>3, <1>4, <1>5, <1>6, <1>7 DEF Act, Run, TrimStep

\* Who holds the semaphore changes only in Down and Up.
LEMMA HolderRests ==
  ASSUME TypeOK, NEW t \in Thread, Act(t), ~Down(t), ~Up(t)
  PROVE  sem' = sem /\ (InSem(t)' <=> InSem(t))
<1> USE DEF files, memory, locals, dead, cursor, TypeOK, InSem
<1>1. CASE Open(t) \/ OpenTruncating(t) \/ Release(t)
  BY <1>1 DEF Open, OpenTruncating, Release
<1>2. CASE EnterRead(t) \/ EnterWrite(t)
  BY <1>2 DEF EnterRead, EnterWrite, Enter
<1>3. CASE Interrupted(t) \/ ReadPastEnd(t) \/ ReadBelow(t) \/ ReadClamp(t)
           \/ FollowNext(t) \/ Followed(t)
  BY <1>3 DEF Interrupted, ReadPastEnd, ReadBelow, ReadClamp, FollowNext, Followed, Out
<1>4. CASE ReadNoArray(t) \/ ReadArray(t) \/ ReadHole(t) \/ ReadFound(t)
           \/ CopyToUser(t) \/ CopyFromUser(t)
  BY <1>4 DEF ReadNoArray, ReadArray, ReadHole, ReadFound, CopyToUser, CopyFromUser, Out
<1>5. CASE WriteArray(t) \/ WriteNoArray(t) \/ WriteQuantum(t) \/ WriteNoQuantum(t)
  BY <1>5 DEF WriteArray, WriteNoArray, WriteQuantum, WriteNoQuantum, Out
<1>6. CASE CopyFails(t) \/ WriteSize(t) \/ Return(t) \/ Oops(t)
  BY <1>6 DEF CopyFails, WriteSize, Return, Oops, Out
<1>7. CASE TrimStep(t)
  BY <1>7 DEF TrimStep, TrimLook, TrimQuantum, TrimArray, TrimNull, TrimNext, TrimItem,
              TrimSize, TrimDone
<1> QED BY <1>1, <1>2, <1>3, <1>4, <1>5, <1>6, <1>7 DEF Act, Run, TrimStep

\* No step breaks mutual exclusion.
LEMMA ExclusionStep ==
  ASSUME TypeOK, MutualExclusion, [Next]_vars
  PROVE  MutualExclusion'
<1>1. CASE UNCHANGED vars
  BY <1>1 DEF vars, MutualExclusion, InSem
<1>2. ASSUME NEW t \in Thread, Act(t) PROVE MutualExclusion'
  <2>1. \A u \in Thread \ {t} : InSem(u)' <=> InSem(u)
    BY <1>2, OthersRest DEF Others, InSem
  <2>2. CASE ~Down(t) /\ ~Up(t)
    <3>1. sem' = sem /\ (InSem(t)' <=> InSem(t))
      BY <1>2, <2>2, HolderRests
    <3> QED BY <2>1, <3>1 DEF MutualExclusion
  <2>3. CASE Down(t)
    <3>1. (\A u \in Thread : ~InSem(u)) /\ sem' = 0 /\ InSem(t)'
      BY <2>3 DEF MutualExclusion, Down, InSem, TypeOK
    <3> QED BY <2>1, <3>1 DEF MutualExclusion
  <2>4. CASE Up(t)
    <3>1. InSem(t) /\ sem = 0 /\ sem' = 1 /\ ~InSem(t)'
      BY <2>4 DEF MutualExclusion, Up, InSem, TypeOK
    <3>2. \A u \in Thread : ~InSem(u)'
      BY <2>1, <3>1 DEF MutualExclusion
    <3> QED BY <3>1, <3>2 DEF MutualExclusion
  <2> QED BY <2>2, <2>3, <2>4
<1> QED BY <1>1, <1>2 DEF Next, Act

\* No step breaks what a thread knows of its own call.
LEMMA CallStep ==
  ASSUME TypeOK, \A t \in Thread : CallOK(t), [Next]_vars
  PROVE  \A t \in Thread : CallOK(t)'
<1> USE DEF files, memory, locals, dead, cursor
<1>1. CASE UNCHANGED vars
  BY <1>1 DEF vars, CallOK
<1>2. ASSUME NEW t \in Thread, Act(t) PROVE CallOK(t)'
  <2> USE DEF TypeOK, CallOK
  <2>1. CASE Open(t) \/ Release(t)
    BY <2>1 DEF Open, Release
  <2>2. CASE OpenTruncating(t) \/ TrimStep(t) \/ Return(t)
    <3>1. \/ call'[t].op = "open" /\ pc'[t] \in TrimPoints
          \/ call'[t].op = "none" /\ pc'[t] = "idle"
      <4>1. CASE OpenTruncating(t)
        BY <4>1 DEF OpenTruncating, NoCall, TrimPoints
      <4>2. CASE TrimDone(t) \/ Return(t)
        BY <4>2, ConstantFacts DEF TrimDone, Return
      <4>3. CASE TrimStep(t) /\ ~TrimDone(t)
        BY <4>3 DEF TrimStep, TrimLook, TrimQuantum, TrimArray, TrimNull, TrimNext, TrimItem,
                    TrimSize, TrimPoints
      <4> QED BY <2>2, <4>1, <4>2, <4>3
    <3>2. pc'[t] \notin {"rsize", "rclamp", "rdata", "rslot", "wdata", "wslot", "wsize", "down",
                       "follow", "copy"}
      BY <3>1 DEF TrimPoints
    <3> QED BY <3>1, <3>2 DEF TrimPoints
  <2>3. CASE EnterRead(t)
    BY <2>3 DEF EnterRead, Enter, TrimPoints
  <2>4. CASE EnterWrite(t)
    BY <2>4, ConstantFacts DEF EnterWrite, Enter, TrimPoints
  <2>5. CASE Down(t)
    BY <2>5 DEF Down, TrimPoints
  <2>6. CASE Interrupted(t) \/ ReadPastEnd(t) \/ ReadNoArray(t) \/ ReadHole(t)
              \/ WriteNoArray(t) \/ WriteNoQuantum(t) \/ CopyFails(t)
    BY <2>6 DEF Interrupted, ReadPastEnd, ReadNoArray, ReadHole, WriteNoArray, WriteNoQuantum,
                CopyFails, Out, TrimPoints
  <2>7. CASE ReadBelow(t) \/ ReadClamp(t) \/ ReadArray(t)
    <3>1. CASE ReadBelow(t)
      BY <3>1, ConstantFacts DEF ReadBelow, TrimPoints
    <3>2. CASE ReadClamp(t) \/ ReadArray(t)
      BY <3>2 DEF ReadClamp, ReadArray, TrimPoints
    <3> QED BY <2>7, <3>1, <3>2
  <2>8. CASE FollowNext(t) \/ Followed(t) \/ WriteArray(t)
    BY <2>8 DEF FollowNext, Followed, WriteArray, TrimPoints
  <2>9. CASE ReadFound(t) \/ WriteQuantum(t)
    <3> DEFINE c == MinOf(count[t], QUANTUM - QPos(pos[t]))
    <3>1. pos[t] \in 0 .. Top /\ count[t] \in Nat /\ QPos(pos[t]) \in 0 .. QUANTUM - 1
      BY Addressing
    <3>2. c <= count[t] /\ QPos(pos[t]) + c <= QUANTUM /\ c \in Nat
      BY <3>1, ConstantFacts DEF MinOf
    <3>3. /\ count'[t] = c /\ pos'[t] = pos[t] /\ call'[t] = call[t] /\ pc'[t] = "copy"
          /\ pc[t] \in {"rslot", "wslot"}
      BY <2>9 DEF ReadFound, WriteQuantum
    <3>4. pos[t] + c <= pos[t] + count[t]
      BY <3>1, <3>2
    <3>5. call[t].op = "write" => call[t].len \in Nat /\ count[t] <= call[t].len
      BY <3>3 DEF Calls
    <3> HIDE DEF c
    <3> QED BY <3>1, <3>2, <3>3, <3>4, <3>5, ConstantFacts DEF TrimPoints
  <2>10. CASE CopyToUser(t) \/ CopyFromUser(t) \/ WriteSize(t) \/ Up(t) \/ Oops(t)
    BY <2>10 DEF CopyToUser, CopyFromUser, WriteSize, Up, Oops, Advance, TrimPoints
  <2> QED BY <1>2, <2>1, <2>2, <2>3, <2>4, <2>5, <2>6, <2>7, <2>8, <2>9, <2>10
          DEF Act, Run, TrimStep
<1>3. ASSUME NEW t \in Thread, Act(t), NEW u \in Thread PROVE CallOK(u)'
  <2>1. CASE u = t
    BY <1>2, <1>3, <2>1
  <2>2. CASE u # t
    BY <1>3, <2>2, OthersRest DEF Others, CallOK
  <2> QED BY <2>1, <2>2
<1> QED BY <1>1, <1>3 DEF Next, Act

LEMMA InvInit == Init => Inv
<1> SUFFICES ASSUME Init PROVE Inv
  OBVIOUS
<1>1. TypeOK
  <2>1. Calls # {} /\ NoCall \in Calls /\ <<>> \in Seq(Byte \cup {Junk})
    BY ConstantFacts
  <2> QED BY <2>1, ConstantFacts DEF Init, TypeOK, Points
<1>2. MutualExclusion
  BY DEF Init, MutualExclusion, InSem
<1>3. \A t \in Thread : CallOK(t)
  BY DEF Init, CallOK, NoCall, TrimPoints
<1> QED BY <1>1, <1>2, <1>3 DEF Inv

LEMMA InvNext == Inv /\ [Next]_vars => Inv'
  BY TypeStep, ExclusionStep, CallStep DEF Inv

THEOREM InvAlways == Spec => []Inv
  BY InvInit, InvNext, PTL DEF Spec

\* Every variable of the driver and of the threads inside it keeps its type, for
\* any number of threads, files and bytes: in particular the semaphore's count
\* never exceeds one, whatever mixture of early returns, errors and signals.
THEOREM TypeCorrect == Spec => []TypeOK
  BY InvAlways, PTL DEF Inv

\* scull_read and scull_write never overlap on a device, and the semaphore is
\* down exactly while one of them is between down_interruptible and up.
THEOREM Exclusive == Spec => []MutualExclusion
  BY InvAlways, PTL DEF Inv

-----------------------------------------------------------------------------
(* How far the list reaches. *)

\* The list reaches every byte below the size, and every item a thread is at.
Reached(t) ==
  /\ pc[t] \in {"idle", "down", "rsize", "rclamp", "trimmed", "drop"} => dptr[t] = 0
  /\ pc[t] \in {"rclamp", "follow"} /\ call[t].op = "read" => Item(pos[t]) <= linked
  /\ pc[t] = "follow" => dptr[t] <= Item(pos[t]) /\ dptr[t] <= linked
  /\ pc[t] \in {"rdata", "rslot", "wdata", "wslot", "copy"}
       => dptr[t] = Item(pos[t]) /\ dptr[t] <= linked
  /\ pc[t] = "wsize" => \A p \in 0 .. pos[t] - 1 : Item(p) <= linked
  /\ pc[t] \in TrimPoints => dptr[t] <= linked
  /\ pc[t] = "item" => next[t] \in {0, dptr[t] + 1} /\ next[t] <= linked

ListReaches ==
  /\ \A p \in 0 .. size - 1 : Item(p) <= linked
  /\ \A t \in Thread : Reached(t)

\* Positions up to the end of a position's quantum are in the same list item.
LEMMA QuantumInItem ==
  ASSUME NEW p \in 0 .. Top, NEW n \in Nat, QPos(p) + n <= QUANTUM,
         NEW q \in 0 .. p + n - 1
  PROVE  Item(q) <= Item(p)
<1> DEFINE i    == p \div ITEMSIZE
           rest == p % ITEMSIZE
           s    == rest \div QUANTUM
           byte == rest % QUANTUM
<1>1. /\ p \in Nat /\ q \in Nat /\ QSET \in Nat
      /\ QUANTUM \in Nat \ {0} /\ ITEMSIZE \in Nat \ {0}
  BY ItemSizePositive, ConstantFacts
<1>2. i \in Nat /\ rest \in 0 .. ITEMSIZE - 1 /\ p = ITEMSIZE * i + rest
  BY <1>1, DivMod
<1>3. rest \in Nat
  BY <1>1, <1>2
<1>4. s \in Nat /\ byte \in 0 .. QUANTUM - 1 /\ rest = QUANTUM * s + byte
  <2> HIDE DEF rest
  <2> QED BY <1>1, <1>3, DivMod
<1>5. s < QSET
  <2>1. s \in Slot
    BY Addressing DEF SPos
  <2> QED BY <1>1, <2>1 DEF Slot
<1>6. byte + n <= QUANTUM
  BY DEF QPos
<1> HIDE DEF i, rest, s, byte
<1>7. QUANTUM * s + QUANTUM <= ITEMSIZE
  BY <1>1, <1>4, <1>5, MulSucc DEF ITEMSIZE
<1>8. ITEMSIZE * i + ITEMSIZE <= ITEMSIZE * (i + 1)
  BY <1>1, <1>2, MulSucc
<1>9. QUANTUM * s \in Nat /\ ITEMSIZE * i \in Nat /\ ITEMSIZE * (i + 1) \in Nat
  BY <1>1, <1>2, <1>4
<1>10. q < ITEMSIZE * (i + 1)
  BY <1>1, <1>2, <1>4, <1>6, <1>7, <1>8, <1>9
<1>11. q \div ITEMSIZE < i + 1 /\ q \div ITEMSIZE \in Nat
  <2>1. i + 1 \in Nat
    BY <1>2
  <2> QED BY <1>1, <2>1, <1>10, DivBound, DivMod
<1> QED BY <1>2, <1>11 DEF i, Item

\* The list never gets shorter: scull_trim leaves the next pointers alone.
LEMMA ListGrows ==
  ASSUME TypeOK, [Next]_vars
  PROVE  linked \in Int /\ linked' \in Int /\ linked <= linked'
<1>1. linked \in Int
  BY ConstantFacts DEF TypeOK, Place
<1>2. ASSUME NEW t \in Thread, FollowNext(t) PROVE linked' \in Int /\ linked <= linked'
  BY <1>1, <1>2 DEF FollowNext
<1>3. ASSUME NEW t \in Thread, Act(t), ~FollowNext(t) PROVE linked' = linked
  BY <1>3 DEF memory, Act, Run, Open, OpenTruncating, Release, EnterRead, EnterWrite,
     Enter, Down, Interrupted, ReadPastEnd, ReadBelow, ReadClamp, Followed, ReadNoArray,
     ReadArray, ReadHole, ReadFound, CopyToUser, WriteArray, WriteNoArray, WriteQuantum,
     WriteNoQuantum, CopyFromUser, CopyFails, WriteSize, Up, Return, Oops, TrimLook,
     TrimQuantum, TrimArray, TrimNull, TrimNext, TrimItem, TrimSize, TrimDone
<1>4. CASE UNCHANGED vars
  BY <1>1, <1>4 DEF vars, memory
<1> QED BY <1>1, <1>2, <1>3, <1>4 DEF Next, Act

\* No step leaves a byte below the size, or a thread, beyond the end of the list.
LEMMA ReachStep ==
  ASSUME Inv, ListReaches, [Next]_vars
  PROVE  ListReaches'
<1> USE DEF memory, files, locals, dead, cursor
<1>0. TypeOK /\ \A t \in Thread : CallOK(t)
  BY DEF Inv
<1>1. linked \in Int /\ linked' \in Int /\ linked <= linked'
  BY <1>0, ListGrows
<1>2. \A p \in 0 .. Top : Item(p) \in Nat
  BY Addressing, ConstantFacts DEF Place
<1>3. CASE UNCHANGED vars
  BY <1>3 DEF vars, ListReaches, Reached
<1>4. ASSUME NEW t \in Thread, Act(t) PROVE \A u \in Thread \ {t} : Reached(u)'
  <2>1. TAKE u \in Thread \ {t}
  <2>2. Reached(u) /\ pos[u] \in 0 .. Top /\ dptr[u] \in Int /\ next[u] \in Int
    BY <1>0, ConstantFacts DEF ListReaches, TypeOK, Place
  <2>3. /\ pc'[u] = pc[u] /\ call'[u] = call[u] /\ pos'[u] = pos[u]
        /\ dptr'[u] = dptr[u] /\ next'[u] = next[u]
    BY <1>0, <1>4, OthersRest DEF Others
  <2>5. \A p \in 0 .. pos[u] - 1 : p \in 0 .. Top
    BY <2>2, ConstantFacts
  <2>6. Item(pos[u]) \in Int
    BY <1>2, <2>2
  <2> QED BY <1>1, <1>2, <2>2, <2>3, <2>5, <2>6 DEF Reached
<1>5. ASSUME NEW t \in Thread, Act(t) PROVE Reached(t)'
  <2>0. /\ Reached(t) /\ CallOK(t) /\ pos[t] \in 0 .. Top /\ count[t] \in Nat
        /\ dptr[t] \in Nat /\ next[t] \in Nat /\ size \in 0 .. MaxPos /\ Item(pos[t]) \in Nat
        /\ linked \in Nat
    BY <1>0, <1>2, ConstantFacts DEF ListReaches, TypeOK, Place
  <2> USE DEF Reached
  <2>1. CASE pc'[t] \in {"up", "return"}
    BY <2>1 DEF TrimPoints
  <2>2. CASE Down(t)
    BY <1>0, <2>0, <2>2 DEF Down, TypeOK, CallOK, TrimPoints
  <2>3. CASE ReadBelow(t)
    <3>1. pos[t] \in 0 .. size - 1
      BY <2>0, <2>3, ConstantFacts DEF ReadBelow
    <3>2. Item(pos[t]) <= linked
      BY <3>1 DEF ListReaches
    <3> QED BY <1>0, <2>0, <2>3, <3>2 DEF ReadBelow, TypeOK, TrimPoints
  <2>4. CASE ReadClamp(t) \/ Followed(t) \/ ReadArray(t)
    BY <1>0, <2>0, <2>4 DEF ReadClamp, Followed, ReadArray, TypeOK, TrimPoints
  <2>5. CASE FollowNext(t)
    BY <1>0, <2>0, <2>5 DEF FollowNext, TypeOK, TrimPoints
  <2>6. CASE ReadFound(t) \/ WriteArray(t) \/ WriteQuantum(t)
    BY <1>0, <2>0, <2>6 DEF ReadFound, WriteArray, WriteQuantum, TypeOK, TrimPoints
  <2>7. CASE CopyFromUser(t)
    <3>1. /\ pc[t] = "copy" /\ pc'[t] = "wsize" /\ pos'[t] = pos[t] + count[t]
          /\ linked' = linked
      BY <1>0, <2>7 DEF CopyFromUser, Advance, TypeOK
    <3>2. QPos(pos[t]) + count[t] <= QUANTUM /\ Item(pos[t]) <= linked
      BY <2>0, <3>1 DEF CallOK
    <3>3. pos[t] + count[t] <= MaxPos
      BY <1>0, <2>0, <2>7 DEF CopyFromUser, CallOK
    <3>4. ASSUME NEW q \in 0 .. pos[t] + count[t] - 1 PROVE Item(q) <= linked
      <4>1. Item(q) <= Item(pos[t])
        BY <2>0, <3>2, QuantumInItem
      <4>2. q \in 0 .. Top
        BY <2>0, <3>3, ConstantFacts
      <4> QED BY <1>1, <1>2, <2>0, <3>2, <4>1, <4>2
    <3>5. \A q \in 0 .. pos'[t] - 1 : Item(q) <= linked'
      <4>1. 0 .. pos'[t] - 1 = 0 .. pos[t] + count[t] - 1
        BY <2>0, <3>1
      <4> QED BY <3>1, <3>4, <4>1
    <3> QED BY <3>1, <3>5 DEF TrimPoints
  <2>8. CASE /\ pc'[t] = pc[t] /\ call'[t] = call[t] /\ pos'[t] = pos[t]
             /\ dptr'[t] = dptr[t] /\ next'[t] = next[t] /\ linked' = linked
    BY <2>0, <2>8
  <2>9. CASE EnterRead(t) \/ EnterWrite(t) \/ OpenTruncating(t)
    <3>1. pc[t] = "idle" /\ pc'[t] \in {"trim", "down"} /\ dptr'[t] = dptr[t] /\ linked' = linked
      BY <1>0, <2>9 DEF OpenTruncating, EnterRead, EnterWrite, Enter, TypeOK
    <3> QED BY <2>0, <3>1
  <2>10. CASE Open(t) \/ Release(t) \/ Oops(t)
    <3>1. UNCHANGED <<pc, call, pos, dptr, next, linked>>
      BY <2>10 DEF Open, Release, Oops
    <3> QED BY <2>8, <3>1
  <2>11. CASE Interrupted(t) \/ ReadPastEnd(t) \/ ReadNoArray(t) \/ ReadHole(t)
              \/ CopyToUser(t) \/ WriteNoArray(t) \/ WriteNoQuantum(t) \/ CopyFails(t)
              \/ WriteSize(t) \/ Up(t)
    <3>1. pc'[t] \in {"up", "return"}
      BY <1>0, <2>11 DEF Interrupted, ReadPastEnd, ReadNoArray, ReadHole, CopyToUser,
         WriteNoArray, WriteNoQuantum, CopyFails, WriteSize, Up, Out, TypeOK
    <3> QED BY <2>1, <3>1
  <2>12. CASE Return(t)
    BY <1>0, <2>12 DEF Return, TypeOK, TrimPoints
  <2>13. CASE TrimLook(t) \/ TrimQuantum(t) \/ TrimArray(t) \/ TrimNull(t)
    <3>1. /\ pc[t] \in {"trim", "frees", "array", "null"} /\ dptr'[t] = dptr[t] /\ linked' = linked
          /\ pc'[t] \in {"frees", "array", "null", "next"}
      BY <1>0, <2>13 DEF TrimLook, TrimQuantum, TrimArray, TrimNull, TypeOK
    <3> QED BY <2>0, <3>1 DEF TrimPoints
  <2>14. CASE TrimNext(t) \/ TrimItem(t)
    <3>1. CASE TrimNext(t)
      BY <1>0, <2>0, <3>1 DEF TrimNext, TypeOK, TrimPoints
    <3>2. CASE TrimItem(t)
      BY <1>0, <2>0, <3>2 DEF TrimItem, TypeOK, TrimPoints
    <3> QED BY <2>14, <3>1, <3>2
  <2>15. CASE TrimSize(t) \/ TrimDone(t)
    <3>1. /\ pc[t] \in {"trimmed", "drop"} /\ dptr'[t] = dptr[t] /\ linked' = linked
          /\ pc'[t] \in {"drop", "idle"}
      BY <1>0, <2>15 DEF TrimSize, TrimDone, TypeOK
    <3> QED BY <2>0, <3>1
  <2> QED BY <1>5, <2>2, <2>3, <2>4, <2>5, <2>6, <2>7, <2>9, <2>10, <2>11, <2>12, <2>13,
             <2>14, <2>15 DEF Act, Run
<1>6. ASSUME NEW t \in Thread, Act(t) PROVE \A p \in 0 .. size' - 1 : Item(p) <= linked'
  <2>0. Reached(t) /\ pos[t] \in 0 .. Top /\ size \in 0 .. MaxPos
    BY <1>0 DEF ListReaches, TypeOK
  <2>1. \A p \in 0 .. size - 1 : Item(p) \in Int /\ Item(p) <= linked
    BY <1>2, <2>0, ConstantFacts DEF ListReaches
  <2>2. CASE size' = size
    BY <1>1, <2>1, <2>2
  <2>3. CASE TrimSize(t)
    BY <2>3 DEF TrimSize
  <2>4. CASE WriteSize(t)
    <3>1. size' = size \/ size' = pos[t]
      BY <2>4 DEF WriteSize, MaxOf
    <3>2. pc[t] = "wsize" /\ linked' = linked
      BY <2>4 DEF WriteSize
    <3> QED BY <2>0, <2>1, <3>1, <3>2 DEF Reached
  <2>5. CASE ~TrimSize(t) /\ ~WriteSize(t)
    <3>1. size' = size
      BY <1>6, <2>5 DEF Act, Run, Open, OpenTruncating, Release, EnterRead, EnterWrite,
         Enter, Down, Interrupted, ReadPastEnd, ReadBelow, ReadClamp, FollowNext, Followed,
         ReadNoArray, ReadArray, ReadHole, ReadFound, CopyToUser, WriteArray, WriteNoArray,
         WriteQuantum, WriteNoQuantum, CopyFromUser, CopyFails, Up, Return, Oops, TrimLook,
         TrimQuantum, TrimArray, TrimNull, TrimNext, TrimItem, TrimDone
    <3> QED BY <2>2, <3>1
  <2> QED BY <2>3, <2>4, <2>5
<1>7. ASSUME NEW t \in Thread, Act(t) PROVE ListReaches'
  BY <1>4, <1>5, <1>6, <1>7 DEF ListReaches
<1> QED BY <1>3, <1>7 DEF Next, Act

LEMMA ReachAlways == Spec => [](Inv /\ ListReaches)
<1>1. Init => ListReaches
  BY DEF Init, ListReaches, Reached, TrimPoints
<1> QED BY <1>1, InvInit, InvNext, ReachStep, PTL DEF Spec

\* A step of a read changes neither the size nor anything in the device's memory.
LEMMA ReadStep ==
  ASSUME Inv, ListReaches, Next,
         NEW t \in Thread, call[t].op = "read", pc'[t] # pc[t] \/ dptr'[t] # dptr[t]
  PROVE  UNCHANGED <<size, memory>>
<1> USE DEF memory
<1>0. TypeOK /\ CallOK(t) /\ Reached(t)
  BY DEF Inv, ListReaches
<1>1. Act(t)
  <2>1. PICK u \in Thread : Act(u)
    BY DEF Next, Act
  <2> QED BY <1>0, <2>1, OthersRest DEF Others
<1>2. CASE FollowNext(t)
  <2>1. /\ Item(pos[t]) <= linked /\ Item(pos[t]) \in Int /\ linked \in Int
        /\ dptr[t] \in Int
    BY <1>0, <1>2, Addressing, ConstantFacts DEF FollowNext, Reached, TypeOK, Place
  <2> QED BY <1>2, <2>1 DEF FollowNext
<1>3. CASE ~FollowNext(t)
  <2>1. /\ ~TrimStep(t) /\ ~WriteArray(t) /\ ~WriteQuantum(t)
        /\ ~CopyFromUser(t) /\ ~WriteSize(t)
    BY <1>0 DEF CallOK, TrimStep, TrimLook, TrimQuantum, TrimArray, TrimNull, TrimNext,
       TrimItem, TrimSize, TrimDone, TrimPoints, WriteArray, WriteQuantum, CopyFromUser,
       WriteSize
  <2>2. CASE CopyFails(t)
    BY <2>2 DEF CopyFails
  <2>3. CASE ~CopyFails(t)
    BY <1>1, <1>3, <2>1, <2>3 DEF Act, Run, TrimStep, Open, OpenTruncating, Release,
       EnterRead, EnterWrite, Enter, Down, Interrupted, ReadPastEnd, ReadBelow, ReadClamp,
       Followed, ReadNoArray, ReadArray, ReadHole, ReadFound, CopyToUser, WriteNoArray,
       WriteNoQuantum, Up, Return, Oops
  <2> QED BY <2>2, <2>3
<1> QED BY <1>2, <1>3

\* Reading changes nothing, whatever truncations run beside it: scull_read calls
\* scull_follow, which allocates, only for items the list already reaches.
THEOREM ReadsChangeNothing == Spec => ReadsLeaveMemory
<1>1. Inv /\ ListReaches /\ [Next]_vars =>
        [\A t \in Thread : call[t].op = "read" /\ (pc'[t] # pc[t] \/ dptr'[t] # dptr[t])
                           => UNCHANGED <<size, memory>>]_vars
  BY ReadStep
<1> QED BY <1>1, ReachAlways, PTL DEF Spec, ReadsLeaveMemory

-----------------------------------------------------------------------------
(* What scull_trim leaves behind. *)

\* A truncation that is past the first item has freed it.
Cut(t) == pc[t] \in TrimPoints /\ dptr[t] > 1 => 1 \notin live

DanglesInv == OnlyNextDangles /\ \A t \in Thread : Cut(t)

\* The pointers that lead to freed arrays, and whoever is to clear them.
LEMMA DeadArraysStep ==
  ASSUME Inv, OnlyNextDangles, NEW t \in Thread, Act(t),
         NEW k \in deadArrays'
  PROVE  \E u \in Thread : dptr'[u] = k /\ pc'[u] = "null"
<1> USE DEF memory, dead
<1>0. TypeOK /\ (\A u \in Thread \ {t} : pc'[u] = pc[u] /\ dptr'[u] = dptr[u])
  BY OthersRest DEF Inv, Others
<1>1. CASE TrimArray(t) /\ k \notin deadArrays
  <2>1. k = dptr[t] /\ pc'[t] = "null" /\ dptr'[t] = dptr[t]
    BY <1>0, <1>1 DEF TrimArray, TypeOK, locals
  <2> QED BY <2>1
<1>2. CASE k \in deadArrays
  <2>1. PICK u \in Thread : dptr[u] = k /\ pc[u] = "null"
    BY <1>2 DEF OnlyNextDangles
  <2>2. CASE u # t
    BY <1>0, <2>1, <2>2
  <2>3. CASE u = t /\ TrimNull(t)
    BY <2>1, <2>3 DEF TrimNull, Forget
  <2>4. CASE u = t /\ ~TrimNull(t)
    <3>1. pc[t] = "null"
      BY <2>1, <2>4
    <3>2. pc'[t] = pc[t] /\ dptr'[t] = dptr[t]
      BY <2>4, <3>1 DEF Act, Run, Open, OpenTruncating, Release, EnterRead,
         EnterWrite, Enter, Down, Interrupted, ReadPastEnd, ReadBelow, ReadClamp, FollowNext,
         Followed, ReadNoArray, ReadArray, ReadHole, ReadFound, CopyToUser, WriteArray,
         WriteNoArray, WriteQuantum, WriteNoQuantum, CopyFromUser, CopyFails, WriteSize,
         Up, Return, Oops, TrimLook, TrimQuantum, TrimArray, TrimNext, TrimItem, TrimSize,
         TrimDone, locals
    <3> QED BY <2>1, <2>4, <3>2
  <2> QED BY <2>2, <2>3, <2>4
<1>3. CASE ~TrimArray(t)
  <2>1. deadArrays' \subseteq deadArrays
    BY <1>3 DEF Act, Run, Open, OpenTruncating, Release, EnterRead,
         EnterWrite, Enter, Down, Interrupted, ReadPastEnd, ReadBelow, ReadClamp, FollowNext,
         Followed, ReadNoArray, ReadArray, ReadHole, ReadFound, CopyToUser, WriteArray,
         WriteNoArray, WriteQuantum, WriteNoQuantum, CopyFromUser, CopyFails, WriteSize,
         Up, Return, Oops, TrimLook, TrimQuantum, TrimNull, TrimNext, TrimItem, TrimSize,
         TrimDone, Forget
  <2> QED BY <1>2, <2>1
<1> QED BY <1>1, <1>2, <1>3

\* The same for freed quanta: between its slot and the end of the array.
LEMMA DeadQuantaStep ==
  ASSUME Inv, OnlyNextDangles, NEW t \in Thread, Act(t),
         NEW q \in deadQuanta'
  PROVE  \E u \in Thread : Passed(u, q)'
<1> USE DEF memory, dead
<1>0. /\ TypeOK
      /\ \A u \in Thread \ {t} : pc'[u] = pc[u] /\ dptr'[u] = dptr[u] /\ slot'[u] = slot[u]
  BY OthersRest DEF Inv, Others
<1>1. slot[t] \in 0 .. QSET - 1 /\ QSET \in Nat
  BY <1>0, ConstantFacts DEF TypeOK, Slot
<1>2. CASE TrimQuantum(t) /\ q \notin deadQuanta
  <2>1. q = <<dptr[t], slot[t]>> /\ dptr'[t] = dptr[t]
    BY <1>2 DEF TrimQuantum
  <2>2. \/ pc'[t] = "frees" /\ slot'[t] = slot[t] + 1
        \/ pc'[t] = "array"
    BY <1>0, <1>2 DEF TrimQuantum, TypeOK
  <2>3. q[1] = dptr[t] /\ q[2] = slot[t]
    BY <2>1
  <2> QED BY <1>1, <2>1, <2>2, <2>3 DEF Passed
<1>3. CASE q \in deadQuanta
  <2>1. PICK u \in Thread : Passed(u, q)
    BY <1>3 DEF OnlyNextDangles
  <2>2. CASE u # t
    BY <1>0, <2>1, <2>2 DEF Passed
  <2>3. CASE u = t /\ TrimNull(t)
    BY <2>1, <2>3 DEF TrimNull, Forget, Passed
  <2>4. CASE u = t /\ TrimQuantum(t)
    <3>1. q \in Place \X Slot /\ Slot = 0 .. QSET - 1
      BY <1>0, <1>3 DEF TypeOK, Slot
    <3>2. q[2] \in Int
      BY <1>1, <3>1
    <3>3. dptr[t] = q[1] /\ slot[t] > q[2] /\ dptr'[t] = dptr[t]
      BY <2>1, <2>4 DEF Passed, TrimQuantum
    <3>4. \/ pc'[t] = "frees" /\ slot'[t] = slot[t] + 1
          \/ pc'[t] = "array"
      BY <1>0, <2>4 DEF TrimQuantum, TypeOK
    <3> QED BY <1>1, <3>2, <3>3, <3>4 DEF Passed
  <2>5. CASE u = t /\ TrimArray(t)
    BY <1>0, <2>1, <2>5 DEF TrimArray, Passed, TypeOK, locals
  <2>6. CASE u = t /\ ~TrimNull(t) /\ ~TrimQuantum(t) /\ ~TrimArray(t)
    <3>1. pc[t] \in {"frees", "array", "null"}
      BY <2>1, <2>6 DEF Passed
    <3>2. pc'[t] = pc[t] /\ dptr'[t] = dptr[t] /\ slot'[t] = slot[t]
      BY <2>6, <3>1 DEF Act, Run, Open, OpenTruncating, Release, EnterRead,
         EnterWrite, Enter, Down, Interrupted, ReadPastEnd, ReadBelow, ReadClamp, FollowNext,
         Followed, ReadNoArray, ReadArray, ReadHole, ReadFound, CopyToUser, WriteArray,
         WriteNoArray, WriteQuantum, WriteNoQuantum, CopyFromUser, CopyFails, WriteSize,
         Up, Return, Oops, TrimLook, TrimNext, TrimItem, TrimSize, TrimDone, locals, cursor
    <3> QED BY <2>1, <2>6, <3>2 DEF Passed
  <2> QED BY <2>2, <2>3, <2>4, <2>5, <2>6
<1>4. CASE ~TrimQuantum(t)
  <2>1. deadQuanta' \subseteq deadQuanta
    BY <1>4 DEF Act, Run, Open, OpenTruncating, Release, EnterRead,
         EnterWrite, Enter, Down, Interrupted, ReadPastEnd, ReadBelow, ReadClamp, FollowNext,
         Followed, ReadNoArray, ReadArray, ReadHole, ReadFound, CopyToUser, WriteArray,
         WriteNoArray, WriteQuantum, WriteNoQuantum, CopyFromUser, CopyFails, WriteSize,
         Up, Return, Oops, TrimLook, TrimArray, TrimNull, TrimNext, TrimItem, TrimSize,
         TrimDone, Forget
  <2> QED BY <1>3, <2>1
<1> QED BY <1>2, <1>3, <1>4

\* The items go in the order of the list, so whoever finds one missing would have
\* found the first one missing.
LEMMA CutStep ==
  ASSUME Inv, ListReaches, DanglesInv, NEW t \in Thread, Act(t)
  PROVE  /\ \A k \in 2 .. linked' : k \notin live' => 1 \notin live'
         /\ \A u \in Thread : Cut(u)'
<1> USE DEF memory, dead
<1>0. /\ TypeOK /\ linked \in Nat /\ Reached(t) /\ Cut(t) /\ dptr[t] \in Nat /\ next[t] \in Nat
      /\ \A u \in Thread : Reached(u) /\ Cut(u) /\ dptr[u] \in Nat
      /\ \A u \in Thread \ {t} : pc'[u] = pc[u] /\ dptr'[u] = dptr[u]
      /\ \A k \in 2 .. linked : k \notin live => 1 \notin live
  <2>1. TypeOK
    BY DEF Inv
  <2>2. \A u \in Thread \ {t} : pc'[u] = pc[u] /\ dptr'[u] = dptr[u]
    BY <2>1, OthersRest DEF Others
  <2>3. linked \in Nat /\ \A u \in Thread : dptr[u] \in Nat /\ next[u] \in Nat
    BY <2>1, ConstantFacts DEF TypeOK, Place
  <2>4. \A u \in Thread : Reached(u) /\ Cut(u)
    BY DEF DanglesInv, ListReaches
  <2>5. \A k \in 2 .. linked : k \notin live => 1 \notin live
    BY DEF DanglesInv, OnlyNextDangles
  <2> QED BY <2>1, <2>2, <2>3, <2>4, <2>5
<1>1. CASE FollowNext(t)
  <2>1. pc[t] = "follow" /\ pc'[t] = "follow" /\ dptr[t] \in live
    BY <1>0, <1>1 DEF FollowNext
  <2>2. CASE dptr[t] = linked /\ linked' = linked + 1 /\ live' = live \cup {linked + 1}
    <3>1. CASE linked = 0
      <4>1. \A u \in Thread : ~(pc[u] \in TrimPoints /\ dptr[u] > 1)
        BY <1>0, <3>1 DEF Reached
      <4> QED BY <1>0, <2>1, <2>2, <3>1, <4>1 DEF Cut, TrimPoints
    <3>2. CASE linked # 0
      <4>1. 1 \in live' <=> 1 \in live
        BY <1>0, <2>2, <3>2
      <4> QED BY <1>0, <2>1, <2>2, <4>1 DEF Cut, TrimPoints
    <3> QED BY <3>1, <3>2
  <2>3. CASE UNCHANGED <<linked, live>>
    BY <1>0, <2>1, <2>3 DEF Cut, TrimPoints
  <2> QED BY <1>1, <2>2, <2>3 DEF FollowNext
<1>2. CASE TrimItem(t)
  <2>1. linked' = linked /\ live' \subseteq live /\ (dptr[t] # 0 => live' = live \ {dptr[t]})
        /\ (dptr[t] = 0 => live' = live)
    BY <1>2 DEF TrimItem
  <2>2. pc[t] = "item" /\ dptr'[t] = next[t] /\ next[t] \in {0, dptr[t] + 1}
    BY <1>0, <1>2 DEF TrimItem, TypeOK, Reached
  <2>3. Cut(t)'
    <3>1. CASE dptr[t] = 0
      BY <1>0, <2>2, <3>1 DEF Cut
    <3>2. CASE dptr[t] = 1
      BY <1>0, <2>1, <3>2 DEF Cut
    <3>3. CASE dptr[t] > 1
      BY <1>0, <2>1, <2>2, <3>3 DEF Cut, TrimPoints
    <3> QED BY <1>0, <3>1, <3>2, <3>3
  <2>4. \A u \in Thread \ {t} : Cut(u)'
    BY <1>0, <2>1 DEF Cut
  <2>5. ASSUME NEW k \in 2 .. linked', k \notin live' PROVE 1 \notin live'
    <3>1. CASE k \notin live
      BY <1>0, <2>1, <2>5, <3>1
    <3>2. CASE k \in live
      <4>1. dptr[t] = k /\ dptr[t] > 1
        BY <1>0, <2>1, <2>5, <3>2
      <4> QED BY <1>0, <2>1, <2>2, <4>1 DEF Cut, TrimPoints
    <3> QED BY <3>1, <3>2
  <2> QED BY <2>3, <2>4, <2>5
<1>3. CASE ~FollowNext(t) /\ ~TrimItem(t)
  <2>1. UNCHANGED <<linked, live>>
    BY <1>3 DEF Act, Run, Open, OpenTruncating, Release, EnterRead,
         EnterWrite, Enter, Down, Interrupted, ReadPastEnd, ReadBelow, ReadClamp,
         Followed, ReadNoArray, ReadArray, ReadHole, ReadFound, CopyToUser, WriteArray,
         WriteNoArray, WriteQuantum, WriteNoQuantum, CopyFromUser, CopyFails, WriteSize,
         Up, Return, Oops, TrimLook, TrimQuantum, TrimArray, TrimNull, TrimNext, TrimSize,
         TrimDone
  <2>2. \/ pc'[t] \notin TrimPoints
        \/ dptr'[t] = dptr[t] /\ (pc[t] \in TrimPoints \/ pc[t] = "idle")
    BY <1>0, <1>3 DEF TypeOK, TrimPoints, Act, Run, Open, OpenTruncating, Release, EnterRead,
         EnterWrite, Enter, Down, Interrupted, ReadPastEnd, ReadBelow, ReadClamp,
         Followed, ReadNoArray, ReadArray, ReadHole, ReadFound, CopyToUser, WriteArray,
         WriteNoArray, WriteQuantum, WriteNoQuantum, CopyFromUser, CopyFails, WriteSize,
         Up, Return, Oops, TrimLook, TrimQuantum, TrimArray, TrimNull, TrimNext, TrimSize,
         TrimDone, Out, locals
  <2>3. pc[t] = "idle" => dptr[t] = 0
    BY <1>0 DEF Reached
  <2> QED BY <1>0, <2>1, <2>2, <2>3 DEF Cut
<1> QED BY <1>1, <1>2, <1>3

\* The only pointer to freed memory that outlives a truncation is dev->next, whoever
\* reads, writes and truncates meanwhile: every other one is cleared by the
\* scull_trim that freed what it leads to.
THEOREM PointersCleared == Spec => []OnlyNextDangles
<1>1. Init => DanglesInv
  BY DEF Init, DanglesInv, OnlyNextDangles, Cut, TrimPoints
<1>2. Inv /\ ListReaches /\ DanglesInv /\ [Next]_vars => DanglesInv'
  <2> SUFFICES ASSUME Inv, ListReaches, DanglesInv, [Next]_vars PROVE DanglesInv'
    OBVIOUS
  <2>1. CASE UNCHANGED vars
    BY <2>1 DEF vars, memory, dead, locals, cursor, DanglesInv, OnlyNextDangles, Cut, Passed
  <2>2. ASSUME NEW t \in Thread, Act(t) PROVE DanglesInv'
    <3>1. OnlyNextDangles
      BY DEF DanglesInv
    <3> QED BY <2>2, <3>1, DeadArraysStep, DeadQuantaStep, CutStep
            DEF DanglesInv, OnlyNextDangles
  <2> QED BY <2>1, <2>2 DEF Next, Act
<1>3. DanglesInv => OnlyNextDangles
  BY DEF DanglesInv
<1> QED BY <1>1, <1>2, <1>3, ReachAlways, PTL DEF Spec

-----------------------------------------------------------------------------
(* Without truncating opens, and with memory for list items, no fault. *)

\* While nobody truncates, every item the list reaches is there, and so are the
\* array and the quantum that an operation has found.
Intact ==
  /\ live = 0 .. linked
  /\ deadArrays = {} /\ deadQuanta = {}
  /\ \A t \in Thread :
       /\ pc[t] \notin TrimPoints
       /\ pc[t] \in {"rslot", "wslot", "copy"} => dptr[t] \in arrays
       /\ pc[t] = "copy" => Here(t) \in quanta
  /\ fault = "none"

LEMMA IntactStep ==
  ASSUME "WRONLY" \notin OpenModes, "item" \notin Failures,
         Inv, ListReaches, Intact, [Next]_vars
  PROVE  Intact'
<1> USE DEF memory, files, locals, dead, cursor
<1>0. /\ TypeOK /\ linked \in Nat
      /\ \A t \in Thread : Reached(t) /\ CallOK(t) /\ dptr[t] \in Nat /\ Item(pos[t]) \in Nat
  <2>1. TypeOK /\ linked \in Nat
    BY ConstantFacts DEF Inv, TypeOK, Place
  <2>2. \A t \in Thread : Reached(t) /\ CallOK(t) /\ dptr[t] \in Nat
    BY ConstantFacts DEF ListReaches, Inv, TypeOK, Place
  <2>3. \A t \in Thread : Item(pos[t]) \in Nat
    BY <2>1, Addressing, ConstantFacts DEF TypeOK, Place
  <2> QED BY <2>1, <2>2, <2>3
<1>1. CASE UNCHANGED vars
  BY <1>1 DEF vars, Intact, Here
<1>2. ASSUME NEW t \in Thread, Act(t) PROVE ~TrimStep(t) /\ ~OpenTruncating(t) /\ ~Oops(t)
  <2>1. ~OpenTruncating(t) /\ pc[t] \notin TrimPoints
    BY DEF Intact, OpenTruncating
  <2>2. ~TrimStep(t)
    BY <2>1 DEF TrimPoints, TrimStep, TrimLook, TrimQuantum, TrimArray, TrimNull, TrimNext,
       TrimItem, TrimSize, TrimDone
  <2>3. ~FollowFreed(t) /\ ~FreedTwice(t)
    BY <1>0, <2>1 DEF FollowFreed, FreedTwice, TrimPoints, Reached, Intact
  <2>4. ~UseFreed(t)
    <3>1. pc[t] \in {"rdata", "rslot", "wdata", "wslot", "copy"} => dptr[t] \in live
      BY <1>0 DEF Reached, Intact
    <3> QED BY <2>1, <3>1 DEF UseFreed, Intact, Mapped, HasArray, TrimPoints
  <2> QED BY <2>1, <2>2, <2>3, <2>4 DEF Oops, ItemNotAllocated
<1>3. ASSUME NEW t \in Thread, Act(t) PROVE live' = 0 .. linked'
  <2>1. CASE FollowNext(t)
    <3>0. live = 0 .. linked
      BY DEF Intact
    <3>1. \/ linked' = linked /\ live' = live
          \/ linked' = linked + 1 /\ live' = live \cup {linked + 1}
      BY <2>1 DEF FollowNext
    <3>2. 0 .. linked + 1 = (0 .. linked) \cup {linked + 1}
      BY <1>0
    <3> QED BY <3>0, <3>1, <3>2
  <2>2. CASE ~FollowNext(t)
    <3>1. live' = live /\ linked' = linked
      BY <1>2, <1>3, <2>2 DEF Act, Run, TrimStep, Open, Release, EnterRead, EnterWrite,
         Enter, Down, Interrupted, ReadPastEnd, ReadBelow, ReadClamp, Followed, ReadNoArray,
         ReadArray, ReadHole, ReadFound, CopyToUser, WriteArray, WriteNoArray, WriteQuantum,
         WriteNoQuantum, CopyFromUser, CopyFails, WriteSize, Up, Return
    <3> QED BY <3>1 DEF Intact
  <2> QED BY <2>1, <2>2
<1>4. ASSUME NEW t \in Thread, Act(t)
      PROVE  /\ arrays \subseteq arrays' /\ quanta \subseteq quanta' /\ fault' = fault
             /\ deadArrays' = deadArrays /\ deadQuanta' = deadQuanta
  BY <1>2, <1>4 DEF Act, Run, TrimStep, Open, Release, EnterRead, EnterWrite,
     Enter, Down, Interrupted, ReadPastEnd, ReadBelow, ReadClamp, FollowNext, Followed,
     ReadNoArray, ReadArray, ReadHole, ReadFound, CopyToUser, WriteArray, WriteNoArray,
     WriteQuantum, WriteNoQuantum, CopyFromUser, CopyFails, WriteSize, Up, Return
<1>5. ASSUME NEW t \in Thread, Act(t)
      PROVE  /\ pc'[t] \notin TrimPoints
             /\ pc'[t] \in {"rslot", "wslot", "copy"} => dptr'[t] \in arrays'
             /\ pc'[t] = "copy" => Here(t)' \in quanta'
  <2>1. CASE WriteArray(t) \/ ReadArray(t)
    BY <1>0, <2>1 DEF WriteArray, ReadArray, TypeOK, TrimPoints
  <2>2. CASE WriteQuantum(t) \/ ReadFound(t)
    BY <1>0, <2>2 DEF WriteQuantum, ReadFound, HasArray, Here, TypeOK, TrimPoints
  <2>3. CASE ~WriteArray(t) /\ ~ReadArray(t) /\ ~WriteQuantum(t) /\ ~ReadFound(t)
    <3>1. \/ pc'[t] = pc[t] /\ pc[t] = "idle"
          \/ pc'[t] \in {"idle", "down", "rsize", "rclamp", "follow", "rdata", "wdata", "wsize",
                         "up", "return"}
      BY <1>0, <1>2, <1>5, <2>3 DEF TypeOK, Act, Run, TrimStep, Open, Release, EnterRead,
         EnterWrite, Enter, Down, Interrupted, ReadPastEnd, ReadBelow, ReadClamp, FollowNext,
         Followed, ReadNoArray, ReadHole, CopyToUser, WriteNoArray, WriteNoQuantum,
         CopyFromUser, CopyFails, WriteSize, Up, Return, Out
    <3> QED BY <3>1 DEF TrimPoints
  <2> QED BY <2>1, <2>2, <2>3
<1>6. ASSUME NEW t \in Thread, Act(t), NEW u \in Thread \ {t}
      PROVE  pc'[u] = pc[u] /\ pos'[u] = pos[u] /\ dptr'[u] = dptr[u]
  BY <1>0, <1>6, OthersRest DEF Others
<1>7. ASSUME NEW t \in Thread, Act(t) PROVE Intact'
  BY <1>3, <1>4, <1>5, <1>6, <1>7 DEF Intact, Here
<1> QED BY <1>1, <1>7 DEF Next, Act

\* If nobody opens the device write-only and no list item fails to be allocated,
\* no thread ever touches memory that is not there.  Failures of the arrays, of
\* the quanta and of the user copies, and signals, are all allowed.
THEOREM NoFaultWithoutTruncation ==
  ASSUME "WRONLY" \notin OpenModes, "item" \notin Failures
  PROVE  Spec => []NoFault
<1>1. Init => Intact
  BY DEF Init, Intact, TrimPoints
<1>2. Inv /\ ListReaches /\ Intact /\ [Next]_vars => Intact'
  BY IntactStep
<1>3. Intact => NoFault
  BY DEF Intact, NoFault
<1> QED BY <1>1, <1>2, <1>3, ReachAlways, PTL DEF Spec

=============================================================================
