-------------------------- MODULE ScullStoreProofs --------------------------
(***************************************************************************)
(* Scull implements ScullStore, and without truncations and offsets of the *)
(* caller's own it has no holes.  Both need what the list of quantum sets  *)
(* computes: that different positions have different bytes in it, and that *)
(* the bytes an operation copies are those of its range of positions.      *)
(***************************************************************************)
EXTENDS ScullProofs

-----------------------------------------------------------------------------
(* Positions and the bytes of the list. *)

\* Quotient and remainder are the only such pair.
LEMMA DivUnique ==
  ASSUME NEW d \in Nat \ {0}, NEW x \in Nat, NEW r \in 0 .. d - 1,
         NEW a, a = d * x + r
  PROVE  a \in Nat /\ a \div d = x /\ a % d = r
<1> DEFINE y == a \div d
<1>1. d * x \in Nat /\ a \in Nat
  BY SMT
<1>2. y \in Nat /\ a = d * y + (a % d) /\ a % d \in 0 .. d - 1
  BY <1>1, DivMod
<1>3. d * y \in Nat
  <2> HIDE DEF y
  <2> QED BY <1>2
<1>4. ~(x < y)
  <2>1. SUFFICES ASSUME x < y PROVE FALSE
    OBVIOUS
  <2>2. d * x + d <= d * y
    BY <1>2, <2>1, MulSucc
  <2> HIDE DEF y
  <2> QED BY <1>1, <1>2, <1>3, <2>2
<1>5. ~(y < x)
  <2>1. SUFFICES ASSUME y < x PROVE FALSE
    OBVIOUS
  <2>2. d * y + d <= d * x
    BY <1>2, <2>1, MulSucc
  <2> HIDE DEF y
  <2> QED BY <1>1, <1>2, <1>3, <2>2
<1>6. y = x
  <2> HIDE DEF y
  <2> QED BY <1>2, <1>4, <1>5
<1>7. a % d = r
  <2>1. d * y = d * x
    BY <1>6
  <2> HIDE DEF y
  <2> QED BY <1>1, <1>2, <1>3, <2>1
<1> QED BY <1>1, <1>6, <1>7

\* A position is the start of its item, its quantum in it and its byte in that.
LEMMA Decompose ==
  ASSUME NEW p \in Nat
  PROVE  /\ Item(p) \in Nat /\ SPos(p) \in Nat /\ QPos(p) \in 0 .. QUANTUM - 1
         /\ ITEMSIZE * Item(p) \in Nat /\ QUANTUM * SPos(p) \in Nat
         /\ QUANTUM * SPos(p) + QPos(p) \in 0 .. ITEMSIZE - 1
         /\ p = ITEMSIZE * Item(p) + (QUANTUM * SPos(p) + QPos(p))
<1> DEFINE rest == p % ITEMSIZE
<1>1. QUANTUM \in Nat \ {0} /\ ITEMSIZE \in Nat \ {0}
  BY ItemSizePositive
<1>2. Item(p) \in Nat /\ rest \in 0 .. ITEMSIZE - 1 /\ p = ITEMSIZE * Item(p) + rest
  BY <1>1, DivMod DEF Item
<1>3. rest \in Nat
  BY <1>1, <1>2
<1>4. SPos(p) \in Nat /\ QPos(p) \in 0 .. QUANTUM - 1 /\ rest = QUANTUM * SPos(p) + QPos(p)
  <2>1. /\ rest \div QUANTUM \in Nat /\ rest % QUANTUM \in 0 .. QUANTUM - 1
        /\ rest = QUANTUM * (rest \div QUANTUM) + (rest % QUANTUM)
    <3> HIDE DEF rest
    <3> QED BY <1>1, <1>3, DivMod
  <2> QED BY <2>1 DEF SPos, QPos
<1> HIDE DEF rest
<1>5. ITEMSIZE * Item(p) \in Nat /\ QUANTUM * SPos(p) \in Nat
  BY <1>1, <1>2, <1>4
<1> QED BY <1>2, <1>4, <1>5

\* In one quantum, positions are as far apart as their bytes.
LEMMA SameQuantum ==
  ASSUME NEW p \in Nat, NEW q \in Nat, Item(p) = Item(q), SPos(p) = SPos(q)
  PROVE  q - p = QPos(q) - QPos(p)
<1> DEFINE base == ITEMSIZE * Item(p)
           start == QUANTUM * SPos(p)
<1>1. base \in Nat /\ start \in Nat /\ QPos(p) \in 0 .. QUANTUM - 1
      /\ p = base + (start + QPos(p))
  BY Decompose
<1>2. QPos(q) \in 0 .. QUANTUM - 1
      /\ q = ITEMSIZE * Item(q) + (QUANTUM * SPos(q) + QPos(q))
  BY Decompose
<1>3. q = base + (start + QPos(q)) /\ QUANTUM \in Nat
  BY <1>2, ItemSizePositive
<1> HIDE DEF base, start
<1> QED BY <1>1, <1>2, <1>3

\* The bytes behind a position are those of the positions behind it, as far as
\* its quantum reaches.
LEMMA AlongQuantum ==
  ASSUME NEW p \in Nat, NEW k \in Nat, QPos(p) + k < QUANTUM
  PROVE  Item(p + k) = Item(p) /\ SPos(p + k) = SPos(p) /\ QPos(p + k) = QPos(p) + k
<1> DEFINE base  == ITEMSIZE * Item(p)
           start == QUANTUM * SPos(p)
           rest  == start + (QPos(p) + k)
<1>1. /\ QUANTUM \in Nat \ {0} /\ ITEMSIZE \in Nat \ {0} /\ QSET \in Nat
  BY ItemSizePositive, ScullAssumption
<1>2. /\ base \in Nat /\ start \in Nat /\ QPos(p) \in 0 .. QUANTUM - 1
      /\ Item(p) \in Nat /\ SPos(p) \in Nat
      /\ start + QPos(p) \in 0 .. ITEMSIZE - 1 /\ p = base + (start + QPos(p))
  BY Decompose
<1>3. SPos(p) < QSET
  <2>1. p % ITEMSIZE \in 0 .. ITEMSIZE - 1
    BY <1>1, DivMod
  <2>2. p % ITEMSIZE \in Nat /\ p % ITEMSIZE < QUANTUM * QSET
    BY <1>1, <2>1 DEF ITEMSIZE
  <2> QED BY <1>1, <2>2, DivBound DEF SPos
<1>4. start + QUANTUM <= ITEMSIZE
  BY <1>1, <1>2, <1>3, MulSucc DEF ITEMSIZE
<1>5. QPos(p) + k \in 0 .. QUANTUM - 1
  BY <1>1, <1>2
<1>6. rest \in 0 .. ITEMSIZE - 1 /\ rest \in Nat /\ p + k = base + rest
  <2> HIDE DEF base, start
  <2> QED BY <1>1, <1>2, <1>4, <1>5
<1>7. (p + k) \div ITEMSIZE = Item(p) /\ (p + k) % ITEMSIZE = rest
  <2>1. p + k = ITEMSIZE * Item(p) + rest
    BY <1>6
  <2> HIDE DEF rest, base
  <2>2. ASSUME NEW a, a = ITEMSIZE * Item(p) + rest
        PROVE  a \div ITEMSIZE = Item(p) /\ a % ITEMSIZE = rest
    BY <1>1, <1>2, <1>6, <2>2, DivUnique
  <2> QED BY <2>1, <2>2
<1>8. rest \div QUANTUM = SPos(p) /\ rest % QUANTUM = QPos(p) + k
  <2>1. rest = QUANTUM * SPos(p) + (QPos(p) + k)
    OBVIOUS
  <2> HIDE DEF rest
  <2> QED BY <1>1, <1>2, <1>5, <2>1, DivUnique
<1> HIDE DEF rest
<1> QED BY <1>7, <1>8 DEF Item, SPos, QPos

\* The n bytes from a position's byte on, in its quantum, are those of the n
\* positions from it on, and of no others.
LEMMA RangeOfBytes ==
  ASSUME NEW p \in Nat, NEW n \in Nat, QPos(p) + n <= QUANTUM, NEW q \in Nat
  PROVE  /\ q \in p .. p + n - 1
              <=> /\ <<Item(q), SPos(q)>> = <<Item(p), SPos(p)>>
                  /\ QPos(q) \in QPos(p) .. QPos(p) + n - 1
         /\ q \in p .. p + n - 1 => QPos(q) - QPos(p) = q - p
<1>1. QPos(p) \in Nat /\ QPos(q) \in Nat /\ QUANTUM \in Nat
  <2>1. QUANTUM \in Nat
    BY ItemSizePositive
  <2>2. QPos(p) \in 0 .. QUANTUM - 1 /\ QPos(q) \in 0 .. QUANTUM - 1
    BY Decompose
  <2> QED BY <2>1, <2>2
<1>2. ASSUME q \in p .. p + n - 1
      PROVE  /\ Item(q) = Item(p) /\ SPos(q) = SPos(p)
             /\ QPos(q) = QPos(p) + (q - p)
  <2>1. q - p \in Nat /\ QPos(p) + (q - p) < QUANTUM /\ p + (q - p) = q
    BY <1>1, <1>2
  <2> QED BY <2>1, AlongQuantum
<1>3. ASSUME Item(q) = Item(p), SPos(q) = SPos(p),
             QPos(q) \in QPos(p) .. QPos(p) + n - 1
      PROVE  q \in p .. p + n - 1
  <2>1. q - p = QPos(q) - QPos(p)
    BY <1>3, SameQuantum
  <2> QED BY <1>1, <1>3, <2>1
<1>4. q \in p .. p + n - 1 => QPos(q) \in QPos(p) .. QPos(p) + n - 1 /\ QPos(q) - QPos(p) = q - p
  BY <1>1, <1>2
<1> QED BY <1>2, <1>3, <1>4

-----------------------------------------------------------------------------
(* What ties a call to its request. *)

\* Who truncates is alone: nobody opens write-only, or there is one thread.
TruncatesAlone == "WRONLY" \in OpenModes => \A t, u \in Thread : t = u

\* The call has not taken effect, and is no truncation.
Early(t) == pc[t] \in {"down", "rsize", "rclamp", "follow", "rdata", "rslot", "wdata",
                       "wslot", "copy"}

\* What a truncation knows: it is alone, it has freed what it has passed, and it goes
\* on wherever the list does.
KnownTrim(t) ==
  /\ Trimming(t) => \A u \in Thread : u = t
  /\ pc[t] \in {"trim", "frees", "array", "null"} => \A q \in quanta : dptr[t] <= q[1]
  /\ pc[t] \in {"next", "item"} => \A q \in quanta : dptr[t] < q[1]
  /\ pc[t] = "item" => next[t] = IF dptr[t] < linked THEN dptr[t] + 1 ELSE 0
  /\ pc[t] \in {"trimmed", "drop"} => quanta = {}
  /\ pc[t] = "drop" => size = 0

\* What thread t knows of its call at each point: before its effect it still has its
\* position, a count cut to no less than one byte, and no result; a read is below
\* the size.
Known(t) ==
  /\ pc[t] = "idle" \/ Trimming(t) => ret[t] = 0
  /\ pc[t] \notin {"up", "return"} => got[t] = <<>>
  /\ pos[t] <= MaxPos
  /\ Early(t) => /\ pos[t] = call[t].at /\ count[t] <= call[t].len
                 /\ count[t] = 0 => call[t].len = 0
  /\ call[t].op = "read" /\ pc[t] \in {"rclamp", "follow", "rdata", "rslot", "copy"}
       => pos[t] < size
  /\ call[t].op = "read" /\ pc[t] \in {"follow", "rdata", "rslot", "copy"}
       => pos[t] + count[t] <= size

RInv ==
  /\ Inv /\ ListReaches
  /\ \A q \in quanta : q[1] <= linked /\ q[1] \in arrays
  /\ \A f \in File : f_pos[f] <= MaxPos
  /\ \A t \in Thread : KnownTrim(t) /\ Known(t)

\* Without truncations and offsets of the caller's own: nobody is past the size
\* but a write that has not updated it yet, and that one has left no hole.
NoHoles ==
  /\ DenseDevice
  /\ \A t \in Thread :
       /\ ~Trimming(t)
       /\ pc[t] = "wsize" => \A p \in 0 .. pos[t] - 1 : Written(p)

-----------------------------------------------------------------------------
(* RInv is invariant. *)

\* A step of thread t leaves the other threads' results alone.
LEMMA OthersResults ==
  ASSUME TypeOK, NEW t \in Thread, Act(t), NEW u \in Thread \ {t}
  PROVE  ret'[u] = ret[u] /\ got'[u] = got[u]
<1> USE DEF files, memory, dead, cursor, locals, TypeOK
<1>1. CASE Open(t) \/ OpenTruncating(t) \/ Release(t)
  BY <1>1 DEF Open, OpenTruncating, Release
<1>2. CASE EnterRead(t) \/ EnterWrite(t)
  BY <1>2 DEF EnterRead, EnterWrite, Enter
<1>3. CASE Down(t) \/ Interrupted(t) \/ ReadPastEnd(t) \/ ReadBelow(t) \/ ReadClamp(t)
           \/ FollowNext(t) \/ Followed(t)
  BY <1>3 DEF Down, Interrupted, ReadPastEnd, ReadBelow, ReadClamp, FollowNext, Followed, Out
<1>4. CASE ReadNoArray(t) \/ ReadArray(t) \/ ReadHole(t) \/ ReadFound(t)
           \/ CopyToUser(t) \/ CopyFromUser(t)
  BY <1>4 DEF ReadNoArray, ReadArray, ReadHole, ReadFound, CopyToUser, CopyFromUser,
              Advance, Out
<1>5. CASE WriteArray(t) \/ WriteNoArray(t) \/ WriteQuantum(t) \/ WriteNoQuantum(t)
  BY <1>5 DEF WriteArray, WriteNoArray, WriteQuantum, WriteNoQuantum, Out
<1>6. CASE CopyFails(t) \/ WriteSize(t) \/ Up(t) \/ Return(t) \/ Oops(t)
  BY <1>6 DEF CopyFails, WriteSize, Up, Return, Oops, Out
<1>7. CASE TrimStep(t)
  BY <1>7 DEF TrimStep, TrimLook, TrimQuantum, TrimArray, TrimNull, TrimNext, TrimItem,
              TrimSize, TrimDone
<1> QED BY <1>1, <1>2, <1>3, <1>4, <1>5, <1>6, <1>7 DEF Act, Run, TrimStep

\* A step of scull_trim is one of a thread that truncates.
LEMMA TrimStepTrims ==
  ASSUME NEW t \in Thread, TrimStep(t)
  PROVE  Trimming(t)
BY DEF TrimStep, TrimLook, TrimQuantum, TrimArray, TrimNull, TrimNext, TrimItem, TrimSize,
   TrimDone, Trimming, TrimPoints

\* Only the end of a write and that of a truncation change the size.
LEMMA SizeRests ==
  ASSUME NEW t \in Thread, Act(t), ~WriteSize(t), ~TrimSize(t)
  PROVE  size' = size
BY DEF Act, Run, Open, OpenTruncating, Release, EnterRead, EnterWrite, Enter, Down,
   Interrupted, ReadPastEnd, ReadBelow, ReadClamp, FollowNext, Followed, ReadNoArray,
   ReadArray, ReadHole, ReadFound, CopyToUser, WriteArray, WriteNoArray, WriteQuantum,
   WriteNoQuantum, CopyFromUser, CopyFails, Up, Return, Oops, TrimLook, TrimQuantum,
   TrimArray, TrimNull, TrimNext, TrimItem, TrimDone

\* Only truncations and WriteQuantum change which quanta there are, and only they
\* and copies from the user what is in them.
LEMMA MemRests ==
  ASSUME NEW t \in Thread, Act(t), ~TrimStep(t), ~WriteQuantum(t)
  PROVE  /\ quanta' = quanta /\ arrays \subseteq arrays'
         /\ ~CopyFromUser(t) /\ ~CopyFails(t) => mem' = mem
BY DEF memory, Act, Run, TrimStep, Open, OpenTruncating, Release, EnterRead, EnterWrite,
   Enter, Down, Interrupted, ReadPastEnd, ReadBelow, ReadClamp, FollowNext, Followed,
   ReadNoArray, ReadArray, ReadHole, ReadFound, CopyToUser, WriteArray, WriteNoArray,
   WriteNoQuantum, CopyFromUser, CopyFails, WriteSize, Up, Return, Oops

\* What a truncation takes from the quanta and the arrays.
LEMMA TrimTakes ==
  ASSUME NEW t \in Thread, TrimStep(t)
  PROVE  \/ quanta' = quanta /\ arrays' = arrays
         \/ \E k \in {0, dptr[t]} : /\ quanta' = {q \in quanta : q[1] # k}
                                    /\ arrays' = arrays \ {k}
BY DEF memory, TrimStep, TrimLook, TrimQuantum, TrimArray, TrimNull, TrimNext, TrimItem,
   TrimSize, TrimDone, Forget

\* What thread t knows survives the steps of another thread.
LEMMA KnownOthers ==
  ASSUME RInv, NEW t \in Thread, Act(t), NEW u \in Thread \ {t}
  PROVE  KnownTrim(u)' /\ Known(u)'
<1>0. /\ TypeOK /\ MutualExclusion /\ CallOK(t)
      /\ KnownTrim(t) /\ KnownTrim(u) /\ Known(t) /\ Known(u)
  BY DEF RInv, Inv
<1>1. /\ pc'[u] = pc[u] /\ call'[u] = call[u] /\ pos'[u] = pos[u] /\ count'[u] = count[u]
      /\ dptr'[u] = dptr[u] /\ ret'[u] = ret[u] /\ got'[u] = got[u]
  BY <1>0, OthersRest, OthersResults DEF Others
<1>2. ~Trimming(u) /\ ~Trimming(t)
  BY <1>0 DEF KnownTrim
<1>3. InSem(u) => size' = size
  <2>1. InSem(u) => ~WriteSize(t)
    BY <1>0 DEF WriteSize, MutualExclusion, InSem
  <2>2. ~TrimSize(t)
    BY <1>2, TrimStepTrims DEF TrimStep
  <2> QED BY <2>1, <2>2, SizeRests
<1>4. pc[u] \in {"rclamp", "follow", "rdata", "rslot", "copy"} => size' = size
  BY <1>3 DEF InSem
<1>5. Known(u)'
  BY <1>0, <1>1, <1>2, <1>4 DEF Known, Trimming, Early
<1>6. KnownTrim(u)'
  BY <1>1, <1>2 DEF KnownTrim, Trimming, TrimPoints
<1> QED BY <1>5, <1>6

\* What a truncation knows survives its own steps, and holds when it starts.
LEMMA KnownTrimOwn ==
  ASSUME TruncatesAlone, RInv, [Next]_vars, NEW t \in Thread, Act(t)
  PROVE  KnownTrim(t)'
<1> USE DEF files, memory, dead, cursor, locals
<1>0. /\ TypeOK /\ KnownTrim(t) /\ Reached(t) /\ dptr[t] \in Nat /\ next[t] \in Nat
      /\ linked \in Nat /\ linked' \in Int /\ linked <= linked'
      /\ \A q \in quanta : q[1] \in Nat /\ q[1] <= linked /\ q[1] \in arrays
  <2>1. TypeOK /\ KnownTrim(t) /\ Reached(t) /\ ListReaches
    BY DEF RInv, Inv, ListReaches
  <2>2. linked' \in Int /\ linked <= linked'
    BY <2>1, ListGrows
  <2>3. dptr[t] \in Nat /\ next[t] \in Nat /\ linked \in Nat
    BY <2>1, ConstantFacts DEF TypeOK, Place
  <2>4. \A q \in quanta : q[1] \in Nat /\ q[1] <= linked /\ q[1] \in arrays
    BY <2>1, ConstantFacts DEF RInv, TypeOK, Place
  <2> QED BY <2>1, <2>2, <2>3, <2>4
<1>1. CASE OpenTruncating(t)
  <2>1. /\ pc[t] = "idle" /\ pc'[t] = "trim" /\ "WRONLY" \in OpenModes
        /\ UNCHANGED <<quanta, dptr>>
    BY <1>0, <1>1 DEF OpenTruncating, TypeOK
  <2>2. dptr[t] = 0 /\ \A u \in Thread : u = t
    BY <1>0, <2>1 DEF TruncatesAlone, Reached
  <2> QED BY <1>0, <2>1, <2>2 DEF KnownTrim
<1>2. CASE TrimStep(t) /\ ~TrimDone(t)
  <2>1. Trimming(t) /\ \A u \in Thread : u = t
    BY <1>0, <1>2, TrimStepTrims DEF KnownTrim
  <2>2. CASE TrimLook(t)
    <3>1. /\ pc[t] = "trim" /\ UNCHANGED <<quanta, arrays, dptr>>
          /\ pc'[t] = IF dptr[t] \in arrays THEN "frees" ELSE "next"
      BY <1>0, <2>2 DEF TrimLook, TypeOK
    <3>2. dptr[t] \notin arrays => \A q \in quanta : dptr[t] < q[1]
      BY <1>0, <3>1 DEF KnownTrim
    <3> QED BY <1>0, <2>1, <3>1, <3>2 DEF KnownTrim
  <2>3. CASE TrimQuantum(t) \/ TrimArray(t)
    <3>1. /\ pc[t] \in {"frees", "array"} /\ pc'[t] \in {"frees", "array", "null"}
          /\ UNCHANGED <<quanta, dptr>>
      BY <1>0, <2>3 DEF TrimQuantum, TrimArray, TypeOK
    <3> QED BY <1>0, <2>1, <3>1 DEF KnownTrim
  <2>4. CASE TrimNull(t)
    <3>1. /\ pc[t] = "null" /\ pc'[t] = "next" /\ UNCHANGED dptr
          /\ quanta' = {q \in quanta : q[1] # dptr[t]}
      BY <1>0, <2>4 DEF TrimNull, Forget, TypeOK
    <3>2. \A q \in quanta' : dptr[t] < q[1]
      BY <1>0, <3>1 DEF KnownTrim
    <3> QED BY <1>0, <2>1, <3>1, <3>2 DEF KnownTrim
  <2>5. CASE TrimNext(t)
    <3>1. /\ pc[t] = "next" /\ pc'[t] = "item" /\ UNCHANGED <<quanta, dptr, linked>>
          /\ next'[t] = IF dptr[t] < linked THEN dptr[t] + 1 ELSE 0
      BY <1>0, <2>5 DEF TrimNext, TypeOK
    <3> QED BY <1>0, <2>1, <3>1 DEF KnownTrim
  <2>6. CASE TrimItem(t)
    <3>1. /\ pc[t] = "item" /\ quanta' \subseteq quanta /\ dptr'[t] = next[t]
          /\ pc'[t] = IF next[t] = 0 THEN "trimmed" ELSE "trim"
      BY <1>0, <2>6 DEF TrimItem, TypeOK
    <3>2. /\ next[t] = IF dptr[t] < linked THEN dptr[t] + 1 ELSE 0
          /\ \A q \in quanta : dptr[t] < q[1]
      BY <1>0, <3>1 DEF KnownTrim
    <3>3. CASE next[t] = 0
      <4>1. quanta' = {}
        BY <1>0, <3>1, <3>2, <3>3
      <4> QED BY <2>1, <3>1, <3>3, <4>1 DEF KnownTrim
    <3>4. CASE next[t] # 0
      <4>1. \A q \in quanta' : next[t] <= q[1]
        BY <1>0, <3>1, <3>2, <3>4
      <4> QED BY <2>1, <3>1, <3>4, <4>1 DEF KnownTrim
    <3> QED BY <3>3, <3>4
  <2>7. CASE TrimSize(t)
    <3>1. pc[t] = "trimmed" /\ pc'[t] = "drop" /\ quanta' = quanta /\ size' = 0
      BY <1>0, <2>7 DEF TrimSize, TypeOK
    <3> QED BY <1>0, <2>1, <3>1 DEF KnownTrim
  <2> QED BY <1>2, <2>2, <2>3, <2>4, <2>5, <2>6, <2>7 DEF TrimStep
<1>3. CASE Oops(t)
  BY <1>0, <1>3 DEF Oops, KnownTrim, Trimming
<1>4. CASE ~OpenTruncating(t) /\ ~Oops(t) /\ (TrimStep(t) => TrimDone(t))
  <2>1. pc'[t] \notin TrimPoints
    BY <1>0, <1>4 DEF TypeOK, TrimPoints, Act, Run, TrimStep, Open, Release, EnterRead,
       EnterWrite, Enter, Down, Interrupted, ReadPastEnd, ReadBelow, ReadClamp, FollowNext,
       Followed, ReadNoArray, ReadArray, ReadHole, ReadFound, CopyToUser, WriteArray,
       WriteNoArray, WriteQuantum, WriteNoQuantum, CopyFromUser, CopyFails, WriteSize, Up,
       Return, Out, TrimDone
  <2> QED BY <2>1 DEF KnownTrim, Trimming, TrimPoints
<1> QED BY <1>1, <1>2, <1>3, <1>4

\* What thread t knows survives its own steps.
LEMMA KnownOwn ==
  ASSUME RInv, NEW t \in Thread, Act(t)
  PROVE  Known(t)'
<1> USE DEF files, memory, dead, cursor, locals
<1>0. /\ TypeOK /\ CallOK(t) /\ Known(t) /\ call[t] \in Calls /\ size \in Nat
      /\ pos[t] \in Nat /\ count[t] \in Nat /\ call[t].len \in Nat
      /\ size <= MaxPos /\ MaxPos \in Nat
  <2>1. TypeOK /\ CallOK(t) /\ Known(t)
    BY DEF RInv, Inv
  <2>2. /\ call[t] \in Calls /\ size \in 0 .. MaxPos /\ pos[t] \in 0 .. Top
        /\ count[t] \in Nat /\ call[t].len \in Nat
    BY <2>1 DEF TypeOK, Calls
  <2> QED BY <2>1, <2>2, ConstantFacts
<1>1. CASE Open(t) \/ Release(t)
  BY <1>0, <1>1 DEF Known, Trimming, TrimPoints, Early, Open, Release, TypeOK
<1>2. CASE OpenTruncating(t)
  <2>1. pc[t] = "idle" /\ pc'[t] = "trim" /\ UNCHANGED <<ret, got, pos>>
    BY <1>0, <1>2 DEF OpenTruncating, TypeOK
  <2> QED BY <1>0, <2>1 DEF Known, Trimming, TrimPoints, Early
<1>3. CASE TrimStep(t)
  <2>1. UNCHANGED <<ret, got, pos>>
    BY <1>3 DEF TrimStep, TrimLook, TrimQuantum, TrimArray, TrimNull, TrimNext, TrimItem,
       TrimSize, TrimDone
  <2>2. pc[t] \in TrimPoints /\ pc'[t] \in TrimPoints \cup {"idle"}
    BY <1>0, <1>3 DEF TrimStep, TrimLook, TrimQuantum, TrimArray, TrimNull, TrimNext,
       TrimItem, TrimSize, TrimDone, TypeOK, TrimPoints
  <2> QED BY <1>0, <2>1, <2>2 DEF Known, Trimming, TrimPoints, Early
<1>4. ASSUME NEW f \in File, NEW op \in {"read", "write"}, NEW len \in Nat, NEW data,
             NEW at, NEW seek, Enter(t, f, op, at, len, data, seek), at <= MaxPos
      PROVE  Known(t)'
  <2>1. /\ pc[t] = "idle" /\ pc'[t] = "down" /\ pos'[t] = at /\ count'[t] = len
        /\ call'[t].at = at /\ call'[t].len = len /\ got' = got
    BY <1>0, <1>4 DEF Enter, TypeOK
  <2>2. got[t] = <<>>
    BY <1>0, <2>1 DEF Known
  <2> QED BY <1>4, <2>1, <2>2 DEF Known, Trimming, TrimPoints, Early
<1>5. (\A f \in File : f_pos[f] <= MaxPos) /\ \A at \in Offsets : at <= MaxPos
  BY ConstantFacts DEF RInv
<1>6. CASE EnterRead(t)
  BY <1>4, <1>5, <1>6, ConstantFacts DEF EnterRead
<1>7. CASE EnterWrite(t)
  BY <1>4, <1>5, <1>7, ConstantFacts DEF EnterWrite
<1>8. CASE Down(t) \/ ReadBelow(t) \/ FollowNext(t) \/ Followed(t) \/ ReadArray(t)
           \/ WriteArray(t)
  <2>1. UNCHANGED <<size, pos, count, call, got>>
    BY <1>8 DEF Down, ReadBelow, FollowNext, Followed, ReadArray, WriteArray
  <2>2. CASE Down(t)
    BY <1>0, <2>1, <2>2 DEF Known, Trimming, TrimPoints, Early, Down, TypeOK, CallOK
  <2>3. CASE ReadBelow(t)
    BY <1>0, <2>1, <2>3 DEF Known, Trimming, TrimPoints, Early, ReadBelow, TypeOK, CallOK
  <2>4. CASE FollowNext(t) \/ Followed(t)
    BY <1>0, <2>1, <2>4 DEF Known, Trimming, TrimPoints, Early, FollowNext, Followed,
       TypeOK, CallOK
  <2>5. CASE ReadArray(t) \/ WriteArray(t)
    BY <1>0, <2>1, <2>5 DEF Known, Trimming, TrimPoints, Early, ReadArray, WriteArray,
       TypeOK, CallOK
  <2> QED BY <1>8, <2>2, <2>3, <2>4, <2>5
<1>9. CASE Interrupted(t) \/ ReadPastEnd(t) \/ ReadNoArray(t) \/ ReadHole(t)
           \/ WriteNoArray(t) \/ WriteNoQuantum(t) \/ CopyFails(t) \/ WriteSize(t) \/ Up(t)
  <2>1. pc'[t] \in {"up", "return"} /\ pos' = pos
    BY <1>0, <1>9 DEF Interrupted, ReadPastEnd, ReadNoArray, ReadHole, WriteNoArray,
       WriteNoQuantum, CopyFails, WriteSize, Up, Out, TypeOK
  <2> QED BY <1>0, <2>1 DEF Known, Trimming, TrimPoints, Early
<1>10. CASE ReadClamp(t)
  <2>1. /\ pc[t] = "rclamp" /\ pc'[t] = "follow" /\ call[t].op = "read"
        /\ UNCHANGED <<size, call, pos, got>>
        /\ count'[t] = IF pos[t] + count[t] <= size THEN count[t]
                       ELSE IF pos[t] <= size THEN size - pos[t] ELSE WORD + size - pos[t]
    BY <1>0, <1>10 DEF ReadClamp, TypeOK, CallOK
  <2>2. pos[t] < size
    BY <1>0, <2>1 DEF Known
  <2>3. /\ count'[t] \in Nat /\ count'[t] <= count[t] /\ pos[t] + count'[t] <= size
        /\ count'[t] = 0 => count[t] = 0
    BY <1>0, <2>1, <2>2
  <2> QED BY <1>0, <2>1, <2>2, <2>3 DEF Known, Trimming, TrimPoints, Early
<1>11. CASE ReadFound(t) \/ WriteQuantum(t)
  <2>1. /\ pc[t] \in {"rslot", "wslot"} /\ pc'[t] = "copy"
        /\ count'[t] = MinOf(count[t], QUANTUM - QPos(pos[t]))
        /\ UNCHANGED <<size, call, pos, got>>
    BY <1>0, <1>11 DEF ReadFound, WriteQuantum, TypeOK
  <2>2. QPos(pos[t]) \in 0 .. QUANTUM - 1 /\ QUANTUM \in Nat
    BY <1>0, Decompose, ItemSizePositive
  <2>3. count'[t] \in Nat /\ count'[t] <= count[t] /\ (count'[t] = 0 => count[t] = 0)
    BY <1>0, <2>1, <2>2 DEF MinOf
  <2>4. call[t].op = "read" => pc[t] = "rslot"
    BY <1>0, <2>1 DEF CallOK
  <2> QED BY <1>0, <2>1, <2>3, <2>4 DEF Known, Trimming, TrimPoints, Early
<1>12. CASE CopyToUser(t) \/ CopyFromUser(t)
  <2>1. /\ pc[t] = "copy" /\ pos'[t] = pos[t] + count[t] /\ call' = call
        /\ \/ call[t].op = "read" /\ pc'[t] = "up"
           \/ call[t].op = "write" /\ pc'[t] = "wsize" /\ got' = got
    BY <1>0, <1>12 DEF CopyToUser, CopyFromUser, Advance, TypeOK
  <2>2. pos[t] + count[t] <= MaxPos
    <3>1. CASE call[t].op = "read"
      <4>1. pos[t] + count[t] <= size
        BY <1>0, <2>1, <3>1 DEF Known
      <4> QED BY <1>0, <4>1
    <3>2. CASE call[t].op = "write"
      BY <1>0, <2>1, <3>2 DEF CallOK
    <3> QED BY <2>1, <3>1, <3>2
  <2> QED BY <1>0, <2>1, <2>2 DEF Known, Trimming, TrimPoints, Early
<1>13. CASE Return(t)
  <2>1. pc'[t] = "idle" /\ pos'[t] = 0 /\ ret'[t] = 0 /\ got'[t] = <<>>
    BY <1>0, <1>13 DEF Return, TypeOK
  <2> QED BY <1>0, <2>1 DEF Known, Trimming, Early
<1>14. CASE Oops(t)
  BY <1>0, <1>14 DEF Oops, Known, Trimming, Early
<1> QED BY <1>1, <1>2, <1>3, <1>6, <1>7, <1>8, <1>9, <1>10, <1>11, <1>12, <1>13,
           <1>14 DEF Act, Run, TrimStep

LEMMA RInvStep ==
  ASSUME TruncatesAlone, RInv, [Next]_vars
  PROVE  RInv'
<1>0. Inv /\ ListReaches /\ TypeOK /\ MaxPos \in Nat
  BY ConstantFacts DEF RInv, Inv
<1>1. Inv' /\ ListReaches'
  BY <1>0, InvNext, ReachStep
<1>2. CASE UNCHANGED vars
  BY <1>1, <1>2 DEF vars, memory, dead, files, cursor, locals, RInv, KnownTrim, Known,
     Trimming, Early
<1>3. ASSUME NEW t \in Thread, Act(t)
      PROVE  \A q \in quanta' : q[1] <= linked' /\ q[1] \in arrays'
  <2>1. linked \in Int /\ linked' \in Int /\ linked <= linked'
    BY <1>0, ListGrows
  <2>2. \A q \in quanta : q[1] \in Int /\ q[1] <= linked /\ q[1] \in arrays
    BY <1>0, ConstantFacts DEF RInv, TypeOK, Place
  <2>3. CASE WriteQuantum(t)
    <3>1. dptr[t] <= linked /\ dptr[t] \in Int /\ dptr[t] \in arrays /\ arrays' = arrays
      BY <1>0, <2>3, ConstantFacts DEF WriteQuantum, HasArray, ListReaches, Reached, TypeOK,
         Place
    <3> QED BY <2>1, <2>2, <2>3, <3>1 DEF WriteQuantum, Here
  <2>4. CASE TrimStep(t)
    <3>1. \A q \in quanta' : q \in quanta /\ q[1] \in arrays'
      BY <2>2, <2>4, TrimTakes
    <3> QED BY <2>1, <2>2, <3>1
  <2>5. CASE ~WriteQuantum(t) /\ ~TrimStep(t)
    BY <1>3, <2>1, <2>2, <2>5, MemRests
  <2> QED BY <2>3, <2>4, <2>5
<1>4. ASSUME NEW t \in Thread, Act(t), NEW u \in Thread PROVE KnownTrim(u)' /\ Known(u)'
  BY <1>4, KnownOwn, KnownTrimOwn, KnownOthers
<1>5. ASSUME NEW t \in Thread, Act(t), NEW f \in File PROVE f_pos'[f] <= MaxPos
  <2>1. f_pos[f] <= MaxPos /\ pos[t] <= MaxPos
    BY DEF RInv, Known
  <2>2. f_pos'[f] \in {f_pos[f], 0, pos[t]}
    BY <1>0, <1>5 DEF TypeOK, files, locals, Act, Run, TrimLook, TrimQuantum, TrimArray,
       TrimNull, TrimNext, TrimItem, TrimSize, TrimDone, Open, OpenTruncating, Release,
       EnterRead, EnterWrite, Enter, Down, Interrupted, ReadPastEnd, ReadBelow, ReadClamp,
       FollowNext, Followed, ReadNoArray, ReadArray, ReadHole, ReadFound, CopyToUser,
       WriteArray, WriteNoArray, WriteQuantum, WriteNoQuantum, CopyFromUser, CopyFails,
       WriteSize, Up, Return, Oops
  <2> QED BY <1>0, <2>1, <2>2
<1> QED BY <1>1, <1>2, <1>3, <1>4, <1>5 DEF Next, Act, RInv

LEMMA RInvInit == Init => RInv
<1> SUFFICES ASSUME Init PROVE RInv
  OBVIOUS
<1>1. Inv /\ ListReaches
  BY InvInit DEF Init, ListReaches, Reached, TrimPoints
<1>2. \A t \in Thread : KnownTrim(t) /\ Known(t)
  BY ConstantFacts DEF Init, KnownTrim, Known, Trimming, TrimPoints, Early
<1>3. \A f \in File : f_pos[f] <= MaxPos
  BY ConstantFacts DEF Init
<1> QED BY <1>1, <1>2, <1>3 DEF RInv, Init

LEMMA RInvAlways ==
  ASSUME TruncatesAlone
  PROVE  Spec => []RInv
<1>1. RInv /\ [Next]_vars => RInv'
  BY RInvStep
<1> QED BY RInvInit, <1>1, PTL DEF Spec

-----------------------------------------------------------------------------
(* What is stored at a position. *)

Stored(p) == IF Written(p) THEN mem[<<Item(p), SPos(p), QPos(p)>>] ELSE Junk

LEMMA StoredIs ==
  ASSUME TypeOK, NEW p \in 0 .. MaxPos - 1
  PROVE  /\ p \in 0 .. Top /\ <<Item(p), SPos(p), QPos(p)>> \in Cell
         /\ Stored(p) \in Byte \cup {Junk}
         /\ Written(p) <=> Stored(p) \in Byte
<1>1. p \in 0 .. Top /\ Junk \notin Byte
  BY ScullAssumption, ConstantFacts
<1>2. <<Item(p), SPos(p), QPos(p)>> \in Cell
  BY <1>1, Addressing DEF Cell
<1> QED BY <1>1, <1>2 DEF TypeOK, Stored, Written

\* A copy into the quantum lands at the positions of its range, and nowhere else.
LEMMA PutStored ==
  ASSUME TypeOK, NEW t \in Thread, CallOK(t), Reached(t), pc[t] = "copy",
         Here(t) \in quanta, quanta' = quanta,
         NEW bytes, \A k \in 1 .. count[t] : bytes[k] \in Byte, PutBytes(t, bytes),
         NEW p \in 0 .. MaxPos - 1
  PROVE  Stored(p)' = IF p \in pos[t] .. pos[t] + count[t] - 1
                      THEN bytes[p - pos[t] + 1] ELSE Stored(p)
<1> DEFINE c == <<Item(p), SPos(p), QPos(p)>>
           covered == p \in pos[t] .. pos[t] + count[t] - 1
<1>1. /\ pos[t] \in Nat /\ count[t] \in Nat /\ p \in Nat /\ QPos(pos[t]) \in Int
      /\ QPos(pos[t]) + count[t] <= QUANTUM /\ QPos(p) \in Int
      /\ Here(t) = <<Item(pos[t]), SPos(pos[t])>> /\ c \in Cell
  <2>1. pos[t] \in 0 .. Top /\ count[t] \in Nat /\ dptr[t] = Item(pos[t])
    BY DEF TypeOK, Reached
  <2>2. QPos(pos[t]) \in 0 .. QUANTUM - 1 /\ QPos(p) \in 0 .. QUANTUM - 1
    BY <2>1, StoredIs, Addressing
  <2> QED BY <2>1, <2>2, StoredIs, ConstantFacts DEF Here, CallOK
<1>2. /\ covered <=> /\ <<Item(p), SPos(p)>> = Here(t)
                     /\ QPos(p) \in QPos(pos[t]) .. QPos(pos[t]) + count[t] - 1
      /\ covered => QPos(p) - QPos(pos[t]) = p - pos[t]
  BY <1>1, RangeOfBytes
<1>3. mem'[c] = IF covered THEN bytes[QPos(p) - QPos(pos[t]) + 1] ELSE mem[c]
  <2>1. c[1] = Item(p) /\ c[2] = SPos(p) /\ c[3] = QPos(p)
    OBVIOUS
  <2> HIDE DEF c, covered
  <2> QED BY <1>1, <1>2, <2>1 DEF PutBytes
<1>4. CASE covered
  <2>1. mem'[c] = bytes[p - pos[t] + 1]
    BY <1>2, <1>3, <1>4
  <2>2. p - pos[t] + 1 \in 1 .. count[t]
    BY <1>1, <1>4
  <2>3. Written(p)'
    BY <1>2, <1>4, <2>1, <2>2 DEF Written
  <2> QED BY <1>4, <2>1, <2>3 DEF Stored
<1>5. CASE ~covered
  <2>1. mem'[c] = mem[c]
    BY <1>3, <1>5
  <2> QED BY <1>5, <2>1 DEF Stored, Written
<1> QED BY <1>4, <1>5

\* A new quantum changes nothing of what is stored: its bytes are those kmalloc left.
LEMMA QuantumStored ==
  ASSUME TypeOK, NEW t \in Thread, WriteQuantum(t), NEW p \in 0 .. MaxPos - 1
  PROVE  Stored(p)' = Stored(p)
<1> DEFINE c == <<Item(p), SPos(p), QPos(p)>>
<1>1. c \in Cell /\ Junk \notin Byte
  BY StoredIs, ScullAssumption
<1>2. mem'[c] = IF <<Item(p), SPos(p)>> = Here(t) /\ Here(t) \notin quanta THEN Junk ELSE mem[c]
  <2>1. c[1] = Item(p) /\ c[2] = SPos(p)
    OBVIOUS
  <2> HIDE DEF c
  <2> QED BY <1>1, <2>1 DEF WriteQuantum
<1>3. quanta' = quanta \cup {Here(t)}
  BY DEF WriteQuantum
<1>4. CASE <<Item(p), SPos(p)>> = Here(t) /\ Here(t) \notin quanta
  BY <1>1, <1>2, <1>4 DEF Stored, Written
<1>5. CASE ~(<<Item(p), SPos(p)>> = Here(t) /\ Here(t) \notin quanta)
  <2>1. mem'[c] = mem[c]
    BY <1>2, <1>5
  <2>2. <<Item(p), SPos(p)>> \in quanta' <=> <<Item(p), SPos(p)>> \in quanta
    BY <1>3, <1>5
  <2> QED BY <2>1, <2>2 DEF Stored, Written
<1> QED BY <1>4, <1>5

\* copy_from_user stores the caller's bytes at the positions of the call.
LEMMA CopyInStored ==
  ASSUME RInv, NEW t \in Thread, CopyFromUser(t), NEW p \in 0 .. MaxPos - 1
  PROVE  /\ p \in pos[t] .. pos[t] + count[t] - 1
              => Stored(p)' = call[t].data[p - pos[t] + 1] /\ Stored(p)' \in Byte
         /\ p \notin pos[t] .. pos[t] + count[t] - 1 => Stored(p)' = Stored(p)
<1>1. /\ TypeOK /\ CallOK(t) /\ Reached(t) /\ Known(t) /\ pc[t] = "copy"
      /\ Here(t) \in quanta /\ quanta' = quanta /\ PutBytes(t, call[t].data)
      /\ call[t].op = "write"
  BY DEF RInv, Inv, ListReaches, CopyFromUser, Mapped
<1>2. /\ count[t] \in Nat /\ pos[t] \in 0 .. Top /\ call[t].len \in Nat
      /\ count[t] <= call[t].len /\ call[t].data \in [1 .. call[t].len -> Byte]
  BY <1>1 DEF TypeOK, Calls, CallOK
<1>3. \A k \in 1 .. count[t] : call[t].data[k] \in Byte
  BY <1>2
<1>4. Stored(p)' = IF p \in pos[t] .. pos[t] + count[t] - 1
                   THEN call[t].data[p - pos[t] + 1] ELSE Stored(p)
  BY <1>1, <1>3, PutStored
<1>5. p \in pos[t] .. pos[t] + count[t] - 1 => p - pos[t] + 1 \in 1 .. count[t]
  BY <1>2
<1> QED BY <1>3, <1>4, <1>5

\* A copy that stops short changes bytes of a write's own range only, to bytes.
LEMMA FailedStored ==
  ASSUME RInv, NEW t \in Thread, CopyFails(t), NEW p \in 0 .. MaxPos - 1
  PROVE  \/ Stored(p)' = Stored(p)
         \/ /\ call[t].op = "write" /\ Stored(p)' \in Byte
            /\ p \in pos[t] .. pos[t] + count[t] - 1
<1>1. /\ TypeOK /\ CallOK(t) /\ Reached(t) /\ pc[t] = "copy"
      /\ Here(t) \in quanta /\ quanta' = quanta
  BY DEF RInv, Inv, ListReaches, CopyFails, Mapped
<1>2. CASE UNCHANGED mem
  BY <1>1, <1>2 DEF Stored, Written
<1>3. ASSUME NEW n \in 0 .. count[t] - 1, call[t].op = "write",
             PutBytes(t, [k \in 1 .. count[t] |-> IF k <= n THEN call[t].data[k] ELSE Zero])
      PROVE  \/ Stored(p)' = Stored(p)
             \/ Stored(p)' \in Byte /\ p \in pos[t] .. pos[t] + count[t] - 1
  <2> DEFINE bytes == [k \in 1 .. count[t] |-> IF k <= n THEN call[t].data[k] ELSE Zero]
  <2>1. /\ count[t] \in Nat /\ pos[t] \in 0 .. Top /\ call[t].len \in Nat
        /\ count[t] <= call[t].len /\ call[t].data \in [1 .. call[t].len -> Byte]
    BY <1>1, <1>3 DEF TypeOK, Calls, CallOK
  <2>2. \A k \in 1 .. count[t] : bytes[k] \in Byte
    BY <2>1, ConstantFacts
  <2>3. Stored(p)' = IF p \in pos[t] .. pos[t] + count[t] - 1
                     THEN bytes[p - pos[t] + 1] ELSE Stored(p)
    <3>1. PutBytes(t, bytes)
      BY <1>3
    <3> HIDE DEF bytes
    <3> QED BY <1>1, <2>2, <3>1, PutStored
  <2>4. p \in pos[t] .. pos[t] + count[t] - 1 => p - pos[t] + 1 \in 1 .. count[t]
    BY <2>1
  <2> HIDE DEF bytes
  <2> QED BY <2>2, <2>3, <2>4
<1> QED BY <1>2, <1>3 DEF CopyFails

\* Unless a truncation frees it, a byte that somebody has written stays one.
LEMMA WrittenStays ==
  ASSUME RInv, NEW t \in Thread, Act(t), ~TrimStep(t),
         NEW p \in 0 .. MaxPos - 1, Written(p)
  PROVE  Written(p)'
<1>1. TypeOK /\ Stored(p) \in Byte /\ Junk \notin Byte
  BY StoredIs, ScullAssumption DEF RInv, Inv
<1>2. Stored(p)' \in Byte => Written(p)'
  BY <1>1 DEF Stored
<1>3. CASE WriteQuantum(t)
  BY <1>1, <1>2, <1>3, QuantumStored
<1>4. CASE CopyFromUser(t)
  BY <1>1, <1>2, <1>4, CopyInStored
<1>5. CASE CopyFails(t)
  BY <1>1, <1>2, <1>5, FailedStored
<1>6. CASE ~WriteQuantum(t) /\ ~CopyFromUser(t) /\ ~CopyFails(t)
  BY <1>6, MemRests DEF Written
<1> QED BY <1>3, <1>4, <1>5, <1>6

-----------------------------------------------------------------------------
(* No holes. *)

\* A step of thread t leaves it below the size, or at the end of what it wrote.
LEMMA BelowSize ==
  ASSUME "WRONLY" \notin OpenModes, Offsets = {}, RInv, NoHoles, NEW t \in Thread, Act(t),
         size <= size'
  PROVE  /\ ~Trimming(t)'
         /\ pc'[t] # "wsize" => pos'[t] <= size'
         /\ pc'[t] = "wsize" => \A p \in 0 .. pos'[t] - 1 : Written(p)'
<1> USE DEF files, memory, dead, cursor, locals
<1>0. /\ TypeOK /\ CallOK(t) /\ Known(t) /\ ~Trimming(t) /\ MaxPos \in Nat
      /\ size \in 0 .. MaxPos /\ pos[t] \in 0 .. Top /\ count[t] \in Nat
      /\ \A p \in 0 .. size - 1 : Written(p)
      /\ pc[t] # "wsize" => pos[t] <= size
  BY ConstantFacts DEF RInv, Inv, TypeOK, NoHoles, DenseDevice
<1>1. ~TrimStep(t) /\ ~OpenTruncating(t)
  BY <1>0, TrimStepTrims DEF OpenTruncating
<1>2. size' \in Int
  <2>1. size' = size \/ size' = MaxOf(size, pos[t])
    BY <1>1, SizeRests DEF TrimStep, WriteSize
  <2> QED BY <1>0, <2>1 DEF MaxOf
<1>3. CASE pc'[t] \notin TrimPoints \cup {"wsize"} /\ pc[t] # "wsize" /\ pos'[t] = pos[t]
  BY <1>0, <1>2, <1>3 DEF Trimming, TrimPoints
<1>4. CASE Open(t) \/ Release(t) \/ Oops(t)
  <2>1. pc' = pc /\ pos' = pos /\ UNCHANGED memory
    BY <1>4 DEF Open, Release, Oops
  <2> QED BY <1>0, <1>2, <2>1 DEF NoHoles, Trimming, Written
<1>5. CASE EnterRead(t) \/ EnterWrite(t)
  <2>1. PICK f \in File : pc'[t] = "down" /\ pos'[t] = f_pos[f]
    BY <1>0, <1>5 DEF EnterRead, EnterWrite, Enter, TypeOK
  <2>2. f_pos[f] <= size /\ f_pos[f] \in Int
    BY <1>0 DEF NoHoles, DenseDevice, TypeOK
  <2> QED BY <1>0, <1>2, <2>1, <2>2 DEF Trimming, TrimPoints
<1>6. CASE CopyToUser(t)
  <2>1. pc[t] = "copy" /\ pc'[t] = "up" /\ pos'[t] = pos[t] + count[t] /\ call[t].op = "read"
    BY <1>0, <1>6 DEF CopyToUser, Advance, TypeOK
  <2>2. pos[t] + count[t] <= size
    BY <1>0, <2>1 DEF Known
  <2> QED BY <1>0, <1>2, <2>1, <2>2 DEF Trimming, TrimPoints
<1>7. CASE CopyFromUser(t)
  <2>1. pc[t] = "copy" /\ pc'[t] = "wsize" /\ pos'[t] = pos[t] + count[t] /\ call[t].op = "write"
    BY <1>0, <1>7 DEF CopyFromUser, Advance, TypeOK
  <2>2. pos[t] + count[t] <= MaxPos /\ pos[t] <= size
    BY <1>0, <2>1 DEF CallOK
  <2>3. ASSUME NEW p \in 0 .. pos[t] + count[t] - 1 PROVE Written(p)'
    <3>1. p \in 0 .. MaxPos - 1
      BY <1>0, <2>2
    <3>2. CASE p < pos[t]
      <4>1. p \in 0 .. size - 1
        BY <1>0, <2>2, <3>1, <3>2
      <4> QED BY <1>0, <1>1, <3>1, <4>1, WrittenStays
    <3>3. CASE ~(p < pos[t])
      <4>1. p \in pos[t] .. pos[t] + count[t] - 1
        BY <1>0, <3>3
      <4>2. Stored(p)' \in Byte /\ Junk \notin Byte
        BY <1>7, <3>1, <4>1, CopyInStored, ScullAssumption
      <4> QED BY <4>2 DEF Stored
    <3> QED BY <3>2, <3>3
  <2>4. pos'[t] - 1 = pos[t] + count[t] - 1
    BY <1>0, <2>1
  <2> QED BY <2>1, <2>3, <2>4 DEF Trimming, TrimPoints
<1>8. CASE WriteSize(t)
  <2>1. pc'[t] = "up" /\ pos' = pos /\ size' = MaxOf(size, pos[t])
    BY <1>0, <1>8 DEF WriteSize, TypeOK
  <2> QED BY <1>0, <2>1 DEF MaxOf, Trimming, TrimPoints
<1>9. CASE Return(t)
  BY <1>0, <1>2, <1>9 DEF Return, TypeOK, Trimming, TrimPoints
<1>10. CASE Down(t) \/ Interrupted(t) \/ ReadPastEnd(t) \/ ReadBelow(t) \/ ReadClamp(t)
            \/ FollowNext(t) \/ Followed(t) \/ ReadNoArray(t) \/ ReadArray(t) \/ ReadHole(t) \/ ReadFound(t) \/ WriteArray(t) \/ WriteNoArray(t)
            \/ WriteQuantum(t) \/ WriteNoQuantum(t) \/ CopyFails(t) \/ Up(t)
  <2>1. pos' = pos /\ pc[t] # "wsize"
    BY <1>10 DEF Down, Interrupted, ReadPastEnd, ReadBelow, ReadClamp, FollowNext, Followed, ReadNoArray, ReadArray, ReadHole, ReadFound,
       WriteArray, WriteNoArray, WriteQuantum, WriteNoQuantum, CopyFails, Up
  <2>2. pc'[t] \notin TrimPoints \cup {"wsize"}
    BY <1>0, <1>10 DEF TrimPoints, Down, Interrupted, ReadPastEnd, ReadBelow, ReadClamp, FollowNext, Followed, ReadNoArray, ReadArray, ReadHole,
       ReadFound, WriteArray, WriteNoArray, WriteQuantum, WriteNoQuantum, CopyFails, Up,
       Out, TypeOK
  <2> QED BY <1>3, <2>1, <2>2
<1> QED BY <1>1, <1>4, <1>5, <1>6, <1>7, <1>8, <1>9, <1>10 DEF Act, Run, TrimStep

\* No step makes a hole or leaves a position beyond the size.
LEMMA NoHolesStep ==
  ASSUME "WRONLY" \notin OpenModes, Offsets = {}, RInv, NoHoles, [Next]_vars
  PROVE  NoHoles'
<1> USE DEF files, memory, dead, cursor, locals
<1>0. /\ TypeOK /\ MaxPos \in Nat /\ size \in 0 .. MaxPos
      /\ \A t \in Thread : pos[t] \in Nat /\ pos[t] <= MaxPos /\ ~Trimming(t)
  BY ConstantFacts DEF RInv, Inv, Known, TypeOK, NoHoles
<1>1. CASE UNCHANGED vars
  BY <1>1 DEF vars, NoHoles, DenseDevice, Trimming, Written
<1>2. ASSUME NEW t \in Thread, Act(t) PROVE ~TrimStep(t)
  BY <1>0, TrimStepTrims
<1>3. ASSUME NEW t \in Thread, Act(t)
      PROVE  size' \in 0 .. MaxPos /\ size <= size'
  <2>1. size' = size \/ size' = MaxOf(size, pos[t])
    BY <1>2, <1>3, SizeRests DEF TrimStep, WriteSize
  <2> QED BY <1>0, <2>1 DEF MaxOf
<1>4. ASSUME NEW t \in Thread, Act(t), NEW p \in 0 .. size' - 1 PROVE Written(p)'
  <2>1. p \in 0 .. MaxPos - 1
    BY <1>0, <1>3, <1>4
  <2>2. Written(p)
    <3>1. CASE WriteSize(t)
      <4>1. size' = MaxOf(size, pos[t]) /\ pc[t] = "wsize"
        BY <3>1 DEF WriteSize
      <4>2. p \in 0 .. size - 1 \/ p \in 0 .. pos[t] - 1
        BY <1>0, <4>1 DEF MaxOf
      <4> QED BY <4>1, <4>2 DEF NoHoles, DenseDevice
    <3>2. CASE ~WriteSize(t)
      <4>1. size' = size
        BY <1>2, <1>4, <3>2, SizeRests DEF TrimStep
      <4> QED BY <4>1 DEF NoHoles, DenseDevice
    <3> QED BY <3>1, <3>2
  <2> QED BY <1>2, <1>4, <2>1, <2>2, WrittenStays
<1>5. ASSUME NEW t \in Thread, Act(t), NEW f \in File PROVE f_pos'[f] <= size'
  <2>1. f_pos[f] <= size /\ f_pos[f] \in Nat
    BY <1>0 DEF NoHoles, DenseDevice, TypeOK
  <2>2. f_pos'[f] \in {f_pos[f], 0} \/ (Return(t) /\ f_pos'[f] = pos[t])
    <3>1. CASE Open(t) \/ Release(t) \/ Return(t)
      BY <1>0, <3>1 DEF Open, Release, Return, TypeOK
    <3>2. CASE ~Open(t) /\ ~Release(t) /\ ~Return(t)
      <4>1. f_pos' = f_pos
        BY <1>2, <1>5, <3>2 DEF Act, Run, TrimStep, OpenTruncating, EnterRead, EnterWrite, Enter,
           Down, Interrupted, ReadPastEnd, ReadBelow, ReadClamp, FollowNext, Followed, ReadNoArray, ReadArray, ReadHole, ReadFound,
           CopyToUser, WriteArray, WriteNoArray, WriteQuantum, WriteNoQuantum,
           CopyFromUser, CopyFails, WriteSize, Up, Oops
      <4> QED BY <4>1
    <3> QED BY <3>1, <3>2
  <2>3. Return(t) => pos[t] <= size
    BY DEF Return, NoHoles, DenseDevice
  <2> QED BY <1>0, <1>3, <1>5, <2>1, <2>2, <2>3
<1>6. ASSUME NEW t \in Thread, Act(t), NEW u \in Thread
      PROVE  /\ ~Trimming(u)'
             /\ pc'[u] # "wsize" => pos'[u] <= size'
             /\ pc'[u] = "wsize" => \A p \in 0 .. pos'[u] - 1 : Written(p)'
  <2>1. CASE u = t
    BY <1>3, <1>6, <2>1, BelowSize
  <2>2. CASE u # t
    <3>1. pc'[u] = pc[u] /\ pos'[u] = pos[u] /\ ~Trimming(u)
          /\ pos[u] \in Nat /\ pos[u] <= MaxPos
      BY <1>0, <1>6, <2>2, OthersRest DEF Others
    <3>2. pc[u] # "wsize" => pos[u] <= size
      BY DEF NoHoles, DenseDevice
    <3>3. ASSUME pc[u] = "wsize", NEW p \in 0 .. pos[u] - 1 PROVE Written(p)'
      <4>1. Written(p) /\ p \in 0 .. MaxPos - 1
        BY <1>0, <3>1, <3>3 DEF NoHoles
      <4> QED BY <1>2, <1>6, <4>1, WrittenStays
    <3> QED BY <1>0, <1>3, <1>6, <3>1, <3>2, <3>3 DEF Trimming
  <2> QED BY <2>1, <2>2
<1>7. ASSUME NEW t \in Thread, Act(t) PROVE NoHoles'
  BY <1>4, <1>5, <1>6, <1>7 DEF NoHoles, DenseDevice
<1> QED BY <1>1, <1>7 DEF Next, Act

LEMMA NoHolesInit == Init => NoHoles
<1> SUFFICES ASSUME Init PROVE NoHoles
  OBVIOUS
<1>1. size = 0 /\ \A t \in Thread : pc[t] = "idle" /\ pos[t] = 0
  BY DEF Init
<1>2. \A f \in File : f_pos[f] <= size
  BY DEF Init
<1> QED BY <1>1, <1>2 DEF NoHoles, DenseDevice, Trimming, TrimPoints

\* While nobody truncates and nobody passes an offset of his own to pread or
\* pwrite, a scull device is dense: every byte below dev->size was written by
\* somebody, and no file position and no call's copy of one gets past it, though
\* the size follows a write late, allocations and copies fail half way, and a
\* file position may be stored back long after others have moved the end.
THEOREM DeviceIsDense ==
  ASSUME "WRONLY" \notin OpenModes, Offsets = {}
  PROVE  Spec => []DenseDevice
<1>1. TruncatesAlone
  BY DEF TruncatesAlone
<1>2. RInv /\ NoHoles /\ [Next]_vars => NoHoles'
  BY NoHolesStep
<1>3. Spec => []RInv
  BY <1>1, RInvAlways
<1>4. NoHoles => DenseDevice
  BY DEF NoHoles
<1> QED BY NoHolesInit, <1>2, <1>3, <1>4, PTL DEF Spec

-----------------------------------------------------------------------------
(* What ScullStore sees of a step. *)

\* A step of thread t changes what ScullStore sees of t, and of no other thread.
LEMMA SeenOfOthers ==
  ASSUME RInv, NEW t \in Thread, Act(t)
  PROVE  /\ Phases' = [Phases EXCEPT ![t] = PhaseOf(t)']
         /\ Requests' = [Requests EXCEPT ![t] = ReqOf(t)']
         /\ Responses' = [Responses EXCEPT ![t] = RespOf(t)']
<1>1. ASSUME NEW u \in Thread \ {t}
      PROVE  PhaseOf(u)' = PhaseOf(u) /\ ReqOf(u)' = ReqOf(u) /\ RespOf(u)' = RespOf(u)
  <2>1. pc'[u] = pc[u] /\ call'[u] = call[u]
    BY <1>1, OthersRest DEF RInv, Inv, Others
  <2>2. dptr'[u] = dptr[u] /\ ret'[u] = ret[u] /\ got'[u] = got[u]
    BY <1>1, OthersRest, OthersResults DEF RInv, Inv, Others
  <2> QED BY <2>1, <2>2 DEF PhaseOf, ReqOf, RespOf, Effected, Truncating, Trimming
<1> QED BY <1>1 DEF Phases, Requests, Responses

\* Outside a truncation the store is not emptied.
LEMMA NotEmptied ==
  ASSUME RInv, NEW t \in Thread, ~Trimming(t)
  PROVE  ~Emptied
BY DEF RInv, KnownTrim, Emptied, Truncating, Trimming

LEMMA NotEmptiedStep ==
  ASSUME RInv, NEW t \in Thread, Act(t), ~Trimming(t)
  PROVE  ~Emptied /\ ~Emptied' /\ ~Truncating(t) /\ ~Truncating(t)'
<1> USE DEF files, memory, dead, cursor, locals
<1>0. TypeOK /\ Reached(t)
  BY DEF RInv, Inv, ListReaches
<1>1. ASSUME NEW u \in Thread \ {t} PROVE ~Truncating(u)'
  <2>1. ~Truncating(u)
    BY DEF RInv, KnownTrim, Truncating, Trimming
  <2>2. pc'[u] = pc[u] /\ dptr'[u] = dptr[u]
    BY <1>0, <1>1, OthersRest DEF Others
  <2> QED BY <2>1, <2>2 DEF Truncating, Trimming
<1>2. ~Truncating(t)'
  <2>1. CASE OpenTruncating(t)
    <3>1. pc'[t] = "trim" /\ dptr'[t] = dptr[t] /\ dptr[t] = 0
      BY <1>0, <2>1 DEF OpenTruncating, TypeOK, Reached
    <3> QED BY <3>1 DEF Truncating
  <2>2. CASE ~OpenTruncating(t)
    <3>0. ~TrimStep(t)
      BY TrimStepTrims
    <3>1. pc'[t] \notin TrimPoints
      BY <1>0, <2>2, <3>0 DEF TrimStep, Trimming, TrimPoints, TypeOK, Act, Run, Open, Release, EnterRead, EnterWrite,
         Enter, Down, Interrupted, ReadPastEnd, ReadBelow, ReadClamp, FollowNext, Followed, ReadNoArray, ReadArray, ReadHole, ReadFound,
         CopyToUser, WriteArray, WriteNoArray, WriteQuantum, WriteNoQuantum, CopyFromUser,
         CopyFails, WriteSize, Up, Return, Oops, Out
    <3> QED BY <3>1 DEF Truncating, Trimming
  <2> QED BY <2>1, <2>2
<1>3. ~Emptied /\ ~Truncating(t)
  BY NotEmptied DEF Truncating, Trimming
<1> QED BY <1>1, <1>2, <1>3 DEF Emptied

\* Between the copy of a write and its update of dev->size the new size is seen.
LEMMA SizeSeen ==
  ASSUME MutualExclusion, ~Emptied
  PROVE  /\ (\A u \in Thread : pc[u] # "wsize") => StoredSize = size
         /\ \A t \in Thread : pc[t] = "wsize" => StoredSize = MaxOf(size, pos[t])
         /\ \A t \in Thread : InSem(t) /\ pc[t] # "wsize" => StoredSize = size
<1>1. (\A u \in Thread : pc[u] # "wsize") => StoredSize = size
  BY DEF StoredSize
<1>2. ASSUME NEW t \in Thread, pc[t] = "wsize" PROVE StoredSize = MaxOf(size, pos[t])
  <2>1. \A u \in Thread : pc[u] = "wsize" => u = t
    BY <1>2 DEF MutualExclusion, InSem
  <2>2. (CHOOSE u \in Thread : pc[u] = "wsize") = t
    BY <1>2, <2>1
  <2> QED BY <1>2, <2>2 DEF StoredSize
<1>3. ASSUME NEW t \in Thread, InSem(t), pc[t] # "wsize"
      PROVE  \A u \in Thread : pc[u] # "wsize"
  BY <1>3 DEF MutualExclusion, InSem
<1> QED BY <1>1, <1>2, <1>3

\* The same of the next state.
LEMMA SizeSeenNext ==
  MutualExclusion' /\ ~Emptied' =>
    /\ (\A u \in Thread : pc'[u] # "wsize") => StoredSize' = size'
    /\ \A t \in Thread : pc'[t] = "wsize" => StoredSize' = MaxOf(size', pos'[t])
<1>1. MutualExclusion /\ ~Emptied =>
        /\ (\A u \in Thread : pc[u] # "wsize") => StoredSize = size
        /\ \A t \in Thread : pc[t] = "wsize" => StoredSize = MaxOf(size, pos[t])
  BY SizeSeen
<1>2. (MutualExclusion /\ ~Emptied =>
        /\ (\A u \in Thread : pc[u] # "wsize") => StoredSize = size
        /\ \A t \in Thread : pc[t] = "wsize" => StoredSize = MaxOf(size, pos[t]))'
  BY <1>1, PTL
<1> QED BY <1>2 DEF MaxOf

\* Outside truncations and copies from the user, no step changes what is stored;
\* the size changes when a write has copied its bytes.
LEMMA StoreRests ==
  ASSUME RInv, RInv', NEW t \in Thread, Act(t), ~Trimming(t), ~CopyFromUser(t)
  PROVE  StoredSize' = StoredSize /\ (~CopyFails(t) => Content' = Content)
<1> USE DEF files, memory, dead, cursor, locals
<1>0. /\ TypeOK /\ MutualExclusion /\ MutualExclusion' /\ ~Emptied /\ ~Emptied'
      /\ ~TrimStep(t)
  BY NotEmptiedStep, TrimStepTrims DEF RInv, Inv
<1>1. \A u \in Thread \ {t} : pc'[u] = pc[u] /\ pos'[u] = pos[u]
  BY <1>0, OthersRest DEF Others
<1>2. StoredSize' = StoredSize
  <2>1. CASE WriteSize(t)
    <3>1. /\ pc[t] = "wsize" /\ pc'[t] = "up" /\ size' = MaxOf(size, pos[t])
      BY <1>0, <2>1 DEF WriteSize, TypeOK
    <3>2. \A u \in Thread : pc'[u] # "wsize"
      BY <1>0, <1>1, <3>1 DEF MutualExclusion, InSem
    <3> QED BY <1>0, <3>1, <3>2, SizeSeen, SizeSeenNext
  <2>2. CASE ~WriteSize(t)
    <3>1. size' = size
      BY <1>0, <2>2, SizeRests DEF TrimStep
    <3>2. pc[t] # "wsize"
      BY <1>0, <2>2 DEF TrimStep, Act, Run, Open, OpenTruncating, Release, EnterRead, EnterWrite,
         Enter, Down, Interrupted, ReadPastEnd, ReadBelow, ReadClamp, FollowNext, Followed, ReadNoArray, ReadArray, ReadHole, ReadFound,
         CopyToUser, WriteArray, WriteNoArray, WriteQuantum, WriteNoQuantum, CopyFails,
         Up, Return, Oops, FollowFreed, UseFreed, FreedTwice, ItemNotAllocated
    <3>3. pc'[t] # "wsize"
      BY <1>0, <2>2, <3>2 DEF TrimStep, TypeOK, Act, Run, Open, OpenTruncating, Release, EnterRead,
         EnterWrite, Enter, Down, Interrupted, ReadPastEnd, ReadBelow, ReadClamp, FollowNext, Followed, ReadNoArray, ReadArray, ReadHole,
         ReadFound, CopyToUser, WriteArray, WriteNoArray, WriteQuantum, WriteNoQuantum,
         CopyFails, Up, Return, Oops, Out
    <3>4. CASE \A u \in Thread : pc[u] # "wsize"
      BY <1>0, <1>1, <3>1, <3>3, <3>4, SizeSeen, SizeSeenNext
    <3>5. ASSUME NEW u \in Thread, pc[u] = "wsize" PROVE StoredSize' = StoredSize
      <4>1. pc'[u] = "wsize" /\ pos'[u] = pos[u]
        BY <1>1, <3>2, <3>5
      <4> QED BY <1>0, <3>1, <3>5, <4>1, SizeSeen, SizeSeenNext
    <3> QED BY <3>4, <3>5
  <2> QED BY <2>1, <2>2
<1>3. ASSUME ~CopyFails(t), NEW p \in 0 .. MaxPos - 1 PROVE Stored(p)' = Stored(p)
  <2>1. CASE WriteQuantum(t)
    BY <1>0, <2>1, QuantumStored
  <2>2. CASE ~WriteQuantum(t)
    BY <1>0, <1>3, <2>2, MemRests DEF Stored, Written
  <2> QED BY <2>1, <2>2
<1>4. ~CopyFails(t) => Content' = Content
  BY <1>0, <1>3 DEF Content, ContentAt, Stored
<1> QED BY <1>2, <1>4

\* What is seen of a call that has not taken effect.
LEMMA Called ==
  ASSUME RInv, NEW t \in Thread, Early(t)
  PROVE  /\ Phases[t] = "called" /\ Requests[t] # NoCall
         /\ Requests[t].op = call[t].op /\ Requests[t].at = pos[t]
         /\ Requests[t].len = call[t].len /\ Requests[t].data = call[t].data
         /\ call[t].op \in {"read", "write"} /\ call[t].len \in Nat
         /\ pos[t] \in 0 .. MaxPos /\ count[t] \in Nat
         /\ count[t] <= call[t].len /\ (count[t] = 0 => call[t].len = 0)
         /\ got[t] = <<>> /\ ~Trimming(t) /\ ~Emptied
<1>1. TypeOK /\ CallOK(t) /\ Known(t)
  BY DEF RInv, Inv
<1>2. call[t].op \in {"read", "write"}
  BY <1>1 DEF CallOK, Early
<1>3. Requests[t] = [op |-> call[t].op, at |-> call[t].at, len |-> call[t].len,
                     data |-> call[t].data]
  BY DEF Requests, ReqOf, Early
<1>4. Requests[t] # NoCall
  BY <1>2, <1>3, ConstantFacts
<1>5. Phases[t] = "called" /\ ~Trimming(t)
  BY DEF Phases, PhaseOf, Effected, Truncating, Early, Trimming, TrimPoints
<1>6. /\ pos[t] \in 0 .. MaxPos /\ count[t] \in Nat /\ call[t].len \in Nat
  BY <1>1, ConstantFacts DEF Known, TypeOK, Calls
<1>7. /\ pos[t] = call[t].at /\ count[t] <= call[t].len /\ (count[t] = 0 => call[t].len = 0)
      /\ got[t] = <<>>
  BY <1>1 DEF Known, Early
<1> QED BY <1>2, <1>3, <1>4, <1>5, <1>6, <1>7, NotEmptied

\* A call takes effect when it comes to the points behind its effect.
LEMMA Finishes ==
  ASSUME RInv, NEW t \in Thread, Act(t), Early(t), pc'[t] \in {"wsize", "up", "return"},
         call'[t] = call[t]
  PROVE  /\ Phases[t] = "called" /\ Phases' = [Phases EXCEPT ![t] = "done"]
         /\ Responses' = [Responses EXCEPT ![t] = [ret |-> ret'[t], bytes |-> got'[t]]]
         /\ Requests' = Requests
<1>1. PhaseOf(t)' = "done" /\ RespOf(t)' = [ret |-> ret'[t], bytes |-> got'[t]]
  BY DEF PhaseOf, RespOf, Effected
<1>2. ReqOf(t)' = ReqOf(t)
  BY DEF ReqOf, Early
<1>3. Requests' = Requests
  BY <1>2, SeenOfOthers DEF Requests
<1> QED BY <1>1, <1>3, SeenOfOthers, Called

-----------------------------------------------------------------------------
(* The steps of ScullStore. *)

\* A step that changes nothing of its thread's phase, request and response, and
\* nothing that is stored, stutters.
LEMMA Stutters ==
  ASSUME RInv, RInv', NEW t \in Thread, Act(t), ~Trimming(t),
         ~CopyFromUser(t), ~CopyFails(t),
         PhaseOf(t)' = PhaseOf(t), ReqOf(t)' = ReqOf(t), RespOf(t)' = RespOf(t)
  PROVE  UNCHANGED Store!vars
<1>1. Content' = Content /\ StoredSize' = StoredSize
  BY StoreRests
<1> QED BY <1>1, SeenOfOthers DEF Store!vars, Phases, Requests, Responses

\* Entering a call is the invocation of a request.
LEMMA InvokeStep ==
  ASSUME RInv, RInv', NEW t \in Thread, Act(t), pc[t] = "idle", pc'[t] \in {"down", "trim"},
         dptr'[t] = dptr[t],
         NEW op \in {"read", "write", "open"}, NEW at \in 0 .. MaxPos,
         NEW len \in Counts \cup {0},
         NEW data \in IF op = "write" THEN [1 .. len -> Byte] ELSE {<<>>},
         call'[t].op = op, call'[t].at = at, call'[t].len = len, call'[t].data = data
  PROVE  Store!Invoke(t)
<1>1. dptr[t] = 0 /\ ~Trimming(t)
  BY DEF RInv, ListReaches, Reached, Trimming, TrimPoints
<1>2. PhaseOf(t) = "idle" /\ PhaseOf(t)' = "called" /\ RespOf(t)' = RespOf(t)
  BY <1>1 DEF PhaseOf, RespOf, Effected, Truncating, Trimming, TrimPoints
<1>3. ReqOf(t)' = [op |-> op, at |-> at, len |-> len, data |-> data]
  BY DEF ReqOf
<1>4. ~CopyFromUser(t) /\ ~CopyFails(t)
  BY DEF CopyFromUser, CopyFails
<1>5. Content' = Content /\ StoredSize' = StoredSize
  BY <1>1, <1>4, StoreRests
<1>6. /\ Phases[t] = "idle" /\ Phases' = [Phases EXCEPT ![t] = "called"]
      /\ Responses' = Responses
      /\ Requests' = [Requests EXCEPT ![t] =
                        [op |-> op, at |-> at, len |-> len, data |-> data]]
  BY <1>2, <1>3, SeenOfOthers DEF Phases, Responses
<1> QED BY <1>5, <1>6 DEF Store!Invoke

LEMMA EnterInvokes ==
  ASSUME RInv, RInv', NEW t \in Thread, Act(t),
         OpenTruncating(t) \/ EnterRead(t) \/ EnterWrite(t)
  PROVE  Store!Invoke(t)
<1> USE DEF locals
<1>0. TypeOK
  BY DEF RInv, Inv
<1>1. CASE OpenTruncating(t)
  <2>1. PICK f \in File : call' = [call EXCEPT ![t] =
          [NoCall EXCEPT !.op = "open", !.file = f, !.mode = "WRONLY"]]
    BY <1>1 DEF OpenTruncating
  <2>2. /\ call'[t].op = "open" /\ call'[t].at = 0 /\ call'[t].len = 0
        /\ call'[t].data = <<>>
    BY <1>0, <2>1 DEF TypeOK, NoCall
  <2>3. pc[t] = "idle" /\ pc'[t] = "trim" /\ dptr' = dptr
    BY <1>0, <1>1 DEF OpenTruncating, TypeOK
  <2> QED BY <2>2, <2>3, InvokeStep, ConstantFacts
<1>2. ASSUME NEW f \in File, NEW op \in {"read", "write"}, NEW at \in 0 .. MaxPos,
             NEW len \in Counts, NEW seek,
             NEW data \in IF op = "write" THEN [1 .. len -> Byte] ELSE {<<>>},
             Enter(t, f, op, at, len, data, seek)
      PROVE  Store!Invoke(t)
  <2>1. /\ call'[t].op = op /\ call'[t].at = at /\ call'[t].len = len
        /\ call'[t].data = data /\ pc[t] = "idle" /\ pc'[t] = "down" /\ dptr' = dptr
    BY <1>0, <1>2 DEF Enter, TypeOK
  <2> QED BY <2>1, InvokeStep
<1>3. CASE EnterRead(t)
  <2>1. PICK f \in File, len \in Counts : EnterRead(t)!(f, len)
    BY <1>3 DEF EnterRead
  <2>2. f_pos[f] \in 0 .. MaxPos
    BY <1>0, ConstantFacts DEF RInv, TypeOK
  <2>3. PICK at \in 0 .. MaxPos, seek \in BOOLEAN : Enter(t, f, "read", at, len, <<>>, seek)
    BY <2>1, <2>2, ConstantFacts
  <2> QED BY <1>2, <2>3
<1>4. CASE EnterWrite(t)
  <2>1. PICK f \in File, len \in Counts :
          \E data \in [1 .. len -> Byte] : EnterWrite(t)!(f, len)!(data)
    BY <1>4 DEF EnterWrite
  <2>2. PICK data \in [1 .. len -> Byte] : EnterWrite(t)!(f, len)!(data)
    BY <2>1
  <2>3. f_pos[f] \in 0 .. MaxPos
    BY <1>0, ConstantFacts DEF RInv, TypeOK
  <2>4. PICK at \in 0 .. MaxPos, seek \in BOOLEAN : Enter(t, f, "write", at, len, data, seek)
    BY <2>2, <2>3, ConstantFacts
  <2> QED BY <1>2, <2>4
<1> QED BY <1>1, <1>3, <1>4

\* The steps between entry and effect, and between effect and return, are unseen.
LEMMA UnseenSteps ==
  ASSUME RInv, RInv', NEW t \in Thread, Act(t),
         \/ Open(t) \/ Release(t) \/ Down(t) \/ ReadBelow(t) \/ ReadClamp(t)
         \/ FollowNext(t) \/ Followed(t) \/ ReadArray(t) \/ ReadFound(t)
         \/ WriteArray(t) \/ WriteQuantum(t) \/ WriteSize(t) \/ Up(t)
  PROVE  UNCHANGED Store!vars
<1> USE DEF files, memory, dead, cursor, locals
<1>0. TypeOK
  BY DEF RInv, Inv
<1>1. ~Trimming(t) /\ ~CopyFromUser(t) /\ ~CopyFails(t)
  BY DEF Trimming, TrimPoints, CopyFromUser, CopyFails, Open, Release, Down, ReadBelow, ReadClamp, FollowNext, Followed, ReadArray,
     ReadFound, WriteArray, WriteQuantum, WriteSize, Up
<1>2. call' = call /\ ret' = ret /\ got' = got
  BY DEF Open, Release, Down, ReadBelow, ReadClamp, FollowNext, Followed, ReadArray, ReadFound, WriteArray, WriteQuantum,
     WriteSize, Up
<1>3. \/ pc[t] = "idle" /\ pc'[t] = "idle"
      \/ Early(t) /\ Early(t)'
      \/ pc[t] \in {"wsize", "up"} /\ pc'[t] \in {"up", "return"}
  <2>1. CASE Open(t) \/ Release(t)
    BY <2>1 DEF Open, Release
  <2>2. CASE Down(t) \/ ReadBelow(t) \/ ReadClamp(t) \/ FollowNext(t) \/ Followed(t)
             \/ ReadArray(t) \/ ReadFound(t) \/ WriteArray(t)
             \/ WriteQuantum(t)
    BY <1>0, <2>2 DEF TypeOK, Early, Down, ReadBelow, ReadClamp, FollowNext, Followed, ReadArray, ReadFound, WriteArray,
       WriteQuantum
  <2>3. CASE WriteSize(t) \/ Up(t)
    BY <1>0, <2>3 DEF TypeOK, WriteSize, Up
  <2> QED BY <2>1, <2>2, <2>3
<1>4. PhaseOf(t)' = PhaseOf(t) /\ ReqOf(t)' = ReqOf(t) /\ RespOf(t)' = RespOf(t)
  BY <1>2, <1>3 DEF PhaseOf, ReqOf, RespOf, Effected, Truncating, Trimming, TrimPoints, Early
<1> QED BY <1>1, <1>4, Stutters

\* A call that ends with an error before it copies has changed nothing.
LEMMA ErrorFails ==
  ASSUME RInv, RInv', NEW t \in Thread, Act(t),
         Interrupted(t) \/ WriteNoArray(t) \/ WriteNoQuantum(t)
  PROVE  Store!Fail(t)
<1> USE DEF files, memory, dead, cursor, locals
<1>0. TypeOK
  BY DEF RInv, Inv
<1>1. /\ Early(t) /\ pc'[t] \in {"up", "return"} /\ call' = call /\ got' = got
      /\ ret'[t] \in {-12, -512} /\ ~CopyFromUser(t) /\ ~CopyFails(t)
  BY <1>0 DEF TypeOK, Early, Interrupted, WriteNoArray, WriteNoQuantum, Out, ENOMEM,
     ERESTARTSYS, CopyFromUser, CopyFails
<1>2. /\ Phases[t] = "called" /\ Phases' = [Phases EXCEPT ![t] = "done"]
      /\ Responses' = [Responses EXCEPT ![t] = [ret |-> ret'[t], bytes |-> got'[t]]]
      /\ Requests' = Requests
  BY <1>1, Finishes
<1>3. /\ Requests[t] # NoCall /\ Requests[t].op \in {"read", "write"} /\ ~Trimming(t)
      /\ got'[t] = <<>>
  BY <1>1, Called
<1>4. Content' = Content /\ StoredSize' = StoredSize
  BY <1>1, <1>3, StoreRests
<1>5. Content \in [Store!Positions -> Byte \cup {Junk}]
  BY <1>0, <1>3, StoredIs DEF Content, ContentAt, Stored, Store!Positions
<1> QED BY <1>1, <1>2, <1>3, <1>4, <1>5 DEF Store!Fail, Store!Finish

\* A copy that stops short has changed positions of its own range at most.
LEMMA CopyFailsFails ==
  ASSUME RInv, RInv', NEW t \in Thread, Act(t), CopyFails(t)
  PROVE  Store!Fail(t)
<1>0. TypeOK /\ MaxPos \in Nat
  BY ConstantFacts DEF RInv, Inv
<1>1. /\ Early(t) /\ pc'[t] = "up" /\ call' = call /\ got' = got /\ ret'[t] = -14
      /\ ~CopyFromUser(t)
  <2>1. ~CopyFromUser(t)
    BY <1>0 DEF TypeOK, CopyFails, CopyFromUser, Out
  <2> QED BY <1>0, <2>1 DEF TypeOK, Early, CopyFails, Out, EFAULT
<1>2. /\ Phases[t] = "called" /\ Phases' = [Phases EXCEPT ![t] = "done"]
      /\ Responses' = [Responses EXCEPT ![t] = [ret |-> ret'[t], bytes |-> got'[t]]]
      /\ Requests' = Requests
  BY <1>1, Finishes
<1>3. /\ Requests[t] # NoCall /\ Requests[t].op \in {"read", "write"} /\ ~Trimming(t)
      /\ Requests[t].op = call[t].op /\ Requests[t].at = pos[t]
      /\ Requests[t].len = call[t].len /\ count[t] <= call[t].len
      /\ got'[t] = <<>> /\ pos[t] \in Int /\ count[t] \in Int /\ call[t].len \in Int
  BY <1>1, Called
<1>4. StoredSize' = StoredSize /\ ~Emptied /\ ~Emptied'
  BY <1>1, <1>3, StoreRests, NotEmptiedStep
<1>5. ASSUME NEW p \in 0 .. MaxPos - 1
      PROVE  /\ Content'[p] \in Byte \cup {Junk}
             /\ \/ Content'[p] = Content[p]
                \/ /\ Requests[t].op = "write"
                   /\ p \in Requests[t].at .. Requests[t].at + Requests[t].len - 1
  <2>1. Content[p] = Stored(p) /\ Content'[p] = Stored(p)' /\ Stored(p) \in Byte \cup {Junk}
    BY <1>0, <1>4, StoredIs DEF Content, ContentAt, Stored
  <2>2. \/ Stored(p)' = Stored(p)
        \/ /\ call[t].op = "write" /\ Stored(p)' \in Byte
           /\ p \in pos[t] .. pos[t] + count[t] - 1
    BY FailedStored
  <2>3. p \in pos[t] .. pos[t] + count[t] - 1 => p \in pos[t] .. pos[t] + call[t].len - 1
    BY <1>3
  <2> QED BY <1>3, <2>1, <2>2, <2>3
<1>6. Content' \in [Store!Positions -> Byte \cup {Junk}]
  <2>1. Content' = [p \in 0 .. MaxPos - 1 |-> Content'[p]]
    BY DEF Content
  <2> QED BY <1>5, <2>1 DEF Store!Positions
<1> QED BY <1>1, <1>2, <1>3, <1>4, <1>5, <1>6 DEF Store!Fail, Store!Finish, Store!Positions

\* A read at or past the size, or in a hole, gets nothing.
LEMMA NothingRead ==
  ASSUME RInv, RInv', NEW t \in Thread, Act(t), ReadPastEnd(t) \/ ReadNoArray(t) \/ ReadHole(t)
  PROVE  Store!ReadNothing(t)
<1>0. TypeOK /\ MutualExclusion /\ CallOK(t) /\ Reached(t) /\ MaxPos \in Nat
      /\ size \in 0 .. MaxPos
  BY ConstantFacts DEF RInv, Inv, ListReaches, TypeOK
<1>1. /\ Early(t) /\ pc'[t] = "up" /\ call' = call /\ got' = got /\ ret'[t] = 0
      /\ ~CopyFromUser(t) /\ ~CopyFails(t) /\ InSem(t) /\ pc[t] \in {"rsize", "rdata", "rslot"}
  BY <1>0 DEF TypeOK, Early, InSem, ReadPastEnd, ReadNoArray, ReadHole, Out, CopyFromUser, CopyFails
<1>2. /\ Phases[t] = "called" /\ Phases' = [Phases EXCEPT ![t] = "done"]
      /\ Responses' = [Responses EXCEPT ![t] = [ret |-> ret'[t], bytes |-> got'[t]]]
      /\ Requests' = Requests
  BY <1>1, Finishes
<1>3. /\ Requests[t] # NoCall /\ Requests[t].op = "read" /\ Requests[t].at = pos[t]
      /\ got'[t] = <<>> /\ ~Trimming(t) /\ ~Emptied /\ pos[t] \in 0 .. MaxPos
  BY <1>0, <1>1, Called DEF CallOK
<1>4. Content' = Content /\ StoredSize' = StoredSize /\ StoredSize = size
  BY <1>0, <1>1, <1>3, StoreRests, SizeSeen
<1>5. ASSUME pos[t] < size PROVE Content[pos[t]] = Junk
  <2>1. ReadNoArray(t) \/ ReadHole(t)
    BY <1>0, <1>3, <1>5 DEF ReadPastEnd
  <2>2. <<Item(pos[t]), SPos(pos[t])>> \notin quanta
    BY <1>0, <2>1 DEF ReadNoArray, ReadHole, Reached, Here, RInv
  <2>3. pos[t] \in 0 .. MaxPos - 1
    BY <1>0, <1>3, <1>5
  <2> QED BY <2>2, <2>3 DEF Content, ContentAt, Written
<1> QED BY <1>1, <1>2, <1>3, <1>4, <1>5 DEF Store!ReadNothing, Store!Finish

\* copy_to_user gives the caller what is stored at the positions of the call.
LEMMA BytesRead ==
  ASSUME RInv, RInv', NEW t \in Thread, Act(t), CopyToUser(t)
  PROVE  Store!ReadBytes(t)
<1> DEFINE n == count[t]
<1>0. TypeOK /\ MutualExclusion /\ CallOK(t) /\ Reached(t) /\ Known(t) /\ MaxPos \in Nat
      /\ size \in 0 .. MaxPos
  BY ConstantFacts DEF RInv, Inv, ListReaches, TypeOK
<1>1. /\ Early(t) /\ pc[t] = "copy" /\ pc'[t] = "up" /\ call' = call /\ ret'[t] = n
      /\ got'[t] = [k \in 1 .. n |-> mem[<<dptr[t], SPos(pos[t]), QPos(pos[t]) + k - 1>>]]
      /\ call[t].op = "read" /\ Here(t) \in quanta /\ InSem(t)
      /\ ~CopyFromUser(t) /\ ~CopyFails(t)
  BY <1>0 DEF TypeOK, Early, InSem, CopyToUser, Mapped, Advance, CopyFromUser, CopyFails, Out
<1>2. /\ Phases[t] = "called" /\ Phases' = [Phases EXCEPT ![t] = "done"]
      /\ Responses' = [Responses EXCEPT ![t] = [ret |-> ret'[t], bytes |-> got'[t]]]
      /\ Requests' = Requests
  BY <1>1, Finishes
<1>3. /\ Requests[t] # NoCall /\ Requests[t].op = "read" /\ Requests[t].at = pos[t]
      /\ Requests[t].len = call[t].len /\ call[t].len \in Nat /\ n \in Nat
      /\ n <= call[t].len /\ (n = 0 => call[t].len = 0)
      /\ ~Trimming(t) /\ ~Emptied /\ pos[t] \in 0 .. MaxPos
  BY <1>1, Called
<1>4. Content' = Content /\ StoredSize' = StoredSize /\ StoredSize = size
  BY <1>0, <1>1, <1>3, StoreRests, SizeSeen
<1>5. pos[t] < size /\ pos[t] + n <= size
  BY <1>0, <1>1 DEF Known
<1>6. ASSUME NEW k \in 1 .. n PROVE got'[t][k] = Content[pos[t] + k - 1]
  <2>1. /\ pos[t] \in Nat /\ k - 1 \in Nat /\ pos[t] + k - 1 = pos[t] + (k - 1)
        /\ pos[t] + k - 1 \in 0 .. MaxPos - 1
    BY <1>0, <1>3, <1>5
  <2>2. QPos(pos[t]) \in 0 .. QUANTUM - 1 /\ QUANTUM \in Nat /\ QPos(pos[t]) + n <= QUANTUM
    BY <1>0, <1>1, <2>1, Decompose, ItemSizePositive DEF CallOK
  <2>3. QPos(pos[t]) + (k - 1) < QUANTUM /\ QPos(pos[t]) + k - 1 = QPos(pos[t]) + (k - 1)
    BY <1>3, <2>2
  <2>4. /\ Item(pos[t] + (k - 1)) = dptr[t] /\ SPos(pos[t] + (k - 1)) = SPos(pos[t])
        /\ QPos(pos[t] + (k - 1)) = QPos(pos[t]) + k - 1
    BY <1>0, <1>1, <2>1, <2>3, AlongQuantum DEF Reached
  <2> DEFINE q == pos[t] + k - 1
             c == <<dptr[t], SPos(pos[t]), QPos(pos[t]) + k - 1>>
  <2>5. Item(q) = dptr[t] /\ SPos(q) = SPos(pos[t]) /\ QPos(q) = QPos(pos[t]) + k - 1
    BY <2>1, <2>4
  <2>6. Content[q] = IF Written(q) THEN mem[c] ELSE Junk
    BY <1>3, <2>1, <2>5 DEF Content, ContentAt
  <2>7. Written(q) <=> mem[c] \in Byte
    BY <1>1, <2>5 DEF Written, Here
  <2>8. mem[c] \in Byte \cup {Junk}
    BY <1>0, <1>1, RangeInQuantum DEF TypeOK
  <2>9. Content[q] = mem[c]
    <3> HIDE DEF q, c
    <3> QED BY <2>6, <2>7, <2>8
  <2> QED BY <1>1, <2>9
<1>7. got'[t] = [k \in 1 .. n |-> Content[Requests[t].at + k - 1]]
  <2>1. got'[t] = [k \in 1 .. n |-> got'[t][k]]
    BY <1>1
  <2> QED BY <1>3, <1>6, <2>1
<1>8. /\ n \in 0 .. Requests[t].len /\ (n = 0 => Requests[t].len = 0)
      /\ Requests[t].at < StoredSize /\ Requests[t].at + n <= StoredSize
  BY <1>3, <1>4, <1>5
<1> QED BY <1>1, <1>2, <1>3, <1>4, <1>7, <1>8 DEF Store!ReadBytes, Store!Finish

\* copy_from_user stores a nonempty prefix of the caller's bytes.
LEMMA BytesWritten ==
  ASSUME RInv, RInv', NEW t \in Thread, Act(t), CopyFromUser(t)
  PROVE  Store!WriteBytes(t)
<1> DEFINE n == count[t]
<1>0. TypeOK /\ MutualExclusion /\ MutualExclusion' /\ CallOK(t) /\ MaxPos \in Nat
      /\ size \in 0 .. MaxPos
  BY ConstantFacts DEF RInv, Inv, TypeOK
<1>1. /\ Early(t) /\ pc[t] = "copy" /\ pc'[t] = "wsize" /\ call' = call /\ ret'[t] = n
      /\ got' = got /\ pos'[t] = pos[t] + n /\ size' = size /\ call[t].op = "write"
      /\ InSem(t)
  BY <1>0 DEF TypeOK, Early, InSem, CopyFromUser, Advance
<1>2. /\ Phases[t] = "called" /\ Phases' = [Phases EXCEPT ![t] = "done"]
      /\ Responses' = [Responses EXCEPT ![t] = [ret |-> ret'[t], bytes |-> got'[t]]]
      /\ Requests' = Requests
  BY <1>1, Finishes
<1>3. /\ Requests[t] # NoCall /\ Requests[t].op = "write" /\ Requests[t].at = pos[t]
      /\ Requests[t].len = call[t].len /\ Requests[t].data = call[t].data
      /\ call[t].len \in Nat /\ n \in Nat /\ n <= call[t].len
      /\ (n = 0 => call[t].len = 0) /\ got'[t] = <<>>
      /\ ~Trimming(t) /\ ~Emptied /\ pos[t] \in 0 .. MaxPos
  BY <1>1, Called
<1>4. ~Emptied'
  BY <1>3, NotEmptiedStep
<1>5. StoredSize = size /\ StoredSize' = MaxOf(size, pos[t] + n)
  BY <1>0, <1>1, <1>3, <1>4, SizeSeen, SizeSeenNext
<1>6. ASSUME NEW p \in 0 .. MaxPos - 1
      PROVE  Content'[p] = IF p \in Requests[t].at .. Requests[t].at + n - 1
                           THEN Requests[t].data[p - Requests[t].at + 1] ELSE Content[p]
  <2>1. Content[p] = Stored(p) /\ Content'[p] = Stored(p)'
    BY <1>3, <1>4 DEF Content, ContentAt, Stored
  <2> QED BY <1>3, <2>1, CopyInStored
<1>7. Content' = [p \in Store!Positions |->
                    IF p \in Requests[t].at .. Requests[t].at + n - 1
                    THEN Requests[t].data[p - Requests[t].at + 1] ELSE Content[p]]
  <2>1. Content' = [p \in 0 .. MaxPos - 1 |-> Content'[p]]
    BY DEF Content
  <2> QED BY <1>6, <2>1 DEF Store!Positions
<1>8. StoredSize' = IF StoredSize < Requests[t].at + n THEN Requests[t].at + n ELSE StoredSize
  BY <1>3, <1>5 DEF MaxOf
<1>9. n \in 0 .. Requests[t].len /\ (n = 0 => Requests[t].len = 0)
  BY <1>3
<1> QED BY <1>1, <1>2, <1>3, <1>7, <1>8, <1>9 DEF Store!WriteBytes, Store!Finish

\* A call that has taken effect returns.
LEMMA ReturnReturns ==
  ASSUME RInv, RInv', NEW t \in Thread, Act(t), Return(t)
  PROVE  Store!Return(t)
<1>0. TypeOK
  BY DEF RInv, Inv
<1>1. pc[t] = "return" /\ pc'[t] = "idle" /\ ~Trimming(t)
      /\ ~CopyFromUser(t) /\ ~CopyFails(t)
  BY <1>0 DEF TypeOK, Return, Trimming, TrimPoints, CopyFromUser, CopyFails
<1>2. Content' = Content /\ StoredSize' = StoredSize
  BY <1>1, StoreRests
<1>3. PhaseOf(t) = "done" /\ PhaseOf(t)' = "idle" /\ ReqOf(t)' = NoCall /\ RespOf(t)' = "none"
  BY <1>1 DEF PhaseOf, ReqOf, RespOf, Effected, Truncating, Trimming, TrimPoints
<1>4. /\ Phases[t] = "done" /\ Phases' = [Phases EXCEPT ![t] = "idle"]
      /\ Requests' = [Requests EXCEPT ![t] = NoCall]
      /\ Responses' = [Responses EXCEPT ![t] = "none"]
  BY <1>3, SeenOfOthers DEF Phases
<1> QED BY <1>2, <1>4 DEF Store!Return

\* The truncation takes effect when scull_trim looks at the first item, before it has
\* freed anything; the rest is unseen.
LEMMA TrimTruncates ==
  ASSUME RInv, RInv', NEW t \in Thread, Act(t), TrimStep(t), ~TrimDone(t)
  PROVE  Store!Truncate(t) \/ UNCHANGED Store!vars
<1>0. /\ TypeOK /\ CallOK(t) /\ Known(t) /\ Reached(t) /\ pc[t] \in TrimPoints /\ Trimming(t)
      /\ dptr[t] \in Nat /\ next[t] \in Nat
  <2>1. TypeOK /\ CallOK(t) /\ Known(t) /\ Reached(t)
    BY DEF RInv, Inv, ListReaches
  <2> QED BY <2>1, TrimStepTrims, ConstantFacts DEF Trimming, TypeOK, Place
<1>1. call' = call /\ ret' = ret /\ got' = got /\ ret[t] = 0 /\ got[t] = <<>>
      /\ call[t].op = "open"
  <2>1. call' = call /\ ret' = ret /\ got' = got
    BY DEF TrimStep, TrimLook, TrimQuantum, TrimArray, TrimNull, TrimNext, TrimItem, TrimSize,
       cursor, locals
  <2> QED BY <1>0, <2>1 DEF Known, CallOK, TrimPoints
<1>2. pc'[t] \in TrimPoints /\ Truncating(t)'
  <2>1. CASE TrimItem(t)
    <3>1. /\ dptr'[t] = next[t] /\ pc'[t] = IF next[t] = 0 THEN "trimmed" ELSE "trim"
      BY <1>0, <2>1 DEF TrimItem, TypeOK
    <3> QED BY <1>0, <3>1 DEF Truncating, Trimming, TrimPoints
  <2>2. CASE ~TrimItem(t)
    <3>1. pc'[t] \in TrimPoints \ {"trim"}
      BY <1>0, <2>2 DEF TrimStep, TrimLook, TrimQuantum, TrimArray, TrimNull, TrimNext,
         TrimSize, TypeOK, TrimPoints
    <3> QED BY <3>1 DEF Truncating, Trimming
  <2> QED BY <2>1, <2>2
<1>3. Emptied'
  BY <1>2 DEF Emptied
<1>4. Content' = [p \in Store!Positions |-> Junk] /\ StoredSize' = 0
  BY <1>3 DEF Content, ContentAt, StoredSize, Store!Positions
<1>5. /\ PhaseOf(t)' = "done" /\ ReqOf(t)' = ReqOf(t)
      /\ RespOf(t)' = [ret |-> 0, bytes |-> <<>>]
  BY <1>0, <1>1, <1>2 DEF PhaseOf, ReqOf, RespOf, Effected, TrimPoints
<1>6. /\ Phases' = [Phases EXCEPT ![t] = "done"] /\ Requests' = Requests
      /\ Responses' = [Responses EXCEPT ![t] = [ret |-> 0, bytes |-> <<>>]]
  BY <1>5, SeenOfOthers DEF Requests
<1>7. CASE Truncating(t)
  <2>1. Emptied
    BY <1>7 DEF Emptied
  <2>2. Content = [p \in Store!Positions |-> Junk] /\ StoredSize = 0
    BY <2>1 DEF Content, ContentAt, StoredSize, Store!Positions
  <2>3. PhaseOf(t) = "done" /\ RespOf(t) = [ret |-> 0, bytes |-> <<>>]
    BY <1>0, <1>1, <1>7 DEF PhaseOf, RespOf, Effected, TrimPoints
  <2>4. Phases' = Phases /\ Responses' = Responses
    BY <1>6, <2>3 DEF Phases, Responses
  <2> QED BY <1>4, <1>6, <2>2, <2>4 DEF Store!vars
<1>8. CASE ~Truncating(t)
  <2>1. Phases[t] = "called"
    BY <1>0, <1>8 DEF Phases, PhaseOf, Effected, TrimPoints
  <2>2. Requests[t].op = "open"
    BY <1>0, <1>1 DEF Requests, ReqOf, TrimPoints
  <2>3. Requests[t] # NoCall
    BY <2>2, ConstantFacts
  <2> QED BY <1>4, <1>6, <2>1, <2>2, <2>3 DEF Store!Truncate, Store!Finish
<1> QED BY <1>7, <1>8

\* scull_open returns from the truncation: by now nothing is stored.
LEMMA TrimReturns ==
  ASSUME RInv, RInv', NEW t \in Thread, Act(t), TrimDone(t)
  PROVE  Store!Return(t)
<1>0. /\ TypeOK /\ KnownTrim(t) /\ pc[t] = "drop" /\ pc'[t] = "idle"
      /\ Trimming(t) /\ Truncating(t)
  BY DEF RInv, Inv, TrimDone, TypeOK, Truncating, Trimming, TrimPoints
<1>1. (\A u \in Thread : u = t) /\ quanta = {} /\ size = 0
  BY <1>0 DEF KnownTrim
<1>2. quanta' = {} /\ size' = 0
  BY <1>1 DEF TrimDone, Forget
<1>3. Emptied /\ ~Emptied' /\ \A u \in Thread : pc'[u] # "wsize"
  BY <1>0, <1>1 DEF Emptied, Truncating, Trimming, TrimPoints
<1>4. Content = [p \in 0 .. MaxPos - 1 |-> Junk] /\ StoredSize = 0
  BY <1>3 DEF Content, ContentAt, StoredSize
<1>5. Content' = [p \in 0 .. MaxPos - 1 |-> Junk] /\ StoredSize' = 0
  <2>1. StoredSize' = 0
    BY <1>2, <1>3 DEF StoredSize
  <2>2. \A p \in 0 .. MaxPos - 1 : ~Written(p)'
    BY <1>2 DEF Written
  <2> QED BY <2>1, <2>2 DEF Content, ContentAt
<1>6. PhaseOf(t) = "done" /\ PhaseOf(t)' = "idle" /\ ReqOf(t)' = NoCall /\ RespOf(t)' = "none"
  BY <1>0 DEF PhaseOf, ReqOf, RespOf, Effected, Truncating, Trimming, TrimPoints
<1>7. /\ Phases[t] = "done" /\ Phases' = [Phases EXCEPT ![t] = "idle"]
      /\ Requests' = [Requests EXCEPT ![t] = NoCall]
      /\ Responses' = [Responses EXCEPT ![t] = "none"]
  BY <1>6, SeenOfOthers DEF Phases
<1> QED BY <1>4, <1>5, <1>7 DEF Store!Return

\* Every step of Scull is a step of ScullStore, or leaves what it sees alone.
LEMMA StoreStep ==
  ASSUME RInv, RInv', [Next]_vars
  PROVE  [Store!Next]_(Store!vars)
<1>1. ASSUME UNCHANGED <<size, quanta, mem, pc, call, dptr, pos, ret, got>>
      PROVE  UNCHANGED Store!vars
  BY <1>1 DEF Store!vars, Content, ContentAt, Written, StoredSize, Phases, PhaseOf,
     Requests, ReqOf, Responses, RespOf, Effected, Emptied, Truncating, Trimming
<1>2. CASE UNCHANGED vars
  BY <1>1, <1>2 DEF vars, memory, cursor, locals
<1>3. ASSUME NEW t \in Thread, Act(t)
      PROVE  [Store!Next]_(Store!vars)
  <2>1. CASE OpenTruncating(t) \/ EnterRead(t) \/ EnterWrite(t)
    BY <1>3, <2>1, EnterInvokes DEF Store!Next
  <2>2. CASE \/ Open(t) \/ Release(t) \/ Down(t) \/ ReadBelow(t) \/ ReadClamp(t)
             \/ FollowNext(t) \/ Followed(t) \/ ReadArray(t) \/ ReadFound(t) \/ WriteArray(t)
             \/ WriteQuantum(t) \/ WriteSize(t) \/ Up(t)
    BY <1>3, <2>2, UnseenSteps
  <2>3. CASE Interrupted(t) \/ WriteNoArray(t) \/ WriteNoQuantum(t)
    BY <1>3, <2>3, ErrorFails DEF Store!Next
  <2>4. CASE CopyFails(t)
    BY <1>3, <2>4, CopyFailsFails DEF Store!Next
  <2>5. CASE ReadPastEnd(t) \/ ReadNoArray(t) \/ ReadHole(t)
    BY <1>3, <2>5, NothingRead DEF Store!Next
  <2>6. CASE CopyToUser(t)
    BY <1>3, <2>6, BytesRead DEF Store!Next
  <2>7. CASE CopyFromUser(t)
    BY <1>3, <2>7, BytesWritten DEF Store!Next
  <2>8. CASE Return(t)
    BY <1>3, <2>8, ReturnReturns DEF Store!Next
  <2>9. CASE TrimStep(t) /\ ~TrimDone(t)
    BY <1>3, <2>9, TrimTruncates DEF Store!Next
  <2>10. CASE TrimDone(t)
    BY <1>3, <2>10, TrimReturns DEF Store!Next
  <2>11. CASE Oops(t)
    BY <1>1, <2>11 DEF Oops, memory, cursor, locals
  <2> QED BY <1>3, <2>1, <2>2, <2>3, <2>4, <2>5, <2>6, <2>7, <2>8, <2>9, <2>10, <2>11
          DEF Act, Run, TrimStep
<1> QED BY <1>2, <1>3 DEF Next, Act

\* What ScullStore sees at the start is its own start.
LEMMA StoreInit == Init => Store!Init
<1> SUFFICES ASSUME Init PROVE Store!Init
  OBVIOUS
<1>1. size = 0 /\ quanta = {} /\ \A t \in Thread : pc[t] = "idle"
  BY DEF Init
<1>2. ~Emptied /\ StoredSize = 0
  BY <1>1 DEF Emptied, Truncating, Trimming, TrimPoints, StoredSize
<1>3. \A p \in 0 .. MaxPos - 1 : ContentAt(p) = Junk
  BY <1>1 DEF ContentAt, Written
<1>4. \A t \in Thread : PhaseOf(t) = "idle" /\ ReqOf(t) = NoCall /\ RespOf(t) = "none"
  BY <1>1 DEF PhaseOf, ReqOf, RespOf, Effected, Truncating, Trimming, TrimPoints
<1> QED BY <1>2, <1>3, <1>4 DEF Store!Init, Store!Positions, Content, Phases, Requests,
                               Responses

\* A scull device is a sparse byte store on which every read, write and truncating
\* open takes effect in one indivisible step between its call and its return,
\* whatever fails on the way and wherever callers read and write: the semaphore,
\* the list walked and allocated inside it, and the size that is set after the
\* bytes never show.  The truncating open takes no lock, so the theorem asks that
\* who truncates is alone, on a system that has one thread.
THEOREM ImplementsStore ==
  ASSUME TruncatesAlone
  PROVE  Spec => StoreSpec
<1>1. RInv /\ RInv' /\ [Next]_vars => [Store!Next]_(Store!vars)
  BY StoreStep
<1>2. Spec => []RInv
  BY RInvAlways
<1> QED BY StoreInit, <1>1, <1>2, PTL DEF Spec, StoreSpec, Store!Spec

-----------------------------------------------------------------------------
(* Who truncates alone frees all there is. *)

\* How far a truncation has come: what is freed behind the loop over the array, which
\* array pointers are gone, and that the device's own is among them once it is past it.
Freed(t) ==
  /\ pc[t] # "frees" => slot[t] = 0
  /\ pc[t] = "frees" => \A q \in quanta : q[1] = dptr[t] /\ q[2] < slot[t] => q \in deadQuanta
  /\ pc[t] = "array" => \A q \in quanta : q[1] = dptr[t] => q \in deadQuanta
  /\ pc[t] = "null" => dptr[t] \notin arrays \ deadArrays
  /\ pc[t] \in {"next", "item"} => dptr[t] \notin arrays
  /\ Trimming(t) /\ (dptr[t] > 0 \/ pc[t] \in {"trimmed", "drop"}) => 0 \notin arrays

LeakInv == NothingLeaked /\ \A t \in Thread : Freed(t)

\* Only scull_trim loses memory.
LEMMA LeaksInTrim ==
  ASSUME NEW t \in Thread, Act(t), ~TrimStep(t)
  PROVE  leaked' = leaked /\ slot' = slot
BY DEF memory, dead, cursor, locals, TrimStep, Act, Run, Open, OpenTruncating, Release,
   EnterRead, EnterWrite, Enter, Down, Interrupted, ReadPastEnd, ReadBelow, ReadClamp,
   FollowNext, Followed, ReadNoArray, ReadArray, ReadHole, ReadFound, CopyToUser, WriteArray,
   WriteNoArray, WriteQuantum, WriteNoQuantum, CopyFromUser, CopyFails, WriteSize, Up,
   Return, Oops

\* A step of a truncation that is alone loses nothing and comes further.
LEMMA TrimFrees ==
  ASSUME RInv, LeakInv, NEW t \in Thread, TrimStep(t)
  PROVE  NothingLeaked' /\ Freed(t)'
<1> USE DEF memory, dead, cursor, locals
<1>0. /\ TypeOK /\ KnownTrim(t) /\ Freed(t) /\ Reached(t) /\ ~leaked
      /\ Trimming(t) /\ dptr[t] \in Nat /\ next[t] \in Nat /\ linked \in Nat /\ slot[t] \in Nat
      /\ QSET \in Nat
  <2>1. TypeOK /\ KnownTrim(t) /\ Freed(t) /\ Reached(t) /\ ~leaked
    BY DEF RInv, Inv, ListReaches, LeakInv, NothingLeaked
  <2>2. dptr[t] \in Nat /\ next[t] \in Nat /\ linked \in Nat /\ slot[t] \in Nat /\ QSET \in Nat
    BY <2>1, ConstantFacts DEF TypeOK, Place, Slot
  <2> QED BY <2>1, <2>2, TrimStepTrims
<1>1. CASE TrimLook(t)
  <2>1. /\ pc[t] = "trim" /\ pc'[t] = IF dptr[t] \in arrays THEN "frees" ELSE "next"
        /\ UNCHANGED <<arrays, quanta, deadArrays, deadQuanta, leaked, dptr, slot>>
    BY <1>0, <1>1 DEF TrimLook, TypeOK
  <2>2. slot[t] = 0
    BY <1>0, <2>1 DEF Freed
  <2>3. \A q \in quanta : ~(q[2] < 0)
    BY <1>0, ConstantFacts DEF TypeOK, Slot
  <2> QED BY <1>0, <2>1, <2>2, <2>3 DEF Freed, NothingLeaked, Trimming
<1>2. CASE TrimQuantum(t)
  <2>1. /\ pc[t] = "frees" /\ UNCHANGED <<arrays, quanta, deadArrays, leaked, dptr>>
        /\ deadQuanta \subseteq deadQuanta'
        /\ <<dptr[t], slot[t]>> \in quanta => <<dptr[t], slot[t]>> \in deadQuanta'
        /\ slot'[t] = IF slot[t] < QSET - 1 THEN slot[t] + 1 ELSE 0
        /\ pc'[t] = IF slot[t] < QSET - 1 THEN "frees" ELSE "array"
    BY <1>0, <1>2 DEF TrimQuantum, TypeOK
  <2>2. ASSUME NEW q \in quanta, q[1] = dptr[t], q[2] <= slot[t] PROVE q \in deadQuanta'
    <3>1. q = <<q[1], q[2]>> /\ q[2] \in Nat
      BY <1>0, ConstantFacts DEF TypeOK, Slot
    <3>2. CASE q[2] = slot[t]
      BY <2>1, <2>2, <3>1, <3>2
    <3>3. CASE q[2] < slot[t]
      BY <1>0, <2>1, <2>2, <3>3 DEF Freed
    <3> QED BY <1>0, <2>2, <3>1, <3>2, <3>3
  <2>3. \A q \in quanta : q[2] \in 0 .. QSET - 1
    BY <1>0 DEF TypeOK, Slot
  <2>4. CASE slot[t] < QSET - 1
    BY <1>0, <2>1, <2>2, <2>3, <2>4 DEF Freed, NothingLeaked, Trimming, TrimPoints
  <2>5. CASE ~(slot[t] < QSET - 1)
    BY <1>0, <2>1, <2>2, <2>3, <2>5 DEF Freed, NothingLeaked, Trimming, TrimPoints
  <2> QED BY <2>4, <2>5
<1>3. CASE TrimArray(t)
  <2>1. /\ pc[t] = "array" /\ pc'[t] = "null" /\ UNCHANGED <<arrays, quanta, deadQuanta, dptr, slot>>
        /\ deadArrays' = deadArrays \cup ({dptr[t]} \cap arrays)
        /\ leaked' = (leaked \/ \E q \in quanta \ deadQuanta : q[1] = dptr[t])
    BY <1>0, <1>3 DEF TrimArray, TypeOK
  <2>2. ~leaked'
    BY <1>0, <2>1 DEF Freed
  <2> QED BY <1>0, <2>1, <2>2 DEF Freed, NothingLeaked, Trimming, TrimPoints
<1>4. CASE TrimNull(t)
  <2>1. /\ pc[t] = "null" /\ pc'[t] = "next" /\ UNCHANGED <<dptr, slot>>
        /\ arrays' = arrays \ {dptr[t]}
        /\ leaked' = (leaked \/ dptr[t] \in arrays \ deadArrays)
    BY <1>0, <1>4 DEF TrimNull, Forget, TypeOK
  <2> QED BY <1>0, <2>1 DEF Freed, NothingLeaked, Trimming, TrimPoints
<1>5. CASE TrimNext(t)
  <2>1. /\ pc[t] = "next" /\ pc'[t] = "item"
        /\ UNCHANGED <<arrays, quanta, deadArrays, deadQuanta, leaked, dptr, slot>>
    BY <1>0, <1>5 DEF TrimNext, TypeOK
  <2> QED BY <1>0, <2>1 DEF Freed, NothingLeaked, Trimming, TrimPoints
<1>6. CASE TrimItem(t)
  <2>1. /\ pc[t] = "item" /\ pc'[t] \in {"trim", "trimmed"} /\ UNCHANGED slot
        /\ arrays' \subseteq arrays
        /\ leaked' = leaked \/ leaked' = (leaked \/ dptr[t] \in arrays \ deadArrays
                                                \/ (next[t] = 0 /\ dptr[t] < linked))
    BY <1>0, <1>6 DEF TrimItem, TypeOK
  <2>2. dptr[t] \notin arrays /\ next[t] = IF dptr[t] < linked THEN dptr[t] + 1 ELSE 0
    BY <1>0, <2>1 DEF Freed, KnownTrim
  <2>3. ~leaked'
    <3>1. ~(next[t] = 0 /\ dptr[t] < linked)
      BY <1>0, <2>2
    <3> QED BY <1>0, <2>1, <2>2, <3>1
  <2>4. 0 \notin arrays'
    BY <1>0, <2>1, <2>2 DEF Freed
  <2>5. slot[t] = 0
    BY <1>0, <2>1 DEF Freed
  <2> QED BY <1>0, <2>1, <2>3, <2>4, <2>5 DEF Freed, NothingLeaked
<1>7. CASE TrimSize(t)
  <2>1. /\ pc[t] = "trimmed" /\ pc'[t] = "drop"
        /\ UNCHANGED <<arrays, quanta, deadArrays, deadQuanta, leaked, dptr, slot>>
    BY <1>0, <1>7 DEF TrimSize, TypeOK
  <2> QED BY <1>0, <2>1 DEF Freed, NothingLeaked
<1>8. CASE TrimDone(t)
  <2>1. /\ pc[t] = "drop" /\ pc'[t] = "idle" /\ UNCHANGED slot
        /\ leaked' = (leaked \/ 0 \in arrays \ deadArrays)
    BY <1>0, <1>8 DEF TrimDone, Forget, TypeOK
  <2> QED BY <1>0, <2>1 DEF Freed, NothingLeaked, Trimming, TrimPoints
<1> QED BY <1>1, <1>2, <1>3, <1>4, <1>5, <1>6, <1>7, <1>8 DEF TrimStep

LEMMA LeakStep ==
  ASSUME TruncatesAlone, RInv, LeakInv, [Next]_vars
  PROVE  LeakInv'
<1>0. TypeOK
  BY DEF RInv, Inv
<1>1. CASE UNCHANGED vars
  BY <1>1 DEF vars, memory, dead, cursor, locals, LeakInv, NothingLeaked, Freed, Trimming
<1>2. ASSUME NEW t \in Thread, Act(t) PROVE NothingLeaked' /\ Freed(t)'
  <2>1. CASE TrimStep(t)
    BY <2>1, TrimFrees
  <2>2. CASE ~TrimStep(t)
    <3>1. leaked' = leaked /\ slot' = slot
      BY <1>2, <2>2, LeaksInTrim
    <3>2. NothingLeaked'
      BY <3>1 DEF LeakInv, NothingLeaked
    <3>3. CASE OpenTruncating(t)
      <4>1. pc[t] = "idle" /\ pc'[t] = "trim" /\ dptr'[t] = 0
        BY <1>0, <3>3 DEF OpenTruncating, TypeOK, locals, RInv, ListReaches, Reached
      <4> QED BY <3>1, <3>2, <4>1 DEF LeakInv, Freed
    <3>4. CASE Oops(t)
      BY <3>2, <3>4 DEF Oops, memory, dead, cursor, locals, LeakInv, Freed, Trimming
    <3>5. CASE ~OpenTruncating(t) /\ ~Oops(t)
      <4>1. pc[t] \notin TrimPoints /\ pc'[t] \notin TrimPoints
        BY <1>0, <1>2, <2>2, <3>5 DEF TypeOK, TrimPoints, Act, Run, TrimStep, Open, Release,
           EnterRead, EnterWrite, Enter, Down, Interrupted, ReadPastEnd, ReadBelow, ReadClamp,
           FollowNext, Followed, ReadNoArray, ReadArray, ReadHole, ReadFound, CopyToUser,
           WriteArray, WriteNoArray, WriteQuantum, WriteNoQuantum, CopyFromUser, CopyFails,
           WriteSize, Up, Return, Out
      <4> QED BY <3>1, <3>2, <4>1 DEF LeakInv, Freed, Trimming, TrimPoints
    <3> QED BY <3>3, <3>4, <3>5
  <2> QED BY <2>1, <2>2
<1>3. ASSUME NEW t \in Thread, Act(t), NEW u \in Thread \ {t} PROVE Freed(u)'
  <2>1. pc'[u] = pc[u] /\ dptr'[u] = dptr[u] /\ slot'[u] = slot[u]
    BY <1>0, <1>3, OthersRest DEF Others
  <2>2. ~Trimming(u)
    BY DEF RInv, KnownTrim
  <2> QED BY <2>1, <2>2 DEF LeakInv, Freed, Trimming, TrimPoints
<1>4. ASSUME NEW t \in Thread, Act(t) PROVE LeakInv'
  BY <1>2, <1>3, <1>4 DEF LeakInv
<1> QED BY <1>1, <1>4 DEF Next, Act

\* Who truncates alone gives back every item, array and quantum of the list before the
\* last pointer to it is lost, whatever holes the list has and whatever allocations and
\* copies failed in building it.
THEOREM TruncationFreesAll ==
  ASSUME TruncatesAlone
  PROVE  Spec => []NothingLeaked
<1>1. Init => LeakInv
  BY DEF Init, LeakInv, NothingLeaked, Freed, Trimming, TrimPoints
<1>2. RInv /\ LeakInv /\ [Next]_vars => LeakInv'
  BY LeakStep
<1>3. LeakInv => NothingLeaked
  BY DEF LeakInv
<1> QED BY <1>1, <1>2, <1>3, RInvAlways, PTL DEF Spec

-----------------------------------------------------------------------------
(* A list that has never had a second item survives truncation. *)

\* What an operation has found is still there when it uses it, and the device itself
\* is always there; so with the device alone in the list nothing faults.
ShortIntact ==
  /\ 0 \in live
  /\ \A t \in Thread :
       /\ pc[t] \in {"rslot", "wslot", "copy", "frees"} => dptr[t] \in arrays
       /\ pc[t] = "copy" => Here(t) \in quanta
  /\ ShortListSafe

\* Only a truncation takes items, arrays and quanta away.
LEMMA FoundStays ==
  ASSUME NEW t \in Thread, Act(t), ~TrimStep(t)
  PROVE  live \subseteq live' /\ arrays \subseteq arrays' /\ quanta \subseteq quanta'
BY DEF memory, TrimStep, Act, Run, Open, OpenTruncating, Release, EnterRead, EnterWrite,
   Enter, Down, Interrupted, ReadPastEnd, ReadBelow, ReadClamp, FollowNext, Followed,
   ReadNoArray, ReadArray, ReadHole, ReadFound, CopyToUser, WriteArray, WriteNoArray,
   WriteQuantum, WriteNoQuantum, CopyFromUser, CopyFails, WriteSize, Up, Return, Oops

\* While the device is the only item, every pointer that is followed leads somewhere,
\* and nothing is freed twice.
LEMMA ShortNoOops ==
  ASSUME "item" \notin Failures, RInv, OnlyNextDangles, ShortIntact, linked = 0,
         NEW t \in Thread, Oops(t)
  PROVE  FALSE
<1>1. TypeOK /\ dptr[t] \in Nat /\ slot[t] \in Nat /\ Reached(t) /\ 0 \in live
  <2>1. TypeOK /\ Reached(t) /\ 0 \in live
    BY DEF RInv, Inv, ListReaches, ShortIntact
  <2> QED BY <2>1, ConstantFacts DEF TypeOK, Place, Slot
<1>2. pc[t] \in TrimPoints \cup {"follow", "rdata", "rslot", "wdata", "wslot", "copy"}
        => dptr[t] = 0 /\ dptr[t] \in live
  BY <1>1 DEF Reached
<1>3. ~FollowFreed(t)
  BY <1>2 DEF FollowFreed, TrimPoints
<1>4. \A u \in Thread : Trimming(u) => u = t
  BY DEF RInv, KnownTrim
<1>5. pc[t] # "null" => deadArrays = {}
  BY <1>4 DEF OnlyNextDangles, Trimming, TrimPoints
<1>6. pc[t] = "copy" => deadQuanta = {}
  BY <1>4 DEF OnlyNextDangles, Passed, Trimming, TrimPoints
<1>7. pc[t] = "frees" => <<dptr[t], slot[t]>> \notin deadQuanta
  <2> SUFFICES ASSUME pc[t] = "frees", <<dptr[t], slot[t]>> \in deadQuanta PROVE FALSE
    OBVIOUS
  <2>1. PICK u \in Thread : Passed(u, <<dptr[t], slot[t]>>)
    BY DEF OnlyNextDangles
  <2>2. u = t
    BY <1>4, <2>1 DEF Passed, Trimming, TrimPoints
  <2> QED BY <1>1, <2>1, <2>2 DEF Passed
<1>8. ~UseFreed(t)
  BY <1>2, <1>5, <1>6 DEF UseFreed, ShortIntact, Mapped, HasArray, TrimPoints
<1>9. ~FreedTwice(t)
  BY <1>2, <1>5, <1>7 DEF FreedTwice, TrimPoints
<1> QED BY <1>3, <1>8, <1>9 DEF Oops, ItemNotAllocated

LEMMA ShortStep ==
  ASSUME TruncatesAlone, "item" \notin Failures, RInv, OnlyNextDangles, ShortIntact,
         [Next]_vars
  PROVE  ShortIntact'
<1> USE DEF files, memory, dead, cursor, locals
<1>0. TypeOK /\ ListReaches /\ linked \in Nat /\ linked' \in Int /\ linked <= linked'
  <2>1. TypeOK /\ ListReaches
    BY DEF RInv, Inv
  <2>2. linked' \in Int /\ linked <= linked'
    BY <2>1, ListGrows
  <2>3. linked \in Nat
    BY <2>1, ConstantFacts DEF TypeOK, Place
  <2> QED BY <2>1, <2>2, <2>3
<1>1. CASE UNCHANGED vars
  BY <1>1 DEF vars, ShortIntact, ShortListSafe, Here
<1>2. ASSUME NEW t \in Thread, Act(t) PROVE 0 \in live'
  <2>1. CASE TrimStep(t)
    BY <2>1 DEF ShortIntact, TrimStep, TrimLook, TrimQuantum, TrimArray, TrimNull, TrimNext,
       TrimItem, TrimSize, TrimDone
  <2>2. CASE ~TrimStep(t)
    BY <1>2, <2>2, FoundStays DEF ShortIntact
  <2> QED BY <2>1, <2>2
<1>3. ASSUME NEW t \in Thread, Act(t) PROVE ShortListSafe'
  <2>1. CASE Oops(t)
    <3>1. linked' = linked
      BY <2>1 DEF Oops
    <3> QED BY <1>0, <2>1, <3>1, ShortNoOops DEF ShortListSafe
  <2>2. CASE ~Oops(t)
    <3>1. fault' = fault
      BY <1>3, <2>2 DEF Act, Run, Open, OpenTruncating, Release, EnterRead, EnterWrite,
         Enter, Down, Interrupted, ReadPastEnd, ReadBelow, ReadClamp, FollowNext, Followed,
         ReadNoArray, ReadArray, ReadHole, ReadFound, CopyToUser, WriteArray, WriteNoArray,
         WriteQuantum, WriteNoQuantum, CopyFromUser, CopyFails, WriteSize, Up, Return,
         TrimLook, TrimQuantum, TrimArray, TrimNull, TrimNext, TrimItem, TrimSize, TrimDone
    <3> QED BY <1>0, <3>1 DEF ShortIntact, ShortListSafe
  <2> QED BY <2>1, <2>2
<1>4. ASSUME NEW t \in Thread, Act(t), NEW u \in Thread \ {t}
      PROVE  /\ pc'[u] \in {"rslot", "wslot", "copy", "frees"} => dptr'[u] \in arrays'
             /\ pc'[u] = "copy" => Here(u)' \in quanta'
  <2>1. pc'[u] = pc[u] /\ pos'[u] = pos[u] /\ dptr'[u] = dptr[u]
    BY <1>0, <1>4, OthersRest DEF Others
  <2>2. ~TrimStep(t)
    BY TrimStepTrims DEF RInv, KnownTrim
  <2>3. arrays \subseteq arrays' /\ quanta \subseteq quanta'
    BY <1>4, <2>2, FoundStays
  <2> QED BY <2>1, <2>3 DEF ShortIntact, Here
<1>5. ASSUME NEW t \in Thread, Act(t)
      PROVE  /\ pc'[t] \in {"rslot", "wslot", "copy", "frees"} => dptr'[t] \in arrays'
             /\ pc'[t] = "copy" => Here(t)' \in quanta'
  <2>1. CASE WriteArray(t) \/ ReadArray(t) \/ TrimLook(t)
    BY <1>0, <2>1 DEF WriteArray, ReadArray, TrimLook, TypeOK
  <2>2. CASE WriteQuantum(t) \/ ReadFound(t)
    BY <1>0, <2>2 DEF WriteQuantum, ReadFound, HasArray, Here, TypeOK
  <2>3. CASE TrimQuantum(t)
    BY <1>0, <2>3 DEF TrimQuantum, HasArray, TypeOK
  <2>4. CASE Open(t) \/ Release(t) \/ Oops(t)
    BY <1>0, <2>4 DEF Open, Release, Oops, ShortIntact, Here
  <2>5. CASE ~(\/ WriteArray(t) \/ ReadArray(t) \/ TrimLook(t) \/ WriteQuantum(t)
               \/ ReadFound(t) \/ TrimQuantum(t) \/ Open(t) \/ Release(t) \/ Oops(t))
    <3>1. pc'[t] \notin {"rslot", "wslot", "copy", "frees"}
      BY <1>0, <1>5, <2>5 DEF TypeOK, Act, Run, OpenTruncating, EnterRead, EnterWrite, Enter,
         Down, Interrupted, ReadPastEnd, ReadBelow, ReadClamp, FollowNext, Followed,
         ReadNoArray, ReadHole, CopyToUser, WriteNoArray, WriteNoQuantum, CopyFromUser,
         CopyFails, WriteSize, Up, Return, Out, TrimArray, TrimNull, TrimNext, TrimItem,
         TrimSize, TrimDone
    <3> QED BY <3>1
  <2> QED BY <2>1, <2>2, <2>3, <2>4, <2>5
<1>6. ASSUME NEW t \in Thread, Act(t) PROVE ShortIntact'
  BY <1>2, <1>3, <1>4, <1>5, <1>6 DEF ShortIntact
<1> QED BY <1>1, <1>6 DEF Next, Act

\* Who truncates alone can go on using the device, as long as its list never had a
\* second item: scull_trim clears the device's array pointer, but never its next
\* pointer.  Failures of the arrays, the quanta and the copies, and signals, are
\* allowed; scull_follow does not survive that of an item.
THEOREM ShortListNeverFaults ==
  ASSUME TruncatesAlone, "item" \notin Failures
  PROVE  Spec => []ShortListSafe
<1>1. Init => ShortIntact
  BY DEF Init, ShortIntact, ShortListSafe
<1>2. RInv /\ OnlyNextDangles /\ ShortIntact /\ [Next]_vars => ShortIntact'
  BY ShortStep
<1>3. ShortIntact => ShortListSafe
  BY DEF ShortIntact
<1> QED BY <1>1, <1>2, <1>3, RInvAlways, PointersCleared, PTL DEF Spec

=============================================================================
