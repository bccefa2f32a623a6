------------------------- MODULE CharDevModuleProofs -------------------------
(***************************************************************************)
(* Proofs about CharDevModule, for any number of devices and files and any *)
(* choice of failing calls.  The inductive invariant Inv says, for every   *)
(* point of init and exit, what has been taken and not yet given back: in  *)
(* 06 on the way up everything below the loop index, on the way down       *)
(* nothing above it (unwinding) or below it (exit); in 03 what each label  *)
(* still has to give back.                                                 *)
(***************************************************************************)
EXTENDS CharDevModule, TLAPS

Holding == region /\ class
Nothing == ~region /\ ~class /\ cdevs = {} /\ nodes = {}
Undoing == module = "going" \/ (module = "coming" /\ failed)

Rising ==
  /\ pc = "region" => i = 0 /\ Nothing /\ ~failed
  /\ pc = "class" =>
       i = 0 /\ region /\ ~class /\ cdevs = {} /\ nodes = {} /\ ~failed
  /\ pc = "cdev" => Holding /\ cdevs = 0 .. i - 1 /\ nodes = cdevs /\ ~failed /\ i >= 0
  /\ pc = "device" =>
       Holding /\ i \in Index /\ cdevs = 0 .. i /\ nodes = 0 .. i - 1 /\ ~failed
  /\ pc \in {"region", "class", "cdev", "device"} =>
       module = "coming" /\ build = "four"
  /\ pc = "return" => module = "coming"

Unwinding == module = "coming" =>
  /\ pc \in {"destroy", "del", "unregister"} => failed
  /\ pc = "destroy" =>
       Holding /\ cdevs \subseteq 0 .. i /\ nodes \subseteq cdevs /\ i < MINOR_COUNT
  /\ pc = "del" =>
       /\ Holding /\ i \in Index
       /\ cdevs \subseteq 0 .. i /\ nodes \subseteq cdevs \ {i}

Exiting == module = "going" =>
  /\ pc \in {"destroy", "del", "unregister", "one_destroy", "CLASS_DEL", "CDEV_DEL"}
  /\ pc = "destroy" =>
       Holding /\ i >= 0 /\ cdevs = i .. MINOR_COUNT - 1 /\ nodes = cdevs
  /\ pc = "del" =>
       /\ Holding /\ i \in Index
       /\ cdevs = i .. MINOR_COUNT - 1 /\ nodes = i + 1 .. MINOR_COUNT - 1

Resting ==
  /\ pc = "unregister" => region /\ ~class /\ cdevs = {} /\ nodes = {} /\ Undoing
  /\ pc \in {"destroy", "del"} => Undoing /\ build = "four"
  /\ pc = "return" => IF failed THEN Nothing
                      ELSE build = "one" /\ Holding /\ cdevs = {0} /\ nodes = {0}
  /\ pc = "none" <=> module \in {"absent", "live"}
  /\ module = "absent" => Nothing
  /\ module = "live" => Holding /\ cdevs = Served /\ nodes = Served

OneUp ==
  /\ pc = "one_region" => Nothing
  /\ pc = "one_cdev" => region /\ ~class /\ cdevs = {} /\ nodes = {}
  /\ pc = "one_class" => region /\ ~class /\ cdevs = {0} /\ nodes = {}
  /\ pc = "one_device" => Holding /\ cdevs = {0} /\ nodes = {}
  /\ pc \in {"one_region", "one_cdev", "one_class", "one_device"} =>
       module = "coming" /\ build = "one" /\ ~failed

OneDown ==
  /\ pc = "one_destroy" => module = "going" /\ Holding /\ cdevs = {0} /\ nodes = {0}
  /\ pc = "CLASS_DEL" => Holding /\ cdevs = {0} /\ nodes = {}
  /\ pc = "CDEV_DEL" => region /\ ~class /\ cdevs = {0} /\ nodes = {}
  /\ pc \in {"one_destroy", "CLASS_DEL", "CDEV_DEL"} => Undoing /\ build = "one"

Inv == TypeOK /\ Rising /\ Unwinding /\ Exiting /\ Resting /\ OneUp /\ OneDown

LEMMA CountFact == MINOR_COUNT \in Nat /\ MINOR_COUNT >= 1
  BY CharDevModuleAssumption

LEMMA InvInit == Init => Inv
<1> SUFFICES ASSUME Init PROVE Inv
  OBVIOUS
<1>1. TypeOK
  <2>1. build \in {"one", "four"} /\ failed \in BOOLEAN /\ region \in BOOLEAN /\ class \in BOOLEAN
    BY DEF Init
  <2>2. i \in -1 .. MINOR_COUNT /\ pc \in Points
    BY CountFact DEF Init, Points
  <2> QED BY <2>1, <2>2 DEF Init, TypeOK
<1>2. Nothing
  BY DEF Init, Nothing
<1>3. Rising /\ Unwinding /\ Exiting /\ Resting /\ OneUp /\ OneDown
  BY <1>2 DEF Init, Rising, Unwinding, Exiting, Resting, OneUp, OneDown
<1> QED BY <1>1, <1>2, <1>3 DEF Inv

\* Every call of the driver, and every open and close, keeps what Inv says.
LEMMA InvStep ==
  ASSUME Inv, [Next]_vars
  PROVE  Inv'
<1> USE CountFact
<1> USE DEF Inv, TypeOK, Rising, Unwinding, Exiting, Resting, OneUp, OneDown, Nothing,
            Holding, Undoing, Points, Index, Served
<1>1. CASE UNCHANGED vars
  BY <1>1 DEF vars
<1>2. CASE Insmod
  <2>1. TypeOK'
    <3>1. failed' \in BOOLEAN
      BY <1>2, Zenon DEF Insmod
    <3>2. i' \in -1 .. MINOR_COUNT /\ pc' \in Points
      BY <1>2 DEF Insmod
    <3> QED BY <1>2, <3>1, <3>2 DEF Insmod
  <2>2. (Rising /\ Unwinding /\ Exiting /\ Resting)'
    BY <1>2, <2>1 DEF Insmod
  <2>3. (OneUp /\ OneDown)'
    BY <1>2, <2>1 DEF Insmod
  <2> QED BY <2>1, <2>2, <2>3
<1>3. CASE AllocRegion
  <2>1. TypeOK'
    BY <1>3 DEF AllocRegion
  <2>2. (Rising /\ Unwinding /\ Exiting /\ Resting)'
    BY <1>3, <2>1 DEF AllocRegion
  <2>3. (OneUp /\ OneDown)'
    BY <1>3, <2>1 DEF AllocRegion
  <2> QED BY <2>1, <2>2, <2>3
<1>4. CASE RegionFails
  <2>1. TypeOK'
    BY <1>4 DEF RegionFails, GiveUp
  <2>2. (Rising /\ Unwinding /\ Exiting /\ Resting)'
    BY <1>4, <2>1 DEF RegionFails, GiveUp
  <2>3. (OneUp /\ OneDown)'
    BY <1>4, <2>1 DEF RegionFails, GiveUp
  <2> QED BY <2>1, <2>2, <2>3
<1>5. CASE CreateClass
  <2>1. TypeOK'
    BY <1>5 DEF CreateClass
  <2>2. (Rising /\ Unwinding /\ Exiting /\ Resting)'
    <3>1. i = 0 /\ region /\ cdevs = {} /\ nodes = {} /\ ~failed
            /\ module = "coming" /\ build = "four"
      BY <1>5 DEF CreateClass
    <3>2. pc' = "cdev" /\ class' /\ UNCHANGED <<build, module, i, failed, region, cdevs, nodes>>
      BY <1>5 DEF CreateClass
    <3>3. 0 .. i - 1 = {}
      BY <3>1
    <3> QED BY <3>1, <3>2, <3>3
  <2>3. (OneUp /\ OneDown)'
    BY <1>5, <2>1 DEF CreateClass
  <2> QED BY <2>1, <2>2, <2>3
<1>6. CASE ClassFails
  <2>1. TypeOK'
    BY <1>6 DEF ClassFails, GiveUp
  <2>2. (Rising /\ Unwinding /\ Exiting /\ Resting)'
    BY <1>6, <2>1 DEF ClassFails, GiveUp
  <2>3. (OneUp /\ OneDown)'
    BY <1>6, <2>1 DEF ClassFails, GiveUp
  <2> QED BY <2>1, <2>2, <2>3
<1>7. CASE AddCdev
  <2>1. TypeOK'
    BY <1>7 DEF AddCdev
  <2>2. (Rising /\ Unwinding /\ Exiting /\ Resting)'
    BY <1>7, <2>1 DEF AddCdev
  <2>3. (OneUp /\ OneDown)'
    BY <1>7, <2>1 DEF AddCdev
  <2> QED BY <2>1, <2>2, <2>3
<1>8. CASE CdevFails
  <2>1. TypeOK'
    BY <1>8 DEF CdevFails, GiveUp
  <2>2. (Rising /\ Unwinding /\ Exiting /\ Resting)'
    BY <1>8, <2>1 DEF CdevFails, GiveUp
  <2>3. (OneUp /\ OneDown)'
    BY <1>8, <2>1 DEF CdevFails, GiveUp
  <2> QED BY <2>1, <2>2, <2>3
<1>9. CASE CreateDevice
  <2>1. TypeOK'
    BY <1>9 DEF CreateDevice
  <2>2. (Rising /\ Unwinding /\ Exiting /\ Resting)'
    BY <1>9, <2>1 DEF CreateDevice
  <2>3. (OneUp /\ OneDown)'
    BY <1>9, <2>1 DEF CreateDevice
  <2> QED BY <2>1, <2>2, <2>3
<1>10. CASE DeviceFails
  <2>1. TypeOK'
    BY <1>10 DEF DeviceFails, GiveUp
  <2>2. (Rising /\ Unwinding /\ Exiting /\ Resting)'
    BY <1>10, <2>1 DEF DeviceFails, GiveUp
  <2>3. (OneUp /\ OneDown)'
    BY <1>10, <2>1 DEF DeviceFails, GiveUp
  <2> QED BY <2>1, <2>2, <2>3
<1>11. CASE InitReturns
  <2>1. TypeOK'
    BY <1>11 DEF InitReturns
  <2>2. (Rising /\ Unwinding /\ Exiting /\ Resting)'
    BY <1>11, <2>1 DEF InitReturns
  <2>3. (OneUp /\ OneDown)'
    BY <1>11, <2>1 DEF InitReturns
  <2> QED BY <2>1, <2>2, <2>3
<1>12. CASE OneAllocRegion
  <2>1. TypeOK'
    BY <1>12 DEF OneAllocRegion
  <2>2. (Rising /\ Unwinding /\ Exiting /\ Resting)'
    BY <1>12, <2>1 DEF OneAllocRegion
  <2>3. (OneUp /\ OneDown)'
    BY <1>12, <2>1 DEF OneAllocRegion
  <2> QED BY <2>1, <2>2, <2>3
<1>13. CASE OneAddCdev
  <2>1. TypeOK'
    BY <1>13 DEF OneAddCdev
  <2>2. (Rising /\ Unwinding /\ Exiting /\ Resting)'
    BY <1>13, <2>1 DEF OneAddCdev
  <2>3. (OneUp /\ OneDown)'
    BY <1>13, <2>1 DEF OneAddCdev
  <2> QED BY <2>1, <2>2, <2>3
<1>14. CASE OneCreateClass
  <2>1. TypeOK'
    BY <1>14 DEF OneCreateClass
  <2>2. (Rising /\ Unwinding /\ Exiting /\ Resting)'
    BY <1>14, <2>1 DEF OneCreateClass
  <2>3. (OneUp /\ OneDown)'
    BY <1>14, <2>1 DEF OneCreateClass
  <2> QED BY <2>1, <2>2, <2>3
<1>15. CASE OneCreateDevice
  <2>1. TypeOK'
    BY <1>15 DEF OneCreateDevice
  <2>2. (Rising /\ Unwinding /\ Exiting /\ Resting)'
    BY <1>15, <2>1 DEF OneCreateDevice
  <2>3. (OneUp /\ OneDown)'
    BY <1>15, <2>1 DEF OneCreateDevice
  <2> QED BY <2>1, <2>2, <2>3
<1>16. CASE OneFails
  <2>1. TypeOK'
    BY <1>16 DEF OneFails, GiveUp
  <2>2. (Rising /\ Unwinding /\ Exiting /\ Resting)'
    BY <1>16, <2>1 DEF OneFails, GiveUp
  <2>3. (OneUp /\ OneDown)'
    BY <1>16, <2>1 DEF OneFails, GiveUp
  <2> QED BY <2>1, <2>2, <2>3
<1>17. CASE Rmmod
  <2>1. TypeOK'
    BY <1>17 DEF Rmmod
  <2>2. (Rising /\ Unwinding /\ Exiting /\ Resting)'
    BY <1>17, <2>1 DEF Rmmod
  <2>3. (OneUp /\ OneDown)'
    BY <1>17, <2>1 DEF Rmmod
  <2> QED BY <2>1, <2>2, <2>3
<1>18. CASE DestroyDevice
  <2>1. TypeOK'
    BY <1>18 DEF DestroyDevice
  <2>2. (Rising /\ Unwinding /\ Exiting /\ Resting)'
    BY <1>18, <2>1 DEF DestroyDevice
  <2>3. (OneUp /\ OneDown)'
    BY <1>18, <2>1 DEF DestroyDevice
  <2> QED BY <2>1, <2>2, <2>3
<1>19. CASE DelCdev
  <2>1. TypeOK'
    BY <1>19 DEF DelCdev
  <2>2. (Rising /\ Unwinding /\ Exiting /\ Resting)'
    BY <1>19, <2>1 DEF DelCdev
  <2>3. (OneUp /\ OneDown)'
    BY <1>19, <2>1 DEF DelCdev
  <2> QED BY <2>1, <2>2, <2>3
<1>20. CASE DestroyClass
  <2>1. TypeOK'
    BY <1>20 DEF DestroyClass
  <2>2. (Rising /\ Unwinding /\ Exiting /\ Resting)'
    BY <1>20, <2>1 DEF DestroyClass
  <2>3. (OneUp /\ OneDown)'
    BY <1>20, <2>1 DEF DestroyClass
  <2> QED BY <2>1, <2>2, <2>3
<1>21. CASE OneDestroyDevice
  <2>1. TypeOK'
    BY <1>21 DEF OneDestroyDevice
  <2>2. (Rising /\ Unwinding /\ Exiting /\ Resting)'
    BY <1>21, <2>1 DEF OneDestroyDevice
  <2>3. (OneUp /\ OneDown)'
    BY <1>21, <2>1 DEF OneDestroyDevice
  <2> QED BY <2>1, <2>2, <2>3
<1>22. CASE OneDestroyClass
  <2>1. TypeOK'
    BY <1>22 DEF OneDestroyClass
  <2>2. (Rising /\ Unwinding /\ Exiting /\ Resting)'
    BY <1>22, <2>1 DEF OneDestroyClass
  <2>3. (OneUp /\ OneDown)'
    BY <1>22, <2>1 DEF OneDestroyClass
  <2> QED BY <2>1, <2>2, <2>3
<1>23. CASE OneDelCdev
  <2>1. TypeOK'
    BY <1>23 DEF OneDelCdev
  <2>2. (Rising /\ Unwinding /\ Exiting /\ Resting)'
    BY <1>23, <2>1 DEF OneDelCdev
  <2>3. (OneUp /\ OneDown)'
    BY <1>23, <2>1 DEF OneDelCdev
  <2> QED BY <2>1, <2>2, <2>3
<1>24. CASE UnregisterRegion
  <2>1. TypeOK'
    BY <1>24 DEF UnregisterRegion
  <2>2. (Rising /\ Unwinding /\ Exiting /\ Resting)'
    BY <1>24, <2>1 DEF UnregisterRegion
  <2>3. (OneUp /\ OneDown)'
    BY <1>24, <2>1 DEF UnregisterRegion
  <2> QED BY <2>1, <2>2, <2>3
<1>25. CASE \E f \in File : UserOpen(f) \/ UserClose(f)
  <2>1. /\ open' \in [File -> Index \cup {NoDevice}]
        /\ UNCHANGED <<build, module, pc, i, failed, region, class, cdevs, nodes>>
    BY <1>25 DEF UserOpen, UserClose
  <2> QED BY <2>1
<1> QED BY <1>1, <1>2, <1>3, <1>4, <1>5, <1>6, <1>7, <1>8, <1>9, <1>10, <1>11, <1>12, <1>13, <1>14, <1>15, <1>16, <1>17, <1>18, <1>19, <1>20, <1>21, <1>22, <1>23, <1>24, <1>25 DEF Next, LoadStep, OneStep

THEOREM InvAlways == Spec => []Inv
  BY InvInit, InvStep, PTL DEF Spec

\* Every variable keeps its type.
THEOREM TypeCorrect == Spec => []TypeOK
  BY InvAlways, PTL DEF Inv

\* Whichever call fails and however many devices there are, a driver that is not
\* loaded holds nothing in the kernel.
THEOREM NothingStays == Spec => []NothingLeft
<1>1. Inv => NothingLeft
  BY DEF Inv, Resting, Nothing, NothingLeft
<1> QED BY <1>1, InvAlways, PTL

\* A loaded driver serves every one of its devices.
THEOREM LoadedServesAll == Spec => []LoadedIsComplete
<1>1. Inv => LoadedIsComplete
  BY DEF Inv, Resting, LoadedIsComplete
<1> QED BY <1>1, InvAlways, PTL

\* Nodes never outlive the cdevs behind them, nor the class and the region those need.
THEOREM NodesAreBacked == Spec => []NodesBacked
<1>1. ASSUME Inv PROVE NodesBacked
  <2>0. TypeOK /\ Rising /\ Unwinding /\ Exiting /\ Resting
    BY <1>1 DEF Inv
  <2> USE <2>0, CountFact DEF Nothing, Holding, Index, NodesBacked
  <2>1. CASE pc \in {"region", "class", "cdev", "device"}
    BY <2>1 DEF Rising
  <2>2. CASE pc \in {"destroy", "del"}
    BY <2>2 DEF TypeOK, Unwinding, Exiting, Resting
  <2>3. CASE pc \in {"unregister", "return", "none"}
    BY <2>3 DEF Resting, Served
  <2>4. CASE pc \in {"one_region", "one_cdev", "one_class", "one_device"}
    BY <2>4, <1>1 DEF Inv, OneUp
  <2>5. CASE pc \in {"one_destroy", "CLASS_DEL", "CDEV_DEL"}
    BY <2>5, <1>1 DEF Inv, OneDown
  <2> QED BY <2>1, <2>2, <2>3, <2>4, <2>5 DEF TypeOK, Points
<1> QED BY <1>1, InvAlways, PTL
-----------------------------------------------------------------------------
(* The lifecycle.  What is held is a set of things; a call takes or gives    *)
(* back one of them, or none.                                                *)

Members ==
  /\ Held \subseteq Resource
  /\ Region \in Held <=> region
  /\ Class \in Held <=> class
  /\ \A k \in Index : <<"cdev", k>> \in Held <=> k \in cdevs
  /\ \A k \in Index : <<"node", k>> \in Held <=> k \in nodes

LEMMA HeldNow == TypeOK => Members
  BY DEF TypeOK, Members, Held, Resource, Region, Class

LEMMA HeldNext == TypeOK' => Members'
  BY DEF TypeOK, Members, Held, Resource, Region, Class

LEMMA SameThings ==
  ASSUME NEW A \in SUBSET Resource, NEW B \in SUBSET Resource,
         Region \in A <=> Region \in B,
         Class \in A <=> Class \in B,
         \A k \in Index : <<"cdev", k>> \in A <=> <<"cdev", k>> \in B,
         \A k \in Index : <<"node", k>> \in A <=> <<"node", k>> \in B
  PROVE  A = B
  BY DEF Resource, Region, Class

LEMMA Things ==
  /\ Region \in Resource /\ Class \in Resource /\ Region # Class
  /\ \A k \in Index :
       /\ <<"cdev", k>> \in Resource \ {Region, Class}
       /\ <<"node", k>> \in Resource \ {Region, Class}
       /\ \A l \in Index : /\ <<"cdev", k>> # <<"node", l>>
                           /\ <<"cdev", k>> = <<"cdev", l>> => k = l
                           /\ <<"node", k>> = <<"node", l>> => k = l
  BY DEF Resource, Region, Class

LEMMA Planned ==
  ASSUME TypeOK
  PROVE  /\ Region \in Plan /\ Class \in Plan
         /\ \A k \in Served : <<"cdev", k>> \in Plan /\ <<"node", k>> \in Plan
         /\ \A k \in Index \ Served : <<"cdev", k>> \notin Plan /\ <<"node", k>> \notin Plan
         /\ Plan \subseteq Resource
         /\ Served \subseteq Index
  BY CountFact DEF TypeOK, Plan, Served, Region, Class, Resource, Index

LEMMA NeedsOf ==
  /\ \A s \in Resource : <<Region, s>> \notin Needs /\ <<Class, s>> \notin Needs
  /\ \A k \in Index, s \in Resource : <<<<"cdev", k>>, s>> \in Needs => s = Region
  /\ \A k \in Index, s \in Resource :
       <<<<"node", k>>, s>> \in Needs => s \in {Class, <<"cdev", k>>}
  /\ \A s \in Resource : <<s, Region>> \in Needs => \E k \in Index : s = <<"cdev", k>>
  /\ \A s \in Resource : <<s, Class>> \in Needs => \E k \in Index : s = <<"node", k>>
  /\ \A k \in Index, s \in Resource : <<s, <<"cdev", k>>>> \in Needs => s = <<"node", k>>
  /\ \A k \in Index, s \in Resource : <<s, <<"node", k>>>> \notin Needs
  BY DEF Needs, Resource, Region, Class

\* A call that leaves the kernel alone.
LEMMA Stutters ==
  ASSUME UNCHANGED <<build, region, class, cdevs, nodes>>
  PROVE  Held' = Held /\ Plan' = Plan
  BY DEF Held, Plan, Served

\* A call that takes what was not held.
LEMMA TakesOne ==
  ASSUME NEW r \in Plan, r \notin Held, Status = "coming", Status' = Status, Plan' = Plan,
         \A s \in Resource : <<r, s>> \in Needs => s \in Held,
         Held' = Held \cup {r}
  PROVE  Loading!Next
  BY DEF Loading!Next, Loading!Take

\* A call that gives back what was held.
LEMMA GivesOne ==
  ASSUME NEW r \in Held, Status \in {"failing", "going"}, Plan' = Plan,
         \A s \in Held : <<s, r>> \notin Needs,
         Held' = Held \ {r},
         Status' = Status \/ (Status' = "absent" /\ Held' = {})
  PROVE  Loading!Next
  BY DEF Loading!Next, Loading!GiveBack

LEMMA TakesRegion ==
  ASSUME Inv, Inv', AllocRegion \/ OneAllocRegion
  PROVE  Loading!Next
<1>1. TypeOK /\ TypeOK' /\ Members /\ Members'
  BY HeldNow, HeldNext DEF Inv
<1>2. ~region /\ region' /\ UNCHANGED <<build, class, cdevs, nodes>>
  BY DEF AllocRegion, OneAllocRegion, Inv, Rising, OneUp, Nothing
<1>3. Held' = Held \cup {Region}
  BY <1>2 DEF Held
<1>4. Status = "coming" /\ Status' = Status /\ Plan' = Plan
  BY DEF AllocRegion, OneAllocRegion, Inv, Rising, OneUp, Status, Plan, Served
<1> QED BY <1>1, <1>2, <1>3, <1>4, Planned, NeedsOf, TakesOne DEF Members

LEMMA TakesClass ==
  ASSUME Inv, Inv', CreateClass \/ OneCreateClass
  PROVE  Loading!Next
<1>1. TypeOK /\ TypeOK' /\ Members /\ Members'
  BY HeldNow, HeldNext DEF Inv
<1>2. ~class /\ class' /\ UNCHANGED <<build, region, cdevs, nodes>>
  BY DEF CreateClass, OneCreateClass, Inv, Rising, OneUp
<1>3. Held' = Held \cup {Class}
  BY <1>2 DEF Held
<1>4. Status = "coming" /\ Status' = Status /\ Plan' = Plan
  BY DEF CreateClass, OneCreateClass, Inv, Rising, OneUp, Status, Plan, Served
<1> QED BY <1>1, <1>2, <1>3, <1>4, Planned, NeedsOf, TakesOne DEF Members

LEMMA TakesCdev ==
  ASSUME Inv, Inv', AddCdev \/ OneAddCdev
  PROVE  Loading!Next
<1>1. TypeOK /\ TypeOK' /\ Members /\ Members'
  BY HeldNow, HeldNext DEF Inv
<1>2. PICK k \in Served : k \notin cdevs /\ cdevs' = cdevs \cup {k}
  <2>1. CASE AddCdev
    <3>1. i \in Served /\ i \notin cdevs /\ cdevs' = cdevs \cup {i}
      BY <2>1, CountFact DEF AddCdev, Inv, TypeOK, Rising, Served, Index
    <3> QED BY <3>1
  <2>2. CASE OneAddCdev
    <3>1. 0 \in Served /\ 0 \notin cdevs /\ cdevs' = cdevs \cup {0}
      BY <2>2 DEF OneAddCdev, Inv, OneUp, Served
    <3> QED BY <3>1
  <2> QED BY <2>1, <2>2
<1>3. region /\ UNCHANGED <<build, region, class, nodes>>
  BY DEF AddCdev, OneAddCdev, Inv, Rising, OneUp, Holding
<1>4. k \in Index
  BY <1>1, Planned
<1>5. Held' = Held \cup {<<"cdev", k>>}
  BY <1>2, <1>3 DEF Held
<1>6. Status = "coming" /\ Status' = Status /\ Plan' = Plan
  BY DEF AddCdev, OneAddCdev, Inv, Rising, OneUp, Status, Plan, Served
<1> QED BY <1>1, <1>2, <1>3, <1>4, <1>5, <1>6, Planned, NeedsOf, TakesOne DEF Members

LEMMA TakesNode ==
  ASSUME Inv, Inv', CreateDevice \/ OneCreateDevice
  PROVE  Loading!Next
<1>1. TypeOK /\ TypeOK' /\ Members /\ Members'
  BY HeldNow, HeldNext DEF Inv
<1>2. PICK k \in Served : k \notin nodes /\ k \in cdevs /\ nodes' = nodes \cup {k}
  <2>1. CASE CreateDevice
    <3>1. i \in Served /\ i \notin nodes /\ i \in cdevs /\ nodes' = nodes \cup {i}
      BY <2>1, CountFact DEF CreateDevice, Inv, TypeOK, Rising, Served, Index
    <3> QED BY <3>1
  <2>2. CASE OneCreateDevice
    <3>1. 0 \in Served /\ 0 \notin nodes /\ 0 \in cdevs /\ nodes' = nodes \cup {0}
      BY <2>2 DEF OneCreateDevice, Inv, OneUp, Served
    <3> QED BY <3>1
  <2> QED BY <2>1, <2>2
<1>3. class /\ UNCHANGED <<build, region, class, cdevs>>
  BY DEF CreateDevice, OneCreateDevice, Inv, Rising, OneUp, Holding
<1>4. k \in Index
  BY <1>1, Planned
<1>5. Held' = Held \cup {<<"node", k>>}
  BY <1>2, <1>3 DEF Held
<1>6. Status = "coming" /\ Status' = Status /\ Plan' = Plan
  BY DEF CreateDevice, OneCreateDevice, Inv, Rising, OneUp, Status, Plan, Served
<1>7. \A s \in Resource : <<<<"node", k>>, s>> \in Needs => s \in Held
  BY <1>1, <1>2, <1>3, <1>4, NeedsOf DEF Members
<1>8. <<"node", k>> \in Plan /\ <<"node", k>> \notin Held
  BY <1>1, <1>2, <1>4, Planned DEF Members
<1> QED BY <1>5, <1>6, <1>7, <1>8, TakesOne

LEMMA GivesNode ==
  ASSUME Inv, Inv', DestroyDevice \/ OneDestroyDevice
  PROVE  [Loading!Next]_(Loading!lifecycle)
<1>1. TypeOK /\ TypeOK' /\ Members /\ Members'
  BY HeldNow, HeldNext DEF Inv
<1>2. PICK k \in Index : nodes' = nodes \ {k}
  BY CountFact DEF DestroyDevice, OneDestroyDevice, Inv, OneDown, Index
<1>3. UNCHANGED <<build, region, class, cdevs>>
  BY DEF DestroyDevice, OneDestroyDevice
<1>4. Status \in {"failing", "going"} /\ Status' = Status /\ Plan' = Plan
  BY DEF DestroyDevice, OneDestroyDevice, Inv, Resting, OneDown, Undoing, Status, Plan,
         Served
<1>5. CASE k \in nodes
  <2>1. Held' = Held \ {<<"node", k>>}
    <3> DEFINE Rest == Held \ {<<"node", k>>}
    <3>1. Held' \in SUBSET Resource /\ Rest \in SUBSET Resource
      BY <1>1 DEF Members
    <3>2. (Region \in Held' <=> Region \in Rest) /\ (Class \in Held' <=> Class \in Rest)
      BY <1>1, <1>3, Things DEF Members
    <3>3. \A l \in Index : <<"cdev", l>> \in Held' <=> <<"cdev", l>> \in Rest
      BY <1>1, <1>2, <1>3, Things DEF Members
    <3>4. \A l \in Index : <<"node", l>> \in Held' <=> <<"node", l>> \in Rest
      BY <1>1, <1>2, <1>3, Things DEF Members
    <3> HIDE DEF Rest
    <3>5. Held' = Rest
      BY <3>1, <3>2, <3>3, <3>4, SameThings
    <3> QED BY <3>5 DEF Rest
  <2> QED BY <1>1, <1>2, <1>4, <1>5, <2>1, NeedsOf, GivesOne DEF Members
<1>6. CASE k \notin nodes
  <2>1. nodes' = nodes
    BY <1>2, <1>6
  <2> QED BY <1>3, <1>4, <2>1, Stutters DEF Loading!lifecycle
<1> QED BY <1>5, <1>6

LEMMA GivesCdev ==
  ASSUME Inv, Inv', DelCdev \/ OneDelCdev
  PROVE  [Loading!Next]_(Loading!lifecycle)
<1>1. TypeOK /\ TypeOK' /\ Members /\ Members'
  BY HeldNow, HeldNext DEF Inv
<1>2. PICK k \in Index : cdevs' = cdevs \ {k} /\ k \notin nodes
  BY CountFact DEF DelCdev, OneDelCdev, Inv, TypeOK, Unwinding, Exiting, Resting, OneDown,
                   Undoing, Index
<1>3. UNCHANGED <<build, region, class, nodes>>
  BY DEF DelCdev, OneDelCdev
<1>4. Status \in {"failing", "going"} /\ Status' = Status /\ Plan' = Plan
  BY DEF DelCdev, OneDelCdev, Inv, Resting, OneDown, Undoing, Status, Plan, Served
<1>5. CASE k \in cdevs
  <2>1. Held' = Held \ {<<"cdev", k>>}
    <3> DEFINE Rest == Held \ {<<"cdev", k>>}
    <3>1. Held' \in SUBSET Resource /\ Rest \in SUBSET Resource
      BY <1>1 DEF Members
    <3>2. (Region \in Held' <=> Region \in Rest) /\ (Class \in Held' <=> Class \in Rest)
      BY <1>1, <1>3, Things DEF Members
    <3>3. \A l \in Index : <<"cdev", l>> \in Held' <=> <<"cdev", l>> \in Rest
      BY <1>1, <1>2, <1>3, Things DEF Members
    <3>4. \A l \in Index : <<"node", l>> \in Held' <=> <<"node", l>> \in Rest
      BY <1>1, <1>2, <1>3, Things DEF Members
    <3> HIDE DEF Rest
    <3>5. Held' = Rest
      BY <3>1, <3>2, <3>3, <3>4, SameThings
    <3> QED BY <3>5 DEF Rest
  <2>2. \A s \in Held : <<s, <<"cdev", k>>>> \notin Needs
    BY <1>1, <1>2, NeedsOf DEF Members
  <2> QED BY <1>1, <1>4, <1>5, <2>1, <2>2, GivesOne DEF Members
<1>6. CASE k \notin cdevs
  <2>1. cdevs' = cdevs
    BY <1>2, <1>6
  <2> QED BY <1>3, <1>4, <2>1, Stutters DEF Loading!lifecycle
<1> QED BY <1>5, <1>6

LEMMA GivesClass ==
  ASSUME Inv, Inv', DestroyClass \/ OneDestroyClass
  PROVE  Loading!Next
<1>1. TypeOK /\ TypeOK' /\ Members /\ Members'
  BY HeldNow, HeldNext DEF Inv
<1>2. class /\ ~class' /\ nodes = {} /\ UNCHANGED <<build, region, cdevs, nodes>>
  <2>1. CASE DestroyClass
    BY <2>1 DEF DestroyClass, Inv, TypeOK, Unwinding, Exiting, Resting, Undoing, Holding, Index
  <2>2. CASE OneDestroyClass
    BY <2>2 DEF OneDestroyClass, Inv, OneDown, Holding
  <2> QED BY <2>1, <2>2
<1>3. Held' = Held \ {Class}
  BY <1>1, <1>2, Things DEF Held, Members
<1>4. Status \in {"failing", "going"} /\ Status' = Status /\ Plan' = Plan
  BY DEF DestroyClass, OneDestroyClass, Inv, Resting, OneDown, Undoing, Status, Plan, Served
<1> QED BY <1>1, <1>2, <1>3, <1>4, NeedsOf, GivesOne DEF Members

LEMMA GivesRegion ==
  ASSUME Inv, Inv', UnregisterRegion
  PROVE  Loading!Next
<1>1. TypeOK /\ TypeOK' /\ Members /\ Members'
  BY HeldNow, HeldNext DEF Inv
<1>2. region /\ ~region' /\ ~class /\ nodes = {} /\ cdevs = {}
        /\ UNCHANGED <<build, class, cdevs, nodes>>
  BY DEF UnregisterRegion, Inv, Resting
<1>3. Held' = Held \ {Region}
  BY <1>1, <1>2, Things DEF Held, Members
<1>4. Held' = {}
  BY <1>1, <1>2, Things, SameThings DEF Members
<1>5. Status \in {"failing", "going"} /\ Status' \in {Status, "absent"} /\ Plan' = Plan
  BY DEF UnregisterRegion, Inv, Resting, Undoing, Status, Plan, Served
<1> QED BY <1>1, <1>2, <1>3, <1>4, <1>5, NeedsOf, GivesOne DEF Members

\* The calls that fail, and the ends of init, change only how far the load has come.
LEMMA ComesToAnEnd ==
  ASSUME Inv, Inv',
         Insmod \/ Rmmod \/ InitReturns \/ RegionFails \/ ClassFails \/ CdevFails
           \/ DeviceFails \/ OneFails
  PROVE  Loading!Next
<1>1. TypeOK /\ TypeOK' /\ Members /\ Members'
  BY HeldNow, HeldNext DEF Inv
<1>2. Held' = Held
  <2>1. UNCHANGED <<region, class, cdevs, nodes>>
    BY DEF Insmod, Rmmod, InitReturns, RegionFails, ClassFails, CdevFails, DeviceFails,
           OneFails, GiveUp
  <2> QED BY <2>1 DEF Held
<1>3. CASE Insmod
  <2>1. Status = "absent" /\ Status' = "coming"
    BY <1>3 DEF Insmod, Status
  <2>2. Plan' \in SUBSET Resource
    BY <1>1, CountFact DEF TypeOK, Plan, Served, Resource, Index
  <2> QED BY <1>2, <2>1, <2>2 DEF Loading!Next, Loading!Load
<1>4. CASE Rmmod
  <2>1. Status = "live" /\ Status' = "going" /\ Plan' = Plan
    BY <1>4 DEF Rmmod, Status, Plan, Served
  <2> QED BY <1>2, <2>1 DEF Loading!Next, Loading!Unload
<1>5. CASE InitReturns /\ failed
  <2>1. Status = "failing" /\ Status' = "absent" /\ Plan' = Plan
    BY <1>5 DEF InitReturns, Status, Plan, Served
  <2>2. ~region /\ ~class /\ cdevs = {} /\ nodes = {}
    BY <1>5 DEF InitReturns, Inv, Rising, Resting, Nothing
  <2>3. Held = {}
    BY <1>1, <2>2, SameThings DEF Members
  <2> QED BY <1>2, <2>1, <2>3 DEF Loading!Next, Loading!Gone
<1>6. CASE InitReturns /\ ~failed
  <2>1. Status = "coming" /\ Status' = "live" /\ Plan' = Plan
    BY <1>6 DEF InitReturns, Status, Plan, Served
  <2>2. region /\ class /\ cdevs = Served /\ nodes = Served
    BY <1>6, CountFact
       DEF InitReturns, Inv, TypeOK, Rising, Resting, Holding, Served, Index
  <2>3. Held = Plan
    BY <1>1, <2>2, Planned, SameThings DEF Members
  <2> QED BY <1>2, <2>1, <2>3 DEF Loading!Next, Loading!Complete
<1>7. CASE RegionFails \/ ClassFails \/ CdevFails \/ DeviceFails \/ OneFails
  <2>1. Status = "coming" /\ Status' = "failing" /\ Plan' = Plan
    BY <1>7 DEF RegionFails, ClassFails, CdevFails, DeviceFails, OneFails, GiveUp, Inv,
                Rising, OneUp, Status, Plan, Served
  <2> QED BY <1>2, <2>1 DEF Loading!Next, Loading!Fail
<1> QED BY <1>3, <1>4, <1>5, <1>6, <1>7

LEMMA LifecycleStep ==
  ASSUME Inv, Inv', [Next]_vars
  PROVE  [Loading!Next]_(Loading!lifecycle)
<1>1. CASE UNCHANGED vars \/ \E f \in File : UserOpen(f) \/ UserClose(f)
  <2>1. UNCHANGED <<build, module, failed, region, class, cdevs, nodes>>
    BY <1>1 DEF vars, UserOpen, UserClose
  <2>2. Status' = Status
    BY <2>1 DEF Status
  <2> QED BY <2>1, <2>2, Stutters DEF Loading!lifecycle
<1>2. CASE Insmod \/ Rmmod \/ LoadStep
  BY <1>2, TakesRegion, TakesClass, TakesCdev, TakesNode, GivesNode, GivesCdev, GivesClass,
     GivesRegion, ComesToAnEnd DEF LoadStep, OneStep
<1> QED BY <1>1, <1>2 DEF Next

\* Both builds of the driver implement the lifecycle, for any number of devices
\* and whichever calls fail.
THEOREM ImplementsLifecycle == Spec => LifecycleSpec
<1>1. Init => Loading!Init
  <2> SUFFICES ASSUME Init PROVE Loading!Init
    OBVIOUS
  <2>1. Inv
    BY InvInit
  <2>2. Status = "absent" /\ Held = {}
    BY DEF Init, Status, Held
  <2> QED BY <2>1, <2>2, Planned DEF Inv, Loading!Init
<1> QED BY <1>1, InvAlways, LifecycleStep, PTL DEF Spec, LifecycleSpec, Loading!Spec
=============================================================================
