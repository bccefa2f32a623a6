------------------------------- MODULE Lifecycle -------------------------------
(***************************************************************************)
(* What loading and unloading a driver promises, and probe and remove of   *)
(* one device, whatever the driver does in which order: a load takes the   *)
(* things it plans to hold, each after what it needs, and ends with all of *)
(* them; a load that failed, and an unload, give back what is held, each   *)
(* thing before what it needs, and end with nothing.  Between the two      *)
(* there is no way back.                                                   *)
(***************************************************************************)
CONSTANTS
  Resource,  \* what a driver can hold in the kernel
  Needs      \* <<r, s>>: r must not be held without s

VARIABLES
  status,  \* "absent", "coming", "failing", "live" or "going"
  plan,    \* what a complete load holds
  held     \* what is held

lifecycle == <<status, plan, held>>

Init ==
  /\ status = "absent"
  /\ plan \in SUBSET Resource
  /\ held = {}

Load ==
  /\ status = "absent"
  /\ status' = "coming"
  /\ plan' \in SUBSET Resource
  /\ UNCHANGED held

\* A call that fails may have taken something.
Take == \E r \in plan \ held :
  /\ status = "coming"
  /\ \A s \in Resource : <<r, s>> \in Needs => s \in held
  /\ held' = held \cup {r}
  /\ status' \in {"coming", "failing"}
  /\ UNCHANGED plan

Complete ==
  /\ status = "coming"
  /\ held = plan
  /\ status' = "live"
  /\ UNCHANGED <<plan, held>>

\* A load that fails before it holds anything may be over at once.
Fail ==
  /\ status = "coming"
  /\ status' \in {"failing"} \cup {g \in {"absent"} : held = {}}
  /\ UNCHANGED <<plan, held>>

Unload ==
  /\ status = "live"
  /\ status' = "going"
  /\ UNCHANGED <<plan, held>>

\* The last thing may go together with the driver.
GiveBack == \E r \in held :
  /\ status \in {"failing", "going"}
  /\ \A s \in held : <<s, r>> \notin Needs
  /\ held' = held \ {r}
  /\ status' \in {status} \cup {g \in {"absent"} : held' = {}}
  /\ UNCHANGED plan

Gone ==
  /\ status \in {"failing", "going"}
  /\ held = {}
  /\ status' = "absent"
  /\ UNCHANGED <<plan, held>>

Next == Load \/ Take \/ Complete \/ Fail \/ Unload \/ GiveBack \/ Gone

Spec == Init /\ [][Next]_lifecycle
=============================================================================
