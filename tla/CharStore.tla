------------------------------ MODULE CharStore ------------------------------
(***************************************************************************)
(* What a device of the char driver promises its callers: a fixed array of *)
(* bytes with no lock around it.  A read gets every byte asked for up to   *)
(* the end of the array; a write stores every byte that fits and is        *)
(* refused when none does.  Each byte is moved once, at one moment between *)
(* call and return, but the bytes of one call need not move together: what *)
(* concurrent calls see of each other is decided byte by byte.             *)
(***************************************************************************)
EXTENDS Integers, Sequences

CONSTANTS Thread,   \* the threads that issue system calls
          Minor,    \* the devices
          BUFSIZE,  \* bytes in a device
          Counts,   \* the byte counts callers ask for
          Byte,     \* what a caller can store
          Zero,     \* what a device holds at first
          NoReq,    \* no read or write in progress
          NoRet     \* no result yet

VARIABLES content,  \* content[m][p]: the byte at position p of device m
          req,      \* req[t]: the read or write t is in
          todo,     \* todo[t]: the positions whose byte has not been moved
          moved,    \* moved[t]: what a read has got, by position
          ret       \* ret[t]: its result

vars == <<content, req, todo, moved, ret>>

Positions == 0 .. BUFSIZE - 1
Nothing == [p \in {} |-> Zero]

Init ==
  /\ content = [m \in Minor |-> [p \in Positions |-> Zero]]
  /\ req = [t \in Thread |-> NoReq]
  /\ todo = [t \in Thread |-> {}]
  /\ moved = [t \in Thread |-> Nothing]
  /\ ret = [t \in Thread |-> NoRet]

\* The positions a request for len bytes at position at covers.
Covered(at, len) == {p \in Positions : at <= p /\ p < at + len}

Invoke(t) ==
  /\ req[t] = NoReq
  /\ \E op \in {"read", "write"}, m \in Minor, at \in 0 .. BUFSIZE, len \in Counts :
       /\ \E data \in IF op = "write" THEN [1 .. len -> Byte] ELSE {<<>>} :
            req' = [req EXCEPT ![t] =
                      [op |-> op, dev |-> m, at |-> at, len |-> len, data |-> data]]
       /\ todo' = [todo EXCEPT ![t] = Covered(at, len)]
  /\ UNCHANGED <<content, moved, ret>>

Pending(t, op) == req[t] # NoReq /\ ret[t] = NoRet /\ req[t].op = op

ReadSome(t) == \E S \in SUBSET todo[t] :
  /\ Pending(t, "read")
  /\ todo' = [todo EXCEPT ![t] = @ \ S]
  /\ moved' = [moved EXCEPT ![t] = [p \in DOMAIN @ \cup S |->
                 IF p \in S THEN content[req[t].dev][p] ELSE @[p]]]
  /\ UNCHANGED <<content, req, ret>>

WriteSome(t) == \E S \in SUBSET todo[t] :
  /\ Pending(t, "write")
  /\ todo' = [todo EXCEPT ![t] = @ \ S]
  /\ content' = [content EXCEPT ![req[t].dev] = [p \in Positions |->
                   IF p \in S THEN req[t].data[p - req[t].at + 1] ELSE @[p]]]
  /\ UNCHANGED <<req, moved, ret>>

\* Every byte has been moved: their number is the result, except that a write
\* that moves none is refused.
Complete(t) ==
  /\ Pending(t, "read") \/ Pending(t, "write")
  /\ todo[t] = {}
  /\ \E n \in 0 .. BUFSIZE :
       /\ Covered(req[t].at, req[t].len) = req[t].at .. req[t].at + n - 1
       /\ ret' = [ret EXCEPT ![t] = IF req[t].op = "write" /\ n = 0 THEN -12 ELSE n]
  /\ UNCHANGED <<content, req, todo, moved>>

\* The caller's memory is not there: the call fails with bytes left to move, and
\* the positions a write had left become zero.
Fault(t) ==
  /\ Pending(t, "read") \/ Pending(t, "write")
  /\ todo[t] # {}
  /\ ret' = [ret EXCEPT ![t] = -14]
  /\ content' = IF req[t].op = "read" THEN content
                ELSE [content EXCEPT ![req[t].dev] = [p \in Positions |->
                        IF p \in todo[t] THEN Zero ELSE @[p]]]
  /\ UNCHANGED <<req, todo, moved>>

Return(t) ==
  /\ ret[t] # NoRet
  /\ req' = [req EXCEPT ![t] = NoReq]
  /\ todo' = [todo EXCEPT ![t] = {}]
  /\ moved' = [moved EXCEPT ![t] = Nothing]
  /\ ret' = [ret EXCEPT ![t] = NoRet]
  /\ UNCHANGED content

Next == \E t \in Thread :
  \/ Invoke(t)   \/ ReadSome(t) \/ WriteSome(t)
  \/ Complete(t) \/ Fault(t)    \/ Return(t)

Spec == Init /\ [][Next]_vars
=============================================================================
