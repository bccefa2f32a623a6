----------------------------- MODULE ScullStore -----------------------------
(***************************************************************************)
(* What one scull device promises its callers: a sparse store of bytes     *)
(* with a size, on which read, write and the truncating open each take     *)
(* effect in one indivisible step between their call and their return.     *)
(* Nothing is said of list items, quanta or the semaphore: those belong to *)
(* the module Scull, which implements this one.                            *)
(***************************************************************************)
EXTENDS Integers, Sequences

CONSTANTS Thread,   \* the threads that issue system calls
          MaxPos,   \* no byte is stored at or after this position
          Counts,   \* the byte counts callers ask for
          Byte,     \* what a caller can store
          Undef,    \* the content of a position nobody wrote
          NoReq,    \* no call in progress
          NoResp    \* no result yet

VARIABLES content,  \* content[p]: what is stored at position p
          size,     \* the device's size
          phase,    \* phase[t]: "idle", "called" or "done"
          req,      \* req[t]: the call t is in
          resp      \* resp[t]: its result, once it has taken effect

vars == <<content, size, phase, req, resp>>

Positions == 0 .. MaxPos - 1

Init ==
  /\ content = [p \in Positions |-> Undef]
  /\ size = 0
  /\ phase = [t \in Thread |-> "idle"]
  /\ req = [t \in Thread |-> NoReq]
  /\ resp = [t \in Thread |-> NoResp]

Invoke(t) ==
  /\ phase[t] = "idle"
  /\ phase' = [phase EXCEPT ![t] = "called"]
  /\ \E op \in {"read", "write", "open"}, at \in 0 .. MaxPos, len \in Counts \cup {0} :
       \E data \in IF op = "write" THEN [1 .. len -> Byte] ELSE {<<>>} :
         req' = [req EXCEPT ![t] =
                   [op |-> op, at |-> at, len |-> len, data |-> data]]
  /\ UNCHANGED <<content, size, resp>>

Finish(t, n, bytes) ==
  /\ phase[t] = "called"
  /\ phase' = [phase EXCEPT ![t] = "done"]
  /\ resp' = [resp EXCEPT ![t] = [ret |-> n, bytes |-> bytes]]
  /\ UNCHANGED req

\* The stored bytes at the call's position: at least one of them when the
\* caller asked for any, never one at or past the size.
ReadBytes(t) ==
  /\ req[t] # NoReq
  /\ req[t].op = "read"
  /\ req[t].at < size
  /\ \E n \in 0 .. req[t].len :
       /\ n = 0 => req[t].len = 0
       /\ req[t].at + n <= size
       /\ Finish(t, n, [k \in 1 .. n |-> content[req[t].at + k - 1]])
  /\ UNCHANGED <<content, size>>

\* Nothing to read: the position is at or past the size, or was never written.
ReadNothing(t) ==
  /\ req[t] # NoReq
  /\ req[t].op = "read"
  /\ req[t].at < size => content[req[t].at] = Undef
  /\ Finish(t, 0, <<>>)
  /\ UNCHANGED <<content, size>>

\* A nonempty prefix of the caller's bytes is stored and the size covers it.
WriteBytes(t) ==
  /\ req[t] # NoReq
  /\ req[t].op = "write"
  /\ \E n \in 0 .. req[t].len :
       /\ n = 0 => req[t].len = 0
       /\ content' = [p \in Positions |->
                        IF p \in req[t].at .. req[t].at + n - 1
                        THEN req[t].data[p - req[t].at + 1] ELSE content[p]]
       /\ size' = IF size < req[t].at + n THEN req[t].at + n ELSE size
       /\ Finish(t, n, <<>>)

\* A call that fails changes no size; a failed write may have overwritten
\* positions of its own range, and nothing else.
Fail(t) ==
  /\ req[t] # NoReq
  /\ req[t].op \in {"read", "write"}
  /\ \E err \in {-12, -14, -512} : Finish(t, err, <<>>)
  /\ content' \in [Positions -> Byte \cup {Undef}]
  /\ \A p \in Positions :
       \/ content'[p] = content[p]
       \/ req[t].op = "write" /\ p \in req[t].at .. req[t].at + req[t].len - 1
  /\ UNCHANGED size

Truncate(t) ==
  /\ req[t] # NoReq
  /\ req[t].op = "open"
  /\ content' = [p \in Positions |-> Undef]
  /\ size' = 0
  /\ Finish(t, 0, <<>>)

Return(t) ==
  /\ phase[t] = "done"
  /\ phase' = [phase EXCEPT ![t] = "idle"]
  /\ req' = [req EXCEPT ![t] = NoReq]
  /\ resp' = [resp EXCEPT ![t] = NoResp]
  /\ UNCHANGED <<content, size>>

Next == \E t \in Thread :
  \/ Invoke(t)     \/ ReadBytes(t) \/ ReadNothing(t) \/ WriteBytes(t)
  \/ Fail(t)       \/ Truncate(t)  \/ Return(t)

Spec == Init /\ [][Next]_vars
=============================================================================
