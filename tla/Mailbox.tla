------------------------------- MODULE Mailbox -------------------------------
(***************************************************************************)
(* What the callers of receiveFrom() rely on, without objects, buffers or  *)
(* flags: a call on an open handle takes the oldest of what has arrived    *)
(* there and returns it, each item to one call, in one indivisible step;   *)
(* or it returns an error, and may lose the item it had taken.             *)
(***************************************************************************)
EXTENDS Sequences

CONSTANTS
  Threads,
  Handles,
  Data,
  Nothing,            (* a thread has no result *)
  Error               (* the result of a call that failed *)

VARIABLES
  pending,            (* of each handle: what has arrived and no call returned *)
  result              (* of each thread: the result it has *)

vars == <<pending, result>>

Init ==
  /\ pending = [h \in Handles |-> <<>>]
  /\ result = [t \in Threads |-> Nothing]

Gives(t, r) == result[t] = Nothing /\ result' = [result EXCEPT ![t] = r]
Takes(h) == pending[h] # <<>> /\ pending' = [pending EXCEPT ![h] = Tail(pending[h])]

Arrive(h, d) ==
  /\ pending' = [pending EXCEPT ![h] = Append(@, d)]
  /\ UNCHANGED result

(* A call returns what it takes.                                           *)
Receive(t, h) == Takes(h) /\ Gives(t, Head(pending[h]))

Fail(t) == Gives(t, Error) /\ (UNCHANGED pending \/ \E h \in Handles : Takes(h))

DropResult(t) ==
  /\ result' = [result EXCEPT ![t] = Nothing]
  /\ UNCHANGED pending

(* The handle is closed: what was not received is gone.                    *)
Close(h) ==
  /\ pending' = [pending EXCEPT ![h] = <<>>]
  /\ UNCHANGED result

Next ==
  \/ \E h \in Handles, d \in Data : Arrive(h, d)
  \/ \E t \in Threads, h \in Handles : Receive(t, h)
  \/ \E t \in Threads : Fail(t) \/ DropResult(t)
  \/ \E h \in Handles : Close(h)

Spec == Init /\ [][Next]_vars
===============================================================================
