------------------------------ MODULE UdpSocket ------------------------------
(***************************************************************************)
(* net::UdpSocket (udp.cpp): socket objects, with several threads calling  *)
(* receiveFrom() and sendTo() on them, over a network that loses,          *)
(* duplicates and reorders datagrams.  Construction, moves, destruction    *)
(* and the steps of receiveFrom() are SocketReceiver's.                    *)
(***************************************************************************)
EXTENDS SocketReceiver

CONSTANTS
  Addresses,
  Payloads,
  Error,              (* the result of a call that failed *)
  MaxSent,            (* bound: datagrams sent *)
  MaxInbox            (* bound: the kernel's receive queue *)

ASSUME NoConnsAssumption == Conns = {}
ASSUME PayloadsAssumption ==
  {NoData, Eof, Error} \cap Payloads = {} /\ Error # NoData
ASSUME NobodyAssumption == Nobody \notin Addresses
ASSUME MaxSentAssumption == MaxSent \in Nat

VARIABLES
  result,             (* the results callers have: Error, or what was received
                         and copied and the member bytes that callers can name *)
  bound,              (* the address of each handle *)
  wire,               (* datagrams on their way *)
  sent

networkVars == <<wire, sent>>
udpVars == <<result, bound, networkVars>>
vars == <<receiverVars, udpVars>>

Datagram == [to : Addresses, payload : Payloads]
Result == [received : Payloads, copy : Payloads \cup {NoData}, bytes : Payloads \cup {NoData}]

ASSUME NoResultAssumption == {NoData, Error} \cap Result = {}

Init ==
  /\ InitReceiver
  /\ result = [t \in Threads |-> NoData]
  /\ bound = [h \in Handles |-> Nobody]
  /\ wire = {}
  /\ sent = 0

-------------------------------------------------------------------------------
(* create(), the move constructor and the destructor.                      *)

Create(o) ==
  \E h \in Handles :
    /\ Construct(o, h)
    /\ bound' = [bound EXCEPT ![h] = Nobody]
    /\ UNCHANGED <<result, networkVars>>

CreateFails(o) == ConstructFails(o) /\ UNCHANGED udpVars
Move(o, n) == MoveSocket(o, n) /\ UNCHANGED udpVars

Destroy(o) ==
  /\ DestructEmpty(o) \/ DestructSocket(o) \/ CloseFails(o)
  /\ UNCHANGED udpVars

-------------------------------------------------------------------------------
(* receiveFrom(); a caller drops one result before it asks for another.    *)

Enter(t, o) == result[t] = NoData /\ Exchange(t, o) /\ UNCHANGED udpVars
Receive(t) == Recv(t) /\ UNCHANGED udpVars

(* The error is returned, or thrown.                                       *)
ReceiveFails(t) ==
  /\ RecvFails(t) \/ CopyThrows(t)
  /\ result' = [result EXCEPT ![t] = Error]
  /\ UNCHANGED <<bound, networkVars>>

Copy(t) == CopyOut(t) /\ UNCHANGED udpVars

(* The result's copy is in its base class; the member bytes that hides it  *)
(* (transport.h:60) is never written and holds anything.                   *)
Return(t) ==
  /\ StoreAndReturn(t)
  /\ \E v \in Payloads \cup {NoData} :
       result' = [result EXCEPT ![t] = [received |-> got[t], copy |-> copied[t], bytes |-> v]]
  /\ UNCHANGED <<bound, networkVars>>

(* The caller drops the result; ~ReceiveBytes() frees the copy.            *)
DropResult(t) ==
  /\ Running
  /\ result[t] # NoData
  /\ result' = [result EXCEPT ![t] = NoData]
  /\ UNCHANGED <<receiverVars, bound, networkVars>>

-------------------------------------------------------------------------------
(* The other calls.                                                        *)

(* bind() succeeds for a socket without an address, on a free address; its *)
(* error changes nothing.                                                  *)
Bind(o, a) ==
  /\ Usable(o)
  /\ bound[socket_[o]] = Nobody
  /\ \A h \in open : bound[h] # a
  /\ bound' = [bound EXCEPT ![socket_[o]] = a]
  /\ UNCHANGED <<receiverVars, result, networkVars>>

(* sendTo() hands the datagram to the network; its error changes nothing.  *)
SendTo(o, d) ==
  /\ Usable(o)
  /\ sent < MaxSent
  /\ sent' = sent + 1
  /\ wire' = wire \cup {d}
  /\ UNCHANGED <<receiverVars, result, bound>>

(* select() fails in readable() or writeable(), on a signal or a timeout   *)
(* of a second or more: the program terminates.  When it does not fail,    *)
(* the two calls change nothing.                                           *)
PollFails(o) ==
  /\ Usable(o)
  /\ terminated' = "select"
  /\ UNCHANGED <<ownerVars, flagVars, callVars, memoryVars, handleVars, udpVars>>

-------------------------------------------------------------------------------
(* The network: any datagram under way may arrive, arrive and be under way *)
(* still (a duplicate), or be lost.                                        *)
Arrive(d) ==
  /\ Running
  /\ d \in wire
  /\ \E h \in open :
       /\ bound[h] = d.to
       /\ Len(inbox[h]) < MaxInbox
       /\ inbox' = [inbox EXCEPT ![h] = Append(@, d.payload)]
  /\ wire' \in {wire, wire \ {d}}
  /\ UNCHANGED <<ownerVars, flagVars, callVars, terminated, memoryVars, open, result, bound, sent>>

Lose(d) ==
  /\ Running
  /\ d \in wire
  /\ wire' = wire \ {d}
  /\ UNCHANGED <<receiverVars, result, bound, sent>>

Ended ==
  /\ ~Running \/ \A o \in Objects : life[o] # "alive"
  /\ UNCHANGED vars

Next ==
  \/ \E o \in Objects : Create(o) \/ CreateFails(o) \/ Destroy(o) \/ PollFails(o)
  \/ \E o, n \in Objects : Move(o, n)
  \/ \E t \in Threads, o \in Objects : Enter(t, o)
  \/ \E t \in Threads : Receive(t) \/ ReceiveFails(t) \/ Copy(t) \/ Return(t) \/ DropResult(t)
  \/ \E o \in Objects, a \in Addresses : Bind(o, a)
  \/ \E o \in Objects, d \in Datagram : SendTo(o, d)
  \/ \E d \in Datagram : Arrive(d) \/ Lose(d)
  \/ Ended

Spec == Init /\ [][Next]_vars

-------------------------------------------------------------------------------
(* The types of the variables.                                             *)
TypeOK ==
  /\ TypeOKReceiver
  /\ got \in [Threads -> Payloads \cup {NoData}]
  /\ copied \in [Threads -> Payloads \cup {NoData}]
  /\ buffer \in [Buffers -> Payloads \cup {NoData}]
  /\ inbox \in [Handles -> Seq(Payloads)]
  /\ result \in [Threads -> Result \cup {NoData, Error}]
  /\ bound \in [Handles -> Addresses \cup {Nobody}]
  /\ wire \subseteq Datagram
  /\ sent \in 0 .. MaxSent

(* The copy a call returns is the datagram that recvfrom gave that call,   *)
(* however calls on this and on other objects are interleaved with it.     *)
ReturnedDatagramIntact ==
  \A t \in Threads : result[t] \in Result => result[t].copy = result[t].received

(* The refinement mapping: the datagram of a call under way is pending     *)
(* until the call returns.                                                 *)
InHand(h) ==
  { t \in Threads : pc[t] \in {"copy", "store"} /\ socket_[self[t]] = h }

PendingAt(h) ==
  IF InHand(h) = {} THEN inbox[h]
  ELSE <<got[CHOOSE t \in InHand(h) : TRUE]>> \o inbox[h]

ResultOf(t) == IF result[t] \in Result THEN result[t].copy ELSE result[t]

Box == INSTANCE Mailbox WITH
  Data <- Payloads,
  Nothing <- NoData,
  pending <- [h \in Handles |-> PendingAt(h)],
  result <- [t \in Threads |-> ResultOf(t)]

(* receiveFrom() is as good as one step that takes the oldest datagram of  *)
(* its socket and returns it: the steps of the call, the calls of others,  *)
(* moves, buffers and handles that are used again do not show.             *)
ImplementsMailbox == Box!Spec

(* udp.h:84-88: "Should two threads try to receive from the same socket at *)
(* the same time, the program will terminate."  A call of receiveFrom()    *)
(* terminates for no other reason: some call on the socket is under way.   *)
TerminatesOnlyOnOverlap ==
  [][\A o \in Objects :
       (\E t \in Threads : Enter(t, o)) /\ terminated' = "receiver" => Inside(o) # {}]_vars

(* udp.h:79, "@return Either the bytes and the received ipv4 address and   *)
(* port": the bytes the caller reads in the result are those received.     *)
CallerSeesDatagram ==
  \A t \in Threads : result[t] \in Result => result[t].bytes = result[t].received
===============================================================================
