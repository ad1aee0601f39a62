-------------------------- MODULE UdpSocket_proofs --------------------------
(***************************************************************************)
(* What UdpSocket guarantees for every number of threads, objects, handles *)
(* and buffers: the lemmas of SocketReceiver_proofs, and that receiveFrom()*)
(* implements the Mailbox.                                                 *)
(***************************************************************************)
EXTENDS UdpSocket, SocketReceiver_proofs

(* A caller has dropped the last result before the call.                   *)
NoResultInCall == \A t \in Threads : InCall(t) => result[t] = NoData

(* From recvfrom() to the return the call has a datagram.                  *)
GotDatagram == \A t \in Threads : pc[t] \in {"copy", "store"} => got[t] \in Payloads

(* The inductive invariant.                                                *)
UdpInv ==
  /\ ReceiverInv
  /\ TypeOK
  /\ NoResultInCall
  /\ GotDatagram
  /\ ReturnedDatagramIntact

-------------------------------------------------------------------------------
(* The invariant.                                                          *)

(* Every step is one of SocketReceiver's, a change of an inbox, or leaves  *)
(* the objects and the calls alone.                                        *)
LEMMA NextKeepsReceiver == UdpInv /\ [Next]_vars => ReceiverInv'
<1> SUFFICES ASSUME UdpInv, [Next]_vars PROVE ReceiverInv'
  OBVIOUS
<1> USE DEF UdpInv
<1>1. ReceiverInv
  OBVIOUS
<1>2. \A o \in Objects : o \in Sockets
  BY NoConnsAssumption DEF Objects
<1>3. CASE UNCHANGED receiverVars
  BY <1>1, <1>3, ArrivalKeeps DEF receiverVars, handleVars, ReceiverInv, Domains
<1>4. ASSUME NEW o \in Objects, Create(o) \/ CreateFails(o) \/ Destroy(o)
      PROVE  ReceiverInv'
  BY <1>1, <1>2, <1>4, ConstructKeeps, OwnerFailsKeeps, DestructEmptyKeeps, DestructSocketKeeps
  DEF Create, CreateFails, Destroy
<1>5. ASSUME NEW o \in Objects, PollFails(o)
      PROVE  ReceiverInv'
  BY <1>1, <1>5, TerminateKeeps DEF PollFails
<1>6. ASSUME NEW o \in Objects, NEW n \in Objects, Move(o, n)
      PROVE  ReceiverInv'
  BY <1>1, <1>2, <1>6, MoveSocketKeeps DEF Move
<1>7. ASSUME NEW t \in Threads, NEW o \in Objects, Enter(t, o)
      PROVE  ReceiverInv'
  BY <1>1, <1>7, ExchangeKeeps DEF Enter
<1>8. ASSUME NEW t \in Threads, Receive(t) \/ ReceiveFails(t) \/ Copy(t) \/ Return(t)
      PROVE  ReceiverInv'
  BY <1>1, <1>8, RecvKeeps, CallFailsKeeps, CopyOutKeeps, StoreAndReturnKeeps
  DEF Receive, ReceiveFails, Copy, Return
<1>9. ASSUME NEW d \in Datagram, Arrive(d)
      PROVE  ReceiverInv'
  <2>1. DOMAIN inbox' = Handles
    BY <1>1, <1>9 DEF Arrive, ReceiverInv, Domains
  <2> QED
    BY <1>1, <1>9, <2>1, ArrivalKeeps DEF Arrive
<1> QED
  BY <1>3, <1>4, <1>5, <1>6, <1>7, <1>8, <1>9
  DEF Next, DropResult, Bind, SendTo, Lose, Ended, vars

(* Steps of the owner of an object and of the network; the others are      *)
(* those of a receiving call and of its caller.                            *)
OwnerStep ==
  \/ \E o \in Objects : Create(o) \/ CreateFails(o) \/ Destroy(o) \/ PollFails(o)
  \/ \E o, n \in Objects : Move(o, n)

NetworkStep ==
  \/ \E o \in Objects, a \in Addresses : Bind(o, a)
  \/ \E o \in Objects, d \in Datagram : SendTo(o, d)
  \/ \E d \in Datagram : Arrive(d) \/ Lose(d)

(* What every one of them leaves alone.                                    *)
QuietFrame == UNCHANGED <<callVars, buffer, result>>

NetworkTyped ==
  /\ inbox \in [Handles -> Seq(Payloads)]
  /\ bound \in [Handles -> Addresses \cup {Nobody}]
  /\ wire \subseteq Datagram
  /\ sent \in 0 .. MaxSent

(* An owner's step leaves what the calls and the callers hold, and the     *)
(* network's types.                                                        *)
LEMMA OwnerStepFrame ==
  ASSUME UdpInv, OwnerStep
  PROVE  QuietFrame /\ NetworkTyped'
<1>1. ASSUME NEW o \in Objects, Create(o)
      PROVE  QuietFrame /\ NetworkTyped'
  BY <1>1 DEF Create, Construct, UdpInv, TypeOK, QuietFrame, NetworkTyped, networkVars
<1>2. ASSUME NEW o \in Objects, Destroy(o)
      PROVE  QuietFrame /\ NetworkTyped'
  <2>1. UNCHANGED udpVars
    BY <1>2 DEF Destroy
  <2>2. CASE DestructEmpty(o) \/ CloseFails(o)
    BY <2>1, <2>2 DEF DestructEmpty, CloseFails, UdpInv, TypeOK, udpVars, networkVars, memoryVars,
                      handleVars, QuietFrame, NetworkTyped
  <2>3. CASE DestructSocket(o)
    <3>1. inbox' = [inbox EXCEPT ![socket_[o]] = <<>>] /\ UNCHANGED <<callVars, buffer>>
      BY <2>3 DEF DestructSocket, ClosesHandle
    <3>2. <<>> \in Seq(Payloads)
      OBVIOUS
    <3>3. inbox \in [Handles -> Seq(Payloads)]
      BY DEF UdpInv, TypeOK
    <3>4. inbox' \in [Handles -> Seq(Payloads)]
      BY <3>1, <3>2, <3>3
    <3> QED
      BY <2>1, <3>1, <3>4 DEF UdpInv, TypeOK, udpVars, networkVars, QuietFrame, NetworkTyped
  <2> QED
    BY <1>2, <2>2, <2>3 DEF Destroy
<1>3. ASSUME NEW o \in Objects, CreateFails(o) \/ PollFails(o)
      PROVE  QuietFrame /\ NetworkTyped'
  BY <1>3 DEF CreateFails, ConstructFails, PollFails, UdpInv, TypeOK, udpVars, networkVars,
              memoryVars, handleVars, QuietFrame, NetworkTyped
<1>4. ASSUME NEW o \in Objects, NEW n \in Objects, Move(o, n)
      PROVE  QuietFrame /\ NetworkTyped'
  BY <1>4 DEF Move, MoveSocket, UdpInv, TypeOK, udpVars, networkVars, memoryVars, handleVars,
              QuietFrame, NetworkTyped
<1> QED
  BY <1>1, <1>2, <1>3, <1>4 DEF OwnerStep

(* The network's steps leave what the calls and the callers hold.          *)
LEMMA NetworkStepFrame ==
  ASSUME UdpInv, NetworkStep
  PROVE  /\ QuietFrame /\ NetworkTyped'
         /\ UNCHANGED <<ownerVars, flagVars, terminated, heap, open>>
<1> DEFINE Frame == /\ QuietFrame /\ NetworkTyped'
                    /\ UNCHANGED <<ownerVars, flagVars, terminated, heap, open>>
<1>0. NetworkTyped
  BY DEF UdpInv, TypeOK, NetworkTyped
<1>1. ASSUME NEW o \in Objects, NEW a \in Addresses, Bind(o, a)
      PROVE  Frame
  <2>1. /\ bound' = [bound EXCEPT ![socket_[o]] = a]
        /\ UNCHANGED <<receiverVars, result, networkVars>>
    BY <1>1 DEF Bind
  <2>2. bound' \in [Handles -> Addresses \cup {Nobody}]
    BY <1>0, <2>1 DEF NetworkTyped
  <2> QED
    BY <1>0, <2>1, <2>2
    DEF receiverVars, memoryVars, handleVars, networkVars, QuietFrame, NetworkTyped
<1>2. ASSUME NEW o \in Objects, NEW d \in Datagram, SendTo(o, d)
      PROVE  Frame
  <2>1. /\ sent < MaxSent /\ sent' = sent + 1 /\ wire' = wire \cup {d}
        /\ UNCHANGED <<receiverVars, result, bound>>
    BY <1>2 DEF SendTo
  <2>2. sent' \in 0 .. MaxSent
    BY <1>0, <2>1, MaxSentAssumption DEF NetworkTyped
  <2> QED
    BY <1>0, <2>1, <2>2
    DEF receiverVars, memoryVars, handleVars, QuietFrame, NetworkTyped
<1>3. ASSUME NEW d \in Datagram, Arrive(d)
      PROVE  Frame
  <2>1. PICK h \in open : inbox' = [inbox EXCEPT ![h] = Append(@, d.payload)]
    BY <1>3 DEF Arrive
  <2>2. h \in Handles /\ d.payload \in Payloads
    BY DEF UdpInv, TypeOK, TypeOKReceiver, Datagram
  <2>3. inbox' \in [Handles -> Seq(Payloads)]
    BY <1>0, <2>1, <2>2 DEF NetworkTyped
  <2> QED
    BY <1>0, <1>3, <2>3 DEF Arrive, memoryVars, QuietFrame, NetworkTyped
<1>4. ASSUME NEW d \in Datagram, Lose(d)
      PROVE  Frame
  BY <1>0, <1>4 DEF Lose, receiverVars, memoryVars, handleVars, QuietFrame, NetworkTyped
<1> QED
  BY <1>1, <1>2, <1>3, <1>4 DEF NetworkStep

(* The invariant but for what SocketReceiver's lemmas say.                 *)
CallInv == TypeOK /\ NoResultInCall /\ GotDatagram /\ ReturnedDatagramIntact

(* A step that leaves what the calls and the callers hold keeps CallInv.   *)
LEMMA QuietKeeps ==
  ASSUME UdpInv, QuietFrame, NetworkTyped', TypeOKReceiver'
  PROVE  CallInv'
BY DEF CallInv, QuietFrame, NetworkTyped, UdpInv, TypeOK, NoResultInCall, GotDatagram,
       ReturnedDatagramIntact, InCall, callVars

(* The exchange changes no data.                                           *)
LEMMA EnterKeeps ==
  ASSUME UdpInv, NEW t \in Threads, NEW o \in Objects, Enter(t, o), TypeOKReceiver'
  PROVE  CallInv'
<1>1. /\ result[t] = NoData
      /\ UNCHANGED <<got, copied, buffer, inbox, result, bound, wire, sent>>
      /\ UNCHANGED pc \/ pc' = [pc EXCEPT ![t] = "recv"]
  BY DEF Enter, Exchange, memoryVars, handleVars, udpVars, networkVars
<1>2. \A u \in Threads : u # t => InCall(u)' = InCall(u)
  BY <1>1 DEF InCall, UdpInv, TypeOKReceiver, TypeOK
<1>3. \A u \in Threads : pc'[u] \in {"copy", "store"} => pc[u] \in {"copy", "store"}
  BY <1>1 DEF UdpInv, TypeOKReceiver, TypeOK
<1>4. TypeOK'
  BY <1>1 DEF UdpInv, TypeOK
<1>5. NoResultInCall'
  BY <1>1, <1>2 DEF UdpInv, NoResultInCall
<1>6. GotDatagram' /\ ReturnedDatagramIntact'
  BY <1>1, <1>3 DEF UdpInv, GotDatagram, ReturnedDatagramIntact
<1> QED
  BY <1>4, <1>5, <1>6 DEF CallInv

(* recvfrom() takes a datagram.                                            *)
LEMMA ReceiveKeeps ==
  ASSUME UdpInv, NEW t \in Threads, Receive(t), TypeOKReceiver'
  PROVE  CallInv'
<1> DEFINE h == socket_[self[t]]
<1>1. /\ pc[t] = "recv" /\ pc' = [pc EXCEPT ![t] = "copy"]
      /\ inbox[h] # <<>> /\ BufferOf(t) # NullPtr
      /\ buffer' = [buffer EXCEPT ![BufferOf(t)] = Head(inbox[h])]
      /\ got' = [got EXCEPT ![t] = Head(inbox[h])]
      /\ inbox' = [inbox EXCEPT ![h] = Tail(inbox[h])]
      /\ UNCHANGED <<copied, result, bound, wire, sent>>
  BY DEF Receive, Recv, udpVars, networkVars
<1>2. h \in Handles
  BY <1>1, CallHasGuard DEF UdpInv, TypeOK, TypeOKReceiver, InCall
<1>3. inbox[h] \in Seq(Payloads) /\ Head(inbox[h]) \in Payloads /\ Tail(inbox[h]) \in Seq(Payloads)
  BY <1>1, <1>2 DEF UdpInv, TypeOK
<1>4. TypeOK'
  BY <1>1, <1>3 DEF UdpInv, TypeOK
<1>5. GotDatagram'
  BY <1>1, <1>3 DEF UdpInv, TypeOK, TypeOKReceiver, GotDatagram
<1>6. NoResultInCall'
  BY <1>1 DEF UdpInv, TypeOK, TypeOKReceiver, NoResultInCall, InCall
<1> QED
  BY <1>1, <1>4, <1>5, <1>6 DEF CallInv, UdpInv, ReturnedDatagramIntact

(* The call that leaves with an error has one for its result.              *)
LEMMA ReceiveFailsKeeps ==
  ASSUME UdpInv, NEW t \in Threads, ReceiveFails(t), TypeOKReceiver'
  PROVE  CallInv'
<1>1. /\ pc' = [pc EXCEPT ![t] = "idle"] /\ got' = [got EXCEPT ![t] = NoData]
      /\ result' = [result EXCEPT ![t] = Error]
      /\ UNCHANGED <<copied, buffer, inbox, bound, wire, sent>>
  BY DEF ReceiveFails, RecvFails, CopyThrows, LeavesFlag, memoryVars, handleVars, networkVars
<1>2. TypeOK'
  BY <1>1 DEF UdpInv, TypeOK
<1>3. NoResultInCall' /\ GotDatagram'
  BY <1>1 DEF UdpInv, TypeOK, TypeOKReceiver, NoResultInCall, GotDatagram, InCall
<1>4. ReturnedDatagramIntact'
  BY <1>1, NoResultAssumption DEF UdpInv, TypeOK, ReturnedDatagramIntact
<1> QED
  BY <1>2, <1>3, <1>4 DEF CallInv

(* What is copied was received.                                            *)
LEMMA CopyKeeps ==
  ASSUME UdpInv, NEW t \in Threads, Copy(t), TypeOKReceiver'
  PROVE  CallInv'
<1>1. /\ pc[t] = "copy" /\ pc' = [pc EXCEPT ![t] = "store"]
      /\ copied' = [copied EXCEPT ![t] = IF got[t] = Eof THEN Eof ELSE buffer[BufferOf(t)]]
      /\ UNCHANGED <<got, buffer, inbox, result, bound, wire, sent>>
  BY DEF Copy, CopyOut, memoryVars, handleVars, udpVars, networkVars
<1>2. got[t] \in Payloads /\ got[t] # Eof
  BY <1>1, PayloadsAssumption DEF UdpInv, GotDatagram
<1>3. buffer[BufferOf(t)] \in Payloads
  BY <1>1, <1>2 DEF UdpInv, ReceiverInv, DataInHand
<1>4. TypeOK'
  BY <1>1, <1>2, <1>3 DEF UdpInv, TypeOK
<1>5. NoResultInCall' /\ GotDatagram'
  BY <1>1 DEF UdpInv, TypeOK, TypeOKReceiver, NoResultInCall, GotDatagram, InCall
<1> QED
  BY <1>1, <1>4, <1>5 DEF CallInv, UdpInv, ReturnedDatagramIntact

(* The result is what was received and its copy.                           *)
LEMMA ReturnKeeps ==
  ASSUME UdpInv, NEW t \in Threads, Return(t), TypeOKReceiver'
  PROVE  CallInv'
<1>1. PICK v \in Payloads \cup {NoData} :
        result' = [result EXCEPT ![t] = [received |-> got[t], copy |-> copied[t], bytes |-> v]]
  BY DEF Return
<1>2. /\ pc[t] = "store" /\ pc' = [pc EXCEPT ![t] = "idle"]
      /\ got' = [got EXCEPT ![t] = NoData] /\ copied' = [copied EXCEPT ![t] = NoData]
      /\ UNCHANGED <<buffer, inbox, bound, wire, sent>>
  BY DEF Return, StoreAndReturn, memoryVars, handleVars, networkVars
<1>3. got[t] \in Payloads /\ copied[t] = got[t]
  BY <1>2 DEF UdpInv, GotDatagram, ReceiverInv, DataInHand
<1>4. [received |-> got[t], copy |-> copied[t], bytes |-> v] \in Result
  BY <1>3 DEF Result
<1>5. result' \in [Threads -> Result \cup {NoData, Error}]
  BY <1>1, <1>4 DEF UdpInv, TypeOK
<1>6. TypeOK'
  BY <1>2, <1>5 DEF UdpInv, TypeOK
<1>7. NoResultInCall' /\ GotDatagram'
  BY <1>1, <1>2 DEF UdpInv, TypeOK, TypeOKReceiver, NoResultInCall, GotDatagram, InCall
<1>8. ReturnedDatagramIntact'
  <2>1. result'[t].copy = result'[t].received
    BY <1>1, <1>3 DEF UdpInv, TypeOK
  <2>2. \A u \in Threads : u # t => result'[u] = result[u]
    BY <1>1 DEF UdpInv, TypeOK
  <2> QED
    BY <2>1, <2>2 DEF UdpInv, ReturnedDatagramIntact
<1> QED
  BY <1>6, <1>7, <1>8 DEF CallInv

(* The caller drops its result.                                            *)
LEMMA DropResultKeeps ==
  ASSUME UdpInv, NEW t \in Threads, DropResult(t)
  PROVE  CallInv'
<1>1. /\ result' = [result EXCEPT ![t] = NoData]
      /\ UNCHANGED <<receiverVars, bound, wire, sent>>
  BY DEF DropResult, networkVars
<1>2. TypeOKReceiver'
  BY <1>1 DEF UdpInv, ReceiverInv, TypeOKReceiver, InCall, receiverVars, ownerVars, flagVars, callVars,
              memoryVars, handleVars
<1>3. TypeOK'
  BY <1>1, <1>2 DEF UdpInv, TypeOK, receiverVars, callVars, memoryVars, handleVars
<1>4. NoResultInCall' /\ GotDatagram'
  BY <1>1 DEF UdpInv, TypeOK, NoResultInCall, GotDatagram, InCall, receiverVars, callVars
<1>5. ReturnedDatagramIntact'
  BY <1>1, NoResultAssumption DEF UdpInv, TypeOK, ReturnedDatagramIntact
<1> QED
  BY <1>3, <1>4, <1>5 DEF CallInv

(* The inductive invariant.                                                *)
LEMMA InitUdpInv == Init => UdpInv
<1> SUFFICES ASSUME Init PROVE UdpInv
  OBVIOUS
<1>1. ReceiverInv
  BY InitReceiverInv DEF Init
<1>2. TypeOK
  <2>1. /\ got \in [Threads -> Payloads \cup {NoData}] /\ copied \in [Threads -> Payloads \cup {NoData}]
        /\ buffer \in [Buffers -> Payloads \cup {NoData}] /\ inbox \in [Handles -> Seq(Payloads)]
    BY DEF Init, InitReceiver
  <2>2. sent \in 0 .. MaxSent
    BY MaxSentAssumption DEF Init
  <2> QED
    BY <1>1, <2>1, <2>2 DEF Init, TypeOK, ReceiverInv
<1>3. NoResultInCall /\ GotDatagram
  BY DEF Init, InitReceiver, NoResultInCall, GotDatagram, InCall
<1>4. ReturnedDatagramIntact
  BY NoResultAssumption DEF Init, ReturnedDatagramIntact
<1> QED
  BY <1>1, <1>2, <1>3, <1>4 DEF UdpInv

(* Every step keeps the invariant.                                         *)
LEMMA NextUdpInv == UdpInv /\ [Next]_vars => UdpInv'
<1> SUFFICES ASSUME UdpInv, [Next]_vars PROVE UdpInv'
  OBVIOUS
<1>1. ReceiverInv'
  BY NextKeepsReceiver
<1>2. TypeOKReceiver'
  BY <1>1 DEF ReceiverInv
<1>3. CallInv'
  <2>1. CASE OwnerStep
    BY <1>2, <2>1, OwnerStepFrame, QuietKeeps
  <2>2. CASE NetworkStep
    BY <1>2, <2>2, NetworkStepFrame, QuietKeeps
  <2>3. ASSUME NEW t \in Threads, NEW o \in Objects, Enter(t, o) PROVE CallInv'
    BY <1>2, <2>3, EnterKeeps
  <2>4. ASSUME NEW t \in Threads,
               Receive(t) \/ ReceiveFails(t) \/ Copy(t) \/ Return(t) \/ DropResult(t)
        PROVE  CallInv'
    BY <1>2, <2>4, ReceiveKeeps, ReceiveFailsKeeps, CopyKeeps, ReturnKeeps, DropResultKeeps
  <2>5. CASE UNCHANGED vars
    <3>1. QuietFrame /\ NetworkTyped'
      BY <2>5 DEF vars, udpVars, receiverVars, memoryVars, handleVars, networkVars, UdpInv, TypeOK,
                  QuietFrame, NetworkTyped
    <3> QED
      BY <1>2, <3>1, QuietKeeps
  <2> QED
    BY <2>1, <2>2, <2>3, <2>4, <2>5 DEF Next, OwnerStep, NetworkStep, Ended
<1> QED
  BY <1>1, <1>3 DEF UdpInv, CallInv

(* UdpInv holds in every state: the types of the variables, who owns which *)
(* handle, buffer and flag, and what is in the hands of a call.            *)
THEOREM Invariance == Spec => []UdpInv
BY InitUdpInv, NextUdpInv, PTL DEF Spec

(* The variables have their types.                                         *)
THEOREM TypeCorrect == Spec => []TypeOK
<1>1. UdpInv => TypeOK
  BY DEF UdpInv
<1> QED
  BY <1>1, Invariance, PTL

(* receiverInUse_ does what it is there for: no two calls under way use    *)
(* one receive buffer, however the sockets are moved between the calls.    *)
THEOREM BuffersAreExclusive == Spec => []ExclusiveBuffer
<1>1. UdpInv => ExclusiveBuffer
  BY InvExclusiveBuffer DEF UdpInv
<1> QED
  BY <1>1, Invariance, PTL

(* Every open handle and every allocated buffer has one live owner:        *)
(* constructors, moves and destructors leak and close twice nothing.       *)
THEOREM HandlesHaveOneOwner == Spec => []HandleOwnership
<1>1. UdpInv => HandleOwnership
  BY InvHandleOwnership DEF UdpInv
<1> QED
  BY <1>1, Invariance, PTL

(* A flag is never set for nothing, but for a call that ended in an error. *)
THEOREM FlagsHaveHolders == Spec => []FlagHasHolder
<1>1. UdpInv => FlagHasHolder
  BY DEF UdpInv, ReceiverInv
<1> QED
  BY <1>1, Invariance, PTL

(* What a call returns is what recvfrom() gave that call, with any number  *)
(* of threads and objects.                                                 *)
THEOREM DatagramsAreIntact == Spec => []ReturnedDatagramIntact
<1>1. UdpInv => ReturnedDatagramIntact
  BY DEF UdpInv
<1> QED
  BY <1>1, Invariance, PTL

-------------------------------------------------------------------------------
(* receiveFrom() implements the Mailbox.                                   *)

(* The mapped variables of the Mailbox.                                    *)
Pending == [h \in Handles |-> PendingAt(h)]
Results == [t \in Threads |-> ResultOf(t)]

(* At most one call has a datagram of a handle in hand.                    *)
LEMMA OneInHand ==
  ASSUME UdpInv, NEW h \in Handles, NEW t \in Threads, InCall(t), socket_[self[t]] = h
  PROVE  InHand(h) \subseteq {t}
<1> SUFFICES ASSUME NEW u \in InHand(h) PROVE u = t
  OBVIOUS
<1>1. u \in Threads /\ InCall(u) /\ socket_[self[u]] = h
  BY DEF InHand, InCall
<1>2. self[t] \in Objects /\ self[u] \in Objects /\ socket_[self[t]] # NoSocket
  BY <1>1, CallHasGuard DEF UdpInv
<1>3. self[t] = self[u]
  BY <1>1, <1>2 DEF UdpInv, ReceiverInv, HandlesOwned
<1> QED
  BY <1>1, <1>3 DEF UdpInv, ReceiverInv, OneCallPerFlag

(* The datagram in hand comes first.                                       *)
LEMMA PendingInHand ==
  ASSUME NEW h \in Handles, NEW t, InHand(h) = {t}
  PROVE  PendingAt(h) = <<got[t]>> \o inbox[h]
<1>1. (CHOOSE u \in InHand(h) : TRUE) = t
  OBVIOUS
<1> QED
  BY <1>1 DEF PendingAt

(* What leaves the hands alone changes nothing that is pending.            *)
LEMMA PendingKept ==
  ASSUME NEW h, UNCHANGED InHand(h), inbox'[h] = inbox[h],
         \A u \in InHand(h) : got'[u] = got[u]
  PROVE  PendingAt(h)' = PendingAt(h)
<1>1. CASE InHand(h) = {}
  BY <1>1 DEF PendingAt
<1>2. CASE InHand(h) # {}
  BY <1>2 DEF PendingAt
<1> QED
  BY <1>1, <1>2

(* Nor does a step that no call under way notices.                         *)
LEMMA HandsKept ==
  ASSUME UNCHANGED <<pc, self>>,
         \A u \in Threads : InCall(u) => socket_'[self[u]] = socket_[self[u]]
  PROVE  \A h : UNCHANGED InHand(h)
BY DEF InHand, InCall

(* The steps of a call that do not show.                                   *)
LEMMA EnterStutters ==
  ASSUME UdpInv, NEW t \in Threads, NEW o \in Objects, Enter(t, o)
  PROVE  UNCHANGED <<Pending, Results>>
<1>1. /\ pc[t] = "idle" /\ UNCHANGED <<got, inbox, result, socket_>>
      /\ \/ UNCHANGED <<pc, self>>
         \/ pc' = [pc EXCEPT ![t] = "recv"] /\ self' = [self EXCEPT ![t] = o]
  BY DEF Enter, Exchange, ownerVars, handleVars, udpVars
<1>2. \A h : UNCHANGED InHand(h)
  BY <1>1 DEF InHand, UdpInv, TypeOK, TypeOKReceiver
<1> QED
  BY <1>1, <1>2, PendingKept DEF Pending, Results, ResultOf

(* The kernel's copy to the buffer moves a datagram from the inbox to the  *)
(* call's hands: for the Mailbox it is still pending.                      *)
LEMMA ReceiveStutters ==
  ASSUME UdpInv, NEW t \in Threads, Receive(t)
  PROVE  UNCHANGED <<Pending, Results>>
<1> DEFINE h == socket_[self[t]]
<1>1. /\ pc[t] = "recv" /\ pc' = [pc EXCEPT ![t] = "copy"]
      /\ inbox[h] # <<>>
      /\ got' = [got EXCEPT ![t] = Head(inbox[h])]
      /\ inbox' = [inbox EXCEPT ![h] = Tail(inbox[h])]
      /\ UNCHANGED <<self, socket_, result>>
  BY DEF Receive, Recv, ownerVars, udpVars
<1>2. h \in Handles
  BY <1>1, CallHasGuard DEF UdpInv, TypeOK, TypeOKReceiver, InCall
<1>3. InHand(h) = {}
  BY <1>1, <1>2, OneInHand DEF InCall, InHand
<1>4. InHand(h)' = {t}
  BY <1>1, <1>3 DEF InHand, UdpInv, TypeOK, TypeOKReceiver
<1>5. PendingAt(h)' = <<Head(inbox[h])>> \o Tail(inbox[h])
  BY <1>1, <1>2, <1>4 DEF PendingAt, UdpInv, TypeOK
<1>6. PendingAt(h)' = PendingAt(h)
  <2>1. inbox[h] \in Seq(Payloads)
    BY <1>2 DEF UdpInv, TypeOK
  <2> QED
    BY <1>1, <1>3, <1>5, <2>1, HeadThenTail DEF PendingAt
<1>7. \A k \in Handles : k # h => PendingAt(k)' = PendingAt(k)
  <2> SUFFICES ASSUME NEW k \in Handles, k # h PROVE PendingAt(k)' = PendingAt(k)
    OBVIOUS
  <2>1. UNCHANGED InHand(k) /\ t \notin InHand(k)
    BY <1>1 DEF InHand, UdpInv, TypeOK, TypeOKReceiver
  <2> QED
    BY <1>1, <1>2, <2>1, PendingKept DEF UdpInv, TypeOK, InHand
<1> QED
  BY <1>1, <1>6, <1>7 DEF Pending, Results, ResultOf

(* The copy to the result's memory is no step of the Mailbox.              *)
LEMMA CopyStutters ==
  ASSUME UdpInv, NEW t \in Threads, Copy(t)
  PROVE  UNCHANGED <<Pending, Results>>
<1>1. /\ pc[t] = "copy" /\ pc' = [pc EXCEPT ![t] = "store"]
      /\ UNCHANGED <<got, inbox, result, socket_, self>>
  BY DEF Copy, CopyOut, ownerVars, handleVars, udpVars
<1>2. \A h : UNCHANGED InHand(h)
  BY <1>1 DEF InHand, UdpInv, TypeOK, TypeOKReceiver
<1> QED
  BY <1>1, <1>2, PendingKept DEF Pending, Results, ResultOf

(* A call that goes hands over, or drops, what it has in hand.             *)
LEMMA CallGoes ==
  ASSUME UdpInv, NEW t \in Threads, pc[t] \in {"copy", "store"},
         pc' = [pc EXCEPT ![t] = "idle"], got' = [got EXCEPT ![t] = NoData],
         self' = [self EXCEPT ![t] = Nobody], UNCHANGED <<inbox, socket_>>
  PROVE  \E h \in Handles :
           /\ Pending[h] # <<>> /\ Head(Pending[h]) = got[t]
           /\ Pending' = [Pending EXCEPT ![h] = Tail(Pending[h])]
<1>1. PICK h \in Handles : h = socket_[self[t]]
  BY CallHasGuard DEF UdpInv, TypeOK, TypeOKReceiver, InCall
<1>2. InHand(h) = {t}
  BY <1>1, OneInHand DEF InHand, InCall
<1>3. InHand(h)' = {}
  BY <1>2 DEF InHand, UdpInv, TypeOK, TypeOKReceiver
<1>4. got[t] \in Payloads /\ inbox[h] \in Seq(Payloads)
  BY <1>1 DEF UdpInv, TypeOK, GotDatagram
<1>5. PendingAt(h) = <<got[t]>> \o inbox[h] /\ PendingAt(h)' = inbox[h]
  BY <1>1, <1>2, <1>3, PendingInHand DEF PendingAt
<1>6. PendingAt(h) # <<>> /\ Head(PendingAt(h)) = got[t] /\ PendingAt(h)' = Tail(PendingAt(h))
  BY <1>4, <1>5, Prefixed
<1>7. \A k \in Handles : k # h => PendingAt(k)' = PendingAt(k)
  <2> SUFFICES ASSUME NEW k \in Handles, k # h PROVE PendingAt(k)' = PendingAt(k)
    OBVIOUS
  <2>1. UNCHANGED InHand(k) /\ t \notin InHand(k)
    BY <1>1 DEF InHand, UdpInv, TypeOK, TypeOKReceiver
  <2> QED
    BY <2>1, PendingKept DEF UdpInv, TypeOK, InHand
<1> QED
  BY <1>1, <1>6, <1>7 DEF Pending

(* The return is the Mailbox's receive.                                    *)
LEMMA ReturnReceives ==
  ASSUME UdpInv, NEW t \in Threads, Return(t)
  PROVE  Box!Next
<1>1. PICK v \in Payloads \cup {NoData} :
        result' = [result EXCEPT ![t] = [received |-> got[t], copy |-> copied[t], bytes |-> v]]
  BY DEF Return
<1>2. /\ pc[t] = "store" /\ pc' = [pc EXCEPT ![t] = "idle"]
      /\ got' = [got EXCEPT ![t] = NoData] /\ self' = [self EXCEPT ![t] = Nobody]
      /\ UNCHANGED <<inbox, socket_>>
  BY DEF Return, StoreAndReturn, handleVars, ownerVars
<1>3. got[t] \in Payloads /\ copied[t] = got[t] /\ result[t] = NoData
  BY <1>2 DEF UdpInv, GotDatagram, ReceiverInv, DataInHand, NoResultInCall, InCall
<1>4. [received |-> got[t], copy |-> copied[t], bytes |-> v] \in Result
  BY <1>3 DEF Result
<1>5. ResultOf(t) = NoData /\ ResultOf(t)' = got[t]
  BY <1>1, <1>3, <1>4, NoResultAssumption DEF ResultOf, UdpInv, TypeOK
<1>6. Results' = [Results EXCEPT ![t] = got[t]]
  BY <1>1, <1>5 DEF Results, ResultOf, UdpInv, TypeOK
<1>7. PICK h \in Handles : /\ Pending[h] # <<>> /\ Head(Pending[h]) = got[t]
                           /\ Pending' = [Pending EXCEPT ![h] = Tail(Pending[h])]
  BY <1>2, CallGoes
<1>8. Box!Receive(t, h)
  BY <1>5, <1>6, <1>7 DEF Box!Receive, Box!Takes, Box!Gives, Pending, Results
<1> QED
  BY <1>8 DEF Box!Next

(* An error, or no memory for the copy, is the Mailbox's failure: the      *)
(* datagram, if there was one, is lost.                                    *)
LEMMA ReceiveFailsFails ==
  ASSUME UdpInv, NEW t \in Threads, ReceiveFails(t)
  PROVE  Box!Next
<1>1. /\ pc[t] \in {"recv", "copy"} /\ pc' = [pc EXCEPT ![t] = "idle"]
      /\ got' = [got EXCEPT ![t] = NoData] /\ self' = [self EXCEPT ![t] = Nobody]
      /\ result' = [result EXCEPT ![t] = Error]
      /\ UNCHANGED <<inbox, socket_>>
  BY DEF ReceiveFails, RecvFails, CopyThrows, LeavesFlag, handleVars, ownerVars
<1>2. result[t] = NoData
  BY <1>1 DEF UdpInv, NoResultInCall, InCall
<1>3. Box!Gives(t, Error)
  BY <1>1, <1>2, NoResultAssumption DEF Box!Gives, ResultOf, UdpInv, TypeOK
<1>4. UNCHANGED Pending \/ \E h \in Handles : Box!Takes(h)
  <2>1. CASE pc[t] = "recv"
    <3>1. \A h : UNCHANGED InHand(h) /\ t \notin InHand(h)
      BY <1>1, <2>1 DEF InHand, UdpInv, TypeOK, TypeOKReceiver
    <3> QED
      BY <1>1, <3>1, PendingKept DEF Pending, UdpInv, TypeOK, InHand
  <2>2. CASE pc[t] = "copy"
    BY <1>1, <2>2, CallGoes DEF Box!Takes, Pending
  <2> QED
    BY <1>1, <2>1, <2>2
<1>5. Box!Fail(t)
  BY <1>3, <1>4 DEF Box!Fail, Pending
<1> QED
  BY <1>5 DEF Box!Next

(* The caller drops its result.                                            *)
LEMMA DropResultDrops ==
  ASSUME UdpInv, NEW t \in Threads, DropResult(t)
  PROVE  Box!Next
<1>1. /\ result' = [result EXCEPT ![t] = NoData]
      /\ UNCHANGED <<pc, self, got, inbox, socket_>>
  BY DEF DropResult, receiverVars, callVars, ownerVars, handleVars
<1>2. UNCHANGED Pending
  BY <1>1, HandsKept, PendingKept DEF Pending
<1>3. Results' = [Results EXCEPT ![t] = NoData]
  BY <1>1, NoResultAssumption DEF Results, ResultOf, UdpInv, TypeOK
<1>4. Box!DropResult(t)
  BY <1>2, <1>3 DEF Box!DropResult, Pending, Results
<1> QED
  BY <1>4 DEF Box!Next

(* The network: an arrival shows.                                          *)
LEMMA NetworkStepShows ==
  ASSUME UdpInv, NetworkStep
  PROVE  Box!Next \/ UNCHANGED <<Pending, Results>>
<1>1. UNCHANGED <<pc, self, got, socket_, result>>
  BY NetworkStepFrame DEF QuietFrame, callVars, ownerVars
<1>2. \A h : UNCHANGED InHand(h)
  BY <1>1, HandsKept
<1>3. UNCHANGED Results
  BY <1>1 DEF Results, ResultOf
<1>4. ASSUME NEW d \in Datagram, Arrive(d)
      PROVE  Box!Next
  <2>1. PICK h \in open : inbox' = [inbox EXCEPT ![h] = Append(@, d.payload)]
    BY <1>4 DEF Arrive
  <2>2. /\ h \in Handles /\ d.payload \in Payloads
        /\ inbox[h] \in Seq(Payloads) /\ inbox'[h] = Append(inbox[h], d.payload)
    BY <2>1 DEF UdpInv, TypeOK, TypeOKReceiver, Datagram
  <2>3. PendingAt(h)' = Append(PendingAt(h), d.payload)
    <3>1. CASE InHand(h) = {}
      BY <1>2, <2>2, <3>1 DEF PendingAt
    <3>2. CASE InHand(h) # {}
      <4>1. PICK t \in Threads : t \in InHand(h)
        BY <3>2 DEF InHand
      <4>2. InHand(h) = {t} /\ got[t] \in Payloads
        BY <2>2, <4>1, OneInHand DEF InHand, InCall, UdpInv, GotDatagram
      <4>3. PendingAt(h) = <<got[t]>> \o inbox[h] /\ PendingAt(h)' = <<got[t]>> \o inbox'[h]
        BY <1>1, <1>2, <4>2 DEF PendingAt
      <4> QED
        BY <2>2, <4>2, <4>3, Prefixed
    <3> QED
      BY <3>1, <3>2
  <2>4. \A k \in Handles : k # h => PendingAt(k)' = PendingAt(k)
    BY <1>1, <1>2, <2>1, PendingKept DEF UdpInv, TypeOK
  <2>5. Pending' = [Pending EXCEPT ![h] = Append(@, d.payload)]
    BY <2>2, <2>3, <2>4 DEF Pending
  <2>6. Box!Arrive(h, d.payload)
    BY <1>3, <2>5 DEF Box!Arrive, Pending, Results
  <2> QED
    BY <2>2, <2>6 DEF Box!Next
<1>5. ASSUME UNCHANGED inbox
      PROVE  UNCHANGED Pending
  BY <1>1, <1>2, <1>5, PendingKept DEF Pending
<1> QED
  BY <1>3, <1>4, <1>5 DEF NetworkStep, Bind, SendTo, Lose, receiverVars, handleVars

(* The owners: a close shows.                                              *)
LEMMA OwnerStepShows ==
  ASSUME UdpInv, OwnerStep
  PROVE  Box!Next \/ UNCHANGED <<Pending, Results>>
<1>1. UNCHANGED <<pc, self, got, result>>
  BY OwnerStepFrame DEF QuietFrame, callVars
<1>2. UNCHANGED Results
  BY <1>1 DEF Results, ResultOf
<1>3. \A u \in Threads : InCall(u) => self[u] \in Objects /\ life[self[u]] = "alive"
  BY CallHasGuard DEF UdpInv
<1>4. ASSUME UNCHANGED inbox, \A u \in Threads : InCall(u) => socket_'[self[u]] = socket_[self[u]]
      PROVE  UNCHANGED Pending
  BY <1>1, <1>4, HandsKept, PendingKept DEF Pending
<1>5. ASSUME NEW o \in Objects, Create(o) \/ CreateFails(o) \/ PollFails(o)
      PROVE  UNCHANGED Pending
  <2>1. CASE Create(o)
    <3>1. PICK h \in Handles : Construct(o, h)
      BY <2>1 DEF Create
    <3>2. UNCHANGED inbox /\ life[o] = "unborn" /\ socket_' = [socket_ EXCEPT ![o] = h]
      BY <3>1 DEF Construct, TakesHandle
    <3> QED
      BY <1>3, <1>4, <3>2 DEF UdpInv, TypeOK, TypeOKReceiver
  <2>2. CASE CreateFails(o) \/ PollFails(o)
    BY <1>4, <2>2 DEF CreateFails, ConstructFails, PollFails, handleVars, ownerVars
  <2> QED
    BY <1>5, <2>1, <2>2
<1>6. ASSUME NEW o \in Objects, NEW n \in Objects, Move(o, n)
      PROVE  UNCHANGED Pending
  <2>1. /\ UNCHANGED inbox /\ life[n] = "unborn" /\ Inside(o) = {}
        /\ socket_' = [socket_ EXCEPT ![n] = socket_[o], ![o] = NoSocket]
    BY <1>6 DEF Move, MoveSocket, MovesHandle, MovedFromSocket, Owned, handleVars
  <2>2. \A u \in Threads : InCall(u) => self[u] # n /\ self[u] # o
    BY <1>3, <2>1 DEF Inside
  <2> QED
    BY <1>3, <1>4, <2>1, <2>2 DEF UdpInv, TypeOK, TypeOKReceiver
<1>7. ASSUME NEW o \in Objects, DestructEmpty(o) \/ CloseFails(o)
      PROVE  UNCHANGED Pending
  BY <1>4, <1>7 DEF DestructEmpty, CloseFails, handleVars, ownerVars
<1>8. ASSUME NEW o \in Objects, DestructSocket(o)
      PROVE  Box!Next
  <2>1. PICK h \in Handles :
          /\ h = socket_[o] /\ Inside(o) = {}
          /\ inbox' = [inbox EXCEPT ![h] = <<>>]
          /\ socket_' = [socket_ EXCEPT ![o] = NoSocket]
    BY <1>8 DEF DestructSocket, ClosesHandle, Owned, UdpInv, TypeOK, TypeOKReceiver
  <2>2. h # NoSocket
    BY HandlesAssumption
  <2>3. \A u \in Threads : InCall(u) => self[u] # o
    BY <2>1 DEF Inside
  <2>4. \A k : UNCHANGED InHand(k)
    BY <1>1, <1>3, <2>1, <2>3, HandsKept DEF UdpInv, TypeOK, TypeOKReceiver
  <2>5. InHand(h) = {}
    BY <1>3, <2>1, <2>2, <2>3 DEF InHand, InCall, UdpInv, ReceiverInv, HandlesOwned
  <2>6. PendingAt(h)' = <<>>
    BY <2>1, <2>2, <2>4, <2>5 DEF PendingAt, UdpInv, TypeOK
  <2>7. \A k \in Handles : k # h => PendingAt(k)' = PendingAt(k)
    BY <1>1, <2>1, <2>4, PendingKept DEF UdpInv, TypeOK
  <2>8. Box!Close(h)
    BY <1>2, <2>2, <2>6, <2>7 DEF Box!Close, Pending, Results
  <2> QED
    BY <2>2, <2>8 DEF Box!Next
<1> QED
  BY <1>2, <1>5, <1>6, <1>7, <1>8 DEF OwnerStep, Destroy

(* receiveFrom() implements the Mailbox: seen from its callers a call is   *)
(* one step, which takes the oldest datagram that its socket has received  *)
(* and returns it, whatever the other threads and the owners do meanwhile. *)
THEOREM RefinesMailbox == Spec => ImplementsMailbox
<1>1. Init => Box!Init
  <2> SUFFICES ASSUME Init PROVE Box!Init
    OBVIOUS
  <2>1. \A h \in Handles : PendingAt(h) = <<>>
    BY DEF Init, InitReceiver, PendingAt, InHand
  <2>2. \A t \in Threads : ResultOf(t) = NoData
    BY NoResultAssumption DEF Init, ResultOf
  <2> QED
    BY <2>1, <2>2 DEF Box!Init
<1>2. UdpInv /\ [Next]_vars => [Box!Next]_(Box!vars)
  <2> SUFFICES ASSUME UdpInv, [Next]_vars
               PROVE  Box!Next \/ UNCHANGED <<Pending, Results>>
    BY DEF Box!vars, Pending, Results
  <2>1. CASE UNCHANGED vars
    <3>1. UNCHANGED <<pc, self, got, inbox, socket_, result>>
      BY <2>1 DEF vars, receiverVars, callVars, ownerVars, handleVars, udpVars
    <3> QED
      BY <3>1, HandsKept, PendingKept DEF Pending, Results, ResultOf
  <2>2. CASE OwnerStep
    BY <2>2, OwnerStepShows
  <2>3. CASE NetworkStep
    BY <2>3, NetworkStepShows
  <2>4. ASSUME NEW t \in Threads, NEW o \in Objects, Enter(t, o)
        PROVE  UNCHANGED <<Pending, Results>>
    BY <2>4, EnterStutters
  <2>5. ASSUME NEW t \in Threads, Receive(t) \/ Copy(t)
        PROVE  UNCHANGED <<Pending, Results>>
    BY <2>5, ReceiveStutters, CopyStutters
  <2>6. ASSUME NEW t \in Threads, ReceiveFails(t) \/ Return(t) \/ DropResult(t)
        PROVE  Box!Next
    BY <2>6, ReceiveFailsFails, ReturnReceives, DropResultDrops
  <2> QED
    BY <2>1, <2>2, <2>3, <2>4, <2>5, <2>6 DEF Next, OwnerStep, NetworkStep, Ended
<1> QED
  BY <1>1, <1>2, Invariance, PTL DEF Spec, ImplementsMailbox, Box!Spec
===============================================================================
