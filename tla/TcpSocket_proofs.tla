-------------------------- MODULE TcpSocket_proofs --------------------------
(***************************************************************************)
(* What TcpSocket and AcceptedConnection guarantee for every number of     *)
(* threads, sockets, connections, handles and buffers: the lemmas of       *)
(* SocketReceiver_proofs, what accept() and the connections add to them,   *)
(* and that the streams reach the callers whole and in order.              *)
(***************************************************************************)
EXTENDS TcpSocket, SocketReceiver_proofs

(* From recv() to the return the call has a chunk or the end.              *)
GotChunk == \A t \in Threads : pc[t] \in {"copy", "store"} => got[t] \in Chunk \cup {Eof}

(* A handle that is not open has nothing to read and no peer.              *)
ClosedIsQuiet == \A h \in Handles \ open : state[h] = "fresh" /\ inbox[h] = <<>>

(* The call t has a chunk of h in hand.                                    *)
Holds(t, h) == pc[t] \in {"copy", "store"} /\ socket_[self[t]] = h /\ got[t] # Eof

(* The call t has got the end of the stream of h.                          *)
AtEnd(t, h) == pc[t] \in {"copy", "store"} /\ socket_[self[t]] = h /\ got[t] = Eof

(* What the peer of h has sent.                                            *)
Stream(h) == [i \in 1 .. sent[h] |-> <<h, i>>]

(* Of each handle: what went before, what is in hand and what waits is the *)
(* stream.                                                                 *)
StreamAt(h) ==
  /\ (\A t \in Threads : ~Holds(t, h)) => ended[h] \o inbox[h] = Stream(h)
  /\ \A t \in Threads : Holds(t, h) => (ended[h] \o <<got[t]>>) \o inbox[h] = Stream(h)

StreamInv == \A h \in Handles : StreamAt(h)

(* Nothing comes after the end.                                            *)
EndIsLast == \A t \in Threads, h \in Handles : AtEnd(t, h) => hungUp[h] /\ inbox[h] = <<>>

(* The inductive invariant; EndIsLast is one given this.                   *)
TcpInv ==
  /\ ReceiverInv
  /\ TypeOK
  /\ GotChunk
  /\ ClosedIsQuiet
  /\ StreamInv

-------------------------------------------------------------------------------
(* Objects, calls and flags: what connections add to sockets.              *)

(* accept() makes a connection that borrows from the socket it is called on.*)
LEMMA AcceptKeeps ==
  ASSUME ReceiverInv, NEW s \in Sockets, NEW c \in Conns, Accept(s, c)
  PROVE  ReceiverInv'
<1>1. /\ c \in Objects /\ s \in Objects /\ c \notin Sockets
      /\ life[c] = "unborn" /\ life[s] = "alive"
      /\ ownedSocket_' = [ownedSocket_ EXCEPT ![c] = s]
      /\ UNCHANGED <<maxBuf_, flagVars, callVars, terminated, heap, buffer, inbox>>
  BY StorageAssumption DEF Objects, Accept, TakesHandle, Usable, memoryVars
<1>2. PICK h \in Handles : TakesHandle(c, h)
  BY DEF Accept
<1>3. /\ HandlesOwned'
      /\ life' \in [Objects -> {"unborn", "alive", "dead"}]
      /\ socket_' \in [Objects -> Handles \cup {NoSocket}]
      /\ open' \subseteq Handles
      /\ life'[c] = "alive" /\ socket_'[c] = h /\ h # NoSocket
      /\ \A p \in Objects : p # c => life'[p] = life[p] /\ socket_'[p] = socket_[p]
  BY <1>1, <1>2, TakesHandleOwns
<1>4. /\ ownedSocket_'[c] = s
      /\ \A d \in Conns : d # c => ownedSocket_'[d] = ownedSocket_[d]
      /\ ownedSocket_' \in [Conns -> Sockets \cup {Nobody}]
  BY <1>1 DEF ReceiverInv, TypeOKReceiver
<1>5. ASSUME NEW t \in Threads, InCall(t)
      PROVE  /\ life'[self[t]] = life[self[t]] /\ socket_'[self[t]] = socket_[self[t]]
             /\ Guard(self[t])' = Guard(self[t])
             /\ maxBuf_'[Guard(self[t])] = maxBuf_[Guard(self[t])]
  BY <1>1, <1>3, <1>4, <1>5, CallHasGuard DEF callVars, Guard, Objects
<1>6. /\ CallsOnLive' /\ OneCallPerFlag' /\ DataInHand'
      /\ \A r \in Sockets : Users(r)' = Users(r)
  BY <1>1, <1>5, CallsUndisturbed DEF callVars
<1>7. FlagHasHolder'
  BY <1>1, <1>6 DEF ReceiverInv, FlagHasHolder, Running, flagVars
<1>8. \A r \in Sockets : life'[r] = life[r] /\ socket_'[r] = socket_[r]
  BY <1>1, <1>3 DEF Objects
<1>9. ListenersLive'
  BY <1>1, <1>3, <1>4, <1>8 DEF ReceiverInv, ListenersLive, Objects
<1>10. BuffersOwned'
  BY <1>1, <1>8 DEF ReceiverInv, BuffersOwned
<1>11. TypeOKReceiver' /\ Domains'
  BY <1>1, <1>3, <1>4 DEF ReceiverInv, TypeOKReceiver, Domains, flagVars, callVars, InCall
<1> QED
  BY <1>3, <1>6, <1>7, <1>9, <1>10, <1>11 DEF ReceiverInv

(* A connection moves with the socket it points to.                        *)
LEMMA MoveConnKeeps ==
  ASSUME ReceiverInv, NEW c \in Conns, NEW d \in Conns, MoveConn(c, d)
  PROVE  ReceiverInv'
<1>1. /\ c \in Objects /\ d \in Objects /\ c \notin Sockets /\ d \notin Sockets
      /\ MovesHandle(c, d)
      /\ ownedSocket_' = [ownedSocket_ EXCEPT ![d] = ownedSocket_[c], ![c] = Nobody]
      /\ UNCHANGED <<maxBuf_, flagVars, callVars, terminated, heap, buffer, open, inbox>>
  BY StorageAssumption DEF Objects, MoveConn, memoryVars, handleVars
<1>2. /\ HandlesOwned' /\ d # c
      /\ life' \in [Objects -> {"unborn", "alive", "dead"}]
      /\ socket_' \in [Objects -> Handles \cup {NoSocket}]
      /\ life[d] = "unborn" /\ life'[d] = "alive" /\ life[c] = "alive" /\ life'[c] = "alive"
      /\ socket_'[d] = socket_[c] /\ socket_'[c] = NoSocket /\ socket_[d] = NoSocket
      /\ \A p \in Objects : p # c /\ p # d => life'[p] = life[p] /\ socket_'[p] = socket_[p]
      /\ Inside(c) = {}
  BY <1>1, MovesHandleOwns
<1>3. /\ ownedSocket_'[d] = ownedSocket_[c]
      /\ \A e \in Conns : e # c /\ e # d => ownedSocket_'[e] = ownedSocket_[e]
      /\ ownedSocket_' \in [Conns -> Sockets \cup {Nobody}]
  BY <1>1, <1>2 DEF ReceiverInv, TypeOKReceiver
<1>4. ASSUME NEW t \in Threads, InCall(t)
      PROVE  /\ life'[self[t]] = life[self[t]] /\ socket_'[self[t]] = socket_[self[t]]
             /\ Guard(self[t])' = Guard(self[t])
             /\ maxBuf_'[Guard(self[t])] = maxBuf_[Guard(self[t])]
  <2>1. self[t] \in Objects /\ self[t] # c /\ self[t] # d
    BY <1>2, <1>4, CallHasGuard DEF Inside
  <2> QED
    BY <1>1, <1>2, <1>3, <2>1 DEF callVars, Guard, Objects
<1>5. /\ CallsOnLive' /\ OneCallPerFlag' /\ DataInHand'
      /\ \A r \in Sockets : Users(r)' = Users(r)
  BY <1>1, <1>4, CallsUndisturbed DEF callVars
<1>6. FlagHasHolder'
  BY <1>1, <1>5 DEF ReceiverInv, FlagHasHolder, Running, flagVars
<1>7. \A r \in Sockets : life'[r] = life[r] /\ socket_'[r] = socket_[r]
  BY <1>1, <1>2 DEF Objects
<1>8. ListenersLive'
  BY <1>1, <1>2, <1>3, <1>7 DEF ReceiverInv, ListenersLive, Objects
<1>9. BuffersOwned'
  BY <1>1, <1>7 DEF ReceiverInv, BuffersOwned
<1>10. TypeOKReceiver' /\ Domains'
  BY <1>1, <1>2, <1>3 DEF ReceiverInv, TypeOKReceiver, Domains, flagVars, callVars, InCall
<1> QED
  BY <1>2, <1>5, <1>6, <1>8, <1>9, <1>10 DEF ReceiverInv

(* The destructor of a connection; its socket keeps buffer and flag.       *)
LEMMA DestroyConnKeeps ==
  ASSUME ReceiverInv, NEW c \in Conns, DestroyConn(c)
  PROVE  ReceiverInv'
<1>1. c \in Objects /\ c \notin Sockets
  BY StorageAssumption DEF Objects
<1>2. CASE DestructEmpty(c) \/ CloseFails(c)
  BY <1>1, <1>2, DestructEmptyKeeps, OwnerFailsKeeps
<1>3. CASE ClosesHandle(c) /\ UNCHANGED <<maxBuf_, ownedSocket_, flagVars, callVars, terminated, memoryVars>>
  <2>1. /\ HandlesOwned'
        /\ Owned(c) /\ Borrowers(c) = {} /\ life' = [life EXCEPT ![c] = "dead"]
        /\ \A p \in Objects : p # c => socket_'[p] = socket_[p]
        /\ socket_' \in [Objects -> Handles \cup {NoSocket}]
        /\ open' \subseteq Handles /\ DOMAIN inbox' = Handles
    BY <1>1, <1>3, ClosesHandleOwns
  <2>2. /\ CallsOnLive' /\ ListenersLive' /\ OneCallPerFlag' /\ FlagHasHolder' /\ DataInHand'
        /\ life' \in [Objects -> {"unborn", "alive", "dead"}]
    BY <1>1, <1>3, <2>1, GoneUndisturbed DEF memoryVars
  <2>3. BuffersOwned'
    BY <1>1, <1>3, <2>1 DEF ReceiverInv, BuffersOwned, Objects, memoryVars
  <2>4. TypeOKReceiver' /\ Domains'
    BY <1>3, <2>1, <2>2
    DEF ReceiverInv, TypeOKReceiver, Domains, flagVars, callVars, memoryVars, InCall
  <2> QED
    BY <2>1, <2>2, <2>3, <2>4 DEF ReceiverInv
<1> QED
  BY <1>2, <1>3 DEF DestroyConn

(* The end of the stream is got as a chunk is.                             *)
LEMMA ReceiveEofKeeps ==
  ASSUME ReceiverInv, NEW t \in Threads, ReceiveEof(t)
  PROVE  ReceiverInv'
<1> USE DEF ownerVars, flagVars, memoryVars, handleVars
<1>1. /\ pc[t] = "recv" /\ pc' = [pc EXCEPT ![t] = "copy"] /\ got' = [got EXCEPT ![t] = Eof]
      /\ UNCHANGED <<ownerVars, flagVars, self, copied, terminated, heap, buffer, open, inbox>>
  BY DEF ReceiveEof
<1>2. \A u \in Threads : InCall(u)' = InCall(u)
  BY <1>1 DEF ReceiverInv, TypeOKReceiver, InCall
<1>3. /\ CallsOnLive' /\ ListenersLive' /\ OneCallPerFlag' /\ FlagHasHolder'
      /\ HandlesOwned' /\ BuffersOwned'
  BY <1>1, <1>2, CallGoesOn
<1>4. TypeOKReceiver' /\ Domains'
  BY <1>1, <1>2 DEF ReceiverInv, TypeOKReceiver, Domains
<1>5. DataInHand'
  BY <1>1 DEF ReceiverInv, TypeOKReceiver, Domains, DataInHand, BufferOf, Guard
<1> QED
  BY <1>3, <1>4, <1>5 DEF ReceiverInv

(* Every step is one of SocketReceiver's, one of the above, or leaves the  *)
(* objects and the calls alone.                                            *)
LEMMA NextKeepsReceiver == TcpInv /\ [Next]_vars => ReceiverInv'
<1> SUFFICES ASSUME TcpInv, [Next]_vars PROVE ReceiverInv'
  OBVIOUS
<1>1. ReceiverInv /\ Sockets \subseteq Objects /\ Conns \subseteq Objects
  BY DEF TcpInv, Objects
<1>2. CASE UNCHANGED receiverVars
  BY <1>1, <1>2, ArrivalKeeps DEF receiverVars, handleVars, ReceiverInv, Domains
<1>3. ASSUME NEW s \in Sockets, Create(s) \/ CreateFails(s) \/ Destroy(s)
      PROVE  ReceiverInv'
  BY <1>1, <1>3, ConstructKeeps, OwnerFailsKeeps, DestructEmptyKeeps, DestructSocketKeeps
  DEF Create, CreateFails, Destroy
<1>4. ASSUME NEW s \in Sockets, NEW n \in Sockets, Move(s, n)
      PROVE  ReceiverInv'
  BY <1>1, <1>4, MoveSocketKeeps DEF Move
<1>5. ASSUME NEW t \in Threads, NEW o \in Objects, Enter(t, o)
      PROVE  ReceiverInv'
  BY <1>1, <1>5, ExchangeKeeps DEF Enter
<1>6. ASSUME NEW t \in Threads, \/ Receive(t) \/ ReceiveEof(t) \/ ReceiveFails(t)
                                \/ Copy(t) \/ CopyFails(t) \/ Return(t)
      PROVE  ReceiverInv'
  BY <1>1, <1>6, RecvKeeps, ReceiveEofKeeps, CallFailsKeeps, CopyOutKeeps, StoreAndReturnKeeps
  DEF Receive, ReceiveFails, Copy, CopyFails, Return
<1>7. ASSUME NEW h \in Handles, PeerSends(h)
      PROVE  ReceiverInv'
  <2>1. DOMAIN inbox' = Handles
    BY <1>1, <1>7 DEF PeerSends, ReceiverInv, Domains
  <2> QED
    BY <1>1, <1>7, <2>1, ArrivalKeeps DEF PeerSends
<1>8. ASSUME NEW s \in Sockets, NEW c \in Conns, Accept(s, c)
      PROVE  ReceiverInv'
  BY <1>1, <1>8, AcceptKeeps
<1>9. ASSUME NEW c \in Conns, NEW d \in Conns, MoveConn(c, d) \/ DestroyConn(c)
      PROVE  ReceiverInv'
  BY <1>1, <1>9, MoveConnKeeps, DestroyConnKeeps
<1>10. ASSUME NEW o \in Objects, BreaksPipe(o)
       PROVE  ReceiverInv'
  BY <1>1, <1>10, TerminateKeeps DEF BreaksPipe
<1> QED
  BY <1>1, <1>2, <1>3, <1>4, <1>5, <1>6, <1>7, <1>8, <1>9, <1>10
  DEF Next, BindAndListen, Connect, Send, Write, HandsOver, PeerConnects, PeerHangsUp, Ended, vars

-------------------------------------------------------------------------------
(* The streams.                                                            *)

(* What the invariant says but for SocketReceiver's part.                  *)
DataTyped ==
  /\ got \in [Threads -> Chunk \cup {NoData, Eof}]
  /\ copied \in [Threads -> Chunk \cup {NoData, Eof}]
  /\ buffer \in [Buffers -> Chunk \cup {NoData}]
  /\ inbox \in [Handles -> Seq(Chunk)]
  /\ ended \in [Handles -> Seq(Chunk)]
  /\ sent \in [Handles -> 0 .. MaxSent]

KernelTyped ==
  /\ state \in [Handles -> {"fresh", "bound", "listening", "connected"}]
  /\ backlog \in [Handles -> {0, 1}]
  /\ hungUp \in [Handles -> BOOLEAN]
  /\ reported \in [Handles -> Nat]
  /\ taken \in [Handles -> Nat]

KernelInv == DataTyped /\ KernelTyped /\ GotChunk /\ ClosedIsQuiet /\ StreamInv

(* The invariant, in the part that SocketReceiver's lemmas keep and the    *)
(* part that is about the kernel's streams.                                *)
LEMMA InvHasKernel == TcpInv <=> ReceiverInv /\ KernelInv
BY DEF TcpInv, KernelInv, TypeOK, DataTyped, KernelTyped, ReceiverInv

(* A step of an object's owner leaves the handles of the calls under way.  *)
OwnerStep ==
  \/ UNCHANGED socket_
  \/ \E o \in Objects, h \in Handles : TakesHandle(o, h)
  \/ \E o, n \in Objects : MovesHandle(o, n)
  \/ \E o \in Objects : ClosesHandle(o)

(* No call loses its handle to an owner: none moves or destroys an object  *)
(* that is being received from.                                            *)
LEMMA CallsKeepHandle ==
  ASSUME ReceiverInv, OwnerStep, UNCHANGED <<pc, self, got>>
  PROVE  \A t \in Threads, h \in Handles :
           (Holds(t, h)' <=> Holds(t, h)) /\ (AtEnd(t, h)' <=> AtEnd(t, h))
<1> SUFFICES ASSUME NEW t \in Threads, InCall(t)
             PROVE  socket_'[self[t]] = socket_[self[t]]
  BY DEF Holds, AtEnd, InCall
<1>1. self[t] \in Objects /\ life[self[t]] = "alive"
  BY CallHasGuard
<1>2. ASSUME NEW o \in Objects, NEW h \in Handles, TakesHandle(o, h)
      PROVE  socket_'[self[t]] = socket_[self[t]]
  BY <1>1, <1>2 DEF TakesHandle, ReceiverInv, TypeOKReceiver
<1>3. ASSUME NEW o \in Objects, NEW n \in Objects, MovesHandle(o, n)
      PROVE  socket_'[self[t]] = socket_[self[t]]
  <2>1. self[t] # n /\ self[t] # o
    BY <1>1, <1>3 DEF MovesHandle, Owned, Inside
  <2> QED
    BY <1>1, <1>3, <2>1 DEF MovesHandle, ReceiverInv, TypeOKReceiver
<1>4. ASSUME NEW o \in Objects, ClosesHandle(o)
      PROVE  socket_'[self[t]] = socket_[self[t]]
  <2>1. self[t] # o
    BY <1>4 DEF ClosesHandle, Owned, Inside
  <2> QED
    BY <1>1, <1>4, <2>1 DEF ClosesHandle, ReceiverInv, TypeOKReceiver
<1> QED
  BY <1>2, <1>3, <1>4 DEF OwnerStep

(* What has a handle of its own in hand has no other.                      *)
LEMMA StreamKept ==
  ASSUME NEW h, StreamAt(h), ended'[h] = ended[h], inbox'[h] = inbox[h], sent'[h] = sent[h],
         \A t \in Threads : (Holds(t, h)' <=> Holds(t, h)) /\ (Holds(t, h) => got'[t] = got[t])
  PROVE  StreamAt(h)'
<1>1. Stream(h)' = Stream(h)
  BY DEF Stream
<1> QED
  BY <1>1 DEF StreamAt

(* At most one call under way has a handle.                                *)
LEMMA OneHolder ==
  ASSUME ReceiverInv, NEW h \in Handles, NEW t \in Threads, NEW u \in Threads,
         InCall(t), InCall(u), socket_[self[t]] = h, socket_[self[u]] = h
  PROVE  t = u
<1>1. self[t] \in Objects /\ self[u] \in Objects /\ socket_[self[t]] # NoSocket
  BY CallHasGuard
<1>2. self[t] = self[u]
  BY <1>1 DEF ReceiverInv, HandlesOwned
<1> QED
  BY <1>2 DEF ReceiverInv, OneCallPerFlag

(* Steps that change nothing that has been, is or will be received.        *)
LEMMA QuietKeeps ==
  ASSUME TcpInv, OwnerStep, UNCHANGED <<callVars, buffer, open, inbox, sent, ended>>,
         KernelTyped', \A h \in Handles \ open : state'[h] = state[h]
  PROVE  KernelInv'
<1> USE DEF callVars
<1>1. DataTyped' /\ GotChunk' /\ ClosedIsQuiet'
  BY InvHasKernel DEF KernelInv, DataTyped, GotChunk, ClosedIsQuiet
<1>2. \A t \in Threads, h \in Handles : Holds(t, h)' <=> Holds(t, h)
  BY CallsKeepHandle DEF TcpInv
<1>3. StreamInv'
  BY <1>2, StreamKept DEF TcpInv, StreamInv
<1> QED
  BY <1>1, <1>3 DEF KernelInv

(* A handle that is opened: its stream begins.                             *)
LEMMA OpensKeeps ==
  ASSUME TcpInv, NEW o \in Objects, NEW h \in Handles, TakesHandle(o, h),
         NEW st \in {"fresh", "connected"}, Reset(h, st),
         UNCHANGED <<callVars, buffer, inbox>>, backlog' \in [Handles -> {0, 1}]
  PROVE  KernelInv'
<1> USE DEF callVars
<1>1. /\ h \notin open /\ open' = open \cup {h}
      /\ state' = [state EXCEPT ![h] = st] /\ sent' = [sent EXCEPT ![h] = 0]
      /\ hungUp' = [hungUp EXCEPT ![h] = FALSE] /\ ended' = [ended EXCEPT ![h] = <<>>]
      /\ reported' = [reported EXCEPT ![h] = 0] /\ taken' = [taken EXCEPT ![h] = 0]
  BY DEF TakesHandle, Reset
<1>2. KernelInv /\ <<>> \in Seq(Chunk) /\ 0 \in 0 .. MaxSent
  BY InvHasKernel, SizesAssumption
<1>3. DataTyped' /\ KernelTyped'
  BY <1>1, <1>2 DEF KernelInv, DataTyped, KernelTyped
<1>4. GotChunk' /\ ClosedIsQuiet'
  BY <1>1, <1>2 DEF KernelInv, KernelTyped, GotChunk, ClosedIsQuiet
<1>5. \A t \in Threads, k \in Handles : Holds(t, k)' <=> Holds(t, k)
  BY CallsKeepHandle DEF TcpInv, OwnerStep
<1>6. \A t \in Threads : ~Holds(t, h)
  BY <1>1, CallHasGuard DEF Holds, InCall, TcpInv, ReceiverInv, HandlesOwned
<1>7. StreamAt(h)'
  <2>1. inbox'[h] = <<>> /\ ended'[h] = <<>> /\ sent'[h] = 0
    BY <1>1, <1>2 DEF KernelInv, ClosedIsQuiet, DataTyped
  <2>2. Stream(h)' = <<>>
    BY <2>1 DEF Stream
  <2> QED
    BY <1>5, <1>6, <2>1, <2>2 DEF StreamAt
<1>8. \A k \in Handles : k # h => StreamAt(k)'
  BY <1>1, <1>2, <1>5, StreamKept DEF KernelInv, StreamInv, DataTyped
<1> QED
  BY <1>3, <1>4, <1>7, <1>8 DEF KernelInv, StreamInv

(* A handle that is closed: its stream is forgotten.                       *)
LEMMA ClosesKeeps ==
  ASSUME TcpInv, NEW o \in Objects, ClosesHandle(o), Closed(socket_[o]),
         UNCHANGED <<callVars, buffer>>
  PROVE  KernelInv'
<1> USE DEF callVars
<1>1. PICK h \in Handles : h = socket_[o] /\ h # NoSocket
  BY HandlesAssumption DEF ClosesHandle, TcpInv, TypeOK, TypeOKReceiver
<1>2. /\ open' = open \ {h} /\ inbox' = [inbox EXCEPT ![h] = <<>>]
      /\ state' = [state EXCEPT ![h] = "fresh"] /\ sent' = [sent EXCEPT ![h] = 0]
      /\ hungUp' = [hungUp EXCEPT ![h] = FALSE] /\ ended' = [ended EXCEPT ![h] = <<>>]
      /\ reported' = [reported EXCEPT ![h] = 0] /\ taken' = [taken EXCEPT ![h] = 0]
      /\ backlog' = [backlog EXCEPT ![h] = 0]
  BY <1>1 DEF ClosesHandle, Closed, Reset
<1>3. KernelInv /\ <<>> \in Seq(Chunk) /\ 0 \in 0 .. MaxSent
  BY InvHasKernel, SizesAssumption
<1>4. DataTyped' /\ KernelTyped'
  BY <1>2, <1>3 DEF KernelInv, DataTyped, KernelTyped
<1>5. GotChunk' /\ ClosedIsQuiet'
  BY <1>2, <1>3 DEF KernelInv, KernelTyped, DataTyped, GotChunk, ClosedIsQuiet
<1>6. \A t \in Threads, k \in Handles : Holds(t, k)' <=> Holds(t, k)
  BY CallsKeepHandle DEF TcpInv, OwnerStep
<1>7. \A t \in Threads : ~Holds(t, h)
  <2>1. \A t \in Threads : InCall(t) => self[t] \in Objects /\ self[t] # o
    BY CallHasGuard DEF ClosesHandle, Owned, Inside, TcpInv
  <2> QED
    BY <1>1, <2>1 DEF Holds, InCall, TcpInv, ReceiverInv, HandlesOwned
<1>8. StreamAt(h)'
  <2>1. inbox'[h] = <<>> /\ ended'[h] = <<>> /\ sent'[h] = 0
    BY <1>2, <1>3 DEF KernelInv, DataTyped
  <2>2. Stream(h)' = <<>>
    BY <2>1 DEF Stream
  <2> QED
    BY <1>6, <1>7, <2>1, <2>2 DEF StreamAt
<1>9. \A k \in Handles : k # h => StreamAt(k)'
  BY <1>2, <1>3, <1>6, StreamKept DEF KernelInv, StreamInv, DataTyped
<1> QED
  BY <1>4, <1>5, <1>8, <1>9 DEF KernelInv, StreamInv

(* The peer's next chunk waits behind all others.                          *)
LEMMA PeerSendsKeeps ==
  ASSUME TcpInv, NEW h \in Handles, PeerSends(h)
  PROVE  KernelInv'
<1> DEFINE chunk == <<h, sent[h] + 1>>
<1>1. /\ state[h] = "connected" /\ sent[h] < MaxSent
      /\ sent' = [sent EXCEPT ![h] = @ + 1]
      /\ inbox' = [inbox EXCEPT ![h] = Append(@, chunk)]
      /\ UNCHANGED <<socket_, pc, self, got, copied, buffer, open, state, backlog, hungUp, ended,
                     reported, taken>>
  BY DEF PeerSends, ownerVars, callVars, memoryVars, sendVars
<1>2. KernelInv
  BY InvHasKernel
<1>3. sent[h] \in 0 .. MaxSent /\ sent[h] + 1 \in 1 .. MaxSent /\ chunk \in Chunk
  BY <1>1, <1>2, SizesAssumption DEF KernelInv, DataTyped, Chunk
<1>4. inbox[h] \in Seq(Chunk) /\ ended[h] \in Seq(Chunk)
  BY <1>2 DEF KernelInv, DataTyped
<1>5. DataTyped' /\ KernelTyped'
  BY <1>1, <1>2, <1>3, <1>4 DEF KernelInv, DataTyped, KernelTyped
<1>6. GotChunk' /\ ClosedIsQuiet'
  BY <1>1, <1>2 DEF KernelInv, DataTyped, GotChunk, ClosedIsQuiet
<1>7. \A t \in Threads, k \in Handles : Holds(t, k)' <=> Holds(t, k)
  BY <1>1 DEF Holds
<1>8. Stream(h)' = Append(Stream(h), chunk)
  BY <1>1, <1>2, <1>3 DEF Stream, KernelInv, DataTyped
<1>9. \A r \in Seq(Chunk) : r \o inbox[h] = Stream(h) => r \o inbox'[h] = Stream(h)'
  BY <1>1, <1>2, <1>3, <1>4, <1>8, AppendedOver DEF KernelInv, DataTyped
<1>10. StreamAt(h)'
  <2>1. \A t \in Threads : Holds(t, h) => ended[h] \o <<got[t]>> \in Seq(Chunk)
    BY <1>2, <1>4 DEF Holds, KernelInv, GotChunk
  <2>2. StreamAt(h)
    BY <1>2 DEF KernelInv, StreamInv
  <2> QED
    BY <1>1, <1>4, <1>7, <1>9, <2>1, <2>2 DEF StreamAt
<1>11. \A k \in Handles : k # h => StreamAt(k)'
  BY <1>1, <1>2, <1>7, StreamKept DEF KernelInv, StreamInv, DataTyped
<1> QED
  BY <1>5, <1>6, <1>10, <1>11 DEF KernelInv, StreamInv

(* The exchange takes nothing in hand.                                     *)
LEMMA EnterKeeps ==
  ASSUME TcpInv, NEW t \in Threads, NEW o \in Objects, Enter(t, o)
  PROVE  KernelInv'
<1>1. /\ pc[t] = "idle"
      /\ UNCHANGED <<socket_, got, copied, buffer, open, inbox, tcpVars>>
      /\ \/ UNCHANGED <<pc, self>>
         \/ pc' = [pc EXCEPT ![t] = "recv"] /\ self' = [self EXCEPT ![t] = o]
  BY DEF Enter, Exchange, ownerVars, memoryVars, handleVars
<1>2. KernelInv /\ TypeOKReceiver
  BY InvHasKernel DEF ReceiverInv
<1>3. DataTyped' /\ KernelTyped' /\ ClosedIsQuiet'
  BY <1>1, <1>2 DEF KernelInv, DataTyped, KernelTyped, ClosedIsQuiet, tcpVars, peerVars, sendVars
<1>4. GotChunk'
  BY <1>1, <1>2 DEF KernelInv, GotChunk, TypeOKReceiver
<1>5. \A u \in Threads, h \in Handles : Holds(u, h)' <=> Holds(u, h)
  BY <1>1, <1>2 DEF Holds, TypeOKReceiver
<1>6. StreamInv'
  BY <1>1, <1>2, <1>5, StreamKept DEF KernelInv, StreamInv, tcpVars, peerVars
<1> QED
  BY <1>3, <1>4, <1>6 DEF KernelInv

(* recv() takes the oldest chunk that waits.                               *)
LEMMA ReceiveKeeps ==
  ASSUME TcpInv, NEW t \in Threads, Receive(t)
  PROVE  KernelInv'
<1>1. PICK h \in Handles : h = socket_[self[t]]
  BY CallHasGuard DEF Receive, Recv, InCall, TcpInv, ReceiverInv, TypeOKReceiver
<1>2. /\ pc[t] = "recv" /\ pc' = [pc EXCEPT ![t] = "copy"]
      /\ inbox[h] # <<>> /\ BufferOf(t) # NullPtr
      /\ buffer' = [buffer EXCEPT ![BufferOf(t)] = Head(inbox[h])]
      /\ got' = [got EXCEPT ![t] = Head(inbox[h])]
      /\ inbox' = [inbox EXCEPT ![h] = Tail(inbox[h])]
      /\ UNCHANGED <<self, socket_, copied, open, tcpVars>>
  BY <1>1 DEF Receive, Recv, ownerVars
<1>3. KernelInv /\ TypeOKReceiver
  BY InvHasKernel DEF ReceiverInv
<1>4. /\ inbox[h] \in Seq(Chunk) /\ ended[h] \in Seq(Chunk)
      /\ Head(inbox[h]) \in Chunk /\ Tail(inbox[h]) \in Seq(Chunk) /\ Head(inbox[h]) # Eof
  <2>1. inbox[h] \in Seq(Chunk) /\ ended[h] \in Seq(Chunk)
    BY <1>3 DEF KernelInv, DataTyped
  <2>2. Head(inbox[h]) \in Chunk /\ Tail(inbox[h]) \in Seq(Chunk)
    BY <1>2, <2>1
  <2>3. Eof \notin Chunk
    BY ChunkAssumption, SizesAssumption DEF Chunk
  <2> QED
    BY <2>1, <2>2, <2>3
<1>5. DataTyped' /\ KernelTyped'
  BY <1>2, <1>3, <1>4 DEF KernelInv, DataTyped, KernelTyped, tcpVars, peerVars, sendVars
<1>6. GotChunk'
  BY <1>2, <1>3, <1>4 DEF KernelInv, DataTyped, GotChunk, TypeOKReceiver
<1>7. h \in open
  BY <1>1, <1>2, CallHasGuard DEF InCall, TcpInv, ReceiverInv, HandlesOwned
<1>8. ClosedIsQuiet'
  BY <1>2, <1>3, <1>7 DEF KernelInv, DataTyped, ClosedIsQuiet, tcpVars
<1>9. \A u \in Threads : u # t /\ pc[u] # "recv" => ~Holds(u, h)
  BY <1>1, <1>2, OneHolder DEF Holds, InCall, TcpInv
<1>10. ~Holds(t, h) /\ \A u \in Threads : u # t => ~Holds(u, h)
  BY <1>2, <1>9 DEF Holds
<1>11. /\ Holds(t, h)' /\ got'[t] = Head(inbox[h])
       /\ \A u \in Threads : u # t => ~Holds(u, h)'
  BY <1>1, <1>2, <1>3, <1>4, <1>10 DEF Holds, KernelInv, DataTyped, TypeOKReceiver
<1>12. StreamAt(h)'
  <2>1. ended[h] \o inbox[h] = Stream(h)
    BY <1>3, <1>10 DEF KernelInv, StreamInv, StreamAt
  <2>2. inbox'[h] = Tail(inbox[h]) /\ ended'[h] = ended[h] /\ Stream(h)' = Stream(h)
    BY <1>2, <1>3 DEF Stream, KernelInv, DataTyped, tcpVars, peerVars
  <2>3. (ended[h] \o <<got'[t]>>) \o inbox'[h] = Stream(h)
    BY <1>2, <1>4, <1>11, <2>1, <2>2, MovedOver
  <2> QED
    BY <1>11, <2>2, <2>3 DEF StreamAt
<1>13. ASSUME NEW k \in Handles, k # h
       PROVE  StreamAt(k)'
  <2>1. \A u \in Threads : (Holds(u, k)' <=> Holds(u, k)) /\ (Holds(u, k) => got'[u] = got[u])
    BY <1>1, <1>2, <1>3, <1>13 DEF Holds, KernelInv, DataTyped, TypeOKReceiver
  <2>2. inbox'[k] = inbox[k] /\ ended'[k] = ended[k] /\ sent'[k] = sent[k]
    BY <1>2, <1>3, <1>13 DEF KernelInv, DataTyped, tcpVars, peerVars
  <2> QED
    BY <1>3, <2>1, <2>2, StreamKept DEF KernelInv, StreamInv
<1> QED
  BY <1>5, <1>6, <1>8, <1>12, <1>13 DEF KernelInv, StreamInv

(* Steps after which a call holds what it held before.                     *)
LEMMA CallGoesOnKeeps ==
  ASSUME TcpInv, NEW t \in Threads, ReceiveEof(t) \/ ReceiveFails(t) \/ Copy(t)
  PROVE  KernelInv'
<1>1. KernelInv /\ TypeOKReceiver
  BY InvHasKernel DEF ReceiverInv
<1>2. /\ UNCHANGED <<socket_, buffer, open, inbox, tcpVars>>
      /\ \/ /\ pc[t] = "recv" /\ pc' = [pc EXCEPT ![t] = "copy"]
            /\ got' = [got EXCEPT ![t] = Eof]
            /\ UNCHANGED <<self, copied>>
         \/ /\ pc[t] = "recv" /\ pc' = [pc EXCEPT ![t] = "idle"]
            /\ got' = [got EXCEPT ![t] = NoData] /\ self' = [self EXCEPT ![t] = Nobody]
            /\ UNCHANGED copied
         \/ /\ pc[t] = "copy" /\ pc' = [pc EXCEPT ![t] = "store"]
            /\ copied' = [copied EXCEPT ![t] = IF got[t] = Eof THEN Eof ELSE buffer[BufferOf(t)]]
            /\ UNCHANGED <<got, self>>
  BY DEF ReceiveEof, ReceiveFails, RecvFails, LeavesFlag, Copy, CopyOut, ownerVars, memoryVars,
         handleVars
<1>3. pc[t] = "copy" /\ got[t] # Eof => buffer[BufferOf(t)] \in Chunk
  BY <1>1 DEF TcpInv, ReceiverInv, DataInHand, KernelInv, GotChunk
<1>4. DataTyped' /\ KernelTyped' /\ ClosedIsQuiet'
  BY <1>1, <1>2, <1>3
  DEF KernelInv, DataTyped, KernelTyped, ClosedIsQuiet, tcpVars, peerVars, sendVars
<1>5. GotChunk'
  BY <1>1, <1>2 DEF KernelInv, DataTyped, GotChunk, TypeOKReceiver
<1>6. \A u \in Threads, h \in Handles :
        (Holds(u, h)' <=> Holds(u, h)) /\ (Holds(u, h) => got'[u] = got[u])
  BY <1>1, <1>2 DEF Holds, KernelInv, DataTyped, TypeOKReceiver
<1>7. StreamInv'
  BY <1>1, <1>2, <1>6, StreamKept DEF KernelInv, StreamInv, tcpVars, peerVars
<1> QED
  BY <1>4, <1>5, <1>7 DEF KernelInv

(* A call that goes adds what it held to what has gone before.             *)
LEMMA CallEndsKeeps ==
  ASSUME TcpInv, NEW t \in Threads, CopyFails(t) \/ Return(t)
  PROVE  KernelInv'
<1>1. KernelInv /\ TypeOKReceiver
  BY InvHasKernel DEF ReceiverInv
<1>2. /\ pc[t] \in {"copy", "store"} /\ pc' = [pc EXCEPT ![t] = "idle"]
      /\ got' = [got EXCEPT ![t] = NoData] /\ self' = [self EXCEPT ![t] = Nobody]
      /\ UNCHANGED copied \/ copied' = [copied EXCEPT ![t] = NoData]
      /\ UNCHANGED <<socket_, buffer, open, inbox, state, peerVars, sendVars>>
  BY DEF CopyFails, Return, CopyThrows, LeavesFlag, StoreAndReturn, Ends, ownerVars, memoryVars,
         handleVars
<1>3. PICK h \in Handles : h = socket_[self[t]]
  BY <1>2, CallHasGuard DEF InCall, TcpInv, ReceiverInv, TypeOKReceiver
<1>4. got[t] \in Chunk \cup {Eof}
  BY <1>1, <1>2 DEF KernelInv, GotChunk
<1>5. ended' = IF got[t] = Eof THEN ended ELSE [ended EXCEPT ![h] = Append(@, got[t])]
  <2>1. CASE CopyFails(t)
    BY <1>3, <2>1 DEF CopyFails, Ends
  <2>2. CASE Return(t)
    <3>1. copied[t] = got[t]
      BY <2>2 DEF Return, StoreAndReturn, TcpInv, ReceiverInv, DataInHand
    <3> QED
      BY <1>3, <2>2, <3>1 DEF Return, Ends
  <2> QED
    BY <2>1, <2>2
<1>6. ended[h] \in Seq(Chunk) /\ inbox[h] \in Seq(Chunk)
  BY <1>1 DEF KernelInv, DataTyped
<1>7. DataTyped' /\ KernelTyped' /\ ClosedIsQuiet'
  <2>1. ended' \in [Handles -> Seq(Chunk)]
    <3>1. CASE got[t] = Eof
      BY <1>1, <1>5, <3>1 DEF KernelInv, DataTyped
    <3>2. CASE got[t] # Eof
      <4>1. Append(ended[h], got[t]) \in Seq(Chunk)
        BY <1>4, <1>6, <3>2
      <4> QED
        BY <1>1, <1>5, <3>2, <4>1 DEF KernelInv, DataTyped
    <3> QED
      BY <3>1, <3>2
  <2> QED
    BY <1>1, <1>2, <2>1 DEF KernelInv, DataTyped, KernelTyped, ClosedIsQuiet, peerVars, sendVars
<1>8. GotChunk'
  BY <1>1, <1>2 DEF KernelInv, DataTyped, GotChunk, TypeOKReceiver
<1>9. \A u \in Threads : u # t => ~Holds(u, h)
  BY <1>2, <1>3, OneHolder DEF Holds, InCall, TcpInv
<1>10. \A u \in Threads : ~Holds(u, h)'
  BY <1>1, <1>2, <1>9 DEF Holds, KernelInv, DataTyped, TypeOKReceiver
<1>11. StreamAt(h)'
  <2>1. StreamAt(h)
    BY <1>1 DEF KernelInv, StreamInv
  <2>2. CASE got[t] = Eof
    BY <1>2, <1>5, <1>9, <1>10, <2>1, <2>2 DEF StreamAt, Stream, Holds, peerVars
  <2>3. CASE got[t] # Eof
    <3>1. (ended[h] \o <<got[t]>>) \o inbox[h] = Stream(h)
      BY <1>2, <1>3, <2>1, <2>3 DEF StreamAt, Holds
    <3>2. ended'[h] = Append(ended[h], got[t]) /\ got[t] \in Chunk
      BY <1>1, <1>4, <1>5, <2>3 DEF KernelInv, DataTyped
    <3>3. ended'[h] = ended[h] \o <<got[t]>>
      BY <1>6, <3>2, AppendIsConcat
    <3> QED
      BY <1>2, <1>10, <3>1, <3>3 DEF StreamAt, Stream, peerVars
  <2> QED
    BY <2>2, <2>3
<1>12. ASSUME NEW k \in Handles, k # h
       PROVE  StreamAt(k)'
  <2>1. \A u \in Threads : (Holds(u, k)' <=> Holds(u, k)) /\ (Holds(u, k) => got'[u] = got[u])
    BY <1>1, <1>2, <1>3, <1>12 DEF Holds, KernelInv, DataTyped, TypeOKReceiver
  <2>2. inbox'[k] = inbox[k] /\ ended'[k] = ended[k] /\ sent'[k] = sent[k]
    BY <1>1, <1>2, <1>5, <1>12 DEF KernelInv, DataTyped, peerVars
  <2> QED
    BY <1>1, <2>1, <2>2, StreamKept DEF KernelInv, StreamInv
<1> QED
  BY <1>7, <1>8, <1>11, <1>12 DEF KernelInv, StreamInv

-------------------------------------------------------------------------------
(* The inductive invariant.                                                *)

(* The invariant holds at the start.                                       *)
LEMMA InitTcpInv == Init => TcpInv
<1> SUFFICES ASSUME Init PROVE TcpInv
  OBVIOUS
<1>1. ReceiverInv
  BY InitReceiverInv DEF Init
<1>2. <<>> \in Seq(Chunk) /\ 0 \in 0 .. MaxSent /\ <<>> \o <<>> = <<>>
  BY SizesAssumption
<1>3. DataTyped /\ KernelTyped
  BY <1>2 DEF Init, InitReceiver, DataTyped, KernelTyped
<1>4. GotChunk /\ ClosedIsQuiet
  BY DEF Init, InitReceiver, GotChunk, ClosedIsQuiet
<1>5. StreamInv
  <2>1. \A h \in Handles : Stream(h) = <<>>
    BY DEF Init, Stream
  <2> QED
    BY <1>2, <2>1 DEF Init, InitReceiver, StreamInv, StreamAt, Holds
<1> QED
  BY <1>1, <1>3, <1>4, <1>5, InvHasKernel DEF KernelInv

(* ... and every step keeps it.                                            *)
LEMMA NextTcpInv == TcpInv /\ [Next]_vars => TcpInv'
<1> SUFFICES ASSUME TcpInv, [Next]_vars PROVE TcpInv'
  OBVIOUS
<1>1. ReceiverInv'
  BY NextKeepsReceiver
<1>2. KernelInv /\ Sockets \subseteq Objects /\ Conns \subseteq Objects
  BY InvHasKernel DEF Objects
<1>3. KernelInv'
  <2>1. ASSUME NEW s \in Sockets, CreateFails(s) \/ DestructEmpty(s) \/ CloseFails(s), UNCHANGED tcpVars
        PROVE  KernelInv'
    BY <1>2, <2>1, QuietKeeps
    DEF CreateFails, ConstructFails, DestructEmpty, CloseFails, OwnerStep, KernelInv, KernelTyped,
        tcpVars, peerVars, sendVars, ownerVars, memoryVars, handleVars
  <2>2. ASSUME NEW s \in Sockets, NEW n \in Sockets, Move(s, n)
        PROVE  KernelInv'
    BY <1>2, <2>2, QuietKeeps
    DEF Move, MoveSocket, OwnerStep, KernelInv, KernelTyped, tcpVars, peerVars, sendVars,
        memoryVars, handleVars
  <2>3. ASSUME NEW s \in Sockets, Create(s)
        PROVE  KernelInv'
    <3>1. PICK h \in Handles : Construct(s, h) /\ Closed(h)
      BY <2>3 DEF Create
    <3>2. backlog' \in [Handles -> {0, 1}]
      BY <1>2, <3>1 DEF Closed, KernelInv, KernelTyped
    <3> QED
      BY <1>2, <3>1, <3>2, OpensKeeps DEF Construct, Closed
  <2>4. ASSUME NEW s \in Sockets, Destroy(s)
        PROVE  KernelInv'
    BY <1>2, <2>1, <2>4, ClosesKeeps DEF Destroy, DestructSocket
  <2>5. ASSUME NEW s \in Sockets, BindAndListen(s) \/ Connect(s)
        PROVE  KernelInv'
    <3>1. /\ socket_[s] \in open /\ socket_[s] \in Handles
          /\ UNCHANGED <<receiverVars, peerVars, ended, sendVars>>
      BY <1>2, <2>5
      DEF BindAndListen, Connect, Usable, TcpInv, ReceiverInv, HandlesOwned, TypeOKReceiver
    <3>2. KernelTyped' /\ \A h \in Handles : h # socket_[s] => state'[h] = state[h]
      BY <1>2, <2>5, <3>1 DEF BindAndListen, Connect, KernelInv, KernelTyped, peerVars, sendVars
    <3> QED
      BY <3>1, <3>2, QuietKeeps DEF OwnerStep, receiverVars, ownerVars, memoryVars, handleVars, peerVars
  <2>6. ASSUME NEW o \in Objects, HandsOver(o)
        PROVE  KernelInv'
    <3>1. /\ reported' = [reported EXCEPT ![socket_[o]] = @ + 1]
          /\ UNCHANGED <<receiverVars, state, peerVars, ended>>
      BY <2>6 DEF HandsOver
    <3>2. PICK n \in 1 .. MessageSize : taken' = [taken EXCEPT ![socket_[o]] = @ + n]
      BY <2>6 DEF HandsOver
    <3>3. taken' \in [Handles -> Nat] /\ reported' \in [Handles -> Nat]
      <4>1. \A h \in Handles : taken[h] \in Nat /\ reported[h] \in Nat
        BY <1>2 DEF KernelInv, KernelTyped
      <4>2. n \in Nat
        BY SizesAssumption
      <4>3. \A h \in Handles : taken[h] + n \in Nat /\ reported[h] + 1 \in Nat
        BY <4>1, <4>2
      <4> QED
        BY <1>2, <3>1, <3>2, <4>3 DEF KernelInv, KernelTyped
    <3>4. KernelTyped'
      BY <1>2, <3>1, <3>3 DEF KernelInv, KernelTyped, peerVars
    <3> QED
      BY <3>1, <3>4, QuietKeeps DEF OwnerStep, receiverVars, ownerVars, memoryVars, handleVars, peerVars
  <2>7. ASSUME NEW s \in Sockets, NEW c \in Conns, Accept(s, c)
        PROVE  KernelInv'
    <3>1. PICK h \in Handles : TakesHandle(c, h) /\ Reset(h, "connected")
      BY <2>7 DEF Accept
    <3>2. backlog' \in [Handles -> {0, 1}]
      <4>1. /\ socket_[s] \in Handles /\ backlog[socket_[s]] > 0
            /\ backlog' = [backlog EXCEPT ![socket_[s]] = @ - 1]
        BY <1>2, <2>7 DEF Accept, Usable, TcpInv, ReceiverInv, TypeOKReceiver
      <4>2. backlog[socket_[s]] = 1
        BY <1>2, <4>1 DEF KernelInv, KernelTyped
      <4> QED
        BY <1>2, <4>1, <4>2 DEF KernelInv, KernelTyped
    <3> QED
      BY <1>2, <2>7, <3>1, <3>2, OpensKeeps DEF Accept, memoryVars
  <2>8. ASSUME NEW c \in Conns, NEW d \in Conns, MoveConn(c, d)
        PROVE  KernelInv'
    BY <1>2, <2>8, QuietKeeps
    DEF MoveConn, OwnerStep, KernelInv, KernelTyped, tcpVars, peerVars, sendVars,
        memoryVars, handleVars
  <2>9. ASSUME NEW c \in Conns, DestroyConn(c)
        PROVE  KernelInv'
    <3>1. CASE (DestructEmpty(c) \/ CloseFails(c)) /\ UNCHANGED tcpVars
      BY <1>2, <3>1, QuietKeeps
      DEF DestructEmpty, CloseFails, OwnerStep, KernelInv, KernelTyped,
          tcpVars, peerVars, sendVars, ownerVars, memoryVars, handleVars
    <3>2. CASE ~((DestructEmpty(c) \/ CloseFails(c)) /\ UNCHANGED tcpVars)
      BY <1>2, <2>9, <3>2, ClosesKeeps DEF DestroyConn, memoryVars
    <3> QED
      BY <3>1, <3>2
  <2>10. ASSUME NEW t \in Threads, NEW o \in Objects, Enter(t, o)
         PROVE  KernelInv'
    BY <2>10, EnterKeeps
  <2>11. ASSUME NEW t \in Threads, \/ Receive(t) \/ ReceiveEof(t) \/ ReceiveFails(t)
                                   \/ Copy(t) \/ CopyFails(t) \/ Return(t)
         PROVE  KernelInv'
    BY <2>11, ReceiveKeeps, CallGoesOnKeeps, CallEndsKeeps
  <2>12. ASSUME NEW h \in Handles, PeerSends(h)
         PROVE  KernelInv'
    BY <2>12, PeerSendsKeeps
  <2>13. ASSUME NEW h \in Handles, PeerConnects(h) \/ PeerHangsUp(h)
         PROVE  KernelInv'
    <3>1. KernelTyped' /\ UNCHANGED <<receiverVars, state, sent, ended>>
      BY <1>2, <2>13 DEF PeerConnects, PeerHangsUp, KernelInv, KernelTyped, sendVars
    <3> QED
      BY <3>1, QuietKeeps DEF OwnerStep, receiverVars, ownerVars, memoryVars, handleVars
  <2>14. CASE UNCHANGED vars
    <3>1. KernelTyped' /\ UNCHANGED <<receiverVars, state, sent, ended>>
      BY <1>2, <2>14 DEF vars, tcpVars, peerVars, sendVars, KernelInv, KernelTyped
    <3> QED
      BY <3>1, QuietKeeps DEF OwnerStep, receiverVars, ownerVars, memoryVars, handleVars
  <2>15. ASSUME NEW o \in Objects, BreaksPipe(o)
         PROVE  KernelInv'
    <3>1. KernelTyped' /\ UNCHANGED <<ownerVars, callVars, memoryVars, handleVars, state, sent, ended>>
      BY <1>2, <2>15 DEF BreaksPipe, tcpVars, peerVars, sendVars, KernelInv, KernelTyped
    <3> QED
      BY <3>1, QuietKeeps DEF OwnerStep, ownerVars, memoryVars, handleVars
  <2> QED
    BY <1>2, <2>1, <2>2, <2>3, <2>4, <2>5, <2>6, <2>7, <2>8, <2>9, <2>10, <2>11, <2>12, <2>13, <2>14,
       <2>15
    DEF Next, CreateFails, Send, Write, Ended
<1> QED
  BY <1>1, <1>3 DEF TcpInv, KernelInv, TypeOK, DataTyped, KernelTyped, ReceiverInv

-------------------------------------------------------------------------------
(* The end of a stream.                                                    *)

(* Closing, opening and the peer's sending are not for a handle whose      *)
(* stream has ended for a call.                                            *)
LEMMA OthersKeepEnd ==
  ASSUME TcpInv, EndIsLast, OwnerStep, UNCHANGED callVars,
         NEW t \in Threads, NEW h \in Handles, AtEnd(t, h)',
         \/ hungUp'[h] = hungUp[h] /\ inbox'[h] = inbox[h]
         \/ PeerSends(h) \/ PeerHangsUp(h)
         \/ h \notin open
         \/ \E o \in Objects : ClosesHandle(o) /\ socket_[o] = h
  PROVE  hungUp'[h] /\ inbox'[h] = <<>>
<1>1. AtEnd(t, h)
  BY CallsKeepHandle DEF TcpInv, callVars
<1>2. hungUp[h] /\ inbox[h] = <<>>
  BY <1>1 DEF EndIsLast
<1>3. InCall(t) /\ socket_[self[t]] = h
  BY <1>1 DEF AtEnd, InCall
<1>4. h \in open
  BY <1>3, CallHasGuard DEF TcpInv, ReceiverInv, HandlesOwned
<1>5. ASSUME NEW o \in Objects, ClosesHandle(o), socket_[o] = h
      PROVE  FALSE
  <2>1. self[t] \in Objects /\ self[t] # o
    BY <1>3, <1>5, CallHasGuard DEF ClosesHandle, Owned, Inside, TcpInv
  <2> QED
    BY <1>3, <1>5, <2>1, CallHasGuard DEF TcpInv, ReceiverInv, HandlesOwned
<1>6. ~PeerSends(h)
  BY <1>2 DEF PeerSends
<1>7. ~PeerHangsUp(h)
  BY <1>2 DEF PeerHangsUp
<1> QED
  BY <1>2, <1>4, <1>5, <1>6, <1>7

(* A call gets the end when the peer has closed and nothing waits.         *)
LEMMA CallsKeepEnd ==
  ASSUME TcpInv, EndIsLast, NEW t \in Threads,
         \/ Receive(t) \/ ReceiveEof(t) \/ ReceiveFails(t)
         \/ Copy(t) \/ CopyFails(t) \/ Return(t)
         \/ \E o \in Objects : Enter(t, o)
  PROVE  EndIsLast'
<1> SUFFICES ASSUME NEW u \in Threads, NEW h \in Handles, AtEnd(u, h)'
             PROVE  hungUp'[h] /\ inbox'[h] = <<>>
  BY DEF EndIsLast
<1>1. KernelInv /\ TypeOKReceiver
  BY InvHasKernel DEF ReceiverInv
<1>2. UNCHANGED <<socket_, hungUp>>
  BY DEF Receive, Recv, ReceiveEof, ReceiveFails, RecvFails, Copy, CopyOut, CopyFails, CopyThrows,
         LeavesFlag, Return, StoreAndReturn, Enter, Exchange, Ends, ownerVars, tcpVars, peerVars
<1>3. CASE Receive(t)
  <2>1. PICK k \in Handles : k = socket_[self[t]]
    BY <1>3, CallHasGuard DEF Receive, Recv, InCall, TcpInv, ReceiverInv, TypeOKReceiver
  <2>2. /\ inbox[k] # <<>> /\ got' = [got EXCEPT ![t] = Head(inbox[k])]
        /\ inbox' = [inbox EXCEPT ![k] = Tail(inbox[k])]
        /\ pc' = [pc EXCEPT ![t] = "copy"] /\ UNCHANGED self
    BY <1>3, <2>1 DEF Receive, Recv
  <2>3. Head(inbox[k]) # Eof
    <3>1. inbox[k] \in Seq(Chunk)
      BY <1>1 DEF KernelInv, DataTyped
    <3>2. Head(inbox[k]) \in Chunk
      BY <2>2, <3>1
    <3>3. Eof \notin Chunk
      BY ChunkAssumption, SizesAssumption DEF Chunk
    <3> QED
      BY <3>2, <3>3
  <2>4. u # t /\ AtEnd(u, h)
    BY <1>1, <1>2, <2>2, <2>3 DEF AtEnd, KernelInv, DataTyped, TypeOKReceiver
  <2>5. hungUp[h] /\ inbox[h] = <<>> /\ h # k
    BY <2>2, <2>4 DEF EndIsLast
  <2> QED
    BY <1>1, <1>2, <2>2, <2>5 DEF KernelInv, DataTyped
<1>4. CASE ReceiveEof(t)
  <2>1. /\ got' = [got EXCEPT ![t] = Eof] /\ pc' = [pc EXCEPT ![t] = "copy"]
        /\ UNCHANGED <<self, inbox>>
        /\ inbox[socket_[self[t]]] = <<>> /\ hungUp[socket_[self[t]]]
    BY <1>4 DEF ReceiveEof, handleVars
  <2>2. CASE u = t
    BY <1>2, <2>1, <2>2 DEF AtEnd
  <2>3. CASE u # t
    BY <1>1, <1>2, <2>1, <2>3 DEF AtEnd, EndIsLast, KernelInv, DataTyped, TypeOKReceiver
  <2> QED
    BY <2>2, <2>3
<1>5. CASE ~Receive(t) /\ ~ReceiveEof(t)
  <2>1. /\ UNCHANGED inbox
        /\ \/ pc' = [pc EXCEPT ![t] = "idle"] /\ self' = [self EXCEPT ![t] = Nobody]
              /\ got' = [got EXCEPT ![t] = NoData]
           \/ UNCHANGED <<pc, self, got>>
           \/ pc[t] = "copy" /\ pc' = [pc EXCEPT ![t] = "store"] /\ UNCHANGED <<self, got>>
           \/ /\ pc' = [pc EXCEPT ![t] = "recv"] /\ UNCHANGED got
              /\ \E o \in Objects : self' = [self EXCEPT ![t] = o]
    BY <1>5 DEF ReceiveFails, RecvFails, Copy, CopyOut, CopyFails, CopyThrows, LeavesFlag,
                Return, StoreAndReturn, Enter, Exchange, handleVars
  <2>2. AtEnd(u, h)
    BY <1>1, <1>2, <2>1 DEF AtEnd, KernelInv, DataTyped, TypeOKReceiver
  <2> QED
    BY <1>2, <2>1, <2>2 DEF EndIsLast
<1> QED
  BY <1>3, <1>4, <1>5

(* No step puts anything after the end that a call has got.                *)
LEMMA NextKeepsEnd == TcpInv /\ EndIsLast /\ [Next]_vars => EndIsLast'
<1> SUFFICES ASSUME TcpInv, EndIsLast, [Next]_vars PROVE EndIsLast'
  OBVIOUS
<1>1. KernelInv /\ Sockets \subseteq Objects /\ Conns \subseteq Objects
  BY InvHasKernel DEF Objects
<1>2. ASSUME OwnerStep, UNCHANGED callVars,
             \A h \in Handles :
               \/ hungUp'[h] = hungUp[h] /\ inbox'[h] = inbox[h]
               \/ PeerSends(h) \/ PeerHangsUp(h)
               \/ h \notin open
               \/ \E o \in Objects : ClosesHandle(o) /\ socket_[o] = h
      PROVE  EndIsLast'
  BY <1>2, OthersKeepEnd DEF EndIsLast
<1>3. ASSUME UNCHANGED <<callVars, hungUp, inbox>>, OwnerStep
      PROVE  EndIsLast'
  BY <1>2, <1>3
<1>4. ASSUME NEW o \in Objects, NEW h \in Handles, TakesHandle(o, h),
             UNCHANGED <<callVars, inbox>>, \E st \in {"fresh", "connected"} : Reset(h, st)
      PROVE  EndIsLast'
  BY <1>1, <1>2, <1>4 DEF TakesHandle, OwnerStep, Reset, KernelInv, KernelTyped
<1>5. ASSUME NEW o \in Objects, ClosesHandle(o), Closed(socket_[o]), UNCHANGED callVars
      PROVE  EndIsLast'
  BY <1>1, <1>2, <1>5
  DEF ClosesHandle, OwnerStep, Closed, Reset, KernelInv, KernelTyped, DataTyped
<1>6. ASSUME NEW s \in Sockets, \/ Create(s) \/ CreateFails(s) \/ Destroy(s)
                                \/ BindAndListen(s) \/ Connect(s)
      PROVE  EndIsLast'
  <2>1. CASE Create(s)
    BY <1>1, <1>4, <2>1 DEF Create, Construct, Closed
  <2>2. CASE DestructSocket(s) /\ Closed(socket_[s])
    BY <1>1, <1>5, <2>2 DEF DestructSocket
  <2>3. CASE CreateFails(s) \/ ((DestructEmpty(s) \/ CloseFails(s)) /\ UNCHANGED tcpVars)
    BY <1>3, <2>3
    DEF CreateFails, ConstructFails, DestructEmpty, CloseFails, OwnerStep, tcpVars, peerVars,
        ownerVars, handleVars
  <2>4. CASE BindAndListen(s) \/ Connect(s)
    BY <1>3, <2>4
    DEF BindAndListen, Connect, OwnerStep, receiverVars, peerVars, ownerVars, handleVars
  <2> QED
    BY <1>6, <2>1, <2>2, <2>3, <2>4 DEF Destroy
<1>7. ASSUME NEW s \in Sockets, NEW n \in Sockets, Move(s, n)
      PROVE  EndIsLast'
  BY <1>1, <1>3, <1>7 DEF Move, MoveSocket, OwnerStep, tcpVars, peerVars, handleVars
<1>8. ASSUME NEW s \in Sockets, NEW c \in Conns, Accept(s, c)
      PROVE  EndIsLast'
  BY <1>1, <1>4, <1>8 DEF Accept
<1>9. ASSUME NEW c \in Conns, NEW d \in Conns, MoveConn(c, d)
      PROVE  EndIsLast'
  BY <1>1, <1>3, <1>9 DEF MoveConn, OwnerStep, tcpVars, peerVars, handleVars
<1>10. ASSUME NEW c \in Conns, DestroyConn(c)
       PROVE  EndIsLast'
  <2>1. CASE (DestructEmpty(c) \/ CloseFails(c)) /\ UNCHANGED tcpVars
    BY <1>3, <2>1 DEF DestructEmpty, CloseFails, OwnerStep, tcpVars, peerVars, ownerVars, handleVars
  <2>2. CASE ~((DestructEmpty(c) \/ CloseFails(c)) /\ UNCHANGED tcpVars)
    BY <1>1, <1>5, <1>10, <2>2 DEF DestroyConn
  <2> QED
    BY <2>1, <2>2
<1>11. ASSUME NEW o \in Objects, HandsOver(o) \/ BreaksPipe(o)
       PROVE  EndIsLast'
  BY <1>3, <1>11
  DEF HandsOver, BreaksPipe, OwnerStep, receiverVars, tcpVars, peerVars, ownerVars, handleVars
<1>12. ASSUME NEW h \in Handles, PeerConnects(h) \/ PeerSends(h) \/ PeerHangsUp(h)
       PROVE  EndIsLast'
  <2>1. OwnerStep /\ UNCHANGED callVars
    BY <1>12 DEF PeerConnects, PeerSends, PeerHangsUp, OwnerStep, receiverVars, ownerVars
  <2>2. \A k \in Handles : \/ hungUp'[k] = hungUp[k] /\ inbox'[k] = inbox[k]
                           \/ PeerSends(k) \/ PeerHangsUp(k)
    BY <1>1, <1>12
    DEF PeerConnects, PeerSends, PeerHangsUp, receiverVars, handleVars, KernelInv, KernelTyped,
        DataTyped
  <2> QED
    BY <1>2, <2>1, <2>2
<1>13. ASSUME NEW t \in Threads, \/ Receive(t) \/ ReceiveEof(t) \/ ReceiveFails(t)
                                 \/ Copy(t) \/ CopyFails(t) \/ Return(t)
                                 \/ \E o \in Objects : Enter(t, o)
       PROVE  EndIsLast'
  BY <1>13, CallsKeepEnd
<1>14. CASE UNCHANGED vars
  BY <1>3, <1>14 DEF vars, OwnerStep, tcpVars, peerVars, receiverVars, ownerVars, handleVars
<1> QED
  BY <1>1, <1>6, <1>7, <1>8, <1>9, <1>10, <1>11, <1>12, <1>13, <1>14 DEF Next, Send, Write, Ended

(* TcpInv holds in every state: the types of the variables, who owns which *)
(* handle, buffer and flag, and where each chunk of each stream is.        *)
THEOREM Invariance == Spec => []TcpInv
BY InitTcpInv, NextTcpInv, PTL DEF Spec

(* The variables have their types.                                         *)
THEOREM TypeCorrect == Spec => []TypeOK
<1>1. TcpInv => TypeOK
  BY DEF TcpInv
<1> QED
  BY <1>1, Invariance, PTL

(* No two calls under way use one receive buffer, be they made on sockets  *)
(* or on the connections that borrow from them.                            *)
THEOREM BuffersAreExclusive == Spec => []ExclusiveBuffer
<1>1. TcpInv => ExclusiveBuffer
  BY InvExclusiveBuffer DEF TcpInv
<1> QED
  BY <1>1, Invariance, PTL

(* Every open handle, of a socket or a connection, and every allocated     *)
(* buffer has one live owner.                                              *)
THEOREM HandlesHaveOneOwner == Spec => []HandleOwnership
<1>1. TcpInv => HandleOwnership
  BY InvHandleOwnership DEF TcpInv
<1> QED
  BY <1>1, Invariance, PTL

(* A flag is never set for nothing, but for a call that ended in an error. *)
THEOREM FlagsHaveHolders == Spec => []FlagHasHolder
<1>1. TcpInv => FlagHasHolder
  BY DEF TcpInv, ReceiverInv
<1> QED
  BY <1>1, Invariance, PTL

(* Every stream reaches its callers whole and in order, and its end after  *)
(* all of it, with any number of threads, sockets and connections.         *)
THEOREM StreamsArePreserved == Spec => []StreamPreserved
<1>1. TcpInv /\ EndIsLast => StreamPreserved
  <2> SUFFICES ASSUME TcpInv, EndIsLast, NEW h \in Handles
               PROVE  LET receivers == { u \in Threads :
                                           pc[u] \in {"copy", "store"} /\ socket_[self[u]] = h }
                          inHand == { got[t] : t \in { u \in receivers : got[u] # Eof } }
                      IN  /\ \/ inHand = {} /\ ended[h] \o inbox[h] = Stream(h)
                             \/ \E x \in inHand :
                                  inHand = {x} /\ ended[h] \o <<x>> \o inbox[h] = Stream(h)
                          /\ (\E t \in receivers : got[t] = Eof)
                               => hungUp[h] /\ ended[h] = Stream(h)
    BY DEF StreamPreserved, Stream
  <2> DEFINE receivers == { u \in Threads : pc[u] \in {"copy", "store"} /\ socket_[self[u]] = h }
             inHand == { got[t] : t \in { u \in receivers : got[u] # Eof } }
  <2>1. StreamAt(h)
    BY DEF TcpInv, StreamInv
  <2>2. \/ inHand = {} /\ ended[h] \o inbox[h] = Stream(h)
        \/ \E x \in inHand : inHand = {x} /\ ended[h] \o <<x>> \o inbox[h] = Stream(h)
    <3>1. CASE \A t \in Threads : ~Holds(t, h)
      BY <2>1, <3>1 DEF StreamAt, Holds
    <3>2. ASSUME NEW t \in Threads, Holds(t, h)
          PROVE  got[t] \in inHand /\ inHand = {got[t]}
                 /\ ended[h] \o <<got[t]>> \o inbox[h] = Stream(h)
      <4>1. \A u \in Threads : Holds(u, h) => u = t
        BY <3>2, OneHolder DEF Holds, InCall, TcpInv
      <4> QED
        BY <2>1, <3>2, <4>1 DEF StreamAt, Holds
    <3> QED
      BY <3>1, <3>2
  <2>3. ASSUME NEW t \in receivers, got[t] = Eof
        PROVE  hungUp[h] /\ ended[h] = Stream(h)
    <3>1. t \in Threads /\ AtEnd(t, h)
      BY <2>3 DEF AtEnd
    <3>2. hungUp[h] /\ inbox[h] = <<>>
      BY <3>1 DEF EndIsLast
    <3>3. \A u \in Threads : ~Holds(u, h)
      BY <3>1, OneHolder DEF Holds, AtEnd, InCall, TcpInv
    <3>4. ended[h] \in Seq(Chunk)
      BY InvHasKernel DEF KernelInv, DataTyped
    <3>5. ended[h] \o <<>> = ended[h]
      BY <3>4
    <3> QED
      BY <2>1, <3>2, <3>3, <3>5 DEF StreamAt
  <2> QED
    BY <2>2, <2>3
<1>2. Init => EndIsLast
  BY DEF Init, InitReceiver, EndIsLast, AtEnd
<1>3. TcpInv /\ EndIsLast /\ [Next]_vars => EndIsLast'
  BY NextKeepsEnd
<1> QED
  BY <1>1, <1>2, <1>3, Invariance, PTL DEF Spec
===============================================================================
