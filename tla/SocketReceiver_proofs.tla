------------------------ MODULE SocketReceiver_proofs ------------------------
(***************************************************************************)
(* What every step of a receiving call and every construction, move and    *)
(* destruction of a socket preserves, for any number of threads, objects,  *)
(* handles and buffers: the lemmas that UdpSocket_proofs and               *)
(* TcpSocket_proofs build their theorems from.                             *)
(***************************************************************************)
EXTENDS SocketReceiver, SequenceTheorems, TLAPS

(* The functions whose values differ between UDP and TCP.                  *)
Domains ==
  /\ DOMAIN got = Threads /\ DOMAIN copied = Threads
  /\ DOMAIN buffer = Buffers /\ DOMAIN inbox = Handles

(* A call is on a live object that has a socket.                           *)
CallsOnLive ==
  \A t \in Threads : InCall(t) => life[self[t]] = "alive" /\ socket_[self[t]] # NoSocket

(* A live connection points to a live socket, which may have been moved    *)
(* from.                                                                   *)
ListenersLive ==
  \A c \in Conns : life[c] = "alive" /\ socket_[c] # NoSocket =>
    ownedSocket_[c] \in Sockets /\ life[ownedSocket_[c]] = "alive"

(* No two calls under way use one flag.                                    *)
OneCallPerFlag ==
  \A t, u \in Threads :
    InCall(t) /\ InCall(u) /\ Guard(self[t]) = Guard(self[u]) => t = u

(* A handle in an object is open and in no other object; an open handle is *)
(* in a live object.                                                       *)
HandlesOwned ==
  /\ \A o \in Objects : socket_[o] # NoSocket => life[o] = "alive" /\ socket_[o] \in open
  /\ \A o, p \in Objects : socket_[o] # NoSocket /\ socket_[o] = socket_[p] => o = p
  /\ \A h \in open : \E o \in Objects : socket_[o] = h

(* The same of buffers; a socket has a buffer exactly when it has a handle.*)
BuffersOwned ==
  /\ \A s \in Sockets : socket_[s] = NoSocket <=> maxBuf_[s] = NullPtr
  /\ \A s \in Sockets : maxBuf_[s] # NullPtr => maxBuf_[s] \in heap
  /\ \A s, r \in Sockets : maxBuf_[s] # NullPtr /\ maxBuf_[s] = maxBuf_[r] => s = r
  /\ \A b \in heap : \E s \in Sockets : maxBuf_[s] = b

(* From recv() to the copy the buffer holds what this call received, and   *)
(* then the copy does.                                                     *)
DataInHand ==
  \A t \in Threads :
    /\ pc[t] = "copy" /\ got[t] # Eof =>
         BufferOf(t) \in Buffers /\ buffer[BufferOf(t)] = got[t]
    /\ pc[t] = "store" => copied[t] = got[t]

(* The inductive invariant of what the socket classes share.               *)
ReceiverInv ==
  /\ TypeOKReceiver
  /\ Domains
  /\ CallsOnLive
  /\ ListenersLive
  /\ OneCallPerFlag
  /\ FlagHasHolder
  /\ HandlesOwned
  /\ BuffersOwned
  /\ DataInHand

-------------------------------------------------------------------------------
(* Lemmas that the steps share.                                            *)

(* The socket whose flag a call uses is a live one.                        *)
LEMMA CallHasGuard ==
  ASSUME ReceiverInv, NEW t \in Threads, InCall(t)
  PROVE  /\ self[t] \in Objects /\ life[self[t]] = "alive" /\ socket_[self[t]] # NoSocket
         /\ Guard(self[t]) \in Sockets /\ life[Guard(self[t])] = "alive"
<1>1. self[t] \in Objects /\ life[self[t]] = "alive" /\ socket_[self[t]] # NoSocket
  BY DEF ReceiverInv, TypeOKReceiver, CallsOnLive
<1> QED
  BY <1>1 DEF ReceiverInv, ListenersLive, Guard, Objects

(* A call begins on a usable object only.                                  *)
LEMMA UsableHasGuard ==
  ASSUME ReceiverInv, NEW o \in Objects, Usable(o)
  PROVE  Guard(o) \in Sockets /\ life[Guard(o)] = "alive"
BY DEF ReceiverInv, ListenersLive, Guard, Objects, Usable

(* A step that leaves the objects alone leaves who owns what.              *)
LEMMA OwnersKept ==
  ASSUME ReceiverInv, UNCHANGED <<ownerVars, heap, open>>
  PROVE  /\ ListenersLive' /\ HandlesOwned' /\ BuffersOwned'
         /\ \A o : Guard(o)' = Guard(o)
BY DEF ReceiverInv, ListenersLive, HandlesOwned, BuffersOwned, Guard, ownerVars

-------------------------------------------------------------------------------
(* The steps of a receiving call.                                          *)

(* The exchange lets a call in only when the flag was clear, and then no   *)
(* call used it.                                                           *)
LEMMA ExchangeKeeps ==
  ASSUME ReceiverInv, NEW t \in Threads, NEW o \in Objects, Exchange(t, o)
  PROVE  ReceiverInv'
<1> USE DEF Exchange, ownerVars, memoryVars, handleVars
<1>1. ListenersLive' /\ HandlesOwned' /\ BuffersOwned' /\ \A p : Guard(p)' = Guard(p)
  BY OwnersKept
<1>2. Guard(o) \in Sockets /\ Guard(o) \in DOMAIN receiverInUse_
  BY UsableHasGuard DEF ReceiverInv, TypeOKReceiver
<1>3. CASE PreviouslyInUse(Guard(o))
  <2>1. UNCHANGED <<pc, self, receiverInUse_>> /\ ~Running'
    BY <1>2, <1>3 DEF PreviouslyInUse, Running, ReceiverInv, TypeOKReceiver
  <2>2. TypeOKReceiver' /\ Domains'
    BY <1>3, <2>1 DEF ReceiverInv, TypeOKReceiver, Domains, InCall
  <2>3. CallsOnLive' /\ OneCallPerFlag' /\ FlagHasHolder'
    BY <1>1, <2>1 DEF ReceiverInv, CallsOnLive, OneCallPerFlag, FlagHasHolder, InCall, Users
  <2>4. DataInHand'
    BY <1>1, <2>1 DEF ReceiverInv, DataInHand, BufferOf
  <2> QED
    BY <1>1, <2>2, <2>3, <2>4 DEF ReceiverInv
<1>4. CASE ~PreviouslyInUse(Guard(o))
  <2>1. /\ pc' = [pc EXCEPT ![t] = "recv"] /\ self' = [self EXCEPT ![t] = o]
        /\ UNCHANGED terminated
    BY <1>4
  <2>2. /\ ~InCall(t) /\ InCall(t)' /\ self'[t] = o
        /\ \A u \in Threads : u # t => pc'[u] = pc[u] /\ self'[u] = self[u]
        /\ \A u \in Threads : u # t => InCall(u)' = InCall(u)
    BY <2>1 DEF ReceiverInv, TypeOKReceiver, InCall
  <2>3. \A u \in Threads : InCall(u) => Guard(self[u]) # Guard(o)
    BY <1>2, <1>4 DEF ReceiverInv, FlagHasHolder, Users, PreviouslyInUse
  <2>4. TypeOKReceiver' /\ Domains'
    BY <2>1, <2>2 DEF ReceiverInv, TypeOKReceiver, Domains, InCall
  <2>5. CallsOnLive'
    BY <2>2 DEF ReceiverInv, CallsOnLive, Usable
  <2>6. OneCallPerFlag'
    BY <1>1, <2>2, <2>3 DEF ReceiverInv, OneCallPerFlag
  <2>7. FlagHasHolder'
    <3>1. \A s \in Sockets : Users(s) \subseteq Users(s)' /\ Users(s)' \subseteq Users(s) \cup {t}
      BY <2>2 DEF Users, Guard
    <3>2. \A s \in Sockets : t \in Users(s)' <=> s = Guard(o)
      BY <2>2 DEF Users, Guard
    <3>3. /\ receiverInUse_'[Guard(o)]
          /\ \A s \in Sockets : s # Guard(o) => receiverInUse_'[s] = receiverInUse_[s]
          /\ UNCHANGED <<failed, terminated>>
      BY <1>2, <2>1 DEF ReceiverInv, TypeOKReceiver
    <3> QED
      BY <3>1, <3>2, <3>3 DEF ReceiverInv, FlagHasHolder, Running
  <2>8. DataInHand'
    BY <1>1, <2>1, <2>2 DEF ReceiverInv, TypeOKReceiver, DataInHand, BufferOf
  <2> QED
    BY <1>1, <2>4, <2>5, <2>6, <2>7, <2>8 DEF ReceiverInv
<1> QED
  BY <1>3, <1>4

(* A step inside a call changes neither who is in a call nor any flag.     *)
LEMMA CallGoesOn ==
  ASSUME ReceiverInv, UNCHANGED <<ownerVars, heap, open, flagVars, self, terminated>>,
         \A u \in Threads : InCall(u)' = InCall(u)
  PROVE  /\ CallsOnLive' /\ ListenersLive' /\ OneCallPerFlag' /\ FlagHasHolder'
         /\ HandlesOwned' /\ BuffersOwned'
<1> USE DEF ownerVars, flagVars
<1>1. ListenersLive' /\ HandlesOwned' /\ BuffersOwned'
  BY OwnersKept
<1>2. CallsOnLive' /\ OneCallPerFlag'
  BY DEF ReceiverInv, CallsOnLive, OneCallPerFlag, Guard
<1>3. \A s \in Sockets : Users(s)' = Users(s)
  BY DEF Users, Guard
<1>4. FlagHasHolder'
  BY <1>3 DEF ReceiverInv, FlagHasHolder, Running
<1> QED
  BY <1>1, <1>2, <1>4

(* recv() writes the buffer of its own call and no other call's: the calls *)
(* use different flags, so they use different sockets' buffers.            *)
LEMMA RecvKeeps ==
  ASSUME ReceiverInv, NEW t \in Threads, Recv(t)
  PROVE  ReceiverInv'
<1> USE DEF Recv, ownerVars, flagVars
<1>1. /\ pc' = [pc EXCEPT ![t] = "copy"] /\ pc \in [Threads -> {"idle", "recv", "copy", "store"}]
      /\ \A u \in Threads : InCall(u)' = InCall(u)
  BY DEF ReceiverInv, TypeOKReceiver, InCall
<1>2. UNCHANGED <<ownerVars, heap, open, flagVars, self, terminated>>
  OBVIOUS
<1>3. /\ CallsOnLive' /\ ListenersLive' /\ OneCallPerFlag' /\ FlagHasHolder'
      /\ HandlesOwned' /\ BuffersOwned'
  BY <1>1, <1>2, CallGoesOn
<1>4. TypeOKReceiver' /\ Domains'
  BY <1>1, <1>2 DEF ReceiverInv, TypeOKReceiver, Domains
<1>5. /\ Guard(self[t]) \in Sockets /\ BufferOf(t) \in Buffers
      /\ \A u \in Threads : BufferOf(u)' = BufferOf(u)
  BY <1>1, CallHasGuard DEF ReceiverInv, TypeOKReceiver, InCall, BufferOf, Guard
<1>6. ASSUME NEW u \in Threads, u # t, InCall(u)
      PROVE  BufferOf(u) # BufferOf(t)
  BY <1>1, <1>5, <1>6, CallHasGuard DEF ReceiverInv, OneCallPerFlag, BuffersOwned, BufferOf, InCall
<1>7. DataInHand'
  <2> SUFFICES ASSUME NEW u \in Threads
               PROVE  /\ pc'[u] = "copy" /\ got'[u] # Eof =>
                           BufferOf(u) \in Buffers /\ buffer'[BufferOf(u)] = got'[u]
                      /\ pc'[u] = "store" => copied'[u] = got'[u]
    BY <1>5 DEF DataInHand
  <2>1. CASE u = t
    BY <1>1, <1>5, <2>1 DEF ReceiverInv, Domains
  <2>2. CASE u # t
    BY <1>1, <1>5, <1>6, <2>2 DEF ReceiverInv, Domains, DataInHand, InCall
  <2> QED
    BY <2>1, <2>2
<1> QED
  BY <1>3, <1>4, <1>7 DEF ReceiverInv

(* The copy is of what this call received.                                 *)
LEMMA CopyOutKeeps ==
  ASSUME ReceiverInv, NEW t \in Threads, CopyOut(t)
  PROVE  ReceiverInv'
<1> USE DEF CopyOut, ownerVars, flagVars, memoryVars, handleVars
<1>1. /\ pc' = [pc EXCEPT ![t] = "store"] /\ pc \in [Threads -> {"idle", "recv", "copy", "store"}]
      /\ \A u \in Threads : InCall(u)' = InCall(u)
  BY DEF ReceiverInv, TypeOKReceiver, InCall
<1>2. /\ CallsOnLive' /\ ListenersLive' /\ OneCallPerFlag' /\ FlagHasHolder'
      /\ HandlesOwned' /\ BuffersOwned'
  BY <1>1, CallGoesOn
<1>3. TypeOKReceiver' /\ Domains'
  BY <1>1 DEF ReceiverInv, TypeOKReceiver, Domains
<1>4. DataInHand'
  BY <1>1 DEF ReceiverInv, Domains, DataInHand, BufferOf, Guard
<1> QED
  BY <1>2, <1>3, <1>4 DEF ReceiverInv

(* A call ends: its socket has no other, so the flag may be clear or, if   *)
(* it is left set, it is remembered as failed.                             *)
LEMMA CallEnds ==
  ASSUME ReceiverInv, NEW t \in Threads, InCall(t),
         UNCHANGED <<ownerVars, heap, open, terminated, buffer>>,
         pc' = [pc EXCEPT ![t] = "idle"], self' = [self EXCEPT ![t] = Nobody],
         got' = [got EXCEPT ![t] = NoData],
         \A u \in Threads : u # t => copied'[u] = copied[u],
         \A s \in Sockets : s # Guard(self[t]) =>
           receiverInUse_'[s] = receiverInUse_[s] /\ failed'[s] = failed[s],
         receiverInUse_'[Guard(self[t])] => failed'[Guard(self[t])]
  PROVE  /\ CallsOnLive' /\ ListenersLive' /\ OneCallPerFlag' /\ FlagHasHolder'
         /\ HandlesOwned' /\ BuffersOwned' /\ DataInHand'
         /\ \A u \in Threads : InCall(u)' <=> self'[u] \in Objects
<1> USE DEF ownerVars
<1>1. ListenersLive' /\ HandlesOwned' /\ BuffersOwned'
  BY OwnersKept
<1> PICK g \in Sockets : g = Guard(self[t])
  BY CallHasGuard
<1>2. /\ ~InCall(t)' /\ self'[t] = Nobody /\ pc'[t] = "idle"
      /\ \A u \in Threads : u # t => pc'[u] = pc[u] /\ self'[u] = self[u] /\ got'[u] = got[u]
      /\ \A u \in Threads : u # t => InCall(u)' = InCall(u)
  BY DEF ReceiverInv, TypeOKReceiver, Domains, InCall
<1>3. CallsOnLive' /\ OneCallPerFlag'
  BY <1>2 DEF ReceiverInv, CallsOnLive, OneCallPerFlag, Guard
<1>4. \A u \in Threads : InCall(u)' <=> self'[u] \in Objects
  BY <1>2, StorageAssumption DEF ReceiverInv, TypeOKReceiver
<1>5. FlagHasHolder'
  <2>1. \A s \in Sockets : s # g => Users(s)' = Users(s)
    BY <1>2 DEF Users, Guard
  <2>2. Users(g)' = {}
    BY <1>2 DEF ReceiverInv, OneCallPerFlag, Users, Guard
  <2> QED
    BY <2>1, <2>2 DEF ReceiverInv, FlagHasHolder, Running
<1>6. DataInHand'
  <2>1. \A u \in Threads : u # t => BufferOf(u)' = BufferOf(u)
    BY <1>2 DEF BufferOf, Guard
  <2> QED
    BY <1>2, <2>1 DEF ReceiverInv, DataInHand
<1> QED
  BY <1>1, <1>3, <1>4, <1>5, <1>6

(* An error leaves the flag set; the call is over all the same.            *)
LEMMA LeavesFlagKeeps ==
  ASSUME ReceiverInv, NEW t \in Threads, InCall(t), LeavesFlag(t)
  PROVE  ReceiverInv'
<1> USE DEF LeavesFlag, ownerVars, memoryVars, handleVars
<1>1. Guard(self[t]) \in Sockets
  BY CallHasGuard
<1>2. failed'[Guard(self[t])]
  BY <1>1 DEF ReceiverInv, TypeOKReceiver
<1>3. \A s \in Sockets : s # Guard(self[t]) =>
        receiverInUse_'[s] = receiverInUse_[s] /\ failed'[s] = failed[s]
  BY <1>1 DEF ReceiverInv, TypeOKReceiver
<1>4. /\ CallsOnLive' /\ ListenersLive' /\ OneCallPerFlag' /\ FlagHasHolder'
      /\ HandlesOwned' /\ BuffersOwned' /\ DataInHand'
      /\ \A u \in Threads : InCall(u)' <=> self'[u] \in Objects
  BY <1>2, <1>3, CallEnds
<1>5. TypeOKReceiver' /\ Domains'
  BY <1>1, <1>4 DEF ReceiverInv, TypeOKReceiver, Domains
<1> QED
  BY <1>4, <1>5 DEF ReceiverInv

(* recv() and the copy are the steps that may fail.                        *)
LEMMA CallFailsKeeps ==
  ASSUME ReceiverInv, NEW t \in Threads, RecvFails(t) \/ CopyThrows(t)
  PROVE  ReceiverInv'
BY LeavesFlagKeeps DEF RecvFails, CopyThrows, InCall

(* The flag is cleared when the last step of the only call is taken.       *)
LEMMA StoreAndReturnKeeps ==
  ASSUME ReceiverInv, NEW t \in Threads, StoreAndReturn(t)
  PROVE  ReceiverInv'
<1> USE DEF StoreAndReturn, FlagAtReturn, ownerVars, memoryVars, handleVars
<1>1. Guard(self[t]) \in Sockets /\ InCall(t)
  BY CallHasGuard DEF InCall
<1>2. ~receiverInUse_'[Guard(self[t])]
  BY <1>1 DEF ReceiverInv, TypeOKReceiver
<1>3. \A s \in Sockets : s # Guard(self[t]) =>
        receiverInUse_'[s] = receiverInUse_[s] /\ failed'[s] = failed[s]
  BY <1>1 DEF ReceiverInv, TypeOKReceiver
<1>4. \A u \in Threads : u # t => copied'[u] = copied[u]
  BY DEF ReceiverInv, Domains
<1>5. /\ CallsOnLive' /\ ListenersLive' /\ OneCallPerFlag' /\ FlagHasHolder'
      /\ HandlesOwned' /\ BuffersOwned' /\ DataInHand'
      /\ \A u \in Threads : InCall(u)' <=> self'[u] \in Objects
  BY <1>1, <1>2, <1>3, <1>4, CallEnds
<1>6. TypeOKReceiver' /\ Domains'
  BY <1>1, <1>5 DEF ReceiverInv, TypeOKReceiver, Domains
<1> QED
  BY <1>5, <1>6 DEF ReceiverInv

-------------------------------------------------------------------------------
(* Construction, move and destruction.                                     *)

(* The program ends: nothing but the verdict changes.                      *)
LEMMA TerminateKeeps ==
  ASSUME ReceiverInv, terminated' \in {"socket", "close", "receiver", "select", "signal"},
         UNCHANGED <<ownerVars, flagVars, callVars, memoryVars, handleVars>>
  PROVE  ReceiverInv'
<1> USE DEF ownerVars, flagVars, callVars, memoryVars, handleVars
<1>1. ListenersLive' /\ HandlesOwned' /\ BuffersOwned'
  BY OwnersKept
<1>2. TypeOKReceiver' /\ Domains' /\ CallsOnLive' /\ OneCallPerFlag'
  BY DEF ReceiverInv, TypeOKReceiver, Domains, CallsOnLive, OneCallPerFlag, InCall, Guard
<1>3. FlagHasHolder'
  <2>1. ~Running' /\ \A s \in Sockets : Users(s)' = Users(s)
    BY DEF Running, Users, InCall, Guard
  <2> QED
    BY <2>1 DEF ReceiverInv, FlagHasHolder
<1>4. DataInHand'
  BY DEF ReceiverInv, DataInHand, BufferOf, Guard
<1> QED
  BY <1>1, <1>2, <1>3, <1>4 DEF ReceiverInv

(* socket() failed, or close() did.                                        *)
LEMMA OwnerFailsKeeps ==
  ASSUME ReceiverInv, NEW o \in Objects, ConstructFails(o) \/ CloseFails(o)
  PROVE  ReceiverInv'
BY TerminateKeeps DEF ConstructFails, CloseFails

(* The environment may put data in the inbox of a handle at any time.      *)
LEMMA ArrivalKeeps ==
  ASSUME ReceiverInv, DOMAIN inbox' = Handles,
         UNCHANGED <<ownerVars, flagVars, callVars, terminated, memoryVars, open>>
  PROVE  ReceiverInv'
<1> USE DEF ownerVars, flagVars, callVars, memoryVars
<1>1. ListenersLive' /\ HandlesOwned' /\ BuffersOwned'
  BY OwnersKept
<1>2. TypeOKReceiver' /\ Domains' /\ CallsOnLive' /\ OneCallPerFlag'
  BY DEF ReceiverInv, TypeOKReceiver, Domains, CallsOnLive, OneCallPerFlag, InCall, Guard
<1>3. FlagHasHolder'
  <2>1. \A s \in Sockets : Users(s)' = Users(s)
    BY DEF Users, InCall, Guard
  <2> QED
    BY <2>1 DEF ReceiverInv, FlagHasHolder, Running
<1>4. DataInHand'
  BY DEF ReceiverInv, DataInHand, BufferOf, Guard
<1> QED
  BY <1>1, <1>2, <1>3, <1>4 DEF ReceiverInv

(* Calls go on undisturbed by a step that leaves alone the objects they    *)
(* are on and the sockets whose flag and buffer they use.                  *)
LEMMA CallsUndisturbed ==
  ASSUME ReceiverInv, UNCHANGED <<callVars, buffer>>,
         \A t \in Threads : InCall(t) =>
           /\ life'[self[t]] = life[self[t]] /\ socket_'[self[t]] = socket_[self[t]]
           /\ Guard(self[t])' = Guard(self[t])
           /\ maxBuf_'[Guard(self[t])] = maxBuf_[Guard(self[t])]
  PROVE  /\ CallsOnLive' /\ OneCallPerFlag' /\ DataInHand'
         /\ \A s \in Sockets : Users(s)' = Users(s)
<1> USE DEF callVars
<1>1. \A t \in Threads : InCall(t)' = InCall(t)
  BY DEF InCall
<1>2. \A t \in Threads : InCall(t) => BufferOf(t)' = BufferOf(t)
  BY DEF BufferOf
<1>3. CallsOnLive'
  BY <1>1 DEF ReceiverInv, CallsOnLive
<1>4. OneCallPerFlag'
  BY <1>1 DEF ReceiverInv, OneCallPerFlag
<1>5. \A s \in Sockets : Users(s)' = Users(s)
  BY <1>1 DEF Users
<1>6. DataInHand'
  BY <1>2 DEF ReceiverInv, DataInHand, InCall
<1> QED
  BY <1>3, <1>4, <1>5, <1>6

(* An object that takes a handle that was not open is its only owner.      *)
LEMMA TakesHandleOwns ==
  ASSUME ReceiverInv, NEW o \in Objects, NEW h \in Handles, TakesHandle(o, h)
  PROVE  /\ HandlesOwned'
         /\ life' \in [Objects -> {"unborn", "alive", "dead"}]
         /\ socket_' \in [Objects -> Handles \cup {NoSocket}]
         /\ open' \subseteq Handles
         /\ life'[o] = "alive" /\ socket_'[o] = h /\ h # NoSocket
         /\ \A p \in Objects : p # o => life'[p] = life[p] /\ socket_'[p] = socket_[p]
<1>1. /\ life'[o] = "alive" /\ socket_'[o] = h /\ h # NoSocket
      /\ \A p \in Objects : p # o => life'[p] = life[p] /\ socket_'[p] = socket_[p]
      /\ socket_[o] = NoSocket
  BY HandlesAssumption DEF ReceiverInv, TypeOKReceiver, HandlesOwned, TakesHandle
<1>2. HandlesOwned'
  <2>1. h \notin open /\ open' = open \cup {h}
    BY DEF TakesHandle
  <2>2. \A p \in Objects : socket_'[p] # NoSocket => life'[p] = "alive" /\ socket_'[p] \in open'
    BY <1>1, <2>1 DEF ReceiverInv, HandlesOwned
  <2>3. \A p, q \in Objects : socket_'[p] # NoSocket /\ socket_'[p] = socket_'[q] => p = q
    BY <1>1, <2>1 DEF ReceiverInv, HandlesOwned
  <2>4. \A k \in open' : \E p \in Objects : socket_'[p] = k
    <3>1. \A k \in open : k # NoSocket /\ \E p \in Objects : socket_[p] = k
      BY HandlesAssumption DEF ReceiverInv, TypeOKReceiver, HandlesOwned
    <3> QED
      BY <1>1, <2>1, <3>1
  <2> QED
    BY <2>2, <2>3, <2>4 DEF HandlesOwned
<1> QED
  BY <1>1, <1>2 DEF ReceiverInv, TypeOKReceiver, TakesHandle

(* The constructor takes a handle and a buffer that nobody has.            *)
LEMMA ConstructKeeps ==
  ASSUME ReceiverInv, NEW s \in Sockets, NEW h \in Handles, Construct(s, h)
  PROVE  ReceiverInv'
<1> USE DEF Construct
<1>1. s \in Objects /\ life[s] = "unborn"
  BY DEF Objects, TakesHandle
<1>2. /\ HandlesOwned'
      /\ life' \in [Objects -> {"unborn", "alive", "dead"}]
      /\ socket_' \in [Objects -> Handles \cup {NoSocket}]
      /\ open' \subseteq Handles
      /\ life'[s] = "alive" /\ socket_'[s] = h /\ h # NoSocket
      /\ \A p \in Objects : p # s => life'[p] = life[p] /\ socket_'[p] = socket_[p]
  BY <1>1, TakesHandleOwns
<1>3. PICK b \in Buffers \ heap :
        heap' = heap \cup {b} /\ maxBuf_' = [maxBuf_ EXCEPT ![s] = b]
  OBVIOUS
<1>4. /\ maxBuf_'[s] = b /\ b # NullPtr
      /\ \A r \in Sockets : r # s => maxBuf_'[r] = maxBuf_[r] /\ receiverInUse_'[r] = receiverInUse_[r]
      /\ ~receiverInUse_'[s]
  BY <1>3, NullPtrAssumption DEF ReceiverInv, TypeOKReceiver
<1>5. maxBuf_[s] = NullPtr
  BY <1>1 DEF ReceiverInv, HandlesOwned, BuffersOwned
<1>6. ASSUME NEW t \in Threads, InCall(t)
      PROVE  /\ life'[self[t]] = life[self[t]] /\ socket_'[self[t]] = socket_[self[t]]
             /\ Guard(self[t])' = Guard(self[t]) /\ Guard(self[t]) # s
             /\ maxBuf_'[Guard(self[t])] = maxBuf_[Guard(self[t])]
  BY <1>1, <1>2, <1>4, <1>6, CallHasGuard DEF callVars, Guard
<1>7. /\ CallsOnLive' /\ OneCallPerFlag' /\ DataInHand'
      /\ \A r \in Sockets : Users(r)' = Users(r)
  BY <1>6, CallsUndisturbed DEF callVars
<1>8. Users(s) = {}
  BY <1>6 DEF Users
<1>9. FlagHasHolder'
  BY <1>4, <1>7, <1>8 DEF ReceiverInv, FlagHasHolder, Running
<1>10. ListenersLive'
  <2>1. \A c \in Conns : c \in Objects /\ c # s
    BY StorageAssumption DEF Objects
  <2>2. \A c \in Conns : life'[c] = life[c] /\ socket_'[c] = socket_[c]
    BY <1>2, <2>1
  <2>3. \A r \in Sockets : life[r] = "alive" => life'[r] = "alive"
    BY <1>2 DEF Objects
  <2> QED
    BY <2>2, <2>3 DEF ReceiverInv, ListenersLive
<1>11. BuffersOwned'
  <2>1. \A r \in Sockets : r # s => socket_'[r] = socket_[r]
    BY <1>2 DEF Objects
  <2>2. \A r \in Sockets : socket_'[r] = NoSocket <=> maxBuf_'[r] = NullPtr
    BY <1>2, <1>4, <2>1 DEF ReceiverInv, BuffersOwned
  <2>3. \A r \in Sockets : maxBuf_'[r] # NullPtr => maxBuf_'[r] \in heap'
    BY <1>3, <1>4 DEF ReceiverInv, BuffersOwned
  <2>4. \A r, q \in Sockets : maxBuf_'[r] # NullPtr /\ maxBuf_'[r] = maxBuf_'[q] => r = q
    BY <1>3, <1>4 DEF ReceiverInv, BuffersOwned
  <2>5. \A k \in heap' : \E r \in Sockets : maxBuf_'[r] = k
    <3>1. \A k \in heap : k # NullPtr /\ \E r \in Sockets : maxBuf_[r] = k
      BY NullPtrAssumption DEF ReceiverInv, TypeOKReceiver, BuffersOwned
    <3> QED
      BY <1>3, <1>4, <1>5, <3>1
  <2> QED
    BY <2>2, <2>3, <2>4, <2>5 DEF BuffersOwned
<1>12. TypeOKReceiver' /\ Domains'
  BY <1>2, <1>3 DEF ReceiverInv, TypeOKReceiver, Domains, callVars, InCall
<1> QED
  BY <1>2, <1>7, <1>9, <1>10, <1>11, <1>12 DEF ReceiverInv

(* A move hands the handle on: it stays in one object.                     *)
LEMMA MovesHandleOwns ==
  ASSUME ReceiverInv, NEW o \in Objects, NEW n \in Objects, MovesHandle(o, n), UNCHANGED open
  PROVE  /\ HandlesOwned' /\ n # o
         /\ life' \in [Objects -> {"unborn", "alive", "dead"}]
         /\ socket_' \in [Objects -> Handles \cup {NoSocket}]
         /\ life[n] = "unborn" /\ life'[n] = "alive" /\ life[o] = "alive" /\ life'[o] = "alive"
         /\ socket_'[n] = socket_[o] /\ socket_'[o] = NoSocket /\ socket_[n] = NoSocket
         /\ \A p \in Objects : p # o /\ p # n => life'[p] = life[p] /\ socket_'[p] = socket_[p]
         /\ Inside(o) = {}
<1>1. /\ life[n] = "unborn" /\ life'[n] = "alive" /\ life[o] = "alive" /\ life'[o] = "alive"
      /\ n # o /\ Inside(o) = {}
      /\ socket_'[n] = socket_[o] /\ socket_'[o] = NoSocket
      /\ \A p \in Objects : p # o /\ p # n => life'[p] = life[p] /\ socket_'[p] = socket_[p]
  BY DEF MovesHandle, MovedFromSocket, Owned, ReceiverInv, TypeOKReceiver
<1>2. socket_[n] = NoSocket
  BY <1>1 DEF ReceiverInv, HandlesOwned
<1>3. /\ life' \in [Objects -> {"unborn", "alive", "dead"}]
      /\ socket_' \in [Objects -> Handles \cup {NoSocket}]
  BY <1>1 DEF MovesHandle, MovedFromSocket, ReceiverInv, TypeOKReceiver
<1>4. HandlesOwned'
  <2>1. \A p \in Objects : socket_'[p] # NoSocket => life'[p] = "alive" /\ socket_'[p] \in open'
    BY <1>1 DEF ReceiverInv, HandlesOwned
  <2>2. \A p, q \in Objects : socket_'[p] # NoSocket /\ socket_'[p] = socket_'[q] => p = q
    BY <1>1 DEF ReceiverInv, HandlesOwned
  <2>3. \A k \in open' : \E p \in Objects : socket_'[p] = k
    <3>1. \A k \in open : k # NoSocket /\ \E p \in Objects : socket_[p] = k
      BY HandlesAssumption DEF ReceiverInv, TypeOKReceiver, HandlesOwned
    <3> QED
      BY <1>1, <1>2, <3>1
  <2> QED
    BY <2>1, <2>2, <2>3 DEF HandlesOwned
<1> QED
  BY <1>1, <1>2, <1>3, <1>4

(* A socket is moved when no call uses its flag: flag, buffer and handle   *)
(* change hands together.                                                  *)
LEMMA MoveSocketKeeps ==
  ASSUME ReceiverInv, NEW s \in Sockets, NEW n \in Sockets, MoveSocket(s, n)
  PROVE  ReceiverInv'
<1>1. s \in Objects /\ n \in Objects /\ UNCHANGED open
  BY DEF MoveSocket, Objects, handleVars
<1>2. /\ HandlesOwned' /\ n # s
      /\ life' \in [Objects -> {"unborn", "alive", "dead"}]
      /\ socket_' \in [Objects -> Handles \cup {NoSocket}]
      /\ life[n] = "unborn" /\ life'[n] = "alive" /\ life[s] = "alive" /\ life'[s] = "alive"
      /\ socket_'[n] = socket_[s] /\ socket_'[s] = NoSocket /\ socket_[n] = NoSocket
      /\ \A p \in Objects : p # s /\ p # n => life'[p] = life[p] /\ socket_'[p] = socket_[p]
  BY <1>1, MovesHandleOwns DEF MoveSocket
<1>3. /\ maxBuf_'[n] = maxBuf_[s] /\ maxBuf_'[s] = NullPtr
      /\ (receiverInUse_'[n] <=> receiverInUse_[s]) /\ ~receiverInUse_'[s]
      /\ (failed'[n] <=> failed[s])
      /\ \A r \in Sockets : r # s /\ r # n =>
           /\ maxBuf_'[r] = maxBuf_[r] /\ failed'[r] = failed[r]
           /\ receiverInUse_'[r] = receiverInUse_[r]
  BY <1>2 DEF MoveSocket, ReceiverInv, TypeOKReceiver
<1>4. ASSUME NEW t \in Threads, InCall(t)
      PROVE  /\ Guard(self[t]) \in Sockets \ {s, n} /\ self[t] \in Objects \ {s, n}
             /\ Guard(self[t])' = Guard(self[t])
  <2>1. /\ Guard(self[t]) \in Sockets /\ life[Guard(self[t])] = "alive"
        /\ self[t] \in Objects /\ life[self[t]] = "alive"
    BY <1>4, CallHasGuard
  <2>2. Guard(self[t]) # s
    BY <1>4 DEF MoveSocket, Users
  <2>3. self[t] # s
    BY <2>2 DEF Guard
  <2> QED
    BY <1>2, <2>1, <2>2, <2>3 DEF MoveSocket, Guard, callVars
<1>5. /\ CallsOnLive' /\ OneCallPerFlag' /\ DataInHand'
      /\ \A r \in Sockets : Users(r)' = Users(r)
  BY <1>2, <1>3, <1>4, CallsUndisturbed DEF MoveSocket, callVars, memoryVars
<1>6. Users(n) = {} /\ Users(s) = {}
  BY <1>4 DEF Users
<1>7. FlagHasHolder'
  <2> SUFFICES ASSUME NEW r \in Sockets
               PROVE  /\ Users(r)' # {} => receiverInUse_'[r]
                      /\ receiverInUse_'[r] /\ Running' => Users(r)' # {} \/ failed'[r]
    BY DEF FlagHasHolder
  <2>1. CASE r \in {s, n}
    BY <1>3, <1>5, <1>6, <2>1 DEF MoveSocket, ReceiverInv, FlagHasHolder, Running
  <2>2. CASE r \notin {s, n}
    BY <1>3, <1>5, <2>2 DEF MoveSocket, ReceiverInv, FlagHasHolder, Running
  <2> QED
    BY <2>1, <2>2
<1>8. ListenersLive'
  <2>1. \A c \in Conns : life'[c] = life[c] /\ socket_'[c] = socket_[c]
    BY <1>2, StorageAssumption DEF Objects
  <2>2. \A r \in Sockets : life[r] = "alive" => life'[r] = "alive"
    BY <1>2 DEF Objects
  <2> QED
    BY <2>1, <2>2 DEF MoveSocket, ReceiverInv, ListenersLive
<1>9. BuffersOwned'
  <2>1. /\ \A r \in Sockets : r # s /\ r # n => socket_'[r] = socket_[r]
        /\ maxBuf_[n] = NullPtr /\ heap' = heap
    BY <1>2 DEF ReceiverInv, BuffersOwned, Objects, MoveSocket, memoryVars
  <2>2. \A r \in Sockets : socket_'[r] = NoSocket <=> maxBuf_'[r] = NullPtr
    BY <1>2, <1>3, <2>1 DEF ReceiverInv, BuffersOwned
  <2>3. \A r \in Sockets : maxBuf_'[r] # NullPtr => maxBuf_'[r] \in heap'
    BY <1>3, <2>1 DEF ReceiverInv, BuffersOwned
  <2>4. \A r, q \in Sockets : maxBuf_'[r] # NullPtr /\ maxBuf_'[r] = maxBuf_'[q] => r = q
    BY <1>3, <2>1 DEF ReceiverInv, BuffersOwned
  <2>5. \A k \in heap' : \E r \in Sockets : maxBuf_'[r] = k
    <3>1. \A k \in heap : k # NullPtr /\ \E r \in Sockets : maxBuf_[r] = k
      BY NullPtrAssumption DEF ReceiverInv, TypeOKReceiver, BuffersOwned
    <3> QED
      BY <1>3, <2>1, <3>1
  <2> QED
    BY <2>2, <2>3, <2>4, <2>5 DEF BuffersOwned
<1>10. TypeOKReceiver' /\ Domains'
  BY <1>2 DEF MoveSocket, ReceiverInv, TypeOKReceiver, Domains, callVars, memoryVars, handleVars, InCall
<1> QED
  BY <1>2, <1>5, <1>7, <1>8, <1>9, <1>10 DEF ReceiverInv

(* No call is on an object that may be destroyed, nor uses its flag, and   *)
(* no live connection points to it.                                        *)
LEMMA OwnedNotUsed ==
  ASSUME ReceiverInv, NEW o \in Objects, Owned(o), Borrowers(o) = {}
  PROVE  /\ \A t \in Threads : InCall(t) => self[t] # o /\ Guard(self[t]) # o
         /\ \A c \in Conns : life[c] = "alive" => ownedSocket_[c] # o
<1>1. \A c \in Conns : life[c] = "alive" => ownedSocket_[c] # o
  BY DEF Borrowers
<1>2. ASSUME NEW t \in Threads, InCall(t)
      PROVE  self[t] # o /\ Guard(self[t]) # o
  <2>1. self[t] # o
    BY <1>2 DEF Owned, Inside
  <2>2. self[t] \in Objects /\ life[self[t]] = "alive"
    BY <1>2, CallHasGuard
  <2> QED
    BY <1>1, <2>1, <2>2 DEF Guard, Objects
<1> QED
  BY <1>1, <1>2

(* An object that goes leaves the calls on the others undisturbed.         *)
LEMMA GoneUndisturbed ==
  ASSUME ReceiverInv, NEW o \in Objects, Owned(o), Borrowers(o) = {},
         life' = [life EXCEPT ![o] = "dead"],
         \A p \in Objects : p # o => socket_'[p] = socket_[p],
         \A s \in Sockets : s # o => maxBuf_'[s] = maxBuf_[s],
         UNCHANGED <<ownedSocket_, callVars, flagVars, buffer, terminated>>
  PROVE  /\ CallsOnLive' /\ ListenersLive' /\ OneCallPerFlag' /\ FlagHasHolder' /\ DataInHand'
         /\ life' \in [Objects -> {"unborn", "alive", "dead"}]
         /\ life'[o] = "dead" /\ \A p \in Objects : p # o => life'[p] = life[p]
<1>1. /\ \A t \in Threads : InCall(t) => self[t] # o /\ Guard(self[t]) # o
      /\ \A c \in Conns : life[c] = "alive" => ownedSocket_[c] # o
  BY OwnedNotUsed
<1>2. /\ life'[o] = "dead" /\ \A p \in Objects : p # o => life'[p] = life[p]
      /\ life' \in [Objects -> {"unborn", "alive", "dead"}]
  BY DEF ReceiverInv, TypeOKReceiver
<1>3. ASSUME NEW t \in Threads, InCall(t)
      PROVE  /\ life'[self[t]] = life[self[t]] /\ socket_'[self[t]] = socket_[self[t]]
             /\ Guard(self[t])' = Guard(self[t])
             /\ maxBuf_'[Guard(self[t])] = maxBuf_[Guard(self[t])]
  <2>1. self[t] \in Objects /\ Guard(self[t]) \in Sockets
    BY <1>3, CallHasGuard
  <2> QED
    BY <1>1, <1>2, <1>3, <2>1 DEF Guard, callVars
<1>4. /\ CallsOnLive' /\ OneCallPerFlag' /\ DataInHand'
      /\ \A s \in Sockets : Users(s)' = Users(s)
  BY <1>3, CallsUndisturbed
<1>5. FlagHasHolder'
  BY <1>4 DEF ReceiverInv, FlagHasHolder, Running, flagVars
<1>6. ListenersLive'
  BY <1>1, <1>2 DEF ReceiverInv, ListenersLive, Objects
<1> QED
  BY <1>2, <1>4, <1>5, <1>6

(* The destructor of an object without a socket.                           *)
LEMMA DestructEmptyKeeps ==
  ASSUME ReceiverInv, NEW o \in Objects, DestructEmpty(o)
  PROVE  ReceiverInv'
<1>1. /\ Owned(o) /\ Borrowers(o) = {} /\ socket_[o] = NoSocket
      /\ life' = [life EXCEPT ![o] = "dead"]
      /\ UNCHANGED <<socket_, maxBuf_, ownedSocket_, flagVars, callVars, terminated, heap, buffer,
                     open, inbox>>
  BY DEF DestructEmpty, memoryVars, handleVars
<1>2. /\ CallsOnLive' /\ ListenersLive' /\ OneCallPerFlag' /\ FlagHasHolder' /\ DataInHand'
      /\ life' \in [Objects -> {"unborn", "alive", "dead"}]
      /\ life'[o] = "dead" /\ \A p \in Objects : p # o => life'[p] = life[p]
  BY <1>1, GoneUndisturbed
<1>3. HandlesOwned'
  BY <1>1, <1>2 DEF ReceiverInv, HandlesOwned
<1>4. BuffersOwned'
  BY <1>1 DEF ReceiverInv, BuffersOwned
<1>5. TypeOKReceiver' /\ Domains'
  BY <1>1, <1>2 DEF ReceiverInv, TypeOKReceiver, Domains, flagVars, callVars, InCall
<1> QED
  BY <1>2, <1>3, <1>4, <1>5 DEF ReceiverInv

(* The closed handle was in no other object.                               *)
LEMMA ClosesHandleOwns ==
  ASSUME ReceiverInv, NEW o \in Objects, ClosesHandle(o)
  PROVE  /\ HandlesOwned'
         /\ Owned(o) /\ Borrowers(o) = {} /\ life' = [life EXCEPT ![o] = "dead"]
         /\ socket_[o] # NoSocket /\ socket_'[o] = NoSocket
         /\ \A p \in Objects : p # o => socket_'[p] = socket_[p]
         /\ socket_' \in [Objects -> Handles \cup {NoSocket}]
         /\ open' \subseteq Handles /\ DOMAIN inbox' = Handles
<1>1. /\ Owned(o) /\ Borrowers(o) = {} /\ life' = [life EXCEPT ![o] = "dead"]
      /\ socket_[o] \in open /\ open' = open \ {socket_[o]}
  BY DEF ClosesHandle
<1>2. /\ socket_'[o] = NoSocket
      /\ \A p \in Objects : p # o => socket_'[p] = socket_[p]
      /\ socket_' \in [Objects -> Handles \cup {NoSocket}]
      /\ open' \subseteq Handles /\ DOMAIN inbox' = Handles
  BY DEF ClosesHandle, ReceiverInv, TypeOKReceiver, Domains
<1>3. socket_[o] # NoSocket
  BY <1>1, HandlesAssumption DEF ReceiverInv, TypeOKReceiver
<1>4. \A p \in Objects : p # o => life'[p] = life[p]
  BY <1>1 DEF ReceiverInv, TypeOKReceiver
<1>5. HandlesOwned'
  <2>1. \A p \in Objects : socket_'[p] # NoSocket => life'[p] = "alive" /\ socket_'[p] \in open'
    BY <1>1, <1>2, <1>3, <1>4 DEF ReceiverInv, HandlesOwned
  <2>2. \A p, q \in Objects : socket_'[p] # NoSocket /\ socket_'[p] = socket_'[q] => p = q
    BY <1>2 DEF ReceiverInv, HandlesOwned
  <2>3. \A k \in open' : \E p \in Objects : socket_'[p] = k
    <3>1. \A k \in open' : \E p \in Objects : p # o /\ socket_[p] = k
      BY <1>1 DEF ReceiverInv, HandlesOwned
    <3> QED
      BY <1>2, <3>1
  <2> QED
    BY <2>1, <2>2, <2>3 DEF HandlesOwned
<1> QED
  BY <1>1, <1>2, <1>3, <1>5

(* The freed buffer was in no other socket.                                *)
LEMMA DestructSocketKeeps ==
  ASSUME ReceiverInv, NEW s \in Sockets, DestructSocket(s)
  PROVE  ReceiverInv'
<1>1. /\ s \in Objects /\ ClosesHandle(s)
      /\ heap' = heap \ {maxBuf_[s]} /\ maxBuf_' = [maxBuf_ EXCEPT ![s] = NullPtr]
      /\ UNCHANGED <<ownedSocket_, flagVars, callVars, terminated, buffer>>
  BY DEF DestructSocket, Objects
<1>2. /\ HandlesOwned'
      /\ Owned(s) /\ Borrowers(s) = {} /\ life' = [life EXCEPT ![s] = "dead"]
      /\ socket_[s] # NoSocket /\ socket_'[s] = NoSocket
      /\ \A p \in Objects : p # s => socket_'[p] = socket_[p]
      /\ socket_' \in [Objects -> Handles \cup {NoSocket}]
      /\ open' \subseteq Handles /\ DOMAIN inbox' = Handles
  BY <1>1, ClosesHandleOwns
<1>3. /\ maxBuf_'[s] = NullPtr
      /\ \A r \in Sockets : r # s => maxBuf_'[r] = maxBuf_[r]
  BY <1>1 DEF ReceiverInv, TypeOKReceiver
<1>4. /\ CallsOnLive' /\ ListenersLive' /\ OneCallPerFlag' /\ FlagHasHolder' /\ DataInHand'
      /\ life' \in [Objects -> {"unborn", "alive", "dead"}]
  BY <1>1, <1>2, <1>3, GoneUndisturbed
<1>5. BuffersOwned'
  <2>1. \A r \in Sockets : r # s => socket_'[r] = socket_[r]
    BY <1>2 DEF Objects
  <2>2. \A r \in Sockets : socket_'[r] = NoSocket <=> maxBuf_'[r] = NullPtr
    BY <1>2, <1>3, <2>1 DEF ReceiverInv, BuffersOwned
  <2>3. \A r \in Sockets : maxBuf_'[r] # NullPtr => maxBuf_'[r] \in heap'
    BY <1>1, <1>3 DEF ReceiverInv, BuffersOwned
  <2>4. \A r, q \in Sockets : maxBuf_'[r] # NullPtr /\ maxBuf_'[r] = maxBuf_'[q] => r = q
    BY <1>3 DEF ReceiverInv, BuffersOwned
  <2>5. \A k \in heap' : \E r \in Sockets : maxBuf_'[r] = k
    <3>1. \A k \in heap' : \E r \in Sockets : r # s /\ maxBuf_[r] = k
      BY <1>1 DEF ReceiverInv, BuffersOwned
    <3> QED
      BY <1>3, <3>1
  <2> QED
    BY <2>2, <2>3, <2>4, <2>5 DEF BuffersOwned
<1>6. TypeOKReceiver' /\ Domains'
  BY <1>1, <1>2, <1>4 DEF ReceiverInv, TypeOKReceiver, Domains, flagVars, callVars, InCall
<1> QED
  BY <1>2, <1>4, <1>5, <1>6 DEF ReceiverInv

-------------------------------------------------------------------------------
(* The invariant to begin with, and what follows from it.                  *)

(* Nothing exists and no call is under way.                                *)
LEMMA InitReceiverInv == InitReceiver => ReceiverInv
<1> SUFFICES ASSUME InitReceiver PROVE ReceiverInv
  OBVIOUS
<1> USE DEF InitReceiver
<1>1. \A t \in Threads : ~InCall(t) /\ pc[t] = "idle"
  BY DEF InCall
<1>2. TypeOKReceiver
  <2>1. /\ life \in [Objects -> {"unborn", "alive", "dead"}]
        /\ socket_ \in [Objects -> Handles \cup {NoSocket}]
        /\ maxBuf_ \in [Sockets -> Buffers \cup {NullPtr}]
        /\ ownedSocket_ \in [Conns -> Sockets \cup {Nobody}]
    OBVIOUS
  <2>2. /\ receiverInUse_ \in [Sockets -> BOOLEAN] /\ failed \in [Sockets -> BOOLEAN]
        /\ pc \in [Threads -> {"idle", "recv", "copy", "store"}]
        /\ self \in [Threads -> Objects \cup {Nobody}]
    OBVIOUS
  <2> QED
    BY <1>1, <2>1, <2>2, StorageAssumption DEF TypeOKReceiver
<1>3. Domains /\ CallsOnLive /\ ListenersLive /\ OneCallPerFlag
  BY <1>1 DEF Domains, CallsOnLive, ListenersLive, OneCallPerFlag, Objects
<1>4. FlagHasHolder
  BY <1>1 DEF FlagHasHolder, Users
<1>5. HandlesOwned /\ BuffersOwned /\ DataInHand
  BY <1>1 DEF HandlesOwned, BuffersOwned, DataInHand, Objects
<1> QED
  BY <1>2, <1>3, <1>4, <1>5 DEF ReceiverInv

(* Different flags belong to different sockets, which have different       *)
(* buffers.                                                                *)
LEMMA InvExclusiveBuffer == ReceiverInv => ExclusiveBuffer
<1> SUFFICES ASSUME ReceiverInv, NEW t \in Threads, NEW u \in Threads,
                    t # u, InCall(t), InCall(u)
             PROVE  /\ Guard(self[t]) # Guard(self[u])
                    /\ BufferOf(t) # BufferOf(u) \/ BufferOf(t) = NullPtr
  BY DEF ExclusiveBuffer
<1>1. Guard(self[t]) \in Sockets /\ Guard(self[u]) \in Sockets
  BY CallHasGuard
<1>2. Guard(self[t]) # Guard(self[u])
  BY DEF ReceiverInv, OneCallPerFlag
<1> QED
  BY <1>1, <1>2 DEF ReceiverInv, BuffersOwned, BufferOf

(* Who owns a handle or a buffer, said with sets.                          *)
LEMMA InvHandleOwnership == ReceiverInv => HandleOwnership
<1> SUFFICES ASSUME ReceiverInv PROVE HandleOwnership
  OBVIOUS
<1> DEFINE Live == { o \in Objects : life[o] = "alive" }
<1> USE DEF ReceiverInv, HandlesOwned, BuffersOwned
<1>1. ASSUME NEW h \in open
      PROVE  \E o \in Objects : { p \in Live : socket_[p] = h } = {o}
  <2>1. h # NoSocket
    BY HandlesAssumption DEF TypeOKReceiver
  <2>2. PICK o \in Objects : socket_[o] = h
    BY <1>1
  <2>3. o \in Live
    BY <2>1, <2>2
  <2>4. \A p \in Live : socket_[p] = h => p = o
    BY <2>1, <2>2
  <2> QED
    BY <2>2, <2>3, <2>4
<1>2. ASSUME NEW b \in heap
      PROVE  \E s \in Sockets : { p \in Live \cap Sockets : maxBuf_[p] = b } = {s}
  <2>1. b # NullPtr
    BY NullPtrAssumption DEF TypeOKReceiver
  <2>2. PICK s \in Sockets : maxBuf_[s] = b
    BY <1>2
  <2>3. s \in Live \cap Sockets
    BY <2>1, <2>2 DEF Objects
  <2>4. \A p \in Live \cap Sockets : maxBuf_[p] = b => p = s
    BY <2>1, <2>2
  <2> QED
    BY <2>2, <2>3, <2>4
<1>3. \A o \in Live : socket_[o] # NoSocket => socket_[o] \in open
  OBVIOUS
<1>4. \A s \in Live \cap Sockets :
        IF socket_[s] = NoSocket THEN maxBuf_[s] = NullPtr ELSE maxBuf_[s] \in heap
  OBVIOUS
<1> QED
  BY <1>1, <1>2, <1>3, <1>4 DEF HandleOwnership

-------------------------------------------------------------------------------
(* Lemmas about sequences.                                                 *)

(* A sequence with one element put before it.                              *)
LEMMA HeadThenTail ==
  ASSUME NEW S, NEW s \in Seq(S), s # <<>>
  PROVE  <<Head(s)>> \o Tail(s) = s
<1>1. Head(s) \in S /\ Tail(s) \in Seq(S) /\ Len(Tail(s)) = Len(s) - 1 /\ Len(s) \in Nat \ {0}
  OBVIOUS
<1>2. <<Head(s)>> \o Tail(s) \in Seq(S) /\ Len(<<Head(s)>> \o Tail(s)) = Len(s)
  BY <1>1
<1>3. \A i \in 1 .. Len(s) : (<<Head(s)>> \o Tail(s))[i] = s[i]
  BY <1>1
<1> QED
  BY <1>2, <1>3, SeqEqual

(* What is put before a sequence is its head, and appending to the         *)
(* sequence appends to the whole.                                          *)
LEMMA Prefixed ==
  ASSUME NEW S, NEW s \in Seq(S), NEW x \in S, NEW y \in S
  PROVE  /\ <<x>> \o s # <<>> /\ Head(<<x>> \o s) = x /\ Tail(<<x>> \o s) = s
         /\ <<x>> \o Append(s, y) = Append(<<x>> \o s, y)
<1>1. /\ <<x>> \o s \in Seq(S) /\ Len(<<x>> \o s) = Len(s) + 1 /\ Len(s) \in Nat
      /\ (<<x>> \o s)[1] = x
      /\ \A i \in 1 .. Len(s) : (<<x>> \o s)[i + 1] = s[i]
  OBVIOUS
<1>2. <<x>> \o s # <<>> /\ Head(<<x>> \o s) = x
  BY <1>1
<1>3. Tail(<<x>> \o s) = s
  <2>1. Tail(<<x>> \o s) \in Seq(S) /\ Len(Tail(<<x>> \o s)) = Len(s)
    BY <1>1, <1>2
  <2>2. \A i \in 1 .. Len(s) : Tail(<<x>> \o s)[i] = s[i]
    BY <1>1, <1>2
  <2> QED
    BY <2>1, <2>2, SeqEqual
<1>4. <<x>> \o Append(s, y) = Append(<<x>> \o s, y)
  <2>1. /\ <<x>> \o Append(s, y) \in Seq(S) /\ Append(<<x>> \o s, y) \in Seq(S)
        /\ Len(<<x>> \o Append(s, y)) = Len(s) + 2 /\ Len(Append(<<x>> \o s, y)) = Len(s) + 2
    BY <1>1
  <2>2. \A i \in 1 .. Len(s) + 2 : (<<x>> \o Append(s, y))[i] = Append(<<x>> \o s, y)[i]
    BY <1>1
  <2> QED
    BY <2>1, <2>2, SeqEqual
<1> QED
  BY <1>2, <1>3, <1>4

(* What is moved from the head of one sequence to the end of another keeps *)
(* its place in the two together.                                          *)
LEMMA MovedOver ==
  ASSUME NEW S, NEW r \in Seq(S), NEW s \in Seq(S), s # <<>>
  PROVE  (r \o <<Head(s)>>) \o Tail(s) = r \o s
<1>1. <<Head(s)>> \in Seq(S) /\ Tail(s) \in Seq(S)
  OBVIOUS
<1>2. <<Head(s)>> \o Tail(s) = s
  BY HeadThenTail
<1> QED
  BY <1>1, <1>2, ConcatAssociative

(* Appending to the second part of a sequence appends to the whole.        *)
LEMMA AppendedOver ==
  ASSUME NEW S, NEW r \in Seq(S), NEW s \in Seq(S), NEW x \in S
  PROVE  r \o Append(s, x) = Append(r \o s, x)
<1>1. <<x>> \in Seq(S) /\ r \o s \in Seq(S)
  OBVIOUS
<1>2. Append(s, x) = s \o <<x>> /\ Append(r \o s, x) = (r \o s) \o <<x>>
  BY <1>1, AppendIsConcat
<1> QED
  BY <1>1, <1>2, ConcatAssociative
===============================================================================
