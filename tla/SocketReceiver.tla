--------------------------- MODULE SocketReceiver ---------------------------
(***************************************************************************)
(* What UdpSocket, TcpSocket and TcpSocket::AcceptedConnection share       *)
(* (udp.cpp, tcp.cpp): C++ objects that own a handle, a receive buffer and *)
(* the atomic flag receiverInUse_ that guards the buffer, and the calls    *)
(* receiveFrom(), receive() and read().  An AcceptedConnection borrows     *)
(* buffer and flag from the TcpSocket it points to; UDP has none.          *)
(*                                                                         *)
(* A receiving call is one action per access to something another thread   *)
(* or the kernel can touch.  The actions here say what these variables do; *)
(* UdpSocket and TcpSocket extend them with variables of their own.        *)
(*                                                                         *)
(* Objects are moved and destroyed by their owner, which may be any        *)
(* thread, but not while a call on them is under way, and a socket is      *)
(* destroyed after the connections that point to it: C++ leaves the rest   *)
(* undefined.  A socket may be moved while connections point to it, when   *)
(* none of them is being read.                                             *)
(***************************************************************************)
EXTENDS Integers, Sequences

CONSTANTS
  Threads,
  Sockets,            (* storage for socket objects, each used once *)
  Conns,              (* storage for AcceptedConnection objects, each used once *)
  Handles,            (* what socket() and accept() may return *)
  Buffers,            (* what new char[MAX_IPV4_UDP_SIZE] may return *)
  NullPtr,
  NoData,
  Eof,                (* recv() returned 0: the peer has closed *)
  Nobody

Objects == Sockets \cup Conns

\* The code takes the value 0 of socket_ to mean "no socket".
NoSocket == 0

ASSUME HandlesAssumption == NoSocket \notin Handles
ASSUME StorageAssumption == Sockets \cap Conns = {} /\ Nobody \notin Objects
ASSUME NullPtrAssumption == NullPtr \notin Buffers
ASSUME EofAssumption == NoData # Eof

VARIABLES
  \* the objects
  life,               (* "unborn", "alive" or "dead" *)
  socket_,
  maxBuf_,            (* of a socket *)
  ownedSocket_,       (* of a connection: the socket that accepted it *)
  receiverInUse_,     (* of a socket *)
  failed,             (* ghost: a call that had set this flag ended in an error *)
  \* the threads
  pc,                 (* in a receiving call: "recv", "copy", "store"; or "idle" *)
  self,               (* the object the call is on *)
  got,                (* ghost: what recv() gave this call *)
  copied,             (* the copy the call returns *)
  \* the process
  terminated,         (* "no", or the check that called std::terminate(),
                         or "signal" *)
  heap,               (* the buffers allocated *)
  buffer,             (* what each holds *)
  \* the kernel
  open,               (* the handles that are open *)
  inbox               (* what each has received for the program to read *)

ownerVars == <<life, socket_, maxBuf_, ownedSocket_>>
flagVars == <<receiverInUse_, failed>>
callVars == <<pc, self, got, copied>>
memoryVars == <<heap, buffer>>
handleVars == <<open, inbox>>
receiverVars == <<ownerVars, flagVars, callVars, terminated, memoryVars, handleVars>>

InitReceiver ==
  /\ life = [o \in Objects |-> "unborn"]
  /\ socket_ = [o \in Objects |-> NoSocket]
  /\ maxBuf_ = [s \in Sockets |-> NullPtr]
  /\ ownedSocket_ = [c \in Conns |-> Nobody]
  /\ receiverInUse_ = [s \in Sockets |-> FALSE]
  /\ failed = [s \in Sockets |-> FALSE]
  /\ pc = [t \in Threads |-> "idle"]
  /\ self = [t \in Threads |-> Nobody]
  /\ got = [t \in Threads |-> NoData]
  /\ copied = [t \in Threads |-> NoData]
  /\ terminated = "no"
  /\ heap = {}
  /\ buffer = [b \in Buffers |-> NoData]
  /\ open = {}
  /\ inbox = [h \in Handles |-> <<>>]

Running == terminated = "no"
InCall(t) == pc[t] # "idle"
Usable(o) == Running /\ life[o] = "alive" /\ socket_[o] # NoSocket

(* The socket whose buffer and flag a call on o uses.                      *)
Guard(o) == IF o \in Sockets THEN o ELSE ownedSocket_[o]
BufferOf(t) == maxBuf_[Guard(self[t])]

(* The calls under way on an object, and those that use a socket's buffer. *)
Inside(o) == { t \in Threads : InCall(t) /\ self[t] = o }
Users(s) == { t \in Threads : InCall(t) /\ Guard(self[t]) = s }

Borrowers(s) == { c \in Conns : life[c] = "alive" /\ ownedSocket_[c] = s }
Owned(o) == Running /\ life[o] = "alive" /\ Inside(o) = {}

-------------------------------------------------------------------------------
(* Construction, move and destruction, by the object's owner.              *)

\* Mutant: the result of socket() is not tested, -1 is kept as a handle.
ConstructUnchecked(s) ==
  /\ Running
  /\ life[s] = "unborn"
  /\ life' = [life EXCEPT ![s] = "alive"]
  /\ socket_' = [socket_ EXCEPT ![s] = -1]
  /\ UNCHANGED <<maxBuf_, ownedSocket_, flagVars, callVars, terminated, memoryVars, handleVars>>

(* The constructor terminates when socket() fails or there is no memory.   *)
ConstructFails(s) ==
  /\ Running
  /\ life[s] = "unborn"
  /\ terminated' = "socket"
  /\ UNCHANGED <<ownerVars, flagVars, callVars, memoryVars, handleVars>>

(* An object gets the handle h.                                            *)
TakesHandle(o, h) ==
  /\ life[o] = "unborn"
  /\ life' = [life EXCEPT ![o] = "alive"]
  /\ h \notin open
  /\ open' = open \cup {h}
  /\ socket_' = [socket_ EXCEPT ![o] = h]

(* The constructor: a handle, a buffer, the flag clear.                    *)
Construct(s, h) ==
  /\ Running
  /\ TakesHandle(s, h)
  /\ \E b \in Buffers \ heap :
       /\ heap' = heap \cup {b}
       /\ maxBuf_' = [maxBuf_ EXCEPT ![s] = b]
  /\ receiverInUse_' = [receiverInUse_ EXCEPT ![s] = FALSE]
  /\ UNCHANGED <<ownedSocket_, failed, callVars, terminated, buffer, inbox>>

\* Mutant: the moved-from object keeps its handle.
MovedFromKeepsHandle(o) == socket_[o]

(* What a move constructor leaves in the socket_ of its source.            *)
MovedFromSocket(o) == NoSocket

MovesHandle(o, n) ==
  /\ Owned(o)
  /\ life[n] = "unborn"
  /\ life' = [life EXCEPT ![n] = "alive"]
  /\ socket_' = [socket_ EXCEPT ![n] = socket_[o], ![o] = MovedFromSocket(o)]

(* The move constructor of a socket; connections of s still point to s.    *)
MoveSocket(s, n) ==
  /\ MovesHandle(s, n)
  /\ Users(s) = {}
  /\ maxBuf_' = [maxBuf_ EXCEPT ![n] = maxBuf_[s], ![s] = NullPtr]
  /\ receiverInUse_' = [receiverInUse_ EXCEPT ![n] = receiverInUse_[s], ![s] = FALSE]
  /\ failed' = [failed EXCEPT ![n] = failed[s], ![s] = FALSE]
  /\ UNCHANGED <<ownedSocket_, callVars, terminated, memoryVars, handleVars>>

(* The destructor of an object without a socket has nothing to do.         *)
DestructEmpty(o) ==
  /\ Owned(o) /\ Borrowers(o) = {}
  /\ socket_[o] = NoSocket
  /\ life' = [life EXCEPT ![o] = "dead"]
  /\ UNCHANGED <<socket_, maxBuf_, ownedSocket_, flagVars, callVars, terminated, memoryVars,
                 handleVars>>

ClosesHandle(o) ==
  /\ Owned(o) /\ Borrowers(o) = {}
  /\ socket_[o] \in open
  /\ life' = [life EXCEPT ![o] = "dead"]
  /\ open' = open \ {socket_[o]}
  /\ inbox' = [inbox EXCEPT ![socket_[o]] = <<>>]
  /\ socket_' = [socket_ EXCEPT ![o] = NoSocket]

(* The destructor of a socket closes its handle and frees its buffer.      *)
DestructSocket(s) ==
  /\ ClosesHandle(s)
  /\ heap' = heap \ {maxBuf_[s]}
  /\ maxBuf_' = [maxBuf_ EXCEPT ![s] = NullPtr]
  /\ UNCHANGED <<ownedSocket_, flagVars, callVars, terminated, buffer>>

(* close() may fail in a destructor, and does so for a handle that is not  *)
(* open: the program terminates.                                           *)
CloseFails(o) ==
  /\ Owned(o) /\ Borrowers(o) = {}
  /\ socket_[o] # NoSocket
  /\ terminated' = "close"
  /\ UNCHANGED <<ownerVars, flagVars, callVars, memoryVars, handleVars>>

-------------------------------------------------------------------------------
(* receiveFrom(), receive() and read().                                    *)

\* Mutant: the flag is tested and set in two steps: a thread may test it
\* when another has tested it and not yet gone on.
TestThenSet(s) == receiverInUse_[s] /\ \A t \in Users(s) : pc[t] # "recv"

(* The result of receiverInUse_.exchange(true).                            *)
PreviouslyInUse(s) == receiverInUse_[s]

Exchange(t, o) ==
  /\ Usable(o)
  /\ pc[t] = "idle"
  /\ receiverInUse_' = [receiverInUse_ EXCEPT ![Guard(o)] = TRUE]
  /\ IF PreviouslyInUse(Guard(o))
     THEN terminated' = "receiver" /\ UNCHANGED <<pc, self>>
     ELSE /\ pc' = [pc EXCEPT ![t] = "recv"]
          /\ self' = [self EXCEPT ![t] = o]
          /\ UNCHANGED terminated
  /\ UNCHANGED <<ownerVars, failed, got, copied, memoryVars, handleVars>>

(* recv() or recvfrom() blocks until there is something to read, and       *)
(* writes it to the buffer.  It fails if there is no buffer (the socket    *)
(* that a connection points to was moved).                                 *)
Recv(t) ==
  LET h == socket_[self[t]] IN
  /\ Running
  /\ pc[t] = "recv"
  /\ BufferOf(t) # NullPtr
  /\ inbox[h] # <<>>
  /\ buffer' = [buffer EXCEPT ![BufferOf(t)] = Head(inbox[h])]
  /\ got' = [got EXCEPT ![t] = Head(inbox[h])]
  /\ inbox' = [inbox EXCEPT ![h] = Tail(inbox[h])]
  /\ pc' = [pc EXCEPT ![t] = "copy"]
  /\ UNCHANGED <<ownerVars, flagVars, self, copied, terminated, heap, open>>

(* The call ends in an error and leaves the flag as it is.                 *)
LeavesFlag(t) ==
  /\ Running
  /\ failed' = [failed EXCEPT ![Guard(self[t])] = TRUE]
  /\ pc' = [pc EXCEPT ![t] = "idle"]
  /\ self' = [self EXCEPT ![t] = Nobody]
  /\ got' = [got EXCEPT ![t] = NoData]
  /\ UNCHANGED <<ownerVars, receiverInUse_, copied, terminated, memoryVars, handleVars>>

(* recv() may fail at any time (a signal, an error of the network).        *)
RecvFails(t) == pc[t] = "recv" /\ LeavesFlag(t)

(* There is no memory for the copy: new throws, and what was received is   *)
(* lost.                                                                   *)
CopyThrows(t) == pc[t] = "copy" /\ LeavesFlag(t)

(* memcpy of bytesIn bytes, none at the end of a stream.                   *)
CopyOut(t) ==
  /\ Running
  /\ pc[t] = "copy"
  /\ copied' = [copied EXCEPT ![t] = IF got[t] = Eof THEN Eof ELSE buffer[BufferOf(t)]]
  /\ pc' = [pc EXCEPT ![t] = "store"]
  /\ UNCHANGED <<ownerVars, flagVars, self, got, terminated, memoryVars, handleVars>>

\* Mutant: the flag is not cleared on the way out.
KeepsFlag == TRUE

FlagAtReturn == FALSE

(* receiverInUse_.store(false), and the call returns its copy.             *)
StoreAndReturn(t) ==
  /\ Running
  /\ pc[t] = "store"
  /\ receiverInUse_' = [receiverInUse_ EXCEPT ![Guard(self[t])] = FlagAtReturn]
  /\ pc' = [pc EXCEPT ![t] = "idle"]
  /\ self' = [self EXCEPT ![t] = Nobody]
  /\ got' = [got EXCEPT ![t] = NoData]
  /\ copied' = [copied EXCEPT ![t] = NoData]
  /\ UNCHANGED <<ownerVars, failed, terminated, memoryVars, handleVars>>

-------------------------------------------------------------------------------
(* The types of the variables; a thread is on an object while in a call.   *)
TypeOKReceiver ==
  /\ life \in [Objects -> {"unborn", "alive", "dead"}]
  /\ socket_ \in [Objects -> Handles \cup {NoSocket}]
  /\ maxBuf_ \in [Sockets -> Buffers \cup {NullPtr}]
  /\ ownedSocket_ \in [Conns -> Sockets \cup {Nobody}]
  /\ receiverInUse_ \in [Sockets -> BOOLEAN]
  /\ failed \in [Sockets -> BOOLEAN]
  /\ pc \in [Threads -> {"idle", "recv", "copy", "store"}]
  /\ self \in [Threads -> Objects \cup {Nobody}]
  /\ \A t \in Threads : InCall(t) <=> self[t] \in Objects
  /\ terminated \in {"no", "socket", "close", "receiver", "select", "signal"}
  /\ heap \subseteq Buffers
  /\ open \subseteq Handles

(* No two calls use one flag or one buffer, whatever objects they are made *)
(* on: the exchange excludes them, and a move hands both on.               *)
ExclusiveBuffer ==
  \A t, u \in Threads :
    t # u /\ InCall(t) /\ InCall(u) =>
      /\ Guard(self[t]) # Guard(self[u])
      /\ BufferOf(t) # BufferOf(u) \/ BufferOf(t) = NullPtr

(* The open handles and the allocated buffers belong to exactly one live   *)
(* object each, and a live socket has both or neither: nothing leaks,      *)
(* nothing is closed or freed twice.                                       *)
HandleOwnership ==
  LET Live == { o \in Objects : life[o] = "alive" }
  IN  /\ \A h \in open : \E o \in Objects : { p \in Live : socket_[p] = h } = {o}
      /\ \A b \in heap : \E s \in Sockets : { p \in Live \cap Sockets : maxBuf_[p] = b } = {s}
      /\ \A o \in Live : socket_[o] # NoSocket => socket_[o] \in open
      /\ \A s \in Live \cap Sockets :
           IF socket_[s] = NoSocket THEN maxBuf_[s] = NullPtr ELSE maxBuf_[s] \in heap

(* A call under way has the flag it uses set; and a flag is set only by a  *)
(* call under way, or by one that ended in an error.                       *)
FlagHasHolder ==
  \A s \in Sockets :
    /\ Users(s) # {} => receiverInUse_[s]
    /\ receiverInUse_[s] /\ Running => Users(s) # {} \/ failed[s]
===============================================================================
