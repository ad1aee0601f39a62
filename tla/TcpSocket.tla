------------------------------ MODULE TcpSocket ------------------------------
(***************************************************************************)
(* net::TcpSocket and TcpSocket::AcceptedConnection (tcp.cpp): sockets,    *)
(* the connections they accept, and the peers that connect, send and close. *)
(* Construction, the sockets' moves and destruction, and the steps of      *)
(* receive() and read() are SocketReceiver's.                              *)
(***************************************************************************)
EXTENDS SocketReceiver, Functions

CONSTANTS
  MessageSize,        (* of what send() and write() are called with *)
  MaxSent,            (* bound: chunks a peer sends on one connection *)
  MaxWrites           (* bound: messages sent on the open handles *)

ASSUME ChunkAssumption == {NoData, Eof} \cap (Handles \X Nat) = {}
ASSUME SizesAssumption == MessageSize \in Nat /\ MaxSent \in Nat

VARIABLES
  state,              (* of an open handle: "fresh", "bound", "listening"
                         or "connected" *)
  backlog,            (* connections a listening handle has to be accepted *)
  sent,               (* how much the peer of a handle has sent *)
  hungUp,             (* the peer has closed *)
  ended,              (* ghost: what calls on a handle have returned or lost *)
  reported,           (* ghost: messages whose send() or write() succeeded *)
  taken               (* how much of those messages the kernel has taken *)

peerVars == <<backlog, sent, hungUp>>
sendVars == <<reported, taken>>
tcpVars == <<state, peerVars, ended, sendVars>>
vars == <<receiverVars, tcpVars>>

(* A chunk of a stream: the handle and its number; a recv() returns one.   *)
Chunk == Handles \X (1 .. MaxSent)

Init ==
  /\ InitReceiver
  /\ state = [h \in Handles |-> "fresh"]
  /\ backlog = [h \in Handles |-> 0]
  /\ sent = [h \in Handles |-> 0]
  /\ hungUp = [h \in Handles |-> FALSE]
  /\ ended = [h \in Handles |-> <<>>]
  /\ reported = [h \in Handles |-> 0]
  /\ taken = [h \in Handles |-> 0]

(* The kernel's state of a handle begins (or is forgotten).                *)
Reset(h, st) ==
  /\ state' = [state EXCEPT ![h] = st]
  /\ sent' = [sent EXCEPT ![h] = 0]
  /\ hungUp' = [hungUp EXCEPT ![h] = FALSE]
  /\ ended' = [ended EXCEPT ![h] = <<>>]
  /\ reported' = [reported EXCEPT ![h] = 0]
  /\ taken' = [taken EXCEPT ![h] = 0]

Closed(h) == Reset(h, "fresh") /\ backlog' = [backlog EXCEPT ![h] = 0]

-------------------------------------------------------------------------------
(* TcpSocket objects.                                                      *)

Create(s) == \E h \in Handles : Construct(s, h) /\ Closed(h)
CreateFails(s) == ConstructFails(s) /\ UNCHANGED tcpVars
Move(s, n) == MoveSocket(s, n) /\ UNCHANGED tcpVars

Destroy(s) ==
  \/ (DestructEmpty(s) \/ CloseFails(s)) /\ UNCHANGED tcpVars
  \/ DestructSocket(s) /\ Closed(socket_[s])

(* bindAndListen(): when listen() fails after bind() the socket stays      *)
(* bound, and a later call fails in bind().  An error of bind() changes    *)
(* nothing.                                                                *)
BindAndListen(s) ==
  /\ Usable(s)
  /\ state[socket_[s]] = "fresh"
  /\ \E st \in {"bound", "listening"} : state' = [state EXCEPT ![socket_[s]] = st]
  /\ UNCHANGED <<receiverVars, peerVars, ended, sendVars>>

(* connect(), also of a socket left bound; its error (as for any other     *)
(* state) changes nothing.                                                 *)
Connect(s) ==
  /\ Usable(s)
  /\ state[socket_[s]] \in {"fresh", "bound"}
  /\ state' = [state EXCEPT ![socket_[s]] = "connected"]
  /\ UNCHANGED <<receiverVars, peerVars, ended, sendVars>>

(* accept() blocks until a peer has connected.  Its error changes nothing. *)
Accept(s, c) ==
  /\ Usable(s)
  /\ backlog[socket_[s]] > 0
  /\ \E h \in Handles : TakesHandle(c, h) /\ Reset(h, "connected")
  /\ backlog' = [backlog EXCEPT ![socket_[s]] = @ - 1]
  /\ ownedSocket_' = [ownedSocket_ EXCEPT ![c] = s]
  /\ UNCHANGED <<maxBuf_, flagVars, callVars, terminated, memoryVars, inbox>>

-------------------------------------------------------------------------------
(* AcceptedConnection objects.                                             *)

MoveConn(c, d) ==
  /\ MovesHandle(c, d)
  /\ ownedSocket_' = [ownedSocket_ EXCEPT ![d] = ownedSocket_[c], ![c] = Nobody]
  /\ UNCHANGED <<maxBuf_, flagVars, callVars, terminated, memoryVars, handleVars, tcpVars>>

DestroyConn(c) ==
  \/ (DestructEmpty(c) \/ CloseFails(c)) /\ UNCHANGED tcpVars
  \/ /\ ClosesHandle(c)
     /\ Closed(socket_[c])
     /\ UNCHANGED <<maxBuf_, ownedSocket_, flagVars, callVars, terminated, memoryVars>>

-------------------------------------------------------------------------------
(* TcpSocket::receive() and AcceptedConnection::read().                    *)

Enter(t, o) == Exchange(t, o) /\ UNCHANGED tcpVars
Receive(t) == Recv(t) /\ UNCHANGED tcpVars

ReceiveEof(t) ==
  LET h == socket_[self[t]] IN
  /\ Running
  /\ pc[t] = "recv"
  /\ inbox[h] = <<>> /\ hungUp[h]
  /\ got' = [got EXCEPT ![t] = Eof]
  /\ pc' = [pc EXCEPT ![t] = "copy"]
  /\ UNCHANGED <<ownerVars, flagVars, self, copied, terminated, memoryVars, handleVars, tcpVars>>

ReceiveFails(t) == RecvFails(t) /\ UNCHANGED tcpVars
Copy(t) == CopyOut(t) /\ UNCHANGED tcpVars

Ends(t, chunk) ==
  /\ ended' = IF chunk = Eof THEN ended ELSE [ended EXCEPT ![socket_[self[t]]] = Append(@, chunk)]
  /\ UNCHANGED <<state, peerVars, sendVars>>

CopyFails(t) == CopyThrows(t) /\ Ends(t, got[t])
Return(t) == StoreAndReturn(t) /\ Ends(t, copied[t])

-------------------------------------------------------------------------------
(* TcpSocket::send() and AcceptedConnection::write().                      *)

Writes == FoldFunction(+, 0, reported)

(* ::send() takes the message or a part of it (a signal interrupts it      *)
(* half-way); both are reported as success.  Its other errors change       *)
(* nothing.                                                                *)
HandsOver(o) ==
  /\ Usable(o)
  /\ state[socket_[o]] = "connected"
  /\ Writes < MaxWrites
  /\ reported' = [reported EXCEPT ![socket_[o]] = @ + 1]
  /\ \E n \in 1 .. MessageSize : taken' = [taken EXCEPT ![socket_[o]] = @ + n]
  /\ UNCHANGED <<receiverVars, state, peerVars, ended>>

(* With flags 0, ::send() to a peer that has closed may raise SIGPIPE,     *)
(* which nothing handles: the program ends.                                *)
BreaksPipe(o) ==
  /\ Usable(o)
  /\ state[socket_[o]] = "connected" /\ hungUp[socket_[o]]
  /\ terminated' = "signal"
  /\ UNCHANGED <<ownerVars, flagVars, callVars, memoryVars, handleVars, tcpVars>>

Send(s) == HandsOver(s) \/ BreaksPipe(s)
Write(c) == HandsOver(c) \/ BreaksPipe(c)

-------------------------------------------------------------------------------
(* The peers: they connect to a listening handle, send and close.          *)

PeerConnects(h) ==
  /\ Running
  /\ state[h] = "listening"
  /\ backlog[h] = 0
  /\ backlog' = [backlog EXCEPT ![h] = 1]
  /\ UNCHANGED <<receiverVars, state, sent, hungUp, ended, sendVars>>

PeerSends(h) ==
  /\ Running
  /\ state[h] = "connected" /\ ~hungUp[h]
  /\ sent[h] < MaxSent
  /\ sent' = [sent EXCEPT ![h] = @ + 1]
  /\ inbox' = [inbox EXCEPT ![h] = Append(@, <<h, sent[h] + 1>>)]
  /\ UNCHANGED <<ownerVars, flagVars, callVars, terminated, memoryVars, open, state, backlog,
                 hungUp, ended, sendVars>>

PeerHangsUp(h) ==
  /\ Running
  /\ state[h] = "connected" /\ ~hungUp[h]
  /\ hungUp' = [hungUp EXCEPT ![h] = TRUE]
  /\ UNCHANGED <<receiverVars, state, backlog, sent, ended, sendVars>>

Ended ==
  /\ ~Running \/ \A o \in Objects : life[o] # "alive"
  /\ UNCHANGED vars

Next ==
  \/ \E s \in Sockets : \/ Create(s) \/ CreateFails(s) \/ Destroy(s)
                        \/ BindAndListen(s) \/ Connect(s) \/ Send(s)
  \/ \E s, n \in Sockets : Move(s, n)
  \/ \E s \in Sockets, c \in Conns : Accept(s, c)
  \/ \E c, d \in Conns : MoveConn(c, d)
  \/ \E c \in Conns : DestroyConn(c) \/ Write(c)
  \/ \E t \in Threads, o \in Objects : Enter(t, o)
  \/ \E t \in Threads : \/ Receive(t) \/ ReceiveEof(t) \/ ReceiveFails(t)
                        \/ Copy(t) \/ CopyFails(t) \/ Return(t)
  \/ \E h \in Handles : PeerConnects(h) \/ PeerSends(h) \/ PeerHangsUp(h)
  \/ Ended

Spec == Init /\ [][Next]_vars

-------------------------------------------------------------------------------
(* The types of the variables.                                             *)
TypeOK ==
  /\ TypeOKReceiver
  /\ got \in [Threads -> Chunk \cup {NoData, Eof}]
  /\ copied \in [Threads -> Chunk \cup {NoData, Eof}]
  /\ buffer \in [Buffers -> Chunk \cup {NoData}]
  /\ inbox \in [Handles -> Seq(Chunk)]
  /\ state \in [Handles -> {"fresh", "bound", "listening", "connected"}]
  /\ backlog \in [Handles -> {0, 1}]
  /\ sent \in [Handles -> 0 .. MaxSent]
  /\ hungUp \in [Handles -> BOOLEAN]
  /\ ended \in [Handles -> Seq(Chunk)]
  /\ reported \in [Handles -> Nat]
  /\ taken \in [Handles -> Nat]

(* The stream of a connection reaches the callers whole and in order: what *)
(* calls have returned (or lost for want of memory), what a call has taken *)
(* and not returned yet, and what waits in the kernel is what the peer     *)
(* sent.  And a call gets the end of the stream only when the peer has     *)
(* closed and other calls have returned all of it (tcp.cpp:67-82, 167-182). *)
StreamPreserved ==
  \A h \in Handles :
    LET receivers == { u \in Threads : pc[u] \in {"copy", "store"} /\ socket_[self[u]] = h }
        inHand == { got[t] : t \in { u \in receivers : got[u] # Eof } }
        All == [i \in 1 .. sent[h] |-> <<h, i>>]
    IN  /\ \/ inHand = {} /\ ended[h] \o inbox[h] = All
           \/ \E x \in inHand : inHand = {x} /\ ended[h] \o <<x>> \o inbox[h] = All
        /\ (\E t \in receivers : got[t] = Eof) => hungUp[h] /\ ended[h] = All

(* tcp.h:108-110, of AcceptedConnection::read(): "Only one thread may be   *)
(* receiving from `this` socket at a time."  read() terminates the program *)
(* only if a call is under way on the same connection or on its listener   *)
(* (calls that follow an error, UdpSocket's finding, are left out).        *)
TerminatesOnlyOnSameSocket ==
  [][\A o \in Conns :
       (\E t \in Threads : Enter(t, o)) /\ terminated' = "receiver"
         => Inside(o) \cup Inside(ownedSocket_[o]) # {} \/ failed[ownedSocket_[o]]]_vars

(* tcp.h:60-71, of send(): "Writes a packet in the form of bytes to the    *)
(* socket. [...] @return Nothing on success, or a string indicating an     *)
(* error message."  The bytes handed to the kernel on a connection are     *)
(* those of the messages whose call succeeded, all of them.                *)
WritesAreWhole ==
  \A h \in Handles : taken[h] = reported[h] * MessageSize
===============================================================================
