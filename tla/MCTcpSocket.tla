----------------------------- MODULE MCTcpSocket -----------------------------
(***************************************************************************)
(* TcpSocket with two threads, two sockets and two connections.            *)
(***************************************************************************)
EXTENDS TcpSocket, TLC

(* Threads, storage, handles and buffers are only compared.                *)
TcpSymmetry == Permutations(Threads) \cup Permutations(Sockets)
                 \cup Permutations(Conns) \cup Permutations(Buffers)
                 \cup Permutations(Handles)
===============================================================================
