----------------------------- MODULE MCUdpSocket -----------------------------
(***************************************************************************)
(* UdpSocket with two threads and three objects for two handles and two    *)
(* buffers, so that handles and buffers are used again, and an address for *)
(* each handle, so that two sockets receive at a time.                     *)
(***************************************************************************)
EXTENDS UdpSocket, TLC

(* Threads, objects, handles, buffers, addresses and payloads are only     *)
(* compared.                                                               *)
UdpSymmetry == Permutations(Threads) \cup Permutations(Sockets) \cup Permutations(Handles)
                 \cup Permutations(Buffers) \cup Permutations(Addresses)
                 \cup Permutations(Payloads)
===============================================================================
