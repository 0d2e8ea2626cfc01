----------------------------- MODULE MCMessage -----------------------------
(* Two messages of up to three parts and two sockets for TLC; messages are    *)
(* alike, and so are sockets and buffers.                                     *)
EXTENDS Message

Symmetry == Permutations(Objects) \cup Permutations(Buffers) \cup Permutations(Sockets)
=============================================================================
