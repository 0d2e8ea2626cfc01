------------------------------ MODULE MCReactor ------------------------------
(* The instances TLC checks: a reactor with two sockets and a descriptor. *)
EXTENDS Reactor
=============================================================================
