------------------------------ MODULE MCPoller ------------------------------
(* The instance TLC checks: a poller over two sockets and a descriptor.  The
   two sockets are interchangeable; every property checked is a safety
   property. *)
EXTENDS Poller, TLC

Symmetric == Permutations(Sockets)

=============================================================================
