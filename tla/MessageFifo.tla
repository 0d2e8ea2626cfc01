---------------------------- MODULE MessageFifo ----------------------------
(***************************************************************************)
(* What the multipart send and receive of zmqpp::socket promise together:  *)
(* a queue of whole messages.  A send that reports success adds its        *)
(* message, one that reports failure adds nothing, and receive hands the   *)
(* messages over whole, in order and once ("zmq guarantees either the      *)
(* whole message or none of the message will be delivered",                *)
(* message.hpp:39-41).  Nothing is promised after a signal has interrupted *)
(* a send between two parts.                                               *)
(***************************************************************************)
EXTENDS Naturals, Sequences

CONSTANT Messages

VARIABLES accepted,   (* messages whose send has succeeded, in that order *)
          got,        (* messages received                                *)
          skipped     (* has a send been interrupted between two parts?   *)

fifoVars == <<accepted, got, skipped>>

Init == accepted = <<>> /\ got = <<>> /\ skipped = FALSE

Send(m) == accepted' = Append(accepted, m) /\ UNCHANGED got

Receive ==
  /\ Len(got) < Len(accepted)
  /\ got' = Append(got, accepted[Len(got) + 1])
  /\ UNCHANGED accepted

Next ==
  \/ ~skipped /\ UNCHANGED skipped /\ (Receive \/ \E m \in Messages : Send(m))
  \/ skipped' = TRUE

Spec == Init /\ [][Next]_fifoVars
=============================================================================
