------------------------------ MODULE MCActor ------------------------------
(* Small instances of Actor for TLC: the .cfg files give a pipe of a few      *)
(* messages and say what the routine and the client may do.  Here the         *)
(* messages of the pipe also have the bytes of ByteOrder.                     *)
EXTENDS Actor, ByteOrder

BytesOf(host, m) ==
  IF m \in DOMAIN SignalValue THEN Put(host, "signal", SignalValue[m])
  ELSE Put(host, "int64", <<0, 0, 0, 0, 0, 0, 0, 1>>)

(* What a host of either byte order writes, a host of either byte order reads,
   and on the wire it is in network order; so the messages in the pipe that
   is_signal takes for signals are the signals (message.cpp:121-416, 488-498,
   inet.hpp:62-190). *)
ReadAsWritten ==
  /\ Misreaders = {}
  /\ \A k \in DOMAIN toParent, host \in Hosts :
       IsSignal(toParent[k]) <=> SignalIn(host, <<BytesOf(host, toParent[k])>>)
=============================================================================
