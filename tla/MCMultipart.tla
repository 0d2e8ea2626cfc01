---------------------------- MODULE MCMultipart ----------------------------
(* Small instances of Multipart for TLC: messages of one to three parts and a *)
(* connection that holds one or two of them.  receive asks for the option     *)
(* receive_more, by the tables of SocketOptions, after every part.            *)
EXTENDS Multipart, SocketOptions

(* Whatever the version of libzmq, every call that takes an option passes it as
   the same type, set(int) hands options on to overloads that take them, and
   the receive loop can ask whether there is more (socket.cpp:259, 386-882);
   the one exception is multicast_loopback in version 2. *)
OptionsAgree ==
  /\ Disagreeing = {}
  /\ message # <<>> => \A v \in Versions : GetBool("receive_more", v) # "throws"
=============================================================================
