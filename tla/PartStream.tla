----------------------------- MODULE PartStream -----------------------------
(***************************************************************************)
(* What a zmqpp::message promises to a client that reads it as a stream    *)
(* (zmqpp/message.hpp:249-258, 341-357): parts that were read, then parts  *)
(* that were not; a read takes the first unread part, or throws if there   *)
(* is none; remaining() counts them.  A message whose client reads on past *)
(* the end, or changes the parts that were read already, has strayed:      *)
(* nothing is promised of it until it is read again from the start or gets *)
(* a new content.                                                          *)
(***************************************************************************)
EXTENDS Integers, SequencesExt

CONSTANTS Objects, Buffers

VARIABLES
  before,    (* before[m]: the parts of message m that were read            *)
  unread,    (* unread[m]: the others                                       *)
  strayed,   (* the messages nothing is promised of                         *)
  outcome    (* what the last call returned                                 *)

streams == <<before, unread, strayed, outcome>>

All(m) == before[m] \o unread[m]

Init ==
  /\ before = [m \in Objects |-> <<>>] /\ unread = [m \in Objects |-> <<>>]
  /\ strayed = {} /\ outcome = <<"ok">>

(* Message m now has b before and u behind the place it is read at. *)
Holds(m, b, u) ==
  /\ before' = [before EXCEPT ![m] = b] /\ unread' = [unread EXCEPT ![m] = u]
  /\ strayed' = strayed \ {m}

(* Message m may now have any content, with nothing read. *)
HoldsAnything(m) ==
  /\ before' = [before EXCEPT ![m] = <<>>] /\ unread'[m] \in Seq(Buffers)
  /\ \A n \in Objects \ {m} : unread'[n] = unread[n]
  /\ strayed' = strayed \ {m}

Write(m) ==
  /\ \E b \in Buffers : Holds(m, before[m], Append(unread[m], b))
  /\ outcome' = <<"ok">>

WriteFront(m) ==
  /\ before[m] = <<>>
  /\ \E b \in Buffers : Holds(m, <<>>, <<b>> \o unread[m])
  /\ outcome' = <<"ok">>

Drop(m) ==
  /\ \E k \in DOMAIN unread[m] : Holds(m, before[m], RemoveAt(unread[m], k))
  /\ outcome' = <<"ok">>

(* A call that concerns no message *)
Elsewhere == outcome' = <<"socket call">> /\ UNCHANGED <<before, unread, strayed>>

(* A part is read, or passed over by next(). *)
Read(m) ==
  /\ unread[m] # <<>>
  /\ Holds(m, Append(before[m], Head(unread[m])), Tail(unread[m]))
  /\ outcome' \in {<<"part", Head(unread[m])>>, <<"ok">>}

(* A part asked for by its number, read or not *)
Peek(m) ==
  /\ \/ outcome' \in {<<"part at", k, All(m)[k]>> : k \in DOMAIN All(m)}
     \/ outcome'[1] = "none at" /\ outcome'[2] \notin DOMAIN All(m)
  /\ UNCHANGED <<before, unread, strayed>>

Remaining(m) ==
  /\ outcome' = <<"remaining", Len(unread[m])>>
  /\ UNCHANGED <<before, unread, strayed>>

Reset(m) ==
  /\ Holds(m, <<>>, All(m))
  /\ outcome' = <<"ok">>

(* Every call on a message that has not strayed *)
Faithful(m) ==
  /\ m \notin strayed
  /\ Write(m) \/ WriteFront(m) \/ Drop(m) \/ Read(m) \/ Peek(m) \/ Remaining(m)
     \/ Reset(m)

(* A new content: none, a part that came in, or a copy *)
Renew(m) ==
  /\ \/ Holds(m, <<>>, <<>>)
     \/ \E b \in Buffers : Holds(m, <<>>, <<b>>)
     \/ \E n \in Objects \ strayed : Holds(m, <<>>, All(n))
     \/ strayed # {} /\ HoldsAnything(m)
  /\ outcome' = <<"ok">>

(* m takes over what n holds, and how far it was read. *)
Take(m, n) ==
  /\ m # n
  /\ before' = [before EXCEPT ![m] = before[n], ![n] = <<>>]
  /\ unread' = [unread EXCEPT ![m] = unread[n], ![n] = <<>>]
  /\ strayed' = (strayed \ {m, n}) \cup (IF n \in strayed THEN {m} ELSE {})
  /\ outcome' = <<"ok">>

(* The client goes astray: a read at the end throws, and other ways. *)
Stray(m) ==
  /\ outcome' = <<"throws">> => unread[m] = <<>>
  /\ strayed' = strayed \cup {m}
  /\ before' = [before EXCEPT ![m] = <<>>] /\ unread' = [unread EXCEPT ![m] = <<>>]

Next ==
  \/ Elsewhere
  \/ \E m \in Objects :
       \/ Faithful(m) \/ Renew(m) \/ Stray(m)
       \/ \E n \in Objects : Take(m, n)

Spec == Init /\ [][Next]_streams
=============================================================================
