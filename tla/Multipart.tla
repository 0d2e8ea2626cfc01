----------------------------- MODULE Multipart -----------------------------
(***************************************************************************)
(* socket::send(message) and socket::receive(message) (zmqpp/socket.cpp)   *)
(* at the two ends of one connection.  Each is a loop of one libzmq call   *)
(* per part, and each call may succeed, would block, be interrupted by a   *)
(* signal, or find the context terminated.  The client of send tries a     *)
(* message again when send returned false, or gives it up.  Or it sends    *)
(* and receives the parts itself, as strings: then it goes on with the     *)
(* part whose call returned false.                                         *)
(*                                                                         *)
(* libzmq is modelled by what the two loops rely on: a part with the       *)
(* send_more flag continues the message before it, the reader gets to see  *)
(* a message only when its last part is there, and the high water mark     *)
(* counts whole messages and stops first parts only.                       *)
(***************************************************************************)
EXTENDS Integers, Sequences

CONSTANTS
  Sizes,             (* how many parts the messages of the client have      *)
  Hwm,               (* messages the connection holds                       *)
  MaxMessages        (* bound: messages the client sends                    *)

ASSUME MultipartAssumption ==
  /\ Sizes \subseteq Nat \ {0} /\ Hwm \in Nat \ {0} /\ MaxMessages \in Nat

VARIABLES
  sender,      (* "idle", "refused" (send returned false), "sending" or      *)
               (*   "strings" (part by part, by the client)                  *)
  id, size,    (* the message of the sender and its number of parts          *)
  at,          (* i of send's loop                                           *)
  dontWait,    (* dont_wait of send's loop                                   *)
  wire,        (* parts that libzmq has accepted and receive has not taken   *)
  receiver,    (* "idle", "receiving" or "strings"                           *)
  dontBlock,   (* dont_block of receive                                      *)
  message,     (* the message receive is filling                             *)
  terminated,  (* is the context terminated?                                 *)
  skipped,     (* history: has an interrupt made send skip a part?           *)
  accepted,    (* history: the messages whose send returned true             *)
  got          (* history: the messages receive returned true for            *)

sendVars == <<sender, id, size, at, dontWait>>
receiveVars == <<receiver, dontBlock, message>>
vars == <<sendVars, wire, receiveVars, terminated, skipped, accepted, got>>

Part == [id : 1..MaxMessages, nr : Nat \ {0}]
Whole(i, n) == [k \in 1..n |-> [id |-> i, nr |-> k]]
Messages == {Whole(i, n) : i \in 1..MaxMessages, n \in Sizes}

Init ==
  /\ sender = "idle" /\ id = 0 /\ size = 0 /\ at = 1 /\ dontWait = FALSE
  /\ wire = <<>>
  /\ receiver = "idle" /\ dontBlock = FALSE /\ message = <<>>
  /\ terminated = FALSE /\ skipped = FALSE
  /\ accepted = <<>> /\ got = <<>>

-----------------------------------------------------------------------------
(* libzmq: parts on the wire are [part, more]. *)

(* The last part on the wire continues: libzmq is inside a message. *)
InsideMessage == wire # <<>> /\ wire[Len(wire)].more

HasRoom ==
  InsideMessage \/ Len(SelectSeq(wire, LAMBDA p : ~p.more)) < Hwm

(* The reader sees complete messages only. *)
Readable == \E k \in DOMAIN wire : ~wire[k].more

-----------------------------------------------------------------------------
(* send *)

SendCall(n, dont) ==
  /\ sender = "idle" /\ id < MaxMessages
  /\ sender' = "sending" /\ id' = id + 1 /\ size' = n /\ at' = 1 /\ dontWait' = dont
  /\ UNCHANGED <<wire, receiveVars, terminated, skipped, accepted, got>>

SendAgain(dont) ==
  /\ sender = "refused"
  /\ sender' = "sending" /\ at' = 1 /\ dontWait' = dont
  /\ UNCHANGED <<id, size, wire, receiveVars, terminated, skipped, accepted, got>>

GiveUp ==
  /\ sender = "refused"
  /\ sender' = "idle"
  /\ UNCHANGED <<id, size, at, dontWait, wire, receiveVars, terminated, skipped, accepted, got>>

(* The step past part `at': behind the last part send returns true and leaves
   the client an empty message. *)
Advance ==
  IF at = size
  THEN /\ sender' = "idle" /\ at' = 1
       /\ accepted' = Append(accepted, Whole(id, size))
  ELSE /\ at' = at + 1
       /\ UNCHANGED <<sender, accepted>>

(* The flag also on the last part *)
MoreTooLong(i, n) == i <= n

(* send_more: the part is not the last. *)
More(i, n) == i < n

SendPart ==
  /\ sender = "sending" /\ ~terminated /\ HasRoom
  /\ wire' = Append(wire, [part |-> [id |-> id, nr |-> at], more |-> More(at, size)])
  /\ Advance
  /\ UNCHANGED <<id, size, dontWait, receiveVars, terminated, skipped, got>>

(* EAGAIN, with dont_wait or when the send timeout is over, and EINTR, both on
   the first part: return false. *)
SendRefused ==
  /\ sender = "sending" /\ ~terminated
  /\ at = 1
  /\ sender' = "refused"
  /\ UNCHANGED <<id, size, at, dontWait, wire, receiveVars, terminated, skipped, accepted, got>>

(* The whole message sent again *)
SendInterruptedRestarts ==
  /\ sender = "sending" /\ ~terminated
  /\ at > 1
  /\ at' = 1
  /\ UNCHANGED <<sender, id, size, dontWait, wire, receiveVars, terminated, skipped, accepted, got>>

(* EINTR on a later part: wait no more, and `continue', which goes on with the
   part after it. *)
SendInterrupted ==
  /\ sender = "sending" /\ ~terminated
  /\ at > 1
  /\ dontWait' = TRUE
  /\ skipped' = TRUE
  /\ Advance
  /\ UNCHANGED <<id, size, wire, receiveVars, terminated, got>>

(* ETERM: an exception, the message is left as it is. *)
SendThrows ==
  /\ sender = "sending" /\ terminated
  /\ sender' = "idle"
  /\ UNCHANGED <<id, size, at, dontWait, wire, receiveVars, terminated, skipped, accepted, got>>

-----------------------------------------------------------------------------
(* send(string): the client sends the parts, all but the last with send_more,
   and can give the message up as long as libzmq has taken none. *)

StringsCall(n) ==
  /\ sender = "idle" /\ id < MaxMessages
  /\ sender' = "strings" /\ id' = id + 1 /\ size' = n /\ at' = 1
  /\ UNCHANGED <<dontWait, wire, receiveVars, terminated, skipped, accepted, got>>

SendString ==
  /\ sender = "strings" /\ ~terminated /\ HasRoom
  /\ wire' = Append(wire, [part |-> [id |-> id, nr |-> at], more |-> More(at, size)])
  /\ Advance
  /\ UNCHANGED <<id, size, dontWait, receiveVars, terminated, skipped, got>>

(* EAGAIN and EINTR: return false; to try again changes nothing. *)
SendStringRefused ==
  /\ sender = "strings" /\ ~terminated /\ at = 1
  /\ sender' = "idle"
  /\ UNCHANGED <<id, size, at, dontWait, wire, receiveVars, terminated, skipped, accepted, got>>

SendStringThrows ==
  /\ sender = "strings" /\ terminated
  /\ sender' = "idle"
  /\ UNCHANGED <<id, size, at, dontWait, wire, receiveVars, terminated, skipped, accepted, got>>

-----------------------------------------------------------------------------
(* receive *)

ReceiveCall(dont) ==
  /\ receiver = "idle"
  /\ receiver' = "receiving" /\ dontBlock' = dont
  /\ message' = <<>>
  /\ UNCHANGED <<sendVars, wire, terminated, skipped, accepted, got>>

ReceivePart ==
  /\ receiver = "receiving" /\ ~terminated /\ Readable
  /\ wire' = Tail(wire)
  /\ message' = Append(message, Head(wire).part)
  /\ IF Head(wire).more
     THEN UNCHANGED <<receiver, got>>
     ELSE receiver' = "idle" /\ got' = Append(got, message')
  /\ UNCHANGED <<sendVars, dontBlock, terminated, skipped, accepted>>

(* EAGAIN without a part, with dont_wait or when the timeout is over *)
ReceiveEmpty ==
  /\ receiver = "receiving" /\ ~terminated /\ ~Readable
  /\ message = <<>>
  /\ receiver' = "idle"
  /\ UNCHANGED <<sendVars, dontBlock, wire, message, terminated, skipped, accepted, got>>

(* A return on every EINTR, also with parts taken from the socket *)
ReceiveInterruptedReturns ==
  /\ receiver = "receiving" /\ ~terminated
  /\ receiver' = "idle"
  /\ UNCHANGED <<sendVars, dontBlock, wire, message, terminated, skipped, accepted, got>>

(* EINTR: return false if there is no part yet; if there is, `continue' the
   while loop, which is no step. *)
ReceiveInterrupted ==
  /\ receiver = "receiving" /\ ~terminated
  /\ message = <<>>
  /\ receiver' = "idle"
  /\ UNCHANGED <<sendVars, dontBlock, wire, message, terminated, skipped, accepted, got>>

ReceiveThrows ==
  /\ receiver = "receiving" /\ terminated
  /\ receiver' = "idle"
  /\ UNCHANGED <<sendVars, dontBlock, wire, message, terminated, skipped, accepted, got>>

-----------------------------------------------------------------------------
(* receive(string): the client receives until has_more_parts is false. *)

ReceiveStringsCall ==
  /\ receiver = "idle"
  /\ receiver' = "strings" /\ message' = <<>>
  /\ UNCHANGED <<sendVars, dontBlock, wire, terminated, skipped, accepted, got>>

ReceiveString ==
  /\ receiver = "strings" /\ ~terminated /\ Readable
  /\ wire' = Tail(wire)
  /\ message' = Append(message, Head(wire).part)
  /\ IF Head(wire).more
     THEN UNCHANGED <<receiver, got>>
     ELSE receiver' = "idle" /\ got' = Append(got, message')
  /\ UNCHANGED <<sendVars, dontBlock, terminated, skipped, accepted>>

(* EAGAIN and EINTR: return false; with parts in hand the client tries again. *)
ReceiveStringEmpty ==
  /\ receiver = "strings" /\ ~terminated
  /\ message = <<>>
  /\ receiver' = "idle"
  /\ UNCHANGED <<sendVars, dontBlock, wire, message, terminated, skipped, accepted, got>>

ReceiveStringThrows ==
  /\ receiver = "strings" /\ terminated
  /\ receiver' = "idle"
  /\ UNCHANGED <<sendVars, dontBlock, wire, message, terminated, skipped, accepted, got>>

(* Some thread terminates the context. *)
Terminate ==
  /\ ~terminated
  /\ terminated' = TRUE
  /\ UNCHANGED <<sendVars, wire, receiveVars, skipped, accepted, got>>

SendStep ==
  \/ SendPart \/ SendRefused \/ SendInterrupted \/ SendThrows
  \/ SendString \/ SendStringRefused \/ SendStringThrows
ReceiveStep ==
  \/ ReceivePart \/ ReceiveEmpty \/ ReceiveInterrupted \/ ReceiveThrows
  \/ ReceiveString \/ ReceiveStringEmpty \/ ReceiveStringThrows
ReceiveBegins == ReceiveStringsCall \/ \E dont \in BOOLEAN : ReceiveCall(dont)

Next ==
  \/ \E n \in Sizes, dont \in BOOLEAN : SendCall(n, dont)
  \/ \E n \in Sizes : StringsCall(n)
  \/ \E dont \in BOOLEAN : SendAgain(dont)
  \/ ReceiveBegins \/ GiveUp \/ SendStep \/ ReceiveStep
  \/ Terminate

Spec == Init /\ [][Next]_vars

(* A receiver that goes on calling receive and is not interrupted for ever. *)
FairSpec ==
  /\ Spec
  /\ WF_vars(ReceiveBegins)
  /\ WF_vars(ReceiveStep) /\ SF_vars(ReceivePart \/ ReceiveString)

-----------------------------------------------------------------------------
TypeOK ==
  /\ sender \in {"idle", "refused", "sending", "strings"}
  /\ id \in 0..MaxMessages /\ size \in Sizes \cup {0}
  /\ at \in Nat \ {0} /\ (sender \in {"sending", "strings"} => at <= size)
  /\ wire \in Seq([part : Part, more : BOOLEAN])
  /\ receiver \in {"idle", "receiving", "strings"} /\ message \in Seq(Part)
  /\ {dontWait, dontBlock, terminated, skipped} \subseteq BOOLEAN
  /\ accepted \in Seq(Messages) /\ got \in Seq(Seq(Part))

Fifo == INSTANCE MessageFifo

(* The two loops, with their retries, refusals and interrupts, are a queue of
   whole messages (socket.cpp:148-355), as long as no signal interrupts the
   send of a later part. *)
ImplementsFifo == Fifo!Spec

(* "zmq guarantees either the whole message or none of the message will be
   delivered" (message.hpp:39-41): what receive returns true for is a message
   that send was given, all of it and nothing else. *)
WholeOrNone == \A k \in DOMAIN got : got[k] \in Messages

(* The message that receive is filling, if it is *)
InHand == IF receiver = "idle" THEN <<>> ELSE message

(* Every part the receiver ever took from libzmq, message by message, and behind
   them every part still in libzmq *)
Batches == got \o <<InHand, [k \in DOMAIN wire |-> wire[k].part]>>

Before(p, q) == p.id < q.id \/ (p.id = q.id /\ p.nr < q.nr)

(* Retries after a refusal or an interrupt send no part twice and let no part
   overtake another, even where they lose one (socket.cpp:171-198, 231-254). *)
NoPartTwice ==
  LET b == Batches
  IN \A i, j \in DOMAIN b : \A k \in DOMAIN b[i], l \in DOMAIN b[j] :
       i < j \/ (i = j /\ k < l) => Before(b[i][k], b[j][l])

(* A message whose send returned true is received, if the receiver goes on
   receiving, the context is not terminated and no part was skipped: no part
   of it waits for a successor that never comes (socket.cpp:157-207). *)
AcceptedArrives ==
  \A k \in 1..MaxMessages :
    Len(accepted) >= k ~> (Len(got) >= k \/ terminated \/ skipped)
=============================================================================
