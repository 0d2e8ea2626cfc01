------------------------------- MODULE Message -------------------------------
(***************************************************************************)
(* zmqpp::message and zmqpp::frame (zmqpp/message.cpp, frame.cpp): a       *)
(* vector of frames and a read cursor.  A part is a buffer of libzmq's,    *)
(* which counts the frames that share it and calls the release function    *)
(* when the last of them is closed.  A socket object receives into a       *)
(* buffer of its own, _recv_buffer, from which a part moves to a message   *)
(* and a string is copied (zmqpp/socket.cpp).                              *)
(*                                                                         *)
(* A frame that is assigned to is initialised first, without being closed  *)
(* (frame.cpp:82-89): what it held is never given back to libzmq.  The     *)
(* vector assigns frames when it erases in the middle, copy() to every     *)
(* frame that was there; and a socket that is assigned to treats its       *)
(* _recv_buffer in the same way (socket.cpp:906-907).                      *)
(***************************************************************************)
EXTENDS Integers, FiniteSets, SequencesExt

CONSTANTS
  Objects,     (* message objects                                           *)
  Buffers,     (* buffers for parts, each used once                         *)
  Sockets,     (* socket objects                                            *)
  None,        (* no buffer                                                 *)
  MaxParts,    (* bound: parts of a message                                 *)
  MaxCursor,   (* bound: reads in a row                                     *)
  MaxShared,   (* bound: frames that share a buffer when it is copied       *)
  SizeLimit    (* size_t counts modulo SizeLimit                            *)

(* A vector never has as many elements as a size_t can count. *)
ASSUME MessageAssumption ==
  /\ None \notin Buffers /\ MaxParts < SizeLimit
  /\ {MaxParts, MaxCursor, MaxShared, SizeLimit} \subseteq Nat \ {0}

VARIABLES
  parts,       (* _parts of every message                                   *)
  cursor,      (* _read_cursor                                              *)
  open,        (* has a socket object a libzmq socket?                      *)
  held,        (* what its _recv_buffer holds, or None                      *)
  refs,        (* libzmq: frames that share a buffer                        *)
  released,    (* libzmq: how often its release function was called         *)
  lost,        (* history: buffers overwritten where they were held         *)
  strayed,     (* history: messages read past the end, or changed where     *)
               (*   they had been read                                      *)
  outcome      (* what the last call returned                               *)

contents == <<parts, refs, released, lost>>
sockets == <<open, held>>
vars == <<contents, cursor, strayed, outcome, sockets>>

Init ==
  /\ parts = [m \in Objects |-> <<>>] /\ cursor = [m \in Objects |-> 0]
  /\ refs = [b \in Buffers |-> 0] /\ released = [b \in Buffers |-> 0]
  /\ lost = {} /\ strayed = {} /\ outcome = <<"ok">>
  /\ open = [s \in Sockets |-> FALSE] /\ held = [s \in Sockets |-> None]

Fresh(b) == refs[b] = 0 /\ released[b] = 0

Uses(b, s) == Cardinality({k \in DOMAIN s : s[k] = b})

(* libzmq: the frames of `closed' are closed, those of `shared' are new. *)
Recount(closed, shared) ==
  /\ refs' = [b \in Buffers |-> refs[b] + Uses(b, shared) - Uses(b, closed)]
  /\ released' = [b \in Buffers |->
       released[b] + IF Uses(b, closed) > 0 /\ refs'[b] = 0 THEN 1 ELSE 0]

(* Where message m is read from now, and whether that makes sense *)
ReadFrom(m, c, astray) ==
  /\ cursor' = [cursor EXCEPT ![m] = c]
  /\ strayed' = IF astray THEN strayed \cup {m}
                ELSE IF c = 0 THEN strayed \ {m} ELSE strayed

Returns(o) == outcome' = o

Copyable(s) == \A b \in ToSet(s) : refs[b] <= MaxShared

(* <<, add, add_raw, add_nocopy, move, push_back and raw_new_msg *)
Add(m, b) ==
  /\ Fresh(b) /\ Len(parts[m]) < MaxParts
  /\ parts' = [parts EXCEPT ![m] = Append(@, b)]
  /\ Recount(<<>>, <<b>>)
  /\ Returns(<<"ok">>) /\ UNCHANGED <<cursor, lost, strayed>>

(* Frames move up into frames that were moved from: nothing is lost. *)
PushFront(m, b) ==
  /\ Fresh(b) /\ Len(parts[m]) < MaxParts
  /\ parts' = [parts EXCEPT ![m] = <<b>> \o @]
  /\ Recount(<<>>, <<b>>)
  /\ ReadFrom(m, cursor[m], cursor[m] > 0)
  /\ Returns(<<"ok">>) /\ UNCHANGED lost

(* Frames that moving from does not empty *)
EraseClosesLast(m, k) ==
  /\ parts' = [parts EXCEPT ![m] = RemoveAt(@, k)]
  /\ Recount(<<Last(parts[m])>>, <<>>)
  /\ lost' = lost \cup ({parts[m][k]} \ {Last(parts[m])})

(* vector::erase: the frames behind part k are assigned one down and the last
   one, moved from, is closed; only a last part is closed itself. *)
Erase(m, k) ==
  /\ parts' = [parts EXCEPT ![m] = RemoveAt(@, k)]
  /\ IF k = Len(parts[m])
     THEN Recount(<<parts[m][k]>>, <<>>) /\ UNCHANGED lost
     ELSE lost' = lost \cup {parts[m][k]} /\ UNCHANGED <<refs, released>>

(* pop_front, pop_back and remove *)
RemovePart(m, k) ==
  /\ k \in DOMAIN parts[m]
  /\ Erase(m, k)
  /\ ReadFrom(m, cursor[m], k <= cursor[m])
  /\ Returns(<<"ok">>)

(* >>: the cursor has advanced when get() throws. *)
Read(m) ==
  /\ cursor[m] < MaxCursor
  /\ ReadFrom(m, cursor[m] + 1, cursor[m] >= Len(parts[m]))
  /\ Returns(IF cursor[m] < Len(parts[m]) THEN <<"part", parts[m][cursor[m] + 1]>>
             ELSE <<"throws">>)
  /\ UNCHANGED contents

(* size, raw_data, raw_msg and the get by number: no cursor moves. *)
GetPart(m, k) ==
  /\ Returns(IF k \in DOMAIN parts[m] THEN <<"part at", k, parts[m][k]>>
             ELSE <<"none at", k>>)
  /\ UNCHANGED <<contents, cursor, strayed>>

(* next() *)
Skip(m) ==
  /\ cursor[m] < MaxCursor
  /\ ReadFrom(m, cursor[m] + 1, cursor[m] >= Len(parts[m]))
  /\ Returns(<<"ok">>) /\ UNCHANGED contents

(* remaining(), in unsigned arithmetic *)
Remaining(m) ==
  /\ Returns(<<"remaining", (Len(parts[m]) - cursor[m]) % SizeLimit>>)
  /\ UNCHANGED <<contents, cursor, strayed>>

ResetCursor(m) ==
  /\ ReadFrom(m, 0, FALSE)
  /\ Returns(<<"ok">>) /\ UNCHANGED contents

(* The cursor stays with the source. *)
MoveAllButCursor(m, n) ==
  /\ m # n
  /\ parts' = [parts EXCEPT ![m] = parts[n], ![n] = <<>>]
  /\ Recount(parts[m], <<>>)
  /\ UNCHANGED <<cursor, strayed>>
  /\ Returns(<<"ok">>) /\ UNCHANGED lost

(* The old frames are overwritten, as a frame's content is in an assignment. *)
MoveForgets(m, n) ==
  /\ m # n
  /\ parts' = [parts EXCEPT ![m] = parts[n], ![n] = <<>>]
  /\ cursor' = [cursor EXCEPT ![m] = cursor[n], ![n] = 0]
  /\ strayed' = (strayed \ {m, n}) \cup (IF n \in strayed THEN {m} ELSE {})
  /\ Returns(<<"ok">>) /\ UNCHANGED <<refs, released, lost>>

(* Move assignment, or construction of a new m: the vector of m is dropped,
   frames and all, and m gets the vector and the cursor of n. *)
Move(m, n) ==
  /\ m # n
  /\ parts' = [parts EXCEPT ![m] = parts[n], ![n] = <<>>]
  /\ Recount(parts[m], <<>>)
  /\ cursor' = [cursor EXCEPT ![m] = cursor[n], ![n] = 0]
  /\ strayed' = (strayed \ {m, n}) \cup (IF n \in strayed THEN {m} ELSE {})
  /\ Returns(<<"ok">>) /\ UNCHANGED lost

(* copy(source): frames beyond the new size are closed, the others assigned;
   the cursor stays. *)
Copy(m, n) ==
  /\ m # n /\ Copyable(parts[n])
  /\ parts' = [parts EXCEPT ![m] = parts[n]]
  /\ lost' = lost \cup {parts[m][k] : k \in (DOMAIN parts[m]) \cap (DOMAIN parts[n])}
  /\ Recount(SubSeq(parts[m], Len(parts[n]) + 1, Len(parts[m])), parts[n])
  /\ ReadFrom(m, cursor[m], cursor[m] > 0)
  /\ Returns(<<"ok">>)

(* m = n.copy(): a new message, moved to m *)
CopyNew(m, n) ==
  /\ m # n /\ Copyable(parts[n])
  /\ parts' = [parts EXCEPT ![m] = parts[n]]
  /\ Recount(parts[m], parts[n])
  /\ ReadFrom(m, 0, FALSE)
  /\ Returns(<<"ok">>) /\ UNCHANGED lost

(* A destructor, or a send that succeeds: libzmq has or closes every part, and
   the client has an empty message. *)
Renew(m) ==
  /\ parts' = [parts EXCEPT ![m] = <<>>]
  /\ Recount(parts[m], <<>>)
  /\ ReadFrom(m, 0, FALSE)
  /\ Returns(<<"ok">>) /\ UNCHANGED lost

-----------------------------------------------------------------------------
(* Sockets.  One that is not open and holds nothing need not exist. *)

Holding(s) == IF held[s] = None THEN <<>> ELSE <<held[s]>>

(* Socket s holds b now, and has a libzmq socket or not. *)
BecomesOf(s, b, isOpen) ==
  /\ held' = [held EXCEPT ![s] = b] /\ open' = [open EXCEPT ![s] = isOpen]
  /\ Returns(<<"socket call">>) /\ UNCHANGED <<cursor, strayed>>

(* socket::receive swaps the message for a new one if it has parts; an empty
   one is filled as it is, cursor and all.  libzmq closes what _recv_buffer
   held, and the part moves on. *)
Receive(s, m, b) ==
  /\ open[s] /\ Fresh(b)
  /\ parts' = [parts EXCEPT ![m] = <<b>>]
  /\ Recount(parts[m] \o Holding(s), <<b>>)
  /\ held' = [held EXCEPT ![s] = None]
  /\ ReadFrom(m, IF parts[m] = <<>> THEN cursor[m] ELSE 0, FALSE)
  /\ Returns(<<"ok">>) /\ UNCHANGED <<lost, open>>

(* receive(string) and receive_raw copy what stays in _recv_buffer. *)
ReceiveString(s, b) ==
  /\ open[s] /\ Fresh(b)
  /\ Recount(Holding(s), <<b>>)
  /\ BecomesOf(s, b, TRUE) /\ UNCHANGED <<parts, lost>>

(* libzmq has emptied _recv_buffer when there is nothing to receive. *)
ReceiveNothing(s) ==
  /\ open[s]
  /\ Recount(Holding(s), <<>>)
  /\ BecomesOf(s, None, TRUE) /\ UNCHANGED <<parts, lost>>

Construct(s) ==
  /\ ~open[s] /\ held[s] = None
  /\ BecomesOf(s, None, TRUE) /\ UNCHANGED contents

(* close() leaves the buffer to the destructor. *)
Close(s) == open[s] /\ BecomesOf(s, held[s], FALSE) /\ UNCHANGED contents

Destroy(s) ==
  /\ Recount(Holding(s), <<>>)
  /\ BecomesOf(s, None, FALSE) /\ UNCHANGED <<parts, lost>>

(* A new socket s from t *)
MoveConstruct(s, t) ==
  /\ s # t /\ ~open[s] /\ held[s] = None
  /\ open' = [open EXCEPT ![s] = open[t], ![t] = FALSE]
  /\ held' = [held EXCEPT ![s] = held[t], ![t] = None]
  /\ Returns(<<"socket call">>) /\ UNCHANGED <<contents, cursor, strayed>>

(* The libzmq sockets are swapped; _recv_buffer is initialised, not closed. *)
MoveAssign(s, t) ==
  /\ s # t
  /\ open' = [open EXCEPT ![s] = open[t], ![t] = open[s]]
  /\ held' = [held EXCEPT ![s] = held[t], ![t] = None]
  /\ lost' = lost \cup ({held[s]} \ {None})
  /\ Returns(<<"socket call">>) /\ UNCHANGED <<parts, refs, released, cursor, strayed>>

-----------------------------------------------------------------------------
MessageStep(m) ==
  \/ \E b \in Buffers : Add(m, b) \/ PushFront(m, b)
  \/ \E k \in 1..MaxParts : RemovePart(m, k) \/ GetPart(m, k)
  \/ Read(m) \/ Skip(m) \/ Remaining(m) \/ ResetCursor(m) \/ Renew(m)
  \/ \E n \in Objects : Move(m, n) \/ Copy(m, n) \/ CopyNew(m, n)

SocketStep(s) ==
  \/ \E b \in Buffers : ReceiveString(s, b) \/ \E m \in Objects : Receive(s, m, b)
  \/ ReceiveNothing(s) \/ Construct(s) \/ Close(s) \/ Destroy(s)
  \/ \E t \in Sockets : MoveConstruct(s, t) \/ MoveAssign(s, t)

Next ==
  \/ \E m \in Objects : MessageStep(m) /\ UNCHANGED sockets
  \/ \E s \in Sockets : SocketStep(s)

Spec == Init /\ [][Next]_vars

-----------------------------------------------------------------------------
Held(b) ==
  (\E m \in Objects : Contains(parts[m], b)) \/ (\E s \in Sockets : held[s] = b)

TypeOK ==
  /\ parts \in [Objects -> Seq(Buffers)] /\ \A m \in Objects : Len(parts[m]) <= MaxParts
  /\ cursor \in [Objects -> 0..MaxCursor]
  /\ refs \in [Buffers -> Nat] /\ released \in [Buffers -> Nat]
  /\ open \in [Sockets -> BOOLEAN] /\ held \in [Sockets -> Buffers \cup {None}]
  /\ lost \subseteq Buffers /\ strayed \subseteq Objects

(* No part a message or a socket holds has been released, and none is released
   twice, whatever is moved, copied, erased, sent or received
   (message.cpp:418-480, socket.cpp:45-63, 884-912). *)
NoUseAfterRelease ==
  \A b \in Buffers : released[b] <= 1 /\ (Held(b) => released[b] = 0)

(* A buffer that libzmq still counts is held by a message or a socket, or was
   overwritten by an erase, a copy or the assignment of a socket: no other
   operation forgets one (frame.cpp:82-89, socket.cpp:897-910). *)
NothingElseForgotten ==
  \A b \in Buffers : refs[b] > 0 => Held(b) \/ b \in lost

ReadParts(m) == [k \in (1..cursor[m]) \cap (DOMAIN parts[m]) |-> parts[m][k]]
UnreadParts(m) == SubSeq(parts[m], cursor[m] + 1, Len(parts[m]))

Stream ==
  INSTANCE PartStream WITH
    before <- [m \in Objects |-> IF m \in strayed THEN <<>> ELSE ReadParts(m)],
    unread <- [m \in Objects |-> IF m \in strayed THEN <<>> ELSE UnreadParts(m)]

(* The vector and its cursor are a stream of parts that were read and parts
   that were not, over writes, reads, removals, moves, copies and receives, as
   long as the client does not stray (message.cpp:93-118, 418-467). *)
ImplementsStream == Stream!Spec
=============================================================================
