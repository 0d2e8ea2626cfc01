----------------------------- MODULE ByteOrder -----------------------------
(***************************************************************************)
(* How zmqpp::message writes values into parts and reads them back         *)
(* (zmqpp/message.cpp:121-328, 330-416, 488-498), with the byte swaps of   *)
(* inet.hpp, on hosts of either byte order.                                *)
(*                                                                         *)
(* A value is the sequence of its bytes, most significant first; a part is *)
(* the sequence of its bytes as they lie in memory and on the wire.        *)
(***************************************************************************)
EXTENDS Integers, Sequences

Hosts == {"big", "little"}

(* The types that << and push_front take; what is not a number has any width. *)
Width == [int8 |-> 1, int16 |-> 2, int32 |-> 4, int64 |-> 8, signal |-> 8,
          float |-> 4, double |-> 8, bool |-> 1]

Backwards(s) == [i \in 1..Len(s) |-> s[Len(s) + 1 - i]]

(* The bytes of a value in the memory of a host, and the value of such bytes *)
InMemory(host, v) == IF host = "little" THEN Backwards(v) ELSE v
FromMemory(host, bytes) == IF host = "little" THEN Backwards(bytes) ELSE bytes

(* htons, htonl, ntohs, ntohl *)
Hton(host, v) == FromMemory("big", InMemory(host, v))

(* The pairs 0-7, 1-6 and 2-5 only *)
SwapBytesButMiddle(b) == [i \in 1..8 |-> IF i \in {4, 5} THEN b[i] ELSE b[9 - i]]

(* The four swaps 0-7, 1-6, 2-5, 3-4 *)
SwapBytes(b) == [i \in 1..8 |-> b[9 - i]]

SwapIfNeeded(host, v) ==
  IF host = "big" THEN v ELSE FromMemory(host, SwapBytes(InMemory(host, v)))

(* The conversion of << and >>: one and the same in both directions. *)
ToNetwork(host, type, v) ==
  CASE Width[type] = 1 -> v
    [] Width[type] = 8 -> SwapIfNeeded(host, v)
    [] OTHER -> Hton(host, v)

(* << and push_front *)
Put(host, type, v) == InMemory(host, ToNetwork(host, type, v))

(* get() of a part of the right size *)
Get(host, type, part) ==
  IF type = "bool" THEN (IF part[1] # 0 THEN <<1>> ELSE <<0>>)
  ELSE ToNetwork(host, type, FromMemory(host, part))

Header == <<119, 102, 85, 68, 51, 34, 17>>
SignalValue ==
  [name \in {"ok", "ko", "stop", "test"} |-> Append(Header,
     CASE name = "ok" -> 0 [] name = "ko" -> 1 [] name = "stop" -> 2 [] name = "test" -> 255)]

(* is_signal: one part of eight bytes whose value, shifted right by a byte, is
   the header. *)
SignalIn(host, msg) ==
  /\ Len(msg) = 1 /\ Len(msg[1]) = 8
  /\ SubSeq(Get(host, "signal", msg[1]), 1, 7) = Header

-----------------------------------------------------------------------------
Values(type) == 
  IF type = "signal" THEN {SignalValue[s] : s \in DOMAIN SignalValue}
  ELSE [1..Width[type] -> {0, 1}]

(* Types of which a reader gets something else than a writer wrote *)
MisreadTypes(writer, reader) ==
  {type \in DOMAIN Width : \E v \in Values(type) :
     LET part == Put(writer, type, v) IN
       \/ part # v \/ Get(reader, type, part) # v
       \/ SignalIn(reader, <<part>>) # (type = "signal")}

Misreaders == {reader \in Hosts : \E writer \in Hosts : MisreadTypes(writer, reader) # {}}
=============================================================================
