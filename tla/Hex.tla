-------------------------------- MODULE Hex --------------------------------
(***************************************************************************)
(* The conversions between bytes and hexadecimal text of common.c, and     *)
(* what its header says of them.  A text is a sequence of characters, a    *)
(* buffer a sequence of bytes.                                             *)
(***************************************************************************)
EXTENDS Integers, Sequences

(* u8nct: the characters in the order of the table *)
Table == <<"0", "1", "2", "3", "4", "5", "6", "7", "8", "9", "a", "b", "c", "d", "e", "f",
           "A", "B", "C", "D", "E", "F">>
Num(i) == IF i <= 16 THEN i - 1 ELSE i - 7

(* u8toc: the characters of the high and the low nibble *)
U8toc(b) == <<Table[b \div 16 + 1], Table[(b % 16) + 1]>>

(* ctou8: the loop stops before the last entry. *)
Ctou8(c) ==
  IF \E i \in 1..21 : Table[i] = c THEN Num(CHOOSE i \in 1..21 : Table[i] = c) ELSE 0

(* The capacity of the buffer is not looked at. *)
OutputSizeUnbounded(outSize, inSize) == (inSize \div 2) + (inSize % 2)

(* snprintu8: the number of bytes it writes *)
OutputSize(outSize, inSize) ==
  LET wanted == (inSize \div 2) + (inSize % 2) IN IF outSize < wanted THEN outSize ELSE wanted

(* snprintu8: the last byte first.  For an odd number of characters it reads
   the one before the text, which is anything. *)
Snprintu8(outSize, in, before) ==
  LET At(k) == IF k = 0 THEN before ELSE in[k]
  IN [i \in 1..OutputSize(outSize, Len(in)) |->
       LET k == Len(in) - 2 * (i - 1) IN 16 * Ctou8(At(k - 1)) + Ctou8(At(k))]

(* u8nprints: two characters for every byte that is left when out_size is taken
   for a number of bytes of the input. *)
U8nprints(outSize, in) ==
  LET brs == IF outSize < Len(in) THEN outSize ELSE Len(in)
  IN [j \in 1..2 * brs |-> U8toc(in[(j + 1) \div 2])[((j + 1) % 2) + 1]]

(* u8ncmp: the common prefix less num_comp *)
U8ncmp(u1, u2, num) ==
  LET thres == IF Len(u2) > Len(u1) THEN Len(u1) ELSE Len(u2)
      cnt == CHOOSE n \in 0..thres :
               /\ \A i \in 1..n : u1[i] = u2[i]
               /\ n < thres => u1[n + 1] # u2[n + 1]
  IN cnt - num

(* u8toascii: a string, cut to leave room for its end.  A buffer of size 0 is
   none it can be given: it would write before it. *)
U8toascii(outSize, in) ==
  LET brs == IF outSize < Len(in) + 1 THEN outSize ELSE Len(in) + 1
  IN [i \in 1..brs |-> IF i = brs THEN 0 ELSE in[i]]

(* asciitou8: the characters as they are, although its header has it read
   digits *)
Asciitou8(outSize, in) ==
  LET brs == IF outSize < Len(in) THEN outSize ELSE Len(in) IN [i \in 1..brs |-> in[i]]

-----------------------------------------------------------------------------
(* What the header promises (common.h:201-282) *)

Numeral(c) ==
  CHOOSE d \in 0..15 : c = Table[d + 1] \/ (d > 9 /\ c = Table[d + 7])

(* The bytes of a text of digits, in the order of snprintu8; an odd text has a
   zero in front. *)
BytesOf(text) ==
  LET even == IF Len(text) % 2 = 1 THEN <<"0">> \o text ELSE text
      n == Len(even) \div 2
  IN [i \in 1..n |-> 16 * Numeral(even[2 * (n - i) + 1]) + Numeral(even[2 * (n - i) + 2])]

Prefix(s, n) == SubSeq(s, 1, IF n < Len(s) THEN n ELSE Len(s))

Texts(chars, n) == UNION {[1..k -> chars] : k \in 0..n}

SomeBytes == {0, 9, 10, 15, 16, 165, 240, 255}
Buffers == Texts(SomeBytes, 3)
Digits == {"0", "9", "a", "f", "A", "E", "F"}

(* Texts of digits that are not read as the bytes they stand for, or beyond
   the buffer.  `F' is not in the part of the table that is looked at. *)
MisreadTexts ==
  {text \in Texts(Digits, 4) :
     /\ \A i \in DOMAIN text : text[i] # "F"
     /\ Len(text) % 2 = 0
     /\ \E outSize \in 0..3 : Snprintu8(outSize, text, "x") # Prefix(BytesOf(text), outSize)}

(* Buffers that are not printed as text that reads back as their reverse, when
   there is room for two characters a byte, or beyond a buffer of out_size
   bytes when there is none for one *)
MisprintedBuffers ==
  {in \in Buffers :
     LET text == U8nprints(2 * Len(in), in) IN
       \/ Len(text) # 2 * Len(in)
       \/ \E k \in DOMAIN in : BytesOf(text)[Len(in) + 1 - k] # in[k]
       \/ Snprintu8(Len(in), text, "x") # BytesOf(text)}

(* Bytes that are compared otherwise than equal, or not, in the first num *)
Miscompared ==
  {pair \in Texts({0, 165}, 3) \X Texts({0, 165}, 3) :
     \E num \in 1..3 :
       LET u1 == pair[1]  u2 == pair[2] IN
         /\ num <= Len(u1) /\ num <= Len(u2)
         /\ (U8ncmp(u1, u2, num) < 0) # (Prefix(u1, num) # Prefix(u2, num))}

(* Buffers of which asciitou8 and u8toascii, with room enough or not, give back
   anything but their first bytes, or a string without its end *)
Miscopied ==
  {in \in Buffers : \E outSize \in 1..4 :
     LET text == U8toascii(outSize, in)  length == Len(text) - 1 IN
       \/ length # Len(Prefix(in, outSize - 1)) \/ text[Len(text)] # 0
       \/ Asciitou8(length, text) # Prefix(in, outSize - 1)}
=============================================================================
