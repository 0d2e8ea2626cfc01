------------------------------ MODULE Strings ------------------------------
(***************************************************************************)
(* The helpers of common.c that make and take apart strings.  A text is a  *)
(* sequence of characters without the NUL at its end; half is 2^31 for the *)
(* int of the code, less for TLC.                                          *)
(***************************************************************************)
EXTENDS Integers, Sequences

Numerals == <<"0", "1", "2", "3", "4", "5", "6", "7", "8", "9", "a", "b", "c", "d", "e", "f">>
NumeralsOf(base) == {Numerals[v + 1] : v \in 0..base - 1}
ValueOf(c) == CHOOSE v \in 0..15 : Numerals[v + 1] = c
Blank == "blank"
Spaces(n) == [k \in 1..n |-> Blank]

(* The characters before the first that is none of these *)
Leading(text, chars) ==
  CHOOSE k \in 0..Len(text) :
    /\ \A i \in 1..k : text[i] \in chars
    /\ k < Len(text) => text[k + 1] \notin chars

(* ccmsg and printd: the room they ask for, and the text they put there *)
RoomFor(texts) ==
  LET total[k \in 0..Len(texts)] == IF k = 0 THEN 1 ELSE total[k - 1] + Len(texts[k])
  IN total[Len(texts)]

Ccmsg(texts) ==
  LET result[k \in 0..Len(texts)] == IF k = 0 THEN <<>> ELSE result[k - 1] \o texts[k]
  IN result[Len(texts)]

(* A number in a base without leading zeros; after k steps, what its last k
   digits leave of it *)
Written(n, base) ==
  LET rest[k \in 0..n + 1] == IF k = 0 THEN n ELSE rest[k - 1] \div base
      length == CHOOSE k \in 1..n + 1 : rest[k] = 0 /\ \A i \in 1..k - 1 : rest[i] # 0
  IN [i \in 1..length |-> Numerals[(rest[length - i] % base) + 1]]

(* snprintf("%i"), cut to the room it has *)
Decimal(n) == IF n < 0 THEN <<"-">> \o Written(-n, 10) ELSE Written(n, 10)

(* itoc: the long goes through an unsigned int to an int. *)
Itoc(maxlen, n, half) ==
  LET text == Decimal(((n + half) % (2 * half)) - half)
  IN SubSeq(text, 1, IF Len(text) < maxlen THEN Len(text) ELSE maxlen - 1)

(* The number that digits stand for *)
Value(digits, base) ==
  LET value[k \in 0..Len(digits)] ==
        IF k = 0 THEN 0 ELSE base * value[k - 1] + ValueOf(digits[k])
  IN value[Len(digits)]

(* sscanf with %d, %o or %x at the start of a text: the digits there are, or
   what n was if there are none *)
Scan(text, base, n) ==
  LET lead == Leading(text, {Blank})
      minus == lead < Len(text) /\ text[lead + 1] = "-"
      behind == SubSeq(text, lead + (IF minus THEN 2 ELSE 1), Len(text))
      digits == SubSeq(behind, 1, Leading(behind, NumeralsOf(base)))
  IN IF digits = <<>> THEN n ELSE IF minus THEN -Value(digits, base) ELSE Value(digits, base)

(* One round of atonum's loop, behind a space *)
ScanAny(text, n) ==
  IF Len(text) > 1 /\ text[1] = "0" /\ text[2] \in {"x", "X"}
  THEN Scan(SubSeq(text, 3, Len(text)), 16, n)
  ELSE IF Len(text) > 1 /\ text[1] = "0" THEN Scan(Tail(text), 8, n) ELSE Scan(text, 10, n)

(* atonum: scans behind every space that leads, the last one counts.  Without
   a space n is never set. *)
Atonum(text) ==
  LET n[k \in 0..Leading(text, {Blank})] ==
        IF k = 0 THEN "anything" ELSE ScanAny(SubSeq(text, k + 1, Len(text)), n[k - 1])
  IN n[Leading(text, {Blank})]

(* str_find_str *)
StrFindStr(haystack, needle) ==
  \E k \in 1..Len(haystack) - Len(needle) + 1 :
    SubSeq(haystack, k, k + Len(needle) - 1) = needle

-----------------------------------------------------------------------------
(* What the header promises (common.h:124-190) *)

(* Integers of an int of half = 2^7 that are not read back as they were
   written, behind one space or two; and longs that are not their remainder *)
MisreadNumbers ==
  {n \in -300..300 :
     LET text == Itoc(8, n, 128) IN
       \/ \E lead \in 1..2 :
            LET read == Atonum(Spaces(lead) \o text) IN
              read \notin -128..127 \/ (read - n) % 256 # 0
       \/ \E maxlen \in 1..8 :
            LET cut == Itoc(maxlen, n, 128) IN
              Len(cut) >= maxlen \/ cut # SubSeq(text, 1, Len(cut))}

(* Numbers whose octal or hexadecimal text is not read as the number *)
MisreadBases ==
  {n \in 0..300 :
     \/ Atonum(Spaces(1) \o (<<"0", "x">> \o Written(n, 16))) # n
     \/ Atonum(Spaces(1) \o (<<"0">> \o Written(n, 8))) # n}

SomeTexts == UNION {[1..k -> {"a", "b"}] : k \in 0..2}

(* Texts that are put together wrongly, or beyond the room for them *)
Misjoined ==
  {texts \in UNION {[1..k -> SomeTexts] : k \in 0..3} :
     \/ Len(Ccmsg(texts)) + 1 # RoomFor(texts)
     \/ \E k \in DOMAIN texts :
          LET before == RoomFor(SubSeq(texts, 1, k - 1)) - 1
          IN SubSeq(Ccmsg(texts), before + 1, before + Len(texts[k])) # texts[k]}

(* Texts that are found where they are not, or are not found *)
Misfound ==
  {pair \in SomeTexts \X UNION {[1..k -> {"a", "b"}] : k \in 0..4} :
     StrFindStr(pair[2], pair[1]) #
       \E left, right \in UNION {[1..k -> {"a", "b"}] : k \in 0..4} :
         left \o pair[1] \o right = pair[2]}
=============================================================================
