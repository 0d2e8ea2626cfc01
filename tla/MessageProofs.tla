--------------------------- MODULE MessageProofs ---------------------------
(***************************************************************************)
(* No part that a message or a socket holds is released, and none but the  *)
(* overwritten ones is forgotten, for any number of messages, sockets and  *)
(* parts.  The argument counts: libzmq's count of a buffer is never less   *)
(* than the number of places that hold the buffer, and is that number as   *)
(* long as the buffer was not overwritten.                                 *)
(*                                                                         *)
(* And a message is a stream of parts: the vector of frames with its       *)
(* cursor implements PartStream, call by call.                             *)
(***************************************************************************)
EXTENDS Message, FiniteSetTheorems, SequenceTheorems, TLAPS

-----------------------------------------------------------------------------
(* How often a buffer occurs in a sequence *)

Positions(b, s) == {k \in DOMAIN s : s[k] = b}

LEMMA PositionsFinite ==
  ASSUME NEW b, NEW s \in Seq(Buffers)
  PROVE  /\ IsFiniteSet(Positions(b, s)) /\ Positions(b, s) \subseteq 1..Len(s)
         /\ Uses(b, s) = Cardinality(Positions(b, s)) /\ Uses(b, s) \in Nat
<1>1. Positions(b, s) \subseteq 1..Len(s)
  BY LenProperties DEF Positions
<1>2. IsFiniteSet(1..Len(s))
  BY LenProperties, FS_Interval
<1>3. IsFiniteSet(Positions(b, s))
  BY <1>1, <1>2, FS_Subset
<1>4. QED
  BY <1>1, <1>3, FS_CardinalityType DEF Uses, Positions

LEMMA UsesZero ==
  ASSUME NEW b, NEW s \in Seq(Buffers)
  PROVE  Uses(b, s) > 0 <=> \E k \in 1..Len(s) : s[k] = b
<1>1. Uses(b, s) = 0 <=> Positions(b, s) = {}
  BY PositionsFinite, FS_EmptySet, Zenon
<1>2. Positions(b, s) # {} <=> \E k \in 1..Len(s) : s[k] = b
  BY LenProperties DEF Positions
<1>3. QED
  BY <1>1, <1>2, PositionsFinite

LEMMA UsesEmpty ==
  ASSUME NEW b
  PROVE  Uses(b, <<>>) = 0
<1>1. {k \in DOMAIN <<>> : <<>>[k] = b} = {}
  OBVIOUS
<1>2. QED
  BY <1>1, FS_EmptySet, Zenon DEF Uses

LEMMA UsesOne ==
  ASSUME NEW b, NEW x
  PROVE  Uses(b, <<x>>) = IF x = b THEN 1 ELSE 0
<1>1. {k \in DOMAIN <<x>> : <<x>>[k] = b} = IF x = b THEN {1} ELSE {}
  OBVIOUS
<1>2. QED
  BY <1>1, FS_EmptySet, FS_Singleton, Zenon DEF Uses

LEMMA UsesConcat ==
  ASSUME NEW b, NEW s \in Seq(Buffers), NEW t \in Seq(Buffers)
  PROVE  Uses(b, s \o t) = Uses(b, s) + Uses(b, t)
<1> DEFINE A == Positions(b, s)
           B == Positions(b, t)
           C == Positions(b, s \o t)
           shift == [k \in B |-> k + Len(s)]
           D == {shift[k] : k \in B}
<1>1. /\ s \o t \in Seq(Buffers) /\ Len(s) \in Nat /\ Len(t) \in Nat
      /\ Len(s \o t) = Len(s) + Len(t)
      /\ \A i \in 1..Len(s) + Len(t) : (s \o t)[i] = IF i <= Len(s) THEN s[i] ELSE t[i - Len(s)]
  BY ConcatProperties, LenProperties
<1>2. B \subseteq 1..Len(t) /\ A \subseteq 1..Len(s)
  BY PositionsFinite, Zenon
<1>3. C = A \cup D
  <2>1. ASSUME NEW k \in C PROVE k \in A \cup D
    <3>1. k \in 1..Len(s) + Len(t) /\ (s \o t)[k] = b
      BY <1>1, LenProperties DEF Positions
    <3>2. CASE k <= Len(s)
      BY <1>1, <3>1, <3>2, LenProperties DEF Positions
    <3>3. CASE ~(k <= Len(s))
      <4>1. k - Len(s) \in 1..Len(t) /\ t[k - Len(s)] = b
        BY <1>1, <3>1, <3>3
      <4>2. k - Len(s) \in B
        BY <4>1, LenProperties DEF Positions
      <4>3. shift[k - Len(s)] = k
        BY <1>1, <3>1, <4>2
      <4>4. QED
        BY <4>2, <4>3
    <3>4. QED
      BY <3>2, <3>3
  <2>2. ASSUME NEW k \in A PROVE k \in C
    BY <1>1, <1>2, LenProperties DEF Positions
  <2>3. ASSUME NEW k \in B PROVE shift[k] \in C
    <3>1. k \in 1..Len(t) /\ t[k] = b
      BY <1>2 DEF Positions
    <3>2. shift[k] = k + Len(s)
      OBVIOUS
    <3>3. k + Len(s) \in 1..Len(s) + Len(t) /\ (s \o t)[k + Len(s)] = t[k]
      BY <1>1, <3>1
    <3>4. QED
      BY <1>1, <3>1, <3>2, <3>3, LenProperties DEF Positions
  <2>4. QED
    BY <2>1, <2>2, <2>3
<1>4. A \cap D = {}
  BY <1>1, <1>2
<1>5. IsFiniteSet(D) /\ Cardinality(D) = Uses(b, t)
  <2>1. shift \in Bijection(B, D)
    <3>1. shift \in [B -> D] /\ \A x \in D : \E k \in B : shift[k] = x
      OBVIOUS
    <3>2. ASSUME NEW k \in B, NEW l \in B, shift[k] = shift[l] PROVE k = l
      BY <1>1, <1>2, <3>2
    <3>3. QED
      BY <3>1, <3>2 DEF Bijection, Injection, Surjection, IsInjective
  <2>2. ExistsBijection(B, D)
    BY <2>1 DEF ExistsBijection
  <2>3. QED
    BY <2>2, PositionsFinite, FS_Bijection
<1>6. IsFiniteSet(A) /\ Cardinality(A) = Uses(b, s) /\ Uses(b, s) \in Nat /\ Uses(b, t) \in Nat
  BY PositionsFinite
<1>7. Cardinality(A \cup D) = Cardinality(A) + Cardinality(D) - 0
  BY <1>4, <1>5, <1>6, FS_Union, FS_EmptySet
<1>8. Uses(b, s \o t) = Cardinality(C)
  BY <1>1, PositionsFinite
<1>9. QED
  BY <1>3, <1>5, <1>6, <1>7, <1>8

LEMMA UsesAppend ==
  ASSUME NEW b, NEW s \in Seq(Buffers), NEW x \in Buffers
  PROVE  Uses(b, Append(s, x)) = Uses(b, s) + Uses(b, <<x>>)
<1>1. <<x>> \in Seq(Buffers)
  OBVIOUS
<1>2. Append(s, x) = s \o <<x>>
  BY AppendIsConcat
<1>3. QED
  BY <1>1, <1>2, UsesConcat

(* A sequence is cut in two. *)
LEMMA UsesSplit ==
  ASSUME NEW b, NEW s \in Seq(Buffers), NEW k \in 0..Len(s)
  PROVE  /\ SubSeq(s, 1, k) \in Seq(Buffers) /\ SubSeq(s, k + 1, Len(s)) \in Seq(Buffers)
         /\ Uses(b, s) = Uses(b, SubSeq(s, 1, k)) + Uses(b, SubSeq(s, k + 1, Len(s)))
<1>1. Len(s) \in Nat /\ \A i \in 1..Len(s) : s[i] \in Buffers
  BY ElementOfSeq, LenProperties
<1>2. SubSeq(s, 1, k) \in Seq(Buffers) /\ SubSeq(s, k + 1, Len(s)) \in Seq(Buffers)
  <2>1. \A i \in 1..k : s[i] \in Buffers
    BY <1>1
  <2>2. \A i \in k + 1..Len(s) : s[i] \in Buffers
    BY <1>1
  <2>3. QED
    BY <1>1, <2>1, <2>2, SubSeqProperties
<1>3. SubSeq(s, 1, k) \o SubSeq(s, k + 1, Len(s)) = s
  <2>1. 1 \in 1..Len(s) + 1 /\ k \in 1 - 1..Len(s) /\ Len(s) \in k..Len(s)
    BY <1>1
  <2>2. SubSeq(s, 1, k) \o SubSeq(s, k + 1, Len(s)) = SubSeq(s, 1, Len(s))
    BY <2>1, ConcatAdjacentSubSeq
  <2>3. QED
    BY <2>2, SubSeqFull
<1>4. QED
  BY <1>2, <1>3, UsesConcat

(* A part is taken out. *)
LEMMA UsesRemoveAt ==
  ASSUME NEW b, NEW s \in Seq(Buffers), NEW k \in 1..Len(s)
  PROVE  /\ RemoveAt(s, k) \in Seq(Buffers)
         /\ Len(RemoveAt(s, k)) = Len(s) - 1
         /\ Uses(b, s) = Uses(b, RemoveAt(s, k)) + Uses(b, <<s[k]>>)
<1> DEFINE l == SubSeq(s, 1, k - 1)
           r == SubSeq(s, k, Len(s))
           t == SubSeq(s, k + 1, Len(s))
<1>1. Len(s) \in Nat /\ k \in Nat /\ k - 1 \in 0..Len(s) /\ k \in 0..Len(s) /\ (k - 1) + 1 = k
  BY LenProperties
<1>2. l \in Seq(Buffers) /\ r \in Seq(Buffers) /\ Uses(b, s) = Uses(b, l) + Uses(b, r)
  BY <1>1, UsesSplit
<1>3. t \in Seq(Buffers)
  BY <1>1, UsesSplit
<1>4. r = <<s[k]>> \o t /\ <<s[k]>> \in Seq(Buffers)
  <2>1. Len(s) \in k..Len(s)
    BY <1>1
  <2>2. s[k] \in Buffers
    BY ElementOfSeq
  <2>3. QED
    BY <2>1, <2>2, SubSeqRecursiveFirst
<1>5. Uses(b, r) = Uses(b, <<s[k]>>) + Uses(b, t)
  BY <1>3, <1>4, UsesConcat
<1>6. RemoveAt(s, k) = l \o t
  BY DEF RemoveAt
<1>7. Uses(b, RemoveAt(s, k)) = Uses(b, l) + Uses(b, t) /\ RemoveAt(s, k) \in Seq(Buffers)
  <2>1. l \o t \in Seq(Buffers)
    BY <1>2, <1>3, ConcatProperties
  <2>2. Uses(b, l \o t) = Uses(b, l) + Uses(b, t)
    BY <1>2, <1>3, UsesConcat
  <2>3. QED
    BY <1>6, <2>1, <2>2
<1>8. Len(RemoveAt(s, k)) = Len(s) - 1
  <2>1. \A i \in 1..k - 1 : s[i] \in Buffers
    BY <1>1, ElementOfSeq
  <2>2. \A i \in k + 1..Len(s) : s[i] \in Buffers
    BY <1>1, ElementOfSeq
  <2>3. Len(l) = k - 1
    BY <1>1, <2>1, SubSeqProperties
  <2>4. Len(t) = Len(s) - k
    BY <1>1, <2>2, SubSeqProperties
  <2>5. Len(l \o t) = Len(l) + Len(t)
    BY <1>2, <1>3, ConcatProperties
  <2> HIDE DEF l, t
  <2>6. QED
    BY <1>1, <1>6, <2>3, <2>4, <2>5
<1>9. /\ Uses(b, l) \in Nat /\ Uses(b, r) \in Nat /\ Uses(b, t) \in Nat
      /\ Uses(b, <<s[k]>>) \in Nat
  BY <1>2, <1>3, <1>4, PositionsFinite
<1> HIDE DEF l, r, t
<1>10. QED
  BY <1>2, <1>5, <1>7, <1>8, <1>9

-----------------------------------------------------------------------------
(* The places that hold a buffer: frames of messages, buffers of sockets *)

Places(P, b) == {p \in Objects \X Nat : p[2] \in Positions(b, P[p[1]])}
Holders(h, b) == {s \in Sockets : h[s] = b}
One(b, x) == IF x = b THEN 1 ELSE 0

(* The frames of message m are replaced by those of s. *)
LEMMA PlacesReplaced ==
  ASSUME NEW b, NEW P \in [Objects -> Seq(Buffers)], NEW m \in Objects,
         NEW s \in Seq(Buffers), IsFiniteSet(Places(P, b))
  PROVE  /\ IsFiniteSet(Places([P EXCEPT ![m] = s], b))
         /\ Cardinality(Places([P EXCEPT ![m] = s], b)) + Uses(b, P[m])
              = Cardinality(Places(P, b)) + Uses(b, s)
<1> DEFINE Q == [P EXCEPT ![m] = s]
           Old == {m} \X Positions(b, P[m])
           New == {m} \X Positions(b, s)
           Rest == Places(P, b) \ Old
<1>0. \A n \in Objects : Q[n] = IF n = m THEN s ELSE P[n]
  OBVIOUS
<1>1. P[m] \in Seq(Buffers)
  OBVIOUS
<1> HIDE DEF Q
<1>2. Positions(b, P[m]) \subseteq Nat /\ Positions(b, s) \subseteq Nat
  <2>1. Len(P[m]) \in Nat /\ Len(s) \in Nat
    BY <1>1, LenProperties
  <2>2. Positions(b, P[m]) \subseteq 1..Len(P[m]) /\ Positions(b, s) \subseteq 1..Len(s)
    BY <1>1, PositionsFinite, Zenon
  <2>3. QED
    BY <2>1, <2>2
<1>3. Old \subseteq Places(P, b) /\ Places(P, b) = Rest \cup Old /\ Rest \cap Old = {}
  BY <1>2 DEF Places
<1>4. Places(Q, b) = Rest \cup New /\ Rest \cap New = {}
  <2>2. ASSUME NEW p \in Places(Q, b) PROVE p \in Rest \cup New
    <3>1. CASE p[1] = m
      BY <1>0, <3>1 DEF Places
    <3>2. CASE p[1] # m
      BY <1>0, <3>2 DEF Places
    <3>3. QED BY <3>1, <3>2
  <2>3. ASSUME NEW p \in New PROVE p \in Places(Q, b) /\ p \notin Rest
    BY <1>0, <1>2 DEF Places
  <2>4. ASSUME NEW p \in Rest PROVE p \in Places(Q, b)
    <3>1. p[1] # m
      BY DEF Places
    <3>2. QED
      BY <1>0, <3>1 DEF Places
  <2>5. QED
    BY <2>2, <2>3, <2>4
<1>5. /\ IsFiniteSet(Old) /\ Cardinality(Old) = Uses(b, P[m]) /\ Uses(b, P[m]) \in Nat
      /\ IsFiniteSet(New) /\ Cardinality(New) = Uses(b, s) /\ Uses(b, s) \in Nat
  <2>1. ASSUME NEW u \in Seq(Buffers)
        PROVE  /\ IsFiniteSet({m} \X Positions(b, u))
               /\ Cardinality({m} \X Positions(b, u)) = Uses(b, u) /\ Uses(b, u) \in Nat
    <3>1. IsFiniteSet({m}) /\ Cardinality({m}) = 1
      BY FS_Singleton
    <3>2. IsFiniteSet(Positions(b, u)) /\ Cardinality(Positions(b, u)) = Uses(b, u) /\ Uses(b, u) \in Nat
      BY PositionsFinite
    <3>3. /\ IsFiniteSet({m} \X Positions(b, u))
          /\ Cardinality({m} \X Positions(b, u)) = 1 * Cardinality(Positions(b, u))
      BY <3>1, <3>2, FS_Product
    <3>4. QED
      BY <3>2, <3>3
  <2>2. QED
    BY <1>1, <2>1
<1>6. IsFiniteSet(Rest) /\ Cardinality(Rest) \in Nat
  BY FS_Difference, FS_CardinalityType
<1> HIDE DEF Old, New, Rest
<1>7. Cardinality(Rest \cup Old) = Cardinality(Rest) + Cardinality(Old)
  <2>1. Cardinality(Rest \cup Old) = Cardinality(Rest) + Cardinality(Old) - Cardinality(Rest \cap Old)
    BY <1>5, <1>6, FS_Union
  <2>2. Cardinality(Rest \cap Old) = 0
    BY <1>3, FS_EmptySet, Zenon
  <2>3. QED
    BY <1>5, <1>6, <2>1, <2>2
<1>8. IsFiniteSet(Rest \cup New) /\ Cardinality(Rest \cup New) = Cardinality(Rest) + Cardinality(New)
  <2>1. /\ IsFiniteSet(Rest \cup New)
        /\ Cardinality(Rest \cup New) = Cardinality(Rest) + Cardinality(New) - Cardinality(Rest \cap New)
    BY <1>5, <1>6, FS_Union
  <2>2. Cardinality(Rest \cap New) = 0
    BY <1>4, FS_EmptySet, Zenon
  <2>3. QED
    BY <1>5, <1>6, <2>1, <2>2
<1>9. Cardinality(Places(P, b)) = Cardinality(Rest) + Uses(b, P[m])
  BY <1>3, <1>5, <1>7, Zenon
<1>10. /\ IsFiniteSet(Places(Q, b))
       /\ Cardinality(Places(Q, b)) = Cardinality(Rest) + Uses(b, s)
  BY <1>4, <1>5, <1>8, Zenon
<1>11. /\ IsFiniteSet(Places(Q, b))
       /\ Cardinality(Places(Q, b)) + Uses(b, P[m]) = Cardinality(Places(P, b)) + Uses(b, s)
  BY <1>5, <1>6, <1>9, <1>10
<1>12. QED
  BY <1>11, Zenon DEF Q

(* Socket s holds x in its buffer instead. *)
LEMMA HoldersReplaced ==
  ASSUME NEW b, NEW h \in [Sockets -> Buffers \cup {None}],
         NEW s \in Sockets, NEW x \in Buffers \cup {None}, IsFiniteSet(Holders(h, b))
  PROVE  /\ IsFiniteSet(Holders([h EXCEPT ![s] = x], b))
         /\ Cardinality(Holders([h EXCEPT ![s] = x], b)) + One(b, h[s])
              = Cardinality(Holders(h, b)) + One(b, x)
<1> DEFINE g == [h EXCEPT ![s] = x]
           H == Holders(h, b)
<1>1. \A t \in Sockets : g[t] = IF t = s THEN x ELSE h[t]
  OBVIOUS
<1> HIDE DEF g
<1>2. ASSUME x = b
      PROVE  /\ IsFiniteSet(Holders(g, b))
             /\ Cardinality(Holders(g, b)) + One(b, h[s]) = Cardinality(H) + One(b, x)
  <2>1. Holders(g, b) = H \cup {s}
    BY <1>1, <1>2 DEF Holders
  <2>2. s \in H <=> h[s] = b
    BY DEF Holders
  <2>3. /\ IsFiniteSet(H \cup {s}) /\ Cardinality(H) \in Nat
        /\ Cardinality(H \cup {s}) = IF s \in H THEN Cardinality(H) ELSE Cardinality(H) + 1
    BY FS_AddElement, FS_CardinalityType
  <2>4. IsFiniteSet(Holders(g, b)) /\ Cardinality(Holders(g, b)) = Cardinality(H \cup {s})
    BY <2>1, <2>3, Zenon
  <2>5. Cardinality(H \cup {s}) + One(b, h[s]) = Cardinality(H) + One(b, x)
    BY <1>2, <2>2, <2>3 DEF One
  <2>6. QED
    BY <2>4, <2>5
<1>3. ASSUME x # b
      PROVE  /\ IsFiniteSet(Holders(g, b))
             /\ Cardinality(Holders(g, b)) + One(b, h[s]) = Cardinality(H) + One(b, x)
  <2>1. Holders(g, b) = H \ {s}
    BY <1>1, <1>3 DEF Holders
  <2>2. s \in H <=> h[s] = b
    BY DEF Holders
  <2>3. /\ IsFiniteSet(H \ {s}) /\ Cardinality(H) \in Nat
        /\ Cardinality(H \ {s}) = IF s \in H THEN Cardinality(H) - 1 ELSE Cardinality(H)
    BY FS_RemoveElement, FS_CardinalityType
  <2>4. IsFiniteSet(Holders(g, b)) /\ Cardinality(Holders(g, b)) = Cardinality(H \ {s})
    BY <2>1, <2>3, Zenon
  <2>5. Cardinality(H \ {s}) + One(b, h[s]) = Cardinality(H) + One(b, x)
    BY <1>3, <2>2, <2>3 DEF One
  <2>6. QED
    BY <2>4, <2>5
<1>4. QED
  BY <1>2, <1>3, Zenon DEF g, H

-----------------------------------------------------------------------------
(* The invariant: libzmq counts every place that holds a buffer, counts no more
   of a buffer that was not overwritten, and has released what it does not count
   at most once. *)

Count(b) == Cardinality(Places(parts, b)) + Cardinality(Holders(held, b))

Counted(b) ==
  /\ IsFiniteSet(Places(parts, b)) /\ IsFiniteSet(Holders(held, b))
  /\ refs[b] >= Count(b) /\ (b \notin lost => refs[b] = Count(b))
  /\ released[b] <= 1 /\ (released[b] > 0 => refs[b] = 0)

CountInv == \A b \in Buffers : Counted(b)

CountsTyped == refs \in [Buffers -> Nat] /\ released \in [Buffers -> Nat]

LEMMA CountFacts ==
  ASSUME TypeOK, NEW b \in Buffers, Counted(b)
  PROVE  /\ Cardinality(Places(parts, b)) \in Nat /\ Cardinality(Holders(held, b)) \in Nat
         /\ refs[b] \in Nat /\ released[b] \in Nat
         /\ \A m \in Objects :
              /\ parts[m] \in Seq(Buffers) /\ Uses(b, parts[m]) \in Nat
              /\ Uses(b, parts[m]) <= Cardinality(Places(parts, b))
         /\ \A s \in Sockets :
              /\ One(b, held[s]) \in Nat /\ One(b, held[s]) <= Cardinality(Holders(held, b))
              /\ Holding(s) \in Seq(Buffers) /\ Uses(b, Holding(s)) = One(b, held[s])
<1>1. /\ IsFiniteSet(Places(parts, b)) /\ Cardinality(Places(parts, b)) \in Nat
      /\ IsFiniteSet(Holders(held, b)) /\ Cardinality(Holders(held, b)) \in Nat
  BY FS_CardinalityType DEF Counted
<1>2. ASSUME NEW m \in Objects
      PROVE  /\ parts[m] \in Seq(Buffers) /\ Uses(b, parts[m]) \in Nat
             /\ Uses(b, parts[m]) <= Cardinality(Places(parts, b))
  <2>1. parts \in [Objects -> Seq(Buffers)] /\ parts[m] \in Seq(Buffers)
    BY DEF TypeOK
  <2>2. PICK none \in Seq(Buffers) : Uses(b, none) = 0
    BY UsesEmpty, EmptySeq
  <2> DEFINE Q == [parts EXCEPT ![m] = none]
  <2>4. /\ IsFiniteSet(Places(Q, b))
        /\ Cardinality(Places(Q, b)) + Uses(b, parts[m]) =
             Cardinality(Places(parts, b)) + Uses(b, none)
    BY <1>1, <2>1, PlacesReplaced, Zenon
  <2> HIDE DEF Q
  <2>5. Cardinality(Places(Q, b)) \in Nat /\ Uses(b, parts[m]) \in Nat
    BY <2>1, <2>4, FS_CardinalityType, PositionsFinite
  <2>6. QED
    BY <1>1, <2>1, <2>2, <2>4, <2>5
<1>3. ASSUME NEW s \in Sockets
      PROVE  /\ One(b, held[s]) \in Nat /\ One(b, held[s]) <= Cardinality(Holders(held, b))
             /\ Holding(s) \in Seq(Buffers) /\ Uses(b, Holding(s)) = One(b, held[s])
  <2>1. held \in [Sockets -> Buffers \cup {None}]
    BY DEF TypeOK
  <2>2. Cardinality(Holders(held, b)) = 0 => One(b, held[s]) = 0
    <3>1. Cardinality(Holders(held, b)) = 0 => Holders(held, b) = {}
      BY <1>1, FS_EmptySet, Zenon
    <3>2. QED
      BY <3>1 DEF Holders, One
  <2>3. Holding(s) \in Seq(Buffers)
    BY <2>1 DEF Holding
  <2>4. Uses(b, Holding(s)) = One(b, held[s])
    <3>1. CASE held[s] = None
      BY <3>1, UsesEmpty, MessageAssumption DEF Holding, One
    <3>2. CASE held[s] # None
      BY <3>2, UsesOne DEF Holding, One
    <3>3. QED
      BY <3>1, <3>2
  <2>5. QED
    BY <1>1, <2>2, <2>3, <2>4 DEF One
<1>4. refs[b] \in Nat /\ released[b] \in Nat
  BY DEF TypeOK
<1>5. QED
  BY <1>1, <1>2, <1>3, <1>4

(* What a step does to the places of buffer b, of which libzmq closes those in
   `closed' and gets to know those in `shared' *)
Balance(closed, shared, b) ==
  /\ IsFiniteSet(Places(parts', b)) /\ IsFiniteSet(Holders(held', b))
  /\ Count(b)' + Uses(b, closed) <= Count(b) + Uses(b, shared)
  /\ b \notin lost' =>
       b \notin lost /\ Count(b)' + Uses(b, closed) = Count(b) + Uses(b, shared)
  /\ Uses(b, closed) <= Count(b)
  /\ Uses(b, shared) > 0 => released[b] = 0

LEMMA RecountCounted ==
  ASSUME TypeOK, CountInv, NEW closed \in Seq(Buffers), NEW shared \in Seq(Buffers),
         Recount(closed, shared), \A b \in Buffers : Balance(closed, shared, b)
  PROVE  CountInv' /\ CountsTyped'
<1>1. ASSUME NEW b \in Buffers
      PROVE  /\ Counted(b)' /\ refs'[b] \in Nat /\ released'[b] \in Nat
  <2> DEFINE c == Uses(b, closed)
             s == Uses(b, shared)
             n == Count(b)
  <2>1. c \in Nat /\ s \in Nat
    BY PositionsFinite
  <2>2. n \in Nat /\ refs[b] \in Nat /\ released[b] \in Nat
    BY CountFacts DEF CountInv, Count
  <2>3. /\ refs[b] >= n /\ (b \notin lost => refs[b] = n)
        /\ released[b] <= 1 /\ (released[b] > 0 => refs[b] = 0)
    BY DEF CountInv, Counted
  <2>4. /\ IsFiniteSet(Places(parts', b)) /\ IsFiniteSet(Holders(held', b))
        /\ Count(b)' + c <= n + s
        /\ b \notin lost' => b \notin lost /\ Count(b)' + c = n + s
        /\ c <= n /\ (s > 0 => released[b] = 0)
    BY DEF Balance
  <2>5. Count(b)' \in Nat
    BY <2>4, FS_CardinalityType DEF Count
  <2>6. /\ refs'[b] = refs[b] + s - c
        /\ released'[b] = released[b] + IF c > 0 /\ refs'[b] = 0 THEN 1 ELSE 0
    BY DEF Recount
  <2> HIDE DEF c, s, n
  <2>7. /\ refs'[b] \in Nat /\ refs'[b] >= Count(b)' /\ (b \notin lost' => refs'[b] = Count(b)')
    <3>1. refs'[b] >= Count(b)'
      BY <2>1, <2>2, <2>3, <2>4, <2>5, <2>6
    <3>2. refs'[b] \in Nat
      BY <2>1, <2>2, <2>5, <2>6, <3>1
    <3>3. ASSUME b \notin lost' PROVE refs'[b] = Count(b)'
      <4>1. refs[b] = n /\ Count(b)' + c = n + s
        BY <2>3, <2>4, <3>3
      <4>2. QED
        BY <2>1, <2>2, <2>5, <2>6, <4>1, SMTT(30)
    <3>4. QED
      BY <3>1, <3>2, <3>3
  <2>8. /\ released'[b] \in Nat /\ released'[b] <= 1 /\ (released'[b] > 0 => refs'[b] = 0)
    <3>1. CASE c > 0 /\ refs'[b] = 0
      <4>1. n > 0
        BY <2>1, <2>2, <2>4, <3>1
      <4>2. released[b] = 0
        BY <2>2, <2>3, <4>1
      <4>3. released'[b] = 1
        BY <2>6, <3>1, <4>2
      <4>4. QED
        BY <3>1, <4>3
    <3>2. CASE ~(c > 0 /\ refs'[b] = 0)
      <4>1. released'[b] = released[b]
        BY <2>2, <2>6, <3>2
      <4>2. ASSUME released[b] > 0 PROVE refs'[b] = 0
        <5>1. refs[b] = 0 /\ s = 0
          BY <2>1, <2>3, <2>4, <4>2
        <5>2. n = 0
          BY <2>2, <2>3, <5>1
        <5>3. c = 0
          BY <2>1, <2>4, <5>2
        <5>4. QED
          BY <2>6, <5>1, <5>3
      <4>3. QED
        BY <2>2, <2>3, <4>1, <4>2
    <3>3. QED
      BY <3>1, <3>2
  <2>9. QED
    BY <2>4, <2>7, <2>8 DEF Counted
<1>2. DOMAIN refs' = Buffers /\ DOMAIN released' = Buffers
  BY DEF Recount
<1>3. CountsTyped'
  BY <1>1, <1>2 DEF Recount, CountsTyped
<1>4. QED
  BY <1>1, <1>3 DEF CountInv

(* A step that changes nothing at libzmq recounts nothing. *)
LEMMA NothingRecounted ==
  ASSUME TypeOK, UNCHANGED <<refs, released>>
  PROVE  Recount(<<>>, <<>>)
<1>1. \A b : Uses(b, <<>>) = 0
  BY UsesEmpty
<1>2. refs \in [Buffers -> Nat] /\ released \in [Buffers -> Nat]
  BY DEF TypeOK
<1>3. QED
  BY <1>1, <1>2 DEF Recount

-----------------------------------------------------------------------------
(* The steps of messages *)

(* One message gets other parts. *)
LEMMA PartsReplaced ==
  ASSUME TypeOK, NEW b \in Buffers, Counted(b), NEW m \in Objects, NEW s \in Seq(Buffers),
         parts' = [parts EXCEPT ![m] = s], UNCHANGED held
  PROVE  /\ IsFiniteSet(Places(parts', b)) /\ IsFiniteSet(Holders(held', b))
         /\ Count(b)' + Uses(b, parts[m]) = Count(b) + Uses(b, s)
         /\ Count(b) \in Nat /\ Count(b)' \in Nat /\ Uses(b, s) \in Nat
         /\ Uses(b, parts[m]) \in Nat /\ Uses(b, parts[m]) <= Count(b)
<1>1. parts \in [Objects -> Seq(Buffers)] /\ parts[m] \in Seq(Buffers)
  BY DEF TypeOK
<1>2. IsFiniteSet(Places(parts, b)) /\ IsFiniteSet(Holders(held', b))
  BY DEF Counted
<1>4. /\ IsFiniteSet(Places(parts', b))
      /\ Cardinality(Places(parts', b)) + Uses(b, parts[m]) = Cardinality(Places(parts, b)) + Uses(b, s)
  BY <1>1, <1>2, PlacesReplaced, Zenon
<1>5. Cardinality(Places(parts', b)) \in Nat
  BY <1>4, FS_CardinalityType
<1>6. Uses(b, s) \in Nat
  BY PositionsFinite
<1>7. /\ Cardinality(Places(parts, b)) \in Nat /\ Cardinality(Holders(held, b)) \in Nat
      /\ Uses(b, parts[m]) \in Nat /\ Uses(b, parts[m]) <= Cardinality(Places(parts, b))
  BY CountFacts
<1>8. QED
  BY <1>2, <1>4, <1>5, <1>6, <1>7, SMTT(30) DEF Count

LEMMA HeldReplaced ==
  ASSUME TypeOK, NEW b \in Buffers, Counted(b), NEW s \in Sockets,
         NEW x \in Buffers \cup {None}, held' = [held EXCEPT ![s] = x], UNCHANGED parts
  PROVE  /\ IsFiniteSet(Places(parts', b)) /\ IsFiniteSet(Holders(held', b))
         /\ Count(b)' + Uses(b, Holding(s)) = Count(b) + One(b, x)
         /\ Count(b) \in Nat /\ Count(b)' \in Nat /\ One(b, x) \in Nat
         /\ Uses(b, Holding(s)) \in Nat /\ Uses(b, Holding(s)) <= Count(b)
<1>1. held \in [Sockets -> Buffers \cup {None}]
  BY DEF TypeOK
<1>2. IsFiniteSet(Places(parts', b)) /\ IsFiniteSet(Holders(held, b))
  BY DEF Counted
<1>4. /\ IsFiniteSet(Holders(held', b))
      /\ Cardinality(Holders(held', b)) + One(b, held[s]) = Cardinality(Holders(held, b)) + One(b, x)
  BY <1>1, <1>2, HoldersReplaced, Zenon
<1>5. Cardinality(Holders(held', b)) \in Nat
  BY <1>4, FS_CardinalityType
<1>6. One(b, x) \in Nat
  BY DEF One
<1>7. /\ Cardinality(Places(parts, b)) \in Nat /\ Cardinality(Holders(held, b)) \in Nat
      /\ One(b, held[s]) \in Nat /\ One(b, held[s]) <= Cardinality(Holders(held, b))
      /\ Uses(b, Holding(s)) = One(b, held[s])
  BY CountFacts
<1>8. QED
  BY <1>2, <1>4, <1>5, <1>6, <1>7 DEF Count

LEMMA AddCounts ==
  ASSUME TypeOK, CountInv, NEW m \in Objects, NEW b \in Buffers, UNCHANGED sockets,
         Add(m, b) \/ PushFront(m, b)
  PROVE  CountInv' /\ CountsTyped'
<1>1. <<>> \in Seq(Buffers) /\ <<b>> \in Seq(Buffers) /\ parts[m] \in Seq(Buffers)
  BY DEF TypeOK
<1>2. Recount(<<>>, <<b>>) /\ Fresh(b) /\ UNCHANGED <<held, lost>>
  BY DEF Add, PushFront, sockets
<1>3. PICK s \in Seq(Buffers) :
        /\ parts' = [parts EXCEPT ![m] = s]
        /\ \A c \in Buffers : Uses(c, s) = Uses(c, parts[m]) + Uses(c, <<b>>)
  <2>1. CASE Add(m, b)
    <3>1. parts' = [parts EXCEPT ![m] = Append(parts[m], b)]
      BY <2>1 DEF Add
    <3>2. Append(parts[m], b) \in Seq(Buffers)
      BY <1>1, AppendProperties
    <3>3. \A c \in Buffers : Uses(c, Append(parts[m], b)) = Uses(c, parts[m]) + Uses(c, <<b>>)
      BY <1>1, UsesAppend
    <3>4. QED
      BY <3>1, <3>2, <3>3, Zenon
  <2>2. CASE PushFront(m, b)
    <3>1. parts' = [parts EXCEPT ![m] = <<b>> \o parts[m]]
      BY <2>2 DEF PushFront
    <3>2. <<b>> \o parts[m] \in Seq(Buffers)
      BY <1>1, ConcatProperties
    <3>3. \A c \in Buffers : Uses(c, <<b>> \o parts[m]) = Uses(c, parts[m]) + Uses(c, <<b>>)
      <4>1. \A c \in Buffers : Uses(c, <<b>> \o parts[m]) = Uses(c, <<b>>) + Uses(c, parts[m])
        BY <1>1, UsesConcat
      <4>2. \A c \in Buffers : Uses(c, <<b>>) \in Nat /\ Uses(c, parts[m]) \in Nat
        BY <1>1, PositionsFinite
      <4>3. QED
        BY <4>1, <4>2
    <3>4. QED
      BY <3>1, <3>2, <3>3, Zenon
  <2>3. QED
    BY <2>1, <2>2
<1>4. ASSUME NEW c \in Buffers PROVE Balance(<<>>, <<b>>, c)
  <2>1. /\ IsFiniteSet(Places(parts', c)) /\ IsFiniteSet(Holders(held', c))
        /\ Count(c)' + Uses(c, parts[m]) = Count(c) + Uses(c, s)
        /\ Count(c) \in Nat /\ Count(c)' \in Nat /\ Uses(c, parts[m]) \in Nat
    BY <1>2, <1>3, PartsReplaced DEF CountInv
  <2>2. Uses(c, <<>>) = 0 /\ Uses(c, <<b>>) = IF b = c THEN 1 ELSE 0
    BY UsesEmpty, UsesOne
  <2>3. Uses(c, s) = Uses(c, parts[m]) + Uses(c, <<b>>)
    BY <1>3
  <2>4. Uses(c, <<b>>) > 0 => released[c] = 0
    BY <1>2, <2>2 DEF Fresh
  <2>5. Count(c)' = Count(c) + Uses(c, <<b>>)
    BY <2>1, <2>2, <2>3
  <2>6. QED
    BY <1>2, <2>1, <2>2, <2>4, <2>5 DEF Balance
<1>5. QED
  BY <1>1, <1>2, <1>4, RecountCounted

LEMMA RemovePartCounts ==
  ASSUME TypeOK, CountInv, NEW m \in Objects, NEW k, RemovePart(m, k), UNCHANGED sockets
  PROVE  CountInv' /\ CountsTyped'
<1> DEFINE x == parts[m][k]
           s == RemoveAt(parts[m], k)
<1>1. /\ <<>> \in Seq(Buffers) /\ <<x>> \in Seq(Buffers) /\ parts[m] \in Seq(Buffers)
      /\ k \in 1..Len(parts[m])
  <2>1. parts[m] \in Seq(Buffers) /\ k \in DOMAIN parts[m]
    BY DEF TypeOK, RemovePart
  <2>2. k \in 1..Len(parts[m]) /\ x \in Buffers
    BY <2>1, LenProperties, ElementOfSeq
  <2>3. QED
    BY <2>1, <2>2
<1>2. /\ parts' = [parts EXCEPT ![m] = s] /\ s \in Seq(Buffers) /\ UNCHANGED held
      /\ \A b \in Buffers : Uses(b, parts[m]) = Uses(b, s) + Uses(b, <<x>>)
  BY <1>1, UsesRemoveAt DEF RemovePart, Erase, sockets
<1>3. ASSUME NEW b \in Buffers
      PROVE  /\ IsFiniteSet(Places(parts', b)) /\ IsFiniteSet(Holders(held', b))
             /\ Count(b)' + Uses(b, <<x>>) = Count(b)
             /\ Count(b) \in Nat /\ Count(b)' \in Nat
             /\ Uses(b, <<>>) = 0 /\ Uses(b, <<x>>) = IF x = b THEN 1 ELSE 0
  <2>1. Counted(b)
    BY DEF CountInv
  <2>2. /\ IsFiniteSet(Places(parts', b)) /\ IsFiniteSet(Holders(held', b))
        /\ Count(b)' + Uses(b, parts[m]) = Count(b) + Uses(b, s)
        /\ Count(b) \in Nat /\ Count(b)' \in Nat /\ Uses(b, s) \in Nat
    BY <1>2, <2>1, PartsReplaced
  <2>3. Uses(b, parts[m]) = Uses(b, s) + Uses(b, <<x>>)
    BY <1>2
  <2>4. Uses(b, <<>>) = 0 /\ Uses(b, <<x>>) = IF x = b THEN 1 ELSE 0
    BY UsesEmpty, UsesOne
  <2> HIDE DEF x, s
  <2>5. QED
    BY <2>2, <2>3, <2>4
<1>4. CASE k = Len(parts[m])
  <2>1. Recount(<<x>>, <<>>) /\ UNCHANGED lost
    BY <1>4 DEF RemovePart, Erase
  <2> HIDE DEF x
  <2>2. \A b \in Buffers : Balance(<<x>>, <<>>, b)
    BY <1>3, <2>1 DEF Balance
  <2>3. QED
    BY <1>1, <2>1, <2>2, RecountCounted
<1>5. CASE k # Len(parts[m])
  <2>1. lost' = lost \cup {x} /\ UNCHANGED <<refs, released>>
    BY <1>5 DEF RemovePart, Erase
  <2> HIDE DEF x
  <2>2. \A b \in Buffers : Balance(<<>>, <<>>, b)
    BY <1>3, <2>1 DEF Balance
  <2>3. QED
    BY <1>1, <2>1, <2>2, NothingRecounted, RecountCounted
<1>6. QED
  BY <1>4, <1>5

LEMMA MoveCounts ==
  ASSUME TypeOK, CountInv, NEW m \in Objects, NEW n \in Objects, Move(m, n), UNCHANGED sockets
  PROVE  CountInv' /\ CountsTyped'
<1> DEFINE P == [parts EXCEPT ![m] = parts[n]]
<1>1. /\ parts \in [Objects -> Seq(Buffers)] /\ parts[m] \in Seq(Buffers)
      /\ parts[n] \in Seq(Buffers) /\ <<>> \in Seq(Buffers) /\ UNCHANGED <<held, lost>>
      /\ m # n /\ Recount(parts[m], <<>>)
  BY DEF TypeOK, Move, sockets
<1>2. P \in [Objects -> Seq(Buffers)] /\ P[n] = parts[n] /\ parts' = [P EXCEPT ![n] = <<>>]
  BY <1>1 DEF Move
<1>3. ASSUME NEW b \in Buffers
      PROVE  Balance(parts[m], <<>>, b)
  <2>1. IsFiniteSet(Places(parts, b)) /\ IsFiniteSet(Holders(held', b))
    BY <1>1 DEF CountInv, Counted
  <2>2. /\ IsFiniteSet(Places(P, b))
        /\ Cardinality(Places(P, b)) + Uses(b, parts[m]) = Cardinality(Places(parts, b)) + Uses(b, parts[n])
    BY <1>1, <2>1, PlacesReplaced, Zenon
  <2> HIDE DEF P
  <2>3. /\ IsFiniteSet(Places(parts', b))
        /\ Cardinality(Places(parts', b)) + Uses(b, P[n]) = Cardinality(Places(P, b)) + Uses(b, <<>>)
    BY <1>1, <1>2, <2>2, PlacesReplaced, Zenon
  <2>4. /\ Cardinality(Places(parts, b)) \in Nat /\ Cardinality(Holders(held, b)) \in Nat
        /\ Cardinality(Places(P, b)) \in Nat /\ Cardinality(Places(parts', b)) \in Nat
        /\ Uses(b, parts[m]) \in Nat /\ Uses(b, parts[n]) \in Nat
    BY <1>1, <2>1, <2>2, <2>3, FS_CardinalityType, PositionsFinite
  <2>5. Cardinality(Places(parts', b)) + Uses(b, parts[m]) = Cardinality(Places(parts, b))
    <3>1. Uses(b, <<>>) = 0 /\ Uses(b, P[n]) = Uses(b, parts[n])
      BY <1>2, UsesEmpty
    <3>2. QED
      BY <2>2, <2>3, <2>4, <3>1
  <2>6. QED
    BY <1>1, <2>1, <2>3, <2>4, <2>5, UsesEmpty DEF Balance, Count
<1>4. QED
  BY <1>1, <1>3, RecountCounted

(* The parts of message m are replaced by those of `shared', and libzmq closes
   some of them: what it does not close is lost. *)
CanReplace(old, closed, shared, forgotten) ==
  \A b \in Buffers :
    /\ Uses(b, closed) <= Uses(b, old)
    /\ b \notin forgotten => Uses(b, closed) = Uses(b, old)
    /\ Uses(b, shared) > 0 => released[b] = 0

LEMMA ReplaceCounts ==
  ASSUME TypeOK, CountInv, NEW m \in Objects, NEW closed \in Seq(Buffers),
         NEW shared \in Seq(Buffers), NEW forgotten, UNCHANGED held,
         parts' = [parts EXCEPT ![m] = shared], Recount(closed, shared),
         lost' = lost \cup forgotten, CanReplace(parts[m], closed, shared, forgotten)
  PROVE  CountInv' /\ CountsTyped'
<1>1. ASSUME NEW b \in Buffers PROVE Balance(closed, shared, b)
  <2>1. Counted(b)
    BY DEF CountInv
  <2>2. /\ IsFiniteSet(Places(parts', b)) /\ IsFiniteSet(Holders(held', b))
        /\ Count(b)' + Uses(b, parts[m]) = Count(b) + Uses(b, shared)
        /\ Count(b) \in Nat /\ Count(b)' \in Nat /\ Uses(b, shared) \in Nat
        /\ Uses(b, parts[m]) \in Nat /\ Uses(b, parts[m]) <= Count(b)
    BY <2>1, PartsReplaced
  <2>3. Uses(b, closed) \in Nat
    BY PositionsFinite
  <2>4. /\ Uses(b, closed) <= Uses(b, parts[m])
        /\ b \notin forgotten => Uses(b, closed) = Uses(b, parts[m])
        /\ Uses(b, shared) > 0 => released[b] = 0
    BY DEF CanReplace
  <2>5. Count(b)' + Uses(b, closed) <= Count(b) + Uses(b, shared) /\ Uses(b, closed) <= Count(b)
    BY <2>2, <2>3, <2>4
  <2>6. ASSUME b \notin lost'
        PROVE  b \notin lost /\ Count(b)' + Uses(b, closed) = Count(b) + Uses(b, shared)
    BY <2>2, <2>4, <2>6
  <2>7. QED
    BY <2>2, <2>4, <2>5, <2>6 DEF Balance
<1>2. QED
  BY <1>1, RecountCounted

(* What a message holds has not been released. *)
LEMMA PartsNotReleased ==
  ASSUME TypeOK, CountInv, NEW n \in Objects, NEW b \in Buffers, Uses(b, parts[n]) > 0
  PROVE  released[b] = 0
<1>1. refs[b] >= Count(b) /\ (released[b] > 0 => refs[b] = 0) /\ Counted(b)
  BY DEF CountInv, Counted
<1>2. /\ Cardinality(Places(parts, b)) \in Nat /\ Cardinality(Holders(held, b)) \in Nat
      /\ refs[b] \in Nat /\ released[b] \in Nat
      /\ Uses(b, parts[n]) \in Nat /\ Uses(b, parts[n]) <= Cardinality(Places(parts, b))
  BY <1>1, CountFacts
<1>3. QED
  BY <1>1, <1>2 DEF Count

LEMMA CopyCounts ==
  ASSUME TypeOK, CountInv, NEW m \in Objects, NEW n \in Objects, UNCHANGED sockets,
         Copy(m, n) \/ CopyNew(m, n) \/ Renew(m)
  PROVE  CountInv' /\ CountsTyped'
<1>1. /\ parts[m] \in Seq(Buffers) /\ parts[n] \in Seq(Buffers) /\ <<>> \in Seq(Buffers)
      /\ UNCHANGED held
  BY DEF TypeOK, sockets
<1>2. \A b \in Buffers : /\ Uses(b, parts[m]) \in Nat /\ Uses(b, <<>>) = 0
                         /\ Uses(b, parts[n]) > 0 => released[b] = 0
  BY <1>1, PositionsFinite, PartsNotReleased, UsesEmpty
<1>3. CASE Renew(m)
  <2>1. /\ parts' = [parts EXCEPT ![m] = <<>>] /\ Recount(parts[m], <<>>) /\ lost' = lost \cup {}
    BY <1>3 DEF Renew
  <2>2. CanReplace(parts[m], parts[m], <<>>, {})
    BY <1>2 DEF CanReplace
  <2>3. QED
    BY <1>1, <2>1, <2>2, ReplaceCounts
<1>4. CASE CopyNew(m, n)
  <2>1. /\ parts' = [parts EXCEPT ![m] = parts[n]] /\ Recount(parts[m], parts[n])
        /\ lost' = lost \cup {}
    BY <1>4 DEF CopyNew
  <2>2. CanReplace(parts[m], parts[m], parts[n], {})
    BY <1>2 DEF CanReplace
  <2>3. QED
    BY <1>1, <2>1, <2>2, ReplaceCounts
<1>5. CASE Copy(m, n)
  <2> DEFINE over == {parts[m][k] : k \in (DOMAIN parts[m]) \cap (DOMAIN parts[n])}
             rest == SubSeq(parts[m], Len(parts[n]) + 1, Len(parts[m]))
  <2>1. /\ parts' = [parts EXCEPT ![m] = parts[n]] /\ Recount(rest, parts[n])
        /\ lost' = lost \cup over
    BY <1>5 DEF Copy
  <2>2. CASE Len(parts[n]) <= Len(parts[m])
    <3> DEFINE first == SubSeq(parts[m], 1, Len(parts[n]))
    <3>1. Len(parts[n]) \in 0..Len(parts[m]) /\ Len(parts[n]) \in Nat /\ Len(parts[m]) \in Nat
      BY <1>1, <2>2, LenProperties
    <3>2. /\ first \in Seq(Buffers) /\ rest \in Seq(Buffers)
          /\ \A b \in Buffers : Uses(b, parts[m]) = Uses(b, first) + Uses(b, rest)
      BY <1>1, <3>1, UsesSplit
    <3>3. /\ Len(first) = Len(parts[n]) /\ \A k \in 1..Len(first) : first[k] = parts[m][k]
      <4>1. \A k \in 1..Len(parts[n]) : parts[m][k] \in Buffers
        BY <1>1, <3>1, ElementOfSeq
      <4>2. QED
        BY <3>1, <4>1, SubSeqProperties
    <3>4. ASSUME NEW b \in Buffers, b \notin over PROVE Uses(b, first) = 0
      <4>1. ~ \E k \in 1..Len(first) : first[k] = b
        BY <1>1, <3>1, <3>3, <3>4, LenProperties
      <4> HIDE DEF first
      <4>2. QED
        BY <3>2, <4>1, UsesZero, PositionsFinite
    <3>5. \A b \in Buffers : Uses(b, first) \in Nat /\ Uses(b, rest) \in Nat
      BY <3>2, PositionsFinite
    <3> HIDE DEF first, rest, over
    <3>6. \A b \in Buffers : /\ Uses(b, rest) <= Uses(b, parts[m])
                             /\ b \notin over => Uses(b, rest) = Uses(b, parts[m])
      BY <3>2, <3>4, <3>5
    <3>7. QED
      <4>1. rest \in Seq(Buffers)
        BY <3>2
      <4>2. QED
        <5>1. CanReplace(parts[m], rest, parts[n], over)
          BY <1>2, <3>6 DEF CanReplace
        <5>2. QED
          BY <1>1, <2>1, <4>1, <5>1, ReplaceCounts
  <2>3. CASE ~(Len(parts[n]) <= Len(parts[m]))
    <3>1. Len(parts[n]) \in Nat /\ Len(parts[m]) \in Nat /\ Len(parts[m]) < Len(parts[n])
      BY <1>1, <2>3, LenProperties
    <3>2. rest = <<>> /\ rest \in Seq(Buffers)
      <4>1. Len(parts[n]) + 1 \in Int /\ Len(parts[m]) \in Int /\ Len(parts[m]) < Len(parts[n]) + 1
        BY <3>1
      <4>2. rest = <<>>
        BY <4>1, SubSeqEmpty, Zenon
      <4>3. QED
        BY <1>1, <4>2, Zenon
    <3>3. ASSUME NEW b \in Buffers, b \notin over PROVE Uses(b, parts[m]) = 0
      <4>1. ~ \E k \in 1..Len(parts[m]) : parts[m][k] = b
        BY <1>1, <3>1, <3>3, LenProperties
      <4>2. QED
        BY <1>1, <1>2, <4>1, UsesZero
    <3> HIDE DEF rest, over
    <3>4. \A b \in Buffers : /\ Uses(b, rest) <= Uses(b, parts[m])
                             /\ b \notin over => Uses(b, rest) = Uses(b, parts[m])
      BY <1>2, <3>2, <3>3
    <3>5. CanReplace(parts[m], rest, parts[n], over)
      BY <1>2, <3>4 DEF CanReplace
    <3>6. QED
      BY <1>1, <2>1, <3>2, <3>5, ReplaceCounts
  <2>4. QED
    BY <2>2, <2>3
<1>6. QED
  BY <1>3, <1>4, <1>5

-----------------------------------------------------------------------------
(* The steps of sockets *)

LEMMA ReceiveCounts ==
  ASSUME TypeOK, CountInv, NEW s \in Sockets, NEW m \in Objects, NEW b \in Buffers,
         Receive(s, m, b)
  PROVE  CountInv' /\ CountsTyped'
<1> DEFINE closed == parts[m] \o Holding(s)
<1>1. /\ parts \in [Objects -> Seq(Buffers)] /\ parts[m] \in Seq(Buffers) /\ <<b>> \in Seq(Buffers)
      /\ held \in [Sockets -> Buffers \cup {None}] /\ None \in Buffers \cup {None}
  BY DEF TypeOK
<1>2. /\ parts' = [parts EXCEPT ![m] = <<b>>] /\ held' = [held EXCEPT ![s] = None]
      /\ Recount(closed, <<b>>) /\ Fresh(b) /\ UNCHANGED lost
  BY DEF Receive
<1>3. ASSUME NEW c \in Buffers
      PROVE  Balance(closed, <<b>>, c) /\ closed \in Seq(Buffers)
  <2>1. IsFiniteSet(Places(parts, c)) /\ IsFiniteSet(Holders(held, c)) /\ Counted(c)
    BY DEF CountInv, Counted
  <2>2. /\ IsFiniteSet(Places(parts', c))
        /\ Cardinality(Places(parts', c)) + Uses(c, parts[m]) = Cardinality(Places(parts, c)) + Uses(c, <<b>>)
    BY <1>1, <1>2, <2>1, PlacesReplaced, Zenon
  <2>3. /\ IsFiniteSet(Holders(held', c))
        /\ Cardinality(Holders(held', c)) + One(c, held[s]) = Cardinality(Holders(held, c)) + One(c, None)
    BY <1>1, <1>2, <2>1, HoldersReplaced, Zenon
  <2>4. /\ Cardinality(Places(parts, c)) \in Nat /\ Cardinality(Holders(held, c)) \in Nat
        /\ Uses(c, parts[m]) \in Nat /\ One(c, held[s]) \in Nat
        /\ Uses(c, parts[m]) <= Cardinality(Places(parts, c))
        /\ One(c, held[s]) <= Cardinality(Holders(held, c))
        /\ Holding(s) \in Seq(Buffers) /\ Uses(c, Holding(s)) = One(c, held[s])
    BY <2>1, CountFacts
  <2>5. closed \in Seq(Buffers) /\ Uses(c, closed) = Uses(c, parts[m]) + One(c, held[s])
    BY <1>1, <2>4, UsesConcat, ConcatProperties
  <2>6. /\ Cardinality(Places(parts', c)) \in Nat /\ Cardinality(Holders(held', c)) \in Nat
        /\ Uses(c, <<b>>) \in Nat
    BY <1>1, <2>2, <2>3, FS_CardinalityType, PositionsFinite
  <2>7. One(c, None) = 0
    BY MessageAssumption DEF One
  <2>8. Uses(c, <<b>>) > 0 => released[c] = 0
    BY <1>2, UsesOne DEF Fresh
  <2>9. Count(c)' + Uses(c, closed) = Count(c) + Uses(c, <<b>>) /\ Uses(c, closed) <= Count(c)
    <3> HIDE DEF closed
    <3>1. Count(c) = Cardinality(Places(parts, c)) + Cardinality(Holders(held, c))
      BY DEF Count
    <3>2. Count(c)' = Cardinality(Places(parts', c)) + Cardinality(Holders(held', c))
      BY DEF Count
    <3>3. Count(c)' + Uses(c, closed) = Count(c) + Uses(c, <<b>>)
      <4>1. Cardinality(Places(parts', c)) = Cardinality(Places(parts, c)) + Uses(c, <<b>>) - Uses(c, parts[m])
        BY <2>2, <2>4, <2>6, SMTT(30)
      <4>2. Cardinality(Holders(held', c)) = Cardinality(Holders(held, c)) - One(c, held[s])
        BY <2>3, <2>4, <2>6, <2>7
      <4>3. Uses(c, closed) = Uses(c, parts[m]) + One(c, held[s])
        BY <2>5
      <4>4. QED
        BY <2>4, <2>6, <3>1, <3>2, <4>1, <4>2, <4>3, SMTT(30)
    <3>4. Uses(c, closed) <= Count(c)
      BY <2>4, <2>5, <3>1
    <3>5. QED
      BY <3>3, <3>4
  <2>10. Count(c)' \in Nat /\ Count(c) \in Nat
    BY <2>4, <2>6 DEF Count
  <2>11. closed \in Seq(Buffers)
    BY <2>5
  <2> HIDE DEF closed
  <2>12. QED
    BY <1>2, <2>2, <2>3, <2>6, <2>8, <2>9, <2>10, <2>11, PositionsFinite DEF Balance
<1>4. closed \in Seq(Buffers)
  BY <1>1, <1>3
<1>5. QED
  BY <1>1, <1>2, <1>3, <1>4, RecountCounted

LEMMA HoldCounts ==
  ASSUME TypeOK, CountInv, NEW s \in Sockets,
         ReceiveNothing(s) \/ Destroy(s) \/ Construct(s) \/ Close(s) \/ \E b \in Buffers : ReceiveString(s, b)
  PROVE  CountInv' /\ CountsTyped'
<1>1. /\ held \in [Sockets -> Buffers \cup {None}] /\ None \in Buffers \cup {None}
      /\ <<>> \in Seq(Buffers)
  BY DEF TypeOK
<1>2. Holding(s) \in Seq(Buffers)
  BY <1>1 DEF Holding
<1>3. \A b \in Buffers : One(b, None) = 0 /\ Uses(b, <<>>) = 0
  BY UsesEmpty, MessageAssumption DEF One
<1>4. CASE ReceiveNothing(s) \/ Destroy(s)
  <2>1. /\ Recount(Holding(s), <<>>) /\ held' = [held EXCEPT ![s] = None] /\ UNCHANGED <<parts, lost>>
    BY <1>4 DEF ReceiveNothing, Destroy, BecomesOf
  <2>2. ASSUME NEW b \in Buffers PROVE Balance(Holding(s), <<>>, b)
    <3>1. /\ IsFiniteSet(Places(parts', b)) /\ IsFiniteSet(Holders(held', b))
          /\ Count(b)' + Uses(b, Holding(s)) = Count(b) + One(b, None)
          /\ Count(b) \in Nat /\ Count(b)' \in Nat
          /\ Uses(b, Holding(s)) \in Nat /\ Uses(b, Holding(s)) <= Count(b)
      BY <1>1, <2>1, HeldReplaced DEF CountInv
    <3>2. QED
      BY <1>3, <2>1, <3>1 DEF Balance
  <2>3. QED
    BY <1>1, <1>2, <2>1, <2>2, RecountCounted
<1>5. CASE Construct(s) \/ Close(s)
  <2>1. UNCHANGED <<refs, released, parts, lost, held>>
    BY <1>1, <1>5 DEF Construct, Close, BecomesOf, contents
  <2>2. QED
    BY <2>1 DEF CountInv, CountsTyped, Counted, Count, TypeOK
<1>6. ASSUME NEW b \in Buffers, ReceiveString(s, b) PROVE CountInv' /\ CountsTyped'
  <2>1. /\ Recount(Holding(s), <<b>>) /\ held' = [held EXCEPT ![s] = b] /\ UNCHANGED <<parts, lost>>
        /\ Fresh(b)
    BY <1>6 DEF ReceiveString, BecomesOf
  <2>a. <<b>> \in Seq(Buffers)
    OBVIOUS
  <2>2. ASSUME NEW c \in Buffers PROVE Balance(Holding(s), <<b>>, c)
    <3>1. /\ IsFiniteSet(Places(parts', c)) /\ IsFiniteSet(Holders(held', c))
          /\ Count(c)' + Uses(c, Holding(s)) = Count(c) + One(c, b)
          /\ Count(c) \in Nat /\ Count(c)' \in Nat
          /\ Uses(c, Holding(s)) \in Nat /\ Uses(c, Holding(s)) <= Count(c)
      BY <2>1, HeldReplaced DEF CountInv
    <3>2. Uses(c, <<b>>) = One(c, b) /\ (Uses(c, <<b>>) > 0 => released[c] = 0)
      BY <2>1, UsesOne DEF One, Fresh
    <3>3. QED
      BY <2>1, <3>1, <3>2 DEF Balance
  <2>3. QED
    BY <1>2, <2>1, <2>a, <2>2, RecountCounted
<1>7. QED
  BY <1>4, <1>5, <1>6

LEMMA MoveSocketCounts ==
  ASSUME TypeOK, CountInv, NEW s \in Sockets, NEW t \in Sockets,
         MoveConstruct(s, t) \/ MoveAssign(s, t)
  PROVE  CountInv' /\ CountsTyped'
<1> DEFINE h == [held EXCEPT ![s] = held[t]]
<1>1. /\ held \in [Sockets -> Buffers \cup {None}] /\ None \in Buffers \cup {None}
      /\ held[t] \in Buffers \cup {None} /\ <<>> \in Seq(Buffers)
  BY DEF TypeOK
<1>2. /\ s # t /\ held' = [held EXCEPT ![s] = held[t], ![t] = None]
      /\ UNCHANGED <<parts, refs, released>>
      /\ lost' = lost \cup ({held[s]} \ {None})
  BY DEF MoveConstruct, MoveAssign, contents
<1>3. h \in [Sockets -> Buffers \cup {None}] /\ h[t] = held[t] /\ held' = [h EXCEPT ![t] = None]
  BY <1>1, <1>2
<1>4. ASSUME NEW b \in Buffers
      PROVE  Balance(<<>>, <<>>, b)
  <2>1. IsFiniteSet(Places(parts', b)) /\ IsFiniteSet(Holders(held, b)) /\ Counted(b)
    BY <1>2 DEF CountInv, Counted
  <2>2. /\ IsFiniteSet(Holders(h, b))
        /\ Cardinality(Holders(h, b)) + One(b, held[s]) = Cardinality(Holders(held, b)) + One(b, held[t])
    BY <1>1, <2>1, HoldersReplaced, Zenon
  <2> HIDE DEF h
  <2>3. /\ IsFiniteSet(Holders(held', b))
        /\ Cardinality(Holders(held', b)) + One(b, h[t]) = Cardinality(Holders(h, b)) + One(b, None)
    BY <1>1, <1>3, <2>2, HoldersReplaced, Zenon
  <2>4. /\ Cardinality(Places(parts, b)) \in Nat /\ Cardinality(Holders(held, b)) \in Nat
        /\ Cardinality(Holders(h, b)) \in Nat /\ Cardinality(Holders(held', b)) \in Nat
        /\ One(b, held[s]) \in Nat /\ One(b, held[t]) \in Nat
    BY <2>1, <2>2, <2>3, CountFacts, FS_CardinalityType
  <2>5. One(b, h[t]) = One(b, held[t]) /\ One(b, None) = 0 /\ Uses(b, <<>>) = 0
    BY <1>3, UsesEmpty, MessageAssumption DEF One
  <2>6. Cardinality(Holders(held', b)) + One(b, held[s]) = Cardinality(Holders(held, b))
    BY <2>2, <2>3, <2>4, <2>5
  <2>7. Count(b)' + One(b, held[s]) = Count(b) /\ Count(b) \in Nat /\ Count(b)' \in Nat
    BY <1>2, <2>4, <2>6 DEF Count
  <2>8. b \notin lost' => b \notin lost /\ One(b, held[s]) = 0
    BY <1>2, MessageAssumption DEF One
  <2>9. QED
    BY <2>1, <2>3, <2>4, <2>5, <2>7, <2>8 DEF Balance
<1>5. QED
  BY <1>1, <1>2, <1>4, NothingRecounted, RecountCounted

-----------------------------------------------------------------------------
(* Types *)

BoundedParts == {s \in Seq(Buffers) : Len(s) <= MaxParts}

PartsTyped == parts \in [Objects -> BoundedParts]
ReadTyped == cursor \in [Objects -> 0..MaxCursor] /\ strayed \subseteq Objects
SocketsTyped ==
  open \in [Sockets -> BOOLEAN] /\ held \in [Sockets -> Buffers \cup {None}] /\ lost \subseteq Buffers

LEMMA TypesTogether == TypeOK <=> PartsTyped /\ ReadTyped /\ SocketsTyped /\ CountsTyped
<1>1. PartsTyped <=> parts \in [Objects -> Seq(Buffers)] /\ \A m \in Objects : Len(parts[m]) <= MaxParts
  BY DEF PartsTyped, BoundedParts
<1>2. QED
  BY <1>1 DEF TypeOK, ReadTyped, SocketsTyped, CountsTyped

LEMMA PartsAreTyped ==
  ASSUME TypeOK, Next
  PROVE  PartsTyped'
<1>1. PartsTyped /\ {MaxParts, MaxCursor} \subseteq Nat \ {0}
  BY TypesTogether, MessageAssumption
<1>2. ASSUME NEW m \in Objects, NEW s \in Seq(Buffers), Len(s) <= MaxParts,
             parts' = [parts EXCEPT ![m] = s]
      PROVE  PartsTyped'
  <2>1. s \in BoundedParts
    BY <1>2 DEF BoundedParts
  <2>2. QED
    BY <1>1, <1>2, <2>1 DEF PartsTyped
<1>3. \A m \in Objects : parts[m] \in Seq(Buffers) /\ Len(parts[m]) \in Nat /\ Len(parts[m]) <= MaxParts
  BY LenProperties DEF TypeOK
<1>4. \A b \in Buffers : <<b>> \in Seq(Buffers) /\ Len(<<b>>) = 1 /\ 1 <= MaxParts
  BY <1>1
<1>5. <<>> \in Seq(Buffers) /\ Len(<<>>) = 0 /\ 0 <= MaxParts
  BY <1>1
<1>6. ASSUME UNCHANGED parts PROVE PartsTyped'
  BY <1>1, <1>6 DEF PartsTyped
<1>7. ASSUME NEW m \in Objects, MessageStep(m) PROVE PartsTyped'
  <2>1. ASSUME NEW b \in Buffers, Add(m, b) PROVE PartsTyped'
    <3>1. Append(parts[m], b) \in Seq(Buffers) /\ Len(Append(parts[m], b)) = Len(parts[m]) + 1
      BY <1>3, AppendProperties
    <3>2. parts' = [parts EXCEPT ![m] = Append(parts[m], b)] /\ Len(parts[m]) + 1 <= MaxParts
      BY <1>1, <1>3, <2>1 DEF Add
    <3>3. QED
      BY <1>2, <3>1, <3>2
  <2>2. ASSUME NEW b \in Buffers, PushFront(m, b) PROVE PartsTyped'
    <3>1. <<b>> \o parts[m] \in Seq(Buffers) /\ Len(<<b>> \o parts[m]) = 1 + Len(parts[m])
      BY <1>3, <1>4, ConcatProperties
    <3>2. parts' = [parts EXCEPT ![m] = <<b>> \o parts[m]] /\ 1 + Len(parts[m]) <= MaxParts
      BY <1>1, <1>3, <2>2 DEF PushFront
    <3>3. QED
      BY <1>2, <3>1, <3>2
  <2>3. ASSUME NEW k, RemovePart(m, k) PROVE PartsTyped'
    <3>1. k \in 1..Len(parts[m]) /\ parts' = [parts EXCEPT ![m] = RemoveAt(parts[m], k)]
      BY <1>3, <2>3, LenProperties DEF RemovePart, Erase
    <3>2. RemoveAt(parts[m], k) \in Seq(Buffers) /\ Len(RemoveAt(parts[m], k)) = Len(parts[m]) - 1
      BY <1>3, <3>1, UsesRemoveAt
    <3>3. Len(RemoveAt(parts[m], k)) <= MaxParts
      BY <1>1, <1>3, <3>2
    <3>4. QED
      BY <1>2, <3>1, <3>2, <3>3
  <2>4. ASSUME NEW n \in Objects, Move(m, n) PROVE PartsTyped'
    <3>1. parts' = [parts EXCEPT ![m] = parts[n], ![n] = <<>>]
      BY <2>4 DEF Move
    <3>2. <<>> \in BoundedParts
      BY <1>5 DEF BoundedParts
    <3>3. QED
      BY <1>1, <3>1, <3>2 DEF PartsTyped
  <2>5. ASSUME NEW n \in Objects, Copy(m, n) \/ CopyNew(m, n) PROVE PartsTyped'
    <3>1. parts' = [parts EXCEPT ![m] = parts[n]]
      BY <2>5 DEF Copy, CopyNew
    <3>2. QED
      BY <1>2, <1>3, <3>1
  <2>6. CASE Renew(m)
    <3>1. parts' = [parts EXCEPT ![m] = <<>>]
      BY <2>6 DEF Renew
    <3>2. QED
      BY <1>2, <1>5, <3>1
  <2>7. CASE Read(m) \/ Skip(m) \/ Remaining(m) \/ ResetCursor(m) \/ \E k : GetPart(m, k)
    BY <1>6, <2>7 DEF Read, Skip, Remaining, ResetCursor, GetPart, contents
  <2>8. QED
    BY <1>7, <2>1, <2>2, <2>3, <2>4, <2>5, <2>6, <2>7 DEF MessageStep
<1>8. ASSUME NEW s \in Sockets, SocketStep(s) PROVE PartsTyped'
  <2>1. ASSUME NEW b \in Buffers, NEW m \in Objects, Receive(s, m, b) PROVE PartsTyped'
    <3>1. parts' = [parts EXCEPT ![m] = <<b>>]
      BY <2>1 DEF Receive
    <3>2. QED
      BY <1>2, <1>4, <3>1
  <2>2. CASE \/ ReceiveNothing(s) \/ Construct(s) \/ Close(s) \/ Destroy(s)
             \/ \E b \in Buffers : ReceiveString(s, b)
             \/ \E t \in Sockets : MoveConstruct(s, t) \/ MoveAssign(s, t)
    BY <1>6, <2>2
    DEF ReceiveNothing, Construct, Close, Destroy, ReceiveString, MoveConstruct, MoveAssign,
        BecomesOf, contents
  <2>3. QED
    BY <1>8, <2>1, <2>2 DEF SocketStep
<1>9. QED
  BY <1>7, <1>8 DEF Next

LEMMA ReadIsTyped ==
  ASSUME TypeOK, Next
  PROVE  ReadTyped'
<1>1. ReadTyped /\ MaxCursor \in Nat /\ 0 \in 0..MaxCursor
  BY TypesTogether, MessageAssumption
<1>2. ASSUME NEW m \in Objects, NEW c \in 0..MaxCursor, NEW astray, ReadFrom(m, c, astray)
      PROVE  ReadTyped'
  BY <1>1, <1>2 DEF ReadFrom, ReadTyped
<1>3. ASSUME UNCHANGED <<cursor, strayed>> PROVE ReadTyped'
  BY <1>1, <1>3 DEF ReadTyped
<1>4. \A m \in Objects :
        cursor[m] \in 0..MaxCursor /\ (cursor[m] < MaxCursor => cursor[m] + 1 \in 0..MaxCursor)
  BY <1>1 DEF ReadTyped
<1>5. ASSUME NEW m \in Objects, MessageStep(m) PROVE ReadTyped'
  <2>1. CASE (\E b \in Buffers : PushFront(m, b)) \/ \E k \in 1..MaxParts : RemovePart(m, k)
    BY <1>2, <1>4, <2>1 DEF PushFront, RemovePart
  <2>2. CASE Read(m) \/ Skip(m)
    BY <1>2, <1>4, <2>2 DEF Read, Skip
  <2>3. CASE ResetCursor(m) \/ Renew(m) \/ \E n \in Objects : Copy(m, n) \/ CopyNew(m, n)
    BY <1>1, <1>2, <1>4, <2>3 DEF ResetCursor, Renew, Copy, CopyNew
  <2>4. CASE Remaining(m) \/ (\E b \in Buffers : Add(m, b)) \/ \E k \in 1..MaxParts : GetPart(m, k)
    BY <1>3, <2>4 DEF Remaining, Add, GetPart
  <2>5. ASSUME NEW n \in Objects, Move(m, n) PROVE ReadTyped'
    BY <1>1, <2>5 DEF Move, ReadTyped
  <2>6. QED
    BY <1>5, <2>1, <2>2, <2>3, <2>4, <2>5 DEF MessageStep
<1>6. ASSUME NEW s \in Sockets, SocketStep(s) PROVE ReadTyped'
  <2>1. CASE \E b \in Buffers, m \in Objects : Receive(s, m, b)
    BY <1>1, <1>2, <1>4, <2>1 DEF Receive
  <2>2. CASE \/ ReceiveNothing(s) \/ Construct(s) \/ Close(s) \/ Destroy(s)
             \/ \E b \in Buffers : ReceiveString(s, b)
             \/ \E t \in Sockets : MoveConstruct(s, t) \/ MoveAssign(s, t)
    BY <1>3, <2>2
    DEF ReceiveNothing, Construct, Close, Destroy, ReceiveString, MoveConstruct, MoveAssign, BecomesOf
  <2>3. QED
    BY <1>6, <2>1, <2>2 DEF SocketStep
<1>7. QED
  BY <1>5, <1>6 DEF Next

LEMMA SocketsAreTyped ==
  ASSUME TypeOK, Next
  PROVE  SocketsTyped'
<1>1. /\ open \in [Sockets -> BOOLEAN] /\ held \in [Sockets -> Buffers \cup {None}]
      /\ lost \subseteq Buffers /\ \A m \in Objects : parts[m] \in Seq(Buffers)
  BY DEF TypeOK
<1>2. ASSUME NEW m \in Objects, MessageStep(m), UNCHANGED sockets PROVE SocketsTyped'
  <2>1. ASSUME lost' \subseteq Buffers PROVE SocketsTyped'
    BY <1>1, <1>2, <2>1 DEF SocketsTyped, sockets
  <2>2. \A k \in DOMAIN parts[m] : parts[m][k] \in Buffers
    BY <1>1, LenProperties, ElementOfSeq
  <2>3. ASSUME UNCHANGED lost PROVE SocketsTyped'
    BY <1>1, <2>1, <2>3
  <2>4. ASSUME NEW k \in 1..MaxParts, RemovePart(m, k) PROVE SocketsTyped'
    BY <1>1, <2>1, <2>2, <2>4 DEF RemovePart, Erase
  <2>5. ASSUME NEW n \in Objects, Copy(m, n) PROVE SocketsTyped'
    BY <1>1, <2>1, <2>2, <2>5 DEF Copy
  <2>6. CASE \/ (\E b \in Buffers : Add(m, b) \/ PushFront(m, b))
             \/ (\E k \in 1..MaxParts : GetPart(m, k))
             \/ Read(m) \/ Skip(m) \/ Remaining(m) \/ ResetCursor(m) \/ Renew(m)
             \/ (\E n \in Objects : Move(m, n) \/ CopyNew(m, n))
    BY <2>3, <2>6
    DEF Add, PushFront, GetPart, Read, Skip, Remaining, ResetCursor, Renew, Move, CopyNew, contents
  <2>7. QED
    BY <1>2, <2>4, <2>5, <2>6 DEF MessageStep
<1>3. ASSUME NEW s \in Sockets, SocketStep(s) PROVE SocketsTyped'
  <2>1. CASE \/ \E b \in Buffers : ReceiveString(s, b) \/ \E m \in Objects : Receive(s, m, b)
    BY <1>1, <2>1 DEF ReceiveString, Receive, BecomesOf, SocketsTyped
  <2>2. CASE ReceiveNothing(s) \/ Construct(s) \/ Close(s) \/ Destroy(s)
    BY <1>1, <2>2 DEF ReceiveNothing, Construct, Close, Destroy, BecomesOf, contents, SocketsTyped
  <2>3. ASSUME NEW t \in Sockets, MoveConstruct(s, t) \/ MoveAssign(s, t) PROVE SocketsTyped'
    <3>1. open[s] \in BOOLEAN /\ open[t] \in BOOLEAN
      BY <1>1
    <3>2. /\ open' \in [Sockets -> BOOLEAN] /\ held' \in [Sockets -> Buffers \cup {None}]
      BY <1>1, <2>3, <3>1 DEF MoveConstruct, MoveAssign
    <3>3. lost' \subseteq Buffers
      <4>1. held[s] \in Buffers \cup {None}
        BY <1>1
      <4>2. QED
        BY <1>1, <2>3, <4>1 DEF MoveConstruct, MoveAssign, contents
    <3>4. QED
      BY <3>2, <3>3 DEF SocketsTyped
  <2>4. QED
    BY <1>3, <2>1, <2>2, <2>3 DEF SocketStep
<1>4. QED
  BY <1>2, <1>3 DEF Next

-----------------------------------------------------------------------------
MessageInv == TypeOK /\ CountInv

LEMMA InitMessageInv == Init => MessageInv
<1> SUFFICES ASSUME Init PROVE MessageInv
  OBVIOUS
<1>1. TypeOK
  BY EmptySeq, MessageAssumption DEF Init, TypeOK
<1>2. ASSUME NEW b \in Buffers PROVE Counted(b)
  <2>1. Places(parts, b) = {}
    BY DEF Places, Positions, Init
  <2>2. Holders(held, b) = {}
    BY MessageAssumption DEF Holders, Init
  <2>3. Count(b) = 0 /\ IsFiniteSet(Places(parts, b)) /\ IsFiniteSet(Holders(held, b))
    BY <2>1, <2>2, FS_EmptySet DEF Count
  <2>4. QED
    BY <2>3 DEF Counted, Init
<1>3. QED
  BY <1>1, <1>2 DEF MessageInv, CountInv

LEMMA StepMessageInv == MessageInv /\ [Next]_vars => MessageInv'
<1> SUFFICES ASSUME MessageInv, [Next]_vars PROVE MessageInv'
  OBVIOUS
<1>1. TypeOK /\ CountInv
  BY DEF MessageInv
<1>2. CASE UNCHANGED vars
  BY <1>1, <1>2
  DEF MessageInv, TypeOK, CountInv, Counted, Count, vars, contents, sockets
<1>3. CASE Next
  <2>1. ASSUME NEW m \in Objects, MessageStep(m), UNCHANGED sockets PROVE CountInv' /\ CountsTyped'
    <3>1. CASE \E b \in Buffers : Add(m, b) \/ PushFront(m, b)
      BY <1>1, <2>1, <3>1, AddCounts
    <3>2. CASE \E k \in 1..MaxParts : RemovePart(m, k)
      BY <1>1, <2>1, <3>2, RemovePartCounts
    <3>3. CASE \E n \in Objects : Move(m, n)
      BY <1>1, <2>1, <3>3, MoveCounts
    <3>4. CASE Renew(m) \/ \E n \in Objects : Copy(m, n) \/ CopyNew(m, n)
      BY <1>1, <2>1, <3>4, CopyCounts
    <3>5. CASE Read(m) \/ Skip(m) \/ Remaining(m) \/ ResetCursor(m) \/ \E k \in 1..MaxParts : GetPart(m, k)
      <4>1. UNCHANGED <<parts, refs, released, lost, held>>
        BY <2>1, <3>5 DEF Read, Skip, Remaining, ResetCursor, GetPart, contents, sockets
      <4>2. QED
        BY <1>1, <4>1 DEF CountInv, Counted, Count, CountsTyped, TypeOK
    <3>6. QED
      BY <2>1, <3>1, <3>2, <3>3, <3>4, <3>5 DEF MessageStep
  <2>2. ASSUME NEW s \in Sockets, SocketStep(s) PROVE CountInv' /\ CountsTyped'
    <3>1. CASE \E b \in Buffers, m \in Objects : Receive(s, m, b)
      BY <1>1, <3>1, ReceiveCounts
    <3>2. CASE \/ ReceiveNothing(s) \/ Destroy(s) \/ Construct(s) \/ Close(s)
               \/ \E b \in Buffers : ReceiveString(s, b)
      BY <1>1, <3>2, HoldCounts
    <3>3. CASE \E t \in Sockets : MoveConstruct(s, t) \/ MoveAssign(s, t)
      BY <1>1, <3>3, MoveSocketCounts
    <3>4. QED
      BY <2>2, <3>1, <3>2, <3>3 DEF SocketStep
  <2>3. CountInv' /\ CountsTyped'
    BY <1>3, <2>1, <2>2 DEF Next
  <2>4. PartsTyped' /\ ReadTyped' /\ SocketsTyped'
    BY <1>1, <1>3, PartsAreTyped, ReadIsTyped, SocketsAreTyped
  <2>5. TypeOK'
    BY <2>3, <2>4, TypesTogether, PTL
  <2>6. QED
    BY <2>3, <2>5 DEF MessageInv
<1>4. QED
  BY <1>2, <1>3

LEMMA AlwaysMessageInv == Spec => []MessageInv
BY InitMessageInv, StepMessageInv, PTL DEF Spec

(* Of messages and the parts a socket has pending, for any number of messages,
   sockets and buffers. *)
THEOREM TypeCorrect == Spec => []TypeOK
<1>1. MessageInv => TypeOK
  BY DEF MessageInv
<1>2. QED
  BY <1>1, AlwaysMessageInv, PTL

(* A buffer is held where it has a place. *)
LEMMA HeldHasPlace ==
  ASSUME MessageInv, NEW b \in Buffers
  PROVE  Held(b) <=> Count(b) > 0
<1>1. TypeOK /\ Counted(b)
  BY DEF MessageInv, CountInv
<1>2. /\ IsFiniteSet(Places(parts, b)) /\ Cardinality(Places(parts, b)) \in Nat
      /\ IsFiniteSet(Holders(held, b)) /\ Cardinality(Holders(held, b)) \in Nat
  BY <1>1, CountFacts DEF Counted
<1>3. Cardinality(Places(parts, b)) = 0 <=> Places(parts, b) = {}
  BY <1>2, FS_EmptySet, Zenon
<1>4. Cardinality(Holders(held, b)) = 0 <=> Holders(held, b) = {}
  BY <1>2, FS_EmptySet, Zenon
<1>5. Holders(held, b) # {} <=> \E s \in Sockets : held[s] = b
  BY DEF Holders
<1>6. Places(parts, b) # {} <=> \E m \in Objects : Contains(parts[m], b)
  <2>1. \A m \in Objects : DOMAIN parts[m] = 1..Len(parts[m]) /\ Len(parts[m]) \in Nat
    BY <1>1, LenProperties DEF TypeOK
  <2>2. ASSUME NEW p \in Places(parts, b) PROVE \E m \in Objects : Contains(parts[m], b)
    BY <2>1 DEF Places, Positions, Contains
  <2>3. ASSUME NEW m \in Objects, Contains(parts[m], b) PROVE Places(parts, b) # {}
    <3>1. PICK k \in 1..Len(parts[m]) : parts[m][k] = b
      BY <2>3 DEF Contains
    <3>2. <<m, k>> \in Places(parts, b)
      BY <2>1, <3>1 DEF Places, Positions
    <3>3. QED
      BY <3>2
  <2>4. QED
    BY <2>2, <2>3
<1>7. QED
  BY <1>2, <1>3, <1>4, <1>5, <1>6 DEF Held, Count

(* No part that a message or a socket holds has been released, and none is
   released twice, over every order of writes, erasures, copies, moves, sends
   and receives (message.cpp:418-480, socket.cpp:45-63, 884-912). *)
THEOREM NoPartUsedAfterRelease == Spec => []NoUseAfterRelease
<1>1. MessageInv => NoUseAfterRelease
  <2> SUFFICES ASSUME MessageInv, NEW b \in Buffers
               PROVE  released[b] <= 1 /\ (Held(b) => released[b] = 0)
    BY DEF NoUseAfterRelease
  <2>1. TypeOK /\ Counted(b)
    BY DEF MessageInv, CountInv
  <2>2. refs[b] \in Nat /\ released[b] \in Nat /\ Count(b) \in Nat
    BY <2>1, CountFacts DEF Count
  <2>3. Held(b) <=> Count(b) > 0
    BY HeldHasPlace
  <2>4. QED
    BY <2>1, <2>2, <2>3 DEF Counted
<1>2. QED
  BY <1>1, AlwaysMessageInv, PTL

(* Every buffer that libzmq still counts is held, or was overwritten where it
   was held: only an erasure in the middle, a copy over parts and the assignment
   of a socket forget one (frame.cpp:82-89, socket.cpp:897-910). *)
THEOREM OnlyOverwrittenForgotten == Spec => []NothingElseForgotten
<1>1. MessageInv => NothingElseForgotten
  <2> SUFFICES ASSUME MessageInv, NEW b \in Buffers, refs[b] > 0, b \notin lost
               PROVE  Held(b)
    BY DEF NothingElseForgotten
  <2>1. refs[b] = Count(b)
    BY DEF MessageInv, CountInv, Counted
  <2>2. QED
    BY <2>1, HeldHasPlace
<1>2. QED
  BY <1>1, AlwaysMessageInv, PTL

-----------------------------------------------------------------------------
(* A sequence of parts and a cursor in it: the parts in front of the cursor, and
   those behind it *)

Past(s, c) == [k \in (1..c) \cap (DOMAIN s) |-> s[k]]
Ahead(s, c) == SubSeq(s, c + 1, Len(s))

LEMMA FrontAndBack ==
  ASSUME NEW s \in Seq(Buffers), NEW c \in 0..Len(s)
  PROVE  /\ Past(s, c) \in Seq(Buffers) /\ Len(Past(s, c)) = c
         /\ \A i \in 1..c : Past(s, c)[i] = s[i]
         /\ Ahead(s, c) \in Seq(Buffers) /\ Len(Ahead(s, c)) = Len(s) - c
         /\ \A i \in 1..Len(s) - c : Ahead(s, c)[i] = s[c + i]
<1>1. /\ Len(s) \in Nat /\ DOMAIN s = 1..Len(s) /\ c \in Nat /\ c <= Len(s)
      /\ \A i \in 1..Len(s) : s[i] \in Buffers
  BY LenProperties, ElementOfSeq
<1>2. Past(s, c) = [k \in 1..c |-> s[k]]
  BY <1>1 DEF Past
<1>3. Past(s, c) \in Seq(Buffers) /\ Len(Past(s, c)) = c /\ \A i \in 1..c : Past(s, c)[i] = s[i]
  <2>1. Past(s, c) \in [1..c -> Buffers]
    BY <1>1, <1>2
  <2>2. Past(s, c) \in Seq(Buffers)
    BY <1>1, <2>1, SeqDef
  <2>3. QED
    BY <1>1, <1>2, <2>2
<1>4. /\ Ahead(s, c) \in Seq(Buffers) /\ Len(Ahead(s, c)) = Len(s) - c
      /\ \A i \in 1..Len(s) - c : Ahead(s, c)[i] = s[c + i]
  <2> DEFINE t == SubSeq(s, c + 1, Len(s))
  <2>1. \A i \in c + 1..Len(s) : s[i] \in Buffers
    BY <1>1
  <2>2. /\ t \in Seq(Buffers) /\ Len(t) = (IF c + 1 <= Len(s) THEN Len(s) - (c + 1) + 1 ELSE 0)
        /\ \A i \in 1..Len(s) - (c + 1) + 1 : t[i] = s[c + 1 + i - 1]
    BY <1>1, <2>1, SubSeqProperties
  <2> HIDE DEF t
  <2>3. Len(t) = Len(s) - c
    <3>1. Len(s) \in Nat /\ c \in Nat /\ c <= Len(s)
      BY <1>1
    <3>2. Len(t) = (IF c + 1 <= Len(s) THEN Len(s) - (c + 1) + 1 ELSE 0)
      BY <2>2
    <3>3. QED
      BY <3>1, <3>2
  <2>4. ASSUME NEW i \in 1..Len(s) - c PROVE t[i] = s[c + i]
    <3>1. i \in 1..Len(s) - (c + 1) + 1 /\ c + 1 + i - 1 = c + i
      BY <1>1
    <3>2. t[i] = s[c + 1 + i - 1]
      BY <2>2, <3>1
    <3>3. QED
      BY <3>1, <3>2
  <2>5. QED
    BY <2>2, <2>3, <2>4 DEF Ahead, t
<1>5. QED
  BY <1>3, <1>4

LEMMA FrontBackWhole ==
  ASSUME NEW s \in Seq(Buffers), NEW c \in 0..Len(s)
  PROVE  /\ Past(s, c) \o Ahead(s, c) = s
         /\ c = 0 => Past(s, c) = <<>> /\ Ahead(s, c) = s
         /\ c = Len(s) => Ahead(s, c) = <<>>
<1>1. Len(s) \in Nat /\ c \in Nat /\ c <= Len(s)
  BY LenProperties
<1> DEFINE f == Past(s, c)
           b == Ahead(s, c)
<1>2. /\ f \in Seq(Buffers) /\ b \in Seq(Buffers) /\ Len(f) = c /\ Len(b) = Len(s) - c
      /\ \A i \in 1..c : f[i] = s[i]
      /\ \A i \in 1..Len(s) - c : b[i] = s[c + i]
  BY FrontAndBack
<1> HIDE DEF f, b
<1>3. f \o b \in Seq(Buffers) /\ Len(f \o b) = Len(s)
  BY <1>1, <1>2, ConcatProperties
<1>4. ASSUME NEW i \in 1..Len(s) PROVE (f \o b)[i] = s[i]
  <2>1. (f \o b)[i] = IF i <= c THEN f[i] ELSE b[i - c]
    BY <1>1, <1>2, ConcatProperties
  <2>2. QED
    BY <1>1, <1>2, <2>1
<1>5. f \o b = s
  BY <1>3, <1>4, SeqEqual
<1>6. c = 0 => f = <<>>
  BY <1>2, EmptySeq
<1>7. c = Len(s) => b = <<>>
  BY <1>1, <1>2, EmptySeq
<1>8. c = 0 => b = s
  BY <1>2, <1>5, <1>6, ConcatEmptySeq
<1>9. QED
  BY <1>5, <1>6, <1>7, <1>8 DEF f, b

LEMMA FrontBackAppend ==
  ASSUME NEW s \in Seq(Buffers), NEW c \in 0..Len(s), NEW x \in Buffers
  PROVE  /\ Past(Append(s, x), c) = Past(s, c)
         /\ Ahead(Append(s, x), c) = Append(Ahead(s, c), x)
<1> DEFINE a == Append(s, x)
<1>1. /\ Len(s) \in Nat /\ c \in Nat /\ a \in Seq(Buffers) /\ Len(a) = Len(s) + 1
      /\ c \in 0..Len(a)
      /\ \A i \in 1..Len(s) : a[i] = s[i]
      /\ a[Len(s) + 1] = x
  BY LenProperties, AppendProperties
<1> HIDE DEF a
<1>2. /\ Past(a, c) \in Seq(Buffers) /\ Len(Past(a, c)) = c
      /\ \A i \in 1..c : Past(a, c)[i] = a[i]
      /\ Ahead(a, c) \in Seq(Buffers) /\ Len(Ahead(a, c)) = Len(a) - c
      /\ \A i \in 1..Len(a) - c : Ahead(a, c)[i] = a[c + i]
  BY <1>1, FrontAndBack
<1>3. /\ Past(s, c) \in Seq(Buffers) /\ Len(Past(s, c)) = c
      /\ \A i \in 1..c : Past(s, c)[i] = s[i]
      /\ Ahead(s, c) \in Seq(Buffers) /\ Len(Ahead(s, c)) = Len(s) - c
      /\ \A i \in 1..Len(s) - c : Ahead(s, c)[i] = s[c + i]
  BY FrontAndBack
<1>4. Past(a, c) = Past(s, c)
  <2>1. ASSUME NEW i \in 1..Len(Past(a, c)) PROVE Past(a, c)[i] = Past(s, c)[i]
    <3>1. i \in 1..c /\ i \in 1..Len(s)
      BY <1>1, <1>2
    <3>2. Past(a, c)[i] = a[i] /\ a[i] = s[i] /\ Past(s, c)[i] = s[i]
      BY <1>1, <1>2, <1>3, <3>1
    <3>3. QED
      BY <3>2
  <2>2. QED
    BY <1>2, <1>3, <2>1, SeqEqual
<1>5. Ahead(a, c) = Append(Ahead(s, c), x)
  <2> DEFINE e == Append(Ahead(s, c), x)
  <2>1. /\ e \in Seq(Buffers) /\ Len(e) = Len(Ahead(s, c)) + 1
        /\ \A i \in 1..Len(Ahead(s, c)) : e[i] = Ahead(s, c)[i]
        /\ e[Len(Ahead(s, c)) + 1] = x
    BY <1>3, AppendProperties
  <2> HIDE DEF e
  <2>2. Len(Ahead(a, c)) = Len(e)
    BY <1>1, <1>2, <1>3, <2>1
  <2>3. ASSUME NEW i \in 1..Len(Ahead(a, c)) PROVE Ahead(a, c)[i] = e[i]
    <3>1. i \in 1..Len(a) - c /\ Ahead(a, c)[i] = a[c + i]
      BY <1>1, <1>2
    <3>2. CASE i = Len(s) - c + 1
      <4>1. c + i = Len(s) + 1 /\ i = Len(Ahead(s, c)) + 1
        BY <1>1, <1>3, <3>2
      <4>2. QED
        BY <1>1, <2>1, <3>1, <4>1
    <3>3. CASE i # Len(s) - c + 1
      <4>1. i \in 1..Len(s) - c /\ c + i \in 1..Len(s) /\ i \in 1..Len(Ahead(s, c))
        BY <1>1, <1>3, <3>1, <3>3
      <4>2. a[c + i] = s[c + i] /\ e[i] = Ahead(s, c)[i] /\ Ahead(s, c)[i] = s[c + i]
        BY <1>1, <1>3, <2>1, <4>1
      <4>3. QED
        BY <3>1, <4>2
    <3>4. QED
      BY <3>2, <3>3
  <2>4. Ahead(a, c) = e
    BY <1>2, <2>1, <2>2, <2>3, SeqEqual
  <2>5. QED
    BY <2>4 DEF e
<1>6. QED
  BY <1>4, <1>5 DEF a

(* A sequence from which the part at k was taken *)
LEMMA RemoveAtElements ==
  ASSUME NEW s \in Seq(Buffers), NEW k \in 1..Len(s)
  PROVE  /\ RemoveAt(s, k) \in Seq(Buffers) /\ Len(RemoveAt(s, k)) = Len(s) - 1
         /\ \A i \in 1..Len(s) - 1 : RemoveAt(s, k)[i] = IF i < k THEN s[i] ELSE s[i + 1]
<1> DEFINE l == SubSeq(s, 1, k - 1)
           r == SubSeq(s, k + 1, Len(s))
<1>1. Len(s) \in Nat /\ k \in Nat /\ k >= 1 /\ k <= Len(s) /\ \A i \in 1..Len(s) : s[i] \in Buffers
  BY LenProperties, ElementOfSeq
<1>2. /\ l \in Seq(Buffers) /\ Len(l) = k - 1 /\ \A i \in 1..k - 1 : l[i] = s[i]
  <2>1. \A i \in 1..k - 1 : s[i] \in Buffers
    BY <1>1
  <2>2. /\ l \in Seq(Buffers) /\ Len(l) = (IF 1 <= k - 1 THEN k - 1 - 1 + 1 ELSE 0)
        /\ \A i \in 1..k - 1 - 1 + 1 : l[i] = s[1 + i - 1]
    BY <1>1, <2>1, SubSeqProperties
  <2> HIDE DEF l
  <2>3. QED
    BY <1>1, <2>2
<1>3. /\ r \in Seq(Buffers) /\ Len(r) = Len(s) - k /\ \A i \in 1..Len(s) - k : r[i] = s[k + i]
  <2>1. \A i \in k + 1..Len(s) : s[i] \in Buffers
    BY <1>1
  <2>2. /\ r \in Seq(Buffers) /\ Len(r) = (IF k + 1 <= Len(s) THEN Len(s) - (k + 1) + 1 ELSE 0)
        /\ \A i \in 1..Len(s) - (k + 1) + 1 : r[i] = s[k + 1 + i - 1]
    BY <1>1, <2>1, SubSeqProperties
  <2> HIDE DEF r
  <2>3. QED
    BY <1>1, <2>2
<1>4. RemoveAt(s, k) = l \o r
  BY DEF RemoveAt
<1> HIDE DEF l, r
<1>5. /\ l \o r \in Seq(Buffers) /\ Len(l \o r) = Len(l) + Len(r)
      /\ \A i \in 1..Len(l) + Len(r) : (l \o r)[i] = IF i <= Len(l) THEN l[i] ELSE r[i - Len(l)]
  BY <1>2, <1>3, ConcatProperties
<1>6. ASSUME NEW i \in 1..Len(s) - 1 PROVE (l \o r)[i] = IF i < k THEN s[i] ELSE s[i + 1]
  <2>1. CASE i < k
    BY <1>1, <1>2, <1>3, <1>5, <2>1
  <2>2. CASE ~(i < k)
    <3>1. (l \o r)[i] = r[i - (k - 1)] /\ i - (k - 1) \in 1..Len(s) - k
      BY <1>1, <1>2, <1>3, <1>5, <2>2, SMTT(30)
    <3>2. r[i - (k - 1)] = s[k + (i - (k - 1))] /\ k + (i - (k - 1)) = i + 1
      BY <1>1, <1>3, <3>1
    <3>3. QED
      BY <2>2, <3>1, <3>2
  <2>3. QED
    BY <2>1, <2>2
<1>7. QED
  BY <1>1, <1>2, <1>3, <1>4, <1>5, <1>6

LEMMA FrontBackRemove ==
  ASSUME NEW s \in Seq(Buffers), NEW c \in 0..Len(s), NEW k \in c + 1..Len(s)
  PROVE  /\ Past(RemoveAt(s, k), c) = Past(s, c)
         /\ k - c \in 1..Len(Ahead(s, c))
         /\ Ahead(RemoveAt(s, k), c) = RemoveAt(Ahead(s, c), k - c)
<1> DEFINE a == RemoveAt(s, k)
           t == Ahead(s, c)
           u == RemoveAt(t, k - c)
<1>1. Len(s) \in Nat /\ c \in Nat /\ k \in Nat /\ k \in 1..Len(s) /\ c <= Len(s) - 1
  BY LenProperties
<1>2. /\ a \in Seq(Buffers) /\ Len(a) = Len(s) - 1
      /\ \A i \in 1..Len(s) - 1 : a[i] = IF i < k THEN s[i] ELSE s[i + 1]
  BY <1>1, RemoveAtElements
<1> HIDE DEF a
<1>3. /\ Past(a, c) \in Seq(Buffers) /\ Len(Past(a, c)) = c
      /\ \A i \in 1..c : Past(a, c)[i] = a[i]
      /\ Ahead(a, c) \in Seq(Buffers) /\ Len(Ahead(a, c)) = Len(a) - c
      /\ \A i \in 1..Len(a) - c : Ahead(a, c)[i] = a[c + i]
  <2>1. a \in Seq(Buffers) /\ c \in 0..Len(a)
    BY <1>1, <1>2
  <2>2. QED
    BY <2>1, FrontAndBack
<1>4. /\ Past(s, c) \in Seq(Buffers) /\ Len(Past(s, c)) = c
      /\ \A i \in 1..c : Past(s, c)[i] = s[i]
      /\ t \in Seq(Buffers) /\ Len(t) = Len(s) - c
      /\ \A i \in 1..Len(s) - c : t[i] = s[c + i]
  BY FrontAndBack
<1> HIDE DEF t
<1>5. Past(a, c) = Past(s, c)
  <2>1. ASSUME NEW i \in 1..Len(Past(a, c)) PROVE Past(a, c)[i] = Past(s, c)[i]
    <3>1. i \in 1..c /\ i \in 1..Len(s) - 1 /\ i < k
      BY <1>1, <1>3
    <3>2. Past(a, c)[i] = a[i] /\ a[i] = s[i] /\ Past(s, c)[i] = s[i]
      BY <1>2, <1>3, <1>4, <3>1
    <3>3. QED
      BY <3>2
  <2>2. QED
    BY <1>3, <1>4, <2>1, SeqEqual
<1>6. k - c \in 1..Len(t)
  BY <1>1, <1>4
<1>7. /\ u \in Seq(Buffers) /\ Len(u) = Len(t) - 1
      /\ \A i \in 1..Len(t) - 1 : u[i] = IF i < k - c THEN t[i] ELSE t[i + 1]
  BY <1>4, <1>6, RemoveAtElements
<1> HIDE DEF u
<1>8. Ahead(a, c) = u
  <2>1. Len(Ahead(a, c)) = Len(u)
    BY <1>1, <1>2, <1>3, <1>4, <1>7
  <2>2. ASSUME NEW i \in 1..Len(Ahead(a, c)) PROVE Ahead(a, c)[i] = u[i]
    <3>1. i \in 1..Len(s) - 1 - c /\ Ahead(a, c)[i] = a[c + i] /\ c + i \in 1..Len(s) - 1
      BY <1>1, <1>2, <1>3
    <3>2. CASE i < k - c
      <4>1. a[c + i] = s[c + i]
        BY <1>1, <1>2, <3>1, <3>2
      <4>2. i \in 1..Len(t) - 1 /\ i \in 1..Len(s) - c
        BY <1>1, <1>4, <3>1
      <4>3. u[i] = t[i] /\ t[i] = s[c + i]
        BY <1>4, <1>7, <3>2, <4>2
      <4>4. QED
        BY <3>1, <4>1, <4>3
    <3>3. CASE ~(i < k - c)
      <4>1. a[c + i] = s[c + i + 1]
        BY <1>1, <1>2, <3>1, <3>3
      <4>2. u[i] = t[i + 1] /\ t[i + 1] = s[c + (i + 1)]
        <5>1. i \in 1..Len(t) - 1 /\ i + 1 \in 1..Len(s) - c
          <6>1. Len(t) = Len(s) - c
            BY <1>4
          <6>2. QED
            BY <1>1, <3>1, <6>1
        <5>2. QED
          BY <1>4, <1>7, <3>3, <5>1
      <4>3. c + (i + 1) = c + i + 1
        BY <1>1, <3>1
      <4>4. QED
        BY <3>1, <4>1, <4>2, <4>3
    <3>4. QED
      BY <3>2, <3>3
  <2>3. QED
    BY <1>3, <1>7, <2>1, <2>2, SeqEqual
<1>9. QED
  BY <1>5, <1>6, <1>8 DEF a, t, u

(* The cursor advances over a part. *)
LEMMA FrontBackAdvance ==
  ASSUME NEW s \in Seq(Buffers), NEW c \in 0..Len(s), c < Len(s)
  PROVE  /\ Ahead(s, c) # <<>> /\ Head(Ahead(s, c)) = s[c + 1]
         /\ Past(s, c + 1) = Append(Past(s, c), s[c + 1])
         /\ Ahead(s, c + 1) = Tail(Ahead(s, c))
<1>1. Len(s) \in Nat /\ c \in Nat /\ c + 1 \in 0..Len(s) /\ c + 1 \in 1..Len(s) /\ s[c + 1] \in Buffers
  BY LenProperties, ElementOfSeq
<1>2. /\ Past(s, c) \in Seq(Buffers) /\ Len(Past(s, c)) = c
      /\ \A i \in 1..c : Past(s, c)[i] = s[i]
      /\ Ahead(s, c) \in Seq(Buffers) /\ Len(Ahead(s, c)) = Len(s) - c
      /\ \A i \in 1..Len(s) - c : Ahead(s, c)[i] = s[c + i]
  BY FrontAndBack
<1>3. /\ Past(s, c + 1) \in Seq(Buffers) /\ Len(Past(s, c + 1)) = c + 1
      /\ \A i \in 1..c + 1 : Past(s, c + 1)[i] = s[i]
      /\ Ahead(s, c + 1) \in Seq(Buffers) /\ Len(Ahead(s, c + 1)) = Len(s) - (c + 1)
      /\ \A i \in 1..Len(s) - (c + 1) : Ahead(s, c + 1)[i] = s[c + 1 + i]
  BY <1>1, FrontAndBack
<1>4. Ahead(s, c) # <<>>
  BY <1>1, <1>2, EmptySeq
<1>5. Head(Ahead(s, c)) = s[c + 1]
  BY <1>1, <1>2, <1>4
<1>6. Past(s, c + 1) = Append(Past(s, c), s[c + 1])
  <2> DEFINE e == Append(Past(s, c), s[c + 1])
  <2>1. /\ e \in Seq(Buffers) /\ Len(e) = c + 1 /\ e[c + 1] = s[c + 1]
        /\ \A i \in 1..c : e[i] = Past(s, c)[i]
    BY <1>1, <1>2, AppendProperties
  <2> HIDE DEF e
  <2>2. \A i \in 1..Len(Past(s, c + 1)) : Past(s, c + 1)[i] = e[i]
    BY <1>1, <1>2, <1>3, <2>1
  <2>3. Past(s, c + 1) = e
    BY <1>3, <2>1, <2>2, SeqEqual
  <2>4. QED
    BY <2>3 DEF e
<1>7. Ahead(s, c + 1) = Tail(Ahead(s, c))
  <2> DEFINE e == Tail(Ahead(s, c))
  <2>1. /\ e \in Seq(Buffers) /\ Len(e) = Len(Ahead(s, c)) - 1
        /\ \A i \in 1..Len(e) : e[i] = Ahead(s, c)[i + 1]
    BY <1>2, <1>4, HeadTailProperties
  <2> HIDE DEF e
  <2>2. ASSUME NEW i \in 1..Len(Ahead(s, c + 1)) PROVE Ahead(s, c + 1)[i] = e[i]
    <3>1. i \in 1..Len(e) /\ i + 1 \in 1..Len(s) - c /\ c + (i + 1) = c + 1 + i
      BY <1>1, <1>2, <1>3, <2>1
    <3>2. Ahead(s, c + 1)[i] = s[c + 1 + i]
      BY <1>3
    <3>3. e[i] = Ahead(s, c)[i + 1]
      BY <2>1, <3>1
    <3>4. Ahead(s, c)[i + 1] = s[c + (i + 1)]
      BY <1>2, <3>1
    <3>5. QED
      BY <3>1, <3>2, <3>3, <3>4
  <2>3. Len(Ahead(s, c + 1)) = Len(e)
    <3>1. Len(Ahead(s, c)) = Len(s) - c
      BY <1>2
    <3>2. Len(Ahead(s, c + 1)) = Len(s) - (c + 1)
      BY <1>3
    <3>3. Len(e) = Len(Ahead(s, c)) - 1
      BY <2>1
    <3>4. QED
      BY <1>1, <3>1, <3>2, <3>3
  <2>4. Ahead(s, c + 1) = e
    BY <1>3, <2>1, <2>2, <2>3, SeqEqual
  <2>5. QED
    BY <2>4 DEF e
<1>8. QED
  BY <1>4, <1>5, <1>6, <1>7

-----------------------------------------------------------------------------
(* The stream of every message, and the calls of PartStream in its terms *)

Before == [m \in Objects |-> IF m \in strayed THEN <<>> ELSE Past(parts[m], cursor[m])]
Unread == [m \in Objects |-> IF m \in strayed THEN <<>> ELSE Ahead(parts[m], cursor[m])]

(* A cursor is within the parts unless the client strayed; it is not at the
   start then. *)
StreamInv ==
  \A m \in Objects : IF m \in strayed THEN cursor[m] > 0 ELSE cursor[m] <= Len(parts[m])

OthersKept(m) == \A n \in Objects \ {m} : parts'[n] = parts[n] /\ cursor'[n] = cursor[n]

StreamKept == UNCHANGED <<Before, Unread, strayed>>

(* Message m now has b in front of its cursor and u behind it. *)
Becomes(m, b, u) ==
  /\ Before' = [Before EXCEPT ![m] = b] /\ Unread' = [Unread EXCEPT ![m] = u]
  /\ strayed' = strayed \ {m}

LEMMA WriteCall ==
  ASSUME NEW m \in Objects, m \notin strayed,
         NEW b \in Buffers, Becomes(m, Before[m], Append(Unread[m], b)), outcome' = <<"ok">>
  PROVE  Stream!Next
<1>1. Stream!Write(m)
  BY DEF Stream!Write, Stream!Holds, Becomes, Before, Unread, ReadParts, UnreadParts, Past, Ahead
<1>2. QED
  BY <1>1 DEF Stream!Next, Stream!Faithful

LEMMA WriteFrontCall ==
  ASSUME NEW m \in Objects, m \notin strayed,
         Before[m] = <<>>,
         NEW b \in Buffers, Becomes(m, <<>>, <<b>> \o Unread[m]), outcome' = <<"ok">>
  PROVE  Stream!Next
<1>1. Stream!WriteFront(m)
  BY DEF Stream!WriteFront, Stream!Holds, Becomes, Before, Unread, ReadParts, UnreadParts, Past, Ahead
<1>2. QED
  BY <1>1 DEF Stream!Next, Stream!Faithful

LEMMA DropCall ==
  ASSUME NEW m \in Objects, m \notin strayed,
         NEW k \in DOMAIN Unread[m], Becomes(m, Before[m], RemoveAt(Unread[m], k)),
         outcome' = <<"ok">>
  PROVE  Stream!Next
<1>1. Stream!Drop(m)
  BY DEF Stream!Drop, Stream!Holds, RemoveAt, Stream!RemoveAt, Becomes, Before, Unread, ReadParts, UnreadParts, Past, Ahead
<1>2. QED
  BY <1>1 DEF Stream!Next, Stream!Faithful

LEMMA ReadCall ==
  ASSUME NEW m \in Objects, m \notin strayed,
         Unread[m] # <<>>,
         Becomes(m, Append(Before[m], Head(Unread[m])), Tail(Unread[m])),
         outcome' \in {<<"part", Head(Unread[m])>>, <<"ok">>}
  PROVE  Stream!Next
<1>1. Stream!Read(m)
  BY DEF Stream!Read, Stream!Holds, Becomes, Before, Unread, ReadParts, UnreadParts, Past, Ahead
<1>2. QED
  BY <1>1 DEF Stream!Next, Stream!Faithful

LEMMA PeekCall ==
  ASSUME NEW m \in Objects, m \notin strayed,
         StreamKept, NEW k,
         IF k \in DOMAIN (Before[m] \o Unread[m])
         THEN outcome' = <<"part at", k, (Before[m] \o Unread[m])[k]>>
         ELSE outcome' = <<"none at", k>>
  PROVE  Stream!Next
<1>1. (/\ \/ outcome' \in {<<"part at", i, (Before[m] \o Unread[m])[i]>> :
                              i \in DOMAIN (Before[m] \o Unread[m])}
          \/ outcome'[1] = "none at" /\ outcome'[2] \notin DOMAIN (Before[m] \o Unread[m])
       /\ StreamKept) <=> Stream!Peek(m)
  BY DEF Stream!Peek, Stream!All, StreamKept, Before, Unread, ReadParts, UnreadParts, Past, Ahead
<1>2. Stream!Peek(m)
  <2> DEFINE all == Before[m] \o Unread[m]
  <2> HIDE DEF all
  <2>1. CASE k \in DOMAIN all
    BY <1>1, <2>1 DEF all
  <2>2. CASE k \notin DOMAIN all
    <3>1. outcome' = <<"none at", k>>
      BY <2>2 DEF all
    <3>2. outcome'[1] = "none at" /\ outcome'[2] = k
      BY <3>1
    <3>3. QED
      BY <1>1, <2>2, <3>2 DEF all
  <2>3. QED
    BY <2>1, <2>2
<1>3. QED
  BY <1>2 DEF Stream!Next, Stream!Faithful

LEMMA RemainingCall ==
  ASSUME NEW m \in Objects, m \notin strayed,
         StreamKept, outcome' = <<"remaining", Len(Unread[m])>>
  PROVE  Stream!Next
<1>1. Stream!Remaining(m)
  BY DEF Stream!Remaining, StreamKept, Becomes, Before, Unread, ReadParts, UnreadParts, Past, Ahead
<1>2. QED
  BY <1>1 DEF Stream!Next, Stream!Faithful

LEMMA ResetCall ==
  ASSUME NEW m \in Objects, m \notin strayed,
         Becomes(m, <<>>, Before[m] \o Unread[m]), outcome' = <<"ok">>
  PROVE  Stream!Next
<1>1. Stream!Reset(m)
  BY DEF Stream!Reset, Stream!Holds, Stream!All, Becomes, Before, Unread, ReadParts, UnreadParts, Past, Ahead
<1>2. QED
  BY <1>1 DEF Stream!Next, Stream!Faithful

LEMMA RenewCall ==
  ASSUME NEW m \in Objects, outcome' = <<"ok">>, NEW s \in Seq(Buffers),
         Becomes(m, <<>>, s), s = <<>> \/ (\E b \in Buffers : s = <<b>>)
                              \/ \E n \in Objects \ strayed : s = Before[n] \o Unread[n]
  PROVE  Stream!Next
<1>1. Stream!Renew(m)
  <2>1. CASE s = <<>>
    BY <2>1 DEF Stream!Renew, Stream!Holds, Becomes, Before, Unread, ReadParts, UnreadParts, Past, Ahead
  <2>2. ASSUME NEW b \in Buffers, s = <<b>> PROVE Stream!Renew(m)
    BY <2>2 DEF Stream!Renew, Stream!Holds, Becomes, Before, Unread, ReadParts, UnreadParts, Past, Ahead
  <2>3. ASSUME NEW n \in Objects \ strayed, s = Before[n] \o Unread[n] PROVE Stream!Renew(m)
    <3>1. Becomes(m, <<>>, Before[n] \o Unread[n])
      BY <2>3 DEF Becomes
    <3>2. QED
      BY <3>1
      DEF Stream!Renew, Stream!Holds, Stream!All, Becomes, Before, Unread, ReadParts, UnreadParts, Past, Ahead
  <2>4. QED
    BY <2>1, <2>2, <2>3
<1>2. QED
  BY <1>1 DEF Stream!Next

(* Where some message has strayed, the content may be any. *)
LEMMA AnythingCall ==
  ASSUME NEW m \in Objects, outcome' = <<"ok">>, strayed # {}, NEW s \in Seq(Buffers),
         Becomes(m, <<>>, s)
  PROVE  Stream!Next
<1>1. /\ Before' = [Before EXCEPT ![m] = <<>>] /\ strayed' = strayed \ {m}
      /\ Unread'[m] \in Seq(Buffers) /\ \A n \in Objects \ {m} : Unread'[n] = Unread[n]
  BY DEF Becomes, Unread
<1>2. Stream!HoldsAnything(m)
  BY <1>1 DEF Stream!HoldsAnything, Before, Unread, ReadParts, UnreadParts, Past, Ahead
<1>3. QED
  BY <1>2 DEF Stream!Next, Stream!Renew

LEMMA TakeCall ==
  ASSUME NEW m \in Objects, NEW n \in Objects, m # n, outcome' = <<"ok">>,
         Before' = [Before EXCEPT ![m] = Before[n], ![n] = <<>>],
         Unread' = [Unread EXCEPT ![m] = Unread[n], ![n] = <<>>],
         strayed' = (strayed \ {m, n}) \cup (IF n \in strayed THEN {m} ELSE {})
  PROVE  Stream!Next
<1>1. Stream!Take(m, n)
  BY DEF Stream!Take, Before, Unread, ReadParts, UnreadParts, Past, Ahead
<1>2. QED
  BY <1>1 DEF Stream!Next

LEMMA StrayCall ==
  ASSUME NEW m \in Objects, outcome' = <<"throws">> => Unread[m] = <<>>,
         strayed' = strayed \cup {m},
         Before' = [Before EXCEPT ![m] = <<>>], Unread' = [Unread EXCEPT ![m] = <<>>]
  PROVE  Stream!Next
<1>1. Stream!Stray(m)
  BY DEF Stream!Stray, Before, Unread, ReadParts, UnreadParts, Past, Ahead
<1>2. QED
  BY <1>1 DEF Stream!Next

LEMMA ElsewhereCall ==
  ASSUME outcome' = <<"socket call">>, StreamKept
  PROVE  Stream!Next
<1>1. Stream!Elsewhere
  BY DEF Stream!Elsewhere, StreamKept, Before, Unread, ReadParts, UnreadParts, Past, Ahead
<1>2. QED
  BY <1>1 DEF Stream!Next

(* What a call does to the stream of the message it is made on: either the
   client strays, or parts and cursor are the new stream. *)
LEMMA GoesAstray ==
  ASSUME NEW m \in Objects, StreamInv, OthersKept(m), strayed' = strayed \cup {m},
         cursor'[m] > 0, outcome' = <<"throws">> => Unread[m] = <<>>
  PROVE  StreamInv' /\ Stream!Next
<1>1. StreamInv'
  BY DEF StreamInv, OthersKept
<1>2. Before' = [Before EXCEPT ![m] = <<>>]
  BY DEF Before, OthersKept
<1>3. Unread' = [Unread EXCEPT ![m] = <<>>]
  BY DEF Unread, OthersKept
<1>4. QED
  BY <1>1, <1>2, <1>3, StrayCall

LEMMA BecomesNow ==
  ASSUME NEW m \in Objects, StreamInv, OthersKept(m), strayed' = strayed \ {m},
         cursor'[m] <= Len(parts'[m])
  PROVE  StreamInv' /\ Becomes(m, Past(parts'[m], cursor'[m]), Ahead(parts'[m], cursor'[m]))
<1>1. StreamInv'
  BY DEF StreamInv, OthersKept
<1>2. Before' = [Before EXCEPT ![m] = Past(parts'[m], cursor'[m])]
  BY DEF Before, OthersKept
<1>3. Unread' = [Unread EXCEPT ![m] = Ahead(parts'[m], cursor'[m])]
  BY DEF Unread, OthersKept
<1>4. QED
  BY <1>1, <1>2, <1>3 DEF Becomes

LEMMA KnownStream ==
  ASSUME TypeOK, StreamInv, NEW m \in Objects, m \notin strayed
  PROVE  /\ parts[m] \in Seq(Buffers) /\ cursor[m] \in 0..Len(parts[m])
         /\ Before[m] = Past(parts[m], cursor[m]) /\ Unread[m] = Ahead(parts[m], cursor[m])
<1>1. parts[m] \in Seq(Buffers) /\ cursor[m] \in 0..MaxCursor /\ cursor[m] <= Len(parts[m])
  BY DEF TypeOK, StreamInv
<1>2. Len(parts[m]) \in Nat /\ cursor[m] \in Nat
  BY <1>1, LenProperties, MessageAssumption
<1>3. Before[m] = Past(parts[m], cursor[m]) /\ Unread[m] = Ahead(parts[m], cursor[m])
  BY DEF Before, Unread
<1>4. QED
  BY <1>1, <1>2, <1>3

-----------------------------------------------------------------------------
(* Every call on a message is one of the stream. *)

LEMMA Touched ==
  ASSUME TypeOK, NEW m \in Objects, NEW p, NEW c, NEW astray,
         parts' = [parts EXCEPT ![m] = p], ReadFrom(m, c, astray)
  PROVE  OthersKept(m) /\ parts'[m] = p /\ cursor'[m] = c
BY DEF TypeOK, ReadFrom, OthersKept

LEMMA AddStream ==
  ASSUME TypeOK, StreamInv, NEW m \in Objects, NEW b \in Buffers, Add(m, b)
  PROVE  StreamInv' /\ Stream!Next
<1>1. /\ OthersKept(m) /\ parts'[m] = Append(parts[m], b) /\ cursor'[m] = cursor[m]
      /\ strayed' = strayed /\ outcome' = <<"ok">> /\ outcome' # <<"throws">>
  BY DEF Add, TypeOK, OthersKept, Returns
<1>2. CASE m \in strayed
  <2>1. strayed' = strayed \cup {m} /\ cursor'[m] > 0
    BY <1>1, <1>2 DEF StreamInv
  <2>2. QED
    BY <1>1, <2>1, GoesAstray
<1>3. CASE m \notin strayed
  <2>1. /\ parts[m] \in Seq(Buffers) /\ cursor[m] \in 0..Len(parts[m])
        /\ Before[m] = Past(parts[m], cursor[m]) /\ Unread[m] = Ahead(parts[m], cursor[m])
    BY <1>3, KnownStream
  <2>2. strayed' = strayed \ {m}
    BY <1>1, <1>3
  <2>3. cursor'[m] <= Len(parts'[m])
    BY <1>1, <2>1, LenProperties, AppendProperties
  <2>4. StreamInv' /\ Becomes(m, Past(parts'[m], cursor'[m]), Ahead(parts'[m], cursor'[m]))
    BY <1>1, <2>2, <2>3, BecomesNow
  <2>5. /\ Past(parts'[m], cursor'[m]) = Before[m]
        /\ Ahead(parts'[m], cursor'[m]) = Append(Unread[m], b)
    BY <1>1, <2>1, FrontBackAppend
  <2>6. Becomes(m, Before[m], Append(Unread[m], b))
    BY <2>4, <2>5 DEF Becomes
  <2>7. QED
    BY <1>1, <1>3, <2>4, <2>6, WriteCall
<1>4. QED
  BY <1>2, <1>3

LEMMA PushFrontStream ==
  ASSUME TypeOK, StreamInv, NEW m \in Objects, NEW b \in Buffers, PushFront(m, b)
  PROVE  StreamInv' /\ Stream!Next
<1>1. /\ OthersKept(m) /\ parts'[m] = <<b>> \o parts[m] /\ cursor'[m] = cursor[m]
      /\ outcome' = <<"ok">> /\ outcome' # <<"throws">>
  BY Touched DEF PushFront, Returns
<1>2. strayed' = IF cursor[m] > 0 THEN strayed \cup {m}
                 ELSE IF cursor[m] = 0 THEN strayed \ {m} ELSE strayed
  BY DEF PushFront, ReadFrom
<1>3. CASE cursor[m] > 0
  BY <1>1, <1>2, <1>3, GoesAstray
<1>4. CASE ~(cursor[m] > 0)
  <2>1. m \notin strayed
    BY <1>4 DEF StreamInv
  <2>2. /\ parts[m] \in Seq(Buffers) /\ cursor[m] \in 0..Len(parts[m])
        /\ Before[m] = Past(parts[m], cursor[m]) /\ Unread[m] = Ahead(parts[m], cursor[m])
    BY <2>1, KnownStream
  <2>3. cursor[m] = 0 /\ strayed' = strayed \ {m}
    BY <1>2, <1>4, <2>2, LenProperties
  <2>4. <<b>> \o parts[m] \in Seq(Buffers) /\ 0 <= Len(<<b>> \o parts[m]) /\ 0 \in 0..Len(<<b>> \o parts[m])
    BY <2>2, ConcatProperties, LenProperties
  <2>5. StreamInv' /\ Becomes(m, Past(parts'[m], cursor'[m]), Ahead(parts'[m], cursor'[m]))
    BY <1>1, <2>3, <2>4, BecomesNow
  <2>6. Past(<<b>> \o parts[m], 0) = <<>> /\ Ahead(<<b>> \o parts[m], 0) = <<b>> \o parts[m]
    BY <2>4, FrontBackWhole
  <2>7. Before[m] = <<>> /\ Unread[m] = parts[m]
    BY <2>2, <2>3, FrontBackWhole
  <2>8. Becomes(m, <<>>, <<b>> \o Unread[m])
    BY <1>1, <2>3, <2>5, <2>6, <2>7 DEF Becomes
  <2>9. QED
    BY <1>1, <2>1, <2>5, <2>7, <2>8, WriteFrontCall
<1>5. QED
  BY <1>3, <1>4

LEMMA RemovePartStream ==
  ASSUME TypeOK, StreamInv, NEW m \in Objects, NEW k \in Nat, RemovePart(m, k)
  PROVE  StreamInv' /\ Stream!Next
<1>1. /\ OthersKept(m) /\ parts'[m] = RemoveAt(parts[m], k) /\ cursor'[m] = cursor[m]
      /\ outcome' = <<"ok">> /\ outcome' # <<"throws">> /\ k \in DOMAIN parts[m]
  BY Touched DEF RemovePart, Erase, Returns
<1>2. strayed' = IF k <= cursor[m] THEN strayed \cup {m}
                 ELSE IF cursor[m] = 0 THEN strayed \ {m} ELSE strayed
  BY DEF RemovePart, ReadFrom
<1>3. parts[m] \in Seq(Buffers) /\ DOMAIN parts[m] = 1..Len(parts[m]) /\ Len(parts[m]) \in Nat
  BY LenProperties DEF TypeOK
<1>4. k \in 1..Len(parts[m]) /\ cursor[m] \in Nat
  BY <1>1, <1>3, MessageAssumption DEF TypeOK
<1>5. CASE m \in strayed \/ k <= cursor[m]
  <2>1. strayed' = strayed \cup {m} /\ cursor[m] > 0
    BY <1>2, <1>4, <1>5 DEF StreamInv
  <2>2. QED
    BY <1>1, <2>1, GoesAstray
<1>6. CASE m \notin strayed /\ ~(k <= cursor[m])
  <2>1. /\ cursor[m] \in 0..Len(parts[m])
        /\ Before[m] = Past(parts[m], cursor[m]) /\ Unread[m] = Ahead(parts[m], cursor[m])
    BY <1>6, KnownStream
  <2>2. strayed' = strayed \ {m} /\ k \in cursor[m] + 1..Len(parts[m])
    BY <1>2, <1>4, <1>6
  <2>3. Len(RemoveAt(parts[m], k)) = Len(parts[m]) - 1
    BY <1>3, <1>4, RemoveAtElements
  <2>4. cursor[m] <= Len(RemoveAt(parts[m], k))
    BY <1>3, <1>4, <2>2, <2>3
  <2>5. StreamInv' /\ Becomes(m, Past(parts'[m], cursor'[m]), Ahead(parts'[m], cursor'[m]))
    BY <1>1, <2>2, <2>4, BecomesNow
  <2>6. /\ Past(RemoveAt(parts[m], k), cursor[m]) = Before[m]
        /\ k - cursor[m] \in 1..Len(Unread[m])
        /\ Ahead(RemoveAt(parts[m], k), cursor[m]) = RemoveAt(Unread[m], k - cursor[m])
    BY <1>3, <2>1, <2>2, FrontBackRemove
  <2>7. Becomes(m, Before[m], RemoveAt(Unread[m], k - cursor[m]))
    BY <1>1, <2>5, <2>6 DEF Becomes
  <2>8. Unread[m] \in Seq(Buffers)
    BY <1>3, <2>1, FrontAndBack
  <2>9. k - cursor[m] \in DOMAIN Unread[m]
    BY <2>6, <2>8, LenProperties
  <2>10. QED
    BY <1>1, <1>6, <2>5, <2>7, <2>9, DropCall
<1>7. QED
  BY <1>5, <1>6

LEMMA ReadStream ==
  ASSUME TypeOK, StreamInv, NEW m \in Objects, Read(m) \/ Skip(m)
  PROVE  StreamInv' /\ Stream!Next
<1>1. /\ OthersKept(m) /\ parts'[m] = parts[m] /\ cursor'[m] = cursor[m] + 1
      /\ strayed' = IF cursor[m] >= Len(parts[m]) THEN strayed \cup {m}
                    ELSE IF cursor[m] + 1 = 0 THEN strayed \ {m} ELSE strayed
      /\ outcome' \in {<<"ok">>, IF cursor[m] < Len(parts[m])
                                 THEN <<"part", parts[m][cursor[m] + 1]>> ELSE <<"throws">>}
  BY DEF Read, Skip, Returns, contents, ReadFrom, OthersKept, TypeOK
<1>2. cursor[m] \in Nat /\ parts[m] \in Seq(Buffers) /\ Len(parts[m]) \in Nat
  BY MessageAssumption, LenProperties DEF TypeOK
<1>3. CASE m \in strayed
  <2>1. strayed' = strayed \cup {m} /\ cursor'[m] > 0
    BY <1>1, <1>2, <1>3
  <2>2. Unread[m] = <<>>
    BY <1>3 DEF Unread
  <2>3. QED
    BY <1>1, <2>1, <2>2, GoesAstray
<1>4. CASE m \notin strayed
  <2>1. /\ cursor[m] \in 0..Len(parts[m])
        /\ Before[m] = Past(parts[m], cursor[m]) /\ Unread[m] = Ahead(parts[m], cursor[m])
    BY <1>4, KnownStream
  <2>2. CASE cursor[m] >= Len(parts[m])
    <3>1. strayed' = strayed \cup {m} /\ cursor'[m] > 0 /\ cursor[m] = Len(parts[m])
      BY <1>1, <1>2, <2>1, <2>2
    <3>2. Unread[m] = <<>>
      BY <1>2, <2>1, <3>1, FrontBackWhole
    <3>3. QED
      BY <1>1, <3>1, <3>2, GoesAstray
  <2>3. CASE cursor[m] < Len(parts[m])
    <3>1. strayed' = strayed \ {m} /\ cursor'[m] <= Len(parts'[m])
      BY <1>1, <1>2, <1>4, <2>3
    <3>2. StreamInv' /\ Becomes(m, Past(parts'[m], cursor'[m]), Ahead(parts'[m], cursor'[m]))
      BY <1>1, <3>1, BecomesNow
    <3>3. /\ Unread[m] # <<>> /\ Head(Unread[m]) = parts[m][cursor[m] + 1]
          /\ Past(parts[m], cursor[m] + 1) = Append(Before[m], Head(Unread[m]))
          /\ Ahead(parts[m], cursor[m] + 1) = Tail(Unread[m])
      BY <1>2, <2>1, <2>3, FrontBackAdvance
    <3>4. Becomes(m, Append(Before[m], Head(Unread[m])), Tail(Unread[m]))
      BY <1>1, <3>2, <3>3 DEF Becomes
    <3>5. outcome' \in {<<"part", Head(Unread[m])>>, <<"ok">>}
      BY <1>1, <2>3, <3>3
    <3>6. QED
      BY <1>4, <3>2, <3>3, <3>4, <3>5, ReadCall
  <2>4. QED
    BY <1>2, <2>2, <2>3
<1>5. QED
  BY <1>3, <1>4

LEMMA PeekStream ==
  ASSUME TypeOK, StreamInv, NEW m \in Objects,
         Remaining(m) \/ \E k \in 1..MaxParts : GetPart(m, k)
  PROVE  StreamInv' /\ Stream!Next
<1>1. parts' = parts /\ cursor' = cursor /\ strayed' = strayed
  BY DEF Remaining, GetPart, contents
<1>2. StreamInv' /\ StreamKept
  BY <1>1 DEF StreamInv, StreamKept, Before, Unread
<1>3. OthersKept(m)
  BY <1>1 DEF OthersKept
<1>4. CASE m \in strayed
  <2>1. strayed' = strayed \cup {m} /\ cursor'[m] > 0
    BY <1>1, <1>4 DEF StreamInv
  <2>2. Unread[m] = <<>>
    BY <1>4 DEF Unread
  <2>3. QED
    BY <1>1, <1>3, <2>1, <2>2, GoesAstray
<1>5. CASE m \notin strayed
  <2>1. /\ parts[m] \in Seq(Buffers) /\ cursor[m] \in 0..Len(parts[m])
        /\ Before[m] = Past(parts[m], cursor[m]) /\ Unread[m] = Ahead(parts[m], cursor[m])
    BY <1>5, KnownStream
  <2>2. Before[m] \o Unread[m] = parts[m]
    BY <2>1, FrontBackWhole
  <2>3. CASE Remaining(m)
    <3>1. Len(parts[m]) \in Nat /\ cursor[m] \in Nat /\ cursor[m] <= Len(parts[m])
      BY <2>1, LenProperties
    <3>2. Len(Unread[m]) = Len(parts[m]) - cursor[m]
      <4>1. Len(Ahead(parts[m], cursor[m])) = Len(parts[m]) - cursor[m]
        BY <2>1, FrontAndBack
      <4>2. QED
        BY <2>1, <4>1, Zenon
    <3>3. Len(parts[m]) <= MaxParts /\ MaxParts \in Nat /\ SizeLimit \in Nat /\ MaxParts < SizeLimit
      BY MessageAssumption DEF TypeOK
    <3>4. (Len(parts[m]) - cursor[m]) % SizeLimit = Len(parts[m]) - cursor[m]
      <4>1. Len(parts[m]) - cursor[m] \in 0..SizeLimit - 1 /\ SizeLimit > 0
        BY <3>1, <3>3
      <4>2. \A d \in 0..SizeLimit - 1 : d % SizeLimit = d
        BY <3>3, <4>1
      <4>3. QED
        BY <4>1, <4>2
    <3>5. outcome' = <<"remaining", Len(Unread[m])>>
      BY <2>3, <3>2, <3>4 DEF Remaining, Returns
    <3>6. QED
      BY <1>2, <1>5, <3>5, RemainingCall
  <2>4. ASSUME NEW k \in 1..MaxParts, GetPart(m, k) PROVE StreamInv' /\ Stream!Next
    <3>1. outcome' = IF k \in DOMAIN parts[m] THEN <<"part at", k, parts[m][k]>> ELSE <<"none at", k>>
      BY <2>4 DEF GetPart, Returns
    <3>2. IF k \in DOMAIN (Before[m] \o Unread[m])
          THEN outcome' = <<"part at", k, (Before[m] \o Unread[m])[k]>>
          ELSE outcome' = <<"none at", k>>
      BY <2>2, <3>1
    <3>3. QED
      BY <1>2, <1>5, <3>2, PeekCall
  <2>5. QED
    BY <2>3, <2>4
<1>6. QED
  BY <1>4, <1>5

(* A new content, with the cursor at the start *)
LEMMA NewContent ==
  ASSUME StreamInv, NEW m \in Objects, OthersKept(m), cursor'[m] = 0,
         strayed' = strayed \ {m}, NEW s \in Seq(Buffers), parts'[m] = s
  PROVE  StreamInv' /\ Becomes(m, <<>>, s)
<1>1. 0 \in 0..Len(s) /\ 0 <= Len(s)
  BY LenProperties
<1>2. StreamInv' /\ Becomes(m, Past(parts'[m], cursor'[m]), Ahead(parts'[m], cursor'[m]))
  BY <1>1, BecomesNow
<1>3. Past(s, 0) = <<>> /\ Ahead(s, 0) = s
  BY <1>1, FrontBackWhole
<1>4. QED
  BY <1>2, <1>3 DEF Becomes

(* The content of another message, with the cursor at the start *)
LEMMA CopiedContent ==
  ASSUME TypeOK, StreamInv, NEW m \in Objects, NEW n \in Objects, Becomes(m, <<>>, parts[n]),
         outcome' = <<"ok">>
  PROVE  Stream!Next
<1>1. parts[n] \in Seq(Buffers)
  BY DEF TypeOK
<1>2. CASE n \in strayed
  BY <1>1, <1>2, AnythingCall
<1>3. CASE n \notin strayed
  <2>1. /\ cursor[n] \in 0..Len(parts[n])
        /\ Before[n] = Past(parts[n], cursor[n]) /\ Unread[n] = Ahead(parts[n], cursor[n])
    BY <1>3, KnownStream
  <2>2. parts[n] = Before[n] \o Unread[n]
    BY <1>1, <2>1, FrontBackWhole
  <2>3. QED
    BY <1>1, <1>3, <2>2, RenewCall
<1>4. QED
  BY <1>2, <1>3

LEMMA ResetStream ==
  ASSUME TypeOK, StreamInv, NEW m \in Objects, ResetCursor(m)
  PROVE  StreamInv' /\ Stream!Next
<1>1. /\ OthersKept(m) /\ parts'[m] = parts[m] /\ cursor'[m] = 0
      /\ strayed' = strayed \ {m} /\ outcome' = <<"ok">> /\ parts[m] \in Seq(Buffers)
  BY DEF ResetCursor, Returns, contents, ReadFrom, OthersKept, TypeOK
<1>2. StreamInv' /\ Becomes(m, <<>>, parts[m])
  BY <1>1, NewContent
<1>3. QED
  BY <1>1, <1>2, CopiedContent

LEMMA RenewStream ==
  ASSUME TypeOK, StreamInv, NEW m \in Objects, Renew(m) \/ \E n \in Objects : CopyNew(m, n)
  PROVE  StreamInv' /\ Stream!Next
<1>1. /\ cursor' = [cursor EXCEPT ![m] = 0] /\ strayed' = strayed \ {m} /\ outcome' = <<"ok">>
  BY DEF Renew, CopyNew, Returns, ReadFrom
<1>2. ASSUME NEW s, parts' = [parts EXCEPT ![m] = s]
      PROVE  OthersKept(m) /\ cursor'[m] = 0 /\ parts'[m] = s
  BY <1>1, <1>2 DEF OthersKept, TypeOK
<1>3. CASE Renew(m)
  <2>1. <<>> \in Seq(Buffers)
    BY EmptySeq
  <2>2. parts' = [parts EXCEPT ![m] = <<>>]
    BY <1>3 DEF Renew
  <2>3. StreamInv' /\ Becomes(m, <<>>, <<>>)
    BY <1>1, <1>2, <2>1, <2>2, NewContent
  <2>4. QED
    BY <1>1, <2>1, <2>3, RenewCall
<1>4. ASSUME NEW n \in Objects, CopyNew(m, n) PROVE StreamInv' /\ Stream!Next
  <2>1. parts[n] \in Seq(Buffers)
    BY DEF TypeOK
  <2>2. parts' = [parts EXCEPT ![m] = parts[n]]
    BY <1>4 DEF CopyNew
  <2>3. StreamInv' /\ Becomes(m, <<>>, parts[n])
    BY <1>1, <1>2, <2>1, <2>2, NewContent
  <2>4. QED
    BY <1>1, <2>3, CopiedContent
<1>5. QED
  BY <1>3, <1>4

LEMMA CopyStream ==
  ASSUME TypeOK, StreamInv, NEW m \in Objects, NEW n \in Objects, Copy(m, n)
  PROVE  StreamInv' /\ Stream!Next
<1>1. /\ OthersKept(m) /\ parts'[m] = parts[n] /\ cursor'[m] = cursor[m]
      /\ outcome' = <<"ok">> /\ outcome' # <<"throws">>
  BY Touched DEF Copy, Returns
<1>2. /\ strayed' = IF cursor[m] > 0 THEN strayed \cup {m}
                    ELSE IF cursor[m] = 0 THEN strayed \ {m} ELSE strayed
      /\ parts[n] \in Seq(Buffers) /\ cursor[m] \in Nat
  BY MessageAssumption DEF Copy, ReadFrom, TypeOK
<1>3. CASE cursor[m] > 0
  BY <1>1, <1>2, <1>3, GoesAstray
<1>4. CASE ~(cursor[m] > 0)
  <2>1. cursor'[m] = 0 /\ strayed' = strayed \ {m}
    BY <1>1, <1>2, <1>4
  <2>2. StreamInv' /\ Becomes(m, <<>>, parts[n])
    BY <1>1, <1>2, <2>1, NewContent
  <2>3. QED
    BY <1>1, <2>2, CopiedContent
<1>5. QED
  BY <1>3, <1>4

LEMMA MoveStream ==
  ASSUME TypeOK, StreamInv, NEW m \in Objects, NEW n \in Objects, Move(m, n)
  PROVE  StreamInv' /\ Stream!Next
<1>1. /\ m # n /\ parts' = [parts EXCEPT ![m] = parts[n], ![n] = <<>>]
      /\ cursor' = [cursor EXCEPT ![m] = cursor[n], ![n] = 0]
      /\ strayed' = (strayed \ {m, n}) \cup (IF n \in strayed THEN {m} ELSE {})
      /\ outcome' = <<"ok">>
  BY DEF Move, Returns
<1>2. /\ parts'[m] = parts[n] /\ cursor'[m] = cursor[n] /\ (m \in strayed' <=> n \in strayed)
      /\ parts'[n] = <<>> /\ cursor'[n] = 0 /\ n \notin strayed'
      /\ \A o \in Objects \ {m, n} :
           parts'[o] = parts[o] /\ cursor'[o] = cursor[o] /\ (o \in strayed' <=> o \in strayed)
  BY <1>1 DEF TypeOK
<1>3. Len(<<>>) = 0 /\ <<>> \in Seq(Buffers) /\ 0 \in 0..Len(<<>>)
  BY EmptySeq
<1>4. Past(<<>>, 0) = <<>> /\ Ahead(<<>>, 0) = <<>>
  BY <1>3, FrontBackWhole
<1>5. StreamInv'
  BY <1>2, <1>3 DEF StreamInv
<1>6. Before' = [Before EXCEPT ![m] = Before[n], ![n] = <<>>]
  <2>1. ASSUME NEW o \in Objects
        PROVE  Before'[o] = IF o = n THEN <<>> ELSE IF o = m THEN Before[n] ELSE Before[o]
    BY <1>2, <1>4 DEF Before
  <2>2. Before' = [o \in Objects |-> Before'[o]]
    BY DEF Before
  <2>3. QED
    BY <1>1, <2>1, <2>2 DEF Before
<1>7. Unread' = [Unread EXCEPT ![m] = Unread[n], ![n] = <<>>]
  <2>1. ASSUME NEW o \in Objects
        PROVE  Unread'[o] = IF o = n THEN <<>> ELSE IF o = m THEN Unread[n] ELSE Unread[o]
    BY <1>2, <1>4 DEF Unread
  <2>2. Unread' = [o \in Objects |-> Unread'[o]]
    BY DEF Unread
  <2>3. QED
    BY <1>1, <2>1, <2>2 DEF Unread
<1>8. QED
  BY <1>1, <1>5, <1>6, <1>7, TakeCall

LEMMA ReceiveStream ==
  ASSUME TypeOK, StreamInv, NEW s \in Sockets, NEW m \in Objects, NEW b \in Buffers, Receive(s, m, b)
  PROVE  StreamInv' /\ Stream!Next
<1> DEFINE c == IF parts[m] = <<>> THEN cursor[m] ELSE 0
<1>1. /\ OthersKept(m) /\ parts'[m] = <<b>> /\ cursor'[m] = c
      /\ strayed' = IF c = 0 THEN strayed \ {m} ELSE strayed
      /\ outcome' = <<"ok">> /\ outcome' # <<"throws">>
  BY DEF Receive, Returns, ReadFrom, OthersKept, TypeOK
<1>2. CASE c = 0
  <2>1. <<b>> \in Seq(Buffers)
    OBVIOUS
  <2>2. StreamInv' /\ Becomes(m, <<>>, <<b>>)
    BY <1>1, <1>2, <2>1, NewContent
  <2>3. \E x \in Buffers : <<b>> = <<x>>
    OBVIOUS
  <2>4. QED
    BY <1>1, <2>1, <2>2, <2>3, RenewCall
<1>3. CASE c # 0
  <2>1. parts[m] = <<>> /\ cursor[m] # 0 /\ cursor[m] \in Nat
    BY <1>3, MessageAssumption DEF TypeOK
  <2>2. m \in strayed
    BY <2>1 DEF StreamInv
  <2>3. strayed' = strayed \cup {m} /\ cursor'[m] > 0
    BY <1>1, <1>3, <2>1, <2>2
  <2>4. QED
    BY <1>1, <2>3, GoesAstray
<1>4. QED
  BY <1>2, <1>3

LEMMA SocketStream ==
  ASSUME TypeOK, StreamInv, NEW s \in Sockets, SocketStep(s)
  PROVE  StreamInv' /\ Stream!Next
<1>1. CASE \E b \in Buffers, m \in Objects : Receive(s, m, b)
  BY <1>1, ReceiveStream
<1>2. CASE \/ ReceiveNothing(s) \/ Construct(s) \/ Close(s) \/ Destroy(s)
           \/ \E b \in Buffers : ReceiveString(s, b)
           \/ \E t \in Sockets : MoveConstruct(s, t) \/ MoveAssign(s, t)
  <2>1. outcome' = <<"socket call">> /\ UNCHANGED <<parts, cursor, strayed>>
    BY <1>2
    DEF ReceiveNothing, Construct, Close, Destroy, ReceiveString, MoveConstruct, MoveAssign,
        BecomesOf, Returns, contents
  <2>2. StreamInv' /\ StreamKept
    BY <2>1 DEF StreamInv, StreamKept, Before, Unread
  <2>3. QED
    BY <2>1, <2>2, ElsewhereCall
<1>3. QED
  BY <1>1, <1>2 DEF SocketStep

LEMMA InitStream == Init => StreamInv /\ Stream!Init
<1> SUFFICES ASSUME Init PROVE StreamInv /\ Stream!Init
  OBVIOUS
<1>1. StreamInv
  BY EmptySeq DEF Init, StreamInv
<1>2. 0 \in 0..Len(<<>>) /\ <<>> \in Seq(Buffers)
  BY EmptySeq
<1>3. Past(<<>>, 0) = <<>> /\ Ahead(<<>>, 0) = <<>>
  BY <1>2, FrontBackWhole
<1>4. Before = [m \in Objects |-> <<>>] /\ Unread = [m \in Objects |-> <<>>]
  BY <1>3 DEF Init, Before, Unread
<1>5. Stream!Init
  BY <1>4 DEF Init, Stream!Init, Before, Unread, ReadParts, UnreadParts, Past, Ahead
<1>6. QED
  BY <1>1, <1>5

LEMMA StreamStep ==
  TypeOK /\ StreamInv /\ [Next]_vars => StreamInv' /\ [Stream!Next]_(Stream!streams)
<1> SUFFICES ASSUME TypeOK, StreamInv, [Next]_vars
             PROVE  StreamInv' /\ [Stream!Next]_(Stream!streams)
  OBVIOUS
<1>1. CASE UNCHANGED vars
  <2>1. UNCHANGED <<parts, cursor, strayed, outcome>>
    BY <1>1 DEF vars, contents
  <2>2. StreamInv'
    BY <2>1 DEF StreamInv
  <2>3. UNCHANGED Stream!streams
    BY <2>1 DEF Stream!streams, ReadParts, UnreadParts
  <2>4. QED
    BY <2>2, <2>3
<1>2. ASSUME NEW m \in Objects, MessageStep(m) PROVE StreamInv' /\ Stream!Next
  <2>1. 1..MaxParts \subseteq Nat
    BY MessageAssumption
  <2>2. CASE \E b \in Buffers : Add(m, b) \/ PushFront(m, b)
    BY <2>2, AddStream, PushFrontStream
  <2>3. CASE \E k \in 1..MaxParts : RemovePart(m, k)
    BY <2>1, <2>3, RemovePartStream
  <2>4. CASE Remaining(m) \/ \E k \in 1..MaxParts : GetPart(m, k)
    BY <2>4, PeekStream
  <2>5. CASE Read(m) \/ Skip(m)
    BY <2>5, ReadStream
  <2>6. CASE ResetCursor(m)
    BY <2>6, ResetStream
  <2>7. CASE Renew(m) \/ \E n \in Objects : CopyNew(m, n)
    BY <2>7, RenewStream
  <2>8. CASE \E n \in Objects : Move(m, n) \/ Copy(m, n)
    BY <2>8, MoveStream, CopyStream
  <2>9. QED
    BY <1>2, <2>2, <2>3, <2>4, <2>5, <2>6, <2>7, <2>8 DEF MessageStep
<1>3. CASE Next
  BY <1>2, <1>3, SocketStream DEF Next
<1>4. QED
  BY <1>1, <1>3

(* The vector and its cursor are a stream of parts that were read and parts
   that were not: every call on a message, and every receive, is one that
   PartStream allows (message.cpp:93-118, 418-467, socket.cpp:209-257). *)
THEOREM MessageIsStream == Spec => ImplementsStream
<1>1. Init => StreamInv /\ Stream!Init
  BY InitStream
<1>2. TypeOK /\ StreamInv /\ [Next]_vars => StreamInv' /\ [Stream!Next]_(Stream!streams)
  BY StreamStep
<1>3. Spec => []TypeOK
  BY AlwaysMessageInv, PTL DEF MessageInv
<1>4. QED
  BY <1>1, <1>2, <1>3, PTL DEF Spec, ImplementsStream, Stream!Spec

=============================================================================
