-------------------------- MODULE MultipartProofs --------------------------
(***************************************************************************)
(* send and receive, whole or part by part, are a queue of whole messages, *)
(* for messages of any sizes, any high water mark and any number of        *)
(* messages, refusals and interrupts, until a signal hits a later part of  *)
(* a send.  And no part is sent twice or overtakes another, with such a    *)
(* signal and without.  Every call of set and get takes an option for the  *)
(* same type, with every version of libzmq.                                *)
(***************************************************************************)
EXTENDS MCMultipart, SequenceTheorems, FiniteSetTheorems, TLAPS

-----------------------------------------------------------------------------
(* How the parts that libzmq and receive hold belong to the messages that were
   accepted: n messages are received, of the next one the parts t are, w is on
   the wire, and its last m parts begin a message i that is being sent.
   f[j] is where on the wire message j begins, less one; for the one that is
   being received that is in front of the wire. *)
Starts(f, acc, n, t, w, m) ==
  /\ \A j \in Nat : f[j] \in Int
  /\ n <= Len(acc) /\ f[n + 1] + Len(t) = 0
  /\ \A j \in (n + 1)..Len(acc) : f[j + 1] = f[j] + Len(acc[j])
  /\ \A j, k \in (n + 1)..(Len(acc) + 1) : j < k => f[j] < f[k]
  /\ f[Len(acc) + 1] >= 0 /\ Len(w) = f[Len(acc) + 1] + m

Accepted(f, acc, n, w) ==
  \A j \in (n + 1)..Len(acc) : \A k \in 1..Len(acc[j]) :
    f[j] + k >= 1 => w[f[j] + k] = [part |-> acc[j][k], more |-> k < Len(acc[j])]

Begun(f, acc, w, m, i) ==
  \A k \in 1..m : w[f[Len(acc) + 1] + k] = [part |-> [id |-> i, nr |-> k], more |-> TRUE]

Taken(acc, n, t) ==
  \A k \in 1..Len(t) : n < Len(acc) /\ k < Len(acc[n + 1]) /\ t[k] = acc[n + 1][k]

Flows(f, acc, n, t, w, m, i) ==
  Starts(f, acc, n, t, w, m) /\ Accepted(f, acc, n, w) /\ Begun(f, acc, w, m, i) /\ Taken(acc, n, t)

(* What the arithmetic of the places asks of the accepted messages *)
Log(acc) == Len(acc) \in Nat /\ \A j \in 1..Len(acc) : Len(acc[j]) \in Nat \ {0}

LEMMA WholeLen ==
  ASSUME NEW x \in 1..MaxMessages, NEW y \in Sizes
  PROVE  /\ Whole(x, y) \in Messages /\ Len(Whole(x, y)) = y /\ y \in Nat \ {0}
         /\ \A k \in 1..y : Whole(x, y)[k] = [id |-> x, nr |-> k]
<1>1. y \in Nat \ {0}
  BY MultipartAssumption DEF MultipartAssumption
<1>2. QED BY <1>1 DEF Whole, Messages

LEMMA LogOfMessages ==
  ASSUME NEW acc \in Seq(Messages)
  PROVE  Log(acc)
<1>1. Len(acc) \in Nat
  BY LenProperties
<1>2. ASSUME NEW j \in 1..Len(acc)
      PROVE  Len(acc[j]) \in Nat \ {0}
  <2>1. acc[j] \in Messages
    BY ElementOfSeq
  <2>2. PICK x \in 1..MaxMessages, y \in Sizes : acc[j] = Whole(x, y)
    BY <2>1 DEF Messages
  <2>3. QED BY <2>2, WholeLen
<1>3. QED BY <1>1, <1>2 DEF Log

(* The first part that receive can see continues the message it is filling. *)
LEMMA NextPart ==
  ASSUME NEW f, NEW acc, Log(acc), NEW n \in Nat, NEW t, Len(t) \in Nat, NEW w,
         NEW m \in Nat, NEW i, Flows(f, acc, n, t, w, m, i),
         \E k \in 1..Len(w) : ~w[k].more
  PROVE  /\ n < Len(acc) /\ Len(t) + 1 \in 1..Len(acc[n + 1])
         /\ w[1] = [part |-> acc[n + 1][Len(t) + 1], more |-> Len(t) + 1 < Len(acc[n + 1])]
         /\ Len(acc[n + 1]) \in Nat
<1>1. Len(acc) \in Nat /\ n <= Len(acc) /\ f[n + 1] \in Int /\ f[n + 1] + Len(t) = 0
  BY DEF Flows, Starts, Log
<1>2. n < Len(acc)
  <2> SUFFICES ASSUME n = Len(acc) PROVE FALSE
    BY <1>1
  <2>1. f[n + 1] >= 0 /\ Len(w) = f[n + 1] + m
    BY DEF Flows, Starts
  <2>2. f[n + 1] = 0 /\ Len(w) = m
    BY <1>1, <2>1
  <2>3. ASSUME NEW k \in 1..m PROVE w[k].more
    <3>1. w[f[n + 1] + k] = [part |-> [id |-> i, nr |-> k], more |-> TRUE]
      BY DEF Flows, Begun
    <3>2. w[k] = [part |-> [id |-> i, nr |-> k], more |-> TRUE]
      BY <2>2, <3>1
    <3>3. QED BY <3>2
  <2>4. QED BY <2>2, <2>3
<1>3. Len(acc[n + 1]) \in Nat \ {0}
  BY <1>1, <1>2 DEF Log
<1>4. Len(t) < Len(acc[n + 1])
  <2>1. CASE Len(t) = 0 BY <1>3, <2>1
  <2>2. CASE Len(t) \in 1..Len(t) BY <2>2 DEF Flows, Taken
  <2>3. QED BY <2>1, <2>2
<1>5. Len(t) + 1 \in 1..Len(acc[n + 1]) /\ f[n + 1] + (Len(t) + 1) = 1
  BY <1>1, <1>3, <1>4, SMTT(30)
<1>6. w[1] = [part |-> acc[n + 1][Len(t) + 1], more |-> Len(t) + 1 < Len(acc[n + 1])]
  <2>1. n + 1 \in (n + 1)..Len(acc) BY <1>1, <1>2
  <2>2. f[n + 1] + (Len(t) + 1) >= 1 BY <1>5
  <2>3. w[f[n + 1] + (Len(t) + 1)] =
          [part |-> acc[n + 1][Len(t) + 1], more |-> Len(t) + 1 < Len(acc[n + 1])]
    BY <1>5, <2>1, <2>2, Zenon DEF Flows, Accepted
  <2>4. QED BY <1>5, <2>3
<1>7. QED BY <1>2, <1>3, <1>5, <1>6

(* Every part of an accepted message is in front of what has begun. *)
LEMMA PartsInFront ==
  ASSUME NEW f, NEW acc, Log(acc), NEW n \in Nat, NEW t, NEW w, NEW m,
         Starts(f, acc, n, t, w, m), NEW j \in (n + 1)..Len(acc)
  PROVE  /\ j \in Nat /\ j + 1 \in Nat /\ Len(acc[j]) \in Nat
         /\ f[j + 1] = f[j] + Len(acc[j])
         /\ f[j] \in Int /\ f[j] + Len(acc[j]) <= f[Len(acc) + 1]
<1>1. Len(acc) \in Nat /\ j \in Nat /\ Len(acc[j]) \in Nat
  BY DEF Log
<1>2. f[j] \in Int /\ f[j + 1] = f[j] + Len(acc[j])
  BY <1>1 DEF Starts
<1>3. CASE j = Len(acc)
  BY <1>1, <1>2, <1>3
<1>4. CASE j < Len(acc)
  <2>1. j + 1 \in (n + 1)..(Len(acc) + 1) /\ Len(acc) + 1 \in (n + 1)..(Len(acc) + 1)
        /\ j + 1 < Len(acc) + 1
    BY <1>1, <1>4
  <2>2. f[j + 1] < f[Len(acc) + 1]
    BY <2>1, Zenon DEF Starts
  <2>3. Len(acc) + 1 \in Nat
    BY <1>1
  <2>4. f[Len(acc) + 1] \in Int
    BY <2>3, Zenon DEF Starts
  <2>5. QED BY <1>1, <1>2, <2>2, <2>4
<1>5. QED BY <1>1, <1>3, <1>4

(* receive takes a part: everything on the wire is one place further on. *)
OnePlaceOn(g, f) == \A j \in Nat : g[j] = f[j] - 1

WithoutFirst(v, w) == Len(v) = Len(w) - 1 /\ \A k \in 1..(Len(w) - 1) : v[k] = w[k + 1]

LEMMA ShiftFlows ==
  ASSUME NEW f, NEW acc, Log(acc), NEW n \in Nat, NEW t, NEW w, NEW m \in Nat, NEW i,
         Starts(f, acc, n, t, w, m), Accepted(f, acc, n, w), Begun(f, acc, w, m, i),
         f[Len(acc) + 1] >= 1,
         NEW g, OnePlaceOn(g, f), NEW v, WithoutFirst(v, w)
  PROVE  /\ \A j \in Nat : g[j] \in Int
         /\ \A j \in (n + 1)..Len(acc) : g[j + 1] = g[j] + Len(acc[j])
         /\ \A j, k \in (n + 1)..(Len(acc) + 1) : j < k => g[j] < g[k]
         /\ g[Len(acc) + 1] >= 0 /\ Len(v) = g[Len(acc) + 1] + m
         /\ Accepted(g, acc, n, v) /\ Begun(g, acc, v, m, i)
<1>0. /\ \A j \in Nat : g[j] = f[j] - 1
      /\ Len(v) = Len(w) - 1 /\ \A k \in 1..(Len(w) - 1) : v[k] = w[k + 1]
  BY DEF OnePlaceOn, WithoutFirst
<1>1. Len(acc) \in Nat /\ \A j \in Nat : f[j] \in Int /\ g[j] \in Int
  <2>1. Len(acc) \in Nat /\ \A j \in Nat : f[j] \in Int
    BY DEF Log, Starts
  <2>2. ASSUME NEW j \in Nat PROVE g[j] \in Int
    <3>1. f[j] \in Int /\ g[j] = f[j] - 1 BY <1>0, <2>1
    <3>2. QED BY <3>1
  <2>3. QED BY <2>1, <2>2
<1>2. f[Len(acc) + 1] \in Int /\ g[Len(acc) + 1] = f[Len(acc) + 1] - 1
      /\ Len(w) = f[Len(acc) + 1] + m
  BY <1>0, <1>1 DEF Starts
<1>3. ASSUME NEW j \in (n + 1)..Len(acc) PROVE g[j + 1] = g[j] + Len(acc[j])
  <2>1. /\ j \in Nat /\ j + 1 \in Nat /\ Len(acc[j]) \in Nat
        /\ f[j] \in Int /\ f[j + 1] = f[j] + Len(acc[j])
    BY PartsInFront
  <2>2. g[j] = f[j] - 1 /\ g[j + 1] = f[j + 1] - 1
    BY <1>0, <2>1
  <2>3. QED BY <2>1, <2>2
<1>4. ASSUME NEW j \in (n + 1)..(Len(acc) + 1), NEW k \in (n + 1)..(Len(acc) + 1), j < k
      PROVE  g[j] < g[k]
  <2>1. f[j] < f[k] /\ j \in Nat /\ k \in Nat BY <1>1, <1>4 DEF Starts
  <2>2. f[j] \in Int /\ f[k] \in Int /\ g[j] = f[j] - 1 /\ g[k] = f[k] - 1 BY <1>0, <1>1, <2>1
  <2>3. QED BY <2>1, <2>2
<1>5. g[Len(acc) + 1] >= 0 /\ Len(v) = g[Len(acc) + 1] + m
  BY <1>0, <1>2
<1>6. ASSUME NEW j \in (n + 1)..Len(acc), NEW k \in 1..Len(acc[j]), g[j] + k >= 1
      PROVE  v[g[j] + k] = [part |-> acc[j][k], more |-> k < Len(acc[j])]
  <2>1. /\ f[j] \in Int /\ Len(acc[j]) \in Nat /\ f[j] + Len(acc[j]) <= f[Len(acc) + 1]
        /\ g[j] = f[j] - 1
    BY <1>0, PartsInFront
  <2> DEFINE place == f[j]
             to == g[j]
             of == Len(acc[j])
             end == f[Len(acc) + 1]
  <2>2. f[j] + k >= 1 /\ g[j] + k \in 1..(Len(w) - 1) /\ (g[j] + k) + 1 = f[j] + k
    <3>1. /\ place \in Int /\ end \in Int /\ to = place - 1 /\ to + k >= 1 /\ Len(w) = end + m
          /\ of \in Nat /\ k \in 1..of /\ place + of <= end
      BY <1>2, <1>6, <2>1
    <3> HIDE DEF place, to, of, end
    <3>2. k \in Nat /\ k <= of
      BY <3>1
    <3>3. place + k >= 1 /\ (to + k) + 1 = place + k /\ place + k <= end
      BY <3>1, <3>2
    <3>4. to + k \in 1..(Len(w) - 1)
      BY <3>1, <3>2, <3>3
    <3>5. QED BY <3>3, <3>4 DEF place, to
  <2>3. w[f[j] + k] = [part |-> acc[j][k], more |-> k < Len(acc[j])]
    BY <2>2, Zenon DEF Accepted
  <2>4. QED BY <1>0, <2>2, <2>3
<1>7. ASSUME NEW k \in 1..m
      PROVE  v[g[Len(acc) + 1] + k] = [part |-> [id |-> i, nr |-> k], more |-> TRUE]
  <2>1. /\ g[Len(acc) + 1] + k \in 1..(Len(w) - 1)
        /\ (g[Len(acc) + 1] + k) + 1 = f[Len(acc) + 1] + k
    BY <1>2, SMTT(30)
  <2>2. w[f[Len(acc) + 1] + k] = [part |-> [id |-> i, nr |-> k], more |-> TRUE]
    BY Zenon DEF Begun
  <2>3. QED BY <1>0, <2>1, <2>2
<1>8. QED BY <1>1, <1>3, <1>4, <1>5, <1>6, <1>7 DEF Accepted, Begun

(* The part that is taken is not the last of its message ... *)
LEMMA TakeMore ==
  ASSUME NEW f, NEW acc, Log(acc), NEW n \in Nat, NEW t, Len(t) \in Nat, NEW w, NEW m \in Nat,
         NEW i, Flows(f, acc, n, t, w, m, i),
         n < Len(acc), Len(t) + 1 < Len(acc[n + 1]), Len(acc[n + 1]) \in Nat,
         NEW g, OnePlaceOn(g, f), NEW v, WithoutFirst(v, w),
         NEW s, Len(s) = Len(t) + 1, \A k \in 1..Len(t) : s[k] = t[k],
         s[Len(t) + 1] = acc[n + 1][Len(t) + 1]
  PROVE  Flows(g, acc, n, s, v, m, i)
<1>1. Len(acc) \in Nat /\ n + 1 \in (n + 1)..Len(acc)
  BY DEF Log
<1>2. f[n + 1] \in Int /\ f[n + 1] + Len(t) = 0 /\ f[Len(acc) + 1] \in Int
  BY <1>1 DEF Flows, Starts
<1>3. f[Len(acc) + 1] >= 1
  <2>1. f[n + 1] + Len(acc[n + 1]) <= f[Len(acc) + 1]
    BY <1>1, PartsInFront DEF Flows
  <2>2. QED BY <1>2, <2>1
<1>4. /\ \A j \in Nat : g[j] \in Int
      /\ \A j \in (n + 1)..Len(acc) : g[j + 1] = g[j] + Len(acc[j])
      /\ \A j, k \in (n + 1)..(Len(acc) + 1) : j < k => g[j] < g[k]
      /\ g[Len(acc) + 1] >= 0 /\ Len(v) = g[Len(acc) + 1] + m
      /\ Accepted(g, acc, n, v) /\ Begun(g, acc, v, m, i)
  <2>1. Starts(f, acc, n, t, w, m) /\ Accepted(f, acc, n, w) /\ Begun(f, acc, w, m, i)
    BY DEF Flows
  <2>2. QED BY <1>3, <2>1, ShiftFlows, Zenon
<1>5. g[n + 1] + Len(s) = 0
  <2> DEFINE to == g[n + 1]
             place == f[n + 1]
  <2>1. place \in Int /\ place + Len(t) = 0 /\ to = place - 1 BY <1>1, <1>2 DEF OnePlaceOn
  <2> HIDE DEF to, place
  <2>2. to + (Len(t) + 1) = 0 BY <2>1
  <2>3. QED BY <2>2 DEF to
<1>6. Taken(acc, n, s)
  <2> SUFFICES ASSUME NEW k \in 1..Len(s)
               PROVE  n < Len(acc) /\ k < Len(acc[n + 1]) /\ s[k] = acc[n + 1][k]
    BY DEF Taken
  <2>1. CASE k \in 1..Len(t)
    BY <2>1 DEF Flows, Taken
  <2>2. CASE k = Len(t) + 1
    BY <2>2
  <2>3. QED BY <2>1, <2>2
<1>7. QED BY <1>1, <1>4, <1>5, <1>6 DEF Flows, Starts

(* ... or it is. *)
LEMMA TakeLast ==
  ASSUME NEW f, NEW acc, Log(acc), NEW n \in Nat, NEW t, Len(t) \in Nat, NEW w, NEW m \in Nat,
         NEW i, Flows(f, acc, n, t, w, m, i),
         n < Len(acc), Len(t) + 1 = Len(acc[n + 1]),
         NEW g, OnePlaceOn(g, f), NEW v, WithoutFirst(v, w),
         NEW s, Len(s) = 0
  PROVE  Flows(g, acc, n + 1, s, v, m, i)
<1>1. Len(acc) \in Nat /\ n + 1 \in (n + 1)..Len(acc)
  BY DEF Log
<1>2. f[n + 1] \in Int /\ f[n + 1] + Len(t) = 0 /\ f[Len(acc) + 1] \in Int
      /\ f[(n + 1) + 1] = f[n + 1] + Len(acc[n + 1])
  BY <1>1 DEF Flows, Starts
<1>3. f[Len(acc) + 1] >= 1
  <2>1. f[n + 1] + Len(acc[n + 1]) <= f[Len(acc) + 1]
    BY <1>1, PartsInFront DEF Flows
  <2>2. QED BY <1>2, <2>1
<1>4. /\ \A j \in Nat : g[j] \in Int
      /\ \A j \in (n + 1)..Len(acc) : g[j + 1] = g[j] + Len(acc[j])
      /\ \A j, k \in (n + 1)..(Len(acc) + 1) : j < k => g[j] < g[k]
      /\ g[Len(acc) + 1] >= 0 /\ Len(v) = g[Len(acc) + 1] + m
      /\ Accepted(g, acc, n, v) /\ Begun(g, acc, v, m, i)
  <2>1. Starts(f, acc, n, t, w, m) /\ Accepted(f, acc, n, w) /\ Begun(f, acc, w, m, i)
    BY DEF Flows
  <2>2. QED BY <1>3, <2>1, ShiftFlows, Zenon
<1>5. g[(n + 1) + 1] + Len(s) = 0
  <2>1. g[(n + 1) + 1] = f[(n + 1) + 1] - 1 BY <1>1 DEF OnePlaceOn
  <2>2. QED BY <1>2, <2>1
<1>6. /\ \A j \in ((n + 1) + 1)..Len(acc) : j \in (n + 1)..Len(acc)
      /\ \A j \in ((n + 1) + 1)..(Len(acc) + 1) : j \in (n + 1)..(Len(acc) + 1)
  BY <1>1
<1>7. Accepted(g, acc, n + 1, v)
  BY <1>4, <1>6, Zenon DEF Accepted
<1>8. Taken(acc, n + 1, s)
  BY DEF Taken
<1>9. Starts(g, acc, n + 1, s, v, m)
  <2>1. n + 1 <= Len(acc) BY <1>1
  <2>2. \A j \in ((n + 1) + 1)..Len(acc) : g[j + 1] = g[j] + Len(acc[j])
    BY <1>4, <1>6, Zenon
  <2>3. \A j, k \in ((n + 1) + 1)..(Len(acc) + 1) : j < k => g[j] < g[k]
    BY <1>4, <1>6, Zenon
  <2>4. QED BY <1>4, <1>5, <2>1, <2>2, <2>3, Zenon DEF Starts
<1>10. QED BY <1>4, <1>7, <1>8, <1>9 DEF Flows

(* send hands a part to libzmq, and it is not the last ... *)
LEMMA SendMore ==
  ASSUME NEW f, NEW acc, Log(acc), NEW n \in Nat, NEW t, NEW w, NEW m \in Nat,
         NEW i, Flows(f, acc, n, t, w, m, i),
         NEW v, Len(v) = Len(w) + 1, \A k \in 1..Len(w) : v[k] = w[k],
         v[Len(w) + 1] = [part |-> [id |-> i, nr |-> m + 1], more |-> TRUE]
  PROVE  Flows(f, acc, n, t, v, m + 1, i)
<1>1. Len(acc) \in Nat /\ f[Len(acc) + 1] \in Int /\ f[Len(acc) + 1] >= 0
      /\ Len(w) = f[Len(acc) + 1] + m
  BY DEF Log, Flows, Starts
<1>2. Starts(f, acc, n, t, v, m + 1)
  <2>1. Len(v) = f[Len(acc) + 1] + (m + 1) BY <1>1
  <2>2. QED BY <2>1 DEF Flows, Starts
<1>3. Accepted(f, acc, n, v)
  <2> SUFFICES ASSUME NEW j \in (n + 1)..Len(acc), NEW k \in 1..Len(acc[j]), f[j] + k >= 1
               PROVE  v[f[j] + k] = [part |-> acc[j][k], more |-> k < Len(acc[j])]
    BY DEF Accepted
  <2>1. f[j] \in Int /\ Len(acc[j]) \in Nat /\ f[j] + Len(acc[j]) <= f[Len(acc) + 1]
    BY PartsInFront DEF Flows
  <2>2. f[j] + k \in 1..Len(w)
    <3> DEFINE place == f[j]
               of == Len(acc[j])
               end == f[Len(acc) + 1]
    <3>1. /\ place \in Int /\ of \in Nat /\ end \in Int /\ k \in 1..of /\ place + k >= 1
          /\ place + of <= end /\ Len(w) = end + m
      BY <1>1, <2>1
    <3> HIDE DEF place, of, end
    <3>2. place + k \in 1..Len(w) BY <3>1
    <3>3. QED BY <3>2 DEF place
  <2>3. w[f[j] + k] = [part |-> acc[j][k], more |-> k < Len(acc[j])]
    BY Zenon DEF Flows, Accepted
  <2>4. QED BY <2>2, <2>3
<1>4. Begun(f, acc, v, m + 1, i)
  <2> DEFINE end == f[Len(acc) + 1]
  <2>1. \A k \in 1..m : w[end + k] = [part |-> [id |-> i, nr |-> k], more |-> TRUE]
    BY Zenon DEF Flows, Begun
  <2>2. end \in Int /\ end >= 0 /\ Len(w) = end + m
    BY <1>1
  <2> HIDE DEF end
  <2>3. ASSUME NEW k \in 1..(m + 1)
        PROVE  v[end + k] = [part |-> [id |-> i, nr |-> k], more |-> TRUE]
    <3>1. CASE k = m + 1
      <4>1. end + k = Len(w) + 1 BY <2>2, <3>1
      <4>2. QED BY <3>1, <4>1
    <3>2. CASE k \in 1..m
      <4>1. end + k \in 1..Len(w) BY <2>2, <3>2
      <4>2. QED BY <2>1, <3>2, <4>1
    <3>3. QED BY <3>1, <3>2
  <2>4. QED BY <2>3 DEF Begun, end
<1>5. QED BY <1>2, <1>3, <1>4 DEF Flows

(* ... or it is, and the message that has begun is accepted. *)
OnePlaceMore(g, f, L, m) ==
  \A j \in Nat : g[j] = IF j = L + 2 THEN f[L + 1] + m + 1 ELSE f[j]

LastPartOn(v, w, m, i) ==
  /\ Len(v) = Len(w) + 1 /\ \A k \in 1..Len(w) : v[k] = w[k]
  /\ v[Len(w) + 1] = [part |-> [id |-> i, nr |-> m + 1], more |-> FALSE]

OneMore(b, acc, m, i) ==
  /\ Len(b) = Len(acc) + 1 /\ \A j \in 1..Len(acc) : b[j] = acc[j]
  /\ Len(b[Len(acc) + 1]) = m + 1
  /\ \A k \in 1..(m + 1) : b[Len(acc) + 1][k] = [id |-> i, nr |-> k]

LEMMA SendLast ==
  ASSUME NEW f, NEW acc, Log(acc), NEW n \in Nat, NEW t, NEW w, NEW m \in Nat,
         NEW i, NEW i2, Flows(f, acc, n, t, w, m, i),
         NEW g, OnePlaceMore(g, f, Len(acc), m),
         NEW v, LastPartOn(v, w, m, i),
         NEW b, OneMore(b, acc, m, i)
  PROVE  Flows(g, b, n, t, v, 0, i2)
<1> DEFINE L == Len(acc)
           end == f[L + 1]
<1>0. /\ \A j \in Nat : g[j] = IF j = Len(acc) + 2 THEN f[Len(acc) + 1] + m + 1 ELSE f[j]
      /\ Len(v) = Len(w) + 1 /\ \A k \in 1..Len(w) : v[k] = w[k]
      /\ v[Len(w) + 1] = [part |-> [id |-> i, nr |-> m + 1], more |-> FALSE]
      /\ Len(b) = Len(acc) + 1 /\ \A j \in 1..Len(acc) : b[j] = acc[j]
      /\ Len(b[Len(acc) + 1]) = m + 1
      /\ \A k \in 1..(m + 1) : b[Len(acc) + 1][k] = [id |-> i, nr |-> k]
  BY DEF OnePlaceMore, LastPartOn, OneMore
<1>1. /\ L \in Nat /\ n <= L /\ end \in Int /\ end >= 0 /\ Len(w) = end + m
      /\ \A j \in Nat : f[j] \in Int
      /\ \A j \in 1..L : Len(acc[j]) \in Nat
  BY DEF Log, Flows, Starts
<1>2. /\ \A j \in (n + 1)..(L + 1) : j \in Nat /\ g[j] = f[j] /\ f[j] \in Int
      /\ g[L + 2] = end + m + 1 /\ L + 2 \in Nat /\ n + 1 \in (n + 1)..(L + 1)
  BY <1>0, <1>1
<1>3. /\ (n + 1)..Len(b) = (n + 1)..L \cup {L + 1}
      /\ (n + 1)..(Len(b) + 1) = (n + 1)..(L + 1) \cup {L + 2}
      /\ \A j \in (n + 1)..L : j \in 1..L /\ j \in (n + 1)..(L + 1) /\ j + 1 \in (n + 1)..(L + 1)
      /\ Len(b) + 1 = L + 2
  BY <1>0, <1>1, SMTT(30)
<1>4. Starts(g, b, n, t, v, 0)
  <2>1. ASSUME NEW j \in Nat PROVE g[j] \in Int
    <3>1. CASE j = L + 2 BY <1>0, <1>1, <1>2, <3>1
    <3>2. CASE j # L + 2
      <4>1. g[j] = f[j] BY <1>0, <3>2
      <4>2. QED BY <1>0, <1>1, <4>1
    <3>3. QED BY <3>1, <3>2
  <2>2. n <= Len(b) /\ g[n + 1] + Len(t) = 0
    <3>1. f[n + 1] + Len(t) = 0 BY DEF Flows, Starts
    <3>2. n <= Len(b) BY <1>0, <1>1
    <3>3. QED BY <1>2, <3>1, <3>2
  <2>3. ASSUME NEW j \in (n + 1)..Len(b) PROVE g[j + 1] = g[j] + Len(b[j])
    <3>1. CASE j = L + 1
      <4>1. g[j + 1] = end + m + 1 BY <1>0, <1>1, <1>2, <3>1
      <4>2. g[j] = end /\ Len(b[j]) = m + 1 BY <1>0, <1>1, <1>2, <3>1
      <4>3. QED BY <1>0, <1>1, <4>1, <4>2, SMTT(30)
    <3>2. CASE j \in (n + 1)..L
      <4>1. f[j + 1] = f[j] + Len(acc[j]) BY <3>2 DEF Flows, Starts
      <4>2. QED BY <1>0, <1>2, <1>3, <3>2, <4>1
    <3>3. QED BY <1>3, <3>1, <3>2
  <2>4. ASSUME NEW j \in (n + 1)..(Len(b) + 1), NEW k \in (n + 1)..(Len(b) + 1), j < k
        PROVE  g[j] < g[k]
    <3>1. \A x, y \in (n + 1)..(L + 1) : x < y => f[x] < f[y]
      BY DEF Flows, Starts
    <3>2. j \in (n + 1)..(L + 1)
      BY <1>0, <1>1, <1>3, <2>4
    <3>3. CASE k \in (n + 1)..(L + 1)
      BY <1>2, <2>4, <3>1, <3>2, <3>3
    <3>4. CASE k = L + 2
      <4>1. f[j] <= end
        <5>1. CASE j = L + 1 BY <1>0, <1>1, <5>1
        <5>2. CASE j < L + 1
          <6>1. L + 1 \in (n + 1)..(L + 1) BY <1>0, <1>1
          <6>2. f[j] < f[L + 1] BY <3>1, <3>2, <5>2, <6>1
          <6>3. f[j] \in Int /\ f[L + 1] \in Int BY <1>1, <1>2, <3>2
          <6> HIDE DEF L
          <6>4. QED BY <6>2, <6>3
        <5>3. QED BY <1>0, <1>1, <3>2, <5>1, <5>2, SMTT(30)
      <4>2. g[j] = f[j] /\ f[j] \in Int /\ g[k] = end + m + 1
        BY <1>2, <3>2, <3>4
      <4>3. QED BY <1>0, <1>1, <4>1, <4>2, SMTT(30)
    <3>5. QED BY <1>3, <3>3, <3>4
  <2>5. g[Len(b) + 1] >= 0 /\ Len(v) = g[Len(b) + 1] + 0
    BY <1>0, <1>1, <1>2, <1>3
  <2>6. QED BY <2>1, <2>2, <2>3, <2>4, <2>5 DEF Starts
<1>5. Accepted(g, b, n, v)
  <2> SUFFICES ASSUME NEW j \in (n + 1)..Len(b), NEW k \in 1..Len(b[j]), g[j] + k >= 1
               PROVE  v[g[j] + k] = [part |-> b[j][k], more |-> k < Len(b[j])]
    BY DEF Accepted
  <2>1. CASE j = L + 1
    <3>1. g[j] = end /\ Len(b[j]) = m + 1 /\ b[j][k] = [id |-> i, nr |-> k]
      BY <1>0, <1>1, <1>2, <2>1
    <3>2. k \in 1..(m + 1)
      BY <3>1
    <3>3. CASE k = m + 1
      <4>0. end \in Int /\ Len(w) = end + m BY <1>0, <1>1
      <4>1. end + k = Len(w) + 1
        <5> HIDE DEF end
        <5>1. QED BY <4>0, <3>3
      <4>2. (k < m + 1) = FALSE BY <3>3
      <4>3. QED BY <1>0, <3>1, <3>3, <4>1, <4>2
    <3>4. CASE k \in 1..m
      <4>0. end \in Int /\ end >= 0 /\ Len(w) = end + m
        BY <1>0, <1>1
      <4>1. end + k \in 1..Len(w)
        <5> HIDE DEF end
        <5>1. QED BY <3>4, <4>0
      <4>2. w[end + k] = [part |-> [id |-> i, nr |-> k], more |-> TRUE]
        BY <3>4, Zenon DEF Flows, Begun
      <4>3. (k < m + 1) = TRUE BY <3>4
      <4>4. v[end + k] = [part |-> [id |-> i, nr |-> k], more |-> TRUE]
        BY <1>0, <4>1, <4>2
      <4> HIDE DEF end, L
      <4>5. v[g[j] + k] = [part |-> b[j][k], more |-> k < m + 1]
        BY <3>1, <4>3, <4>4
      <4>6. QED BY <3>1, <4>5
    <3>5. QED BY <3>2, <3>3, <3>4
  <2>2. CASE j \in (n + 1)..L
    <3>1. g[j] = f[j] /\ b[j] = acc[j]
      BY <1>0, <1>2, <1>3, <2>2
    <3>2. f[j] \in Int /\ Len(acc[j]) \in Nat /\ f[j] + Len(acc[j]) <= end
      BY <2>2, PartsInFront DEF Flows
    <3>3. k \in Nat /\ k <= Len(acc[j]) /\ k \in 1..Len(acc[j]) /\ f[j] + k >= 1
      BY <3>1, <3>2
    <3>4. f[j] + k \in 1..Len(w)
      <4> DEFINE place == f[j]
                 of == Len(acc[j])
      <4>1. /\ place \in Int /\ of \in Nat /\ place + of <= end /\ k \in Nat /\ k <= of
            /\ place + k >= 1 /\ end \in Int /\ Len(w) = end + m
        BY <1>0, <1>1, <3>2, <3>3
      <4> HIDE DEF place, of, end
      <4>2. place + k \in 1..Len(w) BY <4>1
      <4>3. QED BY <4>2 DEF place
    <3>5. w[f[j] + k] = [part |-> acc[j][k], more |-> k < Len(acc[j])]
      BY <2>2, <3>3, Zenon DEF Flows, Accepted
    <3>6. QED BY <1>0, <3>1, <3>4, <3>5
  <2>3. QED BY <1>3, <2>1, <2>2
<1>6. Begun(g, b, v, 0, i2)
  BY DEF Begun
<1>7. Taken(b, n, t)
  <2> SUFFICES ASSUME NEW k \in 1..Len(t)
               PROVE  n < Len(b) /\ k < Len(b[n + 1]) /\ t[k] = b[n + 1][k]
    BY DEF Taken
  <2>1. n < L /\ k < Len(acc[n + 1]) /\ t[k] = acc[n + 1][k]
    BY DEF Flows, Taken
  <2>2. n + 1 \in 1..L /\ n < Len(b)
    BY <1>0, <1>1, <2>1, SMTT(30)
  <2>9. b[n + 1] = acc[n + 1]
    BY <1>0, <2>2
  <2>3. QED BY <2>1, <2>2, <2>9
<1>8. QED BY <1>4, <1>5, <1>6, <1>7 DEF Flows

-----------------------------------------------------------------------------
(* The same for the sequences of the model *)
Parts == [part : Part, more : BOOLEAN]

LEMMA SendFlows ==
  ASSUME NEW acc \in Seq(Messages), NEW n \in Nat, NEW t, NEW w \in Seq(Parts),
         NEW x \in 1..MaxMessages, NEW y \in Sizes, NEW a \in 1..y,
         NEW f, Flows(f, acc, n, t, w, a - 1, x),
         NEW v, v = Append(w, [part |-> [id |-> x, nr |-> a], more |-> a < y])
  PROVE  /\ a # y => Flows(f, acc, n, t, v, a, x)
         /\ a = y => \E g : Flows(g, Append(acc, Whole(x, y)), n, t, v, 0, x)
<1>1. Log(acc) /\ Len(acc) \in Nat
  BY LogOfMessages DEF Log
<1>2. y \in Nat /\ a \in Nat /\ a - 1 \in Nat /\ (a - 1) + 1 = a
  BY WholeLen
<1>3. /\ Len(v) = Len(w) + 1 /\ \A k \in 1..Len(w) : v[k] = w[k]
      /\ v[Len(w) + 1] = [part |-> [id |-> x, nr |-> a], more |-> a < y]
  <2> DEFINE p == [part |-> [id |-> x, nr |-> a], more |-> a < y]
  <2>1. p \in Parts
    <3>1. a \in Nat \ {0} /\ (a < y) \in BOOLEAN BY <1>2
    <3>2. QED BY <3>1 DEF Parts, Part
  <2>2. v = Append(w, p) OBVIOUS
  <2> HIDE DEF p
  <2>3. Len(v) = Len(w) + 1 /\ (\A k \in 1..Len(w) : v[k] = w[k]) /\ v[Len(w) + 1] = p
    BY <2>1, <2>2, AppendProperties
  <2>4. QED BY <2>3 DEF p
<1>4. ASSUME a # y PROVE Flows(f, acc, n, t, v, a, x)
  <2>1. (a < y) = TRUE BY <1>2, <1>4
  <2>2. v[Len(w) + 1] = [part |-> [id |-> x, nr |-> (a - 1) + 1], more |-> TRUE]
    BY <1>2, <1>3, <2>1
  <2>3. Flows(f, acc, n, t, v, (a - 1) + 1, x)
    BY <1>1, <1>2, <1>3, <2>2, SendMore, Zenon
  <2>4. QED BY <1>2, <2>3
<1>5. ASSUME a = y PROVE \E g : Flows(g, Append(acc, Whole(x, y)), n, t, v, 0, x)
  <2> DEFINE b == Append(acc, Whole(x, y))
             g == [j \in Nat |-> IF j = Len(acc) + 2 THEN f[Len(acc) + 1] + (a - 1) + 1 ELSE f[j]]
  <2>1. (a < y) = FALSE BY <1>2, <1>5
  <2>2. v[Len(w) + 1] = [part |-> [id |-> x, nr |-> (a - 1) + 1], more |-> FALSE]
    BY <1>2, <1>3, <2>1
  <2>3. Whole(x, y) \in Messages /\ Len(Whole(x, y)) = y
        /\ \A k \in 1..y : Whole(x, y)[k] = [id |-> x, nr |-> k]
    BY WholeLen
  <2>4. Len(b) = Len(acc) + 1 /\ (\A j \in 1..Len(acc) : b[j] = acc[j])
        /\ b[Len(acc) + 1] = Whole(x, y)
    BY <2>3, AppendProperties
  <2>5. Len(b[Len(acc) + 1]) = (a - 1) + 1
        /\ \A k \in 1..((a - 1) + 1) : b[Len(acc) + 1][k] = [id |-> x, nr |-> k]
    BY <1>2, <1>5, <2>3, <2>4
  <2>6. \A j \in Nat : g[j] = IF j = Len(acc) + 2 THEN f[Len(acc) + 1] + (a - 1) + 1 ELSE f[j]
    OBVIOUS
  <2> HIDE DEF b, g
  <2>7. Flows(g, b, n, t, v, 0, x)
    <3> DEFINE m == a - 1
    <3>1. m \in Nat /\ n \in Nat /\ Log(acc) /\ Flows(f, acc, n, t, w, m, x)
      BY <1>1, <1>2
    <3>2. OnePlaceMore(g, f, Len(acc), m)
      BY <2>6 DEF OnePlaceMore
    <3>3. LastPartOn(v, w, m, x)
      BY <1>3, <2>2 DEF LastPartOn
    <3>4. OneMore(b, acc, m, x)
      BY <2>4, <2>5 DEF OneMore
    <3> HIDE DEF m
    <3>5. QED BY <3>1, <3>2, <3>3, <3>4, SendLast, Zenon
  <2>8. QED BY <2>7 DEF b
<1>6. QED BY <1>4, <1>5

LEMMA TakeFlows ==
  ASSUME NEW acc \in Seq(Messages), NEW n \in Nat, NEW t \in Seq(Part), NEW w \in Seq(Parts),
         NEW m \in Nat, NEW i, NEW f, Flows(f, acc, n, t, w, m, i),
         \E k \in 1..Len(w) : ~w[k].more
  PROVE  /\ w[1].more => \E g : Flows(g, acc, n, Append(t, w[1].part), Tail(w), m, i)
         /\ ~w[1].more => /\ n < Len(acc) /\ Append(t, w[1].part) = acc[n + 1]
                          /\ \E g : Flows(g, acc, n + 1, <<>>, Tail(w), m, i)
<1> DEFINE of == acc[n + 1]
           s == Append(t, w[1].part)
           g == [j \in Nat |-> f[j] - 1]
<1>1. Log(acc) /\ Len(acc) \in Nat /\ Len(t) \in Nat /\ Len(w) \in Nat /\ Len(w) # 0 /\ w # <<>>
  <2>1. Log(acc) BY LogOfMessages
  <2>2. Len(t) \in Nat /\ Len(w) \in Nat BY LenProperties
  <2>3. Len(w) # 0 BY <2>2
  <2>4. QED BY <2>1, <2>2, <2>3 DEF Log
<1>2. /\ n < Len(acc) /\ Len(t) + 1 \in 1..Len(of) /\ Len(of) \in Nat
      /\ w[1] = [part |-> of[Len(t) + 1], more |-> Len(t) + 1 < Len(of)]
  <2>1. /\ n < Len(acc) /\ Len(t) + 1 \in 1..Len(acc[n + 1])
        /\ w[1] = [part |-> acc[n + 1][Len(t) + 1], more |-> Len(t) + 1 < Len(acc[n + 1])]
        /\ Len(acc[n + 1]) \in Nat
    <3>1. Log(acc) /\ n \in Nat /\ Len(t) \in Nat /\ m \in Nat /\ Flows(f, acc, n, t, w, m, i)
          /\ \E k \in 1..Len(w) : ~w[k].more
      BY <1>1
    <3>2. QED BY ONLY <3>1, NextPart, Zenon
  <2>2. QED BY <2>1
<1>3. w[1].part = of[Len(t) + 1] /\ w[1].more = (Len(t) + 1 < Len(of)) /\ w[1].part \in Part
  <2>1. w[1] \in Parts
    <3>1. 1 \in 1..Len(w) BY <1>1
    <3>2. QED BY <3>1, ElementOfSeq
  <2>2. QED BY <1>2, <2>1 DEF Parts
<1>4. /\ Len(s) = Len(t) + 1 /\ (\A k \in 1..Len(t) : s[k] = t[k])
      /\ s[Len(t) + 1] = of[Len(t) + 1] /\ s \in Seq(Part)
  BY <1>3, AppendProperties
<1>5. WithoutFirst(Tail(w), w)
  BY <1>1, HeadTailProperties DEF WithoutFirst
<1>6. OnePlaceOn(g, f)
  BY DEF OnePlaceOn
<1>7. ASSUME w[1].more PROVE \E h : Flows(h, acc, n, s, Tail(w), m, i)
  <2>1. Len(t) + 1 < Len(of) BY <1>3, <1>7
  <2> HIDE DEF s, g
  <2>2. Flows(g, acc, n, s, Tail(w), m, i)
    BY <1>1, <1>2, <1>4, <1>5, <1>6, <2>1, TakeMore, ZenonT(60)
  <2>3. QED BY <2>2
<1>8. ASSUME ~w[1].more
      PROVE  s = of /\ \E h : Flows(h, acc, n + 1, <<>>, Tail(w), m, i)
  <2>1. Len(t) + 1 = Len(of)
    <3>1. /\ Len(t) \in Nat /\ Len(of) \in Nat /\ Len(t) + 1 \in 1..Len(of)
          /\ ~(Len(t) + 1 < Len(of))
      BY <1>1, <1>2, <1>3, <1>8, Zenon
    <3> DEFINE a == Len(t)
               b == Len(of)
    <3>2. a \in Nat /\ b \in Nat /\ a + 1 \in 1..b /\ ~(a + 1 < b)
      BY <3>1
    <3> HIDE DEF a, b
    <3>3. a + 1 = b BY <3>2
    <3>4. QED BY <3>3 DEF a, b
  <2>2. \A k \in 1..Len(t) : t[k] = of[k]
    BY DEF Flows, Taken
  <2>3. of \in Seq(Part)
    <3>1. of \in Messages
      <4>1. n + 1 \in 1..Len(acc) BY <1>1, <1>2
      <4>2. QED BY <4>1, ElementOfSeq
    <3>2. PICK x \in 1..MaxMessages, y \in Sizes : of = Whole(x, y)
      BY <3>1 DEF Messages
    <3>3. y \in Nat BY WholeLen
    <3>4. QED BY <3>2, <3>3 DEF Whole, Part
  <2>4. s = of
    <3> HIDE DEF of, s
    <3>1. \A k \in 1..Len(of) : s[k] = of[k]
      BY <1>1, <1>4, <2>1, <2>2
    <3>2. QED BY <1>4, <2>1, <2>3, <3>1, SeqEqual
  <2>5. Len(<<>>) = 0 OBVIOUS
  <2> HIDE DEF s, g
  <2>6. Flows(g, acc, n + 1, <<>>, Tail(w), m, i)
    BY <1>1, <1>2, <1>5, <1>6, <2>1, <2>5, TakeLast, Zenon
  <2>7. QED BY <2>4, <2>6
<1>9. QED BY <1>2, <1>7, <1>8

(* Between two messages nothing of the next one has begun. *)
LEMMA NothingBegun ==
  ASSUME NEW f, NEW acc, NEW n, NEW t, NEW w, NEW i, NEW i2, Flows(f, acc, n, t, w, 0, i)
  PROVE  Flows(f, acc, n, t, w, 0, i2)
BY DEF Flows, Begun

-----------------------------------------------------------------------------
Sending == sender \in {"sending", "strings"}

TypeInv == TypeOK /\ (sender # "idle" => id \in 1..MaxMessages /\ size \in Sizes)

(* Both ways to send a part, and both ways to receive one *)
SendsPart ==
  /\ Sending /\ ~terminated
  /\ wire' = Append(wire, [part |-> [id |-> id, nr |-> at], more |-> More(at, size)])
  /\ Advance
  /\ UNCHANGED <<id, size, dontWait, receiveVars, terminated, skipped, got>>

ReceivesPart ==
  /\ receiver # "idle" /\ ~terminated /\ Readable
  /\ wire' = Tail(wire)
  /\ message' = Append(message, Head(wire).part)
  /\ IF Head(wire).more
     THEN UNCHANGED <<receiver, got>>
     ELSE receiver' = "idle" /\ got' = Append(got, message')
  /\ UNCHANGED <<sendVars, dontBlock, terminated, skipped, accepted>>

LEMMA PartTypes ==
  ASSUME TypeInv
  PROVE  /\ Sending => /\ id \in 1..MaxMessages /\ size \in Sizes /\ size \in Nat /\ at \in 1..size
                       /\ Whole(id, size) \in Messages
                       /\ [part |-> [id |-> id, nr |-> at], more |-> More(at, size)] \in Parts
         /\ Readable => /\ wire # <<>> /\ Head(wire) = wire[1] /\ Tail(wire) \in Seq(Parts)
                        /\ wire[1].part \in Part /\ \E k \in 1..Len(wire) : ~wire[k].more
<1>0. wire \in Seq(Parts)
  BY DEF TypeInv, TypeOK, Parts
<1>1. ASSUME Sending
      PROVE  /\ id \in 1..MaxMessages /\ size \in Sizes /\ size \in Nat /\ at \in 1..size
             /\ Whole(id, size) \in Messages
             /\ [part |-> [id |-> id, nr |-> at], more |-> More(at, size)] \in Parts
  <2>1. id \in 1..MaxMessages /\ size \in Sizes /\ at \in Nat \ {0} /\ at <= size
    BY <1>1 DEF Sending, TypeInv, TypeOK
  <2>2. size \in Nat /\ Whole(id, size) \in Messages
    BY <2>1, WholeLen
  <2>3. at \in 1..size /\ More(at, size) \in BOOLEAN
    BY <2>1, <2>2 DEF More
  <2>4. QED BY <2>1, <2>2, <2>3 DEF Parts, Part
<1>2. ASSUME Readable
      PROVE  /\ wire # <<>> /\ Head(wire) = wire[1] /\ Tail(wire) \in Seq(Parts)
             /\ wire[1].part \in Part /\ \E k \in 1..Len(wire) : ~wire[k].more
  <2>1. Len(wire) \in Nat /\ DOMAIN wire = 1..Len(wire)
    BY <1>0, LenProperties
  <2>2. PICK k \in 1..Len(wire) : ~wire[k].more
    BY <1>2, <2>1 DEF Readable
  <2>3. wire # <<>> /\ 1 \in 1..Len(wire)
    BY <2>1, <2>2
  <2>4. wire[1] \in Parts /\ Tail(wire) \in Seq(Parts) /\ Head(wire) = wire[1]
    BY <1>0, <2>3, ElementOfSeq, HeadTailProperties
  <2>5. QED BY <2>2, <2>3, <2>4 DEF Parts
<1>3. QED BY <1>1, <1>2

(* A step that moves no part: it may end or begin a call, before the first part *)
Began == IF Sending THEN at - 1 ELSE 0

Quiet ==
  /\ UNCHANGED <<wire, accepted, got, skipped, terminated>>
  /\ InHand' = InHand /\ Began' = Began /\ (Began = 0 \/ id' = id)

(* ... or the context is terminated. *)
Over == terminated' /\ UNCHANGED <<wire, accepted, got, skipped>>

LEMMA StepKinds ==
  ASSUME [Next]_vars
  PROVE  SendsPart \/ ReceivesPart \/ SendInterrupted \/ Quiet \/ Over
<1> USE DEF sendVars, receiveVars
<1>1. ASSUME NEW n \in Sizes, NEW dont \in BOOLEAN, SendCall(n, dont) PROVE Quiet
  BY <1>1 DEF SendCall, Quiet, Began, InHand, Sending
<1>2. ASSUME NEW n \in Sizes, StringsCall(n) PROVE Quiet
  BY <1>2 DEF StringsCall, Quiet, Began, InHand, Sending
<1>3. ASSUME NEW dont \in BOOLEAN, SendAgain(dont) PROVE Quiet
  BY <1>3 DEF SendAgain, Quiet, Began, InHand, Sending
<1>4. CASE GiveUp
  BY <1>4 DEF GiveUp, Quiet, Began, InHand, Sending
<1>5. CASE ReceiveBegins
  BY <1>5 DEF ReceiveBegins, ReceiveCall, ReceiveStringsCall, Quiet, Began, InHand, Sending
<1>6. CASE SendPart \/ SendString
  BY <1>6 DEF SendPart, SendString, SendsPart, Sending
<1>7. CASE SendRefused \/ SendStringRefused
  BY <1>7 DEF SendRefused, SendStringRefused, Quiet, Began, InHand, Sending
<1>8. CASE ReceivePart \/ ReceiveString
  BY <1>8 DEF ReceivePart, ReceiveString, ReceivesPart
<1>9. CASE ReceiveEmpty \/ ReceiveInterrupted \/ ReceiveStringEmpty
  BY <1>9 DEF ReceiveEmpty, ReceiveInterrupted, ReceiveStringEmpty, Quiet, Began, InHand, Sending
<1>10. CASE SendThrows \/ SendStringThrows \/ ReceiveThrows \/ ReceiveStringThrows \/ Terminate
  BY <1>10 DEF SendThrows, SendStringThrows, ReceiveThrows, ReceiveStringThrows, Terminate, Over
<1>11. CASE UNCHANGED vars
  BY <1>11 DEF vars, Quiet, Began, InHand, Sending
<1>12. QED
  BY <1>1, <1>2, <1>3, <1>4, <1>5, <1>6, <1>7, <1>8, <1>9, <1>10, <1>11
     DEF Next, SendStep, ReceiveStep

-----------------------------------------------------------------------------
LEMMA Appended ==
  ASSUME NEW S, NEW q \in Seq(S), NEW e \in S, NEW r, r = q \/ r = Append(q, e)
  PROVE  r \in Seq(S)
<1>1. Append(q, e) \in Seq(S)
  BY AppendProperties
<1>2. QED BY <1>1

LEMMA PartTypesKept ==
  ASSUME TypeInv, SendsPart \/ ReceivesPart
  PROVE  TypeInv'
<1> USE DEF sendVars, receiveVars
<1>1. CASE SendsPart
  <2>1. /\ id \in 1..MaxMessages /\ size \in Sizes /\ size \in Nat /\ at \in 1..size
        /\ Whole(id, size) \in Messages /\ wire' \in Seq(Parts)
    <3>1. Sending /\ wire \in Seq(Parts)
      BY <1>1 DEF SendsPart, TypeInv, TypeOK, Parts
    <3>2. QED BY <1>1, <3>1, PartTypes, AppendProperties DEF SendsPart
  <2>2. accepted' \in Seq(Messages)
    <3>1. accepted \in Seq(Messages)
          /\ (accepted' = accepted \/ accepted' = Append(accepted, Whole(id, size)))
      BY <1>1 DEF SendsPart, Advance, TypeInv, TypeOK
    <3>2. QED BY <2>1, <3>1, Appended, Zenon
  <2>3. at' \in Nat \ {0} /\ (sender' \in {"sending", "strings"} => at' <= size)
        /\ sender' \in {"idle", "sending", "strings"}
    BY <1>1, <2>1 DEF SendsPart, Advance, Sending
  <2>4. UNCHANGED <<id, size, dontWait, receiver, dontBlock, message, terminated, skipped, got>>
    BY <1>1 DEF SendsPart
  <2>5. QED BY <2>1, <2>2, <2>3, <2>4 DEF TypeInv, TypeOK, Parts
<1>2. CASE ReceivesPart
  <2>1. wire' \in Seq(Parts) /\ message' \in Seq(Part)
    <3>1. Readable /\ message \in Seq(Part)
      BY <1>2 DEF ReceivesPart, TypeInv, TypeOK
    <3>2. QED BY <1>2, <3>1, PartTypes, AppendProperties DEF ReceivesPart
  <2>2. got' \in Seq(Seq(Part)) /\ receiver' \in {"idle", "receiving", "strings"}
    <3>1. got \in Seq(Seq(Part)) /\ (got' = got \/ got' = Append(got, message'))
          /\ receiver' \in {"idle", "receiving", "strings"}
      BY <1>2 DEF ReceivesPart, TypeInv, TypeOK
    <3>2. QED BY <2>1, <3>1, Appended, Zenon
  <2>3. UNCHANGED <<sender, id, size, at, dontWait, dontBlock, terminated, skipped, accepted>>
    BY <1>2 DEF ReceivesPart
  <2>4. QED BY <2>1, <2>2, <2>3 DEF TypeInv, TypeOK, Parts
<1>3. QED BY <1>1, <1>2

LEMMA TypesKept ==
  ASSUME TypeInv, [Next]_vars
  PROVE  TypeInv'
<1> USE MultipartAssumption DEF MultipartAssumption, sendVars, receiveVars, TypeInv, TypeOK
<1>1. ASSUME NEW n \in Sizes, NEW dont \in BOOLEAN, SendCall(n, dont) PROVE TypeInv'
  BY <1>1 DEF SendCall
<1>2. ASSUME NEW n \in Sizes, StringsCall(n) PROVE TypeInv'
  BY <1>2 DEF StringsCall
<1>3. ASSUME NEW dont \in BOOLEAN, SendAgain(dont) PROVE TypeInv'
  BY <1>3 DEF SendAgain
<1>4. CASE GiveUp
  BY <1>4 DEF GiveUp
<1>5. CASE ReceiveBegins
  <2>1. /\ receiver' \in {"receiving", "strings"} /\ message' = <<>> /\ dontBlock' \in BOOLEAN
        /\ UNCHANGED <<sendVars, wire, terminated, skipped, accepted, got>>
    BY <1>5 DEF ReceiveBegins, ReceiveCall, ReceiveStringsCall
  <2>2. message' \in Seq(Part)
    BY <2>1, EmptySeq
  <2>3. QED BY <2>1, <2>2
<1>6. CASE SendPart \/ SendString \/ ReceivePart \/ ReceiveString
  <2>1. SendsPart \/ ReceivesPart
    BY <1>6 DEF SendPart, SendString, SendsPart, Sending, ReceivePart, ReceiveString, ReceivesPart
  <2>2. QED BY <2>1, PartTypesKept
<1>7. CASE SendRefused \/ SendStringRefused \/ SendThrows \/ SendStringThrows
  BY <1>7 DEF SendRefused, SendStringRefused, SendThrows, SendStringThrows
<1>8. CASE SendInterrupted
  <2>1. /\ id \in 1..MaxMessages /\ size \in Sizes /\ size \in Nat /\ at \in 1..size
        /\ Whole(id, size) \in Messages
    BY <1>8, PartTypes DEF SendInterrupted, Sending
  <2>2. accepted' \in Seq(Messages)
    <3>1. accepted \in Seq(Messages)
          /\ (accepted' = accepted \/ accepted' = Append(accepted, Whole(id, size)))
      BY <1>8 DEF SendInterrupted, Advance
    <3>2. QED BY <2>1, <3>1, Appended, Zenon
  <2>3. at' \in Nat \ {0} /\ (sender' \in {"sending", "strings"} => at' <= size)
        /\ sender' \in {"idle", "sending", "strings"}
    BY <1>8, <2>1 DEF SendInterrupted, Advance
  <2>4. QED BY <1>8, <2>1, <2>2, <2>3 DEF SendInterrupted
<1>9. CASE ReceiveEmpty \/ ReceiveInterrupted \/ ReceiveThrows \/ ReceiveStringEmpty \/ ReceiveStringThrows
  BY <1>9 DEF ReceiveEmpty, ReceiveInterrupted, ReceiveThrows, ReceiveStringEmpty, ReceiveStringThrows
<1>10. CASE Terminate
  BY <1>10 DEF Terminate
<1>11. CASE UNCHANGED vars
  BY <1>11 DEF vars
<1>12. QED
  BY <1>1, <1>2, <1>3, <1>4, <1>5, <1>6, <1>7, <1>8, <1>9, <1>10, <1>11
     DEF Next, SendStep, ReceiveStep

LEMMA TypesInit == Init => TypeInv
<1> SUFFICES ASSUME Init PROVE TypeInv
  OBVIOUS
<1>1. <<>> \in Seq(Parts) /\ <<>> \in Seq(Part) /\ <<>> \in Seq(Messages) /\ <<>> \in Seq(Seq(Part))
  BY EmptySeq
<1>2. id \in 0..MaxMessages
  BY MultipartAssumption DEF Init, MultipartAssumption
<1>3. /\ wire \in Seq([part : Part, more : BOOLEAN]) /\ message \in Seq(Part)
      /\ accepted \in Seq(Messages) /\ got \in Seq(Seq(Part))
  BY <1>1, Zenon DEF Init, Parts
<1>4. /\ sender \in {"idle", "refused", "sending", "strings"} /\ sender = "idle"
      /\ size \in Sizes \cup {0} /\ at \in Nat \ {0} /\ ~(sender \in {"sending", "strings"})
      /\ receiver \in {"idle", "receiving", "strings"}
      /\ {dontWait, dontBlock, terminated, skipped} \subseteq BOOLEAN
  <2>1. /\ sender = "idle" /\ size = 0 /\ at = 1 /\ receiver = "idle"
        /\ dontWait = FALSE /\ dontBlock = FALSE /\ terminated = FALSE /\ skipped = FALSE
    BY Zenon DEF Init
  <2>2. dontWait \in BOOLEAN /\ dontBlock \in BOOLEAN /\ terminated \in BOOLEAN /\ skipped \in BOOLEAN
    BY <2>1, Zenon
  <2>3. {dontWait, dontBlock, terminated, skipped} \subseteq BOOLEAN
    BY <2>2, Zenon
  <2>4. size \in Sizes \cup {0} /\ at \in Nat \ {0}
    BY <2>1
  <2>5. /\ sender \in {"idle", "refused", "sending", "strings"} 
        /\ ~(sender \in {"sending", "strings"}) /\ receiver \in {"idle", "receiving", "strings"}
    BY <2>1
  <2>6. QED BY <2>1, <2>3, <2>4, <2>5, Zenon
<1>5. QED BY <1>2, <1>3, <1>4, Zenon DEF TypeInv, TypeOK

(* send and receive keep to the kinds of values that they are written for
   (socket.cpp:148-355). *)
THEOREM TypeCorrect == Spec => []TypeOK
<1>1. TypeInv => TypeOK
  BY DEF TypeInv
<1>2. QED BY <1>1, TypesInit, TypesKept, PTL DEF Spec

-----------------------------------------------------------------------------
(* Until a signal skips a part or the context is terminated, what libzmq and
   receive hold are the accepted messages that are not received yet. *)
OrderInv ==
  skipped \/ terminated \/ \E f : Flows(f, accepted, Len(got), InHand, wire, Began, id)

LEMMA OrderInit == Init => OrderInv
<1> DEFINE f == [j \in Nat |-> j - 1]
<1> SUFFICES ASSUME Init PROVE OrderInv
  OBVIOUS
<1>1. accepted = <<>> /\ got = <<>> /\ wire = <<>> /\ receiver = "idle" /\ sender = "idle"
  BY DEF Init
<1>2. Len(got) = 0 /\ InHand = <<>> /\ Began = 0
  BY <1>1 DEF InHand, Began, Sending
<1>3. Starts(f, <<>>, 0, <<>>, <<>>, 0)
  BY DEF Starts
<1>4. Accepted(f, <<>>, 0, <<>>) /\ Begun(f, <<>>, <<>>, 0, id) /\ Taken(<<>>, 0, <<>>)
  BY DEF Accepted, Begun, Taken
<1>5. QED BY <1>1, <1>2, <1>3, <1>4 DEF OrderInv, Flows

LEMMA SendKeepsOrder ==
  ASSUME TypeInv, OrderInv, SendsPart
  PROVE  OrderInv'
<1>1. CASE skipped
  BY <1>1 DEF SendsPart, OrderInv
<1>2. CASE ~skipped
  <2>1. /\ id \in 1..MaxMessages /\ size \in Sizes /\ size \in Nat /\ at \in 1..size
        /\ accepted \in Seq(Messages) /\ wire \in Seq(Parts) /\ Len(got) \in Nat
    BY PartTypes, LenProperties DEF SendsPart, TypeInv, TypeOK, Parts
  <2>2. Sending /\ Began = at - 1
    BY DEF SendsPart, Began
  <2>3. PICK f : Flows(f, accepted, Len(got), InHand, wire, at - 1, id)
    BY <1>2, <2>2 DEF OrderInv, SendsPart
  <2>4. wire' = Append(wire, [part |-> [id |-> id, nr |-> at], more |-> at < size])
    BY DEF SendsPart, More
  <2>5. /\ at # size => Flows(f, accepted, Len(got), InHand, wire', at, id)
        /\ at = size => \E g : Flows(g, Append(accepted, Whole(id, size)), Len(got), InHand, wire', 0, id)
    BY <2>1, <2>3, <2>4, SendFlows, ZenonT(60)
  <2>6. got' = got /\ InHand' = InHand /\ id' = id
    BY DEF SendsPart, InHand, receiveVars
  <2>7. CASE at # size
    <3>1. accepted' = accepted /\ Began' = at
      BY <2>1, <2>2, <2>7 DEF SendsPart, Advance, Began, Sending
    <3>2. QED BY <2>5, <2>6, <2>7, <3>1 DEF OrderInv
  <2>8. CASE at = size
    <3>1. accepted' = Append(accepted, Whole(id, size)) /\ Began' = 0
      BY <2>8 DEF SendsPart, Advance, Began, Sending
    <3>2. QED BY <2>5, <2>6, <2>8, <3>1 DEF OrderInv
  <2>9. QED BY <2>7, <2>8
<1>3. QED BY <1>1, <1>2

(* What receive takes, and what it returns true for *)
LEMMA TakeIsNext ==
  ASSUME TypeInv, OrderInv, ReceivesPart, ~skipped
  PROVE  /\ OrderInv'
         /\ ~wire[1].more => /\ Len(got) < Len(accepted)
                             /\ got' = Append(got, accepted[Len(got) + 1])
         /\ wire[1].more => got' = got
<1>1. /\ accepted \in Seq(Messages) /\ wire \in Seq(Parts) /\ message \in Seq(Part)
      /\ got \in Seq(Seq(Part)) /\ Len(got) \in Nat
  BY LenProperties DEF TypeInv, TypeOK, Parts
<1>2. /\ Head(wire) = wire[1] /\ wire[1].part \in Part
      /\ \E k \in 1..Len(wire) : ~wire[k].more
  BY PartTypes DEF ReceivesPart
<1>3. InHand = message /\ receiver # "idle"
  BY DEF ReceivesPart, InHand
<1>4. Began \in Nat
  <2>1. CASE Sending
    <3>1. at \in 1..size /\ size \in Nat BY <2>1, PartTypes
    <3>2. QED BY <2>1, <3>1 DEF Began
  <2>2. CASE ~Sending BY <2>2 DEF Began
  <2>3. QED BY <2>1, <2>2
<1>5. PICK f : Flows(f, accepted, Len(got), message, wire, Began, id)
  BY <1>3 DEF OrderInv, ReceivesPart
<1>6. /\ wire[1].more =>
           \E g : Flows(g, accepted, Len(got), Append(message, wire[1].part), Tail(wire), Began, id)
      /\ ~wire[1].more =>
           /\ Len(got) < Len(accepted) /\ Append(message, wire[1].part) = accepted[Len(got) + 1]
           /\ \E g : Flows(g, accepted, Len(got) + 1, <<>>, Tail(wire), Began, id)
  BY <1>1, <1>2, <1>4, <1>5, TakeFlows, Zenon
<1>7. /\ wire' = Tail(wire) /\ message' = Append(message, wire[1].part)
      /\ Began' = Began /\ id' = id /\ accepted' = accepted
  BY <1>2 DEF ReceivesPart, sendVars, Began, Sending
<1>8. CASE wire[1].more
  <2>1. receiver' = receiver /\ got' = got
    BY <1>2, <1>8 DEF ReceivesPart
  <2>2. InHand' = Append(message, wire[1].part)
    BY <1>3, <1>7, <2>1 DEF InHand
  <2>3. QED BY <1>6, <1>7, <1>8, <2>1, <2>2 DEF OrderInv
<1>9. CASE ~wire[1].more
  <2>1. receiver' = "idle" /\ got' = Append(got, message')
    BY <1>2, <1>9 DEF ReceivesPart
  <2>2. InHand' = <<>>
    BY <2>1 DEF InHand
  <2>3. Len(got') = Len(got) + 1
    <3>1. message' \in Seq(Part)
      BY <1>1, <1>2, <1>7, AppendProperties
    <3>2. QED BY <1>1, <2>1, <3>1, AppendProperties
  <2>4. OrderInv'
    BY <1>6, <1>7, <1>9, <2>2, <2>3 DEF OrderInv
  <2>5. QED BY <1>6, <1>7, <1>9, <2>1, <2>4
<1>10. QED BY <1>8, <1>9

LEMMA OrderKept ==
  ASSUME TypeInv, OrderInv, [Next]_vars
  PROVE  OrderInv'
<1>1. CASE SendsPart
  BY <1>1, SendKeepsOrder
<1>2. CASE ReceivesPart
  <2>1. CASE skipped BY <1>2, <2>1 DEF ReceivesPart, OrderInv
  <2>2. CASE ~skipped BY <1>2, <2>2, TakeIsNext
  <2>3. QED BY <2>1, <2>2
<1>3. CASE SendInterrupted
  BY <1>3 DEF SendInterrupted, OrderInv
<1>4. CASE Over
  BY <1>4 DEF Over, OrderInv
<1>5. CASE Quiet /\ ~terminated'
  <2>1. CASE skipped
    BY <1>5, <2>1 DEF Quiet, OrderInv
  <2>2. CASE ~skipped /\ ~terminated
    <3>1. PICK f : Flows(f, accepted, Len(got), InHand, wire, Began, id)
      BY <2>2 DEF OrderInv
    <3>2. Flows(f, accepted, Len(got), InHand, wire, Began, id')
      <4>1. CASE Began = 0
        BY <3>1, <4>1, NothingBegun
      <4>2. CASE id' = id
        BY <3>1, <4>2
      <4>3. QED BY <1>5, <4>1, <4>2 DEF Quiet
    <3>3. QED BY <1>5, <3>2 DEF Quiet, OrderInv
  <2>3. CASE terminated
    <3>1. FALSE
      BY <1>5, <2>3 DEF Quiet
    <3>2. QED BY <3>1
  <2>4. QED BY <2>1, <2>2, <2>3
<1>6. CASE Quiet /\ terminated'
  BY <1>6 DEF OrderInv
<1>7. QED BY <1>1, <1>2, <1>3, <1>4, <1>5, <1>6, StepKinds

LEMMA StepIsOfFifo ==
  ASSUME TypeInv, OrderInv, [Next]_vars
  PROVE  [Fifo!Next]_(Fifo!fifoVars)
<1> USE DEF Fifo!Next, Fifo!fifoVars
<1>1. CASE SendInterrupted
  BY <1>1 DEF SendInterrupted
<1>2. CASE Quiet \/ Over
  BY <1>2 DEF Quiet, Over
<1>3. CASE skipped /\ (SendsPart \/ ReceivesPart)
  <2>1. skipped = TRUE BY <1>3 DEF TypeInv, TypeOK
  <2>2. skipped' = TRUE BY <1>3, <2>1 DEF SendsPart, ReceivesPart
  <2>3. QED BY <2>2
<1>4. CASE ~skipped /\ SendsPart
  <2>1. Whole(id, size) \in Messages
    BY <1>4, PartTypes DEF SendsPart
  <2>2. got' = got /\ skipped' = skipped
        /\ (accepted' = accepted \/ accepted' = Append(accepted, Whole(id, size)))
    BY <1>4 DEF SendsPart, Advance
  <2>3. QED BY <1>4, <2>1, <2>2 DEF Fifo!Send
<1>5. CASE ~skipped /\ ReceivesPart
  <2>1. accepted' = accepted /\ skipped' = skipped
    BY <1>5 DEF ReceivesPart
  <2>2. \/ got' = got
        \/ Len(got) < Len(accepted) /\ got' = Append(got, accepted[Len(got) + 1])
    BY <1>5, TakeIsNext
  <2>3. QED BY <1>5, <2>1, <2>2 DEF Fifo!Receive
<1>6. QED BY <1>1, <1>2, <1>3, <1>4, <1>5, StepKinds

(* The two loops, whatever they are refused, whenever they are interrupted and
   however the client mixes whole messages with parts, are a queue of whole
   messages as long as no signal interrupts the send of a later part
   (socket.cpp:148-355). *)
THEOREM SendAndReceiveAreFifo == Spec => ImplementsFifo
<1>1. Init => TypeInv /\ OrderInv
  BY TypesInit, OrderInit
<1>2. TypeInv /\ OrderInv /\ [Next]_vars => (TypeInv /\ OrderInv)'
  BY TypesKept, OrderKept
<1>3. Init => Fifo!Init
  BY DEF Init, Fifo!Init
<1>4. TypeInv /\ OrderInv /\ [Next]_vars => [Fifo!Next]_(Fifo!fifoVars)
  BY StepIsOfFifo
<1>5. QED BY <1>1, <1>2, <1>3, <1>4, PTL DEF Spec, ImplementsFifo, Fifo!Spec

-----------------------------------------------------------------------------
(* Nothing is sent twice, whatever is interrupted or terminated.  Ascends and
   AllBefore cut the order of all the parts into the order within a batch and
   that between two. *)
Ascends(s) == \A k, l \in DOMAIN s : k < l => Before(s[k], s[l])

AllBefore(s, t) == \A k \in DOMAIN s : \A l \in DOMAIN t : Before(s[k], t[l])

InOrder(g, h, w) ==
  /\ \A i \in DOMAIN g : Ascends(g[i]) /\ AllBefore(g[i], h) /\ AllBefore(g[i], w)
  /\ \A i, j \in DOMAIN g : i < j => AllBefore(g[i], g[j])
  /\ Ascends(h) /\ Ascends(w) /\ AllBefore(h, w)

(* Appending to a sequence, and taking its first element *)
LEMMA AppendedDomain ==
  ASSUME NEW S, NEW s \in Seq(S), NEW e \in S
  PROVE  /\ Append(s, e) \in Seq(S)
         /\ \A k \in DOMAIN Append(s, e) : k \in DOMAIN s \/ k = Len(s) + 1
         /\ \A k \in DOMAIN s : Append(s, e)[k] = s[k] /\ k < Len(s) + 1
         /\ Append(s, e)[Len(s) + 1] = e
<1>1. /\ Len(s) \in Nat /\ DOMAIN s = 1..Len(s) /\ Append(s, e) \in Seq(S)
      /\ Len(Append(s, e)) = Len(s) + 1 /\ Append(s, e)[Len(s) + 1] = e
      /\ \A k \in 1..Len(s) : Append(s, e)[k] = s[k]
  BY AppendProperties, LenProperties
<1>2. DOMAIN Append(s, e) = 1..(Len(s) + 1)
  BY <1>1, LenProperties
<1>3. QED BY <1>1, <1>2

LEMMA TailDomain ==
  ASSUME NEW S, NEW s \in Seq(S), s # <<>>
  PROVE  /\ Tail(s) \in Seq(S) /\ 1 \in DOMAIN s
         /\ \A k \in DOMAIN Tail(s) : k + 1 \in DOMAIN s /\ 1 < k + 1 /\ Tail(s)[k] = s[k + 1]
         /\ \A k, l \in DOMAIN Tail(s) : k < l => k + 1 < l + 1
<1>1. /\ Len(s) \in Nat /\ DOMAIN s = 1..Len(s) /\ Tail(s) \in Seq(S)
      /\ Len(Tail(s)) = Len(s) - 1
      /\ \A k \in 1..Len(Tail(s)) : Tail(s)[k] = s[k + 1]
  BY HeadTailProperties, LenProperties
<1>2. DOMAIN Tail(s) = 1..(Len(s) - 1) /\ Len(s) # 0
  BY <1>1, LenProperties, EmptySeq
<1>3. QED BY <1>1, <1>2

(* A part is sent: it is behind all the others. *)
LEMMA SentInOrder ==
  ASSUME NEW g, NEW h, NEW w \in Seq(Part), InOrder(g, h, w), NEW q \in Part,
         \A i \in DOMAIN g : \A k \in DOMAIN g[i] : Before(g[i][k], q),
         \A k \in DOMAIN h : Before(h[k], q), \A k \in DOMAIN w : Before(w[k], q)
  PROVE  InOrder(g, h, Append(w, q))
<1> DEFINE v == Append(w, q)
           n == Len(w) + 1
<1>1. /\ \A k \in DOMAIN v : k \in DOMAIN w \/ k = n
      /\ \A k \in DOMAIN w : v[k] = w[k] /\ k < n /\ ~(n < k)
      /\ v[n] = q /\ ~(n < n)
  <2>1. /\ \A k \in DOMAIN v : k \in DOMAIN w \/ k = n
        /\ \A k \in DOMAIN w : v[k] = w[k] /\ k < n
        /\ v[n] = q
    BY AppendedDomain
  <2>2. DOMAIN w = 1..Len(w) /\ Len(w) \in Nat
    BY LenProperties
  <2>3. QED BY <2>1, <2>2
<1> HIDE DEF v, n
<1>2. \A s : AllBefore(s, w) /\ (\A k \in DOMAIN s : Before(s[k], q)) => AllBefore(s, v)
  BY <1>1 DEF AllBefore
<1>3. Ascends(v)
  BY <1>1 DEF Ascends, InOrder
<1>4. QED BY <1>2, <1>3 DEF InOrder, v

(* A part is taken: it goes from the front of the wire to the end of the message. *)
LEMMA TakenInOrder ==
  ASSUME NEW g, NEW h \in Seq(Part), NEW w \in Seq(Part), w # <<>>, InOrder(g, h, w)
  PROVE  InOrder(g, Append(h, w[1]), Tail(w))
<1> DEFINE u == Append(h, w[1])
           v == Tail(w)
           n == Len(h) + 1
<1>1. /\ 1 \in DOMAIN w
      /\ \A k \in DOMAIN v : k + 1 \in DOMAIN w /\ 1 < k + 1 /\ v[k] = w[k + 1]
      /\ \A k, l \in DOMAIN v : k < l => k + 1 < l + 1
  BY TailDomain
<1>2. w[1] \in Part
  BY <1>1, LenProperties, ElementOfSeq
<1>3. /\ \A k \in DOMAIN u : k \in DOMAIN h \/ k = n
      /\ \A k \in DOMAIN h : u[k] = h[k] /\ k < n /\ ~(n < k)
      /\ u[n] = w[1] /\ ~(n < n)
  <2>1. /\ \A k \in DOMAIN u : k \in DOMAIN h \/ k = n
        /\ \A k \in DOMAIN h : u[k] = h[k] /\ k < n
        /\ u[n] = w[1]
    BY <1>2, AppendedDomain
  <2>2. DOMAIN h = 1..Len(h) /\ Len(h) \in Nat
    BY LenProperties
  <2>3. QED BY <2>1, <2>2
<1> HIDE DEF u, v, n
<1>4. \A s : AllBefore(s, w) => AllBefore(s, v) /\ \A k \in DOMAIN s : Before(s[k], w[1])
  BY <1>1 DEF AllBefore
<1>5. \A s : AllBefore(s, h) /\ (\A k \in DOMAIN s : Before(s[k], w[1])) => AllBefore(s, u)
  BY <1>3 DEF AllBefore
<1>6. Ascends(u)
  BY <1>1, <1>3 DEF Ascends, AllBefore, InOrder
<1>7. Ascends(v)
  BY <1>1 DEF Ascends, InOrder
<1>8. AllBefore(u, v)
  <2>1. AllBefore(h, v)
    BY <1>4 DEF InOrder
  <2>2. \A l \in DOMAIN v : Before(w[1], v[l])
    BY <1>1 DEF Ascends, InOrder
  <2>3. QED BY <1>3, <2>1, <2>2 DEF AllBefore
<1>9. QED BY <1>4, <1>5, <1>6, <1>7, <1>8 DEF InOrder, u, v

(* A message is complete. *)
LEMMA GotInOrder ==
  ASSUME NEW g \in Seq(Seq(Part)), NEW h \in Seq(Part), NEW w, InOrder(g, h, w)
  PROVE  InOrder(Append(g, h), <<>>, w)
<1> DEFINE b == Append(g, h)
           n == Len(g) + 1
<1>1. /\ \A i \in DOMAIN b : i \in DOMAIN g \/ i = n
      /\ \A i \in DOMAIN g : b[i] = g[i] /\ i < n /\ ~(n < i)
      /\ b[n] = h /\ ~(n < n)
  <2>1. /\ \A i \in DOMAIN b : i \in DOMAIN g \/ i = n
        /\ \A i \in DOMAIN g : b[i] = g[i] /\ i < n
        /\ b[n] = h
    BY AppendedDomain
  <2>2. DOMAIN g = 1..Len(g) /\ Len(g) \in Nat
    BY LenProperties
  <2>3. QED BY <2>1, <2>2
<1>2. DOMAIN <<>> = {}
  BY EmptySeq, LenProperties
<1> HIDE DEF b, n
<1>3. /\ \A s : AllBefore(s, <<>>) /\ AllBefore(<<>>, s)
      /\ Ascends(<<>>)
  BY <1>2 DEF AllBefore, Ascends
<1>4. \A i \in DOMAIN b : Ascends(b[i]) /\ AllBefore(b[i], w)
  BY <1>1 DEF InOrder
<1>5. \A i, j \in DOMAIN b : i < j => AllBefore(b[i], b[j])
  BY <1>1 DEF InOrder
<1>6. QED BY <1>3, <1>4, <1>5 DEF InOrder, b

LEMMA DroppedInOrder ==
  ASSUME NEW g, NEW h, NEW w, InOrder(g, h, w)
  PROVE  InOrder(g, <<>>, w)
<1>1. DOMAIN <<>> = {}
  BY EmptySeq, LenProperties
<1>2. /\ \A s : AllBefore(s, <<>>) /\ AllBefore(<<>>, s)
      /\ Ascends(<<>>)
  BY <1>1 DEF AllBefore, Ascends
<1>3. QED BY <1>2 DEF InOrder

PartsOf(w) == [k \in DOMAIN w |-> w[k].part]

LEMMA PartsOnWire ==
  ASSUME NEW w \in Seq(Parts)
  PROVE  /\ PartsOf(w) \in Seq(Part)
         /\ \A x \in Parts : PartsOf(Append(w, x)) = Append(PartsOf(w), x.part)
         /\ w # <<>> => /\ PartsOf(w) # <<>> /\ PartsOf(w)[1] = w[1].part
                        /\ PartsOf(Tail(w)) = Tail(PartsOf(w))
<1> DEFINE n == Len(w)
           s == PartsOf(w)
<1>1. n \in Nat /\ DOMAIN w = 1..n /\ \A k \in 1..n : w[k] \in Parts
  BY LenProperties, ElementOfSeq
<1>2. DOMAIN s = 1..n /\ \A k \in 1..n : s[k] = w[k].part /\ s[k] \in Part
  BY <1>1 DEF PartsOf, Parts
<1>3. s = [k \in 1..n |-> s[k]]
  BY <1>1 DEF PartsOf
<1> HIDE DEF s
<1>4. s \in Seq(Part) /\ Len(s) = n
  BY <1>1, <1>2, <1>3
<1>5. ASSUME NEW x \in Parts
      PROVE  PartsOf(Append(w, x)) = Append(s, x.part)
  <2> DEFINE v == Append(w, x)
             r == Append(s, x.part)
  <2>1. /\ v \in Seq(Parts) /\ Len(v) = n + 1 /\ v[n + 1] = x
        /\ \A k \in 1..n : v[k] = w[k]
    BY AppendProperties
  <2>2. x.part \in Part
    BY DEF Parts
  <2>3. /\ r \in Seq(Part) /\ Len(r) = n + 1 /\ r[n + 1] = x.part
        /\ \A k \in 1..n : r[k] = s[k]
    BY <1>4, <2>2, AppendProperties
  <2>4. DOMAIN v = 1..(n + 1) /\ DOMAIN r = 1..(n + 1) /\ r = [k \in DOMAIN r |-> r[k]]
    BY <2>1, <2>3, LenProperties
  <2> HIDE DEF v, r, n
  <2>5. \A k \in 1..(n + 1) : k \in 1..n \/ k = n + 1
    BY <1>1
  <2>6. \A k \in 1..(n + 1) : v[k].part = r[k]
    BY <1>2, <2>1, <2>3, <2>5
  <2>7. PartsOf(v) = r
    BY <2>4, <2>6 DEF PartsOf
  <2>8. QED BY <2>7 DEF v, r
<1>6. ASSUME w # <<>>
      PROVE  /\ s # <<>> /\ s[1] = w[1].part
             /\ PartsOf(Tail(w)) = Tail(s)
  <2> DEFINE v == Tail(w)
             r == Tail(s)
  <2>1. n # 0
    BY <1>6, EmptySeq
  <2>2. s # <<>>
    BY <1>4, <2>1, EmptySeq
  <2>3. /\ v \in Seq(Parts) /\ Len(v) = n - 1
        /\ \A k \in 1..Len(v) : v[k] = w[k + 1]
    BY <1>6, HeadTailProperties
  <2>4. /\ r \in Seq(Part) /\ Len(r) = n - 1
        /\ \A k \in 1..Len(r) : r[k] = s[k + 1]
    BY <1>4, <2>2, HeadTailProperties
  <2>5. DOMAIN v = 1..(n - 1) /\ DOMAIN r = 1..(n - 1) /\ r = [k \in DOMAIN r |-> r[k]]
    BY <2>3, <2>4, LenProperties
  <2> HIDE DEF v, r, n
  <2>6. 1 \in 1..n /\ \A k \in 1..(n - 1) : k + 1 \in 1..n
    BY <1>1, <2>1
  <2>7. \A k \in 1..(n - 1) : v[k].part = r[k]
    BY <1>2, <2>3, <2>4, <2>6
  <2>8. PartsOf(v) = r
    BY <2>5, <2>7 DEF PartsOf
  <2>9. QED BY <1>2, <2>2, <2>6, <2>8 DEF v, r
<1>7. QED BY <1>4, <1>5, <1>6 DEF s

(* p is one of the parts. *)
IsSent(p, g, h, w) ==
  \/ \E i \in DOMAIN g : \E k \in DOMAIN g[i] : p = g[i][k]
  \/ \E k \in DOMAIN h : p = h[k]
  \/ \E k \in DOMAIN w : p = w[k]

(* The parts sent so far are in front of the one that a sender in this state
   would send next. *)
IsOld(p, state, i, a) ==
  \/ p.id < i
  \/ p.id = i /\ (state \in {"sending", "strings"} => p.nr < a) /\ state # "refused"

SentInv ==
  /\ \A p : IsSent(p, got, InHand, PartsOf(wire)) => p \in Part /\ IsOld(p, sender, id, at)
  /\ sender = "refused" => at = 1
  /\ InOrder(got, InHand, PartsOf(wire))

LEMMA StaysOld ==
  ASSUME TypeInv, sender = "refused" => at = 1, [Next]_vars,
         NEW p \in Part, IsOld(p, sender, id, at)
  PROVE  IsOld(p, sender', id', at')
<1> USE DEF sendVars, receiveVars, IsOld
<1>0. id \in Nat /\ at \in Nat \ {0} /\ p.id \in Nat /\ p.nr \in Nat \ {0}
      /\ (p.id < id \/ p.id = id)
  BY DEF TypeInv, TypeOK, Part
<1>1. ASSUME sender' = sender \/ sender' = "idle", id' = id, at' = at
      PROVE  IsOld(p, sender', id', at')
  BY <1>1
<1>2. ASSUME NEW n \in Sizes, \/ \E dont \in BOOLEAN : SendCall(n, dont)
                              \/ StringsCall(n)
      PROVE  IsOld(p, sender', id', at')
  <2>1. id' = id + 1
    BY <1>2 DEF SendCall, StringsCall
  <2>2. p.id < id + 1
    BY <1>0
  <2>3. QED BY <2>1, <2>2
<1>3. ASSUME NEW dont \in BOOLEAN, SendAgain(dont)
      PROVE  IsOld(p, sender', id', at')
  <2>1. p.id < id /\ id' = id
    BY <1>3 DEF SendAgain
  <2>2. QED BY <2>1
<1>4. CASE SendRefused
  <2>1. at = 1 /\ sender = "sending" /\ id' = id
    BY <1>4 DEF SendRefused
  <2>2. ~(p.nr < 1)
    BY <1>0
  <2>3. p.id < id
    BY <2>1, <2>2
  <2>4. QED BY <2>1, <2>3
<1>5. CASE SendPart \/ SendString \/ SendInterrupted
  <2>1. /\ id' = id /\ Advance /\ sender \in {"sending", "strings"}
    BY <1>5 DEF SendPart, SendString, SendInterrupted
  <2>2. CASE at = size
    BY <1>0, <2>1, <2>2 DEF Advance
  <2>3. CASE at # size
    <3>1. sender' = sender /\ at' = at + 1
      BY <2>1, <2>3 DEF Advance
    <3>2. p.nr < at => p.nr < at + 1
      BY <1>0
    <3>3. QED BY <2>1, <3>1, <3>2
  <2>4. QED BY <2>2, <2>3
<1>6. CASE GiveUp \/ SendThrows \/ SendStringRefused \/ SendStringThrows
  BY <1>1, <1>6 DEF GiveUp, SendThrows, SendStringRefused, SendStringThrows
<1>7. CASE ReceiveStep \/ ReceiveBegins \/ Terminate \/ UNCHANGED vars
  <2>1. sender' = sender /\ id' = id /\ at' = at
    BY <1>7 DEF ReceiveStep, ReceivePart, ReceiveEmpty, ReceiveInterrupted, ReceiveThrows,
                ReceiveString, ReceiveStringEmpty, ReceiveStringThrows, ReceiveBegins,
                ReceiveStringsCall, ReceiveCall, Terminate, vars
  <2>2. QED BY <1>1, <2>1
<1>8. QED
  BY <1>2, <1>3, <1>4, <1>5, <1>6, <1>7 DEF Next, SendStep

LEMMA RefusedAtFirst ==
  ASSUME sender = "refused" => at = 1, [Next]_vars
  PROVE  sender' = "refused" => at' = 1
<1> USE DEF sendVars, receiveVars
<1>1. CASE SendStep
  BY <1>1 DEF SendStep, SendPart, SendString, SendInterrupted, Advance, SendRefused, SendThrows,
              SendStringRefused, SendStringThrows
<1>2. CASE ReceiveStep \/ ReceiveBegins \/ Terminate \/ UNCHANGED vars
  BY <1>2 DEF ReceiveStep, ReceivePart, ReceiveEmpty, ReceiveInterrupted, ReceiveThrows,
              ReceiveString, ReceiveStringEmpty, ReceiveStringThrows, ReceiveBegins,
              ReceiveStringsCall, ReceiveCall, Terminate, vars
<1>3. CASE GiveUp \/ \E dont \in BOOLEAN : SendAgain(dont)
  BY <1>3 DEF GiveUp, SendAgain
<1>4. CASE \E n \in Sizes : StringsCall(n) \/ \E dont \in BOOLEAN : SendCall(n, dont)
  BY <1>4 DEF StringsCall, SendCall
<1>5. QED
  BY <1>1, <1>2, <1>3, <1>4 DEF Next

(* What a step that neither sends nor takes a part does *)
LEMMA PartsStay ==
  ASSUME [Next]_vars
  PROVE  \/ SendsPart
         \/ ReceivesPart
         \/ wire' = wire /\ got' = got /\ InHand' \in {InHand, <<>>}
<1> DEFINE Stay == wire' = wire /\ got' = got /\ InHand' \in {InHand, <<>>}
<1> USE DEF sendVars, receiveVars
<1>1. CASE SendPart \/ SendString
  BY <1>1 DEF SendPart, SendString, SendsPart, Sending
<1>2. CASE ReceivePart \/ ReceiveString
  BY <1>2 DEF ReceivePart, ReceiveString, ReceivesPart
<1>3. CASE SendRefused \/ SendInterrupted \/ SendThrows \/ SendStringRefused \/ SendStringThrows
  BY <1>3 DEF SendRefused, SendInterrupted, SendThrows, SendStringRefused, SendStringThrows, InHand
<1>4. CASE ReceiveEmpty \/ ReceiveInterrupted \/ ReceiveThrows
  BY <1>4 DEF ReceiveEmpty, ReceiveInterrupted, ReceiveThrows, InHand
<1>5. CASE ReceiveStringEmpty \/ ReceiveStringThrows \/ ReceiveBegins
  BY <1>5 DEF ReceiveStringEmpty, ReceiveStringThrows, ReceiveBegins, ReceiveStringsCall,
              ReceiveCall, InHand
<1>6. CASE GiveUp \/ (\E dont \in BOOLEAN : SendAgain(dont)) \/ Terminate \/ UNCHANGED vars
  BY <1>6 DEF GiveUp, SendAgain, Terminate, vars, InHand
<1>7. CASE \E n \in Sizes : StringsCall(n) \/ \E dont \in BOOLEAN : SendCall(n, dont)
  BY <1>7 DEF StringsCall, SendCall, InHand
<1>8. QED
  BY <1>1, <1>2, <1>3, <1>4, <1>5, <1>6, <1>7 DEF Next, SendStep, ReceiveStep

(* No step but a send makes a part one that is sent. *)
LEMMA SentParts ==
  ASSUME NEW g \in Seq(Seq(Part)), NEW h \in Seq(Part), NEW w \in Seq(Part), NEW p
  PROVE  /\ \A q \in Part : IsSent(p, g, h, Append(w, q)) => IsSent(p, g, h, w) \/ p = q
         /\ w # <<>> => (IsSent(p, g, Append(h, w[1]), Tail(w)) => IsSent(p, g, h, w))
         /\ IsSent(p, Append(g, h), <<>>, w) => IsSent(p, g, h, w)
         /\ IsSent(p, g, <<>>, w) => IsSent(p, g, h, w)
<1>1. ASSUME NEW q \in Part, IsSent(p, g, h, Append(w, q)), p # q
      PROVE  IsSent(p, g, h, w)
  <2> DEFINE v == Append(w, q)
  <2>1. /\ \A k \in DOMAIN v : k \in DOMAIN w \/ k = Len(w) + 1
        /\ \A k \in DOMAIN w : v[k] = w[k]
        /\ v[Len(w) + 1] = q
    BY AppendedDomain
  <2>2. IsSent(p, g, h, v)
    BY <1>1
  <2> HIDE DEF v
  <2>3. QED BY <1>1, <2>1, <2>2 DEF IsSent
<1>2. ASSUME w # <<>>, IsSent(p, g, Append(h, w[1]), Tail(w))
      PROVE  IsSent(p, g, h, w)
  <2> DEFINE u == Append(h, w[1])
             v == Tail(w)
  <2>1. /\ 1 \in DOMAIN w
        /\ \A k \in DOMAIN v : k + 1 \in DOMAIN w /\ v[k] = w[k + 1]
    BY <1>2, TailDomain
  <2>2. w[1] \in Part
    BY <2>1, LenProperties, ElementOfSeq
  <2>3. /\ \A k \in DOMAIN u : k \in DOMAIN h \/ k = Len(h) + 1
        /\ \A k \in DOMAIN h : u[k] = h[k]
        /\ u[Len(h) + 1] = w[1]
    BY <2>2, AppendedDomain
  <2>4. IsSent(p, g, u, v)
    BY <1>2
  <2> HIDE DEF u, v
  <2>5. QED BY <2>1, <2>3, <2>4 DEF IsSent
<1>3. DOMAIN <<>> = {}
  BY EmptySeq, LenProperties
<1>4. ASSUME IsSent(p, Append(g, h), <<>>, w)
      PROVE  IsSent(p, g, h, w)
  <2> DEFINE b == Append(g, h)
  <2>1. /\ \A i \in DOMAIN b : i \in DOMAIN g \/ i = Len(g) + 1
        /\ \A i \in DOMAIN g : b[i] = g[i]
        /\ b[Len(g) + 1] = h
    BY AppendedDomain
  <2>2. IsSent(p, b, <<>>, w)
    BY <1>4
  <2> HIDE DEF b
  <2>3. QED BY <1>3, <2>1, <2>2 DEF IsSent
<1>5. IsSent(p, g, <<>>, w) => IsSent(p, g, h, w)
  BY <1>3 DEF IsSent
<1>6. QED BY <1>1, <1>2, <1>4, <1>5

LEMMA SentInit == Init => SentInv
<1> SUFFICES ASSUME Init PROVE SentInv
  OBVIOUS
<1>1. got = <<>> /\ InHand = <<>> /\ wire = <<>> /\ sender = "idle"
  BY DEF Init, InHand
<1>2. DOMAIN <<>> = {}
  BY EmptySeq, LenProperties
<1>3. DOMAIN got = {} /\ DOMAIN InHand = {} /\ DOMAIN PartsOf(wire) = {}
  BY <1>1, <1>2 DEF PartsOf
<1>4. InOrder(got, InHand, PartsOf(wire))
  BY <1>3 DEF InOrder, AllBefore, Ascends
<1>5. \A p : ~IsSent(p, got, InHand, PartsOf(wire))
  BY <1>3 DEF IsSent
<1>6. QED BY <1>1, <1>4, <1>5 DEF SentInv

LEMMA SentTypes ==
  ASSUME TypeInv
  PROVE  /\ got \in Seq(Seq(Part)) /\ InHand \in Seq(Part) /\ wire \in Seq(Parts)
         /\ PartsOf(wire) \in Seq(Part)
<1>1. got \in Seq(Seq(Part)) /\ message \in Seq(Part) /\ wire \in Seq(Parts)
  BY DEF TypeInv, TypeOK, Parts
<1>2. InHand \in Seq(Part)
  BY <1>1, EmptySeq DEF InHand
<1>3. QED BY <1>1, <1>2, PartsOnWire

LEMMA SendKeepsSent ==
  ASSUME TypeInv, SentInv, [Next]_vars, SendsPart
  PROVE  SentInv'
<1> DEFINE q == [id |-> id, nr |-> at]
           w == PartsOf(wire)
<1>1. /\ id \in Nat /\ size \in Nat /\ at \in Nat /\ q \in Part
      /\ [part |-> q, more |-> More(at, size)] \in Parts
  BY PartTypes, MultipartAssumption DEF SendsPart, Parts, MultipartAssumption
<1>2. /\ got \in Seq(Seq(Part)) /\ InHand \in Seq(Part) /\ wire \in Seq(Parts)
      /\ w \in Seq(Part)
  BY SentTypes
<1>3. PartsOf(wire') = Append(w, q) /\ PartsOf(wire)' = PartsOf(wire')
  BY <1>1, <1>2, PartsOnWire DEF SendsPart, PartsOf
<1>4. got' = got /\ InHand' = InHand /\ id' = id /\ Sending /\ Advance
  BY DEF SendsPart, receiveVars, InHand
<1>5. /\ \A p : IsSent(p, got, InHand, w) => p \in Part /\ IsOld(p, sender, id, at)
      /\ sender = "refused" => at = 1
      /\ InOrder(got, InHand, w)
  BY DEF SentInv
<1>6. q.id = id /\ q.nr = at
  OBVIOUS
<1> HIDE DEF q, w
<1>7. \A p : IsSent(p, got, InHand, w) => Before(p, q)
  BY <1>4, <1>5, <1>6 DEF Before, IsOld, Sending
<1>8. InOrder(got, InHand, Append(w, q))
  <2>1. /\ \A i \in DOMAIN got : \A k \in DOMAIN got[i] : Before(got[i][k], q)
        /\ \A k \in DOMAIN InHand : Before(InHand[k], q)
        /\ \A k \in DOMAIN w : Before(w[k], q)
    BY <1>7 DEF IsSent
  <2>2. QED BY <1>1, <1>2, <1>5, <2>1, SentInOrder
<1>9. IsOld(q, sender', id', at')
  <2>1. CASE at = size
    BY <1>4, <1>6, <2>1 DEF Advance, IsOld
  <2>2. CASE at # size
    <3>1. sender' = sender /\ at' = at + 1
      BY <1>4, <2>2 DEF Advance
    <3>2. at < at + 1
      BY <1>1
    <3>3. QED BY <1>4, <1>6, <3>1, <3>2 DEF IsOld, Sending
  <2>3. QED BY <2>1, <2>2
<1>10. ASSUME NEW p, IsSent(p, got, InHand, Append(w, q))
       PROVE  p \in Part /\ IsOld(p, sender', id', at')
  <2>1. IsSent(p, got, InHand, w) \/ p = q
    BY <1>1, <1>2, <1>10, SentParts
  <2>2. CASE p = q
    BY <1>1, <1>9, <2>2
  <2>3. CASE IsSent(p, got, InHand, w)
    BY <1>5, <2>3, StaysOld
  <2>4. QED BY <2>1, <2>2, <2>3
<1>11. sender' = "refused" => at' = 1
  BY <1>5, RefusedAtFirst
<1>12. QED BY <1>3, <1>4, <1>8, <1>10, <1>11 DEF SentInv

(* A step that sends no part *)
LEMMA SentStays ==
  ASSUME TypeInv, SentInv, [Next]_vars, NEW g, NEW h, NEW w,
         got' = g, InHand' = h, PartsOf(wire') = w, InOrder(g, h, w),
         \A p : IsSent(p, g, h, w) => IsSent(p, got, InHand, PartsOf(wire))
  PROVE  SentInv'
<1>1. /\ \A p : IsSent(p, got, InHand, PartsOf(wire)) => p \in Part /\ IsOld(p, sender, id, at)
      /\ sender = "refused" => at = 1
  BY DEF SentInv
<1>2. PartsOf(wire)' = w
  BY DEF PartsOf
<1>3. \A p : IsSent(p, g, h, w) => p \in Part /\ IsOld(p, sender', id', at')
  BY <1>1, StaysOld
<1>4. sender' = "refused" => at' = 1
  BY <1>1, RefusedAtFirst
<1>5. QED BY <1>2, <1>3, <1>4 DEF SentInv

LEMMA TakeKeepsSent ==
  ASSUME TypeInv, SentInv, [Next]_vars, ReceivesPart
  PROVE  SentInv'
<1> DEFINE h == InHand
           w == PartsOf(wire)
           u == Append(h, w[1])
<1>1. /\ got \in Seq(Seq(Part)) /\ h \in Seq(Part) /\ wire \in Seq(Parts)
      /\ w \in Seq(Part)
  BY SentTypes
<1>2. Readable /\ wire # <<>> /\ Head(wire) = wire[1]
  BY PartTypes DEF ReceivesPart
<1>3. w # <<>> /\ w[1] = wire[1].part /\ PartsOf(Tail(wire)) = Tail(w)
  BY <1>1, <1>2, PartsOnWire
<1>4. h = message
  BY DEF ReceivesPart, InHand
<1>5. wire' = Tail(wire) /\ message' = u
  BY <1>2, <1>3, <1>4 DEF ReceivesPart
<1>6. PartsOf(wire') = Tail(w)
  BY <1>3, <1>5
<1>7. InOrder(got, h, w)
  BY DEF SentInv
<1>8. w[1] \in Part
  BY <1>1, <1>3, TailDomain, LenProperties, ElementOfSeq
<1>9. u \in Seq(Part)
  BY <1>1, <1>8, AppendProperties
<1>10. Tail(w) \in Seq(Part)
  BY <1>1, <1>3, TailDomain
<1>11. InOrder(got, u, Tail(w))
  BY <1>1, <1>3, <1>7, TakenInOrder
<1>12. \A p : IsSent(p, got, u, Tail(w)) => IsSent(p, got, h, w)
  BY <1>1, <1>3, SentParts
<1>13. CASE Head(wire).more
  <2>1. got' = got /\ InHand' = u
    BY <1>5, <1>13 DEF ReceivesPart, InHand
  <2> HIDE DEF h, w, u
  <2>2. QED BY <1>6, <1>11, <1>12, <2>1, SentStays DEF h, w
<1>14. CASE ~Head(wire).more
  <2>1. got' = Append(got, u) /\ InHand' = <<>>
    BY <1>5, <1>14 DEF ReceivesPart, InHand
  <2>2. InOrder(Append(got, u), <<>>, Tail(w))
    BY <1>1, <1>9, <1>11, GotInOrder
  <2>3. \A p : IsSent(p, Append(got, u), <<>>, Tail(w)) => IsSent(p, got, h, w)
    BY <1>1, <1>9, <1>10, <1>12, SentParts
  <2> HIDE DEF h, w, u
  <2>4. QED BY <1>6, <2>1, <2>2, <2>3, SentStays DEF h, w
<1>15. QED BY <1>13, <1>14

LEMMA SentStep ==
  ASSUME TypeInv, SentInv, [Next]_vars
  PROVE  SentInv'
<1>1. CASE SendsPart
  BY <1>1, SendKeepsSent
<1>2. CASE ReceivesPart
  BY <1>2, TakeKeepsSent
<1>3. CASE wire' = wire /\ got' = got /\ InHand' \in {InHand, <<>>}
  <2>1. InOrder(got, InHand, PartsOf(wire)) /\ PartsOf(wire') = PartsOf(wire)
    BY <1>3 DEF SentInv
  <2>2. /\ got \in Seq(Seq(Part)) /\ InHand \in Seq(Part) /\ PartsOf(wire) \in Seq(Part)
    BY SentTypes
  <2>3. CASE InHand' = InHand
    BY <1>3, <2>1, <2>3, SentStays
  <2>4. CASE InHand' = <<>>
    <3>1. InOrder(got, <<>>, PartsOf(wire))
      BY <2>1, DroppedInOrder
    <3>2. \A p : IsSent(p, got, <<>>, PartsOf(wire)) => IsSent(p, got, InHand, PartsOf(wire))
      BY <2>2, SentParts
    <3>3. QED BY <1>3, <2>1, <2>4, <3>1, <3>2, SentStays
  <2>5. QED BY <1>3, <2>3, <2>4
<1>4. QED BY <1>1, <1>2, <1>3, PartsStay

(* The order, batch by batch, is the order of all the parts. *)
LEMMA BatchesInOrder ==
  ASSUME TypeInv, InOrder(got, InHand, PartsOf(wire))
  PROVE  NoPartTwice
<1> DEFINE h == InHand
           w == PartsOf(wire)
           b == got \o <<h, w>>
           n == Len(got)
<1>1. got \in Seq(Seq(Part)) /\ h \in Seq(Part) /\ w \in Seq(Part)
  BY SentTypes
<1>2. n \in Nat /\ DOMAIN got = 1..n
  BY <1>1, LenProperties
<1>3. <<h, w>> \in Seq(Seq(Part)) /\ Len(<<h, w>>) = 2 /\ <<h, w>>[1] = h /\ <<h, w>>[2] = w
  BY <1>1
<1>4. /\ b \in Seq(Seq(Part)) /\ Len(b) = n + 2
      /\ \A i \in 1..n : b[i] = got[i]
      /\ b[n + 1] = h /\ b[n + 2] = w
  <2>1. /\ b \in Seq(Seq(Part)) /\ Len(b) = n + Len(<<h, w>>)
        /\ \A i \in 1..Len(b) : b[i] = IF i <= n THEN got[i] ELSE <<h, w>>[i - n]
    BY <1>1, <1>3, ConcatProperties
  <2>2. n + 1 \in 1..Len(b) /\ n + 2 \in 1..Len(b) /\ (n + 1) - n = 1 /\ (n + 2) - n = 2
        /\ ~(n + 1 <= n) /\ ~(n + 2 <= n) /\ \A i \in 1..n : i \in 1..Len(b) /\ i <= n
    BY <1>2, <1>3, <2>1
  <2> HIDE DEF b, n
  <2>3. QED BY <1>3, <2>1, <2>2
<1>5. DOMAIN b = 1..(n + 2)
  BY <1>4, LenProperties
<1>6. Batches = b
  BY DEF Batches, PartsOf
<1>7. /\ \A i \in DOMAIN got : Ascends(got[i]) /\ AllBefore(got[i], h) /\ AllBefore(got[i], w)
      /\ \A i, j \in DOMAIN got : i < j => AllBefore(got[i], got[j])
      /\ Ascends(h) /\ Ascends(w) /\ AllBefore(h, w)
  BY DEF InOrder
<1> HIDE DEF h, w, b, n
<1>8. \A i \in 1..(n + 2) : i \in 1..n \/ i = n + 1 \/ i = n + 2
  BY <1>2
<1>9. \A i \in 1..(n + 2) : Ascends(b[i])
  BY <1>2, <1>4, <1>7, <1>8
<1>10. ASSUME NEW i \in 1..(n + 2), NEW j \in 1..(n + 2), i < j
       PROVE  AllBefore(b[i], b[j])
  <2>1. \/ i \in 1..n /\ j \in 1..n
        \/ i \in 1..n /\ j \in {n + 1, n + 2}
        \/ i = n + 1 /\ j = n + 2
    BY <1>2, <1>10
  <2>2. QED BY <1>2, <1>4, <1>7, <1>10, <2>1
<1>11. QED
  BY <1>5, <1>6, <1>9, <1>10 DEF NoPartTwice, Ascends, AllBefore

(* No retry, refusal or interrupt makes the receiver see a part twice, or one
   before a part that was sent earlier, also when it loses some
   (socket.cpp:171-198, 231-254). *)
THEOREM NothingSentTwice == Spec => []NoPartTwice
<1>1. Init => TypeInv /\ SentInv
  BY TypesInit, SentInit
<1>2. TypeInv /\ SentInv /\ [Next]_vars => (TypeInv /\ SentInv)'
  BY TypesKept, SentStep
<1>3. TypeInv /\ SentInv => NoPartTwice
  BY BatchesInOrder DEF SentInv
<1>4. QED BY <1>1, <1>2, <1>3, PTL DEF Spec
-----------------------------------------------------------------------------
(* The options, in SocketOptions *)

(* The options that are strings for any of the calls *)
Texts(v) ==
  {"identity", "subscribe", "unsubscribe"} \cup When(v >= 32, {"tcp_accept_filter", "last_endpoint"})
    \cup When(v >= 40, Plain \cup Curve \cup {"zap_domain"})
    \cup When(v >= 42, {"gssapi_principal", "gssapi_service_principal",
                        "socks_proxy", "xpub_welcome_message"})

(* Those that are signed integers of 64 bits *)
Longs(v) == IF v = 20 THEN Rates2 \cup {"receive_more"} ELSE {"max_messsage_size"}

(* The one type of an option *)
TypeOf(o, v) ==
  CASE o \in IntAsUnsigned(v) -> "uint64"
    [] o \in Longs(v) -> "int64"
    [] o \in Texts(v) -> "string"
    [] OTHER -> "int"

(* Those that are an int for any of the calls *)
Numbers(v) ==
  IntAsBool(v) \cup PositiveInts(v) \cup Ints(v)
    \cup {"tcp_keepalive", "type", "file_descriptor", "events", "mechanism"}
    \cup When(v > 20, {"receive_more"})

(* No option is in two of the tables. *)
LEMMA OptionsApart ==
  ASSUME NEW v \in Nat, v >= 20, NEW o
  PROVE  /\ o \in IntAsUnsigned(v) => o \notin Longs(v) /\ o \notin Texts(v) /\ o \notin Numbers(v)
         /\ o \in Longs(v) => o \notin Texts(v) /\ o \notin Numbers(v)
         /\ o \in Texts(v) => o \notin Numbers(v)
<1> USE DEF IntAsUnsigned, Longs, Texts, Numbers, When, IntAsBool, PositiveInts, Ints, Immediate,
            Buffers2, Rates2, Sizes3, Keepalive, Vmci, Curve, Plain, Flags4, Flags42, Timeouts,
            Ints42, Heartbeat
<1>1. ASSUME o \in IntAsUnsigned(v)
      PROVE  o \notin Longs(v) /\ o \notin Texts(v) /\ o \notin Numbers(v)
  BY <1>1
<1>2. ASSUME o \in Longs(v)
      PROVE  o \notin Texts(v) /\ o \notin Numbers(v)
  BY <1>2
<1>3. ASSUME o \in Texts(v)
      PROVE  o \notin Numbers(v)
  BY <1>3
<1> QED BY <1>1, <1>2, <1>3

(* Except for this one (socket.cpp:526, 557, 738, 807). *)
Odd(v) == When(v = 20, {"multicast_loopback"})

(* Whatever overload of set takes an option, and whatever number it is given,
   it passes it as the type it has (socket.cpp:387-655). *)
LEMMA SetTypes ==
  ASSUME NEW v \in Nat, v >= 20, NEW o, NEW n \in Int
  PROVE  /\ SetUnsigned(o, v) \in {TypeOf(o, v), "throws"}
         /\ SetInt64(o, n, v) \in {TypeOf(o, v), "throws"}
         /\ SetBool(o, v) \in {TypeOf(o, v), "throws"}
         /\ SetString(o, v) \in {TypeOf(o, v), "throws"}
         /\ SetInt(o, n, v) \in {TypeOf(o, v), "throws"}
<1>1. SetUnsigned(o, v) \in {TypeOf(o, v), "throws"}
  <2>1. SetUnsigned(o, v) = IF o \in IntAsUnsigned(v) THEN "uint64" ELSE "throws"
    BY DEF SetUnsigned, IntAsUnsigned
  <2>2. o \in IntAsUnsigned(v) => TypeOf(o, v) = "uint64"
    BY OptionsApart DEF TypeOf
  <2> QED BY <2>1, <2>2
<1>2. SetInt64(o, n, v) \in {TypeOf(o, v), "throws"}
  <2>1. o \in IntAsInt64(v) => o \in Longs(v)
    BY DEF IntAsInt64, Longs
  <2>2. o \in Longs(v) => TypeOf(o, v) = "int64"
    BY OptionsApart DEF TypeOf
  <2>3. SetInt64(o, n, v) = IF o \in IntAsInt64(v) /\ n >= 0 THEN "int64" ELSE "throws"
    BY DEF SetInt64, IntAsInt64
  <2> QED BY <2>1, <2>2, <2>3
<1>3. o \in Numbers(v) => TypeOf(o, v) = "int"
  BY OptionsApart DEF TypeOf
<1>4. SetBool(o, v) \in {TypeOf(o, v), "throws"}
  <2>1. SetBool(o, v) = IF o \in IntAsBool(v) THEN "int" ELSE "throws"
    BY DEF SetBool, IntAsBool
  <2> QED BY <1>3, <2>1 DEF Numbers
<1>5. SetString(o, v) \in {TypeOf(o, v), "throws"}
  <2>1. o \in Texts(v) => TypeOf(o, v) = "string"
    BY OptionsApart DEF TypeOf
  <2>2. SetString(o, v) # "throws" => SetString(o, v) = "string" /\ o \in Texts(v)
    BY DEF SetString, Texts, When
  <2> QED BY <2>1, <2>2
<1>6. SetInt(o, n, v) \in {TypeOf(o, v), "throws"}
  <2>1. o \in Numbers(v) => o \notin IntAsUnsigned(v) /\ o \notin IntAsInt64(v)
    BY OptionsApart DEF IntAsInt64, Longs
  <2>2. o = "tcp_keepalive" \/ o \in PositiveInts(v) \/ o \in Ints(v) => o \in Numbers(v)
    BY DEF Numbers
  <2> QED BY <1>1, <1>2, <1>3, <1>4, <2>1, <2>2 DEF SetInt
<1> QED BY <1>1, <1>2, <1>4, <1>5, <1>6

(* So does whatever overload of get takes it (socket.cpp:657-882). *)
LEMMA GetTypes ==
  ASSUME NEW v \in Nat, v >= 20, NEW o, o \notin Odd(v)
  PROVE  /\ GetUnsigned(o, v) \in {TypeOf(o, v), "throws"}
         /\ GetInt64(o, v) \in {TypeOf(o, v), "throws"}
         /\ GetInt(o, v) \in {TypeOf(o, v), "throws"}
         /\ GetBool(o, v) \in {TypeOf(o, v), "throws"}
         /\ GetString(o, v) \in {TypeOf(o, v), "throws"}
<1>1. GetUnsigned(o, v) \in {TypeOf(o, v), "throws"}
  <2>1. 0 \in Int
    OBVIOUS
  <2> QED BY <2>1, SetTypes DEF GetUnsigned
<1>2. o \in Longs(v) => TypeOf(o, v) = "int64"
  BY OptionsApart DEF TypeOf
<1>3. o \in Numbers(v) => TypeOf(o, v) = "int"
  BY OptionsApart DEF TypeOf
<1>4. GetInt64(o, v) # "throws" => GetInt64(o, v) = "int64" /\ o \in Longs(v)
  BY DEF GetInt64, Longs, Odd, When
<1>5. GetInt(o, v) # "throws" => \/ GetInt(o, v) = GetInt64(o, v)
                                 \/ GetInt(o, v) = "int" /\ o \in Numbers(v)
  BY DEF GetInt, Numbers, PositiveInts, Ints, IntAsBool, Immediate, When, Flags4
<1>6. GetBool(o, v) # "throws" => \/ GetBool(o, v) = "int64" /\ o \in Longs(v)
                                  \/ GetBool(o, v) = "int" /\ o \in Numbers(v)
  BY DEF GetBool, Longs, Odd, Numbers, IntAsBool, Immediate, When, Flags4
<1>7. GetString(o, v) \in {TypeOf(o, v), "throws"}
  <2>1. o \in Texts(v) => TypeOf(o, v) = "string"
    BY OptionsApart DEF TypeOf
  <2>2. GetString(o, v) # "throws" => GetString(o, v) = "string" /\ o \in Texts(v)
    BY DEF GetString, Texts, When
  <2> QED BY <2>1, <2>2
<1> QED BY <1>1, <1>2, <1>3, <1>4, <1>5, <1>6, <1>7

(* For every version of libzmq from 2.0 on, no option has two types in the calls
   that take it, but for multicast_loopback in version 2 (socket.cpp:386-882). *)
THEOREM OneType ==
  ASSUME NEW v \in Nat, v >= 20, NEW o, o \notin Odd(v)
  PROVE  TypesOf(o, v) \subseteq {TypeOf(o, v)}
<1>1. \A n \in Int : /\ SetUnsigned(o, v) \in {TypeOf(o, v), "throws"}
                     /\ SetInt64(o, n, v) \in {TypeOf(o, v), "throws"}
                     /\ SetBool(o, v) \in {TypeOf(o, v), "throws"}
                     /\ SetString(o, v) \in {TypeOf(o, v), "throws"}
                     /\ SetInt(o, n, v) \in {TypeOf(o, v), "throws"}
  BY SetTypes
<1>2. \A n \in -2..2 : n \in Int
  OBVIOUS
<1>3. 0 \in Int
  OBVIOUS
<1> QED BY <1>1, <1>2, <1>3, GetTypes DEF TypesOf

(* What set(int) hands on to another overload, if it is no number that cannot
   be one of it, that one takes (socket.cpp:387-516). *)
THEOREM HandedOnAreTaken ==
  ASSUME NEW v \in Nat, v >= 20, NEW o, NEW n \in Nat,
         o \in IntAsUnsigned(v) \cup IntAsInt64(v) \/ (o \in IntAsBool(v) /\ n \in {0, 1})
  PROVE  SetInt(o, n, v) # "throws"
<1>1. SetUnsigned(o, v) = IF o \in IntAsUnsigned(v) THEN "uint64" ELSE "throws"
  BY DEF SetUnsigned, IntAsUnsigned
<1>2. SetInt64(o, n, v) = IF o \in IntAsInt64(v) THEN "int64" ELSE "throws"
  BY DEF SetInt64, IntAsInt64
<1>3. SetBool(o, v) = IF o \in IntAsBool(v) THEN "int" ELSE "throws"
  BY DEF SetBool, IntAsBool
<1>4. ~(n < 0)
  OBVIOUS
<1>5. /\ o \in IntAsInt64(v) => o \notin IntAsUnsigned(v)
      /\ o \in IntAsBool(v) => o \notin IntAsUnsigned(v) /\ o \notin IntAsInt64(v)
      /\ o \in IntAsUnsigned(v) \/ o \in IntAsInt64(v) =>
           o # "tcp_keepalive" /\ o \notin PositiveInts(v) /\ o \notin Ints(v)
  BY OptionsApart DEF Numbers, Longs, IntAsInt64
<1>6. CASE o \in IntAsUnsigned(v)
  BY <1>1, <1>4, <1>5, <1>6 DEF SetInt
<1>7. CASE o \in IntAsInt64(v)
  BY <1>2, <1>4, <1>5, <1>7 DEF SetInt
<1>8. CASE o \in IntAsBool(v) /\ n \in {0, 1}
  BY <1>3, <1>5, <1>8 DEF SetInt
<1> QED BY <1>6, <1>7, <1>8

(* multicast_loopback is written as an int and read as an integer of 64 bits. *)
LEMMA TwoTypes == Cardinality(TypesOf("multicast_loopback", 20)) > 1
<1> DEFINE o == "multicast_loopback"
           T == TypesOf(o, 20)
<1>1. SetBool(o, 20) = "int" /\ GetInt64(o, 20) = "int64"
  BY DEF SetBool, GetInt64, When
<1>2. {"int", "int64"} \subseteq T
  BY <1>1 DEF TypesOf
<1>3. T \subseteq {"uint64", "int64", "int", "string"}
  BY DEF TypesOf, SetUnsigned, SetBool, SetString, GetUnsigned, GetInt, GetInt64, GetBool,
         GetString, SetInt, SetInt64
<1> HIDE DEF T, o
<1>4. IsFiniteSet({"uint64", "int64", "int", "string"})
  <2>1. IsFiniteSet({"uint64"})
    BY FS_Singleton
  <2>2. IsFiniteSet(({"uint64"} \cup {"int64"}) \cup {"int"})
    BY <2>1, FS_AddElement
  <2>3. IsFiniteSet((({"uint64"} \cup {"int64"}) \cup {"int"}) \cup {"string"})
    BY <2>2, FS_AddElement
  <2>4. (({"uint64"} \cup {"int64"}) \cup {"int"}) \cup {"string"} = {"uint64", "int64", "int", "string"}
    OBVIOUS
  <2> QED BY <2>3, <2>4
<1>5. IsFiniteSet(T)
  BY <1>3, <1>4, FS_Subset
<1>6. Cardinality({"int", "int64"}) = 2
  <2>1. IsFiniteSet({"int"}) /\ Cardinality({"int"}) = 1
    BY FS_Singleton
  <2>2. Cardinality({"int"} \cup {"int64"}) = Cardinality({"int"}) + 1
    BY <2>1, FS_AddElement
  <2>3. {"int"} \cup {"int64"} = {"int", "int64"}
    OBVIOUS
  <2> QED BY <2>1, <2>2, <2>3
<1>7. Cardinality({"int", "int64"}) <= Cardinality(T) /\ Cardinality(T) \in Nat
  BY <1>2, <1>5, FS_Subset, FS_CardinalityType
<1> QED BY <1>6, <1>7 DEF T, o

(* So the tables agree in every version the preprocessor tells apart. *)
LEMMA NoneDisagrees == Disagreeing = {}
<1> SUFFICES ASSUME NEW v \in Versions
             PROVE  Refused(v) = {} /\ Misread(v) = Odd(v)
  BY DEF Disagreeing, Odd
<1>1. v \in Nat /\ v >= 20
  BY DEF Versions
<1>2. Refused(v) = {}
  <2>1. 1 \in Nat /\ 1 \in {0, 1}
    OBVIOUS
  <2> QED BY <1>1, <2>1, HandedOnAreTaken DEF Refused
<1>3. ASSUME NEW o, o \notin Odd(v)
      PROVE  ~(Cardinality(TypesOf(o, v)) > 1)
  <2>1. TypesOf(o, v) \subseteq {TypeOf(o, v)}
    BY <1>1, <1>3, OneType
  <2> DEFINE T == TypesOf(o, v)
             t == TypeOf(o, v)
  <2>2. T \subseteq {t}
    BY <2>1
  <2> HIDE DEF T, t
  <2>3. IsFiniteSet({t}) /\ Cardinality({t}) = 1
    BY FS_Singleton
  <2>4. Cardinality(T) <= Cardinality({t}) /\ IsFiniteSet(T)
    BY <2>2, <2>3, FS_Subset
  <2>5. Cardinality(T) \in Nat
    BY <2>4, FS_CardinalityType
  <2>6. ~(Cardinality(T) > 1)
    BY <2>3, <2>4, <2>5
  <2> QED BY <2>6 DEF T
<1>4. ASSUME NEW o \in Odd(v)
      PROVE  o \in Options /\ Cardinality(TypesOf(o, v)) > 1
  <2>1. v = 20 /\ o = "multicast_loopback"
    BY DEF Odd, When
  <2>2. "multicast_loopback" \in Options
    <3>1. "multicast_loopback" \in Others
      BY DEF Others
    <3> QED BY <3>1 DEF Options
  <2> QED BY <2>1, <2>2, TwoTypes
<1> QED BY <1>2, <1>3, <1>4 DEF Misread

(* In every version there is an overload that takes receive_more. *)
LEMMA MoreIsAsked ==
  ASSUME NEW v \in Nat
  PROVE  GetBool("receive_more", v) # "throws"
BY DEF GetBool

(* Whatever the version of libzmq, the calls that take an option agree on its
   type, set(int) hands on what is taken, and receive can ask whether there are
   more parts (socket.cpp:259, 386-882). *)
THEOREM OptionsHold == Spec => []OptionsAgree
<1>1. OptionsAgree
  <2>1. \A v \in Versions : v \in Nat
    BY DEF Versions
  <2> QED BY <2>1, NoneDisagrees, MoreIsAsked DEF OptionsAgree
<1> QED BY <1>1, PTL
=============================================================================
