-------------------------- MODULE PollTableProofs --------------------------
(***************************************************************************)
(* What the operations of a poller keep of its types, of the soundness and *)
(* of the exactness of its index, and what they do to what clients see of  *)
(* it: for whoever owns one.                                               *)
(***************************************************************************)
EXTENDS PollTable, SequenceTheorems, FiniteSetTheorems, TLAPS

(* The array after remove: the position of the removed entry holds what was
   at the back, the others are as before. *)
LEMMA RemovedItems ==
  ASSUME NEW s \in Seq(PollItem), NEW at \in 1..Len(s)
  PROVE  LET t == SubSeq([s EXCEPT ![at] = s[Len(s)]], 1, Len(s) - 1)
         IN /\ t \in Seq(PollItem)
            /\ Len(t) = Len(s) - 1
            /\ \A i \in 1..Len(s) - 1 : t[i] = IF i = at THEN s[Len(s)] ELSE s[i]
<1> DEFINE u == [s EXCEPT ![at] = s[Len(s)]]
           t == SubSeq(u, 1, Len(s) - 1)
<1>1. Len(s) \in Nat /\ Len(s) >= 1 /\ s[Len(s)] \in PollItem
  BY LenProperties, ElementOfSeq
<1>2. /\ u \in Seq(PollItem)
      /\ Len(u) = Len(s)
      /\ \A j \in 1..Len(s) : u[j] = IF j = at THEN s[Len(s)] ELSE s[j]
  BY <1>1, ExceptSeq
<1>3. \A i \in 1..Len(s) - 1 : u[i] \in PollItem
  BY <1>1, <1>2, ElementOfSeq
<1> HIDE DEF u
<1>4. /\ t \in Seq(PollItem)
      /\ Len(t) = IF 1 <= Len(s) - 1 THEN Len(s) - 1 ELSE 0
      /\ \A i \in 1..Len(s) - 1 : t[i] = u[i]
  <2>1. 1 \in Int /\ Len(s) - 1 \in Int
    BY <1>1
  <2>2. /\ t \in Seq(PollItem)
        /\ Len(t) = IF 1 <= Len(s) - 1 THEN (Len(s) - 1) - 1 + 1 ELSE 0
        /\ \A i \in 1..(Len(s) - 1) - 1 + 1 : t[i] = u[1 + i - 1]
    BY <1>3, <2>1, SubSeqProperties
  <2> HIDE DEF t
  <2>3. (Len(s) - 1) - 1 + 1 = Len(s) - 1 /\ \A i \in 1..Len(s) - 1 : 1 + i - 1 = i
    BY <1>1
  <2> QED
    BY <2>2, <2>3
<1> HIDE DEF t
<1>5. QED
  BY <1>1, <1>2, <1>4 DEF t, u

-----------------------------------------------------------------------------
(* Each operation keeps the types and the soundness of the index, and its
   exactness unless it adds a handle that is already there. *)
LEMMA AddKeeps ==
  ASSUME NEW p, TableType(p), Sound(p),
         NEW h \in Handle, NEW events \in SUBSET Flags
  PROVE  /\ TableType(PollAdd(p, h, events))
         /\ Sound(PollAdd(p, h, events))
         /\ Exact(p) /\ ~PollHas(p, h) => Exact(PollAdd(p, h, events))
<1> DEFINE item == [handle |-> h, events |-> events, revents |-> {}]
           q == PollAdd(p, h, events)
<1>1. item \in PollItem
  BY DEF PollItem
<1>2. /\ Len(p.items) \in Nat
      /\ q.items = Append(p.items, item)
      /\ q.items \in Seq(PollItem)
      /\ Len(q.items) = Len(p.items) + 1
      /\ \A i \in 1..Len(p.items) : q.items[i] = p.items[i]
      /\ q.items[Len(p.items) + 1] = item
  BY <1>1, LenProperties, AppendProperties DEF PollAdd, TableType
<1>3. /\ DOMAIN q.index = DOMAIN p.index \cup {h}
      /\ \A k \in DOMAIN q.index :
           q.index[k] = IF k = h THEN Len(p.items) + 1 ELSE p.index[k]
      /\ q.index \in [DOMAIN q.index -> Nat \ {0}]
  BY <1>2 DEF PollAdd, TableType
<1> HIDE DEF q, item
<1>4. TableType(q)
  BY <1>2, <1>3 DEF TableType
<1>5. Sound(q)
  BY <1>2, <1>3 DEF Sound, item, TableType
<1>6. ASSUME Exact(p), ~PollHas(p, h) PROVE Exact(q)
  <2>1. \A i \in 1..Len(p.items) : p.items[i].handle # h
    BY <1>6 DEF Exact
  <2> QED
    BY <1>2, <1>3, <1>6, <2>1 DEF Exact, PollHas, item
<1>7. QED
  BY <1>4, <1>5, <1>6 DEF q

LEMMA RemoveKeeps ==
  ASSUME NEW p, TableType(p), Sound(p), NEW h \in Handle
  PROVE  /\ TableType(PollRemove(p, h))
         /\ Sound(PollRemove(p, h))
         /\ Exact(p) => Exact(PollRemove(p, h)) /\ ~PollRemoveThrows(p, h)
<1>1. CASE ~PollHas(p, h)
  BY <1>1 DEF PollRemove, PollRemoveThrows, MovesBack
<1>2. CASE PollHas(p, h)
  <2> DEFINE n == Len(p.items)
             at == p.index[h]
             q == PollRemove(p, h)
  <2>1. n \in Nat /\ at \in 1..n /\ p.items[at].handle = h
    BY <1>2, LenProperties DEF TableType, Sound, PollHas
  <2>2. /\ q.items \in Seq(PollItem)
        /\ Len(q.items) = n - 1
        /\ \A i \in 1..n - 1 : q.items[i] = IF i = at THEN p.items[n] ELSE p.items[i]
    BY <1>2, <2>1, RemovedItems DEF PollRemove, TableType
  <2>3. /\ DOMAIN q.index = DOMAIN p.index \ {h}
        /\ \A k \in DOMAIN q.index :
             q.index[k] = IF at # n /\ k = BackHandle(p) THEN at ELSE p.index[k]
        /\ q.index \in [DOMAIN q.index -> Nat \ {0}]
    BY <1>2, <2>1 DEF PollRemove, Restrict, MovesBack, TableType
  <2> HIDE DEF q, at, n
  <2>4. TableType(q)
    BY <2>2, <2>3 DEF TableType
  <2>5. ASSUME NEW k \in DOMAIN q.index
        PROVE  q.index[k] \in 1..Len(q.items) /\ q.items[q.index[k]].handle = k
    <3>1. k # h /\ k \in DOMAIN p.index /\ p.index[k] \in 1..n
          /\ p.items[p.index[k]].handle = k
      BY <2>3, <2>5 DEF Sound, n
    <3>2. p.index[k] # at
      BY <2>1, <3>1
    <3>3. CASE at # n /\ k = BackHandle(p)
      <4>1. at \in 1..n - 1 /\ q.index[k] = at
        BY <2>1, <2>3, <2>5, <3>3
      <4> QED
        BY <2>2, <3>3, <4>1 DEF BackHandle, n
    <3>4. CASE ~(at # n /\ k = BackHandle(p))
      <4>1. q.index[k] = p.index[k]
        BY <2>3, <2>5, <3>4
      <4>2. p.index[k] # n
        BY <3>1, <3>2, <3>4 DEF BackHandle, n
      <4> QED
        BY <2>1, <2>2, <3>1, <3>2, <4>1, <4>2
    <3>5. QED
      BY <3>3, <3>4
  <2>6. ASSUME Exact(p) PROVE Exact(q) /\ ~PollRemoveThrows(p, h)
    <3>1. \A i \in 1..n : /\ p.items[i].handle \in DOMAIN p.index
                          /\ p.index[p.items[i].handle] = i
      BY <2>6 DEF Exact, PollHas, n
    <3>2. \A i \in 1..n : i # at => p.items[i].handle # h
      BY <3>1 DEF at
    <3>3. \A i \in 1..n - 1 :
            q.items[i].handle \in DOMAIN q.index /\ q.index[q.items[i].handle] = i
      <4> TAKE i \in 1..n - 1
      <4>1. CASE i = at
        <5>1. n # at /\ n \in 1..n /\ q.items[i].handle = BackHandle(p)
          BY <2>1, <2>2, <4>1 DEF BackHandle, n
        <5> QED
          BY <2>3, <3>1, <3>2, <4>1, <5>1 DEF BackHandle, n
      <4>2. CASE i # at
        <5>1. q.items[i] = p.items[i] /\ i \in 1..n /\ n \in 1..n /\ i # n
          BY <2>1, <2>2, <4>2
        <5>2. p.items[i].handle # BackHandle(p)
          BY <3>1, <5>1 DEF BackHandle, n
        <5> QED
          BY <2>3, <3>1, <3>2, <4>2, <5>1, <5>2
      <4> QED
        BY <4>1, <4>2
    <3>4. ~PollRemoveThrows(p, h)
      BY <2>1, <3>1, <3>2 DEF PollRemoveThrows, MovesBack, BackHandle, n, at
    <3> QED
      BY <2>2, <3>3, <3>4 DEF Exact, PollHas
  <2> QED
    BY <2>4, <2>5, <2>6 DEF Sound, q
<1>3. QED
  BY <1>1, <1>2

LEMMA CheckForKeeps ==
  ASSUME NEW p, TableType(p), Sound(p), NEW h \in Handle, PollHas(p, h),
         NEW events \in SUBSET Flags
  PROVE  /\ TableType(PollCheckFor(p, h, events))
         /\ Sound(PollCheckFor(p, h, events))
         /\ Exact(p) => Exact(PollCheckFor(p, h, events))
<1> DEFINE at == p.index[h]
           item == [p.items[at] EXCEPT !.events = events]
           q == PollCheckFor(p, h, events)
<1>1. at \in 1..Len(p.items) /\ p.items[at] \in PollItem
  BY ElementOfSeq DEF Sound, PollHas, TableType
<1>2. item \in PollItem /\ item.handle = p.items[at].handle
  BY <1>1 DEF PollItem
<1>3. /\ q.items = [p.items EXCEPT ![at] = item]
      /\ q.index = p.index
  BY DEF PollCheckFor
<1> HIDE DEF item, q
<1>4. /\ q.items \in Seq(PollItem)
      /\ Len(q.items) = Len(p.items)
      /\ \A j \in 1..Len(p.items) : q.items[j] = IF j = at THEN item ELSE p.items[j]
  BY <1>1, <1>2, <1>3, ExceptSeq DEF TableType
<1>5. \A j \in 1..Len(p.items) : q.items[j].handle = p.items[j].handle
  BY <1>2, <1>4
<1>6. TableType(q)
  BY <1>3, <1>4 DEF TableType
<1>7. Sound(q)
  BY <1>3, <1>4, <1>5 DEF Sound
<1>8. Exact(p) => Exact(q)
  BY <1>3, <1>4, <1>5 DEF Exact, PollHas
<1>9. QED
  BY <1>6, <1>7, <1>8 DEF q

(* zmq_poll rewrites revents only. *)
LEMMA PolledItems ==
  ASSUME NEW p, TableType(p), NEW ready \in [Handle -> SUBSET Flags]
  PROVE  /\ ZmqPoll(p, ready).index = p.index
         /\ ZmqPoll(p, ready).items \in Seq(PollItem)
         /\ Len(ZmqPoll(p, ready).items) = Len(p.items)
         /\ \A i \in 1..Len(p.items) :
              /\ ZmqPoll(p, ready).items[i].handle = p.items[i].handle
              /\ ZmqPoll(p, ready).items[i].events = p.items[i].events
              /\ ZmqPoll(p, ready).items[i].revents =
                   Reported(p.items[i].handle, p.items[i].events, ready)
<1> DEFINE n == Len(p.items)
           f == [i \in 1..n |-> [p.items[i] EXCEPT !.revents =
                   Reported(p.items[i].handle, p.items[i].events, ready)]]
<1>1. n \in Nat /\ \A i \in 1..n : p.items[i] \in PollItem
  BY LenProperties, ElementOfSeq DEF TableType
<1>2. \A i \in 1..n : Reported(p.items[i].handle, p.items[i].events, ready)
                      \in SUBSET Flags
  BY <1>1, PollAssumption DEF PollItem, Reported, Handle
<1>3. \A i \in 1..n : f[i] \in PollItem
  BY <1>1, <1>2 DEF PollItem
<1>4. f \in [1..n -> PollItem]
  BY <1>3
<1>5. f \in Seq(PollItem) /\ Len(f) = n
  BY <1>1, <1>4, SeqDef, LenProperties
<1>6. ZmqPoll(p, ready).items = f /\ ZmqPoll(p, ready).index = p.index
  BY DEF ZmqPoll
<1>7. QED
  BY <1>1, <1>5, <1>6 DEF PollItem

LEMMA PollKeeps ==
  ASSUME NEW p, TableType(p), Sound(p), NEW ready \in [Handle -> SUBSET Flags]
  PROVE  /\ TableType(ZmqPoll(p, ready))
         /\ Sound(ZmqPoll(p, ready))
         /\ Exact(p) => Exact(ZmqPoll(p, ready))
<1> DEFINE q == ZmqPoll(p, ready)
<1>1. /\ q.index = p.index
      /\ q.items \in Seq(PollItem)
      /\ Len(q.items) = Len(p.items)
      /\ \A i \in 1..Len(p.items) : q.items[i].handle = p.items[i].handle
  BY PolledItems
<1> HIDE DEF q
<1>2. TableType(q)
  BY <1>1 DEF TableType
<1>3. Sound(q)
  BY <1>1 DEF Sound
<1>4. Exact(p) => Exact(q)
  BY <1>1 DEF Exact, PollHas
<1>5. QED
  BY <1>2, <1>3, <1>4 DEF q

LEMMA InitTable ==
  TableType(EmptyPoller) /\ Sound(EmptyPoller) /\ Exact(EmptyPoller)
<1>1. <<>> \in Seq(PollItem) /\ Len(<<>>) = 0
  BY EmptySeq
<1>2. QED
  BY <1>1 DEF TableType, Sound, Exact, EmptyPoller

-----------------------------------------------------------------------------
(* What each operation does to the watch set the clients see. *)
LEMMA AddView ==
  ASSUME NEW p, TableType(p), Sound(p),
         NEW h \in Handle, NEW events \in SUBSET Flags
  PROVE  View(PollAdd(p, h, events)) =
           [k \in DOMAIN View(p) \cup {h} |->
              IF k = h THEN [events |-> events, revents |-> {}] ELSE View(p)[k]]
<1> DEFINE item == [handle |-> h, events |-> events, revents |-> {}]
           q == PollAdd(p, h, events)
<1>1. item \in PollItem
  BY DEF PollItem
<1>2. /\ Len(p.items) \in Nat
      /\ \A i \in 1..Len(p.items) : q.items[i] = p.items[i]
      /\ q.items[Len(p.items) + 1] = item
  BY <1>1, LenProperties, AppendProperties DEF PollAdd, TableType
<1>3. /\ DOMAIN q.index = DOMAIN p.index \cup {h}
      /\ \A k \in DOMAIN q.index :
           q.index[k] = IF k = h THEN Len(p.items) + 1 ELSE p.index[k]
  BY DEF PollAdd
<1> HIDE DEF q
<1>4. \A k \in DOMAIN p.index : p.index[k] \in 1..Len(p.items)
  BY DEF Sound
<1>5. ASSUME NEW k \in DOMAIN q.index
      PROVE  q.items[q.index[k]] = IF k = h THEN item ELSE p.items[p.index[k]]
  BY <1>2, <1>3, <1>4
<1>6. ASSUME NEW k \in DOMAIN q.index
      PROVE  View(q)[k] = IF k = h THEN [events |-> events, revents |-> {}]
                                   ELSE View(p)[k]
  <2>1. View(q)[k] = [events  |-> q.items[q.index[k]].events,
                      revents |-> q.items[q.index[k]].revents]
    BY DEF View
  <2>2. CASE k = h
    <3>1. item.events = events /\ item.revents = {}
      OBVIOUS
    <3>2. QED
      BY <1>5, <2>1, <2>2, <3>1
  <2>3. CASE k # h
    <3>1. View(p)[k] = [events  |-> p.items[p.index[k]].events,
                        revents |-> p.items[p.index[k]].revents]
      BY <1>3, <2>3 DEF View
    <3>2. QED
      BY <1>5, <2>1, <2>3, <3>1
  <2>4. QED
    BY <2>2, <2>3
<1>7. DOMAIN View(q) = DOMAIN View(p) \cup {h} /\ DOMAIN View(q) = DOMAIN q.index
  BY <1>3 DEF View
<1>8. View(q) = [k \in DOMAIN View(q) |-> View(q)[k]]
  BY DEF View
<1>9. QED
  BY <1>6, <1>7, <1>8 DEF q

LEMMA CheckForView ==
  ASSUME NEW p, TableType(p), Sound(p), NEW h \in Handle, PollHas(p, h),
         NEW events \in SUBSET Flags
  PROVE  View(PollCheckFor(p, h, events)) = [View(p) EXCEPT ![h].events = events]
<1> DEFINE at == p.index[h]
           item == [p.items[at] EXCEPT !.events = events]
           q == PollCheckFor(p, h, events)
<1>1. at \in 1..Len(p.items) /\ p.items[at] \in PollItem
  BY ElementOfSeq DEF Sound, PollHas, TableType
<1>2. /\ item \in PollItem
      /\ item.events = events /\ item.revents = p.items[at].revents
  BY <1>1 DEF PollItem
<1>3. q.items = [p.items EXCEPT ![at] = item] /\ q.index = p.index
  BY DEF PollCheckFor
<1> HIDE DEF item, q
<1>4. \A j \in 1..Len(p.items) : q.items[j] = IF j = at THEN item ELSE p.items[j]
  BY <1>1, <1>2, <1>3, ExceptSeq DEF TableType
<1>5. \A k \in DOMAIN p.index : p.index[k] \in 1..Len(p.items) /\ (k # h => p.index[k] # at)
  BY DEF Sound, PollHas
<1>6. /\ DOMAIN View(q) = DOMAIN View(p)
      /\ \A k \in DOMAIN View(p) :
           View(q)[k] = IF k = h THEN [View(p)[k] EXCEPT !.events = events]
                                 ELSE View(p)[k]
  <2>1. DOMAIN View(q) = DOMAIN p.index /\ DOMAIN View(p) = DOMAIN p.index /\ h \in DOMAIN p.index
    BY <1>3 DEF View, PollHas
  <2>2. ASSUME NEW k \in DOMAIN p.index
        PROVE  View(q)[k] = IF k = h THEN [View(p)[k] EXCEPT !.events = events] ELSE View(p)[k]
    <3>1. /\ View(p)[k] = [events  |-> p.items[p.index[k]].events,
                           revents |-> p.items[p.index[k]].revents]
          /\ View(q)[k] = [events  |-> q.items[p.index[k]].events,
                           revents |-> q.items[p.index[k]].revents]
      BY <1>3 DEF View
    <3>2. CASE k = h
      <4>1. q.items[p.index[k]] = item
        BY <1>1, <1>4, <3>2
      <4>2. View(q)[k] = [events |-> events, revents |-> p.items[at].revents]
        BY <1>2, <3>1, <3>2, <4>1
      <4>3. QED
        BY <3>1, <3>2, <4>2
    <3>3. CASE k # h
      <4>1. q.items[p.index[k]] = p.items[p.index[k]]
        BY <1>4, <1>5, <3>3
      <4>2. QED
        BY <3>1, <3>3, <4>1
    <3>4. QED
      BY <3>2, <3>3
  <2>3. QED
    BY <2>1, <2>2
<1>7. View(q) = [k \in DOMAIN View(p) |-> View(q)[k]]
  BY <1>6 DEF View
<1>8. View(q) = [View(p) EXCEPT ![h] = [View(p)[h] EXCEPT !.events = events]]
  BY <1>6, <1>7
<1>9. QED
  BY <1>8 DEF q

LEMMA RemoveView ==
  ASSUME NEW p, TableType(p), Sound(p), Exact(p), NEW h \in Handle
  PROVE  View(PollRemove(p, h)) = Restrict(View(p), DOMAIN View(p) \ {h})
<1>1. CASE ~PollHas(p, h)
  BY <1>1 DEF PollRemove, PollHas, View, Restrict
<1>2. CASE PollHas(p, h)
  <2> DEFINE n == Len(p.items)
             at == p.index[h]
             q == PollRemove(p, h)
  <2>1. n \in Nat /\ at \in 1..n /\ n \in 1..n
    BY <1>2, LenProperties DEF TableType, Sound, PollHas
  <2>2. \A i \in 1..n - 1 : q.items[i] = IF i = at THEN p.items[n] ELSE p.items[i]
    BY <1>2, <2>1, RemovedItems DEF PollRemove, TableType
  <2>3. /\ DOMAIN q.index = DOMAIN p.index \ {h}
        /\ \A k \in DOMAIN q.index :
             q.index[k] = IF at # n /\ k = BackHandle(p) THEN at ELSE p.index[k]
    BY <1>2, <2>1 DEF PollRemove, Restrict, MovesBack
  <2> HIDE DEF q, at, n
  <2>4. ASSUME NEW k \in DOMAIN q.index
        PROVE  q.items[q.index[k]] = p.items[p.index[k]]
    <3>1. k # h /\ k \in DOMAIN p.index /\ p.index[k] \in 1..n
          /\ p.items[p.index[k]].handle = k /\ p.index[k] # at
      BY <1>2, <2>3, <2>4 DEF Sound, n, at, PollHas
    <3>2. p.index[BackHandle(p)] = n
      BY <2>1 DEF Exact, BackHandle, n
    <3>3. CASE at # n /\ k = BackHandle(p)
      BY <2>1, <2>2, <2>3, <2>4, <3>2, <3>3
    <3>4. CASE ~(at # n /\ k = BackHandle(p))
      <4>1. p.index[k] # n
        BY <3>1, <3>4 DEF BackHandle, n
      <4>2. p.index[k] \in 1..n - 1
        BY <2>1, <3>1, <4>1
      <4> QED
        BY <2>2, <2>3, <2>4, <3>1, <3>4, <4>2
    <3>5. QED
      BY <3>3, <3>4
  <2>5. QED
    BY <2>3, <2>4 DEF View, Restrict, q
<1>3. QED
  BY <1>1, <1>2

LEMMA PollView ==
  ASSUME NEW p, TableType(p), Sound(p), NEW ready \in [Handle -> SUBSET Flags]
  PROVE  View(ZmqPoll(p, ready)) =
           [h \in DOMAIN View(p) |->
              [View(p)[h] EXCEPT !.revents = Reported(h, View(p)[h].events, ready)]]
<1> DEFINE q == ZmqPoll(p, ready)
<1>1. /\ q.index = p.index
      /\ \A i \in 1..Len(p.items) :
           /\ q.items[i].events = p.items[i].events
           /\ q.items[i].revents =
                Reported(p.items[i].handle, p.items[i].events, ready)
  BY PolledItems
<1> HIDE DEF q
<1>2. ASSUME NEW h \in DOMAIN p.index
      PROVE  View(q)[h] = [View(p)[h] EXCEPT !.revents =
                             Reported(h, View(p)[h].events, ready)]
  <2>1. p.index[h] \in 1..Len(p.items) /\ p.items[p.index[h]].handle = h
    BY DEF Sound
  <2>2. View(q)[h] = [events  |-> p.items[p.index[h]].events,
                      revents |-> Reported(h, p.items[p.index[h]].events, ready)]
    BY <1>1, <2>1 DEF View
  <2>3. View(p)[h] = [events  |-> p.items[p.index[h]].events,
                      revents |-> p.items[p.index[h]].revents]
    BY DEF View
  <2>4. QED
    BY <2>2, <2>3
<1>3. DOMAIN View(q) = DOMAIN p.index /\ DOMAIN View(p) = DOMAIN p.index
  BY <1>1 DEF View
<1>4. View(q) = [h \in DOMAIN View(q) |-> View(q)[h]]
  BY DEF View
<1>5. QED
  BY <1>2, <1>3, <1>4 DEF q

(* poll's answer is about the watched handles: no other item is polled. *)
LEMMA PollAnswer ==
  ASSUME NEW p, TableType(p), Sound(p), Exact(p),
         NEW ready \in [Handle -> SUBSET Flags]
  PROVE  SomeReported(ZmqPoll(p, ready)) <=>
           \E h \in DOMAIN View(p) : View(ZmqPoll(p, ready))[h].revents # {}
<1> DEFINE q == ZmqPoll(p, ready)
<1>1. /\ q.index = p.index /\ Len(q.items) = Len(p.items)
      /\ q.items \in Seq(PollItem)
      /\ TableType(q) /\ Sound(q) /\ Exact(q)
  BY PolledItems, PollKeeps
<1>2. DOMAIN q.items = 1..Len(p.items)
  BY <1>1, LenProperties
<1> HIDE DEF q
<1>3. ASSUME NEW i \in DOMAIN q.items, q.items[i].revents # {}
      PROVE  \E h \in DOMAIN View(p) : View(q)[h].revents # {}
  <2>1. q.items[i].handle \in DOMAIN q.index /\ q.index[q.items[i].handle] = i
    BY <1>1, <1>2, <1>3 DEF Exact, PollHas
  <2>2. View(q)[q.items[i].handle].revents = q.items[i].revents
    BY <2>1 DEF View
  <2> QED
    BY <1>1, <1>3, <2>1, <2>2 DEF View
<1>4. ASSUME NEW h \in DOMAIN View(p), View(q)[h].revents # {}
      PROVE  \E i \in DOMAIN q.items : q.items[i].revents # {}
  <2>1. h \in DOMAIN q.index /\ q.index[h] \in DOMAIN q.items
    BY <1>1, <1>2 DEF View, Sound
  <2> QED
    BY <1>4, <2>1 DEF View
<1>5. QED
  BY <1>3, <1>4 DEF SomeReported, q
-----------------------------------------------------------------------------
(* Induction over an interval, in terms of sets: there is a smallest number
   outside of a set that holds 0 and, with a number, the next one. *)
LEMMA Smallest ==
  ASSUME NEW T \in SUBSET Nat, T # {}
  PROVE  \E m \in T : \A k \in T : m <= k
<1> DEFINE less == OpToRel(<, Nat)
<1>1. \E m \in T : \A k \in T : ~(<<k, m>> \in less)
  BY NatLessThanWellFounded, WFMin
<1>2. \A k, m \in Nat : k < m => <<k, m>> \in less
  BY DEF OpToRel
<1> HIDE DEF less
<1>3. PICK m \in T : \A k \in T : ~(<<k, m>> \in less)
  BY <1>1
<1>4. \A k \in T : ~(k < m)
  BY <1>2, <1>3
<1> QED BY <1>3, <1>4

LEMMA UpTo ==
  ASSUME NEW N \in Nat, NEW H, 0 \in H, \A n \in 0..N - 1 : n \in H => n + 1 \in H
  PROVE  \A n \in 0..N : n \in H
<1> DEFINE T == (0..N) \ H
<1> SUFFICES ASSUME T # {} PROVE FALSE
  OBVIOUS
<1>1. T \in SUBSET Nat /\ \A k \in T : k \in 0..N /\ k \notin H
  OBVIOUS
<1>2. \A k \in 0..N : k \notin T => k \in H
  OBVIOUS
<1> HIDE DEF T
<1>3. PICK m \in T : \A k \in T : m <= k
  BY <1>1, Smallest
<1>4. m # 0 /\ m \in 0..N /\ m \notin H
  BY <1>1, <1>3
<1>5. m - 1 \in 0..N - 1 /\ m - 1 \notin T
  BY <1>1, <1>3, <1>4
<1>6. m - 1 \in H
  BY <1>2, <1>4, <1>5
<1> QED BY <1>4, <1>5, <1>6

-----------------------------------------------------------------------------
(* What erase leaves and what sort makes of a list are given by ranks: in a
   total order of the positions, each has a rank of its own. *)
IsTotalOrder(R, I) ==
  /\ \A i \in I : <<i, i>> \in R
  /\ \A i, j, k \in I : <<i, j>> \in R /\ <<j, k>> \in R => <<i, k>> \in R
  /\ \A i, j \in I : <<i, j>> \in R /\ <<j, i>> \in R => i = j
  /\ \A i, j \in I : <<i, j>> \in R \/ <<j, i>> \in R

RankOf(I, R) == [i \in I |-> Cardinality({j \in I : <<j, i>> \in R})]

IsRanking(rank, I, R, c) ==
  /\ \A i \in I : rank[i] \in 1..c
  /\ \A i, k \in I : rank[i] = rank[k] => i = k
  /\ \A i, k \in I : rank[i] <= rank[k] => <<i, k>> \in R
  /\ \A k \in 1..c : \E i \in I : rank[i] = k

LEMMA Ranks ==
  ASSUME NEW n \in Nat, NEW I \in SUBSET (1..n), NEW R, IsTotalOrder(R, I)
  PROVE  /\ Cardinality(I) \in Nat /\ Cardinality(I) <= n
         /\ IsRanking(RankOf(I, R), I, R, Cardinality(I))
<1> DEFINE c == Cardinality(I)
           rank == RankOf(I, R)
           upTo(i) == {j \in I : <<j, i>> \in R}
<1>1. IsFiniteSet(1..n) /\ Cardinality(1..n) = n
  BY FS_Interval
<1>2. IsFiniteSet(I) /\ c \in Nat /\ c <= n
  BY <1>1, FS_Subset, FS_CardinalityType
<1>3. ASSUME NEW i \in I
      PROVE  IsFiniteSet(upTo(i)) /\ Cardinality(upTo(i)) \in 1..c
  <2>1. i \in upTo(i) /\ upTo(i) \in SUBSET I
    BY DEF IsTotalOrder
  <2> HIDE DEF upTo
  <2>2. IsFiniteSet(upTo(i)) /\ Cardinality(upTo(i)) <= c
    BY <1>2, <2>1, FS_Subset
  <2>3. Cardinality(upTo(i)) \in Nat /\ Cardinality(upTo(i)) # 0
    BY <2>1, <2>2, FS_CardinalityType, FS_EmptySet
  <2> QED BY <1>2, <2>2, <2>3
<1>4. ASSUME NEW i \in I, NEW k \in I, <<i, k>> \notin R
      PROVE  Cardinality(upTo(k)) < Cardinality(upTo(i))
  <2>1. <<k, i>> \in R
    BY <1>4 DEF IsTotalOrder
  <2>2. upTo(k) \in SUBSET upTo(i) /\ i \in upTo(i) /\ i \notin upTo(k)
    BY <1>4, <2>1 DEF IsTotalOrder
  <2>3. IsFiniteSet(upTo(i)) /\ Cardinality(upTo(i)) \in Nat /\ Cardinality(upTo(k)) \in Nat
    BY <1>3
  <2> HIDE DEF upTo
  <2>4. Cardinality(upTo(k)) <= Cardinality(upTo(i))
    BY <2>2, <2>3, FS_Subset
  <2>5. Cardinality(upTo(k)) # Cardinality(upTo(i))
    BY <2>2, <2>3, FS_Subset
  <2> QED BY <2>3, <2>4, <2>5
<1>0. \A i \in I : rank[i] = Cardinality(upTo(i))
  BY DEF RankOf
<1> HIDE DEF upTo
<1>5. ASSUME NEW i \in I, NEW k \in I, rank[i] <= rank[k]
      PROVE  <<i, k>> \in R
  <2>1. Cardinality(upTo(i)) \in Nat /\ Cardinality(upTo(k)) \in Nat
    BY <1>3
  <2> QED BY <1>0, <1>4, <1>5, <2>1
<1>6. ASSUME NEW i \in I, NEW k \in I, rank[i] = rank[k]
      PROVE  i = k
  <2>1. rank[i] \in Nat /\ rank[k] \in Nat
    BY <1>0, <1>3
  <2>2. <<i, k>> \in R /\ <<k, i>> \in R
    BY <1>5, <1>6, <2>1
  <2> QED BY <2>2 DEF IsTotalOrder
<1>7. rank \in Injection(I, 1..c)
  <2>1. rank \in [I -> 1..c]
    BY <1>0, <1>3 DEF RankOf
  <2> HIDE DEF rank, c
  <2> QED BY <1>6, <2>1 DEF Injection, IsInjective
<1>8. IsFiniteSet(1..c) /\ Cardinality(1..c) = c
  BY <1>2, FS_Interval
<1>9. \A i \in I : rank[i] \in 1..c
  BY <1>0, <1>3
<1> HIDE DEF rank
<1>10. rank \in Surjection(I, 1..c)
  BY <1>7, <1>8, FS_Injection DEF c
<1>11. \A k \in 1..c : \E i \in I : rank[i] = k
  BY <1>10 DEF Surjection
<1> QED BY <1>2, <1>5, <1>6, <1>9, <1>11 DEF IsRanking, rank, c

(* A list made of the elements of s at the positions I, in the order R *)
IsLaidOut(t, from, s, I, R) ==
  /\ DOMAIN t = 1..Len(t) /\ Len(t) <= Len(s)
  /\ from \in [DOMAIN t -> I]
  /\ \A k \in DOMAIN t : t[k] = s[from[k]]
  /\ \A k, l \in DOMAIN t : k <= l => <<from[k], from[l]>> \in R
  /\ \A k, l \in DOMAIN t : from[k] = from[l] => k = l
  /\ \A i \in I : \E k \in DOMAIN t : from[k] = i

LEMMA Ranked ==
  ASSUME NEW S, NEW s \in Seq(S), NEW I \in SUBSET (1..Len(s)), NEW R, IsTotalOrder(R, I),
         NEW from \in [1..Cardinality(I) -> I],
         \A k \in 1..Cardinality(I) : RankOf(I, R)[from[k]] = k,
         NEW t, t = [k \in 1..Cardinality(I) |-> s[from[k]]]
  PROVE  t \in Seq(S) /\ IsLaidOut(t, from, s, I, R)
<1> DEFINE n == Cardinality(I)
           rank == RankOf(I, R)
<1>1. Len(s) \in Nat
  BY LenProperties
<1>2. n \in Nat /\ n <= Len(s) /\ IsRanking(rank, I, R, n)
  BY <1>1, Ranks
<1>3. from \in [1..n -> I] /\ \A k \in 1..n : rank[from[k]] = k
  OBVIOUS
<1>4. t = [k \in 1..n |-> s[from[k]]]
  OBVIOUS
<1> HIDE DEF rank, n
<1>5. \A i \in I : rank[i] \in 1..n /\ from[rank[i]] = i
  <2> SUFFICES ASSUME NEW i \in I
               PROVE  rank[i] \in 1..n /\ from[rank[i]] = i
    OBVIOUS
  <2>1. rank[i] \in 1..n
    BY <1>2 DEF IsRanking
  <2>2. from[rank[i]] \in I /\ rank[from[rank[i]]] = rank[i]
    BY <1>3, <2>1
  <2>3. \A j \in I : rank[j] = rank[i] => j = i
    BY <1>2 DEF IsRanking
  <2> QED BY <2>1, <2>2, <2>3
<1>6. \A k \in 1..n : t[k] = s[from[k]] /\ s[from[k]] \in S
  BY <1>1, <1>3, <1>4, ElementOfSeq
<1>7. DOMAIN t = 1..n /\ t \in [1..n -> S]
  BY <1>4, <1>6
<1>8. t \in Seq(S)
  <2>1. n \in Nat /\ t \in [1..n -> S]
    BY <1>2, <1>7
  <2> QED BY ONLY <2>1, SeqDef
<1>9. Len(t) = n
  <2>1. Len(t) \in Nat /\ 1..Len(t) = 1..n
    BY <1>7, <1>8, LenProperties
  <2>2. \A a, b \in Nat : 1..a = 1..b => a = b
    <3> SUFFICES ASSUME NEW a \in Nat, NEW b \in Nat, 1..a = 1..b PROVE a = b
      OBVIOUS
    <3>1. a = 0 \/ a \in 1..b
      OBVIOUS
    <3>2. b = 0 \/ b \in 1..a
      OBVIOUS
    <3>3. (a = 0 => 1 \notin 1..b) /\ (b = 0 => 1 \notin 1..a)
      OBVIOUS
    <3> QED BY <3>1, <3>2, <3>3
  <2>3. n \in Nat
    BY <1>2
  <2> QED BY <2>1, <2>2, <2>3
<1>10. \A k, l \in 1..n : k <= l => <<from[k], from[l]>> \in R
  BY <1>2, <1>3 DEF IsRanking
<1>11. \A k, l \in 1..n : from[k] = from[l] => k = l
  BY <1>3
<1>12. \A i \in I : \E k \in 1..n : from[k] = i
  BY <1>5
<1>13. from \in [DOMAIN t -> I] /\ DOMAIN t = 1..Len(t) /\ Len(t) <= Len(s)
  BY <1>2, <1>3, <1>7, <1>9
<1>14. IsLaidOut(t, from, s, I, R)
  <2>1. DOMAIN t = 1..n
    BY <1>7
  <2>2. \A k \in DOMAIN t : t[k] = s[from[k]]
    BY <1>6, <2>1
  <2>3. \A k, l \in DOMAIN t : k <= l => <<from[k], from[l]>> \in R
    BY <1>10, <2>1
  <2>4. \A k, l \in DOMAIN t : from[k] = from[l] => k = l
    BY <1>11, <2>1
  <2>5. \A i \in I : \E k \in DOMAIN t : from[k] = i
    BY <1>12, <2>1
  <2> QED BY <1>13, <2>2, <2>3, <2>4, <2>5 DEF IsLaidOut
<1> QED BY <1>8, <1>14

(* The positions in their natural order *)
Ascending(I) == {p \in I \X I : p[1] <= p[2]}

LEMMA KeptLayout ==
  ASSUME NEW S, NEW s \in Seq(S), NEW I \in SUBSET DOMAIN s
  PROVE  Kept(s, I) \in Seq(S) /\ \E from : IsLaidOut(Kept(s, I), from, s, I, Ascending(I))
<1> DEFINE R == Ascending(I)
           at(k) == CHOOSE i \in I : Cardinality({j \in I : j <= i}) = k
           from == [k \in 1..Cardinality(I) |-> at(k)]
<1>1. Len(s) \in Nat /\ I \in SUBSET (1..Len(s))
  BY LenProperties
<1>2. \A i, j \in I : <<i, j>> \in R <=> i <= j
  BY DEF Ascending
<1> HIDE DEF R
<1>3. \A i \in I : {j \in I : <<j, i>> \in R} = {j \in I : j <= i}
  BY <1>2
<1>4. IsTotalOrder(R, I)
  BY <1>1, <1>2 DEF IsTotalOrder
<1>5. ASSUME NEW k \in 1..Cardinality(I)
      PROVE  at(k) \in I /\ RankOf(I, R)[at(k)] = k
  <2>1. \E i \in I : Cardinality({j \in I : <<j, i>> \in R}) = k
    <3>1. IsRanking(RankOf(I, R), I, R, Cardinality(I))
      BY <1>1, <1>4, Ranks
    <3>2. PICK i \in I : RankOf(I, R)[i] = k
      BY <3>1 DEF IsRanking
    <3> QED BY <3>2 DEF RankOf
  <2>2. \E i \in I : Cardinality({j \in I : j <= i}) = k
    BY <1>3, <2>1
  <2>3. at(k) \in I /\ Cardinality({j \in I : j <= at(k)}) = k
    BY <2>2
  <2> HIDE DEF at
  <2>4. Cardinality({j \in I : <<j, at(k)>> \in R}) = k
    BY <1>3, <2>3
  <2> QED BY <2>3, <2>4 DEF RankOf
<1>6. Kept(s, I) = [k \in 1..Cardinality(I) |-> s[at(k)]]
  BY DEF Kept
<1> HIDE DEF at
<1>7. Kept(s, I) = [k \in 1..Cardinality(I) |-> s[from[k]]]
  BY <1>6
<1>8. /\ from \in [1..Cardinality(I) -> I]
      /\ \A k \in 1..Cardinality(I) : RankOf(I, R)[from[k]] = k
  BY <1>5
<1> HIDE DEF from
<1>9. Kept(s, I) \in Seq(S) /\ IsLaidOut(Kept(s, I), from, s, I, R)
  BY <1>1, <1>4, <1>7, <1>8, Ranked
<1> QED BY <1>9 DEF R

LEMMA KeptElements ==
  ASSUME NEW S, NEW s \in Seq(S), NEW I \in SUBSET DOMAIN s
  PROVE  /\ Kept(s, I) \in Seq(S)
         /\ Len(Kept(s, I)) <= Len(s)
         /\ Range(Kept(s, I)) = {s[i] : i \in I}
<1> DEFINE t == Kept(s, I)
<1>1. t \in Seq(S)
  BY KeptLayout
<1>2. PICK from : IsLaidOut(t, from, s, I, Ascending(I))
  BY KeptLayout
<1> HIDE DEF t
<1>3. \A k \in DOMAIN t : from[k] \in I /\ t[k] = s[from[k]]
  BY <1>2 DEF IsLaidOut
<1>4. \A i \in I : \E k \in DOMAIN t : t[k] = s[i]
  BY <1>2 DEF IsLaidOut
<1>5. Range(t) = {s[i] : i \in I}
  BY <1>3, <1>4 DEF Range
<1>6. Len(t) <= Len(s)
  BY <1>2 DEF IsLaidOut
<1> QED BY <1>1, <1>5, <1>6 DEF t

LEMMA WithoutElements ==
  ASSUME NEW S, NEW s \in Seq(S), NEW gone
  PROVE  /\ Without(s, gone) \in Seq(S)
         /\ Len(Without(s, gone)) <= Len(s)
         /\ Range(Without(s, gone)) = Range(s) \ gone
<1> DEFINE I == {i \in DOMAIN s : s[i] \notin gone}
<1>1. I \in SUBSET DOMAIN s
  OBVIOUS
<1>2. {s[i] : i \in I} = Range(s) \ gone
  BY DEF Range
<1>3. Without(s, gone) = Kept(s, I)
  BY DEF Without
<1> HIDE DEF I
<1> QED BY <1>1, <1>2, <1>3, KeptElements
=============================================================================
