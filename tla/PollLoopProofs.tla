--------------------------- MODULE PollLoopProofs ---------------------------
(***************************************************************************)
(* What holds of every poller and of every loop, for any set of handles    *)
(* and flags, any number of items and, of a loop, of timers.               *)
(*                                                                         *)
(* Of a poller: its types, the soundness of its index (any client), the    *)
(* exactness of its index and the refinement of WatchSet (until a client   *)
(* adds a monitored handle again).                                         *)
(*                                                                         *)
(* Of a loop: it never sleeps past the deadline of a timer (any client), a *)
(* timer leaves the list only cancelled or spent (while no address waiting *)
(* for its removal is handed out again), and every removal is carried out  *)
(* before the thread sleeps and before a round over the items (if no       *)
(* handler throws).  Its types are kept by any client.                     *)
(***************************************************************************)
EXTENDS Poller, Loop, PollTableProofs

(* The types and the soundness of the index are inductive together: the
   types alone do not say that the position an operation writes to is inside
   the array. *)
LEMMA SoundStep ==
  ASSUME TypeOK, IndexSound, [Next]_vars
  PROVE  TypeOK' /\ IndexSound'
<1> USE DEF TypeOK, IndexSound, Outcome
<1>1. ASSUME NEW h \in Handle, NEW events \in SUBSET Flags, Add(h, events)
      PROVE  TypeOK' /\ IndexSound'
  BY <1>1, AddKeeps DEF Add
<1>2. ASSUME NEW h \in Handle, NEW events \in SUBSET Flags, CheckFor(h, events)
      PROVE  TypeOK' /\ IndexSound'
  BY <1>2, CheckForKeeps DEF CheckFor
<1>3. ASSUME NEW h \in Handle, Remove(h)
      PROVE  TypeOK' /\ IndexSound'
  BY <1>3, RemoveKeeps DEF Remove
<1>4. ASSUME NEW ready \in [Handle -> SUBSET Flags], Poll(ready)
      PROVE  TypeOK' /\ IndexSound'
  BY <1>4, PollKeeps DEF Poll
<1>5. CASE PollInterrupted \/ PollFails
  BY <1>5 DEF PollInterrupted, PollFails
<1>6. CASE UNCHANGED vars
  BY <1>6 DEF vars
<1>7. QED
  BY <1>1, <1>2, <1>3, <1>4, <1>5, <1>6 DEF Next

(* Whatever the client does, the poller keeps its types (poller.cpp:53-205). *)
THEOREM TypeCorrect == Spec => []TypeOK
<1>1. Init => TypeOK /\ IndexSound
  BY InitTable DEF Init, TypeOK, IndexSound, Outcome
<1>2. TypeOK /\ IndexSound /\ [Next]_vars => (TypeOK /\ IndexSound)'
  BY SoundStep
<1>3. QED
  BY <1>1, <1>2, PTL DEF Spec

(* Whatever the client does, duplicates and failed removals included, an
   index entry leads to an item of its own handle (poller.cpp:152-242). *)
THEOREM IndexAlwaysSound == Spec => []IndexSound
<1>1. Init => TypeOK /\ IndexSound
  BY InitTable DEF Init, TypeOK, IndexSound, Outcome
<1>2. TypeOK /\ IndexSound /\ [Next]_vars => (TypeOK /\ IndexSound)'
  BY SoundStep
<1>3. QED
  BY <1>1, <1>2, PTL DEF Spec

(* Exactness is preserved while no handle is added twice; the removal then
   never fails. *)
LEMMA ExactStep ==
  ASSUME TypeOK, IndexSound, IndexExact, [Next]_vars
  PROVE  IndexExact'
<1> USE DEF TypeOK, IndexSound, IndexExact
<1>1. ASSUME NEW h \in Handle, NEW events \in SUBSET Flags, Add(h, events)
      PROVE  IndexExact'
  BY <1>1, AddKeeps DEF Add
<1>2. ASSUME NEW h \in Handle, NEW events \in SUBSET Flags, CheckFor(h, events)
      PROVE  IndexExact'
  BY <1>2, CheckForKeeps DEF CheckFor
<1>3. ASSUME NEW h \in Handle, Remove(h)
      PROVE  IndexExact'
  BY <1>3, RemoveKeeps DEF Remove
<1>4. ASSUME NEW ready \in [Handle -> SUBSET Flags], Poll(ready)
      PROVE  IndexExact'
  BY <1>4, PollKeeps DEF Poll
<1>5. CASE PollInterrupted \/ PollFails
  BY <1>5 DEF PollInterrupted, PollFails
<1>6. CASE UNCHANGED vars
  BY <1>6 DEF vars
<1>7. QED
  BY <1>1, <1>2, <1>3, <1>4, <1>5, <1>6 DEF Next

(* Until the client adds a monitored handle again, the two maps are the exact
   inverse of the array handed to zmq_poll (poller.cpp:53-142). *)
THEOREM IndexAlwaysExact == Spec => []IndexExact
<1>1. Init => TypeOK /\ IndexSound /\ IndexExact
  BY InitTable DEF Init, TypeOK, IndexSound, IndexExact, Outcome
<1>2. TypeOK /\ IndexSound /\ IndexExact /\ [Next]_vars
      => (TypeOK /\ IndexSound /\ IndexExact)'
  BY SoundStep, ExactStep
<1>3. QED
  BY <1>1, <1>2, PTL DEF Spec

-----------------------------------------------------------------------------
(* While the client keeps its part, a step of the poller is an operation on
   the watch set. *)
LEMMA OperationStep ==
  ASSUME TypeOK, IndexSound, Exact(poller), doubled' = FALSE, doubled = FALSE, Next
  PROVE  Watch!Operation
<1> USE DEF TypeOK, IndexSound
<1> DEFINE seen == View(poller)
<1>0. /\ seen' = View(poller')
      /\ DOMAIN seen = DOMAIN poller.index
  BY DEF View
<1>1. ASSUME NEW h \in Handle, NEW events \in SUBSET Flags, Add(h, events)
      PROVE  Watch!Start(h, events)
  <2>1. h \notin DOMAIN seen /\ outcome' = "ok"
    BY <1>0, <1>1 DEF Add, PollHas
  <2>2. seen' = [k \in DOMAIN seen \cup {h} |->
                   IF k = h THEN [events |-> events, revents |-> {}] ELSE seen[k]]
    <3>1. seen' = View(PollAdd(poller, h, events))
      BY <1>0, <1>1 DEF Add
    <3>2. QED
      BY <3>1, AddView, SMTT(30)
  <2>3. QED
    BY <2>1, <2>2 DEF Watch!Start
<1>2. ASSUME NEW h \in Handle, NEW events \in SUBSET Flags, CheckFor(h, events)
      PROVE  Watch!ChangeEvents(h, events) \/ Watch!RefuseUnknown(h)
  <2>1. CASE PollHas(poller, h)
    <3>1. seen' = [seen EXCEPT ![h].events = events]
      BY <1>0, <1>2, <2>1, CheckForView DEF CheckFor
    <3>2. h \in DOMAIN seen /\ outcome' = "ok"
      BY <1>0, <1>2, <2>1 DEF CheckFor, PollHas
    <3>3. QED
      BY <3>1, <3>2 DEF Watch!ChangeEvents
  <2>2. CASE ~PollHas(poller, h)
    <3>1. h \notin DOMAIN seen /\ outcome' = "not represented" /\ seen' = seen
      BY <1>0, <1>2, <2>2 DEF CheckFor, PollHas
    <3>2. QED
      BY <3>1 DEF Watch!RefuseUnknown
  <2>3. QED
    BY <2>1, <2>2
<1>3. ASSUME NEW h \in Handle, Remove(h)
      PROVE  Watch!Stop(h)
  <2>1. seen' = Restrict(seen, DOMAIN seen \ {h})
    BY <1>0, <1>3, RemoveView DEF Remove
  <2>2. outcome' = "ok"
    BY <1>3, RemoveKeeps DEF Remove
  <2>3. QED
    BY <2>1, <2>2 DEF Watch!Stop, Watch!Restrict, Restrict
<1>4. ASSUME NEW ready \in [Handle -> SUBSET Flags], Poll(ready)
      PROVE  Watch!Observe(ready)
  <2>1. seen' = [h \in DOMAIN seen |->
                   [seen[h] EXCEPT !.revents = Reported(h, seen[h].events, ready)]]
    BY <1>0, <1>4, PollView DEF Poll
  <2>2. outcome' = IF \E h \in DOMAIN seen : seen'[h].revents # {}
                   THEN "true" ELSE "false"
    BY <1>0, <1>4, PollAnswer DEF Poll
  <2>3. QED
    BY <2>1, <2>2 DEF Watch!Observe, Watch!Reported, Reported
<1>5. ASSUME PollInterrupted \/ PollFails
      PROVE  Watch!ObserveNothing
  BY <1>0, <1>5 DEF PollInterrupted, PollFails, Watch!ObserveNothing
<1>6. QED
  BY <1>1, <1>2, <1>3, <1>4, <1>5 DEF Next, Watch!Operation, Watch!Handle, Handle

LEMMA WatchStep ==
  ASSUME TypeOK, IndexSound, IndexExact, [Next]_vars
  PROVE  [Watch!Next]_(Watch!watchVars)
<1>1. CASE UNCHANGED vars
  BY <1>1 DEF vars, Watch!watchVars, View
<1>2. CASE Next /\ doubled
  <2>1. UNCHANGED doubled
    BY <1>2 DEF Next, Add, CheckFor, Remove, Poll, PollInterrupted, PollFails
  <2>2. QED
    BY <1>2, <2>1 DEF Watch!Next
<1>3. CASE Next /\ ~doubled /\ doubled'
  <2>1. PICK h \in Handle, events \in SUBSET Flags : Add(h, events)
    BY <1>3 DEF Next, Add, CheckFor, Remove, Poll, PollInterrupted, PollFails
  <2>2. h \in DOMAIN View(poller) /\ doubled' = TRUE
    BY <1>3, <2>1 DEF Add, PollHas, View
  <2>3. Watch!AddAgain
    BY <2>2 DEF Watch!AddAgain, Watch!Handle, Handle
  <2>4. QED
    BY <1>3, <2>3 DEF Watch!Next
<1>4. CASE Next /\ ~doubled /\ ~doubled'
  <2>1. doubled = FALSE /\ doubled' = FALSE /\ Exact(poller)
    BY <1>4, SoundStep DEF TypeOK, IndexExact
  <2>2. Watch!Operation
    BY <1>4, <2>1, OperationStep
  <2>3. QED
    BY <1>4, <2>1, <2>2 DEF Watch!Next
<1>5. QED
  BY <1>1, <1>2, <1>3, <1>4


(* Until the client adds a monitored handle again, the poller
   implements the watch set: operations on one handle leave the others alone,
   remove never fails in reindex, poll answers for the watched handles only
   (poller.cpp:53-242). *)
THEOREM PollerImplementsWatchSet == Spec => ImplementsWatchSet
<1>1. Init => TypeOK /\ IndexSound /\ IndexExact
  BY InitTable DEF Init, TypeOK, IndexSound, IndexExact, Outcome
<1>2. Init => Watch!Init
  BY DEF Init, Watch!Init, View, EmptyPoller
<1>3. TypeOK /\ IndexSound /\ IndexExact /\ [Next]_vars
      => (TypeOK /\ IndexSound /\ IndexExact)'
  BY SoundStep, ExactStep
<1>4. TypeOK /\ IndexSound /\ IndexExact /\ [Next]_vars
      => [Watch!Next]_(Watch!watchVars)
  BY WatchStep
<1>5. QED
  BY <1>1, <1>2, <1>3, <1>4, PTL DEF Spec, ImplementsWatchSet, Watch!Spec

-----------------------------------------------------------------------------
(* The loop's list of timers.  What erase, remove_if and sort make of a list
   is described by where its elements come from, as in IsLaidOut. *)

(* No two timers of a list share their serial or their address. *)
Distinct(ts) ==
  \A i, j \in DOMAIN ts : ts[i].serial = ts[j].serial \/ ts[i].id = ts[j].id => i = j

Sorted(ts) == \A i, j \in DOMAIN ts : i <= j => ts[i].when <= ts[j].when

(* The timers of us are timers of ts, perhaps with another deadline or number
   of repetitions left, each there once. *)
DrawnBy(us, from, ts) ==
  /\ \A k \in DOMAIN us : /\ from[k] \in DOMAIN ts
                          /\ us[k].serial = ts[from[k]].serial
                          /\ us[k].id = ts[from[k]].id
  /\ \A k, l \in DOMAIN us : from[k] = from[l] => k = l

Drawn(us, ts) == \E from : DrawnBy(us, from, ts)

LEMMA DrawnKeeps ==
  ASSUME NEW us, NEW ts, Drawn(us, ts)
  PROVE  /\ Distinct(ts) => Distinct(us)
         /\ Serials(us) \subseteq Serials(ts)
         /\ \A k \in DOMAIN us : \E i \in DOMAIN ts :
              us[k].serial = ts[i].serial /\ us[k].id = ts[i].id
<1>1. PICK from : DrawnBy(us, from, ts)
  BY DEF Drawn
<1>2. \A k \in DOMAIN us : \E i \in DOMAIN ts :
        us[k].serial = ts[i].serial /\ us[k].id = ts[i].id
  BY <1>1 DEF DrawnBy
<1>3. Serials(us) \subseteq Serials(ts)
  BY <1>2 DEF Serials
<1>4. Distinct(ts) => Distinct(us)
  BY <1>1 DEF DrawnBy, Distinct
<1> QED BY <1>2, <1>3, <1>4

LEMMA UnchangedDrawn ==
  ASSUME NEW ts
  PROVE  Drawn(ts, ts)
<1> DEFINE from == [k \in DOMAIN ts |-> k]
<1>1. \A k \in DOMAIN ts : from[k] = k
  OBVIOUS
<1> HIDE DEF from
<1>2. DrawnBy(ts, from, ts)
  BY <1>1 DEF DrawnBy
<1> QED BY <1>2 DEF Drawn

LEMMA DrawnTwice ==
  ASSUME NEW us, NEW ts, NEW vs, Drawn(us, ts), Drawn(vs, us)
  PROVE  Drawn(vs, ts)
<1>1. PICK f : DrawnBy(us, f, ts)
  BY DEF Drawn
<1>2. PICK g : DrawnBy(vs, g, us)
  BY DEF Drawn
<1> DEFINE h == [k \in DOMAIN vs |-> f[g[k]]]
<1>3. \A k \in DOMAIN vs : h[k] = f[g[k]]
  OBVIOUS
<1> HIDE DEF h
<1>4. DrawnBy(vs, h, ts)
  BY <1>1, <1>2, <1>3 DEF DrawnBy
<1> QED BY <1>4 DEF Drawn

-----------------------------------------------------------------------------
(* The order in which list::sort puts the positions of a list *)
ByDeadline(ts) ==
  {p \in (DOMAIN ts) \X (DOMAIN ts) :
     \/ ts[p[1]].when < ts[p[2]].when
     \/ ts[p[1]].when = ts[p[2]].when /\ p[1] <= p[2]}

LEMMA SortLayout ==
  ASSUME NEW ts \in Seq(Timer)
  PROVE  Sort(ts) \in Seq(Timer)
         /\ \E from : IsLaidOut(Sort(ts), from, ts, DOMAIN ts, ByDeadline(ts))
<1> DEFINE I == DOMAIN ts
           R == ByDeadline(ts)
           n == Cardinality(I)
           sooner(i) == {j \in I : \/ ts[j].when < ts[i].when
                                   \/ ts[j].when = ts[i].when /\ j <= i}
           at(k) == CHOOSE i \in I : Cardinality(sooner(i)) = k
           from == [k \in 1..n |-> at(k)]
<1>1. Len(ts) \in Nat /\ I = 1..Len(ts) /\ \A i \in I : ts[i] \in Timer
  BY LenProperties, ElementOfSeq
<1>2. \A i \in I : ts[i].when \in Nat
  BY <1>1 DEF Timer
<1>3. \A i, j \in I : <<i, j>> \in R <=> \/ ts[i].when < ts[j].when
                                         \/ ts[i].when = ts[j].when /\ i <= j
  BY DEF ByDeadline
<1>4. n = Len(ts)
  <2> DEFINE l == Len(ts)
  <2>1. l \in Nat /\ n = Cardinality(1..l)
    BY <1>1
  <2> HIDE DEF l, n
  <2>2. Cardinality(1..l) = IF 1 > l THEN 0 ELSE l - 1 + 1
    BY <2>1, FS_Interval
  <2>3. n = l
    BY <2>1, <2>2
  <2> QED BY <2>3 DEF l
<1> HIDE DEF R, I
<1>5. \A i \in I : {j \in I : <<j, i>> \in R} = sooner(i)
  BY <1>3
<1>6. IsTotalOrder(R, I)
  <2>1. \A i \in I : i \in Int
    BY <1>1
  <2> DEFINE when(i) == ts[i].when
  <2>2. \A i \in I : when(i) \in Nat
    BY <1>2
  <2>3. \A i, j \in I : <<i, j>> \in R <=> \/ when(i) < when(j)
                                           \/ when(i) = when(j) /\ i <= j
    BY <1>3
  <2> HIDE DEF when
  <2>4. \A i \in I : <<i, i>> \in R
    BY <2>1, <2>3
  <2>5. \A i, j, k \in I : <<i, j>> \in R /\ <<j, k>> \in R => <<i, k>> \in R
    BY <2>1, <2>2, <2>3, SMTT(30)
  <2>6. \A i, j \in I : <<i, j>> \in R /\ <<j, i>> \in R => i = j
    BY <2>1, <2>2, <2>3
  <2>7. ASSUME NEW i \in I, NEW j \in I
        PROVE  <<i, j>> \in R \/ <<j, i>> \in R
    <3>1. i \in Int /\ j \in Int /\ when(i) \in Nat /\ when(j) \in Nat
      BY <2>1, <2>2
    <3>2. when(i) < when(j) \/ when(j) < when(i) \/ when(i) = when(j)
      BY <3>1
    <3>3. i <= j \/ j <= i
      BY <3>1
    <3> QED BY <2>3, <3>2, <3>3
  <2> QED BY <2>4, <2>5, <2>6, <2>7 DEF IsTotalOrder
<1>7. Sort(ts) = [k \in I |-> ts[at(k)]]
  BY DEF Sort, I
<1>8. ASSUME NEW k \in 1..n
      PROVE  at(k) \in I /\ RankOf(I, R)[at(k)] = k
  <2>1. IsRanking(RankOf(I, R), I, R, n)
    <3>1. I \in SUBSET (1..Len(ts))
      BY <1>1
    <3> HIDE DEF n
    <3>2. IsRanking(RankOf(I, R), I, R, Cardinality(I))
      BY <1>1, <1>6, <3>1, Ranks
    <3> QED BY <3>2 DEF n
  <2>2. PICK i \in I : RankOf(I, R)[i] = k
    BY <2>1 DEF IsRanking
  <2>3. Cardinality(sooner(i)) = k
    BY <1>5, <2>2 DEF RankOf
  <2> HIDE DEF sooner
  <2>4. at(k) \in I /\ Cardinality(sooner(at(k))) = k
    BY <2>3
  <2> HIDE DEF at
  <2> QED BY <1>5, <2>4 DEF RankOf
<1> HIDE DEF at
<1>9. from \in [1..n -> I] /\ \A k \in 1..n : RankOf(I, R)[from[k]] = k
  BY <1>8
<1>10. Sort(ts) = [k \in 1..n |-> ts[from[k]]]
  BY <1>1, <1>4, <1>7
<1> HIDE DEF from
<1>11. I \in SUBSET (1..Len(ts))
  BY <1>1
<1>12. Sort(ts) \in Seq(Timer) /\ IsLaidOut(Sort(ts), from, ts, I, R)
  BY <1>6, <1>9, <1>10, <1>11, Ranked DEF n
<1> QED BY <1>12 DEF R, I

(* sort: the same timers, in the order of their deadlines *)
LEMMA SortTimers ==
  ASSUME NEW ts \in Seq(Timer)
  PROVE  /\ Sort(ts) \in Seq(Timer) /\ Drawn(Sort(ts), ts) /\ Sorted(Sort(ts))
         /\ Serials(Sort(ts)) = Serials(ts)
         /\ \A k \in DOMAIN Sort(ts) : \E i \in DOMAIN ts : Sort(ts)[k] = ts[i]
<1> DEFINE us == Sort(ts)
<1>1. us \in Seq(Timer)
  BY SortLayout
<1>2. PICK from : IsLaidOut(us, from, ts, DOMAIN ts, ByDeadline(ts))
  BY SortLayout
<1> HIDE DEF us
<1>3. \A k \in DOMAIN us : from[k] \in DOMAIN ts /\ us[k] = ts[from[k]]
  BY <1>2 DEF IsLaidOut
<1>4. Drawn(us, ts)
  <2>1. DrawnBy(us, from, ts)
    BY <1>2, <1>3 DEF IsLaidOut, DrawnBy
  <2> QED BY <2>1 DEF Drawn
<1>5. \A i \in DOMAIN ts : \E k \in DOMAIN us : us[k] = ts[i]
  BY <1>2, <1>3 DEF IsLaidOut
<1>6. Serials(us) = Serials(ts)
  BY <1>3, <1>5 DEF Serials
<1>7. Sorted(us)
  <2> SUFFICES ASSUME NEW k \in DOMAIN us, NEW l \in DOMAIN us, k <= l
               PROVE  us[k].when <= us[l].when
    BY DEF Sorted
  <2>1. <<from[k], from[l]>> \in ByDeadline(ts)
    BY <1>2 DEF IsLaidOut
  <2>2. ts[from[k]].when < ts[from[l]].when \/ ts[from[k]].when = ts[from[l]].when
    BY <2>1 DEF ByDeadline
  <2>3. ts[from[k]].when = us[k].when /\ ts[from[l]].when = us[l].when
    BY <1>3
  <2>4. us[k] \in Timer /\ us[l] \in Timer
    BY <1>1, ElementOfSeq, LenProperties
  <2>5. us[k].when \in Nat /\ us[l].when \in Nat
    BY <2>4 DEF Timer
  <2> QED BY <2>2, <2>3, <2>5
<1> QED BY <1>1, <1>3, <1>4, <1>6, <1>7 DEF us

(* remove_if: the order stays *)
LEMMA KeptTimers ==
  ASSUME NEW ts \in Seq(Timer), NEW I \in SUBSET DOMAIN ts
  PROVE  /\ Kept(ts, I) \in Seq(Timer) /\ Drawn(Kept(ts, I), ts)
         /\ Sorted(ts) => Sorted(Kept(ts, I))
         /\ \A k \in DOMAIN Kept(ts, I) : \E i \in I : Kept(ts, I)[k] = ts[i]
         /\ \A i \in I : \E k \in DOMAIN Kept(ts, I) : Kept(ts, I)[k] = ts[i]
<1> DEFINE us == Kept(ts, I)
<1>1. us \in Seq(Timer)
  BY KeptLayout
<1>2. PICK from : IsLaidOut(us, from, ts, I, Ascending(I))
  BY KeptLayout
<1> HIDE DEF us
<1>3. \A k \in DOMAIN us : from[k] \in I /\ us[k] = ts[from[k]]
  BY <1>2 DEF IsLaidOut
<1>4. Drawn(us, ts)
  <2>1. DrawnBy(us, from, ts)
    BY <1>2, <1>3 DEF IsLaidOut, DrawnBy
  <2> QED BY <2>1 DEF Drawn
<1>5. \A i \in I : \E k \in DOMAIN us : us[k] = ts[i]
  BY <1>2, <1>3 DEF IsLaidOut
<1>6. ASSUME Sorted(ts) PROVE Sorted(us)
  <2> SUFFICES ASSUME NEW k \in DOMAIN us, NEW l \in DOMAIN us, k <= l
               PROVE  us[k].when <= us[l].when
    BY DEF Sorted
  <2>1. <<from[k], from[l]>> \in Ascending(I)
    BY <1>2 DEF IsLaidOut
  <2>2. from[k] <= from[l]
    BY <2>1 DEF Ascending
  <2> QED BY <1>3, <1>6, <2>2 DEF Sorted
<1> QED BY <1>1, <1>3, <1>4, <1>5, <1>6 DEF us

(* erase of one *)
LEMMA RemovedTimer ==
  ASSUME NEW ts \in Seq(Timer), NEW i \in DOMAIN ts
  PROVE  /\ Erase(ts, i) \in Seq(Timer) /\ Drawn(Erase(ts, i), ts)
         /\ Sorted(ts) => Sorted(Erase(ts, i))
         /\ \A k \in DOMAIN Erase(ts, i) : \E j \in DOMAIN ts \ {i} : Erase(ts, i)[k] = ts[j]
         /\ \A j \in DOMAIN ts \ {i} : \E k \in DOMAIN Erase(ts, i) : Erase(ts, i)[k] = ts[j]
<1> DEFINE I == DOMAIN ts \ {i}
<1>1. Erase(ts, i) = Kept(ts, I) /\ I \in SUBSET DOMAIN ts
  BY DEF Erase
<1> HIDE DEF I
<1>2. /\ Kept(ts, I) \in Seq(Timer) /\ Drawn(Kept(ts, I), ts)
      /\ Sorted(ts) => Sorted(Kept(ts, I))
      /\ \A k \in DOMAIN Kept(ts, I) : \E j \in I : Kept(ts, I)[k] = ts[j]
      /\ \A j \in I : \E k \in DOMAIN Kept(ts, I) : Kept(ts, I)[k] = ts[j]
  BY <1>1, KeptTimers
<1> QED BY <1>1, <1>2 DEF I

(* A change of deadline or repetitions *)
LEMMA ChangedTimer ==
  ASSUME NEW ts \in Seq(Timer), NEW i \in DOMAIN ts, NEW t \in Timer,
         t.serial = ts[i].serial, t.id = ts[i].id
  PROVE  LET us == [ts EXCEPT ![i] = t]
         IN /\ us \in Seq(Timer) /\ Drawn(us, ts) /\ DOMAIN us = DOMAIN ts
            /\ Len(us) = Len(ts)
            /\ \A k \in DOMAIN ts : us[k].serial = ts[k].serial /\ us[k].id = ts[k].id
            /\ Serials(us) = Serials(ts)
<1> DEFINE us == [ts EXCEPT ![i] = t]
<1>1. DOMAIN ts = 1..Len(ts)
  BY LenProperties
<1>2. us \in Seq(Timer) /\ Len(us) = Len(ts)
  BY <1>1, ExceptSeq
<1>3. /\ DOMAIN us = DOMAIN ts
      /\ \A k \in DOMAIN ts : us[k].serial = ts[k].serial /\ us[k].id = ts[k].id
  OBVIOUS
<1> HIDE DEF us
<1>4. Drawn(us, ts)
  <2>1. DrawnBy(ts, [k \in DOMAIN ts |-> k], ts)
    BY DEF DrawnBy
  <2>2. DrawnBy(us, [k \in DOMAIN ts |-> k], ts)
    BY <1>3 DEF DrawnBy
  <2> QED BY <2>2 DEF Drawn
<1>5. Serials(us) = Serials(ts)
  BY <1>3 DEF Serials
<1> QED BY <1>2, <1>3, <1>4, <1>5 DEF us

(* Another timer *)
LEMMA AppendedTimer ==
  ASSUME NEW ts \in Seq(Timer), NEW t \in Timer,
         \A i \in DOMAIN ts : ts[i].serial # t.serial /\ ts[i].id # t.id
  PROVE  LET us == Append(ts, t)
         IN /\ us \in Seq(Timer)
            /\ Distinct(ts) => Distinct(us)
            /\ Serials(us) = Serials(ts) \cup {t.serial}
            /\ \A k \in DOMAIN us : us[k] = t \/ \E i \in DOMAIN ts : us[k] = ts[i]
<1> DEFINE n == Len(ts)
           us == Append(ts, t)
<1>1. n \in Nat /\ DOMAIN ts = 1..n
  BY LenProperties
<1>2. /\ us \in Seq(Timer) /\ Len(us) = n + 1
      /\ \A k \in 1..n : us[k] = ts[k]
      /\ us[n + 1] = t
  BY AppendProperties
<1>3. DOMAIN us = 1..n + 1
  BY <1>2, LenProperties
<1> HIDE DEF us, n
<1>4. DOMAIN us = DOMAIN ts \cup {n + 1}
  BY <1>1, <1>3
<1>5. \A k \in DOMAIN us : us[k] = t \/ \E i \in DOMAIN ts : us[k] = ts[i]
  BY <1>1, <1>2, <1>4
<1>6. Serials(us) = Serials(ts) \cup {t.serial}
  BY <1>1, <1>2, <1>4 DEF Serials
<1>7. Distinct(ts) => Distinct(us)
  BY <1>1, <1>2, <1>4 DEF Distinct
<1> QED BY <1>2, <1>5, <1>6, <1>7 DEF us

(* The timer an iterator is at, and the one ++ takes it to *)
LEMMA PositionOf ==
  ASSUME NEW ts, NEW s \in Serials(ts)
  PROVE  Position(ts, s) \in DOMAIN ts /\ ts[Position(ts, s)].serial = s
<1>1. \E i \in DOMAIN ts : ts[i].serial = s
  BY DEF Serials
<1> QED BY <1>1 DEF Position

LEMMA NextStays ==
  ASSUME NEW ts \in Seq(Timer), NEW i \in Nat
  PROVE  NextOf(ts, i) = NoTimer \/ \E j \in DOMAIN ts \ {i} : NextOf(ts, i) = ts[j].serial
<1>1. Len(ts) \in Nat /\ DOMAIN ts = 1..Len(ts)
  BY LenProperties
<1>2. CASE i < Len(ts)
  <2>1. i + 1 \in DOMAIN ts \ {i}
    BY <1>1, <1>2
  <2> QED BY <1>2, <2>1 DEF NextOf
<1>3. CASE ~(i < Len(ts))
  BY <1>3 DEF NextOf
<1> QED BY <1>2, <1>3

LEMMA RenewTimer ==
  ASSUME NEW t \in Timer
  PROVE  Renew(t) \in Timer /\ Renew(t).serial = t.serial /\ Renew(t).id = t.id
<1> DEFINE w == t.when + t.delay
           n == IF t.times = 0 THEN 0 ELSE t.times - 1
<1>1. t.when \in Nat /\ t.delay \in Nat /\ t.times \in Nat
  BY DEF Timer
<1>2. w \in Nat /\ n \in Nat
  BY <1>1
<1>3. Renew(t) = [t EXCEPT !.when = w, !.times = n]
  BY DEF Renew
<1> HIDE DEF w, n
<1> QED BY <1>2, <1>3 DEF Timer

-----------------------------------------------------------------------------
(* What holds of the list of timers whatever the client does: each timer is
   there once and at an address of its own, and the iterator of
   start_handle_timers is at one of them. *)
TimerInv ==
  /\ timers \in Seq(Timer) /\ Distinct(timers) /\ timerRemoveLater \in Seq(Addr)
  /\ now \in Nat /\ wake \in Nat /\ adds \in 0..MaxAdds
  /\ Serials(timers) \subseteq 1..adds /\ cancelled \subseteq 1..adds
  /\ pc \in {"timers", "timer handler", "sockets", "socket handler"} => dispatching
  /\ \/ pc = "timers" /\ it = NoTimer
     \/ pc \in {"timers", "timer handler"} => it \in Serials(timers)

(* The steps that leave the timers alone *)
TimersStay ==
  /\ timers' = timers /\ timerRemoveLater' = timerRemoveLater
  /\ cancelled' = cancelled /\ adds' = adds

StepOfTimers ==
  \/ \E delay \in Delays, times \in Times : AddTimer(delay, times)
  \/ \E i \in DOMAIN timers : ResetTimer(i) \/ RemoveTimer(i)
  \/ Top
  \/ Leave
  \/ \E ret \in BOOLEAN : TimerReturns(ret)
  \/ TimersEnd

LEMMA QuietSteps ==
  ASSUME [LoopNext]_loopVars
  PROVE  StepOfTimers \/ TimersStay
<1> USE DEF TimersStay, history, later, locals, itemVars
<1>1. ASSUME NEW h \in Handle, AddItem(h, Flags) \/ RemoveItem(h)
      PROVE  TimersStay
  BY <1>1 DEF AddItem, RemoveItem
<1>2. CASE Start \/ FlushUndefined \/ PollReturnsNothing \/ PollThrows \/ RunTimer
  BY <1>2 DEF Start, FlushUndefined, PollReturnsNothing, BeginTimers, PollThrows, RunTimer
<1>3. CASE Dispatch \/ SocketsEnd \/ HandlerThrows \/ Tick
  BY <1>3 DEF Dispatch, SocketsEnd, HandlerThrows, Tick
<1>4. ASSUME NEW ready \in [Handle -> SUBSET Flags], PollReturns(ready)
      PROVE  TimersStay
  BY <1>4 DEF PollReturns, BeginTimers
<1>5. ASSUME NEW ret \in BOOLEAN, SocketReturns(ret)
      PROVE  TimersStay
  BY <1>5 DEF SocketReturns
<1>6. CASE Undefined \/ UNCHANGED loopVars
  BY <1>6 DEF Undefined, loopVars
<1> QED BY <1>1, <1>2, <1>3, <1>4, <1>5, <1>6
        DEF LoopNext, ClientCall, InsideStart, StepOfTimers

LEMMA FlushedTimers ==
  ASSUME TimerInv, Flush
  PROVE  /\ timers' \in Seq(Timer) /\ Drawn(timers', timers)
         /\ Sorted(timers) => Sorted(timers')
         /\ \A i \in DOMAIN timers :
              \/ timers[i].serial \in Serials(timers')
              \/ timers[i].id \in Range(timerRemoveLater)
         /\ ~dispatching => \A k \in DOMAIN timers' :
              \E i \in DOMAIN timers : /\ timers'[k] = timers[i]
                                       /\ timers[i].id \notin Range(timerRemoveLater)
<1> DEFINE I == {i \in DOMAIN timers : timers[i].id \notin Range(timerRemoveLater)}
<1>1. CASE dispatching
  <2>1. timers' = timers
    BY <1>1 DEF Flush
  <2>2. Drawn(timers, timers)
    BY UnchangedDrawn
  <2>4. \A i \in DOMAIN timers : timers[i].serial \in Serials(timers)
    BY DEF Serials
  <2> QED BY <1>1, <2>1, <2>2, <2>4 DEF TimerInv
<1>2. CASE ~dispatching
  <2>1. timers' = Kept(timers, I)
    BY <1>2 DEF Flush
  <2>2. I \in SUBSET DOMAIN timers
    OBVIOUS
  <2>3. \A i \in I : timers[i].id \notin Range(timerRemoveLater)
    OBVIOUS
  <2>4. \A i \in DOMAIN timers : i \in I \/ timers[i].id \in Range(timerRemoveLater)
    OBVIOUS
  <2> HIDE DEF I
  <2>5. /\ timers' \in Seq(Timer) /\ Drawn(timers', timers)
        /\ Sorted(timers) => Sorted(timers')
        /\ \A k \in DOMAIN timers' : \E i \in I : timers'[k] = timers[i]
        /\ \A i \in I : \E k \in DOMAIN timers' : timers'[k] = timers[i]
    BY <2>1, <2>2, KeptTimers DEF TimerInv
  <2>6. \A i \in I : timers[i].serial \in Serials(timers')
    BY <2>5 DEF Serials
  <2> QED BY <1>2, <2>2, <2>3, <2>4, <2>5, <2>6
<1> QED BY <1>1, <1>2

(* The timer add(delay, times) makes, and what the list becomes *)
LEMMA AddedTimer ==
  ASSUME TimerInv, NEW delay \in Delays, NEW times \in Times, AddTimer(delay, times)
  PROVE  /\ timers' \in Seq(Timer) /\ Distinct(timers') /\ Sorted(timers')
         /\ adds' = adds + 1 /\ adds' \in 0..MaxAdds
         /\ Serials(timers') = Serials(timers) \cup {adds'}
         /\ \A k \in DOMAIN timers' :
              \/ \E i \in DOMAIN timers : timers'[k] = timers[i]
              \/ ReuseAddr \/ timers'[k].id \notin Range(timerRemoveLater)
         /\ \A k \in DOMAIN timers' :
              \/ \E i \in DOMAIN timers : timers'[k] = timers[i]
              \/ timers'[k].serial = adds'
<1>0. timers \in Seq(Timer) /\ Distinct(timers) /\ now \in Nat /\ adds \in 0..MaxAdds
  BY DEF TimerInv
<1>1. adds' = adds + 1 /\ adds' \in 1..MaxAdds /\ adds \in Nat
  <2>1. MaxAdds \in Nat /\ adds < MaxAdds /\ adds' = adds + 1
    BY LoopAssumption DEF AddTimer
  <2> QED BY <1>0, <2>1
<1>2. PICK id \in Addr :
        /\ \A i \in DOMAIN timers : timers[i].id # id
        /\ ReuseAddr \/ id \notin Range(timerRemoveLater)
        /\ timers' = Insert(timers, [serial |-> adds', id |-> id, times |-> times,
                                     delay |-> delay, when |-> now + delay])
  BY DEF AddTimer
<1> DEFINE t == [serial |-> adds', id |-> id, times |-> times,
                 delay |-> delay, when |-> now + delay]
<1>3. t \in Timer /\ t.serial = adds' /\ t.id = id
  <2>1. delay \in Nat /\ times \in Nat
    BY LoopAssumption
  <2>2. now + delay \in Nat
    BY <1>0, <2>1
  <2> QED BY <1>1, <2>1, <2>2 DEF Timer, Serial
<1>4. timers' = Sort(Append(timers, t))
  BY <1>2 DEF Insert
<1> HIDE DEF t
<1>5. \A i \in DOMAIN timers : timers[i].serial # t.serial /\ timers[i].id # t.id
  <2>1. \A i \in DOMAIN timers : timers[i].serial \in 1..adds
    BY DEF TimerInv, Serials
  <2>2. adds' \notin 1..adds
    BY <1>1
  <2> QED BY <1>2, <1>3, <2>1, <2>2
<1> DEFINE us == Append(timers, t)
<1>6. /\ us \in Seq(Timer) /\ Distinct(us)
      /\ Serials(us) = Serials(timers) \cup {adds'}
      /\ \A k \in DOMAIN us : us[k] = t \/ \E i \in DOMAIN timers : us[k] = timers[i]
  BY <1>0, <1>3, <1>5, AppendedTimer
<1> HIDE DEF us
<1>7. /\ timers' \in Seq(Timer) /\ Drawn(timers', us) /\ Sorted(timers')
      /\ Serials(timers') = Serials(us)
      /\ \A k \in DOMAIN timers' : \E i \in DOMAIN us : timers'[k] = us[i]
  BY <1>4, <1>6, SortTimers DEF us
<1>8. Distinct(timers')
  BY <1>6, <1>7, DrawnKeeps
<1>9. \A k \in DOMAIN timers' :
        timers'[k] = t \/ \E i \in DOMAIN timers : timers'[k] = timers[i]
  BY <1>6, <1>7
<1> QED BY <1>1, <1>2, <1>3, <1>6, <1>7, <1>8, <1>9, SMTT(30)

LEMMA ResettedTimer ==
  ASSUME TimerInv, NEW i \in DOMAIN timers, ResetTimer(i)
  PROVE  /\ timers' \in Seq(Timer) /\ Drawn(timers', timers) /\ Sorted(timers')
         /\ Serials(timers') = Serials(timers)
<1> DEFINE t == [timers[i] EXCEPT !.when = now + timers[i].delay]
           us == [timers EXCEPT ![i] = t]
<1>1. timers[i] \in Timer
  BY LenProperties, ElementOfSeq DEF TimerInv
<1>2. t \in Timer /\ t.serial = timers[i].serial /\ t.id = timers[i].id
  <2>1. now \in Nat /\ timers[i].delay \in Nat
    BY <1>1 DEF TimerInv, Timer
  <2>2. now + timers[i].delay \in Nat
    BY <2>1
  <2> QED BY <1>1, <2>2 DEF Timer
<1>3. timers' = Sort(us)
  BY DEF ResetTimer
<1> HIDE DEF t
<1>4. /\ us \in Seq(Timer) /\ Drawn(us, timers) /\ Serials(us) = Serials(timers)
  <2>1. timers \in Seq(Timer)
    BY DEF TimerInv
  <2> QED BY <1>2, <2>1, ChangedTimer
<1> HIDE DEF us
<1>5. /\ timers' \in Seq(Timer) /\ Sorted(timers') /\ Drawn(timers', us)
      /\ Serials(timers') = Serials(us)
  BY <1>3, <1>4, SortTimers
<1>6. Drawn(timers', timers)
  BY <1>4, <1>5, DrawnTwice
<1> QED BY <1>4, <1>5, <1>6

(* What the return of a timer's handler makes of the list *)
LEMMA ReturnedTimer ==
  ASSUME TimerInv, NEW ret \in BOOLEAN, TimerReturns(ret)
  PROVE  /\ timers' \in Seq(Timer) /\ Drawn(timers', timers)
         /\ it' = NoTimer \/ it' \in Serials(timers')
         /\ \A i \in DOMAIN timers :
              \/ timers[i].serial \in Serials(timers')
              \/ timers[i].serial = it /\ timers[i].times = 1
<1> DEFINE p == Position(timers, it)
<1>0. timers \in Seq(Timer)
  BY DEF TimerInv
<1>1. p \in DOMAIN timers /\ timers[p].serial = it /\ p \in Nat
  <2>1. it \in Serials(timers)
    BY DEF TimerInv, TimerReturns
  <2>2. DOMAIN timers = 1..Len(timers)
    BY LenProperties DEF TimerInv
  <2>3. p \in DOMAIN timers /\ timers[p].serial = it
    BY <2>1, PositionOf
  <2> HIDE DEF p
  <2> QED BY <2>2, <2>3
<1>2. /\ it' = NextOf(timers, p)
      /\ timers' = IF Spent(timers[p]) THEN Erase(timers, p)
                   ELSE [timers EXCEPT ![p] = Renew(timers[p])]
  BY DEF TimerReturns
<1> HIDE DEF p
<1>3. it' = NoTimer \/ \E j \in DOMAIN timers \ {p} : it' = timers[j].serial
  BY <1>1, <1>2, NextStays DEF TimerInv
<1>4. CASE Spent(timers[p])
  <2>1. timers' = Erase(timers, p)
    BY <1>2, <1>4
  <2>2. /\ timers' \in Seq(Timer) /\ Drawn(timers', timers)
        /\ \A j \in DOMAIN timers \ {p} : \E k \in DOMAIN timers' : timers'[k] = timers[j]
    BY <1>0, <1>1, <2>1, RemovedTimer
  <2>3. \A j \in DOMAIN timers \ {p} : timers[j].serial \in Serials(timers')
    BY <2>2 DEF Serials
  <2>4. timers[p].serial = it /\ timers[p].times = 1
    BY <1>1, <1>4 DEF Spent
  <2> QED BY <1>3, <2>2, <2>3, <2>4
<1>5. CASE ~Spent(timers[p])
  <2> DEFINE t == Renew(timers[p])
             us == [timers EXCEPT ![p] = t]
  <2>1. timers' = us
    BY <1>2, <1>5
  <2>2. timers[p] \in Timer
    BY <1>0, <1>1, LenProperties, ElementOfSeq
  <2>3. t \in Timer /\ t.serial = timers[p].serial /\ t.id = timers[p].id
    BY <2>2, RenewTimer
  <2> HIDE DEF t
  <2>4. us \in Seq(Timer) /\ Drawn(us, timers) /\ Serials(us) = Serials(timers)
    BY <1>0, <1>1, <2>3, ChangedTimer
  <2> HIDE DEF us
  <2>5. \A j \in DOMAIN timers : timers[j].serial \in Serials(timers)
    BY DEF Serials
  <2> QED BY <1>3, <2>1, <2>4, <2>5
<1> QED BY <1>4, <1>5

LEMMA PrimedSerials == Serials(timers)' = Serials(timers')
BY DEF Serials

(* The pieces of TimerInv *)
ListInv ==
  /\ timers \in Seq(Timer) /\ Distinct(timers) /\ timerRemoveLater \in Seq(Addr)
  /\ adds \in 0..MaxAdds
  /\ Serials(timers) \subseteq 1..adds /\ cancelled \subseteq 1..adds

DispatchInv ==
  /\ pc \in {"timers", "timer handler", "sockets", "socket handler"} => dispatching
  /\ \/ pc = "timers" /\ it = NoTimer
     \/ pc \in {"timers", "timer handler"} => it \in Serials(timers)

LEMMA ListStep ==
  ASSUME TimerInv, [LoopNext]_loopVars
  PROVE  ListInv'
<1>0. /\ timers \in Seq(Timer) /\ Distinct(timers) /\ timerRemoveLater \in Seq(Addr)
      /\ adds \in 0..MaxAdds
      /\ Serials(timers) \subseteq 1..adds /\ cancelled \subseteq 1..adds
  BY DEF TimerInv
<1>1. ASSUME Drawn(timers', timers), timers' \in Seq(Timer), adds' = adds,
             cancelled' \subseteq 1..adds, timerRemoveLater' \in Seq(Addr)
      PROVE  ListInv'
  <2>1. Distinct(timers') /\ Serials(timers') \subseteq 1..adds
    BY <1>0, <1>1, DrawnKeeps
  <2>2. Serials(timers)' = Serials(timers') /\ Distinct(timers)' = Distinct(timers')
    BY DEF Serials, Distinct
  <2> QED BY <1>0, <1>1, <2>1, <2>2 DEF ListInv
<1>2. Drawn(timers, timers)
  BY UnchangedDrawn
<1>3. ASSUME NEW delay \in Delays, NEW times \in Times, AddTimer(delay, times)
      PROVE  ListInv'
  <2>1. /\ timers' \in Seq(Timer) /\ Distinct(timers')
        /\ adds' = adds + 1 /\ adds' \in 0..MaxAdds
        /\ Serials(timers') = Serials(timers) \cup {adds'}
    BY <1>3, AddedTimer
  <2>2. timerRemoveLater' = timerRemoveLater /\ cancelled' = cancelled
    BY <1>3 DEF AddTimer, later
  <2>3. adds' \in 1..adds' /\ 1..adds \subseteq 1..adds'
    BY <1>0, <2>1
  <2>4. Serials(timers)' = Serials(timers') /\ Distinct(timers)' = Distinct(timers')
    BY DEF Serials, Distinct
  <2>5. Serials(timers') \subseteq 1..adds' /\ cancelled \subseteq 1..adds'
    BY <1>0, <2>1, <2>3
  <2> QED BY ONLY <1>0, <2>1, <2>2, <2>4, <2>5 DEF ListInv
<1>4. ASSUME NEW i \in DOMAIN timers, ResetTimer(i)
      PROVE  ListInv'
  <2>1. /\ timerRemoveLater' = timerRemoveLater /\ cancelled' = cancelled
        /\ adds' = adds
    BY <1>4 DEF ResetTimer, later
  <2> QED BY <1>0, <1>1, <1>4, <2>1, ResettedTimer
<1>5. ASSUME NEW i \in DOMAIN timers, RemoveTimer(i)
      PROVE  ListInv'
  <2>1. timers[i] \in Timer /\ timers[i].serial \in Serials(timers)
    BY <1>0, LenProperties, ElementOfSeq DEF Serials
  <2>2. cancelled' \subseteq 1..adds /\ adds' = adds
    BY <1>0, <1>5, <2>1 DEF RemoveTimer
  <2>3. CASE timers' = Erase(timers, i) /\ timerRemoveLater' = timerRemoveLater
    BY <1>0, <1>1, <2>2, <2>3, RemovedTimer
  <2>4. CASE timers' = timers /\ timerRemoveLater' = Append(timerRemoveLater, timers[i].id)
    <3>1. timers[i].id \in Addr
      BY <2>1 DEF Timer
    <3>2. timerRemoveLater' \in Seq(Addr)
      BY <1>0, <2>4, <3>1, AppendProperties
    <3> QED BY <1>0, <1>1, <1>2, <2>2, <2>4, <3>2
  <2> QED BY <1>5, <2>3, <2>4 DEF RemoveTimer
<1>6. CASE Top \/ Leave
  <2>1. Flush /\ cancelled' = cancelled /\ adds' = adds /\ timerRemoveLater' = <<>>
    BY <1>6 DEF Top, Leave, Flush, history
  <2>2. timers' \in Seq(Timer) /\ Drawn(timers', timers)
    BY <2>1, FlushedTimers
  <2>3. <<>> \in Seq(Addr)
    BY EmptySeq
  <2> QED BY <1>0, <1>1, <2>1, <2>2, <2>3
<1>7. ASSUME NEW ret \in BOOLEAN, TimerReturns(ret)
      PROVE  ListInv'
  <2>1. /\ timerRemoveLater' = timerRemoveLater /\ cancelled' = cancelled
        /\ adds' = adds
    BY <1>7 DEF TimerReturns, later
  <2> QED BY <1>0, <1>1, <1>7, <2>1, ReturnedTimer
<1>8. CASE TimersEnd
  <2>1. /\ timerRemoveLater' = timerRemoveLater /\ cancelled' = cancelled
        /\ adds' = adds /\ timers' = Sort(timers)
    BY <1>8 DEF TimersEnd, later
  <2> QED BY <1>0, <1>1, <2>1, SortTimers
<1>9. CASE TimersStay
  BY <1>0, <1>1, <1>2, <1>9 DEF TimersStay
<1> QED BY <1>3, <1>4, <1>5, <1>6, <1>7, <1>8, <1>9, QuietSteps DEF StepOfTimers

LEMMA DispatchStep ==
  ASSUME TimerInv, [LoopNext]_loopVars
  PROVE  DispatchInv'
<1> USE DEF itemVars, later, locals, history
<1>0. DispatchInv /\ timers \in Seq(Timer)
  BY DEF TimerInv, DispatchInv
<1>1. ASSUME NEW delay \in Delays, NEW times \in Times, AddTimer(delay, times)
      PROVE  DispatchInv'
  <2>1. Serials(timers') = Serials(timers) \cup {adds'}
    BY <1>1, AddedTimer
  <2>2. pc' = pc /\ dispatching' = dispatching /\ it' = it
    BY <1>1 DEF AddTimer
  <2> QED BY <1>0, <2>1, <2>2, PrimedSerials DEF DispatchInv
<1>2. ASSUME NEW i \in DOMAIN timers, ResetTimer(i)
      PROVE  DispatchInv'
  <2>1. Serials(timers') = Serials(timers)
    BY <1>2, ResettedTimer
  <2>2. pc' = pc /\ dispatching' = dispatching /\ it' = it
    BY <1>2 DEF ResetTimer
  <2> QED BY <1>0, <2>1, <2>2, PrimedSerials DEF DispatchInv
<1>3. ASSUME NEW i \in DOMAIN timers, RemoveTimer(i)
      PROVE  DispatchInv'
  <2>1. /\ pc' = pc /\ dispatching' = dispatching /\ it' = it
        /\ pc \in {"stopped", "timer handler", "socket handler"}
    BY <1>3 DEF RemoveTimer, InClientCode
  <2>2. pc = "timer handler" => timers' = timers
    BY <1>0, <1>3 DEF RemoveTimer, DispatchInv
  <2> QED BY <1>0, <2>1, <2>2, PrimedSerials DEF DispatchInv
<1>4. CASE Top \/ Leave \/ FlushUndefined \/ PollThrows \/ HandlerThrows \/ SocketsEnd
           \/ Start
  <2>1. pc' \in {"stopped", "top", "polling", "undefined"}
    BY <1>4 DEF Top, Leave, FlushUndefined, PollThrows, HandlerThrows, SocketsEnd, Start
  <2> QED BY <2>1 DEF DispatchInv
<1>5. ASSUME NEW ret \in BOOLEAN, TimerReturns(ret)
      PROVE  DispatchInv'
  <2>1. it' = NoTimer \/ it' \in Serials(timers')
    BY <1>5, ReturnedTimer
  <2>2. pc' = (IF ret THEN "timers" ELSE "leaving") /\ dispatching' = ret
    BY <1>5 DEF TimerReturns
  <2> QED BY <2>1, <2>2, PrimedSerials DEF DispatchInv
<1>6. CASE TimersEnd
  <2>1. pc = "timers" /\ ((pc' = "sockets" /\ dispatching' = dispatching) \/ pc' = "top")
    BY <1>6 DEF TimersEnd
  <2> QED BY <1>0, <2>1 DEF DispatchInv
<1>7. ASSUME NEW h \in Handle, AddItem(h, Flags) \/ RemoveItem(h)
      PROVE  DispatchInv'
  <2>1. /\ pc' \in {pc, "undefined"} /\ dispatching' = dispatching /\ it' = it
        /\ timers' = timers
    BY <1>7 DEF AddItem, RemoveItem
  <2> QED BY <1>0, <2>1, PrimedSerials DEF DispatchInv
<1>8. ASSUME NEW rc, BeginTimers(rc), timers' = timers
      PROVE  DispatchInv'
  <2>1. it' = NextOf(timers, 0) /\ pc' = "timers" /\ dispatching'
    BY <1>8 DEF BeginTimers, First
  <2>2. it' = NoTimer \/ it' \in Serials(timers)
    <3>1. 0 \in Nat
      OBVIOUS
    <3>2. it' = NoTimer \/ \E j \in DOMAIN timers \ {0} : it' = timers[j].serial
      BY <1>0, <2>1, <3>1, NextStays
    <3> QED BY <3>2 DEF Serials
  <2> QED BY <1>8, <2>1, <2>2, PrimedSerials DEF DispatchInv
<1>9. ASSUME NEW ready \in [Handle -> SUBSET Flags], PollReturns(ready)
      PROVE  DispatchInv'
  BY <1>8, <1>9 DEF PollReturns, BeginTimers
<1>10. CASE PollReturnsNothing
  BY <1>8, <1>10 DEF PollReturnsNothing, BeginTimers
<1>11. CASE RunTimer
  <2>1. /\ pc = "timers" /\ it # NoTimer /\ pc' = "timer handler"
        /\ dispatching' = dispatching /\ it' = it /\ timers' = timers
    BY <1>11 DEF RunTimer, Expired
  <2> QED BY <1>0, <2>1, PrimedSerials DEF DispatchInv
<1>12. CASE Dispatch
  <2>1. /\ pc = "sockets" /\ pc' \in {"sockets", "socket handler"}
        /\ dispatching' = dispatching
    BY <1>12 DEF Dispatch
  <2> QED BY <1>0, <2>1 DEF DispatchInv
<1>13. ASSUME NEW ret \in BOOLEAN, SocketReturns(ret)
       PROVE  DispatchInv'
  <2>1. pc' = (IF ret THEN "sockets" ELSE "leaving") /\ dispatching' = ret
    BY <1>13 DEF SocketReturns
  <2> QED BY <2>1 DEF DispatchInv
<1>14. CASE Tick \/ Undefined \/ UNCHANGED loopVars
  <2>1. pc' = pc /\ dispatching' = dispatching /\ it' = it /\ timers' = timers
    BY <1>14 DEF Tick, Undefined, loopVars
  <2> QED BY <1>0, <2>1, PrimedSerials DEF DispatchInv
<1> QED BY <1>1, <1>2, <1>3, <1>4, <1>5, <1>6, <1>7, <1>9, <1>10, <1>11, <1>12, <1>13, <1>14
        DEF LoopNext, ClientCall, InsideStart

LEMMA ClockStep ==
  ASSUME TimerInv, [LoopNext]_loopVars
  PROVE  now' \in Nat /\ wake' \in Nat
<1> USE DEF itemVars, later, locals, history
<1>0. now \in Nat /\ wake \in Nat /\ TimerInv
  BY DEF TimerInv
<1>1. CASE Top
  <2>1. now' = now /\ wake' = Deadline(timers') /\ Flush
    BY <1>1 DEF Top
  <2>2. timers' \in Seq(Timer)
    BY <2>1, FlushedTimers
  <2>3. CASE timers' = <<>>
    <3>1. wake' = MaxNow + 1 /\ MaxNow \in Nat
      BY <2>1, <2>3, LoopAssumption DEF Deadline
    <3> QED BY <1>0, <2>1, <3>1
  <2>4. CASE timers' # <<>>
    <3>1. timers'[1] \in Timer
      BY <2>2, <2>4, EmptySeq, LenProperties, ElementOfSeq
    <3>2. timers'[1].when \in Nat
      BY <3>1 DEF Timer
    <3> QED BY <1>0, <2>1, <2>4, <3>2 DEF Deadline
  <2> QED BY <2>3, <2>4
<1>2. CASE Tick
  <2>1. now' = now + 1 /\ wake' = wake
    BY <1>2 DEF Tick
  <2> QED BY <1>0, <2>1
<1>3. CASE \E ret \in BOOLEAN : TimerReturns(ret) \/ SocketReturns(ret)
  BY <1>0, <1>3 DEF TimerReturns, SocketReturns
<1>4. CASE \E ready \in [Handle -> SUBSET Flags] : PollReturns(ready)
  BY <1>0, <1>4 DEF PollReturns, BeginTimers
<1>5. CASE FlushUndefined \/ PollReturnsNothing \/ PollThrows \/ RunTimer \/ TimersEnd
  BY <1>0, <1>5 DEF FlushUndefined, PollReturnsNothing, BeginTimers, PollThrows, RunTimer,
                    TimersEnd
<1>6. CASE Dispatch \/ SocketsEnd \/ Leave \/ HandlerThrows
  BY <1>0, <1>6 DEF Dispatch, SocketsEnd, Leave, HandlerThrows
<1>7. CASE Undefined \/ UNCHANGED loopVars
  BY <1>0, <1>7 DEF Undefined, loopVars
<1>8. CASE ClientCall
  BY <1>0, <1>8 DEF ClientCall, AddItem, RemoveItem, AddTimer, ResetTimer, RemoveTimer, Start
<1> QED BY <1>1, <1>2, <1>3, <1>4, <1>5, <1>6, <1>7, <1>8 DEF LoopNext, InsideStart

LEMMA TimerInit == LoopInit => TimerInv
<1> SUFFICES ASSUME LoopInit PROVE TimerInv
  OBVIOUS
<1>1. timers = <<>> /\ timerRemoveLater = <<>> /\ now = 0 /\ wake = 0 /\ adds = 0
      /\ cancelled = {} /\ pc = "stopped"
  BY DEF LoopInit
<1>2. <<>> \in Seq(Timer) /\ <<>> \in Seq(Addr) /\ DOMAIN timers = {}
  BY <1>1, EmptySeq, LenProperties
<1>3. Serials(timers) = {} /\ Distinct(timers)
  BY <1>2 DEF Serials, Distinct
<1>4. adds \in 0..MaxAdds
  BY <1>1, LoopAssumption
<1> QED BY <1>1, <1>2, <1>3, <1>4 DEF TimerInv

LEMMA TimerStep ==
  ASSUME TimerInv, [LoopNext]_loopVars
  PROVE  TimerInv'
<1>1. ListInv' /\ DispatchInv' /\ now' \in Nat /\ wake' \in Nat
  BY ListStep, DispatchStep, ClockStep
<1> QED BY <1>1 DEF TimerInv, ListInv, DispatchInv

-----------------------------------------------------------------------------
(* Unless a handler has ended start(), the list is in the order of its
   deadlines outside start_handle_timers. *)
OrderInv ==
  ~disorder => /\ pc \notin {"timers", "timer handler"} => Sorted(timers)
               /\ pc = "polling" => WakesInTime

LEMMA OrderStep ==
  ASSUME TimerInv, OrderInv, [LoopNext]_loopVars
  PROVE  OrderInv'
<1> USE DEF itemVars, later, locals, history
<1>0. timers \in Seq(Timer) /\ now \in Nat /\ wake \in Nat
  BY DEF TimerInv
<1>a. Sorted(timers)' = Sorted(timers')
  BY DEF Sorted
<1>1. ASSUME Sorted(timers'), pc' # "polling"
      PROVE  OrderInv'
  BY <1>1, <1>a DEF OrderInv
<1>3. ASSUME NEW delay \in Delays, NEW times \in Times, AddTimer(delay, times)
      PROVE  OrderInv'
  <2>1. Sorted(timers') /\ pc' # "polling"
    BY <1>3, AddedTimer DEF AddTimer, InClientCode
  <2> QED BY <1>1, <2>1
<1>4. ASSUME NEW i \in DOMAIN timers, ResetTimer(i)
      PROVE  OrderInv'
  <2>1. Sorted(timers') /\ pc' # "polling"
    BY <1>4, ResettedTimer DEF ResetTimer, InClientCode
  <2> QED BY <1>1, <2>1
<1>5. ASSUME NEW i \in DOMAIN timers, RemoveTimer(i)
      PROVE  OrderInv'
  <2>1. Sorted(timers) => Sorted(timers')
    BY <1>0, <1>5, RemovedTimer DEF RemoveTimer
  <2>2. pc' = pc /\ pc' # "polling" /\ disorder' = disorder
    BY <1>5 DEF RemoveTimer, InClientCode
  <2> QED BY <1>a, <2>1, <2>2 DEF OrderInv
<1>6. CASE Leave
  <2>1. Sorted(timers) => Sorted(timers')
    BY <1>6, FlushedTimers DEF Leave
  <2>2. pc = "leaving" /\ pc' = "stopped" /\ disorder' = disorder
    BY <1>6 DEF Leave
  <2> QED BY <1>a, <2>1, <2>2 DEF OrderInv
<1>7. CASE Top
  <2>1. (Sorted(timers) => Sorted(timers')) /\ timers' \in Seq(Timer)
    BY <1>7, FlushedTimers DEF Top
  <2>2. pc = "top" /\ pc' = "polling" /\ disorder' = disorder /\ now' = now
        /\ wake' = Deadline(timers')
    BY <1>7 DEF Top
  <2>3. ASSUME Sorted(timers') PROVE WakesInTime'
    <3> SUFFICES ASSUME NEW i \in DOMAIN timers'
                 PROVE  wake' <= timers'[i].when \/ wake' <= now'
      BY DEF WakesInTime
    <3>1. i \in 1..Len(timers') /\ Len(timers') \in Nat /\ timers' # <<>>
      BY <2>1, EmptySeq, LenProperties
    <3>2. 1 \in DOMAIN timers' /\ 1 <= i
      BY <2>1, <3>1, LenProperties
    <3>3. timers'[1].when <= timers'[i].when
      BY <2>3, <3>2 DEF Sorted
    <3>4. wake' = now \/ wake' = timers'[1].when
      BY <2>2, <3>1 DEF Deadline
    <3> QED BY <1>0, <2>2, <3>3, <3>4
  <2> QED BY <1>a, <2>1, <2>2, <2>3 DEF OrderInv
<1>8. CASE TimersEnd
  <2>1. timers' = Sort(timers) /\ pc' # "polling"
    BY <1>8 DEF TimersEnd
  <2>2. Sorted(timers')
    BY <1>0, <2>1, SortTimers
  <2> QED BY <1>1, <2>1, <2>2
<1>9. ASSUME NEW ret \in BOOLEAN, TimerReturns(ret)
      PROVE  OrderInv'
  <2>1. /\ pc' = (IF ret THEN "timers" ELSE "leaving")
        /\ disorder' = (disorder \/ ~ret)
    BY <1>9 DEF TimerReturns
  <2>2. ~ret => disorder'
    BY <2>1, Zenon
  <2> QED BY <2>1, <2>2 DEF OrderInv
<1>10. CASE HandlerThrows
  <2>1. /\ timers' = timers /\ pc' = "stopped" /\ pc \in {"timer handler", "socket handler"}
        /\ disorder' = (disorder \/ pc = "timer handler")
    BY <1>10 DEF HandlerThrows
  <2>2. ~disorder' => ~disorder /\ pc # "timer handler"
    BY <2>1, Zenon
  <2> QED BY <1>a, <2>1, <2>2 DEF OrderInv
<1>11. CASE PollReturnsNothing \/ RunTimer \/ \E ready \in [Handle -> SUBSET Flags] :
                                                 PollReturns(ready)
  <2>1. pc' \in {"timers", "timer handler"}
    BY <1>11 DEF PollReturnsNothing, RunTimer, PollReturns, BeginTimers
  <2> QED BY <2>1 DEF OrderInv
<1>12. CASE PollThrows \/ Start \/ FlushUndefined
  <2>1. /\ timers' = timers /\ disorder' = disorder /\ pc' # "polling"
        /\ pc \in {"polling", "stopped", "top", "leaving"}
    BY <1>12 DEF PollThrows, Start, FlushUndefined
  <2> QED BY <1>a, <2>1 DEF OrderInv
<1>13. CASE Dispatch \/ SocketsEnd
  <2>1. /\ timers' = timers /\ disorder' = disorder /\ pc' # "polling"
        /\ pc = "sockets"
    BY <1>13 DEF Dispatch, SocketsEnd
  <2> QED BY <1>a, <2>1 DEF OrderInv
<1>14. ASSUME NEW ret \in BOOLEAN, SocketReturns(ret)
       PROVE  OrderInv'
  <2>1. /\ timers' = timers /\ disorder' = disorder /\ pc' # "polling"
        /\ pc = "socket handler"
    BY <1>14 DEF SocketReturns
  <2> QED BY <1>a, <2>1 DEF OrderInv
<1>15. ASSUME NEW h \in Handle, AddItem(h, Flags) \/ RemoveItem(h)
       PROVE  OrderInv'
  <2>1. /\ timers' = timers /\ disorder' = disorder /\ pc' # "polling"
        /\ pc' = pc \/ pc = "socket handler"
    BY <1>15 DEF AddItem, RemoveItem, InClientCode
  <2> QED BY <1>a, <2>1 DEF OrderInv
<1>16. CASE Tick \/ Undefined \/ UNCHANGED loopVars
  <2>1. /\ timers' = timers /\ disorder' = disorder /\ pc' = pc /\ wake' = wake
        /\ now' = now \/ now' = now + 1
    BY <1>16 DEF Tick, Undefined, loopVars
  <2>2. wake <= now => wake' <= now'
    BY <1>0, <2>1
  <2>3. WakesInTime => WakesInTime'
    BY <2>1, <2>2 DEF WakesInTime
  <2> QED BY <1>a, <2>1, <2>3 DEF OrderInv
<1> QED BY <1>3, <1>4, <1>5, <1>6, <1>7, <1>8, <1>9, <1>10, <1>11, <1>12, <1>13, <1>14,
           <1>15, <1>16
        DEF LoopNext, ClientCall, InsideStart

(* The thread never sleeps past the deadline of a timer (loop.cpp:221-229, with
   the sorting of 53, 73 and 205): for any number of timers, delays and
   repetitions, also when a handler throws. *)
THEOREM TimersInTime == LoopSpec => []NoOversleep
<1>1. LoopInit => TimerInv /\ OrderInv
  <2> SUFFICES ASSUME LoopInit PROVE OrderInv
    BY TimerInit
  <2>1. timers = <<>> /\ pc = "stopped"
    BY DEF LoopInit
  <2>2. DOMAIN timers = {}
    BY <2>1, EmptySeq, LenProperties
  <2> QED BY <2>1, <2>2 DEF OrderInv, Sorted
<1>2. TimerInv /\ OrderInv /\ [LoopNext]_loopVars => (TimerInv /\ OrderInv)'
  BY TimerStep, OrderStep
<1>3. OrderInv => NoOversleep
  BY DEF OrderInv, NoOversleep
<1> QED BY <1>1, <1>2, <1>3, PTL DEF LoopSpec

-----------------------------------------------------------------------------
(* While no address on timerRemoveLater_ is handed out again, the timer at such
   an address is one the client has removed. *)
AddressInv ==
  \A i \in DOMAIN timers :
    timers[i].id \in Range(timerRemoveLater) => timers[i].serial \in cancelled

LEMMA AppendedRange ==
  ASSUME NEW S, NEW s \in Seq(S), NEW x \in S
  PROVE  Range(Append(s, x)) = Range(s) \cup {x}
<1>1. /\ Len(s) \in Nat /\ Len(Append(s, x)) = Len(s) + 1 /\ Append(s, x) \in Seq(S)
      /\ Append(s, x)[Len(s) + 1] = x
      /\ \A i \in 1..Len(s) : Append(s, x)[i] = s[i]
  BY AppendProperties, LenProperties
<1>2. DOMAIN s = 1..Len(s) /\ DOMAIN Append(s, x) = 1..Len(s) + 1
  BY <1>1, LenProperties
<1>3. DOMAIN Append(s, x) = DOMAIN s \cup {Len(s) + 1}
  BY <1>1, <1>2
<1> QED BY <1>1, <1>2, <1>3 DEF Range

LEMMA EmptyRange == Range(<<>>) = {}
<1>1. DOMAIN <<>> = {}
  BY EmptySeq, LenProperties
<1> QED BY <1>1 DEF Range

LEMMA AddressStep ==
  ASSUME ReuseAddr = FALSE, TimerInv, AddressInv, [LoopNext]_loopVars
  PROVE  AddressInv'
<1> USE DEF itemVars, later, locals, history
<1>0. timers \in Seq(Timer) /\ Distinct(timers) /\ timerRemoveLater \in Seq(Addr)
  BY DEF TimerInv
<1>1. ASSUME Drawn(timers', timers), timerRemoveLater' = timerRemoveLater,
             cancelled \subseteq cancelled'
      PROVE  AddressInv'
  <2>1. \A k \in DOMAIN timers' : \E i \in DOMAIN timers :
          timers'[k].serial = timers[i].serial /\ timers'[k].id = timers[i].id
    BY <1>1, DrawnKeeps
  <2> QED BY <1>1, <2>1 DEF AddressInv, Range
<1>2. ASSUME NEW delay \in Delays, NEW times \in Times, AddTimer(delay, times)
      PROVE  AddressInv'
  <2>1. timerRemoveLater' = timerRemoveLater /\ cancelled' = cancelled
    BY <1>2 DEF AddTimer
  <2>2. \A k \in DOMAIN timers' :
          \/ \E i \in DOMAIN timers : timers'[k] = timers[i]
          \/ timers'[k].id \notin Range(timerRemoveLater)
    BY <1>2, AddedTimer
  <2> QED BY <2>1, <2>2 DEF AddressInv, Range
<1>3. ASSUME NEW i \in DOMAIN timers, ResetTimer(i)
      PROVE  AddressInv'
  <2>1. Drawn(timers', timers)
    BY <1>3, ResettedTimer
  <2> QED BY <1>1, <1>3, <2>1 DEF ResetTimer
<1>4. ASSUME NEW i \in DOMAIN timers, RemoveTimer(i)
      PROVE  AddressInv'
  <2>1. cancelled' = cancelled \cup {timers[i].serial}
    BY <1>4 DEF RemoveTimer
  <2>2. CASE timers' = Erase(timers, i) /\ timerRemoveLater' = timerRemoveLater
    BY <1>0, <1>1, <2>1, <2>2, RemovedTimer
  <2>3. CASE timers' = timers /\ timerRemoveLater' = Append(timerRemoveLater, timers[i].id)
    <3>1. timers[i].id \in Addr
      <4>1. timers[i] \in Timer
        BY <1>0, LenProperties, ElementOfSeq
      <4> QED BY <4>1 DEF Timer
    <3>2. Range(timerRemoveLater') = Range(timerRemoveLater) \cup {timers[i].id}
      BY <1>0, <2>3, <3>1, AppendedRange
    <3>3. Range(timerRemoveLater)' = Range(timerRemoveLater')
      BY DEF Range
    <3> QED BY <1>0, <2>1, <2>3, <3>2, <3>3 DEF AddressInv, Distinct
  <2> QED BY <1>4, <2>2, <2>3 DEF RemoveTimer
<1>5. CASE Top \/ Leave
  <2>1. timerRemoveLater' = <<>>
    BY <1>5 DEF Top, Leave, Flush
  <2>2. Range(timerRemoveLater)' = {}
    BY <2>1, EmptyRange DEF Range
  <2> QED BY <2>2 DEF AddressInv
<1>6. ASSUME NEW ret \in BOOLEAN, TimerReturns(ret)
      PROVE  AddressInv'
  <2>1. Drawn(timers', timers)
    BY <1>6, ReturnedTimer
  <2> QED BY <1>1, <1>6, <2>1 DEF TimerReturns
<1>7. CASE TimersEnd
  <2>1. Drawn(timers', timers)
    BY <1>0, <1>7, SortTimers DEF TimersEnd
  <2> QED BY <1>1, <1>7, <2>1 DEF TimersEnd
<1>8. CASE TimersStay
  BY <1>1, <1>8, UnchangedDrawn DEF TimersStay
<1> QED BY <1>2, <1>3, <1>4, <1>5, <1>6, <1>7, <1>8, QuietSteps DEF StepOfTimers

(* A timer leaves the list only because the client removed that very timer or
   because it has fired for the last time (loop.cpp:77-91, 130-137, 184-205),
   if the allocator does not hand out an address that waits for its removal. *)
THEOREM TimersLeaveForAReason ==
  ASSUME ReuseAddr = FALSE
  PROVE  LoopSpec => OnlyCancelledOrSpent
<1> DEFINE Leaves ==
             \A i \in DOMAIN timers :
               \/ timers[i].serial \in Serials(timers)' \cup cancelled'
               \/ timers[i].serial = it /\ timers[i].times = 1
<1>1. LoopInit => TimerInv /\ AddressInv
  <2> SUFFICES ASSUME LoopInit PROVE AddressInv
    BY TimerInit
  <2>1. timers = <<>>
    BY DEF LoopInit
  <2>2. DOMAIN timers = {}
    BY <2>1, EmptySeq, LenProperties
  <2> QED BY <2>2 DEF AddressInv
<1>2. TimerInv /\ AddressInv /\ [LoopNext]_loopVars => (TimerInv /\ AddressInv)'
  BY TimerStep, AddressStep
<1>3. TimerInv /\ AddressInv /\ [LoopNext]_loopVars => Leaves
  <2> SUFFICES ASSUME TimerInv, AddressInv, [LoopNext]_loopVars PROVE Leaves
    OBVIOUS
  <2>0. timers \in Seq(Timer) /\ Serials(timers)' = Serials(timers')
    BY PrimedSerials DEF TimerInv
  <2>1. \A i \in DOMAIN timers : timers[i].serial \in Serials(timers)
    BY DEF Serials
  <2>2. ASSUME Serials(timers) \subseteq Serials(timers') PROVE Leaves
    BY <2>0, <2>1, <2>2
  <2>3. ASSUME NEW delay \in Delays, NEW times \in Times, AddTimer(delay, times)
        PROVE  Leaves
    BY <2>2, <2>3, AddedTimer
  <2>4. ASSUME NEW i \in DOMAIN timers, ResetTimer(i) PROVE Leaves
    BY <2>2, <2>4, ResettedTimer
  <2>5. ASSUME NEW i \in DOMAIN timers, RemoveTimer(i) PROVE Leaves
    <3>1. timers[i].serial \in cancelled'
      BY <2>5 DEF RemoveTimer
    <3>2. CASE timers' = Erase(timers, i)
      <4>1. \A j \in DOMAIN timers \ {i} : \E k \in DOMAIN timers' : timers'[k] = timers[j]
        BY <2>0, <3>2, RemovedTimer
      <4>2. \A j \in DOMAIN timers \ {i} : timers[j].serial \in Serials(timers')
        BY <4>1 DEF Serials
      <4> QED BY <2>0, <3>1, <4>2
    <3>3. CASE timers' = timers
      BY <2>2, <3>3
    <3> QED BY <2>5, <3>2, <3>3 DEF RemoveTimer
  <2>6. CASE Top \/ Leave
    <3>1. Flush /\ cancelled' = cancelled
      BY <2>6 DEF Top, Leave, history
    <3>2. \A i \in DOMAIN timers : \/ timers[i].serial \in Serials(timers')
                                   \/ timers[i].id \in Range(timerRemoveLater)
      BY <3>1, FlushedTimers
    <3>3. \A i \in DOMAIN timers :
            timers[i].id \in Range(timerRemoveLater) => timers[i].serial \in cancelled
      BY DEF AddressInv
    <3> QED BY <2>0, <3>1, <3>2, <3>3
  <2>7. ASSUME NEW ret \in BOOLEAN, TimerReturns(ret) PROVE Leaves
    <3>1. \A i \in DOMAIN timers : \/ timers[i].serial \in Serials(timers')
                                   \/ timers[i].serial = it /\ timers[i].times = 1
      BY <2>7, ReturnedTimer
    <3> QED BY <2>0, <3>1
  <2>8. CASE TimersEnd
    BY <2>0, <2>2, <2>8, SortTimers DEF TimersEnd
  <2>9. CASE TimersStay
    BY <2>2, <2>9 DEF TimersStay
  <2> HIDE DEF Leaves
  <2> QED BY <2>3, <2>4, <2>5, <2>6, <2>7, <2>8, <2>9, QuietSteps DEF StepOfTimers
<1>4. OnlyCancelledOrSpent <=> [][Leaves]_loopVars
  BY DEF OnlyCancelledOrSpent
<1> HIDE DEF Leaves
<1> QED BY <1>1, <1>2, <1>3, <1>4, PTL DEF LoopSpec

-----------------------------------------------------------------------------
(* The recursive function of RemoveEach, unfolded *)
LEMMA RemovedOneByOne ==
  ASSUME NEW p, NEW hs, Len(hs) \in Nat
  PROVE  \E after : /\ after[0] = p
                    /\ \A n \in 1..Len(hs) : after[n] = PollRemove(after[n - 1], hs[n])
                    /\ RemoveEach(p, hs) = after[Len(hs)]
<1> DEFINE N == Len(hs)
           after[n \in 0..Len(hs)] == IF n = 0 THEN p ELSE PollRemove(after[n - 1], hs[n])
           H == {n \in 0..N : \E f : f = [k \in 0..n |-> IF k = 0 THEN p
                                                         ELSE PollRemove(f[k - 1], hs[k])]}
<1>1. RemoveEach(p, hs) = after[Len(hs)]
  BY DEF RemoveEach
<1>2. 0 \in H
  <2> DEFINE g == [k \in 0..0 |-> p]
  <2>1. g = [k \in 0..0 |-> IF k = 0 THEN p ELSE PollRemove(g[k - 1], hs[k])]
    OBVIOUS
  <2> HIDE DEF g
  <2> QED BY <2>1
<1>3. ASSUME NEW n \in 0..N - 1, n \in H
      PROVE  n + 1 \in H
  <2>1. PICK f : f = [k \in 0..n |-> IF k = 0 THEN p ELSE PollRemove(f[k - 1], hs[k])]
    BY <1>3
  <2> DEFINE g == [k \in 0..(n + 1) |-> IF k <= n THEN f[k] ELSE PollRemove(f[n], hs[n + 1])]
  <2>2. \A k \in 0..n : g[k] = f[k]
    BY <1>3
  <2>3. g[n + 1] = PollRemove(g[n], hs[n + 1])
    BY <1>3
  <2>4. g = [k \in 0..(n + 1) |-> g[k]]
    OBVIOUS
  <2> HIDE DEF g
  <2>5. \A k \in 0..(n + 1) : g[k] = IF k = 0 THEN p ELSE PollRemove(g[k - 1], hs[k])
    <3> TAKE k \in 0..(n + 1)
    <3>1. CASE k = n + 1
      BY <2>3, <3>1
    <3>2. CASE k = 0
      BY <2>1, <2>2, <3>2
    <3>3. CASE k \in 1..n
      <4>1. f[k] = PollRemove(f[k - 1], hs[k])
        BY <2>1, <3>3
      <4> QED BY <2>2, <3>3, <4>1
    <3> QED BY <3>1, <3>2, <3>3
  <2>6. g = [k \in 0..(n + 1) |-> IF k = 0 THEN p ELSE PollRemove(g[k - 1], hs[k])]
    BY <2>4, <2>5
  <2>7. n + 1 \in 0..N
    BY <1>3
  <2> QED BY <2>6, <2>7
<1>4. N \in H
  <2>1. N \in Nat
    OBVIOUS
  <2> HIDE DEF H, N
  <2>2. \A n \in 0..N : n \in H
    BY <1>2, <1>3, <2>1, UpTo
  <2> QED BY <2>1, <2>2
<1>5. after = [n \in 0..Len(hs) |-> IF n = 0 THEN p ELSE PollRemove(after[n - 1], hs[n])]
  BY <1>4
<1> HIDE DEF after
<1>6. /\ after[0] = p
      /\ \A n \in 1..Len(hs) : after[n] = PollRemove(after[n - 1], hs[n])
  BY <1>5
<1> QED BY <1>1, <1>6

(* A poller whose index is what its clients take it for *)
Orderly(p) == TableType(p) /\ Sound(p) /\ Exact(p)

LEMMA RemoveEachKeeps ==
  ASSUME NEW p, Orderly(p), NEW hs \in Seq(Handle)
  PROVE  /\ Orderly(RemoveEach(p, hs))
         /\ DOMAIN RemoveEach(p, hs).index = DOMAIN p.index \ Range(hs)
<1> DEFINE N == Len(hs)
<1>1. N \in Nat /\ DOMAIN hs = 1..N /\ \A n \in 1..N : hs[n] \in Handle
  BY LenProperties, ElementOfSeq
<1>2. PICK after : /\ after[0] = p
                   /\ \A n \in 1..N : after[n] = PollRemove(after[n - 1], hs[n])
                   /\ RemoveEach(p, hs) = after[N]
  BY <1>1, RemovedOneByOne, SMTT(30)
<1> HIDE DEF N
<1> DEFINE gone(n) == {hs[k] : k \in 1..n}
           Good(n) == Orderly(after[n]) /\ DOMAIN after[n].index = DOMAIN p.index \ gone(n)
           H == {n \in 0..N : Good(n)}
<1>3. 0 \in H
  <2>1. gone(0) = {} /\ 0 \in 0..N
    BY <1>1
  <2> QED BY <1>2, <2>1
<1>4. ASSUME NEW n \in 0..N - 1, n \in H
      PROVE  n + 1 \in H
  <2>1. n + 1 \in 1..N /\ (n + 1) - 1 = n /\ n + 1 \in 0..N /\ 1..n + 1 = 1..n \cup {n + 1}
    BY <1>1
  <2>2. after[n + 1] = PollRemove(after[n], hs[n + 1])
    BY <1>2, <2>1
  <2>3. Orderly(after[n]) /\ DOMAIN after[n].index = DOMAIN p.index \ gone(n)
    BY <1>4
  <2>4. Orderly(PollRemove(after[n], hs[n + 1]))
    BY <1>1, <2>1, <2>3, RemoveKeeps DEF Orderly
  <2>5. DOMAIN PollRemove(after[n], hs[n + 1]).index = DOMAIN after[n].index \ {hs[n + 1]}
    BY DEF PollRemove, PollHas, Restrict
  <2>6. gone(n + 1) = gone(n) \cup {hs[n + 1]}
    BY <2>1
  <2> HIDE DEF gone
  <2> QED BY <2>1, <2>2, <2>3, <2>4, <2>5, <2>6
<1>5. N \in H
  <2> HIDE DEF H
  <2>1. \A n \in 0..N : n \in H
    BY <1>1, <1>3, <1>4, UpTo
  <2> QED BY <1>1, <2>1
<1>6. gone(N) = Range(hs)
  BY <1>1 DEF Range
<1> QED BY <1>2, <1>5, <1>6

LEMMA LaterItems ==
  ASSUME NEW fds \in Seq(Fds), NEW socks \in Seq(Sockets)
  PROVE  /\ fds \o socks \in Seq(Handle)
         /\ Range(fds \o socks) = Range(fds) \cup Range(socks)
         /\ fds = <<>> /\ socks = <<>> => fds \o socks = <<>>
<1> DEFINE m == Len(fds)
           n == Len(socks)
           s == fds \o socks
<1>1. /\ m \in Nat /\ DOMAIN fds = 1..m /\ \A k \in 1..m : fds[k] \in Handle
      /\ n \in Nat /\ DOMAIN socks = 1..n /\ \A k \in 1..n : socks[k] \in Handle
  BY LenProperties, ElementOfSeq DEF Handle
<1>2. fds \in Seq(Handle) /\ socks \in Seq(Handle)
  BY <1>1, LenProperties
<1>3. /\ s \in Seq(Handle) /\ Len(s) = m + n
      /\ \A k \in 1..m + n : s[k] = IF k <= m THEN fds[k] ELSE socks[k - m]
  BY <1>2, ConcatProperties
<1>4. DOMAIN s = 1..m + n
  BY <1>3, LenProperties
<1>5. fds = <<>> /\ socks = <<>> => s = <<>>
  BY <1>2, ConcatEmptySeq
<1> HIDE DEF s, m, n
<1>6. \A k \in 1..m : k \in 1..m + n /\ s[k] = fds[k]
  BY <1>1, <1>3
<1>7. \A k \in 1..n : m + k \in 1..m + n /\ s[m + k] = socks[k]
  <2> TAKE k \in 1..n
  <2>1. m + k \in 1..m + n /\ ~(m + k <= m) /\ (m + k) - m = k
    BY <1>1
  <2> QED BY <1>3, <2>1
<1>8. \A k \in 1..m + n : (\E i \in 1..m : s[k] = fds[i]) \/ (\E i \in 1..n : s[k] = socks[i])
  <2> TAKE k \in 1..m + n
  <2>1. CASE k <= m
    <3>1. k \in 1..m
      BY <1>1, <2>1
    <3> QED BY <1>6, <3>1
  <2>2. CASE ~(k <= m)
    <3>1. k - m \in 1..n
      BY <1>1, <2>2
    <3> QED BY <1>3, <2>2, <3>1
  <2> QED BY <2>1, <2>2
<1>9. Range(s) = Range(fds) \cup Range(socks)
  <2>1. /\ Range(s) = {s[k] : k \in 1..m + n}
        /\ Range(fds) = {fds[k] : k \in 1..m}
        /\ Range(socks) = {socks[k] : k \in 1..n}
    BY <1>1, <1>4 DEF Range
  <2>2. Range(s) \subseteq Range(fds) \cup Range(socks)
    BY <1>8, <2>1
  <2>3. Range(fds) \subseteq Range(s)
    BY <1>6, <2>1
  <2>4. Range(socks) \subseteq Range(s)
    BY <1>7, <2>1
  <2> QED BY <2>2, <2>3, <2>4
<1> QED BY <1>3, <1>5, <1>9 DEF s

-----------------------------------------------------------------------------
(* The loop's list, its poller and the calls of the client differ by the
   removals that are deferred, *)
Deferred == Range(fdRemoveLater) \cup Range(sockRemoveLater)

WatchInv ==
  /\ Orderly(poller_)
  /\ items \in Seq(Handle) /\ Range(items) = DOMAIN poller_.index
  /\ fdRemoveLater \in Seq(Fds) /\ sockRemoveLater \in Seq(Sockets)
  /\ wanted \cap Deferred = {}
  /\ wanted \subseteq DOMAIN poller_.index
  /\ DOMAIN poller_.index \subseteq wanted \cup Deferred

(* a cancelled timer is on the list of its removals, *)
OnTheList ==
  \A i \in DOMAIN timers :
    timers[i].serial \in cancelled => timers[i].id \in Range(timerRemoveLater)

(* and, if no handler throws, none is left when the thread goes to sleep; an
   item's asks for the round over the items to be left out. *)
DeferInv ==
  /\ pc \in {"stopped", "top", "polling", "leaving"} => ~dispatching
  /\ pc \in {"stopped", "polling"} =>
       fdRemoveLater = <<>> /\ sockRemoveLater = <<>> /\ timerRemoveLater = <<>>
  /\ pc \in {"timers", "timer handler"} /\ ~rebuild =>
       fdRemoveLater = <<>> /\ sockRemoveLater = <<>>

LEMMA DeferStep ==
  ASSUME MayThrow = FALSE, TimerInv, DeferInv, [LoopNext]_loopVars
  PROVE  DeferInv'
<1> USE DEF itemVars, later, locals, history
<1>0. pc \in {"timers", "timer handler", "sockets", "socket handler"} => dispatching
  BY DEF TimerInv
<1>1. ASSUME NEW h \in Handle, AddItem(h, Flags)
      PROVE  DeferInv'
  <2>1. /\ pc' \in {pc, "undefined"} /\ dispatching' = dispatching /\ rebuild'
        /\ fdRemoveLater' = fdRemoveLater /\ sockRemoveLater' = sockRemoveLater
        /\ timerRemoveLater' = timerRemoveLater
    BY <1>1 DEF AddItem
  <2> QED BY <2>1 DEF DeferInv
<1>2. ASSUME NEW h \in Handle, RemoveItem(h)
      PROVE  DeferInv'
  <2>1. /\ pc' = pc /\ dispatching' = dispatching /\ timerRemoveLater' = timerRemoveLater
    BY <1>2 DEF RemoveItem
  <2>2. CASE ~dispatching
    <3>1. /\ rebuild' = rebuild /\ fdRemoveLater' = fdRemoveLater
          /\ sockRemoveLater' = sockRemoveLater
      BY <1>2, <2>2 DEF RemoveItem
    <3> QED BY <2>1, <3>1 DEF DeferInv
  <2>3. CASE dispatching
    <3>1. pc \notin {"stopped", "top", "polling", "leaving"} /\ rebuild'
      BY <1>2, <2>3 DEF RemoveItem, DeferInv
    <3> QED BY <2>1, <3>1 DEF DeferInv
  <2> QED BY <2>2, <2>3
<1>3. ASSUME NEW i \in DOMAIN timers, RemoveTimer(i)
      PROVE  DeferInv'
  <2>1. /\ pc' = pc /\ dispatching' = dispatching /\ rebuild' = rebuild
        /\ fdRemoveLater' = fdRemoveLater /\ sockRemoveLater' = sockRemoveLater
        /\ ~dispatching => timerRemoveLater' = timerRemoveLater
    BY <1>3 DEF RemoveTimer
  <2> QED BY <2>1 DEF DeferInv
<1>4. ASSUME fdRemoveLater' = fdRemoveLater, sockRemoveLater' = sockRemoveLater,
             timerRemoveLater' = timerRemoveLater, dispatching' = dispatching,
             rebuild' = rebuild
      PROVE  /\ pc' = pc => DeferInv'
             /\ pc \in {"timers", "timer handler"} /\ pc' \in {"timers", "timer handler"}
                  => DeferInv'
             /\ pc' \in {"sockets", "socket handler", "undefined"} => DeferInv'
             /\ pc \in {"stopped", "polling"} /\ pc' \in {"top", "stopped"} => DeferInv'
  BY <1>4 DEF DeferInv
<1>5. ASSUME NEW delay \in Delays, NEW times \in Times, AddTimer(delay, times)
      PROVE  DeferInv'
  BY <1>4, <1>5 DEF AddTimer
<1>6. ASSUME NEW i \in DOMAIN timers, ResetTimer(i)
      PROVE  DeferInv'
  BY <1>4, <1>6 DEF ResetTimer
<1>7. CASE Start \/ PollThrows
  BY <1>4, <1>7 DEF Start, PollThrows
<1>8. CASE Top \/ Leave
  <2>1. /\ fdRemoveLater' = <<>> /\ sockRemoveLater' = <<>> /\ timerRemoveLater' = <<>>
        /\ dispatching' = dispatching /\ pc \in {"top", "leaving"}
    BY <1>8 DEF Top, Leave, Flush
  <2> QED BY <2>1 DEF DeferInv
<1>9. CASE FlushUndefined
  BY <1>9 DEF FlushUndefined, DeferInv
<1>10. CASE PollReturnsNothing \/ \E ready \in [Handle -> SUBSET Flags] : PollReturns(ready)
  <2>1. /\ fdRemoveLater' = fdRemoveLater /\ sockRemoveLater' = sockRemoveLater
        /\ pc = "polling" /\ pc' = "timers"
    BY <1>10 DEF PollReturnsNothing, PollReturns, BeginTimers
  <2> QED BY <2>1 DEF DeferInv
<1>11. CASE RunTimer
  BY <1>4, <1>11 DEF RunTimer
<1>12. ASSUME NEW ret \in BOOLEAN, TimerReturns(ret)
       PROVE  DeferInv'
  <2>1. /\ fdRemoveLater' = fdRemoveLater /\ sockRemoveLater' = sockRemoveLater
        /\ rebuild' = rebuild /\ pc = "timer handler"
        /\ pc' = (IF ret THEN "timers" ELSE "leaving") /\ dispatching' = ret
    BY <1>12 DEF TimerReturns
  <2> QED BY <2>1 DEF DeferInv
<1>13. CASE TimersEnd
  <2>1. pc' = "sockets" \/ (pc' = "top" /\ dispatching' = FALSE)
    BY <1>13 DEF TimersEnd
  <2> QED BY <2>1 DEF DeferInv
<1>14. CASE Dispatch
  <2>1. pc' \in {"sockets", "socket handler"}
    BY <1>14 DEF Dispatch
  <2> QED BY <2>1 DEF DeferInv
<1>15. ASSUME NEW ret \in BOOLEAN, SocketReturns(ret)
       PROVE  DeferInv'
  <2>1. pc' = (IF ret THEN "sockets" ELSE "leaving") /\ dispatching' = ret
    BY <1>15 DEF SocketReturns
  <2> QED BY <2>1 DEF DeferInv
<1>16. CASE SocketsEnd
  <2>1. pc' = "top" /\ ~dispatching'
    BY <1>16 DEF SocketsEnd
  <2> QED BY <2>1 DEF DeferInv
<1>17. CASE HandlerThrows
  BY <1>17 DEF HandlerThrows
<1>18. CASE Tick \/ Undefined \/ UNCHANGED loopVars
  BY <1>4, <1>18 DEF Tick, Undefined, loopVars
<1> QED BY <1>1, <1>2, <1>3, <1>5, <1>6, <1>7, <1>8, <1>9, <1>10, <1>11, <1>12, <1>13, <1>14,
           <1>15, <1>16, <1>17, <1>18
        DEF LoopNext, ClientCall, InsideStart

LEMMA OnTheListStep ==
  ASSUME TimerInv, DeferInv, OnTheList, [LoopNext]_loopVars
  PROVE  OnTheList'
<1> USE DEF itemVars, later, locals, history
<1>0. /\ timers \in Seq(Timer) /\ Distinct(timers) /\ timerRemoveLater \in Seq(Addr)
      /\ cancelled \subseteq 1..adds /\ adds \in Nat
  <2>1. adds \in 0..MaxAdds
    BY DEF TimerInv
  <2>2. adds \in Nat
    BY <2>1
  <2> QED BY <2>2 DEF TimerInv
<1>1. ASSUME Drawn(timers', timers), timerRemoveLater' = timerRemoveLater,
             cancelled' = cancelled
      PROVE  OnTheList'
  <2>1. \A k \in DOMAIN timers' : \E i \in DOMAIN timers :
          timers'[k].serial = timers[i].serial /\ timers'[k].id = timers[i].id
    BY <1>1, DrawnKeeps
  <2> QED BY <1>1, <2>1 DEF OnTheList, Range
<1>2. ASSUME NEW delay \in Delays, NEW times \in Times, AddTimer(delay, times)
      PROVE  OnTheList'
  <2>1. timerRemoveLater' = timerRemoveLater /\ cancelled' = cancelled
    BY <1>2 DEF AddTimer
  <2>2. /\ adds' = adds + 1
        /\ \A k \in DOMAIN timers' : \/ \E i \in DOMAIN timers : timers'[k] = timers[i]
                                     \/ timers'[k].serial = adds'
    BY <1>2, AddedTimer
  <2>3. adds' \notin cancelled
    BY <1>0, <2>2
  <2> QED BY <2>1, <2>2, <2>3 DEF OnTheList, Range
<1>3. ASSUME NEW i \in DOMAIN timers, ResetTimer(i)
      PROVE  OnTheList'
  <2>1. Drawn(timers', timers)
    BY <1>3, ResettedTimer
  <2> QED BY <1>1, <1>3, <2>1 DEF ResetTimer
<1>4. ASSUME NEW i \in DOMAIN timers, RemoveTimer(i)
      PROVE  OnTheList'
  <2>1. cancelled' = cancelled \cup {timers[i].serial}
    BY <1>4 DEF RemoveTimer
  <2>2. CASE timers' = Erase(timers, i) /\ timerRemoveLater' = timerRemoveLater
    <3>1. \A k \in DOMAIN timers' : \E j \in DOMAIN timers \ {i} : timers'[k] = timers[j]
      BY <1>0, <2>2, RemovedTimer
    <3> QED BY <1>0, <2>1, <2>2, <3>1 DEF OnTheList, Distinct, Range
  <2>3. CASE timers' = timers /\ timerRemoveLater' = Append(timerRemoveLater, timers[i].id)
    <3>1. timers[i].id \in Addr
      <4>1. timers[i] \in Timer
        BY <1>0, LenProperties, ElementOfSeq
      <4> QED BY <4>1 DEF Timer
    <3>2. Range(timerRemoveLater') = Range(timerRemoveLater) \cup {timers[i].id}
      BY <1>0, <2>3, <3>1, AppendedRange
    <3>3. Range(timerRemoveLater)' = Range(timerRemoveLater')
      BY DEF Range
    <3> QED BY <1>0, <2>1, <2>3, <3>2, <3>3 DEF OnTheList, Distinct
  <2> QED BY <1>4, <2>2, <2>3 DEF RemoveTimer
<1>5. CASE Top \/ Leave
  <2>1. Flush /\ ~dispatching /\ cancelled' = cancelled
    BY <1>5 DEF Top, Leave, DeferInv
  <2>2. \A k \in DOMAIN timers' : \E i \in DOMAIN timers :
          timers'[k] = timers[i] /\ timers[i].id \notin Range(timerRemoveLater)
    BY <2>1, FlushedTimers
  <2> QED BY <2>1, <2>2 DEF OnTheList
<1>6. ASSUME NEW ret \in BOOLEAN, TimerReturns(ret)
      PROVE  OnTheList'
  <2>1. Drawn(timers', timers)
    BY <1>6, ReturnedTimer
  <2> QED BY <1>1, <1>6, <2>1 DEF TimerReturns
<1>7. CASE TimersEnd
  <2>1. Drawn(timers', timers)
    BY <1>0, <1>7, SortTimers DEF TimersEnd
  <2> QED BY <1>1, <1>7, <2>1 DEF TimersEnd
<1>8. CASE TimersStay
  BY <1>1, <1>8, UnchangedDrawn DEF TimersStay
<1> QED BY <1>2, <1>3, <1>4, <1>5, <1>6, <1>7, <1>8, QuietSteps DEF StepOfTimers

LEMMA WatchedStep ==
  ASSUME WatchInv, DeferInv, [LoopNext]_loopVars
  PROVE  WatchInv'
<1> USE DEF itemVars, later, locals, history
<1>0. /\ Orderly(poller_) /\ items \in Seq(Handle)
      /\ Range(items) = DOMAIN poller_.index
      /\ fdRemoveLater \in Seq(Fds) /\ sockRemoveLater \in Seq(Sockets)
  BY DEF WatchInv
<1>a. /\ Range(items)' = Range(items')
      /\ Deferred' = Range(fdRemoveLater') \cup Range(sockRemoveLater')
  BY DEF Range, Deferred
<1>1. ASSUME poller_' = poller_, items' = items, fdRemoveLater' = fdRemoveLater,
             sockRemoveLater' = sockRemoveLater, wanted' = wanted
      PROVE  WatchInv'
  BY <1>1, <1>a DEF WatchInv, Deferred
<1>2. ASSUME NEW h \in Handle, AddItem(h, Flags)
      PROVE  WatchInv'
  <2>1. /\ ~PollHas(poller_, h) /\ poller_' = PollAdd(poller_, h, Flags)
        /\ items' = Append(items, h) /\ wanted' = wanted \cup {h}
        /\ fdRemoveLater' = fdRemoveLater /\ sockRemoveLater' = sockRemoveLater
        /\ h \notin Range(fdRemoveLater \o sockRemoveLater)
    BY <1>2 DEF AddItem, ItemsLater
  <2>2. h \notin Deferred /\ Deferred' = Deferred
    BY <1>0, <1>a, <2>1, LaterItems DEF Deferred
  <2>3. Orderly(poller_')
    BY <1>0, <2>1, AddKeeps DEF Orderly
  <2>4. DOMAIN poller_'.index = DOMAIN poller_.index \cup {h}
    BY <2>1 DEF PollAdd
  <2>5. items' \in Seq(Handle) /\ Range(items') = Range(items) \cup {h}
    BY <1>0, <2>1, AppendProperties, AppendedRange
  <2> QED BY <1>a, <2>1, <2>2, <2>3, <2>4, <2>5 DEF WatchInv, Orderly, TableType, Sound, Exact
<1>3. ASSUME NEW h \in Handle, RemoveItem(h)
      PROVE  WatchInv'
  <2>1. wanted' = wanted \ {h}
    BY <1>3 DEF RemoveItem
  <2>2. CASE ~dispatching
    <3>1. /\ poller_' = PollRemove(poller_, h) /\ items' = Without(items, {h})
          /\ fdRemoveLater' = fdRemoveLater /\ sockRemoveLater' = sockRemoveLater
      BY <1>3, <2>2 DEF RemoveItem
    <3>2. Orderly(poller_')
      BY <1>0, <3>1, RemoveKeeps DEF Orderly
    <3>3. DOMAIN poller_'.index = DOMAIN poller_.index \ {h}
      BY <3>1 DEF PollRemove, PollHas, Restrict
    <3>4. items' \in Seq(Handle) /\ Range(items') = Range(items) \ {h}
      BY <1>0, <3>1, WithoutElements
    <3>5. Deferred' = Deferred
      BY <1>a, <3>1 DEF Deferred
    <3> QED BY <1>a, <2>1, <3>1, <3>2, <3>3, <3>4, <3>5
            DEF WatchInv, Orderly, TableType, Sound, Exact
  <2>3. CASE dispatching
    <3>1. poller_' = poller_ /\ items' = items
      BY <1>3, <2>3 DEF RemoveItem
    <3>2. /\ fdRemoveLater' \in Seq(Fds) /\ sockRemoveLater' \in Seq(Sockets)
          /\ Deferred' = Deferred \cup {h}
      <4>1. CASE h \in Fds
        <5>1. /\ fdRemoveLater' = Append(fdRemoveLater, h)
              /\ sockRemoveLater' = sockRemoveLater
          BY <1>3, <2>3, <4>1 DEF RemoveItem
        <5>2. /\ fdRemoveLater' \in Seq(Fds)
              /\ Range(fdRemoveLater') = Range(fdRemoveLater) \cup {h}
          BY <1>0, <4>1, <5>1, AppendProperties, AppendedRange
        <5> QED BY <1>0, <1>a, <5>1, <5>2 DEF Deferred
      <4>2. CASE h \notin Fds
        <5>1. /\ sockRemoveLater' = Append(sockRemoveLater, h)
              /\ fdRemoveLater' = fdRemoveLater /\ h \in Sockets
          BY <1>3, <2>3, <4>2 DEF RemoveItem, Handle
        <5>2. /\ sockRemoveLater' \in Seq(Sockets)
              /\ Range(sockRemoveLater') = Range(sockRemoveLater) \cup {h}
          BY <1>0, <5>1, AppendProperties, AppendedRange
        <5> QED BY <1>0, <1>a, <5>1, <5>2 DEF Deferred
      <4> QED BY <4>1, <4>2
    <3> QED BY <1>a, <2>1, <3>1, <3>2 DEF WatchInv
  <2> QED BY <2>2, <2>3
<1>4. CASE Top \/ Leave
  <2>1. Flush /\ ~dispatching /\ wanted' = wanted
    BY <1>4 DEF Top, Leave, DeferInv
  <2>2. /\ poller_' = RemoveEach(poller_, ItemsLater)
        /\ items' = Without(items, Range(ItemsLater))
        /\ fdRemoveLater' = <<>> /\ sockRemoveLater' = <<>>
    BY <2>1 DEF Flush
  <2>3. ItemsLater \in Seq(Handle) /\ Range(ItemsLater) = Deferred
    BY <1>0, LaterItems DEF ItemsLater, Deferred
  <2>4. Orderly(poller_') /\ DOMAIN poller_'.index = DOMAIN poller_.index \ Deferred
    BY <1>0, <2>2, <2>3, RemoveEachKeeps
  <2>5. items' \in Seq(Handle) /\ Range(items') = Range(items) \ Deferred
    BY <1>0, <2>2, <2>3, WithoutElements
  <2>6. Deferred' = {} /\ <<>> \in Seq(Fds) /\ <<>> \in Seq(Sockets)
    BY <1>a, <2>2, EmptyRange, EmptySeq
  <2> QED BY <1>a, <2>1, <2>2, <2>4, <2>5, <2>6 DEF WatchInv, Orderly, TableType, Sound, Exact
<1>5. ASSUME NEW ready \in [Handle -> SUBSET Flags], PollReturns(ready)
      PROVE  WatchInv'
  <2>1. /\ poller_' = ZmqPoll(poller_, ready) /\ items' = items /\ wanted' = wanted
        /\ fdRemoveLater' = fdRemoveLater /\ sockRemoveLater' = sockRemoveLater
    BY <1>5 DEF PollReturns, BeginTimers
  <2>2. Orderly(poller_') /\ poller_'.index = poller_.index
    BY <1>0, <2>1, PollKeeps, PolledItems DEF Orderly
  <2> QED BY <1>a, <2>1, <2>2 DEF WatchInv, Deferred, Orderly, TableType, Sound, Exact
<1>6. ASSUME NEW ret \in BOOLEAN, TimerReturns(ret) \/ SocketReturns(ret)
      PROVE  WatchInv'
  BY <1>1, <1>6 DEF TimerReturns, SocketReturns
<1>7. CASE Start \/ FlushUndefined \/ PollReturnsNothing \/ PollThrows \/ RunTimer
  BY <1>1, <1>7 DEF Start, FlushUndefined, PollReturnsNothing, BeginTimers, PollThrows,
                    RunTimer
<1>8. CASE TimersEnd \/ Dispatch \/ SocketsEnd \/ HandlerThrows \/ Tick
  BY <1>1, <1>8 DEF TimersEnd, Dispatch, SocketsEnd, HandlerThrows, Tick
<1>9. ASSUME NEW delay \in Delays, NEW times \in Times, AddTimer(delay, times)
      PROVE  WatchInv'
  BY <1>1, <1>9 DEF AddTimer
<1>10. ASSUME NEW i \in DOMAIN timers, ResetTimer(i) \/ RemoveTimer(i)
       PROVE  WatchInv'
  BY <1>1, <1>10 DEF ResetTimer, RemoveTimer
<1>11. CASE Undefined \/ UNCHANGED loopVars
  BY <1>1, <1>11 DEF Undefined, loopVars
<1> QED BY <1>2, <1>3, <1>4, <1>5, <1>6, <1>7, <1>8, <1>9, <1>10, <1>11
        DEF LoopNext, ClientCall, InsideStart

RemovalInv == TimerInv /\ WatchInv /\ OnTheList /\ DeferInv

LEMMA RemovalInit == LoopInit => RemovalInv
<1> SUFFICES ASSUME LoopInit PROVE WatchInv /\ OnTheList /\ DeferInv
  BY TimerInit DEF RemovalInv
<1>1. /\ poller_ = EmptyPoller /\ items = <<>> /\ timers = <<>> /\ pc = "stopped"
      /\ fdRemoveLater = <<>> /\ sockRemoveLater = <<>> /\ timerRemoveLater = <<>>
      /\ wanted = {} /\ dispatching = FALSE
  BY DEF LoopInit
<1>2. /\ \A S : <<>> \in Seq(S)
      /\ DOMAIN timers = {}
  BY <1>1, EmptySeq, LenProperties
<1>3. OnTheList /\ DeferInv
  BY <1>1, <1>2 DEF OnTheList, DeferInv
<1>4. Orderly(poller_) /\ DOMAIN poller_.index = {}
  BY <1>1, InitTable DEF Orderly, EmptyPoller
<1>5. Range(items) = {} /\ Deferred = {}
  BY <1>1, EmptyRange DEF Deferred
<1>6. WatchInv
  BY <1>1, <1>2, <1>4, <1>5 DEF WatchInv
<1> QED BY <1>3, <1>6

LEMMA RemovalStep ==
  ASSUME MayThrow = FALSE, RemovalInv, [LoopNext]_loopVars
  PROVE  RemovalInv'
BY TimerStep, DeferStep, OnTheListStep, WatchedStep DEF RemovalInv

(* Whenever the thread goes to sleep, no removal is left undone: the loop's
   list, the poller's index and the calls of the client agree and no cancelled
   timer is left (loop.cpp:208-219), for any number of items, timers and
   deferred removals, if no handler throws. *)
THEOREM RemovalsDoneBeforeSleep ==
  ASSUME MayThrow = FALSE
  PROVE  LoopSpec => []RemovalsDone
<1>1. LoopInit => RemovalInv
  BY RemovalInit
<1>2. RemovalInv /\ [LoopNext]_loopVars => RemovalInv'
  BY RemovalStep
<1>3. RemovalInv => RemovalsDone
  <2> SUFFICES ASSUME RemovalInv, pc = "polling"
               PROVE  /\ Range(items) = wanted /\ DOMAIN poller_.index = wanted
                      /\ Serials(timers) \cap cancelled = {}
    BY DEF RemovalsDone
  <2>1. Deferred = {} /\ Range(timerRemoveLater) = {}
    BY EmptyRange DEF RemovalInv, DeferInv, Deferred
  <2>2. Range(items) = wanted /\ DOMAIN poller_.index = wanted
    BY <2>1 DEF RemovalInv, WatchInv
  <2>3. \A i \in DOMAIN timers : timers[i].serial \notin cancelled
    BY <2>1 DEF RemovalInv, OnTheList
  <2> QED BY <2>2, <2>3 DEF Serials
<1> QED BY <1>1, <1>2, <1>3, PTL DEF LoopSpec

(* A socket that a timer handler removed does not get its handler called for
   what was polled before: the round over the items begins only with the items
   the client wants (loop.cpp:159-160), if no handler throws. *)
THEOREM TimersBeforeSockets ==
  ASSUME MayThrow = FALSE
  PROVE  LoopSpec => SocketsSeeRemovals
<1> DEFINE Sees == pc = "timers" /\ pc' = "sockets" => Range(items') = wanted'
<1>1. LoopInit => RemovalInv
  BY RemovalInit
<1>2. RemovalInv /\ [LoopNext]_loopVars => RemovalInv'
  BY RemovalStep
<1>3. RemovalInv /\ [LoopNext]_loopVars => Sees
  <2> SUFFICES ASSUME RemovalInv, [LoopNext]_loopVars, pc = "timers", pc' = "sockets"
               PROVE  Range(items') = wanted'
    OBVIOUS
  <2>1. TimersEnd
    <3>1. ~ClientCall
      BY DEF ClientCall, AddItem, RemoveItem, AddTimer, ResetTimer, RemoveTimer, Start,
             InClientCode
    <3>2. ~(Top \/ FlushUndefined \/ PollReturnsNothing \/ PollThrows \/ RunTimer)
      BY DEF Top, FlushUndefined, PollReturnsNothing, PollThrows, RunTimer
    <3>3. ~(\E ready \in [Handle -> SUBSET Flags] : PollReturns(ready))
      BY DEF PollReturns
    <3>4. ~(\E ret \in BOOLEAN : TimerReturns(ret) \/ SocketReturns(ret))
      BY DEF TimerReturns, SocketReturns
    <3>5. ~(Dispatch \/ SocketsEnd \/ Leave \/ HandlerThrows)
      BY DEF Dispatch, SocketsEnd, Leave, HandlerThrows
    <3>6. ~(Tick \/ Undefined \/ UNCHANGED loopVars)
      BY DEF Tick, Undefined, InClientCode, loopVars
    <3> QED BY <3>1, <3>2, <3>3, <3>4, <3>5, <3>6 DEF LoopNext, InsideStart
  <2>2. ~rebuild /\ items' = items /\ wanted' = wanted
    BY <2>1 DEF TimersEnd, ServeItems, itemVars
  <2>3. Deferred = {}
    BY <2>2, EmptyRange DEF RemovalInv, DeferInv, Deferred
  <2> QED BY <2>2, <2>3 DEF RemovalInv, WatchInv
<1>4. SocketsSeeRemovals <=> [][Sees]_loopVars
  BY DEF SocketsSeeRemovals
<1> HIDE DEF Sees
<1> QED BY <1>1, <1>2, <1>3, <1>4, PTL DEF LoopSpec

-----------------------------------------------------------------------------
(* Types, for any client and whatever throws.  The operations of the poller
   keep them only with its index in order. *)
ItemsInv ==
  /\ Orderly(poller_)
  /\ items \in Seq(Handle) /\ capacity \in Nat /\ Len(items) <= capacity
  /\ fdRemoveLater \in Seq(Fds) /\ sockRemoveLater \in Seq(Sockets)
  /\ wanted \subseteq Handle

PlaceInv ==
  /\ pc \in PC /\ it \in Serial \cup {NoTimer}
  /\ dispatching \in BOOLEAN /\ rebuild \in BOOLEAN /\ pollRc \in BOOLEAN /\ disorder \in BOOLEAN
  /\ timeNow \in Nat /\ cursor \in Nat /\ last \in Nat

LoopTypeInv == TimerInv /\ ItemsInv /\ PlaceInv

LEMMA LoopTypeInit == LoopInit => LoopTypeInv
<1> SUFFICES ASSUME LoopInit PROVE ItemsInv /\ PlaceInv
  BY TimerInit DEF LoopTypeInv
<1>1. PlaceInv
  BY DEF LoopInit, PlaceInv, PC, NoTimer
<1>2. /\ poller_ = EmptyPoller /\ items = <<>> /\ capacity = 0
      /\ fdRemoveLater = <<>> /\ sockRemoveLater = <<>> /\ wanted = {}
  BY DEF LoopInit
<1>3. \A S : <<>> \in Seq(S) /\ Len(<<>>) = 0
  BY EmptySeq
<1> QED BY <1>1, <1>2, <1>3, InitTable DEF ItemsInv, Orderly

LEMMA ItemsStep ==
  ASSUME ItemsInv, [LoopNext]_loopVars
  PROVE  ItemsInv'
<1> USE DEF itemVars, later, locals, history
<1>0. /\ Orderly(poller_) /\ items \in Seq(Handle) /\ Len(items) \in Nat /\ capacity \in Nat
      /\ Len(items) <= capacity /\ fdRemoveLater \in Seq(Fds) /\ sockRemoveLater \in Seq(Sockets)
      /\ wanted \subseteq Handle
  BY LenProperties DEF ItemsInv
<1>a. ASSUME Orderly(poller_'), items' \in Seq(Handle), capacity' \in Nat,
             Len(items') <= capacity', fdRemoveLater' \in Seq(Fds),
             sockRemoveLater' \in Seq(Sockets), wanted' \subseteq Handle
      PROVE  ItemsInv'
  BY <1>a DEF ItemsInv, Orderly, TableType, Sound, Exact
<1>b. ASSUME poller_' = poller_, items' = items, capacity' = capacity, wanted' = wanted,
             fdRemoveLater' = fdRemoveLater, sockRemoveLater' = sockRemoveLater
      PROVE  ItemsInv'
  BY <1>0, <1>a, <1>b
<1>1. ASSUME NEW h \in Handle, AddItem(h, Flags)
      PROVE  ItemsInv'
  <2>1. /\ ~PollHas(poller_, h) /\ poller_' = PollAdd(poller_, h, Flags)
        /\ items' = Append(items, h) /\ wanted' = wanted \cup {h}
        /\ fdRemoveLater' = fdRemoveLater /\ sockRemoveLater' = sockRemoveLater
        /\ capacity' = IF Len(items) < capacity THEN capacity
                       ELSE IF capacity = 0 THEN 1 ELSE 2 * capacity
    BY <1>1 DEF AddItem
  <2>2. Orderly(poller_')
    BY <1>0, <2>1, AddKeeps DEF Orderly
  <2>3. items' \in Seq(Handle) /\ Len(items') = Len(items) + 1
    BY <1>0, <2>1, AppendProperties
  <2>4. capacity' \in Nat /\ Len(items) + 1 <= capacity'
    BY <1>0, <2>1
  <2> QED BY <1>0, <1>a, <2>1, <2>2, <2>3, <2>4
<1>2. ASSUME NEW h \in Handle, RemoveItem(h)
      PROVE  ItemsInv'
  <2>1. wanted' \subseteq Handle /\ capacity' = capacity
    BY <1>0, <1>2 DEF RemoveItem
  <2>2. CASE ~dispatching
    <3>1. /\ poller_' = PollRemove(poller_, h) /\ items' = Without(items, {h})
          /\ fdRemoveLater' = fdRemoveLater /\ sockRemoveLater' = sockRemoveLater
      BY <1>2, <2>2 DEF RemoveItem
    <3>2. Orderly(poller_')
      BY <1>0, <3>1, RemoveKeeps DEF Orderly
    <3>3. items' \in Seq(Handle) /\ Len(items') <= Len(items) /\ Len(items') \in Nat
      BY <1>0, <3>1, WithoutElements, LenProperties
    <3>4. Len(items') <= capacity
      BY <1>0, <3>3
    <3> QED BY <1>0, <1>a, <2>1, <3>1, <3>2, <3>3, <3>4
  <2>3. CASE dispatching
    <3>1. poller_' = poller_ /\ items' = items
      BY <1>2, <2>3 DEF RemoveItem
    <3>2. CASE h \in Fds
      <4>1. fdRemoveLater' = Append(fdRemoveLater, h) /\ sockRemoveLater' = sockRemoveLater
        BY <1>2, <2>3, <3>2 DEF RemoveItem
      <4>2. fdRemoveLater' \in Seq(Fds)
        BY <1>0, <3>2, <4>1, AppendProperties
      <4> QED BY <1>0, <1>a, <2>1, <3>1, <4>1, <4>2
    <3>3. CASE h \notin Fds
      <4>1. /\ sockRemoveLater' = Append(sockRemoveLater, h) /\ fdRemoveLater' = fdRemoveLater
            /\ h \in Sockets
        BY <1>2, <2>3, <3>3 DEF RemoveItem, Handle
      <4>2. sockRemoveLater' \in Seq(Sockets)
        BY <1>0, <4>1, AppendProperties
      <4> QED BY <1>0, <1>a, <2>1, <3>1, <4>1, <4>2
    <3> QED BY <3>2, <3>3
  <2> QED BY <2>2, <2>3
<1>3. CASE Top \/ Leave
  <2>1. Flush /\ wanted' = wanted /\ capacity' = capacity
    BY <1>3 DEF Top, Leave
  <2>2. /\ fdRemoveLater' = <<>> /\ sockRemoveLater' = <<>>
        /\ \/ poller_' = poller_ /\ items' = items
           \/ /\ poller_' = RemoveEach(poller_, ItemsLater)
              /\ items' = Without(items, Range(ItemsLater))
    BY <2>1 DEF Flush
  <2>3. ItemsLater \in Seq(Handle)
    BY <1>0, LaterItems DEF ItemsLater
  <2>4. Orderly(poller_')
    BY <1>0, <2>2, <2>3, RemoveEachKeeps
  <2>5. items' \in Seq(Handle) /\ Len(items') \in Nat /\ Len(items') <= Len(items)
    BY <1>0, <2>2, WithoutElements, LenProperties
  <2>6. Len(items') <= capacity /\ <<>> \in Seq(Fds) /\ <<>> \in Seq(Sockets)
    BY <1>0, <2>5, EmptySeq
  <2> QED BY <1>0, <1>a, <2>1, <2>2, <2>4, <2>5, <2>6
<1>4. ASSUME NEW ready \in [Handle -> SUBSET Flags], PollReturns(ready)
      PROVE  ItemsInv'
  <2>1. /\ poller_' = ZmqPoll(poller_, ready) /\ items' = items /\ wanted' = wanted
        /\ fdRemoveLater' = fdRemoveLater /\ sockRemoveLater' = sockRemoveLater
        /\ capacity' = capacity
    BY <1>4 DEF PollReturns, BeginTimers
  <2>2. Orderly(poller_')
    BY <1>0, <2>1, PollKeeps DEF Orderly
  <2> QED BY <1>0, <1>a, <2>1, <2>2
<1>5. ASSUME NEW ret \in BOOLEAN, TimerReturns(ret) \/ SocketReturns(ret)
      PROVE  ItemsInv'
  BY <1>b, <1>5 DEF TimerReturns, SocketReturns
<1>6. CASE Start \/ FlushUndefined \/ PollReturnsNothing \/ PollThrows \/ RunTimer
  BY <1>b, <1>6 DEF Start, FlushUndefined, PollReturnsNothing, BeginTimers, PollThrows,
                    RunTimer
<1>7. CASE TimersEnd \/ Dispatch \/ SocketsEnd \/ HandlerThrows \/ Tick
  BY <1>b, <1>7 DEF TimersEnd, Dispatch, SocketsEnd, HandlerThrows, Tick
<1>8. ASSUME NEW delay \in Delays, NEW times \in Times, AddTimer(delay, times)
      PROVE  ItemsInv'
  BY <1>b, <1>8 DEF AddTimer
<1>9. ASSUME NEW i \in DOMAIN timers, ResetTimer(i) \/ RemoveTimer(i)
      PROVE  ItemsInv'
  BY <1>b, <1>9 DEF ResetTimer, RemoveTimer
<1>10. CASE Undefined \/ UNCHANGED loopVars
  BY <1>b, <1>10 DEF Undefined, loopVars
<1> QED BY <1>1, <1>2, <1>3, <1>4, <1>5, <1>6, <1>7, <1>8, <1>9, <1>10
        DEF LoopNext, ClientCall, InsideStart

LEMMA SerialsSoFar == adds \in 0..MaxAdds => 1..adds \subseteq Serial
BY LoopAssumption DEF Serial

LEMMA PlaceStep ==
  ASSUME LoopTypeInv, [LoopNext]_loopVars
  PROVE  PlaceInv'
<1> USE DEF itemVars, later, locals, history
<1>0. /\ pc \in PC /\ it \in Serial \cup {NoTimer}
      /\ dispatching \in BOOLEAN /\ rebuild \in BOOLEAN /\ pollRc \in BOOLEAN
      /\ disorder \in BOOLEAN /\ timeNow \in Nat /\ cursor \in Nat /\ last \in Nat
  BY DEF LoopTypeInv, PlaceInv
<1>a. /\ Serials(timers) \subseteq Serial /\ timers \in Seq(Timer) /\ now \in Nat
      /\ Len(items) \in Nat /\ cursor + 1 \in Nat
  <2>1. cursor + 1 \in Nat
    BY <1>0
  <2>2. /\ timers \in Seq(Timer) /\ items \in Seq(Handle) /\ now \in Nat
        /\ Serials(timers) \subseteq 1..adds /\ 1..adds \subseteq Serial
    BY SerialsSoFar DEF LoopTypeInv, TimerInv, ItemsInv
  <2> QED BY <2>1, <2>2, LenProperties
<1>1. ASSUME NEW h \in Handle, AddItem(h, Flags)
      PROVE  PlaceInv'
  BY <1>0, <1>1 DEF AddItem, PlaceInv, PC
<1>2. ASSUME NEW h \in Handle, RemoveItem(h)
      PROVE  PlaceInv'
  BY <1>0, <1>2 DEF RemoveItem, PlaceInv
<1>3. CASE Top \/ Leave
  BY <1>0, <1>3 DEF Top, Leave, FlushAsksRebuild, PlaceInv, PC
<1>4. ASSUME NEW rc \in BOOLEAN, BeginTimers(rc)
      PROVE  PlaceInv'
  <2>1. it' \in Serial \cup {NoTimer}
    <3>1. it' = NextOf(timers, 0)
      BY <1>4 DEF BeginTimers, First
    <3>2. \A j \in DOMAIN timers : timers[j].serial \in Serial
      BY <1>a DEF Serials
    <3> QED BY <1>a, <3>1, <3>2, NextStays
  <2> QED BY <1>0, <1>a, <1>4, <2>1 DEF BeginTimers, PlaceInv, PC
<1>5. ASSUME NEW ready \in [Handle -> SUBSET Flags], PollReturns(ready)
      PROVE  PlaceInv'
  <2>1. SomeReported(poller_') \in BOOLEAN
    BY DEF SomeReported
  <2> QED BY <1>4, <1>5, <2>1 DEF PollReturns
<1>6. CASE PollReturnsNothing
  BY <1>4, <1>6 DEF PollReturnsNothing
<1>7. ASSUME NEW ret \in BOOLEAN, TimerReturns(ret)
      PROVE  PlaceInv'
  <2>1. it' \in Serial \cup {NoTimer}
    <3>1. timers' \in Seq(Timer) /\ Drawn(timers', timers)
          /\ (it' = NoTimer \/ it' \in Serials(timers'))
      BY <1>7, ReturnedTimer DEF LoopTypeInv
    <3>2. Serials(timers') \subseteq Serial
      <4>1. ASSUME NEW t \in Timer PROVE t.serial \in Serial
        BY <4>1 DEF Timer
      <4>2. \A i \in DOMAIN timers' : timers'[i] \in Timer
        BY <3>1, LenProperties, ElementOfSeq
      <4> QED BY <4>1, <4>2 DEF Serials
    <3> QED BY <3>1, <3>2
  <2> QED BY <1>0, <1>7, <2>1 DEF TimerReturns, PlaceInv, PC
<1>8. ASSUME NEW ret \in BOOLEAN, SocketReturns(ret)
      PROVE  PlaceInv'
  <2>1. pc' \in {"sockets", "leaving"} /\ dispatching' = ret /\ cursor' = cursor + 1
        /\ UNCHANGED <<it, rebuild, pollRc, disorder, timeNow, last>>
    BY <1>8 DEF SocketReturns
  <2>2. pc' \in PC
    BY <2>1 DEF PC
  <2> QED BY <1>0, <1>a, <2>1, <2>2 DEF PlaceInv
<1>9. CASE Start \/ FlushUndefined \/ PollThrows \/ RunTimer
  BY <1>0, <1>9 DEF Start, FlushUndefined, PollThrows, RunTimer, PlaceInv, PC
<1>10. CASE TimersEnd \/ Dispatch
  <2>1. /\ pc' \in {"sockets", "top", "socket handler"} /\ dispatching' \in {dispatching, FALSE}
        /\ cursor' = cursor \/ cursor' = 1 \/ cursor' = cursor + 1
        /\ last' = last \/ last' = Len(items)
        /\ disorder' \in {disorder, FALSE} /\ UNCHANGED <<it, rebuild, pollRc, timeNow>>
    BY <1>10 DEF TimersEnd, Dispatch
  <2>2. pc' \in PC
    BY <2>1 DEF PC
  <2>3. cursor' \in Nat /\ last' \in Nat
    <3>1. cursor \in Nat /\ cursor + 1 \in Nat /\ last \in Nat /\ Len(items) \in Nat /\ 1 \in Nat
      BY <1>0, <1>a
    <3> QED BY <2>1, <3>1, Zenon
  <2>4. /\ it' \in Serial \cup {NoTimer} /\ rebuild' \in BOOLEAN /\ pollRc' \in BOOLEAN
        /\ timeNow' \in Nat
    BY <1>0, <2>1
  <2>5. dispatching' \in BOOLEAN /\ disorder' \in BOOLEAN
    BY <1>0, <2>1
  <2> QED BY <2>2, <2>3, <2>4, <2>5 DEF PlaceInv
<1>11. CASE SocketsEnd \/ HandlerThrows \/ Tick
  BY <1>0, <1>11 DEF SocketsEnd, HandlerThrows, Tick, PlaceInv, PC
<1>12. ASSUME NEW delay \in Delays, NEW times \in Times, AddTimer(delay, times)
       PROVE  PlaceInv'
  BY <1>0, <1>12 DEF AddTimer, PlaceInv
<1>13. ASSUME NEW i \in DOMAIN timers, ResetTimer(i) \/ RemoveTimer(i)
       PROVE  PlaceInv'
  BY <1>0, <1>13 DEF ResetTimer, RemoveTimer, PlaceInv
<1>14. CASE Undefined \/ UNCHANGED loopVars
  BY <1>0, <1>14 DEF Undefined, loopVars, PlaceInv
<1> QED BY <1>1, <1>2, <1>3, <1>5, <1>6, <1>7, <1>8, <1>9, <1>10, <1>11, <1>12, <1>13, <1>14
        DEF LoopNext, ClientCall, InsideStart

(* Of the loop, for any client, any number of items and timers and whatever
   handler throws; in particular the vector of items never outgrows what it
   has allocated (loop.cpp:21-131). *)
THEOREM LoopTypesKept == LoopSpec => []LoopTypeOK
<1>1. LoopTypeInv /\ [LoopNext]_loopVars => LoopTypeInv'
  BY TimerStep, ItemsStep, PlaceStep DEF LoopTypeInv
<1>2. LoopTypeInv => LoopTypeOK
  <2> SUFFICES ASSUME LoopTypeInv PROVE LoopTypeOK OBVIOUS
  <2>1. wake \in Nat /\ now \in Nat /\ adds \in 0..MaxAdds /\ timers \in Seq(Timer)
        /\ timerRemoveLater \in Seq(Addr) /\ cancelled \subseteq Serial
    BY SerialsSoFar DEF LoopTypeInv, TimerInv
  <2> QED BY <2>1 DEF LoopTypeInv, ItemsInv, PlaceInv, Orderly, LoopTypeOK
<1> QED BY <1>1, <1>2, LoopTypeInit, PTL DEF LoopSpec
=============================================================================
