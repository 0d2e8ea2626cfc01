--------------------------- MODULE ReactorProofs ---------------------------
(***************************************************************************)
(* What the deferred removals of a reactor come to, for any set of handles *)
(* and events and any number of registrations and removals, with handlers  *)
(* that throw and sockets that are closed: for a client that adds no       *)
(* handle it has added or whose removal is pending.  For the same client,  *)
(* that a round calls every handler it owes a call.  And for any client,   *)
(* that the list of handlers and the poller agree.                         *)
(***************************************************************************)
EXTENDS Reactor, PollTableProofs

(* What the client keeps to *)
Careful == AddTwice = FALSE /\ ReAdd = FALSE

(* The handles whose deferred removal is n-th or later. *)
LaterFrom(n) == {RemoveLater[k] : k \in n..Len(RemoveLater)}

(* The removals that the client has asked for and that are yet to be made: all
   that are noted down while dispatching_, those not reached by the flush. *)
Outstanding ==
  IF dispatching THEN LaterFrom(1)
  ELSE IF pc = "flush" THEN LaterFrom(cursor) ELSE {}

TableInv ==
  /\ TableType(poller) /\ Sound(poller) /\ Exact(poller)
  /\ fdRemoveLater \in Seq(Fds) /\ sockRemoveLater \in Seq(Sockets)

PlaceInv ==
  /\ pc \in PC /\ cursor \in Nat \ {0}
  /\ pc \in {"dispatch", "handler"} => dispatching
  /\ pc = "flush" => ~dispatching

(* Wanted handles are watched, open and not to be removed, and whatever else is
   watched is closed or to be removed. *)
WantedInv ==
  /\ wanted \subseteq DOMAIN poller.index
  /\ wanted \cap closed = {} /\ wanted \cap LaterFrom(1) = {}
  /\ DOMAIN poller.index \subseteq wanted \cup closed \cup Outstanding

ReactorInv == TableInv /\ PlaceInv /\ WantedInv

-----------------------------------------------------------------------------
(* The list the flush goes through *)
LEMMA JoinedLists ==
  ASSUME NEW a \in Seq(Fds), NEW b \in Seq(Sockets)
  PROVE  LET s == a \o b
         IN /\ Len(s) \in Nat
            /\ \A k \in 1..Len(s) : s[k] \in Handle
            /\ DOMAIN s = 1..Len(s)
            /\ Range(s) = Range(a) \cup Range(b)
<1> DEFINE s == a \o b
<1>1. a \in Seq(Handle) /\ b \in Seq(Handle)
  BY DEF Handle
<1>2. /\ s \in Seq(Handle)
      /\ Len(s) = Len(a) + Len(b)
      /\ \A k \in 1..Len(s) : s[k] = IF k <= Len(a) THEN a[k] ELSE b[k - Len(a)]
  BY <1>1, ConcatProperties
<1> HIDE DEF s
<1>3. /\ Len(a) \in Nat /\ Len(b) \in Nat
      /\ DOMAIN a = 1..Len(a) /\ DOMAIN b = 1..Len(b) /\ DOMAIN s = 1..Len(s)
  BY <1>1, <1>2, LenProperties
<1>4. \A k \in 1..Len(s) : s[k] \in Handle
  BY <1>2, ElementOfSeq
<1>5. ASSUME NEW k \in DOMAIN s
      PROVE  s[k] \in Range(a) \cup Range(b)
  <2>1. CASE k <= Len(a)
    BY <1>2, <1>3, <2>1 DEF Range
  <2>2. CASE k > Len(a)
    <3>1. s[k] = b[k - Len(a)] /\ k - Len(a) \in DOMAIN b
      BY <1>2, <1>3, <2>2
    <3>2. QED BY <3>1 DEF Range
  <2>3. QED BY <1>3, <2>1, <2>2
<1>6. Range(a) \subseteq Range(s)
  BY <1>2, <1>3, SMTT(30) DEF Range
<1>7. ASSUME NEW k \in DOMAIN b
      PROVE  b[k] \in Range(s)
  <2>1. k + Len(a) \in DOMAIN s /\ s[k + Len(a)] = b[k]
    BY <1>2, <1>3
  <2>2. QED BY <2>1 DEF Range
<1>8. QED BY <1>2, <1>3, <1>4, <1>5, <1>6, <1>7 DEF Range, s

LEMMA LaterList ==
  ASSUME fdRemoveLater \in Seq(Fds), sockRemoveLater \in Seq(Sockets)
  PROVE  /\ Len(RemoveLater) \in Nat
         /\ \A k \in 1..Len(RemoveLater) : RemoveLater[k] \in Handle
         /\ LaterFrom(1) = Range(RemoveLater)
         /\ LaterFrom(1) = Range(fdRemoveLater) \cup Range(sockRemoveLater)
BY JoinedLists DEF RemoveLater, LaterFrom, Range

LEMMA AppendRange ==
  ASSUME NEW S, NEW s \in Seq(S), NEW x \in S
  PROVE  Range(Append(s, x)) = Range(s) \cup {x}
<1> DEFINE t == Append(s, x)
<1>1. /\ DOMAIN s = 1..Len(s) /\ DOMAIN t = 1..(Len(s) + 1) /\ Len(s) \in Nat
      /\ \A k \in 1..Len(s) : t[k] = s[k]
      /\ t[Len(s) + 1] = x
  OBVIOUS
<1> HIDE DEF t
<1>2. 1..(Len(s) + 1) = 1..Len(s) \cup {Len(s) + 1}
  BY <1>1
<1>3. QED BY <1>1, <1>2 DEF Range, t

LEMMA RemovedDomain ==
  ASSUME NEW p, NEW h
  PROVE  DOMAIN PollRemove(p, h).index = DOMAIN p.index \ {h}
BY DEF PollRemove, PollHas, Restrict

(* The removal itself, at once or by the flush *)
LEMMA RemoveNowKeeps ==
  ASSUME TableType(poller), Sound(poller), Exact(poller), NEW h \in Handle, RemoveNow(h)
  PROVE  /\ TableType(poller') /\ Sound(poller') /\ Exact(poller')
         /\ DOMAIN poller'.index =
              IF h \in closed THEN DOMAIN poller.index ELSE DOMAIN poller.index \ {h}
BY RemoveKeeps, RemovedDomain DEF RemoveNow

LEMMA InitReactorInv == Init => ReactorInv
<1> SUFFICES ASSUME Init PROVE ReactorInv OBVIOUS
<1>1. TableInv
  BY InitTable, EmptySeq DEF Init, TableInv
<1>2. PlaceInv
  BY DEF Init, PlaceInv, PC
<1>3. DOMAIN poller.index = {} /\ LaterFrom(1) = {}
  <2>1. RemoveLater = <<>> BY DEF Init, RemoveLater
  <2>2. QED BY <2>1 DEF Init, EmptyPoller, LaterFrom
<1>4. WantedInv
  BY <1>3 DEF Init, WantedInv
<1>5. QED BY <1>1, <1>2, <1>4 DEF ReactorInv

-----------------------------------------------------------------------------
(* A handle that is not wanted may be added only if nothing of it is left. *)
LEMMA AddInv ==
  ASSUME Careful, ReactorInv, NEW h \in Handle, NEW events \in EventChoices, Add(h, events)
  PROVE  ReactorInv'
<1>1. /\ h \notin wanted /\ h \notin closed /\ ~PollHas(poller, h) /\ h \notin LaterFrom(1)
  BY LaterList DEF Add, Careful, Pending, ReactorInv, TableInv
<1>2. events \in SUBSET Flags
  BY ReactorAssumption DEF ReactorAssumption
<1>3. UNCHANGED <<fdRemoveLater, sockRemoveLater, dispatching, cursor, closed>>
  BY DEF Add, later, loopVars
<1>4. TableInv'
  BY <1>1, <1>2, <1>3, AddKeeps DEF Add, ReactorInv, TableInv
<1>5. PlaceInv'
  BY <1>3 DEF Add, ReactorInv, PlaceInv, PC
<1>6. DOMAIN poller'.index = DOMAIN poller.index \cup {h}
  BY DEF Add, PollAdd
<1>7. LaterFrom(1)' = LaterFrom(1) /\ LaterFrom(cursor)' = LaterFrom(cursor)
  BY <1>3 DEF LaterFrom, RemoveLater
<1>8. Outstanding' = Outstanding
  BY <1>3, <1>7 DEF Outstanding, Add, InClientCode, ReactorInv, PlaceInv
<1>9. WantedInv'
  BY <1>1, <1>3, <1>6, <1>7, <1>8 DEF Add, ReactorInv, WantedInv
<1>10. QED BY <1>4, <1>5, <1>9 DEF ReactorInv

LEMMA RemoveInv ==
  ASSUME Careful, ReactorInv, NEW h \in Handle, Remove(h)
  PROVE  ReactorInv'
<1>1. UNCHANGED <<dispatching, closed, pc, cursor>> /\ wanted' = wanted \ {h}
  BY DEF Remove, loopVars
<1>2. PlaceInv'
  BY <1>1 DEF ReactorInv, PlaceInv
<1>3. CASE ~dispatching
  <2>1. UNCHANGED <<fdRemoveLater, sockRemoveLater>> /\ RemoveNow(h)
    BY <1>3 DEF Remove, later
  <2>2. TableInv'
    BY <2>1, RemoveNowKeeps DEF ReactorInv, TableInv
  <2>3. pc = "idle"
    BY <1>3 DEF Remove, InClientCode, ReactorInv, PlaceInv
  <2>4. Outstanding = {} /\ Outstanding' = {}
    BY <1>1, <1>3, <2>3 DEF Outstanding
  <2>5. LaterFrom(1)' = LaterFrom(1)
    BY <2>1 DEF LaterFrom, RemoveLater
  <2>6. DOMAIN poller'.index =
          IF h \in closed THEN DOMAIN poller.index ELSE DOMAIN poller.index \ {h}
    BY <2>1, RemoveNowKeeps DEF ReactorInv, TableInv
  <2>7. WantedInv'
    BY <1>1, <2>4, <2>5, <2>6 DEF ReactorInv, WantedInv
  <2>8. QED BY <1>2, <2>2, <2>7 DEF ReactorInv
<1>4. CASE dispatching
  <2>1. /\ UNCHANGED poller
        /\ \/ /\ h \in Fds
              /\ fdRemoveLater' = Append(fdRemoveLater, h) /\ UNCHANGED sockRemoveLater
           \/ /\ h \in Sockets
              /\ sockRemoveLater' = Append(sockRemoveLater, h) /\ UNCHANGED fdRemoveLater
    BY <1>4 DEF Remove, data, Handle
  <2> DEFINE noted == Range(fdRemoveLater) \cup Range(sockRemoveLater)
  <2>2. /\ fdRemoveLater' \in Seq(Fds) /\ sockRemoveLater' \in Seq(Sockets)
        /\ Range(fdRemoveLater') \cup Range(sockRemoveLater') = noted \cup {h}
    <3>1. fdRemoveLater \in Seq(Fds) /\ sockRemoveLater \in Seq(Sockets)
      BY DEF ReactorInv, TableInv
    <3>2. CASE h \in Fds /\ fdRemoveLater' = Append(fdRemoveLater, h) /\ UNCHANGED sockRemoveLater
      <4>1. Range(fdRemoveLater') = Range(fdRemoveLater) \cup {h}
        BY <3>1, <3>2, AppendRange
      <4>2. fdRemoveLater' \in Seq(Fds)
        BY <3>1, <3>2, AppendProperties
      <4>3. QED BY <3>1, <3>2, <4>1, <4>2
    <3>3. CASE h \in Sockets /\ sockRemoveLater' = Append(sockRemoveLater, h) /\ UNCHANGED fdRemoveLater
      <4>1. Range(sockRemoveLater') = Range(sockRemoveLater) \cup {h}
        BY <3>1, <3>3, AppendRange
      <4>2. sockRemoveLater' \in Seq(Sockets)
        BY <3>1, <3>3, AppendProperties
      <4>3. QED BY <3>1, <3>3, <4>1, <4>2
    <3>4. QED BY <2>1, <3>2, <3>3
  <2>3. TableInv' /\ LaterFrom(1)' = LaterFrom(1) \cup {h}
    <3>1. LaterFrom(1) = noted
      BY LaterList DEF ReactorInv, TableInv
    <3>2. LaterFrom(1)' = Range(fdRemoveLater') \cup Range(sockRemoveLater')
      BY <2>2, JoinedLists DEF LaterFrom, RemoveLater, Range
    <3>3. QED BY <2>1, <2>2, <3>1, <3>2 DEF ReactorInv, TableInv
  <2>4. Outstanding = LaterFrom(1) /\ Outstanding' = LaterFrom(1)'
    BY <1>1, <1>4 DEF Outstanding
  <2>5. WantedInv'
    BY <1>1, <2>1, <2>3, <2>4 DEF ReactorInv, WantedInv
  <2>6. QED BY <1>2, <2>3, <2>5 DEF ReactorInv
<1>5. QED BY <1>3, <1>4

(* A step that leaves the lists and the registrations alone *)
LEMMA QuietStep ==
  ASSUME ReactorInv, TableType(poller'), Sound(poller'), Exact(poller'),
         DOMAIN poller'.index = DOMAIN poller.index, PlaceInv',
         UNCHANGED <<fdRemoveLater, sockRemoveLater, wanted>>,
         closed \subseteq closed', wanted \cap closed' = {}, Outstanding \subseteq Outstanding'
  PROVE  ReactorInv'
<1>1. LaterFrom(1)' = LaterFrom(1)
  BY DEF LaterFrom, RemoveLater
<1>2. QED BY <1>1 DEF ReactorInv, TableInv, WantedInv

LEMMA SameLater ==
  ASSUME UNCHANGED <<fdRemoveLater, sockRemoveLater>>
  PROVE  LaterFrom(1)' = LaterFrom(1) /\ (UNCHANGED cursor => LaterFrom(cursor)' = LaterFrom(cursor))
BY DEF LaterFrom, RemoveLater

LEMMA FlushOneInv ==
  ASSUME ReactorInv, FlushOne
  PROVE  ReactorInv'
<1> DEFINE h == RemoveLater[cursor]
<1>1. /\ pc = "flush" /\ ~dispatching /\ cursor \in Nat \ {0} /\ cursor <= Len(RemoveLater)
      /\ UNCHANGED <<dispatching, fdRemoveLater, sockRemoveLater, closed, wanted>>
      /\ RemoveNow(h)
  BY DEF FlushOne, ReactorInv, PlaceInv, later
<1>2. Len(RemoveLater) \in Nat /\ h \in Handle
  BY <1>1, LaterList DEF ReactorInv, TableInv
<1> HIDE DEF h
<1>3. /\ TableType(poller') /\ Sound(poller') /\ Exact(poller')
      /\ DOMAIN poller'.index =
           IF h \in closed THEN DOMAIN poller.index ELSE DOMAIN poller.index \ {h}
  BY <1>1, <1>2, RemoveNowKeeps DEF ReactorInv, TableInv
<1>4. ~PollRemoveThrows(poller, h)
  BY <1>2, RemoveKeeps DEF ReactorInv, TableInv
<1>5. cursor' = cursor + 1 /\ pc' = "flush"
  BY <1>1, <1>4 DEF FlushOne, h
<1>6. LaterFrom(cursor) = {h} \cup LaterFrom(cursor)'
  <2>1. RemoveLater' = RemoveLater
    BY <1>1 DEF RemoveLater
  <2>2. cursor..Len(RemoveLater) = {cursor} \cup ((cursor + 1)..Len(RemoveLater))
    BY <1>1, <1>2
  <2>3. QED BY <1>5, <2>1, <2>2 DEF LaterFrom, h
<1>7. Outstanding = LaterFrom(cursor) /\ Outstanding' = LaterFrom(cursor)'
  BY <1>1, <1>5 DEF Outstanding
<1>8. h \in LaterFrom(1)
  BY <1>1, <1>2 DEF LaterFrom, h
<1>9. LaterFrom(1)' = LaterFrom(1)
  BY <1>1, SameLater
<1>10. WantedInv'
  BY <1>1, <1>3, <1>6, <1>7, <1>8, <1>9 DEF ReactorInv, WantedInv
<1>11. PlaceInv'
  BY <1>1, <1>5 DEF PlaceInv, PC
<1>12. QED BY <1>1, <1>3, <1>10, <1>11 DEF ReactorInv, TableInv

LEMMA FlushEndsInv ==
  ASSUME ReactorInv, FlushEnds
  PROVE  ReactorInv'
<1>1. /\ pc = "flush" /\ ~dispatching /\ cursor > Len(RemoveLater) /\ cursor \in Nat
      /\ fdRemoveLater' = <<>> /\ sockRemoveLater' = <<>> /\ pc' = "idle"
      /\ UNCHANGED <<poller, dispatching, closed, wanted, cursor>>
  BY DEF FlushEnds, ReactorInv, PlaceInv, data, loopVars
<1>2. Len(RemoveLater) \in Nat
  BY LaterList DEF ReactorInv, TableInv
<1>3. Outstanding = {}
  BY <1>1, <1>2 DEF Outstanding, LaterFrom
<1>4. LaterFrom(1)' = {}
  <2>1. RemoveLater' = <<>> BY <1>1 DEF RemoveLater
  <2>2. QED BY <2>1 DEF LaterFrom
<1>5. WantedInv'
  BY <1>1, <1>3, <1>4 DEF ReactorInv, WantedInv
<1>6. QED BY <1>1, <1>5, EmptySeq DEF ReactorInv, TableInv, PlaceInv, PC

LEMMA PollInv ==
  ASSUME ReactorInv, NEW ready \in [Handle -> SUBSET Flags], Poll(ready)
  PROVE  ReactorInv'
<1>1. /\ pc = "idle" /\ poller' = ZmqPoll(poller, ready)
      /\ UNCHANGED <<fdRemoveLater, sockRemoveLater, closed, wanted>>
      /\ \/ UNCHANGED <<dispatching, pc, cursor>>
         \/ dispatching' = TRUE /\ pc' = "dispatch" /\ cursor' = 1
  BY DEF Poll, later, loopVars
<1>2. TableType(poller') /\ Sound(poller') /\ Exact(poller')
  BY <1>1, PollKeeps DEF ReactorInv, TableInv
<1>3. DOMAIN poller'.index = DOMAIN poller.index
  BY <1>1 DEF ZmqPoll
<1>4. PlaceInv'
  BY <1>1 DEF ReactorInv, PlaceInv, PC
<1>5. Outstanding \subseteq Outstanding'
  BY <1>1, SameLater DEF Outstanding
<1>6. QED
  BY <1>1, <1>2, <1>3, <1>4, <1>5, QuietStep DEF ReactorInv, WantedInv

LEMMA CheckForInv ==
  ASSUME ReactorInv, NEW h \in Handle, NEW events \in EventChoices, CheckFor(h, events)
  PROVE  ReactorInv'
<1>1. events \in SUBSET Flags
  BY ReactorAssumption DEF ReactorAssumption
<1>2. /\ poller' = PollCheckFor(poller, h, events) /\ PollHas(poller, h)
      /\ UNCHANGED <<fdRemoveLater, sockRemoveLater, closed, wanted, dispatching, pc, cursor>>
  BY DEF CheckFor, later, loopVars
<1>3. TableType(poller') /\ Sound(poller') /\ Exact(poller')
  BY <1>1, <1>2, CheckForKeeps DEF ReactorInv, TableInv
<1>4. DOMAIN poller'.index = DOMAIN poller.index
  BY <1>2 DEF PollCheckFor
<1>5. Outstanding' = Outstanding /\ PlaceInv'
  BY <1>2, SameLater DEF Outstanding, ReactorInv, PlaceInv
<1>6. QED
  BY <1>2, <1>3, <1>4, <1>5, QuietStep DEF ReactorInv, WantedInv

(* The steps of the loop, and those of the client that change no list *)
LEMMA OtherStepInv ==
  ASSUME ReactorInv,
         \/ \E s \in Sockets : Close(s)
         \/ Dispatch \/ HandlerReturns \/ HandlerThrows \/ DispatchEnds
         \/ PollThrows \/ Undefined \/ UNCHANGED vars
  PROVE  ReactorInv'
<1>1. /\ UNCHANGED <<poller, fdRemoveLater, sockRemoveLater, wanted>>
      /\ closed \subseteq closed' /\ wanted \cap closed' = {}
  BY DEF Close, Dispatch, HandlerReturns, HandlerThrows, DispatchEnds, PollThrows, Undefined,
         vars, data, later, ReactorInv, WantedInv
<1>2. PlaceInv'
  BY DEF Close, Dispatch, HandlerReturns, HandlerThrows, DispatchEnds, PollThrows, Undefined,
         vars, loopVars, ReactorInv, PlaceInv, PC
<1>3. Outstanding \subseteq Outstanding'
  <2>1. CASE DispatchEnds
    <3>1. pc' = "flush" /\ ~dispatching' /\ cursor' = 1 /\ pc = "dispatch" /\ dispatching
      BY <2>1 DEF DispatchEnds, ReactorInv, PlaceInv
    <3>2. LaterFrom(cursor)' = LaterFrom(1)
      BY <1>1, <3>1 DEF LaterFrom, RemoveLater
    <3>3. QED BY <3>1, <3>2 DEF Outstanding
  <2>2. CASE dispatching /\ UNCHANGED dispatching
    BY <1>1, <2>2, SameLater DEF Outstanding
  <2>3. CASE UNCHANGED <<dispatching, pc, cursor>>
    BY <1>1, <2>3, SameLater DEF Outstanding
  <2>4. QED
    BY <2>1, <2>2, <2>3
    DEF Close, Dispatch, HandlerReturns, HandlerThrows, PollThrows, Undefined, vars, loopVars,
        ReactorInv, PlaceInv
<1>4. QED
  BY <1>1, <1>2, <1>3, QuietStep DEF ReactorInv, TableInv

LEMMA StepReactorInv == Careful /\ ReactorInv /\ [Next]_vars => ReactorInv'
BY AddInv, CheckForInv, RemoveInv, PollInv, FlushOneInv, FlushEndsInv, OtherStepInv
   DEF Next, ClientCall, InsidePoll

-----------------------------------------------------------------------------
(* The array handed to zmq_poll never holds an item without a registration:
   no deferred removal, exception or closed socket leaves one behind
   (reactor.cpp:46-99). *)
THEOREM NothingElseIsPolled ==
  ASSUME Careful
  PROVE  Spec => []NothingElsePolled
<1>1. ReactorInv => NothingElsePolled
  BY DEF ReactorInv, TableInv, NothingElsePolled
<1>2. ReactorInv /\ [Next]_vars => ReactorInv'
  BY StepReactorInv
<1>3. QED BY <1>1, <1>2, InitReactorInv, PTL DEF Spec

(* Whatever handlers remove in a round, and in whatever order, poll() returns
   with exactly the handles watched whose last call was an add, and closed
   sockets at most (reactor.cpp:63-99, 150-158). *)
THEOREM LastCallHasItsWay ==
  ASSUME Careful
  PROVE  Spec => []LastCallWins
<1>1. ReactorInv => LastCallWins
  BY DEF ReactorInv, WantedInv, Outstanding, LastCallWins
<1>2. ReactorInv /\ [Next]_vars => ReactorInv'
  BY StepReactorInv
<1>3. QED BY <1>1, <1>2, InitReactorInv, PTL DEF Spec
-----------------------------------------------------------------------------
(* For any client: what the types rest on.  A vector holds no more than its
   capacity, and the poller's own operations need its index to be sound. *)
TypeInv == TypeOK /\ Sound(poller) /\ capacity \in Nat /\ cursor # 0

(* The list of handlers, and its handles, after a step that registers one *)
LEMMA Registered ==
  ASSUME TypeInv, NEW h \in Handle, NEW events \in EventChoices, Add(h, events)
  PROVE  /\ handlers' \in Seq(Handle) /\ Len(handlers') = Len(handlers) + 1
         /\ \A i \in 1..Len(handlers) : handlers'[i] = handlers[i]
         /\ Range(handlers') = Range(handlers) \cup {h}
         /\ capacity' \in Nat /\ Len(handlers') <= capacity'
         /\ TableType(poller') /\ Sound(poller')
         /\ DOMAIN poller'.index = DOMAIN poller.index \cup {h}
<1>1. handlers \in Seq(Handle) /\ Len(handlers) \in Nat /\ Len(handlers) <= capacity
      /\ capacity \in Nat /\ TableType(poller) /\ Sound(poller)
  BY LenProperties DEF TypeInv, TypeOK
<1>2. handlers' = Append(handlers, h) /\ poller' = PollAdd(poller, h, events)
  BY DEF Add
<1>3. /\ handlers' \in Seq(Handle) /\ Len(handlers') = Len(handlers) + 1
      /\ \A i \in 1..Len(handlers) : handlers'[i] = handlers[i]
  BY <1>1, <1>2, AppendProperties
<1>4. Range(handlers') = Range(handlers) \cup {h}
  BY <1>1, <1>2, AppendRange
<1>5. capacity' = IF Len(handlers) < capacity THEN capacity
                  ELSE IF capacity = 0 THEN 1 ELSE 2 * capacity
  BY DEF Add
<1>6. capacity' \in Nat /\ Len(handlers) + 1 <= capacity'
  BY <1>1, <1>5
<1>7. events \in SUBSET Flags
  BY ReactorAssumption DEF ReactorAssumption
<1>8. TableType(poller') /\ Sound(poller')
  BY <1>1, <1>2, <1>7, AddKeeps
<1>9. DOMAIN poller'.index = DOMAIN poller.index \cup {h}
  BY <1>2 DEF PollAdd
<1> QED BY <1>3, <1>4, <1>6, <1>8, <1>9

(* ... and after one that takes a handle out *)
LEMMA Unregistered ==
  ASSUME TypeInv, NEW h \in Handle, RemoveNow(h)
  PROVE  /\ handlers' \in Seq(Handle) /\ Len(handlers') <= Len(handlers)
         /\ TableType(poller') /\ Sound(poller')
         /\ HandlersMatchPoller => HandlersMatchPoller'
<1>1. handlers \in Seq(Handle) /\ TableType(poller) /\ Sound(poller) /\ Len(handlers) \in Nat
  BY LenProperties DEF TypeInv, TypeOK
<1>2. CASE h \in closed
  BY <1>1, <1>2 DEF RemoveNow, HandlersMatchPoller
<1>3. CASE h \notin closed
  <2>1. handlers' = Without(handlers, {h}) /\ poller' = PollRemove(poller, h)
    BY <1>3 DEF RemoveNow
  <2>2. /\ handlers' \in Seq(Handle) /\ Len(handlers') <= Len(handlers)
        /\ Range(handlers') = Range(handlers) \ {h}
    BY <1>1, <2>1, WithoutElements
  <2>3. TableType(poller') /\ Sound(poller')
    BY <1>1, <2>1, RemoveKeeps
  <2>4. DOMAIN poller'.index = DOMAIN poller.index \ {h}
    BY <2>1, RemovedDomain
  <2> QED BY <2>2, <2>3, <2>4 DEF HandlersMatchPoller
<1> QED BY <1>2, <1>3

LEMMA InitTypeInv == Init => TypeInv /\ HandlersMatchPoller
<1> SUFFICES ASSUME Init PROVE TypeInv /\ HandlersMatchPoller OBVIOUS
<1>1. TableType(poller) /\ Sound(poller) /\ DOMAIN poller.index = {}
  BY InitTable DEF Init, EmptyPoller
<1>2. /\ <<>> \in Seq(Handle) /\ <<>> \in Seq(Fds) /\ <<>> \in Seq(Sockets)
      /\ Len(<<>>) = 0 /\ DOMAIN <<>> = {}
  BY EmptySeq
<1>3. Range(handlers) = {}
  BY <1>2 DEF Init, Range
<1>4. HandlersMatchPoller
  BY <1>1, <1>3 DEF HandlersMatchPoller
<1>5. handlers \in Seq(Handle) /\ Len(handlers) <= capacity /\ capacity \in Nat
  <2>1. handlers = <<>> /\ capacity = 0
    BY DEF Init
  <2> QED BY <1>2, <2>1
<1>6. fdRemoveLater \in Seq(Fds) /\ sockRemoveLater \in Seq(Sockets)
  BY <1>2 DEF Init
<1>7. /\ dispatching \in BOOLEAN /\ closed = {} /\ wanted = {} /\ due = {}
      /\ pc \in PC /\ cursor = 1 /\ last = 0
  BY DEF Init, PC
<1>8. TypeOK
  BY <1>1, <1>5, <1>6, <1>7 DEF TypeOK
<1> QED BY <1>1, <1>4, <1>5, <1>7, <1>8 DEF TypeInv

(* What a step leaves of the types, given the poller, the list and its room *)
LEMMA AddTypes ==
  ASSUME TypeInv, NEW h \in Handle, NEW events \in EventChoices, Add(h, events)
  PROVE  TypeInv' /\ (HandlersMatchPoller => HandlersMatchPoller')
<1>1. UNCHANGED <<dispatching, fdRemoveLater, sockRemoveLater, closed, cursor, last, due>>
      /\ pc' \in PC /\ wanted' = wanted \cup {h}
  BY DEF Add, later, loopVars, TypeInv, TypeOK, PC
<1>2. TypeInv'
  BY <1>1, Registered DEF TypeInv, TypeOK
<1>3. HandlersMatchPoller => HandlersMatchPoller'
  BY Registered DEF HandlersMatchPoller
<1> QED BY <1>2, <1>3

LEMMA RemoveTypes ==
  ASSUME TypeInv, NEW h \in Handle, Remove(h)
  PROVE  TypeInv' /\ (HandlersMatchPoller => HandlersMatchPoller')
<1>1. UNCHANGED <<dispatching, closed, pc, cursor, last, due, capacity>>
      /\ wanted' = wanted \ {h}
  BY DEF Remove, data, loopVars
<1>2. CASE ~dispatching
  <2>1. UNCHANGED <<fdRemoveLater, sockRemoveLater>> /\ RemoveNow(h)
    BY <1>2 DEF Remove, later
  <2>2. Len(handlers) \in Nat /\ Len(handlers') \in Nat
    BY <2>1, Unregistered, LenProperties DEF TypeInv, TypeOK
  <2>3. Len(handlers') <= capacity
    BY <2>1, <2>2, Unregistered DEF TypeInv, TypeOK
  <2>4. TypeInv'
    BY <1>1, <2>1, <2>3, Unregistered DEF TypeInv, TypeOK
  <2> QED BY <2>1, <2>4, Unregistered
<1>3. CASE dispatching
  <2>1. UNCHANGED <<poller, handlers>>
    BY <1>3 DEF Remove, data
  <2>2. fdRemoveLater' \in Seq(Fds) /\ sockRemoveLater' \in Seq(Sockets)
    <3>1. fdRemoveLater \in Seq(Fds) /\ sockRemoveLater \in Seq(Sockets)
      BY DEF TypeInv, TypeOK
    <3>2. CASE h \in Fds
      <4>1. fdRemoveLater' = Append(fdRemoveLater, h) /\ UNCHANGED sockRemoveLater
        BY <1>3, <3>2 DEF Remove
      <4> QED BY <3>1, <3>2, <4>1, AppendProperties
    <3>3. CASE h \notin Fds
      <4>1. sockRemoveLater' = Append(sockRemoveLater, h) /\ UNCHANGED fdRemoveLater
        BY <1>3, <3>3 DEF Remove
      <4>2. h \in Sockets
        BY <3>3 DEF Handle
      <4> QED BY <3>1, <4>1, <4>2, AppendProperties
    <3> QED BY <3>2, <3>3
  <2> QED BY <1>1, <2>1, <2>2 DEF TypeInv, TypeOK, HandlersMatchPoller
<1> QED BY <1>2, <1>3

LEMMA PollTypes ==
  ASSUME TypeInv, NEW ready \in [Handle -> SUBSET Flags], Poll(ready)
  PROVE  TypeInv' /\ (HandlersMatchPoller => HandlersMatchPoller')
<1>1. /\ poller' = ZmqPoll(poller, ready)
      /\ UNCHANGED <<handlers, capacity, fdRemoveLater, sockRemoveLater, closed, wanted>>
      /\ \/ UNCHANGED <<dispatching, pc, cursor, last, due>>
         \/ /\ dispatching' = TRUE /\ pc' = "dispatch" /\ cursor' = 1 /\ last' = Len(handlers)
            /\ due' \subseteq Range(handlers)
  BY DEF Poll, later, loopVars
<1>2. TableType(poller') /\ Sound(poller') /\ DOMAIN poller'.index = DOMAIN poller.index
  <2>1. DOMAIN poller'.index = DOMAIN poller.index
    BY <1>1 DEF ZmqPoll
  <2> QED BY <1>1, <2>1, PollKeeps DEF TypeInv, TypeOK
<1>3. Len(handlers) \in Nat /\ Range(handlers) \subseteq Handle
  BY LenProperties, ElementOfSeq DEF TypeInv, TypeOK, Range
<1>4. HandlersMatchPoller => HandlersMatchPoller'
  BY <1>1, <1>2 DEF HandlersMatchPoller
<1>5. /\ dispatching' \in BOOLEAN /\ pc' \in PC /\ cursor' \in Nat \ {0} /\ last' \in Nat
      /\ due' \subseteq Handle
  <2>1. CASE UNCHANGED <<dispatching, pc, cursor, last, due>>
    BY <2>1 DEF TypeInv, TypeOK
  <2>2. CASE /\ dispatching' = TRUE /\ pc' = "dispatch" /\ cursor' = 1 /\ last' = Len(handlers)
             /\ due' \subseteq Range(handlers)
    BY <1>3, <2>2 DEF PC
  <2> QED BY <1>1, <2>1, <2>2
<1>6. TypeInv'
  BY <1>1, <1>2, <1>5 DEF TypeInv, TypeOK
<1> QED BY <1>4, <1>6

LEMMA CheckForTypes ==
  ASSUME TypeInv, NEW h \in Handle, NEW events \in EventChoices, CheckFor(h, events)
  PROVE  TypeInv' /\ (HandlersMatchPoller => HandlersMatchPoller')
<1>1. events \in SUBSET Flags
  BY ReactorAssumption DEF ReactorAssumption
<1>2. /\ poller' = PollCheckFor(poller, h, events) /\ PollHas(poller, h)
      /\ UNCHANGED <<handlers, capacity, dispatching, fdRemoveLater, sockRemoveLater, closed, pc,
                     cursor, last, wanted, due>>
  BY DEF CheckFor, later, loopVars
<1>3. TableType(poller') /\ Sound(poller') /\ DOMAIN poller'.index = DOMAIN poller.index
  <2>1. DOMAIN poller'.index = DOMAIN poller.index
    BY <1>2 DEF PollCheckFor
  <2> QED BY <1>1, <1>2, <2>1, CheckForKeeps DEF TypeInv, TypeOK
<1> QED BY <1>2, <1>3 DEF TypeInv, TypeOK, HandlersMatchPoller

LEMMA FlushOneTypes ==
  ASSUME TypeInv, FlushOne
  PROVE  TypeInv' /\ (HandlersMatchPoller => HandlersMatchPoller')
<1> DEFINE h == RemoveLater[cursor]
<1>1. /\ cursor \in Nat \ {0} /\ cursor <= Len(RemoveLater) /\ RemoveNow(h)
      /\ pc' \in PC /\ cursor' \in Nat \ {0}
      /\ UNCHANGED <<capacity, dispatching, fdRemoveLater, sockRemoveLater, closed, last,
                     wanted, due>>
  BY DEF FlushOne, later, TypeInv, TypeOK, PC
<1>2. Len(RemoveLater) \in Nat /\ h \in Handle
  BY <1>1, LaterList DEF TypeInv, TypeOK
<1> HIDE DEF h
<1>3. Len(handlers) \in Nat /\ Len(handlers') \in Nat
  BY <1>1, <1>2, Unregistered, LenProperties DEF TypeInv, TypeOK
<1>4. Len(handlers') <= capacity
  BY <1>1, <1>2, <1>3, Unregistered DEF TypeInv, TypeOK
<1>5. TypeInv'
  BY <1>1, <1>2, <1>4, Unregistered DEF TypeInv, TypeOK
<1> QED BY <1>1, <1>2, <1>5, Unregistered

(* The steps that change neither the poller nor the list of handlers *)
LEMMA OtherTypes ==
  ASSUME TypeInv,
         \/ \E s \in Sockets : Close(s)
         \/ Dispatch \/ HandlerReturns \/ HandlerThrows \/ DispatchEnds \/ FlushEnds
         \/ PollThrows \/ Undefined \/ UNCHANGED vars
  PROVE  TypeInv' /\ (HandlersMatchPoller => HandlersMatchPoller')
<1>1. UNCHANGED <<poller, handlers, capacity, last, wanted>>
  BY DEF Close, Dispatch, HandlerReturns, HandlerThrows, DispatchEnds, FlushEnds, PollThrows,
         Undefined, vars, data, loopVars
<1>2. dispatching' \in BOOLEAN /\ pc' \in PC /\ cursor' \in Nat \ {0}
  <2>1. dispatching' \in {dispatching, FALSE} /\ pc' \in PC \cup {pc}
    BY DEF Close, Dispatch, HandlerReturns, HandlerThrows, DispatchEnds, FlushEnds, PollThrows,
           Undefined, vars, PC
  <2>2. cursor' \in {cursor, cursor + 1, 1}
    BY DEF Close, Dispatch, HandlerReturns, HandlerThrows, DispatchEnds, FlushEnds, PollThrows,
           Undefined, vars, loopVars
  <2>3. dispatching \in BOOLEAN /\ pc \in PC /\ cursor \in Nat \ {0}
    BY DEF TypeInv, TypeOK
  <2>4. cursor + 1 \in Nat \ {0}
    BY <2>3
  <2>5. dispatching' \in BOOLEAN
    BY <2>1, <2>3, Zenon
  <2>6. pc' \in PC
    BY <2>1, <2>3
  <2>7. cursor' \in Nat \ {0}
    BY <2>2, <2>3, <2>4
  <2> QED BY <2>5, <2>6, <2>7
<1>3. closed' \subseteq Sockets
  <2>1. closed' = closed \/ \E s \in Sockets : closed' = closed \cup {s}
    BY DEF Close, Dispatch, HandlerReturns, HandlerThrows, DispatchEnds, FlushEnds, PollThrows,
           Undefined, vars
  <2> QED BY <2>1 DEF TypeInv, TypeOK
<1>4. due' \subseteq Handle
  <2>1. due' \subseteq due
    BY DEF Close, Dispatch, HandlerReturns, HandlerThrows, DispatchEnds, FlushEnds, PollThrows,
           Undefined, vars
  <2> QED BY <2>1 DEF TypeInv, TypeOK
<1>5. fdRemoveLater' \in Seq(Fds) /\ sockRemoveLater' \in Seq(Sockets)
  <2>1. fdRemoveLater \in Seq(Fds) /\ sockRemoveLater \in Seq(Sockets)
    BY DEF TypeInv, TypeOK
  <2>2. CASE FlushEnds
    BY <2>2, EmptySeq DEF FlushEnds
  <2>3. CASE UNCHANGED <<fdRemoveLater, sockRemoveLater>>
    BY <2>1, <2>3
  <2> QED
    BY <2>2, <2>3 DEF Close, Dispatch, HandlerReturns, HandlerThrows, DispatchEnds, PollThrows,
       Undefined, vars, later
<1> QED BY <1>1, <1>2, <1>3, <1>4, <1>5 DEF TypeInv, TypeOK, HandlersMatchPoller

LEMMA StepTypes ==
  TypeInv /\ [Next]_vars => TypeInv' /\ (HandlersMatchPoller => HandlersMatchPoller')
BY AddTypes, CheckForTypes, RemoveTypes, PollTypes, FlushOneTypes, OtherTypes
   DEF Next, ClientCall, InsidePoll

(* The types of a reactor, for every client (reactor.hpp:158-170). *)
THEOREM TypesKept == Spec => []TypeOK
<1>1. TypeInv => TypeOK
  BY DEF TypeInv
<1>2. TypeInv /\ [Next]_vars => TypeInv'
  BY StepTypes
<1>3. Init => TypeInv
  BY InitTypeInv
<1> QED BY <1>1, <1>2, <1>3, PTL DEF Spec

(* For every client, one that adds a handle twice or again included: the list
   of handlers and the poller's index name the same handles, so the lookup in
   the dispatch loop (reactor.cpp:120) finds the item of every handler. *)
THEOREM HandlersAlwaysMatch == Spec => []HandlersMatchPoller
<1> DEFINE MatchInv == TypeInv /\ HandlersMatchPoller
<1>1. MatchInv => HandlersMatchPoller
  OBVIOUS
<1>2. MatchInv /\ [Next]_vars => MatchInv'
  BY StepTypes
<1>3. Init => MatchInv
  BY InitTypeInv
<1> QED BY <1>1, <1>2, <1>3, PTL DEF Spec
-----------------------------------------------------------------------------
(* The round, for a careful client: a handle that is due still has its event
   and a registration that the loop has not come to. *)
FirstLeft == IF pc = "handler" THEN cursor + 1 ELSE cursor

StillToCome(h) == \E i \in FirstLeft..last : handlers[i] = h

DueInv ==
  pc \in {"dispatch", "handler"} =>
    /\ last <= Len(handlers)
    /\ \A h \in due : PollEvents(poller, h) # {} /\ StillToCome(h)

RoundInv == ReactorInv /\ TypeInv /\ HandlersMatchPoller /\ DueInv

LEMMA RoundIndices ==
  ASSUME RoundInv, pc \in {"dispatch", "handler"}
  PROVE  /\ last \in Nat /\ cursor \in Nat /\ FirstLeft \in Nat \ {0}
         /\ Len(handlers) \in Nat /\ DOMAIN handlers = 1..Len(handlers)
         /\ last <= Len(handlers) /\ dispatching
         /\ due \subseteq DOMAIN poller.index
<1>1. /\ last \in Nat /\ cursor \in Nat \ {0} /\ FirstLeft \in Nat \ {0}
      /\ Len(handlers) \in Nat /\ DOMAIN handlers = 1..Len(handlers)
      /\ last <= Len(handlers) /\ dispatching
  BY LenProperties DEF RoundInv, TypeInv, TypeOK, DueInv, FirstLeft, ReactorInv, PlaceInv
<1>2. ASSUME NEW h \in due
      PROVE  h \in DOMAIN poller.index
  <2>1. \E i \in FirstLeft..last : handlers[i] = h
    BY DEF RoundInv, DueInv, StillToCome
  <2>2. \E i \in DOMAIN handlers : handlers[i] = h
    BY <1>1, <2>1
  <2> QED BY <2>2 DEF RoundInv, HandlersMatchPoller, Range
<1> QED BY <1>1, <1>2

(* The event that an item has reported stays through an add or a check_for *)
LEMMA AddKeepsEvents ==
  ASSUME TypeInv, NEW h \in Handle, NEW events \in SUBSET Flags,
         NEW k \in DOMAIN poller.index, k # h
  PROVE  PollEvents(PollAdd(poller, h, events), k) = PollEvents(poller, k)
<1> DEFINE item == [handle |-> h, events |-> events, revents |-> {}]
<1>1. item \in PollItem
  BY DEF PollItem
<1>2. poller.items \in Seq(PollItem) /\ poller.index[k] \in 1..Len(poller.items)
  BY DEF TypeInv, TypeOK, TableType, Sound
<1> HIDE DEF item
<1>3. Append(poller.items, item)[poller.index[k]] = poller.items[poller.index[k]]
  BY <1>1, <1>2, AppendProperties
<1> QED BY <1>3 DEF PollEvents, PollAdd, item

LEMMA CheckForKeepsEvents ==
  ASSUME TypeInv, NEW h, PollHas(poller, h), NEW events \in SUBSET Flags,
         NEW k \in DOMAIN poller.index
  PROVE  PollEvents(PollCheckFor(poller, h, events), k) = PollEvents(poller, k)
<1> DEFINE at == poller.index[h]
           item == [poller.items[at] EXCEPT !.events = events]
<1>1. /\ poller.items \in Seq(PollItem) /\ poller.index[k] \in 1..Len(poller.items)
      /\ at \in 1..Len(poller.items) /\ poller.items[at] \in PollItem
  BY ElementOfSeq DEF TypeInv, TypeOK, TableType, Sound, PollHas
<1>2. item \in PollItem /\ item.revents = poller.items[at].revents
  BY <1>1 DEF PollItem
<1>3. PollCheckFor(poller, h, events).items = [poller.items EXCEPT ![at] = item]
      /\ PollCheckFor(poller, h, events).index = poller.index
  BY DEF PollCheckFor
<1> HIDE DEF item, at
<1>4. [poller.items EXCEPT ![at] = item][poller.index[k]] =
        IF poller.index[k] = at THEN item ELSE poller.items[poller.index[k]]
  BY <1>1, <1>2, ExceptSeq
<1> QED BY <1>2, <1>3, <1>4 DEF PollEvents

LEMMA AddDue ==
  ASSUME Careful, RoundInv, NEW h \in Handle, NEW events \in EventChoices, Add(h, events)
  PROVE  DueInv'
<1> SUFFICES ASSUME pc' \in {"dispatch", "handler"}
             PROVE  /\ last' <= Len(handlers')
                    /\ \A k \in due' : PollEvents(poller', k) # {} /\ StillToCome(k)'
  BY DEF DueInv
<1>1. /\ pc = "handler" /\ pc' = "handler" /\ UNCHANGED <<cursor, last, due>>
      /\ poller' = PollAdd(poller, h, events)
  BY DEF Add, InClientCode, loopVars
<1>2. h \notin DOMAIN poller.index
  BY DEF Add, Careful, Pending, RoundInv, ReactorInv, WantedInv, PollHas
<1>3. events \in SUBSET Flags
  BY ReactorAssumption DEF ReactorAssumption
<1>4. /\ Len(handlers') = Len(handlers) + 1
      /\ \A i \in 1..Len(handlers) : handlers'[i] = handlers[i]
  BY Registered DEF RoundInv
<1>5. /\ last \in Nat /\ FirstLeft \in Nat \ {0} /\ Len(handlers) \in Nat
      /\ last <= Len(handlers) /\ due \subseteq DOMAIN poller.index
  BY <1>1, RoundIndices
<1>6. FirstLeft' = FirstLeft
  BY <1>1 DEF FirstLeft
<1>7. ASSUME NEW k \in due'
      PROVE  PollEvents(poller', k) # {} /\ StillToCome(k)'
  <2>1. k \in due /\ k \in DOMAIN poller.index /\ k # h
    BY <1>1, <1>2, <1>5, <1>7
  <2>2. PollEvents(poller, k) # {} /\ StillToCome(k)
    BY <1>1, <2>1 DEF RoundInv, DueInv
  <2>3. PollEvents(poller', k) # {}
    BY <1>1, <1>3, <2>1, <2>2, AddKeepsEvents DEF RoundInv
  <2>4. StillToCome(k)'
    <3>1. \A i \in FirstLeft..last : handlers'[i] = handlers[i]
      BY <1>4, <1>5
    <3> QED BY <1>1, <1>6, <2>2, <3>1 DEF StillToCome
  <2> QED BY <2>3, <2>4
<1> QED BY <1>1, <1>4, <1>5, <1>7

LEMMA CheckForDue ==
  ASSUME RoundInv, NEW h \in Handle, NEW events \in EventChoices, CheckFor(h, events)
  PROVE  DueInv'
<1> SUFFICES ASSUME pc' \in {"dispatch", "handler"}
             PROVE  /\ last' <= Len(handlers')
                    /\ \A k \in due' : PollEvents(poller', k) # {} /\ StillToCome(k)'
  BY DEF DueInv
<1>1. /\ PollHas(poller, h) /\ poller' = PollCheckFor(poller, h, events)
      /\ UNCHANGED <<handlers, pc, cursor, last, due>>
  BY DEF CheckFor, loopVars
<1>2. events \in SUBSET Flags
  BY ReactorAssumption DEF ReactorAssumption
<1>3. due \subseteq DOMAIN poller.index /\ last <= Len(handlers)
  BY <1>1, RoundIndices
<1>4. ASSUME NEW k \in due'
      PROVE  PollEvents(poller', k) # {} /\ StillToCome(k)'
  <2>1. k \in due /\ k \in DOMAIN poller.index
    BY <1>1, <1>3, <1>4
  <2>2. PollEvents(poller, k) # {} /\ StillToCome(k)
    BY <1>1, <2>1 DEF RoundInv, DueInv
  <2>3. StillToCome(k)'
    BY <1>1, <2>2 DEF StillToCome, FirstLeft
  <2>4. PollEvents(poller', k) # {}
    BY <1>1, <1>2, <2>1, <2>2, CheckForKeepsEvents DEF RoundInv
  <2> QED BY <2>3, <2>4
<1> QED BY <1>1, <1>3, <1>4

LEMMA PollDue ==
  ASSUME RoundInv, NEW ready \in [Handle -> SUBSET Flags], Poll(ready)
  PROVE  DueInv'
<1>1. CASE UNCHANGED pc
  BY <1>1 DEF Poll, DueInv
<1>2. CASE ~UNCHANGED pc
  <2>1. /\ pc' = "dispatch" /\ cursor' = 1 /\ last' = Len(handlers)
        /\ UNCHANGED handlers /\ poller' = ZmqPoll(poller, ready)
        /\ due' = {h \in Range(handlers) :
                     \E i \in DOMAIN poller'.items :
                       poller'.items[i].handle = h /\ poller'.items[i].revents # {}}
    BY <1>2 DEF Poll
  <2>2. /\ TableType(poller') /\ Exact(poller') /\ DOMAIN poller'.items = 1..Len(poller'.items)
    <3>1. TableType(poller') /\ Exact(poller')
      BY <2>1, PollKeeps DEF RoundInv, ReactorInv, TableInv
    <3> QED BY <3>1, LenProperties DEF TableType
  <2>3. Len(handlers) \in Nat /\ DOMAIN handlers = 1..Len(handlers)
    BY LenProperties DEF RoundInv, TypeInv, TypeOK
  <2>4. ASSUME NEW h \in due'
        PROVE  PollEvents(poller', h) # {} /\ StillToCome(h)'
    <3>1. PICK i \in DOMAIN poller'.items :
            poller'.items[i].handle = h /\ poller'.items[i].revents # {}
      BY <2>1, <2>4
    <3>2. poller'.index[h] = i
      BY <2>2, <3>1 DEF Exact
    <3>3. PollEvents(poller', h) # {}
      BY <3>1, <3>2 DEF PollEvents
    <3>4. \E j \in 1..Len(handlers) : handlers[j] = h
      BY <2>1, <2>3, <2>4 DEF Range
    <3>5. StillToCome(h)'
      BY <2>1, <3>4 DEF StillToCome, FirstLeft
    <3> QED BY <3>3, <3>5
  <2> QED BY <2>1, <2>3, <2>4 DEF DueInv
<1> QED BY <1>1, <1>2

LEMMA DispatchDue ==
  ASSUME RoundInv, Dispatch
  PROVE  DueInv'
<1>1. /\ pc = "dispatch" /\ cursor <= last /\ UNCHANGED <<poller, handlers, last>>
  BY DEF Dispatch, data
<1>2. /\ last \in Nat /\ cursor \in Nat /\ Len(handlers) \in Nat /\ last <= Len(handlers)
  BY <1>1, RoundIndices
<1>3. FirstLeft' = cursor + 1
  BY <1>1 DEF Dispatch, FirstLeft
<1>4. due' \subseteq due /\ handlers[cursor] \notin due'
  <2>1. CASE PollEvents(poller, handlers[cursor]) # {}
    BY <2>1 DEF Dispatch
  <2>2. CASE PollEvents(poller, handlers[cursor]) = {}
    <3>1. due' = due
      BY <2>2 DEF Dispatch
    <3>2. handlers[cursor] \notin due
      BY <1>1, <2>2 DEF RoundInv, DueInv
    <3> QED BY <3>1, <3>2
  <2> QED BY <2>1, <2>2
<1>5. ASSUME NEW h \in due'
      PROVE  PollEvents(poller', h) # {} /\ StillToCome(h)'
  <2>1. PollEvents(poller, h) # {} /\ \E i \in cursor..last : handlers[i] = h
    BY <1>1, <1>4, <1>5 DEF RoundInv, DueInv, StillToCome, FirstLeft
  <2>2. PICK i \in cursor..last : handlers[i] = h
    BY <2>1
  <2>3. i \in (cursor + 1)..last
    BY <1>2, <1>4, <1>5, <2>2
  <2> QED BY <1>1, <1>3, <2>1, <2>2, <2>3 DEF StillToCome
<1> QED BY <1>1, <1>2, <1>5 DEF DueInv

(* While the round lasts, a removal only notes the handle down. *)
LEMMA OtherDue ==
  ASSUME RoundInv,
         \/ \E h \in Handle : Remove(h)
         \/ \E s \in Sockets : Close(s)
         \/ HandlerReturns \/ HandlerThrows \/ DispatchEnds \/ FlushOne \/ FlushEnds
         \/ PollThrows \/ Undefined \/ UNCHANGED vars
  PROVE  DueInv'
<1> SUFFICES ASSUME pc' \in {"dispatch", "handler"}
             PROVE  /\ last' <= Len(handlers')
                    /\ \A k \in due' : PollEvents(poller', k) # {} /\ StillToCome(k)'
  BY DEF DueInv
<1>1. pc \in {"dispatch", "handler"} /\ UNCHANGED <<poller, handlers, last, due>>
  <2>1. CASE \E h \in Handle : Remove(h)
    <3>1. pc' = pc /\ UNCHANGED <<last, due>>
      BY <2>1 DEF Remove, loopVars
    <3>2. dispatching
      BY <3>1 DEF RoundInv, ReactorInv, PlaceInv
    <3> QED BY <2>1, <3>1, <3>2 DEF Remove, data
  <2>2. CASE ~\E h \in Handle : Remove(h)
    BY <2>2 DEF Close, HandlerReturns, HandlerThrows, DispatchEnds, FlushOne, FlushEnds, PollThrows,
       Undefined, vars, data, loopVars
  <2> QED BY <2>1, <2>2
<1>2. FirstLeft' = FirstLeft
  BY <1>1 DEF FirstLeft, Remove, Close, HandlerReturns, HandlerThrows, DispatchEnds, FlushOne,
     FlushEnds, PollThrows, Undefined, vars, loopVars
<1> QED BY <1>1, <1>2 DEF RoundInv, DueInv, StillToCome

LEMMA StepRoundInv == Careful /\ RoundInv /\ [Next]_vars => RoundInv'
<1> SUFFICES ASSUME Careful, RoundInv, [Next]_vars PROVE RoundInv' OBVIOUS
<1>1. ReactorInv' /\ TypeInv' /\ HandlersMatchPoller'
  BY StepReactorInv, StepTypes DEF RoundInv
<1>2. DueInv'
  BY AddDue, CheckForDue, PollDue, DispatchDue, OtherDue DEF Next, ClientCall, InsidePoll
<1> QED BY <1>1, <1>2 DEF RoundInv

(* The round leaves out nobody: what handlers add, remove, close or re-arm
   while the loop runs over the list, a round that comes to its end has called
   a handler of every handle that reported an event (reactor.cpp:116-122). *)
THEOREM RoundIsComplete ==
  ASSUME Careful
  PROVE  Spec => RoundComplete
<1>1. Init => RoundInv
  BY InitReactorInv, InitTypeInv DEF RoundInv, DueInv, Init
<1>2. RoundInv /\ [Next]_vars => RoundInv'
  BY StepRoundInv
<1>3. RoundInv /\ [Next]_vars => [pc = "dispatch" /\ pc' = "flush" => due = {}]_vars
  <2> SUFFICES ASSUME RoundInv, [Next]_vars, pc = "dispatch", pc' = "flush"
               PROVE  due = {}
    OBVIOUS
  <2>1. cursor > last
    BY DEF Next, ClientCall, InsidePoll, Add, CheckFor, Remove, Close, Poll, PollThrows, Dispatch,
       HandlerReturns, HandlerThrows, DispatchEnds, FlushOne, FlushEnds, Undefined, vars,
       InClientCode
  <2>2. cursor \in Nat /\ last \in Nat
    BY RoundIndices
  <2>3. cursor..last = {}
    BY <2>1, <2>2
  <2> QED BY <2>3 DEF RoundInv, DueInv, StillToCome, FirstLeft
<1> QED BY <1>1, <1>2, <1>3, PTL DEF Spec, RoundComplete
=============================================================================
