-------------------------------- MODULE Loop --------------------------------
(***************************************************************************)
(* zmqpp::loop (zmqpp/loop.cpp): a poller with handlers, and timers.  One  *)
(* turn of start() flushes the deferred removals, polls until the first    *)
(* timer is due, runs the handlers of the expired timers and then, unless  *)
(* a timer handler changed the set of items, those of the ready items.     *)
(*                                                                         *)
(* A timer is known to the client by its address, which the allocator may  *)
(* hand out again once the timer is gone; `serial' tells the timers apart  *)
(* for the properties only.  The client of this module adds no handle that *)
(* is monitored or whose removal is pending: what happens then is the      *)
(* subject of Poller and Reactor, whose code the loop repeats.  Names that  *)
(* Poller has too carry `Loop', and the loop's poller is poller_ as in the *)
(* code, so that one module can speak of both.                             *)
(***************************************************************************)
EXTENDS PollTable

CONSTANTS
  Addr,              (* the addresses the allocator has                      *)
  Delays, Times,     (* the delays and repetitions the client asks for       *)
  MaxAdds,           (* bound: timers added in a behaviour                   *)
  MaxNow,            (* bound: the clock                                     *)
  MaxLater,          (* bound: removals deferred at a time                   *)
  ReuseAddr,         (* may an address on timerRemoveLater_ be handed out?   *)
  MayThrow           (* may a handler throw?                                 *)

ASSUME LoopAssumption ==
  /\ Delays \subseteq Nat /\ Times \subseteq Nat
  /\ MaxAdds \in Nat /\ MaxNow \in Nat /\ MaxLater \in Nat
  /\ {ReuseAddr, MayThrow} \subseteq BOOLEAN

VARIABLES
  poller_, items,     (* poller_; items_, each pair shown by its handle        *)
  capacity,           (* what the vector items_ holds before it reallocates    *)
  timers,             (* timers_: a list of timer_t with their addresses       *)
  dispatching,        (* dispatching_                                          *)
  rebuild,            (* rebuild_poller_                                       *)
  fdRemoveLater, sockRemoveLater, timerRemoveLater,
  now,                (* steady_clock                                          *)
  pc,
  pollRc,             (* poll_rc of start()                                    *)
  wake,               (* when the zmq_poll of start() times out                *)
  timeNow, it,        (* time_now and the iterator of start_handle_timers      *)
  cursor, last,       (* the iterator of start_handle_poller and its end       *)
  wanted,             (* history: handles whose last call was an add           *)
  cancelled,          (* history: serials of the timers the client removed     *)
  disorder,           (* history: has a timer handler ended start(), by false or
                         by an exception, and nothing sorted timers_ since?    *)
  adds                (* history: timers added so far                          *)

itemVars == <<poller_, items, capacity>>
later == <<fdRemoveLater, sockRemoveLater, timerRemoveLater>>
locals == <<pollRc, wake, timeNow, it, cursor, last>>
history == <<wanted, cancelled, disorder, adds>>
loopVars == <<itemVars, timers, dispatching, rebuild, later, now, pc, locals, history>>

PC == {"stopped",          (* outside start()                                *)
       "top",              (* at the head of start()'s while loop            *)
       "polling",          (* in zmq_poll                                    *)
       "timers",           (* at the head of the loop over timers_           *)
       "timer handler",    (* in the handler of the timer `it' points to     *)
       "sockets",          (* at the head of the loop over items_            *)
       "socket handler",   (* in the handler of items[cursor]                *)
       "leaving",          (* after the while loop of start()                *)
       "undefined"}        (* a dangling iterator: anything may follow       *)

Serial == 1..MaxAdds
NoTimer == 0                     (* timers_.end() *)
Timer == [serial : Serial, id : Addr, times : Nat, delay : Nat, when : Nat]

LoopInit ==
  /\ poller_ = EmptyPoller /\ items = <<>> /\ capacity = 0 /\ timers = <<>>
  /\ dispatching = FALSE /\ rebuild = FALSE
  /\ fdRemoveLater = <<>> /\ sockRemoveLater = <<>> /\ timerRemoveLater = <<>>
  /\ now = 0 /\ pc = "stopped"
  /\ pollRc = FALSE /\ wake = 0 /\ timeNow = 0 /\ it = NoTimer
  /\ cursor = 1 /\ last = 0
  /\ wanted = {} /\ cancelled = {} /\ disorder = FALSE /\ adds = 0

InClientCode == pc \in {"stopped", "timer handler", "socket handler"}

(* A comparator the wrong way round. *)
SortLatestFirst(ts) ==
  LET rank(i) == Cardinality({j \in DOMAIN ts :
                   \/ ts[j].when > ts[i].when
                   \/ ts[j].when = ts[i].when /\ j <= i})
  IN [k \in DOMAIN ts |-> ts[CHOOSE i \in DOMAIN ts : rank(i) = k]]

(* list::sort by `when', which is stable. *)
Sort(ts) ==
  LET rank(i) == Cardinality({j \in DOMAIN ts :
                   \/ ts[j].when < ts[i].when
                   \/ ts[j].when = ts[i].when /\ j <= i})
  IN [k \in DOMAIN ts |-> ts[CHOOSE i \in DOMAIN ts : rank(i) = k]]

(* add without its sort *)
InsertUnsorted(ts, t) == Append(ts, t)

(* add(unique_ptr<timer_t>, callable) *)
Insert(ts, t) == Sort(Append(ts, t))

(* 0 repetitions taken for none left, instead of for ever *)
SpentOrEndless(t) == t.times \in {0, 1}

(* This run of the timer's handler is the last one. *)
Spent(t) == t.times = 1

(* The timer has run and goes on: its next deadline is a delay later. *)
Renew(t) == [t EXCEPT !.when = @ + t.delay, !.times = IF @ = 0 THEN 0 ELSE @ - 1]

(* The sockets forgotten in flush_remove_later *)
ItemsLaterNoSockets == fdRemoveLater

(* The items whose removal is deferred, in the order of flush_remove_later. *)
ItemsLater == fdRemoveLater \o sockRemoveLater

(* list::erase of the element an iterator is at *)
Erase(ts, i) == Kept(ts, DOMAIN ts \ {i})

Position(ts, serial) == CHOOSE i \in DOMAIN ts : ts[i].serial = serial

(* The element an iterator gets to from the i-th by ++. *)
NextOf(ts, i) == IF i < Len(ts) THEN ts[i + 1].serial ELSE NoTimer
First(ts) == NextOf(ts, 0)

-----------------------------------------------------------------------------
(* Calls of the client, outside start() or from a handler. *)

(* add(socket) and add(descriptor).  Growing items_ under the loop over it
   leaves the iterators of that loop dangling. *)
AddItem(h, events) ==
  /\ InClientCode
  /\ ~PollHas(poller_, h) /\ h \notin Range(ItemsLater)
  /\ poller_' = PollAdd(poller_, h, events)
  /\ items' = Append(items, h)
  /\ capacity' = IF Len(items) < capacity THEN capacity
                 ELSE IF capacity = 0 THEN 1 ELSE 2 * capacity
  /\ rebuild' = TRUE
  /\ pc' = IF pc = "socket handler" /\ capacity' # capacity THEN "undefined" ELSE pc
  /\ wanted' = wanted \cup {h}
  /\ UNCHANGED <<timers, dispatching, later, now, locals, cancelled, disorder, adds>>

(* add(delay, times): the timer gets any address that is not in use. *)
AddTimer(delay, times) ==
  /\ InClientCode
  /\ adds < MaxAdds
  /\ adds' = adds + 1
  /\ \E id \in Addr :
       /\ \A i \in DOMAIN timers : timers[i].id # id
       /\ ReuseAddr \/ id \notin Range(timerRemoveLater)
       /\ timers' = Insert(timers, [serial |-> adds', id |-> id, times |-> times,
                                    delay |-> delay, when |-> now + delay])
  /\ disorder' = FALSE
  /\ UNCHANGED <<itemVars, dispatching, rebuild, later, now, pc, locals, wanted, cancelled>>

(* reset(timer).  A handler may reset its own timer, which moves the element
   that the iterator of start_handle_timers is at. *)
ResetTimer(i) ==
  /\ InClientCode
  /\ timers' = Sort([timers EXCEPT ![i].when = now + timers[i].delay])
  /\ disorder' = FALSE
  /\ UNCHANGED <<itemVars, dispatching, rebuild, later, now, pc, locals, wanted,
                 cancelled, adds>>

RoomForLater == Len(ItemsLater) + Len(timerRemoveLater) < MaxLater

(* remove(timer): by address, at once or deferred *)
RemoveTimer(i) ==
  /\ InClientCode
  /\ cancelled' = cancelled \cup {timers[i].serial}
  /\ \/ /\ ~dispatching
        /\ timers' = Erase(timers, i)
        /\ UNCHANGED timerRemoveLater
     \/ /\ dispatching /\ RoomForLater
        /\ timerRemoveLater' = Append(timerRemoveLater, timers[i].id)
        /\ UNCHANGED timers
  /\ UNCHANGED <<itemVars, dispatching, rebuild, fdRemoveLater, sockRemoveLater, now,
                 pc, locals, wanted, disorder, adds>>

(* remove(socket) and remove(descriptor), at once or deferred *)
RemoveItem(h) ==
  /\ InClientCode
  /\ wanted' = wanted \ {h}
  /\ \/ /\ ~dispatching
        /\ poller_' = PollRemove(poller_, h)
        /\ items' = Without(items, {h})
        /\ UNCHANGED <<rebuild, fdRemoveLater, sockRemoveLater>>
     \/ /\ dispatching /\ RoomForLater
        /\ rebuild' = TRUE
        /\ IF h \in Fds
           THEN fdRemoveLater' = Append(fdRemoveLater, h) /\ UNCHANGED sockRemoveLater
           ELSE sockRemoveLater' = Append(sockRemoveLater, h) /\ UNCHANGED fdRemoveLater
        /\ UNCHANGED <<poller_, items>>
  /\ UNCHANGED <<capacity, timers, dispatching, timerRemoveLater, now, pc, locals,
                 cancelled, disorder, adds>>

Start ==
  /\ pc = "stopped"
  /\ pc' = "top"
  /\ UNCHANGED <<itemVars, timers, dispatching, rebuild, later, now, locals, history>>

-----------------------------------------------------------------------------
(* remove() called on the poller for the handles of a list, one after another *)
RemoveEach(p, hs) ==
  LET after[n \in 0..Len(hs)] ==
        IF n = 0 THEN p ELSE PollRemove(after[n - 1], hs[n])
  IN after[Len(hs)]

(* flush_remove_later.  With dispatching_ left set by an exception, remove()
   appends to the very vectors this loops over; if they do not reallocate,
   the removals are appended once more and then cleared with the rest. *)
FlushAsksRebuild == dispatching /\ ItemsLater # <<>>

Flush ==
  /\ fdRemoveLater' = <<>> /\ sockRemoveLater' = <<>> /\ timerRemoveLater' = <<>>
  /\ IF dispatching THEN UNCHANGED <<poller_, items, timers>>
     ELSE /\ poller_' = RemoveEach(poller_, ItemsLater)
          /\ items' = Without(items, Range(ItemsLater))
          /\ timers' = Kept(timers, {i \in DOMAIN timers :
                                      timers[i].id \notin Range(timerRemoveLater)})

FlushUndefined ==
  /\ pc \in {"top", "leaving"}
  /\ dispatching /\ later # <<<<>>, <<>>, <<>>>>
  /\ pc' = "undefined"
  /\ UNCHANGED <<itemVars, timers, dispatching, rebuild, later, now, locals, history>>

(* tickless: the time zmq_poll is given to wait, from the first of the list;
   without a timer an hour, which is beyond MaxNow. *)
Deadline(ts) ==
  IF ts = <<>> THEN MaxNow + 1
  ELSE IF ts[1].when < now THEN now ELSE ts[1].when

Top ==
  /\ pc = "top"
  /\ rebuild' = FlushAsksRebuild
  /\ Flush
  /\ wake' = Deadline(timers')
  /\ pc' = "polling"
  /\ UNCHANGED <<capacity, dispatching, now, pollRc, timeNow, it, cursor, last, history>>

(* poll() comes back, true or false, and start_handle_timers begins. *)
BeginTimers(rc) ==
  /\ pollRc' = rc
  /\ dispatching' = TRUE
  /\ timeNow' = now
  /\ it' = First(timers)
  /\ pc' = "timers"
  /\ UNCHANGED <<items, capacity, timers, rebuild, later, now, wake, cursor, last, history>>

(* Something is ready, or the time is over. *)
PollReturns(ready) ==
  /\ pc = "polling"
  /\ poller_' = ZmqPoll(poller_, ready)
  /\ SomeReported(poller_') \/ now >= wake
  /\ BeginTimers(SomeReported(poller_'))

PollReturnsNothing ==
  /\ pc = "polling"
  /\ UNCHANGED poller_
  /\ BeginTimers(FALSE)

(* Any other error of zmq_poll leaves start() as an exception. *)
PollThrows ==
  /\ pc = "polling"
  /\ pc' = "stopped"
  /\ UNCHANGED <<itemVars, timers, dispatching, rebuild, later, now, locals, history>>

Expired == it # NoTimer /\ timers[Position(timers, it)].when < timeNow

RunTimer ==
  /\ pc = "timers" /\ Expired
  /\ pc' = "timer handler"
  /\ UNCHANGED <<itemVars, timers, dispatching, rebuild, later, now, locals, history>>

(* The handler of a timer returns: the last repetition erases the timer, any
   other moves it on by its delay, also after a reset of its own; ++ goes on
   from where the timer is by now.  On false start_handle_timers returns without its final sort. *)
TimerReturns(ret) ==
  /\ pc = "timer handler"
  /\ LET i == Position(timers, it)
     IN /\ it' = NextOf(timers, i)
        /\ timers' = IF Spent(timers[i]) THEN Erase(timers, i)
                     ELSE [timers EXCEPT ![i] = Renew(@)]
  /\ pc' = IF ret THEN "timers" ELSE "leaving"
  /\ dispatching' = ret
  /\ disorder' = (disorder \/ ~ret)
  /\ UNCHANGED <<itemVars, rebuild, later, now, pollRc, wake, timeNow, cursor, last,
                 wanted, cancelled, adds>>

(* The removals of the timer handlers ignored *)
ServeItemsAlways == pollRc

(* poll() was true and no handler has changed the items since. *)
ServeItems == pollRc /\ ~rebuild

(* No expired timer is left at `it': sort, then the items of this round unless
   the items have changed. *)
TimersEnd ==
  /\ pc = "timers" /\ ~Expired
  /\ timers' = Sort(timers)
  /\ disorder' = FALSE
  /\ IF ServeItems
     THEN pc' = "sockets" /\ cursor' = 1 /\ last' = Len(items) /\ UNCHANGED dispatching
     ELSE pc' = "top" /\ dispatching' = FALSE /\ UNCHANGED <<cursor, last>>
  /\ UNCHANGED <<itemVars, rebuild, later, now, pollRc, wake, timeNow, it, wanted,
                 cancelled, adds>>

(* One turn of start_handle_poller. *)
Dispatch ==
  /\ pc = "sockets" /\ cursor <= last
  /\ IF PollEvents(poller_, items[cursor]) # {}
     THEN pc' = "socket handler" /\ UNCHANGED cursor
     ELSE cursor' = cursor + 1 /\ UNCHANGED pc
  /\ UNCHANGED <<itemVars, timers, dispatching, rebuild, later, now, pollRc, wake,
                 timeNow, it, last, history>>

SocketReturns(ret) ==
  /\ pc = "socket handler"
  /\ cursor' = cursor + 1
  /\ pc' = IF ret THEN "sockets" ELSE "leaving"
  /\ dispatching' = ret
  /\ UNCHANGED <<itemVars, timers, rebuild, later, now, pollRc, wake, timeNow, it,
                 last, history>>

SocketsEnd ==
  /\ pc = "sockets" /\ cursor > last
  /\ pc' = "top"
  /\ dispatching' = FALSE
  /\ UNCHANGED <<itemVars, timers, rebuild, later, now, locals, history>>

Leave ==
  /\ pc = "leaving"
  /\ Flush
  /\ pc' = "stopped"
  /\ rebuild' = (rebuild \/ FlushAsksRebuild)
  /\ UNCHANGED <<capacity, dispatching, now, locals, history>>

(* An exception of a handler leaves start() with dispatching_ set. *)
HandlerThrows ==
  /\ MayThrow
  /\ pc \in {"timer handler", "socket handler"}
  /\ pc' = "stopped"
  /\ disorder' = (disorder \/ pc = "timer handler")
  /\ UNCHANGED <<itemVars, timers, dispatching, rebuild, later, now, locals, wanted,
                 cancelled, adds>>

(* Time passes while the thread waits or client code runs. *)
Tick ==
  /\ pc = "polling" \/ InClientCode
  /\ now < MaxNow
  /\ now' = now + 1
  /\ UNCHANGED <<itemVars, timers, dispatching, rebuild, later, pc, locals, history>>

Undefined == pc = "undefined" /\ UNCHANGED loopVars

ClientCall ==
  \/ \E h \in Handle : AddItem(h, Flags) \/ RemoveItem(h)
  \/ \E delay \in Delays, times \in Times : AddTimer(delay, times)
  \/ \E i \in DOMAIN timers : ResetTimer(i) \/ RemoveTimer(i)
  \/ Start

InsideStart ==
  \/ Top
  \/ FlushUndefined
  \/ \E ready \in [Handle -> SUBSET Flags] : PollReturns(ready)
  \/ PollReturnsNothing
  \/ PollThrows
  \/ RunTimer
  \/ \E ret \in BOOLEAN : TimerReturns(ret) \/ SocketReturns(ret)
  \/ TimersEnd
  \/ Dispatch
  \/ SocketsEnd
  \/ Leave
  \/ HandlerThrows

LoopNext == ClientCall \/ InsideStart \/ Tick \/ Undefined

LoopSpec == LoopInit /\ [][LoopNext]_loopVars

(* The thread inside start() keeps running, handlers come back, time passes. *)
FairLoopSpec == LoopSpec /\ WF_loopVars(InsideStart) /\ WF_loopVars(Tick)

-----------------------------------------------------------------------------
LoopTypeOK ==
  /\ TableType(poller_)
  /\ items \in Seq(Handle) /\ Len(items) <= capacity
  /\ timers \in Seq(Timer)
  /\ dispatching \in BOOLEAN /\ rebuild \in BOOLEAN /\ pollRc \in BOOLEAN
  /\ fdRemoveLater \in Seq(Fds) /\ sockRemoveLater \in Seq(Sockets)
  /\ timerRemoveLater \in Seq(Addr)
  /\ pc \in PC /\ it \in Serial \cup {NoTimer}
  /\ {now, wake, timeNow, cursor, last} \subseteq Nat
  /\ wanted \subseteq Handle /\ cancelled \subseteq Serial
  /\ disorder \in BOOLEAN
  /\ adds \in 0..MaxAdds

Serials(ts) == {ts[i].serial : i \in DOMAIN ts}

(* zmq_poll's timeout, taken from the first of the list alone
   (loop.cpp:221-229), is not later than the deadline of any timer. *)
WakesInTime == \A i \in DOMAIN timers : wake <= timers[i].when \/ wake <= now

(* The thread never sleeps past the moment a timer is due, "time after which
   handler will be executed" (loop.hpp:77), although the list is only sorted at
   some points and deadlines move in between; unless start() was left by a
   timer handler and called again. *)
NoOversleep == pc = "polling" /\ ~disorder => WakesInTime

(* Whenever the thread goes to sleep, every removal has been carried out, the
   deferred ones included: the loop's list, the poller's index and the calls
   of the client agree, and no cancelled timer is left (loop.hpp:91 "Remove
   timer event from the loop.", loop.hpp:98; loop.cpp:93-157, 208-219). *)
RemovalsDone ==
  pc = "polling" =>
    /\ Range(items) = wanted /\ DOMAIN poller_.index = wanted
    /\ Serials(timers) \cap cancelled = {}

(* A timer leaves the list only because the client removed that very timer or
   because it has fired for the last time (loop.hpp:76, 91). *)
OnlyCancelledOrSpent ==
  [][\A i \in DOMAIN timers :
       \/ timers[i].serial \in Serials(timers)' \cup cancelled'
       \/ timers[i].serial = it /\ timers[i].times = 1]_loopVars

(* A socket or descriptor that a timer handler removed does not get its
   handler called for what was polled before (test_loop.cpp:49-73,
   loop.cpp:159-160): the round over the items begins only when it is a round
   over what the client wants monitored. *)
SocketsSeeRemovals ==
  [][pc = "timers" /\ pc' = "sockets" => Range(items') = wanted']_loopVars

(* The timer of that serial is waiting for a moment before t. *)
DueBefore(serial, t) ==
  \E i \in DOMAIN timers : timers[i].serial = serial /\ timers[i].when < t

(* A timer whose deadline has passed while the loop waits is run, unless it is
   removed or reset meanwhile or start() is left: the resets of other handlers,
   which reorder the list under the iterator, do not starve it.  A list that was
   left out of order is left out, as for NoOversleep. *)
DueTimerFires ==
  \A s \in Serial :
    (pc = "polling" /\ DueBefore(s, now))
      ~> (\/ pc = "timer handler" /\ it = s
          \/ ~DueBefore(s, now) \/ disorder
          \/ pc \in {"leaving", "stopped", "undefined"})
=============================================================================
