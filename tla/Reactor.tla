------------------------------ MODULE Reactor ------------------------------
(***************************************************************************)
(* zmqpp::reactor (zmqpp/reactor.cpp): a poller and one handler per        *)
(* registration.  poll() calls zmq_poll once and then runs the handlers of *)
(* the handles that reported something, in registration order.  Handlers   *)
(* are user code and call back into the reactor, so a call of poll() is    *)
(* several steps here: zmq_poll, one step per item of the dispatch loop,   *)
(* the calls a running handler makes, and one step per deferred removal.   *)
(***************************************************************************)
EXTENDS PollTable

CONSTANTS EventChoices,  (* the event sets the client asks for              *)
          MaxHandlers,   (* bound: registrations at a time                  *)
          MaxLater,      (* bound: removals deferred at a time              *)
          AddTwice,      (* may the client add a handle it has added?       *)
          ReAdd          (* may it add a handle whose removal is pending?   *)

ASSUME ReactorAssumption ==
  /\ EventChoices \subseteq SUBSET Flags
  /\ MaxHandlers \in Nat /\ MaxLater \in Nat
  /\ AddTwice \in BOOLEAN /\ ReAdd \in BOOLEAN

VARIABLES
  poller,           (* poller_                                                  *)
  handlers,         (* items_, each pair shown by the handle of its pollitem    *)
  capacity,         (* what the vector items_ holds before it reallocates       *)
  dispatching,      (* dispatching_                                             *)
  fdRemoveLater,    (* fdRemoveLater_                                           *)
  sockRemoveLater,  (* sockRemoveLater_: pointers to socket objects             *)
  closed,           (* sockets closed by the client: their handle is null       *)
  pc,               (* where the thread is                                      *)
  cursor, last,     (* the iterator of the dispatch loop and its end            *)
  wanted,           (* history: handles whose last call was an add              *)
  due               (* history: handles that reported and are yet to be served  *)

data == <<poller, handlers, capacity>>
later == <<fdRemoveLater, sockRemoveLater>>
loopVars == <<cursor, last>>
vars == <<data, dispatching, later, closed, pc, loopVars, wanted, due>>

PC == {"idle",       (* outside poll(): the client may call anything         *)
       "dispatch",   (* at the head of the loop over items_                  *)
       "handler",    (* in the handler of handlers[cursor]                   *)
       "flush",      (* in flush_remove_later, `cursor' entries into it      *)
       "undefined"}  (* a dangling iterator: anything may follow             *)

Init ==
  /\ poller = EmptyPoller /\ handlers = <<>> /\ capacity = 0
  /\ dispatching = FALSE
  /\ fdRemoveLater = <<>> /\ sockRemoveLater = <<>>
  /\ closed = {} /\ pc = "idle" /\ cursor = 1 /\ last = 0
  /\ wanted = {} /\ due = {}

(* A flush that forgets the sockets *)
RemoveLaterNoSockets == fdRemoveLater

(* The order of flush_remove_later: descriptors first, then sockets. *)
RemoveLater == fdRemoveLater \o sockRemoveLater

(* The client has removed h and the reactor has yet to do so. *)
Pending(h) == h \notin wanted /\ (PollHas(poller, h) \/ h \in Range(RemoveLater))

InClientCode == pc \in {"idle", "handler"}

-----------------------------------------------------------------------------
(* add, from outside or from a handler.  Growing the vector while the loop
   runs over it leaves its iterators dangling. *)
Add(h, events) ==
  /\ InClientCode
  /\ h \notin closed
  /\ Len(poller.items) < MaxHandlers
  /\ h \in wanted => AddTwice
  /\ Pending(h) => ReAdd
  /\ poller' = PollAdd(poller, h, events)
  /\ handlers' = Append(handlers, h)
  /\ capacity' = IF Len(handlers) < capacity THEN capacity
                 ELSE IF capacity = 0 THEN 1 ELSE 2 * capacity
  /\ pc' = IF pc = "handler" /\ capacity' # capacity THEN "undefined" ELSE pc
  /\ wanted' = wanted \cup {h}
  /\ UNCHANGED <<dispatching, later, closed, loopVars, due>>

(* A removal that leaves the poller as it was *)
RemoveHandlerOnly(h) ==
  /\ handlers' = Without(handlers, {h})
  /\ UNCHANGED poller

(* The removal itself: the handlers of the handle, then the poller's entry. A
   socket is compared by the handle it has now, and a closed one has none. *)
RemoveNow(h) ==
  IF h \in closed THEN UNCHANGED <<poller, handlers>>
  ELSE /\ handlers' = Without(handlers, {h})
       /\ poller' = PollRemove(poller, h)

(* remove: at once, or noted down for flush_remove_later while dispatching_ *)
Remove(h) ==
  /\ InClientCode
  /\ wanted' = wanted \ {h}
  /\ \/ /\ ~dispatching
        /\ RemoveNow(h)
        /\ UNCHANGED <<capacity, later>>
     \/ /\ dispatching
        /\ Len(fdRemoveLater) + Len(sockRemoveLater) < MaxLater
        /\ IF h \in Fds
           THEN fdRemoveLater' = Append(fdRemoveLater, h) /\ UNCHANGED sockRemoveLater
           ELSE sockRemoveLater' = Append(sockRemoveLater, h) /\ UNCHANGED fdRemoveLater
        /\ UNCHANGED data
  /\ UNCHANGED <<dispatching, closed, pc, loopVars, due>>

(* check_for, which throws and changes nothing for an unknown handle *)
CheckFor(h, events) ==
  /\ InClientCode
  /\ PollHas(poller, h)
  /\ h \notin closed
  /\ poller' = PollCheckFor(poller, h, events)
  /\ UNCHANGED <<handlers, capacity, dispatching, later, closed, pc, loopVars, wanted, due>>

(* The client closes a socket it has removed, which may be
   before the deferred removal happens. *)
Close(s) ==
  /\ InClientCode
  /\ s \notin closed /\ s \notin wanted
  /\ closed' = closed \cup {s}
  /\ UNCHANGED <<data, dispatching, later, pc, loopVars, wanted, due>>

-----------------------------------------------------------------------------
(* zmq_poll knows every socket of the array; with a closed one it fails and
   poll() throws without any change. *)
Pollable(p) == \A i \in DOMAIN p.items : p.items[i].handle \notin closed

(* poll(): false on a timeout, else the dispatch loop begins. *)
Poll(ready) ==
  /\ pc = "idle"
  /\ Pollable(poller)
  /\ poller' = ZmqPoll(poller, ready)
  /\ \/ /\ ~SomeReported(poller')
        /\ UNCHANGED <<dispatching, pc, loopVars, due>>
     \/ /\ SomeReported(poller')
        /\ dispatching' = TRUE
        /\ pc' = "dispatch"
        /\ cursor' = 1 /\ last' = Len(handlers)
        /\ due' = {h \in Range(handlers) :
                     \E i \in DOMAIN poller'.items :
                       poller'.items[i].handle = h /\ poller'.items[i].revents # {}}
  /\ UNCHANGED <<handlers, capacity, later, closed, wanted>>

PollThrows == pc = "idle" /\ ~Pollable(poller) /\ UNCHANGED vars

(* One turn of the dispatch loop: the handler runs when the poller has an
   event for its handle. *)
Dispatch ==
  /\ pc = "dispatch" /\ cursor <= last
  /\ \/ /\ PollEvents(poller, handlers[cursor]) # {}
        /\ pc' = "handler"
        /\ due' = due \ {handlers[cursor]}
        /\ UNCHANGED cursor
     \/ /\ PollEvents(poller, handlers[cursor]) = {}
        /\ cursor' = cursor + 1
        /\ UNCHANGED <<pc, due>>
  /\ UNCHANGED <<data, dispatching, later, closed, last, wanted>>

(* A round that ends with the first handler *)
HandlerEndsRound ==
  /\ pc = "handler"
  /\ pc' = "dispatch"
  /\ cursor' = last + 1
  /\ UNCHANGED <<data, dispatching, later, closed, last, wanted, due>>

(* A round that does not get past the first handler *)
HandlerKeepsCursor ==
  /\ pc = "handler"
  /\ pc' = "dispatch"
  /\ UNCHANGED <<data, dispatching, later, closed, loopVars, wanted, due>>

HandlerReturns ==
  /\ pc = "handler"
  /\ pc' = "dispatch"
  /\ cursor' = cursor + 1
  /\ UNCHANGED <<data, dispatching, later, closed, last, wanted, due>>

(* An exception of the handler leaves poll() as it stands: dispatching_ stays
   set and nothing is flushed. *)
HandlerThrows ==
  /\ pc = "handler"
  /\ pc' = "idle"
  /\ due' = {}
  /\ UNCHANGED <<data, dispatching, later, closed, loopVars, wanted>>

DispatchEnds ==
  /\ pc = "dispatch" /\ cursor > last
  /\ dispatching' = FALSE
  /\ pc' = "flush"
  /\ cursor' = 1
  /\ UNCHANGED <<data, later, closed, last, wanted, due>>

(* flush_remove_later: one deferred removal, by remove() itself.  A failure
   of reindex leaves poll() with the lists as they are. *)
FlushOne ==
  /\ pc = "flush" /\ cursor <= Len(RemoveLater)
  /\ LET h == RemoveLater[cursor]
     IN /\ RemoveNow(h)
        /\ IF h \notin closed /\ PollRemoveThrows(poller, h)
           THEN pc' = "idle" /\ UNCHANGED cursor
           ELSE cursor' = cursor + 1 /\ UNCHANGED pc
  /\ UNCHANGED <<capacity, dispatching, later, closed, last, wanted, due>>

FlushEnds ==
  /\ pc = "flush" /\ cursor > Len(RemoveLater)
  /\ fdRemoveLater' = <<>> /\ sockRemoveLater' = <<>>
  /\ pc' = "idle"
  /\ UNCHANGED <<data, dispatching, closed, loopVars, wanted, due>>

Undefined == pc = "undefined" /\ UNCHANGED vars

ClientCall ==
  \/ \E h \in Handle, events \in EventChoices : Add(h, events) \/ CheckFor(h, events)
  \/ \E h \in Handle : Remove(h)
  \/ \E s \in Sockets : Close(s)

InsidePoll ==
  Dispatch \/ HandlerReturns \/ HandlerThrows \/ DispatchEnds \/ FlushOne \/ FlushEnds

Next ==
  \/ ClientCall
  \/ \E ready \in [Handle -> SUBSET Flags] : Poll(ready)
  \/ PollThrows
  \/ InsidePoll
  \/ Undefined

Spec == Init /\ [][Next]_vars

(* The thread inside poll() keeps running and every handler comes back. *)
FairSpec == Spec /\ WF_vars(InsidePoll)

-----------------------------------------------------------------------------
TypeOK ==
  /\ TableType(poller)
  /\ handlers \in Seq(Handle) /\ Len(handlers) <= capacity
  /\ dispatching \in BOOLEAN
  /\ fdRemoveLater \in Seq(Fds) /\ sockRemoveLater \in Seq(Sockets)
  /\ closed \subseteq Sockets /\ wanted \subseteq Handle /\ due \subseteq Handle
  /\ pc \in PC /\ cursor \in Nat /\ last \in Nat

(* The list of handlers and the poller's index speak of the same handles in
   every state between two steps of the thread, deferred removals, thrown
   handlers and handles added twice included: the lookup of an item's events
   in the dispatch loop (reactor.cpp:120) never throws, and no monitored
   handle lacks a handler. *)
HandlersMatchPoller == Range(handlers) = DOMAIN poller.index

(* The array handed to zmq_poll holds nothing but registered handles, one item
   each, for a client that adds no handle twice: nothing wakes poll() that has
   no handler (reactor.cpp:46-99). *)
NothingElsePolled == Exact(poller)

(* The deferred removals are complete: once poll() has returned, the reactor
   watches exactly the handles whose last call was an add, and besides them
   at most sockets that were closed before their removal (reactor.cpp:63-99,
   150-158). *)
LastCallWins ==
  pc = "idle" /\ ~dispatching => DOMAIN poller.index \ closed = wanted

(* A round that reaches its end has called a handler of every handle that
   reported an event (reactor.cpp:116-122; "a handler that will be called when
   the monitored events occur", reactor.hpp:50): what handlers add, remove or
   re-arm in the meantime makes the loop skip no one. *)
RoundComplete ==
  [][pc = "dispatch" /\ pc' = "flush" => due = {}]_vars

(* A handle that reported is served, or a handler threw, or the iterators are
   gone: the round does not hang. *)
DueServed == \A h \in Handle : h \in due ~> (h \notin due \/ pc = "undefined")
=============================================================================
