------------------------------- MODULE Poller -------------------------------
(***************************************************************************)
(* A zmqpp::poller and a client that calls its members in any order, with  *)
(* a kernel and a libzmq that report anything.  One action per member that *)
(* changes state; `outcome' is what the last call returned or threw, and   *)
(* `doubled' remembers whether the client ever added a handle that was     *)
(* monitored already, which nothing refuses.                               *)
(***************************************************************************)
EXTENDS PollTable

CONSTANT MaxItems     (* bound: items the client keeps in the poller        *)

ASSUME PollerAssumption == MaxItems \in Nat

VARIABLES poller, outcome, doubled

vars == <<poller, outcome, doubled>>

Outcome == {"ok", "true", "false", "not represented", "unable to reindex",
            "zmq error"}

Init == poller = EmptyPoller /\ outcome = "ok" /\ doubled = FALSE

(* add(socket), add(descriptor), add(item) *)
Add(h, events) ==
  /\ Len(poller.items) < MaxItems
  /\ poller' = PollAdd(poller, h, events)
  /\ outcome' = "ok"
  /\ doubled' = (doubled \/ PollHas(poller, h))

(* remove(socket), remove(descriptor), remove(item) *)
Remove(h) ==
  /\ poller' = PollRemove(poller, h)
  /\ outcome' = IF PollRemoveThrows(poller, h) THEN "unable to reindex" ELSE "ok"
  /\ UNCHANGED doubled

(* check_for: throws when the handle has no entry *)
CheckFor(h, events) ==
  \/ /\ PollHas(poller, h)
     /\ poller' = PollCheckFor(poller, h, events)
     /\ outcome' = "ok"
     /\ UNCHANGED doubled
  \/ /\ ~PollHas(poller, h)
     /\ outcome' = "not represented"
     /\ UNCHANGED <<poller, doubled>>

(* poll(timeout), zmq_poll having returned how many items are ready; 0 is a
   timeout. *)
Poll(ready) ==
  /\ poller' = ZmqPoll(poller, ready)
  /\ outcome' = IF SomeReported(poller') THEN "true" ELSE "false"
  /\ UNCHANGED doubled

(* poll interrupted by a signal: the revents of the round before are kept. *)
PollInterrupted == outcome' = "false" /\ UNCHANGED <<poller, doubled>>

(* poll with any other error of zmq_poll (a context that is terminated). *)
PollFails == outcome' = "zmq error" /\ UNCHANGED <<poller, doubled>>

Next ==
  \/ \E h \in Handle, events \in SUBSET Flags : Add(h, events) \/ CheckFor(h, events)
  \/ \E h \in Handle : Remove(h)
  \/ \E ready \in [Handle -> SUBSET Flags] : Poll(ready)
  \/ PollInterrupted
  \/ PollFails

Spec == Init /\ [][Next]_vars

-----------------------------------------------------------------------------
(* The types of the array, the index and the outcome. *)
TypeOK == TableType(poller) /\ outcome \in Outcome /\ doubled \in BOOLEAN

(* An index entry always leads to an item of its own handle, whatever the
   client does, duplicates and failed removals included: has, events and
   check_for (poller.cpp:152-242) never read past _items or another handle's
   item. *)
IndexSound == Sound(poller)

(* Unless a monitored handle was added again, the index is the exact inverse
   of the array: every polled item is the one its handle's entry leads to, so
   nothing is polled that has() denies, "Stop monitoring a socket."
   (poller.hpp:117) leaves no item of it behind and the lookups of reindex
   (poller.cpp:85-86, 91-92) succeed. *)
IndexExact == ~doubled => Exact(poller)

-----------------------------------------------------------------------------
(* The watch set this poller shows its clients. *)
Watch == INSTANCE WatchSet WITH watched <- View(poller)

(* Until a handle is added twice, the array, the swap on removal and the two
   maps are invisible: the poller is a finite map from handles to events
   whose remove cannot fail and whose poll tells about the handles in the map
   and no others (poller.cpp:53-242). *)
ImplementsWatchSet == Watch!Spec
=============================================================================
