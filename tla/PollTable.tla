----------------------------- MODULE PollTable -----------------------------
(***************************************************************************)
(* The data of a zmqpp::poller (zmqpp/poller.cpp) and its member functions *)
(* as operators on it.  They are operators, not actions, because the       *)
(* reactor and the loop own a poller and call several of its functions in  *)
(* one step of their own (flush_remove_later removes a whole list).        *)
(*                                                                         *)
(* A poller is [items, index]: items is the vector _items, the array that  *)
(* is handed to zmq_poll; index is the two maps _index and _fdindex as one *)
(* function, since a socket and a descriptor are never the same key.       *)
(* Positions are 1-based here and 0-based in the code.                     *)
(***************************************************************************)
EXTENDS Integers, Sequences, FiniteSets, Functions

CONSTANTS Sockets,    (* the zmq handles (void star) a poller may watch      *)
          Fds,        (* the standard descriptors it may watch               *)
          Flags,      (* the event flags: poll_in, poll_out, poll_error      *)
          PollError   (* poll_error, which only a descriptor ever reports    *)

ASSUME PollAssumption ==
  /\ Sockets \cap Fds = {}
  /\ PollError \in Flags

Handle == Sockets \cup Fds

(* A zmq_pollitem_t: what to monitor, for which events, and what the last
   zmq_poll reported for it. *)
PollItem == [handle : Handle, events : SUBSET Flags, revents : SUBSET Flags]

EmptyPoller == [items |-> <<>>, index |-> [h \in {} |-> 0]]

(* poller::add: the item goes to the back and the index entry of its handle
   is overwritten; nothing looks whether the handle was there already. *)
PollAdd(p, h, events) ==
  [items |-> Append(p.items, [handle |-> h, events |-> events, revents |-> {}]),
   index |-> [k \in DOMAIN p.index \cup {h} |->
                IF k = h THEN Len(p.items) + 1 ELSE p.index[k]]]

(* poller::has *)
PollHas(p, h) == h \in DOMAIN p.index

(* The handle of the last item, the one a removal moves. *)
BackHandle(p) == p.items[Len(p.items)].handle

(* The entry of h is not the last one, so the last item takes its place. *)
MovesBack(p, h) == PollHas(p, h) /\ p.index[h] # Len(p.items)

(* poller::reindex does not find the handle of the item that was moved: the
   entry of h is erased before reindex looks it up. *)
PollRemoveThrows(p, h) ==
  MovesBack(p, h) /\ BackHandle(p) \notin DOMAIN p.index \ {h}

(* A remove that does not reindex the item it moved. *)
PollRemoveNoReindex(p, h) ==
  IF ~PollHas(p, h) THEN p ELSE
  [items |-> SubSeq([p.items EXCEPT ![p.index[h]] = p.items[Len(p.items)]],
                    1, Len(p.items) - 1),
   index |-> Restrict(p.index, DOMAIN p.index \ {h})]

(* poller::remove and poller::reindex: swap with the back, pop, erase the
   entry of h and correct the entry of the item that moved.  When reindex
   throws, everything before it has already happened. *)
PollRemove(p, h) ==
  IF ~PollHas(p, h) THEN p ELSE
  LET at == p.index[h]
      rest == Restrict(p.index, DOMAIN p.index \ {h})
  IN [items |-> SubSeq([p.items EXCEPT ![at] = p.items[Len(p.items)]],
                       1, Len(p.items) - 1),
      index |-> [k \in DOMAIN rest |->
                   IF MovesBack(p, h) /\ k = BackHandle(p) THEN at ELSE rest[k]]]

(* A check_for that assigns a fresh item. *)
PollCheckForAfresh(p, h, events) ==
  [items |-> [p.items EXCEPT ![p.index[h]] =
                [handle |-> h, events |-> events, revents |-> {}]],
   index |-> p.index]

(* poller::check_for, for a handle that has an entry. *)
PollCheckFor(p, h, events) ==
  [items |-> [p.items EXCEPT ![p.index[h]].events = events], index |-> p.index]

(* poller::events, for a handle that has an entry. *)
PollEvents(p, h) == p.items[p.index[h]].revents

(* What zmq_poll writes into revents when `ready' is the state of the world:
   a socket never reports an error, a descriptor reports one unasked. *)
Reported(h, events, ready) ==
  IF h \in Sockets THEN (events \cap ready[h]) \ {PollError}
                   ELSE (events \cup {PollError}) \cap ready[h]

(* A zmq_poll that returns 0 or more: every item of the array is rewritten. *)
ZmqPoll(p, ready) ==
  [items |-> [i \in 1..Len(p.items) |->
                [p.items[i] EXCEPT !.revents =
                   Reported(p.items[i].handle, p.items[i].events, ready)]],
   index |-> p.index]

(* zmq_poll's return value is positive. *)
SomeReported(p) == \E i \in DOMAIN p.items : p.items[i].revents # {}
-----------------------------------------------------------------------------
(* What erase leaves of a list: the elements of s at the positions I, in order *)
Kept(s, I) ==
  [k \in 1..Cardinality(I) |-> s[CHOOSE i \in I : Cardinality({j \in I : j <= i}) = k]]

(* ... and those that are not in `gone' *)
Without(s, gone) == Kept(s, {i \in DOMAIN s : s[i] \notin gone})

-----------------------------------------------------------------------------
(* The types of a poller. *)
TableType(p) ==
  /\ p.items \in Seq(PollItem)
  /\ DOMAIN p.index \subseteq Handle
  /\ p.index \in [DOMAIN p.index -> Nat \ {0}]

(* Every index entry leads to an item of its own handle. *)
Sound(p) ==
  \A h \in DOMAIN p.index :
    p.index[h] \in 1..Len(p.items) /\ p.items[p.index[h]].handle = h

(* Every item is the one the index entry of its handle leads to. *)
Exact(p) ==
  \A i \in 1..Len(p.items) :
    PollHas(p, p.items[i].handle) /\ p.index[p.items[i].handle] = i

(* What has() and events() let a client see of a poller. *)
View(p) ==
  [h \in DOMAIN p.index |-> [events  |-> p.items[p.index[h]].events,
                             revents |-> p.items[p.index[h]].revents]]
=============================================================================
