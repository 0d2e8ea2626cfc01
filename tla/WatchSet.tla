------------------------------ MODULE WatchSet ------------------------------
(***************************************************************************)
(* What a poller promises, without arrays or positions (the documentation  *)
(* of poller.hpp): a set of handles, each with the events to monitor and   *)
(* the events the last poll saw.  An operation on one handle leaves every  *)
(* other handle alone, removal never fails, and poll answers true exactly  *)
(* when a handle of the set has something to report.  That is promised     *)
(* until the client adds a handle of the set again.                        *)
(***************************************************************************)
EXTENDS PollTable

VARIABLES watched, outcome, doubled

watchVars == <<watched, outcome, doubled>>

Init == watched = [h \in {} |-> 0] /\ outcome = "ok" /\ doubled = FALSE

Start(h, events) ==
  /\ h \notin DOMAIN watched
  /\ watched' = [k \in DOMAIN watched \cup {h} |->
                   IF k = h THEN [events |-> events, revents |-> {}] ELSE watched[k]]
  /\ outcome' = "ok"

Stop(h) ==
  /\ watched' = Restrict(watched, DOMAIN watched \ {h})
  /\ outcome' = "ok"

ChangeEvents(h, events) ==
  /\ h \in DOMAIN watched
  /\ watched' = [watched EXCEPT ![h].events = events]
  /\ outcome' = "ok"

RefuseUnknown(h) ==
  /\ h \notin DOMAIN watched
  /\ outcome' = "not represented"
  /\ UNCHANGED watched

Observe(ready) ==
  /\ watched' = [h \in DOMAIN watched |->
                   [watched[h] EXCEPT !.revents =
                      Reported(h, watched[h].events, ready)]]
  /\ outcome' = IF \E h \in DOMAIN watched : watched'[h].revents # {}
                THEN "true" ELSE "false"

(* An interrupted or failed poll tells nothing. *)
ObserveNothing ==
  /\ outcome' \in {"false", "zmq error"}
  /\ UNCHANGED watched

Operation ==
  \/ \E h \in Handle, events \in SUBSET Flags :
       Start(h, events) \/ ChangeEvents(h, events)
  \/ \E h \in Handle : Stop(h) \/ RefuseUnknown(h)
  \/ \E ready \in [Handle -> SUBSET Flags] : Observe(ready)
  \/ ObserveNothing

(* The client breaks its part by adding a handle that is watched. *)
AddAgain == \E h \in Handle : h \in DOMAIN watched /\ doubled' = TRUE

Next ==
  \/ ~doubled /\ Operation /\ UNCHANGED doubled
  \/ ~doubled /\ AddAgain
  \/ doubled /\ UNCHANGED doubled

Spec == Init /\ [][Next]_watchVars
=============================================================================
