------------------------------- MODULE Actor -------------------------------
(***************************************************************************)
(* zmqpp::actor (zmqpp/actor.cpp): a thread that runs a user routine, tied *)
(* to its parent by a pair of inproc sockets.  Two threads step here: the  *)
(* parent, in the constructor, in client code, in stop() or in the         *)
(* destructor, and the child, in the user routine and then in the rest of  *)
(* start_routine.  The child keeps the address of the actor object the     *)
(* constructor ran on ("first"); moving the actor leaves that address with *)
(* an empty shell ("first") and the pipe with another object ("second").   *)
(*                                                                         *)
(* A user routine here announces itself with a signal, exchanges data,     *)
(* ends on signal::stop or earlier, by returning true or false or by an    *)
(* exception of class std::exception.  The client reads only data from     *)
(* the pipe, never the answer that stop() waits for.                       *)
(***************************************************************************)
EXTENDS Integers, Sequences

CONSTANTS
  Hwm,          (* messages a direction of the pipe holds                   *)
  MaxData,      (* bound: data messages in each direction                   *)
  MaxStops,     (* bound: stop() calls that do not block                    *)
  MayMove,      (* may the client move the actor?                           *)
  LateThrow,    (* may the routine throw after it has announced itself?     *)
  OwnKo         (* may the routine send signal::ko itself?                  *)

ASSUME ActorAssumption ==
  /\ Hwm \in Nat \ {0} /\ MaxData \in Nat /\ MaxStops \in Nat
  /\ {MayMove, LateThrow, OwnKo} \subseteq BOOLEAN

VARIABLES
  parent,       (* where the parent thread is                               *)
  child,        (* where the child thread is                                *)
  toChild,      (* the pipe from parent_pipe_ to child_pipe                 *)
  toParent,     (* the pipe from child_pipe to parent_pipe_                 *)
  parentOpen, childOpen,   (* are the two sockets open?                     *)
  mutex,        (* the thread that holds mutex_                             *)
  eptr,         (* is eptr_ set?                                            *)
  stopped, retval,         (* stopped_ and retval_                          *)
  alive,        (* the actor objects that exist                             *)
  home,         (* the object that has the pipe                             *)
  result,       (* how the routine ended                                    *)
  thrown,       (* what the constructor threw                               *)
  sent, asked   (* data messages sent so far, stop() calls so far           *)

pipes == <<toChild, toParent, parentOpen, childOpen>>
answer == <<stopped, retval>>
objects == <<alive, home>>
counters == <<sent, asked>>
vars == <<parent, child, pipes, mutex, eptr, answer, objects, result, thrown, counters>>

Parent == {"constructor", "failing", "client", "stop", "destructor", "done"}
Child == {"starting", "running", "ended", "catching", "sending ko", "unlocking",
          "closing", "gone"}
Signal == {"ok", "ko", "stop"}
Message == Signal \cup {"data"}

Init ==
  /\ parent = "constructor" /\ child = "starting"
  /\ toChild = <<>> /\ toParent = <<>> /\ parentOpen = TRUE /\ childOpen = TRUE
  /\ mutex = "free" /\ eptr = FALSE
  /\ stopped = FALSE /\ retval = FALSE
  /\ alive = {"first"} /\ home = "first"
  /\ result = "none" /\ thrown = "no"
  /\ sent = [end \in {"parent", "child"} |-> 0] /\ asked = 0

(* send with dontwait: without room or without a peer the message is dropped. *)
TrySend(pipe, peer, m) ==
  IF peer /\ Len(pipe) < Hwm THEN Append(pipe, m) ELSE pipe

(* A blocking send of the child: no step while it has no room or no peer. *)
ChildSends(m) ==
  /\ parentOpen /\ Len(toParent) < Hwm
  /\ toParent' = Append(toParent, m)
  /\ UNCHANGED <<toChild, parentOpen, childOpen>>

ParentReceives(m) ==
  /\ toParent # <<>> /\ m = Head(toParent)
  /\ toParent' = Tail(toParent)

(* Every message taken for the signal wait() is after *)
AnySignal(m) == TRUE

(* message::is_signal *)
IsSignal(m) == m \in Signal

-----------------------------------------------------------------------------
(* The parent.  socket::wait drops what is no signal. *)
Waiting == parent \in {"constructor", "stop", "destructor"}

WaitSkips ==
  /\ Waiting
  /\ \E m \in Message : ParentReceives(m) /\ ~IsSignal(m)
  /\ UNCHANGED <<parent, child, toChild, parentOpen, childOpen, mutex, eptr, answer,
                 objects, result, thrown, counters>>

(* The constructor's wait: on anything but ko it is done, on ko it deletes
   its pipe and goes for the mutex. *)
Constructed ==
  /\ parent = "constructor"
  /\ \E m \in Message :
       /\ ParentReceives(m) /\ IsSignal(m)
       /\ parent' = IF m = "ko" THEN "failing" ELSE "client"
       /\ parentOpen' = (m # "ko")
  /\ UNCHANGED <<child, toChild, childOpen, mutex, eptr, answer, objects, result,
                 thrown, counters>>

(* Without the lock_guard *)
ConstructorThrowsUnlocked ==
  /\ parent = "failing"
  /\ thrown' = IF eptr THEN "nested" ELSE "plain"
  /\ alive' = alive \ {home}
  /\ parent' = "done"
  /\ UNCHANGED <<child, pipes, mutex, eptr, answer, home, result, counters>>

(* With the mutex: rethrow the child's exception or throw a plain one; the
   object is no more, its mutex included. *)
ConstructorThrows ==
  /\ parent = "failing" /\ mutex = "free"
  /\ thrown' = IF eptr THEN "nested" ELSE "plain"
  /\ alive' = alive \ {home}
  /\ parent' = "done"
  /\ UNCHANGED <<child, pipes, mutex, eptr, answer, home, result, counters>>

AskToStop == toChild' = TrySend(toChild, childOpen, "stop")

(* stop(false) *)
StopNoWait ==
  /\ parent = "client" /\ asked < MaxStops
  /\ asked' = asked + 1
  /\ AskToStop
  /\ UNCHANGED <<parent, child, toParent, parentOpen, childOpen, mutex, eptr, answer,
                 objects, result, thrown, sent>>

(* stop(true) without a look at stopped_ *)
StopWaitsAgain ==
  /\ parent = "client"
  /\ AskToStop
  /\ parent' = "stop"
  /\ UNCHANGED <<child, toParent, parentOpen, childOpen, mutex, eptr, answer, objects,
                 result, thrown, counters>>

(* stop(true): with an answer from before it returns retval_ at once. *)
Stop ==
  /\ parent = "client"
  /\ AskToStop
  /\ parent' = IF stopped THEN "client" ELSE "stop"
  /\ UNCHANGED <<child, toParent, parentOpen, childOpen, mutex, eptr, answer, objects,
                 result, thrown, counters>>

(* A destructor that calls stop(false) *)
DestroyNoWait ==
  /\ parent = "client"
  /\ AskToStop
  /\ parent' = "done" /\ parentOpen' = FALSE /\ alive' = alive \ {home}
  /\ UNCHANGED <<child, toParent, childOpen, mutex, eptr, answer, home, result, thrown,
                 counters>>

(* The destructor of the object with the pipe: stop(true), then the pipe and
   the object go. *)
Destroy ==
  /\ parent = "client"
  /\ AskToStop
  /\ IF stopped
     THEN parent' = "done" /\ parentOpen' = FALSE /\ alive' = alive \ {home}
     ELSE parent' = "destructor" /\ UNCHANGED <<parentOpen, alive>>
  /\ UNCHANGED <<child, toParent, childOpen, mutex, eptr, answer, home, result, thrown,
                 counters>>

(* The wait in stop() ends: the answer is noted down. *)
Answered ==
  /\ parent \in {"stop", "destructor"}
  /\ \E m \in Message :
       ParentReceives(m) /\ IsSignal(m) /\ retval' = (m = "ok")
  /\ stopped' = TRUE
  /\ IF parent = "stop"
     THEN parent' = "client" /\ UNCHANGED <<parentOpen, alive>>
     ELSE parent' = "done" /\ parentOpen' = FALSE /\ alive' = alive \ {home}
  /\ UNCHANGED <<child, toChild, childOpen, mutex, eptr, home, result, thrown, counters>>

(* The move constructor: the pipe, stopped_ and retval_ change their object;
   eptr_ and mutex_ stay, and the child is not told. *)
Move ==
  /\ MayMove
  /\ parent = "client" /\ home = "first"
  /\ home' = "second" /\ alive' = alive \cup {"second"}
  /\ UNCHANGED <<parent, child, pipes, mutex, eptr, answer, result, thrown, counters>>

(* The destructor of an object that was moved from: stop() does nothing. *)
DestroyEmpty ==
  /\ parent = "client" /\ home = "second"
  /\ alive' = alive \ {"first"}
  /\ UNCHANGED <<parent, child, pipes, mutex, eptr, answer, home, result, thrown, counters>>

(* The client talks to the routine through pipe(). *)
ClientSends ==
  /\ parent = "client" /\ sent["parent"] < MaxData
  /\ childOpen /\ Len(toChild) < Hwm
  /\ toChild' = Append(toChild, "data")
  /\ sent' = [sent EXCEPT !["parent"] = @ + 1]
  /\ UNCHANGED <<parent, child, toParent, parentOpen, childOpen, mutex, eptr, answer,
                 objects, result, thrown, asked>>

ClientReceives ==
  /\ parent = "client"
  /\ ParentReceives("data")
  /\ UNCHANGED <<parent, child, toChild, parentOpen, childOpen, mutex, eptr, answer,
                 objects, result, thrown, counters>>

-----------------------------------------------------------------------------
(* The child.  The routine announces itself ... *)
Announce ==
  /\ child = "starting"
  /\ \E m \in {"ok"} \cup (IF OwnKo THEN {"ko"} ELSE {}) :
       /\ ChildSends(m)
       /\ IF m = "ok" THEN child' = "running" /\ UNCHANGED result
                      ELSE child' = "ended" /\ result' = "false"
  /\ UNCHANGED <<parent, mutex, eptr, answer, objects, thrown, counters>>

(* ... or returns false at once. *)
EndEarly ==
  /\ child = "starting"
  /\ child' = "ended" /\ result' = "false"
  /\ UNCHANGED <<parent, pipes, mutex, eptr, answer, objects, thrown, counters>>

RoutineSends ==
  /\ child = "running" /\ sent["child"] < MaxData
  /\ ChildSends("data")
  /\ sent' = [sent EXCEPT !["child"] = @ + 1]
  /\ UNCHANGED <<parent, child, mutex, eptr, answer, objects, result, thrown, asked>>

RoutineReceives ==
  /\ child = "running"
  /\ toChild # <<>> /\ Head(toChild) = "data"
  /\ toChild' = Tail(toChild)
  /\ UNCHANGED <<parent, child, toParent, parentOpen, childOpen, mutex, eptr, answer,
                 objects, result, thrown, counters>>

(* The routine is told to stop and returns. *)
RoutineStops(how) ==
  /\ child = "running"
  /\ toChild # <<>> /\ Head(toChild) = "stop"
  /\ toChild' = Tail(toChild)
  /\ child' = "ended" /\ result' = how
  /\ UNCHANGED <<parent, toParent, parentOpen, childOpen, mutex, eptr, answer, objects,
                 thrown, counters>>

(* It returns without having been told to. *)
RoutineEnds(how) ==
  /\ child = "running"
  /\ child' = "ended" /\ result' = how
  /\ UNCHANGED <<parent, pipes, mutex, eptr, answer, objects, thrown, counters>>

RoutineThrows ==
  /\ child = "starting" \/ (LateThrow /\ child = "running")
  /\ child' = "catching" /\ result' = "threw"
  /\ UNCHANGED <<parent, pipes, mutex, eptr, answer, objects, thrown, counters>>

(* No answer from a routine that returns false *)
AnswerOnlyTrue ==
  /\ child = "ended"
  /\ IF result = "true" THEN ChildSends("ok") ELSE UNCHANGED pipes
  /\ child' = "closing"
  /\ UNCHANGED <<parent, mutex, eptr, answer, objects, result, thrown, counters>>

(* start_routine after the routine: the answer, as a blocking send *)
Answer ==
  /\ child = "ended"
  /\ ChildSends(IF result = "true" THEN "ok" ELSE "ko")
  /\ child' = "closing"
  /\ UNCHANGED <<parent, mutex, eptr, answer, objects, result, thrown, counters>>

(* The exception not kept *)
CatchForgets ==
  /\ child = "catching" /\ mutex = "free"
  /\ mutex' = "child"
  /\ child' = "sending ko"
  /\ UNCHANGED <<parent, pipes, eptr, answer, objects, result, thrown, counters>>

(* Its catch block: lock mutex_, set eptr_, send ko, unlock.  The mutex and
   the pointer are members of the object "first". *)
Catch ==
  /\ child = "catching" /\ mutex = "free"
  /\ mutex' = "child" /\ eptr' = TRUE
  /\ child' = "sending ko"
  /\ UNCHANGED <<parent, pipes, answer, objects, result, thrown, counters>>

SendKo ==
  /\ child = "sending ko"
  /\ ChildSends("ko")
  /\ child' = "unlocking"
  /\ UNCHANGED <<parent, mutex, eptr, answer, objects, result, thrown, counters>>

Unlock ==
  /\ child = "unlocking"
  /\ mutex' = "free"
  /\ child' = "closing"
  /\ UNCHANGED <<parent, pipes, eptr, answer, objects, result, thrown, counters>>

(* delete child_pipe *)
CloseChild ==
  /\ child = "closing"
  /\ childOpen' = FALSE
  /\ child' = "gone"
  /\ UNCHANGED <<parent, toChild, toParent, parentOpen, mutex, eptr, answer, objects,
                 result, thrown, counters>>

-----------------------------------------------------------------------------
ParentInside == WaitSkips \/ Constructed \/ ConstructorThrows \/ Answered

ClientCode ==
  \/ StopNoWait \/ Stop \/ Destroy \/ Move \/ DestroyEmpty
  \/ ClientSends \/ ClientReceives

ChildStep ==
  \/ Announce \/ EndEarly \/ RoutineSends \/ RoutineReceives \/ RoutineThrows
  \/ \E how \in {"true", "false"} : RoutineStops(how) \/ RoutineEnds(how)
  \/ Answer \/ Catch \/ SendKo \/ Unlock \/ CloseChild

Over == parent = "done" /\ child = "gone" /\ UNCHANGED vars

Next == ParentInside \/ ClientCode \/ ChildStep \/ Over

Spec == Init /\ [][Next]_vars

(* Both threads are scheduled.  A routine need not return of its own accord,
   but one that has started gets on with announcing itself, with reading its
   pipe and, once told to stop, with returning. *)
ChildProgress ==
  \/ Announce \/ RoutineReceives \/ Answer \/ Catch \/ SendKo \/ Unlock \/ CloseChild
  \/ \E how \in {"true", "false"} : RoutineStops(how)

FairSpec == Spec /\ WF_vars(ParentInside) /\ WF_vars(ChildProgress)

-----------------------------------------------------------------------------
TypeOK ==
  /\ parent \in Parent /\ child \in Child
  /\ toChild \in Seq(Message) /\ toParent \in Seq(Message)
  /\ Len(toChild) <= Hwm /\ Len(toParent) <= Hwm
  /\ {parentOpen, childOpen, eptr, stopped, retval} \subseteq BOOLEAN
  /\ mutex \in {"free", "child"}
  /\ alive \subseteq {"first", "second"} /\ home \in {"first", "second"}
  /\ result \in {"none", "true", "false", "threw"}
  /\ thrown \in {"no", "nested", "plain"}
  /\ sent \in [{"parent", "child"} -> 0..MaxData] /\ asked \in 0..MaxStops

(* The child thread never touches mutex_ or eptr_ of an actor object that is
   gone: "this is to avoid a race condition where the destructor would be
   called before start_routine finishes but after it sent signal::ok /
   signal::ko" (actor.hpp:122-126; actor.cpp:53-70, 88-92, 127-132). *)
ObjectOutlivesCatch ==
  child \in {"catching", "sending ko", "unlocking"} => "first" \in alive

(* "Exception thrown during initialization (before sending ko/ok) are rethrown
   in the actor's constructor" (actor.hpp:114-115): the constructor throws the
   routine's exception if that is why there was a ko, and a plain one if not. *)
ReasonKnown == thrown # "no" => (thrown = "nested" <=> result = "threw")

(* When stop(true) has returned, the routine has ended, and the value is true
   exactly if the routine returned true, whatever was left unread in the pipe
   (actor.hpp:47-50; actor.cpp:94-116). *)
StopTellsTruth ==
  stopped => result # "none" /\ (retval <=> result = "true")

(* The parent waits, and can go on ... *)
ParentGoesOn ==
  \/ Waiting /\ toParent # <<>>
  \/ parent = "failing" /\ mutex = "free"

(* ... and so can the child, without a routine that returns unasked. *)
ChildGoesOn ==
  \/ child \in {"unlocking", "closing"}
  \/ child = "running" /\ toChild # <<>>
  \/ child \in {"starting", "ended", "sending ko"} /\ parentOpen /\ Len(toParent) < Hwm
  \/ child = "catching" /\ mutex = "free"

(* The constructor, stop(true) and the destructor never wait for a child that
   itself waits, for the parent, for room in the pipe or for the mutex, or that
   has gone without an answer; and the thread of an actor that is no more is
   never stuck on its way out (actor.cpp:45-70, 88-116, 118-137). *)
NeverBothWait ==
  \/ ParentGoesOn \/ ChildGoesOn
  \/ parent = "client" \/ (parent = "done" /\ child = "gone")

(* The constructor, stop(true) and the destructor return. *)
CallsReturn ==
  Waiting \/ parent = "failing" ~> parent \in {"client", "done"}

(* Once the actor is destroyed or its constructor has thrown, the child's end
   of the pipe is closed and freed and the thread ends (actor.hpp:146-149). *)
ChildFreed == parent = "done" ~> child = "gone"
=============================================================================
