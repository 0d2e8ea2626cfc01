---------------------------- MODULE ActorProofs ----------------------------
(***************************************************************************)
(* What holds of every actor, for any high water mark, any number of       *)
(* messages and calls, and any routine that keeps to Actor's assumptions.  *)
(* The argument is about one thing: where the child's answer, the one      *)
(* signal that start_routine sends, is among the signals in the pipe.  And *)
(* what the messages of the pipe, and any values, are as bytes is the same *)
(* for hosts of either byte order.                                         *)
(***************************************************************************)
EXTENDS MCActor, SequenceTheorems, TLAPS

(* start_routine has sent the answer. *)
HasAnswered == child \in {"unlocking", "closing", "gone"}

TheAnswer == IF result = "true" THEN "ok" ELSE "ko"

(* How far the child is tells how the routine ended, who has the mutex and
   whether the exception has been kept. *)
ChildInv ==
  /\ child \in {"starting", "running"} => result = "none"
  /\ child = "ended" => result \in {"true", "false"}
  /\ child \in {"catching", "sending ko", "unlocking"} => result = "threw"
  /\ child \in {"closing", "gone"} => result # "none"
  /\ mutex = "child" <=> child \in {"sending ko", "unlocking"}
  /\ eptr <=> result = "threw" /\ child # "catching"

(* Until the constructor has its signal, that signal is the first of the pipe:
   the announcement, with nothing but data behind it and the answer at the
   end, or the answer itself, if it is ko. *)
ConstructorInv ==
  parent = "constructor" =>
    /\ ~stopped /\ thrown = "no" /\ alive = {"first"} /\ home = "first"
    /\ toParent = <<>> => child # "running" /\ ~HasAnswered /\ result # "true"
    /\ toParent # <<>> =>
         /\ toParent[1] \in {"ok", "ko"} /\ child # "starting"
         /\ toParent[1] = "ko" => child = "ended" \/ HasAnswered
         /\ ~HasAnswered => \A i \in 2..Len(toParent) : toParent[i] = "data"
         /\ HasAnswered =>
              \/ Len(toParent) = 1 /\ toParent[1] = "ko" /\ result # "true"
              \/ /\ Len(toParent) > 1 /\ toParent[Len(toParent)] = TheAnswer
                 /\ \A i \in 2..Len(toParent) - 1 : toParent[i] = "data"

(* From then on the answer is the only signal, behind all the data, until
   stop() or the destructor takes it. *)
ClientInv ==
  /\ parent # "constructor" => child # "starting"
  /\ parent \in {"client", "stop", "destructor"} /\ ~stopped =>
       /\ ~HasAnswered => \A i \in 1..Len(toParent) : toParent[i] = "data"
       /\ HasAnswered =>
            /\ Len(toParent) > 0 /\ toParent[Len(toParent)] = TheAnswer
            /\ \A i \in 1..Len(toParent) - 1 : toParent[i] = "data"
  /\ parent \in {"stop", "destructor"} => ~stopped
  /\ stopped => HasAnswered /\ toParent = <<>> /\ (retval <=> result = "true")

(* A constructor that fails has read a ko, which the child sends at the end. *)
FailureInv ==
  /\ parent = "failing" =>
       /\ thrown = "no" /\ ~stopped /\ alive = {"first"} /\ home = "first"
       /\ child = "ended" \/ HasAnswered
  /\ thrown # "no" =>
       /\ parent = "done" /\ (child = "ended" \/ HasAnswered)
       /\ thrown = "nested" <=> result = "threw"

Inv == TypeOK /\ ChildInv /\ ConstructorInv /\ ClientInv /\ FailureInv

(* A routine that does not throw late is not heard of before its ko, and the
   ko meets the constructor. *)
EarlyInv ==
  /\ child \in {"catching", "sending ko"} => parent = "constructor" /\ toParent = <<>>
  /\ child = "unlocking" =>
       \/ parent = "constructor" /\ Len(toParent) = 1 /\ toParent[1] = "ko"
       \/ parent = "failing"

-----------------------------------------------------------------------------
(* A message sent is at the end of the pipe, the others stay where they are. *)
LEMMA Sent ==
  ASSUME NEW s \in Seq(Message), NEW m \in Message
  PROVE  LET t == Append(s, m)
         IN /\ t \in Seq(Message) /\ t # <<>>
            /\ Len(s) \in Nat /\ Len(t) = Len(s) + 1
            /\ t[Len(s) + 1] = m
            /\ \A i \in 1..Len(s) : t[i] = s[i]
BY AppendProperties, LenProperties

(* A message received was the first one, the others move up. *)
LEMMA Received ==
  ASSUME NEW s \in Seq(Message), s # <<>>
  PROVE  LET t == Tail(s)
         IN /\ t \in Seq(Message)
            /\ Len(s) \in Nat \ {0} /\ Len(t) = Len(s) - 1
            /\ Head(s) = s[1] /\ s[1] \in Message
            /\ \A i \in 1..Len(s) - 1 : t[i] = s[i + 1]
<1>1. Len(s) \in Nat \ {0}
  BY EmptySeq
<1>2. Head(s) = s[1] /\ s[1] \in Message
  BY <1>1, ElementOfSeq
<1>3. QED
  BY <1>1, <1>2, HeadTailProperties

(* A pipe is empty exactly if it has no positions. *)
LEMMA Emptiness ==
  ASSUME NEW s \in Seq(Message)
  PROVE  Len(s) \in Nat /\ (s = <<>> <=> Len(s) = 0)
BY EmptySeq, LenProperties

(* A step is one of the actions, or changes nothing. *)
LEMMA StepCases ==
  ASSUME [Next]_vars
  PROVE  \/ WaitSkips \/ Constructed \/ ConstructorThrows \/ Answered
         \/ StopNoWait \/ Stop \/ Destroy \/ Move \/ DestroyEmpty
         \/ ClientSends \/ ClientReceives
         \/ Announce \/ EndEarly \/ RoutineSends \/ RoutineReceives \/ RoutineThrows
         \/ \E how \in {"true", "false"} : RoutineStops(how)
         \/ \E how \in {"true", "false"} : RoutineEnds(how)
         \/ Answer \/ Catch \/ SendKo \/ Unlock \/ CloseChild
         \/ UNCHANGED vars
BY DEF Next, ParentInside, ClientCode, ChildStep, Over

-----------------------------------------------------------------------------
(* Asking to stop keeps the types of the pipe. *)
LEMMA AskKeepsTypes ==
  ASSUME TypeOK, AskToStop
  PROVE  toChild' \in Seq(Message) /\ Len(toChild') <= Hwm
<1>1. CASE childOpen /\ Len(toChild) < Hwm
  <2>1. toChild' = Append(toChild, "stop") /\ "stop" \in Message
    BY <1>1 DEF AskToStop, TrySend, Message, Signal
  <2>2. toChild \in Seq(Message) /\ Hwm \in Nat
    BY ActorAssumption DEF TypeOK
  <2>3. Len(toChild) \in Nat /\ Len(toChild') = Len(toChild) + 1 /\ toChild' \in Seq(Message)
    BY <2>1, <2>2, Sent
  <2>4. QED
    BY <1>1, <2>2, <2>3
<1>2. CASE ~(childOpen /\ Len(toChild) < Hwm)
  BY <1>2 DEF AskToStop, TrySend, TypeOK
<1>3. QED
  BY <1>1, <1>2

(* So does a send of the child. *)
LEMMA ChildSendsKeepsTypes ==
  ASSUME TypeOK, NEW m \in Message, ChildSends(m)
  PROVE  toParent' \in Seq(Message) /\ Len(toParent') <= Hwm
<1>1. toParent \in Seq(Message) /\ Hwm \in Nat /\ Len(toParent) < Hwm
  BY ActorAssumption DEF TypeOK, ChildSends
<1>2. toParent' = Append(toParent, m)
  BY DEF ChildSends
<1>3. Len(toParent) \in Nat /\ Len(toParent') = Len(toParent) + 1 /\ toParent' \in Seq(Message)
  BY <1>1, <1>2, Sent
<1>4. QED
  BY <1>1, <1>3

(* Receiving keeps the types of a pipe. *)
LEMMA ReceiveKeepsTypes ==
  ASSUME NEW s \in Seq(Message), s # <<>>, Len(s) <= Hwm
  PROVE  Tail(s) \in Seq(Message) /\ Len(Tail(s)) <= Hwm
BY Received, ActorAssumption

(* The types hold at the start ... *)
LEMMA InitTypeOK == Init => TypeOK
<1>1. <<>> \in Seq(Message) /\ Len(<<>>) = 0
  BY EmptySeq
<1>2. Init => toChild \in Seq(Message) /\ toParent \in Seq(Message)
              /\ Len(toChild) <= Hwm /\ Len(toParent) <= Hwm
  BY <1>1, ActorAssumption DEF Init
<1>3. Init => sent \in [{"parent", "child"} -> 0..MaxData] /\ asked \in 0..MaxStops
  BY ActorAssumption DEF Init
<1>4. QED
  BY <1>2, <1>3 DEF Init, TypeOK, Parent, Child

(* ... and after every step. *)
LEMMA NextTypeOK ==
  ASSUME TypeOK, [Next]_vars
  PROVE  TypeOK'
<1> USE ActorAssumption DEF TypeOK
<1>1. CASE WaitSkips
  BY <1>1, ReceiveKeepsTypes DEF WaitSkips, ParentReceives, answer, objects, counters
<1>2. CASE Constructed
  BY <1>2, ReceiveKeepsTypes DEF Constructed, ParentReceives, answer, objects, counters, Parent
<1>3. CASE ConstructorThrows
  BY <1>3 DEF ConstructorThrows, pipes, answer, objects, counters, Parent
<1>4. CASE Answered
  <2>1. toParent' \in Seq(Message) /\ Len(toParent') <= Hwm /\ retval' \in BOOLEAN
    BY <1>4, ReceiveKeepsTypes DEF Answered, ParentReceives
  <2>2. parent' \in Parent /\ alive' \subseteq {"first", "second"} /\ parentOpen' \in BOOLEAN
    BY <1>4 DEF Answered, Parent
  <2>3. QED
    BY <1>4, <2>1, <2>2 DEF Answered, answer, objects, counters
<1>5. CASE StopNoWait
  <2>1. asked' \in 0..MaxStops
    BY <1>5 DEF StopNoWait
  <2>2. QED
    BY <1>5, <2>1, AskKeepsTypes DEF StopNoWait, answer, objects
<1>6. CASE Stop
  BY <1>6, AskKeepsTypes DEF Stop, answer, objects, counters, Parent
<1>7. CASE Destroy
  <2>1. parent' \in Parent /\ alive' \subseteq {"first", "second"} /\ parentOpen' \in BOOLEAN
    BY <1>7 DEF Destroy, Parent
  <2>2. QED
    BY <1>7, <2>1, AskKeepsTypes DEF Destroy, answer, counters
<1>8. CASE Move
  BY <1>8 DEF Move, pipes, answer, counters
<1>9. CASE DestroyEmpty
  BY <1>9 DEF DestroyEmpty, pipes, answer, counters
<1>10. CASE ClientSends
  <2>1. toChild' \in Seq(Message) /\ Len(toChild') <= Hwm
    BY <1>10, Sent DEF ClientSends, Message
  <2>2. sent' \in [{"parent", "child"} -> 0..MaxData]
    BY <1>10 DEF ClientSends
  <2>3. QED
    BY <1>10, <2>1, <2>2 DEF ClientSends, answer, objects
<1>11. CASE ClientReceives
  BY <1>11, ReceiveKeepsTypes DEF ClientReceives, ParentReceives, answer, objects, counters
<1>12. CASE Announce
  <2>1. toParent' \in Seq(Message) /\ Len(toParent') <= Hwm
    BY <1>12, ChildSendsKeepsTypes DEF Announce, Message, Signal
  <2>2. child' \in Child /\ result' \in {"none", "true", "false", "threw"}
    BY <1>12 DEF Announce, Child
  <2>3. QED
    BY <1>12, <2>1, <2>2 DEF Announce, ChildSends, answer, objects, counters
<1>13. CASE EndEarly
  BY <1>13 DEF EndEarly, pipes, answer, objects, counters, Child
<1>14. CASE RoutineSends
  <2>1. toParent' \in Seq(Message) /\ Len(toParent') <= Hwm
    BY <1>14, ChildSendsKeepsTypes DEF RoutineSends, Message
  <2>2. sent' \in [{"parent", "child"} -> 0..MaxData]
    BY <1>14 DEF RoutineSends
  <2>3. QED
    BY <1>14, <2>1, <2>2 DEF RoutineSends, ChildSends, answer, objects
<1>15. CASE RoutineReceives
  BY <1>15, ReceiveKeepsTypes DEF RoutineReceives, answer, objects, counters
<1>16. CASE RoutineThrows
  BY <1>16 DEF RoutineThrows, pipes, answer, objects, counters, Child
<1>17. ASSUME NEW how \in {"true", "false"}, RoutineStops(how)
       PROVE  TypeOK'
  BY <1>17, ReceiveKeepsTypes DEF RoutineStops, answer, objects, counters, Child
<1>18. ASSUME NEW how \in {"true", "false"}, RoutineEnds(how)
       PROVE  TypeOK'
  BY <1>18 DEF RoutineEnds, pipes, answer, objects, counters, Child
<1>19. CASE Answer
  <2>1. toParent' \in Seq(Message) /\ Len(toParent') <= Hwm
    BY <1>19, ChildSendsKeepsTypes DEF Answer, Message, Signal
  <2>2. QED
    BY <1>19, <2>1 DEF Answer, ChildSends, answer, objects, counters, Child
<1>20. CASE Catch
  BY <1>20 DEF Catch, pipes, answer, objects, counters, Child
<1>21. CASE SendKo
  <2>1. toParent' \in Seq(Message) /\ Len(toParent') <= Hwm
    BY <1>21, ChildSendsKeepsTypes DEF SendKo, Message, Signal
  <2>2. QED
    BY <1>21, <2>1 DEF SendKo, ChildSends, answer, objects, counters, Child
<1>22. CASE Unlock
  BY <1>22 DEF Unlock, pipes, answer, objects, counters, Child
<1>23. CASE CloseChild
  BY <1>23 DEF CloseChild, answer, objects, counters, Child
<1>24. CASE UNCHANGED vars
  BY <1>24 DEF vars, pipes, answer, objects, counters
<1>25. QED
  BY StepCases, <1>1, <1>2, <1>3, <1>4, <1>5, <1>6, <1>7, <1>8, <1>9, <1>10, <1>11,
     <1>12, <1>13, <1>14, <1>15, <1>16, <1>17, <1>18, <1>19, <1>20, <1>21, <1>22,
     <1>23, <1>24

(* Every variable has its type, and neither direction of the pipe holds more
   than its high water mark. *)
THEOREM TypeCorrect == Spec => []TypeOK
<1>1. QED
  BY InitTypeOK, NextTypeOK, PTL DEF Spec

-----------------------------------------------------------------------------
(* What the child has done is told by where it is. *)
LEMMA ChildKeeps ==
  ASSUME TypeOK, ChildInv, [Next]_vars
  PROVE  ChildInv'
<1> USE DEF TypeOK, ChildInv
<1>1. CASE WaitSkips
  BY <1>1 DEF WaitSkips
<1>2. CASE Constructed
  BY <1>2 DEF Constructed
<1>3. CASE ConstructorThrows
  BY <1>3 DEF ConstructorThrows
<1>4. CASE Answered
  BY <1>4 DEF Answered
<1>5. CASE StopNoWait
  BY <1>5 DEF StopNoWait
<1>6. CASE Stop
  BY <1>6 DEF Stop
<1>7. CASE Destroy
  BY <1>7 DEF Destroy
<1>8. CASE Move
  BY <1>8 DEF Move
<1>9. CASE DestroyEmpty
  BY <1>9 DEF DestroyEmpty
<1>10. CASE ClientSends
  BY <1>10 DEF ClientSends
<1>11. CASE ClientReceives
  BY <1>11 DEF ClientReceives
<1>12. CASE Announce
  BY <1>12 DEF Announce
<1>13. CASE EndEarly
  BY <1>13 DEF EndEarly
<1>14. CASE RoutineSends
  BY <1>14 DEF RoutineSends
<1>15. CASE RoutineReceives
  BY <1>15 DEF RoutineReceives
<1>16. CASE RoutineThrows
  BY <1>16 DEF RoutineThrows
<1>17. ASSUME NEW how \in {"true", "false"}, RoutineStops(how)
       PROVE  ChildInv'
  BY <1>17 DEF RoutineStops
<1>18. ASSUME NEW how \in {"true", "false"}, RoutineEnds(how)
       PROVE  ChildInv'
  BY <1>18 DEF RoutineEnds
<1>19. CASE Answer
  BY <1>19 DEF Answer
<1>20. CASE Catch
  BY <1>20 DEF Catch
<1>21. CASE SendKo
  BY <1>21 DEF SendKo
<1>22. CASE Unlock
  BY <1>22 DEF Unlock
<1>23. CASE CloseChild
  BY <1>23 DEF CloseChild
<1>24. CASE UNCHANGED vars
  BY <1>24 DEF vars
<1>25. QED
  BY StepCases, <1>1, <1>2, <1>3, <1>4, <1>5, <1>6, <1>7, <1>8, <1>9, <1>10, <1>11,
     <1>12, <1>13, <1>14, <1>15, <1>16, <1>17, <1>18, <1>19, <1>20, <1>21, <1>22,
     <1>23, <1>24

-----------------------------------------------------------------------------
(* If only the last message can be a signal and the first one is, then it is
   the last. *)
LEMMA OnlyTheLast ==
  ASSUME NEW s \in Seq(Message), s # <<>>, s[1] # "data",
         NEW n, n = Len(s), \A i \in 1..n - 1 : s[i] = "data"
  PROVE  n = 1
<1>1. n \in Nat \ {0}
  BY Emptiness
<1>2. n # 1 => 1 \in 1..n - 1
  BY <1>1
<1>3. QED
  BY <1>1, <1>2

(* Where the child's signals are in the pipe, and how a constructor fails. *)
LEMMA PipeKeeps ==
  ASSUME TypeOK, ChildInv, ConstructorInv, ClientInv, FailureInv, [Next]_vars
  PROVE  ConstructorInv' /\ ClientInv' /\ FailureInv'
<1> DEFINE n == Len(toParent)
<1> USE DEF ConstructorInv, ClientInv, FailureInv, HasAnswered, TheAnswer, answer, objects
<1>0. /\ toParent \in Seq(Message) /\ n \in Nat
      /\ toParent = <<>> <=> n = 0
      /\ child \in Child /\ parent \in Parent
      /\ result \in {"none", "true", "false", "threw"}
      /\ stopped \in BOOLEAN /\ retval \in BOOLEAN /\ eptr \in BOOLEAN
  BY Emptiness DEF TypeOK
<1>a. ASSUME toParent # <<>>, toParent' = Tail(toParent)
      PROVE  /\ Head(toParent) = toParent[1]
             /\ Len(toParent') = n - 1
             /\ toParent' = <<>> <=> n = 1
             /\ \A i \in 1..n - 1 : toParent'[i] = toParent[i + 1]
  <2>1. /\ Tail(toParent) \in Seq(Message)
        /\ Head(toParent) = toParent[1]
        /\ Len(Tail(toParent)) = n - 1
        /\ \A i \in 1..n - 1 : Tail(toParent)[i] = toParent[i + 1]
    BY <1>a, <1>0, Received
  <2>2. Tail(toParent) = <<>> <=> n - 1 = 0
    BY <2>1, Emptiness
  <2>3. QED
    BY <1>a, <1>0, <2>1, <2>2
<1>b. ASSUME NEW m \in Message, toParent' = Append(toParent, m)
      PROVE  /\ toParent' # <<>>
             /\ Len(toParent') = n + 1
             /\ toParent'[n + 1] = m
             /\ \A i \in 1..n : toParent'[i] = toParent[i]
  BY <1>b, <1>0, Sent
<1>1. CASE WaitSkips
  BY <1>1, <1>0, <1>a DEF WaitSkips, ParentReceives, IsSignal, Signal, Waiting
<1>2. CASE Constructed
  <2>1. /\ parent = "constructor" /\ toParent # <<>> /\ toParent' = Tail(toParent)
        /\ parent' = IF toParent[1] = "ko" THEN "failing" ELSE "client"
        /\ UNCHANGED <<child, eptr, stopped, retval, alive, home, result, thrown>>
    BY <1>2, <1>0, <1>a DEF Constructed, ParentReceives
  <2>2. CASE toParent[1] = "ko"
    BY <2>1, <2>2
  <2>3. CASE toParent[1] # "ko"
    <3>1. ~stopped /\ thrown = "no" /\ toParent[1] = "ok" /\ child # "starting"
      BY <2>1, <2>3
    <3>2. CASE ~HasAnswered
      BY <2>1, <2>3, <3>1, <3>2, <1>0, <1>a
    <3>3. CASE HasAnswered
      <4>1. /\ n > 1 /\ toParent[n] = TheAnswer
            /\ \A i \in 2..n - 1 : toParent[i] = "data"
        BY <2>1, <3>1, <3>3
      <4>2. /\ Len(toParent') = n - 1 /\ n - 1 > 0
            /\ toParent'[n - 1] = toParent[n]
            /\ \A i \in 1..(n - 1) - 1 : toParent'[i] = toParent[i + 1] /\ i + 1 \in 2..n - 1
        BY <2>1, <4>1, <1>0, <1>a
      <4>3. QED
        BY <2>1, <2>3, <3>1, <3>3, <4>1, <4>2
    <3>4. QED
      BY <3>2, <3>3
  <2>4. QED
    BY <2>2, <2>3
<1>3. CASE ConstructorThrows
  BY <1>3, <1>0 DEF ConstructorThrows, ChildInv, pipes
<1>4. CASE Answered
  <2>1. /\ parent \in {"stop", "destructor"} /\ parent' \in {"client", "done"}
        /\ toParent # <<>> /\ toParent' = Tail(toParent)
        /\ toParent[1] \in Signal /\ retval' = (toParent[1] = "ok") /\ stopped'
        /\ UNCHANGED <<child, result, thrown>>
    BY <1>4, <1>0, <1>a DEF Answered, ParentReceives, IsSignal
  <2>2. ~stopped /\ toParent[1] # "data" /\ n > 0 /\ thrown = "no"
    BY <2>1, <1>0 DEF Signal
  <2>3. HasAnswered /\ toParent[n] = TheAnswer /\ \A i \in 1..n - 1 : toParent[i] = "data"
    BY <2>1, <2>2, <1>0
  <2>4. n = 1
    BY <1>0, <2>1, <2>2, <2>3, OnlyTheLast
  <2>5. toParent' = <<>> /\ toParent[1] = TheAnswer
    BY <2>1, <2>3, <2>4, <1>a
  <2>6. QED
    BY <2>1, <2>2, <2>3, <2>5
<1>5. CASE StopNoWait
  BY <1>5 DEF StopNoWait
<1>6. CASE Stop
  BY <1>6 DEF Stop, counters
<1>7. CASE Destroy
  BY <1>7 DEF Destroy, counters
<1>8. CASE Move
  BY <1>8 DEF Move, pipes
<1>9. CASE DestroyEmpty
  BY <1>9 DEF DestroyEmpty, pipes
<1>10. CASE ClientSends
  BY <1>10 DEF ClientSends
<1>11. CASE ClientReceives
  BY <1>11, <1>0, <1>a DEF ClientReceives, ParentReceives
<1>12. CASE Announce
  BY <1>12, <1>0, <1>b DEF Announce, ChildSends, ChildInv, Message, Signal
<1>13. CASE EndEarly
  BY <1>13 DEF EndEarly, pipes, ChildInv
<1>14. CASE RoutineSends
  BY <1>14, <1>0, <1>b DEF RoutineSends, ChildSends, Message, ChildInv
<1>15. CASE RoutineReceives
  BY <1>15 DEF RoutineReceives
<1>16. CASE RoutineThrows
  BY <1>16 DEF RoutineThrows, pipes, ChildInv
<1>17. ASSUME NEW how \in {"true", "false"}, RoutineStops(how)
       PROVE  ConstructorInv' /\ ClientInv' /\ FailureInv'
  BY <1>17 DEF RoutineStops, ChildInv
<1>18. ASSUME NEW how \in {"true", "false"}, RoutineEnds(how)
       PROVE  ConstructorInv' /\ ClientInv' /\ FailureInv'
  BY <1>18 DEF RoutineEnds, ChildInv, pipes
<1>19. CASE Answer
  BY <1>19, <1>0, <1>b DEF Answer, ChildSends, ChildInv, Message, Signal
<1>20. CASE Catch
  BY <1>20 DEF Catch, pipes, ChildInv
<1>21. CASE SendKo
  <2>1. /\ child = "sending ko" /\ child' = "unlocking" /\ result = "threw"
        /\ toParent' = Append(toParent, "ko")
        /\ UNCHANGED <<parent, eptr, stopped, retval, alive, home, result, thrown>>
    BY <1>21 DEF SendKo, ChildSends, ChildInv
  <2>2. /\ toParent' # <<>> /\ Len(toParent') = n + 1 /\ toParent'[n + 1] = "ko"
        /\ \A i \in 1..n : toParent'[i] = toParent[i]
    BY <2>1, <1>b DEF Message, Signal
  <2>3. ConstructorInv'
    <3>1. CASE n = 0
      <4>1. Len(toParent') = 1 /\ toParent'[1] = "ko"
        BY <2>2, <3>1
      <4>2. QED
        BY <2>1, <2>2, <4>1
    <3>2. CASE n > 0
      <4>1. /\ Len(toParent') > 1 /\ toParent'[Len(toParent')] = "ko"
            /\ toParent'[1] = toParent[1]
            /\ \A i \in 2..Len(toParent') - 1 : i \in 2..n /\ toParent'[i] = toParent[i]
        BY <2>2, <3>2, <1>0
      <4>2. parent = "constructor" =>
              /\ ~stopped /\ thrown = "no" /\ alive = {"first"} /\ home = "first"
              /\ toParent[1] \in {"ok", "ko"}
              /\ \A i \in 2..n : toParent[i] = "data"
        <5>1. toParent # <<>>
          BY <3>2, EmptySeq
        <5>2. ~HasAnswered
          BY <2>1
        <5>3. QED
          BY <5>1, <5>2
      <4>3. QED
        BY <2>1, <2>2, <4>1, <4>2
    <3>3. QED
      BY <3>1, <3>2, <1>0
  <2>4. ClientInv'
    <3>1. /\ Len(toParent') > 0 /\ toParent'[Len(toParent')] = "ko"
          /\ \A i \in 1..Len(toParent') - 1 : i \in 1..n /\ toParent'[i] = toParent[i]
      BY <2>2, <1>0
    <3>2. QED
      BY <2>1, <3>1
  <2>5. FailureInv'
    BY <2>1
  <2>6. QED
    BY <2>3, <2>4, <2>5
<1>22. CASE Unlock
  BY <1>22 DEF Unlock, pipes, ChildInv
<1>23. CASE CloseChild
  BY <1>23 DEF CloseChild, ChildInv
<1>24. CASE UNCHANGED vars
  BY <1>24 DEF vars, pipes
<1>25. QED
  BY StepCases, <1>1, <1>2, <1>3, <1>4, <1>5, <1>6, <1>7, <1>8, <1>9, <1>10, <1>11,
     <1>12, <1>13, <1>14, <1>15, <1>16, <1>17, <1>18, <1>19, <1>20, <1>21, <1>22,
     <1>23, <1>24

(* Inv is inductive, so it holds of every actor. *)
LEMMA InvHolds == Spec => []Inv
<1>1. Init => Inv
  <2>1. Init => ChildInv /\ ConstructorInv /\ ClientInv /\ FailureInv
    BY DEF Init, ChildInv, ConstructorInv, ClientInv, FailureInv, HasAnswered
  <2>2. QED
    BY <2>1, InitTypeOK DEF Inv
<1>2. ASSUME Inv, [Next]_vars
      PROVE  Inv'
  BY <1>2, NextTypeOK, ChildKeeps, PipeKeeps DEF Inv
<1>3. QED
  BY <1>1, <1>2, PTL DEF Spec

-----------------------------------------------------------------------------
(* When stop(true) has returned, the routine has ended, and the value is true
   exactly if the routine returned true. *)
THEOREM StopIsTruthful == Spec => []StopTellsTruth
<1>1. Inv => StopTellsTruth
  BY DEF Inv, ClientInv, ChildInv, HasAnswered, StopTellsTruth
<1>2. QED
  BY <1>1, InvHolds, PTL

(* The constructor throws the routine's exception if that is why there was a
   ko, and a plain one if not. *)
THEOREM ReasonIsKnown == Spec => []ReasonKnown
<1>1. Inv => ReasonKnown
  BY DEF Inv, FailureInv, TypeOK, ReasonKnown
<1>2. QED
  BY <1>1, InvHolds, PTL

(* Without late exceptions EarlyInv is inductive relative to Inv. *)
LEMMA EarlyKeeps ==
  ASSUME LateThrow = FALSE, Inv, EarlyInv, [Next]_vars
  PROVE  EarlyInv'
<1> USE DEF EarlyInv
<1>0. /\ toParent \in Seq(Message)
      /\ toParent = <<>> => Len(toParent) = 0
      /\ child \in {"catching", "sending ko", "unlocking"} => parent # "client"
      /\ child = "running" => result = "none"
  BY Emptiness DEF Inv, TypeOK, ChildInv
<1>1. CASE WaitSkips
  <2>1. /\ toParent # <<>> /\ Head(toParent) = toParent[1] /\ Head(toParent) \notin Signal
        /\ UNCHANGED <<parent, child>>
    BY <1>1, <1>0, Received DEF WaitSkips, ParentReceives, IsSignal
  <2>2. child # "unlocking" \/ parent = "failing"
    BY <2>1 DEF Signal
  <2>3. QED
    BY <2>1, <2>2
<1>2. CASE Constructed
  BY <1>2, <1>0, Received DEF Constructed, ParentReceives
<1>3. CASE ConstructorThrows
  BY <1>3 DEF ConstructorThrows, Inv, TypeOK, ChildInv
<1>4. CASE Answered
  BY <1>4 DEF Answered
<1>5. CASE StopNoWait
  BY <1>5 DEF StopNoWait
<1>6. CASE Stop
  BY <1>6, <1>0 DEF Stop
<1>7. CASE Destroy
  BY <1>7, <1>0 DEF Destroy
<1>8. CASE Move
  BY <1>8 DEF Move, pipes
<1>9. CASE DestroyEmpty
  BY <1>9 DEF DestroyEmpty, pipes
<1>10. CASE ClientSends
  BY <1>10 DEF ClientSends
<1>11. CASE ClientReceives
  BY <1>11, <1>0 DEF ClientReceives
<1>12. CASE Announce
  BY <1>12 DEF Announce
<1>13. CASE EndEarly
  BY <1>13 DEF EndEarly
<1>14. CASE RoutineSends
  BY <1>14 DEF RoutineSends
<1>15. CASE RoutineReceives
  BY <1>15 DEF RoutineReceives
<1>16. CASE RoutineThrows
  BY <1>16 DEF RoutineThrows, pipes, Inv, ConstructorInv, ClientInv
<1>17. ASSUME NEW how \in {"true", "false"}, RoutineStops(how)
       PROVE  EarlyInv'
  BY <1>17 DEF RoutineStops
<1>18. ASSUME NEW how \in {"true", "false"}, RoutineEnds(how)
       PROVE  EarlyInv'
  BY <1>18 DEF RoutineEnds
<1>19. CASE Answer
  BY <1>19 DEF Answer
<1>20. CASE Catch
  BY <1>20 DEF Catch, pipes
<1>21. CASE SendKo
  <2>1. /\ toParent = <<>> /\ toParent' = Append(toParent, "ko")
        /\ child' = "unlocking" /\ parent = "constructor" /\ UNCHANGED parent
    BY <1>21 DEF SendKo, ChildSends
  <2>2. Len(toParent) = 0 /\ Len(toParent') = 0 + 1 /\ toParent'[0 + 1] = "ko"
    BY <2>1, <1>0, Sent DEF Message, Signal
  <2>3. QED
    BY <2>1, <2>2
<1>22. CASE Unlock
  BY <1>22 DEF Unlock
<1>23. CASE CloseChild
  BY <1>23 DEF CloseChild
<1>24. CASE UNCHANGED vars
  BY <1>24 DEF vars, pipes
<1>25. QED
  BY StepCases, <1>1, <1>2, <1>3, <1>4, <1>5, <1>6, <1>7, <1>8, <1>9, <1>10, <1>11,
     <1>12, <1>13, <1>14, <1>15, <1>16, <1>17, <1>18, <1>19, <1>20, <1>21, <1>22,
     <1>23, <1>24

(* If no routine throws once it has announced itself, the child never touches
   mutex_ or eptr_ of an actor object that is gone. *)
THEOREM ObjectIsThere ==
  ASSUME LateThrow = FALSE
  PROVE  Spec => []ObjectOutlivesCatch
<1>1. Init => EarlyInv
  BY DEF Init, EarlyInv
<1>2. Inv /\ EarlyInv /\ [Next]_vars => EarlyInv'
  BY EarlyKeeps
<1>3. Inv /\ EarlyInv => ObjectOutlivesCatch
  BY DEF Inv, EarlyInv, ConstructorInv, FailureInv, ObjectOutlivesCatch
<1>4. QED
  BY <1>1, <1>2, <1>3, InvHolds, PTL DEF Spec

-----------------------------------------------------------------------------
(* With a routine that leaves ko to start_routine, the ko that the constructor
   reads is the answer; and an actor is over only with the answer sent. *)
AnswerInv ==
  /\ parent = "constructor" /\ toParent # <<>> => toParent[1] = "ok" \/ HasAnswered
  /\ parent \in {"failing", "done"} => HasAnswered

(* Which sockets are open, and what is in the pipe to the child: no more than
   was sent, as long as nobody waits in stop(); then a child that still runs
   will find the stop signal at the end. *)
RoomInv ==
  /\ toChild \in Seq({"data", "stop"})
  /\ parentOpen <=> parent \notin {"failing", "done"}
  /\ childOpen <=> child # "gone"
  /\ parent \in {"constructor", "client"} /\ ~stopped =>
       Len(toChild) <= sent["parent"] + asked
  /\ parent \in {"stop", "destructor"} /\ child = "running" =>
       toChild # <<>> /\ toChild[Len(toChild)] = "stop"

(* An answer that has been sent stays sent. *)
LEMMA AnsweredForGood ==
  ASSUME [Next]_vars, HasAnswered
  PROVE  HasAnswered'
BY StepCases DEF HasAnswered, WaitSkips, Constructed, ConstructorThrows, Answered, StopNoWait,
   Stop, Destroy, Move, DestroyEmpty, ClientSends, ClientReceives, Announce, EndEarly,
   RoutineSends, RoutineReceives, RoutineThrows, RoutineStops, RoutineEnds, Answer, Catch,
   SendKo, Unlock, CloseChild, vars

(* What has arrived first in the constructor's pipe stays in front until it is
   read, and only an answer that is ko makes the constructor fail. *)
LEMMA AnswerKeeps ==
  ASSUME OwnKo = FALSE, Inv, AnswerInv, [Next]_vars
  PROVE  AnswerInv'
<1>0. toParent \in Seq(Message) /\ (toParent = <<>> <=> Len(toParent) = 0) /\ Len(toParent) \in Nat
  BY Emptiness DEF Inv, TypeOK
<1>a. toParent # <<>> => 1 \in 1..Len(toParent)
  BY <1>0
<1>b. ASSUME NEW m \in Message, toParent' = Append(toParent, m)
      PROVE  toParent'[1] = IF toParent = <<>> THEN m ELSE toParent[1]
  <2>1. /\ toParent'[Len(toParent) + 1] = m
        /\ \A i \in 1..Len(toParent) : toParent'[i] = toParent[i]
    BY <1>0, <1>b, Sent
  <2>2. CASE toParent = <<>>
    <3>1. Len(toParent) + 1 = 1
      BY <1>0, <2>2
    <3> QED BY <2>1, <2>2, <3>1
  <2>3. CASE toParent # <<>>
    BY <1>a, <2>1, <2>3
  <2> QED BY <2>2, <2>3
<1> USE DEF Inv, ConstructorInv, ClientInv, FailureInv, ChildInv
<1>1. CASE HasAnswered
  BY <1>1, AnsweredForGood DEF AnswerInv
<1>2. CASE ~HasAnswered
  <2>1. parent \notin {"failing", "done"} /\ ~stopped
    BY <1>2 DEF AnswerInv
  <2>2. ASSUME parent' \in {"failing", "done"}
        PROVE  FALSE
    <3>1. CASE Constructed
      BY <1>0, <1>2, <2>2, <3>1, Received DEF Constructed, ParentReceives, AnswerInv
    <3>2. CASE Answered
      <4>1. PICK m : toParent # <<>> /\ m = Head(toParent) /\ IsSignal(m)
        BY <3>2 DEF Answered, ParentReceives
      <4>2. toParent[1] = "data"
        <5>1. 1 \in 1..Len(toParent)
          BY <1>a, <4>1
        <5> QED BY <1>2, <2>1, <3>2, <5>1 DEF Answered
      <4>3. m = "data"
        BY <1>0, <4>1, <4>2, Received
      <4> QED BY <4>1, <4>3 DEF IsSignal, Signal
    <3>3. CASE Destroy
      BY <2>1, <2>2, <3>3 DEF Destroy
    <3>4. CASE ~Constructed /\ ~Answered /\ ~Destroy
      <4>1. parent' = parent \/ parent' \in {"client", "stop"}
        BY <2>1, <3>4, StepCases
        DEF WaitSkips, ConstructorThrows, StopNoWait, Stop, Move, DestroyEmpty, ClientSends,
            ClientReceives, Announce, EndEarly, RoutineSends, RoutineReceives, RoutineThrows,
            RoutineStops, RoutineEnds, Answer, Catch, SendKo, Unlock, CloseChild, vars
      <4> QED BY <2>1, <2>2, <4>1
    <3> QED BY <3>1, <3>2, <3>3, <3>4
  <2>3. ASSUME parent' = "constructor", toParent' # <<>>
        PROVE  toParent'[1] = "ok" \/ HasAnswered'
    <3>1. parent = "constructor"
      BY <2>1, <2>3, StepCases
      DEF WaitSkips, Constructed, ConstructorThrows, Answered, StopNoWait, Stop, Destroy, Move,
          DestroyEmpty, ClientSends, ClientReceives, Announce, EndEarly, RoutineSends,
          RoutineReceives, RoutineThrows, RoutineStops, RoutineEnds, Answer, Catch, SendKo,
          Unlock, CloseChild, vars
    <3>2. CASE WaitSkips
      <4>1. toParent # <<>> /\ ~IsSignal(toParent[1])
        BY <1>0, <3>2, Received DEF WaitSkips, ParentReceives
      <4> QED BY <3>1, <4>1 DEF IsSignal, Signal
    <3>3. CASE Announce
      <4>1. toParent = <<>> /\ toParent' = Append(toParent, "ok")
        BY <1>0, <3>1, <3>3 DEF Announce, ChildSends
      <4> QED BY <1>b, <4>1 DEF Message, Signal
    <3>4. CASE RoutineSends
      <4>1. toParent # <<>> /\ toParent' = Append(toParent, "data")
        BY <1>0, <3>1, <3>4 DEF RoutineSends, ChildSends
      <4>2. toParent'[1] = toParent[1]
        BY <1>b, <4>1 DEF Message
      <4> QED BY <1>2, <3>1, <4>1, <4>2 DEF AnswerInv
    <3>5. CASE Answer \/ SendKo
      BY <3>5 DEF Answer, SendKo, HasAnswered
    <3>6. CASE ~WaitSkips /\ ~Announce /\ ~RoutineSends /\ ~Answer /\ ~SendKo
      <4>1. toParent' = toParent
        BY <2>3, <3>1, <3>6, StepCases
        DEF Constructed, ConstructorThrows, Answered, StopNoWait, Stop, Destroy, Move,
            DestroyEmpty, ClientSends, ClientReceives, EndEarly, RoutineReceives,
            RoutineThrows, RoutineStops, RoutineEnds, Catch, Unlock, CloseChild, vars, pipes
      <4> QED BY <1>2, <2>3, <3>1, <4>1 DEF AnswerInv
    <3> QED BY <3>2, <3>3, <3>4, <3>5, <3>6
  <2> QED BY <2>2, <2>3 DEF AnswerInv
<1> QED BY <1>1, <1>2

(* Asking to stop puts the signal at the end of the pipe, if there is room and
   a child; else it changes nothing. *)
LEMMA Asked ==
  ASSUME toChild \in Seq({"data", "stop"}), AskToStop
  PROVE  /\ toChild' \in Seq({"data", "stop"})
         /\ Len(toChild) \in Nat /\ Len(toChild') <= Len(toChild) + 1
         /\ childOpen /\ Len(toChild) < Hwm =>
              toChild' # <<>> /\ toChild'[Len(toChild')] = "stop"
<1>1. Len(toChild) \in Nat
  BY LenProperties
<1>2. CASE childOpen /\ Len(toChild) < Hwm
  <2>1. toChild' = Append(toChild, "stop")
    BY <1>2 DEF AskToStop, TrySend
  <2>2. /\ toChild' \in Seq({"data", "stop"}) /\ Len(toChild') = Len(toChild) + 1
        /\ toChild'[Len(toChild) + 1] = "stop"
    BY <2>1, AppendProperties
  <2>3. toChild' # <<>>
    BY <1>1, <2>2, EmptySeq
  <2> QED BY <1>1, <2>2, <2>3
<1>3. CASE ~(childOpen /\ Len(toChild) < Hwm)
  <2>1. toChild' = toChild
    BY <1>3 DEF AskToStop, TrySend
  <2> QED BY <1>1, <1>3, <2>1
<1> QED BY <1>2, <1>3

(* What the child has read is gone from the front of the pipe; the end stays. *)
LEMMA Shortened ==
  ASSUME NEW s \in Seq({"data", "stop"}), s # <<>>
  PROVE  /\ Tail(s) \in Seq({"data", "stop"}) /\ Len(s) \in Nat
         /\ Len(Tail(s)) <= Len(s)
         /\ s[Len(s)] = "stop" /\ Head(s) = "data" =>
              Tail(s) # <<>> /\ Tail(s)[Len(Tail(s))] = "stop"
<1>1. Len(s) \in Nat \ {0}
  BY EmptySeq
<1>2. /\ Tail(s) \in Seq({"data", "stop"}) /\ Len(Tail(s)) = Len(s) - 1 /\ Head(s) = s[1]
      /\ \A i \in 1..Len(s) - 1 : Tail(s)[i] = s[i + 1]
  BY <1>1, HeadTailProperties
<1>3. ASSUME s[Len(s)] = "stop", Head(s) = "data"
      PROVE  Tail(s) # <<>> /\ Tail(s)[Len(Tail(s))] = "stop"
  <2>1. Len(s) # 1
    BY <1>2, <1>3
  <2> DEFINE i == Len(s) - 1
  <2>2. i \in 1..Len(s) - 1 /\ i + 1 = Len(s) /\ Len(Tail(s)) = i
    BY <1>1, <1>2, <2>1
  <2> HIDE DEF i
  <2>3. Tail(s)[i] = s[i + 1]
    BY <1>2, <2>2
  <2>4. Tail(s) # <<>>
    BY <1>1, <1>2, <2>2, EmptySeq
  <2> QED BY <1>3, <2>2, <2>3, <2>4
<1> QED BY <1>1, <1>2, <1>3

(* Each step keeps track of what the pipe to the child holds, if it has room
   for all that is ever sent and the stop signal. *)
LEMMA RoomKeeps ==
  ASSUME MaxData + MaxStops < Hwm, Inv, RoomInv, [Next]_vars
  PROVE  RoomInv'
<1> USE DEF RoomInv
<1>0. /\ sent["parent"] \in 0..MaxData /\ asked \in 0..MaxStops /\ Len(toChild) \in Nat
      /\ MaxData \in Nat /\ MaxStops \in Nat /\ Hwm \in Nat
      /\ parent \in {"stop", "destructor"} => ~stopped
      /\ stopped => HasAnswered
  BY ActorAssumption, LenProperties DEF Inv, TypeOK, ClientInv
<1>1. CASE WaitSkips
  BY <1>1 DEF WaitSkips, ParentReceives, Waiting, answer, counters
<1>2. CASE Constructed
  BY <1>2 DEF Constructed, ParentReceives, answer, counters
<1>3. CASE ConstructorThrows
  BY <1>3 DEF ConstructorThrows, pipes
<1>4. CASE Answered
  BY <1>4 DEF Answered, ParentReceives
<1>5. CASE StopNoWait
  <2>1. Len(toChild') <= Len(toChild) + 1 /\ toChild' \in Seq({"data", "stop"}) /\ asked' = asked + 1
    BY <1>5, Asked DEF StopNoWait
  <2>2. Len(toChild') \in Nat
    BY <2>1, LenProperties
  <2>3. /\ UNCHANGED <<parent, child, parentOpen, childOpen, stopped, sent>> /\ parent = "client"
    BY <1>5 DEF StopNoWait, answer
  <2> QED BY <1>0, <2>1, <2>2, <2>3
<1>6. CASE Stop
  <2>1. /\ Len(toChild') <= Len(toChild) + 1 /\ toChild' \in Seq({"data", "stop"})
        /\ childOpen /\ Len(toChild) < Hwm => toChild' # <<>> /\ toChild'[Len(toChild')] = "stop"
    BY <1>6, Asked DEF Stop
  <2>2. CASE stopped
    BY <1>0, <1>6, <2>1, <2>2 DEF Stop, HasAnswered, answer, counters
  <2>3. CASE ~stopped
    <3>1. Len(toChild) < Hwm
      BY <1>0, <1>6, <2>3 DEF Stop
    <3> QED BY <1>6, <2>1, <2>3, <3>1 DEF Stop
  <2> QED BY <2>2, <2>3
<1>7. CASE Destroy
  <2>1. /\ Len(toChild') <= Len(toChild) + 1 /\ toChild' \in Seq({"data", "stop"})
        /\ childOpen /\ Len(toChild) < Hwm => toChild' # <<>> /\ toChild'[Len(toChild')] = "stop"
    BY <1>7, Asked DEF Destroy
  <2>2. CASE stopped
    BY <1>0, <1>7, <2>1, <2>2 DEF Destroy, HasAnswered
  <2>3. CASE ~stopped
    <3>1. Len(toChild) < Hwm
      BY <1>0, <1>7, <2>3 DEF Destroy
    <3> QED BY <1>7, <2>1, <2>3, <3>1 DEF Destroy
  <2> QED BY <2>2, <2>3
<1>8. CASE Move
  BY <1>8 DEF Move, pipes, answer, counters
<1>9. CASE DestroyEmpty
  BY <1>9 DEF DestroyEmpty, pipes, answer, counters
<1>10. CASE ClientSends
  <2>1. /\ toChild' = Append(toChild, "data") /\ sent'["parent"] = sent["parent"] + 1
        /\ asked' = asked /\ UNCHANGED <<parent, child, parentOpen, childOpen, stopped>>
        /\ parent = "client"
    BY <1>10 DEF ClientSends, answer, Inv, TypeOK
  <2>2. toChild' \in Seq({"data", "stop"}) /\ Len(toChild') = Len(toChild) + 1
    BY <2>1, AppendProperties
  <2> QED BY <1>0, <2>1, <2>2
<1>11. CASE ClientReceives
  BY <1>11 DEF ClientReceives, ParentReceives, answer, counters
<1>12. CASE Announce
  BY <1>12 DEF Announce, ChildSends, answer, counters, Inv, ClientInv
<1>13. CASE EndEarly
  BY <1>13 DEF EndEarly, pipes, answer, counters
<1>14. CASE RoutineSends
  <2>1. sent'["parent"] = sent["parent"]
    BY <1>14 DEF RoutineSends, Inv, TypeOK
  <2> QED BY <1>14, <2>1 DEF RoutineSends, ChildSends, answer
<1>15. CASE RoutineReceives
  <2>1. /\ toChild' = Tail(toChild) /\ toChild # <<>> /\ Head(toChild) = "data"
        /\ UNCHANGED <<parent, child, parentOpen, childOpen, stopped, sent, asked>>
    BY <1>15 DEF RoutineReceives, answer, counters
  <2>2. /\ toChild' \in Seq({"data", "stop"}) /\ Len(toChild') <= Len(toChild)
        /\ toChild[Len(toChild)] = "stop" => toChild' # <<>> /\ toChild'[Len(toChild')] = "stop"
    BY <2>1, Shortened
  <2>3. Len(toChild') \in Nat
    BY <2>2, LenProperties
  <2> QED BY <1>0, <2>1, <2>2, <2>3
<1>16. CASE RoutineThrows
  BY <1>16 DEF RoutineThrows, pipes, answer, counters
<1>17. ASSUME NEW how \in {"true", "false"}, RoutineStops(how)
       PROVE  RoomInv'
  <2>1. /\ toChild' = Tail(toChild) /\ toChild # <<>> /\ child' = "ended"
        /\ UNCHANGED <<parent, parentOpen, childOpen, stopped, sent, asked>>
        /\ child = "running"
    BY <1>17 DEF RoutineStops, answer, counters
  <2>2. toChild' \in Seq({"data", "stop"}) /\ Len(toChild') <= Len(toChild)
    BY <2>1, Shortened
  <2>3. Len(toChild') \in Nat
    BY <2>2, LenProperties
  <2> QED BY <1>0, <2>1, <2>2, <2>3
<1>18. ASSUME NEW how \in {"true", "false"}, RoutineEnds(how)
       PROVE  RoomInv'
  BY <1>18 DEF RoutineEnds, pipes, answer, counters
<1>19. CASE Answer
  BY <1>19 DEF Answer, ChildSends, answer, counters
<1>20. CASE Catch
  BY <1>20 DEF Catch, pipes, answer, counters
<1>21. CASE SendKo
  BY <1>21 DEF SendKo, ChildSends, answer, counters
<1>22. CASE Unlock
  BY <1>22 DEF Unlock, pipes, answer, counters
<1>23. CASE CloseChild
  BY <1>23 DEF CloseChild, answer, counters
<1>24. CASE UNCHANGED vars
  BY <1>24 DEF vars, pipes, answer, counters
<1>25. QED
  BY StepCases, <1>1, <1>2, <1>3, <1>4, <1>5, <1>6, <1>7, <1>8, <1>9, <1>10, <1>11,
     <1>12, <1>13, <1>14, <1>15, <1>16, <1>17, <1>18, <1>19, <1>20, <1>21, <1>22,
     <1>23, <1>24

(* If the pipe has room for all that is ever sent and the stop signal, and the
   routine leaves ko to start_routine, the two threads never wait for each
   other, whenever and however the routine ends and whatever is left unread
   (actor.cpp:45-70, 88-116, 118-137). *)
THEOREM NobodyIsStuck ==
  ASSUME MaxData + MaxStops < Hwm, OwnKo = FALSE
  PROVE  Spec => []NeverBothWait
<1>1. Init => AnswerInv /\ RoomInv
  <2>1. <<>> \in Seq({"data", "stop"}) /\ Len(<<>>) = 0
    BY EmptySeq
  <2> QED BY <2>1 DEF Init, AnswerInv, RoomInv
<1>2. Inv /\ AnswerInv /\ RoomInv /\ [Next]_vars => AnswerInv' /\ RoomInv'
  BY AnswerKeeps, RoomKeeps
<1>3. Inv /\ AnswerInv /\ RoomInv => NeverBothWait
  <2> SUFFICES ASSUME Inv, AnswerInv, RoomInv, parent # "client"
               PROVE  ParentGoesOn \/ ChildGoesOn \/ (parent = "done" /\ child = "gone")
    BY DEF NeverBothWait
  <2>0. toParent = <<>> => Len(toParent) = 0 /\ Len(toParent) < Hwm /\ ~(Len(toParent) > 0)
    BY Emptiness, ActorAssumption DEF Inv, TypeOK
  <2> USE DEF Inv, ChildInv, ConstructorInv, ClientInv
  <2>1. CASE parent \in {"failing", "done"}
    BY <2>1 DEF AnswerInv, HasAnswered, ParentGoesOn, ChildGoesOn, TypeOK
  <2>2. CASE Waiting /\ toParent # <<>>
    BY <2>2 DEF ParentGoesOn
  <2>3. CASE Waiting /\ toParent = <<>>
    <3>1. parentOpen /\ Len(toParent) < Hwm
      <4>1. parentOpen
        BY <2>3 DEF Waiting, RoomInv
      <4> QED BY <2>0, <2>3, <4>1
    <3>5. ~HasAnswered
      <4>1. CASE parent = "constructor"
        BY <2>3, <4>1
      <4>2. CASE parent \in {"stop", "destructor"}
        <5>1. HasAnswered => Len(toParent) > 0
          BY <4>2
        <5> QED BY <2>0, <2>3, <5>1
      <4> QED BY <2>3, <4>1, <4>2 DEF Waiting
    <3>2. CASE child = "running"
      BY <2>3, <3>2 DEF Waiting, RoomInv, ChildGoesOn, HasAnswered
    <3>3. CASE child \in {"starting", "ended", "sending ko"}
      BY <3>1, <3>3 DEF ChildGoesOn
    <3>4. CASE child = "catching"
      BY <3>4 DEF ChildGoesOn, TypeOK
    <3> QED BY <3>2, <3>3, <3>4, <3>5 DEF HasAnswered, TypeOK, Child
  <2> QED BY <2>1, <2>2, <2>3 DEF Waiting, TypeOK, Parent
<1>4. QED
  BY <1>1, <1>2, <1>3, InvHolds, PTL DEF Spec

-----------------------------------------------------------------------------
(* Any n bytes *)
Byte == 0..255

Bytes(n) == [1..n -> Byte]

LEMMA ReversedTwice ==
  ASSUME NEW n \in Nat, NEW v \in Bytes(n)
  PROVE  /\ Len(v) = n /\ Backwards(v) \in Bytes(n)
         /\ \A i \in 1..n : Backwards(v)[i] = v[n + 1 - i]
         /\ Backwards(Backwards(v)) = v
<1> DEFINE b == Backwards(v)
<1>0. ASSUME NEW s \in Bytes(n)
      PROVE  Len(s) = n
  <2>1. s \in Seq(Byte) /\ DOMAIN s = 1..n
    BY <1>0, SeqDef DEF Bytes
  <2>2. DOMAIN s = 1..Len(s) /\ Len(s) \in Nat
    BY <2>1, LenProperties
  <2>3. QED BY <2>1, <2>2
<1>1. Len(v) = n
  BY <1>0
<1>2. b = [i \in 1..n |-> v[n + 1 - i]]
  BY <1>1 DEF Backwards
<1>3. \A i \in 1..n : n + 1 - i \in 1..n /\ n + 1 - (n + 1 - i) = i
  OBVIOUS
<1>4. b \in Bytes(n)
  BY <1>2, <1>3 DEF Bytes
<1>5. Len(b) = n
  BY <1>0, <1>4
<1>6. Backwards(b) = [i \in 1..n |-> b[n + 1 - i]]
  BY <1>5 DEF Backwards
<1> HIDE DEF b
<1>7. \A i \in 1..n : b[n + 1 - i] = v[i]
  BY <1>2, <1>3
<1>8. Backwards(b) = v
  <2>1. [i \in 1..n |-> b[n + 1 - i]] = [i \in 1..n |-> v[i]]
    BY <1>7
  <2>2. v = [i \in 1..n |-> v[i]]
    BY DEF Bytes
  <2>3. QED BY <1>6, <2>1, <2>2
<1>9. QED BY <1>1, <1>2, <1>4, <1>8 DEF b

LEMMA OneByte ==
  ASSUME NEW v \in Bytes(1)
  PROVE  Backwards(v) = v
<1>0. 1 \in Nat
  OBVIOUS
<1>1. /\ Backwards(v) \in Bytes(1)
      /\ \A i \in 1..1 : Backwards(v)[i] = v[1 + 1 - i]
  BY <1>0, ReversedTwice
<1>2. \A i \in 1..1 : Backwards(v)[i] = v[i]
  <2>1. \A i \in 1..1 : 1 + 1 - i = i
    OBVIOUS
  <2>2. QED BY <1>1, <2>1
<1> DEFINE b == Backwards(v)
<1>3. b \in [1..1 -> Byte] /\ v \in [1..1 -> Byte] /\ \A i \in 1..1 : b[i] = v[i]
  BY <1>1, <1>2 DEF Bytes
<1> HIDE DEF b
<1>4. b = v
  BY <1>3
<1>5. QED BY <1>4 DEF b

LEMMA SwapReverses ==
  ASSUME NEW v \in Bytes(8)
  PROVE  SwapBytes(v) = Backwards(v)
<1>1. Len(v) = 8
  BY ReversedTwice
<1>2. \A i \in 1..8 : v[9 - i] = v[8 + 1 - i]
  <2>1. \A i \in 1..8 : 9 - i = 8 + 1 - i
    OBVIOUS
  <2>2. QED BY <2>1
<1>3. QED BY <1>1, <1>2 DEF SwapBytes, Backwards

(* A value of a type is any bytes of its width; a bool is 0 or 1. *)
BytesOfType(type) == IF type = "bool" THEN [1..1 -> {0, 1}] ELSE Bytes(Width[type])

LEMMA Widths ==
  ASSUME NEW type \in DOMAIN Width, NEW v \in BytesOfType(type)
  PROVE  /\ Width[type] \in {1, 2, 4, 8}
         /\ v \in Bytes(Width[type])
<1>1. DOMAIN Width = {"int8", "int16", "int32", "int64", "signal", "float", "double", "bool"}
  BY DEF Width
<1>2. Width[type] \in {1, 2, 4, 8} /\ Width["bool"] = 1
  BY <1>1 DEF Width
<1>3. CASE type = "bool"
  <2>1. v \in [1..1 -> {0, 1}]
    BY <1>3 DEF BytesOfType
  <2>2. v \in Bytes(1)
    BY <2>1 DEF Bytes, Byte
  <2>3. QED BY <1>2, <1>3, <2>2
<1>4. CASE type # "bool"
  BY <1>2, <1>4 DEF BytesOfType
<1>5. QED BY <1>3, <1>4

(* The conversion turns the bytes in memory into the bytes of the value. *)
LEMMA Converted ==
  ASSUME NEW type \in DOMAIN Width, NEW v \in BytesOfType(type), NEW host \in Hosts
  PROVE  /\ InMemory(host, ToNetwork(host, type, v)) = v
         /\ ToNetwork(host, type, FromMemory(host, v)) = v
<1> DEFINE n == Width[type]
<1>1. n \in {1, 2, 4, 8} /\ v \in Bytes(n)
  BY Widths
<1>2. n \in Nat
  BY <1>1
<1> DEFINE b == Backwards(v)
<1>3. b \in Bytes(n) /\ Backwards(b) = v
  BY <1>1, <1>2, ReversedTwice
<1>4. host = "big" \/ host = "little"
  BY DEF Hosts
<1>5. "big" # "little"
  OBVIOUS
<1>6. CASE host = "big"
  <2>1. InMemory(host, v) = v /\ FromMemory(host, v) = v
    BY <1>5, <1>6 DEF InMemory, FromMemory
  <2>2. ToNetwork(host, type, v) = v
    BY <1>5, <1>6 DEF ToNetwork, SwapIfNeeded, Hton, InMemory, FromMemory
  <2>3. QED BY <2>1, <2>2
<1>7. CASE host = "little"
  <2>1. \A s : InMemory(host, s) = Backwards(s) /\ FromMemory(host, s) = Backwards(s)
    BY <1>7 DEF InMemory, FromMemory
  <2>2. ToNetwork(host, type, v) = b /\ ToNetwork(host, type, b) = v
    <3>1. CASE n = 1
      <4>1. b = v
        BY <1>1, <3>1, OneByte
      <4>2. QED BY <3>1, <4>1 DEF ToNetwork
    <3>2. CASE n = 8
      <4>1. SwapBytes(Backwards(v)) = Backwards(b) /\ SwapBytes(Backwards(b)) = b
        BY <1>1, <1>3, <3>2, SwapReverses
      <4>2. SwapIfNeeded(host, v) = Backwards(v) /\ SwapIfNeeded(host, b) = v
        BY <1>3, <1>5, <1>7, <2>1, <4>1 DEF SwapIfNeeded
      <4>3. \A s : ToNetwork(host, type, s) = SwapIfNeeded(host, s)
        BY <3>2 DEF ToNetwork
      <4>4. QED BY <4>2, <4>3
    <3>3. CASE n # 1 /\ n # 8
      <4>1. \A s : Hton(host, s) = Backwards(s)
        BY <1>5, <1>7 DEF Hton, FromMemory, InMemory
      <4>2. \A s : ToNetwork(host, type, s) = Hton(host, s)
        BY <3>3 DEF ToNetwork
      <4>3. QED BY <1>3, <4>1, <4>2
    <3>4. QED BY <3>1, <3>2, <3>3
  <2>3. QED BY <1>3, <2>1, <2>2
<1>8. QED BY <1>4, <1>6, <1>7

(* Whatever value << or push_front writes, on a host of either byte order: on the
   wire are its bytes in network order, and get() on a host of either byte order
   reads the value (message.cpp:121-416, inet.hpp:62-190). *)
THEOREM EveryValueReadsBack ==
  \A type \in DOMAIN Width : \A v \in BytesOfType(type) : \A writer, reader \in Hosts :
    Put(writer, type, v) = v /\ Get(reader, type, Put(writer, type, v)) = v
<1> SUFFICES ASSUME NEW type \in DOMAIN Width, NEW v \in BytesOfType(type),
                    NEW writer \in Hosts, NEW reader \in Hosts
             PROVE  Put(writer, type, v) = v /\ Get(reader, type, Put(writer, type, v)) = v
  OBVIOUS
<1>1. Put(writer, type, v) = v
  BY Converted DEF Put
<1>2. CASE type # "bool"
  <2>1. ToNetwork(reader, type, FromMemory(reader, v)) = v
    BY Converted
  <2>2. QED BY <1>1, <1>2, <2>1 DEF Get
<1>3. CASE type = "bool"
  <2>1. v \in [1..1 -> {0, 1}]
    BY <1>3 DEF BytesOfType
  <2>2. v = <<v[1]>> /\ v[1] \in {0, 1}
    BY <2>1
  <2>3. Get(reader, type, v) = IF v[1] # 0 THEN <<1>> ELSE <<0>>
    BY <1>3 DEF Get
  <2>4. CASE v[1] = 0
    BY <1>1, <2>2, <2>3, <2>4
  <2>5. CASE v[1] = 1
    BY <1>1, <2>2, <2>3, <2>5
  <2>6. QED BY <2>2, <2>4, <2>5
<1>4. QED BY <1>1, <1>2, <1>3

(* is_signal, of a part with the bytes v *)
LEMMA SignalByHeader ==
  ASSUME NEW host \in Hosts, NEW n \in Nat, NEW v \in Bytes(n)
  PROVE  SignalIn(host, <<v>>) <=> n = 8 /\ \A i \in 1..7 : v[i] = Header[i]
<1>1. Len(<<v>>) = 1 /\ <<v>>[1] = v /\ Len(v) = n
  BY ReversedTwice
<1>2. ASSUME n = 8
      PROVE  SubSeq(Get(host, "signal", v), 1, 7) = Header <=> \A i \in 1..7 : v[i] = Header[i]
  <2>1. "signal" \in DOMAIN Width /\ v \in BytesOfType("signal") /\ "signal" # "bool"
    BY <1>2 DEF Width, BytesOfType
  <2>2. Get(host, "signal", v) = v
    <3>1. ToNetwork(host, "signal", FromMemory(host, v)) = v
      BY <2>1, Converted
    <3>2. QED BY <2>1, <3>1 DEF Get
  <2> DEFINE s == SubSeq(v, 1, 7)
  <2>3. \A i \in 1..7 : v[i] \in Byte
    BY <1>2 DEF Bytes
  <2>4. s \in Seq(Byte) /\ Len(s) = 7 /\ \A i \in 1..7 : s[i] = v[i]
    <3>1. /\ s \in Seq(Byte) /\ Len(s) = IF 1 <= 7 THEN 7 - 1 + 1 ELSE 0
          /\ \A i \in 1..7 - 1 + 1 : s[i] = v[1 + i - 1]
      BY <2>3, SubSeqProperties
    <3>2. 7 - 1 + 1 = 7 /\ \A i \in 1..7 : 1 + i - 1 = i
      OBVIOUS
    <3> HIDE DEF s
    <3>3. QED BY <3>1, <3>2
  <2>5. Header \in Seq(Byte) /\ Len(Header) = 7
    BY DEF Header, Byte
  <2> HIDE DEF s
  <2>6. s = Header <=> \A i \in 1..7 : v[i] = Header[i]
    <3>1. s = Header => \A i \in 1..7 : v[i] = Header[i]
      BY <2>4
    <3>2. (\A i \in 1..7 : v[i] = Header[i]) => \A i \in 1..Len(s) : s[i] = Header[i]
      BY <2>4
    <3>3. (\A i \in 1..Len(s) : s[i] = Header[i]) => s = Header
      BY <2>4, <2>5, SeqEqual
    <3>4. QED BY <3>1, <3>2, <3>3
  <2>7. QED BY <2>2, <2>6 DEF s
<1>3. QED BY <1>1, <1>2 DEF SignalIn

LEMMA EighthByte ==
  ASSUME NEW s \in Seq(Byte), NEW x \in Byte
  PROVE  Len(s) = 7 => Append(s, x) \in Bytes(8) /\ \A i \in 1..7 : Append(s, x)[i] = s[i]
<1> DEFINE v == Append(s, x)
<1>1. v \in Seq(Byte) /\ Len(v) = Len(s) + 1 /\ \A i \in 1..Len(s) : v[i] = s[i]
  BY AppendProperties
<1> HIDE DEF v
<1>2. v \in [1..Len(v) -> Byte]
  BY <1>1, LenProperties
<1>3. Len(s) = 7 => v \in Bytes(8) /\ \A i \in 1..7 : v[i] = s[i]
  BY <1>1, <1>2 DEF Bytes
<1>4. QED BY <1>3 DEF v

LEMMA SignalBytes ==
  ASSUME NEW name \in DOMAIN SignalValue
  PROVE  /\ SignalValue[name] \in Bytes(8)
         /\ \A i \in 1..7 : SignalValue[name][i] = Header[i]
<1>1. PICK x \in Byte : SignalValue[name] = Append(Header, x)
  <2>1. name \in {"ok", "ko", "stop", "test"}
    BY DEF SignalValue
  <2>2. \/ SignalValue[name] = Append(Header, 0) \/ SignalValue[name] = Append(Header, 1)
        \/ SignalValue[name] = Append(Header, 2) \/ SignalValue[name] = Append(Header, 255)
    BY <2>1 DEF SignalValue
  <2>3. QED BY <2>2 DEF Byte
<1>2. Header \in Seq(Byte) /\ Len(Header) = 7
  BY DEF Header, Byte
<1>3. Append(Header, x) \in Bytes(8) /\ \A i \in 1..7 : Append(Header, x)[i] = Header[i]
  BY <1>2, EighthByte
<1>4. QED BY <1>1, <1>3

(* Among the values that the runs write *)
LEMMA ValuesAreBytes ==
  ASSUME NEW type \in DOMAIN Width, NEW v \in Values(type)
  PROVE  /\ v \in BytesOfType(type) /\ v \in Bytes(Width[type]) /\ Width[type] \in Nat
         /\ type = "signal" => Width[type] = 8 /\ \A i \in 1..7 : v[i] = Header[i]
         /\ type # "signal" => v[1] # Header[1]
<1>1. Width["signal"] = 8 /\ Width["bool"] = 1 /\ Header[1] = 119 /\ "signal" # "bool"
  BY DEF Width, Header
<1>2. Width[type] \in {1, 2, 4, 8}
  BY DEF Width
<1>3. CASE type = "signal"
  <2>1. PICK name \in DOMAIN SignalValue : v = SignalValue[name]
    BY <1>3 DEF Values
  <2>2. v \in Bytes(8) /\ \A i \in 1..7 : v[i] = Header[i]
    BY <2>1, SignalBytes
  <2>3. QED BY <1>1, <1>3, <2>2 DEF BytesOfType
<1>4. CASE type # "signal"
  <2> DEFINE n == Width[type]
  <2>1. v \in [1..n -> {0, 1}]
    BY <1>4 DEF Values
  <2>2. 1 \in 1..n
    BY <1>2
  <2>3. v[1] \in {0, 1}
    BY <2>1, <2>2
  <2>4. v \in Bytes(n)
    BY <2>1 DEF Bytes, Byte
  <2>5. v \in BytesOfType(type)
    BY <1>1, <2>1, <2>4 DEF BytesOfType
  <2>6. QED BY <1>1, <1>2, <1>4, <2>3, <2>4, <2>5
<1>5. QED BY <1>3, <1>4

LEMMA NobodyMisreads == Misreaders = {}
<1>1. ASSUME NEW type \in DOMAIN Width, NEW v \in Values(type),
             NEW writer \in Hosts, NEW reader \in Hosts
      PROVE  /\ Put(writer, type, v) = v /\ Get(reader, type, v) = v
             /\ SignalIn(reader, <<v>>) = (type = "signal")
  <2>1. /\ v \in BytesOfType(type) /\ v \in Bytes(Width[type]) /\ Width[type] \in Nat
        /\ type = "signal" => Width[type] = 8 /\ \A i \in 1..7 : v[i] = Header[i]
        /\ type # "signal" => v[1] # Header[1]
    BY ValuesAreBytes
  <2>2. Put(writer, type, v) = v /\ Get(reader, type, v) = v
    BY <2>1, EveryValueReadsBack
  <2>3. SignalIn(reader, <<v>>) <=> Width[type] = 8 /\ \A i \in 1..7 : v[i] = Header[i]
    BY <2>1, SignalByHeader
  <2>4. SignalIn(reader, <<v>>) \in BOOLEAN
    BY DEF SignalIn
  <2>5. 1 \in 1..7
    OBVIOUS
  <2>6. QED BY <2>1, <2>2, <2>3, <2>4, <2>5
<1>2. ASSUME NEW writer \in Hosts, NEW reader \in Hosts
      PROVE  MisreadTypes(writer, reader) = {}
  <2> SUFFICES ASSUME NEW type \in DOMAIN Width, NEW v \in Values(type)
               PROVE  LET part == Put(writer, type, v)
                      IN ~(\/ part # v \/ Get(reader, type, part) # v
                           \/ SignalIn(reader, <<part>>) # (type = "signal"))
    BY DEF MisreadTypes
  <2> DEFINE part == Put(writer, type, v)
  <2>1. part = v /\ Get(reader, type, v) = v /\ SignalIn(reader, <<v>>) = (type = "signal")
    BY <1>1
  <2> HIDE DEF part
  <2>2. ~(\/ part # v \/ Get(reader, type, part) # v
          \/ SignalIn(reader, <<part>>) # (type = "signal"))
    BY <2>1, Zenon
  <2>3. QED BY <2>2 DEF part
<1>3. QED BY <1>2 DEF Misreaders

(* Whatever the pipe holds, a host of either byte order takes for signals the
   signals that start_routine and the routine send, and nothing else, and what is
   written with << is what get() returns (message.cpp:121-416, 488-498;
   actor.cpp:53-116). *)
THEOREM PipeReadAsWritten == Spec => []ReadAsWritten
<1>1. DOMAIN SignalValue = {"ok", "ko", "stop", "test"}
  BY DEF SignalValue
<1>2. ASSUME NEW m \in Message, NEW host \in Hosts
      PROVE  IsSignal(m) <=> SignalIn(host, <<BytesOf(host, m)>>)
  <2>1. CASE m \in Signal
    <3>1. m \in DOMAIN SignalValue
      BY <1>1, <2>1 DEF Signal
    <3>2. /\ SignalValue[m] \in Bytes(8)
          /\ \A i \in 1..7 : SignalValue[m][i] = Header[i]
      BY <3>1, SignalBytes
    <3>3. "signal" \in DOMAIN Width /\ SignalValue[m] \in BytesOfType("signal")
      BY <3>2 DEF Width, BytesOfType
    <3>4. BytesOf(host, m) = SignalValue[m]
      BY <3>1, <3>3, EveryValueReadsBack DEF BytesOf
    <3>5. SignalIn(host, <<SignalValue[m]>>)
      BY <3>2, SignalByHeader
    <3>6. QED BY <2>1, <3>4, <3>5 DEF IsSignal
  <2>2. CASE m = "data"
    <3> DEFINE v == <<0, 0, 0, 0, 0, 0, 0, 1>>
    <3>1. m \notin Signal /\ m \notin DOMAIN SignalValue
      BY <1>1, <2>2 DEF Signal
    <3>2. v \in Bytes(8) /\ v[1] # Header[1] /\ 1 \in 1..7
      BY DEF Bytes, Byte, Header
    <3>3. "int64" \in DOMAIN Width /\ BytesOfType("int64") = Bytes(8)
      BY DEF Width, BytesOfType
    <3> HIDE DEF v
    <3>4. BytesOf(host, m) = v
      BY <3>1, <3>2, <3>3, EveryValueReadsBack DEF BytesOf, v
    <3>5. ~SignalIn(host, <<v>>)
      BY <3>2, SignalByHeader
    <3>6. QED BY <3>1, <3>4, <3>5 DEF IsSignal
  <2>3. QED BY <2>1, <2>2 DEF Message
<1>3. TypeOK => ReadAsWritten
  <2> SUFFICES ASSUME TypeOK PROVE ReadAsWritten
    OBVIOUS
  <2>1. ASSUME NEW k \in DOMAIN toParent PROVE toParent[k] \in Message
    <3>1. toParent \in Seq(Message)
      BY DEF TypeOK
    <3>2. QED BY <3>1, LenProperties, ElementOfSeq
  <2>2. QED BY <1>2, <2>1, NobodyMisreads DEF ReadAsWritten
<1>4. QED BY <1>3, TypeCorrect, PTL
=============================================================================
