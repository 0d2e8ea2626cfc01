----------------------------- MODULE AuthProofs -----------------------------
(***************************************************************************)
(* Auth for any calls, requests and peers and with signals at any moment:  *)
(* the server thread is off the members before they are destroyed, the     *)
(* endpoint is free when the caller is done, and Auth implements           *)
(* AccessGate.                                                             *)
(***************************************************************************)
EXTENDS Auth, SequenceTheorems, TLAPS

-----------------------------------------------------------------------------
(* The routine of the constructor runs. *)
Running == server \in {"starting", "polling", "serving"}

(* As long as it runs, the pipe holds what the caller waits for: its command or
   the one signal for it.  The last command is acknowledged between two rounds
   of the loop, which has no third. *)
PipeInv ==
  Running =>
    /\ caller \in {"constructing", "idle", "waiting", "terminating", "stopping"}
    /\ server = "starting" => caller = "constructing" /\ toCaller = <<>>
    /\ caller = "constructing" =>
         toServer = <<>> /\ ~terminated /\ (server # "starting" => toCaller = <<"ok">>)
    /\ caller = "idle" => toServer = <<>> /\ toCaller = <<>> /\ ~terminated
    /\ caller = "waiting" =>
         /\ ~terminated
         /\ \/ toCaller = <<>> /\ toServer = <<pending>> /\ ~effective
            \/ toCaller = <<"ok">> /\ toServer = <<>> /\ effective
    /\ caller = "terminating" =>
         \/ toCaller = <<>> /\ toServer = <<Terminate>> /\ ~terminated
         \/ toCaller = <<"ok">> /\ toServer = <<>> /\ terminated /\ server = "polling"
    /\ caller = "stopping" => toCaller = <<>> /\ terminated /\ server = "polling"

(* What poll() has reported is still there. *)
ReadyInv == server = "serving" /\ "pipe" \in ready => toServer # <<>>

(* The caller destroys the members when it has its acknowledgement. *)
MembersInv ==
  /\ ~members => caller \in {"stopping", "done", "threw"}
  /\ ~Running => endpoint # "auth"

(* A call is under way while the caller waits for it. *)
PendingInv ==
  /\ caller = "waiting" => pending \in Calls
  /\ caller # "waiting" => pending = None /\ ~effective

AuthInv == PipeInv /\ ReadyInv /\ MembersInv /\ PendingInv

LEMMA InitAuthInv == Init => AuthInv
BY DEF Init, AuthInv, PipeInv, ReadyInv, MembersInv, PendingInv, Running

(* A command of a call is not the last one. *)
LEMMA CallsGoOn == \A c \in Calls : c # Terminate
<1> SUFFICES ASSUME NEW c \in Calls PROVE c # Terminate OBVIOUS
<1>1. c.name # "TERMINATE" BY AuthAssumption DEF AuthAssumption
<1>2. Terminate.name = "TERMINATE" BY DEF Terminate
<1>3. QED BY <1>1, <1>2

LEMMA OneInThePipe ==
  ASSUME NEW x
  PROVE  Head(<<x>>) = x /\ Tail(<<x>>) = <<>> /\ Append(<<>>, x) = <<x>>
OBVIOUS

-----------------------------------------------------------------------------
(* The end of the routine makes all claims about its run void. *)
LEMMA RoutineEndsAuthInv ==
  ASSUME AuthInv, server' \in {"ended", "closing", "gone"}, endpoint' # "auth",
         UNCHANGED <<caller, members, pending, effective>>
  PROVE  AuthInv'
BY DEF AuthInv, PipeInv, ReadyInv, MembersInv, PendingInv, Running

LEMMA ServerAuthInv ==
  ASSUME AuthInv, BindEndpoint \/ BindFails \/ Poll \/ Terminated \/ ServerAnswers \/ ServerCloses
  PROVE  AuthInv'
<1>1. CASE BindEndpoint
  <2>1. caller = "constructing" /\ toCaller' = <<"ok">> /\ toServer = <<>> /\ ~terminated
    BY <1>1 DEF BindEndpoint, AuthInv, PipeInv, Running
  <2>2. QED
    BY <1>1, <2>1
    DEF BindEndpoint, AuthInv, PipeInv, ReadyInv, MembersInv, PendingInv, Running, tables, history
<1>2. CASE BindFails
  BY <1>2, RoutineEndsAuthInv DEF BindFails, tables, history, zap
<1>3. CASE Poll
  BY <1>3 DEF Poll, AuthInv, PipeInv, ReadyInv, MembersInv, PendingInv, Running, pipe, tables, zap,
          history
<1>4. CASE Terminated
  BY <1>4, RoutineEndsAuthInv DEF Terminated, LeaveLoop, tables, history
<1>5. CASE ServerAnswers
  <2>1. endpoint # "auth"
    BY <1>5 DEF ServerAnswers, AuthInv, MembersInv, PendingInv, Running
  <2>2. QED BY <1>5, <2>1, RoutineEndsAuthInv DEF ServerAnswers, tables, history, zap
<1>6. CASE ServerCloses
  <2>1. endpoint # "auth"
    BY <1>6 DEF ServerCloses, AuthInv, MembersInv, PendingInv, Running
  <2>2. QED BY <1>6, <2>1, RoutineEndsAuthInv DEF ServerCloses, tables, history, zap
<1>7. QED BY <1>1, <1>2, <1>3, <1>4, <1>5, <1>6

LEMMA AuthenticateAuthInv ==
  ASSUME AuthInv, NEW p \in Peers, Authenticate(p)
  PROVE  AuthInv'
BY DEF Authenticate, Turn, AuthInv, PipeInv, ReadyInv, MembersInv, PendingInv, Running, pipe, tables, history

(* A command is carried out and acknowledged with its round at an end. *)
LEMMA CommandAuthInv ==
  ASSUME AuthInv, HandleCommand
  PROVE  AuthInv'
<1>1. /\ server = "serving" /\ server' = "polling" /\ toServer # <<>>
      /\ toServer' = Tail(toServer) /\ toCaller' = Append(toCaller, "ok")
      /\ terminated' = (terminated \/ Head(toServer) = Terminate)
      /\ UNCHANGED <<caller, members, endpoint, pending>>
      /\ effective' = IF Head(toServer) = Terminate THEN effective ELSE TRUE
  BY DEF HandleCommand, Turn, Carry, Acknowledge, AuthInv, ReadyInv, zap
<1>2. caller \in {"waiting", "terminating"}
  BY <1>1 DEF AuthInv, PipeInv, Running
<1>3. CASE caller = "waiting"
  <2>1. pending \in Calls /\ toServer = <<pending>>
    BY <1>1, <1>3 DEF AuthInv, PipeInv, PendingInv, Running
  <2>2. toCaller = <<>> /\ ~terminated
    BY <1>1, <1>3 DEF AuthInv, PipeInv, Running
  <2>3. toServer' = <<>> /\ toCaller' = <<"ok">> /\ ~terminated' /\ effective'
    BY <1>1, <2>1, <2>2, CallsGoOn, OneInThePipe
  <2>4. QED
    BY <1>1, <1>3, <2>3 DEF AuthInv, PipeInv, ReadyInv, MembersInv, PendingInv, Running
<1>4. CASE caller = "terminating"
  <2>1. toServer = <<Terminate>> /\ toCaller = <<>>
    BY <1>1, <1>4 DEF AuthInv, PipeInv, Running
  <2>2. toServer' = <<>> /\ toCaller' = <<"ok">> /\ terminated' /\ effective' = effective
    BY <1>1, <2>1, OneInThePipe
  <2>3. QED
    BY <1>1, <1>4, <2>2 DEF AuthInv, PipeInv, ReadyInv, MembersInv, PendingInv, Running
<1>5. QED BY <1>2, <1>3, <1>4

LEMMA InterruptAuthInv ==
  ASSUME AuthInv, Interrupt
  PROVE  AuthInv'
<1>1. CASE PollInterrupted
  BY <1>1, RoutineEndsAuthInv DEF PollInterrupted, LeaveLoop, tables, history
<1>2. CASE AuthenticateInterrupted
  BY <1>2, RoutineEndsAuthInv DEF AuthenticateInterrupted, tables, history
<1>3. CASE HandleInterrupted
  BY <1>3
  DEF HandleInterrupted, Turn, AuthInv, PipeInv, ReadyInv, MembersInv, PendingInv, Running, pipe, tables,
      zap, history
<1>4. QED BY <1>1, <1>2, <1>3 DEF Interrupt

-----------------------------------------------------------------------------
(* The caller gets a signal: while the routine runs it is the one it waits for,
   and behind the end of the routine there is nothing to keep. *)
LEMMA SignalAuthInv ==
  ASSUME AuthInv, CallerWaits
  PROVE  AuthInv'
<1>1. /\ UNCHANGED <<server, ready, terminated, endpoint>> /\ toCaller # <<>>
      /\ toCaller' = Tail(toCaller)
  BY DEF CallerWaits, Constructed, CallReturns, DestroyMembers, Stopped, SignalReceived,
         tables, zap
<1>2. ~members' => caller' \in {"stopping", "done", "threw"}
  BY DEF CallerWaits, Constructed, CallReturns, DestroyMembers, Stopped, AuthInv, MembersInv,
         tables
<1>3. MembersInv'
  BY <1>1, <1>2 DEF AuthInv, MembersInv, PendingInv, Running
<1>4. ReadyInv'
  BY <1>1
  DEF CallerWaits, Constructed, CallReturns, DestroyMembers, Stopped, AuthInv, ReadyInv
<1>5. PendingInv'
  BY DEF CallerWaits, Constructed, CallReturns, DestroyMembers, Stopped, AuthInv, PendingInv,
         history
<1>6. ASSUME Running
      PROVE  PipeInv'
  <2>1. caller # "stopping" /\ (caller \in {"constructing", "waiting", "terminating"} =>
          toCaller = <<"ok">> /\ toServer = <<>> /\ server # "starting")
    BY <1>1, <1>6 DEF AuthInv, PipeInv, Running
  <2>2. toCaller = <<"ok">> => Head(toCaller) = "ok" /\ toCaller' = <<>>
    BY <1>1
  <2>3. CASE Constructed
    BY <1>1, <1>6, <2>1, <2>2, <2>3 DEF Constructed, AuthInv, PipeInv, Running
  <2>4. CASE CallReturns
    BY <1>1, <1>6, <2>1, <2>2, <2>4 DEF CallReturns, AuthInv, PipeInv, Running
  <2>5. CASE DestroyMembers
    BY <1>1, <1>6, <2>1, <2>2, <2>5 DEF DestroyMembers, AuthInv, PipeInv, Running
  <2>6. QED BY <2>1, <2>3, <2>4, <2>5 DEF CallerWaits, Stopped
<1>7. ~Running => PipeInv'
  BY <1>1 DEF PipeInv, Running
<1>8. QED BY <1>3, <1>4, <1>5, <1>6, <1>7 DEF AuthInv

LEMMA CallAuthInv ==
  ASSUME AuthInv, Destroy \/ \E c \in Calls : Call(c)
  PROVE  AuthInv'
<1>1. ASSUME NEW c \in Calls, Call(c)
      PROVE  AuthInv'
  <2>1. /\ caller = "idle" /\ caller' = "waiting" /\ toServer' = Append(toServer, c)
        /\ UNCHANGED <<server, ready, toCaller, terminated, members, endpoint>>
        /\ pending' = c /\ effective' = FALSE
    BY <1>1 DEF Call, SendCommand, tables, zap
  <2>2. Running => toServer' = <<c>>
    BY <2>1, OneInThePipe DEF AuthInv, PipeInv
  <2>3. server # "serving" \/ toServer' # <<>>
    BY <2>2 DEF Running
  <2>4. QED
    BY <2>1, <2>2, <2>3 DEF AuthInv, PipeInv, ReadyInv, MembersInv, PendingInv, Running
<1>2. CASE Destroy
  <2>1. /\ caller = "idle" /\ caller' = "terminating"
        /\ toServer' = Append(toServer, Terminate)
        /\ UNCHANGED <<server, ready, toCaller, terminated, members, endpoint>>
        /\ UNCHANGED <<pending, effective>>
    BY <1>2 DEF Destroy, SendCommand, tables, zap, history
  <2>2. Running => toServer' = <<Terminate>>
    BY <2>1, OneInThePipe DEF AuthInv, PipeInv
  <2>3. server # "serving" \/ toServer' # <<>>
    BY <2>2 DEF Running
  <2>4. QED
    BY <2>1, <2>2, <2>3 DEF AuthInv, PipeInv, ReadyInv, MembersInv, PendingInv, Running
<1>3. QED BY <1>1, <1>2

LEMMA StepAuthInv == AuthInv /\ [Next]_vars => AuthInv'
<1> SUFFICES ASSUME AuthInv, [Next]_vars PROVE AuthInv' OBVIOUS
<1>1. ASSUME UNCHANGED <<caller, server, ready, pipe, tables, endpoint, history>>
      PROVE  AuthInv'
  BY <1>1 DEF AuthInv, PipeInv, ReadyInv, MembersInv, PendingInv, Running, pipe, tables, history
<1>2. CASE UNCHANGED vars \/ Over
  BY <1>1, <1>2 DEF Over, vars, zap
<1>3. CASE \E p \in Peers, r \in Requests : Ask(p, r)
  BY <1>1, <1>3 DEF Ask
<1>4. CASE ServerStep
  BY <1>4, ServerAuthInv, AuthenticateAuthInv, CommandAuthInv DEF ServerStep
<1>5. CASE Interrupt BY <1>5, InterruptAuthInv
<1>6. CASE CallerWaits BY <1>6, SignalAuthInv
<1>7. CASE Destroy \/ \E c \in Calls : Call(c) BY <1>7, CallAuthInv
<1>8. QED BY <1>2, <1>3, <1>4, <1>5, <1>6, <1>7 DEF Next

-----------------------------------------------------------------------------
(* The poller and the policy are there whenever the server thread looks at
   them, for any calls and requests (auth.cpp:57-64, 74-79). *)
THEOREM MembersAreThere == Spec => []MembersOutliveUse
<1>1. AuthInv => MembersOutliveUse
  BY DEF AuthInv, PipeInv, MembersInv, PendingInv, Running, MembersOutliveUse
<1>2. QED BY <1>1, InitAuthInv, StepAuthInv, PTL DEF Spec

(* Destructor and failed constructor leave the ZAP endpoint to others
   (auth.cpp:47-52, 65, 74-79). *)
THEOREM EndpointIsFree == Spec => []EndpointGivenBack
<1>1. AuthInv => EndpointGivenBack
  BY DEF AuthInv, PipeInv, MembersInv, PendingInv, Running, EndpointGivenBack
<1>2. QED BY <1>1, InitAuthInv, StepAuthInv, PTL DEF Spec

-----------------------------------------------------------------------------
(* The tables against the rules of AccessGate, which speak of the calls made. *)

LEMMA AppendCall ==
  ASSUME NEW s \in Seq(Calls), NEW c \in Calls
  PROVE  /\ Append(s, c) \in Seq(Calls)
         /\ DOMAIN s = 1..Len(s) /\ Len(s) \in Nat
         /\ DOMAIN Append(s, c) = 1..(Len(s) + 1)
         /\ \A k \in DOMAIN s : Append(s, c)[k] = s[k]
         /\ Append(s, c)[Len(s) + 1] = c
OBVIOUS

LEMMA MadeAppend ==
  ASSUME NEW s \in Seq(Calls), NEW c \in Calls, NEW n
  PROVE  Gate!Made(Append(s, c), n) =
           Gate!Made(s, n) \cup (IF c.name = n THEN {Len(s) + 1} ELSE {})
BY AppendCall DEF Gate!Made

LEMMA ArgsAppend ==
  ASSUME NEW s \in Seq(Calls), NEW c \in Calls, NEW n
  PROVE  Gate!Args(Append(s, c), n) =
           Gate!Args(s, n) \cup (IF c.name = n THEN {c.arg} ELSE {})
<1>1. \A k \in Gate!Made(s, n) : k \in DOMAIN s
  BY DEF Gate!Made
<1>2. QED BY <1>1, AppendCall, MadeAppend DEF Gate!Args

(* A password counts if it did, or if it is the first one of its user. *)
LEMMA PasswordAppend ==
  ASSUME NEW s \in Seq(Calls), NEW c \in Calls, NEW u, NEW w
  PROVE  Gate!PasswordOf(Append(s, c), u, w) <=>
           \/ Gate!PasswordOf(s, u, w)
           \/ /\ c.name = "PLAIN" /\ c.arg = u /\ c.secret = w
              /\ u \notin Gate!Args(s, "PLAIN")
<1> DEFINE t == Append(s, c)
<1>1. /\ \A k \in Gate!Made(s, "PLAIN") : k \in 1..Len(s) /\ t[k] = s[k]
      /\ t[Len(s) + 1] = c /\ Len(s) \in Nat
  BY AppendCall DEF Gate!Made
<1>2. Gate!Made(t, "PLAIN") =
        Gate!Made(s, "PLAIN") \cup (IF c.name = "PLAIN" THEN {Len(s) + 1} ELSE {})
  BY MadeAppend
<1>3. u \in Gate!Args(s, "PLAIN") <=> \E k \in Gate!Made(s, "PLAIN") : s[k].arg = u
  BY DEF Gate!Args
<1> HIDE DEF t
<1>4. Gate!PasswordOf(t, u, w) <=>
        \E k \in Gate!Made(t, "PLAIN") :
          /\ t[k].arg = u /\ t[k].secret = w
          /\ \A j \in Gate!Made(t, "PLAIN") : j < k => t[j].arg # u
  BY DEF Gate!PasswordOf
<1>5. Gate!PasswordOf(s, u, w) <=>
        \E k \in Gate!Made(s, "PLAIN") :
          /\ s[k].arg = u /\ s[k].secret = w
          /\ \A j \in Gate!Made(s, "PLAIN") : j < k => s[j].arg # u
  BY DEF Gate!PasswordOf
<1>6. QED BY <1>1, <1>2, <1>3, <1>4, <1>5 DEF t

(* The last call for CURVE decides whether any key passes. *)
AnyKey(s) ==
  \E k \in Gate!Made(s, "CURVE") :
    /\ s[k].arg = "CURVE_ALLOW_ANY"
    /\ \A j \in Gate!Made(s, "CURVE") : j <= k

LEMMA AnyKeyAppend ==
  ASSUME NEW s \in Seq(Calls), NEW c \in Calls
  PROVE  AnyKey(Append(s, c)) <=>
           IF c.name = "CURVE" THEN c.arg = "CURVE_ALLOW_ANY" ELSE AnyKey(s)
<1>1. /\ \A k \in Gate!Made(s, "CURVE") : k \in 1..Len(s) /\ Append(s, c)[k] = s[k]
      /\ Append(s, c)[Len(s) + 1] = c /\ Len(s) \in Nat
  BY AppendCall DEF Gate!Made
<1>2. Gate!Made(Append(s, c), "CURVE") =
        Gate!Made(s, "CURVE") \cup (IF c.name = "CURVE" THEN {Len(s) + 1} ELSE {})
  BY MadeAppend
<1>3. CASE c.name = "CURVE"
  BY <1>1, <1>2, <1>3 DEF AnyKey
<1>4. CASE c.name # "CURVE"
  BY <1>1, <1>2, <1>4 DEF AnyKey
<1>5. QED BY <1>3, <1>4

Policies ==
  [whitelist : SUBSET STRING, blacklist : SUBSET STRING,
   passwords : SUBSET [user : STRING, secret : STRING], client_keys : SUBSET STRING,
   curve_allow_any : BOOLEAN, domain : STRING \cup {""}, verbose : BOOLEAN]

(* The tables p are those that the calls s make.  That a user has a password
   at all is said apart, as insert asks for it. *)
ListsAgree(p, s) ==
  p.whitelist = Gate!Args(s, "ALLOW") /\ p.blacklist = Gate!Args(s, "DENY")

PasswordsAgree(p, s) ==
  /\ \A u, w \in STRING :
       [user |-> u, secret |-> w] \in p.passwords <=> Gate!PasswordOf(s, u, w)
  /\ \A u \in STRING : (\E e \in p.passwords : e.user = u) <=> u \in Gate!Args(s, "PLAIN")

KeysAgree(p, s) ==
  /\ p.client_keys = Gate!Args(s, "CURVE") \ {"CURVE_ALLOW_ANY"}
  /\ p.curve_allow_any <=> AnyKey(s)

Agrees(p, s) == ListsAgree(p, s) /\ PasswordsAgree(p, s) /\ KeysAgree(p, s)

LEMMA CallTypes ==
  ASSUME NEW c \in Calls
  PROVE  /\ c.name \in {"ALLOW", "DENY", "DOMAIN", "PLAIN", "CURVE", "GSSAPI", "VERBOSE"}
         /\ c.arg \in STRING /\ c.secret \in STRING
BY AuthAssumption DEF AuthAssumption

(* insert, for the tables of passwords alone *)
LEMMA InsertAgrees ==
  ASSUME NEW p \in Policies, NEW s \in Seq(Calls), NEW c \in Calls, c.name = "PLAIN",
         PasswordsAgree(p, s), NEW q \in Policies,
         q.passwords = AddPassword(p.passwords, c.arg, c.secret)
  PROVE  PasswordsAgree(q, Append(s, c))
<1>1. c.arg \in STRING /\ c.secret \in STRING
  BY CallTypes
<1>2. Gate!Args(Append(s, c), "PLAIN") = Gate!Args(s, "PLAIN") \cup {c.arg}
  BY ArgsAppend
<1>3. ASSUME NEW u \in STRING, NEW w \in STRING
      PROVE  Gate!PasswordOf(Append(s, c), u, w) <=>
               \/ Gate!PasswordOf(s, u, w)
               \/ c.arg = u /\ c.secret = w /\ u \notin Gate!Args(s, "PLAIN")
  BY PasswordAppend
<1>4. CASE c.arg \in Gate!Args(s, "PLAIN")
  <2>1. q.passwords = p.passwords
    BY <1>1, <1>4 DEF PasswordsAgree, AddPassword
  <2>2. QED BY <1>2, <1>3, <1>4, <2>1 DEF PasswordsAgree
<1>5. CASE c.arg \notin Gate!Args(s, "PLAIN")
  <2>1. q.passwords = p.passwords \cup {[user |-> c.arg, secret |-> c.secret]}
    BY <1>1, <1>5 DEF PasswordsAgree, AddPassword
  <2>2. ASSUME NEW u \in STRING, NEW w \in STRING
        PROVE  [user |-> u, secret |-> w] \in q.passwords <=>
                 [user |-> u, secret |-> w] \in p.passwords \/ (u = c.arg /\ w = c.secret)
    BY <2>1
  <2>3. ASSUME NEW u \in STRING
        PROVE  (\E e \in q.passwords : e.user = u) <=>
                 (\E e \in p.passwords : e.user = u) \/ u = c.arg
    <3> DEFINE new == [user |-> c.arg, secret |-> c.secret]
    <3>1. new.user = c.arg OBVIOUS
    <3>2. q.passwords = p.passwords \cup {new} BY <2>1
    <3> HIDE DEF new
    <3>3. QED BY <3>1, <3>2
  <2>4. QED BY <1>2, <1>3, <1>5, <2>2, <2>3 DEF PasswordsAgree
<1>6. QED BY <1>4, <1>5

LEMMA OtherPasswordsAgree ==
  ASSUME NEW p, NEW s \in Seq(Calls), NEW c \in Calls, c.name # "PLAIN",
         PasswordsAgree(p, s), NEW q, q.passwords = p.passwords
  PROVE  PasswordsAgree(q, Append(s, c))
<1>1. Gate!Args(Append(s, c), "PLAIN") = Gate!Args(s, "PLAIN")
  <2>1. Gate!Args(Append(s, c), "PLAIN") =
          Gate!Args(s, "PLAIN") \cup (IF c.name = "PLAIN" THEN {c.arg} ELSE {})
    BY ArgsAppend
  <2>2. QED BY <2>1
<1>2. QED BY <1>1, PasswordAppend DEF PasswordsAgree

(* Every command keeps tables and calls in agreement. *)
LEMMA ApplyAgrees ==
  ASSUME NEW p \in Policies, NEW s \in Seq(Calls), NEW c \in Calls, Agrees(p, s)
  PROVE  Apply(p, c) \in Policies /\ Agrees(Apply(p, c), Append(s, c))
<1> DEFINE q == Apply(p, c)
<1>1. q \in Policies
  <2>1. AddPassword(p.passwords, c.arg, c.secret) \in SUBSET [user : STRING, secret : STRING]
    <3>1. p.passwords \in SUBSET [user : STRING, secret : STRING] BY Zenon DEF Policies
    <3>2. [user |-> c.arg, secret |-> c.secret] \in [user : STRING, secret : STRING]
      BY CallTypes
    <3>3. QED BY <3>1, <3>2 DEF AddPassword
  <2>2. CASE c.name \in {"ALLOW", "DENY"} BY <2>2, CallTypes DEF Apply, Policies
  <2>3. CASE c.name \in {"DOMAIN", "VERBOSE"} BY <2>3, CallTypes DEF Apply, Policies
  <2>4. CASE c.name = "PLAIN" BY <2>1, <2>4 DEF Apply, Policies
  <2>5. CASE c.name = "CURVE" BY <2>5, CallTypes DEF Apply, Policies
  <2>6. CASE c.name = "GSSAPI" BY <2>6 DEF Apply, Policies
  <2>7. QED BY <2>2, <2>3, <2>4, <2>5, <2>6, CallTypes
<1>2. ListsAgree(q, Append(s, c))
  <2>1. /\ q.whitelist = p.whitelist \cup (IF c.name = "ALLOW" THEN {c.arg} ELSE {})
        /\ q.blacklist = p.blacklist \cup (IF c.name = "DENY" THEN {c.arg} ELSE {})
    BY CallTypes DEF Apply, Policies
  <2>2. QED BY <2>1, ArgsAppend DEF Agrees, ListsAgree
<1>3. PasswordsAgree(q, Append(s, c))
  <2>1. c.name = "PLAIN" => q.passwords = AddPassword(p.passwords, c.arg, c.secret)
    BY DEF Apply, Policies
  <2>2. c.name # "PLAIN" => q.passwords = p.passwords
    BY CallTypes DEF Apply, Policies
  <2>3. QED BY <1>1, <2>1, <2>2, InsertAgrees, OtherPasswordsAgree DEF Agrees
<1>4. KeysAgree(q, Append(s, c))
  <2>1. CASE c.name = "CURVE"
    <3>1. q.client_keys = (p.client_keys \cup {c.arg}) \ {"CURVE_ALLOW_ANY"}
      BY <2>1 DEF Apply, Policies, Agrees, KeysAgree
    <3>2. q.curve_allow_any <=> c.arg = "CURVE_ALLOW_ANY"
      BY <2>1 DEF Apply, Policies
    <3>3. QED BY <2>1, <3>1, <3>2, ArgsAppend, AnyKeyAppend DEF Agrees, KeysAgree
  <2>2. CASE c.name # "CURVE"
    <3>1. q.client_keys = p.client_keys /\ q.curve_allow_any = p.curve_allow_any
      BY <2>2, CallTypes DEF Apply, Policies
    <3>2. QED BY <2>2, <3>1, ArgsAppend, AnyKeyAppend DEF Agrees, KeysAgree
  <2>3. QED BY <2>1, <2>2
<1>5. QED BY <1>1, <1>2, <1>3, <1>4 DEF Agrees

(* Tables that agree with the calls decide as the rules do. *)
LEMMA ReplyAgrees ==
  ASSUME NEW p \in Policies, NEW s \in Seq(Calls), NEW r \in Requests, Agrees(p, s)
  PROVE  ZapReply(p, r) = Gate!Reply(s, r)
<1>1. /\ r.mechanism \in {"NULL", "PLAIN", "CURVE", "GSSAPI"}
      /\ r.id \in STRING /\ r.secret \in STRING
  BY AuthAssumption DEF AuthAssumption
<1>2. Denied(p, r) <=> ~Gate!AddressPasses(s, r.address)
  <2>1. Gate!Args(s, "ALLOW") = {} <=> Gate!Made(s, "ALLOW") = {}
    BY DEF Gate!Args
  <2>2. QED BY <2>1 DEF Denied, Gate!AddressPasses, Agrees, ListsAgree
<1>3. AuthenticatePlain(p, r) <=> Gate!PasswordOf(s, r.id, r.secret)
  BY <1>1 DEF AuthenticatePlain, Agrees, PasswordsAgree
<1>4. AuthenticateCurve(p, r) <=> Gate!KeyPasses(s, r.id)
  BY DEF AuthenticateCurve, Gate!KeyPasses, Agrees, KeysAgree, AnyKey
<1>5. Allowed(p, r) <=> Gate!Accepted(s, r)
  BY <1>1, <1>2, <1>3, <1>4 DEF Allowed, Gate!Accepted
<1>6. QED BY <1>5 DEF ZapReply, Gate!Reply, Gate!UserOf

-----------------------------------------------------------------------------
(* Auth implements AccessGate. *)

TablesInv ==
  /\ policy \in Policies /\ calls \in Seq(Calls) /\ Agrees(policy, calls)
  /\ asked \in [Peers -> Requests \cup {None}]

(* A routine that has ended, and not by a signal, has no call to answer. *)
ReturnInv ==
  ~Running /\ ~interrupted =>
    /\ caller \notin {"idle", "waiting"}
    /\ caller = "constructing" =>
         /\ result # "true" /\ toCaller \in {<<>>, <<"ko">>}
         /\ server = "ended" => toCaller = <<>>

LEMMA InitTablesInv == Init => TablesInv
<1> SUFFICES ASSUME Init PROVE TablesInv OBVIOUS
<1>0. calls = <<>> BY Zenon DEF Init
<1>1. /\ policy \in Policies /\ calls \in Seq(Calls)
      /\ asked \in [Peers -> Requests \cup {None}]
  <2>1. policy \in Policies
    <3>1. policy = [whitelist |-> {}, blacklist |-> {}, passwords |-> {}, client_keys |-> {},
                    curve_allow_any |-> FALSE, domain |-> "", verbose |-> FALSE]
      BY Zenon DEF Init
    <3> DEFINE nothing == {}
    <3>2. /\ nothing \in SUBSET STRING /\ nothing \in SUBSET [user : STRING, secret : STRING]
          /\ FALSE \in BOOLEAN
      OBVIOUS
    <3>3. policy = [whitelist |-> nothing, blacklist |-> nothing, passwords |-> nothing,
                    client_keys |-> nothing, curve_allow_any |-> FALSE, domain |-> "",
                    verbose |-> FALSE]
      BY <3>1
    <3> HIDE DEF nothing
    <3>4. QED BY <3>2, <3>3, Zenon DEF Policies
  <2>2. calls \in Seq(Calls) BY <1>0
  <2>3. asked \in [Peers -> Requests \cup {None}] BY DEF Init
  <2>4. QED BY <2>1, <2>2, <2>3
<1>2. \A n : Gate!Made(calls, n) = {} /\ Gate!Args(calls, n) = {}
  <2>1. DOMAIN calls = {} BY <1>0
  <2>2. \A n : Gate!Made(calls, n) = {} BY <2>1 DEF Gate!Made
  <2>3. QED BY <2>2 DEF Gate!Args
<1>3. Agrees(policy, calls)
  BY <1>2
  DEF Init, Agrees, ListsAgree, PasswordsAgree, KeysAgree, AnyKey, Gate!PasswordOf
<1>4. QED BY <1>1, <1>3 DEF TablesInv

(* The commands of calls are the only ones that change the tables. *)
LEMMA StepTablesInv ==
  ASSUME AuthInv, TablesInv, [Next]_vars
  PROVE  TablesInv'
<1>1. CASE UNCHANGED <<policy, calls, asked>>
  BY <1>1 DEF TablesInv
<1>2. CASE HandleCommand
  <2>1. caller \in {"waiting", "terminating"} /\ server = "serving" /\ toServer # <<>>
    BY <1>2 DEF HandleCommand, AuthInv, PipeInv, ReadyInv, Running
  <2>2. Head(toServer) \in Calls \cup {Terminate}
    BY <2>1, OneInThePipe DEF AuthInv, PipeInv, PendingInv, Running
  <2>3. asked' = asked /\ policy' = Apply(policy, Head(toServer))
    BY <1>2 DEF HandleCommand, Carry, zap
  <2>4. CASE Head(toServer) = Terminate
    <3>1. calls' = calls
      BY <1>2, <2>4 DEF HandleCommand, Carry
    <3>2. Terminate.name = "TERMINATE"
      BY DEF Terminate
    <3>3. policy' = policy
      BY <2>3, <2>4, <3>2 DEF Apply
    <3>4. QED BY <2>3, <3>1, <3>3 DEF TablesInv
  <2>5. CASE Head(toServer) \in Calls
    <3>1. calls' = Append(calls, Head(toServer))
      BY <1>2, <2>5, CallsGoOn DEF HandleCommand, Carry
    <3>2. QED BY <2>3, <2>5, <3>1, ApplyAgrees, AppendCall DEF TablesInv
  <2>6. QED BY <2>2, <2>4, <2>5
<1>3. ASSUME NEW p \in Peers, NEW r \in Requests, Ask(p, r)
      PROVE  TablesInv'
  BY <1>3 DEF Ask, TablesInv, tables, history
<1>4. CASE ~HandleCommand /\ ~\E p \in Peers, r \in Requests : Ask(p, r)
  <2>1. UNCHANGED <<policy, calls, asked>>
    BY <1>4
    DEF Next, ServerStep, BindEndpoint, BindFails, Poll, Terminated, LeaveLoop, Authenticate,
        ServerAnswers, ServerCloses, Interrupt, PollInterrupted, AuthenticateInterrupted,
        HandleInterrupted, CallerWaits, Constructed, CallReturns, DestroyMembers, Stopped,
        Over, Call, Destroy, SendCommand, tables, zap, history, vars
  <2>2. QED BY <1>1, <2>1
<1>5. QED BY <1>2, <1>3, <1>4

LEMMA StepReturnInv ==
  ASSUME AuthInv, ReturnInv, [Next]_vars
  PROVE  ReturnInv'
<1>1. CASE Running' \/ interrupted'
  BY <1>1 DEF ReturnInv
<1>2. CASE UNCHANGED <<caller, server, toCaller, result, interrupted>>
  BY <1>2 DEF ReturnInv, Running
<1>3. CASE BindFails
  BY <1>3 DEF BindFails, AuthInv, PipeInv, ReturnInv, Running, pipe
<1>4. CASE Terminated
  BY <1>4 DEF Terminated, LeaveLoop, AuthInv, PipeInv, ReturnInv, Running
<1>5. CASE ServerAnswers
  <2>1. toCaller = <<>> /\ result # "true" => toCaller' = <<"ko">>
    BY <1>5, OneInThePipe DEF ServerAnswers
  <2>2. QED BY <1>5, <2>1 DEF ServerAnswers, ReturnInv, Running
<1>6. CASE ServerCloses
  BY <1>6 DEF ServerCloses, ReturnInv, Running
<1>7. CASE ~Running /\ ~interrupted /\ CallerWaits
  <2>1. Constructed => Head(toCaller) = "ko"
    BY <1>7, OneInThePipe DEF Constructed, SignalReceived, ReturnInv
  <2>2. server' = server /\ caller' \notin {"idle", "waiting", "constructing"}
    BY <1>7, <2>1
    DEF CallerWaits, Constructed, CallReturns, DestroyMembers, Stopped, ReturnInv
  <2>3. QED BY <2>2 DEF ReturnInv
<1>8. CASE ~Running /\ ~interrupted /\ (Destroy \/ \E c \in Calls : Call(c))
  BY <1>8 DEF Destroy, Call, ReturnInv
<1>9. QED
  <2>1. CASE UNCHANGED vars \/ Over \/ \E p \in Peers, r \in Requests : Ask(p, r)
    BY <1>2, <2>1 DEF Over, Ask, vars, pipe
  <2>2. CASE BindEndpoint \/ Poll \/ HandleCommand \/ Interrupt \/ \E p \in Peers : Authenticate(p)
    BY <1>1, <2>2
    DEF BindEndpoint, Poll, HandleCommand, Interrupt, PollInterrupted, HandleInterrupted,
        AuthenticateInterrupted, Authenticate, Turn, Running
  <2>3. CASE CallerWaits \/ Destroy \/ \E c \in Calls : Call(c)
    <3>1. server' = server /\ interrupted' = interrupted
      BY <2>3
      DEF CallerWaits, Constructed, CallReturns, DestroyMembers, Stopped, Destroy, Call,
          SendCommand
    <3>2. QED BY <1>1, <1>7, <1>8, <2>3, <3>1 DEF Running
  <2>4. QED BY <1>3, <1>4, <1>5, <1>6, <2>1, <2>2, <2>3 DEF Next, ServerStep

-----------------------------------------------------------------------------
(* Every step is one of AccessGate, or none. *)
MapInv == AuthInv /\ TablesInv /\ ReturnInv

LEMMA InitMaps == Init => Gate!Init /\ MapInv
<1> SUFFICES ASSUME Init PROVE Gate!Init /\ MapInv OBVIOUS
<1>1. Gate!Init BY DEF Init, Gate!Init
<1>2. ReturnInv BY DEF Init, ReturnInv, Running
<1>3. QED BY <1>1, <1>2, InitAuthInv, InitTablesInv DEF MapInv

LEMMA StepMapInv == MapInv /\ [Next]_vars => MapInv'
BY StepAuthInv, StepTablesInv, StepReturnInv DEF MapInv

(* The command of a call takes effect; the last one is not a call. *)
LEMMA CommandMaps ==
  ASSUME MapInv, HandleCommand
  PROVE  Gate!TakesEffect \/ UNCHANGED Gate!vars
<1>1. server = "serving" /\ toServer # <<>>
  BY DEF HandleCommand, MapInv, AuthInv, ReadyInv
<1>2. UNCHANGED <<asked, answer, interrupted, pending>>
  BY DEF HandleCommand, Carry, zap
<1>3. caller \in {"waiting", "terminating"}
  BY <1>1 DEF MapInv, AuthInv, PipeInv, Running
<1>4. CASE caller = "waiting"
  <2>1. pending \in Calls /\ ~effective /\ Head(toServer) = pending
    BY <1>1, <1>4, OneInThePipe DEF MapInv, AuthInv, PipeInv, PendingInv, Running
  <2>2. calls' = Append(calls, pending) /\ effective' = TRUE
    BY <2>1, CallsGoOn DEF HandleCommand, Carry
  <2>3. pending # None
    BY <2>1, AuthAssumption DEF AuthAssumption
  <2>4. QED BY <1>2, <2>1, <2>2, <2>3 DEF Gate!TakesEffect
<1>5. CASE caller = "terminating"
  <2>1. Head(toServer) = Terminate
    BY <1>1, <1>5, OneInThePipe DEF MapInv, AuthInv, PipeInv, Running
  <2>2. UNCHANGED <<calls, effective>>
    BY <2>1 DEF HandleCommand, Carry
  <2>3. QED BY <1>2, <2>2 DEF Gate!vars
<1>6. QED BY <1>3, <1>4, <1>5

(* A reply is the one the calls in force ask for. *)
LEMMA AuthenticateMaps ==
  ASSUME MapInv, NEW p \in Peers, Authenticate(p)
  PROVE  Gate!Decide(p)
<1>1. asked[p] \in Requests
  BY DEF Authenticate, Waiting, MapInv, TablesInv
<1>2. ZapReply(policy, asked[p]) = Gate!Reply(calls, asked[p])
  BY <1>1, ReplyAgrees DEF MapInv, TablesInv
<1>3. QED BY <1>2 DEF Authenticate, Waiting, Gate!Decide, history

(* A call returns when its command is in force, or after a signal. *)
LEMMA ReturnMaps ==
  ASSUME MapInv, CallReturns
  PROVE  Gate!Return
<1>1. pending # None
  BY AuthAssumption DEF CallReturns, MapInv, AuthInv, PendingInv, AuthAssumption
<1>2. CASE Running
  <2>1. effective
    BY <1>2 DEF CallReturns, SignalReceived, MapInv, AuthInv, PipeInv
  <2>2. QED BY <1>1, <2>1 DEF CallReturns, Gate!Return, zap
<1>3. CASE ~Running
  <2>1. interrupted
    BY <1>3 DEF CallReturns, MapInv, ReturnInv
  <2>2. QED BY <1>1, <2>1 DEF CallReturns, Gate!Return, zap
<1>4. QED BY <1>2, <1>3

LEMMA StepMaps == MapInv /\ [Next]_vars => [Gate!Next]_(Gate!vars)
<1> SUFFICES ASSUME MapInv, [Next]_vars PROVE [Gate!Next]_(Gate!vars) OBVIOUS
<1>1. CASE HandleCommand
  BY <1>1, CommandMaps DEF Gate!Next
<1>2. ASSUME NEW p \in Peers, Authenticate(p) PROVE Gate!Next
  BY <1>2, AuthenticateMaps DEF Gate!Next
<1>3. CASE CallReturns
  BY <1>3, ReturnMaps DEF Gate!Next
<1>4. ASSUME NEW c \in Calls, Call(c) PROVE Gate!Next
  <2>1. pending = None
    BY <1>4 DEF Call, MapInv, AuthInv, PendingInv
  <2>2. Gate!Begin(c)
    BY <1>4, <2>1 DEF Call, SendCommand, Gate!Begin, zap
  <2>3. QED BY <2>2 DEF Gate!Next
<1>5. ASSUME NEW p \in Peers, NEW r \in Requests, Ask(p, r) PROVE Gate!Next
  <2>1. Gate!Ask(p, r)
    BY <1>5 DEF Ask, Gate!Ask, history
  <2>2. QED BY <2>1 DEF Gate!Next
<1>6. CASE PollInterrupted \/ AuthenticateInterrupted
  <2>1. Gate!Interrupt
    BY <1>6
    DEF PollInterrupted, AuthenticateInterrupted, LeaveLoop, Gate!Interrupt, tables, history
  <2>2. QED BY <2>1 DEF Gate!Next
<1>7. CASE BindEndpoint \/ BindFails \/ Poll \/ Terminated \/ ServerAnswers \/ ServerCloses
  BY <1>7
  DEF BindEndpoint, BindFails, Poll, Terminated, LeaveLoop, ServerAnswers, ServerCloses,
      Gate!vars, history, zap
<1>8. CASE HandleInterrupted \/ Constructed \/ DestroyMembers \/ Stopped \/ Destroy
  BY <1>8
  DEF HandleInterrupted, Constructed, DestroyMembers, Stopped, Destroy, SendCommand,
      Gate!vars, history, zap
<1>9. CASE Over \/ UNCHANGED vars
  BY <1>9 DEF Over, vars, Gate!vars, history, zap
<1>10. QED
  BY <1>1, <1>2, <1>3, <1>4, <1>5, <1>6, <1>7, <1>8, <1>9
  DEF Next, ServerStep, Interrupt, CallerWaits

(* For any calls, requests and peers, in any order and on any thread: acks,
   returns and replies are those of AccessGate (auth.cpp:81-155, 253-380). *)
THEOREM AuthImplementsGate == Spec => ImplementsGate
<1>1. Init => Gate!Init /\ MapInv BY InitMaps
<1>2. MapInv /\ [Next]_vars => MapInv' BY StepMapInv
<1>3. MapInv /\ [Next]_vars => [Gate!Next]_(Gate!vars) BY StepMaps
<1>4. QED BY <1>1, <1>2, <1>3, PTL DEF Spec, ImplementsGate, Gate!Spec

-----------------------------------------------------------------------------
(* The end of the caller's waits. *)

(* What the last poll() said is not served yet and still there. *)
ServeInv ==
  /\ serverOpen <=> server # "gone"
  /\ server = "serving" =>
       /\ ready \subseteq {"zap", "pipe"} /\ ready # {}
       /\ "zap" \in ready => \E p \in Peers : Waiting(p)

(* A routine that has ended, and not by a signal, has been told to, or has not
   got the endpoint: its answer comes behind the one for TERMINATE. *)
LastInv ==
  ~Running /\ ~interrupted =>
    /\ server = "ended" =>
         \/ caller = "terminating" /\ toCaller = <<"ok">>
         \/ caller \in {"constructing", "stopping"} /\ toCaller = <<>>
    /\ server # "ended" =>
         \/ caller = "terminating" /\ toCaller # <<>> /\ Tail(toCaller) # <<>>
         \/ caller \in {"constructing", "stopping"} /\ toCaller # <<>>
         \/ caller \in {"done", "threw"}

(* Two signals in the pipe *)
LEMMA TwoInThePipe ==
  ASSUME NEW x, NEW y
  PROVE  LET s == Append(<<x>>, y) IN s # <<>> /\ Tail(s) # <<>>
OBVIOUS

(* A step of the server or the end of a poll *)
LEMMA ServeKeeps ==
  ASSUME AuthInv, TablesInv, ServeInv, [Next]_vars
  PROVE  ServeInv'
<1>1. ASSUME UNCHANGED <<server, ready, serverOpen, asked, answer>>
      PROVE  ServeInv'
  BY <1>1 DEF ServeInv, Waiting
<1>2. CASE CallerWaits \/ Destroy \/ \E c \in Calls : Call(c)
  BY <1>1, <1>2
  DEF CallerWaits, Constructed, CallReturns, DestroyMembers, Stopped, Destroy, Call, SendCommand,
      zap
<1>3. CASE Poll
  <2>1. /\ server' = "serving" /\ server = "polling"
        /\ UNCHANGED <<serverOpen, asked, answer>>
        /\ ready' = (IF \E p \in Peers : Waiting(p) THEN {"zap"} ELSE {})
                      \cup (IF toServer # <<>> THEN {"pipe"} ELSE {})
        /\ ready' # {}
    BY <1>3 DEF Poll, pipe, zap
  <2>2. ready' \subseteq {"zap", "pipe"} /\ ("zap" \in ready' => \E p \in Peers : Waiting(p))
    BY <2>1
  <2> QED BY <2>1, <2>2 DEF ServeInv, Waiting
<1>4. ASSUME NEW p \in Peers, Authenticate(p)
      PROVE  ServeInv'
  <2>1. /\ server = "serving" /\ serverOpen' = serverOpen
        /\ ready' = ready \ {"zap"}
        /\ server' = IF ready' = {} THEN "polling" ELSE "serving"
    BY <1>4 DEF Authenticate, Turn, pipe
  <2> QED BY <2>1 DEF ServeInv
<1>5. CASE HandleCommand \/ HandleInterrupted
  BY <1>5 DEF HandleCommand, HandleInterrupted, Turn, pipe, ServeInv
<1>6. ASSUME NEW p \in Peers, NEW r \in Requests, Ask(p, r)
      PROVE  ServeInv'
  <2>1. /\ asked[p] = None /\ asked' = [asked EXCEPT ![p] = r] /\ answer' = answer
        /\ UNCHANGED <<server, ready, serverOpen>>
    BY <1>6 DEF Ask, pipe
  <2>2. ASSUME NEW q \in Peers, Waiting(q)
        PROVE  Waiting(q)'
    <3>1. asked \in [Peers -> Requests \cup {None}] /\ q # p
      BY <2>1, <2>2 DEF TablesInv, Waiting
    <3>2. asked'[q] = asked[q]
      BY <2>1, <3>1
    <3> QED BY <2>1, <2>2, <3>2 DEF Waiting
  <2> QED BY <2>1, <2>2 DEF ServeInv
<1>7. CASE BindEndpoint \/ BindFails \/ Terminated \/ PollInterrupted \/ AuthenticateInterrupted
           \/ ServerAnswers \/ ServerCloses
  BY <1>7
  DEF BindEndpoint, BindFails, Terminated, LeaveLoop, PollInterrupted, AuthenticateInterrupted,
      ServerAnswers, ServerCloses, pipe, ServeInv
<1>8. CASE Over \/ UNCHANGED vars
  BY <1>1, <1>8 DEF Over, vars, pipe, zap
<1>9. QED
  BY <1>2, <1>3, <1>4, <1>5, <1>6, <1>7, <1>8 DEF Next, ServerStep, Interrupt

(* The answer of the routine is not taken before the one for TERMINATE. *)
LEMMA LastKeeps ==
  ASSUME AuthInv, ReturnInv, LastInv, [Next]_vars
  PROVE  LastInv'
<1>1. CASE Running' \/ interrupted'
  BY <1>1 DEF LastInv
<1>2. CASE UNCHANGED <<caller, server, toCaller, interrupted>>
  BY <1>2 DEF LastInv, Running
<1>3. CASE BindFails
  BY <1>3 DEF BindFails, pipe, AuthInv, PipeInv, LastInv, Running
<1>4. CASE Terminated
  BY <1>4 DEF Terminated, LeaveLoop, pipe, AuthInv, PipeInv, LastInv, Running
<1>5. CASE ServerAnswers /\ ~interrupted
  <2>1. /\ server = "ended" /\ server' = "closing" /\ caller' = caller
        /\ \E s : toCaller' = Append(toCaller, s)
    BY <1>5 DEF ServerAnswers
  <2>2. CASE caller = "terminating"
    <3>1. toCaller = <<"ok">>
      BY <1>5, <2>1, <2>2 DEF LastInv, Running
    <3>2. toCaller' # <<>> /\ Tail(toCaller') # <<>>
      BY <2>1, <3>1, TwoInThePipe
    <3> QED BY <2>1, <2>2, <3>2 DEF LastInv
  <2>3. CASE caller \in {"constructing", "stopping"}
    <3>1. toCaller = <<>>
      BY <1>5, <2>1, <2>3 DEF LastInv, Running
    <3>2. toCaller' # <<>>
      BY <2>1, <3>1, OneInThePipe
    <3> QED BY <2>1, <2>3, <3>2 DEF LastInv
  <2> QED BY <1>5, <2>1, <2>2, <2>3 DEF LastInv, Running
<1>6. CASE ServerCloses
  BY <1>6 DEF ServerCloses, LastInv, Running
<1>7. CASE CallerWaits /\ ~Running /\ ~interrupted
  <2>1. /\ server' = server /\ interrupted' = interrupted /\ toCaller # <<>>
        /\ toCaller' = Tail(toCaller)
        /\ \/ caller = "constructing" /\ caller' \in {"idle", "threw"}
           \/ caller = "waiting" /\ caller' = "idle"
           \/ caller = "terminating" /\ caller' = "stopping"
           \/ caller = "stopping" /\ caller' = "done"
    BY <1>7
    DEF CallerWaits, Constructed, CallReturns, DestroyMembers, Stopped, SignalReceived
  <2>2. CASE server = "ended"
    <3>1. caller = "terminating" /\ toCaller = <<"ok">>
      BY <1>7, <2>1, <2>2 DEF LastInv
    <3> QED BY <2>1, <2>2, <3>1, OneInThePipe DEF LastInv
  <2>3. CASE server # "ended"
    <3>1. caller = "constructing" => caller' = "threw"
      BY <1>7, <2>1, OneInThePipe DEF CallerWaits, Constructed, CallReturns, DestroyMembers, Stopped, ReturnInv
    <3> QED BY <1>7, <2>1, <2>3, <3>1 DEF LastInv
  <2> QED BY <2>2, <2>3
<1>8. CASE ~Running /\ ~interrupted /\ (Destroy \/ \E c \in Calls : Call(c))
  BY <1>8 DEF Destroy, Call, ReturnInv
<1>9. QED
  <2>1. CASE UNCHANGED vars \/ Over \/ \E p \in Peers, r \in Requests : Ask(p, r)
    BY <1>2, <2>1 DEF Over, Ask, vars, pipe
  <2>2. CASE BindEndpoint \/ Poll \/ HandleCommand \/ Interrupt \/ \E p \in Peers : Authenticate(p)
    BY <1>1, <2>2
    DEF BindEndpoint, Poll, HandleCommand, Interrupt, PollInterrupted, HandleInterrupted,
        AuthenticateInterrupted, Authenticate, Turn, Running
  <2>3. CASE CallerWaits \/ Destroy \/ \E c \in Calls : Call(c)
    <3>1. server' = server /\ interrupted' = interrupted
      BY <2>3
      DEF CallerWaits, Constructed, CallReturns, DestroyMembers, Stopped, Destroy, Call,
          SendCommand
    <3>2. QED BY <1>1, <1>7, <1>8, <2>3, <3>1 DEF Running
  <2>4. CASE ServerAnswers
    BY <1>1, <1>5, <2>4 DEF ServerAnswers
  <2>5. QED BY <1>3, <1>4, <1>6, <2>1, <2>2, <2>3, <2>4 DEF Next, ServerStep

(* For any calls, requests and peers, a caller never waits for a server that
   waits itself, has gone, or has no answer for it, unless a signal has
   interrupted the server (auth.cpp:44-79, 150-153). *)
THEOREM NobodyWaits == Spec => []NobodyWaitsInVain
<1>1. Init => MapInv /\ ServeInv /\ LastInv
  BY InitMaps DEF Init, ServeInv, LastInv, Running
<1>2. MapInv /\ ServeInv /\ LastInv /\ [Next]_vars => MapInv' /\ ServeInv' /\ LastInv'
  BY StepMapInv, ServeKeeps, LastKeeps DEF MapInv
<1>3. MapInv /\ ServeInv /\ LastInv => NobodyWaitsInVain
  <2> SUFFICES ASSUME MapInv, ServeInv, LastInv, ~interrupted PROVE NobodyWaitsInVain
    BY DEF NobodyWaitsInVain
  <2>1. CASE ~Running
    BY <2>1 DEF LastInv, NobodyWaitsInVain, Running
  <2>2. CASE server = "serving"
    <3>1. serverOpen /\ (ready = {"pipe"} \/ ("zap" \in ready /\ \E p \in Peers : Waiting(p)))
      BY <2>2 DEF ServeInv
    <3> QED BY <2>2, <3>1 DEF NobodyWaitsInVain
  <2>3. CASE server = "polling"
    BY <2>3 DEF ServeInv, MapInv, AuthInv, PipeInv, Running, NobodyWaitsInVain
  <2>4. CASE server = "starting"
    BY <2>4 DEF MapInv, AuthInv, PipeInv, Running, NobodyWaitsInVain
  <2> QED BY <2>1, <2>2, <2>3, <2>4 DEF Running
<1>4. QED BY <1>1, <1>2, <1>3, PTL DEF Spec

-----------------------------------------------------------------------------
(* Type correctness, which needs what the pipe holds. *)
LEMMA InitTypeOK == Init => TypeOK
<1> SUFFICES ASSUME Init PROVE TypeOK OBVIOUS
<1>1. /\ toServer \in Seq(Calls \cup {Terminate, Stop}) /\ toCaller \in Seq({"ok", "ko"})
      /\ calls \in Seq(Calls)
  BY EmptySeq DEF Init
<1>2. asked \in [Peers -> Requests \cup {None}] /\ made \in 0..MaxCalls
  <2>1. made = 0 /\ asked = [p \in Peers |-> None] BY DEF Init
  <2> QED BY <2>1, AuthAssumption DEF AuthAssumption
<1>3. /\ {serverOpen, terminated, members, effective, interrupted} \subseteq BOOLEAN
      /\ endpoint \in {"free", "other"}
  BY DEF Init
<1>4. /\ caller = "constructing" /\ server = "starting" /\ ready = {}
      /\ result = "none" /\ pending = None
  BY DEF Init
<1>5. QED BY <1>1, <1>2, <1>3, <1>4 DEF TypeOK

LEMMA LeaveTypes ==
  ASSUME TypeOK, server' = "ended", result' \in {"true", "false", "threw"},
         endpoint' \in {"free", endpoint}, interrupted' \in BOOLEAN, UNCHANGED <<caller, ready, pipe, tables, asked, answer, history>>
  PROVE  TypeOK'
BY DEF TypeOK, pipe, tables, history

LEMMA StepTypeOK == MapInv /\ TypeOK /\ [Next]_vars => TypeOK'
<1> SUFFICES ASSUME MapInv, TypeOK, [Next]_vars PROVE TypeOK' OBVIOUS
<1> USE DEF TypeOK
<1>1. CASE UNCHANGED vars \/ Over
  BY <1>1 DEF Over, vars, pipe, tables, zap, history
<1>2. CASE BindEndpoint \/ ServerAnswers
  <2>1. toCaller' \in Seq({"ok", "ko"})
    <3>1. /\ Append(toCaller, "ok") \in Seq({"ok", "ko"})
          /\ Append(toCaller, "ko") \in Seq({"ok", "ko"})
      BY AppendProperties
    <3> QED BY <1>2, <3>1 DEF BindEndpoint, ServerAnswers
  <2> QED BY <1>2, <2>1 DEF BindEndpoint, ServerAnswers, tables, zap, history
<1>3. CASE BindFails \/ Terminated \/ PollInterrupted \/ AuthenticateInterrupted
  BY <1>3, LeaveTypes
  DEF BindFails, Terminated, LeaveLoop, PollInterrupted, AuthenticateInterrupted, zap
<1>4. CASE Poll \/ ServerCloses \/ HandleInterrupted
  BY <1>4 DEF Poll, ServerCloses, HandleInterrupted, Turn, pipe, tables, zap, history
<1>5. ASSUME NEW p \in Peers, Authenticate(p) PROVE TypeOK'
  BY <1>5 DEF Authenticate, Turn, pipe, tables, history
<1>6. CASE HandleCommand
  <2>1. toServer' = Tail(toServer) /\ toCaller' = Append(toCaller, "ok")
    BY <1>6 DEF HandleCommand, Acknowledge
  <2>2. toServer # <<>>
    BY <1>6 DEF HandleCommand, MapInv, AuthInv, ReadyInv
  <2>3. toServer' \in Seq(Calls \cup {Terminate, Stop}) /\ toCaller' \in Seq({"ok", "ko"})
    BY <2>1, <2>2, HeadTailProperties, AppendProperties
  <2>4. calls' \in Seq(Calls)
    BY StepTablesInv DEF MapInv, TablesInv
  <2>5. {terminated', effective'} \subseteq BOOLEAN /\ UNCHANGED <<members, pending, made>>
    BY <1>6 DEF HandleCommand, Carry
  <2>6. /\ server' = "polling" /\ ready' = {}
        /\ UNCHANGED <<caller, serverOpen, result, zap, interrupted>>
    BY <1>6 DEF HandleCommand, Turn
  <2> QED BY <2>3, <2>4, <2>5, <2>6 DEF zap
<1>7. CASE CallerWaits
  <2>1. toCaller' \in Seq({"ok", "ko"})
    <3>1. toCaller # <<>> /\ toCaller' = Tail(toCaller)
      BY <1>7
      DEF CallerWaits, Constructed, CallReturns, DestroyMembers, Stopped, SignalReceived
    <3> QED BY <3>1, HeadTailProperties
  <2>2. toServer' \in Seq(Calls \cup {Terminate, Stop})
    <3>1. Append(toServer, Stop) \in Seq(Calls \cup {Terminate, Stop})
      BY AppendProperties
    <3> QED BY <1>7, <3>1 DEF CallerWaits, Constructed, CallReturns, DestroyMembers, Stopped
  <2> QED BY <1>7, <2>1, <2>2
    DEF CallerWaits, Constructed, CallReturns, DestroyMembers, Stopped, tables, zap, history
<1>8. ASSUME NEW c \in Calls, Call(c) PROVE TypeOK'
  <2>1. toServer' \in Seq(Calls \cup {Terminate, Stop})
    BY <1>8, AppendProperties DEF Call, SendCommand
  <2>2. made' \in 0..MaxCalls BY <1>8, AuthAssumption DEF Call
  <2> QED BY <1>8, <2>1, <2>2 DEF Call, SendCommand, tables, zap
<1>9. CASE Destroy
  <2>1. toServer' \in Seq(Calls \cup {Terminate, Stop})
    BY <1>9, AppendProperties DEF Destroy, SendCommand
  <2> QED BY <1>9, <2>1 DEF Destroy, SendCommand, tables, zap, history
<1>10. ASSUME NEW p \in Peers, NEW r \in Requests, Ask(p, r) PROVE TypeOK'
  BY <1>10 DEF Ask, pipe, tables, history
<1>11. QED
  BY <1>1, <1>2, <1>3, <1>4, <1>5, <1>6, <1>7, <1>8, <1>9, <1>10
  DEF Next, ServerStep, Interrupt

(* Of the authenticator, for any calls, requests and peers. *)
THEOREM TypeCorrect == Spec => []TypeOK
<1>1. MapInv /\ TypeOK /\ [Next]_vars => MapInv' /\ TypeOK'
  BY StepMapInv, StepTypeOK
<1>2. QED BY <1>1, InitMaps, InitTypeOK, PTL DEF Spec
=============================================================================
