-------------------------------- MODULE Auth --------------------------------
(***************************************************************************)
(* zmqpp::auth (zmqpp/auth.cpp) with the requests of zap_request.cpp: an   *)
(* actor whose routine polls its pipe and the ZAP socket.  Three parties   *)
(* step here: the caller that owns the auth object, the server thread, and *)
(* peers whose connections libzmq asks the ZAP socket about.  The policy   *)
(* and the poller are members of the auth object, used by the server and   *)
(* destroyed by the caller.                                                *)
(*                                                                         *)
(* The caller's thread makes its calls one by one.  The actor's part is    *)
(* cut down to the messages of Actor that a routine like this one sees.    *)
(***************************************************************************)
EXTENDS Integers, Sequences

CONSTANTS
  Calls,          (* calls [name, arg, secret] the client may make          *)
  Requests,       (* requests [address, mechanism, id, secret] of peers     *)
  Peers,
  MayInterrupt,   (* may a signal interrupt the server thread?              *)
  MaxCalls,       (* bound: calls the client makes                          *)
  None

ASSUME AuthAssumption ==
  /\ Calls \subseteq [name : {"ALLOW", "DENY", "DOMAIN", "PLAIN", "CURVE", "GSSAPI", "VERBOSE"},
                      arg : STRING, secret : STRING]
  /\ Requests \subseteq [address : STRING, mechanism : {"NULL", "PLAIN", "CURVE", "GSSAPI"},
                         id : STRING, secret : STRING]
  /\ MaxCalls \in Nat /\ MayInterrupt \in BOOLEAN
  /\ None \notin Calls \cup Requests \cup [code : STRING, user : STRING]

VARIABLES
  caller,         (* where the caller's thread is                           *)
  server,         (* where the server thread is                             *)
  ready,          (* sockets with input, as the last poll() said            *)
  toServer, toCaller, serverOpen,   (* the actor's pipe                     *)
  policy,         (* whitelist, blacklist, passwords, client_keys, ...      *)
  terminated,
  members,        (* do the policy and auth_poller exist?                   *)
  endpoint,       (* who has bound the ZAP endpoint                         *)
  result,         (* how the routine ended                                  *)
  asked, answer,  (* requests and replies of the peers                      *)
  calls,          (* history: the calls whose commands were carried out     *)
  pending,        (* history: the call under way, or None                   *)
  effective,      (* history: has its command been carried out?             *)
  made,           (* number of calls                                        *)
  interrupted     (* history: has a signal ended the routine?               *)

pipe == <<toServer, toCaller, serverOpen>>
tables == <<policy, terminated, members>>
zap == <<endpoint, asked, answer>>
history == <<calls, pending, effective, made>>
vars == <<caller, server, ready, pipe, tables, result, zap, history, interrupted>>

Terminate == [name |-> "TERMINATE", arg |-> "", secret |-> ""]
Stop == [name |-> "stop", arg |-> "", secret |-> ""]

Init ==
  /\ caller = "constructing" /\ server = "starting" /\ ready = {}
  /\ toServer = <<>> /\ toCaller = <<>> /\ serverOpen = TRUE
  /\ policy = [whitelist |-> {}, blacklist |-> {}, passwords |-> {}, client_keys |-> {},
               curve_allow_any |-> FALSE, domain |-> "", verbose |-> FALSE]
  /\ terminated = FALSE /\ members = TRUE
  /\ endpoint \in {"free", "other"}
  /\ result = "none"
  /\ asked = [p \in Peers |-> None] /\ answer = [p \in Peers |-> None]
  /\ calls = <<>> /\ pending = None /\ effective = FALSE /\ made = 0
  /\ interrupted = FALSE

-----------------------------------------------------------------------------
(* The decision *)

(* The password stored as by operator[] *)
AddPasswordAnew(passwords, user, secret) ==
  {e \in passwords : e.user # user} \cup {[user |-> user, secret |-> secret]}

(* unordered_map::insert: a user that is there keeps the password. *)
AddPassword(passwords, user, secret) ==
  IF \E e \in passwords : e.user = user THEN passwords
  ELSE passwords \cup {[user |-> user, secret |-> secret]}

(* handle_command: what a command does to the policy *)
Apply(p, c) ==
  CASE c.name = "ALLOW" -> [p EXCEPT !.whitelist = @ \cup {c.arg}]
    [] c.name = "DENY" -> [p EXCEPT !.blacklist = @ \cup {c.arg}]
    [] c.name = "DOMAIN" -> [p EXCEPT !.domain = c.arg]
    [] c.name = "PLAIN" -> [p EXCEPT !.passwords = AddPassword(@, c.arg, c.secret)]
    [] c.name = "CURVE" ->
         IF c.arg = "CURVE_ALLOW_ANY" THEN [p EXCEPT !.curve_allow_any = TRUE]
         ELSE [p EXCEPT !.curve_allow_any = FALSE, !.client_keys = @ \cup {c.arg}]
    [] c.name = "VERBOSE" -> [p EXCEPT !.verbose = (c.arg = "true")]
    [] OTHER -> p

AuthenticatePlain(p, r) == [user |-> r.id, secret |-> r.secret] \in p.passwords

AuthenticateCurve(p, r) == p.curve_allow_any \/ r.id \in p.client_keys

Denied(p, r) ==
  IF p.whitelist # {} THEN r.address \notin p.whitelist ELSE r.address \in p.blacklist

(* authenticate: past the lists every mechanism but NULL decides anew. *)
Allowed(p, r) ==
  /\ ~Denied(p, r)
  /\ CASE r.mechanism = "PLAIN" -> AuthenticatePlain(p, r)
       [] r.mechanism = "CURVE" -> AuthenticateCurve(p, r)
       [] OTHER -> TRUE

(* The reply with its status code and user id *)
ZapReply(p, r) ==
  IF ~Allowed(p, r) THEN [code |-> "400", user |-> ""]
  ELSE [code |-> "200", user |-> IF r.mechanism \in {"PLAIN", "CURVE"} THEN r.id ELSE ""]

-----------------------------------------------------------------------------
(* The server: the routine of the constructor, then start_routine. *)

(* The loop goes on with the sockets still to be served, or to its top. *)
Turn(left) ==
  /\ ready' = left
  /\ server' = IF left = {} THEN "polling" ELSE "serving"

BindEndpoint ==
  /\ server = "starting" /\ endpoint = "free"
  /\ endpoint' = "auth"
  /\ toCaller' = Append(toCaller, "ok")
  /\ server' = "polling"
  /\ UNCHANGED <<caller, ready, toServer, serverOpen, tables, result, asked, answer, history,
                 interrupted>>

(* zmq_internal_exception: return false *)
BindFails ==
  /\ server = "starting" /\ endpoint = "other"
  /\ server' = "ended" /\ result' = "false"
  /\ UNCHANGED <<caller, ready, pipe, tables, zap, history, interrupted>>

Waiting(p) == asked[p] # None /\ answer[p] = None

(* The ZAP socket not added to auth_poller *)
PollPipeOnly ==
  /\ server = "polling" /\ ~terminated
  /\ toServer # <<>>
  /\ ready' = {"pipe"} /\ server' = "serving"
  /\ UNCHANGED <<caller, pipe, tables, result, zap, history, interrupted>>

Poll ==
  /\ server = "polling" /\ ~terminated
  /\ ready' = (IF \E p \in Peers : Waiting(p) THEN {"zap"} ELSE {})
                \cup (IF toServer # <<>> THEN {"pipe"} ELSE {})
  /\ ready' # {} /\ server' = "serving"
  /\ UNCHANGED <<caller, pipe, tables, result, zap, history, interrupted>>

(* A return out of the middle, without unbind *)
LeaveLoopBound ==
  /\ server' = "ended" /\ result' = "true"
  /\ UNCHANGED <<caller, ready, pipe, tables, zap, history>>

(* The loop is over, as terminated is set or as a signal has made poll()
   return false: unbind and return true. *)
LeaveLoop ==
  /\ endpoint' = "free"
  /\ server' = "ended" /\ result' = "true"
  /\ UNCHANGED <<caller, ready, pipe, tables, asked, answer, history>>

Terminated == server = "polling" /\ terminated /\ LeaveLoop /\ UNCHANGED interrupted

PollInterrupted ==
  /\ MayInterrupt
  /\ server = "polling" /\ ~terminated
  /\ interrupted' = TRUE
  /\ LeaveLoop

(* authenticate: receive, decide, reply *)
Authenticate(p) ==
  /\ server = "serving" /\ "zap" \in ready /\ Waiting(p)
  /\ answer' = [answer EXCEPT ![p] = ZapReply(policy, asked[p])]
  /\ Turn(ready \ {"zap"})
  /\ UNCHANGED <<caller, pipe, tables, result, endpoint, asked, history, interrupted>>

(* The receive of the request is interrupted: to reply "500" is against the
   state of the socket, and the exception leaves the routine.  The ZAP socket
   goes with it. *)
AuthenticateInterrupted ==
  /\ MayInterrupt
  /\ server = "serving" /\ "zap" \in ready
  /\ interrupted' = TRUE
  /\ endpoint' = "free"
  /\ server' = "ended" /\ result' = "threw"
  /\ UNCHANGED <<caller, ready, pipe, tables, asked, answer, history>>

Carry(c) ==
  /\ policy' = Apply(policy, c)
  /\ terminated' = (terminated \/ c = Terminate)
  /\ IF c = Terminate THEN UNCHANGED <<calls, effective>>
     ELSE calls' = Append(calls, c) /\ effective' = TRUE
  /\ UNCHANGED <<members, pending, made>>

(* A command whose branch forgets to answer *)
AcknowledgeMost(c) ==
  toCaller' = IF c.name = "DENY" THEN toCaller ELSE Append(toCaller, "ok")

Acknowledge(c) == toCaller' = Append(toCaller, "ok")

(* The two sockets served in the other order *)
HandleCommandFirst ==
  /\ server = "serving" /\ "pipe" \in ready
  /\ toServer' = Tail(toServer) /\ Carry(Head(toServer)) /\ Acknowledge(Head(toServer))
  /\ Turn(ready \ {"pipe"})
  /\ UNCHANGED <<caller, serverOpen, result, zap, interrupted>>

(* handle_command, after the ZAP socket was served *)
HandleCommand ==
  /\ server = "serving" /\ ready = {"pipe"}
  /\ toServer' = Tail(toServer) /\ Carry(Head(toServer)) /\ Acknowledge(Head(toServer))
  /\ Turn({})
  /\ UNCHANGED <<caller, serverOpen, result, zap, interrupted>>

(* An interrupted receive leaves no parts: return, and poll again. *)
HandleInterrupted ==
  /\ MayInterrupt
  /\ server = "serving" /\ ready = {"pipe"}
  /\ Turn({})
  /\ UNCHANGED <<caller, pipe, tables, result, zap, history, interrupted>>

(* start_routine sends how the routine ended ... *)
ServerAnswers ==
  /\ server = "ended"
  /\ toCaller' = Append(toCaller, IF result = "true" THEN "ok" ELSE "ko")
  /\ server' = "closing"
  /\ UNCHANGED <<caller, ready, toServer, serverOpen, tables, result, zap, history, interrupted>>

(* ... and closes its end of the pipe. *)
ServerCloses ==
  /\ server = "closing"
  /\ serverOpen' = FALSE /\ server' = "gone"
  /\ UNCHANGED <<caller, ready, toServer, toCaller, tables, result, zap, history, interrupted>>

-----------------------------------------------------------------------------
(* The caller *)

SignalReceived == toCaller # <<>> /\ toCaller' = Tail(toCaller)

Constructed ==
  /\ caller = "constructing" /\ SignalReceived
  /\ IF Head(toCaller) = "ok"
     THEN caller' = "idle" /\ UNCHANGED members
     ELSE caller' = "threw" /\ members' = FALSE
  /\ UNCHANGED <<server, ready, toServer, serverOpen, policy, terminated, result, zap, history,
                 interrupted>>

(* A command goes out; the send blocks while the other end is closed. *)
SendCommand(c, state) ==
  /\ serverOpen
  /\ toServer' = Append(toServer, c)
  /\ caller' = state
  /\ UNCHANGED <<server, ready, toCaller, serverOpen, tables, result, zap, interrupted>>

(* allow, deny, configure_... and set_verbose *)
Call(c) ==
  /\ caller = "idle" /\ made < MaxCalls
  /\ SendCommand(c, "waiting")
  /\ pending' = c /\ effective' = FALSE /\ made' = made + 1
  /\ UNCHANGED calls

(* The wait at their end takes any signal for its own. *)
CallReturns ==
  /\ caller = "waiting" /\ SignalReceived
  /\ caller' = "idle" /\ pending' = None /\ effective' = FALSE
  /\ UNCHANGED <<server, ready, toServer, serverOpen, tables, result, zap, calls, made,
                 interrupted>>

(* ~auth: TERMINATE and wait; then the members go, the last of them the actor,
   whose destructor tries to send stop and waits again. *)
Destroy ==
  /\ caller = "idle"
  /\ SendCommand(Terminate, "terminating")
  /\ UNCHANGED history

DestroyMembers ==
  /\ caller = "terminating" /\ SignalReceived
  /\ members' = FALSE
  /\ toServer' = IF serverOpen THEN Append(toServer, Stop) ELSE toServer
  /\ caller' = "stopping"
  /\ UNCHANGED <<server, ready, serverOpen, policy, terminated, result, zap, history,
                 interrupted>>

Stopped ==
  /\ caller = "stopping" /\ SignalReceived
  /\ caller' = "done"
  /\ UNCHANGED <<server, ready, toServer, serverOpen, tables, result, zap, history, interrupted>>

-----------------------------------------------------------------------------
(* A connection to a socket of the context makes libzmq ask the ZAP socket. *)
Ask(p, r) ==
  /\ endpoint = "auth" /\ asked[p] = None
  /\ asked' = [asked EXCEPT ![p] = r]
  /\ UNCHANGED <<caller, server, ready, pipe, tables, result, endpoint, answer, history,
                 interrupted>>

ServerStep ==
  \/ BindEndpoint \/ BindFails \/ Poll \/ Terminated \/ HandleCommand
  \/ \E p \in Peers : Authenticate(p)
  \/ ServerAnswers \/ ServerCloses

Interrupt == PollInterrupted \/ AuthenticateInterrupted \/ HandleInterrupted

CallerWaits == Constructed \/ CallReturns \/ DestroyMembers \/ Stopped

(* The end, and what an interrupt may leave: a caller that waits for ever *)
Over ==
  /\ server = "gone"
  /\ interrupted \/ caller \in {"done", "threw"}
  /\ UNCHANGED vars

Next ==
  \/ ServerStep \/ Interrupt \/ CallerWaits \/ Over
  \/ \E c \in Calls : Call(c)
  \/ Destroy
  \/ \E p \in Peers, r \in Requests : Ask(p, r)

Spec == Init /\ [][Next]_vars

(* Both threads are scheduled, and not every receive of a command is hit by a
   signal.  Calls and requests are not forced. *)
FairSpec ==
  Spec /\ WF_vars(ServerStep) /\ SF_vars(HandleCommand) /\ WF_vars(CallerWaits)

-----------------------------------------------------------------------------
TypeOK ==
  /\ caller \in {"constructing", "idle", "waiting", "terminating", "stopping", "done", "threw"}
  /\ server \in {"starting", "polling", "serving", "ended", "closing", "gone"}
  /\ ready \subseteq {"zap", "pipe"} /\ (server = "serving" => ready # {})
  /\ toServer \in Seq(Calls \cup {Terminate, Stop}) /\ toCaller \in Seq({"ok", "ko"})
  /\ {serverOpen, terminated, members, effective, interrupted} \subseteq BOOLEAN
  /\ endpoint \in {"free", "other", "auth"} /\ result \in {"none", "true", "false", "threw"}
  /\ asked \in [Peers -> Requests \cup {None}]
  /\ calls \in Seq(Calls) /\ pending \in Calls \cup {None} /\ made \in 0..MaxCalls

Gate == INSTANCE AccessGate

(* Every call is in force when it returns, until a signal has ended the
   routine, and every reply, with its user id, is what the calls in force at
   that moment say, on whichever thread they were made (auth.cpp:81-155,
   253-380 against auth.hpp:61-103). *)
ImplementsGate == Gate!Spec

(* The server thread never looks at the poller, the policy or a request by
   the policy once the caller has begun to destroy them (auth.cpp:57-64, 74-79). *)
MembersOutliveUse ==
  server = "serving" \/ (server = "polling" /\ ~terminated) => members

(* When the destructor has returned or the constructor has thrown, the ZAP
   endpoint is free for another auth object (auth.cpp:47-52, 65, 74-79). *)
EndpointGivenBack == caller \in {"done", "threw"} => endpoint # "auth"

(* Until a signal interrupts the server, a caller that waits has its answer in
   the pipe or a server that is on its way to it: not waiting for input that
   nobody sends, and not for a request that it has served already.  And who
   makes a call makes it to a server that is in its loop (auth.cpp:44-79,
   150-153, actor.cpp:94-126). *)
NobodyWaitsInVain ==
  ~interrupted =>
    /\ caller = "idle" => serverOpen /\ server \in {"polling", "serving"}
    /\ caller \in {"constructing", "waiting", "terminating", "stopping"} =>
         \/ toCaller # <<>>
         \/ server \in {"starting", "ended"}
         \/ server = "polling" /\ (terminated \/ toServer # <<>>)
         \/ /\ server = "serving"
            /\ ready = {"pipe"} \/ ("zap" \in ready /\ \E p \in Peers : Waiting(p))

(* The constructor, every call and the destructor return (auth.cpp:74-153). *)
CallsReturn ==
  caller \notin {"idle", "done", "threw"} ~>
    caller \in {"idle", "done", "threw"} \/ interrupted

(* A peer's request is answered, unless the object is being destroyed
   (auth.cpp:57-64). *)
RequestsAnswered ==
  \A p \in Peers : Waiting(p) ~> ~Waiting(p) \/ interrupted \/ terminated
=============================================================================
