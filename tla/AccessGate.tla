----------------------------- MODULE AccessGate -----------------------------
(***************************************************************************)
(* What an authenticator promises to the thread that configures it and to  *)
(* the peers that knock (zmqpp/auth.hpp:56-115): calls take effect one by  *)
(* one, each at some moment before it returns, and every request is        *)
(* decided by the calls in force at one moment between its arrival and its *)
(* reply.  The rules are stated over the calls themselves, without the     *)
(* tables auth.cpp keeps.                                                  *)
(***************************************************************************)
EXTENDS Integers, Sequences

CONSTANTS
  Calls,       (* calls [name, arg, secret] the client may make             *)
  Requests,    (* requests [address, mechanism, id, secret] of peers        *)
  Peers,
  None         (* no call, no request, no reply                             *)

VARIABLES
  calls,       (* the calls in force, in order                              *)
  pending,     (* the call under way, or None                               *)
  effective,   (* is the pending call in force?                             *)
  asked,       (* asked[p]: the request of peer p, or None                  *)
  answer,      (* answer[p]: the reply to it, or None                       *)
  interrupted  (* has a signal interrupted the authenticator?               *)

vars == <<calls, pending, effective, asked, answer, interrupted>>

-----------------------------------------------------------------------------
(* The rules, for the calls s in force. *)

Made(s, name) == {k \in DOMAIN s : s[k].name = name}
Args(s, name) == {s[k].arg : k \in Made(s, name)}

(* "If you whitelist a single address, any non-whitelisted addresses are
   treated as blacklisted"; "if you define both a whitelist and a blacklist,
   only the whitelist takes effect" (auth.hpp:61-77). *)
AddressPasses(s, a) ==
  IF Made(s, "ALLOW") # {} THEN a \in Args(s, "ALLOW") ELSE a \notin Args(s, "DENY")

(* The first password configured for a user is the one that counts. *)
PasswordOf(s, user, secret) ==
  \E k \in Made(s, "PLAIN") :
    /\ s[k].arg = user /\ s[k].secret = secret
    /\ \A j \in Made(s, "PLAIN") : j < k => s[j].arg # user

(* A configured key is good, any key while CURVE_ALLOW_ANY is the last call. *)
KeyPasses(s, key) ==
  \/ key \in Args(s, "CURVE") \ {"CURVE_ALLOW_ANY"}
  \/ \E k \in Made(s, "CURVE") :
       /\ s[k].arg = "CURVE_ALLOW_ANY"
       /\ \A j \in Made(s, "CURVE") : j <= k

Accepted(s, r) ==
  /\ AddressPasses(s, r.address)
  /\ r.mechanism = "PLAIN" => PasswordOf(s, r.id, r.secret)
  /\ r.mechanism = "CURVE" => KeyPasses(s, r.id)

UserOf(r) == IF r.mechanism \in {"PLAIN", "CURVE"} THEN r.id ELSE ""

Reply(s, r) ==
  IF Accepted(s, r) THEN [code |-> "200", user |-> UserOf(r)]
                    ELSE [code |-> "400", user |-> ""]

-----------------------------------------------------------------------------
Init ==
  /\ calls = <<>> /\ pending = None /\ effective = FALSE
  /\ asked = [p \in Peers |-> None] /\ answer = [p \in Peers |-> None]
  /\ interrupted = FALSE

Begin(c) ==
  /\ pending = None
  /\ pending' = c /\ effective' = FALSE
  /\ UNCHANGED <<calls, asked, answer, interrupted>>

TakesEffect ==
  /\ pending # None /\ ~effective
  /\ calls' = Append(calls, pending) /\ effective' = TRUE
  /\ UNCHANGED <<pending, asked, answer, interrupted>>

(* A call that returns is in force, unless the authenticator was interrupted. *)
Return ==
  /\ pending # None /\ (effective \/ interrupted)
  /\ pending' = None /\ effective' = FALSE
  /\ UNCHANGED <<calls, asked, answer, interrupted>>

Ask(p, r) ==
  /\ asked[p] = None
  /\ asked' = [asked EXCEPT ![p] = r]
  /\ UNCHANGED <<calls, pending, effective, answer, interrupted>>

Decide(p) ==
  /\ asked[p] # None /\ answer[p] = None
  /\ answer' = [answer EXCEPT ![p] = Reply(calls, asked[p])]
  /\ UNCHANGED <<calls, pending, effective, asked, interrupted>>

Interrupt ==
  /\ interrupted' = TRUE
  /\ UNCHANGED <<calls, pending, effective, asked, answer>>

Next ==
  \/ \E c \in Calls : Begin(c)
  \/ TakesEffect \/ Return \/ Interrupt
  \/ \E p \in Peers : Decide(p) \/ \E r \in Requests : Ask(p, r)

Spec == Init /\ [][Next]_vars
=============================================================================
