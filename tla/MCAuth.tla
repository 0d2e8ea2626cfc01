------------------------------- MODULE MCAuth -------------------------------
(* A small instance of Auth: two addresses, a user with two passwords, one    *)
(* CURVE key and CURVE_ALLOW_ANY.                                             *)
EXTENDS Auth

MCCalls ==
  {[name |-> "ALLOW", arg |-> "here", secret |-> ""],
   [name |-> "DENY", arg |-> "here", secret |-> ""],
   [name |-> "PLAIN", arg |-> "user", secret |-> "old"],
   [name |-> "PLAIN", arg |-> "user", secret |-> "new"],
   [name |-> "CURVE", arg |-> "key", secret |-> ""],
   [name |-> "CURVE", arg |-> "CURVE_ALLOW_ANY", secret |-> ""]}

MCRequests ==
  {[address |-> "there", mechanism |-> "NULL", id |-> "", secret |-> ""],
   [address |-> "here", mechanism |-> "PLAIN", id |-> "user", secret |-> "new"],
   [address |-> "there", mechanism |-> "CURVE", id |-> "other key", secret |-> ""],
   [address |-> "here", mechanism |-> "CURVE", id |-> "key", secret |-> ""]}
=============================================================================
