----------------------------- MODULE ClientTool -----------------------------
(***************************************************************************)
(* The command line client (client/main.cpp, options.cpp): it polls its    *)
(* socket and standard input, prints messages that come in, sends the      *)
(* lines that are entered, and for request and reply sockets flips between *)
(* sending and receiving.                                                  *)
(*                                                                         *)
(* Standard input is a file or a pipe whose other end is closed at some    *)
(* time.  The lines in it wait in the descriptor until fgets takes all     *)
(* that is there to the buffer of stdio, which poll does not see.          *)
(***************************************************************************)
EXTENDS Integers, Sequences

CONSTANTS
  Types,         (* socket types the tool is started with                   *)
  Kinds,         (* of standard input: "pipe", "file"                       *)
  MaxLines,      (* bound: lines that are entered                           *)
  MaxArrivals    (* bound: messages that come in                            *)

Receivers == {"pull", "subscribe", "reply"}
Flippers == {"request", "reply"}

ASSUME ClientToolAssumption ==
  /\ Types \subseteq Receivers \cup Flippers \cup {"push", "publish"}
  /\ Kinds \subseteq {"pipe", "file"} /\ MaxLines \in Nat /\ MaxArrivals \in Nat

(* What fgets may return: a line with text, an empty one, a last character
   without a newline, a line that begins with a NUL character *)
Line == {"text", "empty", "stub", "nul"}

VARIABLES
  options,       (* type and singlepart of the command line; kind of stdin  *)
  pc,            (* where main is                                           *)
  exit,          (* how it ended                                            *)
  canSend, canRecv,
  asked,         (* what the poller checks for: subset of {"socket", "stdin"} *)
  ready,         (* what has_input says after poll()                        *)
  entered,       (* lines in the descriptor of standard input               *)
  buffered,      (* lines in the buffer of stdio                            *)
  closed,        (* is the other end of standard input closed?              *)
  message,       (* the parts of `message'                                  *)
  inbox,         (* messages waiting at the socket                          *)
  turn,          (* libzmq: what a request or reply socket may do next      *)
  cut,           (* history: has a signal interrupted a receive?            *)
  lines, arrived (* number of lines entered and messages arrived so far     *)

flags == <<canSend, canRecv>>
polled == <<asked, ready>>
stdin == <<entered, buffered, closed, lines>>
socket == <<inbox, turn, arrived, cut>>
toolVars == <<options, pc, exit, flags, polled, stdin, message, socket>>

Flips == options.type \in Flippers

(* pull and subscribe have no standard input. *)
HasStdin == options.type \notin {"pull", "subscribe"}

ToolInit ==
  /\ options \in [type : Types, single : BOOLEAN, kind : Kinds]
  /\ pc = "starting" /\ exit = "none"
  /\ canRecv = (options.type \in Receivers) /\ canSend = ~canRecv
  /\ asked = {} /\ ready = {}
  /\ entered = <<>> /\ buffered = <<>> /\ closed = FALSE /\ lines = 0
  /\ message = <<>>
  /\ inbox = 0 /\ arrived = 0 /\ cut = FALSE
  /\ turn = IF options.type \in Receivers THEN "receive" ELSE "send"

Exit(how) == pc' = "exited" /\ exit' = how

-----------------------------------------------------------------------------
(* The world outside *)

Enter(line) ==
  /\ ~closed /\ lines < MaxLines
  /\ entered' = Append(entered, line) /\ lines' = lines + 1
  /\ closed' = (line = "stub")
  /\ UNCHANGED <<options, pc, exit, flags, polled, buffered, message, socket>>

CloseInput ==
  /\ ~closed
  /\ closed' = TRUE
  /\ UNCHANGED <<options, pc, exit, flags, polled, entered, buffered, lines, message, socket>>

(* A request socket gets the one answer to its request, a reply socket the
   next request when it has answered. *)
Arrive ==
  /\ arrived < MaxArrivals
  /\ options.type \in Receivers \cup Flippers
  /\ Flips => turn = "receive" /\ inbox = 0
  /\ inbox' = inbox + 1 /\ arrived' = arrived + 1
  /\ UNCHANGED <<options, pc, exit, flags, polled, stdin, message, turn, cut>>

(* A closed pipe is an error to zmq_poll, also for an item without events; a
   file at its end has input. *)
StdinReady ==
  /\ "stdin" \in asked
  /\ entered # <<>> \/ (closed /\ options.kind = "file")

StdinError == HasStdin /\ closed /\ entered = <<>> /\ options.kind = "pipe"

-----------------------------------------------------------------------------
(* main *)

Start ==
  /\ pc = "starting"
  /\ pc' = "top"
  /\ UNCHANGED <<options, exit, flags, polled, stdin, message, socket>>

(* Usage, no standard input, an endpoint that cannot be bound or connected *)
StartRefused ==
  /\ pc = "starting"
  /\ Exit("failure")
  /\ UNCHANGED <<options, flags, polled, stdin, message, socket>>

Wanted ==
  (IF canRecv THEN {"socket"} ELSE {}) \cup (IF canSend /\ HasStdin THEN {"stdin"} ELSE {})

(* The events are set up in the first round only. *)
CheckForOnce ==
  /\ pc = "top"
  /\ asked' = IF asked # {} THEN asked ELSE Wanted
  /\ pc' = "poll"
  /\ UNCHANGED <<options, exit, flags, ready, stdin, message, socket>>

CheckFor ==
  /\ pc = "top"
  /\ asked' = Wanted
  /\ pc' = "poll"
  /\ UNCHANGED <<options, exit, flags, ready, stdin, message, socket>>

Poll ==
  /\ pc = "poll"
  /\ ready' = (IF "socket" \in asked /\ inbox > 0 THEN {"socket"} ELSE {})
                \cup (IF StdinReady THEN {"stdin"} ELSE {})
  /\ ready' # {} \/ StdinError
  /\ pc' = "socket"
  /\ UNCHANGED <<options, exit, flags, asked, stdin, message, socket>>

(* Events are looked at also after a poll that was interrupted. *)
PollInterruptedServes ==
  /\ pc = "poll"
  /\ pc' = "socket"
  /\ UNCHANGED <<options, exit, flags, polled, stdin, message, socket>>

(* EINTR: poll() is false, the events of the poll before it remain. *)
PollInterrupted ==
  /\ pc = "poll"
  /\ pc' = "top"
  /\ UNCHANGED <<options, exit, flags, polled, stdin, message, socket>>

(* After a message in, or out, a flipping socket goes the other way. *)
Toggle(mayRecv) ==
  /\ canRecv' = (IF Flips THEN mayRecv ELSE canRecv)
  /\ canSend' = IF Flips THEN ~mayRecv ELSE canSend

(* All parts of a message are received and printed. *)
ServeSocket ==
  /\ pc = "socket" /\ "socket" \in ready
  /\ IF ~canRecv \/ inbox = 0 \/ (Flips /\ turn # "receive")
     THEN Exit("abort") /\ UNCHANGED <<flags, socket>>
     ELSE /\ inbox' = inbox - 1 /\ turn' = "send" /\ UNCHANGED <<arrived, cut>>
          /\ Toggle(FALSE)
          /\ pc' = "stdin" /\ UNCHANGED exit
  /\ UNCHANGED <<options, polled, stdin, message>>

(* The receive is interrupted: what it returns is not looked at, an empty line
   is printed and the socket flips. *)
ServeSocketInterrupted ==
  /\ pc = "socket" /\ "socket" \in ready /\ canRecv
  /\ cut' = TRUE
  /\ Toggle(FALSE)
  /\ pc' = "stdin"
  /\ UNCHANGED <<options, exit, polled, stdin, message, inbox, turn, arrived>>

NothingOnSocket ==
  /\ pc = "socket" /\ "socket" \notin ready
  /\ pc' = "stdin"
  /\ UNCHANGED <<options, exit, flags, polled, stdin, message, socket>>

ServeStdin ==
  /\ pc = "stdin" /\ "stdin" \in ready
  /\ IF canSend /\ message = <<>> THEN pc' = "reading" /\ UNCHANGED exit ELSE Exit("abort")
  /\ UNCHANGED <<options, flags, polled, stdin, message, socket>>

(* The branch `else if' behind it *)
NothingOnStdin ==
  /\ pc = "stdin" /\ "stdin" \notin ready
  /\ IF HasStdin /\ canSend /\ ~canRecv THEN Exit("no data") ELSE pc' = "top" /\ UNCHANGED exit
  /\ UNCHANGED <<options, flags, polled, stdin, message, socket>>

(* fgets takes a line from the buffer of stdio, which is filled if empty.  A
   part is the line without its last character; strlen - 1 = 0 ends the
   message, and of a line that begins with NUL the length wraps round. *)
ReadLine ==
  /\ pc = "reading" /\ (buffered # <<>> \/ entered # <<>>)
  /\ LET from == IF buffered # <<>> THEN buffered ELSE entered
     IN /\ buffered' = Tail(from)
        /\ entered' = IF buffered # <<>> THEN entered ELSE <<>>
        /\ \/ /\ Head(from) = "text"
              /\ message' = Append(message, "text") /\ UNCHANGED exit
              /\ pc' = IF options.single THEN "sending" ELSE "reading"
           \/ /\ Head(from) \in {"empty", "stub"}
              /\ pc' = IF message = <<>> THEN "top" ELSE "sending"
              /\ UNCHANGED <<exit, message>>
           \/ Head(from) = "nul" /\ Exit("undefined") /\ UNCHANGED message
  /\ UNCHANGED <<options, flags, polled, closed, lines, socket>>

(* fgets returns NULL: an error for a first line, the end of a message later. *)
ReadFails ==
  /\ pc = "reading" /\ buffered = <<>> /\ entered = <<>> /\ closed
  /\ IF message = <<>> THEN Exit("failure") ELSE pc' = "sending" /\ UNCHANGED exit
  /\ UNCHANGED <<options, flags, polled, stdin, message, socket>>

(* The message goes out, at once or when the socket no longer blocks. *)
Send ==
  /\ pc = "sending"
  /\ IF Flips /\ turn # "send" THEN Exit("abort") /\ UNCHANGED <<flags, message, socket>>
     ELSE /\ message' = <<>> /\ turn' = "receive" /\ UNCHANGED <<inbox, arrived, cut>>
          /\ Toggle(TRUE)
          /\ pc' = "top" /\ UNCHANGED exit
  /\ UNCHANGED <<options, polled, stdin>>

(* The blocking send is interrupted: the message is thrown away, and the
   socket flips all the same. *)
SendFails ==
  /\ pc = "sending"
  /\ message' = <<>>
  /\ Toggle(TRUE)
  /\ pc' = "top"
  /\ UNCHANGED <<options, exit, polled, stdin, socket>>

Serve == ServeSocket \/ NothingOnSocket \/ ServeStdin \/ NothingOnStdin
Read == ReadLine \/ ReadFails

ToolNext ==
  \/ \E line \in Line : Enter(line)
  \/ CloseInput \/ Arrive
  \/ Start \/ StartRefused \/ CheckFor \/ Poll \/ PollInterrupted \/ Serve \/ Read
  \/ ServeSocketInterrupted
  \/ Send \/ SendFails

ToolSpec == ToolInit /\ [][ToolNext]_toolVars

(* The tool runs; signals do not interrupt its polls and receives for ever, and
   a peer takes what it sends. *)
FairToolSpec ==
  /\ ToolSpec
  /\ WF_toolVars(Start \/ StartRefused) /\ WF_toolVars(CheckFor) /\ SF_toolVars(Poll)
  /\ WF_toolVars(Serve) /\ SF_toolVars(ServeSocket) /\ WF_toolVars(Read) /\ WF_toolVars(Send)

-----------------------------------------------------------------------------
ToolTypeOK ==
  /\ options \in [type : Types, single : BOOLEAN, kind : Kinds]
  /\ pc \in {"starting", "top", "poll", "socket", "stdin", "reading", "sending", "exited"}
  /\ exit \in {"none", "failure", "no data", "undefined", "abort"}
  /\ {canSend, canRecv, closed, cut} \subseteq BOOLEAN
  /\ asked \subseteq {"socket", "stdin"} /\ ready \subseteq {"socket", "stdin"}
  /\ entered \in Seq(Line) /\ buffered \in Seq(Line) /\ message \in Seq(Line)
  /\ inbox \in 0..MaxArrivals /\ turn \in {"send", "receive"}

(* Over all flips, interrupts, discarded messages and lines that wait, no
   assertion of main fails (main.cpp:176, 210, 230), no receive blocks and no
   request or reply socket is asked to send or receive out of turn, until a
   signal has hit a receive, whose failure main.cpp:186 does not see. *)
KeepsTurns == exit = "abort" => cut

(* A message that waits while receiving is enabled is printed, unless the tool
   ends: neither interrupts nor lines that come in keep it from being seen
   (main.cpp:160-206). *)
MessagePrinted ==
  (inbox > 0 /\ canRecv) ~> (inbox = 0 \/ ~canRecv \/ pc = "exited")

(* "While sending packets is allowed data entered on standard in will be sent
   to the 0mq socket." (main.cpp:128): the tool does not take itself for done
   while there are lines. *)
NothingEnteredIsLost ==
  exit = "no data" => entered = <<>> /\ buffered = <<>>
=============================================================================
