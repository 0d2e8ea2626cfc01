-------------------------------- MODULE Jobs --------------------------------
(***************************************************************************)
(* The process, signal and log functions of common.c: process_start forks  *)
(* and waits, sigchld_handler collects children whenever SIGCHLD arrives,  *)
(* and the log functions look at errno.  One thread runs; the handler may  *)
(* interrupt it between any two steps and inside waitpid.                  *)
(*                                                                         *)
(* log_do takes any errno that is not 0 for a failure to write, though     *)
(* nothing resets it, and complains by way of strcb, which writes outside  *)
(* its buffer: what it does then is undefined.                             *)
(***************************************************************************)
EXTENDS Naturals

CONSTANTS
  Pids,         (* processes that are forked, each once                     *)
  MaxMessages,  (* bound: messages counted in the log file                  *)
  None

ASSUME JobsAssumption == MaxMessages \in Nat /\ None \notin Pids

VARIABLES
  main,         (* "idle", "waiting" in process_start or "undefined"        *)
  started,      (* the process that process_start waits for                 *)
  status,       (* what the last process_start returned, 0 or -1            *)
  child,        (* "none", "running", "zombie" or "reaped"                  *)
  reaper,       (* history: whose waitpid got the child                     *)
  installed,    (* does the program handle SIGCHLD by sigchld_handler?      *)
  restarts,     (* ... with SA_RESTART?                                     *)
  pending,      (* is a SIGCHLD pending?  There is only one at a time.      *)
  handler,      (* "idle" or "running"                                      *)
  serrno,       (* errno as the handler found it                            *)
  hit,          (* has the handler run during this waitpid?                 *)
  noticed,      (* *mutexed_pid                                             *)
  errno,
  do_log, lfp,  (* lfp is "null", "open" or "closed"                        *)
  logged,       (* messages in the log file                                 *)
  failed        (* history: has a call of the library or of fork failed?    *)

starts == <<main, started, status, hit>>
children == <<child, reaper>>
settings == <<installed, restarts>>
signals == <<pending, handler, serrno, noticed>>
log == <<do_log, lfp, logged>>
vars == <<starts, children, settings, signals, errno, log, failed>>

Init ==
  /\ main = "idle" /\ started = None /\ status = "none" /\ hit = FALSE
  /\ child = [p \in Pids |-> "none"] /\ reaper = [p \in Pids |-> "none"]
  /\ installed \in BOOLEAN /\ restarts \in BOOLEAN
  /\ pending = FALSE /\ handler = "idle" /\ serrno = "0" /\ noticed = None
  /\ errno = "0"
  /\ do_log = FALSE /\ lfp = "null" /\ logged = 0
  /\ failed = FALSE

Children(state) == {p \in Pids : child[p] = state}

Reap(p, who) ==
  /\ child' = [child EXCEPT ![p] = "reaped"] /\ reaper' = [reaper EXCEPT ![p] = who]

(* The program's own code runs. *)
Runs == main = "idle" /\ handler = "idle"

-----------------------------------------------------------------------------
(* The kernel and the program that uses the library *)

(* The program forks a process of its own and does not wait for it. *)
ForkInBackground(p) ==
  /\ Runs /\ child[p] = "none"
  /\ child' = [child EXCEPT ![p] = "running"]
  /\ UNCHANGED <<starts, reaper, settings, signals, errno, log, failed>>

ChildEnds(p) ==
  /\ child[p] = "running"
  /\ child' = [child EXCEPT ![p] = "zombie"]
  /\ pending' = installed
  /\ UNCHANGED <<starts, reaper, settings, handler, serrno, noticed, errno, log, failed>>

Signalled ==
  /\ pending /\ handler = "idle" /\ main # "undefined"
  /\ pending' = FALSE
  /\ handler' = "running" /\ serrno' = errno
  /\ UNCHANGED <<starts, children, settings, noticed, errno, log, failed>>

-----------------------------------------------------------------------------
(* process_start *)

ForkChild(p) ==
  /\ Runs /\ child[p] = "none"
  /\ child' = [child EXCEPT ![p] = "running"]
  /\ main' = "waiting" /\ started' = p /\ status' = "none" /\ hit' = FALSE
  /\ UNCHANGED <<reaper, settings, signals, errno, log, failed>>

StartFails(reason) ==
  /\ main' = "idle" /\ status' = "-1"
  /\ errno' = reason /\ failed' = TRUE
  /\ UNCHANGED <<started, hit, children, settings, signals, log>>

ForkFails == Runs /\ StartFails("EAGAIN")

Waits == main = "waiting" /\ handler = "idle"

ChildCompletes ==
  /\ Waits /\ child[started] = "zombie"
  /\ Reap(started, "process_start")
  /\ main' = "idle" /\ status' = "0"
  /\ UNCHANGED <<started, hit, settings, signals, errno, log, failed>>

(* The result of waitpid is not compared with the pid. *)
AlreadyReapedUnseen ==
  /\ Waits /\ child[started] = "reaped"
  /\ main' = "idle" /\ status' = "0"
  /\ UNCHANGED <<started, hit, children, settings, signals, errno, log, failed>>

(* The handler was faster: there is no such child. *)
AlreadyReaped ==
  /\ Waits /\ child[started] = "reaped"
  /\ StartFails("ECHILD")

WaitInterrupted ==
  /\ Waits /\ hit /\ ~restarts /\ child[started] # "reaped"
  /\ StartFails("EINTR")

-----------------------------------------------------------------------------
(* sigchld_handler *)

(* One waitpid for every signal *)
HandlerReapsOnce(p) ==
  /\ handler = "running" /\ child[p] = "zombie"
  /\ Reap(p, "handler")
  /\ noticed' = p
  /\ errno' = serrno /\ handler' = "idle"
  /\ hit' = (hit \/ main = "waiting")
  /\ UNCHANGED <<main, started, status, settings, pending, serrno, log, failed>>

HandlerReaps(p) ==
  /\ handler = "running" /\ child[p] = "zombie"
  /\ Reap(p, "handler")
  /\ noticed' = p
  /\ UNCHANGED <<starts, settings, pending, handler, serrno, errno, log, failed>>

(* errno is left as waitpid has set it. *)
HandlerEndsNoRestore ==
  /\ handler = "running" /\ Children("zombie") = {}
  /\ errno' = IF Children("running") = {} THEN "ECHILD" ELSE errno
  /\ handler' = "idle"
  /\ hit' = (hit \/ main = "waiting")
  /\ UNCHANGED <<main, started, status, children, settings, pending, serrno, noticed, log,
                 failed>>

(* waitpid returns 0, or -1 and ECHILD in errno if there are no children at
   all; then errno is put back. *)
HandlerEnds ==
  /\ handler = "running" /\ Children("zombie") = {}
  /\ errno' = serrno
  /\ handler' = "idle"
  /\ hit' = (hit \/ main = "waiting")
  /\ UNCHANGED <<main, started, status, children, settings, pending, serrno, noticed, log,
                 failed>>

-----------------------------------------------------------------------------
(* The log *)

(* fopen with "w+": what was in the file is gone. *)
CreateLogfile ==
  /\ Runs
  /\ do_log' = TRUE /\ lfp' = "open" /\ logged' = 0
  /\ UNCHANGED <<starts, children, settings, signals, errno, failed>>

CreateFails ==
  /\ Runs
  /\ lfp' = "null" /\ errno' = "ENOENT" /\ failed' = TRUE
  /\ UNCHANGED <<starts, children, settings, signals, do_log, logged>>

(* Closing twice what could not be closed once is undefined. *)
CloseLogfile ==
  /\ Runs /\ (do_log => lfp # "null")
  /\ IF do_log /\ lfp = "closed" THEN main' = "undefined" ELSE UNCHANGED main
  /\ do_log' = FALSE /\ lfp' = IF do_log THEN "closed" ELSE lfp
  /\ UNCHANGED <<started, status, hit, children, settings, signals, errno, logged, failed>>

(* fclose fails, or there is nothing to close: do_log stays set. *)
CloseFails ==
  /\ Runs /\ do_log /\ lfp # "closed"
  /\ lfp' = (IF lfp = "null" THEN "null" ELSE "closed")
  /\ errno' = (IF lfp = "null" THEN errno ELSE "EIO") /\ failed' = TRUE
  /\ UNCHANGED <<starts, children, settings, signals, do_log, logged>>

LogDo ==
  /\ Runs /\ do_log
  /\ IF lfp = "open" /\ errno = "0"
     THEN /\ logged' = (IF logged < MaxMessages THEN logged + 1 ELSE logged)
          /\ UNCHANGED main
     ELSE main' = "undefined" /\ UNCHANGED logged
  /\ UNCHANGED <<started, status, hit, children, settings, signals, errno, do_log, lfp, failed>>

-----------------------------------------------------------------------------
ProcessStart ==
  \/ \E p \in Pids : ForkChild(p)
  \/ ForkFails \/ ChildCompletes \/ AlreadyReaped \/ WaitInterrupted

Handle == HandlerEnds \/ \E p \in Pids : HandlerReaps(p)

Log == CreateLogfile \/ CreateFails \/ CloseLogfile \/ CloseFails \/ LogDo

Next ==
  \/ \E p \in Pids : ForkInBackground(p) \/ ChildEnds(p)
  \/ ProcessStart \/ Signalled \/ Handle \/ Log

Spec == Init /\ [][Next]_vars

(* Signals are delivered and the handler runs; the children of the program may
   run for ever. *)
FairSpec ==
  Spec /\ WF_vars(Signalled) /\ WF_vars(Handle) /\ WF_vars(ChildCompletes \/ AlreadyReaped)

-----------------------------------------------------------------------------
TypeOK ==
  /\ main \in {"idle", "waiting", "undefined"} /\ started \in Pids \cup {None}
  /\ status \in {"none", "0", "-1"}
  /\ child \in [Pids -> {"none", "running", "zombie", "reaped"}]
  /\ reaper \in [Pids -> {"none", "process_start", "handler"}]
  /\ {installed, restarts, pending, hit, do_log, failed} \subseteq BOOLEAN
  /\ handler \in {"idle", "running"} /\ noticed \in Pids \cup {None}
  /\ {errno, serrno} \subseteq {"0", "EAGAIN", "ECHILD", "EINTR", "ENOENT", "EIO"}
  /\ lfp \in {"null", "open", "closed"} /\ logged \in 0..MaxMessages

(* process_start returns 0 only if its own waitpid got the status of the child
   it started, and without a handler it returns -1 for no child it has started
   (common.c:765-789). *)
StartTellsTruth ==
  /\ status = "0" => reaper[started] = "process_start"
  /\ status = "-1" /\ ~installed /\ started # None => child[started] = "reaped"

(* As long as no call has failed, logging is defined: no child that ends, at
   whatever moment, leaves an errno that log_do takes for its own
   (common.c:670-690, 730-759), and the stream log_do writes to is open
   (common.c:621-667). *)
LoggingDefined == main = "undefined" => failed

(* SIGCHLD is not queued, yet while there is a child to be collected the signal
   is pending or the handler still has a waitpid ahead of it, at whatever moment
   the child has ended and however many have (common.c:730-759). *)
NoZombieForgotten ==
  installed => (Children("zombie") # {} => pending \/ handler = "running")

(* Signals are not queued, but every child that ends is collected, by the
   handler, or by process_start if it waits for it (common.c:730-759, 765-789). *)
ChildrenCollected ==
  \A p \in Pids :
    child[p] = "zombie" /\ (installed \/ (main = "waiting" /\ started = p)) ~>
      child[p] = "reaped" \/ main = "undefined"
=============================================================================
