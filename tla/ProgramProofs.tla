--------------------------- MODULE ProgramProofs ---------------------------
(***************************************************************************)
(* Theorems about the two programs around the library, for any number of   *)
(* children, signals, lines and messages.  Of common.c, in Jobs: what      *)
(* process_start returns is true, and logging is defined until a call has  *)
(* failed.  Of the client tool: it never acts out of turn as long as no    *)
(* signal cuts a receive short.  And of the conversions in Hex and         *)
(* Strings, for texts, buffers and numbers of any length: they do what     *)
(* their header says.                                                      *)
(***************************************************************************)
EXTENDS MCJobs, ClientTool, SequenceTheorems, WellFoundedInduction, TLAPS

-----------------------------------------------------------------------------
(* Init establishes the types. *)
LEMMA InitTypeOK == Init => TypeOK
<1> SUFFICES ASSUME Init PROVE TypeOK OBVIOUS
<1>1. logged \in 0..MaxMessages
  BY JobsAssumption DEF Init, JobsAssumption
<1>2. QED
  BY <1>1 DEF Init, TypeOK

(* What each group of steps does to the types *)
LEMMA KernelTypeOK ==
  ASSUME TypeOK, NEW p \in Pids, ForkInBackground(p) \/ ChildEnds(p)
  PROVE  TypeOK'
<1>1. CASE ForkInBackground(p)
  BY <1>1 DEF ForkInBackground, TypeOK, starts, settings, signals, log
<1>2. CASE ChildEnds(p)
  BY <1>2 DEF ChildEnds, TypeOK, starts, settings, signals, log
<1>3. QED BY <1>1, <1>2

LEMMA StartTypeOK ==
  ASSUME TypeOK, ProcessStart
  PROVE  TypeOK'
<1>1. CASE \E p \in Pids : ForkChild(p)
  <2>1. PICK p \in Pids : ForkChild(p) BY <1>1
  <2>2. QED BY <2>1 DEF ForkChild, TypeOK, settings, signals, log
<1>2. ASSUME NEW reason \in {"EAGAIN", "ECHILD", "EINTR"}, StartFails(reason)
      PROVE  TypeOK'
  BY <1>2 DEF StartFails, TypeOK, children, settings, signals, log
<1>3. CASE ForkFails BY <1>2, <1>3 DEF ForkFails
<1>4. CASE AlreadyReaped BY <1>2, <1>4 DEF AlreadyReaped
<1>5. CASE WaitInterrupted BY <1>2, <1>5 DEF WaitInterrupted
<1>6. CASE ChildCompletes
  <2>1. started \in Pids => TypeOK'
    BY <1>6 DEF ChildCompletes, Reap, TypeOK, settings, signals, log
  <2>2. started \notin Pids => TypeOK'
    BY <1>6 DEF ChildCompletes, Reap, TypeOK, settings, signals, log
  <2>3. QED BY <2>1, <2>2
<1>7. QED BY <1>1, <1>3, <1>4, <1>5, <1>6 DEF ProcessStart

LEMMA HandlerTypeOK ==
  ASSUME TypeOK, Handle
  PROVE  TypeOK'
<1>1. CASE HandlerEnds
  BY <1>1 DEF HandlerEnds, TypeOK, children, settings, log
<1>2. ASSUME NEW p \in Pids, HandlerReaps(p)
      PROVE  TypeOK'
  BY <1>2 DEF HandlerReaps, Reap, TypeOK, starts, settings, log
<1>3. QED BY <1>1, <1>2 DEF Handle

LEMMA LogTypeOK ==
  ASSUME TypeOK, Log
  PROVE  TypeOK'
<1>1. CASE CreateLogfile
  BY <1>1, JobsAssumption DEF JobsAssumption, CreateLogfile, TypeOK, starts, children, settings,
      signals
<1>2. CASE CreateFails
  BY <1>2 DEF CreateFails, TypeOK, starts, children, settings, signals
<1>3. CASE CloseLogfile
  BY <1>3 DEF CloseLogfile, TypeOK, children, settings, signals
<1>4. CASE CloseFails
  BY <1>4 DEF CloseFails, TypeOK, starts, children, settings, signals
<1>5. CASE LogDo
  BY <1>5, JobsAssumption DEF JobsAssumption, LogDo, TypeOK, children, settings, signals
<1>6. QED BY <1>1, <1>2, <1>3, <1>4, <1>5 DEF Log

LEMMA StepTypeOK == TypeOK /\ [Next]_vars => TypeOK'
<1> SUFFICES ASSUME TypeOK, [Next]_vars PROVE TypeOK' OBVIOUS
<1>1. CASE UNCHANGED vars
  BY <1>1 DEF TypeOK, vars, starts, children, settings, signals, log
<1>2. CASE \E p \in Pids : ForkInBackground(p) \/ ChildEnds(p)
  BY <1>2, KernelTypeOK
<1>3. CASE Signalled
  BY <1>3 DEF Signalled, TypeOK, starts, children, settings, log
<1>4. CASE ProcessStart BY <1>4, StartTypeOK
<1>5. CASE Handle BY <1>5, HandlerTypeOK
<1>6. CASE Log BY <1>6, LogTypeOK
<1>7. QED BY <1>1, <1>2, <1>3, <1>4, <1>5, <1>6 DEF Next

(* Every variable of Jobs has its type: what process_start and the handler
   leave in each other's way is a process, a status or an errno. *)
THEOREM TypeCorrect == Spec => []TypeOK
<1>1. QED BY InitTypeOK, StepTypeOK, PTL DEF Spec

-----------------------------------------------------------------------------
(* The child whose status process_start returned stays its own: it is reaped,
   and the handler takes zombies only. *)
OwnStatus ==
  status = "0" =>
    started \in Pids /\ child[started] = "reaped" /\ reaper[started] = "process_start"

(* Without a handler nothing comes between the fork and the end of waitpid. *)
Undisturbed ==
  /\ main = "waiting" => started \in Pids /\ status = "none"
  /\ ~installed =>
       /\ ~pending /\ handler = "idle" /\ ~hit
       /\ started # None /\ main # "waiting" => child[started] = "reaped"

StartInv == TypeOK /\ OwnStatus /\ Undisturbed

LEMMA InitStartInv == Init => StartInv
BY InitTypeOK DEF Init, StartInv, OwnStatus, Undisturbed

LEMMA KernelStartInv ==
  ASSUME StartInv, NEW p \in Pids, ForkInBackground(p) \/ ChildEnds(p)
  PROVE  OwnStatus' /\ Undisturbed'
<1>1. CASE ForkInBackground(p)
  BY <1>1, JobsAssumption
  DEF ForkInBackground, Runs, StartInv, TypeOK, OwnStatus, Undisturbed, JobsAssumption,
      starts, settings, signals
<1>2. CASE ChildEnds(p)
  BY <1>2, JobsAssumption
  DEF ChildEnds, StartInv, TypeOK, OwnStatus, Undisturbed, JobsAssumption, starts, settings
<1>3. QED BY <1>1, <1>2

LEMMA ProcessStartInv ==
  ASSUME StartInv, ProcessStart
  PROVE  OwnStatus' /\ Undisturbed'
<1>1. ASSUME NEW p \in Pids, ForkChild(p)
      PROVE  OwnStatus' /\ Undisturbed'
  BY <1>1 DEF ForkChild, Runs, StartInv, TypeOK, OwnStatus, Undisturbed, settings, signals
<1>2. CASE ForkFails
  BY <1>2 DEF ForkFails, StartFails, Runs, StartInv, TypeOK, OwnStatus, Undisturbed, children,
              settings, signals
<1>3. CASE ChildCompletes
  <2>1. started \in Pids
    BY <1>3 DEF ChildCompletes, Waits, StartInv, Undisturbed
  <2>2. child'[started] = "reaped" /\ reaper'[started] = "process_start"
    BY <1>3, <2>1 DEF ChildCompletes, Reap, StartInv, TypeOK
  <2>3. QED
    BY <1>3, <2>1, <2>2
    DEF ChildCompletes, StartInv, TypeOK, OwnStatus, Undisturbed, settings, signals
<1>4. CASE AlreadyReaped
  BY <1>4 DEF AlreadyReaped, StartFails, Waits, StartInv, TypeOK, OwnStatus, Undisturbed,
              children, settings, signals
<1>5. CASE WaitInterrupted
  BY <1>5 DEF WaitInterrupted, StartFails, Waits, StartInv, TypeOK, OwnStatus, Undisturbed,
              children, settings, signals
<1>6. QED BY <1>1, <1>2, <1>3, <1>4, <1>5 DEF ProcessStart

LEMMA HandlerStartInv ==
  ASSUME StartInv, Handle
  PROVE  OwnStatus' /\ Undisturbed'
<1>1. CASE HandlerEnds
  BY <1>1 DEF HandlerEnds, StartInv, TypeOK, OwnStatus, Undisturbed, children, settings
<1>2. ASSUME NEW p \in Pids, HandlerReaps(p)
      PROVE  OwnStatus' /\ Undisturbed'
  <2>1. installed
    BY <1>2 DEF HandlerReaps, StartInv, TypeOK, Undisturbed
  <2>2. status = "0" => p # started
    BY <1>2 DEF HandlerReaps, StartInv, OwnStatus
  <2>3. QED
    BY <1>2, <2>1, <2>2
    DEF HandlerReaps, Reap, StartInv, TypeOK, OwnStatus, Undisturbed, starts, settings
<1>3. QED BY <1>1, <1>2 DEF Handle

(* What the log does leaves children and signals alone. *)
LEMMA LogStartInv ==
  ASSUME StartInv, Log
  PROVE  OwnStatus' /\ Undisturbed'
<1>1. UNCHANGED <<started, status, hit, children, settings, signals>>
  BY DEF Log, CreateLogfile, CreateFails, CloseLogfile, CloseFails, LogDo, starts
<1>2. main = "idle" /\ main' \in {"idle", "undefined"}
  BY DEF Log, CreateLogfile, CreateFails, CloseLogfile, CloseFails, LogDo, Runs, starts
<1>3. QED
  BY <1>1, <1>2 DEF StartInv, OwnStatus, Undisturbed, children, settings, signals

LEMMA StepStartInv == StartInv /\ [Next]_vars => StartInv'
<1> SUFFICES ASSUME StartInv, [Next]_vars PROVE OwnStatus' /\ Undisturbed'
  BY StepTypeOK DEF StartInv
<1>1. CASE UNCHANGED vars
  BY <1>1
  DEF StartInv, OwnStatus, Undisturbed, vars, starts, children, settings, signals
<1>2. CASE \E p \in Pids : ForkInBackground(p) \/ ChildEnds(p)
  BY <1>2, KernelStartInv
<1>3. CASE Signalled
  BY <1>3
  DEF Signalled, StartInv, TypeOK, OwnStatus, Undisturbed, starts, children, settings
<1>4. CASE ProcessStart BY <1>4, ProcessStartInv
<1>5. CASE Handle BY <1>5, HandlerStartInv
<1>6. CASE Log BY <1>6, LogStartInv
<1>7. QED BY <1>1, <1>2, <1>3, <1>4, <1>5, <1>6 DEF Next

LEMMA StartInvTruth == StartInv => StartTellsTruth
BY DEF StartInv, TypeOK, OwnStatus, Undisturbed, StartTellsTruth

(* process_start returns 0 only for a child whose status its own waitpid got,
   however many children end and whenever the handler runs; and without a
   handler it returns -1 for no child it has started (common.c:765-789). *)
THEOREM StartIsTruthful == Spec => []StartTellsTruth
<1>1. QED BY InitStartInv, StepStartInv, StartInvTruth, PTL DEF Spec

-----------------------------------------------------------------------------
(* A child that ends raises the signal, a signal that is taken runs the handler,
   and the handler does not end before it has collected every zombie. *)
LEMMA StepZombies == TypeOK /\ NoZombieForgotten /\ [Next]_vars => NoZombieForgotten'
<1> SUFFICES ASSUME TypeOK, NoZombieForgotten, [Next]_vars PROVE NoZombieForgotten'
  OBVIOUS
<1>0. ASSUME Children("zombie")' \subseteq Children("zombie"), UNCHANGED <<installed, pending, handler>>
      PROVE  NoZombieForgotten'
  BY <1>0 DEF NoZombieForgotten
<1>1. CASE UNCHANGED vars
  BY <1>0, <1>1 DEF vars, children, settings, signals, Children
<1>2. ASSUME NEW p \in Pids, ForkInBackground(p) \/ ForkChild(p)
      PROVE  NoZombieForgotten'
  <2>1. child' = [child EXCEPT ![p] = "running"] /\ UNCHANGED <<installed, pending, handler>>
    BY <1>2 DEF ForkInBackground, ForkChild, settings, signals
  <2>2. Children("zombie")' \subseteq Children("zombie")
    BY <2>1 DEF TypeOK, Children
  <2> QED BY <1>0, <2>1, <2>2
<1>3. ASSUME NEW p \in Pids, ChildEnds(p)
      PROVE  NoZombieForgotten'
  BY <1>3 DEF ChildEnds, settings, NoZombieForgotten
<1>4. CASE Signalled
  BY <1>4 DEF Signalled, settings, NoZombieForgotten
<1>5. CASE ChildCompletes
  <2>1. child' = [child EXCEPT ![started] = "reaped"] /\ UNCHANGED <<installed, pending, handler>>
    BY <1>5 DEF ChildCompletes, Reap, settings, signals
  <2>2. Children("zombie")' \subseteq Children("zombie")
    BY <2>1 DEF TypeOK, Children
  <2> QED BY <1>0, <2>1, <2>2
<1>6. CASE ForkFails \/ AlreadyReaped \/ WaitInterrupted
  BY <1>0, <1>6
  DEF ForkFails, AlreadyReaped, WaitInterrupted, StartFails, children, settings, signals, Children
<1>7. CASE HandlerEnds
  BY <1>7 DEF HandlerEnds, children, settings, NoZombieForgotten, Children
<1>8. ASSUME NEW p \in Pids, HandlerReaps(p)
      PROVE  NoZombieForgotten'
  <2>1. handler' = "running"
    BY <1>8 DEF HandlerReaps
  <2> QED BY <2>1 DEF NoZombieForgotten
<1>9. CASE Log
  BY <1>0, <1>9
  DEF Log, CreateLogfile, CreateFails, CloseLogfile, CloseFails, LogDo, children, settings, signals,
      Children
<1>10. QED
  BY <1>1, <1>2, <1>3, <1>4, <1>5, <1>6, <1>7, <1>8, <1>9 DEF Next, ProcessStart, Handle

(* With a handler no child that has ended is left behind, for any number of
   children and signals (common.c:730-759). *)
THEOREM NoneIsForgotten == Spec => []NoZombieForgotten
<1>1. Init => NoZombieForgotten
  BY DEF Init, NoZombieForgotten, Children
<1>2. QED BY <1>1, InitTypeOK, StepTypeOK, StepZombies, PTL DEF Spec

-----------------------------------------------------------------------------
(* Before the first failure errno is 0, also when the handler puts it back, and
   there is a stream if there is a log. *)
QuietInv ==
  ~failed =>
    /\ main # "undefined" /\ errno = "0"
    /\ handler = "running" => serrno = "0"
    /\ do_log => lfp = "open"

LEMMA StepQuietInv == TypeOK /\ QuietInv /\ [Next]_vars => QuietInv'
<1> SUFFICES ASSUME TypeOK, QuietInv, [Next]_vars PROVE QuietInv' OBVIOUS
<1>1. CASE UNCHANGED vars
  BY <1>1 DEF QuietInv, vars, starts, signals, log
<1>2. CASE \E p \in Pids : ForkInBackground(p) \/ ChildEnds(p)
  BY <1>2 DEF ForkInBackground, ChildEnds, QuietInv, starts, signals, log
<1>3. CASE Signalled
  BY <1>3 DEF Signalled, QuietInv, starts, log
<1>4. CASE ProcessStart
  <2>1. CASE \E p \in Pids : ForkChild(p)
    BY <1>4, <2>1 DEF ForkChild, QuietInv, signals, log
  <2>2. CASE ChildCompletes
    BY <2>2 DEF ChildCompletes, QuietInv, signals, log
  <2>3. CASE ForkFails \/ AlreadyReaped \/ WaitInterrupted
    BY <2>3 DEF ForkFails, AlreadyReaped, WaitInterrupted, StartFails, QuietInv
  <2>4. QED BY <1>4, <2>1, <2>2, <2>3 DEF ProcessStart
<1>5. CASE Handle
  BY <1>5 DEF Handle, HandlerEnds, HandlerReaps, QuietInv, starts, log
<1>6. CASE Log
  <2>1. CASE CreateLogfile BY <2>1 DEF CreateLogfile, QuietInv, starts, signals
  <2>2. CASE CreateFails BY <2>2 DEF CreateFails, QuietInv
  <2>3. CASE CloseLogfile BY <2>3 DEF CloseLogfile, QuietInv, signals
  <2>4. CASE CloseFails BY <2>4 DEF CloseFails, QuietInv
  <2>5. CASE LogDo BY <2>5 DEF LogDo, QuietInv, signals
  <2>6. QED BY <1>6, <2>1, <2>2, <2>3, <2>4, <2>5 DEF Log
<1>7. QED BY <1>1, <1>2, <1>3, <1>4, <1>5, <1>6 DEF Next

(* Before the first failure of a call nothing the log functions do is
   undefined: the handler, which interrupts them anywhere and whose last
   waitpid fails, leaves no errno behind (common.c:670-690, 730-759). *)
THEOREM LoggingIsDefined == Spec => []LoggingDefined
<1>1. Init => QuietInv
  BY DEF Init, QuietInv
<1>2. QuietInv => LoggingDefined
  BY DEF QuietInv, LoggingDefined
<1>3. QED BY <1>1, <1>2, InitTypeOK, StepTypeOK, StepQuietInv, PTL DEF Spec

-----------------------------------------------------------------------------
(* The client tool *)

(* Of the two flags exactly one is set, also for sockets that do not flip. *)
FlagsInv ==
  /\ canSend \in BOOLEAN /\ canRecv \in BOOLEAN /\ cut \in BOOLEAN
  /\ canSend <=> ~canRecv
  /\ inbox \in Nat

(* What the last poll reported may still be done when its turn comes. *)
PollInv ==
  /\ pc = "poll" => asked = Wanted
  /\ pc = "socket" /\ "socket" \in ready => canRecv /\ inbox > 0
  /\ pc \in {"socket", "stdin"} /\ "stdin" \in ready => canSend
  /\ pc \in {"reading", "sending"} => canSend
  /\ pc \in {"starting", "top", "poll", "socket", "stdin"} => message = <<>>

(* Until a receive is cut short the flags of a socket that flips follow its
   turn, but for a request that was thrown away, and a message is there only
   when it is to be received. *)
TurnInv ==
  Flips /\ ~cut =>
    /\ canSend => turn = "send"
    /\ inbox > 0 => inbox = 1 /\ turn = "receive"

ToolInv == FlagsInv /\ PollInv /\ TurnInv /\ KeepsTurns

LEMMA InitToolInv == ToolInit => ToolInv
<1> SUFFICES ASSUME ToolInit PROVE ToolInv OBVIOUS
<1>1. FlagsInv
  <2>1. canRecv \in BOOLEAN /\ canSend = ~canRecv BY DEF ToolInit
  <2>2. cut \in BOOLEAN /\ inbox \in Nat BY DEF ToolInit
  <2>3. QED BY <2>1, <2>2, Zenon DEF FlagsInv
<1>2. PollInv BY DEF ToolInit, PollInv
<1>3. TurnInv
  <2>1. canSend => options.type \notin Receivers BY Zenon DEF ToolInit
  <2>2. inbox = 0 /\ (options.type \notin Receivers => turn = "send") BY DEF ToolInit
  <2>3. QED BY <2>1, <2>2 DEF TurnInv
<1>4. KeepsTurns BY DEF ToolInit, KeepsTurns
<1>5. QED BY <1>1, <1>2, <1>3, <1>4 DEF ToolInv

(* Nothing that happens outside takes away what the tool relies on. *)
LEMMA WorldToolInv ==
  ASSUME ToolInv, (\E line \in Line : Enter(line)) \/ CloseInput \/ Arrive
  PROVE  ToolInv'
<1>1. ASSUME UNCHANGED <<options, pc, exit, flags, polled, message, socket>>
      PROVE  ToolInv'
  BY <1>1
  DEF ToolInv, FlagsInv, PollInv, TurnInv, KeepsTurns, Wanted, HasStdin,
      Flips, flags, polled,
      socket
<1>2. CASE (\E line \in Line : Enter(line)) \/ CloseInput
  BY <1>1, <1>2 DEF Enter, CloseInput
<1>3. CASE Arrive
  <2>1. inbox' = inbox + 1 /\ inbox' \in Nat /\ inbox' > 0
    BY <1>3 DEF Arrive, ToolInv, FlagsInv
  <2>2. FlagsInv' /\ PollInv' /\ KeepsTurns'
    BY <1>3, <2>1
    DEF Arrive, ToolInv, FlagsInv, PollInv, KeepsTurns, Wanted, HasStdin,
        flags, polled
  <2>3. TurnInv'
    BY <1>3, <2>1 DEF Arrive, ToolInv, FlagsInv, TurnInv, Flips, flags
  <2>4. QED BY <2>2, <2>3 DEF ToolInv
<1>4. QED BY <1>2, <1>3

LEMMA PollToolInv ==
  ASSUME ToolInv,
  Start \/ StartRefused \/ CheckFor \/ Poll \/ PollInterrupted
  PROVE  ToolInv'
<1>1. UNCHANGED <<options, flags, message, socket>>
  BY DEF Start, StartRefused, CheckFor, Poll, PollInterrupted
<1>2. FlagsInv' /\ TurnInv'
  BY <1>1 DEF ToolInv, FlagsInv, TurnInv, Flips, flags, socket
<1>3. KeepsTurns'
  BY <1>1
  DEF Start, StartRefused, CheckFor, Poll, PollInterrupted, Exit,
      ToolInv, KeepsTurns, socket
<1>4. PollInv'
  <2>1. CASE Start \/ StartRefused \/ PollInterrupted
    BY <1>1, <2>1 DEF Start, StartRefused, PollInterrupted, Exit, ToolInv,
        PollInv, flags, socket
  <2>2. CASE CheckFor
    BY <1>1, <2>2 DEF CheckFor, Wanted, HasStdin, ToolInv, PollInv, flags,
        socket
  <2>3. CASE Poll
    BY <1>1, <2>3 DEF Poll, StdinReady, Wanted, ToolInv, PollInv, flags,
        socket
  <2>4. QED BY <2>1, <2>2, <2>3
<1>5. QED BY <1>2, <1>3, <1>4 DEF ToolInv

(* The socket is served: what was reported is there, and it is its turn. *)
LEMMA ServeSocketToolInv ==
  ASSUME ToolInv, ServeSocket
  PROVE  ToolInv'
<1>1. canRecv /\ ~canSend /\ inbox > 0 /\ "stdin" \notin ready /\ message = <<>>
  BY DEF ServeSocket, ToolInv, FlagsInv, PollInv
<1>2. CASE Flips /\ turn # "receive"
  <2>1. cut
    BY <1>1, <1>2 DEF ToolInv, FlagsInv, TurnInv
  <2>2. UNCHANGED <<flags, socket>> /\ pc' = "exited" /\ cut'
    BY <1>2, <2>1 DEF ServeSocket, Exit, socket
  <2>3. QED
    BY <2>2 DEF ToolInv, FlagsInv, PollInv, TurnInv, KeepsTurns, flags, socket
<1>3. CASE ~(Flips /\ turn # "receive")
  <2>1. /\ inbox' = inbox - 1 /\ turn' = "send" /\ cut' = cut
        /\ Toggle(FALSE) /\ pc' = "stdin" /\ exit' = exit
        /\ UNCHANGED <<options, polled, stdin, message>>
    <3>1. ~(~canRecv \/ inbox = 0 \/ (Flips /\ turn # "receive"))
      BY <1>1, <1>3 DEF ToolInv, FlagsInv
    <3>2. QED BY <3>1, Zenon DEF ServeSocket
  <2>2. FlagsInv'
    <3>1. canSend' \in BOOLEAN /\ canRecv' \in BOOLEAN /\ (canSend' <=> ~canRecv')
      BY <2>1, Zenon DEF Toggle, ToolInv, FlagsInv
    <3>2. cut' \in BOOLEAN /\ inbox' \in Nat
      BY <1>1, <2>1 DEF ToolInv, FlagsInv
    <3>3. QED BY <3>1, <3>2, Zenon DEF FlagsInv
  <2>3. PollInv'
    BY <1>1, <2>1 DEF PollInv, polled
  <2>4. TurnInv'
    BY <1>1, <2>1 DEF ToolInv, FlagsInv, TurnInv, Flips
  <2>5. KeepsTurns'
    BY <2>1 DEF ToolInv, KeepsTurns
  <2>6. QED BY <2>2, <2>3, <2>4, <2>5 DEF ToolInv
<1>4. QED BY <1>2, <1>3

LEMMA ServeToolInv ==
  ASSUME ToolInv,
  NothingOnSocket \/ ServeStdin \/ NothingOnStdin \/ ServeSocketInterrupted
  PROVE  ToolInv'
<1>1. CASE ServeSocketInterrupted
  <2>1. canRecv /\ "stdin" \notin ready /\ message = <<>>
    BY <1>1 DEF ServeSocketInterrupted, ToolInv, FlagsInv, PollInv
  <2>2. QED
    BY <1>1, <2>1
    DEF ServeSocketInterrupted, Toggle, ToolInv, FlagsInv, PollInv, TurnInv,
        KeepsTurns,
        polled
<1>2. CASE NothingOnSocket \/ ServeStdin \/ NothingOnStdin
  <2>1. UNCHANGED <<options, flags, polled, message, socket>>
    BY <1>2 DEF NothingOnSocket, ServeStdin, NothingOnStdin
  <2>2. ServeStdin => canSend /\ message = <<>>
    BY DEF ServeStdin, ToolInv, PollInv
  <2>3. PollInv'
    BY <1>2, <2>1, <2>2
    DEF NothingOnSocket, ServeStdin, NothingOnStdin, Exit, ToolInv, PollInv,
        flags, polled,
        socket
  <2>4. KeepsTurns'
    BY <1>2, <2>1, <2>2
    DEF NothingOnSocket, ServeStdin, NothingOnStdin, Exit, ToolInv,
        KeepsTurns, socket
  <2>5. QED
    BY <2>1, <2>3, <2>4 DEF ToolInv, FlagsInv, TurnInv, Flips, flags, socket
<1>3. QED BY <1>1, <1>2

LEMMA ReadToolInv ==
  ASSUME ToolInv, Read
  PROVE  ToolInv'
<1>1. pc = "reading" /\ canSend /\ UNCHANGED <<options, flags, polled, socket>>
  BY DEF Read, ReadLine, ReadFails, ToolInv, PollInv
<1>2. /\ pc' \in {"top", "sending", "reading", "exited"}
      /\ exit' # "abort" \/ exit' = exit
      /\ pc' = "top" => message' = <<>>
  BY <1>1 DEF Read, ReadLine, ReadFails, Exit
<1>3. QED
  BY <1>1, <1>2
  DEF ToolInv, FlagsInv, PollInv, TurnInv, KeepsTurns, Flips, flags, polled,
      socket

LEMMA SendToolInv ==
  ASSUME ToolInv, Send \/ SendFails
  PROVE  ToolInv'
<1>1. pc = "sending" /\ canSend /\ UNCHANGED options
  BY DEF Send, SendFails, ToolInv, PollInv
<1>2. CASE Send /\ Flips /\ turn # "send"
  <2>1. cut /\ cut' /\ pc' = "exited" /\ UNCHANGED <<flags, message, socket>>
    BY <1>1, <1>2 DEF Send, Exit, ToolInv, FlagsInv, TurnInv, socket
  <2>2. QED
    BY <2>1 DEF ToolInv, FlagsInv, PollInv, TurnInv, KeepsTurns, flags, socket
<1>3. CASE (Send /\ ~(Flips /\ turn # "send")) \/ SendFails
  <2>1. /\ Toggle(TRUE) /\ message' = <<>> /\ pc' = "top" /\ exit' = exit
        /\ inbox' = inbox /\ cut' = cut
    BY <1>3 DEF Send, SendFails, socket
  <2>2. FlagsInv' /\ KeepsTurns'
    BY <1>1, <2>1 DEF Toggle, ToolInv, FlagsInv, KeepsTurns
  <2>3. PollInv'
    BY <2>1 DEF PollInv
  <2>4. TurnInv'
    BY <1>1, <2>1 DEF Toggle, ToolInv, FlagsInv, TurnInv, Flips
  <2>5. QED BY <2>2, <2>3, <2>4 DEF ToolInv
<1>4. QED BY <1>2, <1>3

LEMMA StepToolInv == ToolInv /\ [ToolNext]_toolVars => ToolInv'
<1> SUFFICES ASSUME ToolInv, [ToolNext]_toolVars PROVE ToolInv' OBVIOUS
<1>1. CASE UNCHANGED toolVars
  BY <1>1
  DEF ToolInv, FlagsInv, PollInv, TurnInv, KeepsTurns, Wanted, HasStdin,
      Flips, toolVars, flags,
      polled, socket
<1>2. CASE (\E line \in Line : Enter(line)) \/ CloseInput \/ Arrive
  BY <1>2, WorldToolInv
<1>3. CASE Start \/ StartRefused \/ CheckFor \/ Poll \/ PollInterrupted
  BY <1>3, PollToolInv
<1>4. CASE Serve \/ ServeSocketInterrupted
  BY <1>4, ServeSocketToolInv, ServeToolInv DEF Serve
<1>5. CASE Read
  BY <1>5, ReadToolInv
<1>6. CASE Send \/ SendFails
  BY <1>6, SendToolInv
<1>7. QED BY <1>1, <1>2, <1>3, <1>4, <1>5, <1>6 DEF ToolNext

(* No assertion of main fails, no receive blocks and no request or reply socket
   is asked to act out of turn until a signal cuts a receive short, for every
   type of socket and however many lines and messages come (main.cpp:158-301). *)
THEOREM TurnsAreKept == ToolSpec => []KeepsTurns
<1>1. ToolInv => KeepsTurns
  BY DEF ToolInv
<1>2. QED BY <1>1, InitToolInv, StepToolInv, PTL DEF ToolSpec

(* What is at the socket has arrived there. *)
ToolTypeInv == ToolTypeOK /\ arrived \in 0..MaxArrivals /\ inbox <= arrived

LEMMA InitToolTypes == ToolInit => ToolTypeInv
<1> SUFFICES ASSUME ToolInit PROVE ToolTypeInv OBVIOUS
<1>1. canRecv \in BOOLEAN /\ canSend \in BOOLEAN BY DEF ToolInit
<1>2. turn \in {"send", "receive"} BY DEF ToolInit
<1>3. /\ entered \in Seq(Line) /\ buffered \in Seq(Line) /\ message \in Seq(Line)
      /\ closed \in BOOLEAN /\ cut \in BOOLEAN /\ asked = {} /\ ready = {}
  BY EmptySeq DEF ToolInit
<1>4. inbox \in 0..MaxArrivals /\ arrived \in 0..MaxArrivals /\ inbox <= arrived
  BY ClientToolAssumption DEF ToolInit
<1>5. options \in [type : Types, single : BOOLEAN, kind : Kinds] /\ pc = "starting" /\ exit = "none"
  BY DEF ToolInit
<1>6. QED BY <1>1, <1>2, <1>3, <1>4, <1>5 DEF ToolTypeInv, ToolTypeOK

LEMMA ToggleTypes ==
  ASSUME {canSend, canRecv} \subseteq BOOLEAN, NEW b \in BOOLEAN, Toggle(b)
  PROVE  {canSend', canRecv'} \subseteq BOOLEAN
<1>1. canSend' \in BOOLEAN BY DEF Toggle
<1>2. canRecv' \in BOOLEAN BY DEF Toggle
<1>3. QED BY <1>1, <1>2

LEMMA OneMoreOneLess ==
  ASSUME NEW m \in Nat, NEW a \in 0..m, NEW i \in 0..m, i <= a
  PROVE  /\ a < m => i + 1 \in 0..m /\ a + 1 \in 0..m /\ i + 1 <= a + 1
         /\ i # 0 => i - 1 \in 0..m /\ i - 1 <= a
OBVIOUS

LEMMA StepToolTypes == ToolTypeInv /\ [ToolNext]_toolVars => ToolTypeInv'
<1> SUFFICES ASSUME ToolTypeInv, [ToolNext]_toolVars PROVE ToolTypeInv' OBVIOUS
<1>0. /\ MaxArrivals \in Nat /\ arrived \in 0..MaxArrivals /\ inbox \in 0..MaxArrivals
      /\ inbox <= arrived
  BY ClientToolAssumption DEF ToolTypeInv, ToolTypeOK
<1> USE DEF ToolTypeInv, ToolTypeOK
<1>1. CASE UNCHANGED toolVars
  BY <1>1 DEF toolVars, flags, polled, stdin, socket
<1>2. CASE CloseInput
  BY <1>2 DEF CloseInput, flags, polled, socket
<1>3. CASE Arrive
  <2>1. inbox' \in 0..MaxArrivals /\ arrived' \in 0..MaxArrivals /\ inbox' <= arrived'
    <3>1. arrived < MaxArrivals /\ inbox' = inbox + 1 /\ arrived' = arrived + 1
      BY <1>3 DEF Arrive
    <3> QED BY <1>0, <3>1, OneMoreOneLess, Zenon
  <2> QED BY <1>3, <2>1 DEF Arrive, flags, polled, stdin
<1>4. ASSUME NEW line \in Line, Enter(line) PROVE ToolTypeInv'
  <2>1. closed' \in BOOLEAN BY <1>4 DEF Enter
  <2>2. entered' \in Seq(Line) BY <1>4, AppendProperties DEF Enter
  <2> QED BY <1>4, <2>1, <2>2 DEF Enter, flags, polled, socket
<1>5. CASE Start \/ StartRefused \/ PollInterrupted \/ NothingOnSocket \/ NothingOnStdin \/ ServeStdin
  BY <1>5
  DEF Start, StartRefused, PollInterrupted, NothingOnSocket, NothingOnStdin, ServeStdin, Exit,
      flags, polled, stdin, socket
<1>6. CASE CheckFor
  BY <1>6 DEF CheckFor, Wanted, flags, stdin, socket
<1>7. CASE Poll
  BY <1>7 DEF Poll, flags, stdin, socket
<1>8. CASE ServeSocket
  <2>1. {canSend', canRecv'} \subseteq BOOLEAN
    BY <1>8, ToggleTypes DEF ServeSocket, flags
  <2>2. /\ inbox' \in 0..MaxArrivals /\ inbox' <= arrived /\ UNCHANGED <<arrived, cut>>
        /\ turn' \in {"send", "receive"}
    <3>1. CASE UNCHANGED socket BY <3>1 DEF socket
    <3>2. CASE inbox # 0 /\ inbox' = inbox - 1 /\ turn' = "send" /\ UNCHANGED <<arrived, cut>>
      BY <1>0, <3>2, OneMoreOneLess, Zenon
    <3> QED BY <1>8, <3>1, <3>2 DEF ServeSocket
  <2>3. pc' \in {"stdin", "exited"} /\ exit' \in {exit, "abort"}
    BY <1>8 DEF ServeSocket, Exit
  <2> QED BY <1>8, <2>1, <2>2, <2>3 DEF ServeSocket, polled, stdin
<1>9. CASE ServeSocketInterrupted
  <2>1. {canSend', canRecv'} \subseteq BOOLEAN
    BY <1>9, ToggleTypes DEF ServeSocketInterrupted
  <2> QED BY <1>9, <2>1 DEF ServeSocketInterrupted, polled, stdin
<1>10. CASE ReadLine
  <2> DEFINE from == IF buffered # <<>> THEN buffered ELSE entered
  <2>1. from \in Seq(Line) /\ from # <<>> BY <1>10 DEF ReadLine
  <2>2. Tail(from) \in Seq(Line) BY <2>1, HeadTailProperties
  <2>3. buffered' \in Seq(Line) /\ entered' \in Seq(Line)
    BY <1>10, <2>2 DEF ReadLine
  <2>4. "text" \in Line BY DEF Line
  <2>5. message' \in Seq(Line)
    <3>1. Append(message, "text") \in Seq(Line) BY <2>4, AppendProperties
    <3>2. message' = Append(message, "text") \/ message' = message BY <1>10 DEF ReadLine
    <3> QED BY <3>1, <3>2
  <2>6. pc' \in {"sending", "reading", "top", "exited"} /\ exit' \in {exit, "undefined"}
    BY <1>10 DEF ReadLine, Exit
  <2> HIDE DEF from
  <2> QED BY <1>10, <2>3, <2>5, <2>6 DEF ReadLine, flags, polled, socket
<1>11. CASE ReadFails
  BY <1>11 DEF ReadFails, Exit, flags, polled, stdin, socket
<1>12. CASE Send
  <2>1. {canSend', canRecv'} \subseteq BOOLEAN
    BY <1>12, ToggleTypes DEF Send, flags
  <2>2. /\ UNCHANGED <<inbox, arrived, cut>> /\ turn' \in {"send", "receive"}
        /\ message' \in Seq(Line)
    BY <1>12, EmptySeq DEF Send, socket
  <2>3. pc' \in {"top", "exited"} /\ exit' \in {exit, "abort"}
    BY <1>12 DEF Send, Exit
  <2> QED BY <1>12, <2>1, <2>2, <2>3 DEF Send, polled, stdin
<1>13. CASE SendFails
  <2>1. {canSend', canRecv'} \subseteq BOOLEAN
    BY <1>13, ToggleTypes DEF SendFails
  <2> QED BY <1>13, <2>1, EmptySeq DEF SendFails, polled, stdin, socket
<1>14. QED
  BY <1>1, <1>2, <1>3, <1>4, <1>5, <1>6, <1>7, <1>8, <1>9, <1>10, <1>11, <1>12, <1>13
  DEF ToolNext, Serve, Read

(* Of the client tool, for any types of socket and any input (main.cpp:145-266). *)
THEOREM ToolTypes == ToolSpec => []ToolTypeOK
<1>1. ToolTypeInv => ToolTypeOK BY DEF ToolTypeInv
<1>2. QED BY <1>1, InitToolTypes, StepToolTypes, PTL DEF ToolSpec

-----------------------------------------------------------------------------
(* The conversions of common.c, in Hex and Strings.  A recursive function of   *)
(* the model has a value because it is given step by step (Stepwise), and what *)
(* it computes is shown step by step (UpTo).                                   *)

(* Every set of natural numbers that is not empty has a smallest. *)
LEMMA Smallest ==
  ASSUME NEW T \in SUBSET Nat, T # {}
  PROVE  \E m \in T : \A k \in T : m <= k
<1> DEFINE less == OpToRel(<, Nat)
<1>1. \E m \in T : \A k \in T : ~(<<k, m>> \in less)
  BY NatLessThanWellFounded, WFMin
<1>2. \A k, m \in Nat : k < m => <<k, m>> \in less
  BY DEF OpToRel
<1> HIDE DEF less
<1>3. PICK m \in T : \A k \in T : ~(<<k, m>> \in less)
  BY <1>1
<1>4. \A k \in T : ~(k < m)
  BY <1>2, <1>3
<1> QED BY <1>3, <1>4

(* What holds of 0 and is handed on from n to n + 1 holds up to N. *)
LEMMA UpTo ==
  ASSUME NEW N \in Nat, NEW H, 0 \in H, \A n \in 0..N - 1 : n \in H => n + 1 \in H
  PROVE  \A n \in 0..N : n \in H
<1> DEFINE T == (0..N) \ H
<1> SUFFICES ASSUME T # {} PROVE FALSE
  OBVIOUS
<1>1. T \in SUBSET Nat /\ \A k \in T : k \in 0..N /\ k \notin H
  OBVIOUS
<1>2. \A k \in 0..N : k \notin T => k \in H
  OBVIOUS
<1> HIDE DEF T
<1>3. PICK m \in T : \A k \in T : m <= k
  BY <1>1, Smallest
<1>4. m # 0 /\ m \in 0..N /\ m \notin H
  BY <1>1, <1>3
<1>5. m - 1 \in 0..N - 1 /\ m - 1 \notin T
  BY <1>1, <1>3, <1>4
<1>6. m - 1 \in H
  BY <1>2, <1>4, <1>5
<1> QED BY <1>4, <1>5, <1>6

(* The characters that ctou8 knows: its loop never gets to the last one, `F'
   (common.c:456-475). *)
Chars == {Table[i] : i \in 1..21}

(* No character is in the table of u8nct twice. *)
LEMMA TableDistinct ==
  \A i, j \in 1..21 : Table[i] = Table[j] => i = j
BY SMTT(60) DEF Table

(* ctou8 gives the value of every digit it knows. *)
LEMMA DigitRead ==
  ASSUME NEW i \in 1..21
  PROVE  /\ Ctou8(Table[i]) = Num(i) /\ Num(i) \in 0..15
         /\ Numeral(Table[i]) = Num(i)
<1>1. Num(i) \in 0..15
  BY DEF Num
<1>2. Ctou8(Table[i]) = Num(i)
  BY TableDistinct DEF Ctou8
<1>3. \A d \in 0..15 : Table[i] = Table[d + 1] \/ (d > 9 /\ Table[i] = Table[d + 7]) => d = Num(i)
  <2> SUFFICES ASSUME NEW d \in 0..15, Table[i] = Table[d + 1] \/ (d > 9 /\ Table[i] = Table[d + 7])
               PROVE  d = Num(i)
    OBVIOUS
  <2>1. CASE Table[i] = Table[d + 1]
    <3>1. i = d + 1
      BY <2>1, TableDistinct
    <3> QED BY <3>1 DEF Num
  <2>2. CASE d > 9 /\ Table[i] = Table[d + 7]
    <3>1. CASE d = 15
      BY <2>2, <3>1, SMTT(30) DEF Table
    <3>2. CASE d # 15
      <4>1. d + 7 \in 17..21
        BY <2>2, <3>2
      <4>2. i = d + 7
        BY <2>2, <4>1, TableDistinct
      <4> QED BY <2>2, <4>2 DEF Num
    <3> QED BY <3>1, <3>2
  <2> QED BY <2>1, <2>2
<1>4. Table[i] = Table[Num(i) + 1] \/ (Num(i) > 9 /\ Table[i] = Table[Num(i) + 7])
  BY DEF Num
<1>5. Numeral(Table[i]) = Num(i)
  BY <1>1, <1>3, <1>4 DEF Numeral
<1> QED BY <1>1, <1>2, <1>5

(* So for these the code and the header agree on what a digit stands for. *)
LEMMA CharRead ==
  ASSUME NEW c \in Chars
  PROVE  Ctou8(c) = Numeral(c) /\ Ctou8(c) \in 0..15
BY DigitRead DEF Chars

(* The first n entries of a sequence, given entry by entry *)
LEMMA PrefixEntries ==
  ASSUME NEW S, NEW s \in Seq(S), NEW n \in Nat
  PROVE  LET m == IF n < Len(s) THEN n ELSE Len(s)
         IN /\ m \in 0..Len(s)
            /\ Prefix(s, n) \in Seq(S) /\ Len(Prefix(s, n)) = m
            /\ Prefix(s, n) = [i \in 1..m |-> s[i]]
<1> DEFINE m == IF n < Len(s) THEN n ELSE Len(s)
           t == SubSeq(s, 1, m)
<1>1. Len(s) \in Nat /\ \A i \in 1..Len(s) : s[i] \in S
  BY LenProperties, ElementOfSeq
<1>2. m \in 0..Len(s) /\ m \in Nat
  BY <1>1
<1>3. Prefix(s, n) = t
  BY DEF Prefix
<1> HIDE DEF m
<1>4. \A i \in 1..m : s[i] \in S
  BY <1>1, <1>2
<1>5. t \in Seq(S) /\ Len(t) = m /\ \A i \in 1..m : t[i] = s[i]
  BY <1>2, <1>4, SubSeqProperties
<1> HIDE DEF t
<1>6. t = [i \in 1..m |-> t[i]]
  BY <1>5, LenProperties
<1>7. t = [i \in 1..m |-> s[i]]
  BY <1>5, <1>6
<1> QED BY <1>2, <1>3, <1>5, <1>7 DEF m

(* The bytes of a text of an even number of digits, entry by entry *)
LEMMA EvenText ==
  ASSUME NEW text \in Seq(Chars), Len(text) % 2 = 0
  PROVE  LET n == Len(text) \div 2
         IN /\ n \in Nat /\ Len(text) = 2 * n
            /\ BytesOf(text) = [i \in 1..n |-> 16 * Numeral(text[2 * (n - i) + 1])
                                                 + Numeral(text[2 * (n - i) + 2])]
            /\ BytesOf(text) \in Seq(0..255) /\ Len(BytesOf(text)) = n
<1> DEFINE n == Len(text) \div 2
           bytes == [i \in 1..n |-> 16 * Numeral(text[2 * (n - i) + 1])
                                      + Numeral(text[2 * (n - i) + 2])]
<1>1. Len(text) \in Nat
  BY LenProperties
<1>2. n \in Nat /\ Len(text) = 2 * n
  BY <1>1
<1>3. Len(text) % 2 # 1
  BY <1>1
<1>4. BytesOf(text) = bytes
  BY <1>3 DEF BytesOf
<1>5. \A k \in 1..Len(text) : Numeral(text[k]) \in 0..15
  BY ElementOfSeq, CharRead
<1> HIDE DEF n
<1>6. ASSUME NEW i \in 1..n
      PROVE  16 * Numeral(text[2 * (n - i) + 1]) + Numeral(text[2 * (n - i) + 2]) \in 0..255
  <2>1. 2 * (n - i) + 1 \in 1..Len(text) /\ 2 * (n - i) + 2 \in 1..Len(text)
    BY <1>2
  <2>2. Numeral(text[2 * (n - i) + 1]) \in 0..15 /\ Numeral(text[2 * (n - i) + 2]) \in 0..15
    BY <1>5, <2>1
  <2>3. \A x, y \in 0..15 : 16 * x + y \in 0..255
    OBVIOUS
  <2> QED BY <2>2, <2>3
<1>7. bytes \in Seq(0..255)
  BY <1>2, <1>6, IsASeq
<1>8. Len(bytes) = n
  BY <1>2, <1>7, LenProperties
<1> QED BY <1>2, <1>4, <1>7, <1>8 DEF n

(* snprintu8 reads a text of an even number of digits, of any length, as the
   bytes it stands for, last byte first, cut to any buffer, and whatever is in
   front of the text (common.c:479-515 against common.h:244-255). *)
THEOREM TextsReadAsBytes ==
  ASSUME NEW text \in Seq(Chars), Len(text) % 2 = 0, NEW outSize \in Nat, NEW before
  PROVE  Snprintu8(outSize, text, before) = Prefix(BytesOf(text), outSize)
<1> DEFINE n == Len(text) \div 2
           m == IF outSize < n THEN outSize ELSE n
           B(i) == 16 * Numeral(text[2 * (n - i) + 1]) + Numeral(text[2 * (n - i) + 2])
<1>1. /\ n \in Nat /\ Len(text) = 2 * n
      /\ BytesOf(text) = [i \in 1..n |-> B(i)]
      /\ BytesOf(text) \in Seq(0..255) /\ Len(BytesOf(text)) = n
  BY EvenText
<1>2. OutputSize(outSize, Len(text)) = m
  BY <1>1 DEF OutputSize
<1> DEFINE At(k) == IF k = 0 THEN before ELSE text[k]
           out == [i \in 1..m |->
                     LET k == Len(text) - 2 * (i - 1) IN 16 * Ctou8(At(k - 1)) + Ctou8(At(k))]
<1>3. Snprintu8(outSize, text, before) = out
  BY <1>2 DEF Snprintu8
<1>4. m \in Nat /\ m <= n
  BY <1>1
<1>5. Prefix(BytesOf(text), outSize) = [i \in 1..m |-> BytesOf(text)[i]]
  <2> DEFINE s == BytesOf(text)
  <2>1. s \in Seq(0..255) /\ Len(s) = n
    BY <1>1
  <2> HIDE DEF s, n
  <2>2. Prefix(s, outSize) = [i \in 1..(IF outSize < Len(s) THEN outSize ELSE Len(s)) |-> s[i]]
    BY <2>1, PrefixEntries
  <2> QED BY <2>1, <2>2 DEF s
<1> HIDE DEF n, m
<1>6. ASSUME NEW i \in 1..m
      PROVE  out[i] = BytesOf(text)[i]
  <2> DEFINE k == Len(text) - 2 * (i - 1)
  <2>1. k = 2 * (n - i) + 2 /\ k - 1 = 2 * (n - i) + 1 /\ k - 1 \in 1..Len(text) /\ k \in 1..Len(text)
    BY <1>1, <1>4
  <2>2. BytesOf(text)[i] = B(i)
    BY <1>1, <1>4
  <2>3. out[i] = 16 * Ctou8(At(k - 1)) + Ctou8(At(k))
    OBVIOUS
  <2> HIDE DEF k
  <2>4. At(k - 1) = text[k - 1] /\ At(k) = text[k]
    BY <2>1
  <2>5. Ctou8(text[k - 1]) = Numeral(text[k - 1]) /\ Ctou8(text[k]) = Numeral(text[k])
    BY <2>1, ElementOfSeq, CharRead
  <2> QED BY <2>1, <2>2, <2>3, <2>4, <2>5
<1>7. out = [i \in 1..m |-> out[i]]
  OBVIOUS
<1> HIDE DEF out
<1> QED BY <1>3, <1>5, <1>6, <1>7

(* u8nprints, given room for two characters a byte, prints a buffer of any
   length and content so that the text stands for the buffer's reverse, and
   snprintu8 reads it as that (common.c:517-542 against common.h:258-273). *)
THEOREM BytesReadBack ==
  ASSUME NEW in \in Seq(0..255), NEW before
  PROVE  LET text == U8nprints(2 * Len(in), in)
         IN /\ Len(text) = 2 * Len(in)
            /\ \A k \in 1..Len(in) : BytesOf(text)[Len(in) + 1 - k] = in[k]
            /\ Snprintu8(Len(in), text, before) = BytesOf(text)
<1> DEFINE n == Len(in)
           text == [j \in 1..2 * n |-> U8toc(in[(j + 1) \div 2])[((j + 1) % 2) + 1]]
<1>1. n \in Nat /\ \A i \in 1..n : in[i] \in 0..255
  BY LenProperties, ElementOfSeq
<1>2. U8nprints(2 * Len(in), in) = text
  BY <1>1 DEF U8nprints
<1> HIDE DEF n
<1>3. ASSUME NEW b \in 0..255
      PROVE  /\ U8toc(b)[1] = Table[b \div 16 + 1] /\ U8toc(b)[2] = Table[(b % 16) + 1]
             /\ b \div 16 + 1 \in 1..16 /\ (b % 16) + 1 \in 1..16
             /\ b = 16 * (b \div 16) + (b % 16)
  BY DEF U8toc
<1>4. ASSUME NEW k \in 1..n
      PROVE  /\ text[2 * (k - 1) + 1] = Table[in[k] \div 16 + 1]
             /\ text[2 * (k - 1) + 2] = Table[(in[k] % 16) + 1]
  <2>1. /\ 2 * (k - 1) + 1 \in 1..2 * n /\ 2 * (k - 1) + 2 \in 1..2 * n
        /\ (2 * (k - 1) + 1 + 1) \div 2 = k /\ (2 * (k - 1) + 2 + 1) \div 2 = k
        /\ (2 * (k - 1) + 1 + 1) % 2 = 0 /\ (2 * (k - 1) + 2 + 1) % 2 = 1
    BY <1>1
  <2>2. text[2 * (k - 1) + 1] = U8toc(in[k])[1] /\ text[2 * (k - 1) + 2] = U8toc(in[k])[2]
    BY <2>1
  <2> QED BY <1>1, <1>3, <2>2
<1>5. ASSUME NEW j \in 1..2 * n
      PROVE  text[j] \in Chars
  <2> DEFINE k == (j + 1) \div 2
  <2>1. k \in 1..n /\ (j = 2 * (k - 1) + 1 \/ j = 2 * (k - 1) + 2)
    BY <1>1
  <2> HIDE DEF k
  <2>2. PICK i \in 1..16 : text[j] = Table[i]
    <3>1. in[k] \in 0..255
      BY <1>1, <2>1
    <3> HIDE DEF text
    <3> QED BY <1>3, <1>4, <2>1, <3>1
  <2>3. i \in 1..21
    BY <2>2
  <2> HIDE DEF text
  <2> QED BY <2>2, <2>3 DEF Chars
<1> DEFINE T(j) == U8toc(in[(j + 1) \div 2])[((j + 1) % 2) + 1]
<1>6. text \in Seq(Chars) /\ Len(text) = 2 * n
  <2>1. \A j \in 1..2 * n : T(j) \in Chars
    BY <1>5
  <2> HIDE DEF T
  <2>2. 2 * n \in Nat
    BY <1>1
  <2>3. [j \in 1..2 * n |-> T(j)] \in Seq(Chars)
    BY <2>1, <2>2, IsASeq
  <2>4. text = [j \in 1..2 * n |-> T(j)]
    BY DEF T
  <2> HIDE DEF text
  <2>5. Len([j \in 1..2 * n |-> T(j)]) = 2 * n
    BY <2>2
  <2> QED BY <2>3, <2>4, <2>5
<1> HIDE DEF text
<1>7. Len(text) % 2 = 0 /\ Len(text) \div 2 = n
  BY <1>1, <1>6
<1>8. /\ BytesOf(text) = [i \in 1..n |-> 16 * Numeral(text[2 * (n - i) + 1])
                                            + Numeral(text[2 * (n - i) + 2])]
      /\ BytesOf(text) \in Seq(0..255) /\ Len(BytesOf(text)) = n
  BY <1>6, <1>7, EvenText
<1>9. ASSUME NEW k \in 1..n
      PROVE  BytesOf(text)[n + 1 - k] = in[k]
  <2> DEFINE i == n + 1 - k
             b == in[k]
  <2>1. i \in 1..n /\ n - i = k - 1 /\ b \in 0..255
    BY <1>1
  <2>2. BytesOf(text)[i] = 16 * Numeral(text[2 * (k - 1) + 1]) + Numeral(text[2 * (k - 1) + 2])
    BY <1>8, <2>1
  <2> HIDE DEF i, b
  <2>3. /\ text[2 * (k - 1) + 1] = Table[b \div 16 + 1]
        /\ text[2 * (k - 1) + 2] = Table[(b % 16) + 1]
    BY <1>4 DEF b
  <2>4. /\ b \div 16 + 1 \in 1..16 /\ (b % 16) + 1 \in 1..16
        /\ b = 16 * (b \div 16) + (b % 16)
    BY <1>3, <2>1
  <2>5. \A v \in 1..16 : Numeral(Table[v]) = v - 1
    <3> TAKE v \in 1..16
    <3>1. v \in 1..21 /\ Num(v) = v - 1
      BY DEF Num
    <3> QED BY <3>1, DigitRead
  <2>6. /\ Numeral(Table[b \div 16 + 1]) = (b \div 16 + 1) - 1
        /\ Numeral(Table[(b % 16) + 1]) = ((b % 16) + 1) - 1
    BY <2>4, <2>5
  <2>7. b \div 16 \in Int /\ b % 16 \in Int
    BY <2>1
  <2> QED BY <2>2, <2>3, <2>4, <2>6, <2>7 DEF i, b
<1>10. Snprintu8(n, text, before) = BytesOf(text)
  <2>1. Snprintu8(n, text, before) = Prefix(BytesOf(text), n)
    BY <1>1, <1>6, <1>7, TextsReadAsBytes
  <2>2. Prefix(BytesOf(text), n) = SubSeq(BytesOf(text), 1, Len(BytesOf(text)))
    BY <1>8 DEF Prefix
  <2> QED BY <1>8, <2>1, <2>2, SubSeqFull
<1> QED BY <1>2, <1>6, <1>9, <1>10 DEF n

(* How far a set of positions reaches without a gap *)
LEMMA FirstOutside ==
  ASSUME NEW N \in Nat, NEW G
  PROVE  \E n \in 0..N : (\A i \in 1..n : i \in G) /\ (n < N => n + 1 \notin G)
<1> DEFINE T == {k \in 1..N : k \notin G}
<1>1. CASE T = {}
  <2>1. \A i \in 1..N : i \in G
    BY <1>1
  <2> QED BY <2>1
<1>2. CASE T # {}
  <2>1. T \in SUBSET Nat
    OBVIOUS
  <2>2. PICK m \in T : \A k \in T : m <= k
    <3> HIDE DEF T
    <3> QED BY <1>2, <2>1, Smallest
  <2>3. m \in 1..N /\ m \notin G
    BY <2>2
  <2>4. \A i \in 1..m - 1 : i \in G
    BY <2>2, <2>3
  <2>5. m - 1 \in 0..N /\ m - 1 + 1 = m
    BY <2>3
  <2> HIDE DEF T
  <2> QED BY <2>3, <2>4, <2>5
<1> QED BY <1>1, <1>2

(* u8ncmp of any two buffers that are long enough is negative just when their
   first num bytes differ (common.c:327-357 against common.h:209-223). *)
THEOREM BytesCompare ==
  ASSUME NEW S, NEW u1 \in Seq(S), NEW u2 \in Seq(S), NEW num \in Nat,
         num <= Len(u1), num <= Len(u2)
  PROVE  U8ncmp(u1, u2, num) < 0 <=> Prefix(u1, num) # Prefix(u2, num)
<1> DEFINE thres == IF Len(u2) > Len(u1) THEN Len(u1) ELSE Len(u2)
           G == {i \in 1..thres : u1[i] = u2[i]}
           Common(n) == /\ \A i \in 1..n : u1[i] = u2[i]
                        /\ n < thres => u1[n + 1] # u2[n + 1]
           cnt == CHOOSE n \in 0..thres : Common(n)
<1>1. Len(u1) \in Nat /\ Len(u2) \in Nat
  BY LenProperties
<1>2. thres \in Nat /\ num <= thres
  BY <1>1
<1>3. U8ncmp(u1, u2, num) = cnt - num
  BY DEF U8ncmp
<1> HIDE DEF thres
<1>4. cnt \in 0..thres /\ Common(cnt)
  <2>1. PICK n \in 0..thres : (\A i \in 1..n : i \in G) /\ (n < thres => n + 1 \notin G)
    <3> HIDE DEF G
    <3> QED BY <1>2, FirstOutside
  <2>2. n < thres => n + 1 \in 1..thres
    BY <1>2, <2>1
  <2>3. Common(n)
    BY <2>1, <2>2
  <2> HIDE DEF Common
  <2> QED BY <2>3
<1> HIDE DEF cnt, G
<1>5. Prefix(u1, num) = [i \in 1..num |-> u1[i]] /\ Prefix(u2, num) = [i \in 1..num |-> u2[i]]
  <2>1. (IF num < Len(u1) THEN num ELSE Len(u1)) = num
    BY <1>1
  <2>2. (IF num < Len(u2) THEN num ELSE Len(u2)) = num
    BY <1>1
  <2> QED BY <2>1, <2>2, PrefixEntries
<1>6. CASE cnt >= num
  <2>1. \A i \in 1..num : u1[i] = u2[i]
    BY <1>2, <1>4, <1>6
  <2>2. Prefix(u1, num) = Prefix(u2, num)
    BY <1>5, <2>1
  <2>3. ~(cnt - num < 0)
    BY <1>2, <1>4, <1>6
  <2> QED BY <1>3, <2>2, <2>3
<1>7. CASE cnt < num
  <2>1. cnt + 1 \in 1..num /\ cnt < thres /\ cnt - num < 0
    BY <1>2, <1>4, <1>7
  <2>2. u1[cnt + 1] # u2[cnt + 1]
    BY <1>4, <2>1
  <2>3. Prefix(u1, num)[cnt + 1] = u1[cnt + 1] /\ Prefix(u2, num)[cnt + 1] = u2[cnt + 1]
    BY <1>5, <2>1
  <2> QED BY <1>3, <2>1, <2>2, <2>3
<1> QED BY <1>2, <1>4, <1>6, <1>7

(* u8toascii into a buffer of any size but 0 ends the string, never writes
   beyond the buffer, and asciitou8 gives the first bytes back
   (common.c:359-399 against common.h:227-241). *)
THEOREM CopiesAreCut ==
  ASSUME NEW in \in Seq(0..255), NEW outSize \in Nat \ {0}
  PROVE  LET text == U8toascii(outSize, in)
             length == Len(text) - 1
         IN /\ length = Len(Prefix(in, outSize - 1))
            /\ text[Len(text)] = 0
            /\ Asciitou8(length, text) = Prefix(in, outSize - 1)
<1> DEFINE brs == IF outSize < Len(in) + 1 THEN outSize ELSE Len(in) + 1
           text == [i \in 1..brs |-> IF i = brs THEN 0 ELSE in[i]]
<1>1. Len(in) \in Nat
  BY LenProperties
<1>2. brs \in Nat /\ brs - 1 \in Nat /\ brs >= 1
  BY <1>1
<1>3. U8toascii(outSize, in) = text
  BY DEF U8toascii
<1>4. brs - 1 = IF outSize - 1 < Len(in) THEN outSize - 1 ELSE Len(in)
  BY <1>1
<1>5. Prefix(in, outSize - 1) = [i \in 1..brs - 1 |-> in[i]] /\ Len(Prefix(in, outSize - 1)) = brs - 1
  <2> DEFINE n == outSize - 1
             m == IF n < Len(in) THEN n ELSE Len(in)
  <2>1. n \in Nat
    OBVIOUS
  <2>2. brs - 1 = m
    BY <1>4
  <2> HIDE DEF n, brs
  <2>3. Len(Prefix(in, n)) = m /\ Prefix(in, n) = [i \in 1..m |-> in[i]]
    BY <2>1, PrefixEntries
  <2> HIDE DEF m
  <2> QED BY <2>2, <2>3 DEF n
<1> HIDE DEF brs
<1>6. Len(text) = brs /\ text[brs] = 0 /\ \A i \in 1..brs - 1 : text[i] = in[i]
  BY <1>2
<1> HIDE DEF text
<1>7. Asciitou8(brs - 1, text) = [i \in 1..brs - 1 |-> in[i]]
  <2>1. (IF brs - 1 < Len(text) THEN brs - 1 ELSE Len(text)) = brs - 1
    BY <1>2, <1>6
  <2>2. Asciitou8(brs - 1, text) = [i \in 1..brs - 1 |-> text[i]]
    BY <2>1 DEF Asciitou8
  <2> QED BY <1>6, <2>2
<1> QED BY <1>2, <1>3, <1>5, <1>6, <1>7

(* What one step, the k-th, makes of the value before it *)
Steps(N, S) == [(1..N) \X S -> S]

(* f begins with base and goes on by these steps. *)
Follows(f, N, S, base, step) ==
  /\ f \in [0..N -> S] /\ f[0] = base
  /\ \A k \in 1..N : f[k] = step[<<k, f[k - 1]>>]

(* A function on 0..N that is given step by step is there: the recursions of
   atonum, of printd and of the numerals have a value. *)
LEMMA Stepwise ==
  ASSUME NEW N \in Nat, NEW S, NEW base \in S, NEW step \in Steps(N, S)
  PROVE  \E f : Follows(f, N, S, base, step)
<1>0. step \in [(1..N) \X S -> S]
  BY DEF Steps
<1> DEFINE Upto(f, n) == /\ f \in [0..n -> S] /\ f[0] = base
                         /\ \A k \in 1..n : f[k] = step[<<k, f[k - 1]>>]
           H == {n \in 0..N : \E f : Upto(f, n)}
<1>1. 0 \in H
  <2> DEFINE f == [k \in 0..0 |-> base]
  <2>1. Upto(f, 0)
    OBVIOUS
  <2> HIDE DEF f, Upto
  <2> QED BY <2>1
<1>2. ASSUME NEW n \in 0..N - 1, n \in H
      PROVE  n + 1 \in H
  <2>1. PICK f : Upto(f, n)
    BY <1>2
  <2> DEFINE g == [k \in 0..(n + 1) |-> IF k <= n THEN f[k] ELSE step[<<n + 1, f[n]>>]]
  <2>2. f[n] \in S /\ n + 1 \in 1..N
    BY <2>1
  <2>3. step[<<n + 1, f[n]>>] \in S
    BY <1>0, <2>2
  <2>4. g \in [0..(n + 1) -> S]
    BY <2>1, <2>3
  <2>5. (\A k \in 0..n : g[k] = f[k]) /\ g[n + 1] = step[<<n + 1, f[n]>>]
    OBVIOUS
  <2> HIDE DEF g
  <2>6. \A k \in 1..(n + 1) : g[k] = step[<<k, g[k - 1]>>]
    <3> TAKE k \in 1..(n + 1)
    <3>1. CASE k = n + 1
      <4>1. k - 1 = n /\ g[n] = f[n]
        BY <2>5, <3>1
      <4> QED BY <2>5, <3>1, <4>1
    <3>2. CASE k \in 1..n
      <4>1. g[k] = f[k] /\ g[k - 1] = f[k - 1]
        BY <2>5, <3>2
      <4> QED BY <2>1, <3>2, <4>1
    <3> QED BY <3>1, <3>2
  <2>7. Upto(g, n + 1)
    BY <2>1, <2>4, <2>5, <2>6
  <2>8. n + 1 \in 0..N
    OBVIOUS
  <2> HIDE DEF Upto
  <2> QED BY <2>7, <2>8
<1>3. N \in H
  <2> HIDE DEF H
  <2>1. \A n \in 0..N : n \in H
    BY <1>1, <1>2, UpTo
  <2> QED BY <2>1
<1>4. PICK f : Upto(f, N)
  BY <1>3
<1> QED BY <1>4 DEF Follows

(* Leading is how far the text stays among these characters. *)
LEMMA LeadingIs ==
  ASSUME NEW S, NEW text \in Seq(S), NEW chars
  PROVE  LET k == Leading(text, chars)
         IN /\ k \in 0..Len(text)
            /\ \A i \in 1..k : text[i] \in chars
            /\ k < Len(text) => text[k + 1] \notin chars
<1> DEFINE G == {i \in 1..Len(text) : text[i] \in chars}
           Is(k) == /\ \A i \in 1..k : text[i] \in chars
                    /\ k < Len(text) => text[k + 1] \notin chars
<1>1. Len(text) \in Nat
  BY LenProperties
<1>2. PICK k \in 0..Len(text) : (\A i \in 1..k : i \in G) /\ (k < Len(text) => k + 1 \notin G)
  <2> HIDE DEF G
  <2> QED BY <1>1, FirstOutside
<1>3. k < Len(text) => k + 1 \in 1..Len(text)
  BY <1>1, <1>2
<1>4. Is(k)
  BY <1>2, <1>3
<1>5. Leading(text, chars) = CHOOSE j \in 0..Len(text) : Is(j)
  BY DEF Leading
<1> HIDE DEF Is
<1>6. Leading(text, chars) \in 0..Len(text) /\ Is(Leading(text, chars))
  BY <1>4, <1>5
<1> QED BY <1>6 DEF Is

(* And nothing else is. *)
LEMMA LeadingAll ==
  ASSUME NEW S, NEW text \in Seq(S), NEW chars, NEW k \in 0..Len(text),
         \A i \in 1..k : text[i] \in chars,
         k < Len(text) => text[k + 1] \notin chars
  PROVE  Leading(text, chars) = k
<1> DEFINE j == Leading(text, chars)
<1>1. j \in 0..Len(text) /\ (\A i \in 1..j : text[i] \in chars)
      /\ (j < Len(text) => text[j + 1] \notin chars)
  BY LeadingIs
<1>2. Len(text) \in Nat
  BY LenProperties
<1> HIDE DEF j
<1>3. ~(j < k)
  <2> SUFFICES ASSUME j < k PROVE FALSE
    OBVIOUS
  <2>1. j + 1 \in 1..k /\ j < Len(text)
    BY <1>1, <1>2
  <2> QED BY <1>1, <2>1
<1>4. ~(k < j)
  <2> SUFFICES ASSUME k < j PROVE FALSE
    OBVIOUS
  <2>1. k + 1 \in 1..j /\ k < Len(text)
    BY <1>1, <1>2
  <2> QED BY <1>1, <2>1
<1>5. j \in Nat
  BY <1>1, <1>2
<1>6. j = k
  BY <1>2, <1>3, <1>4, <1>5
<1> QED BY <1>6 DEF j

(* The bases that atonum's formats read *)
Bases == {8, 10, 16}

(* Every numeral has its own value. *)
LEMMA NumeralValue ==
  ASSUME NEW v \in 0..15
  PROVE  ValueOf(Numerals[v + 1]) = v
<1>1. \A i, j \in 1..16 : Numerals[i] = Numerals[j] => i = j
  BY SMTT(60) DEF Numerals
<1>2. \A w \in 0..15 : Numerals[w + 1] = Numerals[v + 1] => w = v
  <2> TAKE w \in 0..15
  <2>1. w + 1 \in 1..16 /\ v + 1 \in 1..16
    OBVIOUS
  <2>2. Numerals[w + 1] = Numerals[v + 1] => w + 1 = v + 1
    BY <1>1, <2>1
  <2> QED BY <2>2
<1> QED BY <1>2 DEF ValueOf

(* A numeral is no space, no minus and no x, and below its base. *)
LEMMA NumeralsAreNone ==
  ASSUME NEW base \in Bases, NEW c \in NumeralsOf(base)
  PROVE  c # Blank /\ c # "-" /\ c # "x" /\ c # "X" /\ ValueOf(c) \in 0..base - 1
<1>1. PICK v \in 0..base - 1 : c = Numerals[v + 1]
  BY DEF NumeralsOf
<1>2. v \in 0..15
  BY DEF Bases
<1>3. ValueOf(c) = v
  BY <1>1, <1>2, NumeralValue
<1>4. \A i \in 1..16 : /\ Numerals[i] # Blank /\ Numerals[i] # "-"
                       /\ Numerals[i] # "x" /\ Numerals[i] # "X"
  <2>1. \A i \in 1..16 : Numerals[i] # Blank
    BY DEF Numerals, Blank
  <2>2. \A i \in 1..16 : Numerals[i] # "-"
    BY DEF Numerals
  <2>3. \A i \in 1..16 : Numerals[i] # "x"
    BY DEF Numerals
  <2>4. \A i \in 1..16 : Numerals[i] # "X"
    BY DEF Numerals
  <2> QED BY <2>1, <2>2, <2>3, <2>4
<1>5. v + 1 \in 1..16
  BY <1>2
<1> QED BY <1>1, <1>3, <1>4, <1>5

(* Division with a remainder, by one of the bases *)
LEMMA DivMod ==
  ASSUME NEW base \in Bases, NEW x \in Nat
  PROVE  /\ x \div base \in Nat /\ x % base \in 0..base - 1
         /\ base * (x \div base) + (x % base) = x
         /\ x > 0 => x \div base < x
         /\ x = 0 => x \div base = 0
         /\ x \div base = 0 => x % base = x
<1>1. CASE base = 8 BY <1>1
<1>2. CASE base = 10 BY <1>2
<1>3. CASE base = 16 BY <1>3
<1> QED BY <1>1, <1>2, <1>3 DEF Bases

(* The number that digits stand for, digit by digit *)
LEMMA ValueSteps ==
  ASSUME NEW base \in Bases, NEW digits \in Seq(NumeralsOf(base))
  PROVE  \E value \in [0..Len(digits) -> Int] :
           /\ value[0] = 0 /\ Value(digits, base) = value[Len(digits)]
           /\ \A k \in 1..Len(digits) :
                value[k] = base * value[k - 1] + ValueOf(digits[k])
<1> DEFINE N == Len(digits)
           step == [p \in (1..N) \X Int |-> base * p[2] + ValueOf(digits[p[1]])]
           value[k \in 0..Len(digits)] ==
             IF k = 0 THEN 0 ELSE base * value[k - 1] + ValueOf(digits[k])
<1>1. N \in Nat /\ base \in Int
  BY LenProperties DEF Bases
<1>2. \A k \in 1..N : ValueOf(digits[k]) \in Int
  <2> TAKE k \in 1..N
  <2>1. digits[k] \in NumeralsOf(base)
    BY ElementOfSeq
  <2>2. ValueOf(digits[k]) \in 0..base - 1
    BY <2>1, NumeralsAreNone
  <2> QED BY <1>1, <2>2
<1>3. \A x, y, z \in Int : x * y + z \in Int
  OBVIOUS
<1>4. step \in Steps(N, Int)
  BY <1>1, <1>2, <1>3 DEF Steps
<1>5. \A k \in 1..N, x \in Int : step[<<k, x>>] = base * x + ValueOf(digits[k])
  OBVIOUS
<1>6. Value(digits, base) = value[Len(digits)]
  BY DEF Value
<1>7. PICK f \in [0..N -> Int] : f[0] = 0 /\ \A k \in 1..N : f[k] = step[<<k, f[k - 1]>>]
  <2> HIDE DEF step, N
  <2> DEFINE none == 0
  <2>0. none \in Int
    OBVIOUS
  <2> HIDE DEF none
  <2>1. \E f : Follows(f, N, Int, none, step)
    BY <1>1, <1>4, <2>0, Stepwise
  <2> QED BY <2>1 DEF Follows, none
<1> HIDE DEF step
<1>8. \A k \in 0..N : f[k] = IF k = 0 THEN 0 ELSE base * f[k - 1] + ValueOf(digits[k])
  <2> TAKE k \in 0..N
  <2>1. CASE k = 0
    BY <1>7, <2>1
  <2>2. CASE k # 0
    <3>1. k \in 1..N /\ k - 1 \in 0..N
      BY <1>1, <2>2
    <3>2. f[k - 1] \in Int
      BY <1>7, <3>1
    <3> QED BY <1>5, <1>7, <2>2, <3>1, <3>2
  <2> QED BY <2>1, <2>2
<1>9. f = [k \in 0..Len(digits) |-> IF k = 0 THEN 0 ELSE base * f[k - 1] + ValueOf(digits[k])]
  BY <1>7, <1>8
<1>10. value = [k \in 0..Len(digits) |->
                  IF k = 0 THEN 0 ELSE base * value[k - 1] + ValueOf(digits[k])]
  BY <1>9
<1> HIDE DEF value
<1>11. /\ value[0] = 0
       /\ \A k \in 1..N : value[k] = base * value[k - 1] + ValueOf(digits[k])
  BY <1>1, <1>10
<1> DEFINE H == {k \in 0..N : value[k] \in Int}
<1>12. \A k \in 0..N : k \in H
  <2>1. 0 \in H
    BY <1>1, <1>11
  <2>2. ASSUME NEW k \in 0..N - 1, k \in H PROVE k + 1 \in H
    <3>1. k + 1 \in 1..N /\ k + 1 - 1 = k /\ value[k] \in Int
      BY <1>1, <2>2
    <3>2. value[k + 1] = base * value[k] + ValueOf(digits[k + 1])
      BY <1>11, <3>1
    <3>3. value[k + 1] \in Int
      BY <1>1, <1>2, <1>3, <3>1, <3>2
    <3> QED BY <3>1, <3>3
  <2> HIDE DEF H
  <2> QED BY <1>1, <2>1, <2>2, UpTo
<1>13. value \in [0..N -> Int]
  BY <1>10, <1>12
<1> QED BY <1>6, <1>11, <1>13

(* A number that is written: rest[k] is what its last k digits leave of it. *)
LEMMA WrittenSteps ==
  ASSUME NEW base \in Bases, NEW n \in Nat
  PROVE  \E rest, length :
           /\ length \in 1..n + 1
           /\ rest[0] = n /\ \A k \in 0..n + 1 : rest[k] \in Nat
           /\ \A k \in 1..n + 1 : rest[k] = rest[k - 1] \div base
           /\ rest[length] = 0 /\ \A k \in 1..length - 1 : rest[k] # 0
           /\ Written(n, base) =
                [i \in 1..length |-> Numerals[(rest[length - i] % base) + 1]]
<1> DEFINE N == n + 1
           step == [p \in (1..N) \X Nat |-> p[2] \div base]
           rest[k \in 0..n + 1] == IF k = 0 THEN n ELSE rest[k - 1] \div base
           length == CHOOSE k \in 1..n + 1 : rest[k] = 0 /\ \A i \in 1..k - 1 : rest[i] # 0
<1>1. N \in Nat /\ \A x \in Nat : x \div base \in Nat
  BY DivMod
<1>2. step \in Steps(N, Nat)
  BY <1>1 DEF Steps
<1>3. \A k \in 1..N, x \in Nat : step[<<k, x>>] = x \div base
  OBVIOUS
<1>4. Written(n, base) = [i \in 1..length |-> Numerals[(rest[length - i] % base) + 1]]
  BY DEF Written
<1> HIDE DEF length
<1>5. PICK f : /\ f \in [0..N -> Nat] /\ f[0] = n
               /\ \A k \in 1..N : f[k] = step[<<k, f[k - 1]>>]
  <2> HIDE DEF step, N
  <2>1. \E f : Follows(f, N, Nat, n, step)
    BY <1>1, <1>2, Stepwise
  <2> QED BY <2>1 DEF Follows
<1> HIDE DEF step
<1>6. \A k \in 0..N : f[k] = IF k = 0 THEN n ELSE f[k - 1] \div base
  <2> TAKE k \in 0..N
  <2>1. CASE k = 0
    BY <1>5, <2>1
  <2>2. CASE k # 0
    <3>1. k \in 1..N /\ k - 1 \in 0..N
      BY <1>1, <2>2
    <3>2. f[k - 1] \in Nat
      BY <1>5, <3>1
    <3> QED BY <1>3, <1>5, <2>2, <3>1, <3>2
  <2> QED BY <2>1, <2>2
<1>7. f = [k \in 0..n + 1 |-> IF k = 0 THEN n ELSE f[k - 1] \div base]
  BY <1>5, <1>6
<1>8. rest = [k \in 0..n + 1 |-> IF k = 0 THEN n ELSE rest[k - 1] \div base]
  BY <1>7
<1> HIDE DEF rest
<1>9. rest[0] = n /\ \A k \in 1..N : rest[k] = rest[k - 1] \div base
  BY <1>1, <1>8
<1> DEFINE H == {k \in 0..N : rest[k] \in Nat}
           L == {k \in 0..n : rest[k] <= n - k}
<1>10. \A k \in 0..N : rest[k] \in Nat
  <2>1. 0 \in H
    BY <1>1, <1>9
  <2>2. ASSUME NEW k \in 0..N - 1, k \in H PROVE k + 1 \in H
    <3>1. k + 1 \in 1..N /\ k + 1 - 1 = k /\ rest[k] \in Nat
      BY <1>1, <2>2
    <3>2. rest[k + 1] = rest[k] \div base
      BY <1>9, <3>1
    <3> QED BY <1>1, <3>1, <3>2
  <2>3. \A k \in 0..N : k \in H
    <3> HIDE DEF H, N
    <3> QED BY <1>1, <2>1, <2>2, UpTo
  <2> QED BY <2>3
<1>11. rest[n] <= 0
  <2>1. 0 \in L
    BY <1>9
  <2>2. ASSUME NEW k \in 0..n - 1, k \in L PROVE k + 1 \in L
    <3>1. k + 1 \in 1..N /\ k + 1 - 1 = k /\ k \in 0..N /\ rest[k] <= n - k
      BY <2>2
    <3>2. rest[k + 1] = rest[k] \div base /\ rest[k] \in Nat
      BY <1>9, <1>10, <3>1
    <3> DEFINE x == rest[k]
               y == rest[k] \div base
    <3>3. x \in Nat /\ y \in Nat /\ (x > 0 => y < x) /\ (x = 0 => y = 0)
      BY <3>2, DivMod
    <3> HIDE DEF x, y
    <3>4. x <= n - k => y <= n - (k + 1)
      BY <3>3
    <3> QED BY <3>1, <3>2, <3>4 DEF x, y
  <2>3. \A k \in 0..n : k \in L
    <3> HIDE DEF L
    <3> QED BY <2>1, <2>2, UpTo
  <2>4. n \in L
    BY <2>3
  <2> QED BY <2>4
<1>12. rest[n + 1] = 0
  <2>1. n \in 0..N /\ n + 1 \in 1..N /\ n + 1 - 1 = n
    OBVIOUS
  <2>2. rest[n] = 0
    BY <1>10, <1>11, <2>1
  <2>3. rest[n + 1] = rest[n] \div base
    BY <1>9, <2>1
  <2> QED BY <2>2, <2>3, DivMod
<1> DEFINE First(k) == rest[k] = 0 /\ \A i \in 1..k - 1 : rest[i] # 0
<1>13. length \in 1..n + 1 /\ First(length)
  <2> DEFINE G == {k \in 1..N : rest[k] # 0}
  <2>1. PICK k \in 0..N : (\A i \in 1..k : i \in G) /\ (k < N => k + 1 \notin G)
    <3> HIDE DEF G, N
    <3> QED BY <1>1, FirstOutside
  <2>2. \A i \in 1..k : rest[i] # 0
    BY <2>1
  <2>3. k # N
    BY <1>12, <2>2
  <2>4. k + 1 \in 1..N /\ rest[k + 1] = 0 /\ k + 1 - 1 = k
    BY <2>1, <2>3
  <2>5. First(k + 1) /\ k + 1 \in 1..n + 1
    BY <2>2, <2>4
  <2>6. length = CHOOSE j \in 1..n + 1 : First(j)
    BY DEF length
  <2> HIDE DEF First
  <2> QED BY <2>5, <2>6
<1> QED BY <1>4, <1>9, <1>10, <1>13

(* What is written in a base is read as the number, begins with a zero for
   zero only, and has no more digits than it needs. *)
LEMMA WrittenReads ==
  ASSUME NEW base \in Bases, NEW n \in Nat
  PROVE  LET text == Written(n, base)
         IN /\ text \in Seq(NumeralsOf(base)) /\ Len(text) >= 1
            /\ Value(text, base) = n
            /\ n > 0 => text[1] # "0"
            /\ n = 0 => Len(text) = 1
<1>1. PICK rest, length :
        /\ length \in 1..n + 1
        /\ rest[0] = n /\ \A k \in 0..n + 1 : rest[k] \in Nat
        /\ \A k \in 1..n + 1 : rest[k] = rest[k - 1] \div base
        /\ rest[length] = 0 /\ \A k \in 1..length - 1 : rest[k] # 0
        /\ Written(n, base) = [i \in 1..length |-> Numerals[(rest[length - i] % base) + 1]]
  BY WrittenSteps
<1> DEFINE D(i) == Numerals[(rest[length - i] % base) + 1]
           text == [i \in 1..length |-> D(i)]
<1>2. ASSUME NEW i \in 1..length
      PROVE  /\ rest[length - i] \in Nat
             /\ rest[length - i + 1] = rest[length - i] \div base
             /\ rest[length - i] % base \in 0..base - 1
             /\ D(i) \in NumeralsOf(base) /\ ValueOf(D(i)) = rest[length - i] % base
  <2>1. length - i \in 0..n + 1 /\ length - i + 1 \in 1..n + 1 /\ length - i + 1 - 1 = length - i
    BY <1>1
  <2>2. rest[length - i] \in Nat /\ rest[length - i + 1] = rest[length - i] \div base
    BY <1>1, <2>1
  <2> DEFINE v == rest[length - i] % base
  <2>3. v \in 0..base - 1
    BY <2>2, DivMod
  <2>4. D(i) = Numerals[v + 1]
    OBVIOUS
  <2> HIDE DEF v, D
  <2>5. v \in 0..15
    BY <2>3 DEF Bases
  <2>6. D(i) \in NumeralsOf(base)
    BY <2>3, <2>4 DEF NumeralsOf
  <2>7. ValueOf(D(i)) = v
    BY <2>4, <2>5, NumeralValue
  <2> QED BY <2>2, <2>3, <2>6, <2>7 DEF v
<1>3. text \in Seq(NumeralsOf(base)) /\ Len(text) = length
  <2>1. \A i \in 1..length : D(i) \in NumeralsOf(base)
    BY <1>2
  <2>2. length \in Nat
    BY <1>1
  <2> HIDE DEF D
  <2>3. text \in Seq(NumeralsOf(base))
    BY <2>1, <2>2, IsASeq
  <2> QED BY <2>2, <2>3
<1>4. \A i \in 1..length : text[i] = D(i)
  OBVIOUS
<1>5. Written(n, base) = text
  BY <1>1
<1> HIDE DEF text, D
<1>6. PICK value \in [0..Len(text) -> Int] :
        /\ value[0] = 0 /\ Value(text, base) = value[Len(text)]
        /\ \A k \in 1..Len(text) : value[k] = base * value[k - 1] + ValueOf(text[k])
  BY <1>3, ValueSteps
<1> DEFINE H == {i \in 0..length : value[i] = rest[length - i]}
<1>7. 0 \in H
  BY <1>1, <1>6
<1>8. ASSUME NEW i \in 0..length - 1, i \in H
      PROVE  i + 1 \in H
  <2>1. i + 1 \in 1..length /\ i + 1 - 1 = i /\ length - (i + 1) + 1 = length - i
    BY <1>1
  <2> DEFINE x == rest[length - (i + 1)]
  <2>2. x \in Nat /\ rest[length - i] = x \div base /\ ValueOf(D(i + 1)) = x % base
    BY <1>2, <2>1
  <2>3. value[i + 1] = base * value[i] + ValueOf(D(i + 1))
    BY <1>3, <1>4, <1>6, <2>1
  <2>4. value[i] = rest[length - i]
    BY <1>8
  <2>5. base * (x \div base) + (x % base) = x
    BY <2>2, DivMod
  <2>6. value[i + 1] = x
    BY <2>2, <2>3, <2>4, <2>5
  <2> QED BY <2>1, <2>6
<1>9. Value(text, base) = n
  <2>1. length \in Nat
    BY <1>1
  <2>2. \A i \in 0..length : i \in H
    <3> HIDE DEF H
    <3> QED BY <1>7, <1>8, <2>1, UpTo
  <2>3. length \in H
    BY <2>1, <2>2
  <2>4. length - length = 0
    BY <2>1
  <2> QED BY <1>1, <1>3, <1>6, <2>3, <2>4
<1>10. ASSUME n > 0
       PROVE  text[1] # "0"
  <2> DEFINE x == rest[length - 1]
  <2>1. 1 \in 1..length /\ length - 1 + 1 = length
    BY <1>1
  <2>2. x \in Nat /\ x \div base = 0 /\ ValueOf(text[1]) = x % base
    BY <1>1, <1>2, <1>4, <2>1
  <2>3. x # 0
    <3>1. CASE length = 1
      BY <1>1, <1>10, <3>1
    <3>2. CASE length # 1
      <4>1. length - 1 \in 1..length - 1
        BY <1>1, <3>2
      <4> QED BY <1>1, <4>1
    <3> QED BY <3>1, <3>2
  <2>4. x % base = x
    BY <2>2, DivMod
  <2>5. ValueOf("0") = 0
    <3>1. Numerals[0 + 1] = "0"
      BY DEF Numerals
    <3> QED BY <3>1, NumeralValue
  <2> HIDE DEF x
  <2> QED BY <2>2, <2>3, <2>4, <2>5
<1>11. n = 0 => length = 1
  BY <1>1
<1>12. Len(text) >= 1
  BY <1>1, <1>3
<1> QED BY <1>3, <1>5, <1>9, <1>10, <1>11, <1>12

(* The characters a number can be written with, in any of the bases *)
Characters == NumeralsOf(16) \cup {Blank, "-", "x", "X"}

(* Digits of one of the bases are such characters. *)
LEMMA NumeralsAreCharacters ==
  ASSUME NEW base \in Bases, NEW text \in Seq(NumeralsOf(base))
  PROVE  text \in Seq(Characters)
<1>1. NumeralsOf(base) \subseteq NumeralsOf(16)
  <2> SUFFICES ASSUME NEW c \in NumeralsOf(base) PROVE c \in NumeralsOf(16)
    OBVIOUS
  <2>1. PICK v \in 0..base - 1 : c = Numerals[v + 1]
    BY DEF NumeralsOf
  <2>2. v \in 0..16 - 1
    BY DEF Bases
  <2> QED BY <2>1, <2>2 DEF NumeralsOf
<1>2. NumeralsOf(base) \subseteq Characters
  BY <1>1 DEF Characters
<1> QED BY <1>2, SeqMonotonic

(* The second of two sequences that are put together *)
LEMMA Behind ==
  ASSUME NEW S, NEW s \in Seq(S), NEW t \in Seq(S)
  PROVE  /\ s \o t \in Seq(S) /\ Len(s \o t) = Len(s) + Len(t)
         /\ SubSeq(s \o t, Len(s) + 1, Len(s \o t)) = t
<1>1. Len(s) \in Nat /\ Len(t) \in Nat
  BY LenProperties
<1>2. s \o t \in Seq(S) /\ Len(s \o t) = Len(s) + Len(t)
  BY ConcatProperties
<1>3. CASE Len(t) = 0
  <2>1. t = <<>>
    BY <1>3, EmptySeq
  <2>2. SubSeq(s \o t, Len(s) + 1, Len(s \o t)) = <<>>
    BY <1>1, <1>2, <1>3, SubSeqEmpty
  <2> QED BY <1>2, <2>1, <2>2
<1>4. CASE Len(t) # 0
  <2> DEFINE m == Len(s) + 1
             n == Len(s) + Len(t)
  <2>1. m \in Len(s) + 1..Len(s) + Len(t) /\ n \in m..Len(s) + Len(t)
    BY <1>1, <1>4
  <2>2. SubSeq(s \o t, m, n) = SubSeq(t, m - Len(s), n - Len(s))
    BY <2>1, SubSeqOfConcat2
  <2>3. m - Len(s) = 1 /\ n - Len(s) = Len(t)
    BY <1>1
  <2> QED BY <1>2, <2>2, <2>3, SubSeqFull
<1> QED BY <1>3, <1>4

(* sscanf of nothing but digits, with a minus or not, reads them all. *)
LEMMA ScanDigits ==
  ASSUME NEW base \in Bases, NEW text \in Seq(Characters), NEW x,
         NEW digits \in Seq(NumeralsOf(base)), Len(digits) >= 1,
         LET lead == Leading(text, {Blank})
             minus == lead < Len(text) /\ text[lead + 1] = "-"
         IN SubSeq(text, lead + (IF minus THEN 2 ELSE 1), Len(text)) = digits
  PROVE  Scan(text, base, x) =
           LET lead == Leading(text, {Blank})
               minus == lead < Len(text) /\ text[lead + 1] = "-"
           IN IF minus THEN -Value(digits, base) ELSE Value(digits, base)
<1>1. Len(digits) \in Nat /\ \A i \in 1..Len(digits) : digits[i] \in NumeralsOf(base)
  BY LenProperties, ElementOfSeq
<1>2. Leading(digits, NumeralsOf(base)) = Len(digits)
  <2> DEFINE k == Len(digits)
  <2>1. k \in 0..Len(digits) /\ ~(k < Len(digits))
    BY <1>1
  <2>2. \A i \in 1..k : digits[i] \in NumeralsOf(base)
    BY <1>1
  <2> HIDE DEF k
  <2>3. Leading(digits, NumeralsOf(base)) = k
    BY <2>1, <2>2, LeadingAll
  <2> QED BY <2>3 DEF k
<1>3. SubSeq(digits, 1, Len(digits)) = digits
  BY SubSeqFull
<1>4. digits # <<>>
  BY EmptySeq
<1> QED BY <1>2, <1>3, <1>4 DEF Scan

(* Digits alone are read as the number they stand for. *)
LEMMA ScanPlain ==
  ASSUME NEW base \in Bases, NEW text \in Seq(NumeralsOf(base)), Len(text) >= 1, NEW x
  PROVE  Scan(text, base, x) = Value(text, base)
<1>1. text \in Seq(Characters)
  BY NumeralsAreCharacters
<1>2. Len(text) \in Nat /\ 1 \in 1..Len(text)
  BY LenProperties
<1>3. text[1] # Blank /\ text[1] # "-"
  <2>1. text[1] \in NumeralsOf(base)
    BY <1>2, ElementOfSeq
  <2> QED BY <2>1, NumeralsAreNone
<1>4. Leading(text, {Blank}) = 0
  <2> DEFINE k == 0
  <2>1. k \in 0..Len(text) /\ (\A i \in 1..k : text[i] \in {Blank})
        /\ (k < Len(text) => text[k + 1] \notin {Blank})
    BY <1>2, <1>3
  <2> HIDE DEF k
  <2>2. Leading(text, {Blank}) = k
    BY <2>1, LeadingAll
  <2> QED BY <2>2 DEF k
<1>5. SubSeq(text, 1, Len(text)) = text
  BY SubSeqFull
<1> DEFINE lead == Leading(text, {Blank})
           minus == lead < Len(text) /\ text[lead + 1] = "-"
<1>6. ~minus /\ lead = 0
  BY <1>3, <1>4
<1>7. SubSeq(text, lead + (IF minus THEN 2 ELSE 1), Len(text)) = text
  <2> HIDE DEF minus, lead
  <2> QED BY <1>5, <1>6
<1>8. Scan(text, base, x) = IF minus THEN -Value(text, base) ELSE Value(text, base)
  BY <1>1, <1>7, ScanDigits
<1> QED BY <1>6, <1>8

(* Digits behind a minus are read as the negative of it. *)
LEMMA ScanMinus ==
  ASSUME NEW base \in Bases, NEW digits \in Seq(NumeralsOf(base)), Len(digits) >= 1, NEW x
  PROVE  Scan(<<"-">> \o digits, base, x) = -Value(digits, base)
<1> DEFINE text == <<"-">> \o digits
           lead == Leading(text, {Blank})
           minus == lead < Len(text) /\ text[lead + 1] = "-"
<1>1. digits \in Seq(Characters) /\ <<"-">> \in Seq(Characters) /\ Len(<<"-">>) = 1
  BY NumeralsAreCharacters DEF Characters
<1>2. /\ text \in Seq(Characters) /\ Len(text) = 1 + Len(digits)
      /\ SubSeq(text, 2, Len(text)) = digits
  BY <1>1, Behind
<1>3. Len(digits) \in Nat /\ text[1] = "-"
  BY <1>1, LenProperties, ConcatProperties
<1> HIDE DEF text
<1>4. "-" # Blank
  BY DEF Blank
<1>5. lead = 0
  <2> DEFINE k == 0
  <2>1. k \in 0..Len(text) /\ (\A i \in 1..k : text[i] \in {Blank})
        /\ (k < Len(text) => text[k + 1] \notin {Blank})
    BY <1>2, <1>3, <1>4
  <2> HIDE DEF k
  <2>2. Leading(text, {Blank}) = k
    BY <1>2, <2>1, LeadingAll
  <2> QED BY <2>2 DEF k
<1>6. minus
  BY <1>2, <1>3, <1>5
<1>7. SubSeq(text, lead + (IF minus THEN 2 ELSE 1), Len(text)) = digits
  <2> HIDE DEF minus, lead
  <2> QED BY <1>2, <1>5, <1>6
<1>8. Scan(text, base, x) = IF minus THEN -Value(digits, base) ELSE Value(digits, base)
  BY <1>2, <1>7, ScanDigits
<1> QED BY <1>6, <1>8 DEF text

(* sscanf gives a number, or leaves what was there. *)
LEMMA ScanType ==
  ASSUME NEW base \in Bases, NEW text \in Seq(Characters),
         NEW S, Int \subseteq S, NEW x \in S
  PROVE  Scan(text, base, x) \in S
<1> DEFINE lead == Leading(text, {Blank})
           minus == lead < Len(text) /\ text[lead + 1] = "-"
           from == lead + (IF minus THEN 2 ELSE 1)
           behind == SubSeq(text, from, Len(text))
           k == Leading(behind, NumeralsOf(base))
           digits == SubSeq(behind, 1, k)
<1>1. Len(text) \in Nat /\ lead \in 0..Len(text)
  BY LenProperties, LeadingIs
<1> HIDE DEF lead
<1>2. from \in Nat \ {0}
  BY <1>1
<1> HIDE DEF minus, from
<1>3. \A i \in from..Len(text) : text[i] \in Characters
  BY <1>2, ElementOfSeq
<1>4. behind \in Seq(Characters)
  BY <1>1, <1>2, <1>3, SubSeqProperties
<1> HIDE DEF behind
<1>5. k \in 0..Len(behind) /\ \A i \in 1..k : behind[i] \in NumeralsOf(base)
  BY <1>4, LeadingIs
<1>6. k \in Nat
  BY <1>4, <1>5, LenProperties
<1> HIDE DEF k
<1>7. digits \in Seq(NumeralsOf(base))
  BY <1>5, <1>6, SubSeqProperties
<1> HIDE DEF digits
<1>8. Value(digits, base) \in Int /\ -Value(digits, base) \in Int
  <2>1. PICK value \in [0..Len(digits) -> Int] : Value(digits, base) = value[Len(digits)]
    BY <1>7, ValueSteps
  <2>2. Len(digits) \in 0..Len(digits)
    BY <1>7, LenProperties
  <2>3. Value(digits, base) \in Int
    BY <2>1, <2>2
  <2> QED BY <2>3
<1>9. Scan(text, base, x) =
        IF digits = <<>> THEN x
        ELSE IF minus THEN -Value(digits, base) ELSE Value(digits, base)
  BY DEF Scan, lead, minus, from, behind, k, digits
<1> QED BY <1>8, <1>9

(* So does one round of atonum, whichever format it takes (common.c:72-80). *)
LEMMA ScanAnyType ==
  ASSUME NEW text \in Seq(Characters), NEW S, Int \subseteq S, NEW x \in S
  PROVE  ScanAny(text, x) \in S
<1>1. Len(text) \in Nat /\ \A i \in 1..Len(text) : text[i] \in Characters
  BY LenProperties, ElementOfSeq
<1>2. SubSeq(text, 3, Len(text)) \in Seq(Characters)
  BY <1>1, SubSeqProperties
<1>3. Len(text) > 1 => Tail(text) \in Seq(Characters)
  <2>1. Len(text) > 1 => text # <<>>
    BY EmptySeq
  <2> QED BY <2>1, HeadTailProperties
<1>4. 8 \in Bases /\ 10 \in Bases /\ 16 \in Bases
  BY DEF Bases
<1>5. Scan(SubSeq(text, 3, Len(text)), 16, x) \in S
  BY <1>2, <1>4, ScanType
<1>6. Len(text) > 1 => Scan(Tail(text), 8, x) \in S
  BY <1>3, <1>4, ScanType
<1>7. Scan(text, 10, x) \in S
  BY <1>4, ScanType
<1> QED BY <1>5, <1>6, <1>7 DEF ScanAny

(* What atonum returns is what it scans behind the last of the leading spaces. *)
LEMMA AtonumLast ==
  ASSUME NEW lead \in Nat \ {0}, NEW text \in Seq(Characters),
         Len(text) >= 1, text[1] # Blank
  PROVE  \E x : Atonum(Spaces(lead) \o text) = ScanAny(text, x)
<1> DEFINE s == Spaces(lead) \o text
           S == Int \cup {"anything"}
           step == [p \in (1..lead) \X S |-> ScanAny(SubSeq(s, p[1] + 1, Len(s)), p[2])]
           n[k \in 0..Leading(s, {Blank})] ==
             IF k = 0 THEN "anything" ELSE ScanAny(SubSeq(s, k + 1, Len(s)), n[k - 1])
<1>1. /\ Spaces(lead) \in Seq(Characters) /\ Len(Spaces(lead)) = lead
      /\ \A i \in 1..lead : Spaces(lead)[i] = Blank
  <2> DEFINE B(i) == Blank
  <2>1. \A i \in 1..lead : B(i) \in Characters
    BY DEF Characters
  <2>2. lead \in Nat
    OBVIOUS
  <2> HIDE DEF B
  <2>3. [i \in 1..lead |-> B(i)] \in Seq(Characters)
    BY <2>1, <2>2, IsASeq
  <2>4. Spaces(lead) = [i \in 1..lead |-> B(i)]
    BY DEF Spaces, B
  <2>5. Len([i \in 1..lead |-> B(i)]) = lead /\ \A i \in 1..lead : [j \in 1..lead |-> B(j)][i] = B(i)
    BY <2>2
  <2> QED BY <2>3, <2>4, <2>5 DEF B
<1>2. /\ s \in Seq(Characters) /\ Len(s) = lead + Len(text)
      /\ SubSeq(s, lead + 1, Len(s)) = text
  BY <1>1, Behind
<1>3. Len(text) \in Nat /\ \A i \in 1..lead + Len(text) : s[i] = IF i <= lead THEN Spaces(lead)[i]
                                                               ELSE text[i - lead]
  BY <1>1, LenProperties, ConcatProperties
<1> HIDE DEF s
<1>4. Leading(s, {Blank}) = lead
  <2>1. lead \in 0..Len(s)
    BY <1>2, <1>3
  <2>2. \A i \in 1..lead : s[i] \in {Blank}
    BY <1>1, <1>3
  <2>3. s[lead + 1] = text[1]
    <3>1. lead + 1 \in 1..lead + Len(text) /\ ~(lead + 1 <= lead) /\ lead + 1 - lead = 1
      BY <1>3
    <3> QED BY <1>3, <3>1
  <2>4. lead < Len(s) => s[lead + 1] \notin {Blank}
    BY <2>3
  <2> QED BY <1>2, <2>1, <2>2, <2>4, LeadingAll
<1>5. Atonum(s) = n[Leading(s, {Blank})]
  BY DEF Atonum
<1>6. \A k \in 1..lead, x \in S : ScanAny(SubSeq(s, k + 1, Len(s)), x) \in S
  <2> TAKE k \in 1..lead, x \in S
  <2>1. k + 1 \in Int /\ Len(s) \in Int /\ \A i \in k + 1..Len(s) : i \in 1..Len(s)
    BY <1>2, <1>3
  <2>2. \A i \in k + 1..Len(s) : s[i] \in Characters
    BY <1>2, <2>1, ElementOfSeq
  <2>3. SubSeq(s, k + 1, Len(s)) \in Seq(Characters)
    BY <2>1, <2>2, SubSeqProperties
  <2>4. Int \subseteq S
    OBVIOUS
  <2> HIDE DEF S
  <2> QED BY <2>3, <2>4, ScanAnyType
<1>7. "anything" \in S
  OBVIOUS
<1> HIDE DEF S
<1>8. step \in Steps(lead, S)
  BY <1>6 DEF Steps
<1>9. \A k \in 1..lead, x \in S : step[<<k, x>>] = ScanAny(SubSeq(s, k + 1, Len(s)), x)
  OBVIOUS
<1>10. PICK f : /\ f \in [0..lead -> S] /\ f[0] = "anything"
                /\ \A k \in 1..lead : f[k] = step[<<k, f[k - 1]>>]
  <2> HIDE DEF step
  <2>1. \E f : Follows(f, lead, S, "anything", step)
    BY <1>7, <1>8, Stepwise
  <2> QED BY <2>1 DEF Follows
<1> HIDE DEF step
<1>11. \A k \in 0..lead :
         f[k] = IF k = 0 THEN "anything" ELSE ScanAny(SubSeq(s, k + 1, Len(s)), f[k - 1])
  <2> TAKE k \in 0..lead
  <2>1. CASE k = 0
    BY <1>10, <2>1
  <2>2. CASE k # 0
    <3>1. k \in 1..lead /\ k - 1 \in 0..lead
      BY <2>2
    <3>2. f[k - 1] \in S
      BY <1>10, <3>1
    <3> QED BY <1>9, <1>10, <2>2, <3>1, <3>2
  <2> QED BY <2>1, <2>2
<1>12. f = [k \in 0..Leading(s, {Blank}) |->
              IF k = 0 THEN "anything" ELSE ScanAny(SubSeq(s, k + 1, Len(s)), f[k - 1])]
  BY <1>4, <1>10, <1>11
<1>13. n = [k \in 0..Leading(s, {Blank}) |->
              IF k = 0 THEN "anything" ELSE ScanAny(SubSeq(s, k + 1, Len(s)), n[k - 1])]
  BY <1>12
<1> HIDE DEF n
<1>14. n[lead] = ScanAny(SubSeq(s, lead + 1, Len(s)), n[lead - 1])
  <2>1. lead \in 0..Leading(s, {Blank}) /\ lead # 0
    BY <1>4
  <2> QED BY <1>13, <2>1
<1>15. Atonum(s) = ScanAny(text, n[lead - 1])
  BY <1>2, <1>4, <1>5, <1>14
<1> QED BY <1>15 DEF s

(* A number that snprintf writes is read as itself, whatever n was. *)
LEMMA DecimalReads ==
  ASSUME NEW n \in Int
  PROVE  /\ Decimal(n) \in Seq(Characters) /\ Len(Decimal(n)) >= 1
         /\ Decimal(n)[1] # Blank
         /\ \A x : ScanAny(Decimal(n), x) = n
<1> DEFINE m == IF n < 0 THEN -n ELSE n
           W == Written(m, 10)
<1>1. m \in Nat /\ 10 \in Bases
  BY DEF Bases
<1>2. /\ W \in Seq(NumeralsOf(10)) /\ Len(W) >= 1 /\ Value(W, 10) = m
      /\ m > 0 => W[1] # "0"
      /\ m = 0 => Len(W) = 1
  <2> HIDE DEF m
  <2> QED BY <1>1, WrittenReads
<1>3. W \in Seq(Characters) /\ Len(W) \in Nat
  BY <1>1, <1>2, NumeralsAreCharacters, LenProperties
<1>4. W[1] # Blank
  <2>1. W[1] \in NumeralsOf(10)
    BY <1>2, <1>3, ElementOfSeq
  <2> QED BY <1>1, <2>1, NumeralsAreNone
<1>5. CASE n < 0
  <2>1. Decimal(n) = <<"-">> \o W /\ m = -n
    BY <1>5 DEF Decimal
  <2> HIDE DEF W, m
  <2>2. <<"-">> \in Seq(Characters) /\ Len(<<"-">>) = 1
    BY DEF Characters
  <2> DEFINE text == <<"-">> \o W
  <2>3. text \in Seq(Characters) /\ Len(text) = 1 + Len(W) /\ text[1] = "-"
    BY <1>2, <1>3, <2>2, ConcatProperties
  <2>4. \A x : Scan(text, 10, x) = -Value(W, 10)
    BY <1>1, <1>2, ScanMinus
  <2> HIDE DEF text
  <2>5. text[1] # "0" /\ text[1] # Blank /\ Len(text) >= 1
    BY <1>3, <2>3 DEF Blank
  <2>6. \A x : ScanAny(text, x) = n
    BY <1>2, <2>1, <2>4, <2>5 DEF ScanAny
  <2> QED BY <2>1, <2>3, <2>5, <2>6 DEF text
<1>6. CASE ~(n < 0)
  <2>1. Decimal(n) = W /\ m = n
    BY <1>6 DEF Decimal
  <2> HIDE DEF W, m
  <2>2. \A x : Scan(W, 10, x) = Value(W, 10)
    BY <1>1, <1>2, ScanPlain
  <2>3. ~(Len(W) > 1 /\ W[1] = "0")
    BY <1>1, <1>2
  <2>4. \A x : ScanAny(W, x) = n
    BY <1>2, <2>1, <2>2, <2>3 DEF ScanAny
  <2> QED BY <1>2, <1>3, <1>4, <2>1, <2>4
<1> QED BY <1>5, <1>6

(* atonum reads every number that is written in decimal, behind any number of
   spaces but none (common.c:68-82, common.h:139-143). *)
THEOREM NumbersReadBack ==
  ASSUME NEW lead \in Nat \ {0}, NEW n \in Int
  PROVE  Atonum(Spaces(lead) \o Decimal(n)) = n
<1>1. PICK x : Atonum(Spaces(lead) \o Decimal(n)) = ScanAny(Decimal(n), x)
  BY DecimalReads, AtonumLast
<1> QED BY <1>1, DecimalReads

(* s is t behind the k entries of p. *)
IsJoined(s, S, k, p, t) ==
  /\ s \in Seq(S) /\ Len(s) = k + Len(t)
  /\ \A i \in 1..k : s[i] = p[i]
  /\ \A i \in 1..Len(t) : s[k + i] = t[i]
  /\ SubSeq(s, k + 1, Len(s)) = t

(* Two sequences put together *)
LEMMA Prefixed ==
  ASSUME NEW S, NEW k \in Nat, NEW p \in Seq(S), Len(p) = k, NEW t \in Seq(S)
  PROVE  IsJoined(p \o t, S, k, p, t)
<1>1. Len(t) \in Nat
  BY LenProperties
<1>2. /\ p \o t \in Seq(S) /\ Len(p \o t) = k + Len(t)
      /\ \A i \in 1..k + Len(t) : (p \o t)[i] = IF i <= k THEN p[i] ELSE t[i - k]
  BY ConcatProperties
<1> DEFINE s == p \o t
<1> HIDE DEF s
<1>3. \A i \in 1..k : s[i] = p[i]
  BY <1>1, <1>2 DEF s
<1>4. \A i \in 1..Len(t) : s[k + i] = t[i]
  <2> TAKE i \in 1..Len(t)
  <2>1. k + i \in 1..k + Len(t) /\ ~(k + i <= k) /\ k + i - k = i
    BY <1>1
  <2> QED BY <1>2, <2>1 DEF s
<1>5. SubSeq(p \o t, Len(p) + 1, Len(p \o t)) = t
  BY Behind
<1> QED BY <1>2, <1>3, <1>4, <1>5 DEF s, IsJoined

(* atonum reads a number written with a 0x in front as hexadecimal and with a 0
   in front as octal, for every number and any number of spaces but none
   (common.c:74-77, common.h:139-143). *)
THEOREM BasesReadBack ==
  ASSUME NEW lead \in Nat \ {0}, NEW n \in Nat
  PROVE  /\ Atonum(Spaces(lead) \o (<<"0", "x">> \o Written(n, 16))) = n
         /\ Atonum(Spaces(lead) \o (<<"0">> \o Written(n, 8))) = n
<1>1. 8 \in Bases /\ 16 \in Bases /\ "0" \in Characters
  <2>1. Numerals[0 + 1] = "0"
    BY DEF Numerals
  <2> QED BY <2>1 DEF Bases, Characters, NumeralsOf
<1>2. "0" # Blank
  BY DEF Blank
<1>3. Atonum(Spaces(lead) \o (<<"0", "x">> \o Written(n, 16))) = n
  <2> DEFINE W == Written(n, 16)
             p == <<"0", "x">>
             text == p \o W
  <2>1. W \in Seq(NumeralsOf(16)) /\ Len(W) >= 1 /\ Value(W, 16) = n
    BY <1>1, WrittenReads
  <2>2. W \in Seq(Characters) /\ Len(W) \in Nat
    BY <1>1, <2>1, NumeralsAreCharacters, LenProperties
  <2> HIDE DEF W
  <2>3. p \in Seq(Characters) /\ Len(p) = 2 /\ p[1] = "0" /\ p[2] = "x"
    BY <1>1 DEF Characters
  <2> HIDE DEF p
  <2>0. IsJoined(text, Characters, 2, p, W)
    BY <2>2, <2>3, Prefixed
  <2> HIDE DEF text
  <2>4. /\ text \in Seq(Characters) /\ Len(text) = 2 + Len(W) /\ Len(text) > 1
        /\ text[1] = "0" /\ text[2] = "x"
    BY <2>1, <2>2, <2>3, <2>0 DEF IsJoined
  <2>5. SubSeq(text, 3, Len(text)) = W
    BY <2>0 DEF IsJoined
  <2> HIDE DEF text
  <2>6. \A x : ScanAny(text, x) = n
    <3> TAKE x
    <3>1. ScanAny(text, x) = Scan(W, 16, x)
      BY <2>1, <2>2, <2>4, <2>5 DEF ScanAny
    <3> QED BY <1>1, <2>1, <3>1, ScanPlain
  <2>7. \E x : Atonum(Spaces(lead) \o text) = ScanAny(text, x)
    BY <1>2, <2>2, <2>4, AtonumLast
  <2> QED BY <2>6, <2>7 DEF text, p, W
<1>4. Atonum(Spaces(lead) \o (<<"0">> \o Written(n, 8))) = n
  <2> DEFINE W == Written(n, 8)
             p == <<"0">>
             text == p \o W
  <2>1. W \in Seq(NumeralsOf(8)) /\ Len(W) >= 1 /\ Value(W, 8) = n
    BY <1>1, WrittenReads
  <2>2. W \in Seq(Characters) /\ Len(W) \in Nat
    BY <1>1, <2>1, NumeralsAreCharacters, LenProperties
  <2>3. W[1] # "x" /\ W[1] # "X"
    <3>1. W[1] \in NumeralsOf(8)
      BY <2>1, <2>2, ElementOfSeq
    <3> QED BY <1>1, <3>1, NumeralsAreNone
  <2> HIDE DEF W
  <2>4. p \in Seq(Characters) /\ Len(p) = 1 /\ p[1] = "0"
    BY <1>1
  <2> HIDE DEF p
  <2>0. IsJoined(text, Characters, 1, p, W)
    BY <2>2, <2>4, Prefixed
  <2> HIDE DEF text
  <2>5. /\ text \in Seq(Characters) /\ Len(text) = 1 + Len(W) /\ Len(text) > 1
        /\ text[1] = "0" /\ text[2] = W[1]
    <3>1. 1 \in 1..Len(W) /\ 1 \in 1..1
      BY <2>1, <2>2
    <3>2. text[1] = p[1] /\ text[1 + 1] = W[1]
      BY <2>0, <3>1 DEF IsJoined
    <3> QED BY <2>1, <2>2, <2>4, <2>0, <3>2 DEF IsJoined
  <2>6. SubSeq(text, 2, Len(text)) = W
    BY <2>0 DEF IsJoined
  <2> HIDE DEF text
  <2>7. Tail(text) = W
    <3>1. text # <<>>
      BY <2>2, <2>5, EmptySeq
    <3> QED BY <2>5, <2>6, <3>1, TailIsSubSeq
  <2>8. \A x : ScanAny(text, x) = n
    <3> TAKE x
    <3>1. ScanAny(text, x) = Scan(W, 8, x)
      BY <2>1, <2>2, <2>3, <2>5, <2>7 DEF ScanAny
    <3> QED BY <1>1, <2>1, <3>1, ScanPlain
  <2>9. \E x : Atonum(Spaces(lead) \o text) = ScanAny(text, x)
    BY <1>2, <2>2, <2>5, AtonumLast
  <2> QED BY <2>8, <2>9 DEF text, p, W
<1> QED BY <1>3, <1>4

(* For an int of any width, what itoc writes into enough room is read back by
   atonum as the number it was (common.c:68-82, 299-313). *)
THEOREM IntsReadBack ==
  ASSUME NEW lead \in Nat \ {0}, NEW half \in Nat \ {0}, NEW n \in -half..half - 1,
         NEW maxlen \in Nat, Len(Decimal(n)) < maxlen
  PROVE  Atonum(Spaces(lead) \o Itoc(maxlen, n, half)) = n
<1>1. ((n + half) % (2 * half)) - half = n
  <2> DEFINE x == n + half
             y == 2 * half
  <2>1. x \in Nat /\ y \in Nat /\ x < y
    OBVIOUS
  <2> HIDE DEF x, y
  <2>2. x % y = x
    BY <2>1
  <2> QED BY <2>2 DEF x, y
<1>2. Itoc(maxlen, n, half) = SubSeq(Decimal(n), 1, Len(Decimal(n)))
  BY <1>1 DEF Itoc
<1>3. n \in Int
  OBVIOUS
<1>4. Itoc(maxlen, n, half) = Decimal(n)
  BY <1>2, <1>3, DecimalReads, SubSeqFull
<1> QED BY <1>3, <1>4, NumbersReadBack

(* For a long of any size and an int of any width, itoc writes the remainder of
   the long in the int, cut so that it and the NUL fit into the room there is
   (common.c:299-313, common.h:186-190). *)
THEOREM IntsAreCut ==
  ASSUME NEW half \in Nat \ {0}, NEW n \in Int, NEW maxlen \in Nat \ {0}
  PROVE  LET text == Decimal(((n + half) % (2 * half)) - half)
             short == Itoc(maxlen, n, half)
         IN Len(short) < maxlen /\ short = SubSeq(text, 1, Len(short))
<1> DEFINE m == ((n + half) % (2 * half)) - half
           text == Decimal(m)
           k == IF Len(text) < maxlen THEN Len(text) ELSE maxlen - 1
<1>1. m \in Int
  <2> DEFINE y == 2 * half
  <2>1. y \in Nat \ {0}
    OBVIOUS
  <2> HIDE DEF y
  <2>2. (n + half) % y \in Int
    BY <2>1
  <2> QED BY <2>2 DEF y
<1> HIDE DEF m
<1>2. text \in Seq(Characters)
  BY <1>1, DecimalReads
<1>3. Itoc(maxlen, n, half) = SubSeq(text, 1, k)
  BY DEF Itoc, m
<1> HIDE DEF text
<1>4. Len(text) \in Nat
  BY <1>2, LenProperties
<1>5. k \in 0..Len(text) /\ k < maxlen /\ k \in Nat
  BY <1>4
<1> HIDE DEF k
<1>6. \A i \in 1..k : text[i] \in Characters
  BY <1>2, <1>4, <1>5, ElementOfSeq
<1>7. Len(SubSeq(text, 1, k)) = k
  BY <1>5, <1>6, SubSeqProperties
<1> QED BY <1>3, <1>5, <1>7 DEF text, m

(* A number below 1000 has at most three digits. *)
LEMMA ShortNumbers ==
  ASSUME NEW n \in Nat, n < 1000
  PROVE  Len(Written(n, 10)) <= 3
<1>0. 10 \in Bases
  BY DEF Bases
<1>1. PICK rest, length :
        /\ length \in 1..n + 1
        /\ rest[0] = n /\ \A k \in 0..n + 1 : rest[k] \in Nat
        /\ \A k \in 1..n + 1 : rest[k] = rest[k - 1] \div 10
        /\ rest[length] = 0 /\ \A k \in 1..length - 1 : rest[k] # 0
        /\ Written(n, 10) = [i \in 1..length |-> Numerals[(rest[length - i] % 10) + 1]]
  BY <1>0, WrittenSteps
<1>2. Len(Written(n, 10)) = length
  BY <1>1
<1>3. ASSUME length > 3
      PROVE  FALSE
  <2>1. 1 \in 1..n + 1 /\ 2 \in 1..n + 1 /\ 3 \in 1..n + 1 /\ 3 \in 1..length - 1
    BY <1>1, <1>3
  <2>2. rest[1] = rest[0] \div 10 /\ rest[2] = rest[1] \div 10 /\ rest[3] = rest[2] \div 10
    <3>1. 1 - 1 = 0 /\ 2 - 1 = 1 /\ 3 - 1 = 2
      OBVIOUS
    <3> QED BY <1>1, <2>1, <3>1
  <2>3. rest[3] # 0
    BY <1>1, <2>1
  <2>4. \A x \in Nat : x < 1000 => ((x \div 10) \div 10) \div 10 = 0
    OBVIOUS
  <2>5. rest[3] = ((n \div 10) \div 10) \div 10
    BY <1>1, <2>2
  <2> QED BY <2>3, <2>4, <2>5
<1>4. length <= 3
  BY <1>1, <1>3
<1> QED BY <1>2, <1>4

(* Every number the run goes through is read back. *)
LEMMA NoneMisread == MisreadNumbers = {}
<1> DEFINE Reading(n, lead) == Atonum(Spaces(lead) \o Itoc(8, n, 128))
           Bad(n) == \/ \E lead \in 1..2 : \/ Reading(n, lead) \notin -128..127
                                          \/ (Reading(n, lead) - n) % 256 # 0
                     \/ \E maxlen \in 1..8 :
                          \/ Len(Itoc(maxlen, n, 128)) >= maxlen
                          \/ Itoc(maxlen, n, 128) #
                               SubSeq(Itoc(8, n, 128), 1, Len(Itoc(maxlen, n, 128)))
<1>0. MisreadNumbers = {n \in -300..300 : Bad(n)}
  BY DEF MisreadNumbers
<1> SUFFICES ASSUME NEW n \in -300..300 PROVE ~Bad(n)
  <2> HIDE DEF Bad
  <2> QED BY <1>0
<1> DEFINE m == ((n + 128) % 256) - 128
           full == Decimal(m)
<1>1. m \in -128..127 /\ (m - n) % 256 = 0 /\ m \in Int
  OBVIOUS
<1> HIDE DEF m
<1>2. full \in Seq(Characters) /\ Len(full) \in Nat /\ Len(full) <= 4
  <2>1. CASE m < 0
    <3> DEFINE W == Written(-m, 10)
    <3>1. full = <<"-">> \o W
      BY <2>1 DEF Decimal
    <3>2. -m \in Nat /\ -m < 1000 /\ 10 \in Bases
      BY <1>1, <2>1 DEF Bases
    <3>3. Len(W) <= 3 /\ W \in Seq(Characters)
      BY <3>2, ShortNumbers, WrittenReads, NumeralsAreCharacters
    <3> HIDE DEF W
    <3>4. <<"-">> \in Seq(Characters) /\ Len(<<"-">>) = 1
      BY DEF Characters
    <3>5. Len(full) = 1 + Len(W) /\ full \in Seq(Characters) /\ Len(W) \in Nat
      BY <3>1, <3>3, <3>4, ConcatProperties, LenProperties
    <3> QED BY <3>3, <3>5
  <2>2. CASE ~(m < 0)
    <3>1. full = Written(m, 10) /\ m \in Nat /\ m < 1000
      BY <1>1, <2>2 DEF Decimal
    <3>2. Len(full) <= 3
      BY <3>1, ShortNumbers
    <3>3. full \in Seq(Characters)
      BY <1>1, DecimalReads
    <3> QED BY <3>2, <3>3, LenProperties
  <2> QED BY <1>1, <2>1, <2>2
<1>3. Itoc(8, n, 128) = full
  <2>1. Itoc(8, n, 128) = SubSeq(full, 1, IF Len(full) < 8 THEN Len(full) ELSE 8 - 1)
    <3>1. 2 * 128 = 256
      OBVIOUS
    <3> QED BY <3>1 DEF Itoc, m
  <2>2. (IF Len(full) < 8 THEN Len(full) ELSE 8 - 1) = Len(full)
    BY <1>2
  <2> HIDE DEF full
  <2> QED BY <1>2, <2>1, <2>2, SubSeqFull
<1>4. ASSUME NEW lead \in 1..2
      PROVE  Atonum(Spaces(lead) \o full) = m
  BY <1>1, <1>4, NumbersReadBack
<1>5. ASSUME NEW maxlen \in 1..8
      PROVE  LET short == Itoc(maxlen, n, 128)
             IN Len(short) < maxlen /\ short = SubSeq(full, 1, Len(short))
  <2> DEFINE half == 128
  <2>1. half \in Nat \ {0} /\ maxlen \in Nat \ {0} /\ n \in Int /\ 2 * half = 256
    OBVIOUS
  <2>2. m = ((n + half) % (2 * half)) - half
    BY DEF m
  <2> HIDE DEF half
  <2>3. LET text == Decimal(((n + half) % (2 * half)) - half)
            short == Itoc(maxlen, n, half)
        IN Len(short) < maxlen /\ short = SubSeq(text, 1, Len(short))
    BY <2>1, IntsAreCut
  <2> QED BY <2>2, <2>3 DEF half
<1> HIDE DEF full
<1>6. ASSUME NEW lead \in 1..2
      PROVE  Reading(n, lead) \in -128..127 /\ (Reading(n, lead) - n) % 256 = 0
  BY <1>1, <1>3, <1>4
<1>7. ASSUME NEW maxlen \in 1..8
      PROVE  /\ ~(Len(Itoc(maxlen, n, 128)) >= maxlen)
             /\ Itoc(maxlen, n, 128) =
                  SubSeq(Itoc(8, n, 128), 1, Len(Itoc(maxlen, n, 128)))
  <2> DEFINE short == Itoc(maxlen, n, 128)
  <2>1. Len(short) < maxlen /\ short = SubSeq(full, 1, Len(short))
    BY <1>5
  <2>2. Len(short) \in Int
    BY DEF Itoc
  <2> HIDE DEF short
  <2>3. ~(Len(short) >= maxlen)
    BY <2>1, <2>2
  <2> QED BY <1>3, <2>1, <2>3 DEF short
<1> HIDE DEF Reading
<1> QED BY <1>6, <1>7

(* So is every hexadecimal and octal text it goes through. *)
LEMMA NoBaseMisread == MisreadBases = {}
<1> SUFFICES ASSUME NEW n \in 0..300
             PROVE  /\ Atonum(Spaces(1) \o (<<"0", "x">> \o Written(n, 16))) = n
                    /\ Atonum(Spaces(1) \o (<<"0">> \o Written(n, 8))) = n
  BY DEF MisreadBases
<1>1. n \in Nat /\ 1 \in Nat \ {0}
  OBVIOUS
<1> QED BY <1>1, BasesReadBack

(* The texts that the run goes through are sequences. *)
LEMMA TextsAreSeqs ==
  ASSUME NEW chars, NEW n \in Nat, NEW text \in Texts(chars, n)
  PROVE  text \in Seq(chars) /\ Len(text) \in 0..n /\ DOMAIN text = 1..Len(text)
<1>1. PICK k \in 0..n : text \in [1..k -> chars]
  BY DEF Texts
<1>2. k \in Nat
  OBVIOUS
<1>3. \A i \in 1..k : text[i] \in chars
  BY <1>1
<1>4. text = [i \in 1..k |-> text[i]]
  BY <1>1
<1>5. text \in Seq(chars)
  BY <1>2, <1>3, <1>4, IsASeq
<1>6. Len(text) \in Nat /\ DOMAIN text = 1..Len(text)
  BY <1>5, LenProperties
<1>7. DOMAIN text = 1..k
  BY <1>1
<1>8. Len(text) = k
  BY <1>2, <1>5, <1>7, LenProperties
<1> QED BY <1>5, <1>6, <1>8

(* None of the run's texts is read as other bytes than it stands for. *)
LEMMA NoTextMisread == MisreadTexts = {}
<1> DEFINE Bad(text) == \E outSize \in 0..3 :
                           Snprintu8(outSize, text, "x") # Prefix(BytesOf(text), outSize)
           Reading(text) == (\A i \in DOMAIN text : text[i] # "F") /\ Len(text) % 2 = 0
<1>1. MisreadTexts = {text \in Texts(Digits, 4) : Reading(text) /\ Bad(text)}
  BY DEF MisreadTexts
<1> SUFFICES ASSUME NEW text \in Texts(Digits, 4), Reading(text) PROVE ~Bad(text)
  <2> HIDE DEF Bad, Reading
  <2> QED BY <1>1
<1>2. text \in Seq(Digits) /\ Len(text) \in Nat /\ DOMAIN text = 1..Len(text)
  BY TextsAreSeqs, LenProperties
<1>3. Digits \ {"F"} \subseteq Chars
  <2>1. /\ Table[1] = "0" /\ Table[10] = "9" /\ Table[11] = "a" /\ Table[16] = "f"
        /\ Table[17] = "A" /\ Table[21] = "E"
    BY DEF Table
  <2>2. {"0", "9", "a", "f", "A", "E"} \subseteq Chars
    BY <2>1 DEF Chars
  <2> QED BY <2>2 DEF Digits
<1>4. \A i \in 1..Len(text) : text[i] \in Chars
  <2> TAKE i \in 1..Len(text)
  <2>1. text[i] \in Digits /\ text[i] # "F"
    BY <1>2, ElementOfSeq
  <2> QED BY <1>3, <2>1
<1>5. text \in Seq(Chars)
  <2>1. text = [i \in 1..Len(text) |-> text[i]]
    BY <1>2, LenProperties
  <2> QED BY <1>2, <1>4, <2>1, IsASeq
<1>6. ASSUME NEW outSize \in 0..3
      PROVE  Snprintu8(outSize, text, "x") = Prefix(BytesOf(text), outSize)
  <2>1. outSize \in Nat
    OBVIOUS
  <2> QED BY <1>5, <2>1, TextsReadAsBytes
<1> QED BY <1>6

(* None of its buffers is printed as text that reads back otherwise. *)
LEMMA NoneMisprinted == MisprintedBuffers = {}
<1> DEFINE Bad(in) == LET text == U8nprints(2 * Len(in), in)
                      IN \/ Len(text) # 2 * Len(in)
                         \/ \E k \in DOMAIN in : BytesOf(text)[Len(in) + 1 - k] # in[k]
                         \/ Snprintu8(Len(in), text, "x") # BytesOf(text)
<1>1. MisprintedBuffers = {in \in Buffers : Bad(in)}
  BY DEF MisprintedBuffers
<1> SUFFICES ASSUME NEW in \in Buffers PROVE ~Bad(in)
  <2> HIDE DEF Bad
  <2> QED BY <1>1
<1>2. in \in Seq(SomeBytes) /\ DOMAIN in = 1..Len(in)
  BY TextsAreSeqs DEF Buffers
<1>3. in \in Seq(0..255)
  BY <1>2 DEF SomeBytes
<1> QED BY <1>2, <1>3, BytesReadBack

(* No two of them are compared wrongly. *)
LEMMA NoneMiscompared == Miscompared = {}
<1> DEFINE Wrong(u1, u2, num) == (U8ncmp(u1, u2, num) < 0) # (Prefix(u1, num) # Prefix(u2, num))
           Bad(u1, u2) == \E num \in 1..3 :
                            num <= Len(u1) /\ num <= Len(u2) /\ Wrong(u1, u2, num)
           T == Texts({0, 165}, 3)
<1>1. Miscompared = {pair \in T \X T : Bad(pair[1], pair[2])}
  BY DEF Miscompared
<1>2. ASSUME NEW u1 \in T, NEW u2 \in T
      PROVE  ~Bad(u1, u2)
  <2>1. u1 \in Seq({0, 165}) /\ u2 \in Seq({0, 165})
    BY TextsAreSeqs
  <2>2. ASSUME NEW num \in 1..3, num <= Len(u1), num <= Len(u2)
        PROVE  ~Wrong(u1, u2, num)
    <3>1. num \in Nat
      OBVIOUS
    <3>2. U8ncmp(u1, u2, num) < 0 <=> Prefix(u1, num) # Prefix(u2, num)
      BY <2>1, <2>2, <3>1, BytesCompare
    <3> QED BY <3>2
  <2> HIDE DEF Wrong
  <2> QED BY <2>2
<1> HIDE DEF Bad, T
<1> QED BY <1>1, <1>2

(* None is copied as anything but its first bytes. *)
LEMMA NoneMiscopied == Miscopied = {}
<1> DEFINE Bad(in) == \E outSize \in 1..4 :
             LET text == U8toascii(outSize, in)  length == Len(text) - 1
             IN \/ length # Len(Prefix(in, outSize - 1)) \/ text[Len(text)] # 0
                \/ Asciitou8(length, text) # Prefix(in, outSize - 1)
<1>1. Miscopied = {in \in Buffers : Bad(in)}
  BY DEF Miscopied
<1> SUFFICES ASSUME NEW in \in Buffers PROVE ~Bad(in)
  <2> HIDE DEF Bad
  <2> QED BY <1>1
<1>2. in \in Seq(SomeBytes)
  BY TextsAreSeqs DEF Buffers
<1>3. in \in Seq(0..255)
  BY <1>2 DEF SomeBytes
<1>4. \A outSize \in 1..4 : outSize \in Nat \ {0}
  OBVIOUS
<1> QED BY <1>3, <1>4, CopiesAreCut

(* t is the n entries of s behind its first a. *)
IsCut(t, S, s, a, n) ==
  t \in Seq(S) /\ Len(t) = n /\ \A i \in 1..n : t[i] = s[a + i]

(* A part of a sequence *)
LEMMA Cut ==
  ASSUME NEW S, NEW s \in Seq(S), NEW a \in Nat, NEW n \in Nat, a + n <= Len(s)
  PROVE  IsCut(SubSeq(s, a + 1, a + n), S, s, a, n)
<1> DEFINE t == SubSeq(s, a + 1, a + n)
<1>1. Len(s) \in Nat /\ a + 1 \in Int /\ a + n \in Int
  BY LenProperties
<1>2. \A i \in a + 1..a + n : s[i] \in S
  <2> TAKE i \in a + 1..a + n
  <2>1. i \in 1..Len(s)
    BY <1>1
  <2> QED BY <2>1, ElementOfSeq
<1>3. t \in Seq(S)
  BY <1>1, <1>2, SubSeqProperties
<1>4. Len(t) = IF a + 1 <= a + n THEN (a + n) - (a + 1) + 1 ELSE 0
  BY <1>1, <1>2, SubSeqProperties
<1>5. \A i \in 1..(a + n) - (a + 1) + 1 : t[i] = s[(a + 1) + i - 1]
  BY <1>1, <1>2, SubSeqProperties
<1> HIDE DEF t
<1>6. Len(t) = n
  BY <1>4
<1>7. \A i \in 1..n : t[i] = s[a + i]
  <2> TAKE i \in 1..n
  <2>1. (a + n) - (a + 1) + 1 = n /\ (a + 1) + i - 1 = a + i
    OBVIOUS
  <2> QED BY <1>5, <2>1
<1> QED BY <1>3, <1>6, <1>7 DEF IsCut, t

(* There is a text before the needle and one behind it that make the haystack. *)
IsWithin(needle, haystack, C) ==
  \E left, right \in Seq(C) : left \o needle \o right = haystack

(* str_find_str finds a text of any length in another just when it is there
   (common.c:316-324, common.h:200-206). *)
THEOREM TextsFound ==
  ASSUME NEW C, NEW haystack \in Seq(C), NEW needle \in Seq(C)
  PROVE  StrFindStr(haystack, needle) <=> IsWithin(needle, haystack, C)
<1> DEFINE h == Len(haystack)
           n == Len(needle)
<1>1. h \in Nat /\ n \in Nat
  BY LenProperties
<1>2. ASSUME NEW k \in 1..h - n + 1, SubSeq(haystack, k, k + n - 1) = needle
      PROVE  \E left, right \in Seq(C) : left \o needle \o right = haystack
  <2> DEFINE l == k - 1
             r == h - (l + n)
             left == SubSeq(haystack, 0 + 1, 0 + l)
             right == SubSeq(haystack, (l + n) + 1, (l + n) + r)
             front == left \o needle
             all == front \o right
  <2>1. /\ l \in Nat /\ r \in Nat /\ l + n \in Nat /\ 0 + l <= h /\ l + n <= h
        /\ (l + n) + r <= h /\ (l + n) + r = h /\ 0 \in Nat
    BY <1>1
  <2>2. k = l + 1 /\ k + n - 1 = l + n
    BY <1>1
  <2> HIDE DEF l, r
  <2>3. IsCut(left, C, haystack, 0, l)
    BY <2>1, Cut
  <2>4. IsCut(right, C, haystack, l + n, r)
    BY <2>1, Cut
  <2>5. IsCut(needle, C, haystack, l, n)
    BY <1>1, <1>2, <2>1, <2>2, Cut
  <2> HIDE DEF left, right, h, n
  <2>6. IsJoined(front, C, l, left, needle)
    BY <2>1, <2>3, Prefixed DEF IsCut
  <2> HIDE DEF front
  <2>7. IsJoined(all, C, l + n, front, right)
    <3>1. front \in Seq(C) /\ Len(front) = l + n
      BY <2>6 DEF IsJoined, n
    <3>2. right \in Seq(C)
      BY <2>4 DEF IsCut
    <3> QED BY <2>1, <3>1, <3>2, Prefixed
  <2> HIDE DEF all
  <2>8. all \in Seq(C) /\ Len(all) = h
    <3>1. Len(right) = r
      BY <2>4 DEF IsCut
    <3> QED BY <2>1, <2>7, <3>1 DEF IsJoined
  <2>9. \A i \in 1..h : all[i] = haystack[i]
    <3> TAKE i \in 1..h
    <3>1. CASE i \in 1..l
      <4>1. i \in 1..l + n /\ 0 + i = i
        BY <1>1, <2>1, <3>1
      <4>2. all[i] = front[i] /\ front[i] = left[i]
        BY <2>6, <2>7, <3>1, <4>1 DEF IsJoined
      <4> QED BY <2>3, <3>1, <4>1, <4>2 DEF IsCut
    <3>2. CASE i \in l + 1..l + n
      <4> DEFINE j == i - l
      <4>1. j \in 1..n /\ i = l + j /\ i \in 1..l + n
        BY <1>1, <2>1, <3>2
      <4> HIDE DEF j
      <4>2. all[i] = front[i] /\ front[l + j] = needle[j]
        BY <2>6, <2>7, <4>1 DEF IsJoined, n
      <4> QED BY <2>5, <4>1, <4>2 DEF IsCut
    <3>3. CASE i \in (l + n) + 1..h
      <4> DEFINE j == i - (l + n)
      <4>1. j \in 1..r /\ i = (l + n) + j
        BY <1>1, <2>1, <3>3
      <4> HIDE DEF j
      <4>2. Len(right) = r
        BY <2>4 DEF IsCut
      <4>3. all[(l + n) + j] = right[j] /\ right[j] = haystack[(l + n) + j]
        BY <2>4, <2>7, <4>1, <4>2 DEF IsCut, IsJoined
      <4> QED BY <4>1, <4>3
    <3> QED BY <1>1, <2>1, <3>1, <3>2, <3>3
  <2>10. all = haystack
    BY <2>8, <2>9, SeqEqual DEF h
  <2>11. left \in Seq(C) /\ right \in Seq(C)
    BY <2>3, <2>4 DEF IsCut
  <2> QED BY <2>10, <2>11 DEF all, front
<1>3. ASSUME NEW left \in Seq(C), NEW right \in Seq(C), left \o needle \o right = haystack
      PROVE  StrFindStr(haystack, needle)
  <2> DEFINE l == Len(left)
             front == left \o needle
             found == SubSeq(haystack, l + 1, l + n)
  <2>1. l \in Nat /\ Len(right) \in Nat /\ l + n \in Nat
    BY <1>1, LenProperties
  <2>2. IsJoined(front, C, l, left, needle)
    BY <2>1, Prefixed
  <2> HIDE DEF front
  <2>3. IsJoined(haystack, C, l + n, front, right)
    <3>1. front \in Seq(C) /\ Len(front) = l + n
      BY <2>2 DEF IsJoined
    <3>2. front \o right = haystack
      BY <1>3 DEF front
    <3> HIDE DEF l, n
    <3> QED BY <2>1, <3>1, <3>2, Prefixed
  <2> HIDE DEF l, h, n
  <2>4. h = l + n + Len(right)
    BY <2>3 DEF IsJoined, h
  <2>5. l + n <= h
    BY <1>1, <2>1, <2>4
  <2>6. IsCut(found, C, haystack, l, n)
    BY <1>1, <2>1, <2>5, Cut DEF h
  <2> HIDE DEF found
  <2>7. \A i \in 1..n : found[i] = needle[i]
    <3> TAKE i \in 1..n
    <3>1. l + i \in 1..l + n
      BY <1>1, <2>1
    <3>2. haystack[l + i] = front[l + i] /\ front[l + i] = needle[i]
      BY <2>2, <2>3, <3>1 DEF IsJoined, n
    <3> QED BY <2>6, <3>2 DEF IsCut
  <2>8. found = needle
    BY <2>6, <2>7, SeqEqual DEF n, IsCut
  <2>9. l + 1 \in 1..h - n + 1 /\ (l + 1) + n - 1 = l + n
    BY <1>1, <2>1, <2>5
  <2> QED BY <2>8, <2>9 DEF StrFindStr, found, h, n
<1>4. StrFindStr(haystack, needle) <=> \E k \in 1..h - n + 1 : SubSeq(haystack, k, k + n - 1) = needle
  BY DEF StrFindStr
<1> QED BY <1>2, <1>3, <1>4 DEF IsWithin

(* What printd has put together after each of the texts *)
IsResult(result, C, texts) ==
  /\ result \in [0..Len(texts) -> Seq(C)] /\ result[0] = <<>>
  /\ \A k \in 1..Len(texts) : result[k] = result[k - 1] \o texts[k]
  /\ Ccmsg(texts) = result[Len(texts)]

(* ccmsg and printd put the texts together one by one. *)
LEMMA ResultSteps ==
  ASSUME NEW C, NEW texts \in Seq(Seq(C))
  PROVE  \E result : IsResult(result, C, texts)
<1> DEFINE N == Len(texts)
           S == Seq(C)
           step == [a \in (1..N) \X S |-> a[2] \o texts[a[1]]]
           result[k \in 0..N] == IF k = 0 THEN <<>> ELSE result[k - 1] \o texts[k]
<1>1. N \in Nat /\ \A k \in 1..N : texts[k] \in S
  BY LenProperties, ElementOfSeq
<1>2. Ccmsg(texts) = result[N]
  BY DEF Ccmsg
<1>3. step \in Steps(N, S) /\ <<>> \in S
  <2>1. \A k \in 1..N, x \in S : x \o texts[k] \in S
    BY <1>1, ConcatProperties
  <2>2. <<>> \in S
    OBVIOUS
  <2> HIDE DEF S, N
  <2> QED BY <2>1, <2>2 DEF Steps
<1> HIDE DEF N, S
<1>4. \A k \in 1..N, x \in S : step[<<k, x>>] = x \o texts[k]
  OBVIOUS
<1> HIDE DEF step
<1>5. PICK f : f \in [0..N -> S] /\ f[0] = <<>> /\ \A k \in 1..N : f[k] = step[<<k, f[k - 1]>>]
  <2>1. \E f : Follows(f, N, S, <<>>, step)
    BY <1>1, <1>3, Stepwise
  <2> QED BY <2>1 DEF Follows
<1>6. \A k \in 1..N : f[k] = f[k - 1] \o texts[k]
  <2> TAKE k \in 1..N
  <2>1. k - 1 \in 0..N
    BY <1>1
  <2> QED BY <1>4, <1>5, <2>1
<1>7. \A k \in 0..N : f[k] = IF k = 0 THEN <<>> ELSE f[k - 1] \o texts[k]
  <2> TAKE k \in 0..N
  <2>1. CASE k = 0
    BY <1>5, <2>1
  <2>2. CASE k # 0
    <3>1. k \in 1..N
      BY <1>1, <2>2
    <3> QED BY <1>6, <2>2, <3>1
  <2> QED BY <2>1, <2>2
<1>8. f = [k \in 0..N |-> IF k = 0 THEN <<>> ELSE f[k - 1] \o texts[k]]
  BY <1>5, <1>7
<1>9. result = [k \in 0..N |-> IF k = 0 THEN <<>> ELSE result[k - 1] \o texts[k]]
  BY <1>8
<1> HIDE DEF result
<1>10. result \in [0..N -> S] /\ result[0] = <<>> /\ \A k \in 1..N : result[k] = result[k - 1] \o texts[k]
  <2> DEFINE H == {k \in 0..N : result[k] = f[k]}
  <2>1. 0 \in H
    BY <1>1, <1>5, <1>9
  <2>2. ASSUME NEW k \in 0..N - 1, k \in H
        PROVE  k + 1 \in H
    <3> DEFINE m == k + 1
    <3>1. m \in 1..N /\ m \in 0..N /\ m - 1 = k /\ m # 0
      BY <1>1
    <3> HIDE DEF m
    <3>2. f[m] = f[m - 1] \o texts[m]
      BY <1>6, <3>1
    <3>3. result[m] = result[m - 1] \o texts[m]
      BY <1>9, <3>1
    <3>4. m \in H
      BY <2>2, <3>1, <3>2, <3>3
    <3> QED BY <3>4 DEF m
  <2> HIDE DEF H
  <2>3. \A k \in 0..N : k \in H
    BY <1>1, <2>1, <2>2, UpTo
  <2>4. \A k \in 0..N : result[k] = f[k]
    BY <2>3 DEF H
  <2>5. result = f
    BY <1>5, <1>9, <2>4
  <2> QED BY <1>5, <1>6, <2>5
<1> QED BY <1>2, <1>10 DEF IsResult, N, S

(* The room that printd has counted after each of the texts *)
IsTotal(total, texts) ==
  /\ total \in [0..Len(texts) -> Nat] /\ total[0] = 1
  /\ \A k \in 1..Len(texts) : total[k] = total[k - 1] + Len(texts[k])
  /\ RoomFor(texts) = total[Len(texts)]

(* printd counts the room text by text. *)
LEMMA TotalSteps ==
  ASSUME NEW C, NEW texts \in Seq(Seq(C))
  PROVE  \E total : IsTotal(total, texts)
<1> DEFINE N == Len(texts)
           step == [a \in (1..N) \X Nat |-> a[2] + Len(texts[a[1]])]
           total[k \in 0..N] == IF k = 0 THEN 1 ELSE total[k - 1] + Len(texts[k])
<1>1. N \in Nat /\ \A k \in 1..N : Len(texts[k]) \in Nat
  BY LenProperties, ElementOfSeq
<1>2. RoomFor(texts) = total[N]
  BY DEF RoomFor
<1> HIDE DEF N
<1>3. step \in Steps(N, Nat)
  BY <1>1 DEF Steps
<1>4. \A k \in 1..N, x \in Nat : step[<<k, x>>] = x + Len(texts[k])
  OBVIOUS
<1> HIDE DEF step
<1>5. PICK f : f \in [0..N -> Nat] /\ f[0] = 1 /\ \A k \in 1..N : f[k] = step[<<k, f[k - 1]>>]
  <2>1. \E f : Follows(f, N, Nat, 1, step)
    BY <1>1, <1>3, Stepwise
  <2> QED BY <2>1 DEF Follows
<1>6. \A k \in 1..N : f[k] = f[k - 1] + Len(texts[k])
  <2> TAKE k \in 1..N
  <2>1. k - 1 \in 0..N
    BY <1>1
  <2> QED BY <1>4, <1>5, <2>1
<1>7. \A k \in 0..N : f[k] = IF k = 0 THEN 1 ELSE f[k - 1] + Len(texts[k])
  <2> TAKE k \in 0..N
  <2>1. CASE k = 0
    BY <1>5, <2>1
  <2>2. CASE k # 0
    <3>1. k \in 1..N
      BY <1>1, <2>2
    <3> QED BY <1>6, <2>2, <3>1
  <2> QED BY <2>1, <2>2
<1>8. f = [k \in 0..N |-> IF k = 0 THEN 1 ELSE f[k - 1] + Len(texts[k])]
  BY <1>5, <1>7
<1>9. total = [k \in 0..N |-> IF k = 0 THEN 1 ELSE total[k - 1] + Len(texts[k])]
  BY <1>8
<1> HIDE DEF total
<1>10. total \in [0..N -> Nat] /\ total[0] = 1 /\ \A k \in 1..N : total[k] = total[k - 1] + Len(texts[k])
  <2> DEFINE H == {k \in 0..N : total[k] = f[k]}
  <2>1. 0 \in H
    BY <1>1, <1>5, <1>9
  <2>2. ASSUME NEW k \in 0..N - 1, k \in H
        PROVE  k + 1 \in H
    <3> DEFINE m == k + 1
    <3>1. m \in 1..N /\ m \in 0..N /\ m - 1 = k /\ m # 0
      BY <1>1
    <3> HIDE DEF m
    <3>2. f[m] = f[m - 1] + Len(texts[m])
      BY <1>6, <3>1
    <3>3. total[m] = total[m - 1] + Len(texts[m])
      BY <1>9, <3>1
    <3>4. m \in H
      BY <2>2, <3>1, <3>2, <3>3
    <3> QED BY <3>4 DEF m
  <2> HIDE DEF H
  <2>3. \A k \in 0..N : k \in H
    BY <1>1, <2>1, <2>2, UpTo
  <2>4. \A k \in 0..N : total[k] = f[k]
    BY <2>3 DEF H
  <2>5. total = f
    BY <1>5, <1>9, <2>4
  <2> QED BY <1>5, <1>6, <2>5
<1> QED BY <1>2, <1>10 DEF IsTotal, N

(* For any number of texts of any length, what ccmsg and printd put together
   fills the room they asked for with the NUL, and every text is whole, at the
   place that the room for the texts before it leaves (common.c:30-63, 132-165). *)
THEOREM TextsJoined ==
  ASSUME NEW C, NEW texts \in Seq(Seq(C))
  PROVE  /\ Ccmsg(texts) \in Seq(C) /\ Len(Ccmsg(texts)) + 1 = RoomFor(texts)
         /\ \A k \in 1..Len(texts) :
              LET before == RoomFor(SubSeq(texts, 1, k - 1)) - 1
              IN SubSeq(Ccmsg(texts), before + 1, before + Len(texts[k])) = texts[k]
<1> DEFINE N == Len(texts)
<1>1. N \in Nat /\ \A k \in 1..N : texts[k] \in Seq(C)
  BY LenProperties, ElementOfSeq
<1>2. PICK result : /\ result \in [0..N -> Seq(C)] /\ result[0] = <<>>
                    /\ \A k \in 1..N : result[k] = result[k - 1] \o texts[k]
                    /\ Ccmsg(texts) = result[N]
  BY ResultSteps DEF IsResult
<1>3. PICK total : /\ total \in [0..N -> Nat] /\ total[0] = 1
                   /\ \A k \in 1..N : total[k] = total[k - 1] + Len(texts[k])
                   /\ RoomFor(texts) = total[N]
  BY TotalSteps DEF IsTotal
<1> HIDE DEF N
<1>4. \A k \in 0..N : result[k] \in Seq(C) /\ Len(result[k]) \in Nat
  BY <1>2, LenProperties
<1>5. \A k \in 1..N : /\ k - 1 \in 0..N /\ Len(texts[k]) \in Nat
                      /\ IsJoined(result[k], C, Len(result[k - 1]), result[k - 1], texts[k])
  <2> TAKE k \in 1..N
  <2>1. k - 1 \in 0..N
    BY <1>1
  <2>2. Len(texts[k]) \in Nat
    BY <1>1, LenProperties
  <2>3. IsJoined(result[k - 1] \o texts[k], C, Len(result[k - 1]), result[k - 1], texts[k])
    BY <1>1, <1>4, <2>1, Prefixed
  <2> QED BY <1>2, <2>1, <2>2, <2>3
<1>6. \A k \in 1..N : Len(result[k]) = Len(result[k - 1]) + Len(texts[k])
  BY <1>5 DEF IsJoined
<1>7. \A k \in 0..N : Len(result[k]) + 1 = total[k]
  <2> DEFINE H == {k \in 0..N : Len(result[k]) + 1 = total[k]}
  <2>1. 0 \in H
    BY <1>1, <1>2, <1>3
  <2>2. ASSUME NEW k \in 0..N - 1, k \in H
        PROVE  k + 1 \in H
    <3> DEFINE m == k + 1
    <3>1. m \in 1..N /\ m \in 0..N /\ m - 1 = k /\ k \in 0..N
      BY <1>1
    <3> HIDE DEF m
    <3>2. /\ Len(result[m]) = Len(result[m - 1]) + Len(texts[m])
          /\ total[m] = total[m - 1] + Len(texts[m])
      BY <1>3, <1>6, <3>1
    <3>3. /\ Len(result[k]) \in Nat /\ Len(texts[m]) \in Nat /\ total[k] \in Nat
          /\ Len(result[m]) \in Nat /\ total[m] \in Nat
      BY <1>3, <1>4, <1>5, <3>1
    <3>4. Len(result[k]) + 1 = total[k]
      BY <2>2
    <3>5. Len(result[m]) = Len(result[k]) + Len(texts[m]) /\ total[m] = total[k] + Len(texts[m])
      BY <3>1, <3>2
    <3>6. Len(result[m]) + 1 = total[m]
      <4> DEFINE a == Len(result[k])
                 b == Len(result[m])
                 n == Len(texts[m])
                 c == total[k]
                 d == total[m]
      <4>1. a + 1 = c /\ b = a + n /\ d = c + n /\ a \in Nat /\ n \in Nat
        BY <3>3, <3>4, <3>5
      <4> HIDE DEF a, b, c, d, n
      <4>2. b + 1 = d
        BY <4>1
      <4> QED BY <4>2 DEF b, d
    <3>7. m \in H
      BY <3>1, <3>6
    <3> QED BY <3>7 DEF m
  <2> HIDE DEF H
  <2>3. \A k \in 0..N : k \in H
    BY <1>1, <2>1, <2>2, UpTo
  <2> QED BY <2>3 DEF H
<1>8. ASSUME NEW k \in 1..N
      PROVE  RoomFor(SubSeq(texts, 1, k - 1)) = total[k - 1]
  <2> DEFINE j == k - 1
             part == SubSeq(texts, 0 + 1, 0 + j)
  <2>1. j \in Nat /\ j \in 0..N /\ 0 + j <= N /\ 0 + j = k - 1 /\ 0 + 1 = 1 /\ 0 \in Nat
    BY <1>1
  <2> HIDE DEF j
  <2>2. IsCut(part, Seq(C), texts, 0, j)
    BY <2>1, Cut DEF N
  <2>3. part = SubSeq(texts, 1, k - 1)
    BY <2>1
  <2> HIDE DEF part
  <2>4. part \in Seq(Seq(C)) /\ Len(part) = j /\ \A i \in 1..j : part[i] = texts[i]
    <3>1. \A i \in 1..j : 0 + i = i
      OBVIOUS
    <3> QED BY <2>2, <3>1 DEF IsCut
  <2>5. PICK t : /\ t \in [0..j -> Nat] /\ t[0] = 1
                 /\ \A i \in 1..j : t[i] = t[i - 1] + Len(part[i])
                 /\ RoomFor(part) = t[j]
    BY <2>4, TotalSteps DEF IsTotal
  <2> DEFINE H == {i \in 0..j : t[i] = total[i]}
  <2>6. 0 \in H
    BY <1>3, <2>1, <2>5
  <2>7. ASSUME NEW i \in 0..j - 1, i \in H
        PROVE  i + 1 \in H
    <3>1. i + 1 \in 1..j /\ i + 1 \in 1..N /\ i + 1 \in 0..j /\ i + 1 - 1 = i
      BY <1>1, <2>1
    <3>2. t[i + 1] = t[i] + Len(texts[i + 1]) /\ total[i + 1] = total[i] + Len(texts[i + 1])
      BY <1>3, <2>4, <2>5, <3>1
    <3> QED BY <2>7, <3>1, <3>2
  <2> HIDE DEF H
  <2>8. \A i \in 0..j : i \in H
    BY <2>1, <2>6, <2>7, UpTo
  <2>9. j \in H
    BY <2>1, <2>8
  <2> QED BY <2>3, <2>5, <2>9 DEF H, j
<1>9. ASSUME NEW k \in 1..N
      PROVE  SubSeq(Ccmsg(texts), Len(result[k - 1]) + 1, Len(result[k - 1]) + Len(texts[k]))
               = texts[k]
  <2> DEFINE a == Len(result[k - 1])
             n == Len(texts[k])
             There(m) == a + n <= Len(result[m]) /\ \A i \in 1..n : result[m][a + i] = texts[k][i]
             H == {m \in 0..N : m >= k => There(m)}
  <2>1. a \in Nat /\ n \in Nat /\ k \in 0..N
    BY <1>4, <1>5
  <2>2. There(k)
    <3>1. Len(result[k]) = a + n
      BY <1>6
    <3>2. \A i \in 1..n : result[k][a + i] = texts[k][i]
      BY <1>5 DEF IsJoined
    <3> HIDE DEF a, n
    <3>3. a + n <= Len(result[k])
      BY <2>1, <3>1
    <3> QED BY <3>2, <3>3
  <2> HIDE DEF a, n
  <2>3. 0 \in H
    BY <1>1
  <2>4. ASSUME NEW m \in 0..N - 1, m \in H
        PROVE  m + 1 \in H
    <3>1. m + 1 \in 1..N /\ m + 1 \in 0..N /\ m + 1 - 1 = m /\ m \in 0..N
      BY <1>1
    <3>2. CASE m + 1 < k
      BY <3>1, <3>2
    <3>3. CASE m + 1 = k
      BY <2>2, <3>1, <3>3
    <3>4. CASE m + 1 > k
      <4>1. There(m)
        BY <2>4, <3>4
      <4>2. IsJoined(result[m + 1], C, Len(result[m]), result[m], texts[m + 1])
        BY <1>5, <3>1
      <4>3. Len(result[m]) \in Nat /\ Len(texts[m + 1]) \in Nat /\ Len(result[m + 1]) \in Nat
        BY <1>4, <1>5, <3>1
      <4>4. a + n <= Len(result[m + 1])
        <5>1. Len(result[m + 1]) = Len(result[m]) + Len(texts[m + 1])
          BY <4>2 DEF IsJoined
        <5>2. a + n <= Len(result[m])
          BY <4>1
        <5> DEFINE b == Len(result[m + 1])
                   c == Len(result[m])
                   d == Len(texts[m + 1])
        <5>3. b = c + d /\ a + n <= c /\ c \in Nat /\ d \in Nat
          BY <4>3, <5>1, <5>2
        <5> HIDE DEF b, c, d
        <5>4. a + n <= b
          BY <2>1, <5>3
        <5> QED BY <5>4 DEF b
      <4>5. \A i \in 1..n : result[m + 1][a + i] = texts[k][i]
        <5> TAKE i \in 1..n
        <5>1. a + i \in 1..Len(result[m])
          BY <2>1, <4>1, <4>3
        <5>2. result[m + 1][a + i] = result[m][a + i]
          BY <4>2, <5>1 DEF IsJoined
        <5> QED BY <4>1, <5>2
      <4> QED BY <3>1, <4>4, <4>5
    <3> QED BY <3>1, <3>2, <3>3, <3>4
  <2>5. N \in H
    <3> HIDE DEF H
    <3>1. \A m \in 0..N : m \in H
      BY <1>1, <2>3, <2>4, UpTo
    <3> QED BY <1>1, <3>1
  <2>6. There(N)
    BY <1>1, <2>5
  <2> DEFINE s == result[N]
             t == SubSeq(s, a + 1, a + n)
  <2>7. s \in Seq(C)
    BY <1>1, <1>4
  <2>8. IsCut(t, C, s, a, n)
    BY <2>1, <2>6, <2>7, Cut
  <2> HIDE DEF t
  <2>9. t \in Seq(C) /\ Len(t) = n /\ \A i \in 1..n : t[i] = texts[k][i]
    BY <2>6, <2>8 DEF IsCut
  <2>10. t = texts[k]
    BY <1>1, <2>9, SeqEqual DEF n
  <2> QED BY <1>2, <2>10 DEF t, a, n
<1>10. Ccmsg(texts) \in Seq(C) /\ Len(Ccmsg(texts)) + 1 = RoomFor(texts)
  <2>1. N \in 0..N
    BY <1>1
  <2> QED BY <1>2, <1>3, <1>4, <1>7, <2>1
<1>11. ASSUME NEW k \in 1..N
       PROVE  RoomFor(SubSeq(texts, 1, k - 1)) - 1 = Len(result[k - 1])
  <2>1. k - 1 \in 0..N
    BY <1>1
  <2>2. Len(result[k - 1]) \in Nat /\ Len(result[k - 1]) + 1 = total[k - 1]
    BY <1>4, <1>7, <2>1
  <2> QED BY <1>8, <2>2
<1> QED BY <1>9, <1>10, <1>11 DEF N

(* A sequence that is short enough is one of the run's texts. *)
LEMMA SeqsAreTexts ==
  ASSUME NEW chars, NEW n \in Nat, NEW text \in Seq(chars), Len(text) <= n
  PROVE  text \in Texts(chars, n)
<1>1. Len(text) \in 0..n
  BY LenProperties
<1>2. text \in [1..Len(text) -> chars]
  BY LenProperties
<1> QED BY <1>1, <1>2 DEF Texts

(* No text of the run is found where it is not, or missed. *)
LEMMA NoneMisfound == Misfound = {}
<1> DEFINE C == {"a", "b"}
           T == Texts(C, 4)
           Is(s, t) == \E left, right \in T : left \o s \o right = t
<1>1. Misfound = {pair \in SomeTexts \X T : StrFindStr(pair[2], pair[1]) # Is(pair[1], pair[2])}
  BY DEF Misfound, Texts
<1>2. SomeTexts = Texts(C, 2)
  BY DEF SomeTexts, Texts
<1> HIDE DEF C
<1>3. ASSUME NEW s \in Texts(C, 2), NEW t \in T
      PROVE  StrFindStr(t, s) <=> Is(s, t)
  <2>1. s \in Seq(C) /\ t \in Seq(C) /\ Len(t) \in 0..4
    BY TextsAreSeqs
  <2>2. StrFindStr(t, s) <=> IsWithin(s, t, C)
    BY <2>1, TextsFound
  <2>3. ASSUME NEW left \in Seq(C), NEW right \in Seq(C), left \o s \o right = t
        PROVE  left \in T /\ right \in T
    <3>1. left \o s \in Seq(C) /\ Len(left \o s) = Len(left) + Len(s)
      BY <2>1, ConcatProperties
    <3>2. Len(t) = Len(left) + Len(s) + Len(right)
      BY <2>3, <3>1, ConcatProperties
    <3>3. Len(left) \in Nat /\ Len(s) \in Nat /\ Len(right) \in Nat
      BY <2>1, LenProperties
    <3>4. Len(left) <= 4 /\ Len(right) <= 4
      BY <2>1, <3>2, <3>3
    <3> QED BY <3>4, SeqsAreTexts
  <2>4. \A x \in T : x \in Seq(C)
    BY TextsAreSeqs
  <2> HIDE DEF T
  <2> QED BY <2>2, <2>3, <2>4 DEF IsWithin
<1>4. StrFindStr(<<>>, <<>>) \in BOOLEAN
  BY DEF StrFindStr
<1> HIDE DEF Is, T
<1> QED BY <1>1, <1>2, <1>3 DEF StrFindStr, Is

(* None of its texts is joined wrongly. *)
LEMMA NoneMisjoined == Misjoined = {}
<1> DEFINE C == {"a", "b"}
           Bad(texts) == \/ Len(Ccmsg(texts)) + 1 # RoomFor(texts)
                         \/ \E k \in DOMAIN texts :
                              LET before == RoomFor(SubSeq(texts, 1, k - 1)) - 1
                              IN SubSeq(Ccmsg(texts), before + 1, before + Len(texts[k])) # texts[k]
<1>1. Misjoined = {texts \in Texts(SomeTexts, 3) : Bad(texts)}
  BY DEF Misjoined, Texts
<1> SUFFICES ASSUME NEW texts \in Texts(SomeTexts, 3) PROVE ~Bad(texts)
  <2> HIDE DEF Bad
  <2> QED BY <1>1
<1>2. SomeTexts \subseteq Seq(C)
  <2>1. SomeTexts = Texts(C, 2)
    BY DEF SomeTexts, Texts
  <2> HIDE DEF C
  <2> QED BY <2>1, TextsAreSeqs
<1>3. texts \in Seq(SomeTexts) /\ DOMAIN texts = 1..Len(texts)
  BY TextsAreSeqs
<1> HIDE DEF C
<1>4. texts \in Seq(Seq(C))
  <2> DEFINE S == Seq(C)
  <2> HIDE DEF S
  <2>1. \A i \in 1..Len(texts) : texts[i] \in S
    BY <1>2, <1>3, ElementOfSeq DEF S
  <2>2. texts = [i \in 1..Len(texts) |-> texts[i]] /\ Len(texts) \in Nat
    BY <1>3, LenProperties
  <2>3. texts \in Seq(S)
    BY <2>1, <2>2, IsASeq
  <2> QED BY <2>3 DEF S
<1> QED BY <1>3, <1>4, TextsJoined

(* What the header says of the conversions holds for everything the program
   calls them with, as long as it is defined: it follows from the theorems
   above, which hold for texts and numbers of any length (common.c:30-165,
   299-542). *)
THEOREM ConversionsHold == Spec => []ConversionsAgree
<1>1. ConversionsAgree
  BY NoTextMisread, NoneMisprinted, NoneMiscompared, NoneMiscopied, NoneMisread,
     NoBaseMisread, NoneMisjoined, NoneMisfound DEF ConversionsAgree
<1> QED BY <1>1, PTL
=============================================================================
