-------------------------------- MODULE AutoInput --------------------------------
(***************************************************************************)
(* The terminal under --auto (cmd/korocon/main.go: waitForAutoPolling and  *)
(* autoPollingInput; internal/daemon/daemon.go: the input loop of Run).    *)
(*                                                                         *)
(* One goroutine reads the terminal for as long as the process lives and   *)
(* files each line for the one that reads at the moment: the wait of auto  *)
(* mode, in which Enter fetches the lists again, or the daemon, for which  *)
(* Enter is a decision.  A wait reads by goroutines of its own, which may  *)
(* outlive it.  All of them are woken by one token in a channel of one     *)
(* place.                                                                  *)
(*                                                                         *)
(* What the selection finds and what the daemon makes of a line are left   *)
(* open; AutoRoles and Resident have the details.  Names are not those of  *)
(* Resident, so that one module can extend both.                           *)
(***************************************************************************)
EXTENDS Naturals, Sequences

CONSTANTS MaxLine,  \* bound: lines that are typed, the end of the input included
          MaxWait   \* bound: waits of auto mode

ASSUME AutoInputAssumption == MaxLine \in Nat /\ MaxWait \in Nat

VARIABLES
  terminal,     \* the goroutine of newAutoPollingInput and the line it holds
  waiting, waitLines, normalLines, notify,   \* autoPollingInput
  terminalErr,  \* Read has returned the end of the input
  main,         \* the main goroutine
  wait,         \* the number of the last wait
  next,         \* the goroutine in nextLine of each wait, or what it returned
  lines,        \* lines read from the terminal
  stolen        \* history: a goroutine whose wait is over has taken a token or a line

input == <<waiting, waitLines, normalLines, notify>>
inputVars == <<terminal, input, terminalErr, main, wait, next, lines, stolen>>

Waits == 1 .. MaxWait

\* What ReadString returns: Enter, another line, or what stands before the end of
\* the input, which may be nothing.  "after" is the last wait before it was filed.
Text == {"enter", "text", "none"}
Line == {line \in [id : 1 .. MaxLine, text : Text, end : BOOLEAN, after : 0 .. MaxWait] :
           line.text = "none" => line.end}
NoLine == [id |-> 0, text |-> "none", end |-> TRUE, after |-> 0]

InputTypeOK ==
  /\ terminal \in [pc : {"reading", "file", "notify", "ended"}, line : Line \cup {NoLine}]
  /\ waiting \in BOOLEAN /\ notify \in BOOLEAN /\ terminalErr \in BOOLEAN /\ stolen \in BOOLEAN
  /\ waitLines \in Seq(Line) /\ normalLines \in Seq(Line)
  /\ main \in {"select", "begin", "wait", "leave", "cancel", "read", "token", "over"}
  /\ wait \in 0 .. MaxWait /\ lines \in 0 .. MaxLine
  /\ next \in [Waits -> {"none", "check", "token", "gone", "enter", "text", "end"}]

InputInit ==
  /\ terminal = [pc |-> "reading", line |-> NoLine]
  /\ waiting = FALSE /\ waitLines = <<>> /\ normalLines = <<>> /\ notify = FALSE
  /\ terminalErr = FALSE
  /\ main = "select" /\ wait = 0
  /\ next = [w \in Waits |-> "none"]
  /\ lines = 0
  /\ stolen = FALSE

DaemonReads == main \in {"read", "token"}
Live(w) == next[w] \in {"check", "token"}

\* waitCtx of the wait is done.
CtxDone(w) == w # wait \/ main \notin {"wait", "leave", "cancel"}

-----------------------------------------------------------------------------
(* The goroutine that reads the terminal *)

\* A line is typed, or the input ends, behind some text or not.
ReadLine ==
  /\ terminal.pc = "reading" /\ lines < MaxLine
  /\ lines' = lines + 1
  /\ \E text \in Text, end \in BOOLEAN :
       /\ text = "none" => end
       /\ terminal' = [pc |-> "file",
                     line |-> [id |-> lines + 1, text |-> text, end |-> end, after |-> 0]]
  /\ UNCHANGED <<input, terminalErr, main, wait, next, stolen>>

FileLine ==
  /\ terminal.pc = "file"
  /\ LET line == [terminal.line EXCEPT !.after = wait]
     IN IF waiting
        THEN waitLines' = Append(waitLines, line) /\ UNCHANGED normalLines
        ELSE normalLines' = Append(normalLines, line) /\ UNCHANGED waitLines
  /\ terminal' = [terminal EXCEPT !.pc = "notify"]
  /\ UNCHANGED <<waiting, notify, terminalErr, main, wait, next, lines, stolen>>

\* The token is left where it is when nobody has taken the last one.
Notify ==
  /\ terminal.pc = "notify"
  /\ notify' = TRUE
  /\ terminal' = [pc |-> IF terminal.line.end THEN "ended" ELSE "reading", line |-> NoLine]
  /\ UNCHANGED <<waiting, waitLines, normalLines, terminalErr, main, wait, next, lines, stolen>>

-----------------------------------------------------------------------------
(* The wait of auto mode *)

\* No target is found.
NoTarget ==
  /\ main = "select" /\ wait < MaxWait
  /\ main' = "begin" /\ wait' = wait + 1
  /\ UNCHANGED <<terminal, input, terminalErr, next, lines, stolen>>

\* Mutant: lines of the last daemon are kept for the next one.
BeginWaitKeeps ==
  /\ main = "begin"
  /\ waiting' = TRUE /\ waitLines' = <<>>
  /\ next' = [next EXCEPT ![wait] = "check"]
  /\ main' = "wait"
  /\ UNCHANGED <<terminal, normalLines, notify, terminalErr, wait, lines, stolen>>

\* beginWait forgets what was typed before, and startInput starts a nextLine.
BeginWait ==
  /\ main = "begin"
  /\ waiting' = TRUE /\ waitLines' = <<>> /\ normalLines' = <<>>
  /\ next' = [next EXCEPT ![wait] = "check"]
  /\ main' = "wait"
  /\ UNCHANGED <<terminal, notify, terminalErr, wait, lines, stolen>>

\* nextLine looks for a line before it looks at its context.
TakeWaitLine(w) ==
  /\ next[w] = "check"
  /\ IF waitLines = <<>>
     THEN next' = [next EXCEPT ![w] = "token"] /\ UNCHANGED waitLines
     ELSE /\ next' = [next EXCEPT ![w] = IF Head(waitLines).end THEN "end" ELSE Head(waitLines).text]
          /\ waitLines' = Tail(waitLines)
  /\ stolen' = (stolen \/ (waitLines # <<>> /\ CtxDone(w)))
  /\ UNCHANGED <<terminal, waiting, normalLines, notify, terminalErr, main, wait, lines>>

\* select takes the token though the context is done, if it comes to see both.
TakeToken(w) ==
  /\ next[w] = "token" /\ notify
  /\ notify' = FALSE
  /\ next' = [next EXCEPT ![w] = "check"]
  /\ stolen' = (stolen \/ CtxDone(w))
  /\ UNCHANGED <<terminal, waiting, waitLines, normalLines, terminalErr, main, wait, lines>>

GiveUp(w) ==
  /\ next[w] = "token" /\ CtxDone(w)
  /\ next' = [next EXCEPT ![w] = "gone"]
  /\ UNCHANGED <<terminal, input, terminalErr, main, wait, lines, stolen>>

NextLine(w) == TakeWaitLine(w) \/ TakeToken(w) \/ GiveUp(w)

\* Mutant: a line that is not Enter is the last one that is read.
HearWaitOnce ==
  /\ main = "wait" /\ next[wait] \in {"enter", "text", "end"}
  /\ main' = IF next[wait] = "enter" THEN "leave" ELSE "wait"
  /\ next' = [next EXCEPT ![wait] = "gone"]
  /\ UNCHANGED <<terminal, input, terminalErr, wait, lines, stolen>>

\* Enter ends the wait, another line starts the next nextLine, and with the end of
\* the input only the timer is left.
HearWait ==
  /\ main = "wait" /\ next[wait] \in {"enter", "text", "end"}
  /\ main' = IF next[wait] = "enter" THEN "leave" ELSE "wait"
  /\ next' = [next EXCEPT ![wait] = IF next[wait] = "text" THEN "check" ELSE "gone"]
  /\ UNCHANGED <<terminal, input, terminalErr, wait, lines, stolen>>

Timeout ==
  /\ main = "wait"
  /\ main' = "leave"
  /\ UNCHANGED <<terminal, input, terminalErr, wait, next, lines, stolen>>

\* The deferred endWait, and then cancel.
EndWait ==
  /\ main = "leave"
  /\ waiting' = FALSE /\ waitLines' = <<>>
  /\ main' = "cancel"
  /\ UNCHANGED <<terminal, normalLines, notify, terminalErr, wait, next, lines, stolen>>

CancelWait ==
  /\ main = "cancel"
  /\ main' = "select"
  /\ UNCHANGED <<terminal, input, terminalErr, wait, next, lines, stolen>>

-----------------------------------------------------------------------------
(* The daemon, which reads by Read *)

\* A target is found and Run begins.
Target ==
  /\ main = "select"
  /\ main' = "read"
  /\ UNCHANGED <<terminal, input, terminalErr, wait, next, lines, stolen>>

\* The daemon does what a line says, which may be to leave for the selection.  The
\* end of the input ends it, and the process, unless the line before it left.
Read ==
  /\ main = "read" /\ ~terminalErr /\ normalLines # <<>>
  /\ LET line == Head(normalLines)
     IN /\ terminalErr' = line.end
        /\ \/ main' = IF line.end THEN "over" ELSE "read"
           \/ line.text # "none" /\ main' = "select"
  /\ normalLines' = Tail(normalLines)
  /\ UNCHANGED <<terminal, waiting, waitLines, notify, wait, next, lines, stolen>>

ReadEnd ==
  /\ main = "read" /\ terminalErr
  /\ main' = "over"
  /\ UNCHANGED <<terminal, input, terminalErr, wait, next, lines, stolen>>

ReadBlocks ==
  /\ main = "read" /\ ~terminalErr /\ normalLines = <<>>
  /\ main' = "token"
  /\ UNCHANGED <<terminal, input, terminalErr, wait, next, lines, stolen>>

ReadToken ==
  /\ main = "token" /\ notify
  /\ notify' = FALSE
  /\ main' = "read"
  /\ UNCHANGED <<terminal, waiting, waitLines, normalLines, terminalErr, wait, next, lines, stolen>>

\* Ctrl+C, or an error of the selection.
Interrupt ==
  /\ main # "over"
  /\ main' = "over"
  /\ UNCHANGED <<terminal, input, terminalErr, wait, next, lines, stolen>>

-----------------------------------------------------------------------------
TerminalStep == FileLine \/ Notify
MainStep ==
  \/ BeginWait \/ HearWait \/ EndWait \/ CancelWait
  \/ Read \/ ReadEnd \/ ReadBlocks \/ ReadToken
Waiter == \E w \in Waits : NextLine(w)

InputNext == ReadLine \/ TerminalStep \/ MainStep \/ Waiter \/ NoTarget \/ Target \/ Timeout \/ Interrupt

InputSpec == InputInit /\ [][InputNext]_inputVars

\* Goroutines go on.  Nothing is assumed of the operator, of GitHub and of the
\* timer, whose interval may be hours.
FairInputSpec ==
  /\ InputSpec /\ WF_inputVars(TerminalStep) /\ WF_inputVars(MainStep)
  /\ \A w \in Waits : WF_inputVars(NextLine(w))

-----------------------------------------------------------------------------
(* Properties *)

\* A line is for the one that was there when it was filed: what was typed before
\* or in a wait never decides anything in the daemon that follows, and the wait
\* knows nothing of what was typed for the daemon.
LinesKeepTheirReader ==
  /\ DaemonReads =>
       waitLines = <<>> /\ \A i \in DOMAIN normalLines : normalLines[i].after = wait
  /\ main = "wait" =>
       normalLines = <<>> /\ \A i \in DOMAIN waitLines : waitLines[i].after = wait

\* No wake-up is lost: a goroutine that sleeps until the token comes has nothing to
\* read, unless the token is there or about to be left, or one of an earlier wait
\* took it.  The lock is given up between the look for a line and the sleep.
NoWakeupIsLost ==
  \/ notify \/ terminal.pc = "notify" \/ stolen
  \/ /\ main = "token" => normalLines = <<>>
     /\ main = "wait" /\ next[wait] = "token" => waitLines = <<>>

\* The three together: every state is of its type, LinesKeepTheirReader, and
\* NoWakeupIsLost.
InputInvariant == InputTypeOK /\ LinesKeepTheirReader /\ NoWakeupIsLost

\* Enter in a wait fetches the lists at once, whatever was typed before it, but
\* for a goroutine of an earlier wait that took the token or the line.
EnterEndsWait ==
  \A w \in Waits :
    (/\ main = "wait" /\ wait = w
     /\ \E i \in DOMAIN waitLines : /\ waitLines[i].text = "enter"
                                    /\ \A j \in 1 .. i : ~waitLines[j].end)
      ~> (main # "wait" \/ wait # w \/ stolen)

\* A line that was typed while the daemon reads is read, and the end of the input
\* ends the daemon, but for a goroutine of an earlier wait that took the token.
Pending ==
  {normalLines[i] : i \in DOMAIN normalLines} \cup (IF terminal.pc = "file" THEN {terminal.line} ELSE {})
DaemonHears ==
  /\ \A n \in 1 .. MaxLine :
       DaemonReads /\ (\E line \in Pending : line.id = n)
         ~> ~DaemonReads \/ stolen \/ (\A line \in Pending : line.id # n)
  /\ DaemonReads /\ (\E line \in Pending : line.end) ~> ~DaemonReads \/ stolen

\* Nobody misses his line: EnterEndsWait in a wait, DaemonHears in a daemon.
LinesAreHeard == EnterEndsWait /\ DaemonHears
=============================================================================
