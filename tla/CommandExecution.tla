-------------------------- MODULE CommandExecution --------------------------
(***************************************************************************)
(* ExecuteCommand (src/common/commonutils/CommandUtils.c), by which every  *)
(* audit and remediation runs a shell command: a forked child writes to a  *)
(* pipe, the caller reads it until the end, a deadline or a cancellation,  *)
(* kills the child and waits for it.                                       *)
(*                                                                         *)
(* The command is any: it may write more than the pipe holds, crash, hang, *)
(* or leave a process behind that keeps the pipe open.  The shell itself   *)
(* keeps it open until it ends: the child does not close the descriptor    *)
(* that it duplicates.  A byte is its position in the output; a caller     *)
(* that wants no output is like one with a limit of 1.                     *)
(***************************************************************************)
EXTENDS Naturals, Sequences

CONSTANTS
    MaxOutput,      \* bound on what the command writes
    PipeCapacity,
    BufferSize,     \* BUFFER_SIZE, what one read returns at most
    Limits,         \* the values of maxTextResultBytes; 0 is no limit
    Timeouts,       \* the values of timeoutSeconds; 0 is none
    DefaultTimeout, \* defaultCommandTimeout
    Interval,       \* callbackIntervalSeconds
    Horizon         \* bound on the clock

ASSUME CommandAssumption ==
    /\ {MaxOutput, DefaultTimeout, Interval, Horizon} \subseteq Nat
    /\ {PipeCapacity, BufferSize} \subseteq Nat \ {0}
    /\ Limits \subseteq Nat /\ Timeouts \subseteq Nat
    /\ \A t \in Timeouts \cup {DefaultTimeout} : t <= Horizon

VARIABLES
    args,           \* of the call: limit, timeout, and whether there is a callback
    child,          \* the shell
    code,           \* how it ended
    writers,        \* who has the write end of the pipe: the shell, others it started
    written,        \* number of bytes written
    text, got,      \* the result, and the number of bytes read
    pc, ready,      \* of the caller; what select said
    status,
    now, nextCallback   \* since startTime; when the callback is due

command == <<child, code, writers, written>>
vars == <<args, command, text, got, pc, ready, status, now, nextCallback>>

Codes == {"success", "failure", "signal"}

TypeOK ==
    /\ args \in [limit : Limits, timeout : Timeouts \cup {DefaultTimeout},
                 callback : BOOLEAN]
    /\ child \in {"running", "ended", "reaped"}
    /\ code \in Codes \cup {"none"}
    /\ writers \subseteq {"shell", "other"}
    /\ written \in 0..MaxOutput
    /\ got \in 0..written /\ written - got <= PipeCapacity
    /\ text \in Seq(1..MaxOutput)
    \* There is room for the terminating zero.
    /\ args.limit > 0 => Len(text) < args.limit
    /\ pc \in {"select", "check", "read", "kill", "wait", "returned"}
    /\ ready \in BOOLEAN
    /\ status \in Codes \cup {"none", "end", "timeout", "canceled", "error"}
    /\ now \in 0..Horizon /\ nextCallback \in 0..(Horizon + Interval)

\* A callback without a timeout gets the default one.
Init ==
    /\ \E l \in Limits, t \in Timeouts, c \in BOOLEAN :
        args = [limit |-> l, callback |-> c,
                timeout |-> IF c /\ t = 0 THEN DefaultTimeout ELSE t]
    /\ child = "running" /\ code = "none"
    /\ writers = {"shell"} /\ written = 0
    /\ text = <<>> /\ got = 0
    /\ pc = "select" /\ ready = FALSE /\ status = "none"
    /\ now = 0 /\ nextCallback = 0

-----------------------------------------------------------------------------
(***************************************************************************)
(* The command.                                                            *)
(***************************************************************************)
caller == <<args, text, got, pc, ready, status, now, nextCallback>>

Write ==
    /\ writers # {} /\ written < MaxOutput /\ written - got < PipeCapacity
    /\ written' = written + 1
    /\ UNCHANGED <<child, code, writers, caller>>

\* A process in the background inherits the pipe.
Background ==
    /\ "shell" \in writers
    /\ writers' = writers \cup {"other"}
    /\ UNCHANGED <<child, code, written, caller>>

BackgroundEnds ==
    /\ "other" \in writers
    /\ writers' = writers \ {"other"}
    /\ UNCHANGED <<child, code, written, caller>>

Exit ==
    /\ child = "running"
    /\ child' = "ended"
    /\ code' \in Codes
    /\ writers' = writers \ {"shell"}
    /\ UNCHANGED <<written, caller>>

Command == Write \/ Background \/ BackgroundEnds \/ Exit

-----------------------------------------------------------------------------
(***************************************************************************)
(* The caller.                                                             *)
(***************************************************************************)
Unread == written - got

\* There is something to read, or the end; or nothing happened for 100 ms.
Select ==
    /\ pc = "select"
    /\ ready' = (Unread > 0 \/ writers = {})
    /\ pc' = "check"
    /\ UNCHANGED <<args, command, text, got, status, now, nextCallback>>

Stop(s) ==
    /\ status' = s
    /\ pc' = "kill"

Late == args.timeout > 0 /\ now >= args.timeout

\* Mutant: nothing to read for 100 ms is taken for the end.
CheckIdleIsEnd ==
    /\ pc = "check"
    /\ \/ Late /\ Stop("timeout")
       \/ ~Late /\ ready /\ pc' = "read" /\ UNCHANGED status
       \/ ~Late /\ ~ready /\ Stop("end")
    /\ UNCHANGED <<args, command, text, got, ready, now, nextCallback>>

\* The deadline first, then the callback, which may cancel, then the data.
Check ==
    /\ pc = "check"
    /\ LET due == args.callback /\ now >= nextCallback
       IN  \/ /\ Late
              /\ Stop("timeout")
              /\ UNCHANGED nextCallback
           \/ /\ ~Late /\ due
              /\ Stop("canceled")
              /\ UNCHANGED nextCallback
           \/ /\ ~Late
              /\ nextCallback' = IF due THEN now + Interval ELSE nextCallback
              /\ pc' = IF ready THEN "read" ELSE "select"
              /\ UNCHANGED status
    /\ UNCHANGED <<args, command, text, got, ready, now>>

\* select, the clock or read fails.
Error ==
    /\ pc \in {"select", "check", "read"}
    /\ Stop("error")
    /\ UNCHANGED <<args, command, text, got, ready, now, nextCallback>>

\* How many of n bytes fit in the result.
Kept(n) ==
    IF args.limit = 0 \/ Len(text) + n <= args.limit - 1 THEN n
    ELSE args.limit - 1 - Len(text)

\* Mutant: what does not fit is not read.
ReadUpToLimit ==
    /\ pc = "read" /\ Unread > 0
    /\ Kept(1) = 1
    /\ text' = Append(text, got + 1)
    /\ got' = got + 1
    /\ pc' = "select"
    /\ UNCHANGED <<args, command, ready, status, now, nextCallback>>

(***************************************************************************)
(* What does not fit is read all the same, so that the command can go on.  *)
(* When there is no memory the result is freed.                            *)
(***************************************************************************)
Read ==
    /\ pc = "read" /\ Unread > 0
    /\ \E n \in 1..BufferSize :
        /\ n <= Unread
        /\ got' = got + n
        /\ \/ /\ text' = text \o [i \in 1..Kept(n) |-> got + i]
              /\ pc' = "select"
              /\ UNCHANGED status
           \/ /\ text' = <<>>
              /\ Stop("error")
    /\ UNCHANGED <<args, command, ready, now, nextCallback>>

ReadEnd ==
    /\ pc = "read" /\ Unread = 0 /\ writers = {}
    /\ Stop("end")
    /\ UNCHANGED <<args, command, text, got, ready, now, nextCallback>>

\* SIGKILL ends the shell unless it has ended; those it started live on.
Kill ==
    /\ pc = "kill"
    /\ child' = "ended"
    /\ code' = IF child = "running" THEN "signal" ELSE code
    /\ writers' = writers \ {"shell"}
    /\ pc' = "wait"
    /\ UNCHANGED <<args, written, text, got, ready, status, now, nextCallback>>

\* Mutant: WEXITSTATUS is taken from a child that was killed.
WaitUnchecked ==
    /\ pc = "wait" /\ child = "ended"
    /\ child' = "reaped"
    /\ status' = IF status # "end" THEN status
                 ELSE IF code = "failure" THEN "failure" ELSE "success"
    /\ pc' = "returned"
    /\ UNCHANGED <<args, code, writers, written, text, got, ready, now, nextCallback>>

\* After the end of the output the result is that of the child.
Wait ==
    /\ pc = "wait" /\ child = "ended"
    /\ child' = "reaped"
    /\ status' = IF status = "end" THEN code ELSE status
    /\ pc' = "returned"
    /\ UNCHANGED <<args, code, writers, written, text, got, ready, now, nextCallback>>

RunsOn == Select \/ Check \/ Read \/ ReadEnd \/ Kill \/ Wait

ExecuteCommand == RunsOn \/ Error

Tick ==
    /\ now < Horizon /\ pc # "returned"
    /\ now' = now + 1
    /\ UNCHANGED <<args, command, text, got, pc, ready, status, nextCallback>>

Next == Command \/ ExecuteCommand \/ Tick

Spec ==
    /\ Init /\ [][Next]_vars
    /\ WF_vars(RunsOn) /\ WF_vars(Tick)

-----------------------------------------------------------------------------
(***************************************************************************)
(* Success is the command's own, and all of its output was read: however   *)
(* the end of the output, the end of the child and the kill interleave, a  *)
(* caller that parses the text does not get a part of it (CommandUtils.c:  *)
(* 220-225 and 282-296).                                                   *)
(***************************************************************************)
Expected == IF args.limit = 0 \/ written < args.limit THEN written ELSE args.limit - 1

SuccessMeansComplete ==
    pc = "returned" /\ status = "success" =>
        /\ code = "success" /\ got = written /\ writers = {}
        /\ text = [i \in 1..Expected |-> i]

(***************************************************************************)
(* A command is not killed unless it is late, cancelled or cannot be read: *)
(* the kill that follows the end of the output (CommandUtils.c:282) always *)
(* comes too late to change its result.                                    *)
(***************************************************************************)
OwnStatus == [][pc = "kill" /\ status = "end" => child' = child]_vars

(***************************************************************************)
(* The call returns: at the deadline if it has one, whatever the command   *)
(* does, and in any case if the command and what it started end once they  *)
(* have written everything, since the pipe is emptied also when the result *)
(* is full (CommandUtils.c:243-247).                                       *)
(***************************************************************************)
CommandEnds ==
    /\ WF_vars(Write)
    /\ WF_vars(written = MaxOutput /\ Exit)
    /\ WF_vars(written = MaxOutput /\ BackgroundEnds)

Returns ==
    /\ args.timeout > 0 => <>(pc = "returned")
    /\ CommandEnds => <>(pc = "returned")
=============================================================================
