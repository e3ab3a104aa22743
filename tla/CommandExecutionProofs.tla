---------------------- MODULE CommandExecutionProofs ------------------------
(***************************************************************************)
(* Proofs that ExecuteCommand reports success only with the whole output,  *)
(* and never kills a command for its own result, for any command, limit,   *)
(* timeout, buffer and pipe.                                               *)
(***************************************************************************)
EXTENDS CommandExecution, TLAPS

-----------------------------------------------------------------------------
(***************************************************************************)
(* The inductive invariant.                                                *)
(***************************************************************************)

\* How much of the first n bytes is in the result.
Fits(n) == IF args.limit = 0 \/ n < args.limit THEN n ELSE args.limit - 1

\* Until there is no memory for it, the result is what fits of what was read.
TextIsPrefix == status # "error" => text = [k \in 1 .. Fits(got) |-> k]

\* The shell has the pipe as long as it runs, and is reaped at the end.
Shell ==
    /\ child = "running" <=> "shell" \in writers
    /\ child = "running" <=> code = "none"
    /\ child = "reaped" <=> pc = "returned"
    /\ pc = "wait" => child = "ended"

Reading == {"select", "check", "read"}

\* The status is set once, and after the end of the output nothing can be written.
Outcome ==
    /\ pc \in Reading <=> status = "none"
    /\ pc \in {"kill", "wait"} => status \notin Codes
    /\ pc = "returned" /\ status \in Codes => code = status
    /\ status = "end" => pc \in {"kill", "wait"}
    /\ status \in Codes \cup {"end"} => writers = {} /\ got = written

Inv == TypeOK /\ TextIsPrefix /\ Shell /\ Outcome

-----------------------------------------------------------------------------
\* The bounds are numbers.
LEMMA Bounds ==
    ASSUME TypeOK
    PROVE  /\ MaxOutput \in Nat /\ Horizon \in Nat /\ Interval \in Nat /\ BufferSize \in Nat \ {0}
           /\ PipeCapacity \in Nat \ {0}
           /\ args.limit \in Nat /\ args.limit \in Limits /\ args.timeout \in Nat
           /\ written \in Nat /\ got \in Nat /\ got <= written /\ written <= MaxOutput
<1>1. /\ MaxOutput \in Nat /\ DefaultTimeout \in Nat /\ Horizon \in Nat /\ Interval \in Nat
      /\ BufferSize \in Nat \ {0} /\ PipeCapacity \in Nat \ {0}
  BY CommandAssumption
<1>2. /\ args.limit \in Limits /\ args.timeout \in Timeouts \cup {DefaultTimeout}
  BY DEF TypeOK
<1>3. args.limit \in Nat /\ args.timeout \in Nat
  BY <1>1, <1>2, CommandAssumption
<1>4. written \in 0 .. MaxOutput /\ got \in 0 .. written
  BY DEF TypeOK
<1> QED
  BY <1>1, <1>2, <1>3, <1>4

\* When a command begins nothing is written, and the text is empty.
LEMMA InitInv == Init => Inv
<1> SUFFICES ASSUME Init PROVE Inv
  OBVIOUS
<1>1. PICK l \in Limits, t \in Timeouts, c \in BOOLEAN :
        args = [limit |-> l, callback |-> c, timeout |-> IF c /\ t = 0 THEN DefaultTimeout ELSE t]
  BY DEF Init
<1>2. /\ child = "running" /\ code = "none" /\ writers = {"shell"} /\ written = 0
      /\ text = << >> /\ got = 0 /\ pc = "select" /\ ready = FALSE /\ status = "none"
      /\ now = 0 /\ nextCallback = 0
  BY DEF Init
<1>3. args \in [limit : Limits, timeout : Timeouts \cup {DefaultTimeout}, callback : BOOLEAN]
  BY <1>1
<1>4. args.limit \in Nat /\ MaxOutput \in Nat /\ Horizon \in Nat /\ Interval \in Nat
      /\ PipeCapacity \in Nat
  BY <1>1, CommandAssumption
<1>5. text \in Seq(1 .. MaxOutput) /\ Len(text) = 0
  BY <1>2
<1>6. TypeOK
  <2>1. /\ child \in {"running", "ended", "reaped"} /\ code \in Codes \cup {"none"}
        /\ pc \in {"select", "check", "read", "kill", "wait", "returned"} /\ ready \in BOOLEAN
        /\ status \in Codes \cup {"none", "end", "timeout", "canceled", "error"}
        /\ writers \subseteq {"shell", "other"}
    BY <1>2
  <2>2. /\ written \in 0 .. MaxOutput /\ got \in 0 .. written /\ written - got <= PipeCapacity
        /\ now \in 0 .. Horizon /\ nextCallback \in 0 .. (Horizon + Interval)
    BY <1>2, <1>4
  <2>3. args.limit > 0 => Len(text) < args.limit
    BY <1>4, <1>5
  <2> QED
    BY <1>3, <1>5, <2>1, <2>2, <2>3 DEF TypeOK
<1>7. TextIsPrefix
  <2>1. Fits(got) = 0
    BY <1>2, <1>4 DEF Fits
  <2> QED
    BY <1>2, <2>1 DEF TextIsPrefix
<1>8. Shell /\ Outcome
  BY <1>2 DEF Shell, Outcome, Reading, Codes
<1> QED
  BY <1>6, <1>7, <1>8 DEF Inv

\* Whatever the command does, the caller's variables stay.
LEMMA CommandInv == ASSUME Inv, Command PROVE Inv'
<1>1. UNCHANGED <<args, text, got, pc, ready, status, now, nextCallback>>
  BY DEF Command, Write, Background, BackgroundEnds, Exit, caller
<1>2. TextIsPrefix'
  BY <1>1 DEF Inv, TextIsPrefix, Fits
<1>3. CASE Write
  <2>1. /\ writers # {} /\ written < MaxOutput /\ written - got < PipeCapacity
        /\ written' = written + 1 /\ UNCHANGED <<child, code, writers>>
    BY <1>3 DEF Write
  <2>2. written' \in 0 .. MaxOutput /\ got' \in 0 .. written' /\ written' - got' <= PipeCapacity
    BY <1>1, <2>1, Bounds DEF Inv
  <2>3. TypeOK'
    BY <1>1, <2>1, <2>2 DEF Inv, TypeOK
  <2> QED
    BY <1>1, <1>2, <2>1, <2>3 DEF Inv, Shell, Outcome
<1>4. CASE Background \/ BackgroundEnds
  <2>1. /\ UNCHANGED <<child, code, written>> /\ writers # {}
        /\ writers' \subseteq {"shell", "other"}
        /\ "shell" \in writers' <=> "shell" \in writers
    BY <1>4 DEF Background, BackgroundEnds, Inv, TypeOK
  <2>2. TypeOK'
    BY <1>1, <2>1 DEF Inv, TypeOK
  <2> QED
    BY <1>1, <1>2, <2>1, <2>2 DEF Inv, Shell, Outcome
<1>5. CASE Exit
  <2>1. /\ child = "running" /\ child' = "ended" /\ code' \in Codes
        /\ writers' = writers \ {"shell"} /\ written' = written
    BY <1>5 DEF Exit
  <2>2. TypeOK'
    BY <1>1, <2>1 DEF Inv, TypeOK
  <2>3. pc # "returned" /\ pc # "wait" /\ writers # {}
    BY <2>1 DEF Inv, Shell
  <2> QED
    BY <1>1, <1>2, <2>1, <2>2, <2>3 DEF Inv, Shell, Outcome, Codes
<1> QED
  BY <1>3, <1>4, <1>5 DEF Command

\* select, the checks between two reads, and their failures change no data.
LEMMA CheckInv ==
    ASSUME Inv, Select \/ Check \/ Error \/ ReadEnd
    PROVE  Inv'
<1>1. /\ UNCHANGED <<args, child, code, writers, written, text, got, now>>
      /\ ready' \in BOOLEAN /\ pc \in Reading
      /\ nextCallback' \in {nextCallback, now + Interval}
      /\ \/ pc' \in Reading /\ status' = status
         \/ pc' = "kill" /\ status' \in {"timeout", "canceled", "error"}
         \/ pc' = "kill" /\ status' = "end" /\ writers = {} /\ Unread = 0
  BY DEF Inv, TypeOK, Select, Check, Error, ReadEnd, Stop, command, Reading
<1>2. status = "none" /\ child # "reaped"
  BY <1>1 DEF Inv, Outcome, Shell, Reading
<1>3. now + Interval \in 0 .. Horizon + Interval
  BY Bounds DEF Inv, TypeOK
<1>4. TypeOK'
  BY <1>1, <1>2, <1>3 DEF Inv, TypeOK, Reading
<1>5. TextIsPrefix'
  BY <1>1, <1>2 DEF Inv, TextIsPrefix, Fits
<1>6. Shell'
  BY <1>1, <1>2 DEF Inv, Shell, Reading
<1>7. Unread = 0 => got = written
  BY Bounds DEF Inv, Unread
<1>8. Outcome'
  BY <1>1, <1>2, <1>7 DEF Outcome, Reading, Codes
<1> QED
  BY <1>4, <1>5, <1>6, <1>8 DEF Inv

\* What is read is appended as far as it fits.
LEMMA ReadInv == ASSUME Inv, Read PROVE Inv'
<1>1. PICK n \in 1 .. BufferSize :
        /\ n <= Unread /\ got' = got + n
        /\ \/ /\ text' = text \o [i \in 1 .. Kept(n) |-> got + i]
              /\ pc' = "select" /\ status' = status
           \/ text' = << >> /\ status' = "error" /\ pc' = "kill"
  BY DEF Read, Stop
<1>2. /\ pc = "read" /\ UNCHANGED <<args, child, code, writers, written, ready, now, nextCallback>>
  BY DEF Read, command
<1>3. /\ status = "none" /\ child # "reaped" /\ text = [k \in 1 .. Fits(got) |-> k]
      /\ n \in Nat \ {0}
  BY <1>2, Bounds DEF Inv, Outcome, Shell, Reading, TextIsPrefix
<1>4. /\ got' \in 0 .. written' /\ written' \in 0 .. MaxOutput /\ written' - got' <= PipeCapacity
      /\ got' \in Nat /\ got' <= MaxOutput
  <2>1. /\ n <= written - got /\ written' = written /\ got' = got + n
        /\ written - got <= PipeCapacity
    BY <1>1, <1>2 DEF Unread, Inv, TypeOK
  <2>2. written \in Nat /\ got \in Nat /\ written <= MaxOutput /\ MaxOutput \in Nat
        /\ PipeCapacity \in Nat
    BY Bounds DEF Inv
  <2> QED
    BY <1>3, <2>1, <2>2
<1>5. Shell' /\ Outcome'
  BY <1>1, <1>2, <1>3 DEF Inv, Shell, Outcome, Reading, Codes
<1>6. CASE text' = << >> /\ status' = "error" /\ pc' = "kill"
  <2>1. text' \in Seq(1 .. MaxOutput) /\ Len(text') = 0
    BY <1>6
  <2>2. args.limit > 0 => Len(text') < args.limit
    BY <2>1, Bounds DEF Inv
  <2>3. TypeOK'
    BY <1>2, <1>4, <1>6, <2>1, <2>2 DEF Inv, TypeOK
  <2> QED
    BY <1>5, <1>6, <2>3 DEF Inv, TextIsPrefix
<1>7. CASE text' = text \o [i \in 1 .. Kept(n) |-> got + i] /\ pc' = "select" /\ status' = status
  <2>1. Fits(got) \in Nat /\ Fits(got) <= got /\ (args.limit > 0 => Fits(got) < args.limit)
    BY Bounds DEF Inv, Fits
  <2>2. Len(text) = Fits(got) /\ text \in Seq(Nat)
    BY <1>3, <2>1
  <2>3. PICK L \in Nat, g \in Nat, m \in Nat : L = args.limit /\ g = got /\ m = Fits(got)
    BY <2>1, Bounds DEF Inv
  <2>4. m = IF L = 0 \/ g < L THEN g ELSE L - 1
    BY <2>3 DEF Fits
  <2>5. Kept(n) = IF L = 0 \/ m + n <= L - 1 THEN n ELSE L - 1 - m
    BY <2>2, <2>3 DEF Kept
  <2>6. PICK k \in Nat : k = Kept(n) /\ (k > 0 => m = g)
    <3>1. PICK x : x = IF L = 0 \/ m + n <= L - 1 THEN n ELSE L - 1 - m
      OBVIOUS
    <3>2. x \in Nat /\ (x > 0 => m = g)
      BY <1>3, <2>3, <2>4, <3>1
    <3> QED
      BY <2>5, <3>1, <3>2
  <2>7. Fits(got + n) = m + k
    <3>1. Fits(got + n) = IF L = 0 \/ g + n < L THEN g + n ELSE L - 1
      BY <2>3 DEF Fits
    <3> QED
      BY <1>3, <2>4, <2>5, <2>6, <3>1
  <2>8. PICK f : f = [i \in 1 .. k |-> got + i]
    OBVIOUS
  <2>9. f \in Seq(Nat) /\ Len(f) = k
    <3>1. \A i \in 1 .. k : got + i \in Nat
      BY Bounds DEF Inv
    <3> QED
      BY <2>8, <3>1
  <2>10. text' = [i \in 1 .. m + k |-> i]
    <3>1. text' = text \o f
      BY <1>7, <2>6, <2>8
    <3>2. text' \in Seq(Nat) /\ Len(text') = m + k
      <4>1. text \o f \in Seq(Nat) /\ Len(text \o f) = Len(text) + Len(f)
        BY <2>2, <2>9
      <4> QED
        BY <2>2, <2>3, <2>9, <3>1, <4>1
    <3>3. ASSUME NEW i \in 1 .. m + k PROVE text'[i] = i
      <4>1. CASE i <= m
        <5>1. text'[i] = text[i]
          BY <2>2, <2>3, <2>9, <3>1, <4>1
        <5> QED
          BY <1>3, <2>3, <4>1, <5>1
      <4>2. CASE i > m
        <5>1. k > 0 /\ m = got
          BY <2>3, <2>6, <4>2
        <5>2. text'[i] = f[i - m]
          <6>1. i \in Nat /\ i <= Len(text) + Len(f) /\ i > Len(text) /\ Len(text) = m
            BY <2>2, <2>3, <2>9, <4>2
          <6>2. text \in Seq(Nat) /\ f \in Seq(Nat)
            BY <2>2, <2>9
          <6> QED
            BY <3>1, <6>1, <6>2
        <5>3. f[i - m] = got + (i - m)
          BY <2>8, <4>2
        <5> QED
          BY <2>3, <4>2, <5>1, <5>2, <5>3
      <4> QED
        BY <4>1, <4>2
    <3> QED
      BY <3>2, <3>3
  <2>11. m + k <= got' /\ (args.limit > 0 => m + k < args.limit)
    <3>1. Fits(got + n) <= got + n /\ (args.limit > 0 => Fits(got + n) < args.limit)
      BY <1>3, Bounds DEF Inv, Fits
    <3> QED
      BY <1>1, <2>7, <3>1
  <2>12. text' \in Seq(1 .. MaxOutput) /\ Len(text') = m + k
    <3>1. \A i \in 1 .. m + k : i \in 1 .. MaxOutput
      BY <1>4, <2>11, Bounds DEF Inv
    <3> QED
      BY <2>10, <3>1
  <2>13. TypeOK'
    BY <1>2, <1>3, <1>4, <1>7, <2>11, <2>12 DEF Inv, TypeOK
  <2>14. TextIsPrefix'
    <3>1. Fits(got)' = m + k
      BY <1>1, <1>2, <2>7 DEF Fits
    <3> QED
      BY <2>10, <3>1 DEF TextIsPrefix
  <2> QED
    BY <1>5, <2>13, <2>14 DEF Inv
<1> QED
  BY <1>1, <1>6, <1>7

\* The child is killed and waited for.
LEMMA EndInv == ASSUME Inv, Kill \/ Wait PROVE Inv'
<1>1. /\ UNCHANGED <<args, written, text, got, ready, now, nextCallback>>
  BY DEF Kill, Wait
<1>2. CASE Kill
  <2>1. /\ pc = "kill" /\ pc' = "wait" /\ child' = "ended" /\ status' = status
        /\ code' = IF child = "running" THEN "signal" ELSE code
        /\ writers' = writers \ {"shell"}
    BY <1>2 DEF Kill
  <2>2. TypeOK'
    BY <1>1, <2>1 DEF Inv, TypeOK, Codes
  <2>3. TextIsPrefix'
    BY <1>1, <2>1 DEF Inv, TextIsPrefix, Fits
  <2>4. Shell' /\ Outcome'
    BY <1>1, <2>1 DEF Inv, Shell, Outcome, Reading, Codes
  <2> QED
    BY <2>2, <2>3, <2>4 DEF Inv
<1>3. CASE Wait
  <2>1. /\ pc = "wait" /\ child = "ended" /\ child' = "reaped" /\ pc' = "returned"
        /\ status' = IF status = "end" THEN code ELSE status
        /\ code' = code /\ writers' = writers
    BY <1>3 DEF Wait
  <2>2. code \in Codes /\ status \notin Codes \cup {"none"}
    BY <2>1 DEF Inv, TypeOK, Shell, Outcome, Reading
  <2>3. TypeOK'
    BY <1>1, <2>1, <2>2 DEF Inv, TypeOK
  <2>4. TextIsPrefix'
    BY <1>1, <2>1 DEF Inv, TextIsPrefix, Fits
  <2>5. Shell' /\ Outcome'
    BY <1>1, <2>1, <2>2 DEF Inv, Shell, Outcome, Reading, Codes
  <2> QED
    BY <2>3, <2>4, <2>5 DEF Inv
<1> QED
  BY <1>2, <1>3

\* Time goes by, or nothing happens.
LEMMA TickInv == ASSUME Inv, Tick \/ UNCHANGED vars PROVE Inv'
<1>1. /\ UNCHANGED <<args, child, code, writers, written, text, got, pc, ready, status>>
      /\ nextCallback' = nextCallback /\ now' \in 0 .. Horizon
  BY Bounds DEF Inv, TypeOK, Tick, vars, command
<1>2. TypeOK'
  BY <1>1 DEF Inv, TypeOK
<1> QED
  BY <1>1, <1>2 DEF Inv, TextIsPrefix, Fits, Shell, Outcome

-----------------------------------------------------------------------------
\* The invariant holds for any command and caller.
THEOREM Invariance == Spec => []Inv
<1>1. Init => Inv
  BY InitInv
<1>2. Inv /\ [Next]_vars => Inv'
  BY CommandInv, CheckInv, ReadInv, EndInv, TickInv DEF Next, ExecuteCommand, RunsOn
<1> QED
  BY <1>1, <1>2, PTL DEF Spec

\* The result always has room for its terminating zero, and no more is read than was
\* written (CommandUtils.c:243-277).
THEOREM TypeCorrect == Spec => []TypeOK
<1>1. Inv => TypeOK
  BY DEF Inv
<1> QED
  BY <1>1, Invariance, PTL

\* A caller that is told of success has the whole output, as far as it asked for it.
THEOREM SuccessMeansCompleteCorrect == Spec => []SuccessMeansComplete
<1>1. Inv => SuccessMeansComplete
  <2> SUFFICES ASSUME Inv, pc = "returned", status = "success"
               PROVE  /\ code = "success" /\ got = written /\ writers = {}
                      /\ text = [i \in 1 .. Expected |-> i]
    BY DEF SuccessMeansComplete
  <2>1. code = "success" /\ got = written /\ writers = {}
    BY DEF Inv, Outcome, Codes
  <2>2. text = [k \in 1 .. Fits(got) |-> k] /\ Fits(got) = Expected
    BY <2>1 DEF Inv, TextIsPrefix, Fits, Expected
  <2> QED
    BY <2>1, <2>2
<1> QED
  BY <1>1, Invariance, PTL

\* A command that has closed its output is not killed: it has ended before.
THEOREM OwnStatusCorrect == Spec => OwnStatus
<1>1. Inv /\ [Next]_vars => [pc = "kill" /\ status = "end" => child' = child]_vars
  <2> SUFFICES ASSUME Inv, Next, pc = "kill", status = "end" PROVE child' = child
    OBVIOUS
  <2>1. writers = {} /\ child = "ended"
    BY DEF Inv, TypeOK, Outcome, Shell
  <2> QED
    BY <2>1 DEF Next, ExecuteCommand, RunsOn, Command, Write, Background, BackgroundEnds,
        Exit, Select, Check, Error, Read, ReadEnd, Kill, Wait, Tick, Stop, command, caller
<1> QED
  BY <1>1, Invariance, PTL DEF Spec, OwnStatus
=============================================================================
