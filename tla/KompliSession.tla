--------------------------- MODULE KompliSession ----------------------------
(***************************************************************************)
(* The two commands together: `kompli plan` writes a plan file, perhaps    *)
(* over an older one or a hand-written one, and `kompli run` parses and    *)
(* executes it.  The commands are separate processes: run may read while   *)
(* plan writes, after plan was killed, or after the host went down, and    *)
(* the definitions may change at any time.                                 *)
(***************************************************************************)
EXTENDS PlanCommand, KompliRun

VARIABLES
    input_,         \* what ParsePlanFile has read
    fromCommand,    \* history: run read the command's file, and not the one before it
    overlapped      \* history: it changed while run read it

sessionVars == <<input_, fromCommand, overlapped>>
allVars == <<commandVars, vars, sessionVars>>

NoPlan == << >>

InitSession ==
    /\ InitCommand
    /\ plan = NoPlan /\ pc = "idle" /\ InitRun
    /\ input_ = << >> /\ fromCommand = FALSE /\ overlapped = FALSE

-----------------------------------------------------------------------------
\* A change of the file under a reader is remembered.
Disturb ==
    /\ overlapped' = (overlapped \/ (pc = "read" /\ file' # file))
    /\ UNCHANGED <<vars, input_, fromCommand>>

\* Once run has read the file, the plan command no longer matters.
PlanCommandStep ==
    /\ pc \in {"idle", "read"}
    /\ NextCommand
    /\ Disturb

\* (A run that was under way has no plan yet, and is forgotten.)
HostGoesDown ==
    /\ pc = "idle"
    /\ \/ \E n \in 0 .. Len(file) : \E lost \in SUBSET (1 .. n) : PowerFails(n, lost)
       \/ TruncationUndone
    /\ Disturb

(***************************************************************************)
(* ParsePlanFile: the verified descriptor is read to the end of the file.  *)
(* A run that begins before plan has opened the file is one that begins    *)
(* before plan.                                                            *)
(***************************************************************************)
OpenVerified ==
    /\ pc = "idle"
    /\ step \in {"truncate", "write", "done"}
    /\ pc' = "read"
    /\ fromCommand' = replaced
    /\ UNCHANGED <<commandVars, input, documents, runVars, exit, overall, input_, overlapped>>

ReadCell ==
    /\ pc = "read"
    /\ Len(input_) < Len(file)
    /\ input_' = Append(input_, file[Len(input_) + 1])
    /\ UNCHANGED <<commandVars, vars, fromCommand, overlapped>>

\* One whole document of well-formed blocks, at least one, and nothing after it: no
\* NUL byte, no end before the end.
Parses(text) ==
    /\ Len(text) > 1
    /\ text[Len(text)] = End
    /\ \A c \in 1 .. Len(text) - 1 : text[c] \in PlanBenchmark

Blocks(text) == SubSeq(text, 1, Len(text) - 1)

ParsePlanFile ==
    /\ pc = "read"
    /\ Len(input_) >= Len(file)
    /\ IF Parses(input_)
       THEN plan' = Blocks(input_) /\ pc' = "files" /\ UNCHANGED <<exit, overall>>
       ELSE Refuse /\ UNCHANGED plan
    /\ input_' = << >>
    /\ UNCHANGED <<commandVars, continueOnError, documents, runVars, fromCommand, overlapped>>

\* The plan file is refused, or cannot be read.
FailToRead ==
    /\ pc \in {"idle", "read"}
    /\ Refuse
    /\ input_' = << >>
    /\ UNCHANGED <<commandVars, input, documents, runVars, fromCommand, overlapped>>

RunStep == plan # NoPlan /\ Next /\ UNCHANGED <<commandVars, sessionVars>>

NextSession ==
    \/ PlanCommandStep \/ HostGoesDown
    \/ OpenVerified \/ ReadCell \/ ParsePlanFile \/ FailToRead
    \/ RunStep

SpecSession == InitSession /\ [][NextSession]_allVars

-----------------------------------------------------------------------------
Undisturbed == plan # NoPlan /\ ~overlapped

(***************************************************************************)
(* A run never acts on part of a plan, on two plans at once or on the tail *)
(* of an older one: what it parses is all of the plan the command          *)
(* generated or, before the file is truncated and after a power failure    *)
(* that undid the truncation, all of the plan that was there, though the   *)
(* file is written in place, in several writes and without synchronising,  *)
(* and the writer or the host may die at any point (Plan.cpp:575-611,      *)
(* 857-884).  It holds unless the file is written while it is read:        *)
(* nothing locks it.                                                       *)
(***************************************************************************)
RunsAWholePlan ==
    Undisturbed => plan = IF fromCommand THEN GeneratedPlan ELSE session.old

(***************************************************************************)
(* What is remediated is what the user asked for, across both commands and *)
(* whatever happened to the definitions in between: the last flag that     *)
(* names the rule says remediate, and every parameter has the value of the *)
(* command line or the default it had when the plan was made ("Seed every  *)
(* rule at audit (never a mutating default)", Plan.cpp:436-439).  It is    *)
(* about runs of the command's plan.  The command does not synchronise it: *)
(* after a power failure the older plan may be back, though the command    *)
(* reported success, and a run then changes what that one says             *)
(* (RunsAWholePlan, EvaluatesThePlan).                                     *)
(***************************************************************************)
ChangesOnlyWhatWasAsked ==
    Undisturbed /\ fromCommand =>
        \A n \in DOMAIN evaluations :
            LET e == evaluations[n]
            IN  /\ e.id \in RuleIds(e.block)
                /\ e.remediates <=> PromisedMode(e.block, e.id) = "remediate"
                /\ \A k \in DOMAIN Metadata(e.block, e.id) :
                    e.parameters[k] = PromisedValue(e.block, e.id, k)

(***************************************************************************)
(* "plan validates eagerly, run re-validates" (docs/cli.md:180, 291): a    *)
(* plan that kompli generated is refused by run only for what has changed  *)
(* since.  Over the definitions it was made from, it is valid on a host    *)
(* they apply to.  Of an older plan that a power failure brought back      *)
(* nothing is said: it may be one that was never valid.                    *)
(***************************************************************************)
AcceptedIfUnchanged ==
    Undisturbed /\ fromCommand /\ pc = "validate" =>
        (documents = parsedFiles /\ (\A n \in DOMAIN documents : documents[n].applicable)
            => ValidPlan)
=============================================================================
