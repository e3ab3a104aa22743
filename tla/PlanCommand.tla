---------------------------- MODULE PlanCommand -----------------------------
(***************************************************************************)
(* `kompli plan` (GeneratePlan and WritePlanFile of kompli/Plan.cpp): the  *)
(* definitions named on the command line are read once, every rule is      *)
(* seeded at audit with the defaults of its parameters, the toggles and    *)
(* the overrides of the command line are applied, and the plan is written  *)
(* over the output file: truncated first, in as many writes as it takes,   *)
(* and not synchronised.                                                   *)
(***************************************************************************)
EXTENDS Plan

CONSTANTS
    Sessions,       \* the plan file there was (<< >>: none) and the command that is run
    Basename,       \* the last component of a file name
    Spelling,       \* how "id.parameter" reads: several may read the same
    None,           \* no qualifier in a reference, no command
    End, Nul        \* cells of a file: see PlanText

Toggle == [base : {None} \cup {Basename[f] : f \in Files}, id : Ids, mode : Modes]

ParamOverride ==
    [base : {None} \cup {Basename[f] : f \in Files},
     selector : {Spelling[p] : p \in Ids \X Keys}, value : Values]

IsCommand(c) ==
    /\ DOMAIN c = {"files", "toggles", "overrides"}
    /\ c.files \in Seq(Files) /\ c.files # << >>
    /\ c.toggles \in Seq(Toggle)
    /\ c.overrides \in Seq(ParamOverride)

ASSUME CommandAssumption ==
    /\ \A s \in Sessions : s.old \in Seq(PlanBenchmark) /\ (s.command = None \/ IsCommand(s.command))
    /\ \A f \in Files : Basename[f] # None
    /\ {End, Nul} \cap PlanBenchmark = {} /\ End # Nul

VARIABLES
    session,        \* the member of Sessions: what was there, and the command line
    step,           \* of the command; "done" when there is none
    parsedFiles,    \* the definitions it has read
    content,        \* the text it writes
    written,        \* how much of it is
    file,           \* the plan file: a sequence of cells
    replaced        \* history: the command has truncated it, and no power failure undid that

commandVars == <<session, step, parsedFiles, content, written, file, replaced>>

command == session.command

(***************************************************************************)
(* The text of a plan: its blocks, and what closes the document.  Any      *)
(* proper prefix of it is not a document, and neither is anything after    *)
(* the end.  A cell that was lost reads as NUL bytes.                      *)
(***************************************************************************)
PlanText(p) == p \o <<End>>

OldText == IF session.old = << >> THEN << >> ELSE PlanText(session.old)

InitCommand ==
    /\ session \in Sessions
    /\ step = IF session.command = None THEN "done" ELSE "files"
    /\ parsedFiles = << >> /\ content = << >> /\ written = 0
    /\ file = OldText
    /\ replaced = FALSE

\* The command returns 1, or is killed.  (What it read stays for the properties, once
\* it has touched the file.)
Stop ==
    /\ step' = "done" /\ content' = << >> /\ written' = 0
    /\ parsedFiles' = IF replaced THEN parsedFiles ELSE << >>
    /\ UNCHANGED <<session, file, replaced>>

-----------------------------------------------------------------------------
CheckInputs ==
    /\ step = "files"
    /\ IF UniqueFiles(command.files)
       THEN step' = "parse" /\ UNCHANGED <<session, parsedFiles, content, written, file, replaced>>
       ELSE Stop

\* BenchmarkDefinition::ParseFile of the next file: it holds any definition.
ParseDefinition(d) ==
    /\ step = "parse"
    /\ parsedFiles' = Append(parsedFiles, d)
    /\ step' = IF Len(parsedFiles') = Len(command.files) THEN "generate" ELSE "parse"
    /\ UNCHANGED <<session, content, written, file, replaced>>

-----------------------------------------------------------------------------
RuleIds(n) == {parsedFiles[n].resources[m].id : m \in DOMAIN parsedFiles[n].resources}

Metadata(n, id) ==
    LET resources == parsedFiles[n].resources
    IN  resources[CHOOSE m \in DOMAIN resources : resources[m].id = id].metadata

\* The files a qualifier names: there is none exactly when there is one file.
Named(base) ==
    {n \in DOMAIN command.files :
        base = IF Len(command.files) = 1 THEN None ELSE Basename[command.files[n]]}

\* ResolveRuleRef: one file, and a rule of it.
Resolved(toggle) == \E n \in DOMAIN command.files :
    Named(toggle.base) = {n} /\ toggle.id \in RuleIds(n)

\* ResolveParameterOverride: what the whole selector may mean.
Meanings(override) ==
    {x \in (DOMAIN command.files) \X Ids \X Keys :
        /\ x[1] \in Named(override.base)
        /\ x[2] \in RuleIds(x[1]) /\ x[3] \in DOMAIN Metadata(x[1], x[2])
        /\ Spelling[<<x[2], x[3]>>] = override.selector}

Unambiguous(override) == \E x \in Meanings(override) : Meanings(override) = {x}

\* Never a mutating default.
Seeded ==
    [n \in DOMAIN command.files |->
        [id \in RuleIds(n) |->
            [mode |-> "audit",
             parameters |-> [k \in DOMAIN Metadata(n, id) |-> Metadata(n, id)[k].default]]]]

\* Mutant: a toggle without effect on a rule that was toggled before.
ToggleOnce(rules_, toggle) ==
    LET n == CHOOSE n \in DOMAIN rules_ : n \in Named(toggle.base)
    IN  IF rules_[n][toggle.id].mode = "audit"
        THEN [rules_ EXCEPT ![n][toggle.id].mode = toggle.mode] ELSE rules_

ApplyToggle(rules_, toggle) ==
    LET n == CHOOSE n \in DOMAIN rules_ : n \in Named(toggle.base)
    IN  [rules_ EXCEPT ![n][toggle.id].mode = toggle.mode]

ApplyOverride(rules_, override) ==
    LET meaning == CHOOSE x \in Meanings(override) : TRUE
    IN  [rules_ EXCEPT ![meaning[1]][meaning[2]].parameters[meaning[3]] = override.value]

\* The rules after the first t toggles, and after all of them and the first o overrides:
\* each is applied in the order of the command line.
WithToggles[t \in 0 .. Len(command.toggles)] ==
    IF t = 0 THEN Seeded ELSE ApplyToggle(WithToggles[t - 1], command.toggles[t])

WithOverrides[o \in 0 .. Len(command.overrides)] ==
    IF o = 0 THEN WithToggles[Len(command.toggles)]
    ELSE ApplyOverride(WithOverrides[o - 1], command.overrides[o])

GeneratedRules == WithOverrides[Len(command.overrides)]

\* Mutant: the parameters are validated before they are overridden.
GenerableBefore ==
    /\ \A m, n \in DOMAIN parsedFiles :
        parsedFiles[m].identity = parsedFiles[n].identity => m = n
    /\ \A t \in DOMAIN command.toggles : Resolved(command.toggles[t])
    /\ \A o \in DOMAIN command.overrides : Unambiguous(command.overrides[o])
    /\ \A n \in DOMAIN parsedFiles : \A id \in RuleIds(n) :
        ValidParameters(Metadata(n, id), Seeded[n][id].parameters)

(***************************************************************************)
(* What GeneratePlan checks, whatever comes first: the identities, every   *)
(* reference of the command line, and then the parameters of every rule.   *)
(***************************************************************************)
Generable ==
    /\ \A m, n \in DOMAIN parsedFiles :
        parsedFiles[m].identity = parsedFiles[n].identity => m = n
    /\ \A t \in DOMAIN command.toggles : Resolved(command.toggles[t])
    /\ \A o \in DOMAIN command.overrides : Unambiguous(command.overrides[o])
    /\ \A n \in DOMAIN parsedFiles : \A id \in RuleIds(n) :
        ValidParameters(Metadata(n, id), GeneratedRules[n][id].parameters)

\* BuildBenchmarkEntry
GeneratedPlan ==
    [n \in DOMAIN command.files |->
        [file |-> command.files[n], version |-> parsedFiles[n].version, constraint |-> "^",
         rules |-> GeneratedRules[n]]]

Generate ==
    /\ step = "generate"
    /\ IF Generable
       THEN /\ content' = PlanText(GeneratedPlan)
            /\ step' = "open"
            /\ UNCHANGED <<session, parsedFiles, written, file, replaced>>
       ELSE Stop

-----------------------------------------------------------------------------
(***************************************************************************)
(* WritePlanFile: the file is opened, or created empty, and looked at;     *)
(* then truncated; then written at the writer's own offset.                *)
(***************************************************************************)
OpenOutput ==
    /\ step = "open"
    /\ step' = "truncate"
    /\ UNCHANGED <<session, parsedFiles, content, written, file, replaced>>

\* Mutant: the file is written over what it holds.
TruncateNothing ==
    /\ step = "truncate"
    /\ step' = "write"
    /\ replaced' = TRUE
    /\ UNCHANGED <<session, parsedFiles, content, written, file>>

Truncate ==
    /\ step = "truncate"
    /\ step' = "write"
    /\ file' = << >>
    /\ replaced' = TRUE
    /\ UNCHANGED <<session, parsedFiles, content, written>>

\* One write call takes up to n more cells.
Write(n) ==
    /\ step = "write"
    /\ written < n /\ n <= Len(content)
    /\ written' = n
    /\ file' = [c \in 1 .. (IF n > Len(file) THEN n ELSE Len(file)) |->
                    IF c \in written + 1 .. n THEN content[c] ELSE file[c]]
    /\ UNCHANGED <<session, step, parsedFiles, content, replaced>>

Close ==
    /\ step = "write" /\ written = Len(content)
    /\ step' = "done" /\ content' = << >> /\ written' = 0
    /\ UNCHANGED <<session, parsedFiles, file, replaced>>

(***************************************************************************)
(* A definition that does not parse, no memory, a plan that is too large,  *)
(* an output that is refused, a failed call, or a signal.                  *)
(***************************************************************************)
FailOrKilled == step # "done" /\ Stop

(***************************************************************************)
(* The host goes down, and nothing was synchronised.  If the truncation    *)
(* has reached the disk, the file is as long as the last size that did,    *)
(* and cells of it that did not are NUL.                                   *)
(***************************************************************************)
PowerFails(n, lost) ==
    /\ replaced
    /\ n <= Len(file) /\ lost \subseteq 1 .. n
    /\ file' = [c \in 1 .. n |-> IF c \in lost THEN Nul ELSE file[c]]
    /\ step' = "done" /\ content' = << >> /\ written' = 0
    /\ UNCHANGED <<session, parsedFiles, replaced>>

(***************************************************************************)
(* If it has not, the whole of what was there before is back, however far  *)
(* the command had come, also when it had succeeded.  (The blocks of the   *)
(* old text are not used again before the truncation is on disk: the file  *)
(* systems that have a journal see to that.)                               *)
(***************************************************************************)
TruncationUndone ==
    /\ replaced
    /\ file' = OldText /\ replaced' = FALSE
    /\ step' = "done" /\ parsedFiles' = << >> /\ content' = << >> /\ written' = 0
    /\ UNCHANGED session

NextCommand ==
    \/ CheckInputs
    \/ \E d \in Documents : ParseDefinition(d)
    \/ Generate
    \/ OpenOutput \/ Truncate \/ \E n \in 1 .. Len(content) : Write(n)
    \/ Close
    \/ FailOrKilled

-----------------------------------------------------------------------------
(***************************************************************************)
(* What docs/cli.md promises of the command, said without an order of      *)
(* steps: a rule is audited, or in the mode of the last flag that names    *)
(* it, with the values the command gives last and the defaults otherwise.  *)
(***************************************************************************)
PromisedMode(n, id) ==
    LET flags == {t \in DOMAIN command.toggles :
                    command.toggles[t].id = id /\ Named(command.toggles[t].base) = {n}}
    IN  IF flags = {} THEN "audit"
        ELSE command.toggles[CHOOSE t \in flags : \A u \in flags : u <= t].mode

PromisedValue(n, id, k) ==
    LET flags == {o \in DOMAIN command.overrides :
                    Meanings(command.overrides[o]) = {<<n, id, k>>}}
    IN  IF flags = {} THEN Metadata(n, id)[k].default
        ELSE command.overrides[CHOOSE o \in flags : \A p \in flags : p <= o].value
=============================================================================
