---------------------------- MODULE Remediation ----------------------------
(***************************************************************************)
(* The remediations that edit configuration files (lib/procedures): audit, *)
(* read, write the changed contents with CreateFileContentsAtomic or       *)
(* ReplaceFileContentsAtomic, audit again, and on failure write back what  *)
(* was read.  They come in three kinds:                                    *)
(*   edit     one file that has to exist (LoginDefsOption, AideAttributes, *)
(*            DefaultUmask, ShellTimeout, SystemdConfig)                   *)
(*   managed  one file that is created if need be (KernelModule)           *)
(*   several  all files of a list that exist (XdmcpDisabled)               *)
(*                                                                         *)
(* A file is the set of the settings that it has right.  Writing it is one *)
(* step that happens or fails, which is what module ConfigFile describes.  *)
(***************************************************************************)
EXTENDS Naturals

CONSTANTS
    Processes,
    Settings,
    Last,           \* files are numbered 1..Last, in the order of the list
    Absent, None

ASSUME RemediationAssumption ==
    /\ Last \in Nat \ {0}
    /\ Absent # None
    /\ \A s \in SUBSET Settings : s \notin {Absent, None}

VARIABLES
    kind,           \* what is remediated
    file,
    pc, at,         \* at is the index into the list
    setting,        \* the one that the call is to establish
    original,       \* what was read; None for a file that is not changed
    result,         \* of the last audit or of the call
    before          \* history: the files when the call began, as long as nobody
                    \* else has touched them; else None

vars == <<kind, file, pc, at, setting, original, result, before>>

Files == 1..Last
Contents == {Absent} \cup SUBSET Settings
FilesOf == IF kind = "several" THEN Files ELSE {1}
End == IF kind = "several" THEN Last ELSE 1
Results == {"Compliant", "NonCompliant", "Error"}

TypeOK ==
    /\ kind \in {"edit", "managed", "several"}
    /\ file \in [Files -> Contents]
    /\ pc \in [Processes -> {"idle", "audit", "read", "write", "validate",
                             "undo", "unlink", "done"}]
    /\ at \in [Processes -> Files]
    /\ setting \in [Processes -> Settings]
    /\ original \in [Processes -> [Files -> {None} \cup Contents]]
    /\ result \in [Processes -> Results \cup {"RollbackFailed", None}]
    /\ before \in [Processes -> {None} \cup [Files -> Contents]]

Nothing == [f \in Files |-> None]

Init ==
    /\ kind \in {"edit", "managed", "several"}
    /\ file \in {c \in [Files -> Contents] : \A f \in Files \ FilesOf : c[f] = Absent}
    /\ pc = [p \in Processes |-> "idle"]
    /\ at = [p \in Processes |-> 1]
    /\ setting \in [Processes -> Settings]
    /\ original = [p \in Processes |-> Nothing]
    /\ result = [p \in Processes |-> None]
    /\ before = [p \in Processes |-> None]

-----------------------------------------------------------------------------
Goto(p, step, f) ==
    /\ pc' = [pc EXCEPT ![p] = step]
    /\ at' = [at EXCEPT ![p] = f]

Return(p, r) ==
    /\ Goto(p, "done", 1)
    /\ original' = [original EXCEPT ![p] = Nothing]
    /\ result' = [result EXCEPT ![p] = r]

\* For the calls of everybody but those in "own" the files have changed.
Change(own, f, c) ==
    /\ file' = [file EXCEPT ![f] = c]
    /\ before' = [q \in Processes |-> IF q \in own THEN before[q] ELSE None]

Call(p) ==
    /\ pc[p] \in {"idle", "done"}
    /\ Goto(p, IF kind = "several" THEN "read" ELSE "audit", 1)
    /\ result' = [result EXCEPT ![p] = None]
    /\ before' = [before EXCEPT ![p] = file]
    /\ UNCHANGED <<kind, file, setting, original>>

(***************************************************************************)
(* An audit may answer anything (Results): it reads its files one after    *)
(* another while others write them, some audits stop at the first of       *)
(* several files that is right, merge the configuration of many files, or  *)
(* ask the kernel, and each of these may fail.                             *)
(***************************************************************************)
FirstAudit(p) ==
    /\ pc[p] = "audit"
    /\ \E r \in Results :
        IF r = "NonCompliant"
        THEN Goto(p, "read", 1) /\ UNCHANGED <<original, result>>
        ELSE Return(p, r)
    /\ UNCHANGED <<kind, file, setting, before>>

ToChange(p, f) ==
    \/ kind = "managed"
    \/ /\ file[f] # Absent
       /\ kind = "several" => setting[p] \notin file[f]

\* Only XdmcpDisabled passes over a file.
Read(p) ==
    /\ pc[p] = "read"
    /\ \/ /\ ToChange(p, at[p])
          /\ original' = [original EXCEPT ![p][at[p]] = file[at[p]]]
       \/ /\ kind = "several" /\ ~ToChange(p, at[p])
          /\ UNCHANGED original
    /\ IF at[p] < End THEN Goto(p, "read", at[p] + 1) ELSE Goto(p, "write", 1)
    /\ UNCHANGED <<kind, file, setting, result, before>>

\* The file cannot be read, or there is nothing in it to change; a module that
\* is loaded, or a managed block that is malformed.
Refuse(p) ==
    /\ pc[p] = "read"
    /\ Return(p, "Error")
    /\ UNCHANGED <<kind, file, setting, before>>

-----------------------------------------------------------------------------
Updated(p, f) ==
    IF original[p][f] = Absent THEN {setting[p]} ELSE original[p][f] \cup {setting[p]}

\* A creation needs the file to be absent, a replacement needs it to be there.
Writable(p, f) ==
    /\ original[p][f] # None
    /\ original[p][f] = Absent <=> file[f] = Absent

Write(p) ==
    LET f == at[p]
    IN  /\ pc[p] = "write"
        /\ \/ Writable(p, f) /\ Change({p}, f, Updated(p, f))
           \/ original[p][f] = None /\ UNCHANGED <<file, before>>
        /\ IF f < End THEN Goto(p, "write", f + 1) ELSE Goto(p, "validate", End)
        /\ UNCHANGED <<kind, setting, original, result>>

\* Mutant: the loop that writes back ends before the first file.
WriteFailsKeepingFirst(p) ==
    /\ pc[p] = "write" /\ original[p][at[p]] # None
    /\ IF at[p] <= 2
       THEN Return(p, "Error")
       ELSE /\ Goto(p, "undo", at[p] - 1)
            /\ result' = [result EXCEPT ![p] = "Error"]
            /\ UNCHANGED original
    /\ UNCHANGED <<kind, file, setting, before>>

\* What was written before is written back, in the reverse order.
WriteFails(p) ==
    /\ pc[p] = "write" /\ original[p][at[p]] # None
    /\ IF at[p] = 1
       THEN Return(p, "Error")
       ELSE /\ Goto(p, "undo", at[p] - 1)
            /\ result' = [result EXCEPT ![p] = "Error"]
            /\ UNCHANGED original
    /\ UNCHANGED <<kind, file, setting, before>>

\* Mutant: an error of the second audit is returned as it is.
ValidateErrorReturned(p) ==
    /\ pc[p] = "validate"
    /\ \E r \in Results :
        IF r # "NonCompliant" \/ kind = "several"
        THEN Return(p, r)
        ELSE /\ Goto(p, "undo", End)
             /\ result' = [result EXCEPT ![p] = r]
             /\ UNCHANGED original
    /\ UNCHANGED <<kind, file, setting, before>>

\* XdmcpDisabled returns what the second audit says; the others write back.
Validate(p) ==
    /\ pc[p] = "validate"
    /\ \E r \in Results :
        IF r = "Compliant" \/ kind = "several"
        THEN Return(p, r)
        ELSE /\ Goto(p, "undo", End)
             /\ result' = [result EXCEPT ![p] = r]
             /\ UNCHANGED original
    /\ UNCHANGED <<kind, file, setting, before>>

-----------------------------------------------------------------------------
WriteBack(p) ==
    \/ /\ original[p][at[p]] \notin {None, Absent} /\ file[at[p]] # Absent
       /\ Change({p}, at[p], original[p][at[p]])
    \/ /\ original[p][at[p]] = None
       /\ UNCHANGED <<file, before>>

Undo(p) ==
    /\ pc[p] = "undo"
    /\ WriteBack(p)
    /\ IF at[p] = 1 THEN Return(p, result[p])
       ELSE Goto(p, "undo", at[p] - 1) /\ UNCHANGED <<original, result>>
    /\ UNCHANGED <<kind, setting>>

\* The file that was created is still the same, as far as its number tells.
RemoveCreatedConfig(p) ==
    /\ pc[p] = "undo" /\ original[p][at[p]] = Absent
    /\ file[at[p]] # Absent
    /\ Goto(p, "unlink", at[p])
    /\ UNCHANGED <<kind, file, setting, original, result, before>>

Unlink(p) ==
    /\ pc[p] = "unlink" /\ file[at[p]] # Absent
    /\ Change({p}, at[p], Absent)
    /\ Return(p, result[p])
    /\ UNCHANGED <<kind, setting>>

\* Mutant: a file whose contents cannot be written back is removed.
UndoFailsRemoving(p) ==
    /\ pc[p] \in {"undo", "unlink"} /\ original[p][at[p]] # None
    /\ file[at[p]] # Absent /\ Change({p}, at[p], Absent)
    /\ Return(p, "RollbackFailed")
    /\ UNCHANGED <<kind, setting>>

UndoFails(p) ==
    /\ pc[p] \in {"undo", "unlink"} /\ original[p][at[p]] # None
    /\ Return(p, "RollbackFailed")
    /\ UNCHANGED <<kind, file, setting, before>>

Kill(p) ==
    /\ pc[p] \notin {"idle", "done"}
    /\ Goto(p, "idle", 1)
    /\ original' = [original EXCEPT ![p] = Nothing]
    /\ result' = [result EXCEPT ![p] = None]
    /\ UNCHANGED <<kind, file, setting, before>>

\* Anybody else edits, replaces, creates or deletes a file.
Foreign ==
    /\ \E f \in FilesOf, c \in Contents : c # file[f] /\ Change({}, f, c)
    /\ UNCHANGED <<kind, pc, at, setting, original, result>>

Remediate(p) ==
    \/ Call(p) \/ FirstAudit(p) \/ Read(p) \/ Refuse(p)
    \/ Write(p) \/ WriteFails(p) \/ Validate(p)
    \/ Undo(p) \/ RemoveCreatedConfig(p) \/ Unlink(p) \/ UndoFails(p)

Next == Foreign \/ \E p \in Processes : Remediate(p) \/ Kill(p)

Spec == Init /\ [][Next]_vars

-----------------------------------------------------------------------------
Undisturbed(p) == pc[p] = "done" /\ before[p] # None

Unchanged(p) == file = before[p]

\* What the call is to make of a file.
Wanted(p, f) ==
    IF before[p][f] # Absent THEN before[p][f] \cup {setting[p]}
    ELSE IF kind = "managed" THEN {setting[p]} ELSE Absent

Established(p) == \A f \in FilesOf : file[f] = Wanted(p, f)

(***************************************************************************)
(* A remediation of one file that fails leaves it as it was, or says that  *)
(* it could not: on every path out of the call (LoginDefsOption.cpp:       *)
(* 308-321, KernelModule.cpp:191-218).                                     *)
(***************************************************************************)
FailureRestores ==
    \A p \in Processes :
        Undisturbed(p) /\ kind # "several" /\ result[p] \in {"NonCompliant", "Error"} =>
            Unchanged(p)

(***************************************************************************)
(* Never some of the files: a write that fails in the middle of the list   *)
(* takes back the earlier ones (XdmcpDisabled.cpp:114-132), and nothing    *)
(* but the one setting changes.                                            *)
(***************************************************************************)
AllOrNothing ==
    \A p \in Processes :
        Undisturbed(p) /\ result[p] # "RollbackFailed" => Unchanged(p) \/ Established(p)

(***************************************************************************)
(* Each file by itself is as it was or has the one setting more, at every  *)
(* moment of a call and after it: when the process dies between two files  *)
(* of the list, and when a roll back fails half way or cannot remove what  *)
(* was created (XdmcpDisabled.cpp:115-133, KernelModule.cpp:85-104).  The  *)
(* audits may answer what they like.                                       *)
(***************************************************************************)
EachOldOrWanted ==
    \A p \in Processes :
        before[p] # None => \A f \in FilesOf : file[f] \in {before[p][f], Wanted(p, f)}
=============================================================================
