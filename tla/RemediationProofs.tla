------------------------- MODULE RemediationProofs -------------------------
(***************************************************************************)
(* Proofs that Remediation keeps its properties for any number of          *)
(* processes, settings and files.                                          *)
(***************************************************************************)
EXTENDS Remediation, TLAPS

-----------------------------------------------------------------------------
(***************************************************************************)
(* The inductive invariant.                                                *)
(***************************************************************************)

\* A call knows nothing before it reads, stays inside the list, and writes back
\* only because something failed.
Local(p) ==
    /\ at[p] \in FilesOf
    /\ pc[p] \in {"idle", "audit", "done"} => original[p] = Nothing
    /\ pc[p] \in {"undo", "unlink"} => result[p] \in {"NonCompliant", "Error"}
    /\ pc[p] = "unlink" => original[p][at[p]] = Absent

\* What was read is what was there when the call began.
Faithful(p) ==
    \A f \in Files :
        original[p][f] # None =>
            /\ f \in FilesOf
            /\ original[p][f] = before[p][f]
            /\ original[p][f] = Absent => kind = "managed"

\* Only XdmcpDisabled passes over a file, and only over one that needs no change.
Passed(p, f) ==
    original[p][f] = None =>
        /\ kind = "several"
        /\ before[p][f] # Absent => setting[p] \in before[p][f]

\* The files of W that are to be changed are changed, the others as before.
Written(p, W) ==
    \A f \in Files :
        file[f] = IF f \in W /\ original[p][f] # None THEN Updated(p, f) ELSE before[p][f]

Below(p) == {f \in Files : f < at[p]}
UpTo(p) == {f \in Files : f <= at[p]}

Answered(p) ==
    /\ kind # "several" /\ result[p] \in {"NonCompliant", "Error"} => Unchanged(p)
    /\ result[p] # "RollbackFailed" => Unchanged(p) \/ Established(p)

\* Each file by itself is as it was or as it is to be.
Each(p) == \A f \in FilesOf : file[f] \in {before[p][f], Wanted(p, f)}

\* Where an undisturbed call stands.
Course(p) ==
    before[p] # None =>
        /\ Faithful(p)
        /\ pc[p] \in {"audit", "read"} => file = before[p]
        /\ pc[p] = "read" => \A f \in Below(p) : Passed(p, f)
        /\ pc[p] \in {"write", "validate"} => \A f \in FilesOf : Passed(p, f)
        /\ pc[p] = "write" => Written(p, Below(p))
        /\ pc[p] = "validate" => Written(p, Files)
        /\ pc[p] \in {"undo", "unlink"} => Written(p, UpTo(p))
        /\ pc[p] = "done" => Answered(p)
        /\ pc[p] \in {"idle", "done"} => Each(p)

IInv == TypeOK /\ \A p \in Processes : Local(p) /\ Course(p)

-----------------------------------------------------------------------------
\* The list of files.
LEMMA List ==
    ASSUME kind \in {"edit", "managed", "several"}
    PROVE  /\ 1 \in FilesOf /\ End \in FilesOf
           /\ FilesOf \subseteq Files /\ Files \subseteq Nat
           /\ \A f \in FilesOf : f <= End
           /\ \A f \in FilesOf : f < End => f + 1 \in FilesOf
           /\ \A f \in FilesOf : f # 1 => f - 1 \in FilesOf
  BY RemediationAssumption DEF FilesOf, End, Files

\* Nothing that a file may hold is mistaken for None.
LEMMA ContentsAreSome == None \notin Contents
  BY RemediationAssumption DEF Contents

THEOREM InitIInv == Init => IInv
  <1> SUFFICES ASSUME Init PROVE IInv
    OBVIOUS
  <1>1. kind \in {"edit", "managed", "several"}
    BY DEF Init
  <1>2. TypeOK
    BY List, <1>1 DEF Init, TypeOK, Nothing, Contents
  <1>3. ASSUME NEW p \in Processes PROVE Local(p) /\ Course(p)
    BY List, <1>1 DEF Init, Local, Course
  <1> QED
    BY <1>2, <1>3 DEF IInv

-----------------------------------------------------------------------------
(***************************************************************************)
(* Types.                                                                  *)
(***************************************************************************)

\* What is written is the contents of a file.
LEMMA UpdatedType ==
    ASSUME TypeOK, NEW p \in Processes, NEW f \in Files, original[p][f] # None
    PROVE  Updated(p, f) \in Contents
  BY DEF TypeOK, Updated, Contents

Steps == {"idle", "audit", "read", "write", "validate", "undo", "unlink", "done"}

LEMMA GotoType ==
    ASSUME TypeOK, NEW p \in Processes, NEW s \in Steps, NEW f \in Files, Goto(p, s, f)
    PROVE  pc' \in [Processes -> Steps] /\ at' \in [Processes -> Files]
  BY DEF TypeOK, Goto, Steps

LEMMA ReturnType ==
    ASSUME TypeOK, NEW p \in Processes,
           NEW r \in Results \cup {"RollbackFailed", None}, Return(p, r)
    PROVE  /\ pc' \in [Processes -> Steps] /\ at' \in [Processes -> Files]
           /\ original' \in [Processes -> [Files -> {None} \cup Contents]]
           /\ result' \in [Processes -> Results \cup {"RollbackFailed", None}]
  <1>1. 1 \in Files
    BY List DEF TypeOK
  <1>2. pc' \in [Processes -> Steps] /\ at' \in [Processes -> Files]
    BY <1>1, GotoType DEF Return, Steps
  <1>3. original' \in [Processes -> [Files -> {None} \cup Contents]]
    BY DEF Return, TypeOK, Nothing
  <1>4. result' \in [Processes -> Results \cup {"RollbackFailed", None}]
    BY DEF Return, TypeOK
  <1> QED
    BY <1>2, <1>3, <1>4

\* A call keeps the types.
LEMMA RemediateType ==
    ASSUME IInv, NEW p \in Processes, Remediate(p)
    PROVE  TypeOK'
  <1> USE DEF IInv
  <1>0. /\ TypeOK /\ Local(p)
        /\ 1 \in FilesOf /\ End \in FilesOf /\ FilesOf \subseteq Files
        /\ Files \subseteq Nat
        /\ \A f \in FilesOf : f < End => f + 1 \in FilesOf
        /\ \A f \in FilesOf : f # 1 => f - 1 \in FilesOf
    BY List DEF TypeOK
  <1>1. CASE Call(p)
    BY <1>0, <1>1 DEF Call, Goto, TypeOK
  <1>2. CASE FirstAudit(p)
    <2> PICK r \in Results : IF r = "NonCompliant"
                             THEN Goto(p, "read", 1) /\ UNCHANGED <<original, result>>
                             ELSE Return(p, r)
      BY <1>2 DEF FirstAudit
    <2>1. CASE r = "NonCompliant"
      BY <1>0, <1>2, <2>1, GotoType DEF FirstAudit, TypeOK, Steps, Contents
    <2>2. CASE r # "NonCompliant"
      BY <1>0, <1>2, <2>2, ReturnType DEF FirstAudit, TypeOK, Steps, Contents
    <2> QED
      BY <2>1, <2>2
  <1>3. CASE Read(p)
    <2>1. original' \in [Processes -> [Files -> {None} \cup Contents]]
      <3>1. at[p] \in Files /\ file[at[p]] \in Contents
        BY <1>0 DEF Local, TypeOK
      <3>2. CASE original' = [original EXCEPT ![p][at[p]] = file[at[p]]]
        <4> DEFINE o == [original[p] EXCEPT ![at[p]] = file[at[p]]]
        <4>1. o \in [Files -> {None} \cup Contents]
          BY <1>0, <3>1 DEF TypeOK
        <4>2. original' = [original EXCEPT ![p] = o]
          BY <3>2
        <4> QED
          BY <1>0, <4>1, <4>2 DEF TypeOK
      <3>3. CASE UNCHANGED original
        BY <1>0, <3>3 DEF TypeOK
      <3> QED
        BY <1>3, <3>2, <3>3 DEF Read
    <2>2. pc' \in [Processes -> Steps]
          /\ at' \in [Processes -> Files]
      <3>1. at[p] < End => at[p] + 1 \in Files
        BY <1>0 DEF Local
      <3> QED
        BY <1>0, <1>3, <3>1, GotoType DEF Read, Steps
    <2> QED
      BY <1>0, <1>3, <2>1, <2>2 DEF Read, TypeOK, Contents, Steps
  <1>4. CASE Refuse(p)
    BY <1>0, <1>4 DEF Refuse, Goto, Return, TypeOK, Results, Nothing, Contents
  <1>5. CASE Write(p)
    <2>1. at[p] \in Files
      BY <1>0 DEF Local
    <2>2. file' \in [Files -> Contents] /\ before' \in [Processes -> {None} \cup [Files -> Contents]]
      <3>1. CASE Writable(p, at[p]) /\ Change({p}, at[p], Updated(p, at[p]))
        <4>1. Updated(p, at[p]) \in Contents
          BY <1>0, <2>1, <3>1, UpdatedType DEF Writable
        <4> QED
          BY <1>0, <2>1, <3>1, <4>1 DEF Change, TypeOK
      <3>2. CASE UNCHANGED <<file, before>>
        BY <1>0, <3>2 DEF TypeOK
      <3> QED
        BY <1>5, <3>1, <3>2 DEF Write
    <2>3. pc' \in [Processes -> Steps]
          /\ at' \in [Processes -> Files]
      <3>1. at[p] < End => at[p] + 1 \in Files
        BY <1>0 DEF Local
      <3> QED
        BY <1>0, <1>5, <3>1, GotoType DEF Write, Steps
    <2> QED
      BY <1>0, <1>5, <2>2, <2>3 DEF Write, TypeOK, Contents, Steps
  <1>6. CASE WriteFails(p)
    <2>1. CASE Return(p, "Error")
      BY <1>0, <1>6, <2>1, ReturnType DEF WriteFails, TypeOK, Steps, Results, Contents
    <2>2. CASE /\ at[p] # 1 /\ Goto(p, "undo", at[p] - 1) /\ UNCHANGED original
               /\ result' = [result EXCEPT ![p] = "Error"]
      <3>1. at[p] - 1 \in Files
        BY <1>0, <2>2 DEF Local
      <3> QED
        BY <1>0, <1>6, <2>2, <3>1, GotoType DEF WriteFails, TypeOK, Steps, Results, Contents
    <2> QED
      BY <1>6, <2>1, <2>2 DEF WriteFails
  <1>7. CASE Validate(p)
    <2> PICK r \in Results :
               \/ Return(p, r)
               \/ /\ Goto(p, "undo", End) /\ UNCHANGED original
                  /\ result' = [result EXCEPT ![p] = r]
      BY <1>7 DEF Validate
    <2>1. CASE Return(p, r)
      BY <1>0, <1>7, <2>1, ReturnType DEF Validate, TypeOK, Steps, Contents
    <2>2. CASE /\ Goto(p, "undo", End) /\ UNCHANGED original
               /\ result' = [result EXCEPT ![p] = r]
      BY <1>0, <1>7, <2>2, GotoType DEF Validate, TypeOK, Steps, Contents
    <2> QED
      BY <2>1, <2>2
  <1>8. CASE Undo(p)
    <2>1. at[p] \in Files
      BY <1>0 DEF Local
    <2>2. file' \in [Files -> Contents] /\ before' \in [Processes -> {None} \cup [Files -> Contents]]
      <3>1. CASE /\ original[p][at[p]] \notin {None, Absent}
                 /\ Change({p}, at[p], original[p][at[p]])
        <4>1. original[p][at[p]] \in Contents
          BY <1>0, <2>1, <3>1 DEF TypeOK
        <4> QED
          BY <1>0, <2>1, <3>1, <4>1 DEF Change, TypeOK
      <3>2. CASE UNCHANGED <<file, before>>
        BY <1>0, <3>2 DEF TypeOK
      <3> QED
        BY <1>8, <3>1, <3>2 DEF Undo, WriteBack
    <2>3. /\ pc' \in [Processes -> Steps]
          /\ at' \in [Processes -> Files]
          /\ original' \in [Processes -> [Files -> {None} \cup Contents]]
          /\ result' \in [Processes -> Results \cup {"RollbackFailed", None}]
      <3>1. CASE Return(p, result[p])
        BY <1>0, <3>1, ReturnType DEF TypeOK, Steps
      <3>2. CASE at[p] # 1 /\ Goto(p, "undo", at[p] - 1) /\ UNCHANGED <<original, result>>
        <4>1. at[p] - 1 \in Files
          BY <1>0, <3>2 DEF Local
        <4> QED
          BY <1>0, <3>2, <4>1, GotoType DEF TypeOK, Steps
      <3> QED
        BY <1>8, <3>1, <3>2 DEF Undo
    <2> QED
      BY <1>0, <1>8, <2>2, <2>3 DEF Undo, TypeOK, Contents, Steps
  <1>9. CASE RemoveCreatedConfig(p)
    BY <1>0, <1>9 DEF RemoveCreatedConfig, Goto, TypeOK, Contents, Local
  <1>10. CASE Unlink(p)
    <2>1. file' \in [Files -> Contents] /\ before' \in [Processes -> {None} \cup [Files -> Contents]]
      BY <1>0, <1>10 DEF Unlink, Change, TypeOK, Contents
    <2> QED
      BY <1>0, <1>10, <2>1 DEF Unlink, Goto, Return, TypeOK, Nothing, Contents
  <1>11. CASE UndoFails(p)
    BY <1>0, <1>11 DEF UndoFails, Goto, Return, TypeOK, Nothing, Contents
  <1> QED
    BY <1>1, <1>2, <1>3, <1>4, <1>5, <1>6, <1>7, <1>8, <1>9, <1>10, <1>11 DEF Remediate

\* Every step keeps the types.
LEMMA NextType ==
    ASSUME IInv, Next
    PROVE  TypeOK'
  <1>1. CASE Foreign
    <2> PICK f \in FilesOf, c \in Contents : Change({}, f, c)
      BY <1>1 DEF Foreign
    <2>1. f \in Files
      BY List DEF IInv, TypeOK
    <2> QED
      BY <1>1, <2>1 DEF IInv, Foreign, Change, TypeOK, Contents
  <1>2. ASSUME NEW p \in Processes, Kill(p) PROVE TypeOK'
    BY <1>2, List DEF IInv, Kill, Goto, TypeOK, Nothing, Contents
  <1> QED
    BY <1>1, <1>2, RemediateType DEF Next

-----------------------------------------------------------------------------
(***************************************************************************)
(* The other processes.                                                    *)
(***************************************************************************)

\* What a step leaves of the calls of others: their variables, and either the
\* files or nothing to say about them.
Aside(q) ==
    /\ kind' = kind /\ setting' = setting
    /\ pc'[q] = pc[q] /\ at'[q] = at[q]
    /\ original'[q] = original[q] /\ result'[q] = result[q]
    /\ before'[q] = None \/ (before'[q] = before[q] /\ file' = file)

LEMMA AsideKeeps ==
    ASSUME NEW q \in Processes, Aside(q), Local(q), Course(q)
    PROVE  Local(q)' /\ Course(q)'
  <1> USE DEF Aside
  <1>1. FilesOf' = FilesOf /\ Files' = Files
    BY DEF FilesOf, Files
  <1>2. Local(q)'
    BY <1>1 DEF Local, Nothing
  <1>3. CASE before'[q] = None
    BY <1>3, <1>2 DEF Course
  <1>4. CASE before[q] # None /\ before'[q] = before[q] /\ file' = file
    <2>1. Faithful(q) => Faithful(q)'
      BY <1>1, <1>4 DEF Faithful
    <2>2. \A f : Passed(q, f) => Passed(q, f)'
      BY <1>4 DEF Passed
    <2>3. Below(q)' = Below(q) /\ UpTo(q)' = UpTo(q)
      BY <1>1 DEF Below, UpTo
    <2>4. \A f \in Files : Updated(q, f)' = Updated(q, f)
      BY DEF Updated
    <2>5. /\ Written(q, Below(q)) => Written(q, Below(q))'
          /\ Written(q, UpTo(q)) => Written(q, UpTo(q))'
          /\ Written(q, Files) => Written(q, Files)'
      BY <1>1, <1>4, <2>3, <2>4 DEF Written
    <2>6. Answered(q) => Answered(q)'
      BY <1>1, <1>4 DEF Answered, Unchanged, Established, Wanted
    <2>7. /\ (\A f \in Below(q) : Passed(q, f)) => (\A f \in Below(q) : Passed(q, f))'
          /\ (\A f \in FilesOf : Passed(q, f)) => (\A f \in FilesOf : Passed(q, f))'
      BY <1>1, <2>2, <2>3
    <2>9. Each(q) => Each(q)'
      BY <1>1, <1>4 DEF Each, Wanted
    <2>8. /\ pc'[q] = pc[q]
          /\ (file = before[q]) => (file = before[q])'
      BY <1>4
    <2> QED
      BY <1>2, <1>4, <2>1, <2>5, <2>6, <2>7, <2>8, <2>9 DEF Course
  <1> QED
    BY <1>2, <1>3, <1>4 DEF Course

LEMMA Others ==
    ASSUME IInv, NEW p \in Processes, Remediate(p) \/ Kill(p),
           NEW q \in Processes, q # p
    PROVE  Aside(q)
  <1>0. /\ pc \in [Processes -> Steps] /\ DOMAIN at = Processes
        /\ DOMAIN original = Processes /\ DOMAIN result = Processes
        /\ DOMAIN before = Processes
    BY DEF IInv, TypeOK, Steps
  <1>1. CASE Call(p)
    BY <1>0, <1>1 DEF Call, Goto, Aside
  <1>2. CASE FirstAudit(p)
    BY <1>0, <1>2 DEF FirstAudit, Goto, Return, Aside
  <1>3. CASE Read(p)
    BY <1>0, <1>3 DEF Read, Goto, Aside
  <1>4. CASE Refuse(p)
    BY <1>0, <1>4 DEF Refuse, Goto, Return, Aside
  <1>5. CASE Write(p)
    BY <1>0, <1>5 DEF Write, Goto, Change, Aside
  <1>6. CASE WriteFails(p)
    BY <1>0, <1>6 DEF WriteFails, Goto, Return, Aside
  <1>7. CASE Validate(p)
    BY <1>0, <1>7 DEF Validate, Goto, Return, Aside
  <1>8. CASE Undo(p)
    BY <1>0, <1>8 DEF Undo, WriteBack, Goto, Return, Change, Aside
  <1>9. CASE RemoveCreatedConfig(p)
    BY <1>0, <1>9 DEF RemoveCreatedConfig, Goto, Aside
  <1>10. CASE Unlink(p)
    BY <1>0, <1>10 DEF Unlink, Goto, Return, Change, Aside
  <1>11. CASE UndoFails(p)
    BY <1>0, <1>11 DEF UndoFails, Goto, Return, Aside
  <1>12. CASE Kill(p)
    BY <1>0, <1>12 DEF Kill, Goto, Aside
  <1> QED
    BY <1>1, <1>2, <1>3, <1>4, <1>5, <1>6, <1>7, <1>8, <1>9, <1>10, <1>11, <1>12
    DEF Remediate

-----------------------------------------------------------------------------
(***************************************************************************)
(* The process that takes the step.                                        *)
(***************************************************************************)

\* Two states of the files are the same if every file is.
LEMMA SameFiles ==
    ASSUME TypeOK, NEW p \in Processes, before[p] # None,
           \A f \in Files : file[f] = before[p][f]
    PROVE  Unchanged(p)
  BY DEF TypeOK, Unchanged

\* Whichever files are written by now, each is as it was or as it is to be.
LEMMA WrittenEach ==
    ASSUME kind \in {"edit", "managed", "several"}, NEW p \in Processes,
           Faithful(p), NEW W, Written(p, W)
    PROVE  Each(p)
  <1> SUFFICES ASSUME NEW f \in FilesOf
               PROVE  file[f] \in {before[p][f], Wanted(p, f)}
    BY DEF Each
  <1>1. f \in Files
    BY List
  <1>2. CASE f \in W /\ original[p][f] # None
    BY <1>1, <1>2 DEF Written, Faithful, Updated, Wanted
  <1>3. CASE ~(f \in W /\ original[p][f] # None)
    BY <1>1, <1>3 DEF Written
  <1> QED
    BY <1>2, <1>3

\* So it is wherever the call is.
LEMMA CourseEach ==
    ASSUME IInv, NEW p \in Processes, before[p] # None
    PROVE  Each(p)
  <1>0. Course(p) /\ kind \in {"edit", "managed", "several"} /\ pc[p] \in Steps
    BY DEF IInv, TypeOK, Steps
  <1>1. CASE pc[p] \in {"idle", "done"}
    BY <1>0, <1>1 DEF Course
  <1>2. CASE pc[p] \in {"audit", "read"}
    BY <1>0, <1>2 DEF Course, Each
  <1>3. CASE pc[p] \in {"write", "validate", "undo", "unlink"}
    BY <1>0, <1>3, WrittenEach DEF Course
  <1> QED
    BY <1>0, <1>1, <1>2, <1>3 DEF Steps

\* A call that is over with the files as they were answers rightly.
LEMMA ReturnUnchanged ==
    ASSUME IInv, NEW p \in Processes, NEW r, Return(p, r), kind' = kind,
           before'[p] # None => Unchanged(p)'
    PROVE  Local(p)' /\ Course(p)'
  <1>1. /\ pc'[p] = "done" /\ at'[p] = 1 /\ original'[p] = Nothing
        /\ FilesOf' = FilesOf /\ 1 \in FilesOf
    BY List DEF IInv, TypeOK, Return, Goto, FilesOf
  <1>2. Local(p)'
    BY <1>1 DEF Local, Nothing
  <1>3. Faithful(p)'
    BY <1>1 DEF Faithful, Nothing
  <1>4. before'[p] # None => Each(p)'
    BY DEF Each, Unchanged
  <1> QED
    BY <1>1, <1>2, <1>3, <1>4 DEF Course, Answered

LEMMA CallKeeps ==
    ASSUME IInv, NEW p \in Processes, Call(p)
    PROVE  Local(p)' /\ Course(p)'
  <1>1. /\ pc'[p] = (IF kind = "several" THEN "read" ELSE "audit") /\ at'[p] = 1
        /\ original'[p] = Nothing /\ before'[p] = file /\ file' = file
        /\ FilesOf' = FilesOf /\ 1 \in FilesOf
    BY List DEF IInv, TypeOK, Call, Goto, FilesOf, Local
  <1>2. Local(p)'
    BY <1>1 DEF Local, Nothing
  <1>3. Faithful(p)'
    BY <1>1 DEF Faithful, Nothing
  <1>4. Below(p)' = {}
    BY <1>1 DEF Below, Files
  <1> QED
    BY <1>1, <1>2, <1>3, <1>4 DEF Course

LEMMA FirstAuditKeeps ==
    ASSUME IInv, NEW p \in Processes, FirstAudit(p)
    PROVE  Local(p)' /\ Course(p)'
  <1>0. /\ kind' = kind /\ file' = file /\ before' = before /\ setting' = setting
        /\ pc[p] = "audit" /\ original[p] = Nothing
        /\ before[p] # None => file = before[p]
    BY DEF IInv, FirstAudit, Local, Course
  <1> PICK r \in Results : IF r = "NonCompliant"
                           THEN Goto(p, "read", 1) /\ UNCHANGED <<original, result>>
                           ELSE Return(p, r)
    BY DEF FirstAudit
  <1>1. CASE Return(p, r)
    <2>1. before'[p] # None => Unchanged(p)'
      BY <1>0 DEF Unchanged
    <2> QED
      BY <1>0, <1>1, <2>1, ReturnUnchanged
  <1>2. CASE Goto(p, "read", 1) /\ UNCHANGED <<original, result>>
    <2>1. /\ pc'[p] = "read" /\ at'[p] = 1 /\ original'[p] = Nothing
          /\ FilesOf' = FilesOf /\ 1 \in FilesOf
      BY <1>0, <1>2, List DEF IInv, TypeOK, Goto, FilesOf
    <2>2. Local(p)'
      BY <2>1 DEF Local
    <2>3. Faithful(p)'
      BY <2>1 DEF Faithful, Nothing
    <2>4. Below(p)' = {}
      BY <2>1 DEF Below, Files
    <2> QED
      BY <1>0, <2>1, <2>2, <2>3, <2>4 DEF Course
  <1> QED
    BY <1>1, <1>2

LEMMA RefuseKeeps ==
    ASSUME IInv, NEW p \in Processes, Refuse(p)
    PROVE  Local(p)' /\ Course(p)'
  <1>1. before'[p] # None => Unchanged(p)'
    BY DEF IInv, Refuse, Course, Unchanged
  <1> QED
    BY <1>1, ReturnUnchanged DEF Refuse

LEMMA ReadKeeps ==
    ASSUME IInv, NEW p \in Processes, Read(p)
    PROVE  Local(p)' /\ Course(p)'
  <1> PICK a \in FilesOf : a = at[p]
    BY DEF IInv, Local
  <1>0. /\ kind' = kind /\ file' = file /\ before' = before /\ setting' = setting
        /\ pc[p] = "read" /\ a \in FilesOf /\ FilesOf' = FilesOf
        /\ 1 \in FilesOf /\ FilesOf \subseteq Files /\ Files \subseteq Nat
        /\ \A f \in FilesOf : f <= End
        /\ \A f \in FilesOf : f < End => f + 1 \in FilesOf
        /\ End \in Nat
    BY List DEF IInv, TypeOK, Read, Local, FilesOf
  <1>1. \/ a < End /\ pc'[p] = "read" /\ at'[p] = a + 1
        \/ ~(a < End) /\ pc'[p] = "write" /\ at'[p] = 1
    BY <1>0 DEF IInv, TypeOK, Read, Goto
  <1>2. \A f \in Files \ {a} : original'[p][f] = original[p][f]
    BY <1>0 DEF IInv, TypeOK, Read
  <1>3. Local(p)'
    BY <1>0, <1>1 DEF Local
  <1>4. ASSUME before[p] # None
        PROVE  Course(p)'
    <2>0. /\ Faithful(p) /\ file = before[p]
          /\ \A f \in Below(p) : Passed(p, f)
      BY <1>0, <1>4 DEF IInv, Course
    <2>1. \/ ToChange(p, a) /\ original'[p][a] = file[a]
          \/ kind = "several" /\ ~ToChange(p, a) /\ original'[p][a] = original[p][a]
      BY <1>0 DEF IInv, TypeOK, Read
    <2>2. file[a] # None
      BY <1>0, ContentsAreSome DEF IInv, TypeOK
    <2>3. Faithful(p)'
      BY <1>0, <1>2, <2>0, <2>1 DEF Faithful, ToChange, Files
    <2>4. Passed(p, a)'
      BY <1>0, <2>0, <2>1, <2>2 DEF Passed, ToChange
    <2>5. \A f \in Below(p) : Passed(p, f)'
      BY <1>0, <1>2, <2>0 DEF Passed, Below
    <2>6. CASE a < End /\ pc'[p] = "read" /\ at'[p] = a + 1
      <3>1. \A f \in Below(p)' : f = a \/ f \in Below(p)
        BY <1>0, <2>6 DEF Below, Files
      <3>2. (\A f \in Below(p) : Passed(p, f))'
        BY <2>4, <2>5, <3>1
      <3> QED
        BY <1>0, <2>0, <2>3, <2>6, <3>2 DEF Course
    <2>7. CASE ~(a < End) /\ pc'[p] = "write" /\ at'[p] = 1
      <3>1. \A f \in FilesOf : f = a \/ f \in Below(p)
        <4>1. ASSUME NEW f \in FilesOf, f # a PROVE f \in Below(p)
          <5>1. f \in Files /\ f \in Nat /\ a \in Nat /\ f <= End /\ a <= End
            BY <1>0
          <5>2. f < a
            BY <1>0, <2>7, <4>1, <5>1
          <5> QED
            BY <5>1, <5>2 DEF Below
        <4> QED
          BY <4>1
      <3>2. (\A f \in FilesOf : Passed(p, f))'
        BY <1>0, <2>4, <2>5, <3>1
      <3>3. Below(p)' = {}
        BY <2>7 DEF Below, Files
      <3>4. Written(p, Below(p))'
        BY <1>0, <2>0, <3>3 DEF Written
      <3> QED
        BY <1>0, <2>3, <2>7, <3>2, <3>4 DEF Course
    <2> QED
      BY <1>1, <2>6, <2>7
  <1> QED
    BY <1>0, <1>3, <1>4 DEF Course

LEMMA WriteKeeps ==
    ASSUME IInv, NEW p \in Processes, Write(p)
    PROVE  Local(p)' /\ Course(p)'
  <1> PICK a \in FilesOf : a = at[p]
    BY DEF IInv, Local
  <1>0. /\ kind' = kind /\ original' = original /\ setting' = setting
        /\ pc[p] = "write" /\ FilesOf' = FilesOf
        /\ 1 \in FilesOf /\ FilesOf \subseteq Files /\ Files \subseteq Nat
        /\ \A f \in FilesOf : f <= End
        /\ \A f \in FilesOf : f < End => f + 1 \in FilesOf
        /\ End \in FilesOf
    BY List DEF IInv, TypeOK, Write, FilesOf
  <1>1. \/ a < End /\ pc'[p] = "write" /\ at'[p] = a + 1
        \/ ~(a < End) /\ pc'[p] = "validate" /\ at'[p] = End
    BY <1>0 DEF IInv, TypeOK, Write, Goto
  <1>2. Local(p)'
    BY <1>0, <1>1 DEF Local
  <1>3. ASSUME before'[p] # None
        PROVE  Course(p)'
    <2>1. before'[p] = before[p] /\ before[p] # None
      BY <1>3 DEF IInv, TypeOK, Write, Change
    <2>2. /\ Faithful(p) /\ Written(p, Below(p))
          /\ \A f \in FilesOf : Passed(p, f)
      BY <1>0, <2>1 DEF IInv, Course
    <2>3. Faithful(p)' /\ (\A f \in FilesOf : Passed(p, f))'
      BY <1>0, <2>1, <2>2 DEF Faithful, Passed, Files
    <2>4. \A f \in Files : Updated(p, f)' = Updated(p, f)
      BY <1>0 DEF Updated
    <2>5. \A f \in Files \ {a} : file'[f] = file[f]
      BY DEF IInv, TypeOK, Write, Change
    <2>6. file'[a] = IF original[p][a] # None THEN Updated(p, a) ELSE file[a]
      BY <1>0 DEF IInv, TypeOK, Write, Writable, Change
    <2>7. \A f \in Files :
             file'[f] = IF f <= a /\ original[p][f] # None THEN Updated(p, f)
                        ELSE before[p][f]
      <3> SUFFICES ASSUME NEW f \in Files
                   PROVE  file'[f] = IF f <= a /\ original[p][f] # None
                                     THEN Updated(p, f) ELSE before[p][f]
        OBVIOUS
      <3>1. f < a <=> f \in Below(p)
        BY DEF Below
      <3>2. file[f] = IF f \in Below(p) /\ original[p][f] # None THEN Updated(p, f)
                      ELSE before[p][f]
        BY <2>2 DEF Written
      <3>3. f \in Nat /\ a \in Nat
        BY <1>0
      <3>4. CASE f = a
        BY <2>6, <3>1, <3>2, <3>3, <3>4
      <3>5. CASE f # a
        BY <2>5, <3>1, <3>2, <3>3, <3>5
      <3> QED
        BY <3>4, <3>5
    <2>8. CASE a < End /\ pc'[p] = "write" /\ at'[p] = a + 1
      <3>1. \A f \in Files : f \in Below(p)' <=> f <= a
        BY <1>0, <2>8 DEF Below, Files
      <3>2. Written(p, Below(p))'
        BY <1>0, <2>1, <2>4, <2>7, <3>1 DEF Written, Files
      <3> QED
        BY <1>0, <2>3, <2>8, <3>2 DEF Course
    <2>9. CASE ~(a < End) /\ pc'[p] = "validate" /\ at'[p] = End
      <3>1. ASSUME NEW f \in Files, original[p][f] # None PROVE f <= a
        <4>1. f \in FilesOf
          BY <2>2, <3>1 DEF Faithful
        <4>2. f \in Nat /\ a \in Nat /\ End \in Nat /\ f <= End /\ a <= End
          BY <1>0, <4>1
        <4> QED
          BY <2>9, <4>2
      <3>2. Written(p, Files)'
        BY <1>0, <2>1, <2>4, <2>7, <3>1 DEF Written, Files
      <3> QED
        BY <1>0, <2>3, <2>9, <3>2 DEF Course
    <2> QED
      BY <1>1, <2>8, <2>9
  <1> QED
    BY <1>2, <1>3 DEF Course

LEMMA WriteFailsKeeps ==
    ASSUME IInv, NEW p \in Processes, WriteFails(p)
    PROVE  Local(p)' /\ Course(p)'
  <1> PICK a \in FilesOf : a = at[p]
    BY DEF IInv, Local
  <1>0. /\ kind' = kind /\ file' = file /\ before' = before /\ setting' = setting
        /\ pc[p] = "write" /\ FilesOf' = FilesOf
        /\ FilesOf \subseteq Files /\ Files \subseteq Nat
        /\ \A f \in FilesOf : f # 1 => f - 1 \in FilesOf
    BY List DEF IInv, TypeOK, WriteFails, FilesOf
  <1>1. before[p] # None =>
            Faithful(p) /\ Written(p, Below(p))
    BY <1>0 DEF IInv, Course
  <1>2. CASE a = 1
    <2>1. Return(p, "Error")
      BY <1>2 DEF WriteFails
    <2>2. Below(p) = {}
      BY <1>2 DEF Below, Files
    <2>3. before[p] # None => Unchanged(p)
      BY <1>1, <2>2, SameFiles DEF Written, IInv
    <2>4. before'[p] # None => Unchanged(p)'
      BY <1>0, <2>3 DEF Unchanged
    <2> QED
      BY <1>0, <2>1, <2>4, ReturnUnchanged
  <1>3. CASE a # 1
    <2>1. /\ pc'[p] = "undo" /\ at'[p] = a - 1 /\ original' = original
          /\ result'[p] = "Error"
      BY <1>3 DEF IInv, TypeOK, WriteFails, Goto
    <2>2. Local(p)'
      BY <1>0, <1>3, <2>1 DEF Local
    <2>3. ASSUME before[p] # None PROVE Faithful(p)' /\ Written(p, UpTo(p))'
      <3>1. UpTo(p)' = Below(p)
        BY <1>0, <2>1 DEF UpTo, Below, Files
      <3>2. \A f \in Files : Updated(p, f)' = Updated(p, f)
        BY <1>0, <2>1 DEF Updated
      <3> QED
        BY <1>0, <1>1, <2>1, <2>3, <3>1, <3>2 DEF Faithful, Written, Files
    <2> QED
      BY <1>0, <2>1, <2>2, <2>3 DEF Course
  <1> QED
    BY <1>2, <1>3

LEMMA ValidateKeeps ==
    ASSUME IInv, NEW p \in Processes, Validate(p)
    PROVE  Local(p)' /\ Course(p)'
  <1>0. /\ kind' = kind /\ file' = file /\ before' = before /\ setting' = setting
        /\ pc[p] = "validate" /\ FilesOf' = FilesOf
        /\ 1 \in FilesOf /\ End \in FilesOf
        /\ FilesOf \subseteq Files /\ Files \subseteq Nat
        /\ \A f \in FilesOf : f <= End
    BY List DEF IInv, TypeOK, Validate, FilesOf
  <1>1. before[p] # None =>
            Faithful(p) /\ Written(p, Files) /\ \A f \in FilesOf : Passed(p, f)
    BY <1>0 DEF IInv, Course
  <1> PICK r \in Results :
             \/ (r = "Compliant" \/ kind = "several") /\ Return(p, r)
             \/ /\ r # "Compliant" /\ Goto(p, "undo", End) /\ UNCHANGED original
                /\ result' = [result EXCEPT ![p] = r]
    BY DEF Validate
  <1>2. CASE (r = "Compliant" \/ kind = "several") /\ Return(p, r)
    <2>1. /\ pc'[p] = "done" /\ at'[p] = 1 /\ original'[p] = Nothing /\ result'[p] = r
      BY <1>2 DEF IInv, TypeOK, Return, Goto
    <2>2. Local(p)'
      BY <1>0, <2>1 DEF Local, Nothing
    <2>3. Faithful(p)'
      BY <2>1 DEF Faithful, Nothing
    <2>4. before[p] # None => Established(p)
      BY <1>0, <1>1 DEF Faithful, Written, Passed, Updated, Established, Wanted
    <2>5. before'[p] # None => Established(p)'
      BY <1>0, <2>4 DEF Established, Wanted
    <2>6. before'[p] # None => Answered(p)'
      BY <1>0, <1>2, <2>1, <2>5 DEF Answered
    <2>7. before'[p] # None => Each(p)'
      BY <2>5 DEF Established, Each
    <2> QED
      BY <2>1, <2>2, <2>3, <2>6, <2>7 DEF Course
  <1>3. CASE /\ r # "Compliant" /\ Goto(p, "undo", End) /\ UNCHANGED original
             /\ result' = [result EXCEPT ![p] = r]
    <2>1. pc'[p] = "undo" /\ at'[p] = End /\ original' = original /\ result'[p] = r
      BY <1>3 DEF IInv, TypeOK, Goto
    <2>2. Local(p)'
      BY <1>0, <1>3, <2>1 DEF Local, Results
    <2>3. ASSUME before[p] # None PROVE Faithful(p)' /\ Written(p, UpTo(p))'
      <3>1. \A f \in Files : original[p][f] # None => f \in UpTo(p)'
        BY <1>0, <1>1, <2>1, <2>3 DEF UpTo, Files, Faithful
      <3>2. \A f \in Files : Updated(p, f)' = Updated(p, f)
        BY <1>0, <2>1 DEF Updated
      <3>3. Faithful(p)'
        BY <1>0, <1>1, <2>1, <2>3 DEF Faithful, Files
      <3>4. Written(p, UpTo(p))'
        BY <1>0, <1>1, <2>1, <2>3, <3>1, <3>2 DEF Written, Files
      <3> QED
        BY <3>3, <3>4
    <2> QED
      BY <1>0, <2>1, <2>2, <2>3 DEF Course
  <1> QED
    BY <1>2, <1>3

LEMMA UndoKeeps ==
    ASSUME IInv, NEW p \in Processes, Undo(p), TypeOK'
    PROVE  Local(p)' /\ Course(p)'
  <1> PICK a \in FilesOf : a = at[p]
    BY DEF IInv, Local
  <1>0. /\ kind' = kind /\ setting' = setting
        /\ pc[p] = "undo" /\ FilesOf' = FilesOf
        /\ FilesOf \subseteq Files /\ Files \subseteq Nat
        /\ \A f \in FilesOf : f # 1 => f - 1 \in FilesOf
        /\ before'[p] = before[p]
    BY List DEF IInv, TypeOK, Undo, WriteBack, Change, FilesOf
  <1>1. /\ \A f \in Files \ {a} : file'[f] = file[f]
        /\ file'[a] = IF original[p][a] # None THEN original[p][a] ELSE file[a]
    BY <1>0 DEF IInv, TypeOK, Undo, WriteBack, Change
  <1>2. ASSUME before[p] # None
        PROVE  /\ Faithful(p)
               /\ \A f \in Files :
                    file'[f] = IF f < a /\ original[p][f] # None THEN Updated(p, f)
                               ELSE before[p][f]
    <2>1. Faithful(p) /\ Written(p, UpTo(p))
      BY <1>0, <1>2 DEF IInv, Course
    <2> SUFFICES ASSUME NEW f \in Files
                 PROVE  file'[f] = IF f < a /\ original[p][f] # None
                                   THEN Updated(p, f) ELSE before[p][f]
      BY <2>1
    <2>2. f \in Nat /\ a \in Nat
      BY <1>0
    <2>3. file[f] = IF f <= a /\ original[p][f] # None THEN Updated(p, f)
                    ELSE before[p][f]
      BY <2>1 DEF Written, UpTo
    <2>4. CASE f = a
      BY <1>1, <2>1, <2>2, <2>3, <2>4 DEF Faithful
    <2>5. CASE f # a
      BY <1>1, <2>2, <2>3, <2>5
    <2> QED
      BY <2>4, <2>5
  <1>3. CASE a = 1
    <2>1. Return(p, result[p])
      BY <1>3 DEF Undo
    <2>2. ASSUME before[p] # None PROVE Unchanged(p)'
      <3>1. \A f \in Files : ~(f < a)
        BY <1>3 DEF Files
      <3>2. \A f \in Files : file'[f] = before'[p][f]
        BY <1>0, <1>2, <2>2, <3>1
      <3>3. file' \in [Files -> Contents] /\ before'[p] \in [Files -> Contents]
        BY <1>0, <2>2 DEF TypeOK, IInv, Files, Contents
      <3>4. file' = before'[p]
        BY <3>2, <3>3
      <3> QED
        BY <3>4 DEF Unchanged
    <2> QED
      BY <1>0, <2>1, <2>2, ReturnUnchanged
  <1>4. CASE a # 1
    <2>1. /\ pc'[p] = "undo" /\ at'[p] = a - 1
          /\ original' = original /\ result' = result
      BY <1>4 DEF IInv, TypeOK, Undo, Goto
    <2>2. Local(p)'
      BY <1>0, <1>4, <2>1 DEF IInv, Local
    <2>3. ASSUME before[p] # None PROVE Faithful(p)' /\ Written(p, UpTo(p))'
      <3>1. \A f \in Files : f \in UpTo(p)' <=> f < a
        BY <1>0, <2>1 DEF UpTo, Files
      <3>2. \A f \in Files : Updated(p, f)' = Updated(p, f)
        BY <1>0, <2>1 DEF Updated
      <3>3. Faithful(p)'
        BY <1>0, <1>2, <2>1, <2>3 DEF Faithful, Files
      <3>4. Written(p, UpTo(p))'
        BY <1>0, <1>2, <2>1, <2>3, <3>1, <3>2 DEF Written, Files
      <3> QED
        BY <3>3, <3>4
    <2> QED
      BY <1>0, <2>1, <2>2, <2>3 DEF Course
  <1> QED
    BY <1>3, <1>4

LEMMA RemoveCreatedConfigKeeps ==
    ASSUME IInv, NEW p \in Processes, RemoveCreatedConfig(p)
    PROVE  Local(p)' /\ Course(p)'
  <1>0. /\ UNCHANGED <<kind, file, setting, original, result, before>>
        /\ pc[p] = "undo" /\ pc'[p] = "unlink" /\ at'[p] = at[p]
        /\ original[p][at[p]] = Absent
        /\ FilesOf' = FilesOf /\ UpTo(p)' = UpTo(p)
    BY DEF IInv, TypeOK, RemoveCreatedConfig, Goto, FilesOf, UpTo, Files
  <1>1. Local(p)'
    BY <1>0 DEF IInv, Local
  <1>2. ASSUME before[p] # None PROVE Faithful(p)' /\ Written(p, UpTo(p))'
    <2>1. Faithful(p) /\ Written(p, UpTo(p))
      BY <1>0, <1>2 DEF IInv, Course
    <2>2. \A f \in Files : Updated(p, f)' = Updated(p, f)
      BY <1>0 DEF Updated
    <2> QED
      BY <1>0, <2>1, <2>2 DEF Faithful, Written, Files
  <1> QED
    BY <1>0, <1>1, <1>2 DEF Course

LEMMA UnlinkKeeps ==
    ASSUME IInv, NEW p \in Processes, Unlink(p), TypeOK'
    PROVE  Local(p)' /\ Course(p)'
  <1> PICK a \in FilesOf : a = at[p]
    BY DEF IInv, Local
  <1>0. /\ kind' = kind /\ pc[p] = "unlink" /\ Return(p, result[p])
        /\ original[p][a] = Absent
        /\ FilesOf \subseteq Files /\ Files \subseteq Nat
        /\ before'[p] = before[p]
    BY List DEF IInv, TypeOK, Unlink, Change, Local
  <1>1. file'[a] = Absent /\ \A f \in Files \ {a} : file'[f] = file[f]
    BY <1>0 DEF IInv, TypeOK, Unlink, Change
  <1>2. ASSUME before[p] # None PROVE Unchanged(p)'
    <2>1. Faithful(p) /\ Written(p, UpTo(p))
      BY <1>0, <1>2 DEF IInv, Course
    <2>2. original[p][a] = before[p][a] /\ kind = "managed"
      BY <1>0, <2>1, RemediationAssumption DEF Faithful
    <2>3. FilesOf = {1}
      BY <2>2 DEF FilesOf
    <2>4. \A f \in Files : file'[f] = before'[p][f]
      BY <1>0, <1>1, <2>1, <2>2, <2>3 DEF Faithful, Written
    <2>5. file' \in [Files -> Contents] /\ before'[p] \in [Files -> Contents]
      BY <1>0, <1>2 DEF TypeOK, IInv, Files, Contents
    <2>6. file' = before'[p]
      BY <2>4, <2>5
    <2> QED
      BY <2>6 DEF Unchanged
  <1> QED
    BY <1>0, <1>2, ReturnUnchanged

LEMMA UndoFailsKeeps ==
    ASSUME IInv, NEW p \in Processes, UndoFails(p)
    PROVE  Local(p)' /\ Course(p)'
  <1>1. /\ pc'[p] = "done" /\ at'[p] = 1 /\ original'[p] = Nothing
        /\ result'[p] = "RollbackFailed"
        /\ FilesOf' = FilesOf /\ 1 \in FilesOf
    BY List DEF IInv, TypeOK, UndoFails, Return, Goto, FilesOf
  <1>2. Local(p)'
    BY <1>1 DEF Local, Nothing
  <1>3. Faithful(p)'
    BY <1>1 DEF Faithful, Nothing
  <1>4. before'[p] # None => Each(p)'
    BY <1>1, CourseEach DEF UndoFails, Each, Wanted
  <1> QED
    BY <1>1, <1>2, <1>3, <1>4 DEF Course, Answered

LEMMA KillKeeps ==
    ASSUME IInv, NEW p \in Processes, Kill(p)
    PROVE  Local(p)' /\ Course(p)'
  <1>1. /\ pc'[p] = "idle" /\ at'[p] = 1 /\ original'[p] = Nothing
        /\ before' = before /\ FilesOf' = FilesOf /\ 1 \in FilesOf
    BY List DEF IInv, TypeOK, Kill, Goto, FilesOf
  <1>2. Local(p)'
    BY <1>1 DEF Local, Nothing
  <1>3. Faithful(p)'
    BY <1>1 DEF Faithful, Nothing
  <1>4. before'[p] # None => Each(p)'
    BY <1>1, CourseEach DEF Kill, Each, Wanted
  <1> QED
    BY <1>1, <1>2, <1>3, <1>4 DEF Course

-----------------------------------------------------------------------------
(***************************************************************************)
(* The theorems.                                                           *)
(***************************************************************************)

THEOREM NextIInv ==
    ASSUME IInv, [Next]_vars
    PROVE  IInv'
  <1>1. CASE UNCHANGED vars
    <2>1. TypeOK'
      BY <1>1 DEF IInv, TypeOK, vars, Files, Contents, Results
    <2>2. ASSUME NEW q \in Processes PROVE Local(q)' /\ Course(q)'
      <3>1. Aside(q)
        BY <1>1 DEF vars, Aside
      <3> QED
        BY <3>1, AsideKeeps DEF IInv
    <2> QED
      BY <2>1, <2>2 DEF IInv
  <1>2. CASE Foreign
    <2>1. TypeOK'
      BY <1>2, NextType DEF Next
    <2>2. ASSUME NEW q \in Processes PROVE Local(q)' /\ Course(q)'
      <3>1. Aside(q)
        BY <1>2 DEF Foreign, Change, Aside
      <3> QED
        BY <3>1, AsideKeeps DEF IInv
    <2> QED
      BY <2>1, <2>2 DEF IInv
  <1>3. ASSUME NEW p \in Processes, Remediate(p) \/ Kill(p)
        PROVE  IInv'
    <2>1. TypeOK'
      BY <1>3, NextType DEF Next
    <2>2. ASSUME NEW q \in Processes, q # p PROVE Local(q)' /\ Course(q)'
      <3>1. Aside(q)
        BY <1>3, <2>2, Others
      <3> QED
        BY <3>1, AsideKeeps DEF IInv
    <2>3. Local(p)' /\ Course(p)'
      BY <1>3, <2>1, CallKeeps, FirstAuditKeeps, ReadKeeps, RefuseKeeps, WriteKeeps,
         WriteFailsKeeps, ValidateKeeps, UndoKeeps, RemoveCreatedConfigKeeps,
         UnlinkKeeps, UndoFailsKeeps, KillKeeps
      DEF Remediate
    <2>4. \A q \in Processes : Local(q)' /\ Course(q)'
      BY <2>2, <2>3
    <2> QED
      BY <2>1, <2>4 DEF IInv
  <1> QED
    BY <1>1, <1>2, <1>3 DEF Next

THEOREM Inductive == Spec => []IInv
  BY InitIInv, NextIInv, PTL DEF Spec

\* The variables keep their types.
THEOREM TypeCorrect == Spec => []TypeOK
  <1>1. IInv => TypeOK
    BY DEF IInv
  <1> QED
    BY <1>1, Inductive, PTL

\* A remediation of one file that fails leaves it as it was.
THEOREM FailureRestoresCorrect == Spec => []FailureRestores
  <1>1. IInv => FailureRestores
    BY DEF IInv, Course, Answered, FailureRestores, Undisturbed
  <1> QED
    BY <1>1, Inductive, PTL

\* Unless a roll back failed, all files have the setting or all are as before.
THEOREM AllOrNothingCorrect == Spec => []AllOrNothing
  <1>1. IInv => AllOrNothing
    BY DEF IInv, Course, Answered, AllOrNothing, Undisturbed
  <1> QED
    BY <1>1, Inductive, PTL

\* Each file by itself is as it was or has the one setting more, also when the
\* process died or its roll back failed.
THEOREM EachOldOrWantedCorrect == Spec => []EachOldOrWanted
  <1>1. IInv => EachOldOrWanted
    BY CourseEach DEF Each, EachOldOrWanted
  <1> QED
    BY <1>1, Inductive, PTL
=============================================================================
