----------------------- MODULE TemporaryDirectoryProofs ---------------------
(***************************************************************************)
(* Proofs that the state directory of kompli is removed by its last owner, *)
(* from nowhere but inside it, not reported as removed when it is still    *)
(* there, and removed when nobody disturbs that, for any number of names,  *)
(* files, directories, objects and steps of others, and any depth.         *)
(***************************************************************************)
EXTENDS TemporaryDirectory, SequenceTheorems, WellFoundedInduction, TLAPS

-----------------------------------------------------------------------------
(***************************************************************************)
(* The inductive invariant.                                                *)
(***************************************************************************)
Making == {"make", "mkdir", "openroot", "unmake", "failed"}
Contents == {"open", "read", "unlink", "descend", "rmdir"}

\* A thing is at one place, and the parent at none.
OnePlace ==
    /\ \A c, d \in Dirs : \A m, n \in Names :
        entry[c][m] # None /\ entry[c][m] = entry[d][n] => c = d /\ m = n
    /\ \A d \in Dirs : \A n \in Names : entry[d][n] # Parent

\* What was inside is remembered with all that is in it.
InsideClosed ==
    /\ \A d \in inside : d \in Dirs => \A n \in Names : entry[d][n] \in inside \cup {None}
    /\ root # None => root \in inside /\ root # Parent

\* The calls of RemoveContents work on directories that were inside.
Own == {f \in Frame : f.dir \in inside /\ f.dir # Parent}

Calls ==
    /\ stack \in Seq(Own)
    /\ pc \in Contents <=> stack # << >>
    /\ pc = "descend" => Len(stack) <= MaxDepth

Phase ==
    /\ pc \in Making => root = None /\ objects = [o \in 1 .. Handles |-> "none"]
    /\ pc \notin Making => root \in Dirs
    /\ pc = "inspect" => attempt < 2

\* From the inspection on the name is that of the directory, unless it was moved.
Named ==
    pc \in Removing \ {"inspect"} /\ ~swapped => entry[Parent][Name] = root

\* One object owns the directory.
Owner ==
    /\ \A o, p \in 1 .. Handles :
        objects[o] \in {"held", "removing"} /\ objects[p] \in {"held", "removing"} => o = p
    /\ pc \in Removing <=> \E o \in 1 .. Handles : objects[o] = "removing"

Inv ==
    /\ TypeOK /\ OnePlace /\ InsideClosed /\ Calls /\ Phase /\ Named /\ Owner
    /\ SuccessIsGone

-----------------------------------------------------------------------------
(***************************************************************************)
(* What the operations on directories do.                                  *)
(***************************************************************************)

EntryType == entry \in [Dirs -> [Names -> Things \cup {None}]]

\* The tree of a thing holds it, and with a directory its entries.
LEMMA TreeClosed ==
    ASSUME EntryType, NEW x \in Things
    PROVE  /\ x \in Tree(x) /\ Tree(x) \subseteq Things
           /\ \A c \in Tree(x) : c \in Dirs => \A n \in Names : entry[c][n] \in Tree(x) \cup {None}
<1>1. Below(x) \subseteq Dirs
  BY DEF Below
<1>2. x \in Tree(x)
  BY DEF Tree
<1>3. Tree(x) \subseteq Things
  <2>1. \A c \in Below(x) : \A n \in Names : entry[c][n] \in Things \cup {None}
    BY <1>1 DEF EntryType
  <2> QED
    BY <2>1 DEF Tree
<1>4. ASSUME NEW c \in Tree(x), c \in Dirs, NEW n \in Names
      PROVE  entry[c][n] \in Tree(x) \cup {None}
  <2>1. x \in Dirs
    BY <1>4 DEF Tree
  <2>2. c \in Below(x)
    <3>1. CASE c = x
      BY <2>1, <3>1 DEF Below
    <3>2. CASE c # x
      <4>1. PICK k \in Below(x), m \in Names : c = entry[k][m]
        BY <2>1, <3>2 DEF Tree
      <4> QED
        BY <1>1, <1>4, <4>1 DEF Below
    <3> QED
      BY <3>1, <3>2
  <2> QED
    BY <2>1, <2>2 DEF Tree
<1> QED
  BY <1>2, <1>3, <1>4

\* A thing that is put somewhere is inside if the directory is.
LEMMA EntersClosed ==
    ASSUME EntryType, InsideClosed, inside \subseteq Things, root' = root,
           NEW x \in Things, NEW d \in Dirs, NEW n \in Names, Enters(x, d), EntryType',
           \A c \in Dirs : \A m \in Names :
                \/ c = d /\ m = n /\ entry'[c][m] = x
                \/ ~(c = d /\ m = n) /\ entry'[c][m] \in {entry[c][m], None}
    PROVE  InsideClosed' /\ inside \subseteq inside' /\ inside' \subseteq Things
<1>1. inside' = inside \/ (d \in inside /\ inside' = inside \cup Tree(x))
  BY DEF Enters
<1>2. inside \subseteq inside' /\ inside' \subseteq Things
  BY <1>1, TreeClosed
<1>3. d \in inside => x \in inside'
  BY TreeClosed DEF Enters
<1>4. ASSUME NEW c \in inside', c \in Dirs, NEW m \in Names
      PROVE  entry'[c][m] \in inside' \cup {None}
  <2>1. CASE c = d /\ m = n
    <3>1. d \in inside
      BY <1>1, <1>4, <2>1 DEF Enters
    <3> QED
      BY <1>3, <2>1, <3>1
  <2>2. CASE ~(c = d /\ m = n)
    <3>1. entry[c][m] \in inside' \cup {None}
      <4>1. CASE c \in inside
        BY <1>2, <1>4, <4>1 DEF InsideClosed
      <4>2. CASE c \notin inside
        <5>1. inside' = inside \cup Tree(x) /\ c \in Tree(x)
          BY <1>1, <1>4, <4>2
        <5> QED
          BY <1>4, <5>1, TreeClosed
      <4> QED
        BY <4>1, <4>2
    <3> QED
      BY <1>4, <2>2, <3>1
  <2> QED
    BY <2>1, <2>2
<1> QED
  BY <1>2, <1>4 DEF InsideClosed

\* A call that has failed is still one.
LEMMA FailedType == ASSUME NEW f \in Own PROVE Failed(f) \in Own
<1>1. f \in Frame /\ f.dir \in inside /\ f.dir # Parent
  BY DEF Own
<1>2. Failed(f) \in Frame /\ Failed(f).dir = f.dir
  BY <1>1 DEF Failed, Frame
<1> QED
  BY <1>1, <1>2 DEF Own

\* The stack of calls.
LEMMA StackType ==
    ASSUME NEW S, stack \in Seq(S), stack # << >>
    PROVE  /\ Len(stack) \in Nat \ {0} /\ Top \in S
           /\ Rest \in Seq(S) /\ Len(Rest) = Len(stack) - 1
           /\ \A f \in S : Rest \o <<f>> \in Seq(S) /\ Len(Rest \o <<f>>) = Len(stack)
           /\ \A f \in S : Append(stack, f) \in Seq(S) /\ Len(Append(stack, f)) = Len(stack) + 1
<1>1. Len(stack) \in Nat \ {0} /\ Top \in S
  BY DEF Top
<1>2. Rest \in Seq(S) /\ Len(Rest) = Len(stack) - 1
  <2>1. PICK k \in Nat : k = Len(stack) - 1
    BY <1>1
  <2>2. \A j \in 1 .. k : stack[j] \in S
    BY <2>1
  <2>3. SubSeq(stack, 1, k) \in Seq(S)
    BY <2>2, SubSeqProperties
  <2>4. Len(SubSeq(stack, 1, k)) = k
    BY <2>1, <2>2, SubSeqProperties
  <2> QED
    BY <2>1, <2>3, <2>4 DEF Rest
<1>3. ASSUME NEW f \in S
      PROVE  Rest \o <<f>> \in Seq(S) /\ Len(Rest \o <<f>>) = Len(stack)
  BY <1>1, <1>2
<1> QED
  BY <1>1, <1>2, <1>3, AppendProperties

\* Returning to the caller takes one call off the stack.
LEMMA ReturnType ==
    ASSUME NEW ok, stack \in Seq(Own), stack # << >>, Return(ok), ok \in BOOLEAN,
           result \in BOOLEAN
    PROVE  /\ stack' \in Seq(Own) /\ Len(stack') = Len(stack) - 1 /\ Len(stack) \in Nat
           /\ result' \in BOOLEAN
           /\ \/ pc' = "finish" /\ stack' = << >>
              \/ pc' = "rmdir" /\ stack' # << >>
<1>1. /\ Len(stack) \in Nat \ {0} /\ Rest \in Seq(Own) /\ Len(Rest) = Len(stack) - 1
      /\ Depth = Len(Rest)
  BY StackType DEF Depth
<1>2. CASE Depth = 0
  BY <1>1, <1>2 DEF Return, Goto
<1>3. CASE Depth # 0
  <2>1. pc' = "rmdir" /\ result' = result
        /\ stack' = IF ok THEN Rest
                    ELSE SubSeq(Rest, 1, Depth - 1) \o <<Failed(Rest[Depth])>>
    BY <1>3 DEF Return, Goto
  <2>2. PICK r \in Seq(Own), k \in Nat \ {0} : r = Rest /\ k = Depth /\ Len(r) = k
    BY <1>1, <1>3
  <2>3. r[k] \in Own /\ Failed(r[k]) \in Own
    BY <2>2, FailedType
  <2>4. SubSeq(r, 1, k - 1) \in Seq(Own) /\ Len(SubSeq(r, 1, k - 1)) = k - 1
    BY <2>2, SubSeqProperties
  <2>5. SubSeq(r, 1, k - 1) \o <<Failed(r[k])>> \in Seq(Own)
        /\ Len(SubSeq(r, 1, k - 1) \o <<Failed(r[k])>>) = k
    BY <2>2, <2>3, <2>4
  <2>6. stack' \in Seq(Own) /\ Len(stack') = k
    BY <2>1, <2>2, <2>5
  <2> QED
    BY <1>1, <2>1, <2>2, <2>6
<1> QED
  BY <1>2, <1>3

\* An entry is removed.
LEMMA UnbindKeeps ==
    ASSUME EntryType, OnePlace, InsideClosed, NEW d \in Dirs, NEW n \in Names, Unbind(d, n),
           root' = root
    PROVE  /\ EntryType' /\ OnePlace' /\ InsideClosed' /\ inside' = inside
           /\ \A c \in Dirs : \A m \in Names :
                entry'[c][m] = IF c = d /\ m = n THEN None ELSE entry[c][m]
<1>1. /\ entry' = [entry EXCEPT ![d][n] = None] /\ inside' = inside
  BY DEF Unbind
<1>2. /\ EntryType'
      /\ \A c \in Dirs : \A m \in Names :
            entry'[c][m] = IF c = d /\ m = n THEN None ELSE entry[c][m]
  BY <1>1 DEF EntryType
<1>3. None # Parent
  BY DirectoryAssumption
<1>4. OnePlace'
  BY <1>2, <1>3 DEF OnePlace
<1>5. InsideClosed'
  BY <1>1, <1>2 DEF InsideClosed
<1> QED
  BY <1>1, <1>2, <1>4, <1>5

\* Something new is created.
LEMMA BindKeeps ==
    ASSUME EntryType, OnePlace, InsideClosed, inside \subseteq Things,
           NEW d \in Dirs, NEW n \in Names, NEW x \in Things, Fresh(x), Bind(d, n, x),
           root' = root
    PROVE  /\ EntryType' /\ OnePlace' /\ InsideClosed'
           /\ inside \subseteq inside' /\ inside' \subseteq Things
           /\ \A c \in Dirs : \A m \in Names :
                entry'[c][m] = IF c = d /\ m = n THEN x ELSE entry[c][m]
<1>1. /\ entry' = [entry EXCEPT ![d][n] = x] /\ Enters(x, d)
  BY DEF Bind
<1>2. /\ EntryType'
      /\ \A c \in Dirs : \A m \in Names :
            entry'[c][m] = IF c = d /\ m = n THEN x ELSE entry[c][m]
  BY <1>1 DEF EntryType
<1>3. x # Parent /\ \A c \in Dirs : \A m \in Names : entry[c][m] # x
  BY DEF Fresh, Linked, OpenDirs
<1>4. OnePlace'
  BY <1>2, <1>3 DEF OnePlace
<1>5. InsideClosed' /\ inside \subseteq inside' /\ inside' \subseteq Things
  BY <1>1, <1>2, EntersClosed
<1> QED
  BY <1>2, <1>4, <1>5

-----------------------------------------------------------------------------
\* At first there is one directory, at some other name of the parent.
LEMMA InitInv == Init => Inv
<1> SUFFICES ASSUME Init PROVE Inv
  OBVIOUS
<1>1. PICK d \in Dirs \ {Parent}, n \in Names \ {Name} :
        entry = [c \in Dirs |-> [m \in Names |-> IF c = Parent /\ m = n THEN d ELSE None]]
  BY DEF Init
<1>2. /\ pc = "make" /\ root = None /\ objects = [o \in 1 .. Handles |-> "none"]
      /\ stack = << >> /\ attempt = 0 /\ result = TRUE
      /\ disturbed = 0 /\ inside = {} /\ calm = TRUE /\ swapped = FALSE
  BY DEF Init
<1>3. \A c \in Dirs : \A m \in Names : entry[c][m] = IF c = Parent /\ m = n THEN d ELSE None
  BY <1>1
<1>4. EntryType
  BY <1>1 DEF EntryType, Things
<1>5. OnePlace
  BY <1>3, DirectoryAssumption DEF OnePlace
<1>6. stack \in Seq(Own) /\ stack \in Seq(Frame) /\ Len(stack) <= MaxDepth + 1
  BY <1>2, DirectoryAssumption
<1>7. objects \in [1 .. Handles -> {"none", "held", "removing", "moved", "gone"}]
  BY <1>2
<1>8. disturbed \in 0 .. Disturbances /\ attempt \in 0 .. 2
  BY <1>2, DirectoryAssumption
<1>9. TypeOK
  BY <1>2, <1>4, <1>6, <1>7, <1>8 DEF TypeOK, EntryType, Removing
<1> QED
  BY <1>2, <1>5, <1>6, <1>9
     DEF Inv, InsideClosed, Calls, Phase, Named, Owner, SuccessIsGone, Making, Contents, Removing

\* The parent is opened, or the call fails.
LEMMA OpenParentInv == ASSUME Inv, OpenParent PROVE Inv'
<1>1. /\ pc = "make" /\ pc' \in {"mkdir", "failed"}
      /\ UNCHANGED <<entry, root, objects, stack, attempt, result, disturbed>>
      /\ UNCHANGED <<inside, calm, swapped>>
  BY DEF OpenParent, MakeFails, Goto, Kept
<1>2. TypeOK'
  BY <1>1 DEF Inv, TypeOK
<1>3. OnePlace' /\ InsideClosed'
  BY <1>1 DEF Inv, OnePlace, InsideClosed
<1>4. Calls' /\ Phase' /\ Named' /\ Owner' /\ SuccessIsGone'
  BY <1>1 DEF Inv, Calls, Own, Phase, Named, Owner, SuccessIsGone, Making, Contents, Removing
<1> QED
  BY <1>2, <1>3, <1>4 DEF Inv

\* mkdirat takes a directory that is not in use.
LEMMA MakeDirectoryInv == ASSUME Inv, MakeDirectory PROVE Inv'
<1>1. /\ pc = "mkdir" /\ pc' \in {"openroot", "failed"}
      /\ UNCHANGED <<root, objects, stack, attempt, result, disturbed, calm, swapped>>
  BY DEF MakeDirectory, MakeFails, Goto
<1>2. EntryType /\ inside \subseteq Things
  BY DEF Inv, TypeOK, EntryType
<1>3. /\ EntryType' /\ OnePlace' /\ InsideClosed' /\ inside \subseteq inside'
      /\ inside' \subseteq Things
  <2>1. CASE Kept
    BY <1>1, <1>2, <2>1 DEF Kept, Inv, OnePlace, InsideClosed, EntryType
  <2>2. CASE \E d \in Dirs : Fresh(d) /\ Bind(Parent, Name, d)
    <3>1. PICK d \in Dirs : Fresh(d) /\ Bind(Parent, Name, d)
      BY <2>2
    <3>2. d \in Things
      BY DEF Things
    <3> QED
      BY <1>1, <1>2, <3>1, <3>2, BindKeeps, DirectoryAssumption DEF Inv
  <2> QED
    BY <2>1, <2>2 DEF MakeDirectory, MakeFails
<1>4. stack = << >> /\ stack' \in Seq(Own')
  BY <1>1 DEF Inv, Calls, Contents
<1>5. TypeOK'
  BY <1>1, <1>3 DEF Inv, TypeOK, EntryType
<1>6. Calls' /\ Phase' /\ Named' /\ Owner' /\ SuccessIsGone'
  BY <1>1, <1>4 DEF Inv, Calls, Phase, Named, Owner, SuccessIsGone, Making, Contents, Removing
<1> QED
  BY <1>3, <1>5, <1>6 DEF Inv

\* Whatever has the name by now is opened, if it is a directory.
LEMMA OpenRootInv == ASSUME Inv, OpenRoot PROVE Inv'
<1>1. /\ pc = "openroot"
      /\ UNCHANGED <<entry, stack, attempt, result, disturbed, calm, swapped>>
      /\ stack = << >> /\ root = None /\ objects = [o \in 1 .. Handles |-> "none"]
  BY DEF OpenRoot, Inv, Calls, Contents, Phase, Making
<1>2. stack' \in Seq(Own')
  BY <1>1
<1>3. OnePlace' /\ EntryType /\ 1 \in 1 .. Handles
  BY <1>1, DirectoryAssumption DEF Inv, OnePlace, TypeOK, EntryType
<1>4. CASE pc' = "unmake" /\ UNCHANGED <<root, objects, inside>>
  <2>1. TypeOK' /\ InsideClosed'
    BY <1>1, <1>4 DEF Inv, TypeOK, InsideClosed
  <2>2. Calls' /\ Phase' /\ Named' /\ Owner' /\ SuccessIsGone'
    BY <1>1, <1>2, <1>4
       DEF Inv, Calls, Phase, Named, Owner, SuccessIsGone, Making, Contents, Removing
  <2> QED
    BY <1>3, <2>1, <2>2 DEF Inv
<1>5. CASE /\ OpenDirectory(entry[Parent][Name]) # None
           /\ root' = OpenDirectory(entry[Parent][Name]) /\ inside' = Tree(root')
           /\ objects' = [objects EXCEPT ![1] = "held"] /\ pc' = "moving"
  <2>1. root' = entry[Parent][Name] /\ root' \in Dirs /\ root' \in Things
    BY <1>5 DEF OpenDirectory, Things
  <2>2. root' # Parent /\ root' # None
    BY <1>5, <2>1, DirectoryAssumption DEF Inv, OnePlace
  <2>3. InsideClosed' /\ inside' \subseteq Things
    BY <1>1, <1>3, <1>5, <2>1, <2>2, TreeClosed DEF InsideClosed
  <2>4. objects' = [o \in 1 .. Handles |-> IF o = 1 THEN "held" ELSE "none"]
    BY <1>1, <1>3, <1>5
  <2>5. TypeOK'
    BY <1>1, <1>5, <2>1, <2>3, <2>4 DEF Inv, TypeOK
  <2>6. Calls' /\ Phase' /\ Named' /\ SuccessIsGone'
    BY <1>1, <1>2, <1>5, <2>1
       DEF Calls, Phase, Named, SuccessIsGone, Making, Contents, Removing
  <2>7. Owner'
    BY <1>5, <2>4 DEF Owner, Removing
  <2> QED
    BY <1>3, <2>3, <2>5, <2>6, <2>7 DEF Inv
<1> QED
  BY <1>4, <1>5 DEF OpenRoot, Goto

\* A Make that fails removes the name again, if it can.
LEMMA UnmakeInv == ASSUME Inv, Unmake PROVE Inv'
<1>1. /\ pc = "unmake" /\ pc' = "failed" /\ calm' \in BOOLEAN
      /\ UNCHANGED <<root, objects, stack, attempt, result, disturbed, swapped>>
  BY DEF Unmake, Goto, Inv, TypeOK
<1>2. EntryType /\ inside \subseteq Things
  BY DEF Inv, TypeOK, EntryType
<1>3. EntryType' /\ OnePlace' /\ InsideClosed' /\ inside' = inside
  <2>1. CASE Kept
    BY <1>1, <1>2, <2>1 DEF Kept, Inv, OnePlace, InsideClosed, EntryType
  <2>2. CASE Unbind(Parent, Name)
    BY <1>1, <1>2, <2>2, UnbindKeeps, DirectoryAssumption DEF Inv
  <2> QED
    BY <2>1, <2>2 DEF Unmake
<1>4. TypeOK'
  BY <1>1, <1>3 DEF Inv, TypeOK, EntryType
<1>5. Calls' /\ Phase' /\ Named' /\ Owner' /\ SuccessIsGone'
  BY <1>1, <1>3
     DEF Inv, Calls, Own, Phase, Named, Owner, SuccessIsGone, Making, Contents, Removing
<1> QED
  BY <1>3, <1>4, <1>5 DEF Inv

\* Moves pass the directory on; the removal is that of its owner.
LEMMA OwnershipInv ==
    ASSUME Inv, MoveOrDestroy \/ Use \/ \E o \in 1 .. Handles : Remove(o)
    PROVE  Inv'
<1>1. /\ pc \in {"moving", "use"} /\ UNCHANGED <<entry, root, stack, inside, calm, swapped>>
      /\ stack = << >> /\ root \in Dirs
  BY DEF MoveOrDestroy, Use, Remove, history, Inv, Calls, Contents, Phase, Making
<1>2. OnePlace' /\ InsideClosed'
  BY <1>1 DEF Inv, OnePlace, InsideClosed
<1>3. stack' \in Seq(Own')
  BY <1>1
<1>4. CASE MoveOrDestroy
  <2>1. pc = "moving" /\ UNCHANGED <<pc, attempt, result, disturbed>>
    BY <1>4 DEF MoveOrDestroy
  <2>2. PICK o, p \in 1 .. Handles : Destroy(o) \/ Move(o, p)
    BY <1>4 DEF MoveOrDestroy
  <2>3. objects' = [q \in 1 .. Handles |->
                        IF q = o THEN (IF Destroy(o) THEN "gone" ELSE "moved")
                        ELSE IF q = p /\ ~Destroy(o) THEN "held" ELSE objects[q]]
        /\ (~Destroy(o) => o # p /\ objects[o] = "held")
    BY <2>2 DEF Destroy, Move, Inv, TypeOK
  <2>4. TypeOK'
    BY <1>1, <2>1, <2>3 DEF Inv, TypeOK
  <2>5. Owner'
    BY <2>1, <2>3 DEF Inv, Owner, Removing
  <2>6. Calls' /\ Phase' /\ Named' /\ SuccessIsGone'
    BY <1>1, <1>3, <2>1 DEF Calls, Phase, Named, SuccessIsGone, Making, Contents, Removing
  <2> QED
    BY <1>2, <2>4, <2>5, <2>6 DEF Inv
<1>5. CASE Use
  <2>1. pc' = "use" /\ UNCHANGED <<objects, attempt, result, disturbed>>
    BY <1>5 DEF Use, Goto
  <2>2. TypeOK'
    BY <1>1, <2>1 DEF Inv, TypeOK
  <2>3. Calls' /\ Phase' /\ Named' /\ SuccessIsGone' /\ Owner'
    BY <1>1, <1>3, <2>1
       DEF Inv, Calls, Phase, Named, SuccessIsGone, Owner, Making, Contents, Removing
  <2> QED
    BY <1>2, <2>2, <2>3 DEF Inv
<1>6. CASE \E o \in 1 .. Handles : Remove(o)
  <2>1. PICK o \in 1 .. Handles : Remove(o)
    BY <1>6
  <2>2. /\ objects[o] = "held" /\ objects' = [objects EXCEPT ![o] = "removing"]
        /\ pc' = "inspect" /\ attempt' = 0 /\ result' = TRUE /\ disturbed' = 0
    BY <2>1 DEF Remove, Goto
  <2>3. objects' = [q \in 1 .. Handles |-> IF q = o THEN "removing" ELSE objects[q]]
    BY <2>2 DEF Inv, TypeOK
  <2>4. TypeOK'
    BY <1>1, <2>2, <2>3, DirectoryAssumption DEF Inv, TypeOK, Removing
  <2>5. Owner'
    BY <2>2, <2>3 DEF Inv, Owner, Removing
  <2>6. Calls' /\ Phase' /\ Named' /\ SuccessIsGone'
    BY <1>1, <1>3, <2>2 DEF Calls, Phase, Named, SuccessIsGone, Making, Contents, Removing
  <2> QED
    BY <1>2, <2>4, <2>5, <2>6 DEF Inv
<1> QED
  BY <1>4, <1>5, <1>6

\* The owner has no more descriptors at the end.
LEMMA FinishedType ==
    ASSUME TypeOK, Owner
    PROVE  /\ Finished \in [1 .. Handles -> {"none", "held", "removing", "moved", "gone"}]
           /\ \A o \in 1 .. Handles : Finished[o] # "removing"
           /\ \A o \in 1 .. Handles : Finished[o] \in {"held", "removing"} => Finished[o] = objects[o]
  BY DEF TypeOK, Owner, Finished

\* The name is inspected: it is the directory, or the removal ends.
LEMMA InspectInv == ASSUME Inv, Inspect PROVE Inv'
<1>1. /\ pc = "inspect" /\ attempt \in {0, 1} /\ UNCHANGED <<entry, inside, root, disturbed>>
      /\ stack = << >> /\ root \in Dirs
  BY DEF Inspect, Kept, Inv, Calls, Contents, Phase, Making, TypeOK
<1>2. OnePlace' /\ InsideClosed'
  BY <1>1 DEF Inv, OnePlace, InsideClosed
<1>3. CASE /\ entry[Parent][Name] = root /\ pc' = "open" /\ stack' = <<Opening(root)>>
           /\ attempt' = attempt + 1 /\ calm' = TRUE /\ swapped' = FALSE
           /\ UNCHANGED <<objects, result>>
  <2>1. Opening(root) \in Frame /\ Opening(root).dir = root
    BY <1>1, DirectoryAssumption DEF Opening, Frame
  <2>2. Opening(root) \in Own /\ Own' = Own
    BY <1>1, <2>1, DirectoryAssumption DEF Own, Inv, InsideClosed
  <2>3. stack' \in Seq(Own) /\ stack' \in Seq(Frame) /\ Len(stack') = 1 /\ stack' # << >>
    BY <1>3, <2>1, <2>2
  <2>4. Len(stack') <= MaxDepth + 1
    BY <2>3, DirectoryAssumption
  <2>5. TypeOK'
    <3>1. attempt' \in 0 .. 2 /\ pc' \in Removing
      BY <1>1, <1>3 DEF Removing
    <3>2. /\ calm' \in BOOLEAN /\ swapped' \in BOOLEAN
          /\ UNCHANGED <<entry, inside, root, disturbed, objects, result>>
      BY <1>1, <1>3
    <3> QED
      BY <2>3, <2>4, <3>1, <3>2 DEF Inv, TypeOK
  <2>6. Calls' /\ Phase' /\ Named' /\ SuccessIsGone' /\ Owner'
    BY <1>1, <1>3, <2>2, <2>3
       DEF Inv, Calls, Phase, Named, SuccessIsGone, Owner, Making, Contents, Removing
  <2> QED
    BY <1>2, <2>5, <2>6 DEF Inv
<1>4. CASE /\ pc' = "done" /\ result' = FALSE /\ objects' = Finished /\ calm' = FALSE
           /\ UNCHANGED <<stack, attempt, swapped>>
  <2>1. stack' \in Seq(Own')
    BY <1>1, <1>4
  <2>2. TypeOK'
    <3>1. objects' \in [1 .. Handles -> {"none", "held", "removing", "moved", "gone"}]
      BY <1>4, FinishedType DEF Inv
    <3> QED
      BY <1>1, <1>4, <3>1 DEF Inv, TypeOK
  <2>3. Owner'
    BY <1>4, FinishedType DEF Inv, Owner, Removing
  <2>4. Calls' /\ Phase' /\ Named' /\ SuccessIsGone'
    BY <1>1, <1>4, <2>1 DEF Calls, Phase, Named, SuccessIsGone, Making, Contents, Removing
  <2> QED
    BY <1>2, <2>2, <2>3, <2>4 DEF Inv
<1> QED
  BY <1>3, <1>4 DEF Inspect, Goto

\* The directory itself is removed, or what is at its name by now.
LEMMA FinishInv == ASSUME Inv, Finish PROVE Inv'
<1>1. /\ pc = "finish" /\ UNCHANGED <<root, stack, attempt, disturbed, swapped>>
      /\ stack = << >> /\ root \in Dirs /\ (~swapped => entry[Parent][Name] = root)
  BY DEF Finish, Inv, Calls, Contents, Phase, Making, Named, Removing
<1>2. EntryType /\ Parent \in Dirs /\ Name \in Names
  BY DirectoryAssumption DEF Inv, TypeOK, EntryType
<1>3. PICK done, gone \in BOOLEAN :
        /\ done => pc' = "done" /\ objects' = Finished
        /\ ~done => pc' = "inspect" /\ objects' = objects /\ attempt < 2
        /\ gone => done /\ Unbind(Parent, Name) /\ result' = result
        /\ ~gone => Kept /\ result' = FALSE
        /\ calm' \in BOOLEAN
  BY DEF Finish, Goto, NotRemoved, Inv, TypeOK
<1>4. EntryType' /\ OnePlace' /\ InsideClosed' /\ inside' = inside
  <2>1. CASE ~gone
    BY <1>1, <1>2, <1>3, <2>1 DEF Kept, Inv, OnePlace, InsideClosed, EntryType
  <2>2. CASE gone
    BY <1>1, <1>2, <1>3, <2>2, UnbindKeeps DEF Inv
  <2> QED
    BY <2>1, <2>2
<1>5. TypeOK'
  BY <1>1, <1>3, <1>4, FinishedType DEF Inv, TypeOK, EntryType, Removing
<1>6. Owner'
  BY <1>1, <1>3, FinishedType DEF Inv, Owner, Removing
<1>7. Calls' /\ Phase' /\ Named'
  <2>1. stack' \in Seq(Own')
    BY <1>1
  <2> QED
    BY <1>1, <1>3, <2>1 DEF Calls, Phase, Named, Making, Contents, Removing
<1>8. SuccessIsGone'
  <2> SUFFICES ASSUME result', ~swapped PROVE ~Linked(root)'
    BY <1>1 DEF SuccessIsGone
  <2>1. gone
    BY <1>3
  <2>2. \A c \in Dirs : \A m \in Names :
            entry'[c][m] = IF c = Parent /\ m = Name THEN None ELSE entry[c][m]
    BY <1>1, <1>2, <1>3, <2>1, UnbindKeeps DEF Inv
  <2>3. entry[Parent][Name] = root /\ root # None
    BY <1>1, DirectoryAssumption
  <2>4. \A c \in Dirs : \A m \in Names : entry'[c][m] # root
    BY <1>2, <2>2, <2>3 DEF Inv, OnePlace
  <2> QED
    BY <1>1, <2>4 DEF Linked
<1> QED
  BY <1>4, <1>5, <1>6, <1>7, <1>8 DEF Inv

-----------------------------------------------------------------------------
\* A call of RemoveContents goes on with the next name.
LEMMA NextNameType ==
    ASSUME stack \in Seq(Own), stack # << >>, NEW f \in Own, NextName(f)
    PROVE  pc' = "read" /\ stack' \in Seq(Own) /\ Len(stack') = Len(stack) /\ stack' # << >>
<1>1. pc' = "read" /\ stack' = Rest \o <<f>>
  BY DEF NextName, Goto
<1>2. stack' \in Seq(Own) /\ Len(stack') = Len(stack) /\ Len(stack) \in Nat \ {0}
  BY <1>1, StackType
<1> QED
  BY <1>1, <1>2

\* What the calls of RemoveContents may do to stack, entries and results.
Step(places) ==
    /\ stack' \in Seq(Own) /\ Len(stack') <= MaxDepth + 1
    /\ \/ pc' \in Contents /\ stack' # << >>
       \/ pc' = "finish" /\ stack' = << >>
    /\ pc' = "descend" => Len(stack') <= MaxDepth
    /\ result' \in BOOLEAN /\ calm' \in BOOLEAN /\ attempt' = attempt
    /\ Kept \/ \E p \in places : Unbind(p[1], p[2])

\* The facts about the call on top of the stack.
LEMMA TopType ==
    ASSUME Inv, pc \in Contents
    PROVE  /\ stack \in Seq(Own) /\ stack # << >> /\ Len(stack) \in Nat \ {0}
           /\ Len(stack) <= MaxDepth + 1 /\ MaxDepth \in Nat
           /\ Top \in Own /\ Top \in Frame /\ Top.dir \in Dirs /\ Top.name \in Names
           /\ Top.dir \in inside /\ Top.dir # Parent /\ Top.ok \in BOOLEAN
           /\ Failed(Top) \in Own
<1>1. stack \in Seq(Own) /\ stack # << >>
  BY DEF Inv, Calls
<1>2. Len(stack) \in Nat \ {0} /\ Top \in Own
  BY <1>1, StackType
<1> QED
  BY <1>1, <1>2, FailedType, DirectoryAssumption DEF Own, Frame, Inv, TypeOK

\* opendir, or its failure.
LEMMA EnumerateStep == ASSUME Inv, Enumerate PROVE pc = "open" /\ Step({})
<1>1. pc = "open" /\ pc \in Contents /\ Kept /\ attempt' = attempt
  BY DEF Enumerate, Contents
<1>2. CASE /\ NextName([Top EXCEPT !.must = {n \in Names : entry[Top.dir][n] # None}])
           /\ UNCHANGED <<result, calm>>
  <2>1. [Top EXCEPT !.must = {n \in Names : entry[Top.dir][n] # None}] \in Own
    BY <1>1, TopType DEF Own, Frame
  <2>2. pc' = "read" /\ stack' \in Seq(Own) /\ Len(stack') = Len(stack) /\ stack' # << >>
    BY <1>1, <1>2, <2>1, TopType, NextNameType
  <2> QED
    BY <1>1, <1>2, <2>2, TopType DEF Step, Contents, Inv, TypeOK
<1>3. CASE Return(FALSE) /\ calm' = FALSE
  <2>1. /\ stack' \in Seq(Own) /\ Len(stack') = Len(stack) - 1 /\ result' \in BOOLEAN
        /\ \/ pc' = "finish" /\ stack' = << >>
           \/ pc' = "rmdir" /\ stack' # << >>
    BY <1>1, <1>3, TopType, ReturnType DEF Inv, TypeOK
  <2>2. Len(stack') <= MaxDepth + 1
    BY <1>1, <2>1, TopType
  <2> QED
    BY <1>1, <1>3, <2>1, <2>2 DEF Step, Contents
<1> QED
  BY <1>1, <1>2, <1>3 DEF Enumerate

\* readdir returns a name, and fstatat says what it is.
LEMMA VisitStep == ASSUME Inv, NEW n \in Names, Visit(n) PROVE pc = "read" /\ Step({})
<1> DEFINE frame == [Top EXCEPT !.left = @ \ {n}, !.must = @ \ {n}, !.name = n]
<1>1. pc = "read" /\ pc \in Contents /\ Kept /\ attempt' = attempt /\ result' = result
      /\ calm' \in {calm, FALSE}
  BY DEF Visit, Contents
<1>2. frame \in Own /\ Failed(frame) \in Own
  <2>1. frame \in Own
    BY <1>1, TopType DEF Own, Frame
  <2> QED
    BY <2>1, FailedType
<1>3. \/ pc' = "unlink" /\ stack' = Rest \o <<frame>>
      \/ pc' = "descend" /\ stack' = Rest \o <<frame>> /\ ~AtLimit
      \/ NextName(Failed(frame))
  BY DEF Visit, Goto
<1> HIDE DEF frame
<1>4. /\ pc' \in Contents /\ stack' \in Seq(Own) /\ Len(stack') = Len(stack) /\ stack' # << >>
      /\ pc' = "descend" => ~AtLimit
  <2>1. Rest \o <<frame>> \in Seq(Own) /\ Len(Rest \o <<frame>>) = Len(stack)
        /\ Len(stack) \in Nat \ {0}
    BY <1>1, <1>2, TopType, StackType
  <2>2. Rest \o <<frame>> # << >>
    BY <2>1
  <2>3. CASE NextName(Failed(frame))
    <3>1. pc' = "read" /\ stack' \in Seq(Own) /\ Len(stack') = Len(stack) /\ stack' # << >>
      BY <1>1, <1>2, <2>3, TopType, NextNameType
    <3> QED
      BY <3>1 DEF Contents
  <2>4. CASE pc' \in {"unlink", "descend"} /\ stack' = Rest \o <<frame>>
             /\ (pc' = "descend" => ~AtLimit)
    BY <2>1, <2>2, <2>4 DEF Contents
  <2> QED
    BY <1>3, <2>3, <2>4
<1>5. pc' = "descend" => Len(stack') <= MaxDepth
  BY <1>1, <1>4, TopType DEF AtLimit, Depth
<1> QED
  BY <1>1, <1>4, <1>5, TopType DEF Step, Inv, TypeOK

\* readdir is through, or failed.
LEMMA EndOfDirectoryStep == ASSUME Inv, EndOfDirectory PROVE pc = "read" /\ Step({})
<1>1. pc = "read" /\ pc \in Contents /\ Kept /\ attempt' = attempt
  BY DEF EndOfDirectory, Contents
<1>2. PICK ok \in BOOLEAN : Return(ok) /\ calm' \in {calm, FALSE}
  BY <1>1, TopType DEF EndOfDirectory
<1>3. /\ stack' \in Seq(Own) /\ Len(stack') = Len(stack) - 1 /\ result' \in BOOLEAN
      /\ \/ pc' = "finish" /\ stack' = << >>
         \/ pc' = "rmdir" /\ stack' # << >>
  BY <1>1, <1>2, TopType, ReturnType DEF Inv, TypeOK
<1>4. Len(stack') <= MaxDepth + 1
  BY <1>1, <1>3, TopType
<1> QED
  BY <1>1, <1>2, <1>3, <1>4 DEF Step, Contents, Inv, TypeOK

\* A directory is entered: it is inside, whatever it is by now.
LEMMA DescendStep == ASSUME Inv, Descend PROVE pc = "descend" /\ Step({})
<1>1. pc = "descend" /\ pc \in Contents /\ Kept /\ attempt' = attempt /\ result' = result
      /\ Len(stack) <= MaxDepth
  BY DEF Descend, Contents, Inv, Calls
<1>2. PICK d : d = OpenDirectory(entry[Top.dir][Top.name])
  OBVIOUS
<1>3. CASE d # None /\ pc' = "open" /\ stack' = Append(stack, Opening(d)) /\ calm' = calm
  <2>1. d \in Dirs /\ d = entry[Top.dir][Top.name]
    BY <1>2, <1>3 DEF OpenDirectory
  <2>2. d \in inside /\ d # Parent
    BY <1>1, <1>3, <2>1, TopType DEF Inv, InsideClosed, OnePlace
  <2>3. Opening(d) \in Own
    BY <2>1, <2>2, DirectoryAssumption DEF Opening, Own, Frame
  <2>4. stack' \in Seq(Own) /\ Len(stack') = Len(stack) + 1
    BY <1>1, <1>3, <2>3, TopType, StackType
  <2>5. Len(stack') <= MaxDepth + 1 /\ stack' # << >>
    BY <1>1, <2>4, TopType
  <2> QED
    BY <1>1, <1>3, <2>4, <2>5 DEF Step, Contents, Inv, TypeOK
<1>4. CASE NextName(Failed(Top)) /\ calm' = FALSE
  <2>1. pc' = "read" /\ stack' \in Seq(Own) /\ Len(stack') = Len(stack) /\ stack' # << >>
    BY <1>1, <1>4, TopType, NextNameType
  <2> QED
    BY <1>1, <1>4, <2>1, TopType DEF Step, Contents, Inv, TypeOK
<1> QED
  BY <1>1, <1>2, <1>3, <1>4 DEF Descend, Goto

\* unlinkat, of a file or of a directory.
LEMMA UnlinkStep ==
    ASSUME Inv, Unlink \/ RemoveDirectory
    PROVE  pc \in {"unlink", "rmdir"} /\ Step({<<Top.dir, Top.name>>})
<1>1. /\ pc \in {"unlink", "rmdir"} /\ pc \in Contents
      /\ attempt' = attempt /\ result' = result
  BY DEF Unlink, RemoveDirectory, Contents
<1>2. /\ Kept \/ Unbind(Top.dir, Top.name)
      /\ NextName(Top) \/ NextName(Failed(Top))
      /\ calm' \in {calm, FALSE}
  BY DEF Unlink, RemoveDirectory, UnlinkAt
<1>3. pc' = "read" /\ stack' \in Seq(Own) /\ Len(stack') = Len(stack) /\ stack' # << >>
  BY <1>1, <1>2, TopType, NextNameType
<1> QED
  BY <1>1, <1>2, <1>3, TopType DEF Step, Contents, Inv, TypeOK

\* Every step of RemoveContents is one of these.
LEMMA ContentsStep ==
    ASSUME Inv, RemoveContents
    PROVE  /\ pc \in Contents /\ UNCHANGED <<root, objects, disturbed, swapped>>
           /\ Step({<<Top.dir, Top.name>>})
<1>1. Step({}) => Step({<<Top.dir, Top.name>>})
  BY DEF Step
<1> QED
  BY <1>1, EnumerateStep, VisitStep, EndOfDirectoryStep, DescendStep, UnlinkStep
     DEF RemoveContents, Contents

\* The contents are removed: nothing at the name of the directory changes.
LEMMA RemoveContentsInv == ASSUME Inv, RemoveContents PROVE Inv'
<1>1. /\ pc \in Contents /\ UNCHANGED <<root, objects, disturbed, swapped>>
      /\ stack' \in Seq(Own) /\ Len(stack') <= MaxDepth + 1
      /\ \/ pc' \in Contents /\ stack' # << >>
         \/ pc' = "finish" /\ stack' = << >>
      /\ pc' = "descend" => Len(stack') <= MaxDepth
      /\ result' \in BOOLEAN /\ calm' \in BOOLEAN /\ attempt' = attempt
      /\ Kept \/ Unbind(Top.dir, Top.name)
  BY ContentsStep DEF Step
<1>2. /\ EntryType /\ Parent \in Dirs /\ Name \in Names
      /\ Top.dir \in Dirs /\ Top.name \in Names /\ Top.dir # Parent
  BY <1>1, TopType, DirectoryAssumption DEF Inv, TypeOK, EntryType
<1>3. /\ EntryType' /\ OnePlace' /\ InsideClosed' /\ inside' = inside
      /\ entry'[Parent][Name] = entry[Parent][Name]
  <2>1. CASE Kept
    BY <1>1, <2>1 DEF Kept, Inv, OnePlace, InsideClosed, TypeOK, EntryType
  <2>2. CASE Unbind(Top.dir, Top.name)
    BY <1>1, <1>2, <2>2, UnbindKeeps DEF Inv
  <2> QED
    BY <1>1, <2>1, <2>2
<1>4. stack' \in Seq(Frame) /\ Own' = Own
  <2>1. Own \subseteq Frame /\ Own' = Own
    BY <1>3 DEF Own
  <2> QED
    BY <1>1, <2>1
<1>5. TypeOK'
  BY <1>1, <1>3, <1>4 DEF Inv, TypeOK, EntryType, Removing, Contents
<1>6. Calls' /\ Phase' /\ Owner' /\ SuccessIsGone'
  BY <1>1, <1>4 DEF Inv, Calls, Phase, Owner, SuccessIsGone, Making, Contents, Removing
<1>7. Named'
  BY <1>1, <1>3 DEF Inv, Named, Contents, Removing
<1> QED
  BY <1>3, <1>5, <1>6, <1>7 DEF Inv

-----------------------------------------------------------------------------
\* A readdir under way is as deep as before, whatever others do.
LEMMA TouchedType ==
    ASSUME NEW places, Touched(places), stack \in Seq(Own), inside \subseteq inside'
    PROVE  stack' \in Seq(Own') /\ stack' \in Seq(Frame) /\ Len(stack') = Len(stack)
<1> DEFINE keep(f) == [f EXCEPT !.must = {n \in @ : <<f.dir, n>> \notin places}]
<1>1. ASSUME NEW f \in Own PROVE keep(f) \in Own' /\ keep(f) \in Frame
  <2>1. f \in Frame /\ f.dir \in inside /\ f.dir # Parent
    BY DEF Own
  <2>2. keep(f) \in Frame /\ keep(f).dir = f.dir
    BY <2>1 DEF Frame
  <2> QED
    BY <2>1, <2>2 DEF Own
<1> HIDE DEF keep
<1>2. stack' = [i \in DOMAIN stack |-> keep(stack[i])]
  BY DEF Touched, keep
<1>3. PICK k \in Nat : k = Len(stack) /\ DOMAIN stack = 1 .. k /\ \A i \in 1 .. k : stack[i] \in Own
  OBVIOUS
<1>4. /\ stack' = [i \in 1 .. k |-> keep(stack[i])]
      /\ \A i \in 1 .. k : keep(stack[i]) \in Own' /\ keep(stack[i]) \in Frame
  BY <1>1, <1>2, <1>3
<1>5. stack' \in Seq(Own')
  BY <1>4, IsASeq
<1>6. stack' \in Seq(Frame)
  BY <1>4, IsASeq
<1>7. Len(stack') = k
  BY <1>4, <1>5
<1> QED
  BY <1>3, <1>5, <1>6, <1>7

\* A thing is moved: it is at one place still, and remembered where it came from.
LEMMA RenameKeeps ==
    ASSUME EntryType, OnePlace, InsideClosed, inside \subseteq Things, root' = root,
           NEW c \in Dirs, NEW m \in Names, NEW d \in Dirs, NEW n \in Names,
           Rename(c, m, d, n)
    PROVE  /\ EntryType' /\ OnePlace' /\ InsideClosed'
           /\ inside \subseteq inside' /\ inside' \subseteq Things
           /\ entry[d][n] = None
           /\ \A k \in Dirs : \A l \in Names :
                entry'[k][l] = IF k = d /\ l = n THEN entry[c][m]
                               ELSE IF k = c /\ l = m THEN None ELSE entry[k][l]
<1>1. PICK x \in Things : x = entry[c][m] /\ x # None
  BY DEF Rename, EntryType
<1>2. /\ entry[d][n] = None /\ Enters(x, d)
      /\ entry' = [entry EXCEPT ![c][m] = None, ![d][n] = x]
  BY <1>1 DEF Rename
<1>3. /\ EntryType'
      /\ \A k \in Dirs : \A l \in Names :
            entry'[k][l] = IF k = d /\ l = n THEN x
                           ELSE IF k = c /\ l = m THEN None ELSE entry[k][l]
  BY <1>2 DEF EntryType
<1>4. x # Parent /\ None # Parent
        /\ \A k \in Dirs : \A l \in Names : entry[k][l] = x => k = c /\ l = m
  BY <1>1, DirectoryAssumption DEF OnePlace
<1>5. OnePlace'
  BY <1>3, <1>4 DEF OnePlace
<1>6. InsideClosed' /\ inside \subseteq inside' /\ inside' \subseteq Things
  <2>1. \A k \in Dirs : \A l \in Names :
            \/ k = d /\ l = n /\ entry'[k][l] = x
            \/ ~(k = d /\ l = n) /\ entry'[k][l] \in {entry[k][l], None}
    BY <1>3
  <2>2. EntryType' /\ Enters(x, d)
    BY <1>2, <1>3
  <2> QED
    BY ONLY EntryType, InsideClosed, inside \subseteq Things, root' = root, x \in Things,
       d \in Dirs, n \in Names, <2>1, <2>2, EntersClosed
<1>7. \A k \in Dirs : \A l \in Names :
        entry'[k][l] = IF k = d /\ l = n THEN entry[c][m]
                       ELSE IF k = c /\ l = m THEN None ELSE entry[k][l]
  BY <1>1, <1>3
<1> QED
  BY <1>2, <1>3, <1>5, <1>6, <1>7

\* What everybody else does: the name is the directory's, or it was swapped.
LEMMA OthersInv == ASSUME Inv, Others PROVE Inv'
<1>1. /\ pc \notin {"make", "failed", "done"} /\ calm' = FALSE
      /\ UNCHANGED <<pc, root, objects, attempt, result>>
  BY DEF Others
<1>2. disturbed' \in 0 .. Disturbances
  BY DirectoryAssumption DEF Others, Inv, TypeOK
<1>3. EntryType /\ inside \subseteq Things /\ Parent \in Dirs /\ Name \in Names
      /\ swapped \in BOOLEAN /\ stack \in Seq(Own)
  BY DirectoryAssumption DEF Inv, TypeOK, EntryType, Calls
<1>4. PICK d \in Dirs, n \in Names :
        \/ \E x \in Things : Create(x, d, n)
        \/ \E c \in Dirs, m \in Names : Rename(c, m, d, n)
        \/ Delete(d, n)
  BY DEF Others
<1>5. /\ EntryType' /\ OnePlace' /\ InsideClosed'
      /\ inside \subseteq inside' /\ inside' \subseteq Things
      /\ \E places : Touched(places)
      /\ swapped' \in BOOLEAN /\ (swapped => swapped')
      /\ root \in Dirs /\ entry[Parent][Name] = root /\ ~swapped' => entry'[Parent][Name] = root
  <2>1. CASE \E x \in Things : Create(x, d, n)
    <3>1. PICK x \in Things : Create(x, d, n)
      BY <2>1
    <3>2. /\ entry[d][n] = None /\ Fresh(x) /\ Bind(d, n, x) /\ Touched({<<d, n>>})
          /\ swapped' = swapped
      BY <3>1 DEF Create
    <3>3. /\ EntryType' /\ OnePlace' /\ InsideClosed'
          /\ inside \subseteq inside' /\ inside' \subseteq Things
          /\ \A k \in Dirs : \A l \in Names :
                entry'[k][l] = IF k = d /\ l = n THEN x ELSE entry[k][l]
      BY <1>1, <1>3, <3>2, BindKeeps DEF Inv
    <3> QED
      BY <1>3, <3>2, <3>3, DirectoryAssumption
  <2>2. CASE \E c \in Dirs, m \in Names : Rename(c, m, d, n)
    <3>1. PICK c \in Dirs, m \in Names : Rename(c, m, d, n)
      BY <2>2
    <3>2. /\ Touched({<<c, m>>, <<d, n>>}) /\ swapped' = (swapped \/ entry[c][m] = root)
      BY <3>1 DEF Rename
    <3>3. /\ EntryType' /\ OnePlace' /\ InsideClosed'
          /\ inside \subseteq inside' /\ inside' \subseteq Things
          /\ entry[d][n] = None
          /\ \A k \in Dirs : \A l \in Names :
                entry'[k][l] = IF k = d /\ l = n THEN entry[c][m]
                               ELSE IF k = c /\ l = m THEN None ELSE entry[k][l]
      BY <1>1, <1>3, <3>1, RenameKeeps DEF Inv
    <3> QED
      BY <1>3, <3>2, <3>3, DirectoryAssumption
  <2>3. CASE Delete(d, n)
    <3>1. /\ Unbind(d, n) /\ Touched({<<d, n>>})
          /\ swapped' = (swapped \/ entry[d][n] = root)
      BY <2>3 DEF Delete
    <3>2. /\ EntryType' /\ OnePlace' /\ InsideClosed' /\ inside' = inside
          /\ \A k \in Dirs : \A l \in Names :
                entry'[k][l] = IF k = d /\ l = n THEN None ELSE entry[k][l]
      BY <1>1, <1>3, <3>1, UnbindKeeps DEF Inv
    <3> QED
      BY <1>3, <3>1, <3>2
  <2> QED
    BY <1>4, <2>1, <2>2, <2>3
<1>6. stack' \in Seq(Own') /\ stack' \in Seq(Frame) /\ Len(stack') = Len(stack)
  BY <1>3, <1>5, TouchedType
<1>7. Len(stack) \in Nat /\ Len(stack) <= MaxDepth + 1 /\ (stack = << >> <=> stack' = << >>)
  BY <1>3, <1>6 DEF Inv, TypeOK
<1>8. TypeOK'
  BY <1>1, <1>2, <1>5, <1>6, <1>7 DEF Inv, TypeOK, EntryType
<1>9. Calls'
  BY <1>1, <1>6, <1>7 DEF Inv, Calls
<1>10. Phase' /\ Owner' /\ SuccessIsGone'
  BY <1>1 DEF Inv, Phase, Owner, SuccessIsGone
<1>11. Named'
  <2>1. pc \in Removing => root \in Dirs
    BY DEF Inv, Phase, Removing, Making
  <2> QED
    BY <1>1, <1>5, <2>1 DEF Inv, Named
<1> QED
  BY <1>5, <1>8, <1>9, <1>10, <1>11 DEF Inv

\* A step in which nothing happens.
LEMMA UnchangedInv == ASSUME Inv, UNCHANGED vars PROVE Inv'
<1>1. /\ UNCHANGED <<entry, pc, root, objects, stack, attempt, result, disturbed>>
      /\ UNCHANGED <<inside, calm, swapped>>
  BY DEF vars, history
<1>2. TypeOK'
  BY <1>1 DEF Inv, TypeOK
<1>3. OnePlace' /\ InsideClosed'
  BY <1>1 DEF Inv, OnePlace, InsideClosed
<1>4. Calls' /\ Phase' /\ Named' /\ Owner' /\ SuccessIsGone'
  BY <1>1 DEF Inv, Calls, Own, Phase, Named, Owner, SuccessIsGone, Linked
<1> QED
  BY <1>2, <1>3, <1>4 DEF Inv

\* Every step of the process and of others keeps the invariant.
LEMMA NextInv == ASSUME Inv, [Next]_vars PROVE Inv'
BY OpenParentInv, MakeDirectoryInv, OpenRootInv, UnmakeInv, OwnershipInv, InspectInv,
   RemoveContentsInv, FinishInv, OthersInv, UnchangedInv
   DEF Next

-----------------------------------------------------------------------------
(***************************************************************************)
(* An attempt in which nobody else writes and no call fails.               *)
(***************************************************************************)

\* A name that the i'th call has still to deal with, or is dealing with.
Pending(i, n) ==
    \/ n \in stack[i].must
    \/ n = stack[i].name /\ (i < Len(stack) \/ pc \in {"unlink", "descend", "rmdir"})
    \/ i = Len(stack) /\ pc = "open"

\* The calls are nested as the directories are.
Nested ==
    /\ stack # << >> => stack[1].dir = root
    /\ \A i \in 1 .. Len(stack) - 1 : entry[stack[i].dir][stack[i].name] = stack[i + 1].dir

\* Nothing is left behind unless something is too deep.
Accounted ==
    \A i \in 1 .. Len(stack) :
        \/ stack[i].ok /\ \A n \in Names : entry[stack[i].dir][n] # None => Pending(i, n)
        \/ TooDeep

Current ==
    /\ pc = "unlink" => entry[Top.dir][Top.name] \in Files
    /\ pc = "descend" => entry[Top.dir][Top.name] \in Dirs
    /\ pc = "rmdir" =>
        /\ entry[Top.dir][Top.name] \in Dirs /\ Len(stack) <= MaxDepth
        /\ Empty(entry[Top.dir][Top.name]) \/ TooDeep
    /\ pc = "finish" => (result /\ Empty(root)) \/ TooDeep

Walk == ~swapped /\ Nested /\ Accounted /\ Current

Quiet ==
    /\ pc \in Contents \cup {"finish"} /\ calm => Walk
    /\ pc \in {"make", "mkdir"} /\ calm => entry[Parent][Name] = None
    /\ QuietRemovalSucceeds

\* A set of numbers that is not empty has a least one.
LEMMA Least ==
    ASSUME NEW S, S \subseteq Nat, S # {}
    PROVE  \E x \in S : \A y \in S : x <= y
<1>1. PICK x \in S : \A y \in S : ~ (<<y, x>> \in OpToRel(<, Nat))
  BY NatLessThanWellFounded, WFMin
<1>2. \A y \in S : y < x => <<y, x>> \in OpToRel(<, Nat)
  BY DEF OpToRel
<1>3. \A y \in S : ~ (y < x)
  BY <1>1, <1>2
<1>4. \A y \in S : x <= y
  BY ONLY <1>3, S \subseteq Nat, x \in S
<1> QED
  BY <1>4

\* What holds of every call.
LEMMA CallType ==
    ASSUME Inv, pc \in Contents, NEW i \in 1 .. Len(stack)
    PROVE  stack[i] \in Frame /\ stack[i].dir \in Dirs /\ stack[i].name \in Names
<1>1. stack \in Seq(Own) /\ Len(stack) \in Nat
  BY DEF Inv, Calls
<1>2. stack[i] \in Own
  BY <1>1
<1> QED
  BY <1>2 DEF Own, Frame

\* The directory of the last call is as deep as there are calls before it: a path
\* from the root to it has their directories.
LEMMA DepthOfTop ==
    ASSUME Inv, pc \in Contents, ~swapped, Nested, Len(stack) <= MaxDepth,
           NEW path \in [0 .. MaxDepth + 1 -> Dirs], path[0] = root,
           \A i \in 1 .. MaxDepth + 1 : \E n \in Names : entry[path[i - 1]][n] = path[i]
    PROVE  path[MaxDepth] # Top.dir
<1> SUFFICES ASSUME path[MaxDepth] = Top.dir PROVE FALSE
  OBVIOUS
<1>1. PICK k \in Nat \ {0} : k = Len(stack) /\ k <= MaxDepth /\ MaxDepth \in Nat
  BY TopType
<1>2. PICK Off : Off = {j \in 0 .. k - 1 : path[MaxDepth - j] # stack[k - j].dir}
  OBVIOUS
<1>3. Off = {}
  <2> SUFFICES ASSUME Off # {} PROVE FALSE
    OBVIOUS
  <2>1. Off \subseteq Nat
    BY ONLY <1>2, k \in Nat
  <2>2. PICK j \in Off : \A l \in Off : j <= l
    BY ONLY <2>1, Least, Off # {}
  <2>3. j \in 0 .. k - 1 /\ path[MaxDepth - j] # stack[k - j].dir
    BY <1>2, <2>2
  <2>4. j # 0
    BY <1>1, <2>3 DEF Top
  <2>5. j - 1 \in 0 .. k - 1 /\ j - 1 \notin Off
    <3>1. j \in Nat /\ j - 1 \in Nat /\ ~ (j <= j - 1)
      BY ONLY <2>3, <2>4, k \in Nat
    <3> QED
      BY <2>2, <2>3, <3>1
  <2>6. path[MaxDepth - (j - 1)] = stack[k - (j - 1)].dir
    BY <1>2, <2>5
  <2>7. PICK p, s \in Nat : p = MaxDepth - j /\ s = k - j /\ s >= 1 /\ s <= k - 1 /\ p <= MaxDepth
                            /\ MaxDepth - (j - 1) = p + 1 /\ k - (j - 1) = s + 1
    <3>1. /\ MaxDepth - j \in Nat /\ k - j \in Nat /\ k - j >= 1 /\ k - j <= k - 1
          /\ MaxDepth - j <= MaxDepth
          /\ MaxDepth - (j - 1) = (MaxDepth - j) + 1 /\ k - (j - 1) = (k - j) + 1
      BY ONLY <1>1, <2>3, <2>4
    <3> QED
      BY ONLY <3>1
  <2>8. entry[stack[s].dir][stack[s].name] = stack[s + 1].dir
    BY <1>1, <2>7 DEF Nested
  <2>9. PICK n \in Names : entry[path[p]][n] = path[p + 1]
    <3>1. p + 1 \in 1 .. MaxDepth + 1 /\ (p + 1) - 1 = p
      BY ONLY <1>1, <2>7
    <3> QED
      BY <3>1
  <2>10. /\ path[p] \in Dirs /\ path[p + 1] \in Dirs
         /\ stack[s].dir \in Dirs /\ stack[s].name \in Names
    <3>1. p \in 0 .. MaxDepth + 1 /\ p + 1 \in 0 .. MaxDepth + 1 /\ s \in 1 .. k
      BY ONLY <1>1, <2>7
    <3> QED
      BY <1>1, <3>1, CallType
  <2>11. path[p + 1] = stack[s + 1].dir /\ path[p + 1] # None
    BY <2>6, <2>7, <2>10, DirectoryAssumption
  <2>12. path[p] = stack[s].dir
    BY <2>8, <2>9, <2>10, <2>11 DEF Inv, OnePlace
  <2> QED
    BY <2>3, <2>7, <2>12
<1>4. PICK p \in Nat : p + 1 = MaxDepth - (k - 1) /\ p < MaxDepth /\ k - (k - 1) = 1
                       /\ k - 1 \in 0 .. k - 1
  BY ONLY <1>1
<1>5. path[p + 1] = root
  <2>1. path[MaxDepth - (k - 1)] = stack[k - (k - 1)].dir
    BY <1>2, <1>3, <1>4
  <2>2. stack[1].dir = root
    BY <1>1 DEF Nested
  <2> QED
    BY <1>4, <2>1, <2>2
<1>6. PICK n \in Names : entry[path[p]][n] = root
  <2>1. p + 1 \in 1 .. MaxDepth + 1 /\ (p + 1) - 1 = p
    BY ONLY <1>1, <1>4
  <2> QED
    BY <1>5, <2>1
<1>7. root \in Dirs /\ root # None /\ entry[Parent][Name] = root /\ root # Parent
  BY DirectoryAssumption DEF Inv, Phase, Named, InsideClosed, Contents, Removing, Making
<1>8. path[p] = Parent
  <2>1. path[p] \in Dirs
    BY ONLY <1>1, <1>4, path \in [0 .. MaxDepth + 1 -> Dirs]
  <2> QED
    BY <1>6, <1>7, <2>1, DirectoryAssumption DEF Inv, OnePlace
<1>9. p # 0
  BY <1>7, <1>8
<1>10. p \in 1 .. MaxDepth + 1 /\ p - 1 \in 0 .. MaxDepth + 1
  BY ONLY <1>1, <1>4, <1>9
<1>11. \E m \in Names : entry[path[p - 1]][m] = Parent
  BY <1>8, <1>10
<1> QED
  BY <1>10, <1>11 DEF Inv, OnePlace

\* What is too deep stays so when nothing changes.
LEMMA TooDeepSame == ASSUME UNCHANGED <<entry, root>>, TooDeep PROVE TooDeep'
BY DEF TooDeep

\* Nothing that is too deep is lost when a file or an empty directory is removed.
LEMMA TooDeepKept ==
    ASSUME Inv, pc \in Contents, Walk, Unbind(Top.dir, Top.name), root' = root, TooDeep,
           NEW x, x = entry[Top.dir][Top.name],
           x \in Files \/ (Removable(x) /\ Len(stack) <= MaxDepth)
    PROVE  TooDeep'
<1>1. PICK path \in [0 .. MaxDepth + 1 -> Dirs] :
        /\ path[0] = root
        /\ \A i \in 1 .. MaxDepth + 1 : \E n \in Names : entry[path[i - 1]][n] = path[i]
  BY DEF TooDeep
<1>2. /\ Top.dir \in Dirs /\ Top.name \in Names /\ MaxDepth \in Nat
      /\ \A c \in Dirs : \A m \in Names :
            entry'[c][m] = IF c = Top.dir /\ m = Top.name THEN None ELSE entry[c][m]
  BY TopType, UnbindKeeps DEF Inv, TypeOK, EntryType
<1>3. ASSUME NEW i \in 1 .. MaxDepth + 1, path[i - 1] = Top.dir
      PROVE  path[i] # x
  <2>1. /\ path[i] \in Dirs /\ i \in Nat
        /\ i # MaxDepth + 1 => i + 1 \in 1 .. MaxDepth + 1 /\ (i + 1) - 1 = i
        /\ i = MaxDepth + 1 => i - 1 = MaxDepth
        /\ i + 1 \in 0 .. MaxDepth + 1 \/ i = MaxDepth + 1
    BY ONLY i \in 1 .. MaxDepth + 1, <1>2, path \in [0 .. MaxDepth + 1 -> Dirs]
  <2>2. CASE x \in Files
    BY <2>1, <2>2, DirectoryAssumption
  <2>3. CASE Removable(x) /\ Len(stack) <= MaxDepth
    <3>1. CASE i # MaxDepth + 1
      <4>1. PICK n \in Names : entry[path[i]][n] = path[i + 1]
        BY <1>1, <2>1, <3>1
      <4>2. path[i + 1] # None
        BY <2>1, <3>1, DirectoryAssumption
      <4> QED
        BY <2>3, <4>1, <4>2 DEF Removable, Empty
    <3>2. CASE i = MaxDepth + 1
      BY <1>1, <1>3, <2>1, <2>3, <3>2, DepthOfTop DEF Walk
    <3> QED
      BY <3>1, <3>2
  <2> QED
    BY <2>2, <2>3
<1>4. ASSUME NEW i \in 1 .. MaxDepth + 1
      PROVE  \E n \in Names : entry'[path[i - 1]][n] = path[i]
  <2>1. path[i - 1] \in Dirs
    BY ONLY i \in 1 .. MaxDepth + 1, <1>2, path \in [0 .. MaxDepth + 1 -> Dirs]
  <2>2. PICK n \in Names : entry[path[i - 1]][n] = path[i]
    BY <1>1
  <2> QED
    BY <1>2, <1>3, <2>1, <2>2
<1> QED
  BY <1>1, <1>4 DEF TooDeep

\* The top of the stack is exchanged.
LEMMA TopExchanged ==
    ASSUME Inv, pc \in Contents, NEW f \in Own, stack' = Rest \o <<f>>
    PROVE  /\ Len(stack') = Len(stack) /\ Top' = f
           /\ \A i \in 1 .. Len(stack) : stack'[i] = IF i = Len(stack) THEN f ELSE stack[i]
<1>1. PICK k \in Nat \ {0} : k = Len(stack)
  BY TopType
<1>2. /\ stack \in Seq(Own) /\ Rest \in Seq(Own) /\ Len(Rest) = k - 1
      /\ Rest = SubSeq(stack, 1, k - 1)
  BY <1>1, TopType, StackType DEF Rest
<1>3. \A i \in 1 .. k - 1 : Rest[i] = stack[i]
  <2>1. \A i \in 1 .. k - 1 : stack[i] \in Own
    BY <1>1, <1>2
  <2> QED
    BY <1>1, <1>2, <2>1, SubSeqProperties
<1>4. Len(stack') = k /\ \A i \in 1 .. k : stack'[i] = IF i = k THEN f ELSE Rest[i]
  BY <1>1, <1>2
<1>5. Top' = f
  BY <1>4 DEF Top
<1>6. ASSUME NEW i \in 1 .. k PROVE stack'[i] = IF i = k THEN f ELSE stack[i]
  <2>1. i # k => i \in 1 .. k - 1
    BY ONLY i \in 1 .. k, k \in Nat
  <2> QED
    BY <1>3, <1>4, <2>1
<1> QED
  BY <1>1, <1>4, <1>5, <1>6

\* A call returns to the one below it.
LEMMA Returned ==
    ASSUME Inv, pc \in Contents, NEW ok \in BOOLEAN, Return(ok)
    PROVE  \/ /\ Len(stack) = 1 /\ stack' = << >> /\ result' = ok /\ pc' = "finish"
           \/ /\ Len(stack) > 1 /\ pc' = "rmdir" /\ Len(stack') = Len(stack) - 1
              /\ \A i \in 1 .. Len(stack) - 1 :
                    stack'[i] = IF i = Len(stack) - 1 /\ ~ok THEN Failed(stack[i]) ELSE stack[i]
<1>1. PICK k \in Nat \ {0} : k = Len(stack)
  BY TopType
<1>2. /\ stack \in Seq(Own) /\ Rest \in Seq(Own) /\ Len(Rest) = k - 1 /\ Depth = k - 1
      /\ Rest = SubSeq(stack, 1, k - 1)
  BY <1>1, TopType, StackType DEF Rest, Depth
<1>3. \A i \in 1 .. k - 1 : Rest[i] = stack[i]
  <2>1. \A i \in 1 .. k - 1 : stack[i] \in Own
    BY <1>1, <1>2
  <2> QED
    BY <1>1, <1>2, <2>1, SubSeqProperties
<1>4. CASE k = 1
  BY <1>1, <1>2, <1>4 DEF Return, Goto
<1>5. CASE k # 1
  <2>1. k > 1 /\ k - 1 # 0 /\ k - 1 \in 1 .. k - 1
    BY ONLY <1>5, k \in Nat \ {0}
  <2>2. pc' = "rmdir" /\ stack' = IF ok THEN Rest
                                  ELSE SubSeq(Rest, 1, k - 1 - 1) \o <<Failed(Rest[k - 1])>>
    BY <1>2, <2>1 DEF Return, Goto
  <2>3. CASE ok
    BY <1>1, <1>2, <1>3, <2>1, <2>2, <2>3
  <2>4. CASE ~ok
    <3>1. PICK l \in Nat : l = k - 2 /\ k - 1 - 1 = l /\ k - 1 = l + 1
      BY ONLY <2>1, k \in Nat
    <3>2. PICK r \in Seq(Own) : r = Rest /\ Len(r) = l + 1
      BY <1>2, <3>1
    <3>3. /\ SubSeq(r, 1, l) \in Seq(Own) /\ Len(SubSeq(r, 1, l)) = l
          /\ \A i \in 1 .. l : SubSeq(r, 1, l)[i] = r[i]
      <4>1. \A i \in 1 .. l : r[i] \in Own
        BY <3>2
      <4> QED
        BY <3>2, <4>1, SubSeqProperties
    <3>4. r[l + 1] \in Own /\ Failed(r[l + 1]) \in Own
      BY <3>2, FailedType
    <3>5. stack' = SubSeq(r, 1, l) \o <<Failed(r[l + 1])>>
      BY <2>2, <2>4, <3>1, <3>2
    <3>6. PICK q \in Seq(Own) : q = SubSeq(r, 1, l) /\ Len(q) = l /\ \A i \in 1 .. l : q[i] = r[i]
      BY <3>3
    <3>7. /\ Len(stack') = l + 1
          /\ \A i \in 1 .. l + 1 : stack'[i] = IF i = l + 1 THEN Failed(r[l + 1]) ELSE q[i]
      BY <3>4, <3>5, <3>6
    <3>8. ASSUME NEW i \in 1 .. l + 1
          PROVE  stack'[i] = IF i = l + 1 THEN Failed(stack[i]) ELSE stack[i]
      <4>1. r[i] = stack[i]
        BY <1>3, <3>1, <3>2
      <4>2. i # l + 1 => i \in 1 .. l
        BY ONLY i \in 1 .. l + 1, l \in Nat
      <4> QED
        BY <3>6, <3>7, <4>1, <4>2
    <3> QED
      BY <1>1, <2>1, <2>2, <2>4, <3>1, <3>7, <3>8
  <2> QED
    BY <2>3, <2>4
<1> QED
  BY <1>4, <1>5

\* The walk goes on in the same directory, where the current name may be gone.
LEMMA WalkGoesOn ==
    ASSUME Inv, pc \in Contents, Walk, NEW f \in Own, stack' = Rest \o <<f>>,
           f.dir = Top.dir, UNCHANGED <<root, swapped>>,
           \A i \in 1 .. Len(stack) - 1 :
                /\ entry'[stack[i].dir][stack[i].name] = entry[stack[i].dir][stack[i].name]
                /\ \A n \in Names : entry'[stack[i].dir][n] \in {None, entry[stack[i].dir][n]},
           TooDeep => TooDeep',
           \/ f.ok /\ \A n \in Names : entry'[Top.dir][n] # None =>
                            n \in f.must \/ (n = f.name /\ pc' \in {"unlink", "descend", "rmdir"})
           \/ TooDeep'
    PROVE  ~swapped' /\ Nested' /\ Accounted' /\ Top' = f /\ Len(stack') = Len(stack)
<1>1. /\ Len(stack) \in Nat \ {0} /\ Len(stack') = Len(stack) /\ Top' = f
      /\ \A i \in 1 .. Len(stack) : stack'[i] = IF i = Len(stack) THEN f ELSE stack[i]
  BY TopType, TopExchanged
<1>2. PICK k \in Nat \ {0} : k = Len(stack)
  BY <1>1
<1>3. ASSUME NEW i \in 1 .. k - 1
      PROVE  /\ i \in 1 .. k /\ i + 1 \in 1 .. k /\ i < k /\ i # k
             /\ stack'[i] = stack[i] /\ stack'[i + 1].dir = stack[i + 1].dir
  <2>1. i \in 1 .. k /\ i + 1 \in 1 .. k /\ i < k /\ i # k
    BY ONLY i \in 1 .. k - 1, k \in Nat
  <2> QED
    BY <1>1, <1>2, <2>1 DEF Top
<1>4. Nested'
  <2>1. stack'[1].dir = root
    <3>1. stack[1].dir = root /\ 1 \in 1 .. k
      BY <1>2, TopType DEF Walk, Nested
    <3> QED
      BY <1>1, <1>2, <3>1 DEF Top
  <2>2. \A i \in 1 .. k - 1 : entry'[stack'[i].dir][stack'[i].name] = stack'[i + 1].dir
    <3> SUFFICES ASSUME NEW i \in 1 .. k - 1
                 PROVE  entry'[stack'[i].dir][stack'[i].name] = stack'[i + 1].dir
      OBVIOUS
    <3>1. stack'[i] = stack[i] /\ stack'[i + 1].dir = stack[i + 1].dir
      BY <1>3
    <3>2. entry[stack[i].dir][stack[i].name] = stack[i + 1].dir
      BY <1>2 DEF Walk, Nested
    <3>3. entry'[stack[i].dir][stack[i].name] = entry[stack[i].dir][stack[i].name]
      BY <1>2
    <3> QED
      BY <3>1, <3>2, <3>3
  <2> QED
    BY <1>1, <1>2, <2>1, <2>2 DEF Nested
<1>5. ASSUME NEW i \in 1 .. k
      PROVE  \/ stack'[i].ok /\ \A n \in Names : entry'[stack'[i].dir][n] # None => Pending(i, n)'
             \/ TooDeep'
  <2>1. CASE i = k
    BY <1>1, <1>2, <2>1 DEF Pending
  <2>2. CASE i # k
    <3>1. i \in 1 .. k - 1
      BY ONLY <2>2, i \in 1 .. k, k \in Nat
    <3>2. stack'[i] = stack[i] /\ i < k
      BY <1>3, <3>1
    <3>3. CASE TooDeep
      BY <3>3
    <3>4. CASE stack[i].ok /\ \A n \in Names : entry[stack[i].dir][n] # None => Pending(i, n)
      <4>1. ASSUME NEW n \in Names, entry'[stack'[i].dir][n] # None PROVE Pending(i, n)'
        <5>1. entry[stack[i].dir][n] # None
          BY <1>2, <3>1, <3>2, <4>1
        <5>2. Pending(i, n)
          BY <3>4, <5>1
        <5>3. n \in stack[i].must \/ n = stack[i].name
          BY <1>2, <2>2, <5>2 DEF Pending
        <5> QED
          BY <1>1, <1>2, <3>2, <5>3 DEF Pending
      <4> QED
        BY <3>2, <3>4, <4>1
    <3> QED
      BY <1>2, <3>3, <3>4 DEF Walk, Accounted
  <2> QED
    BY <2>1, <2>2
<1> QED
  BY <1>1, <1>2, <1>4, <1>5 DEF Walk, Accounted

\* opendir: every name that is there will be returned.
LEMMA EnumerateQuiet ==
    ASSUME Inv, Enumerate, UNCHANGED <<root, swapped>>, calm => Walk, calm' = TRUE
    PROVE  Walk'
<1> DEFINE f == [Top EXCEPT !.must = {n \in Names : entry[Top.dir][n] # None}]
<1>1. /\ pc = "open" /\ pc \in Contents /\ NextName(f) /\ calm' = calm /\ entry' = entry
  BY DEF Enumerate, Kept, Contents
<1>2. /\ Walk /\ Top \in Own /\ Top \in Frame /\ pc' = "read" /\ stack' = Rest \o <<f>>
      /\ Len(stack) \in Nat \ {0}
  BY <1>1, TopType DEF NextName, Goto
<1>3. /\ f \in Own /\ f.dir = Top.dir /\ f.ok = Top.ok
      /\ f.must = {n \in Names : entry[Top.dir][n] # None}
  BY <1>2 DEF Own, Frame
<1> HIDE DEF f
<1>4. TooDeep => TooDeep'
  BY <1>1, TooDeepSame
<1>5. Top.ok \/ TooDeep
  BY <1>2 DEF Walk, Accounted, Top
<1>6. /\ ~swapped' /\ Nested' /\ Accounted'
  BY <1>1, <1>2, <1>3, <1>4, <1>5, WalkGoesOn
<1> QED
  BY <1>2, <1>6 DEF Walk, Current

\* A path through the directories of the calls is too deep when there is yet
\* another directory below the last one that is entered.
LEMMA AtLimitTooDeep ==
    ASSUME Inv, pc \in Contents, Nested, AtLimit, NEW n \in Names,
           entry[Top.dir][n] \in Dirs
    PROVE  TooDeep
<1>1. MaxDepth \in Nat /\ Len(stack) = MaxDepth + 1
  BY TopType DEF AtLimit, Depth
<1>2. PICK path : path = [i \in 0 .. MaxDepth + 1 |->
                            IF i = MaxDepth + 1 THEN entry[Top.dir][n] ELSE stack[i + 1].dir]
  OBVIOUS
<1>3. \A i \in 0 .. MaxDepth + 1 : i # MaxDepth + 1 => i + 1 \in 1 .. MaxDepth + 1
  BY ONLY <1>1
<1>4. path \in [0 .. MaxDepth + 1 -> Dirs]
  BY <1>1, <1>2, <1>3, CallType
<1>5. path[0] = root
  <2>1. 0 \in 0 .. MaxDepth + 1 /\ 0 # MaxDepth + 1 /\ 0 + 1 = 1
    BY ONLY <1>1
  <2> QED
    BY <1>2, <2>1, TopType DEF Nested
<1>6. ASSUME NEW i \in 1 .. MaxDepth + 1
      PROVE  \E m \in Names : entry[path[i - 1]][m] = path[i]
  <2>1. /\ i - 1 \in 0 .. MaxDepth + 1 /\ i - 1 # MaxDepth + 1 /\ (i - 1) + 1 = i
        /\ i \in 0 .. MaxDepth + 1
        /\ i # MaxDepth + 1 => i \in 1 .. Len(stack) - 1
    BY ONLY <1>1, i \in 1 .. MaxDepth + 1
  <2>2. path[i - 1] = stack[i].dir
    BY <1>2, <2>1
  <2>3. CASE i = MaxDepth + 1
    <3>1. stack[i].dir = Top.dir /\ path[i] = entry[Top.dir][n]
      BY <1>1, <1>2, <2>1, <2>3 DEF Top
    <3> QED
      BY <2>2, <3>1
  <2>4. CASE i # MaxDepth + 1
    <3>1. path[i] = stack[i + 1].dir /\ entry[stack[i].dir][stack[i].name] = stack[i + 1].dir
      BY <1>2, <2>1, <2>4 DEF Nested
    <3>2. stack[i].name \in Names
      BY <1>1, CallType
    <3> QED
      BY <2>2, <3>1, <3>2
  <2> QED
    BY <2>3, <2>4
<1> QED
  BY <1>4, <1>5, <1>6 DEF TooDeep

\* readdir and fstatat: the name is dealt with, or it is too deep.
LEMMA VisitQuiet ==
    ASSUME Inv, NEW n \in Names, Visit(n), UNCHANGED <<root, swapped>>,
           calm => Walk, calm' = TRUE
    PROVE  Walk'
<1> DEFINE f == [Top EXCEPT !.left = @ \ {n}, !.must = @ \ {n}, !.name = n]
<1>1. /\ pc = "read" /\ pc \in Contents /\ entry' = entry /\ calm' = calm
      /\ \/ /\ entry[Top.dir][n] \in Files /\ pc' = "unlink" /\ stack' = Rest \o <<f>>
         \/ /\ entry[Top.dir][n] \in Dirs /\ pc' = "descend" /\ stack' = Rest \o <<f>>
         \/ /\ entry[Top.dir][n] \in Dirs /\ AtLimit /\ pc' = "read"
            /\ stack' = Rest \o <<Failed(f)>>
  BY DEF Visit, Kept, Contents, NextName, Goto
<1>2. Walk /\ Top \in Own /\ Top \in Frame /\ Len(stack) \in Nat \ {0}
  BY <1>1, TopType
<1>3. /\ f \in Own /\ f.dir = Top.dir /\ f.ok = Top.ok /\ f.name = n
      /\ f.must = Top.must \ {n}
  BY <1>2 DEF Own, Frame
<1> HIDE DEF f
<1>4. TooDeep => TooDeep'
  BY <1>1, TooDeepSame
<1>5. (Top.ok /\ \A m \in Names : entry[Top.dir][m] # None => m \in Top.must) \/ TooDeep
  <2>1. Len(stack) \in 1 .. Len(stack)
    BY <1>2
  <2> QED
    BY <1>1, <1>2, <2>1 DEF Walk, Accounted, Pending, Top
<1>6. CASE pc' \in {"unlink", "descend"} /\ stack' = Rest \o <<f>>
  <2>1. /\ ~swapped' /\ Nested' /\ Accounted' /\ Top' = f
    BY <1>1, <1>2, <1>3, <1>4, <1>5, <1>6, WalkGoesOn
  <2>2. Current'
    BY <1>1, <1>3, <1>6, <2>1, DirectoryAssumption DEF Current
  <2> QED
    BY <2>1, <2>2 DEF Walk
<1>7. CASE AtLimit /\ pc' = "read" /\ stack' = Rest \o <<Failed(f)>> /\ entry[Top.dir][n] \in Dirs
  <2>1. TooDeep'
    BY <1>1, <1>2, <1>4, <1>7, AtLimitTooDeep DEF Walk
  <2>2. Failed(f) \in Own /\ Failed(f).dir = Top.dir
    BY <1>3, FailedType DEF Failed, Own, Frame
  <2>3. /\ ~swapped' /\ Nested' /\ Accounted'
    BY <1>1, <1>2, <1>7, <2>1, <2>2, WalkGoesOn
  <2> QED
    BY <1>7, <2>3 DEF Walk, Current
<1> QED
  BY <1>1, <1>6, <1>7

\* readdir is through: a directory whose call found no obstacle is empty.
LEMMA EndOfDirectoryQuiet ==
    ASSUME Inv, EndOfDirectory, UNCHANGED <<root, swapped>>, calm => Walk, calm' = TRUE
    PROVE  Walk'
<1>1. /\ pc = "read" /\ pc \in Contents /\ entry' = entry /\ calm' = calm
      /\ Top.must = {} /\ Return(Top.ok)
  BY DEF EndOfDirectory, Kept, Contents
<1>2. Walk /\ Top.ok \in BOOLEAN /\ Top.dir \in Dirs
  BY <1>1, TopType
<1>3. PICK k \in Nat \ {0} : k = Len(stack) /\ k <= MaxDepth + 1
  BY <1>1, TopType
<1>4. TooDeep => TooDeep'
  BY <1>1, TooDeepSame
<1>5. (Top.ok /\ Empty(Top.dir)) \/ TooDeep
  <2>1. k \in 1 .. k
    OBVIOUS
  <2> QED
    BY <1>1, <1>2, <1>3, <2>1 DEF Walk, Accounted, Pending, Top, Empty
<1>6. CASE k = 1 /\ stack' = << >> /\ result' = Top.ok /\ pc' = "finish"
  <2>1. Top.dir = root
    BY <1>2, <1>3, <1>6, TopType, <1>1 DEF Walk, Nested, Top
  <2>2. Len(stack') = 0 /\ stack' = << >>
    BY <1>6
  <2>3. Nested' /\ Accounted'
    BY <2>2 DEF Nested, Accounted
  <2>4. Empty(root)' = Empty(root)
    BY <1>1 DEF Empty
  <2>5. Current'
    BY <1>4, <1>5, <1>6, <2>1, <2>4 DEF Current
  <2> QED
    BY <1>2, <2>3, <2>5 DEF Walk
<1>7. CASE /\ k > 1 /\ pc' = "rmdir" /\ Len(stack') = k - 1
           /\ \A i \in 1 .. k - 1 :
                stack'[i] = IF i = k - 1 /\ ~Top.ok THEN Failed(stack[i]) ELSE stack[i]
  <2>1. PICK l \in Nat \ {0} : l = k - 1 /\ k = l + 1 /\ l <= MaxDepth
    <3>1. k - 1 \in Nat \ {0} /\ k = (k - 1) + 1 /\ k - 1 <= MaxDepth
      BY ONLY <1>3, <1>7, DirectoryAssumption
    <3> QED
      BY <3>1
  <2>2. \A i \in 1 .. l : i \in 1 .. k /\ i < k /\ (i # l => i + 1 \in 1 .. l) /\ i <= l
    BY ONLY <2>1
  <2>3. \A i \in 1 .. l : stack[i] \in Frame
    BY <1>1, <1>3, <2>2, CallType
  <2>4. ASSUME NEW i \in 1 .. l
        PROVE  /\ stack'[i].dir = stack[i].dir /\ stack'[i].name = stack[i].name
               /\ stack'[i].must = stack[i].must
               /\ stack'[i].ok => stack[i].ok
               /\ stack'[i].ok = stack[i].ok \/ (i = l /\ ~Top.ok)
    BY <1>7, <2>1, <2>3 DEF Failed, Frame
  <2>5. Nested'
    <3>1. 1 \in 1 .. l /\ stack'[1].dir = root
      <4>1. 1 \in 1 .. l
        OBVIOUS
      <4> QED
        BY <1>1, <1>2, <2>4, <4>1, TopType DEF Walk, Nested
    <3>2. ASSUME NEW i \in 1 .. l - 1
          PROVE  entry'[stack'[i].dir][stack'[i].name] = stack'[i + 1].dir
      <4>1. i \in 1 .. l /\ i + 1 \in 1 .. l /\ i \in 1 .. k - 1
        BY ONLY i \in 1 .. l - 1, l \in Nat, <2>1
      <4> QED
        BY <1>1, <1>2, <1>3, <2>4, <4>1 DEF Walk, Nested
    <3> QED
      BY <1>7, <2>1, <3>1, <3>2 DEF Nested
  <2>6. ASSUME NEW i \in 1 .. l
        PROVE  \/ stack'[i].ok /\ \A n \in Names : entry'[stack'[i].dir][n] # None => Pending(i, n)'
               \/ TooDeep'
    <3>1. CASE TooDeep
      BY <1>4, <3>1
    <3>2. CASE ~TooDeep
      <4>1. stack[i].ok /\ \A n \in Names : entry[stack[i].dir][n] # None => Pending(i, n)
        BY <1>2, <1>3, <2>2, <3>2 DEF Walk, Accounted
      <4>2. stack'[i].ok
        BY <1>5, <2>4, <3>2, <4>1
      <4>3. ASSUME NEW n \in Names, Pending(i, n) PROVE Pending(i, n)'
        <5>1. n \in stack[i].must \/ n = stack[i].name
          BY <1>1, <4>3 DEF Pending
        <5> QED
          BY <1>7, <2>1, <2>4, <5>1 DEF Pending
      <4> QED
        BY <1>1, <2>4, <4>1, <4>2, <4>3
    <3> QED
      BY <3>1, <3>2
  <2>7. Accounted'
    BY <1>7, <2>1, <2>6 DEF Accounted
  <2>8. Current'
    <3>1. Top'.dir = stack[l].dir /\ Top'.name = stack[l].name
      BY <1>7, <2>1, <2>4 DEF Top
    <3>2. entry[stack[l].dir][stack[l].name] = Top.dir
      <4>1. l \in 1 .. k - 1
        BY ONLY <2>1
      <4> QED
        BY <1>2, <1>3, <2>1, <4>1 DEF Walk, Nested, Top
    <3>3. entry'[Top'.dir][Top'.name] = Top.dir /\ Len(stack') <= MaxDepth
      BY <1>1, <1>7, <2>1, <3>1, <3>2
    <3>4. Empty(Top.dir) => Empty(entry[Top.dir][Top.name])'
      BY <1>1, <3>3 DEF Empty
    <3> QED
      BY <1>2, <1>4, <1>5, <1>7, <3>3, <3>4 DEF Current
  <2> QED
    BY <1>2, <2>5, <2>7, <2>8 DEF Walk
<1> QED
  BY <1>1, <1>2, <1>3, <1>6, <1>7, Returned

\* The directory that is there is entered.
LEMMA DescendQuiet ==
    ASSUME Inv, Descend, UNCHANGED <<root, swapped>>, calm => Walk, calm' = TRUE
    PROVE  Walk'
<1>1. /\ pc = "descend" /\ pc \in Contents /\ entry' = entry /\ calm' = calm
      /\ pc' = "open" /\ stack' = Append(stack, Opening(OpenDirectory(entry[Top.dir][Top.name])))
  BY DEF Descend, Kept, Contents, Goto
<1>2. Walk
  BY <1>1
<1>3. PICK d : d = entry[Top.dir][Top.name] /\ d \in Dirs /\ OpenDirectory(entry[Top.dir][Top.name]) = d
  BY <1>1, <1>2 DEF Walk, Current, OpenDirectory
<1>4. PICK k \in Nat \ {0} : k = Len(stack)
  BY <1>1, TopType
<1>5. /\ Len(stack') = k + 1 /\ stack'[k + 1] = Opening(d)
      /\ \A i \in 1 .. k : stack'[i] = stack[i]
  BY <1>1, <1>3, <1>4, TopType
<1>6. Opening(d).dir = d /\ Opening(d).ok
  BY DEF Opening
<1>7. Nested'
  <2>1. stack'[1].dir = root
    BY <1>1, <1>2, <1>4, <1>5, TopType DEF Walk, Nested
  <2>2. ASSUME NEW i \in 1 .. k
        PROVE  entry'[stack'[i].dir][stack'[i].name] = stack'[i + 1].dir
    <3>1. CASE i = k
      BY <1>1, <1>3, <1>4, <1>5, <1>6, <3>1 DEF Top
    <3>2. CASE i # k
      <4>1. i \in 1 .. k - 1 /\ i + 1 \in 1 .. k
        BY ONLY i \in 1 .. k, k \in Nat, <3>2
      <4> QED
        BY <1>1, <1>2, <1>4, <1>5, <4>1 DEF Walk, Nested
    <3> QED
      BY <3>1, <3>2
  <2>3. (k + 1) - 1 = k
    OBVIOUS
  <2> QED
    BY <1>5, <2>1, <2>2, <2>3 DEF Nested
<1>8. ASSUME NEW i \in 1 .. k + 1
      PROVE  \/ stack'[i].ok /\ \A n \in Names : entry'[stack'[i].dir][n] # None => Pending(i, n)'
             \/ TooDeep'
  <2>1. CASE i = k + 1
    BY <1>1, <1>5, <1>6, <2>1 DEF Pending
  <2>2. CASE i # k + 1
    <3>1. i \in 1 .. k /\ i < k + 1
      BY ONLY i \in 1 .. k + 1, k \in Nat, <2>2
    <3>2. stack'[i] = stack[i]
      BY <1>5, <3>1
    <3>3. CASE TooDeep
      BY <1>1, <3>3, TooDeepSame
    <3>4. CASE stack[i].ok /\ \A n \in Names : entry[stack[i].dir][n] # None => Pending(i, n)
      <4>1. ASSUME NEW n \in Names, Pending(i, n) PROVE Pending(i, n)'
        <5>1. n \in stack[i].must \/ n = stack[i].name
          BY <1>1, <4>1 DEF Pending
        <5> QED
          BY <1>5, <3>1, <3>2, <5>1 DEF Pending
      <4> QED
        BY <1>1, <3>2, <3>4, <4>1
    <3> QED
      BY <1>2, <1>4, <3>1, <3>3, <3>4 DEF Walk, Accounted
  <2> QED
    BY <2>1, <2>2
<1>9. Accounted'
  BY <1>5, <1>8 DEF Accounted
<1> QED
  BY <1>1, <1>2, <1>7, <1>9 DEF Walk, Current

\* unlinkat: a file goes; a directory goes when it is empty, and it is unless
\* something in it is too deep.
LEMMA UnlinkQuiet ==
    ASSUME Inv, Unlink \/ RemoveDirectory, UNCHANGED <<root, swapped>>,
           calm => Walk, calm' = TRUE
    PROVE  Walk'
<1>1. PICK x : x = entry[Top.dir][Top.name]
  OBVIOUS
<1>2. pc \in {"unlink", "rmdir"} /\ pc \in Contents
  BY DEF Unlink, RemoveDirectory, Contents
<1>3. /\ calm' = calm
      /\ \/ /\ Unbind(Top.dir, Top.name) /\ NextName(Top)
            /\ (pc = "unlink" /\ x \in Files) \/ (pc = "rmdir" /\ Removable(x))
         \/ x = None /\ Kept /\ NextName(Top)
         \/ /\ x # None /\ Kept /\ NextName(Failed(Top))
            /\ (pc = "unlink" /\ x \notin Files) \/ (pc = "rmdir" /\ ~Removable(x))
  BY <1>1 DEF Unlink, RemoveDirectory, UnlinkAt
<1>4. /\ Walk /\ Top \in Own /\ Top \in Frame /\ Failed(Top) \in Own
      /\ Top.dir \in Dirs /\ Top.name \in Names /\ Len(stack) \in Nat \ {0}
  BY <1>2, <1>3, TopType
<1>5. /\ pc = "unlink" => x \in Files
      /\ pc = "rmdir" => x \in Dirs /\ (Empty(x) \/ TooDeep) /\ Len(stack) <= MaxDepth
      /\ x # None
  BY <1>1, <1>2, <1>4, DirectoryAssumption DEF Walk, Current
<1>6. CASE /\ Unbind(Top.dir, Top.name) /\ NextName(Top)
           /\ (pc = "unlink" /\ x \in Files) \/ (pc = "rmdir" /\ Removable(x))
  <2>1. /\ pc' = "read" /\ stack' = Rest \o <<Top>>
        /\ \A c \in Dirs : \A m \in Names :
                entry'[c][m] = IF c = Top.dir /\ m = Top.name THEN None ELSE entry[c][m]
    BY <1>4, <1>6, UnbindKeeps DEF NextName, Goto, Inv, TypeOK, EntryType
  <2>2. TooDeep => TooDeep'
    BY <1>1, <1>2, <1>4, <1>5, <1>6, TooDeepKept
  <2>3. ASSUME NEW i \in 1 .. Len(stack) - 1
        PROVE  /\ entry'[stack[i].dir][stack[i].name] = entry[stack[i].dir][stack[i].name]
               /\ \A n \in Names : entry'[stack[i].dir][n] \in {None, entry[stack[i].dir][n]}
    <3>1. /\ i \in 1 .. Len(stack) /\ i + 1 \in 1 .. Len(stack)
          /\ i + 1 # Len(stack) => i + 1 \in 1 .. Len(stack) - 1
      BY ONLY i \in 1 .. Len(stack) - 1, <1>4
    <3>2. /\ stack[i].dir \in Dirs /\ stack[i].name \in Names
          /\ stack[i + 1].dir \in Dirs /\ stack[i + 1].name \in Names
      BY <1>2, <3>1, CallType
    <3>3. entry[stack[i].dir][stack[i].name] = stack[i + 1].dir
      BY <1>4 DEF Walk, Nested
    <3>4. stack[i + 1].dir # x
      <4>1. CASE x \in Files
        BY <3>2, <4>1, DirectoryAssumption
      <4>2. CASE Removable(x)
        <5>1. CASE i + 1 = Len(stack)
          <6>1. entry[stack[i + 1].dir][stack[i + 1].name] = x
            BY <1>1, <5>1 DEF Top
          <6> QED
            BY <1>5, <3>2, <4>2, <6>1 DEF Removable, Empty
        <5>2. CASE i + 1 # Len(stack)
          <6>1. PICK j \in 1 .. Len(stack) - 1 : j = i + 1
            BY <3>1, <5>2
          <6>2. entry[stack[j].dir][stack[j].name] = stack[j + 1].dir
            BY <1>4 DEF Walk, Nested
          <6>3. stack[j + 1].dir # None
            <7>1. j + 1 \in 1 .. Len(stack)
              BY ONLY j \in 1 .. Len(stack) - 1, <1>4
            <7> QED
              BY <1>2, <7>1, CallType, DirectoryAssumption
          <6> QED
            BY <3>2, <4>2, <6>1, <6>2, <6>3 DEF Removable, Empty
        <5> QED
          BY <5>1, <5>2
      <4> QED
        BY <1>6, <4>1, <4>2
    <3>5. ~(stack[i].dir = Top.dir /\ stack[i].name = Top.name)
      BY <1>1, <3>3, <3>4
    <3> QED
      BY <2>1, <3>2, <3>5
  <2>4. (Top.ok /\ \A n \in Names : entry'[Top.dir][n] # None => n \in Top.must) \/ TooDeep'
    <3>1. Len(stack) \in 1 .. Len(stack)
      BY <1>4
    <3>2. (Top.ok /\ \A n \in Names : entry[Top.dir][n] # None =>
                                        n \in Top.must \/ n = Top.name) \/ TooDeep
      BY <1>2, <1>4, <3>1 DEF Walk, Accounted, Pending, Top
    <3> QED
      BY <1>4, <2>1, <2>2, <3>2
  <2>5. ~swapped' /\ Nested' /\ Accounted'
    BY <1>2, <1>4, <2>1, <2>2, <2>3, <2>4, WalkGoesOn
  <2> QED
    BY <2>1, <2>5 DEF Walk, Current
<1>7. CASE /\ Kept /\ NextName(Failed(Top)) /\ pc = "rmdir" /\ ~Removable(x)
  <2>1. pc' = "read" /\ stack' = Rest \o <<Failed(Top)>> /\ entry' = entry
    BY <1>7 DEF NextName, Goto, Kept
  <2>2. TooDeep'
    BY <1>5, <1>7, <2>1, TooDeepSame DEF Removable
  <2>3. Failed(Top).dir = Top.dir
    BY <1>4 DEF Failed, Frame
  <2>4. ~swapped' /\ Nested' /\ Accounted'
    BY <1>2, <1>4, <2>1, <2>2, <2>3, WalkGoesOn
  <2> QED
    BY <2>1, <2>4 DEF Walk, Current
<1> QED
  BY <1>3, <1>5, <1>6, <1>7

-----------------------------------------------------------------------------
\* At first nothing has the name.
LEMMA InitQuiet == Init => Quiet
<1> SUFFICES ASSUME Init PROVE Quiet
  OBVIOUS
<1>1. PICK d \in Dirs \ {Parent}, n \in Names \ {Name} :
        entry = [c \in Dirs |-> [m \in Names |-> IF c = Parent /\ m = n THEN d ELSE None]]
  BY DEF Init
<1>2. entry[Parent][Name] = None
  BY <1>1, DirectoryAssumption
<1> QED
  BY <1>2 DEF Init, Quiet, QuietRemovalSucceeds, Contents

\* Making leaves nothing at the name if it fails and no call failed since.
LEMMA MakingQuiet ==
    ASSUME Inv, Quiet, OpenParent \/ MakeDirectory \/ OpenRoot \/ Unmake
    PROVE  Quiet'
<1>1. pc' \notin Contents \cup {"finish", "done"}
  BY DEF OpenParent, MakeDirectory, OpenRoot, Unmake, MakeFails, Goto, Contents
<1>2. pc' \in {"mkdir", "make", "failed"} /\ calm' => entry'[Parent][Name] = None
  <2>1. CASE OpenParent \/ MakeDirectory
    BY <2>1 DEF OpenParent, MakeDirectory, MakeFails, Goto, Kept, Quiet
  <2>2. CASE OpenRoot
    BY <2>2 DEF OpenRoot, Goto
  <2>3. CASE Unmake
    <3>1. pc' = "failed" /\ (calm' => Unbind(Parent, Name))
      BY <2>3 DEF Unmake, Goto
    <3>2. Unbind(Parent, Name) => entry'[Parent][Name] = None
      BY DirectoryAssumption DEF Unbind, Inv, TypeOK
    <3> QED
      BY <3>1, <3>2
  <2> QED
    BY <2>1, <2>2, <2>3
<1> QED
  BY <1>1, <1>2 DEF Quiet, QuietRemovalSucceeds

\* The inspection is where an attempt begins.
LEMMA InspectQuiet == ASSUME Inv, Inspect PROVE Quiet'
<1>1. CASE pc' = "done" /\ calm' = FALSE
  BY <1>1 DEF Quiet, QuietRemovalSucceeds, Contents
<1>2. CASE pc' = "open" /\ stack' = <<Opening(root)>> /\ swapped' = FALSE /\ root' = root
  <2>1. Len(stack') = 1 /\ stack'[1] = Opening(root) /\ Opening(root).dir = root
        /\ Opening(root).ok
    BY <1>2 DEF Opening
  <2>2. Nested'
    BY <1>2, <2>1 DEF Nested
  <2>3. Accounted'
    BY <1>2, <2>1 DEF Accounted, Pending
  <2>4. Current'
    BY <1>2 DEF Current
  <2> QED
    BY <1>2, <2>2, <2>3, <2>4 DEF Quiet, QuietRemovalSucceeds, Walk
<1> QED
  BY <1>1, <1>2 DEF Inspect, Goto

\* A step of RemoveContents goes on with the walk.
LEMMA RemoveContentsQuiet == ASSUME Inv, Quiet, RemoveContents PROVE Quiet'
<1>1. /\ pc \in Contents /\ pc' \in Contents \cup {"finish"} /\ UNCHANGED <<root, swapped>>
  BY ContentsStep DEF Step
<1>2. calm => Walk
  BY <1>1 DEF Quiet
<1>3. calm' \in BOOLEAN
  BY ContentsStep DEF Step
<1>4. ASSUME calm' = TRUE PROVE Walk'
  BY <1>1, <1>2, <1>4, EnumerateQuiet, EndOfDirectoryQuiet, DescendQuiet, UnlinkQuiet, VisitQuiet
     DEF RemoveContents
<1> QED
  BY <1>1, <1>3, <1>4 DEF Quiet, QuietRemovalSucceeds, Contents

\* Whatever is too deep is in a directory that is not empty.
LEMMA EmptyIsNotDeep == Empty(root) => ~TooDeep
<1> SUFFICES ASSUME Empty(root), TooDeep PROVE FALSE
  OBVIOUS
<1>1. PICK path \in [0 .. MaxDepth + 1 -> Dirs] :
        /\ path[0] = root
        /\ \A i \in 1 .. MaxDepth + 1 : \E n \in Names : entry[path[i - 1]][n] = path[i]
  BY DEF TooDeep
<1>2. 1 \in 1 .. MaxDepth + 1 /\ 1 \in 0 .. MaxDepth + 1 /\ 1 - 1 = 0
  BY DirectoryAssumption
<1>3. \E n \in Names : entry[root][n] = path[1]
  BY <1>1, <1>2
<1> QED
  BY <1>2, <1>3, DirectoryAssumption DEF Empty

\* The directory itself goes, if it is empty by then.
LEMMA FinishQuiet == ASSUME Inv, Quiet, Finish PROVE Quiet'
<1>1. PICK x : x = entry[Parent][Name]
  OBVIOUS
<1>2. /\ pc = "finish" /\ pc \in Removing \ {"inspect"} /\ pc \in Contents \cup {"finish"}
      /\ root' = root
  BY DEF Finish, Removing
<1>3. \/ Removable(x) /\ pc' = "done" /\ result' = result /\ calm' = calm
      \/ pc' = "inspect"
      \/ ~Removable(x) /\ pc' = "done" /\ entry' = entry /\ calm' = calm
      \/ pc' = "done" /\ calm' = FALSE
  BY <1>1 DEF Finish, Goto, Kept
<1>4. calm => x = root /\ x \in Dirs /\ ((result /\ Empty(root)) \/ TooDeep)
  BY <1>1, <1>2 DEF Quiet, Walk, Current, Inv, Named, Phase, Making
<1>5. pc' = "done" /\ calm' => result' \/ TooDeep'
  <2>1. CASE Removable(x) /\ result' = result /\ calm' = calm
    BY <1>4, <2>1, EmptyIsNotDeep DEF Removable
  <2>2. CASE ~Removable(x) /\ entry' = entry /\ calm' = calm
    BY <1>2, <1>4, <2>2, TooDeepSame DEF Removable
  <2> QED
    BY <1>3, <2>1, <2>2
<1> QED
  BY <1>3, <1>5 DEF Quiet, QuietRemovalSucceeds, Contents

\* Every other step either disturbs the quiet or has nothing to do with it.
LEMMA NextQuiet == ASSUME Inv, Quiet, [Next]_vars PROVE Quiet'
<1>1. CASE MoveOrDestroy \/ Use \/ \E o \in 1 .. Handles : Remove(o)
  <2>1. pc' \in {"moving", "use", "inspect"}
    BY <1>1 DEF MoveOrDestroy, Use, Remove, Goto
  <2> QED
    BY <2>1 DEF Quiet, QuietRemovalSucceeds, Contents
<1>2. CASE Others
  BY <1>2 DEF Others, Quiet, QuietRemovalSucceeds
<1>3. CASE UNCHANGED vars
  <2>1. UNCHANGED <<entry, pc, root, stack, result, calm, swapped>>
    BY <1>3 DEF vars, history
  <2>2. UNCHANGED TooDeep
    BY <2>1 DEF TooDeep
  <2>3. UNCHANGED Walk
    BY <2>1, <2>2 DEF Walk, Nested, Accounted, Pending, Current, Top, Empty
  <2> QED
    BY <2>1, <2>2, <2>3 DEF Quiet, QuietRemovalSucceeds
<1> QED
  BY <1>1, <1>2, <1>3, MakingQuiet, InspectQuiet, RemoveContentsQuiet, FinishQuiet DEF Next


-----------------------------------------------------------------------------
(***************************************************************************)
(* What follows for every behaviour.                                       *)
(***************************************************************************)

\* The invariant holds throughout making, use and removal of the directory.
THEOREM Invariance == Spec => []Inv
<1>1. Inv /\ [Next]_vars => Inv'
  BY NextInv
<1> QED
  BY <1>1, InitInv, PTL DEF Spec

\* The state of TemporaryDirectory, its objects and the directory tree has its type.
THEOREM TypeCorrect == Spec => []TypeOK
<1>1. Inv => TypeOK
  BY DEF Inv
<1> QED
  BY <1>1, Invariance, PTL

\* Remove reports success only if the directory is gone, unless it was
\* exchanged for another one after it was inspected (TemporaryDirectory.cpp:416-456).
THEOREM SuccessIsGoneCorrect == Spec => []SuccessIsGone
<1>1. Inv => SuccessIsGone
  BY DEF Inv
<1> QED
  BY <1>1, Invariance, PTL

\* While a TemporaryDirectory holds the directory nobody removes it: the
\* destructor of one that was moved from does nothing (TemporaryDirectory.cpp:387-393).
THEOREM KeptWhileHeldCorrect == Spec => []KeptWhileHeld
<1>1. Inv => KeptWhileHeld
  BY DEF Inv, Owner, KeptWhileHeld
<1> QED
  BY <1>1, Invariance, PTL

\* The cleanup takes entries from directories that are or were inside and its
\* own name, whatever is exchanged between two calls (TemporaryDirectory.cpp:271-301).
THEOREM OnlyInsideCorrect == Spec => OnlyInside
<1>1. ASSUME Inv, [Next]_vars, pc # pc', pc \in Removing,
             NEW d \in Dirs, NEW n \in Names, entry'[d][n] # entry[d][n]
      PROVE  d \in inside \/ (d = Parent /\ n = Name)
  <2>1. EntryType /\ Parent \in Dirs /\ Name \in Names
    BY <1>1, DirectoryAssumption DEF Inv, TypeOK, EntryType
  <2>2. ASSUME NEW c \in Dirs, NEW m \in Names, Unbind(c, m)
        PROVE  d = c /\ n = m
    BY <1>1, <2>1, <2>2 DEF Unbind, EntryType
  <2>3. RemoveContents \/ Finish \/ entry' = entry
    BY <1>1 DEF Next, OpenParent, MakeDirectory, OpenRoot, Unmake, MoveOrDestroy, Use, Remove,
                Inspect, Others, Removing, Kept, vars
  <2>4. CASE RemoveContents
    <3>1. pc \in Contents /\ (Kept \/ Unbind(Top.dir, Top.name))
      BY <1>1, <2>4, ContentsStep DEF Step
    <3>2. Top.dir \in Dirs /\ Top.name \in Names /\ Top.dir \in inside
      BY <1>1, <3>1, TopType
    <3> QED
      BY <1>1, <2>2, <3>1, <3>2 DEF Kept
  <2>5. CASE Finish
    <3>1. Kept \/ Unbind(Parent, Name)
      BY <2>5 DEF Finish
    <3> QED
      BY <1>1, <2>1, <2>2, <3>1 DEF Kept
  <2> QED
    BY <1>1, <2>3, <2>4, <2>5
<1>2. Inv /\ [Next]_vars =>
        [pc # pc' /\ pc \in Removing =>
           \A d \in Dirs, n \in Names :
               entry'[d][n] # entry[d][n] => d \in inside \/ (d = Parent /\ n = Name)]_vars
  BY <1>1
<1> QED
  BY <1>2, Invariance, PTL DEF Spec, OnlyInside

\* If nobody writes and no call fails during the last attempt, Remove succeeds
\* unless something is nested too deeply, and a Make that fails leaves nothing
\* (TemporaryDirectory.cpp:416, 499).
THEOREM QuietRemovalSucceedsCorrect == Spec => []QuietRemovalSucceeds
<1>1. Inv /\ Quiet /\ [Next]_vars => Quiet'
  BY NextQuiet
<1>2. Quiet => QuietRemovalSucceeds
  BY DEF Quiet
<1> QED
  BY <1>1, <1>2, InitQuiet, Invariance, PTL DEF Spec
=============================================================================
