------------------------- MODULE TemporaryDirectory -------------------------
(***************************************************************************)
(* The state directory of a kompli run (lib/TemporaryDirectory.cpp, owned  *)
(* by Cli::Context): made under a random name, used, and removed with what *)
(* is in it, beside processes that still write.                            *)
(*                                                                         *)
(* A descriptor is the file it refers to; a path is never resolved again   *)
(* once the parent is open.  Whoever else may write there creates, renames *)
(* and deletes anything between any two calls.  A process that dies leaves *)
(* the directory behind; that is not modelled.                             *)
(***************************************************************************)
EXTENDS Naturals, Sequences, FiniteSets

CONSTANTS
    Names, Name,       \* of directory entries; the one that Make generates
    Dirs, Files,       \* what may exist; links and pipes are Files
    Parent,            \* the validated directory for temporary files
    None,
    MaxDepth,          \* sMaxTemporaryDirectoryDepth
    Handles,           \* bound on the TemporaryDirectory objects, 1..Handles
    Disturbances       \* bound on the steps of others during one call

ASSUME DirectoryAssumption ==
    /\ Name \in Names /\ Parent \in Dirs
    /\ Dirs \cap Files = {} /\ None \notin Dirs \cup Files
    /\ IsFiniteSet(Dirs)
    /\ MaxDepth \in Nat /\ Handles \in Nat \ {0} /\ Disturbances \in Nat

VARIABLES
    entry,             \* the contents of every directory
    pc,
    root,              \* what mRoot refers to
    objects,           \* of class TemporaryDirectory: held is one with mRoot >= 0
    stack,             \* the calls of RemoveContents
    attempt, result,   \* of Remove
    disturbed,         \* steps of others during the call
    inside,            \* history: what was ever in the directory, or in such a thing
    calm, swapped      \* history, since the last inspection of the name: nobody else
                       \* did anything and no call failed; somebody moved the directory

history == <<inside, calm, swapped>>
vars == <<entry, pc, root, objects, stack, attempt, result, disturbed, history>>

Things == Dirs \cup Files

Removing == {"inspect", "open", "read", "unlink", "descend", "rmdir", "finish"}

\* One call of RemoveContents: the names readdir may still return, those among
\* them that it must, the current one, and whether all went well.
Frame == [dir : Dirs, left : SUBSET Names, must : SUBSET Names, name : Names,
          ok : BOOLEAN]

TypeOK ==
    /\ entry \in [Dirs -> [Names -> Things \cup {None}]]
    /\ pc \in {"make", "mkdir", "openroot", "unmake", "failed", "moving", "use", "done"} \cup Removing
    /\ root \in Dirs \cup {None}
    /\ objects \in [1..Handles -> {"none", "held", "removing", "moved", "gone"}]
    /\ stack \in Seq(Frame) /\ Len(stack) <= MaxDepth + 1
    /\ attempt \in 0..2 /\ result \in BOOLEAN
    /\ disturbed \in 0..Disturbances
    /\ inside \subseteq Things
    /\ calm \in BOOLEAN /\ swapped \in BOOLEAN

Init ==
    /\ \E d \in Dirs \ {Parent}, n \in Names \ {Name} :
           entry = [c \in Dirs |-> [m \in Names |-> IF c = Parent /\ m = n THEN d ELSE None]]
    /\ pc = "make" /\ root = None
    /\ objects = [o \in 1..Handles |-> "none"]
    /\ stack = <<>> /\ attempt = 0 /\ result = TRUE
    /\ disturbed = 0 /\ inside = {} /\ calm = TRUE /\ swapped = FALSE

-----------------------------------------------------------------------------
Empty(d) == \A n \in Names : entry[d][n] = None

Linked(x) == \E d \in Dirs, n \in Names : entry[d][n] = x

\* The directory and those below it are in every set that it is in and that is closed.
Below(d) ==
    LET closed == {S \in SUBSET Dirs :
                    d \in S /\ \A c \in S, n \in Names : entry[c][n] \in Dirs => entry[c][n] \in S}
    IN  {c \in Dirs : \A S \in closed : c \in S}

\* A thing, and what is below it when it is a directory.
Tree(x) ==
    {x} \cup IF x \in Dirs THEN {entry[c][n] : c \in Below(x), n \in Names} \ {None} ELSE {}

\* x is put into d, with all that it holds.
Enters(x, d) == inside' = IF d \in inside THEN inside \cup Tree(x) ELSE inside

Bind(d, n, x) ==
    /\ entry' = [entry EXCEPT ![d][n] = x]
    /\ Enters(x, d)

Unbind(d, n) ==
    /\ entry' = [entry EXCEPT ![d][n] = None]
    /\ UNCHANGED inside

Kept == UNCHANGED <<entry, inside>>

OpenDirs == {Parent, root} \cup {stack[i].dir : i \in DOMAIN stack}

\* Not in use, so that it may be created.
Fresh(x) == ~Linked(x) /\ x \notin OpenDirs

\* Mutant: without O_NOFOLLOW, for a link to the parent.
OpenFollowing(x) == IF x \in Files THEN Parent ELSE x

\* openat with O_DIRECTORY and O_NOFOLLOW.
OpenDirectory(x) == IF x \in Dirs THEN x ELSE None

\* unlinkat with AT_REMOVEDIR succeeds.
Removable(x) == x \in Dirs /\ Empty(x)

-----------------------------------------------------------------------------
(***************************************************************************)
(* Making.                                                                 *)
(***************************************************************************)

Goto(label) == pc' = label

MakeFails == Goto("failed") /\ Kept /\ UNCHANGED root

\* GetTemporaryDirectoryParent and ValidatedParent, for whatever TMPDIR says.
OpenParent ==
    /\ pc = "make"
    /\ \/ Goto("mkdir") /\ Kept /\ UNCHANGED root
       \/ MakeFails
    /\ UNCHANGED <<objects, stack, attempt, result, disturbed, calm, swapped>>

MakeDirectory ==
    /\ pc = "mkdir"
    /\ \/ /\ entry[Parent][Name] = None
          /\ \E d \in Dirs : Fresh(d) /\ Bind(Parent, Name, d)
          /\ Goto("openroot") /\ UNCHANGED root
       \/ MakeFails
    /\ UNCHANGED <<objects, stack, attempt, result, disturbed, calm, swapped>>

\* What is opened is what has the name by now.
OpenRoot ==
    /\ pc = "openroot"
    /\ LET d == OpenDirectory(entry[Parent][Name])
       IN  \/ /\ d # None
              /\ root' = d /\ inside' = Tree(d)
              /\ objects' = [objects EXCEPT ![1] = "held"]
              /\ Goto("moving")
           \/ Goto("unmake") /\ UNCHANGED <<root, objects, inside>>
    /\ UNCHANGED <<entry, stack, attempt, result, disturbed, calm, swapped>>

Unmake ==
    /\ pc = "unmake"
    /\ \/ Removable(entry[Parent][Name]) /\ Unbind(Parent, Name) /\ UNCHANGED calm
       \/ Kept /\ calm' = FALSE
    /\ Goto("failed")
    /\ UNCHANGED <<root, objects, stack, attempt, result, disturbed, swapped>>

-----------------------------------------------------------------------------
(***************************************************************************)
(* The objects.  Make's is moved into its Result, from there into the      *)
(* context, and every one of them is destroyed.                            *)
(***************************************************************************)

\* Mutant: the object moved from keeps its descriptors.
MoveKeeping(o, p) ==
    /\ objects[o] = "held" /\ objects[p] = "none"
    /\ objects' = [objects EXCEPT ![p] = "held"]

Move(o, p) ==
    /\ objects[o] = "held" /\ objects[p] = "none"
    /\ objects' = [objects EXCEPT ![o] = "moved", ![p] = "held"]

Destroy(o) ==
    /\ objects[o] = "moved"
    /\ objects' = [objects EXCEPT ![o] = "gone"]

MoveOrDestroy ==
    /\ pc = "moving"
    /\ \E o \in 1..Handles : Destroy(o) \/ \E p \in 1..Handles : Move(o, p)
    /\ UNCHANGED <<entry, pc, root, stack, attempt, result, disturbed, history>>

\* The context has it, and its temporary objects are gone.
Use ==
    /\ pc = "moving" /\ objects[Handles] = "held"
    /\ \A o \in 1..Handles - 1 : objects[o] = "gone"
    /\ Goto("use")
    /\ UNCHANGED <<entry, root, objects, stack, attempt, result, disturbed, history>>

\* Asked for, or by the destructor; with mRoot < 0 it does nothing.
Remove(o) ==
    /\ pc \in {"moving", "use"} /\ objects[o] = "held"
    /\ objects' = [objects EXCEPT ![o] = "removing"]
    /\ Goto("inspect") /\ attempt' = 0 /\ result' = TRUE /\ disturbed' = 0
    /\ UNCHANGED <<entry, root, stack, history>>

-----------------------------------------------------------------------------
(***************************************************************************)
(* RemoveContents.                                                         *)
(***************************************************************************)

Top == stack[Len(stack)]
Rest == SubSeq(stack, 1, Len(stack) - 1)

Failed(frame) == [frame EXCEPT !.ok = FALSE]

\* The current name is done with.
NextName(frame) == Goto("read") /\ stack' = Rest \o <<frame>>

Depth == Len(stack) - 1

AtLimit == Depth >= MaxDepth

Opening(d) == [dir |-> d, left |-> Names, must |-> {}, name |-> Name, ok |-> TRUE]

\* Mutant: what the first attempt met is held against the second.
ReturnAccumulating(ok) ==
    IF Depth = 0
    THEN stack' = <<>> /\ result' = (result /\ ok) /\ Goto("finish")
    ELSE /\ stack' = IF ok THEN Rest
                     ELSE SubSeq(Rest, 1, Depth - 1) \o <<Failed(Rest[Depth])>>
         /\ Goto("rmdir") /\ UNCHANGED result

\* From a call of RemoveContents to its caller.
Return(ok) ==
    IF Depth = 0
    THEN stack' = <<>> /\ result' = ok /\ Goto("finish")
    ELSE /\ stack' = IF ok THEN Rest
                     ELSE SubSeq(Rest, 1, Depth - 1) \o <<Failed(Rest[Depth])>>
         /\ Goto("rmdir") /\ UNCHANGED result

Enumerate ==
    /\ pc = "open"
    /\ \/ /\ NextName([Top EXCEPT !.must = {n \in Names : entry[Top.dir][n] # None}])
          /\ UNCHANGED <<result, calm>>
       \/ Return(FALSE) /\ calm' = FALSE
    /\ Kept /\ UNCHANGED attempt

\* readdir and fstatat; a name that is gone by then is passed over.
Visit(n) ==
    LET x == entry[Top.dir][n]
        frame == [Top EXCEPT !.left = @ \ {n}, !.must = @ \ {n}, !.name = n]
        Start(label) == Goto(label) /\ stack' = Rest \o <<frame>>
    IN  /\ pc = "read" /\ n \in Top.left /\ x # None
        /\ \/ x \in Files /\ Start("unlink") /\ UNCHANGED calm
           \/ x \in Dirs /\ ~AtLimit /\ Start("descend") /\ UNCHANGED calm
           \/ x \in Dirs /\ AtLimit /\ NextName(Failed(frame)) /\ UNCHANGED calm
           \/ NextName(Failed(frame)) /\ calm' = FALSE
        /\ Kept /\ UNCHANGED <<attempt, result>>

\* Every name that was there all the time has been returned.
EndOfDirectory ==
    /\ pc = "read"
    /\ \/ Top.must = {} /\ Return(Top.ok) /\ UNCHANGED calm
       \/ Return(FALSE) /\ calm' = FALSE
    /\ Kept /\ UNCHANGED attempt

Descend ==
    /\ pc = "descend"
    /\ LET d == OpenDirectory(entry[Top.dir][Top.name])
       IN  \/ /\ d # None
              /\ Goto("open") /\ stack' = Append(stack, Opening(d)) /\ UNCHANGED calm
           \/ NextName(Failed(Top)) /\ calm' = FALSE
    /\ Kept /\ UNCHANGED <<attempt, result>>

\* What an unlinkat does that removes what is removable; a name that is gone
\* already is no failure.
UnlinkAt(removable) ==
    LET x == entry[Top.dir][Top.name]
    IN  \/ removable /\ Unbind(Top.dir, Top.name) /\ NextName(Top) /\ UNCHANGED calm
        \/ x = None /\ Kept /\ NextName(Top) /\ UNCHANGED calm
        \/ x # None /\ ~removable /\ Kept /\ NextName(Failed(Top)) /\ UNCHANGED calm
        \/ Kept /\ NextName(Failed(Top)) /\ calm' = FALSE

Unlink ==
    /\ pc = "unlink"
    /\ UnlinkAt(entry[Top.dir][Top.name] \in Files)
    /\ UNCHANGED <<attempt, result>>

RemoveDirectory ==
    /\ pc = "rmdir"
    /\ UnlinkAt(Removable(entry[Top.dir][Top.name]))
    /\ UNCHANGED <<attempt, result>>

-----------------------------------------------------------------------------
(***************************************************************************)
(* Remove.                                                                 *)
(***************************************************************************)

\* mRoot and mParent are closed.
Finished == [o \in 1..Handles |-> IF objects[o] = "removing" THEN "moved" ELSE objects[o]]

Inspect ==
    /\ pc = "inspect"
    /\ \/ /\ entry[Parent][Name] = root
          /\ Goto("open") /\ stack' = <<Opening(root)>> /\ attempt' = attempt + 1
          /\ calm' = TRUE /\ swapped' = FALSE
          /\ UNCHANGED <<objects, result>>
       \/ \* absent, replaced, or not to be inspected
          /\ Goto("done") /\ result' = FALSE /\ objects' = Finished /\ calm' = FALSE
          /\ UNCHANGED <<stack, attempt, swapped>>
    /\ Kept /\ UNCHANGED <<root, disturbed>>

\* Mutant: the failure to remove the directory itself is lost.
NotRemovedUnnoticed == UNCHANGED result

NotRemoved == result' = FALSE

Finish ==
    LET x == entry[Parent][Name]
        Done == Goto("done") /\ objects' = Finished
    IN  /\ pc = "finish"
        /\ \/ /\ Removable(x) /\ Unbind(Parent, Name)
              /\ Done /\ UNCHANGED <<result, calm>>
           \/ /\ x \in Dirs /\ ~Empty(x) /\ attempt < 2
              /\ Goto("inspect") /\ NotRemoved
              /\ Kept /\ UNCHANGED <<objects, calm>>
           \/ /\ ~Removable(x) /\ (x \in Dirs => attempt = 2)
              /\ Done /\ NotRemoved /\ Kept /\ UNCHANGED calm
           \/ Done /\ NotRemoved /\ Kept /\ calm' = FALSE
        /\ UNCHANGED <<root, stack, attempt, disturbed, swapped>>

RemoveContents ==
    /\ Enumerate \/ EndOfDirectory \/ Descend \/ Unlink \/ RemoveDirectory
       \/ \E n \in Names : Visit(n)
    /\ UNCHANGED <<root, objects, disturbed, swapped>>

-----------------------------------------------------------------------------
(***************************************************************************)
(* Everybody else: the audits of the run while it lasts, what they left    *)
(* running, and other programs.                                            *)
(***************************************************************************)

\* A readdir under way need no longer return these.
Touched(places) ==
    stack' = [i \in DOMAIN stack |->
                 [stack[i] EXCEPT !.must = {n \in @ : <<stack[i].dir, n>> \notin places}]]

Create(x, d, n) ==
    /\ entry[d][n] = None /\ Fresh(x)
    /\ Bind(d, n, x)
    /\ Touched({<<d, n>>}) /\ UNCHANGED swapped

Rename(c, m, d, n) ==
    LET x == entry[c][m]
    IN  /\ x # None /\ entry[d][n] = None /\ d \notin Tree(x)
        /\ entry' = [entry EXCEPT ![c][m] = None, ![d][n] = x]
        /\ Enters(x, d)
        /\ Touched({<<c, m>>, <<d, n>>})
        /\ swapped' = (swapped \/ x = root)

Delete(d, n) ==
    /\ entry[d][n] \in Files \/ Removable(entry[d][n])
    /\ Unbind(d, n)
    /\ Touched({<<d, n>>})
    /\ swapped' = (swapped \/ entry[d][n] = root)

Others ==
    /\ pc \notin {"make", "failed", "done"}
    /\ pc # "use" => disturbed < Disturbances
    /\ disturbed' = IF pc = "use" THEN disturbed ELSE disturbed + 1
    /\ calm' = FALSE
    /\ \E d \in Dirs, n \in Names :
           /\ d = Parent \/ Linked(d)
           /\ \/ \E x \in Things : Create(x, d, n)
              \/ \E c \in Dirs, m \in Names : Rename(c, m, d, n)
              \/ Delete(d, n)
    /\ UNCHANGED <<pc, root, objects, attempt, result>>

Next ==
    \/ OpenParent \/ MakeDirectory \/ OpenRoot \/ Unmake
    \/ MoveOrDestroy \/ Use \/ \E o \in 1..Handles : Remove(o)
    \/ Inspect \/ RemoveContents \/ Finish
    \/ Others

Spec == Init /\ [][Next]_vars

-----------------------------------------------------------------------------
(***************************************************************************)
(* The cleanup removes an entry only from a directory that is, or was, in  *)
(* the temporary directory (links are not followed, TemporaryDirectory.cpp *)
(* :271, 301), or else its own name, also when what is found there is      *)
(* exchanged between two calls.                                            *)
(***************************************************************************)
OnlyInside ==
    [][pc # pc' /\ pc \in Removing =>
           \A d \in Dirs, n \in Names :
               entry'[d][n] # entry[d][n] => d \in inside \/ (d = Parent /\ n = Name)]_vars

(***************************************************************************)
(* Remove says that it succeeded only if the directory is gone, whatever   *)
(* was created in it meanwhile and whatever failed (TemporaryDirectory.cpp *)
(* :437-456); but it does not notice a directory exchanged for another     *)
(* after the inspection.                                                   *)
(***************************************************************************)
SuccessIsGone == pc = "done" /\ result /\ ~swapped => ~Linked(root)

\* A directory is further below the root than RemoveContents goes.
TooDeep ==
    \E path \in [0..MaxDepth + 1 -> Dirs] :
        /\ path[0] = root
        /\ \A i \in 1..MaxDepth + 1 : \E n \in Names : entry[path[i - 1]][n] = path[i]

(***************************************************************************)
(* If nobody writes and no call fails during the last of its attempts,     *)
(* Remove succeeds, unless something is nested too deeply: the second      *)
(* attempt makes up for what was created or failed during the first        *)
(* (TemporaryDirectory.cpp:416).  A Make that fails leaves nothing (:499). *)
(***************************************************************************)
QuietRemovalSucceeds ==
    /\ pc = "done" /\ calm => result \/ TooDeep
    /\ pc = "failed" /\ calm => entry[Parent][Name] = None

(***************************************************************************)
(* The directory is removed by its last owner: while a TemporaryDirectory  *)
(* holds it, the destruction of those it was moved from leaves it alone    *)
(* (TemporaryDirectory.cpp:387-388, 393).                                  *)
(***************************************************************************)
KeptWhileHeld == pc \in Removing => \A o \in 1..Handles : objects[o] # "held"
=============================================================================
