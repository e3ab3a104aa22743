----------------------------- MODULE AtomicFile -----------------------------
(***************************************************************************)
(* CreateFileContentsAtomic and ReplaceFileContentsAtomic                  *)
(* (lib/AtomicFile.cpp), by which the remediations write a configuration   *)
(* file: a private temporary file in the same directory is filled, flushed *)
(* and then linked or renamed to the target.  Several processes may do     *)
(* that at once, anybody else may edit, replace or delete the target at    *)
(* any moment, a process may be killed and the machine may lose power.     *)
(*                                                                         *)
(* Files are inodes.  An inode whose last name and descriptor are gone is  *)
(* free, and its number may be given to a new file: identity is compared   *)
(* by number in the code, and so it is here.                               *)
(*                                                                         *)
(* The code flushes the file but never the directory (there is no fsync    *)
(* after linkat or renameat): the kernel writes the directory back when it *)
(* likes, and the target is what it last wrote after a power loss.         *)
(***************************************************************************)
EXTENDS FiniteSets

CONSTANTS
    Processes,
    Inodes,
    Target,         \* the name of the configuration file
    Temps,          \* the names CreateTemporaryFile tries, for every process
    Metas,          \* owners, groups and modes
    Values,         \* values of an extended attribute
    Looks,          \* owner and mode, and attribute, that others give a file
    None,           \* no file under a name, no descriptor, no name, no attribute
    Foreign,        \* contents that no process of ours wrote
    Partial         \* contents that are not complete

ASSUME FileAssumption ==
    /\ Target \notin Temps
    /\ None \notin Inodes \cup Temps
    /\ {Foreign, Partial} \cap Processes = {} /\ Foreign # Partial
    /\ Metas # {} /\ None \notin Values
    /\ Looks \subseteq Metas \X (Values \cup {None})

Names == Temps \cup {Target}

\* One extended attribute stands for all of them; a file need not have it.
Attributes == Values \cup {None}

\* The contents a process writes are named after it.
Inode == [data : Processes \cup {Foreign, Partial}, synced : BOOLEAN,
          meta : Metas, attrs : Attributes]

VARIABLES
    dir, inode,     \* the directory, and the files
    disk,           \* the file the target is in the directory on disk
    pc, op,         \* of every process: where it is, in which operation
    original, meta, \* what fstatat said of the target
    source, temp,   \* the open descriptor of the target, the temporary name
    disturbed,      \* history: somebody changed the target since a replacement began
    littered        \* history: a process died, or could not unlink its file

local == <<pc, op, original, meta, temp>>
vars == <<dir, inode, disk, source, local, disturbed, littered>>

Steps == {"idle", "stat", "open", "temp", "fill", "fsync", "recheck", "install",
          "unlink"}

\* The steps at which there is a temporary file.
Filling == {"fill", "fsync", "recheck", "install", "unlink"}

TypeOK ==
    /\ dir \in [Names -> Inodes \cup {None}]
    /\ disk \in Inodes \cup {None}
    /\ inode \in [Inodes -> Inode]
    /\ pc \in [Processes -> Steps]
    /\ op \in [Processes -> {"create", "replace"}]
    /\ original \in [Processes -> Inodes \cup {None}]
    /\ meta \in [Processes -> Metas]
    /\ source \in [Processes -> Inodes \cup {None}]
    /\ temp \in [Processes -> Temps \cup {None}]
    /\ disturbed \in [Processes -> BOOLEAN]
    /\ littered \in BOOLEAN

-----------------------------------------------------------------------------
\* The metadata of a file that was just created.
Default == CHOOSE m \in Metas : TRUE

Blank == [data |-> Partial, synced |-> TRUE, meta |-> Default, attrs |-> None]

\* An inode is in use while it has a name, an open descriptor, or the name of
\* the target on disk: then its number is not given away before that is gone.
InUse(names, written, descriptors, i) ==
    \/ \E n \in Names : names[n] = i
    \/ written = i
    \/ \E p \in Processes : descriptors[p] = i

Free == {i \in Inodes : ~InUse(dir, disk, source, i)}

Links(i) == Cardinality({n \in Names : dir[n] = i})

(***************************************************************************)
(* The directory, the target on disk, the descriptors and the files after  *)
(* a step; a file that nothing refers to any more is gone.                 *)
(***************************************************************************)
Settle(names, written, descriptors, files) ==
    /\ dir' = names
    /\ disk' = written
    /\ source' = descriptors
    /\ inode' = [i \in Inodes |->
                    IF InUse(names, written, descriptors, i) THEN files[i] ELSE Blank]

Update(names, descriptors, files) == Settle(names, disk, descriptors, files)

Without(p) == [source EXCEPT ![p] = None]

\* For the replacements of others that are under way the target has changed.
Disturb(others) ==
    disturbed' = [p \in Processes |->
        (disturbed[p] \/ p \in others) /\ pc'[p] # "idle" /\ op'[p] = "replace"]

ForeignFile(l) == [data |-> Foreign, synced |-> TRUE, meta |-> l[1], attrs |-> l[2]]

Init ==
    /\ \E t \in Inodes \cup {None}, l \in Looks :
        /\ dir = [n \in Names |-> IF n = Target THEN t ELSE None]
        /\ inode = [i \in Inodes |-> IF i = t THEN ForeignFile(l) ELSE Blank]
    /\ disk = dir[Target]
    /\ pc = [p \in Processes |-> "idle"]
    /\ op = [p \in Processes |-> "replace"]
    /\ original = [p \in Processes |-> None]
    /\ meta = [p \in Processes |-> Default]
    /\ source = [p \in Processes |-> None]
    /\ temp = [p \in Processes |-> None]
    /\ disturbed = [p \in Processes |-> FALSE]
    /\ littered = FALSE

-----------------------------------------------------------------------------
Goto(p, step) ==
    /\ pc' = [pc EXCEPT ![p] = step]
    /\ UNCHANGED op

\* The local variables of a call that is over are forgotten.
Leave(p) ==
    /\ pc' = [pc EXCEPT ![p] = "idle"]
    /\ op' = [op EXCEPT ![p] = "replace"]
    /\ original' = [original EXCEPT ![p] = None]
    /\ meta' = [meta EXCEPT ![p] = Default]
    /\ temp' = [temp EXCEPT ![p] = None]

\* A call of p; the mode the caller wants for a new file is the default one.
Call(p, o) ==
    /\ pc[p] = "idle"
    /\ pc' = [pc EXCEPT ![p] = "stat"]
    /\ op' = [op EXCEPT ![p] = o]
    /\ disturbed' = [disturbed EXCEPT ![p] = FALSE]
    /\ UNCHANGED <<dir, inode, disk, source, original, meta, temp, littered>>

\* Mutant: an error return that forgets the temporary file.
FailKeepingTemp(p) ==
    /\ pc[p] \notin {"idle", "unlink"}
    /\ Update(dir, Without(p), inode)
    /\ Leave(p)
    /\ Disturb({})
    /\ UNCHANGED littered

(***************************************************************************)
(* Any system call may fail.  The descriptors are closed and the temporary *)
(* file is unlinked; that this fails too goes unnoticed.                   *)
(***************************************************************************)
Fail(p) ==
    /\ pc[p] \notin {"idle", "unlink"}
    /\ \/ /\ Update(IF pc[p] \in Filling THEN [dir EXCEPT ![temp[p]] = None] ELSE dir,
                    Without(p), inode)
          /\ UNCHANGED littered
       \/ /\ pc[p] \in Filling
          /\ Update(dir, Without(p), inode)
          /\ littered' = TRUE
    /\ Leave(p)
    /\ Disturb({})

(***************************************************************************)
(* The first fstatat.  A file to be replaced has to be there, with one     *)
(* link; a file to be created must not be.  Otherwise the call fails.      *)
(***************************************************************************)
Stat(p) ==
    /\ pc[p] = "stat"
    /\ \/ /\ op[p] = "replace"
          /\ dir[Target] # None /\ Links(dir[Target]) = 1
          /\ original' = [original EXCEPT ![p] = dir[Target]]
          /\ meta' = [meta EXCEPT ![p] = inode[dir[Target]].meta]
          /\ Goto(p, "open")
       \/ /\ op[p] = "create"
          /\ dir[Target] = None
          /\ Goto(p, "temp")
          /\ UNCHANGED <<original, meta>>
    /\ UNCHANGED <<dir, inode, disk, source, temp, disturbed, littered>>

\* Mutant: what a failed openat returns is kept as a descriptor.
OpenUnchecked(p) ==
    /\ pc[p] = "open"
    /\ source' = [source EXCEPT ![p] = IF dir[Target] = None THEN "failed" ELSE dir[Target]]
    /\ Goto(p, "temp")
    /\ UNCHANGED <<dir, inode, disk, original, meta, temp, disturbed, littered>>

\* openat and fstat: the file that was opened is the one that was inspected.
Open(p) ==
    /\ pc[p] = "open"
    /\ dir[Target] = original[p]
    /\ source' = [source EXCEPT ![p] = dir[Target]]
    /\ Goto(p, "temp")
    /\ UNCHANGED <<dir, inode, disk, original, meta, temp, disturbed, littered>>

\* O_EXCL, under the first name that is not in use.  The file may inherit an
\* attribute: the access list the directory has as a default, a label.
CreateTemporaryFile(p, t, i, a) ==
    /\ pc[p] = "temp"
    /\ dir[t] = None
    /\ i \in Free
    /\ Update([dir EXCEPT ![t] = i], source,
              [inode EXCEPT ![i] = [Blank EXCEPT !.synced = FALSE, !.attrs = a]])
    /\ temp' = [temp EXCEPT ![p] = t]
    /\ Goto(p, "fill")
    /\ UNCHANGED <<original, meta, disturbed, littered>>

\* Mutant: the extended attributes are not copied.
FillWithoutAttributes(p) ==
    /\ pc[p] = "fill"
    /\ Update(dir, source,
              [inode EXCEPT ![dir[temp[p]]].data = p, ![dir[temp[p]]].meta = meta[p]])
    /\ Goto(p, "fsync")
    /\ UNCHANGED <<original, meta, temp, disturbed, littered>>

(***************************************************************************)
(* WriteContents, fchown and fchmod, and for a replacement                 *)
(* CopyExtendedAttributes, which sets what the old file has and leaves     *)
(* alone what it has not: an inherited attribute stays.  Nobody else looks *)
(* at the temporary file while this goes on, so it is one step.            *)
(***************************************************************************)
Fill(p) ==
    /\ pc[p] = "fill"
    /\ LET t == dir[temp[p]]
           attrs == IF op[p] = "replace" /\ inode[source[p]].attrs # None
                    THEN inode[source[p]].attrs ELSE inode[t].attrs
       IN  Update(dir, source,
                  [inode EXCEPT ![t] = [data |-> p, synced |-> FALSE,
                                        meta |-> meta[p], attrs |-> attrs]])
    /\ Goto(p, "fsync")
    /\ UNCHANGED <<original, meta, temp, disturbed, littered>>

\* Mutant: the file is closed but not flushed.
CloseUnflushed(p) ==
    /\ pc[p] = "fsync"
    /\ Update(dir, Without(p), inode)
    /\ Goto(p, "recheck")
    /\ UNCHANGED <<original, meta, temp, disturbed, littered>>

\* fsync, then both descriptors are closed.
Fsync(p) ==
    /\ pc[p] = "fsync"
    /\ Update(dir, Without(p), [inode EXCEPT ![dir[temp[p]]].synced = TRUE])
    /\ Goto(p, "recheck")
    /\ UNCHANGED <<original, meta, temp, disturbed, littered>>

\* The second fstatat: the target is as it was, or the call fails.
Recheck(p) ==
    /\ pc[p] = "recheck"
    /\ dir[Target] = original[p]
    /\ Goto(p, "install")
    /\ UNCHANGED <<dir, inode, disk, source, original, meta, temp, disturbed, littered>>

\* renameat replaces whatever the name refers to by now.
Rename(p) ==
    /\ pc[p] = "install" /\ op[p] = "replace"
    /\ Update([dir EXCEPT ![Target] = dir[temp[p]], ![temp[p]] = None], source, inode)
    /\ Leave(p)
    /\ Disturb(Processes \ {p})
    /\ UNCHANGED littered

\* Mutant: a file is created by renameat, too.
LinkByRename(p) ==
    /\ pc[p] = "install" /\ op[p] = "create"
    /\ Update([dir EXCEPT ![Target] = dir[temp[p]]], source, inode)
    /\ Goto(p, "unlink")
    /\ Disturb(Processes \ {p})
    /\ UNCHANGED <<original, meta, temp, littered>>

\* linkat fails when there is a target by now.
Link(p) ==
    /\ pc[p] = "install" /\ op[p] = "create"
    /\ dir[Target] = None
    /\ Update([dir EXCEPT ![Target] = dir[temp[p]]], source, inode)
    /\ Goto(p, "unlink")
    /\ Disturb(Processes \ {p})
    /\ UNCHANGED <<original, meta, temp, littered>>

\* Mutant: the name of the new file is removed instead of the temporary one.
UnlinkTarget(p) ==
    /\ pc[p] = "unlink"
    /\ Update([dir EXCEPT ![Target] = None], source, inode)
    /\ UNCHANGED littered
    /\ Leave(p)
    /\ Disturb({})

\* The second name of the new file is removed; a failure is ignored.
UnlinkTemp(p) ==
    /\ pc[p] = "unlink"
    /\ \/ /\ Update([dir EXCEPT ![temp[p]] = None], source, inode)
          /\ UNCHANGED littered
       \/ /\ littered' = TRUE
          /\ UNCHANGED <<dir, inode, disk, source>>
    /\ Leave(p)
    /\ Disturb({})

Step(p) ==
    \/ Fail(p) \/ Stat(p) \/ Open(p)
    \/ \E t \in Temps, i \in Inodes, a \in Attributes : CreateTemporaryFile(p, t, i, a)
    \/ Fill(p) \/ Fsync(p) \/ Recheck(p)
    \/ Rename(p) \/ Link(p) \/ UnlinkTemp(p)

-----------------------------------------------------------------------------
(***************************************************************************)
(* What happens around the processes.  Other programs are taken to write   *)
(* whole files.                                                            *)
(***************************************************************************)
Kill(p) ==
    /\ pc[p] # "idle"
    /\ Update(dir, Without(p), inode)
    /\ Leave(p)
    /\ Disturb({})
    /\ littered' = TRUE

\* The kernel writes the directory back.
Writeback ==
    /\ disk # dir[Target]
    /\ Settle(dir, dir[Target], source, inode)
    /\ UNCHANGED <<local, disturbed, littered>>

(***************************************************************************)
(* The target is what was last written back, so that a rename or a link    *)
(* that was over may be undone; a temporary name may be gone, or be back   *)
(* for the file that was installed from it.  Contents that were not        *)
(* flushed may be lost; every process is gone.                             *)
(***************************************************************************)
PowerLoss ==
    /\ \E kept \in SUBSET {t \in Temps : dir[t] # None} :
       \E back \in SUBSET (Temps \ kept) :
       LET names == [n \in Names |-> IF n = Target THEN disk
                                    ELSE IF n \in kept THEN dir[n]
                                    ELSE IF n \in back THEN dir[Target] ELSE None]
       IN  Settle(names, disk, [p \in Processes |-> None],
                  [i \in Inodes |-> IF inode[i].synced THEN inode[i]
                                    ELSE [inode[i] EXCEPT !.data = Partial, !.synced = TRUE]])
    /\ pc' = [p \in Processes |-> "idle"]
    /\ op' = [p \in Processes |-> "replace"]
    /\ original' = [p \in Processes |-> None]
    /\ meta' = [p \in Processes |-> Default]
    /\ temp' = [p \in Processes |-> None]
    /\ Disturb({})
    /\ littered' = TRUE

\* chmod, setfattr or an edit in place: the inode stays.
ForeignEdit(l) ==
    /\ dir[Target] # None
    /\ Update(dir, source, [inode EXCEPT ![dir[Target]] = ForeignFile(l)])
    /\ UNCHANGED <<local, littered>>
    /\ Disturb(Processes)

\* A new file under the name, in the place of the old one if there is one.
ForeignInstall(i, l) ==
    /\ i \in Free
    /\ Update([dir EXCEPT ![Target] = i], source, [inode EXCEPT ![i] = ForeignFile(l)])
    /\ UNCHANGED <<local, littered>>
    /\ Disturb(Processes)

ForeignDelete ==
    /\ dir[Target] # None
    /\ Update([dir EXCEPT ![Target] = None], source, inode)
    /\ UNCHANGED <<local, littered>>
    /\ Disturb(Processes)

Environment ==
    \/ \E p \in Processes : Kill(p)
    \/ Writeback
    \/ PowerLoss
    \/ \E l \in Looks : ForeignEdit(l)
    \/ \E i \in Inodes, l \in Looks : ForeignInstall(i, l)
    \/ ForeignDelete

Next ==
    \/ \E p \in Processes :
        \/ \E o \in {"create", "replace"} : Call(p, o)
        \/ Step(p)
    \/ Environment

Spec == Init /\ [][Next]_vars

-----------------------------------------------------------------------------
(***************************************************************************)
(* Whoever opens the configuration file finds a whole one, whatever step a *)
(* process was killed or the power was lost at, whatever of the directory  *)
(* had reached the disk by then, and however many processes replace the    *)
(* file at once: a file gets the name only after it was filled and flushed *)
(* (AtomicFile.cpp:265 and 408).                                           *)
(***************************************************************************)
NeverTorn == dir[Target] # None => inode[dir[Target]].data # Partial

(***************************************************************************)
(* CreateFileContentsAtomic never replaces a file, also not one that       *)
(* appeared after the name was last inspected (AtomicFile.cpp:286-299);    *)
(* only a power loss takes the name back to what was on disk.              *)
(***************************************************************************)
CreateNeverReplaces ==
    [][\A p \in Processes :
        op[p] = "create" /\ pc'[p] # pc[p] /\ dir[Target] # None =>
            \/ dir'[Target] = dir[Target]
            \/ dir'[Target] = disk /\ \A q \in Processes : pc'[q] = "idle"]_vars

(***************************************************************************)
(* ReplaceFileContentsAtomic changes the contents and takes nothing away:  *)
(* unless somebody changed the file during the call, the new file has the  *)
(* owner, the mode and every extended attribute that the old one has at    *)
(* the very moment it is replaced (AtomicFile.cpp:389-407).  It may have   *)
(* an attribute more, which it inherited: nothing is ever removed from it  *)
(* (AtomicFile.cpp:137-214).                                               *)
(***************************************************************************)
Replaces(p) ==
    op[p] = "replace" /\ pc[p] = "install" /\ dir'[Target] = dir[temp[p]]

ReplacePreserves ==
    [][\A p \in Processes :
        Replaces(p) /\ ~disturbed[p] =>
            LET old == inode[dir[Target]]
                new == inode'[dir'[Target]]
            IN  /\ new.data = p /\ new.synced
                /\ new.meta = old.meta
                /\ old.attrs # None => new.attrs = old.attrs]_vars

(***************************************************************************)
(* No return path leaves a temporary file, or the second link that would   *)
(* make every later replacement refuse the target: unless a process died   *)
(* or an unlink failed, every temporary name belongs to a call that runs.  *)
(***************************************************************************)
NoLeftovers ==
    ~littered =>
        \A t \in Temps : dir[t] # None =>
            \E p \in Processes : pc[p] \in Filling /\ temp[p] = t

-----------------------------------------------------------------------------
\* What callers see of it: the contents under the name, now and after a power
\* loss, and the calls that run.
DataOf(i) == IF i = None THEN None ELSE inode[i].data

Contents == DataOf(dir[Target])

Durable == DataOf(disk)

Calls == [p \in Processes |-> CASE pc[p] = "idle" -> "idle"
                               [] pc[p] = "unlink" -> "created"
                               [] OTHER -> op[p]]

File == INSTANCE ConfigFile WITH
    contents <- Contents, durable <- Durable, call <- Calls

(***************************************************************************)
(* The two functions implement ConfigFile, on which the remediations rely: *)
(* a file changes all at once, at most once in a call, and not at all in a *)
(* call that fails (AtomicFile.cpp:217-313 and 315-451); and a power loss  *)
(* may undo a change, but leaves a file that was there as a whole.         *)
(***************************************************************************)
ImplementsConfigFile == File!Spec
=============================================================================
