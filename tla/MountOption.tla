---------------------------- MODULE MountOption ----------------------------
(***************************************************************************)
(* The audit and the remediation of mount options                          *)
(* (lib/procedures/FilesystemMountOption.cpp).  The audit reads /etc/mtab. *)
(* The remediation reads /etc/fstab, writes it with one line changed to    *)
(* /etc/fstab.tmp, renames /etc/fstab to a backup named after the second   *)
(* and the temporary file to /etc/fstab, and then has the file system      *)
(* remounted.  None of this goes through AtomicFile.                       *)
(*                                                                         *)
(* Several processes may remediate at once, an administrator edits         *)
(* /etc/fstab, any call may fail and a process may be killed between any   *)
(* two steps.  A text is a sequence of lines; it is short enough for the   *)
(* stream to write it in one piece when it is closed.                      *)
(***************************************************************************)
EXTENDS Naturals, Sequences, FiniteSets

CONSTANTS
    Processes,
    Points,             \* mount points
    Options, Zero,      \* Zero is the option "0"
    Comment,            \* a line that begins with # or is empty
    Indented,           \* a blank or commented line that begins with white space
    Unended,            \* a comment without a newline, at the end of a file
    Texts,              \* of fstab, that somebody may write
    Mounts,             \* how the points may be mounted at first
    Requests,           \* [point, required, forbidden] of a remediation
    Fstab, Tmp,         \* names in /etc
    Inodes, LastSecond, MaxEdits,   \* bounds
    Absent, None

Seconds == 0..LastSecond
Names == {Fstab, Tmp} \cup Seconds      \* a second stands for fstab.bak.<second>
IsEntry(line) == line \notin {Comment, Indented, Unended}

Entries == [point : Points, options : SUBSET (Options \cup {Zero})]
Lines == {Comment, Indented, Unended} \cup Entries

\* What ParseFstab finds out about a mount point.
Parsed == [lineno : Nat, options : SUBSET (Options \cup {Zero})]

ASSUME MountOptionAssumption ==
    /\ LastSecond \in Nat /\ MaxEdits \in Nat
    /\ Inodes \subseteq Nat /\ IsFiniteSet(Inodes) /\ 1 \in Inodes
    /\ Zero \notin Options /\ Fstab # Tmp /\ {Fstab, Tmp} \cap Seconds = {}
    /\ {Comment, Indented, Unended} \cap Entries = {}
    /\ Absent \notin Inodes /\ None \notin Parsed /\ None # "Compliant"
    /\ Mounts \subseteq [Points -> {None} \cup SUBSET Options]
    /\ Texts \subseteq Seq(Lines)
    /\ \A r \in Requests : /\ r.point \in Points
                           /\ r.required \cup r.forbidden \subseteq Options

VARIABLES
    dir, contents,      \* the directory /etc and its inodes
    mtab,               \* the options every point is mounted with, or None
    now, edits,
    pc, request,
    entry,              \* what the process has read of fstab about its point
    mounted,            \* what it has read of mtab about its point
    source, sink,       \* the inodes it copies from and to
    result,
    before,             \* history: fstab when the call began, as long as nobody
                        \* else has changed anything and no write failed
    meant,              \* history: every text somebody meant fstab to have
    backedUp,           \* history: every text a remediation moved away
    mishaps             \* history: what went wrong that nothing in the code
                        \* notices

files == <<dir, contents>>
locals == <<request, entry, mounted, source, sink>>
mountVars == <<files, mtab, now, edits, pc, locals, result, before, meant, backedUp, mishaps>>

MountInit ==
    /\ \E t \in Texts :
        /\ contents = [i \in Inodes |-> IF i = 1 THEN t ELSE <<>>]
        /\ meant = {t}
    /\ dir = [n \in Names |-> IF n = Fstab THEN 1 ELSE Absent]
    /\ mtab \in Mounts
    /\ now = 0 /\ edits = 0
    /\ pc = [p \in Processes |-> "idle"]
    /\ request = [p \in Processes |-> None]
    /\ entry = [p \in Processes |-> None]
    /\ mounted = [p \in Processes |-> None]
    /\ source = [p \in Processes |-> Absent]
    /\ sink = [p \in Processes |-> Absent]
    /\ result = [p \in Processes |-> None]
    /\ before = [p \in Processes |-> None]
    /\ backedUp = {} /\ mishaps = {}

-----------------------------------------------------------------------------
(***************************************************************************)
(* ParseFstab.  The lines are counted by the turns of the loop.  A turn    *)
(* reads a comment or calls getmntent, which passes over any number of     *)
(* blank and commented lines until it has an entry: they are counted as    *)
(* one with the entry if the first of them begins with white space.        *)
(***************************************************************************)
InsideGetmntent(t, k) ==
    \E i \in 1..(k - 1) : /\ t[i] = Indented
                          /\ \A j \in i..(k - 1) : ~IsEntry(t[j])

\* The line counted after it is parsed.
LineNumberFromZero(t, k) == Cardinality({j \in 1..(k - 1) : ~InsideGetmntent(t, j)})

LineNumber(t, k) == Cardinality({j \in 1..k : ~InsideGetmntent(t, j)})

EntriesFor(t, point) == {k \in DOMAIN t : IsEntry(t[k]) /\ t[k].point = point}

\* A later entry of the same mount point takes the place of an earlier one.
LastEntry(t, point) ==
    CHOOSE k \in EntriesFor(t, point) : \A j \in EntriesFor(t, point) : j <= k

ParseFstab(t, point) ==
    IF EntriesFor(t, point) = {} THEN None
    ELSE LET k == LastEntry(t, point)
         IN [lineno |-> LineNumber(t, k), options |-> t[k].options]

\* At the end of the file the loop over a comment waits for a newline forever.
NeverParsed(t) == \E k \in DOMAIN t : t[k] = Unended /\ ~InsideGetmntent(t, k)

CheckOptions(options, r) == r.required \subseteq options /\ r.forbidden \cap options = {}

\* The audit, of one mount point or of all that a pattern matches.
Audit(matching, requireMountpoint, r) ==
    LET found == {m \in matching : mtab[m] # None}
    IN /\ \A m \in found : CheckOptions(mtab[m], r)
       /\ requireMountpoint => found # {}

(***************************************************************************)
(* The changed line.  Every option is followed by a comma, and the last    *)
(* character is overwritten; if there is no option, that is the blank      *)
(* before them, and the next field, 0, becomes the options.                *)
(***************************************************************************)
Changed(options, r) ==
    LET kept == (options \ r.forbidden) \cup (r.required \ options)
    IN IF kept = {} THEN {Zero} ELSE kept

Rewritten(t, e, r) ==
    [k \in DOMAIN t |->
        IF k = e.lineno THEN [point |-> r.point, options |-> Changed(e.options, r)]
        ELSE IF t[k] = Unended THEN Comment ELSE t[k]]

-----------------------------------------------------------------------------
Running(p) == pc[p] \notin {"idle", "done"}
Text(name) == contents[dir[name]]
Used == {dir[n] : n \in Names} \cup {source[p] : p \in Processes} \cup {sink[p] : p \in Processes}
Fresh(i) == /\ i \in Inodes \ Used
            /\ \A j \in Inodes \ Used : i <= j
Goto(p, step) == pc' = [pc EXCEPT ![p] = step]

\* What a process did others have not done.
Disturb(own) == before' = [q \in Processes |-> IF q \in own THEN before[q] ELSE None]

Answer(p, r) ==
    /\ Goto(p, "done")
    /\ result' = [result EXCEPT ![p] = r]
    /\ source' = [source EXCEPT ![p] = Absent]
    /\ sink' = [sink EXCEPT ![p] = Absent]
    /\ entry' = [entry EXCEPT ![p] = None]
    /\ mounted' = [mounted EXCEPT ![p] = None]
    /\ request' = [request EXCEPT ![p] = IF r = "Compliant" THEN @ ELSE None]

\* An error is answered, or the process is killed and nobody answers.
Fails(p) ==
    /\ Answer(p, "Error")
    /\ before' = [before EXCEPT ![p] = None]
    /\ UNCHANGED <<files, meant, backedUp, mishaps>>

Call(p) ==
    /\ pc[p] = "idle"
    /\ Goto(p, "readFstab")
    /\ \E r \in Requests : request' = [request EXCEPT ![p] = r]
    /\ before' = [before EXCEPT ![p] = IF dir[Fstab] = Absent THEN None ELSE Text(Fstab)]
    /\ UNCHANGED <<files, mtab, now, edits, entry, mounted, source, sink, result, meant, backedUp, mishaps>>

ReadFstab(p) ==
    /\ pc[p] = "readFstab"
    /\ \/ Fails(p)
       \/ /\ dir[Fstab] # Absent
          /\ IF NeverParsed(Text(Fstab))
             THEN Goto(p, "hangs") /\ UNCHANGED entry
             ELSE /\ Goto(p, "readMtab")
                  /\ entry' = [entry EXCEPT ![p] = ParseFstab(Text(Fstab), request[p].point)]
          /\ UNCHANGED <<files, request, mounted, source, sink, result, before, meant,
                         backedUp, mishaps>>
    /\ UNCHANGED <<mtab, now, edits>>

\* Whether there is anything to change in fstab.
ReadMtab(p) ==
    /\ pc[p] = "readMtab"
    /\ \/ Fails(p)
       \/ /\ mounted' = [mounted EXCEPT ![p] = mtab[request[p].point]]
          /\ Goto(p, IF entry[p] # None /\ ~CheckOptions(entry[p].options, request[p])
                     THEN "openFstab" ELSE "remount")
          /\ UNCHANGED <<files, request, entry, source, sink, result, before, meant,
                         backedUp, mishaps>>
    /\ UNCHANGED <<mtab, now, edits>>

\* A stream that could not be opened reads as an empty file.
OpenFstab(p) ==
    /\ pc[p] = "openFstab"
    /\ Goto(p, "openTmp")
    /\ \/ /\ dir[Fstab] # Absent
          /\ source' = [source EXCEPT ![p] = dir[Fstab]]
          /\ UNCHANGED <<before, mishaps>>
       \/ /\ mishaps' = mishaps \cup {"unread"}
          /\ before' = [before EXCEPT ![p] = None]
          /\ UNCHANGED source
    /\ UNCHANGED <<files, mtab, now, edits, request, entry, mounted, sink, result, meant,
                   backedUp>>

\* Others are between the opening of the temporary file and the last rename.
Sharing(p) ==
    {m \in {"shared"} : \E q \in Processes \ {p} : pc[q] \in {"copy", "backup", "install"}}

\* The name of the temporary file is fixed: an old one is truncated, whoever uses it.
OpenTmp(p) ==
    /\ pc[p] = "openTmp"
    /\ Goto(p, "copy")
    /\ \/ /\ dir[Tmp] # Absent
          /\ contents' = [contents EXCEPT ![dir[Tmp]] = <<>>]
          /\ sink' = [sink EXCEPT ![p] = dir[Tmp]]
          /\ mishaps' = mishaps \cup Sharing(p)
          /\ UNCHANGED dir
          /\ Disturb({p})
       \/ \E i \in Inodes :
          /\ dir[Tmp] = Absent /\ Fresh(i)
          /\ dir' = [dir EXCEPT ![Tmp] = i]
          /\ contents' = [contents EXCEPT ![i] = <<>>]
          /\ sink' = [sink EXCEPT ![p] = i]
          /\ mishaps' = mishaps \cup Sharing(p)
          /\ Disturb({p})
       \/ /\ mishaps' = mishaps \cup Sharing(p) \cup {"unwritten"}
          /\ before' = [q \in Processes |-> None]
          /\ UNCHANGED <<files, sink>>
    /\ UNCHANGED <<mtab, now, edits, request, entry, mounted, source, result, meant, backedUp>>

\* The stream left open until after the renames.
OverUnclosed(t, old) == old

\* What is written to the temporary file when it is closed, over what is there.
Over(t, old) == t \o SubSeq(old, Len(t) + 1, Len(old))

\* The loop over the lines; the state of the streams is never looked at.
Copy(p) ==
    /\ pc[p] = "copy"
    /\ Goto(p, "backup")
    /\ LET t == IF source[p] = Absent THEN <<>>
                ELSE Rewritten(contents[source[p]], entry[p], request[p])
       IN /\ meant' = IF source[p] = Absent THEN meant ELSE meant \cup {t}
          /\ \/ /\ sink[p] # Absent
                /\ contents' = [contents EXCEPT ![sink[p]] = Over(t, @)]
                /\ Disturb({p})
                /\ UNCHANGED mishaps
             \/ \E n \in 0..(Len(t) - 1) :
                /\ IF sink[p] = Absent THEN UNCHANGED contents
                   ELSE contents' = [contents EXCEPT ![sink[p]] = Over(SubSeq(t, 1, n), @)]
                /\ mishaps' = mishaps \cup {"unwritten"}
                /\ before' = [q \in Processes |-> None]
             \/ /\ sink[p] = Absent /\ t = <<>>
                /\ UNCHANGED <<contents, mishaps, before>>
    /\ source' = [source EXCEPT ![p] = Absent]
    /\ sink' = [sink EXCEPT ![p] = Absent]
    /\ UNCHANGED <<dir, mtab, now, edits, request, entry, mounted, result, backedUp>>

Renamed(from, to) == [dir EXCEPT ![to] = dir[from], ![from] = Absent]

\* A second backup of the same second takes the place of the first.
Backup(p) ==
    /\ pc[p] = "backup"
    /\ \/ Fails(p)
       \/ /\ dir[Fstab] # Absent
          /\ backedUp' = backedUp \cup {Text(Fstab)}
          /\ mishaps' = IF dir[now] = Absent THEN mishaps ELSE mishaps \cup {"second"}
          /\ dir' = Renamed(Fstab, now)
          /\ Goto(p, "install")
          /\ Disturb({p})
          /\ UNCHANGED <<contents, locals, result, meant>>
    /\ UNCHANGED <<mtab, now, edits>>

Install(p) ==
    /\ pc[p] = "install"
    /\ \/ Fails(p)
       \/ /\ dir[Tmp] # Absent
          /\ dir' = Renamed(Tmp, Fstab)
          /\ Goto(p, "remount")
          /\ Disturb({p})
          /\ UNCHANGED <<contents, locals, result, meant, backedUp, mishaps>>
    /\ UNCHANGED <<mtab, now, edits>>

(***************************************************************************)
(* mount -o remount takes the options of a point from fstab and leaves a   *)
(* point that is not there as it is.                                       *)
(***************************************************************************)
MountedAs(point) ==
    IF dir[Fstab] = Absent \/ EntriesFor(Text(Fstab), point) = {} THEN mtab[point]
    ELSE Text(Fstab)[LastEntry(Text(Fstab), point)].options

Remount(p) ==
    /\ pc[p] = "remount"
    /\ LET point == request[p].point
       IN IF mounted[p] = None \/ CheckOptions(mounted[p], request[p])
          THEN /\ Answer(p, "Compliant")
               /\ UNCHANGED <<files, mtab, before, meant, backedUp, mishaps>>
          ELSE \/ Fails(p) /\ UNCHANGED mtab
               \/ /\ mtab[point] # None
                  /\ mtab' = [mtab EXCEPT ![point] = MountedAs(point)]
                  /\ Answer(p, "Compliant")
                  /\ Disturb({p})
                  /\ UNCHANGED <<files, meant, backedUp, mishaps>>
    /\ UNCHANGED <<now, edits>>

Killed(p) ==
    /\ Running(p)
    /\ Fails(p)
    /\ UNCHANGED <<mtab, now, edits>>

\* An administrator writes another fstab in place of the old one, if there is one.
Edit ==
    /\ edits < MaxEdits
    /\ edits' = edits + 1
    /\ \E t \in Texts, i \in Inodes :
        /\ Fresh(i)
        /\ contents' = [contents EXCEPT ![i] = t]
        /\ dir' = [dir EXCEPT ![Fstab] = i]
        /\ meant' = meant \cup {t}
    /\ Disturb({})
    /\ UNCHANGED <<mtab, now, pc, locals, result, backedUp, mishaps>>

Tick ==
    /\ now < LastSecond
    /\ now' = now + 1
    /\ UNCHANGED <<files, mtab, edits, pc, locals, result, before, meant, backedUp, mishaps>>

Step(p) ==
    \/ Call(p) \/ ReadFstab(p) \/ ReadMtab(p) \/ OpenFstab(p) \/ OpenTmp(p) \/ Copy(p)
    \/ Backup(p) \/ Install(p) \/ Remount(p) \/ Killed(p)

MountNext == (\E p \in Processes : Step(p)) \/ Edit \/ Tick

MountSpec == MountInit /\ [][MountNext]_mountVars

-----------------------------------------------------------------------------
(***************************************************************************)
(* Properties                                                              *)
(***************************************************************************)

\* The types of the variables.
MountTypeOK ==
    /\ dir \in [Names -> Inodes \cup {Absent}]
    /\ contents \in [Inodes -> Seq(Lines)]
    /\ mtab \in [Points -> {None} \cup SUBSET (Options \cup {Zero})]
    /\ now \in Seconds /\ edits \in 0..MaxEdits
    /\ pc \in [Processes -> {"idle", "readFstab", "hangs", "readMtab", "openFstab", "openTmp",
                             "copy", "backup", "install", "remount", "done"}]
    /\ request \in [Processes -> {None} \cup Requests]
    /\ entry \in [Processes -> {None} \cup Parsed]
    /\ mounted \in [Processes -> {None} \cup SUBSET (Options \cup {Zero})]
    /\ source \in [Processes -> Inodes \cup {Absent}]
    /\ sink \in [Processes -> Inodes \cup {Absent}]
    /\ result \in [Processes -> {None, "Compliant", "Error"}]
    /\ before \in [Processes -> {None} \cup Seq(Lines)]
    /\ meant \subseteq Seq(Lines) /\ backedUp \subseteq Seq(Lines)
    /\ mishaps \subseteq {"unread", "shared", "unwritten", "second"}

\* Every text that a remediation moved away is still there under the name of
\* a backup, and the file system table, when it is there, is a whole text that
\* somebody meant it to be: whoever is killed, and whichever rename fails.  The
\* code does not promise it after a write that failed, after fstab could not be
\* opened for the copy, when two backups fall in one second, or when one
\* remediation opens the temporary file while another has not yet renamed it.
Recoverable ==
    /\ mishaps \cap {"second", "shared"} = {} =>
        \A t \in backedUp : \E s \in Seconds : dir[s] # Absent /\ Text(s) = t
    /\ mishaps = {} =>
        IF dir[Fstab] = Absent THEN backedUp # {} ELSE Text(Fstab) \in meant

\* What a remediation that nobody disturbed has done to fstab: line k, which is
\* the entry of its mount point, is as it was asked for, keeps every option that
\* is not forbidden, and no other line is another.
OnlyEntryChanged(old, new, r) ==
    /\ DOMAIN new = DOMAIN old
    /\ \E k \in EntriesFor(old, r.point) :
        /\ \A j \in DOMAIN old \ {k} : new[j] = old[j]
        /\ IsEntry(new[k])
        /\ new[k].point = r.point
        /\ CheckOptions(new[k].options, r)
        /\ old[k].options \ r.forbidden \subseteq new[k].options

Sensible(r) == r.required \cap r.forbidden = {}
Once(t, point) == Cardinality(EntriesFor(t, point)) = 1
HasIndented(t) == \E k \in DOMAIN t : t[k] = Indented

Undisturbed(p) == result[p] = "Compliant" /\ before[p] # None

\* When a remediation that nobody disturbed answers Compliant, and fstab has one
\* entry of the mount point, then that entry is the only line it changed, both
\* the entry and the mounted file system have the options asked for, and the
\* audit that follows finds the same.  A fstab with a comment that begins with
\* white space is excepted: see KeepsOtherLines.
CompliantIsWritten ==
    \A p \in Processes :
        Undisturbed(p) /\ Sensible(request[p]) /\ Once(before[p], request[p].point)
            /\ ~HasIndented(before[p])
        => /\ dir[Fstab] # Absent
           /\ OnlyEntryChanged(before[p], Text(Fstab), request[p])
           /\ Audit({request[p].point}, FALSE, request[p])

\* "Preserve comments and empty lines." (FilesystemMountOption.cpp:51): a
\* remediation that nobody disturbed leaves all lines but its entry's alone.
KeepsOtherLines ==
    \A p \in Processes :
        Undisturbed(p) /\ Sensible(request[p]) /\ Once(before[p], request[p].point)
        => OnlyEntryChanged(before[p], Text(Fstab), request[p])

=============================================================================
