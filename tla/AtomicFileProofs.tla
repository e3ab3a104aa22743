-------------------------- MODULE AtomicFileProofs --------------------------
(***************************************************************************)
(* Proofs about AtomicFile, for every set of processes, inodes, temporary  *)
(* names and metadata.                                                     *)
(*                                                                         *)
(* What makes the file whole is that nobody but its owner knows the inode  *)
(* of a temporary file until it is linked or renamed.  The invariant says  *)
(* so: a call that writes owns its temporary name (Own), no two calls own  *)
(* the same one (Apart), the inode has no other name, nor is it the target *)
(* on disk (Private), and it is filled and flushed by the time it is       *)
(* installed (Filled).  The file a power loss brings back is one that was  *)
(* installed once, and so it is whole, too (TargetWhole).  What makes a    *)
(* replacement preserve the metadata is that what the call remembers of    *)
(* the target is still so unless somebody else changed it (Remembered).    *)
(***************************************************************************)
EXTENDS AtomicFile, TLAPS

\* The steps at which the temporary file has no other name.
Writing == Filling \ {"unlink"}

Own(p) == pc[p] \in Filling => temp[p] \in Temps /\ dir[temp[p]] \in Inodes

Private(p) ==
    pc[p] \in Writing =>
        /\ \A n \in Names : n # temp[p] => dir[n] # dir[temp[p]]
        /\ disk # dir[temp[p]]

Filled(p) ==
    /\ pc[p] \in {"fsync", "recheck", "install"} => inode[dir[temp[p]]].data = p
    /\ pc[p] \in {"recheck", "install"} => inode[dir[temp[p]]].synced

\* A replacement holds the file it replaces open until the new one is written.
Opened(p) ==
    op[p] = "replace" =>
        /\ pc[p] = "open" => original[p] \in Inodes
        /\ pc[p] \in {"temp", "fill", "fsync"} => source[p] \in Inodes

Apart ==
    \A p, q \in Processes :
        p # q /\ pc[p] \in Filling /\ pc[q] \in Filling => temp[p] # temp[q]

TargetWhole ==
    \A i \in {dir[Target], disk} :
        i # None => inode[i].synced /\ inode[i].data # Partial

Safe ==
    /\ \A p \in Processes : Own(p)
    /\ \A p \in Processes : Private(p)
    /\ \A p \in Processes : Filled(p)
    /\ \A p \in Processes : Opened(p)
    /\ Apart
    /\ TargetWhole

Inv == TypeOK /\ Safe

\* What the call of p knows of the target is so.
Remembered(p) ==
    op[p] = "replace" /\ ~disturbed[p] =>
        /\ pc[p] \notin {"idle", "stat", "unlink"} =>
            /\ original[p] \in Inodes
            /\ dir[Target] = original[p]
            /\ inode[original[p]].meta = meta[p]
        /\ pc[p] \in {"temp", "fill", "fsync"} => source[p] = original[p]
        /\ pc[p] \in {"fsync", "recheck", "install"} =>
            /\ inode[dir[temp[p]]].meta = meta[p]
            /\ inode[original[p]].attrs # None =>
                   inode[dir[temp[p]]].attrs = inode[original[p]].attrs

Memory == \A p \in Processes : Remembered(p)

-----------------------------------------------------------------------------
LEMMA BlankType == Default \in Metas /\ Blank \in Inode
  <1>1. Default \in Metas
    BY FileAssumption DEF Default
  <1> QED
    BY <1>1 DEF Blank, Inode, Attributes

\* What a step leaves behind: a file that has a name is there, on disk as well.
LEMMA SettleKeeps ==
    ASSUME NEW names \in [Names -> Inodes \cup {None}], NEW written,
           NEW descriptors \in [Processes -> Inodes \cup {None}],
           NEW files \in [Inodes -> Inode],
           Settle(names, written, descriptors, files)
    PROVE  /\ dir' = names
           /\ source' = descriptors
           /\ disk' = written
           /\ inode' \in [Inodes -> Inode]
           /\ \A n \in Names : names[n] \in Inodes => inode'[names[n]] = files[names[n]]
           /\ written \in Inodes => inode'[written] = files[written]
  <1>1. /\ \A n \in Names : names[n] \in Inodes =>
            InUse(names, written, descriptors, names[n])
        /\ InUse(names, written, descriptors, written)
    BY DEF InUse
  <1> QED
    BY <1>1, BlankType DEF Settle

LEMMA UpdateKeeps ==
    ASSUME NEW names \in [Names -> Inodes \cup {None}],
           NEW descriptors \in [Processes -> Inodes \cup {None}],
           NEW files \in [Inodes -> Inode],
           Update(names, descriptors, files)
    PROVE  /\ dir' = names
           /\ source' = descriptors
           /\ disk' = disk
           /\ inode' \in [Inodes -> Inode]
           /\ \A n \in Names : names[n] \in Inodes => inode'[names[n]] = files[names[n]]
           /\ disk \in Inodes => inode'[disk] = files[disk]
  BY SettleKeeps DEF Update

LEMMA FreeUnnamed ==
    ASSUME NEW i \in Free
    PROVE  i \in Inodes /\ disk # i /\ \A n \in Names : dir[n] # i
  BY DEF Free, InUse

\* A call that ends leaves the local variables as Init has them.
LEMMA LeaveType ==
    ASSUME TypeOK, NEW p \in Processes, Leave(p)
    PROVE  /\ pc' \in [Processes -> Steps]
           /\ op' \in [Processes -> {"create", "replace"}]
           /\ original' \in [Processes -> Inodes \cup {None}]
           /\ meta' \in [Processes -> Metas]
           /\ temp' \in [Processes -> Temps \cup {None}]
  BY BlankType DEF TypeOK, Leave, Steps

LEMMA DisturbType ==
    ASSUME NEW others, disturbed \in [Processes -> BOOLEAN], Disturb(others)
    PROVE  disturbed' \in [Processes -> BOOLEAN]
  BY DEF Disturb

-----------------------------------------------------------------------------
LEMMA ForeignFileWhole ==
    ASSUME NEW l \in Looks
    PROVE  /\ ForeignFile(l) \in Inode
           /\ ForeignFile(l).synced /\ ForeignFile(l).data # Partial
  <1>1. l[1] \in Metas /\ l[2] \in Attributes
    BY FileAssumption DEF Attributes
  <1> QED
    BY <1>1, FileAssumption DEF ForeignFile, Inode

LEMMA InitInv == Init => Inv /\ Memory /\ NoLeftovers
  <1> SUFFICES ASSUME Init PROVE Inv /\ Memory /\ NoLeftovers
    OBVIOUS
  <1>1. PICK t \in Inodes \cup {None}, l \in Looks :
            /\ dir = [n \in Names |-> IF n = Target THEN t ELSE None]
            /\ inode = [i \in Inodes |-> IF i = t THEN ForeignFile(l) ELSE Blank]
    BY DEF Init
  <1>2. ForeignFile(l) \in Inode /\ ForeignFile(l).synced /\ ForeignFile(l).data # Partial
    BY ForeignFileWhole
  <1>3. /\ inode \in [Inodes -> Inode] /\ disk = t /\ dir[Target] = t
        /\ t # None => inode[t] = ForeignFile(l)
    BY <1>1, <1>2, BlankType DEF Init, Names
  <1>4. TypeOK
    BY <1>1, <1>3, BlankType DEF Init, TypeOK, Steps
  <1>5. Safe
    <2>1. TargetWhole
      BY <1>2, <1>3 DEF TargetWhole
    <2> QED
      BY <2>1 DEF Safe, Init, Own, Private, Filled, Opened, Apart, Filling, Writing
  <1>6. Memory
    BY DEF Memory, Remembered, Init
  <1>7. NoLeftovers
    BY <1>1, FileAssumption DEF NoLeftovers, Names
  <1> QED
    BY <1>4, <1>5, <1>6, <1>7 DEF Inv

LEMMA CallStep ==
    ASSUME Inv, Memory, NEW p \in Processes, NEW o \in {"create", "replace"}, Call(p, o)
    PROVE  Inv' /\ Memory'
  <1>1. /\ pc[p] = "idle" /\ pc' = [pc EXCEPT ![p] = "stat"]
        /\ op' = [op EXCEPT ![p] = o]
        /\ disturbed' = [disturbed EXCEPT ![p] = FALSE]
        /\ UNCHANGED <<dir, inode, disk, source, original, meta, temp, littered>>
    BY DEF Call
  <1>2. TypeOK'
    BY <1>1 DEF Inv, TypeOK, Steps
  <1>3. \A q \in Processes : Own(q)'
    BY <1>1 DEF Inv, TypeOK, Safe, Own, Apart, Filling, Names
  <1>4. \A q \in Processes : Private(q)'
    BY <1>1 DEF Inv, TypeOK, Safe, Own, Private, Apart, Filling, Writing, Names
  <1>5. \A q \in Processes : Filled(q)'
    BY <1>1 DEF Inv, Safe, Filled
  <1>6. \A q \in Processes : Opened(q)'
    BY <1>1 DEF Inv, TypeOK, Safe, Opened
  <1>7. Apart'
    BY <1>1 DEF Inv, TypeOK, Safe, Own, Apart, Filling
  <1>8. TargetWhole'
    BY <1>1 DEF Inv, Safe, TargetWhole
  <1>9. Memory'
    BY <1>1 DEF Memory, Remembered
  <1> QED
    BY <1>2, <1>3, <1>4, <1>5, <1>6, <1>7, <1>8, <1>9 DEF Inv, Safe

LEMMA StatStep ==
    ASSUME Inv, Memory, NEW p \in Processes, Stat(p)
    PROVE  Inv' /\ Memory'
  <1>1. /\ pc[p] = "stat"
        /\ \/ /\ op[p] = "replace" /\ dir[Target] # None
              /\ original' = [original EXCEPT ![p] = dir[Target]]
              /\ meta' = [meta EXCEPT ![p] = inode[dir[Target]].meta]
              /\ pc' = [pc EXCEPT ![p] = "open"]
           \/ /\ op[p] = "create"
              /\ pc' = [pc EXCEPT ![p] = "temp"]
              /\ UNCHANGED <<original, meta>>
        /\ UNCHANGED <<op, dir, inode, disk, source, temp, disturbed, littered>>
    BY DEF Stat, Goto
  <1>2. dir[Target] # None => dir[Target] \in Inodes /\ inode[dir[Target]].meta \in Metas
    BY DEF Inv, TypeOK, Names, Inode
  <1>3. TypeOK'
    BY <1>1, <1>2 DEF Inv, TypeOK, Steps
  <1>4. \A q \in Processes : Own(q)'
    BY <1>1, <1>2 DEF Inv, TypeOK, Safe, Own, Apart, Filling, Names
  <1>5. \A q \in Processes : Private(q)'
    BY <1>1 DEF Inv, TypeOK, Safe, Private, Filling, Writing
  <1>6. \A q \in Processes : Filled(q)'
    BY <1>1 DEF Inv, TypeOK, Safe, Filled
  <1>7. \A q \in Processes : Opened(q)'
    BY <1>1, <1>2 DEF Inv, TypeOK, Safe, Opened
  <1>8. Apart'
    BY <1>1, <1>2 DEF Inv, TypeOK, Safe, Own, Apart, Filling
  <1>9. TargetWhole'
    BY <1>1 DEF Inv, Safe, TargetWhole
  <1>10. Memory'
    BY <1>1, <1>2 DEF Inv, TypeOK, Memory, Remembered
  <1> QED
    BY <1>3, <1>4, <1>5, <1>6, <1>7, <1>8, <1>9, <1>10 DEF Inv, Safe

LEMMA OpenStep ==
    ASSUME Inv, Memory, NEW p \in Processes, Open(p)
    PROVE  Inv' /\ Memory'
  <1>1. /\ pc[p] = "open" /\ pc' = [pc EXCEPT ![p] = "temp"]
        /\ dir[Target] = original[p]
        /\ source' = [source EXCEPT ![p] = dir[Target]]
        /\ UNCHANGED <<op, dir, inode, disk, original, meta, temp, disturbed, littered>>
    BY DEF Open, Goto
  <1>2. TypeOK'
    BY <1>1 DEF Inv, TypeOK, Steps
  <1>3. \A q \in Processes : Own(q)'
    BY <1>1 DEF Inv, TypeOK, Safe, Own, Apart, Filling, Names
  <1>4. \A q \in Processes : Private(q)'
    BY <1>1 DEF Inv, TypeOK, Safe, Own, Private, Apart, Filling, Writing, Names
  <1>5. \A q \in Processes : Filled(q)'
    BY <1>1 DEF Inv, Safe, Filled
  <1>6. \A q \in Processes : Opened(q)'
    BY <1>1 DEF Inv, TypeOK, Safe, Opened
  <1>7. Apart'
    BY <1>1 DEF Inv, TypeOK, Safe, Own, Apart, Filling
  <1>8. TargetWhole'
    BY <1>1 DEF Inv, Safe, TargetWhole
  <1>9. Memory'
    BY <1>1 DEF Inv, TypeOK, Memory, Remembered
  <1> QED
    BY <1>2, <1>3, <1>4, <1>5, <1>6, <1>7, <1>8, <1>9 DEF Inv, Safe

LEMMA RecheckStep ==
    ASSUME Inv, Memory, NEW p \in Processes, Recheck(p)
    PROVE  Inv' /\ Memory'
  <1>1. /\ pc[p] = "recheck" /\ pc' = [pc EXCEPT ![p] = "install"]
        /\ UNCHANGED <<op, dir, inode, disk, source, original, meta, temp, disturbed, littered>>
    BY DEF Recheck, Goto
  <1>2. TypeOK'
    BY <1>1 DEF Inv, TypeOK, Steps
  <1>3. \A q \in Processes : Own(q)'
    BY <1>1 DEF Inv, TypeOK, Safe, Own, Apart, Filling, Names
  <1>4. \A q \in Processes : Private(q)'
    BY <1>1 DEF Inv, TypeOK, Safe, Own, Private, Apart, Filling, Writing, Names
  <1>5. \A q \in Processes : Filled(q)'
    BY <1>1 DEF Inv, Safe, Filled
  <1>6. \A q \in Processes : Opened(q)'
    BY <1>1 DEF Inv, TypeOK, Safe, Opened
  <1>7. Apart'
    BY <1>1 DEF Inv, TypeOK, Safe, Own, Apart, Filling
  <1>8. TargetWhole'
    BY <1>1 DEF Inv, Safe, TargetWhole
  <1>9. Memory'
    BY <1>1 DEF Memory, Remembered
  <1> QED
    BY <1>2, <1>3, <1>4, <1>5, <1>6, <1>7, <1>8, <1>9 DEF Inv, Safe

-----------------------------------------------------------------------------
(***************************************************************************)
(* One lemma for every action.                                             *)
(***************************************************************************)
LEMMA FillStep ==
    ASSUME Inv, Memory, NEW p \in Processes, Fill(p)
    PROVE  Inv' /\ Memory'
  <1> DEFINE t == dir[temp[p]]
             attrs == IF op[p] = "replace" /\ inode[source[p]].attrs # None
                      THEN inode[source[p]].attrs ELSE inode[t].attrs
             files == [inode EXCEPT ![t] = [data |-> p, synced |-> FALSE,
                                            meta |-> meta[p], attrs |-> attrs]]
  <1>1. /\ pc[p] = "fill" /\ pc' = [pc EXCEPT ![p] = "fsync"]
        /\ Update(dir, source, files)
        /\ UNCHANGED <<op, original, meta, temp, disturbed, littered>>
    BY DEF Fill, Goto
  <1>2. /\ temp[p] \in Temps /\ temp[p] \in Names /\ t \in Inodes /\ disk # t
        /\ \A n \in Names : n # temp[p] => dir[n] # t
    BY <1>1 DEF Inv, Safe, Own, Private, Filling, Writing, Names
  <1>3. dir[Target] # t
    BY <1>2, FileAssumption DEF Names
  <1>4. op[p] = "replace" => source[p] \in Inodes
    BY <1>1 DEF Inv, Safe, Opened
  <1>5. attrs \in Attributes
    BY <1>2, <1>4 DEF Inv, TypeOK, Inode
  <1>6. files \in [Inodes -> Inode]
    BY <1>2, <1>5 DEF Inv, TypeOK, Inode
  <1>7. /\ dir' = dir /\ source' = source /\ inode' \in [Inodes -> Inode]
        /\ disk' = disk /\ (disk \in Inodes => inode'[disk] = files[disk])
        /\ \A n \in Names : dir[n] \in Inodes => inode'[dir[n]] = files[dir[n]]
    <2> HIDE DEF files
    <2>1. dir \in [Names -> Inodes \cup {None}] /\ source \in [Processes -> Inodes \cup {None}]
      BY DEF Inv, TypeOK
    <2> QED
      BY <1>1, <1>6, <2>1, UpdateKeeps
  <1>8. TypeOK'
    BY <1>1, <1>7 DEF Inv, TypeOK, Steps
  <1>9. \A q \in Processes : Own(q)'
    BY <1>1, <1>7 DEF Inv, TypeOK, Safe, Own, Filling
  <1>10. \A q \in Processes : Private(q)'
    BY <1>1, <1>7 DEF Inv, TypeOK, Safe, Private, Filling, Writing
  <1>11. \A q \in Processes : Filled(q)'
    BY <1>1, <1>2, <1>7 DEF Inv, TypeOK, Safe, Filled, Own, Apart, Filling, Names
  <1>12. \A q \in Processes : Opened(q)'
    BY <1>1, <1>7 DEF Inv, TypeOK, Safe, Opened
  <1>13. Apart'
    BY <1>1, <1>7 DEF Inv, TypeOK, Safe, Apart, Filling
  <1>14. TargetWhole'
    BY <1>1, <1>2, <1>3, <1>7 DEF Inv, TypeOK, Safe, TargetWhole, Names
  <1>15. Memory'
    BY <1>1, <1>2, <1>3, <1>7
       DEF Inv, TypeOK, Safe, Memory, Remembered, Own, Apart, Filling, Names
  <1> QED
    BY <1>8, <1>9, <1>10, <1>11, <1>12, <1>13, <1>14, <1>15 DEF Inv, Safe

LEMMA CreateTemporaryFileStep ==
    ASSUME Inv, Memory, NEW p \in Processes, NEW t \in Temps, NEW i \in Inodes,
           NEW a \in Attributes, CreateTemporaryFile(p, t, i, a)
    PROVE  Inv' /\ Memory'
  <1> DEFINE names == [dir EXCEPT ![t] = i]
             files == [inode EXCEPT ![i] = [Blank EXCEPT !.synced = FALSE, !.attrs = a]]
  <1>1. /\ pc[p] = "temp" /\ pc' = [pc EXCEPT ![p] = "fill"]
        /\ temp' = [temp EXCEPT ![p] = t] /\ dir[t] = None
        /\ Update(names, source, files)
        /\ UNCHANGED <<op, original, meta, disturbed, littered>>
    BY DEF CreateTemporaryFile, Goto
  <1>2. /\ disk # i /\ \A n \in Names : dir[n] # i
        /\ t # Target /\ t \in Names /\ Target \in Names
    BY FreeUnnamed, FileAssumption DEF CreateTemporaryFile, Names
  <1>3. /\ names \in [Names -> Inodes \cup {None}]
        /\ source \in [Processes -> Inodes \cup {None}]
        /\ files \in [Inodes -> Inode]
    BY <1>2, BlankType DEF Inv, TypeOK, Inode
  <1>4. /\ dir' = names /\ source' = source /\ inode' \in [Inodes -> Inode]
        /\ disk' = disk /\ (disk \in Inodes => inode'[disk] = files[disk])
        /\ \A n \in Names : names[n] \in Inodes => inode'[names[n]] = files[names[n]]
    <2> HIDE DEF names, files
    <2> QED
      BY <1>1, <1>3, UpdateKeeps
  <1>5. \A n \in Names : n # t =>
            dir'[n] = dir[n] /\ (dir[n] \in Inodes => inode'[dir[n]] = inode[dir[n]])
    BY <1>2, <1>4 DEF Inv, TypeOK
  <1>51. disk' = disk /\ (disk \in Inodes => inode'[disk] = inode[disk])
    BY <1>2, <1>4 DEF Inv, TypeOK
  <1>6. dir'[t] = i
    BY <1>2, <1>4 DEF Inv, TypeOK
  <1>7. \A q \in Processes : pc[q] \in Filling => temp[q] # t
    BY <1>1, FileAssumption DEF Inv, Safe, Own
  <1>8. TypeOK'
    BY <1>1, <1>2, <1>3, <1>4, <1>5, <1>6, <1>7 DEF Inv, TypeOK, Steps
  <1>9. \A q \in Processes : Own(q)'
    BY <1>1, <1>4, <1>6 DEF Inv, TypeOK, Safe, Own
  <1>10. \A q \in Processes : Private(q)'
    BY <1>1, <1>2, <1>5, <1>51, <1>6 DEF Inv, TypeOK, Safe, Own, Private, Writing, Names
  <1>11. \A q \in Processes : Filled(q)'
    BY <1>1, <1>5, <1>7 DEF Inv, Safe, Own, Filled, Filling, Names
  <1>12. \A q \in Processes : Opened(q)'
    BY <1>1, <1>2, <1>3, <1>4, <1>5, <1>6, <1>7 DEF Inv, TypeOK, Safe, Opened
  <1>13. Apart'
    BY <1>1, <1>7 DEF Inv, TypeOK, Safe, Apart
  <1>14. TargetWhole'
    BY <1>2, <1>3, <1>5, <1>51 DEF Inv, TypeOK, Safe, TargetWhole
  <1>15. Memory'
    BY <1>1, <1>2, <1>4, <1>7 DEF Inv, Safe, Memory, Remembered, Own, Filling, Names
  <1> QED
    BY <1>8, <1>9, <1>10, <1>11, <1>12, <1>13, <1>14, <1>15 DEF Inv, Safe

LEMMA FsyncStep ==
    ASSUME Inv, Memory, NEW p \in Processes, Fsync(p)
    PROVE  Inv' /\ Memory'
  <1> DEFINE t == dir[temp[p]]
             files == [inode EXCEPT ![t].synced = TRUE]
  <1>1. /\ pc[p] = "fsync" /\ pc' = [pc EXCEPT ![p] = "recheck"]
        /\ Update(dir, Without(p), files)
        /\ UNCHANGED <<op, original, meta, temp, disturbed, littered>>
    BY DEF Fsync, Goto
  <1>2. /\ temp[p] \in Temps /\ temp[p] \in Names /\ t \in Inodes /\ disk # t
        /\ \A n \in Names : n # temp[p] => dir[n] # t
        /\ temp[p] # Target /\ Target \in Names
    BY <1>1, FileAssumption DEF Inv, Safe, Own, Private, Filling, Writing, Names
  <1>3. /\ dir \in [Names -> Inodes \cup {None}]
        /\ Without(p) \in [Processes -> Inodes \cup {None}]
        /\ files \in [Inodes -> Inode]
    BY <1>2 DEF Inv, TypeOK, Inode, Without
  <1>4. /\ dir' = dir /\ source' = Without(p) /\ inode' \in [Inodes -> Inode]
        /\ disk' = disk /\ (disk \in Inodes => inode'[disk] = files[disk])
        /\ \A n \in Names : dir[n] \in Inodes => inode'[dir[n]] = files[dir[n]]
    <2> HIDE DEF files
    <2> QED
      BY <1>1, <1>3, UpdateKeeps
  <1>5. \A q \in Processes : q # p => source'[q] = source[q]
    BY <1>4 DEF Inv, TypeOK, Without
  <1>6. /\ \A n \in Names : n # temp[p] /\ dir[n] \in Inodes => inode'[dir[n]] = inode[dir[n]]
        /\ inode'[t] = [inode[t] EXCEPT !.synced = TRUE]
        /\ inode'[t].synced /\ inode'[t].data = inode[t].data
        /\ inode'[t].meta = inode[t].meta /\ inode'[t].attrs = inode[t].attrs
    BY <1>2, <1>4 DEF Inv, TypeOK, Inode
  <1>7. \A q \in Processes : q # p /\ pc[q] \in Filling =>
            /\ temp[q] # temp[p] /\ dir[temp[q]] \in Inodes
            /\ inode'[dir[temp[q]]] = inode[dir[temp[q]]]
    BY <1>1, <1>2, <1>6 DEF Inv, Safe, Own, Apart, Filling, Names
  <1>8. /\ dir[Target] \in Inodes => inode'[dir[Target]] = inode[dir[Target]]
        /\ disk \in Inodes => inode'[disk] = inode[disk]
    BY <1>2, <1>4, <1>6 DEF Inv, TypeOK
  <1> HIDE DEF files
  <1>9. TypeOK'
    BY <1>1, <1>3, <1>4 DEF Inv, TypeOK, Steps
  <1>10. \A q \in Processes : Own(q)'
    BY <1>1, <1>2, <1>4 DEF Inv, Safe, Own
  <1>11. \A q \in Processes : Private(q)'
    BY <1>1, <1>2, <1>4 DEF Inv, Safe, Private
  <1>12. \A q \in Processes : Filled(q)'
    <2> SUFFICES ASSUME NEW q \in Processes PROVE Filled(q)'
      OBVIOUS
    <2>1. CASE q = p
      BY <2>1, <1>1, <1>4, <1>6 DEF Inv, TypeOK, Safe, Filled
    <2>2. CASE q # p
      BY <2>2, <1>1, <1>4, <1>7 DEF Inv, TypeOK, Safe, Filled, Filling
    <2> QED
      BY <2>1, <2>2
  <1>13. \A q \in Processes : Opened(q)'
    BY <1>1, <1>2, <1>4, <1>5, <1>6, <1>7, <1>8 DEF Inv, TypeOK, Safe, Opened
  <1>14. Apart'
    BY <1>1, <1>7 DEF Inv, Safe, Apart
  <1>15. TargetWhole'
    BY <1>2, <1>4, <1>8 DEF Inv, TypeOK, Safe, TargetWhole
  <1>16. Memory'
    <2> SUFFICES ASSUME NEW q \in Processes PROVE Remembered(q)'
      BY DEF Memory
    <2>0. Remembered(q)
      BY DEF Memory
    <2>1. CASE q = p
      BY <2>0, <2>1, <1>1, <1>4, <1>6, <1>8 DEF Inv, TypeOK, Remembered
    <2>2. CASE q # p
      BY <2>0, <2>2, <1>1, <1>4, <1>5, <1>7, <1>8 DEF Remembered, Filling
    <2> QED
      BY <2>1, <2>2
  <1> QED
    BY <1>9, <1>10, <1>11, <1>12, <1>13, <1>14, <1>15, <1>16 DEF Inv, Safe

\* A call that ends without having changed the target, its temporary file
\* unlinked or not.
LEMMA CallEnds ==
    ASSUME Inv, Memory, NEW p \in Processes, Leave(p), Disturb({}), littered' \in BOOLEAN,
           dir' = dir \/ (pc[p] \in Filling /\ dir' = [dir EXCEPT ![temp[p]] = None]),
           source' = source \/ source' = Without(p),
           inode' \in [Inodes -> Inode],
           disk' = disk, disk \in Inodes => inode'[disk] = inode[disk],
           \A n \in Names : dir'[n] \in Inodes => inode'[dir'[n]] = inode[dir'[n]]
    PROVE  Inv' /\ Memory'
  <1>1. /\ pc' = [pc EXCEPT ![p] = "idle"] /\ op' = [op EXCEPT ![p] = "replace"]
        /\ original' = [original EXCEPT ![p] = None]
        /\ meta' = [meta EXCEPT ![p] = Default] /\ temp' = [temp EXCEPT ![p] = None]
    BY DEF Leave
  <1>2. pc[p] \in Filling => temp[p] \in Temps /\ temp[p] \in Names /\ temp[p] # Target
    BY FileAssumption DEF Inv, Safe, Own, Names
  <1>3. /\ dir' \in [Names -> Inodes \cup {None}]
        /\ \A n \in Names : dir'[n] = dir[n] \/ dir'[n] = None
        /\ \A n \in Names : pc[p] \notin Filling \/ n # temp[p] => dir'[n] = dir[n]
    BY <1>2 DEF Inv, TypeOK
  <1>4. dir'[Target] = dir[Target]
    BY <1>2, <1>3 DEF Names
  <1>5. /\ source' \in [Processes -> Inodes \cup {None}]
        /\ \A q \in Processes : q # p => source'[q] = source[q]
    BY DEF Inv, TypeOK, Without
  <1>6. \A q \in Processes : q # p /\ pc[q] \in Filling =>
            /\ temp[q] \in Names /\ dir'[temp[q]] = dir[temp[q]]
            /\ dir[temp[q]] \in Inodes /\ inode'[dir[temp[q]]] = inode[dir[temp[q]]]
    BY <1>3 DEF Inv, Safe, Own, Apart, Names
  <1>7. \A q \in Processes : q # p =>
            /\ pc'[q] = pc[q] /\ op'[q] = op[q] /\ original'[q] = original[q]
            /\ meta'[q] = meta[q] /\ temp'[q] = temp[q]
            /\ pc[q] # "idle" /\ op[q] = "replace" /\ ~disturbed'[q] => ~disturbed[q]
    BY <1>1 DEF Disturb, Inv, TypeOK
  <1>8. pc'[p] = "idle"
    BY <1>1 DEF Inv, TypeOK
  <1>9. TypeOK'
    BY <1>3, <1>5, LeaveType, DisturbType DEF Inv, TypeOK
  <1>10. ASSUME NEW q \in Processes
         PROVE  Own(q)' /\ Private(q)' /\ Filled(q)' /\ Opened(q)' /\ Remembered(q)'
    <2>1. CASE q = p
      BY <2>1, <1>8 DEF Own, Private, Filled, Opened, Remembered, Filling, Writing
    <2>2. CASE q # p
      <3>1. Own(q) /\ Private(q) /\ Filled(q) /\ Opened(q) /\ Remembered(q)
        BY DEF Inv, Safe, Memory
      <3>2. Own(q)'
        BY <2>2, <3>1, <1>6, <1>7 DEF Own
      <3>3. Private(q)'
        BY <2>2, <3>1, <1>3, <1>6, <1>7, FileAssumption DEF Private, Writing
      <3>4. Filled(q)'
        BY <2>2, <3>1, <1>6, <1>7 DEF Filled, Filling
      <3>5. Opened(q)'
        BY <2>2, <3>1, <1>5, <1>7 DEF Opened
      <3>6. Remembered(q)'
        BY <2>2, <3>1, <1>4, <1>5, <1>6, <1>7 DEF Remembered, Filling, Names
      <3> QED
        BY <3>2, <3>3, <3>4, <3>5, <3>6
    <2> QED
      BY <2>1, <2>2
  <1>11. Apart'
    BY <1>7, <1>8 DEF Inv, Safe, Apart, Filling
  <1>12. TargetWhole'
    BY <1>4, FileAssumption DEF Inv, TypeOK, Safe, TargetWhole, Names
  <1> QED
    BY <1>9, <1>10, <1>11, <1>12 DEF Inv, Safe, Memory

LEMMA FailStep ==
    ASSUME Inv, Memory, NEW p \in Processes, Fail(p)
    PROVE  Inv' /\ Memory'
  <1> DEFINE shorter == [dir EXCEPT ![temp[p]] = None]
  <1>1. /\ dir \in [Names -> Inodes \cup {None}]
        /\ shorter \in [Names -> Inodes \cup {None}]
        /\ Without(p) \in [Processes -> Inodes \cup {None}]
        /\ inode \in [Inodes -> Inode]
    BY DEF Inv, TypeOK, Without
  <1>2. Leave(p) /\ Disturb({}) /\ littered' \in BOOLEAN
    BY DEF Fail, Inv, TypeOK
  <1>3. \/ Update(dir, Without(p), inode)
        \/ pc[p] \in Filling /\ Update(shorter, Without(p), inode)
    BY DEF Fail
  <1>4. CASE Update(dir, Without(p), inode)
    BY <1>1, <1>2, <1>4, UpdateKeeps, CallEnds
  <1>5. CASE pc[p] \in Filling /\ Update(shorter, Without(p), inode)
    <2>1. /\ dir' = shorter /\ source' = Without(p) /\ inode' \in [Inodes -> Inode]
          /\ disk' = disk /\ (disk \in Inodes => inode'[disk] = inode[disk])
          /\ \A n \in Names : shorter[n] \in Inodes => inode'[shorter[n]] = inode[shorter[n]]
      <3> HIDE DEF shorter
      <3> QED
        BY <1>1, <1>5, UpdateKeeps
    <2> QED
      BY <1>2, <1>5, <2>1, CallEnds
  <1> QED
    BY <1>3, <1>4, <1>5

LEMMA UnlinkTempStep ==
    ASSUME Inv, Memory, NEW p \in Processes, UnlinkTemp(p)
    PROVE  Inv' /\ Memory'
  <1> DEFINE shorter == [dir EXCEPT ![temp[p]] = None]
  <1>1. /\ shorter \in [Names -> Inodes \cup {None}]
        /\ source \in [Processes -> Inodes \cup {None}]
        /\ inode \in [Inodes -> Inode]
    BY DEF Inv, TypeOK
  <1>2. Leave(p) /\ Disturb({}) /\ pc[p] \in Filling /\ littered' \in BOOLEAN
    BY DEF UnlinkTemp, Filling, Inv, TypeOK
  <1>3. Update(shorter, source, inode) \/ UNCHANGED <<dir, inode, disk, source>>
    BY DEF UnlinkTemp
  <1>4. CASE Update(shorter, source, inode)
    <2>1. /\ dir' = shorter /\ source' = source /\ inode' \in [Inodes -> Inode]
          /\ disk' = disk /\ (disk \in Inodes => inode'[disk] = inode[disk])
          /\ \A n \in Names : shorter[n] \in Inodes => inode'[shorter[n]] = inode[shorter[n]]
      <3> HIDE DEF shorter
      <3> QED
        BY <1>1, <1>4, UpdateKeeps
    <2> QED
      BY <1>2, <2>1, CallEnds
  <1>5. CASE UNCHANGED <<dir, inode, disk, source>>
    BY <1>1, <1>2, <1>5, CallEnds
  <1> QED
    BY <1>3, <1>4, <1>5

LEMMA KillStep ==
    ASSUME Inv, Memory, NEW p \in Processes, Kill(p)
    PROVE  Inv' /\ Memory'
  <1>1. /\ dir \in [Names -> Inodes \cup {None}]
        /\ Without(p) \in [Processes -> Inodes \cup {None}]
        /\ inode \in [Inodes -> Inode]
    BY DEF Inv, TypeOK, Without
  <1> QED
    BY <1>1, UpdateKeeps, CallEnds DEF Kill

\* What Disturb says of a replacement that runs on.
LEMMA Disturbed ==
    ASSUME NEW others, Disturb(others), NEW q \in Processes,
           pc'[q] # "idle", op'[q] = "replace"
    PROVE  /\ q \in others => disturbed'[q]
           /\ disturbed[q] => disturbed'[q]
  BY DEF Disturb

LEMMA RenameStep ==
    ASSUME Inv, Memory, NEW p \in Processes, Rename(p)
    PROVE  Inv' /\ Memory'
  <1> DEFINE t == dir[temp[p]]
             names == [dir EXCEPT ![Target] = t, ![temp[p]] = None]
  <1>1. /\ pc[p] = "install" /\ Leave(p) /\ Update(names, source, inode)
        /\ Disturb(Processes \ {p}) /\ UNCHANGED littered
        /\ pc' = [pc EXCEPT ![p] = "idle"] /\ op' = [op EXCEPT ![p] = "replace"]
        /\ original' = [original EXCEPT ![p] = None] /\ temp' = [temp EXCEPT ![p] = None]
    BY DEF Rename, Leave
  <1>2. /\ temp[p] \in Temps /\ temp[p] \in Names /\ t \in Inodes /\ disk # t
        /\ \A n \in Names : n # temp[p] => dir[n] # t
        /\ temp[p] # Target /\ Target \in Names
    BY <1>1, FileAssumption DEF Inv, Safe, Own, Private, Filling, Writing, Names
  <1>3. /\ names \in [Names -> Inodes \cup {None}]
        /\ source \in [Processes -> Inodes \cup {None}]
        /\ inode \in [Inodes -> Inode]
    BY <1>2 DEF Inv, TypeOK
  <1>4. /\ dir' = names /\ source' = source /\ inode' \in [Inodes -> Inode]
        /\ disk' = disk /\ (disk \in Inodes => inode'[disk] = inode[disk])
        /\ \A n \in Names : names[n] \in Inodes => inode'[names[n]] = inode[names[n]]
    <2> HIDE DEF names
    <2> QED
      BY <1>1, <1>3, UpdateKeeps
  <1>5. /\ dir'[Target] = t /\ dir'[temp[p]] = None
        /\ \A n \in Names : n # Target /\ n # temp[p] => dir'[n] = dir[n]
    BY <1>2, <1>4 DEF Inv, TypeOK
  <1>6. \A q \in Processes : q # p =>
            /\ pc'[q] = pc[q] /\ op'[q] = op[q] /\ original'[q] = original[q]
            /\ temp'[q] = temp[q]
            /\ pc[q] # "idle" /\ op[q] = "replace" => disturbed'[q]
    BY <1>1, Disturbed DEF Inv, TypeOK
  <1>7. pc'[p] = "idle"
    BY <1>1 DEF Inv, TypeOK
  <1>8. \A q \in Processes : q # p /\ pc[q] \in Filling =>
            /\ temp[q] \in Names /\ temp[q] # Target /\ temp[q] # temp[p]
            /\ dir[temp[q]] \in Inodes /\ dir'[temp[q]] = dir[temp[q]]
            /\ inode'[dir[temp[q]]] = inode[dir[temp[q]]]
    BY <1>1, <1>4, <1>5, FileAssumption DEF Inv, Safe, Own, Apart, Filling, Names
  <1>9. TypeOK'
    BY <1>1, <1>3, <1>4, LeaveType, DisturbType DEF Inv, TypeOK
  <1>10. ASSUME NEW q \in Processes
         PROVE  Own(q)' /\ Private(q)' /\ Filled(q)' /\ Opened(q)' /\ Remembered(q)'
    <2>1. CASE q = p
      BY <2>1, <1>7 DEF Own, Private, Filled, Opened, Remembered, Filling, Writing
    <2>2. CASE q # p
      <3>1. Own(q) /\ Private(q) /\ Filled(q) /\ Opened(q)
        BY DEF Inv, Safe
      <3>2. Own(q)'
        BY <2>2, <3>1, <1>6, <1>8 DEF Own
      <3>3. Private(q)'
        <4> SUFFICES ASSUME pc[q] \in Writing, NEW n \in Names, n # temp[q]
                     PROVE  dir'[n] # dir[temp[q]]
          BY <2>2, <3>1, <1>4, <1>6, <1>8 DEF Private, Writing
        <4>1. dir[n] # dir[temp[q]] /\ t # dir[temp[q]]
          BY <2>2, <3>1, <1>2, <1>8 DEF Private, Writing
        <4> QED
          BY <2>2, <4>1, <1>5, <1>8, FileAssumption DEF Writing
      <3>4. Filled(q)'
        BY <2>2, <3>1, <1>6, <1>8 DEF Filled, Filling
      <3>5. Opened(q)'
        BY <2>2, <3>1, <1>4, <1>6 DEF Opened
      <3>6. Remembered(q)'
        BY <2>2, <1>6 DEF Remembered
      <3> QED
        BY <3>2, <3>3, <3>4, <3>5, <3>6
    <2> QED
      BY <2>1, <2>2
  <1>11. Apart'
    BY <1>6, <1>7 DEF Inv, Safe, Apart, Filling
  <1>12. TargetWhole'
    <2>1. inode[t].data = p /\ inode[t].synced
      BY <1>1 DEF Inv, Safe, Filled
    <2>2. inode'[dir'[Target]] = inode[t]
      BY <1>2, <1>4, <1>5
    <2> QED
      BY <2>1, <2>2, <1>4, FileAssumption DEF Inv, TypeOK, Safe, TargetWhole
  <1> QED
    BY <1>9, <1>10, <1>11, <1>12 DEF Inv, Safe, Memory

LEMMA LinkStep ==
    ASSUME Inv, Memory, NEW p \in Processes, Link(p)
    PROVE  Inv' /\ Memory'
  <1> DEFINE t == dir[temp[p]]
             names == [dir EXCEPT ![Target] = t]
  <1>1. /\ pc[p] = "install" /\ op[p] = "create" /\ Update(names, source, inode)
        /\ Disturb(Processes \ {p})
        /\ pc' = [pc EXCEPT ![p] = "unlink"]
        /\ UNCHANGED <<op, original, meta, temp, littered>>
    BY DEF Link, Goto
  <1>2. /\ temp[p] \in Temps /\ temp[p] \in Names /\ t \in Inodes /\ disk # t
        /\ \A n \in Names : n # temp[p] => dir[n] # t
        /\ temp[p] # Target /\ Target \in Names
    BY <1>1, FileAssumption DEF Inv, Safe, Own, Private, Filling, Writing, Names
  <1>3. /\ names \in [Names -> Inodes \cup {None}]
        /\ source \in [Processes -> Inodes \cup {None}]
        /\ inode \in [Inodes -> Inode]
    BY <1>2 DEF Inv, TypeOK
  <1>4. /\ dir' = names /\ source' = source /\ inode' \in [Inodes -> Inode]
        /\ disk' = disk /\ (disk \in Inodes => inode'[disk] = inode[disk])
        /\ \A n \in Names : names[n] \in Inodes => inode'[names[n]] = inode[names[n]]
    <2> HIDE DEF names
    <2> QED
      BY <1>1, <1>3, UpdateKeeps
  <1>5. dir'[Target] = t /\ \A n \in Names : n # Target => dir'[n] = dir[n]
    BY <1>2, <1>4 DEF Inv, TypeOK
  <1>6. \A q \in Processes : q # p =>
            /\ pc'[q] = pc[q]
            /\ pc[q] # "idle" /\ op[q] = "replace" => disturbed'[q]
    BY <1>1, Disturbed DEF Inv, TypeOK
  <1>7. pc'[p] = "unlink"
    BY <1>1 DEF Inv, TypeOK
  <1>8. \A q \in Processes : pc[q] \in Filling =>
            /\ temp[q] \in Names /\ temp[q] # Target
            /\ dir[temp[q]] \in Inodes /\ dir'[temp[q]] = dir[temp[q]]
            /\ inode'[dir[temp[q]]] = inode[dir[temp[q]]]
            /\ q # p => temp[q] # temp[p]
    BY <1>1, <1>4, <1>5, FileAssumption DEF Inv, Safe, Own, Apart, Filling, Names
  <1>9. TypeOK'
    BY <1>1, <1>3, <1>4, DisturbType DEF Inv, TypeOK, Steps
  <1>10. ASSUME NEW q \in Processes
         PROVE  Own(q)' /\ Private(q)' /\ Filled(q)' /\ Opened(q)' /\ Remembered(q)'
    <2>0. Own(q) /\ Private(q) /\ Filled(q) /\ Opened(q)
      BY DEF Inv, Safe
    <2>1. CASE q = p
      BY <2>0, <2>1, <1>1, <1>7, <1>8
         DEF Own, Private, Filled, Opened, Remembered, Filling, Writing
    <2>2. CASE q # p
      <3>2. Own(q)'
        BY <2>2, <2>0, <1>1, <1>6, <1>8 DEF Own
      <3>3. Private(q)'
        <4> SUFFICES ASSUME pc[q] \in Writing, NEW n \in Names, n # temp[q]
                     PROVE  dir'[n] # dir[temp[q]]
          BY <2>2, <2>0, <1>1, <1>4, <1>6, <1>8 DEF Private, Writing
        <4>1. dir[n] # dir[temp[q]] /\ t # dir[temp[q]]
          BY <2>2, <2>0, <1>2, <1>8 DEF Private, Writing
        <4> QED
          BY <2>2, <4>1, <1>5
      <3>4. Filled(q)'
        BY <2>2, <2>0, <1>1, <1>6, <1>8 DEF Filled, Filling
      <3>5. Opened(q)'
        BY <2>2, <2>0, <1>1, <1>4, <1>6 DEF Opened
      <3>6. Remembered(q)'
        BY <2>2, <1>1, <1>6 DEF Remembered
      <3> QED
        BY <3>2, <3>3, <3>4, <3>5, <3>6
    <2> QED
      BY <2>1, <2>2
  <1>11. Apart'
    BY <1>1, <1>6, <1>7 DEF Inv, Safe, Apart, Filling
  <1>12. TargetWhole'
    <2>1. inode[t].data = p /\ inode[t].synced
      BY <1>1 DEF Inv, Safe, Filled
    <2>2. inode'[dir'[Target]] = inode[t]
      BY <1>2, <1>4, <1>5
    <2> QED
      BY <2>1, <2>2, <1>4, FileAssumption DEF Inv, TypeOK, Safe, TargetWhole
  <1> QED
    BY <1>9, <1>10, <1>11, <1>12 DEF Inv, Safe, Memory

\* What others do to the target touches no temporary file, and every call that
\* is under way is told of it.
LEMMA TargetChanged ==
    ASSUME Inv, Memory, UNCHANGED <<local, littered>>, Disturb(Processes),
           source' = source,
           NEW i \in Inodes \cup {None}, i = dir[Target] \/ i = None \/ i \in Free,
           dir' = [dir EXCEPT ![Target] = i],
           inode' \in [Inodes -> Inode],
           \A n \in Names : n # Target /\ dir[n] \in Inodes /\ dir[n] # i =>
               inode'[dir[n]] = inode[dir[n]],
           disk' = disk,
           disk \in Inodes => inode'[disk].synced /\ inode'[disk].data # Partial,
           i # None => inode'[i].synced /\ inode'[i].data # Partial
    PROVE  Inv' /\ Memory'
  <1>1. UNCHANGED <<pc, op, original, meta, temp>>
    BY DEF local
  <1>2. dir'[Target] = i /\ \A n \in Names : n # Target => dir'[n] = dir[n]
    BY DEF Inv, TypeOK, Names
  <1>3. \A q \in Processes : pc[q] # "idle" /\ op[q] = "replace" => disturbed'[q]
    BY <1>1, Disturbed
  <1>4. TypeOK'
    BY <1>1, DisturbType DEF Inv, TypeOK
  <1>5. ASSUME NEW q \in Processes
        PROVE  Own(q)' /\ Private(q)' /\ Filled(q)' /\ Opened(q)' /\ Remembered(q)'
    <2>1. Own(q) /\ Private(q) /\ Filled(q) /\ Opened(q)
      BY DEF Inv, Safe
    <2>2. pc[q] \in Filling => temp[q] \in Names /\ temp[q] # Target /\ dir[temp[q]] \in Inodes
      BY <2>1, FileAssumption DEF Own, Names
    <2>3. pc[q] \in Writing => i # dir[temp[q]]
      BY <2>1, <2>2, FreeUnnamed, FileAssumption DEF Private, Writing, Names
    <2>4. Own(q)'
      BY <2>1, <2>2, <1>1, <1>2 DEF Own
    <2>5. Private(q)'
      BY <2>1, <2>2, <2>3, <1>1, <1>2 DEF Private, Writing
    <2>6. Filled(q)'
      BY <2>1, <2>2, <2>3, <1>1, <1>2 DEF Filled, Filling, Writing
    <2>7. Opened(q)'
      BY <2>1, <1>1 DEF Opened
    <2>8. Remembered(q)'
      BY <1>1, <1>3 DEF Remembered
    <2> QED
      BY <2>4, <2>5, <2>6, <2>7, <2>8
  <1>6. Apart'
    BY <1>1 DEF Inv, Safe, Apart
  <1>7. TargetWhole'
    BY <1>2 DEF Inv, TypeOK, TargetWhole
  <1> QED
    BY <1>4, <1>5, <1>6, <1>7 DEF Inv, Safe, Memory

LEMMA ForeignEditStep ==
    ASSUME Inv, Memory, NEW l \in Looks, ForeignEdit(l)
    PROVE  Inv' /\ Memory'
  <1> DEFINE t == dir[Target]
             files == [inode EXCEPT ![t] = ForeignFile(l)]
  <1>1. t # None /\ Update(dir, source, files)
    BY DEF ForeignEdit
  <1>2. t \in Inodes /\ Target \in Names
    BY <1>1 DEF Inv, TypeOK, Names
  <1>3. /\ dir \in [Names -> Inodes \cup {None}]
        /\ source \in [Processes -> Inodes \cup {None}]
        /\ files \in [Inodes -> Inode]
    BY ForeignFileWhole DEF Inv, TypeOK
  <1>4. /\ dir' = dir /\ source' = source /\ inode' \in [Inodes -> Inode]
        /\ disk' = disk /\ (disk \in Inodes => inode'[disk] = files[disk])
        /\ \A n \in Names : dir[n] \in Inodes => inode'[dir[n]] = files[dir[n]]
    <2> HIDE DEF files
    <2> QED
      BY <1>1, <1>3, UpdateKeeps
  <1>5. inode'[t] = ForeignFile(l)
    BY <1>2, <1>4 DEF Inv, TypeOK
  <1>6. \A n \in Names : dir[n] \in Inodes /\ dir[n] # t => inode'[dir[n]] = inode[dir[n]]
    BY <1>4 DEF Inv, TypeOK
  <1>7. dir' = [dir EXCEPT ![Target] = t]
    BY <1>3, <1>4
  <1>8. UNCHANGED <<local, littered>> /\ Disturb(Processes)
    BY DEF ForeignEdit
  <1>9. inode'[t].synced /\ inode'[t].data # Partial
    BY <1>5, ForeignFileWhole
  <1>10. disk \in Inodes => inode'[disk].synced /\ inode'[disk].data # Partial
    <2>1. disk # None /\ disk # t /\ disk \in Inodes => inode'[disk] = inode[disk]
      BY <1>4 DEF Inv, TypeOK
    <2> QED
      BY <2>1, <1>9, FileAssumption DEF Inv, Safe, TargetWhole
  <1> HIDE DEF files
  <1> QED
    BY <1>2, <1>4, <1>6, <1>7, <1>8, <1>9, <1>10, TargetChanged

LEMMA ForeignInstallStep ==
    ASSUME Inv, Memory, NEW i \in Inodes, NEW l \in Looks, ForeignInstall(i, l)
    PROVE  Inv' /\ Memory'
  <1> DEFINE names == [dir EXCEPT ![Target] = i]
             files == [inode EXCEPT ![i] = ForeignFile(l)]
  <1>1. i \in Free /\ Update(names, source, files)
    BY DEF ForeignInstall
  <1>2. Target \in Names /\ disk # i /\ \A n \in Names : dir[n] # i
    BY <1>1, FreeUnnamed DEF Names
  <1>3. /\ names \in [Names -> Inodes \cup {None}]
        /\ source \in [Processes -> Inodes \cup {None}]
        /\ files \in [Inodes -> Inode]
    BY ForeignFileWhole DEF Inv, TypeOK
  <1>4. /\ dir' = names /\ source' = source /\ inode' \in [Inodes -> Inode]
        /\ disk' = disk /\ (disk \in Inodes => inode'[disk] = files[disk])
        /\ \A n \in Names : names[n] \in Inodes => inode'[names[n]] = files[names[n]]
    <2> HIDE DEF names, files
    <2> QED
      BY <1>1, <1>3, UpdateKeeps
  <1>5. inode'[i] = ForeignFile(l)
    BY <1>2, <1>4 DEF Inv, TypeOK
  <1>6. \A n \in Names : n # Target /\ dir[n] \in Inodes => inode'[dir[n]] = inode[dir[n]]
    BY <1>2, <1>4 DEF Inv, TypeOK
  <1>7. UNCHANGED <<local, littered>> /\ Disturb(Processes)
    BY DEF ForeignInstall
  <1>8. dir' = [dir EXCEPT ![Target] = i]
    BY <1>4
  <1>9. inode'[i].synced /\ inode'[i].data # Partial
    BY <1>5, ForeignFileWhole
  <1>10. disk \in Inodes => inode'[disk].synced /\ inode'[disk].data # Partial
    BY <1>2, <1>4, FileAssumption DEF Inv, TypeOK, Safe, TargetWhole
  <1> HIDE DEF names, files
  <1> QED
    BY <1>1, <1>4, <1>6, <1>7, <1>8, <1>9, <1>10, TargetChanged

LEMMA ForeignDeleteStep ==
    ASSUME Inv, Memory, ForeignDelete
    PROVE  Inv' /\ Memory'
  <1> DEFINE names == [dir EXCEPT ![Target] = None]
  <1>1. Update(names, source, inode) /\ UNCHANGED <<local, littered>> /\ Disturb(Processes)
    BY DEF ForeignDelete
  <1>2. /\ names \in [Names -> Inodes \cup {None}]
        /\ source \in [Processes -> Inodes \cup {None}]
        /\ inode \in [Inodes -> Inode]
    BY DEF Inv, TypeOK
  <1>3. /\ dir' = names /\ source' = source /\ inode' \in [Inodes -> Inode]
        /\ disk' = disk /\ (disk \in Inodes => inode'[disk] = inode[disk])
        /\ \A n \in Names : names[n] \in Inodes => inode'[names[n]] = inode[names[n]]
    <2> HIDE DEF names
    <2> QED
      BY <1>1, <1>2, UpdateKeeps
  <1>4. \A n \in Names : n # Target /\ dir[n] \in Inodes => inode'[dir[n]] = inode[dir[n]]
    BY <1>3 DEF Inv, TypeOK
  <1>5. dir' = [dir EXCEPT ![Target] = None]
    BY <1>3
  <1>6. disk \in Inodes => inode'[disk].synced /\ inode'[disk].data # Partial
    BY <1>3, FileAssumption DEF Inv, Safe, TargetWhole
  <1> HIDE DEF names
  <1> QED
    BY <1>1, <1>3, <1>4, <1>5, <1>6, TargetChanged

\* The target that is written back is the one there is: no call's own file.
LEMMA WritebackStep ==
    ASSUME Inv, Memory, Writeback
    PROVE  Inv' /\ Memory'
  <1>1. /\ dir \in [Names -> Inodes \cup {None}]
        /\ source \in [Processes -> Inodes \cup {None}]
        /\ inode \in [Inodes -> Inode] /\ Target \in Names
    BY DEF Inv, TypeOK, Names
  <1>2. Settle(dir, dir[Target], source, inode)
    BY DEF Writeback
  <1>3. /\ dir' = dir /\ source' = source /\ inode' \in [Inodes -> Inode]
        /\ disk' = dir[Target]
        /\ \A n \in Names : dir[n] \in Inodes => inode'[dir[n]] = inode[dir[n]]
    BY <1>1, <1>2, SettleKeeps
  <1>4. UNCHANGED <<pc, op, original, meta, temp, disturbed, littered>>
    BY DEF Writeback, local
  <1>5. TypeOK'
    BY <1>1, <1>3, <1>4 DEF Inv, TypeOK
  <1>6. ASSUME NEW q \in Processes
        PROVE  Own(q)' /\ Private(q)' /\ Filled(q)' /\ Opened(q)' /\ Remembered(q)'
    <2>1. Own(q) /\ Private(q) /\ Filled(q) /\ Opened(q) /\ Remembered(q)
      BY DEF Inv, Safe, Memory
    <2>2. pc[q] \in Filling =>
            temp[q] \in Names /\ temp[q] # Target /\ inode'[dir[temp[q]]] = inode[dir[temp[q]]]
      BY <2>1, <1>3, FileAssumption DEF Own, Names
    <2>3. Own(q)'
      BY <2>1, <1>3, <1>4 DEF Own
    <2>4. Private(q)'
      BY <2>1, <2>2, <1>1, <1>3, <1>4 DEF Private, Writing
    <2>5. Filled(q)'
      BY <2>1, <2>2, <1>3, <1>4 DEF Filled, Filling
    <2>6. Opened(q)'
      BY <2>1, <1>3, <1>4 DEF Opened
    <2>7. Remembered(q)'
      BY <2>1, <2>2, <1>1, <1>3, <1>4 DEF Remembered, Filling
    <2> QED
      BY <2>3, <2>4, <2>5, <2>6, <2>7
  <1>7. Apart'
    BY <1>4 DEF Inv, Safe, Apart
  <1>8. TargetWhole'
    BY <1>1, <1>3 DEF Inv, Safe, TargetWhole
  <1> QED
    BY <1>5, <1>6, <1>7, <1>8 DEF Inv, Safe, Memory

\* What a power loss leaves of the target.
LEMMA AfterPowerLoss ==
    ASSUME Inv, PowerLoss
    PROVE  /\ dir' \in [Names -> Inodes \cup {None}]
           /\ dir'[Target] = disk /\ disk' = disk
           /\ source' = [p \in Processes |-> None]
           /\ inode' \in [Inodes -> Inode]
           /\ disk # None => inode'[disk] = inode[disk]
  <1> DEFINE closed == [p \in Processes |-> None]
             files == [i \in Inodes |-> IF inode[i].synced THEN inode[i]
                                ELSE [inode[i] EXCEPT !.data = Partial, !.synced = TRUE]]
  <1>0. PICK kept \in SUBSET Temps, back \in SUBSET Temps :
            Settle([n \in Names |-> IF n = Target THEN disk
                                    ELSE IF n \in kept THEN dir[n]
                                    ELSE IF n \in back THEN dir[Target] ELSE None],
                   disk, closed, files)
    BY DEF PowerLoss
  <1>1. PICK names \in [Names -> Inodes \cup {None}] :
            names[Target] = disk /\ Settle(names, disk, closed, files)
    <2> DEFINE found == [n \in Names |-> IF n = Target THEN disk
                                    ELSE IF n \in kept THEN dir[n]
                                    ELSE IF n \in back THEN dir[Target] ELSE None]
    <2>1. found \in [Names -> Inodes \cup {None}] /\ found[Target] = disk
      BY DEF Inv, TypeOK, Names
    <2>2. Settle(found, disk, closed, files)
      BY <1>0
    <2> HIDE DEF found, closed, files
    <2> QED
      BY <2>1, <2>2
  <1>2. closed \in [Processes -> Inodes \cup {None}]
    OBVIOUS
  <1>3. files \in [Inodes -> Inode]
    BY DEF Inv, TypeOK, Inode
  <1>4. /\ dir' = names /\ disk' = disk /\ source' = closed /\ inode' \in [Inodes -> Inode]
        /\ disk \in Inodes => inode'[disk] = files[disk]
    <2> HIDE DEF closed, files
    <2> QED
      BY <1>1, <1>2, <1>3, SettleKeeps
  <1>5. disk # None => disk \in Inodes /\ inode[disk].synced
    BY DEF Inv, TypeOK, Safe, TargetWhole
  <1>6. disk # None => files[disk] = inode[disk]
    BY <1>5
  <1> HIDE DEF files
  <1> QED
    BY <1>1, <1>2, <1>4, <1>5, <1>6

\* Nobody is under way after a power loss, and a flushed file is still whole.
LEMMA PowerLossStep ==
    ASSUME Inv, Memory, PowerLoss
    PROVE  Inv' /\ Memory'
  <1>1. /\ pc' = [p \in Processes |-> "idle"] /\ op' = [p \in Processes |-> "replace"]
        /\ original' = [p \in Processes |-> None]
        /\ meta' = [p \in Processes |-> Default]
        /\ temp' = [p \in Processes |-> None]
        /\ Disturb({}) /\ littered' = TRUE
    BY DEF PowerLoss
  <1>2. TypeOK'
    BY <1>1, AfterPowerLoss, BlankType, DisturbType DEF Inv, TypeOK, Steps
  <1>3. \A q \in Processes :
            Own(q)' /\ Private(q)' /\ Filled(q)' /\ Opened(q)' /\ Remembered(q)'
    BY <1>1 DEF Own, Private, Filled, Opened, Remembered, Filling, Writing
  <1>4. Apart'
    BY <1>1 DEF Apart, Filling
  <1>5. TargetWhole'
    BY AfterPowerLoss DEF Inv, Safe, TargetWhole
  <1> QED
    BY <1>2, <1>3, <1>4, <1>5 DEF Inv, Safe, Memory

LEMMA NextStep ==
    ASSUME Inv, Memory, [Next]_vars
    PROVE  Inv' /\ Memory'
  <1>1. CASE UNCHANGED vars
    BY <1>1
       DEF vars, local, Inv, TypeOK, Safe, Memory, Own, Private, Filled, Opened, Apart,
        TargetWhole, Remembered
  <1>2. ASSUME NEW p \in Processes, NEW o \in {"create", "replace"}, Call(p, o)
        PROVE  Inv' /\ Memory'
    BY <1>2, CallStep
  <1>3. ASSUME NEW p \in Processes, Step(p)
        PROVE  Inv' /\ Memory'
    BY <1>3, FailStep, StatStep, OpenStep, CreateTemporaryFileStep, FillStep, FsyncStep,
        RecheckStep, RenameStep, LinkStep, UnlinkTempStep DEF Step
  <1>4. CASE Environment
    BY <1>4, KillStep, WritebackStep, PowerLossStep, ForeignEditStep, ForeignInstallStep,
        ForeignDeleteStep DEF Environment
  <1> QED
    BY <1>1, <1>2, <1>3, <1>4 DEF Next

LEMMA Invariance == Spec => [](Inv /\ Memory)
  <1>1. Init => Inv /\ Memory
    BY InitInv
  <1>2. Inv /\ Memory /\ [Next]_vars => (Inv /\ Memory)'
    BY NextStep
  <1> QED
    BY <1>1, <1>2, PTL DEF Spec

(***************************************************************************)
(* The variables stay in their types: no descriptor, name or inode a call  *)
(* holds is anything but what a system call returned (lib/AtomicFile.cpp). *)
(***************************************************************************)
THEOREM TypeCorrect == Spec => []TypeOK
  <1>1. Inv /\ Memory => TypeOK
    BY DEF Inv
  <1> QED
    BY <1>1, Invariance, PTL

(***************************************************************************)
(* However many processes write the file, whoever else changes it, at      *)
(* whatever step a process is killed or the power is lost, and whatever of *)
(* the directory had reached the disk by then, the file that has the name  *)
(* is whole (AtomicFile.cpp:265 and 408).                                  *)
(***************************************************************************)
THEOREM NeverTornCorrect == Spec => []NeverTorn
  <1>1. Inv /\ Memory => NeverTorn
    BY DEF Inv, Safe, TargetWhole, NeverTorn
  <1> QED
    BY <1>1, Invariance, PTL

-----------------------------------------------------------------------------
\* Only by the last step but one of a call the name comes to refer to another file.
LEMMA TargetKept ==
    ASSUME Inv, NEW p \in Processes, Step(p), ~Rename(p), ~Link(p)
    PROVE  dir'[Target] = dir[Target]
  <1>1. dir \in [Names -> Inodes \cup {None}] /\ Target \in Names
    BY DEF Inv, TypeOK, Names
  <1>2. pc[p] \in Filling => temp[p] # Target
    BY FileAssumption DEF Inv, Safe, Own
  <1>3. CASE Fail(p)
    BY <1>3, <1>1, <1>2 DEF Fail, Update, Settle
  <1>4. CASE Stat(p) \/ Open(p) \/ Recheck(p)
    BY <1>4 DEF Stat, Open, Recheck
  <1>5. ASSUME NEW t \in Temps, NEW i \in Inodes, NEW a \in Attributes,
               CreateTemporaryFile(p, t, i, a)
        PROVE  dir'[Target] = dir[Target]
    BY <1>5, <1>1, FileAssumption DEF CreateTemporaryFile, Update, Settle
  <1>6. CASE Fill(p) \/ Fsync(p)
    BY <1>6 DEF Fill, Fsync, Update, Settle
  <1>7. CASE UnlinkTemp(p)
    BY <1>7, <1>1, <1>2 DEF UnlinkTemp, Update, Settle, Filling
  <1> QED
    BY <1>3, <1>4, <1>5, <1>6, <1>7 DEF Step

\* The only steps after which the target's name refers to something else.
LEMMA TargetStep ==
    ASSUME Inv, [Next]_vars, dir'[Target] # dir[Target]
    PROVE  \/ \E p \in Processes : Rename(p) \/ Link(p)
           \/ \E i \in Inodes, l \in Looks : ForeignInstall(i, l)
           \/ ForeignDelete
           \/ PowerLoss
  <1>1. ASSUME NEW p \in Processes, NEW o \in {"create", "replace"}, Call(p, o)
        PROVE  FALSE
    BY <1>1 DEF Call
  <1>2. ASSUME NEW p \in Processes, Step(p), ~Rename(p), ~Link(p)
        PROVE  FALSE
    BY <1>2, TargetKept
  <1>3. ~(\E p \in Processes : Kill(p)) /\ ~Writeback
    BY DEF Kill, Writeback, Update, Settle
  <1>4. \A l \in Looks : ~ForeignEdit(l)
    BY DEF ForeignEdit, Update, Settle
  <1>5. ~UNCHANGED vars
    BY DEF vars
  <1> QED
    BY <1>1, <1>2, <1>3, <1>4, <1>5 DEF Next, Environment

(***************************************************************************)
(* CreateFileContentsAtomic never replaces a file, also not one that       *)
(* appeared after the name was last inspected (AtomicFile.cpp:286-299);    *)
(* only a power loss takes the name back to what was on disk.              *)
(***************************************************************************)
THEOREM CreateNeverReplacesCorrect == Spec => CreateNeverReplaces
  <1> DEFINE PowerLost == dir'[Target] = disk /\ \A q \in Processes : pc'[q] = "idle"
  <1>1. ASSUME Inv, Next, NEW p \in Processes,
               op[p] = "create", pc'[p] # pc[p], dir[Target] # None
        PROVE  dir'[Target] = dir[Target] \/ PowerLost
    <2> SUFFICES ASSUME dir'[Target] # dir[Target], ~PowerLost
                 PROVE  FALSE
      OBVIOUS
    <2>1. ASSUME NEW q \in Processes, Rename(q)
          PROVE  FALSE
      <3>1. q # p /\ pc' = [pc EXCEPT ![q] = "idle"]
        BY <1>1, <2>1 DEF Rename, Leave
      <3> QED
        BY <1>1, <3>1 DEF Inv, TypeOK
    <2>2. ASSUME NEW q \in Processes, Link(q)
          PROVE  FALSE
      BY <1>1, <2>2 DEF Link
    <2>3. ASSUME NEW i \in Inodes, NEW l \in Looks, ForeignInstall(i, l)
          PROVE  FALSE
      BY <1>1, <2>3 DEF ForeignInstall, local
    <2>4. CASE ForeignDelete
      BY <1>1, <2>4 DEF ForeignDelete, local
    <2>5. CASE PowerLoss
      BY <1>1, <2>5, AfterPowerLoss DEF PowerLoss
    <2> QED
      BY <1>1, <2>1, <2>2, <2>3, <2>4, <2>5, TargetStep
  <1>2. Inv /\ Memory /\ [Next]_vars =>
            [\A p \in Processes :
                op[p] = "create" /\ pc'[p] # pc[p] /\ dir[Target] # None =>
                    \/ dir'[Target] = dir[Target]
                    \/ dir'[Target] = disk /\ \A q \in Processes : pc'[q] = "idle"]_vars
    BY <1>1
  <1> QED
    BY <1>2, Invariance, PTL DEF Spec, CreateNeverReplaces

(***************************************************************************)
(* A replacement changes the contents and takes nothing away: unless       *)
(* somebody changed the file during the call, the new file has the owner,  *)
(* the mode and every extended attribute that the old one has when it is   *)
(* replaced (AtomicFile.cpp:389-407), and perhaps an inherited one more.   *)
(***************************************************************************)
THEOREM ReplacePreservesCorrect == Spec => ReplacePreserves
  <1> DEFINE Preserved(p, old, new) ==
                /\ new.data = p /\ new.synced
                /\ new.meta = old.meta
                /\ old.attrs # None => new.attrs = old.attrs
  <1>1. ASSUME Inv, Memory, Next, NEW p \in Processes, Replaces(p), ~disturbed[p]
        PROVE  Preserved(p, inode[dir[Target]], inode'[dir'[Target]])
    <2> DEFINE t == dir[temp[p]]
    <2>1. /\ op[p] = "replace" /\ pc[p] = "install" /\ dir'[Target] = t
          /\ Target \in Names /\ dir \in [Names -> Inodes \cup {None}]
          /\ inode \in [Inodes -> Inode]
      BY <1>1 DEF Replaces, Inv, TypeOK, Names
    <2>2. /\ t \in Inodes /\ temp[p] \in Names /\ temp[p] # Target
          /\ \A n \in Names : n # temp[p] => dir[n] # t
          /\ disk # t
      BY <2>1, <1>1, FileAssumption DEF Inv, Safe, Own, Private, Filling, Writing, Names
    <2>3. dir[Target] \in Inodes /\ dir[Target] # t
      BY <2>1, <2>2, <1>1 DEF Memory, Remembered
    <2>4. Preserved(p, inode[dir[Target]], inode[t])
      BY <2>1, <1>1 DEF Inv, Safe, Filled, Memory, Remembered
    <2>5. ASSUME NEW q \in Processes, Rename(q)
          PROVE  q = p /\ inode'[t] = inode[t]
      <3>1. /\ pc[q] = "install"
            /\ dir' = [dir EXCEPT ![Target] = dir[temp[q]], ![temp[q]] = None]
            /\ inode' = [i \in Inodes |-> IF InUse(dir', disk, source, i)
                                      THEN inode[i] ELSE Blank]
        BY <2>5 DEF Rename, Update, Settle
      <3>2. temp[q] \in Names /\ temp[q] # Target
        BY <3>1, <1>1, FileAssumption DEF Inv, Safe, Own, Filling, Names
      <3>3. dir[temp[q]] = t
        BY <2>1, <3>1, <3>2
      <3>4. q = p
        BY <2>1, <2>2, <3>1, <3>2, <3>3, <1>1 DEF Inv, Safe, Apart, Filling
      <3>5. InUse(dir', disk, source, t)
        BY <2>1 DEF InUse
      <3> QED
        BY <2>2, <3>1, <3>4, <3>5
    <2>6. ASSUME NEW q \in Processes, Link(q)
          PROVE  FALSE
      BY <2>3, <2>6, FileAssumption DEF Link
    <2>7. ASSUME NEW i \in Inodes, NEW l \in Looks, ForeignInstall(i, l)
          PROVE  FALSE
      BY <2>1, <2>2, <2>7, FreeUnnamed DEF ForeignInstall, Update, Settle
    <2>8. CASE ForeignDelete
      BY <2>1, <2>2, <2>8, FileAssumption DEF ForeignDelete, Update, Settle
    <2>9. ~PowerLoss
      BY <1>1, <2>1, <2>2, AfterPowerLoss
    <2> HIDE DEF Preserved
    <2> QED
      BY <1>1, <2>1, <2>3, <2>4, <2>5, <2>6, <2>7, <2>8, <2>9, TargetStep
  <1>2. Inv /\ Memory /\ [Next]_vars =>
            [\A p \in Processes :
                Replaces(p) /\ ~disturbed[p] =>
                    Preserved(p, inode[dir[Target]], inode'[dir'[Target]])]_vars
    BY <1>1
  <1> QED
    BY <1>2, Invariance, PTL DEF Spec, ReplacePreserves

-----------------------------------------------------------------------------
\* A temporary name that is in use and belongs to nobody.
Orphan(t) == dir[t] # None /\ \A p \in Processes : pc[p] \in Filling => temp[p] # t

\* A step that makes no orphan.
LEMMA NoOrphan ==
    ASSUME Inv, [Next]_vars, ~littered', NEW t \in Temps, Orphan(t)'
    PROVE  Orphan(t) /\ ~littered
  <1>1. /\ pc \in [Processes -> Steps] /\ temp \in [Processes -> Temps \cup {None}]
        /\ dir \in [Names -> Inodes \cup {None}] /\ t \in Names /\ t # Target
    BY FileAssumption DEF Inv, TypeOK, Names
  <1>2. CASE UNCHANGED vars
    BY <1>2 DEF vars, local, Orphan
  <1>3. ASSUME NEW p \in Processes, NEW o \in {"create", "replace"}, Call(p, o)
        PROVE  Orphan(t) /\ ~littered
    BY <1>1, <1>3 DEF Call, Orphan, Filling
  <1>4. ASSUME NEW p \in Processes, Step(p)
        PROVE  Orphan(t) /\ ~littered
    <2>1. pc[p] \in Filling => temp[p] \in Temps /\ temp[p] \in Names /\ temp[p] # Target
      BY FileAssumption DEF Inv, Safe, Own, Names
    <2>2. CASE Fail(p)
      <3>1. /\ dir' = IF pc[p] \in Filling THEN [dir EXCEPT ![temp[p]] = None] ELSE dir
            /\ UNCHANGED littered
        BY <2>2 DEF Fail, Update, Settle
      <3>2. pc' = [pc EXCEPT ![p] = "idle"] /\ temp' = [temp EXCEPT ![p] = None]
        BY <2>2 DEF Fail, Leave
      <3> QED
        BY <1>1, <2>1, <3>1, <3>2 DEF Orphan, Filling
    <2>3. CASE Stat(p) \/ Open(p) \/ Recheck(p)
      BY <1>1, <2>3 DEF Stat, Open, Recheck, Goto, Orphan, Filling
    <2>4. ASSUME NEW u \in Temps, NEW i \in Inodes, NEW a \in Attributes,
                 CreateTemporaryFile(p, u, i, a)
          PROVE  Orphan(t) /\ ~littered
      BY <1>1, <2>4 DEF CreateTemporaryFile, Update, Settle, Goto, Orphan, Filling
    <2>5. CASE Fill(p) \/ Fsync(p)
      BY <1>1, <2>5 DEF Fill, Fsync, Update, Settle, Goto, Orphan, Filling
    <2>6. CASE Rename(p)
      <3>1. /\ pc[p] = "install" /\ UNCHANGED littered
            /\ dir' = [dir EXCEPT ![Target] = dir[temp[p]], ![temp[p]] = None]
            /\ pc' = [pc EXCEPT ![p] = "idle"] /\ temp' = [temp EXCEPT ![p] = None]
        BY <2>6 DEF Rename, Update, Settle, Leave
      <3> QED
        BY <1>1, <2>1, <3>1 DEF Orphan, Filling
    <2>7. CASE Link(p)
      BY <1>1, <2>7 DEF Link, Update, Settle, Goto, Orphan, Filling
    <2>8. CASE UnlinkTemp(p)
      <3>1. /\ pc[p] = "unlink" /\ UNCHANGED littered
            /\ dir' = [dir EXCEPT ![temp[p]] = None]
            /\ pc' = [pc EXCEPT ![p] = "idle"] /\ temp' = [temp EXCEPT ![p] = None]
        BY <2>8 DEF UnlinkTemp, Update, Settle, Leave
      <3> QED
        BY <1>1, <2>1, <3>1 DEF Orphan, Filling
    <2> QED
      BY <1>4, <2>2, <2>3, <2>4, <2>5, <2>6, <2>7, <2>8 DEF Step
  <1>5. CASE Environment
    <2>1. ~(\E p \in Processes : Kill(p)) /\ ~PowerLoss
      BY DEF Kill, PowerLoss
    <2>2. ASSUME NEW l \in Looks, ForeignEdit(l)
          PROVE  Orphan(t) /\ ~littered
      BY <2>2 DEF ForeignEdit, Update, Settle, local, Orphan
    <2>3. ASSUME NEW i \in Inodes, NEW l \in Looks, ForeignInstall(i, l)
          PROVE  Orphan(t) /\ ~littered
      BY <1>1, <2>3 DEF ForeignInstall, Update, Settle, local, Orphan
    <2>4. CASE ForeignDelete
      BY <1>1, <2>4 DEF ForeignDelete, Update, Settle, local, Orphan
    <2>5. CASE Writeback
      BY <2>5 DEF Writeback, Settle, local, Orphan
    <2> QED
      BY <1>5, <2>1, <2>2, <2>3, <2>4, <2>5 DEF Environment
  <1> QED
    BY <1>2, <1>3, <1>4, <1>5 DEF Next

(***************************************************************************)
(* No return path of either call leaves a temporary file: unless a process *)
(* died or an unlink failed, every one belongs to a call that runs         *)
(* (AtomicFile.cpp:249-306 and 376-450).                                   *)
(***************************************************************************)
THEOREM NoLeftoversCorrect == Spec => []NoLeftovers
  <1>1. NoLeftovers <=> (~littered => \A t \in Temps : ~Orphan(t))
    BY DEF NoLeftovers, Orphan
  <1>2. NoLeftovers' <=> (~littered' => \A t \in Temps : ~Orphan(t)')
    BY DEF NoLeftovers, Orphan
  <1>3. Init => NoLeftovers
    BY InitInv
  <1>4. Inv /\ Memory /\ NoLeftovers /\ [Next]_vars => NoLeftovers'
    BY <1>1, <1>2, NoOrphan
  <1> QED
    BY <1>3, <1>4, Invariance, PTL DEF Spec

-----------------------------------------------------------------------------
\* A step that keeps the file under the name and writes nothing to it.
LEMMA SameContents ==
    ASSUME Inv, NEW names, NEW written, NEW descriptors, NEW files,
           Settle(names, written, descriptors, files),
           dir'[Target] = dir[Target],
           dir[Target] \in Inodes => files[dir[Target]].data = inode[dir[Target]].data
    PROVE  Contents' = Contents
  <1>1. CASE dir[Target] \in Inodes
    <2>1. InUse(names, written, descriptors, dir[Target])
      BY <1>1 DEF InUse, Settle, Names
    <2>2. inode'[dir[Target]].data = inode[dir[Target]].data
      BY <1>1, <2>1 DEF Settle
    <2> QED
      BY <1>1, <2>2 DEF Contents, DataOf
  <1>2. CASE dir[Target] = None
    BY <1>2 DEF Contents, DataOf
  <1> QED
    BY <1>1, <1>2 DEF Inv, TypeOK, Names

\* A step that writes nothing to the file the target is on disk.
LEMMA SameDurable ==
    ASSUME Inv, NEW names, NEW descriptors, NEW files, Update(names, descriptors, files),
           disk \in Inodes => files[disk].data = inode[disk].data
    PROVE  Durable' = Durable
  <1>1. CASE disk \in Inodes
    <2>1. InUse(names, disk, descriptors, disk)
      BY DEF InUse
    <2>2. disk' = disk /\ inode'[disk].data = inode[disk].data
      BY <1>1, <2>1 DEF Update, Settle
    <2> QED
      BY <1>1, <2>2 DEF Durable, DataOf
  <1>2. CASE disk = None
    BY <1>2 DEF Durable, DataOf, Update, Settle
  <1> QED
    BY <1>1, <1>2 DEF Inv, TypeOK

\* No step of a call writes to the target's file, present or on disk.
LEMMA ContentsKept ==
    ASSUME Inv, NEW p \in Processes, Step(p)
    PROVE  /\ Durable' = Durable
           /\ ~Rename(p) /\ ~Link(p) => Contents' = Contents
  <1>1. ~Rename(p) /\ ~Link(p) => dir'[Target] = dir[Target]
    BY TargetKept
  <1>2. /\ inode \in [Inodes -> Inode]
        /\ pc[p] \in Writing => dir[temp[p]] # dir[Target] /\ dir[temp[p]] # disk
    BY FileAssumption DEF Inv, TypeOK, Safe, Own, Private, Filling, Writing, Names
  <1>3. ASSUME NEW names, NEW descriptors, NEW files, Update(names, descriptors, files),
               \A i \in {dir[Target], disk} :
                   i \in Inodes => files[i].data = inode[i].data
        PROVE  /\ Durable' = Durable
               /\ ~Rename(p) /\ ~Link(p) => Contents' = Contents
    <2>1. Settle(names, disk, descriptors, files)
      BY <1>3 DEF Update
    <2> QED
      BY <1>1, <1>3, <2>1, SameContents, SameDurable
  <1>4. ASSUME NEW names, NEW descriptors, Update(names, descriptors, inode)
        PROVE  /\ Durable' = Durable
               /\ ~Rename(p) /\ ~Link(p) => Contents' = Contents
    BY <1>3, <1>4
  <1>5. CASE Fail(p) \/ Rename(p) \/ Link(p)
    BY <1>4, <1>5 DEF Fail, Rename, Link
  <1>6. CASE Stat(p) \/ Open(p) \/ Recheck(p)
    BY <1>6 DEF Stat, Open, Recheck, Contents, Durable, DataOf
  <1>7. ASSUME NEW t \in Temps, NEW j \in Inodes, NEW a \in Attributes,
               CreateTemporaryFile(p, t, j, a)
        PROVE  /\ Durable' = Durable
               /\ ~Rename(p) /\ ~Link(p) => Contents' = Contents
    <2> DEFINE files == [inode EXCEPT ![j] = [Blank EXCEPT !.synced = FALSE, !.attrs = a]]
    <2>1. j # dir[Target] /\ j # disk
      BY <1>7, FreeUnnamed DEF CreateTemporaryFile, Names
    <2>2. \A i \in {dir[Target], disk} : i \in Inodes => files[i].data = inode[i].data
      BY <1>2, <2>1
    <2>3. Update([dir EXCEPT ![t] = j], source, files)
      BY <1>7 DEF CreateTemporaryFile
    <2> HIDE DEF files
    <2> QED
      BY <1>3, <2>2, <2>3
  <1>8. CASE Fill(p)
    <2> DEFINE t == dir[temp[p]]
               attrs == IF op[p] = "replace" /\ inode[source[p]].attrs # None
                        THEN inode[source[p]].attrs ELSE inode[t].attrs
               files == [inode EXCEPT ![t] = [data |-> p, synced |-> FALSE,
                                              meta |-> meta[p], attrs |-> attrs]]
    <2>1. t # dir[Target] /\ t # disk
      BY <1>2, <1>8 DEF Fill, Filling, Writing
    <2>2. \A i \in {dir[Target], disk} : i \in Inodes => files[i].data = inode[i].data
      BY <1>2, <2>1
    <2>3. Update(dir, source, files)
      BY <1>8 DEF Fill
    <2> HIDE DEF files
    <2> QED
      BY <1>3, <2>2, <2>3
  <1>9. CASE Fsync(p)
    <2> DEFINE files == [inode EXCEPT ![dir[temp[p]]].synced = TRUE]
    <2>1. dir[temp[p]] # dir[Target] /\ dir[temp[p]] # disk
      BY <1>2, <1>9 DEF Fsync, Filling, Writing
    <2>2. \A i \in {dir[Target], disk} : i \in Inodes => files[i].data = inode[i].data
      BY <1>2, <2>1
    <2>3. Update(dir, Without(p), files)
      BY <1>9 DEF Fsync
    <2> HIDE DEF files
    <2> QED
      BY <1>3, <2>2, <2>3
  <1>10. CASE UnlinkTemp(p)
    <2>1. CASE UNCHANGED <<dir, inode, disk, source>>
      BY <2>1 DEF Contents, Durable, DataOf
    <2>2. CASE Update([dir EXCEPT ![temp[p]] = None], source, inode)
      BY <1>4, <2>2
    <2> QED
      BY <1>10, <2>1, <2>2 DEF UnlinkTemp
  <1> QED
    BY <1>5, <1>6, <1>7, <1>8, <1>9, <1>10 DEF Step

\* What the call of a process is, to its caller.
LEMMA CallsOf ==
    ASSUME NEW p \in Processes
    PROVE  Calls[p] = IF pc[p] = "idle" THEN "idle"
                      ELSE IF pc[p] = "unlink" THEN "created" ELSE op[p]
  BY DEF Calls

LEMMA InitFile ==
    ASSUME Init
    PROVE  File!Init
  <1>1. Contents \in {Foreign, None} /\ Durable = Contents
    BY FileAssumption DEF Init, Contents, Durable, DataOf, ForeignFile, Names
  <1>2. Calls = [p \in Processes |-> "idle"]
    BY DEF Init, Calls
  <1> QED
    BY <1>1, <1>2 DEF File!Init

\* A call that goes on, or is over, without an effect on the file.
LEMMA CallGoesOn ==
    ASSUME Inv, NEW p \in Processes, NEW step \in Steps \ {"idle", "unlink"},
           pc[p] \notin {"idle", "unlink"}, pc' = [pc EXCEPT ![p] = step], op' = op
    PROVE  Calls' = Calls
  BY DEF Calls, Inv, TypeOK

LEMMA CallIsOver ==
    ASSUME Inv, NEW p \in Processes, pc[p] # "idle", Leave(p)
    PROVE  Calls[p] # "idle" /\ Calls' = [Calls EXCEPT ![p] = "idle"]
  <1>1. pc' = [pc EXCEPT ![p] = "idle"] /\ op' = [op EXCEPT ![p] = "replace"]
    BY DEF Leave
  <1>2. Calls[p] # "idle"
    BY CallsOf DEF Inv, TypeOK
  <1>3. Calls' = [Calls EXCEPT ![p] = "idle"]
    BY <1>1 DEF Calls, Inv, TypeOK
  <1> QED
    BY <1>2, <1>3

\* The step by which a call takes effect.
LEMMA Installed ==
    ASSUME Inv, NEW p \in Processes, Rename(p) \/ Link(p)
    PROVE  Contents' = p
  <1>1. /\ dir'[Target] = dir[temp[p]] /\ pc[p] = "install"
        /\ \E names : Update(names, source, inode)
        /\ dir[temp[p]] \in Inodes /\ Target \in Names
    <2>1. pc[p] = "install" /\ temp[p] \in Temps /\ dir[temp[p]] \in Inodes
      BY DEF Rename, Link, Inv, Safe, Own, Filling
    <2>2. dir \in [Names -> Inodes \cup {None}] /\ Target \in Names /\ temp[p] # Target
      BY <2>1, FileAssumption DEF Inv, TypeOK, Names
    <2> QED
      BY <2>1, <2>2 DEF Rename, Link, Update, Settle
  <1>2. inode[dir[temp[p]]].data = p
    BY <1>1 DEF Inv, Safe, Filled
  <1>3. PICK names : Update(names, source, inode)
    BY <1>1
  <1>4. InUse(names, disk, source, dir'[Target])
    BY <1>1, <1>3 DEF InUse, Update, Settle
  <1>5. inode'[dir'[Target]] = inode[dir[temp[p]]]
    BY <1>1, <1>3, <1>4 DEF Update, Settle
  <1> QED
    BY <1>1, <1>2, <1>5, FileAssumption DEF Contents, DataOf

LEMMA FileStep ==
    ASSUME Inv, [Next]_vars
    PROVE  [File!Next]_(File!vars)
  <1> USE DEF File!vars
  <1>1. CASE UNCHANGED vars
    BY <1>1 DEF vars, local, Contents, Durable, DataOf, Calls
  <1>2. ASSUME NEW p \in Processes, NEW o \in {"create", "replace"}, Call(p, o)
        PROVE  File!Next
    <2>1. Contents' = Contents /\ Durable' = Durable
      BY <1>2 DEF Call, Contents, Durable, DataOf
    <2>2. Calls[p] = "idle" /\ Calls' = [Calls EXCEPT ![p] = o]
      BY <1>2 DEF Call, Calls, Inv, TypeOK
    <2> QED
      BY <2>1, <2>2 DEF File!Next, File!CallFile
  <1>3. ASSUME NEW p \in Processes, pc[p] # "idle", Leave(p),
               Contents' = Contents, Durable' = Durable
        PROVE  File!Next
    BY <1>3, CallIsOver DEF File!Next, File!Return
  <1>4. ASSUME NEW p \in Processes, Step(p)
        PROVE  [File!Next]_(File!vars)
    <2>1. CASE Rename(p)
      <3>1. Calls[p] = "replace" /\ Calls' = [Calls EXCEPT ![p] = "idle"]
        BY <2>1, CallsOf, CallIsOver DEF Rename
      <3> QED
        BY <1>4, <2>1, <3>1, Installed, ContentsKept DEF File!Next, File!Replace
    <2>2. CASE Link(p)
      <3>1. Calls[p] = "create" /\ Contents = None
        BY <2>2, CallsOf DEF Link, Contents, DataOf
      <3>2. Calls' = [Calls EXCEPT ![p] = "created"]
        BY <2>2 DEF Link, Goto, Calls, Inv, TypeOK
      <3> QED
        BY <1>4, <2>2, <3>1, <3>2, Installed, ContentsKept DEF File!Next, File!Create
    <2>3. CASE Fail(p) \/ UnlinkTemp(p)
      <3>1. pc[p] # "idle" /\ Leave(p)
        BY <2>3 DEF Fail, UnlinkTemp
      <3> QED
        BY <1>3, <1>4, <2>1, <2>2, <3>1, ContentsKept
    <2>4. ASSUME ~Rename(p), ~Link(p), ~Fail(p), ~UnlinkTemp(p)
          PROVE  [File!Next]_(File!vars)
      <3>1. \E step \in Steps \ {"idle", "unlink"} : pc' = [pc EXCEPT ![p] = step]
        BY <1>4, <2>4 DEF Step, Stat, Open, CreateTemporaryFile, Fill, Fsync, Recheck, Goto, Steps
      <3>2. pc[p] \notin {"idle", "unlink"} /\ op' = op
        BY <1>4, <2>4 DEF Step, Stat, Open, CreateTemporaryFile, Fill, Fsync, Recheck, Goto
      <3>3. Calls' = Calls
        BY <3>1, <3>2, CallGoesOn
      <3> QED
        BY <1>4, <2>4, <3>3, ContentsKept
    <2> QED
      BY <2>1, <2>2, <2>3, <2>4
  <1>5. ASSUME NEW p \in Processes, Kill(p)
        PROVE  File!Next
    <2>1. Update(dir, Without(p), inode) /\ Settle(dir, disk, Without(p), inode)
      BY <1>5 DEF Kill, Update
    <2>2. Contents' = Contents /\ Durable' = Durable
      BY <2>1, SameContents, SameDurable DEF Settle
    <2> QED
      BY <1>3, <1>5, <2>2 DEF Kill
  <1>6. CASE PowerLoss
    <2>1. Contents' = Durable /\ Durable' = Durable
      BY <1>6, AfterPowerLoss DEF Contents, Durable, DataOf
    <2>2. Calls' = [p \in Processes |-> "idle"]
      BY <1>6 DEF PowerLoss, Calls
    <2> QED
      BY <2>1, <2>2 DEF File!Next, File!Restart
  <1>8. CASE Writeback
    <2>1. Settle(dir, dir[Target], source, inode) /\ Calls' = Calls
      BY <1>8 DEF Writeback, local, Calls
    <2>2. Contents' = Contents
      BY <2>1, SameContents DEF Settle
    <2>3. Durable' = Contents
      BY <2>1, <2>2 DEF Settle, Durable, Contents
    <2> QED
      BY <2>1, <2>2, <2>3 DEF File!Next, File!Flush
  <1>7. ASSUME \/ \E l \in Looks : ForeignEdit(l)
               \/ \E i \in Inodes, l \in Looks : ForeignInstall(i, l)
               \/ ForeignDelete
        PROVE  File!Next
    <2>1. Calls' = Calls
      BY <1>7 DEF ForeignEdit, ForeignInstall, ForeignDelete, local, Calls
    <2>2. /\ dir \in [Names -> Inodes \cup {None}] /\ disk \in Inodes \cup {None}
          /\ source \in [Processes -> Inodes \cup {None}]
          /\ inode \in [Inodes -> Inode] /\ Target \in Names
      BY DEF Inv, TypeOK, Names
    <2>3. ASSUME NEW l \in Looks, ForeignEdit(l)
          PROVE  Contents' = Foreign /\ Durable' \in {Durable, Contents'}
      <3> DEFINE files == [inode EXCEPT ![dir[Target]] = ForeignFile(l)]
      <3>1. dir[Target] \in Inodes /\ Update(dir, source, files)
        BY <2>2, <2>3 DEF ForeignEdit
      <3>2. files \in [Inodes -> Inode]
        BY <2>2, ForeignFileWhole
      <3>3. /\ dir' = dir /\ disk' = disk
            /\ inode'[dir[Target]] = files[dir[Target]]
            /\ disk \in Inodes => inode'[disk] = files[disk]
        <4> HIDE DEF files
        <4> QED
          BY <2>2, <3>1, <3>2, UpdateKeeps
      <3>4. Contents' = Foreign
        BY <2>2, <3>1, <3>3, FileAssumption DEF Contents, DataOf, ForeignFile
      <3>5. disk = dir[Target] => Durable' = Contents'
        BY <3>3 DEF Contents, Durable
      <3>6. disk # dir[Target] => Durable' = Durable
        BY <2>2, <3>3 DEF Durable, DataOf
      <3> QED
        BY <3>4, <3>5, <3>6
    <2>4. ASSUME NEW i \in Inodes, NEW l \in Looks, ForeignInstall(i, l)
          PROVE  Contents' = Foreign /\ Durable' = Durable
      <3> DEFINE names == [dir EXCEPT ![Target] = i]
                 files == [inode EXCEPT ![i] = ForeignFile(l)]
      <3>1. disk # i /\ Update(names, source, files)
        BY <2>4, FreeUnnamed DEF ForeignInstall
      <3>2. names \in [Names -> Inodes \cup {None}] /\ files \in [Inodes -> Inode]
        BY <2>2, ForeignFileWhole
      <3>3. /\ dir' = names /\ disk' = disk /\ names[Target] = i
            /\ inode'[i] = files[i]
            /\ disk \in Inodes => inode'[disk] = files[disk]
        <4>1. names[Target] = i
          BY <2>2
        <4> HIDE DEF files, names
        <4> QED
          BY <2>2, <3>1, <3>2, <4>1, UpdateKeeps
      <3>4. Contents' = Foreign
        BY <2>2, <3>3, FileAssumption DEF Contents, DataOf, ForeignFile
      <3>5. Durable' = Durable
        BY <2>2, <3>1, <3>3 DEF Durable, DataOf
      <3> QED
        BY <3>4, <3>5
    <2>5. ASSUME ForeignDelete
          PROVE  Contents' = None /\ Durable' = Durable
      <3>1. Update([dir EXCEPT ![Target] = None], source, inode)
        BY <2>5 DEF ForeignDelete
      <3>2. Contents' = None
        BY <2>2, <3>1 DEF Update, Settle, Contents, DataOf
      <3> QED
        BY <3>1, <3>2, SameDurable
    <2> QED
      BY <1>7, <2>1, <2>3, <2>4, <2>5 DEF File!Next, File!ForeignWrite
  <1> QED
    BY <1>1, <1>2, <1>4, <1>5, <1>6, <1>7, <1>8 DEF Next, Environment

(***************************************************************************)
(* The two functions implement ConfigFile, for any number of callers and   *)
(* names: the file changes all at once, at most once in a call, and not at *)
(* all in a call that fails or whose process dies (AtomicFile.cpp:217-313  *)
(* and 315-451); after a power loss, which may undo a call that was over,  *)
(* it is what had reached the disk last, as a whole.                       *)
(***************************************************************************)
THEOREM Implements == Spec => ImplementsConfigFile
  <1>1. Init => File!Init
    BY InitFile
  <1>2. Inv /\ Memory /\ [Next]_vars => [File!Next]_(File!vars)
    BY FileStep
  <1> QED
    BY <1>1, <1>2, Invariance, PTL DEF Spec, ImplementsConfigFile, File!Spec
=============================================================================
