---------------------------- MODULE CacheProofs ----------------------------
(***************************************************************************)
(* Proofs about the two caches that processes share in a file and that are *)
(* used for a limited time: the one of FilesystemScanner, for any number   *)
(* of clients, scanners and files, and the package list of                 *)
(* PackageInstalled, for any number of processes and packages; for any     *)
(* timeouts.                                                               *)
(***************************************************************************)
EXTENDS FilesystemScanner, PackageInstalled, TLAPS

-----------------------------------------------------------------------------
(***************************************************************************)
(* The inductive invariant of the scanner.                                 *)
(***************************************************************************)

\* The flock is held exactly by the scanner between flock and _exit, so no two
\* scanners are there at once.
LockHeld == \A s \in Scanners : spc[s] \in Critical <=> lock = s

\* What the scanner that holds the lock has written so far.
Written ==
    \A s \in Scanners :
        /\ spc[s] = "open" => toWrite[s] = Files
        /\ spc[s] = "write" => /\ tmpFile.entries \cup toWrite[s] = Files
                               /\ \A f \in tmpFile.entries, g \in toWrite[s] : f < g
                               /\ tmpFile.header => tmpFile.age = endAge[s]
        /\ spc[s] \in {"unlink", "rename"} =>
               /\ Beginning(tmpFile.entries)
               /\ tmpFile.failed \/ tmpFile.entries = Files
               /\ tmpFile.header => tmpFile.age = endAge[s]

\* A file that has been installed is complete, or the beginning of a scan whose
\* writes failed; and so are the lines a cache in memory was read from.
Installed ==
    /\ cacheFile # NoFile => /\ Beginning(cacheFile.entries)
                             /\ cacheFile.failed \/ cacheFile.entries = Files
    /\ LoadedComplete

\* A walk that is over ended after every scan on disk or in memory.
HoldsNewest(s) ==
    /\ cacheFile # NoFile /\ cacheFile.header => endAge[s] <= cacheFile.age
    /\ \A c \in Clients : mCache[c] # NoFile => endAge[s] <= mCache[c].age

Newest ==
    /\ DiskNewest
    /\ \A s \in Scanners :
          spc[s] \in {"open", "write", "unlink", "rename"} => HoldsNewest(s)

\* Where a call of GetFullFilesystem stands.
Calls ==
    \A c \in Clients :
        /\ cpc[c] \in {"age", "launchSoft", "recheckHard"} => mCache[c] # NoFile
        /\ cpc[c] # "idle" => result[c] = "none"
        /\ cpc[c] \in {"launchSoft", "recheckHard"} => ~expired[c]
        /\ cpc[c] = "age" /\ expired[c] => mCache[c].age >= HardTimeout
        /\ result[c] = "cache" => mCache[c] # NoFile /\ ~expired[c]

-----------------------------------------------------------------------------
\* Time passes without changing the order of two time stamps.
LEMMA LaterMonotone ==
    ASSUME NEW a \in Age, NEW b \in Age
    PROVE  /\ Later(a) \in Age
           /\ a <= b => Later(a) <= Later(b)
           /\ a >= HardTimeout => Later(a) >= HardTimeout
  BY ScannerAssumption DEF Age, Later

\* Growing older changes only the age of a file, and no file comes or goes.
LEMMA OlderFile ==
    ASSUME NEW f \in Content \cup {NoFile}
    PROVE  /\ Older(f) \in Content \cup {NoFile}
           /\ Older(f) = NoFile <=> f = NoFile
           /\ f # NoFile => /\ Older(f) \in Content
                            /\ Older(f).header = f.header
                            /\ Older(f).entries = f.entries
                            /\ Older(f).failed = f.failed
                            /\ Older(f).age = Later(f.age)
  <1>1. CASE f = NoFile
    BY <1>1, NoFileAssumption DEF Older
  <1>2. CASE f # NoFile
    <2>1. f \in Content /\ f.age \in Age
      BY <1>2 DEF Content
    <2>2. Later(f.age) \in Age
      BY <2>1, LaterMonotone
    <2>3. Older(f) = [f EXCEPT !.age = Later(f.age)]
      BY <1>2 DEF Older
    <2>4. Older(f) \in Content
      BY <2>1, <2>2, <2>3 DEF Content
    <2> QED
      BY <1>2, <2>1, <2>2, <2>3, <2>4, NoFileAssumption DEF Content
  <1> QED
    BY <1>1, <1>2

\* What LoadCache makes of the cache file is a cache object of the same age.
LEMMA ParsedFile ==
    ASSUME TypeOK, cacheFile # NoFile
    PROVE  /\ Parsed \in FSCache
           /\ Parsed # NoFile
           /\ Parsed.age = cacheFile.age
           /\ Parsed.failed = cacheFile.failed
           /\ Parsed.entries = Loaded(cacheFile.entries)
  <1>1. cacheFile \in Content
    BY DEF TypeOK
  <1>2. Loaded(cacheFile.entries) \in SUBSET (Names \X Files)
    BY <1>1 DEF Content, Loaded
  <1>3. Parsed \in FSCache
    BY <1>1, <1>2 DEF Parsed, FSCache, Content
  <1> QED
    BY <1>3, NoFileAssumption DEF Parsed

\* The same of a cache object in memory.
LEMMA OlderCache ==
    ASSUME NEW m \in FSCache \cup {NoFile}
    PROVE  /\ Older(m) \in FSCache \cup {NoFile}
           /\ Older(m) = NoFile <=> m = NoFile
           /\ m # NoFile => /\ Older(m) \in FSCache
                            /\ Older(m).entries = m.entries
                            /\ Older(m).failed = m.failed
                            /\ Older(m).age = Later(m.age)
  <1>1. CASE m = NoFile
    BY <1>1, NoFileAssumption DEF Older
  <1>2. CASE m # NoFile
    <2>1. m \in FSCache /\ m.age \in Age
      BY <1>2 DEF FSCache
    <2>2. Later(m.age) \in Age
      BY <2>1, LaterMonotone
    <2>3. Older(m) = [m EXCEPT !.age = Later(m.age)]
      BY <1>2 DEF Older
    <2>4. Older(m) \in FSCache
      BY <2>1, <2>2, <2>3 DEF FSCache
    <2> QED
      BY <1>2, <2>1, <2>2, <2>3, <2>4, NoFileAssumption DEF FSCache
  <1> QED
    BY <1>1, <1>2

LEMMA LoadedFile ==
    ASSUME TypeOK, NEW c \in Clients, CanLoad, LoadCache(c)
    PROVE  /\ mCache' \in [Clients -> FSCache \cup {NoFile}]
           /\ expired' \in [Clients -> BOOLEAN]
           /\ mCache'[c] # NoFile
  BY ParsedFile DEF TypeOK, CanLoad, LoadCache

LEMMA BlankFile == Blank \in Content
  BY ScannerAssumption DEF Blank, Content, Age
-----------------------------------------------------------------------------
(***************************************************************************)
(* Type correctness.                                                       *)
(***************************************************************************)
LEMMA TypeInit == Init => TypeOK
  BY ScannerAssumption, BlankFile
     DEF Init, TypeOK, Age, ScannerPc, ClientPc

LEMMA TypeStep == TypeOK /\ [Next]_vars => TypeOK'
  <1> SUFFICES ASSUME TypeOK, [Next]_vars
               PROVE  TypeOK'
    OBVIOUS
  <1> USE DEF TypeOK
  <1>1. CASE Tick
    <2>1. /\ cacheFile' \in Content \cup {NoFile}
          /\ tmpFile' \in Content
          /\ mCache' \in [Clients -> FSCache \cup {NoFile}]
      BY <1>1, OlderFile, OlderCache, NoFileAssumption DEF Tick
    <2>2. endAge' \in [Scanners -> Age]
      BY <1>1, LaterMonotone DEF Tick
    <2>3. waited' \in [Clients -> 0 .. WaitTimeout]
      BY <1>1, ScannerAssumption DEF Tick
    <2> QED
      BY <1>1, <2>1, <2>2, <2>3 DEF Tick
  <1>2. ASSUME NEW s \in Scanners, AcquireLock(s)
        PROVE  TypeOK'
    BY <1>2 DEF AcquireLock, files, clientVars, ScannerPc
  <1>3. ASSUME NEW s \in Scanners, ScanDirRecursive(s)
        PROVE  TypeOK'
    BY <1>3, ScannerAssumption DEF ScanDirRecursive, files, clientVars, ScannerPc, Age
  <1>4. ASSUME NEW s \in Scanners, OpenTmp(s)
        PROVE  TypeOK'
    BY <1>4, BlankFile DEF OpenTmp, clientVars, ScannerPc
  <1>5. ASSUME NEW s \in Scanners, WriteHeader(s)
        PROVE  TypeOK'
    BY <1>5 DEF WriteHeader, scannerVars, clientVars, Content
  <1>6. ASSUME NEW s \in Scanners, WriteEntry(s)
        PROVE  TypeOK'
    BY <1>6 DEF WriteEntry, clientVars, Content
  <1>7. ASSUME NEW s \in Scanners, CloseTmp(s)
        PROVE  TypeOK'
    BY <1>7 DEF CloseTmp, clientVars, ScannerPc, Content
  <1>8. ASSUME NEW s \in Scanners, UnlinkCache(s)
        PROVE  TypeOK'
    BY <1>8 DEF UnlinkCache, clientVars, ScannerPc
  <1>9. ASSUME NEW s \in Scanners, RenameTmp(s)
        PROVE  TypeOK'
    BY <1>9, BlankFile, ScannerAssumption DEF RenameTmp, Exit, clientVars, ScannerPc, Age
  <1>10. ASSUME NEW s \in Scanners, ScannerExit(s)
        PROVE  TypeOK'
    BY <1>10, ScannerAssumption DEF ScannerExit, Exit, files, clientVars, ScannerPc, Age
  <1>11. ASSUME NEW c \in Clients, GetFullFilesystem(c)
        PROVE  TypeOK'
    <2> DEFINE old == mCache[c].age >= HardTimeout
    <2>1. old \in BOOLEAN
      OBVIOUS
    <2>2. \/ expired' = [expired EXCEPT ![c] = FALSE]
          \/ expired' = [expired EXCEPT ![c] = old]
      BY <1>11 DEF GetFullFilesystem
    <2> HIDE DEF old
    <2>3. expired' \in [Clients -> BOOLEAN]
      BY <2>1, <2>2
    <2> QED
      BY <1>11, <2>3 DEF GetFullFilesystem, files, scannerVars, ClientPc
  <1>12. ASSUME NEW c \in Clients, FirstLoad(c)
        PROVE  TypeOK'
    BY <1>12, LoadedFile, ScannerAssumption DEF FirstLoad, Goto, files, scannerVars, ClientPc
  <1>13. ASSUME NEW c \in Clients, LaunchMissing(c)
        PROVE  TypeOK'
    BY <1>13, ScannerAssumption DEF LaunchMissing, BackgroundScan, Goto, files, ScannerPc, ClientPc
  <1>14. ASSUME NEW c \in Clients, PollMissing(c)
        PROVE  TypeOK'
    BY <1>14, LoadedFile, ScannerAssumption DEF PollMissing, Goto, Return, files, scannerVars, ClientPc
  <1>15. ASSUME NEW c \in Clients, CheckAge(c)
        PROVE  TypeOK'
    BY <1>15, ScannerAssumption DEF CheckAge, Goto, Return, files, scannerVars, ClientPc
  <1>16. ASSUME NEW c \in Clients, LaunchSoft(c)
        PROVE  TypeOK'
    BY <1>16, ScannerAssumption DEF LaunchSoft, BackgroundScan, Return, files, ScannerPc, ClientPc
  <1>17. ASSUME NEW c \in Clients, LaunchHard(c)
        PROVE  TypeOK'
    BY <1>17, ScannerAssumption DEF LaunchHard, BackgroundScan, Goto, files, ScannerPc, ClientPc
  <1>18. ASSUME NEW c \in Clients, PollHard(c)
        PROVE  TypeOK'
    BY <1>18, LoadedFile, ScannerAssumption DEF PollHard, Return, files, scannerVars, ClientPc
  <1>19. ASSUME NEW c \in Clients, RecheckHard(c)
        PROVE  TypeOK'
    BY <1>19, ScannerAssumption DEF RecheckHard, Return, files, scannerVars, ClientPc
  <1>20. CASE UNCHANGED vars
    BY <1>20 DEF vars, files, scannerVars, clientVars
  <1> QED
    BY <1>1, <1>2, <1>3, <1>4, <1>5, <1>6, <1>7, <1>8, <1>9, <1>10, <1>11,
       <1>12, <1>13, <1>14, <1>15, <1>16, <1>17, <1>18, <1>19, <1>20
    DEF Next, Scanner, Client

-----------------------------------------------------------------------------
(***************************************************************************)
(* What a step of each kind of process leaves alone.                       *)
(***************************************************************************)
ClientStep == \E c \in Clients : GetFullFilesystem(c) \/ Client(c)

\* A client touches no file and starts a scanner at most.
LEMMA ClientFrame ==
    ASSUME TypeOK, ClientStep
    PROVE  /\ UNCHANGED <<cacheFile, tmpFile, lock, toWrite, endAge>>
           /\ \A s \in Scanners : spc'[s] = spc[s] \/ (spc[s] = "none" /\ spc'[s] = "start")
  <1>1. PICK c \in Clients : GetFullFilesystem(c) \/ Client(c)
    BY DEF ClientStep
  <1>2. UNCHANGED <<cacheFile, tmpFile, lock, toWrite, endAge>>
    BY <1>1 DEF Client, GetFullFilesystem, FirstLoad, LaunchMissing, PollMissing, CheckAge,
       LaunchSoft, LaunchHard, PollHard, RecheckHard, files, scannerVars
  <1>3. UNCHANGED spc \/ BackgroundScan
    BY <1>1 DEF Client, GetFullFilesystem, FirstLoad, LaunchMissing, PollMissing, CheckAge,
       LaunchSoft, LaunchHard, PollHard, RecheckHard, scannerVars
  <1>4. spc \in [Scanners -> ScannerPc]
    BY DEF TypeOK
  <1>5. ASSUME NEW s \in Scanners
        PROVE  spc'[s] = spc[s] \/ (spc[s] = "none" /\ spc'[s] = "start")
    BY <1>3, <1>4 DEF BackgroundScan
  <1> QED
    BY <1>2, <1>5

\* A client keeps its cache, drops it, or loads the one on disk.
LEMMA ClientCache ==
    ASSUME TypeOK, ClientStep, NEW d \in Clients
    PROVE  \/ mCache'[d] = mCache[d]
           \/ mCache'[d] = NoFile
           \/ CanLoad /\ mCache'[d] = Parsed
  <1>1. PICK c \in Clients : GetFullFilesystem(c) \/ Client(c)
    BY DEF ClientStep
  <1>2. \/ UNCHANGED mCache
        \/ mCache' = [mCache EXCEPT ![c] = NoFile]
        \/ CanLoad /\ mCache' = [mCache EXCEPT ![c] = Parsed]
    BY <1>1 DEF Client, GetFullFilesystem, FirstLoad, LaunchMissing, PollMissing, CheckAge,
       LaunchSoft, LaunchHard, PollHard, RecheckHard, LoadCache
  <1> QED
    BY <1>2 DEF TypeOK

\* A scanner leaves the clients alone.
LEMMA ScannerFrame ==
    ASSUME NEW s \in Scanners, Scanner(s)
    PROVE  UNCHANGED <<cpc, mCache, waited, result, expired>>
  BY DEF Scanner, AcquireLock, ScanDirRecursive, OpenTmp, WriteHeader, WriteEntry, CloseTmp,
     UnlinkCache, RenameTmp, ScannerExit, clientVars

-----------------------------------------------------------------------------
(***************************************************************************)
(* Mutual exclusion of the scanners.                                       *)
(***************************************************************************)
LEMMA LockStep == TypeOK /\ LockHeld /\ [Next]_vars => LockHeld'
  <1> SUFFICES ASSUME TypeOK, LockHeld, [Next]_vars
               PROVE  LockHeld'
    OBVIOUS
  <1>1. CASE Tick
    BY <1>1 DEF Tick, LockHeld
  <1>2. ASSUME NEW s \in Scanners, Scanner(s)
        PROVE  LockHeld'
    <2>1. \/ /\ lock = NoOne /\ lock' = s /\ spc[s] = "start"
             /\ spc' = [spc EXCEPT ![s] = "scan"]
          \/ /\ spc[s] = "start" /\ UNCHANGED lock
             /\ spc' = [spc EXCEPT ![s] = "none"]
          \/ /\ spc[s] \in Critical /\ UNCHANGED lock
             /\ \E l \in Critical : spc' = [spc EXCEPT ![s] = l]
          \/ UNCHANGED <<lock, spc>>
          \/ Exit(s)
      BY <1>2 DEF Scanner, AcquireLock, ScanDirRecursive, OpenTmp, WriteHeader, WriteEntry,
         CloseTmp, UnlinkCache, RenameTmp, ScannerExit, scannerVars, Critical
    <2> QED
      BY <2>1, ScannerAssumption DEF Exit, LockHeld, Critical, TypeOK
  <1>3. CASE ClientStep
    BY <1>3, ClientFrame DEF LockHeld, Critical
  <1>4. CASE UNCHANGED vars
    BY <1>4 DEF vars, scannerVars, LockHeld
  <1> QED
    BY <1>1, <1>2, <1>3, <1>4 DEF Next, ClientStep

-----------------------------------------------------------------------------
(***************************************************************************)
(* The file that is being written, and the files that were installed.      *)
(***************************************************************************)

\* While s holds the lock, no other scanner is past the lock.
LEMMA OnlyHolder ==
    ASSUME LockHeld, NEW s \in Scanners, NEW t \in Scanners,
           spc[s] \in Critical, spc[t] \in Critical
    PROVE  s = t
  BY DEF LockHeld

\* A scanner's step changes the local state of no other scanner, and the files
\* only while it holds the lock.
LEMMA OtherScanners ==
    ASSUME TypeOK, NEW s \in Scanners, Scanner(s)
    PROVE  /\ \A t \in Scanners \ {s} :
                 spc'[t] = spc[t] /\ toWrite'[t] = toWrite[t] /\ endAge'[t] = endAge[t]
           /\ UNCHANGED <<cacheFile, tmpFile>> \/ spc[s] \in Critical
  <1>1. UNCHANGED <<cacheFile, tmpFile>> \/ spc[s] \in Critical
    BY DEF Scanner, AcquireLock, ScanDirRecursive, OpenTmp, WriteHeader, WriteEntry, CloseTmp,
       UnlinkCache, RenameTmp, ScannerExit, Critical, files
  <1>2. \/ UNCHANGED spc
        \/ \E l \in ScannerPc : spc' = [spc EXCEPT ![s] = l]
    BY DEF Scanner, AcquireLock, ScanDirRecursive, OpenTmp, WriteHeader, WriteEntry, CloseTmp,
       UnlinkCache, RenameTmp, ScannerExit, Exit, ScannerPc, scannerVars
  <1>3. \/ UNCHANGED toWrite
        \/ \E w : toWrite' = [toWrite EXCEPT ![s] = w]
    BY DEF Scanner, AcquireLock, ScanDirRecursive, OpenTmp, WriteHeader, WriteEntry, CloseTmp,
       UnlinkCache, RenameTmp, ScannerExit, Exit, scannerVars
  <1>4. \/ UNCHANGED endAge
        \/ endAge' = [endAge EXCEPT ![s] = 0]
    BY DEF Scanner, AcquireLock, ScanDirRecursive, OpenTmp, WriteHeader, WriteEntry, CloseTmp,
       UnlinkCache, RenameTmp, ScannerExit, Exit, scannerVars
  <1> QED
    BY <1>1, <1>2, <1>3, <1>4 DEF TypeOK

LEMMA WrittenStep == TypeOK /\ LockHeld /\ Written /\ [Next]_vars => Written'
  <1> SUFFICES ASSUME TypeOK, LockHeld, Written, [Next]_vars
               PROVE  Written'
    OBVIOUS
  <1>1. CASE Tick
    <2>1. /\ tmpFile' \in Content
          /\ tmpFile'.header = tmpFile.header
          /\ tmpFile'.entries = tmpFile.entries
          /\ tmpFile'.failed = tmpFile.failed
          /\ tmpFile'.age = Later(tmpFile.age)
      BY <1>1, OlderFile, NoFileAssumption DEF Tick, TypeOK
    <2> QED
      BY <1>1, <2>1 DEF Tick, Written, TypeOK
  <1>2. ASSUME NEW s \in Scanners, Scanner(s)
        PROVE  Written'
    <2>1. ASSUME NEW t \in Scanners \ {s}
          PROVE  Written!(t)'
      <3>1. \/ UNCHANGED <<cacheFile, tmpFile>>
            \/ spc[t] \notin Critical
        BY <1>2, <2>1, OtherScanners, OnlyHolder
      <3>2. spc'[t] = spc[t] /\ toWrite'[t] = toWrite[t] /\ endAge'[t] = endAge[t]
        BY <1>2, <2>1, OtherScanners
      <3> QED
        BY <3>1, <3>2 DEF Written, Critical
    <2>2. Written!(s)'
      <3>0. tmpFile \in Content /\ spc \in [Scanners -> ScannerPc]
            /\ toWrite \in [Scanners -> SUBSET Files] /\ endAge \in [Scanners -> Age]
        BY DEF TypeOK
      <3>1. CASE AcquireLock(s) \/ ScannerExit(s) \/ RenameTmp(s)
        BY <3>0, <3>1 DEF AcquireLock, ScannerExit, RenameTmp, Exit
      <3>2. CASE ScanDirRecursive(s)
        BY <3>0, <3>2 DEF ScanDirRecursive
      <3>3. CASE OpenTmp(s)
        BY <3>0, <3>3 DEF OpenTmp, Written, Blank
      <3>4. CASE WriteHeader(s)
        BY <3>0, <3>4 DEF WriteHeader, Written, scannerVars, Content
      <3>5. CASE WriteEntry(s)
        BY <3>0, <3>5, ScannerAssumption DEF WriteEntry, Written, Content
      <3>6. CASE CloseTmp(s)
        <4>1. /\ tmpFile'.entries = tmpFile.entries /\ tmpFile'.age = tmpFile.age
              /\ tmpFile'.header = tmpFile.header /\ spc'[s] = "unlink" /\ UNCHANGED endAge
              /\ tmpFile'.failed \/ toWrite[s] = {}
          BY <3>0, <3>6 DEF CloseTmp, Content
        <4>2. /\ spc[s] = "write" /\ tmpFile.entries \cup toWrite[s] = Files
              /\ \A f \in tmpFile.entries, g \in toWrite[s] : f < g
              /\ tmpFile.header => tmpFile.age = endAge[s]
          BY <3>6 DEF CloseTmp, Written
        <4>3. Beginning(tmpFile.entries)
          <5> SUFFICES ASSUME NEW f \in tmpFile.entries, NEW g \in Files, g < f,
                              g \in toWrite[s]
                       PROVE  FALSE
            BY <4>2 DEF Beginning
          <5>1. f < g /\ f \in Nat /\ g \in Nat
            BY <3>0, <4>2, ScannerAssumption DEF Content
          <5> QED
            BY <5>1
        <4> QED
          BY <4>1, <4>2, <4>3 DEF Beginning
      <3>7. CASE UnlinkCache(s)
        BY <3>0, <3>7 DEF UnlinkCache, Written
      <3> QED
        BY <1>2, <3>1, <3>2, <3>3, <3>4, <3>5, <3>6, <3>7 DEF Scanner
    <2> QED
      BY <2>1, <2>2 DEF Written
  <1>3. CASE ClientStep
    BY <1>3, ClientFrame DEF Written
  <1>4. CASE UNCHANGED vars
    BY <1>4 DEF vars, files, scannerVars, Written
  <1> QED
    BY <1>1, <1>2, <1>3, <1>4 DEF Next, ClientStep

LEMMA InstalledStep == TypeOK /\ Written /\ Installed /\ [Next]_vars => Installed'
  <1> SUFFICES ASSUME TypeOK, Written, Installed, [Next]_vars
               PROVE  Installed'
    OBVIOUS
  <1>1. CASE Tick
    <2>1. ASSUME NEW c \in Clients, mCache'[c] # NoFile
          PROVE  OfOneWalk(mCache'[c])
      <3>1. /\ mCache[c] # NoFile /\ mCache'[c].entries = mCache[c].entries
            /\ mCache'[c].failed = mCache[c].failed
        BY <1>1, <2>1, OlderCache DEF Tick, TypeOK
      <3> QED
        BY <3>1 DEF Installed, LoadedComplete, OfOneWalk
    <2> QED
      BY <1>1, <2>1, OlderFile DEF Tick, TypeOK, Installed, LoadedComplete
  <1>2. ASSUME NEW s \in Scanners, Scanner(s)
        PROVE  Installed'
    <2>1. \/ UNCHANGED cacheFile
          \/ cacheFile' = NoFile
          \/ spc[s] = "rename" /\ cacheFile' = tmpFile
      BY <1>2 DEF Scanner, AcquireLock, ScanDirRecursive, OpenTmp, WriteHeader, WriteEntry,
         CloseTmp, UnlinkCache, RenameTmp, ScannerExit, files
    <2> QED
      BY <1>2, <2>1, ScannerFrame DEF Installed, LoadedComplete, Written
  <1>3. CASE ClientStep
    <2>1. ASSUME NEW d \in Clients, mCache'[d] # NoFile
          PROVE  OfOneWalk(mCache'[d])
      <3>1. CASE mCache'[d] = mCache[d]
        BY <2>1, <3>1 DEF Installed, LoadedComplete
      <3>2. CASE CanLoad /\ mCache'[d] = Parsed
        <4>1. cacheFile # NoFile /\ cacheFile.entries \in SUBSET Files
          BY <3>2 DEF CanLoad, TypeOK, Content
        <4>2. /\ Parsed.entries = Loaded(cacheFile.entries)
              /\ Parsed.failed = cacheFile.failed
          BY <4>1, ParsedFile
        <4> QED
          BY <3>2, <4>1, <4>2 DEF Installed, OfOneWalk
      <3> QED
        BY <1>3, <2>1, <3>1, <3>2, ClientCache
    <2> QED
      BY <1>3, <2>1, ClientFrame DEF Installed, LoadedComplete
  <1>4. CASE UNCHANGED vars
    BY <1>4 DEF vars, files, clientVars, Installed, LoadedComplete
  <1> QED
    BY <1>1, <1>2, <1>3, <1>4 DEF Next, ClientStep

-----------------------------------------------------------------------------
(***************************************************************************)
(* The order of the scans.                                                 *)
(***************************************************************************)
LEMMA NewestStep == TypeOK /\ LockHeld /\ Written /\ Newest /\ [Next]_vars => Newest'
  <1> SUFFICES ASSUME TypeOK, LockHeld, Written, Newest, [Next]_vars
               PROVE  Newest'
    OBVIOUS
  <1> DEFINE Walked == {"open", "write", "unlink", "rename"}
  <1>0. /\ cacheFile # NoFile => cacheFile.age \in Age
        /\ \A c \in Clients : mCache[c] # NoFile => mCache[c].age \in Age
        /\ endAge \in [Scanners -> Age] /\ spc \in [Scanners -> ScannerPc]
    BY DEF TypeOK, Content, FSCache
  <1>1. CASE Tick
    <2>1. /\ cacheFile' = NoFile <=> cacheFile = NoFile
          /\ cacheFile # NoFile => /\ cacheFile'.header = cacheFile.header
                                  /\ cacheFile'.age = Later(cacheFile.age)
      BY <1>1, OlderFile DEF Tick, TypeOK
    <2>2. ASSUME NEW c \in Clients
          PROVE  /\ mCache'[c] = NoFile <=> mCache[c] = NoFile
                 /\ mCache[c] # NoFile => mCache'[c].age = Later(mCache[c].age)
      BY <1>1, OlderCache DEF Tick, TypeOK
    <2>3. \A s \in Scanners : spc'[s] = spc[s] /\ endAge'[s] = Later(endAge[s])
      BY <1>1 DEF Tick
    <2>4. DiskNewest'
      BY <1>0, <2>1, <2>2, LaterMonotone DEF Newest, DiskNewest
    <2>5. ASSUME NEW s \in Scanners, spc'[s] \in Walked
          PROVE  HoldsNewest(s)'
      BY <1>0, <2>1, <2>2, <2>3, <2>5, LaterMonotone DEF Newest, HoldsNewest
    <2> QED
      BY <2>4, <2>5 DEF Newest
  <1>2. ASSUME NEW s \in Scanners, Scanner(s)
        PROVE  Newest'
    <2>0. UNCHANGED mCache
      BY <1>2, ScannerFrame
    <2>1. CASE UNCHANGED cacheFile \/ cacheFile' = NoFile
      <3>1. DiskNewest'
        BY <2>0, <2>1 DEF Newest, DiskNewest
      <3>2. ASSUME NEW t \in Scanners \ {s}, spc'[t] \in Walked
            PROVE  HoldsNewest(t)'
        BY <1>2, <2>0, <2>1, <3>2, OtherScanners DEF Newest, HoldsNewest
      <3>3. ASSUME spc'[s] \in Walked
            PROVE  HoldsNewest(s)'
        <4>1. \/ endAge'[s] = 0
              \/ endAge'[s] = endAge[s] /\ spc[s] \in Walked
          BY <1>0, <1>2, <3>3 DEF Scanner, AcquireLock, ScanDirRecursive, OpenTmp, WriteHeader,
             WriteEntry, CloseTmp, UnlinkCache, RenameTmp, ScannerExit, Exit, scannerVars
        <4> QED
          BY <1>0, <2>0, <2>1, <4>1 DEF Newest, HoldsNewest, Age
      <3> QED
        BY <3>1, <3>2, <3>3 DEF Newest
    <2>2. CASE RenameTmp(s)
      <3>1. /\ spc[s] = "rename" /\ cacheFile' = tmpFile /\ spc'[s] = "none"
            /\ tmpFile.header => tmpFile.age = endAge[s]
        BY <1>0, <2>2 DEF RenameTmp, Exit, Written
      <3>2. DiskNewest'
        BY <2>0, <3>1 DEF Newest, HoldsNewest, DiskNewest
      <3>3. \A t \in Scanners : spc'[t] \notin Walked
        BY <1>2, <3>1, OtherScanners, OnlyHolder DEF Critical
      <3> QED
        BY <3>2, <3>3 DEF Newest
    <2> QED
      BY <1>2, <2>1, <2>2 DEF Scanner, AcquireLock, ScanDirRecursive, OpenTmp, WriteHeader,
         WriteEntry, CloseTmp, UnlinkCache, ScannerExit, files
  <1>3. CASE ClientStep
    <2>1. /\ UNCHANGED <<cacheFile, endAge>>
          /\ \A s \in Scanners : spc'[s] \in Walked => spc[s] \in Walked
      BY <1>3, ClientFrame
    <2>2. ASSUME NEW d \in Clients
          PROVE  \/ mCache'[d] = mCache[d] \/ mCache'[d] = NoFile
                 \/ /\ cacheFile # NoFile /\ cacheFile.header
                    /\ mCache'[d].age = cacheFile.age
      BY <1>3, ClientCache, ParsedFile DEF CanLoad
    <2>3. DiskNewest'
      BY <1>0, <2>1, <2>2 DEF Newest, DiskNewest, Age
    <2>4. ASSUME NEW s \in Scanners, spc'[s] \in Walked
          PROVE  HoldsNewest(s)'
      BY <1>0, <2>1, <2>2, <2>4 DEF Newest, HoldsNewest, Age
    <2> QED
      BY <2>3, <2>4 DEF Newest
  <1>4. CASE UNCHANGED vars
    BY <1>4 DEF vars, files, scannerVars, clientVars, Newest, DiskNewest, HoldsNewest
  <1> QED
    BY <1>1, <1>2, <1>3, <1>4 DEF Next, ClientStep

-----------------------------------------------------------------------------
(***************************************************************************)
(* What a call answers.                                                    *)
(***************************************************************************)
LEMMA CallsStep == TypeOK /\ Calls /\ [Next]_vars => Calls'
  <1> SUFFICES ASSUME TypeOK, Calls, [Next]_vars
               PROVE  Calls'
    OBVIOUS
  <1>0. /\ cpc \in [Clients -> ClientPc] /\ expired \in [Clients -> BOOLEAN]
        /\ result \in [Clients -> {"none", "cache", "error"}]
        /\ mCache \in [Clients -> FSCache \cup {NoFile}]
    BY DEF TypeOK
  <1>1. CASE Tick
    <2>1. ASSUME NEW c \in Clients
          PROVE  /\ mCache'[c] = NoFile <=> mCache[c] = NoFile
                 /\ mCache[c] # NoFile => /\ mCache'[c].age = Later(mCache[c].age)
                                         /\ mCache[c].age \in Age
      BY <1>0, <1>1, OlderCache DEF Tick, FSCache
    <2> QED
      BY <1>1, <2>1, LaterMonotone DEF Tick, Calls
  <1>2. ASSUME NEW s \in Scanners, Scanner(s)
        PROVE  Calls'
    BY <1>2, ScannerFrame DEF Calls
  <1>3. ASSUME NEW c \in Clients, GetFullFilesystem(c) \/ Client(c)
        PROVE  Calls'
    <2>1. ASSUME NEW d \in Clients \ {c}
          PROVE  Calls!(d)'
      BY <1>0, <1>3, <2>1 DEF Client, GetFullFilesystem, FirstLoad, LaunchMissing, PollMissing,
         CheckAge, LaunchSoft, LaunchHard, PollHard, RecheckHard, LoadCache, Goto, Return, Calls
    <2>2. Calls!(c)'
      <3>1. CASE GetFullFilesystem(c)
        <4>1. CASE mCache[c] = NoFile
          BY <1>0, <3>1, <4>1 DEF GetFullFilesystem, Calls
        <4>2. CASE mCache[c] # NoFile
          <5>1. cpc'[c] = "age" /\ result'[c] = "none" /\ UNCHANGED mCache
            BY <1>0, <3>1, <4>2 DEF GetFullFilesystem
          <5>2. expired'[c] = (mCache[c].age >= HardTimeout)
            BY <1>0, <3>1, <4>2 DEF GetFullFilesystem
          <5> QED
            BY <4>2, <5>1, <5>2
        <4> QED
          BY <4>1, <4>2
      <3>2. CASE FirstLoad(c) \/ PollMissing(c)
        BY <1>0, <3>2, ParsedFile DEF FirstLoad, PollMissing, LoadCache, CanLoad, Goto, Return, Calls
      <3>3. CASE LaunchMissing(c) \/ LaunchSoft(c) \/ LaunchHard(c)
        BY <1>0, <3>3 DEF LaunchMissing, LaunchSoft, LaunchHard, Goto, Return, Calls
      <3>4. CASE CheckAge(c)
        <4>1. mCache[c].age \in Age
          BY <1>0, <3>4 DEF CheckAge, Calls, FSCache
        <4> QED
          BY <1>0, <3>4, <4>1, ScannerAssumption DEF CheckAge, Goto, Return, Calls, Age
      <3>5. CASE PollHard(c)
        BY <1>0, <3>5, ParsedFile DEF PollHard, LoadCache, CanLoad, Return, Calls
      <3>6. CASE RecheckHard(c)
        BY <1>0, <3>6 DEF RecheckHard, Return, Calls
      <3> QED
        BY <1>3, <3>1, <3>2, <3>3, <3>4, <3>5, <3>6 DEF Client
    <2> QED
      BY <2>1, <2>2 DEF Calls
  <1>4. CASE UNCHANGED vars
    BY <1>4 DEF vars, clientVars, Calls
  <1> QED
    BY <1>1, <1>2, <1>3, <1>4 DEF Next

-----------------------------------------------------------------------------
(***************************************************************************)
(* The theorems about the scanner.                                         *)
(***************************************************************************)
IInv == TypeOK /\ LockHeld /\ Written /\ Installed /\ Newest /\ Calls

LEMMA Inductive == Spec => []IInv
  <1>1. Init => IInv
    <2>1. Init => TypeOK
      BY TypeInit
    <2>2. Init => LockHeld /\ Written /\ Installed /\ Newest /\ Calls
      BY ScannerAssumption
         DEF Init, LockHeld, Critical, Written, Installed, LoadedComplete, Newest, DiskNewest,
             Calls
    <2> QED
      BY <2>1, <2>2 DEF IInv
  <1>2. IInv /\ [Next]_vars => IInv'
    BY TypeStep, LockStep, WrittenStep, InstalledStep, NewestStep, CallsStep DEF IInv
  <1> QED
    BY <1>1, <1>2, PTL DEF Spec

\* Every variable of the scanner keeps its type (FilesystemScanner.cpp).
THEOREM TypeCorrect == Spec => []TypeOK
  BY Inductive, PTL DEF IInv

\* A cache LoadCache has taken into m_cache is what it makes of the lines of one
\* whole walk of BackgroundScan, or of the first lines of a walk when a write
\* failed, whatever names the lines read as: no torn or leftover temporary file
\* ever becomes the cache file.
THEOREM LoadedCompleteCorrect == Spec => []LoadedComplete
  <1>1. IInv => LoadedComplete
    BY DEF IInv, Installed
  <1> QED
    BY <1>1, Inductive, PTL

\* The non-blocking flock of BackgroundScan orders the scans: the cache file is
\* never replaced by a scan that ended before one a client already holds.
THEOREM DiskNewestCorrect == Spec => []DiskNewest
  <1>1. IInv => DiskNewest
    BY DEF IInv, Newest
  <1> QED
    BY <1>1, Inductive, PTL

\* GetFullFilesystem never answers with the cache that was beyond the hard
\* timeout when the call began.
THEOREM ServedUnexpiredCorrect == Spec => []ServedUnexpired
  <1>1. IInv => ServedUnexpired
    BY DEF IInv, Calls, ServedUnexpired
  <1> QED
    BY <1>1, Inductive, PTL

-----------------------------------------------------------------------------
(***************************************************************************)
(* The inductive invariant of the package list.                            *)
(***************************************************************************)
HostHeld == Holding(host, now) \subseteq held

\* A whole list is one that its manager had when the list was stamped, or later.
WasHeld(c) ==
    c.whole => \E e \in held : /\ e.manager = c.manager /\ e.packages = c.packages
                               /\ c.time <= e.time

Cached ==
    /\ cache # None => WasHeld(cache)
    /\ ~synced => cache # None

AsksFor(p, m) == m \in Managers /\ request[p].manager \in {"autodetect", m}

OutputHeld(p) ==
    output[p] # None => \E e \in held : /\ e.manager = manager[p] /\ e.packages = output[p]
                                        /\ stamp[p] <= e.time

\* A list that is used is no older than the rule allows; one that is kept in
\* reserve is no older than allowed if the manager does not answer.
CallInv(p) ==
    /\ pc[p] # "done" => verdict[p] = None
    /\ started[p] <= now
    /\ reuse[p] => view[p] # None /\ started[p] <= view[p].time + Stale
    /\ view[p] # None => WasHeld(view[p]) /\ AsksFor(p, view[p].manager)
    /\ pc[p] \in {"idle", "load"} => view[p] = None /\ ~reuse[p]
    /\ pc[p] \notin {"idle", "done"} => request[p] \in Requests
    /\ pc[p] = "detect" => request[p].manager = "autodetect"
    /\ pc[p] \in {"list", "run", "parse"} => AsksFor(p, manager[p])
    /\ pc[p] \in {"run", "parse"} => started[p] <= stamp[p] /\ stamp[p] <= now
    /\ pc[p] \in {"age", "save", "answer"} => view[p] # None
    /\ pc[p] = "age" => manager[p] = view[p].manager
    /\ pc[p] = "save" => started[p] <= view[p].time
    /\ pc[p] = "answer" => started[p] <= view[p].time + (IF failed[p] THEN Stale ELSE Fresh)
    /\ pc[p] = "parse" => OutputHeld(p)

Audits == \A p \in Processes : CallInv(p)

PackageInv == PackageTypeOK /\ HostHeld /\ Cached /\ Audits

\* What a process keeps of its own.
Own(p) ==
    <<pc[p], request[p], view[p], reuse[p], manager[p], stamp[p], output[p], verdict[p],
      started[p], failed[p]>>

-----------------------------------------------------------------------------
\* What was held stays held, and time goes on.
LEMMA CallKept ==
    ASSUME PackageInv, PackageTypeOK', held \subseteq held', now <= now',
           NEW p \in Processes, Own(p)' = Own(p)
    PROVE  CallInv(p)'
  <1>1. CallInv(p) /\ started[p] <= now'
    <2>1. CallInv(p) /\ started[p] <= now
      BY DEF PackageInv, Audits, CallInv
    <2>2. started[p] \in Int /\ now \in Int /\ now' \in Int
      BY DEF PackageInv, PackageTypeOK, Times
    <2> QED
      BY <2>1, <2>2
  <1>2. /\ pc'[p] = pc[p] /\ request'[p] = request[p] /\ view'[p] = view[p]
        /\ reuse'[p] = reuse[p] /\ manager'[p] = manager[p] /\ stamp'[p] = stamp[p]
        /\ output'[p] = output[p] /\ verdict'[p] = verdict[p]
        /\ started'[p] = started[p] /\ failed'[p] = failed[p]
    BY DEF Own
  <1>3. view[p] # None => WasHeld(view[p])'
    BY <1>1, <1>2 DEF CallInv, WasHeld
  <1>4. OutputHeld(p) => OutputHeld(p)'
    BY <1>2 DEF OutputHeld
  <1>5. pc[p] \in {"run", "parse"} => stamp[p] <= now'
    <2>1. stamp[p] \in Int /\ now \in Int /\ now' \in Int
      BY DEF PackageInv, PackageTypeOK, Times
    <2> QED
      BY <1>1, <2>1 DEF CallInv
  <1> QED
    BY <1>1, <1>2, <1>3, <1>4, <1>5 DEF CallInv, AsksFor

\* A step of one process that changes nothing of the world.
LEMMA OneCall ==
    ASSUME PackageInv, UNCHANGED world, PackageTypeOK', NEW p \in Processes, CallInv(p)',
           \A q \in Processes \ {p} : Own(q)' = Own(q)
    PROVE  Audits' /\ HostHeld'
  <1>1. held' = held /\ now' = now /\ host' = host /\ now \in Int
    BY DEF world, PackageInv, PackageTypeOK, Times
  <1>2. now <= now'
    BY <1>1
  <1>3. \A q \in Processes \ {p} : CallInv(q)'
    BY <1>1, <1>2, CallKept
  <1>4. HostHeld'
    BY <1>1 DEF PackageInv, HostHeld, Holding
  <1> QED
    BY <1>3, <1>4 DEF Audits

\* The process that ends its call forgets it.
LEMMA EndStep ==
    ASSUME PackageInv, NEW P \in SUBSET Processes, NEW r, End(P, r)
    PROVE  /\ \A p \in P : pc'[p] = "done" /\ view'[p] = None /\ reuse'[p] = FALSE
                             /\ started'[p] = 0
           /\ \A q \in Processes \ P : Own(q)' = Own(q)
           /\ pc' \in [Processes -> {"idle", "load", "detect", "age", "list", "run", "parse", "save",
                             "answer", "done"}]
           /\ request' \in [Processes -> {None} \cup Requests]
           /\ view' \in [Processes -> {None} \cup Cache]
           /\ reuse' \in [Processes -> BOOLEAN]
           /\ manager' \in [Processes -> {None, "autodetect"} \cup Managers]
           /\ stamp' \in [Processes -> Times]
           /\ output' \in [Processes -> {None} \cup Lists]
           /\ started' \in [Processes -> Times]
           /\ failed' \in [Processes -> BOOLEAN]
  <1>1. 0 \in Times
    BY PackageInstalledAssumption DEF Times
  <1>2. PackageTypeOK
    BY DEF PackageInv
  <1>3. \A q \in Processes \ P : Own(q)' = Own(q)
    BY <1>2 DEF End, PackageTypeOK, Own
  <1>4. \A p \in P : pc'[p] = "done" /\ view'[p] = None /\ reuse'[p] = FALSE /\ started'[p] = 0
    BY DEF End
  <1>5. /\ pc' \in [Processes -> {"idle", "load", "detect", "age", "list", "run", "parse", "save",
                             "answer", "done"}]
        /\ request' \in [Processes -> {None} \cup Requests]
        /\ view' \in [Processes -> {None} \cup Cache]
        /\ reuse' \in [Processes -> BOOLEAN]
    BY <1>2 DEF End, PackageTypeOK
  <1>6. /\ manager' \in [Processes -> {None, "autodetect"} \cup Managers]
        /\ stamp' \in [Processes -> Times]
        /\ output' \in [Processes -> {None} \cup Lists]
        /\ started' \in [Processes -> Times]
        /\ failed' \in [Processes -> BOOLEAN]
    BY <1>1, <1>2 DEF End, PackageTypeOK
  <1> QED
    BY <1>3, <1>4, <1>5, <1>6

\* Ending a call, when the world and the file are as they were.
LEMMA ReturnStep ==
    ASSUME PackageInv, NEW p \in Processes, NEW r, End({p}, r), UNCHANGED <<world, file>>
    PROVE  PackageInv'
  <1>1. PackageTypeOK'
    BY EndStep DEF PackageInv, PackageTypeOK, world, file
  <1>2. CallInv(p)'
    <2>1. pc'[p] = "done" /\ view'[p] = None /\ reuse'[p] = FALSE /\ started'[p] = 0
      BY EndStep
    <2>2. (started[p] <= now)'
      BY <1>1, <2>1 DEF PackageTypeOK, Times
    <2> QED
      BY <2>1, <2>2 DEF CallInv
  <1>3. Audits' /\ HostHeld'
    BY <1>1, <1>2, EndStep, OneCall
  <1>4. Cached'
    BY DEF PackageInv, Cached, WasHeld, world, file
  <1> QED
    BY <1>1, <1>3, <1>4 DEF PackageInv

LEMMA CachedKept == ASSUME PackageInv, UNCHANGED <<world, file>> PROVE Cached'
  BY DEF PackageInv, Cached, WasHeld, world, file

LEMMA CallStep == ASSUME PackageInv, NEW p \in Processes, Call(p) PROVE PackageInv'
  <1>1. /\ pc[p] = "idle" /\ pc' = [pc EXCEPT ![p] = "load"] /\ UNCHANGED <<world, file>>
        /\ \E r \in Requests : request' = [request EXCEPT ![p] = r]
        /\ started' = [started EXCEPT ![p] = now]
        /\ UNCHANGED <<view, reuse, manager, listing, verdict, failed>>
    BY DEF Call, Proceed
  <1>2. PackageTypeOK /\ CallInv(p)
    BY DEF PackageInv, Audits
  <1>3. PackageTypeOK'
    BY <1>1, <1>2 DEF PackageTypeOK, world, file, listing
  <1>4. \A q \in Processes \ {p} : Own(q)' = Own(q)
    BY <1>1, <1>2 DEF PackageTypeOK, Own, listing
  <1>5. /\ pc'[p] = "load" /\ request'[p] \in Requests /\ view'[p] = None /\ reuse'[p] = FALSE
        /\ verdict'[p] = None /\ started'[p] = now
    BY <1>1, <1>2 DEF PackageTypeOK, CallInv
  <1>6. started'[p] <= now'
    BY <1>1, <1>2, <1>5 DEF PackageTypeOK, Times, world
  <1>7. CallInv(p)'
    BY <1>5, <1>6 DEF CallInv
  <1> QED
    BY <1>1, <1>3, <1>4, <1>7, OneCall, CachedKept DEF PackageInv

LEMMA LoadStep == ASSUME PackageInv, NEW p \in Processes, LoadPackageCache(p) PROVE PackageInv'
  <1>1. /\ pc[p] = "load" /\ UNCHANGED <<world, file>>
        /\ UNCHANGED <<request, reuse, listing, verdict, started, failed>>
    BY DEF LoadPackageCache
  <1>2. PackageTypeOK /\ CallInv(p) /\ Cached
    BY DEF PackageInv, Audits
  <1>3. PICK c \in {None, cache} :
          \/ /\ Usable(c, request[p])
             /\ view' = [view EXCEPT ![p] = c] /\ manager' = [manager EXCEPT ![p] = c.manager]
             /\ pc' = [pc EXCEPT ![p] = "age"]
          \/ /\ ~Usable(c, request[p])
             /\ view' = view /\ manager' = [manager EXCEPT ![p] = request[p].manager]
             /\ pc' = [pc EXCEPT ![p] = IF c = None /\ request[p].manager = "autodetect"
                                       THEN "detect" ELSE "list"]
    BY DEF LoadPackageCache, Proceed
  <1>4. /\ request[p] \in Requests /\ request[p].manager \in Managers \cup {"autodetect"}
        /\ view[p] = None /\ reuse[p] = FALSE /\ verdict[p] = None /\ started[p] <= now
    BY <1>1, <1>2, PackageInstalledAssumption DEF CallInv, PackageTypeOK
  <1>5. c # None => c \in Cache /\ WasHeld(c) /\ c.manager \in Managers
    BY <1>2, <1>3 DEF Cached, PackageTypeOK, Cache
  <1>6. PackageTypeOK'
    BY <1>1, <1>2, <1>3, <1>4, <1>5 DEF PackageTypeOK, world, file, listing, Usable
  <1>7. \A q \in Processes \ {p} : Own(q)' = Own(q)
    BY <1>1, <1>2, <1>3 DEF PackageTypeOK, Own, listing
  <1>8. CASE Usable(c, request[p])
    <2>1. /\ pc'[p] = "age" /\ view'[p] = c /\ c # None /\ manager'[p] = c.manager
          /\ WasHeld(c)' /\ AsksFor(p, c.manager)'
      BY <1>1, <1>2, <1>3, <1>4, <1>5, <1>8 DEF Usable, PackageTypeOK, WasHeld, AsksFor, world
    <2>2. CallInv(p)'
      BY <1>1, <1>4, <2>1 DEF CallInv, world
    <2> QED
      BY <1>1, <1>6, <1>7, <2>2, OneCall, CachedKept DEF PackageInv
  <1>9. CASE ~Usable(c, request[p])
    <2>1. view'[p] = None /\ pc'[p] \in {"detect", "list"}
      BY <1>2, <1>3, <1>4, <1>9 DEF PackageTypeOK
    <2>2. /\ pc'[p] = "list" => AsksFor(p, manager[p])'
          /\ pc'[p] = "detect" => request'[p].manager = "autodetect"
      BY <1>1, <1>2, <1>3, <1>4, <1>9 DEF PackageTypeOK, Usable, AsksFor
    <2>3. CallInv(p)'
      BY <1>1, <1>4, <2>1, <2>2 DEF CallInv, world
    <2> QED
      BY <1>1, <1>6, <1>7, <2>3, OneCall, CachedKept DEF PackageInv
  <1> QED
    BY <1>8, <1>9

LEMMA DetectStep ==
    ASSUME PackageInv, NEW p \in Processes, DetectPackageManager(p) PROVE PackageInv'
  <1>1. CASE End({p}, "NotApplicable")
    BY <1>1, ReturnStep DEF DetectPackageManager
  <1>2. ASSUME NEW m \in Managers, host[m] # None, manager' = [manager EXCEPT ![p] = m],
               pc' = [pc EXCEPT ![p] = "list"],
               UNCHANGED <<request, view, reuse, listing, verdict, started, failed>>
        PROVE  PackageInv'
    <2>1. pc[p] = "detect" /\ UNCHANGED <<world, file>>
      BY DEF DetectPackageManager
    <2>2. PackageTypeOK /\ CallInv(p)
      BY DEF PackageInv, Audits
    <2>3. PackageTypeOK'
      BY <1>2, <2>1, <2>2 DEF PackageTypeOK, world, file, listing
    <2>4. \A q \in Processes \ {p} : Own(q)' = Own(q)
      BY <1>2, <2>2 DEF PackageTypeOK, Own, listing
    <2>5. pc'[p] = "list" /\ AsksFor(p, manager[p])'
      BY <1>2, <2>1, <2>2 DEF PackageTypeOK, CallInv, AsksFor
    <2>6. view'[p] # None => WasHeld(view[p])' /\ AsksFor(p, view[p].manager)'
      BY <1>2, <2>1, <2>2 DEF CallInv, WasHeld, AsksFor, world
    <2>7. CallInv(p)'
      BY <1>2, <2>1, <2>2, <2>5, <2>6 DEF CallInv, world
    <2> QED
      BY <2>1, <2>3, <2>4, <2>7, OneCall, CachedKept DEF PackageInv
  <1> QED
    BY <1>1, <1>2 DEF DetectPackageManager, Proceed

LEMMA AgeStep == ASSUME PackageInv, NEW p \in Processes, CheckListAge(p) PROVE PackageInv'
  <1>1. /\ pc[p] = "age" /\ UNCHANGED <<world, file>>
        /\ UNCHANGED <<request, manager, listing, verdict, started, failed>>
    BY DEF CheckListAge
  <1>2. PackageTypeOK /\ CallInv(p)
    BY DEF PackageInv, Audits
  <1>3. PICK age : age = now - view[p].time
    OBVIOUS
  <1>4. /\ view' = [view EXCEPT ![p] = IF TooOld(age) THEN None ELSE @]
        /\ reuse' = [reuse EXCEPT ![p] = Outdated(age) /\ ~TooOld(age)]
        /\ pc' = [pc EXCEPT ![p] = IF Outdated(age) \/ TooOld(age) THEN "list" ELSE "answer"]
    BY <1>3 DEF CheckListAge, Proceed
  <1>5. PackageTypeOK'
    <2>1. view' \in [Processes -> {None} \cup Cache]
      BY <1>2, <1>4 DEF PackageTypeOK
    <2>2. reuse' \in [Processes -> BOOLEAN]
      BY <1>2, <1>4 DEF PackageTypeOK
    <2> QED
      BY <1>1, <1>2, <1>4, <2>1, <2>2 DEF PackageTypeOK, world, file, listing
  <1>6. \A q \in Processes \ {p} : Own(q)' = Own(q)
    BY <1>1, <1>2, <1>4 DEF PackageTypeOK, Own, listing
  <1>7. /\ view[p] \in Cache /\ view[p].manager \in Managers
        /\ view[p].time \in Int /\ started[p] \in Int /\ now \in Int
        /\ Fresh \in Int /\ Stale \in Int /\ Fresh <= Stale /\ started[p] <= now
    BY <1>1, <1>2, PackageInstalledAssumption DEF PackageTypeOK, CallInv, Cache, Times
  <1>8. /\ ~TooOld(age) => started[p] <= view[p].time + Stale
        /\ ~Outdated(age) => started[p] <= view[p].time + Fresh
    BY <1>3, <1>7 DEF TooOld, Outdated
  <1>9. /\ pc'[p] = IF Outdated(age) \/ TooOld(age) THEN "list" ELSE "answer"
        /\ view'[p] = IF TooOld(age) THEN None ELSE view[p]
        /\ reuse'[p] = (Outdated(age) /\ ~TooOld(age))
        /\ verdict'[p] = None /\ started'[p] = started[p] /\ started'[p] <= now'
        /\ request'[p] = request[p] /\ request[p] \in Requests
    BY <1>1, <1>2, <1>4, <1>7 DEF PackageTypeOK, CallInv, world
  <1>10. manager[p] = view[p].manager
    BY <1>1, <1>2 DEF CallInv
  <1>11. CallInv(p)'
    <2>1. view'[p] # None => WasHeld(view[p])' /\ AsksFor(p, view[p].manager)'
      BY <1>1, <1>2, <1>9 DEF CallInv, WasHeld, AsksFor, world
    <2>2. AsksFor(p, manager[p])'
      BY <1>1, <1>2, <1>7, <1>9, <1>10 DEF CallInv, AsksFor
    <2>3. ASSUME pc'[p] = "answer"
          PROVE  /\ view'[p] # None
                 /\ started'[p] <= view'[p].time + (IF failed'[p] THEN Stale ELSE Fresh)
      <3>1. ~Outdated(age) /\ ~TooOld(age)
        BY <1>9, <2>3
      <3>2. view'[p] = view[p] /\ view[p] # None /\ started'[p] = started[p]
        BY <1>1, <1>2, <1>9, <3>1 DEF CallInv
      <3>3. started[p] <= view[p].time + Fresh /\ started[p] <= view[p].time + Stale
        BY <1>8, <3>1
      <3> QED
        BY <3>2, <3>3
    <2>4. reuse'[p] => view'[p] # None /\ started'[p] <= view'[p].time + Stale
      BY <1>1, <1>2, <1>8, <1>9 DEF CallInv
    <2> QED
      BY <1>9, <2>1, <2>2, <2>3, <2>4 DEF CallInv
  <1> QED
    BY <1>1, <1>5, <1>6, <1>11, OneCall, CachedKept DEF PackageInv

LEMMA TakeTimeStep == ASSUME PackageInv, NEW p \in Processes, TakeTime(p) PROVE PackageInv'
  <1>1. /\ pc[p] = "list" /\ stamp' = [stamp EXCEPT ![p] = now] /\ pc' = [pc EXCEPT ![p] = "run"]
        /\ UNCHANGED <<world, file, request, view, reuse, manager, output, verdict, started,
                       failed>>
    BY DEF TakeTime, Proceed
  <1>2. PackageTypeOK /\ CallInv(p)
    BY DEF PackageInv, Audits
  <1>3. PackageTypeOK'
    BY <1>1, <1>2 DEF PackageTypeOK, world, file
  <1>4. \A q \in Processes \ {p} : Own(q)' = Own(q)
    BY <1>1, <1>2 DEF PackageTypeOK, Own
  <1>5. pc'[p] = "run" /\ stamp'[p] = now /\ now' = now /\ held' = held /\ now <= now
    BY <1>1, <1>2 DEF PackageTypeOK, Times, world
  <1>6. CallInv(p)'
    BY <1>1, <1>2, <1>5 DEF CallInv, WasHeld, AsksFor
  <1> QED
    BY <1>1, <1>3, <1>4, <1>6, OneCall, CachedKept DEF PackageInv

LEMMA RunStep == ASSUME PackageInv, NEW p \in Processes, RunManager(p) PROVE PackageInv'
  <1>1. /\ pc[p] = "run" /\ output' = [output EXCEPT ![p] = host[manager[p]]]
        /\ pc' = [pc EXCEPT ![p] = "parse"]
        /\ UNCHANGED <<world, file, request, view, reuse, manager, stamp, verdict, started, failed>>
    BY DEF RunManager, Proceed
  <1>2. PackageTypeOK /\ CallInv(p) /\ HostHeld
    BY DEF PackageInv, Audits
  <1>3. manager[p] \in Managers
    BY <1>1, <1>2 DEF CallInv, AsksFor
  <1>4. PackageTypeOK'
    BY <1>1, <1>2, <1>3 DEF PackageTypeOK, world, file
  <1>5. \A q \in Processes \ {p} : Own(q)' = Own(q)
    BY <1>1, <1>2 DEF PackageTypeOK, Own
  <1>6. pc'[p] = "parse" /\ output'[p] = host[manager[p]] /\ now' = now /\ held' = held
    BY <1>1, <1>2 DEF PackageTypeOK, world
  <1>7. OutputHeld(p)'
    <2> SUFFICES ASSUME host[manager[p]] # None
                 PROVE  \E e \in held : /\ e.manager = manager[p] /\ e.packages = output'[p]
                                        /\ stamp[p] <= e.time
      BY <1>1, <1>6 DEF OutputHeld
    <2> DEFINE e == [manager |-> manager[p], packages |-> host[manager[p]], time |-> now]
    <2>1. e \in held
      BY <1>2, <1>3 DEF HostHeld, Holding
    <2>2. stamp[p] <= e.time
      BY <1>1, <1>2 DEF CallInv
    <2> QED
      BY <1>6, <2>1, <2>2
  <1>8. CallInv(p)'
    BY <1>1, <1>2, <1>6, <1>7 DEF CallInv, WasHeld, AsksFor
  <1> QED
    BY <1>1, <1>4, <1>5, <1>8, OneCall, CachedKept DEF PackageInv

LEMMA ParseStep == ASSUME PackageInv, NEW p \in Processes, GetInstalledPackages(p) PROVE PackageInv'
  <1>1. pc[p] = "parse" /\ UNCHANGED <<world, file>>
    BY DEF GetInstalledPackages
  <1>2. PackageTypeOK /\ CallInv(p)
    BY DEF PackageInv, Audits
  <1>3. CASE End({p}, "Error")
    BY <1>1, <1>3, ReturnStep
  <1>4. CASE /\ output[p] # None /\ view' = [view EXCEPT ![p] = Listed(p)]
             /\ pc' = [pc EXCEPT ![p] = "save"]
             /\ UNCHANGED <<request, reuse, manager, listing, verdict, started, failed>>
    <2>1. /\ manager[p] \in Managers /\ output[p] \in Lists /\ stamp[p] \in Times
          /\ started[p] <= stamp[p]
      BY <1>1, <1>2, <1>4 DEF CallInv, AsksFor, PackageTypeOK
    <2>2. Listed(p) \in Cache /\ Listed(p) # None
      <3>1. Listed(p) \in Cache
        BY <2>1 DEF Listed, Cache
      <3> QED
        BY <3>1, PackageInstalledAssumption
    <2>3. PackageTypeOK'
      BY <1>1, <1>2, <1>4, <2>2 DEF PackageTypeOK, world, file, listing
    <2>4. \A q \in Processes \ {p} : Own(q)' = Own(q)
      BY <1>1, <1>2, <1>4 DEF PackageTypeOK, Own, listing
    <2>5. pc'[p] = "save" /\ view'[p] = Listed(p) /\ now' = now /\ held' = held
      BY <1>1, <1>2, <1>4 DEF PackageTypeOK, world
    <2>6. WasHeld(view[p])'
      BY <1>1, <1>2, <1>4, <2>5 DEF CallInv, OutputHeld, WasHeld, Listed
    <2>7. started[p] <= stamp[p] + Stale
      <3>1. started[p] \in Int /\ stamp[p] \in Int /\ Stale \in Nat
        BY <1>2, PackageInstalledAssumption DEF Times, PackageTypeOK
      <3> QED
        BY <2>1, <3>1
    <2>8. CallInv(p)'
      BY <1>1, <1>2, <1>4, <2>1, <2>2, <2>5, <2>6, <2>7 DEF CallInv, AsksFor, Listed
    <2> QED
      BY <1>1, <2>3, <2>4, <2>8, OneCall, CachedKept DEF PackageInv
  <1>5. CASE /\ reuse[p] /\ failed' = [failed EXCEPT ![p] = TRUE]
             /\ pc' = [pc EXCEPT ![p] = "answer"]
             /\ UNCHANGED <<request, view, reuse, manager, listing, verdict, started>>
    <2>1. PackageTypeOK'
      BY <1>1, <1>2, <1>5 DEF PackageTypeOK, world, file, listing
    <2>2. \A q \in Processes \ {p} : Own(q)' = Own(q)
      BY <1>1, <1>2, <1>5 DEF PackageTypeOK, Own, listing
    <2>3. pc'[p] = "answer" /\ failed'[p] = TRUE /\ now' = now /\ held' = held
      BY <1>1, <1>2, <1>5 DEF PackageTypeOK, world
    <2>4. CallInv(p)'
      BY <1>1, <1>2, <1>5, <2>3 DEF CallInv, AsksFor, WasHeld
    <2> QED
      BY <1>1, <2>1, <2>2, <2>4, OneCall, CachedKept DEF PackageInv
  <1> QED
    BY <1>3, <1>4, <1>5 DEF GetInstalledPackages, Proceed

LEMMA SaveStep == ASSUME PackageInv, NEW p \in Processes, SavePackageCache(p) PROVE PackageInv'
  <1>1. /\ pc[p] = "save" /\ pc' = [pc EXCEPT ![p] = "answer"]
        /\ UNCHANGED <<world, request, view, reuse, manager, listing, verdict, started, failed>>
        /\ (cache' = view[p] /\ synced' = FALSE) \/ UNCHANGED file
    BY DEF SavePackageCache, Proceed
  <1>2. PackageTypeOK /\ CallInv(p) /\ Cached
    BY DEF PackageInv, Audits
  <1>3. view[p] # None /\ view[p] \in Cache /\ WasHeld(view[p]) /\ started[p] <= view[p].time
    BY <1>1, <1>2 DEF CallInv, PackageTypeOK
  <1>4. PackageTypeOK'
    BY <1>1, <1>2, <1>3 DEF PackageTypeOK, world, file, listing
  <1>5. \A q \in Processes \ {p} : Own(q)' = Own(q)
    BY <1>1, <1>2 DEF PackageTypeOK, Own, listing
  <1>6. pc'[p] = "answer" /\ now' = now /\ held' = held
    BY <1>1, <1>2 DEF PackageTypeOK, world
  <1>7. Cached'
    BY <1>1, <1>2, <1>3, <1>6 DEF Cached, WasHeld, file
  <1>8. started[p] <= view[p].time + (IF failed[p] THEN Stale ELSE Fresh)
    <2>1. started[p] \in Int /\ view[p].time \in Int /\ Fresh \in Nat /\ Stale \in Nat
      BY <1>2, <1>3, PackageInstalledAssumption DEF PackageTypeOK, Times, Cache
    <2> QED
      BY <1>3, <2>1
  <1>9. CallInv(p)'
    BY <1>1, <1>2, <1>6, <1>8 DEF CallInv, AsksFor, WasHeld
  <1> QED
    BY <1>1, <1>4, <1>5, <1>7, <1>9, OneCall DEF PackageInv

\* A power failure ends every call; what it leaves of the list is marked as cut.
LEMMA PowerStep == ASSUME PackageInv, PowerFails PROVE PackageInv'
  <1>1. /\ failures < MaxPowerFailures /\ failures' = failures + 1
        /\ End(Running, None) /\ synced' = TRUE
        /\ UNCHANGED <<now, host, held, changes>>
    BY DEF PowerFails
  <1>2. PackageTypeOK /\ Cached /\ Running \in SUBSET Processes
    BY DEF PackageInv, Running
  <1>3. cache' \in {None} \cup Cache /\ (cache' # None => WasHeld(cache)')
    <2>1. CASE cache' = cache
      BY <1>1, <1>2, <2>1 DEF PackageTypeOK, Cached, WasHeld
    <2>2. CASE cache' = None
      BY <2>2
    <2>3. ASSUME ~synced, NEW l \in Lists, cache' = [cache EXCEPT !.packages = l, !.whole = FALSE]
          PROVE  cache' \in Cache /\ WasHeld(cache)'
      <3>1. cache \in Cache
        BY <1>2, <2>3 DEF PackageTypeOK, Cached
      <3> QED
        BY <2>3, <3>1 DEF Cache, WasHeld
    <2> QED
      BY <2>1, <2>2, <2>3 DEF PowerFails
  <1>4. PackageTypeOK'
    BY <1>1, <1>2, <1>3, EndStep DEF PackageTypeOK
  <1>5. ASSUME NEW q \in Processes
        PROVE  CallInv(q)'
    <2>1. CASE q \in Running
      <3>1. pc'[q] = "done" /\ view'[q] = None /\ reuse'[q] = FALSE /\ started'[q] = 0
        BY <1>1, <1>2, <2>1, EndStep
      <3>2. (started[q] <= now)'
        BY <1>4, <3>1 DEF PackageTypeOK, Times
      <3> QED
        BY <3>1, <3>2 DEF CallInv
    <2>2. CASE q \notin Running
      <3>1. Own(q)' = Own(q)
        BY <1>1, <1>2, <2>2, EndStep
      <3>2. now <= now'
        BY <1>1, <1>2 DEF PackageTypeOK, Times
      <3> QED
        BY <1>1, <1>4, <3>1, <3>2, CallKept
    <2> QED
      BY <2>1, <2>2
  <1>6. HostHeld' /\ Cached'
    BY <1>1, <1>3 DEF PackageInv, HostHeld, Holding, Cached
  <1> QED
    BY <1>4, <1>5, <1>6 DEF PackageInv, Audits

\* What the world does leaves every call as it is, and only adds to what was held.
LEMMA WorldStep ==
    ASSUME PackageInv, PackageTypeOK', HostHeld', held \subseteq held', now <= now', cache' = cache,
           ~synced' => ~synced,
           UNCHANGED <<pc, request, view, reuse, manager, listing, verdict, started, failed>>
    PROVE  PackageInv'
  <1>1. \A q \in Processes : Own(q)' = Own(q)
    BY DEF Own, listing
  <1>2. Audits'
    BY <1>1, CallKept DEF Audits
  <1>3. Cached'
    BY DEF PackageInv, Cached, WasHeld
  <1> QED
    BY <1>2, <1>3 DEF PackageInv

LEMMA HoldingType ==
    ASSUME NEW h \in [Managers -> {None} \cup Lists], NEW t \in Times
    PROVE  Holding(h, t) \subseteq [manager : Managers, packages : Lists, time : Times]
  BY DEF Holding

LEMMA FlushStep == ASSUME PackageInv, Flush PROVE PackageInv'
  <1>1. PackageTypeOK' /\ HostHeld'
    BY DEF Flush, PackageInv, PackageTypeOK, HostHeld, Holding, world, listing
  <1>2. now \in Int
    BY DEF PackageInv, PackageTypeOK, Times
  <1> QED
    BY <1>1, <1>2, WorldStep DEF Flush, world

LEMMA ChangeStep == ASSUME PackageInv, Change PROVE PackageInv'
  <1>1. PICK m \in Managers : \E l \in {None} \cup Installable :
          /\ host' = [host EXCEPT ![m] = l]
          /\ held' = held \cup Holding([host EXCEPT ![m] = l], now)
    BY DEF Change
  <1>2. /\ UNCHANGED <<now, failures, file, pc, request, view, reuse, manager, listing, verdict,
                       started, failed>>
    BY DEF Change
  <1>3. PackageTypeOK /\ now \in Int /\ now \in Times
    BY DEF PackageInv, PackageTypeOK, Times
  <1>4. host' \in [Managers -> {None} \cup Lists] /\ held' = held \cup Holding(host', now)
    BY <1>1, <1>3, PackageInstalledAssumption DEF PackageTypeOK
  <1>5. PackageTypeOK' /\ HostHeld'
    BY <1>2, <1>3, <1>4, HoldingType DEF PackageTypeOK, HostHeld, file, listing
  <1> QED
    BY <1>2, <1>3, <1>4, <1>5, WorldStep DEF file

LEMMA AdvanceStep == ASSUME PackageInv, Advance PROVE PackageInv'
  <1>1. /\ now < LastTime /\ now' = now + 1 /\ held' = held \cup Holding(host, now + 1)
        /\ UNCHANGED <<host, changes, failures, file, pc, request, view, reuse, manager, listing,
                       verdict, started, failed>>
    BY DEF Advance
  <1>2. PackageTypeOK /\ now \in Int /\ now' \in Times
    BY <1>1, PackageInstalledAssumption DEF PackageInv, PackageTypeOK, Times
  <1>3. PackageTypeOK' /\ HostHeld'
    BY <1>1, <1>2, HoldingType DEF PackageTypeOK, HostHeld, file, listing
  <1> QED
    BY <1>1, <1>2, <1>3, WorldStep DEF file

-----------------------------------------------------------------------------
LEMMA PackageInitInv == PackageInit => PackageInv
  <1> SUFFICES ASSUME PackageInit
               PROVE  PackageInv
    OBVIOUS
  <1>1. 0 \in Times /\ host \in [Managers -> {None} \cup Lists]
    BY PackageInstalledAssumption DEF PackageInit, Times
  <1>2. PackageTypeOK /\ HostHeld
    BY <1>1, HoldingType DEF PackageInit, PackageTypeOK, HostHeld
  <1>3. Cached /\ Audits
    BY DEF PackageInit, Cached, Audits, CallInv
  <1> QED
    BY <1>2, <1>3 DEF PackageInv

LEMMA PackageStep == PackageInv /\ [PackageNext]_packageVars => PackageInv'
  <1> SUFFICES ASSUME PackageInv, [PackageNext]_packageVars
               PROVE  PackageInv'
    OBVIOUS
  <1>1. ASSUME NEW p \in Processes, Step(p)
        PROVE  PackageInv'
    <2>1. CASE Answer(p) \/ Killed(p)
      BY <2>1, ReturnStep DEF Answer, Killed
    <2> QED
      BY <1>1, <2>1, CallStep, LoadStep, DetectStep, AgeStep, TakeTimeStep, RunStep, ParseStep,
         SaveStep
      DEF Step
  <1>2. CASE UNCHANGED packageVars
    <2>1. PackageTypeOK' /\ HostHeld' /\ now \in Int
      BY <1>2 DEF packageVars, PackageInv, PackageTypeOK, HostHeld, Holding, world, file, listing,
         Times
    <2> QED
      BY <1>2, <2>1, WorldStep DEF packageVars, world, file
  <1> QED
    BY <1>1, <1>2, PowerStep, FlushStep, ChangeStep, AdvanceStep DEF PackageNext

(***************************************************************************)
(* The theorems about the package list.                                    *)
(***************************************************************************)
LEMMA PackageInvariance == PackageSpec => []PackageInv
  BY PackageInitInv, PackageStep, PTL DEF PackageSpec

\* Every variable of the audits keeps its type, whatever fails and whoever is
\* killed (PackageInstalled.cpp).
THEOREM PackageTypeCorrect == PackageSpec => []PackageTypeOK
  BY PackageInvariance, PTL DEF PackageInv

\* The only step from "answer" to a verdict is the answer of a call, and it is by
\* a list of that age.
LEMMA AnswerIsRecent ==
    ASSUME PackageInv, [PackageNext]_packageVars, NEW p \in Processes,
           pc[p] = "answer", verdict'[p] # None, view[p].whole
    PROVE  RecentVerdict(p, verdict'[p])
  <1>1. PackageTypeOK /\ CallInv(p)
    BY DEF PackageInv, Audits
  <1>2. verdict[p] = None /\ view[p] \in Cache /\ AsksFor(p, view[p].manager) /\ WasHeld(view[p])
        /\ started[p] <= view[p].time + (IF failed[p] THEN Stale ELSE Fresh)
    BY <1>1 DEF CallInv, PackageTypeOK
  <1>3. verdict'[p] = Verdict(view[p].packages, request[p])
    <2>1. verdict' # verdict
      BY <1>2
    <2>2. ASSUME NEW q \in Processes, NEW r, End({q}, r)
          PROVE  q = p /\ verdict'[p] = r
      BY <1>2, <2>2 DEF End
    <2>3. ASSUME NEW q \in Processes, Step(q)
          PROVE  Answer(q) \/ Killed(q)
                 \/ \E r : End({q}, r) /\ pc[q] \in {"detect", "parse"}
      BY <2>1, <2>3 DEF Step, Call, LoadPackageCache, DetectPackageManager, CheckListAge, TakeTime,
         RunManager, GetInstalledPackages, SavePackageCache
    <2>4. ~PowerFails
      BY DEF PowerFails, End, Running
    <2>5. PICK q \in Processes : Step(q)
      BY <2>1, <2>4 DEF PackageNext, packageVars, Flush, Change, Advance
    <2>6. Answer(q)
      BY <2>2, <2>3, <2>5 DEF Killed
    <2> QED
      BY <2>2, <2>6 DEF Answer
  <1>4. PICK e \in held : /\ e.manager = view[p].manager /\ e.packages = view[p].packages
                          /\ view[p].time <= e.time
    BY <1>2 DEF WasHeld
  <1>5. started[p] <= e.time + (IF failed[p] THEN Stale ELSE Fresh)
    <2>1. /\ started[p] \in Int /\ view[p].time \in Int /\ e.time \in Int
          /\ Fresh \in Int /\ Stale \in Int
      BY <1>1, <1>2, PackageInstalledAssumption DEF PackageTypeOK, Times, Cache
    <2> QED
      BY <1>2, <1>4, <2>1
  <1> QED
    BY <1>2, <1>3, <1>4, <1>5 DEF RecentVerdict, AsksFor

\* A verdict is about packages that were installed no longer before the call than
\* the code allows, for any number of processes and packages, whoever saves lists,
\* is killed or loses power at the same time (AuditPackageInstalled).
THEOREM VerdictIsRecentCorrect == PackageSpec => VerdictIsRecent
  <1>1. PackageInv /\ [PackageNext]_packageVars =>
          [\A p \in Processes : pc[p] = "answer" /\ verdict'[p] # None /\ view[p].whole
                                => RecentVerdict(p, verdict'[p])]_packageVars
    BY AnswerIsRecent
  <1> QED
    BY <1>1, PackageInvariance, PTL DEF PackageSpec, VerdictIsRecent

=============================================================================
