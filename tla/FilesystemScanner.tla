------------------------- MODULE FilesystemScanner -------------------------
(***************************************************************************)
(* The cached view of the filesystem that the procedures consult           *)
(* (lib/FilesystemScanner.cpp).  Every process that uses the engine        *)
(* (a client) keeps a FilesystemScanner with a private copy m_cache of a   *)
(* cache file shared by all of them.  BackgroundScan forks a detached      *)
(* scanner process, which takes a non-blocking file lock, walks the        *)
(* filesystem, writes cachePath.tmp and installs it as cachePath.          *)
(*                                                                         *)
(* Only differences of time() are ever used by the code, so a time stamp   *)
(* is kept as the seconds that passed since, cut off at the hard timeout:  *)
(* two scans at least that old are treated alike everywhere.               *)
(***************************************************************************)
EXTENDS Naturals

CONSTANTS
    Clients,        \* processes that own a FilesystemScanner object
    Scanners,       \* slots for detached scanner processes alive at once
    Files,          \* the paths ScanDirRecursive records, by rank in std::map order
    ReadsAs,        \* the names LoadCache reads from the cache line of a path
    SoftTimeout, HardTimeout, WaitTimeout,
    NoFile,         \* no file at a path, or no cache object in memory
    NoOne           \* the lock is free

ASSUME ScannerAssumption ==
    /\ Files \subseteq Nat
    /\ ReadsAs \in [Files -> SUBSET Nat]
    /\ SoftTimeout \in Nat \ {0} /\ HardTimeout \in Nat \ {0}
    /\ SoftTimeout <= HardTimeout
    /\ WaitTimeout \in Nat
    /\ NoOne \notin Scanners

VARIABLES
    cacheFile,      \* what cachePath names
    tmpFile,        \* what cachePath.tmp names
    lock,           \* the scanner whose flock on lockPath is held
    spc, toWrite, endAge,               \* scanner processes
    cpc, mCache, waited, result,        \* client processes
    expired         \* history: m_cache was beyond the hard timeout at the call

files == <<cacheFile, tmpFile>>
scannerVars == <<lock, spc, toWrite, endAge>>
clientVars == <<cpc, mCache, waited, result, expired>>
vars == <<files, scannerVars, clientVars>>

-----------------------------------------------------------------------------
Age == 0 .. HardTimeout

(***************************************************************************)
(* A cache file: whether the header line is there, the seconds since       *)
(* scan_end_time, the paths that have a line and, as history, whether a    *)
(* write to it failed.                                                     *)
(***************************************************************************)
Content == [header : BOOLEAN, age : Age, entries : SUBSET Files,
            failed : BOOLEAN]

Names == UNION {ReadsAs[f] : f \in Files}

(***************************************************************************)
(* A cache object in memory: <<name, file>> is the entry of std::map whose *)
(* key is name and whose fields were read from the line of file.           *)
(***************************************************************************)
FSCache == [age : Age, entries : SUBSET (Names \X Files), failed : BOOLEAN]

ASSUME NoFileAssumption == NoFile \notin Content \cup FSCache

ScannerPc == {"none", "start", "scan", "open", "write", "unlink", "rename"}
\* A scanner holds the lock from the moment flock succeeds until it exits.
Critical == {"scan", "open", "write", "unlink", "rename"}

ClientPc == {"idle", "load", "launchMissing", "pollMissing", "age",
             "launchSoft", "launchHard", "pollHard", "recheckHard"}

\* Inside a poll loop: startWait has been taken.
Polling == {"pollMissing", "pollHard", "recheckHard"}

\* A temporary file that is missing or has just been truncated: OpenTmp makes
\* either into the same thing.
Blank == [header |-> FALSE, age |-> HardTimeout, entries |-> {}, failed |-> FALSE]

TypeOK ==
    /\ cacheFile \in Content \cup {NoFile}
    /\ tmpFile \in Content
    /\ lock \in Scanners \cup {NoOne}
    /\ spc \in [Scanners -> ScannerPc]
    /\ toWrite \in [Scanners -> SUBSET Files]
    /\ endAge \in [Scanners -> Age]
    /\ cpc \in [Clients -> ClientPc]
    /\ mCache \in [Clients -> FSCache \cup {NoFile}]
    /\ waited \in [Clients -> 0 .. WaitTimeout]
    /\ result \in [Clients -> {"none", "cache", "error"}]
    /\ expired \in [Clients -> BOOLEAN]

Init ==
    /\ cacheFile = NoFile
    /\ tmpFile = Blank
    /\ lock = NoOne
    /\ spc = [s \in Scanners |-> "none"]
    /\ toWrite = [s \in Scanners |-> {}]
    /\ endAge = [s \in Scanners |-> 0]
    /\ cpc = [c \in Clients |-> "idle"]
    /\ mCache = [c \in Clients |-> NoFile]
    /\ waited = [c \in Clients |-> 0]
    /\ result = [c \in Clients |-> "none"]
    /\ expired = [c \in Clients |-> FALSE]

-----------------------------------------------------------------------------
(***************************************************************************)
(* Time passes.                                                            *)
(***************************************************************************)
Later(a) == IF a < HardTimeout THEN a + 1 ELSE a

Older(f) == IF f = NoFile THEN NoFile ELSE [f EXCEPT !.age = Later(@)]

Tick ==
    /\ cacheFile' = Older(cacheFile)
    /\ tmpFile' = Older(tmpFile)
    /\ mCache' = [c \in Clients |-> Older(mCache[c])]
    /\ endAge' = [s \in Scanners |-> Later(endAge[s])]
    /\ waited' = [c \in Clients |->
                    IF cpc[c] \in Polling /\ waited[c] < WaitTimeout
                    THEN waited[c] + 1 ELSE waited[c]]
    /\ UNCHANGED <<lock, spc, toWrite, cpc, result, expired>>

-----------------------------------------------------------------------------
(***************************************************************************)
(* The detached scanner process of BackgroundScan.                         *)
(***************************************************************************)

\* _exit: the memory of the process is gone, the kernel drops its flock.
Exit(s) ==
    /\ lock' = IF lock = s THEN NoOne ELSE lock
    /\ spc' = [spc EXCEPT ![s] = "none"]
    /\ toWrite' = [toWrite EXCEPT ![s] = {}]
    /\ endAge' = [endAge EXCEPT ![s] = 0]

\* Mutant: a scanner that does not get the lock scans all the same.
AcquireLockIgnored(s) ==
    /\ spc[s] = "start"
    /\ lock' = s
    /\ spc' = [spc EXCEPT ![s] = "scan"]
    /\ UNCHANGED <<files, toWrite, endAge, clientVars>>

\* FileLock::Make: a scanner that finds the lock held exits at once.
AcquireLock(s) ==
    /\ spc[s] = "start"
    /\ \/ /\ lock = NoOne
          /\ lock' = s
          /\ spc' = [spc EXCEPT ![s] = "scan"]
       \/ /\ lock # NoOne
          /\ spc' = [spc EXCEPT ![s] = "none"]
          /\ UNCHANGED lock
    /\ UNCHANGED <<files, toWrite, endAge, clientVars>>

\* Mutant: scan_end_time is not set.
ScanWithoutEnd(s) ==
    /\ spc[s] = "scan"
    /\ toWrite' = [toWrite EXCEPT ![s] = Files]
    /\ endAge' = [endAge EXCEPT ![s] = HardTimeout + 1]
    /\ spc' = [spc EXCEPT ![s] = "open"]
    /\ UNCHANGED <<files, lock, clientVars>>

\* The walk over the filesystem; scan_end_time is taken when it is over.
ScanDirRecursive(s) ==
    /\ spc[s] = "scan"
    /\ toWrite' = [toWrite EXCEPT ![s] = Files]
    /\ endAge' = [endAge EXCEPT ![s] = 0]
    /\ spc' = [spc EXCEPT ![s] = "open"]
    /\ UNCHANGED <<files, lock, clientVars>>

\* std::ofstream(tmpPath, trunc): whatever an earlier scanner left is dropped.
OpenTmp(s) ==
    /\ spc[s] = "open"
    /\ tmpFile' = Blank
    /\ spc' = [spc EXCEPT ![s] = "write"]
    /\ UNCHANGED <<cacheFile, lock, toWrite, endAge, clientVars>>

WriteHeader(s) ==
    /\ spc[s] = "write"
    /\ ~tmpFile.header
    /\ tmpFile' = [tmpFile EXCEPT !.header = TRUE, !.age = endAge[s]]
    /\ UNCHANGED <<cacheFile, scannerVars, clientVars>>

WriteEntry(s) ==
    /\ spc[s] = "write"
    /\ tmpFile.header
    /\ \E f \in toWrite[s] :
          /\ \A g \in toWrite[s] : f <= g
          /\ tmpFile' = [tmpFile EXCEPT !.entries = @ \cup {f}]
          /\ toWrite' = [toWrite EXCEPT ![s] = @ \ {f}]
    /\ UNCHANGED <<cacheFile, lock, spc, endAge, clientVars>>

\* Mutant: _exit before the stream is flushed loses what is still buffered.
CloseTmpUnflushed(s) ==
    /\ spc[s] = "write"
    /\ tmpFile.header
    /\ spc' = [spc EXCEPT ![s] = "unlink"]
    /\ UNCHANGED <<files, lock, toWrite, endAge, clientVars>>

\* ofs.flush(); ofs.close().  The state of the stream is never looked at, so
\* a failed write (a full disk) loses the rest and the scanner goes on.
CloseTmp(s) ==
    /\ spc[s] = "write"
    /\ \/ /\ tmpFile.header
          /\ toWrite[s] = {}
          /\ UNCHANGED tmpFile
       \/ tmpFile' = [tmpFile EXCEPT !.failed = TRUE]
    /\ spc' = [spc EXCEPT ![s] = "unlink"]
    /\ UNCHANGED <<cacheFile, lock, toWrite, endAge, clientVars>>

\* ::unlink(cachePath)
UnlinkCache(s) ==
    /\ spc[s] = "unlink"
    /\ cacheFile' = NoFile
    /\ spc' = [spc EXCEPT ![s] = "rename"]
    /\ UNCHANGED <<tmpFile, lock, toWrite, endAge, clientVars>>

\* ::rename(tmpPath, cachePath); _exit(0).
RenameTmp(s) ==
    /\ spc[s] = "rename"
    /\ cacheFile' = tmpFile
    /\ tmpFile' = Blank
    /\ Exit(s)
    /\ UNCHANGED clientVars

\* The scanner dies: one of its _exit(1) paths (out of memory, root cannot be
\* read, the temporary file cannot be opened), a kill, or a failed rename.
ScannerExit(s) ==
    /\ spc[s] # "none"
    /\ Exit(s)
    /\ UNCHANGED <<files, clientVars>>

Scanner(s) ==
    \/ AcquireLock(s) \/ ScanDirRecursive(s) \/ OpenTmp(s)
    \/ WriteHeader(s) \/ WriteEntry(s) \/ CloseTmp(s) \/ UnlinkCache(s)
    \/ RenameTmp(s) \/ ScannerExit(s)

-----------------------------------------------------------------------------
(***************************************************************************)
(* A client in GetFullFilesystem.                                          *)
(***************************************************************************)

(***************************************************************************)
(* The loop of LoadCache over the lines of the file, which were written in *)
(* the order of the paths.  The fields are read with >>: a path without    *)
(* white space reads as itself; one with a blank is malformed, or, when a  *)
(* number or nothing follows the blank, reads as the name before it with   *)
(* its fields shifted; one with a line feed is several lines.  insert      *)
(* keeps the first entry of a name.                                        *)
(***************************************************************************)
Loaded(lines) ==
    {e \in Names \X lines :
        /\ e[1] \in ReadsAs[e[2]]
        /\ \A g \in lines : g < e[2] => e[1] \notin ReadsAs[g]}

\* The cache LoadCache reads from cachePath.  The open file keeps its inode,
\* and a file that has been installed is never written again, so what is read
\* is one file.
Parsed == [age |-> cacheFile.age, entries |-> Loaded(cacheFile.entries),
           failed |-> cacheFile.failed]

\* LoadCache succeeds: there is a file with a header, younger than the hard
\* timeout, in which at least one line parses.
CanLoad ==
    /\ cacheFile # NoFile
    /\ cacheFile.header
    /\ cacheFile.age < HardTimeout
    /\ Parsed.entries # {}

LoadCache(c) ==
    /\ mCache' = [mCache EXCEPT ![c] = Parsed]
    /\ expired' = [expired EXCEPT ![c] = FALSE]

\* The two forks of BackgroundScan: a detached scanner starts, or a fork
\* fails, which no caller notices.
BackgroundScan ==
    \/ UNCHANGED spc
    \/ \E s \in Scanners :
          /\ spc[s] = "none"
          /\ spc' = [spc EXCEPT ![s] = "start"]

Goto(c, l) ==
    /\ cpc' = [cpc EXCEPT ![c] = l]
    /\ waited' = [waited EXCEPT ![c] = 0]
    /\ UNCHANGED result

Return(c, r) ==
    /\ cpc' = [cpc EXCEPT ![c] = "idle"]
    /\ result' = [result EXCEPT ![c] = r]
    /\ waited' = [waited EXCEPT ![c] = 0]

\* A call: with no cache in memory it tries the file first.
GetFullFilesystem(c) ==
    /\ cpc[c] = "idle"
    /\ \/ /\ mCache[c] = NoFile
          /\ cpc' = [cpc EXCEPT ![c] = "load"]
          /\ expired' = [expired EXCEPT ![c] = FALSE]
       \/ /\ mCache[c] # NoFile
          /\ cpc' = [cpc EXCEPT ![c] = "age"]
          /\ expired' = [expired EXCEPT ![c] = mCache[c].age >= HardTimeout]
    /\ result' = [result EXCEPT ![c] = "none"]
    /\ UNCHANGED <<files, scannerVars, mCache, waited>>

FirstLoad(c) ==
    /\ cpc[c] = "load"
    /\ \/ CanLoad /\ LoadCache(c) /\ Goto(c, "age")
       \/ ~CanLoad /\ Goto(c, "launchMissing") /\ UNCHANGED <<mCache, expired>>
    /\ UNCHANGED <<files, scannerVars>>

\* BackgroundScan, then startWait is taken.
LaunchMissing(c) ==
    /\ cpc[c] = "launchMissing"
    /\ BackgroundScan
    /\ Goto(c, "pollMissing")
    /\ UNCHANGED <<files, lock, toWrite, endAge, mCache, expired>>

\* A poll that finds nothing to load sleeps and changes nothing.
PollMissing(c) ==
    /\ cpc[c] = "pollMissing"
    /\ \/ /\ waited[c] < WaitTimeout
          /\ CanLoad
          /\ LoadCache(c)
          /\ Goto(c, "age")
       \/ /\ waited[c] >= WaitTimeout
          /\ Return(c, "error")
          /\ UNCHANGED <<mCache, expired>>
    /\ UNCHANGED <<files, scannerVars>>

\* Mutant: the hard timeout is tested with > instead of >=.
CheckAgeOffByOne(c) ==
    /\ cpc[c] = "age"
    /\ \/ mCache[c].age > HardTimeout /\ Goto(c, "launchHard")
       \/ mCache[c].age >= SoftTimeout /\ mCache[c].age <= HardTimeout /\ Goto(c, "launchSoft")
       \/ mCache[c].age < SoftTimeout /\ Return(c, "cache")
    /\ UNCHANGED <<files, scannerVars, mCache, expired>>

\* The age is computed from time() once, and decides the rest of the call.
CheckAge(c) ==
    /\ cpc[c] = "age"
    /\ \/ /\ mCache[c].age >= HardTimeout
          /\ Goto(c, "launchHard")
       \/ /\ mCache[c].age >= SoftTimeout /\ mCache[c].age < HardTimeout
          /\ Goto(c, "launchSoft")
       \/ /\ mCache[c].age < SoftTimeout
          /\ Return(c, "cache")
    /\ UNCHANGED <<files, scannerVars, mCache, expired>>

\* Beyond the soft timeout the stale cache is served while a scan runs.
LaunchSoft(c) ==
    /\ cpc[c] = "launchSoft"
    /\ BackgroundScan
    /\ Return(c, "cache")
    /\ UNCHANGED <<files, lock, toWrite, endAge, mCache, expired>>

LaunchHard(c) ==
    /\ cpc[c] = "launchHard"
    /\ BackgroundScan
    /\ Goto(c, "pollHard")
    /\ UNCHANGED <<files, lock, toWrite, endAge, mCache, expired>>

\* Mutant: the loop polls until a cache can be loaded.
PollHardForever(c) ==
    /\ cpc[c] = "pollHard"
    /\ CanLoad
    /\ LoadCache(c)
    /\ cpc' = [cpc EXCEPT ![c] = "recheckHard"]
    /\ UNCHANGED <<files, scannerVars, waited, result>>

PollHard(c) ==
    /\ cpc[c] = "pollHard"
    /\ \/ /\ waited[c] < WaitTimeout
          /\ CanLoad
          /\ LoadCache(c)
          /\ cpc' = [cpc EXCEPT ![c] = "recheckHard"]
          /\ UNCHANGED <<waited, result>>
       \/ /\ waited[c] >= WaitTimeout
          /\ mCache' = [mCache EXCEPT ![c] = NoFile]
          /\ Return(c, "error")
          /\ UNCHANGED expired
    /\ UNCHANGED <<files, scannerVars>>

\* The clock is read again after LoadCache: the new cache may just have expired,
\* and then the loop goes on.
RecheckHard(c) ==
    /\ cpc[c] = "recheckHard"
    /\ \/ mCache[c].age < HardTimeout /\ Return(c, "cache")
       \/ /\ mCache[c].age >= HardTimeout
          /\ cpc' = [cpc EXCEPT ![c] = "pollHard"]
          /\ UNCHANGED <<waited, result>>
    /\ UNCHANGED <<files, scannerVars, mCache, expired>>

Client(c) ==
    \/ FirstLoad(c) \/ LaunchMissing(c) \/ PollMissing(c) \/ CheckAge(c)
    \/ LaunchSoft(c) \/ LaunchHard(c) \/ PollHard(c) \/ RecheckHard(c)

-----------------------------------------------------------------------------
Next ==
    \/ Tick
    \/ \E s \in Scanners : Scanner(s)
    \/ \E c \in Clients : GetFullFilesystem(c) \/ Client(c)

Spec == Init /\ [][Next]_vars

(***************************************************************************)
(* Time passes, and a client inside a call runs on.  Nothing is assumed    *)
(* of the scanners: they may hang with the lock held.                      *)
(***************************************************************************)
FairSpec == Spec /\ WF_vars(Tick) /\ \A c \in Clients : WF_vars(Client(c))

-----------------------------------------------------------------------------
(***************************************************************************)
(* Properties.                                                             *)
(***************************************************************************)

\* A cache a client holds is what LoadCache makes of the lines of one whole
\* walk, however many scanners were started, killed or overtaken on the way:
\* no line of it is missing and none of another walk has come in.  When a write
\* of the scan failed (CloseTmp) it is what the first lines of the walk give.
\* The lines of some paths read as other names, and such a name may even take
\* the place of the path it belongs to (FilesystemScanner.cpp:421): Loaded
\* says for which.
Beginning(lines) == \A f \in lines, g \in Files : g < f => g \in lines

OfOneWalk(m) ==
    \E lines \in SUBSET Files :
        /\ Beginning(lines)
        /\ lines = Files \/ m.failed
        /\ m.entries = Loaded(lines)

LoadedComplete == \A c \in Clients : mCache[c] # NoFile => OfOneWalk(mCache[c])

\* The cache file never goes back in time: no client holds a scan that ended
\* later than the one on disk, although any number of scanners overlap.
DiskNewest ==
    cacheFile # NoFile /\ cacheFile.header =>
        \A c \in Clients : mCache[c] # NoFile => cacheFile.age <= mCache[c].age

\* FilesystemScanner.h: beyond the hard timeout a cache is unusable.  A call
\* that begins with such a cache never answers with that cache.
ServedUnexpired ==
    \A c \in Clients : result[c] = "cache" => mCache[c] # NoFile /\ ~expired[c]

\* Every call of GetFullFilesystem returns, also when every scanner hangs or
\* dies: the poll loops end after the wait timeout.
CallReturns == \A c \in Clients : cpc[c] # "idle" ~> cpc[c] = "idle"

\* BackgroundScan: "Build and atomically replace cache file."  Once there is a
\* cache file, a reader finds one at any later moment.
AtomicReplace == [][cacheFile # NoFile => cacheFile' # NoFile]_vars

=============================================================================
