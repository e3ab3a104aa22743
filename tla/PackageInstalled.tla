-------------------------- MODULE PackageInstalled --------------------------
(***************************************************************************)
(* The audit of an installed package (lib/procedures/PackageInstalled.cpp) *)
(* and the list of packages that it keeps in a file between calls.         *)
(*                                                                         *)
(* A list is used as it is for the time Fresh, and for the time Stale when *)
(* the package manager does not answer.  Processes share the file; each    *)
(* writes a temporary file of its own and renames it, so that only the     *)
(* rename is seen.  A process may be killed anywhere, any call may fail,   *)
(* and the machine may lose power before the file has reached the disk,    *)
(* which nothing waits for.  The clock goes forward.                       *)
(***************************************************************************)
EXTENDS Versions, FiniteSets

CONSTANTS
    Processes,
    Packages,
    Available, Parts,   \* the versions there are, and what each is cut into
    Installable,        \* the lists a package manager may have
    Hosts,              \* what the managers may have at first
    Requests,           \* [manager, package, min], the parameters of a rule
    Fresh, Stale,       \* PACKAGELIST_TTL, PACKAGELIST_STALE_TTL
    LastTime, MaxChanges, MaxPowerFailures,     \* bounds
    None

Managers == {"dpkg", "rpm"}
Lists == [Packages -> {None} \cup Available]
Times == 0..LastTime
Cache == [manager : Managers, time : Times, packages : Lists, whole : BOOLEAN]

ASSUME PackageInstalledAssumption ==
    /\ {Fresh, Stale, LastTime, MaxChanges, MaxPowerFailures} \subseteq Nat
    /\ Fresh <= Stale
    /\ Parts \in [Available -> Version]
    /\ None \notin Available /\ None \notin Lists /\ None \notin Cache
    /\ Installable \subseteq Lists
    /\ Hosts \subseteq [Managers -> {None} \cup Installable]
    /\ \A r \in Requests : /\ r.manager \in Managers \cup {"autodetect"}
                           /\ r.package \in Packages
                           /\ r.min \in {None} \cup Available

VARIABLES
    now,
    host,               \* what each manager has installed; None if it is not there
    cache,              \* what a reader finds in the file; None if it is refused.
                        \* whole is history: no power failure has cut the list
    synced,             \* whether the file has reached the disk
    pc, request,
    view,               \* the list the process goes by, or None
    reuse,              \* cacheStale: view may be used if there is no other
    manager,
    stamp, output,      \* when the manager was run, and what it says
    verdict,
    started,            \* history: when the call began
    failed,             \* history: whether the manager did not answer this call
    held,               \* history: which list each manager had, and when
    changes, failures

world == <<now, host, held, changes, failures>>
file == <<cache, synced>>
listing == <<stamp, output>>
packageVars == <<world, file, pc, request, view, reuse, manager, listing, verdict, started, failed>>

Holding(h, t) ==
    {[manager |-> m, packages |-> h[m], time |-> t] : m \in {k \in Managers : h[k] # None}}

PackageInit ==
    /\ now = 0
    /\ host \in Hosts
    /\ held = Holding(host, 0)
    /\ changes = 0 /\ failures = 0
    /\ cache = None /\ synced = TRUE
    /\ pc = [p \in Processes |-> "idle"]
    /\ request = [p \in Processes |-> None]
    /\ view = [p \in Processes |-> None]
    /\ reuse = [p \in Processes |-> FALSE]
    /\ manager = [p \in Processes |-> None]
    /\ stamp = [p \in Processes |-> 0]
    /\ output = [p \in Processes |-> None]
    /\ verdict = [p \in Processes |-> None]
    /\ started = [p \in Processes |-> 0]
    /\ failed = [p \in Processes |-> FALSE]

-----------------------------------------------------------------------------
Proceed(p, step) == pc' = [pc EXCEPT ![p] = step]

\* The processes in P end their calls, with a verdict or None.
End(P, r) ==
    LET Reset(f, v) == [p \in Processes |-> IF p \in P THEN v ELSE f[p]]
    IN /\ pc' = Reset(pc, "done")
       /\ verdict' = Reset(verdict, r)
       /\ request' = Reset(request, None)
       /\ view' = Reset(view, None)
       /\ reuse' = Reset(reuse, FALSE)
       /\ manager' = Reset(manager, None)
       /\ stamp' = Reset(stamp, 0)
       /\ output' = Reset(output, None)
       /\ started' = Reset(started, 0)
       /\ failed' = Reset(failed, FALSE)

Call(p) ==
    /\ pc[p] = "idle"
    /\ Proceed(p, "load")
    /\ \E r \in Requests : request' = [request EXCEPT ![p] = r]
    /\ started' = [started EXCEPT ![p] = now]
    /\ UNCHANGED <<world, file, view, reuse, manager, listing, verdict, failed>>

(***************************************************************************)
(* LoadPackageCache, which may fail at any time.  The list of another      *)
(* manager than the one asked for is no use; if none was asked for, it is  *)
(* the one of the list.                                                    *)
(***************************************************************************)
Usable(c, r) == c # None /\ r.manager \in {"autodetect", c.manager}

LoadPackageCache(p) ==
    /\ pc[p] = "load"
    /\ \E c \in {None, cache} :
        \/ /\ Usable(c, request[p])
           /\ view' = [view EXCEPT ![p] = c]
           /\ manager' = [manager EXCEPT ![p] = c.manager]
           /\ Proceed(p, "age")
        \/ /\ ~Usable(c, request[p])
           /\ manager' = [manager EXCEPT ![p] = request[p].manager]
           /\ Proceed(p, IF c = None /\ request[p].manager = "autodetect" THEN "detect" ELSE "list")
           /\ UNCHANGED view
    /\ UNCHANGED <<world, file, request, reuse, listing, verdict, started, failed>>

\* dpkg is asked first; rpm is asked when dpkg does not answer.
DetectPackageManager(p) ==
    /\ pc[p] = "detect"
    /\ \/ \E m \in Managers :
          /\ host[m] # None
          /\ manager' = [manager EXCEPT ![p] = m]
          /\ Proceed(p, "list")
          /\ UNCHANGED <<request, view, reuse, listing, verdict, started, failed>>
       \/ End({p}, "NotApplicable")
    /\ UNCHANGED <<world, file>>

TooOld(age) == Stale < age
Outdated(age) == Fresh < age

CheckListAge(p) ==
    /\ pc[p] = "age"
    /\ LET age == now - view[p].time
       IN /\ view' = [view EXCEPT ![p] = IF TooOld(age) THEN None ELSE @]
          /\ reuse' = [reuse EXCEPT ![p] = Outdated(age) /\ ~TooOld(age)]
          /\ Proceed(p, IF Outdated(age) \/ TooOld(age) THEN "list" ELSE "answer")
    /\ UNCHANGED <<world, file, request, manager, listing, verdict, started, failed>>

(***************************************************************************)
(* GetInstalledPackages.  The time is taken, the manager is run and looks  *)
(* at what is installed, and some time later its output is complete.       *)
(***************************************************************************)
TakeTime(p) ==
    /\ pc[p] = "list"
    /\ stamp' = [stamp EXCEPT ![p] = now]
    /\ Proceed(p, "run")
    /\ UNCHANGED <<world, file, request, view, reuse, manager, output, verdict, started, failed>>

RunManager(p) ==
    /\ pc[p] = "run"
    /\ output' = [output EXCEPT ![p] = host[manager[p]]]
    /\ Proceed(p, "parse")
    /\ UNCHANGED <<world, file, request, view, reuse, manager, stamp, verdict, started, failed>>

\* Stamped when the list is complete.
ListedAtEnd(p) == [manager |-> manager[p], time |-> now, packages |-> output[p], whole |-> TRUE]

Listed(p) == [manager |-> manager[p], time |-> stamp[p], packages |-> output[p], whole |-> TRUE]

\* Without an answer an old list is used again, if it is not too old.
GetInstalledPackages(p) ==
    /\ pc[p] = "parse"
    /\ \/ /\ output[p] # None
          /\ view' = [view EXCEPT ![p] = Listed(p)]
          /\ Proceed(p, "save")
          /\ UNCHANGED <<request, reuse, manager, listing, verdict, started, failed>>
       \/ /\ reuse[p]
          /\ failed' = [failed EXCEPT ![p] = TRUE]
          /\ Proceed(p, "answer")
          /\ UNCHANGED <<request, view, reuse, manager, listing, verdict, started>>
       \/ /\ ~reuse[p]
          /\ End({p}, "Error")
    /\ UNCHANGED <<world, file>>

\* What cannot be saved is used all the same.
SavePackageCache(p) ==
    /\ pc[p] = "save"
    /\ Proceed(p, "answer")
    /\ \/ cache' = view[p] /\ synced' = FALSE
       \/ UNCHANGED file
    /\ UNCHANGED <<world, request, view, reuse, manager, listing, verdict, started, failed>>

Verdict(packages, r) ==
    IF packages[r.package] = None THEN "NonCompliant"
    ELSE IF r.min # None /\ VersionCompare(Parts[packages[r.package]], Parts[r.min]) < 0
    THEN "NonCompliant"
    ELSE "Compliant"

Answer(p) ==
    /\ pc[p] = "answer"
    /\ End({p}, Verdict(view[p].packages, request[p]))
    /\ UNCHANGED <<world, file>>

-----------------------------------------------------------------------------
Running == {p \in Processes : pc[p] \notin {"idle", "done"}}

Killed(p) ==
    /\ p \in Running
    /\ End({p}, None)
    /\ UNCHANGED <<world, file>>

\* A list may be cut anywhere: what is left has fewer packages, and a version
\* may be another.  Without its first line the file is refused.
Cut(c, l) ==
    /\ \A k \in Packages : l[k] # None => c.packages[k] # None
    /\ l # c.packages

PowerFails ==
    /\ failures < MaxPowerFailures
    /\ failures' = failures + 1
    /\ End(Running, None)
    /\ synced' = TRUE
    /\ \/ UNCHANGED cache
       \/ /\ ~synced
          /\ \/ cache' = None
             \/ \E l \in Lists :
                /\ Cut(cache, l)
                /\ cache' = [cache EXCEPT !.packages = l, !.whole = FALSE]
    /\ UNCHANGED <<now, host, held, changes>>

Flush ==
    /\ ~synced
    /\ synced' = TRUE
    /\ UNCHANGED <<world, cache, pc, request, view, reuse, manager, listing, verdict, started,
                   failed>>

\* Somebody installs, upgrades or removes packages, or a manager.
Change ==
    /\ changes < MaxChanges
    /\ changes' = changes + 1
    /\ \E m \in Managers, l \in {None} \cup Installable :
        /\ l # host[m]
        /\ host' = [host EXCEPT ![m] = l]
        /\ held' = held \cup Holding([host EXCEPT ![m] = l], now)
    /\ UNCHANGED <<now, failures, file, pc, request, view, reuse, manager, listing, verdict,
                   started, failed>>

Advance ==
    /\ now < LastTime
    /\ now' = now + 1
    /\ held' = held \cup Holding(host, now + 1)
    /\ UNCHANGED <<host, changes, failures, file, pc, request, view, reuse, manager, listing,
                   verdict, started, failed>>

Step(p) ==
    \/ Call(p) \/ LoadPackageCache(p) \/ DetectPackageManager(p) \/ CheckListAge(p)
    \/ TakeTime(p) \/ RunManager(p) \/ GetInstalledPackages(p) \/ SavePackageCache(p)
    \/ Answer(p) \/ Killed(p)

PackageNext == (\E p \in Processes : Step(p)) \/ PowerFails \/ Flush \/ Change \/ Advance

PackageSpec == PackageInit /\ [][PackageNext]_packageVars

-----------------------------------------------------------------------------
(***************************************************************************)
(* Properties                                                              *)
(***************************************************************************)

\* The types of the variables.
PackageTypeOK ==
    /\ now \in Times
    /\ host \in [Managers -> {None} \cup Lists]
    /\ held \subseteq [manager : Managers, packages : Lists, time : Times]
    /\ cache \in {None} \cup Cache
    /\ synced \in BOOLEAN
    /\ pc \in [Processes -> {"idle", "load", "detect", "age", "list", "run", "parse", "save",
                             "answer", "done"}]
    /\ request \in [Processes -> {None} \cup Requests]
    /\ view \in [Processes -> {None} \cup Cache]
    /\ reuse \in [Processes -> BOOLEAN]
    /\ manager \in [Processes -> {None, "autodetect"} \cup Managers]
    /\ stamp \in [Processes -> Times]
    /\ output \in [Processes -> {None} \cup Lists]
    /\ started \in [Processes -> Times]
    /\ failed \in [Processes -> BOOLEAN]

\* Some list that was not too old when the call began gives the same verdict.
RecentVerdict(p, v) ==
    \E e \in held :
        /\ request[p].manager \in {"autodetect", e.manager}
        /\ started[p] <= e.time + (IF failed[p] THEN Stale ELSE Fresh)
        /\ v = Verdict(e.packages, request[p])

\* A verdict is about packages that were installed, under the manager the rule
\* names, no longer before the call than PACKAGELIST_TTL (than
\* PACKAGELIST_STALE_TTL when the manager did not answer), whoever else lists
\* packages, saves lists or dies at the same time.  A list that was cut short
\* by a power failure is excepted: nothing tells it from a whole one.
VerdictIsRecent ==
    [][\A p \in Processes :
        pc[p] = "answer" /\ verdict'[p] # None /\ view[p].whole
            => RecentVerdict(p, verdict'[p])]_packageVars
=============================================================================
