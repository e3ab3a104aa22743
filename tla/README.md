# Specifications of the Kompli compliance engine

This directory holds TLA+ specifications of the program in this repository:
the compliance engine (`src/modules/complianceengine`), the `kompli` command
line tool built on it and the native resource provider of Machine
Configuration (`src/adapters/mc`). TLC checks them on small instances; TLAPS
proves the most important invariants for every instance. `PROJECT.json` lists
the runs, the lines of code every definition stands for, the hazards and the
theorems.

## The system

A benchmark is a set of rules. A rule is a JSON object (its *procedure*): a
tree of `anyOf`, `allOf` and `not` over built-in procedures and Lua scripts,
once for the audit and optionally once for the remediation, and parameters
with defaults. Two front ends drive one engine:

```
 Machine Configuration                     shell
        | Get, Test, Set                     | kompli plan / run / render / list
        v                                    v
 OsConfigResource.c  -- fallback -->    Main.cpp, Plan.cpp  <-- benchmarkio: definitions
   Baseline.c           platform             |
        |  MmiSet/MmiGet service             |
        v                                    v
 ComplianceEngineInterface.cpp ------>  Engine.cpp (mDatabase), Procedure.cpp
                                             |
                                             v
                          Evaluator.cpp, Indicators.cpp, LuaEvaluator.cpp
                                             |
                                             v
            procedures/*.cpp --> FilesystemScanner (forks scanners), AtomicFile,
                                 TemporaryDirectory, ExecuteCommand (forks a shell)
```

| Component | State it keeps | Operations | What is hard | What makes it correct |
|---|---|---|---|---|
| Filesystem scanner | a cache per client; cache file, temporary file and lock shared by all | `GetFullFilesystem`, `BackgroundScan`, `LoadCache` | detached processes, overlap, kills at any step, three timeouts | complete caches, no going back in time, no expired answer, calls return |
| Evaluator | call stack, indicator tree | `ExecuteAudit`, `ExecuteRemediation` | short circuits, three-valued logic, errors half way | the status is the meaning of the rule; no uninvited remediation |
| Engine | `mDatabase`: rule name to procedure and parameters | `procedure`, `init`, `remediate` (MmiSet), `audit` (MmiGet) | entries replaced, updates that fail half way, masked errors | an evaluation uses the procedure and parameters of its caller |
| NRP adapter | the engine, and static variables that outlive a call | Get, Test, Set, load and unload | stale statics, shared rule names, fallback to another service | a verdict belongs to its own instance and call |
| kompli run | loaded documents, result so far | load, validate, evaluate, print | files changed since the plan, failures in the middle | all-or-nothing validation; complete and correctly aggregated results |
| kompli plan | plan file | `GeneratePlan`, `WritePlanFile`, `ParsePlanFile` | selectors over several files, a file written in place, a writer or a host that dies | what is run is a whole plan, and what was selected |
| Atomic file | a directory and its files | create, replace | crashes, power loss, other writers, a dozen failing calls | whole files, nothing overwritten by a creation, nothing left behind |
| Remediations | configuration files | read, modify, replace, audit again, roll back | lost updates, failing roll back | the change is there or the file is as it was |
| Mount options | `/etc/fstab`, its backups and temporary file, the mounted file systems | audit, remediate | no `AtomicFile`, no lock, lines found by counting | the old text can be got back; one line changes |
| Installed packages | a list of packages shared by all processes | `AuditPackageInstalled` | stale lists, managers that do not answer, cut files | a verdict is about packages of the time it may be about |
| Temporary directory | a directory tree | make, remove | entries that appear during removal | what is removed is what was made |
| Command execution | a child, a pipe | `ExecuteCommand` | timeout, cancellation, exit | bounded, no child left |
| Telemetry, logging | an event file, a log file | append, rotate, send | two processes, a full file | nothing lost or doubled |
| Parsers, formatters, renderers | none | | | pure functions |

## Modules

| Module | Contents |
|---|---|
| `FilesystemScanner`, `MCFilesystemScanner` | the cache file, scanners and clients; paths that read as others |
| `Evaluator` | the evaluation of one rule, as a walk over its tree, and the meaning of a rule as reference |
| `MCEvaluator` | all rules of a given size |
| `Engine` | the rule database and its operations, extended by the two modules below |
| `NrpAdapter`, `MCNrpAdapter` | the provider over an engine; its instances |
| `NrpAdapterProofs` | its theorems |
| `Plan` | definitions and plans of `kompli`, and the checks both of its commands make on them |
| `PlanCommand` | `kompli plan`: reading definitions, generating and writing a plan |
| `KompliRun` | `kompli run` over an engine |
| `KompliSession`, `MCKompliSession` | both commands, the plan file between them and a host that goes down; plans, definitions and command lines |
| `KompliProofs` | the theorems about a run in a session, and about the plan it is given |
| `ConfigFile` | abstract: what the remediations rely on in `lib/AtomicFile` |
| `AtomicFile`, `MCAtomicFile` | creation and replacement of a configuration file; symmetry |
| `AtomicFileProofs` | its theorems |
| `Remediation` | the transaction of the remediations that edit files |
| `RemediationProofs` | its theorems |
| `MountOption`, `MCMountOption` | audit and remediation of mount options; file system tables and requests |
| `Versions` | the comparison of two package versions |
| `PackageInstalled`, `MCPackageInstalled` | the audit of a package over a shared list; versions and rules |
| `CacheProofs` | the theorems about the two caches on disk: `FilesystemScanner` and `PackageInstalled` |
| `RuleProofs` | the theorems about `Evaluator` and `MountOption` |
| `TemporaryDirectory`, `MCTemporaryDirectory` | the state directory of a `kompli` run; symmetry |
| `TemporaryDirectoryProofs` | its theorems |
| `CommandExecution` | a shell command, its pipe and its caller |
| `CommandExecutionProofs` | its theorems |

### FilesystemScanner

`cacheFile` and `tmpFile` are what the two names refer to; `lock` is the
`flock` on the lock file. `spc` is the program counter of a scanner process
(`BackgroundScan` from the second fork on), `cpc` of a client in
`GetFullFilesystem`. Each action is one system call, or the code between two
looks at the clock. A client starts a scanner on every call past the soft
timeout, so scanners overlap as they do in the code. A scanner may die at any
step (`ScannerExit`) and any write may fail unnoticed (`CloseTmp`), which the
history field `failed` records.

Time stamps are kept as ages, cut off at the hard timeout; only differences of
`time()` are used by the code. A walk is one step and finds every file: what a
walk sees of a filesystem that changes is not the subject.

`LoadCache` reads the fields of a line with `>>`, so a path with white space does
not come back as itself: after a blank and a number, or a blank at its end, the
line reads as the shorter path before it, otherwise it is malformed, and a path
with a line feed is several lines. `ReadsAs` gives the names that the lines of a
path read as, and `Loaded` what `std::map::insert` makes of them, in which the
first line of a name wins. `LoadedComplete` says that a cache in memory is what
the lines of one whole walk read as, or of the first part of a walk whose writes
failed. It does not say that every path is listed under its own name, which is
not so.

The fairness is that time passes and a client inside a call runs on. Nothing is
assumed of scanners: `CallReturns` holds though all of them hang.

### Evaluator

The nodes of a rule are numbered in document order. The nodes that are `open`
are the call stack of `EvaluateProcedure` and, because every call pushes one
indicator node and pops it, the evaluation stack of `IndicatorsTree`. `act[n]`
is the `Action` the call was made with, `called[n]` are the procedure functions
that ran. A built-in procedure returns any status or an error; a Lua script
calls any procedures in any order and returns a boolean or fails. The run is
exhaustive over rules of four nodes, which is enough for a list below `not`
below a list, and for a list with three children. The only fairness is that
the one thread runs on: a procedure or script that never returns is excluded.

### Engine

`mDatabase` maps a rule name to its procedure and current parameters.
`SetProcedure` erases before it parses; `UpdateUserParameters` applies pairs in
key order up to the first unknown one and keeps what was applied. The result of
an evaluation is any status, an error that the MMI interface masks, or one it
hands on (`critical`: `ENOMEM` and exceptions).

### NrpAdapter

One host process calls one handler at a time. A handler is cut at its calls to
the engine and to the platform service. Only the static variables whose value
can be read by a later call are variables; the object names are read afresh by
every call that uses them. An instance is a record of the properties the
handlers look at. The instances in `MCNrpAdapter` are the documented form, twice,
and twelve departures from it: a refused procedure, a parameter the procedure
does not have, no init object, no desired value, another component name (which
is how `docs/architecture.md` writes it), another distribution, and so on. They
share one rule name, so that entries and values can leak.

### Plan, PlanCommand, KompliRun and KompliSession

`PlanCommand` is one `kompli plan`: it reads the definitions it is given, seeds
every rule at audit with its defaults, applies toggles and overrides, validates
the parameters and writes the plan over the output file. The file is a sequence of
cells, one for each block of the plan and one (`End`) for what closes the
document; a proper prefix of a text does not parse, nor does anything after the
end. `Write` takes as many cells as a `write` call does, at the writer's offset.
The command may fail or be killed at any step. Nothing is synchronised, so when the
host goes down (`HostGoesDown`) either the truncation had reached the disk, and
`PowerFails` cuts the text and replaces any of its cells by NUL bytes, or it had not,
and `TruncationUndone` brings the whole older plan back, also after the command
reported success. `replaced` says whose file it is, and `fromCommand` whose plan
run has read: after such a failure run executes the older plan, whole. A mixture of
both texts is ruled out by an assumption on the file system, that it does not use
the blocks of a truncated file again before the truncation is on disk.

`KompliRun` is one `kompli run` from the parsed plan on. The definition found in a
file when it loads it is any, whether or not it is the one the plan was generated
from: nothing pins the contents between plan and run. All rules share one engine
rule name. `KompliSession` joins them: run opens and reads the plan file, cell by
cell, before, while or after plan writes it. A run that reads while plan writes
(`overlapped`) is excepted from the properties, since nothing locks the file and
the code promises nothing. There is one plan command in a session; a second one
finds a file like any in `session.old`. The run is allowed to stop, since the
processes exit, and deadlock is therefore not checked.

`RunsAWholePlan` is about the file, `ChangesOnlyWhatWasAsked` about both commands at
once: it compares what the run evaluates with what `docs/cli.md` says of the
command line, stated without an order of steps (`PromisedMode`, `PromisedValue`). It and
`AcceptedIfUnchanged` are about runs of the plan the command wrote; an older plan
that a power failure brought back changes what it says, and may be invalid.

### AtomicFile

`dir` maps names to inode numbers and `inode` these to files; a file that no name
and no descriptor refers to is freed and its number reused, because the code
compares files by number. `disk` is the inode the target's name has in the directory
as it was last written back: the code flushes the file but never the directory, so
`Writeback` is the kernel's, at any moment, and a number that is still on disk is
reused only after it. Each process is anywhere in one call of
`CreateFileContentsAtomic` or `ReplaceFileContentsAtomic`. The filling of the
private temporary file is one step; it is unsynced until `Fsync`, and `PowerLoss`
turns what is unsynced into partial contents, takes the target's name back to
`disk`, so that a rename or a link that was over may be undone, lets temporary names
come and go, and ends every process. Anybody else edits, replaces or deletes the
target at any time, and is taken to flush what it writes. The mode a caller wants
for a new file is the default one.

One extended attribute stands for all. A new file may have inherited one (a default
access list, a label), and `CopyExtendedAttributes` sets what the old file has and
removes nothing, so `ReplacePreserves` says that owner, mode and every attribute of
the old file are kept, not that the new one has no others.

`ConfigFile` is what the remediations rely on: a file with contents that change at
once, and calls that take effect at most once; what is there after a power loss is
`durable`, which follows `contents` when the kernel likes, so that a call that has
returned is not known to last. `AtomicFile` implements it
(`ImplementsConfigFile`): the contents are those of the inode under the target's
name, the durable ones those of `disk`, and a call that has linked its file but not yet removed the second name is
`created`.

### Remediation

Seven procedures remediate by editing configuration files and share one course,
which the module follows in its three kinds. A file is the set of the settings
it has right; a call is to add one. Each read, write and audit is one step, and a
write happens or fails, as in `ConfigFile`; between two steps the other
process or anybody else may write the files. `before` holds the files as the
call found them for as long as nobody else has touched them, and only then do
`FailureRestores` and `AllOrNothing` say what the call leaves, and `EachOldOrWanted`
what each file is at every moment, also when the process dies or a roll back fails.
Audits are taken to answer anything: they read several files one after another,
stop at the first that is right (`DefaultUmask`), merge the configuration of many
(`SystemdConfig`, `AideAttributes`) or ask the kernel, so `Compliant` does not mean
that the setting is in the file that was edited, and no property says it does. Nor
does any say that the setting stays when calls overlap: the code has no lock over the
whole call. `XdmcpDisabled`
keeps what it wrote when its second audit fails, the others write back. That
number and device of a created file are compared before it is removed is not
taken to prevent the removal of another file: numbers are reused.

### MountOption

The remediation reads `/etc/fstab`, copies it with one line changed to
`/etc/fstab.tmp`, renames the old file to a backup named after the second and the
new one into place, and remounts. `dir` maps the names in `/etc` to inodes; each
call on them is a step, beside another process that does the same, an
administrator who writes another table, failing calls and processes that die.
A line is a comment, an indented comment, a comment at the end of a file without a
newline, or an entry with a mount point and options; `ParseFstab` counts lines by the
turns of its loop, of which `getmntent` (external) may use up several lines.

`Recoverable` says what is left of a table that was moved away. It excepts what the
code does not handle, which the history variable `mishaps` names: a write that
failed (`unwritten`; the stream is never tested), a table that could not be opened for
the copy (`unread`), two backups in one second (`second`) and two processes with the
same temporary file (`shared`). A remediation counts as sharing when it comes to the
temporary file, whether or not it can open it, while another is between that and the
last rename: one whose open failed goes on and renames what the other is writing, which
took a third process to show. `CompliantIsWritten` is about an undisturbed call.
Power loss is not modelled: neither the new table nor the two renames are flushed, so
after it neither name need refer to a whole table, and `Recoverable` would not hold.
`KeepsOtherLines` is the sentence of a comment in the code, and is violated.
A comment without a newline at the end of the file is read for ever: `hangs`.

### PackageInstalled and Versions

The list of packages is a file that every audit loads and any may replace. It is
used for `Fresh`, and for `Stale` when the manager does not answer. Packages and
managers come and go (`Change`); the manager looks at what is installed some time
after the stamp was taken and some time before its output is complete. `held` is
history: which lists each manager has had, and when. `VerdictIsRecent` says that
every verdict is the one that some list gives that was true no longer ago than the
code allows. The clock goes forward; with one that is set back every list
is young. A power failure may cut the list (`Cut`), which nothing notices:
`VerdictIsRecent` excepts verdicts from such a list. The audit with a list cut in its
first line is that without a list.

`VersionCompare` works on versions that are cut into runs of digits and of other
characters, a run being its number or its place in the order of strings. The
examples of the unit tests are an assumption of `MCPackageInstalled`.

### TemporaryDirectory

`entry` is the file system: what each name in each directory refers to. A
descriptor is the directory it was opened for, wherever that has moved. `stack`
holds the calls of `RemoveContents`; each looks a name up with `fstatat`, opens it
if it is a directory and unlinks it, and each of these is a step (`Visit`,
`Descend`, `Unlink`, `RemoveDirectory`). `readdir` returns every name that is there
from beginning to end, and of those that come or go what it likes. While the
directory is in use others do in it what they like, without bound, so that its
removal begins with any contents; during the removal they take at most
`Disturbances` steps. A process that dies leaves the directory behind.

`SuccessIsGone` has an exception: the name is looked at before the contents are
removed and not again before it is unlinked, so an empty directory that took its
place meanwhile is removed instead and the removal reported as successful.

### CommandExecution

`ExecuteCommand` after the fork: the shell (`child`), the pipe (`writers`, and
`written - got` bytes in it) and the caller (`pc`). The command is unrestricted,
and a caller without timeout waits for it for ever; every audit is such a caller
(`CommonContext.cpp:25`). `Returns` therefore says two things: with a timeout the
call returns because time passes and the caller runs on, whatever the command
does; without one it returns if the command and what it started end after they
have written all, which they can only if the caller empties the pipe. The call
returns once, so deadlock is not checked.

## Runs

| Run | Shows |
|---|---|
| `scanner` | with one client, two scanners, three files, one of which reads as another, and timeouts 1, 2 and 1: the invariants and that calls return. Two scanners are enough for one to be overtaken by the other; the timeouts for a cache to pass from fresh over soft to hard while a call is under way. |
| `scanner_replace` | *violation*: `unlink` before `rename` leaves a moment, or for ever, no cache file. |
| `evaluator` | all rules of four nodes and all answers. |
| `nrp` | any sequence of calls on fourteen instances. |
| `kompli` | thirty-nine sessions: nineteen plans as users edit them, or ten command lines over no plan or an older one, each with any of seven definitions in every file at each reading, every outcome of every rule, with and without `--continue-on-error`, and a writer or host that dies at any step: plans of one and two blocks, flags that take each other back, ambiguous, unqualified and invalid ones, and an older plan that is longer than the new one. |
| `atomic_file` | two processes, three inodes, two temporary names: both in the same call at once, or one with the old file open while another is installed. Two owners and modes and one attribute value; the files of others differ in both from those that the processes create (`MCLooks`). `View` forgets what is in temporary files that nobody works on any more. |
| `remediation` | two processes, two settings, two files: a list in whose middle a write can fail or the process die, and a setting besides the one that is established, which must survive. |
| `temporary_directory` | three directories besides the parent, two other files, one level below the directory and two steps of others: a third level that is refused, a directory exchanged for a link between two calls, a first attempt that fails and a second that does not. |
| `mount_option` | two processes, two mount points and options, two tables, three requests, two seconds and one edit: a table changed by both processes, one that dies between the renames, a backup replaced in the same second. |
| `mount_option_lines` | *violation*: after an indented comment the lines are counted wrong, and another line than the entry is overwritten. |
| `package_installed` | two audits, one package in two versions or absent, two managers, ages up to two, one change, one power failure: a list that is fresh, stale and too old in turn while another process saves one of its own. |
| `command` | four bytes of output through a pipe of two, results limited to none, two or any number of bytes, with and without timeout and callback: the pipe and the result both fill up before the command is done, and the clock passes the deadline. |

The two violation runs state a sentence of the code; `PROJECT.json` quotes it under
`findings`. Further disagreements that were met have no run:

- a path with white space is lost between the cache file and the cache, or listed
  under the name of another path, whose place it may take
  (`FilesystemScanner.cpp:421`, against `FilesystemScanner.h:28` and `:38`);
- an instance without `ExpectedObjectValue` is compared with the value of an
  earlier one and not with PASS, as the log says (`OsConfigResource.c:757`);
- with `--continue-on-error` a rule that fails has no entry in the result
  (`Main.cpp:501`), while `kompli-result.schema.json` says one entry per rule, and
  a run whose evaluations all fail is Compliant;
- the engine answers only for the component `ComplianceEngine`, while
  `docs/architecture.md` and the MOF in its example say `Compliance`.

## Proofs

The theorems hold for any number of processes, files, rules, plans and settings and
any timeouts, under the assumptions on the constants, which say no more than that
bounds are numbers, that names which differ in the code differ, and what a parsed
definition or instance looks like (`ScannerAssumption`, `RulesAssumption`,
`EngineAssumption`, `NrpAssumption`, `PlanAssumption`, `RunAssumption`,
`CommandAssumption`, `FileAssumption`, `RemediationAssumption`,
`DirectoryAssumption`, `PackageInstalledAssumption`, `MountOptionAssumption`). The type invariants
are theorems too. Where an argument goes over the nodes of a rule, the blocks of a plan or
the flags of a command line, it takes the least counterexample of a set of numbers
(`Least`), which exists because < is well-founded on them.

*Scanner.* The inductive invariant says what the temporary file holds at each
step of the scanner that has the lock: between opening and renaming it, what was
written and what is left to write make up the walk, unless a write failed. The
lock makes that scanner the only one past `start`, so nobody else writes the
file; from that, every installed file is complete and no older than those
installed before, and so is every cache loaded from one.

*Evaluator.* For `RemediatesOnlyWhenAsked` the invariant carries down the path
that `act[n]` is `Remediate` only if the root's action is, and no node above `n`
is a `not`. For `LastDecides` it says that a node is entered only after its
earlier siblings were done and none of them was decisive. For `StackIsPath` the open nodes
are a chain from the root (`OpenFromTheRoot`): the parent of an open node is open and
is the last open node before it, so there is one node without an open child and the rest
is its path. For `SkippedLeavesDoNotMatter` the status of every node that is done is its
value in every valuation that agrees with the leaves evaluated (`DoneMeans`): at a list
that returns, either its last child decided it, or all children were entered and the
accumulated status is the greatest or least of theirs.

*Atomic file.* All six properties are proved. The invariant says that a
temporary file is known to nobody but its owner: a call that writes owns its
temporary name (`Own`, `Apart`), its inode has no other name and is not the target
on disk (`Private`), and it is filled and flushed before it is installed (`Filled`);
so is then whatever has the target's name, now or on disk (`TargetWhole`), and a
power loss brings back nothing else (`AfterPowerLoss`). `ReplacePreserves` also needs what a call
remembers of the target to be still so unless the call was disturbed
(`Remembered`). `TargetStep` lists the only steps that change what the name
refers to; `CreateNeverReplaces` and `ReplacePreserves` are decided at those.
For `ImplementsConfigFile`, `ContentsKept` shows that no other step of a call
changes what a reader finds, now or after a power loss, and `FileStep` maps every
action to one of `ConfigFile` or to a stutter.

*Remediation.* The types and the three properties are proved. The invariant follows a call as long
as nobody else writes the files (`Course`): what it read is what was there when it
began (`Faithful`), the files it passed over need no change (`Passed`), and `at`
alone tells which files are changed by now (`Written`): those before it on the
way forward, those up to it on the way back. A step of another process either
leaves the files alone or ends that obligation. `EachOldOrWanted` follows from
`Written` wherever the call is (`CourseEach`), and is carried on its own (`Each`) once
the call is over. What the audits answer is not used.

*NRP adapter.* All four properties are proved, over any instances. The invariant
follows one handler: whichever value the static variables had before, the desired
value is the instance's own from the first step that may use it (`DesiredIsOwn`),
after the procedure was set the entry of the rule is made from it or there is none
(`EntryIsOwn`), before the audit of an instance of the documented form it is merged
with its values (`MergedForAudit`), and a report that is compared is PASS only for
the two reasons a verdict may have (`ReportIsOwn`).

*kompli.* The theorems are about a run in a session, so the plan is whatever its parser
made of the plan file (`Parses` lets nothing but well-formed blocks through).
`Validated` says that from the loop on every block is valid against the documents
whose rules are run; `Chosen` and `IsSet` that the engine holds the procedure of the
rule under way with the plan's parameters, although the rules share one engine
name; `ReportedSoFar` that unless a rule failed there is one entry for each rule
`Before` the current one, at its place; `Accumulated` that the status is that of the
entries so far.

For the generated plan the invariant follows the two commands: what is written is the
text of the plan that the definitions read so far generate (`Generated`); the file is the
old text until it is truncated, and again when a power loss undoes that (`replaced` is
then false), and otherwise the beginning of the new one but for cells lost as NUL bytes
(`FileIs`); and what run has read is the beginning of the file unless the
two overlap (`ReaderIs`). A beginning parses only if it is the whole text, which gives
`RunsAWholePlan`. The modes and values are then a matter of the generated plan alone:
toggles and overrides are recursive functions (`WithToggles`, `WithOverrides`), and what
they compute is shown along the flags, the last one that names a rule being the one that
counts. The checks made before writing imply those made after reading
(`AcceptedIfUnchanged`).

*Package list.* The invariant says of every list, in the file, in a process or on its way
out of a manager, that the manager had it when it was stamped or later, unless it was cut
(`WasHeld`, `OutputHeld`), and of a process about to answer that its list is stamped no
longer before the call than it may be (`CallInv`).

*Mount options.* The names in `/etc` are those of different inodes (`Apart`), and unless
somebody shared it the temporary file is written by one process (`Alone`). From this a
backup stays what it was (`BackupsThere`), and what is on its way into place is empty
or a text meant to be there (`MeansWell`). `Follows` says for each step of a call that
nobody disturbed what it has read, what it has written and what is in place; a step of
another process either changes no file or disturbs it (`Bystander`). What is left is about
texts: without indented comments the line number is the place of the line
(`LineNumberRight`), so the changed line is the one entry (`RewrittenAsAsked`), and
that is the one a remount goes by (`MountedAsAsked`).

*Command execution.* The text is always the part of what was read that fits
(`TextIsPrefix`), and the shell holds the pipe as long as it runs (`Shell`); so once the
end of the output was read, nobody can write any more and the shell has ended
(`Outcome`).

*Temporary directory.* Every thing is at one place (`OnePlace`). `inside` holds what
was ever in the directory with all that was in it (`InsideClosed`), so whatever a
lookup in a directory that was inside finds was inside too, also after an exchange, and
every call on the stack works there (`Calls`). `Named` says that the name is the
directory's from the inspection on unless somebody moved it: since a thing has one
place, unlinking the name then removes it. `Owner` says that one object holds the
descriptors. `QuietRemovalSucceeds` has an invariant of its own for an attempt in which
nobody writes and no call fails (`Quiet`): the calls on the stack are nested as their
directories are (`Nested`), and what is left in each of these is still to be dealt with
unless something is too deep (`Accounted`), so a directory whose call found no obstacle is
empty. It needs that what is too deep is not lost on the way (`TooDeepKept`): the
directory of the last call is as deep as the stack is long (`DepthOfTop`), and only
what is above the limit is removed.

Model-checked only: liveness (`CallReturns`, `Terminates`, `Returns`), which needs
fairness and `ENABLED`. Every invariant and action property of a passing run is proved.

## Not modelled, and why

What an audit inspects on the host, in some sixty procedures but for packages and mount
options, and what a remediation writes: the evaluator takes any answer of them. Of
the remediations, `Remediation` has the transaction of the seven that edit files with
`AtomicFile`, and `MountOption` the one that does not; those that set the mode of
files, kernel parameters or services are single calls to the host, and are any answer to
the evaluator. Log rotation (`Logging.c`) and telemetry, which change nothing that
another component reads, are left out. Parsers, renderers and formatters are pure
functions; what their callers rely on is stated where it is used. The wrappers of
system calls in `common` are part of the steps that use them. `parson` and the MI
schema are vendored or generated.

