----------------------------- MODULE ConfigFile -----------------------------
(***************************************************************************)
(* What the remediations rely on when they write a configuration file by   *)
(* lib/AtomicFile: it is one thing that changes all at once.  A call to    *)
(* create or to replace it takes effect at most once, at one moment        *)
(* before it returns; a call that fails, or whose process dies, has no     *)
(* effect; and creating a file never replaces one.  Other programs write   *)
(* or delete the file when they like.                                      *)
(*                                                                         *)
(* A call that has returned may still be undone: what is there after a     *)
(* power loss is the file as it last reached the disk, and no call waits   *)
(* for that.                                                               *)
(***************************************************************************)
CONSTANTS
    Processes,
    Foreign,        \* contents that no process of ours wrote
    None            \* there is no file

VARIABLES
    contents,       \* of the file; what a process writes is named after it
    durable,        \* the contents that are there after a power loss
    call            \* of every process

vars == <<contents, durable, call>>

Calls == {"idle", "create", "created", "replace"}

TypeOK ==
    /\ contents \in Processes \cup {Foreign, None}
    /\ durable \in Processes \cup {Foreign, None}
    /\ call \in [Processes -> Calls]

Init ==
    /\ contents \in {Foreign, None}
    /\ durable = contents
    /\ call = [p \in Processes |-> "idle"]

CallFile(p, o) ==
    /\ call[p] = "idle"
    /\ call' = [call EXCEPT ![p] = o]
    /\ UNCHANGED <<contents, durable>>

\* Creating has a step more: the call still has a name to remove.
Create(p) ==
    /\ call[p] = "create"
    /\ contents = None
    /\ contents' = p
    /\ call' = [call EXCEPT ![p] = "created"]
    /\ UNCHANGED durable

\* A file that was deleted after the call last looked is written all the same.
Replace(p) ==
    /\ call[p] = "replace"
    /\ contents' = p
    /\ call' = [call EXCEPT ![p] = "idle"]
    /\ UNCHANGED durable

\* The call fails, or is over, or its process dies.
Return(p) ==
    /\ call[p] # "idle"
    /\ call' = [call EXCEPT ![p] = "idle"]
    /\ UNCHANGED <<contents, durable>>

\* What is there reaches the disk.
Flush ==
    /\ durable' = contents
    /\ UNCHANGED <<contents, call>>

\* The power is lost.
Restart ==
    /\ contents' = durable
    /\ call' = [p \in Processes |-> "idle"]
    /\ UNCHANGED durable

\* An edit in place may be of the file that is on disk, too.
ForeignWrite ==
    /\ contents' \in {Foreign, None}
    /\ durable' \in {durable, contents'}
    /\ UNCHANGED call

Next ==
    \/ \E p \in Processes :
        \/ \E o \in {"create", "replace"} : CallFile(p, o)
        \/ Create(p) \/ Replace(p) \/ Return(p)
    \/ Flush
    \/ Restart
    \/ ForeignWrite

Spec == Init /\ [][Next]_vars
=============================================================================
