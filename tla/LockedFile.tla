----------------------------- MODULE LockedFile -----------------------------
(***************************************************************************)
(* `LockedFile` (crates/uv-fs/src/locked_file.rs) on one path, the         *)
(* `.lock` of a cache directory: an advisory lock belongs to the file a    *)
(* process has open, and not to the path.  Which file the path names       *)
(* changes when `Cache::clear` removes it and the next process creates it. *)
(*                                                                         *)
(* The operators are steps of a process; WheelStore composes them with     *)
(* what the process does while it is in.                                   *)
(***************************************************************************)
EXTENDS Naturals

CONSTANTS
    Process,    \* uv processes
    MaxFiles    \* bound: lock files created at the path, one after the other

ASSUME MaxFilesAssumption == MaxFiles \in Nat

VARIABLES
    path,       \* the file at the path, `NoFile` if there is none
    created,    \* how many files have been created there
    file,       \* the file each process has open
    mode,       \* the mode it wants to lock it in
    held,       \* the mode it holds it in
    patient,    \* whether it called `acquire` rather than `acquire_no_wait`
    at          \* where it is

lockVars == <<path, created, file, mode, held, patient, at>>

NoFile == 0
File   == 1 .. MaxFiles
Mode   == {"Shared", "Exclusive"}

Where ==
    { "out",       \* does not use the resource
      "opened",    \* has the file open, lock not tried
      "waiting",   \* blocks in `lock`
      "busy",      \* `acquire_no_wait` has returned `None`
      "in" }       \* uses the resource

LockTypeOK ==
    /\ path \in File \cup {NoFile}
    /\ created \in 0 .. MaxFiles
    /\ file \in [Process -> File \cup {NoFile}]
    /\ mode \in [Process -> Mode]
    /\ held \in [Process -> Mode \cup {"None"}]
    /\ patient \in [Process -> BOOLEAN]
    /\ at \in [Process -> Where]

LockInit ==
    /\ path = NoFile /\ created = 0
    /\ file = [p \in Process |-> NoFile]
    /\ mode = [p \in Process |-> "Shared"]
    /\ held = [p \in Process |-> "None"]
    /\ patient = [p \in Process |-> TRUE]
    /\ at = [p \in Process |-> "out"]

\* Whether the operating system grants p the lock: it conflicts with none
\* that others hold on the same file.
Grantable(p) ==
    \A q \in Process \ {p} :
        (file[q] = file[p] /\ held[q] # "None")
            => (mode[p] = "Shared" /\ held[q] = "Shared")

\* `create`: opens the file at the path, or moves a new one there unless
\* another process has.  If the path is emptied between the two, the process
\* fails, which `Leave` stands for.
Create(p, m, wait) ==
    /\ IF path # NoFile
          THEN /\ file' = [file EXCEPT ![p] = path]
               /\ UNCHANGED <<path, created>>
          ELSE /\ created < MaxFiles
               /\ created' = created + 1
               /\ path' = created + 1
               /\ file' = [file EXCEPT ![p] = created + 1]
    /\ mode' = [mode EXCEPT ![p] = m]
    /\ patient' = [patient EXCEPT ![p] = wait]
    /\ at' = [at EXCEPT ![p] = "opened"]
    /\ UNCHANGED held

\* `lock_file` and `lock_file_no_wait`: the lock is free, or is granted after
\* waiting.
Acquire(p) ==
    /\ at[p] \in {"opened", "waiting"} /\ Grantable(p)
    /\ held' = [held EXCEPT ![p] = mode[p]]
    /\ at' = [at EXCEPT ![p] = "in"]
    /\ UNCHANGED <<path, created, file, mode, patient>>

\* `lock_file` that waits, and `lock_file_no_wait` that returns `None` and
\* closes the file.
Contend(p) ==
    /\ at[p] = "opened" /\ ~Grantable(p)
    /\ at' = [at EXCEPT ![p] = IF patient[p] THEN "waiting" ELSE "busy"]
    /\ file' = [file EXCEPT ![p] = IF patient[p] THEN @ ELSE NoFile]
    /\ UNCHANGED <<path, created, mode, held, patient>>

\* What a process is like that has ended.
Exit(p) ==
    /\ at' = [at EXCEPT ![p] = "out"]
    /\ mode' = [mode EXCEPT ![p] = "Shared"]
    /\ patient' = [patient EXCEPT ![p] = TRUE]

\* The process drops the lock and ends.  A process that dies, one that fails
\* and one whose wait exceeds `LOCK_TIMEOUT` leave in the same way: the
\* operating system closes the file.
Leave(p) ==
    /\ at[p] # "out"
    /\ file' = [file EXCEPT ![p] = NoFile]
    /\ held' = [held EXCEPT ![p] = "None"]
    /\ Exit(p)
    /\ UNCHANGED <<path, created>>

\* `lock` is not supported: the file is closed, and the resource used without it.
Unsupported(p) ==
    /\ file' = [file EXCEPT ![p] = NoFile]
    /\ at' = [at EXCEPT ![p] = "in"]
    /\ UNCHANGED <<path, created, mode, held, patient>>

\* `--force`: the resource is used without the lock.
Override(p) ==
    /\ at[p] = "busy"
    /\ at' = [at EXCEPT ![p] = "in"]
    /\ UNCHANGED <<path, created, file, mode, held, patient>>

\* `drop(lock)` in `clear`, which goes on to remove the file.
Drop(p) ==
    /\ held' = [held EXCEPT ![p] = "None"]
    /\ file' = [file EXCEPT ![p] = NoFile]
    /\ UNCHANGED <<path, created, mode, patient, at>>

\* `remove_file` at the end of `clear`: whatever the path names now.
Unlink(p) ==
    /\ path' = NoFile
    /\ Exit(p)
    /\ UNCHANGED <<created, file, held>>
=============================================================================
