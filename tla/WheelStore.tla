----------------------------- MODULE WheelStore -----------------------------
(***************************************************************************)
(* The unzipped wheels of a cache directory, shared by uv processes.       *)
(*                                                                         *)
(* An unzipped wheel is an archive under a fresh name in the archive       *)
(* bucket.  Two things lead to it: a symbolic link in the bucket of the    *)
(* wheel, by which `prune` and `clean` tell used archives from unused      *)
(* ones, and, except for wheels built from source, a pointer (`.http` or   *)
(* `.rev`), by which the planner and the distribution database find it.    *)
(* They are written one after the other, outside Windows without a lock on *)
(* the wheel.  Every command holds the cache's lock in shared mode, `uv    *)
(* cache clean` and `prune` hold it exclusively, and any process may die   *)
(* between two steps.                                                      *)
(*                                                                         *)
(* Modelled: `Cache::{init, with_exclusive_lock, persist, create_link,     *)
(* clear, remove, prune}` (uv-cache), `cache_clean` and `cache_prune` (uv),*)
(* the part of `Planner::build` that looks a wheel up (uv-installer), and  *)
(* the part of the distribution database that gets it (uv-distribution).   *)
(***************************************************************************)
EXTENDS LockedFile

CONSTANTS
    Wheel,        \* wheels in the cache
    Kind,         \* where each comes from
    Command,      \* what processes do
    Forcible,     \* whether `clean` and `prune` may be given `--force`
    Lockless,     \* whether the file system may not support shared locks
    MaxArchives   \* bound: archives that are ever persisted

\* Wheels of an index, which may be a local directory or have `file` URLs, of a
\* URL and of a path; and wheels built from a source distribution of an index,
\* from another source, and from an editable tree.
FromSource == {"built", "source", "editable"}
Kinds      == {"registry", "local", "url", "path"} \cup FromSource

Cleaning == {"prune", "prune_ci", "remove", "clear"}

ASSUME StoreAssumption ==
    /\ Kind \in [Wheel -> Kinds]
    /\ Command \subseteq Cleaning \cup {"install"}
    /\ Forcible \in BOOLEAN /\ Lockless \in BOOLEAN
    /\ MaxArchives \in Nat

VARIABLES
    archives,   \* the archives on disk
    persisted,  \* how many have ever been moved there
    link,       \* the archive each wheel's link names
    pointer,    \* the archive each wheel's pointer names
    command,    \* the command each process runs
    wheel,      \* the wheel it is for
    step,       \* where it is in the command, once it is in
    archive,    \* the archive it has in hand
    skip,       \* whether it downloads in `skip_cache_with_retry`
    snap,       \* the references a cleaner has found: an archive per link
    history     \* what has been at work: `--force`, `clear`, no shared lock

storeVars == <<archives, persisted, link, pointer, command, wheel, step,
               archive, skip, snap, history>>
vars == <<lockVars, storeVars>>

None     == 0
Archive  == 1 .. MaxArchives
Location ==
    { "plan", "get", "revalidated", "extracted", "persisted", "linked", "fetched", "install",
      "evict", "scan", "sweep", "wipe", "drop", "unlink", "end" }

TypeOK ==
    /\ LockTypeOK
    /\ archives \subseteq Archive
    /\ persisted \in 0 .. MaxArchives
    /\ link \in [Wheel -> Archive \cup {None}]
    /\ pointer \in [Wheel -> Archive \cup {None}]
    /\ command \in [Process -> Cleaning \cup {"install"}]
    /\ wheel \in [Process -> Wheel \cup {None}]
    /\ step \in [Process -> Location]
    /\ archive \in [Process -> Archive \cup {None}]
    /\ skip \in [Process -> BOOLEAN]
    /\ snap \in [Process -> [Wheel -> Archive \cup {None}]]
    /\ history \subseteq {"force", "clear", "lockless"}

Init ==
    /\ LockInit
    /\ archives = {} /\ persisted = 0
    /\ link = [w \in Wheel |-> None]
    /\ pointer = [w \in Wheel |-> None]
    /\ command = [p \in Process |-> "install"]
    /\ wheel = [p \in Process |-> None]
    /\ step = [p \in Process |-> "plan"]
    /\ archive = [p \in Process |-> None]
    /\ skip = [p \in Process |-> FALSE]
    /\ snap = [p \in Process |-> [w \in Wheel |-> None]]
    /\ history = {}

At(p, s)   == at[p] = "in" /\ step[p] = s
Goto(p, s) == step' = [step EXCEPT ![p] = s]
-----------------------------------------------------------------------------
(* Starting and ending.                                                    *)

\* Where a command begins once it has the lock: `prune` without `--ci`, and
\* `remove`, begin with the search for references.
FirstStep(c) ==
    CASE c = "install"  -> "plan"
      [] c = "prune_ci" -> "evict"
      [] c = "clear"    -> "wipe"
      [] OTHER          -> "scan"

\* `cache.init()` of a command that uses the cache, and the start of
\* `cache_clean` and `cache_prune`, which end if there is no cache and first
\* try the lock.
Begin(p, c, w) ==
    /\ at[p] = "out"
    /\ \/ c = "install"
       \/ path # NoFile \/ archives # {} \/ \E v \in Wheel : {link[v], pointer[v]} # {None}
    /\ IF c = "install" THEN Create(p, "Shared", TRUE)
                        ELSE Create(p, "Exclusive", FALSE)
    /\ command' = [command EXCEPT ![p] = c]
    /\ wheel' = [wheel EXCEPT ![p] = w]
    /\ step' = [step EXCEPT ![p] = FirstStep(c)]
    /\ UNCHANGED <<archives, persisted, link, pointer, archive, skip, snap, history>>

\* The lock is granted, at once or after waiting.  From here on `clear` is at
\* work.
Enter(p) ==
    /\ Acquire(p)
    /\ history' = IF command[p] = "clear" THEN history \cup {"clear"} ELSE history
    /\ UNCHANGED <<archives, persisted, link, pointer, command, wheel, step,
                   archive, skip, snap>>

Wait(p) == Contend(p) /\ UNCHANGED storeVars

\* `init` goes on without the lock where shared locks are not supported.
Unlocked(p) ==
    /\ Lockless /\ at[p] = "opened" /\ mode[p] = "Shared"
    /\ Unsupported(p)
    /\ history' = history \cup {"lockless"}
    /\ UNCHANGED <<archives, persisted, link, pointer, command, wheel, step,
                   archive, skip, snap>>

\* `clean` and `prune` on a cache in use: `--force` goes on without the lock,
\* otherwise `with_exclusive_lock` opens the lock file again and waits.
Forced(p) ==
    /\ Forcible
    /\ Override(p)
    /\ history' = history \cup {"force"}
    /\ UNCHANGED <<archives, persisted, link, pointer, command, wheel, step,
                   archive, skip, snap>>

Reopen(p) ==
    /\ at[p] = "busy"
    /\ Create(p, "Exclusive", TRUE)
    /\ UNCHANGED storeVars

\* The process has ended, and with it what it knew.
Forget(p) ==
    /\ command' = [command EXCEPT ![p] = "install"]
    /\ wheel' = [wheel EXCEPT ![p] = None]
    /\ step' = [step EXCEPT ![p] = "plan"]
    /\ archive' = [archive EXCEPT ![p] = None]
    /\ skip' = [skip EXCEPT ![p] = FALSE]
    /\ snap' = [snap EXCEPT ![p] = [w \in Wheel |-> None]]
    /\ UNCHANGED <<archives, persisted, link, pointer, history>>

\* The process dies or fails, at any point, or waits for too long.
Die(p) == Leave(p) /\ Forget(p)

\* The wheel is installed, or the cleaner is done.
Finish(p) ==
    /\ At(p, "install") \/ At(p, "end")
    /\ Leave(p)
    /\ Forget(p)
-----------------------------------------------------------------------------
(* Installing a wheel.                                                     *)

Exists(a) == a # None /\ a \in archives

\* Mutant: pointers to archives that are gone are taken.
PlannedUnchecked(w) == IF Kind[w] \in FromSource THEN link[w] ELSE pointer[w]

\* What the planner takes as cached: a wheel of an index and a built one only if
\* the archive is there, others if the pointer names one.
Planned(w) ==
    CASE Kind[w] \in {"registry", "local"} -> IF Exists(pointer[w]) THEN pointer[w] ELSE None
      [] Kind[w] \in FromSource -> IF Exists(link[w]) THEN link[w] ELSE None
      [] OTHER -> pointer[w]

\* What the distribution database takes: `stream_wheel` and `download_wheel`
\* look whether the archive is there; `load_wheel`, for files, does not.
Gettable(w) ==
    CASE Kind[w] \in {"registry", "url"} -> IF Exists(pointer[w]) THEN pointer[w] ELSE None
      [] Kind[w] \in FromSource -> IF Exists(link[w]) THEN link[w] ELSE None
      [] OTHER -> pointer[w]

Take(p, a) ==
    /\ a # None
    /\ archive' = [archive EXCEPT ![p] = a]
    /\ Goto(p, "install")
    /\ UNCHANGED <<lockVars, archives, persisted, link, pointer, command, wheel,
                   skip, snap, history>>

PlanCached(p) == At(p, "plan") /\ Take(p, Planned(wheel[p]))

\* Nothing is cached, or what is cached is to be revalidated or does not
\* satisfy the hashes.
PlanRemote(p) ==
    /\ At(p, "plan")
    /\ Goto(p, "get")
    /\ UNCHANGED <<lockVars, archives, persisted, link, pointer, command, wheel,
                   archive, skip, snap, history>>

GetCached(p) == At(p, "get") /\ Take(p, Gettable(wheel[p]))

\* The server answers that the entry the client has read is current (304): the
\* client writes it again, whatever it has become, and the archive is looked at
\* afterwards.
Revalidate(p) ==
    /\ At(p, "get")
    /\ Kind[wheel[p]] \in {"registry", "url"} /\ pointer[wheel[p]] # None
    /\ archive' = [archive EXCEPT ![p] = pointer[wheel[p]]]
    /\ Goto(p, "revalidated")
    /\ UNCHANGED <<lockVars, archives, persisted, link, pointer, command, wheel,
                   skip, snap, history>>

RewritePointer(p) ==
    /\ At(p, "revalidated")
    /\ pointer' = [pointer EXCEPT ![wheel[p]] = archive[p]]
    /\ Goto(p, "fetched")
    /\ UNCHANGED <<lockVars, archives, persisted, link, command, wheel, archive,
                   skip, snap, history>>

\* The wheel is downloaded, or unzipped, into a temporary directory: there is
\* no pointer or it is not up to date, or, in `skip_cache_with_retry`, the
\* archive it names has no digests or is gone.
Extract(p) ==
    /\ At(p, "get")
    /\ \E s \in {FALSE} \cup {Kind[wheel[p]] \in {"registry", "url"} /\ pointer[wheel[p]] # None} :
          skip' = [skip EXCEPT ![p] = s]
    /\ Goto(p, "extracted")
    /\ UNCHANGED <<lockVars, archives, persisted, link, pointer, command, wheel,
                   archive, snap, history>>

\* Mutant: the id of the archive is not a new one.
PersistOld(p) ==
    /\ At(p, "extracted") /\ persisted < MaxArchives
    /\ persisted' = persisted + 1
    /\ archives' = archives \cup {persisted}
    /\ archive' = [archive EXCEPT ![p] = persisted]
    /\ Goto(p, "persisted")
    /\ UNCHANGED <<lockVars, link, pointer, command, wheel, skip, snap, history>>

\* `persist`: the directory is moved into the archive bucket under a new id.
Persist(p) ==
    /\ At(p, "extracted") /\ persisted < MaxArchives
    /\ persisted' = persisted + 1
    /\ archives' = archives \cup {persisted + 1}
    /\ archive' = [archive EXCEPT ![p] = persisted + 1]
    /\ Goto(p, "persisted")
    /\ UNCHANGED <<lockVars, link, pointer, command, wheel, skip, snap, history>>

\* `create_link`: makes the symbolic link, or replaces it by a rename.
CreateLink(p) ==
    /\ At(p, "persisted")
    /\ link' = [link EXCEPT ![wheel[p]] = archive[p]]
    /\ Goto(p, IF Kind[wheel[p]] \in FromSource THEN "install" ELSE "linked")
    /\ UNCHANGED <<lockVars, archives, persisted, pointer, command, wheel,
                   archive, skip, snap, history>>

\* `write_atomic` of the `.http` entry by the cached client, or of the `.rev`
\* file by `load_wheel`, which returns.
WritePointer(p) ==
    /\ At(p, "linked")
    /\ pointer' = [pointer EXCEPT ![wheel[p]] = archive[p]]
    /\ Goto(p, IF Kind[wheel[p]] \in {"local", "path"} \/ skip[p] THEN "install" ELSE "fetched")
    /\ UNCHANGED <<lockVars, archives, persisted, link, command, wheel, archive,
                   skip, snap, history>>

\* What the first call has returned is used if it is there; otherwise it is
\* downloaded again, and that is not looked at.
Fetched(p) ==
    /\ At(p, "fetched")
    /\ skip' = [skip EXCEPT ![p] = ~Exists(archive[p])]
    /\ Goto(p, IF Exists(archive[p]) THEN "install" ELSE "extracted")
    /\ UNCHANGED <<lockVars, archives, persisted, link, pointer, command, wheel,
                   archive, snap, history>>
-----------------------------------------------------------------------------
(* Cleaning.                                                               *)

\* The wheels whose entries the command removes: `prune --ci` and `clear` all,
\* `CacheBucket::remove` those of a package.  It does not look at the shards of
\* editable trees.
Evicted(p) ==
    IF command[p] = "remove" THEN {w \in {wheel[p]} : Kind[w] # "editable"} ELSE Wheel

\* Directories are removed entry by entry, in the order of the directory.
EvictLink(p, w) ==
    /\ At(p, "evict") \/ At(p, "wipe")
    /\ w \in Evicted(p) /\ link[w] # None
    /\ link' = [link EXCEPT ![w] = None]
    /\ UNCHANGED <<lockVars, archives, persisted, pointer, command, wheel, step,
                   archive, skip, snap, history>>

EvictPointer(p, w) ==
    /\ At(p, "evict") \/ At(p, "wipe")
    /\ w \in Evicted(p) /\ pointer[w] # None
    /\ pointer' = [pointer EXCEPT ![w] = None]
    /\ UNCHANGED <<lockVars, archives, persisted, link, command, wheel, step,
                   archive, skip, snap, history>>

\* Mutant: pointers are left behind.
EvictLinksOnly(p) ==
    /\ At(p, "evict")
    /\ \A w \in Evicted(p) : link[w] = None
    /\ Goto(p, IF command[p] = "remove" THEN "sweep" ELSE "scan")
    /\ UNCHANGED <<lockVars, archives, persisted, link, pointer, command, wheel,
                   archive, skip, snap, history>>

\* Nothing is left of what the command removes.
Evict(p) ==
    /\ At(p, "evict")
    /\ \A w \in Evicted(p) : link[w] = None /\ pointer[w] = None
    /\ Goto(p, IF command[p] = "remove" THEN "sweep" ELSE "scan")
    /\ UNCHANGED <<lockVars, archives, persisted, link, pointer, command, wheel,
                   archive, skip, snap, history>>

\* `is_match`: the shard of a source that is not of an index is removed only if a
\* `metadata.msgpack` directly in one of its directories names the package;
\* with build settings it is written one level below.
Unmatched(p) ==
    /\ At(p, "evict") /\ command[p] = "remove" /\ Kind[wheel[p]] = "source"
    /\ Goto(p, "sweep")
    /\ UNCHANGED <<lockVars, archives, persisted, link, pointer, command, wheel,
                   archive, skip, snap, history>>

\* Mutant: the search does not see the links of built wheels.
ScanWheels(p) ==
    /\ At(p, "scan")
    /\ snap' = [snap EXCEPT ![p] =
                    [w \in Wheel |-> IF Exists(link[w]) /\ Kind[w] \notin FromSource
                                     THEN link[w] ELSE None]]
    /\ Goto(p, IF command[p] = "remove" THEN "evict" ELSE "sweep")
    /\ UNCHANGED <<lockVars, archives, persisted, link, pointer, command, wheel,
                   archive, skip, history>>

\* `find_archive_references`: the links that resolve.
Scan(p) ==
    /\ At(p, "scan")
    /\ snap' = [snap EXCEPT ![p] =
                    [w \in Wheel |-> IF Exists(link[w]) THEN link[w] ELSE None]]
    /\ Goto(p, IF command[p] = "remove" THEN "evict" ELSE "sweep")
    /\ UNCHANGED <<lockVars, archives, persisted, link, pointer, command, wheel,
                   archive, skip, history>>

\* Mutant: archives are kept while a pointer names them.
UnusedByPointer(p, a) ==
    IF command[p] = "remove"
       THEN /\ \E w \in Wheel : snap[p][w] = a
            /\ \A w \in Wheel : snap[p][w] = a => ~Exists(link[w])
       ELSE \A w \in Wheel : snap[p][w] # a /\ pointer[w] # a

\* `prune` removes the archives no link names; `remove` those that links
\* named of which none resolves any more.
Unused(p, a) ==
    IF command[p] = "remove"
       THEN /\ \E w \in Wheel : snap[p][w] = a
            /\ \A w \in Wheel : snap[p][w] = a => ~Exists(link[w])
       ELSE \A w \in Wheel : snap[p][w] # a

RemoveArchive(p, a) ==
    /\ \/ At(p, "sweep") /\ Unused(p, a)
       \/ At(p, "wipe")
    /\ a \in archives
    /\ archives' = archives \ {a}
    /\ UNCHANGED <<lockVars, persisted, link, pointer, command, wheel, step,
                   archive, skip, snap, history>>

Swept(p) ==
    /\ At(p, "sweep")
    /\ \A a \in archives : ~Unused(p, a)
    /\ Goto(p, "end")
    /\ UNCHANGED <<lockVars, archives, persisted, link, pointer, command, wheel,
                   archive, skip, snap, history>>

\* `clear`: everything but `.lock` is gone.  Without the lock, that is all.
Wiped(p) ==
    /\ At(p, "wipe") /\ archives = {}
    /\ \A w \in Wheel : link[w] = None /\ pointer[w] = None
    /\ Goto(p, IF held[p] = "None" THEN "end" ELSE "drop")
    /\ UNCHANGED <<lockVars, archives, persisted, link, pointer, command, wheel,
                   archive, skip, snap, history>>

DropLock(p) ==
    /\ At(p, "drop")
    /\ Drop(p)
    /\ Goto(p, "unlink")
    /\ UNCHANGED <<archives, persisted, link, pointer, command, wheel, archive,
                   skip, snap, history>>

RemoveLock(p) ==
    /\ At(p, "unlink")
    /\ Unlink(p)
    /\ Forget(p)
-----------------------------------------------------------------------------
Install(p) ==
    \/ PlanCached(p) \/ PlanRemote(p) \/ GetCached(p) \/ Extract(p)
    \/ Revalidate(p) \/ RewritePointer(p)
    \/ Persist(p) \/ CreateLink(p) \/ WritePointer(p) \/ Fetched(p)

Clean(p) ==
    \/ \E w \in Wheel : EvictLink(p, w) \/ EvictPointer(p, w)
    \/ \E a \in archives : RemoveArchive(p, a)
    \/ Evict(p) \/ Unmatched(p) \/ Scan(p) \/ Swept(p) \/ Wiped(p) \/ DropLock(p) \/ RemoveLock(p)

Next ==
    \E p \in Process :
        \/ \E c \in Command, w \in Wheel : Begin(p, c, w)
        \/ Enter(p) \/ Wait(p) \/ Unlocked(p) \/ Forced(p) \/ Reopen(p) \/ Die(p) \/ Finish(p)
        \/ Install(p) \/ Clean(p)

Spec == Init /\ [][Next]_vars
-----------------------------------------------------------------------------
Installing(p) == At(p, "install")
Undisturbed   == history = {}

\* No cleaner works without the lock, or beside a process without it, and there
\* has been one lock file.
Locks == history \subseteq {"clear"} /\ created <= 1

\* What the installer was given is there, whole, until it is installed: no
\* cleaner takes it away, and no pointer survives its archive and is believed
\* (`Archive::exists`, "Ignore stale pointers").  This is so for wheels of a
\* remote index and for built ones; of a local index, a URL or a path, some
\* caller believes the pointer (StorePath.cfg).
InstallsWhole ==
    Locks =>
        \A p \in Process :
            Installing(p) /\ Kind[wheel[p]] \in {"registry"} \cup FromSource
                => Exists(archive[p])

\* A link names an archive that is there: archives are moved before they are
\* linked, `remove` unlinks before it removes, `prune` removes what is not
\* linked.  Only `clear` removes in any order, and a forced cleaner may remove
\* what others link.
LinksResolve ==
    Undisturbed => \A w \in Wheel : link[w] # None => Exists(link[w])

\* When `prune` ends, what is left in the archive bucket is linked: what a
\* process left behind that died between the move and the link is gone.
PruneCollects ==
    Undisturbed =>
        \A p \in Process :
            At(p, "end") /\ command[p] \in {"prune", "prune_ci"}
                => archives = {link[w] : w \in Wheel} \ {None}

\* When `remove` ends, nothing leads to an archive of the wheel, and no
\* archive is left that was linked for it and for nothing else.  This is so for
\* wheels kept in a directory with the name of the package: all but those built
\* from a source that is not of an index.
RemoveForgets ==
    Undisturbed =>
        \A p \in Process :
            /\ At(p, "end") /\ command[p] = "remove"
            /\ Kind[wheel[p]] \notin {"source", "editable"}
            => /\ link[wheel[p]] = None /\ pointer[wheel[p]] = None
               /\ ~Exists(snap[p][wheel[p]])

\* "`uv cache clean ruff` removes all cache entries for the `ruff` package"
\* (docs/concepts/cache.md): the same wherever the wheel comes from
\* (StoreRemove.cfg).
RemoveForgetsAll ==
    Undisturbed =>
        \A p \in Process :
            At(p, "end") /\ command[p] = "remove"
                => link[wheel[p]] = None /\ pointer[wheel[p]] = None

\* Every wheel that is planned or returned as unzipped has its archive,
\* whatever it comes from: the comment in `load_wheel` says that the file is
\* already unzipped.
UnzippedExists ==
    Undisturbed => \A p \in Process : Installing(p) => Exists(archive[p])

\* "While the cache is active, it holds a read (shared) lock that prevents
\* cache cleaning" (`Cache`): no cleaner with the lock is at work while a
\* command has the lock.
LockPreventsCleaning ==
    \A p, q \in Process :
        held[p] = "Shared" => ~(held[q] = "Exclusive" /\ at[q] = "in")
=============================================================================
