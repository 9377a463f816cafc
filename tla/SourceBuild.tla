----------------------------- MODULE SourceBuild -----------------------------
(***************************************************************************)
(* `SourceDistributionBuilder` (crates/uv-distribution/src/source/mod.rs)  *)
(* on one source: an archive at a URL, an archive on disk or a source      *)
(* tree.  Its cache shard has a pointer to the current revision, and a     *)
(* directory per revision with the unpacked source, the wheels built from  *)
(* it, one per interpreter, and the metadata.  A call holds the shard's    *)
(* lock; meanwhile the source may be edited or replaced, `uv cache prune`  *)
(* may have run between two calls, and a process may die between two       *)
(* steps.                                                                  *)
(*                                                                         *)
(* What a source, a wheel or a metadata file says is the number of the     *)
(* edit it was made from, and so does the hash of an archive.  The code    *)
(* compares what `CacheInfo` saw: the modification time of an archive,     *)
(* which identifies the edit, and of a tree that of a few files in it (or  *)
(* of its `cache-keys`), which identifies the last edit it shows.          *)
(***************************************************************************)
EXTENDS Naturals

CONSTANTS
    Process,        \* uv processes
    Nobody,         \* the holder of a lock that is free
    Kinds,          \* the kinds of source to look at
    Tag,            \* interpreters: a wheel is compatible with one of them
    MaxContent,     \* bound: states of the source
    MaxRevisions    \* bound: revisions that are ever made

ASSUME SourceAssumption ==
    /\ Nobody \notin Process
    /\ Kinds \subseteq {"url", "archive", "tree"}
    /\ Tag # {}
    /\ MaxContent \in Nat \ {0}
    /\ MaxRevisions \in Nat

VARIABLES
    kind,        \* what the source is
    content,     \* its present state
    stamp,       \* the last edit of it that its `CacheInfo` shows
    pointer,     \* `revision.http` or `revision.rev`
    revisions,   \* the directories of the revisions
    minted,      \* how many revisions there have been
    lock,        \* the process that holds the shard's lock
    proc         \* the processes

vars == <<kind, content, stamp, pointer, revisions, minted, lock, proc>>

Missing  == 0
Content  == 1 .. MaxContent
Maybe    == 0 .. MaxContent
Revision == 1 .. MaxRevisions

Pointer == [id : Revision \cup {Missing}, info : Maybe, hash : Maybe]
Folder  == [src : Maybe, wheels : [Tag -> Maybe], metadata : Maybe, healed : BOOLEAN]
Place   == { "idle", "begun", "locked", "stat", "unpacked", "revised", "ready",
             "building", "moved", "returned" }

\* A call: what is asked for (`want` is the hash it must have), the stamp of
\* the source when it began, the pointer in hand, and what it builds or returns.
Call ==
    [ pc : Place, op : {"wheel", "metadata"}, want : Maybe, tag : Tag,
      began : Maybe, rev : Pointer, built : Maybe ]

NoPointer == [id |-> Missing, info |-> Missing, hash |-> Missing]
NoFolder  == [src |-> Missing, wheels |-> [t \in Tag |-> Missing],
              metadata |-> Missing, healed |-> FALSE]
NoCall    == [pc |-> "idle", op |-> "wheel", want |-> Missing, tag |-> CHOOSE t \in Tag : TRUE,
              began |-> Missing, rev |-> NoPointer, built |-> Missing]

TypeOK ==
    /\ kind \in {"url", "archive", "tree"}
    /\ content \in Content /\ stamp \in Content
    /\ pointer \in Pointer
    /\ revisions \in [Revision -> Folder]
    /\ minted \in 0 .. MaxRevisions
    /\ lock \in Process \cup {Nobody}
    /\ proc \in [Process -> Call]

Init ==
    /\ kind \in Kinds
    /\ content = 1 /\ stamp = 1
    /\ pointer = NoPointer
    /\ revisions = [r \in Revision |-> NoFolder]
    /\ minted = 0
    /\ lock = Nobody
    /\ proc = [p \in Process |-> NoCall]

At(p, l)   == proc[p].pc = l
Goto(p, l) == proc' = [proc EXCEPT ![p].pc = l]
Folder_(p) == revisions[proc[p].rev.id]
-----------------------------------------------------------------------------
(* The source and the cache.                                               *)

\* The user edits the tree or replaces the archive, or the server does.  Of a
\* tree, the edit may be of a file that `from_directory` does not look at.
Edit(seen) ==
    /\ content < MaxContent
    /\ seen \/ kind = "tree"
    /\ content' = content + 1
    /\ stamp' = IF seen THEN content + 1 ELSE stamp
    /\ UNCHANGED <<kind, pointer, revisions, minted, lock, proc>>

\* What `prune` leaves of a shard: revisions that its pointer does not name
\* go, and, since healing a URL leaves a pointer in the revision itself,
\* so do the directories in there.
Pruned ==
    [r \in Revision |->
        IF pointer.id \notin {Missing, r} THEN NoFolder
        ELSE IF revisions[r].healed THEN [revisions[r] EXCEPT !.src = Missing]
        ELSE revisions[r]]

\* `uv cache prune`, which holds the cache's lock: no call is in progress.
\* With `--ci`, a revision that has metadata keeps only that and its wheels.
Prune(ci) ==
    /\ \A p \in Process : At(p, "idle")
    /\ revisions' = [r \in Revision |->
            IF ci /\ Pruned[r].metadata # Missing
               THEN [Pruned[r] EXCEPT !.src = Missing, !.healed = FALSE]
               ELSE Pruned[r]]
    /\ UNCHANGED <<kind, content, stamp, pointer, minted, lock, proc>>
-----------------------------------------------------------------------------
(* A call: `url`, `archive`, `source_tree` and the same with `_metadata`.   *)

\* A call for a wheel or for metadata.  Source trees have no hash.
Begin(p) ==
    /\ At(p, "idle")
    /\ \E op \in {"wheel", "metadata"}, t \in Tag,
          w \in IF kind = "tree" THEN {Missing} ELSE Maybe :
            proc' = [proc EXCEPT ![p] = [NoCall EXCEPT
                        !.pc = "begun", !.op = op, !.tag = t, !.want = w, !.began = stamp]]
    /\ UNCHANGED <<kind, content, stamp, pointer, revisions, minted, lock>>

Lock(p) ==
    /\ At(p, "begun") /\ lock = Nobody
    /\ lock' = p
    /\ Goto(p, "locked")
    /\ UNCHANGED <<kind, content, stamp, pointer, revisions, minted>>

\* The call returns what was made from state c, and drops the lock.
Return(p, c) ==
    /\ proc' = [proc EXCEPT ![p].pc = "returned", ![p].built = c]
    /\ lock' = IF lock = p THEN Nobody ELSE lock

\* Static metadata of a tree is read from the tree itself, without the lock.
StaticTree(p) ==
    /\ At(p, "begun") /\ kind = "tree" /\ proc[p].op = "metadata"
    /\ Return(p, content)
    /\ UNCHANGED <<kind, content, stamp, pointer, revisions, minted>>

\* `CacheInfo::from_file` and `from_directory`.
Stat(p) ==
    /\ At(p, "locked")
    /\ proc' = [proc EXCEPT ![p].pc = "stat",
                            ![p].rev.info = IF kind = "url" THEN Missing ELSE stamp]
    /\ UNCHANGED <<kind, content, stamp, pointer, revisions, minted, lock>>

\* Mutant: the pointer is used whatever the state of the source.
CurrentAlways(p) ==
    /\ pointer.id # Missing
    /\ proc[p].want # Missing => pointer.hash # Missing

\* Whether the pointer can be used: it is of the present stamp of a local
\* source, and has a hash if one is needed.
Current(p) ==
    /\ pointer.id # Missing
    /\ kind # "url" => pointer.info = proc[p].rev.info
    /\ proc[p].want # Missing => pointer.hash # Missing

\* `url_revision`, `archive_revision`, `source_tree_revision`: the pointer is
\* fresh.
UsePointer(p) ==
    /\ At(p, "stat") /\ Current(p)
    /\ proc' = [proc EXCEPT ![p].pc = "revised", ![p].rev = pointer]
    /\ UNCHANGED <<kind, content, stamp, pointer, revisions, minted, lock>>

\* A new revision: of an archive on disk only if the pointer is of no use, of
\* the others also if it is stale.  An archive is unpacked into it
\* (`download_archive`, `persist_archive`), and hashed if it is downloaded or
\* a hash is wanted.
Unpack(p) ==
    /\ At(p, "stat") /\ kind # "tree"
    /\ kind = "archive" => ~Current(p)
    /\ minted < MaxRevisions
    /\ minted' = minted + 1
    /\ revisions' = [revisions EXCEPT ![minted + 1].src = content]
    /\ proc' = [proc EXCEPT
            ![p].pc = "unpacked", ![p].rev.id = minted + 1,
            ![p].rev.hash = IF kind = "url" \/ proc[p].want # Missing THEN content ELSE Missing]
    /\ UNCHANGED <<kind, content, stamp, pointer, lock>>

\* Mutant: the modification time is taken when the pointer is written.
WritePointerLate(p) ==
    /\ At(p, "unpacked")
    /\ pointer' = [proc[p].rev EXCEPT !.info = stamp]
    /\ Goto(p, "revised")
    /\ UNCHANGED <<kind, content, stamp, revisions, minted, lock>>

\* The pointer is written: by the cached client, or by `archive_revision`.
WritePointer(p) ==
    /\ At(p, "unpacked")
    /\ pointer' = proc[p].rev
    /\ Goto(p, "revised")
    /\ UNCHANGED <<kind, content, stamp, revisions, minted, lock>>

\* `source_tree_revision`: nothing is unpacked.
NewTree(p) ==
    /\ At(p, "stat") /\ kind = "tree"
    /\ minted < MaxRevisions
    /\ minted' = minted + 1
    /\ pointer' = [id |-> minted + 1, info |-> proc[p].rev.info, hash |-> Missing]
    /\ proc' = [proc EXCEPT ![p].pc = "revised", ![p].rev = pointer']
    /\ UNCHANGED <<kind, content, stamp, revisions, lock>>

\* `satisfies`: the revision has the hash that is wanted.
Satisfies(p) == proc[p].want \in {Missing, proc[p].rev.hash}

\* What the revision has of what is asked for.
Cached(p) ==
    IF proc[p].op = "wheel" THEN Folder_(p).wheels[proc[p].tag] ELSE Folder_(p).metadata

\* A compatible wheel or metadata is in the cache.
Find(p) ==
    /\ At(p, "revised") /\ Satisfies(p) /\ Cached(p) # Missing
    /\ Return(p, Cached(p))
    /\ UNCHANGED <<kind, content, stamp, pointer, revisions, minted>>

\* Static metadata of an archive is read from its unpacked source.
StaticArchive(p) ==
    /\ At(p, "revised") /\ Satisfies(p)
    /\ kind # "tree" /\ proc[p].op = "metadata" /\ Folder_(p).src # Missing
    /\ Return(p, Folder_(p).src)
    /\ UNCHANGED <<kind, content, stamp, pointer, revisions, minted>>

\* The source is there, or is not needed in the cache.
SourcePresent(p) ==
    /\ At(p, "revised") /\ Satisfies(p) /\ Cached(p) = Missing
    /\ kind = "tree" \/ Folder_(p).src # Missing
    /\ Goto(p, "ready")
    /\ UNCHANGED <<kind, content, stamp, pointer, revisions, minted, lock>>

\* What ends a call that fails or whose process dies.
Exit(p) ==
    /\ proc' = [proc EXCEPT ![p] = NoCall]
    /\ lock' = IF lock = p THEN Nobody ELSE lock

\* Mutant: what is unpacked again is not compared with the revision.
HealUnchecked(p) ==
    /\ At(p, "revised") /\ Satisfies(p) /\ Cached(p) = Missing
    /\ kind # "tree" /\ Folder_(p).src = Missing
    /\ revisions' = [revisions EXCEPT ![proc[p].rev.id].src = content,
                                      ![proc[p].rev.id].healed = kind = "url"]
    /\ Goto(p, "ready") /\ UNCHANGED lock
    /\ UNCHANGED <<kind, content, stamp, pointer, minted>>

\* `heal_url_revision`, `heal_archive_revision`: the source is unpacked again,
\* and then its hash compared with the one the revision has, if any.  A URL
\* leaves a second pointer, in the revision itself.
Heal(p) ==
    /\ At(p, "revised") /\ Satisfies(p) /\ Cached(p) = Missing
    /\ kind # "tree" /\ Folder_(p).src = Missing
    /\ LET r  == proc[p].rev
           ok == r.hash \in {Missing, content}
       IN  /\ revisions' = [revisions EXCEPT ![r.id].src = content,
                                             ![r.id].healed = @ \/ (ok /\ kind = "url")]
           /\ IF ok THEN Goto(p, "ready") /\ UNCHANGED lock
                    ELSE Exit(p)
    /\ UNCHANGED <<kind, content, stamp, pointer, minted>>

\* The back end reads the source.
Build(p) ==
    /\ At(p, "ready")
    /\ proc' = [proc EXCEPT ![p].pc = "building",
                            ![p].built = IF kind = "tree" THEN content ELSE Folder_(p).src]
    /\ UNCHANGED <<kind, content, stamp, pointer, revisions, minted, lock>>

\* `build_distribution`: the wheel is moved into the revision.
MoveWheel(p) ==
    /\ At(p, "building")
    /\ revisions' = [revisions EXCEPT ![proc[p].rev.id].wheels[proc[p].tag] = proc[p].built]
    /\ Goto(p, "moved")
    /\ UNCHANGED <<kind, content, stamp, pointer, minted, lock>>

\* `build_metadata`: the back end can tell the metadata without the wheel.
PrepareMetadata(p) ==
    /\ At(p, "building") /\ proc[p].op = "metadata"
    /\ Goto(p, "moved")
    /\ UNCHANGED <<kind, content, stamp, pointer, revisions, minted, lock>>

\* The metadata is written last.
WriteMetadata(p) ==
    /\ At(p, "moved")
    /\ revisions' = [revisions EXCEPT ![proc[p].rev.id].metadata = proc[p].built]
    /\ Return(p, proc[p].built)
    /\ UNCHANGED <<kind, content, stamp, pointer, minted>>

\* The caller is done, the hashes do not match, a step fails or the process
\* dies.
End(p) ==
    /\ proc[p].pc # "idle"
    /\ Exit(p)
    /\ UNCHANGED <<kind, content, stamp, pointer, revisions, minted>>
-----------------------------------------------------------------------------
Step(p) ==
    \/ Begin(p) \/ Lock(p) \/ StaticTree(p) \/ Stat(p) \/ UsePointer(p) \/ Unpack(p)
    \/ WritePointer(p) \/ NewTree(p) \/ Find(p) \/ StaticArchive(p) \/ SourcePresent(p)
    \/ Heal(p) \/ Build(p) \/ MoveWheel(p) \/ PrepareMetadata(p) \/ WriteMetadata(p)
    \/ End(p)

Next == Edit(TRUE) \/ Edit(FALSE) \/ Prune(FALSE) \/ Prune(TRUE) \/ \E p \in Process : Step(p)

Spec == Init /\ [][Next]_vars
-----------------------------------------------------------------------------
\* What a call returns for a local source is not older than the last change to
\* it, before the call began, that its cache info shows (for an archive: the last
\* change): neither an edit between two steps nor a revision that a process left
\* half done makes it serve an older build.
ReturnsFresh ==
    \A p \in Process :
        At(p, "returned") /\ kind # "url" => proc[p].built >= proc[p].began

\* While the pointer has the present stamp of a local source, everything in its
\* revision is of the state stamped, or of a later one that the cache info does
\* not tell from it.  So for an archive the metadata a resolution used and the
\* wheels that are installed, for every interpreter, are of one state ("entries
\* have to be fresher than the revision itself").
RevisionUniform ==
    (kind # "url" /\ pointer.id # Missing /\ pointer.info = stamp) =>
        LET f == revisions[pointer.id]
        IN  {f.src, f.metadata} \cup {f.wheels[t] : t \in Tag} \subseteq {Missing} \cup stamp .. content

\* "The returned wheel is guaranteed to come from a distribution with a matching
\* hash, and no build processes will be executed for distributions with
\* mismatched hashes" (`build_wheel`).
HashGuaranteed ==
    \A p \in Process :
        proc[p].want # Missing /\ proc[p].pc \in {"building", "moved", "returned"}
            => proc[p].built = proc[p].want

\* So it is for archives on disk: a revision that is healed with another
\* archive is never looked at again.
HashGuaranteedOnDisk == kind = "archive" => HashGuaranteed
=============================================================================
