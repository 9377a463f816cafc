# A TLA+ development of uv

uv resolves Python requirements, downloads and builds what they need, keeps
everything in a cache that processes share, and installs the result. This
directory models the parts of uv in which the order of steps decides whether
the result is right: the concurrent map behind every shared lookup, the protocol
between the solver and its fetcher, the HTTP cache that processes share without
a lock, the store of unzipped wheels and the locks on it, the builds of source
distributions and the builds those need in turn, the splitting of a universal
resolution into forks; and the versions and ranges all of it compares.

Every definition is translated from the source under `src/crates`; the `map` of
`PROJECT.json` gives the lines. Tests and comments were used to find out what
the code is meant to do, never in its place.

## 1. Inventory

| Component (crate) | State | Operations | Talks to | What is hard | What makes it correct |
|---|---|---|---|---|---|
| `OnceMap` (uv-once-map) | a concurrent map of `Waiting` and `Filled` entries | `register`, `register_or_wait`, `wait`, `wait_blocking`, `done`, `get`, `remove` | resolver, preparer, lookahead, source trees, git, workspace | `done` between the look at the map and the subscription; cancelled waiters | a job runs once; no wakeup is lost; it is a memo table |
| Resolver, solver and fetcher (uv-resolver) | index, request channel, partial solution, pre-visited ranges | visit, pre-visit, pick, choose, prefetch, wait; receive, fetch, respond, abort | `OnceMap`, build dispatch, registry client | a thread and a stream of futures; a bounded channel; errors in flight | nothing fetched twice or waited for in vain; it returns |
| Build dispatch (uv-dispatch, uv-build-frontend) | build stack, default resolution, environments to use again; shares the index and the map in flight | resolve, install, set up, build | resolver, preparer, distribution database | nested builds wait for keys, locks and a mutex that outer ones hold | no cycle of waits; a back end has all its requirements |
| Universal resolution: forks (uv-resolver) | stack of `ForkState`s, with markers, included and excluded items | split by dependency markers, by conflict sets, by platform, by Python version | PubGrub, lock file | overlapping conflict sets; split order; shortcuts | the forks partition the space; no dependency is lost |
| HTTP cache client (uv-client) | an entry per URL: policy and payload in one file | read, decide, revalidate, refresh, replace, heal, retry | cache directory, middleware, registry client | processes on one file without a lock; clocks; two layers of retries | what is served is recent; policy and payload match; calls end |
| Cache directory (uv-cache) | buckets, archives, links, `--refresh` timestamp | persist, link, freshness, clean, prune, remove | every reader and writer of the cache | crash between move and link; prune while others write | nothing that is linked disappears |
| File locks (uv-fs) | advisory locks, temporary files | acquire, release, write atomically | cache, git, tools, environments | processes; a crash while a lock is held; the lock file is itself removed | mutual exclusion, whole files |
| Distribution database, source builds (uv-distribution) | cache shards, revisions, archives | get or build, unpack, metadata | cache, locks, dispatch | an edit between two steps; a revision half done or healed | one build per shard; what is returned is of the source, and of the wanted hash |
| Preparer, planner, installer (uv-installer) | downloads in flight; a plan | plan, prepare, install | `OnceMap`, distribution database | nested builds share the map | a distribution is prepared once |
| Wheel installation (uv-install-wheel) | site-packages | link, write RECORD, uninstall | installer | a crash half way | RECORD describes what is there |
| Lookahead, source trees (uv-requirements) | shared index | register, build, done | `OnceMap`, distribution database | an early return between `register` and `done` | every key is answered |
| Authentication (uv-auth) | credential cache | attempts of the middleware | keyring, requests | concurrent requests for one realm | attempts end; one keyring call per service |
| Git (uv-git) | checkouts, database, resolved references | fetch, resolve, checkout | file locks, `OnceMap` | processes on one checkout | a checkout is whole |
| Project commands, tools (uv) | project file, lock file, environments | add, remove, sync, lock, tool install | all of the above | rollback after a failure in `uv add` | a failure leaves the old state |
| Versions and specifiers (uv-pep440) | a version, packed into an integer or not | set parts, compare, hash, `contains`, to range, canonicalise | resolver, planner, markers | field limits; sentinels; three readings of one specifier | the order of PEP 440; all readings agree |
| Lock file, PubGrub, candidate selection, markers, workspace discovery, Python discovery, environments, publishing, build backend, settings | | | | sequential, pure or I/O | |

`PROJECT.json` lists each of them with its status, and under `hazards` the
places where a test would hardly reach what can go wrong.

## 2. Plan

1. `OnceMap` and `Memo`: the basis of the rest. *Done; checked and proved.*
2. `ResolverFetch`: solver, fetcher, channel, shared index, nested builds.
   *Done; checked; its invariants proved.*
3. `CachedClient`: the cache entry under several processes. *Done; checked; its
   invariants proved.*
4. `ResolverForks`: splitting. *Done; checked; `TypeOK`, `Disjoint`, `Covered` and
   `ConflictsCurrent` proved, and `NothingLost` where no extra is looked up under
   the name of one that conflicts, and `ConflictFree` and `ExcludedGone` where the
   conflict sets have no item in common (section 6).*
5. `LockedFile` and `WheelStore`: the lock on the cache, archives, links and
   pointers, by processes that may die between two steps. *Done; checked; their
   invariants proved, but for the origins of wheels for which they fail (section 6).*
6. `SourceBuild`: revisions of one source. *Done; checked; its invariants proved.*
7. `BuildTree`: jobs, locks and the mutex of nested builds. *Done; checked; its
   invariants proved.*
8. `Versions` and `VersionSpecifiers`: pure definitions against a reference.
   *Done; checked; order, hashes and ranges proved.*
9. Left: lookahead and source trees (the early return in `lookahead.rs`), forks
   with explicit indexes (`unavailable_packages` is keyed by name), the
   middleware of uv-auth, git checkouts, `uv add` with its rollback.

## 3. The modules

| Module | Models | Instance | Theorems |
|---|---|---|---|
| `Memo` | what `OnceMap` promises | | |
| `OnceMap` | `crates/uv-once-map/src/lib.rs` | `MCOnceMap` | `OnceMapProofs` |
| `ResolverFetch` | `uv-resolver/src/resolver/{mod,provider,batch_prefetch,index}.rs`, `uv-dispatch/src/lib.rs` | `MCResolverFetch` | `ResolverFetchProofs` |
| `CachedClient` | `uv-client/src/{cached_client,retry}.rs`, `uv-client/src/httpcache`, parts of `uv-cache`, `registry_client.rs` | `MCCachedClient` | `CachedClientProofs` |
| `ResolverForks` | `uv-resolver/src/resolver/{mod,environment}.rs`, `python_requirement.rs` | `MCResolverForks` | `ResolverForksProofs` |
| `LockedFile` | `uv-fs/src/locked_file.rs` | in `WheelStore` | `WheelStoreProofs` |
| `WheelStore` | `uv-cache/src/{lib,removal}.rs`, `uv/src/commands/cache_{clean,prune}.rs`, parts of `uv-distribution/src/distribution_database.rs` and `uv-installer/src/plan.rs` | `MCWheelStore` | `WheelStoreProofs` |
| `SourceBuild` | `uv-distribution/src/source/mod.rs` | `MCSourceBuild` | `SourceBuildProofs` |
| `BuildTree` | `uv-installer/src/preparer.rs`, `uv-dispatch/src/lib.rs`, `uv-build-frontend/src/lib.rs` | `MCBuildTree` | `BuildTreeProofs` |
| `Versions` | `uv-pep440/src/version.rs` | `MCVersions` | `VersionsProofs` |
| `VersionSpecifiers` | `uv-pep440/src/{version_specifier,version_ranges}.rs` | `MCVersions` | `VersionsProofs` |

`WheelStore` extends `LockedFile`, and `VersionSpecifiers` extends `Versions`.
`ResolverFetch` and `BuildTree` take the steps of a `OnceMap` as indivisible,
which `OnceMap`'s refinement of `Memo` justifies; `BuildTree` takes a source
build under its shard lock as one step, which `SourceBuild` has in detail.

A definition whose comment begins "Mutant:" is a plausible mistake in the
definition that follows it; `PROJECT.json` names the property it breaks. It is
not part of any specification.

### OnceMap and Memo

`items` is the map, `pc` and `key` say where each task is. Each operation on the
concurrent map (an entry look-up, an insert) and each call on a `Notify` is one
step; between two of them other tasks run. So `register_or_wait` is `Register`
(the entry was vacant), `Lookup` (it was filled), or `CloneNotify`, `Subscribe`,
`Recheck` and `Wake`, and `done` is an insert followed by `notify_waiters`. A
waiter may be dropped at its await (`Cancel`). `wait` and `wait_blocking` are
`register_or_wait` as far as registered keys go. For an absent key they leave an
entry that nobody will fill and return `UnregisteredTask`, an internal error;
`ResolverFetch` has that step and shows that the resolver never comes to it. `remove`
itself checks nothing. Its two callers have a contract, that no task uses the key at
the time ("There are no parallel workspace operations", `workspace.rs:145`; between
two resolutions in `add.rs:1194`), and the model has it as a guard: what `remove`
would do to a waiter is not asked.

`Memo` is the abstract specification: a table in which a key is absent, claimed
by a task or filled, with `register`, `wait` and `done` indivisible. The
refinement mapping takes a task between the insert and `notify_waiters` as being
past `done`, and a task between `CloneNotify` and `Wake` as waiting.

### ResolverFetch

A resolution has a solver thread (`pc`, `focus`, `pins`, ...) and a fetcher (the
`queue` it receives from and the futures `inflight`). All share `index`, in which
`register`, `wait` and `done` are indivisible: the refinement above is what
justifies it. Building the metadata of a source distribution starts a nested
resolution named after it, whose result the future of the outer one awaits.
`Abort` is the early return of `fetch`: the receiver is dropped, and the futures
in flight with it, and the nested resolutions they await.

`pre_visit` sends a prefetch again for a package whose range has changed since;
a range changes with the selected distributions that mention the package, so
selecting or giving up one forgets the prefetches of what it depends on
(`Reranged`). Left out: packages with an explicit index, which have keys of their
own in a second map, and distributions from a URL, whose metadata is asked for when
they are visited (`resolver/mod.rs:1025`) and waited for when they are chosen
(`resolver/mod.rs:1177`).

PubGrub is not modelled. Which package is picked, which version is chosen and
which selected versions a conflict undoes are nondeterministic; a version that
was given up is not tried again, since PubGrub's incompatibilities only grow.

### CachedClient

One cache entry, several uv processes, a server that publishes versions, a
proxy that may serve a response that is `CdnAge` old, and a clock. A process
opens (its options and its `--refresh` cutoff are fixed), then makes calls. A
call stats and reads the file, decides with RFC 9111 (`BeforeRequest`), sends,
receives, runs the callback, writes, and decodes; other processes may act
between any two steps, because the entry is not locked outside Windows. Requests,
callbacks and writes may fail; the retry loop counts them as the code does.

Time is in seconds, as in the code's HTTP dates. Assumptions: servers send a
`Date`; the clocks of processes and server agree; the server publishes at most
one version per second, so a date identifies a version as far as a date can;
uv's own requests carry no `max-age`, `min-fresh` or `max-stale`.

### ResolverForks

The space to be solved is the environments (`Env`, a Python version and a
platform) times the choices of conflicting items. A fork state has the
environments its `markers` admit, the items it includes and excludes, its Python
interval and the dependencies it has gathered. `Visit` enters
`ForkedDependencies::fork`, whose loops are steps: `ForkName` per package name,
`ForkDep` per dependency, `SplitFork` per fork of a `Forker`, `ForkSet` per
conflict set; `Unforked` and `Forked` return from it. `ForkVersion` and
`ForkPython` split a state by platform and by a version's Python requirement.

Markers are sets of environments, so that simplification and the decision
diagrams of uv-pep508 play no part. A package has one version: what another
version needs may as well be asked of another package. The proxies PubGrub is
given for markers, extras and groups are left out, and so are the include and
exclude rules with which the conflict markers of a lock file may start its forks
(`environment.rs:372`): an initial fork is a set of environments. Which fork or name comes next
is nondeterministic; the code follows the fork strategy and a sorted map.

### LockedFile and WheelStore

An advisory lock belongs to the file a process has open. `path` is the file at
the path of `.lock`, `file` the one each process has open, `held` its mode. A
command opens the file and locks it (`Create`, `Acquire`), waits or gives up
(`Contend`); `Leave` is the end of a process, a crash and a time-out alike, as
the operating system closes the file.

`WheelStore` adds what is done under the lock. A wheel's archive is moved into
the store under a new id (`Persist`), then linked (`CreateLink`), then pointed to
(`WritePointer`); outside Windows no lock on the wheel is held meanwhile. The
planner and the distribution database look wheels up by the pointer (built ones
by the link), with or without a look whether the archive exists, as the code
does for each `Kind`: a wheel of a remote index, of a local one (a `file` URL goes
through `load_wheel`, which does not look), of a URL or a path, and one built from a
source distribution of an index, from another source or from an editable tree. A
wheel that the server confirms (304) has its pointer written again, whatever it has
become since (`Revalidate`, `RewritePointer`). Where locks are not supported, `init`
goes on without one (`Unlocked`). `init_no_wait` is called by tests and benchmarks
only. `prune` scans the links and removes the archives none of
them names; `remove` scans, removes the package's entries, and then the archives
no link leads to any more. It finds the entries by the name of the package, and
those built from a source that is not of an index only if their metadata says so
(`Unmatched`); it does not look at editable trees (`Evicted`). `clear` removes everything entry by entry, drops the
lock and removes the lock file. `--force` goes on without the lock. A process
may die at any step. Which directory entry is removed next is nondeterministic.

Left out: link files and the locks on wheels of Windows, the copy of an archive
into site-packages, and the other buckets, which `prune` and `clear` remove
without relation to archives.

### SourceBuild

One source, whose present state is a number that `Edit` raises. `stamp` is the last
edit that its `CacheInfo` shows: for an archive, whose modification time is compared,
the last one; for a tree, of which `from_directory` looks at `pyproject.toml`,
`setup.py`, `setup.cfg` and `src`, or at its `cache-keys`, an edit may leave the
stamp alone (`Edit(FALSE)`), as `docs/concepts/cache.md` says it may. The cache shard
has a pointer (revision, stamp, hash) and a directory per revision
(source, wheels per interpreter, metadata), which hold the numbers they were made
from. A call (`Begin` to `End`) locks the shard, stats the source, uses the
pointer or makes a new revision, returns what is cached, heals a source that is
missing, builds, and writes the wheel and then the metadata. `Edit` may come
between any two steps, `Prune` whenever no call is in progress, and a process
may die anywhere (`End`).

Assumptions: the modification time of an archive identifies a state of it, and so
does a hash; the cache info of a tree identifies the last edit that it shows. A server decides whether a pointer is fresh (`UsePointer` or
`Unpack`, either may happen); what the cached client does between is in
`CachedClient`. Git sources, whose commit is their revision, and build settings
other than the interpreter are left out.

### BuildTree

A process is a tree of nodes: the command, and jobs for the metadata or the wheel
of a distribution, in maps (`jobs`) that all builds of the process share. A node
resolves what it needs (waits for metadata jobs), plans, prepares (waits for wheel
jobs) and runs the back end, which may name more requirements (`Installed`). A
job holds the lock of its source distribution from the look at the cache to its
end; the first build with the default back end holds the mutex of the default
resolution while it resolves. An error ends a node and drops all that it was
waiting for, whose keys stay registered (`Stop`). Processes share the locks and
the cache. A preparation sees a failed job at once; the solver of a resolution may
overlook it while it waits for another key (`Noticed`). `CommandsReturn` therefore
makes one exception, for an error that a resolution never looks at. The instance
of `BuildTree.cfg` does not need it; `BuildAbandoned.cfg` does, where `a` waits
for a job that the failed build of `b` has dropped (`CyclesReturn`, which has no
exception, fails there).

Left out: builds without isolation and those of uv's own back end (`direct_build`),
which resolve and install nothing; `LookaheadResolver`, which registers the metadata
of requirements with a URL before a resolution and may return without a `done`; and
what the preparer refuses by itself (`--no-build`, `--no-binary`, a wheel of another
name or version), which ends a command as any failure of a job does.

Resolutions choose nothing here: `graph` gives the resolved requirements. Which
distributions may fail, and when, is nondeterministic; so is a crash.

### Versions and VersionSpecifiers

A state is a version that the setters change step by step, packed in `version`,
with what was set beside it in `parts`. The integer is built with arithmetic, as
the code does with shifts and masks; field widths are parameters. Local versions
are ranks, since only their order matters. `VersionSpecifiers` has `contains` by
its operators, the conversion to ranges, the release-only ranges for Python
versions, and the replacement of sentinels by their successors. `Ranges`, of the
crate version-ranges, is a set of intervals. `parse_fast`, which packs a version of
up to four small numbers directly, is left out with the rest of the parser, and so
are the ranges of a star after a pre- or post-release, which the parser does not
accept.

## 4. What is checked

TLC checks each instance in full. The properties are stated, with the code they
are about, in the module of the component.

| Run | Instance | Shows |
|---|---|---|
| `once_map` | 3 tasks, 2 keys, 2 values | `RunOnce`, `NoLostWakeup`, `NoPanic`, `WaitersReturn`, and `ImplementsMemo`: the map refines `Memo` |
| `fetch` | two builds at a time that need one package, which is a URL in some fork; one of their answers is bad; channel of 1 | `JobsOwned`, `FetchedOnce`, `NoUnregisteredTask`, `ResolveReturns`: neither the channel nor the index makes it hang |
| `cache_race` | 2 processes, with and without `--refresh`; 2 versions, 3 instants | `RefreshSeesCurrent`, `PolicyMatchesData` |
| `cache_kinds` | 1 process at a time, 6 options, 6 kinds of response, a proxy; 4 instants | `ServesRecent` |
| `cache_retry` | 1 process, budget of 2, any request, callback or write may fail | `RetriesBounded`, `CallsReturn` |
| `fork_conflicts` | 19 lists of conflict sets over 4 items, with and without a common item, 2 initial forks | `Disjoint`, `Covered`, `NothingLost`, `ExcludedGone`, `ConflictFree` |
| `fork_markers` | 3 Python versions, 1 of them unsupported, 2 platforms | `NothingLost`, `ConflictsCurrent`, `SolveEnds` |
| `wheel_store` | 2 processes, a wheel of an index and one built from another source, 2 archives, every command, `--force`, locks that are not supported | `InstallsWhole`, `LinksResolve`, `PruneCollects`, `RemoveForgets` |
| `source_build` | 2 processes, 2 interpreters, 2 states of a source of each kind, 2 revisions | `ReturnsFresh`, `RevisionUniform`, `HashGuaranteedOnDisk` |
| `build_tree` | 2 processes, 3 source distributions and a wheel, 4 graphs, one of them with a cycle; the wheel may fail | `BuildsOnce`, `EnvironmentReady`, `CommandsReturn` |
| `versions` | fields of 2 bits and 1 bit; 6 releases, parts on both sides of each limit, sentinels | `OrderAgrees`, `RangeAgrees`, `ReleaseAgrees` |
| `source_heal` | 1 process, 2 states of an archive at a URL | violates `HashGuaranteed` |

**Bounds.** Three tasks are what `OnceMap` needs for one to run a job while one
subscribes and one sleeps; a second key lets a notification reach the wrong
waiters. A channel of one is full whenever anything is queued, where the code's
300 seldom is. Two processes make every race there is on the entry,
between what one has read and what another has written or removed since; `MaxTime` exceeds the lifetime of the
responses, so entries go stale, and two versions make a difference between old
and new. Four items give conflict sets that overlap in one or in two items and
all pairs of a triple. The Python version below requires-python makes some
parts of a split unsupported.

Two lock files are what it takes for a process to hold a lock on one that is no
longer at the path: `StoreClear.cfg` has them. The properties of `wheel_store` are
about the first one, and its instance has no other. Two archives let a link and a pointer
disagree, and two wheels let `remove` take one and leave the other. One
edit comes before, between or after any steps of a call, and with two interpreters
a revision has wheels of two builds, which the edit may come between. In `BuildTree`, two
distributions share the default back end, a third is required by it or by
neither, and the second process builds one that the first needs too. The widths
of `Versions` are scaled down (16, 8 and 20 bits in the code) so that numbers on
both sides of a limit are small; the longest release does not fit by its length,
another not by its first segment.

A run without a deadlock check is one whose bound on archives or revisions stops it
(`wheel_store`, `source_build`), or in which a command that has returned takes no
further step (`fetch`): there `ResolveReturns` finds any earlier stop.

**Fairness.** `WF(Step(t))` in `OnceMap`: the executor polls a task that was
woken, and a job ends with `done`, as the code obliges its callers. `WF(Solve(r))`
and `WF(Serve(r))` in `ResolverFetch`: the operating system runs solver threads,
and the executor polls a fetcher that has work; a failing fetch is never forced.
`WF(Act(c))` in `CachedClient`: a call in progress goes on; requests time out.
`WF(Step)` in `ResolverForks`: the solver thread runs. `WF(Step(p))` in
`BuildTree`: the executor polls a future that can go on and a back end ends; a
failure or a crash is never forced, and neither is a resolution to see an error
while it waits for another key. Nothing is assumed fair
that a user or a server decides.

## 5. What the violations show

`source_heal`: `heal_url_revision` (`source/mod.rs:2734`) moves the source it has
downloaded into the revision and then compares hashes. If they differ the call
fails and the source stays, and the next call, which finds it, builds it under
the hash the pointer records. `build_wheel` says "The returned wheel is
guaranteed to come from a distribution with a matching hash"
(`distribution_database.rs:431`). Archives on disk are not affected
(`HashGuaranteedOnDisk`): a changed archive has another modification time, so the
revision is not looked at again.

Further configurations each state one sentence of the code's documentation, and
TLC finds a behaviour of the model that contradicts it.

| Configuration | Property | What happens |
|---|---|---|
| `FetchAbandoned.cfg` (`MCResolverFetch`) | `JobsAnswered` | `fetch` returns at the first failed response (`resolver/mod.rs:2460`). Keys registered for queued requests are never answered, and the nested resolutions of a command share the index: another one waits for ever if its solver does not come to the error first. `OnceMap::register` says "call [`OnceMap::done`] eventually or other tasks will hang". |
| `BuildCycle.cfg` (`MCBuildTree`) | `CyclesReturn` | `a` and `b` are both requested, and each requires the other to be built: each waits for the other's key in `in_flight`, before the build stack is of use. `setup_build` says "Push the current distribution onto the build stack, to prevent cyclic dependencies", and the test `cyclic_build_dependency` expects an error. |
| `CacheBudget.cfg` (`MCCachedClient`) | `RetriesCounted` | A revalidation that is answered with an error status reports no retries (`cached_client.rs:615`), although the middleware made some, and so a call makes more than its budget (`RetriesBounded` has what the code keeps to): "If the middleware performed any retries, consider them in our budget" (`retry.rs:95`). |
| `ForkExtra.cfg` (`MCResolverForks`) | `NothingLost` | `is_requirement_applicable` (`resolver/mod.rs:2296`) looks up the name of the extra that has the dependency with the package depended on. A dependency of `p[x]` on `q` is lost in the forks that leave out `q[x]`. |
| `StorePath.cfg` (`MCWheelStore`) | `UnzippedExists` | `load_wheel`, through which wheels of a local index go too, and the planner for wheels from a URL or a path, take the pointer's archive without a look. Two processes may leave link and pointer naming different archives, and `prune` removes the one that is not linked: "If the file is already unzipped, and the cache is up-to-date, return it" (`distribution_database.rs:1108`). |
| `StoreRemove.cfg` (`MCWheelStore`) | `RemoveForgetsAll` | `CacheBucket::remove` (`uv-cache/src/lib.rs:1262`) does not look at the shards of editable trees, and at those of other sources only as far as their metadata has the name: "`uv cache clean ruff` removes all cache entries for the `ruff` package" (`docs/concepts/cache.md:140`). |
| `ForkOverlap.cfg` (`MCResolverForks`) | `ExcludedAlwaysGone` | With conflict sets that overlap, a fork that comes back alone leaves no record of what it left out (`resolver/mod.rs:688`), and a later split leaves out an item whose dependencies the state has. `Fork::filter` says "This removes all dependencies matching the given conflicting groups" (`resolver/mod.rs:4300`), which is so of the fork and not of the state it is split from (section 6). |
| `StoreClear.cfg` (`MCWheelStore`) | `LockPreventsCleaning` | `clear` drops its lock and then removes the lock file. A process that has opened the file in between locks a file that is not at the path any more, and the next cleaner locks another: "it holds a read (shared) lock that prevents cache cleaning" (`uv-cache/src/lib.rs:162`). |
| `VersionPost.cfg` (`MCVersions`) | `RangeSame` | `>1.0a1` has 1.0.post0 in its range, and any other post-release of 1.0 that is above 1.0a1 and not one of 1.0a1 itself, and `contains` rejects them (`Differs` exempts these and no others), so the resolver may choose what a later check refuses: "The exclusive ordered comparison >V MUST NOT allow a post-release of the given version unless V itself is a post release" (`version_ranges.rs:246`). |

Other disagreements between code and comments; the models follow the code.

* An `Expires` header that is no date is parsed to `None`, where the comment on
  the field (`httpcache/mod.rs:1185`) says it becomes `Some(0)`, that is, expired.
* An index's `cache-control` setting takes the place of the freshness check
  (`registry_client.rs:530`), so `--refresh` does not revalidate its pages, where
  `docs/concepts/cache.md:29` says that it does for all dependencies.
* `with_env` says it returns `None` for a fork whose markers no supported Python
  version satisfies (`resolver/mod.rs:3481`), and always returns the fork.
* `heal_url_revision` writes its pointer inside the revision's directory, which
  makes `prune` (`source/mod.rs:3308`) take it for a shard: the source of a
  healed revision is removed although the revision is current.

One behaviour is a consequence of deciding freshness from the time an entry was
written: a response that was requested before a `--refresh` began and written
after it counts as fresh. `RefreshSeesCurrent` is stated so as to allow it.

## 6. What is proved

`OnceMapProofs`, for every set of tasks, keys and values, from
`OnceMapAssumption` (`NoKey` is no key and `NoValue` no value):

* `TypeCorrect`, `JobsRunOnce`, `WakeupsArrive`, `PanicFree`: `TypeOK`, `RunOnce`,
  `NoLostWakeup` and `NoPanic` are invariants.
* `Refinement`: every behaviour of `OnceMap` is one of `Memo` under the mapping.

None of these invariants is inductive alone. `IInv` adds what a task's position
says of its key: a task in a call has a key (`KeyInUse`) whose entry is present
(`EntryPresent`); a woken sleeper's entry is filled (`NotifiedHasValue`), and so
is the entry of a task about to notify (`NotifierStored`); and a waiting entry
has a task running its job (`WaitingHasRunner`). The second look at the map is
what preserves `NoLostWakeup`: a task that goes to sleep has seen a waiting
entry after it subscribed, so the `notify_waiters` that follows the insert is
still to come. The simulation of `Memo` uses `RunOnce` and `NotifiedHasValue`.

`ResolverForksProofs`, for any environments, packages, dependencies, markers and lists of conflict sets, from
`ForksAssumption`: the constants have their types, the initial forks do not
overlap, and every non-empty set of environments has a lowest and a highest
Python version (there are finitely many).

* `ForksTypeCorrect`: `TypeOK` is an invariant.
* `ForksDisjoint`: so is `Disjoint`. The inductive invariant `DInv` says besides
  that the state being solved has no copy among those waiting or solved
  (`CurrentApart`), and that the forks of a call of `fork`, those a `Forker` has
  yet to look at included, lie inside that state, apart from each other
  (`ForksApart`). Each way of splitting gives parts that lie inside what is split
  and are apart: markers and their complements, one item in and the others out,
  Python versions below v and from v on.
* `ForksCover`: so is `Covered`. `CInv` adds that the supported environments of a
  state are within its Python requirement (`PythonOK`), so that a part dropped as
  outside it held none, and that only conflicting items are left out
  (`ExcludedConflict`). For a conflict set, an allowed choice holds none of its
  items and is in the part without any, or holds one and is in the part of that
  one; where the set is skipped as decided, what is left out is not in the
  choice, because an allowed choice has the package of each of its extras.

Together, the forks partition the space: the lock file has exactly one
resolution for each environment and choice.

* `ForkItemsCurrent`: `ConflictsCurrent` is an invariant: the items a `Fork` keeps
  apart are those of its dependencies, although `Retain` takes an item away with
  the first dependency on it that leaves. `VInv` says why no dependency on that
  item stays: the forks made by markers have no environment in common
  (`MarkersApart`); what a `Forker` has left of its marker is the dependency's
  marker, as far as the forks it has yet to look at go (`MarkerLeft`); so a
  dependency whose name has several markers is in a fork only if all the fork's
  environments need it (`ForkOK`), and dependencies on one item with one marker
  (`OneMarker`) leave together. A conflict set takes all dependencies of a package
  on an item or none.
* `DependenciesKept`: so is `NothingLost`, if `TwinsFree`: where an extra with
  dependencies is looked up under the package depended on, neither the extra of
  that name nor the package is in a conflict set. Without the condition the
  invariant is false, as `ForkExtra.cfg` shows; the instances of section 4 satisfy
  it. `NInv` follows a dependency from `Relevant` through the names not yet seen
  (`NamesSeen`) into each fork that stands for an environment and a choice that
  need it (`ForksHave`), and then into the state (`StatesHave`). When `fork` comes
  back with one fork, the state keeps its own environment: that the one fork stands
  for all of it follows from `Covered` and `CurrentApart`.

* `ConflictsNeverMeet` and `ExcludedNeverKept`: wherever `SetsApart` holds of the
  declared conflict sets, so do `ConflictFree` and `ExcludedGone`. The condition is
  that no item is in two of the sets, and that no extra in one of them belongs to
  a package in one of them. `XInv` says that a state or a fork has decided on all
  items of a set or on none (`Decided`); that the items of its dependencies are
  among those it includes, for every set in a state (`Made`) and for the sets looked
  at so far in a fork (`Chosen`); and that the forks have the items of the state
  until a set splits one of them, after which there are several to the end
  (`OneOrSplit`). The last part is what `Unforked` needs, which keeps the state's
  own items: a fork that comes back alone has left nothing out that the state has
  not. The central lemma is `SetChosen`, on what `fork` makes of one fork for one
  set: if the set counts as decided (`Dominated`), the fork keeps its items, and
  otherwise a part leaves all of the set's items out and, for each, a part includes
  it.

The condition is part of the two properties, and lists of sets with and without
common items are among those of `fork_conflicts`. Without it both are false.
`Unforked` (`resolver/mod.rs:688`) keeps the state's environment, so what
the one fork has left out is not recorded, and a later package can bring it back.
For `ConflictFree` take the conflict sets `{p, q}`, `{p[x], q[y], q:h}` and
`{q:g, p[x]}`, where `q` needs `q:g` and `q:g` needs `p[x]`: TLC finds a state that
has `p[x]` and `q:g` among its dependencies, a fork that includes an extra whose
package it leaves out, so no allowed choice belongs to it. For `ExcludedGone`
(`ForkOverlap.cfg`) three
pairs are enough, without packages: with `{h, y}`, `{h, j}`, `{i, j}`, a state that
includes `h` takes a package that needs `h` and `i` unforked, leaving `j` out
unrecorded; a package that needs `i` alone then splits the state by the third set,
and the part with neither leaves out `i`, which the state has.

`ResolverFetchProofs`, for any packages, distributions, requirements and nested
resolutions, and a channel of any capacity above zero, from `FetchAssumption` (the
constants have their types; packages and distributions differ):
`FetchTypeCorrect`, `FetchesAreUnique`, `WaitsAreOwned` and `WaitsAreRegistered`
say that `TypeOK`, `FetchedOnce`, `JobsOwned` and `NoUnregisteredTask` are
invariants. The inductive invariant (`FetchInductive`) adds, for each resolution,
that its solver decides only on what it has registered, with nothing left to visit
(`SolverOK`), that what the partial solution mentions was visited or is on the
agenda (`Announced`), that a fetcher that does not run has no work (`LifeOK`), and
that whatever is sent, queued or in flight is registered (`RequestsOK`). The last
one carries `FetchedOnce`: a key that is absent from the index is fetched nowhere,
so registering it makes the one place where it is; sending and receiving move
that place, and only an answer, or the end of a resolution, takes it away.

`CachedClientProofs`, for any number of processes, versions and instants, from
`CacheAssumption` (types) and `LifetimeAssumption` (among the lifetimes of
responses there is a greatest; a `max-age` is a machine integer):
`PolicyDescribesPayload`, `RetriesAreBounded`, `RefreshIsCurrent` and
`CallsServeRecent` say that `PolicyMatchesData`, `RetriesBounded`,
`RefreshSeesCurrent` and `ServesRecent` are invariants. The inductive invariant
(`CacheInductive`) speaks of dates: a payload was current at the date of the policy
beside it, or later (`Described`), in the file and in every process that has read
it; the age that is computed is never less than the time since that date
(`Known`); a response is of a version that was current when the call began, up to
the age a proxy adds (`Answered`). A process asks with the validators of the entry
it has read (`Asked`), not with those of the file by now, so a 304 confirms
what the process holds whatever others have written since.

`RetriesBounded` counts the retries a call makes, not those it has counted. A second
invariant (`RInv`) relates the two: a retry that is counted ends an attempt, in
which one revalidation made at most `MaxRetries` that were not (`Paid`); the attempt
under way has made those of its revalidation, once it is answered, and those of its
last reply (`Spent`). At most `MaxRetries` are counted before the last attempt, which
gives `MaxRetries * (MaxRetries + 3)`.

`WheelStoreProofs`, for any processes, wheels, archives and lock files, from
`StoreAssumption` and `MaxFilesAssumption` (types): `StoreTypeCorrect`,
`InstalledIsThere`, `LinksAlwaysResolve`, `PruneLeavesLinked` and
`RemoveLeavesNothing` say that `TypeOK`, `InstallsWhole`, `LinksResolve`,
`PruneCollects` and `RemoveForgets` are invariants. `InstallsWhole` is about wheels of
remote indexes and built ones, as long as the lock file is the first, locks are
supported and nothing was forced; `RemoveForgets` about all but those built from a
source that is not of an index. What the code does with the others is in the model,
and breaks the unrestricted properties (`StorePath.cfg`, `StoreRemove.cfg`). The inductive invariant (`StoreInductive`) has two halves. Of the lock:
a process that holds it is in and has its file open (`Locked`, `Opened`), locks on
one file are compatible (`Compatible`), and before `clear` there is one file
(`OneFile`). Of the store: ids of archives are new (`Counted`); an archive that is
about to be linked is linked nowhere and in one hand (`Unlinked`, `LinkedOnce`), so
that a `remove` of one wheel never takes what another is linked to; what a process
is about to link or install is there (`InHand`, with the restriction of `InstallsWhole`); and what a cleaner has scanned is
still so (`Searched`), since nobody else is in.

`SourceBuildProofs`, for any processes, interpreters, edits and revisions, from
`SourceAssumption` (types, and at least one interpreter): `NeverServesOlder`,
`CurrentRevisionIsAsStamped` and `HashOfArchiveKept` say that `ReturnsFresh`,
`RevisionUniform` and `HashGuaranteedOnDisk` are invariants, `SourceTypeCorrect`
that the state is well typed. The inductive invariant (`SourceInductive`): the stamp
of the source is noted before it is unpacked or built, so a revision has nothing
older than what its pointer notes (`Holds`); a revision that differs from its hash
has a pointer that no call can find current any more (`Current_`, `Consistent`);
and the call that has the shard's lock has in hand what the pointer says
(`Locked`, `Noted`, `Unpacked`, `Building`). `HashGuaranteed`, for sources at a
URL too, is what `source_heal` refutes: there the server may confirm the pointer of
a healed revision.

`BuildTreeProofs`, for any processes and any graphs of requirements, cycles
included, from `BuildAssumption` (types; what the default back end needs does not
depend on who uses it) and `NoneAssumption` (the mark for "nobody" is no job):
`BuildsAreExclusive` and `BackEndsHaveRequirements` say that `BuildsOnce` and
`EnvironmentReady` are invariants. The inductive invariant (`BuildInductive`): a job
at work holds the lock of its source distribution (`Holding`) and what it makes is
not in the cache (`Unmade`); a wheel that was answered with is in the cache
(`Answered`); a job that installs has or awaits each wheel it needs (`Awaited`); and
an environment kept for another use is complete (`ArenaReady`).

`VersionsProofs`, for any widths of the fields and any releases, epochs, suffixes
and local versions below `Top`, from `VersionAssumption` (types; a release has a
segment; no number that is parsed reaches `u64::MAX`).

* `VersionsOrder`: `OrderAgrees` is an invariant. The inductive invariant
  `VersionOK` says that the version is a record or the packed form of some release,
  kind and number that fit (`Pack`, `IsPacked`), that its parts are those that were
  set, and which parts go together (`PartsOK`: a sentinel has no others). A setter
  changes one digit of the integer or gives up packing, so it sets its part and
  leaves the others. Two packed versions compare as their digits do from the left
  (`Positional`), which is how `cmp_slow` compares their parts; that comparison
  is the one PEP 440 makes, whose key is epoch, padded release and tail
  (`Placed`, `Lex5`). Versions that compare as equal have releases that differ in
  trailing zeros only, which the hash does not see (`TrimmedEqual`).
* `ReleasesAgree`: so is `ReleaseAgrees`. The bound of `~=` and of `==1.2.*` is a
  release with one segment bumped: a release lies between the two exactly if
  it begins with the segments before (`StarOrder`, `TildeOrder`).
* `RangesAgree`: and so is `RangeAgrees`. A bound is a version, a sentinel or the
  successor of one, whose number may be `Top`, which no parsed version has; it
  still compares with a version by epoch, release and sortable tuple
  (`BoundCompare`). No version lies between a sentinel and its successor
  (`TupleNext`, `SuccessorIs`) and none below `0.dev0` (`AboveFloor`), so a limit
  and its canonical form hold the same versions, and the canonical form is its own
  (`CanonicalLimits`, `CanonicalRange`). Then there is one lemma for each operator
  (`LessHolds`, `GreaterHolds`, `TildeHolds`, `StarHolds`, `EqualHolds`,
  `ExactHolds`, `OrderedHolds`): the local versions of a version are those between
  it and its `LocalMax` sentinel (`LocalsBetween`), for instance. `Differs` names
  the exceptions, as in the run.

Releases have any length. The recursion in `with_release` and the first place
where two releases differ are handled by least counterexamples: a set of natural
numbers that is not empty has a least member.

Each inductive invariant was checked by TLC on the instances of section 4 before it
was proved (of `VersionOK`, all but that the version is packed from something).

Only model-checked: liveness under fairness (`WaitersReturn`, `ResolveReturns`,
`CallsReturn`, `SolveEnds`, `CommandsReturn`), which the proof system does not
reach.

## 7. What is not modelled

PubGrub itself, candidate selection, the decision diagrams of markers, the parser
of versions and settings are pure computations without order of steps. Python
discovery, environments, publishing, running a back end and the installation of
wheels are I/O. Git, authentication, tools and the project commands are sequences
of the operations modelled here, or of the same shape, and are left for later.
The lock file is the output of a resolution, whose forks are proved to partition
the space; reading and validating it is not modelled. `PROJECT.json` says what is
left out of each component that is modelled in part.
