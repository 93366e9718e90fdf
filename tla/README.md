# Verification of bindfs

TLA+ models of bindfs, model-checked with TLC on small instances and, where
the prover reaches, proved with TLAPS for every instance.
`PROJECT.json` says which lines of the source each definition
models, which runs check which properties, and which hazards of the code they
are aimed at.

## The system

bindfs is a FUSE file system that mirrors a *source directory* at a
*mountpoint*, with owners, modes and rules of access changed on the way.

| Part | Source | State | Operations |
|---|---|---|---|
| option parsing, `main` | `bindfs.c` | `settings`, fixed once mounted | one pass over the options, exit on error |
| locks | `bindfs.c` `bindfs_lock`, `bindfs_flock` | locks on files in the source directory | forwarded from clients, may block a thread |
| FUSE loop | external (libfuse) | one worker, or many with `--multithreaded` | calls a handler per request |
| path translation | `bindfs.c` `process_path` | none | `realpath` and the test for the mountpoint with `--resolve-symlinks` |
| file handlers | `bindfs.c` | the source directory, open descriptors | one or more system calls per request |
| user map, offsets | `usermap.c`, `bindfs.c` | `usermap`, `usermap_reverse`, `uid_offset` | filled by `main`, read by getattr, chown and creation |
| permission chain | `permchain.c` | a list of rules | parsed by `main`, applied by getattr, creation and chmod |
| user cache | `userinfo.c` | two sorted arrays, a memory block, a flag, a read-write lock | rebuilt on SIGUSR1, searched for `--mirror=@group` |
| rate limiter | `rate_limiter.c` | accumulated sleep time, time of the last change, a mutex | called before each read and write |
| helpers | `misc.c`, `arena.c`, `debug.c` | memory block, arena | string and path functions |

They interact in few places.  A getattr maps the owner (id map), asks the user
cache whether the caller is mirrored, and applies a permission chain to the
mode.  A creation applies another chain, makes the file and gives it away
through the reverse map.  A read or write waits in the rate limiter.  A SIGUSR1
sets the flag of the user cache and ends the sleep of whichever worker it is
delivered to.

What makes it hard: workers that interleave between the system calls of one
handler; other processes that change the source directory at the same time; a
signal at any moment; a wall clock that is stepped; system calls that fail half
way through a handler, that block, or that come back to bindfs as a request;
ids and sizes at the edges of their range; options that are each simple and
combine badly.

## Modules

| Module | Models | MC module, proofs |
|---|---|---|
| `RateLimiter` | `rate_limiter.c`; its callers `bindfs_read`, `bindfs_write` | `MCRateLimiter`, `HelperProofs` |
| `UserCache` | `userinfo.c`; SIGUSR1 | `MCUserCache`, `UserCacheProofs` |
| `IdMap` | `usermap.c`; the mapping options; owners in getattr, chown and creation | `MCIdMap`, `IdMapProofs` |
| `PermChain` | `permchain.c` | `MCPermChain`, `GetattrProofs` |
| `Getattr` | `getattr_common`, composed with `PermChain` | `MCGetattr`, `GetattrProofs` |
| `FileOps` | the handlers that create, open, release, delete, rename, link, chmod and chown | `MCFileOps`, `FileOpsProofs`, `FileOpsSerialProofs` |
| `LockTable` | what a lock on a file promises (abstract) | |
| `LockForwarding` | `bindfs_lock`, `bindfs_flock`, `bindfs_release`; implements `LockTable` | `MCLockForwarding`, `LockForwardingProofs` |
| `Listing` | `bindfs_readdir`, `process_path` and `bindfs_getattr`; requests of bindfs to itself | `MCListing`, `ListingProofs` |
| `Startup` | the parts of `main` that use the next three, in order; then one request | `MCStartup` |
| `StringHelpers` | string and path functions of `misc.c` | |
| `CacheArrays` | comparators of `userinfo.c`, growing arrays of `misc.c` | |
| `Arena` | `arena.c` | `HelperProofs` |

Operators named `X_Something` that stand just before `X` are variants of `X`
with a plausible mistake, used to confirm that the properties notice it.

### RateLimiter

The struct is `last_modified`, `accumulated_sleep_time` and `mutex`; each worker
has the locals of `rate_limiter_wait` and goes through `Lock`, `Compute`,
`Store`, `Unlock`, `Sleep`, `Return`.  `Compute` and `Store` are separate steps,
so a missing mutex shows.  `now` is real time and drives `nanosleep`; `clock` is
what `gettimeofday` returns, and `StepClock` sets it forwards or backwards.
`Interrupted` is a sleep ended by SIGUSR1, which is handled without SA_RESTART.
Times are integers in units of the time one unit of size takes; the code uses
doubles, whose rounding is not modelled.

History variables: `admitted` is the total size accepted, `position` where a
request stands in it, `front` the highest position slept through, and `mark`
where an observer began to measure, which may be at any moment.
`WindowBound` counts the requests that slept to their end; what a signal ended
early is paid for by later ones.

### UserCache

The cache is two sets of entries, with what each array is sorted by (`"none"`
when its entries refer into freed memory).  A call is split at each lock
operation, each test of the flag, each pass over a file and each lookup.  A
lookup in an array that is not sorted by id may miss an entry or return
anything.  The database goes through given contents; a pass over a file reads
one version, may stop early on ENOENT, and clears the cache on other errors.
`floor` is the version at the last signal before the call began.

### IdMap

The maps are sequences of entries, as in `usermap.c`; `stage` is how far `main`
is through the options.  An entry goes into one map and, swapped, into the
other; either may refuse it, upon which `main` exits.  `bounded_add` works on
the whole range of a `uid_t` and `UID_T_MAX` is half of it, as in the code.
Afterwards one file is chowned or created through the mount, or chowned in the
source directory.  The code for groups is the code for users with the names
changed, so an instance stands for either.

### PermChain

A rule is its letters left and right of the operator, as sets, or its octal
bits.  `add_rule` translates one rule, `permchain_cat` ends the specification,
`syntax_error` is any parse error; `permchain_apply` and `ApplyLink` are the
loop over the chain.  The reference (`Sets`, `Clears`, `Expected`) is read off
the manual bit by bit and shares no definition with the loop.

### Getattr

One request at a time goes from `lstat` through the steps of `getattr_common`
to the answer.  Its permission chain is `PermChain`'s, parsed in the same
behaviour and applied link by link.  The type of a file is the set of its
S_IFMT bits, because the code works on the bits: it flips two of them for a
block device and tests for a symlink by a mask.  `Replace` puts another file in
the place of the one in hand between any two system calls; `seen` remembers
what it has been.  A file that has been removed is one on which `access` grants
nothing; a failing `lstat` ends a request at once and is left out.  The owner
either has an image or none (`mappable`), as `IdMap` works out.

### FileOps

Each handler is the sequence of its system calls; between two of them any other
worker may run.  The source directory is flat: names lead to inodes, which live
as long as a name or a descriptor.  Any call may be refused with EACCES.
`process_path` and `realpath` are one step.  Modes have an execute bit and
another bit; permission chains are functions on them, since `PermChain` models
what they compute, and owners are as in the source, `unmappable` being the ids
for which `IdMap`'s offset overflows.  A request is sent only when the lookup
that the kernel makes first allows it, and that lookup is `bindfs_getattr`.
`MayServe` is the FUSE loop: one request at a time unless `--multithreaded`.

### LockForwarding and LockTable

One file, locked as a whole.  `flocks` and `plocks` are the kernel's locks on
the file in the source directory: an flock belongs to an open file, of which
bindfs has one per client, and an fcntl lock to a process, which is bindfs for
all clients.  `held` is what a client may rely on.  A request that waits keeps
its thread.  `main_accepts` is the test in `main` that ties
`--enable-lock-forwarding` to `--multithreaded`; without forwarding the kernel
keeps the locks inside the mountpoint.

`LockTable` is a table of holders in which an exclusive holder is alone.
`LockForwarding` implements it with the table made of what the clients rely on
and, with forwarding, the flocks of processes in the source directory.

### Listing

`bindfs_readdir` and `bindfs_getattr`, system call by system call, while
another process removes, creates and replaces entries.  An entry is a file or
one of the kinds of symlink that the code tells apart: broken, a loop, to a
file, to the mountpoint, to below it.  A `realpath` or `lstat` that has to look
into the mount is a request to the FUSE loop (`Nest`), for which the calling
thread waits.  `path_buf` is the sequence of names after the directory, so a
name that is not cut off again is noticed.

### Startup, StringHelpers, CacheArrays, Arena

`Startup` goes once through what `main` does with its arguments: the list of
mirrored users is counted, then parsed; the arguments for libfuse are copied
into an arena, merged and filtered; the user cache is filled and sorted.  One
request follows: a path that is tested against the mountpoint, or a lookup in
the cache.  Paths and the list of mirrored users are sequences of characters,
because the code is about their positions; arguments are sequences of options
with their lengths.

The comparators are a difference cut to an int of `Width` bits; `qsort` may
permute the array at will when they are no order.  Arrays and the memory block
are their sizes and capacities.

Met on the way: `filter_o_opts` steps over the argument after one
that it removes, which does no harm because the options of the user come in one list,
followed by words; `merge_o_args` has a branch for a last argument `-o`, which cannot be
last; `count_substrs` does not look at the last place, so a list of mirrored
users that ends in a separator and `@` fails an assertion in
`parse_mirrored_users`.

## Runs that pass

| Run | Shows | Instance |
|---|---|---|
| `rate_limiter` | `WindowBound`: over any window no more is let through than the rate, the credit and forward steps of the clock pay for. `NoExcessDelay`: no step of the clock makes a request sleep longer than the units before it take. `RequestReturns`: every request returns. | 2 workers, sizes 1 and 2, credit 1, one step of the clock by 2 either way, 2 units in all |
| `user_cache` | `AnswerFresh`: an answer is never older than the last SIGUSR1 before the call. `UsableWhenUnlocked`: whoever gets the lock finds the arrays sorted by id and nothing freed. `ReadersUndisturbed`: no change under a read lock. `RebuildNotStarved`: a waiting rebuild is made. | 2 workers, 2 versions of passwd and of group between which a uid changes hands |
| `id_map` | `MapsInverse`: the two maps are inverse whenever bindfs is mounted. `ChownRoundTrip`: the owner set through the mount is the owner shown. | 3-bit uids, up to 3 entries spread over three options, offsets -1 and 2 |
| `getattr` | `LastRuleDecides`: after every rule, each bit is what the last rule deciding it says. `WholeOrNothing`: a syntax error leaves the chain alone. `ShownExactly`: bits, type and owner shown are what the options say. `NothingOverpromised`: whatever replaces the file, no bit is shown that bindfs did not have at some moment of the request. | up to 2 of 13 rules, 6 files of all types that the code tells apart, 6 settings that contain every pair of option values, 1 replacement |
| `file_ops` | `DeletionPolicy`, `ChownPolicy`: what is gone or changed owner after a request is what its policy says. `FailureLeavesNoTrace`: a request that fails changed nothing, two named cases apart. `OwnFileChowned`: one at a time, a handler gives away only the file it made. `NoFdLeak`: each descriptor is held by a running handler or known to the kernel. `OnlyExecuteBits`: under the ignore and deny policies no interleaving changes another bit. | 22 single-threaded settings with 3 names and links to each name and to the mountpoint; 4 settings with 2 threads on a file with two names; 1 descriptor per inode |
| `locks` | `ImplementsTable`: flocks of clients and of processes in the source directory are one table. `FcntlExclusion`: a client and a process in the source directory never rely on conflicting fcntl locks, unless another client has interfered. `UnlockServed`: a request to give a lock up is answered. | 2 clients, 2 threads, 1 process in the source directory; flock or fcntl |
| `listing` | `ListingExact`: a listing that succeeds has every entry that was there all the time and none that never was, and it fails only for a reason. `PlusAgreesWithStat`: readdirplus shows what stat shows. `RequestsAnswered`: every request is answered unless bindfs is made to call itself. | 2 names of any kind, 1 change, 1 client, 2 threads, all settings |
| `startup` | `MirrorExact`: the arrays of mirrored users are as large as what is stored in them. `ArenaDisjoint`: memory handed out does not overlap. `OptionsFiltered`: libfuse gets the options that are not ignored, in order. `RecursionDenied`: what is at or below the mountpoint is refused and nothing else. `CacheInBounds`, `LookupExact`: the cache's arrays are large enough, and a lookup finds exactly what is there. | all lists of 4 characters, of 3 options, all paths of 5 characters; up to 3 users with any 3-bit uids, and 9 users to make arrays grow twice |

Each run also checks the types of its modules.

Why the bounds are enough.  Two workers give every pair of overlapping steps;
for the mutex, the lock and the flag more workers add only more of the same, and
the theorems cover any number.  Two units are two requests in one window or one
above the credit; any more is covered by the theorem.  Two versions of each
file tell old from new.  Three entries are enough for one that conflicts with
another's left or right side and one beside it; 3-bit uids have ids on both
sides of `UID_T_MAX`.  Two rules are enough for one that changes a bit and one
that refers back to the original mode; the theorem covers any number.  Three
names are a link, its target and a name to make or move to.  One replacement or
change falls before, between or after any two system calls of a request.  Two
clients and one outsider are all the kinds of lock owner there are.  Strings of
4 and paths of 5 characters have each separator first, last, doubled and
between names; 3-bit uids have pairs whose difference overflows and pairs whose
difference does not.

`MCIdMap.cfg`, `MCGetattr.cfg` and `MCStartup.cfg` allow deadlock: `main` may
exit on an invalid option, and `Startup` ends after one request.
`MCListing.cfg` allows it too: bindfs may wait for itself.

## Fairness

`RateLimiter!FairSpec` has weak fairness of each worker's steps and of time:
the kernel schedules threads, and time passes.  Clients need not send anything.
No strong fairness of the mutex is needed here: the requests of the instance
are finitely many, so a worker cannot be overtaken for ever.  Whether
an endless stream of requests could starve one depends on the mutex and is not
claimed.

`UserCache!FairSpec` has weak fairness of each worker's call.  A lock that is
free only now and then is not granted by it, so overlapping readers may hold
off a writer, as they may with glibc's default read-write lock.
`RebuildNotStarved` holds nevertheless, because with the flag set every new
call goes for the write lock itself.

`LockForwarding!FairSpec` and `Listing!FairSpec` have weak fairness of each
thread's steps, and strong fairness of taking up each request: the kernel keeps
requests in a queue, so that none is passed over for ever by threads that become
free again and again.  Clients, local processes and other changes of the source
directory have no fairness.  A thread that waits for a lock, or for an answer
from bindfs itself, is not forced on.  In the instance there is a thread for
every client; with more waiting clients than threads (libfuse has 10 by default)
an unlock may find none, and `UnlockServed` does not claim otherwise.

## Theorems

All are proved for any number of workers, clients and threads, any sizes, any
contents of the database, any width of a `uid_t`, any entries, rules and
requests.

* `HelperProofs`, the rate limiter: `TypeCorrect`, `RateRespected`
  (`WindowBound`), `DelayBounded` (`NoExcessDelay`).  `WindowBound` speaks of
  requests that have returned and is not inductive.  The invariant adds that what the limiter
  has accumulated, once slept off, pays for everything accepted
  (`LimiterPays`); that this also holds for the value a worker has computed and
  not yet stored (`StorePays`), which needs the mutex (`Locked`); and that each
  sleeping request is paid for when it wakes (`SleepPays`).
* `UserCacheProofs`: `TypeCorrect`, `CacheUsable` (`UsableWhenUnlocked`),
  `ReadersSafe` (`ReadersUndisturbed`), `SignalHonoured` (`AnswerFresh`).  The
  invariant says who holds which lock; that the cache is usable or being
  rebuilt; that with the flag clear the cache is as recent as the last signal
  or the file has still to be read (`FreshInv`), which is where resetting the
  flag *before* reading matters; what the cache holds in terms of what was read
  (`ContentInv`); and what a reader has found so far.
* `IdMapProofs`: `TypeCorrect`, `MapsAreInverse` (`MapsInverse`),
  `OwnerRoundTrip` (`ChownRoundTrip`), under the hypothesis that no entry names
  `(uid_t)-1`, which `usermap_add` takes for an absent entry.  The invariant
  says that the maps are inverse until `main` gives up, and that an owner that
  was asked for is what the reverse map and the offset make of it.
* `GetattrProofs`, the chain: `SpecificationWhole` (`WholeOrNothing`) and
  `RulesApplyInOrder` (`LastRuleDecides`), the latter under the hypothesis
  `ClassesNamed` that no rule has `d` or `f` without a class (the run
  `perm_chain_kind` shows what those do).  The invariant says that the chain
  built so far is the translation of the rules read so far (`ChainInv`) and
  that the mode after each link is what the reference says after that rule
  (`ApplyInv`); the work is in the lemma that one link does what one rule means,
  bit by bit.
* `GetattrProofs`, `getattr_common`: `AttributesTyped` (`AttrTypeOK`),
  `NoPermissionOverpromised` (`NothingOverpromised`), `AttributesExact`
  (`ShownExactly`, again under `ClassesNamed`) and `ChainImplemented`: a
  behaviour of `Getattr` is one of `PermChain`, so what is proved of the chain
  holds inside `getattr_common`.  `NothingOverpromised` speaks of the answer;
  the invariant says after each `access` that of the permissions asked about so
  far none is left that was refused when it was asked (`PromiseInv`), and for
  `ShownExactly` what stbuf holds at each stage of a request during which the
  file stays as it is (`ShownInv`).
* `ListingProofs`: `ListingTyped` (`TypeOK`), `ListingsExact` (`ListingExact`),
  `PlusAgrees` (`PlusAgreesWithStat`).  `ListInv` says where each request is
  and what has been listed by then.  That alone is not inductive, because the
  result of a listing depends on requests that bindfs sent to itself: the
  invariant adds that such a request lies within the time of the one that
  caused it (`FromInv`) and what the waiting thread may get for it (`WaitInv`).
  `PlusInv` adds where the entry in hand has been resolved to, as long as that
  entry does not change.
* `FileOpsProofs`, any number of threads: `DescriptorsKept` (`NoFdLeak`), where
  the invariant adds that a thread holds a descriptor only while it is about to
  hand it out or close it (`FdInv`); `FilesTyped` (`TypeOK`), where it adds
  which request brings a handler to which step and what its locals are there
  (`TypeInv`).
* `FileOpsSerialProofs`, one request at a time: `DeletionsFollowPolicy`
  (`DeletionPolicy`), `FailuresLeaveNoTrace` (`FailureLeavesNoTrace`),
  `ChownsFollowPolicy` (`ChownPolicy`), `OwnFilesChowned` (`OwnFileChowned`),
  under the hypothesis `Undisturbed` that no other process changes modes in the
  source directory where bindfs is single-threaded.  These properties compare
  the source directory with what it was when the request came, so they say
  nothing of a handler half way.  `SerialInv` does: at most one thread has a
  request, and its `Local` part says for each step what the handler has changed
  so far.  Before the first change, nothing, and the lookup of the kernel still
  holds (`Early`); during a deletion, which of link and target is gone and
  under which policy (`Deleting`); after a creation, that the name leads to an
  inode that was not there (`Creating`); before a chown or a chmod, that the
  path is where the request leads and that the `lstat` is true (`Changing`).
  `OnlyExecuteBitsChange` (`OnlyExecuteBits`) uses it too, under the hypothesis
  that no setting is `--multithreaded` and no other process interferes.
* `LockForwardingProofs`: `TypeCorrect`, `FcntlExcludes` (`FcntlExclusion`) and
  `FlocksImplementTable` (`ImplementsTable`), the refinement: initial states
  map to an initial state and every step to a step of the table or to none.
  The invariant says that whoever relies on an flock has it in the source
  directory (a client stops relying on its lock before it goes), that the locks
  there are compatible, that a request is served by one thread, and the like for
  the fcntl lock of bindfs as long as no other client has interfered.
* `HelperProofs`, the arena: `ArenaHandsOutOnce` (`ArenaDisjoint`), for requests
  of any size.  The invariant adds that everything handed out of a block lies
  below its `used`.

Assumptions on the constants are few.  Those of `FileOps` say that names,
inodes and error codes are told apart, that requests, options and the initial
source directory have their types, that there are inodes for all names to start
with, and that threads and names are finitely many; those of `Listing`, that
names are none of the other places and clients no threads.

`realpath` in `FileOps` is a recursive function.  What the proofs need of it,
that a walk which starts at no link ends there (`WalkStays`), is shown by
looking at the least step that would go elsewhere.

Only model-checked:

* liveness under fairness (`RequestReturns`, `RebuildNotStarved`,
  `UnlockServed`, `RequestsAnswered`), which is out of the prover's reach;
* what the functions on strings compute, which needs induction over data and
  with it the properties of `Startup`, `ArenaDisjoint` apart;
* `OnlyExecuteBits` with several threads.  It is no invariant of arbitrary
  requests: between the `lstat` and the `chmod` of one thread another may put a
  different file under the name.  The run has two threads that only chmod a
  file with two names.

## Where the code and its documentation disagree

Four have a run in which TLC finds the behaviour.

* `id_map_offset`: with `--map-passwd` and `--uid-offset`, a chown undoes the
  two in the wrong order and does not reach the mapped user.
* `perm_chain_kind`: a rule with `d` or `f` and no class changes nothing.
* `locks_fcntl`: fcntl locks belong to the bindfs process, so a client that
  unlocks or closes the file takes away the lock of another client in the
  source directory.
* `listing_recursion`: with `--resolve-symlinks`, `bindfs_readdir` follows links
  to the mountpoint without the test of `process_path`, so a listing makes
  single-threaded bindfs wait for itself instead of returning an error.

Others the models leave room for and no property claims:

* A SIGUSR1 ends the sleep of a worker early, although `rate_limiter.h` says the
  call blocks until the units are cleared.  Later requests still wait for them.
* The offset, even 0, is added before mirrored users are looked at, so a file
  whose owner is above `UID_T_MAX` is EIO for them too.
* An entry of `--map` does not overwrite one of `--map-passwd`, as a comment in
  `main` says it may; bindfs exits.
* A chmod in the source directory between the lstat and the chmod of
  `bindfs_chmod` may be undone by it, bits other than execute bits included.
  (The run has such a chmod of the execute bits.)
* A caller whom `--mirror-only` shuts out sees the true link count and type of a
  file, whatever `--hide-hard-links` and `--block-devices-as-files` say: the
  early return comes first.

`ChownRoundTrip`, `FailureLeavesNoTrace`, `LookupExact` and `MirrorExact` leave
out cases where they do not hold; their comments say which.

## Not modelled

* Extended attributes, truncate, utimens, fsync, ioctl, statfs, readlink: one
  system call each on a path or a descriptor, with no state of bindfs before or
  after it.  A model would repeat the call and have nothing to say of it.
* pread and pwrite with O_DIRECT buffers: data copies.  Their wait in the rate
  limiter is modelled.
* `debug.c`, usage text, logging, the redirection of stdout: no state that other
  code reads.
* Options that set one field; `parse_byte_count` and the limiter's rounding,
  which are about doubles; `sprintf_new`, `my_basename`.
* `--ctime-from-mtime`; F_GETLK; locks on parts of a file; programs that use
  flock and fcntl on one file at once.
* macOS and BSD branches, the flags of renameat2.
* The array growth of `usermap.c`, the arithmetic of which is that of
  `grow_array`; entries of a
  user map that name `(uid_t)-1`.
* Links to below the mountpoint in `FileOps`, where `realpath` is atomic;
  `Listing` has them.
