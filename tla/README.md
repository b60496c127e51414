# Formal models of cwf

cwf is a C++ collection: a FastCGI web framework (`cwf/`), a base library
(`base3/`, partly taken from Chromium), a redis proxy (`proxy/`), a program
that follows a redis append-only file and forwards it (`redis_aof_deliver/`),
bundle storage for small files (`plate/`), an HTML parser (`htmlsax/`) and an
image resizer (`resizeonthefly/`). Paths below are relative to the `src/`
directory of the repository.

This directory models the parts whose correctness depends on the order in
which threads, processes and signals act.

## 1. Inventory

| Part | State | Operations | Talks to | Hard behaviour | What makes it correct |
|---|---|---|---|---|---|
| `base3/messagequeue.h` MessageQueue | list of messages, `queue_size_`, `busy_`, `processed_`, `quit_` | Post, Post(beg, end), Close, Process | ThreadPool workers | notify outside the mutex, Close without it, figures read without it | FIFO, each message once, no lost wakeup, Process returns after Close |
| `base3/rwlock.h` ReadWriteLock | four counters, two condition variables | Read/Write Lock/Unlock | Continuum | barging between notification and retry | exclusion, write preference, no lost wakeup |
| `cwf/cwfmain.cc` master, `proxy/redis_proxy_main.cc` | `fork_count_`, `quit_`, `children_` | Fork, MasterCycle, signal handlers | kernel, children, operator | handlers between any two steps, coalesced signals, lost `pause` wakeups | no child out of reach, bounded population, zombies reaped, deaths answered, SIGTERM obeyed |
| `redis_aof_deliver/` | the file position, `commands_`, one queue per backend, counters, `shutdown_` | track, route, write, notify, stop | redis server's file, inotify, redis backends | five threads, two hand-offs, inotify events that come early, late or merged | each backend receives its share of the log in order; what is in the file is sent |
| `base3/consistenthash.h` Continuum | targets, ring, lock | Add, Remove, Clear, Rebuild, Locate, Dump | redis_aof_deliver | Rebuild sorts outside the lock; Dump locks recursively | Locate answers by the ring last built from the targets |
| `base3/cache.h` HashCache | LRU list, map of iterators, count | Locate, Find, Insert, Replace, Erase | - | Locate creates outside the lock | list and map agree, an overfull cache is cut back |
| `base3/threadpool.*` ThreadPool | list of workers, cursor | Post, set_size, Stop, Join | MessageQueue | list and decisions outside the mutex | a Worker is alive when it is used, a Post ends |
| `base3/asyncall.*`, `base3/common.cc`, `baseasync.*` | thread group, counts of tasks and threads, timers | Post (now, delayed, repeated), SurePost, Check, Start, Stop | boost::asio | Stop against Check's new thread and pending timers; restarts | exact counts, a call in one place, a pool that grows when busy and ends when stopped |
| `base3/pcount.*`, `logrotate.h`, `once.*`, `startuplist.*`, `signals.*` | counters, timers, lists of callbacks | | all programs | registration from several threads | |
| `cwf/frame.*` FrameWork | actions, `quit_`, socket | FastcgiProc per thread | FastCGI server, actions | quit is tested after a request only; the FrameWork is freed under the other threads | one more request per thread at most, the main thread finishes its own, SIGTERM ends the process |
| `cwf/stream.*`, `http.*`, `cookie.*`, `pattern.h`, `action.*`, `tplaction.*`, `dynalib.*`, `connect.*` | one request each | parsing, formatting, wiring | FrameWork | none across threads | text in, text out |
| `proxy/` Server, Connection | sockets, one buffer per connection | accept, read, write | boost::asio | buffer lifetimes, partial writes, a stale buffer compared with quit | replies in order; accept and read go on |
| `plate/` FileLock, MetaAllocator, bundles | lock files, bundle files, `last_id_`, `current_stage_` | Allocate, Write, Return | other processes on the same file system | lock files as mutexes, crash with a lock | one writer per bundle, no overlap |
| `htmlsax/`, `resizeonthefly/` | none shared but the host map | | | host map swapped by a signal handler | |

`PROJECT.json` lists every part with its files and status, and every hazard
with its line and the properties that cover it. Vendored code (`3rdparty`,
`testing`, the Chromium files of `base3`) is out of scope.

## 2. Modules

| Module | Role |
|---|---|
| `OrderedDelivery` | abstract: messages are delivered once, in the order of submission |
| `MessageQueue` | `base::MessageQueue`; implements `OrderedDelivery` |
| `MessageQueueProofs` | its theorems |
| `ReadersWriters` | abstract: a readers-writers lock |
| `ReadWriteLock` | `base::ReadWriteLock`; implements `ReadersWriters` |
| `ReadWriteLockProofs` | its theorems |
| `MasterCycle` | the pre-fork master and its signal handlers, with kernel, children and operator |
| `MasterCycleProofs` | its theorems |
| `FastcgiProcess` | a child of the master: the child branch of Fork, FastcgiMain, FastcgiProc |
| `AofDeliver`, `MCAofDeliver` | redis_aof_deliver with its file, inotify and backends, and its small instance |
| `AofDeliverProofs` | its theorems |
| `AppendOnlyStore` | abstract: files in which no piece is overwritten |
| `MetaAllocator` | `plate::MetaAllocator` with its lock files; implements `AppendOnlyStore` |
| `MetaAllocatorProofs` | its theorems |
| `AsyncRunner` | `base::AsyncRunner` with Post, SurePost, Start and Stop |
| `AsyncRunnerProofs` | its theorems |
| `Continuum` | the consistent hash ring behind its lock |
| `ContinuumProofs` | its theorems |
| `HashCache` | the LRU cache: list, map, Creator outside the lock, posted Replace |
| `ThreadPool` | Workers with their queues, GetIdle, set_size, Stop, Join |
| `ProxyServer` | both servers of `proxy/` with their connections and clients |
| `Parts` | the six modules without a run of their own, side by side |
| `PartsProofs` | the theorems about them |
| `MCParts` | a small instance of each |

The operators whose comment begins "The bug of" are variants of the definition
that follows them. They are not used by any specification: they record which
mistake each property would catch.

### MessageQueue

`message_queue`, `queue_size`, `busy`, `quit`, `processed` are the members.
Messages are numbered by the order in which they were pushed, so a message is
its position in that order. `process` is the place of the thread inside
`Process`; `caller[c] = "notify"` means that a caller has left the critical
section of `Post`, or the assignment of `Close`, and not yet called
`notify_all`. One action is one critical section. All users of the class have
one thread in `Process`, and so has the model.

`NoLostPost` needs the callers' pending notifications: the `notify_all` of
`Post` comes after the unlock, and the thread may test the queue in between.
`CloseReturns` names the one window in which `Close` is lost: flag and
notification both between the test of `quit_` and the wait. The run
`message_queue_close` shows that window against the unit test that joins the
thread right after `Close`.

### ReadWriteLock

Members are the four counters; `at[t]` is where thread t is. A waiting thread
sleeps; a notified one is awake but has to take `lock_` again, and anybody may
come first. `Exclusion`, `CountersMatch` (the two ASSERTs of the code and more)
and `NoLostWakeup` are invariants (the last is run, all are proved); `WritePreference` is an action property.
Readers may starve while writers keep coming, by design: `ReaderGetsIn` says
that nothing else starves them.

### MasterCycle

`pc` is the place of the master; `fork_count`, `quit`, `children` are the
globals. `children_` is a set: the code searches the list, walks it and calls
`remove`, and never looks at its order or counts it. A handler is one atomic step that can come between any two steps of
the master. A handler that interrupts `push_back` or another handler is not
modelled: the list operation is one step, and the outcomes a torn one could
have on the list's contents are those of a handler just before or after it,
corruption of the list itself excepted. The kernel is `os` (a pid is free, a
child, or a zombie) and `pending` (a pending signal is one bit). The window
between the test of `quit_` and `pause()` is the place `toPause`.
Left out: processes that are no children and happen to get a reused pid;
option parsing and daemonising. What a child does is FastcgiProcess.

The liveness properties name the windows the code leaves: a signal handled in
`toPause` is lost until the next one, a SIGCHLD handled during Fork is
forgotten by `fork_count_ = 0`, a SIGUSR1 wakes the master instead.
`AtMostOneOrphan` is what remains of "SIGTERM kills all children". The run
`master_list` shows that `children_` keeps pids that were reaped.

### AofDeliver

A command is its number in the file and takes `LinesPerCommand` reads, so the
file can end inside one. `aof`, `written` are the file, which grows by whole
commands or by parts. `watcher`, `track`, `deliver`, `worker[b]` are the places
of the threads. `modified` is one bit because the kernel merges equal inotify
events. `Route` is `continuum_.Locate`; the ring is built before the threads
start and never changed. A worker's write succeeds whole or throws, and a
connection that failed keeps failing. The history variables `sent` and
`dropped` are what the sockets got and what was deleted unsent.

The system calls may fail. `AddWatch` may end the main thread, and
`ReadEventsFails` does, and with it the program. `ReadFails` ends the track
thread at the start of a command (`"failed"`). Within one it does not:
ProcessTrack leaves the loop over the arguments and passes on what it has, under
the key it has (`cut`), which may be the empty one and so belong to any backend;
it fails at the next turn of its loop, where no `*` begins what it reads.
`KeyOf` is the key under which a command was read. Data that happens to have a
`*` there is left out.

`InFileOrder` states the whole path: what was sent, dropped, is in the worker's
hand and in its queue is the backend's `Line`; the line and what waits in
`commands_` for the backend are its share of what was read, and all of it is
in file order. `NoLostHandoff` is about the two
condition variables between the threads. The reader is different: inotify is
answered by a `notify_all` without the mutex, so it can be missed.
`OverlookedOnlyIfMissed` says exactly when the reader sleeps on unread data:
a notification between the short read and the wait, or a write before the
watch was installed. The run `aof_retry` shows that a late notification makes
the reader lock the mutex it holds (deliver.cc:106-108): it never reads again.
Liveness is therefore stated outside these states, and for a program that goes
on and whose reads of the file succeed.

Left out: syntax errors in the file itself, the MULTI counter (inert for a well
formed file), `ProcessStat`'s printing, `AddEndpoint`, `~Transporter` (never
run, the deliver object is leaked), a restart.

### MetaAllocator

`last_id`, `current_stage` are the two atomics of each process; `id`,
`expose`, `request`, `offset` are a thread's locals in Allocate and its Writer;
`size` and `locked` are the shared file system. One action is one system call
or one atomic access. `home` is chosen once, so the threads may share a process
or not. Sizes are in blocks of 1K and include the file header, as in the
comparison with the limit. `AsInt` and `AsSizeT` are the conversions of the
limit and of the offset; widths are constants.

`OneHolder` says that the lock files work across processes and deaths;
`OffsetIsEnd` that the size taken under the lock stays true until the write,
which is why a dead process's bundle must stay locked. `StoreSpec` is the
outcome: the bundles implement `AppendOnlyStore`. `AllocatedIsWritable` holds
where `size_t` is as wide as `int` (`bundles`) and fails where it is wider
(`bundles_lp64`). `AllocateEnds` is limited to a search that is alone in its
process: without that conjunct TLC finds two searches that increment and reset
`current_stage_` for each other so that neither ever looks at the one bundle
with room.

Stages are numbered `0 .. MaxStage`, as the code does: its comparison `>` with
`kMaxCount/kStageSize` allows one stage more than the comment `50 * 400`
counts. Left out: a second date (a lock file has no date in its name, so
another date would only share locks), a `stat` that fails for a file that
exists, a Writer used twice, and `FileLock` objects, which only tests use.

### FastcgiProcess

The life of one child: `phase` goes from the fork, with the handlers it
inherits (`inherited`: the master's, or none yet), through the signals that
Fork ignores and FastcgiMain installs, to the threads in FastcgiProc.
`place[t]` is a thread's place in that loop. A signal has the effect of the
disposition of that moment (`Disposition`); an inherited handler sets the
`quit_` of `cwfmain.cc`, which the child never reads. `AtMostOneMore` is what
the test of `quit_` after the request leaves: each thread may serve one more
request after the signal, and no ordered end cuts the main thread's own short.
The other threads' requests are cut (`cut`), with a FrameWork that has been
freed. `QuitEnds` says that a signal that comes while the main thread has a
request, or before the threads run, is not lost. Left out: the signals that a
child forwards to its siblings with the inherited handlers and list; what
Process does to a request.

### AsyncRunner

Threads are inside `io_service::run` (`thread[t]`), calls are in one of five
places (`call[c].place`). The io_service is modelled by what the code relies
on: run returns when it is stopped or nothing is outstanding, and posted calls
survive stop and reset. The owner's `Start` and `Stop` are one step per
statement, because Check may add a thread between any two of Stop's.
`OffLeavesOneThread` states what that costs: the thread Check was adding stays
in the group, unjoined. `GrowsWhenBusy` is about the first start only: joined
threads stay in `g_` and `set_thread_size` counts them, so that after a
restart nothing is added for a while. The run `sure_post` shows that SurePost
never retries: WrappedDelayCall drops the answer of WrappedSureCall.

### Continuum

The lock is used as ReadWriteLock describes it; a critical section is one step
with the acquisition. The ring is a function from points to the target found
first there. A point is `PointOf(target, k)` if the name `target-k` fits the 21
bytes of Rebuild's buffer (`Fits`); of a longer one the hash reads memory behind
the buffer, and any value may come out, another one at the next Rebuild
(`Overlong`). Of equal points `std::sort` may leave either first. So `Rings` is
a set. `MovesOnlyByCapacity` is what a
consistent hash is for, stated across overlapping Rebuilds: when a ring is
replaced, a hash goes to another target only if that one has gained points or
its old one has lost some, shared and overlong points apart. `BackOnlyIfOvertaken` says that only a Rebuild
overtaken between its two sections installs an older state of the targets.
`CallsEnd` excepts `DumpBlocked`: Dump holds the read lock and takes it again
in `size()`; with a writer waiting in between, neither goes on. Without the
exception TLC shows that deadlock.

### HashCache

`list` holds numbered entries, `map` the number of each key's. `creating[u]` is
a Locate that has left the lock to call its Creator. `ListMatchesMap` excepts
the entries that such a Locate, or an Insert, adds for a key that is there
(`duplicated`). `OversizeIsAnswered` says that a cache a tenth over its limit
has a Replace on its way, or has held such a second entry (`duplicated`), of
which a Replace may drop one and free no key; and that a Replace finds more keys
than the limit unless an Erase came before it. If one did,
`map_.size() - max_size_` wraps. What follows is undefined; `Count` is what
libstdc++ makes of it: `std::advance` takes the count for a negative one and
steps back from the first entry, round the circle of the list, so that an
arbitrary part of a cache that was not too big is erased.
`set_max_size` names a member `replace` that does not exist (cache.h:111-117):
no program can instantiate it, and the model has no action for it.

### ThreadPool

A Worker is a MessageQueue with its critical sections as steps (`worker[w]`):
between the test of `quit_` and the wait (`"enter"`) it misses a Close, and then
sleeps until a message comes. Posters are other threads and Workers whose
message posts another one; GetIdle reads `busy()` Worker by Worker while they
run. Stop closes the Workers one by one without `mutex_`, and so may reach one
that is being created or miss it. A use of a deleted Worker, of `i_` when its
element is erased, or of the first of no Workers, is undefined behaviour: it
ends the behaviour in `undefined`. `StaleOnlyIfErased` says that only Shrunk and
Stop bring that about.

`PostsEnd` says that every Post ends, with three exceptions, each a state that
lasts for ever: Shrunk, with `mutex_`, joins a Worker whose message waits for
`mutex_` (`JoinsItsPoster`); Shrunk, with `mutex_`, joins a Worker that has
slept through the Close of threadpool.cc:177 (`MissedClose`); the behaviour has
ended as undefined. TLC finds each of the two deadlocks when its exception is
left out. That a Join which missed a Close hangs without `mutex_`, or a
set_size that waits for a GetIdle, does not stop a Post is what remains, and
what the mutant breaks. Shrunk takes the wanted size for the number to delete,
and so does the model. Left out: a batch Post, the destructor (which joins like
Shrunk), a thread that cannot be started and the LP64 choice of the thread
class.

### ProxyServer

`program` chooses between ProxyServer, which echoes, and RedisProxyServer,
which answers PONG. A client sends a finite stream of units, a read takes some
of those that have arrived, and what `async_write_some` cannot write at once
comes from freed memory (`Other`, or nothing). `buffer` keeps what earlier
reads left, which is what `kQuit` is compared with. `EchoInOrder` and
`ClientsAreServed` except the units a cut write loses, and the clients
shut down by a stale buffer or reset, which ends the server.

### Parts and MCParts

The six modules share no state, so Parts instantiates all of them and its
initial state chooses which one a behaviour is about; the others stay in their
initial state. Its states are those of the six, one after another, and each
property speaks of its own part. The assumptions of the modules
(`RunnerAssumption`, ...) are definitions there, which Parts assumes together
as `PartsAssumption`. What depends on the instance, the kinds of call a thread
makes, the points of a target and the streams of a client, are operator
constants of Parts; MCParts defines them for the run, and the theorems of
PartsProofs hold for all of them.

## 3. Runs

| Run | Instance | Shows |
|---|---|---|
| `message_queue` | 2 callers, 4 messages, batches of up to 2 | no lost post, refinement, liveness of the queue |
| `message_queue_close` | same | violation: Close can be lost |
| `rwlock` | 4 threads | no lost wakeup, preference, refinement, liveness |
| `master` | 2 workers, 4 pids, 2 deaths, 1 stop or continue | population, reachability, reaping, answers to signals |
| `master_list` | same | violation: a reaped pid stays in `children_` |
| `aof` | 2 backends with a key each, 2 commands, SELECT included | order, statistics, hand-offs, the reader's windows |
| `aof_live` | 1 backend, 2 commands | everything read and sent; SIGINT ends the program |
| `aof_retry` | as `aof`, no spurious wakeups | violation: the reader locks itself out |
| `bundles` | 2 threads, 1 or 2 processes, 2 stages of 2 bundles, 2 of them full, 3 allocations, 1 death, 1 failed creation | one holder, no overwrite, usable Writers; a lone search ends if a bundle stays free |
| `bundles_lp64` | wider `size_t`, nothing full | violation: Writers behind 2G |
| `parts` | the six modules of Parts | see below |
| `sure_post` | same | violation: SurePost does not retry |

`parts` has, for AsyncRunner, 3 threads, a pool of 1 to 2, 2 calls (one of them
delayed, repeated up to twice, for ever, or sure), 2 starts; for HashCache, 2
users, 3 keys, a cache of 1, 3 inserts; for Continuum, a thread that changes
the targets and one that reads and clears, both of which rebuild, 2 targets
with 1 or 2 points, the second of one of them overlong, 5 calls; for
FastcgiProcess, 2 threads and 3 requests; for ThreadPool, 4 Workers, a pool of
2 that is not to grow, a poster, 2 messages of which one posts a third, two
messages as the length at which a Worker is too busy to be remembered (0xffff in
the code), and one call of Stop or of set_size, which deletes all Workers or
one, or creates one, and may change the limit; for ProxyServer, 2 connections, streams of up to 3 units, a buffer of
2, one failed accept.

Why the bounds are enough. Queue: two callers give every overlap of a post with
a post and with a close; four messages let two batches queue behind each
other. Lock: four threads give two readers and two writers at once, which every
notification choice needs. Master: spare pids let a respawn take a new pid or a
reused one; two deaths may coalesce, or one may fall in the respawn for the
other. Deliverer: two commands to one backend can overtake each other, to two
backends can be misrouted; the end of the file falls between and inside them.
Bundles: three allocations fill a bundle behind another holder and make a
search pass both stages, their end and the reset; two sizes make a bundle full
for one request and not for the other; `MaxId` bounds how far two searches push
each other past the stages. Runner: a second start is what leftovers of the
first can disturb, a third thread is the one Check adds while two are joined.
Cache: two users can create one key twice, and three inserts overflow a cache
of one again while a Replace is pending. Ring: five calls are two changes, two
Rebuilds that overlap, and a reader or a Dump. FastCGI: three requests are one
before the signal, one after it and one that must not be taken. Pool: four
Workers let set_size create and Shrunk delete, once one and once all, while a
poster holds a Worker and GetIdle creates another or, with all of them busy,
takes the first. Ring: an overlong point falls on a point of the same target, of
the other, or on none. Proxy: a quit split over two reads, and one made of a
stale half and a new one.

`CHECK_DEADLOCK FALSE` is set where processes exit (`master`, `aof`, and the
FastCGI process and proxy of `parts`), where the calls are used up or a dead
process's lock is all that is left (`bundles`, `parts`), and where undefined
behaviour ends a behaviour (`parts`).

Fairness is weak everywhere: a thread that can go on is scheduled, a holder of
a lock releases it, a pending signal is delivered, a timer expires, a
completed operation of an io_service is handled. No caller is obliged to call,
no process to die, no operator to act, no server to write, no client to send, no
system call to fail,
and no spurious wakeup is ever relied on. In `parts` each fairness condition
is guarded by its part, and reads as in the module for the behaviours of that
part. Liveness is checked without symmetry.

## 4. Proofs

The proof modules hold for every value of the constants, from the named
assumptions only: finite sets of threads, calls, pids and backends where they
are counted, bounds that are numbers, a route for each key, a hash function
whose values are hashes. In AsyncRunnerProofs and ContinuumProofs the
assumption is a hypothesis of each theorem. Every invariant and every action
property that a passing run checks is stated by a theorem, and so are the three
refinements.

*MessageQueueProofs.* Inductive invariant `IInv`: types, `Accounting`,
`InOrder`, `NoLostPost`, `BusyMeansDraining`. They depend on each other: that
`queue_size_` never falls below zero (types) needs that it is the length of the
queue; that the popped message is the next one needs that the queue's numbers
end at `posted`, and the count of what was processed; `busy_` after a drain is
zero because the queue is empty. `PushNumbers` and `PopNumbers` are the lemmas
about the numbered queue; one lemma per action follows. `ImplementsOrderedDelivery`
maps each step: Post is a Submit, Run is a Deliver, the others are invisible.

*ReadWriteLockProofs.* Inductive invariant `IInv`: types, `CountersMatch`,
`Exclusion`, `NoLostWakeup`. The code decides by counters, the properties are
about threads: `CountersTell` translates one into the other and `Recount` is
the arithmetic of a thread that enters or leaves a set. `WriteTakes` is where
exclusion comes from; `Leaves`, `OneWriterNotified` and `AllReadersNotified`
are where no wakeup is lost. `WritersFirst` and `ImplementsReadersWriters` are
action properties from the same invariant.

*MasterCycleProofs.* The bound of the population is not inductive: what the
master will fork, and why, has to be counted too. `Budget` says that the
children alive, those still to be forked for the start or for `fork_count`,
the deaths not yet handled and the pending SIGCHLD together never exceed the
workers and the stops. `Balance` is the arithmetic, and each action moves a
child from one summand to another or loses it. `OneEscapes` is the same count
after SIGTERM: all but the child that Fork has not returned are listed, and
killed. `BootOrder` keeps signals out of the start, where no handler is
installed.

*AofDeliverProofs.* `DeliveredInOrder` is the ordering result without counting
or filtering: what was sent, dropped, is held and queued for a backend is
increasing, belongs to the backend by its key, lies before all that waits in
`commands_`, and every command read and not ignored is in one of these
(`Ordered`). `LinesMove` shows that a worker moves a command along its line,
`OrderedSend` and `OrderedPush` that the two steps that lengthen a line keep
the order; both are about plain sequences and know nothing of the program.
The file is taken as it was read (`Log`): `KeysKept` says that a read that
fails gives its command a key and leaves those of all that was read before.
`Kept` (what waits was read, and is no SELECT) is what makes `Route` defined, and `HandsEmpty`
that nothing is sent after a failed write. `Noticed` extends
`OverlookedOnlyIfMissed` to a track thread that is about to sleep. `OrderIsFileOrder`
unfolds `InFileOrder` from it. For the statistics `CountNext` follows the set
of the commands that were read and not ignored, which Push alone extends, by
one element (`HandledMoves`), and `FinishedNext` the places written to the
backends, which a successful Write extends by one (`AppendedOne`).

*MetaAllocatorProofs.* `Locking` (types, `OneHolder`, `OffsetIsEnd`) is
inductive without any condition on the sizes: a lock is taken by `LockTakes`,
given up by `HolderLeaves`, and in between only its holder changes the size of
the bundle (`HolderKeeps`). The append-only store needs more: `Stored` adds
that every piece lies inside its file, that requests are not empty, and that
offsets fit into an int. The last holds only under `LimitFits`, the hypothesis
of `ImplementsAppendOnlyStore`, which is what the run `bundles_lp64` shows to
be missing where `size_t` is wider. `WritersAreUsable` needs `NewBundleFits`
besides: an upload larger than a bundle gets a new bundle all the same, as the
limit is compared with what is there. `MaxId`, a bound of the model, is a guard
of `NextId` and `Rewind`; the theorems hold for every value of it.

*AsyncRunnerProofs.* `OnePlace` (a queued call is in the queue once, a running
one with one thread) is what lets the counters be exact: `Recount` follows the
sets `BusyCalls` and `TaskCalls` through the steps of `CallsMove`. `Stops`
follows the group through Stop: all that live are in the group or being
created, and what Check adds after `join_all` is one thread.

*ContinuumProofs.* `RingIsBuilt` (the ring is one of those of the targets it
was built from) gives `HashesStay` by the order of points alone, for any hash
function; `ReadsInOrder` (a Rebuild not overtaken has read nothing older than
what is installed) gives `OnlyOvertakenGoBack`.

*PartsProofs.* Each part has its own inductive invariant over the variables of
Parts; a lemma (`CacheStep`, `ProxyStep`, `PoolStep`, `ProcessStep`) says first
that a step of Parts is one of its actions or leaves it alone.

- HashCache, `CacheInv`. `ListMatchesMap` is not inductive: that an erased
  entry is not the one another key's iterator points to needs `EntriesDiffer`,
  that no two entries are of the same Insert. `RemovedAt` is what a list is
  without one of its elements; `TouchKeepsList`, `EraseKeepsList`,
  `InsertKeepsList` and `ReplaceKeepsList` follow. `OversizeIsAnswered` is
  about sizes: `CachedFits` compares the map with the list, `SizeAfter` says
  how an entry changes the size, `ReplaceCutsBack` what a Replace leaves, and
  `ReplaceIsDue` why the subtraction in Replace wraps only after an Erase.
- ProxyServer, `ProxyInv`. Three facts for each client: what a read has brought
  is the front of `buffer_` and comes next (`ReadComesNext`), what was written
  is older (`OutIsBehind`), and nothing is missing before a write is cut
  (`OutIsWhole`). They need each other: the echo is in order because the buffer
  is, and the buffer's front is what has not been answered because the output
  ends there. The replies of RedisProxyServer carry nothing to order.
- ThreadPool, `PoolInv`. `StaleOnlyIfErased` speaks of the end of a behaviour,
  so the invariant says what was true before: the list holds live Workers, each
  once, not the one that Shrunk deletes, and whoever is not in it has been
  closed (`ListedAreAlive`); who has come back from GetIdle, or is in it, holds
  one of the list or one erased since (`TargetsAreKnown`); `i_` is in the list
  or at a Worker that was closed (`CursorIsKnown`). `ScanHasMutex` keeps Shrunk
  out while GetIdle reads the Workers one by one, and `MessageIsSet` says that
  who posts has a message. `WorkersKept` and `TargetKept` carry list and targets
  through a step, `CreatedIsListed` and `AfterIsListed` are the facts about
  Create and `i_++`, and one lemma per action follows.
- FastcgiProcess, `ProcessInv`. A thread that has taken a request since the
  signal is in it or has left (`TakenOnce`); what ends the process in order is
  a main thread that has left its loop (`MainIsLeft`).
- AsyncRunner and Continuum. Their theorems are about the modules alone.
  `RunnerStep` and `RingStep` show that every step of Parts is one of theirs or
  a stutter, so `Spec` of Parts implies theirs, and the theorems carry over.

Proved and not run, because they say less than what is run: `Accounting`,
`InOrder`, `BusyMeansDraining`, `Exclusion`, the two `CountersMatch`,
`OnePlace`, and the types (`TypeOK`) of `MessageQueue`, `ReadWriteLock`,
`MasterCycle`, `AofDeliver` and `AsyncRunner`. The `TypeOK` of `HashCache`,
`ProxyServer`, `ThreadPool` and `FastcgiProcess` are conjuncts of the
invariants above.

Only model-checked is liveness, which is out of the prover's reach:
`PostedIsRun`, `CloseReturns`, `SomeWriterGetsIn`, `ReaderGetsIn`,
`ZombiesAreReaped`, `PausedDeathIsAnswered`, `TerminationEnds`,
`AppendedIsRead`, `ReadIsSent`, `StopEnds`, `AllocateEnds`, `GrowsWhenBusy`,
`CallsEnd`, `QuitEnds`, `PostsEnd` and `ClientsAreServed`. The `TypeOK` of
`Continuum` and of `MetaAllocator` document the variables; no run names them.

## 5. Not modelled

`PROJECT.json` gives the reason for every part. In short:

- Text and layout: HTTP headers, cookies, dates, query and multipart parsing,
  templates, url patterns, the bundle file layout, `htmlsax`. They are
  sequential, have no state between calls, and are about characters; a model
  would repeat their text. That holds for the parser of `htmlsax/parser.h`
  too: one thread, one buffer, one pass.
- Wiring and I/O: registration, configuration, plug-ins, listening sockets,
  logging and its rotation, image conversion.
- `base3` files taken from Chromium (strings, time, processes, histograms,
  metrics), `3rdparty`, `testing`: vendored. They and the unit tests are most
  of the lines of the repository; what is modelled here is the concurrent
  part of the rest, so the share of all lines that the map covers stays small.
- `Async`, the older sibling of AsyncRunner with one thread and no Check.

Hazards without a property: a partial `write_some` of the deliverer (bytes are
abstracted), the file that redis replaces by renaming, the signals a child
forwards to its siblings before it has its own handlers.

## 6. Plan

1. `AofDeliver` with bytes: partial writes and the rewritten file.
2. `MasterCycle` composed with several `FastcgiProcess`: the forwarded signals.
3. `Sixty`: ToSixty and FromSixty as functions against each other.
4. `PCount`: the ring of pushed counters read while it is written.
5. Theorems: the histories of `ThreadPool` (`posted` against what is queued)
   and the types of `Continuum`.
