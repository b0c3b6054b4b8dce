# Verification of the buffer manager

TLA+ models of the buffer manager in `src/`, the TLC runs that check them on
small instances and the TLAPS proofs of what holds for instances of any size.

## The system

A `BufferManager` caches pages of a file in a fixed pool of frames. Any number
of threads call it; the `...Async` functions run the same calls on a thread
pool. One mutex (`mutex_`) protects the metadata; it is released during disk
I/O and while waiting on the one condition variable (`state_changed_`).

| Component | State | Operations | Used by |
|---|---|---|---|
| `BufferManager` | `frame_meta_` (page, pins, dirty, epoch, state per frame) and the components below | `NewPage`, `FetchPage`, `FlushPage`, `FlushAllPages`, `DeletePage`, `Sync` | clients, async workers |
| `PageGuard` | page and frame it pins | `page`, `MarkDirty`, `Drop`, move, destructor | clients; calls back into `BufferManager` |
| `PageTable` | state and frame per page id, free list of ids | `AllocatePageId`, `FreePageId`, `SetLoading`, `SetResident`, `SetNonResident`, `SetEvicting` | `BufferManager`, under `mutex_` |
| `FrameAllocator` | bitmap, search hint, the frames' bytes | `AllocateFrame`, `FreeFrame`, `page` | `BufferManager`, under `mutex_` |
| `Replacer`, `ClockReplacer` | present / evictable / referenced flags, clock hand, counter | `RecordAccess`, `SetEvictable`, `Victim`, `Remove` | `BufferManager`, under `mutex_` |
| `DiskManager` | file, header | open and initialise, `ReadPage`, `WritePage`, `Sync`, close | `BufferManager`, without `mutex_` |
| `AsyncExecutor` | task queue, stop flag, workers | constructor, `Submit`, `WorkerLoop`, destructor | the `...Async` functions |

What is hard in this code, and what makes each component correct:

* **Concurrency.** `FetchPage`, `FlushPage` and the eviction inside `NewPage`
  and `FetchPage` release the mutex in the middle. What they found before must
  be found again, or be looked at again. Properties: the tables agree, a guard's
  frame holds its page, pins are exact, a page in transit has one owner.
* **Failure.** A read, a write-back or a flush may fail half-way, leaving a torn
  page on disk. Every table must be put back and the page must stay dirty.
  Property: the contents of a page change only by a client writing them.
* **Crashes.** A write reaches the medium with the next `Sync`. Properties: what
  was flushed before `Sync` survives; a synced file can be opened again; page
  I/O, however it is cut up, damages neither the header nor other pages.
* **Waiting.** All waiters share one condition variable. Properties: no lost
  wake-up; every call returns.
* **Bookkeeping.** Free list, bitmap, counters, the clock's two passes.
  Properties: each component implements the contract that `BufferManager`
  relies on.

## Modules

| Module | What it is |
|---|---|
| `PageTableEntries` | the transitions of a page-table entry, as operators, with the conditions under which `PageTable` does not throw |
| `BufferManager` | the calls and the guards; composes the components by their contracts |
| `BufferManagerProperties` | its invariants, action properties and liveness |
| `PageStore` | abstract specification: what clients see of the buffer manager |
| `BufferManagerClients` | careful clients, and the mapping that makes `BufferManager` a `PageStore` |
| `BufferManagerDurability` | `BufferManager` with `Sync`, restarts and power failures |
| `MCBufferManager`, `MCDurability` | small instances and symmetry sets for TLC |
| `BufferManagerInvariant`, `BufferManagerProofs` | the inductive invariant and the proofs, for all clients |
| `BufferManagerClientProofs` | what clients can count on: the refinement of `PageStore` for careful ones, durability for all |
| `IdPool` | contract: ids are handed out and given back |
| `FrameAllocator`, `PageTable` | the two implementations of `IdPool` |
| `FrameAllocatorProofs`, `PageTableProofs` | their proofs |
| `Replacer` | contract of the replacement policy |
| `ClockReplacer`, `ClockReplacerProperties` | the clock, turn by turn, and what it promises |
| `ClockReplacerProofs` | its proofs |
| `AsyncExecutor`, `AsyncExecutorProofs` | the thread pool and its proofs |
| `DiskManager`, `MCDiskManager` | the file: constructor, page I/O, `Sync`, crashes; a small instance |
| `DiskManagerProofs` | its proofs |

Every definition that models code is listed with its source lines in
`PROJECT.json` under `map`. Operators that a comment calls a *mutant* are
plausible bugs, kept next to the definition that they would replace; they are
not used by any specification. `PROJECT.json` names, for each checked property,
the mutant that breaks it.

### `BufferManager`

`pages` is the page table, `meta` is `frame_meta_`, `allocated` the allocated
frames, `present` and `evictable` the replacer's flags, `image` the bytes of the
frames, `disk` those of the file, `guard[t][p]` the frame of the guard that `t`
obtained for `p`, `sleeping` the threads in `state_changed_.wait`. `pc` and
`loc` are a thread's next section and its locals. `unmarked` is a history
variable: frames changed since the last `MarkDirty`.

An action is one critical section of `mutex_` or one unlocked I/O call. `NewPage`
and `FetchPage` share the sections of an eviction: `StartEviction` (mark and
release), `EvictWrite` (the write-back), then `NewPageEvicted`, `FetchEvicted`
or `EvictFailed`. A fetch continues with `ReadPage` and `FetchLoaded` or
`FetchFailed`; a flush is `FlushStart`, `FlushWrite`, `FlushDone` or
`FlushFailed`. `NotifyAll` is part of each section that calls it.

What the contracts leave open (which unused id, which free frame, which victim)
is a nondeterministic choice, so the results hold for any replacer.

Contents are values, not bytes: client images, the zero page, and a torn page.
A failed write leaves the old page or a torn one; a failed read leaves a torn
frame; a flush that runs while a client with a guard is writing (a data race in
the code) may store a torn page.

### `PageStore`: what clients see

A page is absent or has contents; it is created with zeros, deleted when nobody
holds it, and changed only by writing through a guard. Frames, evictions, loads,
flushes and failures are invisible. The one thing that shows is `pending`: what
was written and not marked may be forgotten once nobody holds the page.

`ClientContent` maps the state of `BufferManager` to a page's contents: those of
its frame while it is resident or a dirty victim not yet written back, those of
the file otherwise. A page whose `NewPage` has not returned is absent.
`ImplementsPageStore` says that every step of `BufferManager` is a step of the
store or invisible. It holds for the clients of `CarefulSpec`, who fetch or
delete only pages that a `NewPage` has returned and delete none that they are
fetching. For others it does not: see run `orphan`.

### `BufferManagerDurability`: what is left

`unsynced` are the pages whose copy in the file may differ from the medium's.
`BeginSync` and `EndSync` are the call and the return of `fdatasync`; other
threads write pages in between. `PowerFailure` replaces any of the unsynced
pages and restarts the program, `Destroy` is the destructor, which flushes
nothing. `Remember` keeps the history of promises along each step of
`BufferManager`: a flush call *owes* the pages that it was asked for, as they
were when it began; when it returns normally they are *stored*; what is stored
when `Sync` begins is *durable* when it returns. A change of the page ends all
of its promises. `FlushAllPages` does not wait for a page that another thread is
evicting (run `flush_all`): with `FlushAllIsComplete = FALSE` it gives up what it
owes of the pages that it finds in eviction when it makes its list
(`Overlooked`), and of no others. An `EndSync` clears only the pages that it
promises from `unsynced`: what else `fdatasync` has written is left open.

### `DiskManager`

`bytes` and `size` are the file as `pread` sees it, counted in blocks: the
pieces of a page that one system call transfers whole. The constructor goes
through the stages `opened`, `header` (a fresh header is written in pieces),
`preallocate` and `open`, and may throw at each. `ReadPage` and `WritePage` are
one step per `pread` or `pwrite`. Sizes and offsets are computed modulo
`MaxUint64 + 1` and checked like the code does. `expected` is what each page
should contain, or `Unknown` after a failed write, after overlapping writes, or
after a power failure before `Sync`; `founded` are the options whose header is
known to be on the medium.

### The components

`ClockReplacer` keeps one set of frames per flag of `Entry` and makes each turn
of `Victim`'s loops a step, so that the loops need no recursion and can be
proved about. `FrameAllocator` keeps the bitmap as the set of its 1 bits.
`PageTable` adds the id allocator to `PageTableEntries`. A call that throws and
changes nothing is not a step. `AsyncExecutor` keeps apart the critical sections
and the `notify` calls that the code makes after releasing the mutex.

## Runs

| Run | Instance | Shows |
|---|---|---|
| `one_frame` | 2 threads, 2 pages, 1 frame, all calls, faults | `TypeOK`, `TablesAgree`, `GuardsAreSafe`, `PinsAreExact`, `CleanMatchesDisk`, `ContentIsStable` |
| `two_frames` | 2 threads, 3 pages, 2 frames, all calls, faults; `PinMax = 2`, no flush begins at this limit | `ReplacerIsExact`, `TransferIsExclusive`, `NoLostWakeup` with overlapping transfers, `PinsAreExact` where fetches overflow |
| `live` | 3 threads, 2 pages, 1 frame, faults, fair; no `FlushPage` by itself | `NoLostWakeup` and `SomeoneWillNotify` with several sleepers, `CallsReturn` |
| `store` | careful clients, 2 threads, 2 pages, 1 frame, all calls, faults | `ImplementsPageStore`, `NoOrphanFrames`, `OutOfFramesIsTrue` |
| `durable` | 2 threads, 2 pages, 1 frame; `NewPage`, `FlushPage`, `DeletePage`, `Sync`, restarts, power failures, faults | `FlushedIsStored`, `SyncedSurvives` |
| `disk` | 2 threads, pages of 2 blocks, 8 sets of options, crashes and power failures | `ReadReturnsLastWrite`, `SyncedFileOpens`, `RejectedFileIsUntouched` |
| `clock` | 4 frames | `CountIsExact`, `ImplementsReplacer`, `ChoosesFirstEligible` |
| `frames` | 8 frames, words of 3 bits | `CountIsExact`, `ImplementsFramePool`, with unused bits in the last word |
| `page_table` | 4 ids, 2 frames | `FreeListIsExact`, `ImplementsPageIds` |
| `async` | 3 workers, 2 clients, 4 tasks, fair | `TasksAreInOnePlace`, `DestroyedIsDrained`, `WorkIsNoticed`, `FuturesBecomeReady`, `DestructorReturns` |

Two runs end in a violation, each of one property that a test states and the
code does not keep:

* `orphan`: `NewPage` makes its id visible before it has a frame. If the id is
  fetched or deleted while the victim is written back, `SetResident` throws and
  the frame stays allocated, resident and pinned for no one.
* `flush_all`: `FlushAllPages` lists the dirty frames that are `kResident`. A
  dirty page that another thread is evicting is not listed, and `FlushAllPages`
  returns before it is written, or without it being written at all if the
  write-back fails. (`FlushPage` waits for such a page.) The run sets
  `FlushAllIsComplete = TRUE`; this race is the only way in which a flush call
  breaks its promise, as the proof below shows.

Three observations have no run of their own. A page that is deleted after
`FlushAllPages` made its list makes `FlushPage` throw, and the rest of the list
is not flushed (`FlushUnused`). `FlushPage` increments `pin_count` without the
overflow check of `PinResidentFrameLocked`: with `PinMax = 1` and `Spec`,
`PinsAreExact` fails. And `README.md` of the repository promises FIFO and LRU replacement,
while the only policy is the clock, which is neither.

### Bounds

* One frame for two pages makes every change of page an eviction; two frames
  for three pages let two transfers overlap. Three threads are a mover and two
  waiters.
* A thread holds at most one guard per page: more guards on a page are more
  threads. `Calls` restricts the calls of an instance.
* `durable` leaves `FetchPage` and `FlushAllPages` out, which multiply the states
  (with `FlushAllPages` there are 2.9 million, and the properties hold). The
  proofs cover both.
* `disk` uses 16 as the range of `uint64_t` and 8 as that of `off_t`, so that
  the options overflow the one, or only the other, or exactly neither, and a
  layout has a page that ends at the limit of `off_t` and one beyond it. Clients
  use every page. Pages of two blocks can be cut in two.
* `MaxEpoch` bounds `dirty_epoch` in `MarkDirty`: 2 lets a page be marked
  between the start and the end of a flush. `PinMax` stands for the largest
  `uint32_t`: it can be reached in `two_frames`, by two guards, or a guard and a
  flush, and not in the other runs.
* `Images` is one value, or empty where contents do not matter.
* Words of three bits, instead of 64, give several words and a partly used one.
* `Tasks` bounds the tasks ever submitted.

Threads, pages and frames are symmetric in the safety runs of `BufferManager`,
threads in `disk`; the runs `live` and
`async` use no symmetry.

### Fairness

`CallsReturn` assumes weak fairness of `Step(t)` for each thread: a thread that
can run gets the mutex in the end, and its I/O calls return. It assumes nothing
of clients (who may keep guards for ever) and no spurious wake-ups. The property
speaks of behaviours in which clients eventually stop making calls: the code
does not promise a waiter its turn while others keep taking the frames.
`AsyncExecutor` assumes the same of workers, of a client that has queued a task,
of the constructor and of a destructor that has begun; that a task ends is
`CallsReturn`.

`async` does not check for deadlock: a destroyed executor has nothing left to
do. The other runs do.

## Proofs

Each theorem holds for every value of the constants that satisfies the named
assumptions of its module, and for any number of steps. TLC also
finds every inductive invariant below to hold on the instance of its component's
run.

### `BufferManager`

The theorems about it are stated under `PinsFit`: `PinMax` is not smaller than
the number of possible holders of a frame. Without it they are false, because of
the unchecked increment above. Two theorems do without: `PinsExactToTheLimit` and
`GuardsSafeToTheLimit` hold for every `PinMax` of behaviours in which no flush
begins on a frame at the limit (`LimitedSpec`), so that this increment is the
only one that is missing a check.

*Tables and pins* (`BufferManagerProofs`, any clients): `TypeOK`, `TablesAgree`,
`GuardsAreSafe`, `PinsAreExact`, `ReplacerIsExact`, `TransferIsExclusive`. None
is inductive alone. `Inv` (in `BufferManagerInvariant`) joins them with
`CallsKeepTheirFrame` (a call that released the mutex finds its frame as it left
it) and `CallsAreWellFormed`. The argument: a frame that belongs to a call is in
transit (`kLoading` or `kEvicting`) or pinned by it; no section touches a frame
in transit that is not its own, and none evicts or deletes a pinned one; pins
are exact because each section changes `pin_count` and the set of `Holders`
together. The steps fall into a few kinds (pin, unpin, take a frame, give one
back, change nothing but locals and contents), each with a lemma; the proof then
has one lemma per action.

*Waiting*: `NoLostWakeup`. A sleeper waits for a page or a frame in transit
(`SleepersAreBlocked`); each section that ends a transit notifies everyone, and
no other section ends one. From it and `Inv` follows `SomeoneWillNotify`
(theorem `NoCircularWait`): the page in transit belongs to a call in the middle
of a transfer, and a thread in a transfer is not asleep. Calls therefore never
wait for each other in a circle, however many there are; that the awake one goes
on is what fairness adds in `CallsReturn`.

*Contents*: `CleanMatchesDisk` and the action property `ContentIsStable`. The
first is not inductive: a clean frame is made by a load or a flush, whose I/O
ran without the mutex. `ContentsInv` adds `TransfersAreTrue`, which says what
each such call knows when it takes the mutex again.

*Careful clients* (`BufferManagerClientProofs`, for `CarefulSpec`):
`NoOrphanFrames`, `OutOfFramesIsTrue` and the refinement `ImplementsPageStore`.
`CarefulInv` adds to `Inv` that a page being created is used by no one else
(`CarefulUse`); so a failing `NewPage` finds its page as it made it, and its
rollback is complete. A free frame is then taken by whoever needs one, a frame
in transit makes a call wait, an unpinned one is evicted: what is left when a
call gives up is pinned. The refinement rests on `ViewInv` (`CarefulInv`,
`ContentsInv`, and that a frame just loaded has no unmarked change): `ViewOf`
computes what clients see from the state of the page, and each action is shown
to leave the view alone or to be the one `PageStore` action. The mapping needs
`AbsentIsNoContent`: the value that stands for an absent page is not a content.

*Durability* (`BufferManagerClientProofs`, for `DurableSpec`, any clients):
`FlushedIsStored` and `SyncedSurvives`, when `FlushAllIsComplete` is `FALSE`
(otherwise run `flush_all` refutes the first). `DurableInv` joins `Inv`,
`ContentsInv` and what the history variables say of file and calls
(`PromisesAreKept`): a stored page is in the file as it is in its frame and has
no unmarked change (`Kept`), a durable one has also left `unsynced`, and each
page that a call owes is either kept already or still ahead of it (`Pays`): it
is the page the call is flushing, on its list, or the list is not made yet. The
argument has three parts. A page that is kept stays so until it is changed,
because whoever writes it (an eviction, another flush, a write that fails)
writes what the file has already (`FileWriters`, `WriteBackKeeps`, `FlushKeeps`).
A flush that leaves a page behind leaves it kept: it has written it, found it
clean, or found it evicted and so written by someone else; this is where
`CleanMatchesDisk` is needed, and the wait for pages in eviction. And the list of
`FlushAllPages` has every page that is neither kept nor in eviction. A restart
leads to a state that is initial but for the file (`Fresh`), so that `Inv` holds
again.

### The components

`ClockReplacerProofs`, any number of frames: `TypeOK`, `CountIsExact`,
`ChoosesFirstEligible` and the refinement `ImplementsReplacer`. Its invariant
`ScanInv` says what the scan has established at each turn: in the first pass the
evictable frames behind the hand were accessed and have lost their bits; in the
second none is referenced, and none behind the hand is evictable. So the scan
ends before its last turn.

`FrameAllocatorProofs`, any number of frames and any width of a word: `TypeOK`,
`CountIsExact` and the refinement `ImplementsFramePool`. `AllocatorInv` adds that
the bits past the last frame stay set (`TailIsMasked`). The refinement needs that
an allocation fails only when every frame is allocated: the probes
`(hint + i) % words` reach every word (`ProbesReachAll`), and a word is skipped
only when it is full.

`PageTableProofs`, any number of ids: `FreeListIsExact` and the refinement
`ImplementsPageIds`. `TableInv` adds that the free list holds only ids below
`next_page_id`.

`AsyncExecutorProofs`, any finite set of tasks and any workers:
`TasksAreInOnePlace`, `WorkIsNoticed`, `DestroyedIsDrained`. `PoolInv` adds what
the owner's progress says of the workers: one leaves its loop only when the pool
is stopping and the queue is empty, and the destructor returns when all have
left. No task is queued after the stop, so an empty queue stays empty.

`DiskManagerProofs`, any number of threads, any page size, any widths of
`uint64_t` and `off_t` (`DiskAssumption`: `off_t` is the narrower of the two, and
can express the size of a page): `TypeOK`, `ReadReturnsLastWrite`,
`SyncedFileOpens` and the action property `RejectedFileIsUntouched`. `DiskInv`
joins what is known of the file (its tail is zero, and so is what the medium
lacks), of the constructor's stage, of the header on the medium, of each call
under way (which of its blocks it has transferred, and that no one else writes
the page it answers for), and that a page with a known content has it in the
file. The arithmetic is proved first: the checks of `CheckedMul` and
`CheckedAdd` make the offsets exact whatever the widths, so that pages overlap
neither each other nor the header.

### Only model-checked

`CallsReturn`, `FuturesBecomeReady` and `DestructorReturns` are liveness under
fairness, which is beyond the prover. Every invariant and every action property
of the runs is proved.

## Not modelled

* The number of open descriptors: `DiskManager` leaks one when its constructor
  throws after `open`.
* The directory entry of a new file, which nobody syncs; a kernel that forgets
  unwritten blocks when `fdatasync` fails; direct I/O that stores two
  overlapping writes of one page in another order than it took them. In
  `BufferManager` a page write is one step.
* Moves of `PageGuard`s, which change the owner and nothing else: a guard of the
  model may be used whatever its thread is doing.
* Options and argument validation of `BufferManager`, ids out of range, null and
  misaligned buffers (they throw and change nothing).
* A replacer supplied by the client that breaks the contract of `Replacer`.
* Benchmarks and build files.

## Plan

1. *Done:* `BufferManager` with guards; the components' contracts and their
   implementations; the thread pool; the invariant of `BufferManager` and the
   correctness of the clock proved.
2. *Done:* `DiskManager` with crashes; `PageStore` and its refinement;
   durability of flushes.
3. *Done:* proofs of waiting, of contents, of the refinement of `PageStore`, and
   of every safety property of the components.
4. *Done:* proofs of durability, of the absence of circular waits, and of the
   behaviour at the limit of `pin_count`.
