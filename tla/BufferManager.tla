---------------------------- MODULE BufferManager ----------------------------
(***************************************************************************)
(* The buffer manager: NewPage, FetchPage, FlushPage, FlushAllPages and    *)
(* DeletePage called by any number of threads (callers, or the workers of  *)
(* the async executor, which run the same functions), and the page guards  *)
(* those calls return.                                                     *)
(*                                                                         *)
(* Every function holds mutex_ except while it waits on state_changed_ or  *)
(* does disk I/O.  So one action is one critical section, from taking the  *)
(* mutex to releasing it, or one I/O call made without it; threads         *)
(* interleave between actions.  pc[t] says which section thread t runs     *)
(* next; "lock" is the head of a function's for(;;) loop, reached on the   *)
(* call and again after each wait.                                         *)
(*                                                                         *)
(* The three components under the mutex appear by their contracts: the     *)
(* page table by its entries, the frame allocator by the set of allocated  *)
(* frames, the replacer by the sets of known and of evictable frames.      *)
(* Where a contract leaves a choice open (which unused id, which free      *)
(* frame, which victim) the action may take any.                           *)
(***************************************************************************)
EXTENDS Naturals, FiniteSets, PageTableEntries

CONSTANTS
  Threads,      \* callers and async workers
  Pages,        \* page ids 0 .. max_page_count - 1
  Frames,       \* frame ids 0 .. frame_count - 1
  Images,       \* page images that clients store
  ZeroPage,     \* the image of a fresh page
  TornPage,     \* what a partly completed transfer leaves behind
  NoPage,       \* std::nullopt in FrameMeta::page_id
  Calls,        \* the public functions that clients call
  IoFaults,     \* whether pread and pwrite may fail
  PinMax,       \* numeric_limits<uint32_t>::max(), the type of pin_count
  MaxEpoch      \* bound on dirty_epoch

ConstantAssumption ==
  /\ IsFiniteSet(Threads) /\ IsFiniteSet(Pages)
  /\ NoPage \notin Pages /\ NoFrame \notin Frames
  /\ Calls \subseteq {"NewPage", "FetchPage", "FlushPage", "FlushAllPages",
                      "DeletePage"}
  /\ IoFaults \in BOOLEAN
  /\ PinMax \in Nat \ {0}
  /\ MaxEpoch \in Nat

ASSUME Constants == ConstantAssumption

VARIABLES
  pages,        \* page_table_: the entries
  meta,         \* frame_meta_
  allocated,    \* frame_allocator_: the allocated frames
  present,      \* replacer_: the frames it knows ...
  evictable,    \* ... and those it may return from Victim
  image,        \* the bytes of each frame
  disk,         \* the page area of the file, as pread would return it
  guard,        \* guard[t][p]: frame of the PageGuard for p that t obtained
  sleeping,     \* threads blocked in state_changed_.wait
  pc,           \* the next section of each thread
  loc,          \* its arguments and local variables
  unmarked      \* history: frames changed since the last MarkDirty on them

vars == <<pages, meta, allocated, present, evictable, image, disk, guard,
          sleeping, pc, loc, unmarked>>

-----------------------------------------------------------------------------
(* State.                                                                  *)

FrameMeta(page_id, pin_count, dirty, dirty_epoch, state) ==
  [page_id |-> page_id, pin_count |-> pin_count, dirty |-> dirty,
   dirty_epoch |-> dirty_epoch, state |-> state]

FreeMeta == FrameMeta(NoPage, 0, FALSE, 0, "kFree")

Content == Images \cup {ZeroPage, TornPage}

\* op, page_id: the call.  frame_id, old_page_id, dirty, epoch: locals of
\* the acquire and flush code.  todo: FlushAllPages' remaining dirty_pages.
NoCall ==
  [op |-> "none", page_id |-> NoPage, frame_id |-> NoFrame,
   old_page_id |-> NoPage, dirty |-> FALSE, epoch |-> 0, todo |-> {}]

Init ==
  /\ pages = [p \in Pages |-> UnusedEntry]
  /\ meta = [f \in Frames |-> FreeMeta]
  /\ allocated = {} /\ present = {} /\ evictable = {}
  /\ image = [f \in Frames |-> ZeroPage]
  /\ disk = [p \in Pages |-> ZeroPage]
  /\ guard = [t \in Threads |-> [p \in Pages |-> NoFrame]]
  /\ sleeping = {}
  /\ pc = [t \in Threads |-> "idle"]
  /\ loc = [t \in Threads |-> NoCall]
  /\ unmarked = {}

\* Mutant: only frames that are being loaded count.
HasLoadingFrame == \E f \in Frames : meta[f].state = "kLoading"

\* HasTransientFrameLocked
HasTransientFrame ==
  \E f \in Frames : meta[f].state \in {"kLoading", "kEvicting"}

-----------------------------------------------------------------------------
(* Building blocks of the sections.                                        *)

Goto(t, label) == pc' = [pc EXCEPT ![t] = label]

\* The function returns or throws; its locals are gone.
Return(t) ==
  /\ Goto(t, "idle")
  /\ loc' = [loc EXCEPT ![t] = NoCall]

\* Thread t has the mutex at the head of the loop of op.
Locked(t, op) == pc[t] = "lock" /\ t \notin sleeping /\ loc[t].op = op

\* Mutant: notify_one.
NotifyOne ==
  \/ sleeping = {} /\ sleeping' = {}
  \/ \E t \in sleeping : sleeping' = sleeping \ {t}

\* state_changed_.notify_all()
NotifyAll == sleeping' = {}

\* state_changed_.wait(lock)
Wait(t) == sleeping' = sleeping \cup {t} /\ UNCHANGED <<pc, loc>>

\* replacer_->Remove(f), also the last act of Victim
ReplacerRemove(f) ==
  /\ present' = present \ {f}
  /\ evictable' = evictable \ {f}

\* replacer_->RecordAccess(f); replacer_->SetEvictable(f, false)
ReplacerPin(f) ==
  /\ present' = present \cup {f}
  /\ evictable' = evictable \ {f}

\* ++pin_count, on uint32_t.
Pinned(m) == [m EXCEPT !.pin_count = (@ + 1) % (PinMax + 1)]

\* Mutant: the counter is taken to be large enough.
NoPinOverflows(m) == FALSE

\* "pin count overflow"
PinOverflows(m) == m.pin_count = PinMax

\* UnpinFrameLocked(f): the frame's metadata ...
Unpinned(m) == [m EXCEPT !.pin_count = @ - 1]

\* Mutant: evictable although others still pin the frame.
UnpinForAll(f) == evictable' = evictable \cup {f}

\* ... and SetEvictable(f, true) when the last pin is gone.
ReplacerUnpin(f) ==
  evictable' = IF meta[f].pin_count = 1 THEN evictable \cup {f} ELSE evictable

\* What a pwrite of image new over page image old leaves when it fails: none
\* of it, or some of the bytes.
PartialWrite(old, new) == IF old = new THEN {old} ELSE {old, TornPage}

-----------------------------------------------------------------------------
(* Calls.  A thread holds at most one guard per page (the model's bound on *)
(* guards: more guards on a page are more threads).                        *)

BeginCall(t, op, p) ==
  /\ pc[t] = "idle" /\ op \in Calls
  /\ Goto(t, "lock")
  /\ loc' = [loc EXCEPT ![t] = [NoCall EXCEPT !.op = op, !.page_id = p]]
  /\ UNCHANGED <<pages, meta, allocated, present, evictable, image, disk,
                 guard, sleeping, unmarked>>

Call(t) ==
  \/ BeginCall(t, "NewPage", NoPage)
  \/ BeginCall(t, "FlushAllPages", NoPage)
  \/ \E p \in Pages : \/ BeginCall(t, "FlushPage", p)
                      \/ BeginCall(t, "DeletePage", p)
                      \/ guard[t][p] = NoFrame /\ BeginCall(t, "FetchPage", p)

-----------------------------------------------------------------------------
(* Acquiring a frame: AcquireFrameLocked and AcquireFrameForFetchLocked    *)
(* share these sections.  A victim leaves the replacer and is written back *)
(* without the mutex.                                                      *)

\* No free frame, no victim, and nothing in flight: "no frame available".
NoFrameAvailable ==
  allocated = Frames /\ evictable = {} /\ ~HasTransientFrame

\* No free frame and no victim, but a frame is in flight: wait.
MustWaitForFrame == allocated = Frames /\ evictable = {} /\ HasTransientFrame

\* Where the evicting call goes without the mutex.
\* Mutant: a dirty victim is not written back.
NoWriteBack(dirty) == "evicted"

WriteBack(dirty) == IF dirty THEN "evictWrite" ELSE "evicted"

\* Thread t, working for page p on table pt, starts to evict frame f.
StartEviction(t, p, f, pt) ==
  /\ pages' = SetEvicting(pt, meta[f].page_id)
  /\ meta' = [meta EXCEPT ![f] = [@ EXCEPT !.state = "kEvicting"]]
  /\ ReplacerRemove(f)
  /\ loc' = [loc EXCEPT ![t] = [@ EXCEPT !.page_id = p, !.frame_id = f,
                                         !.old_page_id = meta[f].page_id,
                                         !.dirty = meta[f].dirty,
                                         !.epoch = meta[f].dirty_epoch]]
  /\ Goto(t, WriteBack(meta[f].dirty))
  /\ UNCHANGED <<allocated, image, disk, guard, sleeping, unmarked>>

\* disk_manager_.WritePage(old_page_id, old_page), without the mutex.
EvictWrite(t) ==
  /\ pc[t] = "evictWrite"
  /\ \/ /\ disk' = [disk EXCEPT ![loc[t].old_page_id] = image[loc[t].frame_id]]
        /\ Goto(t, "evicted")
     \/ /\ IoFaults
        /\ \E c \in PartialWrite(disk[loc[t].old_page_id],
                                 image[loc[t].frame_id]) :
             disk' = [disk EXCEPT ![loc[t].old_page_id] = c]
        /\ Goto(t, "evictFailed")
  /\ UNCHANGED <<pages, meta, allocated, present, evictable, image, guard,
                 sleeping, loc, unmarked>>

\* NewPage's catch block: give the id back unless someone else moved it on.
Rollback(pt, p) == IF CanFree(pt, p) THEN MakeUnused(pt, p) ELSE pt

\* Mutant: the page table is left out of the restoration.
NotRestored(pt, t) == pt

\* RestoreEvictedFrameLocked on the old page.
Restored(pt, t) ==
  IF pt[loc[t].old_page_id].state = "kEvicting"
  THEN SetResident(SetNonResident(pt, loc[t].old_page_id),
                   loc[t].old_page_id, loc[t].frame_id)
  ELSE pt

\* The write-back failed: restore the victim, rethrow out of the call.
EvictFailed(t) ==
  /\ pc[t] = "evictFailed"
  /\ pages' = IF loc[t].op = "NewPage"
              THEN Rollback(Restored(pages, t), loc[t].page_id)
              ELSE Restored(pages, t)
  /\ meta' = [meta EXCEPT ![loc[t].frame_id] =
                FrameMeta(loc[t].old_page_id, 0, loc[t].dirty, loc[t].epoch,
                          "kResident")]
  /\ present' = present \cup {loc[t].frame_id}
  /\ evictable' = evictable \cup {loc[t].frame_id}
  /\ NotifyAll
  /\ Return(t)
  /\ UNCHANGED <<allocated, image, disk, guard, unmarked>>

-----------------------------------------------------------------------------
(* NewPage.                                                                *)

\* The id the call works for, and the table once it has been allocated: the
\* first section allocates it, later ones find it in loc.
NewPageIds(t) ==
  IF loc[t].page_id = NoPage
  THEN {p \in Pages : pages[p].state = "kUnused"} ELSE {loc[t].page_id}

NewPageTable(t, p) ==
  IF loc[t].page_id = NoPage THEN MakeAllocated(pages, p) ELSE pages

\* Zero the frame and publish it as page p.  The id was visible while the
\* mutex was released: if p is by now resident, loading elsewhere or deleted,
\* SetResident throws after the metadata has been written.
PublishNewPage(t, p, f, pt) ==
  /\ image' = [image EXCEPT ![f] = ZeroPage]
  /\ unmarked' = unmarked \ {f}
  /\ meta' = [meta EXCEPT ![f] = FrameMeta(p, 1, TRUE, 1, "kResident")]
  /\ \/ /\ CanSetResident(pt, p, f)
        /\ pages' = SetResident(pt, p, f)
        /\ ReplacerPin(f)
        /\ guard' = [guard EXCEPT ![t] = [@ EXCEPT ![p] = f]]
     \/ /\ ~CanSetResident(pt, p, f)
        /\ pages' = Rollback(pt, p)
        /\ UNCHANGED <<present, evictable, guard>>
  /\ NotifyAll
  /\ Return(t)
  /\ UNCHANGED disk

\* "maximum number of pages reached"
NewPageNoId(t) ==
  /\ Locked(t, "NewPage")
  /\ NewPageIds(t) = {}
  /\ Return(t)
  /\ UNCHANGED <<pages, meta, allocated, present, evictable, image, disk,
                 guard, sleeping, unmarked>>

NewPageFreeFrame(t) ==
  /\ Locked(t, "NewPage")
  /\ \E p \in NewPageIds(t), f \in Frames \ allocated :
       /\ allocated' = allocated \cup {f}
       /\ PublishNewPage(t, p, f, NewPageTable(t, p))

NewPageEvict(t) ==
  /\ Locked(t, "NewPage")
  /\ allocated = Frames
  /\ \E p \in NewPageIds(t), f \in evictable :
       StartEviction(t, p, f, NewPageTable(t, p))

NewPageWait(t) ==
  /\ Locked(t, "NewPage")
  /\ MustWaitForFrame
  /\ \E p \in NewPageIds(t) :
       /\ pages' = NewPageTable(t, p)
       /\ loc' = [loc EXCEPT ![t] = [@ EXCEPT !.page_id = p]]
  /\ sleeping' = sleeping \cup {t}
  /\ UNCHANGED <<meta, allocated, present, evictable, image, disk, guard, pc,
                 unmarked>>

NewPageNoFrame(t) ==
  /\ Locked(t, "NewPage")
  /\ NoFrameAvailable
  /\ \E p \in NewPageIds(t) : pages' = Rollback(NewPageTable(t, p), p)
  /\ NotifyAll
  /\ Return(t)
  /\ UNCHANGED <<meta, allocated, present, evictable, image, disk, guard,
                 unmarked>>

\* The victim has been written back: its frame becomes the new page.
NewPageEvicted(t) ==
  /\ pc[t] = "evicted" /\ loc[t].op = "NewPage"
  /\ PublishNewPage(t, loc[t].page_id, loc[t].frame_id,
                    SetNonResident(pages, loc[t].old_page_id))
  /\ UNCHANGED allocated

-----------------------------------------------------------------------------
(* FetchPage.                                                              *)

\* PinResidentFrameLocked and MakeGuardLocked.
Pin(t, p, f, mt) ==
  /\ meta' = [mt EXCEPT ![f] = Pinned(@)]
  /\ ReplacerPin(f)
  /\ guard' = [guard EXCEPT ![t] = [@ EXCEPT ![p] = f]]

\* One turn of FetchPage's loop on table pt, metadata mt and waiting threads
\* sl when page p does not need a frame.
FetchTurn(t, p, pt, mt, sl) ==
  /\ pages' = pt
  /\ \/ /\ \/ pt[p].state = "kUnused"      \* "cannot fetch an unused page"
           \/ /\ pt[p].state = "kResident" \* "pin count overflow"
              /\ PinOverflows(mt[pt[p].frame_id])
        /\ Return(t)
        /\ meta' = mt /\ sleeping' = sl
        /\ UNCHANGED <<present, evictable, guard>>
     \/ /\ pt[p].state = "kResident"
        /\ ~PinOverflows(mt[pt[p].frame_id])
        /\ Pin(t, p, pt[p].frame_id, mt)
        /\ Return(t)
        /\ sleeping' = sl
     \/ /\ Transient(pt, p)
        /\ Goto(t, "lock")
        /\ loc' = [loc EXCEPT ![t] = [NoCall EXCEPT !.op = "FetchPage",
                                                    !.page_id = p]]
        /\ meta' = mt /\ sleeping' = sl \cup {t}
        /\ UNCHANGED <<present, evictable, guard>>

\* Frame f is ours: page p is loading, and the mutex is released to read it.
StartLoad(t, p, f, pt) ==
  /\ pages' = SetLoading(pt, p, f)
  /\ meta' = [meta EXCEPT ![f] = FrameMeta(p, 1, FALSE, 0, "kLoading")]
  /\ loc' = [loc EXCEPT ![t] = [NoCall EXCEPT !.op = "FetchPage",
                                              !.page_id = p, !.frame_id = f]]
  /\ Goto(t, "read")
  /\ UNCHANGED <<present, evictable, guard>>

FetchLookup(t) ==
  /\ Locked(t, "FetchPage")
  /\ pages[loc[t].page_id].state # "kNonResident"
  /\ FetchTurn(t, loc[t].page_id, pages, meta, sleeping)
  /\ UNCHANGED <<allocated, image, disk, unmarked>>

FetchFreeFrame(t) ==
  /\ Locked(t, "FetchPage")
  /\ pages[loc[t].page_id].state = "kNonResident"
  /\ \E f \in Frames \ allocated :
       /\ allocated' = allocated \cup {f}
       /\ StartLoad(t, loc[t].page_id, f, pages)
  /\ UNCHANGED <<image, disk, sleeping, unmarked>>

FetchEvict(t) ==
  /\ Locked(t, "FetchPage")
  /\ pages[loc[t].page_id].state = "kNonResident"
  /\ allocated = Frames
  /\ \E f \in evictable : StartEviction(t, loc[t].page_id, f, pages)

FetchWait(t) ==
  /\ Locked(t, "FetchPage")
  /\ pages[loc[t].page_id].state = "kNonResident"
  /\ MustWaitForFrame
  /\ Wait(t)
  /\ UNCHANGED <<pages, meta, allocated, present, evictable, image, disk,
                 guard, unmarked>>

FetchNoFrame(t) ==
  /\ Locked(t, "FetchPage")
  /\ pages[loc[t].page_id].state = "kNonResident"
  /\ NoFrameAvailable
  /\ Return(t)
  /\ UNCHANGED <<pages, meta, allocated, present, evictable, image, disk,
                 guard, sleeping, unmarked>>

\* Mutant: the page's state is not looked at again.
AlwaysWanted(pt, p) == TRUE

\* After the eviction the page still needs the frame.
StillWanted(pt, p) == pt[p].state = "kNonResident"

\* The victim has been written back.  If someone else moved p on meanwhile,
\* the frame is freed and the loop turns again in the same section.
FetchEvicted(t) ==
  /\ pc[t] = "evicted" /\ loc[t].op = "FetchPage"
  /\ LET p  == loc[t].page_id
         f  == loc[t].frame_id
         pt == SetNonResident(pages, loc[t].old_page_id)
     IN \/ /\ StillWanted(pt, p)
           /\ StartLoad(t, p, f, pt)
           /\ NotifyAll
           /\ UNCHANGED allocated
        \/ /\ ~StillWanted(pt, p)
           /\ allocated' = allocated \ {f}
           /\ FetchTurn(t, p, pt, [meta EXCEPT ![f] = FreeMeta], {})
  /\ UNCHANGED <<image, disk, unmarked>>

\* disk_manager_.ReadPage(page_id, &frame), without the mutex.  It clears the
\* frame first; a failed read leaves it with some of the bytes.
ReadPage(t) ==
  /\ pc[t] = "read"
  /\ \/ /\ image' = [image EXCEPT ![loc[t].frame_id] = disk[loc[t].page_id]]
        /\ Goto(t, "loaded")
     \/ /\ IoFaults
        /\ image' = [image EXCEPT ![loc[t].frame_id] = TornPage]
        /\ Goto(t, "readFailed")
  /\ unmarked' = unmarked \ {loc[t].frame_id}
  /\ UNCHANGED <<pages, meta, allocated, present, evictable, disk, guard,
                 sleeping, loc>>

FetchLoaded(t) ==
  /\ pc[t] = "loaded"
  /\ LET p == loc[t].page_id
         f == loc[t].frame_id
     IN /\ meta' = [meta EXCEPT ![f] = [@ EXCEPT !.state = "kResident",
                                                 !.dirty = FALSE,
                                                 !.dirty_epoch = 0]]
        /\ pages' = SetResident(pages, p, f)
        /\ ReplacerPin(f)
        /\ guard' = [guard EXCEPT ![t] = [@ EXCEPT ![p] = f]]
  /\ NotifyAll
  /\ Return(t)
  /\ UNCHANGED <<allocated, image, disk, unmarked>>

FetchFailed(t) ==
  /\ pc[t] = "readFailed"
  /\ meta' = [meta EXCEPT ![loc[t].frame_id] = FreeMeta]
  /\ allocated' = allocated \ {loc[t].frame_id}
  /\ pages' = SetNonResident(pages, loc[t].page_id)
  /\ NotifyAll
  /\ Return(t)
  /\ UNCHANGED <<present, evictable, image, disk, guard, unmarked>>

-----------------------------------------------------------------------------
(* FlushPage and FlushAllPages.  FlushAllPages lists the dirty frames in   *)
(* one section and then calls FlushPage for each of them; the order of the *)
(* frames is left open.                                                    *)

DirtyPages ==
  {<<f, meta[f].page_id>> : f \in {g \in Frames : /\ meta[g].state = "kResident"
                                                  /\ meta[g].dirty
                                                  /\ meta[g].page_id # NoPage}}

\* The call goes on with one of the pages in todo, or returns.
FlushNext(t, todo) ==
  \/ todo = {} /\ Return(t)
  \/ \E e \in todo :
       /\ Goto(t, "lock")
       /\ loc' = [loc EXCEPT ![t] = [NoCall EXCEPT !.op = "FlushAllPages",
                                                   !.page_id = e[2],
                                                   !.todo = todo \ {e}]]

\* Thread t has the mutex at the head of FlushPage's loop.
FlushLocked(t) ==
  /\ \/ Locked(t, "FlushPage")
     \/ Locked(t, "FlushAllPages") /\ loc[t].page_id # NoPage

FlushAllList(t) ==
  /\ Locked(t, "FlushAllPages") /\ loc[t].page_id = NoPage
  /\ FlushNext(t, DirtyPages)
  /\ UNCHANGED <<pages, meta, allocated, present, evictable, image, disk,
                 guard, sleeping, unmarked>>

\* "cannot flush an unused page": thrown out of FlushAllPages as well.
FlushUnused(t) ==
  /\ FlushLocked(t)
  /\ pages[loc[t].page_id].state = "kUnused"
  /\ Return(t)
  /\ UNCHANGED <<pages, meta, allocated, present, evictable, image, disk,
                 guard, sleeping, unmarked>>

FlushWait(t) ==
  /\ FlushLocked(t)
  /\ Transient(pages, loc[t].page_id)
  /\ Wait(t)
  /\ UNCHANGED <<pages, meta, allocated, present, evictable, image, disk,
                 guard, unmarked>>

\* Mutant: a page that is being evicted counts as written.
FlushNothingEvicting(t) ==
  /\ FlushLocked(t)
  /\ \/ pages[loc[t].page_id].state \in {"kNonResident", "kEvicting"}
     \/ /\ pages[loc[t].page_id].state = "kResident"
        /\ ~meta[pages[loc[t].page_id].frame_id].dirty
  /\ FlushNext(t, loc[t].todo)
  /\ UNCHANGED <<pages, meta, allocated, present, evictable, image, disk,
                 guard, sleeping, unmarked>>

FlushNothing(t) ==
  /\ FlushLocked(t)
  /\ \/ pages[loc[t].page_id].state = "kNonResident"
     \/ /\ pages[loc[t].page_id].state = "kResident"
        /\ ~meta[pages[loc[t].page_id].frame_id].dirty
  /\ FlushNext(t, loc[t].todo)
  /\ UNCHANGED <<pages, meta, allocated, present, evictable, image, disk,
                 guard, sleeping, unmarked>>

\* Mutant: the frame is not pinned for the time of the write.
FlushStartUnpinned(t) ==
  /\ FlushLocked(t)
  /\ pages[loc[t].page_id].state = "kResident"
  /\ LET f == pages[loc[t].page_id].frame_id
     IN /\ meta[f].dirty
        /\ loc' = [loc EXCEPT ![t] = [@ EXCEPT !.frame_id = f,
                                               !.epoch = meta[f].dirty_epoch]]
  /\ Goto(t, "flushWrite")
  /\ UNCHANGED <<pages, meta, allocated, present, evictable, image, disk,
                 guard, sleeping, unmarked>>

\* The dirty frame is pinned, without an overflow check, and the mutex is
\* released.
FlushStart(t) ==
  /\ FlushLocked(t)
  /\ pages[loc[t].page_id].state = "kResident"
  /\ LET f == pages[loc[t].page_id].frame_id
     IN /\ meta[f].dirty
        /\ meta' = [meta EXCEPT ![f] = Pinned(@)]
        /\ evictable' = evictable \ {f}
        /\ loc' = [loc EXCEPT ![t] = [@ EXCEPT !.frame_id = f,
                                               !.epoch = meta[f].dirty_epoch]]
  /\ Goto(t, "flushWrite")
  /\ UNCHANGED <<pages, allocated, present, image, disk, guard, sleeping,
                 unmarked>>

\* What pwrite takes from frame f while page p's guards are in use: a client
\* that has begun to change the page and has not yet called MarkDirty may be
\* changing it during the copy.
FlushedImages(p, f) ==
  {image[f]} \cup
  {c \in {TornPage} : f \in unmarked /\ \E t \in Threads : guard[t][p] = f}

\* disk_manager_.WritePage(page_id, page), without the mutex.
FlushWrite(t) ==
  /\ pc[t] = "flushWrite"
  /\ \E c \in FlushedImages(loc[t].page_id, loc[t].frame_id) :
       \/ /\ disk' = [disk EXCEPT ![loc[t].page_id] = c]
          /\ Goto(t, "flushed")
       \/ /\ IoFaults
          /\ \E d \in PartialWrite(disk[loc[t].page_id], c) :
               disk' = [disk EXCEPT ![loc[t].page_id] = d]
          /\ Goto(t, "flushFailed")
  /\ UNCHANGED <<pages, meta, allocated, present, evictable, image, guard,
                 sleeping, loc, unmarked>>

\* Mutant: dirty_epoch is ignored.
CleanedAnyway(m, p, epoch) ==
  IF m.page_id = p /\ m.state = "kResident"
  THEN [m EXCEPT !.dirty = FALSE] ELSE m

\* The frame is clean only if nobody has marked it dirty since the capture.
Cleaned(m, p, epoch) ==
  IF m.page_id = p /\ m.state = "kResident" /\ m.dirty_epoch = epoch
  THEN [m EXCEPT !.dirty = FALSE] ELSE m

FlushDone(t) ==
  /\ pc[t] = "flushed"
  /\ LET f == loc[t].frame_id
     IN /\ meta' = [meta EXCEPT ![f] = Unpinned(Cleaned(@, loc[t].page_id,
                                                        loc[t].epoch))]
        /\ ReplacerUnpin(f)
  /\ NotifyAll
  /\ FlushNext(t, loc[t].todo)
  /\ UNCHANGED <<pages, allocated, present, image, disk, guard, unmarked>>

\* Mutant: the error path keeps the pin.
FlushFailedPinned(t) ==
  /\ pc[t] = "flushFailed"
  /\ NotifyAll
  /\ Return(t)
  /\ UNCHANGED <<pages, meta, allocated, present, evictable, image, disk,
                 guard, unmarked>>

\* The write failed: unpin and rethrow, out of FlushAllPages as well.
FlushFailed(t) ==
  /\ pc[t] = "flushFailed"
  /\ meta' = [meta EXCEPT ![loc[t].frame_id] = Unpinned(@)]
  /\ ReplacerUnpin(loc[t].frame_id)
  /\ NotifyAll
  /\ Return(t)
  /\ UNCHANGED <<pages, allocated, present, image, disk, guard, unmarked>>

-----------------------------------------------------------------------------
(* DeletePage.                                                             *)

\* Mutant: pins do not keep a page from being deleted.
NeverPinned(m) == FALSE

\* "cannot delete a pinned page"
IsPinned(m) == m.pin_count # 0

DeleteWait(t) ==
  /\ Locked(t, "DeletePage")
  /\ Transient(pages, loc[t].page_id)
  /\ Wait(t)
  /\ UNCHANGED <<pages, meta, allocated, present, evictable, image, disk,
                 guard, unmarked>>

\* An unused page is left alone; a pinned one cannot be deleted (throws).
DeleteRefused(t) ==
  /\ Locked(t, "DeletePage")
  /\ \/ pages[loc[t].page_id].state = "kUnused"
     \/ /\ pages[loc[t].page_id].state = "kResident"
        /\ IsPinned(meta[pages[loc[t].page_id].frame_id])
  /\ Return(t)
  /\ UNCHANGED <<pages, meta, allocated, present, evictable, image, disk,
                 guard, sleeping, unmarked>>

DeleteResident(t) ==
  /\ Locked(t, "DeletePage")
  /\ pages[loc[t].page_id].state = "kResident"
  /\ LET f == pages[loc[t].page_id].frame_id
     IN /\ ~IsPinned(meta[f])
        /\ ReplacerRemove(f)
        /\ meta' = [meta EXCEPT ![f] = FreeMeta]
        /\ allocated' = allocated \ {f}
  /\ pages' = MakeUnused(SetNonResident(pages, loc[t].page_id),
                         loc[t].page_id)
  /\ NotifyAll
  /\ Return(t)
  /\ UNCHANGED <<image, disk, guard, unmarked>>

DeleteNonResident(t) ==
  /\ Locked(t, "DeletePage")
  /\ pages[loc[t].page_id].state = "kNonResident"
  /\ pages' = MakeUnused(pages, loc[t].page_id)
  /\ NotifyAll
  /\ Return(t)
  /\ UNCHANGED <<meta, allocated, present, evictable, image, disk, guard,
                 unmarked>>

-----------------------------------------------------------------------------
(* Page guards.  A guard can be moved to another owner, so it is used and  *)
(* dropped whatever the thread that obtained it is doing; moving it leaves *)
(* the source empty and changes nothing here.                              *)

\* A client writes through PageGuard::page(), without the mutex.
ModifyPage(t, p, c) ==
  /\ guard[t][p] # NoFrame
  /\ image' = [image EXCEPT ![guard[t][p]] = c]
  /\ unmarked' = unmarked \cup {guard[t][p]}
  /\ UNCHANGED <<pages, meta, allocated, present, evictable, disk, guard,
                 sleeping, pc, loc>>

Marked(m) == [m EXCEPT !.dirty = TRUE, !.dirty_epoch = m.dirty_epoch + 1]

\* The number of changes is bounded by MaxEpoch.
MarkDirty(t, p) ==
  /\ guard[t][p] # NoFrame
  /\ meta[guard[t][p]].dirty_epoch < MaxEpoch
  /\ meta' = [meta EXCEPT ![guard[t][p]] = Marked(@)]
  /\ unmarked' = unmarked \ {guard[t][p]}
  /\ UNCHANGED <<pages, allocated, present, evictable, image, disk, guard,
                 sleeping, pc, loc>>

\* Mutant: the waiters are not told.
DropSilently(t, p) ==
  /\ guard[t][p] # NoFrame
  /\ guard' = [guard EXCEPT ![t] = [@ EXCEPT ![p] = NoFrame]]
  /\ meta' = [meta EXCEPT ![guard[t][p]] = Unpinned(@)]
  /\ ReplacerUnpin(guard[t][p])
  /\ UNCHANGED <<pages, allocated, present, image, disk, sleeping, pc, loc,
                 unmarked>>

DropPageGuard(t, p) ==
  /\ guard[t][p] # NoFrame
  /\ guard' = [guard EXCEPT ![t] = [@ EXCEPT ![p] = NoFrame]]
  /\ meta' = [meta EXCEPT ![guard[t][p]] = Unpinned(@)]
  /\ ReplacerUnpin(guard[t][p])
  /\ NotifyAll
  /\ UNCHANGED <<pages, allocated, present, image, disk, pc, loc, unmarked>>

UseGuard(t, p) ==
  \/ \E c \in Images : ModifyPage(t, p, c)
  \/ MarkDirty(t, p)
  \/ DropPageGuard(t, p)

-----------------------------------------------------------------------------
(* The specification.                                                      *)

\* A condition variable may wake a waiter without a notification.
SpuriousWake(t) ==
  /\ t \in sleeping
  /\ sleeping' = sleeping \ {t}
  /\ UNCHANGED <<pages, meta, allocated, present, evictable, image, disk,
                 guard, pc, loc, unmarked>>

NewPage(t) ==
  \/ NewPageNoId(t) \/ NewPageFreeFrame(t) \/ NewPageEvict(t)
  \/ NewPageWait(t) \/ NewPageNoFrame(t) \/ NewPageEvicted(t)

FetchPage(t) ==
  \/ FetchLookup(t) \/ FetchFreeFrame(t) \/ FetchEvict(t) \/ FetchWait(t)
  \/ FetchNoFrame(t) \/ FetchEvicted(t)
  \/ ReadPage(t) \/ FetchLoaded(t) \/ FetchFailed(t)

Evict(t) == EvictWrite(t) \/ EvictFailed(t)

FlushPage(t) ==
  \/ FlushAllList(t) \/ FlushUnused(t) \/ FlushWait(t) \/ FlushNothing(t)
  \/ FlushStart(t) \/ FlushWrite(t) \/ FlushDone(t) \/ FlushFailed(t)

DeletePage(t) ==
  \/ DeleteWait(t) \/ DeleteRefused(t) \/ DeleteResident(t)
  \/ DeleteNonResident(t)

\* A call that has begun takes its next step.
Step(t) ==
  NewPage(t) \/ FetchPage(t) \/ Evict(t) \/ FlushPage(t) \/ DeletePage(t)

Next ==
  \E t \in Threads :
    \/ Call(t)
    \/ Step(t)
    \/ SpuriousWake(t)
    \/ \E p \in Pages : UseGuard(t, p)

Spec == Init /\ [][Next]_vars

\* A runnable thread runs: it gets the mutex and its I/O calls return.
\* Clients need not call, use or drop anything, and no waiter is entitled to
\* a spurious wake-up.
Fairness == \A t \in Threads : WF_vars(Step(t))

LiveSpec == Spec /\ Fairness
=============================================================================
