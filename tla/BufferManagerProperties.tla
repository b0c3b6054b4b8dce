----------------------- MODULE BufferManagerProperties -----------------------
(***************************************************************************)
(* What makes the buffer manager correct: the state invariants, the        *)
(* action property on page contents, and the liveness of calls.            *)
(***************************************************************************)
EXTENDS BufferManager

(***************************************************************************)
(* Types.                                                                  *)
(***************************************************************************)

Labels == {"idle", "lock", "evictWrite", "evicted", "evictFailed", "read",
           "loaded", "readFailed", "flushWrite", "flushed", "flushFailed"}

Ops == {"none", "NewPage", "FetchPage", "FlushPage", "FlushAllPages",
        "DeletePage"}

FrameState == {"kFree", "kLoading", "kResident", "kEvicting"}

PageEntries == [state : PageState, frame_id : Frames \cup {NoFrame}]

FrameMetas ==
  [page_id : Pages \cup {NoPage}, pin_count : 0 .. PinMax, dirty : BOOLEAN,
   dirty_epoch : Nat, state : FrameState]

Locals ==
  [op : Ops, page_id : Pages \cup {NoPage}, frame_id : Frames \cup {NoFrame},
   old_page_id : Pages \cup {NoPage}, dirty : BOOLEAN, epoch : Nat,
   todo : SUBSET (Frames \X Pages)]

\* Every variable holds a value of the type that the class declares for it.
TypeOK ==
  /\ pages \in [Pages -> PageEntries]
  /\ meta \in [Frames -> FrameMetas]
  /\ allocated \subseteq Frames
  /\ present \subseteq Frames
  /\ evictable \subseteq Frames
  /\ image \in [Frames -> Content]
  /\ disk \in [Pages -> Content]
  /\ guard \in [Threads -> [Pages -> Frames \cup {NoFrame}]]
  /\ sleeping \subseteq Threads
  /\ pc \in [Threads -> Labels]
  /\ loc \in [Threads -> Locals]
  /\ unmarked \subseteq Frames

-----------------------------------------------------------------------------
(* Tables, pins and guards.                                                *)

\* Page p is in this state and in frame f.
PageIs(p, state, f) == pages[p].state = state /\ pages[p].frame_id = f

\* Frame f is the frame in which page p is resident.
Holds(f, p) == PageIs(p, "kResident", f)

\* The calls that have a frame of their own between two critical sections.
Evicting(t) == pc[t] \in {"evictWrite", "evicted", "evictFailed"}
Loading(t)  == pc[t] \in {"read", "loaded", "readFailed"}
Flushing(t) == pc[t] \in {"flushWrite", "flushed", "flushFailed"}

\* Page table, frame metadata and frame allocator agree: a page with a frame
\* finds itself, in the same state, in that frame's metadata, so that no two
\* pages share a frame and "inconsistent resident page metadata" is never
\* thrown; a frame in transit is some page's; and the allocator has handed
\* out exactly the frames in use.
TablesAgree ==
  /\ \A p \in Pages :
       \/ /\ pages[p].frame_id = NoFrame
          /\ pages[p].state \in {"kUnused", "kNonResident"}
       \/ /\ pages[p].frame_id \in Frames
          /\ pages[p].state \in {"kLoading", "kResident", "kEvicting"}
          /\ meta[pages[p].frame_id].page_id = p
          /\ meta[pages[p].frame_id].state = pages[p].state
  /\ \A f \in Frames :
       /\ f \in allocated <=> meta[f].state # "kFree"
       /\ meta[f].state \in {"kLoading", "kEvicting"} =>
            /\ meta[f].page_id \in Pages
            /\ pages[meta[f].page_id].frame_id = f

\* A valid guard refers to a frame that holds its page, however long it is
\* kept and whatever other threads do: so Page& stays meaningful, MarkDirty
\* and Drop never throw, and ~PageGuard never calls std::terminate.
GuardsAreSafe ==
  \A t \in Threads, p \in Pages :
    guard[t][p] # NoFrame =>
      /\ Holds(guard[t][p], p)
      /\ meta[guard[t][p]].page_id = p
      /\ meta[guard[t][p]].state = "kResident"

\* Everyone who relies on frame f staying where it is.
Holders(f) ==
  {h \in Threads \X (Pages \cup {NoPage}) :
     IF h[2] = NoPage
     THEN (Loading(h[1]) \/ Flushing(h[1])) /\ loc[h[1]].frame_id = f
     ELSE guard[h[1]][h[2]] = f}

\* pin_count of a frame in use is the number of guards, flushes and loads
\* that rely on it: UnpinFrameLocked never underflows, and a frame becomes
\* evictable exactly when the last of them is done.
PinsAreExact ==
  \A p \in Pages, f \in Frames :
    pages[p].frame_id = f => meta[f].pin_count = Cardinality(Holders(f))

\* The replacer knows exactly the resident frames and may offer exactly the
\* unpinned ones.  So SetEvictable never meets an unknown frame, the checks on
\* Victim's answer ("victim frame has no page", "replacer selected a pinned
\* frame", "victim frame is not resident") never fire, and no unpinned frame
\* is lost to eviction.
ReplacerIsExact ==
  \A f \in Frames :
    /\ f \in present <=> meta[f].page_id \in Pages /\ Holds(f, meta[f].page_id)
    /\ f \in evictable <=> f \in present /\ meta[f].pin_count = 0

\* A call that released the mutex finds its frame as it left it: the page it
\* evicts, loads or flushes is still in the state, and in the frame, it was.
KeepsItsFrame(t, f) ==
  /\ Evicting(t) => /\ f \in Frames /\ loc[t].old_page_id \in Pages
                    /\ PageIs(loc[t].old_page_id, "kEvicting", f)
                    /\ meta[f].pin_count = 0
  /\ Loading(t) => /\ f \in Frames
                   /\ PageIs(loc[t].page_id, "kLoading", f)
                   /\ meta[f].pin_count = 1
  /\ Flushing(t) => /\ f \in Frames
                    /\ Holds(f, loc[t].page_id)
                    /\ loc[t].epoch <= meta[f].dirty_epoch

CallsKeepTheirFrame == \A t \in Threads : KeepsItsFrame(t, loc[t].frame_id)

\* A page in transit, and the frame it uses, belong to one call: the thread
\* that reads it or writes it back without the mutex.  No one else reads,
\* writes or frees that frame meanwhile.
Moving(t) == Evicting(t) \/ Loading(t)

Exclusive(t, u) ==
  /\ Moving(t)
  /\ Moving(u) \/ Flushing(u)
  /\ loc[t].frame_id = loc[u].frame_id
  => t = u

Owned(p) ==
  Transient(pages, p) =>
    \E t \in Threads : Moving(t) /\ loc[t].frame_id = pages[p].frame_id

TransferIsExclusive ==
  /\ \A t, u \in Threads : Exclusive(t, u)
  /\ \A p \in Pages : Owned(p)

-----------------------------------------------------------------------------
(* Contents.                                                               *)

\* A clean resident page whose changes have all been marked equals its copy
\* on disk, so that it can be evicted without a write.  A flush that races
\* with a change must not make the page clean (dirty_epoch), and a failed or
\* torn write-back must not either.
CleanMatchesDisk ==
  \A p \in Pages :
    LET f == pages[p].frame_id
    IN /\ pages[p].state = "kResident"
       /\ ~meta[f].dirty
       /\ f \notin unmarked
       => image[f] = disk[p]

\* What CleanMatchesDisk rests on between the sections of a call: what has
\* been read or written is what is there, unless a client is changing it or
\* has marked the change, which the captured epoch shows.
TransfersAreTrue ==
  \A t \in Threads :
    LET f == loc[t].frame_id
    IN /\ pc[t] = "evictWrite" \/ pc[t] = "evictFailed" => loc[t].dirty
       /\ pc[t] = "evicted" /\ f \notin unmarked
            => image[f] = disk[loc[t].old_page_id]
       /\ pc[t] = "loaded" => image[f] = disk[loc[t].page_id]
       /\ pc[t] = "flushed" /\ loc[t].epoch = meta[f].dirty_epoch
                            /\ f \notin unmarked
            => image[f] = disk[loc[t].page_id]

\* What a client would find on page p.
PageContent(p) ==
  IF pages[p].state \in {"kResident", "kEvicting"}
  THEN image[pages[p].frame_id] ELSE disk[p]

\* A client may have changed page p without marking it dirty (yet).
Unmarked(p) ==
  pages[p].state \in {"kResident", "kEvicting"} /\ pages[p].frame_id \in unmarked

\* Page p is being created: NewPage has its id and not yet its frame.
BeingCreated(p) ==
  \E t \in Threads : loc[t].op = "NewPage" /\ loc[t].page_id = p

\* Flushing, evicting, loading, failed transfers and deletions of other pages
\* never change what is on a page that stays allocated: only a client writing
\* through a guard does, or the NewPage call that creates it.
ContentIsStable ==
  [][\A p \in Pages :
       /\ pages[p].state # "kUnused" /\ pages'[p].state # "kUnused"
       /\ ~BeingCreated(p)
       => PageContent(p)' = PageContent(p) \/ Unmarked(p) \/ Unmarked(p)']_vars

-----------------------------------------------------------------------------
(* The limit of pin_count.                                                 *)

\* FetchPage checks pin_count for overflow and FlushPage does not: no flush
\* may begin on a frame that has all the pins that uint32_t can count.
FlushHasRoom(t) ==
  FlushStart(t) => ~PinOverflows(meta[pages[loc[t].page_id].frame_id])

\* Clients may pin a page up to the limit, and try to go beyond it.
LimitedSpec == Init /\ [][Next /\ \A t \in Threads : FlushHasRoom(t)]_vars

-----------------------------------------------------------------------------
(* Waiting.                                                                *)

\* The condition for which sleeping thread t waits still holds.
StillBlocked(t) ==
  IF \/ loc[t].op = "NewPage"
     \/ loc[t].op = "FetchPage" /\ pages[loc[t].page_id].state = "kNonResident"
  THEN MustWaitForFrame
  ELSE Transient(pages, loc[t].page_id)

\* What the sections of a call may assume about its arguments.
WellFormed(t) ==
  /\ pc[t] = "idle" <=> loc[t].op = "none"
  /\ loc[t].op \in {"FetchPage", "FlushPage", "DeletePage"}
       => loc[t].page_id \in Pages
  /\ loc[t].op = "FetchPage" => guard[t][loc[t].page_id] = NoFrame
  /\ Evicting(t) => /\ loc[t].op \in {"NewPage", "FetchPage"}
                    /\ loc[t].page_id \in Pages
  /\ Loading(t) => loc[t].op = "FetchPage"
  /\ Flushing(t) => /\ loc[t].op \in {"FlushPage", "FlushAllPages"}
                    /\ loc[t].page_id \in Pages

CallsAreWellFormed == \A t \in Threads : WellFormed(t)

\* No lost wake-up: a thread asleep on state_changed_ has nothing to do.  The
\* page or the frame it waits for is still in transit, so that the call that
\* moves it will notify.
NoLostWakeup == \A t \in sleeping : pc[t] = "lock" /\ StillBlocked(t)

\* Threads never wait for each other in a circle: for every sleeper there is
\* a thread that is awake and moving a page, which notifies when it is done;
\* if the sleeper waits for a page, it is that page.
SomeoneWillNotify ==
  \A t \in sleeping : \E u \in Threads \ sleeping :
    /\ Moving(u)
    /\ loc[t].page_id \in Pages /\ Transient(pages, loc[t].page_id)
         => loc[u].frame_id = pages[loc[t].page_id].frame_id

\* Once clients stop making calls, every call returns: nobody waits forever
\* for a page or a frame in transit, no matter how reads and writes fail.
CallsReturn ==
  <>[][\A t \in Threads : ~Call(t)]_vars
    => \A t \in Threads : <>[](pc[t] = "idle")

-----------------------------------------------------------------------------
(* Frames.                                                                 *)

\* A resident frame is the frame of its page: NewPage rolls back when it
\* fails, so that no frame stays allocated and pinned for no one.  Clients
\* that use a page only once NewPage has returned it can count on this.
NoOrphanFrames ==
  \A f \in Frames : meta[f].state = "kResident" =>
    meta[f].page_id # NoPage /\ Holds(f, meta[f].page_id)
=============================================================================
