------------------------- MODULE BufferManagerProofs -------------------------
(***************************************************************************)
(* Proofs about the buffer manager, for any number of threads, pages and   *)
(* frames and whatever clients do: every action preserves Inv, and the     *)
(* safety properties follow; no wake-up is lost; and what is on a page is  *)
(* kept.                                                                   *)
(***************************************************************************)
EXTENDS BufferManagerInvariant

-----------------------------------------------------------------------------
(* Calls, waits and I/O without the mutex.                                 *)

\* A thread calls a function.
LEMMA CallInv ==
  ASSUME Inv, NEW t \in Threads, Call(t)
  PROVE  Inv'
<1>1. PICK op \in Calls, p \in Pages \cup {NoPage} :
        /\ BeginCall(t, op, p)
        /\ op \in {"FetchPage", "FlushPage", "DeletePage"} => p \in Pages
        /\ op = "FetchPage" => guard[t][p] = NoFrame
  <2>1. CASE BeginCall(t, "NewPage", NoPage)
    BY <2>1 DEF BeginCall
  <2>2. CASE BeginCall(t, "FlushAllPages", NoPage)
    BY <2>2 DEF BeginCall
  <2>3. ASSUME NEW p \in Pages, BeginCall(t, "FlushPage", p)
        PROVE  \E op \in Calls : /\ BeginCall(t, op, p)
                                 /\ op = "FetchPage" => guard[t][p] = NoFrame
    BY <2>3 DEF BeginCall
  <2>4. ASSUME NEW p \in Pages, BeginCall(t, "DeletePage", p)
        PROVE  \E op \in Calls : /\ BeginCall(t, op, p)
                                 /\ op = "FetchPage" => guard[t][p] = NoFrame
    BY <2>4 DEF BeginCall
  <2>5. ASSUME NEW p \in Pages, BeginCall(t, "FetchPage", p), guard[t][p] = NoFrame
        PROVE  \E op \in Calls : /\ BeginCall(t, op, p)
                                 /\ op = "FetchPage" => guard[t][p] = NoFrame
    BY <2>5 DEF BeginCall
  <2> QED BY <2>1, <2>2, <2>3, <2>4, <2>5 DEF Call
<1> DEFINE l == [NoCall EXCEPT !.op = op, !.page_id = p]
<1>2. /\ pc[t] = "idle" /\ pc' = [pc EXCEPT ![t] = "lock"]
      /\ loc' = [loc EXCEPT ![t] = l] /\ "lock" \in Labels
      /\ UNCHANGED <<pages, meta, allocated, present, evictable, image, disk,
                     guard, sleeping, unmarked>>
  BY <1>1 DEF BeginCall, Goto, Labels
<1>3. op \in Ops /\ op # "none"
  BY ConstantFacts DEF Ops
<1>4. l \in Locals /\ l.op = op /\ l.page_id = p
  BY <1>3 DEF NoCall, Locals
<1> HIDE DEF l
<1>5. /\ pc' \in [Threads -> Labels] /\ loc' \in [Threads -> Locals]
      /\ pc'[t] = "lock" /\ loc'[t] = l /\ OnlyThread(t)
  BY <1>2, <1>4, ThreadMoves DEF Inv
<1>6. TypeOK'
  BY <1>2, <1>5 DEF Inv, TypeOK
<1>7. WellFormed(t)'
  BY <1>1, <1>2, <1>3, <1>4, <1>5 DEF WellFormed, Evicting, Loading, Flushing
<1> QED BY <1>2, <1>5, <1>6, <1>7, QuietStep

\* The calls that return or throw and leave everything as it is ...
LEMMA RefusedInv ==
  ASSUME Inv, NEW t \in Threads,
         NewPageNoId(t) \/ FetchNoFrame(t) \/ FlushUnused(t) \/ DeleteRefused(t)
  PROVE  Inv'
<1>1. /\ Return(t) /\ pc[t] = "lock"
      /\ UNCHANGED <<pages, meta, allocated, present, evictable, image, disk,
                     guard, sleeping, unmarked>>
  BY DEF NewPageNoId, FetchNoFrame, FlushUnused, DeleteRefused, FlushLocked, Locked
<1> QED BY <1>1, QuietReturn DEF Inv, TypeOK

\* ... those that go to sleep ...
LEMMA WaitInv ==
  ASSUME Inv, NEW t \in Threads, FetchWait(t) \/ FlushWait(t) \/ DeleteWait(t)
  PROVE  Inv'
  BY QuietWait DEF FetchWait, FlushWait, DeleteWait

\* ... and wake up.
LEMMA SpuriousWakeInv ==
  ASSUME Inv, NEW t \in Threads, SpuriousWake(t)
  PROVE  Inv'
<1>1. TypeOK'
  BY DEF Inv, TypeOK, SpuriousWake
<1> QED BY <1>1, TransferStep DEF SpuriousWake, Evicting, Loading, Flushing

\* I/O without the mutex.
LEMMA EvictWriteInv ==
  ASSUME Inv, NEW t \in Threads, EvictWrite(t)
  PROVE  Inv'
<1>1. PICK q \in Pages, f \in Frames : q = loc[t].old_page_id /\ f = loc[t].frame_id
  BY BusyFrames DEF EvictWrite, Evicting
<1>2. image[f] \in Content /\ disk[q] \in Content /\ TornPage \in Content
  BY DEF Inv, TypeOK, Content
<1>3. PICK c \in Content : disk' = [disk EXCEPT ![q] = c]
  BY <1>1, <1>2 DEF EvictWrite, PartialWrite
<1>4. /\ pc' \in [Threads -> Labels] /\ pc'[t] \in {"evicted", "evictFailed"}
      /\ \A u \in Threads : u # t => pc'[u] = pc[u]
  BY DEF EvictWrite, Goto, Inv, TypeOK, Labels
<1>5. TypeOK'
  BY <1>3, <1>4 DEF Inv, TypeOK, EvictWrite
<1> QED BY <1>4, <1>5, TransferStep DEF EvictWrite, Evicting, Loading, Flushing

\* FetchPage reads the page.
LEMMA ReadPageInv ==
  ASSUME Inv, NEW t \in Threads, ReadPage(t)
  PROVE  Inv'
<1>1. PICK p \in Pages, f \in Frames : p = loc[t].page_id /\ f = loc[t].frame_id
  BY BusyFrames DEF ReadPage, Loading
<1>2. disk[p] \in Content /\ TornPage \in Content
  BY DEF Inv, TypeOK, Content
<1>3. PICK c \in Content : image' = [image EXCEPT ![f] = c]
  BY <1>1, <1>2 DEF ReadPage
<1>4. /\ pc' \in [Threads -> Labels] /\ pc'[t] \in {"loaded", "readFailed"}
      /\ \A u \in Threads : u # t => pc'[u] = pc[u]
  BY DEF ReadPage, Goto, Inv, TypeOK, Labels
<1>5. TypeOK'
  BY <1>3, <1>4 DEF Inv, TypeOK, ReadPage
<1> QED BY <1>4, <1>5, TransferStep DEF ReadPage, Evicting, Loading, Flushing

\* FlushPage writes the page.
LEMMA FlushWriteInv ==
  ASSUME Inv, NEW t \in Threads, FlushWrite(t)
  PROVE  Inv'
<1>1. PICK p \in Pages, f \in Frames : p = loc[t].page_id /\ f = loc[t].frame_id
  BY BusyFrames DEF FlushWrite, Flushing
<1>2. image[f] \in Content /\ disk[p] \in Content /\ TornPage \in Content
  BY DEF Inv, TypeOK, Content
<1>3. PICK c \in Content : disk' = [disk EXCEPT ![p] = c]
  <2>1. PICK c \in FlushedImages(p, f) :
          \/ disk' = [disk EXCEPT ![p] = c]
          \/ \E d \in PartialWrite(disk[p], c) : disk' = [disk EXCEPT ![p] = d]
    BY <1>1 DEF FlushWrite
  <2>2. c \in Content
    BY <1>2 DEF FlushedImages
  <2> QED BY <1>2, <2>1, <2>2 DEF PartialWrite
<1>4. /\ pc' \in [Threads -> Labels] /\ pc'[t] \in {"flushed", "flushFailed"}
      /\ \A u \in Threads : u # t => pc'[u] = pc[u]
  BY DEF FlushWrite, Goto, Inv, TypeOK, Labels
<1>5. TypeOK'
  BY <1>3, <1>4 DEF Inv, TypeOK, FlushWrite
<1> QED BY <1>4, <1>5, TransferStep DEF FlushWrite, Evicting, Loading, Flushing

-----------------------------------------------------------------------------
(* Eviction.                                                               *)

\* An unpinned page leaves the replacer to be written back.
LEMMA StartEvictionInv ==
  ASSUME Inv, NEW t \in Threads, NEW p \in Pages, NEW f \in evictable, NEW pt,
         pc[t] = "lock", loc[t].op \in {"NewPage", "FetchPage"},
         loc[t].op = "FetchPage" => loc[t].page_id = p,
         \/ pt = pages
         \/ pages[p].state = "kUnused" /\ pt = MakeAllocated(pages, p),
         StartEviction(t, p, f, pt)
  PROVE  Inv'
<1>1. PICK old \in Pages :
        /\ old = meta[f].page_id /\ f \in Frames /\ meta[f] \in FrameMetas
        /\ Holds(f, old) /\ meta[f].state = "kResident" /\ meta[f].pin_count = 0
        /\ Holders(f) = {}
        /\ \A u \in Threads : Moving(u) \/ Flushing(u) => loc[u].frame_id # f
  BY EvictableFrame
<1>2. /\ pages' \in [Pages -> PageEntries]
      /\ pages'[old].state = "kEvicting" /\ pages'[old].frame_id = f
      /\ \A q \in Pages : q # old =>
           \/ pages'[q] = pages[q]
           \/ /\ q = p /\ pages[q].frame_id = NoFrame
              /\ pages'[q].state = "kNonResident" /\ pages'[q].frame_id = NoFrame
  <2>1. pt \in [Pages -> PageEntries] /\ pt[old] = pages[old]
    BY <1>1, EntryFields DEF Inv, TypeOK, MakeAllocated, PageState, Holds, PageIs
  <2>2. pages' = [pt EXCEPT ![old] = PageEntry("kEvicting", f)]
    BY <1>1, <2>1 DEF StartEviction, SetEvicting, Holds, PageIs
  <2>3. \A q \in Pages : q # old =>
          \/ pt[q] = pages[q]
          \/ q = p /\ pages[q].frame_id = NoFrame /\ pt[q] = PageEntry("kNonResident", NoFrame)
    BY PageFacts DEF MakeAllocated, Inv, TypeOK
  <2> QED BY <1>1, <2>1, <2>2, <2>3, EntryFields DEF PageState
<1> DEFINE m == [meta[f] EXCEPT !.state = "kEvicting"]
<1>3. /\ meta' = [meta EXCEPT ![f] = m]
      /\ present' = present \ {f} /\ evictable' = evictable \ {f}
      /\ UNCHANGED <<allocated, image, disk, guard, sleeping, unmarked>>
  BY DEF StartEviction, ReplacerRemove
<1>4. /\ m \in FrameMetas /\ m.page_id = old /\ m.pin_count = 0 /\ m.state = "kEvicting"
  BY <1>1 DEF FrameMetas, FrameState
<1> HIDE DEF m
<1>5. /\ meta' \in [Frames -> FrameMetas] /\ meta'[f] = m
      /\ \A g \in Frames : g # f => meta'[g] = meta[g]
  BY <1>1, <1>3, <1>4 DEF Inv, TypeOK
<1> DEFINE l == [loc[t] EXCEPT !.page_id = p, !.frame_id = f, !.old_page_id = old,
                               !.dirty = meta[f].dirty, !.epoch = meta[f].dirty_epoch]
           label == WriteBack(meta[f].dirty)
<1>6. /\ loc' = [loc EXCEPT ![t] = l] /\ pc' = [pc EXCEPT ![t] = label]
  BY <1>1 DEF StartEviction, Goto
<1>7. /\ l \in Locals /\ l.op = loc[t].op /\ l.page_id = p /\ l.frame_id = f
      /\ l.old_page_id = old
  <2>1. loc[t] \in Locals /\ meta[f].dirty \in BOOLEAN /\ meta[f].dirty_epoch \in Nat
    BY <1>1 DEF Inv, TypeOK, FrameMetas
  <2> QED BY <1>1, <2>1 DEF Locals
<1>8. label \in Labels /\ label \in {"evictWrite", "evicted"}
  BY DEF WriteBack, Labels
<1> HIDE DEF l, label
<1>9. /\ pc' \in [Threads -> Labels] /\ loc' \in [Threads -> Locals]
      /\ pc'[t] \in {"evictWrite", "evicted"} /\ loc'[t] = l /\ OnlyThread(t)
  BY <1>6, <1>7, <1>8, ThreadMoves DEF Inv
<1>10. TypeOK'
  BY <1>2, <1>3, <1>5, <1>9 DEF Inv, TypeOK
<1>11. WellFormed(t)'
  <2>1. loc[t].op = "FetchPage" => guard[t][p] = NoFrame
    BY DEF Inv, CallsAreWellFormed, WellFormed
  <2> QED BY <1>3, <1>7, <1>9, <2>1 DEF WellFormed, Evicting, Loading, Flushing
<1>12. KeepsItsFrame(t, loc[t].frame_id)'
  BY <1>1, <1>2, <1>4, <1>5, <1>7, <1>9
     DEF KeepsItsFrame, Evicting, Loading, Flushing, PageIs
<1>13. Evicting(t)' /\ ~Moving(t) /\ ~Flushing(t) /\ ~(Loading(t) \/ Flushing(t))'
  BY <1>9 DEF Moving, Evicting, Loading, Flushing
<1>14. FrameAgrees(f)'
  <2>1. Holders(f)' = {} /\ Cardinality(Holders(f)') = 0
    BY <1>1, <1>3, <1>9, <1>13, StaysUnheld
  <2>2. \A q \in Pages : pages'[q].frame_id \notin Frames \ {f} =>
          \/ /\ pages'[q].frame_id = NoFrame
             /\ pages'[q].state \in {"kUnused", "kNonResident"}
          \/ q = old
    BY <1>1, <1>2, PageFacts DEF Holds, PageIs, PageEntries
  <2>3. \A u \in Threads, q \in Pages : guard'[u][q] # f
    BY <1>1, <1>3, UnheldHasNoGuard
  <2>4. f \in allocated' /\ f \notin present' /\ f \notin evictable'
    BY <1>1, <1>3 DEF Inv, TablesAgree
  <2> QED BY <1>1, <1>2, <1>4, <1>5, <2>1, <2>2, <2>3, <2>4
          DEF FrameAgrees, Holds, PageIs
<1>15. Touches(t, f) /\ SetsTouch(f)
  <2>1. \A q \in Pages :
          /\ pages[q].frame_id \in Frames \ {f} => pages'[q] = pages[q]
          /\ pages'[q].frame_id \in Frames \ {f} => pages'[q] = pages[q]
    BY <1>1, <1>2, ConstantFacts DEF Holds, PageIs
  <2> QED BY <1>1, <1>3, <1>5, <1>7, <1>9, <1>13, <2>1 DEF Touches, SetsTouch, Moving
<1> QED BY <1>1, <1>10, <1>11, <1>12, <1>14, <1>15, FrameStep

\* The write-back failed: the victim is resident again.
LEMMA EvictFailedInv ==
  ASSUME Inv, NEW t \in Threads, EvictFailed(t)
  PROVE  Inv'
<1>1. Evicting(t) /\ Moving(t)
  BY DEF EvictFailed, Moving, Evicting
<1>2. PICK f \in Frames, old \in Pages, p \in Pages :
        /\ f = loc[t].frame_id /\ old = loc[t].old_page_id /\ p = loc[t].page_id
        /\ pages[old].state = "kEvicting" /\ pages[old].frame_id = f
        /\ meta[f].page_id = old /\ meta[f].state = "kEvicting"
  <2>1. loc[t].page_id \in Pages
    BY <1>1 DEF Inv, CallsAreWellFormed, WellFormed
  <2> QED BY <1>1, <2>1, BusyFrames DEF PageIs
<1>3. Holders(f) = {}
  BY <1>2, NoHolders
<1> DEFINE m == FrameMeta(old, 0, loc[t].dirty, loc[t].epoch, "kResident")
<1>4. /\ meta' = [meta EXCEPT ![f] = m]
      /\ present' = present \cup {f} /\ evictable' = evictable \cup {f}
      /\ sleeping' = {} /\ Return(t)
      /\ UNCHANGED <<allocated, image, disk, guard, unmarked>>
  BY <1>2 DEF EvictFailed, NotifyAll
<1>5. /\ m \in FrameMetas /\ m.page_id = old /\ m.pin_count = 0 /\ m.state = "kResident"
  <2>1. loc[t].dirty \in BOOLEAN /\ loc[t].epoch \in Nat
    BY DEF Inv, TypeOK, Locals
  <2> QED BY <2>1, ConstantFacts DEF FrameMeta, FrameMetas, FrameState
<1> HIDE DEF m
<1>6. /\ pages' \in [Pages -> PageEntries]
      /\ pages'[old].state = "kResident" /\ pages'[old].frame_id = f
      /\ \A q \in Pages : q # old =>
           \/ pages'[q] = pages[q]
           \/ /\ pages[q].frame_id = NoFrame /\ pages'[q].frame_id = NoFrame
              /\ pages'[q].state \in {"kUnused", "kNonResident"}
  <2>1. PICK pt : pt = [[pages EXCEPT ![old] = PageEntry("kNonResident", NoFrame)]
                        EXCEPT ![old] = PageEntry("kResident", f)]
    OBVIOUS
  <2>2. /\ pt \in [Pages -> PageEntries]
        /\ pt[old].state = "kResident" /\ pt[old].frame_id = f
        /\ \A q \in Pages : q # old => pt[q] = pages[q]
    BY <2>1, EntryFields DEF Inv, TypeOK, PageState
  <2>3. Restored(pages, t) = pt
    BY <1>2, <2>1 DEF Restored, SetResident, SetNonResident
  <2>4. \/ pages' = pt
        \/ /\ pt[p].state = "kNonResident"
           /\ pages' = [pt EXCEPT ![p] = PageEntry("kUnused", NoFrame)]
    BY <1>2, <2>3 DEF EvictFailed, Rollback, CanFree, MakeUnused, UnusedEntry
  <2>5. pt[p].state = "kNonResident" => p # old /\ pages[p].frame_id = NoFrame
    BY <2>2, PageFacts
  <2> QED BY <2>2, <2>4, <2>5, EntryFields DEF PageState
<1>7. /\ pc' \in [Threads -> Labels] /\ loc' \in [Threads -> Locals]
      /\ pc'[t] = "idle" /\ loc'[t].op = "none" /\ OnlyThread(t)
  BY <1>4, ThreadReturns DEF Inv
<1>8. /\ meta' \in [Frames -> FrameMetas] /\ meta'[f] = m
      /\ \A g \in Frames : g # f => meta'[g] = meta[g]
  BY <1>4, <1>5 DEF Inv, TypeOK
<1>9. TypeOK'
  BY <1>4, <1>6, <1>7, <1>8 DEF Inv, TypeOK
<1>10. FrameAgrees(f)'
  <2>1. ~(Loading(t) \/ Flushing(t))'
    BY <1>7, Returned
  <2>2. Holders(f)' = {} /\ Cardinality(Holders(f)') = 0
    BY <1>3, <1>4, <1>7, <2>1, StaysUnheld
  <2>3. \A q \in Pages : pages'[q].frame_id \notin Frames \ {f} =>
          \/ /\ pages'[q].frame_id = NoFrame
             /\ pages'[q].state \in {"kUnused", "kNonResident"}
          \/ q = old
    BY <1>2, <1>6, PageFacts DEF PageEntries
  <2>4. \A u \in Threads, q \in Pages : guard'[u][q] # f
    BY <1>3, <1>4, UnheldHasNoGuard
  <2>5. f \in allocated' /\ f \in present' /\ f \in evictable'
    BY <1>2, <1>4 DEF Inv, TablesAgree
  <2> QED BY <1>5, <1>6, <1>8, <2>2, <2>3, <2>4, <2>5 DEF FrameAgrees, Holds, PageIs
<1>11. Touches(t, f) /\ SetsTouch(f)
  <2>1. \A q \in Pages :
          /\ pages[q].frame_id \in Frames \ {f} => pages'[q] = pages[q]
          /\ pages'[q].frame_id \in Frames \ {f} => pages'[q] = pages[q]
          /\ Transient(pages, q)' => pages'[q].frame_id \in Frames \ {f}
    BY <1>2, <1>6, PageFacts, ConstantFacts DEF Transient, PageEntries
  <2>2. \A u \in Threads : u # t /\ (Moving(u) \/ Flushing(u)) => loc[u].frame_id # f
    BY <1>1, <1>2, NobodyElseUses
  <2>3. ~Moving(t)' /\ ~Flushing(t)'
    BY <1>7, Returned
  <2>4. Touches(t, f)
    BY <1>2, <1>4, <1>7, <1>8, <2>1, <2>2, <2>3 DEF Touches
  <2> QED BY <1>4, <2>4 DEF SetsTouch
<1> QED BY <1>7, <1>9, <1>10, <1>11, Returned, FrameStep

-----------------------------------------------------------------------------
(* NewPage.                                                                *)

\* The page id that NewPage works for, and the table it works on.
LEMMA NewPageIdFacts ==
  ASSUME Inv, NEW t \in Threads, NEW p \in NewPageIds(t), loc[t].op = "NewPage"
  PROVE  /\ p \in Pages
         /\ \/ NewPageTable(t, p) = pages
            \/ pages[p].state = "kUnused" /\ NewPageTable(t, p) = MakeAllocated(pages, p)
  BY DEF Inv, TypeOK, Locals, NewPageIds, NewPageTable

\* NewPage evicts.
LEMMA NewPageEvictInv ==
  ASSUME Inv, NEW t \in Threads, NewPageEvict(t)
  PROVE  Inv'
<1>1. PICK p \in NewPageIds(t), f \in evictable : StartEviction(t, p, f, NewPageTable(t, p))
  BY DEF NewPageEvict
<1>2. loc[t].op = "NewPage" /\ pc[t] = "lock"
  BY DEF NewPageEvict, Locked
<1> QED BY <1>1, <1>2, NewPageIdFacts, StartEvictionInv

\* NewPage gives its id back: no frame.
LEMMA NewPageNoFrameInv ==
  ASSUME Inv, NEW t \in Threads, NewPageNoFrame(t)
  PROVE  Inv'
<1>1. pc[t] = "lock" /\ loc[t].op = "NewPage"
  BY DEF NewPageNoFrame, Locked
<1>2. PICK p \in NewPageIds(t) : pages' = Rollback(NewPageTable(t, p), p)
  BY DEF NewPageNoFrame
<1>3. p \in Pages
  BY <1>1, NewPageIdFacts
<1>4. /\ pc' \in [Threads -> Labels] /\ loc' \in [Threads -> Locals]
      /\ pc'[t] = "idle" /\ loc'[t].op = "none" /\ OnlyThread(t)
  BY ThreadReturns DEF NewPageNoFrame, Inv
<1>5. /\ pages' \in [Pages -> PageEntries]
      /\ \A q \in Pages :
           \/ pages'[q] = pages[q]
           \/ /\ pages[q].frame_id = NoFrame /\ pages'[q].frame_id = NoFrame
              /\ pages'[q].state \in {"kUnused", "kNonResident"}
  <2>1. PICK pt :
          /\ pt = NewPageTable(t, p)
          /\ \/ pt = pages
             \/ /\ pages[p].state = "kUnused"
                /\ pt = [pages EXCEPT ![p] = PageEntry("kNonResident", NoFrame)]
    BY <1>1, NewPageIdFacts DEF MakeAllocated
  <2>2. /\ pt \in [Pages -> PageEntries]
        /\ pt[p].state = "kNonResident" => pages[p].frame_id = NoFrame
        /\ \A q \in Pages :
             \/ pt[q] = pages[q]
             \/ /\ pages[q].frame_id = NoFrame /\ pt[q].frame_id = NoFrame
                /\ pt[q].state \in {"kUnused", "kNonResident"}
    BY <1>3, <2>1, PageFacts, EntryFields DEF Inv, TypeOK, PageState
  <2>3. \/ pages' = pt
        \/ /\ pt[p].state = "kNonResident"
           /\ pages' = [pt EXCEPT ![p] = PageEntry("kUnused", NoFrame)]
    BY <1>2, <2>1 DEF Rollback, CanFree, MakeUnused, UnusedEntry
  <2> QED BY <1>3, <2>2, <2>3, EntryFields DEF PageState
<1>6. TypeOK'
  BY <1>4, <1>5 DEF NewPageNoFrame, NotifyAll, Inv, TypeOK
<1> QED BY <1>1, <1>4, <1>5, <1>6, Returned, IdStep DEF NewPageNoFrame

\* NewPage waits for a frame, with its id taken.
LEMMA NewPageWaitInv ==
  ASSUME Inv, NEW t \in Threads, NewPageWait(t)
  PROVE  Inv'
<1>1. pc[t] = "lock" /\ loc[t].op = "NewPage"
  BY DEF NewPageWait, Locked
<1>2. PICK p \in NewPageIds(t) :
        /\ pages' = NewPageTable(t, p)
        /\ loc' = [loc EXCEPT ![t] = [loc[t] EXCEPT !.page_id = p]]
  BY DEF NewPageWait
<1>3. p \in Pages
  BY <1>1, NewPageIdFacts
<1> DEFINE l == [loc[t] EXCEPT !.page_id = p]
<1>4. l \in Locals /\ l.op = "NewPage"
  BY <1>1, <1>3 DEF Inv, TypeOK, Locals
<1>5. loc' = [loc EXCEPT ![t] = l] /\ UNCHANGED pc
  BY <1>2 DEF NewPageWait
<1> HIDE DEF l
<1>6. /\ pc' \in [Threads -> Labels] /\ loc' \in [Threads -> Locals]
      /\ pc'[t] = "lock" /\ loc'[t].op = "NewPage" /\ OnlyThread(t)
  BY <1>1, <1>4, <1>5 DEF Inv, TypeOK, OnlyThread
<1>7. /\ pages' \in [Pages -> PageEntries]
      /\ \A q \in Pages :
           \/ pages'[q] = pages[q]
           \/ /\ pages[q].frame_id = NoFrame /\ pages'[q].frame_id = NoFrame
              /\ pages'[q].state \in {"kUnused", "kNonResident"}
  BY <1>1, <1>2, <1>3, NewPageIdFacts, PageFacts, EntryFields
     DEF MakeAllocated, Inv, TypeOK, PageState
<1>8. TypeOK'
  BY <1>6, <1>7 DEF NewPageWait, Inv, TypeOK
<1>9. WellFormed(t)'
  BY <1>6 DEF WellFormed, Evicting, Loading, Flushing
<1> QED BY <1>1, <1>6, <1>7, <1>8, <1>9, IdStep DEF NewPageWait

\* NewPage publishes its frame as page p, or throws and strands the frame.
LEMMA PublishInv ==
  ASSUME Inv, NEW t \in Threads, NEW p \in Pages, NEW f \in Frames, NEW pt,
         OwnFrame(t, f, pt), PublishNewPage(t, p, f, pt),
         allocated' = allocated \cup {f}
  PROVE  Inv'
<1>1. /\ pc' \in [Threads -> Labels] /\ loc' \in [Threads -> Locals]
      /\ pc'[t] = "idle" /\ loc'[t].op = "none" /\ OnlyThread(t)
  BY ThreadReturns DEF PublishNewPage, Inv
<1> DEFINE m == FrameMeta(p, 1, TRUE, 1, "kResident")
<1>2. /\ m \in FrameMetas /\ m.page_id = p /\ m.pin_count = 1 /\ m.state = "kResident"
  BY ConstantFacts DEF FrameMeta, FrameMetas, FrameState
<1>3. /\ meta' = [meta EXCEPT ![f] = m] /\ image' = [image EXCEPT ![f] = ZeroPage]
      /\ sleeping' = {} /\ disk' = disk /\ unmarked' \subseteq unmarked
  BY DEF PublishNewPage, NotifyAll
<1> HIDE DEF m
<1>4. /\ meta' \in [Frames -> FrameMetas] /\ meta'[f] = m
      /\ image' \in [Frames -> Content]
      /\ \A g \in Frames : g # f => meta'[g] = meta[g]
  BY <1>2, <1>3 DEF Inv, TypeOK, Content
<1>5. \A u \in Threads, q \in Pages : guard[u][q] # f
  BY UnheldHasNoGuard DEF OwnFrame
<1>6. CASE CanSetResident(pt, p, f)
  <2>1. /\ pages' = [pt EXCEPT ![p] = PageEntry("kResident", f)]
        /\ present' = present \cup {f} /\ evictable' = evictable \ {f}
        /\ guard' = [guard EXCEPT ![t] = [guard[t] EXCEPT ![p] = f]]
    BY <1>6 DEF PublishNewPage, SetResident, ReplacerPin
  <2>2. /\ pages' \in [Pages -> PageEntries]
        /\ pages'[p].state = "kResident" /\ pages'[p].frame_id = f
        /\ \A q \in Pages : q # p => pages'[q] = pt[q]
    BY <2>1, EntryFields DEF OwnFrame, PageState
  <2>3. pt[p].frame_id = NoFrame /\ pages[p].frame_id \in {f, NoFrame}
    BY <1>6, OwnTable DEF CanSetResident
  <2>4. /\ guard' \in [Threads -> [Pages -> Frames \cup {NoFrame}]]
        /\ \A u \in Threads, q \in Pages :
             guard'[u][q] = IF u = t /\ q = p THEN f ELSE guard[u][q]
    BY <2>1 DEF Inv, TypeOK
  <2>5. guard[t][p] = NoFrame
    <3>1. guard[t][p] # NoFrame => guard[t][p] \in Frames /\ pages[p].frame_id = guard[t][p]
      BY DEF Inv, TypeOK, GuardsAreSafe, Holds, PageIs
    <3> QED BY <1>5, <2>3, <3>1, ConstantFacts
  <2>6. TypeOK'
    BY <1>1, <1>3, <1>4, <2>1, <2>2, <2>4 DEF Inv, TypeOK
  <2>7. Cardinality(Holders(f)') = 1
    BY <1>1, <2>4, GuardHolds DEF OwnFrame
  <2>8. FrameAgrees(f)'
    <3>1. \A q \in Pages : pages'[q].frame_id \notin Frames \ {f} =>
            \/ /\ pages'[q].frame_id = NoFrame
               /\ pages'[q].state \in {"kUnused", "kNonResident"}
            \/ q = p
      BY <2>2, OwnTable
    <3>2. \A u \in Threads, q \in Pages : guard'[u][q] = f => q = p
      BY <1>5, <2>4
    <3>3. f \in allocated' /\ f \in present' /\ f \notin evictable'
      BY <2>1
    <3> QED BY <1>2, <1>4, <2>2, <2>7, <3>1, <3>2, <3>3 DEF FrameAgrees, Holds, PageIs
  <2>9. Touches(t, f) /\ SetsTouch(f)
    <3>1. \A q \in Pages :
            /\ pages[q].frame_id \in Frames \ {f} => pages'[q] = pages[q]
            /\ pages'[q].frame_id \in Frames \ {f} => pages'[q] = pages[q]
            /\ Transient(pages, q)' => pages'[q].frame_id \in Frames \ {f}
      <4> SUFFICES ASSUME NEW q \in Pages
                   PROVE  /\ pages[q].frame_id \in Frames \ {f} => pages'[q] = pages[q]
                          /\ pages'[q].frame_id \in Frames \ {f} => pages'[q] = pages[q]
                          /\ Transient(pages', q) => pages'[q].frame_id \in Frames \ {f}
        BY DEF Transient
      <4>1. CASE q = p
        BY <2>2, <2>3, <4>1, ConstantFacts DEF Transient
      <4>2. CASE q # p
        BY <2>2, <4>2, OwnTable DEF Transient
      <4> QED BY <4>1, <4>2
    <3>2. \A u \in Threads, q \in Pages :
            \/ guard'[u][q] = guard[u][q]
            \/ /\ u = t
               /\ guard'[u][q] \in {f, NoFrame} /\ guard[u][q] \in {f, NoFrame}
      BY <2>4, <2>5
    <3>3. ~Moving(t)' /\ ~Flushing(t)'
      BY <1>1, Returned
    <3>4. Touches(t, f)
      BY <1>1, <1>4, <3>1, <3>2, <3>3 DEF Touches, OwnFrame
    <3> QED BY <2>1, <3>4 DEF SetsTouch
  <2> QED BY <1>1, <2>6, <2>8, <2>9, Returned, FrameStep
<1>7. CASE ~CanSetResident(pt, p, f)
  <2>1. /\ pages' = pt
        /\ UNCHANGED <<present, evictable, guard>>
    BY <1>7 DEF PublishNewPage, CanSetResident, Rollback, CanFree
  <2>2. TypeOK'
    BY <1>1, <1>3, <1>4, <2>1 DEF Inv, TypeOK, OwnFrame
  <2>3. FrameAgrees(f)'
    <3>1. \A q \in Pages : pages'[q].frame_id \notin Frames \ {f} =>
             /\ pages'[q].frame_id = NoFrame
             /\ pages'[q].state \in {"kUnused", "kNonResident"}
      BY <2>1, OwnTable
    <3>2. f \in allocated' /\ f \notin present' /\ f \notin evictable'
          /\ pages'[p].frame_id # f
      BY <2>1, OwnTable DEF OwnFrame
    <3> QED BY <1>2, <1>4, <1>5, <2>1, <3>1, <3>2 DEF FrameAgrees, Holds, PageIs
  <2>4. Touches(t, f) /\ SetsTouch(f)
    <3>1. \A q \in Pages :
            /\ pages[q].frame_id \in Frames \ {f} => pages'[q] = pages[q]
            /\ pages'[q].frame_id \in Frames \ {f} => pages'[q] = pages[q]
            /\ Transient(pages, q)' => pages'[q].frame_id \in Frames \ {f}
      BY <2>1, OwnTable DEF Transient
    <3>2. ~Moving(t)' /\ ~Flushing(t)'
      BY <1>1, Returned
    <3>3. Touches(t, f)
      BY <1>1, <1>4, <2>1, <3>1, <3>2 DEF Touches, OwnFrame
    <3> QED BY <2>1, <3>3 DEF SetsTouch
  <2> QED BY <1>1, <2>2, <2>3, <2>4, Returned, FrameStep
<1> QED BY <1>6, <1>7

\* NewPage takes a free frame.
LEMMA NewPageFreeFrameInv ==
  ASSUME Inv, NEW t \in Threads, NewPageFreeFrame(t)
  PROVE  Inv'
<1>1. PICK p \in NewPageIds(t), f \in Frames \ allocated :
        /\ allocated' = allocated \cup {f}
        /\ PublishNewPage(t, p, f, NewPageTable(t, p))
  BY DEF NewPageFreeFrame
<1>2. loc[t].op = "NewPage" /\ pc[t] = "lock"
  BY DEF NewPageFreeFrame, Locked
<1>3. PICK pt :
        /\ p \in Pages /\ pt = NewPageTable(t, p)
        /\ \/ pt = pages
           \/ pages[p].state = "kUnused" /\ pt = MakeAllocated(pages, p)
  BY <1>2, NewPageIdFacts
<1>4. OwnFrame(t, f, pt)
  BY <1>2, <1>3, FreeFrameIsOwn
<1> QED BY <1>1, <1>3, <1>4, PublishInv

\* NewPage takes the frame of the page it evicted.
LEMMA NewPageEvictedInv ==
  ASSUME Inv, NEW t \in Threads, NewPageEvicted(t)
  PROVE  Inv'
<1>1. PICK pt : pt = SetNonResident(pages, loc[t].old_page_id)
  OBVIOUS
<1>2. OwnFrame(t, loc[t].frame_id, pt) /\ loc[t].frame_id \in allocated
  BY <1>1, EvictedFrameIsOwn DEF NewPageEvicted
<1>3. loc[t].page_id \in Pages /\ loc[t].frame_id \in Frames
  BY <1>2 DEF NewPageEvicted, Inv, CallsAreWellFormed, WellFormed, Evicting, OwnFrame
<1>4. /\ PublishNewPage(t, loc[t].page_id, loc[t].frame_id, pt)
      /\ allocated' = allocated \cup {loc[t].frame_id}
  BY <1>1, <1>2 DEF NewPageEvicted
<1>5. PICK p \in Pages, f \in Frames : p = loc[t].page_id /\ f = loc[t].frame_id
  BY <1>3
<1> QED BY <1>2, <1>4, <1>5, PublishInv

-----------------------------------------------------------------------------
(* FetchPage.                                                              *)

\* FetchPage evicts.
LEMMA FetchEvictInv ==
  ASSUME Inv, NEW t \in Threads, FetchEvict(t)
  PROVE  Inv'
<1>1. PICK f \in evictable : StartEviction(t, loc[t].page_id, f, pages)
  BY DEF FetchEvict
<1>2. loc[t].op = "FetchPage" /\ pc[t] = "lock"
  BY DEF FetchEvict, Locked
<1>3. loc[t].page_id \in Pages
  BY <1>2 DEF Inv, CallsAreWellFormed, WellFormed
<1> QED BY <1>1, <1>2, <1>3, StartEvictionInv

\* FetchPage has a frame and starts to read the page into it.
LEMMA StartLoadInv ==
  ASSUME Inv, NEW t \in Threads, NEW p \in Pages, NEW f \in Frames, NEW pt,
         OwnFrame(t, f, pt), pt[p].state = "kNonResident",
         loc[t].op = "FetchPage", loc[t].page_id = p, StartLoad(t, p, f, pt),
         allocated' = allocated \cup {f}, sleeping' \subseteq Threads,
         UNCHANGED <<image, disk, unmarked>>
  PROVE  Inv'
<1> DEFINE l == [NoCall EXCEPT !.op = "FetchPage", !.page_id = p, !.frame_id = f]
           m == FrameMeta(p, 1, FALSE, 0, "kLoading")
<1>1. /\ pages' = [pt EXCEPT ![p] = PageEntry("kLoading", f)]
      /\ meta' = [meta EXCEPT ![f] = m]
      /\ loc' = [loc EXCEPT ![t] = l] /\ pc' = [pc EXCEPT ![t] = "read"]
      /\ UNCHANGED <<present, evictable, guard>>
  BY DEF StartLoad, SetLoading, Goto
<1>2. /\ m \in FrameMetas /\ m.page_id = p /\ m.pin_count = 1 /\ m.state = "kLoading"
  BY ConstantFacts DEF FrameMeta, FrameMetas, FrameState
<1>3. l \in Locals /\ l.op = "FetchPage" /\ l.page_id = p /\ l.frame_id = f
  BY DEF NoCall, Locals, Ops
<1> HIDE DEF l, m
<1>4. /\ pc' \in [Threads -> Labels] /\ loc' \in [Threads -> Locals]
      /\ pc'[t] = "read" /\ loc'[t] = l /\ OnlyThread(t)
  BY <1>1, <1>3, ThreadMoves DEF Inv, Labels
<1>5. /\ meta' \in [Frames -> FrameMetas] /\ meta'[f] = m
      /\ \A g \in Frames : g # f => meta'[g] = meta[g]
  BY <1>1, <1>2 DEF Inv, TypeOK
<1>6. /\ pages' \in [Pages -> PageEntries]
      /\ pages'[p].state = "kLoading" /\ pages'[p].frame_id = f
      /\ \A q \in Pages : q # p => pages'[q] = pt[q]
  BY <1>1, EntryFields DEF OwnFrame, PageState
<1>7. TypeOK'
  BY <1>1, <1>4, <1>5, <1>6 DEF Inv, TypeOK
<1>8. Loading(t)' /\ Moving(t)' /\ ~Evicting(t)' /\ ~Flushing(t)'
  BY <1>4 DEF Moving, Evicting, Loading, Flushing
<1>9. WellFormed(t)'
  <2>1. guard[t][p] = NoFrame
    BY DEF Inv, CallsAreWellFormed, WellFormed
  <2> QED BY <1>1, <1>3, <1>4, <1>8, <2>1 DEF WellFormed
<1>10. KeepsItsFrame(t, loc[t].frame_id)'
  BY <1>2, <1>3, <1>4, <1>5, <1>6, <1>8 DEF KeepsItsFrame, PageIs
<1>11. Cardinality(Holders(f)') = 1
  BY <1>1, <1>3, <1>4, <1>8, LoaderHolds DEF OwnFrame
<1>12. FrameAgrees(f)'
  <2>1. \A q \in Pages : pages'[q].frame_id \notin Frames \ {f} =>
          \/ /\ pages'[q].frame_id = NoFrame
             /\ pages'[q].state \in {"kUnused", "kNonResident"}
          \/ q = p
    BY <1>6, OwnTable
  <2>2. \A u \in Threads, q \in Pages : guard'[u][q] # f
    BY <1>1, UnheldHasNoGuard DEF OwnFrame
  <2>3. f \in allocated' /\ f \notin present' /\ f \notin evictable'
    BY <1>1 DEF OwnFrame
  <2> QED BY <1>2, <1>5, <1>6, <1>11, <2>1, <2>2, <2>3 DEF FrameAgrees, Holds, PageIs
<1>13. Touches(t, f) /\ SetsTouch(f)
  <2>1. pages[p].frame_id \in {f, NoFrame}
    BY OwnTable
  <2>2. \A q \in Pages :
          /\ pages[q].frame_id \in Frames \ {f} => pages'[q] = pages[q]
          /\ pages'[q].frame_id \in Frames \ {f} => pages'[q] = pages[q]
    <3> SUFFICES ASSUME NEW q \in Pages
                 PROVE  /\ pages[q].frame_id \in Frames \ {f} => pages'[q] = pages[q]
                        /\ pages'[q].frame_id \in Frames \ {f} => pages'[q] = pages[q]
      OBVIOUS
    <3>1. CASE q = p
      BY <1>6, <2>1, <3>1, ConstantFacts
    <3>2. CASE q # p
      BY <1>6, <3>2, OwnTable
    <3> QED BY <3>1, <3>2
  <2>3. Touches(t, f)
    BY <1>1, <1>3, <1>4, <1>5, <1>8, <2>2 DEF Touches, OwnFrame
  <2> QED BY <1>1, <2>3 DEF SetsTouch
<1> QED BY <1>7, <1>9, <1>10, <1>12, <1>13, FrameStep

\* FetchPage takes a free frame.
LEMMA FetchFreeFrameInv ==
  ASSUME Inv, NEW t \in Threads, FetchFreeFrame(t)
  PROVE  Inv'
<1>1. PICK f \in Frames \ allocated :
        allocated' = allocated \cup {f} /\ StartLoad(t, loc[t].page_id, f, pages)
  BY DEF FetchFreeFrame
<1>2. /\ pc[t] = "lock" /\ loc[t].op = "FetchPage" /\ loc[t].page_id \in Pages
      /\ pages[loc[t].page_id].state = "kNonResident"
  BY DEF FetchFreeFrame, Locked, Inv, CallsAreWellFormed, WellFormed
<1>3. PICK p \in Pages : p = loc[t].page_id
  BY <1>2
<1>4. OwnFrame(t, f, pages)
  BY <1>2, <1>3, FreeFrameIsOwn
<1>5. UNCHANGED <<image, disk, unmarked>> /\ sleeping' \subseteq Threads
  BY DEF FetchFreeFrame, Inv, TypeOK
<1> QED BY <1>1, <1>2, <1>3, <1>4, <1>5, StartLoadInv

\* The page has been read: FetchPage publishes it and returns a guard.
LEMMA FetchLoadedInv ==
  ASSUME Inv, NEW t \in Threads, FetchLoaded(t)
  PROVE  Inv'
<1>1. Loading(t) /\ Moving(t)
  BY DEF FetchLoaded, Moving, Loading
<1>2. PICK p \in Pages, f \in Frames :
        /\ p = loc[t].page_id /\ f = loc[t].frame_id
        /\ pages[p].state = "kLoading" /\ pages[p].frame_id = f
        /\ meta[f].page_id = p /\ meta[f].state = "kLoading" /\ meta[f].pin_count = 1
  <2>1. meta[loc[t].frame_id].pin_count = 1
    BY <1>1 DEF Inv, CallsKeepTheirFrame, KeepsItsFrame
  <2> QED BY <1>1, <2>1, BusyFrames DEF PageIs
<1>3. Holders(f) = {<<t, NoPage>>}
  BY <1>1, <1>2, LoadingHolder
<1> DEFINE m == [meta[f] EXCEPT !.state = "kResident", !.dirty = FALSE, !.dirty_epoch = 0]
<1>4. /\ meta' = [meta EXCEPT ![f] = m]
      /\ pages' = [pages EXCEPT ![p] = PageEntry("kResident", f)]
      /\ present' = present \cup {f} /\ evictable' = evictable \ {f}
      /\ guard' = [guard EXCEPT ![t] = [guard[t] EXCEPT ![p] = f]]
      /\ sleeping' = {} /\ Return(t)
      /\ UNCHANGED <<allocated, image, disk, unmarked>>
  BY <1>2 DEF FetchLoaded, SetResident, ReplacerPin, NotifyAll
<1>5. /\ m \in FrameMetas /\ m.page_id = p /\ m.pin_count = 1 /\ m.state = "kResident"
  BY <1>2 DEF Inv, TypeOK, FrameMetas, FrameState
<1> HIDE DEF m
<1>6. /\ pc' \in [Threads -> Labels] /\ loc' \in [Threads -> Locals]
      /\ pc'[t] = "idle" /\ loc'[t].op = "none" /\ OnlyThread(t)
  BY <1>4, ThreadReturns DEF Inv
<1>7. /\ meta' \in [Frames -> FrameMetas] /\ meta'[f] = m
      /\ \A g \in Frames : g # f => meta'[g] = meta[g]
  BY <1>4, <1>5 DEF Inv, TypeOK
<1>8. /\ pages' \in [Pages -> PageEntries]
      /\ pages'[p].state = "kResident" /\ pages'[p].frame_id = f
      /\ \A q \in Pages : q # p => pages'[q] = pages[q]
  BY <1>4, EntryFields DEF Inv, TypeOK, PageState
<1>9. /\ guard' \in [Threads -> [Pages -> Frames \cup {NoFrame}]]
      /\ \A u \in Threads, q \in Pages :
           guard'[u][q] = IF u = t /\ q = p THEN f ELSE guard[u][q]
  BY <1>4 DEF Inv, TypeOK
<1>10. guard[t][p] = NoFrame /\ \A u \in Threads, q \in Pages : guard[u][q] # f
  <2>1. guard[t][p] = NoFrame
    BY <1>1, <1>2 DEF Inv, CallsAreWellFormed, WellFormed
  <2> QED BY <1>3, <2>1, UnheldHasNoGuard
<1>11. TypeOK'
  BY <1>4, <1>6, <1>7, <1>8, <1>9 DEF Inv, TypeOK
<1>12. Cardinality(Holders(f)') = 1
  BY <1>3, <1>6, <1>9, GuardHolds
<1>13. FrameAgrees(f)'
  <2>1. \A q \in Pages : pages'[q].frame_id \notin Frames \ {f} =>
          \/ /\ pages'[q].frame_id = NoFrame
             /\ pages'[q].state \in {"kUnused", "kNonResident"}
          \/ q = p
    BY <1>2, <1>8, PageFacts DEF PageEntries
  <2>2. \A u \in Threads, q \in Pages : guard'[u][q] = f => q = p
    BY <1>9, <1>10
  <2>3. f \in allocated' /\ f \in present' /\ f \notin evictable'
    BY <1>2, <1>4 DEF Inv, TablesAgree
  <2> QED BY <1>5, <1>7, <1>8, <1>12, <2>1, <2>2, <2>3 DEF FrameAgrees, Holds, PageIs
<1>14. Touches(t, f) /\ SetsTouch(f)
  <2>1. \A q \in Pages :
          /\ pages[q].frame_id \in Frames \ {f} => pages'[q] = pages[q]
          /\ pages'[q].frame_id \in Frames \ {f} => pages'[q] = pages[q]
          /\ Transient(pages, q)' => pages'[q].frame_id \in Frames \ {f}
    BY <1>2, <1>8, PageFacts DEF Transient, PageEntries
  <2>2. \A u \in Threads : u # t /\ (Moving(u) \/ Flushing(u)) => loc[u].frame_id # f
    BY <1>1, <1>2, NobodyElseUses
  <2>3. \A u \in Threads, q \in Pages :
          \/ guard'[u][q] = guard[u][q]
          \/ /\ u = t
             /\ guard'[u][q] \in {f, NoFrame} /\ guard[u][q] \in {f, NoFrame}
    BY <1>9, <1>10
  <2>4. ~Moving(t)' /\ ~Flushing(t)'
    BY <1>6, Returned
  <2>5. Touches(t, f)
    BY <1>2, <1>6, <1>7, <2>1, <2>2, <2>3, <2>4 DEF Touches
  <2> QED BY <1>4, <2>5 DEF SetsTouch
<1> QED BY <1>6, <1>11, <1>13, <1>14, Returned, FrameStep

\* The read failed: FetchPage gives the frame back.
LEMMA FetchFailedInv ==
  ASSUME Inv, NEW t \in Threads, FetchFailed(t)
  PROVE  Inv'
<1>1. Loading(t) /\ Moving(t)
  BY DEF FetchFailed, Moving, Loading
<1>2. PICK p \in Pages, f \in Frames :
        /\ p = loc[t].page_id /\ f = loc[t].frame_id
        /\ pages[p].state = "kLoading" /\ pages[p].frame_id = f
        /\ meta[f].page_id = p /\ meta[f].state = "kLoading"
  BY <1>1, BusyFrames DEF PageIs
<1>3. Holders(f) \subseteq {<<t, NoPage>>}
  BY <1>1, <1>2, LoadingHolder
<1>4. f \notin present /\ f \notin evictable
  BY <1>2 DEF Inv, ReplacerIsExact, Holds, PageIs
<1>5. /\ meta' = [meta EXCEPT ![f] = FreeMeta] /\ allocated' = allocated \ {f}
      /\ pages' = [pages EXCEPT ![p] = PageEntry("kNonResident", NoFrame)]
      /\ present' = present \ {f} /\ evictable' = evictable \ {f}
      /\ sleeping' = {} /\ Return(t) /\ UNCHANGED <<image, disk, guard, unmarked>>
  BY <1>2, <1>4 DEF FetchFailed, SetNonResident, NotifyAll
<1>6. /\ pages' \in [Pages -> PageEntries]
      /\ pages'[p].state = "kNonResident" /\ pages'[p].frame_id = NoFrame
      /\ \A q \in Pages : q # p => pages'[q] = pages[q]
  BY <1>5, EntryFields DEF Inv, TypeOK, PageState
<1>7. \A u \in Threads : u # t /\ (Moving(u) \/ Flushing(u)) => loc[u].frame_id # f
  BY <1>1, <1>2, NobodyElseUses
<1>8. /\ pc' \in [Threads -> Labels] /\ loc' \in [Threads -> Locals]
      /\ pc'[t] = "idle" /\ OnlyThread(t) /\ WellFormed(t)'
  BY <1>5, ThreadReturns, Returned DEF Inv
<1> QED BY <1>2, <1>3, <1>5, <1>6, <1>7, <1>8, ReleaseInv

\* FetchPage goes back to sleep at the head of its loop.
LEMMA FetchSleeps ==
  ASSUME Inv, NEW t \in Threads, NEW p \in Pages, guard[t][p] = NoFrame,
         Goto(t, "lock"), guard' = guard,
         loc' = [loc EXCEPT ![t] = [NoCall EXCEPT !.op = "FetchPage", !.page_id = p]]
  PROVE  /\ pc' \in [Threads -> Labels] /\ loc' \in [Threads -> Locals]
         /\ pc'[t] = "lock" /\ OnlyThread(t) /\ WellFormed(t)'
<1> DEFINE l == [NoCall EXCEPT !.op = "FetchPage", !.page_id = p]
<1>1. l \in Locals /\ l.op = "FetchPage" /\ l.page_id = p
  BY DEF NoCall, Locals, Ops
<1>2. pc' = [pc EXCEPT ![t] = "lock"] /\ loc' = [loc EXCEPT ![t] = l] /\ "lock" \in Labels
  BY DEF Goto, Labels
<1> HIDE DEF l
<1>3. /\ pc' \in [Threads -> Labels] /\ loc' \in [Threads -> Locals]
      /\ pc'[t] = "lock" /\ loc'[t] = l /\ OnlyThread(t)
  BY <1>1, <1>2, ThreadMoves DEF Inv
<1> QED BY <1>1, <1>3 DEF WellFormed, Evicting, Loading, Flushing

\* FetchPage finds the page unused, resident or in transit.
LEMMA FetchLookupInv ==
  ASSUME Inv, NEW t \in Threads, FetchLookup(t)
  PROVE  Inv'
<1>1. /\ pc[t] = "lock" /\ loc[t].page_id \in Pages
      /\ guard[t][loc[t].page_id] = NoFrame
  BY DEF FetchLookup, Locked, Inv, CallsAreWellFormed, WellFormed
<1>2. PICK p \in Pages : p = loc[t].page_id /\ guard[t][p] = NoFrame
  BY <1>1
<1>3. /\ FetchTurn(t, p, pages, meta, sleeping) /\ UNCHANGED <<pages, allocated>>
      /\ UNCHANGED <<image, disk, unmarked>>
  BY <1>2 DEF FetchLookup, FetchTurn
<1>4. CASE /\ Return(t) /\ meta' = meta /\ sleeping' = sleeping
           /\ UNCHANGED <<present, evictable, guard>>
  BY <1>1, <1>3, <1>4, QuietReturn DEF Inv, TypeOK
<1>5. CASE /\ Goto(t, "lock")
           /\ loc' = [loc EXCEPT ![t] = [NoCall EXCEPT !.op = "FetchPage",
                                                       !.page_id = p]]
           /\ meta' = meta /\ sleeping' = sleeping \cup {t}
           /\ UNCHANGED <<present, evictable, guard>>
  <2>1. /\ pc' \in [Threads -> Labels] /\ loc' \in [Threads -> Locals]
        /\ pc'[t] = "lock" /\ OnlyThread(t) /\ WellFormed(t)'
    BY <1>2, <1>5, FetchSleeps
  <2>2. TypeOK'
    BY <1>3, <1>5, <2>1 DEF Inv, TypeOK
  <2> QED BY <1>1, <1>3, <1>5, <2>1, <2>2, QuietStep
<1>6. CASE /\ pages[p].state = "kResident"
           /\ ~PinOverflows(meta[pages[p].frame_id])
           /\ Pin(t, p, pages[p].frame_id, meta)
           /\ Return(t) /\ sleeping' = sleeping
  <2>1. PICK g \in Frames : g = pages[p].frame_id /\ Holds(g, p)
    BY <1>6, ResidentFrame
  <2>2. meta[g] \in FrameMetas /\ meta[g].pin_count < PinMax
    <3>1. meta[g] \in FrameMetas /\ meta[g].pin_count \in 0 .. PinMax
      BY DEF Inv, TypeOK, FrameMetas
    <3>2. meta[g].pin_count # PinMax
      BY <1>6, <2>1 DEF PinOverflows
    <3> QED BY <3>1, <3>2, ConstantFacts
  <2>3. /\ meta' = [meta EXCEPT ![g] = Pinned(meta[g])]
        /\ present' = present \cup {g} /\ evictable' = evictable \ {g}
        /\ guard' = [guard EXCEPT ![t] = [guard[t] EXCEPT ![p] = g]]
    BY <1>6, <2>1 DEF Pin, ReplacerPin
  <2>4. meta' \in [Frames -> FrameMetas] /\ meta'[g] = Pinned(meta[g])
        /\ \A h \in Frames : h # g => meta'[h] = meta[h]
    BY <2>2, <2>3, PinnedFields DEF Inv, TypeOK
  <2>5. /\ pc' \in [Threads -> Labels] /\ loc' \in [Threads -> Locals]
        /\ pc'[t] = "idle" /\ loc'[t].op = "none" /\ OnlyThread(t)
    BY <1>6, ThreadReturns DEF Inv
  <2>6. TypeOK'
    BY <1>3, <1>6, <2>3, <2>4, <2>5 DEF Inv, TypeOK
  <2>7. PinTurn(t, p, g, NoFrame)
    <3>1. \A u \in Threads : Moving(u) \/ Flushing(u) => loc[u].frame_id # NoFrame
      BY BusyFrames, ConstantFacts DEF Moving
    <3>2. ~Moving(t) /\ ~Loading(t) /\ ~Flushing(t)
      BY <1>1 DEF Moving, Evicting, Loading, Flushing
    <3>3. allocated' = allocated \ {NoFrame}
      BY <1>3, ConstantFacts DEF Inv, TypeOK
    <3> QED BY <1>3, <2>1, <2>3, <2>4, <2>5, <3>1, <3>2, <3>3, ConstantFacts
            DEF PinTurn
  <2> QED BY <1>2, <2>2, <2>6, <2>7, PinTurnInv
<1> QED BY <1>3, <1>4, <1>5, <1>6 DEF FetchTurn

\* FetchPage has evicted a page: it loads its own, or, if someone else was
\* faster, gives the frame back and looks again.
LEMMA FetchEvictedInv ==
  ASSUME Inv, NEW t \in Threads, FetchEvicted(t)
  PROVE  Inv'
<1>1. Evicting(t) /\ Moving(t) /\ pc[t] = "evicted" /\ loc[t].op = "FetchPage"
  BY DEF FetchEvicted, Moving, Evicting
<1>2. loc[t].page_id \in Pages /\ guard[t][loc[t].page_id] = NoFrame
  BY <1>1 DEF Inv, CallsAreWellFormed, WellFormed
<1>3. PICK f \in Frames, old \in Pages, p \in Pages :
        /\ f = loc[t].frame_id /\ old = loc[t].old_page_id /\ p = loc[t].page_id
        /\ pages[old].frame_id = f /\ guard[t][p] = NoFrame
  BY <1>1, <1>2, BusyFrames DEF PageIs
<1>4. PICK pt : pt = SetNonResident(pages, old)
  OBVIOUS
<1>5. OwnFrame(t, f, pt) /\ f \in allocated
  BY <1>1, <1>3, <1>4, EvictedFrameIsOwn
<1>6. /\ pt \in [Pages -> PageEntries]
      /\ pt[old].state = "kNonResident" /\ pt[old].frame_id = NoFrame
      /\ \A q \in Pages : q # old => pt[q] = pages[q] /\ pages[q].frame_id # f
  <2>1. \A q \in Pages : q # old => pages[q].frame_id # f
    BY <1>3, PageFacts
  <2> QED BY <1>4, <2>1, EntryFields DEF SetNonResident, Inv, TypeOK, PageState
<1>7. UNCHANGED <<image, disk, unmarked>>
  BY DEF FetchEvicted
<1>8. CASE StillWanted(pt, p) /\ StartLoad(t, p, f, pt) /\ NotifyAll /\ UNCHANGED allocated
  <2>1. allocated' = allocated \cup {f} /\ sleeping' \subseteq Threads
    BY <1>5, <1>8 DEF NotifyAll
  <2> QED BY <1>1, <1>3, <1>5, <1>7, <1>8, <2>1, StartLoadInv DEF StillWanted
<1>9. CASE /\ ~StillWanted(pt, p) /\ allocated' = allocated \ {f}
           /\ FetchTurn(t, p, pt, [meta EXCEPT ![f] = FreeMeta], {})
  <2> DEFINE mt == [meta EXCEPT ![f] = FreeMeta]
  <2>1. pages' = pt /\ p # old /\ pt[p] = pages[p]
    BY <1>6, <1>9 DEF StillWanted, FetchTurn
  <2>2. \A u \in Threads : u # t /\ (Moving(u) \/ Flushing(u)) => loc[u].frame_id # f
    BY <1>5 DEF OwnFrame
  <2>3. Holders(f) = {} /\ f \notin present /\ f \notin evictable
    BY <1>5 DEF OwnFrame
  <2>4. ~Loading(t) /\ ~Flushing(t)
    BY <1>1 DEF Evicting, Loading, Flushing
  <2>5. CASE /\ Return(t) /\ meta' = mt /\ sleeping' = {}
             /\ UNCHANGED <<present, evictable, guard>>
    <3>1. /\ pc' \in [Threads -> Labels] /\ loc' \in [Threads -> Locals]
          /\ pc'[t] = "idle" /\ OnlyThread(t) /\ WellFormed(t)'
      BY <2>5, ThreadReturns, Returned DEF Inv
    <3>2. present' = present \ {f} /\ evictable' = evictable \ {f}
      BY <2>3, <2>5
    <3> QED BY <1>3, <1>6, <1>7, <1>9, <2>1, <2>2, <2>3, <2>5, <3>1, <3>2, ReleaseInv
  <2>6. CASE /\ Goto(t, "lock")
             /\ loc' = [loc EXCEPT ![t] = [NoCall EXCEPT !.op = "FetchPage",
                                                         !.page_id = p]]
             /\ meta' = mt /\ sleeping' = {} \cup {t}
             /\ UNCHANGED <<present, evictable, guard>>
    <3>1. /\ pc' \in [Threads -> Labels] /\ loc' \in [Threads -> Locals]
          /\ pc'[t] = "lock" /\ OnlyThread(t) /\ WellFormed(t)'
      BY <1>3, <2>6, FetchSleeps
    <3>2. present' = present \ {f} /\ evictable' = evictable \ {f}
      BY <2>3, <2>6
    <3> QED BY <1>3, <1>6, <1>7, <1>9, <2>1, <2>2, <2>3, <2>6, <3>1, <3>2, ReleaseInv
  <2>7. CASE /\ pt[p].state = "kResident"
             /\ ~PinOverflows(mt[pt[p].frame_id])
             /\ Pin(t, p, pt[p].frame_id, mt)
             /\ Return(t) /\ sleeping' = {}
    <3>1. PICK g \in Frames : g = pages[p].frame_id /\ Holds(g, p) /\ g # f
      <4>1. pages[p].state = "kResident"
        BY <2>1, <2>7
      <4>2. pages[p].frame_id # f
        BY <1>6, <2>1
      <4> QED BY <4>1, <4>2, ResidentFrame
    <3>2. meta[g] \in FrameMetas /\ meta[g].pin_count < PinMax
      <4>1. mt[g] = meta[g] /\ meta[g] \in FrameMetas
        BY <3>1 DEF Inv, TypeOK
      <4> QED BY <2>1, <2>7, <3>1, <4>1, ConstantFacts DEF PinOverflows, FrameMetas
    <3>3. /\ meta' = [mt EXCEPT ![g] = Pinned(mt[g])]
          /\ present' = present \cup {g} /\ evictable' = evictable \ {g}
          /\ guard' = [guard EXCEPT ![t] = [guard[t] EXCEPT ![p] = g]]
      BY <2>1, <2>7, <3>1 DEF Pin, ReplacerPin
    <3>4. /\ meta' \in [Frames -> FrameMetas] /\ meta'[g] = Pinned(meta[g])
          /\ meta'[f].state = "kFree"
          /\ \A h \in Frames : h # g /\ h # f => meta'[h] = meta[h]
      BY <3>1, <3>2, <3>3, PinnedFields, FreeMetaFields DEF Inv, TypeOK
    <3>5. /\ pc' \in [Threads -> Labels] /\ loc' \in [Threads -> Locals]
          /\ pc'[t] = "idle" /\ loc'[t].op = "none" /\ OnlyThread(t)
      BY <2>7, ThreadReturns DEF Inv
    <3>6. TypeOK'
      BY <1>6, <1>7, <1>9, <2>1, <2>7, <3>3, <3>4, <3>5 DEF Inv, TypeOK
    <3>7. PinTurn(t, p, g, f)
      BY <1>3, <1>6, <1>9, <2>1, <2>2, <2>3, <2>4, <3>1, <3>3, <3>4, <3>5
         DEF PinTurn
    <3> QED BY <1>3, <3>2, <3>6, <3>7, PinTurnInv
  <2> QED BY <1>9, <2>5, <2>6, <2>7 DEF FetchTurn
<1> QED BY <1>3, <1>4, <1>8, <1>9 DEF FetchEvicted

-----------------------------------------------------------------------------
(* FlushPage and FlushAllPages.                                            *)

\* FlushNext leaves the thread outside of any transfer.
LEMMA FlushNextMoves ==
  ASSUME TypeOK, NEW t \in Threads, NEW todo \in SUBSET (Frames \X Pages),
         FlushNext(t, todo)
  PROVE  /\ pc' \in [Threads -> Labels] /\ loc' \in [Threads -> Locals]
         /\ OnlyThread(t) /\ pc'[t] \in {"idle", "lock"} /\ WellFormed(t)'
<1>1. CASE Return(t)
  BY <1>1, ThreadReturns DEF WellFormed, Evicting, Loading, Flushing
<1>2. CASE ~Return(t)
  <2>1. PICK e \in todo :
          /\ Goto(t, "lock")
          /\ loc' = [loc EXCEPT ![t] = [NoCall EXCEPT !.op = "FlushAllPages",
                                                      !.page_id = e[2],
                                                      !.todo = todo \ {e}]]
    BY <1>2 DEF FlushNext
  <2> DEFINE l == [NoCall EXCEPT !.op = "FlushAllPages", !.page_id = e[2],
                                 !.todo = todo \ {e}]
  <2>2. e[2] \in Pages
    OBVIOUS
  <2>3. l \in Locals /\ l.op = "FlushAllPages"
    BY <2>2 DEF NoCall, Locals, Ops
  <2>4. pc' = [pc EXCEPT ![t] = "lock"] /\ loc' = [loc EXCEPT ![t] = l] /\ "lock" \in Labels
    BY <2>1 DEF Goto, Labels
  <2> HIDE DEF l
  <2>5. /\ pc' \in [Threads -> Labels] /\ loc' \in [Threads -> Locals]
        /\ pc'[t] = "lock" /\ loc'[t] = l /\ OnlyThread(t)
    BY <2>3, <2>4, ThreadMoves
  <2> QED BY <2>3, <2>5 DEF WellFormed, Evicting, Loading, Flushing
<1> QED BY <1>1, <1>2

\* FlushAllPages lists the dirty pages.
LEMMA FlushAllListInv ==
  ASSUME Inv, NEW t \in Threads, FlushAllList(t)
  PROVE  Inv'
<1>1. DirtyPages \in SUBSET (Frames \X Pages)
  BY DEF Inv, TypeOK, FrameMetas, DirtyPages
<1>2. /\ pc' \in [Threads -> Labels] /\ loc' \in [Threads -> Locals]
      /\ OnlyThread(t) /\ pc'[t] \in {"idle", "lock"} /\ WellFormed(t)'
  BY <1>1, FlushNextMoves DEF Inv, FlushAllList
<1>3. TypeOK' /\ pc[t] = "lock"
  BY <1>2 DEF Inv, TypeOK, FlushAllList, Locked
<1> QED BY <1>2, <1>3, QuietStep DEF FlushAllList

\* FlushPage finds nothing to write.
LEMMA FlushNothingInv ==
  ASSUME Inv, NEW t \in Threads, FlushNothing(t)
  PROVE  Inv'
<1>1. loc[t].todo \in SUBSET (Frames \X Pages)
  BY DEF Inv, TypeOK, Locals
<1>2. /\ pc' \in [Threads -> Labels] /\ loc' \in [Threads -> Locals]
      /\ OnlyThread(t) /\ pc'[t] \in {"idle", "lock"} /\ WellFormed(t)'
  BY <1>1, FlushNextMoves DEF Inv, FlushNothing
<1>3. TypeOK' /\ pc[t] = "lock"
  BY <1>2 DEF Inv, TypeOK, FlushNothing, FlushLocked, Locked
<1> QED BY <1>2, <1>3, QuietStep DEF FlushNothing

\* FlushPage works on a page that exists.
LEMMA FlushedPage ==
  ASSUME Inv, NEW t \in Threads, FlushLocked(t)
  PROVE  /\ loc[t].page_id \in Pages /\ pc[t] = "lock"
         /\ loc[t].op \in {"FlushPage", "FlushAllPages"}
<1>1. loc[t].page_id \in Pages \cup {NoPage} /\ WellFormed(t)
  BY DEF Inv, TypeOK, Locals, CallsAreWellFormed
<1> QED BY <1>1 DEF FlushLocked, Locked, WellFormed

\* When pin_count can count every holder there is always room for a flush:
\* the thread that begins it does not hold the frame by its own call yet.
LEMMA FlushesFit ==
  ASSUME Inv, PinsFit, NEW t \in Threads
  PROVE  FlushHasRoom(t)
<1> SUFFICES ASSUME FlushStart(t)
             PROVE  ~PinOverflows(meta[pages[loc[t].page_id].frame_id])
  BY DEF FlushHasRoom
<1>1. /\ loc[t].page_id \in Pages /\ pc[t] = "lock"
      /\ pages[loc[t].page_id].state = "kResident"
  BY FlushedPage DEF FlushStart
<1>2. PICK p \in Pages, f \in Frames :
        p = loc[t].page_id /\ f = pages[p].frame_id
  BY <1>1, ResidentFrame
<1>3. <<t, NoPage>> \notin Holders(f)
  BY <1>1 DEF Holders, Loading, Flushing
<1>4. meta[f].pin_count = Cardinality(Holders(f))
  BY <1>2 DEF Inv, PinsAreExact
<1>5. Cardinality(Holders(f)) < Cardinality(Threads \X (Pages \cup {NoPage}))
  BY <1>3, HoldersFinite
<1>6. meta[f].pin_count < PinMax /\ meta[f].pin_count \in Nat
  <2>1. /\ Cardinality(Holders(f)) \in Nat
        /\ Cardinality(Threads \X (Pages \cup {NoPage})) \in Nat
    BY HoldersFinite
  <2> QED BY <1>4, <1>5, <2>1, ConstantFacts DEF PinsFit
<1>7. meta[f].pin_count # PinMax
  BY <1>6, ConstantFacts
<1> QED BY <1>2, <1>7 DEF PinOverflows

\* FlushPage pins the dirty frame, within the limit of pin_count.
LEMMA FlushStartInv ==
  ASSUME Inv, NEW t \in Threads, FlushHasRoom(t), FlushStart(t)
  PROVE  Inv'
<1>1. /\ loc[t].page_id \in Pages /\ pc[t] = "lock"
      /\ loc[t].op \in {"FlushPage", "FlushAllPages"}
      /\ pages[loc[t].page_id].state = "kResident"
  BY FlushedPage DEF FlushStart
<1>2. PICK p \in Pages, f \in Frames :
        /\ p = loc[t].page_id /\ f = pages[p].frame_id /\ Holds(f, p)
        /\ meta[f].page_id = p /\ meta[f].state = "kResident"
  BY <1>1, ResidentFrame
<1>3. meta[f] \in FrameMetas /\ meta[f].dirty_epoch \in Nat /\ loc[t] \in Locals
  BY DEF Inv, TypeOK, FrameMetas
<1>4. /\ meta[f].pin_count = Cardinality(Holders(f))
      /\ <<t, NoPage>> \notin Holders(f)
      /\ meta[f].pin_count < PinMax
  <2>1. <<t, NoPage>> \notin Holders(f)
    BY <1>1 DEF Holders, Loading, Flushing
  <2>2. meta[f].pin_count = Cardinality(Holders(f))
    BY <1>2 DEF Inv, PinsAreExact
  <2>3. meta[f].pin_count \in 0 .. PinMax /\ meta[f].pin_count # PinMax
    BY <1>2, <1>3 DEF FlushHasRoom, PinOverflows, FrameMetas
  <2> QED BY <2>1, <2>2, <2>3, ConstantFacts
<1> DEFINE l == [loc[t] EXCEPT !.frame_id = f, !.epoch = meta[f].dirty_epoch]
<1>5. /\ meta' = [meta EXCEPT ![f] = Pinned(meta[f])]
      /\ evictable' = evictable \ {f}
      /\ loc' = [loc EXCEPT ![t] = l]
      /\ pc' = [pc EXCEPT ![t] = "flushWrite"]
      /\ UNCHANGED <<pages, allocated, present, image, disk, guard, sleeping, unmarked>>
  BY <1>2 DEF FlushStart, Goto
<1>6. /\ l \in Locals /\ l.op = loc[t].op /\ l.page_id = p /\ l.frame_id = f
      /\ l.epoch = meta[f].dirty_epoch
  BY <1>2, <1>3 DEF Locals
<1> HIDE DEF l
<1>7. /\ pc' \in [Threads -> Labels] /\ loc' \in [Threads -> Locals]
      /\ pc'[t] = "flushWrite" /\ loc'[t] = l /\ OnlyThread(t)
  BY <1>5, <1>6, ThreadMoves DEF Inv, Labels
<1>8. /\ meta' \in [Frames -> FrameMetas] /\ meta'[f] = Pinned(meta[f])
      /\ \A g \in Frames : g # f => meta'[g] = meta[g]
  BY <1>3, <1>4, <1>5, PinnedFields DEF Inv, TypeOK
<1>9. TypeOK'
  BY <1>5, <1>7, <1>8 DEF Inv, TypeOK
<1>10. WellFormed(t)'
  BY <1>1, <1>6, <1>7 DEF WellFormed, Evicting, Loading, Flushing
<1>11. Holders(f)' = Holders(f) \cup {<<t, NoPage>>}
  <2>1. \A u \in Threads : /\ (Loading(u) \/ Flushing(u))' /\ loc'[u].frame_id = f
                           <=> u = t \/ ((Loading(u) \/ Flushing(u)) /\ loc[u].frame_id = f)
    BY <1>1, <1>6, <1>7 DEF OnlyThread, Loading, Flushing
  <2> QED BY <1>5, <2>1 DEF Holders
<1>12. /\ meta'[f].pin_count = Cardinality(Holders(f)')
       /\ meta'[f].pin_count # 0
       /\ meta'[f].page_id = meta[f].page_id /\ meta'[f].state = meta[f].state
       /\ meta'[f].dirty_epoch = meta[f].dirty_epoch
  <2>1. Cardinality(Holders(f) \cup {<<t, NoPage>>}) = Cardinality(Holders(f)) + 1
    BY <1>4, HoldersFinite, FS_AddElement
  <2>2. Cardinality(Holders(f)) \in Nat
    BY HoldersFinite
  <2>3. meta'[f].pin_count = meta[f].pin_count + 1
    BY <1>3, <1>4, <1>8, PinnedFields
  <2> QED BY <1>3, <1>4, <1>8, <1>11, <2>1, <2>2, <2>3, PinnedFields
<1>13. PinChange(t, p, f)
  <2>1. /\ ~Moving(t) /\ ~Moving(t)' /\ ~Flushing(t)
        /\ loc'[t].frame_id = f /\ loc'[t].page_id = p
        /\ loc'[t].epoch <= meta'[f].dirty_epoch
    BY <1>1, <1>3, <1>6, <1>7, <1>12 DEF Moving, Evicting, Loading, Flushing
  <2>2. /\ meta'[f].dirty_epoch \in Nat /\ meta[f].dirty_epoch <= meta'[f].dirty_epoch
        /\ \A g \in Frames : g # f => (g \in evictable' <=> g \in evictable)
        /\ f \in evictable' <=> meta'[f].pin_count = 0
        /\ UNCHANGED <<pages, allocated, present, guard>>
    BY <1>3, <1>5, <1>12
  <2> QED BY <1>2, <1>3, <1>7, <1>8, <1>12, <2>1, <2>2 DEF PinChange
<1> QED BY <1>9, <1>10, <1>12, <1>13, PinStep

\* The end of a flush: m is f's metadata before the unpin.
LEMMA EndOfFlush ==
  ASSUME Inv, NEW t \in Threads, Flushing(t),
         NEW m \in FrameMetas, m.pin_count = meta[loc[t].frame_id].pin_count,
         m.page_id = meta[loc[t].frame_id].page_id,
         m.state = meta[loc[t].frame_id].state,
         m.dirty_epoch = meta[loc[t].frame_id].dirty_epoch,
         meta' = [meta EXCEPT ![loc[t].frame_id] = Unpinned(m)],
         ReplacerUnpin(loc[t].frame_id), sleeping' = {},
         pc' \in [Threads -> Labels], loc' \in [Threads -> Locals],
         OnlyThread(t), pc'[t] \in {"idle", "lock"}, WellFormed(t)',
         UNCHANGED <<pages, allocated, present, image, disk, guard, unmarked>>
  PROVE  Inv'
<1>1. PICK p \in Pages, f \in Frames :
        /\ p = loc[t].page_id /\ f = loc[t].frame_id /\ Holds(f, p)
  BY BusyFrames
<1>2. <<t, NoPage>> \in Holders(f)
  BY <1>1 DEF Holders
<1>3. /\ meta[f] \in FrameMetas /\ meta[f].pin_count > 0
      /\ Cardinality(Holders(f) \ {<<t, NoPage>>}) = Unpinned(meta[f]).pin_count
      /\ Unpinned(m) \in FrameMetas
      /\ Unpinned(m).pin_count = Unpinned(meta[f]).pin_count
      /\ Unpinned(m).page_id = meta[f].page_id
      /\ Unpinned(m).state = meta[f].state
      /\ Unpinned(m).dirty_epoch = meta[f].dirty_epoch
  <2>1. /\ meta[f] \in FrameMetas /\ meta[f].pin_count > 0
        /\ Cardinality(Holders(f) \ {<<t, NoPage>>}) = Unpinned(meta[f]).pin_count
    BY <1>1, <1>2, CountedPin
  <2>2. Unpinned(meta[f]).pin_count = meta[f].pin_count - 1
    BY <2>1, UnpinnedFields
  <2>3. m.pin_count > 0
    BY <1>1, <2>1
  <2> QED BY <1>1, <2>1, <2>2, <2>3, UnpinnedFields
<1>4. /\ meta' \in [Frames -> FrameMetas] /\ meta'[f] = Unpinned(m)
      /\ \A g \in Frames : g # f => meta'[g] = meta[g]
  BY <1>1, <1>3 DEF Inv, TypeOK
<1>5. /\ evictable' \subseteq Frames
      /\ \A g \in Frames : g # f => (g \in evictable' <=> g \in evictable)
      /\ f \in evictable' <=> meta'[f].pin_count = 0
  BY <1>1, <1>3, <1>4, UnpinEvictable
<1>6. TypeOK'
  BY <1>4, <1>5 DEF Inv, TypeOK
<1>7. Holders(f)' = Holders(f) \ {<<t, NoPage>>}
  <2>1. \A u \in Threads : /\ (Loading(u) \/ Flushing(u))' /\ loc'[u].frame_id = f
                           <=> u # t /\ (Loading(u) \/ Flushing(u)) /\ loc[u].frame_id = f
    BY DEF OnlyThread, Loading, Flushing
  <2> QED BY <2>1, ConstantFacts DEF Holders
<1>8. PinChange(t, p, f)
  <2>1. ~Moving(t) /\ ~Moving(t)' /\ ~Flushing(t)'
    BY DEF Moving, Evicting, Loading, Flushing
  <2>2. meta[f].dirty_epoch \in Nat /\ meta'[f].dirty_epoch = meta[f].dirty_epoch
    BY <1>3, <1>4 DEF FrameMetas
  <2> QED BY <1>1, <1>3, <1>4, <1>5, <2>1, <2>2 DEF PinChange
<1>9. meta'[f].pin_count = Cardinality(Holders(f)')
  BY <1>3, <1>4, <1>7
<1> QED BY <1>6, <1>8, <1>9, PinStep

\* FlushPage cleans and unpins after its write ...
LEMMA FlushDoneInv ==
  ASSUME Inv, NEW t \in Threads, FlushDone(t)
  PROVE  Inv'
<1>1. Flushing(t)
  BY DEF FlushDone, Flushing
<1>2. PICK f \in Frames : f = loc[t].frame_id
  BY <1>1, BusyFrames
<1>3. meta[f] \in FrameMetas /\ loc[t].todo \in SUBSET (Frames \X Pages)
  BY DEF Inv, TypeOK, Locals
<1>4. PICK m \in FrameMetas : m = Cleaned(meta[f], loc[t].page_id, loc[t].epoch)
  BY <1>3, CleanedFields
<1>5. /\ m.pin_count = meta[f].pin_count /\ m.page_id = meta[f].page_id
      /\ m.state = meta[f].state /\ m.dirty_epoch = meta[f].dirty_epoch
  BY <1>3, <1>4, CleanedFields
<1>6. /\ meta' = [meta EXCEPT ![f] = Unpinned(m)]
      /\ ReplacerUnpin(f) /\ sleeping' = {}
      /\ UNCHANGED <<pages, allocated, present, image, disk, guard, unmarked>>
  BY <1>2, <1>4 DEF FlushDone, NotifyAll
<1>7. /\ pc' \in [Threads -> Labels] /\ loc' \in [Threads -> Locals]
      /\ OnlyThread(t) /\ pc'[t] \in {"idle", "lock"} /\ WellFormed(t)'
  BY <1>3, FlushNextMoves DEF Inv, FlushDone
<1> QED BY <1>1, <1>2, <1>5, <1>6, <1>7, EndOfFlush

\* ... and unpins when the write failed.
LEMMA FlushFailedInv ==
  ASSUME Inv, NEW t \in Threads, FlushFailed(t)
  PROVE  Inv'
<1>1. Flushing(t)
  BY DEF FlushFailed, Flushing
<1>2. PICK f \in Frames : f = loc[t].frame_id
  BY <1>1, BusyFrames
<1>3. PICK m \in FrameMetas : m = meta[f]
  BY DEF Inv, TypeOK
<1>4. /\ meta' = [meta EXCEPT ![f] = Unpinned(m)]
      /\ ReplacerUnpin(f) /\ sleeping' = {}
      /\ UNCHANGED <<pages, allocated, present, image, disk, guard, unmarked>>
  BY <1>2, <1>3 DEF FlushFailed, NotifyAll
<1>5. /\ pc' \in [Threads -> Labels] /\ loc' \in [Threads -> Locals]
      /\ OnlyThread(t) /\ pc'[t] \in {"idle", "lock"} /\ WellFormed(t)'
  BY ThreadReturns DEF Inv, FlushFailed, WellFormed, Evicting, Loading, Flushing
<1> QED BY <1>1, <1>2, <1>3, <1>4, <1>5, EndOfFlush

-----------------------------------------------------------------------------
(* DeletePage.                                                             *)

\* DeletePage frees the id of a page that is not in memory.
LEMMA DeleteNonResidentInv ==
  ASSUME Inv, NEW t \in Threads, DeleteNonResident(t)
  PROVE  Inv'
<1>1. pc[t] = "lock" /\ loc[t].page_id \in Pages
  BY DEF DeleteNonResident, Locked, Inv, CallsAreWellFormed, WellFormed
<1>2. PICK p \in Pages : p = loc[t].page_id /\ pages[p].frame_id = NoFrame
  BY <1>1, PageFacts DEF DeleteNonResident
<1>3. /\ pc' \in [Threads -> Labels] /\ loc' \in [Threads -> Locals]
      /\ pc'[t] = "idle" /\ loc'[t].op = "none" /\ OnlyThread(t)
  BY ThreadReturns DEF DeleteNonResident, Inv
<1>4. pages' = [pages EXCEPT ![p] = PageEntry("kUnused", NoFrame)]
  BY <1>2 DEF DeleteNonResident, MakeUnused, UnusedEntry
<1>5. /\ pages' \in [Pages -> PageEntries]
      /\ pages'[p].state = "kUnused" /\ pages'[p].frame_id = NoFrame
      /\ \A q \in Pages : q # p => pages'[q] = pages[q]
  BY <1>4, EntryFields DEF Inv, TypeOK, PageState
<1>6. TypeOK'
  BY <1>3, <1>5 DEF DeleteNonResident, NotifyAll, Inv, TypeOK
<1> QED BY <1>1, <1>2, <1>3, <1>5, <1>6, Returned, IdStep DEF DeleteNonResident

\* DeletePage drops an unpinned page from memory and frees its id.
LEMMA DeleteResidentInv ==
  ASSUME Inv, NEW t \in Threads, DeleteResident(t)
  PROVE  Inv'
<1>1. /\ pc[t] = "lock" /\ loc[t].page_id \in Pages
      /\ pages[loc[t].page_id].state = "kResident"
  BY DEF DeleteResident, Locked, Inv, CallsAreWellFormed, WellFormed
<1>2. PICK p \in Pages, f \in Frames :
        /\ p = loc[t].page_id /\ f = pages[p].frame_id /\ Holds(f, p)
        /\ meta[f].state = "kResident"
  BY <1>1, ResidentFrame
<1>3. /\ meta[f].pin_count = 0
      /\ meta' = [meta EXCEPT ![f] = FreeMeta] /\ allocated' = allocated \ {f}
      /\ present' = present \ {f} /\ evictable' = evictable \ {f}
      /\ sleeping' = {} /\ Return(t) /\ UNCHANGED <<image, disk, guard, unmarked>>
  BY <1>2 DEF DeleteResident, IsPinned, ReplacerRemove, NotifyAll
<1>4. pages' = [[pages EXCEPT ![p] = PageEntry("kNonResident", NoFrame)]
                EXCEPT ![p] = PageEntry("kUnused", NoFrame)]
  BY <1>2 DEF DeleteResident, SetNonResident, MakeUnused, UnusedEntry
<1>5. /\ pages' \in [Pages -> PageEntries]
      /\ pages'[p].state = "kUnused" /\ pages'[p].frame_id = NoFrame
      /\ \A q \in Pages : q # p => pages'[q] = pages[q]
  BY <1>4, EntryFields DEF Inv, TypeOK, PageState
<1>6. Holders(f) = {}
  BY <1>2, <1>3, UnpinnedHasNoHolders
<1>7. \A u \in Threads : Moving(u) \/ Flushing(u) => loc[u].frame_id # f
  BY <1>2, <1>6, NobodyUses
<1>8. ~Moving(t) /\ ~Flushing(t)
  BY <1>1 DEF Moving, Evicting, Loading, Flushing
<1>9. /\ pc' \in [Threads -> Labels] /\ loc' \in [Threads -> Locals]
      /\ pc'[t] = "idle" /\ OnlyThread(t) /\ WellFormed(t)'
  BY <1>3, ThreadReturns, Returned DEF Inv
<1> QED BY <1>2, <1>3, <1>5, <1>6, <1>7, <1>8, <1>9, ReleaseInv

-----------------------------------------------------------------------------
(* Guards.                                                                 *)

\* The frame of a guard.
LEMMA GuardedFrame ==
  ASSUME Inv, NEW t \in Threads, NEW p \in Pages, guard[t][p] # NoFrame
  PROVE  /\ guard[t][p] \in Frames /\ Holds(guard[t][p], p)
         /\ <<t, p>> \in Holders(guard[t][p])
  BY ConstantFacts DEF Inv, TypeOK, GuardsAreSafe, Holders

\* A guard is dropped: its pin goes with it.
LEMMA DropPageGuardInv ==
  ASSUME Inv, NEW t \in Threads, NEW p \in Pages, DropPageGuard(t, p)
  PROVE  Inv'
<1>1. PICK f \in Frames :
        f = guard[t][p] /\ Holds(f, p) /\ <<t, p>> \in Holders(f)
  BY GuardedFrame DEF DropPageGuard
<1>2. /\ meta[f] \in FrameMetas /\ meta[f].pin_count > 0
      /\ Cardinality(Holders(f) \ {<<t, p>>}) = Unpinned(meta[f]).pin_count
  BY <1>1, CountedPin
<1>3. /\ guard' = [guard EXCEPT ![t] = [@ EXCEPT ![p] = NoFrame]]
      /\ meta' = [meta EXCEPT ![f] = Unpinned(meta[f])]
      /\ ReplacerUnpin(f) /\ sleeping' = {}
      /\ UNCHANGED <<pages, allocated, present, image, disk, pc, loc, unmarked>>
  BY <1>1 DEF DropPageGuard, NotifyAll
<1>4. /\ guard' \in [Threads -> [Pages -> Frames \cup {NoFrame}]]
      /\ \A u \in Threads, q \in Pages :
           guard'[u][q] = IF u = t /\ q = p THEN NoFrame ELSE guard[u][q]
  BY <1>3 DEF Inv, TypeOK
<1>5. /\ meta' \in [Frames -> FrameMetas] /\ meta'[f] = Unpinned(meta[f])
      /\ \A g \in Frames : g # f => meta'[g] = meta[g]
  BY <1>2, <1>3, UnpinnedFields DEF Inv, TypeOK
<1>6. /\ evictable' \subseteq Frames
      /\ \A g \in Frames : g # f => (g \in evictable' <=> g \in evictable)
      /\ f \in evictable' <=> meta'[f].pin_count = 0
  BY <1>1, <1>2, <1>3, <1>5, UnpinEvictable
<1>7. TypeOK'
  BY <1>3, <1>4, <1>5, <1>6 DEF Inv, TypeOK
<1>8. WellFormed(t)'
  BY <1>3, <1>4, OthersStayWellFormed
<1>9. Holders(f)' = Holders(f) \ {<<t, p>>}
  BY <1>1, <1>3, <1>4, ConstantFacts DEF Holders, Loading, Flushing
<1>10. PinChange(t, p, f)
  <2>1. /\ meta[f].dirty_epoch \in Nat /\ meta'[f].dirty_epoch = meta[f].dirty_epoch
        /\ meta'[f].page_id = meta[f].page_id /\ meta'[f].state = meta[f].state
    BY <1>2, <1>5, UnpinnedFields DEF FrameMetas
  <2> QED BY <1>1, <1>3, <1>4, <1>5, <1>6, <2>1 DEF PinChange, OnlyThread
<1>11. meta'[f].pin_count = Cardinality(Holders(f)')
  BY <1>2, <1>5, <1>9
<1> QED BY <1>7, <1>8, <1>10, <1>11, PinStep

\* A guard's page is marked dirty.
LEMMA MarkDirtyInv ==
  ASSUME Inv, NEW t \in Threads, NEW p \in Pages, MarkDirty(t, p)
  PROVE  Inv'
<1>1. PICK f \in Frames :
        f = guard[t][p] /\ Holds(f, p) /\ <<t, p>> \in Holders(f)
  BY GuardedFrame DEF MarkDirty
<1>2. meta[f] \in FrameMetas /\ meta[f].pin_count > 0
  BY <1>1, CountedPin
<1> DEFINE m == Marked(meta[f])
<1>3. /\ meta' = [meta EXCEPT ![f] = m]
      /\ unmarked' \subseteq unmarked
      /\ UNCHANGED <<pages, allocated, present, evictable, image, disk, guard,
                     sleeping, pc, loc>>
  BY <1>1 DEF MarkDirty
<1>4. /\ m \in FrameMetas /\ m.pin_count = meta[f].pin_count
      /\ m.page_id = meta[f].page_id /\ m.state = meta[f].state
      /\ meta[f].dirty_epoch \in Nat /\ m.dirty_epoch = meta[f].dirty_epoch + 1
  BY <1>2, MarkedFields
<1> HIDE DEF m
<1>5. /\ meta' \in [Frames -> FrameMetas] /\ meta'[f] = m
      /\ \A g \in Frames : g # f => meta'[g] = meta[g]
  BY <1>3, <1>4 DEF Inv, TypeOK
<1>6. TypeOK'
  BY <1>3, <1>5 DEF Inv, TypeOK
<1>7. WellFormed(t)'
  BY <1>3, OthersStayWellFormed
<1>8. Holders(f)' = Holders(f)
  BY <1>3 DEF Holders, Loading, Flushing
<1>9. PinChange(t, p, f)
  <2>1. f \notin evictable
    BY <1>2 DEF Inv, ReplacerIsExact, FrameMetas
  <2>2. meta'[f].pin_count # 0
    BY <1>2, <1>4, <1>5 DEF FrameMetas
  <2>3. meta'[f].dirty_epoch \in Nat /\ meta[f].dirty_epoch <= meta'[f].dirty_epoch
    BY <1>4, <1>5
  <2> QED BY <1>1, <1>3, <1>4, <1>5, <2>1, <2>2, <2>3 DEF PinChange, OnlyThread
<1>10. meta'[f].pin_count = Cardinality(Holders(f)')
  BY <1>1, <1>4, <1>5, <1>8 DEF Inv, PinsAreExact, Holds, PageIs
<1> QED BY <1>6, <1>7, <1>9, <1>10, PinStep

\* A client writes through a guard.
LEMMA ModifyPageInv ==
  ASSUME Inv, NEW t \in Threads, NEW p \in Pages, NEW c \in Images,
         ModifyPage(t, p, c)
  PROVE  Inv'
<1>1. guard[t][p] \in Frames
  BY GuardedFrame DEF ModifyPage
<1>2. TypeOK'
  BY <1>1 DEF Inv, TypeOK, ModifyPage, Content
<1> QED BY <1>2, TransferStep DEF ModifyPage, Evicting, Loading, Flushing

-----------------------------------------------------------------------------
(* The invariant, and what follows.                                        *)

\* The state of a buffer manager that has just been constructed, on whatever
\* the file contains.
Fresh ==
  /\ pages = [p \in Pages |-> UnusedEntry]
  /\ meta = [f \in Frames |-> FreeMeta]
  /\ allocated = {} /\ present = {} /\ evictable = {}
  /\ image = [f \in Frames |-> ZeroPage]
  /\ disk \in [Pages -> Content]
  /\ guard = [t \in Threads |-> [p \in Pages |-> NoFrame]]
  /\ sleeping = {}
  /\ pc = [t \in Threads |-> "idle"]
  /\ loc = [t \in Threads |-> NoCall]
  /\ unmarked = {}

\* It satisfies the invariant.
LEMMA FreshInv == Fresh => Inv
<1> SUFFICES ASSUME Fresh PROVE Inv
  OBVIOUS
<1> USE DEF Fresh
<1>1. TypeOK
  BY FreeMetaFields, NoCallFields, EntryFields
     DEF TypeOK, UnusedEntry, PageState, Content, Labels
<1>2. \A p \in Pages : pages[p].state = "kUnused" /\ pages[p].frame_id = NoFrame
  BY EntryFields DEF UnusedEntry, PageState
<1>3. \A f \in Frames : meta[f].state = "kFree"
  BY FreeMetaFields
<1>4. \A t \in Threads : pc[t] = "idle" /\ loc[t].op = "none"
  BY NoCallFields
<1>5. TablesAgree
  BY <1>2, <1>3 DEF TablesAgree
<1>6. GuardsAreSafe
  BY DEF GuardsAreSafe
<1>7. PinsAreExact
  BY <1>2, ConstantFacts DEF PinsAreExact
<1>8. ReplacerIsExact
  BY <1>2 DEF ReplacerIsExact, Holds, PageIs
<1>9. CallsKeepTheirFrame /\ CallsAreWellFormed
  BY <1>4 DEF CallsKeepTheirFrame, KeepsItsFrame, CallsAreWellFormed, WellFormed,
              Evicting, Loading, Flushing
<1>10. TransferIsExclusive
  BY <1>2, <1>4 DEF TransferIsExclusive, Exclusive, Owned, Moving, Evicting, Loading,
                    Flushing, Transient
<1> QED BY <1>1, <1>5, <1>6, <1>7, <1>8, <1>9, <1>10 DEF Inv

\* The first file is all zeros.
LEMMA InitInv == Init => Inv
BY FreshInv DEF Init, Fresh, Content

\* The invariant does not depend on anything but the variables.
LEMMA StutterInv == Inv /\ UNCHANGED vars => Inv'
<1> SUFFICES ASSUME Inv, UNCHANGED vars PROVE Inv'
  OBVIOUS
<1> USE DEF vars
<1>1. TypeOK'
  BY DEF Inv, TypeOK
<1>2. CASE Threads = {}
  BY <1>1, <1>2 DEF Inv, TablesAgree, GuardsAreSafe, PinsAreExact, Holders, ReplacerIsExact,
     CallsKeepTheirFrame, TransferIsExclusive, CallsAreWellFormed, Owned, Transient,
     Holds, PageIs
<1>3. ASSUME NEW t \in Threads PROVE Inv'
  BY <1>1, TransferStep DEF Evicting, Loading, Flushing
<1> QED BY <1>2, <1>3

\* Every step preserves the invariant, with room for the pin of a flush.
LEMMA LimitedNextInv ==
  ASSUME Inv, \A t \in Threads : FlushHasRoom(t), Next
  PROVE  Inv'
<1>1. PICK t \in Threads :
        \/ Call(t) \/ Step(t) \/ SpuriousWake(t)
        \/ \E p \in Pages : UseGuard(t, p)
  BY DEF Next
<1>2. CASE Call(t)
  BY <1>2, CallInv
<1>3. CASE NewPage(t)
  BY <1>3, RefusedInv, NewPageFreeFrameInv, NewPageEvictInv, NewPageWaitInv,
     NewPageNoFrameInv, NewPageEvictedInv DEF NewPage
<1>4. CASE FetchPage(t)
  BY <1>4, FetchLookupInv, FetchFreeFrameInv, FetchEvictInv, WaitInv, RefusedInv,
     FetchEvictedInv, ReadPageInv, FetchLoadedInv, FetchFailedInv DEF FetchPage
<1>5. CASE Evict(t)
  BY <1>5, EvictWriteInv, EvictFailedInv DEF Evict
<1>6. CASE FlushPage(t)
  BY <1>6, FlushAllListInv, RefusedInv, WaitInv, FlushNothingInv, FlushStartInv,
     FlushWriteInv, FlushDoneInv, FlushFailedInv DEF FlushPage
<1>7. CASE DeletePage(t)
  BY <1>7, WaitInv, RefusedInv, DeleteResidentInv, DeleteNonResidentInv DEF DeletePage
<1>8. CASE SpuriousWake(t)
  BY <1>8, SpuriousWakeInv
<1>9. ASSUME NEW p \in Pages, UseGuard(t, p) PROVE Inv'
  BY <1>9, ModifyPageInv, MarkDirtyInv, DropPageGuardInv DEF UseGuard
<1> QED BY <1>1, <1>2, <1>3, <1>4, <1>5, <1>6, <1>7, <1>8, <1>9 DEF Step

\* Every step preserves the invariant when pin_count can count the pins.
LEMMA NextInv ==
  ASSUME Inv, PinsFit, Next
  PROVE  Inv'
  BY LimitedNextInv, FlushesFit

\* Inv holds throughout, for any numbers of threads, pages and frames, as
\* long as pin_count can count the pins.
THEOREM Invariance == PinsFit => (Spec => []Inv)
<1> SUFFICES ASSUME PinsFit PROVE Spec => []Inv
  OBVIOUS
<1>1. Init => Inv
  BY InitInv
<1>2. Inv /\ [Next]_vars => Inv'
  BY NextInv, StutterInv
<1> QED BY <1>1, <1>2, PTL DEF Spec

\* No out-of-range id, pin count or page state is ever stored.
THEOREM TypeCorrect == PinsFit => (Spec => []TypeOK)
<1>1. Inv => TypeOK
  BY DEF Inv
<1> QED BY <1>1, Invariance, PTL

\* Page table, frame metadata and frame allocator always agree.
THEOREM TablesAlwaysAgree == PinsFit => (Spec => []TablesAgree)
<1>1. Inv => TablesAgree
  BY DEF Inv
<1> QED BY <1>1, Invariance, PTL

\* A page guard is safe to use for as long as it is kept.
THEOREM GuardsAlwaysSafe == PinsFit => (Spec => []GuardsAreSafe)
<1>1. Inv => GuardsAreSafe
  BY DEF Inv
<1> QED BY <1>1, Invariance, PTL

\* pin_count never under- or overcounts.
THEOREM PinsAlwaysExact == PinsFit => (Spec => []PinsAreExact)
<1>1. Inv => PinsAreExact
  BY DEF Inv
<1> QED BY <1>1, Invariance, PTL

\* The replacer never offers a frame in use and never loses one that is not.
THEOREM ReplacerAlwaysExact == PinsFit => (Spec => []ReplacerIsExact)
<1>1. Inv => ReplacerIsExact
  BY DEF Inv
<1> QED BY <1>1, Invariance, PTL

\* No two calls ever move a page through the same frame, and every page in
\* transit has a call that moves it.
THEOREM TransfersAlwaysExclusive == PinsFit => (Spec => []TransferIsExclusive)
<1>1. Inv => TransferIsExclusive
  BY DEF Inv
<1> QED BY <1>1, Invariance, PTL

\* The invariant holds up to the limit of pin_count, however small it is:
\* the one step that can break it is a flush of a frame with all its pins.
LEMMA LimitedInvariance == LimitedSpec => []Inv
<1>1. Init => Inv
  BY InitInv
<1>2. Inv /\ [Next /\ \A t \in Threads : FlushHasRoom(t)]_vars => Inv'
  BY LimitedNextInv, StutterInv
<1> QED BY <1>1, <1>2, PTL DEF LimitedSpec

\* The overflow check of PinResidentFrameLocked is enough for any number of
\* guards: pin_count never wraps, as long as no flush begins at the limit.
THEOREM PinsExactToTheLimit == LimitedSpec => []PinsAreExact
<1>1. Inv => PinsAreExact
  BY DEF Inv
<1> QED BY <1>1, LimitedInvariance, PTL

\* Nor does a guard lose its page at the limit.
THEOREM GuardsSafeToTheLimit == LimitedSpec => []GuardsAreSafe
<1>1. Inv => GuardsAreSafe
  BY DEF Inv
<1> QED BY <1>1, LimitedInvariance, PTL

-----------------------------------------------------------------------------
(* Waiting.                                                                *)

\* Thread t sleeps for a reason: NoLostWakeup, and what the call waits for.
Asleep(t) ==
  /\ pc[t] = "lock" /\ StillBlocked(t)
  /\ loc[t].op # "NewPage" => loc[t].page_id \in Pages

SleepersAreBlocked == \A t \in sleeping : Asleep(t)

\* The sleepers of a state are those of the one before, whose calls and
\* conditions have not changed, or have just found that they must wait.
LEMMA SleepersStay ==
  ASSUME SleepersAreBlocked,
         \A u \in sleeping' :
           \/ u \in sleeping /\ pc'[u] = pc[u] /\ loc'[u] = loc[u]
           \/ Asleep(u)',
         MustWaitForFrame => MustWaitForFrame',
         \A q \in Pages : Transient(pages, q) => Transient(pages', q),
         \A q \in Pages : MustWaitForFrame /\ pages[q].state = "kNonResident"
                            => pages'[q].state = "kNonResident"
  PROVE  SleepersAreBlocked'
<1> SUFFICES ASSUME NEW u \in sleeping', u \in sleeping, pc'[u] = pc[u],
                    loc'[u] = loc[u]
             PROVE  Asleep(u)'
  BY DEF SleepersAreBlocked
<1>1. Asleep(u)
  BY DEF SleepersAreBlocked
<1>2. StillBlocked(u)'
  BY <1>1 DEF Asleep, StillBlocked, Transient
<1> QED BY <1>1, <1>2 DEF Asleep

\* Steps that change no page's and no frame's state and free no frame.
LEMMA QuietSleepers ==
  ASSUME SleepersAreBlocked, pages' = pages, allocated' = allocated,
         evictable' \subseteq evictable,
         \A f \in Frames : meta'[f].state = meta[f].state,
         \A u \in sleeping' :
           \/ u \in sleeping /\ pc'[u] = pc[u] /\ loc'[u] = loc[u]
           \/ Asleep(u)'
  PROVE  SleepersAreBlocked'
<1>1. MustWaitForFrame => MustWaitForFrame'
  BY DEF MustWaitForFrame, HasTransientFrame
<1> QED BY <1>1, SleepersStay

\* A thread that runs is not asleep, and its step leaves the others' calls.
LEMMA RunnerIsAwake ==
  ASSUME Inv, SleepersAreBlocked, NEW t \in Threads, t \notin sleeping,
         OnlyThread(t), NEW u \in sleeping
  PROVE  pc'[u] = pc[u] /\ loc'[u] = loc[u]
  BY DEF Inv, TypeOK, OnlyThread

\* Calls, refusals and I/O: nobody's condition changes.
LEMMA QuietStepSleepers ==
  ASSUME Inv, SleepersAreBlocked, NEW t \in Threads,
         \/ Call(t) \/ NewPageNoId(t) \/ FetchNoFrame(t) \/ FlushUnused(t)
         \/ DeleteRefused(t) \/ EvictWrite(t) \/ ReadPage(t) \/ FlushWrite(t)
         \/ FlushAllList(t) \/ FlushNothing(t)
  PROVE  SleepersAreBlocked'
<1>1. t \notin sleeping
  BY DEF SleepersAreBlocked, Asleep, Call, BeginCall, NewPageNoId, FetchNoFrame,
         FlushUnused, DeleteRefused, EvictWrite, ReadPage, FlushWrite,
         FlushAllList, FlushNothing, FlushLocked, Locked
<1>2. /\ UNCHANGED <<pages, meta, allocated, evictable, sleeping>>
      /\ \A u \in Threads \ {t} : pc'[u] = pc[u] /\ loc'[u] = loc[u]
  <2>1. CASE Call(t)
    BY <2>1 DEF Inv, TypeOK, Call, BeginCall, Goto
  <2>2. CASE NewPageNoId(t) \/ FetchNoFrame(t) \/ FlushUnused(t) \/ DeleteRefused(t)
    BY <2>2 DEF Inv, TypeOK, NewPageNoId, FetchNoFrame, FlushUnused,
                DeleteRefused, Return, Goto
  <2>3. CASE EvictWrite(t) \/ ReadPage(t)
    BY <2>3 DEF Inv, TypeOK, EvictWrite, ReadPage, Goto
  <2>4. CASE FlushWrite(t)
    BY <2>4 DEF Inv, TypeOK, FlushWrite, Goto
  <2>5. CASE FlushAllList(t) \/ FlushNothing(t)
    <3>1. PICK todo : FlushNext(t, todo)
      BY <2>5 DEF FlushAllList, FlushNothing
    <3>2. \A u \in Threads \ {t} : pc'[u] = pc[u] /\ loc'[u] = loc[u]
      BY <3>1 DEF FlushNext, Return, Goto, Inv, TypeOK
    <3> QED BY <2>5, <3>2 DEF FlushAllList, FlushNothing
  <2> QED BY <2>1, <2>2, <2>3, <2>4, <2>5
<1> QED BY <1>1, <1>2, QuietSleepers DEF Inv, TypeOK

\* A call that finds its page in transit, or no frame, goes to sleep.
LEMMA WaitSleepers ==
  ASSUME Inv, SleepersAreBlocked, NEW t \in Threads,
         FetchWait(t) \/ FlushWait(t) \/ DeleteWait(t)
  PROVE  SleepersAreBlocked'
<1>1. /\ UNCHANGED <<pages, meta, allocated, evictable, pc, loc>>
      /\ sleeping' = sleeping \cup {t} /\ pc[t] = "lock"
  BY DEF FetchWait, FlushWait, DeleteWait, Wait, FlushLocked, Locked
<1>2. Asleep(t)
  <2>1. /\ loc[t].op \in {"FetchPage", "FlushPage", "FlushAllPages", "DeletePage"}
        /\ loc[t].page_id \in Pages
    BY DEF FetchWait, FlushWait, DeleteWait, FlushLocked, Locked, Inv,
           CallsAreWellFormed, WellFormed, TypeOK, Locals
  <2>2. CASE FetchWait(t)
    BY <2>1, <2>2, <1>1 DEF FetchWait, Asleep, StillBlocked, Locked
  <2>3. CASE FlushWait(t) \/ DeleteWait(t)
    BY <2>1, <2>3, <1>1
       DEF FlushWait, DeleteWait, FlushLocked, Locked, Asleep, StillBlocked,
           Transient
  <2> QED BY <2>2, <2>3
<1>3. Asleep(t)'
  BY <1>1, <1>2 DEF Asleep, StillBlocked, MustWaitForFrame, HasTransientFrame
<1> QED BY <1>1, <1>3, QuietSleepers

\* NewPage takes an id and goes to sleep for want of a frame.  Nobody was
\* waiting for a page that was not allocated.
LEMMA NewPageWaitSleepers ==
  ASSUME Inv, SleepersAreBlocked, NEW t \in Threads, NewPageWait(t)
  PROVE  SleepersAreBlocked'
<1>1. /\ UNCHANGED <<meta, allocated, evictable, pc>>
      /\ sleeping' = sleeping \cup {t} /\ t \notin sleeping
      /\ loc[t].op = "NewPage" /\ pc[t] = "lock" /\ MustWaitForFrame
  BY DEF NewPageWait, Locked
<1>2. PICK p \in NewPageIds(t) :
        /\ pages' = NewPageTable(t, p)
        /\ loc' = [loc EXCEPT ![t] = [@ EXCEPT !.page_id = p]]
  BY DEF NewPageWait
<1>3. /\ loc'[t].op = "NewPage"
      /\ \A u \in Threads \ {t} : loc'[u] = loc[u]
  BY <1>1, <1>2 DEF Inv, TypeOK, Locals
<1>4. MustWaitForFrame'
  BY <1>1 DEF MustWaitForFrame, HasTransientFrame
<1>5. Asleep(t)'
  BY <1>1, <1>3, <1>4 DEF Asleep, StillBlocked
<1>6. \A q \in Pages : \/ pages'[q] = pages[q]
                       \/ pages[q].state = "kUnused"
  BY <1>2 DEF NewPageIds, NewPageTable, MakeAllocated, Inv, TypeOK
<1> QED BY <1>1, <1>3, <1>4, <1>5, <1>6, SleepersStay DEF Inv, TypeOK, Transient

\* FetchPage finds its page: the pin it takes frees no frame.
LEMMA FetchLookupSleepers ==
  ASSUME Inv, SleepersAreBlocked, NEW t \in Threads, FetchLookup(t)
  PROVE  SleepersAreBlocked'
<1> DEFINE p == loc[t].page_id
<1>1. /\ t \notin sleeping /\ loc[t].op = "FetchPage" /\ p \in Pages
      /\ pages[p].state # "kNonResident" /\ allocated' = allocated
      /\ FetchTurn(t, p, pages, meta, sleeping)
  BY DEF FetchLookup, Locked, Inv, CallsAreWellFormed, WellFormed
<1>2. pages' = pages
  BY <1>1 DEF FetchTurn
<1>3. CASE Return(t) /\ sleeping' = sleeping
  <2>1. /\ evictable' \subseteq evictable
        /\ \A f \in Frames : meta'[f].state = meta[f].state
    <3>1. CASE meta' = meta /\ evictable' = evictable
      BY <3>1
    <3>2. CASE Pin(t, p, pages[p].frame_id, meta)
      BY <3>2 DEF Pin, ReplacerPin, Pinned, Inv, TypeOK, FrameMetas
    <3> QED BY <1>1, <3>1, <3>2 DEF FetchTurn
  <2>2. \A u \in Threads \ {t} : pc'[u] = pc[u] /\ loc'[u] = loc[u]
    BY <1>3 DEF Return, Goto, Inv, TypeOK
  <2> QED BY <1>1, <1>2, <1>3, <2>1, <2>2, QuietSleepers DEF Inv, TypeOK
<1>4. CASE /\ Transient(pages, p) /\ sleeping' = sleeping \cup {t}
           /\ Goto(t, "lock")
           /\ loc' = [loc EXCEPT ![t] = [NoCall EXCEPT !.op = "FetchPage",
                                                       !.page_id = p]]
           /\ UNCHANGED <<meta, evictable>>
  <2>1. /\ pc'[t] = "lock" /\ loc'[t].op = "FetchPage" /\ loc'[t].page_id = p
        /\ \A u \in Threads \ {t} : pc'[u] = pc[u] /\ loc'[u] = loc[u]
    BY <1>4 DEF Goto, NoCall, Inv, TypeOK
  <2>2. Asleep(t)'
    BY <1>1, <1>2, <1>4, <2>1 DEF Asleep, StillBlocked, Transient
  <2> QED BY <1>1, <1>2, <1>4, <2>1, <2>2, QuietSleepers DEF Inv, TypeOK
<1> QED BY <1>1, <1>3, <1>4 DEF FetchTurn

\* A frame is taken, or a victim leaves: nobody was waiting for a frame, and
\* the page that moves was not in transit before.
LEMMA FrameTakenSleepers ==
  ASSUME Inv, SleepersAreBlocked, NEW t \in Threads, t \notin sleeping,
         sleeping' = sleeping, OnlyThread(t), ~MustWaitForFrame,
         \A q \in Pages : Transient(pages, q) => Transient(pages', q)
  PROVE  SleepersAreBlocked'
<1>1. \A u \in sleeping' : u \in sleeping /\ pc'[u] = pc[u] /\ loc'[u] = loc[u]
  BY RunnerIsAwake
<1> QED BY <1>1, SleepersStay

\* FetchPage takes a free frame.
LEMMA FetchFreeFrameSleepers ==
  ASSUME Inv, SleepersAreBlocked, NEW t \in Threads, FetchFreeFrame(t)
  PROVE  SleepersAreBlocked'
<1>1. /\ t \notin sleeping /\ sleeping' = sleeping /\ loc[t].page_id \in Pages
      /\ pages[loc[t].page_id].state = "kNonResident"
  BY DEF FetchFreeFrame, Locked, Inv, CallsAreWellFormed, WellFormed
<1>2. PICK f \in Frames \ allocated : StartLoad(t, loc[t].page_id, f, pages)
  BY DEF FetchFreeFrame
<1>3. ~MustWaitForFrame
  BY <1>2 DEF MustWaitForFrame
<1>4. OnlyThread(t)
  BY <1>2 DEF StartLoad, Goto, OnlyThread, Inv, TypeOK
<1>5. \A q \in Pages : Transient(pages, q) => Transient(pages', q)
  BY <1>1, <1>2 DEF StartLoad, SetLoading, Transient, Inv, TypeOK
<1> QED BY <1>1, <1>3, <1>4, <1>5, FrameTakenSleepers

\* NewPage or FetchPage starts an eviction.
LEMMA EvictSleepers ==
  ASSUME Inv, SleepersAreBlocked, NEW t \in Threads,
         NewPageEvict(t) \/ FetchEvict(t)
  PROVE  SleepersAreBlocked'
<1>1. t \notin sleeping
  BY DEF NewPageEvict, FetchEvict, Locked
<1>2. PICK p \in Pages \cup {NoPage}, f \in evictable,
           pt \in [Pages -> PageEntries] :
        /\ StartEviction(t, p, f, pt)
        /\ \A q \in Pages : Transient(pages, q) => Transient(pt, q)
  <2>1. CASE NewPageEvict(t)
    <3>1. PICK p \in NewPageIds(t), f \in evictable :
            StartEviction(t, p, f, NewPageTable(t, p))
      BY <2>1 DEF NewPageEvict
    <3>2. /\ \A q \in Pages : Transient(pages, q) => Transient(NewPageTable(t, p), q)
          /\ NewPageTable(t, p) \in [Pages -> PageEntries]
      BY EntryFields DEF NewPageTable, NewPageIds, MakeAllocated, PageEntry, Transient,
             Inv, TypeOK, PageEntries, PageState
    <3>3. p \in Pages \cup {NoPage}
      BY DEF NewPageIds, Inv, TypeOK, Locals
    <3> QED BY <3>1, <3>2, <3>3
  <2>2. CASE FetchEvict(t)
    BY <2>2 DEF FetchEvict, Inv, TypeOK, Locals
  <2> QED BY <2>1, <2>2
<1>3. sleeping' = sleeping /\ OnlyThread(t)
  BY <1>2 DEF StartEviction, Goto, OnlyThread, Inv, TypeOK
<1>4. ~MustWaitForFrame
  BY <1>2 DEF MustWaitForFrame
<1>5. \A q \in Pages : Transient(pages, q) => Transient(pages', q)
  BY <1>2 DEF StartEviction, SetEvicting, PageEntry, Transient
<1> QED BY <1>1, <1>3, <1>4, <1>5, FrameTakenSleepers

\* FetchPage has evicted: everybody is woken, and it may sleep itself.
LEMMA FetchEvictedSleepers ==
  ASSUME Inv, SleepersAreBlocked, NEW t \in Threads, FetchEvicted(t)
  PROVE  SleepersAreBlocked'
<1> DEFINE p == loc[t].page_id
<1>1. p \in Pages
  BY DEF FetchEvicted, Inv, CallsAreWellFormed, WellFormed
<1>2. CASE sleeping' = {}
  BY <1>2 DEF SleepersAreBlocked
<1>3. CASE sleeping' # {}
  <2>1. /\ sleeping' = {t} /\ pc'[t] = "lock" /\ Transient(pages', p)
        /\ loc'[t] = [NoCall EXCEPT !.op = "FetchPage", !.page_id = p]
    BY <1>3 DEF FetchEvicted, FetchTurn, NotifyAll, Goto, Inv, TypeOK
  <2>2. loc'[t].op = "FetchPage" /\ loc'[t].page_id = p
    BY <2>1 DEF NoCall
  <2>3. Asleep(t)'
    BY <1>1, <2>1, <2>2 DEF Asleep, StillBlocked, Transient
  <2> QED BY <2>1, <2>3 DEF SleepersAreBlocked
<1> QED BY <1>2, <1>3

\* FlushPage pins the frame it is going to write.
LEMMA FlushStartSleepers ==
  ASSUME Inv, SleepersAreBlocked, NEW t \in Threads, FlushStart(t)
  PROVE  SleepersAreBlocked'
<1>1. t \notin sleeping /\ UNCHANGED <<pages, allocated, sleeping>>
  BY DEF FlushStart, FlushLocked, Locked
<1>2. /\ evictable' \subseteq evictable
      /\ \A f \in Frames : meta'[f].state = meta[f].state
      /\ \A u \in Threads \ {t} : pc'[u] = pc[u] /\ loc'[u] = loc[u]
  BY DEF FlushStart, Pinned, Goto, Inv, TypeOK, FrameMetas
<1> QED BY <1>1, <1>2, QuietSleepers DEF Inv, TypeOK

\* Steps that end with notify_all, and those of the guards.
LEMMA NotifyingSleepers ==
  ASSUME NEW t \in Threads,
         \/ NewPageFreeFrame(t) \/ NewPageNoFrame(t) \/ NewPageEvicted(t)
         \/ EvictFailed(t) \/ FetchLoaded(t) \/ FetchFailed(t) \/ FlushDone(t)
         \/ FlushFailed(t) \/ DeleteResident(t) \/ DeleteNonResident(t)
         \/ \E p \in Pages : DropPageGuard(t, p)
  PROVE  SleepersAreBlocked'
<1>1. sleeping' = {}
  BY DEF NotifyAll, NewPageFreeFrame, NewPageNoFrame, NewPageEvicted,
         PublishNewPage, EvictFailed, FetchLoaded, FetchFailed, FlushDone,
         FlushFailed, DeleteResident, DeleteNonResident, DropPageGuard
<1> QED BY <1>1 DEF SleepersAreBlocked

\* Guards are used whatever the thread that obtained them is doing.
LEMMA GuardSleepers ==
  ASSUME Inv, SleepersAreBlocked, NEW t \in Threads,
         \/ SpuriousWake(t)
         \/ \E p \in Pages : MarkDirty(t, p) \/ \E c \in Images : ModifyPage(t, p, c)
  PROVE  SleepersAreBlocked'
<1>1. /\ UNCHANGED <<pages, allocated, evictable, pc, loc>>
      /\ sleeping' \subseteq sleeping
      /\ \A f \in Frames : meta'[f].state = meta[f].state
  <2>1. ASSUME NEW p \in Pages, MarkDirty(t, p)
        PROVE  \A f \in Frames : meta'[f].state = meta[f].state
    BY <2>1 DEF MarkDirty, Marked, Inv, TypeOK, FrameMetas
  <2> QED BY <2>1 DEF SpuriousWake, MarkDirty, ModifyPage
<1> QED BY <1>1, QuietSleepers

\* No step leaves a thread asleep that could go on.
LEMMA NextSleepers ==
  ASSUME Inv, SleepersAreBlocked, Next
  PROVE  SleepersAreBlocked'
<1>1. PICK t \in Threads :
        \/ Call(t) \/ Step(t) \/ SpuriousWake(t)
        \/ \E p \in Pages : UseGuard(t, p)
  BY DEF Next
<1>2. CASE Call(t)
  BY <1>2, QuietStepSleepers
<1>3. CASE NewPage(t)
  BY <1>3, QuietStepSleepers, NotifyingSleepers, EvictSleepers,
     NewPageWaitSleepers DEF NewPage
<1>4. CASE FetchPage(t)
  BY <1>4, QuietStepSleepers, NotifyingSleepers, EvictSleepers, WaitSleepers,
     FetchLookupSleepers, FetchFreeFrameSleepers, FetchEvictedSleepers
     DEF FetchPage
<1>5. CASE Evict(t)
  BY <1>5, QuietStepSleepers, NotifyingSleepers DEF Evict
<1>6. CASE FlushPage(t)
  BY <1>6, QuietStepSleepers, NotifyingSleepers, WaitSleepers,
     FlushStartSleepers DEF FlushPage
<1>7. CASE DeletePage(t)
  BY <1>7, QuietStepSleepers, NotifyingSleepers, WaitSleepers DEF DeletePage
<1>8. CASE SpuriousWake(t) \/ \E p \in Pages : UseGuard(t, p)
  BY <1>8, GuardSleepers, NotifyingSleepers DEF UseGuard
<1> QED BY <1>1, <1>2, <1>3, <1>4, <1>5, <1>6, <1>7, <1>8 DEF Step

\* Who sleeps is blocked, throughout.
LEMMA SleepersInvariance == PinsFit => (Spec => [](Inv /\ SleepersAreBlocked))
<1> SUFFICES ASSUME PinsFit PROVE Spec => [](Inv /\ SleepersAreBlocked)
  OBVIOUS
<1>1. Init => Inv /\ SleepersAreBlocked
  BY InitInv DEF Init, SleepersAreBlocked
<1>2. (Inv /\ SleepersAreBlocked) /\ [Next]_vars => (Inv /\ SleepersAreBlocked)'
  <2>1. Inv /\ SleepersAreBlocked /\ Next => Inv' /\ SleepersAreBlocked'
    BY NextInv, NextSleepers
  <2>2. Inv /\ SleepersAreBlocked /\ UNCHANGED vars => Inv' /\ SleepersAreBlocked'
    BY StutterInv, QuietSleepers DEF vars
  <2> QED BY <2>1, <2>2
<1> QED BY <1>1, <1>2, PTL DEF Spec

\* No wake-up is lost: whoever sleeps on state_changed_ waits for a page or a
\* frame that is still in transit.
THEOREM NoWakeupIsLost == PinsFit => (Spec => []NoLostWakeup)
<1>1. Inv /\ SleepersAreBlocked => NoLostWakeup
  BY DEF SleepersAreBlocked, NoLostWakeup, Asleep
<1> QED BY <1>1, SleepersInvariance, PTL

\* A page in transit is moved by a thread that is awake.
LEMMA MoverIsAwake ==
  ASSUME Inv, SleepersAreBlocked, NEW p \in Pages, Transient(pages, p)
  PROVE  \E u \in Threads \ sleeping :
           Moving(u) /\ loc[u].frame_id = pages[p].frame_id
<1>1. PICK u \in Threads : Moving(u) /\ loc[u].frame_id = pages[p].frame_id
  BY DEF Inv, TransferIsExclusive, Owned
<1>2. u \notin sleeping
  BY <1>1 DEF SleepersAreBlocked, Asleep, Moving, Evicting, Loading
<1> QED BY <1>1, <1>2

\* A frame in transit has a page in transit.
LEMMA TransitHasPage ==
  ASSUME Inv, HasTransientFrame
  PROVE  \E p \in Pages : Transient(pages, p)
<1>1. PICK f \in Frames : meta[f].state \in {"kLoading", "kEvicting"}
  BY DEF HasTransientFrame
<1>2. PICK p \in Pages : p = meta[f].page_id /\ pages[p].frame_id = f
  BY <1>1 DEF Inv, TablesAgree
<1> QED BY <1>1, <1>2, PageFacts DEF Transient

\* Nobody waits in a circle: whoever sleeps is waiting for a thread that is
\* awake and will notify.
THEOREM NoCircularWait == PinsFit => (Spec => []SomeoneWillNotify)
<1>1. ASSUME Inv, SleepersAreBlocked, NEW t \in sleeping
      PROVE  \E u \in Threads \ sleeping :
               /\ Moving(u)
               /\ loc[t].page_id \in Pages /\ Transient(pages, loc[t].page_id)
                    => loc[u].frame_id = pages[loc[t].page_id].frame_id
  <2>1. t \in Threads /\ Asleep(t) /\ WellFormed(t)
    BY <1>1 DEF SleepersAreBlocked, Inv, TypeOK, CallsAreWellFormed
  <2>2. CASE loc[t].page_id \in Pages /\ Transient(pages, loc[t].page_id)
    BY <1>1, <2>2, MoverIsAwake
  <2>3. CASE ~(loc[t].page_id \in Pages /\ Transient(pages, loc[t].page_id))
    <3>1. HasTransientFrame
      BY <2>1, <2>3 DEF Asleep, StillBlocked, MustWaitForFrame
    <3>2. PICK p \in Pages : Transient(pages, p)
      BY <1>1, <3>1, TransitHasPage
    <3> QED BY <1>1, <2>3, <3>2, MoverIsAwake
  <2> QED BY <2>2, <2>3
<1>2. Inv /\ SleepersAreBlocked => SomeoneWillNotify
  BY <1>1 DEF SomeoneWillNotify
<1> QED BY <1>2, SleepersInvariance, PTL

-----------------------------------------------------------------------------
(* Contents: CleanMatchesDisk and TransfersAreTrue hold together, and with *)
(* them no step but a client's changes what is on a page.                  *)

ContentsInv == CleanMatchesDisk /\ TransfersAreTrue

\* CleanMatchesDisk for one page ...
CleanPage(p) ==
  /\ pages[p].state = "kResident"
  /\ ~meta[pages[p].frame_id].dirty
  /\ pages[p].frame_id \notin unmarked
  => image[pages[p].frame_id] = disk[p]

\* ... TransfersAreTrue for one thread ...
TrueTransfer(t) ==
  LET f == loc[t].frame_id
  IN /\ pc[t] = "evictWrite" \/ pc[t] = "evictFailed" => loc[t].dirty
     /\ pc[t] = "evicted" /\ f \notin unmarked
          => image[f] = disk[loc[t].old_page_id]
     /\ pc[t] = "loaded" => image[f] = disk[loc[t].page_id]
     /\ pc[t] = "flushed" /\ loc[t].epoch = meta[f].dirty_epoch
                          /\ f \notin unmarked
          => image[f] = disk[loc[t].page_id]

\* ... and ContentIsStable for one step and one page.
StablePage(p) ==
  /\ pages[p].state # "kUnused" /\ pages'[p].state # "kUnused"
  /\ ~BeingCreated(p)
  => PageContent(p)' = PageContent(p) \/ Unmarked(p) \/ Unmarked(p)'

\* What every step is shown to do.
KeepsContents == ContentsInv' /\ \A p \in Pages : StablePage(p)

\* The parts make up the whole.
LEMMA ContentParts ==
  /\ ContentsInv => \A p \in Pages : CleanPage(p)
  /\ ContentsInv => \A t \in Threads : TrueTransfer(t)
  /\ (\A p \in Pages : CleanPage(p)') /\ (\A t \in Threads : TrueTransfer(t)')
       => ContentsInv'
<1>1. CleanMatchesDisk <=> \A p \in Pages : CleanPage(p)
  BY DEF CleanMatchesDisk, CleanPage
<1>2. TransfersAreTrue <=> \A t \in Threads : TrueTransfer(t)
  BY DEF TransfersAreTrue, TrueTransfer
<1>3. CleanMatchesDisk' <=> \A p \in Pages : CleanPage(p)'
  BY DEF CleanMatchesDisk, CleanPage
<1>4. TransfersAreTrue' <=> \A t \in Threads : TrueTransfer(t)'
  BY DEF TransfersAreTrue, TrueTransfer
<1> QED BY <1>1, <1>2, <1>3, <1>4 DEF ContentsInv

\* The pages and frames that have nothing to do with frame f are left alone.
OnlyFrame(f) ==
  /\ \A g \in Frames \ {f} :
       /\ image'[g] = image[g]
       /\ g \in unmarked' <=> g \in unmarked
       /\ meta'[g].dirty = meta[g].dirty
       /\ meta'[g].dirty_epoch = meta[g].dirty_epoch
  /\ \A q \in Pages : pages[q].frame_id \in Frames \ {f} => disk'[q] = disk[q]

\* Page q is on disk before and after a step that does not write it, or in a
\* frame that the step does not touch.
Untouched(q, f) ==
  \/ pages'[q] = pages[q] /\ pages[q].frame_id \in Frames \ {f}
  \/ /\ pages[q].state \in {"kUnused", "kNonResident", "kLoading"}
     /\ pages'[q].state \in {"kUnused", "kNonResident", "kLoading"}
     /\ disk'[q] = disk[q]

\* A page that is not touched keeps its contents.
LEMMA UntouchedPage ==
  ASSUME ContentsInv, NEW f, OnlyFrame(f), NEW q \in Pages, Untouched(q, f)
  PROVE  CleanPage(q)' /\ StablePage(q)
<1>1. CASE pages'[q] = pages[q] /\ pages[q].frame_id \in Frames \ {f}
  <2>1. PICK g \in Frames \ {f} : g = pages[q].frame_id
    BY <1>1
  <2>2. /\ image'[g] = image[g] /\ disk'[q] = disk[q]
        /\ g \in unmarked' <=> g \in unmarked
        /\ meta'[g].dirty = meta[g].dirty
    BY <2>1 DEF OnlyFrame
  <2>3. CleanPage(q)'
    BY <1>1, <2>1, <2>2, ContentParts DEF CleanPage
  <2>4. StablePage(q)
    BY <1>1, <2>1, <2>2 DEF StablePage, PageContent
  <2> QED BY <2>3, <2>4
<1>2. CASE /\ pages[q].state \in {"kUnused", "kNonResident", "kLoading"}
           /\ pages'[q].state \in {"kUnused", "kNonResident", "kLoading"}
           /\ disk'[q] = disk[q]
  BY <1>2 DEF CleanPage, StablePage, PageContent
<1> QED BY <1>1, <1>2 DEF Untouched

\* A call that does not use frame f, and does not move, keeps its promise.
LEMMA UntouchedTransfer ==
  ASSUME Inv, ContentsInv, NEW f, OnlyFrame(f), NEW u \in Threads,
         pc'[u] = pc[u], loc'[u] = loc[u],
         Moving(u) \/ Flushing(u) => loc[u].frame_id # f
  PROVE  TrueTransfer(u)'
<1>1. TrueTransfer(u)
  BY ContentParts
<1>2. CASE Evicting(u)
  <2>1. PICK g \in Frames \ {f}, q \in Pages :
          g = loc[u].frame_id /\ q = loc[u].old_page_id /\ pages[q].frame_id = g
    BY <1>2, BusyFrames DEF PageIs, Moving
  <2>2. /\ image'[g] = image[g] /\ disk'[q] = disk[q]
        /\ g \in unmarked' <=> g \in unmarked
    BY <2>1 DEF OnlyFrame
  <2> QED BY <1>1, <1>2, <2>1, <2>2 DEF TrueTransfer, Evicting
<1>3. CASE Loading(u) \/ Flushing(u)
  <2>1. PICK g \in Frames \ {f}, q \in Pages :
          g = loc[u].frame_id /\ q = loc[u].page_id /\ pages[q].frame_id = g
    BY <1>3, BusyFrames DEF PageIs, Holds, Moving
  <2>2. /\ image'[g] = image[g] /\ disk'[q] = disk[q]
        /\ g \in unmarked' <=> g \in unmarked
        /\ meta'[g].dirty_epoch = meta[g].dirty_epoch
    BY <2>1 DEF OnlyFrame
  <2> QED BY <1>1, <1>3, <2>1, <2>2 DEF TrueTransfer, Loading, Flushing
<1>4. CASE ~Evicting(u) /\ ~Loading(u) /\ ~Flushing(u)
  BY <1>4 DEF TrueTransfer, Evicting, Loading, Flushing
<1> QED BY <1>2, <1>3, <1>4

\* A call that is not in the middle of a transfer promises nothing.
LEMMA NoTransfer ==
  ASSUME NEW t, pc'[t] \in {"idle", "lock", "read", "readFailed", "flushWrite",
                            "flushFailed"}
  PROVE  TrueTransfer(t)'
  BY DEF TrueTransfer

\* A step of thread t that concerns frame f: it remains to look at the pages
\* that it moves and at the calls that use f.
LEMMA ContentStep ==
  ASSUME Inv, ContentsInv, NEW f, OnlyFrame(f),
         \A q \in Pages : \/ Untouched(q, f)
                          \/ CleanPage(q)' /\ StablePage(q),
         \A u \in Threads :
           \/ TrueTransfer(u)'
           \/ /\ pc'[u] = pc[u] /\ loc'[u] = loc[u]
              /\ Moving(u) \/ Flushing(u) => loc[u].frame_id # f
  PROVE  KeepsContents
<1>1. \A q \in Pages : CleanPage(q)' /\ StablePage(q)
  BY UntouchedPage
<1>2. \A u \in Threads : TrueTransfer(u)'
  BY UntouchedTransfer
<1> QED BY <1>1, <1>2, ContentParts DEF KeepsContents

\* Steps that change no contents and move no page that is in memory.
LEMMA QuietContents ==
  ASSUME Inv, ContentsInv, NEW t \in Threads, OnlyThread(t),
         UNCHANGED <<image, disk, unmarked>>,
         \A g \in Frames : /\ meta'[g].dirty = meta[g].dirty
                           /\ meta'[g].dirty_epoch = meta[g].dirty_epoch,
         \A q \in Pages :
           \/ pages'[q] = pages[q]
           \/ /\ pages[q].state \in {"kUnused", "kNonResident"}
              /\ pages'[q].state \in {"kUnused", "kNonResident"},
         \/ pc'[t] \in {"idle", "lock", "flushWrite"}
         \/ pc'[t] = pc[t] /\ loc'[t] = loc[t]
  PROVE  KeepsContents
<1>1. OnlyFrame(NoFrame)
  BY DEF OnlyFrame
<1>2. \A q \in Pages : Untouched(q, NoFrame)
  BY PageFacts, ConstantFacts DEF Untouched, PageEntries
<1>3. \A u \in Threads : Moving(u) \/ Flushing(u) => loc[u].frame_id # NoFrame
  BY BusyFrames, ConstantFacts DEF Moving
<1>4. ASSUME NEW u \in Threads
      PROVE  \/ TrueTransfer(u)'
             \/ /\ pc'[u] = pc[u] /\ loc'[u] = loc[u]
                /\ Moving(u) \/ Flushing(u) => loc[u].frame_id # NoFrame
  <2>1. CASE pc'[u] = pc[u] /\ loc'[u] = loc[u]
    BY <1>3, <2>1
  <2>2. CASE u = t /\ pc'[t] \in {"idle", "lock", "flushWrite"}
    BY <2>2, NoTransfer
  <2> QED BY <2>1, <2>2 DEF OnlyThread
<1> QED BY <1>1, <1>2, <1>4, ContentStep
\* Calls, refusals, waits, wake-ups and pins.
LEMMA QuietStepContents ==
  ASSUME Inv, ContentsInv, NEW t \in Threads,
         \/ Call(t) \/ NewPageNoId(t) \/ FetchNoFrame(t) \/ FlushUnused(t)
         \/ DeleteRefused(t) \/ FlushAllList(t) \/ FlushNothing(t)
         \/ FetchWait(t) \/ FlushWait(t) \/ DeleteWait(t) \/ SpuriousWake(t)
  PROVE  KeepsContents
<1>1. UNCHANGED <<pages, meta, image, disk, unmarked>>
  BY DEF Call, BeginCall, NewPageNoId, FetchNoFrame, FlushUnused, DeleteRefused,
         FlushAllList, FlushNothing, FetchWait, FlushWait, DeleteWait, SpuriousWake
<1>2. /\ OnlyThread(t)
      /\ \/ pc'[t] \in {"idle", "lock", "flushWrite"}
         \/ pc'[t] = pc[t] /\ loc'[t] = loc[t]
  <2>1. CASE Call(t)
    BY <2>1 DEF Inv, TypeOK, Call, BeginCall, Goto, OnlyThread
  <2>2. CASE NewPageNoId(t) \/ FetchNoFrame(t) \/ FlushUnused(t) \/ DeleteRefused(t)
    BY <2>2, ThreadReturns DEF Inv, NewPageNoId, FetchNoFrame, FlushUnused,
                               DeleteRefused
  <2>3. CASE FlushAllList(t) \/ FlushNothing(t)
    <3>1. PICK todo : FlushNext(t, todo)
      BY <2>3 DEF FlushAllList, FlushNothing
    <3> QED BY <3>1 DEF FlushNext, Return, Goto, Inv, TypeOK, OnlyThread
  <2>4. CASE FetchWait(t) \/ FlushWait(t) \/ DeleteWait(t) \/ SpuriousWake(t)
    BY <2>4 DEF FetchWait, FlushWait, DeleteWait, SpuriousWake, Wait, OnlyThread
  <2> QED BY <2>1, <2>2, <2>3, <2>4
<1> QED BY <1>1, <1>2, QuietContents

\* NewPage takes an id and sleeps, or gives it back.
LEMMA NewPageIdContents ==
  ASSUME Inv, ContentsInv, NEW t \in Threads, NewPageWait(t) \/ NewPageNoFrame(t)
  PROVE  KeepsContents
<1>1. UNCHANGED <<meta, image, disk, unmarked>> /\ loc[t].op = "NewPage"
  BY DEF NewPageWait, NewPageNoFrame, Locked
<1>2. /\ OnlyThread(t)
      /\ pc'[t] \in {"idle", "lock", "flushWrite"}
  <2>1. CASE NewPageWait(t)
    BY <2>1 DEF NewPageWait, Locked, OnlyThread, Inv, TypeOK
  <2>2. CASE NewPageNoFrame(t)
    BY <2>2, ThreadReturns DEF NewPageNoFrame, Inv
  <2> QED BY <2>1, <2>2
<1>3. PICK p \in NewPageIds(t) :
        \/ pages' = NewPageTable(t, p)
        \/ pages' = Rollback(NewPageTable(t, p), p)
  BY DEF NewPageWait, NewPageNoFrame
<1>4. PICK pt : pt = NewPageTable(t, p)
  OBVIOUS
<1>5. /\ p \in Pages
      /\ \/ pt = pages
         \/ pages[p].state = "kUnused" /\ pt = MakeAllocated(pages, p)
  BY <1>1, <1>4, NewPageIdFacts
<1>6. \A q \in Pages :
        \/ pt[q] = pages[q]
        \/ /\ pages[q].state \in {"kUnused", "kNonResident"}
           /\ pt[q].state \in {"kUnused", "kNonResident"}
  BY <1>5 DEF MakeAllocated, PageEntry, Inv, TypeOK
<1>7. \A q \in Pages :
        \/ pages'[q] = pt[q]
        \/ /\ pt[q].state \in {"kUnused", "kNonResident"}
           /\ pages'[q].state \in {"kUnused", "kNonResident"}
  <2>1. pt \in [Pages -> PageEntries]
    BY <1>5, EntryFields DEF MakeAllocated, Inv, TypeOK, PageState
  <2> QED BY <1>3, <1>4, <1>5, <2>1
          DEF Rollback, CanFree, MakeUnused, UnusedEntry, PageEntry
<1> QED BY <1>1, <1>2, <1>6, <1>7, QuietContents

\* FetchPage finds its page.
LEMMA FetchLookupContents ==
  ASSUME Inv, ContentsInv, NEW t \in Threads, FetchLookup(t)
  PROVE  KeepsContents
<1> DEFINE p == loc[t].page_id
<1>1. /\ UNCHANGED <<pages, image, disk, unmarked>>
      /\ FetchTurn(t, p, pages, meta, sleeping)
  BY DEF FetchLookup, FetchTurn
<1>2. OnlyThread(t) /\ pc'[t] \in {"idle", "lock", "flushWrite"}
  BY <1>1 DEF FetchTurn, Return, Goto, OnlyThread, Inv, TypeOK
<1>3. \A g \in Frames : /\ meta'[g].dirty = meta[g].dirty
                        /\ meta'[g].dirty_epoch = meta[g].dirty_epoch
  <2>1. CASE meta' = meta
    BY <2>1
  <2>2. CASE Pin(t, p, pages[p].frame_id, meta)
    BY <2>2 DEF Pin, Pinned, Inv, TypeOK, FrameMetas
  <2> QED BY <1>1, <2>1, <2>2 DEF FetchTurn
<1> QED BY <1>1, <1>2, <1>3, QuietContents

\* A flush pins its frame, or unpins it after a failure; a guard is dropped.
LEMMA PinContents ==
  ASSUME Inv, ContentsInv, NEW t \in Threads,
         \/ FlushStart(t) \/ FlushFailed(t)
         \/ \E p \in Pages : DropPageGuard(t, p)
  PROVE  KeepsContents
<1>1. UNCHANGED <<pages, image, disk, unmarked>>
  BY DEF FlushStart, FlushFailed, DropPageGuard
<1>2. /\ OnlyThread(t)
      /\ \/ pc'[t] \in {"idle", "lock", "flushWrite"}
         \/ pc'[t] = pc[t] /\ loc'[t] = loc[t]
  <2>1. CASE FlushStart(t)
    BY <2>1 DEF FlushStart, Goto, OnlyThread, Inv, TypeOK
  <2>2. CASE FlushFailed(t)
    BY <2>2, ThreadReturns DEF FlushFailed, Inv
  <2>3. CASE \E p \in Pages : DropPageGuard(t, p)
    BY <2>3 DEF DropPageGuard, OnlyThread
  <2> QED BY <2>1, <2>2, <2>3
<1>3. PICK f : meta' = [meta EXCEPT ![f] = Pinned(@)]
               \/ meta' = [meta EXCEPT ![f] = Unpinned(@)]
  BY DEF FlushStart, FlushFailed, DropPageGuard
<1>4. \A g \in Frames : /\ meta'[g].dirty = meta[g].dirty
                        /\ meta'[g].dirty_epoch = meta[g].dirty_epoch
  <2>1. meta \in [Frames -> FrameMetas]
    BY DEF Inv, TypeOK
  <2>2. \A m \in FrameMetas :
          /\ Pinned(m).dirty = m.dirty /\ Unpinned(m).dirty = m.dirty
          /\ Pinned(m).dirty_epoch = m.dirty_epoch
          /\ Unpinned(m).dirty_epoch = m.dirty_epoch
    BY DEF Pinned, Unpinned, FrameMetas
  <2> QED BY <1>3, <2>1, <2>2
<1> QED BY <1>1, <1>2, <1>4, QuietContents

\* A page that is not in memory is deleted.
LEMMA DeleteNonResidentContents ==
  ASSUME Inv, ContentsInv, NEW t \in Threads, DeleteNonResident(t)
  PROVE  KeepsContents
<1>1. /\ UNCHANGED <<meta, image, disk, unmarked>>
      /\ OnlyThread(t) /\ pc'[t] = "idle"
  BY ThreadReturns DEF DeleteNonResident, Inv
<1>2. \A q \in Pages :
        \/ pages'[q] = pages[q]
        \/ /\ pages[q].state \in {"kUnused", "kNonResident"}
           /\ pages'[q].state \in {"kUnused", "kNonResident"}
  BY DEF DeleteNonResident, MakeUnused, UnusedEntry, PageEntry, Inv, TypeOK
<1> QED BY <1>1, <1>2, QuietContents

-----------------------------------------------------------------------------
(* Eviction and the contents of the victim.                                *)

\* A clean victim is on disk; a dirty one is going to be written.
LEMMA StartEvictionContents ==
  ASSUME Inv, ContentsInv, NEW t \in Threads, NEW p, NEW f \in evictable,
         NEW pt \in [Pages -> PageEntries], StartEviction(t, p, f, pt),
         \A q \in Pages : \/ pt[q] = pages[q]
                          \/ /\ pages[q].state \in {"kUnused", "kNonResident"}
                             /\ pt[q].state \in {"kUnused", "kNonResident"}
  PROVE  KeepsContents
<1>1. PICK old \in Pages :
        /\ f \in Frames /\ old = meta[f].page_id /\ Holds(f, old)
        /\ meta[f].dirty \in BOOLEAN
        /\ \A u \in Threads : Moving(u) \/ Flushing(u) => loc[u].frame_id # f
  BY EvictableFrame DEF FrameMetas
<1>2. OnlyFrame(f)
  BY DEF OnlyFrame, StartEviction, Inv, TypeOK
<1>3. /\ pt[old] = pages[old] /\ pages[old].state = "kResident"
      /\ pages[old].frame_id = f
  BY <1>1 DEF Holds, PageIs
<1>4. /\ pages'[old].state = "kEvicting" /\ pages'[old].frame_id = f
      /\ \A q \in Pages \ {old} : pages'[q] = pt[q]
  BY <1>1, <1>3 DEF StartEviction, SetEvicting, PageEntry
<1>5. UNCHANGED <<image, disk, unmarked>>
  BY DEF StartEviction
<1>6. CleanPage(old)' /\ StablePage(old)
  BY <1>3, <1>4, <1>5 DEF CleanPage, StablePage, PageContent
<1>7. \A q \in Pages \ {old} : Untouched(q, f)
  <2> SUFFICES ASSUME NEW q \in Pages \ {old}
               PROVE  Untouched(q, f)
    OBVIOUS
  <2>1. pages[q].frame_id # f
    BY <1>1, <1>3, PageFacts
  <2> QED BY <1>4, <1>5, <2>1, PageFacts DEF Untouched, PageEntries
<1>8. /\ OnlyThread(t) /\ pc'[t] = WriteBack(meta[f].dirty)
      /\ loc'[t].frame_id = f /\ loc'[t].old_page_id = old
      /\ loc'[t].dirty = meta[f].dirty
  BY <1>1 DEF StartEviction, Goto, OnlyThread, Inv, TypeOK, Locals
<1>9. TrueTransfer(t)'
  <2>1. CASE meta[f].dirty
    BY <1>8, <2>1 DEF TrueTransfer, WriteBack
  <2>2. CASE ~meta[f].dirty
    <3>1. f \notin unmarked => image[f] = disk[old]
      BY <1>3, <2>2, ContentParts DEF CleanPage
    <3> QED BY <1>5, <1>8, <2>2, <3>1 DEF TrueTransfer, WriteBack
  <2> QED BY <2>1, <2>2
<1> QED BY <1>1, <1>2, <1>6, <1>7, <1>8, <1>9, ContentStep DEF OnlyThread

\* NewPage or FetchPage starts an eviction.
LEMMA EvictContents ==
  ASSUME Inv, ContentsInv, NEW t \in Threads, NewPageEvict(t) \/ FetchEvict(t)
  PROVE  KeepsContents
<1>1. CASE NewPageEvict(t)
  <2>1. PICK p \in NewPageIds(t), f \in evictable :
          StartEviction(t, p, f, NewPageTable(t, p))
    BY <1>1 DEF NewPageEvict
  <2>2. PICK pt : pt = NewPageTable(t, p)
    OBVIOUS
  <2>3. /\ p \in Pages
        /\ \/ pt = pages
           \/ pages[p].state = "kUnused" /\ pt = MakeAllocated(pages, p)
    BY <1>1, <2>2, NewPageIdFacts DEF NewPageEvict, Locked
  <2>4. /\ pt \in [Pages -> PageEntries]
        /\ \A q \in Pages : \/ pt[q] = pages[q]
                            \/ /\ pages[q].state \in {"kUnused", "kNonResident"}
                               /\ pt[q].state \in {"kUnused", "kNonResident"}
    BY <2>3, EntryFields DEF MakeAllocated, Inv, TypeOK, PageState
  <2> QED BY <2>1, <2>2, <2>4, StartEvictionContents
<1>2. CASE FetchEvict(t)
  <2>1. PICK f \in evictable : StartEviction(t, loc[t].page_id, f, pages)
    BY <1>2 DEF FetchEvict
  <2> QED BY <2>1, StartEvictionContents DEF Inv, TypeOK
<1> QED BY <1>1, <1>2

\* The victim is written back.
LEMMA EvictWriteContents ==
  ASSUME Inv, ContentsInv, NEW t \in Threads, EvictWrite(t)
  PROVE  KeepsContents
<1>1. Evicting(t) /\ Moving(t) /\ pc[t] = "evictWrite"
  BY DEF EvictWrite, Evicting, Moving
<1>2. PICK old \in Pages, f \in Frames :
        /\ old = loc[t].old_page_id /\ f = loc[t].frame_id
        /\ PageIs(old, "kEvicting", f) /\ meta[f].page_id = old
  BY <1>1, BusyFrames
<1>3. /\ UNCHANGED <<pages, meta, image, unmarked, loc>>
      /\ \A u \in Threads \ {t} : pc'[u] = pc[u]
      /\ \A q \in Pages \ {old} : disk'[q] = disk[q]
  BY <1>2 DEF EvictWrite, Goto, Inv, TypeOK
<1>4. \A q \in Pages \ {old} : pages[q].frame_id # f
  BY <1>2, PageFacts
<1>5. OnlyFrame(f)
  BY <1>2, <1>3, <1>4 DEF OnlyFrame, PageIs
<1>6. \A q \in Pages \ {old} : Untouched(q, f)
  BY <1>3, <1>4, PageFacts DEF Untouched, PageEntries
<1>7. CleanPage(old)' /\ StablePage(old)
  BY <1>2, <1>3 DEF CleanPage, StablePage, PageContent, PageIs
<1>8. TrueTransfer(t)'
  <2>1. loc[t].dirty
    BY <1>1, ContentParts DEF TrueTransfer
  <2>2. CASE disk' = [disk EXCEPT ![old] = image[f]] /\ pc'[t] = "evicted"
    BY <1>2, <1>3, <2>2 DEF TrueTransfer, Inv, TypeOK
  <2>3. CASE pc'[t] = "evictFailed"
    BY <1>3, <2>1, <2>3 DEF TrueTransfer
  <2> QED BY <1>2, <2>2, <2>3 DEF EvictWrite, Goto, Inv, TypeOK
<1>9. \A u \in Threads \ {t} : Moving(u) \/ Flushing(u) => loc[u].frame_id # f
  BY <1>1, <1>2, NobodyElseUses
<1> QED BY <1>3, <1>5, <1>6, <1>7, <1>8, <1>9, ContentStep

\* The write-back failed: the victim is resident again, and dirty.
LEMMA EvictFailedContents ==
  ASSUME Inv, ContentsInv, NEW t \in Threads, EvictFailed(t)
  PROVE  KeepsContents
<1>1. Evicting(t) /\ Moving(t) /\ pc[t] = "evictFailed"
  BY DEF EvictFailed, Evicting, Moving
<1>2. PICK old \in Pages, f \in Frames, p \in Pages :
        /\ old = loc[t].old_page_id /\ f = loc[t].frame_id /\ p = loc[t].page_id
        /\ PageIs(old, "kEvicting", f) /\ meta[f].page_id = old
  BY <1>1, BusyFrames DEF Inv, CallsAreWellFormed, WellFormed
<1>3. /\ UNCHANGED <<image, disk, unmarked>>
      /\ OnlyThread(t) /\ pc'[t] = "idle"
      /\ meta'[f].dirty /\ \A g \in Frames \ {f} : meta'[g] = meta[g]
  <2>1. loc[t].dirty
    BY <1>1, ContentParts DEF TrueTransfer
  <2> QED BY <1>2, <2>1, ThreadReturns DEF EvictFailed, FrameMeta, Inv, TypeOK
<1>4. PICK pt : pt = Restored(pages, t)
  OBVIOUS
<1>5. /\ pt \in [Pages -> PageEntries]
      /\ pt[old].state = "kResident" /\ pt[old].frame_id = f
      /\ \A q \in Pages \ {old} : pt[q] = pages[q]
  <2>1. pt = [pages EXCEPT ![old] = PageEntry("kResident", f)]
    BY <1>2, <1>4 DEF Restored, SetResident, SetNonResident, PageIs, Inv, TypeOK
  <2>2. PageEntry("kResident", f) \in PageEntries
    BY EntryFields DEF PageState
  <2>3. pages \in [Pages -> PageEntries]
    BY DEF Inv, TypeOK
  <2> QED BY <2>1, <2>2, <2>3 DEF PageEntry
<1>6. pages' = pt \/ pages' = Rollback(pt, p)
  BY <1>2, <1>4 DEF EvictFailed
<1>7. /\ pages'[old] = pt[old]
      /\ \A q \in Pages \ {old} :
           \/ pages'[q] = pages[q]
           \/ /\ pages[q].state = "kNonResident" /\ pages'[q].state = "kUnused"
  BY <1>5, <1>6 DEF Rollback, CanFree, MakeUnused, UnusedEntry, PageEntry
<1>8. OnlyFrame(f)
  BY <1>3 DEF OnlyFrame
<1>9. \A q \in Pages \ {old} : Untouched(q, f)
  <2>1. \A q \in Pages \ {old} : pages[q].frame_id # f
    BY <1>2, PageFacts
  <2> QED BY <1>3, <1>7, <2>1, PageFacts DEF Untouched, PageEntries
<1>10. CleanPage(old)' /\ StablePage(old)
  BY <1>2, <1>3, <1>5, <1>7 DEF CleanPage, StablePage, PageContent, PageIs
<1>11. TrueTransfer(t)'
  BY <1>3, NoTransfer
<1>12. \A u \in Threads \ {t} : Moving(u) \/ Flushing(u) => loc[u].frame_id # f
  BY <1>1, <1>2, NobodyElseUses
<1> QED BY <1>3, <1>8, <1>9, <1>10, <1>11, <1>12, ContentStep DEF OnlyThread
-----------------------------------------------------------------------------
(* A frame of the call's own gets a page.                                  *)

\* The page that was in t's own frame is on disk, the others stay.
LEMMA OwnPages ==
  ASSUME Inv, ContentsInv, NEW t \in Threads, NEW f, NEW pt, OwnFrame(t, f, pt),
         pc[t] \in {"lock", "evicted"}, NEW q \in Pages, disk' = disk
  PROVE  \/ pt[q] = pages[q] /\ pages[q].frame_id # f
         \/ /\ pages[q].state \in {"kUnused", "kNonResident"}
            /\ pt[q].state \in {"kUnused", "kNonResident"}
         \/ /\ pages[q].state = "kEvicting" /\ pages[q].frame_id = f
            /\ pt[q].state \in {"kUnused", "kNonResident"}
            /\ f \in unmarked \/ image[f] = disk[q]
<1>1. CASE pages[q].frame_id # f
  BY <1>1, OwnTable, PageFacts DEF OwnFrame
<1>2. CASE pages[q].frame_id = f
  <2>1. /\ f \in Frames /\ f # NoFrame /\ meta[f].state = pages[q].state
        /\ meta[f].page_id = q /\ Holders(f) = {} /\ f \notin present
        /\ pages[q].state \in {"kLoading", "kResident", "kEvicting"}
    BY <1>2, PageFacts, ConstantFacts DEF OwnFrame
  <2>2. pt[q].state \in {"kUnused", "kNonResident"}
    BY <1>2, <2>1 DEF OwnFrame
  <2>3. pages[q].state # "kResident"
    BY <1>2, <2>1 DEF Inv, ReplacerIsExact, Holds, PageIs
  <2>4. PICK u \in Threads : Moving(u) /\ loc[u].frame_id = f
    BY <1>2, <2>1, <2>3 DEF Inv, TransferIsExclusive, Owned, Transient
  <2>5. u = t
    BY <2>4 DEF OwnFrame
  <2>6. pc[t] = "evicted" /\ Evicting(t)
    BY <2>4, <2>5 DEF Moving, Evicting, Loading
  <2>7. loc[t].old_page_id = q /\ meta[f].state = "kEvicting"
    BY <2>1, <2>4, <2>5, <2>6, BusyFrames
  <2>8. f \in unmarked \/ image[f] = disk[q]
    BY <2>4, <2>5, <2>6, <2>7, ContentParts DEF TrueTransfer
  <2> QED BY <1>2, <2>1, <2>2, <2>7, <2>8
<1> QED BY <1>1, <1>2

\* Such a page keeps its contents when it leaves the frame, whatever the
\* frame is used for.
LEMMA LeavingPage ==
  ASSUME NEW q \in Pages, NEW f,
         pages[q].state = "kEvicting", pages[q].frame_id = f,
         pages'[q].state \in {"kUnused", "kNonResident", "kLoading"},
         f \in unmarked \/ image[f] = disk[q], disk' = disk
  PROVE  CleanPage(q)' /\ StablePage(q)
  BY DEF CleanPage, StablePage, PageContent, Unmarked

\* NewPage publishes page p in frame f: a new page is dirty, and its contents
\* are its own affair until NewPage returns.
LEMMA PublishContents ==
  ASSUME Inv, ContentsInv, NEW t \in Threads, NEW p \in Pages, NEW f \in Frames,
         NEW pt, OwnFrame(t, f, pt), PublishNewPage(t, p, f, pt),
         pc[t] \in {"lock", "evicted"},
         pages[p].state = "kUnused" \/ BeingCreated(p)
  PROVE  KeepsContents
<1>1. /\ OnlyThread(t) /\ pc'[t] = "idle" /\ disk' = disk
  BY ThreadReturns DEF PublishNewPage, Inv
<1>2. /\ meta'[f].dirty /\ OnlyFrame(f)
  BY <1>1 DEF PublishNewPage, FrameMeta, OnlyFrame, Inv, TypeOK
<1>3. CleanPage(p)' /\ StablePage(p)
  <2>1. StablePage(p)
    BY DEF StablePage
  <2>2. CASE CanSetResident(pt, p, f)
    <3>1. pages'[p].frame_id = f
      BY <2>2 DEF PublishNewPage, SetResident, PageEntry, OwnFrame
    <3> QED BY <1>2, <2>1, <3>1 DEF CleanPage
  <2>3. CASE ~CanSetResident(pt, p, f)
    <3>1. pages' = pt
      BY <2>3 DEF PublishNewPage, Rollback, CanFree, CanSetResident
    <3>2. CASE pt[p] = pages[p] /\ pages[p].frame_id # f
      <4>1. pages[p].frame_id \in Frames \ {f} \/ pages[p].state \in {"kUnused", "kNonResident"}
        BY <3>2, PageFacts DEF PageEntries
      <4>2. Untouched(p, f)
        BY <1>1, <3>1, <3>2, <4>1 DEF Untouched
      <4> QED BY <1>2, <4>2, UntouchedPage
    <3>3. CASE pt[p].state \in {"kUnused", "kNonResident"}
      BY <2>1, <3>1, <3>3 DEF CleanPage
    <3> QED BY <1>1, <3>2, <3>3, OwnPages
  <2> QED BY <2>2, <2>3
<1>4. ASSUME NEW q \in Pages, q # p
      PROVE  Untouched(q, f) \/ (CleanPage(q)' /\ StablePage(q))
  <2>1. pages'[q] = pt[q]
    BY <1>4 DEF PublishNewPage, SetResident, Rollback, MakeUnused, OwnFrame
  <2>2. CASE pt[q] = pages[q] /\ pages[q].frame_id # f
    BY <1>1, <2>1, <2>2, PageFacts DEF Untouched, PageEntries
  <2>3. CASE /\ pages[q].state \in {"kUnused", "kNonResident"}
             /\ pt[q].state \in {"kUnused", "kNonResident"}
    BY <1>1, <2>1, <2>3 DEF Untouched
  <2>4. CASE /\ pages[q].state = "kEvicting" /\ pages[q].frame_id = f
             /\ pt[q].state \in {"kUnused", "kNonResident"}
             /\ f \in unmarked \/ image[f] = disk[q]
    BY <1>1, <2>1, <2>4, LeavingPage
  <2> QED BY <1>1, <2>2, <2>3, <2>4, OwnPages
<1>5. TrueTransfer(t)'
  BY <1>1, NoTransfer
<1>6. \A u \in Threads \ {t} : Moving(u) \/ Flushing(u) => loc[u].frame_id # f
  BY DEF OwnFrame
<1> QED BY <1>1, <1>2, <1>3, <1>4, <1>5, <1>6, ContentStep DEF OnlyThread

\* NewPage ends.
LEMMA NewPageContents ==
  ASSUME Inv, ContentsInv, NEW t \in Threads,
         NewPageFreeFrame(t) \/ NewPageEvicted(t)
  PROVE  KeepsContents
<1>1. CASE NewPageFreeFrame(t)
  <2>1. PICK p \in NewPageIds(t), f \in Frames \ allocated :
          PublishNewPage(t, p, f, NewPageTable(t, p))
    BY <1>1 DEF NewPageFreeFrame
  <2>2. PICK pt : pt = NewPageTable(t, p)
    OBVIOUS
  <2>3. /\ p \in Pages /\ loc[t].op = "NewPage" /\ pc[t] = "lock"
        /\ \/ pt = pages
           \/ pages[p].state = "kUnused" /\ pt = MakeAllocated(pages, p)
    BY <1>1, <2>2, NewPageIdFacts DEF NewPageFreeFrame, Locked
  <2>4. OwnFrame(t, f, pt)
    BY <2>3, FreeFrameIsOwn
  <2>5. pages[p].state = "kUnused" \/ BeingCreated(p)
    BY <2>3 DEF NewPageIds, BeingCreated
  <2> QED BY <2>1, <2>2, <2>3, <2>4, <2>5, PublishContents
<1>2. CASE NewPageEvicted(t)
  <2>1. PICK p, f, pt : /\ p = loc[t].page_id /\ f = loc[t].frame_id
                        /\ pt = SetNonResident(pages, loc[t].old_page_id)
    OBVIOUS
  <2>2. /\ pc[t] = "evicted" /\ loc[t].op = "NewPage"
        /\ PublishNewPage(t, p, f, pt)
    BY <1>2, <2>1 DEF NewPageEvicted
  <2>3. OwnFrame(t, f, pt) /\ f \in Frames
    BY <2>1, <2>2, EvictedFrameIsOwn DEF OwnFrame
  <2>4. p \in Pages /\ BeingCreated(p)
    BY <2>1, <2>2 DEF Inv, CallsAreWellFormed, WellFormed, Evicting, BeingCreated
  <2> QED BY <2>2, <2>3, <2>4, PublishContents
<1> QED BY <1>1, <1>2

\* FetchPage gets a frame for its page, or has no need of it any more.
LEMMA FrameFoundContents ==
  ASSUME Inv, ContentsInv, NEW t \in Threads, NEW f \in Frames, NEW pt,
         OwnFrame(t, f, pt), pc[t] \in {"lock", "evicted"},
         OnlyThread(t), pc'[t] \in {"idle", "lock", "read"},
         UNCHANGED <<image, disk, unmarked>>,
         \A g \in Frames \ {f} : /\ meta'[g].dirty = meta[g].dirty
                                 /\ meta'[g].dirty_epoch = meta[g].dirty_epoch,
         \A q \in Pages : \/ pages'[q] = pt[q]
                          \/ /\ pt[q].state = "kNonResident"
                             /\ pages'[q].state = "kLoading"
  PROVE  KeepsContents
<1>1. OnlyFrame(f)
  BY DEF OnlyFrame
<1>2. ASSUME NEW q \in Pages
      PROVE  Untouched(q, f) \/ (CleanPage(q)' /\ StablePage(q))
  <2>1. CASE pt[q] = pages[q] /\ pages[q].frame_id # f
    BY <2>1, PageFacts DEF Untouched, PageEntries
  <2>2. CASE /\ pages[q].state \in {"kUnused", "kNonResident"}
             /\ pt[q].state \in {"kUnused", "kNonResident"}
    BY <2>2 DEF Untouched
  <2>3. CASE /\ pages[q].state = "kEvicting" /\ pages[q].frame_id = f
             /\ pt[q].state \in {"kUnused", "kNonResident"}
             /\ f \in unmarked \/ image[f] = disk[q]
    BY <2>3, LeavingPage
  <2> QED BY <2>1, <2>2, <2>3, OwnPages
<1>3. TrueTransfer(t)'
  BY NoTransfer
<1>4. \A u \in Threads \ {t} : Moving(u) \/ Flushing(u) => loc[u].frame_id # f
  BY DEF OwnFrame
<1> QED BY <1>1, <1>2, <1>3, <1>4, ContentStep DEF OnlyThread

\* What StartLoad does.
LEMMA StartLoadMoves ==
  ASSUME Inv, NEW t \in Threads, NEW p \in Pages, NEW f \in Frames,
         NEW pt \in [Pages -> PageEntries], StartLoad(t, p, f, pt)
  PROVE  /\ OnlyThread(t) /\ pc'[t] = "read"
         /\ \A g \in Frames \ {f} : meta'[g] = meta[g]
         /\ pages'[p].state = "kLoading"
         /\ \A q \in Pages \ {p} : pages'[q] = pt[q]
  BY DEF StartLoad, Goto, OnlyThread, SetLoading, PageEntry, Inv, TypeOK

\* FetchPage takes a free frame.
LEMMA FetchFreeFrameContents ==
  ASSUME Inv, ContentsInv, NEW t \in Threads, FetchFreeFrame(t)
  PROVE  KeepsContents
<1> DEFINE p == loc[t].page_id
<1>1. PICK f \in Frames \ allocated : StartLoad(t, p, f, pages)
  BY DEF FetchFreeFrame
<1>2. /\ pc[t] = "lock" /\ p \in Pages /\ pages[p].state = "kNonResident"
      /\ UNCHANGED <<image, disk, unmarked>>
  BY <1>1 DEF FetchFreeFrame, Locked, Inv, CallsAreWellFormed, WellFormed
<1>3. OwnFrame(t, f, pages)
  BY <1>2, FreeFrameIsOwn
<1>4. pages \in [Pages -> PageEntries]
  BY DEF Inv, TypeOK
<1> QED BY <1>1, <1>2, <1>3, <1>4, StartLoadMoves, FrameFoundContents

\* FetchPage has evicted: it loads its page, or gives the frame back.
LEMMA FetchEvictedContents ==
  ASSUME Inv, ContentsInv, NEW t \in Threads, FetchEvicted(t)
  PROVE  KeepsContents
<1>1. PICK p, f, pt : /\ p = loc[t].page_id /\ f = loc[t].frame_id
                      /\ pt = SetNonResident(pages, loc[t].old_page_id)
  OBVIOUS
<1>2. /\ pc[t] = "evicted" /\ p \in Pages
      /\ UNCHANGED <<image, disk, unmarked>>
  BY <1>1 DEF FetchEvicted, Inv, CallsAreWellFormed, WellFormed
<1>3. OwnFrame(t, f, pt) /\ f \in Frames /\ pt \in [Pages -> PageEntries]
  BY <1>1, <1>2, EvictedFrameIsOwn DEF OwnFrame
<1>4. CASE StillWanted(pt, p) /\ StartLoad(t, p, f, pt)
  BY <1>2, <1>3, <1>4, StartLoadMoves, FrameFoundContents DEF StillWanted
<1>5. CASE FetchTurn(t, p, pt, [meta EXCEPT ![f] = FreeMeta], {})
  <2>1. pages' = pt
    BY <1>5 DEF FetchTurn
  <2>2. OnlyThread(t) /\ pc'[t] \in {"idle", "lock"}
    BY <1>5 DEF FetchTurn, Return, Goto, OnlyThread, Inv, TypeOK
  <2>3. \A g \in Frames \ {f} : /\ meta'[g].dirty = meta[g].dirty
                                /\ meta'[g].dirty_epoch = meta[g].dirty_epoch
    <3>1. CASE meta' = [meta EXCEPT ![f] = FreeMeta]
      BY <3>1 DEF Inv, TypeOK
    <3>2. CASE Pin(t, p, pt[p].frame_id, [meta EXCEPT ![f] = FreeMeta])
      BY <3>2 DEF Pin, Pinned, Inv, TypeOK, FrameMetas
    <3> QED BY <1>5, <3>1, <3>2 DEF FetchTurn
  <2> QED BY <1>2, <1>3, <2>1, <2>2, <2>3, FrameFoundContents
<1> QED BY <1>1, <1>4, <1>5 DEF FetchEvicted

-----------------------------------------------------------------------------
(* Loading.                                                                *)

\* The page is read into the frame that is loading it, or reading fails.
LEMMA ReadPageContents ==
  ASSUME Inv, ContentsInv, NEW t \in Threads, ReadPage(t)
  PROVE  KeepsContents
<1>1. Loading(t) /\ Moving(t)
  BY DEF ReadPage, Loading, Moving
<1>2. PICK p \in Pages, f \in Frames :
        /\ p = loc[t].page_id /\ f = loc[t].frame_id
        /\ PageIs(p, "kLoading", f) /\ meta[f].page_id = p
  BY <1>1, BusyFrames
<1>3. /\ UNCHANGED <<pages, meta, disk, loc>>
      /\ \A u \in Threads \ {t} : pc'[u] = pc[u]
      /\ OnlyFrame(f)
  BY <1>2 DEF ReadPage, Goto, OnlyFrame, Inv, TypeOK
<1>4. \A q \in Pages : Untouched(q, f)
  <2>1. \A q \in Pages \ {p} : pages[q].frame_id # f
    BY <1>2, PageFacts
  <2> QED BY <1>2, <1>3, <2>1, PageFacts DEF Untouched, PageEntries, PageIs
<1>5. TrueTransfer(t)'
  BY <1>2, <1>3 DEF ReadPage, Goto, TrueTransfer, Inv, TypeOK
<1>6. \A u \in Threads \ {t} : Moving(u) \/ Flushing(u) => loc[u].frame_id # f
  BY <1>1, <1>2, NobodyElseUses
<1> QED BY <1>3, <1>4, <1>5, <1>6, ContentStep

\* The page that has been read becomes resident, or the frame is given back.
LEMMA LoadEndContents ==
  ASSUME Inv, ContentsInv, NEW t \in Threads, FetchLoaded(t) \/ FetchFailed(t)
  PROVE  KeepsContents
<1>1. Loading(t) /\ Moving(t)
  BY DEF FetchLoaded, FetchFailed, Loading, Moving
<1>2. PICK p \in Pages, f \in Frames :
        /\ p = loc[t].page_id /\ f = loc[t].frame_id
        /\ PageIs(p, "kLoading", f) /\ meta[f].page_id = p
  BY <1>1, BusyFrames
<1>3. /\ UNCHANGED <<image, disk, unmarked>>
      /\ OnlyThread(t) /\ pc'[t] = "idle"
      /\ \A g \in Frames \ {f} : meta'[g] = meta[g]
      /\ \A q \in Pages \ {p} : pages'[q] = pages[q]
  <2>1. CASE FetchLoaded(t)
    BY <1>2, <2>1, ThreadReturns DEF FetchLoaded, SetResident, Inv, TypeOK
  <2>2. CASE FetchFailed(t)
    BY <1>2, <2>2, ThreadReturns DEF FetchFailed, SetNonResident, Inv, TypeOK
  <2> QED BY <2>1, <2>2
<1>4. OnlyFrame(f)
  BY <1>3 DEF OnlyFrame
<1>5. \A q \in Pages \ {p} : Untouched(q, f)
  <2>1. \A q \in Pages \ {p} : pages[q].frame_id # f
    BY <1>2, PageFacts
  <2> QED BY <1>2, <1>3, <2>1, PageFacts DEF Untouched, PageEntries
<1>6. CleanPage(p)' /\ StablePage(p)
  <2>1. CASE FetchLoaded(t)
    <3>1. image[f] = disk[p]
      BY <1>2, <2>1, ContentParts DEF FetchLoaded, TrueTransfer
    <3>2. pages'[p].state = "kResident" /\ pages'[p].frame_id = f
      BY <1>2, <2>1 DEF FetchLoaded, SetResident, PageEntry, Inv, TypeOK
    <3> QED BY <1>2, <1>3, <3>1, <3>2 DEF CleanPage, StablePage, PageContent, PageIs
  <2>2. CASE FetchFailed(t)
    <3>1. pages'[p].state = "kNonResident"
      BY <1>2, <2>2 DEF FetchFailed, SetNonResident, PageEntry, Inv, TypeOK
    <3> QED BY <1>2, <1>3, <3>1 DEF CleanPage, StablePage, PageContent, PageIs
  <2> QED BY <2>1, <2>2
<1>7. TrueTransfer(t)'
  BY <1>3, NoTransfer
<1>8. \A u \in Threads \ {t} : Moving(u) \/ Flushing(u) => loc[u].frame_id # f
  BY <1>1, <1>2, NobodyElseUses
<1> QED BY <1>3, <1>4, <1>5, <1>6, <1>7, <1>8, ContentStep DEF OnlyThread
-----------------------------------------------------------------------------
(* Flushing, deleting, and the clients' own changes.                       *)

\* A flush under way uses the frame in which its page is resident, and no
\* transfer uses that frame.
LEMMA ResidentFrameUsers ==
  ASSUME Inv, NEW f \in Frames, NEW p \in Pages, Holds(f, p), NEW u \in Threads,
         Moving(u) \/ Flushing(u), loc[u].frame_id = f
  PROVE  Flushing(u) /\ loc[u].page_id = p
<1>1. meta[f].page_id = p /\ meta[f].state = "kResident"
  BY PageFacts DEF Holds, PageIs
<1> QED BY <1>1, BusyFrames DEF Moving

\* What the promise of a flush says.
LEMMA FlushPromise ==
  ASSUME NEW u \in Threads, Flushing(u)'
  PROVE  TrueTransfer(u)' <=>
           \/ pc'[u] # "flushed"
           \/ loc'[u].epoch # meta'[loc'[u].frame_id].dirty_epoch
           \/ loc'[u].frame_id \in unmarked'
           \/ image'[loc'[u].frame_id] = disk'[loc'[u].page_id]
  BY DEF TrueTransfer, Flushing

\* A flush writes its page.  The file may have had the same image already:
\* then a failing write leaves it alone, and nobody's promise is broken.
LEMMA FlushWriteContents ==
  ASSUME Inv, ContentsInv, NEW t \in Threads, FlushWrite(t)
  PROVE  KeepsContents
<1>1. Flushing(t) /\ pc[t] = "flushWrite"
  BY DEF FlushWrite, Flushing
<1>2. PICK p \in Pages, f \in Frames :
        /\ p = loc[t].page_id /\ f = loc[t].frame_id
        /\ Holds(f, p) /\ meta[f].page_id = p
  BY <1>1, BusyFrames
<1>3. /\ UNCHANGED <<pages, meta, image, unmarked, loc>>
      /\ \A u \in Threads \ {t} : pc'[u] = pc[u]
      /\ pc'[t] \in {"flushed", "flushFailed"}
      /\ \A q \in Pages \ {p} : disk'[q] = disk[q]
  BY <1>2 DEF FlushWrite, Goto, Inv, TypeOK
<1>4. \A q \in Pages \ {p} : pages[q].frame_id # f
  BY <1>2, PageFacts
<1>5. OnlyFrame(f)
  BY <1>2, <1>3, <1>4 DEF OnlyFrame, Holds, PageIs
<1>6. \A q \in Pages \ {p} : Untouched(q, f)
  BY <1>3, <1>4, PageFacts DEF Untouched, PageEntries
<1>7. f \notin unmarked =>
        /\ image[f] = disk[p] => disk'[p] = disk[p]
        /\ pc'[t] = "flushed" => disk'[p] = image[f]
  <2> SUFFICES ASSUME f \notin unmarked
               PROVE  /\ image[f] = disk[p] => disk'[p] = disk[p]
                      /\ pc'[t] = "flushed" => disk'[p] = image[f]
    OBVIOUS
  <2>1. PICK c \in FlushedImages(p, f) :
          \/ disk' = [disk EXCEPT ![p] = c]
          \/ /\ \E d \in PartialWrite(disk[p], c) : disk' = [disk EXCEPT ![p] = d]
             /\ Goto(t, "flushFailed")
    BY <1>2 DEF FlushWrite
  <2>2. c = image[f]
    BY DEF FlushedImages
  <2>3. CASE disk' = [disk EXCEPT ![p] = c]
    BY <2>2, <2>3 DEF Inv, TypeOK
  <2>4. CASE /\ \E d \in PartialWrite(disk[p], c) : disk' = [disk EXCEPT ![p] = d]
             /\ Goto(t, "flushFailed")
    BY <2>2, <2>4 DEF PartialWrite, Goto, Inv, TypeOK
  <2> QED BY <2>1, <2>3, <2>4
<1>8. CleanPage(p)' /\ StablePage(p)
  <2>1. CleanPage(p)
    BY ContentParts
  <2> QED BY <1>2, <1>3, <1>7, <2>1
          DEF CleanPage, StablePage, PageContent, Holds, PageIs
<1>9. ASSUME NEW u \in Threads, Moving(u) \/ Flushing(u), loc[u].frame_id = f
      PROVE  TrueTransfer(u)'
  <2>1. Flushing(u) /\ loc[u].page_id = p
    BY <1>2, <1>9, ResidentFrameUsers
  <2>2. Flushing(u)'
    BY <1>3, <2>1 DEF Flushing
  <2>3. CASE u = t
    BY <1>2, <1>3, <1>7, <2>2, <2>3, FlushPromise
  <2>4. CASE u # t
    <3>1. TrueTransfer(u)
      BY ContentParts
    <3> QED BY <1>3, <1>7, <1>9, <2>1, <2>2, <2>4, <3>1, FlushPromise
            DEF TrueTransfer
  <2> QED BY <2>3, <2>4
<1>10. \A u \in Threads : u # t => pc'[u] = pc[u] /\ loc'[u] = loc[u]
  BY <1>3
<1> QED BY <1>1, <1>2, <1>5, <1>6, <1>8, <1>9, <1>10, ContentStep

\* A flush ends: the page is clean only if the file has what it contains.
LEMMA FlushDoneContents ==
  ASSUME Inv, ContentsInv, NEW t \in Threads, FlushDone(t)
  PROVE  KeepsContents
<1>1. Flushing(t) /\ pc[t] = "flushed"
  BY DEF FlushDone, Flushing
<1>2. PICK p \in Pages, f \in Frames :
        /\ p = loc[t].page_id /\ f = loc[t].frame_id
        /\ Holds(f, p) /\ meta[f].page_id = p
  BY <1>1, BusyFrames
<1>3. /\ UNCHANGED <<pages, image, disk, unmarked>>
      /\ OnlyThread(t) /\ pc'[t] \in {"idle", "lock"}
  <2>1. FlushNext(t, loc[t].todo)
    BY DEF FlushDone
  <2> QED BY <2>1 DEF FlushDone, FlushNext, Return, Goto, OnlyThread, Inv, TypeOK
<1>4. /\ \A g \in Frames \ {f} : meta'[g] = meta[g]
      /\ meta'[f].dirty_epoch = meta[f].dirty_epoch
      /\ meta'[f].dirty = meta[f].dirty \/ meta[f].dirty_epoch = loc[t].epoch
  <2>1. meta[f] \in FrameMetas /\ meta \in [Frames -> FrameMetas]
    BY DEF Inv, TypeOK
  <2>2. meta' = [meta EXCEPT ![f] = Unpinned(Cleaned(meta[f], p, loc[t].epoch))]
    BY <1>2, <2>1 DEF FlushDone
  <2>3. PICK m : m = Cleaned(meta[f], p, loc[t].epoch)
    OBVIOUS
  <2>4. /\ m \in FrameMetas /\ m.dirty_epoch = meta[f].dirty_epoch
        /\ m.dirty = meta[f].dirty \/ meta[f].dirty_epoch = loc[t].epoch
    <3>1. m \in FrameMetas /\ m.dirty_epoch = meta[f].dirty_epoch
      BY <2>1, <2>3, CleanedFields
    <3>2. m = meta[f] \/ meta[f].dirty_epoch = loc[t].epoch
      BY <2>3 DEF Cleaned
    <3> QED BY <3>1, <3>2
  <2>5. Unpinned(m).dirty_epoch = m.dirty_epoch /\ Unpinned(m).dirty = m.dirty
    BY <2>4 DEF Unpinned, FrameMetas
  <2> QED BY <2>1, <2>2, <2>3, <2>4, <2>5
<1>5. OnlyFrame(f)
  BY <1>3, <1>4 DEF OnlyFrame
<1>6. \A q \in Pages \ {p} : Untouched(q, f)
  <2>1. \A q \in Pages \ {p} : pages[q].frame_id # f
    BY <1>2, PageFacts
  <2> QED BY <1>3, <2>1, PageFacts DEF Untouched, PageEntries
<1>7. CleanPage(p)' /\ StablePage(p)
  <2>1. CleanPage(p) /\ TrueTransfer(t)
    BY ContentParts
  <2>2. meta[f].dirty_epoch = loc[t].epoch /\ f \notin unmarked => image[f] = disk[p]
    BY <1>1, <1>2, <2>1 DEF TrueTransfer
  <2> QED BY <1>2, <1>3, <1>4, <2>1, <2>2
          DEF CleanPage, StablePage, PageContent, Holds, PageIs
<1>8. ASSUME NEW u \in Threads, u # t, Moving(u) \/ Flushing(u),
             loc[u].frame_id = f
      PROVE  TrueTransfer(u)'
  <2>1. Flushing(u) /\ loc[u].page_id = p
    BY <1>2, <1>8, ResidentFrameUsers
  <2>2. pc'[u] = pc[u] /\ loc'[u] = loc[u] /\ TrueTransfer(u)
    BY <1>3, <1>8, ContentParts DEF OnlyThread
  <2>3. Flushing(u)'
    BY <2>1, <2>2 DEF Flushing
  <2> QED BY <1>3, <1>4, <1>8, <2>1, <2>2, <2>3, FlushPromise DEF TrueTransfer
<1>9. TrueTransfer(t)'
  BY <1>3, NoTransfer
<1> QED BY <1>3, <1>5, <1>6, <1>7, <1>8, <1>9, ContentStep DEF OnlyThread

\* A page that nobody has pinned is deleted.
LEMMA DeleteResidentContents ==
  ASSUME Inv, ContentsInv, NEW t \in Threads, DeleteResident(t)
  PROVE  KeepsContents
<1>1. PICK p : p = loc[t].page_id
  OBVIOUS
<1>2. p \in Pages /\ pages[p].state = "kResident"
  BY <1>1 DEF DeleteResident, Locked, Inv, CallsAreWellFormed, WellFormed
<1>3. PICK f \in Frames : /\ f = pages[p].frame_id /\ Holds(f, p)
                          /\ meta[f].page_id = p /\ meta[f].state = "kResident"
  BY <1>2, ResidentFrame
<1>4. meta[f].pin_count = 0
  BY <1>1, <1>3 DEF DeleteResident, IsPinned
<1>5. \A u \in Threads : Moving(u) \/ Flushing(u) => loc[u].frame_id # f
  BY <1>2, <1>3, <1>4, UnpinnedHasNoHolders, NobodyUses
<1>6. /\ UNCHANGED <<image, disk, unmarked>>
      /\ OnlyThread(t) /\ pc'[t] = "idle"
      /\ \A g \in Frames \ {f} : meta'[g] = meta[g]
  BY <1>1, <1>3, ThreadReturns DEF DeleteResident, Inv, TypeOK
<1>7. /\ pages'[p].state = "kUnused"
      /\ \A q \in Pages \ {p} : pages'[q] = pages[q]
  BY <1>1, <1>2 DEF DeleteResident, MakeUnused, SetNonResident, UnusedEntry,
                    PageEntry, Inv, TypeOK
<1>8. OnlyFrame(f)
  BY <1>6 DEF OnlyFrame
<1>9. \A q \in Pages \ {p} : Untouched(q, f)
  <2>1. \A q \in Pages \ {p} : pages[q].frame_id # f
    BY <1>2, <1>3, PageFacts
  <2> QED BY <1>6, <1>7, <2>1, PageFacts DEF Untouched, PageEntries
<1>10. CleanPage(p)' /\ StablePage(p)
  BY <1>7 DEF CleanPage, StablePage
<1>11. TrueTransfer(t)'
  BY <1>6, NoTransfer
<1> QED BY <1>5, <1>6, <1>8, <1>9, <1>10, <1>11, ContentStep DEF OnlyThread

\* A client changes a page through a guard, or marks it dirty.
LEMMA ClientContents ==
  ASSUME Inv, ContentsInv, NEW t \in Threads, NEW p \in Pages,
         MarkDirty(t, p) \/ \E c \in Images : ModifyPage(t, p, c)
  PROVE  KeepsContents
<1>1. PICK f \in Frames : f = guard[t][p] /\ Holds(f, p)
  BY GuardedFrame DEF MarkDirty, ModifyPage
<1>2. /\ UNCHANGED <<pages, disk, pc, loc>>
      /\ \A g \in Frames \ {f} : meta'[g] = meta[g] /\ image'[g] = image[g]
      /\ \A g \in Frames \ {f} : g \in unmarked' <=> g \in unmarked
  BY <1>1 DEF MarkDirty, ModifyPage, Inv, TypeOK
<1>3. \/ f \in unmarked'
      \/ /\ image' = image /\ meta'[f].dirty
         /\ meta'[f].dirty_epoch = meta[f].dirty_epoch + 1
  <2>1. CASE MarkDirty(t, p)
    BY <1>1, <2>1 DEF MarkDirty, Marked, Inv, TypeOK, FrameMetas
  <2>2. CASE \E c \in Images : ModifyPage(t, p, c)
    BY <1>1, <2>2 DEF ModifyPage
  <2> QED BY <2>1, <2>2
<1>4. OnlyFrame(f)
  BY <1>2 DEF OnlyFrame
<1>5. \A q \in Pages \ {p} : Untouched(q, f)
  <2>1. \A q \in Pages \ {p} : pages[q].frame_id # f
    BY <1>1, PageFacts DEF Holds, PageIs
  <2> QED BY <1>2, <2>1, PageFacts DEF Untouched, PageEntries
<1>6. CleanPage(p)' /\ StablePage(p)
  BY <1>1, <1>2, <1>3 DEF CleanPage, StablePage, PageContent, Unmarked, Holds, PageIs
<1>7. ASSUME NEW u \in Threads, Moving(u) \/ Flushing(u), loc[u].frame_id = f
      PROVE  TrueTransfer(u)'
  <2>1. Flushing(u) /\ Flushing(u)'
    BY <1>1, <1>2, <1>7, ResidentFrameUsers DEF Flushing
  <2>2. /\ loc[u].epoch <= meta[f].dirty_epoch /\ loc[u].epoch \in Nat
        /\ meta[f].dirty_epoch \in Nat
    BY <1>7, <2>1 DEF Inv, CallsKeepTheirFrame, KeepsItsFrame, TypeOK, FrameMetas,
                      Locals
  <2> QED BY <1>2, <1>3, <1>7, <2>1, <2>2, FlushPromise
<1> QED BY <1>2, <1>4, <1>5, <1>6, <1>7, ContentStep

-----------------------------------------------------------------------------

\* Every step keeps what is on the pages.
LEMMA NextContents ==
  ASSUME Inv, ContentsInv, Next
  PROVE  KeepsContents
<1>1. PICK t \in Threads :
        \/ Call(t) \/ Step(t) \/ SpuriousWake(t)
        \/ \E p \in Pages : UseGuard(t, p)
  BY DEF Next
<1>2. CASE Call(t) \/ SpuriousWake(t)
  BY <1>2, QuietStepContents
<1>3. CASE NewPage(t)
  BY <1>3, QuietStepContents, NewPageContents, EvictContents, NewPageIdContents
     DEF NewPage
<1>4. CASE FetchPage(t)
  BY <1>4, QuietStepContents, FetchLookupContents, FetchFreeFrameContents,
     EvictContents, FetchEvictedContents, ReadPageContents, LoadEndContents
     DEF FetchPage
<1>5. CASE Evict(t)
  BY <1>5, EvictWriteContents, EvictFailedContents DEF Evict
<1>6. CASE FlushPage(t)
  BY <1>6, QuietStepContents, PinContents, FlushWriteContents, FlushDoneContents
     DEF FlushPage
<1>7. CASE DeletePage(t)
  BY <1>7, QuietStepContents, DeleteResidentContents, DeleteNonResidentContents
     DEF DeletePage
<1>8. CASE \E p \in Pages : UseGuard(t, p)
  BY <1>8, ClientContents, PinContents DEF UseGuard
<1> QED BY <1>1, <1>2, <1>3, <1>4, <1>5, <1>6, <1>7, <1>8 DEF Step

\* ContentsInv holds throughout.
LEMMA ContentsInvariance == PinsFit => (Spec => [](Inv /\ ContentsInv))
<1> SUFFICES ASSUME PinsFit PROVE Spec => [](Inv /\ ContentsInv)
  OBVIOUS
<1>1. Init => Inv /\ ContentsInv
  BY InitInv DEF Init, ContentsInv, CleanMatchesDisk, TransfersAreTrue,
                 UnusedEntry, PageEntry
<1>2. (Inv /\ ContentsInv) /\ [Next]_vars => (Inv /\ ContentsInv)'
  <2>1. Inv /\ ContentsInv /\ Next => Inv' /\ ContentsInv'
    BY NextInv, NextContents DEF KeepsContents
  <2>2. Inv /\ ContentsInv /\ UNCHANGED vars => Inv' /\ ContentsInv'
    BY StutterInv DEF vars, ContentsInv, CleanMatchesDisk, TransfersAreTrue
  <2> QED BY <2>1, <2>2
<1> QED BY <1>1, <1>2, PTL DEF Spec

\* A clean page can be evicted without a write: it is what the file has.
THEOREM CleanAlwaysMatchesDisk == PinsFit => (Spec => []CleanMatchesDisk)
<1>1. Inv /\ ContentsInv => CleanMatchesDisk
  BY DEF ContentsInv
<1> QED BY <1>1, ContentsInvariance, PTL

\* Nothing but a client's own write, or its creation, changes what is on a
\* page that stays allocated.
THEOREM ContentsAreStable == PinsFit => (Spec => ContentIsStable)
<1> SUFFICES ASSUME PinsFit PROVE Spec => ContentIsStable
  OBVIOUS
<1>1. (Inv /\ ContentsInv) /\ [Next]_vars =>
        [\A p \in Pages :
           /\ pages[p].state # "kUnused" /\ pages'[p].state # "kUnused"
           /\ ~BeingCreated(p)
           => PageContent(p)' = PageContent(p) \/ Unmarked(p) \/ Unmarked(p)']_vars
  BY NextContents DEF KeepsContents, StablePage
<1> QED BY <1>1, ContentsInvariance, PTL DEF Spec, ContentIsStable
=============================================================================
