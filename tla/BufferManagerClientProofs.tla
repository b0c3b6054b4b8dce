---------------------- MODULE BufferManagerClientProofs ----------------------
(***************************************************************************)
(* What clients may count on, for any number of threads, pages and frames. *)
(* Careful clients: no frame is lost, "no frame available" is true, and    *)
(* the buffer manager is a store of pages.  All clients: what was flushed  *)
(* is in the file, and what was synced survives.                           *)
(***************************************************************************)
EXTENDS BufferManagerProofs, BufferManagerClients, BufferManagerDurability

-----------------------------------------------------------------------------
(* Careful clients.  A page is used by others only between its creation    *)
(* and its deletion, so NewPage finds its page as it left it, and no frame *)
(* is stranded.                                                            *)

Creates(t, p) == loc[t].op = "NewPage" /\ loc[t].page_id = p

\* What careful clients bring about: a page that is being created is not in
\* memory and nobody else's; a page that is used exists; a page that is being
\* deleted is used by nobody else.
CarefulUse ==
  \A t \in Threads, p \in Pages :
    /\ Creates(t, p) => /\ pages[p].state = "kNonResident"
                        /\ \A u \in Threads : ~Uses(u, p)
                        /\ \A u \in Threads : Creates(u, p) => u = t
    /\ Uses(t, p) => pages[p].state # "kUnused"
    /\ Deletes(t, p) => \A u \in Threads : Uses(u, p) => u = t

\* No frame but f becomes resident, and the pages that are resident in the
\* others stay where they are.
LEMMA OrphansElsewhere ==
  ASSUME NoOrphanFrames, NEW f,
         \A g \in Frames \ {f} : meta'[g].state = "kResident" =>
           /\ meta[g].state = "kResident" /\ meta'[g].page_id = meta[g].page_id,
         \A q \in Pages : pages[q].state = "kResident" /\ pages[q].frame_id # f
                            => pages'[q] = pages[q],
         f \in Frames /\ meta'[f].state = "kResident" =>
           meta'[f].page_id \in Pages /\ Holds(f, meta[f].page_id)',
         Inv
  PROVE  NoOrphanFrames'
<1> SUFFICES ASSUME NEW g \in Frames, meta'[g].state = "kResident"
             PROVE  meta'[g].page_id # NoPage /\ Holds(g, meta[g].page_id)'
  BY DEF NoOrphanFrames
<1>1. CASE g = f
  BY <1>1, ConstantFacts
<1>2. CASE g # f
  <2>1. /\ meta[g].state = "kResident" /\ meta'[g].page_id = meta[g].page_id
        /\ meta[g].page_id # NoPage /\ Holds(g, meta[g].page_id)
    BY <1>2 DEF NoOrphanFrames
  <2>2. meta[g].page_id \in Pages
    BY <2>1 DEF Inv, TypeOK, FrameMetas
  <2> QED BY <1>2, <2>1, <2>2 DEF Holds, PageIs
<1> QED BY <1>1, <1>2

\* Thread t may move only the pages that it creates, fetches or deletes.
MovesItsPages(t) ==
  \A q \in Pages :
    /\ pages[q].state = "kNonResident" /\ pages'[q].state # "kNonResident"
         => Uses(t, q) \/ Creates(t, q)
    /\ pages[q].state # "kUnused" /\ pages'[q].state = "kUnused"
         => Deletes(t, q) \/ Creates(t, q)

\* Thread t goes on with its call, takes a new id, or ends its call.
StaysCareful(t) ==
  \A q \in Pages :
    /\ Creates(t, q)' => /\ pages'[q].state = "kNonResident"
                         /\ Creates(t, q) \/ pages[q].state = "kUnused"
    /\ Uses(t, q)' => Uses(t, q) /\ pages'[q].state # "kUnused"
    /\ Deletes(t, q)' => Deletes(t, q)

\* Such a step does not disturb the others.
LEMMA CarefulStep ==
  ASSUME CarefulUse, NEW t \in Threads, OnlyThread(t), MovesItsPages(t),
         StaysCareful(t)
  PROVE  CarefulUse'
<1> SUFFICES ASSUME NEW u \in Threads, NEW q \in Pages
             PROVE  /\ Creates(u, q)' => /\ pages'[q].state = "kNonResident"
                                         /\ \A v \in Threads : ~Uses(v, q)'
                                         /\ \A v \in Threads : Creates(v, q)' => v = u
                    /\ Uses(u, q)' => pages'[q].state # "kUnused"
                    /\ Deletes(u, q)' => \A v \in Threads : Uses(v, q)' => v = u
  BY DEF CarefulUse
<1>1. \A v \in Threads : v # t =>
        /\ Creates(v, q)' <=> Creates(v, q)
        /\ Uses(v, q)' <=> Uses(v, q)
        /\ Deletes(v, q)' <=> Deletes(v, q)
  BY DEF OnlyThread, Creates, Uses, Deletes
<1>2. /\ \A v, w \in Threads : Creates(v, q) /\ Creates(w, q) => w = v
      /\ \A v, w \in Threads : Creates(v, q) => ~Uses(w, q)
      /\ \A v, w \in Threads : Deletes(v, q) /\ Uses(w, q) => w = v
      /\ \A v \in Threads : Creates(v, q) => pages[q].state = "kNonResident"
      /\ \A v \in Threads : Uses(v, q) => pages[q].state # "kUnused"
      /\ \A v \in Threads : Deletes(v, q) => Uses(v, q)
  BY DEF CarefulUse, Deletes, Uses
<1>3. /\ pages[q].state = "kNonResident" /\ pages'[q].state # "kNonResident"
           => Uses(t, q) \/ Creates(t, q)
      /\ pages[q].state # "kUnused" /\ pages'[q].state = "kUnused"
           => Deletes(t, q) \/ Creates(t, q)
  BY DEF MovesItsPages
<1>4. /\ Creates(t, q)' => /\ pages'[q].state = "kNonResident"
                           /\ Creates(t, q) \/ pages[q].state = "kUnused"
      /\ Uses(t, q)' => Uses(t, q) /\ pages'[q].state # "kUnused"
      /\ Deletes(t, q)' => Deletes(t, q)
  BY DEF StaysCareful
<1>5. Creates(u, q)' => pages'[q].state = "kNonResident"
  BY <1>1, <1>2, <1>3, <1>4
<1>6. ASSUME Creates(u, q)', NEW v \in Threads
      PROVE  ~Uses(v, q)' /\ (Creates(v, q)' => v = u)
  BY <1>1, <1>2, <1>4, <1>6
<1>7. Uses(u, q)' => pages'[q].state # "kUnused"
  BY <1>1, <1>2, <1>3, <1>4
<1>8. ASSUME Deletes(u, q)', NEW v \in Threads, Uses(v, q)'
      PROVE  v = u
  BY <1>1, <1>2, <1>4, <1>8
<1> QED BY <1>5, <1>6, <1>7, <1>8

\* What is proved of every step of careful clients.
CarefulInv == Inv /\ CarefulUse /\ NoOrphanFrames

StaysTidy == CarefulUse' /\ NoOrphanFrames'

\* Thread t returns, or keeps the call it is in.
LEMMA SameCall ==
  ASSUME NEW t \in Threads,
         \/ loc'[t].op = "none"
         \/ /\ loc'[t].op \in {"FlushPage", "FlushAllPages"}
         \/ loc'[t].op = loc[t].op /\ loc'[t].page_id = loc[t].page_id
  PROVE  \A q : /\ Creates(t, q)' => Creates(t, q)
                /\ Uses(t, q)' => Uses(t, q)
                /\ Deletes(t, q)' => Deletes(t, q)
  BY DEF Creates, Uses, Deletes

\* Steps that move no page and change no frame's state.
LEMMA QuietCareful ==
  ASSUME CarefulInv, NEW t \in Threads, OnlyThread(t),
         \/ loc'[t].op = "none"
         \/ loc'[t].op \in {"FlushPage", "FlushAllPages"}
         \/ loc'[t].op = loc[t].op /\ loc'[t].page_id = loc[t].page_id,
         pages' = pages,
         \A g \in Frames : /\ meta'[g].state = meta[g].state
                           /\ meta'[g].page_id = meta[g].page_id
  PROVE  StaysTidy
<1>1. MovesItsPages(t)
  BY DEF MovesItsPages
<1>2. StaysCareful(t)
  BY SameCall DEF StaysCareful, CarefulInv, CarefulUse
<1>3. NoOrphanFrames'
  BY OrphansElsewhere, ConstantFacts DEF CarefulInv
<1> QED BY <1>1, <1>2, <1>3, CarefulStep DEF StaysTidy, CarefulInv

\* The careful client's call.
LEMMA CarefulCallTidy ==
  ASSUME CarefulInv, NEW t \in Threads, CarefulCall(t)
  PROVE  StaysTidy
<1>1. /\ UNCHANGED <<pages, meta>> /\ OnlyThread(t)
      /\ \A p \in Pages : ~Creates(t, p)'
      /\ \A p \in Pages : ~Uses(t, p)
  <2>1. Call(t)
    BY DEF CarefulCall
  <2>2. PICK op, p : BeginCall(t, op, p) /\ (op = "NewPage" => p = NoPage)
    BY <2>1 DEF Call
  <2>3. loc'[t] = [NoCall EXCEPT !.op = op, !.page_id = p]
    BY <2>2 DEF BeginCall, CarefulInv, Inv, TypeOK
  <2>4. loc'[t].op = op /\ loc'[t].page_id = p
    BY <2>3 DEF NoCall
  <2>5. \A q \in Pages : ~Creates(t, q)'
    BY <2>2, <2>4, ConstantFacts DEF Creates
  <2>6. loc[t].op = "none"
    BY <2>2 DEF BeginCall, CarefulInv, Inv, CallsAreWellFormed, WellFormed
  <2> QED BY <2>2, <2>5, <2>6
          DEF BeginCall, Goto, OnlyThread, CarefulInv, Inv, TypeOK, Uses
<1>2. \A p \in Pages : /\ Uses(t, p)' => Known(p)
                       /\ Deletes(t, p)' => \A u \in Threads : ~Uses(u, p)
  BY DEF CarefulCall
<1>3. CarefulUse'
  <2> SUFFICES ASSUME NEW u \in Threads, NEW q \in Pages
               PROVE  /\ Creates(u, q)' =>
                           /\ pages'[q].state = "kNonResident"
                           /\ \A v \in Threads : ~Uses(v, q)'
                           /\ \A v \in Threads : Creates(v, q)' => v = u
                      /\ Uses(u, q)' => pages'[q].state # "kUnused"
                      /\ Deletes(u, q)' => \A v \in Threads : Uses(v, q)' => v = u
    BY DEF CarefulUse
  <2>1. \A v \in Threads : v # t =>
          /\ Creates(v, q)' <=> Creates(v, q)
          /\ Uses(v, q)' <=> Uses(v, q)
          /\ Deletes(v, q)' <=> Deletes(v, q)
    BY <1>1 DEF OnlyThread, Creates, Uses, Deletes
  <2>2. /\ \A v, w \in Threads : Creates(v, q) /\ Creates(w, q) => w = v
        /\ \A v, w \in Threads : Creates(v, q) => ~Uses(w, q)
        /\ \A v, w \in Threads : Deletes(v, q) /\ Uses(w, q) => w = v
        /\ \A v \in Threads : Creates(v, q) => pages[q].state = "kNonResident"
        /\ \A v \in Threads : Uses(v, q) => pages[q].state # "kUnused"
        /\ \A v \in Threads : Deletes(v, q) => Uses(v, q)
    BY DEF CarefulInv, CarefulUse, Deletes, Uses
  <2>3. Uses(t, q)' => /\ pages[q].state # "kUnused"
                       /\ \A v \in Threads : ~Creates(v, q) /\ ~Deletes(v, q)
    BY <1>2 DEF Known, BeingCreated, Creates
  <2>4. Deletes(t, q)' => \A v \in Threads : ~Uses(v, q)
    BY <1>2
  <2> QED BY <1>1, <2>1, <2>2, <2>3, <2>4
<1>4. NoOrphanFrames'
  BY <1>1 DEF CarefulInv, NoOrphanFrames, Holds, PageIs
<1> QED BY <1>3, <1>4 DEF StaysTidy

\* FlushAllPages goes on with FlushAllPages, or returns.
LEMMA FlushNextCall ==
  ASSUME TypeOK, NEW t \in Threads, NEW todo, FlushNext(t, todo)
  PROVE  OnlyThread(t) /\ loc'[t].op \in {"none", "FlushAllPages"}
<1>1. CASE Return(t)
  BY <1>1, ThreadReturns
<1>2. CASE \E p, s : /\ Goto(t, "lock")
                     /\ loc' = [loc EXCEPT ![t] = [NoCall EXCEPT !.op = "FlushAllPages",
                                                                 !.page_id = p,
                                                                 !.todo = s]]
  BY <1>2 DEF NoCall, Goto, OnlyThread, TypeOK
<1> QED BY <1>1, <1>2 DEF FlushNext

\* FetchPage returns, or goes on with the same page.
LEMMA FetchTurnCall ==
  ASSUME TypeOK, NEW t \in Threads, NEW p, NEW pt, NEW mt, NEW sl,
         FetchTurn(t, p, pt, mt, sl)
  PROVE  /\ OnlyThread(t)
         /\ \/ loc'[t].op = "none"
            \/ /\ loc'[t].op = "FetchPage" /\ loc'[t].page_id = p
               /\ Transient(pt, p)
<1>1. CASE Return(t)
  BY <1>1, ThreadReturns
<1>2. CASE /\ Goto(t, "lock") /\ Transient(pt, p)
           /\ loc' = [loc EXCEPT ![t] = [NoCall EXCEPT !.op = "FetchPage",
                                                       !.page_id = p]]
  BY <1>2 DEF NoCall, Goto, OnlyThread, TypeOK
<1> QED BY <1>1, <1>2 DEF FetchTurn

\* Steps that only wait, return or transfer a page.
LEMMA QuietStepCareful ==
  ASSUME CarefulInv, NEW t \in Threads,
         \/ NewPageNoId(t) \/ FetchNoFrame(t) \/ FlushUnused(t)
         \/ DeleteRefused(t) \/ FlushAllList(t) \/ FlushNothing(t)
         \/ FetchWait(t) \/ FlushWait(t) \/ DeleteWait(t) \/ SpuriousWake(t)
         \/ EvictWrite(t) \/ ReadPage(t) \/ FlushWrite(t)
  PROVE  StaysTidy
<1>1. UNCHANGED <<pages, meta>>
  BY DEF NewPageNoId, FetchNoFrame, FlushUnused, DeleteRefused, FlushAllList,
         FlushNothing, FetchWait, FlushWait, DeleteWait, SpuriousWake, EvictWrite,
         ReadPage, FlushWrite
<1>2. /\ OnlyThread(t)
      /\ \/ loc'[t].op \in {"none", "FlushPage", "FlushAllPages"}
         \/ loc'[t] = loc[t]
  <2>1. CASE NewPageNoId(t) \/ FetchNoFrame(t) \/ FlushUnused(t) \/ DeleteRefused(t)
    BY <2>1, ThreadReturns DEF CarefulInv, Inv, NewPageNoId, FetchNoFrame,
                               FlushUnused, DeleteRefused
  <2>2. CASE FlushAllList(t) \/ FlushNothing(t)
    <3>1. PICK todo : FlushNext(t, todo)
      BY <2>2 DEF FlushAllList, FlushNothing
    <3> QED BY <3>1, FlushNextCall DEF CarefulInv, Inv
  <2>3. CASE FetchWait(t) \/ FlushWait(t) \/ DeleteWait(t) \/ SpuriousWake(t)
    BY <2>3 DEF FetchWait, FlushWait, DeleteWait, SpuriousWake, Wait, OnlyThread
  <2>4. CASE EvictWrite(t) \/ ReadPage(t) \/ FlushWrite(t)
    BY <2>4 DEF EvictWrite, ReadPage, FlushWrite, Goto, OnlyThread, CarefulInv, Inv,
                TypeOK
  <2> QED BY <2>1, <2>2, <2>3, <2>4
<1> QED BY <1>1, <1>2, QuietCareful

\* A pin, an unpin or a mark leaves a frame where it is.
LEMMA PinCareful ==
  ASSUME CarefulInv, NEW t \in Threads,
         \/ FetchLookup(t) \/ FlushStart(t) \/ FlushDone(t) \/ FlushFailed(t)
         \/ \E p \in Pages : UseGuard(t, p)
  PROVE  StaysTidy
<1>1. pages' = pages
  BY DEF FetchLookup, FetchTurn, FlushStart, FlushDone, FlushFailed, UseGuard,
         ModifyPage, MarkDirty, DropPageGuard
<1>2. /\ OnlyThread(t)
      /\ \/ loc'[t].op \in {"none", "FlushPage", "FlushAllPages"}
         \/ loc'[t].op = loc[t].op /\ loc'[t].page_id = loc[t].page_id
  <2>1. CASE FetchLookup(t)
    <3>1. FetchTurn(t, loc[t].page_id, pages, meta, sleeping) /\ loc[t].op = "FetchPage"
      BY <2>1 DEF FetchLookup, Locked
    <3> QED BY <3>1, FetchTurnCall DEF CarefulInv, Inv
  <2>2. CASE FlushStart(t)
    BY <2>2 DEF FlushStart, Goto, OnlyThread, CarefulInv, Inv, TypeOK, Locals
  <2>3. CASE FlushDone(t)
    <3>1. FlushNext(t, loc[t].todo)
      BY <2>3 DEF FlushDone
    <3> QED BY <3>1, FlushNextCall DEF CarefulInv, Inv
  <2>4. CASE FlushFailed(t)
    BY <2>4, ThreadReturns DEF FlushFailed, CarefulInv, Inv
  <2>5. CASE \E p \in Pages : UseGuard(t, p)
    BY <2>5 DEF UseGuard, ModifyPage, MarkDirty, DropPageGuard, OnlyThread
  <2> QED BY <2>1, <2>2, <2>3, <2>4, <2>5
<1>3. \/ meta' = meta
      \/ \E f : \/ meta' = [meta EXCEPT ![f] = Pinned(@)]
                \/ meta' = [meta EXCEPT ![f] = Unpinned(@)]
                \/ meta' = [meta EXCEPT ![f] = Marked(@)]
                \/ \E p, e : meta' = [meta EXCEPT ![f] = Unpinned(Cleaned(@, p, e))]
  <2>1. CASE FetchLookup(t)
    BY <2>1 DEF FetchLookup, FetchTurn, Pin
  <2>2. CASE FlushDone(t)
    BY <2>2 DEF FlushDone
  <2>3. CASE FlushStart(t) \/ FlushFailed(t) \/ \E p \in Pages : UseGuard(t, p)
    BY <2>3 DEF FlushStart, FlushFailed, UseGuard, ModifyPage, MarkDirty,
                DropPageGuard
  <2> QED BY <2>1, <2>2, <2>3
<1>4. \A g \in Frames : /\ meta'[g].state = meta[g].state
                        /\ meta'[g].page_id = meta[g].page_id
  <2>1. meta \in [Frames -> FrameMetas]
    BY DEF CarefulInv, Inv, TypeOK
  <2>2. \A m \in FrameMetas :
          /\ Pinned(m).state = m.state /\ Pinned(m).page_id = m.page_id
          /\ Unpinned(m).state = m.state /\ Unpinned(m).page_id = m.page_id
          /\ Marked(m).state = m.state /\ Marked(m).page_id = m.page_id
          /\ \A p, e : /\ Unpinned(Cleaned(m, p, e)).state = m.state
                       /\ Unpinned(Cleaned(m, p, e)).page_id = m.page_id
    BY DEF Pinned, Unpinned, Marked, Cleaned, FrameMetas
  <2> QED BY <1>3, <2>1, <2>2
<1> QED BY <1>1, <1>2, <1>4, QuietCareful

\* The id for which a careful NewPage works, and its table: the page is not
\* in memory and nobody else's.
LEMMA CarefulId ==
  ASSUME CarefulInv, NEW t \in Threads, NEW p \in NewPageIds(t),
         loc[t].op = "NewPage", NEW pt, pt = NewPageTable(t, p)
  PROVE  /\ p \in Pages /\ pt \in [Pages -> PageEntries]
         /\ pt[p].state = "kNonResident"
         /\ pages[p].state = "kUnused" \/ Creates(t, p)
         /\ \A q \in Pages \ {p} : pt[q] = pages[q] /\ ~Creates(t, q)
         /\ pages[p].state # "kResident"
<1>1. CASE loc[t].page_id = NoPage
  <2>1. \A q \in Pages : ~Creates(t, q)
    BY <1>1, ConstantFacts DEF Creates
  <2> QED BY <1>1, <2>1, EntryFields
          DEF NewPageIds, NewPageTable, MakeAllocated, CarefulInv, Inv, TypeOK, PageState
<1>2. CASE loc[t].page_id # NoPage
  <2>1. /\ p = loc[t].page_id /\ pt = pages /\ p \in Pages /\ Creates(t, p)
        /\ \A q \in Pages \ {p} : ~Creates(t, q)
    BY <1>2 DEF NewPageIds, NewPageTable, CarefulInv, Inv, TypeOK, Locals, Creates
  <2>2. pages[p].state = "kNonResident"
    BY <2>1 DEF CarefulInv, CarefulUse
  <2> QED BY <2>1, <2>2 DEF CarefulInv, Inv, TypeOK
<1> QED BY <1>1, <1>2

\* NewPage takes an id and sleeps, or gives it back.
LEMMA NewPageIdCareful ==
  ASSUME CarefulInv, NEW t \in Threads, NewPageWait(t) \/ NewPageNoFrame(t)
  PROVE  StaysTidy
<1>1. meta' = meta /\ loc[t].op = "NewPage"
  BY DEF NewPageWait, NewPageNoFrame, Locked
<1>2. PICK p \in NewPageIds(t) :
        /\ OnlyThread(t)
        /\ \/ /\ pages' = NewPageTable(t, p)
              /\ loc'[t].op = "NewPage" /\ loc'[t].page_id = p
           \/ /\ pages' = Rollback(NewPageTable(t, p), p)
              /\ loc'[t].op = "none"
  <2>1. CASE NewPageWait(t)
    BY <1>1, <2>1 DEF NewPageWait, OnlyThread, CarefulInv, Inv, TypeOK, Locals
  <2>2. CASE NewPageNoFrame(t)
    BY <2>2, ThreadReturns DEF NewPageNoFrame, CarefulInv, Inv
  <2> QED BY <2>1, <2>2
<1>3. PICK pt : pt = NewPageTable(t, p)
  OBVIOUS
<1>4. /\ p \in Pages /\ pt \in [Pages -> PageEntries]
      /\ pt[p].state = "kNonResident" /\ pages[p].state # "kResident"
      /\ pages[p].state = "kUnused" \/ Creates(t, p)
      /\ \A q \in Pages \ {p} : pt[q] = pages[q]
  BY <1>1, <1>3, CarefulId
<1>5. \A q \in Pages \ {p} : pages'[q] = pages[q]
  BY <1>2, <1>3, <1>4 DEF Rollback, MakeUnused
<1>6. MovesItsPages(t)
  BY <1>2, <1>3, <1>4, <1>5 DEF MovesItsPages
<1>7. StaysCareful(t)
  BY <1>2, <1>3, <1>4 DEF StaysCareful, Creates, Uses, Deletes
<1>8. NoOrphanFrames'
  BY <1>1, <1>4, <1>5, OrphansElsewhere, ConstantFacts DEF CarefulInv
<1> QED BY <1>2, <1>6, <1>7, <1>8, CarefulStep DEF StaysTidy, CarefulInv

\* A call starts to evict a frame: the victim's page is not resident now, and
\* neither is its frame.
LEMMA StartEvictionCareful ==
  ASSUME CarefulInv, NEW t \in Threads, NEW p \in Pages, NEW f \in evictable,
         NEW pt \in [Pages -> PageEntries], StartEviction(t, p, f, pt),
         \A q \in Pages \ {p} : pt[q] = pages[q],
         \/ /\ loc[t].op = "NewPage" /\ pt[p].state = "kNonResident"
            /\ pages[p].state # "kResident"
            /\ pages[p].state = "kUnused" \/ Creates(t, p)
         \/ loc[t].op = "FetchPage" /\ loc[t].page_id = p /\ pt = pages
  PROVE  StaysTidy
<1>1. PICK old \in Pages :
        /\ f \in Frames /\ old = meta[f].page_id /\ Holds(f, old)
  BY EvictableFrame DEF CarefulInv
<1>2. /\ pages[old].state = "kResident" /\ pages[old].frame_id = f
      /\ pt[old] = pages[old] /\ (loc[t].op = "NewPage" => old # p)
  BY <1>1 DEF Holds, PageIs
<1>3. /\ pages'[old].state = "kEvicting"
      /\ \A q \in Pages \ {old} : pages'[q] = pt[q]
  BY <1>1, <1>2 DEF StartEviction, SetEvicting, PageEntry
<1>4. /\ OnlyThread(t) /\ loc'[t].op = loc[t].op /\ loc'[t].page_id = p
  BY DEF StartEviction, Goto, OnlyThread, CarefulInv, Inv, TypeOK, Locals
<1>5. MovesItsPages(t)
  BY <1>2, <1>3 DEF MovesItsPages
<1>6. StaysCareful(t)
  <2>1. CASE loc[t].op = "NewPage"
    BY <1>2, <1>3, <1>4, <2>1 DEF StaysCareful, Creates, Uses, Deletes
  <2>2. CASE loc[t].op = "FetchPage" /\ loc[t].page_id = p /\ pt = pages
    <3>1. Uses(t, p) => pages[p].state # "kUnused"
      BY DEF CarefulInv, CarefulUse
    <3> QED BY <1>2, <1>3, <1>4, <2>2, <3>1 DEF StaysCareful, Creates, Uses, Deletes
  <2> QED BY <2>1, <2>2
<1>7. NoOrphanFrames'
  <2>1. /\ meta'[f].state = "kEvicting"
        /\ \A g \in Frames \ {f} : meta'[g] = meta[g]
    BY <1>1 DEF StartEviction, CarefulInv, Inv, TypeOK, FrameMetas
  <2>2. \A q \in Pages : pages[q].state = "kResident" /\ pages[q].frame_id # f
                           => pages'[q] = pages[q]
    BY <1>2, <1>3
  <2> QED BY <2>1, <2>2, OrphansElsewhere DEF CarefulInv
<1> QED BY <1>4, <1>5, <1>6, <1>7, CarefulStep DEF StaysTidy, CarefulInv

\* NewPage or FetchPage starts an eviction.
LEMMA EvictCareful ==
  ASSUME CarefulInv, NEW t \in Threads, NewPageEvict(t) \/ FetchEvict(t)
  PROVE  StaysTidy
<1>1. CASE NewPageEvict(t)
  <2>1. PICK p \in NewPageIds(t), f \in evictable :
          StartEviction(t, p, f, NewPageTable(t, p))
    BY <1>1 DEF NewPageEvict
  <2>2. PICK pt : pt = NewPageTable(t, p)
    OBVIOUS
  <2>3. loc[t].op = "NewPage"
    BY <1>1 DEF NewPageEvict, Locked
  <2> QED BY <2>1, <2>2, <2>3, CarefulId, StartEvictionCareful
<1>2. CASE FetchEvict(t)
  <2>1. PICK f \in evictable : StartEviction(t, loc[t].page_id, f, pages)
    BY <1>2 DEF FetchEvict
  <2>2. loc[t].op = "FetchPage" /\ loc[t].page_id \in Pages
    BY <1>2 DEF FetchEvict, Locked, CarefulInv, Inv, CallsAreWellFormed, WellFormed
  <2> QED BY <2>1, <2>2, StartEvictionCareful DEF CarefulInv, Inv, TypeOK
<1> QED BY <1>1, <1>2

\* The write-back failed: the victim is resident where it was, and the id
\* that NewPage had is given back.
LEMMA EvictFailedCareful ==
  ASSUME CarefulInv, NEW t \in Threads, EvictFailed(t)
  PROVE  StaysTidy
<1>1. Evicting(t) /\ Inv
  BY DEF EvictFailed, Evicting, CarefulInv
<1>2. PICK old \in Pages, f \in Frames, p \in Pages :
        /\ old = loc[t].old_page_id /\ f = loc[t].frame_id /\ p = loc[t].page_id
        /\ PageIs(old, "kEvicting", f)
  BY <1>1, BusyFrames DEF Inv, CallsAreWellFormed, WellFormed
<1>3. /\ OnlyThread(t) /\ loc'[t].op = "none"
      /\ meta'[f].page_id = old /\ \A g \in Frames \ {f} : meta'[g] = meta[g]
  BY <1>1, <1>2, ThreadReturns DEF EvictFailed, FrameMeta, Inv, TypeOK
<1>4. PICK pt : pt = Restored(pages, t)
  OBVIOUS
<1>5. /\ pt \in [Pages -> PageEntries]
      /\ pt[old].state = "kResident" /\ pt[old].frame_id = f
      /\ \A q \in Pages \ {old} : pt[q] = pages[q]
  <2>1. pt = [pages EXCEPT ![old] = PageEntry("kResident", f)]
    BY <1>1, <1>2, <1>4 DEF Restored, SetResident, SetNonResident, PageIs, Inv, TypeOK
  <2>2. PageEntry("kResident", f) \in PageEntries
    BY EntryFields DEF PageState
  <2>3. pages \in [Pages -> PageEntries]
    BY <1>1 DEF Inv, TypeOK
  <2> QED BY <2>1, <2>2, <2>3 DEF PageEntry
<1>6. \/ pages' = pt
      \/ pages' = Rollback(pt, p) /\ Creates(t, p)
  BY <1>2, <1>4 DEF EvictFailed, Creates
<1>7. /\ pages'[old] = pt[old]
      /\ \A q \in Pages \ {old, p} : pages'[q] = pages[q]
      /\ p # old => \/ pages'[p] = pages[p]
                    \/ Creates(t, p) /\ pages[p].state = "kNonResident"
  BY <1>5, <1>6 DEF Rollback, CanFree, MakeUnused
<1>8. MovesItsPages(t)
  BY <1>2, <1>5, <1>7 DEF MovesItsPages, PageIs
<1>9. StaysCareful(t)
  BY <1>3 DEF StaysCareful, Creates, Uses, Deletes
<1>10. NoOrphanFrames'
  <2>1. \A q \in Pages : pages[q].state = "kResident" /\ pages[q].frame_id # f
                           => pages'[q] = pages[q]
    BY <1>2, <1>7 DEF PageIs
  <2>2. Holds(f, meta[f].page_id)'
    BY <1>3, <1>5, <1>7 DEF Holds, PageIs
  <2> QED BY <1>3, <2>1, <2>2, OrphansElsewhere DEF CarefulInv
<1> QED BY <1>3, <1>8, <1>9, <1>10, CarefulStep DEF StaysTidy, CarefulInv

\* Table pt is the page table once frame f has been vacated for page p.
Vacated(pt, p, f) ==
  /\ pt \in [Pages -> PageEntries]
  /\ \A q \in Pages \ {p} :
       \/ pt[q] = pages[q]
       \/ /\ pages[q].state = "kEvicting" /\ pages[q].frame_id = f
          /\ pt[q].state = "kNonResident"

\* NewPage finds its page as it left it, and publishes it.
LEMMA PublishCareful ==
  ASSUME CarefulInv, NEW t \in Threads, NEW p \in Pages, NEW f \in Frames,
         NEW pt, Vacated(pt, p, f), PublishNewPage(t, p, f, pt),
         pt[p].state = "kNonResident",
         pages[p].state = "kUnused" \/ Creates(t, p)
  PROVE  /\ StaysTidy
         /\ pages' = SetResident(pt, p, f)
         /\ guard' = [guard EXCEPT ![t] = [@ EXCEPT ![p] = f]]
<1>1. /\ pages' = SetResident(pt, p, f)
      /\ guard' = [guard EXCEPT ![t] = [@ EXCEPT ![p] = f]]
  BY DEF PublishNewPage, CanSetResident
<1>2. /\ OnlyThread(t) /\ loc'[t].op = "none"
      /\ meta'[f].page_id = p /\ \A g \in Frames \ {f} : meta'[g] = meta[g]
  BY ThreadReturns DEF PublishNewPage, FrameMeta, CarefulInv, Inv, TypeOK
<1>3. /\ pages'[p].state = "kResident" /\ pages'[p].frame_id = f
      /\ \A q \in Pages \ {p} : pages'[q] = pt[q]
  BY <1>1 DEF SetResident, PageEntry, Vacated
<1>4. pages[p].state \in {"kUnused", "kNonResident"}
  BY DEF CarefulInv, CarefulUse
<1>5. MovesItsPages(t)
  BY <1>3, <1>4 DEF MovesItsPages, Vacated
<1>6. StaysCareful(t)
  BY <1>2 DEF StaysCareful, Creates, Uses, Deletes
<1>7. NoOrphanFrames'
  <2>1. \A q \in Pages : pages[q].state = "kResident" /\ pages[q].frame_id # f
                           => pages'[q] = pages[q]
    BY <1>3, <1>4 DEF Vacated
  <2>2. Holds(f, meta[f].page_id)'
    BY <1>2, <1>3 DEF Holds, PageIs
  <2> QED BY <1>2, <2>1, <2>2, OrphansElsewhere DEF CarefulInv
<1> QED BY <1>1, <1>2, <1>5, <1>6, <1>7, CarefulStep DEF StaysTidy, CarefulInv

\* Once the victim is written back, its frame is vacated for any other page.
LEMMA EvictedVacates ==
  ASSUME Inv, NEW t \in Threads, pc[t] = "evicted", NEW p, p = loc[t].page_id
  PROVE  /\ p \in Pages /\ loc[t].frame_id \in Frames /\ loc[t].old_page_id \in Pages
         /\ PageIs(loc[t].old_page_id, "kEvicting", loc[t].frame_id)
         /\ Vacated(SetNonResident(pages, loc[t].old_page_id), p, loc[t].frame_id)
         /\ p # loc[t].old_page_id =>
              SetNonResident(pages, loc[t].old_page_id)[p] = pages[p]
         /\ SetNonResident(pages, loc[t].old_page_id)[loc[t].old_page_id].state
              = "kNonResident"
<1>1. /\ p \in Pages /\ loc[t].frame_id \in Frames /\ loc[t].old_page_id \in Pages
      /\ PageIs(loc[t].old_page_id, "kEvicting", loc[t].frame_id)
  BY BusyFrames DEF Evicting, Inv, CallsAreWellFormed, WellFormed
<1>2. PageEntry("kNonResident", NoFrame) \in PageEntries
  BY EntryFields DEF PageState
<1> QED BY <1>1, <1>2 DEF Vacated, SetNonResident, PageEntry, PageIs, Inv, TypeOK

\* NewPage ends with its page.
LEMMA NewPageCareful ==
  ASSUME CarefulInv, NEW t \in Threads, NewPageFreeFrame(t) \/ NewPageEvicted(t)
  PROVE  StaysTidy
<1>1. CASE NewPageFreeFrame(t)
  <2>1. PICK p \in NewPageIds(t), f \in Frames \ allocated :
          PublishNewPage(t, p, f, NewPageTable(t, p))
    BY <1>1 DEF NewPageFreeFrame
  <2>2. PICK pt : pt = NewPageTable(t, p)
    OBVIOUS
  <2>3. loc[t].op = "NewPage"
    BY <1>1 DEF NewPageFreeFrame, Locked
  <2>4. Vacated(pt, p, f)
    BY <2>2, <2>3, CarefulId DEF Vacated
  <2> QED BY <2>1, <2>2, <2>3, <2>4, CarefulId, PublishCareful
<1>2. CASE NewPageEvicted(t)
  <2>1. PICK p, f, pt : /\ p = loc[t].page_id /\ f = loc[t].frame_id
                        /\ pt = SetNonResident(pages, loc[t].old_page_id)
    OBVIOUS
  <2>2. /\ pc[t] = "evicted" /\ loc[t].op = "NewPage" /\ Inv
        /\ PublishNewPage(t, p, f, pt)
    BY <1>2, <2>1 DEF NewPageEvicted, CarefulInv
  <2>3. p \in Pages /\ f \in Frames /\ Vacated(pt, p, f)
    BY <2>1, <2>2, EvictedVacates
  <2>4. Creates(t, p) /\ pages[p].state = "kNonResident"
    BY <2>1, <2>2, <2>3 DEF Creates, CarefulInv, CarefulUse
  <2>5. pt[p].state = "kNonResident"
    BY <2>1, <2>2, <2>4, EvictedVacates
  <2> QED BY <2>2, <2>3, <2>4, <2>5, PublishCareful
<1> QED BY <1>1, <1>2

\* FetchPage gets a frame and starts to load its page into it.
LEMMA StartLoadCareful ==
  ASSUME CarefulInv, NEW t \in Threads, NEW p \in Pages, NEW f \in Frames, NEW pt,
         Vacated(pt, p, f), StartLoad(t, p, f, pt), Uses(t, p),
         pages[p].state # "kResident", loc[t].op = "FetchPage"
  PROVE  StaysTidy
<1>1. /\ OnlyThread(t)
      /\ \A g \in Frames \ {f} : meta'[g] = meta[g]
      /\ pages'[p].state = "kLoading"
      /\ \A q \in Pages \ {p} : pages'[q] = pt[q]
  BY StartLoadMoves DEF CarefulInv, Vacated
<1>2. loc'[t].op = "FetchPage" /\ loc'[t].page_id = p
  BY DEF StartLoad, NoCall, CarefulInv, Inv, TypeOK
<1>3. meta'[f].state = "kLoading"
  BY DEF StartLoad, FrameMeta, CarefulInv, Inv, TypeOK
<1>4. MovesItsPages(t)
  BY <1>1 DEF MovesItsPages, Vacated
<1>5. StaysCareful(t)
  BY <1>1, <1>2 DEF StaysCareful, Creates, Uses, Deletes
<1>6. NoOrphanFrames'
  <2>1. \A q \in Pages : pages[q].state = "kResident" /\ pages[q].frame_id # f
                           => pages'[q] = pages[q]
    BY <1>1 DEF Vacated
  <2> QED BY <1>1, <1>3, <2>1, OrphansElsewhere DEF CarefulInv
<1> QED BY <1>1, <1>4, <1>5, <1>6, CarefulStep DEF StaysTidy, CarefulInv

\* FetchPage takes a free frame.
LEMMA FetchFreeFrameCareful ==
  ASSUME CarefulInv, NEW t \in Threads, FetchFreeFrame(t)
  PROVE  StaysTidy
<1>1. PICK p, f : /\ p = loc[t].page_id /\ f \in Frames \ allocated
                  /\ StartLoad(t, p, f, pages)
  BY DEF FetchFreeFrame
<1>2. /\ p \in Pages /\ pages[p].state = "kNonResident" /\ Uses(t, p)
      /\ loc[t].op = "FetchPage"
  BY <1>1 DEF FetchFreeFrame, Locked, CarefulInv, Inv, CallsAreWellFormed, WellFormed,
              Uses
<1>3. Vacated(pages, p, f)
  BY DEF Vacated, CarefulInv, Inv, TypeOK
<1> QED BY <1>1, <1>2, <1>3, StartLoadCareful

\* FetchPage has evicted: it loads its page, or gives the frame back.
LEMMA FetchEvictedCareful ==
  ASSUME CarefulInv, NEW t \in Threads, FetchEvicted(t)
  PROVE  StaysTidy
<1>1. PICK p, f, pt : /\ p = loc[t].page_id /\ f = loc[t].frame_id
                      /\ pt = SetNonResident(pages, loc[t].old_page_id)
  OBVIOUS
<1>2. /\ pc[t] = "evicted" /\ Inv /\ loc[t].op = "FetchPage"
  BY DEF FetchEvicted, CarefulInv
<1>3. /\ p \in Pages /\ f \in Frames /\ Vacated(pt, p, f) /\ Uses(t, p)
      /\ pt[p] = pages[p] \/ (pages[p].state = "kEvicting" /\ pages[p].frame_id = f
                              /\ pt[p].state = "kNonResident")
  BY <1>1, <1>2, EvictedVacates DEF Uses, PageIs
<1>4. CASE StillWanted(pt, p) /\ StartLoad(t, p, f, pt)
  BY <1>2, <1>3, <1>4, StartLoadCareful DEF StillWanted
<1>5. CASE FetchTurn(t, p, pt, [meta EXCEPT ![f] = FreeMeta], {})
  <2>1. pages' = pt
    BY <1>5 DEF FetchTurn
  <2>2. /\ OnlyThread(t)
        /\ \/ loc'[t].op = "none"
           \/ /\ loc'[t].op = "FetchPage" /\ loc'[t].page_id = p
              /\ Transient(pt, p)
    BY <1>2, <1>5, FetchTurnCall DEF Inv
  <2>3. \A q \in Pages : \/ pages'[q] = pages[q]
                         \/ /\ pages[q].state = "kEvicting" /\ pages[q].frame_id = f
                            /\ pages'[q].state = "kNonResident"
    BY <1>3, <2>1 DEF Vacated
  <2>4. MovesItsPages(t)
    BY <2>3 DEF MovesItsPages
  <2>5. StaysCareful(t)
    BY <1>3, <2>1, <2>2, <2>3 DEF StaysCareful, Creates, Uses, Deletes, Transient
  <2>6. /\ meta'[f].state = "kFree"
        /\ \A g \in Frames \ {f} : /\ meta'[g].state = meta[g].state
                                   /\ meta'[g].page_id = meta[g].page_id
    <3> DEFINE mt == [meta EXCEPT ![f] = FreeMeta]
    <3>1. /\ mt \in [Frames -> FrameMetas] /\ mt[f].state = "kFree"
          /\ \A g \in Frames \ {f} : mt[g] = meta[g]
      BY <1>2, <1>3, FreeMetaFields DEF Inv, TypeOK
    <3>2. meta' = mt \/ \E h : meta' = [mt EXCEPT ![h] = Pinned(@)]
      BY <1>5 DEF FetchTurn, Pin
    <3> HIDE DEF mt
    <3>3. \A m \in FrameMetas : Pinned(m).state = m.state /\ Pinned(m).page_id = m.page_id
      BY DEF Pinned, FrameMetas
    <3> QED BY <1>3, <3>1, <3>2, <3>3
  <2>7. NoOrphanFrames'
    BY <2>3, <2>6, OrphansElsewhere DEF CarefulInv
  <2> QED BY <2>2, <2>4, <2>5, <2>7, CarefulStep DEF StaysTidy, CarefulInv
<1> QED BY <1>1, <1>4, <1>5 DEF FetchEvicted

\* Loading ends.
LEMMA LoadEndCareful ==
  ASSUME CarefulInv, NEW t \in Threads, FetchLoaded(t) \/ FetchFailed(t)
  PROVE  StaysTidy
<1>1. Loading(t) /\ Inv
  BY DEF FetchLoaded, FetchFailed, Loading, CarefulInv
<1>2. PICK p \in Pages, f \in Frames :
        /\ p = loc[t].page_id /\ f = loc[t].frame_id
        /\ PageIs(p, "kLoading", f) /\ meta[f].page_id = p
  BY <1>1, BusyFrames
<1>3. /\ OnlyThread(t) /\ loc'[t].op = "none"
      /\ \A g \in Frames \ {f} : meta'[g] = meta[g]
      /\ \A q \in Pages \ {p} : pages'[q] = pages[q]
      /\ \/ /\ meta'[f].page_id = p
            /\ pages'[p].state = "kResident" /\ pages'[p].frame_id = f
         \/ meta'[f].state = "kFree" /\ pages'[p].state = "kNonResident"
  <2>1. CASE FetchLoaded(t)
    BY <1>1, <1>2, <2>1, ThreadReturns DEF FetchLoaded, SetResident, PageEntry, Inv, TypeOK,
       FrameMetas
  <2>2. CASE FetchFailed(t)
    BY <1>1, <1>2, <2>2, ThreadReturns, FreeMetaFields
       DEF FetchFailed, SetNonResident, PageEntry, Inv, TypeOK
  <2> QED BY <2>1, <2>2
<1>4. MovesItsPages(t)
  BY <1>2, <1>3 DEF MovesItsPages, PageIs
<1>5. StaysCareful(t)
  BY <1>3 DEF StaysCareful, Creates, Uses, Deletes
<1>6. NoOrphanFrames'
  <2>1. \A q \in Pages : pages[q].state = "kResident" /\ pages[q].frame_id # f
                           => pages'[q] = pages[q]
    BY <1>2, <1>3 DEF PageIs
  <2>2. meta'[f].state = "kResident" => meta'[f].page_id = p /\ Holds(f, p)'
    BY <1>3 DEF Holds, PageIs
  <2>3. meta'[f].state = "kResident" => Holds(f, meta[f].page_id)'
    BY <2>2 DEF Holds, PageIs
  <2> QED BY <1>3, <2>1, <2>2, <2>3, OrphansElsewhere DEF CarefulInv
<1> QED BY <1>3, <1>4, <1>5, <1>6, CarefulStep DEF StaysTidy, CarefulInv

\* A page is deleted.
LEMMA DeleteCareful ==
  ASSUME CarefulInv, NEW t \in Threads, DeleteResident(t) \/ DeleteNonResident(t)
  PROVE  StaysTidy
<1>1. PICK p : p = loc[t].page_id
  OBVIOUS
<1>2. /\ p \in Pages /\ Deletes(t, p) /\ Inv
      /\ pages[p].state \in {"kResident", "kNonResident"}
  BY <1>1 DEF DeleteResident, DeleteNonResident, Locked, CarefulInv, Inv,
              CallsAreWellFormed, WellFormed, Deletes
<1>3. /\ OnlyThread(t) /\ loc'[t].op = "none"
      /\ \A q \in Pages \ {p} : pages'[q] = pages[q]
  BY <1>1, <1>2, ThreadReturns DEF DeleteResident, DeleteNonResident, MakeUnused,
                                   SetNonResident, Inv, TypeOK
<1>4. MovesItsPages(t)
  BY <1>2, <1>3 DEF MovesItsPages, Deletes, Uses
<1>5. StaysCareful(t)
  BY <1>3 DEF StaysCareful, Creates, Uses, Deletes
<1>6. NoOrphanFrames'
  <2>1. CASE DeleteResident(t)
    <3>1. PICK f \in Frames : /\ f = pages[p].frame_id /\ meta[f].page_id = p
      BY <1>1, <1>2, <2>1, ResidentFrame DEF DeleteResident
    <3>2. /\ meta'[f].state = "kFree"
          /\ \A g \in Frames \ {f} : meta'[g] = meta[g]
      BY <1>1, <1>2, <2>1, <3>1, FreeMetaFields DEF DeleteResident, Inv, TypeOK
    <3> QED BY <1>3, <3>1, <3>2, OrphansElsewhere DEF CarefulInv
  <2>2. CASE DeleteNonResident(t)
    <3>1. meta' = meta /\ pages[p].state = "kNonResident"
      BY <1>1, <2>2 DEF DeleteNonResident
    <3> QED BY <1>3, <3>1, OrphansElsewhere, ConstantFacts DEF CarefulInv
  <2> QED BY <2>1, <2>2
<1> QED BY <1>3, <1>4, <1>5, <1>6, CarefulStep DEF StaysTidy, CarefulInv

-----------------------------------------------------------------------------

\* A careful client is a client.
LEMMA CarefulIsNext == CarefulNext => Next
  BY DEF CarefulNext, Next, CarefulCall

\* Every step of careful clients is tidy.
LEMMA CarefulNextTidy ==
  ASSUME CarefulInv, CarefulNext
  PROVE  StaysTidy
<1>1. PICK t \in Threads :
        \/ CarefulCall(t) \/ Step(t) \/ SpuriousWake(t)
        \/ \E p \in Pages : UseGuard(t, p)
  BY DEF CarefulNext
<1>2. CASE CarefulCall(t)
  BY <1>2, CarefulCallTidy
<1>3. CASE NewPage(t)
  BY <1>3, QuietStepCareful, NewPageCareful, EvictCareful, NewPageIdCareful
     DEF NewPage
<1>4. CASE FetchPage(t)
  BY <1>4, QuietStepCareful, PinCareful, FetchFreeFrameCareful, EvictCareful,
     FetchEvictedCareful, LoadEndCareful DEF FetchPage
<1>5. CASE Evict(t)
  BY <1>5, QuietStepCareful, EvictFailedCareful DEF Evict
<1>6. CASE FlushPage(t)
  BY <1>6, QuietStepCareful, PinCareful DEF FlushPage
<1>7. CASE DeletePage(t)
  BY <1>7, QuietStepCareful, DeleteCareful DEF DeletePage
<1>8. CASE SpuriousWake(t)
  BY <1>8, QuietStepCareful
<1>9. CASE \E p \in Pages : UseGuard(t, p)
  BY <1>9, PinCareful
<1> QED BY <1>1, <1>2, <1>3, <1>4, <1>5, <1>6, <1>7, <1>8, <1>9 DEF Step

\* CarefulInv holds throughout.
LEMMA CarefulInvariance == PinsFit => (CarefulSpec => []CarefulInv)
<1> SUFFICES ASSUME PinsFit PROVE CarefulSpec => []CarefulInv
  OBVIOUS
<1>1. Init => CarefulInv
  <2>1. Init => CarefulUse
    BY DEF Init, CarefulUse, Creates, Uses, Deletes, NoCall
  <2>2. Init => NoOrphanFrames
    BY FreeMetaFields DEF Init, NoOrphanFrames
  <2> QED BY <2>1, <2>2, InitInv DEF CarefulInv
<1>2. CarefulInv /\ [CarefulNext]_vars => CarefulInv'
  <2>1. CarefulInv /\ CarefulNext => CarefulInv'
    BY NextInv, CarefulIsNext, CarefulNextTidy DEF CarefulInv, StaysTidy
  <2>2. CarefulInv /\ UNCHANGED vars => CarefulInv'
    <3>1. CarefulUse /\ UNCHANGED vars => CarefulUse'
      BY DEF vars, CarefulUse, Creates, Uses, Deletes
    <3>2. NoOrphanFrames /\ UNCHANGED vars => NoOrphanFrames'
      BY DEF vars, NoOrphanFrames, Holds, PageIs
    <3> QED BY <3>1, <3>2, StutterInv DEF CarefulInv
  <2> QED BY <2>1, <2>2
<1> QED BY <1>1, <1>2, PTL DEF CarefulSpec

\* For careful clients a resident frame is always the frame of its page: no
\* frame stays allocated and pinned for no one.
THEOREM NoFrameIsOrphaned == PinsFit => (CarefulSpec => []NoOrphanFrames)
<1>1. CarefulInv => NoOrphanFrames
  BY DEF CarefulInv
<1> QED BY <1>1, CarefulInvariance, PTL

\* When no frame is available, every frame has somebody who relies on it.
LEMMA NoFrameMeansHeld ==
  ASSUME CarefulInv, NoFrameAvailable, NEW f \in Frames
  PROVE  Holders(f) # {}
<1>1. Inv
  BY DEF CarefulInv
<1>2. meta[f].state = "kResident"
  <2>1. meta[f].state \in FrameState /\ meta[f].state # "kFree"
    BY <1>1 DEF NoFrameAvailable, Inv, TypeOK, FrameMetas, TablesAgree
  <2> QED BY <2>1 DEF NoFrameAvailable, HasTransientFrame, FrameState
<1>3. PICK p \in Pages : p = meta[f].page_id /\ Holds(f, p)
  BY <1>1, <1>2 DEF CarefulInv, NoOrphanFrames, Inv, TypeOK, FrameMetas
<1>4. f \in present /\ f \notin evictable
  BY <1>1, <1>3 DEF Inv, ReplacerIsExact, NoFrameAvailable
<1>5. meta[f].pin_count # 0
  BY <1>1, <1>4 DEF Inv, ReplacerIsExact
<1>6. meta[f].pin_count = Cardinality(Holders(f))
  BY <1>1, <1>3 DEF Inv, PinsAreExact, Holds, PageIs
<1> QED BY <1>5, <1>6, FS_EmptySet

\* "no frame available" is thrown only when guards and flushes hold every
\* frame.
THEOREM NoFrameIsLost == PinsFit => (CarefulSpec => OutOfFramesIsTrue)
<1> SUFFICES ASSUME PinsFit PROVE CarefulSpec => OutOfFramesIsTrue
  OBVIOUS
<1>1. CarefulInv /\ [CarefulNext]_vars =>
        [\A t \in Threads : NewPageNoFrame(t) \/ FetchNoFrame(t) =>
           \A f \in Frames : Holders(f) # {}]_vars
  BY NoFrameMeansHeld DEF NewPageNoFrame, FetchNoFrame
<1> QED BY <1>1, CarefulInvariance, PTL DEF CarefulSpec, OutOfFramesIsTrue

-----------------------------------------------------------------------------
(* The store of pages that careful clients see.  Each step is one of the   *)
(* store's, or changes nothing that shows.                                 *)

Guarded(t, p) == guard[t][p] # NoFrame

Pending(p) == InFrame(p) /\ pages[p].frame_id \in unmarked

\* Thread t has written back page p, or need not.
Settled(t, p) == pc[t] = "evicted" /\ loc[t].old_page_id = p

\* Page q looks the same.
SameView(q) ==
  ClientContent(q)' = ClientContent(q) /\ (Pending(q)' <=> Pending(q))

SameGuards == \A u \in Threads, q \in Pages : Guarded(u, q)' <=> Guarded(u, q)

\* What thread t gets or gives up for page p.
GuardGained(t, p) ==
  \A u \in Threads, q \in Pages :
    Guarded(u, q)' <=> Guarded(u, q) \/ (u = t /\ q = p)

GuardLost(t, p) ==
  \A u \in Threads, q \in Pages :
    Guarded(u, q)' <=> Guarded(u, q) /\ ~(u = t /\ q = p)

\* What shows of a step is a step of the store, or nothing.
Seen == Store!Next \/ UNCHANGED Store!vars

\* The guards as the store's held.
ViewHeld == {h \in Threads \X Pages : guard[h[1]][h[2]] # NoFrame}

ViewPending == {p \in Pages : InFrame(p) /\ pages[p].frame_id \in unmarked}

ViewContent == [p \in Pages |-> ClientContent(p)]

\* The set of guards, by its members.
LEMMA HeldMembers ==
  /\ \A t \in Threads, p \in Pages : <<t, p>> \in ViewHeld <=> Guarded(t, p)
  /\ \A t \in Threads, p \in Pages : <<t, p>> \in ViewHeld' <=> Guarded(t, p)'
  /\ SameGuards => ViewHeld' = ViewHeld
  /\ \A t \in Threads, p \in Pages :
       /\ GuardGained(t, p) => ViewHeld' = ViewHeld \cup {<<t, p>>}
       /\ GuardLost(t, p) => ViewHeld' = ViewHeld \ {<<t, p>>}
<1>1. /\ \A t \in Threads, p \in Pages : <<t, p>> \in ViewHeld <=> Guarded(t, p)
      /\ \A t \in Threads, p \in Pages : <<t, p>> \in ViewHeld' <=> Guarded(t, p)'
  BY DEF ViewHeld, Guarded
<1>2. /\ ViewHeld \subseteq Threads \X Pages
      /\ ViewHeld' \subseteq Threads \X Pages
  BY DEF ViewHeld
<1>3. SameGuards => ViewHeld' = ViewHeld
  BY <1>1, <1>2 DEF SameGuards
<1>4. ASSUME NEW t \in Threads, NEW p \in Pages
      PROVE  /\ GuardGained(t, p) => ViewHeld' = ViewHeld \cup {<<t, p>>}
             /\ GuardLost(t, p) => ViewHeld' = ViewHeld \ {<<t, p>>}
  <2>1. GuardGained(t, p) => ViewHeld' = ViewHeld \cup {<<t, p>>}
    BY <1>1, <1>2 DEF GuardGained
  <2>2. GuardLost(t, p) => ViewHeld' = ViewHeld \ {<<t, p>>}
    BY <1>1, <1>2 DEF GuardLost
  <2> QED BY <2>1, <2>2
<1> QED BY <1>1, <1>3, <1>4

\* The pending pages and the contents, by their members.
LEMMA ViewMembers ==
  /\ \A p : p \in ViewPending <=> p \in Pages /\ Pending(p)
  /\ \A p : p \in ViewPending' <=> p \in Pages /\ Pending(p)'
  /\ ViewContent = [p \in Pages |-> ClientContent(p)]
  /\ ViewContent' = [p \in Pages |-> ClientContent(p)']
  BY DEF ViewPending, Pending, ViewContent

\* Nothing shows.
LEMMA SeenNothing ==
  ASSUME \A q \in Pages : SameView(q), SameGuards
  PROVE  Seen
<1>1. ViewHeld' = ViewHeld
  BY HeldMembers
<1>2. ViewContent' = ViewContent
  BY ViewMembers DEF SameView
<1>3. ViewPending' = ViewPending
  BY ViewMembers DEF SameView
<1> QED BY <1>1, <1>2, <1>3 DEF Seen, Store!vars, ViewHeld, ViewContent, ViewPending

\* A page is created.
LEMMA SeenCreate ==
  ASSUME NEW t \in Threads, NEW p \in Pages, GuardGained(t, p),
         ClientContent(p) = NoPage, ClientContent(p)' = ZeroPage,
         ~Pending(p), ~Pending(p)',
         \A q \in Pages \ {p} : SameView(q)
  PROVE  Seen
<1>1. ViewHeld' = ViewHeld \cup {<<t, p>>}
  BY HeldMembers
<1>2. ViewContent[p] = NoPage /\ ViewContent' = [ViewContent EXCEPT ![p] = ZeroPage]
  BY ViewMembers DEF SameView
<1>3. ViewPending' = ViewPending
  BY ViewMembers DEF SameView
<1>4. Store!Create(t, p)
  BY <1>1, <1>2, <1>3 DEF Store!Create, ViewHeld, ViewContent, ViewPending
<1> QED BY <1>4 DEF Seen, Store!Next

\* A guard for a page is obtained or given up.
LEMMA SeenGuard ==
  ASSUME NEW t \in Threads, NEW p \in Pages, \A q \in Pages : SameView(q),
         \/ GuardGained(t, p) /\ ClientContent(p) # NoPage
         \/ GuardLost(t, p) /\ Guarded(t, p)
  PROVE  Seen
<1>1. ViewContent' = ViewContent /\ ViewPending' = ViewPending
  BY ViewMembers DEF SameView
<1>2. CASE GuardGained(t, p) /\ ClientContent(p) # NoPage
  <2>1. ViewHeld' = ViewHeld \cup {<<t, p>>}
    BY <1>2, HeldMembers
  <2>2. ViewContent[p] # NoPage
    BY <1>2, ViewMembers
  <2>3. Store!Acquire(t, p)
    BY <1>1, <2>1, <2>2 DEF Store!Acquire, ViewHeld, ViewContent, ViewPending
  <2> QED BY <2>3 DEF Seen, Store!Next
<1>3. CASE GuardLost(t, p) /\ Guarded(t, p)
  <2>1. <<t, p>> \in ViewHeld /\ ViewHeld' = ViewHeld \ {<<t, p>>}
    BY <1>3, HeldMembers
  <2>2. Store!Release(t, p)
    BY <1>1, <2>1 DEF Store!Release, ViewHeld, ViewContent, ViewPending
  <2> QED BY <2>2 DEF Seen, Store!Next
<1> QED BY <1>2, <1>3

\* A page is written, or marked.
LEMMA SeenWrite ==
  ASSUME NEW t \in Threads, NEW p \in Pages, Guarded(t, p), SameGuards,
         \A q \in Pages \ {p} : SameView(q),
         \/ ClientContent(p)' \in Content /\ Pending(p)'
         \/ ClientContent(p)' = ClientContent(p) /\ ~Pending(p)'
  PROVE  Seen
<1>1. <<t, p>> \in ViewHeld /\ ViewHeld' = ViewHeld
  BY HeldMembers
<1>2. CASE ClientContent(p)' \in Content /\ Pending(p)'
  <2>1. PICK c \in Content : c = ClientContent(p)'
    BY <1>2
  <2>2. ViewContent' = [ViewContent EXCEPT ![p] = c]
    BY <2>1, ViewMembers DEF SameView
  <2>3. ViewPending' = ViewPending \cup {p}
    BY <1>2, ViewMembers DEF SameView
  <2>4. Store!Write(t, p, c)
    BY <1>1, <2>2, <2>3 DEF Store!Write, ViewHeld, ViewContent, ViewPending
  <2> QED BY <2>4 DEF Seen, Store!Next
<1>3. CASE ClientContent(p)' = ClientContent(p) /\ ~Pending(p)'
  <2>1. ViewContent' = ViewContent
    BY <1>3, ViewMembers DEF SameView
  <2>2. ViewPending' = ViewPending \ {p}
    BY <1>3, ViewMembers DEF SameView
  <2>3. Store!Mark(t, p)
    BY <1>1, <2>1, <2>2 DEF Store!Mark, ViewHeld, ViewContent, ViewPending
  <2> QED BY <2>3 DEF Seen, Store!Next
<1> QED BY <1>2, <1>3

\* A pending page that nobody holds loses what was written, or keeps it; a
\* page that nobody holds is deleted.
LEMMA SeenForget ==
  ASSUME NEW p \in Pages, \A t \in Threads : ~Guarded(t, p), SameGuards,
         \A q \in Pages \ {p} : SameView(q), ~Pending(p)',
         \/ Pending(p) /\ ClientContent(p)' \in Content
         \/ ClientContent(p) # NoPage /\ ClientContent(p)' = NoPage
  PROVE  Seen
<1>1. \A t \in Threads : <<t, p>> \notin ViewHeld
  BY HeldMembers
<1>2. ViewHeld' = ViewHeld
  BY HeldMembers
<1>3. ViewPending' = ViewPending \ {p}
  BY ViewMembers DEF SameView
<1>4. CASE Pending(p) /\ ClientContent(p)' \in Content
  <2>1. PICK c \in Content : c = ClientContent(p)'
    BY <1>4
  <2>2. ViewContent' = [ViewContent EXCEPT ![p] = c]
    BY <2>1, ViewMembers DEF SameView
  <2>3. p \in ViewPending
    BY <1>4, ViewMembers
  <2>4. Store!Forget(p, c)
    BY <1>1, <1>2, <1>3, <2>2, <2>3
       DEF Store!Forget, Store!IsHeld, ViewHeld, ViewContent, ViewPending
  <2> QED BY <2>4 DEF Seen, Store!Next
<1>5. CASE ClientContent(p) # NoPage /\ ClientContent(p)' = NoPage
  <2>1. ViewContent[p] # NoPage /\ ViewContent' = [ViewContent EXCEPT ![p] = NoPage]
    BY <1>5, ViewMembers DEF SameView
  <2>2. Store!Delete(p)
    BY <1>1, <1>2, <1>3, <2>1
       DEF Store!Delete, Store!IsHeld, ViewHeld, ViewContent, ViewPending
  <2> QED BY <2>2 DEF Seen, Store!Next
<1> QED BY <1>4, <1>5

-----------------------------------------------------------------------------
(* What shows of a page in each state.                                     *)

\* A frame that has been read into has no unmarked change of a client's.
LoadedIsMarked ==
  \A t \in Threads : pc[t] = "loaded" => loc[t].frame_id \notin unmarked

\* What the refinement rests on.
ViewInv == CarefulInv /\ ContentsInv /\ LoadedIsMarked

\* What a page contains and whether it is pending, by its state ...
LEMMA ViewOf ==
  ASSUME CarefulUse, NEW q \in Pages
  PROVE  /\ pages[q].state = "kUnused" \/ BeingCreated(q) =>
              ClientContent(q) = NoPage /\ ~Pending(q)
         /\ pages[q].state \in {"kNonResident", "kLoading"} /\ ~BeingCreated(q) =>
              ClientContent(q) = disk[q] /\ ~Pending(q)
         /\ pages[q].state = "kEvicting" /\ IsSettled(q) =>
              ClientContent(q) = disk[q] /\ ~Pending(q)
         /\ \/ pages[q].state = "kResident"
            \/ pages[q].state = "kEvicting" /\ ~IsSettled(q)
            => /\ ClientContent(q) = image[pages[q].frame_id]
               /\ Pending(q) <=> pages[q].frame_id \in unmarked
<1>1. BeingCreated(q) => pages[q].state = "kNonResident"
  BY DEF BeingCreated, CarefulUse, Creates
<1> QED BY <1>1 DEF ClientContent, Pending, InFrame

\* ... and the same after a step.
LEMMA NextViewOf ==
  ASSUME CarefulUse', NEW q \in Pages
  PROVE  /\ pages'[q].state = "kUnused" \/ BeingCreated(q)' =>
              ClientContent(q)' = NoPage /\ ~Pending(q)'
         /\ pages'[q].state \in {"kNonResident", "kLoading"} /\ ~BeingCreated(q)' =>
              ClientContent(q)' = disk'[q] /\ ~Pending(q)'
         /\ pages'[q].state = "kEvicting" /\ IsSettled(q)' =>
              ClientContent(q)' = disk'[q] /\ ~Pending(q)'
         /\ \/ pages'[q].state = "kResident"
            \/ pages'[q].state = "kEvicting" /\ ~IsSettled(q)'
            => /\ ClientContent(q)' = image'[pages'[q].frame_id]
               /\ Pending(q)' <=> pages'[q].frame_id \in unmarked'
<1>1. BeingCreated(q)' => pages'[q].state = "kNonResident"
  BY DEF BeingCreated, CarefulUse, Creates
<1> QED BY <1>1 DEF ClientContent, Pending, InFrame

\* Who settles or creates pages when thread t moves.
LEMMA SettledAndCreated ==
  ASSUME NEW t \in Threads, OnlyThread(t), NEW q
  PROVE  /\ (Settled(t, q)' <=> Settled(t, q)) => (IsSettled(q)' <=> IsSettled(q))
         /\ Settled(t, q)' => IsSettled(q)'
         /\ IsSettled(q)' => IsSettled(q) \/ Settled(t, q)'
         /\ (Creates(t, q)' <=> Creates(t, q)) => (BeingCreated(q)' <=> BeingCreated(q))
         /\ Creates(t, q)' => BeingCreated(q)'
         /\ BeingCreated(q)' => BeingCreated(q) \/ Creates(t, q)'
  BY DEF OnlyThread, IsSettled, Settled, BeingCreated, Creates

\* A page that thread t has nothing to do with looks the same.
LEMMA Undisturbed ==
  ASSUME NEW t \in Threads, OnlyThread(t), NEW q \in Pages, pages'[q] = pages[q],
         Settled(t, q)' <=> Settled(t, q), Creates(t, q)' <=> Creates(t, q),
         InFrame(q) => /\ image'[pages[q].frame_id] = image[pages[q].frame_id]
                       /\ pages[q].frame_id \in unmarked' <=> pages[q].frame_id \in unmarked,
         ~InFrame(q) => disk'[q] = disk[q]
  PROVE  SameView(q)
<1>1. (IsSettled(q)' <=> IsSettled(q)) /\ (BeingCreated(q)' <=> BeingCreated(q))
  BY SettledAndCreated
<1>2. InFrame(q)' <=> InFrame(q)
  BY <1>1 DEF InFrame
<1> QED BY <1>1, <1>2 DEF SameView, ClientContent, Pending

\* A settled page is on its way out, and settled by the call that evicts it.
SettledByOne ==
  \A q \in Pages :
    /\ IsSettled(q) => pages[q].state = "kEvicting"
    /\ \A t \in Threads : Evicting(t) /\ loc[t].old_page_id = q =>
         (IsSettled(q) <=> pc[t] = "evicted")

\* SettledByOne follows from the invariant.
LEMMA SettledFacts == Inv => SettledByOne
<1> SUFFICES ASSUME Inv, NEW q \in Pages
             PROVE  /\ IsSettled(q) => pages[q].state = "kEvicting"
                    /\ \A t \in Threads : Evicting(t) /\ loc[t].old_page_id = q =>
                         (IsSettled(q) <=> pc[t] = "evicted")
  BY DEF SettledByOne
<1>1. \A u \in Threads : Evicting(u) /\ loc[u].old_page_id = q =>
        /\ pages[q].state = "kEvicting" /\ pages[q].frame_id = loc[u].frame_id
        /\ Moving(u)
  BY BusyFrames DEF PageIs, Moving
<1>2. ASSUME NEW t \in Threads, Evicting(t), loc[t].old_page_id = q,
             NEW u \in Threads, Evicting(u), loc[u].old_page_id = q
      PROVE  t = u
  <2>1. Exclusive(t, u)
    BY DEF Inv, TransferIsExclusive
  <2>2. Moving(t) /\ Moving(u) /\ loc[t].frame_id = loc[u].frame_id
    BY <1>1, <1>2
  <2> QED BY <2>1, <2>2 DEF Exclusive
<1>3. \A u \in Threads : pc[u] = "evicted" => Evicting(u)
  BY DEF Evicting
<1> QED BY <1>1, <1>2, <1>3 DEF IsSettled

\* The same after a step.
LEMMA NextSettledFacts == Inv' => SettledByOne'
  BY SettledFacts, PTL

\* A page with contents exists for the clients.
LEMMA ContentExists ==
  ASSUME ViewInv, NEW q \in Pages, pages[q].state # "kUnused", ~BeingCreated(q)
  PROVE  ClientContent(q) # NoPage
<1>1. disk[q] \in Content /\ \A f \in Frames : image[f] \in Content
  BY DEF ViewInv, CarefulInv, Inv, TypeOK
<1>2. InFrame(q) => pages[q].frame_id \in Frames
  BY DEF InFrame, ViewInv, CarefulInv, Inv, TablesAgree
<1> QED BY <1>1, <1>2, AbsentIsNoContent DEF ClientContent

\* A page that is in memory, or used by a careful client, is not being
\* created.
LEMMA NotBeingCreated ==
  ASSUME CarefulUse, NEW q \in Pages
  PROVE  /\ pages[q].state # "kNonResident" => ~BeingCreated(q)
         /\ \A t \in Threads : Uses(t, q) => ~BeingCreated(q)
  BY DEF CarefulUse, BeingCreated, Creates

\* Steps that change no page, image or guard.
LEMMA QuietSeen ==
  ASSUME NEW t \in Threads, OnlyThread(t), UNCHANGED <<pages, image, unmarked, guard>>,
         \A q \in Pages : /\ Settled(t, q)' <=> Settled(t, q)
                          /\ Creates(t, q)' <=> Creates(t, q)
                          /\ ~InFrame(q) => disk'[q] = disk[q]
  PROVE  Seen
<1>1. \A q \in Pages : SameView(q)
  BY Undisturbed
<1>2. SameGuards
  BY DEF SameGuards, Guarded
<1> QED BY <1>1, <1>2, SeenNothing

\* Calling, waking, waiting, returning without effect, and flushing.
LEMMA QuietStepSeen ==
  ASSUME ViewInv, NEW t \in Threads,
         \/ CarefulCall(t) \/ SpuriousWake(t) \/ NewPageNoId(t) \/ FetchNoFrame(t)
         \/ FlushUnused(t) \/ DeleteRefused(t) \/ FlushAllList(t)
         \/ FlushNothing(t) \/ FetchWait(t) \/ FlushWait(t) \/ DeleteWait(t)
         \/ FlushStart(t) \/ FlushWrite(t) \/ FlushDone(t) \/ FlushFailed(t)
  PROVE  Seen
<1>1. UNCHANGED <<pages, image, unmarked, guard>>
  BY DEF CarefulCall, Call, BeginCall, SpuriousWake, NewPageNoId, FetchNoFrame,
         FlushUnused, DeleteRefused, FlushAllList, FlushNothing, FetchWait, FlushWait,
         DeleteWait, FlushStart, FlushWrite, FlushDone, FlushFailed
<1>2. TypeOK /\ Inv
  BY DEF ViewInv, CarefulInv, Inv
<1>3. /\ OnlyThread(t)
      /\ \/ UNCHANGED <<pc, loc>>
         \/ /\ pc[t] # "evicted" /\ pc'[t] # "evicted"
            /\ loc[t].op # "NewPage" \/ loc[t].page_id = NoPage
            /\ loc'[t].op # "NewPage" \/ loc'[t].page_id = NoPage
  <2>1. CASE CarefulCall(t)
    <3>1. PICK op, p : BeginCall(t, op, p) /\ (op = "NewPage" => p = NoPage)
      BY <2>1 DEF CarefulCall, Call
    <3>2. /\ loc'[t].op = op /\ loc'[t].page_id = p /\ pc'[t] = "lock"
          /\ OnlyThread(t) /\ pc[t] = "idle"
      BY <1>2, <3>1 DEF BeginCall, Goto, NoCall, OnlyThread, TypeOK
    <3>3. loc[t].op = "none"
      BY <1>2, <3>2 DEF Inv, CallsAreWellFormed, WellFormed
    <3> QED BY <3>1, <3>2, <3>3
  <2>2. CASE NewPageNoId(t)
    <3>1. loc[t].page_id = NoPage /\ pc[t] = "lock"
      BY <2>2 DEF NewPageNoId, NewPageIds, Locked
    <3> QED BY <1>2, <2>2, <3>1, ThreadReturns DEF NewPageNoId
  <2>3. CASE FetchNoFrame(t) \/ FlushUnused(t) \/ DeleteRefused(t)
    BY <1>2, <2>3, ThreadReturns
       DEF FetchNoFrame, FlushUnused, FlushLocked, DeleteRefused, Locked
  <2>4. CASE FlushAllList(t) \/ FlushNothing(t) \/ FlushDone(t)
    <3>1. PICK todo : FlushNext(t, todo)
      BY <2>4 DEF FlushAllList, FlushNothing, FlushDone
    <3>2. pc'[t] \in {"idle", "lock"}
      BY <1>2, <3>1 DEF FlushNext, Return, Goto, TypeOK
    <3>3. pc[t] # "evicted" /\ loc[t].op # "NewPage"
      BY <1>2, <2>4 DEF FlushAllList, FlushNothing, FlushLocked, FlushDone, Locked, Inv,
                        CallsAreWellFormed, WellFormed, Flushing
    <3> QED BY <1>2, <3>1, <3>2, <3>3, FlushNextCall
  <2>5. CASE FetchWait(t) \/ FlushWait(t) \/ DeleteWait(t) \/ SpuriousWake(t)
    BY <2>5 DEF FetchWait, FlushWait, DeleteWait, SpuriousWake, Wait, OnlyThread
  <2>6. CASE FlushStart(t)
    BY <1>2, <2>6 DEF FlushStart, FlushLocked, Locked, Goto, OnlyThread, TypeOK, Locals
  <2>7. CASE FlushWrite(t)
    <3>1. pc[t] = "flushWrite" /\ loc[t].op # "NewPage"
      BY <1>2, <2>7 DEF FlushWrite, Inv, CallsAreWellFormed, WellFormed, Flushing
    <3> QED BY <1>2, <2>7, <3>1 DEF FlushWrite, Goto, OnlyThread, TypeOK
  <2>8. CASE FlushFailed(t)
    <3>1. pc[t] = "flushFailed" /\ loc[t].op # "NewPage"
      BY <1>2, <2>8 DEF FlushFailed, Inv, CallsAreWellFormed, WellFormed, Flushing
    <3> QED BY <1>2, <2>8, <3>1, ThreadReturns DEF FlushFailed
  <2> QED BY <2>1, <2>2, <2>3, <2>4, <2>5, <2>6, <2>7, <2>8
<1>4. ASSUME NEW q \in Pages, ~InFrame(q) PROVE disk'[q] = disk[q]
  <2>1. CASE FlushWrite(t)
    <3>1. PICK p \in Pages : p = loc[t].page_id /\ pages[p].state = "kResident"
      BY <1>2, <2>1, BusyFrames DEF FlushWrite, Flushing, Holds, PageIs
    <3>2. p # q
      BY <1>4, <3>1 DEF InFrame
    <3> QED BY <1>2, <2>1, <3>1, <3>2 DEF FlushWrite, TypeOK
  <2>2. CASE ~FlushWrite(t)
    BY <2>2 DEF CarefulCall, Call, BeginCall, SpuriousWake, NewPageNoId, FetchNoFrame,
         FlushUnused, DeleteRefused, FlushAllList, FlushNothing, FetchWait, FlushWait,
         DeleteWait, FlushStart, FlushDone, FlushFailed
  <2> QED BY <2>1, <2>2
<1>5. \A q \in Pages : /\ Settled(t, q)' <=> Settled(t, q)
                       /\ Creates(t, q)' <=> Creates(t, q)
  BY <1>3, ConstantFacts DEF Settled, Creates
<1> QED BY <1>1, <1>3, <1>4, <1>5, QuietSeen

-----------------------------------------------------------------------------
(* The steps of the acquire code.                                          *)

\* NewPage takes an id and sleeps, or gives it back: the page does not exist
\* before NewPage returns it.
LEMMA NewPageIdSeen ==
  ASSUME ViewInv, CarefulInv', NEW t \in Threads, NewPageWait(t) \/ NewPageNoFrame(t)
  PROVE  Seen
<1>1. /\ loc[t].op = "NewPage" /\ pc[t] = "lock"
      /\ UNCHANGED <<image, disk, unmarked, guard>>
  BY DEF NewPageWait, NewPageNoFrame, Locked
<1>2. PICK p \in NewPageIds(t) :
        /\ OnlyThread(t) /\ pc'[t] \in {"idle", "lock"}
        /\ \/ /\ pages' = NewPageTable(t, p)
              /\ loc'[t].op = "NewPage" /\ loc'[t].page_id = p
           \/ /\ pages' = Rollback(NewPageTable(t, p), p)
              /\ loc'[t].op = "none"
  <2>1. CASE NewPageWait(t)
    BY <1>1, <2>1 DEF NewPageWait, OnlyThread, ViewInv, CarefulInv, Inv, TypeOK, Locals
  <2>2. CASE NewPageNoFrame(t)
    BY <2>2, ThreadReturns DEF NewPageNoFrame, ViewInv, CarefulInv, Inv
  <2> QED BY <2>1, <2>2
<1>3. PICK pt : pt = NewPageTable(t, p)
  OBVIOUS
<1>4. /\ p \in Pages /\ pt \in [Pages -> PageEntries]
      /\ pt[p].state = "kNonResident"
      /\ pages[p].state = "kUnused" \/ Creates(t, p)
      /\ \A q \in Pages \ {p} : pt[q] = pages[q] /\ ~Creates(t, q)
  BY <1>1, <1>3, CarefulId DEF ViewInv
<1>5. \A q \in Pages \ {p} : pages'[q] = pages[q] /\ ~Creates(t, q)'
  BY <1>2, <1>3, <1>4 DEF Rollback, MakeUnused, Creates
<1>6. pages'[p].state = "kUnused" \/ BeingCreated(p)'
  BY <1>2, <1>3, <1>4 DEF Rollback, CanFree, MakeUnused, UnusedEntry, PageEntry,
                          BeingCreated
<1>7. SameView(p)
  <2>1. pages[p].state = "kUnused" \/ BeingCreated(p)
    BY <1>4 DEF BeingCreated, Creates
  <2> QED BY <1>4, <1>6, <2>1, ViewOf, NextViewOf DEF ViewInv, CarefulInv, SameView
<1>8. \A q \in Pages \ {p} : SameView(q)
  BY <1>1, <1>2, <1>4, <1>5, Undisturbed DEF Settled
<1>9. SameGuards
  BY <1>1 DEF SameGuards, Guarded
<1> QED BY <1>7, <1>8, <1>9, SeenNothing

\* A call starts to evict.  A victim that is dirty stays in its frame until it
\* has been written; a clean one is what the file has, unless a client never
\* marked what it wrote.
LEMMA StartEvictionSeen ==
  ASSUME ViewInv, CarefulInv', NEW t \in Threads, NEW p \in Pages, NEW f \in evictable,
         NEW pt \in [Pages -> PageEntries], StartEviction(t, p, f, pt),
         pc[t] = "lock",
         \A q \in Pages \ {p} : pt[q] = pages[q] /\ ~Creates(t, q),
         \/ /\ loc[t].op = "NewPage"
            /\ pages[p].state = "kUnused" \/ Creates(t, p)
         \/ loc[t].op = "FetchPage" /\ loc[t].page_id = p /\ pt = pages
  PROVE  Seen
<1>1. Inv /\ Inv' /\ CarefulUse /\ CarefulUse'
  BY DEF ViewInv, CarefulInv
<1>2. PICK old \in Pages :
        /\ f \in Frames /\ old = meta[f].page_id /\ Holds(f, old)
        /\ meta[f].dirty \in BOOLEAN
  BY <1>1, EvictableFrame DEF FrameMetas
<1>3. /\ pages[old].state = "kResident" /\ pages[old].frame_id = f
      /\ ~BeingCreated(old)
  BY <1>1, <1>2, NotBeingCreated DEF Holds, PageIs
<1>4. loc[t].op = "NewPage" => old # p
  BY <1>3 DEF BeingCreated, Creates
<1>5. /\ pages'[old].state = "kEvicting" /\ pages'[old].frame_id = f
      /\ \A q \in Pages \ {old} : pages'[q] = pt[q]
  BY <1>2, <1>3, <1>4 DEF StartEviction, SetEvicting, PageEntry
<1>6. /\ OnlyThread(t) /\ loc'[t].op = loc[t].op /\ loc'[t].page_id = p
      /\ loc'[t].old_page_id = old /\ pc'[t] = WriteBack(meta[f].dirty)
      /\ UNCHANGED <<image, disk, unmarked, guard>>
  BY <1>1, <1>2 DEF StartEviction, Goto, OnlyThread, Inv, TypeOK, Locals
<1>7. \A q \in Pages \ {old} : Settled(t, q)' <=> Settled(t, q)
  BY <1>6 DEF Settled
<1>8. ASSUME NEW q \in Pages, q # old, q # p \/ loc[t].op = "FetchPage"
      PROVE  SameView(q)
  BY <1>5, <1>6, <1>7, <1>8, Undisturbed DEF Creates
<1>9. ASSUME loc[t].op = "NewPage" PROVE SameView(p)
  <2>1. pages[p].state = "kUnused" \/ BeingCreated(p)
    BY <1>9 DEF BeingCreated, Creates
  <2>2. BeingCreated(p)'
    BY <1>6, <1>9 DEF BeingCreated
  <2> QED BY <1>1, <2>1, <2>2, ViewOf, NextViewOf DEF SameView
<1>10. \A q \in Pages \ {old} : SameView(q)
  BY <1>8, <1>9
<1>11. SameGuards
  BY <1>6 DEF SameGuards, Guarded
<1>12. /\ ClientContent(old) = image[f] /\ (Pending(old) <=> f \in unmarked)
       /\ \A u \in Threads : ~Guarded(u, old)
  <2>1. Holders(f) = {}
    BY <1>1, EvictableFrame
  <2>2. \A u \in Threads : guard[u][old] # f
    BY <1>1, <1>2, <2>1, UnheldHasNoGuard
  <2>3. \A u \in Threads : ~Guarded(u, old)
    BY <1>1, <1>3, <2>2 DEF Guarded, Inv, GuardsAreSafe, Holds, PageIs
  <2> QED BY <1>1, <1>3, <2>3, ViewOf
<1>13. Evicting(t)'
  BY <1>6 DEF Evicting, WriteBack
<1>14. CASE meta[f].dirty
  <2>1. ~IsSettled(old)'
    BY <1>1, <1>6, <1>13, <1>14, NextSettledFacts DEF WriteBack, SettledByOne
  <2>2. SameView(old)
    BY <1>1, <1>5, <1>6, <1>12, <2>1, NextViewOf DEF SameView
  <2> QED BY <1>10, <1>11, <2>2, SeenNothing
<1>15. CASE ~meta[f].dirty
  <2>1. IsSettled(old)'
    BY <1>6, <1>15 DEF WriteBack, IsSettled
  <2>2. ClientContent(old)' = disk[old] /\ ~Pending(old)'
    BY <1>1, <1>5, <1>6, <2>1, NextViewOf
  <2>3. CASE f \in unmarked
    <3>1. disk[old] \in Content
      BY <1>1 DEF Inv, TypeOK
    <3> QED BY <1>10, <1>11, <1>12, <2>2, <2>3, <3>1, SeenForget
  <2>4. CASE f \notin unmarked
    <3>1. image[f] = disk[old]
      BY <1>3, <1>15, <2>4, ContentParts DEF CleanPage, ViewInv, CarefulInv
    <3>2. SameView(old)
      BY <1>12, <2>2, <2>4, <3>1 DEF SameView
    <3> QED BY <1>10, <1>11, <3>2, SeenNothing
  <2> QED BY <2>3, <2>4
<1> QED BY <1>2, <1>14, <1>15

\* NewPage or FetchPage starts an eviction.
LEMMA EvictSeen ==
  ASSUME ViewInv, CarefulInv', NEW t \in Threads, NewPageEvict(t) \/ FetchEvict(t)
  PROVE  Seen
<1>1. CASE NewPageEvict(t)
  <2>1. PICK p \in NewPageIds(t), f \in evictable :
          StartEviction(t, p, f, NewPageTable(t, p))
    BY <1>1 DEF NewPageEvict
  <2>2. PICK pt : pt = NewPageTable(t, p)
    OBVIOUS
  <2>3. loc[t].op = "NewPage" /\ pc[t] = "lock" /\ CarefulInv
    BY <1>1 DEF NewPageEvict, Locked, ViewInv
  <2> QED BY <2>1, <2>2, <2>3, CarefulId, StartEvictionSeen
<1>2. CASE FetchEvict(t)
  <2>1. PICK f \in evictable : StartEviction(t, loc[t].page_id, f, pages)
    BY <1>2 DEF FetchEvict
  <2>2. loc[t].op = "FetchPage" /\ loc[t].page_id \in Pages /\ pc[t] = "lock"
    BY <1>2 DEF FetchEvict, Locked, ViewInv, CarefulInv, Inv, CallsAreWellFormed,
                WellFormed
  <2>3. /\ pages \in [Pages -> PageEntries]
        /\ \A q \in Pages : ~Creates(t, q)
    BY <2>2 DEF Creates, ViewInv, CarefulInv, Inv, TypeOK
  <2> QED BY <2>1, <2>2, <2>3, StartEvictionSeen
<1> QED BY <1>1, <1>2

\* The victim is written back: its contents stay the same, and what a client
\* did not mark is kept after all.
LEMMA EvictWriteSeen ==
  ASSUME ViewInv, CarefulInv', NEW t \in Threads, EvictWrite(t)
  PROVE  Seen
<1>1. Inv /\ Inv' /\ CarefulUse /\ CarefulUse' /\ Evicting(t) /\ pc[t] = "evictWrite"
  BY DEF ViewInv, CarefulInv, EvictWrite, Evicting
<1>2. PICK old \in Pages, f \in Frames :
        /\ old = loc[t].old_page_id /\ f = loc[t].frame_id
        /\ PageIs(old, "kEvicting", f)
  BY <1>1, BusyFrames
<1>3. /\ UNCHANGED <<pages, image, unmarked, loc, guard>> /\ OnlyThread(t)
      /\ \A q \in Pages \ {old} : disk'[q] = disk[q]
      /\ \/ pc'[t] = "evicted" /\ disk'[old] = image[f]
         \/ pc'[t] = "evictFailed"
  BY <1>1, <1>2 DEF EvictWrite, Goto, OnlyThread, Inv, TypeOK
<1>4. \A q \in Pages \ {old} : SameView(q)
  BY <1>2, <1>3, Undisturbed DEF Settled, Creates
<1>5. SameGuards
  BY <1>3 DEF SameGuards, Guarded
<1>6. /\ ClientContent(old) = image[f] /\ (Pending(old) <=> f \in unmarked)
      /\ \A u \in Threads : ~Guarded(u, old)
  <2>1. ~IsSettled(old)
    BY <1>1, <1>2, SettledFacts DEF SettledByOne
  <2>2. \A u \in Threads : ~Guarded(u, old)
    BY <1>1, <1>2 DEF Guarded, Inv, GuardsAreSafe, Holds, PageIs
  <2> QED BY <1>1, <1>2, <2>1, <2>2, ViewOf DEF PageIs
<1>7. Evicting(t)'
  BY <1>3 DEF Evicting
<1>8. CASE pc'[t] = "evicted" /\ disk'[old] = image[f]
  <2>1. IsSettled(old)'
    BY <1>2, <1>3, <1>8 DEF IsSettled
  <2>2. ClientContent(old)' = image[f] /\ ~Pending(old)'
    BY <1>1, <1>2, <1>3, <1>8, <2>1, NextViewOf DEF PageIs
  <2>3. CASE f \in unmarked
    <3>1. image[f] \in Content
      BY <1>1 DEF Inv, TypeOK
    <3> QED BY <1>4, <1>5, <1>6, <2>2, <2>3, <3>1, SeenForget
  <2>4. CASE f \notin unmarked
    BY <1>4, <1>5, <1>6, <2>2, <2>4, SeenNothing DEF SameView
  <2> QED BY <2>3, <2>4
<1>9. CASE pc'[t] = "evictFailed"
  <2>1. ~IsSettled(old)'
    BY <1>1, <1>2, <1>3, <1>7, <1>9, NextSettledFacts DEF SettledByOne
  <2>2. SameView(old)
    BY <1>1, <1>2, <1>3, <1>6, <2>1, NextViewOf DEF SameView, PageIs
  <2> QED BY <1>4, <1>5, <2>2, SeenNothing
<1> QED BY <1>3, <1>8, <1>9

\* The write-back failed: the victim is where it was, and the page that
\* NewPage was to create does not exist.
LEMMA EvictFailedSeen ==
  ASSUME ViewInv, CarefulInv', NEW t \in Threads, EvictFailed(t)
  PROVE  Seen
<1>1. Inv /\ CarefulUse /\ CarefulUse' /\ Evicting(t) /\ pc[t] = "evictFailed"
  BY DEF ViewInv, CarefulInv, EvictFailed, Evicting
<1>2. PICK old \in Pages, f \in Frames, p \in Pages :
        /\ old = loc[t].old_page_id /\ f = loc[t].frame_id /\ p = loc[t].page_id
        /\ PageIs(old, "kEvicting", f)
  BY <1>1, BusyFrames DEF Inv, CallsAreWellFormed, WellFormed
<1>3. /\ OnlyThread(t) /\ loc'[t].op = "none" /\ pc'[t] = "idle"
      /\ UNCHANGED <<image, disk, unmarked, guard>>
  BY <1>1, <1>2, ThreadReturns DEF EvictFailed, Inv
<1>4. PICK pt : pt = Restored(pages, t)
  OBVIOUS
<1>5. /\ pt \in [Pages -> PageEntries]
      /\ pt[old].state = "kResident" /\ pt[old].frame_id = f
      /\ \A q \in Pages \ {old} : pt[q] = pages[q]
  <2>1. pt = [pages EXCEPT ![old] = PageEntry("kResident", f)]
    BY <1>1, <1>2, <1>4 DEF Restored, SetResident, SetNonResident, PageIs, Inv, TypeOK
  <2>2. PageEntry("kResident", f) \in PageEntries
    BY EntryFields DEF PageState
  <2>3. pages \in [Pages -> PageEntries]
    BY <1>1 DEF Inv, TypeOK
  <2> QED BY <2>1, <2>2, <2>3 DEF PageEntry
<1>6. \/ pages' = pt /\ ~Creates(t, p)
      \/ pages' = Rollback(pt, p) /\ Creates(t, p)
  BY <1>2, <1>4 DEF EvictFailed, Creates
<1>7. Creates(t, p) => pages[p].state = "kNonResident" /\ p # old
  BY <1>1, <1>2 DEF CarefulUse, PageIs
<1>8. /\ pages'[old] = pt[old]
      /\ \A q \in Pages \ {old, p} : pages'[q] = pages[q]
      /\ Creates(t, p) => pages'[p].state = "kUnused"
      /\ ~Creates(t, p) /\ p # old => pages'[p] = pages[p]
  BY <1>5, <1>6, <1>7 DEF Rollback, CanFree, MakeUnused, UnusedEntry, PageEntry
<1>9. ASSUME NEW q \in Pages, q # old, q # p \/ ~Creates(t, p)
      PROVE  SameView(q)
  <2>1. pages'[q] = pages[q]
    BY <1>8, <1>9
  <2>2. ~Creates(t, q) /\ ~Creates(t, q)' /\ ~Settled(t, q) /\ ~Settled(t, q)'
    BY <1>1, <1>2, <1>3, <1>9 DEF Creates, Settled
  <2> QED BY <1>3, <2>1, <2>2, Undisturbed
<1>10. ASSUME Creates(t, p) PROVE SameView(p)
  <2>1. BeingCreated(p)
    BY <1>10 DEF BeingCreated, Creates
  <2> QED BY <1>1, <1>8, <1>10, <2>1, ViewOf, NextViewOf DEF SameView
<1>11. SameView(old)
  <2>1. ~IsSettled(old)
    BY <1>1, <1>2, SettledFacts DEF SettledByOne
  <2> QED BY <1>1, <1>2, <1>3, <1>5, <1>8, <2>1, ViewOf, NextViewOf DEF SameView, PageIs
<1>12. SameGuards
  BY <1>3 DEF SameGuards, Guarded
<1> QED BY <1>9, <1>10, <1>11, <1>12, SeenNothing

\* A page that leaves its frame once it is settled, or that waits for a frame,
\* is what the file has; pages elsewhere stay as they are.
LEMMA VacatedView ==
  ASSUME Inv, CarefulUse, CarefulUse', NEW t \in Threads, OnlyThread(t),
         NEW p \in Pages, NEW f \in Frames, NEW pt, Vacated(pt, p, f),
         NEW q \in Pages \ {p}, pages'[q] = pt[q], disk' = disk,
         \A g \in Frames \ {f} :
           image'[g] = image[g] /\ (g \in unmarked' <=> g \in unmarked),
         pages[q].frame_id = f => Settled(t, q) /\ pages[q].state = "kEvicting"
                                  /\ pt[q].state = "kNonResident",
         ~Creates(t, q), ~Creates(t, q)', ~Settled(t, q)',
         Settled(t, q) => pages[q].frame_id = f
  PROVE  SameView(q)
<1>1. CASE pages[q].frame_id = f
  <2>1. IsSettled(q)
    BY <1>1 DEF IsSettled, Settled
  <2>2. ~BeingCreated(q)
    BY <1>1, NotBeingCreated
  <2>3. ~BeingCreated(q)'
    BY <2>2, SettledAndCreated
  <2> QED BY <1>1, <2>1, <2>2, <2>3, ViewOf, NextViewOf DEF SameView
<1>2. CASE pages[q].frame_id # f
  <2>1. pages'[q] = pages[q]
    BY <1>2 DEF Vacated
  <2>2. InFrame(q) => pages[q].frame_id \in Frames \ {f}
    BY <1>2, PageFacts DEF InFrame, PageEntries
  <2> QED BY <1>2, <2>1, <2>2, Undisturbed
<1> QED BY <1>1, <1>2

\* The guard that thread t obtains.
LEMMA GainedGuard ==
  ASSUME TypeOK, NEW t \in Threads, NEW p \in Pages, NEW f \in Frames,
         guard' = [guard EXCEPT ![t] = [@ EXCEPT ![p] = f]]
  PROVE  GuardGained(t, p)
  BY ConstantFacts DEF TypeOK, GuardGained, Guarded

\* NewPage publishes its page: it exists from now on.
LEMMA PublishSeen ==
  ASSUME ViewInv, CarefulInv', NEW t \in Threads, NEW p \in Pages, NEW f \in Frames,
         NEW pt, Vacated(pt, p, f), PublishNewPage(t, p, f, pt),
         pt[p].state = "kNonResident",
         pages[p].state = "kUnused" \/ Creates(t, p),
         \A q \in Pages \ {p} :
           /\ ~Creates(t, q)
           /\ pages[q].frame_id = f => Settled(t, q) /\ pages[q].state = "kEvicting"
                                       /\ pt[q].state = "kNonResident"
           /\ Settled(t, q) => pages[q].frame_id = f
  PROVE  Seen
<1>1. Inv /\ CarefulInv /\ CarefulUse /\ CarefulUse'
  BY DEF ViewInv, CarefulInv
<1>2. /\ OnlyThread(t) /\ loc'[t].op = "none" /\ pc'[t] = "idle" /\ disk' = disk
      /\ image'[f] = ZeroPage /\ f \notin unmarked'
      /\ \A g \in Frames \ {f} : /\ image'[g] = image[g]
                                 /\ g \in unmarked' <=> g \in unmarked
  BY <1>1, ThreadReturns DEF PublishNewPage, Inv, TypeOK
<1>3. /\ pages' = SetResident(pt, p, f)
      /\ guard' = [guard EXCEPT ![t] = [@ EXCEPT ![p] = f]]
  BY <1>1, PublishCareful
<1>4. /\ pages'[p].state = "kResident" /\ pages'[p].frame_id = f
      /\ \A q \in Pages \ {p} : pages'[q] = pt[q]
  BY <1>3 DEF SetResident, PageEntry, Vacated
<1>5. \A q \in Pages \ {p} : SameView(q)
  BY <1>1, <1>2, <1>4, VacatedView DEF Creates, Settled
<1>6. ClientContent(p) = NoPage /\ ~Pending(p)
  <2>1. pages[p].state = "kUnused" \/ BeingCreated(p)
    BY DEF BeingCreated, Creates
  <2> QED BY <1>1, <2>1, ViewOf
<1>7. ClientContent(p)' = ZeroPage /\ ~Pending(p)'
  BY <1>1, <1>2, <1>4, NextViewOf
<1>8. GuardGained(t, p)
  BY <1>1, <1>3, GainedGuard DEF Inv
<1> QED BY <1>5, <1>6, <1>7, <1>8, SeenCreate

\* A free frame has no page, and the frame of a written victim only that.
LEMMA VacatedPages ==
  ASSUME Inv, NEW t \in Threads
  PROVE  /\ \A f \in Frames \ allocated, q \in Pages : pages[q].frame_id # f
         /\ pc[t] = "evicted" => \A q \in Pages :
              /\ pages[q].frame_id = loc[t].frame_id <=> Settled(t, q)
              /\ Settled(t, q) => /\ pages[q].state = "kEvicting"
                                  /\ SetNonResident(pages, loc[t].old_page_id)[q].state
                                       = "kNonResident"
<1>1. \A f \in Frames \ allocated, q \in Pages : pages[q].frame_id # f
  BY PageFacts DEF Inv, TablesAgree
<1>2. ASSUME pc[t] = "evicted", NEW q \in Pages
      PROVE  /\ pages[q].frame_id = loc[t].frame_id <=> Settled(t, q)
             /\ Settled(t, q) => /\ pages[q].state = "kEvicting"
                                 /\ SetNonResident(pages, loc[t].old_page_id)[q].state
                                      = "kNonResident"
  <2>1. PICK old \in Pages, f \in Frames :
          /\ old = loc[t].old_page_id /\ f = loc[t].frame_id
          /\ PageIs(old, "kEvicting", f) /\ meta[f].page_id = old
    BY <1>2, BusyFrames DEF Evicting
  <2>2. pages[q].frame_id = f <=> q = old
    BY <2>1, PageFacts DEF PageIs
  <2> QED BY <1>2, <2>1, <2>2
          DEF Settled, PageIs, SetNonResident, PageEntry, Inv, TypeOK
<1> QED BY <1>1, <1>2

\* NewPage ends with its page.
LEMMA NewPageSeen ==
  ASSUME ViewInv, CarefulInv', NEW t \in Threads,
         NewPageFreeFrame(t) \/ NewPageEvicted(t)
  PROVE  Seen
<1>1. Inv /\ CarefulInv
  BY DEF ViewInv, CarefulInv
<1>2. CASE NewPageFreeFrame(t)
  <2>1. PICK p \in NewPageIds(t), f \in Frames \ allocated :
          PublishNewPage(t, p, f, NewPageTable(t, p))
    BY <1>2 DEF NewPageFreeFrame
  <2>2. PICK pt : pt = NewPageTable(t, p)
    OBVIOUS
  <2>3. loc[t].op = "NewPage" /\ pc[t] = "lock"
    BY <1>2 DEF NewPageFreeFrame, Locked
  <2>4. /\ p \in Pages /\ Vacated(pt, p, f) /\ pt[p].state = "kNonResident"
        /\ pages[p].state = "kUnused" \/ Creates(t, p)
        /\ \A q \in Pages \ {p} : ~Creates(t, q)
    BY <1>1, <2>2, <2>3, CarefulId DEF Vacated
  <2>5. \A q \in Pages : pages[q].frame_id # f /\ ~Settled(t, q)
    BY <1>1, <2>3, VacatedPages DEF Settled
  <2> QED BY <2>1, <2>2, <2>4, <2>5, PublishSeen
<1>3. CASE NewPageEvicted(t)
  <2>1. PICK p, f, pt : /\ p = loc[t].page_id /\ f = loc[t].frame_id
                        /\ pt = SetNonResident(pages, loc[t].old_page_id)
    OBVIOUS
  <2>2. /\ pc[t] = "evicted" /\ loc[t].op = "NewPage"
        /\ PublishNewPage(t, p, f, pt)
    BY <1>3, <2>1 DEF NewPageEvicted
  <2>3. p \in Pages /\ f \in Frames /\ Vacated(pt, p, f)
    BY <1>1, <2>1, <2>2, EvictedVacates
  <2>4. /\ Creates(t, p) /\ pages[p].state = "kNonResident"
        /\ \A q \in Pages \ {p} : ~Creates(t, q)
    BY <2>1, <2>2, <2>3, <1>1 DEF Creates, CarefulInv, CarefulUse
  <2>5. pt[p].state = "kNonResident"
    BY <1>1, <2>1, <2>2, <2>4, EvictedVacates
  <2>6. \A q \in Pages :
          /\ pages[q].frame_id = f => Settled(t, q) /\ pages[q].state = "kEvicting"
                                      /\ pt[q].state = "kNonResident"
          /\ Settled(t, q) => pages[q].frame_id = f
    BY <1>1, <2>1, <2>2, VacatedPages
  <2> QED BY <2>2, <2>3, <2>4, <2>5, <2>6, PublishSeen
<1> QED BY <1>2, <1>3

-----------------------------------------------------------------------------
(* The steps of FetchPage.                                                 *)

\* The page is resident: the client gets a guard.  Otherwise the call waits
\* or fails.
LEMMA FetchLookupSeen ==
  ASSUME ViewInv, CarefulInv', NEW t \in Threads, FetchLookup(t)
  PROVE  Seen
<1>1. Inv /\ CarefulUse
  BY DEF ViewInv, CarefulInv
<1>2. PICK p : p = loc[t].page_id
  OBVIOUS
<1>3. /\ UNCHANGED <<pages, image, disk, unmarked>>
      /\ FetchTurn(t, p, pages, meta, sleeping)
      /\ p \in Pages /\ pc[t] = "lock" /\ loc[t].op = "FetchPage" /\ Uses(t, p)
  BY <1>1, <1>2 DEF FetchLookup, FetchTurn, Locked, Inv, CallsAreWellFormed, WellFormed,
                    Uses
<1>4. OnlyThread(t) /\ loc'[t].op \in {"none", "FetchPage"} /\ pc'[t] # "evicted"
  <2>1. OnlyThread(t) /\ loc'[t].op \in {"none", "FetchPage"}
    BY <1>1, <1>3, FetchTurnCall DEF Inv
  <2> QED BY <1>1, <1>3, <2>1 DEF FetchTurn, Return, Goto, Inv, TypeOK
<1>5. \A q \in Pages : SameView(q)
  BY <1>3, <1>4, Undisturbed DEF Settled, Creates
<1>6. CASE guard' = guard
  BY <1>5, <1>6, SeenNothing DEF SameGuards, Guarded
<1>7. CASE /\ pages[p].state = "kResident"
           /\ guard' = [guard EXCEPT ![t] = [@ EXCEPT ![p] = pages[p].frame_id]]
  <2>1. GuardGained(t, p)
    BY <1>1, <1>3, <1>7, ResidentFrame, GainedGuard DEF Inv
  <2>2. ClientContent(p) # NoPage
    BY <1>1, <1>3, <1>7, ContentExists, NotBeingCreated
  <2> QED BY <1>3, <1>5, <2>1, <2>2, SeenGuard
<1> QED BY <1>3, <1>6, <1>7 DEF FetchTurn, Pin

\* FetchPage starts to load: until the page is read, the file has it.
LEMMA StartLoadSeen ==
  ASSUME ViewInv, CarefulInv', NEW t \in Threads, NEW p \in Pages, NEW f \in Frames,
         NEW pt, Vacated(pt, p, f), StartLoad(t, p, f, pt), Uses(t, p),
         UNCHANGED <<image, disk, unmarked>>,
         \/ pages[p].state = "kNonResident"
         \/ pages[p].state = "kEvicting" /\ Settled(t, p),
         \A q \in Pages :
           /\ pages[q].frame_id = f => Settled(t, q) /\ pages[q].state = "kEvicting"
                                       /\ (q # p => pt[q].state = "kNonResident")
           /\ Settled(t, q) => pages[q].frame_id = f
  PROVE  Seen
<1>1. Inv /\ CarefulUse /\ CarefulUse'
  BY DEF ViewInv, CarefulInv
<1>2. /\ OnlyThread(t) /\ pc'[t] = "read"
      /\ pages'[p].state = "kLoading"
      /\ \A q \in Pages \ {p} : pages'[q] = pt[q]
  BY <1>1, StartLoadMoves DEF Vacated
<1>3. loc'[t].op = "FetchPage" /\ guard' = guard
  BY <1>1 DEF StartLoad, NoCall, Inv, TypeOK
<1>4. loc[t].op # "NewPage"
  BY DEF Uses
<1>5. \A q \in Pages \ {p} : SameView(q)
  BY <1>1, <1>2, <1>3, <1>4, VacatedView DEF Creates, Settled
<1>6. SameView(p)
  <2>1. ~BeingCreated(p) /\ ~BeingCreated(p)'
    BY <1>1, <1>2, <1>3, NotBeingCreated, SettledAndCreated DEF Creates
  <2>2. Settled(t, p) => IsSettled(p)
    BY DEF Settled, IsSettled
  <2> QED BY <1>1, <1>2, <2>1, <2>2, ViewOf, NextViewOf DEF SameView
<1>7. SameGuards
  BY <1>3 DEF SameGuards, Guarded
<1> QED BY <1>5, <1>6, <1>7, SeenNothing

\* FetchPage takes a free frame.
LEMMA FetchFreeFrameSeen ==
  ASSUME ViewInv, CarefulInv', NEW t \in Threads, FetchFreeFrame(t)
  PROVE  Seen
<1>1. Inv
  BY DEF ViewInv, CarefulInv
<1>2. PICK p, f : /\ p = loc[t].page_id /\ f \in Frames \ allocated
                  /\ StartLoad(t, p, f, pages)
  BY DEF FetchFreeFrame
<1>3. /\ p \in Pages /\ pages[p].state = "kNonResident" /\ Uses(t, p)
      /\ pc[t] = "lock" /\ UNCHANGED <<image, disk, unmarked>>
  BY <1>1, <1>2 DEF FetchFreeFrame, Locked, Inv, CallsAreWellFormed, WellFormed, Uses
<1>4. Vacated(pages, p, f)
  BY <1>1 DEF Vacated, Inv, TypeOK
<1>5. \A q \in Pages : pages[q].frame_id # f /\ ~Settled(t, q)
  BY <1>1, <1>2, <1>3, VacatedPages DEF Settled
<1> QED BY <1>2, <1>3, <1>4, <1>5, StartLoadSeen

\* FetchPage has evicted: it loads its page, or finds it loaded by another
\* call and gets a guard.
LEMMA FetchEvictedSeen ==
  ASSUME ViewInv, CarefulInv', NEW t \in Threads, FetchEvicted(t)
  PROVE  Seen
<1>1. Inv /\ CarefulUse /\ CarefulUse'
  BY DEF ViewInv, CarefulInv
<1>2. PICK p, f, pt : /\ p = loc[t].page_id /\ f = loc[t].frame_id
                      /\ pt = SetNonResident(pages, loc[t].old_page_id)
  OBVIOUS
<1>3. /\ pc[t] = "evicted" /\ loc[t].op = "FetchPage"
      /\ UNCHANGED <<image, disk, unmarked>>
  BY DEF FetchEvicted
<1>4. p \in Pages /\ f \in Frames /\ Vacated(pt, p, f) /\ Uses(t, p)
  BY <1>1, <1>2, <1>3, EvictedVacates DEF Uses
<1>5. \A q \in Pages :
        /\ pages[q].frame_id = f => Settled(t, q) /\ pages[q].state = "kEvicting"
                                    /\ pt[q].state = "kNonResident"
        /\ Settled(t, q) => pages[q].frame_id = f
        /\ ~Settled(t, q) => pt[q] = pages[q]
  <2>1. \A q \in Pages : ~Settled(t, q) => pt[q] = pages[q]
    BY <1>1, <1>2, <1>3 DEF Settled, SetNonResident, Inv, TypeOK
  <2> QED BY <1>1, <1>2, <1>3, <2>1, VacatedPages
<1>6. CASE StillWanted(pt, p) /\ StartLoad(t, p, f, pt)
  BY <1>3, <1>4, <1>5, <1>6, StartLoadSeen DEF StillWanted
<1>7. CASE /\ ~StillWanted(pt, p)
           /\ FetchTurn(t, p, pt, [meta EXCEPT ![f] = FreeMeta], {})
  <2>1. pages' = pt /\ ~Settled(t, p) /\ pt[p] = pages[p]
    BY <1>4, <1>5, <1>7 DEF FetchTurn, StillWanted
  <2>2. OnlyThread(t) /\ loc'[t].op \in {"none", "FetchPage"} /\ pc'[t] # "evicted"
    <3>1. OnlyThread(t) /\ loc'[t].op \in {"none", "FetchPage"}
      BY <1>1, <1>7, FetchTurnCall DEF Inv
    <3> QED BY <1>1, <1>7, <3>1 DEF FetchTurn, Return, Goto, Inv, TypeOK
  <2>3. \A q \in Pages : ~Creates(t, q) /\ ~Creates(t, q)' /\ ~Settled(t, q)'
    BY <1>3, <2>2 DEF Creates, Settled
  <2>4. \A q \in Pages \ {p} : SameView(q)
    BY <1>1, <1>3, <1>4, <1>5, <2>1, <2>2, <2>3, VacatedView
  <2>5. SameView(p)
    BY <1>3, <1>4, <2>1, <2>2, <2>3, Undisturbed
  <2>6. CASE guard' = guard
    BY <2>4, <2>5, <2>6, SeenNothing DEF SameGuards, Guarded
  <2>7. CASE /\ pages[p].state = "kResident"
             /\ guard' = [guard EXCEPT ![t] = [@ EXCEPT ![p] = pages[p].frame_id]]
    <3>1. GuardGained(t, p)
      BY <1>1, <1>4, <2>7, ResidentFrame, GainedGuard DEF Inv
    <3>2. ClientContent(p) # NoPage
      BY <1>1, <1>4, <2>7, ContentExists, NotBeingCreated
    <3> QED BY <1>4, <2>4, <2>5, <3>1, <3>2, SeenGuard
  <2> QED BY <1>7, <2>1, <2>6, <2>7 DEF FetchTurn, Pin
<1> QED BY <1>2, <1>6, <1>7 DEF FetchEvicted

\* Reading changes a frame that nobody sees.
LEMMA ReadPageSeen ==
  ASSUME ViewInv, CarefulInv', NEW t \in Threads, ReadPage(t)
  PROVE  Seen
<1>1. Inv
  BY DEF ViewInv, CarefulInv
<1>2. PICK p \in Pages, f \in Frames :
        /\ p = loc[t].page_id /\ f = loc[t].frame_id /\ PageIs(p, "kLoading", f)
  BY <1>1, BusyFrames DEF ReadPage, Loading
<1>3. /\ UNCHANGED <<pages, disk, guard, loc>> /\ OnlyThread(t)
      /\ pc[t] # "evicted" /\ pc'[t] # "evicted"
      /\ \A g \in Frames \ {f} : /\ image'[g] = image[g]
                                 /\ g \in unmarked' <=> g \in unmarked
  BY <1>1, <1>2 DEF ReadPage, Goto, OnlyThread, Inv, TypeOK
<1>4. \A q \in Pages : InFrame(q) => pages[q].frame_id \in Frames \ {f}
  BY <1>1, <1>2, PageFacts DEF InFrame, PageEntries, PageIs
<1>5. \A q \in Pages : SameView(q)
  BY <1>3, <1>4, Undisturbed DEF Settled, Creates
<1> QED BY <1>3, <1>5, SeenNothing DEF SameGuards, Guarded

\* The page has been read: the client gets a guard for what the file has.  Or
\* reading failed, and the file still has the page.
LEMMA LoadEndSeen ==
  ASSUME ViewInv, CarefulInv', NEW t \in Threads, FetchLoaded(t) \/ FetchFailed(t)
  PROVE  Seen
<1>1. Inv /\ CarefulUse /\ CarefulUse' /\ Loading(t)
  BY DEF ViewInv, CarefulInv, FetchLoaded, FetchFailed, Loading
<1>2. PICK p \in Pages, f \in Frames :
        /\ p = loc[t].page_id /\ f = loc[t].frame_id
        /\ PageIs(p, "kLoading", f) /\ meta[f].page_id = p
  BY <1>1, BusyFrames
<1>3. /\ UNCHANGED <<image, disk, unmarked>> /\ OnlyThread(t)
      /\ loc[t].op = "FetchPage" /\ loc'[t].op = "none" /\ pc'[t] = "idle"
      /\ \A q \in Pages \ {p} : pages'[q] = pages[q]
  <2>1. loc[t].op = "FetchPage"
    BY <1>1 DEF Inv, CallsAreWellFormed, WellFormed
  <2>2. CASE FetchLoaded(t)
    BY <1>1, <1>2, <2>1, <2>2, ThreadReturns DEF FetchLoaded, SetResident, Inv, TypeOK
  <2>3. CASE FetchFailed(t)
    BY <1>1, <1>2, <2>1, <2>3, ThreadReturns DEF FetchFailed, SetNonResident, Inv, TypeOK
  <2> QED BY <2>2, <2>3
<1>4. \A q \in Pages \ {p} : SameView(q)
  BY <1>1, <1>3, Undisturbed DEF Settled, Creates, Loading
<1>5. /\ ~BeingCreated(p) /\ ~BeingCreated(p)'
      /\ ClientContent(p) = disk[p] /\ ~Pending(p)
  <2>1. ~BeingCreated(p)
    BY <1>1, <1>2, NotBeingCreated DEF PageIs
  <2>2. ~BeingCreated(p)'
    BY <1>3, <2>1, SettledAndCreated DEF Creates
  <2> QED BY <1>1, <1>2, <2>1, <2>2, ViewOf DEF PageIs
<1>6. CASE FetchLoaded(t)
  <2>1. image[f] = disk[p] /\ f \notin unmarked
    BY <1>1, <1>2, <1>6, ContentParts
       DEF FetchLoaded, TrueTransfer, ViewInv, LoadedIsMarked
  <2>2. /\ pages'[p].state = "kResident" /\ pages'[p].frame_id = f
        /\ guard' = [guard EXCEPT ![t] = [@ EXCEPT ![p] = f]]
    BY <1>1, <1>2, <1>6 DEF FetchLoaded, SetResident, PageEntry, Inv, TypeOK
  <2>3. SameView(p)
    BY <1>1, <1>3, <1>5, <2>1, <2>2, NextViewOf DEF SameView
  <2>4. GuardGained(t, p)
    BY <1>1, <2>2, GainedGuard DEF Inv
  <2>5. ClientContent(p) # NoPage
    BY <1>2, <1>5, ContentExists DEF PageIs
  <2> QED BY <1>4, <2>3, <2>4, <2>5, SeenGuard
<1>7. CASE FetchFailed(t)
  <2>1. pages'[p].state = "kNonResident" /\ guard' = guard
    BY <1>1, <1>2, <1>7 DEF FetchFailed, SetNonResident, PageEntry, Inv, TypeOK
  <2>2. SameView(p)
    BY <1>1, <1>3, <1>5, <2>1, NextViewOf DEF SameView
  <2> QED BY <1>4, <2>1, <2>2, SeenNothing DEF SameGuards, Guarded
<1> QED BY <1>6, <1>7

-----------------------------------------------------------------------------
(* Deleting a page, and using a guard.                                     *)

\* A page that nobody holds is deleted.
LEMMA DeleteSeen ==
  ASSUME ViewInv, CarefulInv', NEW t \in Threads,
         DeleteResident(t) \/ DeleteNonResident(t)
  PROVE  Seen
<1>1. Inv /\ CarefulUse /\ CarefulUse'
  BY DEF ViewInv, CarefulInv
<1>2. PICK p : p = loc[t].page_id
  OBVIOUS
<1>3. /\ p \in Pages /\ Uses(t, p) /\ loc[t].op = "DeletePage" /\ pc[t] = "lock"
      /\ pages[p].state \in {"kResident", "kNonResident"}
  BY <1>1, <1>2 DEF DeleteResident, DeleteNonResident, Locked, Inv,
                    CallsAreWellFormed, WellFormed, Uses
<1>4. /\ OnlyThread(t) /\ loc'[t].op = "none" /\ pc'[t] = "idle"
      /\ UNCHANGED <<image, disk, unmarked, guard>>
      /\ pages'[p].state = "kUnused"
      /\ \A q \in Pages \ {p} : pages'[q] = pages[q]
  BY <1>1, <1>2, <1>3, ThreadReturns
     DEF DeleteResident, DeleteNonResident, MakeUnused, SetNonResident, UnusedEntry,
         PageEntry, Inv, TypeOK
<1>5. \A q \in Pages \ {p} : SameView(q)
  BY <1>3, <1>4, Undisturbed DEF Settled, Creates
<1>6. \A u \in Threads : ~Guarded(u, p)
  <2>1. CASE DeleteResident(t)
    <3>1. PICK f \in Frames : f = pages[p].frame_id /\ Holds(f, p)
      BY <1>1, <1>2, <1>3, <2>1, ResidentFrame DEF DeleteResident
    <3>2. meta[f].pin_count = 0
      BY <1>2, <2>1, <3>1 DEF DeleteResident, IsPinned
    <3>3. Holders(f) = {}
      BY <1>1, <1>3, <3>1, <3>2, UnpinnedHasNoHolders
    <3>4. \A u \in Threads : guard[u][p] # f
      BY <1>1, <1>3, <3>3, UnheldHasNoGuard
    <3> QED BY <1>1, <1>3, <3>1, <3>4 DEF Guarded, Inv, GuardsAreSafe, Holds, PageIs
  <2>2. CASE DeleteNonResident(t)
    <3>1. pages[p].state = "kNonResident"
      BY <1>2, <2>2 DEF DeleteNonResident
    <3> QED BY <1>1, <1>3, <3>1 DEF Guarded, Inv, GuardsAreSafe, Holds, PageIs
  <2> QED BY <2>1, <2>2
<1>7. ClientContent(p) # NoPage
  BY <1>1, <1>3, NotBeingCreated, ContentExists
<1>8. ClientContent(p)' = NoPage /\ ~Pending(p)'
  BY <1>1, <1>3, <1>4, NextViewOf
<1>9. SameGuards
  BY <1>4 DEF SameGuards, Guarded
<1> QED BY <1>3, <1>5, <1>6, <1>7, <1>8, <1>9, SeenForget

\* A client writes through its guard, marks what it wrote, or drops the guard.
LEMMA UseGuardSeen ==
  ASSUME ViewInv, CarefulInv', NEW t \in Threads, NEW p \in Pages, UseGuard(t, p)
  PROVE  Seen
<1>1. Inv /\ CarefulUse /\ CarefulUse' /\ Guarded(t, p)
  BY DEF ViewInv, CarefulInv, UseGuard, ModifyPage, MarkDirty, DropPageGuard, Guarded
<1>2. PICK f \in Frames : /\ f = guard[t][p] /\ pages[p].state = "kResident"
                          /\ pages[p].frame_id = f
  BY <1>1, GuardedFrame DEF Guarded, Holds, PageIs
<1>3. /\ UNCHANGED <<pages, disk, pc, loc>> /\ OnlyThread(t)
      /\ \A q \in Pages : /\ Settled(t, q)' <=> Settled(t, q)
                          /\ Creates(t, q)' <=> Creates(t, q)
  BY DEF UseGuard, ModifyPage, MarkDirty, DropPageGuard, OnlyThread, Settled, Creates
<1>4. \A q \in Pages \ {p} : InFrame(q) => pages[q].frame_id \in Frames \ {f}
  BY <1>1, <1>2, PageFacts DEF InFrame, PageEntries
<1>5. /\ ClientContent(p) = image[f]
      /\ ClientContent(p)' = image'[f] /\ (Pending(p)' <=> f \in unmarked')
  BY <1>1, <1>2, <1>3, ViewOf, NextViewOf
<1>6. ASSUME NEW c \in Images, ModifyPage(t, p, c) PROVE Seen
  <2>1. /\ image'[f] = c /\ f \in unmarked' /\ guard' = guard
        /\ \A g \in Frames \ {f} : /\ image'[g] = image[g]
                                   /\ g \in unmarked' <=> g \in unmarked
    BY <1>1, <1>2, <1>6 DEF ModifyPage, Inv, TypeOK
  <2>2. \A q \in Pages \ {p} : SameView(q)
    BY <1>3, <1>4, <2>1, Undisturbed
  <2>3. ClientContent(p)' \in Content /\ Pending(p)'
    BY <1>5, <2>1 DEF Content
  <2> QED BY <1>1, <2>1, <2>2, <2>3, SeenWrite DEF SameGuards, Guarded
<1>7. CASE MarkDirty(t, p)
  <2>1. /\ image' = image /\ f \notin unmarked' /\ guard' = guard
        /\ \A g \in Frames \ {f} : g \in unmarked' <=> g \in unmarked
    BY <1>2, <1>7 DEF MarkDirty
  <2>2. \A q \in Pages \ {p} : SameView(q)
    BY <1>3, <1>4, <2>1, Undisturbed
  <2>3. ClientContent(p)' = ClientContent(p) /\ ~Pending(p)'
    BY <1>5, <2>1
  <2> QED BY <1>1, <2>1, <2>2, <2>3, SeenWrite DEF SameGuards, Guarded
<1>8. CASE DropPageGuard(t, p)
  <2>1. /\ UNCHANGED <<image, unmarked>>
        /\ guard' = [guard EXCEPT ![t] = [@ EXCEPT ![p] = NoFrame]]
    BY <1>8 DEF DropPageGuard
  <2>2. \A q \in Pages : SameView(q)
    BY <1>3, <2>1, Undisturbed
  <2>3. GuardLost(t, p)
    BY <1>1, <2>1 DEF GuardLost, Guarded, Inv, TypeOK
  <2> QED BY <1>1, <2>2, <2>3, SeenGuard
<1> QED BY <1>6, <1>7, <1>8 DEF UseGuard

-----------------------------------------------------------------------------

\* A frame that is being read into is no client's.
LEMMA NextLoaded ==
  ASSUME Inv, LoadedIsMarked, Next
  PROVE  LoadedIsMarked'
<1>1. PICK t \in Threads :
        \/ Call(t) \/ Step(t) \/ SpuriousWake(t)
        \/ \E p \in Pages : UseGuard(t, p)
  BY DEF Next
<1>2. CASE ReadPage(t)
  <2>1. /\ loc' = loc /\ unmarked' = unmarked \ {loc[t].frame_id}
        /\ \A u \in Threads \ {t} : pc'[u] = pc[u]
    BY <1>2 DEF ReadPage, Goto, Inv, TypeOK
  <2> QED BY <2>1 DEF LoadedIsMarked
<1>3. CASE \E p \in Pages : UseGuard(t, p)
  <2>1. PICK p \in Pages : UseGuard(t, p)
    BY <1>3
  <2>2. PICK f \in Frames : f = guard[t][p] /\ meta[f].state = "kResident"
    BY <2>1, GuardedFrame DEF UseGuard, ModifyPage, MarkDirty, DropPageGuard, Inv,
                              GuardsAreSafe
  <2>3. \A u \in Threads : pc[u] = "loaded" => loc[u].frame_id # f
    BY <2>2, BusyFrames DEF Loading
  <2>4. UNCHANGED <<pc, loc>> /\ unmarked' \subseteq unmarked \cup {f}
    BY <2>1, <2>2 DEF UseGuard, ModifyPage, MarkDirty, DropPageGuard
  <2> QED BY <2>3, <2>4 DEF LoadedIsMarked
<1>4. CASE ~ReadPage(t) /\ (Call(t) \/ Step(t) \/ SpuriousWake(t))
  <2>1. unmarked' \subseteq unmarked
    <3>1. CASE NewPage(t)
      BY <3>1 DEF NewPage, NewPageNoId, NewPageFreeFrame, NewPageEvict, NewPageWait,
                  NewPageNoFrame, NewPageEvicted, PublishNewPage, StartEviction
    <3>2. CASE FetchPage(t)
      BY <1>4, <3>2 DEF FetchPage, FetchLookup, FetchFreeFrame, FetchEvict, FetchWait,
                        FetchNoFrame, FetchEvicted, FetchLoaded, FetchFailed,
                        StartEviction
    <3>3. CASE Evict(t) \/ FlushPage(t) \/ DeletePage(t) \/ Call(t) \/ SpuriousWake(t)
      BY <3>3 DEF Evict, EvictWrite, EvictFailed, FlushPage, FlushAllList, FlushUnused,
                  FlushWait, FlushNothing, FlushStart, FlushWrite, FlushDone,
                  FlushFailed, DeletePage, DeleteWait, DeleteRefused, DeleteResident,
                  DeleteNonResident, Call, BeginCall, SpuriousWake
    <3> QED BY <1>4, <3>1, <3>2, <3>3 DEF Step
  <2>2. /\ OnlyThread(t)
        /\ pc'[t] # "loaded" \/ UNCHANGED <<pc, loc>>
    <3>1. CASE FetchWait(t) \/ FlushWait(t) \/ DeleteWait(t) \/ SpuriousWake(t)
      BY <3>1 DEF FetchWait, FlushWait, DeleteWait, SpuriousWake, Wait, OnlyThread
    <3>2. CASE NewPageWait(t)
      BY <3>2 DEF NewPageWait, Locked, OnlyThread, Inv, TypeOK
    <3>3. CASE Return(t)
      BY <3>3, ThreadReturns DEF Inv
    <3>5. CASE NewPage(t)
      <4>1. CASE NewPageEvict(t)
        <5>1. PICK p, f : StartEviction(t, p, f, NewPageTable(t, p))
          BY <4>1 DEF NewPageEvict
        <5> QED BY <5>1 DEF StartEviction, Goto, WriteBack, OnlyThread, Inv, TypeOK
      <4> QED BY <3>2, <3>3, <3>5, <4>1
              DEF NewPage, NewPageNoId, NewPageFreeFrame, NewPageNoFrame,
                  NewPageEvicted, PublishNewPage
    <3>6. CASE FetchPage(t)
      <4>1. CASE \E p, f, pt : StartLoad(t, p, f, pt)
        BY <4>1 DEF StartLoad, Goto, OnlyThread, Inv, TypeOK
      <4>2. CASE \E p, pt, mt, sl : FetchTurn(t, p, pt, mt, sl)
        BY <4>2 DEF FetchTurn, Return, Goto, OnlyThread, Inv, TypeOK
      <4>3. CASE FetchEvict(t)
        <5>1. PICK p, f : StartEviction(t, p, f, pages)
          BY <4>3 DEF FetchEvict
        <5> QED BY <5>1 DEF StartEviction, Goto, WriteBack, OnlyThread, Inv, TypeOK
      <4> QED BY <1>4, <3>1, <3>3, <3>6, <4>1, <4>2, <4>3
              DEF FetchPage, FetchLookup, FetchFreeFrame, FetchNoFrame, FetchEvicted,
                  FetchLoaded, FetchFailed
    <3>7. CASE Evict(t) \/ FlushWrite(t) \/ FlushStart(t)
      BY <3>3, <3>7 DEF Evict, EvictWrite, EvictFailed, FlushWrite, FlushStart, Goto,
                        OnlyThread, Inv, TypeOK
    <3>8. CASE \E todo : FlushNext(t, todo)
      BY <3>8 DEF FlushNext, Return, Goto, OnlyThread, Inv, TypeOK
    <3>9. CASE FlushPage(t) \/ DeletePage(t)
      BY <3>1, <3>3, <3>7, <3>8, <3>9
         DEF FlushPage, FlushAllList, FlushUnused, FlushNothing, FlushDone, FlushFailed,
             DeletePage, DeleteRefused, DeleteResident, DeleteNonResident
    <3>10. CASE Call(t)
      BY <3>10 DEF Call, BeginCall, Goto, OnlyThread, Inv, TypeOK
    <3> QED BY <1>4, <3>1, <3>5, <3>6, <3>7, <3>9, <3>10 DEF Step
  <2> QED BY <2>1, <2>2 DEF LoadedIsMarked, OnlyThread
<1> QED BY <1>1, <1>2, <1>3, <1>4

\* What careful clients see of a step is a step of the store, or nothing.
LEMMA NextSeen ==
  ASSUME ViewInv, CarefulInv', CarefulNext
  PROVE  Seen
<1>1. PICK t \in Threads :
        \/ CarefulCall(t) \/ Step(t) \/ SpuriousWake(t)
        \/ \E p \in Pages : UseGuard(t, p)
  BY DEF CarefulNext
<1>2. CASE CarefulCall(t) \/ SpuriousWake(t)
  BY <1>2, QuietStepSeen
<1>3. CASE NewPage(t)
  BY <1>3, QuietStepSeen, NewPageSeen, EvictSeen, NewPageIdSeen DEF NewPage
<1>4. CASE FetchPage(t)
  BY <1>4, QuietStepSeen, FetchLookupSeen, FetchFreeFrameSeen, EvictSeen,
     FetchEvictedSeen, ReadPageSeen, LoadEndSeen DEF FetchPage
<1>5. CASE Evict(t)
  BY <1>5, EvictWriteSeen, EvictFailedSeen DEF Evict
<1>6. CASE FlushPage(t)
  BY <1>6, QuietStepSeen DEF FlushPage
<1>7. CASE DeletePage(t)
  BY <1>7, QuietStepSeen, DeleteSeen DEF DeletePage
<1>8. CASE \E p \in Pages : UseGuard(t, p)
  BY <1>8, UseGuardSeen
<1> QED BY <1>1, <1>2, <1>3, <1>4, <1>5, <1>6, <1>7, <1>8 DEF Step

\* For careful clients, any number of them, the buffer manager is a store of
\* pages: evictions, loads, flushes and failures do not show.
THEOREM BufferManagerIsPageStore == PinsFit => (CarefulSpec => ImplementsPageStore)
<1> SUFFICES ASSUME PinsFit PROVE CarefulSpec => ImplementsPageStore
  OBVIOUS
<1>1. CarefulSpec => Spec
  <2>1. [CarefulNext]_vars => [Next]_vars
    BY CarefulIsNext
  <2> QED BY <2>1, PTL DEF CarefulSpec, Spec
<1>2. CarefulSpec => [](CarefulInv /\ ContentsInv)
  BY <1>1, CarefulInvariance, ContentsInvariance, PTL
<1>3. CarefulSpec => []LoadedIsMarked
  <2>1. Init => LoadedIsMarked
    BY DEF Init, LoadedIsMarked
  <2>2. CarefulInv /\ LoadedIsMarked /\ [CarefulNext]_vars => LoadedIsMarked'
    BY NextLoaded, CarefulIsNext DEF CarefulInv, LoadedIsMarked, vars
  <2> QED BY <1>2, <2>1, <2>2, PTL DEF CarefulSpec
<1>4. Init => Store!Init
  <2> SUFFICES ASSUME Init PROVE Store!Init
    OBVIOUS
  <2>1. \A p \in Pages : pages[p].state = "kUnused"
    BY DEF Init, UnusedEntry, PageEntry
  <2>2. \A p \in Pages : ClientContent(p) = NoPage /\ ~InFrame(p)
    BY <2>1 DEF ClientContent, InFrame
  <2>3. ViewContent = [p \in Pages |-> NoPage]
    BY <2>2 DEF ViewContent
  <2>4. ViewHeld = {}
    BY DEF Init, ViewHeld
  <2>5. ViewPending = {}
    BY <2>2 DEF ViewPending
  <2> QED BY <2>3, <2>4, <2>5 DEF Store!Init, ViewContent, ViewHeld, ViewPending
<1>5. ViewInv /\ CarefulInv' /\ [CarefulNext]_vars => [Store!Next]_(Store!vars)
  <2>1. ViewInv /\ CarefulInv' /\ CarefulNext => [Store!Next]_(Store!vars)
    BY NextSeen DEF Seen
  <2>2. ViewInv /\ UNCHANGED vars => UNCHANGED Store!vars
    <3> SUFFICES ASSUME UNCHANGED vars PROVE UNCHANGED Store!vars
      OBVIOUS
    <3>1. \A p \in Pages : /\ ClientContent(p)' = ClientContent(p)
                           /\ InFrame(p)' <=> InFrame(p)
      BY DEF vars, ClientContent, InFrame, IsSettled, BeingCreated
    <3>2. ViewContent' = ViewContent
      BY <3>1 DEF ViewContent
    <3>3. ViewHeld' = ViewHeld
      BY DEF ViewHeld, vars
    <3>4. ViewPending' = ViewPending
      BY <3>1 DEF ViewPending, vars
    <3> QED BY <3>2, <3>3, <3>4 DEF Store!vars, ViewContent, ViewHeld, ViewPending
  <2> QED BY <2>1, <2>2
<1>6. CarefulSpec => [](ViewInv /\ CarefulInv)
  BY <1>2, <1>3, PTL DEF ViewInv
<1> QED BY <1>4, <1>5, <1>6, PTL DEF CarefulSpec, ImplementsPageStore, Store!Spec

-----------------------------------------------------------------------------
(* Durability, for all clients.  What was promised of a page is true when  *)
(* it is promised, and stays true because no step changes the page or its  *)
(* copy in the file without ending the promise.                            *)

\* The file has page p as a client would find it.
OnDisk(p) == disk[p] = PageContent(p)

\* The copy of page p in the file will last until the page is changed.
Kept(p) == OnDisk(p) /\ ~Unmarked(p)

\* FlushAllPages has not yet listed the dirty frames.
Unlisted(t) == loc[t].op = "FlushAllPages" /\ loc[t].page_id = NoPage

\* What thread t owes of page p is done, or still before it.
Pays(t, p) ==
  \/ OnDisk(p)
  \/ Unlisted(t)
  \/ loc[t].page_id = p /\ pc[t] # "flushed"
  \/ \E e \in loc[t].todo : e[2] = p

\* The debts of thread t.
DebtsOf(t) ==
  /\ owed[t] # {} => loc[t].op \in FlushOps
  /\ \A p \in owed[t] : ~Unmarked(p) /\ Pays(t, p)

\* The types of the history variables.
HistoryTypes ==
  /\ unsynced \subseteq Pages /\ sync \subseteq Pages /\ stored \subseteq Pages
  /\ owed \in [Threads -> SUBSET Pages]
  /\ durable \in [Pages -> Content \cup {NoPage}]

\* What was stored is kept, and what is durable is not waiting for a Sync.
PromisesAreKept ==
  /\ \A p \in stored \cup sync : Kept(p)
  /\ \A p \in Pages : durable[p] # NoPage =>
       Kept(p) /\ disk[p] = durable[p] /\ p \notin unsynced
  /\ \A t \in Threads : DebtsOf(t)

\* The inductive invariant.
DurableInv == Inv /\ ContentsInv /\ HistoryTypes /\ PromisesAreKept

-----------------------------------------------------------------------------
(* Nothing is written over what is kept.                                   *)

\* Only a write-back or a flush changes the file.
LEMMA FileWriters ==
  ASSUME Inv, Next
  PROVE  \/ UNCHANGED disk
         \/ \E t \in Threads : EvictWrite(t) \/ FlushWrite(t)
<1>1. PICK t \in Threads :
        \/ Call(t) \/ Step(t) \/ SpuriousWake(t)
        \/ \E p \in Pages : UseGuard(t, p)
  BY DEF Next
<1>2. CASE Call(t) \/ SpuriousWake(t)
  BY <1>2 DEF Call, BeginCall, SpuriousWake
<1>3. CASE NewPage(t)
  BY <1>3 DEF NewPage, NewPageNoId, NewPageFreeFrame, NewPageEvict, NewPageWait,
              NewPageNoFrame, NewPageEvicted, PublishNewPage, StartEviction
<1>4. CASE FetchPage(t)
  BY <1>4 DEF FetchPage, FetchLookup, FetchFreeFrame, FetchEvict, FetchWait,
              FetchNoFrame, FetchEvicted, ReadPage, FetchLoaded, FetchFailed,
              StartEviction
<1>5. CASE Evict(t)
  BY <1>5 DEF Evict, EvictFailed
<1>6. CASE FlushPage(t)
  BY <1>6 DEF FlushPage, FlushAllList, FlushUnused, FlushWait, FlushNothing,
              FlushStart, FlushDone, FlushFailed
<1>7. CASE DeletePage(t)
  BY <1>7 DEF DeletePage, DeleteWait, DeleteRefused, DeleteResident,
              DeleteNonResident
<1>8. CASE \E p \in Pages : UseGuard(t, p)
  BY <1>8 DEF UseGuard, ModifyPage, MarkDirty, DropPageGuard
<1> QED BY <1>1, <1>2, <1>3, <1>4, <1>5, <1>6, <1>7, <1>8 DEF Step

\* A write-back of a page that the file has leaves the file as it is, also
\* if it fails halfway.
LEMMA WriteBackKeeps ==
  ASSUME Inv, NEW t \in Threads, EvictWrite(t), NEW p \in Pages, Kept(p)
  PROVE  disk'[p] = disk[p]
<1>1. PICK q \in Pages, f \in Frames :
        /\ q = loc[t].old_page_id /\ f = loc[t].frame_id
        /\ PageIs(q, "kEvicting", f)
  BY BusyFrames DEF EvictWrite, Evicting
<1>2. disk \in [Pages -> Content]
  BY DEF Inv, TypeOK
<1>3. \A r \in Pages \ {q} : disk'[r] = disk[r]
  BY <1>1, <1>2 DEF EvictWrite
<1>4. CASE p = q
  <2>1. image[f] = disk[p]
    BY <1>1, <1>4 DEF Kept, OnDisk, PageContent, PageIs
  <2> QED BY <1>1, <1>2, <1>4, <2>1 DEF EvictWrite, PartialWrite
<1> QED BY <1>3, <1>4

\* So does a flush, unless a client is just changing the page.
LEMMA FlushKeeps ==
  ASSUME Inv, NEW t \in Threads, FlushWrite(t), NEW p \in Pages, Kept(p)
  PROVE  disk'[p] = disk[p]
<1>1. PICK q \in Pages, f \in Frames :
        q = loc[t].page_id /\ f = loc[t].frame_id /\ PageIs(q, "kResident", f)
  BY BusyFrames DEF FlushWrite, Flushing, Holds
<1>2. disk \in [Pages -> Content]
  BY DEF Inv, TypeOK
<1>3. \A r \in Pages \ {q} : disk'[r] = disk[r]
  BY <1>1, <1>2 DEF FlushWrite
<1>4. CASE p = q
  <2>1. image[f] = disk[p] /\ f \notin unmarked
    BY <1>1, <1>4 DEF Kept, OnDisk, PageContent, PageIs, Unmarked
  <2>2. FlushedImages(p, f) = {disk[p]}
    BY <2>1 DEF FlushedImages
  <2> QED BY <1>1, <1>2, <1>4, <2>2 DEF FlushWrite, PartialWrite
<1> QED BY <1>3, <1>4

\* A page that is kept, and is not changed, is kept as it is.
LEMMA StaysKept ==
  ASSUME Inv, ContentsInv, Next, NEW p \in Pages, Kept(p), ~Changes(p)
  PROVE  Kept(p)' /\ disk'[p] = disk[p]
<1>1. disk'[p] = disk[p]
  BY FileWriters, WriteBackKeeps, FlushKeeps
<1>2. /\ ~Unmarked(p) /\ ~Unmarked(p)' /\ ~BeingCreated(p)
      /\ pages[p].state = "kUnused" <=> pages'[p].state = "kUnused"
  BY DEF Kept, Changes
<1>3. PageContent(p)' = PageContent(p)
  <2>1. CASE pages[p].state = "kUnused"
    BY <1>1, <1>2, <2>1 DEF PageContent
  <2>2. CASE pages[p].state # "kUnused"
    BY <1>2, <2>2, NextContents DEF KeepsContents, StablePage
  <2> QED BY <2>1, <2>2
<1> QED BY <1>1, <1>2, <1>3 DEF Kept, OnDisk

-----------------------------------------------------------------------------
(* Debts: what a flush call has promised.                                  *)

\* A page whose changes are marked, and that is not in eviction, is in the
\* file or in a dirty frame.
LEMMA DirtyOrKept ==
  ASSUME Inv, ContentsInv, NEW p \in Pages, ~Unmarked(p),
         pages[p].state # "kEvicting"
  PROVE  \/ OnDisk(p)
         \/ /\ pages[p].state = "kResident"
            /\ meta[pages[p].frame_id].dirty
<1>1. CleanPage(p)
  BY ContentParts
<1> QED BY <1>1 DEF CleanPage, OnDisk, PageContent, Unmarked

\* FlushAllPages lists the page of every dirty frame.
LEMMA DirtyIsListed ==
  ASSUME Inv, NEW p \in Pages, pages[p].state = "kResident",
         meta[pages[p].frame_id].dirty
  PROVE  \E e \in DirtyPages : e[2] = p
<1>1. PICK f \in Frames : /\ f = pages[p].frame_id /\ meta[f].page_id = p
                          /\ meta[f].state = "kResident"
  BY ResidentFrame
<1>2. <<f, p>> \in DirtyPages
  BY <1>1, ConstantFacts DEF DirtyPages
<1> QED BY <1>2

\* The call goes on with what is left, and returns when nothing is.
LEMMA FlushNextPays ==
  ASSUME Inv, NEW t \in Threads, NEW todo, FlushNext(t, todo), NEW p \in Pages,
         OnDisk(p) \/ \E e \in todo : e[2] = p,
         OnDisk(p) => OnDisk(p)'
  PROVE  /\ pc'[t] = "idle" => OnDisk(p)
         /\ pc'[t] # "idle" => Pays(t, p)'
<1>1. CASE todo = {} /\ Return(t)
  BY <1>1, ThreadReturns DEF Inv
<1>2. ASSUME NEW e \in todo, Goto(t, "lock"),
             loc' = [loc EXCEPT ![t] = [NoCall EXCEPT !.op = "FlushAllPages",
                                                      !.page_id = e[2],
                                                      !.todo = todo \ {e}]]
      PROVE  pc'[t] = "lock" /\ Pays(t, p)'
  <2>1. pc'[t] = "lock"
    BY <1>2 DEF Goto, Inv, TypeOK
  <2>2. loc'[t].page_id = e[2] /\ loc'[t].todo = todo \ {e}
    BY <1>2 DEF NoCall, Inv, TypeOK
  <2> QED BY <2>1, <2>2 DEF Pays
<1> QED BY <1>1, <1>2 DEF FlushNext

\* What a step of the flush code does for a page that it owes: when the call
\* returns, the file has the page.
FlushPays(t, p) ==
  /\ pc'[t] = "idle" /\ ~FlushFailed(t) /\ ~FlushUnused(t) => OnDisk(p)
  /\ pc'[t] # "idle" => Pays(t, p)'

\* The list leaves out only what is in the file, and what is overlooked.
LEMMA ListPays ==
  ASSUME Inv, ContentsInv, NEW t \in Threads, FlushAllList(t), ~FlushAllIsComplete,
         NEW p \in Due(t), p \in Pages, ~Unmarked(p), OnDisk(p) => OnDisk(p)'
  PROVE  FlushPays(t, p)
<1>1. pages[p].state # "kEvicting"
  BY DEF Due, Overlooked
<1>2. OnDisk(p) \/ \E e \in DirtyPages : e[2] = p
  BY <1>1, DirtyOrKept, DirtyIsListed
<1> QED BY <1>2, FlushNextPays DEF FlushAllList, FlushPays

\* A page that need not be flushed is in the file.
LEMMA NothingPays ==
  ASSUME Inv, ContentsInv, NEW t \in Threads, FlushNothing(t),
         NEW p \in Pages, Pays(t, p), ~Unmarked(p), OnDisk(p) => OnDisk(p)'
  PROVE  FlushPays(t, p)
<1>1. ~Unlisted(t) /\ loc[t].op \in FlushOps /\ pc[t] = "lock"
  BY DEF FlushNothing, FlushLocked, Locked, Unlisted, FlushOps
<1>2. loc[t].page_id = p => OnDisk(p)
  BY DirtyOrKept DEF FlushNothing
<1>3. OnDisk(p) \/ \E e \in loc[t].todo : e[2] = p
  BY <1>1, <1>2 DEF Pays
<1> QED BY <1>3, FlushNextPays DEF FlushNothing, FlushPays

\* So is one whose write has ended.
LEMMA DonePays ==
  ASSUME Inv, NEW t \in Threads, FlushDone(t),
         NEW p \in Pages, Pays(t, p), OnDisk(p) => OnDisk(p)'
  PROVE  FlushPays(t, p)
<1>1. ~Unlisted(t) /\ pc[t] = "flushed"
  BY BusyFrames, ConstantFacts DEF FlushDone, Flushing, Unlisted
<1>2. OnDisk(p) \/ \E e \in loc[t].todo : e[2] = p
  BY <1>1 DEF Pays
<1> QED BY <1>2, FlushNextPays DEF FlushDone, FlushPays

\* The write itself stores what the client would find.
LEMMA WritePays ==
  ASSUME Inv, NEW t \in Threads, FlushWrite(t),
         NEW p \in Pages, Pays(t, p), ~Unmarked(p), OnDisk(p) => OnDisk(p)'
  PROVE  FlushPays(t, p)
<1>1. PICK q \in Pages, f \in Frames :
        q = loc[t].page_id /\ f = loc[t].frame_id /\ PageIs(q, "kResident", f)
  BY BusyFrames DEF FlushWrite, Flushing, Holds
<1>2. UNCHANGED <<pages, image, loc>> /\ pc'[t] \in {"flushed", "flushFailed"}
  BY DEF FlushWrite, Goto, Inv, TypeOK
<1>3. CASE p = q /\ pc'[t] = "flushed"
  <2>1. f \notin unmarked
    BY <1>1, <1>3 DEF Unmarked, PageIs
  <2>2. disk' = [disk EXCEPT ![p] = image[f]]
    BY <1>1, <1>3, <2>1 DEF FlushWrite, FlushedImages, Goto, Inv, TypeOK
  <2>3. OnDisk(p)'
    BY <1>1, <1>2, <1>3, <2>2 DEF OnDisk, PageContent, PageIs, Inv, TypeOK
  <2> QED BY <1>2, <2>3 DEF FlushPays, Pays
<1>4. CASE p # q \/ pc'[t] = "flushFailed"
  <2>1. Pays(t, p)'
    BY <1>1, <1>2, <1>4 DEF Pays, Unlisted
  <2> QED BY <1>2, <2>1 DEF FlushPays
<1> QED BY <1>2, <1>3, <1>4

\* The other steps leave the debt where it is.
LEMMA WaitingPays ==
  ASSUME Inv, NEW t \in Threads, FlushWait(t) \/ FlushStart(t),
         NEW p \in Pages, Pays(t, p), OnDisk(p) => OnDisk(p)'
  PROVE  FlushPays(t, p)
<1>1. /\ loc'[t].op = loc[t].op /\ loc'[t].page_id = loc[t].page_id
      /\ loc'[t].todo = loc[t].todo
  <2>1. CASE FlushWait(t)
    BY <2>1 DEF FlushWait, Wait
  <2>2. CASE FlushStart(t)
    BY <2>2 DEF FlushStart, Inv, TypeOK, Locals
  <2> QED BY <2>1, <2>2
<1>2. pc'[t] \in {"lock", "flushWrite"}
  BY DEF FlushWait, FlushStart, Wait, Goto, FlushLocked, Locked, Inv, TypeOK
<1> QED BY <1>1, <1>2 DEF FlushPays, Pays, Unlisted

\* Every step of the flush code.
LEMMA FlushStepPays ==
  ASSUME Inv, ContentsInv, NEW t \in Threads, FlushPage(t), ~FlushAllIsComplete,
         NEW p \in Due(t), p \in Pages, Pays(t, p), ~Unmarked(p),
         OnDisk(p) => OnDisk(p)'
  PROVE  FlushPays(t, p)
<1>1. CASE FlushUnused(t) \/ FlushFailed(t)
  <2>1. pc'[t] = "idle"
    BY <1>1, ThreadReturns DEF FlushUnused, FlushFailed, Inv
  <2> QED BY <1>1, <2>1 DEF FlushPays
<1> QED BY <1>1, ListPays, NothingPays, DonePays, WritePays, WaitingPays
        DEF FlushPage

-----------------------------------------------------------------------------
(* The steps.                                                              *)

\* Thread t moves alone, and is in a flush call only if it runs its code.
FlushesOrNot(t) ==
  /\ OnlyThread(t)
  /\ \/ Call(t)
     \/ FlushPage(t)
     \/ pc'[t] = pc[t] /\ loc'[t] = loc[t]
     \/ loc[t].op \notin FlushOps /\ pc[t] # "idle"

\* The steps of the other functions are not those of a flush call.
LEMMA OtherCalls ==
  ASSUME Inv, NEW t \in Threads, NewPage(t) \/ FetchPage(t) \/ Evict(t) \/ DeletePage(t)
  PROVE  FlushesOrNot(t)
<1>1. WellFormed(t)
  BY DEF Inv, CallsAreWellFormed
<1>2. loc[t].op \notin FlushOps /\ pc[t] # "idle"
  <2>1. CASE \/ Locked(t, "NewPage") \/ Locked(t, "FetchPage")
             \/ Locked(t, "DeletePage") \/ Evicting(t) \/ Loading(t)
    BY <1>1, <2>1 DEF WellFormed, Locked, Evicting, Loading, FlushOps
  <2>2. CASE NewPage(t)
    BY <2>1, <2>2 DEF NewPage, NewPageNoId, NewPageFreeFrame, NewPageEvict,
                      NewPageWait, NewPageNoFrame, NewPageEvicted, Evicting
  <2>3. CASE FetchPage(t)
    BY <2>1, <2>3 DEF FetchPage, FetchLookup, FetchFreeFrame, FetchEvict, FetchWait,
                      FetchNoFrame, FetchEvicted, ReadPage, FetchLoaded, FetchFailed,
                      Evicting, Loading
  <2>4. CASE Evict(t) \/ DeletePage(t)
    BY <2>1, <2>4 DEF Evict, EvictWrite, EvictFailed, Evicting, DeletePage, DeleteWait,
                      DeleteRefused, DeleteResident, DeleteNonResident
  <2> QED BY <2>2, <2>3, <2>4
<1>3. OnlyThread(t)
  <2> USE DEF OnlyThread, Return, Goto, Wait, Inv, TypeOK
  <2>1. CASE NewPage(t)
    BY <2>1 DEF NewPage, NewPageNoId, NewPageFreeFrame, NewPageEvict, NewPageWait,
                NewPageNoFrame, NewPageEvicted, PublishNewPage, StartEviction
  <2>2. CASE FetchPage(t)
    BY <2>2 DEF FetchPage, FetchLookup, FetchFreeFrame, FetchEvict, FetchWait,
                FetchNoFrame, FetchEvicted, ReadPage, FetchLoaded, FetchFailed,
                StartEviction, StartLoad, FetchTurn
  <2>3. CASE Evict(t) \/ DeletePage(t)
    BY <2>3 DEF Evict, EvictWrite, EvictFailed, DeletePage, DeleteWait,
                DeleteRefused, DeleteResident, DeleteNonResident
  <2> QED BY <2>1, <2>2, <2>3
<1> QED BY <1>2, <1>3 DEF FlushesOrNot

\* Every step is of one of these kinds.
LEMMA DebtorMoves ==
  ASSUME Inv, Next
  PROVE  \E t \in Threads : FlushesOrNot(t)
<1>1. PICK t \in Threads :
        \/ Call(t) \/ Step(t) \/ SpuriousWake(t)
        \/ \E p \in Pages : UseGuard(t, p)
  BY DEF Next
<1>2. CASE Call(t)
  BY <1>2 DEF Call, BeginCall, Goto, FlushesOrNot, OnlyThread, Inv, TypeOK
<1>3. CASE NewPage(t) \/ FetchPage(t) \/ Evict(t) \/ DeletePage(t)
  BY <1>3, OtherCalls
<1>4. CASE FlushPage(t)
  <2>1. OnlyThread(t)
    BY <1>4 DEF FlushPage, FlushAllList, FlushUnused, FlushWait, FlushNothing,
                FlushStart, FlushWrite, FlushDone, FlushFailed, FlushNext,
                OnlyThread, Return, Goto, Wait, Inv, TypeOK
  <2> QED BY <1>4, <2>1 DEF FlushesOrNot
<1>5. CASE SpuriousWake(t) \/ \E p \in Pages : UseGuard(t, p)
  BY <1>5 DEF SpuriousWake, UseGuard, ModifyPage, MarkDirty, DropPageGuard,
              FlushesOrNot, OnlyThread
<1> QED BY <1>1, <1>2, <1>3, <1>4, <1>5 DEF Step

\* The debts of a thread that does nothing.
LEMMA QuietDebts ==
  ASSUME DurableInv, Next, Remember, NEW u \in Threads,
         pc'[u] = pc[u], loc'[u] = loc[u]
  PROVE  DebtsOf(u)' /\ ~Returns(u)
<1>1. WellFormed(u) /\ DebtsOf(u) /\ owed[u] \subseteq Pages
  BY DEF DurableInv, Inv, CallsAreWellFormed, PromisesAreKept, HistoryTypes
<1>2. ~Returns(u) /\ ~Begins(u)
  BY <1>1 DEF Returns, Begins, WellFormed, FlushOps
<1>3. owed'[u] \subseteq {p \in owed[u] : ~Changes(p)}
  BY <1>1, <1>2 DEF Remember, Due
<1>4. ASSUME NEW p \in owed'[u] PROVE ~Unmarked(p)' /\ Pays(u, p)'
  <2>1. p \in owed[u] /\ p \in Pages /\ ~Changes(p)
    BY <1>1, <1>3
  <2>2. ~Unmarked(p)
    BY <1>1, <2>1 DEF DebtsOf
  <2>3. OnDisk(p) => OnDisk(p)'
    BY <2>1, <2>2, StaysKept DEF DurableInv, Kept
  <2>4. Pays(u, p)
    BY <1>1, <2>1 DEF DebtsOf
  <2> QED BY <2>1, <2>3, <2>4 DEF Changes, Pays, Unlisted
<1>5. owed'[u] # {} => loc'[u].op \in FlushOps
  BY <1>1, <1>3 DEF DebtsOf
<1> QED BY <1>2, <1>4, <1>5 DEF DebtsOf

\* A call that begins owes what it is asked for.
LEMMA CallDebts ==
  ASSUME DurableInv, Next, Remember, NEW t \in Threads, Call(t)
  PROVE  DebtsOf(t)' /\ ~Returns(t)
<1>1. WellFormed(t) /\ DebtsOf(t) /\ owed[t] \subseteq Pages
  BY DEF DurableInv, Inv, CallsAreWellFormed, PromisesAreKept, HistoryTypes
<1>2. /\ pc[t] = "idle" /\ pc'[t] = "lock" /\ loc[t].op = "none"
      /\ loc'[t].op = "FlushAllPages" => loc'[t].page_id = NoPage
  <2>1. PICK op, p : BeginCall(t, op, p) /\ (op = "FlushAllPages" => p = NoPage)
    BY DEF Call
  <2>2. loc'[t] = [NoCall EXCEPT !.op = op, !.page_id = p]
    BY <2>1 DEF BeginCall, DurableInv, Inv, TypeOK
  <2>3. loc'[t].op = op /\ loc'[t].page_id = p
    BY <2>2 DEF NoCall
  <2> QED BY <1>1, <2>1, <2>3 DEF BeginCall, Goto, WellFormed, DurableInv, Inv, TypeOK
<1>3. owed[t] = {} /\ ~Returns(t)
  BY <1>1, <1>2 DEF DebtsOf, Returns, FlushOps
<1>4. CASE Begins(t)
  <2>1. owed'[t] = {p \in AskedFor(t) : ~Changes(p)}
    BY <1>4 DEF Remember, AskedFor
  <2>2. ASSUME NEW p \in owed'[t] PROVE ~Unmarked(p)' /\ Pays(t, p)'
    BY <1>2, <1>4, <2>1 DEF AskedFor, Changes, Pays, Unlisted, Begins
  <2> QED BY <1>3, <1>4, <2>2 DEF DebtsOf, Begins
<1>5. CASE ~Begins(t)
  <2>1. owed'[t] = {}
    BY <1>3, <1>5 DEF Remember, Due
  <2> QED BY <1>3, <2>1 DEF DebtsOf
<1> QED BY <1>4, <1>5

\* A call of another function owes nothing.
LEMMA OtherDebts ==
  ASSUME DurableInv, Next, Remember, NEW t \in Threads,
         loc[t].op \notin FlushOps, pc[t] # "idle"
  PROVE  DebtsOf(t)' /\ ~Returns(t)
<1>1. owed[t] = {}
  BY DEF DurableInv, PromisesAreKept, DebtsOf
<1>2. owed'[t] = {}
  BY <1>1 DEF Remember, Begins, Due
<1> QED BY <1>2 DEF DebtsOf, Returns

\* A flush call pays its debts before it returns.
LEMMA FlushDebts ==
  ASSUME DurableInv, Next, Remember, ~FlushAllIsComplete, NEW t \in Threads,
         FlushPage(t)
  PROVE  /\ DebtsOf(t)'
         /\ Returns(t) => \A p \in Due(t) : ~Changes(p) => Kept(p)
<1>1. DebtsOf(t) /\ owed[t] \subseteq Pages
  BY DEF DurableInv, PromisesAreKept, HistoryTypes
<1>2. ASSUME NEW p \in Due(t), ~Changes(p)
      PROVE  FlushPays(t, p) /\ ~Unmarked(p) /\ ~Unmarked(p)'
  <2>1. p \in owed[t] /\ p \in Pages
    BY <1>1, <1>2 DEF Due
  <2>2. ~Unmarked(p) /\ Pays(t, p)
    BY <1>1, <2>1 DEF DebtsOf
  <2>3. OnDisk(p) => OnDisk(p)'
    BY <1>2, <2>1, <2>2, StaysKept DEF DurableInv, Kept
  <2> QED BY <1>2, <2>1, <2>2, <2>3, FlushStepPays DEF DurableInv, Changes
<1>3. pc[t] # "idle" /\ loc[t].op \in FlushOps
  <2>1. WellFormed(t)
    BY DEF DurableInv, Inv, CallsAreWellFormed
  <2> QED BY <2>1 DEF FlushPage, FlushAllList, FlushUnused, FlushWait, FlushNothing,
              FlushStart, FlushWrite, FlushDone, FlushFailed, FlushLocked, Locked,
              WellFormed, Flushing, FlushOps
<1>4. CASE pc'[t] = "idle"
  <2>1. owed'[t] = {}
    BY <1>3, <1>4 DEF Remember, Begins
  <2>2. ASSUME Returns(t), NEW p \in Due(t), ~Changes(p) PROVE Kept(p)
    BY <1>2, <2>2 DEF FlushPays, Returns, Kept
  <2> QED BY <2>1, <2>2 DEF DebtsOf
<1>5. CASE pc'[t] # "idle"
  <2>1. owed'[t] = {p \in Due(t) : ~Changes(p)}
    BY <1>1, <1>3, <1>5 DEF Remember, Begins, Due
  <2>2. \A p \in owed'[t] : ~Unmarked(p)' /\ Pays(t, p)'
    BY <1>2, <1>5, <2>1 DEF FlushPays
  <2>3. loc'[t].op \in FlushOps
    <3>1. \A todo : FlushNext(t, todo) => loc'[t].op \in FlushOps
      BY <1>5 DEF FlushNext, Return, Goto, FlushOps, NoCall, DurableInv, Inv, TypeOK
    <3>2. CASE FlushAllList(t) \/ FlushNothing(t) \/ FlushDone(t)
      BY <3>1, <3>2 DEF FlushAllList, FlushNothing, FlushDone
    <3>3. CASE FlushUnused(t) \/ FlushFailed(t)
      BY <1>5, <3>3 DEF FlushUnused, FlushFailed, Return, Goto, DurableInv, Inv, TypeOK
    <3>4. CASE FlushWait(t) \/ FlushWrite(t)
      BY <1>3, <3>4 DEF FlushWait, Wait, FlushWrite
    <3>5. CASE FlushStart(t)
      BY <1>3, <3>5 DEF FlushStart, DurableInv, Inv, TypeOK, Locals
    <3> QED BY <3>2, <3>3, <3>4, <3>5 DEF FlushPage
  <2>4. ~Returns(t)
    BY <1>5 DEF Returns
  <2> QED BY <2>2, <2>3, <2>4 DEF DebtsOf
<1> QED BY <1>4, <1>5

\* All threads together: every debt is paid or still before its thread, and
\* what a call promises when it returns is kept.
LEMMA StepDebts ==
  ASSUME DurableInv, Next, Remember, ~FlushAllIsComplete, NEW u \in Threads
  PROVE  /\ DebtsOf(u)'
         /\ Returns(u) => \A p \in Due(u) : ~Changes(p) => Kept(p)
<1>1. PICK t \in Threads : FlushesOrNot(t)
  BY DebtorMoves DEF DurableInv
<1>2. CASE u # t
  BY <1>1, <1>2, QuietDebts DEF FlushesOrNot, OnlyThread
<1>3. CASE u = t
  BY <1>1, <1>3, QuietDebts, CallDebts, OtherDebts, FlushDebts DEF FlushesOrNot
<1> QED BY <1>2, <1>3

\* The history variables keep their types.
LEMMA HistoryStays ==
  ASSUME HistoryTypes, Remember
  PROVE  HistoryTypes'
<1>1. /\ unsynced' \subseteq Pages /\ sync' \subseteq Pages
      /\ owed' \in [Threads -> SUBSET Pages]
      /\ durable' \in [Pages -> Content \cup {NoPage}]
  BY DEF HistoryTypes, Remember, Due, AskedFor
<1>2. stored' \subseteq Pages
  BY DEF HistoryTypes, Remember, Due
<1> QED BY <1>1, <1>2 DEF HistoryTypes

\* A step of the buffer manager keeps the promises, or ends them.
LEMMA StepDurable ==
  ASSUME DurableInv, PinsFit, ~FlushAllIsComplete, Next, Remember
  PROVE  DurableInv'
<1>1. Inv' /\ ContentsInv'
  BY NextInv, NextContents DEF DurableInv, KeepsContents
<1>2. HistoryTypes'
  BY HistoryStays DEF DurableInv
<1>3. \A t \in Threads : DebtsOf(t)'
  BY StepDebts
<1>4. ASSUME NEW p \in stored' \cup sync' PROVE Kept(p)'
  <2>1. p \in Pages
    BY <1>2 DEF HistoryTypes
  <2>2. ~Changes(p) /\ (p \in stored \cup sync \/ \E u \in Threads : Returns(u) /\ p \in Due(u))
    BY <1>4, <2>1 DEF Remember
  <2>3. Kept(p)
    BY <2>2, StepDebts DEF DurableInv, PromisesAreKept
  <2> QED BY <2>1, <2>2, <2>3, StaysKept DEF DurableInv
<1>5. ASSUME NEW p \in Pages, durable'[p] # NoPage
      PROVE  Kept(p)' /\ disk'[p] = durable'[p] /\ p \notin unsynced'
  <2>1. ~Changes(p) /\ durable'[p] = durable[p]
    BY <1>5 DEF Remember
  <2>2. Kept(p) /\ disk[p] = durable[p] /\ p \notin unsynced
    BY <1>5, <2>1 DEF DurableInv, PromisesAreKept
  <2>3. Kept(p)' /\ disk'[p] = disk[p]
    BY <2>1, <2>2, StaysKept DEF DurableInv
  <2>4. p \notin unsynced'
    BY <2>2, <2>3 DEF Remember
  <2> QED BY <2>1, <2>2, <2>3, <2>4
<1> QED BY <1>1, <1>2, <1>3, <1>4, <1>5 DEF DurableInv, PromisesAreKept

\* Steps that change nothing but the promises.
LEMMA OutsideStep ==
  ASSUME DurableInv, UNCHANGED vars
  PROVE  /\ Inv' /\ ContentsInv'
         /\ \A p \in Pages : Kept(p)' <=> Kept(p)
         /\ owed' = owed => \A t \in Threads : DebtsOf(t)'
<1>1. Inv' /\ ContentsInv'
  BY StutterInv DEF DurableInv, vars, ContentsInv, CleanMatchesDisk, TransfersAreTrue
<1>2. \A p : /\ OnDisk(p)' <=> OnDisk(p)
             /\ Unmarked(p)' <=> Unmarked(p)
  BY DEF vars, OnDisk, PageContent, Unmarked
<1>3. owed' = owed => \A t \in Threads : DebtsOf(t)'
  BY <1>2 DEF DurableInv, PromisesAreKept, DebtsOf, Pays, Unlisted, vars
<1> QED BY <1>1, <1>2, <1>3 DEF Kept

\* Sync promises what is stored, and keeps the promise when it returns.
LEMMA SyncDurable ==
  ASSUME DurableInv, BeginSync \/ EndSync \/ SyncFails \/ UNCHANGED allVars
  PROVE  DurableInv'
<1>1. UNCHANGED vars /\ owed' = owed
  BY DEF BeginSync, EndSync, SyncFails, allVars, history
<1>2. /\ Inv' /\ ContentsInv' /\ \A t \in Threads : DebtsOf(t)'
      /\ \A p \in Pages : Kept(p)' <=> Kept(p)
  BY <1>1, OutsideStep
<1>3. HistoryTypes'
  <2>1. \A p \in Pages : PageContent(p) \in Content
    BY PageFacts, ConstantFacts DEF DurableInv, Inv, TypeOK, PageContent, PageEntries,
       TablesAgree
  <2> QED BY <2>1 DEF DurableInv, HistoryTypes, BeginSync, EndSync, SyncFails, allVars,
                      history
<1>4. \A p \in stored' \cup sync' : Kept(p)'
  BY <1>2, <1>3 DEF DurableInv, PromisesAreKept, HistoryTypes, BeginSync, EndSync,
                    SyncFails, allVars, history
<1>5. ASSUME NEW p \in Pages, durable'[p] # NoPage
      PROVE  Kept(p) /\ disk[p] = durable'[p] /\ p \notin unsynced'
  <2>1. CASE EndSync /\ p \in sync
    BY <2>1 DEF EndSync, DurableInv, PromisesAreKept, Kept, OnDisk
  <2>2. CASE ~EndSync \/ p \notin sync
    <3>1. durable'[p] = durable[p] /\ unsynced' \subseteq unsynced
      BY <2>2 DEF BeginSync, EndSync, SyncFails, allVars, history
    <3> QED BY <1>5, <3>1 DEF DurableInv, PromisesAreKept
  <2> QED BY <2>1, <2>2
<1>6. disk' = disk
  BY <1>1 DEF vars
<1> QED BY <1>2, <1>3, <1>4, <1>5, <1>6 DEF DurableInv, PromisesAreKept

\* A buffer manager that has just been constructed has nothing in its frames.
LEMMA FreshContents == Fresh => ContentsInv
<1> SUFFICES ASSUME Fresh PROVE ContentsInv
  OBVIOUS
<1>1. \A p \in Pages : pages[p].state = "kUnused"
  BY EntryFields DEF Fresh, UnusedEntry, PageState
<1>2. \A t \in Threads : pc[t] = "idle"
  BY DEF Fresh
<1> QED BY <1>1, <1>2 DEF ContentsInv, CleanMatchesDisk, TransfersAreTrue

\* The same after a restart.
LEMMA FreshAgain == Fresh' => Inv' /\ ContentsInv'
BY FreshInv, FreshContents, PTL

\* A restart ends every promise but those of Sync, and a power failure takes
\* only what was not synced.
LEMMA RestartDurable ==
  ASSUME DurableInv, Destroy \/ PowerFailure
  PROVE  DurableInv'
<1>1. Restart
  BY DEF Destroy, PowerFailure
<1>2. /\ disk' \in [Pages -> Content] /\ unsynced' \subseteq Pages
      /\ \A p \in Pages : p \notin unsynced => disk'[p] = disk[p] /\ p \notin unsynced'
  BY DEF Destroy, PowerFailure, DurableInv, HistoryTypes, Inv, TypeOK, Content
<1>3. Fresh'
  BY <1>1, <1>2 DEF Restart, Fresh
<1>4. Inv' /\ ContentsInv'
  BY <1>3, FreshAgain
<1>5. HistoryTypes'
  BY <1>1, <1>2 DEF Restart, DurableInv, HistoryTypes
<1>6. \A p \in Pages : Kept(p)'
  <2>1. \A p \in Pages : pages'[p].state = "kUnused"
    BY <1>1, EntryFields DEF Restart, UnusedEntry, PageState
  <2> QED BY <2>1 DEF Kept, OnDisk, PageContent, Unmarked
<1>7. \A t \in Threads : DebtsOf(t)'
  BY <1>1 DEF Restart, DebtsOf
<1>8. stored' = {} /\ sync' = {} /\ durable' = durable
  BY <1>1 DEF Restart
<1> QED BY <1>2, <1>4, <1>5, <1>6, <1>7, <1>8 DEF DurableInv, PromisesAreKept

\* DurableInv holds throughout.
LEMMA DurableInvariance ==
  PinsFit /\ ~FlushAllIsComplete => (DurableSpec => []DurableInv)
<1> SUFFICES ASSUME PinsFit, ~FlushAllIsComplete PROVE DurableSpec => []DurableInv
  OBVIOUS
<1>1. DInit => DurableInv
  <2> SUFFICES ASSUME DInit PROVE DurableInv
    OBVIOUS
  <2>1. Fresh
    BY DEF DInit, Init, Fresh, Content
  <2>2. HistoryTypes /\ PromisesAreKept
    BY DEF DInit, HistoryTypes, PromisesAreKept, DebtsOf
  <2> QED BY <2>1, <2>2, FreshInv, FreshContents DEF DurableInv
<1>2. DurableInv /\ [DNext]_allVars => DurableInv'
  BY StepDurable, SyncDurable, RestartDurable DEF DNext
<1> QED BY <1>1, <1>2, PTL DEF DurableSpec

\* What a flush was asked for is in the file when it returns, and stays there
\* until the page is changed: for any number of threads, pages and frames,
\* whatever is evicted, read, flushed or deleted meanwhile and whatever I/O
\* fails.  FlushAllPages is taken to promise all but the pages that are in
\* eviction when it lists the dirty frames.
THEOREM FlushedAlwaysStored ==
  PinsFit /\ ~FlushAllIsComplete => (DurableSpec => []FlushedIsStored)
<1>1. DurableInv => FlushedIsStored
  BY DEF DurableInv, PromisesAreKept, Kept, OnDisk, FlushedIsStored
<1> QED BY <1>1, DurableInvariance, PTL

\* What was flushed before a Sync that returned is in the file after any
\* number of restarts and power failures, until the page is changed.
THEOREM SyncedAlwaysSurvives ==
  PinsFit /\ ~FlushAllIsComplete => (DurableSpec => []SyncedSurvives)
<1>1. DurableInv => SyncedSurvives
  BY DEF DurableInv, PromisesAreKept, SyncedSurvives
<1> QED BY <1>1, DurableInvariance, PTL
=============================================================================
