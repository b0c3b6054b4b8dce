----------------------- MODULE BufferManagerInvariant -----------------------
(***************************************************************************)
(* The inductive invariant of the buffer manager, and the kinds of steps   *)
(* that preserve it: lemmas on what a step of one thread does to the       *)
(* tables and to the other calls, from which BufferManagerProofs treats    *)
(* each action.                                                            *)
(***************************************************************************)
EXTENDS BufferManagerProperties, FiniteSetTheorems, TLAPS

\* The inductive invariant: the type invariant, and how the tables, guards,
\* pins, replacer and calls depend on each other.  No conjunct is inductive
\* without the others.
Inv ==
  /\ TypeOK
  /\ TablesAgree
  /\ GuardsAreSafe
  /\ PinsAreExact
  /\ ReplacerIsExact
  /\ CallsKeepTheirFrame
  /\ TransferIsExclusive
  /\ CallsAreWellFormed

\* No more pins than pin_count can count: one per thread and page, and one
\* for each thread's own call.  FlushPage relies on it.
PinsFit == Cardinality(Threads \X (Pages \cup {NoPage})) <= PinMax

-----------------------------------------------------------------------------
(* Constants and records.                                                  *)

\* What the assumptions say, in the form in which the proofs use it.
LEMMA ConstantFacts ==
  /\ IsFiniteSet(Threads) /\ IsFiniteSet(Pages)
  /\ NoPage \notin Pages /\ NoFrame \notin Frames
  /\ PinMax \in Nat /\ 1 <= PinMax
  /\ Calls \subseteq {"NewPage", "FetchPage", "FlushPage", "FlushAllPages",
                      "DeletePage"}
  BY Constants DEF ConstantAssumption

\* A pin, while the counter is below its limit, adds one to pin_count only.
LEMMA PinnedFields ==
  ASSUME NEW m \in FrameMetas, m.pin_count < PinMax
  PROVE  /\ Pinned(m) \in FrameMetas
         /\ Pinned(m).pin_count = m.pin_count + 1
         /\ Pinned(m).page_id = m.page_id
         /\ Pinned(m).state = m.state
         /\ Pinned(m).dirty = m.dirty
         /\ Pinned(m).dirty_epoch = m.dirty_epoch
<1>1. m.pin_count \in Nat /\ (m.pin_count + 1) % (PinMax + 1) = m.pin_count + 1
  BY ConstantFacts DEF FrameMetas
<1> QED BY <1>1, ConstantFacts DEF FrameMetas, Pinned

\* An unpin of a pinned frame subtracts one from pin_count only.
LEMMA UnpinnedFields ==
  ASSUME NEW m \in FrameMetas, m.pin_count > 0
  PROVE  /\ Unpinned(m) \in FrameMetas
         /\ Unpinned(m).pin_count = m.pin_count - 1
         /\ Unpinned(m).page_id = m.page_id
         /\ Unpinned(m).state = m.state
         /\ Unpinned(m).dirty = m.dirty
         /\ Unpinned(m).dirty_epoch = m.dirty_epoch
  BY ConstantFacts DEF FrameMetas, Unpinned

\* FlushPage's last section may clear dirty and changes nothing else.
LEMMA CleanedFields ==
  ASSUME NEW m \in FrameMetas, NEW p, NEW e
  PROVE  /\ Cleaned(m, p, e) \in FrameMetas
         /\ Cleaned(m, p, e).pin_count = m.pin_count
         /\ Cleaned(m, p, e).page_id = m.page_id
         /\ Cleaned(m, p, e).state = m.state
         /\ Cleaned(m, p, e).dirty_epoch = m.dirty_epoch
         /\ Cleaned(m, p, e).dirty
              = (m.dirty /\ ~(m.page_id = p /\ m.state = "kResident"
                                            /\ m.dirty_epoch = e))
  BY DEF FrameMetas, Cleaned

\* MarkDirty sets dirty, counts the epoch on and changes nothing else.
LEMMA MarkedFields ==
  ASSUME NEW m \in FrameMetas
  PROVE  /\ Marked(m) \in FrameMetas
         /\ Marked(m).pin_count = m.pin_count
         /\ Marked(m).page_id = m.page_id
         /\ Marked(m).state = m.state
         /\ Marked(m).dirty
         /\ m.dirty_epoch \in Nat
         /\ Marked(m).dirty_epoch = m.dirty_epoch + 1
<1>1. m.dirty_epoch \in Nat /\ m.dirty_epoch + 1 \in Nat
  BY DEF FrameMetas
<1> QED BY <1>1 DEF FrameMetas, Marked

\* The metadata of a free frame.
LEMMA FreeMetaFields ==
  /\ FreeMeta \in FrameMetas
  /\ FreeMeta.state = "kFree"
  BY ConstantFacts DEF FreeMeta, FrameMeta, FrameMetas, FrameState

\* A page-table entry is made of the state and frame it is given.
LEMMA EntryFields ==
  ASSUME NEW s \in PageState, NEW f \in Frames \cup {NoFrame}
  PROVE  /\ PageEntry(s, f) \in PageEntries
         /\ PageEntry(s, f).state = s
         /\ PageEntry(s, f).frame_id = f
  BY DEF PageEntry, PageEntries

\* The locals of an idle thread.
LEMMA NoCallFields ==
  /\ NoCall \in Locals
  /\ NoCall.op = "none"
  BY DEF NoCall, Locals, Ops

-----------------------------------------------------------------------------
(* What a step of one thread does to the others.                           *)

\* Only thread t moves.
OnlyThread(t) ==
  \A u \in Threads : u # t => pc'[u] = pc[u] /\ loc'[u] = loc[u]

\* Thread t goes to label with locals l, the others stay.
LEMMA ThreadMoves ==
  ASSUME TypeOK, NEW t \in Threads, NEW label \in Labels, NEW l \in Locals,
         pc' = [pc EXCEPT ![t] = label], loc' = [loc EXCEPT ![t] = l]
  PROVE  /\ pc' \in [Threads -> Labels]
         /\ loc' \in [Threads -> Locals]
         /\ pc'[t] = label /\ loc'[t] = l
         /\ OnlyThread(t)
  BY DEF TypeOK, OnlyThread

\* Thread t returns, the others stay.
LEMMA ThreadReturns ==
  ASSUME TypeOK, NEW t \in Threads, Return(t)
  PROVE  /\ pc' \in [Threads -> Labels]
         /\ loc' \in [Threads -> Locals]
         /\ pc'[t] = "idle" /\ loc'[t].op = "none"
         /\ OnlyThread(t)
  BY NoCallFields DEF TypeOK, OnlyThread, Return, Goto, Labels

\* A returning thread's own obligations.
LEMMA Returned ==
  ASSUME NEW t \in Threads, pc'[t] = "idle", loc'[t].op = "none"
  PROVE  /\ WellFormed(t)' /\ KeepsItsFrame(t, loc[t].frame_id)'
         /\ ~Moving(t)' /\ ~Flushing(t)' /\ ~(Loading(t) \/ Flushing(t))'
  BY DEF WellFormed, KeepsItsFrame, Moving, Evicting, Loading, Flushing

\* The frame of a busy call, and the page in it.
LEMMA BusyFrames ==
  ASSUME Inv, NEW u \in Threads
  PROVE  /\ Evicting(u) =>
              /\ loc[u].frame_id \in Frames
              /\ loc[u].old_page_id \in Pages
              /\ PageIs(loc[u].old_page_id, "kEvicting", loc[u].frame_id)
              /\ meta[loc[u].frame_id].page_id = loc[u].old_page_id
              /\ meta[loc[u].frame_id].state = "kEvicting"
         /\ Loading(u) =>
              /\ loc[u].frame_id \in Frames
              /\ loc[u].page_id \in Pages
              /\ PageIs(loc[u].page_id, "kLoading", loc[u].frame_id)
              /\ meta[loc[u].frame_id].page_id = loc[u].page_id
              /\ meta[loc[u].frame_id].state = "kLoading"
         /\ Flushing(u) =>
              /\ loc[u].frame_id \in Frames
              /\ loc[u].page_id \in Pages
              /\ Holds(loc[u].frame_id, loc[u].page_id)
              /\ meta[loc[u].frame_id].page_id = loc[u].page_id
              /\ meta[loc[u].frame_id].state = "kResident"
<1>1. KeepsItsFrame(u, loc[u].frame_id) /\ WellFormed(u)
  BY DEF Inv, CallsKeepTheirFrame, CallsAreWellFormed
<1>2. ASSUME NEW p \in Pages, NEW s, NEW f \in Frames, PageIs(p, s, f)
      PROVE  meta[f].page_id = p /\ meta[f].state = s
  BY <1>2, ConstantFacts DEF Inv, TablesAgree, PageIs
<1>3. CASE Evicting(u)
  BY <1>1, <1>2, <1>3 DEF KeepsItsFrame, Evicting, Loading, Flushing
<1>4. CASE Loading(u)
  BY <1>1, <1>2, <1>4 DEF KeepsItsFrame, WellFormed, Evicting, Loading, Flushing
<1>5. CASE Flushing(u)
  BY <1>1, <1>2, <1>5
     DEF KeepsItsFrame, WellFormed, Holds, Evicting, Loading, Flushing
<1> QED BY <1>3, <1>4, <1>5

\* The page in a frame, and the pages that are in none.
LEMMA PageFacts ==
  ASSUME Inv, NEW q \in Pages
  PROVE  /\ pages[q] \in PageEntries
         /\ pages[q].state \in {"kUnused", "kNonResident"} <=> pages[q].frame_id = NoFrame
         /\ \A f \in Frames : pages[q].frame_id = f =>
              /\ meta[f].page_id = q /\ meta[f].state = pages[q].state
              /\ pages[q].state \in {"kLoading", "kResident", "kEvicting"}
  BY ConstantFacts DEF Inv, TypeOK, TablesAgree

\* The frame in which a page is resident.
LEMMA ResidentFrame ==
  ASSUME Inv, NEW p \in Pages, pages[p].state = "kResident"
  PROVE  /\ pages[p].frame_id \in Frames
         /\ Holds(pages[p].frame_id, p)
         /\ meta[pages[p].frame_id].page_id = p
         /\ meta[pages[p].frame_id].state = "kResident"
  BY DEF Inv, TablesAgree, Holds, PageIs

\* Calls that do not use frame f keep theirs when only f and its page change.
LEMMA OthersKeepTheirFrame ==
  ASSUME Inv, NEW t \in Threads, NEW f, OnlyThread(t),
         \A g \in Frames : g # f => meta'[g] = meta[g],
         \A q \in Pages : pages[q].frame_id \in Frames \ {f} => pages'[q] = pages[q],
         \A u \in Threads : u # t /\ (Moving(u) \/ Flushing(u)) => loc[u].frame_id # f
  PROVE  \A u \in Threads : u # t => KeepsItsFrame(u, loc[u].frame_id)'
<1> SUFFICES ASSUME NEW u \in Threads, u # t
             PROVE  KeepsItsFrame(u, loc[u].frame_id)'
  OBVIOUS
<1>1. KeepsItsFrame(u, loc[u].frame_id)
  BY DEF Inv, CallsKeepTheirFrame
<1>2. pc'[u] = pc[u] /\ loc'[u] = loc[u]
  BY DEF OnlyThread
<1>3. CASE Evicting(u)
  BY <1>1, <1>2, <1>3, BusyFrames
     DEF KeepsItsFrame, Moving, Evicting, Loading, Flushing, PageIs
<1>4. CASE Loading(u)
  BY <1>1, <1>2, <1>4, BusyFrames
     DEF KeepsItsFrame, Moving, Evicting, Loading, Flushing, PageIs
<1>5. CASE Flushing(u)
  BY <1>1, <1>2, <1>5, BusyFrames
     DEF KeepsItsFrame, Moving, Evicting, Loading, Flushing, PageIs, Holds
<1>6. CASE ~(Evicting(u) \/ Loading(u) \/ Flushing(u))
  BY <1>2, <1>6 DEF KeepsItsFrame, Evicting, Loading, Flushing
<1> QED BY <1>3, <1>4, <1>5, <1>6

\* A step that leaves the page table alone and only counts pins, or marks or
\* cleans a resident frame f, disturbs no other call.
LEMMA OthersKeepPinnedFrame ==
  ASSUME Inv, NEW f \in Frames, pages' = pages, meta[f].state = "kResident",
         \A g \in Frames : g # f => meta'[g] = meta[g],
         meta[f].dirty_epoch \in Nat, meta'[f].dirty_epoch \in Nat,
         meta[f].dirty_epoch <= meta'[f].dirty_epoch,
         NEW u \in Threads, pc'[u] = pc[u], loc'[u] = loc[u]
  PROVE  KeepsItsFrame(u, loc[u].frame_id)'
<1>1. KeepsItsFrame(u, loc[u].frame_id)
  BY DEF Inv, CallsKeepTheirFrame
<1>2. pc'[u] = pc[u] /\ loc'[u] = loc[u]
  OBVIOUS
<1>3. CASE Evicting(u)
  BY <1>1, <1>2, <1>3, BusyFrames
     DEF KeepsItsFrame, Evicting, Loading, Flushing, PageIs
<1>4. CASE Loading(u)
  BY <1>1, <1>2, <1>4, BusyFrames
     DEF KeepsItsFrame, Evicting, Loading, Flushing, PageIs
<1>5. CASE Flushing(u)
  <2>1. loc[u].epoch \in Nat
    BY DEF Inv, TypeOK, Locals
  <2>2. loc[u].epoch <= meta'[loc[u].frame_id].dirty_epoch
    BY <1>1, <1>5, <2>1, BusyFrames DEF KeepsItsFrame
  <2> QED BY <1>1, <1>2, <1>5, <2>2, BusyFrames
          DEF KeepsItsFrame, Evicting, Loading, Flushing, PageIs, Holds
<1>6. CASE ~(Evicting(u) \/ Loading(u) \/ Flushing(u))
  BY <1>2, <1>6 DEF KeepsItsFrame, Evicting, Loading, Flushing
<1> QED BY <1>3, <1>4, <1>5, <1>6

\* Thread u's call stays well formed when its guards are left alone.
LEMMA OthersStayWellFormed ==
  ASSUME Inv, NEW u \in Threads, pc'[u] = pc[u], loc'[u] = loc[u],
         \A q \in Pages : guard[u][q] = NoFrame => guard'[u][q] = NoFrame
  PROVE  WellFormed(u)'
<1>1. WellFormed(u)
  BY DEF Inv, CallsAreWellFormed
<1> QED BY <1>1 DEF WellFormed, Evicting, Loading, Flushing

\* Exclusiveness is at risk only where t's new frame is someone else's.
LEMMA StaysExclusive ==
  ASSUME Inv, NEW t \in Threads, OnlyThread(t),
         Moving(t)' => \A u \in Threads :
           u # t /\ (Moving(u) \/ Flushing(u)) => loc[u].frame_id # loc'[t].frame_id,
         Flushing(t)' => \A u \in Threads :
           u # t /\ Moving(u) => loc[u].frame_id # loc'[t].frame_id
  PROVE  \A u, v \in Threads : Exclusive(u, v)'
<1> SUFFICES ASSUME NEW u \in Threads, NEW v \in Threads
             PROVE  Exclusive(u, v)'
  OBVIOUS
<1>1. Exclusive(u, v)
  BY DEF Inv, TransferIsExclusive
<1>2. \A w \in Threads : w # t =>
        /\ Moving(w)' <=> Moving(w)
        /\ Flushing(w)' <=> Flushing(w)
        /\ loc'[w] = loc[w]
  BY DEF OnlyThread, Moving, Evicting, Loading, Flushing
<1> QED BY <1>1, <1>2 DEF Exclusive

\* A page in transit keeps its owner, or gets t.
LEMMA StaysOwned ==
  ASSUME Inv, NEW t \in Threads, OnlyThread(t), NEW p \in Pages,
         Transient(pages, p)' =>
           \/ Moving(t)' /\ loc'[t].frame_id = pages'[p].frame_id
           \/ /\ Transient(pages, p) /\ pages'[p].frame_id = pages[p].frame_id
              /\ Moving(t) => loc[t].frame_id # pages[p].frame_id
  PROVE  Owned(p)'
<1>1. Owned(p)
  BY DEF Inv, TransferIsExclusive
<1>2. \A w \in Threads : w # t => (Moving(w)' <=> Moving(w)) /\ loc'[w] = loc[w]
  BY DEF OnlyThread, Moving, Evicting, Loading
<1> QED BY <1>1, <1>2 DEF Owned

-----------------------------------------------------------------------------
(* Holders.                                                                *)

\* A frame has finitely many holders, and fewer than there can be when
\* someone is not one of them.
LEMMA HoldersFinite ==
  ASSUME NEW f
  PROVE  /\ IsFiniteSet(Holders(f))
         /\ Cardinality(Holders(f)) \in Nat
         /\ Cardinality(Holders(f)) = 0 <=> Holders(f) = {}
         /\ Cardinality(Threads \X (Pages \cup {NoPage})) \in Nat
         /\ \A h \in Threads \X (Pages \cup {NoPage}) : h \notin Holders(f) =>
              Cardinality(Holders(f)) < Cardinality(Threads \X (Pages \cup {NoPage}))
<1> DEFINE All == Threads \X (Pages \cup {NoPage})
<1>1. IsFiniteSet(Threads) /\ IsFiniteSet(Pages \cup {NoPage})
  BY ConstantFacts, FS_AddElement
<1>2. IsFiniteSet(All)
  BY <1>1, FS_Product
<1>3. Holders(f) \in SUBSET All
  BY DEF Holders
<1> HIDE DEF All
<1>4. /\ IsFiniteSet(Holders(f))
      /\ Cardinality(Holders(f)) <= Cardinality(All)
      /\ Cardinality(All) = Cardinality(Holders(f)) => All = Holders(f)
  BY <1>2, <1>3, FS_Subset
<1>5. Cardinality(Holders(f)) \in Nat /\ Cardinality(All) \in Nat
  BY <1>2, <1>4, FS_CardinalityType
<1>6. Cardinality(Holders(f)) = 0 <=> Holders(f) = {}
  BY <1>4, FS_EmptySet
<1>7. ASSUME NEW h \in All, h \notin Holders(f)
      PROVE  Cardinality(Holders(f)) < Cardinality(All)
  BY <1>4, <1>5, <1>7
<1> QED BY <1>4, <1>5, <1>6, <1>7 DEF All

\* Guards come and go on f only, t's call uses f only: other frames keep
\* their holders.
LEMMA HoldersElsewhere ==
  ASSUME NEW t \in Threads, NEW f, OnlyThread(t),
         \A u \in Threads, q \in Pages :
           \/ guard'[u][q] = guard[u][q]
           \/ guard'[u][q] \in {f, NoFrame} /\ guard[u][q] \in {f, NoFrame},
         \/ pc'[t] = pc[t] /\ loc'[t] = loc[t]
         \/ /\ Loading(t) \/ Flushing(t) => loc[t].frame_id = f
            /\ (Loading(t) \/ Flushing(t))' => loc'[t].frame_id = f
  PROVE  \A g \in Frames : g # f => Holders(g)' = Holders(g)
<1> SUFFICES ASSUME NEW g \in Frames, g # f
             PROVE  Holders(g)' = Holders(g)
  OBVIOUS
<1>1. \A u \in Threads, q \in Pages : guard'[u][q] = g <=> guard[u][q] = g
  BY ConstantFacts
<1>2. \A u \in Threads : /\ (Loading(u) \/ Flushing(u)) /\ loc[u].frame_id = g
                         <=> (Loading(u) \/ Flushing(u))' /\ loc'[u].frame_id = g
  <2> SUFFICES ASSUME NEW u \in Threads
               PROVE  (Loading(u) \/ Flushing(u)) /\ loc[u].frame_id = g
                      <=> (Loading(u) \/ Flushing(u))' /\ loc'[u].frame_id = g
    OBVIOUS
  <2>1. CASE u = t
    BY <2>1 DEF Loading, Flushing
  <2>2. CASE u # t
    BY <2>2 DEF OnlyThread, Loading, Flushing
  <2> QED BY <2>1, <2>2
<1>3. \A h \in Threads \X (Pages \cup {NoPage}) :
        h \in Holders(g)' <=> h \in Holders(g)
  BY <1>1, <1>2, ConstantFacts DEF Holders
<1> QED BY <1>3 DEF Holders

\* A frame that is neither resident nor loading has no holder ...
LEMMA NoHolders ==
  ASSUME Inv, NEW f \in Frames, meta[f].state \in {"kFree", "kEvicting"}
  PROVE  Holders(f) = {}
<1>1. \A u \in Threads, q \in Pages : guard[u][q] # f
  BY ConstantFacts DEF Inv, GuardsAreSafe
<1>2. \A u \in Threads : Loading(u) \/ Flushing(u) => loc[u].frame_id # f
  BY BusyFrames
<1> QED BY <1>1, <1>2 DEF Holders

\* ... and neither has an unpinned resident frame.
LEMMA UnpinnedHasNoHolders ==
  ASSUME Inv, NEW p \in Pages, NEW f \in Frames, Holds(f, p), meta[f].pin_count = 0
  PROVE  Holders(f) = {}
<1>1. Cardinality(Holders(f)) = 0
  BY ConstantFacts DEF Inv, PinsAreExact, Holds, PageIs
<1> QED BY <1>1, HoldersFinite

\* A frame without holders that is not being evicted is used by no call.
LEMMA NobodyUses ==
  ASSUME Inv, NEW f \in Frames, Holders(f) = {}, meta[f].state # "kEvicting"
  PROVE  \A u \in Threads : Moving(u) \/ Flushing(u) => loc[u].frame_id # f
<1> SUFFICES ASSUME NEW u \in Threads, Moving(u) \/ Flushing(u), loc[u].frame_id = f
             PROVE  FALSE
  OBVIOUS
<1>1. CASE Evicting(u)
  BY <1>1, BusyFrames
<1>2. CASE Loading(u) \/ Flushing(u)
  <2>1. <<u, NoPage>> \in Holders(f)
    BY <1>2 DEF Holders
  <2> QED BY <2>1
<1> QED BY <1>1, <1>2 DEF Moving

\* The frame of t's own transfer is used by no other call.
LEMMA NobodyElseUses ==
  ASSUME Inv, NEW t \in Threads, Moving(t)
  PROVE  \A u \in Threads :
           u # t /\ (Moving(u) \/ Flushing(u)) => loc[u].frame_id # loc[t].frame_id
  BY DEF Inv, TransferIsExclusive, Exclusive

\* The only holder of a frame that is being loaded is the loading call.
LEMMA LoadingHolder ==
  ASSUME Inv, NEW t \in Threads, Loading(t)
  PROVE  Holders(loc[t].frame_id) = {<<t, NoPage>>}
<1> DEFINE f == loc[t].frame_id
<1>1. f \in Frames /\ meta[f].state = "kLoading"
  BY BusyFrames
<1>2. \A u \in Threads, q \in Pages : guard[u][q] # f
  BY <1>1, ConstantFacts DEF Inv, GuardsAreSafe
<1>3. \A u \in Threads : (Loading(u) \/ Flushing(u)) /\ loc[u].frame_id = f => u = t
  BY NobodyElseUses DEF Moving
<1> HIDE DEF f
<1>4. \A h : h \in Holders(f) <=> h = <<t, NoPage>>
  <2>1. <<t, NoPage>> \in Holders(f)
    BY DEF Holders, f
  <2>2. ASSUME NEW h \in Holders(f) PROVE h = <<t, NoPage>>
    <3>1. h \in Threads \X (Pages \cup {NoPage})
      BY DEF Holders
    <3>2. h[2] = NoPage
      BY <1>2, <3>1 DEF Holders
    <3>3. h[1] = t
      BY <1>3, <3>1, <3>2 DEF Holders
    <3> QED BY <3>1, <3>2, <3>3
  <2> QED BY <2>1, <2>2
<1> QED BY <1>4 DEF f

\* No guard refers to a frame that at most a transfer of t holds.
LEMMA UnheldHasNoGuard ==
  ASSUME NEW t, NEW f, Holders(f) \subseteq {<<t, NoPage>>}
  PROVE  \A u \in Threads, q \in Pages : guard[u][q] # f
<1> SUFFICES ASSUME NEW u \in Threads, NEW q \in Pages, guard[u][q] = f
             PROVE  FALSE
  OBVIOUS
<1>1. <<u, q>> \in Holders(f)
  BY ConstantFacts DEF Holders
<1> QED BY <1>1, ConstantFacts

\* How the holders of a frame that nobody but t holds change.
LEMMA StaysUnheld ==
  ASSUME NEW t \in Threads, NEW f, OnlyThread(t), guard' = guard,
         Holders(f) \subseteq {<<t, NoPage>>},
         ~(Loading(t) \/ Flushing(t))'
  PROVE  Holders(f)' = {} /\ Cardinality(Holders(f)') = 0
<1>1. ASSUME NEW h \in Holders(f)' PROVE FALSE
  <2>1. h \in Threads \X (Pages \cup {NoPage})
    BY DEF Holders
  <2>2. CASE h[2] = NoPage
    <3>1. (Loading(h[1]) \/ Flushing(h[1]))' /\ loc'[h[1]].frame_id = f
      BY <2>1, <2>2 DEF Holders
    <3>2. h[1] # t /\ (Loading(h[1]) \/ Flushing(h[1])) /\ loc[h[1]].frame_id = f
      BY <2>1, <3>1 DEF OnlyThread, Loading, Flushing
    <3>3. h \in Holders(f)
      BY <2>1, <2>2, <3>2 DEF Holders
    <3> QED BY <2>1, <3>2, <3>3
  <2>3. CASE h[2] # NoPage
    <3>1. h \in Holders(f)
      BY <2>1, <2>3 DEF Holders
    <3> QED BY <2>1, <2>3, <3>1
  <2> QED BY <2>2, <2>3
<1> QED BY <1>1, FS_EmptySet

\* A call that starts to load a page into a frame is its only holder ...
LEMMA LoaderHolds ==
  ASSUME NEW t \in Threads, NEW f, OnlyThread(t), guard' = guard,
         Holders(f) = {}, Loading(t)', loc'[t].frame_id = f
  PROVE  Cardinality(Holders(f)') = 1
<1>1. ASSUME NEW h \in Holders(f)' PROVE h = <<t, NoPage>>
  <2>1. h \in Threads \X (Pages \cup {NoPage})
    BY DEF Holders
  <2>2. h[2] = NoPage
    <3>1. h[2] # NoPage => h \in Holders(f)
      BY <2>1 DEF Holders
    <3> QED BY <3>1
  <2>3. h[1] = t
    <3>1. h[1] # t => h \in Holders(f)
      BY <2>1, <2>2 DEF Holders, OnlyThread, Loading, Flushing
    <3> QED BY <3>1
  <2> QED BY <2>1, <2>2, <2>3
<1>2. <<t, NoPage>> \in Holders(f)'
  BY DEF Holders
<1>3. Holders(f)' = {<<t, NoPage>>}
  BY <1>1, <1>2
<1> QED BY <1>3, FS_Singleton

\* ... and so is the guard for a page that has just got its frame.
LEMMA GuardHolds ==
  ASSUME NEW t \in Threads, NEW p \in Pages, NEW f, OnlyThread(t), pc'[t] = "idle",
         Holders(f) \subseteq {<<t, NoPage>>},
         \A u \in Threads, q \in Pages :
           guard'[u][q] = IF u = t /\ q = p THEN f ELSE guard[u][q]
  PROVE  Cardinality(Holders(f)') = 1
<1>1. ASSUME NEW h \in Holders(f)' PROVE h = <<t, p>>
  <2>1. h \in Threads \X (Pages \cup {NoPage})
    BY DEF Holders
  <2>2. CASE h[2] = NoPage
    <3>1. (Loading(h[1]) \/ Flushing(h[1]))' /\ loc'[h[1]].frame_id = f
      BY <2>1, <2>2 DEF Holders
    <3>2. h[1] # t /\ (Loading(h[1]) \/ Flushing(h[1])) /\ loc[h[1]].frame_id = f
      BY <2>1, <3>1 DEF OnlyThread, Loading, Flushing
    <3>3. h \in Holders(f)
      BY <2>1, <2>2, <3>2 DEF Holders
    <3> QED BY <2>1, <3>2, <3>3
  <2>3. CASE h[2] \in Pages /\ ~(h[1] = t /\ h[2] = p)
    <3>1. guard[h[1]][h[2]] = f
      BY <2>1, <2>3, ConstantFacts DEF Holders
    <3>2. h \in Holders(f)
      BY <2>1, <2>3, <3>1, ConstantFacts DEF Holders
    <3> QED BY <2>1, <2>3, <3>2, ConstantFacts
  <2> QED BY <2>1, <2>2, <2>3
<1>2. <<t, p>> \in Holders(f)'
  BY ConstantFacts DEF Holders
<1>3. Holders(f)' = {<<t, p>>}
  BY <1>1, <1>2
<1> QED BY <1>3, FS_Singleton

\* A holder's pin is counted: taking it off does not underflow and leaves
\* the count of the others.
LEMMA CountedPin ==
  ASSUME Inv, NEW p \in Pages, NEW f \in Frames, Holds(f, p), NEW h \in Holders(f)
  PROVE  /\ meta[f] \in FrameMetas
         /\ meta[f].pin_count > 0
         /\ Cardinality(Holders(f) \ {h}) = Unpinned(meta[f]).pin_count
<1>1. meta[f].pin_count = Cardinality(Holders(f))
  BY DEF Inv, PinsAreExact, Holds, PageIs
<1>2. Cardinality(Holders(f)) \in Nat /\ Cardinality(Holders(f)) # 0
  BY HoldersFinite
<1>3. Cardinality(Holders(f) \ {h}) = Cardinality(Holders(f)) - 1
  BY HoldersFinite, FS_RemoveElement
<1>4. meta[f] \in FrameMetas /\ meta[f].pin_count > 0
  BY <1>1, <1>2 DEF Inv, TypeOK
<1> QED BY <1>1, <1>3, <1>4, UnpinnedFields

\* UnpinFrameLocked makes f evictable exactly when this was its last pin.
LEMMA UnpinEvictable ==
  ASSUME Inv, NEW p \in Pages, NEW f \in Frames, Holds(f, p),
         meta[f] \in FrameMetas, meta[f].pin_count > 0, ReplacerUnpin(f)
  PROVE  /\ evictable' \subseteq Frames
         /\ \A g \in Frames : g # f => (g \in evictable' <=> g \in evictable)
         /\ f \in evictable' <=> Unpinned(meta[f]).pin_count = 0
<1>1. f \notin evictable /\ evictable \subseteq Frames
  BY DEF Inv, ReplacerIsExact, FrameMetas, TypeOK
<1>2. meta[f].pin_count \in Nat /\ Unpinned(meta[f]).pin_count = meta[f].pin_count - 1
  BY UnpinnedFields DEF FrameMetas
<1> QED BY <1>1, <1>2 DEF ReplacerUnpin

\* An evictable frame holds a page that nobody relies on.
LEMMA EvictableFrame ==
  ASSUME Inv, NEW f \in evictable
  PROVE  /\ f \in Frames /\ meta[f] \in FrameMetas /\ meta[f].page_id \in Pages
         /\ Holds(f, meta[f].page_id) /\ meta[f].state = "kResident"
         /\ meta[f].pin_count = 0 /\ Holders(f) = {}
         /\ \A u \in Threads : Moving(u) \/ Flushing(u) => loc[u].frame_id # f
<1>1. /\ f \in Frames /\ meta[f] \in FrameMetas /\ meta[f].page_id \in Pages
      /\ Holds(f, meta[f].page_id) /\ meta[f].pin_count = 0
  BY DEF Inv, TypeOK, ReplacerIsExact
<1>2. meta[f].state = "kResident"
  BY <1>1, PageFacts DEF Holds, PageIs
<1>3. Holders(f) = {}
  BY <1>1, UnpinnedHasNoHolders
<1> QED BY <1>1, <1>2, <1>3, NobodyUses

-----------------------------------------------------------------------------
(* Steps that move no page.                                                *)

\* A step of t that touches frame f (or none, when f is no frame), which no
\* other call uses ...
Touches(t, f) ==
  /\ OnlyThread(t)
  /\ \A g \in Frames : g # f => meta'[g] = meta[g]
  /\ \A q \in Pages :
       /\ pages[q].frame_id \in Frames \ {f} => pages'[q] = pages[q]
       /\ pages'[q].frame_id \in Frames \ {f} => pages'[q] = pages[q]
       /\ Transient(pages, q)' => pages'[q].frame_id \in Frames \ {f} \/ Moving(t)'
  /\ \A u \in Threads : u # t /\ (Moving(u) \/ Flushing(u)) => loc[u].frame_id # f
  /\ Moving(t) \/ Flushing(t) => loc[t].frame_id = f
  /\ (Moving(t) \/ Flushing(t))' => loc'[t].frame_id = f
  /\ \A u \in Threads, q \in Pages :
       \/ guard'[u][q] = guard[u][q]
       \/ /\ u = t
          /\ guard'[u][q] \in {f, NoFrame} /\ guard[u][q] \in {f, NoFrame}

\* ... preserves the invariant if it does so for t and for f.
LEMMA TouchStep ==
  ASSUME Inv, NEW t \in Threads, NEW f, Touches(t, f),
         \A q \in Pages : pages'[q].frame_id = f /\ f \in Frames =>
                            meta'[f].pin_count = Cardinality(Holders(f)'),
         TypeOK', TablesAgree', GuardsAreSafe', ReplacerIsExact',
         KeepsItsFrame(t, loc[t].frame_id)', WellFormed(t)'
  PROVE  Inv'
<1> USE DEF Touches
<1>1. CallsKeepTheirFrame'
  BY OthersKeepTheirFrame DEF CallsKeepTheirFrame
<1>2. CallsAreWellFormed'
  BY OthersStayWellFormed DEF CallsAreWellFormed, OnlyThread
<1>3. \A u, v \in Threads : Exclusive(u, v)'
  <2>1. Moving(t)' => \A u \in Threads :
          u # t /\ (Moving(u) \/ Flushing(u)) => loc[u].frame_id # loc'[t].frame_id
    OBVIOUS
  <2>2. Flushing(t)' => \A u \in Threads :
          u # t /\ Moving(u) => loc[u].frame_id # loc'[t].frame_id
    OBVIOUS
  <2> QED BY <2>1, <2>2, StaysExclusive
<1>4. \A q \in Pages : Owned(q)'
  <2> SUFFICES ASSUME NEW q \in Pages PROVE Owned(q)'
    OBVIOUS
  <2>1. CASE pages'[q].frame_id \in Frames \ {f}
    <3>1. pages'[q] = pages[q]
      BY <2>1
    <3>2. Transient(pages, q)' => Transient(pages, q)
      BY <3>1 DEF Transient
    <3>3. Moving(t) => loc[t].frame_id # pages[q].frame_id
      BY <2>1, <3>1
    <3> QED BY <3>1, <3>2, <3>3, StaysOwned
  <2>2. CASE pages'[q].frame_id \notin Frames \ {f}
    <3>1. Transient(pages, q)' => Moving(t)' /\ loc'[t].frame_id = f
      BY <2>2
    <3>2. Transient(pages, q)' => pages'[q].frame_id \in Frames
      BY DEF TablesAgree, Transient
    <3>3. Transient(pages, q)' => Moving(t)' /\ loc'[t].frame_id = pages'[q].frame_id
      BY <2>2, <3>1, <3>2
    <3> QED BY <3>3, StaysOwned
  <2> QED BY <2>1, <2>2
<1>5. TransferIsExclusive'
  BY <1>3, <1>4 DEF TransferIsExclusive
<1>6. PinsAreExact'
  <2>1. \A g \in Frames : g # f => Holders(g)' = Holders(g)
    <3>1. /\ Loading(t) \/ Flushing(t) => loc[t].frame_id = f
          /\ (Loading(t) \/ Flushing(t))' => loc'[t].frame_id = f
      BY DEF Moving
    <3> QED BY <3>1, HoldersElsewhere
  <2> SUFFICES ASSUME NEW q \in Pages, NEW g \in Frames, pages'[q].frame_id = g
               PROVE  meta'[g].pin_count = Cardinality(Holders(g)')
    BY DEF PinsAreExact
  <2>2. CASE g = f
    BY <2>2
  <2>3. CASE g # f
    <3>1. meta[g].pin_count = Cardinality(Holders(g))
      BY <2>3 DEF Inv, PinsAreExact
    <3> QED BY <2>1, <2>3, <3>1
  <2> QED BY <2>2, <2>3
<1> QED BY <1>1, <1>2, <1>5, <1>6 DEF Inv

\* A step that changes only where t is, from outside to outside of any
\* transfer.
LEMMA QuietStep ==
  ASSUME Inv, NEW t \in Threads, OnlyThread(t),
         UNCHANGED <<pages, meta, allocated, present, evictable, guard>>,
         pc[t] \in {"idle", "lock"}, pc'[t] \in {"idle", "lock"},
         TypeOK', WellFormed(t)'
  PROVE  Inv'
<1>1. TablesAgree' /\ GuardsAreSafe' /\ ReplacerIsExact'
  BY DEF Inv, TablesAgree, GuardsAreSafe, ReplacerIsExact, Holds, PageIs
<1>2. /\ ~Moving(t) /\ ~Flushing(t)
      /\ ~Moving(t)' /\ ~Flushing(t)'
  BY DEF Moving, Evicting, Loading, Flushing
<1>3. KeepsItsFrame(t, loc[t].frame_id)'
  BY <1>2 DEF KeepsItsFrame, Moving
<1>4. \A u \in Threads : Moving(u) \/ Flushing(u) => loc[u].frame_id # NoFrame
  BY BusyFrames, ConstantFacts DEF Moving
<1>5. \A q \in Pages : Transient(pages, q)' => pages'[q].frame_id \in Frames \ {NoFrame}
  BY ConstantFacts DEF Inv, TablesAgree, Transient
<1>6. Touches(t, NoFrame)
  BY <1>2, <1>4, <1>5 DEF Touches
<1> QED BY <1>1, <1>3, <1>6, ConstantFacts, TouchStep

\* A read or a write without the mutex moves a call on within its transfer.
LEMMA TransferStep ==
  ASSUME Inv, TypeOK', NEW t \in Threads,
         UNCHANGED <<pages, meta, allocated, present, evictable, guard, loc>>,
         \A u \in Threads : /\ Evicting(u)' <=> Evicting(u)
                            /\ Loading(u)' <=> Loading(u)
                            /\ Flushing(u)' <=> Flushing(u)
                            /\ pc'[u] = "idle" <=> pc[u] = "idle"
  PROVE  Inv'
<1>1. TablesAgree' /\ GuardsAreSafe' /\ ReplacerIsExact'
  BY DEF Inv, TablesAgree, GuardsAreSafe, ReplacerIsExact, Holds, PageIs
<1>2. CallsKeepTheirFrame'
  BY DEF Inv, CallsKeepTheirFrame, KeepsItsFrame, Holds, PageIs
<1>3. TransferIsExclusive'
  <2>1. \A u, v \in Threads : Exclusive(u, v)'
    BY DEF Inv, TransferIsExclusive, Exclusive, Moving
  <2>2. \A q \in Pages : Owned(q)'
    BY DEF Inv, TransferIsExclusive, Owned, Moving, Transient
  <2> QED BY <2>1, <2>2 DEF TransferIsExclusive
<1>4. CallsAreWellFormed'
  BY DEF Inv, CallsAreWellFormed, WellFormed
<1>5. PinsAreExact'
  <2>1. \A f \in Frames : Holders(f)' = Holders(f)
    BY DEF Holders
  <2> QED BY <2>1 DEF Inv, PinsAreExact
<1> QED BY <1>1, <1>2, <1>3, <1>4, <1>5 DEF Inv

\* Where a call sleeps, wakes or returns without touching anything else.
LEMMA QuietReturn ==
  ASSUME Inv, NEW t \in Threads, Return(t), pc[t] = "lock", sleeping' \subseteq Threads,
         UNCHANGED <<pages, meta, allocated, present, evictable, image, disk,
                     guard, unmarked>>
  PROVE  Inv'
<1>1. /\ pc' \in [Threads -> Labels] /\ loc' \in [Threads -> Locals]
      /\ pc'[t] = "idle" /\ loc'[t].op = "none" /\ OnlyThread(t)
  BY ThreadReturns DEF Inv
<1>2. TypeOK'
  BY <1>1 DEF Inv, TypeOK
<1>3. WellFormed(t)'
  BY <1>1 DEF WellFormed, Evicting, Loading, Flushing
<1> QED BY <1>1, <1>2, <1>3, QuietStep

\* A call that goes to sleep.
LEMMA QuietWait ==
  ASSUME Inv, NEW t \in Threads, Wait(t),
         UNCHANGED <<pages, meta, allocated, present, evictable, image, disk,
                     guard, unmarked>>
  PROVE  Inv'
<1>1. TypeOK'
  BY DEF Inv, TypeOK, Wait
<1> QED BY <1>1, TransferStep DEF Wait, Evicting, Loading, Flushing

-----------------------------------------------------------------------------
(* Steps that pin, unpin, mark or clean a frame.                           *)

\* A pin or unpin, a mark or a clean, of the frame f in which page p is
\* resident, by a call of t or by the user of a guard that t obtained ...
PinChange(t, p, f) ==
  /\ Holds(f, p)
  /\ OnlyThread(t)
  /\ UNCHANGED <<pages, allocated, present>>
  /\ \A g \in Frames : g # f => meta'[g] = meta[g]
  /\ meta'[f].page_id = meta[f].page_id /\ meta'[f].state = meta[f].state
  /\ meta[f].dirty_epoch \in Nat /\ meta'[f].dirty_epoch \in Nat
  /\ meta[f].dirty_epoch <= meta'[f].dirty_epoch
  /\ \A g \in Frames : g # f => (g \in evictable' <=> g \in evictable)
  /\ f \in evictable' <=> meta'[f].pin_count = 0
  /\ \A u \in Threads, q \in Pages :
       \/ guard'[u][q] = guard[u][q]
       \/ /\ u = t /\ q = p
          /\ guard'[u][q] \in {f, NoFrame} /\ guard[u][q] \in {f, NoFrame}
  /\ \/ UNCHANGED <<pc, loc>>
     \/ /\ ~Moving(t) /\ ~Moving(t)'
        /\ Flushing(t) => loc[t].frame_id = f
        /\ Flushing(t)' => /\ loc'[t].frame_id = f /\ loc'[t].page_id = p
                           /\ loc'[t].epoch <= meta'[f].dirty_epoch

\* ... preserves the invariant if it counts correctly.
LEMMA PinStep ==
  ASSUME Inv, NEW t \in Threads, NEW p \in Pages, NEW f \in Frames,
         PinChange(t, p, f), meta'[f].pin_count = Cardinality(Holders(f)'),
         TypeOK', WellFormed(t)'
  PROVE  Inv'
<1> USE DEF PinChange
<1>0. meta[f].page_id = p /\ meta[f].state = "kResident"
  BY ConstantFacts DEF Inv, TablesAgree, Holds, PageIs
<1>1. TablesAgree'
  BY DEF Inv, TablesAgree
<1>2. GuardsAreSafe'
  <2> SUFFICES ASSUME NEW u \in Threads, NEW q \in Pages, guard'[u][q] # NoFrame
               PROVE  /\ Holds(guard'[u][q], q)
                      /\ meta'[guard'[u][q]].page_id = q
                      /\ meta'[guard'[u][q]].state = "kResident"
    BY DEF GuardsAreSafe, Holds, PageIs
  <2>1. \/ guard'[u][q] = guard[u][q]
        \/ q = p /\ guard'[u][q] = f
    OBVIOUS
  <2>2. guard[u][q] # NoFrame =>
          /\ Holds(guard[u][q], q) /\ guard[u][q] \in Frames
          /\ meta[guard[u][q]].page_id = q /\ meta[guard[u][q]].state = "kResident"
    BY DEF Inv, GuardsAreSafe, TypeOK
  <2> QED BY <1>0, <2>1, <2>2
<1>3. ReplacerIsExact'
  <2> SUFFICES ASSUME NEW g \in Frames
               PROVE  /\ g \in present <=> /\ meta'[g].page_id \in Pages
                                           /\ Holds(g, meta'[g].page_id)
                      /\ g \in evictable' <=> g \in present /\ meta'[g].pin_count = 0
    BY DEF ReplacerIsExact, Holds, PageIs
  <2>1. /\ g \in present <=> meta[g].page_id \in Pages /\ Holds(g, meta[g].page_id)
        /\ g \in evictable <=> g \in present /\ meta[g].pin_count = 0
    BY DEF Inv, ReplacerIsExact
  <2>2. f \in present
    BY <1>0 DEF Inv, ReplacerIsExact
  <2> QED BY <1>0, <2>1, <2>2
<1>4. CallsAreWellFormed'
  BY OthersStayWellFormed DEF CallsAreWellFormed, OnlyThread
<1>5. CallsKeepTheirFrame'
  <2>1. \A u \in Threads : pc'[u] = pc[u] /\ loc'[u] = loc[u]
                             => KeepsItsFrame(u, loc[u].frame_id)'
    BY <1>0, OthersKeepPinnedFrame
  <2>2. KeepsItsFrame(t, loc[t].frame_id)'
    <3>1. CASE UNCHANGED <<pc, loc>>
      BY <2>1, <3>1
    <3>2. CASE ~UNCHANGED <<pc, loc>>
      BY <3>2 DEF KeepsItsFrame, Moving, Holds, PageIs
    <3> QED BY <3>1, <3>2
  <2> QED BY <2>1, <2>2 DEF CallsKeepTheirFrame, OnlyThread
<1>6. \A u \in Threads : Moving(u) => loc[u].frame_id # f
  BY <1>0, BusyFrames DEF Moving
<1>7. TransferIsExclusive'
  <2>1. CASE UNCHANGED <<pc, loc>>
    BY <2>1 DEF Inv, TransferIsExclusive, Exclusive, Owned, Moving, Evicting,
                Loading, Flushing, Transient
  <2>2. CASE ~UNCHANGED <<pc, loc>>
    <3>1. \A u, v \in Threads : Exclusive(u, v)'
      BY <1>6, <2>2, StaysExclusive
    <3>2. \A q \in Pages : Owned(q)'
      BY <2>2, StaysOwned DEF Transient
    <3> QED BY <3>1, <3>2 DEF TransferIsExclusive
  <2> QED BY <2>1, <2>2
<1>8. PinsAreExact'
  <2>1. \A g \in Frames : g # f => Holders(g)' = Holders(g)
    <3>1. \/ pc'[t] = pc[t] /\ loc'[t] = loc[t]
          \/ /\ Loading(t) \/ Flushing(t) => loc[t].frame_id = f
             /\ (Loading(t) \/ Flushing(t))' => loc'[t].frame_id = f
      BY DEF Moving
    <3> QED BY <3>1, HoldersElsewhere
  <2> SUFFICES ASSUME NEW q \in Pages, NEW g \in Frames, pages'[q].frame_id = g
               PROVE  meta'[g].pin_count = Cardinality(Holders(g)')
    BY DEF PinsAreExact
  <2>2. CASE g = f
    BY <2>2
  <2>3. CASE g # f
    <3>1. meta[g].pin_count = Cardinality(Holders(g))
      BY <2>3 DEF Inv, PinsAreExact
    <3> QED BY <2>1, <2>3, <3>1
  <2> QED BY <2>2, <2>3
<1> QED BY <1>1, <1>2, <1>3, <1>4, <1>5, <1>7, <1>8 DEF Inv

-----------------------------------------------------------------------------
(* Steps that move a page into or out of a frame.                          *)

\* The invariant as far as frame f, and the pages in no other frame, go.
FrameAgrees(f) ==
  /\ \A q \in Pages : pages[q].frame_id \notin Frames \ {f} =>
       \/ /\ pages[q].frame_id = NoFrame
          /\ pages[q].state \in {"kUnused", "kNonResident"}
       \/ /\ f \in Frames /\ pages[q].frame_id = f
          /\ pages[q].state \in {"kLoading", "kResident", "kEvicting"}
          /\ meta[f].page_id = q /\ meta[f].state = pages[q].state
          /\ meta[f].pin_count = Cardinality(Holders(f))
  /\ f \in Frames =>
       /\ f \in allocated <=> meta[f].state # "kFree"
       /\ meta[f].state \in {"kLoading", "kEvicting"} =>
            meta[f].page_id \in Pages /\ pages[meta[f].page_id].frame_id = f
       /\ f \in present <=> meta[f].page_id \in Pages /\ Holds(f, meta[f].page_id)
       /\ f \in evictable <=> f \in present /\ meta[f].pin_count = 0
       /\ \A u \in Threads, q \in Pages : guard[u][q] = f =>
            Holds(f, q) /\ meta[f].page_id = q /\ meta[f].state = "kResident"

\* The sets of frames change by f only.
SetsTouch(f) ==
  \A g \in Frames : g # f => /\ g \in allocated' <=> g \in allocated
                             /\ g \in present' <=> g \in present
                             /\ g \in evictable' <=> g \in evictable

\* A step that touches frame f and leaves it in order preserves the
\* invariant.
LEMMA FrameStep ==
  ASSUME Inv, NEW t \in Threads, NEW f \in Frames \cup {NoFrame},
         Touches(t, f), SetsTouch(f), TypeOK', FrameAgrees(f)',
         KeepsItsFrame(t, loc[t].frame_id)', WellFormed(t)'
  PROVE  Inv'
<1>1. \A g \in Frames : g # f =>
        /\ meta'[g] = meta[g]
        /\ \A q \in Pages :
             /\ pages[q].frame_id = g \/ pages'[q].frame_id = g => pages'[q] = pages[q]
             /\ Holds(g, q)' <=> Holds(g, q)
  BY DEF Touches, Holds, PageIs
<1>2. TablesAgree'
  <2>1. ASSUME NEW q \in Pages
        PROVE  \/ /\ pages'[q].frame_id = NoFrame
                  /\ pages'[q].state \in {"kUnused", "kNonResident"}
               \/ /\ pages'[q].frame_id \in Frames
                  /\ pages'[q].state \in {"kLoading", "kResident", "kEvicting"}
                  /\ meta'[pages'[q].frame_id].page_id = q
                  /\ meta'[pages'[q].frame_id].state = pages'[q].state
    <3>1. CASE pages'[q].frame_id \in Frames \ {f}
      <4>1. PICK g \in Frames : g # f /\ g = pages'[q].frame_id
        BY <3>1
      <4> QED BY <1>1, <4>1, ConstantFacts DEF Inv, TablesAgree
    <3>2. CASE pages'[q].frame_id \notin Frames \ {f}
      BY <3>2 DEF FrameAgrees
    <3> QED BY <3>1, <3>2
  <2>2. ASSUME NEW g \in Frames
        PROVE  /\ g \in allocated' <=> meta'[g].state # "kFree"
               /\ meta'[g].state \in {"kLoading", "kEvicting"} =>
                    /\ meta'[g].page_id \in Pages
                    /\ pages'[meta'[g].page_id].frame_id = g
    <3>1. CASE g = f
      BY <3>1 DEF FrameAgrees
    <3>2. CASE g # f
      BY <1>1, <3>2 DEF Inv, TablesAgree, SetsTouch
    <3> QED BY <3>1, <3>2
  <2> QED BY <2>1, <2>2 DEF TablesAgree
<1>3. GuardsAreSafe'
  <2> SUFFICES ASSUME NEW u \in Threads, NEW q \in Pages, NEW g \in Frames,
                      guard'[u][q] = g
               PROVE  Holds(g, q)' /\ meta'[g].page_id = q /\ meta'[g].state = "kResident"
    BY DEF GuardsAreSafe, TypeOK, Holds, PageIs
  <2>1. CASE g = f
    BY <2>1 DEF FrameAgrees
  <2>2. CASE g # f
    <3>1. guard[u][q] = g
      BY <2>2, ConstantFacts DEF Touches
    <3>2. Holds(g, q) /\ meta[g].page_id = q /\ meta[g].state = "kResident"
      BY <3>1, ConstantFacts DEF Inv, GuardsAreSafe
    <3> QED BY <1>1, <2>2, <3>2
  <2> QED BY <2>1, <2>2
<1>4. ReplacerIsExact'
  <2> SUFFICES ASSUME NEW g \in Frames
               PROVE  /\ g \in present' <=> /\ meta'[g].page_id \in Pages
                                            /\ PageIs(meta[g].page_id, "kResident", g)'
                      /\ g \in evictable' <=> g \in present' /\ meta'[g].pin_count = 0
    BY DEF ReplacerIsExact, Holds
  <2>1. CASE g = f
    BY <2>1 DEF FrameAgrees, Holds
  <2>2. CASE g # f
    <3>1. /\ g \in present <=> meta[g].page_id \in Pages /\ Holds(g, meta[g].page_id)
          /\ g \in evictable <=> g \in present /\ meta[g].pin_count = 0
      BY DEF Inv, ReplacerIsExact
    <3> QED BY <1>1, <2>2, <3>1 DEF SetsTouch, Holds, PageIs
  <2> QED BY <2>1, <2>2
<1>5. \A q \in Pages : pages'[q].frame_id = f /\ f \in Frames =>
                         meta'[f].pin_count = Cardinality(Holders(f)')
  BY ConstantFacts DEF FrameAgrees
<1> QED BY <1>2, <1>3, <1>4, <1>5, TouchStep

\* Page ids are given out and back while no page moves.
LEMMA IdStep ==
  ASSUME Inv, NEW t \in Threads, OnlyThread(t),
         UNCHANGED <<meta, allocated, present, evictable, guard>>,
         pc[t] = "lock", pc'[t] \in {"idle", "lock"}, TypeOK', WellFormed(t)',
         \A q \in Pages :
           \/ pages'[q] = pages[q]
           \/ /\ pages[q].frame_id = NoFrame /\ pages'[q].frame_id = NoFrame
              /\ pages'[q].state \in {"kUnused", "kNonResident"}
  PROVE  Inv'
<1>1. ~Moving(t) /\ ~Flushing(t) /\ ~Moving(t)' /\ ~Flushing(t)'
  BY DEF Moving, Evicting, Loading, Flushing
<1>2. KeepsItsFrame(t, loc[t].frame_id)'
  BY <1>1 DEF KeepsItsFrame, Moving
<1>3. FrameAgrees(NoFrame)'
  <2>1. \A q \in Pages : pages'[q].frame_id \notin Frames \ {NoFrame} =>
          /\ pages'[q].frame_id = NoFrame
          /\ pages'[q].state \in {"kUnused", "kNonResident"}
    BY PageFacts, ConstantFacts DEF PageEntries
  <2> QED BY <2>1, ConstantFacts DEF FrameAgrees
<1>4. Touches(t, NoFrame) /\ SetsTouch(NoFrame)
  <2>1. \A u \in Threads : Moving(u) \/ Flushing(u) => loc[u].frame_id # NoFrame
    BY BusyFrames, ConstantFacts DEF Moving
  <2>2. \A q \in Pages : Transient(pages, q)' => pages'[q].frame_id \in Frames \ {NoFrame}
    BY PageFacts, ConstantFacts DEF Transient, PageEntries
  <2> QED BY <1>1, <2>1, <2>2, ConstantFacts DEF Touches, SetsTouch
<1> QED BY <1>2, <1>3, <1>4, FrameStep

\* Thread t has frame f for itself, and pt is the page table without the page
\* that was in it; ids may have been given out or back.
OwnFrame(t, f, pt) ==
  /\ f \in Frames /\ Holders(f) = {} /\ f \notin present /\ f \notin evictable
  /\ \A u \in Threads : u # t /\ (Moving(u) \/ Flushing(u)) => loc[u].frame_id # f
  /\ Moving(t) \/ Flushing(t) => loc[t].frame_id = f
  /\ pt \in [Pages -> PageEntries]
  /\ \A q \in Pages :
       \/ pages[q].frame_id # f /\ pt[q] = pages[q]
       \/ /\ pages[q].frame_id \in {f, NoFrame} /\ pt[q].frame_id = NoFrame
          /\ pt[q].state \in {"kUnused", "kNonResident"}

\* A frame that the allocator hands out belongs to the call ...
LEMMA FreeFrameIsOwn ==
  ASSUME Inv, NEW t \in Threads, NEW f \in Frames \ allocated, pc[t] = "lock",
         NEW p \in Pages, NEW pt,
         \/ pt = pages
         \/ pages[p].state = "kUnused" /\ pt = MakeAllocated(pages, p)
  PROVE  OwnFrame(t, f, pt)
<1>1. meta[f].state = "kFree" /\ \A q \in Pages : pages[q].frame_id # f
  BY PageFacts DEF Inv, TablesAgree
<1>2. Holders(f) = {}
  BY <1>1, NoHolders
<1>3. \A u \in Threads : Moving(u) \/ Flushing(u) => loc[u].frame_id # f
  BY <1>1, <1>2, NobodyUses
<1>4. f \notin present /\ f \notin evictable
  BY <1>1 DEF Inv, ReplacerIsExact, Holds, PageIs
<1>5. pt \in [Pages -> PageEntries] /\ \A q \in Pages :
        \/ pt[q] = pages[q]
        \/ /\ pages[q].frame_id = NoFrame /\ pt[q].frame_id = NoFrame
           /\ pt[q].state \in {"kUnused", "kNonResident"}
  BY PageFacts, EntryFields DEF MakeAllocated, Inv, TypeOK, PageState
<1>6. ~Moving(t) /\ ~Flushing(t)
  BY DEF Moving, Evicting, Loading, Flushing
<1> QED BY <1>1, <1>2, <1>3, <1>4, <1>5, <1>6 DEF OwnFrame

\* ... and so does a frame whose page the call has written back.
LEMMA EvictedFrameIsOwn ==
  ASSUME Inv, NEW t \in Threads, pc[t] = "evicted"
  PROVE  /\ OwnFrame(t, loc[t].frame_id, SetNonResident(pages, loc[t].old_page_id))
         /\ loc[t].frame_id \in allocated
<1>1. Evicting(t) /\ Moving(t)
  BY DEF Moving, Evicting
<1>2. PICK f \in Frames, old \in Pages :
        /\ f = loc[t].frame_id /\ old = loc[t].old_page_id
        /\ pages[old].state = "kEvicting" /\ pages[old].frame_id = f
        /\ meta[f].page_id = old /\ meta[f].state = "kEvicting"
  BY <1>1, BusyFrames DEF PageIs
<1>3. Holders(f) = {}
  BY <1>2, NoHolders
<1>4. \A u \in Threads : u # t /\ (Moving(u) \/ Flushing(u)) => loc[u].frame_id # f
  BY <1>1, <1>2, NobodyElseUses
<1>5. f \notin present /\ f \notin evictable /\ f \in allocated
  BY <1>2 DEF Inv, ReplacerIsExact, TablesAgree, Holds, PageIs
<1>6. PICK pt : pt = [pages EXCEPT ![old] = PageEntry("kNonResident", NoFrame)]
  OBVIOUS
<1>7. /\ pt \in [Pages -> PageEntries]
      /\ pt[old].state = "kNonResident" /\ pt[old].frame_id = NoFrame
      /\ \A q \in Pages : q # old => pt[q] = pages[q] /\ pages[q].frame_id # f
  <2>1. \A q \in Pages : q # old => pages[q].frame_id # f
    BY <1>2, PageFacts
  <2> QED BY <1>6, <2>1, EntryFields DEF Inv, TypeOK, PageState
<1>8. OwnFrame(t, f, pt)
  BY <1>1, <1>2, <1>3, <1>4, <1>5, <1>7 DEF OwnFrame
<1> QED BY <1>2, <1>5, <1>6, <1>8 DEF SetNonResident

\* What follows from OwnFrame about the pages in pt.
LEMMA OwnTable ==
  ASSUME Inv, NEW t \in Threads, NEW f, NEW pt, OwnFrame(t, f, pt), NEW q \in Pages
  PROVE  /\ pt[q].frame_id # f
         /\ pt[q].state \in {"kUnused", "kNonResident"} <=> pt[q].frame_id = NoFrame
         /\ pt[q].frame_id \in Frames \cup {NoFrame}
         /\ pt[q].frame_id = NoFrame => pages[q].frame_id \in {f, NoFrame}
         /\ pages[q].frame_id \in Frames \ {f} \/ pt[q].frame_id \in Frames
              => pt[q] = pages[q] /\ pages[q].frame_id # f
         /\ Transient(pt, q) => pt[q].frame_id \in Frames \ {f}
<1>1. pages[q].frame_id \in Frames \cup {NoFrame}
  BY PageFacts DEF PageEntries
<1>2. f \in Frames /\ f # NoFrame
  BY ConstantFacts DEF OwnFrame
<1>3. CASE pages[q].frame_id # f /\ pt[q] = pages[q]
  BY <1>1, <1>2, <1>3, PageFacts DEF Transient
<1>4. CASE /\ pages[q].frame_id \in {f, NoFrame} /\ pt[q].frame_id = NoFrame
           /\ pt[q].state \in {"kUnused", "kNonResident"}
  BY <1>2, <1>4, ConstantFacts DEF Transient
<1> QED BY <1>3, <1>4 DEF OwnFrame

\* Thread t gives frame f back, in which page p was, and is done
\* with it.
LEMMA ReleaseInv ==
  ASSUME Inv, NEW t \in Threads, NEW p \in Pages, NEW f \in Frames,
         pages[p].frame_id = f, Holders(f) \subseteq {<<t, NoPage>>},
         \A u \in Threads : u # t /\ (Moving(u) \/ Flushing(u)) => loc[u].frame_id # f,
         Moving(t) \/ Flushing(t) => loc[t].frame_id = f,
         pages' \in [Pages -> PageEntries], pages'[p].frame_id = NoFrame,
         pages'[p].state \in {"kUnused", "kNonResident"},
         \A q \in Pages : q # p => pages'[q] = pages[q],
         meta' = [meta EXCEPT ![f] = FreeMeta], allocated' = allocated \ {f},
         present' = present \ {f}, evictable' = evictable \ {f},
         pc' \in [Threads -> Labels], loc' \in [Threads -> Locals], OnlyThread(t),
         pc'[t] \in {"idle", "lock"}, WellFormed(t)', sleeping' \subseteq Threads,
         UNCHANGED <<image, disk, guard, unmarked>>
  PROVE  Inv'
<1>1. ~Moving(t)' /\ ~Flushing(t)' /\ KeepsItsFrame(t, loc[t].frame_id)'
  BY DEF KeepsItsFrame, Moving, Evicting, Loading, Flushing
<1>2. /\ meta' \in [Frames -> FrameMetas] /\ meta'[f].state = "kFree"
      /\ \A g \in Frames : g # f => meta'[g] = meta[g]
  BY FreeMetaFields DEF Inv, TypeOK
<1>3. TypeOK'
  BY <1>2 DEF Inv, TypeOK
<1>4. \A q \in Pages : pages'[q].frame_id # f
  BY PageFacts, ConstantFacts
<1>5. FrameAgrees(f)'
  <2>1. \A q \in Pages : pages'[q].frame_id \notin Frames \ {f} =>
          /\ pages'[q].frame_id = NoFrame
          /\ pages'[q].state \in {"kUnused", "kNonResident"}
    BY <1>4, PageFacts DEF PageEntries
  <2>2. \A u \in Threads, q \in Pages : guard'[u][q] # f
    BY UnheldHasNoGuard
  <2>3. f \notin allocated' /\ f \notin present' /\ f \notin evictable'
    OBVIOUS
  <2> QED BY <1>2, <1>4, <2>1, <2>2, <2>3 DEF FrameAgrees, Holds, PageIs
<1>6. Touches(t, f) /\ SetsTouch(f)
  <2>1. \A q \in Pages :
          /\ pages[q].frame_id \in Frames \ {f} => pages'[q] = pages[q]
          /\ pages'[q].frame_id \in Frames \ {f} => pages'[q] = pages[q]
          /\ Transient(pages, q)' => pages'[q].frame_id \in Frames \ {f}
    BY <1>4, PageFacts, ConstantFacts DEF Transient, PageEntries
  <2>2. Touches(t, f)
    BY <1>1, <1>2, <2>1 DEF Touches
  <2> QED BY <2>2 DEF SetsTouch
<1> QED BY <1>1, <1>3, <1>5, <1>6, FrameStep

-----------------------------------------------------------------------------
(* Steps that pin one frame and give another back.                         *)

\* Thread t pins frame g, in which page p is resident, for a new guard, and
\* gives frame f back (none when f is no frame) ...
PinTurn(t, p, g, f) ==
  /\ Holds(g, p) /\ g # f
  /\ meta' \in [Frames -> FrameMetas] /\ meta'[g] = Pinned(meta[g])
  /\ \A h \in Frames : h # g /\ h # f => meta'[h] = meta[h]
  /\ f \in Frames => /\ meta'[f].state = "kFree" /\ Holders(f) = {}
                     /\ f \notin present /\ f \notin evictable
  /\ \A q \in Pages :
       \/ pages'[q] = pages[q] /\ (pages[q].frame_id = f => f \notin Frames)
       \/ /\ pages[q].frame_id = f /\ f \in Frames /\ pages'[q].frame_id = NoFrame
          /\ pages'[q].state \in {"kUnused", "kNonResident"}
  /\ allocated' = allocated \ {f}
  /\ present' = present \cup {g} /\ evictable' = evictable \ {g}
  /\ guard' = [guard EXCEPT ![t] = [guard[t] EXCEPT ![p] = g]]
  /\ \A u \in Threads : u # t /\ (Moving(u) \/ Flushing(u)) => loc[u].frame_id # f
  /\ Moving(t) => loc[t].frame_id = f
  /\ ~Loading(t) /\ ~Flushing(t)
  /\ pc'[t] = "idle" /\ loc'[t].op = "none" /\ OnlyThread(t)

\* ... and the invariant is preserved.
LEMMA PinTurnInv ==
  ASSUME Inv, NEW t \in Threads, NEW p \in Pages, NEW g \in Frames,
         NEW f \in Frames \cup {NoFrame}, guard[t][p] = NoFrame,
         meta[g].pin_count < PinMax, PinTurn(t, p, g, f), TypeOK'
  PROVE  Inv'
<1>1. /\ meta[g].page_id = p /\ meta[g].state = "kResident" /\ meta[g] \in FrameMetas
      /\ g \in present
  BY PageFacts DEF PinTurn, Holds, PageIs, Inv, TypeOK, ReplacerIsExact
<1>2. /\ meta'[g].page_id = p /\ meta'[g].state = "kResident"
      /\ meta'[g].pin_count = meta[g].pin_count + 1
      /\ meta'[g].dirty_epoch = meta[g].dirty_epoch /\ meta[g].pin_count \in Nat
      /\ meta[g].dirty_epoch \in Nat
  BY <1>1, PinnedFields DEF PinTurn, FrameMetas
<1>3. \A h \in Frames : h # f =>
        /\ meta'[h].page_id = meta[h].page_id /\ meta'[h].state = meta[h].state
        /\ \A q \in Pages :
             /\ pages[q].frame_id = h \/ pages'[q].frame_id = h => pages'[q] = pages[q]
             /\ PageIs(q, "kResident", h)' <=> PageIs(q, "kResident", h)
  <2>1. \A q \in Pages, h \in Frames : h # f =>
          (pages[q].frame_id = h \/ pages'[q].frame_id = h => pages'[q] = pages[q])
    BY ConstantFacts DEF PinTurn
  <2>2. \A h \in Frames : h # f =>
          meta'[h].page_id = meta[h].page_id /\ meta'[h].state = meta[h].state
    BY <1>1, <1>2 DEF PinTurn
  <2> QED BY <2>1, <2>2 DEF PageIs
<1>4. \A q \in Pages : f \in Frames => pages'[q].frame_id # f
  BY ConstantFacts DEF PinTurn
<1>5. TablesAgree'
  <2>1. ASSUME NEW q \in Pages
        PROVE  \/ /\ pages'[q].frame_id = NoFrame
                  /\ pages'[q].state \in {"kUnused", "kNonResident"}
               \/ /\ pages'[q].frame_id \in Frames
                  /\ pages'[q].state \in {"kLoading", "kResident", "kEvicting"}
                  /\ meta'[pages'[q].frame_id].page_id = q
                  /\ meta'[pages'[q].frame_id].state = pages'[q].state
    <3>1. CASE pages'[q].frame_id \in Frames
      <4>1. PICK h \in Frames : h = pages'[q].frame_id
        BY <3>1
      <4>2. h # f /\ pages'[q] = pages[q]
        BY <1>3, <1>4, <4>1
      <4> QED BY <1>3, <4>1, <4>2, PageFacts
    <3>2. CASE pages'[q].frame_id \notin Frames
      BY <3>2, PageFacts DEF PinTurn, PageEntries
    <3> QED BY <3>1, <3>2
  <2>2. ASSUME NEW h \in Frames
        PROVE  /\ h \in allocated' <=> meta'[h].state # "kFree"
               /\ meta'[h].state \in {"kLoading", "kEvicting"} =>
                    /\ meta'[h].page_id \in Pages
                    /\ pages'[meta'[h].page_id].frame_id = h
    <3>1. CASE h = f
      BY <3>1 DEF PinTurn
    <3>2. CASE h # f
      <4>1. h \in allocated' <=> h \in allocated
        BY <3>2 DEF PinTurn
      <4>2. /\ h \in allocated <=> meta[h].state # "kFree"
            /\ meta[h].state \in {"kLoading", "kEvicting"} =>
                 meta[h].page_id \in Pages /\ pages[meta[h].page_id].frame_id = h
        BY DEF Inv, TablesAgree
      <4> QED BY <1>3, <3>2, <4>1, <4>2
    <3> QED BY <3>1, <3>2
  <2> QED BY <2>1, <2>2 DEF TablesAgree
<1>6. /\ guard' \in [Threads -> [Pages -> Frames \cup {NoFrame}]]
      /\ \A u \in Threads, q \in Pages :
           guard'[u][q] = IF u = t /\ q = p THEN g ELSE guard[u][q]
  BY DEF PinTurn, Inv, TypeOK
<1>7. f \in Frames => \A u \in Threads, q \in Pages : guard[u][q] # f
  BY UnheldHasNoGuard DEF PinTurn
<1>8. GuardsAreSafe'
  <2> SUFFICES ASSUME NEW u \in Threads, NEW q \in Pages, NEW h \in Frames,
                      guard'[u][q] = h
               PROVE  /\ PageIs(q, "kResident", h)'
                      /\ meta'[h].page_id = q /\ meta'[h].state = "kResident"
    BY DEF GuardsAreSafe, TypeOK, Holds, PageIs
  <2>1. CASE u = t /\ q = p
    BY <1>2, <1>3, <1>6, <2>1 DEF PinTurn, Holds
  <2>2. CASE ~(u = t /\ q = p)
    <3>1. guard[u][q] = h
      BY <1>6, <2>2
    <3>2. Holds(h, q) /\ meta[h].page_id = q /\ meta[h].state = "kResident" /\ h # f
      BY <1>7, <3>1, ConstantFacts DEF Inv, GuardsAreSafe
    <3> QED BY <1>3, <3>2 DEF Holds
  <2> QED BY <2>1, <2>2
<1>9. ReplacerIsExact'
  <2> SUFFICES ASSUME NEW h \in Frames
               PROVE  /\ h \in present' <=> /\ meta'[h].page_id \in Pages
                                            /\ PageIs(meta[h].page_id, "kResident", h)'
                      /\ h \in evictable' <=> h \in present' /\ meta'[h].pin_count = 0
    BY DEF ReplacerIsExact, Holds
  <2>1. /\ h \in present <=> meta[h].page_id \in Pages /\ Holds(h, meta[h].page_id)
        /\ h \in evictable <=> h \in present /\ meta[h].pin_count = 0
    BY DEF Inv, ReplacerIsExact
  <2>2. CASE h = f
    <3>1. h \notin present' /\ h \notin evictable'
      BY <2>2 DEF PinTurn
    <3>2. meta'[h].page_id \in Pages => pages'[meta'[h].page_id].frame_id # h
      BY <1>4, <2>2
    <3> QED BY <3>1, <3>2 DEF PageIs
  <2>3. CASE h = g
    <3>1. h \in present' /\ h \notin evictable' /\ h # f
      BY <2>3 DEF PinTurn
    <3>2. meta'[h].pin_count # 0
      BY <1>2, <2>3
    <3>3. meta'[h].page_id = p /\ PageIs(p, "kResident", h)'
      BY <1>2, <1>3, <2>3, <3>1 DEF PinTurn, Holds
    <3> QED BY <3>1, <3>2, <3>3 DEF PageIs
  <2>4. CASE h # f /\ h # g
    <3>1. (h \in present' <=> h \in present) /\ (h \in evictable' <=> h \in evictable)
          /\ meta'[h] = meta[h]
      BY <2>4 DEF PinTurn
    <3> QED BY <1>3, <2>1, <2>4, <3>1 DEF Holds, PageIs
  <2> QED BY <2>2, <2>3, <2>4
<1>10. ~Moving(t)' /\ ~Flushing(t)' /\ WellFormed(t)' /\ KeepsItsFrame(t, loc[t].frame_id)'
  BY Returned DEF PinTurn
<1>11. CallsAreWellFormed'
  <2> SUFFICES ASSUME NEW u \in Threads, u # t PROVE WellFormed(u)'
    BY <1>10 DEF CallsAreWellFormed
  <2>1. pc'[u] = pc[u] /\ loc'[u] = loc[u] /\ \A q \in Pages : guard'[u][q] = guard[u][q]
    BY <1>6 DEF PinTurn, OnlyThread
  <2> QED BY <2>1, OthersStayWellFormed
<1>12. CallsKeepTheirFrame'
  <2> SUFFICES ASSUME NEW u \in Threads, u # t
               PROVE  KeepsItsFrame(u, loc[u].frame_id)'
    BY <1>10 DEF CallsKeepTheirFrame
  <2>1. pc'[u] = pc[u] /\ loc'[u] = loc[u] /\ KeepsItsFrame(u, loc[u].frame_id)
    BY DEF PinTurn, OnlyThread, Inv, CallsKeepTheirFrame
  <2>2. CASE Moving(u) \/ Flushing(u)
    <3>1. PICK h \in Frames : h = loc[u].frame_id /\ h # f
      BY <2>2, BusyFrames DEF PinTurn, Moving
    <3>2. \A q \in Pages : pages[q].frame_id = h => pages'[q] = pages[q]
      BY <1>3, <3>1
    <3>3. /\ meta'[h].dirty_epoch = meta[h].dirty_epoch
          /\ h # g => meta'[h] = meta[h]
          /\ h = g => meta[h].state = "kResident"
      BY <1>1, <1>2, <3>1 DEF PinTurn
    <3>4. CASE Evicting(u)
      BY <2>1, <3>1, <3>2, <3>3, <3>4, BusyFrames
         DEF KeepsItsFrame, Evicting, Loading, Flushing, PageIs
    <3>5. CASE Loading(u)
      BY <2>1, <3>1, <3>2, <3>3, <3>5, BusyFrames
         DEF KeepsItsFrame, Evicting, Loading, Flushing, PageIs
    <3>6. CASE Flushing(u)
      BY <2>1, <3>1, <3>2, <3>3, <3>6, BusyFrames
         DEF KeepsItsFrame, Evicting, Loading, Flushing, PageIs, Holds
    <3> QED BY <2>2, <3>4, <3>5, <3>6 DEF Moving
  <2>3. CASE ~(Moving(u) \/ Flushing(u))
    BY <2>1, <2>3 DEF KeepsItsFrame, Moving, Evicting, Loading, Flushing
  <2> QED BY <2>2, <2>3
<1>13. TransferIsExclusive'
  <2>1. \A u, v \in Threads : Exclusive(u, v)'
    BY <1>10, StaysExclusive DEF PinTurn
  <2>2. ASSUME NEW q \in Pages PROVE Owned(q)'
    <3>1. Transient(pages, q)' => /\ Transient(pages, q)
                                  /\ pages'[q].frame_id = pages[q].frame_id
                                  /\ pages[q].frame_id \in Frames
                                  /\ pages[q].frame_id # f
      BY PageFacts, ConstantFacts DEF PinTurn, Transient, PageEntries
    <3>2. Transient(pages, q)' => (Moving(t) => loc[t].frame_id # pages[q].frame_id)
      BY <3>1 DEF PinTurn
    <3> QED BY <3>1, <3>2, StaysOwned DEF PinTurn
  <2> QED BY <2>1, <2>2 DEF TransferIsExclusive
<1>14. PinsAreExact'
  <2>1. \A h \in Frames : h # g => Holders(h)' = Holders(h)
    <3>1. /\ \A u \in Threads, q \in Pages :
               \/ guard'[u][q] = guard[u][q]
               \/ guard'[u][q] \in {g, NoFrame} /\ guard[u][q] \in {g, NoFrame}
          /\ Loading(t) \/ Flushing(t) => loc[t].frame_id = g
          /\ (Loading(t) \/ Flushing(t))' => loc'[t].frame_id = g
      BY <1>6, <1>10 DEF PinTurn, Moving
    <3> QED BY <3>1, HoldersElsewhere DEF PinTurn
  <2>2. Holders(g)' = Holders(g) \cup {<<t, p>>} /\ <<t, p>> \notin Holders(g)
    <3>1. \A u \in Threads : /\ (Loading(u) \/ Flushing(u))' /\ loc'[u].frame_id = g
                             <=> (Loading(u) \/ Flushing(u)) /\ loc[u].frame_id = g
      BY <1>10 DEF PinTurn, OnlyThread, Moving, Loading, Flushing
    <3>2. <<t, p>> \notin Holders(g)
      BY ConstantFacts DEF Holders
    <3>3. \A h \in Threads \X (Pages \cup {NoPage}) :
            h \in Holders(g)' <=> h \in Holders(g) \/ h = <<t, p>>
      BY <1>6, <3>1, ConstantFacts DEF Holders
    <3>4. /\ Holders(g)' \subseteq Threads \X (Pages \cup {NoPage})
          /\ Holders(g) \subseteq Threads \X (Pages \cup {NoPage})
          /\ <<t, p>> \in Threads \X (Pages \cup {NoPage})
      BY DEF Holders
    <3> QED BY <3>2, <3>3, <3>4
  <2>3. meta'[g].pin_count = Cardinality(Holders(g)')
    <3>1. meta[g].pin_count = Cardinality(Holders(g))
      BY DEF Inv, PinsAreExact, PinTurn, Holds, PageIs
    <3>2. Cardinality(Holders(g) \cup {<<t, p>>}) = Cardinality(Holders(g)) + 1
      BY <2>2, HoldersFinite, FS_AddElement
    <3> QED BY <1>2, <2>2, <3>1, <3>2
  <2> SUFFICES ASSUME NEW q \in Pages, NEW h \in Frames, pages'[q].frame_id = h
               PROVE  meta'[h].pin_count = Cardinality(Holders(h)')
    BY DEF PinsAreExact
  <2>4. CASE h = g
    BY <2>3, <2>4
  <2>5. CASE h # g
    <3>1. h # f /\ pages[q].frame_id = h
      BY <1>3, <1>4
    <3>2. meta'[h] = meta[h] /\ meta[h].pin_count = Cardinality(Holders(h))
      BY <2>5, <3>1 DEF PinTurn, Inv, PinsAreExact
    <3> QED BY <2>1, <2>5, <3>2
  <2> QED BY <2>4, <2>5
<1> QED BY <1>5, <1>8, <1>9, <1>11, <1>12, <1>13, <1>14 DEF Inv
=============================================================================
