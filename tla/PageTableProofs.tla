--------------------------- MODULE PageTableProofs ---------------------------
(***************************************************************************)
(* The page table hands out page ids as a pool of ids does, for every      *)
(* maximal page count.                                                     *)
(*                                                                         *)
(* FreeListIsExact is inductive once the ids on the free list are known to *)
(* have been handed out before: an id that FreshPageId takes is then on no *)
(* list, and an empty list at the last id means that all are in use.       *)
(***************************************************************************)
EXTENDS PageTable, FiniteSetTheorems, TLAPS

\* The types of the fields.
TableTypes ==
  /\ pages \in [PageIds -> [state : PageState, frame_id : Frames \cup {NoFrame}]]
  /\ next_page_id \in 0 .. MaxPageCount
  /\ free_page_ids \in Seq(PageIds)

\* An id on the free list has been handed out before.
ListIsBelowNext ==
  \A i \in DOMAIN free_page_ids : free_page_ids[i] < next_page_id

\* The inductive invariant.
TableInv == TableTypes /\ ListIsBelowNext /\ FreeListIsExact

\* The entries that the setters store are entries, with the given state.
LEMMA EntryFields ==
  ASSUME NEW s \in PageState, NEW f \in Frames \cup {NoFrame}
  PROVE  /\ PageEntry(s, f) \in [state : PageState, frame_id : Frames \cup {NoFrame}]
         /\ PageEntry(s, f).state = s
         /\ UnusedEntry = PageEntry("kUnused", NoFrame)
  BY DEF PageEntry, UnusedEntry

\* The ids in use are finitely many.
LEMMA UsedFinite == IsFiniteSet(UsedIds) /\ UsedIds \subseteq PageIds
  <1>1. UsedIds \in SUBSET PageIds
    BY DEF UsedIds
  <1>2. IsFiniteSet(PageIds)
    BY FS_Interval, MaxPageCountAssumption DEF PageIds
  <1> QED
    BY <1>1, <1>2, FS_Subset

\* What a store of one entry does to the ids in use.
LEMMA StoreEntry ==
  ASSUME TableTypes, NEW p \in PageIds,
         NEW s \in PageState, NEW f \in Frames \cup {NoFrame},
         pages' = [pages EXCEPT ![p] = PageEntry(s, f)]
  PROVE  /\ pages' \in [PageIds -> [state : PageState, frame_id : Frames \cup {NoFrame}]]
         /\ UsedIds' = IF s = "kUnused" THEN UsedIds \ {p} ELSE UsedIds \cup {p}
  <1>1. pages' \in [PageIds -> [state : PageState, frame_id : Frames \cup {NoFrame}]]
    BY EntryFields DEF TableTypes
  <1>2. \A q \in PageIds : pages'[q].state = IF q = p THEN s ELSE pages[q].state
    BY EntryFields DEF TableTypes
  <1>3. UsedIds' = {q \in PageIds : pages'[q].state # "kUnused"}
    BY DEF UsedIds
  <1>4. \A q : q \in UsedIds' <=>
               q \in (IF s = "kUnused" THEN UsedIds \ {p} ELSE UsedIds \cup {p})
    BY <1>2, <1>3 DEF UsedIds
  <1> QED
    BY <1>1, <1>4

-----------------------------------------------------------------------------
(* The steps.                                                              *)

\* The last id on the list goes out and comes off the list.
LEMMA ReuseStep ==
  ASSUME TableInv, ReusePageId
  PROVE  TableInv' /\ Contract!Allocate
  <1> DEFINE n == Len(free_page_ids)
             p == free_page_ids[n]
  <1>1. /\ free_page_ids \in Seq(PageIds) /\ n \in Nat \ {0}
        /\ DOMAIN free_page_ids = 1 .. n /\ p \in PageIds
        /\ next_page_id \in 0 .. MaxPageCount
    BY DEF TableInv, TableTypes, ReusePageId
  <1>2. /\ pages' = [pages EXCEPT ![p] = PageEntry("kNonResident", NoFrame)]
        /\ allocated_count' = allocated_count + 1
        /\ answer' = p
        /\ free_page_ids' = SubSeq(free_page_ids, 1, n - 1)
        /\ next_page_id' = next_page_id
    BY DEF ReusePageId, Allocated, MakeAllocated
  <1>3. /\ free_page_ids' \in Seq(PageIds)
        /\ DOMAIN free_page_ids' = 1 .. n - 1
        /\ \A i \in 1 .. n - 1 : free_page_ids'[i] = free_page_ids[i]
    BY <1>1, <1>2
  <1>4. /\ pages' \in [PageIds -> [state : PageState, frame_id : Frames \cup {NoFrame}]]
        /\ UsedIds' = UsedIds \cup {p}
    BY <1>1, <1>2, StoreEntry DEF TableInv, PageState
  <1>5. p \notin UsedIds /\ p < next_page_id
    BY <1>1 DEF TableInv, FreeListIsExact, ListIsBelowNext
  <1>6. TableTypes'
    BY <1>1, <1>2, <1>3, <1>4 DEF TableTypes
  <1>7. ListIsBelowNext'
    BY <1>1, <1>2, <1>3 DEF TableInv, ListIsBelowNext
  <1> HIDE DEF p
  <1>8. FreeListIsExact'
    <2>1. \A i, j \in 1 .. n : free_page_ids[i] = free_page_ids[j] => i = j
      BY <1>1 DEF TableInv, FreeListIsExact
    <2>2. \A i, j \in DOMAIN free_page_ids' :
            free_page_ids'[i] = free_page_ids'[j] => i = j
      BY <1>1, <1>3, <2>1
    <2>3. ASSUME NEW q \in PageIds
          PROVE  q \in UsedIds' <=>
                   /\ q < next_page_id'
                   /\ \A i \in DOMAIN free_page_ids' : free_page_ids'[i] # q
      <3>1. q \in UsedIds <=> /\ q < next_page_id
                              /\ \A i \in 1 .. n : free_page_ids[i] # q
        BY <1>1 DEF TableInv, FreeListIsExact
      <3>2. (\A i \in 1 .. n : free_page_ids[i] # q) <=>
              (\A i \in 1 .. n - 1 : free_page_ids[i] # q) /\ q # p
        BY <1>1 DEF p
      <3>3. \A i \in 1 .. n - 1 : free_page_ids[i] # p
        BY <1>1, <2>1 DEF p
      <3> QED
        BY <1>2, <1>3, <1>4, <1>5, <3>1, <3>2, <3>3
    <2>4. allocated_count' = Cardinality(UsedIds')
      BY <1>2, <1>4, <1>5, UsedFinite, FS_AddElement DEF TableInv, FreeListIsExact
    <2> QED
      BY <2>2, <2>3, <2>4 DEF FreeListIsExact
  <1>9. Contract!Allocate
    BY <1>1, <1>2, <1>4, <1>5 DEF Contract!Allocate, p
  <1> QED
    BY <1>6, <1>7, <1>8, <1>9 DEF TableInv

\* With an empty list the next id, which was never handed out, goes out.
LEMMA FreshStep ==
  ASSUME TableInv, FreshPageId
  PROVE  TableInv' /\ Contract!Allocate
  <1> DEFINE p == next_page_id
  <1>1. /\ free_page_ids = <<>> /\ DOMAIN free_page_ids = {}
        /\ p \in 0 .. MaxPageCount /\ p # MaxPageCount /\ p \in PageIds
        /\ MaxPageCount \in Nat
    BY MaxPageCountAssumption DEF TableInv, TableTypes, FreshPageId, PageIds
  <1>2. /\ pages' = [pages EXCEPT ![p] = PageEntry("kNonResident", NoFrame)]
        /\ allocated_count' = allocated_count + 1
        /\ answer' = p
        /\ free_page_ids' = free_page_ids
        /\ next_page_id' = p + 1
    BY DEF FreshPageId, Allocated, MakeAllocated
  <1>3. /\ pages' \in [PageIds -> [state : PageState, frame_id : Frames \cup {NoFrame}]]
        /\ UsedIds' = UsedIds \cup {p}
    BY <1>1, <1>2, StoreEntry DEF TableInv, PageState
  <1>4. p \notin UsedIds
    BY <1>1 DEF TableInv, FreeListIsExact
  <1>5. TableTypes'
    BY <1>1, <1>2, <1>3 DEF TableInv, TableTypes
  <1>6. ListIsBelowNext'
    BY <1>1, <1>2 DEF ListIsBelowNext
  <1>7. FreeListIsExact'
    <2>1. \A q \in PageIds : q \in UsedIds <=> q < p
      BY <1>1 DEF TableInv, FreeListIsExact
    <2>2. \A q \in PageIds : q \in UsedIds' <=> q < p + 1
      BY <1>1, <1>3, <2>1 DEF PageIds
    <2>3. allocated_count' = Cardinality(UsedIds')
      BY <1>2, <1>3, <1>4, UsedFinite, FS_AddElement DEF TableInv, FreeListIsExact
    <2> QED
      BY <1>1, <1>2, <2>2, <2>3 DEF FreeListIsExact
  <1>8. Contract!Allocate
    BY <1>1, <1>2, <1>3, <1>4 DEF Contract!Allocate
  <1> QED
    BY <1>5, <1>6, <1>7, <1>8 DEF TableInv

\* The call that throws has found every id in use.
LEMMA NoPageIdStep ==
  ASSUME TableInv, NoPageId
  PROVE  TableInv' /\ Contract!Allocate
  <1>1. /\ free_page_ids = <<>> /\ DOMAIN free_page_ids = {}
        /\ next_page_id = MaxPageCount /\ answer' = NoPage
        /\ UNCHANGED <<pages, next_page_id, allocated_count, free_page_ids>>
        /\ MaxPageCount \in Nat
    BY MaxPageCountAssumption DEF NoPageId
  <1>2. UsedIds = PageIds
    BY <1>1 DEF TableInv, FreeListIsExact, UsedIds, PageIds
  <1>3. UsedIds' = UsedIds
    BY <1>1 DEF UsedIds
  <1>4. TableTypes' /\ ListIsBelowNext' /\ FreeListIsExact'
    BY <1>1, <1>3 DEF TableInv, TableTypes, ListIsBelowNext, FreeListIsExact
  <1> QED
    BY <1>1, <1>2, <1>3, <1>4 DEF TableInv, Contract!Allocate

\* A freed id was in use and is now the last on the list.
LEMMA FreeStep ==
  ASSUME TableInv, NEW p \in PageIds, FreePageId(p)
  PROVE  TableInv' /\ Contract!Free(p)
  <1> DEFINE n == Len(free_page_ids)
  <1>1. /\ free_page_ids \in Seq(PageIds) /\ n \in Nat
        /\ DOMAIN free_page_ids = 1 .. n
        /\ next_page_id \in 0 .. MaxPageCount
    BY DEF TableInv, TableTypes
  <1>2. /\ pages[p].state = "kNonResident"
        /\ pages' = [pages EXCEPT ![p] = PageEntry("kUnused", NoFrame)]
        /\ allocated_count' = allocated_count - 1
        /\ free_page_ids' = Append(free_page_ids, p)
        /\ next_page_id' = next_page_id /\ answer' = answer
    BY DEF FreePageId, MakeUnused, UnusedEntry, CanFree
  <1>3. /\ free_page_ids' \in Seq(PageIds)
        /\ DOMAIN free_page_ids' = 1 .. n + 1
        /\ \A i \in 1 .. n : free_page_ids'[i] = free_page_ids[i]
        /\ free_page_ids'[n + 1] = p
    BY <1>1, <1>2
  <1>4. /\ pages' \in [PageIds -> [state : PageState, frame_id : Frames \cup {NoFrame}]]
        /\ UsedIds' = UsedIds \ {p}
    BY <1>2, StoreEntry DEF TableInv, PageState
  <1>5. p \in UsedIds
    BY <1>2 DEF UsedIds
  <1>6. /\ p < next_page_id
        /\ \A i \in 1 .. n : free_page_ids[i] # p
    BY <1>1, <1>5 DEF TableInv, FreeListIsExact
  <1>7. TableTypes'
    BY <1>1, <1>2, <1>3, <1>4 DEF TableTypes
  <1>8. ListIsBelowNext'
    BY <1>1, <1>2, <1>3, <1>6 DEF TableInv, ListIsBelowNext
  <1>9. FreeListIsExact'
    <2>1. \A i, j \in 1 .. n : free_page_ids[i] = free_page_ids[j] => i = j
      BY <1>1 DEF TableInv, FreeListIsExact
    <2>2. \A i, j \in DOMAIN free_page_ids' :
            free_page_ids'[i] = free_page_ids'[j] => i = j
      BY <1>1, <1>3, <1>6, <2>1
    <2>3. ASSUME NEW q \in PageIds
          PROVE  q \in UsedIds' <=>
                   /\ q < next_page_id'
                   /\ \A i \in DOMAIN free_page_ids' : free_page_ids'[i] # q
      <3>1. q \in UsedIds <=> /\ q < next_page_id
                              /\ \A i \in 1 .. n : free_page_ids[i] # q
        BY <1>1 DEF TableInv, FreeListIsExact
      <3>2. (\A i \in 1 .. n + 1 : free_page_ids'[i] # q) <=>
              (\A i \in 1 .. n : free_page_ids[i] # q) /\ q # p
        BY <1>1, <1>3
      <3> QED
        BY <1>2, <1>3, <1>4, <3>1, <3>2
    <2>4. allocated_count' = Cardinality(UsedIds')
      BY <1>2, <1>4, <1>5, UsedFinite, FS_RemoveElement DEF TableInv, FreeListIsExact
    <2> QED
      BY <2>2, <2>3, <2>4 DEF FreeListIsExact
  <1> QED
    BY <1>2, <1>4, <1>5, <1>7, <1>8, <1>9 DEF TableInv, Contract!Free

\* The other setters neither hand out an id nor take one back.
LEMMA SetStateStep ==
  ASSUME TableInv, NEW p \in PageIds, SetState(p)
  PROVE  TableInv' /\ UNCHANGED Contract!vars
  <1>1. /\ next_page_id' = next_page_id /\ allocated_count' = allocated_count
        /\ free_page_ids' = free_page_ids /\ answer' = answer
    BY DEF SetState
  <1>2. \E s \in PageState, f \in Frames \cup {NoFrame} :
          /\ s # "kUnused" /\ pages[p].state # "kUnused"
          /\ pages' = [pages EXCEPT ![p] = PageEntry(s, f)]
    <2>1. pages[p].frame_id \in Frames \cup {NoFrame}
      BY DEF TableInv, TableTypes
    <2> QED
      BY <2>1 DEF SetState, CanSetLoading, SetLoading, CanSetResident, SetResident,
                  CanSetNonResident, SetNonResident, CanSetEvicting, SetEvicting,
                  PageState
  <1>3. /\ pages' \in [PageIds -> [state : PageState, frame_id : Frames \cup {NoFrame}]]
        /\ UsedIds' = UsedIds
    <2>1. p \in UsedIds
      BY <1>2 DEF UsedIds
    <2>2. PICK s \in PageState, f \in Frames \cup {NoFrame} :
            s # "kUnused" /\ pages' = [pages EXCEPT ![p] = PageEntry(s, f)]
      BY <1>2
    <2>3. /\ pages' \in [PageIds -> [state : PageState, frame_id : Frames \cup {NoFrame}]]
          /\ UsedIds' = UsedIds \cup {p}
      BY <2>2, StoreEntry DEF TableInv
    <2> QED
      BY <2>1, <2>3
  <1>4. TableTypes' /\ ListIsBelowNext' /\ FreeListIsExact'
    BY <1>1, <1>3 DEF TableInv, TableTypes, ListIsBelowNext, FreeListIsExact
  <1> QED
    BY <1>1, <1>3, <1>4 DEF TableInv, Contract!vars

\* In the table that the constructor makes no id is in use and none is free.
LEMMA TableInit ==
  ASSUME Init
  PROVE  TableInv /\ Contract!Init
  <1>1. pages \in [PageIds -> [state : PageState, frame_id : Frames \cup {NoFrame}]]
    BY EntryFields DEF Init, PageState
  <1>2. UsedIds = {}
    BY EntryFields DEF Init, UsedIds, PageState
  <1>3. TableTypes
    BY <1>1, MaxPageCountAssumption DEF Init, TableTypes
  <1>4. ListIsBelowNext
    BY DEF Init, ListIsBelowNext
  <1>5. FreeListIsExact
    <2>1. \A q \in PageIds : ~(q < next_page_id)
      BY MaxPageCountAssumption DEF Init, PageIds
    <2> QED
      BY <1>2, <2>1, FS_EmptySet DEF Init, FreeListIsExact
  <1> QED
    BY <1>2, <1>3, <1>4, <1>5 DEF Init, TableInv, Contract!Init

\* Every step of the table is a step of the pool of page ids, or leaves the
\* ids in use alone.
LEMMA TableStep ==
  ASSUME TableInv, [Next]_vars
  PROVE  TableInv' /\ [Contract!Next]_(Contract!vars)
  <1>1. CASE ReusePageId
    BY <1>1, ReuseStep DEF Contract!Next
  <1>2. CASE FreshPageId
    BY <1>2, FreshStep DEF Contract!Next
  <1>3. CASE NoPageId
    BY <1>3, NoPageIdStep DEF Contract!Next
  <1>4. CASE \E p \in PageIds : FreePageId(p)
    BY <1>4, FreeStep DEF Contract!Next
  <1>5. CASE \E p \in PageIds : SetState(p)
    BY <1>5, SetStateStep
  <1>6. CASE UNCHANGED vars
    <2>1. UNCHANGED <<pages, next_page_id, allocated_count, free_page_ids, answer>>
      BY <1>6 DEF vars
    <2>2. UsedIds' = UsedIds
      BY <2>1 DEF UsedIds
    <2>3. TableTypes' /\ ListIsBelowNext' /\ FreeListIsExact'
      BY <2>1, <2>2 DEF TableInv, TableTypes, ListIsBelowNext, FreeListIsExact
    <2> QED
      BY <2>1, <2>2, <2>3 DEF TableInv, Contract!vars
  <1> QED
    BY <1>1, <1>2, <1>3, <1>4, <1>5, <1>6 DEF Next

\* The free list never holds an id twice, nor one in use or one that was
\* never handed out, and it misses no freed id, whatever the order of
\* AllocatePageId and FreePageId.
THEOREM FreeListAlwaysExact == Spec => []FreeListIsExact
  <1>1. Init => TableInv
    BY TableInit
  <1>2. TableInv /\ [Next]_vars => TableInv'
    BY TableStep
  <1>3. TableInv => FreeListIsExact
    BY DEF TableInv
  <1> QED
    BY <1>1, <1>2, <1>3, PTL DEF Spec

\* The page table implements the pool of page ids: no id is handed out while
\* it is in use, and AllocatePageId throws only when all are in use.
THEOREM PageTableIsIdPool == Spec => ImplementsPageIds
  <1>1. Init => TableInv /\ Contract!Init
    BY TableInit
  <1>2. TableInv /\ [Next]_vars => TableInv' /\ [Contract!Next]_(Contract!vars)
    BY TableStep
  <1> QED
    BY <1>1, <1>2, PTL DEF Spec, ImplementsPageIds, Contract!Spec
==============================================================================
