------------------------------ MODULE PageTable ------------------------------
(***************************************************************************)
(* The page table with its allocator of page ids: ids are handed out in    *)
(* order until they run out, freed ids first, the last one freed first of  *)
(* all.  A call that throws changes nothing; of those only the failing     *)
(* AllocatePageId is a step, for its answer.                               *)
(***************************************************************************)
EXTENDS Naturals, Sequences, FiniteSets, PageTableEntries

CONSTANTS
  MaxPageCount,
  Frames,
  NoPage            \* the answer of an AllocatePageId that throws

ASSUME MaxPageCountAssumption == MaxPageCount \in Nat \ {0}

PageIds == 0 .. MaxPageCount - 1

ASSUME SentinelAssumption == NoPage \notin PageIds /\ NoFrame \notin Frames

VARIABLES
  pages,
  next_page_id,
  allocated_count,
  free_page_ids,
  answer            \* the last answer of AllocatePageId

vars == <<pages, next_page_id, allocated_count, free_page_ids, answer>>

Init ==
  /\ pages = [p \in PageIds |-> UnusedEntry]
  /\ next_page_id = 0
  /\ allocated_count = 0
  /\ free_page_ids = <<>>
  /\ answer = NoPage

\* The id p goes out.
Allocated(p) ==
  /\ pages' = MakeAllocated(pages, p)
  /\ allocated_count' = allocated_count + 1
  /\ answer' = p

\* Mutant: the id stays on the free list.
ReuseKept ==
  /\ free_page_ids # <<>>
  /\ Allocated(free_page_ids[Len(free_page_ids)])
  /\ UNCHANGED <<next_page_id, free_page_ids>>

ReusePageId ==
  /\ free_page_ids # <<>>
  /\ Allocated(free_page_ids[Len(free_page_ids)])
  /\ free_page_ids' = SubSeq(free_page_ids, 1, Len(free_page_ids) - 1)
  /\ UNCHANGED next_page_id

FreshPageId ==
  /\ free_page_ids = <<>>
  /\ next_page_id # MaxPageCount
  /\ Allocated(next_page_id)
  /\ next_page_id' = next_page_id + 1
  /\ UNCHANGED free_page_ids

\* "maximum number of pages reached"
NoPageId ==
  /\ free_page_ids = <<>>
  /\ next_page_id = MaxPageCount
  /\ answer' = NoPage
  /\ UNCHANGED <<pages, next_page_id, allocated_count, free_page_ids>>

\* Mutant: the id is not put on the free list.
FreeLost(p) ==
  /\ CanFree(pages, p)
  /\ pages' = MakeUnused(pages, p)
  /\ allocated_count' = allocated_count - 1
  /\ UNCHANGED <<next_page_id, free_page_ids, answer>>

FreePageId(p) ==
  /\ CanFree(pages, p)
  /\ pages' = MakeUnused(pages, p)
  /\ free_page_ids' = Append(free_page_ids, p)
  /\ allocated_count' = allocated_count - 1
  /\ UNCHANGED <<next_page_id, answer>>

\* SetLoading, SetResident, SetNonResident and SetEvicting
SetState(p) ==
  /\ \/ \E f \in Frames : \/ /\ CanSetLoading(pages, p)
                             /\ pages' = SetLoading(pages, p, f)
                          \/ /\ CanSetResident(pages, p, f)
                             /\ pages' = SetResident(pages, p, f)
     \/ CanSetNonResident(pages, p) /\ pages' = SetNonResident(pages, p)
     \/ CanSetEvicting(pages, p) /\ pages' = SetEvicting(pages, p)
  /\ UNCHANGED <<next_page_id, allocated_count, free_page_ids, answer>>

Next ==
  \/ ReusePageId \/ FreshPageId \/ NoPageId
  \/ \E p \in PageIds : FreePageId(p) \/ SetState(p)

Spec == Init /\ [][Next]_vars

-----------------------------------------------------------------------------

UsedIds == {p \in PageIds : pages[p].state # "kUnused"}

\* The free list holds every id that was handed out and freed, once; an id
\* that was never handed out is at or after next_page_id; allocated_count is
\* the number of the others.  An id on the list twice would be handed out to
\* two pages.
FreeListIsExact ==
  /\ \A i, j \in DOMAIN free_page_ids :
       free_page_ids[i] = free_page_ids[j] => i = j
  /\ \A p \in PageIds :
       p \in UsedIds <=> /\ p < next_page_id
                         /\ \A i \in DOMAIN free_page_ids : free_page_ids[i] # p
  /\ allocated_count = Cardinality(UsedIds)

Contract == INSTANCE IdPool WITH Ids <- PageIds, None <- NoPage,
                                 used <- UsedIds

\* Allocation of page ids is an id pool: no id is handed out twice, and
\* "maximum number of pages reached" is thrown only when all are in use.
ImplementsPageIds == Contract!Spec
=============================================================================
