-------------------------- MODULE PageTableEntries --------------------------
(***************************************************************************)
(* The state transitions of one page-table entry, as functions on the      *)
(* whole table.  A table pt is a function from page ids to entries         *)
(* [state, frame_id].  Each setter comes with the condition under which    *)
(* PageTable does not throw (Can...), which is the caller's obligation.    *)
(* Both PageTable (the class, with its id allocator) and BufferManager     *)
(* (its only user) are written with these operators.                       *)
(***************************************************************************)

CONSTANT NoFrame          \* std::nullopt in Entry::frame_id

PageState == {"kUnused", "kNonResident", "kLoading", "kResident", "kEvicting"}

PageEntry(state, frame_id) == [state |-> state, frame_id |-> frame_id]

UnusedEntry == PageEntry("kUnused", NoFrame)

\* A page in flight between disk and memory: every caller but the one that
\* put it there waits until it has left this state.
Transient(pt, p) == pt[p].state \in {"kLoading", "kEvicting"}

\* The entry part of AllocatePageId, for the id p that it hands out.
MakeAllocated(pt, p) == [pt EXCEPT ![p] = PageEntry("kNonResident", NoFrame)]

CanFree(pt, p) == pt[p].state = "kNonResident"
MakeUnused(pt, p) == [pt EXCEPT ![p] = UnusedEntry]

CanSetLoading(pt, p) == pt[p].state = "kNonResident"
SetLoading(pt, p, f) == [pt EXCEPT ![p] = PageEntry("kLoading", f)]

CanSetResident(pt, p, f) ==
  \/ pt[p].state = "kNonResident"
  \/ pt[p].state = "kLoading" /\ pt[p].frame_id = f
SetResident(pt, p, f) == [pt EXCEPT ![p] = PageEntry("kResident", f)]

CanSetNonResident(pt, p) == pt[p].state # "kUnused"
SetNonResident(pt, p) == [pt EXCEPT ![p] = PageEntry("kNonResident", NoFrame)]

CanSetEvicting(pt, p) == pt[p].state = "kResident"
SetEvicting(pt, p) == [pt EXCEPT ![p] = PageEntry("kEvicting", @.frame_id)]
=============================================================================
