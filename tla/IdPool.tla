------------------------------- MODULE IdPool -------------------------------
(***************************************************************************)
(* The contract that BufferManager relies on for the ids of frames         *)
(* (FrameAllocator) and of pages (PageTable): an allocation answers with   *)
(* any id that is not in use, and with none exactly when all are; an id in *)
(* use can be given back.                                                  *)
(***************************************************************************)
CONSTANTS
  Ids,
  None          \* the answer of an allocation that fails

VARIABLES
  used,         \* ids handed out and not given back
  answer        \* the last allocation's answer

vars == <<used, answer>>

Init == used = {} /\ answer = None

Allocate ==
  \/ used = Ids /\ answer' = None /\ UNCHANGED used
  \/ \E id \in Ids \ used : used' = used \cup {id} /\ answer' = id

Free(id) == id \in used /\ used' = used \ {id} /\ UNCHANGED answer

Next == Allocate \/ \E id \in Ids : Free(id)

Spec == Init /\ [][Next]_vars
=============================================================================
