------------------------ MODULE BufferManagerClients ------------------------
(***************************************************************************)
(* The buffer manager as its clients see it.  Clients are careful here:    *)
(* they fetch and delete only pages that a NewPage has returned, and do    *)
(* not use a page that they delete.  (What happens to others is the        *)
(* subject of NoOrphanFrames.)  For careful clients the buffer manager is  *)
(* a PageStore.                                                            *)
(***************************************************************************)
EXTENDS BufferManagerProperties

\* Thread t is in a call that fetches or deletes page p.
Uses(t, p) == loc[t].op \in {"FetchPage", "DeletePage"} /\ loc[t].page_id = p
Deletes(t, p) == loc[t].op = "DeletePage" /\ loc[t].page_id = p

\* A client may fetch page p: it was returned by NewPage, and is not deleted.
Known(p) ==
  /\ pages[p].state # "kUnused" /\ ~BeingCreated(p)
  /\ \A u \in Threads : ~Deletes(u, p)

CarefulCall(t) ==
  /\ Call(t)
  /\ \A p \in Pages :
       /\ Uses(t, p)' => Known(p)
       /\ Deletes(t, p)' => \A u \in Threads : ~Uses(u, p)

CarefulNext ==
  \E t \in Threads :
    \/ CarefulCall(t)
    \/ Step(t)
    \/ SpuriousWake(t)
    \/ \E p \in Pages : UseGuard(t, p)

CarefulSpec == Init /\ [][CarefulNext]_vars

-----------------------------------------------------------------------------

\* The victim p has been written back, or need not be: its contents are on
\* disk.
IsSettled(p) ==
  \E t \in Threads : pc[t] = "evicted" /\ loc[t].old_page_id = p

\* The contents of page p are in its frame.
InFrame(p) ==
  \/ pages[p].state = "kResident"
  \/ pages[p].state = "kEvicting" /\ ~IsSettled(p)

\* NoPage also stands for a page that does not exist: no image equals it.
ASSUME AbsentIsNoContent == NoPage \notin Content

ClientContent(p) ==
  IF pages[p].state = "kUnused" \/ BeingCreated(p) THEN NoPage
  ELSE IF InFrame(p) THEN image[pages[p].frame_id] ELSE disk[p]

Store == INSTANCE PageStore WITH
  Contents <- Content,
  Absent   <- NoPage,
  content  <- [p \in Pages |-> ClientContent(p)],
  held     <- {h \in Threads \X Pages : guard[h[1]][h[2]] # NoFrame},
  pending  <- {p \in Pages : InFrame(p) /\ pages[p].frame_id \in unmarked}

\* The buffer manager is a store of pages: evictions, loads, flushes, failed
\* reads and writes and all their interleavings change nothing that a client
\* can see.  A page is new when NewPage returns it, and is never gone or
\* replaced while someone has a guard for it.
ImplementsPageStore == Store!Spec

\* "no frame available" is thrown only when every frame is held by a guard or
\* by a flush under way, never because a page is on its way in or out, and
\* never because a frame was lost.
OutOfFramesIsTrue ==
  [][\A t \in Threads :
       NewPageNoFrame(t) \/ FetchNoFrame(t) => \A f \in Frames : Holders(f) # {}]_vars
=============================================================================
