----------------------- MODULE BufferManagerDurability -----------------------
(***************************************************************************)
(* What is left when the machine stops.  Writes reach the file at once and *)
(* the medium with the next Sync: until then a power failure leaves of     *)
(* them what it likes.  The buffer manager keeps its tables in memory      *)
(* only: it starts again with no pages, and the file is all that is left.  *)
(*                                                                         *)
(* The history variables say what a client may count on.  A flush call     *)
(* owes the pages it was asked for, as they were when it began; when it    *)
(* returns they are stored; what is stored when Sync begins is durable     *)
(* when Sync returns; and a page that is changed is none of these.         *)
(***************************************************************************)
EXTENDS BufferManagerProperties

CONSTANT
  FlushAllIsComplete  \* whether FlushAllPages promises every page, or all but
                      \* those in eviction when it lists the dirty frames
ASSUME CompleteAssumption == FlushAllIsComplete \in BOOLEAN

VARIABLES
  unsynced,     \* pages whose copies in file and medium may differ
  sync,         \* the pages that the Sync under way promises
  owed,         \* history: the pages that each flush call has promised
  stored,       \* history: the pages flushed since they were changed
  durable       \* history: the contents that survive, or NoPage

history == <<unsynced, sync, owed, stored, durable>>
allVars == <<vars, history>>

DInit ==
  /\ Init
  /\ unsynced = {} /\ sync = {}
  /\ owed = [t \in Threads |-> {}]
  /\ stored = {}
  /\ durable = [p \in Pages |-> NoPage]

-----------------------------------------------------------------------------
(* What a step of the buffer manager does to the promises.                 *)

\* The step changes page p, or creates or deletes it.
Changes(p) ==
  \/ Unmarked(p)' \/ BeingCreated(p)
  \/ (pages[p].state = "kUnused") # (pages'[p].state = "kUnused")

\* Thread t calls FlushPage or FlushAllPages, and asks for these pages.
FlushOps == {"FlushPage", "FlushAllPages"}
Begins(t) == pc[t] = "idle" /\ loc'[t].op \in FlushOps
AskedFor(t) ==
  {p \in Pages : loc'[t].op = "FlushAllPages" \/ loc'[t].page_id = p}

\* Thread t returns from a flush call, and not by an exception.
Returns(t) ==
  /\ loc[t].op \in FlushOps /\ pc'[t] = "idle"
  /\ ~FlushFailed(t) /\ ~FlushUnused(t)

\* The pages that FlushAllPages passes over: they are not resident, and so
\* not in its list, although their write-back may fail.
Overlooked(t) ==
  {p \in Pages : /\ ~FlushAllIsComplete
                 /\ FlushAllList(t)
                 /\ pages[p].state = "kEvicting"}

\* What thread t has promised and not given up.
Due(t) == owed[t] \ Overlooked(t)

Remember ==
  LET changed == {p \in Pages : Changes(p)}
      written == {p \in Pages : disk'[p] # disk[p]}
  IN /\ unsynced' = unsynced \cup written
     /\ sync' = sync \ changed
     /\ owed' = [t \in Threads |->
                   IF Begins(t) THEN AskedFor(t) \ changed
                   ELSE IF pc'[t] = "idle" THEN {} ELSE Due(t) \ changed]
     /\ stored' = (stored \cup UNION {Due(t) : t \in {u \in Threads : Returns(u)}})
                    \ changed
     /\ durable' = [p \in Pages |-> IF p \in changed THEN NoPage ELSE durable[p]]

-----------------------------------------------------------------------------
(* Sync, and the end of the program.                                       *)

\* BufferManager::Sync takes file_mutex_, so that there is one at a time,
\* and not mutex_: pages are written while fdatasync runs, and it may or may
\* not include them.  A Sync that promises nothing new is of no interest.
BeginSync ==
  /\ sync = {}
  /\ sync' = {p \in stored : durable[p] = NoPage}
  /\ sync' # {}
  /\ UNCHANGED <<vars, unsynced, owed, stored, durable>>

\* Mutant: Sync returns without a call of fdatasync.
EndSyncUnwritten ==
  /\ sync # {}
  /\ sync' = {}
  /\ durable' = [p \in Pages |-> IF p \in sync THEN PageContent(p)
                                 ELSE durable[p]]
  /\ UNCHANGED <<vars, unsynced, owed, stored>>

\* fdatasync has returned.  It has written other pages as well, but which is
\* not known.
EndSync ==
  /\ sync # {}
  /\ sync' = {}
  /\ unsynced' = unsynced \ sync
  /\ durable' = [p \in Pages |-> IF p \in sync THEN PageContent(p)
                                 ELSE durable[p]]
  /\ UNCHANGED <<vars, owed, stored>>

\* "fdatasync failed": nothing is promised.
SyncFails ==
  /\ sync # {} /\ IoFaults
  /\ sync' = {}
  /\ UNCHANGED <<vars, unsynced, owed, stored, durable>>

\* Everything in memory is gone, and a new buffer manager starts.
Restart ==
  /\ pages' = [p \in Pages |-> UnusedEntry]
  /\ meta' = [f \in Frames |-> FreeMeta]
  /\ allocated' = {} /\ present' = {} /\ evictable' = {}
  /\ image' = [f \in Frames |-> ZeroPage]
  /\ guard' = [t \in Threads |-> [p \in Pages |-> NoFrame]]
  /\ sleeping' = {}
  /\ pc' = [t \in Threads |-> "idle"]
  /\ loc' = [t \in Threads |-> NoCall]
  /\ unmarked' = {}
  /\ sync' = {}
  /\ owed' = [t \in Threads |-> {}] /\ stored' = {}
  /\ UNCHANGED durable

\* ~BufferManager, when no call is under way and no guard is left.  It
\* flushes nothing.
Destroy ==
  /\ \A t \in Threads : pc[t] = "idle" /\ \A p \in Pages : guard[t][p] = NoFrame
  /\ sync = {}
  /\ Restart
  /\ UNCHANGED <<disk, unsynced>>

\* The machine stops, whatever the threads are doing.  TornPage stands for
\* whatever the medium has of a page that was not synced.
PowerFailure ==
  /\ \E lost \in SUBSET unsynced :
       disk' = [p \in Pages |-> IF p \in lost THEN TornPage ELSE disk[p]]
  /\ unsynced' = {}
  /\ Restart

DNext ==
  \/ Next /\ Remember
  \/ BeginSync \/ EndSync \/ SyncFails \/ Destroy \/ PowerFailure

DurableSpec == DInit /\ [][DNext]_allVars

-----------------------------------------------------------------------------

\* When FlushPage or FlushAllPages returns, the file has the pages as they
\* were when it was called, unless they were changed meanwhile: also if the
\* page was just being evicted, read, or flushed by someone else, and
\* whatever happens to it afterwards, until it is changed.
FlushedIsStored == \A p \in stored : disk[p] = PageContent(p)

\* A page that was flushed before Sync, and not changed since, survives a
\* power failure: no eviction, flush, failed write or restart can take from
\* the file what a client was promised.
SyncedSurvives == \A p \in Pages : durable[p] # NoPage => disk[p] = durable[p]
=============================================================================
