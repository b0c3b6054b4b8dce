------------------------------ MODULE PageStore ------------------------------
(***************************************************************************)
(* What the buffer manager promises its clients: a store of pages.  Frames,*)
(* eviction, loading, flushing and I/O errors do not show.                 *)
(*                                                                         *)
(* A page is absent or has contents.  It is created with zeros, and is     *)
(* used through guards: a page that someone holds is not deleted.  Only    *)
(* writing through a guard changes its contents.  The one thing that shows *)
(* is that a write has to be marked: until then the page is pending, and   *)
(* when nobody holds it the store may forget what was written.             *)
(***************************************************************************)
CONSTANTS
  Threads,
  Pages,
  Contents,     \* what a page may contain
  ZeroPage,     \* the contents of a new page
  Absent        \* the page does not exist

VARIABLES
  content,      \* the contents of each page, or Absent
  held,         \* <<t, p>>: t has a guard for page p
  pending       \* pages written and not marked

vars == <<content, held, pending>>

Init ==
  /\ content = [p \in Pages |-> Absent]
  /\ held = {}
  /\ pending = {}

IsHeld(p) == \E t \in Threads : <<t, p>> \in held

\* NewPage returns a guard.
Create(t, p) ==
  /\ content[p] = Absent
  /\ content' = [content EXCEPT ![p] = ZeroPage]
  /\ held' = held \cup {<<t, p>>}
  /\ UNCHANGED pending

\* FetchPage returns a guard.
Acquire(t, p) ==
  /\ content[p] # Absent
  /\ held' = held \cup {<<t, p>>}
  /\ UNCHANGED <<content, pending>>

Release(t, p) ==
  /\ <<t, p>> \in held
  /\ held' = held \ {<<t, p>>}
  /\ UNCHANGED <<content, pending>>

Write(t, p, c) ==
  /\ <<t, p>> \in held
  /\ content' = [content EXCEPT ![p] = c]
  /\ pending' = pending \cup {p}
  /\ UNCHANGED held

Mark(t, p) ==
  /\ <<t, p>> \in held
  /\ pending' = pending \ {p}
  /\ UNCHANGED <<content, held>>

\* A pending page loses what was written to it, or keeps it.
Forget(p, c) ==
  /\ p \in pending /\ ~IsHeld(p)
  /\ content' = [content EXCEPT ![p] = c]
  /\ pending' = pending \ {p}
  /\ UNCHANGED held

Delete(p) ==
  /\ content[p] # Absent /\ ~IsHeld(p)
  /\ content' = [content EXCEPT ![p] = Absent]
  /\ pending' = pending \ {p}
  /\ UNCHANGED held

Next ==
  \E p \in Pages :
    \/ \E t \in Threads : \/ Create(t, p) \/ Acquire(t, p) \/ Release(t, p)
                          \/ Mark(t, p) \/ \E c \in Contents : Write(t, p, c)
    \/ \E c \in Contents : Forget(p, c)
    \/ Delete(p)

Spec == Init /\ [][Next]_vars
=============================================================================
