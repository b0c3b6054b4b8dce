------------------------------ MODULE Replacer ------------------------------
(***************************************************************************)
(* The contract of the Replacer interface, as BufferManager relies on it:  *)
(* a set of known frames, the subset that may be evicted, and a Victim     *)
(* that answers with one of those, whichever the policy likes, and forgets *)
(* it; it answers nullopt exactly when none may be evicted.  A call on an  *)
(* unknown frame that throws changes nothing and is not a step.            *)
(***************************************************************************)
CONSTANTS
  Frames,
  NoFrame       \* std::nullopt

VARIABLES
  present,      \* frames known to the replacer
  evictable,    \* frames that Victim may return
  victim        \* Victim's last answer

vars == <<present, evictable, victim>>

Init == present = {} /\ evictable = {} /\ victim = NoFrame

RecordAccess(f) ==
  /\ present' = present \cup {f}
  /\ UNCHANGED <<evictable, victim>>

SetEvictable(f, flag) ==
  /\ f \in present
  /\ evictable' = IF flag THEN evictable \cup {f} ELSE evictable \ {f}
  /\ UNCHANGED <<present, victim>>

Forget(f) ==
  /\ present' = present \ {f}
  /\ evictable' = evictable \ {f}

Remove(f) == Forget(f) /\ UNCHANGED victim

Victim ==
  \/ evictable = {} /\ victim' = NoFrame /\ UNCHANGED <<present, evictable>>
  \/ \E f \in evictable : Forget(f) /\ victim' = f

Next ==
  \/ \E f \in Frames : \/ RecordAccess(f)
                       \/ \E flag \in BOOLEAN : SetEvictable(f, flag)
                       \/ Remove(f)
  \/ Victim

Spec == Init /\ [][Next]_vars
=============================================================================
