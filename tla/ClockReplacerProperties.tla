----------------------- MODULE ClockReplacerProperties -----------------------
(* What the clock policy promises.                                         *)
EXTENDS ClockReplacer

\* Every variable has the type that the class declares for it, and the turn
\* of a running scan is one that the loops of Victim have.
TypeOK ==
  /\ present \subseteq Frames
  /\ evictable \subseteq present
  /\ referenced \subseteq present
  /\ clock_hand \in Frames
  /\ evictable_count \in 0 .. FrameCount
  /\ scanning \in BOOLEAN
  /\ pass \in 0 .. 2 /\ scanned \in Frames
  /\ scanning => pass \in 0 .. 1
  /\ victim \in Frames \cup {NoFrame}
  /\ start \in Frames /\ accessed \subseteq Frames

\* evictable_count_ is the number of evictable entries, through every
\* sequence of SetEvictable, Remove and Victim: Victim's early return is
\* taken exactly when there is nothing to evict, and the unsigned counter
\* never wraps.
CountIsExact == evictable_count = Cardinality(evictable)

Contract == INSTANCE Replacer

\* The clock is a Replacer: Victim answers with an evictable frame and
\* forgets it.  In particular it never falls out of its two passes and
\* answers nullopt while something is evictable.
ImplementsReplacer == Contract!Spec

\* How far the hand travels from start to f.
Distance(f) == IF start <= f THEN f - start ELSE f + FrameCount - start

\* The frames the running call may choose from: those not accessed since the
\* hand last passed them, or all when every one was accessed.
Eligible ==
  IF evictable \subseteq accessed THEN evictable ELSE evictable \ accessed

\* Victim chooses the eligible frame that the hand meets first: an accessed
\* frame is given a second chance before any frame that was not, and no
\* frame is skipped.
ChoosesFirstEligible ==
  [][scanning /\ ~scanning' =>
       /\ victim' \in Eligible
       /\ \A f \in Eligible : Distance(victim') <= Distance(f)]_vars
=============================================================================
