---------------------------- MODULE ClockReplacer ----------------------------
(***************************************************************************)
(* The clock policy.  The vector of entries is three sets of frames, one   *)
(* per flag of Entry.  RecordAccess, SetEvictable and Remove are one step  *)
(* each; Victim is a step per turn of its two nested loops, during which   *)
(* (the caller holds the buffer manager's mutex) nothing else happens.     *)
(***************************************************************************)
EXTENDS Naturals, FiniteSets

CONSTANTS
  FrameCount,   \* entries_.size()
  NoFrame       \* std::nullopt

ASSUME FrameCountAssumption == FrameCount \in Nat \ {0}

Frames == 0 .. FrameCount - 1

ASSUME NoFrameAssumption == NoFrame \notin Frames

VARIABLES
  present, evictable, referenced,   \* the flags of the entries
  clock_hand,
  evictable_count,
  scanning,                         \* a call of Victim is in its loops ...
  pass, scanned,                    \* ... at this turn of them
  victim,                           \* Victim's last answer
  start,                            \* history: clock_hand and the referenced
  accessed                          \*   frames when that call began

entries == <<present, evictable, referenced, evictable_count>>
loop == <<scanning, pass, scanned, start, accessed>>
vars == <<entries, clock_hand, loop, victim>>

Init ==
  /\ present = {} /\ evictable = {} /\ referenced = {}
  /\ clock_hand = 0
  /\ evictable_count = 0
  /\ scanning = FALSE /\ pass = 0 /\ scanned = 0
  /\ victim = NoFrame
  /\ start = 0 /\ accessed = {}

-----------------------------------------------------------------------------

RecordAccess(f) ==
  /\ ~scanning
  /\ present' = present \cup {f}
  /\ referenced' = referenced \cup {f}
  /\ UNCHANGED <<evictable, evictable_count, clock_hand, loop, victim>>

\* An unknown frame throws and an unchanged flag returns early: no step.
SetEvictable(f, flag) ==
  /\ ~scanning
  /\ f \in present
  /\ (f \in evictable) # flag
  /\ evictable' = IF flag THEN evictable \cup {f} ELSE evictable \ {f}
  /\ evictable_count' = IF flag THEN evictable_count + 1
                                ELSE evictable_count - 1
  /\ UNCHANGED <<present, referenced, clock_hand, loop, victim>>

\* Mutant: the counter is forgotten.
EraseUncounted(f) ==
  /\ present' = present \ {f}
  /\ evictable' = evictable \ {f}
  /\ referenced' = referenced \ {f}
  /\ evictable_count' = evictable_count

\* The body of Remove for a known frame: entry = Entry{}.
Erase(f) ==
  /\ present' = present \ {f}
  /\ evictable' = evictable \ {f}
  /\ referenced' = referenced \ {f}
  /\ evictable_count' = IF f \in evictable THEN evictable_count - 1
                                           ELSE evictable_count

Remove(f) ==
  /\ ~scanning
  /\ f \in present
  /\ Erase(f)
  /\ UNCHANGED <<clock_hand, loop, victim>>

-----------------------------------------------------------------------------
(* Victim.                                                                 *)

\* Mutant: the hand does not wrap.
HandRunsOn == clock_hand' = clock_hand + 1

AdvanceClockHand ==
  clock_hand' = IF clock_hand + 1 = FrameCount THEN 0 ELSE clock_hand + 1

\* The entry under the hand may be evicted.
Candidate == clock_hand \in present /\ clock_hand \in evictable

\* It was not accessed since the hand last passed it.
Unreferenced == clock_hand \notin referenced

VictimNone ==
  /\ ~scanning
  /\ evictable_count = 0
  /\ victim' = NoFrame
  /\ UNCHANGED <<entries, clock_hand, loop>>

VictimBegin ==
  /\ ~scanning
  /\ evictable_count # 0
  /\ scanning' = TRUE /\ pass' = 0 /\ scanned' = 0
  /\ start' = clock_hand /\ accessed' = referenced
  /\ UNCHANGED <<entries, clock_hand, victim>>

VictimTake ==
  /\ scanning
  /\ Candidate /\ Unreferenced
  /\ Erase(clock_hand)
  /\ victim' = clock_hand
  /\ AdvanceClockHand
  /\ scanning' = FALSE
  /\ UNCHANGED <<pass, scanned, start, accessed>>

\* Mutant: the second pass is missing.
OnlyPass == pass = 0 /\ scanned + 1 = FrameCount

\* The last turn of the last pass, after which Victim returns nullopt.
LastTurn == pass = 1 /\ scanned + 1 = FrameCount

\* Mutant: the hand is advanced before the bit is cleared.
ClearNext ==
  referenced' = IF Candidate THEN referenced \ {(clock_hand + 1) % FrameCount}
                             ELSE referenced

ClearReference ==
  referenced' = IF Candidate THEN referenced \ {clock_hand} ELSE referenced

\* Any other entry is passed over; a candidate loses its reference bit.
VictimPass ==
  /\ scanning
  /\ ~(Candidate /\ Unreferenced)
  /\ ClearReference
  /\ AdvanceClockHand
  /\ scanned' = IF scanned + 1 = FrameCount THEN 0 ELSE scanned + 1
  /\ pass' = IF scanned + 1 = FrameCount THEN pass + 1 ELSE pass
  /\ scanning' = ~LastTurn
  /\ victim' = IF LastTurn THEN NoFrame ELSE victim
  /\ UNCHANGED <<present, evictable, evictable_count, start, accessed>>

-----------------------------------------------------------------------------

Next ==
  \/ \E f \in Frames : \/ RecordAccess(f)
                       \/ \E flag \in BOOLEAN : SetEvictable(f, flag)
                       \/ Remove(f)
  \/ VictimNone
  \/ VictimBegin
  \/ VictimTake
  \/ VictimPass

Spec == Init /\ [][Next]_vars
=============================================================================
