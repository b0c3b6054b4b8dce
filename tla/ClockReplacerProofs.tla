------------------------- MODULE ClockReplacerProofs -------------------------
(***************************************************************************)
(* Proofs that the clock policy keeps its counter, implements the Replacer *)
(* contract and chooses the frame it should, for every number of frames.   *)
(*                                                                         *)
(* The argument is about the running scan.  In the first pass the frames   *)
(* that the hand has passed had been accessed (or they would have been     *)
(* taken) and have lost their reference bits, and the others are as they   *)
(* were.  In the second pass no evictable frame is referenced any more, so *)
(* those the hand has passed again cannot have been evictable.             *)
(***************************************************************************)
EXTENDS ClockReplacerProperties, FiniteSetTheorems, TLAPS

\* What holds at turn (pass, scanned) of Victim's loops.
ScanInv ==
  scanning =>
    /\ evictable # {}
    /\ Distance(clock_hand) = scanned
    /\ pass = 0 =>
         \A f \in evictable :
           /\ Distance(f) < scanned => f \in accessed /\ f \notin referenced
           /\ Distance(f) >= scanned => (f \in referenced <=> f \in accessed)
    /\ pass = 1 =>
         \A f \in evictable :
           f \in accessed /\ f \notin referenced /\ Distance(f) >= scanned

Inv == TypeOK /\ CountIsExact /\ ScanInv

-----------------------------------------------------------------------------
(* The hand and the counter.                                               *)

\* Distances from the start of the scan are those of a clock face.
LEMMA DistanceType ==
  ASSUME start \in Frames, NEW f \in Frames
  PROVE  Distance(f) \in 0 .. FrameCount - 1
BY FrameCountAssumption DEF Distance, Frames

\* Two frames are at different distances.
LEMMA DistanceInjective ==
  ASSUME start \in Frames, NEW f \in Frames, NEW g \in Frames,
         Distance(f) = Distance(g)
  PROVE  f = g
BY FrameCountAssumption DEF Distance, Frames

\* AdvanceClockHand moves the hand to the next frame of the scan and, after
\* the last one, back to the start.
LEMMA HandMoves ==
  ASSUME start \in Frames, clock_hand \in Frames, AdvanceClockHand,
         UNCHANGED start
  PROVE  /\ clock_hand' \in Frames
         /\ Distance(clock_hand)' =
              IF Distance(clock_hand) + 1 = FrameCount
              THEN 0 ELSE Distance(clock_hand) + 1
BY FrameCountAssumption DEF AdvanceClockHand, Distance, Frames

\* A set of frames is finite and has at most FrameCount members.
LEMMA FramesFinite ==
  ASSUME NEW S, S \subseteq Frames
  PROVE  IsFiniteSet(S) /\ Cardinality(S) \in 0 .. FrameCount
<1>1. IsFiniteSet(Frames) /\ Cardinality(Frames) = FrameCount
  BY FS_Interval, FrameCountAssumption DEF Frames
<1>2. IsFiniteSet(S) /\ Cardinality(S) <= Cardinality(Frames)
  BY <1>1, FS_Subset
<1>3. Cardinality(S) \in Nat
  BY <1>2, FS_CardinalityType
<1> QED BY <1>1, <1>2, <1>3, FrameCountAssumption

\* Adding a frame that was not evictable, or taking away one that was,
\* changes the number of evictable frames by one.
LEMMA CountChanges ==
  ASSUME evictable \subseteq Frames, NEW f \in Frames
  PROVE  /\ f \notin evictable =>
              Cardinality(evictable \cup {f}) = Cardinality(evictable) + 1
         /\ f \in evictable =>
              Cardinality(evictable \ {f}) = Cardinality(evictable) - 1
         /\ f \notin evictable => evictable \ {f} = evictable
<1>1. IsFiniteSet(evictable)
  BY FramesFinite
<1>2. f \notin evictable =>
        Cardinality(evictable \cup {f}) = Cardinality(evictable) + 1
  BY <1>1, FS_AddElement
<1>3. f \in evictable =>
        Cardinality(evictable \ {f}) = Cardinality(evictable) - 1
  BY <1>1, FS_RemoveElement
<1> QED BY <1>2, <1>3

-----------------------------------------------------------------------------
(* The type invariant and the counter.                                     *)

\* Nothing is known or evictable at the start.
LEMMA InitInv == Init => Inv
<1> SUFFICES ASSUME Init PROVE Inv
  OBVIOUS
<1>1. 0 \in Frames /\ 0 \in 0 .. FrameCount /\ 0 \in 0 .. 2
  BY FrameCountAssumption DEF Frames
<1>2. TypeOK
  BY <1>1, Zenon DEF Init, TypeOK
<1>3. CountIsExact
  BY FS_EmptySet DEF Init, CountIsExact
<1>4. ScanInv
  BY DEF Init, ScanInv
<1> QED BY <1>2, <1>3, <1>4 DEF Inv

\* Erase, the body of Remove and of a successful Victim, keeps the counter.
LEMMA EraseCounts ==
  ASSUME TypeOK, CountIsExact, NEW f \in Frames, Erase(f)
  PROVE  /\ CountIsExact'
         /\ evictable_count' \in 0 .. FrameCount
         /\ present' \subseteq Frames /\ evictable' \subseteq present'
         /\ referenced' \subseteq present'
<1>1. evictable \subseteq Frames /\ evictable' \subseteq Frames
  BY DEF TypeOK, Erase
<1>2. CountIsExact'
  BY <1>1, CountChanges DEF CountIsExact, Erase
<1>3. evictable_count' \in 0 .. FrameCount
  BY <1>1, <1>2, FramesFinite DEF CountIsExact
<1> QED BY <1>2, <1>3 DEF Erase, TypeOK

\* Every step keeps the types and the counter.
LEMMA NextTypes == Inv /\ [Next]_vars => TypeOK' /\ CountIsExact'
<1> SUFFICES ASSUME Inv, [Next]_vars PROVE TypeOK' /\ CountIsExact'
  OBVIOUS
<1> USE FrameCountAssumption DEF Inv
<1>1. ASSUME NEW f \in Frames, RecordAccess(f) PROVE TypeOK' /\ CountIsExact'
  BY <1>1 DEF RecordAccess, loop, TypeOK, CountIsExact
<1>2. ASSUME NEW f \in Frames, NEW flag \in BOOLEAN, SetEvictable(f, flag)
      PROVE  TypeOK' /\ CountIsExact'
  <2>1. evictable \subseteq Frames /\ evictable' \subseteq Frames
    BY <1>2 DEF TypeOK, SetEvictable
  <2>2. CountIsExact'
    BY <1>2, <2>1, CountChanges DEF CountIsExact, SetEvictable
  <2>3. evictable_count' \in 0 .. FrameCount
    BY <2>1, <2>2, FramesFinite DEF CountIsExact
  <2> QED BY <1>2, <2>2, <2>3 DEF SetEvictable, loop, TypeOK
<1>3. ASSUME NEW f \in Frames, Remove(f) PROVE TypeOK' /\ CountIsExact'
  BY <1>3, EraseCounts DEF Remove, loop, TypeOK
<1>4. CASE VictimNone
  BY <1>4 DEF VictimNone, loop, entries, TypeOK, CountIsExact
<1>5. CASE VictimBegin
  BY <1>5 DEF VictimBegin, entries, TypeOK, CountIsExact, Frames
<1>6. CASE VictimTake
  <2>1. clock_hand \in Frames
    BY DEF TypeOK
  <2>2. clock_hand' \in Frames
    BY <1>6, <2>1 DEF VictimTake, AdvanceClockHand, Frames
  <2> QED BY <1>6, <2>1, <2>2, EraseCounts DEF VictimTake, TypeOK
<1>7. CASE VictimPass
  <2>1. clock_hand' \in Frames
    BY <1>7 DEF VictimPass, AdvanceClockHand, Frames, TypeOK
  <2>2. pass \in 0 .. 1 /\ scanned \in 0 .. FrameCount - 1
    BY <1>7 DEF VictimPass, TypeOK, Frames
  <2>3. scanned' \in Frames /\ pass' \in 0 .. 2
        /\ (~LastTurn => pass' \in 0 .. 1)
    BY <1>7, <2>2 DEF VictimPass, LastTurn, Frames
  <2>4. scanning' \in BOOLEAN /\ (scanning' => ~LastTurn)
    BY <1>7, Zenon DEF VictimPass
  <2> QED BY <1>7, <2>1, <2>3, <2>4
          DEF VictimPass, ClearReference, TypeOK, CountIsExact
<1>8. CASE UNCHANGED vars
  BY <1>8 DEF vars, loop, entries, TypeOK, CountIsExact
<1> QED BY <1>1, <1>2, <1>3, <1>4, <1>5, <1>6, <1>7, <1>8 DEF Next

-----------------------------------------------------------------------------
(* The scan.                                                               *)

\* The scan does not fall out of its loops: at the last turn the evictable
\* frame that must exist is under the hand, and it is not referenced.
LEMMA ScanFinds ==
  ASSUME Inv, VictimPass
  PROVE  ~LastTurn
<1> SUFFICES ASSUME LastTurn PROVE FALSE
  OBVIOUS
<1> USE DEF Inv
<1>1. PICK f \in evictable : TRUE
  BY DEF VictimPass, ScanInv
<1>2. f \in Frames /\ clock_hand \in Frames /\ start \in Frames
  BY DEF TypeOK
<1>3. Distance(f) >= scanned /\ f \notin referenced
  BY <1>1 DEF VictimPass, ScanInv, LastTurn
<1>4. Distance(f) = Distance(clock_hand)
  BY <1>2, <1>3, DistanceType, FrameCountAssumption
     DEF VictimPass, ScanInv, LastTurn, TypeOK, Frames
<1>5. f = clock_hand
  BY <1>2, <1>4, DistanceInjective
<1> QED BY <1>1, <1>3, <1>5 DEF VictimPass, Candidate, Unreferenced, TypeOK

\* A turn that passes over the entry under the hand.
LEMMA PassScanInv ==
  ASSUME Inv, VictimPass
  PROVE  ScanInv'
<1> USE DEF Inv
<1>1. start \in Frames /\ clock_hand \in Frames /\ evictable \subseteq Frames
  BY DEF TypeOK
<1>2. UNCHANGED start
  BY DEF VictimPass
<1>3. Distance(clock_hand) = scanned /\ evictable # {} /\ scanned \in Nat
  BY DEF VictimPass, ScanInv, TypeOK, Frames
<1>4. Distance(clock_hand)' = scanned' /\ evictable' # {}
  BY <1>1, <1>2, <1>3, HandMoves DEF VictimPass
<1>5. \A f \in Frames : Distance(f)' = Distance(f)
  BY <1>2 DEF Distance
<1>6. \A f \in evictable : /\ Distance(f) \in 0 .. FrameCount - 1
                           /\ Distance(f) = scanned => f = clock_hand
  BY <1>1, <1>3, DistanceType, DistanceInjective
<1>7. \A f \in evictable : f # clock_hand => (f \in referenced' <=> f \in referenced)
  BY DEF VictimPass, ClearReference
<1>8. clock_hand \in evictable =>
        clock_hand \in referenced /\ clock_hand \notin referenced'
  BY DEF VictimPass, ClearReference, Candidate, Unreferenced, TypeOK
<1>9. CASE pass = 0
  <2>1. \A f \in evictable :
          /\ Distance(f) < scanned + 1 => f \in accessed /\ f \notin referenced'
          /\ Distance(f) >= scanned + 1 => (f \in referenced' <=> f \in accessed)
    BY <1>3, <1>6, <1>7, <1>8, <1>9 DEF VictimPass, ScanInv
  <2>2. CASE scanned + 1 = FrameCount
    <3>1. pass' = 1 /\ scanned' = 0
      BY <1>9, <2>2 DEF VictimPass
    <3>2. \A f \in evictable :
            f \in accessed /\ f \notin referenced' /\ Distance(f) >= 0
      BY <1>6, <2>1, <2>2, FrameCountAssumption
    <3> QED BY <1>1, <1>4, <1>5, <3>1, <3>2 DEF ScanInv, VictimPass
  <2>3. CASE scanned + 1 # FrameCount
    <3>1. pass' = 0 /\ scanned' = scanned + 1
      BY <1>9, <2>3 DEF VictimPass
    <3> QED BY <1>1, <1>4, <1>5, <2>1, <3>1 DEF ScanInv, VictimPass
  <2> QED BY <2>2, <2>3
<1>10. CASE pass = 1
  <2>1. scanned + 1 # FrameCount
    BY <1>10, ScanFinds DEF LastTurn
  <2>2. pass' = 1 /\ scanned' = scanned + 1
    BY <1>10, <2>1 DEF VictimPass
  <2>3. \A f \in evictable :
          f \in accessed /\ f \notin referenced' /\ Distance(f) >= scanned + 1
    BY <1>3, <1>6, <1>7, <1>8, <1>10 DEF VictimPass, ScanInv
  <2> QED BY <1>1, <1>4, <1>5, <2>2, <2>3 DEF ScanInv, VictimPass
<1> QED BY <1>9, <1>10 DEF VictimPass, TypeOK

\* Every step keeps what the scan knows.
LEMMA NextScanInv == Inv /\ [Next]_vars => ScanInv'
<1> SUFFICES ASSUME Inv, [Next]_vars PROVE ScanInv'
  OBVIOUS
<1>1. ASSUME NEW f \in Frames,
             \/ RecordAccess(f)
             \/ \E flag \in BOOLEAN : SetEvictable(f, flag)
             \/ Remove(f)
      PROVE  ScanInv'
  BY <1>1 DEF RecordAccess, SetEvictable, Remove, loop, ScanInv
<1>2. CASE VictimNone \/ VictimTake
  BY <1>2 DEF VictimNone, VictimTake, loop, ScanInv
<1>3. CASE VictimBegin
  <2>1. evictable # {}
    BY <1>3, FS_EmptySet DEF VictimBegin, Inv, CountIsExact
  <2>2. clock_hand \in Frames /\ evictable \subseteq Frames
    BY DEF Inv, TypeOK
  <2>3. /\ pass' = 0 /\ scanned' = 0 /\ accessed' = referenced
        /\ start' = clock_hand
        /\ UNCHANGED <<evictable, referenced, clock_hand>>
    BY <1>3 DEF VictimBegin, entries
  <2>4. Distance(clock_hand)' = 0
    BY <2>2, <2>3, FrameCountAssumption DEF Distance, Frames
  <2>5. \A f \in evictable : ~(Distance(f)' < 0)
    BY <2>2, <2>3, FrameCountAssumption DEF Distance, Frames
  <2> QED BY <2>1, <2>3, <2>4, <2>5 DEF ScanInv
<1>4. CASE VictimPass
  BY <1>4, PassScanInv
<1>5. CASE UNCHANGED vars
  BY <1>5 DEF vars, loop, entries, Inv, ScanInv, Distance
<1> QED BY <1>1, <1>2, <1>3, <1>4, <1>5 DEF Next

-----------------------------------------------------------------------------
(* Theorems.                                                               *)

\* The invariant holds in every reachable state.
THEOREM Invariance == Spec => []Inv
<1>1. Inv /\ [Next]_vars => Inv'
  BY NextTypes, NextScanInv DEF Inv
<1> QED BY InitInv, <1>1, PTL DEF Spec

\* The entries, the hand and the turn of a running scan keep their types: the
\* hand is always on an entry and no scan takes a third pass.
THEOREM ClockTypes == Spec => []TypeOK
<1>1. Inv => TypeOK
  BY DEF Inv
<1> QED BY Invariance, <1>1, PTL

\* evictable_count_ is the number of evictable entries, whatever sequence of
\* RecordAccess, SetEvictable, Remove and Victim has been called.
THEOREM CountAlwaysExact == Spec => []CountIsExact
<1>1. Inv => CountIsExact
  BY DEF Inv
<1> QED BY Invariance, <1>1, PTL

\* Victim takes the first frame in the direction of the hand that was not
\* accessed since the hand last passed, or the first of all if there is none.
THEOREM AlwaysFirstEligible == Spec => ChoosesFirstEligible
<1> DEFINE Chooses == scanning /\ ~scanning' =>
                        /\ victim' \in Eligible
                        /\ \A f \in Eligible : Distance(victim') <= Distance(f)
<1>1. Inv /\ [Next]_vars => [Chooses]_vars
  <2> SUFFICES ASSUME Inv, Next, scanning, ~scanning'
               PROVE  /\ victim' \in Eligible
                      /\ \A f \in Eligible : Distance(victim') <= Distance(f)
    BY DEF Chooses
  <2>1. VictimTake \/ VictimPass
    BY DEF Next, RecordAccess, SetEvictable, Remove, VictimNone, VictimBegin
  <2>2. ~VictimPass
    BY ScanFinds DEF VictimPass
  <2>3. /\ victim' = clock_hand /\ clock_hand \in evictable
        /\ clock_hand \notin referenced
    BY <2>1, <2>2 DEF VictimTake, Candidate, Unreferenced
  <2>4. /\ Distance(clock_hand) = scanned
        /\ evictable \subseteq Frames /\ start \in Frames
        /\ scanned \in Nat /\ pass \in 0 .. 1
    BY DEF Inv, ScanInv, TypeOK, Frames
  <2>5. \A f \in evictable : Distance(f) \in Nat
    BY <2>4, DistanceType, FrameCountAssumption
  <2>6. CASE pass = 0
    <3>1. clock_hand \notin accessed
      BY <2>3, <2>4, <2>6 DEF Inv, ScanInv
    <3>2. Eligible = evictable \ accessed
      BY <2>3, <3>1 DEF Eligible
    <3>3. \A f \in evictable \ accessed : ~(Distance(f) < scanned)
      BY <2>6 DEF Inv, ScanInv
    <3> QED BY <2>3, <2>4, <2>5, <3>1, <3>2, <3>3
  <2>7. CASE pass = 1
    <3>1. \A f \in evictable : f \in accessed /\ Distance(f) >= scanned
      BY <2>7 DEF Inv, ScanInv
    <3>2. Eligible = evictable
      BY <3>1 DEF Eligible
    <3> QED BY <2>3, <2>4, <3>1, <3>2
  <2> QED BY <2>4, <2>6, <2>7
<1> QED BY Invariance, <1>1, PTL DEF Spec, ChoosesFirstEligible

\* The clock policy implements the contract of Replacer.
THEOREM ClockIsReplacer == Spec => ImplementsReplacer
<1>1. Init => Contract!Init
  BY DEF Init, Contract!Init
<1>2. Inv /\ [Next]_vars => [Contract!Next]_(Contract!vars)
  <2> SUFFICES ASSUME Inv, [Next]_vars
               PROVE  Contract!Next \/ UNCHANGED Contract!vars
    OBVIOUS
  <2>1. ASSUME NEW f \in Frames, RecordAccess(f) PROVE Contract!Next
    BY <2>1 DEF RecordAccess, Contract!Next, Contract!RecordAccess
  <2>2. ASSUME NEW f \in Frames, NEW flag \in BOOLEAN, SetEvictable(f, flag)
        PROVE  Contract!Next
    BY <2>2 DEF SetEvictable, Contract!Next, Contract!SetEvictable
  <2>3. ASSUME NEW f \in Frames, Remove(f) PROVE Contract!Next
    BY <2>3 DEF Remove, Erase, Contract!Next, Contract!Remove, Contract!Forget
  <2>4. CASE VictimNone
    <3>1. evictable \subseteq Frames
      BY DEF Inv, TypeOK
    <3>2. IsFiniteSet(evictable) /\ Cardinality(evictable) = 0
      BY <2>4, <3>1, FramesFinite DEF Inv, CountIsExact, VictimNone
    <3>3. evictable = {}
      BY <3>2, FS_EmptySet
    <3> QED BY <2>4, <3>3 DEF VictimNone, entries, Contract!Next, Contract!Victim
  <2>5. CASE VictimBegin
    BY <2>5 DEF VictimBegin, entries, Contract!vars
  <2>6. CASE VictimTake
    BY <2>6 DEF VictimTake, Candidate, Erase, Contract!Next, Contract!Victim,
                Contract!Forget
  <2>7. CASE VictimPass
    BY <2>7, ScanFinds DEF VictimPass, Contract!vars
  <2>8. CASE UNCHANGED vars
    BY <2>8 DEF vars, entries, Contract!vars
  <2> QED BY <2>1, <2>2, <2>3, <2>4, <2>5, <2>6, <2>7, <2>8 DEF Next
<1> QED BY Invariance, <1>1, <1>2, PTL DEF Spec, ImplementsReplacer, Contract!Spec
=============================================================================
