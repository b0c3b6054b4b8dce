------------------------ MODULE FrameAllocatorProofs ------------------------
(***************************************************************************)
(* The frame allocator is a pool of frame ids, for every number of frames  *)
(* and every width of a word of the bitmap.                                *)
(*                                                                         *)
(* The argument is arithmetic: which positions are frames and which are    *)
(* masked, that a frame is a bit of the word WordIndex says, and that the  *)
(* probes that start at the hint go round all the words.                   *)
(***************************************************************************)
EXTENDS FrameAllocator, FiniteSetTheorems, TLAPS

-----------------------------------------------------------------------------
(* Arithmetic.                                                             *)

\* Division with remainder.
LEMMA Division ==
  ASSUME NEW n \in Nat, NEW d \in Nat \ {0}
  PROVE  /\ n \div d \in Nat
         /\ n % d \in 0 .. d - 1
         /\ n = ((n \div d) * d) + (n % d)
  BY SMT

\* The words do not overlap: a multiple is at least one divisor away from
\* the next one.
LEMMA NextMultiple ==
  ASSUME NEW d \in Nat, NEW q \in Nat, NEW r \in Nat, q < r
  PROVE  /\ q * d \in Nat /\ r * d \in Nat
         /\ q * d + d <= r * d
  <1>1. PICK k \in Nat : r = q + 1 + k
    <2>1. r - q - 1 \in Nat /\ r = q + 1 + (r - q - 1)
      OBVIOUS
    <2> QED
      BY <2>1
  <1>2. r * d = q * d + d + k * d /\ q * d \in Nat /\ k * d \in Nat
    BY <1>1, SMT
  <1> QED
    BY <1>2

\* A quotient is determined by the interval that the dividend is in.
LEMMA Quotient ==
  ASSUME NEW n \in Nat, NEW d \in Nat \ {0}, NEW q \in Nat,
         n >= q * d, n < q * d + d
  PROVE  /\ n \div d = q
         /\ n % d = n - (q * d)
  <1> DEFINE k == n \div d
             m == n % d
  <1>1. k \in Nat /\ m \in 0 .. d - 1 /\ n = k * d + m
    BY Division
  <1> SUFFICES k = q /\ m = n - (q * d)
    OBVIOUS
  <1> HIDE DEF k, m
  <1>2. ~(k < q) /\ ~(q < k)
    BY <1>1, NextMultiple
  <1> QED
   BY <1>1, <1>2

\* What is left of a number that is smaller than the divisor, or than twice
\* the divisor.
LEMMA SmallRemainder ==
  ASSUME NEW n \in Nat, NEW d \in Nat \ {0}
  PROVE  /\ n < d => n % d = n
         /\ n >= d /\ n < d + d => n % d = n - d
  <1> DEFINE k == n \div d
             m == n % d
  <1>1. k \in Nat /\ m \in 0 .. d - 1 /\ n = k * d + m
    BY Division
  <1> SUFFICES /\ n < d => m = n
               /\ n >= d /\ n < d + d => m = n - d
    OBVIOUS
  <1> HIDE DEF k, m
  <1>2. k * d \in Nat /\ (k > 1 => k * d >= d + d)
    <2>1. k > 1 => 1 * d + d <= k * d
      BY <1>1, NextMultiple
    <2> QED
      BY <1>1, <2>1
  <1>3. k = 0 => k * d = 0
    BY <1>1
  <1>4. k = 1 => k * d = d
    BY <1>1
  <1> QED
    BY <1>1, <1>2, <1>3, <1>4

\* The least element of a set of naturals.
LEMMA LeastElement ==
  ASSUME NEW S \in SUBSET Nat, S # {}
  PROVE  \E n \in S : \A m \in S : n <= m
  <1> DEFINE Less == {ss \in Nat \X Nat : ss[1] < ss[2]}
  <1>1. Less = OpToRel(<, Nat)
    BY Zenon DEF OpToRel
  <1>2. IsWellFoundedOn(Less, Nat)
    BY <1>1, NatLessThanWellFounded, Zenon
  <1>3. \A m, n \in Nat : m < n => <<m, n>> \in Less
    OBVIOUS
  <1> HIDE DEF Less
  <1>4. PICK n \in S : \A m \in S : ~(<<m, n>> \in Less)
    BY <1>2, WFMin
  <1>5. ASSUME NEW m \in S
        PROVE  n <= m
    <2>1. ~(m < n)
      BY <1>3, <1>4, Zenon
    <2> QED
      BY <2>1
  <1> QED
    BY <1>5

-----------------------------------------------------------------------------
(* The layout of the bitmap.                                               *)

\* The positions of the bitmap: the bits of its WordCount words.
Bits == 0 .. WordCount * BitsPerWord - 1

\* The words are enough for the frames, and none of them is without a frame.
LEMMA EnoughWords ==
  /\ WordCount \in Nat \ {0}
  /\ WordCount * BitsPerWord \in Nat
  /\ (WordCount - 1) * BitsPerWord \in Nat
  /\ WordCount * BitsPerWord = (WordCount - 1) * BitsPerWord + BitsPerWord
  /\ FrameCount <= WordCount * BitsPerWord
  /\ (WordCount - 1) * BitsPerWord < FrameCount
  <1> DEFINE n == FrameCount + BitsPerWord - 1
  <1>1. n \in Nat /\ BitsPerWord \in Nat \ {0} /\ FrameCount \in Nat \ {0}
    BY CountAssumption
  <1>2. /\ WordCount \in Nat
        /\ n % BitsPerWord \in 0 .. BitsPerWord - 1
        /\ n = (WordCount * BitsPerWord) + (n % BitsPerWord)
    BY <1>1, Division DEF WordCount
  <1> DEFINE r == n % BitsPerWord
  <1>3. r \in 0 .. BitsPerWord - 1 /\ n = WordCount * BitsPerWord + r
    BY <1>2
  <1> HIDE DEF r
  <1>4. WordCount # 0
    BY <1>1, <1>2, <1>3
  <1>5. /\ WordCount * BitsPerWord \in Nat
        /\ (WordCount - 1) * BitsPerWord \in Nat
        /\ WordCount * BitsPerWord = (WordCount - 1) * BitsPerWord + BitsPerWord
    BY <1>1, <1>2, <1>4, SMT
  <1> QED
    BY <1>1, <1>2, <1>3, <1>4, <1>5

\* The masked bits are the positions after the last frame.
LEMMA TailBits == UnusedTailBits = FrameCount .. WordCount * BitsPerWord - 1
  <1> DEFINE last == (WordCount - 1) * BitsPerWord
             rest == FrameCount % BitsPerWord
  <1>1. /\ WordCount - 1 \in Nat /\ last \in Nat
        /\ WordCount * BitsPerWord = last + BitsPerWord
        /\ FrameCount <= last + BitsPerWord /\ last < FrameCount
        /\ BitsPerWord \in Nat \ {0} /\ FrameCount \in Nat \ {0}
    BY EnoughWords, CountAssumption
  <1>2. \A b \in Nat : last <= b /\ b < last + BitsPerWord =>
          b % BitsPerWord = b - last
    BY <1>1, Quotient
  <1>3. FrameCount < last + BitsPerWord => rest = FrameCount - last
    BY <1>1, Quotient
  <1>4. FrameCount = last + BitsPerWord => rest = 0
    <2>1. /\ WordCount \in Nat /\ WordCount * BitsPerWord \in Nat
          /\ WordCount * BitsPerWord = last + BitsPerWord
      BY EnoughWords
    <2>2. /\ FrameCount >= WordCount * BitsPerWord
          /\ FrameCount < WordCount * BitsPerWord + BitsPerWord
          => rest = FrameCount - (WordCount * BitsPerWord)
      BY <1>1, <2>1, Quotient
    <2> HIDE DEF last, rest
    <2> QED
      BY <1>1, <2>1, <2>2
  <1>5. Word(WordCount - 1) = last .. last + BitsPerWord - 1
    BY DEF Word
  <1>6. UnusedTailBits = IF rest = 0 THEN {}
                         ELSE {b \in last .. last + BitsPerWord - 1 :
                                 b % BitsPerWord >= rest}
    BY <1>5, Zenon DEF UnusedTailBits
  <1> HIDE DEF last, rest
  <1>7. CASE rest = 0
    <2>1. FrameCount .. last + BitsPerWord - 1 = {}
      BY <1>1, <1>3, <1>7
    <2> QED
      BY <1>1, <1>6, <1>7, <2>1
  <1>8. CASE rest # 0
    <2>1. rest = FrameCount - last
      BY <1>1, <1>3, <1>4, <1>8
    <2>2. \A b \in last .. last + BitsPerWord - 1 :
            b % BitsPerWord >= rest <=> b >= FrameCount
      <3> TAKE b \in last .. last + BitsPerWord - 1
      <3> DEFINE r == b % BitsPerWord
      <3>1. b \in Nat /\ last <= b /\ b < last + BitsPerWord
        BY <1>1
      <3>2. r = b - last
        BY <1>2, <3>1, Zenon
      <3> HIDE DEF r
      <3>3. r >= rest <=> b >= FrameCount
        BY <1>1, <2>1, <3>1, <3>2
      <3> QED
        BY <3>3, Zenon DEF r
    <2>3. UnusedTailBits =
            {b \in last .. last + BitsPerWord - 1 : b >= FrameCount}
      BY <1>6, <1>8, <2>2
    <2>4. UnusedTailBits = FrameCount .. last + BitsPerWord - 1
      BY <1>1, <2>3
    <2> QED
      BY <1>1, <2>4
  <1> QED
    BY <1>7, <1>8

\* Every position is a bit of exactly the word that WordIndex says, and every
\* bit of a word is a position.
LEMMA BitsOfWords ==
  /\ \A b \in Bits : WordIndex(b) \in 0 .. WordCount - 1 /\ b \in Word(WordIndex(b))
  /\ \A w \in 0 .. WordCount - 1 : Word(w) \subseteq Bits
  <1>1. ASSUME NEW b \in Bits
        PROVE  WordIndex(b) \in 0 .. WordCount - 1 /\ b \in Word(WordIndex(b))
    <2> DEFINE q == b \div BitsPerWord
               r == b % BitsPerWord
    <2>1. /\ b \in Nat /\ b < WordCount * BitsPerWord
          /\ BitsPerWord \in Nat \ {0} /\ WordCount \in Nat
      BY EnoughWords, CountAssumption DEF Bits
    <2>2. q \in Nat /\ r \in 0 .. BitsPerWord - 1 /\ b = q * BitsPerWord + r
      BY <2>1, Division
    <2>3. WordIndex(b) = q
      BY DEF WordIndex
    <2> HIDE DEF q, r
    <2>4. q * BitsPerWord \in Nat
      BY <2>1, <2>2, SMT
    <2>5. q < WordCount
      <3>1. ASSUME q = WordCount PROVE FALSE
        BY <3>1, <2>1, <2>2, <2>4
      <3>2. ASSUME WordCount < q PROVE FALSE
        <4>1. WordCount * BitsPerWord + BitsPerWord <= q * BitsPerWord
          BY <3>2, <2>1, <2>2, NextMultiple
        <4> QED
          BY <4>1, <2>1, <2>2, <2>4, EnoughWords
      <3> QED
        BY <3>1, <3>2, <2>1, <2>2
    <2>6. b \in q * BitsPerWord .. q * BitsPerWord + BitsPerWord - 1
      BY <2>1, <2>2, <2>4
    <2> QED
      BY <2>1, <2>2, <2>3, <2>5, <2>6 DEF Word
  <1>2. ASSUME NEW w \in 0 .. WordCount - 1, NEW b \in Word(w)
        PROVE  b \in Bits
    <2>1. /\ w \in Nat /\ w < WordCount
          /\ BitsPerWord \in Nat \ {0} /\ WordCount \in Nat
      BY EnoughWords, CountAssumption
    <2>2. /\ w * BitsPerWord \in Nat
          /\ w * BitsPerWord + BitsPerWord <= WordCount * BitsPerWord
          /\ WordCount * BitsPerWord \in Nat
      BY <2>1, NextMultiple
    <2> QED
      BY <2>1, <2>2 DEF Word, Bits
  <1> QED
    BY <1>1, <1>2

-----------------------------------------------------------------------------
(* The search.                                                             *)

\* The masked bits are set, so that no search finds one.
TailIsMasked == UnusedTailBits \subseteq allocation_bitmap

\* The inductive invariant.
AllocatorInv == TypeOK /\ TailIsMasked /\ CountIsExact

\* A position that is not set is a frame that is not allocated.
LEMMA FreeBitIsFrame ==
  ASSUME AllocatorInv, NEW b \in Bits \ allocation_bitmap
  PROVE  b \in Frames \ AllocatedFrames
  <1>1. /\ FrameCount \in Nat /\ WordCount * BitsPerWord \in Nat
        /\ b \notin UnusedTailBits
    BY EnoughWords, CountAssumption DEF AllocatorInv, TailIsMasked
  <1> QED
    BY <1>1, TailBits DEF Bits, Frames, AllocatedFrames

\* Every frame is a position of the bitmap.
LEMMA FrameIsBit == Frames \subseteq Bits
  BY EnoughWords, CountAssumption DEF Frames, Bits

\* The probes go round: wherever the hint is, every word is looked at.
LEMMA ProbesReachAll ==
  ASSUME TypeOK, NEW w \in 0 .. WordCount - 1
  PROVE  \E probe \in 0 .. WordCount - 1 : Probed(probe) = w
  <1>1. /\ WordCount \in Nat \ {0} /\ w \in Nat /\ w < WordCount
        /\ next_search_word \in Nat /\ next_search_word < WordCount
    BY EnoughWords DEF TypeOK
  <1> DEFINE probe == IF w >= next_search_word THEN w - next_search_word
                      ELSE w + WordCount - next_search_word
             n == next_search_word + probe
  <1>2. probe \in 0 .. WordCount - 1 /\ n \in {w, w + WordCount} /\ n \in Nat
    BY <1>1
  <1>3. Probed(probe) = n % WordCount
    BY DEF Probed
  <1> HIDE DEF probe, n
  <1>4. n % WordCount = w
    BY <1>1, <1>2, SmallRemainder
  <1> QED
    BY <1>2, <1>3, <1>4

\* A probe is the index of a word.
LEMMA ProbeIsWord ==
  ASSUME TypeOK, NEW probe \in 0 .. WordCount - 1
  PROVE  Probed(probe) \in 0 .. WordCount - 1
  <1>1. next_search_word + probe \in Nat /\ WordCount \in Nat \ {0}
    BY EnoughWords DEF TypeOK
  <1> QED
    BY <1>1, Division DEF Probed

\* If a word has a free bit, then the search stops at one.
LEMMA SearchStops ==
  ASSUME TypeOK, NEW w \in 0 .. WordCount - 1, ~Full(w)
  PROVE  \E v \in 0 .. WordCount - 1 : FirstNotFull(v)
  <1> DEFINE S == {probe \in 0 .. WordCount - 1 : ~Full(Probed(probe))}
  <1>1. S # {}
    BY ProbesReachAll
  <1>2. S \in SUBSET Nat
    OBVIOUS
  <1>3. PICK probe \in S : \A q \in S : probe <= q
    BY <1>1, <1>2, LeastElement
  <1>4. \A earlier \in 0 .. probe - 1 : Full(Probed(earlier))
    <2> TAKE earlier \in 0 .. probe - 1
    <2>1. earlier \notin S /\ earlier \in 0 .. WordCount - 1
      BY <1>3, EnoughWords
    <2> QED
      BY <2>1
  <1>5. Probed(probe) \in 0 .. WordCount - 1
    BY <1>3, ProbeIsWord
  <1>6. FirstNotFull(Probed(probe))
    BY <1>3, <1>4 DEF FirstNotFull
  <1> QED
    BY <1>5, <1>6

\* When every word is full, every frame is allocated.
LEMMA FullMeansAllocated ==
  ASSUME AllocatorInv, \A w \in 0 .. WordCount - 1 : ~FirstNotFull(w)
  PROVE  AllocatedFrames = Frames
  <1>1. ASSUME NEW f \in Frames
        PROVE  f \in allocation_bitmap
    <2>1. WordIndex(f) \in 0 .. WordCount - 1 /\ f \in Word(WordIndex(f))
      BY FrameIsBit, BitsOfWords
    <2>2. Full(WordIndex(f))
      BY <2>1, SearchStops DEF AllocatorInv
    <2> QED
      BY <2>1, <2>2 DEF Full
  <1> QED
    BY <1>1 DEF AllocatedFrames

\* The frames are finitely many.
LEMMA FramesFinite ==
  IsFiniteSet(Frames) /\ Cardinality(Frames) = FrameCount
  BY FS_Interval, CountAssumption DEF Frames

\* The count reaches FrameCount when, and only when, no frame is free.
LEMMA CountedOut ==
  ASSUME AllocatorInv
  PROVE  /\ IsFiniteSet(AllocatedFrames)
         /\ AllocatedFrames \subseteq Frames
         /\ allocated_count = FrameCount <=> AllocatedFrames = Frames
  <1>1. AllocatedFrames \in SUBSET Frames
    BY DEF AllocatedFrames
  <1>2. /\ IsFiniteSet(AllocatedFrames)
        /\ Cardinality(Frames) = Cardinality(AllocatedFrames) =>
             Frames = AllocatedFrames
    BY <1>1, FramesFinite, FS_Subset
  <1> QED
    BY <1>1, <1>2, FramesFinite DEF AllocatorInv, CountIsExact

-----------------------------------------------------------------------------
(* The steps.                                                              *)

\* An allocation takes a frame that was free, counts it, and leaves the hint
\* on a word.
LEMMA AllocateFrameStep ==
  ASSUME AllocatorInv, AllocateFrame
  PROVE  AllocatorInv' /\ Contract!Allocate
  <1>1. PICK w \in 0 .. WordCount - 1 : \E bit \in Word(w) :
          /\ FirstNotFull(w) /\ LowestFree(w, bit)
          /\ allocation_bitmap' = allocation_bitmap \cup {bit}
          /\ next_search_word' = NextHint(w, bit)
          /\ answer' = bit
    BY DEF AllocateFrame
  <1>2. PICK bit \in Word(w) :
          /\ LowestFree(w, bit)
          /\ allocation_bitmap' = allocation_bitmap \cup {bit}
          /\ next_search_word' = NextHint(w, bit)
          /\ answer' = bit
    BY <1>1
  <1>3. bit \in Bits \ allocation_bitmap
    BY <1>1, <1>2, BitsOfWords DEF LowestFree
  <1>4. bit \in Frames \ AllocatedFrames
    BY <1>3, FreeBitIsFrame
  <1>5. AllocatedFrames' = AllocatedFrames \cup {bit}
    BY <1>2, <1>4 DEF AllocatedFrames
  <1>6. /\ allocated_count' = allocated_count + 1
        /\ allocated_count \in 0 .. FrameCount /\ allocated_count # FrameCount
    BY DEF AllocateFrame, AllocatorInv, TypeOK
  <1>7. allocation_bitmap' \subseteq Bits
    BY <1>2, <1>3 DEF AllocatorInv, TypeOK, Bits
  <1>8. next_search_word' \in 0 .. WordCount - 1
    <2>1. w + 1 \in Nat /\ WordCount \in Nat \ {0}
      BY EnoughWords
    <2>2. (w + 1) % WordCount \in 0 .. WordCount - 1
      BY <2>1, Division
    <2> QED
      BY <1>2, <2>2, Zenon DEF NextHint
  <1>9. TypeOK'
    BY <1>2, <1>4, <1>6, <1>7, <1>8, CountAssumption DEF TypeOK, Bits
  <1>10. TailIsMasked'
    BY <1>2 DEF AllocatorInv, TailIsMasked
  <1>11. CountIsExact'
    <2>1. Cardinality(AllocatedFrames \cup {bit}) = Cardinality(AllocatedFrames) + 1
      BY <1>4, CountedOut, FS_AddElement
    <2> QED
      BY <1>5, <1>6, <2>1 DEF AllocatorInv, CountIsExact
  <1>12. Contract!Allocate
    BY <1>2, <1>4, <1>5 DEF Contract!Allocate
  <1> QED
    BY <1>9, <1>10, <1>11, <1>12 DEF AllocatorInv

\* An allocation that fails has found every frame allocated.
LEMMA AllocateNothingStep ==
  ASSUME AllocatorInv, AllocateNothing
  PROVE  AllocatorInv' /\ Contract!Allocate
  <1>1. /\ answer' = NoFrame
        /\ UNCHANGED <<allocation_bitmap, allocated_count, next_search_word>>
    BY DEF AllocateNothing
  <1>2. AllocatedFrames = Frames
    BY CountedOut, FullMeansAllocated DEF AllocateNothing
  <1>3. AllocatedFrames' = AllocatedFrames
    BY <1>1 DEF AllocatedFrames
  <1>4. TypeOK' /\ TailIsMasked' /\ CountIsExact'
    BY <1>1, <1>3 DEF AllocatorInv, TypeOK, TailIsMasked, CountIsExact
  <1>5. Contract!Allocate
    BY <1>1, <1>2, <1>3 DEF Contract!Allocate
  <1> QED
    BY <1>4, <1>5 DEF AllocatorInv

\* FreeFrame gives back one allocated frame and never unmasks the tail.
LEMMA FreeFrameStep ==
  ASSUME AllocatorInv, NEW f \in Frames, FreeFrame(f)
  PROVE  AllocatorInv' /\ Contract!Free(f)
  <1>1. /\ f \in allocation_bitmap
        /\ allocation_bitmap' = allocation_bitmap \ {f}
        /\ allocated_count' = allocated_count - 1
        /\ next_search_word' = WordIndex(f)
        /\ answer' = answer
    BY DEF FreeFrame
  <1>2. f \in AllocatedFrames /\ AllocatedFrames' = AllocatedFrames \ {f}
    BY <1>1 DEF AllocatedFrames
  <1>3. Cardinality(AllocatedFrames \ {f}) = Cardinality(AllocatedFrames) - 1
    BY <1>2, CountedOut, FS_RemoveElement
  <1>4. allocated_count \in Nat /\ allocated_count # 0
    <2>1. Cardinality(AllocatedFrames) # 0
      BY <1>2, CountedOut, FS_EmptySet
    <2> QED
      BY <2>1 DEF AllocatorInv, CountIsExact, TypeOK
  <1>5. WordIndex(f) \in 0 .. WordCount - 1
    BY FrameIsBit, BitsOfWords
  <1>6. TypeOK'
    BY <1>1, <1>4, <1>5, CountAssumption DEF AllocatorInv, TypeOK
  <1>7. TailIsMasked'
    <2>1. f \notin UnusedTailBits
      BY TailBits, CountAssumption, EnoughWords DEF Frames
    <2> QED
      BY <1>1, <2>1 DEF AllocatorInv, TailIsMasked, UnusedTailBits
  <1>8. CountIsExact'
    BY <1>1, <1>2, <1>3 DEF AllocatorInv, CountIsExact
  <1> QED
    BY <1>1, <1>2, <1>6, <1>7, <1>8 DEF AllocatorInv, Contract!Free

\* Before the first call the tail is masked and no frame is allocated.
LEMMA AllocatorInit ==
  ASSUME Init
  PROVE  AllocatorInv /\ Contract!Init
  <1>1. AllocatedFrames = {}
    BY TailBits, CountAssumption, EnoughWords DEF Init, AllocatedFrames, Frames
  <1>2. UnusedTailBits \subseteq Bits
    BY TailBits, CountAssumption, EnoughWords DEF Bits
  <1>3. TypeOK
    BY <1>2, CountAssumption, EnoughWords DEF Init, TypeOK, Bits
  <1>4. TailIsMasked
    BY DEF Init, TailIsMasked
  <1>5. CountIsExact
    BY <1>1, FS_EmptySet DEF Init, CountIsExact
  <1> QED
    BY <1>1, <1>3, <1>4, <1>5 DEF Init, AllocatorInv, Contract!Init

\* Every step of the allocator is a step of the pool of frame ids.
LEMMA AllocatorStep ==
  ASSUME AllocatorInv, [Next]_vars
  PROVE  AllocatorInv' /\ [Contract!Next]_(Contract!vars)
  <1>1. CASE AllocateFrame
    BY <1>1, AllocateFrameStep DEF Contract!Next
  <1>2. CASE AllocateNothing
    BY <1>2, AllocateNothingStep DEF Contract!Next
  <1>3. CASE \E f \in Frames : FreeFrame(f)
    BY <1>3, FreeFrameStep DEF Contract!Next
  <1>4. CASE UNCHANGED vars
    <2>1. UNCHANGED <<allocation_bitmap, allocated_count, next_search_word, answer>>
      BY <1>4 DEF vars
    <2>2. AllocatorInv' = AllocatorInv
      BY <2>1 DEF AllocatorInv, TypeOK, TailIsMasked, CountIsExact, AllocatedFrames
    <2>3. UNCHANGED Contract!vars
      BY <2>1 DEF Contract!vars, AllocatedFrames
    <2> QED
      BY <2>2, <2>3
  <1> QED
    BY <1>1, <1>2, <1>3, <1>4 DEF Next

\* The types, the masked tail and the exact count hold in every state that
\* AllocateFrame and FreeFrame reach, for every number of frames and every
\* width of a word.
THEOREM AllocatorInvariance == Spec => []AllocatorInv
  <1>1. Init => AllocatorInv
    BY AllocatorInit
  <1>2. AllocatorInv /\ [Next]_vars => AllocatorInv'
    BY AllocatorStep
  <1> QED
    BY <1>1, <1>2, PTL DEF Spec

\* The bitmap has only bits of its words, and the hint is always the index of
\* one of them.
THEOREM AllocatorTypes == Spec => []TypeOK
  <1>1. AllocatorInv => TypeOK
    BY DEF AllocatorInv
  <1> QED
    BY <1>1, AllocatorInvariance, PTL

\* allocated_count is always the number of frames that IsAllocated reports,
\* so that the early return of AllocateFrame refuses nobody wrongly.
THEOREM CountAlwaysExact == Spec => []CountIsExact
  <1>1. AllocatorInv => CountIsExact
    BY DEF AllocatorInv
  <1> QED
    BY <1>1, AllocatorInvariance, PTL

\* The frame allocator implements the pool of frame ids: no frame is handed
\* out twice, no masked bit is handed out at all, and an allocation fails
\* only when every frame is allocated, wherever the hint is.
THEOREM AllocatorIsFramePool == Spec => ImplementsFramePool
  <1>1. Init => Contract!Init
    BY AllocatorInit
  <1>2. AllocatorInv /\ [Next]_vars => [Contract!Next]_(Contract!vars)
    BY AllocatorStep
  <1> QED
    BY <1>1, <1>2, AllocatorInvariance, PTL DEF Spec, ImplementsFramePool, Contract!Spec
=============================================================================
