--------------------------- MODULE FrameAllocator ---------------------------
(***************************************************************************)
(* The frame allocator: a bitmap of words, searched from a hint.  The      *)
(* bitmap is the set of the positions of its 1 bits, bit b of word w being *)
(* position w * BitsPerWord + b; the bits of the last word that stand for  *)
(* no frame are set once and for all.                                      *)
(***************************************************************************)
EXTENDS Naturals, FiniteSets

CONSTANTS
  FrameCount,
  BitsPerWord,  \* kBitsPerWord
  NoFrame       \* std::nullopt

ASSUME CountAssumption ==
  FrameCount \in Nat \ {0} /\ BitsPerWord \in Nat \ {0}

Frames == 0 .. FrameCount - 1

ASSUME NoFrameAssumption == NoFrame \notin Frames

VARIABLES
  allocation_bitmap,
  allocated_count,
  next_search_word,
  answer            \* the last answer of AllocateFrame

vars == <<allocation_bitmap, allocated_count, next_search_word, answer>>

WordCount == (FrameCount + BitsPerWord - 1) \div BitsPerWord

WordIndex(bit) == bit \div BitsPerWord

\* The positions of word w.
Word(w) == w * BitsPerWord .. w * BitsPerWord + BitsPerWord - 1

Full(w) == Word(w) \subseteq allocation_bitmap

\* Mutant: every bit of the last word is a frame.
NoMask == {}

\* MaskUnusedTailBits
UnusedTailBits ==
  IF FrameCount % BitsPerWord = 0 THEN {}
  ELSE {b \in Word(WordCount - 1) : b % BitsPerWord >= FrameCount % BitsPerWord}

Init ==
  /\ allocation_bitmap = UnusedTailBits
  /\ allocated_count = 0
  /\ next_search_word = 0
  /\ answer = NoFrame

\* The probe-th word that AllocateFrame looks at.
Probed(probe) == (next_search_word + probe) % WordCount

\* w is the first word with a free bit.
FirstNotFull(w) ==
  \E probe \in 0 .. WordCount - 1 :
    /\ w = Probed(probe) /\ ~Full(w)
    /\ \A earlier \in 0 .. probe - 1 : Full(Probed(earlier))

\* countr_zero(~used_word): bit is the lowest free bit of word w.
LowestFree(w, bit) ==
  /\ bit \in Word(w) \ allocation_bitmap
  /\ \A b \in Word(w) \ allocation_bitmap : bit <= b

\* Mutant: the hint runs past the last word.
HintRunsOn(w, bit) ==
  IF Word(w) \subseteq allocation_bitmap \cup {bit} THEN w + 1 ELSE w

\* The hint after bit has been taken from word w.
NextHint(w, bit) ==
  IF Word(w) \subseteq allocation_bitmap \cup {bit}
  THEN (w + 1) % WordCount ELSE w

AllocateFrame ==
  /\ allocated_count # FrameCount
  /\ \E w \in 0 .. WordCount - 1 : \E bit \in Word(w) :
       /\ FirstNotFull(w) /\ LowestFree(w, bit)
       /\ allocation_bitmap' = allocation_bitmap \cup {bit}
       /\ next_search_word' = NextHint(w, bit)
       /\ answer' = bit
  /\ allocated_count' = allocated_count + 1

\* The early return, or no word has a free bit.
AllocateNothing ==
  /\ allocated_count # FrameCount =>
       \A w \in 0 .. WordCount - 1 : ~FirstNotFull(w)
  /\ answer' = NoFrame
  /\ UNCHANGED <<allocation_bitmap, allocated_count, next_search_word>>

\* Mutant: the counter is forgotten.
FreeUncounted(f) ==
  /\ f \in allocation_bitmap
  /\ allocation_bitmap' = allocation_bitmap \ {f}
  /\ next_search_word' = WordIndex(f)
  /\ UNCHANGED <<allocated_count, answer>>

\* A frame that is not allocated throws: no step.
FreeFrame(f) ==
  /\ f \in allocation_bitmap
  /\ allocation_bitmap' = allocation_bitmap \ {f}
  /\ allocated_count' = allocated_count - 1
  /\ next_search_word' = WordIndex(f)
  /\ UNCHANGED answer

Next ==
  \/ AllocateFrame
  \/ AllocateNothing
  \/ \E f \in Frames : FreeFrame(f)

Spec == Init /\ [][Next]_vars

-----------------------------------------------------------------------------

\* The frames that IsAllocated reports.
AllocatedFrames == allocation_bitmap \cap Frames

\* Every variable has the type that the class declares for it, the bitmap has
\* no bits but those of its words, and the hint is the index of a word.
TypeOK ==
  /\ allocation_bitmap \subseteq 0 .. WordCount * BitsPerWord - 1
  /\ allocated_count \in 0 .. FrameCount
  /\ next_search_word \in 0 .. WordCount - 1
  /\ answer \in Frames \cup {NoFrame}

\* allocated_count is the number of allocated frames, so that the early
\* return of AllocateFrame is taken exactly when there is no free frame.
CountIsExact == allocated_count = Cardinality(AllocatedFrames)

Contract == INSTANCE IdPool WITH Ids <- Frames, None <- NoFrame,
                                 used <- AllocatedFrames

\* The allocator hands out every frame, none twice, and never a bit of the
\* last word that is no frame; the search from the hint misses no free frame.
ImplementsFramePool == Contract!Spec
=============================================================================
