\* Eight frames in words of three bits: three words, the last one partly
\* used.
CONSTANTS
  FrameCount = 8
  BitsPerWord = 3
  NoFrame = NoFrame
SPECIFICATION Spec
INVARIANTS
  TypeOK
  CountIsExact
PROPERTIES
  ImplementsFramePool
