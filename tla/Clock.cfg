\* The clock policy with four frames: the hand wraps round in either pass.
CONSTANTS
  FrameCount = 4
  NoFrame = NoFrame
SPECIFICATION Spec
INVARIANTS
  TypeOK
  CountIsExact
PROPERTIES
  ImplementsReplacer
  ChoosesFirstEligible
