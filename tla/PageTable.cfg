\* Four page ids and two frames.
CONSTANTS
  MaxPageCount = 4
  Frames = {f1, f2}
  NoFrame = NoFrame
  NoPage = NoPage
SPECIFICATION Spec
INVARIANTS
  FreeListIsExact
PROPERTIES
  ImplementsPageIds
