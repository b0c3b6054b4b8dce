\* NewPage loses its frame when its page is fetched or deleted meanwhile.
CONSTANTS
  t1 = t1 t2 = t2 t3 = t3 p1 = p1 p2 = p2 p3 = p3 f1 = f1 f2 = f2
  Threads = {t1, t2}
  Pages = {p1, p2}
  Frames = {f1}
  Images = {}
  ZeroPage = zero
  TornPage = torn
  NoPage = NoPage
  NoFrame = NoFrame
  Calls = {"NewPage", "FetchPage", "DeletePage"}
  IoFaults = FALSE
  PinMax = 10
  MaxEpoch = 1
SPECIFICATION Spec
SYMMETRY Symmetric
INVARIANTS
  NoOrphanFrames
