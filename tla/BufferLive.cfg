\* Do calls return?  One thread moves a page, two wait.  No symmetry: it is
\* unsound for liveness.
CONSTANTS
  t1 = t1 t2 = t2 t3 = t3 p1 = p1 p2 = p2 p3 = p3 f1 = f1 f2 = f2
  Threads = {t1, t2, t3}
  Pages = {p1, p2}
  Frames = {f1}
  Images = {}
  ZeroPage = zero
  TornPage = torn
  NoPage = NoPage
  NoFrame = NoFrame
  Calls = {"NewPage", "FetchPage", "FlushAllPages", "DeletePage"}
  IoFaults = TRUE
  PinMax = 10
  MaxEpoch = 0
SPECIFICATION LiveSpec
INVARIANTS
  NoLostWakeup
  SomeoneWillNotify
PROPERTIES
  CallsReturn
