\* Two frames for three pages: two transfers at a time, and FlushAllPages
\* with more than one page.  Contents are not told apart.  Two guards
\* and a flush are more pins than pin_count can hold.
CONSTANTS
  t1 = t1 t2 = t2 t3 = t3 p1 = p1 p2 = p2 p3 = p3 f1 = f1 f2 = f2
  Threads = {t1, t2}
  Pages = {p1, p2, p3}
  Frames = {f1, f2}
  Images = {}
  ZeroPage = zero
  TornPage = torn
  NoPage = NoPage
  NoFrame = NoFrame
  Calls = {"NewPage", "FetchPage", "FlushPage", "FlushAllPages", "DeletePage"}
  IoFaults = TRUE
  PinMax = 2
  MaxEpoch = 1
SPECIFICATION LimitedSpec
SYMMETRY MorePages
INVARIANTS
  PinsAreExact
  ReplacerIsExact
  TransferIsExclusive
  NoLostWakeup
