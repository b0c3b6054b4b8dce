\* Every call and every failure, one frame for two pages: each change of
\* page evicts, and contents are told apart.
CONSTANTS
  t1 = t1 t2 = t2 t3 = t3 p1 = p1 p2 = p2 p3 = p3 f1 = f1 f2 = f2
  Threads = {t1, t2}
  Pages = {p1, p2}
  Frames = {f1}
  Images = {v}
  ZeroPage = zero
  TornPage = torn
  NoPage = NoPage
  NoFrame = NoFrame
  Calls = {"NewPage", "FetchPage", "FlushPage", "FlushAllPages", "DeletePage"}
  IoFaults = TRUE
  PinMax = 10
  MaxEpoch = 2
SPECIFICATION Spec
SYMMETRY Symmetric
INVARIANTS
  TypeOK
  TablesAgree
  GuardsAreSafe
  PinsAreExact
  CleanMatchesDisk
PROPERTIES
  ContentIsStable
