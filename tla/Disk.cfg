\* Pages of two blocks, 16 as the range of uint64_t and 8 as that of off_t.
CONSTANTS
  t1 = t1 t2 = t2
  Threads = {t1, t2}
  Images = {a}
  Zero = zero
  Garbage = garbage
  Unknown = unknown
  NoOptions = NoOptions
  Options <- OptionSet
  kPageSize = 2
  MaxUint64 = 15
  MaxOff = 7
SPECIFICATION Spec
SYMMETRY Symmetric
INVARIANTS
  TypeOK
  ReadReturnsLastWrite
  SyncedFileOpens
PROPERTIES
  RejectedFileIsUntouched
