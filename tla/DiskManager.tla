---------------------------- MODULE DiskManager ----------------------------
(***************************************************************************)
(* The disk manager: opening a file and founding it with a header, page    *)
(* reads and writes by any number of threads, Sync, closing, and what      *)
(* crashes leave of it.                                                    *)
(*                                                                         *)
(* ReadPage and WritePage take no lock and work with as many preads and    *)
(* pwrites as it takes: each of these is a step.  Positions and sizes are  *)
(* counted in blocks, the parts of a page that a transfer handles whole:   *)
(* kPageSize is the number of blocks of a page.  The header struct is in   *)
(* the first block of the file.  A missing file is one of size 0.          *)
(*                                                                         *)
(* A crash of the process leaves the file as pread sees it.  A power       *)
(* failure leaves of the blocks written since the last Sync whatever the   *)
(* medium has; unsynced says which these are.                              *)
(***************************************************************************)
EXTENDS Naturals

CONSTANTS
  Threads,      \* that call ReadPage and WritePage
  Images,       \* page images that they write
  Zero,         \* a block of zeros, and a page of them
  Garbage,      \* a block of anything else
  Unknown,      \* history: nobody knows what a page should contain
  NoOptions,    \* no DiskManager exists
  Options,      \* the options with which programs open the file
  kPageSize,
  MaxUint64,    \* numeric_limits<uint64_t>::max()
  MaxOff        \* numeric_limits<off_t>::max()

OptionRecords ==
  [max_page_count : 0 .. MaxUint64, header_size : 0 .. MaxUint64,
   truncate_existing : BOOLEAN, preallocate : BOOLEAN]

\* off_t is no wider than uint64_t and can express the size of a page.
ASSUME DiskAssumption ==
  /\ kPageSize \in Nat \ {0} /\ MaxUint64 \in Nat /\ MaxOff \in 0 .. MaxUint64
  /\ kPageSize <= MaxOff
  /\ Options \subseteq OptionRecords
  /\ NoOptions \notin Options /\ Unknown \notin Images \cup {Zero}

VARIABLES
  bytes,        \* the blocks of the file, as pread returns them
  size,         \* its size
  unsynced,     \* the blocks that may differ on the medium
  medium_size,  \* the size on the medium
  options,      \* options_ of the DiskManager that has the file open
  stage,        \* how far its constructor is
  header_total, \* the blocks of a fresh header that it has written
  pc, loc,      \* the call of each thread and its locals
  expected,     \* history: what the last WritePage of each page stored
  founded       \* history: the options whose header is known to be durable

file == <<bytes, size, unsynced, medium_size>>
vars == <<bytes, size, unsynced, medium_size, options, stage, header_total,
          pc, loc, expected, founded>>

Blocks == 0 .. MaxOff
PageIds == 0 .. MaxUint64

-----------------------------------------------------------------------------
(* Checked arithmetic on uint64_t.                                         *)

U64(n) == n % (MaxUint64 + 1)

\* Mutant: no check.
NeverOverflows(lhs, rhs) == FALSE

\* CheckedAdd and CheckedMul throw.
AddOverflows(lhs, rhs) == lhs > MaxUint64 - rhs
MulOverflows(lhs, rhs) == lhs # 0 /\ rhs > MaxUint64 \div lhs

ExpectedFileSize(o) == U64(o.header_size + U64(o.max_page_count * kPageSize))

\* ExpectedFileSize throws.
FileSizeOverflows(o) ==
  \/ MulOverflows(o.max_page_count, kPageSize)
  \/ AddOverflows(o.header_size, U64(o.max_page_count * kPageSize))

OffsetForPage(p) == U64(options.header_size + U64(p * kPageSize))

OffsetOverflows(p) ==
  \/ MulOverflows(p, kPageSize)
  \/ AddOverflows(options.header_size, U64(p * kPageSize))

\* ValidateOptions does not throw.  The header struct takes one block.
ValidOptions(o) ==
  /\ o.max_page_count # 0
  /\ o.header_size >= 1
  /\ o.header_size % kPageSize = 0
  /\ ~FileSizeOverflows(o)

-----------------------------------------------------------------------------
(* What is in the file.                                                    *)

\* MakeHeader: the fields that depend on the options.
Header(o) == <<"header", o.max_page_count, o.header_size>>

HeaderPage(o) == [i \in 0 .. kPageSize - 1 |-> IF i = 0 THEN Header(o) ELSE Zero]

\* The blocks of a page image.
PageBlocks(c) ==
  [i \in 0 .. kPageSize - 1 |-> IF c = Zero THEN Zero ELSE <<c, i>>]

\* One pwrite of blocks from .. from + n - 1 of page at position pos.
Pwrite(page, from, n, pos) ==
  /\ bytes' = [b \in Blocks |-> IF b \in pos .. pos + n - 1
                                THEN page[from + b - pos] ELSE bytes[b]]
  /\ size' = IF pos + n > size THEN pos + n ELSE size
  /\ unsynced' = unsynced \cup (pos .. pos + n - 1)
  /\ UNCHANGED medium_size

\* ftruncate(n), or O_TRUNC.
Truncate(n) ==
  /\ bytes' = [b \in Blocks |-> IF b < n THEN bytes[b] ELSE Zero]
  /\ size' = n
  /\ unsynced' = unsynced \cup (n .. size - 1)
  /\ UNCHANGED medium_size

\* image is history: what the page is to contain when the write has ended.
Idle == [page_id |-> 0, page |-> PageBlocks(Zero), image |-> Zero, total |-> 0]

\* The file is missing or empty, or is some other program's.
Init ==
  /\ \E s \in {0, 1} :
       /\ size = s /\ medium_size = s
       /\ bytes = [b \in Blocks |-> IF b < s THEN Garbage ELSE Zero]
  /\ unsynced = {}
  /\ options = NoOptions /\ stage = "closed" /\ header_total = 0
  /\ pc = [t \in Threads |-> "idle"]
  /\ loc = [t \in Threads |-> Idle]
  /\ expected = [p \in PageIds |-> Unknown]
  /\ founded = NoOptions

-----------------------------------------------------------------------------
(* The constructor: ValidateOptions, OpenFile, InitializeFile.             *)

\* Options that do not validate, and an open that fails, throw and change
\* nothing.
OpenFile(o) ==
  /\ stage = "closed"
  /\ ValidOptions(o)
  /\ options' = o
  /\ stage' = "opened"
  /\ \/ /\ o.truncate_existing
        /\ Truncate(0)
        /\ founded' = NoOptions
     \/ /\ ~o.truncate_existing
        /\ UNCHANGED <<file, founded>>
  /\ UNCHANGED <<header_total, pc, loc, expected>>

\* InitializeFile: a fresh file gets a header, any other is asked for one.
IsFresh == size = 0 \/ options.truncate_existing

NextStage == IF options.preallocate THEN "preallocate" ELSE "open"

\* One pwrite of WriteFreshHeader.  A file without a header has no pages.
WriteFreshHeader ==
  /\ stage = "header" \/ (stage = "opened" /\ IsFresh)
  /\ \E n \in 1 .. kPageSize - header_total :
       /\ Pwrite(HeaderPage(options), header_total, n, header_total)
       /\ \/ /\ header_total + n = kPageSize
             /\ stage' = NextStage /\ header_total' = 0
          \/ /\ header_total + n < kPageSize
             /\ stage' = "header" /\ header_total' = header_total + n
  /\ expected' = [p \in PageIds |-> Zero]
  /\ UNCHANGED <<options, pc, loc, founded>>

\* The constructor throws: the object is gone.
Throw ==
  /\ stage' = "closed"
  /\ options' = NoOptions /\ header_total' = 0
  /\ UNCHANGED <<pc, loc, expected, founded>>

\* Mutant: the file is extended before its header is looked at.
PreallocateFirst ==
  /\ stage = "opened" /\ ~IsFresh
  /\ \/ /\ bytes[0] = Header(options)
        /\ stage' = NextStage
        /\ UNCHANGED <<file, options, header_total, pc, loc, expected, founded>>
     \/ /\ bytes[0] # Header(options)
        /\ IF options.preallocate /\ ExpectedFileSize(options) <= MaxOff + 1
           THEN Truncate(ExpectedFileSize(options)) ELSE UNCHANGED file
        /\ Throw

\* The file exists: its header must be the one these options would give.
ValidateExistingHeader ==
  /\ stage = "opened" /\ ~IsFresh
  /\ \/ /\ bytes[0] = Header(options)
        /\ stage' = NextStage
        /\ UNCHANGED <<options, header_total, pc, loc, expected, founded>>
     \/ /\ bytes[0] # Header(options)
        /\ Throw
  /\ UNCHANGED file

\* Mutant: off_t is taken to be as wide as uint64_t.
PreallocateUnchecked ==
  /\ stage = "preallocate"
  /\ Truncate(ExpectedFileSize(options))
  /\ stage' = "open"
  /\ UNCHANGED <<options, header_total, pc, loc, expected, founded>>

\* A file whose size off_t cannot express is not extended.
PreallocateFile ==
  /\ stage = "preallocate"
  /\ ExpectedFileSize(options) <= MaxOff
  /\ Truncate(ExpectedFileSize(options))
  /\ stage' = "open"
  /\ UNCHANGED <<options, header_total, pc, loc, expected, founded>>

\* A system call fails, or the size is too large, after the file was opened.
ConstructorThrows ==
  /\ stage \notin {"closed", "open"}
  /\ Throw
  /\ UNCHANGED file

-----------------------------------------------------------------------------
(* ReadPage and WritePage.  Threads may be in calls at the same time.  A   *)
(* page that is read is in no other call: BufferManager's                  *)
(* TransferIsExclusive says so.  But flushes of one page may overlap, and  *)
(* what is on the page then is not known until it is written again.        *)

\* The threads in a call on page p.
Users(p) == {u \in Threads : pc[u] # "idle" /\ loc[u].page_id = p}

\* A page id out of range throws and changes nothing.
BeginCall(t, op, p) ==
  /\ stage = "open" /\ pc[t] = "idle"
  /\ p < options.max_page_count
  /\ pc' = [pc EXCEPT ![t] = op]

BeginWrite(t, p, c) ==
  /\ \A u \in Users(p) : pc[u] = "write"
  /\ BeginCall(t, "write", p)
  /\ loc' = [u \in Threads |->
               IF u = t
               THEN [Idle EXCEPT !.page_id = p, !.page = PageBlocks(c),
                                 !.image = IF Users(p) = {} THEN c ELSE Unknown]
               ELSE IF u \in Users(p) THEN [loc[u] EXCEPT !.image = Unknown]
               ELSE loc[u]]
  /\ expected' = [expected EXCEPT ![p] = Unknown]
  /\ UNCHANGED <<file, options, stage, header_total, founded>>

\* The page is cleared first.
BeginRead(t, p) ==
  /\ Users(p) = {}
  /\ BeginCall(t, "read", p)
  /\ loc' = [loc EXCEPT ![t] = [Idle EXCEPT !.page_id = p]]
  /\ UNCHANGED <<file, options, stage, header_total, expected, founded>>

\* Mutant: a second pwrite or pread starts again at the page's offset.
SameOffset(t) == OffsetForPage(loc[t].page_id)

\* Where the next system call of thread t goes ...
CurrentOffset(t) == U64(OffsetForPage(loc[t].page_id) + loc[t].total)

\* ... unless it is out of range.
OffsetIsValid(t) ==
  /\ ~OffsetOverflows(loc[t].page_id)
  /\ ~AddOverflows(OffsetForPage(loc[t].page_id), loc[t].total)
  /\ CurrentOffset(t) <= MaxOff

\* The blocks that a system call at pos can still transfer.
Remaining(t) == 1 .. kPageSize - loc[t].total

\* One pwrite of WriteFully.  The last one ends the call.
WritePage(t) ==
  /\ pc[t] = "write" /\ OffsetIsValid(t)
  /\ \E n \in Remaining(t) :
       /\ CurrentOffset(t) + n - 1 <= MaxOff
       /\ Pwrite(loc[t].page, loc[t].total, n, CurrentOffset(t))
       /\ \/ /\ loc[t].total + n = kPageSize
             /\ pc' = [pc EXCEPT ![t] = "idle"]
             /\ loc' = [loc EXCEPT ![t] = Idle]
             /\ expected' = [expected EXCEPT ![loc[t].page_id] = loc[t].image]
          \/ /\ loc[t].total + n < kPageSize
             /\ loc' = [loc EXCEPT ![t].total = @ + n]
             /\ UNCHANGED <<pc, expected>>
  /\ UNCHANGED <<options, stage, header_total, founded>>

\* One pread of ReadAtMost: it stops at the end of the page or of the file.
ReadPage(t) ==
  /\ pc[t] = "read" /\ OffsetIsValid(t)
  /\ \/ \E n \in Remaining(t) :
          /\ CurrentOffset(t) + n <= size
          /\ loc' = [loc EXCEPT
                       ![t].page = [i \in 0 .. kPageSize - 1 |->
                          IF i \in loc[t].total .. loc[t].total + n - 1
                          THEN bytes[CurrentOffset(t) + i - loc[t].total]
                          ELSE loc[t].page[i]],
                       ![t].total = @ + n]
          /\ pc' = IF loc[t].total + n = kPageSize
                   THEN [pc EXCEPT ![t] = "have read"] ELSE pc
     \/ /\ CurrentOffset(t) >= size
        /\ pc' = [pc EXCEPT ![t] = "have read"]
        /\ UNCHANGED loc
  /\ UNCHANGED <<file, options, stage, header_total, expected, founded>>

\* The client has its page, or the call throws: an error of the system, or
\* an offset out of range.
EndCall(t) ==
  /\ pc[t] # "idle"
  /\ pc' = [pc EXCEPT ![t] = "idle"]
  /\ loc' = [loc EXCEPT ![t] = Idle]
  /\ UNCHANGED <<file, options, stage, header_total, expected, founded>>

-----------------------------------------------------------------------------
(* Sync, the end of the object, and crashes.                               *)

\* fdatasync: data, and the size that is needed to find it.
Sync ==
  /\ stage = "open"
  /\ unsynced' = {}
  /\ medium_size' = size
  /\ founded' = options
  /\ UNCHANGED <<bytes, size, options, stage, header_total, pc, loc,
                 expected>>

\* The destructor, when no call is under way.
Close ==
  /\ stage = "open"
  /\ \A t \in Threads : pc[t] = "idle"
  /\ stage' = "closed"
  /\ options' = NoOptions
  /\ UNCHANGED <<file, header_total, pc, loc, expected, founded>>

\* The process ends, wherever its threads are.
Die ==
  /\ stage' = "closed"
  /\ options' = NoOptions /\ header_total' = 0
  /\ pc' = [t \in Threads |-> "idle"]
  /\ loc' = [t \in Threads |-> Idle]
  /\ UNCHANGED founded

Crash ==
  /\ stage # "closed"
  /\ Die
  /\ UNCHANGED <<file, expected>>

\* What the first block may be on the medium if it was not synced: what it
\* is, what it was, or something else.
FirstBlocks ==
  {bytes[0]} \cup (IF 0 \in unsynced
                   THEN {Zero, Garbage} \cup {Header(o) : o \in Options} ELSE {})

PageOf(o, b) == (b - o.header_size) \div kPageSize

\* No block of page p was written since the last Sync.
IsSynced(o, p) ==
  \A b \in unsynced : b < o.header_size \/ PageOf(o, b) # p

\* The machine stops.  Nothing is known of the other unsynced blocks.
PowerFailure ==
  /\ stage # "closed" \/ unsynced # {} \/ medium_size # size
  /\ \E s \in {size, medium_size}, first \in FirstBlocks :
       /\ size' = s /\ medium_size' = s
       /\ bytes' = [b \in Blocks |-> IF b >= s THEN Zero
                                     ELSE IF b = 0 THEN first
                                     ELSE IF b \in unsynced THEN Garbage
                                     ELSE bytes[b]]
  /\ unsynced' = {}
  /\ expected' = [p \in PageIds |->
                    IF founded # NoOptions /\ IsSynced(founded, p)
                    THEN expected[p] ELSE Unknown]
  /\ Die

Next ==
  \/ \E o \in Options : OpenFile(o)
  \/ WriteFreshHeader \/ ValidateExistingHeader \/ PreallocateFile
  \/ ConstructorThrows
  \/ \E t \in Threads :
       \/ \E p \in PageIds :
            BeginRead(t, p) \/ \E c \in Images : BeginWrite(t, p, c)
       \/ WritePage(t) \/ ReadPage(t) \/ EndCall(t)
  \/ Sync \/ Close \/ Crash \/ PowerFailure

Spec == Init /\ [][Next]_vars

-----------------------------------------------------------------------------

\* Every variable holds a value of its type, and the file is no longer than
\* its last block.
TypeOK ==
  /\ size \in 0 .. MaxOff + 1 /\ medium_size \in 0 .. MaxOff + 1
  /\ unsynced \subseteq Blocks
  /\ options \in Options \cup {NoOptions} /\ founded \in Options \cup {NoOptions}
  /\ options = NoOptions <=> stage = "closed"
  /\ pc \in [Threads -> {"idle", "read", "write", "have read"}]
  /\ expected \in [PageIds -> Images \cup {Zero, Unknown}]

\* ReadPage returns what the last WritePage of that page stored, zeros if
\* there was none: whatever other threads write to other pages, in however
\* many pieces, across growing, closing and opening the file and across
\* crashes.  Only a write that failed or was not synced before a power
\* failure makes a page uncertain.
ReadReturnsLastWrite ==
  \A t \in Threads :
    /\ pc[t] = "have read"
    /\ expected[loc[t].page_id] # Unknown
    => loc[t].page = PageBlocks(expected[loc[t].page_id])

\* Once a Sync has returned, the file can be opened again with its options
\* until it is truncated: no page write and no crash damages its header.
SyncedFileOpens ==
  founded # NoOptions => size > 0 /\ bytes[0] = Header(founded)

\* A file that is not empty and does not carry the header of these options
\* is not changed by a constructor that was not asked to truncate it.
RejectedFileIsUntouched ==
  [][/\ stage = "opened"
     /\ ~options.truncate_existing
     /\ size > 0 /\ bytes[0] # Header(options)
     /\ ~PowerFailure
     => UNCHANGED <<bytes, size>>]_vars
=============================================================================
