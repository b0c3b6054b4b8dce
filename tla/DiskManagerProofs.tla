-------------------------- MODULE DiskManagerProofs --------------------------
(***************************************************************************)
(* The disk manager stores pages and keeps its header, for every number of *)
(* threads, every page size and all widths of uint64_t and off_t.          *)
(*                                                                         *)
(* Four things are carried along: what each stage of the constructor has   *)
(* established; what the medium may still lack; that a page which is read, *)
(* or whose writer knows what it stores, is in no other call; and that     *)
(* under the layout of the header in the file every page of known content  *)
(* has that content, the blocks after the end of the file being zeros.     *)
(***************************************************************************)
EXTENDS DiskManager, TLAPS

\* The first block of page p, without wrapping.
Offset(o, p) == o.header_size + p * kPageSize

InPage == 0 .. kPageSize - 1

\* A block of a file with these bytes as ReadPage sees it: zeros after the
\* end of the file.
StoredIn(blocks, b) == IF b \in Blocks THEN blocks[b] ELSE Zero

Stored(b) == StoredIn(bytes, b)

BlockValues ==
  {Zero, Garbage} \cup {Header(o) : o \in Options}
    \cup {<<c, i>> : c \in Images, i \in InPage}

Calls == [page_id : PageIds, page : [InPage -> BlockValues],
          image : Images \cup {Zero, Unknown}, total : 0 .. kPageSize]

\* The types that TypeOK leaves out.
MoreTypes ==
  /\ loc \in [Threads -> Calls]
  /\ stage \in {"closed", "opened", "header", "preallocate", "open"}
  /\ header_total \in 0 .. kPageSize - 1

FileTypes ==
  /\ bytes \in [Blocks -> BlockValues]
  /\ size \in 0 .. MaxOff + 1 /\ medium_size \in 0 .. MaxOff + 1
  /\ unsynced \subseteq Blocks

\* What is after the end of the file is zeros, and so is what the medium
\* lacks because its file is shorter.
TailIsZero == \A b \in Blocks : b >= size => bytes[b] = Zero

LackIsZero == \A b \in Blocks \ unsynced : b >= medium_size => bytes[b] = Zero

FileInv == FileTypes /\ TailIsZero /\ LackIsZero

\* The file carries the header of o.
HasHeader(o) == size > 0 /\ bytes[0] = Header(o)

\* What the stages of the constructor have established.
StageInv ==
  /\ options # NoOptions => ValidOptions(options)
  /\ stage # "header" => header_total = 0
  /\ stage = "opened" /\ options.truncate_existing =>
       size = 0 /\ founded = NoOptions
  /\ stage = "header" =>
       HasHeader(options) /\ size = header_total /\ founded = NoOptions
  /\ stage \in {"preallocate", "open"} => HasHeader(options)
  /\ stage # "open" => \A t \in Threads : pc[t] = "idle"

\* A power failure does not take away the header of a file that was synced.
HeaderIsDurable ==
  founded # NoOptions => /\ ValidOptions(founded) /\ HasHeader(founded)
                         /\ 0 \notin unsynced /\ medium_size > 0

\* Thread t is the only one in a call on its page.
Alone(t) == \A u \in Threads :
  pc[u] # "idle" /\ loc[u].page_id = loc[t].page_id => u = t

\* The call c has read the first blocks of content e and nothing else.
ReadSoFar(c, e) ==
  \A i \in InPage :
    c.page[i] = IF i < c.total THEN PageBlocks(e)[i] ELSE Zero

\* The blocks that the call c has written are in the file.
WrittenSoFar(c) ==
  \A i \in 0 .. c.total - 1 : Stored(Offset(options, c.page_id) + i) = c.page[i]

\* What a call under way knows of its page.
CallIsTrue(t) ==
  LET c == loc[t]
      e == expected[c.page_id]
  IN /\ pc[t] # "idle" => c.page_id < options.max_page_count
     /\ pc[t] \in {"read", "have read"} => Alone(t)
     /\ pc[t] = "read" => e = Unknown \/ ReadSoFar(c, e)
     /\ pc[t] = "have read" => e = Unknown \/ c.page = PageBlocks(e)
     /\ pc[t] = "write" =>
          /\ e = Unknown
          /\ \/ c.image = Unknown
             \/ Alone(t) /\ c.page = PageBlocks(c.image) /\ WrittenSoFar(c)

CallInv == \A t \in Threads : CallIsTrue(t)

\* Under the layout that the header gives, a page of known content has it.
PagesAreStored ==
  \A o \in Options : ValidOptions(o) /\ HasHeader(o) =>
    \A p \in PageIds : p < o.max_page_count /\ expected[p] # Unknown =>
      \A i \in InPage : Stored(Offset(o, p) + i) = PageBlocks(expected[p])[i]

\* The inductive invariant.
DiskInv ==
  /\ TypeOK /\ MoreTypes /\ FileInv /\ StageInv /\ HeaderIsDurable
  /\ CallInv /\ PagesAreStored

-----------------------------------------------------------------------------
(* Arithmetic: the checks of ValidateOptions make the offsets of the pages *)
(* exact, and the pages do not overlap.                                    *)

\* Division with remainder.
LEMMA Division ==
  ASSUME NEW n \in Nat, NEW d \in Nat \ {0}
  PROVE  /\ n \div d \in Nat
         /\ n % d \in 0 .. d - 1
         /\ n = ((n \div d) * d) + (n % d)
  BY SMT

\* A multiple is at least one factor away from the next one.
LEMMA NextMultiple ==
  ASSUME NEW d \in Nat, NEW q \in Nat, NEW r \in Nat, q < r
  PROVE  /\ q * d \in Nat /\ r * d \in Nat
         /\ q * d + d <= r * d
  <1>1. PICK k \in Nat : r = q + 1 + k
    <2>1. r - q - 1 \in Nat /\ r = q + 1 + (r - q - 1)
      OBVIOUS
    <2> QED
      BY <2>1
  <1>2. r * d = q * d + d + k * d /\ q * d \in Nat /\ k * d \in Nat
    BY <1>1, SMT
  <1> QED
    BY <1>2

\* Where a number stands between two multiples determines its quotient.
LEMMA Quotient ==
  ASSUME NEW d \in Nat \ {0}, NEW q \in Nat, NEW i \in 0 .. d - 1
  PROVE  (q * d + i) \div d = q
  <1> DEFINE n == q * d + i
             k == n \div d
             m == n % d
  <1>1. q * d \in Nat /\ n \in Nat
    BY SMT
  <1>2. k \in Nat /\ m \in 0 .. d - 1 /\ n = k * d + m
    BY <1>1, Division
  <1> SUFFICES k = q
    OBVIOUS
  <1>3. n = q * d + i
    OBVIOUS
  <1> HIDE DEF n, k, m
  <1>4. ~(k < q) /\ ~(q < k)
    BY <1>1, <1>2, <1>3, NextMultiple
  <1> QED
    BY <1>2, <1>4

\* A number that is smaller than the divisor is its own remainder.
LEMMA SmallRemainder ==
  ASSUME NEW n \in Nat, NEW d \in Nat \ {0}, n < d
  PROVE  n % d = n
  <1> DEFINE k == n \div d
             m == n % d
  <1>1. k \in Nat /\ m \in 0 .. d - 1 /\ n = k * d + m
    BY Division
  <1> SUFFICES m = n
    OBVIOUS
  <1> HIDE DEF k, m
  <1>2. k > 0 => 0 * d + d <= k * d /\ k * d \in Nat
    BY <1>1, NextMultiple
  <1>3. k = 0 => k * d = 0
    BY <1>1
  <1> QED
    BY <1>1, <1>2, <1>3

\* What the constants are.
LEMMA Constants ==
  /\ kPageSize \in Nat \ {0} /\ MaxUint64 \in Nat /\ MaxOff \in Nat
  /\ MaxOff <= MaxUint64 /\ kPageSize <= MaxOff
  /\ 0 \in Blocks /\ 0 \in PageIds /\ 0 \in InPage
  BY DiskAssumption DEF Blocks, PageIds, InPage

\* What fits does not wrap.
LEMMA Fits ==
  ASSUME NEW n \in 0 .. MaxUint64
  PROVE  U64(n) = n
  <1>1. n \in Nat /\ MaxUint64 + 1 \in Nat \ {0} /\ n < MaxUint64 + 1
    BY Constants
  <1> QED
    BY <1>1, SmallRemainder DEF U64

\* CheckedMul lets no product through that does not fit.
LEMMA MulFits ==
  ASSUME NEW lhs \in Nat, NEW rhs \in Nat, ~MulOverflows(lhs, rhs)
  PROVE  lhs * rhs \in 0 .. MaxUint64
  <1>1. CASE lhs = 0
    <2>1. lhs * rhs = 0
      BY <1>1
    <2> QED
      BY <2>1, Constants
  <1>2. CASE lhs # 0
    <2> DEFINE q == MaxUint64 \div lhs
               m == MaxUint64 % lhs
    <2>0. lhs \in Nat \ {0} /\ MaxUint64 \in Nat
      BY <1>2, Constants
    <2>1. q \in Nat /\ m \in 0 .. lhs - 1 /\ MaxUint64 = q * lhs + m
      BY <2>0, Division
    <2>2. rhs <= q
      BY <1>2, <2>1 DEF MulOverflows
    <2> HIDE DEF q, m
    <2>3. rhs < q => rhs * lhs + lhs <= q * lhs
      BY <2>1, NextMultiple
    <2>4. rhs * lhs \in Nat /\ rhs * lhs = lhs * rhs /\ q * lhs \in Nat
      BY <2>1, SMT
    <2> QED
      BY <2>0, <2>1, <2>2, <2>3, <2>4
  <1> QED
    BY <1>1, <1>2

\* The fields of the options.
LEMMA OptionFields ==
  ASSUME NEW o \in Options
  PROVE  /\ o.max_page_count \in 0 .. MaxUint64
         /\ o.header_size \in 0 .. MaxUint64
         /\ o.truncate_existing \in BOOLEAN
         /\ o.preallocate \in BOOLEAN
         /\ o # NoOptions
  BY DiskAssumption DEF OptionRecords

\* Options that validate describe a file whose size uint64_t can express,
\* with a whole page for the header.
LEMMA ValidLayout ==
  ASSUME NEW o \in Options, ValidOptions(o)
  PROVE  /\ o.max_page_count \in Nat \ {0}
         /\ o.max_page_count * kPageSize \in Nat
         /\ o.header_size \in Nat /\ o.header_size >= kPageSize
         /\ ExpectedFileSize(o) = o.header_size + o.max_page_count * kPageSize
         /\ ExpectedFileSize(o) \in 1 .. MaxUint64
  <1> DEFINE n == o.max_page_count
             h == o.header_size
             s == n * kPageSize
  <1>1. n \in Nat \ {0} /\ n <= MaxUint64 /\ h \in Nat /\ h <= MaxUint64 /\ h >= 1
    BY OptionFields, Constants DEF ValidOptions
  <1>2. s \in 0 .. MaxUint64
    BY <1>1, MulFits, Constants DEF ValidOptions, FileSizeOverflows
  <1>3. U64(s) = s
    BY <1>2, Fits
  <1>4. ~(h > MaxUint64 - U64(s))
    BY DEF ValidOptions, FileSizeOverflows, AddOverflows
  <1>5. h + s \in 0 .. MaxUint64
    <2> HIDE DEF h, s
    <2> QED
      BY <1>1, <1>2, <1>3, <1>4, Constants
  <1>6. ExpectedFileSize(o) = h + s
    <2>1. U64(h + s) = h + s
      BY <1>5, Fits
    <2> QED
      BY <1>3, <2>1, Zenon DEF ExpectedFileSize
  <1>7. h >= kPageSize
    <2>1. h % kPageSize = 0
      BY DEF ValidOptions
    <2>2. h < kPageSize => h % kPageSize = h
      BY <1>1, Constants, SmallRemainder
    <2> HIDE DEF h
    <2> QED
      BY <1>1, <2>1, <2>2, Constants
  <1> HIDE DEF n, h, s
  <1>8. s \in Nat /\ h + s \in 1 .. MaxUint64
    BY <1>1, <1>2, <1>5
  <1> QED
    BY <1>1, <1>6, <1>7, <1>8 DEF n, h, s

\* A page of the layout lies between the header and the end of the file.
LEMMA PageLayout ==
  ASSUME NEW o \in Options, ValidOptions(o), NEW p \in Nat, p < o.max_page_count
  PROVE  /\ p * kPageSize \in 0 .. MaxUint64
         /\ Offset(o, p) \in Nat
         /\ Offset(o, p) >= o.header_size
         /\ Offset(o, p) >= kPageSize
         /\ Offset(o, p) + kPageSize <= ExpectedFileSize(o)
         /\ Offset(o, p) + kPageSize <= MaxUint64
         /\ p \in PageIds
  <1> DEFINE n == o.max_page_count
             h == o.header_size
             s == p * kPageSize
             e == n * kPageSize
  <1>1. /\ n \in Nat \ {0} /\ e \in Nat /\ h \in Nat /\ h >= kPageSize
        /\ ExpectedFileSize(o) = h + e
        /\ h + e \in 1 .. MaxUint64
    BY ValidLayout
  <1>2. s \in Nat /\ s + kPageSize <= e
    BY <1>1, NextMultiple, Constants
  <1>3. Offset(o, p) = h + s
    BY DEF Offset
  <1>4. p \in PageIds
    BY <1>1, OptionFields, Constants DEF PageIds
  <1> HIDE DEF n, h, s, e
  <1>5. s \in 0 .. MaxUint64
    BY <1>1, <1>2, Constants
  <1>6. /\ h + s \in Nat /\ h + s >= h /\ h + s >= kPageSize
        /\ h + s + kPageSize <= h + e /\ h + s + kPageSize <= MaxUint64
    BY <1>1, <1>2, Constants
  <1> QED
    BY <1>1, <1>3, <1>4, <1>5, <1>6 DEF h, s

\* OffsetForPage does not wrap for a page of the file.
LEMMA OffsetIsExact ==
  ASSUME options \in Options, ValidOptions(options),
         NEW p \in Nat, p < options.max_page_count
  PROVE  OffsetForPage(p) = Offset(options, p)
  <1> DEFINE h == options.header_size
             s == p * kPageSize
  <1>1. s \in 0 .. MaxUint64 /\ h + s \in Nat /\ h + s + kPageSize <= MaxUint64
    BY PageLayout DEF Offset
  <1>2. U64(s) = s
    BY <1>1, Fits
  <1>3. h + s \in 0 .. MaxUint64
    BY <1>1, Constants
  <1>4. U64(h + s) = h + s
    BY <1>3, Fits
  <1> QED
    BY <1>2, <1>4, Zenon DEF OffsetForPage, Offset

\* Two pages have no block in common.
LEMMA PagesDisjoint ==
  ASSUME NEW o \in Options, ValidOptions(o), NEW p \in Nat, NEW q \in Nat, p # q,
         p < o.max_page_count, q < o.max_page_count,
         NEW i \in InPage, NEW j \in InPage
  PROVE  Offset(o, p) + i # Offset(o, q) + j
  <1> DEFINE h == o.header_size
             s == p * kPageSize
             r == q * kPageSize
  <1>1. h \in Nat /\ s \in Nat /\ r \in Nat
    BY ValidLayout, PageLayout
  <1>2. (p < q => s + kPageSize <= r) /\ (q < p => r + kPageSize <= s)
    BY NextMultiple, Constants
  <1>3. Offset(o, p) = h + s /\ Offset(o, q) = h + r
    BY DEF Offset
  <1> HIDE DEF h, s, r
  <1> QED
    BY <1>1, <1>2, <1>3, Constants DEF InPage

\* PageOf finds the page of a block.
LEMMA PageOfBlock ==
  ASSUME NEW o \in Options, ValidOptions(o), NEW p \in Nat, p < o.max_page_count,
         NEW i \in InPage
  PROVE  /\ PageOf(o, Offset(o, p) + i) = p
         /\ Offset(o, p) + i >= o.header_size
         /\ Offset(o, p) + i \in Nat
  <1> DEFINE h == o.header_size
             s == p * kPageSize
  <1>1. h \in Nat /\ s \in Nat /\ i \in Nat
    BY ValidLayout, PageLayout, Constants DEF InPage
  <1>2. Offset(o, p) = h + s
    BY DEF Offset
  <1>3. (s + i) \div kPageSize = p
    BY Quotient, Constants DEF InPage
  <1>4. (h + s + i) - h = s + i
    <2> HIDE DEF h, s
    <2> QED
      BY <1>1
  <1>5. PageOf(o, h + s + i) = p
    BY <1>3, <1>4, Zenon DEF PageOf
  <1> HIDE DEF h, s
  <1>6. h + s + i >= h /\ h + s + i \in Nat
    BY <1>1
  <1> QED
    BY <1>2, <1>5, <1>6 DEF h

\* The header tells the layout.
LEMMA SameLayout ==
  ASSUME NEW o \in Options, NEW d \in Options, Header(o) = Header(d)
  PROVE  /\ o.max_page_count = d.max_page_count
         /\ o.header_size = d.header_size
         /\ \A p : Offset(o, p) = Offset(d, p)
         /\ ValidOptions(o) <=> ValidOptions(d)
         /\ Header(o) \in BlockValues
  <1>1. o.max_page_count = d.max_page_count /\ o.header_size = d.header_size
    BY DEF Header
  <1>2. Header(o) \in BlockValues
    BY DEF BlockValues
  <1>3. \A p : Offset(o, p) = Offset(d, p)
    BY <1>1 DEF Offset
  <1>4. ValidOptions(o) <=> ValidOptions(d)
    BY <1>1, Zenon DEF ValidOptions, FileSizeOverflows
  <1> QED
    BY <1>1, <1>2, <1>3, <1>4

-----------------------------------------------------------------------------
(* The system calls on the file.                                           *)

\* A pwrite changes the blocks it writes, and the file grows over zeros.
LEMMA PwriteEffect ==
  ASSUME FileInv, NEW page \in [InPage -> BlockValues], NEW from \in Nat,
         NEW n \in Nat \ {0}, from + n <= kPageSize,
         NEW pos \in Nat, pos + n - 1 <= MaxOff,
         Pwrite(page, from, n, pos)
  PROVE  /\ FileInv'
         /\ \A b \in Blocks : (b < pos \/ b >= pos + n) => bytes'[b] = bytes[b]
         /\ \A i \in from .. from + n - 1 :
              pos + (i - from) \in Blocks /\ bytes'[pos + (i - from)] = page[i]
         /\ size' >= size /\ size' >= pos + n
         /\ size <= pos => size' = pos + n
         /\ unsynced' = unsynced \cup (pos .. pos + n - 1)
         /\ medium_size' = medium_size
  <1>1. /\ bytes' = [b \in Blocks |-> IF b \in pos .. pos + n - 1
                                      THEN page[from + b - pos] ELSE bytes[b]]
        /\ size' = IF pos + n > size THEN pos + n ELSE size
        /\ unsynced' = unsynced \cup (pos .. pos + n - 1)
        /\ medium_size' = medium_size
    BY DEF Pwrite
  <1>2. /\ MaxOff \in Nat /\ size \in Nat /\ size <= MaxOff + 1
        /\ medium_size \in 0 .. MaxOff + 1 /\ Blocks = 0 .. MaxOff
        /\ kPageSize \in Nat /\ InPage = 0 .. kPageSize - 1
    BY Constants DEF FileInv, FileTypes, Blocks, InPage
  <1>3. /\ size' >= size /\ size' >= pos + n /\ size' \in 0 .. MaxOff + 1
        /\ size <= pos => size' = pos + n
    BY <1>1, <1>2
  <1>4. pos .. pos + n - 1 \subseteq Blocks
    BY <1>2
  <1>5. \A b \in Blocks : (b < pos \/ b >= pos + n) => bytes'[b] = bytes[b]
    BY <1>1, <1>2
  <1>6. \A i \in from .. from + n - 1 :
          /\ pos + (i - from) \in Blocks /\ i \in InPage
          /\ bytes'[pos + (i - from)] = page[i]
    <2> TAKE i \in from .. from + n - 1
    <2>1. /\ pos + (i - from) \in pos .. pos + n - 1 /\ i \in InPage
          /\ from + (pos + (i - from)) - pos = i
      BY <1>2
    <2>2. pos + (i - from) \in Blocks
      BY <1>4, <2>1
    <2> QED
      BY <1>1, <2>1, <2>2
  <1>7. bytes' \in [Blocks -> BlockValues]
    <2>1. ASSUME NEW b \in Blocks
          PROVE  (IF b \in pos .. pos + n - 1
                  THEN page[from + b - pos] ELSE bytes[b]) \in BlockValues
      <3>1. b \in pos .. pos + n - 1 => from + b - pos \in InPage
        BY <1>2
      <3> QED
        BY <3>1 DEF FileInv, FileTypes
    <2> QED
      BY <1>1, <2>1
  <1>8. FileTypes'
    BY <1>1, <1>2, <1>3, <1>4, <1>7 DEF FileInv, FileTypes
  <1>9. TailIsZero'
    <2>1. ASSUME NEW b \in Blocks, b >= size'
          PROVE  bytes'[b] = Zero
      <3>1. b >= pos + n /\ b >= size
        BY <2>1, <1>2, <1>3
      <3> QED
        BY <3>1, <1>5 DEF FileInv, TailIsZero
    <2> QED
      BY <2>1 DEF TailIsZero
  <1>10. LackIsZero'
    <2>1. ASSUME NEW b \in Blocks \ unsynced', b >= medium_size
          PROVE  bytes'[b] = Zero
      <3>1. b \notin unsynced /\ (b < pos \/ b >= pos + n)
        BY <1>1, <1>2
      <3> QED
        BY <2>1, <3>1, <1>5 DEF FileInv, LackIsZero
    <2> QED
      BY <1>1, <2>1 DEF LackIsZero
  <1> QED
    BY <1>1, <1>3, <1>5, <1>6, <1>8, <1>9, <1>10 DEF FileInv

\* A truncation changes nothing before the new end.
LEMMA TruncateEffect ==
  ASSUME FileInv, NEW n \in 0 .. MaxOff + 1, Truncate(n)
  PROVE  /\ FileInv'
         /\ \A b \in Blocks : b < n => bytes'[b] = bytes[b]
         /\ size' = n
         /\ unsynced' = unsynced \cup (n .. size - 1)
         /\ medium_size' = medium_size
  <1>1. /\ bytes' = [b \in Blocks |-> IF b < n THEN bytes[b] ELSE Zero]
        /\ size' = n
        /\ unsynced' = unsynced \cup (n .. size - 1)
        /\ medium_size' = medium_size
    BY DEF Truncate
  <1>2. /\ MaxOff \in Nat /\ size \in Nat /\ size <= MaxOff + 1
        /\ Blocks = 0 .. MaxOff
    BY Constants DEF FileInv, FileTypes, Blocks
  <1>3. bytes' \in [Blocks -> BlockValues]
    <2>1. Zero \in BlockValues
      BY DEF BlockValues
    <2> QED
      BY <1>1, <2>1 DEF FileInv, FileTypes
  <1>4. n .. size - 1 \subseteq Blocks
    BY <1>2
  <1>5. FileTypes'
    BY <1>1, <1>3, <1>4 DEF FileInv, FileTypes
  <1>6. TailIsZero'
    BY <1>1, <1>2 DEF TailIsZero
  <1>7. LackIsZero'
    BY <1>1, <1>2 DEF FileInv, LackIsZero
  <1> QED
    BY <1>1, <1>5, <1>6, <1>7 DEF FileInv

\* A block of the file that a step keeps, seen as ReadPage sees it.
LEMMA StoredKept ==
  ASSUME NEW b \in Nat, b \in Blocks => bytes'[b] = bytes[b]
  PROVE  Stored(b)' = Stored(b)
  BY DEF Stored, StoredIn

-----------------------------------------------------------------------------
(* What a step keeps.                                                      *)

\* When no call is under way there is nothing to know about calls.
LEMMA NoCalls ==
  ASSUME \A t \in Threads : pc'[t] = "idle"
  PROVE  CallInv'
  BY DEF CallInv, CallIsTrue

\* Pages are stored in blocks and known from history: a step that changes
\* neither keeps them stored.
LEMMA PagesKept ==
  ASSUME PagesAreStored, UNCHANGED <<bytes, size, expected>>
  PROVE  PagesAreStored'
  BY DEF PagesAreStored, HasHeader, Stored, StoredIn

\* Nothing about the file changes when the file does not.
LEMMA FileKept ==
  ASSUME FileInv, UNCHANGED file
  PROVE  FileInv'
  BY DEF FileInv, FileTypes, TailIsZero, LackIsZero, file

\* The options of an open file are options, and validate.
LEMMA OpenOptions ==
  ASSUME DiskInv, stage # "closed"
  PROVE  options \in Options /\ ValidOptions(options)
  BY DEF DiskInv, TypeOK, StageInv

-----------------------------------------------------------------------------
(* The steps of the constructor.                                           *)

\* Opening the file, which empties it if that was asked for.
LEMMA OpenFileStep ==
  ASSUME DiskInv, NEW o \in Options, OpenFile(o)
  PROVE  DiskInv'
  <1>1. /\ stage = "closed" /\ ValidOptions(o) /\ options' = o /\ stage' = "opened"
        /\ UNCHANGED <<header_total, pc, loc, expected>>
        /\ o # NoOptions
    BY OptionFields DEF OpenFile
  <1>2. /\ \A t \in Threads : pc'[t] = "idle"
        /\ header_total' = 0
    BY <1>1 DEF DiskInv, StageInv
  <1>3. CallInv'
    BY <1>2, NoCalls
  <1>4. MoreTypes'
    BY <1>1 DEF DiskInv, MoreTypes
  <1>5. CASE /\ o.truncate_existing
             /\ Truncate(0)
             /\ founded' = NoOptions
    <2>1. FileInv' /\ size' = 0
      BY <1>5, TruncateEffect, Constants DEF DiskInv
    <2>2. TypeOK'
      BY <1>1, <1>5, <2>1 DEF DiskInv, TypeOK, FileInv, FileTypes
    <2>3. StageInv'
      BY <1>1, <1>2, <1>5, <2>1 DEF StageInv, ValidOptions, FileSizeOverflows
    <2>4. HeaderIsDurable' /\ PagesAreStored'
      BY <1>5, <2>1 DEF HeaderIsDurable, PagesAreStored, HasHeader
    <2> QED
      BY <1>3, <1>4, <2>1, <2>2, <2>3, <2>4 DEF DiskInv
  <1>6. CASE ~o.truncate_existing /\ UNCHANGED <<file, founded>>
    <2>1. UNCHANGED <<bytes, size, unsynced, medium_size, founded>>
      BY <1>6 DEF file
    <2>2. FileInv'
      BY <1>6, FileKept DEF DiskInv
    <2>3. TypeOK'
      BY <1>1, <2>1 DEF DiskInv, TypeOK
    <2>4. StageInv'
      BY <1>1, <1>2, <1>6 DEF StageInv
    <2>5. HeaderIsDurable'
      BY <2>1 DEF DiskInv, HeaderIsDurable, HasHeader
    <2>6. PagesAreStored'
      BY <1>1, <2>1, PagesKept DEF DiskInv
    <2> QED
      BY <1>3, <1>4, <2>2, <2>3, <2>4, <2>5, <2>6 DEF DiskInv
  <1> QED
    BY <1>5, <1>6 DEF OpenFile

\* The object is gone, the file is as it was.
LEMMA GoneStep ==
  ASSUME DiskInv, UNCHANGED <<file, expected, founded>>, stage' = "closed",
         options' = NoOptions, header_total' = 0,
         \A t \in Threads : pc'[t] = "idle",
         pc' \in [Threads -> {"idle"}], loc' \in [Threads -> Calls]
  PROVE  DiskInv'
  <1>1. UNCHANGED <<bytes, size, unsynced, medium_size, expected, founded>>
    BY DEF file
  <1>2. CallInv'
    BY NoCalls
  <1>3. FileInv'
    BY FileKept DEF DiskInv
  <1>4. TypeOK'
    BY <1>1 DEF DiskInv, TypeOK
  <1>5. MoreTypes'
    BY Constants DEF MoreTypes
  <1>6. StageInv'
    BY DEF StageInv
  <1>7. HeaderIsDurable'
    BY <1>1 DEF DiskInv, HeaderIsDurable, HasHeader
  <1>8. PagesAreStored'
    BY <1>1, PagesKept DEF DiskInv
  <1> QED
    BY <1>2, <1>3, <1>4, <1>5, <1>6, <1>7, <1>8 DEF DiskInv

\* A constructor that throws leaves the file as it found it.
LEMMA ThrowStep ==
  ASSUME DiskInv, stage # "open", Throw, UNCHANGED file
  PROVE  DiskInv'
  <1>1. /\ UNCHANGED <<pc, loc, expected, founded>>
        /\ stage' = "closed" /\ options' = NoOptions /\ header_total' = 0
    BY DEF Throw
  <1>2. /\ pc' \in [Threads -> {"idle"}]
        /\ loc' \in [Threads -> Calls]
        /\ \A t \in Threads : pc'[t] = "idle"
    BY <1>1 DEF DiskInv, TypeOK, MoreTypes, StageInv
  <1> QED
    BY <1>1, <1>2, GoneStep

\* An existing file is opened only if its header is the right one.
LEMMA ValidateStep ==
  ASSUME DiskInv, ValidateExistingHeader
  PROVE  DiskInv'
  <1>1. stage = "opened" /\ size # 0 /\ UNCHANGED file
    BY DEF ValidateExistingHeader, IsFresh
  <1>2. CASE Throw
    BY <1>1, <1>2, ThrowStep
  <1>3. CASE /\ bytes[0] = Header(options)
             /\ stage' = NextStage
             /\ UNCHANGED <<options, header_total, pc, loc, expected, founded>>
    <2>1. UNCHANGED <<bytes, size, unsynced, medium_size>>
      BY <1>1 DEF file
    <2>2. stage' \in {"preallocate", "open"}
      BY <1>3 DEF NextStage
    <2>3. HasHeader(options)'
      <3>1. size' > 0
        <4>1. size \in Nat /\ size # 0
          BY <1>1, Constants DEF DiskInv, FileInv, FileTypes
        <4>2. size' = size
          BY <2>1
        <4> QED
          BY <4>1, <4>2
      <3>2. bytes'[0] = Header(options')
        BY <1>3, <2>1
      <3> QED
        BY <3>1, <3>2 DEF HasHeader, Header
    <2>4. \A t \in Threads : pc'[t] = "idle"
      BY <1>1, <1>3 DEF DiskInv, StageInv
    <2>5. CallInv'
      BY <2>4, NoCalls
    <2>6. TypeOK' /\ MoreTypes' /\ FileInv'
      BY <1>1, <1>3, <2>1, <2>2, FileKept DEF DiskInv, TypeOK, MoreTypes
    <2>7. StageInv'
      <3>1. ValidOptions(options)' /\ header_total' = 0
        BY <1>1, <1>3, OpenOptions DEF DiskInv, StageInv, ValidOptions, FileSizeOverflows
      <3> QED
        BY <2>2, <2>3, <2>4, <3>1 DEF StageInv
    <2>8. HeaderIsDurable'
      BY <1>3, <2>1 DEF DiskInv, HeaderIsDurable, HasHeader
    <2>9. PagesAreStored'
      BY <1>3, <2>1, PagesKept DEF DiskInv
    <2> QED
      BY <2>5, <2>6, <2>7, <2>8, <2>9 DEF DiskInv
  <1> QED
    BY <1>2, <1>3 DEF ValidateExistingHeader

\* The header is written in pieces at the start of an empty file, and what is
\* after it stays empty: every page is zeros.
LEMMA WriteFreshHeaderStep ==
  ASSUME DiskInv, WriteFreshHeader
  PROVE  DiskInv'
  <1> DEFINE h == header_total
  <1>1. /\ stage \in {"header", "opened"}
        /\ UNCHANGED <<options, pc, loc, founded>>
        /\ expected' = [p \in PageIds |-> Zero]
    BY DEF WriteFreshHeader
  <1>2. PICK n \in 1 .. kPageSize - h :
          /\ Pwrite(HeaderPage(options), h, n, h)
          /\ \/ /\ h + n = kPageSize
                /\ stage' = NextStage /\ header_total' = 0
             \/ /\ h + n < kPageSize
                /\ stage' = "header" /\ header_total' = h + n
    BY DEF WriteFreshHeader
  <1>3. /\ h \in Nat /\ size = h /\ founded = NoOptions /\ n \in Nat \ {0}
        /\ h + n <= kPageSize /\ h + n - 1 <= MaxOff
        /\ stage = "header" => h > 0 /\ bytes[0] = Header(options)
        /\ stage = "opened" => h = 0
    <2>1. h \in Nat /\ n \in Nat \ {0} /\ h + n <= kPageSize /\ h + n - 1 <= MaxOff
      BY Constants DEF DiskInv, MoreTypes
    <2>2. CASE stage = "header"
      BY <2>1, <2>2 DEF DiskInv, StageInv, HasHeader
    <2>3. CASE stage = "opened"
      <3>1. size = 0 \/ options.truncate_existing
        BY <2>3 DEF WriteFreshHeader, IsFresh
      <3>2. size = 0 => founded = NoOptions
        BY DEF DiskInv, HeaderIsDurable, HasHeader
      <3> QED
        BY <2>1, <2>3, <3>1, <3>2 DEF DiskInv, StageInv
    <2> QED
      BY <1>1, <2>1, <2>2, <2>3
  <1>4. options \in Options /\ ValidOptions(options)
    BY <1>1, OpenOptions
  <1>5. HeaderPage(options) \in [InPage -> BlockValues]
    BY <1>4 DEF HeaderPage, InPage, BlockValues
  <1>6. FileInv
    BY DEF DiskInv
  <1>7. /\ FileInv'
        /\ \A b \in Blocks : (b < h \/ b >= h + n) => bytes'[b] = bytes[b]
        /\ \A i \in h .. h + n - 1 :
             h + (i - h) \in Blocks /\ bytes'[h + (i - h)] = HeaderPage(options)[i]
        /\ size' = h + n
    BY <1>2, <1>3, <1>5, <1>6, PwriteEffect
  <1>8. size' > 0 /\ bytes'[0] = Header(options)
    <2>1. CASE h = 0
      <3>1. 0 \in h .. h + n - 1 /\ h + (0 - h) = 0
        BY <2>1, <1>3
      <3>2. bytes'[0] = HeaderPage(options)[0]
        BY <3>1, <1>7
      <3>3. HeaderPage(options)[0] = Header(options)
        BY Constants DEF HeaderPage, InPage
      <3> QED
        BY <3>2, <3>3, <1>3, <1>7
    <2>2. CASE h # 0
      BY <2>2, <1>1, <1>3, <1>7, Constants
    <2> QED
      BY <2>1, <2>2
  <1>9. /\ \A t \in Threads : pc'[t] = "idle"
        /\ CallInv'
    <2>1. \A t \in Threads : pc'[t] = "idle"
      BY <1>1 DEF DiskInv, StageInv
    <2> QED
      BY <2>1, NoCalls
  <1>10. stage' \in {"preallocate", "open", "header"} /\ header_total' \in 0 .. kPageSize - 1
    BY <1>2, <1>3, Constants DEF NextStage
  <1>11. TypeOK' /\ MoreTypes'
    <2>1. size' \in 0 .. MaxOff + 1 /\ medium_size' \in 0 .. MaxOff + 1 /\ unsynced' \subseteq Blocks
      BY <1>7 DEF FileInv, FileTypes
    <2>2. options' # NoOptions /\ stage' # "closed"
      BY <1>1, <1>4, <1>10, OptionFields
    <2> QED
      BY <1>1, <1>4, <1>10, <2>1, <2>2 DEF DiskInv, TypeOK, MoreTypes
  <1>12. StageInv'
    <2>1. ValidOptions(options)' /\ HasHeader(options)' /\ founded' = NoOptions
      BY <1>1, <1>3, <1>4, <1>8 DEF ValidOptions, FileSizeOverflows, HasHeader, Header
    <2>2. /\ stage' # "header" => header_total' = 0
          /\ stage' = "header" => size' = header_total'
          /\ stage' # "opened"
      BY <1>2, <1>7 DEF NextStage
    <2> QED
      BY <1>9, <2>1, <2>2 DEF StageInv
  <1>13. HeaderIsDurable'
    BY <1>1, <1>3 DEF HeaderIsDurable
  <1>14. PagesAreStored'
    <2>1. ASSUME NEW o \in Options, ValidOptions(o), NEW p \in PageIds,
                 p < o.max_page_count, NEW i \in InPage
          PROVE  Stored(Offset(o, p) + i)' = PageBlocks(expected'[p])[i]
      <3>1. p \in Nat /\ i \in Nat
        BY Constants DEF PageIds, InPage
      <3>2. Offset(o, p) \in Nat /\ Offset(o, p) >= kPageSize
        BY <2>1, <3>1, PageLayout
      <3>3. Offset(o, p) + i >= size'
        BY <1>3, <1>7, <3>1, <3>2, Constants
      <3>4. Stored(Offset(o, p) + i)' = Zero
        BY <3>3, <1>7 DEF Stored, StoredIn, FileInv, TailIsZero, Offset
      <3>5. PageBlocks(expected'[p])[i] = Zero
        BY <1>1 DEF PageBlocks, InPage
      <3> QED
        BY <3>4, <3>5
    <2> QED
      BY <2>1 DEF PagesAreStored, ValidOptions, FileSizeOverflows, Offset
  <1> QED
    BY <1>7, <1>9, <1>11, <1>12, <1>13, <1>14 DEF DiskInv

\* The file is cut or extended to the size of its layout: no page of it is
\* touched, and the header is not either.
LEMMA PreallocateStep ==
  ASSUME DiskInv, PreallocateFile
  PROVE  DiskInv'
  <1> DEFINE n == ExpectedFileSize(options)
  <1>1. /\ stage = "preallocate" /\ stage' = "open" /\ n <= MaxOff /\ Truncate(n)
        /\ UNCHANGED <<options, header_total, pc, loc, expected, founded>>
    BY DEF PreallocateFile
  <1>2. options \in Options /\ ValidOptions(options) /\ n \in 1 .. MaxUint64
    BY <1>1, OpenOptions, ValidLayout
  <1> HIDE DEF n
  <1>3. n \in Nat \ {0} /\ n \in 0 .. MaxOff + 1 /\ FileInv /\ HasHeader(options)
    BY <1>1, <1>2, Constants DEF DiskInv, StageInv
  <1>4. /\ FileInv'
        /\ \A b \in Blocks : b < n => bytes'[b] = bytes[b]
        /\ size' = n
        /\ unsynced' = unsynced \cup (n .. size - 1)
        /\ medium_size' = medium_size
    BY <1>1, <1>3, TruncateEffect
  <1>5. bytes'[0] = bytes[0] /\ size' > 0 /\ size > 0
    BY <1>3, <1>4, Constants DEF HasHeader
  <1>6. \A o : HasHeader(o)' <=> (size' > 0 /\ bytes'[0] = Header(o))
    BY DEF HasHeader, Header
  <1>7. \A t \in Threads : pc'[t] = "idle"
    BY <1>1 DEF DiskInv, StageInv
  <1>8. CallInv'
    BY <1>7, NoCalls
  <1>9. TypeOK' /\ MoreTypes'
    BY <1>1, <1>4 DEF DiskInv, TypeOK, MoreTypes, FileInv, FileTypes
  <1>10. StageInv'
    <2>1. ValidOptions(options)' /\ HasHeader(options)' /\ header_total' = 0
      BY <1>1, <1>2, <1>3, <1>5 DEF DiskInv, StageInv, ValidOptions, FileSizeOverflows, HasHeader, Header
    <2> QED
      BY <1>1, <2>1 DEF StageInv
  <1>11. HeaderIsDurable'
    <2>1. founded # NoOptions => 0 \notin unsynced'
      BY <1>3, <1>4 DEF DiskInv, HeaderIsDurable, FileInv, FileTypes
    <2>2. founded # NoOptions => ValidOptions(founded)' /\ HasHeader(founded)'
      BY <1>1, <1>5 DEF DiskInv, HeaderIsDurable, HasHeader, Header, ValidOptions, FileSizeOverflows
    <2> QED
      BY <1>1, <1>4, <2>1, <2>2 DEF DiskInv, HeaderIsDurable
  <1>12. PagesAreStored'
    <2>1. ASSUME NEW o \in Options, ValidOptions(o), HasHeader(o)', NEW p \in PageIds,
                 p < o.max_page_count, expected'[p] # Unknown, NEW i \in InPage
          PROVE  Stored(Offset(o, p) + i)' = PageBlocks(expected'[p])[i]
      <3>1. p \in Nat /\ i \in Nat /\ i < kPageSize
        BY Constants DEF PageIds, InPage
      <3>2. bytes[0] = Header(o) /\ bytes[0] = Header(options)
        BY <2>1, <1>3, <1>5 DEF HasHeader, Header
      <3>3. /\ Offset(o, p) = Offset(options, p)
            /\ p < options.max_page_count
        BY <2>1, <3>2, <1>2, SameLayout
      <3>4. Offset(options, p) \in Nat /\ Offset(options, p) + kPageSize <= n
        BY <1>2, <3>1, <3>3, PageLayout DEF n
      <3>5. Offset(o, p) + i \in Nat /\ Offset(o, p) + i < n
        BY <3>1, <3>3, <3>4, <1>3, Constants
      <3>6. Stored(Offset(o, p) + i)' = Stored(Offset(o, p) + i)
        BY <3>5, <1>4, StoredKept
      <3>7. Stored(Offset(o, p) + i) = PageBlocks(expected[p])[i]
        BY <2>1, <1>1, <1>5, <3>2 DEF DiskInv, PagesAreStored, HasHeader
      <3> QED
        BY <3>6, <3>7, <1>1
    <2> QED
      BY <2>1 DEF PagesAreStored, ValidOptions, FileSizeOverflows, Offset
  <1> QED
    BY <1>4, <1>8, <1>9, <1>10, <1>11, <1>12 DEF DiskInv

-----------------------------------------------------------------------------
(* Sync, the end of the object, and crashes.                               *)

\* Sync leaves nothing for a power failure to take.
LEMMA SyncStep ==
  ASSUME DiskInv, Sync
  PROVE  DiskInv'
  <1>1. /\ stage = "open" /\ unsynced' = {} /\ medium_size' = size /\ founded' = options
        /\ UNCHANGED <<bytes, size, options, stage, header_total, pc, loc, expected>>
    BY DEF Sync
  <1>2. options \in Options /\ ValidOptions(options) /\ HasHeader(options)
    BY <1>1, OpenOptions DEF DiskInv, StageInv
  <1>3. FileInv'
    BY <1>1 DEF DiskInv, FileInv, FileTypes, TailIsZero, LackIsZero
  <1>4. TypeOK' /\ MoreTypes'
    BY <1>1, <1>2 DEF DiskInv, TypeOK, MoreTypes
  <1>5. StageInv'
    <2>1. ValidOptions(options)' /\ HasHeader(options)' /\ header_total' = 0
      BY <1>1, <1>2 DEF DiskInv, StageInv, HasHeader, Header, ValidOptions, FileSizeOverflows
    <2> QED
      BY <1>1, <2>1 DEF StageInv
  <1>6. HeaderIsDurable'
    <2>1. ValidOptions(founded)' /\ HasHeader(founded)' /\ size > 0
      BY <1>1, <1>2 DEF HasHeader, Header, ValidOptions, FileSizeOverflows
    <2> QED
      BY <1>1, <2>1 DEF HeaderIsDurable
  <1>7. CallInv'
    BY <1>1 DEF DiskInv, CallInv, CallIsTrue, Alone, WrittenSoFar, Stored, StoredIn, Offset
  <1>8. PagesAreStored'
    BY <1>1, PagesKept DEF DiskInv
  <1> QED
    BY <1>3, <1>4, <1>5, <1>6, <1>7, <1>8 DEF DiskInv

\* The locals of a thread that is in no call.
LEMMA IdleIsCall == Idle \in Calls
  <1>1. PageBlocks(Zero) \in [InPage -> BlockValues]
    BY DEF PageBlocks, InPage, BlockValues
  <1> QED
    BY <1>1, Constants DEF Idle, Calls

\* The destructor, and the death of the process, leave the file alone.
LEMMA CloseStep ==
  ASSUME DiskInv, Close \/ Crash \/ ConstructorThrows
  PROVE  DiskInv'
  <1>1. CASE Close
    <2>1. /\ UNCHANGED <<file, header_total, pc, loc, expected, founded>>
          /\ stage = "open" /\ stage' = "closed" /\ options' = NoOptions
          /\ \A t \in Threads : pc[t] = "idle"
      BY <1>1 DEF Close
    <2>2. /\ pc' \in [Threads -> {"idle"}] /\ loc' \in [Threads -> Calls]
          /\ header_total' = 0 /\ \A t \in Threads : pc'[t] = "idle"
      BY <2>1 DEF DiskInv, TypeOK, MoreTypes, StageInv
    <2> QED
      BY <2>1, <2>2, GoneStep
  <1>2. CASE Crash
    <2>1. /\ UNCHANGED <<file, expected, founded>>
          /\ stage' = "closed" /\ options' = NoOptions /\ header_total' = 0
          /\ pc' = [t \in Threads |-> "idle"] /\ loc' = [t \in Threads |-> Idle]
      BY <1>2 DEF Crash, Die
    <2>2. /\ pc' \in [Threads -> {"idle"}] /\ loc' \in [Threads -> Calls]
          /\ \A t \in Threads : pc'[t] = "idle"
      BY <2>1, IdleIsCall
    <2> QED
      BY <2>1, <2>2, GoneStep
  <1>3. CASE ConstructorThrows
    BY <1>3, ThrowStep DEF ConstructorThrows
  <1> QED
    BY <1>1, <1>2, <1>3

\* A power failure leaves the synced pages of a synced file.  Of any other
\* file nothing is known, whatever header it then has.
LEMMA PowerFailureStep ==
  ASSUME DiskInv, PowerFailure
  PROVE  DiskInv'
  <1>1. /\ stage' = "closed" /\ options' = NoOptions /\ header_total' = 0
        /\ pc' = [t \in Threads |-> "idle"] /\ loc' = [t \in Threads |-> Idle]
        /\ founded' = founded /\ unsynced' = {}
        /\ expected' = [p \in PageIds |->
                          IF founded # NoOptions /\ IsSynced(founded, p)
                          THEN expected[p] ELSE Unknown]
    BY DEF PowerFailure, Die
  <1>2. PICK s \in {size, medium_size}, first \in FirstBlocks :
          /\ size' = s /\ medium_size' = s
          /\ bytes' = [b \in Blocks |-> IF b >= s THEN Zero
                                        ELSE IF b = 0 THEN first
                                        ELSE IF b \in unsynced THEN Garbage
                                        ELSE bytes[b]]
    BY DEF PowerFailure
  <1>3. s \in 0 .. MaxOff + 1 /\ s \in Nat
    BY Constants DEF DiskInv, FileInv, FileTypes
  <1>4. first \in BlockValues
    <2>1. bytes[0] \in BlockValues
      BY Constants DEF DiskInv, FileInv, FileTypes
    <2> QED
      BY <2>1 DEF FirstBlocks, BlockValues
  <1>5. FileInv'
    <2>1. \A b \in Blocks : b >= s => bytes'[b] = Zero
      BY <1>2
    <2>2. bytes' \in [Blocks -> BlockValues]
      <3>1. Zero \in BlockValues /\ Garbage \in BlockValues
        BY DEF BlockValues
      <3> QED
        BY <1>2, <1>4, <3>1 DEF DiskInv, FileInv, FileTypes
    <2> QED
      BY <1>1, <1>2, <1>3, <2>1, <2>2 DEF FileInv, FileTypes, TailIsZero, LackIsZero
  <1>6. /\ CallInv' /\ \A t \in Threads : pc'[t] = "idle"
    <2>1. \A t \in Threads : pc'[t] = "idle"
      BY <1>1
    <2> QED
      BY <2>1, NoCalls
  <1>7. TypeOK' /\ MoreTypes'
    <2>1. loc' \in [Threads -> Calls]
      BY <1>1, IdleIsCall
    <2>2. expected' \in [PageIds -> Images \cup {Zero, Unknown}]
      BY <1>1 DEF DiskInv, TypeOK
    <2>3. MoreTypes'
      BY <1>1, <2>1, Constants DEF MoreTypes
    <2>4. /\ size' \in 0 .. MaxOff + 1 /\ medium_size' \in 0 .. MaxOff + 1
          /\ unsynced' \subseteq Blocks
      BY <1>5 DEF FileInv, FileTypes
    <2> QED
      BY <1>1, <2>2, <2>3, <2>4 DEF DiskInv, TypeOK
  <1>8. StageInv'
    BY <1>1, <1>6 DEF StageInv
  <1>9. founded # NoOptions => bytes'[0] = bytes[0] /\ s > 0 /\ size > 0
    <2> SUFFICES ASSUME founded # NoOptions
                 PROVE  bytes'[0] = bytes[0] /\ s > 0 /\ size > 0
      OBVIOUS
    <2>1. 0 \notin unsynced /\ medium_size > 0 /\ size > 0
      BY DEF DiskInv, HeaderIsDurable, HasHeader
    <2>2. first = bytes[0] /\ s > 0
      BY <2>1, <1>2 DEF FirstBlocks
    <2> QED
      BY <2>1, <2>2, <1>2, <1>3, Constants
  <1>10. HeaderIsDurable'
    <2>1. founded # NoOptions => ValidOptions(founded)' /\ HasHeader(founded)'
      BY <1>1, <1>2, <1>9 DEF DiskInv, HeaderIsDurable, HasHeader, Header, ValidOptions, FileSizeOverflows
    <2> QED
      BY <1>1, <1>2, <1>9, <2>1 DEF HeaderIsDurable
  <1>11. PagesAreStored'
    <2>1. ASSUME NEW o \in Options, ValidOptions(o), HasHeader(o)', NEW p \in PageIds,
                 p < o.max_page_count, expected'[p] # Unknown, NEW i \in InPage
          PROVE  Stored(Offset(o, p) + i)' = PageBlocks(expected'[p])[i]
      <3> DEFINE b == Offset(o, p) + i
      <3>1. p \in Nat /\ i \in Nat /\ i < kPageSize
        BY Constants DEF PageIds, InPage
      <3>2. founded # NoOptions /\ IsSynced(founded, p) /\ expected'[p] = expected[p]
        BY <2>1, <1>1
      <3>3. /\ founded \in Options /\ ValidOptions(founded)
            /\ bytes[0] = Header(founded) /\ bytes[0] = Header(o)
        BY <2>1, <3>2, <1>9 DEF DiskInv, TypeOK, HeaderIsDurable, HasHeader, Header
      <3>4. /\ Offset(o, p) = Offset(founded, p) /\ p < founded.max_page_count
            /\ o.header_size = founded.header_size
        BY <2>1, <3>3, SameLayout
      <3>5. /\ b \in Nat /\ b >= founded.header_size /\ PageOf(founded, b) = p
            /\ founded.header_size \in Nat /\ founded.header_size >= kPageSize
        BY <3>1, <3>3, <3>4, PageOfBlock, ValidLayout
      <3>6. b \notin unsynced
        BY <3>2, <3>5 DEF IsSynced
      <3>7. b # 0
        BY <3>5, Constants
      <3>8. b \in Blocks => bytes'[b] = bytes[b]
        <4> HIDE DEF b
        <4>1. b \in Blocks /\ b < s => bytes'[b] = bytes[b]
          BY <1>2, <1>3, <3>5, <3>6, <3>7
        <4>2. b \in Blocks /\ b >= s => bytes'[b] = Zero /\ bytes[b] = Zero
          BY <1>2, <3>6 DEF DiskInv, FileInv, TailIsZero, LackIsZero
        <4> QED
          BY <4>1, <4>2, <1>3, <3>5
      <3>9. Stored(b)' = Stored(b)
        BY <3>5, <3>8, StoredKept
      <3>10. Stored(b) = PageBlocks(expected[p])[i]
        BY <2>1, <1>9, <3>2, <3>3 DEF DiskInv, PagesAreStored, HasHeader
      <3> QED
        BY <3>2, <3>9, <3>10
    <2> QED
      BY <2>1 DEF PagesAreStored, ValidOptions, FileSizeOverflows, Offset
  <1> QED
    BY <1>5, <1>6, <1>7, <1>8, <1>10, <1>11 DEF DiskInv

-----------------------------------------------------------------------------
(* ReadPage and WritePage.                                                 *)

\* A step of a call that leaves the file alone.
LEMMA FileLeftAlone ==
  ASSUME DiskInv, stage = "open",
         UNCHANGED <<file, options, stage, header_total, founded>>
  PROVE  FileInv' /\ StageInv' /\ HeaderIsDurable'
  <1>1. UNCHANGED <<bytes, size, unsynced, medium_size>>
    BY DEF file
  <1>2. FileInv'
    BY FileKept DEF DiskInv
  <1>3. StageInv'
    <2>1. ValidOptions(options)' /\ HasHeader(options)' /\ header_total' = 0
      BY <1>1, OpenOptions DEF DiskInv, StageInv, ValidOptions, FileSizeOverflows, HasHeader, Header
    <2> QED
      BY <2>1 DEF StageInv
  <1>4. HeaderIsDurable'
    BY <1>1 DEF DiskInv, HeaderIsDurable, HasHeader
  <1> QED
    BY <1>2, <1>3, <1>4

\* What the record of a call holds.
LEMMA CallFields ==
  ASSUME DiskInv, NEW t \in Threads
  PROVE  /\ loc[t] \in Calls
         /\ loc[t].page_id \in PageIds /\ loc[t].page_id \in Nat
         /\ loc[t].page \in [InPage -> BlockValues]
         /\ loc[t].image \in Images \cup {Zero, Unknown}
         /\ loc[t].total \in 0 .. kPageSize /\ loc[t].total \in Nat
         /\ pc[t] \in {"idle", "read", "write", "have read"}
  <1>1. loc[t] \in Calls /\ pc[t] \in {"idle", "read", "write", "have read"}
    BY DEF DiskInv, TypeOK, MoreTypes
  <1>2. /\ loc[t].page_id \in PageIds /\ loc[t].page \in [InPage -> BlockValues]
        /\ loc[t].image \in Images \cup {Zero, Unknown}
        /\ loc[t].total \in 0 .. kPageSize
    BY <1>1 DEF Calls
  <1>3. loc[t].page_id \in Nat /\ loc[t].total \in Nat
    BY <1>2, Constants DEF PageIds
  <1> QED
    BY <1>1, <1>2, <1>3

\* A call that a step leaves alone stays true, if the step leaves its page
\* and what is expected of it alone too.
LEMMA CallKept ==
  ASSUME NEW u \in Threads, CallIsTrue(u), options' = options,
         pc'[u] = pc[u], loc'[u] = loc[u],
         pc[u] # "idle" => expected'[loc[u].page_id] = expected[loc[u].page_id],
         pc[u] # "idle" /\ Alone(u) => Alone(u)',
         pc[u] = "write" /\ loc[u].image # Unknown /\ WrittenSoFar(loc[u]) =>
           WrittenSoFar(loc[u])'
  PROVE  CallIsTrue(u)'
  BY DEF CallIsTrue

\* A read begins on a page that nobody uses, with a page of zeros.
LEMMA BeginReadStep ==
  ASSUME DiskInv, NEW t \in Threads, NEW p \in PageIds,
         BeginRead(t, p)
  PROVE  DiskInv'
  <1> DEFINE new == [Idle EXCEPT !.page_id = p]
  <1>1. /\ pc' = [pc EXCEPT ![t] = "read"] /\ loc' = [loc EXCEPT ![t] = new]
        /\ pc[t] = "idle"
        /\ UNCHANGED <<file, options, stage, header_total, expected, founded>>
        /\ UNCHANGED <<bytes, size, unsynced, medium_size>>
        /\ \A u \in Threads : pc[u] # "idle" => loc[u].page_id # p
    BY DEF BeginRead, BeginCall, Users, file
  <1>2. /\ stage = "open"
        /\ p \in PageIds /\ p \in Nat /\ p < options.max_page_count
    <2>1. stage = "open" /\ p < options.max_page_count
      BY DEF BeginRead, BeginCall
    <2>2. p \in Nat
      BY Constants DEF PageIds
    <2> QED
      BY <2>1, <2>2
  <1>3. /\ new.page_id = p /\ new.page = PageBlocks(Zero) /\ new.total = 0
        /\ new \in Calls
    <2>1. PageBlocks(Zero) \in [InPage -> BlockValues]
      BY DEF PageBlocks, InPage, BlockValues
    <2> QED
      BY <1>2, <2>1, Constants DEF Idle, Calls
  <1> HIDE DEF new
  <1>4. FileInv' /\ StageInv' /\ HeaderIsDurable'
    BY <1>1, <1>2, FileLeftAlone
  <1>5. TypeOK' /\ MoreTypes'
    BY <1>1, <1>3 DEF DiskInv, TypeOK, MoreTypes
  <1>6. PagesAreStored'
    BY <1>1, PagesKept DEF DiskInv
  <1>7. /\ pc'[t] = "read" /\ loc'[t] = new
        /\ \A u \in Threads \ {t} : pc'[u] = pc[u] /\ loc'[u] = loc[u]
    BY <1>1 DEF DiskInv, TypeOK, MoreTypes
  <1>8. CallInv'
    <2>1. Alone(t)'
      BY <1>1, <1>3, <1>7 DEF Alone
    <2>2. ReadSoFar(new, expected'[p])
      <3>1. \A i \in InPage : new.page[i] = Zero /\ ~(i < new.total)
        BY <1>3 DEF PageBlocks, InPage
      <3> QED
        BY <3>1 DEF ReadSoFar
    <2>3. CallIsTrue(t)'
      BY <1>1, <1>2, <1>3, <1>7, <2>1, <2>2 DEF CallIsTrue
    <2>4. ASSUME NEW u \in Threads \ {t}
          PROVE  CallIsTrue(u)'
      <3>1. pc[u] # "idle" /\ Alone(u) => Alone(u)'
        BY <1>1, <1>3, <1>7 DEF Alone
      <3>2. WrittenSoFar(loc[u]) => WrittenSoFar(loc[u])'
        BY <1>1, <1>7 DEF WrittenSoFar, Stored, StoredIn, Offset
      <3> QED
        BY <1>1, <1>7, <3>1, <3>2, CallKept DEF DiskInv, CallInv
    <2> QED
      BY <2>3, <2>4 DEF CallInv
  <1> QED
    BY <1>4, <1>5, <1>6, <1>8 DEF DiskInv

\* A write begins on a page that is used by writers only.  If there are any,
\* nobody knows any more what the page will contain.
LEMMA BeginWriteStep ==
  ASSUME DiskInv, NEW t \in Threads, NEW p \in PageIds,
         NEW c \in Images, BeginWrite(t, p, c)
  PROVE  DiskInv'
  <1> DEFINE image == IF Users(p) = {} THEN c ELSE Unknown
             new == [Idle EXCEPT !.page_id = p, !.page = PageBlocks(c), !.image = image]
  <1>1. /\ pc' = [pc EXCEPT ![t] = "write"]
        /\ loc' = [u \in Threads |->
                     IF u = t THEN new
                     ELSE IF u \in Users(p) THEN [loc[u] EXCEPT !.image = Unknown]
                     ELSE loc[u]]
        /\ pc[t] = "idle"
        /\ expected' = [expected EXCEPT ![p] = Unknown]
        /\ UNCHANGED <<file, options, stage, header_total, founded>>
        /\ UNCHANGED <<bytes, size, unsynced, medium_size>>
        /\ \A u \in Users(p) : pc[u] = "write"
    BY DEF BeginWrite, BeginCall, file
  <1>2. /\ stage = "open"
        /\ p \in PageIds /\ p \in Nat /\ p < options.max_page_count
    <2>1. stage = "open" /\ p < options.max_page_count
      BY DEF BeginWrite, BeginCall
    <2>2. p \in Nat
      BY Constants DEF PageIds
    <2> QED
      BY <2>1, <2>2
  <1>3. /\ new.page_id = p /\ new.page = PageBlocks(c) /\ new.total = 0
        /\ new.image = image
        /\ new \in Calls
    <2>1. PageBlocks(c) \in [InPage -> BlockValues]
      BY DEF PageBlocks, InPage, BlockValues
    <2>2. image \in Images \cup {Zero, Unknown}
      OBVIOUS
    <2> HIDE DEF image
    <2>3. Idle \in Calls /\ Idle.total = 0
      BY IdleIsCall DEF Idle
    <2>4. new \in Calls
      BY <1>2, <2>1, <2>2, <2>3 DEF Calls
    <2>5. /\ new.page_id = p /\ new.page = PageBlocks(c) /\ new.image = image
          /\ new.total = Idle.total
      BY <2>3 DEF Calls
    <2> QED
      BY <2>3, <2>4, <2>5
  <1>4. image # Unknown => Users(p) = {}
    OBVIOUS
  <1> HIDE DEF new, image
  <1>5. /\ pc'[t] = "write" /\ loc'[t] = new
        /\ \A u \in Threads \ {t} :
             /\ pc'[u] = pc[u]
             /\ u \notin Users(p) => loc'[u] = loc[u]
             /\ u \in Users(p) => /\ loc'[u] \in Calls
                                  /\ loc'[u].page_id = loc[u].page_id
                                  /\ loc'[u].image = Unknown
    <2>1. ASSUME NEW u \in Threads
          PROVE  LET r == [loc[u] EXCEPT !.image = Unknown]
                 IN  r \in Calls /\ r.page_id = loc[u].page_id /\ r.image = Unknown
      BY DEF DiskInv, MoreTypes, Calls
    <2> QED
      BY <1>1, <2>1 DEF DiskInv, TypeOK, MoreTypes
  <1>6. /\ expected'[p] = Unknown
        /\ \A q \in PageIds : q # p => expected'[q] = expected[q]
        /\ expected' \in [PageIds -> Images \cup {Zero, Unknown}]
    BY <1>1, <1>2 DEF DiskInv, TypeOK
  <1>7. FileInv' /\ StageInv' /\ HeaderIsDurable'
    BY <1>1, <1>2, FileLeftAlone
  <1>8. TypeOK' /\ MoreTypes'
    <2>1. loc' \in [Threads -> Calls]
      BY <1>1, <1>3, <1>5 DEF DiskInv, MoreTypes
    <2> QED
      BY <1>1, <1>6, <2>1 DEF DiskInv, TypeOK, MoreTypes
  <1>9. PagesAreStored'
    BY <1>1, <1>6 DEF DiskInv, PagesAreStored, HasHeader, Stored, StoredIn
  <1>10. \A u \in Threads \ {t} : loc'[u].page_id = loc[u].page_id
    BY <1>5
  <1>11. CallIsTrue(t)'
    <2>1. image # Unknown => Alone(t)'
      BY <1>3, <1>4, <1>5, <1>10 DEF Alone, Users
    <2>2. image # Unknown => new.page = PageBlocks(image)
      BY <1>3 DEF image
    <2>3. WrittenSoFar(loc[t])'
      BY <1>3, <1>5 DEF WrittenSoFar
    <2> QED
      BY <1>1, <1>2, <1>3, <1>5, <1>6, <2>1, <2>2, <2>3 DEF CallIsTrue
  <1>12. ASSUME NEW u \in Threads \ {t}, u \in Users(p)
         PROVE  CallIsTrue(u)'
    <2>1. pc'[u] = "write" /\ loc'[u].page_id = p /\ loc'[u].image = Unknown
      BY <1>1, <1>5, <1>12 DEF Users
    <2> QED
      BY <1>1, <1>2, <1>6, <2>1 DEF CallIsTrue
  <1>13. ASSUME NEW u \in Threads \ {t}, u \notin Users(p)
         PROVE  CallIsTrue(u)'
    <2>1. pc'[u] = pc[u] /\ loc'[u] = loc[u] /\ (pc[u] # "idle" => loc[u].page_id # p)
      BY <1>5, <1>13 DEF Users
    <2>2. pc[u] # "idle" /\ Alone(u) => Alone(u)'
      BY <1>3, <1>5, <1>10, <2>1 DEF Alone
    <2>3. WrittenSoFar(loc[u]) => WrittenSoFar(loc[u])'
      BY <1>1, <2>1 DEF WrittenSoFar, Stored, StoredIn, Offset
    <2>4. pc[u] # "idle" => expected'[loc[u].page_id] = expected[loc[u].page_id]
      BY <1>6, <2>1, CallFields
    <2>5. CallIsTrue(u)
      BY DEF DiskInv, CallInv
    <2> QED
      BY <1>1, <2>1, <2>2, <2>3, <2>4, <2>5, CallKept
  <1>14. CallInv'
    BY <1>11, <1>12, <1>13 DEF CallInv
  <1> QED
    BY <1>7, <1>8, <1>9, <1>14 DEF DiskInv

\* A call that ends tells nobody anything: a page whose write failed stays
\* unknown.
LEMMA EndCallStep ==
  ASSUME DiskInv, NEW t \in Threads, EndCall(t)
  PROVE  DiskInv'
  <1>1. /\ pc' = [pc EXCEPT ![t] = "idle"] /\ loc' = [loc EXCEPT ![t] = Idle]
        /\ pc[t] # "idle"
        /\ UNCHANGED <<file, options, stage, header_total, expected, founded>>
        /\ UNCHANGED <<bytes, size, unsynced, medium_size>>
    BY DEF EndCall, file
  <1>2. stage = "open"
    BY <1>1 DEF DiskInv, StageInv
  <1>3. FileInv' /\ StageInv' /\ HeaderIsDurable'
    BY <1>1, <1>2, FileLeftAlone
  <1>4. TypeOK' /\ MoreTypes'
    BY <1>1, IdleIsCall DEF DiskInv, TypeOK, MoreTypes
  <1>5. PagesAreStored'
    BY <1>1, PagesKept DEF DiskInv
  <1>6. /\ pc'[t] = "idle"
        /\ \A u \in Threads \ {t} : pc'[u] = pc[u] /\ loc'[u] = loc[u]
    BY <1>1 DEF DiskInv, TypeOK, MoreTypes
  <1>7. ASSUME NEW u \in Threads \ {t}
        PROVE  CallIsTrue(u)'
    <2>1. Alone(u) => Alone(u)'
      BY <1>6 DEF Alone
    <2>2. WrittenSoFar(loc[u]) => WrittenSoFar(loc[u])'
      BY <1>1, <1>6 DEF WrittenSoFar, Stored, StoredIn, Offset
    <2> QED
      BY <1>1, <1>6, <2>1, <2>2, CallKept DEF DiskInv, CallInv
  <1>8. CallInv'
    BY <1>6, <1>7 DEF CallInv, CallIsTrue
  <1> QED
    BY <1>3, <1>4, <1>5, <1>8 DEF DiskInv

\* Where the system calls of a call go.
LEMMA CallOffset ==
  ASSUME DiskInv, NEW t \in Threads, pc[t] # "idle", OffsetIsValid(t)
  PROVE  /\ stage = "open" /\ options \in Options /\ ValidOptions(options)
         /\ loc[t].page_id < options.max_page_count
         /\ Offset(options, loc[t].page_id) \in Nat
         /\ Offset(options, loc[t].page_id) >= kPageSize
         /\ CurrentOffset(t) = Offset(options, loc[t].page_id) + loc[t].total
         /\ CurrentOffset(t) \in Nat
  <1> DEFINE p == loc[t].page_id
             off == Offset(options, p)
  <1>1. stage = "open"
    BY DEF DiskInv, StageInv
  <1>2. options \in Options /\ ValidOptions(options)
    BY <1>1, OpenOptions
  <1>3. p \in Nat /\ p < options.max_page_count /\ loc[t].total \in Nat
    BY CallFields DEF DiskInv, CallInv, CallIsTrue
  <1>4. OffsetForPage(p) = off /\ off \in Nat /\ off >= kPageSize
    BY <1>2, <1>3, OffsetIsExact, PageLayout
  <1>5. off + loc[t].total \in 0 .. MaxUint64
    <2>1. ~(off > MaxUint64 - loc[t].total)
      BY <1>4 DEF OffsetIsValid, AddOverflows
    <2> HIDE DEF off
    <2> QED
      BY <1>3, <1>4, <2>1, Constants
  <1>6. CurrentOffset(t) = off + loc[t].total
    <2>1. U64(off + loc[t].total) = off + loc[t].total
      BY <1>5, Fits
    <2> QED
      BY <1>4, <2>1, Zenon DEF CurrentOffset
  <1> QED
    BY <1>1, <1>2, <1>3, <1>4, <1>5, <1>6

\* A pwrite of a call changes blocks of its page only, and stores there what
\* the call has to write.
LEMMA PageWritten ==
  ASSUME DiskInv, NEW t \in Threads, pc[t] = "write", OffsetIsValid(t),
         NEW n \in Remaining(t), CurrentOffset(t) + n - 1 <= MaxOff,
         Pwrite(loc[t].page, loc[t].total, n, CurrentOffset(t)),
         UNCHANGED <<options, founded>>
  PROVE  /\ FileInv' /\ bytes'[0] = bytes[0] /\ size' >= size /\ size' \in Nat
         /\ HeaderIsDurable'
         /\ \A q \in Nat, i \in InPage :
              q < options.max_page_count /\ q # loc[t].page_id =>
                StoredIn(bytes', Offset(options, q) + i) = Stored(Offset(options, q) + i)
         /\ \A i \in 0 .. loc[t].total - 1 :
              StoredIn(bytes', Offset(options, loc[t].page_id) + i) =
                Stored(Offset(options, loc[t].page_id) + i)
         /\ \A i \in loc[t].total .. loc[t].total + n - 1 :
              StoredIn(bytes', Offset(options, loc[t].page_id) + i) = loc[t].page[i]
         /\ n \in Nat \ {0} /\ loc[t].total + n <= kPageSize
  <1> DEFINE p == loc[t].page_id
             k == loc[t].total
             off == Offset(options, p)
             pos == CurrentOffset(t)
  <1>1. /\ options \in Options /\ ValidOptions(options)
        /\ p < options.max_page_count /\ p \in Nat /\ k \in Nat
        /\ off \in Nat /\ off >= kPageSize /\ pos = off + k /\ pos \in Nat
        /\ loc[t].page \in [InPage -> BlockValues]
    BY CallOffset, CallFields
  <1>2. n \in Nat \ {0} /\ k + n <= kPageSize
    BY <1>1, Constants DEF Remaining
  <1>3. /\ FileInv'
        /\ \A b \in Blocks : (b < pos \/ b >= pos + n) => bytes'[b] = bytes[b]
        /\ \A i \in k .. k + n - 1 :
             pos + (i - k) \in Blocks /\ bytes'[pos + (i - k)] = loc[t].page[i]
        /\ size' >= size
        /\ unsynced' = unsynced \cup (pos .. pos + n - 1)
        /\ medium_size' = medium_size
    <2>1. FileInv
      BY DEF DiskInv
    <2> QED
      BY <1>1, <1>2, <2>1, PwriteEffect
  <1>4. size \in Nat /\ size' \in Nat
    BY <1>3, Constants DEF DiskInv, FileInv, FileTypes
  <1> HIDE DEF p, k, off, pos
  <1>5. bytes'[0] = bytes[0] /\ 0 \notin pos .. pos + n - 1
    BY <1>1, <1>2, <1>3, Constants
  <1>6. HeaderIsDurable'
    <2>1. founded # NoOptions => ValidOptions(founded)' /\ HasHeader(founded)'
      BY <1>3, <1>4, <1>5 DEF DiskInv, HeaderIsDurable, HasHeader, Header, ValidOptions, FileSizeOverflows
    <2> QED
      BY <1>3, <1>5, <2>1 DEF DiskInv, HeaderIsDurable
  <1>7. ASSUME NEW q \in Nat, NEW i \in InPage, q < options.max_page_count, q # p
        PROVE  StoredIn(bytes', Offset(options, q) + i) = Stored(Offset(options, q) + i)
    <2> DEFINE b == Offset(options, q) + i
    <2>1. b \in Nat
      BY <1>1, <1>7, PageOfBlock
    <2>2. \A j \in InPage : off + j # b
      BY <1>1, <1>7, PagesDisjoint DEF off
    <2>4. b < pos \/ b >= pos + n
      <3> HIDE DEF b
      <3>1. ASSUME b >= pos, b < pos + n PROVE FALSE
        <4>1. b - off \in InPage /\ off + (b - off) = b
          BY <3>1, <1>1, <1>2, <2>1, Constants DEF InPage
        <4> QED
          BY <4>1, <2>2
      <3> QED
        BY <3>1, <1>1, <1>2, <2>1
    <2> QED
      BY <1>3, <2>1, <2>4 DEF Stored, StoredIn
  <1>8. ASSUME NEW i \in 0 .. k - 1
        PROVE  StoredIn(bytes', off + i) = Stored(off + i)
    BY <1>1, <1>2, <1>3 DEF Stored, StoredIn
  <1>9. ASSUME NEW i \in k .. k + n - 1
        PROVE  StoredIn(bytes', off + i) = loc[t].page[i]
    <2>1. pos + (i - k) = off + i
      BY <1>1, <1>2
    <2> QED
      BY <1>3, <2>1 DEF StoredIn
  <1> QED
    BY <1>2, <1>3, <1>4, <1>5, <1>6, <1>7, <1>8, <1>9 DEF p, k, off

\* A pwrite disturbs no other page and no call on another page; the last one
\* makes the content of its page known, unless another writer was there.
LEMMA WritePageStep ==
  ASSUME DiskInv, NEW t \in Threads, WritePage(t)
  PROVE  DiskInv'
  <1> DEFINE p == loc[t].page_id
             k == loc[t].total
  <1>1. /\ pc[t] = "write" /\ OffsetIsValid(t)
        /\ UNCHANGED <<options, stage, header_total, founded>>
    BY DEF WritePage
  <1>2. PICK n \in Remaining(t) :
          /\ CurrentOffset(t) + n - 1 <= MaxOff
          /\ Pwrite(loc[t].page, k, n, CurrentOffset(t))
          /\ \/ /\ k + n = kPageSize
                /\ pc' = [pc EXCEPT ![t] = "idle"]
                /\ loc' = [loc EXCEPT ![t] = Idle]
                /\ expected' = [expected EXCEPT ![p] = loc[t].image]
             \/ /\ k + n < kPageSize
                /\ loc' = [loc EXCEPT ![t].total = @ + n]
                /\ UNCHANGED <<pc, expected>>
    BY DEF WritePage
  <1>3. /\ FileInv' /\ bytes'[0] = bytes[0] /\ size' >= size /\ size' \in Nat
        /\ HeaderIsDurable'
        /\ \A q \in Nat, i \in InPage : q < options.max_page_count /\ q # p =>
             StoredIn(bytes', Offset(options, q) + i) = Stored(Offset(options, q) + i)
        /\ \A i \in 0 .. k - 1 :
             StoredIn(bytes', Offset(options, p) + i) = Stored(Offset(options, p) + i)
        /\ \A i \in k .. k + n - 1 :
             StoredIn(bytes', Offset(options, p) + i) = loc[t].page[i]
        /\ n \in Nat \ {0} /\ k + n <= kPageSize
    BY <1>1, <1>2, PageWritten
  <1>4. /\ stage = "open" /\ options \in Options /\ ValidOptions(options)
        /\ p < options.max_page_count /\ p \in PageIds /\ p \in Nat /\ k \in Nat
        /\ loc[t] \in Calls
        /\ loc[t].image \in Images \cup {Zero, Unknown}
    BY <1>1, CallOffset, CallFields
  <1>5. /\ expected[p] = Unknown
        /\ \/ loc[t].image = Unknown
           \/ /\ Alone(t) /\ loc[t].page = PageBlocks(loc[t].image)
              /\ \A i \in 0 .. k - 1 : Stored(Offset(options, p) + i) = loc[t].page[i]
    BY <1>1 DEF DiskInv, CallInv, CallIsTrue, WrittenSoFar
  <1> DEFINE longer == [loc[t] EXCEPT !.total = k + n]
  <1>6. /\ longer \in Calls /\ longer.page_id = p /\ longer.page = loc[t].page
        /\ longer.image = loc[t].image /\ longer.total = k + n
    <2>1. k + n \in 0 .. kPageSize
      BY <1>3, <1>4, Constants
    <2> QED
      BY <1>4, <2>1 DEF Calls
  <1> HIDE DEF longer
  <1>7. /\ \A u \in Threads \ {t} : pc'[u] = pc[u] /\ loc'[u] = loc[u]
        /\ \/ pc'[t] = "idle" /\ k + n = kPageSize
           \/ pc'[t] = pc[t] /\ loc'[t] = longer /\ k + n < kPageSize
        /\ pc' \in [Threads -> {"idle", "read", "write", "have read"}]
        /\ loc' \in [Threads -> Calls]
    <2>1. /\ pc \in [Threads -> {"idle", "read", "write", "have read"}]
          /\ loc \in [Threads -> Calls]
      BY DEF DiskInv, TypeOK, MoreTypes
    <2>2. CASE /\ k + n = kPageSize
               /\ pc' = [pc EXCEPT ![t] = "idle"] /\ loc' = [loc EXCEPT ![t] = Idle]
      BY <2>1, <2>2, IdleIsCall
    <2>3. CASE k + n < kPageSize /\ loc' = [loc EXCEPT ![t] = longer] /\ UNCHANGED pc
      BY <1>6, <2>1, <2>3
    <2> QED
      BY <1>2, <2>2, <2>3 DEF longer
  <1>8. /\ expected' \in [PageIds -> Images \cup {Zero, Unknown}]
        /\ \A q \in PageIds : q # p => expected'[q] = expected[q]
        /\ expected'[p] # Unknown =>
             expected'[p] = loc[t].image /\ loc[t].image # Unknown /\ k + n = kPageSize
    <2>1. expected \in [PageIds -> Images \cup {Zero, Unknown}]
      BY DEF DiskInv, TypeOK
    <2>2. CASE expected' = [expected EXCEPT ![p] = loc[t].image] /\ k + n = kPageSize
      BY <1>4, <2>1, <2>2
    <2>3. CASE UNCHANGED expected
      BY <1>5, <2>1, <2>3
    <2> QED
      BY <1>2, <2>2, <2>3
  <1>9. TypeOK' /\ MoreTypes'
    <2>1. /\ size' \in 0 .. MaxOff + 1 /\ medium_size' \in 0 .. MaxOff + 1
          /\ unsynced' \subseteq Blocks
      BY <1>3 DEF FileInv, FileTypes
    <2> QED
      BY <1>1, <1>7, <1>8, <2>1 DEF DiskInv, TypeOK, MoreTypes
  <1>10. size > 0 /\ size' > 0 /\ bytes[0] = Header(options) /\ size \in Nat
    BY <1>3, <1>4, Constants DEF DiskInv, StageInv, HasHeader, FileInv, FileTypes
  <1>11. StageInv'
    <2>1. ValidOptions(options)' /\ HasHeader(options)' /\ header_total' = 0
      BY <1>1, <1>3, <1>4, <1>10
      DEF DiskInv, StageInv, ValidOptions, FileSizeOverflows, HasHeader, Header
    <2> QED
      BY <1>1, <1>4, <2>1 DEF StageInv
  <1>12. \A i \in 0 .. k + n - 1 :
           loc[t].image # Unknown =>
             StoredIn(bytes', Offset(options, p) + i) = loc[t].page[i]
    <2> TAKE i \in 0 .. k + n - 1
    <2>1. i \in 0 .. k - 1 \/ i \in k .. k + n - 1
      BY <1>3, <1>4
    <2> QED
      BY <1>3, <1>5, <2>1
  <1>13. PagesAreStored'
    <2>1. ASSUME NEW o \in Options, ValidOptions(o), HasHeader(o)', NEW q \in PageIds,
                 q < o.max_page_count, expected'[q] # Unknown, NEW i \in InPage
          PROVE  Stored(Offset(o, q) + i)' = PageBlocks(expected'[q])[i]
      <3>1. bytes[0] = Header(o)
        BY <2>1, <1>3 DEF HasHeader, Header
      <3>2. Offset(o, q) = Offset(options, q) /\ q < options.max_page_count /\ q \in Nat
        <4>1. Header(o) = Header(options)
          BY <3>1, <1>10
        <4>2. \A x : Offset(o, x) = Offset(options, x)
          BY <4>1, <1>4, SameLayout
        <4>3. o.max_page_count = options.max_page_count
          BY <4>1, <1>4, SameLayout
        <4>4. q \in Nat
          BY Constants DEF PageIds
        <4> QED
          BY <2>1, <4>2, <4>3, <4>4
      <3>3. Stored(Offset(o, q) + i)' = StoredIn(bytes', Offset(options, q) + i)
        BY <3>2 DEF Stored
      <3>4. CASE q # p
        <4>1. StoredIn(bytes', Offset(options, q) + i) = Stored(Offset(options, q) + i)
          BY <1>3, <3>2, <3>4
        <4>2. Stored(Offset(o, q) + i) = PageBlocks(expected[q])[i]
          BY <2>1, <1>8, <1>10, <3>1, <3>4 DEF DiskInv, PagesAreStored, HasHeader
        <4> QED
          BY <1>8, <3>2, <3>3, <3>4, <4>1, <4>2
      <3>5. CASE q = p
        <4>1. /\ expected'[p] = loc[t].image /\ loc[t].image # Unknown
              /\ k + n = kPageSize
          BY <2>1, <1>8, <3>5
        <4>2. i \in 0 .. k + n - 1
          BY <1>3, <1>4, <4>1, Constants DEF InPage
        <4>3. loc[t].page = PageBlocks(loc[t].image)
          BY <1>5, <4>1
        <4> QED
          BY <1>12, <3>3, <3>5, <4>1, <4>2, <4>3
      <3> QED
        BY <3>4, <3>5
    <2> QED
      BY <2>1 DEF PagesAreStored, ValidOptions, FileSizeOverflows, Offset
  <1>14. CallIsTrue(t)'
    <2>1. CASE pc'[t] = "idle"
      BY <2>1 DEF CallIsTrue
    <2>2. CASE pc'[t] = pc[t] /\ loc'[t] = longer /\ k + n < kPageSize
      <3>1. expected'[p] = Unknown
        BY <1>3, <1>4, <1>8, <2>2, Constants
      <3>2. Alone(t) => Alone(t)'
        BY <1>6, <1>7, <2>2 DEF Alone
      <3>3. loc[t].image # Unknown => WrittenSoFar(loc[t])'
        <4>1. loc'[t].total = k + n /\ loc'[t].page_id = p /\ loc'[t].page = loc[t].page
          BY <1>6, <2>2
        <4>2. loc[t].image # Unknown =>
                \A i \in 0 .. loc'[t].total - 1 :
                  StoredIn(bytes', Offset(options', loc'[t].page_id) + i) = loc'[t].page[i]
          <5> SUFFICES ASSUME loc[t].image # Unknown, NEW i \in 0 .. loc'[t].total - 1
                       PROVE  StoredIn(bytes', Offset(options', loc'[t].page_id) + i)
                                = loc'[t].page[i]
            OBVIOUS
          <5>1. i \in 0 .. k + n - 1
            BY <1>3, <1>4, <4>1
          <5>2. StoredIn(bytes', Offset(options, p) + i) = loc[t].page[i]
            BY <1>12, <5>1
          <5> QED
            BY <1>1, <4>1, <5>2
        <4> QED
          BY <4>2 DEF WrittenSoFar, Stored, Offset
      <3> QED
        BY <1>1, <1>4, <1>5, <1>6, <2>2, <3>1, <3>2, <3>3 DEF CallIsTrue
    <2> QED
      BY <1>7, <2>1, <2>2
  <1>15. ASSUME NEW u \in Threads \ {t}
         PROVE  CallIsTrue(u)'
    <2>1. CallIsTrue(u) /\ loc[u].page_id \in PageIds /\ loc[u].page_id \in Nat
      BY CallFields DEF DiskInv, CallInv
    <2>2. pc'[u] = pc[u] /\ loc'[u] = loc[u]
      BY <1>7
    <2>3. pc[u] # "idle" => expected'[loc[u].page_id] = expected[loc[u].page_id]
      <3>1. CASE pc[u] # "idle" /\ loc[u].page_id = p
        <4>1. ~Alone(t)
          BY <3>1, <1>15 DEF Alone
        <4>2. expected'[p] = Unknown
          BY <1>5, <1>8, <4>1
        <4> QED
          BY <3>1, <4>2, <1>5
      <3> QED
        BY <1>8, <2>1, <3>1
    <2>4. pc[u] # "idle" /\ Alone(u) => Alone(u)'
      <3>1. pc'[t] # "idle" => loc'[t].page_id = loc[t].page_id /\ pc[t] # "idle"
        BY <1>1, <1>6, <1>7
      <3> QED
        BY <2>2, <1>7, <3>1 DEF Alone
    <2>5. pc[u] = "write" /\ loc[u].image # Unknown /\ WrittenSoFar(loc[u]) =>
            WrittenSoFar(loc[u])'
      <3> SUFFICES ASSUME pc[u] = "write", loc[u].image # Unknown, WrittenSoFar(loc[u])
                   PROVE  WrittenSoFar(loc[u])'
        OBVIOUS
      <3>1. Alone(u) /\ loc[u].page_id < options.max_page_count
        BY <2>1 DEF CallIsTrue
      <3>2. loc[u].page_id # p
        BY <3>1, <1>1, <1>15 DEF Alone
      <3>3. \A i \in 0 .. loc[u].total - 1 : i \in InPage
        <4>1. loc[u].total \in 0 .. kPageSize
          BY CallFields
        <4> QED
          BY <4>1, Constants DEF InPage
      <3>4. \A i \in 0 .. loc[u].total - 1 :
              StoredIn(bytes', Offset(options, loc[u].page_id) + i)
                = Stored(Offset(options, loc[u].page_id) + i)
        BY <1>3, <2>1, <3>1, <3>2, <3>3
      <3> QED
        BY <1>1, <2>2, <3>4 DEF WrittenSoFar, Stored, Offset
    <2> QED
      BY <1>1, <2>1, <2>2, <2>3, <2>4, <2>5, CallKept
  <1>16. CallInv'
    BY <1>14, <1>15 DEF CallInv
  <1> QED
    BY <1>3, <1>9, <1>11, <1>13, <1>16 DEF DiskInv

\* What a step of a read leaves: the file, and every other call.
LEMMA ReadKeeps ==
  ASSUME DiskInv, NEW t \in Threads, pc[t] = "read",
         UNCHANGED <<file, options, stage, header_total, expected, founded>>,
         pc' \in [Threads -> {"idle", "read", "write", "have read"}],
         loc' \in [Threads -> Calls],
         \A u \in Threads \ {t} : pc'[u] = pc[u] /\ loc'[u] = loc[u],
         loc'[t].page_id = loc[t].page_id, pc'[t] \in {"read", "have read"},
         expected[loc[t].page_id] # Unknown =>
           /\ pc'[t] = "read" => ReadSoFar(loc'[t], expected[loc[t].page_id])
           /\ pc'[t] = "have read" => loc'[t].page = PageBlocks(expected[loc[t].page_id])
  PROVE  DiskInv'
  <1>1. stage = "open" /\ UNCHANGED <<bytes, size, unsynced, medium_size>>
    BY DEF DiskInv, StageInv, file
  <1>2. FileInv' /\ StageInv' /\ HeaderIsDurable'
    BY <1>1, FileLeftAlone
  <1>3. TypeOK' /\ MoreTypes'
    BY <1>1 DEF DiskInv, TypeOK, MoreTypes
  <1>4. PagesAreStored'
    BY <1>1, PagesKept DEF DiskInv
  <1>5. \A u \in Threads : Alone(u) => Alone(u)'
    <2>1. \A v \in Threads : /\ loc'[v].page_id = loc[v].page_id
                             /\ pc'[v] # "idle" => pc[v] # "idle"
      OBVIOUS
    <2> QED
      BY <2>1 DEF Alone
  <1>6. CallIsTrue(t)'
    <2>1. Alone(t) /\ loc[t].page_id < options.max_page_count
      BY DEF DiskInv, CallInv, CallIsTrue
    <2> QED
      BY <1>5, <2>1 DEF CallIsTrue
  <1>7. ASSUME NEW u \in Threads \ {t}
        PROVE  CallIsTrue(u)'
    <2>1. WrittenSoFar(loc[u]) => WrittenSoFar(loc[u])'
      BY <1>1 DEF WrittenSoFar, Stored, StoredIn, Offset
    <2> QED
      BY <1>5, <2>1, CallKept DEF DiskInv, CallInv
  <1>8. CallInv'
    BY <1>6, <1>7 DEF CallInv
  <1> QED
    BY <1>2, <1>3, <1>4, <1>8 DEF DiskInv

\* A pread returns the blocks of the page; at the end of the file the rest of
\* the page is the zeros that were there.
LEMMA ReadPageStep ==
  ASSUME DiskInv, NEW t \in Threads, ReadPage(t)
  PROVE  DiskInv'
  <1> DEFINE p == loc[t].page_id
             k == loc[t].total
             e == expected[p]
             off == Offset(options, p)
  <1>1. /\ pc[t] = "read" /\ OffsetIsValid(t)
        /\ UNCHANGED <<file, options, stage, header_total, expected, founded>>
    BY DEF ReadPage
  <1>2. /\ stage = "open" /\ options \in Options /\ ValidOptions(options)
        /\ p < options.max_page_count /\ p \in PageIds /\ p \in Nat /\ k \in Nat
        /\ k <= kPageSize
        /\ off \in Nat /\ CurrentOffset(t) = off + k
        /\ loc[t] \in Calls /\ loc[t].page \in [InPage -> BlockValues]
    <2>1. loc[t].total \in 0 .. kPageSize
      BY CallFields
    <2> QED
      <3>1. k \in Nat /\ k <= kPageSize
        BY <2>1, Constants
      <3>2. pc[t] # "idle"
        BY <1>1
      <3>3. /\ p \in PageIds /\ p \in Nat /\ loc[t] \in Calls
            /\ loc[t].page \in [InPage -> BlockValues]
        BY CallFields
      <3>4. /\ stage = "open" /\ options \in Options /\ ValidOptions(options)
            /\ p < options.max_page_count
            /\ off \in Nat /\ CurrentOffset(t) = off + k
        BY <1>1, <3>2, CallOffset
      <3> QED
        BY <3>1, <3>3, <3>4
  <1>3. e # Unknown => ReadSoFar(loc[t], e)
    BY <1>1 DEF DiskInv, CallInv, CallIsTrue
  <1>4. e # Unknown => \A i \in InPage : Stored(off + i) = PageBlocks(e)[i]
    BY <1>2 DEF DiskInv, PagesAreStored, StageInv
  <1>5. /\ pc \in [Threads -> {"idle", "read", "write", "have read"}]
        /\ loc \in [Threads -> Calls]
    BY DEF DiskInv, TypeOK, MoreTypes
  <1>6. /\ size \in Nat /\ size <= MaxOff + 1 /\ Blocks = 0 .. MaxOff
        /\ bytes \in [Blocks -> BlockValues]
        /\ \A b \in Blocks : b >= size => bytes[b] = Zero
    BY Constants DEF DiskInv, FileInv, FileTypes, TailIsZero, Blocks
  <1>7. DOMAIN PageBlocks(e) = InPage /\ PageBlocks(e) = [i \in InPage |-> PageBlocks(e)[i]]
    BY DEF PageBlocks, InPage
  <1> HIDE DEF off
  <1>8. ASSUME NEW n \in Remaining(t), off + k + n <= size,
               loc' = [loc EXCEPT
                         ![t].page = [i \in 0 .. kPageSize - 1 |->
                            IF i \in k .. k + n - 1
                            THEN bytes[CurrentOffset(t) + i - k]
                            ELSE loc[t].page[i]],
                         ![t].total = @ + n],
               pc' = IF k + n = kPageSize
                     THEN [pc EXCEPT ![t] = "have read"] ELSE pc
        PROVE  DiskInv'
    <2> DEFINE pg == [i \in InPage |-> IF i \in k .. k + n - 1
                                       THEN bytes[CurrentOffset(t) + i - k]
                                       ELSE loc[t].page[i]]
               new == [loc[t] EXCEPT !.page = pg, !.total = k + n]
    <2>1. loc' = [loc EXCEPT ![t] = new]
      BY <1>5, <1>8 DEF InPage
    <2>2. n \in Nat \ {0} /\ k + n <= kPageSize
      BY <1>2, Constants DEF Remaining
    <2>3. ASSUME NEW i \in InPage
          PROVE  /\ i \in k .. k + n - 1 => /\ off + i \in Blocks
                                            /\ pg[i] = bytes[off + i]
                 /\ i \notin k .. k + n - 1 => pg[i] = loc[t].page[i]
      <3>1. i \in k .. k + n - 1 => off + i \in Blocks /\ CurrentOffset(t) + i - k = off + i
        <4>1. /\ off \in Nat /\ k \in Nat /\ size \in Nat /\ MaxOff \in Nat /\ i \in Nat
              /\ size <= MaxOff + 1 /\ n \in Nat /\ Blocks = 0 .. MaxOff
          BY <1>2, <1>6, <2>2, Constants DEF InPage
        <4>2. CurrentOffset(t) = off + k
          BY <1>2
        <4>3. off + k + n <= size
          BY <1>8
        <4> HIDE DEF k
        <4> QED
          BY <4>1, <4>2, <4>3
      <3> QED
        BY <3>1
    <2>4. pg \in [InPage -> BlockValues]
      <3>1. \A i \in InPage : pg[i] \in BlockValues
        BY <1>2, <1>6, <2>3
      <3> QED
        BY <3>1
    <2> HIDE DEF pg
    <2>5. new \in Calls /\ new.page_id = p /\ new.page = pg /\ new.total = k + n
      <3>1. k + n \in 0 .. kPageSize
        BY <1>2, <2>2, Constants
      <3> QED
        BY <1>2, <2>4, <3>1 DEF Calls
    <2> HIDE DEF new
    <2>6. /\ loc' \in [Threads -> Calls] /\ loc'[t] = new
          /\ \A u \in Threads \ {t} : loc'[u] = loc[u]
      BY <1>5, <2>1, <2>5
    <2>7. /\ pc' \in [Threads -> {"idle", "read", "write", "have read"}]
          /\ pc'[t] = IF k + n = kPageSize THEN "have read" ELSE "read"
          /\ \A u \in Threads \ {t} : pc'[u] = pc[u]
      BY <1>1, <1>5, <1>8
    <2>8. ASSUME e # Unknown, NEW i \in InPage
          PROVE  pg[i] = IF i < k + n THEN PageBlocks(e)[i] ELSE Zero
      <3>1. loc[t].page[i] = IF i < k THEN PageBlocks(e)[i] ELSE Zero
        BY <1>3, <2>8 DEF ReadSoFar
      <3>2. i \in k .. k + n - 1 => pg[i] = PageBlocks(e)[i]
        BY <1>4, <2>3, <2>8 DEF Stored, StoredIn
      <3>3. i \in Nat
        BY DEF InPage
      <3> QED
        BY <1>2, <2>2, <2>3, <3>1, <3>2, <3>3
    <2>9. e # Unknown => ReadSoFar(new, e)
      BY <2>5, <2>8 DEF ReadSoFar
    <2>10. e # Unknown /\ k + n = kPageSize => pg = PageBlocks(e)
      <3>1. ASSUME e # Unknown, k + n = kPageSize, NEW i \in InPage
            PROVE  pg[i] = PageBlocks(e)[i]
        <4>1. i < k + n
          BY <3>1, <1>2, Constants DEF InPage
        <4> QED
          BY <3>1, <4>1, <2>8
      <3> QED
        BY <3>1, <2>4, <1>7
    <2> QED
      BY <1>1, <2>5, <2>6, <2>7, <2>9, <2>10, ReadKeeps
  <1>9. ASSUME off + k >= size, pc' = [pc EXCEPT ![t] = "have read"], UNCHANGED loc
        PROVE  DiskInv'
    <2>1. ASSUME e # Unknown, NEW i \in InPage
          PROVE  loc[t].page[i] = PageBlocks(e)[i]
      <3>1. loc[t].page[i] = IF i < k THEN PageBlocks(e)[i] ELSE Zero
        BY <1>3, <2>1 DEF ReadSoFar
      <3>2. i \in Nat /\ (i >= k => off + i >= size)
        <4>1. i \in Nat /\ off \in Nat /\ k \in Nat /\ size \in Nat
          BY <1>2, <1>6 DEF InPage
        <4>2. off + k >= size
          BY <1>9
        <4> HIDE DEF k
        <4> QED
          BY <4>1, <4>2
      <3>3. i >= k => Stored(off + i) = Zero
        BY <1>6, <3>2 DEF Stored, StoredIn
      <3> QED
        BY <1>2, <1>4, <2>1, <3>1, <3>2, <3>3
    <2>2. e # Unknown => loc[t].page = PageBlocks(e)
      BY <1>2, <1>7, <2>1
    <2>3. /\ pc' \in [Threads -> {"idle", "read", "write", "have read"}]
          /\ pc'[t] = "have read"
          /\ \A u \in Threads \ {t} : pc'[u] = pc[u] /\ loc'[u] = loc[u]
          /\ loc' \in [Threads -> Calls] /\ loc'[t] = loc[t]
      BY <1>5, <1>9
    <2> QED
      BY <1>1, <2>2, <2>3, ReadKeeps
  <1> QED
    BY <1>2, <1>8, <1>9 DEF ReadPage

-----------------------------------------------------------------------------
(* The theorems.                                                           *)

\* A missing or foreign file: nothing is known and nobody has it open.
LEMMA DiskInit == Init => DiskInv
  <1> SUFFICES ASSUME Init PROVE DiskInv
    OBVIOUS
  <1>1. PICK s \in {0, 1} :
          /\ size = s /\ medium_size = s
          /\ bytes = [b \in Blocks |-> IF b < s THEN Garbage ELSE Zero]
    BY DEF Init
  <1>2. /\ unsynced = {} /\ options = NoOptions /\ stage = "closed"
        /\ header_total = 0 /\ pc = [t \in Threads |-> "idle"]
        /\ loc = [t \in Threads |-> Idle]
        /\ expected = [p \in PageIds |-> Unknown] /\ founded = NoOptions
    BY DEF Init
  <1>3. FileInv
    <2>1. Zero \in BlockValues /\ Garbage \in BlockValues
      BY DEF BlockValues
    <2>2. bytes \in [Blocks -> BlockValues]
      BY <1>1, <2>1
    <2>3. \A b \in Blocks : b >= s => bytes[b] = Zero
      BY <1>1 DEF Blocks
    <2>4. s \in 0 .. MaxOff + 1
      BY Constants
    <2> QED
      BY <1>1, <1>2, <2>2, <2>3, <2>4 DEF FileInv, FileTypes, TailIsZero, LackIsZero
  <1>4. TypeOK
    <2>1. /\ size \in 0 .. MaxOff + 1 /\ medium_size \in 0 .. MaxOff + 1
          /\ unsynced \subseteq Blocks
      BY <1>3 DEF FileInv, FileTypes
    <2> QED
      BY <1>2, <2>1 DEF TypeOK
  <1>5. MoreTypes
    BY <1>2, IdleIsCall, Constants DEF MoreTypes
  <1>6. StageInv
    BY <1>2 DEF StageInv
  <1>7. HeaderIsDurable /\ CallInv /\ PagesAreStored
    BY <1>2 DEF HeaderIsDurable, CallInv, CallIsTrue, PagesAreStored
  <1> QED
    BY <1>3, <1>4, <1>5, <1>6, <1>7 DEF DiskInv

\* A step that changes nothing.
LEMMA DiskStutter ==
  ASSUME DiskInv, UNCHANGED vars
  PROVE  DiskInv'
  <1>1. /\ UNCHANGED <<bytes, size, unsynced, medium_size, options, stage>>
        /\ UNCHANGED <<header_total, pc, loc, expected, founded>>
        /\ UNCHANGED file
    BY DEF vars, file
  <1>2. FileInv' /\ PagesAreStored'
    BY <1>1, FileKept, PagesKept DEF DiskInv
  <1>3. TypeOK' /\ MoreTypes'
    BY <1>1 DEF DiskInv, TypeOK, MoreTypes
  <1>4. StageInv' /\ HeaderIsDurable'
    BY <1>1 DEF DiskInv, StageInv, HeaderIsDurable, HasHeader, Header, ValidOptions,
                FileSizeOverflows
  <1>5. CallInv'
    BY <1>1 DEF DiskInv, CallInv, CallIsTrue, Alone, WrittenSoFar, Stored, StoredIn, Offset
  <1> QED
    BY <1>2, <1>3, <1>4, <1>5 DEF DiskInv

\* Every step keeps the invariant.
LEMMA DiskNext == DiskInv /\ [Next]_vars => DiskInv'
  <1> SUFFICES ASSUME DiskInv, [Next]_vars PROVE DiskInv'
    OBVIOUS
  <1>1. CASE \E o \in Options : OpenFile(o)
    BY <1>1, OpenFileStep
  <1>2. CASE WriteFreshHeader
    BY <1>2, WriteFreshHeaderStep
  <1>3. CASE ValidateExistingHeader
    BY <1>3, ValidateStep
  <1>4. CASE PreallocateFile
    BY <1>4, PreallocateStep
  <1>5. CASE ConstructorThrows \/ Close \/ Crash
    BY <1>5, CloseStep
  <1>6. ASSUME NEW t \in Threads, NEW p \in PageIds,
               BeginRead(t, p) \/ \E c \in Images : BeginWrite(t, p, c)
        PROVE  DiskInv'
    BY <1>6, BeginReadStep, BeginWriteStep
  <1>7. ASSUME NEW t \in Threads, WritePage(t) \/ ReadPage(t) \/ EndCall(t)
        PROVE  DiskInv'
    BY <1>7, WritePageStep, ReadPageStep, EndCallStep
  <1>8. CASE Sync
    BY <1>8, SyncStep
  <1>9. CASE PowerFailure
    BY <1>9, PowerFailureStep
  <1>10. CASE UNCHANGED vars
    BY <1>10, DiskStutter
  <1> QED
    BY <1>1, <1>2, <1>3, <1>4, <1>5, <1>6, <1>7, <1>8, <1>9, <1>10 DEF Next

\* The inductive invariant of the disk manager holds in every state.
THEOREM DiskInvariance == Spec => []DiskInv
  BY DiskInit, DiskNext, PTL DEF Spec

\* The fields keep their types and the file never grows past what off_t can
\* express, whatever is opened, written, preallocated or lost.
THEOREM DiskTypes == Spec => []TypeOK
  <1>1. DiskInv => TypeOK
    BY DEF DiskInv
  <1> QED
    BY <1>1, DiskInvariance, PTL

\* ReadPage always returns what the last WritePage of the page stored, with
\* any number of threads in any interleaving of their preads and pwrites, and
\* across reopening and crashes, unless the page is uncertain.
THEOREM ReadsAlwaysReturnLastWrite == Spec => []ReadReturnsLastWrite
  <1>1. DiskInv => ReadReturnsLastWrite
    BY DEF DiskInv, CallInv, CallIsTrue, ReadReturnsLastWrite
  <1> QED
    BY <1>1, DiskInvariance, PTL

\* A file that was synced can always be opened again with its options: its
\* header survives page writes, preallocation, crashes and power failures.
THEOREM SyncedFileAlwaysOpens == Spec => []SyncedFileOpens
  <1>1. DiskInv => SyncedFileOpens
    BY DEF DiskInv, HeaderIsDurable, HasHeader, SyncedFileOpens
  <1> QED
    BY <1>1, DiskInvariance, PTL

\* A constructor that finds another program's file, or one of another layout,
\* never changes it.
THEOREM RejectedFileNeverTouched == Spec => RejectedFileIsUntouched
  <1>1. DiskInv /\ [Next]_vars =>
          [/\ stage = "opened"
           /\ ~options.truncate_existing
           /\ size > 0 /\ bytes[0] # Header(options)
           /\ ~PowerFailure
           => UNCHANGED <<bytes, size>>]_vars
    <2> SUFFICES ASSUME DiskInv, Next, stage = "opened",
                        ~options.truncate_existing, size > 0, ~PowerFailure
                 PROVE  UNCHANGED <<bytes, size>>
      OBVIOUS
    <2>1. \A t \in Threads : pc[t] = "idle"
      BY DEF DiskInv, StageInv
    <2>2. size # 0
      BY Constants DEF DiskInv, FileInv, FileTypes
    <2>3. ~WriteFreshHeader
      BY <2>2 DEF WriteFreshHeader, IsFresh
    <2>4. \A t \in Threads : ~WritePage(t) /\ ~ReadPage(t) /\ ~EndCall(t)
      BY <2>1 DEF WritePage, ReadPage, EndCall
    <2>5. ~Sync /\ ~Close /\ ~PreallocateFile /\ \A o \in Options : ~OpenFile(o)
      BY DEF Sync, Close, PreallocateFile, OpenFile
    <2>6. \A t \in Threads, p \in PageIds :
            ~BeginRead(t, p) /\ \A c \in Images : ~BeginWrite(t, p, c)
      BY DEF BeginRead, BeginWrite, BeginCall
    <2>7. ValidateExistingHeader \/ ConstructorThrows \/ Crash
      BY <2>3, <2>4, <2>5, <2>6 DEF Next
    <2> QED
      BY <2>7 DEF ValidateExistingHeader, ConstructorThrows, Crash, file
  <1> QED
    BY <1>1, DiskInvariance, PTL DEF Spec, RejectedFileIsUntouched
=============================================================================
