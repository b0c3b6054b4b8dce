--------------------------- MODULE MCDiskManager ---------------------------
(* A small instance of DiskManager for TLC.                                *)
EXTENDS DiskManager, TLC

CONSTANTS t1, t2

Opts(max_page_count, header_size, truncate_existing, preallocate) ==
  [max_page_count |-> max_page_count, header_size |-> header_size,
   truncate_existing |-> truncate_existing, preallocate |-> preallocate]

\* A layout of two pages, opened in three ways; one whose last page off_t
\* cannot reach, and one that is too long for off_t to be preallocated; two
\* that overflow uint64_t; and one whose header_size is no multiple of
\* kPageSize.
OptionSet ==
  {Opts(2, 2, FALSE, FALSE), Opts(2, 2, TRUE, FALSE), Opts(2, 2, FALSE, TRUE),
   Opts(2, 6, FALSE, FALSE), Opts(6, 2, FALSE, TRUE), Opts(7, 2, FALSE, TRUE),
   Opts(8, 2, FALSE, TRUE), Opts(2, 3, FALSE, FALSE)}

Symmetric == Permutations({t1, t2})
=============================================================================
