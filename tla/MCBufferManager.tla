--------------------------- MODULE MCBufferManager ---------------------------
(* Small instances of BufferManager for TLC.                               *)
EXTENDS BufferManagerClients, TLC

CONSTANTS t1, t2, t3, p1, p2, p3, f1, f2

\* Threads, pages and frames are interchangeable: no definition names one.
Symmetric == Permutations({t1, t2}) \cup Permutations({p1, p2})
MoreFrames == Symmetric \cup Permutations({f1, f2})
MorePages == MoreFrames \cup Permutations({p1, p2, p3})
=============================================================================
