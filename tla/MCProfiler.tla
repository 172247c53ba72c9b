------------------------------ MODULE MCProfiler ----------------------------
(* Seven kernels, of two grids.  Wrap and Long are in proportion 2^32 and   *)
(* 2^64 scaled down: 18 is beyond what an int holds and 45 beyond an        *)
(* unsigned, which leaves 13 of it.                                         *)
EXTENDS Profiler

MCKernels == {
    [id |-> 1, x |-> 1, start |-> 1, end |-> 6],    \* overlaps the next three,
    [id |-> 2, x |-> 2, start |-> 2, end |-> 8],    \* two of which start at once;
    [id |-> 3, x |-> 2, start |-> 2, end |-> 3],    \* the longest ends as
    [id |-> 4, x |-> 1, start |-> 4, end |-> 5],
    [id |-> 5, x |-> 2, start |-> 8, end |-> 18],   \* this one begins
    [id |-> 6, x |-> 2, start |-> 20, end |-> 21],
    [id |-> 7, x |-> 1, start |-> 45, end |-> 46]}

=============================================================================
