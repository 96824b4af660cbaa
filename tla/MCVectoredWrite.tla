-------------------------- MODULE MCVectoredWrite --------------------------
(* Every list of up to five slices (one more than a writev takes) of up to *)
(* two bytes each.                                                         *)
EXTENDS VectoredWrite

CONSTANTS MaxSlices, MaxLen

Lists == UNION {[1 .. k -> 0 .. MaxLen] : k \in 0 .. MaxSlices}

Sums == [l \in Lists |->
           LET at[i \in 1 .. Len(l) + 1] == IF i = 1 THEN 0 ELSE at[i - 1] + l[i - 1]
           IN  at]

SliceLists == {Sums[l] : l \in Lists}
=============================================================================
