----------------------------- MODULE MCScanner -----------------------------
(***************************************************************************)
(* Scanner on small instances.  The word is wide enough not to wrap; the   *)
(* three loan amounts of MaxLoan = 2 are 2, 1                              *)
(* and 0, so that every path through the loop over them is taken.          *)
(***************************************************************************)
EXTENDS Scanner, TLC

CONSTANTS a, b, t1, t2, t3

MCTokens == {a, b}
MCSlots == {1, 2, 4}
MCTaskIds == {t1, t2, t3}
MCSellOutputs == {3, 5}

(* For liveness: one token, two slots that are not duplicates.             *)
MCLiveTokens == {a}
MCLiveSlots == {1, 3}
MCLiveTaskIds == {t1, t2}

Interchangeable == Permutations(MCTokens) \cup Permutations(MCTaskIds)

=============================================================================
