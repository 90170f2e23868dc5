---------------------------- MODULE RangePlanner ----------------------------
(***************************************************************************)
(* How the validity proposer plans its range proofs: the pure functions of *)
(* validity/src/utils.rs and `highest_contiguous_end` of proposer.rs.      *)
(*                                                                         *)
(* A range <<a, b>> stands for the half-open range of blocks (a, b]: its   *)
(* proof starts from the state after block a and proves blocks a+1 .. b.   *)
(* The planner works on sets of ranges: its vectors are sorted by start,   *)
(* and what it does with two ranges of the same start is the same as for   *)
(* one.                                                                    *)
(***************************************************************************)
EXTENDS Integers, Sequences, FiniteSetsExt

Start(r) == r[1]
End(r) == r[2]
MaxOf(a, b) == IF a >= b THEN a ELSE b
MinOf(a, b) == IF a <= b THEN a ELSE b

NonEmpty(r) == Start(r) < End(r)

(* Merge the overlapping or touching ranges: a group opens at a start that *)
(* all the ranges with a lower start end below.                            *)
merge_ranges(ranges) ==
    LET opens == {s \in {Start(r) : r \in ranges} :
                    \A r \in ranges : Start(r) < s => End(r) < s}
        Group(s) == {r \in ranges : Start(r) >= s /\ \A o \in opens : o > s => Start(r) < o}
    IN  {<<s, Max({End(r) : r \in Group(s)})>> : s \in opens}

(* The parts of (overallStart, overallEnd] that the ranges leave uncovered;*)
(* the running maximum never moves backward.                               *)
find_gaps(overallStart, overallEnd, ranges) ==
    LET covered(S) == Max({overallStart} \cup {End(r) : r \in S})
        candidates == {<<covered({q \in ranges : Start(q) < Start(r)}), Start(r)>> : r \in ranges}
                        \cup {<<covered(ranges), overallEnd>>}
    IN  merge_ranges({gap \in candidates : NonEmpty(gap)})

(* The pieces of at most `interval` blocks that one gap is cut into.       *)
CutByBlocks(gap, interval) ==
    {<<a, MinOf(a + interval, End(gap))>> :
        a \in {b \in Start(gap) .. End(gap) - 1 : (b - Start(gap)) % interval = 0}}

(* Block-based planning: the last piece of all is dropped when it is short.*)
get_ranges_to_prove_by_blocks(gaps, interval) ==
    LET ranges == UNION {CutByBlocks(gap, interval) : gap \in gaps}
    IN  {r \in ranges : \/ End(r) - Start(r) >= interval
                        \/ \E q \in ranges : Start(q) > Start(r)}

(* One gap cut where the next block would exceed the gas limit or, when    *)
(* `interval` is positive, the number of blocks. scan[b] is the beginning  *)
(* of the piece that block b belongs to, and its gas up to there.          *)
CutByGas(gap, gasLimit, interval, gasUsed) ==
    LET blocks == Start(gap) .. End(gap)
        scan[b \in blocks] ==
            IF b = Start(gap) THEN [start |-> b, gas |-> 0]
            ELSE LET at == scan[b - 1]
                 IN  IF \/ at.gas > 0 /\ at.gas + gasUsed[b] > gasLimit
                        \/ interval > 0 /\ b - at.start > interval
                     THEN [start |-> b - 1, gas |-> gasUsed[b]]
                     ELSE [at EXCEPT !.gas = @ + gasUsed[b]]
    IN  {r \in blocks \X blocks : /\ Start(r) = scan[End(r)].start
                                  /\ End(r) = End(gap) \/ scan[End(r) + 1].start = End(r)}

(* Gas-based planning: every block of every gap ends up in a piece. (The   *)
(* guards against missing block data are errors of the caller's fetch.)    *)
get_ranges_to_prove_by_gas(gaps, gasLimit, interval, gasUsed) ==
    LET ranges == UNION {CutByGas(gap, gasLimit, interval, gasUsed) : gap \in gaps}
    IN  {r \in ranges : NonEmpty(r)}

(* The outcome of `highest_contiguous_end`: the end of the chain of sorted *)
(* completed ranges that begins at `expected` (which is `expected` itself  *)
(* where the code answers None), and an error unless the chain ends at the *)
(* last range or before a gap, that is at an overlap or an empty range.    *)
highest_contiguous_end(expected, completed) ==
    LET EndOf(k) == IF k = 0 THEN expected ELSE End(completed[k])
        chain == Max({k \in 0 .. Len(completed) : \A n \in 1 .. k :
                            Start(completed[n]) = EndOf(n - 1) /\ NonEmpty(completed[n])})
    IN  [ok |-> chain < Len(completed) => Start(completed[chain + 1]) > EndOf(chain),
         end |-> EndOf(chain)]
=============================================================================
