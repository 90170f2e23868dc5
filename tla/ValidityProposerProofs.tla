----------------------- MODULE ValidityProposerProofs -----------------------
(***************************************************************************)
(* Proofs about the validity proposer, for every deployment, any number of *)
(* blocks, requests, failures, reorganisations and restarts.               *)
(***************************************************************************)
EXTENDS ValidityProposer, NaturalSets, FiniteSetTheorems, FunctionTheorems

LEMMA MaxIn ==
    ASSUME NEW n \in Nat, NEW S \in SUBSET (0 .. n), S # {}
    PROVE  Max(S) \in S /\ \A y \in S : y <= Max(S)
<1>1. PICK x \in S : \A y \in S : y <= x
  BY GreatestExists
<1>2. \A y \in S : x >= y
  BY <1>1
<1>3. Max(S) \in S /\ \A y \in S : Max(S) >= y
  BY <1>1, <1>2, Zenon DEF Max
<1> QED
  BY <1>3
-----------------------------------------------------------------------------
(* Tables.                                                                 *)

Block == 0 .. MaxBlock

Statuses == ActiveStatuses \union {"Relayed", "Failed", "Cancelled", "Invalidated"}

Row == [type : {"Range", "Aggregation"}, start : Block, end : Block, status : Statuses,
        invalid : BOOLEAN, head : (0 .. MaxL1) \X Nat, checkpoint : Nat \X Nat]

(* A withdrawn request is in somebody's hands or finished.                 *)
TableOK(t) ==
    /\ IsFiniteSet(DOMAIN t) /\ DOMAIN t \subseteq Nat /\ t \in [DOMAIN t -> Row]
    /\ \A i \in DOMAIN t : t[i].invalid => t[i].status \in InFlight \union {"Invalidated"}

Live(r) == r.status \in ActiveStatuses /\ ~r.invalid

(* The canonical L1 chain.                                                 *)
Chain == {Canonical(n) : n \in Nat}

(* What may become of a row in one step, other than being deleted.         *)
Fate(r, q) ==
    /\ q.head = r.head \/ q.head \in Chain
    /\ q.type = r.type /\ q.start = r.start /\ q.end = r.end /\ q.checkpoint = r.checkpoint
    /\ Live(q) => Live(r)
    /\ r.invalid => q.invalid
    /\ q.invalid => q.status \in InFlight \union {"Invalidated"}
    /\ r.invalid /\ r.status = "Invalidated" => q = r

(* A completed range stays one.                                            *)
Kept(r, q) == r.type = "Range" /\ r.status = "Complete" /\ ~r.invalid => q = r

Deletable == {"Unrequested", "Execution", "WitnessGeneration"}

NewRange(r) ==
    r.type = "Range" /\ r.status = "Unrequested" /\ ~r.invalid /\ r.head = NoBlock

(* A change of the table that withdraws no completed range and adds no     *)
(* aggregation.                                                            *)
Tame(t, u) ==
    /\ TableOK(u)
    /\ \A i \in DOMAIN t \intersect DOMAIN u : Fate(t[i], u[i]) /\ Kept(t[i], u[i])
    /\ \A i \in DOMAIN t \ DOMAIN u : t[i].status \in Deletable
    /\ \A i \in DOMAIN u \ DOMAIN t : NewRange(u[i])

LEMMA RowStays ==
    ASSUME NEW r \in Row, r.invalid => r.status \in InFlight \union {"Invalidated"}
    PROVE  Fate(r, r) /\ Kept(r, r)
BY DEF Fate, Kept, Row

LEMMA TableStays == ASSUME NEW t, TableOK(t) PROVE Tame(t, t)
<1>1. \A i \in DOMAIN t : t[i] \in Row
  BY DEF TableOK
<1> QED
  BY <1>1, RowStays DEF Tame, TableOK

(* One row changes.                                                        *)
LEMMA RowChanges ==
    ASSUME NEW t, TableOK(t), NEW i \in DOMAIN t, NEW q \in Row, Fate(t[i], q), Kept(t[i], q)
    PROVE  /\ Tame(t, [t EXCEPT ![i] = q])
           /\ DOMAIN [t EXCEPT ![i] = q] = DOMAIN t
           /\ \A j \in DOMAIN t : [t EXCEPT ![i] = q][j] = IF j = i THEN q ELSE t[j]
<1>0. t \in [DOMAIN t -> Row]
  BY DEF TableOK
<1> DEFINE u == [t EXCEPT ![i] = q]
<1>1. DOMAIN u = DOMAIN t /\ \A j \in DOMAIN t : u[j] = IF j = i THEN q ELSE t[j]
  BY <1>0
<1>2. u \in [DOMAIN u -> Row]
  BY <1>0
<1> HIDE DEF u
<1>3. \A j \in DOMAIN u : u[j].invalid => u[j].status \in InFlight \union {"Invalidated"}
  BY <1>1 DEF TableOK, Fate
<1>4. TableOK(u)
  BY <1>1, <1>2, <1>3 DEF TableOK
<1>5. ASSUME NEW j \in DOMAIN t PROVE Fate(t[j], u[j]) /\ Kept(t[j], u[j])
  <2>1. t[j] \in Row /\ (t[j].invalid => t[j].status \in InFlight \union {"Invalidated"})
    BY DEF TableOK
  <2> QED
    BY <1>1, <2>1, RowStays
<1>6. Tame(t, u)
  BY <1>1, <1>4, <1>5 DEF Tame
<1> QED
  BY <1>1, <1>6 DEF u

(* The status of a row changes.                                            *)
LEMMA StatusChanges ==
    ASSUME NEW t, TableOK(t), NEW i \in DOMAIN t, NEW s \in Statuses,
           t[i].invalid => s \in InFlight \union {"Invalidated"},
           t[i].invalid /\ t[i].status = "Invalidated" => s = "Invalidated",
           s \in ActiveStatuses => t[i].status \in ActiveStatuses \/ t[i].invalid,
           t[i].type = "Range" /\ t[i].status = "Complete" /\ ~t[i].invalid => s = "Complete"
    PROVE  /\ Tame(t, update_request_status(t, i, s))
           /\ DOMAIN update_request_status(t, i, s) = DOMAIN t
           /\ \A j \in DOMAIN t : update_request_status(t, i, s)[j]
                                    = IF j = i THEN [t[i] EXCEPT !.status = s] ELSE t[j]
<1>0. t \in [DOMAIN t -> Row] /\ t[i] \in Row
  BY DEF TableOK
<1> DEFINE q == [t[i] EXCEPT !.status = s]
<1>1. update_request_status(t, i, s) = [t EXCEPT ![i] = q]
  BY DEF update_request_status
<1>2. /\ q \in Row /\ q.status = s /\ q.type = t[i].type /\ q.start = t[i].start
      /\ q.end = t[i].end /\ q.invalid = t[i].invalid /\ q.head = t[i].head
      /\ q.checkpoint = t[i].checkpoint
      /\ s = t[i].status => q = t[i]
  BY <1>0 DEF Row
<1>3. q = [t[i] EXCEPT !.status = s]
  OBVIOUS
<1> HIDE DEF q
<1>4. Fate(t[i], q)
  <2>1. t[i].invalid \in BOOLEAN
    BY <1>0 DEF Row
  <2> QED
    BY <1>2, <2>1 DEF Fate, Live
<1>5. Kept(t[i], q)
  BY <1>2 DEF Kept
<1>6. /\ Tame(t, [t EXCEPT ![i] = q])
      /\ DOMAIN [t EXCEPT ![i] = q] = DOMAIN t
      /\ \A j \in DOMAIN t : [t EXCEPT ![i] = q][j] = IF j = i THEN q ELSE t[j]
  BY <1>2, <1>4, <1>5, RowChanges
<1> QED
  BY <1>1, <1>3, <1>6, Zenon

(* There is room for new ids below the number of old and new rows.         *)
LEMMA IdsExist ==
    ASSUME NEW D, NEW R, IsFiniteSet(D), IsFiniteSet(R)
    PROVE  \E f \in [R -> (1 .. Cardinality(D) + Cardinality(R)) \ D] : IsInjective(f)
<1>1. PICK d \in Nat, m \in Nat : d = Cardinality(D) /\ m = Cardinality(R)
  BY FS_CardinalityType
<1> DEFINE fresh == (1 .. d + m) \ D
<1>2. IsFiniteSet(1 .. d + m) /\ Cardinality(1 .. d + m) = d + m
  <2>1. 1 \in Int /\ d + m \in Int /\ (1 > d + m => d + m = 0) /\ (d + m) - 1 + 1 = d + m
    OBVIOUS
  <2> QED
    BY <2>1, FS_Interval
<1>3. /\ IsFiniteSet(fresh)
      /\ Cardinality(fresh) = (d + m) - Cardinality((1 .. d + m) \intersect D)
  BY <1>2, FS_Difference
<1>4. Cardinality((1 .. d + m) \intersect D) \in Nat /\ Cardinality((1 .. d + m) \intersect D) <= d
  <2>1. (1 .. d + m) \intersect D \in SUBSET D
    OBVIOUS
  <2> QED
    BY <1>1, <2>1, FS_Subset, FS_CardinalityType
<1>5. PICK k \in Nat : k = Cardinality(fresh) /\ m <= k
  BY <1>3, <1>4
<1> HIDE DEF fresh
<1>6. PICK g \in Bijection(1 .. m, R) : TRUE
  BY <1>1, FS_CardinalityType, Fun_ExistsBij
<1>7. PICK h \in Bijection(1 .. k, fresh) : TRUE
  BY <1>3, <1>5, FS_CardinalityType, Fun_ExistsBij
<1>8. /\ g \in [1 .. m -> R] /\ \A r \in R : \E n \in 1 .. m : g[n] = r
      /\ h \in [1 .. k -> fresh] /\ \A a, b \in 1 .. k : h[a] = h[b] => a = b
  BY <1>6, <1>7, Fun_BijectionProperties
<1> DEFINE pos(r) == CHOOSE n \in 1 .. m : g[n] = r
           f == [r \in R |-> h[pos(r)]]
<1>9. \A r \in R : pos(r) \in 1 .. m /\ g[pos(r)] = r
  BY <1>8
<1> HIDE DEF pos
<1>10. \A r \in R : pos(r) \in 1 .. k
  BY <1>5, <1>9
<1>11. f \in [R -> fresh]
  BY <1>8, <1>10
<1>12. ASSUME NEW r \in R, NEW q \in R, f[r] = f[q] PROVE r = q
  <2>1. pos(r) = pos(q)
    BY <1>8, <1>10, <1>12
  <2> QED
    BY <1>9, <2>1
<1>13. IsInjective(f)
  BY <1>12 DEF IsInjective
<1> QED
  BY <1>1, <1>11, <1>13 DEF fresh

(* New ranges change no row that is there.                                 *)
LEMMA RangesInserted ==
    ASSUME NEW t, TableOK(t), NEW ranges \in SUBSET (Block \X Block)
    PROVE  LET u == insert_requests(t, ranges) IN
           /\ Tame(t, u) /\ DOMAIN t \subseteq DOMAIN u
           /\ \A i \in DOMAIN t : u[i] = t[i]
           /\ \A i \in DOMAIN u \ DOMAIN t : NewRange(u[i])
<1> DEFINE fresh == (1 .. Cardinality(DOMAIN t) + Cardinality(ranges)) \ DOMAIN t
           id == CHOOSE f \in [ranges -> fresh] : IsInjective(f)
           At(i) == CHOOSE r \in ranges : id[r] = i
           ids == {id[r] : r \in ranges}
           u == [i \in DOMAIN t \union ids |->
                   IF i \in DOMAIN t THEN t[i] ELSE new_range_request(Start(At(i)), End(At(i)))]
<1>1. insert_requests(t, ranges) = u
  BY DEF insert_requests
<1>2. t \in [DOMAIN t -> Row] /\ IsFiniteSet(DOMAIN t) /\ DOMAIN t \subseteq Nat
  BY DEF TableOK
<1>3. IsFiniteSet(ids) /\ ids \subseteq Nat
  <2>1. IsFiniteSet(Block)
    <3>1. 0 \in Int /\ MaxBlock \in Int
      BY ValidityAssumption
    <3> QED
      BY <3>1, FS_Interval DEF Block
  <2>2. IsFiniteSet(ranges)
    BY <2>1, FS_Product, FS_Subset
  <2>4. id \in [ranges -> fresh]
    <3>1. \E f \in [ranges -> fresh] : IsInjective(f)
      BY <1>2, <2>2, IdsExist
    <3> HIDE DEF fresh
    <3> QED
      BY <3>1
  <2>5. fresh \subseteq Nat
    <3>1. Cardinality(DOMAIN t) \in Nat /\ Cardinality(ranges) \in Nat
      BY <1>2, <2>2, FS_CardinalityType
    <3> QED
      BY <3>1
  <2>6. ids \subseteq Nat
    <3> HIDE DEF id, fresh
    <3> QED
      BY <2>4, <2>5
  <2> DEFINE f == [r \in ranges |-> id[r]]
  <2>3. f \in Surjection(ranges, ids)
    <3> HIDE DEF id
    <3> QED
      BY DEF Surjection
  <2> QED
    BY <2>2, <2>3, <2>6, FS_Surjection
<1>4. ASSUME NEW i \in ids PROVE At(i) \in ranges
  <2> HIDE DEF id
  <2> QED
    OBVIOUS
<1> HIDE DEF id, At
<1>5. ASSUME NEW i \in ids
      PROVE  /\ new_range_request(Start(At(i)), End(At(i))) \in Row
             /\ NewRange(new_range_request(Start(At(i)), End(At(i))))
  <2>1. Start(At(i)) \in Block /\ End(At(i)) \in Block
    BY <1>4 DEF Start, End
  <2>2. 0 \in 0 .. MaxL1
    BY ValidityAssumption
  <2> QED
    BY <2>1, <2>2 DEF new_range_request, NewRange, Row, Statuses, ActiveStatuses, NoBlock
<1>6. DOMAIN u = DOMAIN t \union ids /\ IsFiniteSet(DOMAIN u) /\ DOMAIN u \subseteq Nat
  BY <1>2, <1>3, FS_Union
<1>7. \A i \in DOMAIN t : u[i] = t[i]
  OBVIOUS
<1>8. \A i \in DOMAIN u \ DOMAIN t : u[i] \in Row /\ NewRange(u[i])
  BY <1>5
<1>9. u \in [DOMAIN u -> Row]
  BY <1>2, <1>6, <1>7, <1>8
<1> HIDE DEF u, ids
<1>10. TableOK(u)
  BY <1>6, <1>7, <1>8, <1>9 DEF TableOK, NewRange
<1>11. \A i \in DOMAIN t : Fate(t[i], u[i]) /\ Kept(t[i], u[i])
  BY <1>2, <1>7, RowStays DEF TableOK
<1>12. Tame(t, u)
  BY <1>6, <1>8, <1>10, <1>11 DEF Tame
<1> QED
  BY <1>1, <1>6, <1>7, <1>8, <1>12

(* The id of a new row is not in use.                                      *)
LEMMA UnusedIsNew ==
    ASSUME NEW t, IsFiniteSet(DOMAIN t)
    PROVE  Unused(t) \notin DOMAIN t /\ Unused(t) \in Nat
<1>1. PICK n \in Nat : n = Cardinality(DOMAIN t)
  BY FS_CardinalityType
<1>2. IsFiniteSet(1 .. n + 1) /\ Cardinality(1 .. n + 1) = n + 1
  <2>1. 1 \in Int /\ n + 1 \in Int /\ ~(1 > n + 1) /\ (n + 1) - 1 + 1 = n + 1
    OBVIOUS
  <2> QED
    BY <2>1, FS_Interval
<1>3. ~(1 .. n + 1 \subseteq DOMAIN t)
  <2> SUFFICES ASSUME 1 .. n + 1 \subseteq DOMAIN t PROVE FALSE
    OBVIOUS
  <2>1. Cardinality(1 .. n + 1) <= Cardinality(DOMAIN t)
    BY FS_Subset
  <2> QED
    BY <1>1, <1>2, <2>1
<1>4. \E i \in 1 .. Cardinality(DOMAIN t) + 1 : i \notin DOMAIN t
  BY <1>1, <1>3
<1>5. Unused(t) \notin DOMAIN t /\ Unused(t) \in 1 .. n + 1
  BY <1>1, <1>4, Zenon DEF Unused
<1> QED
  BY <1>5

(* A new request gets a row of its own.                                    *)
LEMMA RequestInserted ==
    ASSUME NEW t, TableOK(t), NEW row \in Row, ~row.invalid
    PROVE  LET u == insert_request(t, row) IN
           /\ TableOK(u) /\ Unused(t) \notin DOMAIN t
           /\ DOMAIN u = DOMAIN t \union {Unused(t)}
           /\ u[Unused(t)] = row /\ \A i \in DOMAIN t : u[i] = t[i]
<1> DEFINE n == Unused(t)
           u == [i \in DOMAIN t \union {n} |-> IF i \in DOMAIN t THEN t[i] ELSE row]
<1>1. insert_request(t, row) = u
  BY DEF insert_request
<1>2. t \in [DOMAIN t -> Row] /\ IsFiniteSet(DOMAIN t) /\ DOMAIN t \subseteq Nat
  BY DEF TableOK
<1>3. n \notin DOMAIN t /\ n \in Nat
  BY <1>2, UnusedIsNew
<1> HIDE DEF n
<1>4. /\ DOMAIN u = DOMAIN t \union {n} /\ u[n] = row
      /\ \A i \in DOMAIN t : u[i] = t[i]
      /\ u \in [DOMAIN u -> Row]
  BY <1>2, <1>3
<1>5. IsFiniteSet(DOMAIN u) /\ DOMAIN u \subseteq Nat
  BY <1>2, <1>3, <1>4, FS_AddElement
<1> HIDE DEF u
<1>6. TableOK(u)
  BY <1>4, <1>5 DEF TableOK
<1> QED
  BY <1>1, <1>3, <1>4, <1>6 DEF n
-----------------------------------------------------------------------------
(* The plan consists of ranges of blocks.                                  *)

LEMMA MaxIsBlock == ASSUME NEW S \in SUBSET Block, S # {} PROVE Max(S) \in Block
BY MaxIn, ValidityAssumption DEF Block

LEMMA MergedAreRanges ==
    ASSUME NEW ranges \in SUBSET (Block \X Block)
    PROVE  merge_ranges(ranges) \in SUBSET (Block \X Block)
<1> DEFINE opens == {s \in {Start(r) : r \in ranges} :
                       \A r \in ranges : Start(r) < s => End(r) < s}
           Group(s) == {r \in ranges : Start(r) >= s /\ \A o \in opens : o > s => Start(r) < o}
<1>0. \A r \in ranges : Start(r) \in Block /\ End(r) \in Block
  BY DEF Start, End
<1>1. ASSUME NEW s \in opens PROVE <<s, Max({End(r) : r \in Group(s)})>> \in Block \X Block
  <2>1. PICK r \in ranges : s = Start(r)
    OBVIOUS
  <2>2. s \in Block /\ \A o \in opens : o \in Block
    BY <1>0, <2>1
  <2>3. r \in Group(s)
    BY <2>1, <2>2 DEF Block
  <2>4. {End(q) : q \in Group(s)} \in SUBSET Block
    BY <1>0
  <2>5. End(r) \in {End(q) : q \in Group(s)}
    BY <2>3
  <2>6. Max({End(q) : q \in Group(s)}) \in Block
    <3>1. PICK S : S = {End(q) : q \in Group(s)}
      OBVIOUS
    <3>2. S \in SUBSET Block /\ S # {}
      BY <2>4, <2>5, <3>1
    <3>3. Max(S) \in Block
      BY <3>2, MaxIsBlock
    <3> QED
      BY <3>1, <3>3
  <2> QED
    BY <2>2, <2>6
<1>2. merge_ranges(ranges) = {<<s, Max({End(r) : r \in Group(s)})>> : s \in opens}
  BY DEF merge_ranges
<1> HIDE DEF opens, Group
<1> QED
  BY <1>1, <1>2

LEMMA GapsAreRanges ==
    ASSUME NEW lo \in Block, NEW hi \in Block, NEW ranges \in SUBSET (Block \X Block)
    PROVE  find_gaps(lo, hi, ranges) \in SUBSET (Block \X Block)
<1> DEFINE covered(S) == Max({lo} \union {End(r) : r \in S})
           candidates == {<<covered({q \in ranges : Start(q) < Start(r)}), Start(r)>> : r \in ranges}
                           \union {<<covered(ranges), hi>>}
<1>0. \A r \in ranges : Start(r) \in Block /\ End(r) \in Block
  BY DEF Start, End
<1>1. ASSUME NEW S \in SUBSET ranges PROVE covered(S) \in Block
  <2>1. PICK T : T = {lo} \union {End(r) : r \in S}
    OBVIOUS
  <2>2. T \in SUBSET Block /\ T # {}
    BY <1>0, <2>1
  <2>3. Max(T) \in Block
    BY <2>2, MaxIsBlock
  <2> QED
    BY <2>1, <2>3
<1>2. \A r \in ranges : covered({q \in ranges : Start(q) < Start(r)}) \in Block
  <2> HIDE DEF covered
  <2> QED
    BY <1>1
<1>3. covered(ranges) \in Block
  <2> HIDE DEF covered
  <2> QED
    BY <1>1
<1>4. find_gaps(lo, hi, ranges) = merge_ranges({gap \in candidates : NonEmpty(gap)})
  BY DEF find_gaps
<1> HIDE DEF covered
<1>5. candidates \in SUBSET (Block \X Block)
  <2> DEFINE inner == {<<covered({q \in ranges : Start(q) < Start(r)}), Start(r)>> : r \in ranges}
  <2>1. \A r \in ranges :
          <<covered({q \in ranges : Start(q) < Start(r)}), Start(r)>> \in Block \X Block
    BY <1>0, <1>2, Zenon
  <2>2. inner \in SUBSET (Block \X Block)
    BY <2>1, Zenon
  <2>3. <<covered(ranges), hi>> \in Block \X Block
    BY <1>3
  <2>4. candidates = inner \union {<<covered(ranges), hi>>}
    OBVIOUS
  <2> HIDE DEF inner, candidates
  <2> QED
    BY <2>2, <2>3, <2>4
<1> HIDE DEF candidates
<1>6. PICK S : S = {gap \in candidates : NonEmpty(gap)}
  OBVIOUS
<1>7. S \in SUBSET (Block \X Block)
  BY <1>5, <1>6
<1>8. merge_ranges(S) \in SUBSET (Block \X Block)
  BY <1>7, MergedAreRanges
<1> QED
  BY <1>4, <1>6, <1>8

LEMMA PiecesAreRanges ==
    ASSUME NEW gap \in Block \X Block, NEW interval \in Nat, NEW gasLimit, NEW gasUsed
    PROVE  /\ CutByBlocks(gap, interval) \in SUBSET (Block \X Block)
           /\ CutByGas(gap, gasLimit, interval, gasUsed) \in SUBSET (Block \X Block)
<1>1. Start(gap) \in Block /\ End(gap) \in Block /\ MaxBlock \in Nat
  BY ValidityAssumption DEF Start, End
<1>2. Start(gap) .. End(gap) \subseteq Block
  BY <1>1 DEF Block
<1>3. ASSUME NEW a \in Start(gap) .. End(gap) - 1
      PROVE  a \in Block /\ MinOf(a + interval, End(gap)) \in Block
  BY <1>1 DEF Block, MinOf
<1>4. CutByBlocks(gap, interval) \in SUBSET (Block \X Block)
  BY <1>3 DEF CutByBlocks
<1>5. CutByGas(gap, gasLimit, interval, gasUsed)
        \subseteq (Start(gap) .. End(gap)) \X (Start(gap) .. End(gap))
  BY Zenon DEF CutByGas
<1> QED
  BY <1>2, <1>4, <1>5

LEMMA PlanIsRanges ==
    ASSUME TableOK(db), latest \in Block, l2Head \in Block
    PROVE  Plan \in SUBSET (Block \X Block)
<1>1. PICK known : known = fetch_ranges_after_block(db, latest)
  OBVIOUS
<1>2. known \in SUBSET (Block \X Block)
  <2>1. \A i \in DOMAIN db : db[i].start \in Block /\ db[i].end \in Block
    BY DEF TableOK, Row
  <2> QED
    BY <1>1, <2>1 DEF fetch_ranges_after_block, From, Rows
<1>3. PICK lo \in Block, hi \in Block : lo = latest /\ hi = l2Head
  OBVIOUS
<1>4. PICK gaps : gaps = find_gaps(lo, hi, known)
  OBVIOUS
<1>5. gaps \in SUBSET (Block \X Block)
  BY <1>2, <1>4, GapsAreRanges
<1>6. RangeProofInterval \in Nat
  BY ValidityAssumption
<1>7. get_ranges_to_prove_by_blocks(gaps, RangeProofInterval) \in SUBSET (Block \X Block)
  BY <1>5, <1>6, PiecesAreRanges DEF get_ranges_to_prove_by_blocks
<1>8. get_ranges_to_prove_by_gas(gaps, EvmGasLimit, RangeProofInterval, BlockGas)
        \in SUBSET (Block \X Block)
  BY <1>5, <1>6, PiecesAreRanges DEF get_ranges_to_prove_by_gas
<1> QED
  BY <1>1, <1>3, <1>4, <1>7, <1>8 DEF Plan
-----------------------------------------------------------------------------
(* The inductive invariant.                                                *)

WorldOK ==
    /\ scenario \in Scenarios /\ latest \in Block /\ l2Head \in Block /\ forks \in Seq(Nat)
    /\ \A tx \in transactions : tx.end \in Block

(* The status of the row that a task works on, at every stage of the task. *)
TaskOK(row, stage, deployment) ==
    \/ stage \in {"start", "report"} /\ row.status \in {"Unrequested", "Invalidated"}
    \/ stage \in {"witness", "request", "submit"} /\ row.status = "WitnessGeneration"
    \/ stage = "store" /\ row.status = "Execution" /\ deployment = "mock"
    \/ stage = "failed" /\ row.status \in {"Unrequested", "Invalidated", "WitnessGeneration",
                                           "Execution"}
    \/ stage = "done"

TasksOK == \A i \in DOMAIN tasks : i \in DOMAIN db /\ TaskOK(db[i], tasks[i], mode)

(* Every block of an aggregation is in a completed range under it.         *)
BackedRow(t, row) ==
    \A b \in Blocks(row) :
        \E r \in get_consecutive_complete_range_proofs(t, row.start, row.end) :
            b \in Blocks(t[r]) /\ t[r].head[1] <= row.checkpoint[1]

NewAggregation(row) ==
    /\ row \in Row /\ row.type = "Aggregation" /\ row.status = "Unrequested" /\ ~row.invalid
    /\ row.head = NoBlock

(* What the steps of an iteration have read stays true for the later ones. *)
WorkOK ==
    /\ pc = "handle_proving_requests" =>
         \A i \in work : i \in DOMAIN db /\ db[i].status = "Prove"
    /\ pc \in {"relay_aggregation_proof", "update_request_to_relayed"} =>
         \A i \in work : i \in DOMAIN db /\ db[i].type = "Aggregation"
    /\ pc \in {"create_aggregation_proofs", "checkpoint_block_hash"} => mode # "agglayer"
    /\ pc = "checkpoint_block_hash" =>
         \A row \in work : /\ NewAggregation(row) /\ BackedRow(db, row)
                           /\ ActiveAggregations(db, row.start) = {}

AcceptedOK == \A row \in accepted : NewAggregation(row) /\ mode = "agglayer"

OneOK ==
    mode # "agglayer" =>
        \A i, j \in LiveAggregations : db[i].start = db[j].start => i = j

(* The aggregations whose ranges have been verified against the table: in  *)
(* the external coordinator's case, those whose witness is made.           *)
Verified(i) ==
    \/ mode # "agglayer"
    \/ db[i].status \in {"Prove", "Complete"}
    \/ i \in DOMAIN tasks /\ tasks[i] \in {"request", "submit"}

BackedOK == \A a \in LiveAggregations : Verified(a) => BackedRow(db, db[a])

Inv == TableOK(db) /\ WorldOK /\ TasksOK /\ WorkOK /\ AcceptedOK /\ OneOK /\ BackedOK
-----------------------------------------------------------------------------
(* What a change of the table leaves in place.                             *)

(* Completed ranges carry over, and with them whatever rests on them.      *)
Keeps(t, u) == \A i \in Rows(t, "Range", {"Complete"}) : i \in DOMAIN u /\ u[i] = t[i]

LEMMA TameKeeps == ASSUME NEW t, NEW u, Tame(t, u) PROVE Keeps(t, u)
<1> SUFFICES ASSUME NEW i \in Rows(t, "Range", {"Complete"}) PROVE i \in DOMAIN u /\ u[i] = t[i]
  BY DEF Keeps
<1>1. i \in DOMAIN t /\ t[i].type = "Range" /\ t[i].status = "Complete" /\ ~t[i].invalid
  BY DEF Rows
<1>2. i \in DOMAIN u
  BY <1>1 DEF Tame, Deletable
<1> QED
  BY <1>1, <1>2 DEF Tame, Kept

RangesKept(t, u, row) ==
    \A r \in get_consecutive_complete_range_proofs(t, row.start, row.end) :
        u[r] = t[r] /\ r \in get_consecutive_complete_range_proofs(u, row.start, row.end)

LEMMA KeepsRanges == ASSUME NEW t, NEW u, Keeps(t, u), NEW row PROVE RangesKept(t, u, row)
BY DEF RangesKept, Keeps, get_consecutive_complete_range_proofs, Rows

LEMMA BackedCarries ==
    ASSUME NEW t, NEW u, Keeps(t, u), NEW row, BackedRow(t, row)
    PROVE  BackedRow(u, row)
<1>1. RangesKept(t, u, row)
  BY KeepsRanges
<1> QED
  BY <1>1, Zenon DEF BackedRow, RangesKept

(* Only the size and the checkpoint of an aggregation matter.              *)
LEMMA BackedAlike ==
    ASSUME NEW t, NEW p, NEW q, BackedRow(t, p), p.start = q.start, p.end = q.end,
           p.checkpoint = q.checkpoint
    PROVE  BackedRow(t, q)
BY DEF BackedRow, Blocks

(* No request is revived.                                                  *)
LEMMA LiveBefore ==
    ASSUME NEW t, NEW u, NEW i \in DOMAIN t \intersect DOMAIN u, Fate(t[i], u[i]),
           i \in Rows(u, "Aggregation", ActiveStatuses)
    PROVE  i \in Rows(t, "Aggregation", ActiveStatuses) /\ t[i].start = u[i].start
BY DEF Rows, Fate, Live

LEMMA TameLive ==
    ASSUME NEW t, NEW u, Tame(t, u), NEW i \in Rows(u, "Aggregation", ActiveStatuses)
    PROVE  /\ i \in DOMAIN t \intersect DOMAIN u /\ Fate(t[i], u[i])
           /\ i \in Rows(t, "Aggregation", ActiveStatuses) /\ t[i].start = u[i].start
<1>1. i \in DOMAIN u /\ u[i].type = "Aggregation"
  BY DEF Rows
<1>2. i \in DOMAIN t
  BY <1>1 DEF Tame, NewRange
<1> QED
  BY <1>1, <1>2, LiveBefore DEF Tame

LEMMA NoneBefore ==
    ASSUME NEW t, NEW u, Tame(t, u), NEW s, ActiveAggregations(t, s) = {}
    PROVE  ActiveAggregations(u, s) = {}
BY TameLive DEF ActiveAggregations

(* One row is changed, new ranges may be added.                            *)
Touches(t, u, i) ==
    Tame(t, u) /\ DOMAIN t \subseteq DOMAIN u /\ \A j \in DOMAIN t \ {i} : u[j] = t[j]

LEMMA StatusTouches ==
    ASSUME NEW t, TableOK(t), NEW i \in DOMAIN t, NEW s \in Statuses,
           t[i].invalid => s \in InFlight \union {"Invalidated"},
           t[i].invalid /\ t[i].status = "Invalidated" => s = "Invalidated",
           s \in ActiveStatuses => t[i].status \in ActiveStatuses \/ t[i].invalid,
           t[i].type = "Range" /\ t[i].status = "Complete" /\ ~t[i].invalid => s = "Complete"
    PROVE  LET u == update_request_status(t, i, s)
           IN  Touches(t, u, i) /\ DOMAIN u = DOMAIN t /\ u[i].status = s
<1>1. PICK u : u = update_request_status(t, i, s)
  OBVIOUS
<1>2. /\ Tame(t, u) /\ DOMAIN u = DOMAIN t
      /\ \A j \in DOMAIN t : u[j] = IF j = i THEN [t[i] EXCEPT !.status = s] ELSE t[j]
  BY <1>1, StatusChanges
<1>3. t[i] \in Row
  BY DEF TableOK
<1>4. u[i].status = s
  BY <1>2, <1>3 DEF Row
<1> QED
  BY <1>1, <1>2, <1>4 DEF Touches

(* A withdrawn request is only finished.                                   *)
LEMMA FinishTouches ==
    ASSUME NEW t, TableOK(t), NEW i \in DOMAIN t
    PROVE  LET u == finish_invalidated_request(t, i)
           IN  /\ Touches(t, u, i)
               /\ t[i].invalid => u[i].status = "Invalidated"
               /\ ~t[i].invalid => u = t
<1>0. t[i] \in Row /\ t[i].invalid \in BOOLEAN
  BY DEF TableOK, Row
<1>1. CASE t[i].invalid
  <2>1. PICK u : u = update_request_status(t, i, "Invalidated")
    OBVIOUS
  <2>2. Touches(t, u, i) /\ u[i].status = "Invalidated"
    BY <1>1, <2>1, StatusTouches DEF Statuses, ActiveStatuses
  <2>3. finish_invalidated_request(t, i) = u
    BY <1>1, <2>1 DEF finish_invalidated_request
  <2> QED
    BY <1>1, <2>2, <2>3
<1>2. CASE ~t[i].invalid
  <2>1. finish_invalidated_request(t, i) = t
    BY <1>2 DEF finish_invalidated_request
  <2>2. Touches(t, t, i)
    BY TableStays DEF Touches
  <2> QED
    BY <1>2, <2>1, <2>2
<1> QED
  BY <1>0, <1>1, <1>2

(* A failed request, and its halves where it is split.                     *)
LEMMA FailureTouches ==
    ASSUME TableOK(db), NEW i \in DOMAIN db, NEW unexecutable, NEW split,
           db[i].status \in InFlight \union {"Unrequested", "Invalidated"}
    PROVE  LET u == handle_failed_request(i, unexecutable, split)
           IN  Touches(db, u, i) /\ u[i].status \in {"Failed", "Invalidated"}
<1>0. db[i] \in Row /\ db[i].invalid \in BOOLEAN
  BY DEF TableOK, Row
<1>1. CASE db[i].invalid
  <2>1. handle_failed_request(i, unexecutable, split) = finish_invalidated_request(db, i)
    BY <1>1 DEF handle_failed_request, is_request_invalidated
  <2>2. PICK t, u : t = db /\ u = finish_invalidated_request(t, i)
    OBVIOUS
  <2>3. Touches(t, u, i) /\ u[i].status = "Invalidated"
    BY <1>1, <2>2, FinishTouches
  <2> QED
    BY <2>1, <2>2, <2>3
<1>2. CASE ~db[i].invalid
  <2>1. PICK t, f : t = db /\ f = update_request_status(t, i, "Failed")
    OBVIOUS
  <2>2. Touches(t, f, i) /\ f[i].status = "Failed"
    BY <1>2, <2>1, StatusTouches DEF Statuses, ActiveStatuses, InFlight
  <2>3. PICK halves : halves = Halves(db[i])
    OBVIOUS
  <2>4. halves \in SUBSET (Block \X Block)
    <3>1. PICK a \in Block, b \in Block : a = db[i].start /\ b = db[i].end
      BY <1>0 DEF Row
    <3>2. (a + b) \div 2 \in Block
      BY ValidityAssumption DEF Block
    <3> QED
      BY <2>3, <3>1, <3>2 DEF Halves
  <2>5. PICK w : w = insert_requests(f, halves)
    OBVIOUS
  <2>6. /\ Tame(f, w) /\ DOMAIN f \subseteq DOMAIN w /\ \A j \in DOMAIN f : w[j] = f[j]
        /\ \A j \in DOMAIN w \ DOMAIN f : NewRange(w[j])
    <3>1. TableOK(f)
      BY <2>2 DEF Touches, Tame
    <3> QED
      BY <2>4, <2>5, <3>1, RangesInserted
  <2>7. Tame(t, w)
    BY <2>2, <2>6 DEF Tame, Touches
  <2>8. Touches(t, w, i) /\ w[i].status = "Failed"
    BY <2>1, <2>2, <2>6, <2>7 DEF Touches
  <2>9. \/ handle_failed_request(i, unexecutable, split) = f
        \/ handle_failed_request(i, unexecutable, split) = w
    BY <1>2, <2>1, <2>3, <2>5 DEF handle_failed_request, is_request_invalidated
  <2> QED
    BY <2>1, <2>2, <2>8, <2>9
<1> QED
  BY <1>0, <1>1, <1>2
-----------------------------------------------------------------------------
(* The invariant from one step to the next.                                *)

(* What a step does to the requests: to the rows that stay, to new ones,   *)
(* and to what the live aggregations rest on.                              *)
Fated ==
    /\ \A i \in DOMAIN db \intersect DOMAIN db' : Fate(db[i], db'[i])
    /\ \A i \in DOMAIN db' \ DOMAIN db : db'[i].head = NoBlock
    /\ \A a \in LiveAggregations' :
         IF a \in DOMAIN db THEN a \in LiveAggregations /\ RangesKept(db, db', db[a])
         ELSE mode = "agglayer" \/ create_aggregation_proofs \/ CheckpointBlockHash
    /\ pc' = "checkpoint_block_hash" => Keeps(db, db')

(* An aggregation of the external coordinator that counts as verified did  *)
(* so before, or its ranges have just been verified.                       *)
Earned ==
    mode = "agglayer" =>
        \A i \in DOMAIN db : i \in LiveAggregations' /\ Verified(i)' =>
            Verified(i) \/ BackedRow(db, db[i])

(* A step that is tame on the table preserves what is about aggregations.  *)
LEMMA TameStep ==
    ASSUME Inv, scenario' = scenario, Tame(db, db'), Earned,
           WorldOK', TasksOK', WorkOK', AcceptedOK'
    PROVE  Inv' /\ Fated
<1>1. PICK t, u : t = db /\ u = db'
  OBVIOUS
<1>2. Tame(t, u)
  BY <1>1
<1>3. LiveAggregations = Rows(t, "Aggregation", ActiveStatuses)
  BY <1>1 DEF LiveAggregations
<1>4. LiveAggregations' = Rows(u, "Aggregation", ActiveStatuses)
  BY <1>1 DEF LiveAggregations
<1>5. ASSUME NEW i \in LiveAggregations'
      PROVE  /\ i \in DOMAIN t /\ i \in DOMAIN u /\ Fate(t[i], u[i])
             /\ i \in LiveAggregations /\ t[i].start = u[i].start
  BY <1>2, <1>3, <1>4, TameLive
<1>6. mode' = mode
  BY DEF mode
<1>7. OneOK'
  BY <1>1, <1>5, <1>6 DEF OneOK, Inv
<1>8. BackedOK'
  <2> SUFFICES ASSUME NEW a \in LiveAggregations', Verified(a)' PROVE BackedRow(db', db'[a])
    BY DEF BackedOK
  <2>1. Verified(a) \/ BackedRow(db, db[a])
    BY <1>1, <1>5, <1>6 DEF Earned, Verified
  <2>2. BackedRow(t, t[a])
    BY <1>1, <1>5, <2>1 DEF Inv, BackedOK
  <2>3. BackedRow(u, t[a])
    BY <1>2, <2>2, TameKeeps, BackedCarries
  <2>4. BackedRow(u, u[a])
    BY <1>5, <2>3, BackedAlike DEF Fate
  <2> QED
    BY <1>1, <2>4
<1>9. TableOK(db)'
  BY DEF Tame
<1>10. Fated
  <2>1. Keeps(t, u)
    BY <1>2, TameKeeps
  <2>2. \A a \in LiveAggregations' :
          a \in DOMAIN t /\ a \in LiveAggregations /\ RangesKept(t, u, t[a])
    BY <1>5, <2>1, KeepsRanges
  <2>3. \A i \in DOMAIN u \ DOMAIN t : u[i].head = NoBlock
    BY <1>2 DEF Tame, NewRange
  <2>4. \A i \in DOMAIN t \intersect DOMAIN u : Fate(t[i], u[i])
    BY <1>2 DEF Tame
  <2> QED
    BY <1>1, <2>1, <2>2, <2>3, <2>4 DEF Fated
<1> QED
  BY <1>7, <1>8, <1>9, <1>10 DEF Inv

(* Where the loop goes on with nothing to remember.                        *)
LEMMA WorkDropped ==
    ASSUME work' = {},
           pc' \in {"create_aggregation_proofs", "checkpoint_block_hash"} => mode' # "agglayer"
    PROVE  WorkOK'
BY DEF WorkOK

(* Where the loop does not move.                                           *)
LEMMA WorkKept ==
    ASSUME Inv, UNCHANGED <<pc, work, scenario>>, Tame(db, db'), DOMAIN db \subseteq DOMAIN db',
           \A i \in DOMAIN db : db[i].status = "Prove" => db'[i].status = "Prove"
    PROVE  WorkOK'
<1>1. PICK t, u : t = db /\ u = db'
  OBVIOUS
<1>2. Tame(t, u)
  BY <1>1
<1>3. ASSUME NEW row \in work, BackedRow(db, row) PROVE BackedRow(db', row)
  <2>1. BackedRow(t, row)
    BY <1>1, <1>3
  <2>2. BackedRow(u, row)
    BY <1>2, <2>1, TameKeeps, BackedCarries
  <2> QED
    BY <1>1, <2>2
<1>4. ASSUME NEW row \in work, ActiveAggregations(db, row.start) = {}
      PROVE  ActiveAggregations(db', row.start) = {}
  <2>1. PICK s : s = row.start
    OBVIOUS
  <2>2. ActiveAggregations(t, s) = {}
    BY <1>1, <1>4, <2>1
  <2>3. ActiveAggregations(u, s) = {}
    BY <1>2, <2>2, NoneBefore
  <2> QED
    BY <1>1, <2>1, <2>3
<1>5. \A i \in DOMAIN db : db'[i].type = db[i].type
  BY DEF Tame, Fate
<1>6. mode' = mode
  BY DEF mode
<1>7. (pc = "handle_proving_requests" =>
         \A i \in work : i \in DOMAIN db /\ db[i].status = "Prove")'
  BY DEF Inv, WorkOK
<1>8. (pc \in {"relay_aggregation_proof", "update_request_to_relayed"} =>
         \A i \in work : i \in DOMAIN db /\ db[i].type = "Aggregation")'
  BY <1>5 DEF Inv, WorkOK
<1>9. (pc = "checkpoint_block_hash" =>
         \A row \in work : /\ NewAggregation(row) /\ BackedRow(db, row)
                           /\ ActiveAggregations(db, row.start) = {})'
  BY <1>3, <1>4 DEF Inv, WorkOK
<1>10. (pc \in {"create_aggregation_proofs", "checkpoint_block_hash"} => mode # "agglayer")'
  BY <1>6 DEF Inv, WorkOK
<1> QED
  BY <1>7, <1>8, <1>9, <1>10 DEF WorkOK

(* The table, the tasks and what was accepted stay as they are.            *)
LEMMA TableUnchanged ==
    ASSUME Inv, UNCHANGED <<scenario, db, tasks, accepted>>
    PROVE  /\ Tame(db, db') /\ Earned /\ TasksOK' /\ AcceptedOK'
           /\ UNCHANGED <<pc, work>> => WorkOK'
<1>1. PICK t : t = db
  OBVIOUS
<1>2. Tame(t, t)
  BY <1>1, TableStays DEF Inv
<1>3. Tame(db, db')
  BY <1>1, <1>2
<1>4. Earned
  BY DEF Earned, Verified, mode
<1>5. TasksOK' /\ AcceptedOK'
  BY DEF Inv, TasksOK, AcceptedOK, mode
<1>6. ASSUME UNCHANGED <<pc, work>> PROVE WorkOK'
  BY <1>3, <1>6, WorkKept
<1> QED
  BY <1>3, <1>4, <1>5, <1>6
-----------------------------------------------------------------------------
(* The steps that change no row.                                           *)

LEMMA QuietStep ==
    ASSUME Inv, UNCHANGED <<scenario, db, tasks, accepted>>, WorldOK',
           WorkOK' \/ UNCHANGED <<pc, work>>
    PROVE  Inv' /\ Fated
BY TableUnchanged, TameStep

(* The world moves on, the loop and the tasks wait.                        *)
LEMMA WorldSteps ==
    ASSUME Inv,
           \/ \E i \in DOMAIN network : Prover(i)
           \/ L2Grows
           \/ \E n \in L1Blocks : Reorg(n)
           \/ \E block \in 0 .. MaxBlock : Foreign(block)
           \/ UNCHANGED vars
    PROVE  Inv' /\ Fated
<1>0. WorldOK /\ MaxL1 \in Nat /\ MaxBlock \in Nat
  BY ValidityAssumption DEF Inv
<1>1. CASE \E i \in DOMAIN network : Prover(i)
  <2>1. UNCHANGED <<scenario, db, tasks, accepted, pc, work, transactions, latest, l2Head, forks>>
    BY <1>1 DEF Prover, given, process, world
  <2>2. WorldOK'
    BY <1>0, <2>1 DEF WorldOK
  <2> QED
    BY <2>1, <2>2, QuietStep
<1>2. CASE L2Grows
  <2>1. /\ UNCHANGED <<scenario, db, tasks, accepted, pc, work, transactions, latest, forks>>
        /\ l2Head < MaxBlock /\ l2Head' = l2Head + 1
    BY <1>2 DEF L2Grows, process, budget, given
  <2>2. l2Head' \in Block
    BY <1>0, <2>1 DEF WorldOK, Block
  <2>3. WorldOK'
    BY <1>0, <2>1, <2>2 DEF WorldOK
  <2> QED
    BY <2>1, <2>3, QuietStep
<1>3. CASE \E n \in L1Blocks : Reorg(n)
  <2>1. PICK n \in L1Blocks : Reorg(n)
    BY <1>3
  <2>2. /\ UNCHANGED <<scenario, db, tasks, accepted, pc, work, transactions, latest, l2Head>>
        /\ forks' = Append(forks, n)
    BY <2>1 DEF Reorg, process, budget, given
  <2>3. forks' \in Seq(Nat)
    BY <1>0, <2>1, <2>2 DEF WorldOK, L1Blocks
  <2>4. WorldOK'
    BY <1>0, <2>2, <2>3 DEF WorldOK
  <2> QED
    BY <2>2, <2>4, QuietStep
<1>4. CASE \E block \in 0 .. MaxBlock : Foreign(block)
  <2>1. PICK block \in 0 .. MaxBlock : Foreign(block)
    BY <1>4
  <2>2. /\ UNCHANGED <<scenario, db, tasks, accepted, pc, work, transactions, l2Head, forks>>
        /\ latest' = block
    BY <2>1 DEF Foreign, process, budget, given
  <2>3. WorldOK'
    BY <1>0, <2>1, <2>2 DEF WorldOK, Block
  <2> QED
    BY <2>2, <2>3, QuietStep
<1>5. CASE UNCHANGED vars
  <2>1. UNCHANGED <<scenario, db, tasks, accepted, pc, work, transactions, latest, l2Head, forks>>
    BY <1>5 DEF vars
  <2>2. WorldOK'
    BY <1>0, <2>1 DEF WorldOK
  <2> QED
    BY <2>1, <2>2, QuietStep
<1> QED
  BY <1>1, <1>2, <1>3, <1>4, <1>5

(* A relay is mined: the loop, if it waits, goes on with the same row.     *)
LEMMA MineRelayStep ==
    ASSUME Inv, NEW tx \in transactions, MineRelay(tx)
    PROVE  Inv' /\ Fated
<1>1. UNCHANGED <<scenario, db, tasks, accepted, l2Head, forks>>
  BY DEF MineRelay, budget, given
<1>2. WorldOK'
  BY <1>1 DEF MineRelay, Inv, WorldOK
<1>3. CASE UNCHANGED <<pc, work>>
  BY <1>1, <1>2, <1>3, QuietStep
<1>4. CASE pc = "relay_aggregation_proof" /\ pc' = "update_request_to_relayed" /\ work' = work
  <2>1. WorkOK'
    BY <1>1, <1>4 DEF Inv, WorkOK
  <2> QED
    BY <1>1, <1>2, <2>1, QuietStep
<1>5. CASE NextIteration
  <2>1. WorkOK'
    BY <1>5, WorkDropped DEF NextIteration, Goto
  <2> QED
    BY <1>1, <1>2, <2>1, QuietStep
<1> QED
  BY <1>3, <1>4, <1>5 DEF MineRelay

(* The steps of the loop that only read.                                   *)
LEMMA ReadingSteps ==
    ASSUME Inv, log_proposer_metrics \/ reconcile_completed_range_canonicality \/ IterationFails
    PROVE  Inv' /\ Fated
<1>1. UNCHANGED <<scenario, db, tasks, accepted, transactions, latest, l2Head, forks>>
  BY DEF log_proposer_metrics, reconcile_completed_range_canonicality, IterationFails,
         world, budget, given
<1>2. WorldOK'
  BY <1>1 DEF Inv, WorldOK
<1>3. CASE log_proposer_metrics \/ IterationFails
  <2>1. WorkOK'
    BY <1>3, WorkDropped DEF log_proposer_metrics, IterationFails, NextIteration, Goto
  <2> QED
    BY <1>1, <1>2, <2>1, QuietStep
<1>4. CASE reconcile_completed_range_canonicality
  <2>1. \/ work' = {} /\ pc' = "add_new_ranges"
        \/ pc' = "invalidate_noncanonical_ranges"
    BY <1>4 DEF reconcile_completed_range_canonicality, Goto
  <2>2. WorkOK'
    BY <2>1 DEF WorkOK
  <2> QED
    BY <1>1, <1>2, <2>2, QuietStep
<1> QED
  BY <1>3, <1>4

(* A completed aggregation is sent to the oracle.                          *)
LEMMA SubmitStep ==
    ASSUME Inv, submit_agg_proofs
    PROVE  Inv' /\ Fated
<1>1. UNCHANGED <<scenario, db, tasks, accepted, latest, l2Head, forks>>
  BY DEF submit_agg_proofs, world, budget, given
<1>2. CASE NextIteration /\ UNCHANGED transactions
  <2>1. WorldOK'
    BY <1>1, <1>2 DEF Inv, WorldOK
  <2>2. WorkOK'
    BY <1>2, WorkDropped DEF NextIteration, Goto
  <2> QED
    BY <1>1, <2>1, <2>2, QuietStep
<1>3. ASSUME NEW i \in fetch_completed_agg_proof_after_block(db, latest),
             transactions' = transactions \union {RelayOf(i)},
             pc' = "relay_aggregation_proof", work' = {i}
      PROVE  Inv' /\ Fated
  <2>1. i \in DOMAIN db /\ db[i].type = "Aggregation"
    BY DEF fetch_completed_agg_proof_after_block, Rows
  <2>2. RelayOf(i).end \in Block
    BY <2>1 DEF RelayOf, Inv, TableOK, Row
  <2>3. WorldOK'
    BY <1>1, <1>3, <2>2 DEF Inv, WorldOK
  <2>4. WorkOK'
    BY <1>1, <1>3, <2>1 DEF WorkOK
  <2> QED
    BY <1>1, <2>3, <2>4, QuietStep
<1> QED
  BY <1>2, <1>3 DEF submit_agg_proofs

(* A request is given a task.                                              *)
LEMMA QueueStep ==
    ASSUME Inv, request_queued_proofs
    PROVE  Inv' /\ Fated
<1>1. UNCHANGED <<scenario, db, accepted, transactions, latest, l2Head, forks>>
  BY DEF request_queued_proofs, world, budget, given
<1>2. WorldOK' /\ AcceptedOK'
  BY <1>1 DEF Inv, WorldOK, AcceptedOK, mode
<1>3. WorkOK'
  BY WorkDropped DEF request_queued_proofs, NextIteration, Goto
<1>4. ASSUME NEW i \in get_next_unrequested_proof
      PROVE  i \in DOMAIN db /\ db[i].status = "Unrequested"
  <2>1. \/ i \in fetch_unrequested_agg_proof(db, latest)
        \/ i \in fetch_first_unrequested_range_proof(db, latest)
    BY <1>4 DEF get_next_unrequested_proof
  <2> QED
    BY <2>1 DEF fetch_unrequested_agg_proof, fetch_first_unrequested_range_proof, Lowest,
                From, Rows
<1>5. CASE UNCHANGED tasks
  BY <1>1, <1>2, <1>3, <1>5, QuietStep
<1>6. ASSUME NEW i \in get_next_unrequested_proof, tasks' = With(tasks, i, "start")
      PROVE  Inv' /\ Fated
  <2>3. /\ DOMAIN tasks' = DOMAIN tasks \union {i} /\ tasks'[i] = "start"
        /\ \A j \in DOMAIN tasks \ {i} : tasks'[j] = tasks[j]
    BY <1>6 DEF With
  <2>4. TasksOK'
    BY <1>1, <1>4, <2>3 DEF Inv, TasksOK, TaskOK, mode
  <2>5. Earned
    BY <1>1, <2>3 DEF Earned, Verified, mode
  <2>6. PICK t : t = db
    OBVIOUS
  <2>7. Tame(t, t)
    BY <2>6, TableStays DEF Inv
  <2>8. Tame(db, db')
    BY <1>1, <2>6, <2>7
  <2> QED
    BY <1>1, <1>2, <1>3, <2>4, <2>5, <2>8, TameStep
<1> QED
  BY <1>5, <1>6 DEF request_queued_proofs
-----------------------------------------------------------------------------
(* The steps of the loop that change rows.                                 *)

(* One row changes, and with it at most its own task.                      *)
LEMMA RowStep ==
    ASSUME Inv, NEW i \in DOMAIN db, Touches(db, db', i),
           UNCHANGED <<scenario, accepted, transactions, latest, l2Head, forks>>,
           \A j \in DOMAIN tasks' \ {i} : j \in DOMAIN tasks /\ tasks'[j] = tasks[j],
           i \in DOMAIN tasks' => TaskOK(db'[i], tasks'[i], mode),
           mode = "agglayer" /\ i \in LiveAggregations' /\ Verified(i)' =>
               Verified(i) \/ BackedRow(db, db[i]),
           WorkOK'
    PROVE  Inv' /\ Fated
<1>1. /\ Tame(db, db') /\ DOMAIN db \subseteq DOMAIN db'
      /\ \A j \in DOMAIN db \ {i} : db'[j] = db[j]
  BY DEF Touches
<1>2. WorldOK' /\ AcceptedOK'
  BY DEF Inv, WorldOK, AcceptedOK, mode
<1>3. TasksOK'
  BY <1>1 DEF Inv, TasksOK, mode
<1>4. Earned
  BY <1>1 DEF Earned, Verified, mode
<1> QED
  BY <1>1, <1>2, <1>3, <1>4, TameStep

(* A task is reaped, and its request failed if it has.                     *)
LEMMA OngoingStep ==
    ASSUME Inv, handle_ongoing_tasks
    PROVE  Inv' /\ Fated
<1>1. UNCHANGED <<scenario, accepted, transactions, latest, l2Head, forks>>
  BY DEF handle_ongoing_tasks, world, given
<1>2. CASE Finished = {}
  <2>1. WorkOK' /\ UNCHANGED <<db, tasks>>
    BY <1>2, WorkDropped DEF handle_ongoing_tasks, Goto
  <2>2. WorldOK'
    BY <1>1 DEF Inv, WorldOK
  <2> QED
    BY <1>1, <2>1, <2>2, QuietStep
<1>3. ASSUME NEW i \in Finished, tasks' = Without(tasks, i), UNCHANGED <<pc, work>>,
             \/ db' = db
             \/ tasks[i] = "failed" /\ db' = handle_failed_request(i, FALSE, TRUE)
             \/ tasks[i] = "failed" /\ db' = handle_failed_request(i, FALSE, FALSE)
      PROVE  Inv' /\ Fated
  <2>1. i \in DOMAIN tasks /\ i \in DOMAIN db /\ TaskOK(db[i], tasks[i], mode) /\ TableOK(db)
    BY DEF Finished, Inv, TasksOK
  <2>2. DOMAIN tasks' = DOMAIN tasks \ {i} /\ \A j \in DOMAIN tasks' : tasks'[j] = tasks[j]
    BY <1>3 DEF Without
  <2>3. WorkOK'
    BY <1>3 DEF handle_ongoing_tasks, WorkOK
  <2>4. CASE db' = db
    <3>1. PICK t : t = db
      OBVIOUS
    <3>2. Touches(t, t, i)
      BY <2>1, <3>1, TableStays DEF Touches
    <3>3. Touches(db, db', i)
      BY <2>4, <3>1, <3>2
    <3>4. mode = "agglayer" /\ i \in LiveAggregations' /\ Verified(i)' => Verified(i)
      BY <1>1, <2>2, <2>4 DEF Verified, mode
    <3> QED
      BY <1>1, <2>1, <2>2, <2>3, <3>3, <3>4, RowStep
  <2>5. ASSUME NEW split, tasks[i] = "failed", db' = handle_failed_request(i, FALSE, split)
        PROVE  Inv' /\ Fated
    <3>1. db[i].status \in InFlight \union {"Unrequested", "Invalidated"}
      BY <2>1, <2>5 DEF TaskOK, InFlight
    <3>2. Touches(db, db', i) /\ db'[i].status \in {"Failed", "Invalidated"}
      BY <2>1, <2>5, <3>1, FailureTouches
    <3>3. i \notin LiveAggregations'
      BY <3>2 DEF LiveAggregations, Rows, ActiveStatuses
    <3> QED
      BY <1>1, <2>1, <2>2, <2>3, <3>2, <3>3, RowStep
  <2> QED
    BY <1>3, <2>4, <2>5
<1>4. \A i \in Finished : tasks[i] # "done" => tasks[i] = "failed"
  BY DEF Finished
<1>5. CASE Finished # {}
  <2>1. PICK i \in Finished :
          /\ tasks' = Without(tasks, i) /\ UNCHANGED <<pc, work>>
          /\ \/ db' = db
             \/ tasks[i] # "done" /\ db' = handle_failed_request(i, FALSE, TRUE)
             \/ tasks[i] # "done" /\ db' = handle_failed_request(i, FALSE, FALSE)
    BY <1>5, Zenon DEF handle_ongoing_tasks
  <2> QED
    BY <1>3, <1>4, <2>1
<1> QED
  BY <1>2, <1>5

(* Every row may change by itself.                                         *)
LEMMA RowByRow ==
    ASSUME NEW t, TableOK(t), NEW u, u = [i \in DOMAIN t |-> u[i]],
           \A i \in DOMAIN t : u[i] \in Row /\ Fate(t[i], u[i]) /\ Kept(t[i], u[i])
    PROVE  Tame(t, u) /\ DOMAIN u = DOMAIN t
<1>1. DOMAIN u = DOMAIN t /\ u \in [DOMAIN u -> Row]
  <2> DEFINE v == [i \in DOMAIN t |-> u[i]]
  <2>1. DOMAIN v = DOMAIN t /\ v \in [DOMAIN t -> Row]
    OBVIOUS
  <2>2. u = v
    OBVIOUS
  <2> HIDE DEF v
  <2> QED
    BY <2>1, <2>2
<1>2. TableOK(u)
  BY <1>1 DEF TableOK, Fate
<1> QED
  BY <1>1, <1>2 DEF Tame

(* What no task works on is failed.                                        *)
LEMMA OrphanStep ==
    ASSUME Inv, set_orphaned_tasks_to_failed
    PROVE  Inv' /\ Fated
<1>1. UNCHANGED <<scenario, accepted, tasks, transactions, latest, l2Head, forks>>
  BY DEF set_orphaned_tasks_to_failed, world, budget, given
<1>2. PICK t, u : t = db /\ u = db'
  OBVIOUS
<1>3. TableOK(t)
  BY <1>2 DEF Inv
<1>4. PICK orphans : orphans = Orphans
  OBVIOUS
<1>5. \A i \in orphans : /\ i \in DOMAIN t /\ i \notin DOMAIN tasks
                         /\ t[i].status \in {"WitnessGeneration", "Execution"}
  BY <1>2, <1>4 DEF Orphans, fetch_requests_by_status
<1>6. u = [i \in DOMAIN t |-> IF i \notin orphans THEN t[i]
                              ELSE IF t[i].invalid THEN finish_invalidated_request(t, i)[i]
                              ELSE update_request_status(t, i, "Failed")[i]]
  BY <1>2, <1>4 DEF set_orphaned_tasks_to_failed, is_request_invalidated
<1>7. ASSUME NEW i \in orphans
      PROVE  /\ u[i].status \in {"Failed", "Invalidated"}
             /\ u[i] \in Row /\ Fate(t[i], u[i]) /\ Kept(t[i], u[i])
  <2>0. t[i] \in Row /\ t[i].invalid \in BOOLEAN
    BY <1>3, <1>5 DEF TableOK, Row
  <2>1. CASE t[i].invalid
    <3>1. PICK w : w = finish_invalidated_request(t, i)
      OBVIOUS
    <3>2. Touches(t, w, i) /\ w[i].status = "Invalidated"
      BY <1>3, <1>5, <2>1, <3>1, FinishTouches
    <3>3. u[i] = w[i]
      BY <1>5, <1>6, <2>1, <3>1
    <3>4. w[i] \in Row /\ Fate(t[i], w[i]) /\ Kept(t[i], w[i])
      BY <1>5, <3>2 DEF Touches, Tame, TableOK
    <3> QED
      BY <3>2, <3>3, <3>4
  <2>2. CASE ~t[i].invalid
    <3>1. PICK w : w = update_request_status(t, i, "Failed")
      OBVIOUS
    <3>2. Touches(t, w, i) /\ w[i].status = "Failed"
      BY <1>3, <1>5, <2>2, <3>1, StatusTouches DEF Statuses, ActiveStatuses
    <3>3. u[i] = w[i]
      BY <1>5, <1>6, <2>2, <3>1
    <3>4. w[i] \in Row /\ Fate(t[i], w[i]) /\ Kept(t[i], w[i])
      BY <1>5, <3>2 DEF Touches, Tame, TableOK
    <3> QED
      BY <3>2, <3>3, <3>4
  <2> QED
    BY <2>0, <2>1, <2>2
<1>8. \A i \in DOMAIN t \ orphans : u[i] = t[i] /\ u[i] \in Row /\ Fate(t[i], u[i]) /\ Kept(t[i], u[i])
  <2>1. \A i \in DOMAIN t \ orphans : u[i] = t[i]
    BY <1>6
  <2> QED
    BY <1>3, <2>1, RowStays DEF TableOK
<1>9. Tame(t, u) /\ DOMAIN u = DOMAIN t
  <2>1. u = [i \in DOMAIN t |-> u[i]]
    BY <1>6
  <2> QED
    BY <1>3, <1>7, <1>8, <2>1, RowByRow
<1>10. WorldOK' /\ AcceptedOK'
  BY <1>1 DEF Inv, WorldOK, AcceptedOK, mode
<1>11. TasksOK'
  BY <1>1, <1>2, <1>5, <1>8, <1>9 DEF Inv, TasksOK, mode
<1>12. WorkOK'
  BY DEF set_orphaned_tasks_to_failed, WorkOK, fetch_requests_by_status
<1>13. Earned
  <2> SUFFICES ASSUME NEW i \in DOMAIN db, i \in LiveAggregations', Verified(i)'
               PROVE  Verified(i)
    BY DEF Earned
  <2>1. i \notin orphans
    BY <1>2, <1>7 DEF LiveAggregations, Rows, ActiveStatuses
  <2> QED
    BY <1>1, <1>2, <1>8, <2>1 DEF Verified, mode
<1>14. Tame(db, db')
  BY <1>2, <1>9
<1> QED
  BY <1>1, <1>10, <1>11, <1>12, <1>13, <1>14, TameStep

(* The answers of the prover to a poll: whatever they are, the request's   *)
(* row is the only one that changes.                                       *)
Answered(i) ==
    \/ db' = db
    \/ db' = finish_invalidated_request(db, i)
    \/ \E unexecutable, split \in BOOLEAN : db' = handle_failed_request(i, unexecutable, split)
    \/ db' = update_proof_to_complete(db, i)
    \/ ~db[i].invalid /\ db' = update_request_status(db, i, "Cancelled")

LEMMA NetworkAnswers ==
    ASSUME NEW i, process_proof_request_status(i)
    PROVE  Answered(i) /\ (Polled(i) \/ NextIteration)
<1>1. CASE is_request_invalidated(db, i)
  <2>1. PollInvalidated(i)
    BY <1>1 DEF process_proof_request_status
  <2> QED
    BY <2>1 DEF PollInvalidated, Settle, Answered
<1>2. CASE ~is_request_invalidated(db, i)
  <2>1. CASE PollFailure(i)
    <3>1. PICK late \in BOOLEAN : late = (network[i] = "unexecutable")
      OBVIOUS
    <3>2. /\ \E split \in BOOLEAN : db' = handle_failed_request(i, late, split)
          /\ Polled(i) \/ NextIteration
      BY <2>1, <3>1 DEF PollFailure, Settle
    <3> QED
      BY <3>2 DEF Answered
  <2>2. CASE PollFulfilled(i)
    BY <2>2 DEF PollFulfilled, Settle, Answered
  <2>3. CASE PollPending(i)
    BY <1>2, <2>3 DEF PollPending, Settle, Answered, is_request_invalidated
  <2> QED
    BY <1>2, <2>1, <2>2, <2>3 DEF process_proof_request_status
<1> QED
  BY <1>1, <1>2

LEMMA ClusterAnswers ==
    ASSUME NEW i, process_cluster_proof_status(i)
    PROVE  Answered(i) /\ (Polled(i) \/ NextIteration)
<1>1. ASSUME Discard(i) PROVE Answered(i)
  BY <1>1 DEF Discard, Settle, Answered
<1>2. ASSUME ClusterPollError(i) PROVE Answered(i)
  <2>1. Discard(i) \/ UNCHANGED <<db, network>>
    BY <1>2 DEF ClusterPollError
  <2> QED
    BY <1>1, <2>1 DEF Answered
<1>3. ASSUME DiscardFails(i) PROVE Answered(i) /\ NextIteration
  BY <1>3 DEF DiscardFails, Settle, Answered
<1> QED
  BY <1>1, <1>2, <1>3 DEF process_cluster_proof_status, Settle, Answered

LEMMA AnswerTouches ==
    ASSUME TableOK(db), NEW i \in DOMAIN db, db[i].status = "Prove", Answered(i)
    PROVE  Touches(db, db', i)
<1>0. db[i].status \in InFlight \union {"Unrequested", "Invalidated"} /\ db[i].invalid \in BOOLEAN
  BY DEF InFlight, TableOK, Row
<1>1. PICK t, u : t = db /\ u = db'
  OBVIOUS
<1>2. Touches(t, t, i)
  BY <1>1, TableStays DEF Touches
<1>3. CASE db' = finish_invalidated_request(db, i)
  <2>1. Touches(t, u, i)
    BY <1>1, <1>3, FinishTouches
  <2> QED
    BY <1>1, <2>1
<1>4. CASE \E unexecutable, split \in BOOLEAN : db' = handle_failed_request(i, unexecutable, split)
  BY <1>0, <1>4, FailureTouches
<1>5. CASE db' = update_proof_to_complete(db, i)
  <2>1. CASE CanComplete(t, i)
    <3>1. ~t[i].invalid /\ u = update_request_status(t, i, "Complete")
      BY <1>1, <1>5, <2>1 DEF CanComplete, update_proof_to_complete
    <3>2. Touches(t, u, i)
      BY <1>1, <3>1, StatusTouches DEF Statuses, ActiveStatuses
    <3> QED
      BY <1>1, <3>2
  <2>2. CASE ~CanComplete(t, i)
    BY <1>1, <1>2, <1>5, <2>2 DEF update_proof_to_complete
  <2> QED
    BY <2>1, <2>2
<1>6. CASE ~db[i].invalid /\ db' = update_request_status(db, i, "Cancelled")
  <2>1. Touches(t, u, i)
    BY <1>1, <1>6, StatusTouches DEF Statuses, ActiveStatuses
  <2> QED
    BY <1>1, <2>1
<1> QED
  BY <1>1, <1>2, <1>3, <1>4, <1>5, <1>6 DEF Answered

LEMMA PollStep ==
    ASSUME Inv, handle_proving_requests
    PROVE  Inv' /\ Fated
<1>1. UNCHANGED <<scenario, accepted, tasks, transactions, latest, l2Head, forks>>
  BY DEF handle_proving_requests, world, given
<1>2. CASE work = {}
  <2>1. WorkOK' /\ UNCHANGED db
    BY <1>2, WorkDropped DEF handle_proving_requests, Goto
  <2>2. WorldOK'
    BY <1>1 DEF Inv, WorldOK
  <2> QED
    BY <1>1, <2>1, <2>2, QuietStep
<1>3. CASE work # {}
  <2>1. PICK i \in work : IF mode = "cluster" THEN process_cluster_proof_status(i)
                                              ELSE process_proof_request_status(i)
    BY <1>3 DEF handle_proving_requests
  <2>2. Answered(i) /\ (Polled(i) \/ NextIteration)
    BY <2>1, NetworkAnswers, ClusterAnswers
  <2>3. \A j \in work : j \in DOMAIN db /\ db[j].status = "Prove"
    BY DEF handle_proving_requests, Inv, WorkOK
  <2>4. Touches(db, db', i)
    BY <2>2, <2>3, AnswerTouches DEF Inv
  <2>5. \A j \in DOMAIN db \ {i} : j \in DOMAIN db' /\ db'[j] = db[j]
    BY <2>4 DEF Touches
  <2>6. WorkOK'
    <3>1. CASE Polled(i)
      BY <2>3, <2>5, <3>1 DEF Polled, WorkOK, handle_proving_requests
    <3>2. CASE NextIteration
      BY <3>2, WorkDropped DEF NextIteration, Goto
    <3> QED
      BY <2>2, <3>1, <3>2
  <2>7. i \in DOMAIN tasks => tasks[i] = "done"
    BY <2>3 DEF Inv, TasksOK, TaskOK
  <2>8. i \in DOMAIN tasks' => TaskOK(db'[i], tasks'[i], mode)
    BY <1>1, <2>7 DEF TaskOK
  <2>9. Verified(i)
    BY <2>3 DEF Verified
  <2> QED
    BY <1>1, <2>3, <2>4, <2>6, <2>8, <2>9, RowStep
<1> QED
  BY <1>2, <1>3

(* The relay of an aggregation is recorded.                                *)
LEMMA RelayedStep ==
    ASSUME Inv, update_relayed
    PROVE  Inv' /\ Fated
<1>1. UNCHANGED <<scenario, accepted, tasks, transactions, latest, l2Head, forks>>
  BY DEF update_relayed, world, budget, given
<1>2. WorkOK'
  BY WorkDropped DEF update_relayed, NextIteration, Goto
<1>3. PICK i \in work : db' = update_request_to_relayed(db, i)
  BY DEF update_relayed
<1>4. i \in DOMAIN db /\ db[i].type = "Aggregation"
  BY DEF update_relayed, Inv, WorkOK
<1>5. CASE CanRelay(db, i)
  <2>1. PICK t, u : t = db /\ u = db'
    OBVIOUS
  <2>2. t[i].status = "Complete" /\ ~t[i].invalid /\ u = update_request_status(t, i, "Relayed")
    BY <1>3, <1>5, <2>1 DEF CanRelay, update_request_to_relayed
  <2>3. Touches(t, u, i) /\ u[i].status = "Relayed"
    BY <1>4, <2>1, <2>2, StatusTouches DEF Statuses, ActiveStatuses, Inv
  <2>4. Touches(db, db', i) /\ db'[i].status = "Relayed"
    BY <2>1, <2>3
  <2>5. i \in DOMAIN tasks => tasks[i] = "done"
    BY <2>1, <2>2 DEF Inv, TasksOK, TaskOK
  <2>6. i \in DOMAIN tasks' => TaskOK(db'[i], tasks'[i], mode)
    BY <1>1, <2>5 DEF TaskOK
  <2>7. i \notin LiveAggregations'
    BY <2>4 DEF LiveAggregations, Rows, ActiveStatuses
  <2> QED
    BY <1>1, <1>2, <1>4, <2>4, <2>6, <2>7, RowStep
<1>6. CASE ~CanRelay(db, i)
  <2>1. UNCHANGED db
    BY <1>3, <1>6 DEF update_request_to_relayed
  <2>2. WorldOK'
    BY <1>1 DEF Inv, WorldOK
  <2> QED
    BY <1>1, <1>2, <2>1, <2>2, QuietStep
<1> QED
  BY <1>5, <1>6

(* The planned ranges are added.                                           *)
LEMMA AddRangesStep ==
    ASSUME Inv, add_new_ranges
    PROVE  Inv' /\ Fated
<1>1. UNCHANGED <<scenario, accepted, tasks, transactions, latest, l2Head, forks>>
  BY DEF add_new_ranges, world, budget, given
<1>2. WorkOK'
  BY <1>1, WorkDropped DEF add_new_ranges, Goto, mode
<1>3. PICK t, plan : t = db /\ plan = Plan
  OBVIOUS
<1>4. plan \in SUBSET (Block \X Block) /\ TableOK(t)
  BY <1>3, PlanIsRanges DEF Inv, WorldOK
<1>5. PICK u : u = insert_requests(t, plan)
  OBVIOUS
<1>6. db' = u
  BY <1>3, <1>5 DEF add_new_ranges
<1>7. /\ Tame(t, u) /\ DOMAIN t \subseteq DOMAIN u
      /\ \A i \in DOMAIN t : u[i] = t[i]
  BY <1>4, <1>5, RangesInserted
<1>8. WorldOK' /\ AcceptedOK'
  BY <1>1 DEF Inv, WorldOK, AcceptedOK, mode
<1>9. TasksOK'
  BY <1>1, <1>3, <1>6, <1>7 DEF Inv, TasksOK, mode
<1>10. Earned
  BY <1>1, <1>3, <1>6, <1>7 DEF Earned, Verified, mode
<1>11. Tame(db, db')
  BY <1>3, <1>6, <1>7
<1> QED
  BY <1>1, <1>2, <1>8, <1>9, <1>10, <1>11, TameStep
-----------------------------------------------------------------------------
(* The tasks.                                                              *)

(* The version of an L1 block is a number.                                 *)
LEMMA CanonicalType ==
    ASSUME WorldOK, NEW n \in 0 .. MaxL1
    PROVE  Canonical(n) \in (0 .. MaxL1) \X Nat /\ Canonical(n)[1] = n
<1>1. PICK v \in Nat : v = Len(forks)
  BY DEF WorldOK
<1>2. PICK past : past = {k \in 1 .. v : forks[k] <= n}
  OBVIOUS
<1>3. VersionOn(n, v) = IF past = {} THEN 0 ELSE CHOOSE k \in past : \A j \in past : j <= k
  BY <1>2 DEF VersionOn
<1>4. VersionOn(n, v) \in Nat
  <2>1. CASE past = {}
    BY <1>3, <2>1
  <2>2. CASE past # {}
    <3>1. past \in SUBSET (0 .. v)
      BY <1>2
    <3>2. \E k \in past : \A j \in past : j <= k
      BY <2>2, <3>1, GreatestExists
    <3>3. VersionOn(n, v) \in past
      BY <1>3, <2>2, <3>2, Zenon
    <3>4. past \subseteq Nat
      BY <3>1
    <3> QED
      BY <3>3, <3>4, Zenon
  <2> QED
    BY <2>1, <2>2
<1>5. Canonical(n) = <<n, VersionOn(n, v)>>
  BY <1>1 DEF Canonical
<1> QED
  BY <1>4, <1>5

(* The L1 head of a range that is not completed yet is recorded.           *)
LEMMA HeadTouches ==
    ASSUME NEW t, TableOK(t), NEW i \in DOMAIN t, NEW h \in (0 .. MaxL1) \X Nat,
           h \in Chain, t[i].status = "WitnessGeneration"
    PROVE  LET u == update_l1_head(t, i, h)
           IN  Touches(t, u, i) /\ u[i].status = t[i].status /\ u[i].type = t[i].type
<1>0. t \in [DOMAIN t -> Row] /\ t[i] \in Row
  BY DEF TableOK
<1> DEFINE q == [t[i] EXCEPT !.head = h]
<1>1. update_l1_head(t, i, h) = [t EXCEPT ![i] = q]
  BY DEF update_l1_head
<1>2. /\ q \in Row /\ q.status = t[i].status /\ q.type = t[i].type /\ q.start = t[i].start
      /\ q.end = t[i].end /\ q.invalid = t[i].invalid /\ q.checkpoint = t[i].checkpoint
      /\ q.head = h
  BY <1>0 DEF Row
<1> HIDE DEF q
<1>4. Fate(t[i], q)
  BY <1>2 DEF Fate, Live, TableOK
<1>5. Kept(t[i], q)
  BY DEF Kept
<1>6. PICK u : u = [t EXCEPT ![i] = q]
  OBVIOUS
<1>7. Tame(t, u) /\ DOMAIN u = DOMAIN t /\ \A j \in DOMAIN t : u[j] = IF j = i THEN q ELSE t[j]
  BY <1>2, <1>4, <1>5, <1>6, RowChanges
<1> QED
  BY <1>1, <1>2, <1>6, <1>7 DEF Touches

(* A task takes a step with its row. No step of a task concerns a row that *)
(* is being proved.                                                        *)
LEMMA TaskRowStep ==
    ASSUME Inv, NEW i \in DOMAIN tasks, Touches(db, db', i), db[i].status # "Prove",
           UNCHANGED <<scenario, accepted, transactions, latest, l2Head, forks, pc, work>>,
           NEW stage, tasks' = [tasks EXCEPT ![i] = stage], TaskOK(db'[i], stage, mode),
           mode = "agglayer" /\ i \in LiveAggregations' /\ Verified(i)' =>
               Verified(i) \/ BackedRow(db, db[i])
    PROVE  Inv' /\ Fated
<1>1. i \in DOMAIN db
  BY DEF Inv, TasksOK
<1>2. /\ Tame(db, db') /\ DOMAIN db \subseteq DOMAIN db'
      /\ \A j \in DOMAIN db \ {i} : db'[j] = db[j]
  BY DEF Touches
<1>3. WorkOK'
  <2>1. \A j \in DOMAIN db : db[j].status = "Prove" => db'[j].status = "Prove"
    BY <1>2
  <2> QED
    BY <1>2, <2>1, WorkKept
<1>4. /\ \A j \in DOMAIN tasks' \ {i} : j \in DOMAIN tasks /\ tasks'[j] = tasks[j]
      /\ i \in DOMAIN tasks' => TaskOK(db'[i], tasks'[i], mode)
  OBVIOUS
<1> QED
  BY <1>1, <1>3, <1>4, RowStep

(* A task takes a step without changing its row.                           *)
LEMMA TaskStageStep ==
    ASSUME Inv, NEW i \in DOMAIN tasks, UNCHANGED db, db[i].status # "Prove",
           UNCHANGED <<scenario, accepted, transactions, latest, l2Head, forks, pc, work>>,
           NEW stage, tasks' = [tasks EXCEPT ![i] = stage], TaskOK(db[i], stage, mode),
           mode = "agglayer" /\ stage \in {"request", "submit"} =>
               \/ tasks[i] \in {"request", "submit"}
               \/ BackedRow(db, db[i])
               \/ db[i].type # "Aggregation"
    PROVE  Inv' /\ Fated
<1>1. PICK t : t = db
  OBVIOUS
<1>2. Touches(t, t, i)
  BY <1>1, TableStays DEF Touches, Inv
<1>3. Touches(db, db', i)
  BY <1>1, <1>2
<1>4. ASSUME mode = "agglayer", i \in LiveAggregations', Verified(i)'
      PROVE  Verified(i) \/ BackedRow(db, db[i])
  <2>1. db[i].type = "Aggregation" /\ tasks'[i] = stage
    BY <1>4 DEF LiveAggregations, Rows
  <2> QED
    BY <1>4, <2>1 DEF Verified, mode
<1> QED
  BY <1>3, <1>4, TaskRowStep

LEMMA StartStep ==
    ASSUME Inv, NEW i \in DOMAIN tasks, TaskStart(i),
           UNCHANGED <<scenario, accepted, transactions, latest, l2Head, forks, pc, work>>
    PROVE  Inv' /\ Fated
<1>1. i \in DOMAIN db /\ db[i].status \in {"Unrequested", "Invalidated"} /\ TableOK(db)
  BY DEF TaskStart, Inv, TasksOK, TaskOK
<1>2. CASE CanStart(db, i)
  <2>1. PICK t, u : t = db /\ u = db'
    OBVIOUS
  <2>2. /\ t[i].status = "Unrequested" /\ ~t[i].invalid
        /\ u = update_request_status(t, i, "WitnessGeneration")
    BY <1>2, <2>1 DEF TaskStart, CanStart, try_start_witness_generation
  <2>3. Touches(t, u, i) /\ u[i].status = "WitnessGeneration"
    BY <1>1, <2>1, <2>2, StatusTouches DEF Statuses, ActiveStatuses
  <2>4. Touches(db, db', i) /\ db'[i].status = "WitnessGeneration"
    BY <2>1, <2>3
  <2>5. tasks' = [tasks EXCEPT ![i] = "witness"]
    BY <1>2 DEF TaskStart, Stage
  <2>6. TaskOK(db'[i], "witness", mode)
    BY <2>4 DEF TaskOK
  <2>7. mode = "agglayer" => ~Verified(i)'
    BY <2>4, <2>5 DEF Verified, mode
  <2> QED
    BY <1>1, <2>4, <2>5, <2>6, <2>7, TaskRowStep
<1>3. CASE ~CanStart(db, i)
  <2>1. UNCHANGED db
    BY <1>3 DEF TaskStart, try_start_witness_generation
  <2>2. PICK stage \in {"report", "done"} : tasks' = [tasks EXCEPT ![i] = stage]
    BY <1>3 DEF TaskStart, Stage
  <2>3. TaskOK(db[i], stage, mode) /\ stage \notin {"request", "submit"} /\ db[i].status # "Prove"
    BY <1>1, <2>2 DEF TaskOK
  <2> QED
    BY <2>1, <2>2, <2>3, TaskStageStep
<1> QED
  BY <1>2, <1>3

LEMMA RangeWitnessStep ==
    ASSUME Inv, NEW i \in DOMAIN tasks, range_proof_witnessgen(i),
           UNCHANGED <<scenario, accepted, transactions, latest, l2Head, forks, pc, work>>
    PROVE  Inv' /\ Fated
<1>1. i \in DOMAIN db /\ db[i].status = "WitnessGeneration" /\ TableOK(db) /\ db[i].type = "Range"
  BY DEF range_proof_witnessgen, Inv, TasksOK, TaskOK
<1>2. PICK n \in L1Blocks : db' = update_l1_head(db, i, Canonical(n))
  BY DEF range_proof_witnessgen
<1>3. PICK h \in (0 .. MaxL1) \X Nat : h = Canonical(n)
  <2>1. n \in 0 .. MaxL1
    BY ValidityAssumption DEF L1Blocks
  <2> QED
    BY <2>1, CanonicalType DEF Inv
<1>4. PICK t, u : t = db /\ u = db'
  OBVIOUS
<1>5. u = update_l1_head(t, i, h)
  BY <1>2, <1>3, <1>4
<1>6. Touches(t, u, i) /\ u[i].status = "WitnessGeneration" /\ u[i].type = "Range"
  <2>1. h \in Chain
    BY <1>3 DEF Chain, L1Blocks
  <2> QED
    BY <1>1, <1>4, <1>5, <2>1, HeadTouches
<1>7. Touches(db, db', i) /\ db'[i].status = "WitnessGeneration" /\ db'[i].type = "Range"
  BY <1>4, <1>6
<1>8. tasks' = [tasks EXCEPT ![i] = "request"]
  BY DEF range_proof_witnessgen, Stage
<1>9. TaskOK(db'[i], "request", mode)
  BY <1>7 DEF TaskOK
<1>10. i \notin LiveAggregations'
  BY <1>7 DEF LiveAggregations, Rows
<1> QED
  BY <1>1, <1>7, <1>8, <1>9, <1>10, TaskRowStep

LEMMA RequestStep ==
    ASSUME Inv, NEW i \in DOMAIN tasks, TaskRequest(i),
           UNCHANGED <<scenario, accepted, transactions, latest, l2Head, forks, pc, work>>
    PROVE  Inv' /\ Fated
<1>1. i \in DOMAIN db /\ db[i].status = "WitnessGeneration" /\ TableOK(db)
  BY DEF TaskRequest, Inv, TasksOK, TaskOK
<1>2. CASE db[i].invalid
  <2>1. PICK t, u : t = db /\ u = db'
    OBVIOUS
  <2>2. u = finish_invalidated_request(t, i) /\ tasks' = [tasks EXCEPT ![i] = "done"]
    BY <1>2, <2>1 DEF TaskRequest, is_request_invalidated, Stage
  <2>3. Touches(t, u, i) /\ u[i].status = "Invalidated"
    BY <1>1, <1>2, <2>1, <2>2, FinishTouches
  <2>4. Touches(db, db', i) /\ db'[i].status = "Invalidated"
    BY <2>1, <2>3
  <2>5. i \notin LiveAggregations' /\ TaskOK(db'[i], "done", mode)
    BY <2>4 DEF LiveAggregations, Rows, ActiveStatuses, TaskOK
  <2> QED
    BY <1>1, <2>2, <2>4, <2>5, TaskRowStep
<1>3. CASE ~db[i].invalid
  <2>1. UNCHANGED db /\ tasks' = [tasks EXCEPT ![i] = "submit"] /\ tasks[i] = "request"
    BY <1>3 DEF TaskRequest, is_request_invalidated, Stage
  <2>2. TaskOK(db[i], "submit", mode) /\ db[i].status # "Prove"
    BY <1>1 DEF TaskOK
  <2> QED
    BY <2>1, <2>2, TaskStageStep
<1>4. db[i].invalid \in BOOLEAN
  BY <1>1 DEF TableOK, Row
<1> QED
  BY <1>2, <1>3, <1>4

(* The proof is requested: an aggregation's witness was made before.       *)
LEMMA ProofRequestStep ==
    ASSUME Inv, NEW i \in DOMAIN tasks, tasks[i] = "submit", RequestProof(i),
           UNCHANGED <<scenario, accepted, transactions, latest, l2Head, forks, pc, work>>
    PROVE  Inv' /\ Fated
<1>1. i \in DOMAIN db /\ db[i].status = "WitnessGeneration" /\ TableOK(db)
  BY DEF Inv, TasksOK, TaskOK
<1>2. PICK t, u : t = db /\ u = db'
  OBVIOUS
<1>3. u = update_request_status(t, i, "Prove") /\ tasks' = [tasks EXCEPT ![i] = "done"]
  BY <1>2 DEF RequestProof, update_request_to_prove, update_request_status, Stage
<1>4. Touches(t, u, i) /\ u[i].status = "Prove"
  BY <1>1, <1>2, <1>3, StatusTouches DEF Statuses, ActiveStatuses, InFlight
<1>5. Touches(db, db', i) /\ Verified(i) /\ TaskOK(db'[i], "done", mode)
  BY <1>2, <1>4 DEF Verified, TaskOK
<1> QED
  BY <1>1, <1>3, <1>5, TaskRowStep

LEMMA MockSteps ==
    ASSUME Inv, NEW i \in DOMAIN tasks, generate_mock_proof(i) \/ store_completed_proof(i),
           UNCHANGED <<scenario, accepted, transactions, latest, l2Head, forks, pc, work>>
    PROVE  Inv' /\ Fated
<1>1. i \in DOMAIN db /\ TableOK(db)
  BY DEF Inv, TasksOK
<1>2. PICK t, u : t = db /\ u = db'
  OBVIOUS
<1>3. CASE generate_mock_proof(i)
  <2>1. /\ t[i].status = "WitnessGeneration" /\ mode = "mock"
        /\ u = update_request_status(t, i, "Execution") /\ tasks' = [tasks EXCEPT ![i] = "store"]
    BY <1>2, <1>3 DEF generate_mock_proof, Stage, Inv, TasksOK, TaskOK
  <2>2. Touches(t, u, i) /\ u[i].status = "Execution"
    BY <1>1, <1>2, <2>1, StatusTouches DEF Statuses, ActiveStatuses, InFlight
  <2>3. Touches(db, db', i) /\ TaskOK(db'[i], "store", mode)
    BY <1>2, <2>1, <2>2 DEF TaskOK
  <2> QED
    BY <1>2, <2>1, <2>3, TaskRowStep
<1>4. CASE store_completed_proof(i)
  <2>1. t[i].status = "Execution" /\ mode = "mock"
    BY <1>2, <1>4 DEF store_completed_proof, Inv, TasksOK, TaskOK
  <2>2. CASE CanComplete(t, i)
    <3>1. /\ ~t[i].invalid /\ u = update_request_status(t, i, "Complete")
          /\ tasks' = [tasks EXCEPT ![i] = "done"]
      BY <1>2, <1>4, <2>2 DEF store_completed_proof, CanComplete, update_proof_to_complete, Stage
    <3>2. Touches(t, u, i)
      BY <1>1, <1>2, <2>1, <3>1, StatusTouches DEF Statuses, ActiveStatuses, InFlight
    <3>3. Touches(db, db', i) /\ TaskOK(db'[i], "done", mode)
      BY <1>2, <3>2 DEF TaskOK
    <3> QED
      BY <1>2, <2>1, <3>1, <3>3, TaskRowStep
  <2>3. CASE ~CanComplete(t, i)
    <3>1. t[i].invalid \in BOOLEAN
      BY <1>1, <1>2 DEF TableOK, Row
    <3>2. /\ t[i].invalid /\ u = finish_invalidated_request(t, i)
          /\ tasks' = [tasks EXCEPT ![i] = "done"]
      BY <1>2, <1>4, <2>1, <2>3, <3>1
         DEF store_completed_proof, CanComplete, is_request_invalidated, Stage
    <3>3. Touches(t, u, i)
      BY <1>1, <1>2, <3>2, FinishTouches
    <3>4. Touches(db, db', i) /\ TaskOK(db'[i], "done", mode)
      BY <1>2, <3>3 DEF TaskOK
    <3> QED
      BY <1>2, <2>1, <3>2, <3>4, TaskRowStep
  <2> QED
    BY <2>2, <2>3
<1> QED
  BY <1>3, <1>4

LEMMA ReportStep ==
    ASSUME Inv, NEW i \in DOMAIN tasks, external_proof_request_id(i),
           UNCHANGED <<scenario, accepted, transactions, latest, l2Head, forks, pc, work>>
    PROVE  Inv' /\ Fated
<1>1. i \in DOMAIN db /\ db[i].status \in {"Unrequested", "Invalidated"} /\ TableOK(db)
  BY DEF external_proof_request_id, Inv, TasksOK, TaskOK
<1>2. tasks' = [tasks EXCEPT ![i] = "done"]
  BY DEF external_proof_request_id, Stage
<1>3. CASE db[i].status = "Unrequested"
  <2>1. PICK t, u : t = db /\ u = db'
    OBVIOUS
  <2>2. u = update_request_status(t, i, "Cancelled") /\ ~t[i].invalid
    BY <1>1, <1>3, <2>1 DEF external_proof_request_id, TableOK, InFlight
  <2>3. Touches(t, u, i) /\ u[i].status = "Cancelled"
    BY <1>1, <1>3, <2>1, <2>2, StatusTouches DEF Statuses, ActiveStatuses, InFlight
  <2>4. Touches(db, db', i) /\ TaskOK(db'[i], "done", mode) /\ i \notin LiveAggregations'
    BY <2>1, <2>3 DEF TaskOK, LiveAggregations, Rows, ActiveStatuses
  <2> QED
    BY <1>1, <1>2, <2>4, TaskRowStep
<1>4. CASE db[i].status # "Unrequested"
  <2>1. UNCHANGED db /\ TaskOK(db[i], "done", mode) /\ db[i].status # "Prove"
    BY <1>1, <1>4 DEF external_proof_request_id, TaskOK
  <2> QED
    BY <1>2, <2>1, TaskStageStep
<1> QED
  BY <1>3, <1>4

LEMMA TaskFailsStep ==
    ASSUME Inv, NEW i \in DOMAIN tasks, TaskFails(i)
    PROVE  Inv' /\ Fated
<1>1. /\ UNCHANGED <<scenario, accepted, transactions, latest, l2Head, forks, pc, work, db>>
      /\ tasks' = [tasks EXCEPT ![i] = "failed"] /\ tasks[i] \notin {"done", "failed"}
  BY DEF TaskFails, given, world, Stage
<1>2. TaskOK(db[i], "failed", mode) /\ db[i].status # "Prove"
  BY <1>1 DEF Inv, TasksOK, TaskOK
<1> QED
  BY <1>1, <1>2, TaskStageStep
-----------------------------------------------------------------------------
(* Chains of completed ranges.                                             *)

(* The ordered list of a set of rows lists rows of the set.                *)
LEMMA SortedLists ==
    ASSUME NEW t, NEW ids, IsFiniteSet(ids), ids \subseteq Nat, NEW k, k = Cardinality(ids),
           \A i \in ids : t[i].start \in Nat
    PROVE  \E list \in [1 .. k -> {<<t[i].start, t[i].end>> : i \in ids}] :
               k \in Nat /\ Sorted(t, ids) = list
<1> DEFINE Below(i) == {j \in ids : \/ t[j].start < t[i].start
                                    \/ t[j].start = t[i].start /\ j <= i}
           rank == [i \in ids |-> Rank(t, ids, i)]
<1>1. k \in Nat
  BY FS_CardinalityType
<1>2. \A i \in ids : Rank(t, ids, i) = Cardinality(Below(i))
  BY DEF Rank
<1>3. ASSUME NEW i \in ids
      PROVE  IsFiniteSet(Below(i)) /\ Cardinality(Below(i)) \in 1 .. k /\ i \in Below(i)
  <2>1. i \in Below(i)
    OBVIOUS
  <2>2. Below(i) \in SUBSET ids
    OBVIOUS
  <2> HIDE DEF Below
  <2>3. IsFiniteSet(Below(i)) /\ Cardinality(Below(i)) \in Nat /\ Cardinality(Below(i)) <= k
    BY <2>2, FS_Subset, FS_CardinalityType
  <2>4. Cardinality(Below(i)) # 0
    BY <2>1, <2>3, FS_EmptySet
  <2> QED
    BY <1>1, <2>1, <2>3, <2>4
<1>4. ASSUME NEW i \in ids, NEW q \in ids,
             t[i].start < t[q].start \/ (t[i].start = t[q].start /\ i < q)
      PROVE  Cardinality(Below(i)) # Cardinality(Below(q))
  <2>0. i \in Nat /\ q \in Nat /\ t[i].start \in Nat /\ t[q].start \in Nat
    OBVIOUS
  <2>1. Below(i) \in SUBSET Below(q)
    <3> SUFFICES ASSUME NEW j \in Below(i) PROVE j \in Below(q)
      OBVIOUS
    <3>1. j \in ids /\ j \in Nat /\ t[j].start \in Nat
      OBVIOUS
    <3>2. t[j].start < t[i].start \/ (t[j].start = t[i].start /\ j <= i)
      OBVIOUS
    <3>3. t[j].start < t[q].start \/ (t[j].start = t[q].start /\ j <= q)
      BY <1>4, <2>0, <3>1, <3>2
    <3> QED
      BY <3>1, <3>3
  <2>2. q \notin Below(i)
    BY <1>4, <2>0
  <2> HIDE DEF Below
  <2> QED
    BY <1>3, <2>1, <2>2, FS_Subset
<1>5. ASSUME NEW i \in ids, NEW q \in ids, i # q
      PROVE  \/ t[i].start < t[q].start \/ (t[i].start = t[q].start /\ i < q)
             \/ t[q].start < t[i].start \/ (t[q].start = t[i].start /\ q < i)
  <2>1. i \in Nat /\ q \in Nat /\ t[i].start \in Nat /\ t[q].start \in Nat
    OBVIOUS
  <2> QED
    BY <1>5, <2>1
<1> HIDE DEF Below
<1>6. rank \in [ids -> 1 .. k] /\ \A i, q \in ids : rank[i] = rank[q] => i = q
  <2>1. \A i \in ids : rank[i] = Cardinality(Below(i)) /\ rank[i] \in 1 .. k
    BY <1>2, <1>3
  <2>2. \A i, q \in ids : rank[i] = rank[q] => i = q
    BY <1>4, <1>5, <2>1
  <2> QED
    BY <2>1, <2>2
<1> HIDE DEF rank
<1>7. rank \in Injection(ids, 1 .. k)
  BY <1>6, Fun_IsInj
<1>8. IsFiniteSet(1 .. k) /\ Cardinality(1 .. k) = k
  <2>1. 1 \in Int /\ k \in Int /\ (1 > k => k = 0) /\ k - 1 + 1 = k
    BY <1>1
  <2> QED
    BY <2>1, FS_Interval
<1>9. rank \in Surjection(ids, 1 .. k)
  BY <1>7, <1>8, FS_Injection
<1>10. \A n \in 1 .. k : \E i \in ids : rank[i] = n
  BY <1>9, Fun_SurjectionProperties
<1>11. \A n \in 1 .. k : \E i \in ids : Rank(t, ids, i) = n
  BY <1>10 DEF rank
<1> DEFINE at(n) == CHOOSE j \in ids : Rank(t, ids, j) = n
           list == [n \in 1 .. k |-> <<t[at(n)].start, t[at(n)].end>>]
<1>12. Sorted(t, ids) = list
  BY DEF Sorted
<1>13. \A n \in 1 .. k : at(n) \in ids
  BY <1>11
<1> HIDE DEF at
<1>14. list \in [1 .. k -> {<<t[i].start, t[i].end>> : i \in ids}]
  BY <1>13
<1> HIDE DEF list
<1> QED
  BY <1>1, <1>12, <1>14

(* A chain of ranges covers every block from its start to its end.         *)
LEMMA ChainCovers ==
    ASSUME NEW k \in Nat, NEW c, NEW lo \in Nat,
           \A n \in 1 .. k : Start(c[n]) \in Nat /\ End(c[n]) \in Nat,
           \A n \in 1 .. k : Start(c[n]) = IF n = 1 THEN lo ELSE End(c[n - 1]),
           k > 0, NEW b \in Nat, lo < b, b <= End(c[k])
    PROVE  \E n \in 1 .. k : Start(c[n]) < b /\ b <= End(c[n])
<1> DEFINE T == {n \in 1 .. k : b <= End(c[n])}
<1>1. T \in SUBSET Nat /\ k \in T
  OBVIOUS
<1>2. PICK n \in T : \A m \in T : n <= m
  <2> HIDE DEF T
  <2> QED
    BY <1>1, LeastNatural
<1>3. CASE n = 1
  BY <1>2, <1>3
<1>4. CASE n # 1
  <2>1. n - 1 \in 1 .. k /\ ~(n <= n - 1)
    BY <1>2, <1>4
  <2>2. n - 1 \notin T
    BY <1>2, <2>1
  <2>3. End(c[n - 1]) < b
    BY <2>1, <2>2
  <2> QED
    BY <1>2, <1>4, <2>3
<1> QED
  BY <1>3, <1>4

(* The completed ranges inside a range of blocks are rows of the table.    *)
LEMMA CompletedRows ==
    ASSUME NEW t, TableOK(t), NEW s, NEW e
    PROVE  LET ids == get_consecutive_complete_range_proofs(t, s, e)
               some == CompletedRanges(t, s)
           IN  /\ ids \subseteq DOMAIN t /\ some \subseteq DOMAIN t
               /\ IsFiniteSet(ids) /\ ids \subseteq Nat /\ IsFiniteSet(some) /\ some \subseteq Nat
               /\ \A i \in DOMAIN t : t[i].start \in Nat /\ t[i].end \in Nat
<1>1. PICK ids, some : /\ ids = get_consecutive_complete_range_proofs(t, s, e)
                       /\ some = CompletedRanges(t, s)
  OBVIOUS
<1>2. ids \subseteq DOMAIN t /\ some \subseteq DOMAIN t
  BY <1>1 DEF get_consecutive_complete_range_proofs, CompletedRanges, From, Rows
<1>3. IsFiniteSet(DOMAIN t) /\ DOMAIN t \subseteq Nat
  BY DEF TableOK
<1>4. IsFiniteSet(ids) /\ IsFiniteSet(some)
  BY <1>2, <1>3, FS_Subset
<1>5. \A i \in DOMAIN t : t[i].start \in Nat /\ t[i].end \in Nat
  BY DEF TableOK, Row, Block
<1> QED
  BY <1>1, <1>2, <1>3, <1>4, <1>5

(* What CoversExactly checks is what it is for.                            *)
LEMMA ExactCovers ==
    ASSUME NEW t, TableOK(t), NEW s \in Nat, NEW e \in Nat, CoversExactly(t, s, e),
           NEW b \in (s + 1) .. e
    PROVE  \E r \in get_consecutive_complete_range_proofs(t, s, e) : b \in Blocks(t[r])
<1>1. PICK ids : ids = get_consecutive_complete_range_proofs(t, s, e)
  OBVIOUS
<1>2. /\ ids \subseteq DOMAIN t /\ IsFiniteSet(ids) /\ ids \subseteq Nat
      /\ \A i \in DOMAIN t : t[i].start \in Nat /\ t[i].end \in Nat
  BY <1>1, CompletedRows
<1>3. PICK k : k = Cardinality(ids)
  OBVIOUS
<1>4. PICK chain \in [1 .. k -> {<<t[i].start, t[i].end>> : i \in ids}] :
        k \in Nat /\ Sorted(t, ids) = chain
  BY <1>2, <1>3, SortedLists
<1>5. \A n \in 1 .. k : \E i \in ids : chain[n] = <<t[i].start, t[i].end>>
  BY <1>4
<1>55. \A n \in 1 .. k : Start(chain[n]) \in Nat /\ End(chain[n]) \in Nat
  BY <1>2, <1>5 DEF Start, End
<1>6. Len(chain) = k /\ (chain # <<>> => k > 0)
  <2>1. chain \in Seq({<<t[i].start, t[i].end>> : i \in ids}) /\ Len(chain) = k
    BY <1>4
  <2>2. Len(chain) = 0 => chain = <<>>
    BY <2>1
  <2> QED
    BY <1>4, <2>1, <2>2
<1>7. /\ chain # <<>> /\ Start(chain[1]) = s /\ End(chain[k]) = e
      /\ \A n \in 1 .. k - 1 : End(chain[n]) = Start(chain[n + 1])
  BY <1>1, <1>4, <1>6 DEF CoversExactly
<1>8. \A n \in 1 .. k : Start(chain[n]) = IF n = 1 THEN s ELSE End(chain[n - 1])
  <2> SUFFICES ASSUME NEW n \in 1 .. k, n # 1 PROVE Start(chain[n]) = End(chain[n - 1])
    BY <1>7
  <2>1. n - 1 \in 1 .. k - 1 /\ (n - 1) + 1 = n
    BY <1>4
  <2> QED
    BY <1>7, <2>1
<1>9. PICK n \in 1 .. k : Start(chain[n]) < b /\ b <= End(chain[n])
  <2>1. b \in Nat /\ s < b /\ b <= End(chain[k]) /\ k > 0
    BY <1>6, <1>7
  <2> QED
    BY <1>4, <1>55, <1>8, <2>1, ChainCovers
<1>10. PICK r \in ids : chain[n] = <<t[r].start, t[r].end>>
  BY <1>5
<1>11. t[r].start < b /\ b <= t[r].end
  BY <1>9, <1>10 DEF Start, End
<1> QED
  BY <1>1, <1>2, <1>11 DEF Blocks

(* The blocks up to highest_contiguous_end are all in completed ranges     *)
(* that end no later.                                                      *)
LEMMA ContiguousCovers ==
    ASSUME NEW t, TableOK(t), NEW lo \in Block, NEW hi,
           hi = highest_contiguous_end(lo, fetch_completed_ranges(t, lo)).end
    PROVE  /\ hi \in Block
           /\ \A b \in (lo + 1) .. hi :
                \E r \in get_consecutive_complete_range_proofs(t, lo, hi) : b \in Blocks(t[r])
<1>1. PICK ids : ids = CompletedRanges(t, lo)
  OBVIOUS
<1>2. /\ ids \subseteq DOMAIN t /\ IsFiniteSet(ids) /\ ids \subseteq Nat
      /\ \A i \in DOMAIN t : t[i].start \in Nat /\ t[i].end \in Nat
  BY <1>1, CompletedRows
<1>3. PICK m : m = Cardinality(ids)
  OBVIOUS
<1>4. PICK list \in [1 .. m -> {<<t[i].start, t[i].end>> : i \in ids}] :
        m \in Nat /\ Sorted(t, ids) = list
  BY <1>2, <1>3, SortedLists
<1>5. \A n \in 1 .. m : \E i \in ids : list[n] = <<t[i].start, t[i].end>>
  BY <1>4
<1>6. \A n \in 1 .. m : /\ Start(list[n]) \in Nat /\ End(list[n]) \in Nat
                        /\ End(list[n]) \in Block
  <2>1. \A i \in DOMAIN t : t[i].end \in Block
    BY DEF TableOK, Row
  <2> QED
    BY <1>2, <1>5, <2>1 DEF Start, End
<1>7. Len(list) = m
  BY <1>4
<1> DEFINE EndOf(k) == IF k = 0 THEN lo ELSE End(list[k])
           chains == {k \in 0 .. m : \A n \in 1 .. k :
                         Start(list[n]) = EndOf(n - 1) /\ NonEmpty(list[n])}
<1>8. hi = EndOf(Max(chains))
  <2>1. fetch_completed_ranges(t, lo) = list
    BY <1>1, <1>4 DEF fetch_completed_ranges
  <2>2. highest_contiguous_end(lo, list).end = EndOf(Max(chains))
    BY <1>7 DEF highest_contiguous_end
  <2> QED
    BY <2>1, <2>2
<1>9. PICK k \in chains : k = Max(chains)
  <2>1. chains \in SUBSET (0 .. m) /\ 0 \in chains
    BY <1>4
  <2> HIDE DEF chains
  <2> QED
    BY <1>4, <2>1, MaxIn
<1>10. k \in 0 .. m /\ \A n \in 1 .. k : Start(list[n]) = EndOf(n - 1) /\ NonEmpty(list[n])
  BY <1>9
<1>11. hi = EndOf(k)
  BY <1>8, <1>9
<1> HIDE DEF chains
<1>12. \A n \in 1 .. k : n \in 1 .. m
  BY <1>4, <1>10
<1>13. hi \in Block
  BY <1>4, <1>6, <1>10, <1>11
(* No range of the chain ends behind it: the last one to do so would be    *)
(* followed by one that ends even later.                                   *)
<1>14. \A n \in 1 .. k : End(list[n]) <= hi
  <2> DEFINE over == {n \in 1 .. k : ~(End(list[n]) <= hi)}
  <2> SUFFICES ASSUME over # {} PROVE FALSE
    OBVIOUS
  <2>1. PICK n \in over : \A j \in over : j <= n
    <3>1. over \in SUBSET (0 .. m)
      BY <1>12
    <3> HIDE DEF over
    <3> QED
      BY <1>4, <3>1, GreatestExists
  <2>2. hi \in Nat /\ n \in 1 .. k /\ End(list[n]) > hi /\ k \in Nat
    BY <1>4, <1>6, <1>10, <1>12, <1>13, <2>1 DEF Block
  <2>3. n # k
    BY <1>11, <2>2
  <2>4. n + 1 \in 1 .. k /\ (n + 1) - 1 = n /\ n # 0 /\ ~(n + 1 <= n)
    BY <2>2, <2>3
  <2>5. Start(list[n + 1]) = End(list[n]) /\ NonEmpty(list[n + 1])
    BY <1>10, <2>4
  <2>6. End(list[n + 1]) > hi
    BY <1>6, <1>12, <2>2, <2>4, <2>5 DEF NonEmpty
  <2>7. n + 1 \in over
    BY <1>6, <1>12, <2>2, <2>4, <2>6
  <2> QED
    BY <2>1, <2>4, <2>7
<1>15. ASSUME NEW b \in (lo + 1) .. hi
       PROVE  \E r \in get_consecutive_complete_range_proofs(t, lo, hi) : b \in Blocks(t[r])
  <2>0. lo \in Nat /\ hi \in Nat /\ b \in Nat /\ lo < b /\ b <= hi /\ k \in Nat
    BY <1>4, <1>10, <1>13, ValidityAssumption DEF Block
  <2>1. k > 0
    BY <1>11, <2>0
  <2>2. \A n \in 1 .. k : Start(list[n]) = IF n = 1 THEN lo ELSE End(list[n - 1])
    BY <1>10, <2>0
  <2>3. PICK n \in 1 .. k : Start(list[n]) < b /\ b <= End(list[n])
    <3>1. b <= End(list[k])
      BY <1>11, <2>0, <2>1
    <3>2. \A n \in 1 .. k : Start(list[n]) \in Nat /\ End(list[n]) \in Nat
      BY <1>6, <1>12
    <3> QED
      BY <2>0, <2>1, <2>2, <3>1, <3>2, ChainCovers
  <2>4. PICK r \in ids : list[n] = <<t[r].start, t[r].end>>
    BY <1>5, <1>12
  <2>5. t[r].start < b /\ b <= t[r].end /\ t[r].end <= hi
    BY <1>14, <2>3, <2>4 DEF Start, End
  <2>6. r \in get_consecutive_complete_range_proofs(t, lo, hi)
    BY <1>1, <2>5 DEF CompletedRanges, From, get_consecutive_complete_range_proofs
  <2> QED
    BY <1>2, <2>0, <2>5, <2>6 DEF Blocks
<1> QED
  BY <1>13, <1>15

(* No L1 head of a completed range is above the greatest.                  *)
LEMMA HeadsBounded ==
    ASSUME NEW t, TableOK(t), NEW s, NEW e,
           get_consecutive_complete_range_proofs(t, s, e) # {}
    PROVE  /\ get_max_l1_head_block_number_for_range(t, s, e) \in 0 .. MaxL1
           /\ \A r \in get_consecutive_complete_range_proofs(t, s, e) :
                t[r].head[1] <= get_max_l1_head_block_number_for_range(t, s, e)
<1>1. PICK ids : ids = get_consecutive_complete_range_proofs(t, s, e)
  OBVIOUS
<1>2. PICK heads : heads = {t[i].head[1] : i \in ids}
  OBVIOUS
<1>3. \A i \in ids : t[i].head[1] \in 0 .. MaxL1
  <2>1. \A i \in DOMAIN t : t[i].head \in (0 .. MaxL1) \X Nat
    BY DEF TableOK, Row
  <2>2. ids \subseteq DOMAIN t
    BY <1>1, CompletedRows
  <2> QED
    BY <2>1, <2>2
<1>4. heads \in SUBSET (0 .. MaxL1) /\ heads # {}
  BY <1>1, <1>2, <1>3
<1>5. Max(heads) \in heads /\ \A h \in heads : h <= Max(heads)
  BY <1>4, MaxIn, ValidityAssumption
<1>6. get_max_l1_head_block_number_for_range(t, s, e) = Max(heads)
  BY <1>1, <1>2 DEF get_max_l1_head_block_number_for_range
<1> QED
  BY <1>1, <1>2, <1>4, <1>5, <1>6
-----------------------------------------------------------------------------
(* The steps that are about aggregations.                                  *)

(* An aggregation whose ranges are all there, below a checkpoint.          *)
LEMMA BackedWhere ==
    ASSUME NEW t, NEW row, NEW ids,
           ids = get_consecutive_complete_range_proofs(t, row.start, row.end),
           \A b \in (row.start + 1) .. row.end : \E r \in ids : b \in Blocks(t[r]),
           \A r \in ids : t[r].head[1] <= row.checkpoint[1]
    PROVE  BackedRow(t, row)
BY Zenon DEF BackedRow, Blocks

LEMMA AggregationWitnessStep ==
    ASSUME Inv, NEW i \in DOMAIN tasks, agg_proof_witnessgen(i),
           UNCHANGED <<scenario, accepted, transactions, latest, l2Head, forks, pc, work>>
    PROVE  Inv' /\ Fated
<1>1. /\ i \in DOMAIN db /\ db[i].status = "WitnessGeneration" /\ TableOK(db) /\ UNCHANGED db
  BY DEF agg_proof_witnessgen, Inv, TasksOK, TaskOK
<1>2. CASE tasks' = [tasks EXCEPT ![i] = "failed"]
  <2>1. TaskOK(db[i], "failed", mode) /\ db[i].status # "Prove"
    BY <1>1 DEF TaskOK
  <2> QED
    BY <1>1, <1>2, <2>1, TaskStageStep
<1>3. ASSUME tasks' = [tasks EXCEPT ![i] = "request"],
             CoversExactly(db, db[i].start, db[i].end),
             \A r \in get_consecutive_complete_range_proofs(db, db[i].start, db[i].end) :
                 IsAncestor(db[r].head, db[i].checkpoint)
      PROVE  Inv' /\ Fated
  <2>1. PICK t, row : t = db /\ row = db[i]
    OBVIOUS
  <2>2. PICK s \in Nat, e \in Nat : s = row.start /\ e = row.end
    BY <1>1, <2>1 DEF TableOK, Row, Block
  <2>3. PICK ids : ids = get_consecutive_complete_range_proofs(t, s, e)
    OBVIOUS
  <2>4. TableOK(t) /\ CoversExactly(t, s, e)
    BY <1>1, <1>3, <2>1, <2>2
  <2>5. \A b \in (s + 1) .. e : \E r \in ids : b \in Blocks(t[r])
    BY <2>3, <2>4, ExactCovers
  <2>6. \A r \in ids : t[r].head[1] <= row.checkpoint[1]
    BY <1>3, <2>1, <2>2, <2>3 DEF IsAncestor
  <2>7. BackedRow(t, row)
    BY <2>2, <2>3, <2>5, <2>6, BackedWhere
  <2>8. BackedRow(db, db[i])
    BY <2>1, <2>7
  <2>9. TaskOK(db[i], "request", mode) /\ db[i].status # "Prove"
    BY <1>1 DEF TaskOK
  <2> QED
    BY <1>1, <1>3, <2>8, <2>9, TaskStageStep
<1> QED
  BY <1>2, <1>3 DEF agg_proof_witnessgen, Stage

LEMMA TaskStep ==
    ASSUME Inv, NEW i \in DOMAIN tasks, Task(i)
    PROVE  Inv' /\ Fated
<1>1. UNCHANGED <<scenario, accepted, transactions, latest, l2Head, forks, pc, work>>
  BY DEF Task, world, budget, given
<1>2. CASE request_proof(i) \/ submit_cluster_proof(i)
  BY <1>1, <1>2, ProofRequestStep DEF request_proof, submit_cluster_proof
<1>3. CASE \/ TaskStart(i) \/ range_proof_witnessgen(i) \/ agg_proof_witnessgen(i)
           \/ TaskRequest(i) \/ generate_mock_proof(i) \/ store_completed_proof(i)
           \/ external_proof_request_id(i)
  BY <1>1, <1>3, StartStep, RangeWitnessStep, AggregationWitnessStep, RequestStep, MockSteps,
     ReportStep
<1> QED
  BY <1>2, <1>3 DEF Task

(* A new aggregation is alone with its start and backed, unless it is the  *)
(* external coordinator's.                                                 *)
LEMMA AggregationInserted ==
    ASSUME Inv, NEW row, NewAggregation(row), db' = insert_request(db, row),
           mode # "agglayer" => BackedRow(db, row) /\ ActiveAggregations(db, row.start) = {},
           mode = "agglayer" \/ create_aggregation_proofs \/ CheckpointBlockHash,
           scenario' = scenario, WorldOK', TasksOK', AcceptedOK',
           \A i \in DOMAIN tasks' : \/ i \in DOMAIN tasks /\ tasks'[i] = tasks[i]
                                    \/ tasks'[i] = "start",
           WorkOK' \/ (mode = "agglayer" /\ UNCHANGED <<pc, work>>)
    PROVE  Inv' /\ Fated
<1>1. PICK t, u, n : t = db /\ u = db' /\ n = Unused(db)
  OBVIOUS
<1>2. /\ TableOK(u) /\ n \notin DOMAIN t /\ DOMAIN u = DOMAIN t \union {n} /\ u[n] = row
      /\ \A i \in DOMAIN t : u[i] = t[i]
  <2>1. TableOK(t) /\ row \in Row /\ ~row.invalid /\ u = insert_request(t, row) /\ n = Unused(t)
    BY <1>1 DEF Inv, NewAggregation
  <2>2. LET w == insert_request(t, row) IN
        /\ TableOK(w) /\ Unused(t) \notin DOMAIN t
        /\ DOMAIN w = DOMAIN t \union {Unused(t)}
        /\ w[Unused(t)] = row /\ \A i \in DOMAIN t : w[i] = t[i]
    BY <2>1, RequestInserted, Zenon
  <2> QED
    BY <2>1, <2>2
<1>3. mode' = mode
  BY DEF mode
<1>4. Keeps(t, u)
  BY <1>2 DEF Keeps, Rows
<1>5. ASSUME NEW i \in LiveAggregations', i # n PROVE i \in LiveAggregations /\ db'[i] = db[i]
  BY <1>1, <1>2, <1>5 DEF LiveAggregations, Rows
<1>6. n \notin LiveAggregations /\ db'[n] = row
  BY <1>1, <1>2 DEF LiveAggregations, Rows
<1>7. OneOK'
  <2> SUFFICES ASSUME mode # "agglayer", NEW i \in LiveAggregations', NEW j \in LiveAggregations',
                      db'[i].start = db'[j].start
               PROVE  i = j
    BY <1>3 DEF OneOK
  <2>1. \A k \in LiveAggregations : db[k].start # row.start
    BY DEF ActiveAggregations, LiveAggregations
  <2> QED
    BY <1>5, <1>6, <2>1 DEF Inv, OneOK
<1>8. BackedOK'
  <2> SUFFICES ASSUME NEW a \in LiveAggregations', Verified(a)' PROVE BackedRow(db', db'[a])
    BY DEF BackedOK
  <2>1. CASE a = n
    <3>1. mode # "agglayer"
      <4>1. db'[n].status = "Unrequested"
        BY <1>6 DEF NewAggregation
      <4>2. n \notin DOMAIN tasks
        BY <1>1, <1>2 DEF Inv, TasksOK
      <4> QED
        BY <1>3, <2>1, <4>1, <4>2 DEF Verified
    <3>2. BackedRow(t, row)
      BY <1>1, <3>1
    <3>3. BackedRow(u, row)
      BY <1>4, <3>2, BackedCarries
    <3> QED
      BY <1>1, <1>6, <2>1, <3>3
  <2>2. CASE a # n
    <3>1. a \in LiveAggregations /\ db'[a] = db[a]
      BY <1>5, <2>2
    <3>2. Verified(a)
      BY <1>3, <3>1 DEF Verified
    <3>3. BackedRow(t, t[a])
      BY <1>1, <3>1, <3>2 DEF Inv, BackedOK
    <3>4. BackedRow(u, t[a])
      BY <1>4, <3>3, BackedCarries
    <3> QED
      BY <1>1, <3>1, <3>4
  <2> QED
    BY <2>1, <2>2
<1>9. WorkOK'
  <2> SUFFICES ASSUME UNCHANGED <<pc, work>>, mode = "agglayer"
               PROVE  WorkOK'
    OBVIOUS
  <2> QED
    BY <1>1, <1>2, <1>3 DEF Inv, WorkOK
<1>10. Fated
  <2>1. \A i \in DOMAIN t : Fate(t[i], u[i])
    <3>1. \A i \in DOMAIN t : t[i] \in Row /\ (t[i].invalid => t[i].status \in InFlight \union {"Invalidated"})
      BY <1>1 DEF Inv, TableOK
    <3> QED
      BY <1>2, <3>1, RowStays
  <2>2. u[n].head = NoBlock
    BY <1>2 DEF NewAggregation
  <2>3. \A a \in LiveAggregations' :
          IF a \in DOMAIN t THEN a \in LiveAggregations /\ RangesKept(t, u, t[a]) ELSE a = n
    <3>1. \A a \in LiveAggregations : a \in DOMAIN t
      BY <1>1 DEF LiveAggregations, Rows
    <3>2. \A a \in DOMAIN t : RangesKept(t, u, t[a])
      BY <1>4, KeepsRanges
    <3> QED
      BY <1>2, <1>5, <3>1, <3>2
  <2>4. Keeps(t, u)
    BY <1>4
  <2> QED
    BY <1>1, <1>2, <2>1, <2>2, <2>3, <2>4 DEF Fated
<1>11. TableOK(db)'
  BY <1>1, <1>2
<1> QED
  BY <1>7, <1>8, <1>9, <1>10, <1>11 DEF Inv

(* The external coordinator's request is accepted, and later inserted.     *)
LEMMA ExternalStep ==
    ASSUME Inv, NEW start \in Block, NEW upTo, NEW n \in L1Blocks,
           request_external_aggregation(start, upTo, n)
    PROVE  Inv' /\ Fated
<1>1. UNCHANGED <<scenario, db, tasks, pc, work, transactions, latest, l2Head, forks>>
  BY DEF request_external_aggregation, world
<1>2. PICK ids : ids = get_consecutive_complete_range_proofs(db, start, upTo)
  OBVIOUS
<1>3. PICK last : last = CHOOSE i \in ids : \A j \in ids : db[j].end <= db[i].end
  OBVIOUS
<1>4. /\ mode = "agglayer" /\ ids # {}
      /\ accepted' = {new_agg_request(start, db[last].end, Canonical(n))}
  BY <1>2, <1>3 DEF request_external_aggregation
<1>5. db[last].end \in Block
  <2>1. \A i \in ids : i \in DOMAIN db /\ db[i].end \in Block
    BY <1>2 DEF get_consecutive_complete_range_proofs, Rows, Inv, TableOK, Row
  <2>2. PICK ends : ends = {db[i].end : i \in ids}
    OBVIOUS
  <2>3. ends \in SUBSET (0 .. MaxBlock) /\ ends # {}
    BY <1>4, <2>1, <2>2 DEF Block
  <2>4. PICK x \in ends : \A y \in ends : y <= x
    BY <2>3, GreatestExists, ValidityAssumption
  <2>5. \E i \in ids : \A j \in ids : db[j].end <= db[i].end
    BY <2>2, <2>4
  <2>6. last \in ids
    BY <1>3, <2>5
  <2> QED
    BY <2>1, <2>6
<1>6. Canonical(n) \in Nat \X Nat /\ 0 \in 0 .. MaxL1
  <2>0. MaxL1 \in Nat
    BY ValidityAssumption
  <2>1. n \in 0 .. MaxL1 /\ MaxL1 \in Nat
    BY <2>0 DEF L1Blocks
  <2>2. Canonical(n) \in (0 .. MaxL1) \X Nat
    BY <2>1, CanonicalType DEF Inv
  <2> QED
    BY <2>1, <2>2
<1>7. NewAggregation(new_agg_request(start, db[last].end, Canonical(n)))
  <2>1. PICK e \in Block, c \in Nat \X Nat : e = db[last].end /\ c = Canonical(n)
    BY <1>5, <1>6
  <2>2. NewAggregation(new_agg_request(start, e, c))
    BY <1>6 DEF NewAggregation, new_agg_request, Row, Statuses, ActiveStatuses, NoBlock
  <2> QED
    BY <2>1, <2>2
<1>8. AcceptedOK'
  BY <1>1, <1>4, <1>7 DEF AcceptedOK, mode
<1>9. WorldOK' /\ TasksOK' /\ Earned
  BY <1>1 DEF Inv, WorldOK, TasksOK, Earned, Verified, mode
<1>10. PICK t : t = db
  OBVIOUS
<1>11. Tame(t, t)
  BY <1>10, TableStays DEF Inv
<1>12. Tame(db, db')
  BY <1>1, <1>10, <1>11
<1>13. WorkOK'
  BY <1>1, <1>12, WorkKept
<1> QED
  BY <1>1, <1>8, <1>9, <1>12, <1>13, TameStep

LEMMA InsertExternalStep ==
    ASSUME Inv, InsertExternal
    PROVE  Inv' /\ Fated
<1>1. /\ UNCHANGED <<scenario, pc, work, transactions, latest, l2Head, forks>> /\ accepted' = {}
  BY DEF InsertExternal, world
<1>2. PICK row \in accepted :
        db' = insert_request(db, row) /\ tasks' = With(tasks, Unused(db), "start")
  BY DEF InsertExternal
<1>3. NewAggregation(row) /\ mode = "agglayer"
  BY DEF Inv, AcceptedOK
<1>4. PICK t, u, n : t = db /\ u = db' /\ n = Unused(db)
  OBVIOUS
<1>5. n \notin DOMAIN t /\ DOMAIN u = DOMAIN t \union {n} /\ u[n] = row /\ \A i \in DOMAIN t : u[i] = t[i]
  <2>1. TableOK(t) /\ row \in Row /\ ~row.invalid /\ u = insert_request(t, row) /\ n = Unused(t)
    BY <1>2, <1>3, <1>4 DEF Inv, NewAggregation
  <2>2. LET w == insert_request(t, row) IN
        /\ TableOK(w) /\ Unused(t) \notin DOMAIN t
        /\ DOMAIN w = DOMAIN t \union {Unused(t)}
        /\ w[Unused(t)] = row /\ \A i \in DOMAIN t : w[i] = t[i]
    BY <2>1, RequestInserted, Zenon
  <2> QED
    BY <2>1, <2>2
<1>6. /\ DOMAIN tasks' = DOMAIN tasks \union {n} /\ tasks'[n] = "start"
      /\ \A j \in DOMAIN tasks : j # n => tasks'[j] = tasks[j]
  BY <1>2, <1>4 DEF With
<1>7. TasksOK'
  <2>1. TaskOK(u[n], "start", mode)
    BY <1>3, <1>5 DEF TaskOK, NewAggregation
  <2> QED
    BY <1>1, <1>4, <1>5, <1>6, <2>1 DEF Inv, TasksOK, mode
<1>8. WorldOK' /\ AcceptedOK'
  BY <1>1 DEF Inv, WorldOK, AcceptedOK
<1> QED
  BY <1>1, <1>2, <1>3, <1>6, <1>7, <1>8, AggregationInserted

(* The process starts again.                                               *)
LEMMA RestartStep ==
    ASSUME Inv, Restart
    PROVE  Inv' /\ Fated
<1>1. /\ UNCHANGED <<scenario, transactions, latest, l2Head, forks>> /\ accepted' = {}
      /\ tasks' = <<>> /\ DOMAIN tasks' = {}
  BY DEF Restart, world
<1>2. WorkOK'
  BY WorkDropped DEF Restart, NextIteration, Goto
<1>3. WorldOK' /\ AcceptedOK' /\ TasksOK'
  BY <1>1 DEF Inv, WorldOK, AcceptedOK, TasksOK
<1>4. PICK t, u : t = db /\ u = db'
  OBVIOUS
<1>5. PICK D : D = {j \in DOMAIN t : t[j].status \notin Deletable \/ t[j].invalid}
  OBVIOUS
<1>6. u = [i \in D |-> t[i]]
  BY <1>4, <1>5 DEF Restart, delete_all_requests_with_statuses, Deletable
<1>7. TableOK(t) /\ IsFiniteSet(DOMAIN t) /\ t \in [DOMAIN t -> Row]
  BY <1>4 DEF Inv, TableOK
<1>8. IsFiniteSet(D)
  BY <1>5, <1>7, FS_Subset
<1>9. DOMAIN u = D /\ (\A i \in D : u[i] = t[i]) /\ u \in [DOMAIN u -> Row]
  BY <1>5, <1>6, <1>7
<1>10. TableOK(u)
  BY <1>5, <1>7, <1>8, <1>9 DEF TableOK
<1>11. \A i \in DOMAIN t : Fate(t[i], t[i]) /\ Kept(t[i], t[i])
  BY <1>7, RowStays DEF TableOK
<1>12. Tame(t, u)
  BY <1>5, <1>9, <1>10, <1>11 DEF Tame
<1>13. Tame(db, db')
  BY <1>4, <1>12
<1>14. Earned
  BY <1>1, <1>4, <1>9 DEF Earned, Verified, mode, LiveAggregations, Rows
<1> QED
  BY <1>1, <1>2, <1>3, <1>13, <1>14, TameStep

(* Stale ranges are withdrawn together with every aggregation around one:  *)
(* what is left of an aggregation's ranges is all of them.                 *)
LEMMA InvalidateStep ==
    ASSUME Inv, InvalidateStaleRanges
    PROVE  Inv' /\ Fated
<1>1. UNCHANGED <<scenario, accepted, tasks, transactions, latest, l2Head, forks>>
  BY DEF InvalidateStaleRanges, world, budget, given
<1>2. WorkOK'
  BY WorkDropped DEF InvalidateStaleRanges, Goto
<1>3. WorldOK' /\ AcceptedOK'
  BY <1>1 DEF Inv, WorldOK, AcceptedOK, mode
<1>4. PICK t, u, stale : t = db /\ u = db' /\ stale = work
  OBVIOUS
<1>5. TableOK(t)
  BY <1>4 DEF Inv
<1> DEFINE Gone(i) == i \in stale \intersect Rows(t, "Range", {"Complete"})
           Around(i) == /\ i \in Rows(t, "Aggregation", ActiveStatuses)
                        /\ \E s \in stale : Contains(t[i], t[s])
           fate(i) == IF Gone(i) THEN [t[i] EXCEPT !.status = "Invalidated", !.invalid = TRUE]
                      ELSE IF Around(i)
                      THEN [t[i] EXCEPT !.invalid = TRUE,
                                        !.status = IF @ \in {"Unrequested", "Complete"}
                                                   THEN "Invalidated" ELSE @]
                      ELSE t[i]
<1>6. u = [i \in DOMAIN t |-> fate(i)]
  BY <1>4 DEF InvalidateStaleRanges, invalidate_noncanonical_ranges
<1>7. DOMAIN u = DOMAIN t /\ \A i \in DOMAIN t : u[i] = fate(i)
  BY <1>6
<1>8. ASSUME NEW i \in DOMAIN t
      PROVE  /\ fate(i) \in Row /\ Fate(t[i], fate(i))
             /\ \/ fate(i).status = t[i].status
                \/ fate(i).status = "Invalidated" /\ t[i].status \in {"Unrequested", "Complete"}
             /\ Gone(i) \/ Around(i) => fate(i).invalid
  <2>0. t[i] \in Row /\ (t[i].invalid => t[i].status \in InFlight \union {"Invalidated"})
    BY <1>5 DEF TableOK
  <2>1. CASE Gone(i)
    <3>1. t[i].status = "Complete" /\ ~t[i].invalid
      BY <2>1 DEF Rows
    <3>2. fate(i) = [t[i] EXCEPT !.status = "Invalidated", !.invalid = TRUE]
      BY <2>1
    <3> HIDE DEF fate
    <3> QED
      BY <2>0, <3>1, <3>2 DEF Row, Fate, Live, Statuses, ActiveStatuses
  <2>2. CASE ~Gone(i) /\ Around(i)
    <3>1. t[i].status \in ActiveStatuses /\ ~t[i].invalid
      BY <2>2 DEF Rows
    <3>2. PICK s : s = IF t[i].status \in {"Unrequested", "Complete"} THEN "Invalidated"
                                                                      ELSE t[i].status
      OBVIOUS
    <3>3. fate(i) = [t[i] EXCEPT !.invalid = TRUE, !.status = s]
      BY <2>0, <2>2, <3>2 DEF Row
    <3>4. s \in Statuses /\ s \in InFlight \union {"Invalidated"}
      BY <3>1, <3>2 DEF Statuses, ActiveStatuses, InFlight
    <3> HIDE DEF fate
    <3> QED
      BY <2>0, <3>1, <3>2, <3>3, <3>4 DEF Row, Fate, Live
  <2>3. CASE ~Gone(i) /\ ~Around(i)
    <3>1. fate(i) = t[i]
      BY <2>3
    <3>2. Fate(t[i], t[i])
      BY <2>0, RowStays
    <3> HIDE DEF fate
    <3> QED
      BY <2>0, <2>3, <3>1, <3>2
  <2> QED
    BY <2>1, <2>2, <2>3
<1>9. \A i \in DOMAIN t : ~Gone(i) /\ ~Around(i) => fate(i) = t[i]
  OBVIOUS
<1> HIDE DEF fate
<1>10. TableOK(u)
  <2>1. u \in [DOMAIN u -> Row]
    BY <1>6, <1>7, <1>8
  <2> QED
    BY <1>5, <1>7, <1>8, <2>1 DEF TableOK, Fate
<1>12. TasksOK'
  <2> SUFFICES ASSUME NEW i \in DOMAIN tasks PROVE i \in DOMAIN u /\ TaskOK(u[i], tasks[i], mode)
    BY <1>1, <1>4 DEF TasksOK, mode
  <2>1. i \in DOMAIN t /\ TaskOK(t[i], tasks[i], mode)
    BY <1>4 DEF Inv, TasksOK
  <2>2. \/ u[i].status = t[i].status
        \/ u[i].status = "Invalidated" /\ t[i].status \in {"Unrequested", "Complete"}
    BY <1>7, <1>8, <2>1
  <2> QED
    BY <1>7, <2>1, <2>2 DEF TaskOK
<1>13. ASSUME NEW i \in LiveAggregations'
       PROVE  /\ i \in DOMAIN t /\ ~Gone(i) /\ ~Around(i) /\ u[i] = t[i] /\ i \in LiveAggregations
  <2>1. i \in DOMAIN t /\ ~u[i].invalid /\ i \in Rows(u, "Aggregation", ActiveStatuses)
    BY <1>4, <1>7 DEF LiveAggregations, Rows
  <2>2. ~Gone(i) /\ ~Around(i)
    BY <1>7, <1>8, <2>1
  <2>3. u[i] = t[i]
    BY <1>7, <1>9, <2>1, <2>2
  <2> QED
    BY <1>4, <2>1, <2>2, <2>3 DEF LiveAggregations, Rows
<1>14. mode' = mode
  BY <1>1 DEF mode
<1>15. OneOK'
  BY <1>4, <1>13, <1>14 DEF OneOK, Inv
<1>16. ASSUME NEW a \in LiveAggregations' PROVE RangesKept(t, u, t[a])
  <2>1. u[a] = t[a] /\ a \in LiveAggregations /\ ~Around(a)
    BY <1>13
  <2>2. ASSUME NEW r \in get_consecutive_complete_range_proofs(t, t[a].start, t[a].end)
        PROVE  /\ u[r] = t[r]
               /\ r \in get_consecutive_complete_range_proofs(u, t[a].start, t[a].end)
    <3>1. /\ r \in Rows(t, "Range", {"Complete"}) /\ r \in DOMAIN t
          /\ t[r].start >= t[a].start /\ t[r].end <= t[a].end /\ t[r].type = "Range"
      BY DEF get_consecutive_complete_range_proofs, Rows
    <3>2. a \in DOMAIN t
      BY <1>13
    <3>3. Contains(t[a], t[r])
      <4>1. t[r].start \in Nat /\ t[a].start \in Nat
        BY <1>5, <3>1, <3>2 DEF TableOK, Row, Block
      <4> QED
        BY <3>1, <4>1 DEF Contains
    <3>4. a \in Rows(t, "Aggregation", ActiveStatuses)
      BY <1>4, <2>1 DEF LiveAggregations
    <3>5. r \notin stale
      BY <2>1, <3>3, <3>4
    <3>6. ~Gone(r) /\ ~Around(r)
      BY <3>1, <3>5 DEF Rows
    <3>7. u[r] = t[r]
      BY <1>7, <1>9, <3>1, <3>6
    <3> QED
      BY <1>7, <3>1, <3>7 DEF get_consecutive_complete_range_proofs, Rows
  <2> QED
    BY <2>2 DEF RangesKept
<1>17. Fated
  <2>1. pc' # "checkpoint_block_hash"
    BY DEF InvalidateStaleRanges, Goto
  <2>2. \A a \in LiveAggregations' : a \in DOMAIN t /\ a \in LiveAggregations
    BY <1>13
  <2> QED
    BY <1>4, <1>7, <1>8, <1>16, <2>1, <2>2 DEF Fated
<1>18. BackedOK'
  <2> SUFFICES ASSUME NEW a \in LiveAggregations', Verified(a)' PROVE BackedRow(db', db'[a])
    BY DEF BackedOK
  <2>1. u[a] = t[a] /\ a \in LiveAggregations /\ ~Around(a)
    BY <1>13
  <2>2. Verified(a)
    BY <1>1, <1>4, <1>14, <2>1 DEF Verified
  <2>3. BackedRow(t, t[a])
    BY <1>4, <2>1, <2>2 DEF Inv, BackedOK
  <2>4. BackedRow(u, t[a])
    BY <1>16, <2>3, Zenon DEF BackedRow, RangesKept
  <2> QED
    BY <1>4, <2>1, <2>4
<1>19. TableOK(db)'
  BY <1>4, <1>10
<1> QED
  BY <1>2, <1>3, <1>12, <1>15, <1>17, <1>18, <1>19 DEF Inv

(* What an aggregation of all completed ranges from the latest block on    *)
(* rests on.                                                               *)
LEMMA FreshIsBacked ==
    ASSUME Inv, NEW hi, hi = HighestContiguous.end, ~(hi - latest < SubmissionInterval),
           NEW m, m = get_max_l1_head_block_number_for_range(db, latest, hi)
    PROVE  /\ hi \in Block /\ m \in 0 .. MaxL1
           /\ \A c \in Nat \X Nat : c[1] >= m =>
                 /\ NewAggregation(new_agg_request(latest, hi, c))
                 /\ BackedRow(db, new_agg_request(latest, hi, c))
<1>1. PICK t, lo : t = db /\ lo = latest /\ lo \in Block
  BY DEF Inv, WorldOK
<1>2. TableOK(t) /\ hi = highest_contiguous_end(lo, fetch_completed_ranges(t, lo)).end
  BY <1>1 DEF Inv, HighestContiguous
<1>3. PICK ids : ids = get_consecutive_complete_range_proofs(t, lo, hi)
  OBVIOUS
<1>4. hi \in Block /\ \A b \in (lo + 1) .. hi : \E r \in ids : b \in Blocks(t[r])
  BY <1>1, <1>2, <1>3, ContiguousCovers
<1>5. ids # {}
  <2>1. SubmissionInterval \in Nat /\ SubmissionInterval > 0
    BY ValidityAssumption
  <2>2. lo \in Nat /\ hi \in Nat /\ ~(hi - lo < SubmissionInterval)
    BY <1>1, <1>4 DEF Block
  <2>3. lo + 1 \in (lo + 1) .. hi
    BY <2>1, <2>2
  <2> QED
    BY <1>4, <2>3
<1>6. m \in 0 .. MaxL1 /\ \A r \in ids : t[r].head[1] <= m
  <2>1. m = get_max_l1_head_block_number_for_range(t, lo, hi)
    BY <1>1
  <2> QED
    BY <1>2, <1>3, <1>5, <2>1, HeadsBounded
<1>7. ASSUME NEW c \in Nat \X Nat, c[1] >= m
      PROVE  /\ NewAggregation(new_agg_request(lo, hi, c))
             /\ BackedRow(t, new_agg_request(lo, hi, c))
  <2>1. PICK row : row = new_agg_request(lo, hi, c)
    OBVIOUS
  <2>2. row.start = lo /\ row.end = hi /\ row.checkpoint = c
    BY <2>1 DEF new_agg_request
  <2>3. 0 \in 0 .. MaxL1
    BY ValidityAssumption
  <2>4. NewAggregation(row)
    BY <1>1, <1>4, <2>1, <2>3 DEF NewAggregation, new_agg_request, Row, Statuses, ActiveStatuses, NoBlock
  <2>5. \A r \in ids : t[r].head[1] <= c[1]
    <3> SUFFICES ASSUME NEW r \in ids PROVE t[r].head[1] <= c[1]
      OBVIOUS
    <3>1. r \in DOMAIN t
      BY <1>2, <1>3, CompletedRows
    <3>2. t[r].head \in (0 .. MaxL1) \X Nat
      BY <1>2, <3>1 DEF TableOK, Row
    <3>3. PICK x \in Nat, y \in Nat, z \in Nat : x = t[r].head[1] /\ y = c[1] /\ z = m
      BY <1>6, <3>2
    <3>4. x <= z /\ z <= y
      BY <1>6, <1>7, <3>3
    <3> QED
      BY <3>3, <3>4
  <2>6. BackedRow(t, row)
    BY <1>3, <1>4, <2>2, <2>5, BackedWhere
  <2> QED
    BY <2>1, <2>4, <2>6
<1> QED
  BY <1>1, <1>4, <1>6, <1>7

LEMMA CreateStep ==
    ASSUME Inv, create_aggregation_proofs
    PROVE  Inv' /\ Fated
<1>1. UNCHANGED <<scenario, accepted, tasks, transactions, latest, l2Head, forks>>
  BY DEF create_aggregation_proofs, world, budget, given
<1>2. WorldOK' /\ AcceptedOK'
  BY <1>1 DEF Inv, WorldOK, AcceptedOK, mode
<1>0. mode # "agglayer" /\ mode' # "agglayer"
  BY <1>1 DEF create_aggregation_proofs, Inv, WorkOK, mode
<1>3. CASE UNCHANGED db /\ work' = {} /\ pc' # "checkpoint_block_hash"
  BY <1>0, <1>1, <1>2, <1>3, WorkDropped, QuietStep
<1>4. PICK hi, m : /\ hi = HighestContiguous.end
                   /\ m = get_max_l1_head_block_number_for_range(db, latest, hi)
  OBVIOUS
<1>5. ASSUME ~(fetch_active_agg_proofs_count(db, latest) > 0), ~(hi - latest < SubmissionInterval)
      PROVE  /\ ActiveAggregations(db, latest) = {}
             /\ hi \in Block /\ m \in 0 .. MaxL1
             /\ \A c \in Nat \X Nat : c[1] >= m =>
                   /\ NewAggregation(new_agg_request(latest, hi, c))
                   /\ BackedRow(db, new_agg_request(latest, hi, c))
                   /\ new_agg_request(latest, hi, c).start = latest
  <2>1. ActiveAggregations(db, latest) = {}
    <3>1. PICK S : S = ActiveAggregations(db, latest)
      OBVIOUS
    <3>2. S \subseteq DOMAIN db /\ IsFiniteSet(DOMAIN db)
      BY <3>1 DEF ActiveAggregations, Rows, Inv, TableOK
    <3>3. IsFiniteSet(S) /\ Cardinality(S) \in Nat
      BY <3>2, FS_Subset, FS_CardinalityType
    <3>4. ~(Cardinality(S) > 0)
      BY <1>5, <3>1 DEF fetch_active_agg_proofs_count
    <3>5. Cardinality(S) = 0
      BY <3>3, <3>4
    <3> QED
      BY <3>1, <3>3, <3>5, FS_EmptySet
  <2>2. \A c : new_agg_request(latest, hi, c).start = latest
    BY DEF new_agg_request
  <2> QED
    BY <1>4, <1>5, <2>1, <2>2, FreshIsBacked
<1>6. ASSUME ~(fetch_active_agg_proofs_count(db, latest) > 0), ~(hi - latest < SubmissionInterval),
             NEW c \in fetch_reusable_agg_checkpoint(db, latest, hi), Reusable(c, m),
             db' = insert_request(db, new_agg_request(latest, hi, c)),
             Goto("request_queued_proofs")
      PROVE  Inv' /\ Fated
  <2>1. c \in Nat \X Nat
    BY DEF fetch_reusable_agg_checkpoint, Inv, TableOK, Row
  <2>2. c[1] >= m
    BY <1>6 DEF Reusable
  <2>3. PICK row : row = new_agg_request(latest, hi, c)
    OBVIOUS
  <2>4. /\ NewAggregation(row) /\ BackedRow(db, row) /\ ActiveAggregations(db, row.start) = {}
    BY <1>5, <1>6, <2>1, <2>2, <2>3
  <2>5. WorkOK'
    BY <1>6, WorkDropped DEF Goto
  <2>6. TasksOK'
    <3>1. PICK t, u : t = db /\ u = db'
      OBVIOUS
    <3>2. TableOK(t) /\ row \in Row /\ ~row.invalid /\ u = insert_request(t, row)
      BY <1>6, <2>3, <2>4, <3>1 DEF Inv, NewAggregation
    <3>3. \A i \in DOMAIN t : i \in DOMAIN u /\ u[i] = t[i]
      <4>1. LET w == insert_request(t, row) IN
            DOMAIN w = DOMAIN t \union {Unused(t)} /\ \A i \in DOMAIN t : w[i] = t[i]
        BY <3>2, RequestInserted, Zenon
      <4> QED
        BY <3>2, <4>1
    <3> QED
      BY <1>1, <3>1, <3>3 DEF Inv, TasksOK, mode
  <2> QED
    BY <1>1, <1>2, <1>6, <2>3, <2>4, <2>5, <2>6, AggregationInserted
<1>7. ASSUME ~(fetch_active_agg_proofs_count(db, latest) > 0), ~(hi - latest < SubmissionInterval),
             work' = {new_agg_request(latest, hi, Canonical(select_checkpoint_block_number(SafeL1, m)))},
             pc' = "checkpoint_block_hash", UNCHANGED db
      PROVE  Inv' /\ Fated
  <2>1. PICK n : n = select_checkpoint_block_number(SafeL1, m)
    OBVIOUS
  <2>2. n \in 0 .. MaxL1 /\ n >= m
    <3>1. MaxL1 \in Nat /\ SafeL1 \in 1 .. MaxL1 /\ m \in 0 .. MaxL1
      BY <1>5, <1>7, ValidityAssumption
    <3> QED
      BY <2>1, <3>1 DEF select_checkpoint_block_number, MaxOf
  <2>3. PICK c : c = Canonical(n)
    OBVIOUS
  <2>4. c \in Nat \X Nat /\ c[1] >= m
    <3>1. c \in (0 .. MaxL1) \X Nat /\ c[1] = n
      BY <2>2, <2>3, CanonicalType DEF Inv
    <3>2. MaxL1 \in Nat
      BY ValidityAssumption
    <3> QED
      BY <2>2, <3>1, <3>2
  <2>5. PICK row : row = new_agg_request(latest, hi, c)
    OBVIOUS
  <2>6. /\ NewAggregation(row) /\ BackedRow(db, row) /\ ActiveAggregations(db, row.start) = {}
    BY <1>5, <1>7, <2>4, <2>5
  <2>7. work' = {row}
    BY <1>7, <2>1, <2>3, <2>5
  <2>8. WorkOK'
    BY <1>0, <1>1, <1>7, <2>6, <2>7 DEF WorkOK
  <2> QED
    BY <1>1, <1>2, <1>7, <2>8, QuietStep
<1> QED
  BY <1>3, <1>4, <1>6, <1>7 DEF create_aggregation_proofs, Goto, NextIteration

(* The checkpoint is on chain and the aggregation is inserted.             *)
LEMMA CheckpointStep ==
    ASSUME Inv, CheckpointBlockHash
    PROVE  Inv' /\ Fated
<1>1. UNCHANGED <<scenario, accepted, tasks, transactions, latest, l2Head, forks>>
  BY DEF CheckpointBlockHash, budget, given
<1>2. WorldOK' /\ AcceptedOK'
  BY <1>1 DEF Inv, WorldOK, AcceptedOK, mode
<1>3. WorkOK'
  BY WorkDropped DEF CheckpointBlockHash, Goto
<1>4. PICK row \in work : db' = insert_request(db, row)
  BY DEF CheckpointBlockHash
<1>5. NewAggregation(row) /\ BackedRow(db, row) /\ ActiveAggregations(db, row.start) = {}
  BY DEF CheckpointBlockHash, Inv, WorkOK
<1>6. TasksOK'
  <2>1. PICK t, u : t = db /\ u = db'
    OBVIOUS
  <2>2. TableOK(t) /\ row \in Row /\ ~row.invalid /\ u = insert_request(t, row)
    BY <1>4, <1>5, <2>1 DEF Inv, NewAggregation
  <2>3. LET w == insert_request(t, row) IN
        DOMAIN w = DOMAIN t \union {Unused(t)} /\ \A i \in DOMAIN t : w[i] = t[i]
    BY <2>2, RequestInserted, Zenon
  <2>4. \A i \in DOMAIN t : i \in DOMAIN u /\ u[i] = t[i]
    BY <2>2, <2>3
  <2> QED
    BY <1>1, <2>1, <2>4 DEF Inv, TasksOK, mode
<1> QED
  BY <1>1, <1>2, <1>3, <1>4, <1>5, <1>6, AggregationInserted
-----------------------------------------------------------------------------
LEMMA InitOK == Init => Inv
<1> SUFFICES ASSUME Init PROVE Inv
  OBVIOUS
<1>1. DOMAIN db = {} /\ DOMAIN tasks = {} /\ work = {} /\ accepted = {} /\ transactions = {}
  BY DEF Init
<1>2. TableOK(db)
  <2>1. IsFiniteSet({})
    BY FS_EmptySet
  <2>2. db \in [{} -> Row]
    BY DEF Init
  <2> QED
    BY <1>1, <2>1, <2>2 DEF TableOK
<1>3. WorldOK
  <2>1. 0 \in Block /\ scenario.l2Head \in Block
    BY ValidityAssumption DEF Init, Block
  <2> QED
    BY <1>1, <2>1 DEF Init, WorldOK
<1>4. TasksOK /\ WorkOK /\ AcceptedOK
  BY <1>1 DEF TasksOK, WorkOK, AcceptedOK, Init
<1>5. LiveAggregations = {}
  BY <1>1 DEF LiveAggregations, Rows
<1> QED
  BY <1>2, <1>3, <1>4, <1>5 DEF Inv, OneOK, BackedOK

LEMMA NextOK == Inv /\ [Next]_vars => Inv' /\ Fated
<1> SUFFICES ASSUME Inv, [Next]_vars PROVE Inv' /\ Fated
  OBVIOUS
<1>1. CASE Loop
  BY <1>1, ReadingSteps, OngoingStep, OrphanStep, PollStep, InvalidateStep, AddRangesStep,
     CreateStep, CheckpointStep, QueueStep, SubmitStep, RelayedStep DEF Loop
<1>2. CASE \E i \in DOMAIN tasks : Task(i) \/ TaskFails(i)
  BY <1>2, TaskStep, TaskFailsStep
<1>3. CASE \E start, upTo \in 0 .. MaxBlock, n \in L1Blocks :
              request_external_aggregation(start, upTo, n)
  BY <1>3, ExternalStep DEF Block
<1>4. CASE InsertExternal
  BY <1>4, InsertExternalStep
<1>5. CASE Restart
  BY <1>5, RestartStep
<1>6. CASE \E tx \in transactions : MineRelay(tx)
  BY <1>6, MineRelayStep
<1>7. CASE \/ \E i \in DOMAIN network : Prover(i)
           \/ L2Grows
           \/ \E n \in L1Blocks : Reorg(n)
           \/ \E block \in 0 .. MaxBlock : Foreign(block)
           \/ UNCHANGED vars
  BY <1>7, WorldSteps
<1> QED
  BY <1>1, <1>2, <1>3, <1>4, <1>5, <1>6, <1>7 DEF Next

LEMMA AlwaysInv == Spec => []Inv
BY InitOK, NextOK, PTL DEF Spec

(* At any time there is at most one live aggregation for a start block     *)
(* (submit_agg_proofs), whatever is retried, relayed, rewound or restarted.*)
THEOREM OneAggregation == Spec => []OneAggregationPerStart
<1>1. Inv => OneAggregationPerStart
  <2> SUFFICES ASSUME Inv, mode # "agglayer", NEW s \in 0 .. MaxBlock
               PROVE  Cardinality(ActiveAggregations(db, s)) <= 1
    BY DEF OneAggregationPerStart
  <2>1. PICK S : S = ActiveAggregations(db, s)
    OBVIOUS
  <2>2. \A i, j \in S : i = j
    BY <2>1 DEF Inv, OneOK, ActiveAggregations, LiveAggregations
  <2>3. CASE S = {}
    BY <2>1, <2>3, FS_EmptySet
  <2>4. CASE S # {}
    <3>1. PICK x : S = {x}
      <4>1. PICK x \in S : TRUE
        BY <2>4
      <4>2. S = {x}
        BY <2>2, <4>1
      <4> QED
        BY <4>2
    <3>2. Cardinality(S) = 1
      BY <3>1, FS_Singleton
    <3> QED
      BY <2>1, <3>2
  <2> QED
    BY <2>3, <2>4
<1> QED
  BY <1>1, AlwaysInv, PTL

(* An aggregation that counts rests on completed ranges for every one of   *)
(* its blocks, below its checkpoint, at all times                          *)
(* (invalidate_noncanonical_ranges, select_checkpoint_block_number).       *)
THEOREM AggregationsStayBacked == Spec => []AggregationsAreBacked
<1>1. Inv => AggregationsAreBacked
  <2> SUFFICES ASSUME Inv, NEW a \in LiveAggregations,
                      mode # "agglayer" \/ db[a].status \in {"Prove", "Complete"},
                      NEW b \in Blocks(db[a])
               PROVE  \E r \in get_consecutive_complete_range_proofs(db, db[a].start, db[a].end) :
                        b \in Blocks(db[r]) /\ db[r].head[1] <= db[a].checkpoint[1]
    BY DEF AggregationsAreBacked
  <2>1. BackedRow(db, db[a])
    BY DEF Inv, BackedOK, Verified
  <2> QED
    BY <2>1 DEF BackedRow
<1> QED
  BY <1>1, AlwaysInv, PTL

(* An invalidated request is never completed, relayed or taken up again,   *)
(* however late its task or its proof comes in (finish_invalidated_request,*)
(* update_proof_to_complete, handle_failed_request).                       *)
THEOREM DeadStaysDead == Spec => InvalidatedStaysDead
<1>1. Inv /\ [Next]_vars =>
        [\A i \in DOMAIN db \cap DOMAIN db' :
           db[i].invalid => /\ db'[i].invalid
                            /\ db'[i].status \notin {"Complete", "Relayed", "Unrequested", "Failed"}
                            /\ db[i].status = "Invalidated" => db'[i] = db[i]]_vars
  <2> SUFFICES ASSUME Inv, [Next]_vars, NEW i \in DOMAIN db \cap DOMAIN db', db[i].invalid
               PROVE  /\ db'[i].invalid
                      /\ db'[i].status \notin {"Complete", "Relayed", "Unrequested", "Failed"}
                      /\ db[i].status = "Invalidated" => db'[i] = db[i]
    OBVIOUS
  <2>1. Fate(db[i], db'[i])
    BY NextOK DEF Fated
  <2> QED
    BY <2>1 DEF Fate, InFlight
<1> QED
  BY <1>1, AlwaysInv, PTL DEF Spec, InvalidatedStaysDead
-----------------------------------------------------------------------------
(* Checkpoints and the L1 heads of ranges.                                 *)

(* The invariant: a safe checkpoint stays canonical, and the L1 head of a  *)
(* range under it is below the checkpoint, is the checkpoint itself, or    *)
(* belonged to another branch already when the checkpoint was taken.       *)
Detectable(t, row, chain) ==
    /\ row.checkpoint[1] <= SafeL1 => row.checkpoint \in chain
    /\ \A b \in Blocks(row) :
         \E r \in get_consecutive_complete_range_proofs(t, row.start, row.end) :
            /\ b \in Blocks(t[r]) /\ t[r].head[1] <= row.checkpoint[1]
            /\ t[r].head[1] = row.checkpoint[1] =>
                 t[r].head = row.checkpoint \/ t[r].head \notin chain

ForksOK == \A k \in 1 .. Len(forks) : forks[k] > SafeL1
HeadsOK == \A i \in DOMAIN db : db[i].head[2] <= Len(forks)
CheckpointsOK ==
    mode # "agglayer" =>
        \A a \in LiveAggregations :
            db[a].checkpoint[1] \in historic /\ Detectable(db, db[a], Chain)
PendingOK == pc = "checkpoint_block_hash" => \A row \in work : Detectable(db, row, Chain)

DetectOK == ForksOK /\ HeadsOK /\ CheckpointsOK /\ PendingOK

(* A block's version is the last reorganisation that replaced it.          *)
LEMMA VersionIs ==
    ASSUME WorldOK, NEW n \in Nat
    PROVE  /\ VersionOn(n, Len(forks)) \in 0 .. Len(forks)
           /\ \A k \in 1 .. Len(forks) : forks[k] <= n => k <= VersionOn(n, Len(forks))
           /\ VersionOn(n, Len(forks)) # 0 => forks[VersionOn(n, Len(forks))] <= n
<1>1. PICK v \in Nat : v = Len(forks)
  BY DEF WorldOK
<1>2. PICK past : past = {k \in 1 .. v : forks[k] <= n}
  OBVIOUS
<1>3. PICK w : w = VersionOn(n, v)
  OBVIOUS
<1>4. w = IF past = {} THEN 0 ELSE CHOOSE k \in past : \A j \in past : j <= k
  BY <1>2, <1>3 DEF VersionOn
<1>5. CASE past = {}
  <2>1. w = 0
    BY <1>4, <1>5
  <2> QED
    BY <1>1, <1>2, <1>3, <1>5, <2>1
<1>6. CASE past # {}
  <2>1. past \in SUBSET (0 .. v)
    BY <1>2
  <2>2. \E k \in past : \A j \in past : j <= k
    BY <1>6, <2>1, GreatestExists
  <2>3. w \in past /\ \A j \in past : j <= w
    BY <1>4, <1>6, <2>2, Zenon
  <2> QED
    BY <1>1, <1>2, <1>3, <2>3
<1> QED
  BY <1>5, <1>6

LEMMA ChainIs ==
    ASSUME WorldOK
    PROVE  /\ Chain \subseteq Nat \X Nat
           /\ \A b \in Chain : b[2] <= Len(forks)
           /\ \A b \in Nat \X Nat : b \in Chain <=> IsCanonical(b)
           /\ \A b, c \in Chain : b[1] = c[1] => b = c
<1>1. PICK V : V = [n \in Nat |-> VersionOn(n, Len(forks))]
  OBVIOUS
<1>2. \A n \in Nat : Canonical(n) = <<n, V[n]>> /\ V[n] \in Nat /\ V[n] <= Len(forks)
  <2> SUFFICES ASSUME NEW n \in Nat
               PROVE  Canonical(n) = <<n, V[n]>> /\ V[n] \in Nat /\ V[n] <= Len(forks)
    OBVIOUS
  <2>1. V[n] \in 0 .. Len(forks) /\ Len(forks) \in Nat
    BY <1>1, VersionIs DEF WorldOK
  <2> QED
    BY <1>1, <2>1 DEF Canonical
<1>3. Chain = {<<n, V[n]>> : n \in Nat}
  BY <1>2 DEF Chain
<1>4. \A b \in Nat \X Nat : IsCanonical(b) <=> b = <<b[1], V[b[1]]>>
  BY <1>2 DEF IsCanonical
<1>5. Chain \subseteq Nat \X Nat /\ \A b \in Chain : b[2] <= Len(forks)
  BY <1>2, <1>3
<1>6. \A b \in Nat \X Nat : b \in Chain <=> b = <<b[1], V[b[1]]>>
  BY <1>3
<1>7. \A b \in Nat \X Nat : b \in Chain <=> IsCanonical(b)
  BY <1>4, <1>6
<1>8. \A b, c \in Chain : b[1] = c[1] => b = c
  BY <1>3
<1> QED
  BY <1>5, <1>7, <1>8

(* A reorganisation leaves safe blocks alone and brings no block back.     *)
LEMMA ChainMoves ==
    ASSUME WorldOK, ForksOK,
           forks' = forks \/ \E n \in L1Blocks : n > SafeL1 /\ forks' = Append(forks, n)
    PROVE  /\ Len(forks) <= Len(forks') /\ ForksOK'
           /\ \A b \in Nat \X Nat :
                /\ b[1] <= SafeL1 /\ b \in Chain => b \in Chain'
                /\ b[2] <= Len(forks) /\ b \notin Chain => b \notin Chain'
<1>0. Len(forks) \in Nat /\ forks \in Seq(Nat)
  BY DEF WorldOK
<1>1. CASE forks' = forks
  <2>1. Chain' = Chain
    BY <1>1 DEF Chain, Canonical, VersionOn
  <2>2. ForksOK'
    BY <1>1 DEF ForksOK
  <2> QED
    BY <1>0, <1>1, <2>1, <2>2
<1>2. ASSUME NEW n \in L1Blocks, n > SafeL1, forks' = Append(forks, n)
      PROVE  /\ Len(forks) <= Len(forks') /\ ForksOK'
             /\ \A b \in Nat \X Nat :
                  /\ b[1] <= SafeL1 /\ b \in Chain => b \in Chain'
                  /\ b[2] <= Len(forks) /\ b \notin Chain => b \notin Chain'
  <2>0. n \in Nat /\ SafeL1 \in Nat
    BY ValidityAssumption DEF L1Blocks
  <2>1. PICK v \in Nat : v = Len(forks)
    BY <1>0
  <2>2. /\ Len(forks') = v + 1 /\ forks'[v + 1] = n /\ forks' \in Seq(Nat)
        /\ \A k \in 1 .. v : forks'[k] = forks[k]
    BY <1>0, <1>2, <2>0, <2>1
  <2>3. ForksOK'
    BY <1>2, <2>1, <2>2 DEF ForksOK
  <2>4. ASSUME NEW x \in Nat
        PROVE  VersionOn(x, Len(forks))' = IF n <= x THEN v + 1 ELSE VersionOn(x, Len(forks))
    <3>1. PICK past, later : /\ past = {k \in 1 .. v : forks[k] <= x}
                             /\ later = {k \in 1 .. v + 1 : forks'[k] <= x}
      OBVIOUS
    <3>2. /\ VersionOn(x, Len(forks)) =
                IF past = {} THEN 0 ELSE CHOOSE k \in past : \A j \in past : j <= k
          /\ VersionOn(x, Len(forks))' =
                IF later = {} THEN 0 ELSE CHOOSE k \in later : \A j \in later : j <= k
      BY <2>1, <2>2, <3>1 DEF VersionOn
    <3>3. CASE ~(n <= x)
      <4>1. later = past
        BY <2>1, <2>2, <3>1, <3>3
      <4> QED
        BY <3>2, <3>3, <4>1
    <3>4. CASE n <= x
      <4>1. v + 1 \in later /\ later \subseteq 1 .. v + 1
        BY <2>2, <3>1, <3>4
      <4>2. PICK w : w = CHOOSE k \in later : \A j \in later : j <= k
        OBVIOUS
      <4>3. \A j \in later : j <= v + 1
        BY <4>1
      <4>4. w \in later /\ \A j \in later : j <= w
        BY <4>1, <4>2, <4>3, Zenon
      <4>5. w = v + 1
        BY <4>1, <4>4
      <4> QED
        BY <3>2, <3>4, <4>1, <4>2, <4>5
    <3> QED
      BY <3>3, <3>4
  <2>5. ASSUME NEW x \in Nat
        PROVE  Canonical(x)' = IF n <= x THEN <<x, v + 1>> ELSE Canonical(x)
    BY <2>4 DEF Canonical
  <2>6. ASSUME NEW b \in Nat \X Nat, b[1] <= SafeL1, b \in Chain PROVE b \in Chain'
    <3>1. PICK x \in Nat : b = Canonical(x)
      BY <2>6 DEF Chain
    <3>2. b[1] = x
      BY <3>1 DEF Canonical
    <3>3. Canonical(x)' = b
      BY <1>2, <2>0, <2>5, <2>6, <3>1, <3>2
    <3> QED
      BY <3>3 DEF Chain
  <2>7. ASSUME NEW b \in Nat \X Nat, b[2] <= Len(forks), b \in Chain' PROVE b \in Chain
    <3>1. PICK x \in Nat : b = Canonical(x)'
      BY <2>7 DEF Chain
    <3>2. b # <<x, v + 1>>
      BY <2>1, <2>7
    <3>3. b = Canonical(x)
      BY <2>5, <3>1, <3>2
    <3> QED
      BY <3>3 DEF Chain
  <2> QED
    BY <2>1, <2>2, <2>3, <2>6, <2>7
<1> QED
  BY <1>1, <1>2

(* The ranges of an aggregation stay, the chain moves on.                  *)
LEMMA DetectCarries ==
    ASSUME NEW t, NEW u, NEW p, NEW q, NEW chain, NEW later,
           Detectable(t, p, chain), RangesKept(t, u, p),
           q.start = p.start, q.end = p.end, q.checkpoint = p.checkpoint,
           p.checkpoint[1] <= SafeL1 /\ p.checkpoint \in chain => p.checkpoint \in later,
           \A r \in get_consecutive_complete_range_proofs(t, p.start, p.end) :
               t[r].head \notin chain => t[r].head \notin later
    PROVE  Detectable(u, q, later)
<1>1. Blocks(q) = Blocks(p)
  BY DEF Blocks
<1>2. ASSUME NEW b \in Blocks(q)
      PROVE  \E r \in get_consecutive_complete_range_proofs(u, q.start, q.end) :
               /\ b \in Blocks(u[r]) /\ u[r].head[1] <= q.checkpoint[1]
               /\ u[r].head[1] = q.checkpoint[1] =>
                    u[r].head = q.checkpoint \/ u[r].head \notin later
  <2>1. PICK r \in get_consecutive_complete_range_proofs(t, p.start, p.end) :
          /\ b \in Blocks(t[r]) /\ t[r].head[1] <= p.checkpoint[1]
          /\ t[r].head[1] = p.checkpoint[1] =>
               t[r].head = p.checkpoint \/ t[r].head \notin chain
    BY <1>1, <1>2 DEF Detectable
  <2>2. u[r] = t[r] /\ r \in get_consecutive_complete_range_proofs(u, q.start, q.end)
    BY <2>1 DEF RangesKept
  <2> QED
    BY <2>1, <2>2
<1> QED
  BY <1>2 DEF Detectable

(* An aggregation that is created with a canonical checkpoint.             *)
LEMMA CanonicalIsDetectable ==
    ASSUME WorldOK, NEW t, NEW row, BackedRow(t, row), row.checkpoint \in Chain
    PROVE  Detectable(t, row, Chain)
<1>1. \A b, c \in Chain : b[1] = c[1] => b = c
  BY ChainIs
<1> QED
  BY <1>1, Zenon DEF Detectable, BackedRow

(* Where the loop comes to wait for a checkpoint, and who touches L1.      *)
LEMMA WaitsForCheckpoint ==
    ASSUME [Next]_vars
    PROVE  /\ pc' = "checkpoint_block_hash" =>
                create_aggregation_proofs \/ (pc = "checkpoint_block_hash" /\ work' = work)
           /\ \/ forks' = forks
              \/ \E n \in L1Blocks : n > SafeL1 /\ forks' = Append(forks, n)
           /\ scenario' = scenario
           /\ historic' = historic \/ CheckpointBlockHash
<1>1. CASE Loop
  <2>1. CASE create_aggregation_proofs
    BY <2>1 DEF create_aggregation_proofs, world, budget, given
  <2>2. CASE CheckpointBlockHash
    BY <2>2 DEF CheckpointBlockHash, Goto, budget, given
  <2>3. CASE handle_ongoing_tasks
    BY <2>3 DEF handle_ongoing_tasks, Goto, world, given
  <2>4. CASE handle_proving_requests
    BY <2>4 DEF handle_proving_requests, Goto, world, given, process_cluster_proof_status,
                process_proof_request_status, PollInvalidated, PollFailure, PollFulfilled,
                PollPending, Polled, DiscardFails, NextIteration
  <2>5. CASE \/ log_proposer_metrics \/ set_orphaned_tasks_to_failed
             \/ reconcile_completed_range_canonicality \/ InvalidateStaleRanges
             \/ add_new_ranges \/ IterationFails
    BY <2>5 DEF log_proposer_metrics, set_orphaned_tasks_to_failed,
                reconcile_completed_range_canonicality, InvalidateStaleRanges, add_new_ranges,
                IterationFails, NextIteration, Goto, world, budget, given
  <2>6. CASE request_queued_proofs \/ submit_agg_proofs \/ update_relayed
    BY <2>6 DEF request_queued_proofs, submit_agg_proofs, update_relayed, NextIteration, Goto,
                world, budget, given
  <2> QED
    BY <1>1, <2>1, <2>2, <2>3, <2>4, <2>5, <2>6 DEF Loop
<1>2. CASE \E i \in DOMAIN tasks : Task(i) \/ TaskFails(i)
  BY <1>2 DEF Task, TaskFails, world, budget, given
<1>3. CASE \E start, upTo \in 0 .. MaxBlock, n \in L1Blocks :
              request_external_aggregation(start, upTo, n)
  BY <1>3 DEF request_external_aggregation, world
<1>4. CASE InsertExternal \/ Restart
  BY <1>4 DEF InsertExternal, Restart, NextIteration, Goto, world
<1>5. CASE \/ \E i \in DOMAIN network : Prover(i)
           \/ \E tx \in transactions : MineRelay(tx)
           \/ L2Grows
  BY <1>5 DEF Prover, MineRelay, L2Grows, NextIteration, Goto, world, process, budget, given
<1>6. CASE \E n \in L1Blocks : Reorg(n)
  BY <1>6 DEF Reorg, process, budget, given
<1>7. CASE \E block \in 0 .. MaxBlock : Foreign(block)
  BY <1>7 DEF Foreign, process, budget, given
<1>8. CASE UNCHANGED vars
  BY <1>8 DEF vars
<1> QED
  BY <1>1, <1>2, <1>3, <1>4, <1>5, <1>6, <1>7, <1>8 DEF Next

(* What create_aggregation_proofs makes: the requests it inserts and those *)
(* it waits for with have a checkpoint that is canonical now.              *)
LEMMA CreatesCanonical ==
    ASSUME Inv, create_aggregation_proofs
    PROVE  /\ \/ UNCHANGED db
              \/ \E row : /\ NewAggregation(row) /\ BackedRow(db, row)
                          /\ db' = insert_request(db, row)
                          /\ row.checkpoint \in Chain /\ row.checkpoint[1] \in historic
           /\ pc' = "checkpoint_block_hash" =>
                UNCHANGED db
                /\ \A row \in work' : BackedRow(db, row) /\ row.checkpoint \in Chain
<1>1. PICK hi, m : /\ hi = HighestContiguous.end
                   /\ m = get_max_l1_head_block_number_for_range(db, latest, hi)
  OBVIOUS
<1>2. WorldOK
  BY DEF Inv
<1>3. \A c : new_agg_request(latest, hi, c).checkpoint = c
  BY DEF new_agg_request
<1>4. CASE UNCHANGED db /\ pc' # "checkpoint_block_hash"
  BY <1>4
<1>5. ASSUME ~(hi - latest < SubmissionInterval),
             NEW c \in fetch_reusable_agg_checkpoint(db, latest, hi), Reusable(c, m),
             db' = insert_request(db, new_agg_request(latest, hi, c)),
             pc' # "checkpoint_block_hash"
      PROVE  \E row : /\ NewAggregation(row) /\ BackedRow(db, row)
                      /\ db' = insert_request(db, row)
                      /\ row.checkpoint \in Chain /\ row.checkpoint[1] \in historic
  <2>1. c \in Nat \X Nat
    BY <1>5 DEF fetch_reusable_agg_checkpoint, Inv, TableOK, Row
  <2>2. c[1] >= m /\ c[1] \in historic /\ IsCanonical(c)
    BY <1>5 DEF Reusable, OnChain
  <2>3. c \in Chain
    BY <1>2, <2>1, <2>2, ChainIs
  <2>4. PICK row : row = new_agg_request(latest, hi, c)
    OBVIOUS
  <2>5. NewAggregation(row) /\ BackedRow(db, row)
    BY <1>1, <1>5, <2>1, <2>2, <2>4, FreshIsBacked
  <2> QED
    BY <1>3, <1>5, <2>2, <2>3, <2>4, <2>5
<1>6. ASSUME ~(hi - latest < SubmissionInterval),
             work' = {new_agg_request(latest, hi, Canonical(select_checkpoint_block_number(SafeL1, m)))}
      PROVE  \A row \in work' : BackedRow(db, row) /\ row.checkpoint \in Chain
  <2>1. PICK n : n = select_checkpoint_block_number(SafeL1, m)
    OBVIOUS
  <2>2. n \in 0 .. MaxL1 /\ n >= m /\ n \in Nat
    <3>1. m \in 0 .. MaxL1
      BY <1>1, <1>6, FreshIsBacked
    <3>2. MaxL1 \in Nat /\ SafeL1 \in 1 .. MaxL1
      BY ValidityAssumption
    <3> QED
      BY <2>1, <3>1, <3>2 DEF select_checkpoint_block_number, MaxOf
  <2>3. PICK c : c = Canonical(n)
    OBVIOUS
  <2>4. c \in Chain /\ c[1] = n
    BY <2>2, <2>3 DEF Chain, Canonical
  <2>5. c \in Nat \X Nat
    BY <1>2, <2>4, ChainIs
  <2>6. PICK row : row = new_agg_request(latest, hi, c)
    OBVIOUS
  <2>7. BackedRow(db, row)
    BY <1>1, <1>6, <2>2, <2>4, <2>5, <2>6, FreshIsBacked
  <2> QED
    BY <1>3, <1>6, <2>1, <2>3, <2>4, <2>6, <2>7
<1> QED
  BY <1>1, <1>4, <1>5, <1>6 DEF create_aggregation_proofs, Goto, NextIteration

(* The row of a new aggregation.                                           *)
LEMMA InsertedRow ==
    ASSUME Inv, NEW row, NewAggregation(row), db' = insert_request(db, row),
           NEW a \in DOMAIN db' \ DOMAIN db
    PROVE  db'[a] = row /\ Keeps(db, db')
<1>1. PICK t, u : t = db /\ u = db'
  OBVIOUS
<1>2. TableOK(t) /\ row \in Row /\ ~row.invalid /\ u = insert_request(t, row)
  BY <1>1 DEF Inv, NewAggregation
<1>3. LET w == insert_request(t, row) IN
      /\ DOMAIN w = DOMAIN t \union {Unused(t)} /\ w[Unused(t)] = row
      /\ \A i \in DOMAIN t : w[i] = t[i]
  BY <1>2, RequestInserted, Zenon
<1>4. u[a] = row /\ \A i \in DOMAIN t : i \in DOMAIN u /\ u[i] = t[i]
  BY <1>1, <1>2, <1>3
<1>5. Keeps(t, u)
  BY <1>4 DEF Keeps, Rows
<1> QED
  BY <1>1, <1>4, <1>5

LEMMA DetectStep == Inv /\ DetectOK /\ [Next]_vars => DetectOK'
<1> SUFFICES ASSUME Inv, DetectOK, [Next]_vars PROVE DetectOK'
  OBVIOUS
<1>1. Inv' /\ Fated
  BY NextOK
<1>2. PICK t, u, chain, later : t = db /\ u = db' /\ chain = Chain /\ later = Chain'
  OBVIOUS
<1>3. /\ Len(forks) <= Len(forks') /\ ForksOK'
      /\ \A b \in Nat \X Nat :
            /\ b[1] <= SafeL1 /\ b \in chain => b \in later
            /\ b[2] <= Len(forks) /\ b \notin chain => b \notin later
  BY <1>2, WaitsForCheckpoint, ChainMoves DEF Inv, DetectOK
<1>4. /\ TableOK(t) /\ TableOK(u) /\ WorldOK /\ WorldOK'
      /\ \A i \in DOMAIN t : t[i].head[2] <= Len(forks)
  BY <1>1, <1>2 DEF Inv, DetectOK, HeadsOK
<1>5. HeadsOK'
  <2> SUFFICES ASSUME NEW i \in DOMAIN u PROVE u[i].head[2] <= Len(forks')
    BY <1>2 DEF HeadsOK
  <2>0. Len(forks) \in Nat /\ Len(forks') \in Nat /\ u[i].head[2] \in Nat
    BY <1>4 DEF WorldOK, TableOK, Row
  <2>1. CASE i \notin DOMAIN t
    <3>1. u[i].head = NoBlock
      BY <1>1, <1>2, <2>1 DEF Fated
    <3> QED
      BY <2>0, <3>1 DEF NoBlock
  <2>2. CASE i \in DOMAIN t
    <3>1. u[i].head = t[i].head \/ u[i].head \in Chain
      BY <1>1, <1>2, <2>2 DEF Fated, Fate
    <3>2. u[i].head[2] <= Len(forks)
      BY <1>4, <2>2, <3>1, ChainIs
    <3> QED
      BY <1>3, <2>0, <3>2
  <2> QED
    BY <2>1, <2>2
(* The chain moves on over ranges that stay.                               *)
<1>6. ASSUME NEW p, NEW q, Detectable(t, p, chain), RangesKept(t, u, p),
             q.start = p.start, q.end = p.end, q.checkpoint = p.checkpoint,
             p.checkpoint \in Nat \X Nat
      PROVE  Detectable(u, q, later)
  <2>1. p.checkpoint[1] <= SafeL1 /\ p.checkpoint \in chain => p.checkpoint \in later
    BY <1>3, <1>6
  <2>2. ASSUME NEW r \in get_consecutive_complete_range_proofs(t, p.start, p.end),
               t[r].head \notin chain
        PROVE  t[r].head \notin later
    <3>1. r \in DOMAIN t
      BY <2>2 DEF get_consecutive_complete_range_proofs, Rows
    <3>2. t[r].head \in (0 .. MaxL1) \X Nat /\ t[r].head[2] <= Len(forks)
      BY <1>4, <3>1 DEF TableOK, Row
    <3>3. t[r].head \in Nat \X Nat
      BY <3>2
    <3> QED
      BY <1>3, <2>2, <3>2, <3>3
  <2> QED
    BY <1>6, <2>1, <2>2, DetectCarries
<1>7. mode' = mode
  BY WaitsForCheckpoint DEF mode
<1>8. CheckpointsOK'
  <2> SUFFICES ASSUME mode # "agglayer", NEW a \in LiveAggregations'
               PROVE  u[a].checkpoint[1] \in historic' /\ Detectable(u, u[a], later)
    BY <1>2, <1>7 DEF CheckpointsOK
  <2>0. historic \subseteq historic' /\ a \in DOMAIN u
    BY <1>2, WaitsForCheckpoint DEF CheckpointBlockHash, LiveAggregations, Rows
  <2>1. CASE a \in DOMAIN t
    <3>1. a \in LiveAggregations /\ RangesKept(t, u, t[a]) /\ Fate(t[a], u[a])
      BY <1>1, <1>2, <2>0, <2>1 DEF Fated
    <3>2. t[a].checkpoint[1] \in historic /\ Detectable(t, t[a], chain)
      BY <1>2, <3>1 DEF DetectOK, CheckpointsOK
    <3>3. /\ u[a].start = t[a].start /\ u[a].end = t[a].end
          /\ u[a].checkpoint = t[a].checkpoint /\ t[a].checkpoint \in Nat \X Nat
      BY <1>4, <2>1, <3>1 DEF Fate, TableOK, Row
    <3>4. PICK p, q : p = t[a] /\ q = u[a]
      OBVIOUS
    <3>5. Detectable(u, q, later)
      BY <1>6, <3>1, <3>2, <3>3, <3>4
    <3> QED
      BY <2>0, <3>2, <3>3, <3>4, <3>5
  <2>2. CASE a \notin DOMAIN t
    <3>1. create_aggregation_proofs \/ CheckpointBlockHash
      BY <1>1, <1>2, <2>2 DEF Fated
    <3>2. PICK row : /\ NewAggregation(row) /\ db' = insert_request(db, row)
                     /\ Detectable(t, row, chain) /\ row.checkpoint[1] \in historic'
      <4>1. CASE create_aggregation_proofs
        <5>1. ~UNCHANGED db
          BY <1>2, <2>0, <2>2
        <5>2. PICK row : /\ NewAggregation(row) /\ BackedRow(db, row)
                         /\ db' = insert_request(db, row)
                         /\ row.checkpoint \in Chain /\ row.checkpoint[1] \in historic
          BY <4>1, <5>1, CreatesCanonical
        <5>3. Detectable(t, row, Chain)
          BY <1>2, <1>4, <5>2, CanonicalIsDetectable
        <5> QED
          BY <1>2, <2>0, <5>2, <5>3
      <4>2. CASE CheckpointBlockHash
        <5>1. PICK row \in work : /\ historic' = historic \union {row.checkpoint[1]}
                                  /\ db' = insert_request(db, row)
          BY <4>2 DEF CheckpointBlockHash
        <5>2. NewAggregation(row) /\ Detectable(t, row, chain)
          BY <1>2, <4>2, <5>1 DEF CheckpointBlockHash, Inv, WorkOK, DetectOK, PendingOK
        <5> QED
          BY <5>1, <5>2
      <4> QED
        BY <3>1, <4>1, <4>2
    <3>3. u[a] = row /\ Keeps(t, u)
      BY <1>2, <2>0, <2>2, <3>2, InsertedRow
    <3>4. RangesKept(t, u, row) /\ row.checkpoint \in Nat \X Nat
      BY <3>2, <3>3, KeepsRanges DEF NewAggregation, Row
    <3>5. Detectable(u, row, later)
      BY <1>6, <3>2, <3>4
    <3> QED
      BY <3>2, <3>3, <3>5
  <2> QED
    BY <2>1, <2>2
<1>9. PendingOK'
  <2> SUFFICES ASSUME pc' = "checkpoint_block_hash", NEW row \in work'
               PROVE  Detectable(u, row, later)
    BY <1>2 DEF PendingOK
  <2>1. Keeps(t, u)
    BY <1>1, <1>2 DEF Fated
  <2>2. Detectable(t, row, chain)
    <3>1. CASE create_aggregation_proofs
      <4>1. BackedRow(t, row) /\ row.checkpoint \in Chain
        BY <1>2, <3>1, CreatesCanonical
      <4>2. Detectable(t, row, Chain)
        BY <1>4, <4>1, CanonicalIsDetectable
      <4> QED
        BY <1>2, <4>2
    <3>2. CASE pc = "checkpoint_block_hash" /\ work' = work
      BY <1>2, <3>2 DEF DetectOK, PendingOK
    <3> QED
      BY <3>1, <3>2, WaitsForCheckpoint
  <2>3. row.checkpoint \in Nat \X Nat
    BY <1>1 DEF Inv, WorkOK, NewAggregation, Row
  <2> QED
    BY <1>6, <2>1, <2>2, <2>3, KeepsRanges
<1> QED
  BY <1>3, <1>5, <1>8, <1>9 DEF DetectOK

(* An aggregation that the oracle would reject for its checkpoint has a    *)
(* stale range, so that the next reconcile_completed_range_canonicality    *)
(* discards it; or its checkpoint is above the safe block and was taken    *)
(* over, and lies above the heads of the ranges that cover it now.         *)
THEOREM UnusableDetected == Spec => []UnusableIsDetected
<1>1. Init => DetectOK
  <2> SUFFICES ASSUME Init PROVE DetectOK
    OBVIOUS
  <2>1. /\ DOMAIN db = {} /\ LiveAggregations = {} /\ Len(forks) = 0
        /\ pc # "checkpoint_block_hash"
    BY DEF Init, LiveAggregations, Rows
  <2> QED
    BY <2>1 DEF DetectOK, ForksOK, HeadsOK, CheckpointsOK, PendingOK
<1>2. Inv /\ DetectOK => UnusableIsDetected
  <2> SUFFICES ASSUME Inv, DetectOK, mode # "agglayer", NEW a \in LiveAggregations, Stranded(a)
               PROVE  /\ db[a].checkpoint[1] > SafeL1
                      /\ \A b \in Blocks(db[a]) :
                           \E r \in get_consecutive_complete_range_proofs(
                                       db, db[a].start, db[a].end) :
                              b \in Blocks(db[r]) /\ db[r].head[1] < db[a].checkpoint[1]
    BY DEF UnusableIsDetected
  <2>1. PICK t, p, ids : /\ t = db /\ p = db[a]
                         /\ ids = get_consecutive_complete_range_proofs(t, p.start, p.end)
    OBVIOUS
  <2>2. TableOK(t) /\ a \in DOMAIN t /\ WorldOK
    BY <2>1 DEF Inv, LiveAggregations, Rows
  <2>3. p.checkpoint \in Nat \X Nat
    BY <2>1, <2>2 DEF TableOK, Row
  <2>4. p.checkpoint[1] \in historic /\ Detectable(t, p, Chain)
    BY <2>1 DEF DetectOK, CheckpointsOK
  <2>5. ~OnChain(p.checkpoint) /\ \A r \in ids : IsCanonical(t[r].head)
    BY <2>1 DEF Stranded
  <2>6. p.checkpoint \notin Chain
    BY <2>2, <2>3, <2>4, <2>5, ChainIs DEF OnChain
  <2>7. p.checkpoint[1] > SafeL1
    <3>1. SafeL1 \in Nat
      BY ValidityAssumption
    <3> QED
      BY <2>3, <2>4, <2>6, <3>1 DEF Detectable
  <2>8. ASSUME NEW b \in Blocks(p)
        PROVE  \E r \in ids : b \in Blocks(t[r]) /\ t[r].head[1] < p.checkpoint[1]
    <3>1. PICK r \in ids :
            /\ b \in Blocks(t[r]) /\ t[r].head[1] <= p.checkpoint[1]
            /\ t[r].head[1] = p.checkpoint[1] =>
                 t[r].head = p.checkpoint \/ t[r].head \notin Chain
      BY <2>1, <2>4, <2>8 DEF Detectable
    <3>2. r \in DOMAIN t
      BY <2>1, <3>1 DEF get_consecutive_complete_range_proofs, Rows
    <3>3. t[r].head \in (0 .. MaxL1) \X Nat
      BY <2>2, <3>2 DEF TableOK, Row
    <3>4. t[r].head \in Nat \X Nat
      BY <3>3
    <3>5. t[r].head \in Chain
      BY <2>2, <2>5, <3>1, <3>4, ChainIs
    <3>6. t[r].head[1] # p.checkpoint[1]
      BY <2>6, <3>1, <3>5
    <3>7. t[r].head[1] \in Nat /\ p.checkpoint[1] \in Nat
      BY <2>3, <3>4
    <3> QED
      BY <3>1, <3>6, <3>7
  <2> QED
    BY <2>1, <2>7, <2>8
<1> QED
  BY <1>1, <1>2, AlwaysInv, DetectStep, PTL DEF Spec
=============================================================================
