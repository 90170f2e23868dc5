---------------------------- MODULE HostsProofs ----------------------------
(***************************************************************************)
(* Proofs about the programs that read the nodes, for every L1 height,     *)
(* fork, number of resets and derivation of L2 from L1.                    *)
(***************************************************************************)
EXTENDS MCHosts, NaturalSets, SequenceTheorems, FiniteSetTheorems

(* The greatest of a nonempty set of bounded naturals.                     *)
LEMMA MaxOfHeights ==
    ASSUME NEW n \in Nat, NEW S \in SUBSET (0 .. n), S # {}
    PROVE  Max(S) \in S /\ \A y \in S : y <= Max(S)
<1>1. PICK x \in S : \A y \in S : y <= x
  BY GreatestExists
<1>2. \A y \in S : x >= y
  BY <1>1
<1>3. Max(S) \in S /\ \A y \in S : Max(S) >= y
  BY <1>1, <1>2, Zenon DEF Max
<1> QED
  BY <1>3

(* The lesser of two numbers.                                              *)
LEMMA MinOfTwo ==
    ASSUME NEW a \in Int, NEW b \in Int
    PROVE  Min({a, b}) = IF a <= b THEN a ELSE b
<1>1. PICK x \in {a, b} : \A y \in {a, b} : x =< y
  OBVIOUS
<1>2. Min({a, b}) \in {a, b} /\ \A y \in {a, b} : Min({a, b}) =< y
  BY <1>1, Zenon DEF Min
<1> QED
  BY <1>2

-----------------------------------------------------------------------------
(* Prefixes.                                                               *)

(* A prefix agrees with the sequence position by position.                 *)
LEMMA PrefixElements ==
    ASSUME NEW S, NEW s \in Seq(S), NEW t \in Seq(S)
    PROVE  IsPrefix(s, t) <=> Len(s) <= Len(t) /\ \A i \in 1 .. Len(s) : s[i] = t[i]
<1>1. SubSeq(s, 1, Len(s)) = s
  BY SubSeqFull
<1>2. ASSUME Len(s) <= Len(t)
      PROVE  /\ SubSeq(t, 1, Len(s)) \in Seq(S)
             /\ Len(SubSeq(t, 1, Len(s))) = Len(s)
             /\ \A i \in 1 .. Len(s) : SubSeq(t, 1, Len(s))[i] = t[i]
  <2>1. Len(s) \in Nat /\ Len(t) \in Nat /\ \A i \in 1 .. Len(s) : t[i] \in S
    BY <1>2
  <2> QED
    BY <2>1, SubSeqProperties
<1>3. ASSUME Len(s) <= Len(t), \A i \in 1 .. Len(s) : s[i] = t[i]
      PROVE  s = SubSeq(t, 1, Len(s))
  BY <1>2, <1>3, SeqEqual
<1> QED
  BY <1>1, <1>2, <1>3 DEF IsPrefix

LEMMA PrefixReflexive ==
    ASSUME NEW S, NEW s \in Seq(S) PROVE IsPrefix(s, s)
BY PrefixElements

LEMMA PrefixTransitive ==
    ASSUME NEW S, NEW s \in Seq(S), NEW t \in Seq(S), NEW u \in Seq(S),
           IsPrefix(s, t), IsPrefix(t, u)
    PROVE  IsPrefix(s, u)
<1>1. Len(s) \in Nat /\ Len(t) \in Nat /\ Len(u) \in Nat
  OBVIOUS
<1>2. Len(s) <= Len(t) /\ \A i \in 1 .. Len(s) : s[i] = t[i]
  BY PrefixElements
<1>3. Len(t) <= Len(u) /\ \A i \in 1 .. Len(t) : t[i] = u[i]
  BY PrefixElements
<1>4. Len(s) <= Len(u) /\ \A i \in 1 .. Len(s) : s[i] = u[i]
  BY <1>1, <1>2, <1>3
<1> QED
  BY <1>4, PrefixElements

(* Block m of a chain is block m of every chain that extends it.           *)
LEMMA PrefixHasBlocks ==
    ASSUME NEW S, NEW s \in Seq(S), NEW t \in Seq(S), IsPrefix(s, t),
           NEW m \in Nat, m <= Len(s)
    PROVE  SubSeq(t, 1, m) = SubSeq(s, 1, m)
<1>1. Len(s) <= Len(t) /\ \A i \in 1 .. Len(s) : s[i] = t[i]
  BY PrefixElements
<1>2. Len(s) \in Nat /\ Len(t) \in Nat
  OBVIOUS
<1>3. \A i \in 1 .. m : s[i] = t[i] /\ s[i] \in S /\ t[i] \in S
  BY <1>1, <1>2
<1>4. /\ SubSeq(s, 1, m) \in Seq(S) /\ Len(SubSeq(s, 1, m)) = m
      /\ \A i \in 1 .. m : SubSeq(s, 1, m)[i] = s[i]
  BY <1>3, SubSeqProperties
<1>5. /\ SubSeq(t, 1, m) \in Seq(S) /\ Len(SubSeq(t, 1, m)) = m
      /\ \A i \in 1 .. m : SubSeq(t, 1, m)[i] = t[i]
  BY <1>3, SubSeqProperties
<1> QED
  BY <1>3, <1>4, <1>5, SeqEqual

(* A block of a chain is the chain's prefix of its length.                 *)
LEMMA PrefixIsBlock ==
    ASSUME NEW S, NEW s \in Seq(S), NEW t \in Seq(S), IsPrefix(s, t)
    PROVE  s = SubSeq(t, 1, Len(s)) /\ Len(s) <= Len(t)
<1>1. SubSeq(s, 1, Len(s)) = s
  BY SubSeqFull
<1> QED
  BY <1>1 DEF IsPrefix

LEMMA PrefixAppend ==
    ASSUME NEW S, NEW s \in Seq(S), NEW t \in Seq(S), NEW e \in S, IsPrefix(s, t)
    PROVE  IsPrefix(s, Append(t, e))
<1>1. Len(s) <= Len(t) /\ \A i \in 1 .. Len(s) : s[i] = t[i]
  BY PrefixElements
<1>2. Append(t, e) \in Seq(S) /\ Len(Append(t, e)) = Len(t) + 1
      /\ \A i \in 1 .. Len(t) : Append(t, e)[i] = t[i]
  OBVIOUS
<1>3. Len(s) <= Len(Append(t, e)) /\ \A i \in 1 .. Len(s) : s[i] = Append(t, e)[i]
  BY <1>1, <1>2
<1> QED
  BY <1>2, <1>3, PrefixElements
-----------------------------------------------------------------------------
(* What L1 derives.                                                        *)

LEMMA Heights == MaxHeight \in Nat /\ Fork \in 1 .. MaxHeight /\ MaxResets \in Nat
BY DerivedAssumption

LEMMA BlocksAre ==
    ASSUME NEW b \in Branches, NEW n \in 0 .. MaxHeight
    PROVE  Block(b, n) \in Blocks /\ Derived[Block(b, n)] \in Seq(L2Blocks)
BY DerivedAssumption DEF Blocks

(* The chain of a branch only grows from one L1 block to the next.         *)
LEMMA DerivedGrows ==
    ASSUME NEW b \in Branches, NEW n \in 0 .. MaxHeight, NEW m \in n .. MaxHeight
    PROVE  IsPrefix(Derived[Block(b, n)], Derived[Block(b, m)])
<1> DEFINE D(k) == Derived[Block(b, k)]
           T == {j \in 0 .. MaxHeight : n + j > MaxHeight \/ IsPrefix(D(n), D(n + j))}
<1>1. \A k \in 0 .. MaxHeight : D(k) \in Seq(L2Blocks)
  BY BlocksAre
<1>2. \A k \in 1 .. MaxHeight : IsPrefix(D(k - 1), D(k))
  BY DerivedAssumption
<1>3. MaxHeight \in Nat
  BY DerivedAssumption
<1> HIDE DEF D
<1>4. 0 \in T
  <2>1. IsPrefix(D(n), D(n)) /\ n + 0 = n
    BY <1>1, PrefixReflexive
  <2> QED
    BY <1>3, <2>1
<1>5. ASSUME NEW j \in 0 .. (MaxHeight - 1), j \in T PROVE j + 1 \in T
  <2>1. CASE n + (j + 1) > MaxHeight
    BY <1>3, <2>1
  <2>2. CASE n + (j + 1) <= MaxHeight
    <3>1. n + j \in 0 .. MaxHeight /\ n + (j + 1) \in 1 .. MaxHeight /\ (n + (j + 1)) - 1 = n + j
      BY <1>3, <2>2
    <3>2. IsPrefix(D(n), D(n + j))
      BY <1>3, <1>5, <3>1
    <3>3. IsPrefix(D(n + j), D(n + (j + 1)))
      BY <1>2, <3>1
    <3>4. IsPrefix(D(n), D(n + (j + 1)))
      BY <1>1, <3>1, <3>2, <3>3, PrefixTransitive
    <3> QED
      BY <1>3, <3>4
  <2> QED
    BY <1>3, <2>1, <2>2
<1>6. \A j \in 0 .. MaxHeight : j \in T
  <2> HIDE DEF T
  <2> QED
    BY <1>3, <1>4, <1>5, IntervalInduction
<1>7. m - n \in 0 .. MaxHeight /\ n + (m - n) = m /\ m <= MaxHeight
  BY <1>3
<1>8. IsPrefix(D(n), D(m))
  BY <1>3, <1>6, <1>7
<1> QED
  BY <1>8 DEF D

(* Between two blocks none of which moved the safe head, it is the same.   *)
LEMMA DerivedRests ==
    ASSUME NEW b \in Branches, NEW k \in 0 .. MaxHeight, NEW p \in k .. MaxHeight,
           \A j \in (k + 1) .. p : Derived[Block(b, j)] = Derived[Block(b, j - 1)]
    PROVE  Derived[Block(b, k)] = Derived[Block(b, p)]
<1> DEFINE D(j) == Derived[Block(b, j)]
           T == {j \in 0 .. (p - k) : D(k + j) = D(k)}
<1>1. p - k \in Nat /\ k \in Nat /\ p \in Nat
  BY DerivedAssumption
<1>2. \A j \in (k + 1) .. p : D(j) = D(j - 1)
  OBVIOUS
<1> HIDE DEF D
<1>3. 0 \in T
  BY <1>1
<1>4. ASSUME NEW j \in 0 .. ((p - k) - 1), j \in T PROVE j + 1 \in T
  <2>1. k + (j + 1) \in (k + 1) .. p /\ (k + (j + 1)) - 1 = k + j
    BY <1>1
  <2>2. D(k + (j + 1)) = D(k + j)
    BY <1>2, <2>1
  <2> QED
    BY <1>1, <1>4, <2>2
<1>5. \A j \in 0 .. (p - k) : j \in T
  <2> HIDE DEF T
  <2> QED
    BY <1>1, <1>3, <1>4, IntervalInduction
<1>6. p - k \in 0 .. (p - k) /\ k + (p - k) = p
  BY <1>1
<1>7. D(k) = D(p)
  BY <1>5, <1>6
<1> QED
  BY <1>7 DEF D

-----------------------------------------------------------------------------
(* The nodes.                                                              *)

NodesOK ==
    /\ l1 \in [branch : Branches, tip : Fork .. MaxHeight, fin : Nat]
    /\ node \in [branch : Branches, cur : 1 .. MaxHeight, done : 0 .. MaxHeight]
    /\ node.done \in {node.cur - 1, node.cur}
    /\ exec \in Seq(L2Blocks)
    /\ resets \in Nat

NodesStep ==
    \/ L1Grows \/ L1Reorgs \/ L1Finalizes \/ NodeDerives \/ NodeResets
    \/ ExecFollows \/ ExecRunsAhead

LEMMA NodesStart == NodesInit => NodesOK
<1> SUFFICES ASSUME NodesInit PROVE NodesOK
  OBVIOUS
<1> USE Heights
<1>1. l1 \in [branch : Branches, tip : Fork .. MaxHeight, fin : Nat]
  BY DEF NodesInit, Branches
<1>2. /\ node \in [branch : Branches, cur : 1 .. MaxHeight, done : 0 .. MaxHeight]
      /\ node.done \in {node.cur - 1, node.cur}
  BY DEF NodesInit, Branches
<1>3. exec \in Seq(L2Blocks) /\ resets \in Nat
  <2>1. "a" \in Branches /\ node.done \in 0 .. MaxHeight
    BY <1>2 DEF Branches
  <2> QED
    BY <2>1, BlocksAre DEF NodesInit
<1> QED
  BY <1>1, <1>2, <1>3 DEF NodesOK

LEMMA NodesTyped ==
    ASSUME NodesOK, NodesStep PROVE NodesOK'
<1> USE Heights
<1>1. CASE L1Grows
  BY <1>1 DEF NodesOK, L1Grows
<1>2. CASE L1Reorgs
  BY <1>2 DEF NodesOK, L1Reorgs, Branches
<1>3. CASE L1Finalizes
  BY <1>3 DEF NodesOK, L1Finalizes
<1>4. CASE NodeDerives
  <2>1. UNCHANGED <<l1, exec, resets>>
    BY <1>4 DEF NodeDerives
  <2>2. CASE node' = [node EXCEPT !.done = node.cur]
    BY <2>1, <2>2 DEF NodesOK
  <2>3. CASE /\ node.done = node.cur /\ node.cur < l1.tip
             /\ node' = [node EXCEPT !.cur = @ + 1, !.branch = l1.branch]
    <3>1. node.cur + 1 \in 1 .. MaxHeight /\ node.cur \in 0 .. MaxHeight
      BY <2>3 DEF NodesOK
    <3>2. /\ node' \in [branch : Branches, cur : 1 .. MaxHeight, done : 0 .. MaxHeight]
          /\ node'.cur = node.cur + 1 /\ node'.done = node.cur
      BY <2>3, <3>1 DEF NodesOK
    <3>3. node'.done = node'.cur - 1
      BY <3>1, <3>2
    <3> QED
      BY <2>1, <3>2, <3>3 DEF NodesOK
  <2> QED
    BY <1>4, <2>2, <2>3 DEF NodeDerives
<1>5. CASE NodeResets
  BY <1>5 DEF NodesOK, NodeResets
<1>6. CASE ExecFollows
  <2>1. Derived[Block(node.branch, node.done)] \in Seq(L2Blocks)
    BY BlocksAre DEF NodesOK
  <2> QED
    BY <1>6, <2>1 DEF NodesOK, ExecFollows
<1>7. CASE ExecRunsAhead
  <2>1. Unsafe \in L2Blocks
    BY DEF L2Blocks
  <2>2. Append(exec, Unsafe) \in Seq(L2Blocks)
    BY <2>1 DEF NodesOK
  <2> QED
    BY <1>7, <2>2 DEF NodesOK, ExecRunsAhead
<1> QED
  BY <1>1, <1>2, <1>3, <1>4, <1>5, <1>6, <1>7 DEF NodesStep

(* b was a block of L1, and is one unless it has been reorganized away.    *)
KnownL1(b) == Canonical(b) \/ (l1.branch = "b" /\ b[1] >= Fork /\ b[2] = "a")

(* A block that was part of L1 never comes back once it is gone.           *)
LEMMA KnownStays ==
    ASSUME NodesOK, NodesStep, NEW b \in Blocks, KnownL1(b)
    PROVE  /\ KnownL1(b)'
           /\ Canonical(b)' => Canonical(b)
           /\ Canonical(b)' /\ b[1] >= Fork => l1'.branch = l1.branch
<1> USE Heights
<1>1. PICK c \in Branches, n \in 0 .. MaxHeight : b = Block(c, n)
  BY DEF Blocks
<1>2. b[1] = n /\ n \in Nat /\ (n < Fork => b[2] = "common") /\ (n >= Fork => b[2] = c)
  BY <1>1 DEF Block
<1>3. CASE L1Grows
  BY <1>1, <1>2, <1>3 DEF NodesOK, L1Grows, KnownL1, Canonical, L1Has, L1BlockAt, Block, Branches
<1>4. CASE L1Reorgs
  BY <1>1, <1>2, <1>4 DEF NodesOK, L1Reorgs, KnownL1, Canonical, L1Has, L1BlockAt, Block, Branches
<1>5. CASE L1Finalizes
  BY <1>1, <1>2, <1>5 DEF NodesOK, L1Finalizes, KnownL1, Canonical, L1Has, L1BlockAt, Block, Branches
<1>6. CASE l1' = l1
  BY <1>6 DEF KnownL1, Canonical, L1Has, L1BlockAt
<1>7. l1' = l1 \/ L1Grows \/ L1Reorgs \/ L1Finalizes
  BY DEF NodesStep, NodeDerives, NodeResets, ExecFollows, ExecRunsAhead
<1> QED
  BY <1>3, <1>4, <1>5, <1>6, <1>7

(* The op-node's branch only ever changes to L1's.                         *)
LEMMA BranchFollowsL1 ==
    ASSUME NodesOK, NodesStep
    PROVE  /\ node'.branch \in {node.branch, l1.branch}
           /\ resets' >= resets
           /\ resets' = resets => node'.cur >= node.cur
<1>1. CASE NodeDerives
  <2>1. resets' = resets
    BY <1>1 DEF NodeDerives
  <2>2. CASE node' = [node EXCEPT !.done = node.cur]
    BY <2>1, <2>2 DEF NodesOK
  <2>3. CASE node' = [node EXCEPT !.cur = @ + 1, !.branch = l1.branch]
    BY <2>1, <2>3 DEF NodesOK
  <2> QED
    BY <1>1, <2>2, <2>3 DEF NodeDerives
<1>2. CASE NodeResets
  BY <1>2 DEF NodesOK, NodeResets
<1>3. CASE node' = node /\ resets' = resets
  BY <1>3 DEF NodesOK
<1> QED
  BY <1>1, <1>2, <1>3
  DEF NodesStep, L1Grows, L1Reorgs, L1Finalizes, ExecFollows, ExecRunsAhead

(* The database's answer for L1 block n is about an earlier block, and the *)
(* chain that block derives; once the op-node is done with n, n's own.     *)
LEMMA SafeHeadRecord ==
    ASSUME NodesOK, NEW n \in Nat
    PROVE  \E m \in 0 .. MaxHeight :
             /\ m <= n /\ m <= node.done
             /\ SafeHeadAt(n).l1 = Block(node.branch, m)
             /\ SafeHeadAt(n).head = Derived[Block(node.branch, m)]
             /\ n <= node.done => Derived[Block(node.branch, m)] = Derived[Block(node.branch, n)]
<1> USE Heights
<1> DEFINE p == Min({n, node.done})
           moved == {k \in 1 .. p : Derived[Block(node.branch, k)] # Derived[Block(node.branch, k - 1)]}
           m == Max(moved \cup {0})
           b == Block(node.branch, m)
<1>1. SafeHeadAt(n) = [l1 |-> b, head |-> Derived[b]]
  BY DEF SafeHeadAt
<1>2. node.done \in 0 .. MaxHeight /\ node.branch \in Branches
  BY DEF NodesOK
<1>3. p \in 0 .. MaxHeight /\ p <= n /\ p <= node.done /\ (n <= node.done => p = n)
  <2>1. PICK d \in 0 .. MaxHeight : d = node.done
    BY <1>2
  <2>2. p = IF n <= d THEN n ELSE d
    BY <2>1, MinOfTwo
  <2> QED
    BY <2>1, <2>2
<1> HIDE DEF p
<1>4. moved \cup {0} \in SUBSET (0 .. p) /\ moved \cup {0} # {}
  BY <1>3
<1>5. m \in moved \cup {0} /\ \A y \in moved \cup {0} : y <= m
  <2>1. p \in Nat
    BY <1>3
  <2> HIDE DEF moved
  <2> QED
    BY <1>4, <2>1, MaxOfHeights
<1>6. m \in 0 .. p
  BY <1>3, <1>4, <1>5
<1>7. \A j \in (m + 1) .. p : Derived[Block(node.branch, j)] = Derived[Block(node.branch, j - 1)]
  <2> SUFFICES ASSUME NEW j \in (m + 1) .. p, j \in moved PROVE FALSE
    BY <1>3, <1>6
  <2>1. j <= m
    BY <1>5
  <2> QED
    BY <1>3, <1>6, <2>1
<1> HIDE DEF m
<1>8. Derived[Block(node.branch, m)] = Derived[Block(node.branch, p)]
  <2>1. m \in 0 .. MaxHeight /\ p \in m .. MaxHeight
    BY <1>3, <1>6
  <2> QED
    BY <1>2, <1>7, <2>1, DerivedRests
<1>9. m \in 0 .. MaxHeight /\ m <= n /\ m <= node.done
  BY <1>2, <1>3, <1>6
<1> QED
  BY <1>1, <1>3, <1>8, <1>9

LEMMA SafeHeadIsDerived ==
    ASSUME NodesOK, NEW n \in Nat
    PROVE  /\ SafeHeadAt(n).l1 \in Blocks
           /\ SafeHeadAt(n).head \in Seq(L2Blocks)
           /\ n <= node.done => SafeHeadAt(n).head = Derived[Block(node.branch, n)]
BY SafeHeadRecord, BlocksAre DEF NodesOK

-----------------------------------------------------------------------------
(* The validator.                                                          *)

Stages == {"startup", "pairing", "idle", "game", "status", "safe", "header",
           "status2", "claim", "canonical"}

Roots == {Derived[Block(b, MaxHeight)] : b \in Branches} \cup {<<Unsafe>>, <<>>}

ValOK ==
    val \in [pc : Stages, up : BOOLEAN, next : Stages \ {"canonical"}, expect : Blocks,
             game : [l1Head : Blocks, claim : Nat, root : Roots],
             first : Nat, second : Nat, seen : Nat, later : Nat,
             rec : [l1 : Blocks, head : Seq(L2Blocks)],
             verdict : {"none", "Valid", "Invalid"}]

(* At stage s of a validation, or checking an L1 block on the way to it.   *)
At(s) == val.up /\ (val.pc = s \/ (val.pc = "canonical" /\ val.next = s))

(* The op-node derives from the branch that the game's block is on.        *)
NodeFollows == Number(val.game) >= Fork => node.branch = l1.branch

RecordIsRight == val.rec.head = Derived[val.game.l1Head]

(* What each stage has established, as long as the game's block is on L1:  *)
(* after the first status, that the op-node is past the game's block and   *)
(* on its branch, or has been reset; after the database's answer, that it  *)
(* is what the game's block derives unless the op-node has been reset;     *)
(* after the header, that the execution node has a right answer's chain;   *)
(* after the second status, that the answer is right unless there was a    *)
(* reset before it.                                                        *)
StageOK ==
    /\ At("safe") =>
         /\ val.seen <= resets
         /\ resets = val.seen => node.cur >= val.first
         /\ val.first > Number(val.game) =>
              \/ NodeFollows
              \/ val.pc = "canonical" /\ val.expect = Block(node.branch, val.first)
    /\ At("header") =>
         /\ val.seen <= resets
         /\ NodeFollows
         /\ resets = val.seen => RecordIsRight
    /\ At("status2") =>
         /\ val.seen <= resets
         /\ NodeFollows
         /\ resets = val.seen => RecordIsRight
         /\ RecordIsRight => IsPrefix(val.rec.head, exec)
    /\ At("claim") =>
         /\ NodeFollows
         /\ val.later = val.seen => RecordIsRight
         /\ RecordIsRight => IsPrefix(val.rec.head, exec)

(* Which stages belong to a validation and which to startup.               *)
ControlOK ==
    /\ val.up => val.pc \notin {"startup", "pairing"}
    /\ ~val.up => val.pc \in {"startup", "pairing", "header", "canonical"}
    /\ val.pc = "canonical" =>
         val.next \in (IF val.up THEN {"status", "safe", "header", "claim"} ELSE {"header"})
    /\ val.up /\ val.pc # "idle" => val.game.claim # Overflow
    /\ val.pc # "idle" => val.verdict = "none"

ValidatorInv ==
    /\ NodesOK
    /\ ValOK
    /\ ControlOK
    /\ KnownL1(val.game.l1Head)
    /\ Canonical(val.game.l1Head) => StageOK
    /\ VerdictMatchesL1Head

LEMMA GenesisIsBlock == Block("a", 0) \in Blocks
<1>1. "a" \in Branches /\ 0 \in 0 .. MaxHeight
  BY Heights DEF Branches
<1> QED
  BY <1>1, BlocksAre

LEMMA GenesisOnL1 ==
    ASSUME NodesOK PROVE Canonical(Block("a", 0))
BY Heights DEF NodesOK, Canonical, L1Has, L1BlockAt, Block

LEMMA RestingTyped ==
    ASSUME NEW u \in BOOLEAN
    PROVE  Resting(u) \in [pc : Stages, up : BOOLEAN, next : Stages \ {"canonical"}, expect : Blocks,
                           game : [l1Head : Blocks, claim : Nat, root : Roots],
                           first : Nat, second : Nat, seen : Nat, later : Nat,
                           rec : [l1 : Blocks, head : Seq(L2Blocks)],
                           verdict : {"none", "Valid", "Invalid"}]
<1>1. NoGame \in [l1Head : Blocks, claim : Nat, root : Roots]
  BY GenesisIsBlock DEF NoGame, Roots
<1>2. NoRecord \in [l1 : Blocks, head : Seq(L2Blocks)]
  BY GenesisIsBlock DEF NoRecord
<1> QED
  BY <1>1, <1>2, GenesisIsBlock DEF Resting, Stages

(* A validation that gives up leaves nothing behind.                       *)
LEMMA RestingIsSafe ==
    ASSUME NodesOK', NEW u \in BOOLEAN, val' = Resting(u)
    PROVE  ValidatorInv'
<1>1. ValOK'
  BY RestingTyped DEF ValOK
<1>2. /\ val'.game.l1Head = Block("a", 0) /\ val'.verdict = "none" /\ val'.up = u
      /\ val'.pc = (IF u THEN "idle" ELSE "startup")
  BY DEF Resting, NoGame
<1>3. KnownL1(val.game.l1Head)'
  BY <1>2, Heights DEF KnownL1, NodesOK, Canonical, L1Has, L1BlockAt, Block
<1>4. StageOK' /\ ControlOK'
  BY <1>2 DEF StageOK, At, ControlOK
<1>5. VerdictMatchesL1Head'
  BY <1>2 DEF VerdictMatchesL1Head
<1> QED
  BY <1>1, <1>2, <1>3, <1>4, <1>5 DEF ValidatorInv

LEMMA ValidatorStart == Init => ValidatorInv
<1> SUFFICES ASSUME Init PROVE ValidatorInv
  OBVIOUS
<1>1. NodesOK
  BY NodesStart DEF Init
<1>2. val = Resting(FALSE)
  BY DEF Init, ValidatorInit
<1>3. ValOK
  BY <1>1, <1>2, RestingTyped DEF ValOK
<1>4. /\ val.game.l1Head = Block("a", 0) /\ val.verdict = "none" /\ ~val.up
      /\ val.pc = "startup"
  BY <1>2 DEF Resting, NoGame
<1>5. KnownL1(val.game.l1Head)
  BY <1>1, <1>4, GenesisOnL1 DEF KnownL1
<1>6. StageOK /\ ControlOK /\ VerdictMatchesL1Head
  BY <1>4 DEF StageOK, At, ControlOK, VerdictMatchesL1Head
<1> QED
  BY <1>1, <1>3, <1>4, <1>5, <1>6 DEF ValidatorInv

(* The chains of the game's block and of the op-node are one chain.        *)
LEMMA FollowsMeansComparable ==
    ASSUME NodesOK, NEW g \in Blocks, Canonical(g), g[1] >= Fork => node.branch = l1.branch
    PROVE  /\ g[1] \in 0 .. MaxHeight
           /\ g = Block(node.branch, g[1])
           /\ g[1] <= node.done => IsPrefix(Derived[g], Derived[Block(node.branch, node.done)])
           /\ node.done <= g[1] => IsPrefix(Derived[Block(node.branch, node.done)], Derived[g])
<1> USE Heights
<1>1. PICK c \in Branches, n \in 0 .. MaxHeight : g = Block(c, n)
  BY DEF Blocks
<1>2. g[1] = n
  BY <1>1 DEF Block
<1>3. Block(l1.branch, n) = g
  BY <1>2 DEF Canonical, L1BlockAt
<1>4. Block(node.branch, n) = g
  BY <1>1, <1>2, <1>3 DEF Block
<1>5. node.branch \in Branches /\ node.done \in 0 .. MaxHeight
  BY DEF NodesOK
<1>6. n <= node.done => IsPrefix(Derived[Block(node.branch, n)], Derived[Block(node.branch, node.done)])
  BY <1>5, DerivedGrows
<1>7. node.done <= n => IsPrefix(Derived[Block(node.branch, node.done)], Derived[Block(node.branch, n)])
  BY <1>5, DerivedGrows
<1> QED
  BY <1>2, <1>4, <1>6, <1>7

(* The execution node never gives up a chain that the game's block derives *)
(* while the op-node follows it.                                           *)
LEMMA ExecKeeps ==
    ASSUME NodesOK, NodesStep, NEW g \in Blocks, Canonical(g),
           g[1] >= Fork => node.branch = l1.branch, IsPrefix(Derived[g], exec)
    PROVE  IsPrefix(Derived[g], exec')
<1> DEFINE safe == Derived[Block(node.branch, node.done)]
<1>1. /\ g[1] \in Nat /\ node.done \in Nat
      /\ g[1] <= node.done => IsPrefix(Derived[g], safe)
      /\ node.done <= g[1] => IsPrefix(safe, Derived[g])
  BY FollowsMeansComparable, Heights DEF NodesOK
<1>2. Derived[g] \in Seq(L2Blocks) /\ safe \in Seq(L2Blocks) /\ exec \in Seq(L2Blocks)
  <2>1. node.branch \in Branches /\ node.done \in 0 .. MaxHeight /\ exec \in Seq(L2Blocks)
    BY DEF NodesOK
  <2> QED
    BY <2>1, BlocksAre, DerivedAssumption
<1>3. CASE ExecFollows
  <2>1. ~IsPrefix(safe, exec) /\ exec' = safe
    BY <1>3 DEF ExecFollows
  <2> HIDE DEF safe
  <2>2. ~(node.done <= g[1])
    BY <1>1, <1>2, <2>1, PrefixTransitive
  <2> QED
    BY <1>1, <2>1, <2>2
<1>4. CASE ExecRunsAhead
  <2>1. exec' = Append(exec, Unsafe) /\ Unsafe \in L2Blocks
    BY <1>4 DEF ExecRunsAhead, L2Blocks
  <2> QED
    BY <1>2, <2>1, PrefixAppend
<1>5. exec' = exec \/ ExecFollows \/ ExecRunsAhead
  BY DEF NodesStep, L1Grows, L1Reorgs, L1Finalizes, NodeDerives, NodeResets
<1> QED
  BY <1>3, <1>4, <1>5

(* The nodes move under a validation in progress.                          *)
LEMMA NodesUnderValidation ==
    ASSUME ValidatorInv, NodesStep, UNCHANGED val
    PROVE  ValidatorInv'
<1> USE Heights
<1>1. PICK g : g = val.game.l1Head
  OBVIOUS
<1>2. NodesOK /\ NodesOK' /\ ValOK /\ g \in Blocks /\ KnownL1(g) /\ VerdictMatchesL1Head
  BY <1>1, NodesTyped DEF ValidatorInv, ValOK
<1>3. /\ KnownL1(g)'
      /\ Canonical(g)' => Canonical(g)
      /\ Canonical(g)' /\ g[1] >= Fork => l1'.branch = l1.branch
  BY <1>2, KnownStays
<1>4. /\ node'.branch \in {node.branch, l1.branch} /\ resets' >= resets
      /\ resets' = resets => node'.cur >= node.cur
  BY <1>2, BranchFollowsL1
<1>5. ASSUME Canonical(g)' PROVE StageOK'
  <2>1. Canonical(g) /\ StageOK
    BY <1>1, <1>3, <1>5 DEF ValidatorInv
  <2>2. NodeFollows => NodeFollows'
    BY <1>1, <1>3, <1>4, <1>5 DEF NodeFollows, Number
  <2>3. /\ resets \in Nat /\ resets' \in Nat /\ val.seen \in Nat /\ val.first \in Nat
        /\ node.cur \in Nat /\ node'.cur \in Nat
    <3>1. resets \in Nat /\ node.cur \in Nat
      BY <1>2 DEF NodesOK
    <3>2. resets' \in Nat /\ node'.cur \in Nat
      BY <1>2 DEF NodesOK
    <3>3. val.seen \in Nat /\ val.first \in Nat
      BY <1>2 DEF ValOK
    <3> QED
      BY <3>1, <3>2, <3>3
  <2>4. RecordIsRight' <=> RecordIsRight
    BY DEF RecordIsRight
  <2>5. /\ \A s : At(s)' <=> At(s)
    BY DEF At
  <2>6. ASSUME NodeFollows, RecordIsRight, IsPrefix(val.rec.head, exec)
        PROVE  IsPrefix(val.rec.head, exec)'
    <3>1. val.rec.head = Derived[g] /\ (g[1] >= Fork => node.branch = l1.branch)
      BY <1>1, <2>6 DEF NodeFollows, RecordIsRight, Number
    <3>2. IsPrefix(Derived[g], exec')
      BY <1>2, <2>1, <2>6, <3>1, ExecKeeps
    <3> QED
      BY <3>1, <3>2
  <2>7. ASSUME At("safe"), val.first > Number(val.game)
        PROVE  NodeFollows' \/ (val.pc = "canonical" /\ val.expect = Block(node.branch, val.first))'
    <3>1. CASE NodeFollows
      BY <2>2, <3>1
    <3>2. CASE val.pc = "canonical" /\ val.expect = Block(node.branch, val.first)
      <4>1. CASE node'.branch = node.branch
        BY <3>2, <4>1
      <4>2. CASE node'.branch = l1.branch
        BY <1>1, <1>3, <1>5, <4>2 DEF NodeFollows, Number
      <4> QED
        BY <1>4, <4>1, <4>2
    <3> QED
      BY <2>1, <2>7, <3>1, <3>2 DEF StageOK
  <2>8. (At("safe") =>
         /\ val.seen <= resets
         /\ resets = val.seen => node.cur >= val.first
         /\ val.first > Number(val.game) =>
              \/ NodeFollows
              \/ val.pc = "canonical" /\ val.expect = Block(node.branch, val.first))'
    BY <1>4, <2>1, <2>3, <2>5, <2>7 DEF StageOK
  <2>9. (At("header") =>
         /\ val.seen <= resets
         /\ NodeFollows
         /\ resets = val.seen => RecordIsRight)'
    BY <1>4, <2>1, <2>2, <2>3, <2>4, <2>5 DEF StageOK
  <2>10. (At("status2") =>
         /\ val.seen <= resets
         /\ NodeFollows
         /\ resets = val.seen => RecordIsRight
         /\ RecordIsRight => IsPrefix(val.rec.head, exec))'
    BY <1>4, <2>1, <2>2, <2>3, <2>4, <2>5, <2>6 DEF StageOK
  <2>11. (At("claim") =>
         /\ NodeFollows
         /\ val.later = val.seen => RecordIsRight
         /\ RecordIsRight => IsPrefix(val.rec.head, exec))'
    BY <2>1, <2>2, <2>4, <2>5, <2>6 DEF StageOK
  <2> QED
    BY <2>8, <2>9, <2>10, <2>11 DEF StageOK
<1>6. VerdictMatchesL1Head'
  BY <1>1, <1>2, <1>3 DEF VerdictMatchesL1Head, Backed, Regained
<1>7. ValOK' /\ KnownL1(val.game.l1Head)'
  BY <1>1, <1>2, <1>3 DEF ValOK, KnownL1, Canonical, L1Has, L1BlockAt
<1>8. (Canonical(val.game.l1Head) => StageOK)'
  BY <1>1, <1>5 DEF Canonical, L1Has, L1BlockAt
<1>9. ControlOK'
  BY DEF ValidatorInv, ControlOK
<1> QED
  BY <1>2, <1>6, <1>7, <1>8, <1>9 DEF ValidatorInv

(* A step of a validation that goes on with the same game.                 *)
LEMMA GoesOn ==
    ASSUME ValidatorInv, UNCHANGED nodeVars, ValOK', ControlOK',
           val'.game = val.game, val'.verdict = "none",
           Canonical(val.game.l1Head) => StageOK'
    PROVE  ValidatorInv'
<1>1. NodesOK'
  BY DEF ValidatorInv, NodesOK, nodeVars
<1>2. KnownL1(val.game.l1Head)' /\ (Canonical(val.game.l1Head)' => Canonical(val.game.l1Head))
  BY DEF ValidatorInv, KnownL1, Canonical, L1Has, L1BlockAt, nodeVars
<1>3. VerdictMatchesL1Head'
  BY DEF VerdictMatchesL1Head
<1> QED
  BY <1>1, <1>2, <1>3 DEF ValidatorInv

LEMMA GivesUp ==
    ASSUME ValidatorInv, UNCHANGED nodeVars, Unavailable
    PROVE  ValidatorInv'
<1>1. NodesOK' /\ val.up \in BOOLEAN /\ val' = Resting(val.up)
  BY DEF ValidatorInv, NodesOK, nodeVars, ValOK, Unavailable
<1> QED
  BY <1>1, RestingIsSafe

(* The database is asked, at startup or for the game's block.              *)
LEMMA AsksDatabase ==
    ASSUME ValidatorInv, UNCHANGED nodeVars, NEW n \in Nat, SafeHeadAtL1(n),
           val.pc \in {"pairing", "safe"},
           val.pc = "safe" => n = Number(val.game) /\ val.first > n
    PROVE  ValidatorInv'
<1> USE Heights
<1>1. CASE Unavailable
  BY <1>1, GivesUp
<1>2. CASE val' = [CheckCanonical(SafeHeadAt(n).l1, "header") EXCEPT !.rec = SafeHeadAt(n)]
  <2>1. NodesOK /\ ValOK /\ ControlOK
    BY DEF ValidatorInv
  <2>2. PICK r : r = SafeHeadAt(n)
    OBVIOUS
  <2>3. /\ r \in [l1 : Blocks, head : Seq(L2Blocks)]
        /\ n <= node.done => r.head = Derived[Block(node.branch, n)]
    <3>1. /\ r.l1 \in Blocks /\ r.head \in Seq(L2Blocks)
          /\ n <= node.done => r.head = Derived[Block(node.branch, n)]
      BY <2>1, <2>2, SafeHeadIsDerived
    <3>2. r = [l1 |-> r.l1, head |-> r.head]
      BY <2>2 DEF SafeHeadAt
    <3> QED
      BY <3>1, <3>2
  <2>4. val' = [val EXCEPT !.pc = "canonical", !.expect = r.l1, !.next = "header", !.rec = r]
    BY <1>2, <2>1, <2>2 DEF CheckCanonical, ValOK
  <2>5. ValOK'
    BY <2>1, <2>3, <2>4 DEF ValOK, Stages
  <2>6. /\ val'.pc = "canonical" /\ val'.next = "header" /\ val'.rec = r /\ val'.up = val.up
        /\ val'.game = val.game /\ val'.first = val.first /\ val'.seen = val.seen
        /\ val'.verdict = val.verdict
    BY <2>1, <2>4 DEF ValOK
  <2>7. ControlOK' /\ val'.verdict = "none"
    BY <2>1, <2>6 DEF ControlOK
  <2>8. ASSUME Canonical(val.game.l1Head), val.up PROVE StageOK'
    <3>1. val.pc = "safe" /\ n = Number(val.game) /\ val.first > n /\ StageOK
      BY <2>1, <2>8 DEF ControlOK, ValidatorInv
    <3>2. val.seen <= resets /\ (resets = val.seen => node.cur >= val.first) /\ NodeFollows
      BY <2>8, <3>1 DEF StageOK, At
    <3>3. PICK g \in Blocks : g = val.game.l1Head
      BY <2>1 DEF ValOK
    <3>4. g = Block(node.branch, n)
      BY <2>1, <2>8, <3>1, <3>2, <3>3, FollowsMeansComparable DEF Number, NodeFollows
    <3>5. resets = val.seen => n <= node.done
      <4>1. /\ node.cur \in Nat /\ node.done \in Nat /\ val.first \in Nat
            /\ node.done \in {node.cur - 1, node.cur}
        BY <2>1 DEF NodesOK, ValOK
      <4> QED
        BY <3>1, <3>2, <4>1
    <3>6. resets = val.seen => r.head = Derived[val.game.l1Head]
      BY <2>3, <3>3, <3>4, <3>5
    <3>7. /\ RecordIsRight' <=> r.head = Derived[val.game.l1Head]
          /\ NodeFollows' <=> NodeFollows
      BY <2>6 DEF RecordIsRight, NodeFollows, nodeVars
    <3>8. resets' = resets
      BY DEF nodeVars
    <3> QED
      BY <2>6, <3>2, <3>6, <3>7, <3>8 DEF StageOK, At
  <2>9. ~val.up => StageOK'
    BY <2>6 DEF StageOK, At
  <2> QED
    BY <2>5, <2>6, <2>7, <2>8, <2>9, GoesOn
<1> QED
  BY <1>1, <1>2 DEF SafeHeadAtL1

LEMMA ValidationStarts ==
    ASSUME ValidatorInv, UNCHANGED nodeVars, Validate
    PROVE  ValidatorInv'
<1> USE Heights
<1>1. PICK g \in Games :
           val' = [Resting(TRUE) EXCEPT
                     !.game = g,
                     !.pc = IF g.claim = Overflow THEN "idle" ELSE "game",
                     !.verdict = IF g.claim = Overflow THEN "Invalid" ELSE "none"]
  BY DEF Validate
<1>2. NodesOK /\ NodesOK'
  BY DEF ValidatorInv, NodesOK, nodeVars
<1>3. PICK n \in 1 .. l1.tip : g.l1Head = L1BlockAt(n)
  BY <1>1 DEF Games
<1>4. n \in 0 .. MaxHeight /\ l1.branch \in Branches /\ l1.tip \in Nat
  BY <1>2 DEF NodesOK
<1>5. g.l1Head \in Blocks /\ Canonical(g.l1Head)
  <2>1. g.l1Head \in Blocks
    BY <1>3, <1>4, BlocksAre DEF L1BlockAt
  <2>2. g.l1Head[1] = n
    BY <1>3 DEF L1BlockAt, Block
  <2> QED
    BY <1>3, <1>4, <2>1, <2>2 DEF Canonical, L1Has
<1>6. g \in [l1Head : Blocks, claim : Nat, root : Roots]
  <2>1. g.claim \in Nat /\ g.root \in Roots /\ g = [l1Head |-> g.l1Head, claim |-> g.claim, root |-> g.root]
    BY <1>1, ClaimsAssumption DEF Games, Roots
  <2> QED
    BY <1>5, <2>1
<1>7. /\ val'.game = g /\ val'.up = TRUE
      /\ val'.pc = (IF g.claim = Overflow THEN "idle" ELSE "game")
      /\ val'.verdict = (IF g.claim = Overflow THEN "Invalid" ELSE "none")
  BY <1>1 DEF Resting
<1>8. ValOK'
  <2>1. PICK q : q = Resting(TRUE)
    OBVIOUS
  <2>2. PICK pc \in Stages, v \in {"none", "Valid", "Invalid"} :
            val' = [q EXCEPT !.game = g, !.pc = pc, !.verdict = v]
    BY <1>1, <2>1 DEF Stages
  <2>3. q \in [pc : Stages, up : BOOLEAN, next : Stages \ {"canonical"}, expect : Blocks,
               game : [l1Head : Blocks, claim : Nat, root : Roots],
               first : Nat, second : Nat, seen : Nat, later : Nat,
               rec : [l1 : Blocks, head : Seq(L2Blocks)],
               verdict : {"none", "Valid", "Invalid"}]
    BY <2>1, RestingTyped
  <2> QED
    BY <1>6, <2>2, <2>3 DEF ValOK
<1>9. ControlOK' /\ StageOK'
  BY <1>7 DEF ControlOK, StageOK, At
<1>10. VerdictMatchesL1Head'
  BY <1>7 DEF VerdictMatchesL1Head, Backed
<1>11. KnownL1(val.game.l1Head)'
  BY <1>5, <1>7 DEF KnownL1, Canonical, L1Has, L1BlockAt, nodeVars
<1> QED
  BY <1>2, <1>8, <1>9, <1>10, <1>11 DEF ValidatorInv

(* The first status: what follows from it holds once its block is found to *)
(* be on L1.                                                               *)
LEMMA FirstStatusTaken ==
    ASSUME ValidatorInv, UNCHANGED nodeVars, FirstStatus
    PROVE  ValidatorInv'
<1> USE Heights
<1>1. NodesOK /\ ValOK /\ ControlOK /\ val.pc = "status" /\ val.up
  BY DEF ValidatorInv, FirstStatus, ControlOK
<1>2. PICK b : b = CurrentL1
  OBVIOUS
<1>3. b \in Blocks /\ b = Block(node.branch, node.cur) /\ node.cur \in Nat /\ resets \in Nat
  <2>1. node.branch \in Branches /\ node.cur \in 0 .. MaxHeight /\ resets \in Nat
    BY <1>1 DEF NodesOK
  <2> QED
    BY <1>2, <2>1, BlocksAre DEF CurrentL1
<1>4. val' = [val EXCEPT !.pc = "canonical", !.expect = b, !.next = "safe",
                         !.first = node.cur, !.seen = resets]
  BY <1>1, <1>2 DEF FirstStatus, CheckCanonical, ValOK
<1>5. ValOK'
  BY <1>1, <1>3, <1>4 DEF ValOK, Stages
<1>6. /\ val'.pc = "canonical" /\ val'.next = "safe" /\ val'.up = val.up /\ val'.expect = b
      /\ val'.first = node.cur /\ val'.seen = resets /\ val'.game = val.game
      /\ val'.verdict = val.verdict
  BY <1>1, <1>4 DEF ValOK
<1>7. ControlOK' /\ val'.verdict = "none"
  BY <1>1, <1>6 DEF ControlOK
<1>8. node' = node /\ resets' = resets
  BY DEF nodeVars
<1>9. StageOK'
  BY <1>3, <1>6, <1>8 DEF StageOK, At
<1> QED
  BY <1>5, <1>6, <1>7, <1>9, GoesOn

(* The second status: the answer is right unless there was a reset since   *)
(* the first.                                                              *)
LEMMA SecondStatusTaken ==
    ASSUME ValidatorInv, UNCHANGED nodeVars, SecondStatus
    PROVE  ValidatorInv'
<1> USE Heights
<1>1. NodesOK /\ ValOK /\ ControlOK /\ val.pc = "status2" /\ val.up
  BY DEF ValidatorInv, SecondStatus, ControlOK
<1>2. PICK b : b = CurrentL1
  OBVIOUS
<1>3. b \in Blocks /\ node.cur \in Nat /\ resets \in Nat
  <2>1. node.branch \in Branches /\ node.cur \in 0 .. MaxHeight /\ resets \in Nat
    BY <1>1 DEF NodesOK
  <2> QED
    BY <1>2, <2>1, BlocksAre DEF CurrentL1
<1>4. val' = [val EXCEPT !.pc = "canonical", !.expect = b, !.next = "claim",
                         !.second = node.cur, !.later = resets]
  BY <1>1, <1>2 DEF SecondStatus, CheckCanonical, ValOK
<1>5. ValOK'
  BY <1>1, <1>3, <1>4 DEF ValOK, Stages
<1>6. /\ val'.pc = "canonical" /\ val'.next = "claim" /\ val'.up = val.up
      /\ val'.later = resets /\ val'.seen = val.seen /\ val'.game = val.game
      /\ val'.rec = val.rec /\ val'.verdict = val.verdict
  BY <1>1, <1>4 DEF ValOK
<1>7. ControlOK' /\ val'.verdict = "none"
  BY <1>1, <1>6 DEF ControlOK
<1>8. node' = node /\ exec' = exec /\ l1' = l1
  BY DEF nodeVars
<1>9. ASSUME Canonical(val.game.l1Head) PROVE StageOK'
  <2>1. /\ NodeFollows /\ (resets = val.seen => RecordIsRight)
        /\ RecordIsRight => IsPrefix(val.rec.head, exec)
    BY <1>1, <1>9 DEF ValidatorInv, StageOK, At
  <2>2. (NodeFollows' <=> NodeFollows) /\ (RecordIsRight' <=> RecordIsRight)
        /\ (IsPrefix(val.rec.head, exec)' <=> IsPrefix(val.rec.head, exec))
    BY <1>6, <1>8 DEF NodeFollows, RecordIsRight
  <2> QED
    BY <1>6, <2>1, <2>2 DEF StageOK, At
<1> QED
  BY <1>5, <1>6, <1>7, <1>9, GoesOn

LEMMA GameHeaderRead ==
    ASSUME ValidatorInv, UNCHANGED nodeVars, GameHeader
    PROVE  ValidatorInv'
<1>1. ValOK /\ ControlOK /\ val.pc = "game" /\ val.up /\ val.game.l1Head \in Blocks
  BY DEF ValidatorInv, GameHeader, ControlOK, ValOK
<1>2. val' = [val EXCEPT !.pc = "canonical", !.expect = val.game.l1Head, !.next = "status"]
  BY DEF GameHeader, CheckCanonical
<1>3. ValOK'
  BY <1>1, <1>2 DEF ValOK, Stages
<1>4. /\ val'.pc = "canonical" /\ val'.next = "status" /\ val'.up = val.up
      /\ val'.game = val.game /\ val'.verdict = val.verdict
  BY <1>1, <1>2 DEF ValOK
<1>5. ControlOK' /\ val'.verdict = "none" /\ StageOK'
  BY <1>1, <1>4 DEF ControlOK, StageOK, At
<1> QED
  BY <1>3, <1>4, <1>5, GoesOn

LEMMA PairingStatusTaken ==
    ASSUME ValidatorInv, UNCHANGED nodeVars, PairingStatus
    PROVE  ValidatorInv'
<1>1. ValOK /\ ControlOK /\ val.pc = "startup" /\ ~val.up
  BY DEF ValidatorInv, PairingStatus, ControlOK
<1>2. node.cur - 1 \in Nat
  BY DEF ValidatorInv, NodesOK
<1>3. val' = [val EXCEPT !.pc = "pairing", !.first = node.cur - 1]
  BY DEF PairingStatus
<1>4. ValOK'
  BY <1>1, <1>2, <1>3 DEF ValOK, Stages
<1>5. /\ val'.pc = "pairing" /\ val'.up = val.up
      /\ val'.game = val.game /\ val'.verdict = val.verdict
  BY <1>1, <1>3 DEF ValOK
<1>6. ControlOK' /\ val'.verdict = "none" /\ StageOK'
  BY <1>1, <1>5 DEF ControlOK, StageOK, At
<1> QED
  BY <1>4, <1>5, <1>6, GoesOn

(* The block of a status is on L1: the op-node's branch is L1's.           *)
LEMMA L1BlockFound ==
    ASSUME ValidatorInv, UNCHANGED nodeVars, ValidateCanonicalL1Block
    PROVE  ValidatorInv'
<1> USE Heights
<1>1. NodesOK /\ ValOK /\ ControlOK /\ val.pc = "canonical"
  BY DEF ValidatorInv, ValidateCanonicalL1Block
<1>2. CASE Unavailable
  BY <1>2, GivesUp
<1>3. CASE /\ Canonical(val.expect)
           /\ val' = [val EXCEPT !.pc = val.next, !.expect = Block("a", 0), !.next = "idle"]
  <2>1. ValOK'
    BY <1>1, <1>3, GenesisIsBlock DEF ValOK, Stages
  <2>2. /\ val'.pc = val.next /\ val'.up = val.up /\ val'.game = val.game
        /\ val'.verdict = val.verdict /\ val'.first = val.first /\ val'.seen = val.seen
        /\ val'.later = val.later /\ val'.rec = val.rec
    BY <1>1, <1>3 DEF ValOK
  <2>3. val.next \in Stages \ {"canonical"}
    BY <1>1 DEF ValOK
  <2>4. ControlOK' /\ val'.verdict = "none"
    BY <1>1, <2>2, <2>3 DEF ControlOK
  <2>5. node' = node /\ exec' = exec /\ l1' = l1 /\ resets' = resets
    BY DEF nodeVars
  <2>6. (NodeFollows' <=> NodeFollows) /\ (RecordIsRight' <=> RecordIsRight)
        /\ (IsPrefix(val.rec.head, exec)' <=> IsPrefix(val.rec.head, exec))
        /\ Number(val.game)' = Number(val.game)
    BY <2>2, <2>5 DEF NodeFollows, RecordIsRight, Number
  <2>7. \A s \in Stages : At(s)' => At(s)
    BY <1>1, <2>2, <2>3 DEF At
  <2>8. ASSUME Canonical(val.game.l1Head) PROVE StageOK'
    <3>1. StageOK
      BY <2>8 DEF ValidatorInv
    <3>2. ASSUME val.expect = Block(node.branch, val.first), val.first > Number(val.game)
          PROVE  NodeFollows
      <4>1. val.first \in Nat /\ Number(val.game) \in Nat
        <5>1. PICK g \in Blocks : g = val.game.l1Head
          BY <1>1 DEF ValOK
        <5>2. g[1] \in Nat
          BY DEF Blocks, Block
        <5> QED
          BY <1>1, <5>1, <5>2 DEF ValOK, Number
      <4>2. Block(l1.branch, val.first) = Block(node.branch, val.first)
        BY <1>3, <3>2 DEF Canonical, L1BlockAt, Block
      <4>3. Number(val.game) >= Fork => val.first >= Fork
        BY <3>2, <4>1
      <4> QED
        BY <4>1, <4>2, <4>3 DEF NodeFollows, Block
    <3>3. (At("safe") =>
           /\ val.seen <= resets
           /\ resets = val.seen => node.cur >= val.first
           /\ val.first > Number(val.game) =>
                \/ NodeFollows
                \/ val.pc = "canonical" /\ val.expect = Block(node.branch, val.first))'
      BY <2>2, <2>5, <2>6, <2>7, <3>1, <3>2 DEF StageOK, Stages
    <3>4. (At("header") =>
           /\ val.seen <= resets
           /\ NodeFollows
           /\ resets = val.seen => RecordIsRight)'
      BY <2>2, <2>5, <2>6, <2>7, <3>1 DEF StageOK, Stages
    <3>5. (At("status2") =>
           /\ val.seen <= resets
           /\ NodeFollows
           /\ resets = val.seen => RecordIsRight
           /\ RecordIsRight => IsPrefix(val.rec.head, exec))'
      BY <2>2, <2>5, <2>6, <2>7, <3>1 DEF StageOK, Stages
    <3>6. (At("claim") =>
           /\ NodeFollows
           /\ val.later = val.seen => RecordIsRight
           /\ RecordIsRight => IsPrefix(val.rec.head, exec))'
      BY <2>2, <2>5, <2>6, <2>7, <3>1 DEF StageOK, Stages
    <3> QED
      BY <3>3, <3>4, <3>5, <3>6 DEF StageOK
  <2> QED
    BY <2>1, <2>2, <2>4, <2>8, GoesOn
<1> QED
  BY <1>2, <1>3 DEF ValidateCanonicalL1Block

(* The execution node has the answer's chain.                              *)
LEMMA SafeHeadPaired ==
    ASSUME ValidatorInv, UNCHANGED nodeVars, ValidateSafeHeadResponse
    PROVE  ValidatorInv'
<1>1. NodesOK /\ ValOK /\ ControlOK /\ val.pc = "header"
  BY DEF ValidatorInv, ValidateSafeHeadResponse
<1>2. CASE Unavailable
  BY <1>2, GivesUp
<1>3. CASE val' = Resting(TRUE)
  <2>1. NodesOK'
    BY <1>1 DEF NodesOK, nodeVars
  <2> QED
    BY <1>3, <2>1, RestingIsSafe
<1>4. CASE val.up /\ ExecutionAgrees(val.rec.head) /\ val' = [val EXCEPT !.pc = "status2"]
  <2>1. ValOK'
    BY <1>1, <1>4 DEF ValOK, Stages
  <2>2. /\ val'.pc = "status2" /\ val'.up = val.up /\ val'.game = val.game
        /\ val'.verdict = val.verdict /\ val'.first = val.first /\ val'.seen = val.seen
        /\ val'.later = val.later /\ val'.rec = val.rec
    BY <1>1, <1>4 DEF ValOK
  <2>3. ControlOK' /\ val'.verdict = "none"
    BY <1>1, <1>4, <2>2 DEF ControlOK
  <2>4. node' = node /\ exec' = exec /\ l1' = l1 /\ resets' = resets
    BY DEF nodeVars
  <2>5. IsPrefix(val.rec.head, exec)
    <3>1. PICK h \in Seq(L2Blocks) : h = val.rec.head
      BY <1>1 DEF ValOK
    <3>2. Len(h) <= Len(exec) /\ SubSeq(exec, 1, Len(h)) = h
      BY <1>4, <3>1 DEF ExecutionAgrees, L2Has, L2BlockAt
    <3>3. SubSeq(h, 1, Len(h)) = h
      BY SubSeqFull
    <3> QED
      BY <3>1, <3>2, <3>3 DEF IsPrefix
  <2>6. ASSUME Canonical(val.game.l1Head) PROVE StageOK'
    <3>1. /\ val.seen <= resets /\ NodeFollows
          /\ resets = val.seen => RecordIsRight
      BY <1>1, <1>4, <2>6 DEF ValidatorInv, StageOK, At
    <3>2. (NodeFollows' <=> NodeFollows) /\ (RecordIsRight' <=> RecordIsRight)
          /\ (IsPrefix(val.rec.head, exec)' <=> IsPrefix(val.rec.head, exec))
      BY <2>2, <2>4 DEF NodeFollows, RecordIsRight
    <3> QED
      BY <2>2, <2>4, <2>5, <3>1, <3>2 DEF StageOK, At
  <2> QED
    BY <2>1, <2>2, <2>3, <2>6, GoesOn
<1> QED
  BY <1>2, <1>3, <1>4 DEF ValidateSafeHeadResponse

(* The verdict.                                                            *)
LEMMA VerdictIsRight ==
    ASSUME ValidatorInv, UNCHANGED nodeVars, ClassifyClaim
    PROVE  ValidatorInv'
<1>1. NodesOK /\ ValOK /\ ControlOK /\ val.pc = "claim" /\ val.up
  BY DEF ValidatorInv, ClassifyClaim, ControlOK
<1>2. CASE Unavailable
  BY <1>2, GivesUp
<1>3. ASSUME OpNodeWatermarksAreUsable(val.first, val.second, Number(val.game)),
             NEW v \in {"Valid", "Invalid"}, Finish(v),
             \/ val.game.claim > Len(val.rec.head) /\ v = "Invalid"
             \/ /\ ~(val.game.claim > Len(val.rec.head)) /\ L2Has(val.game.claim)
                /\ v = IF IsPrefix(L2BlockAt(val.game.claim), val.game.root) THEN "Valid" ELSE "Invalid"
      PROVE  ValidatorInv'
  <2>1. val' = [val EXCEPT !.pc = "idle", !.rec = NoRecord, !.verdict = v]
    BY <1>3 DEF Finish
  <2>2. NoRecord \in [l1 : Blocks, head : Seq(L2Blocks)]
    BY GenesisIsBlock DEF NoRecord
  <2>3. ValOK'
    BY <1>1, <2>1, <2>2 DEF ValOK, Stages
  <2>4. /\ val'.pc = "idle" /\ val'.up = val.up /\ val'.game = val.game /\ val'.verdict = v
        /\ val'.first = val.first /\ val'.second = val.second
        /\ val'.seen = val.seen /\ val'.later = val.later
    BY <1>1, <2>1 DEF ValOK
  <2>5. ControlOK' /\ StageOK'
    BY <1>1, <2>4 DEF ControlOK, StageOK, At
  <2>6. NodesOK' /\ KnownL1(val.game.l1Head)'
    BY <2>4 DEF ValidatorInv, NodesOK, nodeVars, KnownL1, Canonical, L1Has, L1BlockAt
  <2>7. Canonical(val.game.l1Head)' => Canonical(val.game.l1Head)
    BY <2>4 DEF Canonical, L1Has, L1BlockAt, nodeVars
  <2>8. ASSUME Canonical(val.game.l1Head), ~Regained' PROVE v = "Valid" <=> Backed(val.game)
    <3>1. val.later = val.seen
      BY <1>3, <2>4, <2>8 DEF Regained, OpNodeWatermarksAreUsable
    <3>2. RecordIsRight /\ IsPrefix(val.rec.head, exec)
      BY <1>1, <2>8, <3>1 DEF ValidatorInv, StageOK, At
    <3>3. PICK h \in Seq(L2Blocks) : h = val.rec.head
      BY <1>1 DEF ValOK
    <3>4. PICK g : g = val.game
      OBVIOUS
    <3>5. g.claim \in Nat /\ g.claim # Overflow /\ h = Derived[g.l1Head] /\ IsPrefix(h, exec)
          /\ exec \in Seq(L2Blocks)
      BY <1>1, <3>2, <3>3, <3>4 DEF ValOK, ControlOK, RecordIsRight, NodesOK
    <3>6. Backed(g) <=> g.claim <= Len(h) /\ IsPrefix(SubSeq(h, 1, g.claim), g.root)
      BY <3>5 DEF Backed
    <3>7. g.claim <= Len(h) => SubSeq(exec, 1, g.claim) = SubSeq(h, 1, g.claim)
      BY <3>5, PrefixHasBlocks
    <3>8. Len(h) \in Nat
      OBVIOUS
    <3>9. CASE g.claim > Len(h)
      <4>1. v = "Invalid" /\ ~(g.claim <= Len(h))
        BY <1>3, <3>3, <3>4, <3>5, <3>8, <3>9
      <4> QED
        BY <3>4, <3>6, <4>1
    <3>10. CASE ~(g.claim > Len(h))
      <4>1. g.claim <= Len(h)
        BY <3>5, <3>8, <3>10
      <4>2. v = IF IsPrefix(SubSeq(exec, 1, g.claim), g.root) THEN "Valid" ELSE "Invalid"
        BY <1>3, <3>3, <3>4, <3>10 DEF L2BlockAt
      <4>3. SubSeq(exec, 1, g.claim) = SubSeq(h, 1, g.claim)
        BY <3>7, <4>1
      <4> QED
        BY <3>4, <3>6, <4>1, <4>2, <4>3
    <3> QED
      BY <3>9, <3>10
  <2>9. Backed(val.game)' <=> Backed(val.game)
    BY <2>4 DEF Backed
  <2>10. VerdictMatchesL1Head'
    BY <2>4, <2>7, <2>8, <2>9 DEF VerdictMatchesL1Head
  <2> QED
    BY <2>3, <2>5, <2>6, <2>10 DEF ValidatorInv
<1>4. CASE /\ OpNodeWatermarksAreUsable(val.first, val.second, Number(val.game))
           /\ ~Unavailable
  <2>1. CASE val.game.claim > Len(val.rec.head)
    BY <1>1, <1>3, <1>4, <2>1 DEF ClassifyClaim
  <2>2. CASE ~(val.game.claim > Len(val.rec.head))
    <3>1. PICK v \in {"Valid", "Invalid"} :
            v = IF IsPrefix(L2BlockAt(val.game.claim), val.game.root) THEN "Valid" ELSE "Invalid"
      OBVIOUS
    <3>2. L2Has(val.game.claim) /\ Finish(v)
      BY <1>4, <2>2, <3>1 DEF ClassifyClaim
    <3> QED
      BY <1>3, <1>4, <2>2, <3>1, <3>2
  <2> QED
    BY <2>1, <2>2
<1> QED
  BY <1>2, <1>4 DEF ClassifyClaim

LEMMA ValidatorStep ==
    ASSUME ValidatorInv, UNCHANGED nodeVars, ValidatorNext
    PROVE  ValidatorInv'
<1>1. CASE PairingSafeHead
  <2>1. val.first \in Nat
    BY DEF ValidatorInv, ValOK
  <2> QED
    BY <1>1, <2>1, AsksDatabase DEF PairingSafeHead
<1>2. CASE SafeHeadOfGame
  <2>1. PICK g \in Blocks : g = val.game.l1Head
    BY DEF ValidatorInv, ValOK
  <2>2. Number(val.game) \in Nat /\ val.first \in Nat
    <3>1. g[1] \in Nat
      BY DEF Blocks, Block
    <3> QED
      BY <2>1, <3>1 DEF ValidatorInv, ValOK, Number
  <2>3. CASE Unavailable
    BY <2>3, GivesUp
  <2>4. CASE val.first > Number(val.game) /\ SafeHeadAtL1(Number(val.game))
    BY <1>2, <2>2, <2>4, AsksDatabase DEF SafeHeadOfGame
  <2> QED
    BY <1>2, <2>2, <2>3, <2>4 DEF SafeHeadOfGame
<1>3. CASE ReadFails
  BY <1>3, GivesUp DEF ReadFails
<1> QED
  BY <1>1, <1>2, <1>3, PairingStatusTaken, ValidationStarts, GameHeaderRead, FirstStatusTaken,
     SecondStatusTaken, VerdictIsRight, L1BlockFound, SafeHeadPaired DEF ValidatorNext

(* A validation's answers are read one by one from nodes that reorganize,  *)
(* reset and switch chains meanwhile; the verdict is still the one that    *)
(* the game's L1 head calls for.                                           *)
THEOREM VerdictsAreRight == Spec => []VerdictMatchesL1Head
<1>1. Init => ValidatorInv
  BY ValidatorStart
<1>2. ValidatorInv /\ [Next]_vars => ValidatorInv'
  <2> SUFFICES ASSUME ValidatorInv, [Next]_vars PROVE ValidatorInv'
    OBVIOUS
  <2>1. CASE NodesMove
    BY <2>1, NodesUnderValidation DEF NodesMove, NodesStep
  <2>2. CASE ValidatorActs
    BY <2>2, ValidatorStep DEF ValidatorActs
  <2>3. CASE UNCHANGED <<nodeVars, val>>
    BY <2>3 DEF ValidatorInv, NodesOK, ValOK, ControlOK, KnownL1, Canonical, L1Has, L1BlockAt,
                StageOK, At, NodeFollows, RecordIsRight, VerdictMatchesL1Head, Regained, Backed, nodeVars
  <2> QED
    BY <2>1, <2>2, <2>3 DEF Next, EstimatorActs, ProverActs, vars
<1>3. ValidatorInv => VerdictMatchesL1Head
  BY DEF ValidatorInv
<1> QED
  BY <1>1, <1>2, <1>3, PTL DEF Spec

-----------------------------------------------------------------------------
(* Proving a game: the ranges.                                             *)

LEMMA ProverConstants ==
    /\ game.start \in Nat /\ game.end \in Nat /\ game.start < game.end
    /\ game.l1Head \in Blocks /\ RangeSplitCount \in Nat \ {0} /\ Modes \subseteq AllModes
BY ProverAssumption DEF game

(* Rounding a division up.                                                 *)
LEMMA DivideUp ==
    ASSUME NEW a \in Nat \ {0}, NEW b \in Nat \ {0}
    PROVE  LET q == (a + b - 1) \div b
           IN q \in Nat /\ q >= 1 /\ a <= q * b /\ (q - 1) * b < a
<1> DEFINE c == a + b - 1
           q == c \div b
<1>1. c \in Nat /\ c >= b
  OBVIOUS
<1>2. q \in Int /\ q * b <= c /\ c < (q + 1) * b
  <2>1. q \in Int /\ c % b \in 0 .. (b - 1) /\ c = b * q + (c % b)
    BY <1>1
  <2> HIDE DEF q
  <2> QED
    BY <1>1, <2>1
<1> HIDE DEF q
<1>3. q >= 1
  <2> SUFFICES ASSUME q <= 0 PROVE FALSE
    BY <1>2
  <2>1. (q + 1) * b <= b
    BY <1>2
  <2> QED
    BY <1>1, <1>2, <2>1
<1>4. (q + 1) * b = q * b + b /\ (q - 1) * b = q * b - b
  BY <1>2
<1>5. q * b \in Int
  BY <1>2
<1>6. a <= q * b /\ (q - 1) * b < a
  BY <1>2, <1>4, <1>5 DEF c
<1>7. q \in Nat
  BY <1>2, <1>3
<1>8. q >= 1 /\ a <= q * b /\ (q - 1) * b < a /\ q \in Nat
  BY <1>3, <1>6, <1>7
<1> QED
  BY <1>8 DEF q

(* The ranges follow one another from the game's start to its end.         *)
LEMMA RangesAreContiguous ==
    /\ N \in Nat \ {0}
    /\ DOMAIN Ranges = 1 .. N
    /\ \A i \in 1 .. N : Ranges[i].start \in Nat /\ Ranges[i].end \in Nat
    /\ Ranges[1].start = game.start /\ Ranges[N].end = game.end
    /\ \A i \in 1 .. (N - 1) : Ranges[i].end = Ranges[i + 1].start
<1>1. PICK s \in Nat, e \in Nat : s = game.start /\ e = game.end /\ s < e
  BY ProverConstants
<1>2. PICK total \in Nat \ {0} : total = e - s
  BY <1>1
<1>3. PICK parts \in Nat \ {0} : parts = Min({RangeSplitCount, total})
  BY <1>2, ProverConstants, MinOfTwo
<1>4. PICK step \in Nat \ {0} : step = (total + parts - 1) \div parts
  BY DivideUp
<1>5. PICK q \in Nat : /\ q = (total + step - 1) \div step
                       /\ q >= 1 /\ total <= q * step /\ (q - 1) * step < total
  BY DivideUp
<1>6. Ranges = [i \in 1 .. q |->
                  [start |-> s + (i - 1) * step, end |-> Min({s + i * step, e})]]
  BY <1>1, <1>2, <1>3, <1>4, <1>5, Zenon DEF Ranges, SplitRange
<1>7. N = q /\ DOMAIN Ranges = 1 .. q
  BY <1>6 DEF N
<1>8. ASSUME NEW i \in 1 .. q
      PROVE  /\ Ranges[i].start = s + (i - 1) * step /\ Ranges[i].start \in Nat
             /\ Ranges[i].end = IF i < q THEN s + i * step ELSE e
  <2>1. Ranges[i].start = s + (i - 1) * step /\ Ranges[i].end = Min({s + i * step, e})
    BY <1>6
  <2>2. (i - 1) * step \in Nat /\ i * step \in Nat
    BY <1>5
  <2>3. Ranges[i].end = IF s + i * step <= e THEN s + i * step ELSE e
    BY <2>1, <2>2, MinOfTwo
  <2>4. i < q => s + i * step <= e
    <3> SUFFICES ASSUME i < q PROVE s + i * step <= e
      OBVIOUS
    <3>1. i <= q - 1 /\ q - 1 \in Nat
      BY <1>5
    <3>2. i * step <= (q - 1) * step
      BY <3>1
    <3>3. (q - 1) * step \in Nat
      BY <3>1
    <3> QED
      BY <1>1, <1>2, <1>5, <2>2, <3>2, <3>3
  <2>5. ~(i < q) => s + i * step >= e
    <3>1. ~(i < q) => i = q
      BY <1>5
    <3> QED
      BY <1>1, <1>2, <1>5, <2>2, <3>1
  <2>6. s + i * step \in Nat /\ s + (i - 1) * step \in Nat
    BY <2>2
  <2> QED
    BY <1>1, <2>1, <2>3, <2>4, <2>5, <2>6
<1>9. \A i \in 1 .. q : Ranges[i].end \in Nat
  <2> TAKE i \in 1 .. q
  <2>1. i * step \in Nat
    BY <1>5
  <2> QED
    BY <1>8, <2>1
<1>10. Ranges[1].start = s
  <2>1. (1 - 1) * step = 0 /\ 1 \in 1 .. q
    BY <1>5
  <2> QED
    BY <1>8, <2>1
<1>11. Ranges[q].end = e
  BY <1>5, <1>8
<1>12. \A i \in 1 .. (q - 1) : Ranges[i].end = Ranges[i + 1].start
  <2> TAKE i \in 1 .. (q - 1)
  <2>1. i \in 1 .. q /\ i + 1 \in 1 .. q /\ i < q /\ (i + 1) - 1 = i
    BY <1>5
  <2>2. Ranges[i].end = s + i * step /\ Ranges[i + 1].start = s + ((i + 1) - 1) * step
    BY <1>8, <2>1
  <2> QED
    BY <2>1, <2>2
<1> QED
  BY <1>1, <1>5, <1>7, <1>8, <1>9, <1>10, <1>11, <1>12

-----------------------------------------------------------------------------
(* Proving a game: the attempt.                                            *)

Target == Derived[game.l1Head]

RequestStates == {"none", "Requested", "Assigned", "Fulfilled", "Unfulfillable"}

Slot == [pc : {"todo", "fetch", "witness", "wait", "details", "ready", "done"},
         pre : Seq(L2Blocks), post : Seq(L2Blocks), age : Nat, seen : RequestStates]

(* What the proof of range i states.                                       *)
Result(i) ==
    [idx |-> i, pre |-> SubSeq(Target, 1, Ranges[i].start),
     post |-> SubSeq(Target, 1, Ranges[i].end), block |-> Ranges[i].end, l1Head |-> game.l1Head]

(* What the game verifies.                                                 *)
RightOutput ==
    [l1Head |-> game.l1Head, block |-> game.end,
     pre |-> SubSeq(Target, 1, game.start), post |-> SubSeq(Target, 1, game.end)]

ProverOK ==
    /\ job \in [pc : {"idle", "ranges", "headers", "agg", "submitted", "failed", "rejected"},
                mode : AllModes, headers : Seq(Blocks), output : {<<>>, RightOutput}]
    /\ slots \in [1 .. Agg -> Slot]
    /\ results \in Seq({Result(i) : i \in 1 .. N})
    /\ request \in [1 .. Agg -> RequestStates]

(* Fetched roots are of the right blocks, and proved ones the L1 head's.   *)
RangeSlotOK(i) ==
    /\ slots[i].pc \in {"fetch", "witness"} => Len(slots[i].pre) = Ranges[i].start
    /\ slots[i].pc = "witness" => Len(slots[i].post) = Ranges[i].end
    /\ slots[i].pc \in {"wait", "details", "ready"} =>
         /\ slots[i].pre = SubSeq(Target, 1, Ranges[i].start)
         /\ slots[i].post = SubSeq(Target, 1, Ranges[i].end)

SlotsOK ==
    /\ \A i \in 1 .. N : RangeSlotOK(i)
    /\ slots[Agg].pc \in {"todo", "wait", "details", "ready"}

(* A range is proved once.                                                 *)
ResultsOK ==
    /\ \A k \in DOMAIN results : slots[results[k].idx].pc = "done"
    /\ \A j, k \in DOMAIN results : results[j].idx = results[k].idx => j = k

(* Where the attempt is.                                                   *)
JobOK ==
    /\ job.pc \notin {"idle", "failed"} => KnownL1(game.l1Head)
    /\ job.pc \in {"headers", "agg", "submitted"} =>
         \A i \in 1 .. N : \E k \in DOMAIN results : results[k].idx = i
    /\ job.pc = "headers" =>
         Len(job.headers) = 1 /\ (Canonical(game.l1Head) => job.headers[1] = game.l1Head)
    /\ job.pc \in {"agg", "submitted"} => job.output = RightOutput
    /\ job.pc = "rejected" => ~Canonical(game.l1Head)

ProverInv == NodesOK /\ ProverOK /\ SlotsOK /\ ResultsOK /\ JobOK

LEMMA TargetTyped == Target \in Seq(L2Blocks)
BY DerivedAssumption, ProverConstants DEF Target

LEMMA SlotNumbers == N \in Nat \ {0} /\ Agg = N + 1 /\ Agg \in 1 .. Agg /\ 1 .. N \subseteq 1 .. Agg /\ Agg \notin 1 .. N
BY RangesAreContiguous DEF Agg

(* An attempt that starts afresh, or has ended with nothing left.          *)
LEMMA FreshAttempt ==
    ASSUME NodesOK', ProverOK, NEW pc, Fresh(pc, job.mode),
           \/ pc = "failed"
           \/ pc = "ranges" /\ Canonical(game.l1Head)'
           \/ pc = "rejected" /\ KnownL1(game.l1Head)' /\ ~Canonical(game.l1Head)'
    PROVE  ProverInv'
<1> USE SlotNumbers
<1>1. job.mode \in AllModes
  BY DEF ProverOK
<1>2. /\ job' = [pc |-> pc, mode |-> job.mode, headers |-> <<>>, output |-> <<>>]
      /\ slots' = [i \in 1 .. Agg |-> Idle] /\ results' = <<>>
      /\ request' = [i \in 1 .. Agg |-> "none"]
  BY DEF Fresh
<1>3. Idle \in Slot /\ Idle.pc = "todo"
  BY DEF Idle, Slot, RequestStates
<1>4. ProverOK'
  <2>1. job' \in [pc : {"idle", "ranges", "headers", "agg", "submitted", "failed", "rejected"},
                  mode : AllModes, headers : Seq(Blocks), output : {<<>>, RightOutput}]
    BY <1>1, <1>2
  <2>2. slots' \in [1 .. Agg -> Slot]
    BY <1>2, <1>3
  <2>3. results' \in Seq({Result(i) : i \in 1 .. N})
    BY <1>2
  <2>4. request' \in [1 .. Agg -> RequestStates]
    BY <1>2 DEF RequestStates
  <2> QED
    BY <2>1, <2>2, <2>3, <2>4 DEF ProverOK
<1>5. \A i \in 1 .. Agg : slots'[i].pc = "todo"
  BY <1>2, <1>3
<1>6. SlotsOK'
  BY <1>5 DEF SlotsOK, RangeSlotOK
<1>7. ResultsOK'
  BY <1>2 DEF ResultsOK
<1>8. JobOK'
  BY <1>2 DEF JobOK, KnownL1
<1> QED
  BY <1>4, <1>6, <1>7, <1>8 DEF ProverInv

LEMMA ProverStart == Init => ProverInv
<1> USE SlotNumbers
<1> SUFFICES ASSUME Init PROVE ProverInv
  OBVIOUS
<1>1. NodesOK
  BY NodesStart DEF Init
<1>2. PICK m \in Modes :
        /\ job = [pc |-> "idle", mode |-> m, headers |-> <<>>, output |-> <<>>]
        /\ slots = [i \in 1 .. Agg |-> Idle] /\ results = <<>>
        /\ request = [i \in 1 .. Agg |-> "none"]
  BY DEF Init, ProverInit
<1>3. Idle \in Slot /\ Idle.pc = "todo"
  BY DEF Idle, Slot, RequestStates
<1>4. ProverOK
  <2>1. job \in [pc : {"idle", "ranges", "headers", "agg", "submitted", "failed", "rejected"},
                 mode : AllModes, headers : Seq(Blocks), output : {<<>>, RightOutput}]
    BY <1>2, ProverConstants
  <2>2. slots \in [1 .. Agg -> Slot] /\ request \in [1 .. Agg -> RequestStates]
    BY <1>2, <1>3 DEF RequestStates
  <2>3. results \in Seq({Result(i) : i \in 1 .. N})
    BY <1>2
  <2> QED
    BY <2>1, <2>2, <2>3 DEF ProverOK
<1>5. \A i \in 1 .. Agg : slots[i].pc = "todo"
  BY <1>2, <1>3
<1>6. SlotsOK
  BY <1>5 DEF SlotsOK, RangeSlotOK
<1>7. ResultsOK /\ JobOK
  BY <1>2 DEF ResultsOK, JobOK
<1> QED
  BY <1>1, <1>4, <1>6, <1>7 DEF ProverInv

(* The nodes move under an attempt.                                        *)
LEMMA NodesUnderProving ==
    ASSUME ProverInv, NodesStep, UNCHANGED proverVars
    PROVE  ProverInv'
<1>1. NodesOK /\ NodesOK' /\ game.l1Head \in Blocks
  BY NodesTyped, ProverConstants DEF ProverInv
<1>2. job' = job /\ slots' = slots /\ results' = results /\ request' = request
  BY DEF proverVars
<1>3. KnownL1(game.l1Head) => KnownL1(game.l1Head)' /\ (Canonical(game.l1Head)' => Canonical(game.l1Head))
  BY <1>1, KnownStays
<1>4. JobOK'
  <2>1. JobOK
    BY DEF ProverInv
  <2>2. CASE job.pc \in {"idle", "failed"}
    BY <1>2, <2>2 DEF JobOK
  <2>3. CASE job.pc \notin {"idle", "failed"}
    <3>1. KnownL1(game.l1Head)' /\ (Canonical(game.l1Head)' => Canonical(game.l1Head))
      BY <1>3, <2>1, <2>3 DEF JobOK
    <3> QED
      BY <1>2, <2>1, <3>1 DEF JobOK
  <2> QED
    BY <2>2, <2>3
<1>5. ProverOK'
  BY <1>2 DEF ProverInv, ProverOK
<1>6. SlotsOK' /\ ResultsOK'
  BY <1>2 DEF ProverInv, SlotsOK, RangeSlotOK, ResultsOK
<1> QED
  BY <1>1, <1>4, <1>5, <1>6 DEF ProverInv

(* A step of slot i that leaves the rest of the attempt alone: s is its    *)
(* new state.                                                              *)
LEMMA SlotMoves ==
    ASSUME ProverInv, UNCHANGED <<nodeVars, job, results>>,
           NEW i \in 1 .. Agg, NEW s \in Slot, slots' = [slots EXCEPT ![i] = s],
           request' \in [1 .. Agg -> RequestStates],
           slots[i].pc # "done", s.pc # "done",
           i = Agg => s.pc \in {"todo", "wait", "details", "ready"},
           i \in 1 .. N =>
             /\ s.pc \in {"fetch", "witness"} => Len(s.pre) = Ranges[i].start
             /\ s.pc = "witness" => Len(s.post) = Ranges[i].end
             /\ s.pc \in {"wait", "details", "ready"} =>
                  /\ s.pre = SubSeq(Target, 1, Ranges[i].start)
                  /\ s.post = SubSeq(Target, 1, Ranges[i].end)
    PROVE  ProverInv'
<1> USE SlotNumbers
<1>1. NodesOK' /\ job' = job /\ results' = results
  BY DEF ProverInv, NodesOK, nodeVars
<1>2. slots \in [1 .. Agg -> Slot] /\ slots' \in [1 .. Agg -> Slot]
      /\ slots'[i] = s /\ \A j \in 1 .. Agg : j # i => slots'[j] = slots[j]
  BY DEF ProverInv, ProverOK
<1>3. ProverOK'
  BY <1>1, <1>2 DEF ProverInv, ProverOK
<1>4. SlotsOK'
  <2>1. ASSUME NEW j \in 1 .. N PROVE RangeSlotOK(j)'
    BY <1>2 DEF RangeSlotOK, ProverInv, SlotsOK
  <2>2. slots'[Agg].pc \in {"todo", "wait", "details", "ready"}
    BY <1>2 DEF ProverInv, SlotsOK
  <2> QED
    BY <2>1, <2>2 DEF SlotsOK
<1>5. ResultsOK'
  <2>1. ASSUME NEW k \in DOMAIN results PROVE slots'[results[k].idx].pc = "done"
    <3>1. slots[results[k].idx].pc = "done" /\ results[k].idx \in 1 .. N
      <4>1. results \in Seq({Result(j) : j \in 1 .. N})
        BY DEF ProverInv, ProverOK
      <4>2. results[k] \in {Result(j) : j \in 1 .. N}
        BY <4>1
      <4> QED
        BY <4>2 DEF Result, ProverInv, ResultsOK
    <3> QED
      BY <1>2, <3>1
  <2> QED
    BY <1>1, <2>1 DEF ProverInv, ResultsOK
<1>6. JobOK'
  BY <1>1 DEF ProverInv, JobOK, KnownL1, Canonical, L1Has, L1BlockAt, nodeVars
<1> QED
  BY <1>1, <1>3, <1>4, <1>5, <1>6 DEF ProverInv

(* What the execution node gives for a block it has.                       *)
LEMMA BlockRead ==
    ASSUME NodesOK, NEW m \in Nat, L2Has(m)
    PROVE  L2BlockAt(m) \in Seq(L2Blocks) /\ Len(L2BlockAt(m)) = m
<1>1. exec \in Seq(L2Blocks) /\ m <= Len(exec) /\ Len(exec) \in Nat
  BY DEF NodesOK, L2Has
<1>2. \A i \in 1 .. m : exec[i] \in L2Blocks
  BY <1>1
<1> QED
  BY <1>2, SubSeqProperties DEF L2BlockAt

LEMMA AgreedFetched ==
    ASSUME ProverInv, UNCHANGED nodeVars, NEW i \in 1 .. Agg, FetchAgreed(i)
    PROVE  ProverInv'
<1> USE SlotNumbers
<1>1. i \in 1 .. N /\ Ranges[i].start \in Nat
  BY RangesAreContiguous DEF FetchAgreed
<1>2. PICK b \in Seq(L2Blocks) : b = L2BlockAt(Ranges[i].start) /\ Len(b) = Ranges[i].start
  BY <1>1, BlockRead DEF FetchAgreed, ProverInv
<1>3. PICK s : s = [Idle EXCEPT !.pc = "fetch", !.pre = b]
  OBVIOUS
<1>4. s \in Slot /\ s.pc = "fetch" /\ s.pre = b
  <2>1. s = [pc |-> "fetch", pre |-> b, post |-> <<>>, age |-> 0, seen |-> "none"]
    BY <1>3 DEF Idle
  <2>2. <<>> \in Seq(L2Blocks) /\ "none" \in RequestStates
    BY DEF RequestStates
  <2> QED
    BY <2>1, <2>2 DEF Slot
<1>5. slots' = [slots EXCEPT ![i] = s] /\ UNCHANGED <<job, results, request>> /\ slots[i].pc = "todo"
  BY <1>2, <1>3 DEF FetchAgreed
<1>6. request' \in [1 .. Agg -> RequestStates]
  BY <1>5 DEF ProverInv, ProverOK
<1> QED
  BY <1>1, <1>2, <1>4, <1>5, <1>6, SlotMoves

LEMMA ClaimedFetched ==
    ASSUME ProverInv, UNCHANGED nodeVars, NEW i \in 1 .. Agg, FetchClaimed(i)
    PROVE  ProverInv'
<1> USE SlotNumbers
<1>1. slots[i] \in Slot /\ slots \in [1 .. Agg -> Slot] /\ slots[i].pc = "fetch" /\ request \in [1 .. Agg -> RequestStates]
  BY DEF FetchClaimed, ProverInv, ProverOK
<1>2. i # Agg
  BY <1>1 DEF ProverInv, SlotsOK
<1>3. i \in 1 .. N /\ Ranges[i].end \in Nat
  BY <1>2, RangesAreContiguous
<1>4. PICK b \in Seq(L2Blocks) : b = L2BlockAt(Ranges[i].end) /\ Len(b) = Ranges[i].end
  BY <1>3, BlockRead DEF FetchClaimed, ProverInv
<1>5. PICK s : s = [slots[i] EXCEPT !.pc = "witness", !.post = b]
  OBVIOUS
<1>6. s \in Slot /\ s.pc = "witness" /\ s.pre = slots[i].pre /\ s.post = b
  BY <1>1, <1>5 DEF Slot
<1>7. slots' = [slots EXCEPT ![i] = s] /\ UNCHANGED <<job, results, request>>
  BY <1>1, <1>4, <1>5 DEF FetchClaimed, Slot
<1>8. Len(slots[i].pre) = Ranges[i].start
  BY <1>1, <1>3 DEF ProverInv, SlotsOK, RangeSlotOK
<1> QED
  BY <1>1, <1>2, <1>3, <1>4, <1>6, <1>7, <1>8, SlotMoves

(* What the range program accepts is what the L1 head derives.             *)
LEMMA RangeRequested ==
    ASSUME ProverInv, UNCHANGED nodeVars, NEW i \in 1 .. Agg, RequestRangeProof(i)
    PROVE  ProverInv'
<1> USE SlotNumbers
<1>1. /\ slots[i] \in Slot /\ slots \in [1 .. Agg -> Slot] /\ slots[i].pc = "witness"
      /\ request \in [1 .. Agg -> RequestStates] /\ i \in 1 .. N
  BY DEF RequestRangeProof, ProverInv, ProverOK
<1>2. Len(slots[i].pre) = Ranges[i].start /\ Len(slots[i].post) = Ranges[i].end
  BY <1>1 DEF ProverInv, SlotsOK, RangeSlotOK
<1>3. slots[i].pre \in Seq(L2Blocks) /\ slots[i].post \in Seq(L2Blocks)
  BY <1>1 DEF Slot
<1>4. IsPrefix(slots[i].pre, Target) /\ IsPrefix(slots[i].post, Target)
  BY DEF RequestRangeProof, Derives, Target
<1>5. /\ slots[i].pre = SubSeq(Target, 1, Ranges[i].start)
      /\ slots[i].post = SubSeq(Target, 1, Ranges[i].end)
  BY <1>2, <1>3, <1>4, TargetTyped, PrefixIsBlock
<1>6. PICK pc \in {"ready", "wait"} : slots' = [slots EXCEPT ![i].pc = pc]
  BY DEF RequestRangeProof, Generate, MockProves, Submit
<1>7. request' \in [1 .. Agg -> RequestStates] /\ UNCHANGED <<job, results>>
  BY <1>1 DEF RequestRangeProof, Generate, MockProves, Submit, RequestStates
<1>8. PICK s : s = [slots[i] EXCEPT !.pc = pc]
  OBVIOUS
<1>9. s \in Slot /\ s.pc = pc /\ s.pre = slots[i].pre /\ s.post = slots[i].post
  BY <1>1, <1>8 DEF Slot
<1>10. slots' = [slots EXCEPT ![i] = s]
  BY <1>1, <1>6, <1>8 DEF Slot
<1> QED
  BY <1>1, <1>5, <1>7, <1>9, <1>10, SlotMoves

(* Polling a request keeps what it was made for.                           *)
LEMMA Polled ==
    ASSUME ProverInv, UNCHANGED <<nodeVars, job, results, request>>, NEW i \in 1 .. Agg,
           slots[i].pc \in {"wait", "details"},
           NEW pc \in {"wait", "details", "ready"}, NEW seen \in RequestStates,
           slots' = [slots EXCEPT ![i].pc = pc, ![i].seen = seen]
    PROVE  ProverInv'
<1> USE SlotNumbers
<1>1. /\ slots[i] \in Slot /\ slots \in [1 .. Agg -> Slot]
      /\ request \in [1 .. Agg -> RequestStates]
  BY DEF ProverInv, ProverOK
<1>2. PICK s : s = [slots[i] EXCEPT !.pc = pc, !.seen = seen]
  OBVIOUS
<1>3. s \in Slot /\ s.pc = pc /\ s.pre = slots[i].pre /\ s.post = slots[i].post
  BY <1>1, <1>2 DEF Slot
<1>4. slots' = [slots EXCEPT ![i] = s]
  BY <1>1, <1>2 DEF Slot
<1>5. i \in 1 .. N => /\ slots[i].pre = SubSeq(Target, 1, Ranges[i].start)
                      /\ slots[i].post = SubSeq(Target, 1, Ranges[i].end)
  BY DEF ProverInv, SlotsOK, RangeSlotOK
<1>6. request' \in [1 .. Agg -> RequestStates] /\ slots[i].pc # "done" /\ s.pc # "done"
      /\ UNCHANGED <<nodeVars, job, results>>
  BY <1>1, <1>3
<1> QED
  BY <1>3, <1>4, <1>5, <1>6, SlotMoves

LEMMA JobFailed ==
    ASSUME ProverInv, UNCHANGED nodeVars, JobFails
    PROVE  ProverInv'
<1>1. NodesOK' /\ ProverOK
  BY DEF ProverInv, NodesOK, nodeVars
<1> QED
  BY <1>1, FreshAttempt DEF JobFails

(* A range's proof is added to the results, where its number is new.       *)
LEMMA RangeCollected ==
    ASSUME ProverInv, UNCHANGED nodeVars, NEW i \in 1 .. Agg, RangeProved(i)
    PROVE  ProverInv'
<1> USE SlotNumbers
<1>1. /\ slots[i] \in Slot /\ slots \in [1 .. Agg -> Slot] /\ slots[i].pc = "ready" /\ i \in 1 .. N
      /\ job' = job /\ request' = request
  BY DEF RangeProved, ProverInv, ProverOK
<1>2. /\ slots[i].pre = SubSeq(Target, 1, Ranges[i].start)
      /\ slots[i].post = SubSeq(Target, 1, Ranges[i].end)
  BY <1>1 DEF ProverInv, SlotsOK, RangeSlotOK
<1>3. PICK r : r = Result(i)
  OBVIOUS
<1>4. results' = Append(results, r)
  BY <1>2, <1>3 DEF RangeProved, Result
<1>5. PICK s : s = [Idle EXCEPT !.pc = "done"]
  OBVIOUS
<1>6. s \in Slot /\ s.pc = "done"
  <2>1. s = [pc |-> "done", pre |-> <<>>, post |-> <<>>, age |-> 0, seen |-> "none"]
    BY <1>5 DEF Idle
  <2>2. <<>> \in Seq(L2Blocks) /\ "none" \in RequestStates
    BY DEF RequestStates
  <2> QED
    BY <2>1, <2>2 DEF Slot
<1>7. /\ slots' \in [1 .. Agg -> Slot] /\ slots'[i].pc = "done"
      /\ \A j \in 1 .. Agg : j # i => slots'[j] = slots[j]
  BY <1>1, <1>5, <1>6 DEF RangeProved
<1>8. /\ results \in Seq({Result(j) : j \in 1 .. N}) /\ r \in {Result(j) : j \in 1 .. N}
      /\ r.idx = i
  BY <1>1, <1>3 DEF ProverInv, ProverOK, Result
<1>9. /\ results' \in Seq({Result(j) : j \in 1 .. N})
      /\ Len(results) \in Nat /\ DOMAIN results = 1 .. Len(results)
      /\ DOMAIN results' = 1 .. (Len(results) + 1)
      /\ results'[Len(results) + 1] = r
      /\ \A k \in DOMAIN results : results'[k] = results[k]
  BY <1>4, <1>8
<1>10. \A k \in DOMAIN results :
         results[k].idx \in 1 .. N /\ slots[results[k].idx].pc = "done" /\ results[k].idx # i
  <2> TAKE k \in DOMAIN results
  <2>1. results[k] \in {Result(j) : j \in 1 .. N}
    BY <1>8
  <2>2. results[k].idx \in 1 .. N
    BY <2>1 DEF Result
  <2> QED
    BY <1>1, <2>2 DEF ProverInv, ResultsOK
<1>11. ProverOK'
  BY <1>1, <1>7, <1>9 DEF ProverInv, ProverOK
<1>12. SlotsOK'
  <2>1. ASSUME NEW j \in 1 .. N PROVE RangeSlotOK(j)'
    BY <1>7 DEF RangeSlotOK, ProverInv, SlotsOK
  <2> QED
    BY <1>1, <1>7, <2>1 DEF ProverInv, SlotsOK
<1>13. ResultsOK'
  <2>1. ASSUME NEW k \in DOMAIN results' PROVE slots'[results'[k].idx].pc = "done"
    <3>1. CASE k = Len(results) + 1
      BY <1>7, <1>8, <1>9, <3>1
    <3>2. CASE k \in DOMAIN results
      BY <1>7, <1>9, <1>10, <3>2
    <3> QED
      BY <1>9, <3>1, <3>2
  <2>2. ASSUME NEW j \in DOMAIN results', NEW k \in DOMAIN results',
               results'[j].idx = results'[k].idx
        PROVE  j = k
    <3>1. CASE j \in DOMAIN results /\ k \in DOMAIN results
      BY <1>9, <2>2, <3>1 DEF ProverInv, ResultsOK
    <3>2. CASE j \notin DOMAIN results /\ k \notin DOMAIN results
      BY <1>9, <3>2
    <3>3. ASSUME NEW m \in DOMAIN results', NEW n \in DOMAIN results', m \notin DOMAIN results,
                 n \in DOMAIN results
          PROVE  results'[m].idx # results'[n].idx
      <4>1. m = Len(results) + 1
        BY <1>9, <3>3
      <4>2. results'[m].idx = i
        BY <1>8, <1>9, <4>1
      <4>3. results'[n].idx # i
        BY <1>9, <1>10, <3>3
      <4> QED
        BY <4>2, <4>3
    <3> QED
      BY <2>2, <3>1, <3>2, <3>3
  <2> QED
    BY <2>1, <2>2 DEF ResultsOK
<1>14. JobOK'
  <2>1. ASSUME job.pc \in {"headers", "agg", "submitted"}, NEW j \in 1 .. N
        PROVE  \E k \in DOMAIN results' : results'[k].idx = j
    <3>1. PICK k \in DOMAIN results : results[k].idx = j
      BY <2>1 DEF ProverInv, JobOK
    <3>2. k \in DOMAIN results' /\ results'[k].idx = j
      BY <1>9, <3>1
    <3> QED
      BY <3>2
  <2>2. (Canonical(game.l1Head)' <=> Canonical(game.l1Head)) /\ (KnownL1(game.l1Head)' <=> KnownL1(game.l1Head))
    BY DEF KnownL1, Canonical, L1Has, L1BlockAt, nodeVars
  <2> QED
    BY <1>1, <2>1, <2>2 DEF ProverInv, JobOK
<1>15. NodesOK'
  BY DEF ProverInv, NodesOK, nodeVars
<1> QED
  BY <1>11, <1>12, <1>13, <1>14, <1>15 DEF ProverInv

LEMMA SlotStep ==
    ASSUME ProverInv, UNCHANGED nodeVars, NEW i \in 1 .. Agg, SlotNext(i) \/ DetailsFail(i)
    PROVE  ProverInv'
<1>1. request[i] \in RequestStates /\ "none" \in RequestStates
  BY DEF ProverInv, ProverOK, RequestStates
<1>2. CASE ProvingTimeout(i)
  BY <1>2, JobFailed DEF ProvingTimeout
<1>3. CASE GetProofStatus(i)
  BY <1>1, <1>3, Polled DEF GetProofStatus
<1>4. CASE GetProofRequest(i)
  <2>1. CASE JobFails
    BY <2>1, JobFailed
  <2>2. CASE ~JobFails
    <3>1. PICK pc \in {"wait", "details", "ready"} :
            slots' = [slots EXCEPT ![i].pc = pc, ![i].seen = "none"]
      BY <1>4, <2>2 DEF GetProofRequest
    <3>2. UNCHANGED <<job, results, request>> /\ slots[i].pc = "details"
      BY <1>4, <2>2 DEF GetProofRequest
    <3> QED
      BY <1>1, <3>1, <3>2, Polled
  <2> QED
    BY <2>1, <2>2
<1>5. CASE DetailsFail(i)
  BY <1>1, <1>5, Polled DEF DetailsFail
<1>6. CASE ClusterAnswers(i)
  <2>1. slots[i] \in Slot /\ slots \in [1 .. Agg -> Slot]
    BY DEF ProverInv, ProverOK
  <2>2. slots' = [slots EXCEPT ![i].pc = "ready", ![i].seen = slots[i].seen]
    BY <1>6, <2>1 DEF ClusterAnswers, Slot
  <2>3. slots[i].seen \in RequestStates
    BY <2>1 DEF Slot
  <2> QED
    BY <1>6, <2>2, <2>3, Polled DEF ClusterAnswers
<1> QED
  BY <1>2, <1>3, <1>4, <1>5, <1>6, AgreedFetched, ClaimedFetched, RangeRequested, RangeCollected
  DEF SlotNext

(* Ages, the network's answers and the order of the rest do not matter.    *)
LEMMA Aged ==
    ASSUME ProverInv, UNCHANGED nodeVars, Tick
    PROVE  ProverInv'
<1> USE SlotNumbers
<1>1. MaxAge \in Nat
  <2>1. PICK T : T = {Timeout, AuctionTimeout, ServerDeadline}
    OBVIOUS
  <2>2. T \subseteq Nat /\ \E x \in T : \A y \in T : x >= y
    BY <2>1, ProverAssumption
  <2>3. Max(T) \in T
    BY <2>2, Zenon DEF Max
  <2> QED
    BY <2>1, <2>2, <2>3 DEF MaxAge
<1>2. /\ slots \in [1 .. Agg -> Slot] /\ UNCHANGED <<job, results, request>>
      /\ slots' = [i \in 1 .. Agg |->
                     IF slots[i].pc \in {"wait", "details"}
                     THEN [slots[i] EXCEPT !.age = Min({@ + 1, MaxAge})] ELSE slots[i]]
  BY DEF Tick, ProverInv, ProverOK
<1>3. ASSUME NEW i \in 1 .. Agg
      PROVE  /\ slots'[i] \in Slot /\ slots'[i].pc = slots[i].pc
             /\ slots'[i].pre = slots[i].pre /\ slots'[i].post = slots[i].post
  <2>1. slots[i] \in Slot /\ slots[i].age \in Nat
    BY <1>2 DEF Slot
  <2>2. CASE slots[i].pc \in {"wait", "details"}
    <3>1. PICK a : a = Min({slots[i].age + 1, MaxAge})
      OBVIOUS
    <3>2. a \in Nat
      BY <1>1, <2>1, <3>1, MinOfTwo
    <3>3. slots'[i] = [slots[i] EXCEPT !.age = a]
      BY <1>2, <2>1, <2>2, <3>1 DEF Slot
    <3> QED
      BY <2>1, <3>2, <3>3 DEF Slot
  <2>3. CASE slots[i].pc \notin {"wait", "details"}
    BY <1>2, <2>1, <2>3
  <2> QED
    BY <2>2, <2>3
<1>4. slots' \in [1 .. Agg -> Slot]
  <2>1. slots' = [i \in 1 .. Agg |-> slots'[i]]
    BY <1>2
  <2> QED
    BY <1>3, <2>1
<1>5. ProverOK'
  BY <1>2, <1>4 DEF ProverInv, ProverOK
<1>6. SlotsOK'
  BY <1>3 DEF ProverInv, SlotsOK, RangeSlotOK
<1>7. ResultsOK'
  <2>1. \A k \in DOMAIN results : results[k].idx \in 1 .. Agg
    <3> TAKE k \in DOMAIN results
    <3>1. results[k] \in {Result(j) : j \in 1 .. N}
      BY DEF ProverInv, ProverOK
    <3> QED
      BY <3>1 DEF Result
  <2> QED
    BY <1>2, <1>3, <2>1 DEF ProverInv, ResultsOK
<1>8. JobOK' /\ NodesOK'
  BY <1>2 DEF ProverInv, JobOK, NodesOK, KnownL1, Canonical, L1Has, L1BlockAt, nodeVars
<1> QED
  BY <1>5, <1>6, <1>7, <1>8 DEF ProverInv

LEMMA NetworkMoved ==
    ASSUME ProverInv, UNCHANGED nodeVars, NEW i \in 1 .. Agg, NetworkActs(i)
    PROVE  ProverInv'
<1>1. UNCHANGED <<job, slots, results>>
  BY DEF NetworkActs
<1>2. request' \in [1 .. Agg -> RequestStates]
  <2>1. request \in [1 .. Agg -> RequestStates]
    BY DEF ProverInv, ProverOK
  <2> QED
    BY <2>1 DEF NetworkActs, RequestStates
<1>3. ProverOK' /\ SlotsOK' /\ ResultsOK'
  BY <1>1, <1>2 DEF ProverInv, ProverOK, SlotsOK, RangeSlotOK, ResultsOK
<1>4. JobOK' /\ NodesOK'
  BY <1>1 DEF ProverInv, JobOK, NodesOK, KnownL1, Canonical, L1Has, L1BlockAt, nodeVars
<1> QED
  BY <1>3, <1>4 DEF ProverInv

(* As many results as ranges, each of another range: all of them.          *)
LEMMA AllCollected ==
    ASSUME ProverOK, ResultsOK, Len(results) = N, NEW i \in 1 .. N
    PROVE  \E k \in DOMAIN results : results[k].idx = i
<1> USE SlotNumbers
<1> DEFINE f == [k \in 1 .. N |-> results[k].idx]
<1>1. results \in Seq({Result(j) : j \in 1 .. N}) /\ DOMAIN results = 1 .. N
  BY DEF ProverOK
<1>2. \A k \in 1 .. N : results[k].idx \in 1 .. N
  <2> TAKE k \in 1 .. N
  <2>1. results[k] \in {Result(j) : j \in 1 .. N}
    BY <1>1
  <2> QED
    BY <2>1 DEF Result
<1>3. f \in Injection(1 .. N, 1 .. N)
  BY <1>1, <1>2 DEF Injection, IsInjective, ResultsOK
<1>4. IsFiniteSet(1 .. N)
  BY FS_Interval
<1>5. f \in Surjection(1 .. N, 1 .. N)
  <2> HIDE DEF f
  <2> QED
    BY <1>3, <1>4, FS_Injection
<1> QED
  BY <1>1, <1>5 DEF Surjection

(* The results in the order of their ranges.                               *)
LEMMA BootInfosAre ==
    ASSUME ProverOK, \A i \in 1 .. N : \E k \in DOMAIN results : results[k].idx = i
    PROVE  BootInfos = [i \in 1 .. N |-> Result(i)]
<1> SUFFICES ASSUME NEW i \in 1 .. N
             PROVE  (CHOOSE r \in ToSet(results) : r.idx = i) = Result(i)
  BY DEF BootInfos
<1>1. ASSUME NEW r \in ToSet(results), r.idx = i PROVE r = Result(i)
  <2>1. PICK j \in 1 .. N : r = Result(j)
    BY <1>1 DEF ProverOK, ToSet
  <2>2. r.idx = j
    BY <2>1 DEF Result
  <2> QED
    BY <1>1, <2>1, <2>2
<1>2. \E r \in ToSet(results) : r.idx = i
  BY DEF ToSet
<1> HIDE DEF Result
<1> QED
  BY <1>1, <1>2

LEMMA HeadersRead ==
    ASSUME ProverInv, UNCHANGED nodeVars, GetHeaderPreimages
    PROVE  ProverInv'
<1> USE SlotNumbers, Heights
<1>1. NodesOK /\ ProverOK /\ ResultsOK /\ JobOK /\ game.l1Head \in Blocks /\ job.pc = "ranges"
  BY ProverConstants DEF ProverInv, GetHeaderPreimages
<1>2. \A i \in 1 .. N : \E k \in DOMAIN results : results[k].idx = i
  BY <1>1, AllCollected DEF GetHeaderPreimages
<1>3. PICK n \in 0 .. MaxHeight : n = game.l1Head[1]
  BY <1>1 DEF Blocks, Block
<1>4. \A i \in 1 .. N : BootInfos[i].l1Head[1] = n
  BY <1>1, <1>2, <1>3, BootInfosAre DEF Result
<1>5. {BootInfos[i].l1Head[1] : i \in 1 .. N} = {n, n}
  BY <1>4
<1>6. Min({BootInfos[i].l1Head[1] : i \in 1 .. N}) = n
  <2>1. Min({n, n}) = n
    BY MinOfTwo
  <2> QED
    BY <1>5, <2>1, Zenon
<1>7. BootInfos[N].l1Head[1] = n
  BY <1>4
<1>8. PICK hs : hs = [k \in 1 .. (n - n + 1) |-> L1BlockAt(n + k - 1)]
  OBVIOUS
<1>9. L1Has(n) /\ job' = [job EXCEPT !.pc = "headers", !.headers = hs]
      /\ slots' = slots /\ results' = results /\ request' = request
  BY <1>6, <1>7, <1>8, Zenon DEF GetHeaderPreimages
<1>10. L1BlockAt(n) \in Blocks
  BY <1>1, BlocksAre DEF NodesOK, L1BlockAt
<1>11. hs \in Seq(Blocks) /\ Len(hs) = 1 /\ hs[1] = L1BlockAt(n)
  <2>1. n - n + 1 = 1 /\ \A k \in 1 .. 1 : n + k - 1 = n
    OBVIOUS
  <2>2. hs = [k \in 1 .. 1 |-> L1BlockAt(n)]
    BY <1>8, <2>1
  <2> QED
    BY <1>10, <2>2
<1>12. ProverOK'
  BY <1>1, <1>9, <1>11 DEF ProverOK
<1>13. job'.pc = "headers" /\ job'.headers = hs
  BY <1>1, <1>9 DEF ProverOK
<1>14. /\ Canonical(game.l1Head)' <=> Canonical(game.l1Head)
       /\ KnownL1(game.l1Head)' <=> KnownL1(game.l1Head)
  BY DEF KnownL1, Canonical, L1Has, L1BlockAt, nodeVars
<1>15. Canonical(game.l1Head) => hs[1] = game.l1Head
  BY <1>3, <1>11 DEF Canonical
<1>16. JobOK'
  BY <1>1, <1>2, <1>9, <1>11, <1>13, <1>14, <1>15 DEF JobOK
<1>17. SlotsOK' /\ ResultsOK' /\ NodesOK'
  BY <1>9 DEF ProverInv, SlotsOK, RangeSlotOK, ResultsOK, NodesOK, nodeVars
<1> QED
  BY <1>12, <1>16, <1>17 DEF ProverInv

(* The aggregation program accepts every list of all ranges' results whose *)
(* L1 head the headers end in, and states what the game verifies.          *)
LEMMA AggregationAccepts ==
    ASSUME NEW hs \in Seq(Blocks), Len(hs) = 1
    PROVE  LET boots == [i \in 1 .. N |-> Result(i)]
           IN /\ hs[1] = game.l1Head => Aggregates(boots, hs, game.l1Head)
              /\ AggregationOutputs(boots, game.l1Head) = RightOutput
<1> USE SlotNumbers
<1> DEFINE boots == [i \in 1 .. N |-> Result(i)]
<1>1. boots # <<>> /\ Len(boots) = N /\ DOMAIN boots = 1 .. N
  BY DEF Result
<1>2. ASSUME NEW i \in 1 .. (N - 1) PROVE boots[i].post = boots[i + 1].pre
  <2>1. i \in 1 .. N /\ i + 1 \in 1 .. N /\ Ranges[i].end = Ranges[i + 1].start
    BY RangesAreContiguous
  <2> QED
    BY <2>1 DEF Result
<1>3. \A i \in 1 .. N : boots[i].l1Head = game.l1Head
  BY DEF Result
<1>4. hs # <<>> /\ Last(hs) = hs[1] /\ hs[1] \in ToSet(hs)
  BY DEF Last, ToSet
<1>5. /\ boots[1].pre = SubSeq(Target, 1, game.start)
      /\ boots[N].post = SubSeq(Target, 1, game.end) /\ boots[N].block = game.end
  <2>1. 1 \in 1 .. N /\ N \in 1 .. N /\ Ranges[1].start = game.start /\ Ranges[N].end = game.end
    BY RangesAreContiguous
  <2> QED
    BY <2>1 DEF Result
<1> HIDE DEF boots
<1>6. hs[1] = game.l1Head => Aggregates(boots, hs, game.l1Head)
  BY <1>1, <1>2, <1>3, <1>4 DEF Aggregates
<1>7. AggregationOutputs(boots, game.l1Head) = RightOutput
  BY <1>1, <1>5 DEF AggregationOutputs, RightOutput, Last
<1> QED
  BY <1>6, <1>7 DEF boots

LEMMA AggregationRequested ==
    ASSUME ProverInv, UNCHANGED nodeVars, RequestAggProof
    PROVE  ProverInv'
<1> USE SlotNumbers
<1>1. NodesOK /\ NodesOK' /\ ProverOK /\ SlotsOK /\ ResultsOK /\ JobOK /\ job.pc = "headers"
  BY DEF ProverInv, RequestAggProof, NodesOK, nodeVars
<1>2. \A i \in 1 .. N : \E k \in DOMAIN results : results[k].idx = i
  BY <1>1 DEF JobOK
<1>3. PICK boots : boots = [i \in 1 .. N |-> Result(i)]
  OBVIOUS
<1>4. BootInfos = boots /\ BootInfos[N].l1Head = game.l1Head
  BY <1>1, <1>2, <1>3, BootInfosAre DEF Result
<1>5. /\ job.headers \in Seq(Blocks) /\ Len(job.headers) = 1
      /\ Canonical(game.l1Head) => job.headers[1] = game.l1Head
      /\ KnownL1(game.l1Head)
  BY <1>1 DEF ProverOK, JobOK
<1>6. /\ job.headers[1] = game.l1Head => Aggregates(boots, job.headers, game.l1Head)
      /\ AggregationOutputs(boots, game.l1Head) = RightOutput
  BY <1>3, <1>5, AggregationAccepts
<1>7. /\ Canonical(game.l1Head)' <=> Canonical(game.l1Head)
      /\ KnownL1(game.l1Head)' <=> KnownL1(game.l1Head)
  BY DEF KnownL1, Canonical, L1Has, L1BlockAt, nodeVars
<1>8. CASE ~Aggregates(boots, job.headers, game.l1Head)
  <2>1. Fresh("rejected", job.mode)
    BY <1>4, <1>8 DEF RequestAggProof
  <2> QED
    BY <1>1, <1>5, <1>6, <1>7, <1>8, <2>1, FreshAttempt
<1>9. CASE Aggregates(boots, job.headers, game.l1Head)
  <2>1. /\ job' = [job EXCEPT !.pc = "agg", !.output = RightOutput]
        /\ Generate(Agg) /\ results' = results
    BY <1>4, <1>6, <1>9 DEF RequestAggProof
  <2>2. PICK pc \in {"ready", "wait"} : slots' = [slots EXCEPT ![Agg].pc = pc]
    BY <2>1 DEF Generate, MockProves, Submit
  <2>3. slots \in [1 .. Agg -> Slot] /\ request \in [1 .. Agg -> RequestStates]
    BY <1>1 DEF ProverOK
  <2>4. request' \in [1 .. Agg -> RequestStates]
    BY <2>1, <2>3 DEF Generate, MockProves, Submit, RequestStates
  <2>5. /\ slots' \in [1 .. Agg -> Slot] /\ slots'[Agg].pc = pc
        /\ \A j \in 1 .. N : slots'[j] = slots[j]
    <3>1. slots[Agg] \in Slot
      BY <2>3
    <3>2. PICK s : s = [slots[Agg] EXCEPT !.pc = pc]
      OBVIOUS
    <3>3. s \in Slot /\ s.pc = pc
      BY <3>1, <3>2 DEF Slot
    <3>4. slots' = [slots EXCEPT ![Agg] = s]
      BY <2>2, <2>3, <3>1, <3>2 DEF Slot
    <3> QED
      BY <2>3, <3>3, <3>4
  <2>6. job'.pc = "agg" /\ job'.output = RightOutput
    BY <1>1, <2>1 DEF ProverOK
  <2>7. ProverOK'
    BY <1>1, <2>1, <2>4, <2>5 DEF ProverOK
  <2>8. SlotsOK'
    BY <1>1, <2>5 DEF SlotsOK, RangeSlotOK
  <2>9. ResultsOK'
    <3>1. \A k \in DOMAIN results : results[k].idx \in 1 .. N
      <4> TAKE k \in DOMAIN results
      <4>1. results[k] \in {Result(j) : j \in 1 .. N}
        BY <1>1 DEF ProverOK
      <4> QED
        BY <4>1 DEF Result
    <3> QED
      BY <1>1, <2>1, <2>5, <3>1 DEF ResultsOK
  <2>10. JobOK'
    BY <1>2, <1>5, <1>7, <2>1, <2>6 DEF JobOK
  <2> QED
    BY <1>1, <2>7, <2>8, <2>9, <2>10 DEF ProverInv
<1> QED
  BY <1>8, <1>9

LEMMA ProverStep ==
    ASSUME ProverInv, UNCHANGED nodeVars, ProverNext
    PROVE  ProverInv'
<1>1. CASE ProveGame
  <2>1. NodesOK' /\ ProverOK /\ Canonical(game.l1Head)'
    BY <1>1 DEF ProveGame, ProverInv, NodesOK, Canonical, L1Has, L1BlockAt, nodeVars
  <2> QED
    BY <1>1, <2>1, FreshAttempt DEF ProveGame
<1>2. CASE SubmitProof
  <2>1. /\ job.pc = "agg" /\ job' = [job EXCEPT !.pc = "submitted"]
        /\ slots' = slots /\ results' = results /\ request' = request
    BY <1>2 DEF SubmitProof
  <2>2. ProverOK'
    BY <2>1 DEF ProverInv, ProverOK
  <2>3. job'.pc = "submitted" /\ job'.output = job.output
    BY <2>1 DEF ProverInv, ProverOK
  <2>4. JobOK'
    BY <2>1, <2>3 DEF ProverInv, JobOK, KnownL1, Canonical, L1Has, L1BlockAt, nodeVars
  <2>5. SlotsOK' /\ ResultsOK' /\ NodesOK'
    BY <2>1 DEF ProverInv, SlotsOK, RangeSlotOK, ResultsOK, NodesOK, nodeVars
  <2> QED
    BY <2>2, <2>4, <2>5 DEF ProverInv
<1>3. CASE CallFails
  BY <1>3, JobFailed DEF CallFails
<1>4. CASE \E i \in 1 .. Agg : SlotNext(i) \/ DetailsFail(i) \/ NetworkActs(i)
  BY <1>4, SlotStep, NetworkMoved
<1> QED
  BY <1>1, <1>2, <1>3, <1>4, HeadersRead, AggregationRequested, Aged DEF ProverNext

(* Whatever order the ranges finish in and however the nodes move, the     *)
(* proof submitted states what the game verifies, and the aggregation      *)
(* program refuses it only when the game's L1 block has been reorganized   *)
(* away.                                                                   *)
THEOREM ProofsFitTheGame == Spec => []ProvesTheGame
<1>1. Init => ProverInv
  BY ProverStart
<1>2. ProverInv /\ [Next]_vars => ProverInv'
  <2> SUFFICES ASSUME ProverInv, [Next]_vars PROVE ProverInv'
    OBVIOUS
  <2>1. CASE NodesMove
    BY <2>1, NodesUnderProving DEF NodesMove, NodesStep
  <2>2. CASE ProverActs
    BY <2>2, ProverStep DEF ProverActs
  <2>3. CASE UNCHANGED <<nodeVars, proverVars>>
    BY <2>3 DEF ProverInv, NodesOK, ProverOK, SlotsOK, RangeSlotOK, ResultsOK, JobOK, KnownL1,
                Canonical, L1Has, L1BlockAt, nodeVars, proverVars
  <2> QED
    BY <2>1, <2>2, <2>3 DEF Next, EstimatorActs, ValidatorActs, vars
<1>3. ProverInv => ProvesTheGame
  BY DEF ProverInv, JobOK, ProvesTheGame, RightOutput, Target
<1> QED
  BY <1>1, <1>2, <1>3, PTL DEF Spec

-----------------------------------------------------------------------------
(* The estimator: splitting a range.                                       *)

Span == [start : Nat, end : Nat]

(* The spans cut the blocks after a up to b, none longer than max.         *)
Cuts(spans, a, b, max) ==
    /\ spans \in Seq(Span)
    /\ spans = <<>> => a = b
    /\ spans # <<>> => spans[1].start = a /\ spans[Len(spans)].end = b
    /\ \A i \in 1 .. Len(spans) :
          spans[i].start < spans[i].end /\ spans[i].end - spans[i].start <= max
    /\ \A i \in 2 .. Len(spans) : spans[i].start = spans[i - 1].end

LEMMA CutsAreContiguous ==
    ASSUME NEW spans, NEW a, NEW b, Cuts(spans, a, b, cfg.batch)
    PROVE  Contiguous(spans, a, b)
<1>1. /\ spans \in Seq(Span) /\ DOMAIN spans = 1 .. Len(spans) /\ Len(spans) \in Nat
      /\ Head(spans) = spans[1] /\ Last(spans) = spans[Len(spans)]
  BY DEF Cuts, Head, Last
<1>2. \A i \in 1 .. Len(spans) : i > 1 => spans[i].start = spans[i - 1].end
  BY <1>1 DEF Cuts
<1> QED
  BY <1>1, <1>2 DEF Cuts, Contiguous

(* The fixed-size splitter cuts its range.                                 *)
LEMMA BasicCuts ==
    ASSUME NEW a \in Nat, NEW b \in Nat, a <= b, NEW max \in Nat \ {0}
    PROVE  Cuts(SplitRangeBasic(a, b, max), a, b, max)
<1> DEFINE R == SplitRangeBasic(a, b, max)
<1>1. CASE a = b
  <2>1. (b - a + max - 1) \div max = 0
    <3>1. b - a + max - 1 = max - 1 /\ max - 1 \in 0 .. (max - 1)
      BY <1>1
    <3>2. (max - 1) \div max = 0
      <4> DEFINE q == (max - 1) \div max
      <4>1. q \in Int /\ (max - 1) % max \in 0 .. (max - 1) /\ max - 1 = max * q + ((max - 1) % max)
        BY <3>1
      <4> HIDE DEF q
      <4>2. max * q <= max - 1 /\ max * q >= 0
        BY <4>1
      <4>3. q >= 1 => max * q >= max
        BY <4>1
      <4>4. q <= -1 => max * q <= -max
        BY <4>1
      <4>5. q = 0
        BY <4>1, <4>2, <4>3, <4>4
      <4> QED
        BY <4>5 DEF q
    <3> QED
      BY <3>1, <3>2
  <2>2. R = <<>>
    BY <2>1 DEF SplitRangeBasic
  <2>3. <<>> \in Seq(Span) /\ Len(<<>>) = 0
    OBVIOUS
  <2> HIDE DEF R
  <2>4. Cuts(R, a, b, max)
    BY <1>1, <2>2, <2>3 DEF Cuts
  <2> QED
    BY <2>4 DEF R
<1>2. CASE a < b
  <2>1. PICK t \in Nat \ {0} : t = b - a
    BY <1>2
  <2>2. PICK q \in Nat : /\ q = (t + max - 1) \div max
                         /\ q >= 1 /\ t <= q * max /\ (q - 1) * max < t
    BY DivideUp
  <2>3. R = [i \in 1 .. q |-> [start |-> a + (i - 1) * max, end |-> Min({a + i * max, b})]]
    BY <2>1, <2>2, Zenon DEF SplitRangeBasic
  <2>4. ASSUME NEW i \in 1 .. q
        PROVE  /\ R[i].start = a + (i - 1) * max
               /\ R[i].end = IF i < q THEN a + i * max ELSE b
               /\ R[i] \in Span
               /\ R[i].start < R[i].end /\ R[i].end - R[i].start <= max
    <3>1. R[i] = [start |-> a + (i - 1) * max, end |-> Min({a + i * max, b})]
      BY <2>3
    <3>2. /\ (i - 1) * max \in Nat /\ i * max \in Nat
          /\ i * max = (i - 1) * max + max
      BY <2>2
    <3>3. Min({a + i * max, b}) = IF a + i * max <= b THEN a + i * max ELSE b
      BY <3>2, MinOfTwo
    <3>4. i < q => a + i * max <= b
      <4> SUFFICES ASSUME i < q PROVE a + i * max <= b
        OBVIOUS
      <4>1. i <= q - 1 /\ q - 1 \in Nat
        BY <2>2
      <4>2. i * max <= (q - 1) * max /\ (q - 1) * max \in Nat
        BY <4>1
      <4> QED
        BY <2>1, <2>2, <3>2, <4>2
    <3>5. ~(i < q) => i = q /\ a + i * max >= b
      <4>1. ~(i < q) => i = q
        BY <2>2
      <4> QED
        BY <2>1, <2>2, <3>2, <4>1
    <3>6. i = q => (i - 1) * max < t
      BY <2>2
    <3>7. Min({a + i * max, b}) = IF i < q THEN a + i * max ELSE b
      BY <3>2, <3>3, <3>4, <3>5
    <3>8. a + (i - 1) * max \in Nat /\ a + i * max \in Nat
      BY <3>2
    <3>9. i < q \/ (i = q /\ a + i * max >= b)
      BY <3>5
    <3> QED
      BY <2>1, <3>1, <3>2, <3>6, <3>7, <3>8, <3>9 DEF Span
  <2>5. R \in Seq(Span) /\ Len(R) = q
    <3>1. R \in [1 .. q -> Span]
      BY <2>3, <2>4
    <3> HIDE DEF R
    <3>2. R \in Seq(Span)
      BY <3>1, IsASeq
    <3> QED
      BY <3>1, <3>2, LenProperties
  <2>6. R # <<>>
    <3>1. Len(<<>>) = 0
      OBVIOUS
    <3> QED
      BY <2>2, <2>5, <3>1
  <2>7. R[1].start = a /\ R[q].end = b
    <3>1. 1 \in 1 .. q /\ q \in 1 .. q /\ (1 - 1) * max = 0
      BY <2>2
    <3> QED
      BY <2>4, <3>1
  <2>8. ASSUME NEW i \in 2 .. q PROVE R[i].start = R[i - 1].end
    <3>1. i \in 1 .. q /\ i - 1 \in 1 .. q /\ i - 1 < q
      BY <2>2
    <3> QED
      BY <2>4, <3>1
  <2> HIDE DEF R
  <2>9. Cuts(R, a, b, max)
    BY <2>4, <2>5, <2>6, <2>7, <2>8 DEF Cuts
  <2> QED
    BY <2>9 DEF R
<1> QED
  BY <1>1, <1>2

(* Cuts of adjacent ranges make one.                                       *)
LEMMA CutsJoin ==
    ASSUME NEW r, NEW s, NEW a \in Nat, NEW m \in Nat, NEW b \in Nat, NEW max \in Nat,
           Cuts(r, a, m, max), Cuts(s, m, b, max)
    PROVE  Cuts(r \o s, a, b, max)
<1>1. r \in Seq(Span) /\ s \in Seq(Span) /\ Len(r) \in Nat /\ Len(s) \in Nat
  BY DEF Cuts
<1>2. CASE r = <<>>
  <2>1. r \o s = s /\ a = m
    BY <1>1, <1>2, ConcatEmptySeq DEF Cuts
  <2> QED
    BY <2>1
<1>3. CASE s = <<>>
  <2>1. r \o s = r /\ b = m
    BY <1>1, <1>3, ConcatEmptySeq DEF Cuts
  <2> QED
    BY <2>1
<1>4. CASE r # <<>> /\ s # <<>>
  <2> DEFINE t == r \o s
  <2>1. Len(r) >= 1 /\ Len(s) >= 1
    BY <1>1, <1>4, EmptySeq
  <2>2. /\ t \in Seq(Span) /\ Len(t) = Len(r) + Len(s)
        /\ \A i \in 1 .. Len(t) : t[i] = IF i <= Len(r) THEN r[i] ELSE s[i - Len(r)]
    BY <1>1, ConcatProperties
  <2> HIDE DEF t
  <2>3. t # <<>> /\ t[1] = r[1] /\ t[Len(t)] = s[Len(s)]
    <3>1. 1 \in 1 .. Len(t) /\ Len(t) \in 1 .. Len(t) /\ 1 <= Len(r) /\ ~(Len(t) <= Len(r))
      BY <1>1, <2>1, <2>2
    <3>2. Len(t) - Len(r) = Len(s)
      BY <1>1, <2>2
    <3>3. Len(<<>>) = 0
      OBVIOUS
    <3> QED
      BY <1>1, <2>1, <2>2, <3>1, <3>2, <3>3
  <2>4. ASSUME NEW i \in 1 .. Len(t)
        PROVE  t[i].start < t[i].end /\ t[i].end - t[i].start <= max
    <3>1. CASE i <= Len(r)
      BY <1>1, <2>2, <3>1 DEF Cuts
    <3>2. CASE ~(i <= Len(r))
      <4>1. i - Len(r) \in 1 .. Len(s)
        BY <1>1, <2>2, <3>2
      <4> QED
        BY <2>2, <3>2, <4>1 DEF Cuts
    <3> QED
      BY <3>1, <3>2
  <2>5. ASSUME NEW i \in 2 .. Len(t) PROVE t[i].start = t[i - 1].end
    <3>0. i \in 1 .. Len(t) /\ i - 1 \in 1 .. Len(t)
      BY <1>1, <2>2
    <3>1. CASE i <= Len(r)
      <4>1. i \in 2 .. Len(r) /\ i - 1 <= Len(r)
        BY <1>1, <3>1
      <4> QED
        BY <2>2, <3>0, <3>1, <4>1 DEF Cuts
    <3>2. CASE i = Len(r) + 1
      <4>1. ~(i <= Len(r)) /\ i - 1 <= Len(r) /\ i - Len(r) = 1 /\ i - 1 = Len(r)
        BY <1>1, <3>2
      <4>2. t[i] = s[1] /\ t[i - 1] = r[Len(r)]
        BY <2>2, <3>0, <4>1
      <4> QED
        BY <1>4, <4>2 DEF Cuts
    <3>3. CASE i > Len(r) + 1
      <4>1. /\ ~(i <= Len(r)) /\ ~(i - 1 <= Len(r)) /\ i - Len(r) \in 2 .. Len(s)
            /\ (i - 1) - Len(r) = (i - Len(r)) - 1
        BY <1>1, <2>2, <3>3
      <4>2. t[i] = s[i - Len(r)] /\ t[i - 1] = s[(i - Len(r)) - 1]
        BY <2>2, <3>0, <4>1
      <4> QED
        BY <4>1, <4>2 DEF Cuts
    <3> QED
      BY <1>1, <3>1, <3>2, <3>3
  <2>6. Cuts(t, a, b, max)
    BY <1>4, <2>2, <2>3, <2>4, <2>5 DEF Cuts
  <2> QED
    BY <2>6 DEF t
<1> QED
  BY <1>2, <1>3, <1>4

LEMMA LeastOf ==
    ASSUME NEW S \in SUBSET Nat, S # {}
    PROVE  Min(S) \in S /\ \A y \in S : Min(S) <= y
<1>1. PICK x \in S : \A y \in S : x =< y
  BY LeastNatural
<1>2. Min(S) \in S /\ \A y \in S : Min(S) =< y
  BY <1>1, Zenon DEF Min
<1> QED
  BY <1>2

(* Lists made of pieces: for each number from a to b that is not in Stop,  *)
(* its piece and then the list for a greater number.                       *)
MadeOf(f, a, b, Stop, piece, go) ==
    /\ f = [x \in a .. b |-> f[x]]
    /\ \A x \in a .. b : f[x] = IF x \in Stop THEN <<>> ELSE piece[x] \o f[go[x]]

LEMMA PiecesDefined ==
    ASSUME NEW a \in Nat, NEW b \in Nat, a <= b, NEW Stop, NEW piece, NEW go,
           \A x \in (a .. b) \ Stop : go[x] \in (x + 1) .. b
    PROVE  \E f : MadeOf(f, a, b, Stop, piece, go)
<1> DEFINE n == b - a + 1
           From(f, k) == \A x \in a .. b : b - x < k =>
                             f[x] = IF x \in Stop THEN <<>> ELSE piece[x] \o f[go[x]]
           S == {k \in 0 .. n : \E f : From(f, k)}
<1>0. n \in Nat
  OBVIOUS
<1>1. 0 \in S
  OBVIOUS
<1>2. ASSUME NEW k \in 0 .. (n - 1), k \in S PROVE k + 1 \in S
  <2>1. PICK f : From(f, k)
    BY <1>2
  <2> DEFINE g == [x \in a .. b |-> IF b - x < k THEN f[x]
                                    ELSE IF x \in Stop THEN <<>> ELSE piece[x] \o f[go[x]]]
  <2>2. ASSUME NEW x \in a .. b, b - x < k + 1
        PROVE  g[x] = IF x \in Stop THEN <<>> ELSE piece[x] \o g[go[x]]
    <3>1. g[x] = IF x \in Stop THEN <<>> ELSE piece[x] \o f[go[x]]
      BY <2>1
    <3>2. ASSUME x \notin Stop PROVE g[go[x]] = f[go[x]]
      <4>1. go[x] \in (x + 1) .. b
        BY <3>2
      <4>2. go[x] \in a .. b /\ b - go[x] < k
        BY <2>2, <4>1
      <4> QED
        BY <4>2
    <3> HIDE DEF g
    <3> QED
      BY <3>1, <3>2
  <2> HIDE DEF g
  <2>3. From(g, k + 1)
    BY <2>2
  <2>4. k + 1 \in 0 .. n
    OBVIOUS
  <2> QED
    BY <2>3, <2>4
<1>3. n \in S
  <2> HIDE DEF S, n
  <2> QED
    BY <1>0, <1>1, <1>2, IntervalInduction
<1>4. PICK f : From(f, n)
  BY <1>3
<1> DEFINE h == [x \in a .. b |-> f[x]]
<1>5. ASSUME NEW x \in a .. b
      PROVE  h[x] = IF x \in Stop THEN <<>> ELSE piece[x] \o h[go[x]]
  <2>1. f[x] = IF x \in Stop THEN <<>> ELSE piece[x] \o f[go[x]]
    BY <1>4
  <2>2. x \notin Stop => h[go[x]] = f[go[x]]
    OBVIOUS
  <2>3. h[x] = f[x]
    OBVIOUS
  <2> HIDE DEF h
  <2> QED
    BY <2>1, <2>2, <2>3
<1>6. h = [x \in a .. b |-> h[x]]
  OBVIOUS
<1> HIDE DEF h
<1> QED
  BY <1>5, <1>6 DEF MadeOf

(* The splitter by safe heads cuts its range up to some block: the end, if *)
(* some head reaches it.                                                   *)
LEMMA SafeHeadsCut ==
    ASSUME NEW a \in Nat, NEW b \in Nat, a <= b, NEW heads \in SUBSET Nat, NEW max \in Nat \ {0}
    PROVE  \E c \in a .. b :
              /\ Cuts(SplitRangeBasedOnSafeHeads(a, b, heads, max), a, c, max)
              /\ a = b \/ (\E h \in heads : h >= b) => c = b
<1> DEFINE Reached == \E h \in heads : h >= b
           CutFrom(x, spans) ==
               \E c \in x .. b : /\ Cuts(spans, x, c, max)
                                 /\ x = b \/ Reached => c = b
<1> DEFINE above(x) == {h \in heads : h > x}
           upTo(x) == Min({b, Min(above(x))})
           Body(x, f) == IF x = b \/ above(x) = {} THEN <<>>
                         ELSE SplitRangeBasic(x, upTo(x), max) \o f[upTo(x)]
           rest == CHOOSE f : f = [x \in a .. b |-> Body(x, f)]
           Stop == {x \in a .. b : x = b \/ above(x) = {}}
           piece == [x \in a .. b |-> SplitRangeBasic(x, upTo(x), max)]
           go == [x \in a .. b |-> upTo(x)]
<1>1. SplitRangeBasedOnSafeHeads(a, b, heads, max) = rest[a]
  BY Zenon DEF SplitRangeBasedOnSafeHeads
<1>2. ASSUME NEW x \in a .. b, x # b, above(x) # {}
      PROVE  upTo(x) \in (x + 1) .. b
  <2>1. above(x) \in SUBSET Nat /\ \A y \in above(x) : y > x
    OBVIOUS
  <2> HIDE DEF above
  <2>2. Min(above(x)) \in above(x)
    BY <1>2, <2>1, LeastOf
  <2>3. PICK y \in Nat : y = Min(above(x)) /\ y > x
    BY <2>1, <2>2
  <2>4. upTo(x) = IF b <= y THEN b ELSE y
    BY <2>3, MinOfTwo
  <2> QED
    BY <1>2, <2>3, <2>4
<1> HIDE DEF upTo, above
<1>3. PICK f : MadeOf(f, a, b, Stop, piece, go)
  <2>1. \A x \in (a .. b) \ Stop : go[x] \in (x + 1) .. b
    BY <1>2
  <2> HIDE DEF Stop, piece, go
  <2> QED
    BY <2>1, PiecesDefined, Zenon
<1>4. f = [x \in a .. b |-> f[x]] /\ \A x \in a .. b : f[x] = Body(x, f)
  BY <1>3 DEF MadeOf
<1>5. rest = [x \in a .. b |-> Body(x, rest)]
  <2> HIDE DEF Body
  <2>1. f = [x \in a .. b |-> Body(x, f)]
    BY <1>4
  <2> QED
    BY <2>1, Zenon
<1>6. \A x \in a .. b : rest[x] = Body(x, rest)
  <2> HIDE DEF Body, rest
  <2> QED
    BY <1>5
<1> HIDE DEF rest
<1> DEFINE T == {k \in 0 .. (b - a) : ~CutFrom(b - k, rest[b - k])}
<1>7. T = {}
  <2> SUFFICES ASSUME T # {} PROVE FALSE
    OBVIOUS
  <2>1. PICK k \in T : \A j \in T : k <= j
    <3>1. T \in SUBSET Nat
      OBVIOUS
    <3> HIDE DEF T
    <3> QED
      BY <3>1, LeastNatural
  <2>2. PICK x \in a .. b : x = b - k /\ ~CutFrom(x, rest[x])
    BY <2>1
  <2>3. CASE x = b \/ above(x) = {}
    <3>1. rest[x] = <<>>
      BY <1>6, <2>3
    <3>2. <<>> \in Seq(Span) /\ Len(<<>>) = 0
      OBVIOUS
    <3>3. Cuts(<<>>, x, x, max)
      BY <3>2 DEF Cuts
    <3>4. x = b \/ ~Reached
      BY <2>3 DEF above
    <3> QED
      BY <2>2, <3>1, <3>3, <3>4
  <2>4. CASE x # b /\ above(x) # {}
    <3>1. PICK y \in (x + 1) .. b : y = upTo(x)
      BY <1>2, <2>4
    <3>2. rest[x] = SplitRangeBasic(x, y, max) \o rest[y]
      BY <1>6, <2>4, <3>1
    <3>3. CutFrom(y, rest[y])
      <4>1. b - y \in 0 .. (b - a) /\ b - y < k /\ b - (b - y) = y /\ k \in Nat
        BY <2>1, <2>2, <3>1
      <4>2. b - y \notin T
        <5> HIDE DEF T
        <5> QED
          BY <2>1, <4>1
      <4> QED
        BY <4>1, <4>2
    <3>4. PICK c \in y .. b : Cuts(rest[y], y, c, max) /\ (Reached => c = b)
      BY <3>3
    <3>5. Cuts(SplitRangeBasic(x, y, max), x, y, max)
      BY <3>1, BasicCuts
    <3>6. Cuts(rest[x], x, c, max)
      BY <3>1, <3>2, <3>4, <3>5, CutsJoin
    <3>7. c \in x .. b
      BY <3>1, <3>4
    <3> QED
      BY <2>2, <2>4, <3>4, <3>6, <3>7
  <2> QED
    BY <2>3, <2>4
<1>8. CutFrom(a, rest[a])
  <2>1. b - a \in 0 .. (b - a) /\ b - (b - a) = a
    OBVIOUS
  <2> QED
    BY <1>7, <2>1
<1> QED
  BY <1>1, <1>8

(* What the spans of a cut sum up to.                                      *)
LEMMA CutsAddUp ==
    ASSUME NEW spans, NEW a \in Nat, NEW c \in Nat, NEW max, Cuts(spans, a, c, max)
    PROVE  ExecutedBlocks(spans) = c - a
<1> DEFINE n == Len(spans)
           Body(k, f) == IF k = 0 THEN 0 ELSE f[k - 1] + (spans[k].end - spans[k].start)
           total == CHOOSE f : f = [k \in 0 .. n |-> Body(k, f)]
           upTo == [k \in 0 .. n |-> IF k = 0 THEN 0 ELSE spans[k].end - a]
<1>1. ExecutedBlocks(spans) = total[n]
  BY Zenon DEF ExecutedBlocks
<1>2. /\ spans \in Seq(Span) /\ n \in Nat
      /\ \A k \in 1 .. n : spans[k].start \in Nat /\ spans[k].end \in Nat
  <2>1. spans \in Seq(Span) /\ n \in Nat
    BY DEF Cuts
  <2>2. \A k \in 1 .. n : spans[k] \in Span
    BY <2>1, ElementOfSeq
  <2> QED
    BY <2>1, <2>2 DEF Span
<1>3. ASSUME NEW k \in 1 .. n
      PROVE  spans[k].start = IF k = 1 THEN a ELSE spans[k - 1].end
  <2>1. CASE k = 1
    <3>1. spans # <<>>
      BY <1>2, <2>1
    <3> QED
      BY <2>1, <3>1 DEF Cuts
  <2>2. CASE k # 1
    <3>1. k \in 2 .. n
      BY <1>2, <2>2
    <3> QED
      BY <2>2, <3>1 DEF Cuts
  <2> QED
    BY <2>1, <2>2
<1> HIDE DEF n
<1>4. ASSUME NEW k \in 1 .. n PROVE upTo[k] = upTo[k - 1] + (spans[k].end - spans[k].start)
  <2>1. k - 1 \in 0 .. n /\ k \in 0 .. n /\ k # 0 /\ (k # 1 => k - 1 \in 1 .. n)
    BY <1>2
  <2>2. upTo[k] = spans[k].end - a /\ upTo[k - 1] = IF k = 1 THEN 0 ELSE spans[k - 1].end - a
    BY <1>2, <2>1
  <2> HIDE DEF upTo
  <2>3. spans[k].start \in Nat /\ spans[k].end \in Nat /\ (k # 1 => spans[k - 1].end \in Nat)
    BY <1>2, <2>1
  <2> QED
    BY <1>3, <2>2, <2>3
<1>5. upTo = [k \in 0 .. n |-> Body(k, upTo)]
  <2>1. ASSUME NEW k \in 0 .. n PROVE upTo[k] = Body(k, upTo)
    <3>1. CASE k = 0
      BY <3>1
    <3>2. CASE k # 0
      <4>1. k \in 1 .. n
        BY <1>2, <3>2
      <4> HIDE DEF upTo
      <4> QED
        BY <1>4, <3>2, <4>1
    <3> QED
      BY <3>1, <3>2
  <2>2. upTo = [k \in 0 .. n |-> upTo[k]]
    OBVIOUS
  <2> HIDE DEF upTo, Body
  <2> QED
    BY <2>1, <2>2
<1>6. total = [k \in 0 .. n |-> Body(k, total)]
  <2> HIDE DEF Body, upTo
  <2> QED
    BY <1>5, Zenon
<1>7. \A k \in 0 .. n : total[k] = Body(k, total)
  <2> HIDE DEF Body, total
  <2> QED
    BY <1>6
<1> HIDE DEF total
<1> DEFINE S == {k \in 0 .. n : total[k] = upTo[k]}
<1>8. 0 \in S
  BY <1>2, <1>7
<1>9. ASSUME NEW k \in 0 .. (n - 1), k \in S PROVE k + 1 \in S
  <2>1. k + 1 \in 1 .. n /\ k + 1 \in 0 .. n /\ (k + 1) - 1 = k /\ k + 1 # 0
    BY <1>2
  <2>2. upTo[k + 1] = upTo[k] + (spans[k + 1].end - spans[k + 1].start)
    BY <1>4, <2>1
  <2>3. total[k + 1] = total[k] + (spans[k + 1].end - spans[k + 1].start)
    BY <1>7, <2>1
  <2> HIDE DEF upTo
  <2> QED
    BY <1>9, <2>1, <2>2, <2>3
<1>10. total[n] = upTo[n]
  <2>1. n \in S
    <3> HIDE DEF S
    <3>1. n \in Nat /\ n \in 0 .. n
      BY <1>2
    <3> QED
      BY <1>8, <1>9, <3>1, IntervalInduction
  <2> QED
    BY <2>1
<1>11. upTo[n] = c - a
  <2>1. CASE n = 0
    <3>1. spans = <<>>
      BY <1>2, <2>1, EmptySeq DEF n
    <3>2. a = c
      BY <3>1 DEF Cuts
    <3> QED
      BY <2>1, <3>2
  <2>2. CASE n # 0
    <3>1. spans # <<>> /\ n \in 0 .. n
      BY <1>2, <2>2, EmptySeq DEF n
    <3>2. spans[n].end = c
      BY <3>1 DEF Cuts, n
    <3> QED
      BY <2>2, <3>1, <3>2
  <2> QED
    BY <2>1, <2>2
<1> QED
  BY <1>1, <1>10, <1>11

(* A search among the blocks up to `upper` ends at one of them, or at the  *)
(* next.                                                                   *)
LEMMA FoundBlock ==
    ASSUME NEW target \in Int, NEW upper \in Nat
    PROVE  FindBlockByTimestamp(target, upper) \in Nat
<1> DEFINE W == {w \in (0 .. (upper + 1)) \X (0 .. (upper + 1)) : w[1] <= w[2]}
           mid(w) == (w[1] + w[2] - 1) \div 2
           Body(w, f) ==
               IF w[1] = w[2] THEN w[1]
               ELSE IF L1Time(mid(w)) = target THEN mid(w)
               ELSE f[IF L1Time(mid(w)) < target THEN <<mid(w) + 1, w[2]>> ELSE <<w[1], mid(w)>>]
           search == CHOOSE f : f = [w \in W |-> Body(w, f)]
           Stop == {w \in W : w[1] = w[2] \/ L1Time(mid(w)) = target}
           answer == [w \in W |-> IF w[1] = w[2] THEN w[1] ELSE mid(w)]
           go == [w \in W |-> IF L1Time(mid(w)) < target THEN <<mid(w) + 1, w[2]>>
                                                         ELSE <<w[1], mid(w)>>]
           size == [w \in W |-> w[2] - w[1]]
<1>1. FindBlockByTimestamp(target, upper) = search[<<0, upper + 1>>]
  BY Zenon DEF FindBlockByTimestamp
<1>2. ASSUME NEW w \in W, w[1] # w[2]
      PROVE  mid(w) \in w[1] .. (w[2] - 1) /\ L1Time(mid(w)) \in Int
  <2>1. PICK x \in 0 .. (upper + 1), y \in 0 .. (upper + 1) : w = <<x, y>> /\ x < y
    BY <1>2
  <2>2. (x + y - 1) \div 2 \in x .. (y - 1)
    BY <2>1
  <2>3. mid(w) \in x .. (y - 1)
    BY <2>1, <2>2
  <2> HIDE DEF mid
  <2> QED
    BY <2>1, <2>3 DEF L1Time
<1> HIDE DEF mid
<1>3. \A w \in W : answer[w] \in Nat /\ size[w] \in Nat /\ size[w] < upper + 2
  <2> TAKE w \in W
  <2>1. PICK x \in 0 .. (upper + 1), y \in 0 .. (upper + 1) : w = <<x, y>> /\ x <= y
    OBVIOUS
  <2> QED
    BY <1>2, <2>1
<1>4. ASSUME NEW w \in W \ Stop
      PROVE  go[w] \in W /\ size[go[w]] < size[w]
  <2>1. PICK x \in 0 .. (upper + 1), y \in 0 .. (upper + 1) : w = <<x, y>> /\ x < y
    BY <1>4
  <2>2. mid(w) \in x .. (y - 1)
    BY <1>2, <2>1
  <2>3. <<mid(w) + 1, y>> \in W /\ <<x, mid(w)>> \in W
    BY <2>1, <2>2
  <2>4. y - (mid(w) + 1) < y - x /\ mid(w) - x < y - x
    BY <2>1, <2>2
  <2> QED
    BY <2>1, <2>3, <2>4
<1>5. PICK f : Descends(f, W, Stop, answer, go)
  <2>1. upper + 2 \in Nat
    OBVIOUS
  <2> HIDE DEF W, Stop, answer, go, size
  <2> QED
    BY <1>3, <1>4, <2>1, DescentExists
<1>6. ASSUME NEW w \in W, NEW g
      PROVE  Body(w, g) = IF w \in Stop THEN answer[w] ELSE g[go[w]]
  BY <1>2
<1> HIDE DEF Body
<1>7. search = [w \in W |-> Body(w, search)]
  <2>1. f = [w \in W |-> Body(w, f)]
    <3> HIDE DEF W, Stop, answer, go
    <3> QED
      BY <1>5, <1>6 DEF Descends
  <2> HIDE DEF W
  <2> QED
    BY <2>1, Zenon
<1>8. \A w \in W : search[w] = IF w \in Stop THEN answer[w] ELSE search[go[w]]
  <2> HIDE DEF W, Stop, answer, go, search
  <2> QED
    BY <1>6, <1>7
<1> HIDE DEF search
<1> DEFINE T == {k \in Nat : \E w \in W : size[w] = k /\ search[w] \notin Nat}
<1>9. T = {}
  <2> SUFFICES ASSUME T # {} PROVE FALSE
    OBVIOUS
  <2>1. PICK k \in T : \A j \in T : k <= j
    <3>1. T \in SUBSET Nat
      OBVIOUS
    <3> HIDE DEF T
    <3> QED
      BY <3>1, LeastNatural
  <2>2. PICK w \in W : size[w] = k /\ search[w] \notin Nat
    BY <2>1
  <2> HIDE DEF W, Stop, answer, go, size
  <2>3. w \notin Stop /\ search[w] = search[go[w]]
    BY <1>3, <1>8, <2>2
  <2>4. go[w] \in W /\ size[go[w]] < k /\ size[go[w]] \in Nat /\ search[go[w]] \notin Nat
    BY <1>3, <1>4, <2>2, <2>3
  <2>5. size[go[w]] \in T
    BY <2>4
  <2> QED
    BY <2>1, <2>4, <2>5
<1>10. \A w \in W : search[w] \in Nat
  <2> HIDE DEF W, size
  <2> QED
    BY <1>3, <1>9
<1>11. <<0, upper + 1>> \in W
  OBVIOUS
<1> QED
  BY <1>1, <1>10, <1>11, Zenon

-----------------------------------------------------------------------------
(* What the estimator reads of the nodes.                                  *)

(* The L1 origin of an L2 block comes before the block it is derived from. *)
LEMMA OriginFacts ==
    ASSUME NodesOK, NEW m \in Nat
    PROVE  /\ Origin(m) \in 0 .. MaxHeight
           /\ \A n \in 1 .. MaxHeight :
                 Len(Derived[Block(node.branch, n)]) >= m => Origin(m) < n
<1> USE Heights
<1> DEFINE S == {n \in 0 .. (MaxHeight - 1) : Len(Derived[Block(node.branch, n + 1)]) >= m} \cup {MaxHeight}
<1>1. Origin(m) = Min(S)
  BY DEF Origin, OriginIn
<1>2. S \in SUBSET Nat /\ S # {} /\ S \subseteq 0 .. MaxHeight
  OBVIOUS
<1>3. ASSUME NEW n \in 1 .. MaxHeight, Len(Derived[Block(node.branch, n)]) >= m
      PROVE  n - 1 \in S
  <2>1. n - 1 \in 0 .. (MaxHeight - 1) /\ (n - 1) + 1 = n
    OBVIOUS
  <2> QED
    BY <1>3, <2>1
<1> HIDE DEF S
<1>4. Min(S) \in S /\ \A y \in S : Min(S) <= y
  BY <1>2, LeastOf
<1>5. Min(S) \in 0 .. MaxHeight
  BY <1>2, <1>4
<1>6. ASSUME NEW n \in 1 .. MaxHeight, n - 1 \in S
      PROVE  Min(S) < n
  BY <1>4, <1>5, <1>6
<1> QED
  BY <1>1, <1>3, <1>5, <1>6

(* The selected L1 block is one L1 has.                                    *)
LEMMA SelectedFacts ==
    ASSUME NodesOK, l1.fin <= l1.tip, est.cfg \in Settings
    PROVE  Selected \in 0 .. l1.tip /\ Selected \in 0 .. MaxHeight
<1>0. PICK fin \in Nat, tip \in Nat : /\ fin = l1.fin /\ tip = l1.tip
                                     /\ fin <= tip /\ 1 <= tip /\ tip <= MaxHeight
  BY Heights DEF NodesOK
<1>1. cfg.tag \in {"finalized", "safe", "latest"} /\ cfg.confirmations \in Nat
  BY SettingsAssumption DEF cfg
<1>2. ToBlockId(cfg.tag) \in 0 .. tip
  <2>1. Max({fin, tip - 1}) \in {fin, tip - 1}
    <3>1. {fin, tip - 1} \in SUBSET (0 .. tip)
      BY <1>0
    <3> QED
      BY <3>1, MaxOfHeights
  <2>2. cfg.tag = "safe" => ToBlockId(cfg.tag) = Max({fin, tip - 1})
    BY <1>0 DEF ToBlockId
  <2>3. cfg.tag = "latest" => ToBlockId(cfg.tag) = tip
    BY <1>0 DEF ToBlockId
  <2>4. cfg.tag = "finalized" => ToBlockId(cfg.tag) = fin
    BY <1>0 DEF ToBlockId
  <2> QED
    BY <1>0, <1>1, <2>1, <2>2, <2>3, <2>4
<1> QED
  BY <1>0, <1>1, <1>2, Heights DEF Selected

-----------------------------------------------------------------------------
(* The estimator's run.                                                    *)

(* L1 block n was processed, is not past the selection, and derives L2     *)
(* block m.                                                                *)
Covers(n, m) ==
    n \in 1 .. node.done /\ n <= Selected /\ Len(Derived[Block("a", n)]) >= m

Searching(then) == est.pc \in {"bound", "search"} /\ est.then = then

Run ==
    [cfg : Settings,
     pc : {"start", "limit", "range", "split", "origin", "upto", "bound", "search", "collect",
           "heads", "estimate", "cap", "reported"},
     then : {"none", "collect", "cap"}, start : Nat, end : Nat, goal : Nat,
     low : Nat, high : Int, found : Nat, from : Nat, guessed : BOOLEAN,
     safe : SUBSET Nat, ranges : Seq(Span), heads : Seq(Blocks)]

(* While the range is being split.                                         *)
SplittingOK ==
    /\ est.pc \in {"start", "limit", "range", "split", "origin", "upto", "collect"}
          \/ Searching("collect") => est.heads = <<>>
    /\ est.pc \in {"split", "origin", "upto", "collect"} \/ Searching("collect") =>
          est.start <= est.end
    /\ est.pc = "upto" \/ Searching("collect") => est.from = Origin(est.start)
    /\ Searching("collect") => est.goal = est.end
    /\ est.pc = "collect" =>
          /\ Covers(est.found, est.end)
          /\ est.start = est.end \/ est.from <= est.found \/ \E h \in est.safe : h >= est.end

SearchOK ==
    est.pc \in {"bound", "search"} => /\ est.then # "none"
                                      /\ est.high <= Selected
                                      /\ est.found = NoBlock \/ Covers(est.found, est.goal)

(* While the heads of the ranges are determined.                           *)
HeadsOK ==
    /\ est.pc \in {"heads", "estimate", "cap"} \/ Searching("cap") =>
          /\ Contiguous(est.ranges, est.start, est.end)
          /\ est.ranges # <<>> \/ est.start = est.end
          /\ Len(est.heads) <= Len(est.ranges)
          /\ \A i \in DOMAIN est.heads :
                /\ est.heads[i][1] <= Selected
                /\ est.guessed \/ Runs(est.ranges[i], est.heads[i])
    /\ est.pc \in {"estimate", "cap"} \/ Searching("cap") => Len(est.heads) < Len(est.ranges)
    /\ Searching("cap") => est.goal = est.ranges[Len(est.heads) + 1].end
    /\ est.pc = "cap" =>
          est.guessed \/ Covers(est.found, est.ranges[Len(est.heads) + 1].end)

PlanOK == est \in Run /\ SplittingOK /\ SearchOK /\ HeadsOK

(* All that is needed of the nodes is that they go on undisturbed.         *)
PlanInv ==
    /\ NodesOK /\ l1.fin <= l1.tip
    /\ ~Disturbed => node.branch = "a" /\ (est.pc = "failed" \/ PlanOK)

(* Undisturbed nodes only go forward.                                      *)
LEMMA CalmStep ==
    ASSUME NodesOK, l1.fin <= l1.tip, NodesStep
    PROVE  /\ NodesOK' /\ l1'.fin <= l1'.tip
           /\ ~Disturbed' =>
                /\ ~Disturbed /\ l1'.branch = l1.branch
                /\ node.branch = "a" => node'.branch = "a"
                /\ node'.done >= node.done /\ l1'.fin >= l1.fin /\ l1'.tip >= l1.tip
<1> USE Heights
<1>0. /\ l1.branch \in Branches /\ l1.tip \in Nat /\ l1.fin \in Nat /\ node.done \in Nat /\ node.cur \in Nat
      /\ resets \in Nat /\ Fork \in Nat /\ Fork <= l1.tip
      /\ l1 = [branch |-> l1.branch, tip |-> l1.tip, fin |-> l1.fin]
      /\ node = [branch |-> node.branch, cur |-> node.cur, done |-> node.done]
  BY DEF NodesOK
<1>1. NodesOK'
  BY NodesTyped
<1>2. CASE L1Grows
  BY <1>0, <1>1, <1>2 DEF L1Grows, Disturbed
<1>3. CASE L1Reorgs
  <2>1. PICK tip \in Fork .. MaxHeight : l1' = [l1 EXCEPT !.branch = "b", !.tip = tip]
    BY <1>3 DEF L1Reorgs
  <2>2. l1'.branch = "b" /\ l1'.tip = tip /\ l1'.fin = l1.fin /\ l1.fin < Fork
    BY <1>0, <1>3, <2>1 DEF L1Reorgs
  <2>3. l1'.fin <= l1'.tip
    BY <1>0, <2>1, <2>2
  <2> QED
    BY <1>1, <2>2, <2>3 DEF Disturbed
<1>4. CASE L1Finalizes
  BY <1>0, <1>1, <1>4 DEF L1Finalizes, Disturbed
<1>5. CASE NodeDerives
  <2>1. l1' = l1 /\ resets' = resets
    BY <1>5 DEF NodeDerives
  <2>2. l1.branch = "b" \/ l1.branch = "a"
    BY <1>0 DEF Branches
  <2>3. CASE node.done < node.cur /\ node' = [node EXCEPT !.done = node.cur]
    BY <1>0, <1>1, <2>1, <2>3 DEF Disturbed
  <2>4. CASE node' = [node EXCEPT !.cur = @ + 1, !.branch = l1.branch]
    BY <1>0, <1>1, <2>1, <2>2, <2>4 DEF Disturbed
  <2> QED
    BY <1>5, <2>3, <2>4 DEF NodeDerives
<1>6. CASE NodeResets
  <2>1. resets' > 0 /\ l1' = l1
    BY <1>0, <1>6 DEF NodeResets
  <2> QED
    BY <1>1, <2>1 DEF Disturbed
<1>7. CASE UNCHANGED <<l1, node, resets>>
  BY <1>0, <1>1, <1>7 DEF Disturbed
<1> QED
  BY <1>2, <1>3, <1>4, <1>5, <1>6, <1>7 DEF NodesStep, ExecFollows, ExecRunsAhead

(* The selection goes forward with L1.                                     *)
LEMMA SelectedGrows ==
    ASSUME NodesOK, l1.fin <= l1.tip, NodesOK', l1'.fin <= l1'.tip, est' = est,
           est.cfg \in Settings, l1'.fin >= l1.fin, l1'.tip >= l1.tip
    PROVE  Selected <= Selected' /\ Selected' \in Nat
<1>0. PICK fin \in Nat, tip \in Nat : fin = l1.fin /\ tip = l1.tip /\ fin <= tip /\ 1 <= tip
  BY Heights DEF NodesOK
<1>1. PICK fin2 \in Nat, tip2 \in Nat :
         fin2 = l1'.fin /\ tip2 = l1'.tip /\ fin2 <= tip2 /\ fin <= fin2 /\ tip <= tip2
  BY <1>0, Heights DEF NodesOK
<1>2. /\ cfg.tag \in {"finalized", "safe", "latest"} /\ cfg.confirmations \in Nat
      /\ cfg' = cfg
  BY SettingsAssumption DEF cfg
<1>3. /\ ToBlockId(cfg.tag) \in Nat /\ ToBlockId(cfg.tag)' \in Nat
      /\ ToBlockId(cfg.tag) <= ToBlockId(cfg.tag)'
  <2>1. /\ Max({fin, tip - 1}) \in {fin, tip - 1}
        /\ fin <= Max({fin, tip - 1}) /\ tip - 1 <= Max({fin, tip - 1})
    <3>1. {fin, tip - 1} \in SUBSET (0 .. tip)
      BY <1>0
    <3> QED
      BY <3>1, MaxOfHeights
  <2>2. /\ Max({fin2, tip2 - 1}) \in {fin2, tip2 - 1}
        /\ fin2 <= Max({fin2, tip2 - 1}) /\ tip2 - 1 <= Max({fin2, tip2 - 1})
    <3>1. {fin2, tip2 - 1} \in SUBSET (0 .. tip2)
      BY <1>0, <1>1
    <3> QED
      BY <3>1, MaxOfHeights
  <2>3. CASE cfg.tag = "safe"
    <3>1. ToBlockId(cfg.tag) = Max({fin, tip - 1}) /\ ToBlockId(cfg.tag)' = Max({fin2, tip2 - 1})
      BY <1>0, <1>1, <1>2, <2>3 DEF ToBlockId
    <3>2. PICK x \in Nat, y \in Nat : x = Max({fin, tip - 1}) /\ y = Max({fin2, tip2 - 1})
      BY <1>0, <1>1, <2>1, <2>2
    <3> QED
      BY <1>0, <1>1, <2>1, <2>2, <3>1, <3>2
  <2>4. CASE cfg.tag = "latest"
    BY <1>0, <1>1, <1>2, <2>4 DEF ToBlockId
  <2>5. CASE cfg.tag = "finalized"
    BY <1>0, <1>1, <1>2, <2>5 DEF ToBlockId
  <2> QED
    BY <1>2, <2>3, <2>4, <2>5
<1> QED
  BY <1>2, <1>3 DEF Selected

LEMMA NodesUnderPlanning ==
    ASSUME PlanInv, NodesStep, est' = est
    PROVE  PlanInv'
<1>1. NodesOK' /\ l1'.fin <= l1'.tip
  BY CalmStep DEF PlanInv
<1>2. ASSUME ~Disturbed' PROVE node'.branch = "a" /\ (est'.pc = "failed" \/ PlanOK')
  <2>1. /\ ~Disturbed /\ node.branch = "a" /\ node'.branch = "a"
        /\ node'.done >= node.done /\ l1'.fin >= l1.fin /\ l1'.tip >= l1.tip
    BY <1>2, CalmStep DEF PlanInv
  <2> SUFFICES ASSUME PlanOK PROVE PlanOK'
    BY <2>1 DEF PlanInv
  <2>2. est \in Run /\ est.cfg \in Settings
    BY DEF PlanOK, Run
  <2>3. Selected \in Nat /\ Selected' \in Nat /\ Selected <= Selected'
    <3>1. NodesOK /\ l1.fin <= l1.tip
      BY DEF PlanInv
    <3>2. Selected \in 0 .. MaxHeight /\ Selected <= Selected' /\ Selected' \in Nat
      BY <1>1, <2>1, <2>2, <3>1, SelectedFacts, SelectedGrows
    <3> QED
      BY <3>2, Heights
  <2>4. \A n, m : Covers(n, m) => Covers(n, m)'
    <3> TAKE n, m
    <3>1. node.done \in Nat /\ node'.done \in Nat
      BY <1>1, Heights DEF PlanInv, NodesOK
    <3> QED
      BY <2>1, <2>3, <3>1 DEF Covers
  <2>5. \A m : Origin(m)' = Origin(m)
    BY <2>1 DEF Origin
  <2>6. SplittingOK'
    BY <2>4, <2>5 DEF PlanOK, SplittingOK, Searching
  <2>7. SearchOK'
    BY <2>2, <2>3, <2>4 DEF PlanOK, SearchOK, Run
  <2>8. HeadsOK'
    <3>1. ASSUME NEW i \in DOMAIN est.heads PROVE est.heads[i][1] \in Nat
      <4>1. est.heads[i] \in Blocks
        BY <2>2 DEF Run
      <4> QED
        BY <4>1 DEF Blocks, Block
    <3> QED
      BY <2>3, <2>4, <3>1 DEF PlanOK, HeadsOK, Searching, Contiguous, cfg
  <2> QED
    BY <2>2, <2>6, <2>7, <2>8 DEF PlanOK
<1> QED
  BY <1>1, <1>2 DEF PlanInv

-----------------------------------------------------------------------------
(* The estimator's steps.                                                  *)

(* What a step of the estimator leaves alone.                              *)
LEMMA Still ==
    ASSUME UNCHANGED nodeVars, est'.cfg = est.cfg
    PROVE  /\ cfg' = cfg /\ Selected' = Selected
           /\ \A n, m : Covers(n, m)' <=> Covers(n, m)
           /\ \A m : Origin(m)' = Origin(m)
           /\ Disturbed' <=> Disturbed
<1>1. cfg' = cfg /\ l1' = l1 /\ node' = node /\ resets' = resets
  BY DEF cfg, nodeVars
<1>2. Selected' = Selected
  BY <1>1 DEF Selected, ToBlockId
<1> QED
  BY <1>1, <1>2 DEF Covers, Origin, Disturbed

LEMMA PlanGoesOn ==
    ASSUME PlanInv, UNCHANGED nodeVars, est.pc # "failed",
           ~Disturbed /\ node.branch = "a" /\ PlanOK => est'.pc = "failed" \/ PlanOK'
    PROVE  PlanInv'
<1>1. /\ NodesOK' /\ l1' = l1 /\ node' = node
      /\ Disturbed' <=> Disturbed
  BY DEF PlanInv, NodesOK, nodeVars, Disturbed
<1> QED
  BY <1>1 DEF PlanInv

LEMMA PlanFails ==
    ASSUME PlanInv, UNCHANGED nodeVars, est.pc # "failed", Fail
    PROVE  PlanInv'
<1>1. est'.pc = "failed"
  BY DEF Fail
<1> QED
  BY <1>1, PlanGoesOn

(* To the next stage, with everything else as it is.                       *)
LEMMA StepFields ==
    ASSUME est \in Run, NEW pc, Step(pc)
    PROVE  /\ est'.pc = pc /\ est'.cfg = est.cfg /\ est'.then = est.then
           /\ est'.start = est.start /\ est'.end = est.end /\ est'.goal = est.goal
           /\ est'.low = est.low /\ est'.high = est.high /\ est'.found = est.found
           /\ est'.from = est.from /\ est'.guessed = est.guessed /\ est'.safe = est.safe
           /\ est'.ranges = est.ranges /\ est'.heads = est.heads
BY DEF Run, Step

LEMMA SelectionValidated ==
    ASSUME PlanInv, UNCHANGED nodeVars, ValidateL1Selection
    PROVE  PlanInv'
<1>1. est.pc = "start"
  BY DEF ValidateL1Selection
<1>2. CASE Fail
  BY <1>1, <1>2, PlanFails
<1>3. CASE Step("limit")
  <2>2. ASSUME PlanOK PROVE PlanOK'
    <3>1. est \in Run
      BY <2>2 DEF PlanOK
    <3>2. est' \in Run /\ est'.pc = "limit"
      BY <1>3, <3>1 DEF Run, Step
    <3>3. est'.heads = est.heads
      BY <1>3, <3>1, StepFields
    <3> QED
      BY <1>1, <2>2, <3>2, <3>3 DEF PlanOK, SplittingOK, SearchOK, HeadsOK, Searching
  <2> QED
    BY <1>1, <2>2, PlanGoesOn
<1> QED
  BY <1>2, <1>3 DEF ValidateL1Selection

LEMMA LimitResolved ==
    ASSUME PlanInv, UNCHANGED nodeVars, ResolveLimit
    PROVE  PlanInv'
<1>1. est.pc = "limit" /\ est' = [est EXCEPT !.pc = "range", !.low = Selected]
  BY DEF ResolveLimit
<1>2. ASSUME PlanOK PROVE PlanOK'
  <2>1. est \in Run /\ Selected \in Nat
    <3>1. est \in Run /\ est.cfg \in Settings
      BY <1>2 DEF PlanOK, Run
    <3> QED
      BY <3>1, SelectedFacts, Heights DEF PlanInv
  <2>2. est' \in Run /\ est'.pc = "range" /\ est'.heads = est.heads
    BY <1>1, <2>1 DEF Run
  <2> QED
    BY <1>1, <1>2, <2>2 DEF PlanOK, SplittingOK, SearchOK, HeadsOK, Searching
<1> QED
  BY <1>1, <1>2, PlanGoesOn

(* The range that PickRange decides on.                                    *)
Picked ==
    LET limit == IF IsDefault THEN L2Finalized ELSE Len(SafeHeadAt(est.low).head)
    IN IF cfg.rolling THEN RollingRange(limit) ELSE ValidatedRange(limit)

LEMMA PickRangePicks ==
    ASSUME PickRange
    PROVE  /\ est.pc \in {"limit", "range"} /\ (est.pc = "limit" => IsDefault)
           /\ \/ Fail
              \/ /\ Picked.ok
                 /\ est' = [est EXCEPT !.pc = "split", !.low = 0, !.start = Picked.start, !.end = Picked.end]
<1>1. est.pc \in {"limit", "range"} /\ (est.pc = "limit" => IsDefault)
  BY DEF PickRange
<1>2. \/ Fail
      \/ /\ Picked.ok
         /\ est' = [est EXCEPT !.pc = "split", !.low = 0, !.start = Picked.start, !.end = Picked.end]
  BY Zenon DEF PickRange, Picked
<1> QED
  BY <1>1, <1>2

(* A range is picked only if it does not run backwards.                    *)
LEMMA PickedForward ==
    ASSUME NodesOK, est.cfg \in Settings, IsDefault \/ est.low \in Nat, Picked.ok
    PROVE  Picked.start \in Nat /\ Picked.end \in Nat /\ Picked.start <= Picked.end
<1> DEFINE limit == IF IsDefault THEN L2Finalized ELSE Len(SafeHeadAt(est.low).head)
           r == IF cfg.rolling THEN RollingRange(limit) ELSE ValidatedRange(limit)
<1>1. Picked = r /\ r.ok
  BY DEF Picked
<1>2. limit \in Nat
  <2>1. ~IsDefault => Len(SafeHeadAt(est.low).head) \in Nat
    <3>1. ~IsDefault => SafeHeadAt(est.low).head \in Seq(L2Blocks)
      BY SafeHeadIsDerived
    <3> QED
      BY <3>1
  <2>2. L2Finalized \in Nat
    <3>1. PICK fin \in Nat, done \in 0 .. MaxHeight : fin = l1.fin /\ done = node.done
      BY DEF NodesOK
    <3>2. Min({fin, done}) \in 0 .. MaxHeight
      BY <3>1, MinOfTwo, Heights
    <3>3. Derived[Block(node.branch, Min({fin, done}))] \in Seq(L2Blocks)
      BY <3>2, BlocksAre DEF NodesOK
    <3> QED
      BY <3>1, <3>3 DEF L2Finalized
  <2> QED
    BY <2>1, <2>2
<1> HIDE DEF limit
<1>3. cfg.start \in Nat /\ cfg.end \in Nat /\ cfg.range \in Nat
  BY SettingsAssumption DEF cfg
<1>4. CASE cfg.rolling
  BY <1>1, <1>2, <1>3, <1>4 DEF RollingRange
<1>5. CASE ~cfg.rolling
  <2> DEFINE end == IF cfg.end = NoBlock THEN limit ELSE cfg.end
             back == IF cfg.range > end THEN 0 ELSE end - cfg.range
             start == IF cfg.start = NoBlock THEN Max({1, back}) ELSE cfg.start
  <2>1. r = [ok |-> end <= limit /\ start < end, start |-> start, end |-> end]
    BY <1>5 DEF ValidatedRange
  <2>2. end \in Nat
    BY <1>2, <1>3
  <2> HIDE DEF end
  <2>3. back \in Nat
    BY <1>3, <2>2
  <2> HIDE DEF back
  <2>4. Max({1, back}) \in Nat
    <3>1. {1, back} \in SUBSET (0 .. (back + 1)) /\ back + 1 \in Nat
      BY <2>3
    <3>2. Max({1, back}) \in {1, back}
      BY <3>1, MaxOfHeights
    <3> QED
      BY <2>3, <3>2
  <2>5. start \in Nat
    BY <1>3, <2>4
  <2> HIDE DEF start
  <2>6. r.ok
    BY <1>1
  <2> HIDE DEF r
  <2>7. start < end
    BY <2>1, <2>6
  <2>8. r.start = start /\ r.end = end
    BY <2>1
  <2> QED
    BY <1>1, <2>2, <2>5, <2>7, <2>8
<1> QED
  BY <1>4, <1>5

LEMMA RangePicked ==
    ASSUME PlanInv, UNCHANGED nodeVars, PickRange
    PROVE  PlanInv'
<1>1. est.pc \in {"limit", "range"}
  BY PickRangePicks
<1>2. CASE Fail
  BY <1>1, <1>2, PlanFails
<1>3. CASE /\ Picked.ok
           /\ est' = [est EXCEPT !.pc = "split", !.low = 0, !.start = Picked.start, !.end = Picked.end]
  <2>1. ASSUME PlanOK PROVE PlanOK'
    <3>1. est \in Run /\ NodesOK /\ est.cfg \in Settings /\ est.low \in Nat
      BY <2>1 DEF PlanOK, PlanInv, Run
    <3>2. Picked.start \in Nat /\ Picked.end \in Nat /\ Picked.start <= Picked.end
      BY <1>3, <3>1, PickedForward
    <3>3. /\ est' \in Run /\ est'.pc = "split" /\ est'.heads = est.heads
          /\ est'.start = Picked.start /\ est'.end = Picked.end
      BY <1>3, <3>1, <3>2 DEF Run
    <3> QED
      BY <1>1, <2>1, <3>2, <3>3 DEF PlanOK, SplittingOK, SearchOK, HeadsOK, Searching
  <2> QED
    BY <1>1, <2>1, PlanGoesOn
<1> QED
  BY <1>2, <1>3, PickRangePicks

(* Ranges that are cut, with no head yet.                                  *)
LEMMA RangesMade ==
    ASSUME est' \in Run, est'.cfg = est.cfg, est'.pc = "heads", est'.heads = <<>>,
           Cuts(est'.ranges, est'.start, est'.end, cfg.batch)
    PROVE  PlanOK'
<1>1. cfg' = cfg
  BY DEF cfg
<1>2. Contiguous(est'.ranges, est'.start, est'.end)
  BY CutsAreContiguous
<1>3. Contiguous(est.ranges, est.start, est.end)'
  BY <1>1, <1>2 DEF Contiguous
<1>4. est'.ranges # <<>> \/ est'.start = est'.end
  BY DEF Cuts
<1>5. Len(est'.heads) = 0 /\ DOMAIN est'.heads = {} /\ Len(est'.ranges) \in Nat
  <2>1. est'.ranges \in Seq(Span)
    BY DEF Run
  <2>2. Len(<<>>) = 0 /\ DOMAIN <<>> = {}
    OBVIOUS
  <2> QED
    BY <2>1, <2>2
<1>6. HeadsOK'
  BY <1>3, <1>4, <1>5 DEF HeadsOK, Searching
<1> QED
  BY <1>6 DEF PlanOK, SplittingOK, SearchOK, Searching

LEMMA SplitBegun ==
    ASSUME PlanInv, UNCHANGED nodeVars, Split
    PROVE  PlanInv'
<1>1. est.pc = "split"
  BY DEF Split
<1>2. CASE Step("origin")
  <2>1. ASSUME PlanOK PROVE PlanOK'
    <3>1. est \in Run
      BY <2>1 DEF PlanOK
    <3>2. est' \in Run /\ est'.pc = "origin"
      BY <1>2, <3>1 DEF Run, Step
    <3>3. est'.heads = est.heads /\ est'.start = est.start /\ est'.end = est.end
      BY <1>2, <3>1, StepFields
    <3> QED
      BY <1>1, <2>1, <3>2, <3>3 DEF PlanOK, SplittingOK, SearchOK, HeadsOK, Searching
  <2> QED
    BY <1>1, <2>1, PlanGoesOn
<1>3. CASE est' = [est EXCEPT !.pc = "heads",
                              !.ranges = SplitRangeBasic(est.start, est.end, cfg.batch)]
  <2>1. ASSUME PlanOK PROVE PlanOK'
    <3>1. /\ est \in Run /\ est.start \in Nat /\ est.end \in Nat /\ est.start <= est.end
          /\ est.heads = <<>> /\ cfg.batch \in Nat \ {0}
      BY <1>1, <2>1, SettingsAssumption DEF PlanOK, SplittingOK, Run, cfg
    <3> DEFINE R == SplitRangeBasic(est.start, est.end, cfg.batch)
    <3>2. Cuts(R, est.start, est.end, cfg.batch)
      BY <3>1, BasicCuts
    <3>3. R \in Seq(Span)
      BY <3>2 DEF Cuts
    <3> HIDE DEF R
    <3>4. est' = [est EXCEPT !.pc = "heads", !.ranges = R]
      BY <1>3 DEF R
    <3>5. /\ est' \in Run /\ est'.pc = "heads" /\ est'.heads = <<>> /\ est'.cfg = est.cfg
          /\ est'.ranges = R /\ est'.start = est.start /\ est'.end = est.end
      BY <3>1, <3>3, <3>4 DEF Run
    <3> QED
      BY <3>2, <3>5, RangesMade
  <2> QED
    BY <1>1, <2>1, PlanGoesOn
<1> QED
  BY <1>2, <1>3 DEF Split

LEMMA OriginOfStartRead ==
    ASSUME PlanInv, UNCHANGED nodeVars, CollectFrom
    PROVE  PlanInv'
<1>1. est.pc = "origin" /\ est' = [est EXCEPT !.pc = "upto", !.from = Origin(est.start)]
  BY DEF CollectFrom
<1>2. ASSUME PlanOK PROVE PlanOK'
  <2>1. est \in Run /\ est.start \in Nat /\ NodesOK
    BY <1>2 DEF PlanOK, Run, PlanInv
  <2>2. Origin(est.start) \in Nat
    BY <2>1, OriginFacts, Heights
  <2>3. /\ est' \in Run /\ est'.pc = "upto" /\ est'.heads = est.heads /\ est'.cfg = est.cfg
        /\ est'.start = est.start /\ est'.end = est.end /\ est'.from = Origin(est.start)
    BY <1>1, <2>1, <2>2 DEF Run
  <2>4. Origin(est.start)' = Origin(est.start)
    BY <2>3, Still
  <2> QED
    BY <1>1, <1>2, <2>3, <2>4 DEF PlanOK, SplittingOK, SearchOK, HeadsOK, Searching
<1> QED
  BY <1>1, <1>2, PlanGoesOn

LEMMA RunWindow ==
    ASSUME NEW e \in Run, NEW lo \in Nat, NEW hi \in Int, NEW n \in Nat
    PROVE  [e EXCEPT !.low = lo, !.high = hi, !.found = n] \in Run
BY DEF Run

(* A search starts within the selection, with nothing found.               *)
LEMMA SearchStarts ==
    ASSUME PlanInv, UNCHANGED nodeVars, PlanOK, NEW m \in Nat, NEW then \in {"collect", "cap"},
           StartSearch(m, then)
    PROVE  /\ est' \in Run /\ est'.pc = "bound" /\ est'.then = then /\ est'.goal = m
           /\ est'.cfg = est.cfg /\ est'.start = est.start /\ est'.end = est.end
           /\ est'.from = est.from /\ est'.guessed = est.guessed
           /\ est'.ranges = est.ranges /\ est'.heads = est.heads
           /\ SearchOK'
<1>1. est \in Run /\ est.cfg \in Settings /\ NodesOK
  BY DEF PlanOK, Run, PlanInv
<1>2. Selected \in Nat
  BY <1>1, SelectedFacts, Heights DEF PlanInv
<1>3. est' = [est EXCEPT !.pc = "bound", !.goal = m, !.then = then,
                         !.low = 0, !.high = Selected, !.found = NoBlock]
  BY DEF StartSearch
<1>4. /\ est'.pc = "bound" /\ est'.then = then /\ est'.goal = m
      /\ est'.cfg = est.cfg /\ est'.start = est.start /\ est'.end = est.end
      /\ est'.from = est.from /\ est'.guessed = est.guessed
      /\ est'.ranges = est.ranges /\ est'.heads = est.heads
      /\ est'.high = Selected /\ est'.found = NoBlock
  BY <1>1, <1>3 DEF Run
<1>5. est' \in Run
  <2> DEFINE e == [est EXCEPT !.pc = "bound", !.goal = m, !.then = then]
  <2>2. e \in Run
    BY <1>1 DEF Run
  <2>3. est' = [e EXCEPT !.low = 0, !.high = Selected, !.found = NoBlock]
    BY <1>3
  <2> HIDE DEF e
  <2>4. Selected \in Int /\ NoBlock \in Nat
    BY <1>2 DEF NoBlock
  <2> QED
    BY <1>2, <2>2, <2>3, <2>4, RunWindow
<1>6. Selected' = Selected
  BY <1>4, Still
<1> QED
  BY <1>2, <1>4, <1>5, <1>6 DEF SearchOK

LEMMA EndSought ==
    ASSUME PlanInv, UNCHANGED nodeVars, CollectUpTo
    PROVE  PlanInv'
<1>1. est.pc = "upto" /\ StartSearch(est.end, "collect")
  BY DEF CollectUpTo
<1>2. ASSUME PlanOK PROVE PlanOK'
  <2>1. est.end \in Nat
    BY <1>2 DEF PlanOK, Run
  <2>2. /\ est' \in Run /\ est'.pc = "bound" /\ est'.then = "collect" /\ est'.goal = est.end
        /\ est'.cfg = est.cfg /\ est'.start = est.start /\ est'.end = est.end
        /\ est'.from = est.from /\ est'.heads = est.heads /\ SearchOK'
    BY <1>1, <1>2, <2>1, SearchStarts
  <2>3. Origin(est.start)' = Origin(est.start)
    <3>1. \A m : Origin(m)' = Origin(m)
      BY <2>2, Still
    <3> QED
      BY <2>2, <3>1 DEF Origin
  <2> QED
    BY <1>1, <1>2, <2>2, <2>3 DEF PlanOK, SplittingOK, HeadsOK, Searching
<1> QED
  BY <1>1, <1>2, PlanGoesOn

(* The search's lower end is read after its upper end.                     *)
LEMMA OriginOfGoalRead ==
    ASSUME PlanInv, UNCHANGED nodeVars, SearchFrom
    PROVE  PlanInv'
<1>1. est.pc = "bound" /\ est' = [est EXCEPT !.pc = "search", !.low = Origin(est.goal)]
  BY DEF SearchFrom
<1>2. ASSUME PlanOK PROVE PlanOK'
  <2>1. est \in Run /\ est.goal \in Nat /\ NodesOK
    BY <1>2 DEF PlanOK, Run, PlanInv
  <2>2. Origin(est.goal) \in Nat
    BY <2>1, OriginFacts, Heights
  <2>3. est' \in Run
    BY <1>1, <2>1, <2>2 DEF Run
  <2>4. /\ est'.pc = "search" /\ est'.then = est.then /\ est'.goal = est.goal
        /\ est'.cfg = est.cfg /\ est'.start = est.start /\ est'.end = est.end
        /\ est'.from = est.from /\ est'.guessed = est.guessed /\ est'.high = est.high
        /\ est'.found = est.found /\ est'.ranges = est.ranges /\ est'.heads = est.heads
    BY <1>1, <2>1 DEF Run
  <2>5. /\ Selected' = Selected
        /\ \A k, m : Covers(k, m)' <=> Covers(k, m)
        /\ \A m : Origin(m)' = Origin(m)
    BY <2>4, Still
  <2>6. Covers(est.found, est.goal)' <=> Covers(est.found, est.goal)
    BY <2>4, <2>5 DEF Covers
  <2>7. Origin(est.start)' = Origin(est.start)
    BY <2>4, <2>5 DEF Origin
  <2>8. Contiguous(est.ranges, est.start, est.end)' <=> Contiguous(est.ranges, est.start, est.end)
    BY <2>4 DEF Contiguous, cfg
  <2>9. Searching("collect")' <=> Searching("collect")
    BY <1>1, <2>4 DEF Searching
  <2>10. Searching("cap")' <=> Searching("cap")
    BY <1>1, <2>4 DEF Searching
  <2>11. SplittingOK'
    BY <1>1, <1>2, <2>4, <2>7, <2>9 DEF PlanOK, SplittingOK
  <2>12. SearchOK'
    BY <1>1, <1>2, <2>4, <2>5, <2>6 DEF PlanOK, SearchOK
  <2>13. HeadsOK'
    BY <1>1, <1>2, <2>4, <2>5, <2>8, <2>10 DEF PlanOK, HeadsOK
  <2> QED
    BY <2>3, <2>11, <2>12, <2>13 DEF PlanOK
<1> QED
  BY <1>1, <1>2, PlanGoesOn

(* Each answer of the database narrows the search, and what is found       *)
(* covers the goal.                                                        *)
LEMMA Probed ==
    ASSUME PlanInv, UNCHANGED nodeVars, Probe
    PROVE  PlanInv'
<1> DEFINE mid == est.low + (est.high - est.low) \div 2
           rec == SafeHeadAt(mid)
<1>1. est.pc = "search" /\ est.low <= est.high
  BY DEF Probe
<1>2. \/ Len(rec.head) >= est.goal /\ est' = [est EXCEPT !.found = rec.l1[1], !.high = mid - 1]
      \/ est' = [est EXCEPT !.low = mid + 1]
  BY DEF Probe
<1>3. ASSUME PlanOK, node.branch = "a" PROVE PlanOK'
  <2>1. est \in Run /\ est.cfg \in Settings /\ NodesOK
    BY <1>3 DEF PlanOK, Run, PlanInv
  <2>2. PICK lo \in Nat, hi \in Int : lo = est.low /\ hi = est.high /\ lo <= hi
    BY <1>1, <2>1 DEF Run
  <2>3. mid \in Nat /\ mid <= hi
    <3>1. PICK d \in Nat : d = hi - lo
      BY <2>2
    <3>2. d \div 2 \in Nat /\ d \div 2 <= d
      BY <3>1
    <3> QED
      BY <2>2, <3>1, <3>2
  <2> HIDE DEF mid
  <2>4. PICK n \in 0 .. MaxHeight : /\ n <= mid /\ n <= node.done
                                    /\ rec.l1 = Block("a", n) /\ rec.head = Derived[Block("a", n)]
    BY <1>3, <2>1, <2>3, SafeHeadRecord
  <2>5. rec.l1[1] = n
    BY <2>4 DEF Block
  <2> HIDE DEF rec
  <2>6. /\ est' \in Run /\ est'.pc = "search" /\ est'.then = est.then /\ est'.goal = est.goal
        /\ est'.cfg = est.cfg /\ est'.start = est.start /\ est'.end = est.end
        /\ est'.from = est.from /\ est'.guessed = est.guessed
        /\ est'.ranges = est.ranges /\ est'.heads = est.heads
        /\ \/ Len(rec.head) >= est.goal /\ est'.found = n /\ est'.high = mid - 1
           \/ est'.found = est.found /\ est'.high = est.high
    <3>1. n \in Nat
      BY <2>4, Heights
    <3>2. CASE Len(rec.head) >= est.goal /\ est' = [est EXCEPT !.found = rec.l1[1], !.high = mid - 1]
      <4>1. est' = [est EXCEPT !.found = n, !.high = mid - 1] /\ mid - 1 \in Int
        BY <2>3, <2>5, <3>2
      <4>2. /\ est' \in Run /\ est'.pc = est.pc /\ est'.then = est.then /\ est'.goal = est.goal
            /\ est'.cfg = est.cfg /\ est'.start = est.start /\ est'.end = est.end
            /\ est'.from = est.from /\ est'.guessed = est.guessed
            /\ est'.ranges = est.ranges /\ est'.heads = est.heads
            /\ est'.found = n /\ est'.high = mid - 1
        BY <2>1, <3>1, <4>1 DEF Run
      <4> QED
        BY <1>1, <3>2, <4>2
    <3>3. CASE est' = [est EXCEPT !.low = mid + 1]
      <4>1. mid + 1 \in Nat
        BY <2>3
      <4> QED
        BY <1>1, <2>1, <3>3, <4>1 DEF Run
    <3> QED
      BY <1>2, <3>2, <3>3
  <2>7. /\ Selected' = Selected /\ Selected \in Nat
        /\ \A k, m : Covers(k, m)' <=> Covers(k, m)
        /\ \A m : Origin(m)' = Origin(m)
    BY <2>1, <2>6, Still, SelectedFacts, Heights DEF PlanInv
  <2>8. SearchOK'
    <3>1. est.then # "none" /\ hi <= Selected /\ (est.found = NoBlock \/ Covers(est.found, est.goal))
      BY <1>1, <1>3, <2>2 DEF PlanOK, SearchOK
    <3>2. est'.high <= Selected
      BY <2>2, <2>3, <2>6, <2>7, <3>1
    <3>3. est'.found = NoBlock \/ Covers(est'.found, est'.goal)
      <4>1. CASE Len(rec.head) >= est.goal /\ est'.found = n
        <5>1. n # 0 => Covers(n, est.goal)
          <6>1. node.done \in Nat
            BY <2>1, Heights DEF NodesOK
          <6>2. n # 0 => n \in 1 .. node.done
            BY <2>4, <6>1, Heights
          <6>3. n <= Selected
            BY <2>2, <2>3, <2>4, <2>7, <3>1, Heights
          <6> QED
            BY <2>4, <4>1, <6>2, <6>3 DEF Covers
        <5> QED
          BY <2>6, <4>1, <5>1 DEF NoBlock
      <4>2. CASE est'.found = est.found
        BY <2>6, <3>1, <4>2
      <4> QED
        BY <2>6, <4>1, <4>2
    <3>4. Covers(est'.found, est'.goal) => Covers(est.found, est.goal)'
      BY <2>7
    <3> QED
      BY <2>6, <2>7, <3>1, <3>2, <3>3, <3>4 DEF SearchOK
  <2>9. SplittingOK'
    <3>1. Searching("collect")' <=> Searching("collect")
      BY <1>1, <2>6 DEF Searching
    <3>2. Searching("collect") => Origin(est.start)' = Origin(est.start)
      BY <2>6, <2>7 DEF Origin
    <3> QED
      BY <1>1, <1>3, <2>6, <3>1, <3>2 DEF PlanOK, SplittingOK
  <2>10. HeadsOK'
    <3>1. Searching("cap")' <=> Searching("cap")
      BY <1>1, <2>6 DEF Searching
    <3>2. Contiguous(est.ranges, est.start, est.end)' <=> Contiguous(est.ranges, est.start, est.end)
      BY <2>6 DEF Contiguous, cfg
    <3> QED
      BY <1>1, <1>3, <2>6, <2>7, <3>1, <3>2 DEF PlanOK, HeadsOK
  <2> QED
    BY <2>6, <2>8, <2>9, <2>10 DEF PlanOK
<1> QED
  BY <1>1, <1>3, PlanGoesOn

LEMMA RunGoal ==
    ASSUME NEW e \in Run, NEW m \in Nat, NEW lo \in Nat, NEW hi \in Int
    PROVE  [e EXCEPT !.goal = m, !.low = lo, !.high = hi] \in Run
BY DEF Run

LEMMA RunReturns ==
    ASSUME NEW e \in Run, NEW s \in {"collect", "cap"}
    PROVE  [e EXCEPT !.pc = s, !.goal = 0, !.low = 0, !.high = 0] \in Run
<1> DEFINE d == [e EXCEPT !.pc = s]
<1>1. d \in Run
  BY DEF Run
<1>2. [e EXCEPT !.pc = s, !.goal = 0, !.low = 0, !.high = 0]
        = [d EXCEPT !.goal = 0, !.low = 0, !.high = 0]
  OBVIOUS
<1> HIDE DEF d
<1>3. [d EXCEPT !.goal = 0, !.low = 0, !.high = 0] \in Run
  <2>1. 0 \in Nat /\ 0 \in Int
    OBVIOUS
  <2> QED
    BY <1>1, <2>1, RunGoal, Zenon
<1> QED
  BY <1>2, <1>3

(* A search that ends has found a block that covers its goal; for the end  *)
(* of the range it comes after the origin of the start.                    *)
LEMMA SearchEnded ==
    ASSUME PlanInv, UNCHANGED nodeVars, SearchEnds
    PROVE  PlanInv'
<1>1. /\ est.pc = "search" /\ est.found # NoBlock
      /\ est' = [est EXCEPT !.pc = est.then, !.goal = 0, !.low = 0, !.high = 0]
  BY DEF SearchEnds
<1>2. ASSUME PlanOK, node.branch = "a" PROVE PlanOK'
  <2>1. /\ est \in Run /\ est.cfg \in Settings /\ NodesOK /\ est.then \in {"collect", "cap"}
        /\ Covers(est.found, est.goal)
    BY <1>1, <1>2 DEF PlanOK, Run, PlanInv, SearchOK
  <2>2. /\ est' \in Run /\ est'.pc = est.then /\ est'.then = est.then
        /\ est'.cfg = est.cfg /\ est'.start = est.start /\ est'.end = est.end
        /\ est'.from = est.from /\ est'.guessed = est.guessed /\ est'.found = est.found
        /\ est'.safe = est.safe /\ est'.ranges = est.ranges /\ est'.heads = est.heads
    <3>1. est' \in Run
      BY <1>1, <2>1, RunReturns
    <3> QED
      BY <1>1, <2>1, <3>1 DEF Run
  <2>3. /\ Selected' = Selected
        /\ \A k, m : Covers(k, m)' <=> Covers(k, m)
        /\ \A m : Origin(m)' = Origin(m)
    BY <2>2, Still
  <2>4. CASE est.then = "collect"
    <3>1. /\ est.heads = <<>> /\ est.start <= est.end /\ est.from = Origin(est.start)
          /\ est.goal = est.end
      BY <1>1, <1>2, <2>4 DEF PlanOK, SplittingOK, Searching
    <3>2. est.from <= est.found
      <4>1. PICK n \in 1 .. MaxHeight : n = est.found /\ Len(Derived[Block("a", n)]) >= est.end
        BY <2>1, <3>1, Heights DEF Covers, NodesOK
      <4>2. PICK len \in Nat : len = Len(Derived[Block("a", n)])
        <5>1. "a" \in Branches /\ n \in 0 .. MaxHeight
          BY <4>1 DEF Branches
        <5>2. Derived[Block("a", n)] \in Seq(L2Blocks)
          BY <5>1, BlocksAre
        <5> QED
          BY <5>2
      <4>3. est.start \in Nat /\ est.end \in Nat
        BY <2>1 DEF Run
      <4>4. Len(Derived[Block(node.branch, n)]) >= est.start
        BY <1>2, <3>1, <4>1, <4>2, <4>3
      <4>5. Origin(est.start) \in 0 .. MaxHeight /\ Origin(est.start) < n
        BY <2>1, <4>3, <4>4, OriginFacts
      <4> QED
        BY <3>1, <4>1, <4>5, Heights
    <3>3. Covers(est.found, est.end)'
      BY <2>1, <2>2, <2>3, <3>1 DEF Covers
    <3> QED
      BY <2>2, <2>4, <3>1, <3>2, <3>3 DEF PlanOK, SplittingOK, SearchOK, HeadsOK, Searching
  <2>5. CASE est.then = "cap"
    <3>1. /\ HeadsOK /\ Searching("cap") /\ est.goal = est.ranges[Len(est.heads) + 1].end
      BY <1>1, <1>2, <2>5 DEF PlanOK, HeadsOK, Searching
    <3>2. Covers(est.found, est.ranges[Len(est.heads) + 1].end)'
      BY <2>1, <2>2, <2>3, <3>1 DEF Covers
    <3>3. Contiguous(est.ranges, est.start, est.end)' <=> Contiguous(est.ranges, est.start, est.end)
      BY <2>2 DEF Contiguous, cfg
    <3>4. HeadsOK'
      BY <2>2, <2>3, <2>5, <3>1, <3>2, <3>3 DEF HeadsOK, Searching
    <3> QED
      BY <2>2, <2>5, <3>4 DEF PlanOK, SplittingOK, SearchOK, Searching
  <2> QED
    BY <2>1, <2>4, <2>5
<1> QED
  BY <1>1, <1>2, PlanGoesOn

LEMMA SearchFailed ==
    ASSUME PlanInv, UNCHANGED nodeVars, SearchFails
    PROVE  PlanInv'
<1>1. est.pc \in {"bound", "search"}
  BY DEF SearchFails
<1>2. CASE Fail
  BY <1>1, <1>2, PlanFails
<1>3. CASE est.then = "cap" /\ Step("estimate")
  <2>1. ASSUME PlanOK PROVE PlanOK'
    <3>1. est \in Run /\ HeadsOK /\ Searching("cap")
      BY <1>1, <1>3, <2>1 DEF PlanOK, Searching
    <3>2. est' \in Run
      BY <1>3, <3>1 DEF Run, Step
    <3>3. /\ est'.pc = "estimate" /\ est'.cfg = est.cfg
          /\ est'.start = est.start /\ est'.end = est.end /\ est'.guessed = est.guessed
          /\ est'.ranges = est.ranges /\ est'.heads = est.heads
      BY <1>3, <3>1, StepFields
    <3>4. Selected' = Selected
      BY <3>3, Still
    <3>5. Contiguous(est.ranges, est.start, est.end)' <=> Contiguous(est.ranges, est.start, est.end)
      BY <3>3 DEF Contiguous, cfg
    <3>6. HeadsOK'
      BY <3>1, <3>3, <3>4, <3>5 DEF HeadsOK, Searching
    <3> QED
      BY <3>2, <3>3, <3>6 DEF PlanOK, SplittingOK, SearchOK, Searching
  <2> QED
    BY <1>1, <2>1, PlanGoesOn
<1> QED
  BY <1>2, <1>3 DEF SearchFails

(* The fallback guesses some block, which is then capped.                  *)
LEMMA HeadEstimated ==
    ASSUME PlanInv, UNCHANGED nodeVars, EstimateL1Head
    PROVE  PlanInv'
<1> DEFINE target == Min({L2Time(est.goal) + PostDelay, L1Time(Selected)})
           n == FindBlockByTimestamp(target, Selected)
<1>1. est.pc = "estimate" /\ est' = [est EXCEPT !.pc = "cap", !.guessed = TRUE, !.found = n]
  BY DEF EstimateL1Head
<1>2. ASSUME PlanOK PROVE PlanOK'
  <2>1. est \in Run /\ est.cfg \in Settings /\ est.goal \in Nat /\ NodesOK /\ l1.fin <= l1.tip
    BY <1>2 DEF PlanOK, Run, PlanInv
  <2>2. Selected \in Nat /\ Origin(est.goal) \in Nat
    <3>1. Selected \in 0 .. MaxHeight
      BY <2>1, SelectedFacts
    <3>2. Origin(est.goal) \in 0 .. MaxHeight
      BY <2>1, OriginFacts
    <3> QED
      BY <3>1, <3>2, Heights
  <2>3. L2Time(est.goal) + PostDelay \in Int /\ L1Time(Selected) \in Int
    BY <2>2, SettingsAssumption DEF L2Time, L1Time
  <2>4. target \in Int
    BY <2>3, MinOfTwo
  <2> HIDE DEF target
  <2>5. n \in Nat
    BY <2>2, <2>4, FoundBlock
  <2> HIDE DEF n
  <2>6. est' \in Run
    BY <1>1, <2>1, <2>5 DEF Run
  <2>7. /\ est'.pc = "cap" /\ est'.cfg = est.cfg /\ est'.guessed = TRUE
        /\ est'.start = est.start /\ est'.end = est.end
        /\ est'.ranges = est.ranges /\ est'.heads = est.heads
    BY <1>1, <2>1 DEF Run
  <2>8. Selected' = Selected
    BY <2>7, Still
  <2>9. Contiguous(est.ranges, est.start, est.end)' <=> Contiguous(est.ranges, est.start, est.end)
    BY <2>7 DEF Contiguous, cfg
  <2>10. HeadsOK'
    BY <1>1, <1>2, <2>7, <2>8, <2>9 DEF PlanOK, HeadsOK, Searching
  <2> QED
    BY <2>6, <2>7, <2>10 DEF PlanOK, SplittingOK, SearchOK, Searching
<1> QED
  BY <1>1, <1>2, PlanGoesOn

(* The collection ends with the safe head of the block that covers the end.*)
LEMMA HeadCollected ==
    ASSUME PlanInv, UNCHANGED nodeVars, Collect
    PROVE  PlanInv'
<1> DEFINE len == Len(SafeHeadAt(est.from).head)
<1>1. /\ est.pc = "collect" /\ est.from <= est.found
      /\ est' = [est EXCEPT !.from = @ + 1, !.safe = @ \cup {len}]
  BY DEF Collect
<1>2. ASSUME PlanOK, node.branch = "a" PROVE PlanOK'
  <2>1. /\ est \in Run /\ NodesOK /\ est.from \in Nat /\ est.found \in Nat /\ est.safe \in SUBSET Nat
        /\ est.end \in Nat
    BY <1>2 DEF PlanOK, Run, PlanInv
  <2>2. len \in Nat
    <3>1. SafeHeadAt(est.from).head \in Seq(L2Blocks)
      BY <2>1, SafeHeadIsDerived
    <3> QED
      BY <3>1
  <2>3. est.from = est.found => len >= est.end
    <3> SUFFICES ASSUME est.from = est.found PROVE len >= est.end
      OBVIOUS
    <3>1. est.from <= node.done /\ Len(Derived[Block("a", est.from)]) >= est.end
      BY <1>1, <1>2, <2>1, Heights DEF PlanOK, SplittingOK, Covers, NodesOK
    <3>2. SafeHeadAt(est.from).head = Derived[Block("a", est.from)]
      BY <1>2, <2>1, <3>1, SafeHeadIsDerived
    <3> QED
      BY <3>1, <3>2
  <2> HIDE DEF len
  <2>4. est' \in Run
    <3>1. est.from + 1 \in Nat /\ est.safe \cup {len} \in SUBSET Nat
      BY <2>1, <2>2
    <3> QED
      BY <1>1, <2>1, <3>1 DEF Run
  <2>5. /\ est'.pc = "collect" /\ est'.cfg = est.cfg /\ est'.found = est.found
        /\ est'.start = est.start /\ est'.end = est.end /\ est'.heads = est.heads
        /\ est'.from = est.from + 1 /\ est'.safe = est.safe \cup {len}
    BY <1>1, <2>1 DEF Run
  <2>6. Covers(est.found, est.end)' <=> Covers(est.found, est.end)
    <3>1. Selected' = Selected /\ node' = node
      BY <2>5, Still DEF nodeVars
    <3> QED
      BY <2>5, <3>1 DEF Covers
  <2>7. est'.from <= est'.found \/ \E h \in est'.safe : h >= est'.end
    BY <1>1, <2>1, <2>3, <2>5
  <2> QED
    BY <1>1, <1>2, <2>4, <2>5, <2>6, <2>7 DEF PlanOK, SplittingOK, SearchOK, HeadsOK, Searching
<1> QED
  BY <1>1, <1>2, PlanGoesOn

LEMMA RunSplit ==
    ASSUME NEW e \in Run, NEW R \in Seq(Span)
    PROVE  [e EXCEPT !.pc = "heads", !.safe = {}, !.from = 0, !.found = NoBlock, !.ranges = R] \in Run
<1> DEFINE d == [e EXCEPT !.pc = "heads", !.ranges = R, !.safe = {}]
<1>1. d \in Run
  BY DEF Run
<1>2. [e EXCEPT !.pc = "heads", !.safe = {}, !.from = 0, !.found = NoBlock, !.ranges = R]
        = [d EXCEPT !.from = 0, !.found = NoBlock]
  OBVIOUS
<1> HIDE DEF d
<1>3. [d EXCEPT !.from = 0, !.found = NoBlock] \in Run
  BY <1>1 DEF Run, NoBlock
<1> QED
  BY <1>2, <1>3

LEMMA SplitBySafeHeads ==
    ASSUME PlanInv, UNCHANGED nodeVars, Collected
    PROVE  PlanInv'
<1> DEFINE R == SplitRangeBasedOnSafeHeads(est.start, est.end, est.safe, cfg.batch)
<1>1. /\ est.pc = "collect" /\ est.from > est.found
      /\ est' = [est EXCEPT !.pc = "heads", !.safe = {}, !.from = 0, !.found = NoBlock, !.ranges = R]
  BY DEF Collected
<1>2. ASSUME PlanOK PROVE PlanOK'
  <2>1. /\ est \in Run /\ est.start \in Nat /\ est.end \in Nat /\ est.start <= est.end
        /\ est.heads = <<>> /\ cfg.batch \in Nat \ {0} /\ est.safe \in SUBSET Nat
        /\ est.from \in Nat /\ est.found \in Nat
    BY <1>1, <1>2, SettingsAssumption DEF PlanOK, SplittingOK, Run, cfg
  <2>2. est.start = est.end \/ \E h \in est.safe : h >= est.end
    <3>1. ~(est.from <= est.found)
      BY <1>1, <2>1
    <3> QED
      BY <1>1, <1>2, <3>1 DEF PlanOK, SplittingOK
  <2>3. Cuts(R, est.start, est.end, cfg.batch)
    <3>1. PICK a \in Nat, b \in Nat, heads \in SUBSET Nat, max \in Nat \ {0} :
             a = est.start /\ b = est.end /\ heads = est.safe /\ max = cfg.batch /\ a <= b
      BY <2>1
    <3>2. PICK c \in a .. b : /\ Cuts(SplitRangeBasedOnSafeHeads(a, b, heads, max), a, c, max)
                              /\ a = b \/ (\E h \in heads : h >= b) => c = b
      BY <3>1, SafeHeadsCut
    <3> QED
      BY <2>2, <3>1, <3>2
  <2> HIDE DEF R
  <2>4. R \in Seq(Span)
    BY <2>3 DEF Cuts
  <2>5. est' \in Run
    BY <1>1, <2>1, <2>4, RunSplit
  <2>6. /\ est'.pc = "heads" /\ est'.heads = <<>> /\ est'.cfg = est.cfg
        /\ est'.ranges = R /\ est'.start = est.start /\ est'.end = est.end
    BY <1>1, <2>1 DEF Run
  <2> QED
    BY <2>3, <2>5, <2>6, RangesMade
<1> QED
  BY <1>1, <1>2, PlanGoesOn

LEMMA HeadSought ==
    ASSUME PlanInv, UNCHANGED nodeVars, CalculateSafeL1Head
    PROVE  PlanInv'
<1> DEFINE m == est.ranges[Len(est.heads) + 1].end
<1>1. est.pc = "heads" /\ Len(est.heads) < Len(est.ranges) /\ StartSearch(m, "cap")
  BY DEF CalculateSafeL1Head
<1>2. ASSUME PlanOK PROVE PlanOK'
  <2>1. est \in Run /\ HeadsOK /\ est.ranges \in Seq(Span) /\ est.heads \in Seq(Blocks)
    BY <1>2 DEF PlanOK, Run
  <2>2. m \in Nat
    <3>1. Len(est.heads) + 1 \in 1 .. Len(est.ranges)
      BY <1>1, <2>1
    <3>2. est.ranges[Len(est.heads) + 1] \in Span
      BY <2>1, <3>1, ElementOfSeq
    <3> QED
      BY <3>2 DEF Span
  <2> HIDE DEF m
  <2>3. /\ est' \in Run /\ est'.pc = "bound" /\ est'.then = "cap" /\ est'.goal = m
        /\ est'.cfg = est.cfg /\ est'.start = est.start /\ est'.end = est.end
        /\ est'.guessed = est.guessed
        /\ est'.ranges = est.ranges /\ est'.heads = est.heads /\ SearchOK'
    BY <1>1, <1>2, <2>2, SearchStarts
  <2>4. Selected' = Selected
    BY <2>3, Still
  <2>5. Contiguous(est.ranges, est.start, est.end)' <=> Contiguous(est.ranges, est.start, est.end)
    BY <2>3 DEF Contiguous, cfg
  <2>6. HeadsOK'
    BY <1>1, <2>1, <2>3, <2>4, <2>5 DEF HeadsOK, Searching, m
  <2> QED
    BY <2>3, <2>6 DEF PlanOK, SplittingOK, Searching
<1> QED
  BY <1>1, <1>2, PlanGoesOn

(* The head, with the buffer added and capped at the selection, derives    *)
(* the range that the block found does.                                    *)
LEMMA HeadCapped ==
    ASSUME PlanInv, UNCHANGED nodeVars, CapL1Head
    PROVE  PlanInv'
<1> DEFINE b == L1BlockAt(Capped(est.found))
<1>1. /\ est.pc = "cap"
      /\ est' = [est EXCEPT !.pc = "heads", !.found = NoBlock, !.goal = 0, !.heads = Append(@, b)]
  BY DEF CapL1Head
<1>2. ASSUME PlanOK, ~Disturbed, node.branch = "a" PROVE PlanOK'
  <2>1. /\ est \in Run /\ HeadsOK /\ est.ranges \in Seq(Span) /\ est.heads \in Seq(Blocks)
        /\ est.found \in Nat /\ est.cfg \in Settings /\ NodesOK /\ l1.fin <= l1.tip
    BY <1>2 DEF PlanOK, Run, PlanInv
  <2>2. Selected \in 0 .. MaxHeight
    BY <2>1, SelectedFacts
  <2>3. PICK c \in 0 .. MaxHeight : /\ c = Capped(est.found) /\ c <= Selected
                                    /\ est.found <= Selected => est.found <= c
    <3>1. Selected \in Nat /\ est.found + Buffer \in Nat /\ est.found <= est.found + Buffer
      BY <2>1, <2>2, SettingsAssumption, Heights
    <3>2. Capped(est.found) = IF est.found + Buffer <= Selected THEN est.found + Buffer ELSE Selected
      BY <3>1, MinOfTwo DEF Capped
    <3>3. /\ Capped(est.found) \in 0 .. MaxHeight /\ Capped(est.found) <= Selected
          /\ est.found <= Selected => est.found <= Capped(est.found)
      BY <2>1, <2>2, <3>1, <3>2, Heights
    <3> QED
      BY <3>3
  <2>4. l1.branch = "a"
    BY <1>2, <2>1 DEF Disturbed, NodesOK, Branches
  <2>5. b = Block("a", c) /\ b \in Blocks /\ b[1] = c /\ Derived[b] \in Seq(L2Blocks)
    <3>1. b = Block("a", c) /\ "a" \in Branches
      BY <2>3, <2>4 DEF L1BlockAt, Branches
    <3>2. b[1] = c
      BY <3>1 DEF Block
    <3> QED
      BY <3>1, <3>2, BlocksAre
  <2> HIDE DEF b
  <2> DEFINE k == Len(est.heads) + 1
  <2>6. Len(est.heads) < Len(est.ranges) /\ k \in 1 .. Len(est.ranges)
    <3>1. Len(est.heads) < Len(est.ranges)
      BY <1>1, <2>1 DEF HeadsOK
    <3> QED
      BY <2>1, <3>1
  <2>7. est.guessed \/ Runs(est.ranges[k], b)
    <3> SUFFICES ASSUME ~est.guessed PROVE Runs(est.ranges[k], b)
      OBVIOUS
    <3>1. Covers(est.found, est.ranges[k].end)
      BY <1>1, <2>1 DEF HeadsOK
    <3>2. PICK n \in 0 .. MaxHeight : /\ n = est.found /\ n <= Selected
                                      /\ Len(Derived[Block("a", n)]) >= est.ranges[k].end
      BY <2>1, <3>1, Heights DEF Covers, NodesOK
    <3>3. "a" \in Branches /\ c \in n .. MaxHeight
      BY <2>3, <3>2, Heights DEF Branches
    <3>4. /\ IsPrefix(Derived[Block("a", n)], Derived[b])
          /\ Derived[Block("a", n)] \in Seq(L2Blocks)
      BY <2>5, <3>3, DerivedGrows, BlocksAre
    <3>5. Len(Derived[Block("a", n)]) <= Len(Derived[b])
      BY <2>5, <3>4, PrefixIsBlock
    <3>6. est.ranges[k].end \in Nat
      <4>1. est.ranges[k] \in Span
        BY <2>1, <2>6, ElementOfSeq
      <4> QED
        BY <4>1 DEF Span
    <3>7. Len(Derived[Block("a", n)]) \in Nat /\ Len(Derived[b]) \in Nat
      BY <2>5, <3>4
    <3>8. est.ranges[k].end <= Len(Derived[b])
      BY <3>2, <3>5, <3>6, <3>7
    <3> QED
      BY <3>8 DEF Runs
  <2> DEFINE H == Append(est.heads, b)
  <2>8. /\ H \in Seq(Blocks) /\ Len(H) = k /\ DOMAIN H = 1 .. k /\ H[k] = b
        /\ \A i \in 1 .. Len(est.heads) : H[i] = est.heads[i]
    BY <2>1, <2>5
  <2>9. DOMAIN est.heads = 1 .. Len(est.heads) /\ Len(est.heads) \in Nat
    BY <2>1
  <2> HIDE DEF H
  <2>10. est' = [est EXCEPT !.pc = "heads", !.found = 0, !.goal = 0, !.heads = H]
    BY <1>1 DEF H, NoBlock
  <2>11. /\ est'.pc = "heads" /\ est'.cfg = est.cfg /\ est'.guessed = est.guessed
         /\ est'.start = est.start /\ est'.end = est.end
         /\ est'.ranges = est.ranges /\ est'.heads = H
    BY <2>1, <2>10 DEF Run
  <2>12. est' \in Run
    BY <2>1, <2>8, <2>10 DEF Run
  <2>13. Selected' = Selected
    BY <2>11, Still
  <2>14. Contiguous(est.ranges, est.start, est.end)' <=> Contiguous(est.ranges, est.start, est.end)
    BY <2>11 DEF Contiguous, cfg
  <2>15. \A i \in DOMAIN est'.heads :
            /\ est'.heads[i][1] <= Selected
            /\ est'.guessed \/ Runs(est'.ranges[i], est'.heads[i])
    <3> TAKE i \in DOMAIN est'.heads
    <3>1. CASE i \in DOMAIN est.heads
      BY <1>1, <2>1, <2>8, <2>9, <2>11, <3>1 DEF HeadsOK
    <3>2. CASE i = k
      BY <2>3, <2>5, <2>7, <2>8, <2>11, <3>2
    <3> QED
      BY <2>8, <2>9, <2>11, <3>1, <3>2
  <2>16. HeadsOK'
    BY <1>1, <2>1, <2>6, <2>8, <2>11, <2>13, <2>14, <2>15 DEF HeadsOK, Searching, Runs
  <2> QED
    BY <2>11, <2>12, <2>16 DEF PlanOK, SplittingOK, SearchOK, Searching
<1> QED
  BY <1>1, <1>2, PlanGoesOn

LEMMA RangesExecuted ==
    ASSUME PlanInv, UNCHANGED nodeVars, ExecuteBlocks
    PROVE  PlanInv'
<1>1. est.pc = "heads"
  BY DEF ExecuteBlocks
<1>2. CASE Fail
  BY <1>1, <1>2, PlanFails
<1>3. CASE Step("reported")
  <2>1. ASSUME PlanOK PROVE PlanOK'
    <3>1. est \in Run
      BY <2>1 DEF PlanOK
    <3>2. est' \in Run /\ est'.pc = "reported"
      BY <1>3, <3>1 DEF Run, Step
    <3> QED
      BY <3>2 DEF PlanOK, SplittingOK, SearchOK, HeadsOK, Searching
  <2> QED
    BY <1>1, <2>1, PlanGoesOn
<1> QED
  BY <1>2, <1>3 DEF ExecuteBlocks

LEMMA PlanReadFails ==
    ASSUME PlanInv, UNCHANGED nodeVars, EstimatorReadFails
    PROVE  PlanInv'
<1>1. est.pc # "failed" /\ Fail
  BY DEF EstimatorReadFails
<1> QED
  BY <1>1, PlanFails

LEMMA PlanStep ==
    ASSUME PlanInv, UNCHANGED nodeVars, EstimatorNext
    PROVE  PlanInv'
<1>1. CASE \/ ValidateL1Selection \/ ResolveLimit \/ PickRange \/ Split
           \/ CollectFrom \/ CollectUpTo \/ Collect \/ Collected
  BY <1>1, SelectionValidated, LimitResolved, RangePicked, SplitBegun,
     OriginOfStartRead, EndSought, HeadCollected, SplitBySafeHeads
<1>2. CASE SearchFrom \/ Probe \/ SearchEnds \/ SearchFails
  BY <1>2, OriginOfGoalRead, Probed, SearchEnded, SearchFailed
<1>3. CASE \/ EstimateL1Head \/ CalculateSafeL1Head \/ CapL1Head
           \/ ExecuteBlocks \/ EstimatorReadFails
  BY <1>3, HeadEstimated, HeadSought, HeadCapped, RangesExecuted, PlanReadFails
<1> QED
  BY <1>1, <1>2, <1>3 DEF EstimatorNext

LEMMA PlanStart == Init => PlanInv
<1> SUFFICES ASSUME Init PROVE PlanInv
  OBVIOUS
<1>1. NodesOK
  BY NodesStart DEF Init
<1>2. l1.fin <= l1.tip /\ node.branch = "a"
  BY Heights DEF Init, NodesInit
<1>3. PICK c \in Settings :
        est = [cfg |-> c, pc |-> "start", then |-> "none", start |-> 0, end |-> 0, goal |-> 0,
               low |-> 0, high |-> 0, found |-> NoBlock, from |-> 0, guessed |-> FALSE, safe |-> {},
               ranges |-> <<>>, heads |-> <<>>]
  BY DEF Init, EstimatorInit
<1>4. est.pc = "start" /\ est.then = "none" /\ est.heads = <<>>
  BY <1>3
<1>5. est \in Run
  BY <1>3 DEF Run, NoBlock
<1>6. PlanOK
  BY <1>4, <1>5 DEF PlanOK, SplittingOK, SearchOK, HeadsOK, Searching
<1> QED
  BY <1>1, <1>2, <1>6 DEF PlanInv

(* Spec => []PlanCoversRange: the ranges that cost_estimator.rs executes   *)
(* cut the range asked for, however it is split and whatever L1 and the    *)
(* op-node do between the reads short of a reorg or a reset; every head    *)
(* from the safe-head database derives its range, and none is past the     *)
(* selected block.                                                         *)
THEOREM PlansCoverTheRange == Spec => []PlanCoversRange
<1>1. Init => PlanInv
  BY PlanStart
<1>2. PlanInv /\ [Next]_vars => PlanInv'
  <2> SUFFICES ASSUME PlanInv, [Next]_vars PROVE PlanInv'
    OBVIOUS
  <2>1. CASE NodesMove
    BY <2>1, NodesUnderPlanning DEF NodesMove, NodesStep
  <2>2. CASE EstimatorActs
    BY <2>2, PlanStep DEF EstimatorActs
  <2>3. CASE UNCHANGED <<nodeVars, est>>
    <3>1. /\ est' = est /\ l1' = l1 /\ node' = node /\ cfg' = cfg /\ Selected' = Selected
          /\ \A n, m : Covers(n, m)' <=> Covers(n, m)
          /\ \A m : Origin(m)' = Origin(m)
          /\ Disturbed' <=> Disturbed
      BY <2>3, Still DEF nodeVars
    <3>2. NodesOK'
      BY <2>3, <3>1 DEF PlanInv, NodesOK, nodeVars
    <3>3. PlanOK => PlanOK'
      BY <3>1 DEF PlanOK, SplittingOK, SearchOK, HeadsOK, Searching, Contiguous
    <3> QED
      BY <3>1, <3>2, <3>3 DEF PlanInv
  <2> QED
    BY <2>1, <2>2, <2>3 DEF Next, ValidatorActs, ProverActs, vars
<1>3. PlanInv => PlanCoversRange
  BY DEF PlanInv, PlanOK, HeadsOK, PlanCoversRange, Complete
<1> QED
  BY <1>1, <1>2, <1>3, PTL DEF Spec

-----------------------------------------------------------------------------
(* What is reported, whatever the nodes do.                                *)

HasRanges == est.pc \in {"heads", "estimate", "cap"} \/ Searching("cap")

(* The ranges are a cut of the picked range up to some block.              *)
DraftOK ==
    /\ "pc" \in DOMAIN est
    /\ est.pc # "failed" =>
         /\ {"cfg", "then", "start", "end", "low", "from", "safe", "ranges"} \subseteq DOMAIN est
         /\ est.cfg \in Settings /\ est.then \in {"none", "collect", "cap"}
         /\ est.start \in Nat /\ est.end \in Nat /\ est.from \in Nat /\ est.safe \in SUBSET Nat
         /\ est.pc = "range" => est.low \in Nat
         /\ est.pc \notin {"start", "limit", "range"} => est.start <= est.end
         /\ HasRanges => \E c \in est.start .. est.end : Cuts(est.ranges, est.start, c, cfg.batch)
         /\ ReportIsComplete

ReportInv == NodesOK /\ l1.fin <= l1.tip /\ DraftOK

LEMMA DraftFails ==
    ASSUME Fail
    PROVE  DraftOK'
<1>1. est' = [pc |-> "failed", cfg |-> cfg]
  BY DEF Fail
<1>2. "pc" \in DOMAIN est' /\ est'.pc = "failed"
  BY <1>1
<1> QED
  BY <1>2 DEF DraftOK

(* A step that goes on with the same range and ranges.                     *)
LEMMA DraftKept ==
    ASSUME DraftOK, est.pc # "failed", DOMAIN est' = DOMAIN est,
           est'.cfg = est.cfg, est'.start = est.start, est'.end = est.end, est'.from = est.from,
           est'.safe = est.safe, est'.ranges = est.ranges, est'.then \in {"none", "collect", "cap"},
           est'.pc \notin {"range", "reported"},
           est'.pc \in {"start", "limit"} \/ est.pc \notin {"start", "limit", "range"},
           HasRanges' => HasRanges
    PROVE  DraftOK'
<1>1. cfg' = cfg
  BY DEF cfg
<1>2. est'.pc \notin {"start", "limit", "range"} => est'.start <= est'.end
  BY DEF DraftOK
<1>3. HasRanges' => \E c \in est'.start .. est'.end : Cuts(est'.ranges, est'.start, c, cfg.batch)
  BY DEF DraftOK
<1>4. ReportIsComplete'
  BY DEF ReportIsComplete
<1> QED
  BY <1>1, <1>2, <1>3, <1>4 DEF DraftOK

(* A step that has just cut the range.                                     *)
LEMMA DraftCut ==
    ASSUME DraftOK, est.pc # "failed", DOMAIN est' = DOMAIN est,
           est'.cfg = est.cfg, est'.then = est.then, est'.start = est.start, est'.end = est.end,
           est'.from \in Nat, est'.safe \in SUBSET Nat, est'.pc = "heads",
           est.pc \notin {"start", "limit", "range"},
           \E c \in est.start .. est.end : Cuts(est'.ranges, est.start, c, cfg.batch)
    PROVE  DraftOK'
<1>1. cfg' = cfg
  BY DEF cfg
<1>2. \E c \in est'.start .. est'.end : Cuts(est'.ranges, est'.start, c, cfg.batch)
  OBVIOUS
<1>3. ReportIsComplete'
  BY DEF ReportIsComplete
<1> QED
  BY <1>1, <1>2, <1>3 DEF DraftOK

LEMMA DraftPicked ==
    ASSUME ReportInv, est.pc # "failed", PickRange
    PROVE  DraftOK'
<1>1. CASE Fail
  BY <1>1, DraftFails
<1>2. CASE /\ Picked.ok
           /\ est' = [est EXCEPT !.pc = "split", !.low = 0, !.start = Picked.start, !.end = Picked.end]
  <2>1. Picked.start \in Nat /\ Picked.end \in Nat /\ Picked.start <= Picked.end
    <3>1. NodesOK /\ est.cfg \in Settings /\ (IsDefault \/ est.low \in Nat)
      BY PickRangePicks DEF ReportInv, DraftOK
    <3> QED
      BY <1>2, <3>1, PickedForward
  <2>2. /\ DOMAIN est' = DOMAIN est /\ est'.pc = "split" /\ est'.cfg = est.cfg /\ est'.then = est.then
        /\ est'.start = Picked.start /\ est'.end = Picked.end /\ est'.from = est.from /\ est'.safe = est.safe
    BY <1>2 DEF ReportInv, DraftOK
  <2>3. ReportIsComplete' /\ ~HasRanges'
    BY <2>2 DEF ReportIsComplete, HasRanges, Searching
  <2> QED
    BY <2>1, <2>2, <2>3 DEF ReportInv, DraftOK
<1> QED
  BY <1>1, <1>2, PickRangePicks

LEMMA DraftSplit ==
    ASSUME ReportInv, est.pc # "failed", Split \/ Collected
    PROVE  DraftOK'
<1>1. /\ DraftOK /\ cfg.batch \in Nat \ {0} /\ est.start \in Nat /\ est.end \in Nat
      /\ est.safe \in SUBSET Nat /\ est.from \in Nat
  BY SettingsAssumption DEF ReportInv, DraftOK, cfg
<1>2. est.pc \in {"split", "collect"} /\ est.start <= est.end
  BY <1>1 DEF Split, Collected, DraftOK
<1>3. CASE est.pc = "split" /\ Step("origin")
  <2>1. est' = [est EXCEPT !.pc = "origin"]
    BY <1>3 DEF Step
  <2>2. /\ DOMAIN est' = DOMAIN est /\ est'.pc = "origin" /\ est'.cfg = est.cfg /\ est'.then = est.then
        /\ est'.start = est.start /\ est'.end = est.end /\ est'.from = est.from
        /\ est'.safe = est.safe /\ est'.ranges = est.ranges
    BY <1>1, <2>1 DEF DraftOK
  <2>3. ~HasRanges' /\ est'.then \in {"none", "collect", "cap"}
    BY <1>1, <1>2, <2>2 DEF HasRanges, Searching, DraftOK
  <2> QED
    BY <1>1, <1>2, <1>3, <2>2, <2>3, DraftKept
<1>4. ASSUME est' = [est EXCEPT !.pc = "heads",
                                !.ranges = SplitRangeBasic(est.start, est.end, cfg.batch)]
      PROVE  DraftOK'
  <2> DEFINE R == SplitRangeBasic(est.start, est.end, cfg.batch)
  <2>1. Cuts(R, est.start, est.end, cfg.batch) /\ est.end \in est.start .. est.end
    BY <1>1, <1>2, BasicCuts
  <2>2. est' = [est EXCEPT !.pc = "heads", !.ranges = R]
    BY <1>4
  <2> HIDE DEF R
  <2>3. /\ DOMAIN est' = DOMAIN est /\ est'.pc = "heads" /\ est'.cfg = est.cfg /\ est'.then = est.then
        /\ est'.start = est.start /\ est'.end = est.end /\ est'.from = est.from
        /\ est'.safe = est.safe /\ est'.ranges = R
    BY <1>1, <1>2, <2>2 DEF DraftOK
  <2>4. \E c \in est.start .. est.end : Cuts(est'.ranges, est.start, c, cfg.batch)
    BY <2>1, <2>3
  <2> QED
    BY <1>1, <1>2, <2>3, <2>4, DraftCut
<1>5. ASSUME Collected PROVE DraftOK'
  <2> DEFINE R == SplitRangeBasedOnSafeHeads(est.start, est.end, est.safe, cfg.batch)
  <2>1. PICK c \in est.start .. est.end : Cuts(R, est.start, c, cfg.batch)
    <3>1. PICK a \in Nat, b \in Nat, heads \in SUBSET Nat, max \in Nat \ {0} :
             a = est.start /\ b = est.end /\ heads = est.safe /\ max = cfg.batch /\ a <= b
      BY <1>1, <1>2
    <3>2. PICK c \in a .. b : Cuts(SplitRangeBasedOnSafeHeads(a, b, heads, max), a, c, max)
      BY <3>1, SafeHeadsCut
    <3> QED
      BY <3>1, <3>2
  <2>2. est' = [est EXCEPT !.pc = "heads", !.safe = {}, !.from = 0, !.found = NoBlock, !.ranges = R]
    BY <1>5 DEF Collected
  <2> HIDE DEF R
  <2>3. /\ DOMAIN est' = DOMAIN est /\ est'.pc = "heads" /\ est'.cfg = est.cfg /\ est'.then = est.then
        /\ est'.start = est.start /\ est'.end = est.end /\ est'.from = 0
        /\ est'.safe = {} /\ est'.ranges = R
    BY <1>1, <1>2, <2>2 DEF DraftOK
  <2>4. /\ \E d \in est.start .. est.end : Cuts(est'.ranges, est.start, d, cfg.batch)
        /\ est'.from \in Nat /\ est'.safe \in SUBSET Nat
    BY <2>1, <2>3
  <2> QED
    BY <1>1, <1>2, <2>3, <2>4, DraftCut
<1> QED
  BY <1>3, <1>4, <1>5 DEF Split

LEMMA DraftCollects ==
    ASSUME ReportInv, est.pc # "failed", CollectFrom \/ Collect
    PROVE  DraftOK'
<1>1. NodesOK /\ DraftOK /\ est.start \in Nat /\ est.from \in Nat /\ est.safe \in SUBSET Nat
  BY DEF ReportInv, DraftOK
<1>2. PICK n, safe, pc : /\ est' = [est EXCEPT !.pc = pc, !.from = n, !.safe = safe]
                         /\ est.pc \in {"origin", "collect"} /\ pc \in {"upto", "collect"}
                         /\ n \in Nat /\ safe \in SUBSET Nat
  <2>1. CASE CollectFrom
    <3>1. Origin(est.start) \in Nat
      <4>1. Origin(est.start) \in 0 .. MaxHeight
        BY <1>1, OriginFacts
      <4> QED
        BY <4>1, Heights
    <3>2. est.pc = "origin" /\ est' = [est EXCEPT !.pc = "upto", !.from = Origin(est.start)]
      BY <2>1 DEF CollectFrom
    <3>3. est' = [est EXCEPT !.pc = "upto", !.from = Origin(est.start), !.safe = est.safe]
      BY <3>2
    <3> QED
      BY <1>1, <3>1, <3>2, <3>3
  <2>2. CASE Collect
    <3> DEFINE len == Len(SafeHeadAt(est.from).head)
    <3>1. len \in Nat
      <4>1. SafeHeadAt(est.from).head \in Seq(L2Blocks)
        BY <1>1, SafeHeadIsDerived
      <4> QED
        BY <4>1
    <3>2. est.pc = "collect" /\ est' = [est EXCEPT !.from = est.from + 1, !.safe = est.safe \cup {len}]
      BY <2>2 DEF Collect
    <3> HIDE DEF len
    <3>3. est' = [est EXCEPT !.pc = "collect", !.from = est.from + 1, !.safe = est.safe \cup {len}]
      BY <3>2
    <3>4. est.from + 1 \in Nat /\ est.safe \cup {len} \in SUBSET Nat
      BY <1>1, <3>1
    <3> QED
      BY <3>2, <3>3, <3>4
  <2> QED
    BY <2>1, <2>2
<1>3. /\ DOMAIN est' = DOMAIN est /\ est'.pc = pc /\ est'.cfg = est.cfg /\ est'.then = est.then
      /\ est'.start = est.start /\ est'.end = est.end /\ est'.from = n /\ est'.safe = safe
  BY <1>1, <1>2 DEF DraftOK
<1>4. ReportIsComplete' /\ ~HasRanges'
  BY <1>2, <1>3 DEF ReportIsComplete, HasRanges, Searching
<1> QED
  BY <1>1, <1>2, <1>3, <1>4 DEF DraftOK

(* The sum in the report is that of a cut that goes all the way.           *)
LEMMA DraftReported ==
    ASSUME ReportInv, est.pc # "failed", ExecuteBlocks
    PROVE  DraftOK'
<1>1. DraftOK /\ est.pc = "heads"
  BY DEF ReportInv, ExecuteBlocks
<1>2. CASE Fail
  BY <1>2, DraftFails
<1>3. CASE /\ Step("reported")
           /\ cfg.logOnly \/ ExecutedBlocks(est.ranges) = est.end - est.start
  <2>1. est' = [est EXCEPT !.pc = "reported"]
    BY <1>3 DEF Step
  <2>2. /\ DOMAIN est' = DOMAIN est /\ est'.pc = "reported" /\ est'.cfg = est.cfg /\ est'.then = est.then
        /\ est'.start = est.start /\ est'.end = est.end /\ est'.from = est.from
        /\ est'.safe = est.safe /\ est'.ranges = est.ranges
    BY <1>1, <2>1 DEF DraftOK
  <2>3. est.start \in Nat /\ est.end \in Nat
    BY <1>1 DEF DraftOK
  <2>4. PICK c \in est.start .. est.end : Cuts(est.ranges, est.start, c, cfg.batch)
    BY <1>1 DEF DraftOK, HasRanges
  <2>5. cfg.logOnly \/ Complete
    <3> SUFFICES ASSUME ~cfg.logOnly PROVE Complete
      OBVIOUS
    <3>1. ExecutedBlocks(est.ranges) = c - est.start /\ c \in Nat
      BY <2>3, <2>4, CutsAddUp
    <3>2. c = est.end
      BY <1>3, <2>3, <3>1
    <3>3. Contiguous(est.ranges, est.start, est.end)
      BY <2>4, <3>2, CutsAreContiguous
    <3>4. est.ranges # <<>> \/ est.start = est.end
      BY <2>4, <3>2 DEF Cuts
    <3> QED
      BY <3>3, <3>4 DEF Complete
  <2>6. ReportIsComplete' /\ ~HasRanges'
    BY <2>2, <2>5 DEF ReportIsComplete, HasRanges, Searching, Complete, Contiguous, cfg
  <2> QED
    BY <1>1, <2>2, <2>6 DEF DraftOK
<1> QED
  BY <1>2, <1>3 DEF ExecuteBlocks

(* Steps that only go on.                                                  *)
LEMMA DraftGoesOn ==
    ASSUME ReportInv, est.pc # "failed",
           \/ ValidateL1Selection \/ ResolveLimit \/ SearchFrom \/ Probe \/ SearchEnds \/ SearchFails
           \/ EstimateL1Head \/ CollectUpTo \/ CalculateSafeL1Head \/ CapL1Head \/ EstimatorReadFails
    PROVE  DraftOK'
<1>0. DraftOK
  BY DEF ReportInv
<1>1. CASE Fail
  BY <1>1, DraftFails
<1>2. CASE ResolveLimit
  <2>1. est' = [est EXCEPT !.pc = "range", !.low = Selected] /\ est.pc = "limit"
    BY <1>2 DEF ResolveLimit
  <2>2. Selected \in Nat
    BY <1>0, SelectedFacts, Heights DEF ReportInv, DraftOK
  <2>3. /\ DOMAIN est' = DOMAIN est /\ est'.pc = "range" /\ est'.cfg = est.cfg /\ est'.then = est.then
        /\ est'.start = est.start /\ est'.end = est.end /\ est'.from = est.from
        /\ est'.safe = est.safe /\ est'.low = Selected
    BY <1>0, <2>1 DEF DraftOK
  <2>4. ReportIsComplete' /\ ~HasRanges'
    BY <2>3 DEF ReportIsComplete, HasRanges, Searching
  <2> QED
    BY <1>0, <2>1, <2>2, <2>3, <2>4 DEF DraftOK
<1>3. CASE ValidateL1Selection /\ ~Fail
  <2>1. est' = [est EXCEPT !.pc = "limit"] /\ est.pc = "start"
    BY <1>3 DEF ValidateL1Selection, Step
  <2>2. /\ DOMAIN est' = DOMAIN est /\ est'.pc = "limit" /\ est'.cfg = est.cfg /\ est'.then = est.then
        /\ est'.start = est.start /\ est'.end = est.end /\ est'.from = est.from
        /\ est'.safe = est.safe /\ est'.ranges = est.ranges
        /\ est'.then \in {"none", "collect", "cap"}
    BY <1>0, <2>1 DEF DraftOK
  <2>3. ~HasRanges'
    BY <2>2 DEF HasRanges, Searching
  <2> QED
    BY <1>0, <2>1, <2>2, <2>3, DraftKept
<1>4. ASSUME NEW m, NEW then \in {"collect", "cap"}, StartSearch(m, then),
             est.pc = "heads" \/ (est.pc = "upto" /\ then = "collect")
      PROVE  DraftOK'
  <2>1. est' = [est EXCEPT !.pc = "bound", !.goal = m, !.then = then,
                           !.low = 0, !.high = Selected, !.found = NoBlock]
    BY <1>4 DEF StartSearch
  <2>2. /\ DOMAIN est' = DOMAIN est /\ est'.pc = "bound" /\ est'.cfg = est.cfg /\ est'.then = then
        /\ est'.start = est.start /\ est'.end = est.end /\ est'.from = est.from
        /\ est'.safe = est.safe /\ est'.ranges = est.ranges
    BY <1>0, <1>4, <2>1 DEF DraftOK
  <2>3. HasRanges' => HasRanges
    BY <1>4, <2>2 DEF HasRanges, Searching
  <2> QED
    BY <1>0, <1>4, <2>2, <2>3, DraftKept
<1>5. CASE SearchFrom \/ Probe
  <2>1. est.pc \in {"bound", "search"}
    BY <1>5 DEF SearchFrom, Probe
  <2>2. /\ DOMAIN est' = DOMAIN est /\ est'.pc = "search" /\ est'.cfg = est.cfg /\ est'.then = est.then
        /\ est'.start = est.start /\ est'.end = est.end /\ est'.from = est.from
        /\ est'.safe = est.safe /\ est'.ranges = est.ranges
    <3>1. CASE SearchFrom
      <4>1. est' = [est EXCEPT !.pc = "search", !.low = Origin(est.goal)]
        BY <3>1 DEF SearchFrom
      <4> QED
        BY <1>0, <2>1, <4>1 DEF DraftOK
    <3>2. CASE Probe
      <4> DEFINE mid == est.low + (est.high - est.low) \div 2
                 n == SafeHeadAt(mid).l1[1]
      <4>1. /\ est.pc = "search"
            /\ \/ est' = [est EXCEPT !.found = n, !.high = mid - 1]
               \/ est' = [est EXCEPT !.low = mid + 1]
        BY <3>2 DEF Probe
      <4> HIDE DEF mid, n
      <4> QED
        BY <1>0, <2>1, <4>1 DEF DraftOK
    <3> QED
      BY <1>5, <3>1, <3>2
  <2>3. (HasRanges' => HasRanges) /\ est'.then \in {"none", "collect", "cap"}
    BY <1>0, <2>1, <2>2 DEF HasRanges, Searching, DraftOK
  <2> QED
    BY <1>0, <2>1, <2>2, <2>3, DraftKept
<1>6. CASE SearchEnds
  <2>1. /\ est.pc = "search"
        /\ est' = [est EXCEPT !.pc = est.then, !.goal = 0, !.low = 0, !.high = 0]
    BY <1>6 DEF SearchEnds
  <2>2. /\ DOMAIN est' = DOMAIN est /\ est'.pc = est.then /\ est'.cfg = est.cfg /\ est'.then = est.then
        /\ est'.start = est.start /\ est'.end = est.end /\ est'.from = est.from
        /\ est'.safe = est.safe /\ est'.ranges = est.ranges
        /\ est'.then \in {"none", "collect", "cap"}
    BY <1>0, <2>1 DEF DraftOK
  <2>3. HasRanges' => HasRanges
    BY <2>1, <2>2 DEF HasRanges, Searching
  <2> QED
    BY <1>0, <2>1, <2>2, <2>3, DraftKept
<1>7. CASE SearchFails /\ ~Fail
  <2>1. /\ est.pc \in {"bound", "search"} /\ est.then = "cap"
        /\ est' = [est EXCEPT !.pc = "estimate"]
    BY <1>7 DEF SearchFails, Step
  <2>2. /\ DOMAIN est' = DOMAIN est /\ est'.pc = "estimate" /\ est'.cfg = est.cfg /\ est'.then = est.then
        /\ est'.start = est.start /\ est'.end = est.end /\ est'.from = est.from
        /\ est'.safe = est.safe /\ est'.ranges = est.ranges
        /\ est'.then \in {"none", "collect", "cap"}
    BY <1>0, <2>1 DEF DraftOK
  <2>3. HasRanges
    BY <2>1 DEF HasRanges, Searching
  <2> QED
    BY <1>0, <2>1, <2>2, <2>3, DraftKept
<1>8. CASE EstimateL1Head \/ CapL1Head
  <2>1. est.pc \in {"estimate", "cap"}
    BY <1>8 DEF EstimateL1Head, CapL1Head
  <2>2. /\ DOMAIN est' = DOMAIN est /\ est'.pc \in {"cap", "heads"} /\ est'.cfg = est.cfg /\ est'.then = est.then
        /\ est'.start = est.start /\ est'.end = est.end /\ est'.from = est.from
        /\ est'.safe = est.safe /\ est'.ranges = est.ranges
    <3>1. CASE EstimateL1Head
      <4> DEFINE n == FindBlockByTimestamp(Min({L2Time(est.goal) + PostDelay, L1Time(Selected)}), Selected)
      <4>1. est' = [est EXCEPT !.pc = "cap", !.guessed = TRUE, !.found = n]
        BY <3>1 DEF EstimateL1Head
      <4> HIDE DEF n
      <4> QED
        BY <1>0, <2>1, <4>1 DEF DraftOK
    <3>2. CASE CapL1Head
      <4> DEFINE b == L1BlockAt(Capped(est.found))
      <4>1. est' = [est EXCEPT !.pc = "heads", !.found = NoBlock, !.goal = 0, !.heads = Append(@, b)]
        BY <3>2 DEF CapL1Head
      <4> HIDE DEF b
      <4> QED
        BY <1>0, <2>1, <4>1 DEF DraftOK
    <3> QED
      BY <1>8, <3>1, <3>2
  <2>3. HasRanges /\ est'.then \in {"none", "collect", "cap"}
    BY <1>0, <2>1, <2>2 DEF HasRanges, DraftOK
  <2> QED
    BY <1>0, <2>1, <2>2, <2>3, DraftKept
<1>9. CASE CollectUpTo
  BY <1>4, <1>9 DEF CollectUpTo
<1>10. CASE CalculateSafeL1Head
  BY <1>4, <1>10 DEF CalculateSafeL1Head
<1> QED
  BY <1>1, <1>2, <1>3, <1>5, <1>6, <1>7, <1>8, <1>9, <1>10 DEF EstimatorReadFails

(* Spec => []ReportIsComplete: whatever L1 and the op-node do between the  *)
(* reads, resets and reorganizations included, a report that               *)
(* cost_estimator.rs writes is about the whole range, each block once.  A  *)
(* plan that the safe heads cut short is a cut up to an earlier block, and *)
(* its sum is too small.                                                   *)
THEOREM ReportsAreComplete == Spec => []ReportIsComplete
<1>1. Init => ReportInv
  <2> SUFFICES ASSUME Init PROVE ReportInv
    OBVIOUS
  <2>1. NodesOK /\ l1.fin <= l1.tip
    BY NodesStart, Heights DEF Init, NodesInit
  <2>2. PICK c \in Settings :
          est = [cfg |-> c, pc |-> "start", then |-> "none", start |-> 0, end |-> 0, goal |-> 0,
                 low |-> 0, high |-> 0, found |-> NoBlock, from |-> 0, guessed |-> FALSE, safe |-> {},
                 ranges |-> <<>>, heads |-> <<>>]
    BY DEF Init, EstimatorInit
  <2>3. DraftOK
    BY <2>2 DEF DraftOK, ReportIsComplete, HasRanges, Searching
  <2> QED
    BY <2>1, <2>3 DEF ReportInv
<1>2. ReportInv /\ [Next]_vars => ReportInv'
  <2> SUFFICES ASSUME ReportInv, [Next]_vars PROVE ReportInv'
    OBVIOUS
  <2>1. CASE NodesMove
    <3>1. NodesOK' /\ l1'.fin <= l1'.tip /\ est' = est
      BY <2>1, CalmStep DEF ReportInv, NodesMove, NodesStep
    <3>2. DraftOK'
      BY <3>1 DEF ReportInv, DraftOK, ReportIsComplete, Complete, Contiguous, HasRanges, Searching, cfg
    <3> QED
      BY <3>1, <3>2 DEF ReportInv
  <2>2. CASE EstimatorActs
    <3>1. NodesOK' /\ l1'.fin <= l1'.tip
      BY <2>2 DEF ReportInv, NodesOK, EstimatorActs, nodeVars
    <3>2. EstimatorNext /\ est.pc # "failed"
      BY <2>2 DEF EstimatorActs, EstimatorNext, ValidateL1Selection, ResolveLimit, PickRange, Split,
         SearchFrom, Probe, SearchEnds, SearchFails, EstimateL1Head, CollectFrom, CollectUpTo, Collect,
         Collected, CalculateSafeL1Head, CapL1Head, ExecuteBlocks, EstimatorReadFails
    <3>3. DraftOK'
      BY <3>2, DraftPicked, DraftSplit, DraftCollects, DraftReported, DraftGoesOn DEF EstimatorNext
    <3> QED
      BY <3>1, <3>3 DEF ReportInv
  <2>3. CASE UNCHANGED <<nodeVars, est>>
    <3>1. NodesOK' /\ l1'.fin <= l1'.tip /\ est' = est
      BY <2>3 DEF ReportInv, NodesOK, nodeVars
    <3>2. DraftOK'
      BY <3>1 DEF ReportInv, DraftOK, ReportIsComplete, Complete, Contiguous, HasRanges, Searching, cfg
    <3> QED
      BY <3>1, <3>2 DEF ReportInv
  <2> QED
    BY <2>1, <2>2, <2>3 DEF Next, ValidatorActs, ProverActs, vars
<1>3. ReportInv => ReportIsComplete
  <2> SUFFICES ASSUME ReportInv, est.pc = "reported" PROVE ReportIsComplete
    BY DEF ReportIsComplete
  <2> QED
    BY DEF ReportInv, DraftOK
<1> QED
  BY <1>1, <1>2, <1>3, PTL DEF Spec
=============================================================================
