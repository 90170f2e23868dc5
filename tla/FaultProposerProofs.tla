------------------------ MODULE FaultProposerProofs ------------------------
(***************************************************************************)
(* Proofs about the proposer agent of FaultProposer, for every             *)
(* interleaving of its loop and tasks with everybody else's transactions,  *)
(* every pattern of faults, restarts and late transactions, and any number *)
(* of games.                                                               *)
(***************************************************************************)
EXTENDS MCPacedProposer, FaultDisputeGameProofs, FiniteSetTheorems

(* Games point back in the list.                                           *)
PointsBack(list) == Len(list) \in Nat /\ \A i \in 1..Len(list) : list[i].parent \in 0..(i - 1)

(* The equation behind Descendants, for n games.                           *)
HangsOn(f, list, n, root, cached) ==
    \A i \in 1..n :
        f[i] = (i = root \/ (i \in cached /\ list[i].parent # NoParent /\ f[list[i].parent]))

LEMMA HangsOnDefined ==
    ASSUME NEW list, NEW n \in Nat, \A i \in 1..n : list[i].parent \in 0..(i - 1),
           NEW root, NEW cached
    PROVE  \E f : f = [i \in 1..n |-> f[i]] /\ HangsOn(f, list, n, root, cached)
<1> DEFINE Stop == {i \in 1..n : i = root \/ i \notin cached \/ list[i].parent = NoParent}
           val == [i \in 1..n |-> IF i = root THEN "yes" ELSE "no"]
           go == [i \in 1..n |-> list[i].parent]
           size == [i \in 1..n |-> i]
<1>1. /\ \A i \in 1..n : size[i] \in Nat /\ size[i] < n + 1
      /\ n + 1 \in Nat
  OBVIOUS
<1>2. ASSUME NEW i \in (1..n) \ Stop PROVE go[i] \in 1..n /\ size[go[i]] < size[i]
  <2>1. list[i].parent \in 0..(i - 1) /\ list[i].parent # 0
    BY <1>2 DEF NoParent
  <2> QED
    BY <2>1
<1>3. PICK f : Descends(f, 1..n, Stop, val, go)
  <2> HIDE DEF Stop, val, go, size
  <2> QED
    BY <1>1, <1>2, DescentExists
<1> DEFINE h == [i \in 1..n |-> f[i] = "yes"]
<1>4. \A i \in 1..n : i \in Stop => (h[i] <=> i = root)
  BY <1>3 DEF Descends
<1>5. \A i \in (1..n) \ Stop : h[i] <=> h[list[i].parent]
  BY <1>2, <1>3 DEF Descends
<1>6. \A i \in 1..n : h[i] \in BOOLEAN
  OBVIOUS
<1>7. ASSUME NEW i \in 1..n
      PROVE  h[i] = (i = root \/ (i \in cached /\ list[i].parent # NoParent /\ h[list[i].parent]))
  <2> HIDE DEF h
  <2>1. CASE i \in Stop
    BY <1>4, <1>6, <2>1
  <2>2. CASE i \notin Stop
    BY <1>5, <1>6, <2>2
  <2> QED
    BY <2>1, <2>2
<1>8. h = [i \in 1..n |-> h[i]]
  OBVIOUS
<1> HIDE DEF h
<1> QED
  BY <1>7, <1>8, Zenon DEF HangsOn

(* Descendants over a given list.                                          *)
DescendantsIn(list, root, cached) ==
    LET below[i \in 1..Len(list)] ==
            \/ i = root
            \/ i \in cached /\ list[i].parent # NoParent /\ below[list[i].parent]
    IN  {i \in 1..Len(list) : below[i]}

(* A game is a descendant if it is the root, or cached with a parent that  *)
(* is one.                                                                 *)
LEMMA DescendantsRule ==
    ASSUME NEW list, PointsBack(list), NEW root, NEW cached,
           NEW i \in 1..Len(list)
    PROVE  LET D == DescendantsIn(list, root, cached) IN
           i \in D <=> \/ i = root
                       \/ i \in cached /\ list[i].parent # NoParent /\ list[i].parent \in D
<1> DEFINE n == Len(list)
           B(j, f) == \/ j = root
                      \/ j \in cached /\ list[j].parent # NoParent /\ f[list[j].parent]
           below == CHOOSE f : f = [j \in 1..n |-> B(j, f)]
           D == DescendantsIn(list, root, cached)
<1>1. D = {j \in 1..n : below[j]}
  BY Zenon DEF DescendantsIn
<1>2. PICK f : f = [j \in 1..n |-> f[j]] /\ HangsOn(f, list, n, root, cached)
  BY HangsOnDefined, Zenon DEF PointsBack
<1>3. \A j \in 1..n : f[j] = B(j, f)
  BY <1>2, Zenon DEF HangsOn
<1>4. below = [j \in 1..n |-> B(j, below)]
  <2> HIDE DEF B, n
  <2>1. f = [j \in 1..n |-> B(j, f)]
    BY <1>2, <1>3
  <2> QED
    BY <2>1, Zenon
<1>5. \A j \in 1..n : below[j] = B(j, below)
  <2> HIDE DEF B, n, below
  <2> QED
    BY <1>4
<1> HIDE DEF below, D
<1>6. list[i].parent # NoParent => list[i].parent \in 1..n
  BY DEF PointsBack, NoParent
<1>7. \A j \in 1..n : j \in D <=> below[j]
  BY <1>1, Zenon
<1>8. i \in D <=> B(i, below)
  BY <1>5, <1>7, Zenon
<1>9. i \in D <=> \/ i = root
                  \/ i \in cached /\ list[i].parent # NoParent /\ list[i].parent \in D
  BY <1>6, <1>7, <1>8, Zenon
<1> QED
  BY <1>9, Zenon DEF D

(* A longer list and a larger cache have no fewer descendants.             *)
LEMMA DescendantsGrow ==
    ASSUME NEW list, PointsBack(list), NEW more, PointsBack(more), Len(list) <= Len(more),
           \A j \in 1..Len(list) : more[j].parent = list[j].parent,
           NEW root, NEW cached, NEW wider, cached \subseteq wider
    PROVE  DescendantsIn(list, root, cached) \subseteq DescendantsIn(more, root, wider)
<1> DEFINE D == DescendantsIn(list, root, cached)
           E == DescendantsIn(more, root, wider)
           T == D \ E
<1>0. Len(list) \in Nat /\ Len(more) \in Nat /\ D \subseteq 1..Len(list)
  BY DEF PointsBack, DescendantsIn
<1> SUFFICES ASSUME T # {} PROVE FALSE
  OBVIOUS
<1>1. PICK x \in T : \A y \in T : x <= y
  <2>1. T \in SUBSET Nat
    BY <1>0
  <2> HIDE DEF T
  <2> QED
    BY <2>1, LeastNatural
<1>2. x \in 1..Len(list) /\ x \in 1..Len(more) /\ x \in D /\ x \notin E
  BY <1>0, <1>1
<1>3. more[x].parent = list[x].parent /\ list[x].parent \in 0..(x - 1)
  BY <1>2 DEF PointsBack
<1>4. x \in E <=> \/ x = root
                  \/ x \in wider /\ more[x].parent # NoParent /\ more[x].parent \in E
  BY <1>2, DescendantsRule
<1>5. x \in D <=> \/ x = root
                  \/ x \in cached /\ list[x].parent # NoParent /\ list[x].parent \in D
  BY <1>2, DescendantsRule
<1> HIDE DEF D, E
<1>6. list[x].parent \in D /\ list[x].parent \notin E
  BY <1>2, <1>3, <1>4, <1>5
<1>7. x <= list[x].parent
  BY <1>1, <1>6
<1> QED
  BY <1>2, <1>3, <1>7

(* What hangs on a game that did not win has not won either.               *)
LEMMA NoneBelowWins ==
    ASSUME NEW list, PointsBack(list),
           \A i \in 1..Len(list) : list[i].status = "DEFENDER_WINS" /\ list[i].parent # NoParent =>
                                       list[list[i].parent].status = "DEFENDER_WINS",
           NEW root, list[root].status # "DEFENDER_WINS", NEW cached,
           NEW i \in DescendantsIn(list, root, cached)
    PROVE  list[i].status # "DEFENDER_WINS"
<1> DEFINE D == DescendantsIn(list, root, cached)
           T == {x \in D : list[x].status = "DEFENDER_WINS"}
<1>0. D \subseteq 1..Len(list) /\ Len(list) \in Nat
  BY DEF PointsBack, DescendantsIn
<1> SUFFICES ASSUME T # {} PROVE FALSE
  OBVIOUS
<1>1. PICK x \in T : \A y \in T : x <= y
  <2>1. T \in SUBSET Nat
    BY <1>0
  <2> HIDE DEF T
  <2> QED
    BY <2>1, LeastNatural
<1>2. x \in 1..Len(list) /\ x \in D /\ x # root /\ list[x].status = "DEFENDER_WINS"
  BY <1>0, <1>1
<1>3. list[x].parent \in 0..(x - 1)
  BY <1>2 DEF PointsBack
<1>4. x \in D <=> \/ x = root
                  \/ x \in cached /\ list[x].parent # NoParent /\ list[x].parent \in D
  BY <1>2, DescendantsRule
<1> HIDE DEF D
<1>5. list[x].parent \in T
  BY <1>2, <1>4
<1>6. x <= list[x].parent
  BY <1>1, <1>5
<1> QED
  BY <1>2, <1>3, <1>6

LEMMA DescendantsAre ==
    \A root, cached : Descendants(root, cached) = DescendantsIn(games, root, cached)
BY Zenon DEF Descendants, DescendantsIn, Indices
-----------------------------------------------------------------------------
(* The latest deadline a game can have.                                    *)
Horizon == now + MaxChallengeDuration + MaxProveDuration

(* The confirmed block is a past of the head, and all the agent remembers  *)
(* is about games of that block.                                           *)
MemoryOK ==
    /\ pinned.games \in Seq(Game) /\ Len(pinned.games) <= Len(games)
    /\ \A i \in PinnedIndices : /\ Later(pinned.games[i], games[i])
                                /\ pinned.games[i].createdAt <= pinned.games[i].deadline
                                /\ pinned.games[i].deadline <= Horizon
    /\ pinned.anchor \in {NoParent} \union PinnedIndices
    /\ pinned.anchor # NoParent => pinned.games[pinned.anchor].status = "DEFENDER_WINS"
    /\ cursor \in 0..Len(pinned.games)
    /\ DOMAIN tracked \subseteq PinnedIndices
    /\ \A i \in DOMAIN tracked : /\ tracked[i] \in Nat
                                 /\ pinned.games[i].createdAt <= tracked[i]
                                 /\ tracked[i] <= Horizon
    /\ head \in {NoParent} \union PinnedIndices
    /\ headBlock \in Nat /\ l2Head \in 0..MaxBlock

Task == [stage : {"none", "check", "sent", "mined"}, parent : Nat, block : Nat, index : Nat]

Tx == [index : Nat, parent : Nat, block : Nat]

(* Tasks and transactions are about games that exist and blocks that may   *)
(* be proposed.                                                            *)
TasksOK ==
    /\ creation \in Task
    /\ creation.parent \in {NoParent} \union Indices
    /\ creation.stage # "none" => creation.block >= 1
    /\ creation.stage = "sent" => creation.block <= MaxBlock
    /\ \A task \in proving : task[1] \in Indices
    /\ pending \in [Kinds -> SUBSET Indices]
    /\ \A tx \in mempool : /\ tx \in Tx /\ tx.index \in {0} \union Indices
                           /\ tx.index = 0 => /\ tx.parent \in {NoParent} \union Indices
                                              /\ tx.block \in 1..MaxBlock

(* The agent has nothing to expect of a game, now or later, or cannot get  *)
(* at it.                                                                  *)
Gone(i) ==
    \/ ~ValidGame(games[i])
    \/ \E j \in Ancestors(i) : games[j].status = "CHALLENGER_WINS"
    \/ PaidOut(i)
    \/ OutOfReach(i)

(* Games the agent has passed and does not have in its cache are gone.     *)
Remembered == ~Rebuilding => \A i \in 1..cursor : i \notin DOMAIN tracked => Gone(i)

ProposerInv == OrderInv /\ DeadlinesOK /\ MemoryOK /\ TasksOK /\ Remembered
-----------------------------------------------------------------------------
(* Whatever the agent and everybody else do is a step of the contracts.    *)
LEMMA StepOfGames ==
    ASSUME ProposerInv, [ProposerNext]_allVars
    PROVE  [Next]_vars
<1>0. /\ Self \in Actors /\ Others \subseteq Actors /\ "canonical" \in Roots
      /\ Self \in Addresses
  BY ProposerAssumption DEF Others, Roots, Addresses
<1>1. CASE World \/ Clock
  BY <1>0, <1>1 DEF World, Clock, Next
<1>2. CASE Confirm \/ L2Advances \/ Loop \/ CreateSend \/ CreateFails \/ Register
           \/ SaveEnds \/ Restart \/ UNCHANGED allVars
  BY <1>2 DEF Confirm, L2Advances, Loop, SyncState, SyncUnchanged, Spawn, CreateSend, CreateFails,
     Register, SaveEnds, Restart, allVars
<1>3. CASE CreateMined
  <2>1. creation.block \in 1..MaxBlock /\ creation.parent \in {NoParent} \union Indices
    BY <1>3, FactoryAssumption DEF CreateMined, ProposerInv, TasksOK, Task
  <2>2. Create(Self, creation.parent, creation.block, "canonical")
    BY <1>3 DEF CreateMined
  <2> QED
    BY <1>0, <2>1, <2>2 DEF Next
<1>4. ASSUME NEW task \in proving, ProveSucceeds(task) \/ ProveFails(task)
      PROVE  [Next]_vars
  <2>1. task[1] \in Indices
    BY DEF ProposerInv, TasksOK
  <2>2. Prove(task[1], Self) \/ UNCHANGED vars
    BY <1>4 DEF ProveSucceeds, ProveFails
  <2> QED
    BY <1>0, <2>1, <2>2 DEF Next
<1>5. ASSUME NEW k \in Kinds, NEW i \in pending[k], Attempt(k, i) \/ PassOver(k, i)
      PROVE  [Next]_vars
  <2>1. i \in Indices
    BY DEF ProposerInv, TasksOK
  <2>2. Resolve(i) \/ CloseGame(i) \/ ClaimCredit(i, Self) \/ UNCHANGED vars
    BY <1>5 DEF Attempt, PassOver
  <2> QED
    BY <1>0, <2>1, <2>2 DEF Next
<1>6. ASSUME NEW tx \in mempool, LandsLate(tx)
      PROVE  [Next]_vars
  <2>1. /\ tx.index \in {0} \union Indices
        /\ tx.index = 0 => tx.parent \in {NoParent} \union Indices /\ tx.block \in 1..MaxBlock
    BY DEF ProposerInv, TasksOK
  <2>2. \/ UNCHANGED vars
        \/ tx.index = 0 /\ Create(Self, tx.parent, tx.block, "canonical")
        \/ tx.index # 0 /\ Prove(tx.index, Self)
    BY <1>6 DEF LandsLate
  <2> QED
    BY <1>0, <2>1, <2>2 DEF Next
<1> QED
  BY <1>1, <1>2, <1>3, <1>4, <1>5, <1>6 DEF ProposerNext, CreationStep, TaskStep

LEMMA GamesPointBack ==
    ASSUME ChainInv PROVE PointsBack(games)
BY GamesTyped DEF ChainInv, ParentOK, PointsBack, Indices

LEMMA GamesWillPointBack ==
    ASSUME ChainInv, [Next]_vars PROVE PointsBack(games')
<1>1. games' \in Seq(Game) /\ \A j \in Indices' : ParentOK(j)'
  BY ChainInvStep DEF ChainInv, BondInv, TypeOK
<1> QED
  BY <1>1, LenProperties DEF PointsBack, ParentOK, Indices

(* Ancestors stay ancestors.                                               *)
LEMMA AncestorsStay ==
    ASSUME OrderInv, [Next]_vars, NEW i \in Indices
    PROVE  Ancestors(i) \subseteq Ancestors(i)'
<1> SUFFICES ASSUME NEW j \in Indices, i \in Descendants(j, Indices)
             PROVE  j \in Indices' /\ i \in Descendants(j, Indices)'
  BY DEF Ancestors
<1>1. /\ Len(games') >= Len(games)
      /\ \A k \in Indices : k \in Indices' /\ Fixed(games'[k]) = Fixed(games[k])
  BY StepAges DEF Later
<1>2. PointsBack(games) /\ PointsBack(games')
  BY GamesPointBack, GamesWillPointBack DEF OrderInv
<1>3. \A k \in 1..Len(games) : games'[k].parent = games[k].parent
  BY <1>1 DEF Fixed, Indices
<1>4. Len(games) <= Len(games') /\ Indices \subseteq Indices'
  BY <1>1, <1>2 DEF PointsBack
<1>5. DescendantsIn(games, j, Indices) \subseteq DescendantsIn(games', j, Indices')
  BY <1>2, <1>3, <1>4, DescendantsGrow
<1>6. Descendants(j, Indices)' = DescendantsIn(games', j, Indices')
  BY Zenon DEF Descendants, DescendantsIn, Indices
<1> QED
  BY <1>1, <1>5, <1>6, DescendantsAre

(* What a step cannot undo about a game.                                   *)
LEMMA VerdictsStay ==
    ASSUME OrderInv, [Next]_vars
    PROVE  \A j \in Indices :
              /\ j \in Indices' /\ Later(games[j], games'[j])
              /\ ValidGame(games'[j]) <=> ValidGame(games[j])
              /\ Supported(games'[j]) <=> Supported(games[j])
              /\ games[j].status # "IN_PROGRESS" => games'[j].status = games[j].status
              /\ games'[j].createdAt = games[j].createdAt
<1>1. \A j \in Indices : j \in Indices' /\ Later(games[j], games'[j])
  BY StepAges
<1> QED
  BY <1>1 DEF Later, Fixed, ValidGame, Supported

LEMMA OutOfReachStays ==
    ASSUME OrderInv, [Next]_vars, NEW i \in Indices, OutOfReach(i)
    PROVE  OutOfReach(i)'
<1>0. /\ now \in Nat /\ now' \in Nat /\ now' >= now
      /\ MaxChallengeDuration \in Nat /\ MaxProveDuration \in Nat /\ MaxDeadlineLag \in Nat
      /\ games[i].createdAt \in Nat
  BY OrderInvStep, StepAges, GamesTyped, GameAssumption, ProposerAssumption
     DEF OrderInv, ChainInv, BondInv, TypeOK, Game
<1>1. Ancestors(i) \subseteq Ancestors(i)' /\ Ancestors(i) \subseteq Indices
  BY AncestorsStay DEF Ancestors
<1>2. ASSUME NEW j \in Ancestors(i), Supported(games[j]), ~ValidGame(games[j])
      PROVE  OutOfReach(i)'
  <2>1. j \in Ancestors(i)' /\ Supported(games'[j]) /\ ~ValidGame(games'[j])
    BY <1>1, <1>2, VerdictsStay
  <2> QED
    BY <2>1 DEF OutOfReach, Supported, ValidGame
<1>3. ASSUME NEW j \in Indices, j > i, ~Supported(games[j]), games[j].status = "DEFENDER_WINS"
      PROVE  OutOfReach(i)'
  <2>1. j \in Indices' /\ ~Supported(games'[j]) /\ games'[j].status = "DEFENDER_WINS"
    BY <1>3, VerdictsStay
  <2> QED
    BY <1>3, <2>1 DEF OutOfReach, Supported
<1>4. CASE now + MaxChallengeDuration + MaxProveDuration - games[i].createdAt > MaxDeadlineLag
  <2>1. games'[i].createdAt = games[i].createdAt
    BY VerdictsStay
  <2>2. now' + MaxChallengeDuration + MaxProveDuration - games'[i].createdAt > MaxDeadlineLag
    BY <1>0, <1>4, <2>1
  <2> QED
    BY <2>2 DEF OutOfReach
<1> QED
  BY <1>2, <1>3, <1>4 DEF OutOfReach

(* Credits only shrink: what is paid out at one time is so at any later.   *)
LEMMA PaidOutLater ==
    ASSUME NEW g, NEW h, Later(g, h),
           g.status = "DEFENDER_WINS", g.mode # "UNDECIDED", Credit(g, g.mode, Self) = 0
    PROVE  h.status = "DEFENDER_WINS" /\ h.mode # "UNDECIDED" /\ Credit(h, h.mode, Self) = 0
<1>0. Self \in Addresses
  BY ProposerAssumption DEF Addresses
<1>1. /\ h.status = "DEFENDER_WINS" /\ h.mode = g.mode
      /\ g.refund[Self] = 0 => h.refund[Self] = 0
      /\ g.normal[Self] = 0 => h.normal[Self] = 0
  BY <1>0 DEF Later
<1> QED
  BY <1>1 DEF Credit

LEMMA PaidOutStays ==
    ASSUME OrderInv, [Next]_vars, NEW i \in Indices, PaidOut(i)
    PROVE  PaidOut(i)'
<1>1. Later(games[i], games'[i])
  BY VerdictsStay
<1>2. /\ games'[i].status = "DEFENDER_WINS" /\ games'[i].mode # "UNDECIDED"
      /\ Credit(games'[i], games'[i].mode, Self) = 0
  BY <1>1, PaidOutLater DEF PaidOut
<1> QED
  BY <1>2 DEF PaidOut, Credit

(* What is gone stays gone.                                                *)
LEMMA GoneStays ==
    ASSUME OrderInv, [Next]_vars, NEW i \in Indices, Gone(i)
    PROVE  Gone(i)'
<1>1. CASE ~ValidGame(games[i])
  BY <1>1, VerdictsStay DEF Gone, ValidGame, Supported
<1>2. ASSUME NEW j \in Ancestors(i), games[j].status = "CHALLENGER_WINS" PROVE Gone(i)'
  <2>1. j \in Ancestors(i)' /\ j \in Indices
    BY AncestorsStay DEF Ancestors
  <2>2. games'[j].status = "CHALLENGER_WINS"
    BY <1>2, <2>1, VerdictsStay
  <2> QED
    BY <2>1, <2>2 DEF Gone
<1> QED
  BY <1>1, <1>2, PaidOutStays, OutOfReachStays DEF Gone
-----------------------------------------------------------------------------
(* Steps that leave the agent's memory alone.                              *)
LEMMA MemoryAges ==
    ASSUME ProposerInv, [Next]_vars,
           UNCHANGED <<pinned, cursor, tracked, head, headBlock, l2Head>>
    PROVE  MemoryOK'
<1>0. /\ now \in Nat /\ now' \in Nat /\ now' >= now /\ Len(games') >= Len(games)
      /\ MaxChallengeDuration \in Nat /\ MaxProveDuration \in Nat
      /\ Len(pinned.games) \in Nat /\ Len(games) \in Nat /\ Len(games') \in Nat
      /\ Len(pinned.games) <= Len(games)
  BY OrderInvStep, StepAges, GamesTyped, GameAssumption, LenProperties
     DEF ProposerInv, OrderInv, ChainInv, BondInv, TypeOK, MemoryOK
<1>1. Horizon \in Nat /\ Horizon' \in Nat /\ Horizon <= Horizon'
  <2>1. /\ Horizon = now + MaxChallengeDuration + MaxProveDuration
        /\ Horizon' = now' + MaxChallengeDuration + MaxProveDuration
    BY DEF Horizon
  <2>2. PICK t \in Nat, u \in Nat, c \in Nat, p \in Nat :
            t = now /\ u = now' /\ c = MaxChallengeDuration /\ p = MaxProveDuration
    BY <1>0
  <2>3. t <= u
    BY <1>0, <2>2
  <2>4. t + c + p \in Nat /\ u + c + p \in Nat /\ t + c + p <= u + c + p
    BY <2>3
  <2> QED
    BY <2>1, <2>2, <2>4
<1>2. \A i \in PinnedIndices : i \in Indices /\ pinned.games[i].deadline \in Nat
  <2> TAKE i \in PinnedIndices
  <2>1. i \in Indices
    BY <1>0 DEF PinnedIndices, Indices
  <2>2. pinned.games[i] \in Game
    BY ElementOfSeq DEF ProposerInv, MemoryOK, PinnedIndices
  <2> QED
    BY <2>1, <2>2 DEF Game
<1>3. ASSUME NEW i \in PinnedIndices
      PROVE  /\ Later(pinned.games[i], games'[i])
             /\ pinned.games[i].createdAt <= pinned.games[i].deadline
             /\ pinned.games[i].deadline <= Horizon'
  <2>1. Later(pinned.games[i], games[i]) /\ Later(games[i], games'[i])
    BY <1>2, StepAges DEF ProposerInv, MemoryOK
  <2>2. Later(pinned.games[i], games'[i])
    BY <2>1, LaterTransitive
  <2>3. pinned.games[i].deadline <= Horizon'
    BY <1>1, <1>2 DEF ProposerInv, MemoryOK
  <2> QED
    BY <2>2, <2>3 DEF ProposerInv, MemoryOK
<1>4. \A i \in DOMAIN tracked : /\ tracked[i] \in Nat
                                /\ pinned.games[i].createdAt <= tracked[i]
                                /\ tracked[i] <= Horizon'
  BY <1>1 DEF ProposerInv, MemoryOK
<1>5. Len(pinned.games) <= Len(games')
  BY <1>0
<1> QED
  BY <1>3, <1>4, <1>5 DEF ProposerInv, MemoryOK, PinnedIndices

LEMMA RememberedAges ==
    ASSUME ProposerInv, [Next]_vars, UNCHANGED <<cursor, tracked, synced>>
    PROVE  Remembered'
<1>1. Len(pinned.games) \in Nat /\ Len(games) \in Nat
  BY GamesTyped, LenProperties DEF ProposerInv, MemoryOK, OrderInv
<1>2. \A i \in 1..cursor : i \in Indices
  BY <1>1 DEF ProposerInv, MemoryOK, Indices
<1> SUFFICES ASSUME ~Rebuilding', NEW i \in 1..cursor', i \notin DOMAIN tracked'
             PROVE  Gone(i)'
  BY DEF Remembered
<1>3. i \in Indices /\ Gone(i)
  BY <1>2 DEF ProposerInv, Remembered, Rebuilding
<1> QED
  BY <1>3, GoneStays DEF ProposerInv

(* A new confirmed block.                                                  *)
LEMMA ConfirmKeeps ==
    ASSUME ProposerInv, Confirm
    PROVE  MemoryOK' /\ Remembered'
<1>0. /\ games \in Seq(Game) /\ Len(games) \in Nat /\ now \in Nat
      /\ anchorGame \in {NoParent} \union Indices
      /\ Len(pinned.games) \in Nat /\ Len(pinned.games) <= Len(games)
  BY GamesTyped, LenProperties DEF ProposerInv, MemoryOK, OrderInv, ChainInv, BondInv, TypeOK
<1>1. /\ pinned'.games = games /\ pinned'.anchor = anchorGame
      /\ UNCHANGED <<games, now, anchorGame, cursor, tracked, head, headBlock, l2Head, synced>>
      /\ UNCHANGED vars
  BY DEF Confirm, cache, vars, registryVars
<1>2. PinnedIndices' = Indices /\ PinnedIndices \subseteq Indices /\ Horizon' = Horizon
  BY <1>0, <1>1 DEF PinnedIndices, Indices, Horizon
<1>3. \A i \in Indices : /\ Later(games[i], games[i])
                         /\ games[i].createdAt <= games[i].deadline
                         /\ games[i].deadline <= Horizon
  BY LaterReflexive DEF ProposerInv, DeadlinesOK, Horizon
<1>4. anchorGame # NoParent => games[anchorGame].status = "DEFENDER_WINS"
  BY DEF ProposerInv, OrderInv, ChainInv, AnchorOK
<1>5. \A i \in DOMAIN tracked : /\ i \in Indices /\ tracked[i] \in Nat
                                /\ games[i].createdAt <= tracked[i] /\ tracked[i] <= Horizon
  <2> TAKE i \in DOMAIN tracked
  <2>1. i \in PinnedIndices
    BY DEF ProposerInv, MemoryOK
  <2>2. games[i].createdAt = pinned.games[i].createdAt
    BY <2>1 DEF ProposerInv, MemoryOK, Later, Fixed
  <2> QED
    BY <1>2, <2>1, <2>2 DEF ProposerInv, MemoryOK
<1>6. cursor \in 0..Len(games) /\ head \in {NoParent} \union Indices
  BY <1>0, <1>2 DEF ProposerInv, MemoryOK
<1>7. MemoryOK'
  BY <1>0, <1>1, <1>2, <1>3, <1>4, <1>5, <1>6 DEF ProposerInv, MemoryOK
<1> QED
  BY <1>1, <1>7, RememberedAges
-----------------------------------------------------------------------------
(* A pass of sync_state: which games it leaves out, and why.               *)

(* What the confirmed block tells about the head.                          *)
LEMMA PinnedFacts ==
    ASSUME ProposerInv
    PROVE  /\ Len(pinned.games) \in Nat /\ Len(games) \in Nat
           /\ Len(pinned.games) <= Len(games)
           /\ CursorBefore \in 0..Len(pinned.games)
           /\ CachedBefore \subseteq PinnedIndices
           /\ Scanned \subseteq PinnedIndices
           /\ Loaded \subseteq PinnedIndices
           /\ \A i \in PinnedIndices :
                 /\ i \in Indices /\ i # NoParent
                 /\ pinned.games[i] \in Game
                 /\ Later(pinned.games[i], games[i])
                 /\ Supported(games[i]) <=> Supported(pinned.games[i])
                 /\ ValidGame(games[i]) <=> ValidGame(pinned.games[i])
                 /\ games[i].createdAt = pinned.games[i].createdAt
<1>1. /\ Len(pinned.games) \in Nat /\ Len(games) \in Nat /\ Len(pinned.games) <= Len(games)
  BY GamesTyped, LenProperties DEF ProposerInv, MemoryOK, OrderInv
<1>2. CursorBefore \in 0..Len(pinned.games) /\ CachedBefore \subseteq PinnedIndices
  BY <1>1 DEF CursorBefore, CachedBefore, Rebuilt, ProposerInv, MemoryOK
<1>3. Scanned \subseteq PinnedIndices
  BY <1>1, <1>2 DEF Scanned, PinnedIndices
<1>4. Loaded \subseteq PinnedIndices
  BY <1>2, <1>3 DEF Loaded
<1>5. ASSUME NEW i \in PinnedIndices
      PROVE  /\ i \in Indices /\ i # NoParent
             /\ pinned.games[i] \in Game
             /\ Later(pinned.games[i], games[i])
             /\ Supported(games[i]) <=> Supported(pinned.games[i])
             /\ ValidGame(games[i]) <=> ValidGame(pinned.games[i])
             /\ games[i].createdAt = pinned.games[i].createdAt
  <2>1. i \in Indices /\ i # NoParent
    BY <1>1 DEF PinnedIndices, Indices, NoParent
  <2>2. pinned.games[i] \in Game /\ Later(pinned.games[i], games[i])
    BY ElementOfSeq DEF ProposerInv, MemoryOK, PinnedIndices
  <2> QED
    BY <2>1, <2>2 DEF Later, Fixed, Supported, ValidGame
<1> QED
  BY <1>1, <1>2, <1>3, <1>4, <1>5

LEMMA DeadlineBounds ==
    ASSUME ProposerInv, NEW i \in PinnedIndices
    PROVE  /\ DeadlineBefore(i) \in Nat /\ games[i].createdAt \in Nat
           /\ games[i].createdAt <= DeadlineBefore(i) /\ DeadlineBefore(i) <= Horizon
<1>1. pinned.games[i] \in Game /\ games[i].createdAt = pinned.games[i].createdAt
  BY PinnedFacts
<1>2. pinned.games[i].deadline \in Nat /\ pinned.games[i].createdAt \in Nat
  BY <1>1 DEF Game
<1> QED
  BY <1>1, <1>2 DEF DeadlineBefore, ProposerInv, MemoryOK

(* A scan stops early only above games that are out of reach.              *)
LEMMA BelowStopOutOfReach ==
    ASSUME ProposerInv, NEW i \in PinnedIndices, NEW j \in PinnedIndices, i < j, StopsScan(j)
    PROVE  OutOfReach(i)
<1> DEFINE a == pinned.anchor
<1>0. /\ i \in Indices /\ j \in Indices
      /\ Later(pinned.games[j], games[j])
      /\ Supported(games[j]) <=> Supported(pinned.games[j])
  BY PinnedFacts
<1>1. CASE ~Supported(pinned.games[j]) /\ j = a
  <2>1. pinned.games[j].status = "DEFENDER_WINS"
    BY <1>1, PinnedFacts DEF ProposerInv, MemoryOK
  <2>2. games[j].status = "DEFENDER_WINS"
    BY <1>0, <2>1 DEF Later
  <2> QED
    BY <1>0, <1>1, <2>2 DEF OutOfReach, PinnedIndices
<1>2. CASE /\ a # NoParent /\ j <= a
           /\ AbsDiff(DeadlineBefore(a), DeadlineBefore(j)) > MaxDeadlineLag
  <2>1. a \in PinnedIndices /\ a \in Indices
    BY <1>2, PinnedFacts DEF ProposerInv, MemoryOK
  <2>2. games[i].createdAt <= games[j].createdAt /\ games[j].createdAt <= games[a].createdAt
    BY <1>0, <1>2, <2>1 DEF ProposerInv, OrderInv, CreationOrdered, Indices
  <2>3. PICK d \in Nat, e \in Nat, H \in Nat, x \in Nat, y \in Nat, z \in Nat, L \in Nat :
            /\ d = DeadlineBefore(a) /\ e = DeadlineBefore(j) /\ H = Horizon
            /\ x = games[i].createdAt /\ y = games[j].createdAt /\ z = games[a].createdAt
            /\ L = MaxDeadlineLag
    <3>1. Horizon \in Nat
      BY GamesTyped, GameAssumption DEF Horizon, ProposerInv, OrderInv
    <3> QED
      BY <2>1, <3>1, DeadlineBounds, ProposerAssumption
  <2>4. y <= e /\ e <= H /\ z <= d /\ d <= H /\ x <= y /\ y <= z
    BY <2>1, <2>2, <2>3, DeadlineBounds
  <2>5. (IF d < e THEN e - d ELSE d - e) > L
    BY <1>2, <2>3 DEF AbsDiff
  <2>6. H - x > L
    BY <2>4, <2>5
  <2>7. Horizon - games[i].createdAt > MaxDeadlineLag
    BY <2>3, <2>6
  <2>8. now + MaxChallengeDuration + MaxProveDuration - games[i].createdAt > MaxDeadlineLag
    BY <2>3, <2>7, GamesTyped, GameAssumption DEF Horizon, ProposerInv, OrderInv
  <2> QED
    BY <2>8, Zenon DEF OutOfReach
<1> QED
  BY <1>1, <1>2 DEF StopsScan

(* Cached descendants are descendants.                                     *)
LEMMA CachedBelow ==
    ASSUME ProposerInv, NEW r \in Indices, NEW cached \in SUBSET Indices,
           NEW i \in Descendants(r, cached)
    PROVE  r \in Ancestors(i)
<1>1. PointsBack(games)
  BY GamesPointBack DEF ProposerInv, OrderInv
<1>2. Len(games) <= Len(games)
  BY <1>1 DEF PointsBack
<1>3. DescendantsIn(games, r, cached) \subseteq DescendantsIn(games, r, Indices)
  BY <1>1, <1>2, DescendantsGrow
<1> QED
  BY <1>3, DescendantsAre DEF Ancestors

(* A game that discovery leaves out was passed before, or is out of reach. *)
LEMMA UndiscoveredOutOfReach ==
    ASSUME ProposerInv, NEW i \in PinnedIndices, i \notin Discovered(Loaded), Supported(games[i])
    PROVE  OutOfReach(i) \/ (~Rebuilding /\ i \in 1..cursor /\ i \notin DOMAIN tracked)
<1>0. /\ Len(pinned.games) \in Nat /\ CursorBefore \in 0..Len(pinned.games)
      /\ Scanned \subseteq PinnedIndices /\ i \in Indices
      /\ ValidGame(games[i]) <=> ValidGame(pinned.games[i])
  BY PinnedFacts
<1>1. CASE i \in Scanned /\ ~ValidGame(pinned.games[i])
  <2>1. i \in Descendants(i, Indices)
    BY <1>0, DescendantsRule, DescendantsAre, GamesPointBack DEF ProposerInv, OrderInv, Indices
  <2> QED
    BY <1>0, <1>1, <2>1 DEF OutOfReach, Ancestors
<1>2. CASE i <= CursorBefore /\ i \notin CachedBefore
  BY <1>0, <1>2 DEF CursorBefore, CachedBefore, PinnedIndices
<1>3. CASE i > CursorBefore /\ i \notin Scanned
  <2>1. PICK j \in i + 1..Len(pinned.games) : StopsScan(j)
    BY <1>0, <1>3 DEF Scanned, PinnedIndices
  <2>2. j \in PinnedIndices /\ i < j
    BY <1>0 DEF PinnedIndices
  <2> QED
    BY <2>1, <2>2, BelowStopOutOfReach
<1>4. CASE i \in Loaded
  <2>1. PICK r \in Scanned : /\ Supported(pinned.games[r]) /\ ~ValidGame(pinned.games[r])
                             /\ i \in Descendants(r, Loaded)
    BY <1>4 DEF Discovered
  <2>2. r \in Indices /\ Supported(games[r]) /\ ~ValidGame(games[r]) /\ Loaded \subseteq Indices
    BY <2>1, PinnedFacts
  <2>3. r \in Ancestors(i)
    BY <2>1, <2>2, CachedBelow
  <2> QED
    BY <2>2, <2>3 DEF OutOfReach
<1>5. i \notin Loaded => i \notin CachedBefore /\ ~(i \in Scanned /\ ValidGame(pinned.games[i]))
  BY DEF Loaded
<1>6. i <= CursorBefore \/ i > CursorBefore
  BY <1>0 DEF PinnedIndices
<1> QED
  BY <1>1, <1>2, <1>3, <1>4, <1>5, <1>6

LEMMA UndiscoveredGone ==
    ASSUME ProposerInv, NEW i \in PinnedIndices, i \notin Discovered(Loaded)
    PROVE  Gone(i)
BY UndiscoveredOutOfReach DEF Gone, ValidGame, ProposerInv, Remembered

LEMMA SettledPaidOut ==
    ASSUME ProposerInv, NEW i \in PinnedIndices, Settled(i)
    PROVE  PaidOut(i)
<1>1. Later(pinned.games[i], games[i])
  BY PinnedFacts
<1> QED
  BY <1>1, PaidOutLater DEF Settled, Closed, PaidOut

LEMMA DroppedGone ==
    ASSUME ProposerInv, NEW cached \in SUBSET PinnedIndices, NEW i \in cached,
           i \in Lost(cached) \/ Settled(i)
    PROVE  Gone(i)
<1>0. cached \subseteq Indices
  BY PinnedFacts
<1>1. CASE i \in Lost(cached)
  <2>1. PICK r \in cached : /\ pinned.games[r].status = "CHALLENGER_WINS"
                            /\ i \in Descendants(r, cached)
    BY <1>1 DEF Lost
  <2>2. Later(pinned.games[r], games[r]) /\ r \in Indices
    BY <2>1, PinnedFacts
  <2>3. games[r].status = "CHALLENGER_WINS"
    BY <2>1, <2>2 DEF Later
  <2>4. r \in Ancestors(i)
    BY <1>0, <2>1, <2>2, CachedBelow
  <2> QED
    BY <2>3, <2>4 DEF Gone
<1>2. CASE Settled(i)
  BY <1>2, SettledPaidOut DEF Gone
<1> QED
  BY <1>1, <1>2

(* The head is a cached game.                                              *)
LEMMA HeadsAreCached ==
    ASSUME NEW cached, NEW anch, NEW h \in CanonicalHeads(cached, anch)
    PROVE  h \in cached
<1>1. \A S : Highest(S) \subseteq S
  BY DEF Highest
<1>2. CASE anch = NoParent
  BY <1>1, <1>2 DEF CanonicalHeads
<1>3. CASE anch # NoParent
  <2> DEFINE reachable == Descendants(anch, cached)
             Choice(a) == LET roots == CatchUpRoots(a, cached, reachable) IN
                          IF roots = {} THEN {a}
                          ELSE Highest(cached \intersect
                                       UNION {Descendants(r, cached) : r \in roots})
  <2>1. PICK a \in Highest(cached \intersect reachable) : h \in Choice(a)
    BY <1>3, Zenon DEF CanonicalHeads
  <2>2. a \in cached
    BY <1>1
  <2>3. h = a \/ h \in Highest(cached \intersect
                       UNION {Descendants(r, cached) : r \in CatchUpRoots(a, cached, reachable)})
    BY <2>1, Zenon
  <2> QED
    BY <1>1, <2>2, <2>3
<1> QED
  BY <1>2, <1>3

(* A pass of sync_state, complete or broken off.                           *)
LEMMA SyncKeeps ==
    ASSUME ProposerInv, NEW n \in DOMAIN Stages, NEW pr, SyncState(n, pr)
    PROVE  MemoryOK' /\ Remembered'
<1> DEFINE did(stage) == \E k \in 1..n : Stages[k] = stage
           discovered == Discovered(Loaded)
           lost == Lost(discovered)
           kept == {i \in discovered \ lost : ~Settled(i)}
           cached == IF did("statuses") THEN kept
                     ELSE IF did("discovered") THEN discovered ELSE CachedBefore
<1>0. /\ UNCHANGED vars /\ UNCHANGED <<games, now, pinned, l2Head>>
      /\ synced' = Len(pinned.games)
  BY DEF SyncState, vars
<1>1. /\ cursor' = IF did("discovered") THEN Len(pinned.games) ELSE CursorBefore
      /\ tracked' = [i \in cached |-> IF did("statuses") THEN DeadlineAfter(i)
                                      ELSE DeadlineBefore(i)]
  BY Zenon DEF SyncState
<1>2. IF did("head") THEN ComputeCanonicalHead(kept)
      ELSE head' = HeadBefore /\ headBlock' = HeadBlockBefore
  BY Zenon DEF SyncState
<1>3. did("statuses") => did("discovered")
  BY DEF Stages
<1>4. /\ Loaded \subseteq PinnedIndices /\ CachedBefore \subseteq PinnedIndices
      /\ CursorBefore \in 0..Len(pinned.games) /\ Len(pinned.games) \in Nat
  BY PinnedFacts
<1>5. discovered \subseteq PinnedIndices /\ kept \subseteq PinnedIndices
      /\ cached \subseteq PinnedIndices
  BY <1>4 DEF Discovered
<1> HIDE DEF did, lost, discovered, kept, cached
<1>6. DOMAIN tracked' = cached /\ cursor' \in 0..Len(pinned.games)
  BY <1>1, <1>4
<1>7. \A i \in cached : /\ tracked'[i] \in Nat
                        /\ pinned.games[i].createdAt <= tracked'[i]
                        /\ tracked'[i] <= Horizon
  <2> TAKE i \in cached
  <2>0. i \in PinnedIndices /\ pinned.games[i].deadline \in Nat
        /\ pinned.games[i].createdAt = games[i].createdAt
    BY <1>5, PinnedFacts DEF Game
  <2>1. tracked'[i] \in {DeadlineBefore(i), DeadlineAfter(i)}
    BY <1>1
  <2>2. CASE tracked'[i] = DeadlineBefore(i)
    BY <2>0, <2>2, DeadlineBounds
  <2>3. CASE tracked'[i] = DeadlineAfter(i)
    BY <2>0, <2>3 DEF DeadlineAfter, ProposerInv, MemoryOK
  <2> QED
    BY <2>1, <2>2, <2>3
<1>8. head' \in {NoParent} \union PinnedIndices /\ headBlock' \in Nat
  <2>1. HeadBefore \in {NoParent} \union PinnedIndices
    BY DEF HeadBefore, ProposerInv, MemoryOK
  <2>2. \A i \in Indices : games[i].l2Block \in Nat
    BY GamesTyped, FactoryAssumption DEF ProposerInv, OrderInv, Game
  <2>3. HeadBlockBefore \in Nat
    <3>1. PinnedAnchorBlock \in Nat
      <4>1. ASSUME NEW i \in PinnedIndices PROVE pinned.games[i].l2Block \in Nat
        <5>1. pinned.games[i] \in Game
          BY PinnedFacts
        <5> QED
          BY <5>1, FactoryAssumption DEF Game
      <4>2. pinned.anchor \in {NoParent} \union PinnedIndices
        BY DEF ProposerInv, MemoryOK
      <4> QED
        BY <4>1, <4>2 DEF PinnedAnchorBlock
    <3> QED
      BY <3>1 DEF HeadBlockBefore, ProposerInv, MemoryOK
  <2>4. CASE ComputeCanonicalHead(kept)
    <3>1. CASE head' = NoParent /\ headBlock' = HeadBlockBefore
      BY <2>3, <3>1
    <3>2. ASSUME NEW h \in CanonicalHeads(kept, SyncAnchorGame(kept)),
                 head' = h, headBlock' = games[h].l2Block
          PROVE  head' \in {NoParent} \union PinnedIndices /\ headBlock' \in Nat
      <4>1. h \in PinnedIndices
        BY <1>5, HeadsAreCached
      <4>2. h \in Indices
        BY <4>1, PinnedFacts
      <4> QED
        BY <2>2, <3>2, <4>1, <4>2
    <3> QED
      BY <2>4, <3>1, <3>2 DEF ComputeCanonicalHead
  <2> QED
    BY <1>2, <2>1, <2>3, <2>4
<1>9. MemoryOK'
  <2>1. PinnedIndices' = PinnedIndices /\ Horizon' = Horizon
    BY <1>0 DEF PinnedIndices, Horizon
  <2> QED
    BY <1>0, <1>5, <1>6, <1>7, <1>8, <2>1 DEF ProposerInv, MemoryOK
<1>10. ASSUME NEW i \in 1..cursor', i \notin DOMAIN tracked' PROVE Gone(i)'
  <2>1. i \in PinnedIndices /\ i \notin cached
    BY <1>4, <1>6, <1>10 DEF PinnedIndices
  <2>2. CASE ~did("discovered")
    <3>1. cursor' = CursorBefore /\ cached = CachedBefore
      BY <1>1, <1>3, <2>2 DEF cached
    <3>2. ~Rebuilding /\ i \in 1..cursor /\ i \notin DOMAIN tracked
      BY <1>10, <2>1, <3>1 DEF CursorBefore, CachedBefore
    <3> QED
      BY <1>0, <2>1, <3>2, PinnedFacts, GoneStays DEF ProposerInv, Remembered
  <2>3. CASE did("discovered")
    <3>1. i \notin discovered \/ i \in lost \/ (i \in discovered /\ Settled(i))
      BY <2>1, <2>3 DEF cached, kept
    <3>2. CASE i \notin discovered
      BY <1>0, <2>1, <3>2, UndiscoveredGone, PinnedFacts, GoneStays DEF ProposerInv, discovered
    <3>3. CASE i \in discovered
      <4>1. Gone(i)
        BY <1>5, <3>1, <3>3, DroppedGone DEF lost
      <4> QED
        BY <1>0, <2>1, <4>1, PinnedFacts, GoneStays DEF ProposerInv
    <3> QED
      BY <3>2, <3>3
  <2> QED
    BY <2>2, <2>3
<1> QED
  BY <1>9, <1>10 DEF Remembered
-----------------------------------------------------------------------------
(* The tasks.                                                              *)
GoodTasks ==
    /\ creation' \in Task
    /\ creation'.parent \in {NoParent} \union Indices
    /\ creation'.stage # "none" => creation'.block >= 1
    /\ creation'.stage = "sent" => creation'.block <= MaxBlock
    /\ \A task \in proving' : task[1] \in Indices
    /\ pending' \in [Kinds -> SUBSET Indices]
    /\ \A tx \in mempool' : \/ tx \in mempool
                            \/ tx = CreationTx(creation) /\ creation.stage = "sent"
                            \/ \E task \in proving : tx = ProofTx(task[1])

LEMMA TasksAge ==
    ASSUME ProposerInv, [Next]_vars, GoodTasks
    PROVE  TasksOK'
<1>1. Indices \subseteq Indices' /\ Len(games) \in Nat
  BY StepAges, GamesTyped DEF ProposerInv, OrderInv
<1>2. creation'.parent \in {NoParent} \union Indices'
  BY <1>1 DEF GoodTasks
<1>3. \A task \in proving' : task[1] \in Indices'
  BY <1>1 DEF GoodTasks
<1>4. pending' \in [Kinds -> SUBSET Indices']
  BY <1>1 DEF GoodTasks
<1>5. ASSUME NEW tx \in mempool'
      PROVE  /\ tx \in Tx /\ tx.index \in {0} \union Indices'
             /\ tx.index = 0 => /\ tx.parent \in {NoParent} \union Indices'
                                /\ tx.block \in 1..MaxBlock
  <2>1. CASE tx \in mempool
    BY <1>1, <2>1 DEF ProposerInv, TasksOK
  <2>2. CASE tx = CreationTx(creation) /\ creation.stage = "sent"
    <3>1. /\ creation.parent \in {NoParent} \union Indices /\ creation.block \in Nat
          /\ creation.block >= 1 /\ creation.block <= MaxBlock /\ creation.parent \in Nat
      BY <2>2 DEF ProposerInv, TasksOK, Task
    <3>2. tx \in Tx /\ tx.index = 0 /\ tx.parent = creation.parent /\ tx.block = creation.block
      BY <2>2, <3>1 DEF CreationTx, Tx
    <3> QED
      BY <1>1, <3>1, <3>2, FactoryAssumption
  <2>3. ASSUME NEW task \in proving, tx = ProofTx(task[1]) PROVE tx \in Tx /\ tx.index \in Indices
    <3>1. task[1] \in Indices
      BY DEF ProposerInv, TasksOK
    <3> QED
      BY <1>1, <2>3, <3>1 DEF ProofTx, Tx, Indices, NoParent
  <2>4. 0 \notin Indices
    BY <1>1 DEF Indices
  <2> QED
    BY <1>1, <1>5, <2>1, <2>2, <2>3, <2>4 DEF GoodTasks
<1> QED
  BY <1>2, <1>3, <1>4, <1>5 DEF GoodTasks, TasksOK

LEMMA TasksKept ==
    ASSUME ProposerInv, [ProposerNext]_allVars
    PROVE  TasksOK'
<1>0. /\ [Next]_vars
      /\ creation \in Task /\ creation.parent \in {NoParent} \union Indices
      /\ creation.stage # "none" => creation.block >= 1
      /\ creation.stage = "sent" => creation.block <= MaxBlock
      /\ \A task \in proving : task[1] \in Indices
      /\ pending \in [Kinds -> SUBSET Indices]
      /\ l2Head \in 0..MaxBlock /\ MaxBlock \in Nat
  BY StepOfGames, FactoryAssumption DEF ProposerInv, TasksOK, MemoryOK
<1>1. NoTask \in Task /\ NoTask.stage = "none" /\ NoTask.parent = NoParent
  BY DEF NoTask, Task, NoParent
<1>2. DOMAIN tracked \subseteq Indices
  BY PinnedFacts DEF ProposerInv, MemoryOK
<1>3. CASE UNCHANGED <<tasks, mempool>>
  <2>1. GoodTasks
    BY <1>0, <1>3 DEF tasks, GoodTasks
  <2> QED
    BY <1>0, <2>1, TasksAge
<1>4. ASSUME NEW R \in SUBSET DOMAIN tracked, NEW D \in SUBSET DOMAIN tracked,
             NEW create \in BOOLEAN, Spawn(R, D, create)
      PROVE  TasksOK'
  <2>1. creation' = CreationTask \/ creation' = creation
    BY <1>4 DEF Spawn
  <2>2. /\ CreationTask \in Task /\ CreationTask.stage = "check"
        /\ CreationTask.parent \in {NoParent} \union Indices /\ CreationTask.block >= 1
    <3>1. NextBlock \in Nat /\ NextBlock >= 1
      BY ProposerAssumption DEF NextBlock, ProposerInv, MemoryOK
    <3>2. ProposalParent \in {NoParent} \union Indices
      BY PinnedFacts DEF ProposalParent, ProposerInv, MemoryOK
    <3>3. ProposalParent \in Nat
      BY <3>2 DEF Indices, NoParent
    <3> QED
      BY <3>1, <3>2, <3>3 DEF CreationTask, Task
  <2>3. \A task \in proving' : task[1] \in Indices
    BY <1>0, <1>2, <1>4 DEF Spawn
  <2>4. pending' \in [Kinds -> SUBSET Indices]
    <3>1. \A k \in Kinds : Candidates(k) \subseteq Indices
      BY <1>2 DEF Candidates
    <3>2. pending' = [k \in Kinds |-> IF pending[k] = {} THEN Candidates(k) ELSE pending[k]]
      BY <1>4 DEF Spawn
    <3> QED
      BY <1>0, <3>1, <3>2
  <2>5. mempool' = mempool
    BY <1>4 DEF Spawn
  <2> HIDE DEF CreationTask
  <2>6. GoodTasks
    BY <1>0, <2>1, <2>2, <2>3, <2>4, <2>5 DEF GoodTasks
  <2> QED
    BY <1>0, <2>6, TasksAge
<1>5. CASE CreateSend
  <2>1. PICK b \in creation.block..l2Head :
            creation' = [creation EXCEPT !.stage = "sent", !.block = b]
    BY <1>5 DEF CreateSend
  <2>2. creation.stage = "check" /\ UNCHANGED <<proving, pending, mempool>>
    BY <1>5 DEF CreateSend, outside
  <2>3. b \in Nat /\ b >= 1 /\ b <= MaxBlock
    BY <1>0, <2>1, <2>2 DEF Task
  <2>4. /\ creation' \in Task /\ creation'.parent = creation.parent /\ creation'.block = b
        /\ creation'.stage = "sent"
    BY <1>0, <2>1, <2>3 DEF Task
  <2>5. GoodTasks
    BY <1>0, <2>2, <2>3, <2>4 DEF GoodTasks
  <2> QED
    BY <1>0, <2>5, TasksAge
<1>6. CASE CreateMined
  <2>1. /\ creation' = [creation EXCEPT !.stage = "mined", !.index = Len(games')]
        /\ creation.stage = "sent" /\ UNCHANGED <<proving, pending, mempool>>
    BY <1>6 DEF CreateMined, outside
  <2>2. Len(games') \in Nat
    BY <1>0, GamesWillPointBack DEF ProposerInv, OrderInv, PointsBack
  <2>3. /\ creation' \in Task /\ creation'.parent = creation.parent
        /\ creation'.block = creation.block /\ creation'.stage = "mined"
    BY <1>0, <2>1, <2>2 DEF Task
  <2>4. GoodTasks
    BY <1>0, <2>1, <2>3 DEF GoodTasks
  <2> QED
    BY <1>0, <2>4, TasksAge
<1>7. CASE CreateFails
  <2>1. /\ creation' = NoTask /\ UNCHANGED <<proving, pending>>
        /\ \A tx \in mempool' : tx \in mempool \/ (tx = CreationTx(creation) /\ creation.stage = "sent")
    BY <1>7 DEF CreateFails, MayLandLater
  <2>2. GoodTasks
    BY <1>0, <1>1, <2>1 DEF GoodTasks
  <2> QED
    BY <1>0, <2>2, TasksAge
<1>8. CASE Register
  <2>1. /\ creation' = NoTask /\ UNCHANGED <<pending, mempool>>
        /\ \A task \in proving' : task \in proving \/ task[1] \in DOMAIN tracked
    BY <1>8 DEF Register, outside
  <2>2. GoodTasks
    BY <1>0, <1>1, <1>2, <2>1 DEF GoodTasks
  <2> QED
    BY <1>0, <2>2, TasksAge
<1>9. ASSUME NEW task \in proving, ProveSucceeds(task) \/ ProveFails(task)
      PROVE  TasksOK'
  <2>1. /\ UNCHANGED <<creation, pending>> /\ proving' \subseteq proving
        /\ \A tx \in mempool' : tx \in mempool \/ tx = ProofTx(task[1])
    BY <1>9 DEF ProveSucceeds, ProveFails, MayLandLater, outside
  <2>2. GoodTasks
    BY <1>0, <2>1 DEF GoodTasks
  <2> QED
    BY <1>0, <2>2, TasksAge
<1>10. ASSUME NEW k \in Kinds, NEW i \in pending[k], Attempt(k, i) \/ PassOver(k, i)
       PROVE  TasksOK'
  <2>1. /\ UNCHANGED <<creation, proving, mempool>>
        /\ pending' = [pending EXCEPT ![k] = @ \ {i}]
    BY <1>10 DEF Attempt, PassOver, Tried, outside
  <2>2. pending' \in [Kinds -> SUBSET Indices]
    BY <1>0, <2>1
  <2>3. GoodTasks
    BY <1>0, <2>1, <2>2 DEF GoodTasks
  <2> QED
    BY <1>0, <2>3, TasksAge
<1>11. CASE Restart
  <2>1. /\ creation' = NoTask /\ proving' = {} /\ pending' = [k \in Kinds |-> {}]
        /\ \A tx \in mempool' : tx \in mempool \/ (tx = CreationTx(creation) /\ creation.stage = "sent")
    BY <1>11 DEF Restart, MayLandLater
  <2>2. pending' \in [Kinds -> SUBSET Indices]
    BY <2>1
  <2>3. GoodTasks
    BY <1>0, <1>1, <2>1, <2>2 DEF GoodTasks
  <2> QED
    BY <1>0, <2>3, TasksAge
<1>12. ASSUME NEW tx \in mempool, LandsLate(tx) PROVE TasksOK'
  <2>1. mempool' \subseteq mempool /\ UNCHANGED <<creation, proving, pending>>
    BY <1>12 DEF LandsLate, tasks
  <2>2. GoodTasks
    BY <1>0, <2>1 DEF GoodTasks
  <2> QED
    BY <1>0, <2>2, TasksAge
<1>13. CASE World \/ Clock \/ L2Advances \/ Confirm \/ SaveEnds \/ UNCHANGED allVars
  BY <1>3, <1>13 DEF World, Clock, L2Advances, Confirm, SaveEnds, allVars, proposerVars, outside
<1>14. ASSUME NEW n \in DOMAIN Stages, NEW pr \in RemovalsFinal, SyncState(n, pr) PROVE TasksOK'
  BY <1>3, <1>14 DEF SyncState
<1>15. CASE SyncUnchanged
  BY <1>3, <1>15 DEF SyncUnchanged, outside
<1> QED
  BY <1>4, <1>5, <1>6, <1>7, <1>8, <1>9, <1>10, <1>11, <1>12, <1>13, <1>14, <1>15
     DEF ProposerNext, Loop, CreationStep, TaskStep
-----------------------------------------------------------------------------
LEMMA ProposerInvInit == ProposerInit => ProposerInv
<1> SUFFICES ASSUME ProposerInit PROVE ProposerInv
  OBVIOUS
<1>1. Init /\ games = << >> /\ anchorGame = NoParent
  BY DEF ProposerInit, Init, FactoryInit, RegistryInit
<1>2. ChainInv
  BY <1>1, ChainInvInit
<1>3. games \in Seq(Game) /\ Len(games) = 0 /\ Indices = {}
  BY <1>1, EmptySeq DEF Indices
<1>4. OrderInv /\ DeadlinesOK
  BY <1>2, <1>3 DEF OrderInv, CreationOrdered, DeadlinesOK
<1>5. /\ pinned.games = games /\ pinned.anchor = NoParent /\ PinnedIndices = {}
  BY <1>1, <1>3 DEF ProposerInit, PinnedIndices
<1>6. MemoryOK
  BY <1>3, <1>5, ProposerAssumption, FactoryAssumption DEF MemoryOK, ProposerInit, NoParent
<1>7. TasksOK
  BY <1>3 DEF TasksOK, ProposerInit, NoTask, Task, NoParent
<1>8. Remembered
  BY DEF Remembered, Rebuilding, ProposerInit
<1> QED
  BY <1>4, <1>6, <1>7, <1>8 DEF ProposerInv

LEMMA ProposerInvStep == ProposerInv /\ [ProposerNext]_allVars => ProposerInv'
<1> SUFFICES ASSUME ProposerInv, [ProposerNext]_allVars PROVE MemoryOK' /\ Remembered'
  BY StepOfGames, TasksKept, StepAges, OrderInvStep DEF ProposerInv
<1>0. [Next]_vars
  BY StepOfGames
<1>1. CASE UNCHANGED <<pinned, cursor, tracked, head, headBlock, l2Head, synced>>
  BY <1>0, <1>1, MemoryAges, RememberedAges
<1>2. CASE World \/ Clock \/ SyncUnchanged \/ CreateSend \/ CreateMined \/ CreateFails
           \/ SaveEnds \/ UNCHANGED allVars
  BY <1>1, <1>2 DEF World, Clock, SyncUnchanged, CreateSend, CreateMined, CreateFails, SaveEnds,
     allVars, proposerVars, syncVars, cache, outside
<1>3. ASSUME NEW R, NEW D, NEW create, Spawn(R, D, create) PROVE MemoryOK' /\ Remembered'
  BY <1>1, <1>3 DEF Spawn, cache
<1>4. ASSUME NEW task \in proving, ProveSucceeds(task) \/ ProveFails(task)
      PROVE  MemoryOK' /\ Remembered'
  BY <1>1, <1>4 DEF ProveSucceeds, ProveFails, syncVars, cache, outside
<1>5. ASSUME NEW k \in Kinds, NEW i \in pending[k], Attempt(k, i) \/ PassOver(k, i)
      PROVE  MemoryOK' /\ Remembered'
  BY <1>1, <1>5 DEF Attempt, PassOver, syncVars, outside
<1>6. ASSUME NEW tx \in mempool, LandsLate(tx) PROVE MemoryOK' /\ Remembered'
  BY <1>1, <1>6 DEF LandsLate, syncVars, cache
<1>7. CASE Confirm
  BY <1>7, ConfirmKeeps
<1>8. ASSUME NEW n \in DOMAIN Stages, NEW pr \in RemovalsFinal, SyncState(n, pr)
      PROVE  MemoryOK' /\ Remembered'
  BY <1>8, SyncKeeps
<1>9. CASE L2Advances
  <2>1. /\ UNCHANGED <<games, now, pinned, cursor, tracked, head, headBlock, synced>>
        /\ l2Head' \in 0..MaxBlock
    BY <1>9, FactoryAssumption DEF L2Advances, ProposerInv, MemoryOK, vars, syncVars, cache
  <2>2. MemoryOK'
    BY <2>1 DEF ProposerInv, MemoryOK, PinnedIndices, Horizon
  <2> QED
    BY <1>0, <2>1, <2>2, RememberedAges
<1>10. CASE Register
  <2>1. /\ UNCHANGED <<games, now, pinned, tracked, head, headBlock, l2Head, synced>>
        /\ cursor' = 0 \/ cursor' = cursor
    BY <1>10 DEF Register, vars, outside
  <2>2. Len(pinned.games) \in Nat
    BY PinnedFacts
  <2>3. MemoryOK'
    BY <2>1, <2>2 DEF ProposerInv, MemoryOK, PinnedIndices, Horizon
  <2>4. Remembered'
    BY <1>0, <2>1, RememberedAges DEF Remembered
  <2> QED
    BY <2>3, <2>4
<1>11. CASE Restart
  <2>1. /\ UNCHANGED <<games, now, pinned, l2Head>>
        /\ cursor' = 0 /\ tracked' = << >> /\ head' = NoParent /\ synced' = NeverSynced
        /\ headBlock' = AnchorBlock
    BY <1>11 DEF Restart, vars
  <2>2. Len(pinned.games) \in Nat
    BY PinnedFacts
  <2>3. AnchorBlock \in Nat
    BY GamesTyped, FactoryAssumption
       DEF AnchorBlock, ProposerInv, OrderInv, ChainInv, BondInv, TypeOK, Game
  <2>4. DOMAIN tracked' = {}
    BY <2>1
  <2>5. MemoryOK'
    BY <2>1, <2>2, <2>3, <2>4 DEF ProposerInv, MemoryOK, PinnedIndices, Horizon
  <2>6. Remembered'
    BY <2>1 DEF Remembered, Rebuilding
  <2> QED
    BY <2>5, <2>6
<1> QED
  BY <1>2, <1>3, <1>4, <1>5, <1>6, <1>7, <1>8, <1>9, <1>10, <1>11
     DEF ProposerNext, Loop, CreationStep, TaskStep

LEMMA ProposerInvariant == ProposerSpec => []ProposerInv
BY ProposerInvInit, ProposerInvStep, PTL DEF ProposerSpec

(* Whatever pass fails wherever, whatever is evicted or dropped and        *)
(* whenever the proposer restarts, a won game that owes it money is        *)
(* cached, still to be scanned or out of a scan's reach (sync_games).      *)
THEOREM NoBondForgotten == ProposerSpec => []BondsRemembered
<1>1. ProposerInv => BondsRemembered
  <2> SUFFICES ASSUME ProposerInv, NEW i \in Indices,
                      ValidGame(games[i]), games[i].status = "DEFENDER_WINS",
                      Credit(games[i], games[i].mode, Self) > 0, ~OutOfReach(i),
                      i \notin DOMAIN tracked, ~(i > cursor), ~Rebuilding
               PROVE  FALSE
    BY DEF BondsRemembered
  <2>1. i \in 1..cursor
    BY PinnedFacts DEF ProposerInv, MemoryOK, Indices
  <2>2. Gone(i)
    BY <2>1 DEF ProposerInv, Remembered
  <2>3. ASSUME NEW j \in Ancestors(i), games[j].status = "CHALLENGER_WINS" PROVE FALSE
    <3>1. PointsBack(games)
      BY GamesPointBack DEF ProposerInv, OrderInv
    <3>2. ASSUME NEW k \in 1..Len(games), games[k].status = "DEFENDER_WINS",
                 games[k].parent # NoParent
          PROVE  games[games[k].parent].status = "DEFENDER_WINS"
      <4>1. k \in Indices
        BY DEF Indices
      <4>2. games[k] \in Game /\ VerdictOK(games[k])
        BY <4>1, GamesTyped DEF ProposerInv, OrderInv, ChainInv
      <4>3. games[k].gameType = "succinct"
        BY <3>2, <4>2 DEF VerdictOK, Game, GameTypes
      <4> QED
        BY <3>2, <4>2, <4>3 DEF VerdictOK, ParentGameStatus
    <3>3. i \in DescendantsIn(games, j, Indices)
      BY DescendantsAre DEF Ancestors
    <3>4. games[j].status # "DEFENDER_WINS"
      BY <2>3
    <3> QED
      BY <3>1, <3>2, <3>3, <3>4, NoneBelowWins
  <2>4. Credit(games[i], games[i].mode, Self) # 0
    OBVIOUS
  <2> QED
    BY <2>2, <2>3, <2>4 DEF Gone, PaidOut
<1> QED
  BY ProposerInvariant, <1>1, PTL
-----------------------------------------------------------------------------
(* The creation guard.                                                     *)

OwnType == {i \in Indices : Supported(games[i])}

(* The cursor is never ahead of the last block synced, so a game found     *)
(* there later is scanned; the guards in memory and on disk are for games  *)
(* there are; and a game that is guarded but neither cached nor to be      *)
(* scanned will not be found again.                                        *)
GuardOK ==
    /\ IF Rebuilding THEN cursor = 0 ELSE synced \in Nat /\ cursor <= synced
    /\ creation.stage = "mined" => creation.index \in OwnType
    /\ guard = NoGuard \/ guard.index \in OwnType
    /\ saving.guard = NoGuard \/ saving.guard.index \in OwnType
    /\ disk.guard = NoGuard \/ disk.guard.index \in OwnType
    /\ guard # NoGuard => \A i \in 1..cursor :
          i = guard.index => i \in DOMAIN tracked \/ OutOfReach(i) \/ PaidOut(i)

LEMMA OwnTypeStays ==
    ASSUME OrderInv, [Next]_vars
    PROVE  OwnType \subseteq OwnType'
<1>1. \A i \in OwnType : i \in Indices' /\ Supported(games'[i])
  BY VerdictsStay DEF OwnType
<1> QED
  BY <1>1 DEF OwnType, Supported

(* A backup, if one begins, keeps the guard it is given.                   *)
LEMMA BackupGuard ==
    ASSUME NEW cur, NEW cached, NEW rem, NEW anch, NEW g, Backup(BackupOf(cur, cached, rem, anch, g))
    PROVE  saving'.guard = g \/ saving'.guard = saving.guard
<1>1. BackupOf(cur, cached, rem, anch, g).guard = g
  BY DEF BackupOf
<1> QED
  BY <1>1 DEF Backup

(* Steps that leave the cache and the guard alone.                         *)
LEMMA GuardAges ==
    ASSUME ProposerInv, GuardOK, [Next]_vars, UNCHANGED <<cursor, tracked, synced, guard>>,
           creation'.stage = "mined" => creation' = creation \/ creation'.index \in OwnType',
           saving'.guard \in {saving.guard, guard, NoGuard},
           disk'.guard \in {disk.guard, saving.guard}
    PROVE  GuardOK'
<1>0. OrderInv
  BY DEF ProposerInv
<1>1. OwnType \subseteq OwnType'
  BY <1>0, OwnTypeStays
<1>2. IF Rebuilding' THEN cursor' = 0 ELSE synced' \in Nat /\ cursor' <= synced'
  BY DEF GuardOK, Rebuilding
<1>3. creation'.stage = "mined" => creation'.index \in OwnType'
  <2>1. CASE creation' = creation
    BY <1>1, <2>1 DEF GuardOK
  <2> QED
    BY <2>1
<1>4. guard' = NoGuard \/ guard'.index \in OwnType'
  BY <1>1 DEF GuardOK
<1>5. saving'.guard = NoGuard \/ saving'.guard.index \in OwnType'
  BY <1>1 DEF GuardOK
<1>6. disk'.guard = NoGuard \/ disk'.guard.index \in OwnType'
  BY <1>1 DEF GuardOK
<1>7. ASSUME guard # NoGuard, NEW i \in 1..cursor, i = guard.index, i \notin DOMAIN tracked
      PROVE  OutOfReach(i)' \/ PaidOut(i)'
  <2>1. i \in Indices /\ (OutOfReach(i) \/ PaidOut(i))
    BY <1>7 DEF GuardOK, OwnType
  <2> QED
    BY <1>0, <2>1, OutOfReachStays, PaidOutStays
<1> QED
  BY <1>2, <1>3, <1>4, <1>5, <1>6, <1>7 DEF GuardOK

(* A pass of sync_state lifts the guard of a lost game, and passes over    *)
(* another one only if it is paid out or out of reach.                     *)
LEMMA SyncKeepsGuard ==
    ASSUME ProposerInv, GuardOK, NEW n \in DOMAIN Stages, NEW pr, SyncState(n, pr)
    PROVE  GuardOK'
<1> DEFINE did(stage) == \E k \in 1..n : Stages[k] = stage
           discovered == Discovered(Loaded)
           lost == Lost(discovered)
           kept == {i \in discovered \ lost : ~Settled(i)}
           cached == IF did("statuses") THEN kept
                     ELSE IF did("discovered") THEN discovered ELSE CachedBefore
<1>0. /\ UNCHANGED vars /\ UNCHANGED <<games, creation, disk>>
      /\ synced' = Len(pinned.games)
  BY DEF SyncState, vars, tasks
<1>1. /\ cursor' = IF did("discovered") THEN Len(pinned.games) ELSE CursorBefore
      /\ tracked' = [i \in cached |-> IF did("statuses") THEN DeadlineAfter(i)
                                      ELSE DeadlineBefore(i)]
      /\ guard' = IF did("statuses") THEN GuardAfter(lost) ELSE guard
  BY Zenon DEF SyncState
<1>2. \/ saving' = saving
      \/ Backup(BackupOf(cursor', cached, removed', anchor', guard'))
  BY Zenon DEF SyncState
<1>3. did("statuses") => did("discovered")
  BY DEF Stages
<1>4. /\ Loaded \subseteq PinnedIndices /\ CachedBefore \subseteq PinnedIndices
      /\ CursorBefore \in 0..Len(pinned.games) /\ Len(pinned.games) \in Nat
  BY PinnedFacts
<1>5. discovered \subseteq PinnedIndices /\ kept \subseteq PinnedIndices
      /\ cached \subseteq PinnedIndices
  BY <1>4 DEF Discovered
<1> HIDE DEF did, lost, discovered, kept, cached
<1>6. DOMAIN tracked' = cached /\ cursor' \in 0..Len(pinned.games)
  BY <1>1, <1>4
<1>7. guard' = NoGuard \/ (guard' = guard /\ (did("statuses") => guard.index \notin lost))
  BY <1>1 DEF GuardAfter
<1>8. OrderInv /\ [Next]_vars
  BY <1>0 DEF ProposerInv
<1>9. OwnType \subseteq OwnType'
  BY <1>8, OwnTypeStays
<1>10. IF Rebuilding' THEN cursor' = 0 ELSE synced' \in Nat /\ cursor' <= synced'
  BY <1>0, <1>4, <1>6 DEF Rebuilding, NeverSynced
<1>11. guard' = NoGuard \/ guard'.index \in OwnType'
  BY <1>7, <1>9 DEF GuardOK
<1>12. saving'.guard = NoGuard \/ saving'.guard.index \in OwnType'
  <2>1. saving'.guard = guard' \/ saving'.guard = saving.guard
    BY <1>2, BackupGuard
  <2> QED
    BY <1>9, <1>11, <2>1 DEF GuardOK
<1>13. ASSUME guard' # NoGuard, NEW i \in 1..cursor', i = guard'.index, i \notin DOMAIN tracked'
       PROVE  OutOfReach(i)' \/ PaidOut(i)'
  <2>1. i \in Indices /\ i = guard.index /\ guard # NoGuard
    BY <1>7, <1>13 DEF GuardOK, OwnType
  <2> SUFFICES OutOfReach(i) \/ PaidOut(i)
    BY <1>8, <2>1, OutOfReachStays, PaidOutStays
  <2>2. Supported(games[i]) /\ i \in PinnedIndices /\ i \notin cached
    BY <1>4, <1>6, <1>7, <1>13, <2>1 DEF GuardOK, OwnType, PinnedIndices, Indices
  <2>3. ASSUME ~Rebuilding, i \in 1..cursor, i \notin DOMAIN tracked
        PROVE  OutOfReach(i) \/ PaidOut(i)
    BY <2>1, <2>3 DEF GuardOK
  <2>4. CASE ~did("discovered")
    <3>1. cursor' = CursorBefore /\ cached = CachedBefore
      BY <1>1, <1>3, <2>4 DEF cached
    <3>2. ~Rebuilding /\ i \in 1..cursor /\ i \notin DOMAIN tracked
      BY <1>4, <1>13, <2>1, <2>2, <3>1 DEF CursorBefore, CachedBefore, PinnedIndices
    <3> QED
      BY <2>3, <3>2
  <2>5. CASE did("discovered") /\ i \notin discovered
    <3>1. i \notin Discovered(Loaded)
      BY <2>5 DEF discovered
    <3> QED
      BY <2>2, <2>3, <3>1, UndiscoveredOutOfReach
  <2>6. CASE did("discovered") /\ i \in discovered
    <3>1. Settled(i)
      BY <1>7, <1>13, <2>1, <2>2, <2>6 DEF cached, kept
    <3> QED
      BY <2>2, <3>1, SettledPaidOut
  <2> QED
    BY <2>4, <2>5, <2>6
<1> QED
  BY <1>0, <1>9, <1>10, <1>11, <1>12, <1>13 DEF GuardOK

(* A creation registered after its game was synced starts a new scan; one  *)
(* registered before is ahead of the cursor.                               *)
LEMMA RegisterKeepsGuard ==
    ASSUME ProposerInv, GuardOK, Register
    PROVE  GuardOK'
<1> DEFINE set == [block |-> creation.block, index |-> creation.index]
<1>0. /\ UNCHANGED vars /\ UNCHANGED <<games, disk, synced>>
      /\ creation.stage = "mined" /\ creation' = NoTask /\ guard' = set
      /\ cursor' = IF creation.index <= synced THEN 0 ELSE cursor
      /\ Backup(BackupOf(cursor', DOMAIN tracked, removed, anchor, set))
  BY DEF Register, vars, outside
<1>1. set.index = creation.index /\ NoTask.stage # "mined"
  BY DEF NoTask
<1> HIDE DEF set
<1>2. OrderInv /\ [Next]_vars
  BY <1>0 DEF ProposerInv
<1>3. OwnType \subseteq OwnType'
  BY <1>2, OwnTypeStays
<1>4. set.index \in OwnType' /\ creation.index \in Nat /\ creation.index >= 1
  <2>1. creation.index \in OwnType /\ Len(games) \in Nat
    BY <1>0, PinnedFacts DEF GuardOK
  <2> QED
    BY <1>1, <1>3, <2>1 DEF OwnType, Indices
<1>5. IF Rebuilding' THEN cursor' = 0 ELSE synced' \in Nat /\ cursor' <= synced'
  BY <1>0, <1>4 DEF GuardOK, Rebuilding, NeverSynced
<1>6. saving'.guard = NoGuard \/ saving'.guard.index \in OwnType'
  <2>1. saving'.guard = set \/ saving'.guard = saving.guard
    BY <1>0, BackupGuard
  <2> QED
    BY <1>3, <1>4, <2>1 DEF GuardOK
<1>7. ~(guard'.index <= cursor')
  <2>1. CASE Rebuilding
    BY <1>0, <1>1, <1>4, <2>1 DEF GuardOK, Rebuilding, NeverSynced
  <2>2. CASE ~Rebuilding
    <3>1. cursor \in Nat /\ synced \in Nat /\ cursor <= synced
      BY <2>2, PinnedFacts DEF GuardOK, ProposerInv, MemoryOK
    <3> QED
      BY <1>0, <1>1, <1>4, <3>1
  <2> QED
    BY <2>1, <2>2
<1> QED
  BY <1>0, <1>1, <1>3, <1>4, <1>5, <1>6, <1>7 DEF GuardOK

LEMMA RestartKeepsGuard ==
    ASSUME ProposerInv, GuardOK, Restart
    PROVE  GuardOK'
<1>0. /\ UNCHANGED vars /\ UNCHANGED <<games, disk>>
      /\ creation' = NoTask /\ saving' = NoBackup
      /\ guard' = disk.guard \/ guard' = NoGuard
      /\ cursor' = 0 /\ synced' = NeverSynced
  BY DEF Restart, vars
<1>1. NoTask.stage # "mined" /\ NoBackup.guard = NoGuard
  BY DEF NoTask, NoBackup
<1>2. OwnType \subseteq OwnType'
  BY <1>0, OwnTypeStays DEF ProposerInv
<1>3. guard' = NoGuard \/ guard'.index \in OwnType'
  BY <1>0, <1>2 DEF GuardOK
<1>4. guard' # NoGuard => ~(guard'.index <= cursor')
  <2>1. ASSUME guard' # NoGuard PROVE guard'.index \in Nat /\ guard'.index >= 1
    <3>1. guard'.index \in OwnType /\ Len(games) \in Nat
      BY <1>0, <2>1, PinnedFacts DEF GuardOK
    <3> QED
      BY <3>1 DEF OwnType, Indices
  <2> QED
    BY <1>0, <2>1
<1> QED
  BY <1>0, <1>1, <1>2, <1>3, <1>4 DEF GuardOK, Rebuilding

(* The game just created is the last one.                                  *)
LEMMA MinedIsOwn ==
    ASSUME ProposerInv, [Next]_vars, CreateMined
    PROVE  creation'.index \in OwnType'
<1>1. creation'.index = Len(games') /\ Create(Self, creation.parent, creation.block, "canonical")
  BY DEF CreateMined, ProposerInv, TasksOK, Task
<1>2. PICK g : games' = Append(games, g) /\ g.gameType = "succinct"
  BY <1>1 DEF Create, NewGame
<1>3. games \in Seq(Game) /\ games' \in Seq(Game) /\ Len(games) \in Nat
  BY OrderInvStep, GamesTyped DEF ProposerInv, OrderInv, ChainInv, BondInv, TypeOK
<1>4. Len(games') = Len(games) + 1 /\ games'[Len(games')] = g
  BY <1>2, <1>3
<1> QED
  BY <1>1, <1>2, <1>3, <1>4 DEF OwnType, Indices, Supported

LEMMA GuardStep == ProposerInv /\ GuardOK /\ [ProposerNext]_allVars => GuardOK'
<1> SUFFICES ASSUME ProposerInv, GuardOK, [ProposerNext]_allVars PROVE GuardOK'
  OBVIOUS
<1>0. [Next]_vars
  BY StepOfGames
<1>1. ASSUME UNCHANGED <<cursor, tracked, synced, guard, saving, disk>>,
             creation'.stage = "mined" => creation' = creation
      PROVE  GuardOK'
  BY <1>0, <1>1, GuardAges
<1>2. CASE World \/ Clock \/ L2Advances \/ Confirm \/ UNCHANGED allVars
  BY <1>1, <1>2 DEF World, Clock, L2Advances, Confirm, allVars, proposerVars,
     syncVars, cache, tasks, outside
<1>3. ASSUME NEW n \in DOMAIN Stages, NEW pr \in RemovalsFinal, SyncState(n, pr) PROVE GuardOK'
  BY <1>3, SyncKeepsGuard
<1>4. CASE SyncUnchanged
  <2>1. /\ UNCHANGED <<cursor, tracked, synced, guard, creation, disk>>
        /\ Backup(BackupOf(cursor, DOMAIN tracked, removed, anchor, guard))
    BY <1>4 DEF SyncUnchanged, cache, tasks, outside
  <2>2. saving'.guard = guard \/ saving'.guard = saving.guard
    BY <2>1, BackupGuard
  <2> QED
    BY <1>0, <2>1, <2>2, GuardAges
<1>5. ASSUME NEW R, NEW D, NEW create, Spawn(R, D, create) PROVE GuardOK'
  <2>1. /\ UNCHANGED <<cursor, tracked, synced, guard, saving, disk>>
        /\ creation' = creation \/ creation'.stage = "check"
    BY <1>5 DEF Spawn, cache, CreationTask
  <2> QED
    BY <1>1, <2>1
<1>6. CASE CreateSend
  <2>1. UNCHANGED <<cursor, tracked, synced, guard, saving, disk>> /\ creation'.stage = "sent"
    BY <1>6 DEF CreateSend, syncVars, cache, outside, ProposerInv, TasksOK, Task
  <2> QED
    BY <1>1, <2>1
<1>7. CASE CreateMined
  <2>1. UNCHANGED <<cursor, tracked, synced, guard, saving, disk>>
    BY <1>7 DEF CreateMined, syncVars, cache, outside
  <2> QED
    BY <1>0, <1>7, <2>1, GuardAges, MinedIsOwn
<1>8. CASE CreateFails
  <2>1. UNCHANGED <<cursor, tracked, synced, guard, saving, disk>> /\ creation'.stage = "none"
    BY <1>8 DEF CreateFails, syncVars, cache, NoTask
  <2> QED
    BY <1>1, <2>1
<1>9. CASE Register
  BY <1>9, RegisterKeepsGuard
<1>10. ASSUME NEW task \in proving, ProveSucceeds(task) \/ ProveFails(task) PROVE GuardOK'
  BY <1>1, <1>10 DEF ProveSucceeds, ProveFails, syncVars, cache, outside
<1>11. ASSUME NEW k \in Kinds, NEW i \in pending[k], Attempt(k, i) \/ PassOver(k, i) PROVE GuardOK'
  BY <1>1, <1>11 DEF Attempt, PassOver, syncVars, outside
<1>12. CASE SaveEnds
  <2>1. /\ UNCHANGED <<cursor, tracked, synced, guard, creation>>
        /\ disk' \in {disk, saving} /\ saving' = NoBackup
    BY <1>12 DEF SaveEnds, syncVars, cache, tasks
  <2>2. saving'.guard = NoGuard
    BY <2>1 DEF NoBackup
  <2> QED
    BY <1>0, <2>1, <2>2, GuardAges
<1>13. CASE Restart
  BY <1>13, RestartKeepsGuard
<1>14. ASSUME NEW tx \in mempool, LandsLate(tx) PROVE GuardOK'
  BY <1>1, <1>14 DEF LandsLate, syncVars, cache, tasks
<1> QED
  BY <1>2, <1>3, <1>4, <1>5, <1>6, <1>7, <1>8, <1>9, <1>10, <1>11, <1>12, <1>13, <1>14
     DEF ProposerNext, Loop, CreationStep, TaskStep

(* However late a creation is registered, whatever pass fails wherever,    *)
(* whichever guard a restart finds in the backup, a guard that holds       *)
(* proposals back is for a game that is cached, still to be scanned, out   *)
(* of a scan's reach or paid out (should_create_game, register_game).      *)
THEOREM GuardsAreTemporary == ProposerSpec => []GuardIsTemporary
<1>1. ProposerInit => GuardOK
  BY DEF ProposerInit, GuardOK, Rebuilding, NoTask, NoBackup
<1>2. ProposerInv /\ GuardOK => GuardIsTemporary
  <2> SUFFICES ASSUME ProposerInv, GuardOK, Guarded PROVE GuardIsTemporary
    BY DEF GuardIsTemporary
  <2>1. guard # NoGuard
    BY DEF Guarded, NoGuard
  <2>2. guard.index \in Nat /\ guard.index >= 1 /\ cursor \in Nat
    BY <2>1, PinnedFacts DEF GuardOK, OwnType, Indices, ProposerInv, MemoryOK
  <2> QED
    BY <2>1, <2>2 DEF GuardOK, GuardIsTemporary
<1> QED
  BY ProposerInvariant, GuardStep, <1>1, <1>2, PTL DEF ProposerSpec
-----------------------------------------------------------------------------
(* How many proofs run at a time.                                          *)

Finality == proving \ Defenses

(* The creation task holds back one place for the proof it may start.      *)
LimitsOK ==
    /\ IsFiniteSet(proving)
    /\ Cardinality(Defenses) <= MaxDefenses
    /\ Cardinality(Finality) <= ProvingLimit
    /\ FastFinality /\ creation # NoTask => Cardinality(Finality) < ProvingLimit

LEMMA UnionBound ==
    ASSUME NEW S, NEW T, IsFiniteSet(S), IsFiniteSet(T)
    PROVE  /\ IsFiniteSet(S \union T) /\ Cardinality(S \union T) \in Nat
           /\ Cardinality(S) \in Nat /\ Cardinality(T) \in Nat
           /\ Cardinality(S \union T) <= Cardinality(S) + Cardinality(T)
<1>1. IsFiniteSet(S \intersect T) /\ IsFiniteSet(S \union T)
  BY FS_Intersection, FS_Union
<1>2. /\ Cardinality(S \intersect T) \in Nat /\ Cardinality(S) \in Nat
      /\ Cardinality(T) \in Nat /\ Cardinality(S \union T) \in Nat
  BY <1>1, FS_CardinalityType
<1>3. Cardinality(S \union T) = Cardinality(S) + (Cardinality(T) - Cardinality(S \intersect T))
  BY <1>2, FS_Union
<1> QED
  BY <1>1, <1>2, <1>3

(* Tagging games with a purpose does not make them more.                   *)
LEMMA TaggedBound ==
    ASSUME NEW S, IsFiniteSet(S), NEW tag
    PROVE  /\ IsFiniteSet(S \X {tag}) /\ Cardinality(S \X {tag}) = Cardinality(S)
           /\ \A t \in S \X {tag} : t[2] = tag
<1>1. IsFiniteSet({tag}) /\ Cardinality({tag}) = 1 /\ Cardinality(S) \in Nat
  BY FS_Singleton, FS_CardinalityType
<1>2. IsFiniteSet(S \X {tag}) /\ Cardinality(S \X {tag}) = Cardinality(S) * Cardinality({tag})
  BY <1>1, FS_Product
<1> QED
  BY <1>1, <1>2

LEMMA FewerProofs ==
    ASSUME LimitsOK, proving' \subseteq proving, creation' \in {creation, NoTask}
    PROVE  LimitsOK'
<1>1. IsFiniteSet(proving') /\ IsFiniteSet(Defenses) /\ IsFiniteSet(Finality)
  BY FS_Subset DEF LimitsOK, Defenses, Finality
<1>2. Defenses' \subseteq Defenses /\ Finality' \subseteq Finality
  BY DEF Defenses, Finality
<1>3. Cardinality(Defenses') <= Cardinality(Defenses) /\ Cardinality(Finality') <= Cardinality(Finality)
  BY <1>1, <1>2, FS_Subset
<1>4. /\ Cardinality(Defenses) \in Nat /\ Cardinality(Finality) \in Nat
      /\ Cardinality(Defenses') \in Nat /\ Cardinality(Finality') \in Nat
  BY <1>1, <1>2, FS_Subset, FS_CardinalityType
<1> QED
  BY <1>1, <1>3, <1>4, ProposerAssumption DEF LimitsOK

LEMMA SpawnWithinLimits ==
    ASSUME ProposerInv, LimitsOK,
           NEW R \in SUBSET DOMAIN tracked, NEW D \in SUBSET DOMAIN tracked, NEW create \in BOOLEAN,
           Spawn(R, D, create)
    PROVE  LimitsOK'
<1> DEFINE fast == R \X {"finality"}
           defend == D \X {"defense"}
<1>1. IsFiniteSet(R) /\ IsFiniteSet(D)
  <2>1. IsFiniteSet(PinnedIndices)
    <3>1. PICK n \in Nat : n = Len(pinned.games)
      BY PinnedFacts
    <3>2. IsFiniteSet(1..n)
      BY FS_Interval
    <3> QED
      BY <3>1, <3>2 DEF PinnedIndices
  <2> QED
    BY <2>1, FS_Subset DEF ProposerInv, MemoryOK
<1>2. /\ IsFiniteSet(fast) /\ Cardinality(fast) = Cardinality(R)
      /\ IsFiniteSet(defend) /\ Cardinality(defend) = Cardinality(D)
      /\ \A t \in fast : t[2] = "finality"
      /\ \A t \in defend : t[2] = "defense"
  BY <1>1, TaggedBound
<1>3. proving' = (proving \union fast) \union defend
  BY DEF Spawn
<1> HIDE DEF fast, defend
<1>4. /\ Defenses' = Defenses \union defend
      /\ Finality' = Finality \union fast
  <2>1. Defenses' = {t \in proving' : t[2] = "defense"}
    BY DEF Defenses
  <2>2. Defenses' = Defenses \union defend
    BY <1>2, <1>3, <2>1 DEF Defenses
  <2> QED
    BY <1>2, <1>3, <2>2 DEF Defenses, Finality
<1>5. /\ IsFiniteSet(Defenses) /\ IsFiniteSet(Finality)
      /\ Cardinality(Finality) <= Cardinality(proving) /\ Cardinality(proving) \in Nat
  BY FS_Subset, FS_CardinalityType DEF LimitsOK, Defenses, Finality
<1>6. IsFiniteSet(proving')
  BY <1>2, <1>3, UnionBound DEF LimitsOK
<1>7. /\ Cardinality(Defenses') \in Nat /\ Cardinality(Finality') \in Nat
      /\ Cardinality(Defenses) \in Nat /\ Cardinality(Finality) \in Nat
      /\ Cardinality(R) \in Nat /\ Cardinality(D) \in Nat
      /\ Cardinality(Defenses') <= Cardinality(Defenses) + Cardinality(D)
      /\ Cardinality(Finality') <= Cardinality(Finality) + Cardinality(R)
  BY <1>2, <1>4, <1>5, UnionBound
<1>8. Cardinality(Defenses') <= MaxDefenses
  BY <1>7, ProposerAssumption DEF Spawn, CanDefend
<1>9. CASE R = {}
  <2>1. Cardinality(R) = 0
    BY <1>9, FS_EmptySet
  <2>2. Cardinality(Finality') <= ProvingLimit
    BY <1>7, <2>1, ProposerAssumption DEF LimitsOK
  <2>3. ASSUME FastFinality, creation' # NoTask PROVE Cardinality(Finality') < ProvingLimit
    <3>1. CASE create
      BY <1>5, <1>7, <2>1, <2>3, <3>1, ProposerAssumption DEF Spawn, ShouldCreate
    <3>2. CASE ~create
      BY <1>7, <2>1, <2>3, <3>2, ProposerAssumption DEF Spawn, LimitsOK
    <3> QED
      BY <3>1, <3>2
  <2> QED
    BY <1>6, <1>8, <2>2, <2>3 DEF LimitsOK
<1>10. CASE R # {}
  <2>1. creation = NoTask /\ Cardinality(R) + Cardinality(proving) <= ProvingLimit
    BY <1>10 DEF Spawn, CanResume
  <2>2. Cardinality(Finality') <= ProvingLimit
    BY <1>5, <1>7, <2>1, ProposerAssumption
  <2>3. ASSUME FastFinality, creation' # NoTask PROVE Cardinality(Finality') < ProvingLimit
    <3>1. create
      BY <2>1, <2>3 DEF Spawn
    <3> QED
      BY <1>5, <1>7, <2>3, <3>1, ProposerAssumption DEF Spawn, ShouldCreate
  <2> QED
    BY <1>6, <1>8, <2>2, <2>3 DEF LimitsOK
<1> QED
  BY <1>9, <1>10

LEMMA RegisterWithinLimits ==
    ASSUME LimitsOK, Register
    PROVE  LimitsOK'
<1>1. creation # NoTask /\ creation' = NoTask
  BY DEF Register, NoTask
<1>2. CASE proving' = proving
  BY <1>1, <1>2, FewerProofs
<1>3. CASE proving' # proving
  <2> DEFINE task == <<creation.index, "finality">>
  <2>1. FastFinality /\ proving' = proving \union {task}
    BY <1>3 DEF Register
  <2>2. task[2] = "finality"
    OBVIOUS
  <2> HIDE DEF task
  <2>3. Defenses' = Defenses /\ Finality' = Finality \union {task}
    <3>1. Defenses' = {t \in proving' : t[2] = "defense"}
      BY DEF Defenses
    <3> QED
      BY <2>1, <2>2, <3>1 DEF Defenses, Finality
  <2>4. IsFiniteSet(proving') /\ IsFiniteSet(Finality) /\ Cardinality(Finality) \in Nat
    BY <2>1, FS_AddElement, FS_Subset, FS_CardinalityType DEF LimitsOK, Finality
  <2>5. Cardinality(Finality') <= Cardinality(Finality) + 1 /\ Cardinality(Finality') \in Nat
    <3>1. Cardinality(Finality \union {task}) \in {Cardinality(Finality), Cardinality(Finality) + 1}
      BY <2>4, FS_AddElement
    <3> QED
      BY <2>3, <2>4, <3>1
  <2>6. Cardinality(Finality') <= ProvingLimit
    BY <1>1, <2>1, <2>4, <2>5, ProposerAssumption DEF LimitsOK
  <2> QED
    BY <1>1, <2>3, <2>4, <2>6 DEF LimitsOK
<1> QED
  BY <1>2, <1>3

LEMMA LimitsStep == ProposerInv /\ LimitsOK /\ [ProposerNext]_allVars => LimitsOK'
<1> SUFFICES ASSUME ProposerInv, LimitsOK, [ProposerNext]_allVars PROVE LimitsOK'
  OBVIOUS
<1>1. CASE World \/ Clock \/ L2Advances \/ Confirm \/ SyncUnchanged \/ SaveEnds \/ UNCHANGED allVars
  <2>1. UNCHANGED <<proving, creation>>
    BY <1>1 DEF World, Clock, L2Advances, Confirm, SyncUnchanged, SaveEnds,
       allVars, proposerVars, tasks
  <2> QED
    BY <2>1, FewerProofs
<1>2. ASSUME NEW n \in DOMAIN Stages, NEW pr \in RemovalsFinal, SyncState(n, pr) PROVE LimitsOK'
  <2>1. UNCHANGED <<proving, creation>>
    BY <1>2 DEF SyncState, tasks
  <2> QED
    BY <2>1, FewerProofs
<1>3. ASSUME NEW R \in SUBSET DOMAIN tracked, NEW D \in SUBSET DOMAIN tracked,
             NEW create \in BOOLEAN, Spawn(R, D, create)
      PROVE  LimitsOK'
  BY <1>3, SpawnWithinLimits
<1>4. CASE CreateSend \/ CreateMined
  <2>1. proving' = proving /\ creation # NoTask
    <3>1. proving' = proving /\ creation.stage # "none"
      BY <1>4 DEF CreateSend, CreateMined
    <3> QED
      BY <3>1 DEF NoTask
  <2>2. Defenses' = Defenses /\ Finality' = Finality
    BY <2>1 DEF Defenses, Finality
  <2> QED
    BY <2>1, <2>2 DEF LimitsOK
<1>5. CASE CreateFails
  BY <1>5, FewerProofs DEF CreateFails
<1>6. CASE Register
  BY <1>6, RegisterWithinLimits
<1>7. ASSUME NEW task \in proving, ProveSucceeds(task) \/ ProveFails(task) PROVE LimitsOK'
  BY <1>7, FewerProofs DEF ProveSucceeds, ProveFails
<1>8. ASSUME NEW k \in Kinds, NEW i \in pending[k], Attempt(k, i) \/ PassOver(k, i) PROVE LimitsOK'
  BY <1>8, FewerProofs DEF Attempt, PassOver
<1>9. CASE Restart
  BY <1>9, FewerProofs DEF Restart
<1>10. ASSUME NEW tx \in mempool, LandsLate(tx) PROVE LimitsOK'
  BY <1>10, FewerProofs DEF LandsLate, tasks
<1> QED
  BY <1>1, <1>2, <1>3, <1>4, <1>5, <1>6, <1>7, <1>8, <1>9, <1>10
     DEF ProposerNext, Loop, CreationStep, TaskStep

(* However proofs are resumed, begun for a game just created, lost in a    *)
(* crash or given up on, never more run than the configuration allows      *)
(* (count_active_proving_tasks, spawn_game_defense_tasks).                 *)
THEOREM LimitsHold == ProposerSpec => []ProofsWithinLimits
<1>1. ProposerInit => LimitsOK
  <2> SUFFICES ASSUME ProposerInit PROVE LimitsOK
    OBVIOUS
  <2>1. proving = {} /\ creation = NoTask /\ Defenses = {} /\ Finality = {}
    BY DEF ProposerInit, Defenses, Finality
  <2> QED
    BY <2>1, FS_EmptySet, ProposerAssumption DEF LimitsOK
<1>2. LimitsOK => ProofsWithinLimits
  BY DEF LimitsOK, ProofsWithinLimits, Finality
<1> QED
  BY ProposerInvariant, LimitsStep, <1>1, <1>2, PTL DEF ProposerSpec
-----------------------------------------------------------------------------
(* A proposer that keeps pace.                                             *)

(* A challenge or a proof is not taken back, and fixes the deadline.       *)
Firm(g, h) ==
    /\ g.proposal # "Unchallenged" => h.proposal # "Unchallenged" /\ h.deadline = g.deadline
    /\ g.prover # NoAddress => h.prover # NoAddress

(* A game that a step changes was challenged in time, lost for a reason,   *)
(* or aged otherwise.                                                      *)
Moves(j, h) ==
    /\ Firm(games[j], h)
    /\ (\/ h.deadline # games[j].deadline
        \/ h.proposal = "Challenged" /\ games[j].proposal # "Challenged") =>
          /\ games[j].proposal = "Unchallenged" /\ ~GameOver(games[j])
          /\ h.proposal = "Challenged" /\ h.deadline = now + MaxProveDuration
    /\ h.proposal = "Unchallenged" => games[j].proposal = "Unchallenged"
    /\ h.status = "CHALLENGER_WINS" /\ games[j].status # "CHALLENGER_WINS" =>
          \/ games[j].gameType = "other"
          \/ ParentGameStatus(games[j]) = "CHALLENGER_WINS"
          \/ games[j].proposal = "Challenged" /\ GameOver(games[j])

LEMMA MovesNot ==
    ASSUME NEW j PROVE Moves(j, games[j])
BY DEF Moves, Firm

LEMMA ChallengedMoves ==
    ASSUME ChainInv, NEW i \in Indices, NEW a, Challenge(i, a)
    PROVE  Moves(i, Challenged(games[i], a))
<1>1. games[i] \in Game
  BY GamesTyped
<1>2. games[i].status = "IN_PROGRESS" /\ games[i].prover = NoAddress
  BY GamesTyped DEF Challenge, GameInv, RolesOK
<1> DEFINE h == Challenged(games[i], a)
<1>3. /\ h.proposal = "Challenged" /\ h.deadline = now + MaxProveDuration
      /\ h.status = games[i].status /\ h.prover = games[i].prover
  BY <1>1 DEF Challenged, Game
<1> HIDE DEF h
<1>4. Moves(i, h)
  BY <1>2, <1>3 DEF Moves, Firm, Challenge
<1> QED
  BY <1>4 DEF h

LEMMA ProvedMoves ==
    ASSUME ChainInv, NEW i \in Indices, NEW a, a # NoAddress
    PROVE  Moves(i, Proved(games[i], a))
<1>1. games[i] \in Game
  BY GamesTyped
<1> DEFINE h == Proved(games[i], a)
<1>3. /\ h.proposal \in {"UnchallengedAndValidProofProvided", "ChallengedAndValidProofProvided"}
      /\ h.deadline = games[i].deadline
      /\ h.status = games[i].status /\ h.prover = a
  BY <1>1 DEF Proved, Game
<1> HIDE DEF h
<1>4. Moves(i, h)
  BY <1>3 DEF Moves, Firm
<1> QED
  BY <1>4 DEF h

LEMMA ResolvedMoves ==
    ASSUME ChainInv, NEW i \in Indices, Resolve(i)
    PROVE  Moves(i, Resolved(games[i]))
<1>1. games[i] \in Game
  BY GamesTyped
<1> DEFINE h == Resolved(games[i])
<1>3. /\ h.proposal = "Resolved" /\ h.deadline = games[i].deadline
      /\ h.status = Verdict(games[i]) /\ h.prover = games[i].prover
  BY <1>1 DEF Resolved, Game
<1>4. CanResolve(games[i])
  BY DEF Resolve
<1> HIDE DEF h
<1>5. h.status = "CHALLENGER_WINS" =>
          \/ ParentGameStatus(games[i]) = "CHALLENGER_WINS"
          \/ games[i].proposal = "Challenged" /\ GameOver(games[i])
  BY <1>3, <1>4 DEF Verdict, CanResolve
<1>6. Moves(i, h)
  BY <1>3, <1>5 DEF Moves, Firm
<1> QED
  BY <1>6 DEF h

(* Closing and paying leave the dispute alone.                             *)
LEMMA SameDisputeMoves ==
    ASSUME NEW i, NEW h, h.proposal = games[i].proposal, h.deadline = games[i].deadline,
           h.prover = games[i].prover,
           h.status = games[i].status \/ games[i].gameType = "other"
    PROVE  Moves(i, h)
BY DEF Moves, Firm

(* Every step leaves the games alone, adds one or moves one of them.       *)
LEMMA GamesMove ==
    ASSUME ChainInv, [Next]_vars
    PROVE  \/ games' = games
           \/ /\ Len(games) < MaxGames
              /\ \E h \in Game : /\ games' = Append(games, h) /\ h.gameType \in TypesInUse
                                 /\ h.proposal = "Unchallenged" /\ h.status = "IN_PROGRESS"
                                 /\ h.createdAt = now
                                 /\ h.deadline = now + MaxChallengeDuration
           \/ \E i \in Indices, h \in Game : games' = [games EXCEPT ![i] = h] /\ Moves(i, h)
<1> DEFINE Same == games' = games
           Adds(h) == /\ games' = Append(games, h) /\ h.gameType \in TypesInUse
                      /\ h.proposal = "Unchallenged" /\ h.status = "IN_PROGRESS"
                      /\ h.createdAt = now /\ h.deadline = now + MaxChallengeDuration
           Alters(i, h) == games' = [games EXCEPT ![i] = h] /\ Moves(i, h)
           Goal == \/ Same
                   \/ Len(games) < MaxGames /\ \E h \in Game : Adds(h)
                   \/ \E i \in Indices, h \in Game : Alters(i, h)
<1> SUFFICES Goal
  OBVIOUS
<1>0. /\ TypeOK /\ now \in Nat
      /\ \A i \in Indices : games[i] \in Game /\ GameInv(games[i])
  BY GamesTyped DEF ChainInv, BondInv
<1>1. CASE PassTime \/ OwnerStep \/ RegistryStep \/ UNCHANGED vars
  BY <1>1 DEF PassTime, OwnerStep, RegistryStep, vars
<1>2. ASSUME NEW a \in Actors, NEW p \in {NoParent} \union Indices, NEW b \in 1..MaxBlock,
             NEW r \in Roots, Create(a, p, b, r)
      PROVE  Goal
  <2> DEFINE h == NewGame("succinct", a, p, b, r)
  <2>1. h \in Game
    BY <1>0, <1>2, NewGameOK DEF Create, CreationBound, GameTypes
  <2>2. Adds(h) /\ Len(games) < MaxGames
    BY <1>2 DEF Create, CreationBound, NewGame
  <2> QED
    BY <2>1, <2>2
<1>3. ASSUME NEW b \in 1..MaxBlock, NEW r \in Roots, CreateOther(b, r)
      PROVE  Goal
  <2> DEFINE c == CHOOSE a \in Actors : TRUE
             h == NewGame("other", c, NoParent, b, r)
  <2>0. c \in Actors
    BY FactoryAssumption
  <2>1. h \in Game
    BY <1>0, <1>3, <2>0, NewGameOK DEF CreateOther, CreationBound, GameTypes
  <2>2. Adds(h) /\ Len(games) < MaxGames
    BY <1>3 DEF CreateOther, CreationBound, NewGame
  <2> QED
    BY <2>1, <2>2
<1>4. ASSUME NEW i \in Indices, NEW v \in GameStatuses \ {"IN_PROGRESS"}, ResolveOther(i, v)
      PROVE  Goal
  <2>1. PICK h : h = [games[i] EXCEPT !.status = v, !.resolvedAt = now]
    OBVIOUS
  <2>2. games' = [games EXCEPT ![i] = h] /\ games[i].gameType = "other"
    BY <1>4, <2>1 DEF ResolveOther
  <2>3. h \in Game /\ h.proposal = games[i].proposal /\ h.deadline = games[i].deadline
        /\ h.prover = games[i].prover
    BY <1>0, <2>1 DEF Game
  <2>4. Moves(i, h)
    BY <2>2, <2>3, SameDisputeMoves
  <2> QED
    BY <2>2, <2>3, <2>4
<1>5. ASSUME NEW i \in Indices, NEW a \in Actors, Challenge(i, a)
      PROVE  Goal
  <2>1. PICK h : h = Challenged(games[i], a)
    OBVIOUS
  <2>2. games' = [games EXCEPT ![i] = h] /\ Moves(i, h)
    BY <1>5, <2>1, ChallengedMoves DEF Challenge
  <2>3. h \in Game
    BY <1>0, <1>5, <2>1, ChallengedKeeps DEF Challenge
  <2> QED
    BY <2>2, <2>3
<1>6. ASSUME NEW i \in Indices, NEW a \in Actors, Prove(i, a)
      PROVE  Goal
  <2>1. PICK h : h = Proved(games[i], a)
    OBVIOUS
  <2>2. games' = [games EXCEPT ![i] = h] /\ Moves(i, h)
    BY <1>6, <2>1, ProvedMoves, FactoryAssumption DEF Prove
  <2>3. h \in Game
    BY <1>0, <1>6, <2>1, ProvedKeeps DEF Prove, GameOver
  <2> QED
    BY <2>2, <2>3
<1>7. ASSUME NEW i \in Indices, Resolve(i)
      PROVE  Goal
  <2>1. PICK h : h = Resolved(games[i])
    OBVIOUS
  <2>2. games' = [games EXCEPT ![i] = h] /\ Moves(i, h)
    BY <1>7, <2>1, ResolvedMoves DEF Resolve
  <2>3. h \in Game
    BY <1>0, <1>7, <2>1, ResolvedKeeps DEF Resolve
  <2> QED
    BY <2>2, <2>3
<1>8. ASSUME NEW i \in Indices, CloseGame(i)
      PROVE  Goal
  <2>1. PICK h : h = [games[i] EXCEPT !.mode = ModeAfterClose(i)]
    OBVIOUS
  <2>2. games' = [games EXCEPT ![i] = h]
    BY <1>8, <2>1 DEF CloseGame
  <2>3. ModeAfterClose(i) \in BondDistributionModes
    BY <1>0 DEF ModeAfterClose, Game, BondDistributionModes
  <2>4. /\ h \in Game /\ h.proposal = games[i].proposal /\ h.deadline = games[i].deadline
        /\ h.prover = games[i].prover /\ h.status = games[i].status
    BY <1>0, <2>1, <2>3 DEF Game
  <2> QED
    BY <2>2, <2>4, SameDisputeMoves
<1>9. ASSUME NEW i \in Indices, NEW a \in Addresses, ClaimCredit(i, a)
      PROVE  Goal
  <2>1. PICK h : h = Paid(games[i], ModeAfterClose(i), a)
    OBVIOUS
  <2>2. games' = [games EXCEPT ![i] = h]
    BY <1>9, <2>1 DEF ClaimCredit
  <2>3. /\ h.proposal = games[i].proposal /\ h.deadline = games[i].deadline
        /\ h.prover = games[i].prover /\ h.status = games[i].status
    BY <1>0, <2>1 DEF Paid, Game
  <2>4. h \in Game
    <3>1. games' \in Seq(Game)
      BY ChainInvStep DEF ChainInv, BondInv, TypeOK
    <3>2. games \in Seq(Game) /\ Len(games) \in Nat
      BY GamesTyped
    <3>3. Len(games') = Len(games) /\ games'[i] = h
      BY <2>2, <3>2 DEF Indices
    <3> QED
      BY <3>1, <3>2, <3>3, ElementOfSeq DEF Indices
  <2> QED
    BY <2>2, <2>3, <2>4, SameDisputeMoves
<1> QED
  BY <1>1, <1>2, <1>3, <1>4, <1>5, <1>6, <1>7, <1>8, <1>9 DEF Next

LEMMA EachMoves ==
    ASSUME ChainInv, [Next]_vars
    PROVE  /\ \A j \in Indices : j \in Indices' /\ Moves(j, games'[j])
           /\ Len(games') = Len(games)
              \/ (Len(games') = Len(games) + 1 /\ Len(games) < MaxGames)
           /\ \A j \in Indices' \ Indices :
                 LET h == games'[j] IN
                 /\ h.gameType \in TypesInUse /\ h.proposal = "Unchallenged"
                 /\ h.status = "IN_PROGRESS" /\ h.createdAt = now
                 /\ h.deadline = now + MaxChallengeDuration
<1> DEFINE New(h) == /\ h.gameType \in TypesInUse /\ h.proposal = "Unchallenged"
                     /\ h.status = "IN_PROGRESS" /\ h.createdAt = now
                     /\ h.deadline = now + MaxChallengeDuration
           Goal == /\ \A j \in Indices : j \in Indices' /\ Moves(j, games'[j])
                   /\ Len(games') = Len(games)
                      \/ (Len(games') = Len(games) + 1 /\ Len(games) < MaxGames)
                   /\ \A j \in Indices' \ Indices : New(games'[j])
<1> SUFFICES Goal
  OBVIOUS
<1>0. games \in Seq(Game) /\ Len(games) \in Nat
  BY GamesTyped
<1>1. CASE games' = games
  BY <1>1, MovesNot DEF Indices
<1>2. ASSUME Len(games) < MaxGames, NEW h \in Game, games' = Append(games, h), New(h)
      PROVE  Goal
  <2> HIDE DEF New
  <2>1. /\ Len(games') = Len(games) + 1 /\ games'[Len(games) + 1] = h
        /\ \A j \in 1..Len(games) : games'[j] = games[j]
    BY <1>0, <1>2
  <2>2. \A j \in Indices : j \in Indices' /\ Moves(j, games'[j])
    BY <1>0, <2>1, MovesNot DEF Indices
  <2>3. \A j \in Indices' \ Indices : j = Len(games) + 1
    BY <1>0, <2>1 DEF Indices
  <2> QED
    BY <1>2, <2>1, <2>2, <2>3
<1>3. ASSUME NEW i \in Indices, NEW h \in Game, games' = [games EXCEPT ![i] = h], Moves(i, h)
      PROVE  Goal
  <2>1. /\ Len(games') = Len(games)
        /\ \A j \in 1..Len(games) : games'[j] = IF j = i THEN h ELSE games[j]
    BY <1>0, <1>3, ExceptSeq DEF Indices
  <2>2. \A j \in Indices : j \in Indices' /\ Moves(j, games'[j])
    BY <1>3, <2>1, MovesNot DEF Indices
  <2>3. Indices' = Indices
    BY <2>1 DEF Indices
  <2> QED
    BY <2>1, <2>2, <2>3
<1> QED
  BY <1>1, <1>2, <1>3, GamesMove

(* Canonical on canonical claims.                                          *)
Sound(i) == \A j \in Ancestors(i) : ValidGame(games[j])

(* The games to defend.                                                    *)
Open == {i \in Indices : Sound(i) /\ games[i].proposal = "Challenged"}

LEMMA ParentSound ==
    ASSUME ChainInv, NEW i \in Indices, Sound(i)
    PROVE  /\ ValidGame(games[i])
           /\ games[i].parent # NoParent => games[i].parent \in Indices /\ Sound(games[i].parent)
<1>0. PointsBack(games)
  BY GamesPointBack
<1>1. \A k \in Indices, j \in Indices :
         k \in Descendants(j, Indices) <=>
             \/ k = j
             \/ k \in Indices /\ games[k].parent # NoParent
                /\ games[k].parent \in Descendants(j, Indices)
  <2> TAKE k \in Indices, j \in Indices
  <2>1. k \in 1..Len(games)
    BY DEF Indices
  <2>2. k \in DescendantsIn(games, j, Indices) <=>
             \/ k = j
             \/ k \in Indices /\ games[k].parent # NoParent
                /\ games[k].parent \in DescendantsIn(games, j, Indices)
    BY <1>0, <2>1, DescendantsRule
  <2> QED
    BY <2>2, DescendantsAre
<1>2. i \in Ancestors(i)
  BY <1>1 DEF Ancestors
<1>3. ASSUME games[i].parent # NoParent
      PROVE  games[i].parent \in Indices /\ Sound(games[i].parent)
  <2>1. games[i].parent \in Indices
    BY <1>0, <1>3 DEF PointsBack, Indices, NoParent
  <2>2. Ancestors(games[i].parent) \subseteq Ancestors(i)
    BY <1>1, <1>3 DEF Ancestors
  <2> QED
    BY <2>1, <2>2 DEF Sound
<1> QED
  BY <1>2, <1>3 DEF Sound

LEMMA SoundBefore ==
    ASSUME OrderInv, [Next]_vars, NEW i \in Indices, Sound(i)'
    PROVE  Sound(i)
<1> SUFFICES ASSUME NEW j \in Ancestors(i) PROVE ValidGame(games[j])
  BY DEF Sound
<1>1. j \in Ancestors(i)' /\ j \in Indices
  BY AncestorsStay DEF Ancestors
<1>2. ValidGame(games'[j])
  BY <1>1 DEF Sound, ValidGame, Supported
<1> QED
  BY <1>1, <1>2, VerdictsStay

(* A game to defend was one before, or has just been challenged.           *)
LEMMA OpenMoves ==
    ASSUME OrderInv, [Next]_vars, NEW i \in Open'
    PROVE  /\ i \in Indices /\ Sound(i) /\ ValidGame(games[i])
           /\ games[i].status = "IN_PROGRESS" /\ games[i].prover = NoAddress
           /\ \/ i \in Open /\ games'[i].deadline = games[i].deadline
              \/ /\ games[i].proposal = "Unchallenged" /\ ~GameOver(games[i])
                 /\ games'[i].deadline = now + MaxProveDuration
<1>0. ChainInv
  BY DEF OrderInv
<1>1. i \in Indices' /\ games'[i].proposal = "Challenged"
  BY DEF Open
<1>2. i \in Indices
  BY <1>0, <1>1, EachMoves
<1>3. Sound(i) /\ ValidGame(games[i])
  BY <1>0, <1>2, SoundBefore, ParentSound DEF Open
<1>4. Moves(i, games'[i])
  BY <1>0, <1>2, EachMoves
<1>5. games[i].proposal \in {"Unchallenged", "Challenged"}
  BY <1>1, <1>4 DEF Moves
<1>6. games[i].status = "IN_PROGRESS" /\ games[i].prover = NoAddress
  BY <1>0, <1>2, <1>3, <1>5, GamesTyped DEF GameInv, RolesOK, ValidGame, Supported
<1> QED
  BY <1>1, <1>2, <1>3, <1>4, <1>5, <1>6 DEF Moves, Firm, Open

LEMMA OpenFacts ==
    ASSUME ChainInv, NEW i \in Open
    PROVE  /\ i \in Indices /\ games[i] \in Game /\ games[i].deadline \in Nat
           /\ games[i].createdAt \in Nat
           /\ ValidGame(games[i]) /\ games[i].status = "IN_PROGRESS"
           /\ games[i].prover = NoAddress
<1>1. i \in Indices /\ ValidGame(games[i]) /\ games[i] \in Game
  BY ParentSound, GamesTyped DEF Open
<1>2. games[i].status = "IN_PROGRESS" /\ games[i].prover = NoAddress
  BY <1>1, GamesTyped DEF Open, GameInv, RolesOK, ValidGame, Supported
<1> QED
  BY <1>1, <1>2 DEF Game

(* The list a proposer that can keep up faces, and how long each dispute   *)
(* lasts at most.                                                          *)
ListOK ==
    /\ Len(games) <= MaxGames
    /\ \A i \in Indices :
          /\ Supported(games[i])
          /\ games[i].deadline <= games[i].createdAt + MaxChallengeDuration + MaxProveDuration
          /\ games[i].proposal = "Unchallenged" =>
                games[i].deadline <= games[i].createdAt + MaxChallengeDuration

LEMMA ListStep ==
    ASSUME Defensible, OrderInv, ListOK, [Next]_vars
    PROVE  ListOK'
<1>0. /\ ChainInv /\ Len(games) \in Nat /\ now \in Nat
      /\ MaxChallengeDuration \in Nat /\ MaxProveDuration \in Nat /\ MaxGames \in Nat
      /\ \A j \in Indices : games[j] \in Game
  BY GamesTyped, GameAssumption, FactoryAssumption DEF OrderInv
<1>1. Len(games') <= MaxGames
  BY <1>0, EachMoves DEF ListOK
<1>2. ASSUME NEW i \in Indices
      PROVE  /\ Supported(games'[i])
             /\ games'[i].deadline <= games'[i].createdAt + MaxChallengeDuration + MaxProveDuration
             /\ games'[i].proposal = "Unchallenged" =>
                   games'[i].deadline <= games'[i].createdAt + MaxChallengeDuration
  <2>1. Supported(games'[i]) /\ games'[i].createdAt = games[i].createdAt
    BY VerdictsStay DEF ListOK
  <2>2. Moves(i, games'[i])
    BY <1>0, EachMoves
  <2>3. games[i].createdAt \in Nat /\ games[i].deadline \in Nat
    BY <1>0 DEF Game
  <2>4. CASE games'[i].deadline = games[i].deadline
    BY <2>1, <2>2, <2>4 DEF ListOK, Moves
  <2>5. CASE games'[i].deadline # games[i].deadline
    <3>1. /\ games'[i].deadline = now + MaxProveDuration /\ games'[i].proposal = "Challenged"
          /\ ~(games[i].deadline < now) /\ games[i].proposal = "Unchallenged"
      BY <2>2, <2>5 DEF Moves, GameOver
    <3>2. games[i].deadline <= games[i].createdAt + MaxChallengeDuration
      BY <3>1 DEF ListOK
    <3>3. now + MaxProveDuration <= games[i].createdAt + MaxChallengeDuration + MaxProveDuration
      BY <1>0, <2>3, <3>1, <3>2
    <3> QED
      BY <2>1, <3>1, <3>3
  <2> QED
    BY <2>4, <2>5
<1>3. ASSUME NEW i \in Indices' \ Indices
      PROVE  /\ Supported(games'[i])
             /\ games'[i].deadline <= games'[i].createdAt + MaxChallengeDuration + MaxProveDuration
             /\ games'[i].proposal = "Unchallenged" =>
                   games'[i].deadline <= games'[i].createdAt + MaxChallengeDuration
  <2>1. /\ games'[i].gameType \in TypesInUse /\ games'[i].createdAt = now
        /\ games'[i].deadline = now + MaxChallengeDuration
    BY <1>0, EachMoves
  <2>2. Supported(games'[i])
    BY <2>1, GameAssumption DEF Defensible, GameTypes, Supported
  <2> QED
    BY <1>0, <2>1, <2>2
<1> QED
  BY <1>1, <1>2, <1>3 DEF ListOK, Supported

(* Every game to defend has time left.                                     *)
InTime == \A i \in Open : now < games[i].deadline

(* Then nothing canonical is lost.                                         *)
LEMMA SurviveStep ==
    ASSUME OrderInv, ListOK, InTime, CanonicalClaimsSurvive, [Next]_vars
    PROVE  CanonicalClaimsSurvive'
<1>0. ChainInv /\ now \in Nat
  BY GamesTyped DEF OrderInv
<1> SUFFICES ASSUME NEW i \in Indices', Sound(i)', games'[i].status = "CHALLENGER_WINS"
             PROVE  FALSE
  BY DEF CanonicalClaimsSurvive, Sound, Succinct
<1>1. CASE i \notin Indices
  BY <1>0, <1>1, EachMoves
<1>2. CASE i \in Indices
  <2>1. Sound(i) /\ ValidGame(games[i]) /\ Moves(i, games'[i])
    BY <1>0, <1>2, SoundBefore, ParentSound, EachMoves
  <2>2. \A j \in Indices : Sound(j) => games[j].status # "CHALLENGER_WINS"
    BY DEF CanonicalClaimsSurvive, Sound, Succinct, ListOK, Supported
  <2>3. \/ ParentGameStatus(games[i]) = "CHALLENGER_WINS"
        \/ games[i].proposal = "Challenged" /\ GameOver(games[i])
    BY <1>2, <2>1, <2>2 DEF Moves, ValidGame, Supported
  <2>4. ParentGameStatus(games[i]) # "CHALLENGER_WINS"
    BY <1>0, <1>2, <2>1, <2>2, ParentSound DEF ParentGameStatus
  <2>5. CASE games[i].proposal = "Challenged" /\ GameOver(games[i])
    <3>1. i \in Open
      BY <1>2, <2>1, <2>5 DEF Open
    <3>2. now < games[i].deadline /\ games[i].prover = NoAddress /\ games[i].deadline \in Nat
      BY <1>0, <3>1, OpenFacts DEF InTime
    <3> QED
      BY <1>0, <2>5, <3>2 DEF GameOver
  <2> QED
    BY <2>3, <2>4, <2>5
<1> QED
  BY <1>1, <1>2

(* What is known of the confirmed block: challenges and proofs in it are   *)
(* there at the head too, and when it is of the current second it shows    *)
(* every challenge of the seconds before.                                  *)
FreshOK ==
    /\ pinned.now \in Nat /\ pinned.now <= now
    /\ \A i \in PinnedIndices : Firm(pinned.games[i], games[i])
    /\ pinned.now = now =>
          \A i \in Open : games[i].deadline < now + MaxProveDuration =>
              i \in PinnedIndices /\ pinned.games[i].proposal = "Challenged"

LEMMA FirmTransitive ==
    ASSUME NEW g, NEW h, NEW k, Firm(g, h), Firm(h, k)
    PROVE  Firm(g, k)
BY DEF Firm

LEMMA FreshStep ==
    ASSUME ProposerInv, FreshOK, [Next]_vars, UNCHANGED <<pinned, now>>
    PROVE  FreshOK'
<1>0. /\ OrderInv /\ ChainInv /\ now \in Nat /\ MaxProveDuration \in Nat
      /\ PinnedIndices \subseteq Indices /\ PinnedIndices' = PinnedIndices
  BY GamesTyped, GameAssumption, PinnedFacts DEF ProposerInv, OrderInv, PinnedIndices
<1>1. \A i \in PinnedIndices : Firm(pinned.games[i], games'[i])
  BY <1>0, EachMoves, FirmTransitive DEF FreshOK, Moves
<1>2. ASSUME pinned.now = now, NEW i \in Open', games'[i].deadline < now + MaxProveDuration
      PROVE  i \in PinnedIndices /\ pinned.games[i].proposal = "Challenged"
  <2>1. i \in Open /\ games'[i].deadline = games[i].deadline
    BY <1>0, <1>2, OpenMoves
  <2> QED
    BY <1>2, <2>1 DEF FreshOK
<1> QED
  BY <1>0, <1>1, <1>2 DEF FreshOK

LEMMA ConfirmFresh ==
    ASSUME ProposerInv, Confirm
    PROVE  FreshOK'
<1>0. now \in Nat /\ games' = games /\ now' = now
      /\ pinned' = [games |-> games, anchor |-> anchorGame, now |-> now]
  BY GamesTyped DEF ProposerInv, OrderInv, Confirm, vars
<1>1. pinned'.games = games /\ pinned'.now = now /\ PinnedIndices' = Indices' /\ Indices' = Indices
  BY <1>0 DEF PinnedIndices, Indices
<1>2. \A i \in Indices : Firm(games[i], games[i])
  BY DEF Firm
<1>3. \A i \in Open' : i \in Indices' /\ games'[i].proposal = "Challenged"
  BY DEF Open
<1> QED
  BY <1>0, <1>1, <1>2, <1>3 DEF FreshOK

LEMMA ClockFresh ==
    ASSUME ProposerInv, FreshOK, Clock
    PROVE  FreshOK'
<1>1. now \in Nat /\ now' = now + 1 /\ games' = games /\ pinned' = pinned
  BY GamesTyped DEF ProposerInv, OrderInv, Clock, PassTime, Tick, proposerVars, outside
<1>2. pinned'.now \in Nat /\ pinned'.now <= now' /\ pinned'.now # now'
  BY <1>1 DEF FreshOK
<1> QED
  BY <1>1, <1>2 DEF FreshOK, PinnedIndices

(* A game's ancestors include those of its ancestors.                      *)
LEMMA AncestorsOfAncestors ==
    ASSUME ChainInv, NEW i \in Indices, NEW j \in Ancestors(i)
    PROVE  Ancestors(j) \subseteq Ancestors(i)
<1> SUFFICES ASSUME NEW k \in Indices, j \in Descendants(k, Indices)
             PROVE  i \in Descendants(k, Indices)
  BY DEF Ancestors
<1> DEFINE B == DescendantsIn(games, j, Indices)
           A == DescendantsIn(games, k, Indices)
           T == B \ A
<1>0. PointsBack(games)
  BY GamesPointBack
<1>1. Len(games) \in Nat /\ B \subseteq 1..Len(games) /\ j \in A /\ i \in B
  BY <1>0, DescendantsAre DEF PointsBack, DescendantsIn, Ancestors
<1>2. \A x \in 1..Len(games) :
         x \in B <=> \/ x = j
                     \/ x \in Indices /\ games[x].parent # NoParent /\ games[x].parent \in B
  BY <1>0, DescendantsRule
<1>3. \A x \in 1..Len(games) :
         x \in A <=> \/ x = k
                     \/ x \in Indices /\ games[x].parent # NoParent /\ games[x].parent \in A
  BY <1>0, DescendantsRule
<1> HIDE DEF A, B
<1>4. ASSUME T # {} PROVE FALSE
  <2>1. PICK x \in T : \A y \in T : x <= y
    <3>1. T \in SUBSET Nat
      <4>1. \A x \in B : x \in Nat
        BY <1>1
      <4> QED
        BY <4>1
    <3> HIDE DEF T
    <3> QED
      BY <1>4, <3>1, LeastNatural
  <2>2. x \in 1..Len(games) /\ x \in B /\ x \notin A
    BY <1>1, <2>1
  <2>3. games[x].parent \in 0..(x - 1)
    BY <1>0, <2>2 DEF PointsBack
  <2>4. games[x].parent \in T
    BY <1>1, <1>2, <1>3, <2>2 DEF Indices
  <2>5. x <= games[x].parent
    BY <2>1, <2>4
  <2> QED
    BY <2>2, <2>3, <2>5
<1>5. i \in A
  BY <1>1, <1>4
<1> QED
  BY <1>5, DescendantsAre DEF A

(* A game to defend is never gone: its chain has not lost, and no scan is  *)
(* too late for it.                                                        *)
LEMMA OpenNotGone ==
    ASSUME Defensible, OrderInv, ListOK, InTime, CanonicalClaimsSurvive, NEW i \in Open
    PROVE  ~Gone(i)
<1>0. /\ ChainInv /\ i \in Indices /\ ValidGame(games[i]) /\ games[i].status = "IN_PROGRESS"
      /\ now \in Nat /\ games[i].deadline \in Nat /\ games[i].createdAt \in Nat
      /\ MaxChallengeDuration \in Nat /\ MaxProveDuration \in Nat /\ MaxDeadlineLag \in Nat
      /\ Sound(i)
  BY OpenFacts, GamesTyped, GameAssumption, ProposerAssumption DEF OrderInv, Open
<1>1. ASSUME NEW j \in Ancestors(i) PROVE games[j].status # "CHALLENGER_WINS"
  <2>1. j \in Indices /\ Ancestors(j) \subseteq Ancestors(i)
    BY <1>0, AncestorsOfAncestors DEF Ancestors
  <2>2. \A k \in Ancestors(j) : ValidGame(games[k])
    BY <1>0, <2>1 DEF Sound
  <2> QED
    BY <2>1, <2>2 DEF CanonicalClaimsSurvive, Succinct, ListOK, Supported
<1>2. ~PaidOut(i)
  BY <1>0 DEF PaidOut
<1>3. ~OutOfReach(i)
  <2>1. \A j \in Ancestors(i) : ValidGame(games[j])
    BY <1>0 DEF Sound
  <2>2. \A j \in Indices : Supported(games[j])
    BY DEF ListOK
  <2>3. now < games[i].deadline
        /\ games[i].deadline <= games[i].createdAt + MaxChallengeDuration + MaxProveDuration
    BY <1>0 DEF InTime, ListOK
  <2>4. MaxDeadlineLag >= 2 * (MaxChallengeDuration + MaxProveDuration)
    BY DEF Defensible
  <2>5. ~(now + MaxChallengeDuration + MaxProveDuration - games[i].createdAt > MaxDeadlineLag)
    <3>1. PICK n \in Nat, d \in Nat, a \in Nat, c \in Nat, p \in Nat, l \in Nat :
             /\ n = now /\ d = games[i].deadline /\ a = games[i].createdAt
             /\ c = MaxChallengeDuration /\ p = MaxProveDuration /\ l = MaxDeadlineLag
      BY <1>0
    <3>2. n < d /\ d <= a + c + p /\ l >= 2 * (c + p)
      BY <2>3, <2>4, <3>1
    <3>3. ~(n + c + p - a > l)
      BY <3>2
    <3> QED
      BY <3>1, <3>3
  <2> QED
    BY <2>1, <2>2, <2>5 DEF OutOfReach
<1> QED
  BY <1>0, <1>1, <1>2, <1>3 DEF Gone

LEMMA GoneOnlyByGames ==
    ASSUME UNCHANGED <<games, now>>, NEW i, Gone(i)'
    PROVE  Gone(i)
<1>1. \A j : Descendants(j, Indices)' = DescendantsIn(games', j, Indices')
  BY Zenon DEF Descendants, DescendantsIn, Indices
<1>2. Indices' = Indices /\ \A j : Descendants(j, Indices)' = Descendants(j, Indices)
  <2>1. Indices' = Indices
    BY DEF Indices
  <2> QED
    BY <1>1, <2>1, DescendantsAre
<1>3. Ancestors(i)' = Ancestors(i)
  BY <1>2 DEF Ancestors
<1>4. PaidOut(i)' <=> PaidOut(i)
  BY DEF PaidOut, Credit
<1>5. OutOfReach(i)' <=> OutOfReach(i)
  BY <1>2, <1>3 DEF OutOfReach, Supported, ValidGame
<1> QED
  BY <1>3, <1>4, <1>5 DEF Gone, ValidGame, Supported

(* When the loop comes to spawn tasks, the cache has the deadlines of the  *)
(* confirmed block and every game to defend that is challenged there.      *)
AlertOK ==
    phase = "spawn" \/ complete =>
        /\ \A i \in DOMAIN tracked : tracked[i] = pinned.games[i].deadline
        /\ \A i \in Open : i \in PinnedIndices /\ pinned.games[i].proposal = "Challenged" =>
              i \in DOMAIN tracked

LEMMA AlertAges ==
    ASSUME ProposerInv, FreshOK, AlertOK, [Next]_vars, UNCHANGED <<pinned, tracked>>,
           phase' = "spawn" \/ complete' => phase = "spawn" \/ complete
    PROVE  AlertOK'
<1>0. OrderInv /\ PinnedIndices' = PinnedIndices
  BY DEF ProposerInv, PinnedIndices
<1>1. ASSUME NEW i \in Open', i \in PinnedIndices, pinned.games[i].proposal = "Challenged"
      PROVE  i \in Open
  <2>1. games[i].proposal # "Unchallenged"
    BY <1>1 DEF FreshOK, Firm
  <2> QED
    BY <1>0, <2>1, OpenMoves
<1> QED
  BY <1>0, <1>1 DEF AlertOK

LEMMA SyncAlert ==
    ASSUME Defensible, ProposerInv, ListOK, InTime, CanonicalClaimsSurvive,
           NEW n \in DOMAIN Stages, NEW pr, SyncState(n, pr)
    PROVE  AlertOK'
<1> DEFINE did(stage) == \E k \in 1..n : Stages[k] = stage
           discovered == Discovered(Loaded)
           lost == Lost(discovered)
           kept == {i \in discovered \ lost : ~Settled(i)}
           cached == IF did("statuses") THEN kept
                     ELSE IF did("discovered") THEN discovered ELSE CachedBefore
<1>1. /\ UNCHANGED vars /\ UNCHANGED <<games, now, pinned>>
      /\ synced' = Len(pinned.games)
      /\ complete' = did("done")
      /\ phase' = IF did("done") THEN "spawn" ELSE "sync"
      /\ cursor' = IF did("discovered") THEN Len(pinned.games) ELSE CursorBefore
  BY DEF SyncState, vars
<1>2. tracked' = [i \in cached |-> IF did("statuses") THEN DeadlineAfter(i) ELSE DeadlineBefore(i)]
  BY Zenon DEF SyncState
<1>3. did("done") => did("statuses") /\ did("discovered")
  BY DEF Stages
<1>4. did("done") \in BOOLEAN
  OBVIOUS
<1> HIDE DEF did, cached, kept, lost, discovered
<1>5. SUFFICES ASSUME did("done") PROVE AlertOK'
  BY <1>1, <1>4 DEF AlertOK
<1>6. \A i \in DOMAIN tracked' : tracked'[i] = pinned.games[i].deadline
  BY <1>2, <1>3, <1>5 DEF DeadlineAfter
<1>7. Remembered' /\ Len(pinned.games) \in Nat
  BY SyncKeeps, PinnedFacts
<1>8. ASSUME NEW i \in Open', i \in PinnedIndices, i \notin DOMAIN tracked'
      PROVE  FALSE
  <2>1. ~Rebuilding'
    BY <1>1, <1>7 DEF Rebuilding, NeverSynced
  <2>2. i \in 1..cursor'
    BY <1>1, <1>3, <1>5, <1>8 DEF PinnedIndices
  <2>3. Gone(i)
    BY <1>1, <1>7, <1>8, <2>1, <2>2, GoneOnlyByGames DEF Remembered
  <2>4. i \in Open
    <3>1. games[i].proposal = "Challenged" /\ i \in Indices
      BY <1>1, <1>8 DEF Open, Indices
    <3> QED
      BY <1>1, <1>8, <3>1, OpenMoves DEF ProposerInv
  <2> QED
    BY <2>3, <2>4, OpenNotGone DEF ProposerInv
<1>9. PinnedIndices' = PinnedIndices
  BY <1>1 DEF PinnedIndices
<1> QED
  BY <1>1, <1>6, <1>8, <1>9 DEF AlertOK

(* The defenses under way are of challenged games, not hopeless.           *)
DefendOK ==
    /\ IsFiniteSet(proving)
    /\ proving \subseteq Indices \X {"finality", "defense"}
    /\ \A t \in Defenses : /\ games[t[1]].proposal # "Unchallenged"
                           /\ games[t[1]].prover # NoAddress \/ now < games[t[1]].deadline

LEMMA DefendAges ==
    ASSUME ProposerInv, DefendOK, [Next]_vars, UNCHANGED now,
           IsFiniteSet(proving'), proving' \subseteq Indices \X {"finality", "defense"},
           Defenses' \subseteq Defenses
    PROVE  DefendOK'
<1>0. ChainInv
  BY DEF ProposerInv, OrderInv
<1>1. Indices \subseteq Indices'
  BY <1>0, EachMoves
<1>2. ASSUME NEW t \in Defenses'
      PROVE  /\ games'[t[1]].proposal # "Unchallenged"
             /\ games'[t[1]].prover # NoAddress \/ now' < games'[t[1]].deadline
  <2>1. t \in Defenses /\ t[1] \in Indices
    BY DEF ProposerInv, TasksOK, Defenses
  <2>2. Firm(games[t[1]], games'[t[1]])
    BY <1>0, <2>1, EachMoves DEF Moves
  <2> QED
    BY <2>1, <2>2 DEF Firm, DefendOK
<1>3. proving' \subseteq Indices' \X {"finality", "defense"}
  BY <1>1
<1> QED
  BY <1>2, <1>3 DEF DefendOK

(* What a pass begins to defend can be defended.                           *)
LEMMA DefendedFacts ==
    ASSUME ProposerInv, ListOK, FreshOK, AlertOK, phase = "spawn", NEW i \in Provable("Challenged")
    PROVE  /\ i \in Indices /\ i \in PinnedIndices /\ i \notin BeingProved
           /\ games[i].proposal = "Challenged" /\ games[i].prover = NoAddress
           /\ tracked[i] = games[i].deadline /\ now < games[i].deadline
<1>1. /\ i \in DOMAIN tracked /\ i \notin BeingProved
      /\ pinned.games[i].proposal = "Challenged"
      /\ games[i].proposal \in {"Unchallenged", "Challenged"} /\ ~(now >= tracked[i])
  BY DEF Provable, ShouldSkipProving
<1>2. i \in PinnedIndices /\ i \in Indices /\ tracked[i] \in Nat /\ now \in Nat
  BY <1>1, PinnedFacts, GamesTyped DEF ProposerInv, MemoryOK, OrderInv
<1>3. games[i].proposal = "Challenged" /\ games[i].deadline = pinned.games[i].deadline
  BY <1>1, <1>2 DEF FreshOK, Firm
<1>4. games[i].prover = NoAddress
  BY <1>2, <1>3, GamesTyped DEF ProposerInv, OrderInv, GameInv, RolesOK, ListOK, Supported
<1>5. tracked[i] = games[i].deadline
  BY <1>1, <1>3 DEF AlertOK
<1> QED
  BY <1>1, <1>2, <1>3, <1>4, <1>5

(* The proving tasks after a pass.                                         *)
LEMMA SpawnTasks ==
    ASSUME ProposerInv, DefendOK,
           NEW R \in SUBSET DOMAIN tracked, NEW D \in SUBSET DOMAIN tracked, NEW create,
           Spawn(R, D, create)
    PROVE  /\ IsFiniteSet(D) /\ IsFiniteSet(D \X {"defense"})
           /\ Cardinality(D \X {"defense"}) = Cardinality(D)
           /\ IsFiniteSet(proving') /\ proving' \subseteq Indices \X {"finality", "defense"}
           /\ proving \subseteq proving'
           /\ Defenses' = Defenses \union (D \X {"defense"})
<1> DEFINE fast == R \X {"finality"}
           defend == D \X {"defense"}
<1>1. IsFiniteSet(R) /\ IsFiniteSet(D) /\ R \subseteq Indices /\ D \subseteq Indices
  <2>1. IsFiniteSet(PinnedIndices)
    <3>1. PICK n \in Nat : n = Len(pinned.games)
      BY PinnedFacts
    <3>2. IsFiniteSet(1..n)
      BY FS_Interval
    <3> QED
      BY <3>1, <3>2 DEF PinnedIndices
  <2>2. DOMAIN tracked \subseteq PinnedIndices /\ PinnedIndices \subseteq Indices
    BY PinnedFacts DEF ProposerInv, MemoryOK
  <2> QED
    BY <2>1, <2>2, FS_Subset
<1>2. /\ IsFiniteSet(fast) /\ Cardinality(fast) = Cardinality(R)
      /\ IsFiniteSet(defend) /\ Cardinality(defend) = Cardinality(D)
      /\ \A t \in fast : t[2] = "finality"
      /\ \A t \in defend : t[2] = "defense"
  BY <1>1, TaggedBound
<1>3. proving' = (proving \union fast) \union defend
  BY DEF Spawn
<1>4. fast \subseteq Indices \X {"finality", "defense"}
      /\ defend \subseteq Indices \X {"finality", "defense"}
  BY <1>1
<1> HIDE DEF fast, defend
<1>5. Defenses' = Defenses \union defend
  <2>1. Defenses' = {t \in proving' : t[2] = "defense"}
    BY DEF Defenses
  <2> QED
    BY <1>2, <1>3, <2>1 DEF Defenses
<1>6. IsFiniteSet(proving')
  BY <1>2, <1>3, FS_Union DEF DefendOK
<1>7. proving' \subseteq Indices \X {"finality", "defense"} /\ proving \subseteq proving'
  BY <1>3, <1>4 DEF DefendOK
<1> QED
  BY <1>1, <1>2, <1>5, <1>6, <1>7 DEF defend

LEMMA SpawnDefends ==
    ASSUME ProposerInv, ListOK, FreshOK, AlertOK, DefendOK,
           NEW R \in SUBSET DOMAIN tracked, NEW D \in SUBSET DOMAIN tracked, NEW create,
           Spawn(R, D, create)
    PROVE  DefendOK'
<1>1. /\ D \subseteq Provable("Challenged") /\ phase = "spawn" /\ UNCHANGED <<games, now>>
  BY DEF Spawn, CanDefend, vars
<1>2. ASSUME NEW t \in Defenses'
      PROVE  /\ games[t[1]].proposal # "Unchallenged"
             /\ games[t[1]].prover # NoAddress \/ now < games[t[1]].deadline
  <2>1. CASE t \in Defenses
    BY <2>1 DEF DefendOK
  <2>2. CASE t \in D \X {"defense"}
    <3>1. t[1] \in D
      BY <2>2
    <3> QED
      BY <1>1, <3>1, DefendedFacts
  <2> QED
    BY <1>2, <2>1, <2>2, SpawnTasks
<1>3. Indices' = Indices
  BY <1>1 DEF Indices
<1> QED
  BY <1>1, <1>2, <1>3, SpawnTasks DEF DefendOK

(* The games that were proved, as defenses that are over.                  *)
Done == {i \in Indices : games[i].prover # NoAddress} \X {"defense"}

(* The defenses there must have been by the end of this second, if a game  *)
(* challenged earlier still waits for its own: MaxDefenses for each second *)
(* since it was challenged.                                                *)
Due(i) == MaxDefenses * (now - (games[i].deadline - MaxProveDuration))

(* The seconds before were used in full: while a game waits, every second  *)
(* has brought MaxDefenses proofs.  So was this one, once there was a pass *)
(* that keeps pace.                                                        *)
WorkOK ==
    /\ \E S \in SUBSET Done : /\ S \intersect Defenses = {}
                              /\ \A i \in Open : Due(i) - MaxDefenses <= Cardinality(S)
    /\ worked => \A i \in Open \ BeingProved : Due(i) <= Cardinality(Done \union Defenses)

LEMMA DoneFinite ==
    ASSUME ChainInv PROVE IsFiniteSet(Done)
<1> DEFINE P == {i \in Indices : games[i].prover # NoAddress}
<1>1. PICK n \in Nat : n = Len(games)
  BY GamesTyped
<1>2. IsFiniteSet(1..n)
  BY FS_Interval
<1>3. P \subseteq 1..n
  BY <1>1 DEF Indices
<1>4. IsFiniteSet(P)
  BY <1>2, <1>3, FS_Subset
<1> HIDE DEF P
<1>5. IsFiniteSet(P \X {"defense"})
  BY <1>4, TaggedBound
<1> QED
  BY <1>5 DEF Done, P

LEMMA DoneGrows ==
    ASSUME ChainInv, [Next]_vars PROVE Done \subseteq Done'
<1>1. ASSUME NEW j \in Indices, games[j].prover # NoAddress
      PROVE  j \in Indices' /\ games'[j].prover # NoAddress
  BY <1>1, EachMoves DEF Moves, Firm
<1> QED
  BY <1>1 DEF Done

LEMMA DueType ==
    ASSUME ChainInv, NEW i \in Open PROVE Due(i) \in Int
<1>1. now \in Int /\ games[i].deadline \in Int /\ MaxProveDuration \in Int /\ MaxDefenses \in Int
  BY OpenFacts, GamesTyped, GameAssumption, ProposerAssumption
<1> QED
  BY <1>1 DEF Due

(* What is due for a game after a step within the same second.             *)
LEMMA DueStays ==
    ASSUME OrderInv, [Next]_vars, UNCHANGED now, NEW i \in Open'
    PROVE  \/ i \in Open /\ Due(i)' = Due(i) /\ Due(i) \in Int
           \/ games[i].proposal = "Unchallenged" /\ Due(i)' = 0
<1>0. now \in Nat /\ MaxProveDuration \in Nat /\ MaxDefenses \in Nat /\ ChainInv
  BY GamesTyped, GameAssumption, ProposerAssumption DEF OrderInv
<1>1. CASE i \in Open /\ games'[i].deadline = games[i].deadline
  BY <1>0, <1>1, DueType DEF Due
<1>2. CASE games[i].proposal = "Unchallenged" /\ games'[i].deadline = now + MaxProveDuration
  <2>1. Due(i)' = MaxDefenses * (now' - (games'[i].deadline - MaxProveDuration))
    BY Zenon DEF Due
  <2>2. now' - (games'[i].deadline - MaxProveDuration) = 0
    BY <1>0, <1>2
  <2>3. MaxDefenses * 0 = 0
    BY <1>0
  <2> QED
    BY <1>2, <2>1, <2>2, <2>3
<1> QED
  BY <1>1, <1>2, OpenMoves

LEMMA WorkKept ==
    ASSUME OrderInv, DefendOK, WorkOK, [Next]_vars, UNCHANGED now, IsFiniteSet(proving'),
           Defenses' \intersect Done \subseteq Defenses,
           worked' => /\ worked
                      /\ Defenses \subseteq Done' \union Defenses'
                      /\ \A i \in Open' : i \in BeingProved => i \in BeingProved'
    PROVE  WorkOK'
<1>0. ChainInv /\ MaxDefenses \in Nat
  BY ProposerAssumption DEF OrderInv
<1>1. Done \subseteq Done' /\ IsFiniteSet(Done) /\ IsFiniteSet(Done')
  <2>1. IsFiniteSet(Done')
    <3> DEFINE P == {i \in Indices' : games'[i].prover # NoAddress}
    <3>1. games' \in Seq(Game)
      BY <1>0, ChainInvStep DEF ChainInv, BondInv, TypeOK
    <3>2. PICK n \in Nat : n = Len(games')
      BY <3>1, LenProperties
    <3>3. IsFiniteSet(1..n) /\ P \subseteq 1..n
      BY <3>2, FS_Interval DEF Indices
    <3>4. IsFiniteSet(P)
      BY <3>3, FS_Subset
    <3> HIDE DEF P
    <3>5. IsFiniteSet(P \X {"defense"})
      BY <3>4, TaggedBound
    <3> QED
      BY <3>5 DEF Done, P
  <2> QED
    BY <1>0, <2>1, DoneFinite, DoneGrows
<1>2. PICK S \in SUBSET Done : /\ S \intersect Defenses = {}
                              /\ \A i \in Open : Due(i) - MaxDefenses <= Cardinality(S)
  BY DEF WorkOK
<1>3. IsFiniteSet(S) /\ Cardinality(S) \in Nat
  BY <1>1, <1>2, FS_Subset, FS_CardinalityType
<1>4. S \in SUBSET Done' /\ S \intersect Defenses' = {}
  BY <1>1, <1>2
<1>5. ASSUME NEW i \in Open' PROVE Due(i)' - MaxDefenses <= Cardinality(S)
  BY <1>0, <1>2, <1>3, DueStays
<1>6. ASSUME worked', NEW i \in Open', i \notin BeingProved'
      PROVE  Due(i)' <= Cardinality(Done' \union Defenses')
  <2>1. IsFiniteSet(Done' \union Defenses') /\ IsFiniteSet(Done \union Defenses)
    <3>1. IsFiniteSet(Defenses) /\ IsFiniteSet(Defenses')
      BY FS_Subset DEF DefendOK, Defenses
    <3> QED
      BY <1>1, <3>1, FS_Union
  <2>2. /\ Cardinality(Done \union Defenses) <= Cardinality(Done' \union Defenses')
        /\ Cardinality(Done \union Defenses) \in Nat
        /\ Cardinality(Done' \union Defenses') \in Nat
    <3>1. Done \union Defenses \subseteq Done' \union Defenses'
      BY <1>1, <1>6
    <3> QED
      BY <2>1, <3>1, FS_Subset, FS_CardinalityType
  <2>3. CASE i \in Open /\ Due(i)' = Due(i) /\ Due(i) \in Int
    <3>1. Due(i) <= Cardinality(Done \union Defenses)
      BY <1>6, <2>3 DEF WorkOK
    <3> QED
      BY <2>2, <2>3, <3>1
  <2>4. CASE Due(i)' = 0
    BY <2>2, <2>4
  <2> QED
    BY <2>3, <2>4, DueStays
<1> QED
  BY <1>4, <1>5, <1>6 DEF WorkOK

LEMMA DisjointUnion ==
    ASSUME NEW S, NEW T, IsFiniteSet(S), IsFiniteSet(T), S \intersect T = {}
    PROVE  /\ IsFiniteSet(S \union T)
           /\ Cardinality(S \union T) = Cardinality(S) + Cardinality(T)
<1>1. Cardinality(S) \in Nat /\ Cardinality(T) \in Nat /\ Cardinality({}) = 0
  BY FS_CardinalityType, FS_EmptySet
<1>2. PICK c \in Nat, s \in Nat, t \in Nat :
         c = Cardinality(S \intersect T) /\ s = Cardinality(S) /\ t = Cardinality(T)
  BY <1>1
<1>3. c = 0
  BY <1>1, <1>2
<1>4. IsFiniteSet(S \union T) /\ Cardinality(S \union T) = s + (t - c)
  BY <1>1, <1>2, <1>3, FS_Union
<1>5. s + (t - c) = s + t
  BY <1>3
<1> QED
  BY <1>2, <1>4, <1>5, Zenon

(* A pass without faults over a block of this second either defends every  *)
(* game of the seconds before, or takes all the places there are.          *)
LEMMA SpawnFillsUp ==
    ASSUME ProposerInv, ListOK, InTime, FreshOK, AlertOK, DefendOK, pinned.now = now,
           NEW R \in SUBSET DOMAIN tracked, NEW D \in SUBSET DOMAIN tracked, NEW create,
           Spawn(R, D, create), Full(R, D, create),
           NEW i \in Open, i \notin BeingProved, i \notin D,
           games[i].deadline < now + MaxProveDuration
    PROVE  MaxDefenses <= Cardinality(D) + Cardinality(Defenses)
<1> DEFINE P == Provable("Challenged")
<1>0. /\ phase = "spawn" /\ CanDefend(D) /\ ChainInv /\ now \in Nat
      /\ MaxDefenses \in Nat
  BY GamesTyped, ProposerAssumption DEF Spawn, ProposerInv, OrderInv
<1>1. i \in P \ D
  <2>1. i \in PinnedIndices /\ pinned.games[i].proposal = "Challenged"
    BY DEF FreshOK
  <2>2. i \in DOMAIN tracked /\ tracked[i] = pinned.games[i].deadline
    BY <1>0, <2>1 DEF AlertOK
  <2>3. games[i].deadline = pinned.games[i].deadline
    BY <2>1 DEF FreshOK, Firm
  <2>4. games[i].status = "IN_PROGRESS" /\ now < games[i].deadline /\ games[i].deadline \in Nat
    BY <1>0, OpenFacts DEF InTime
  <2>5. pinned.games[i].status = "IN_PROGRESS"
    BY <2>1, <2>4, PinnedFacts DEF Later
  <2>6. ~(now >= tracked[i]) /\ games[i].proposal = "Challenged"
    BY <1>0, <2>2, <2>3, <2>4 DEF Open
  <2> QED
    BY <2>1, <2>2, <2>5, <2>6 DEF Provable, ShouldSkipProving
<1>2. \A j \in P : tracked[j] \in Nat
  BY DEF Provable, ProposerInv, MemoryOK
<1> HIDE DEF P
<1>3. PICK j \in P \ D : \A k \in P \ D : tracked[j] <= tracked[k]
  <2> DEFINE T == {tracked[k] : k \in P \ D}
  <2>1. T \in SUBSET Nat /\ T # {}
    BY <1>1, <1>2
  <2>2. PICK x \in T : \A y \in T : x <= y
    <3> HIDE DEF T
    <3> QED
      BY <2>1, LeastNatural
  <2>3. \A k \in P \ D : tracked[k] \in T
    OBVIOUS
  <2>4. PICK j \in P \ D : x = tracked[j]
    BY <2>2
  <2> QED
    BY <2>2, <2>3, <2>4
<1>4. IsFiniteSet(D) /\ Cardinality(D) \in Nat /\ Cardinality(Defenses) \in Nat
  <2>1. IsFiniteSet(Defenses)
    BY FS_Subset DEF DefendOK, Defenses
  <2> QED
    BY <2>1, SpawnTasks, FS_CardinalityType
<1>5. Cardinality(D \union {j}) = Cardinality(D) + 1
  BY <1>3, <1>4, FS_AddElement
<1>6. /\ D \subseteq P
      /\ \A a \in D, k \in P \ D : tracked[a] <= tracked[k]
  BY <1>0 DEF CanDefend, P
<1>7. ~CanDefend(D \union {j})
  BY <1>3 DEF Full, P
<1>8. /\ D \union {j} \subseteq P
      /\ \A a \in D \union {j}, k \in P \ (D \union {j}) : tracked[a] <= tracked[k]
  BY <1>3, <1>6
<1>9. ~(Cardinality(D \union {j}) + Cardinality(Defenses) <= MaxDefenses)
  BY <1>7, <1>8 DEF CanDefend, P
<1> QED
  BY <1>0, <1>4, <1>5, <1>9

LEMMA SpawnWorks ==
    ASSUME ProposerInv, ListOK, InTime, FreshOK, AlertOK, DefendOK, WorkOK, pinned.now = now,
           NEW R \in SUBSET DOMAIN tracked, NEW D \in SUBSET DOMAIN tracked, NEW create,
           Spawn(R, D, create), Full(R, D, create),
           NEW i \in Open', i \notin BeingProved'
    PROVE  Due(i)' <= Cardinality(Done' \union Defenses')
<1>0. /\ OrderInv /\ ChainInv /\ UNCHANGED vars /\ UNCHANGED <<games, now>> /\ now \in Nat
      /\ MaxDefenses \in Nat /\ MaxProveDuration \in Nat /\ phase = "spawn"
      /\ D \subseteq Provable("Challenged")
  BY GamesTyped, ProposerAssumption, GameAssumption
     DEF ProposerInv, OrderInv, Spawn, vars, CanDefend
<1>1. Done' = Done /\ IsFiniteSet(Done)
  BY <1>0, DoneFinite DEF Done, Indices
<1>2. /\ Defenses' = Defenses \union (D \X {"defense"}) /\ proving \subseteq proving'
      /\ IsFiniteSet(D \X {"defense"}) /\ Cardinality(D \X {"defense"}) = Cardinality(D)
  BY SpawnTasks
<1>3. i \in Open /\ Due(i)' = Due(i) /\ Due(i) \in Int
  <2>1. games[i].proposal = "Challenged"
    BY <1>0 DEF Open
  <2> QED
    BY <1>0, <2>1, DueStays
<1>4. i \notin BeingProved /\ i \notin D
  <2>1. \A a \in D : <<a, "defense">> \in proving'
    <3>1. \A a \in D : <<a, "defense">> \in Defenses'
      BY <1>2
    <3> QED
      BY <3>1 DEF Defenses
  <2>2. \A a \in D : a \in BeingProved'
    <3>1. BeingProved' = {t[1] : t \in proving'}
      BY DEF BeingProved
    <3>2. \A a : <<a, "defense">>[1] = a
      OBVIOUS
    <3> QED
      BY <2>1, <3>1, <3>2
  <2> QED
    BY <1>2, <2>2 DEF BeingProved
<1>5. IsFiniteSet(Defenses) /\ IsFiniteSet(Defenses') /\ IsFiniteSet(Done' \union Defenses')
      /\ Cardinality(Done' \union Defenses') \in Nat
  <2>1. IsFiniteSet(Defenses)
    BY FS_Subset DEF DefendOK, Defenses
  <2>2. IsFiniteSet(Defenses')
    BY <1>2, <2>1, FS_Union
  <2> QED
    BY <1>1, <2>1, <2>2, FS_Union, FS_CardinalityType
<1>6. CASE ~(games[i].deadline < now + MaxProveDuration)
  <2>1. PICK x \in Int : x = now - (games[i].deadline - MaxProveDuration)
    BY <1>0, <1>3, OpenFacts
  <2>2. x <= 0
    BY <1>0, <1>3, <1>6, <2>1, OpenFacts
  <2>3. Due(i) = MaxDefenses * x
    BY <2>1 DEF Due
  <2>4. MaxDefenses * x <= 0
    BY <1>0, <2>2
  <2> QED
    BY <1>3, <1>5, <2>3, <2>4
<1>7. CASE games[i].deadline < now + MaxProveDuration
  <2>1. MaxDefenses <= Cardinality(D) + Cardinality(Defenses)
    BY <1>3, <1>4, <1>7, SpawnFillsUp
  <2>2. PICK S \in SUBSET Done : /\ S \intersect Defenses = {}
                                /\ \A k \in Open : Due(k) - MaxDefenses <= Cardinality(S)
    BY DEF WorkOK
  <2>3. \A a \in D : <<a, "defense">> \notin Done /\ <<a, "defense">> \notin Defenses
    <3> TAKE a \in D
    <3>1. games[a].prover = NoAddress /\ a \notin BeingProved
      BY <1>0, DefendedFacts
    <3> QED
      BY <3>1 DEF Done, Defenses, BeingProved
  <2>4. (D \X {"defense"}) \intersect Defenses = {} /\ S \intersect Defenses' = {}
    BY <1>2, <2>2, <2>3
  <2>5. IsFiniteSet(S)
    BY <1>1, FS_Subset
  <2>6. Cardinality(Defenses') = Cardinality(Defenses) + Cardinality(D)
    <3>1. Defenses \intersect (D \X {"defense"}) = {}
      BY <2>4
    <3> QED
      BY <1>2, <1>5, <3>1, DisjointUnion
  <2>7. Cardinality(S \union Defenses') = Cardinality(S) + Cardinality(Defenses')
        /\ IsFiniteSet(S \union Defenses')
    BY <1>5, <2>4, <2>5, DisjointUnion
  <2>8. Cardinality(S \union Defenses') <= Cardinality(Done' \union Defenses')
    <3>1. S \union Defenses' \subseteq Done' \union Defenses'
      BY <1>1
    <3> QED
      BY <1>5, <3>1, FS_Subset
  <2>9. Due(i) - MaxDefenses <= Cardinality(S)
    BY <1>3, <2>2
  <2>10. PICK s \in Nat, d \in Nat, e \in Nat, u \in Int, m \in Nat :
            /\ s = Cardinality(S) /\ d = Cardinality(D) /\ e = Cardinality(Defenses)
            /\ u = Due(i) /\ m = MaxDefenses
    <3>1. Cardinality(S) \in Nat /\ Cardinality(D) \in Nat /\ Cardinality(Defenses) \in Nat
      BY <1>5, <2>5, SpawnTasks, FS_CardinalityType
    <3> QED
      BY <1>0, <1>3, <3>1
  <2>11. u <= s + (e + d)
    BY <2>1, <2>9, <2>10
  <2>12. Due(i) <= Cardinality(S \union Defenses')
    BY <2>6, <2>7, <2>10, <2>11
  <2> QED
    BY <1>3, <1>5, <2>7, <2>8, <2>12, FS_CardinalityType
<1> QED
  BY <1>6, <1>7

(* The invariant of a proposer that keeps pace.                            *)
PaceOK ==
    /\ CanonicalClaimsSurvive /\ ListOK /\ InTime
    /\ FreshOK /\ AlertOK
    /\ DefendOK /\ WorkOK
    /\ faults \in Nat

LEMMA TimeToProve ==
    ASSUME Defensible, MaxGames >= 1
    PROVE  MaxProveDuration >= 2
<1>0. MaxDefenses \in Nat /\ MaxProveDuration \in Nat /\ MaxGames \in Nat
  BY ProposerAssumption, GameAssumption, FactoryAssumption
<1>1. MaxDefenses * (MaxProveDuration - 1) >= 1
  BY <1>0 DEF Defensible
<1> QED
  BY <1>0, <1>1

(* Within a second.                                                        *)
LEMMA SecondGoesOn ==
    ASSUME Defensible, ProposerInv, PaceOK, [Next]_vars, UNCHANGED now
    PROVE  CanonicalClaimsSurvive' /\ ListOK' /\ InTime'
<1>0. OrderInv /\ ListOK /\ InTime /\ CanonicalClaimsSurvive /\ now \in Nat
      /\ MaxProveDuration \in Nat /\ Len(games) \in Nat
  BY GamesTyped, GameAssumption DEF ProposerInv, PaceOK, OrderInv
<1>1. CanonicalClaimsSurvive' /\ ListOK'
  BY <1>0, SurviveStep, ListStep
<1>2. ASSUME NEW i \in Open' PROVE now' < games'[i].deadline
  <2>1. CASE i \in Open /\ games'[i].deadline = games[i].deadline
    BY <1>0, <2>1 DEF InTime
  <2>2. CASE games'[i].deadline = now + MaxProveDuration
    <3>1. i \in Indices
      BY <1>0, OpenMoves
    <3>2. MaxGames >= 1
      BY <1>0, <3>1, FactoryAssumption DEF ListOK, Indices
    <3> QED
      BY <1>0, <2>2, <3>2, TimeToProve
  <2> QED
    BY <1>0, <2>1, <2>2, OpenMoves
<1> QED
  BY <1>1, <1>2 DEF InTime

(* Steps that leave the confirmed block, the cache and the proofs alone.   *)
LEMMA QuietStep ==
    ASSUME Defensible, ProposerInv, PaceOK, [Next]_vars,
           UNCHANGED <<now, pinned, tracked, proving>>, faults' \in Nat,
           phase' = "spawn" \/ complete' => phase = "spawn" \/ complete,
           worked' => worked
    PROVE  PaceOK'
<1>0. OrderInv /\ FreshOK /\ AlertOK /\ DefendOK /\ WorkOK
  BY DEF ProposerInv, PaceOK
<1>1. CanonicalClaimsSurvive' /\ ListOK' /\ InTime'
  BY SecondGoesOn
<1>2. FreshOK' /\ AlertOK'
  BY <1>0, FreshStep, AlertAges
<1>3. Defenses' = Defenses /\ BeingProved' = BeingProved
  BY DEF Defenses, BeingProved
<1>4. DefendOK'
  BY <1>0, <1>3, DefendAges DEF DefendOK
<1>5. WorkOK'
  BY <1>0, <1>3, WorkKept DEF DefendOK
<1> QED
  BY <1>1, <1>2, <1>4, <1>5 DEF PaceOK

(* The end of a second.                                                    *)
LEMMA SecondEnds ==
    ASSUME Defensible, ProposerInv, PaceOK, Clock, worked, proving = {}, worked' = FALSE
    PROVE  PaceOK'
<1>0. /\ OrderInv /\ ChainInv /\ ListOK /\ InTime /\ FreshOK /\ AlertOK /\ WorkOK /\ DefendOK
      /\ faults \in Nat /\ CanonicalClaimsSurvive
      /\ now \in Nat /\ MaxDefenses \in Nat /\ MaxProveDuration \in Nat /\ MaxGames \in Nat
  BY GamesTyped, ProposerAssumption, GameAssumption, FactoryAssumption
     DEF ProposerInv, OrderInv, PaceOK
<1>1. /\ now' = now + 1 /\ games' = games
      /\ UNCHANGED <<pinned, tracked, proving, phase, complete, faults>>
      /\ PassTime
  BY DEF Clock, PassTime, Tick, proposerVars, syncVars, cache, tasks, outside
<1>2. [Next]_vars
  BY <1>1 DEF Next
<1>3. Defenses = {} /\ BeingProved = {} /\ Defenses' = {}
  BY <1>1 DEF Defenses, BeingProved
<1>4. ASSUME NEW i \in Open'
      PROVE  /\ i \in Open /\ games'[i].deadline = games[i].deadline
             /\ Due(i) <= Cardinality(Done) /\ Due(i) \in Int
  <2>1. games[i].proposal = "Challenged"
    BY <1>1 DEF Open
  <2>2. i \in Open
    BY <1>0, <1>2, <2>1, OpenMoves
  <2>3. Done \union Defenses = Done
    BY <1>3
  <2>4. Due(i) <= Cardinality(Done \union Defenses)
    BY <1>0, <1>3, <2>2 DEF WorkOK
  <2> QED
    BY <1>0, <1>1, <2>2, <2>3, <2>4, DueType
<1>5. IsFiniteSet(Done) /\ Cardinality(Done) \in Nat
  BY <1>0, DoneFinite, FS_CardinalityType
<1>6. ASSUME NEW i \in Open PROVE Cardinality(Done) < MaxGames
  <2>1. PICK n \in Nat : n = Len(games)
    BY <1>0, GamesTyped
  <2>2. i \in 1..n /\ n <= MaxGames /\ games[i].prover = NoAddress
    BY <1>0, <2>1, OpenFacts DEF Indices, ListOK
  <2>3. /\ IsFiniteSet((1..n) \ {i}) /\ Cardinality((1..n) \ {i}) = n - 1
    <3>1. IsFiniteSet(1..n) /\ Cardinality(1..n) = n
      BY FS_Interval
    <3> QED
      BY <2>2, <3>1, FS_RemoveElement
  <2>4. PICK B : B = ((1..n) \ {i}) \X {"defense"}
    OBVIOUS
  <2>5. IsFiniteSet(B) /\ Cardinality(B) = n - 1
    BY <2>3, <2>4, TaggedBound
  <2>6. Done \subseteq B
    BY <2>1, <2>2, <2>4 DEF Done, Indices
  <2>7. Cardinality(Done) <= n - 1
    BY <2>5, <2>6, FS_Subset
  <2> QED
    BY <1>0, <1>5, <2>2, <2>7
<1>7. InTime'
  <2> SUFFICES ASSUME NEW i \in Open' PROVE now' < games'[i].deadline
    BY DEF InTime
  <2>1. i \in Open /\ games'[i].deadline = games[i].deadline /\ Due(i) <= Cardinality(Done)
    BY <1>4
  <2>2. now < games[i].deadline /\ games[i].deadline \in Nat
    BY <1>0, <2>1, OpenFacts DEF InTime
  <2>3. ASSUME games[i].deadline = now + 1 PROVE FALSE
    <3>1. now - (games[i].deadline - MaxProveDuration) = MaxProveDuration - 1
      BY <1>0, <2>3
    <3>2. Due(i) = MaxDefenses * (MaxProveDuration - 1)
      BY <3>1 DEF Due
    <3>3. MaxGames <= Due(i) /\ Due(i) \in Int
      BY <1>0, <3>2 DEF Defensible
    <3> QED
      BY <1>0, <1>5, <1>6, <2>1, <3>3
  <2> QED
    BY <1>0, <1>1, <2>1, <2>2, <2>3
<1>8. WorkOK'
  <2>1. Done' = Done
    BY <1>1 DEF Done, Indices
  <2>2. ASSUME NEW i \in Open' PROVE Due(i)' - MaxDefenses <= Cardinality(Done)
    <3>1. i \in Open /\ games'[i].deadline = games[i].deadline /\ games[i].deadline \in Nat
      BY <1>0, <1>4, OpenFacts
    <3>2. PICK x \in Int : x = now - (games[i].deadline - MaxProveDuration)
      BY <1>0, <3>1
    <3>3. now' - (games'[i].deadline - MaxProveDuration) = x + 1
      BY <1>0, <1>1, <3>1, <3>2
    <3>4. Due(i)' = MaxDefenses * (now' - (games'[i].deadline - MaxProveDuration))
      BY Zenon DEF Due
    <3>5. Due(i)' = MaxDefenses * (x + 1) /\ Due(i) = MaxDefenses * x
      BY <3>2, <3>3, <3>4 DEF Due
    <3>6. MaxDefenses * (x + 1) - MaxDefenses = MaxDefenses * x
      BY <1>0
    <3> QED
      BY <1>4, <3>5, <3>6
  <2>3. Done \in SUBSET Done' /\ Done \intersect Defenses' = {}
    BY <1>3, <2>1
  <2> QED
    BY <2>2, <2>3 DEF WorkOK
<1>9. CanonicalClaimsSurvive' /\ ListOK'
  BY <1>0, <1>2, SurviveStep, ListStep
<1>10. FreshOK' /\ AlertOK'
  BY <1>0, <1>1, <1>2, ClockFresh, AlertAges
<1>11. DefendOK'
  <2>1. proving' = {}
    BY <1>1
  <2> QED
    BY <1>3, <2>1, FS_EmptySet DEF DefendOK
<1> QED
  BY <1>0, <1>1, <1>7, <1>8, <1>9, <1>10, <1>11 DEF PaceOK

LEMMA SpawnPaced ==
    ASSUME Defensible, ProposerInv, PaceOK,
           NEW R \in SUBSET DOMAIN tracked, NEW D \in SUBSET DOMAIN tracked, NEW create,
           Spawn(R, D, create),
           worked' => faults' = faults /\ (worked \/ pinned.now = now)
    PROVE  PaceOK'
<1>0. /\ OrderInv /\ ListOK /\ InTime /\ FreshOK /\ AlertOK /\ DefendOK /\ WorkOK
      /\ faults \in Nat /\ phase = "spawn" /\ phase' = "sync"
      /\ UNCHANGED vars /\ UNCHANGED <<games, now, pinned, tracked, complete>>
      /\ D \subseteq Provable("Challenged")
  BY DEF ProposerInv, PaceOK, Spawn, vars, cache, CanDefend
<1>1. CanonicalClaimsSurvive' /\ ListOK' /\ InTime'
  BY <1>0, SecondGoesOn
<1>2. FreshOK' /\ AlertOK'
  BY <1>0, FreshStep, AlertAges
<1>3. DefendOK'
  BY <1>0, SpawnDefends
<1>4. faults' \in Nat
  BY <1>0 DEF Spawn, Unless, Fault
<1>5. /\ IsFiniteSet(proving') /\ proving \subseteq proving'
      /\ Defenses' = Defenses \union (D \X {"defense"})
  BY <1>0, SpawnTasks
<1>6. Defenses' \intersect Done \subseteq Defenses
  <2>1. \A a \in D : <<a, "defense">> \notin Done
    <3> TAKE a \in D
    <3>1. games[a].prover = NoAddress
      BY <1>0, DefendedFacts
    <3> QED
      BY <3>1 DEF Done
  <2> QED
    BY <1>5, <2>1
<1>7. BeingProved \subseteq BeingProved' /\ Defenses \subseteq Defenses'
  BY <1>5 DEF BeingProved
<1>8. CASE ~worked' \/ worked
  <2>1. WorkOK'
    BY <1>0, <1>5, <1>6, <1>7, <1>8, WorkKept
  <2> QED
    BY <1>1, <1>2, <1>3, <1>4, <2>1 DEF PaceOK
<1>9. CASE worked' /\ ~worked
  <2>1. pinned.now = now /\ faults' = faults
    BY <1>9
  <2>2. Full(R, D, create)
    BY <1>0, <2>1 DEF Spawn, Unless, Fault
  <2>3. \A i \in Open' \ BeingProved' : Due(i)' <= Cardinality(Done' \union Defenses')
    BY <1>0, <2>1, <2>2, SpawnWorks
  <2>4. PICK S \in SUBSET Done : /\ S \intersect Defenses = {}
                                /\ \A i \in Open : Due(i) - MaxDefenses <= Cardinality(S)
    BY <1>0 DEF WorkOK
  <2>5. Done' = Done
    BY <1>0 DEF Done, Indices
  <2>6. \A i \in Open' : Due(i)' - MaxDefenses <= Cardinality(S)
    <3> TAKE i \in Open'
    <3>1. games[i].proposal = "Challenged"
      BY <1>0 DEF Open
    <3> QED
      BY <1>0, <2>4, <3>1, DueStays
  <2>7. S \in SUBSET Done' /\ S \intersect Defenses' = {}
    BY <1>6, <2>4, <2>5
  <2>8. WorkOK'
    BY <2>3, <2>6, <2>7 DEF WorkOK
  <2> QED
    BY <1>1, <1>2, <1>3, <1>4, <2>8 DEF PaceOK
<1> QED
  BY <1>8, <1>9

(* A proof ends: a defense that gives up without a fault was too late, for *)
(* the game was proved.                                                    *)
LEMMA ProofEndsPaced ==
    ASSUME Defensible, ProposerInv, PaceOK, [Next]_vars, NEW task \in proving,
           ProveSucceeds(task) \/ ProveFails(task),
           worked' => worked /\ faults' = faults
    PROVE  PaceOK'
<1>0. /\ OrderInv /\ ChainInv /\ InTime /\ FreshOK /\ AlertOK /\ DefendOK /\ WorkOK
      /\ faults \in Nat
      /\ UNCHANGED <<now, pinned, tracked, phase, complete>> /\ proving' = proving \ {task}
  BY DEF ProposerInv, OrderInv, PaceOK, ProveSucceeds, ProveFails, Prove, vars, syncVars, cache, outside
<1>1. CanonicalClaimsSurvive' /\ ListOK' /\ InTime'
  BY <1>0, SecondGoesOn
<1>2. FreshOK' /\ AlertOK'
  BY <1>0, FreshStep, AlertAges
<1>3. /\ task \in Indices \X {"finality", "defense"} /\ task[1] \in Indices
      /\ task = <<task[1], task[2]>>
      /\ IsFiniteSet(proving') /\ proving' \subseteq Indices \X {"finality", "defense"}
      /\ Defenses' = Defenses \ {task}
  <2>1. proving \subseteq Indices \X {"finality", "defense"}
    BY <1>0 DEF DefendOK
  <2>2. IsFiniteSet(proving')
    BY <1>0, FS_Subset DEF DefendOK
  <2>3. Defenses' = {t \in proving' : t[2] = "defense"}
    BY DEF Defenses
  <2> QED
    BY <1>0, <2>1, <2>2, <2>3 DEF Defenses
<1>4. DefendOK'
  BY <1>0, <1>3, DefendAges
<1>5. faults' \in Nat
  BY <1>0 DEF ProveSucceeds, ProveFails, Unless, Fault, outside
<1>6. ASSUME worked'
      PROVE  /\ games'[task[1]].prover # NoAddress
                \/ (games'[task[1]].deadline < now /\ games' = games)
             /\ task[1] \notin Open'
  <2>1. CASE ProveSucceeds(task)
    <3>1. games' = [games EXCEPT ![task[1]] = Proved(games[task[1]], Self)]
      BY <2>1 DEF ProveSucceeds, Prove
    <3>2. games \in Seq(Game) /\ games[task[1]] \in Game /\ Len(games) \in Nat
      BY <1>0, <1>3, GamesTyped
    <3>3. games'[task[1]] = Proved(games[task[1]], Self)
      BY <1>3, <3>1, <3>2 DEF Indices
    <3>4. games'[task[1]].prover = Self /\ games'[task[1]].proposal # "Challenged"
      BY <3>2, <3>3 DEF Proved, Game
    <3> QED
      BY <3>4, ProposerAssumption, FactoryAssumption DEF Open
  <2>2. CASE ProveFails(task)
    <3>1. faults' = faults /\ games' = games
      BY <1>6, <2>2 DEF ProveFails, vars
    <3>2. GameOver(games[task[1]])
      BY <1>0, <2>2, <3>1 DEF ProveFails, Unless, Fault
    <3>3. task[1] \notin Open
      <4> SUFFICES ASSUME task[1] \in Open PROVE FALSE
        OBVIOUS
      <4>1. now < games[task[1]].deadline /\ games[task[1]].prover = NoAddress
            /\ games[task[1]].deadline \in Nat /\ now \in Nat
        BY <1>0, OpenFacts, GamesTyped DEF InTime
      <4> QED
        BY <3>2, <4>1 DEF GameOver
    <3>4. task[1] \notin Open'
      <4> SUFFICES ASSUME task[1] \in Open' PROVE FALSE
        OBVIOUS
      <4>1. games[task[1]].proposal = "Challenged"
        BY <3>1 DEF Open
      <4> QED
        BY <1>0, <3>3, <4>1, OpenMoves
    <3> QED
      BY <3>1, <3>2, <3>4 DEF GameOver
  <2> QED
    BY <2>1, <2>2
<1>7. ASSUME worked' PROVE Defenses \subseteq Done' \union Defenses'
  <2> SUFFICES ASSUME task \in Defenses PROVE task \in Done'
    BY <1>3
  <2>1. task[2] = "defense"
    BY DEF Defenses
  <2>2. games'[task[1]].prover # NoAddress
    <3> SUFFICES ASSUME games' = games, games[task[1]].deadline < now,
                        games[task[1]].prover = NoAddress
                 PROVE  FALSE
      BY <1>6, <1>7
    <3>1. now < games[task[1]].deadline /\ games[task[1]].deadline \in Nat /\ now \in Nat
      BY <1>0, <1>3, GamesTyped DEF DefendOK, Game
    <3> QED
      BY <3>1
  <2>3. task[1] \in Indices'
    BY <1>0, <1>3, EachMoves
  <2> QED
    BY <1>3, <2>1, <2>2, <2>3 DEF Done
<1>8. ASSUME worked', NEW i \in Open', i \in BeingProved PROVE i \in BeingProved'
  <2>1. PICK t \in proving : i = t[1]
    BY <1>8 DEF BeingProved
  <2>2. t # task
    BY <1>6, <1>8, <2>1
  <2>3. t \in proving'
    BY <1>0, <2>2
  <2> QED
    BY <2>1, <2>3 DEF BeingProved
<1>9. WorkOK'
  BY <1>0, <1>3, <1>7, <1>8, WorkKept
<1> QED
  BY <1>1, <1>2, <1>4, <1>5, <1>9 DEF PaceOK

LEMMA RegisterPaced ==
    ASSUME Defensible, ProposerInv, PaceOK, Register, UNCHANGED worked
    PROVE  PaceOK'
<1> DEFINE task == <<creation.index, "finality">>
<1>0. /\ OrderInv /\ FreshOK /\ AlertOK /\ DefendOK /\ WorkOK /\ faults \in Nat
      /\ UNCHANGED vars /\ UNCHANGED <<now, pinned, tracked, phase, faults>>
      /\ complete' => complete
      /\ \/ proving' = proving
         \/ proving' = proving \union {task} /\ creation.index \in DOMAIN tracked
  BY DEF ProposerInv, PaceOK, Register, vars, outside
<1>1. CanonicalClaimsSurvive' /\ ListOK' /\ InTime'
  BY <1>0, SecondGoesOn
<1>2. FreshOK' /\ AlertOK'
  BY <1>0, FreshStep, AlertAges
<1>3. task[2] = "finality"
        /\ (creation.index \in DOMAIN tracked => task \in Indices \X {"finality", "defense"})
  BY PinnedFacts DEF ProposerInv, MemoryOK
<1> HIDE DEF task
<1>4. Defenses' = Defenses
  <2>1. Defenses' = {t \in proving' : t[2] = "defense"}
    BY DEF Defenses
  <2> QED
    BY <1>0, <1>3, <2>1 DEF Defenses
<1>5. /\ IsFiniteSet(proving') /\ proving' \subseteq Indices \X {"finality", "defense"}
      /\ proving \subseteq proving'
  BY <1>0, <1>3, FS_AddElement DEF DefendOK
<1>6. DefendOK'
  BY <1>0, <1>4, <1>5, DefendAges
<1>7. BeingProved \subseteq BeingProved'
  BY <1>5 DEF BeingProved
<1>8. WorkOK'
  BY <1>0, <1>4, <1>5, <1>7, WorkKept
<1> QED
  BY <1>0, <1>1, <1>2, <1>6, <1>8 DEF PaceOK

LEMMA RestartPaced ==
    ASSUME Defensible, ProposerInv, PaceOK, Restart, worked' = FALSE
    PROVE  PaceOK'
<1>0. /\ OrderInv /\ FreshOK /\ DefendOK /\ WorkOK /\ faults' \in Nat
      /\ UNCHANGED vars /\ UNCHANGED <<now, pinned>>
      /\ phase' = "sync" /\ complete' = FALSE /\ proving' = {}
  BY DEF ProposerInv, PaceOK, Restart, Fault, vars
<1>1. CanonicalClaimsSurvive' /\ ListOK' /\ InTime'
  BY <1>0, SecondGoesOn
<1>2. FreshOK' /\ AlertOK'
  BY <1>0, FreshStep DEF AlertOK
<1>3. Defenses' = {} /\ IsFiniteSet(proving')
  BY <1>0, FS_EmptySet DEF Defenses
<1>4. DefendOK'
  BY <1>0, <1>3, DefendAges
<1>5. WorkOK'
  BY <1>0, <1>3, WorkKept
<1> QED
  BY <1>0, <1>1, <1>2, <1>4, <1>5 DEF PaceOK

LEMMA SyncPaced ==
    ASSUME Defensible, ProposerInv, PaceOK, NEW n \in DOMAIN Stages, NEW pr, SyncState(n, pr),
           worked' => worked
    PROVE  PaceOK'
<1>0. /\ OrderInv /\ ListOK /\ InTime /\ CanonicalClaimsSurvive
      /\ FreshOK /\ DefendOK /\ WorkOK /\ faults' \in Nat
      /\ UNCHANGED vars /\ UNCHANGED <<now, pinned, proving>>
  BY DEF ProposerInv, PaceOK, SyncState, Unless, Fault, vars, tasks
<1>1. CanonicalClaimsSurvive' /\ ListOK' /\ InTime'
  BY <1>0, SecondGoesOn
<1>2. FreshOK' /\ AlertOK'
  BY <1>0, FreshStep, SyncAlert
<1>3. Defenses' = Defenses /\ BeingProved' = BeingProved
  BY <1>0 DEF Defenses, BeingProved
<1>4. DefendOK'
  BY <1>0, <1>3, DefendAges DEF DefendOK
<1>5. WorkOK'
  BY <1>0, <1>3, WorkKept DEF DefendOK
<1> QED
  BY <1>0, <1>1, <1>2, <1>4, <1>5 DEF PaceOK

LEMMA ConfirmPaced ==
    ASSUME Defensible, ProposerInv, PaceOK, Confirm, UNCHANGED worked
    PROVE  PaceOK'
<1>0. /\ OrderInv /\ DefendOK /\ WorkOK /\ faults' \in Nat
      /\ UNCHANGED vars /\ UNCHANGED <<now, proving>>
      /\ phase' = "sync" /\ complete' = FALSE
  BY DEF ProposerInv, PaceOK, Confirm, vars, tasks
<1>1. CanonicalClaimsSurvive' /\ ListOK' /\ InTime'
  BY <1>0, SecondGoesOn
<1>2. FreshOK' /\ AlertOK'
  BY <1>0, ConfirmFresh DEF AlertOK
<1>3. Defenses' = Defenses /\ BeingProved' = BeingProved
  BY <1>0 DEF Defenses, BeingProved
<1>4. DefendOK'
  BY <1>0, <1>3, DefendAges DEF DefendOK
<1>5. WorkOK'
  BY <1>0, <1>3, WorkKept DEF DefendOK
<1> QED
  BY <1>0, <1>1, <1>2, <1>4, <1>5 DEF PaceOK

LEMMA PacedIsStep ==
    ASSUME [PacedNext]_pacedVars PROVE [ProposerNext]_allVars
BY DEF PacedNext, pacedVars, ProposerNext

(* The steps of others, of the creation task and of the backup.            *)
LEMMA OthersPaced ==
    ASSUME Defensible, ProposerInv, PaceOK, [Next]_vars,
           World \/ L2Advances \/ CreateSend \/ CreateMined \/ CreateFails \/ SaveEnds
              \/ UNCHANGED allVars,
           UNCHANGED worked
    PROVE  PaceOK'
<1>0. faults \in Nat
  BY DEF PaceOK
<1>1. UNCHANGED now
  <2>1. CASE World
    BY <2>1 DEF World, RegistryStep, Create, CreateOther, ResolveOther, Challenge, Prove, Resolve,
       CloseGame, ClaimCredit
  <2>2. CASE CreateMined
    BY <2>2 DEF CreateMined, Create
  <2>3. CASE L2Advances \/ CreateSend \/ CreateFails \/ SaveEnds \/ UNCHANGED allVars
    BY <2>3 DEF L2Advances, CreateSend, CreateFails, SaveEnds, vars, allVars
  <2> QED
    BY <2>1, <2>2, <2>3
<1>2. UNCHANGED <<pinned, tracked, proving, phase, complete>>
  BY DEF World, L2Advances, CreateSend, CreateMined, CreateFails, SaveEnds, allVars, proposerVars,
     syncVars, cache, tasks, outside
<1>3. faults' \in Nat
  <2>1. CASE World \/ L2Advances \/ CreateSend \/ CreateMined \/ UNCHANGED allVars
    BY <1>0, <2>1 DEF World, L2Advances, CreateSend, CreateMined, allVars, proposerVars, outside
  <2>2. CASE CreateFails \/ SaveEnds
    <3>1. UNCHANGED faults \/ Fault
      BY <2>2, Zenon DEF CreateFails, SaveEnds, Unless
    <3> QED
      BY <1>0, <3>1 DEF Fault
  <2> QED
    BY <2>1, <2>2
<1> QED
  BY <1>1, <1>2, <1>3, QuietStep

LEMMA PaceStep ==
    ASSUME Defensible, ProposerInv, PaceOK, [PacedNext]_pacedVars
    PROVE  PaceOK'
<1>0. [Next]_vars /\ faults \in Nat
  BY PacedIsStep, StepOfGames DEF PaceOK
<1>1. CASE Clock /\ worked /\ proving = {} /\ worked' = FALSE
  BY <1>1, SecondEnds
<1>2. CASE (World \/ L2Advances \/ SaveEnds) /\ UNCHANGED worked
  BY <1>0, <1>2, OthersPaced
<1>3. CASE Confirm /\ UNCHANGED worked
  BY <1>3, ConfirmPaced
<1>4. CASE CreationStep /\ UNCHANGED worked
  BY <1>0, <1>4, OthersPaced, RegisterPaced DEF CreationStep
<1>5. CASE TaskStep /\ (worked' => worked /\ faults' = faults)
  <2>1. ASSUME NEW task \in proving, ProveSucceeds(task) \/ ProveFails(task) PROVE PaceOK'
    BY <1>0, <1>5, <2>1, ProofEndsPaced
  <2>2. ASSUME NEW k \in Kinds, NEW i \in pending[k], Attempt(k, i) \/ PassOver(k, i)
        PROVE  PaceOK'
    <3>1. UNCHANGED now
      BY <2>2 DEF Attempt, PassOver, Resolve, CloseGame, ClaimCredit, vars
    <3>2. UNCHANGED <<pinned, tracked, proving, phase, complete>>
      BY <2>2 DEF Attempt, PassOver, syncVars, outside
    <3>3. faults' \in Nat
      <4>1. CASE Attempt(k, i)
        BY <1>0, <4>1 DEF Attempt, outside
      <4>2. CASE PassOver(k, i)
        <5>1. UNCHANGED faults \/ Fault
          BY <4>2, Zenon DEF PassOver, Unless
        <5> QED
          BY <1>0, <5>1 DEF Fault
      <4> QED
        BY <2>2, <4>1, <4>2
    <3>4. worked' => worked
      BY <1>5
    <3> QED
      BY <1>0, <3>1, <3>2, <3>3, <3>4, QuietStep
  <2> QED
    BY <1>5, <2>1, <2>2 DEF TaskStep
<1>6. CASE Restart /\ worked' = FALSE
  BY <1>6, RestartPaced
<1>7. CASE Loop /\ (worked' => /\ faults' = faults
                               /\ worked \/ (phase = "spawn" /\ pinned.now = now))
  <2>1. ASSUME NEW n \in DOMAIN Stages, NEW pr \in RemovalsFinal, SyncState(n, pr)
        PROVE  PaceOK'
    <3>1. phase = "sync"
      BY <2>1 DEF SyncState
    <3> QED
      BY <1>7, <2>1, <3>1, SyncPaced
  <2>2. CASE SyncUnchanged
    <3>1. phase = "sync" /\ complete /\ UNCHANGED <<now, pinned, tracked, proving, faults>>
      BY <2>2 DEF SyncUnchanged, vars, cache, tasks, outside
    <3>2. worked' => worked
      BY <1>7, <3>1
    <3> QED
      BY <1>0, <3>1, <3>2, QuietStep
  <2>3. ASSUME NEW R \in SUBSET DOMAIN tracked, NEW D \in SUBSET DOMAIN tracked,
               NEW create \in BOOLEAN, Spawn(R, D, create)
        PROVE  PaceOK'
    BY <1>7, <2>3, SpawnPaced
  <2> QED
    BY <1>7, <2>1, <2>2, <2>3 DEF Loop
<1>8. CASE UNCHANGED pacedVars
  BY <1>0, <1>8, OthersPaced DEF pacedVars
<1>9. \/ Clock /\ worked /\ proving = {} /\ worked' = FALSE
      \/ (World \/ Confirm \/ L2Advances \/ CreationStep \/ SaveEnds) /\ UNCHANGED worked
      \/ TaskStep /\ (worked' => worked /\ faults' = faults)
      \/ Restart /\ worked' = FALSE
      \/ Loop /\ (worked' => /\ faults' = faults
                             /\ worked \/ (phase = "spawn" /\ pinned.now = now))
      \/ UNCHANGED pacedVars
  BY Zenon DEF PacedNext
<1> QED
  BY <1>1, <1>2, <1>3, <1>4, <1>5, <1>6, <1>7, <1>8, <1>9

LEMMA PaceInit == PacedInit => PaceOK
<1> SUFFICES ASSUME PacedInit PROVE PaceOK
  OBVIOUS
<1>1. games = << >> /\ now = 1 /\ Indices = {}
  BY DEF PacedInit, ProposerInit, Init, FactoryInit, Indices
<1>2. pinned.games = << >> /\ pinned.now = 1 /\ PinnedIndices = {}
  BY <1>1 DEF PacedInit, ProposerInit, PinnedIndices
<1>3. proving = {} /\ Defenses = {} /\ Open = {} /\ worked = FALSE /\ faults = 0
      /\ phase = "sync" /\ complete = FALSE
  BY <1>1 DEF PacedInit, ProposerInit, Defenses, Open
<1>4. ListOK /\ CanonicalClaimsSurvive /\ InTime
  BY <1>1, <1>3, FactoryAssumption DEF ListOK, CanonicalClaimsSurvive, Succinct, InTime, Indices
<1>5. FreshOK /\ AlertOK
  BY <1>1, <1>2, <1>3 DEF FreshOK, AlertOK
<1>6. DefendOK
  BY <1>3, FS_EmptySet DEF DefendOK
<1>7. WorkOK
  <2>1. {} \in SUBSET Done /\ {} \intersect Defenses = {}
    OBVIOUS
  <2> QED
    BY <1>3, <2>1 DEF WorkOK
<1> QED
  BY <1>3, <1>4, <1>5, <1>6, <1>7 DEF PaceOK

(* One proposer that keeps pace saves every canonical claim on canonical   *)
(* claims, whoever made it, however many are challenged at once and in     *)
(* whatever order: with MaxDefenses proofs at a time, taken by deadline,   *)
(* it is enough that the time to prove has a turn for every game           *)
(* (spawn_game_defense_tasks, sync_games, challenge, resolve).             *)
THEOREM CanonicalClaimsAreSaved == Defensible => (PacedSpec => []CanonicalClaimsSurvive)
<1> SUFFICES ASSUME Defensible PROVE PacedSpec => []CanonicalClaimsSurvive
  OBVIOUS
<1>1. PacedInit => ProposerInv /\ PaceOK
  BY ProposerInvInit, PaceInit DEF PacedInit
<1>2. ProposerInv /\ PaceOK /\ [PacedNext]_pacedVars => ProposerInv' /\ PaceOK'
  BY PacedIsStep, ProposerInvStep, PaceStep
<1>3. ProposerInv /\ PaceOK => CanonicalClaimsSurvive
  BY DEF PaceOK
<1> QED
  BY <1>1, <1>2, <1>3, PTL DEF PacedSpec
=============================================================================
