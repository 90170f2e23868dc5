------------------------ MODULE L2OutputOracleProofs ------------------------
(***************************************************************************)
(* Theorems about L2OutputOracle for every value of its constants.         *)
(***************************************************************************)
EXTENDS L2OutputOracle, NaturalSets, SequenceTheorems

Game == [root : Roots, block : Nat, createdAt : Nat, status : {"DEFENDER_WINS"}]

OracleTyped ==
    /\ l2Outputs \in Seq(Output) /\ Len(l2Outputs) \in Nat \ {0}
    /\ games \in Seq(Game)
    /\ now \in Nat
    /\ submissionInterval \in Nat \ {0}
    /\ finalizationPeriodSeconds \in Nat

(* The outputs are stored in the order of time and of strictly growing     *)
(* blocks, whatever was deleted between two of them.                       *)
OutputsOrdered ==
    \A i \in 1..Len(l2Outputs) :
        /\ l2Outputs[i].timestamp <= now
        /\ \A j \in 1..(i - 1) : /\ l2Outputs[j].timestamp <= l2Outputs[i].timestamp
                                 /\ l2Outputs[j].block < l2Outputs[i].block

OracleInv == OracleTyped /\ OutputsOrdered /\ ProvenExtendsPrevious

LEMMA OracleInvInit == Init => OracleInv
<1> SUFFICES ASSUME Init PROVE OracleInv
  OBVIOUS
<1>1. Genesis \in Output
  BY DEF Genesis, Output, Roots
<1>2. l2Outputs = <<Genesis>> /\ l2Outputs \in Seq(Output) /\ Len(l2Outputs) = 1
  BY <1>1 DEF Init
<1>3. OracleTyped
  BY <1>2, OracleAssumption DEF Init, OracleTyped
<1>4. \A i \in 1..Len(l2Outputs) : i = 1 /\ l2Outputs[i].timestamp = 0 /\ 1..(i - 1) = {}
  BY <1>2 DEF Genesis
<1>5. OutputsOrdered
  BY <1>4 DEF Init, OutputsOrdered
<1>6. ProvenExtendsPrevious
  BY <1>2 DEF ProvenExtendsPrevious
<1> QED
  BY <1>3, <1>5, <1>6 DEF OracleInv

LEMMA OutputTyped ==
    ASSUME OracleTyped, NEW i \in 1..Len(l2Outputs)
    PROVE  l2Outputs[i] \in Output /\ l2Outputs[i].timestamp \in Nat /\ l2Outputs[i].block \in Nat
<1>1. l2Outputs[i] \in Output
  BY DEF OracleTyped
<1> QED
  BY <1>1 DEF Output

(* A new output keeps the order: it is stamped now and lies at least one   *)
(* submission interval beyond the latest.                                  *)
LEMMA PushKeepsOrder ==
    ASSUME OracleInv, NEW root \in Roots, NEW block \in Nat, NEW via \in {"proof", "optimistic"},
           Push(root, block, via), block >= NextBlockNumber, UNCHANGED now,
           via = "proof" => ProofVerifies(root)
    PROVE  /\ l2Outputs' \in Seq(Output) /\ Len(l2Outputs') = Len(l2Outputs) + 1
           /\ \A i \in 1..Len(l2Outputs) : l2Outputs'[i] = l2Outputs[i]
           /\ l2Outputs'[Len(l2Outputs')].root = root
           /\ l2Outputs'[Len(l2Outputs')].block = block
           /\ OutputsOrdered' /\ ProvenExtendsPrevious'
<1> DEFINE n == Len(l2Outputs)
           o == [root |-> root, timestamp |-> now, block |-> block, via |-> via]
<1>0. /\ l2Outputs \in Seq(Output) /\ n \in Nat \ {0} /\ now \in Nat
      /\ submissionInterval \in Nat \ {0}
  BY DEF OracleInv, OracleTyped
<1>1. o \in Output
  BY <1>0 DEF Output
<1>2. o.root = root /\ o.timestamp = now /\ o.block = block /\ o.via = via
  OBVIOUS
<1>3. l2Outputs' = Append(l2Outputs, o)
  BY DEF Push
<1> HIDE DEF o
<1>4. /\ l2Outputs' \in Seq(Output) /\ Len(l2Outputs') = n + 1
      /\ \A i \in 1..n : l2Outputs'[i] = l2Outputs[i]
      /\ l2Outputs'[n + 1] = o
  BY <1>0, <1>1, <1>3
<1>5. /\ \A i \in 1..n : l2Outputs[i].timestamp \in Nat /\ l2Outputs[i].block \in Nat
      /\ \A i \in 1..(n + 1) : i \in 1..n \/ i = n + 1
  <2>1. \A i \in 1..(n + 1) : i \in 1..n \/ i = n + 1
    BY <1>0
  <2> QED
    BY <2>1, OutputTyped DEF OracleInv
<1>6. l2Outputs[n].block < block
  BY <1>0, <1>5 DEF NextBlockNumber, LatestBlockNumber, LatestOutput
<1>7. OutputsOrdered'
  <2> SUFFICES ASSUME NEW i \in 1..(n + 1)
               PROVE  /\ l2Outputs'[i].timestamp <= now
                      /\ \A j \in 1..(i - 1) :
                            /\ l2Outputs'[j].timestamp <= l2Outputs'[i].timestamp
                            /\ l2Outputs'[j].block < l2Outputs'[i].block
    BY <1>4 DEF OutputsOrdered
  <2>1. CASE i \in 1..n
    <3>1. \A j \in 1..(i - 1) : j \in 1..n
      BY <2>1
    <3> QED
      BY <1>4, <2>1, <3>1 DEF OracleInv, OutputsOrdered
  <2>2. CASE i = n + 1
    <3>1. \A j \in 1..(i - 1) : j \in 1..n /\ (j = n \/ j \in 1..(n - 1))
      BY <1>0, <2>2
    <3>2. \A j \in 1..n : l2Outputs[j].timestamp <= now
      BY DEF OracleInv, OutputsOrdered
    <3>3. \A j \in 1..(n - 1) : l2Outputs[j].block < l2Outputs[n].block
      BY <1>0 DEF OracleInv, OutputsOrdered
    <3>4. \A j \in 1..n : l2Outputs[j].block < block
      <4> TAKE j \in 1..n
      <4>1. j = n \/ j \in 1..(n - 1)
        BY <1>0
      <4>2. l2Outputs[j].block \in Nat /\ l2Outputs[n].block \in Nat
        BY <1>0, <1>5
      <4> QED
        BY <1>6, <3>3, <4>1, <4>2
    <3> QED
      BY <1>0, <1>2, <1>4, <2>2, <3>1, <3>2, <3>4
  <2> QED
    BY <1>5, <2>1, <2>2
<1>8. ProvenExtendsPrevious'
  <2> SUFFICES ASSUME NEW i \in 2..(n + 1), l2Outputs'[i].via = "proof",
                      l2Outputs'[i - 1].root = "canonical"
               PROVE  l2Outputs'[i].root = "canonical"
    BY <1>4 DEF ProvenExtendsPrevious
  <2>1. CASE i \in 2..n
    BY <1>0, <1>4, <2>1 DEF OracleInv, ProvenExtendsPrevious
  <2>2. CASE i = n + 1
    BY <1>0, <1>2, <1>4, <2>2 DEF ProofVerifies, LatestOutput
  <2> QED
    BY <1>0, <2>1, <2>2
<1> QED
  BY <1>2, <1>4, <1>7, <1>8

(* Every call that ends in a proven output satisfies what Push needs.      *)
LEMMA AcceptedIsOrdered ==
    ASSUME OracleInv, NEW s, NEW c, NEW root \in Roots, NEW block \in Nat, NEW l, NEW e,
           AcceptProven(s, c, root, block, l, e), UNCHANGED now
    PROVE  /\ l2Outputs' \in Seq(Output) /\ Len(l2Outputs') = Len(l2Outputs) + 1
           /\ \A i \in 1..Len(l2Outputs) : l2Outputs'[i] = l2Outputs[i]
           /\ l2Outputs'[Len(l2Outputs')].root = root
           /\ l2Outputs'[Len(l2Outputs')].block = block
           /\ OutputsOrdered' /\ ProvenExtendsPrevious'
BY PushKeepsOrder DEF AcceptProven

(* Deleting a suffix keeps the order of what is left.                      *)
LEMMA DeletionKeepsOrder ==
    ASSUME OracleInv, NEW m \in Nat, DeleteL2Outputs(m)
    PROVE  /\ m \in 1..(Len(l2Outputs) - 1)
           /\ l2Outputs' \in Seq(Output) /\ Len(l2Outputs') = m
           /\ \A i \in 1..m : l2Outputs'[i] = l2Outputs[i]
           /\ OutputsOrdered' /\ ProvenExtendsPrevious'
<1>0. l2Outputs \in Seq(Output) /\ Len(l2Outputs) \in Nat
  BY DEF OracleInv, OracleTyped
<1>1. m \in 1..(Len(l2Outputs) - 1) /\ l2Outputs' = SubSeq(l2Outputs, 1, m) /\ now' = now
  BY <1>0 DEF DeleteL2Outputs
<1>2. /\ l2Outputs' \in Seq(Output) /\ Len(l2Outputs') = m
      /\ \A i \in 1..m : l2Outputs'[i] = l2Outputs[i]
  BY <1>0, <1>1
<1>3. \A i \in 1..m : i \in 1..Len(l2Outputs) /\ \A j \in 1..(i - 1) : j \in 1..m
  BY <1>0, <1>1
<1>4. OutputsOrdered'
  BY <1>1, <1>2, <1>3 DEF OracleInv, OutputsOrdered
<1>5. ProvenExtendsPrevious'
  <2>1. \A i \in 2..m : i \in 2..Len(l2Outputs) /\ i \in 1..m /\ i - 1 \in 1..m
    BY <1>0, <1>1
  <2> QED
    BY <1>2, <2>1 DEF OracleInv, ProvenExtendsPrevious
<1> QED
  BY <1>1, <1>2, <1>4, <1>5

(* What a step can do to the list of outputs.                              *)
Stored ==
    /\ Len(l2Outputs') = Len(l2Outputs) + 1
    /\ \A i \in 1..Len(l2Outputs) : l2Outputs'[i] = l2Outputs[i]

LEMMA OracleStep ==
    ASSUME OracleInv, [Next]_vars
    PROVE  /\ OracleInv'
           /\ \/ l2Outputs' = l2Outputs
              \/ Stored
              \/ \E m \in Nat : DeleteL2Outputs(m)
<1>0. OracleTyped /\ OutputsOrdered /\ ProvenExtendsPrevious
  BY DEF OracleInv
<1> DEFINE Outputs == /\ l2Outputs' \in Seq(Output) /\ Len(l2Outputs') \in Nat \ {0}
                      /\ OutputsOrdered' /\ ProvenExtendsPrevious'
           Rest == /\ games' \in Seq(Game) /\ now' \in Nat
                   /\ submissionInterval' \in Nat \ {0} /\ finalizationPeriodSeconds' \in Nat
           Change == \/ l2Outputs' = l2Outputs
                     \/ Stored
                     \/ \E m \in Nat : DeleteL2Outputs(m)
<1> SUFFICES Outputs /\ Rest /\ Change
  BY DEF OracleInv, OracleTyped
<1>1. CASE UNCHANGED vars
  BY <1>0, <1>1 DEF vars, settings, OracleTyped, OutputsOrdered, ProvenExtendsPrevious
<1>2. CASE Tick
  <2>1. now \in Nat /\ now' = now + 1 /\ UNCHANGED <<l2Outputs, settings, games>>
    BY <1>0, <1>2 DEF Tick, OracleTyped
  <2>2. \A i \in 1..Len(l2Outputs) : l2Outputs[i].timestamp \in Nat
    BY <1>0, OutputTyped
  <2>3. OutputsOrdered'
    BY <1>0, <2>1, <2>2 DEF OutputsOrdered
  <2> QED
    BY <1>0, <2>1, <2>3 DEF settings, OracleTyped, ProvenExtendsPrevious
<1>3. CASE OwnerStep
  <2>1. UNCHANGED <<l2Outputs, games, now>>
    BY <1>3 DEF OwnerStep
  <2>2. submissionInterval' \in Nat \ {0} /\ finalizationPeriodSeconds' \in Nat
    <3>1. ASSUME NEW k \in Intervals, ValidInterval(k) PROVE k \in Nat \ {0}
      BY <3>1, OracleAssumption DEF ValidInterval
    <3> QED
      BY <1>0, <1>3, <3>1, OracleAssumption DEF OwnerStep, OracleTyped, UpdateSubmissionInterval,
         SetProposer, AddOpSuccinctConfig, DeleteOpSuccinctConfig, ToggleOptimisticMode,
         SetDisputeGameFactory, Upgrade
  <2> QED
    BY <1>0, <2>1, <2>2 DEF OracleTyped, OutputsOrdered, ProvenExtendsPrevious
<1>4. CASE \E k \in L1Blocks : CheckpointBlockHash(k)
  BY <1>0, <1>4 DEF CheckpointBlockHash, settings, OracleTyped, OutputsOrdered,
     ProvenExtendsPrevious
<1>5. CASE \E m \in 1..MaxOutputs : DeleteL2Outputs(m)
  <2>1. PICK m \in 1..MaxOutputs : DeleteL2Outputs(m)
    BY <1>5
  <2>2. m \in Nat
    BY <2>1, OracleAssumption
  <2> QED
    BY <1>0, <2>1, <2>2, DeletionKeepsOrder DEF DeleteL2Outputs, settings, OracleTyped
<1>6. ASSUME NEW s \in Actors, NEW c \in ConfigNames, NEW r \in Roots, NEW b \in 1..MaxBlock,
             NEW l \in L1Blocks,
             \/ ProposeL2Output(s, c, r, b, l)
             \/ DgfProposeL2Output(s, c, r, b, l)
             \/ CreateDirectly(s, c, r, b, l)
      PROVE  Outputs /\ Rest /\ Change
  <2>1. PICK e \in BOOLEAN : AcceptProven(s, c, r, b, l, e)
    BY <1>6 DEF ProposeL2Output, DgfProposeL2Output, CreateDirectly
  <2>2. UNCHANGED <<now, settings>>
    BY <1>6 DEF ProposeL2Output, DgfProposeL2Output, CreateDirectly
  <2>3. b \in Nat
    BY OracleAssumption
  <2>4. Outputs /\ Stored
    BY <1>0, <2>1, <2>2, <2>3, AcceptedIsOrdered DEF Stored, OracleTyped
  <2>5. games' \in Seq(Game)
    <3>1. [root |-> r, block |-> b, createdAt |-> now, status |-> "DEFENDER_WINS"] \in Game
      BY <1>0, <2>3 DEF Game, OracleTyped
    <3>2. games' = games \/ NewGame(r, b)
      BY <1>6 DEF ProposeL2Output, DgfProposeL2Output, CreateDirectly
    <3>3. PICK g \in Game :
            g = [root |-> r, block |-> b, createdAt |-> now, status |-> "DEFENDER_WINS"]
      BY <3>1
    <3>4. games' = games \/ games' = Append(games, g)
      BY <3>2, <3>3 DEF NewGame
    <3>5. games \in Seq(Game)
      BY <1>0 DEF OracleTyped
    <3>6. Append(games, g) \in Seq(Game)
      BY <3>5, AppendProperties
    <3> QED
      BY <3>4, <3>5, <3>6
  <2> QED
    BY <1>0, <2>2, <2>4, <2>5 DEF settings, OracleTyped
<1>7. ASSUME NEW s \in Actors, NEW i \in 1..Len(games), NEW c \in ConfigNames,
             NEW l \in L1Blocks, InitializeAgain(s, i, c, l)
      PROVE  Outputs /\ Rest /\ Change
  <2>1. games[i] \in Game /\ games[i].root \in Roots /\ games[i].block \in Nat
    <3>1. games[i] \in Game
      BY <1>0 DEF OracleTyped
    <3> QED
      BY <3>1 DEF Game
  <2>2. PICK r \in Roots, b \in Nat, e \in BOOLEAN :
             r = games[i].root /\ b = games[i].block /\ e = FALSE
    BY <2>1
  <2>3. AcceptProven(s, c, r, b, l, e) /\ UNCHANGED <<now, settings>>
    BY <1>7, <2>2 DEF InitializeAgain
  <2>4. Outputs /\ Stored
    BY <1>0, <2>3, AcceptedIsOrdered DEF Stored, OracleTyped
  <2>5. games' \in Seq(Game)
    <3>1. [games[i] EXCEPT !.createdAt = now] \in Game
      BY <1>0, <2>1 DEF Game, OracleTyped
    <3>2. PICK g \in Game : g = [games[i] EXCEPT !.createdAt = now]
      BY <3>1
    <3>3. games' = [games EXCEPT ![i] = g] /\ i \in 1..Len(games)
      BY <1>7, <3>2 DEF InitializeAgain
    <3>4. games \in Seq(Game)
      BY <1>0 DEF OracleTyped
    <3>5. [games EXCEPT ![i] = g] \in Seq(Game)
      BY <3>3, <3>4, ExceptSeq
    <3> QED
      BY <3>3, <3>5
  <2> QED
    BY <1>0, <2>3, <2>4, <2>5 DEF settings, OracleTyped
<1>8. ASSUME NEW s \in Actors, NEW r \in Roots, NEW b \in 1..MaxBlock, ProposeOptimistic(s, r, b)
      PROVE  Outputs /\ Rest /\ Change
  <2>1. b \in Nat /\ NextBlockNumber \in Nat
    <3>1. LatestOutput \in Output /\ submissionInterval \in Nat
      BY <1>0 DEF OracleTyped, LatestOutput
    <3>2. LatestBlockNumber \in Nat
      BY <3>1 DEF LatestBlockNumber, Output
    <3>3. NextBlockNumber \in Nat
      BY <3>1, <3>2 DEF NextBlockNumber
    <3> QED
      BY <3>3, OracleAssumption
  <2>2. Push(r, b, "optimistic") /\ b = NextBlockNumber /\ UNCHANGED <<settings, games, now>>
    BY <1>8 DEF ProposeOptimistic
  <2>3. Outputs /\ Stored
    BY <1>0, <2>1, <2>2, PushKeepsOrder DEF Stored, OracleTyped
  <2> QED
    BY <1>0, <2>2, <2>3 DEF settings, OracleTyped
<1> QED
  BY <1>1, <1>2, <1>3, <1>4, <1>5, <1>6, <1>7, <1>8 DEF Next

LEMMA OracleInvariant == Spec => []OracleInv
BY OracleInvInit, OracleStep, PTL DEF Spec

(* An output accepted with a proof is canonical if the one before it is,   *)
(* through every mix of optimistic phases, deletions and repeated          *)
(* initializations.                                                        *)
THEOREM ProvenExtends == Spec => []ProvenExtendsPrevious
<1>1. OracleInv => ProvenExtendsPrevious
  BY DEF OracleInv
<1> QED
  BY <1>1, OracleInvariant, PTL

(* deleteL2Outputs checks one output only, yet none that is final goes.    *)
THEOREM FinalStays == Spec => FinalizedNeverDeleted
<1> DEFINE A == \A i \in 1..Len(l2Outputs) :
                    i = 1 \/ now - l2Outputs[i].timestamp >= finalizationPeriodSeconds =>
                        i <= Len(l2Outputs') /\ l2Outputs'[i] = l2Outputs[i]
<1>1. OracleInv /\ [Next]_vars => [A]_vars
  <2> SUFFICES ASSUME OracleInv, [Next]_vars, NEW i \in 1..Len(l2Outputs),
                      i = 1 \/ now - l2Outputs[i].timestamp >= finalizationPeriodSeconds
               PROVE  i <= Len(l2Outputs') /\ l2Outputs'[i] = l2Outputs[i]
    OBVIOUS
  <2>0. /\ Len(l2Outputs) \in Nat /\ now \in Nat /\ finalizationPeriodSeconds \in Nat
        /\ \A j \in 1..Len(l2Outputs) : l2Outputs[j].timestamp \in Nat
    <3>1. OracleTyped
      BY DEF OracleInv
    <3> QED
      BY <3>1, OutputTyped DEF OracleTyped
  <2>1. CASE l2Outputs' = l2Outputs
    BY <2>0, <2>1
  <2>2. CASE Stored
    BY <2>0, <2>2 DEF Stored
  <2>3. ASSUME NEW m \in Nat, DeleteL2Outputs(m)
        PROVE  i <= Len(l2Outputs') /\ l2Outputs'[i] = l2Outputs[i]
    <3>1. /\ m \in 1..(Len(l2Outputs) - 1) /\ Len(l2Outputs') = m
          /\ \A j \in 1..m : l2Outputs'[j] = l2Outputs[j]
      BY <2>3, DeletionKeepsOrder
    <3>2. now - l2Outputs[m + 1].timestamp < finalizationPeriodSeconds
      BY <2>3 DEF DeleteL2Outputs, StillDeletable
    <3>3. ASSUME i > m PROVE FALSE
      <4>1. i # 1 /\ m + 1 \in 1..Len(l2Outputs) /\ (i = m + 1 \/ m + 1 \in 1..(i - 1))
        BY <2>0, <3>1, <3>3
      <4>2. l2Outputs[m + 1].timestamp <= l2Outputs[i].timestamp
        BY <2>0, <4>1 DEF OracleInv, OutputsOrdered
      <4> QED
        BY <2>0, <3>2, <4>1, <4>2
    <3> QED
      BY <2>0, <3>1, <3>3
  <2> QED
    BY <2>1, <2>2, <2>3, OracleStep
<1> QED
  BY <1>1, OracleInvariant, PTL DEF Spec, FinalizedNeverDeleted

(* With a factory set, the oracle stores no proven output without a game:  *)
(* every other way in fails the check of the caller.                       *)
THEOREM GamesComeAlong == Spec => OutputsComeWithGames
<1> DEFINE A == disputeGameFactory = "set" /\ optimisticMode = "off"
                  /\ Len(l2Outputs') > Len(l2Outputs) =>
                    /\ Len(games') = Len(games) + 1
                    /\ games'[Len(games')].root = l2Outputs'[Len(l2Outputs')].root
                    /\ games'[Len(games')].block = l2Outputs'[Len(l2Outputs')].block
<1>1. OracleInv /\ [Next]_vars => [A]_vars
  <2> SUFFICES ASSUME OracleInv, [Next]_vars, disputeGameFactory = "set", optimisticMode = "off",
                      Len(l2Outputs') > Len(l2Outputs)
               PROVE  /\ Len(games') = Len(games) + 1
                      /\ games'[Len(games')].root = l2Outputs'[Len(l2Outputs')].root
                      /\ games'[Len(games')].block = l2Outputs'[Len(l2Outputs')].block
    OBVIOUS
  <2>0. OracleTyped
    BY DEF OracleInv
  <2>1. l2Outputs' # l2Outputs
    BY <2>0 DEF OracleTyped
  <2>2. \A m \in Nat : ~DeleteL2Outputs(m)
    BY <2>0, DeletionKeepsOrder DEF OracleTyped
  <2>3. PICK s \in Actors, c \in ConfigNames, r \in Roots, b \in 1..MaxBlock, l \in L1Blocks :
             DgfProposeL2Output(s, c, r, b, l)
    <3>1. ~Tick /\ ~OwnerStep /\ ~UNCHANGED vars
      BY <2>1 DEF Tick, OwnerStep, vars
    <3>2. \A k \in L1Blocks : ~CheckpointBlockHash(k)
      BY <2>1 DEF CheckpointBlockHash
    <3>3. \A m \in 1..MaxOutputs : ~DeleteL2Outputs(m)
      BY <2>2, OracleAssumption
    <3>4. \A s, c, r, b, l : ~ProposeL2Output(s, c, r, b, l) /\ ~CreateDirectly(s, c, r, b, l)
      BY DEF ProposeL2Output, CreateDirectly, AcceptProven, EnteredAsRequired
    <3>5. \A s, i, c, l : ~InitializeAgain(s, i, c, l)
      BY DEF InitializeAgain, AcceptProven, EnteredAsRequired
    <3>6. \A s, r, b : ~ProposeOptimistic(s, r, b)
      BY DEF ProposeOptimistic
    <3> QED
      BY <3>1, <3>2, <3>3, <3>4, <3>5, <3>6, Zenon DEF Next
  <2>4. b \in Nat
    BY OracleAssumption
  <2>5. /\ l2Outputs'[Len(l2Outputs')].root = r
        /\ l2Outputs'[Len(l2Outputs')].block = b
    BY <2>3, <2>4, AcceptedIsOrdered DEF DgfProposeL2Output
  <2>6. games' = Append(games, [root |-> r, block |-> b, createdAt |-> now,
                                status |-> "DEFENDER_WINS"])
    BY <2>3 DEF DgfProposeL2Output, NewGame
  <2> QED
    BY <2>0, <2>5, <2>6 DEF OracleTyped
<1> QED
  BY <1>1, OracleInvariant, PTL DEF Spec, OutputsComeWithGames
-----------------------------------------------------------------------------
(* The loop of getL2OutputIndexAfter over n outputs of list: f gives the   *)
(* result from every pair of bounds.                                       *)
Bounds(n) == (-1..n) \X (-1..n)

Turn(list, lo, hi, b) ==
    LET mid == (lo + hi) \div 2 IN
    IF list[mid + 1].block < b THEN <<mid + 1, hi>> ELSE <<lo, mid>>

Searches(f, list, n, b) ==
    \A r \in Bounds(n) :
        f[r] = IF r[1] >= r[2] THEN r[1] ELSE f[Turn(list, r[1], r[2], b)]

LEMMA MidBetween ==
    ASSUME NEW lo \in Int, NEW hi \in Int, lo < hi
    PROVE  /\ (lo + hi) \div 2 \in Int
           /\ lo <= (lo + hi) \div 2 /\ (lo + hi) \div 2 < hi
OBVIOUS

(* The loop terminates: every turn shrinks the interval.                   *)
LEMMA SearchDefined ==
    ASSUME NEW list, NEW n \in Nat, NEW b
    PROVE  \E f : f = [r \in Bounds(n) |-> f[r]] /\ Searches(f, list, n, b)
<1> DEFINE Stop == {r \in Bounds(n) : r[1] >= r[2]}
           val == [r \in Bounds(n) |-> r[1]]
           go == [r \in Bounds(n) |-> Turn(list, r[1], r[2], b)]
           size == [r \in Bounds(n) |-> IF r[1] >= r[2] THEN 0 ELSE r[2] - r[1]]
<1>1. ASSUME NEW r \in Bounds(n) PROVE r[1] \in -1..n /\ r[2] \in -1..n
  BY DEF Bounds
<1>2. \A r \in Bounds(n) : size[r] \in Nat /\ size[r] < n + 2
  BY <1>1
<1>3. ASSUME NEW r \in Bounds(n) \ Stop
      PROVE  go[r] \in Bounds(n) /\ size[go[r]] < size[r]
  <2>1. r[1] \in -1..n /\ r[2] \in -1..n /\ r[1] < r[2]
    BY <1>1
  <2> DEFINE mid == (r[1] + r[2]) \div 2
  <2>2. mid \in Int /\ r[1] <= mid /\ mid < r[2]
    BY <2>1, MidBetween
  <2>3. go[r] = <<mid + 1, r[2]>> \/ go[r] = <<r[1], mid>>
    BY DEF Turn
  <2> HIDE DEF mid
  <2>4. <<mid + 1, r[2]>> \in Bounds(n) /\ <<r[1], mid>> \in Bounds(n)
    BY <2>1, <2>2 DEF Bounds
  <2>5. size[r] = r[2] - r[1]
    BY <2>1
  <2>6. size[<<mid + 1, r[2]>>] < r[2] - r[1] /\ size[<<r[1], mid>>] < r[2] - r[1]
    BY <2>1, <2>2, <2>4
  <2> HIDE DEF go, size
  <2> QED
    BY <2>3, <2>4, <2>5, <2>6
<1>4. PICK f : Descends(f, Bounds(n), Stop, val, go)
  <2>1. n + 2 \in Nat
    OBVIOUS
  <2> HIDE DEF Stop, val, go, size
  <2> QED
    BY <1>2, <1>3, <2>1, DescentExists
<1>5. \A r \in Bounds(n) : (IF r \in Stop THEN val[r] ELSE f[go[r]]) =
                           IF r[1] >= r[2] THEN r[1] ELSE f[Turn(list, r[1], r[2], b)]
  OBVIOUS
<1> HIDE DEF Stop, val, go, size
<1>6. f = [r \in Bounds(n) |-> f[r]]
  BY <1>4, Zenon DEF Descends
<1>7. Searches(f, list, n, b)
  BY <1>4, <1>5 DEF Descends, Searches
<1> QED
  BY <1>6, <1>7, Zenon

(* k is the number of outputs below block b.                               *)
Splits(list, n, b, k) ==
    /\ k \in 0..n
    /\ \A j \in 0..(k - 1) : list[j + 1].block < b
    /\ \A j \in k..(n - 1) : list[j + 1].block >= b

(* The search is right on any list whose blocks do not decrease.           *)
LEMMA SearchIsRight ==
    ASSUME NEW list, NEW n \in Nat, NEW b \in Nat,
           \A i \in 1..n : /\ list[i].block \in Nat
                           /\ \A j \in 1..i : list[j].block <= list[i].block,
           NEW f, Searches(f, list, n, b)
    PROVE  Splits(list, n, b, f[<<0, n>>])
<1> DEFINE Start(lo, hi) == /\ lo <= hi
                            /\ \A j \in 0..(lo - 1) : list[j + 1].block < b
                            /\ \A j \in hi..(n - 1) : list[j + 1].block >= b
           S == {k \in 0..n : \A lo, hi \in 0..n :
                     Start(lo, hi) /\ hi - lo <= k => Splits(list, n, b, f[<<lo, hi>>])}
<1>1. \A lo, hi \in 0..n : <<lo, hi>> \in Bounds(n)
  BY DEF Bounds
<1>2. ASSUME NEW lo \in 0..n, NEW hi \in 0..n, lo >= hi, Start(lo, hi)
      PROVE  Splits(list, n, b, f[<<lo, hi>>])
  <2>1. f[<<lo, hi>>] = lo /\ lo = hi
    BY <1>1, <1>2 DEF Searches
  <2> QED
    BY <1>2, <2>1 DEF Splits
<1>3. 0 \in S
  BY <1>2
<1>4. ASSUME NEW k \in 0..(n - 1), k \in S PROVE k + 1 \in S
  <2> SUFFICES ASSUME NEW lo \in 0..n, NEW hi \in 0..n, Start(lo, hi), hi - lo <= k + 1, lo < hi
               PROVE  Splits(list, n, b, f[<<lo, hi>>])
    BY <1>2
  <2> DEFINE mid == (lo + hi) \div 2
  <2>1. mid \in Int /\ lo <= mid /\ mid < hi
    BY MidBetween
  <2>2. f[<<lo, hi>>] = f[Turn(list, lo, hi, b)]
    BY <1>1 DEF Searches
  <2>3. Turn(list, lo, hi, b) = IF list[mid + 1].block < b THEN <<mid + 1, hi>> ELSE <<lo, mid>>
    BY DEF Turn
  <2> HIDE DEF mid
  <2>4. mid \in 0..n /\ mid + 1 \in 0..n /\ mid + 1 \in 1..n
    BY <2>1
  <2>5. list[mid + 1].block \in Nat
    BY <2>4
  <2>6. CASE list[mid + 1].block < b
    <3>1. \A j \in 0..mid : list[j + 1].block < b
      <4> TAKE j \in 0..mid
      <4>1. j + 1 \in 1..(mid + 1) /\ j + 1 \in 1..n
        BY <2>4
      <4>2. list[j + 1].block \in Nat /\ list[j + 1].block <= list[mid + 1].block
        BY <2>4, <4>1
      <4> QED
        BY <2>5, <2>6, <4>2
    <3>2. Start(mid + 1, hi) /\ hi - (mid + 1) <= k
      BY <2>1, <3>1
    <3> QED
      BY <1>4, <2>2, <2>3, <2>4, <2>6, <3>2
  <2>7. CASE ~(list[mid + 1].block < b)
    <3>1. \A j \in mid..(n - 1) : list[j + 1].block >= b
      <4> TAKE j \in mid..(n - 1)
      <4>1. mid + 1 \in 1..(j + 1) /\ j + 1 \in 1..n
        BY <2>4
      <4>2. list[j + 1].block \in Nat /\ list[mid + 1].block <= list[j + 1].block
        BY <2>4, <4>1
      <4> QED
        BY <2>5, <2>7, <4>2
    <3>2. Start(lo, mid) /\ mid - lo <= k
      BY <2>1, <3>1
    <3> QED
      BY <1>4, <2>2, <2>3, <2>4, <2>7, <3>2
  <2> QED
    BY <2>6, <2>7
<1>5. \A k \in 0..n : k \in S
  <2> HIDE DEF S
  <2> QED
    BY <1>3, <1>4, IntervalInduction
<1>6. n \in S
  <2> HIDE DEF S
  <2> QED
    BY <1>5
<1>7. Start(0, n) /\ 0 \in 0..n /\ n \in 0..n /\ n - 0 <= n
  OBVIOUS
<1> QED
  BY <1>6, <1>7

LEMMA SearchSplits ==
    ASSUME OracleInv, NEW b \in Nat
    PROVE  Splits(l2Outputs, Len(l2Outputs), b, GetL2OutputIndexAfter(b))
<1> DEFINE n == Len(l2Outputs)
           B(r, f) == IF r[1] >= r[2] THEN r[1] ELSE f[SearchStep(r[1], r[2], b)]
           loop == CHOOSE f : f = [r \in (-1..n) \X (-1..n) |-> B(r, f)]
<1>1. GetL2OutputIndexAfter(b) = loop[<<0, n>>]
  BY Zenon DEF GetL2OutputIndexAfter
<1>2. n \in Nat /\ OracleTyped
  BY DEF OracleInv, OracleTyped
<1>3. \A i \in 1..n : /\ l2Outputs[i].block \in Nat
                      /\ \A j \in 1..i : l2Outputs[j].block <= l2Outputs[i].block
  <2> TAKE i \in 1..n
  <2>1. l2Outputs[i].block \in Nat
    BY <1>2, OutputTyped
  <2>2. ASSUME NEW j \in 1..i PROVE l2Outputs[j].block <= l2Outputs[i].block
    <3>1. (j = i \/ j \in 1..(i - 1)) /\ j \in 1..n
      BY <1>2
    <3>2. l2Outputs[j].block \in Nat
      BY <1>2, <3>1, OutputTyped
    <3> QED
      BY <2>1, <3>1, <3>2 DEF OracleInv, OutputsOrdered
  <2> QED
    BY <2>1, <2>2
<1>4. \A lo, hi : SearchStep(lo, hi, b) = Turn(l2Outputs, lo, hi, b)
  BY Zenon DEF SearchStep, Turn
<1>5. Searches(loop, l2Outputs, n, b)
  <2>1. PICK f : f = [r \in Bounds(n) |-> f[r]] /\ Searches(f, l2Outputs, n, b)
    BY <1>2, SearchDefined, Zenon
  <2>2. \A r \in (-1..n) \X (-1..n) : f[r] = B(r, f)
    <3> TAKE r \in (-1..n) \X (-1..n)
    <3>1. SearchStep(r[1], r[2], b) = Turn(l2Outputs, r[1], r[2], b)
      BY <1>4
    <3>2. f[r] = IF r[1] >= r[2] THEN r[1] ELSE f[Turn(l2Outputs, r[1], r[2], b)]
      BY <2>1, Zenon DEF Searches, Bounds
    <3> QED
      BY <3>1, <3>2
  <2>3. loop = [r \in (-1..n) \X (-1..n) |-> B(r, loop)]
    <3> HIDE DEF B, n
    <3>1. f = [r \in (-1..n) \X (-1..n) |-> B(r, f)]
      BY <2>1, <2>2 DEF Bounds
    <3> QED
      BY <3>1, Zenon
  <2>4. \A r \in (-1..n) \X (-1..n) : loop[r] = B(r, loop)
    <3> HIDE DEF B, n, loop
    <3> QED
      BY <2>3
  <2> HIDE DEF loop
  <2> QED
    BY <1>4, <2>4, Zenon DEF Searches, Bounds
<1> HIDE DEF loop
<1>6. Splits(l2Outputs, n, b, loop[<<0, n>>])
  BY <1>2, <1>3, <1>5, SearchIsRight, Zenon
<1> QED
  BY <1>1, <1>6, Zenon

(* getL2OutputIndexAfter, a binary search, returns the first output at or  *)
(* after the block it is asked for, in every state the contract reaches.   *)
THEOREM SearchIsExact == Spec => []SearchFindsFirst
<1>1. OracleInv => SearchFindsFirst
  <2> SUFFICES ASSUME OracleInv, NEW b \in 0..LatestBlockNumber
               PROVE  LET k == GetL2OutputIndexAfter(b) IN
                      /\ k \in 0..Len(l2Outputs) - 1
                      /\ l2Outputs[k + 1].block >= b
                      /\ \A j \in 0..k - 1 : l2Outputs[j + 1].block < b
    BY Zenon DEF SearchFindsFirst
  <2> DEFINE n == Len(l2Outputs)
             k == GetL2OutputIndexAfter(b)
  <2>0. n \in Nat \ {0} /\ OracleTyped
    BY DEF OracleInv, OracleTyped
  <2>1. LatestBlockNumber \in Nat /\ LatestBlockNumber = l2Outputs[n].block
    BY <2>0, OutputTyped DEF LatestBlockNumber, LatestOutput
  <2>2. b \in Nat /\ b <= LatestBlockNumber
    BY <2>1
  <2>3. Splits(l2Outputs, n, b, k)
    BY <2>2, SearchSplits
  <2> HIDE DEF k
  <2>4. k # n
    <3> SUFFICES ASSUME k = n PROVE FALSE
      OBVIOUS
    <3>1. n - 1 \in 0..(k - 1) /\ (n - 1) + 1 = n
      BY <2>0
    <3>2. l2Outputs[n].block < b
      BY <2>3, <3>1 DEF Splits
    <3> QED
      BY <2>1, <2>2, <3>2
  <2>5. k \in 0..(n - 1) /\ k \in k..(n - 1)
    BY <2>0, <2>3, <2>4 DEF Splits
  <2>6. /\ k \in 0..(n - 1)
        /\ l2Outputs[k + 1].block >= b
        /\ \A j \in 0..(k - 1) : l2Outputs[j + 1].block < b
    BY <2>3, <2>5 DEF Splits
  <2> QED
    BY <2>6, Zenon DEF k
<1> QED
  BY <1>1, OracleInvariant, PTL
=============================================================================
