------------------------ MODULE FaultChallengerProofs ------------------------
(***************************************************************************)
(* Proofs about the challenger agent of FaultChallenger, for every         *)
(* interleaving of its cycles with everybody else's transactions, every    *)
(* pattern of failed reads, restarts and late transactions, and any number *)
(* of games.                                                               *)
(***************************************************************************)
EXTENDS MCPacedChallenger, FaultDisputeGameProofs

GamesOwned ==
    \A i \in Indices : /\ CreditOK(games[i])
                       /\ games[i].gameType = "succinct" => games[i].creator # Self

Entry == [validation : Validations, flag : {"none", "challenge", "resolve", "close", "claim"},
          openUntil : Nat]

(* The confirmed block is a past of the head, and all the agent remembers  *)
(* is about games of that block.                                           *)
MemoryOK ==
    /\ pinned.games \in Seq(Game) /\ Len(pinned.games) <= Len(games)
    /\ \A i \in PinnedIndices : Later(pinned.games[i], games[i])
    /\ cursor \in 0..Len(pinned.games)
    /\ pendingDiscoveries \subseteq PinnedIndices
    /\ DOMAIN tracked \subseteq PinnedIndices
    /\ tracked \in [DOMAIN tracked -> Entry]
    /\ todo \subseteq DOMAIN tracked \union {MaliceTurn}
    /\ MaliceTurn \in todo => Malicious
    /\ awaiting # NoTx => awaiting.index \in PinnedIndices
    /\ \A tx \in mempool : tx.index \in PinnedIndices

(* What makes a challenge right: the claim is wrong or the parent lost.    *)
Justified(i) ==
    games[i].claim = "forged" \/ ParentGameStatus(games[i]) = "CHALLENGER_WINS"

(* A transaction the agent sent or is about to send.                       *)
TxOK(tx) ==
    /\ tx.kind = "challenge" => Justified(tx.index)
    /\ tx.kind = "malice" => Malicious

(* Every flag, transaction and dispute of the agent is justified.          *)
HonestOK ==
    /\ \A i \in DOMAIN tracked :
          /\ tracked[i].validation = "Invalid" => games[i].claim = "forged"
          /\ tracked[i].flag = "challenge" => Justified(i)
    /\ awaiting # NoTx => TxOK(awaiting)
    /\ \A tx \in mempool : TxOK(tx)
    /\ \A i \in Indices : games[i].counteredBy = Self => Malicious \/ Justified(i)

(* The agent has nothing left to do for a game, now or later.              *)
Settled(g) ==
    \/ g.status = "DEFENDER_WINS"
    \/ /\ g.status = "CHALLENGER_WINS"
       /\ \/ g.counteredBy # Self
          \/ g.mode # "UNDECIDED" /\ Credit(g, g.mode, Self) = 0

(* Games the agent has seen and forgotten are settled.                     *)
ForgottenOK ==
    \A i \in 1..cursor :
        Eligible(games[i]) /\ i \notin DOMAIN tracked \union pendingDiscoveries =>
            Settled(games[i])

ChallengerInv == ChainInv /\ GamesOwned /\ MemoryOK /\ HonestOK /\ ForgottenOK
-----------------------------------------------------------------------------
(* What a step does to the list of games, where the agent may come to      *)
(* counter the games in K and no others, and creates none.                 *)
GameStep(K) ==
    \/ games' = games
    \/ \E h \in Game : /\ games' = Append(games, h)
                       /\ CreditOK(h) /\ h.counteredBy # Self
                       /\ h.gameType = "succinct" => h.creator # Self
    \/ \E i \in Indices, h \in Game :
          /\ games' = [games EXCEPT ![i] = h]
          /\ Later(games[i], h) /\ CreditOK(h)
          /\ h.counteredBy = Self => games[i].counteredBy = Self \/ i \in K

(* The calls on an existing game, whoever makes them.                      *)
LEMMA CallKinds ==
    ASSUME ChainInv, GamesOwned, NEW i \in Indices
    PROVE  /\ Resolve(i) \/ CloseGame(i) => GameStep({})
           /\ \A a \in Addresses : ClaimCredit(i, a) => GameStep({})
           /\ \A a \in Actors : Prove(i, a) => GameStep({})
           /\ \A a \in Actors : Challenge(i, a) => GameStep(IF a = Self THEN {i} ELSE {})
           /\ \A v \in GameStatuses \ {"IN_PROGRESS"} : ResolveOther(i, v) => GameStep({})
<1> DEFINE g == games[i]
<1>0. now \in Nat /\ g \in Game /\ GameInv(g) /\ CreditOK(g)
  BY GamesTyped DEF GamesOwned
<1>1. ASSUME Resolve(i) PROVE GameStep({})
  <2> DEFINE h == Resolved(g)
  <2>1. g.gameType = "succinct" /\ g.status = "IN_PROGRESS" /\ games' = [games EXCEPT ![i] = h]
    BY <1>1 DEF Resolve
  <2>2. h \in Game
    BY <1>0, <2>1, ResolvedKeeps
  <2>3. Later(g, h) /\ CreditOK(h) /\ h.counteredBy = g.counteredBy
    BY <1>0, <2>1, ResolvedLater
  <2> HIDE DEF h
  <2> QED
    BY <2>1, <2>2, <2>3 DEF GameStep
<1>2. ASSUME CloseGame(i) PROVE GameStep({})
  <2> DEFINE m == ModeAfterClose(i)
             h == [g EXCEPT !.mode = m]
  <2>1. g.mode = "UNDECIDED" /\ games' = [games EXCEPT ![i] = h]
    BY <1>2 DEF CloseGame
  <2>2. h \in Game
    BY <1>0 DEF ModeAfterClose, Game, BondDistributionModes
  <2> HIDE DEF m
  <2>3. Later(g, h) /\ CreditOK(h) /\ h.counteredBy = g.counteredBy
    BY <1>0, <2>1, ClosedLater
  <2> HIDE DEF h
  <2> QED
    BY <2>1, <2>2, <2>3 DEF GameStep
<1>3. ASSUME NEW a \in Addresses, ClaimCredit(i, a) PROVE GameStep({})
  <2> DEFINE m == ModeAfterClose(i)
             h == Paid(g, m, a)
  <2>1. /\ g.gameType = "succinct" /\ g.status # "IN_PROGRESS"
        /\ m \in {"NORMAL", "REFUND"} /\ g.mode \in {"UNDECIDED", m}
    BY <1>0, <1>3 DEF ClaimCredit, CanClose, IsGameFinalized, GameInv, BondsOK,
       ModeAfterClose, Game, BondDistributionModes
  <2>2. h \in Game
    BY <1>0, <2>1, PaidKeeps
  <2>3. games' = [games EXCEPT ![i] = h]
    BY <1>3 DEF ClaimCredit
  <2> HIDE DEF m
  <2>4. Later(g, h) /\ CreditOK(h) /\ h.counteredBy = g.counteredBy
    BY <1>0, <2>1, PaidLater
  <2> HIDE DEF h
  <2> QED
    BY <2>2, <2>3, <2>4 DEF GameStep
<1>4. ASSUME NEW a \in Actors, Prove(i, a) PROVE GameStep({})
  <2> DEFINE h == Proved(g, a)
  <2>1. g.gameType = "succinct" /\ g.prover = NoAddress /\ games' = [games EXCEPT ![i] = h]
    BY <1>4 DEF Prove, GameOver
  <2>2. h \in Game
    BY <1>0, <1>4, <2>1, ProvedKeeps DEF Prove, GameOver
  <2>3. Later(g, h) /\ CreditOK(h) /\ h.counteredBy = g.counteredBy
    BY <1>0, ProvedLater
  <2> HIDE DEF h
  <2> QED
    BY <2>1, <2>2, <2>3 DEF GameStep
<1>5. ASSUME NEW a \in Actors, Challenge(i, a) PROVE GameStep(IF a = Self THEN {i} ELSE {})
  <2> DEFINE h == Challenged(g, a)
  <2>1. /\ g.gameType = "succinct" /\ g.proposal = "Unchallenged"
        /\ games' = [games EXCEPT ![i] = h]
    BY <1>5 DEF Challenge
  <2>2. h \in Game
    BY <1>0, <1>5, <2>1, ChallengedKeeps DEF Challenge
  <2>3. Later(g, h) /\ CreditOK(h) /\ h.counteredBy = a
    BY <1>0, <2>1, ChallengedLater
  <2> HIDE DEF h
  <2> QED
    BY <2>1, <2>2, <2>3 DEF GameStep
<1>6. ASSUME NEW v \in GameStatuses \ {"IN_PROGRESS"}, ResolveOther(i, v) PROVE GameStep({})
  <2> DEFINE h == [g EXCEPT !.status = v, !.resolvedAt = now]
  <2>1. /\ g.gameType = "other" /\ g.status = "IN_PROGRESS"
        /\ games' = [games EXCEPT ![i] = h]
    BY <1>6 DEF ResolveOther
  <2>2. h \in Game
    BY <1>0, <2>1, OtherResolvedKeeps
  <2>3. Later(g, h) /\ CreditOK(h) /\ h.counteredBy = g.counteredBy
    BY <1>0, <2>1, OtherResolvedLater
  <2> HIDE DEF h
  <2> QED
    BY <2>1, <2>2, <2>3 DEF GameStep
<1> QED
  BY <1>1, <1>2, <1>3, <1>4, <1>5, <1>6

(* Everybody else never counters a game for the agent.                     *)
LEMMA WorldKinds ==
    ASSUME ChainInv, GamesOwned, World
    PROVE  GameStep({}) /\ Next
<1>0. TypeOK /\ now \in Nat /\ Others \subseteq Actors /\ Self # NoAddress /\ Self \in Actors
  BY GamesTyped, ChallengerAssumption, FactoryAssumption DEF ChainInv, BondInv, Others
<1>1. CASE RegistryStep
  BY <1>1 DEF RegistryStep, GameStep, Next
<1>2. ASSUME NEW a \in Others, NEW p \in {NoParent} \union Indices, NEW b \in 1..MaxBlock,
             NEW r \in Roots, Create(a, p, b, r)
      PROVE  GameStep({}) /\ Next
  <2> DEFINE h == NewGame("succinct", a, p, b, r)
  <2>1. h \in Game
    BY <1>0, <1>2, NewGameOK DEF Create, CreationBound, GameTypes
  <2>2. h.status = "IN_PROGRESS" /\ h.counteredBy = NoAddress /\ h.creator = a
    BY DEF NewGame
  <2>3. games' = Append(games, h)
    BY <1>2 DEF Create
  <2> HIDE DEF h
  <2>4. CreditOK(h)
    BY <2>2 DEF CreditOK
  <2>5. GameStep({})
    BY <1>0, <2>1, <2>2, <2>3, <2>4 DEF GameStep, Others
  <2> QED
    BY <1>0, <1>2, <2>5 DEF Next
<1>3. ASSUME NEW b \in 1..MaxBlock, NEW r \in Roots, CreateOther(b, r)
      PROVE  GameStep({}) /\ Next
  <2> DEFINE a == CHOOSE x \in Actors : TRUE
             h == NewGame("other", a, NoParent, b, r)
  <2>0. a \in Actors
    BY FactoryAssumption
  <2>1. h \in Game
    BY <1>0, <1>3, <2>0, NewGameOK DEF CreateOther, CreationBound, GameTypes
  <2>2. h.status = "IN_PROGRESS" /\ h.counteredBy = NoAddress /\ h.gameType = "other"
    BY DEF NewGame
  <2>3. games' = Append(games, h)
    BY <1>3 DEF CreateOther
  <2> HIDE DEF h
  <2>4. CreditOK(h)
    BY <2>2 DEF CreditOK
  <2>5. GameStep({})
    BY <1>0, <2>1, <2>2, <2>3, <2>4 DEF GameStep
  <2> QED
    BY <1>3, <2>5 DEF Next
<1>4. ASSUME NEW i \in Indices, NEW v \in GameStatuses \ {"IN_PROGRESS"}, ResolveOther(i, v)
      PROVE  GameStep({}) /\ Next
  BY <1>4, CallKinds DEF Next
<1>5. ASSUME NEW i \in Indices, NEW a \in Others, Challenge(i, a) \/ Prove(i, a)
      PROVE  GameStep({}) /\ Next
  <2>1. a \in Actors /\ a # Self
    BY DEF Others
  <2>2. Next
    BY <1>5, <2>1 DEF Next
  <2>3. GameStep(IF a = Self THEN {i} ELSE {}) \/ GameStep({})
    BY <1>5, <2>1, CallKinds
  <2> QED
    BY <2>1, <2>2, <2>3
<1>6. ASSUME NEW i \in Indices, Resolve(i) \/ CloseGame(i) PROVE GameStep({}) /\ Next
  BY <1>6, CallKinds DEF Next
<1>7. ASSUME NEW i \in Indices, NEW a \in Addresses, ClaimCredit(i, a) PROVE GameStep({}) /\ Next
  BY <1>7, CallKinds DEF Next
<1> QED
  BY <1>1, <1>2, <1>3, <1>4, <1>5, <1>6, <1>7 DEF World

(* The agent's own transactions: only a challenge counters a game.         *)
LEMMA ExecuteKinds ==
    ASSUME ChainInv, GamesOwned, NEW tx, tx.index \in Indices, Execute(tx)
    PROVE  /\ GameStep(IF tx.kind \in {"challenge", "malice"} THEN {tx.index} ELSE {})
           /\ [Next]_vars
<1> DEFINE i == tx.index
<1>0. Self \in Actors /\ Self \in Addresses
  BY ChallengerAssumption DEF Addresses
<1>1. CASE tx.kind \in {"challenge", "malice"} /\ Challenge(i, Self)
  BY <1>0, <1>1, CallKinds DEF Next
<1>2. CASE tx.kind \in {"resolve", "close"} /\ (Resolve(i) \/ CloseGame(i))
  BY <1>2, CallKinds DEF Next
<1>3. CASE tx.kind = "claim" /\ ClaimCredit(i, Self)
  BY <1>0, <1>3, CallKinds DEF Next
<1>4. CASE UNCHANGED vars
  BY <1>4 DEF GameStep, vars
<1> QED
  BY <1>1, <1>2, <1>3, <1>4 DEF Execute
-----------------------------------------------------------------------------
(* What the agent can rely on when the head of the chain moves.            *)
HeadMoves ==
    /\ ChainInv' /\ GamesOwned'
    /\ Len(games) <= Len(games')
    /\ \A j \in Indices : /\ j \in Indices' /\ Later(games[j], games'[j])
                          /\ Justified(j) => Justified(j)'
                          /\ games'[j].counteredBy = Self =>
                                games[j].counteredBy = Self \/ Malicious \/ Justified(j)
    /\ \A i \in Indices' : games'[i].counteredBy = Self => Malicious \/ Justified(i)'

LEMMA GamesGoOn ==
    ASSUME ChainInv, GamesOwned, NEW K, GameStep(K)
    PROVE  /\ Len(games) <= Len(games')
           /\ \A j \in Indices : /\ j \in Indices' /\ Later(games[j], games'[j])
                                 /\ games'[j].counteredBy = Self =>
                                       games[j].counteredBy = Self \/ j \in K
           /\ \A j \in Indices' : j \in Indices \/ games'[j].counteredBy # Self
           /\ GamesOwned'
<1>0. /\ games \in Seq(Game) /\ Len(games) \in Nat
      /\ \A i \in Indices : /\ games[i] \in Game /\ CreditOK(games[i])
                            /\ games[i].gameType = "succinct" => games[i].creator # Self
  BY GamesTyped DEF GamesOwned
<1>1. CASE games' = games
  BY <1>0, <1>1, LaterReflexive DEF Indices, GamesOwned, CreditOK
<1>2. ASSUME NEW h \in Game, games' = Append(games, h), CreditOK(h), h.counteredBy # Self,
             h.gameType = "succinct" => h.creator # Self
      PROVE  /\ Len(games') = Len(games) + 1
             /\ \A j \in Indices : games'[j] = games[j]
             /\ games'[Len(games) + 1] = h
             /\ \A j \in Indices' : j \in Indices \/ j = Len(games) + 1
  BY <1>0, <1>2 DEF Indices
<1>3. ASSUME NEW h \in Game, games' = Append(games, h), CreditOK(h), h.counteredBy # Self,
             h.gameType = "succinct" => h.creator # Self
      PROVE  /\ Len(games) <= Len(games')
             /\ \A j \in Indices : /\ j \in Indices' /\ Later(games[j], games'[j])
                                   /\ games'[j].counteredBy = games[j].counteredBy
             /\ \A j \in Indices' : j \in Indices \/ games'[j].counteredBy # Self
             /\ GamesOwned'
  <2>1. /\ Len(games') = Len(games) + 1
        /\ \A j \in Indices : games'[j] = games[j]
        /\ games'[Len(games) + 1] = h
        /\ \A j \in Indices' : j \in Indices \/ j = Len(games) + 1
    BY <1>2, <1>3
  <2>2. \A j \in Indices : j \in Indices' /\ Later(games[j], games'[j])
    BY <1>0, <2>1, LaterReflexive DEF Indices
  <2>3. GamesOwned'
    BY <1>0, <1>3, <2>1 DEF GamesOwned, CreditOK
  <2>4. Len(games) <= Len(games')
    BY <1>0, <2>1
  <2>5. \A j \in Indices' : j \in Indices \/ games'[j].counteredBy # Self
    BY <1>3, <2>1
  <2> QED
    BY <2>1, <2>2, <2>3, <2>4, <2>5
<1>4. ASSUME NEW i \in Indices, NEW h \in Game, games' = [games EXCEPT ![i] = h],
             Later(games[i], h), CreditOK(h),
             h.counteredBy = Self => games[i].counteredBy = Self \/ i \in K
      PROVE  /\ Len(games) <= Len(games')
             /\ \A j \in Indices : /\ j \in Indices' /\ Later(games[j], games'[j])
                                   /\ games'[j].counteredBy = Self =>
                                         games[j].counteredBy = Self \/ j \in K
             /\ \A j \in Indices' : j \in Indices \/ games'[j].counteredBy # Self
             /\ GamesOwned'
  <2>1. /\ Len(games') = Len(games) /\ Indices' = Indices
        /\ \A j \in Indices : games'[j] = IF j = i THEN h ELSE games[j]
    BY <1>0, <1>4, ExceptSeq DEF Indices
  <2>2. \A j \in Indices : Later(games[j], games'[j])
    BY <1>4, <2>1, LaterReflexive
  <2>3. \A j \in Indices : games'[j].gameType = games[j].gameType
                           /\ games'[j].creator = games[j].creator
    BY <2>2 DEF Later, Fixed
  <2>4. GamesOwned'
    BY <1>0, <1>4, <2>1, <2>3 DEF GamesOwned, CreditOK
  <2> QED
    BY <1>0, <1>4, <2>1, <2>2, <2>4
<1> QED
  BY <1>1, <1>3, <1>4 DEF GameStep

LEMMA HeadMovesOn ==
    ASSUME ChallengerInv, [Next]_vars, NEW K, GameStep(K), \A i \in K : Malicious \/ Justified(i)
    PROVE  HeadMoves
<1>0. ChainInv /\ GamesOwned /\ HonestOK
  BY DEF ChallengerInv
<1>1. ChainInv'
  BY <1>0, ChainInvStep
<1>2. /\ Len(games) <= Len(games')
      /\ \A j \in Indices : /\ j \in Indices' /\ Later(games[j], games'[j])
                            /\ games'[j].counteredBy = Self =>
                                  games[j].counteredBy = Self \/ j \in K
      /\ \A j \in Indices' : j \in Indices \/ games'[j].counteredBy # Self
      /\ GamesOwned'
  BY <1>0, GamesGoOn
<1>3. ASSUME NEW j \in Indices, Justified(j) PROVE Justified(j)'
  <2>1. /\ games[j].parent \in 0..(j - 1) /\ Len(games) \in Nat
        /\ games'[j].claim = games[j].claim /\ games'[j].parent = games[j].parent
    BY <1>0, <1>2, GamesTyped DEF ChainInv, ParentOK, Later, Fixed
  <2>2. games[j].parent # NoParent => games[j].parent \in Indices
    BY <2>1 DEF Indices, NoParent
  <2>3. ParentGameStatus(games[j]) = "CHALLENGER_WINS" =>
            ParentGameStatus(games[j])' = "CHALLENGER_WINS"
    BY <1>2, <2>1, <2>2 DEF ParentGameStatus, Later
  <2> QED
    BY <1>3, <2>1, <2>3 DEF Justified
<1>4. ASSUME NEW i \in Indices', games'[i].counteredBy = Self PROVE Malicious \/ Justified(i)'
  BY <1>0, <1>2, <1>3, <1>4 DEF HonestOK
<1> QED
  BY <1>1, <1>2, <1>3, <1>4 DEF HeadMoves

LEMMA SettledStays ==
    ASSUME NEW g, NEW h, Later(g, h), Settled(g)
    PROVE  Settled(h)
BY ChallengerAssumption DEF Later, Settled, Credit, Addresses

(* A step that changes nothing of the agent's memory but flags it clears,  *)
(* the transaction it waits for and those it no longer waits for.          *)
LightStep ==
    /\ UNCHANGED <<config, pinned, cursor, pendingDiscoveries>>
    /\ DOMAIN tracked' = DOMAIN tracked /\ tracked' \in [DOMAIN tracked -> Entry]
    /\ \A i \in DOMAIN tracked : /\ tracked'[i].validation = tracked[i].validation
                                 /\ tracked'[i].flag \in {tracked[i].flag, "none"}
    /\ todo' \subseteq todo
    /\ awaiting' # NoTx => \/ awaiting' = awaiting
                           \/ awaiting'.index \in PinnedIndices /\ TxOK(awaiting')
    /\ \A tx \in mempool' : tx \in mempool \/ (tx = awaiting /\ awaiting # NoTx)

LEMMA LightStepKeeps ==
    ASSUME ChallengerInv, HeadMoves, LightStep
    PROVE  ChallengerInv'
<1>0. /\ MemoryOK /\ HonestOK /\ ForgottenOK
      /\ Len(games) \in Nat /\ Len(games') \in Nat /\ Len(pinned.games) \in Nat
      /\ Len(games) <= Len(games') /\ Len(pinned.games) <= Len(games)
  <2>1. ChainInv /\ ChainInv' /\ MemoryOK /\ HonestOK /\ ForgottenOK
    BY DEF ChallengerInv, HeadMoves
  <2>2. games \in Seq(Game) /\ games' \in Seq(Game)
    BY <2>1 DEF ChainInv, BondInv, TypeOK
  <2> QED
    BY <2>1, <2>2 DEF HeadMoves, MemoryOK
<1>1. /\ pinned' = pinned /\ PinnedIndices' = PinnedIndices
      /\ \A i \in PinnedIndices : i \in Indices
      /\ Malicious' = Malicious
  BY <1>0 DEF LightStep, PinnedIndices, Indices, Malicious
<1>2. \A j \in Indices : /\ j \in Indices' /\ Later(games[j], games'[j])
                         /\ Justified(j) => Justified(j)'
                         /\ games'[j].claim = games[j].claim
  BY DEF HeadMoves, Later, Fixed
<1>3. MemoryOK'
  <2>1. \A i \in PinnedIndices : Later(pinned.games[i], games'[i])
    BY <1>0, <1>1, <1>2, LaterTransitive DEF MemoryOK
  <2>2. Len(pinned.games) <= Len(games')
    BY <1>0
  <2>3. \A tx \in mempool' : tx.index \in PinnedIndices
    BY <1>0 DEF MemoryOK, LightStep
  <2>4. awaiting' # NoTx => awaiting'.index \in PinnedIndices
    BY <1>0 DEF MemoryOK, LightStep
  <2> QED
    BY <1>0, <1>1, <2>1, <2>2, <2>3, <2>4 DEF MemoryOK, LightStep
<1>4. \A tx : tx.index \in PinnedIndices /\ TxOK(tx) => TxOK(tx)'
  BY <1>1, <1>2 DEF TxOK
<1>5. HonestOK'
  <2>1. \A i \in DOMAIN tracked :
            /\ tracked'[i].validation = "Invalid" => games'[i].claim = "forged"
            /\ tracked'[i].flag = "challenge" => Justified(i)'
    BY <1>0, <1>1, <1>2 DEF HonestOK, MemoryOK, LightStep
  <2>2. awaiting' # NoTx => TxOK(awaiting)'
    <3> SUFFICES ASSUME awaiting' # NoTx PROVE TxOK(awaiting)'
      OBVIOUS
    <3>1. awaiting'.index \in PinnedIndices /\ TxOK(awaiting')
      BY <1>0 DEF HonestOK, MemoryOK, LightStep
    <3> QED
      BY <1>1, <1>2, <3>1 DEF TxOK
  <2>3. \A tx \in mempool' : TxOK(tx)'
    <3> TAKE tx \in mempool'
    <3>1. tx.index \in PinnedIndices /\ TxOK(tx)
      BY <1>0 DEF HonestOK, MemoryOK, LightStep
    <3> QED
      BY <1>4, <3>1
  <2>4. \A i \in Indices' : games'[i].counteredBy = Self => Malicious' \/ Justified(i)'
    BY <1>1 DEF HeadMoves
  <2> QED
    BY <2>1, <2>2, <2>3, <2>4 DEF HonestOK, LightStep
<1>6. ForgottenOK'
  <2> SUFFICES ASSUME NEW i \in 1..cursor, Eligible(games'[i]),
                      i \notin DOMAIN tracked \union pendingDiscoveries
               PROVE  Settled(games'[i])
    BY DEF ForgottenOK, LightStep
  <2>1. i \in PinnedIndices /\ i \in Indices
    BY <1>0, <1>1 DEF MemoryOK, PinnedIndices
  <2>2. Eligible(games[i])
    BY <1>2, <2>1 DEF Eligible, Later, Fixed
  <2>3. Settled(games[i])
    BY <1>0, <2>2 DEF ForgottenOK
  <2> QED
    BY <1>2, <2>1, <2>3, SettledStays
<1> QED
  BY <1>3, <1>5, <1>6 DEF ChallengerInv, HeadMoves
-----------------------------------------------------------------------------
(* The cycle over the confirmed block.                                     *)

(* What the agent knows of a game at the confirmed block holds at the head.*)
LEMMA PinnedHolds ==
    ASSUME ChallengerInv, NEW i \in PinnedIndices
    PROVE  /\ i \in Indices /\ i \in Nat /\ i # 0
           /\ pinned.games[i] \in Game /\ Later(pinned.games[i], games[i])
           /\ games[i].claim = pinned.games[i].claim
           /\ Eligible(games[i]) => Eligible(pinned.games[i])
           /\ PinnedParent(pinned.games[i]) = "CHALLENGER_WINS" => Justified(i)
           /\ Evicted(pinned.games[i]) => Settled(games[i])
<1> DEFINE g == pinned.games[i]
<1>0. /\ ChainInv /\ MemoryOK /\ Len(pinned.games) \in Nat /\ Len(games) \in Nat
  <2>1. ChainInv /\ MemoryOK
    BY DEF ChallengerInv
  <2> QED
    BY <2>1, GamesTyped DEF MemoryOK
<1>1. i \in Indices /\ i \in Nat /\ i # 0 /\ i \in 1..Len(pinned.games)
  BY <1>0 DEF MemoryOK, PinnedIndices, Indices
<1>2. g \in Game /\ Later(g, games[i])
  BY <1>0, <1>1 DEF MemoryOK
<1>3. /\ games[i].claim = g.claim /\ games[i].parent = g.parent
      /\ games[i].gameType = g.gameType /\ games[i].wasRespected = g.wasRespected
  BY <1>2 DEF Later, Fixed
<1>4. ASSUME PinnedParent(g) = "CHALLENGER_WINS" PROVE Justified(i)
  <2>1. g.parent # NoParent /\ pinned.games[g.parent].status = "CHALLENGER_WINS"
    BY <1>4 DEF PinnedParent
  <2>2. games[i].parent \in 0..(i - 1)
    BY <1>0, <1>1 DEF ChainInv, ParentOK
  <2>3. g.parent \in PinnedIndices
    BY <1>0, <1>1, <1>3, <2>1, <2>2 DEF PinnedIndices, NoParent
  <2>4. games[g.parent].status = "CHALLENGER_WINS"
    BY <1>0, <2>1, <2>3 DEF MemoryOK, Later
  <2> QED
    BY <1>3, <2>1, <2>4 DEF Justified, ParentGameStatus
<1>5. ASSUME Evicted(g) PROVE Settled(games[i])
  <2>1. Settled(g)
    BY <1>5 DEF Evicted, Settled
  <2> QED
    BY <1>2, <2>1, SettledStays
<1> QED
  BY <1>1, <1>2, <1>3, <1>4, <1>5 DEF Eligible

(* A synced entry says of the claim, and asks for, only what is justified. *)
LEMMA SyncedOK ==
    ASSUME ChallengerInv, NEW i \in PinnedIndices, NEW e \in Entry, NEW available,
           e.validation = "Invalid" => games[i].claim = "forged"
    PROVE  LET s == SyncedEntry(pinned.games[i], e, available) IN
           /\ s \in Entry
           /\ s.validation = "Invalid" => games[i].claim = "forged"
           /\ s.flag = "challenge" => Justified(i)
<1> DEFINE g == pinned.games[i]
           v == IF (g.status = "IN_PROGRESS" /\ g.proposal = "Unchallenged") /\ now < g.deadline
                THEN ValidationAfter(g, e, available) ELSE e.validation
           flag == IF g.status = "IN_PROGRESS" THEN FlagInProgress(g, v) ELSE FlagLost(g)
           until == IF g.status = "IN_PROGRESS" /\ g.proposal = "Unchallenged"
                    THEN g.deadline ELSE 0
<1>0. /\ g \in Game /\ games[i].claim = g.claim
      /\ PinnedParent(g) = "CHALLENGER_WINS" => Justified(i)
  BY PinnedHolds
<1>1. v \in Validations /\ (v = "Invalid" => games[i].claim = "forged")
  <2>1. e.validation \in Validations
    BY DEF Entry
  <2>2. g.claim \in {"canonical", "forged"}
    BY <1>0 DEF Game, Roots
  <2> QED
    BY <1>0, <2>1, <2>2 DEF ValidationAfter, Validate, Validations
<1> HIDE DEF v
<1>2. /\ FlagInProgress(g, v) \in {"challenge", "resolve", "none"}
      /\ FlagInProgress(g, v) = "challenge" =>
            v = "Invalid" \/ PinnedParent(g) = "CHALLENGER_WINS"
  BY DEF FlagInProgress
<1>3. FlagLost(g) \in {"none", "close", "claim"}
  BY DEF FlagLost
<1>4. /\ flag \in {"none", "challenge", "resolve", "close", "claim"}
      /\ flag = "challenge" => Justified(i)
  BY <1>0, <1>1, <1>2, <1>3 DEF Justified
<1>5. until \in Nat
  BY <1>0 DEF Game
<1>6. SyncedEntry(g, e, available) = [validation |-> v, flag |-> flag, openUntil |-> until]
  BY Zenon DEF SyncedEntry, v
<1> HIDE DEF flag, until, g
<1>7. [validation |-> v, flag |-> flag, openUntil |-> until] \in Entry
  BY <1>1, <1>4, <1>5 DEF Entry
<1> QED
  BY <1>1, <1>4, <1>6, <1>7 DEF g

(* What the agent's cache has to satisfy when the head has not moved.      *)
CacheOK ==
    /\ cursor \in 0..Len(pinned.games)
    /\ pendingDiscoveries \subseteq PinnedIndices
    /\ DOMAIN tracked \subseteq PinnedIndices
    /\ tracked \in [DOMAIN tracked -> Entry]
    /\ todo \subseteq DOMAIN tracked \union {MaliceTurn}
    /\ MaliceTurn \in todo => Malicious
    /\ \A i \in DOMAIN tracked :
          /\ tracked[i].validation = "Invalid" => games[i].claim = "forged"
          /\ tracked[i].flag = "challenge" => Justified(i)
    /\ ForgottenOK

LEMMA CacheStep ==
    ASSUME ChallengerInv, UNCHANGED <<vars, config, pinned>>, CacheOK',
           awaiting' \in {awaiting, NoTx},
           \A tx \in mempool' : tx \in mempool \/ (tx = awaiting /\ awaiting # NoTx)
    PROVE  ChallengerInv'
<1>0. MemoryOK /\ HonestOK
  BY DEF ChallengerInv
<1>1. HeadMoves
  <2>1. GameStep({}) /\ [Next]_vars
    BY DEF GameStep, vars
  <2> QED
    BY <2>1, HeadMovesOn
<1>2. /\ games' = games /\ Indices' = Indices /\ PinnedIndices' = PinnedIndices
      /\ pinned' = pinned /\ Malicious' = Malicious
      /\ \A i : Justified(i)' = Justified(i)
  BY DEF vars, Indices, PinnedIndices, Malicious, Justified, ParentGameStatus
<1>3. MemoryOK'
  BY <1>0, <1>2 DEF MemoryOK, CacheOK
<1>4. HonestOK'
  <2>1. awaiting' # NoTx => TxOK(awaiting)'
    BY <1>0, <1>2 DEF HonestOK, TxOK
  <2>2. \A tx \in mempool' : TxOK(tx)'
    BY <1>0, <1>2 DEF HonestOK, TxOK
  <2>3. \A i \in Indices' : games'[i].counteredBy = Self => Malicious' \/ Justified(i)'
    BY <1>0, <1>2 DEF HonestOK
  <2> QED
    BY <2>1, <2>2, <2>3 DEF HonestOK, CacheOK
<1> QED
  BY <1>1, <1>3, <1>4 DEF ChallengerInv, HeadMoves, CacheOK

LEMMA NewEntryOK == NewEntry \in Entry /\ NewEntry.validation # "Invalid" /\ NewEntry.flag = "none"
BY DEF NewEntry, Entry, Validations

(* A cycle that completes, whichever reads fail.                           *)
LEMMA SyncStateKeeps ==
    ASSUME ChallengerInv, NEW fails, NEW syncFails, NEW available,
           SyncState(fails, syncFails, available)
    PROVE  ChallengerInv'
<1> DEFINE loaded == {i \in Fetched \ fails : Eligible(pinned.games[i])}
           all == loaded \union DOMAIN tracked
           entries == [i \in all |-> IF i \in loaded THEN NewEntry ELSE tracked[i]]
           evicted == {i \in all \ syncFails : Evicted(pinned.games[i])}
           next(i) == IF i \in syncFails THEN FailedEntry(entries[i])
                      ELSE SyncedEntry(pinned.games[i], entries[i], i \in available)
           synced == [i \in all \ evicted |-> next(i)]
<1>0. /\ MemoryOK /\ HonestOK /\ ForgottenOK /\ Len(pinned.games) \in Nat
      /\ cursor \in Nat
  <2>1. MemoryOK /\ HonestOK /\ ForgottenOK
    BY DEF ChallengerInv
  <2> QED
    BY <2>1 DEF MemoryOK
<1>1. /\ pendingDiscoveries' = Fetched \intersect fails
      /\ cursor' = Len(pinned.games)
      /\ tracked' = synced
      /\ todo' = {i \in DOMAIN synced : synced[i].flag # "none"}
                 \union (IF Malicious THEN {MaliceTurn} ELSE {})
      /\ UNCHANGED <<vars, config, pinned, awaiting, mempool>>
  BY DEF SyncState, PendingAfter
<1>2. Fetched \subseteq PinnedIndices /\ all \subseteq PinnedIndices
  BY <1>0 DEF MemoryOK, Fetched, PinnedIndices
<1>3. ASSUME NEW i \in all
      PROVE  /\ entries[i] \in Entry
             /\ entries[i].validation = "Invalid" => games[i].claim = "forged"
             /\ entries[i].flag = "challenge" => Justified(i)
  BY <1>0, NewEntryOK DEF MemoryOK, HonestOK
<1> HIDE DEF entries
<1>4. ASSUME NEW i \in all
      PROVE  /\ next(i) \in Entry
             /\ next(i).validation = "Invalid" => games[i].claim = "forged"
             /\ next(i).flag = "challenge" => Justified(i)
  <2>1. CASE i \in syncFails
    <3>1. PICK e \in Entry : e = entries[i]
      BY <1>3
    <3>2. FailedEntry(e) \in Entry /\ FailedEntry(e).flag = "none"
          /\ FailedEntry(e).validation = e.validation
      BY DEF FailedEntry, Entry
    <3> QED
      BY <1>3, <2>1, <3>1, <3>2
  <2>2. CASE i \notin syncFails
    <3>0. PICK b : b = (i \in available)
      BY Zenon
    <3>1. PICK e \in Entry : e = entries[i]
      BY <1>3
    <3>2. i \in PinnedIndices /\ (e.validation = "Invalid" => games[i].claim = "forged")
      BY <1>2, <1>3, <3>1
    <3>3. LET s == SyncedEntry(pinned.games[i], e, b) IN
          /\ s \in Entry
          /\ s.validation = "Invalid" => games[i].claim = "forged"
          /\ s.flag = "challenge" => Justified(i)
      BY <3>2, SyncedOK
    <3>4. next(i) = SyncedEntry(pinned.games[i], e, b)
      BY <2>2, <3>0, <3>1, Zenon
    <3> QED
      BY <3>3, <3>4
  <2> QED
    BY <2>1, <2>2
<1> HIDE DEF next
<1>5. /\ games' = games /\ pinned' = pinned /\ PinnedIndices' = PinnedIndices
      /\ Malicious' = Malicious /\ \A i : Justified(i)' = Justified(i)
  BY <1>1 DEF vars, PinnedIndices, Malicious, Justified, ParentGameStatus
<1>6. DOMAIN tracked' = all \ evicted
      /\ \A i \in DOMAIN tracked' : tracked'[i] = next(i) /\ i \in all
  BY <1>1
<1>7. ForgottenOK'
  <2> SUFFICES ASSUME NEW i \in 1..Len(pinned.games), Eligible(games[i]),
                      i \notin all \ evicted, i \notin Fetched \intersect fails
               PROVE  Settled(games[i])
    BY <1>1, <1>5, <1>6 DEF ForgottenOK
  <2>0. i \in PinnedIndices /\ Eligible(pinned.games[i])
    BY PinnedHolds DEF PinnedIndices
  <2>1. CASE i \in evicted
    BY <2>0, <2>1, PinnedHolds
  <2>2. CASE i \notin all
    <3>1. i \notin Fetched
      BY <2>0, <2>2
    <3>2. i \in 1..cursor /\ i \notin DOMAIN tracked \union pendingDiscoveries
      BY <1>0, <2>2, <3>1 DEF Fetched
    <3> QED
      BY <1>0, <3>2 DEF ForgottenOK
  <2> QED
    BY <2>1, <2>2
<1>8. todo' \subseteq DOMAIN tracked' \union {MaliceTurn} /\ (MaliceTurn \in todo' => Malicious)
  <2>1. 0 \notin all
    BY <1>2, PinnedHolds
  <2> QED
    BY <1>1, <2>1 DEF MaliceTurn
<1>9. CacheOK'
  <2>1. tracked' \in [DOMAIN tracked' -> Entry]
    BY <1>1, <1>4, <1>6
  <2>2. \A i \in DOMAIN tracked' :
            /\ tracked'[i].validation = "Invalid" => games'[i].claim = "forged"
            /\ tracked'[i].flag = "challenge" => Justified(i)'
    BY <1>4, <1>5, <1>6
  <2>3. cursor' \in 0..Len(pinned'.games)
    BY <1>0, <1>1, <1>5
  <2>4. pendingDiscoveries' \subseteq PinnedIndices' /\ DOMAIN tracked' \subseteq PinnedIndices'
    BY <1>1, <1>2, <1>5, <1>6
  <2> QED
    BY <1>5, <1>7, <1>8, <2>1, <2>2, <2>3, <2>4 DEF CacheOK
<1> QED
  BY <1>1, <1>9, CacheStep

(* A cycle that stops after the retries.                                   *)
LEMMA SyncAbortedKeeps ==
    ASSUME ChallengerInv, NEW fails, SyncAborted(fails)
    PROVE  ChallengerInv'
<1> DEFINE loaded == {i \in pendingDiscoveries \ fails : Eligible(pinned.games[i])}
           all == loaded \union DOMAIN tracked
           entries == [i \in all |-> IF i \in loaded THEN NewEntry ELSE tracked[i]]
<1>0. /\ MemoryOK /\ HonestOK /\ ForgottenOK /\ Len(pinned.games) \in Nat
      /\ cursor \in Nat
  <2>1. MemoryOK /\ HonestOK /\ ForgottenOK
    BY DEF ChallengerInv
  <2> QED
    BY <2>1 DEF MemoryOK
<1>1. /\ pendingDiscoveries' = pendingDiscoveries \intersect fails
      /\ tracked' = entries
      /\ UNCHANGED <<vars, config, pinned, cursor, todo, awaiting, mempool>>
  BY DEF SyncAborted
<1>2. all \subseteq PinnedIndices
  BY <1>0 DEF MemoryOK
<1>3. ASSUME NEW i \in all
      PROVE  /\ entries[i] \in Entry
             /\ entries[i].validation = "Invalid" => games[i].claim = "forged"
             /\ entries[i].flag = "challenge" => Justified(i)
  BY <1>0, NewEntryOK DEF MemoryOK, HonestOK
<1>4. /\ games' = games /\ pinned' = pinned /\ PinnedIndices' = PinnedIndices
      /\ Malicious' = Malicious /\ \A i : Justified(i)' = Justified(i)
  BY <1>1 DEF vars, PinnedIndices, Malicious, Justified, ParentGameStatus
<1>5. DOMAIN tracked' = all /\ tracked' \in [all -> Entry]
  BY <1>1, <1>3
<1>6. ForgottenOK'
  <2> SUFFICES ASSUME NEW i \in 1..cursor, Eligible(games[i]),
                      i \notin all, i \notin pendingDiscoveries \intersect fails
               PROVE  Settled(games[i])
    BY <1>1, <1>4, <1>5 DEF ForgottenOK
  <2>0. i \in PinnedIndices
    BY <1>0 DEF PinnedIndices, MemoryOK
  <2>1. Eligible(pinned.games[i])
    BY <2>0, PinnedHolds
  <2> QED
    BY <1>0, <2>1 DEF ForgottenOK
<1>7. CacheOK'
  <2>1. \A i \in DOMAIN tracked' :
            /\ tracked'[i].validation = "Invalid" => games'[i].claim = "forged"
            /\ tracked'[i].flag = "challenge" => Justified(i)'
    BY <1>1, <1>3, <1>4, <1>5
  <2>2. /\ cursor' \in 0..Len(pinned'.games)
        /\ pendingDiscoveries' \subseteq PinnedIndices' /\ DOMAIN tracked' \subseteq PinnedIndices'
    BY <1>0, <1>1, <1>2, <1>4, <1>5 DEF MemoryOK
  <2>3. todo' \subseteq DOMAIN tracked' \union {MaliceTurn} /\ (MaliceTurn \in todo' => Malicious')
    BY <1>0, <1>1, <1>4, <1>5 DEF MemoryOK
  <2> QED
    BY <1>5, <1>6, <2>1, <2>2, <2>3 DEF CacheOK
<1> QED
  BY <1>1, <1>7, CacheStep

LEMMA RestartKeeps ==
    ASSUME ChallengerInv, Restart
    PROVE  ChallengerInv'
<1>0. MemoryOK /\ Len(pinned.games) \in Nat
  <2>1. MemoryOK
    BY DEF ChallengerInv
  <2> QED
    BY <2>1 DEF MemoryOK
<1>1. /\ cursor' = 0 /\ tracked' = << >> /\ pendingDiscoveries' = {} /\ todo' = {}
      /\ UNCHANGED <<vars, config, pinned>> /\ awaiting' = NoTx
      /\ mempool' \in {mempool, mempool \union ({awaiting} \ {NoTx})}
  BY DEF Restart
<1>2. DOMAIN tracked' = {} /\ tracked' \in [{} -> Entry]
  BY <1>1
<1>3. CacheOK'
  BY <1>0, <1>1, <1>2 DEF CacheOK, ForgottenOK
<1>4. \A tx \in mempool' : tx \in mempool \/ (tx = awaiting /\ awaiting # NoTx)
  BY <1>1
<1> QED
  BY <1>1, <1>3, <1>4, CacheStep

(* The confirmed block moves to the head.                                  *)
LEMMA ConfirmKeeps ==
    ASSUME ChallengerInv, Confirm
    PROVE  ChallengerInv'
<1>0. MemoryOK /\ HonestOK /\ ForgottenOK /\ ChainInv /\ GamesOwned
  BY DEF ChallengerInv
<1>1. /\ pinned' = [games |-> games, now |-> now]
      /\ UNCHANGED <<vars, config, memory, mempool>>
  BY DEF Confirm
<1>2. /\ games \in Seq(Game) /\ Len(games) \in Nat /\ Len(pinned.games) \in Nat
      /\ pinned'.games = games /\ games' = games
      /\ PinnedIndices' = Indices /\ PinnedIndices \subseteq Indices
  <2>1. games \in Seq(Game) /\ Len(games) \in Nat /\ Len(pinned.games) \in Nat
    BY <1>0, GamesTyped DEF MemoryOK
  <2>2. pinned'.games = games /\ games' = games
    BY <1>1 DEF vars
  <2> QED
    BY <1>0, <2>1, <2>2 DEF PinnedIndices, Indices, MemoryOK
<1>3. /\ UNCHANGED <<config, cursor, tracked, pendingDiscoveries, todo, awaiting, mempool>>
      /\ Malicious' = Malicious /\ \A i : Justified(i)' = Justified(i)
  BY <1>1, <1>2 DEF memory, Malicious, Justified, ParentGameStatus
<1>4. MemoryOK'
  <2>1. \A i \in PinnedIndices' : Later(pinned'.games[i], games'[i])
    BY <1>2, LaterReflexive
  <2>2. cursor \in 0..Len(games)
    BY <1>0, <1>2 DEF MemoryOK
  <2> QED
    BY <1>0, <1>2, <1>3, <2>1, <2>2 DEF MemoryOK
<1>5. HonestOK'
  <2>1. Indices' = Indices
    BY <1>2 DEF Indices
  <2> QED
    BY <1>0, <1>2, <1>3, <2>1 DEF HonestOK, TxOK
<1>6. ForgottenOK'
  BY <1>0, <1>2, <1>3 DEF ForgottenOK
<1>7. ChainInv' /\ GamesOwned'
  <2>1. [Next]_vars /\ GameStep({})
    BY <1>1 DEF vars, GameStep
  <2>2. HeadMoves
    BY <2>1, HeadMovesOn
  <2> QED
    BY <2>2 DEF HeadMoves
<1> QED
  BY <1>4, <1>5, <1>6, <1>7 DEF ChallengerInv
-----------------------------------------------------------------------------
(* The handlers, and the transactions they leave behind.                   *)

(* Nothing on the chain moves.                                             *)
LEMMA HeadStays ==
    ASSUME ChallengerInv, UNCHANGED vars
    PROVE  HeadMoves
<1>1. GameStep({}) /\ [Next]_vars
  BY DEF GameStep, vars
<1> QED
  BY <1>1, HeadMovesOn

(* A transaction of the agent lands: a challenge it sent is justified.     *)
LEMMA HeadExecutes ==
    ASSUME ChallengerInv, NEW tx, tx.index \in PinnedIndices, TxOK(tx), Execute(tx)
    PROVE  HeadMoves
<1>0. ChainInv /\ GamesOwned /\ tx.index \in Indices
  BY PinnedHolds DEF ChallengerInv
<1>1. PICK K : K = IF tx.kind \in {"challenge", "malice"} THEN {tx.index} ELSE {}
  OBVIOUS
<1>2. GameStep(K) /\ [Next]_vars
  BY <1>0, <1>1, ExecuteKinds
<1>3. \A i \in K : Malicious \/ Justified(i)
  BY <1>1 DEF TxOK
<1> QED
  BY <1>2, <1>3, HeadMovesOn

(* Clearing the flag of a cached game.                                     *)
LEMMA FlagCleared ==
    ASSUME MemoryOK, NEW j, tracked' = [tracked EXCEPT ![j].flag = "none"]
    PROVE  /\ DOMAIN tracked' = DOMAIN tracked /\ tracked' \in [DOMAIN tracked -> Entry]
           /\ \A i \in DOMAIN tracked : /\ tracked'[i].validation = tracked[i].validation
                                        /\ tracked'[i].flag \in {tracked[i].flag, "none"}
<1>1. tracked \in [DOMAIN tracked -> Entry]
  BY DEF MemoryOK
<1>2. \A e \in Entry : LET f == [e EXCEPT !.flag = "none"] IN
          f \in Entry /\ f.validation = e.validation /\ f.flag = "none"
  BY DEF Entry
<1>3. DOMAIN tracked' = DOMAIN tracked
      /\ \A i \in DOMAIN tracked :
            tracked'[i] = IF i = j THEN [tracked[i] EXCEPT !.flag = "none"] ELSE tracked[i]
  BY <1>1
<1>4. \A i \in DOMAIN tracked : /\ tracked'[i] \in Entry
                                /\ tracked'[i].validation = tracked[i].validation
                                /\ tracked'[i].flag \in {tracked[i].flag, "none"}
  BY <1>1, <1>2, <1>3
<1>5. tracked' = [i \in DOMAIN tracked |-> tracked'[i]]
  BY <1>1
<1> QED
  BY <1>3, <1>4, <1>5

LEMMA SendKeeps ==
    ASSUME ChallengerInv, NEW i \in todo, NEW j \in DOMAIN tracked, Send(i, j)
    PROVE  ChallengerInv'
<1>0. MemoryOK /\ HonestOK
  BY DEF ChallengerInv
<1>1. /\ awaiting' = [kind |-> Handler(i), index |-> j] /\ Target(i, j)
      /\ UNCHANGED <<vars, config, pinned, cursor, tracked, pendingDiscoveries, todo, mempool>>
  BY DEF Send
<1>2. awaiting'.index = j /\ awaiting'.kind = Handler(i) /\ j \in PinnedIndices
  BY <1>0, <1>1 DEF MemoryOK
<1>3. TxOK(awaiting')
  <2>1. CASE i = MaliceTurn
    BY <1>0, <1>2, <2>1 DEF TxOK, Handler, MemoryOK
  <2>2. CASE i # MaliceTurn
    <3>1. i = j /\ i \in DOMAIN tracked /\ Handler(i) = tracked[i].flag
      BY <1>1, <2>2 DEF Target, Handler
    <3>2. tracked[i].flag \in {"none", "challenge", "resolve", "close", "claim"}
      BY <1>0, <3>1 DEF MemoryOK, Entry
    <3> QED
      BY <1>0, <1>2, <3>1, <3>2 DEF TxOK, HonestOK
  <2> QED
    BY <2>1, <2>2
<1>4. LightStep
  BY <1>0, <1>1, <1>2, <1>3 DEF LightStep, MemoryOK
<1>5. HeadMoves
  BY <1>1, HeadStays
<1> QED
  BY <1>4, <1>5, LightStepKeeps

LEMMA LogChallengeKeeps ==
    ASSUME ChallengerInv, NEW i, NEW j, LogChallenge(i, j)
    PROVE  ChallengerInv'
<1>0. MemoryOK
  BY DEF ChallengerInv
<1>1. /\ tracked' = [tracked EXCEPT ![j].flag = "none"] /\ todo' = todo \ {i}
      /\ UNCHANGED <<vars, config, pinned, cursor, pendingDiscoveries, awaiting, mempool>>
  BY DEF LogChallenge
<1>2. LightStep
  BY <1>0, <1>1, FlagCleared DEF LightStep
<1>3. HeadMoves
  BY <1>1, HeadStays
<1> QED
  BY <1>2, <1>3, LightStepKeeps

LEMMA SkipKeeps ==
    ASSUME ChallengerInv, NEW i, Skip(i)
    PROVE  ChallengerInv'
<1>0. MemoryOK
  BY DEF ChallengerInv
<1>1. /\ todo' = todo \ {i}
      /\ UNCHANGED <<vars, config, pinned, cursor, tracked, pendingDiscoveries, awaiting, mempool>>
  BY DEF Skip
<1>2. LightStep
  BY <1>0, <1>1 DEF LightStep, MemoryOK
<1>3. HeadMoves
  BY <1>1, HeadStays
<1> QED
  BY <1>2, <1>3, LightStepKeeps

LEMMA IncludedKeeps ==
    ASSUME ChallengerInv, Included
    PROVE  ChallengerInv'
<1>0. MemoryOK /\ HonestOK
  BY DEF ChallengerInv
<1>1. /\ awaiting # NoTx /\ Execute(awaiting) /\ awaiting' = NoTx /\ todo' \subseteq todo
      /\ tracked' = IF awaiting.kind \in {"challenge", "malice"}
                    THEN [tracked EXCEPT ![awaiting.index].flag = "none"] ELSE tracked
      /\ UNCHANGED <<config, pinned, cursor, pendingDiscoveries, mempool>>
  BY DEF Included, TurnDone
<1>2. HeadMoves
  <2>1. PICK tx : tx = awaiting
    OBVIOUS
  <2>2. tx.index \in PinnedIndices /\ TxOK(tx) /\ Execute(tx)
    BY <1>0, <1>1, <2>1 DEF MemoryOK, HonestOK
  <2> QED
    BY <2>2, HeadExecutes
<1>3. LightStep
  <2>1. CASE tracked' = tracked
    BY <1>0, <1>1, <2>1 DEF LightStep, MemoryOK
  <2>2. CASE tracked' = [tracked EXCEPT ![awaiting.index].flag = "none"]
    <3>1. PICK j : j = awaiting.index
      OBVIOUS
    <3>2. tracked' = [tracked EXCEPT ![j].flag = "none"]
      BY <2>2, <3>1
    <3> QED
      BY <1>0, <1>1, <3>2, FlagCleared DEF LightStep
  <2> QED
    BY <1>1, <2>1, <2>2
<1> QED
  BY <1>2, <1>3, LightStepKeeps

(* No success is seen: the transaction reverted, or no receipt came.       *)
LEMMA GiveUpKeeps ==
    ASSUME ChallengerInv, Reverted \/ TimedOut
    PROVE  ChallengerInv'
<1>0. MemoryOK
  BY DEF ChallengerInv
<1>1. /\ awaiting # NoTx /\ awaiting' = NoTx /\ todo' \subseteq todo
      /\ mempool' \in {mempool, mempool \union {awaiting}}
      /\ UNCHANGED <<vars, config, pinned, cursor, tracked, pendingDiscoveries>>
  BY DEF Reverted, TimedOut, GiveUp, TurnDone
<1>2. LightStep
  BY <1>0, <1>1 DEF LightStep, MemoryOK
<1>3. HeadMoves
  BY <1>1, HeadStays
<1> QED
  BY <1>2, <1>3, LightStepKeeps

LEMMA LandsLateKeeps ==
    ASSUME ChallengerInv, NEW tx \in mempool, LandsLate(tx)
    PROVE  ChallengerInv'
<1>0. MemoryOK /\ HonestOK
  BY DEF ChallengerInv
<1>1. /\ mempool' = mempool \ {tx} /\ (Execute(tx) \/ UNCHANGED vars)
      /\ UNCHANGED <<config, pinned, cursor, tracked, pendingDiscoveries, todo, awaiting>>
  BY DEF LandsLate, memory
<1>2. tx.index \in PinnedIndices /\ TxOK(tx)
  BY <1>0 DEF MemoryOK, HonestOK
<1>3. HeadMoves
  BY <1>1, <1>2, HeadStays, HeadExecutes
<1>4. LightStep
  BY <1>0, <1>1 DEF LightStep, MemoryOK
<1> QED
  BY <1>3, <1>4, LightStepKeeps

(* Everybody else, and time.                                               *)
LEMMA OthersKeep ==
    ASSUME ChallengerInv, World \/ Clock
    PROVE  ChallengerInv'
<1>0. MemoryOK /\ ChainInv /\ GamesOwned
  BY DEF ChallengerInv
<1>1. UNCHANGED <<config, pinned, cursor, tracked, pendingDiscoveries, todo, awaiting, mempool>>
  BY DEF World, Clock, challengerVars, memory
<1>2. LightStep
  BY <1>0, <1>1 DEF LightStep, MemoryOK
<1>3. GameStep({}) /\ [Next]_vars
  <2>1. CASE World
    BY <1>0, <2>1, WorldKinds
  <2>2. CASE Clock
    BY <2>2 DEF Clock, PassTime, GameStep, Next
  <2> QED
    BY <2>1, <2>2
<1>4. HeadMoves
  BY <1>3, HeadMovesOn
<1> QED
  BY <1>2, <1>4, LightStepKeeps
-----------------------------------------------------------------------------
LEMMA ChallengerInitInv ==
    ASSUME ChallengerInit
    PROVE  ChallengerInv
<1>0. /\ Init /\ games = << >> /\ pinned = [games |-> games, now |-> now]
      /\ cursor = 0 /\ tracked = << >> /\ pendingDiscoveries = {} /\ todo = {}
      /\ awaiting = NoTx /\ mempool = {}
  BY DEF ChallengerInit, Init, FactoryInit
<1>1. ChainInv
  BY <1>0, ChainInvInit
<1>2. /\ Len(games) = 0 /\ pinned.games = games /\ Indices = {} /\ PinnedIndices = {}
      /\ games \in Seq(Game)
  BY <1>0 DEF Indices, PinnedIndices
<1>3. GamesOwned /\ HonestOK /\ ForgottenOK
  BY <1>0, <1>2 DEF GamesOwned, HonestOK, ForgottenOK
<1>4. MemoryOK
  <2>1. DOMAIN tracked = {} /\ tracked \in [{} -> Entry]
    BY <1>0
  <2> QED
    BY <1>0, <1>2, <2>1 DEF MemoryOK
<1> QED
  BY <1>1, <1>3, <1>4 DEF ChallengerInv

LEMMA ChallengerStep ==
    ASSUME ChallengerInv, [ChallengerNext]_allVars
    PROVE  ChallengerInv'
<1>1. CASE World \/ Clock
  BY <1>1, OthersKeep
<1>2. CASE Confirm
  BY <1>2, ConfirmKeeps
<1>3. CASE Restart
  BY <1>3, RestartKeeps
<1>4. ASSUME NEW tx \in mempool, LandsLate(tx) PROVE ChallengerInv'
  BY <1>4, LandsLateKeeps
<1>5. CASE Cycle
  <2>1. ASSUME NEW f, NEW s, NEW a, SyncState(f, s, a \ s) PROVE ChallengerInv'
    BY <2>1, SyncStateKeeps
  <2>2. ASSUME NEW f, SyncAborted(f) PROVE ChallengerInv'
    BY <2>2, SyncAbortedKeeps
  <2>3. ASSUME NEW i \in todo, NEW j \in DOMAIN tracked, Send(i, j) \/ LogChallenge(i, j)
        PROVE  ChallengerInv'
    BY <2>3, SendKeeps, LogChallengeKeeps
  <2>4. ASSUME NEW i \in todo, Skip(i) PROVE ChallengerInv'
    BY <2>4, SkipKeeps
  <2>5. CASE Included
    BY <2>5, IncludedKeeps
  <2>6. CASE Reverted \/ TimedOut
    BY <2>6, GiveUpKeeps
  <2> QED
    BY <1>5, <2>1, <2>2, <2>3, <2>4, <2>5, <2>6 DEF Cycle
<1>6. CASE UNCHANGED allVars
  <2>1. /\ UNCHANGED vars
        /\ UNCHANGED <<config, pinned, cursor, tracked, pendingDiscoveries, todo, awaiting, mempool>>
    BY <1>6 DEF allVars, challengerVars, memory
  <2>2. LightStep
    <3>1. MemoryOK
      BY DEF ChallengerInv
    <3> QED
      BY <2>1, <3>1 DEF LightStep, MemoryOK
  <2> QED
    BY <2>1, <2>2, HeadStays, LightStepKeeps
<1> QED
  BY <1>1, <1>2, <1>3, <1>4, <1>5, <1>6 DEF ChallengerNext

LEMMA ChallengerInvariant == ChallengerSpec => []ChallengerInv
BY ChallengerInitInv, ChallengerStep, PTL DEF ChallengerSpec

(* Every step of the whole system moves the head as the agent expects.     *)
LEMMA HeadAlwaysMoves ==
    ASSUME ChallengerInv, [ChallengerNext]_allVars
    PROVE  HeadMoves
<1>0. ChainInv /\ GamesOwned /\ MemoryOK /\ HonestOK
  BY DEF ChallengerInv
<1>1. CASE World
  BY <1>0, <1>1, WorldKinds, HeadMovesOn
<1>2. CASE Clock
  <2>1. GameStep({}) /\ [Next]_vars
    BY <1>2 DEF Clock, PassTime, GameStep, Next
  <2> QED
    BY <2>1, HeadMovesOn
<1>3. CASE UNCHANGED vars
  BY <1>3, HeadStays
<1>4. ASSUME NEW tx \in mempool, LandsLate(tx) PROVE HeadMoves
  <2>1. tx.index \in PinnedIndices /\ TxOK(tx)
    BY <1>0 DEF MemoryOK, HonestOK
  <2> QED
    BY <1>4, <2>1, HeadStays, HeadExecutes DEF LandsLate
<1>5. CASE Included
  <2>1. PICK tx : tx = awaiting
    OBVIOUS
  <2>2. tx.index \in PinnedIndices /\ TxOK(tx) /\ Execute(tx)
    BY <1>0, <1>5, <2>1 DEF MemoryOK, HonestOK, Included
  <2> QED
    BY <2>2, HeadExecutes
<1>6. \/ World \/ Clock \/ UNCHANGED vars \/ Included
      \/ \E tx \in mempool : LandsLate(tx)
  <2>1. CASE Cycle
    BY <2>1 DEF Cycle, SyncState, SyncAborted, Send, LogChallenge, Skip, Reverted, TimedOut, GiveUp
  <2>2. CASE Confirm \/ Restart \/ UNCHANGED allVars
    BY <2>2 DEF Confirm, Restart, allVars
  <2> QED
    BY <2>1, <2>2 DEF ChallengerNext
<1> QED
  BY <1>1, <1>2, <1>3, <1>4, <1>5, <1>6
-----------------------------------------------------------------------------
(* Whatever reads fail and whenever the agent restarts, a game that needs  *)
(* it at the head of the chain is cached, queued or still to be            *)
(* discovered: sync_state forgets a game only once it is settled for good. *)
THEOREM NoDutyForgotten == ChallengerSpec => []NothingForgotten
<1>1. ASSUME ChallengerInv PROVE NothingForgotten
  <2> SUFFICES ASSUME NEW i \in Indices, Eligible(games[i]), Unattended(games[i]),
                      i \notin DOMAIN tracked \union pendingDiscoveries, ~(i > cursor)
               PROVE  FALSE
    BY DEF NothingForgotten
  <2> DEFINE g == games[i]
  <2>0. ForgottenOK /\ MemoryOK /\ GamesOwned /\ ChainInv /\ cursor \in Nat /\ Len(games) \in Nat
    <3>1. ForgottenOK /\ MemoryOK /\ GamesOwned /\ ChainInv
      BY <1>1 DEF ChallengerInv
    <3>2. cursor \in Nat
      BY <3>1 DEF MemoryOK
    <3> QED
      BY <3>1, <3>2, GamesTyped
  <2>1. Settled(g)
    <3>1. i \in 1..cursor
      BY <2>0 DEF Indices
    <3> QED
      BY <2>0, <3>1 DEF ForgottenOK
  <2>2. /\ Self \in Actors /\ Self \in Addresses /\ g \in Game /\ GameInv(g) /\ CreditOK(g)
        /\ g.gameType = "succinct" /\ g.creator # Self
    BY <2>0, GamesTyped, ChallengerAssumption DEF Addresses, GamesOwned, Eligible
  <2>3. g.status = "CHALLENGER_WINS" /\ Credit(g, g.mode, Self) > 0
    BY <2>1 DEF Settled, Unattended
  <2>4. g.counteredBy # Self
    BY <2>1, <2>3 DEF Settled
  <2>5. g.normal[Self] = 0
    BY <2>2, <2>3, <2>4 DEF CreditOK
  <2>6. g.mode = "REFUND" => g.refund[Self] = 0
    BY <2>2, <2>4 DEF GameInv, BondsOK, Deposit
  <2> QED
    BY <2>3, <2>5, <2>6 DEF Credit
<1> QED
  BY ChallengerInvariant, <1>1, PTL

(* An honest challenger never loses its bond in a game that stood on a     *)
(* canonical start: what it counters is a lie or a child of a lost game,   *)
(* and neither can win once countered.                                     *)
THEOREM HonestBondsSafe == ChallengerSpec => []HonestBondIsSafe
<1>1. ASSUME ChallengerInv PROVE HonestBondIsSafe
  <2> SUFFICES ASSUME ~Malicious, NEW i \in Succinct, games[i].counteredBy = Self,
                      games[i].status = "DEFENDER_WINS"
               PROVE  games[i].startRoot = "forged"
    BY DEF HonestBondIsSafe
  <2> DEFINE g == games[i]
  <2>0. /\ ChainInv /\ HonestOK /\ i \in Indices /\ g.gameType = "succinct"
        /\ Self # NoAddress
    BY <1>1, ChallengerAssumption, FactoryAssumption DEF ChallengerInv, Succinct
  <2>1. Justified(i) /\ VerdictOK(g) /\ g \in Game
    BY <2>0, GamesTyped DEF HonestOK, ChainInv
  <2>2. g.claim = "forged"
    BY <2>0, <2>1 DEF Justified, VerdictOK
  <2>3. ~FirstLie(g)
    BY <2>0, <2>1 DEF VerdictOK
  <2> QED
    BY <2>1, <2>2, <2>3 DEF FirstLie, Game, Roots
<1> QED
  BY ChallengerInvariant, <1>1, PTL

(* The challenge transactions of an honest agent dispute only wrong claims *)
(* and children of lost games, however stale the flag or late the landing. *)
THEOREM ChallengesOnlyLies == ChallengerSpec => OnlyChallengesLies
<1> DEFINE Honest ==
      ~Malicious => \A i \in Indices :
        games[i].counteredBy = NoAddress /\ games'[i].counteredBy = Self =>
            \/ games[i].claim = "forged"
            \/ ParentGameStatus(games[i]) = "CHALLENGER_WINS"
<1>1. ASSUME ChallengerInv, [ChallengerNext]_allVars PROVE Honest
  <2>1. HeadMoves /\ Self # NoAddress
    BY <1>1, HeadAlwaysMoves, ChallengerAssumption, FactoryAssumption
  <2> QED
    BY <2>1 DEF HeadMoves, Justified
<1>2. ChallengerSpec => [][Honest]_allVars
  BY ChallengerInvariant, <1>1, PTL DEF ChallengerSpec
<1> QED
  BY <1>2 DEF OnlyChallengesLies
-----------------------------------------------------------------------------
(* The challenger that keeps pace with the clock, in a Protectable world.  *)

(* A first lie is never proved and has not won, and while it is open less  *)
(* than two ticks have passed since it was created.                        *)
LieOK(g) ==
    FirstLie(g) =>
        /\ g.proposal \in {"Unchallenged", "Challenged", "Resolved"}
        /\ g.status # "DEFENDER_WINS"
        /\ g.proposal = "Unchallenged" =>
              g.deadline = g.createdAt + MaxChallengeDuration /\ now <= g.createdAt + 1

WatchedGames == \A i \in Indices : Eligible(games[i]) /\ LieOK(games[i])

(* What the confirmed block shows of the games nobody challenged yet.      *)
PinnedCurrent ==
    /\ pinned.now \in Nat /\ pinned.now <= now
    /\ pinned.now = now => \A i \in Indices : games[i].createdAt < now => i \in PinnedIndices
    /\ \A i \in PinnedIndices : games[i].proposal = "Unchallenged" =>
          pinned.games[i].proposal = "Unchallenged" /\ pinned.games[i].deadline = games[i].deadline

(* A game is cached or queued, never both, and never taken for right when  *)
(* it is not; the transaction awaited is the one its flag asked for.       *)
CacheCurrent ==
    /\ \A i \in DOMAIN tracked : tracked[i].validation = "Valid" => games[i].claim = "canonical"
    /\ DOMAIN tracked \intersect pendingDiscoveries = {}
    /\ DOMAIN tracked \union pendingDiscoveries \subseteq 1..cursor
    /\ awaiting # NoTx => awaiting.index \in todo /\ awaiting.kind = tracked[awaiting.index].flag

OldLie(i) == FirstLie(games[i]) /\ games[i].proposal = "Unchallenged" /\ games[i].createdAt < now

(* A clean cycle has every open lie of an earlier second on its list until *)
(* it is challenged.                                                       *)
CleanOK ==
    clean => \A i \in Indices : OldLie(i) => i \in todo /\ tracked[i].flag = "challenge"

Steady ==
    /\ respectedGameType = "succinct" /\ challengers = InitChallengers /\ config = "active"

(* The inductive invariant.  That no lie wins needs that none stays open   *)
(* for two ticks; that needs the clean cycle between two ticks to list all *)
(* old ones, for which its confirmed block must show them as they are and  *)
(* the cache must not hold a verdict that is wrong or out of reach.        *)
PacedInv ==
    /\ ChallengerInv /\ CreationOrdered
    /\ Steady /\ WatchedGames /\ PinnedCurrent /\ CacheCurrent /\ CleanOK
-----------------------------------------------------------------------------
(* A step of anybody on the games, between two ticks.                      *)
WatchedStep ==
    \/ games' = games
    \/ \E h \in Game : /\ games' = Append(games, h) /\ h.createdAt = now
                       /\ Eligible(h) /\ LieOK(h)
    \/ \E i \in Indices, h \in Game :
          /\ games' = [games EXCEPT ![i] = h]
          /\ Fixed(h) = Fixed(games[i]) /\ LieOK(h)
          /\ h.proposal = "Unchallenged" =>
                games[i].proposal = "Unchallenged" /\ h.deadline = games[i].deadline

(* The calls on an existing game: a lie is not proved, and what is open is *)
(* not over.                                                               *)
LEMMA WatchedCalls ==
    ASSUME Protectable, ChainInv, WatchedGames, NEW i \in Indices
    PROVE  /\ Resolve(i) \/ CloseGame(i) => WatchedStep
           /\ \A a \in Addresses : ClaimCredit(i, a) => WatchedStep
           /\ \A a \in Actors : Prove(i, a) \/ Challenge(i, a) => WatchedStep
<1> DEFINE g == games[i]
<1>0. /\ now \in Nat /\ g \in Game /\ GameInv(g) /\ VerdictOK(g) /\ g.gameType = "succinct"
      /\ LieOK(g) /\ MaxChallengeDuration \in Nat /\ MaxChallengeDuration > 1
  BY GamesTyped, GameAssumption DEF ChainInv, WatchedGames, Eligible, Protectable
<1>1. ASSUME Resolve(i) PROVE WatchedStep
  <2> DEFINE h == Resolved(g)
  <2>1. g.status = "IN_PROGRESS" /\ CanResolve(g) /\ games' = [games EXCEPT ![i] = h]
    BY <1>1 DEF Resolve
  <2>2. h \in Game
    BY <1>0, <2>1, ResolvedKeeps
  <2>3. Fixed(h) = Fixed(g)
    BY <1>0, <2>1, ResolvedLater DEF Later
  <2>4. h.proposal = "Resolved" /\ h.status = Verdict(g)
    BY <1>0 DEF Resolved, Game
  <2>5. FirstLie(g) => Verdict(g) = "CHALLENGER_WINS"
    <3> SUFFICES ASSUME FirstLie(g), Verdict(g) # "CHALLENGER_WINS" PROVE FALSE
      OBVIOUS
    <3>1. ParentGameStatus(g) # "CHALLENGER_WINS" /\ g.proposal # "Challenged" /\ GameOver(g)
      BY <2>1 DEF Verdict, CanResolve
    <3>2. g.proposal = "Unchallenged"
      BY <1>0, <2>1, <3>1 DEF LieOK, GameInv, RolesOK
    <3>3. g.prover = NoAddress /\ g.deadline = g.createdAt + MaxChallengeDuration
          /\ now <= g.createdAt + 1 /\ g.createdAt \in Nat
      BY <1>0, <3>2 DEF LieOK, GameInv, RolesOK, Game
    <3> QED
      BY <1>0, <3>1, <3>3 DEF GameOver
  <2> HIDE DEF h
  <2>6. LieOK(h)
    BY <2>3, <2>4, <2>5 DEF LieOK, FirstLie, Fixed
  <2> QED
    BY <2>1, <2>2, <2>3, <2>4, <2>6 DEF WatchedStep
<1>2. ASSUME NEW h \in Game, games' = [games EXCEPT ![i] = h], Fixed(h) = Fixed(g),
             h.proposal = g.proposal, h.deadline = g.deadline, h.status = g.status
      PROVE  WatchedStep
  <2>1. LieOK(h)
    BY <1>0, <1>2 DEF LieOK, FirstLie, Fixed
  <2> QED
    BY <1>2, <2>1 DEF WatchedStep
<1>3. ASSUME CloseGame(i) PROVE WatchedStep
  <2> DEFINE m == ModeAfterClose(i)
             h == [g EXCEPT !.mode = m]
  <2>1. games' = [games EXCEPT ![i] = h]
    BY <1>3 DEF CloseGame
  <2>2. h \in Game
    BY <1>0 DEF ModeAfterClose, Game, BondDistributionModes
  <2>3. Fixed(h) = Fixed(g) /\ h.proposal = g.proposal /\ h.deadline = g.deadline
        /\ h.status = g.status
    BY <1>0 DEF Fixed, Game
  <2> HIDE DEF h
  <2> QED
    BY <1>2, <2>1, <2>2, <2>3
<1>4. ASSUME NEW a \in Addresses, ClaimCredit(i, a) PROVE WatchedStep
  <2> DEFINE m == ModeAfterClose(i)
             h == Paid(g, m, a)
  <2>1. /\ g.gameType = "succinct" /\ g.status # "IN_PROGRESS"
        /\ m \in {"NORMAL", "REFUND"} /\ g.mode \in {"UNDECIDED", m}
    BY <1>0, <1>4 DEF ClaimCredit, CanClose, IsGameFinalized, GameInv, BondsOK,
       ModeAfterClose, Game, BondDistributionModes
  <2>2. h \in Game
    BY <1>0, <2>1, PaidKeeps
  <2>3. games' = [games EXCEPT ![i] = h]
    BY <1>4 DEF ClaimCredit
  <2> HIDE DEF m
  <2>4. Fixed(h) = Fixed(g) /\ h.proposal = g.proposal /\ h.deadline = g.deadline
        /\ h.status = g.status
    BY <1>0 DEF Paid, Fixed, Game
  <2> HIDE DEF h
  <2> QED
    BY <1>2, <2>2, <2>3, <2>4
<1>5. ASSUME NEW a \in Actors, Prove(i, a) PROVE WatchedStep
  <2> DEFINE h == Proved(g, a)
  <2>1. ProofVerifies(g) /\ g.prover = NoAddress /\ games' = [games EXCEPT ![i] = h]
    BY <1>5 DEF Prove, GameOver
  <2>2. h \in Game
    BY <1>0, <1>5, <2>1, ProvedKeeps
  <2>3. Fixed(h) = Fixed(g)
    BY <1>0, ProvedLater DEF Later
  <2>4. ~FirstLie(g) /\ h.proposal # "Unchallenged"
    BY <1>0, <2>1 DEF ProofVerifies, FirstLie, Proved, Game
  <2> HIDE DEF h
  <2>5. LieOK(h)
    BY <2>3, <2>4 DEF LieOK, FirstLie, Fixed
  <2> QED
    BY <2>1, <2>2, <2>3, <2>4, <2>5 DEF WatchedStep
<1>6. ASSUME NEW a \in Actors, Challenge(i, a) PROVE WatchedStep
  <2> DEFINE h == Challenged(g, a)
  <2>1. g.proposal = "Unchallenged" /\ games' = [games EXCEPT ![i] = h]
    BY <1>6 DEF Challenge
  <2>2. h \in Game
    BY <1>0, <1>6, <2>1, ChallengedKeeps
  <2>3. Fixed(h) = Fixed(g)
    BY <1>0, <2>1, ChallengedLater DEF Later
  <2>4. h.proposal = "Challenged" /\ h.status = g.status
    BY <1>0 DEF Challenged, Game
  <2> HIDE DEF h
  <2>5. LieOK(h)
    BY <1>0, <2>3, <2>4 DEF LieOK, FirstLie, Fixed
  <2> QED
    BY <2>1, <2>2, <2>3, <2>4, <2>5 DEF WatchedStep
<1> QED
  BY <1>1, <1>3, <1>4, <1>5, <1>6

LEMMA WatchedNext ==
    ASSUME Protectable, ChainInv, Steady, WatchedGames, [Next]_vars, now' = now
    PROVE  WatchedStep /\ respectedGameType' = respectedGameType
<1>0. /\ TypeOK /\ now \in Nat /\ MaxChallengeDuration \in Nat
      /\ "other" \notin TypesInUse /\ "respect" \notin GuardianPowers
  BY GamesTyped, GameAssumption DEF ChainInv, BondInv, Protectable
<1>1. respectedGameType' = respectedGameType
  <2>1. CASE RegistryStep
    BY <1>0, <2>1 DEF RegistryStep, SetAnchorState, Blacklist, UpdateRetirementTimestamp,
       SetRespectedGameType, SetPaused
  <2>2. CASE ~RegistryStep
    BY <2>2 DEF Next, vars, registryVars, PassTime, OwnerStep, Create, CreateOther, ResolveOther,
       Challenge, Prove, Resolve, CloseGame, ClaimCredit
  <2> QED
    BY <2>1, <2>2
<1>2. ASSUME games' = games PROVE WatchedStep
  BY <1>2 DEF WatchedStep
<1>3. ASSUME NEW a \in Actors, NEW p \in {NoParent} \union Indices, NEW b \in 1..MaxBlock,
             NEW r \in Roots, Create(a, p, b, r)
      PROVE  WatchedStep
  <2> DEFINE h == NewGame("succinct", a, p, b, r)
  <2>1. h \in Game
    BY <1>0, <1>3, NewGameOK DEF Create, CreationBound, GameTypes
  <2>2. /\ h.gameType = "succinct" /\ h.wasRespected = "yes" /\ h.createdAt = now
        /\ h.proposal = "Unchallenged" /\ h.status = "IN_PROGRESS"
        /\ h.deadline = now + MaxChallengeDuration
    BY DEF NewGame, Steady
  <2>3. games' = Append(games, h)
    BY <1>3 DEF Create
  <2> HIDE DEF h
  <2>4. Eligible(h) /\ LieOK(h)
    BY <1>0, <2>2 DEF Eligible, LieOK
  <2> QED
    BY <2>1, <2>2, <2>3, <2>4 DEF WatchedStep
<1>4. ASSUME NEW i \in Indices, NEW v \in GameStatuses \ {"IN_PROGRESS"}, ResolveOther(i, v)
      PROVE  FALSE
  BY <1>4 DEF ResolveOther, WatchedGames, Eligible
<1>5. ASSUME NEW b \in 1..MaxBlock, NEW r \in Roots, CreateOther(b, r) PROVE FALSE
  BY <1>0, <1>5 DEF CreateOther
<1>6. CASE PassTime \/ OwnerStep \/ RegistryStep \/ UNCHANGED vars
  BY <1>1, <1>2, <1>6 DEF PassTime, OwnerStep, RegistryStep, vars
<1>7. WatchedStep
  BY <1>3, <1>4, <1>5, <1>6, WatchedCalls DEF Next
<1> QED
  BY <1>1, <1>7

(* Between two ticks no game reopens, and new ones are of this second.     *)
NothingReopens ==
    /\ WatchedGames'
    /\ \A j \in Indices : /\ j \in Indices' /\ Fixed(games'[j]) = Fixed(games[j])
                          /\ games'[j].proposal = "Unchallenged" =>
                                /\ games[j].proposal = "Unchallenged"
                                /\ games'[j].deadline = games[j].deadline
    /\ \A j \in Indices' : j \in Indices \/ games'[j].createdAt = now

LEMMA WatchedEffect ==
    ASSUME ChainInv, WatchedGames, WatchedStep, now' = now
    PROVE  NothingReopens
<1>0. games \in Seq(Game) /\ Len(games) \in Nat
  BY GamesTyped
<1>1. \A g : /\ LieOK(g)' = LieOK(g) /\ Eligible(g)' = Eligible(g)
  BY DEF LieOK, FirstLie, Eligible
<1>2. CASE games' = games
  BY <1>2 DEF NothingReopens, WatchedGames, Indices, LieOK, FirstLie, Eligible
<1>3. ASSUME NEW h \in Game, games' = Append(games, h), h.createdAt = now, Eligible(h), LieOK(h)
      PROVE  NothingReopens
  <2>1. /\ \A j \in Indices : j \in Indices' /\ games'[j] = games[j]
        /\ \A j \in Indices' : j \in Indices \/ games'[j] = h
    BY <1>0, <1>3 DEF Indices
  <2>2. \A j \in Indices' : Eligible(games'[j]) /\ LieOK(games'[j])
    BY <1>3, <2>1 DEF WatchedGames
  <2>3. WatchedGames'
    BY <2>2 DEF WatchedGames, LieOK, FirstLie, Eligible
  <2> QED
    BY <1>3, <2>1, <2>3 DEF NothingReopens
<1>4. ASSUME NEW i \in Indices, NEW h \in Game, games' = [games EXCEPT ![i] = h],
             Fixed(h) = Fixed(games[i]), LieOK(h),
             h.proposal = "Unchallenged" =>
                games[i].proposal = "Unchallenged" /\ h.deadline = games[i].deadline
      PROVE  NothingReopens
  <2>1. /\ Indices' = Indices
        /\ \A j \in Indices : games'[j] = IF j = i THEN h ELSE games[j]
    BY <1>0, <1>4, ExceptSeq DEF Indices
  <2>2. \A j \in Indices : Eligible(games'[j]) /\ LieOK(games'[j])
    BY <1>4, <2>1 DEF WatchedGames, Eligible, Fixed
  <2>3. WatchedGames'
    BY <2>1, <2>2 DEF WatchedGames, LieOK, FirstLie, Eligible
  <2> QED
    BY <1>4, <2>1, <2>3 DEF NothingReopens
<1> QED
  BY <1>2, <1>3, <1>4 DEF WatchedStep

(* What a step between two ticks leaves to show.                           *)
Undisturbed ==
    /\ CreationOrdered' /\ Steady' /\ WatchedGames' /\ PinnedCurrent'
    /\ \A j \in Indices : j \in Indices' /\ games'[j].claim = games[j].claim
    /\ \A j \in Indices' : OldLie(j)' => j \in Indices /\ OldLie(j)

LEMMA QuietStep ==
    ASSUME Protectable, PacedInv, [Next]_vars, UNCHANGED <<now, challengers, config, pinned>>
    PROVE  Undisturbed
<1>0. /\ ChallengerInv /\ ChainInv /\ MemoryOK /\ CreationOrdered /\ Steady /\ WatchedGames
      /\ PinnedCurrent
  BY DEF PacedInv, ChallengerInv
<1>1. CreationOrdered'
  BY <1>0, OrderInvStep DEF OrderInv
<1>2. NothingReopens /\ Steady'
  BY <1>0, WatchedNext, WatchedEffect DEF Steady
<1>3. /\ PinnedIndices' = PinnedIndices
      /\ \A j \in PinnedIndices : j \in Indices
  BY <1>0, PinnedHolds DEF PinnedIndices
<1>4. \A j \in Indices : /\ j \in Indices' /\ games'[j].claim = games[j].claim
                         /\ games'[j].startRoot = games[j].startRoot
                         /\ games'[j].createdAt = games[j].createdAt
                         /\ games'[j].proposal = "Unchallenged" =>
                                /\ games[j].proposal = "Unchallenged"
                                /\ games'[j].deadline = games[j].deadline
  BY <1>2 DEF NothingReopens, Fixed
<1>5. now \in Nat /\ \A j \in Indices' : j \in Indices \/ games'[j].createdAt = now
  BY <1>0, <1>2, GamesTyped DEF NothingReopens
<1>6. PinnedCurrent'
  BY <1>0, <1>3, <1>4, <1>5 DEF PinnedCurrent
<1>7. \A j \in Indices' : OldLie(j)' => j \in Indices /\ OldLie(j)
  BY <1>4, <1>5 DEF OldLie, FirstLie
<1> QED
  BY <1>1, <1>2, <1>4, <1>6, <1>7 DEF Undisturbed, NothingReopens
-----------------------------------------------------------------------------
(* The cache through a cycle.                                              *)

(* The agent is honest, so what is on its list is a cached game.           *)
LEMMA ListIsCached ==
    ASSUME PacedInv
    PROVE  /\ ~Malicious /\ SubmitEnabled /\ MaliceTurn \notin todo
           /\ todo \subseteq DOMAIN tracked /\ DOMAIN tracked \subseteq PinnedIndices
           /\ \A i \in todo : i \in Indices /\ Handler(i) = tracked[i].flag
<1>0. ChallengerInv /\ MemoryOK /\ Steady
  BY DEF PacedInv, ChallengerInv
<1>1. ~Malicious /\ SubmitEnabled
  BY <1>0 DEF Steady, Malicious, SubmitEnabled
<1>2. MaliceTurn \notin todo /\ todo \subseteq DOMAIN tracked
      /\ DOMAIN tracked \subseteq PinnedIndices
  BY <1>0, <1>1 DEF MemoryOK
<1>3. \A i \in todo : i \in Indices /\ Handler(i) = tracked[i].flag
  BY <1>0, <1>2, PinnedHolds DEF Handler
<1> QED
  BY <1>1, <1>2, <1>3

(* Memory that does not change, or loses items of the list.                *)
LEMMA CacheKept ==
    ASSUME PacedInv, UNCHANGED <<cursor, pendingDiscoveries>>,
           \A j \in Indices : games'[j].claim = games[j].claim,
           DOMAIN tracked' = DOMAIN tracked,
           \A j \in DOMAIN tracked : tracked'[j].validation = tracked[j].validation,
           awaiting' # NoTx =>
              awaiting'.index \in todo' /\ awaiting'.kind = tracked'[awaiting'.index].flag
    PROVE  CacheCurrent'
<1>1. CacheCurrent /\ \A i \in DOMAIN tracked : i \in Indices
  BY ListIsCached, PinnedHolds DEF PacedInv
<1> QED
  BY <1>1 DEF CacheCurrent

LEMMA SyncedValid ==
    ASSUME NEW g, NEW e, NEW available, SyncedEntry(g, e, available).validation = "Valid"
    PROVE  e.validation = "Valid" \/ g.claim = "canonical"
BY DEF SyncedEntry, ValidationAfter, Validate

LEMMA SyncCurrent ==
    ASSUME PacedInv, NEW fails, NEW syncFails, NEW available,
           SyncState(fails, syncFails, available)
    PROVE  CacheCurrent'
<1> DEFINE loaded == {i \in Fetched \ fails : Eligible(pinned.games[i])}
           all == loaded \union DOMAIN tracked
           entries == [i \in all |-> IF i \in loaded THEN NewEntry ELSE tracked[i]]
           evicted == {i \in all \ syncFails : Evicted(pinned.games[i])}
           next(i) == IF i \in syncFails THEN FailedEntry(entries[i])
                      ELSE SyncedEntry(pinned.games[i], entries[i], i \in available)
           synced == [i \in all \ evicted |-> next(i)]
<1>0. /\ ChallengerInv /\ MemoryOK /\ CacheCurrent /\ Len(pinned.games) \in Nat
      /\ cursor \in Nat
  <2>1. ChallengerInv /\ MemoryOK /\ CacheCurrent
    BY DEF PacedInv, ChallengerInv
  <2> QED
    BY <2>1 DEF MemoryOK
<1>1. /\ pendingDiscoveries' = Fetched \intersect fails
      /\ cursor' = Len(pinned.games)
      /\ tracked' = synced
      /\ games' = games /\ awaiting' = NoTx
  BY DEF SyncState, PendingAfter, vars
<1>2. /\ Fetched \subseteq 1..Len(pinned.games) /\ all \subseteq 1..Len(pinned.games)
      /\ DOMAIN tracked \intersect Fetched = {}
  BY <1>0 DEF MemoryOK, Fetched, PinnedIndices, CacheCurrent
<1>3. DOMAIN tracked' = all \ evicted /\ \A i \in DOMAIN tracked' : tracked'[i] = next(i)
  BY <1>1
<1>4. ASSUME NEW i \in all, next(i).validation = "Valid" PROVE games[i].claim = "canonical"
  <2>1. i \in PinnedIndices /\ games[i].claim = pinned.games[i].claim
    BY <1>0, <1>2, PinnedHolds DEF PinnedIndices
  <2>2. entries[i].validation = "Valid" => games[i].claim = "canonical"
    BY <1>0, NewEntryOK DEF CacheCurrent, NewEntry
  <2>3. CASE i \in syncFails
    <3>1. PICK e \in Entry : e = entries[i]
      BY <1>0, NewEntryOK DEF MemoryOK
    <3>2. FailedEntry(e).validation = e.validation
      BY DEF FailedEntry, Entry
    <3> QED
      BY <1>4, <2>2, <2>3, <3>1, <3>2
  <2>4. CASE i \notin syncFails
    <3>0. PICK b : b = (i \in available)
      BY Zenon
    <3>1. PICK e : e = entries[i]
      OBVIOUS
    <3>2. next(i) = SyncedEntry(pinned.games[i], e, b)
      BY <2>4, <3>0, <3>1, Zenon
    <3>3. e.validation = "Valid" \/ pinned.games[i].claim = "canonical"
      BY <1>4, <3>2, SyncedValid
    <3> QED
      BY <2>1, <2>2, <3>1, <3>3
  <2> QED
    BY <2>3, <2>4
<1> HIDE DEF next
<1>5. \A i \in DOMAIN tracked' : tracked'[i].validation = "Valid" => games'[i].claim = "canonical"
  BY <1>1, <1>3, <1>4
<1>6. /\ DOMAIN tracked' \intersect pendingDiscoveries' = {}
      /\ DOMAIN tracked' \union pendingDiscoveries' \subseteq 1..cursor'
  BY <1>1, <1>2, <1>3
<1> QED
  BY <1>1, <1>5, <1>6 DEF CacheCurrent

LEMMA AbortedCurrent ==
    ASSUME PacedInv, NEW fails, SyncAborted(fails)
    PROVE  CacheCurrent'
<1> DEFINE loaded == {i \in pendingDiscoveries \ fails : Eligible(pinned.games[i])}
           all == loaded \union DOMAIN tracked
           entries == [i \in all |-> IF i \in loaded THEN NewEntry ELSE tracked[i]]
<1>0. CacheCurrent
  BY DEF PacedInv
<1>1. /\ pendingDiscoveries' = pendingDiscoveries \intersect fails
      /\ tracked' = entries
      /\ games' = games /\ awaiting' = NoTx /\ cursor' = cursor
  BY DEF SyncAborted, vars
<1>2. \A i \in DOMAIN tracked' : tracked'[i].validation = "Valid" => games'[i].claim = "canonical"
  BY <1>0, <1>1 DEF CacheCurrent, NewEntry
<1> QED
  BY <1>0, <1>1, <1>2 DEF CacheCurrent

(* What an old lie looks like to a cycle over a block of this second.      *)
LEMMA OldLieSeen ==
    ASSUME Protectable, PacedInv, pinned.now = now, NEW i \in Indices, OldLie(i)
    PROVE  LET g == pinned.games[i] IN
           /\ i \in PinnedIndices /\ Eligible(g) /\ g.claim = "forged"
           /\ g.status = "IN_PROGRESS" /\ g.proposal = "Unchallenged" /\ now < g.deadline
           /\ i \in Fetched => i \notin DOMAIN tracked
           /\ i \notin Fetched =>
                 /\ i \in DOMAIN tracked /\ tracked[i].validation \in {"Unavailable", "Invalid"}
<1> DEFINE g == pinned.games[i]
<1>0. /\ ChallengerInv /\ ChainInv /\ MemoryOK /\ ForgottenOK /\ CacheCurrent /\ PinnedCurrent
      /\ WatchedGames
  BY DEF PacedInv, ChallengerInv
<1>1. i \in PinnedIndices
  BY <1>0 DEF PinnedCurrent, OldLie
<1>2. /\ Len(pinned.games) \in Nat /\ cursor \in Nat /\ i \in 1..Len(pinned.games)
      /\ now \in Nat /\ games[i] \in Game /\ GameInv(games[i])
      /\ MaxChallengeDuration \in Nat /\ MaxChallengeDuration > 1
  BY <1>0, <1>1, GamesTyped, GameAssumption DEF MemoryOK, PinnedIndices, Protectable
<1>3. /\ games[i].claim = "forged" /\ games[i].proposal = "Unchallenged" /\ FirstLie(games[i])
      /\ Eligible(games[i]) /\ games[i].status = "IN_PROGRESS" /\ LieOK(games[i])
  BY <1>0, <1>2 DEF OldLie, FirstLie, WatchedGames, Eligible, GameInv, RolesOK
<1>4. Later(g, games[i]) /\ Eligible(g) /\ g.claim = "forged"
  BY <1>0, <1>1, <1>3, PinnedHolds
<1>5. g.status = "IN_PROGRESS"
  BY <1>3, <1>4 DEF Later
<1>6. g.proposal = "Unchallenged" /\ g.deadline = games[i].deadline
  BY <1>0, <1>1, <1>3 DEF PinnedCurrent
<1>7. now < g.deadline
  <2>1. games[i].deadline = games[i].createdAt + MaxChallengeDuration
        /\ now <= games[i].createdAt + 1 /\ games[i].createdAt \in Nat
    BY <1>2, <1>3 DEF LieOK, Game
  <2> QED
    BY <1>2, <1>6, <2>1
<1>8. i \in Fetched => i \notin DOMAIN tracked
  BY <1>0, <1>2 DEF Fetched, CacheCurrent
<1>9. ASSUME i \notin Fetched
      PROVE  i \in DOMAIN tracked /\ tracked[i].validation \in {"Unavailable", "Invalid"}
  <2>1. i \in 1..cursor /\ i \notin pendingDiscoveries
    BY <1>2, <1>9 DEF Fetched
  <2>2. i \in DOMAIN tracked
    BY <1>0, <1>3, <2>1 DEF ForgottenOK, Settled
  <2>3. tracked[i].validation \in Validations
    BY <1>0, <2>2 DEF MemoryOK, Entry
  <2> QED
    BY <1>0, <1>3, <2>2, <2>3 DEF CacheCurrent, Validations
<1> QED
  BY <1>1, <1>4, <1>5, <1>6, <1>7, <1>8, <1>9

(* A cycle without errors over such a block puts every old lie on the list.*)
LEMMA CleanSyncLists ==
    ASSUME Protectable, PacedInv, CleanSync, NEW i \in Indices, OldLie(i)
    PROVE  i \in todo' /\ tracked'[i].flag = "challenge"
<1> DEFINE loaded == {j \in Fetched \ {} : Eligible(pinned.games[j])}
           all == loaded \union DOMAIN tracked
           entries == [j \in all |-> IF j \in loaded THEN NewEntry ELSE tracked[j]]
           evicted == {j \in all \ {} : Evicted(pinned.games[j])}
           next(j) == IF j \in {} THEN FailedEntry(entries[j])
                      ELSE SyncedEntry(pinned.games[j], entries[j], j \in ToValidate)
           synced == [j \in all \ evicted |-> next(j)]
           g == pinned.games[i]
<1>1. pinned.now = now /\ SyncState({}, {}, ToValidate)
  BY DEF CleanSync
<1>2. /\ tracked' = synced
      /\ todo' = {j \in DOMAIN synced : synced[j].flag # "none"}
                 \union (IF Malicious THEN {MaliceTurn} ELSE {})
  BY <1>1 DEF SyncState
<1>3. /\ i \in PinnedIndices /\ Eligible(g) /\ g.claim = "forged"
      /\ g.status = "IN_PROGRESS" /\ g.proposal = "Unchallenged" /\ now < g.deadline
      /\ i \in Fetched => i \notin DOMAIN tracked
      /\ i \notin Fetched =>
            /\ i \in DOMAIN tracked /\ tracked[i].validation \in {"Unavailable", "Invalid"}
  BY <1>1, OldLieSeen
<1>4. i \in all \ evicted
  BY <1>3 DEF Evicted
<1>5. \/ entries[i].validation = "Unavailable" /\ i \in ToValidate
      \/ entries[i].validation = "Invalid"
  <2>1. CASE i \in Fetched
    BY <1>3, <2>1 DEF ToValidate, NewEntry
  <2>2. CASE i \notin Fetched
    BY <1>3, <2>2 DEF ToValidate
  <2> QED
    BY <2>1, <2>2
<1> HIDE DEF entries
<1>6. next(i).flag = "challenge"
  <2>0. PICK b : b = (i \in ToValidate)
    BY Zenon
  <2>1. PICK e : e = entries[i]
    OBVIOUS
  <2>2. next(i) = SyncedEntry(g, e, b)
    BY <2>0, <2>1, Zenon
  <2>3. ValidationAfter(g, e, b) = "Invalid"
    BY <1>3, <1>5, <2>0, <2>1 DEF ValidationAfter, Validate
  <2>4. FlagInProgress(g, "Invalid") = "challenge"
    BY <1>3 DEF FlagInProgress
  <2>5. SyncedEntry(g, e, b).flag = "challenge"
    BY <1>3, <2>3, <2>4 DEF SyncedEntry
  <2> QED
    BY <2>2, <2>5
<1> HIDE DEF next
<1>7. tracked'[i] = next(i) /\ i \in DOMAIN synced
  BY <1>2, <1>4
<1> QED
  BY <1>2, <1>6, <1>7
-----------------------------------------------------------------------------
(* The handlers of a clean cycle: an old lie leaves the list by being      *)
(* challenged, for nothing else can happen to it.                          *)

LEMMA OldLieCanBeChallenged ==
    ASSUME Protectable, PacedInv, NEW i \in Indices, OldLie(i)
    PROVE  /\ ChallengePreflight(games[i]) /\ ~GameOver(games[i])
           /\ IsAllowedChallenger(Self) /\ games[i].proposal = "Unchallenged"
<1>0. /\ ChainInv /\ WatchedGames /\ Steady /\ now \in Nat /\ games[i] \in Game
      /\ GameInv(games[i]) /\ MaxChallengeDuration \in Nat /\ MaxChallengeDuration > 1
  <2>1. ChainInv /\ WatchedGames /\ Steady
    BY DEF PacedInv, ChallengerInv
  <2> QED
    BY <2>1, GamesTyped, GameAssumption DEF Protectable
<1>1. /\ games[i].proposal = "Unchallenged" /\ games[i].status = "IN_PROGRESS"
      /\ games[i].prover = NoAddress /\ games[i].createdAt \in Nat
      /\ games[i].deadline = games[i].createdAt + MaxChallengeDuration
      /\ now <= games[i].createdAt + 1
  BY <1>0 DEF OldLie, WatchedGames, Eligible, LieOK, GameInv, RolesOK, Game
<1>2. now < games[i].deadline /\ ~(games[i].deadline < now)
  BY <1>0, <1>1
<1>3. IsAllowedChallenger(Self)
  BY <1>0 DEF Steady, Protectable, IsAllowedChallenger
<1> QED
  BY <1>1, <1>2, <1>3 DEF ChallengePreflight, GameOver

(* What becomes of the item that has its turn.                             *)
LEMMA SendCurrent ==
    ASSUME PacedInv, NEW i \in todo, NEW j \in DOMAIN tracked, Send(i, j)
    PROVE  CacheCurrent' /\ UNCHANGED <<vars, config, pinned, tracked, todo>>
<1>1. /\ awaiting' = [kind |-> Handler(i), index |-> j] /\ Target(i, j)
      /\ UNCHANGED <<vars, config, pinned, cursor, tracked, pendingDiscoveries, todo>>
  BY DEF Send
<1>2. j = i /\ Handler(i) = tracked[i].flag
  BY <1>1, ListIsCached DEF Target
<1>3. awaiting'.index \in todo' /\ awaiting'.kind = tracked'[awaiting'.index].flag
  BY <1>1, <1>2
<1>4. \A k \in Indices : games'[k].claim = games[k].claim
  BY <1>1 DEF vars
<1> QED
  BY <1>1, <1>3, <1>4, CacheKept

LEMMA SkipCurrent ==
    ASSUME PacedInv, NEW i, Skip(i)
    PROVE  CacheCurrent' /\ todo' = todo \ {i} /\ UNCHANGED <<vars, config, pinned, tracked>>
<1>1. /\ awaiting = NoTx /\ todo' = todo \ {i}
      /\ UNCHANGED <<vars, config, pinned, cursor, tracked, pendingDiscoveries, awaiting>>
  BY DEF Skip, Turn
<1>2. \A k \in Indices : games'[k].claim = games[k].claim
  BY <1>1 DEF vars
<1> QED
  BY <1>1, <1>2, CacheKept

LEMMA GiveUpCurrent ==
    ASSUME PacedInv, GiveUp
    PROVE  /\ CacheCurrent' /\ UNCHANGED <<vars, config, pinned, tracked>>
           /\ awaiting.index \in todo /\ awaiting.kind = tracked[awaiting.index].flag
           /\ todo' = todo \ {awaiting.index}
<1>1. /\ awaiting # NoTx /\ awaiting' = NoTx /\ TurnDone
      /\ UNCHANGED <<vars, config, pinned, cursor, tracked, pendingDiscoveries>>
  BY DEF GiveUp
<1>2. awaiting.index \in todo /\ awaiting.kind = tracked[awaiting.index].flag
  BY <1>1 DEF PacedInv, CacheCurrent
<1>3. \A k \in Indices : games'[k].claim = games[k].claim
  BY <1>1 DEF vars
<1>4. CacheCurrent'
  BY <1>1, <1>3, CacheKept
<1>5. awaiting.kind # "malice"
  <2>1. awaiting.index \in DOMAIN tracked /\ tracked \in [DOMAIN tracked -> Entry]
    BY <1>2, ListIsCached DEF PacedInv, ChallengerInv, MemoryOK
  <2>2. tracked[awaiting.index].flag \in {"none", "challenge", "resolve", "close", "claim"}
    BY <2>1 DEF Entry
  <2> QED
    BY <1>2, <2>2
<1> QED
  BY <1>1, <1>2, <1>4, <1>5 DEF TurnDone

(* The awaited transaction is included: what was to be challenged is.      *)
LEMMA IncludedCurrent ==
    ASSUME Protectable, PacedInv, Included
    PROVE  /\ Undisturbed /\ CacheCurrent'
           /\ \A k \in todo : tracked[k].flag = "challenge" =>
                 \/ k \in todo' /\ tracked'[k].flag = "challenge"
                 \/ ~OldLie(k)'
<1>0. ChallengerInv /\ ChainInv /\ GamesOwned /\ MemoryOK
  BY DEF PacedInv, ChallengerInv
<1>1. /\ awaiting # NoTx /\ Execute(awaiting) /\ awaiting' = NoTx /\ TurnDone
      /\ tracked' = IF awaiting.kind \in {"challenge", "malice"}
                    THEN [tracked EXCEPT ![awaiting.index].flag = "none"] ELSE tracked
      /\ UNCHANGED <<config, pinned, cursor, pendingDiscoveries>>
  BY DEF Included
<1>2. PICK tx : tx = awaiting
  OBVIOUS
<1>3. /\ tx.index \in todo /\ tx.kind = tracked[tx.index].flag /\ tx.index \in DOMAIN tracked
      /\ tx.index \in Indices
  BY <1>1, <1>2, ListIsCached DEF PacedInv, CacheCurrent
<1>4. tx.kind \in {"none", "challenge", "resolve", "close", "claim"}
  BY <1>0, <1>3 DEF MemoryOK, Entry
<1>5. [Next]_vars /\ UNCHANGED <<now, challengers>>
  <2>1. [Next]_vars
    BY <1>0, <1>1, <1>2, <1>3, ExecuteKinds
  <2>2. UNCHANGED <<now, challengers>>
    BY <1>1 DEF Execute, Challenge, Resolve, CloseGame, ClaimCredit, accessVars, vars
  <2> QED
    BY <2>1, <2>2
<1>6. Undisturbed
  BY <1>1, <1>5, QuietStep
<1>7. /\ DOMAIN tracked' = DOMAIN tracked
      /\ \A k \in DOMAIN tracked : tracked'[k].validation = tracked[k].validation
      /\ \A k \in DOMAIN tracked : k # tx.index => tracked'[k] = tracked[k]
  <2>1. CASE tracked' = tracked
    BY <2>1
  <2>2. CASE tracked' = [tracked EXCEPT ![tx.index].flag = "none"]
    <3>1. PICK j : j = tx.index
      OBVIOUS
    <3>2. tracked' = [tracked EXCEPT ![j].flag = "none"]
      BY <2>2, <3>1
    <3>3. tracked \in [DOMAIN tracked -> Entry]
      BY <1>0 DEF MemoryOK
    <3>4. \A k \in DOMAIN tracked : k # j => tracked'[k] = tracked[k]
      BY <3>2, <3>3
    <3> QED
      BY <1>0, <3>1, <3>2, <3>4, FlagCleared
  <2> QED
    BY <1>1, <1>2, <2>1, <2>2
<1>8. CacheCurrent'
  BY <1>1, <1>6, <1>7, CacheKept DEF Undisturbed
<1>9. todo' = todo \ {tx.index}
  BY <1>1, <1>2, <1>4 DEF TurnDone
<1>10. ASSUME NEW k \in todo, tracked[k].flag = "challenge"
       PROVE  \/ k \in todo' /\ tracked'[k].flag = "challenge"
              \/ ~OldLie(k)'
  <2>1. CASE k # tx.index
    BY <1>7, <1>9, <1>10, <2>1, ListIsCached
  <2>2. CASE k = tx.index
    <3>1. tx.kind = "challenge"
      BY <1>3, <1>10, <2>2
    <3>2. games' = [games EXCEPT ![k] = Challenged(games[k], Self)]
      BY <1>1, <1>2, <2>2, <3>1 DEF Execute, Challenge
    <3>3. games[k] \in Game /\ k \in Indices /\ games \in Seq(Game)
      BY <1>0, <1>3, <2>2, GamesTyped
    <3>4. games'[k] = Challenged(games[k], Self)
      BY <3>2, <3>3 DEF Indices
    <3>5. Challenged(games[k], Self).proposal = "Challenged"
      BY <3>3 DEF Challenged, Game
    <3> QED
      BY <3>4, <3>5 DEF OldLie
  <2> QED
    BY <2>1, <2>2
<1> QED
  BY <1>6, <1>8, <1>10
-----------------------------------------------------------------------------
(* Every step of the paced system.                                         *)

PacedRest ==
    /\ CreationOrdered /\ Steady /\ WatchedGames /\ PinnedCurrent /\ CacheCurrent /\ CleanOK

(* A step that changes neither the chain nor the confirmed block.          *)
LEMMA StillStep ==
    ASSUME Protectable, PacedInv, UNCHANGED <<vars, config, pinned>>
    PROVE  Undisturbed
<1>1. [Next]_vars /\ UNCHANGED <<now, challengers, config, pinned>>
  BY DEF vars
<1> QED
  BY <1>1, QuietStep

LEMMA PacedCycle ==
    ASSUME Protectable, PacedInv, Cycle,
           clean' = (\/ CleanSync
                     \/ /\ clean /\ todo # {} /\ ~TimedOut
                        /\ \A i \in todo \ {MaliceTurn} :
                             Skip(i) => ~Preflight([kind |-> Handler(i), index |-> i]))
    PROVE  PacedRest'
<1>0. CleanOK /\ ~Malicious /\ SubmitEnabled /\ MaliceTurn \notin todo
  BY ListIsCached DEF PacedInv
<1>1. ASSUME NEW f, NEW s, NEW a, SyncState(f, s, a) PROVE Undisturbed /\ CacheCurrent'
  <2>1. UNCHANGED <<vars, config, pinned>>
    BY <1>1 DEF SyncState
  <2> QED
    BY <1>1, <2>1, StillStep, SyncCurrent
<1>2. ASSUME NEW f, SyncAborted(f) PROVE Undisturbed /\ CacheCurrent'
  <2>1. UNCHANGED <<vars, config, pinned>>
    BY <1>2 DEF SyncAborted
  <2> QED
    BY <1>2, <2>1, StillStep, AbortedCurrent
<1>3. ASSUME NEW i \in todo, NEW j \in DOMAIN tracked, Send(i, j)
      PROVE  Undisturbed /\ CacheCurrent' /\ UNCHANGED <<tracked, todo>>
  BY <1>3, SendCurrent, StillStep
<1>4. ASSUME NEW i, NEW j, LogChallenge(i, j) PROVE FALSE
  BY <1>0, <1>4 DEF LogChallenge
<1>5. ASSUME NEW i \in todo, Skip(i)
      PROVE  Undisturbed /\ CacheCurrent' /\ todo' = todo \ {i} /\ tracked' = tracked
  BY <1>5, SkipCurrent, StillStep
<1>6. ASSUME Reverted \/ TimedOut
      PROVE  /\ Undisturbed /\ CacheCurrent' /\ tracked' = tracked
             /\ awaiting.index \in todo /\ awaiting.kind = tracked[awaiting.index].flag
             /\ todo' = todo \ {awaiting.index}
  BY <1>6, GiveUpCurrent, StillStep DEF Reverted, TimedOut
<1>7. Undisturbed /\ CacheCurrent'
  BY <1>1, <1>2, <1>3, <1>4, <1>5, <1>6, IncludedCurrent DEF Cycle
<1>8. CASE CleanSync
  <2>1. games' = games /\ now' = now
    BY <1>8 DEF CleanSync, SyncState, vars
  <2>2. \A i \in Indices' : OldLie(i)' => i \in todo' /\ tracked'[i].flag = "challenge"
    BY <1>7, <1>8, CleanSyncLists DEF Undisturbed
  <2>3. CleanOK'
    BY <2>2 DEF CleanOK
  <2> QED
    BY <1>7, <2>3 DEF PacedRest, Undisturbed
<1>9. CASE ~CleanSync
  <2> SUFFICES ASSUME clean', NEW k \in Indices', OldLie(k)'
               PROVE  k \in todo' /\ tracked'[k].flag = "challenge"
    BY <1>7 DEF PacedRest, Undisturbed, CleanOK
  <2>1. /\ clean /\ todo # {} /\ ~TimedOut
        /\ \A i \in todo \ {MaliceTurn} :
              Skip(i) => ~Preflight([kind |-> Handler(i), index |-> i])
    BY <1>9
  <2>2. k \in Indices /\ OldLie(k)
    BY <1>7 DEF Undisturbed
  <2>3. k \in todo /\ tracked[k].flag = "challenge" /\ Handler(k) = "challenge"
    BY <1>0, <2>1, <2>2, ListIsCached DEF CleanOK
  <2>4. /\ ChallengePreflight(games[k]) /\ ~GameOver(games[k])
        /\ IsAllowedChallenger(Self) /\ games[k].proposal = "Unchallenged"
    BY <2>2, OldLieCanBeChallenged
  <2>5. ASSUME NEW i \in todo, NEW j \in DOMAIN tracked, Send(i, j)
        PROVE  k \in todo' /\ tracked'[k].flag = "challenge"
    BY <1>3, <2>3, <2>5
  <2>6. ASSUME NEW i \in todo, Skip(i) PROVE k \in todo' /\ tracked'[k].flag = "challenge"
    <3>1. Preflight([kind |-> "challenge", index |-> k])
      BY <2>4 DEF Preflight
    <3>2. k # i
      BY <1>0, <2>1, <2>3, <2>6, <3>1
    <3> QED
      BY <1>5, <2>3, <2>6, <3>2
  <2>7. ASSUME Reverted PROVE k \in todo' /\ tracked'[k].flag = "challenge"
    <3>1. awaiting.index = k => Accepted(awaiting)
      BY <1>6, <2>3, <2>4, <2>7 DEF Accepted
    <3>2. awaiting.index # k
      BY <2>7, <3>1 DEF Reverted
    <3> QED
      BY <1>6, <2>3, <2>7, <3>2
  <2>8. ASSUME Included PROVE k \in todo' /\ tracked'[k].flag = "challenge"
    BY <2>3, <2>8, IncludedCurrent
  <2>9. ASSUME NEW f, NEW s, NEW a, SyncState(f, s, a) PROVE FALSE
    BY <2>1, <2>9 DEF SyncState
  <2>10. ASSUME NEW f, SyncAborted(f) PROVE FALSE
    BY <2>1, <2>10 DEF SyncAborted
  <2> QED
    BY <1>4, <2>1, <2>5, <2>6, <2>7, <2>8, <2>9, <2>10 DEF Cycle
<1> QED
  BY <1>8, <1>9

(* The memory of the agent does not change.                                *)
LEMMA IdleStep ==
    ASSUME PacedInv, Undisturbed, UNCHANGED memory, clean' \in {clean, FALSE}
    PROVE  PacedRest'
<1>0. CacheCurrent /\ CleanOK
  BY DEF PacedInv
<1>1. UNCHANGED <<cursor, tracked, pendingDiscoveries, todo, awaiting>>
  BY DEF memory
<1>2. CacheCurrent'
  BY <1>0, <1>1, CacheKept DEF Undisturbed, CacheCurrent
<1>3. CleanOK'
  BY <1>0, <1>1 DEF Undisturbed, CleanOK
<1> QED
  BY <1>2, <1>3 DEF PacedRest, Undisturbed

LEMMA PacedWorld ==
    ASSUME Protectable, PacedInv, World, clean' = clean
    PROVE  PacedRest'
<1>1. ChainInv /\ GamesOwned
  BY DEF PacedInv, ChallengerInv
<1>2. [Next]_vars
  BY <1>1, WorldKinds
<1>3. UNCHANGED challengerVars
  BY DEF World
<1>4. UNCHANGED <<now, challengers>>
  BY DEF World, RegistryStep, Create, CreateOther, ResolveOther, Challenge, Prove, Resolve,
     CloseGame, ClaimCredit, accessVars
<1>5. UNCHANGED <<config, pinned>> /\ UNCHANGED memory
  BY <1>3 DEF challengerVars
<1> QED
  BY <1>2, <1>4, <1>5, QuietStep, IdleStep

(* The confirmed block moves: it shows the head as it is.                  *)
LEMMA PacedConfirm ==
    ASSUME Protectable, PacedInv, Confirm, clean' = clean
    PROVE  PacedRest'
<1>0. CreationOrdered /\ Steady /\ WatchedGames /\ CacheCurrent /\ CleanOK /\ now \in Nat
      /\ PinnedCurrent
  BY GamesTyped DEF PacedInv, ChallengerInv
<1>1. /\ pinned' = [games |-> games, now |-> now]
      /\ UNCHANGED <<games, now, challengers, respectedGameType, config>>
      /\ UNCHANGED <<cursor, tracked, pendingDiscoveries, todo, awaiting>>
  BY DEF Confirm, vars, registryVars, memory
<1>2. pinned'.now = now /\ pinned'.games = games /\ Indices' = Indices /\ PinnedIndices' = Indices
  BY <1>1 DEF Indices, PinnedIndices
<1>3. PinnedCurrent'
  BY <1>0, <1>1, <1>2 DEF PinnedCurrent
<1>4. WatchedGames' /\ CreationOrdered' /\ Steady'
  BY <1>0, <1>1, <1>2 DEF WatchedGames, CreationOrdered, Steady, Eligible, LieOK, FirstLie
<1>5. CacheCurrent' /\ CleanOK'
  BY <1>0, <1>1, <1>2 DEF CacheCurrent, CleanOK, OldLie, FirstLie
<1> QED
  BY <1>3, <1>4, <1>5 DEF PacedRest

LEMMA PacedRestart ==
    ASSUME Protectable, PacedInv, Restart, clean' = FALSE
    PROVE  PacedRest'
<1>1. /\ UNCHANGED <<vars, config, pinned>>
      /\ tracked' = << >> /\ pendingDiscoveries' = {} /\ awaiting' = NoTx
  BY DEF Restart
<1>2. Undisturbed
  BY <1>1, StillStep
<1>3. CacheCurrent' /\ CleanOK'
  <2>1. DOMAIN tracked' = {}
    BY <1>1
  <2> QED
    BY <1>1, <2>1 DEF CacheCurrent, CleanOK
<1> QED
  BY <1>2, <1>3 DEF PacedRest, Undisturbed

(* The clock only moves on after a clean cycle, when no old lie is open.   *)
LEMMA PacedClock ==
    ASSUME Protectable, PacedInv, Clock, clean, todo = {}, clean' = FALSE
    PROVE  PacedRest'
<1>0. /\ ChainInv /\ CreationOrdered /\ Steady /\ WatchedGames /\ CacheCurrent /\ CleanOK
      /\ PinnedCurrent
  BY DEF PacedInv, ChallengerInv
<1>1. /\ now \in Nat /\ now' = now + 1
      /\ UNCHANGED <<games, challengers, respectedGameType, config, pinned>>
      /\ UNCHANGED <<cursor, tracked, pendingDiscoveries, todo, awaiting>>
  BY <1>0, GamesTyped DEF Clock, PassTime, Tick, accessVars, registryVars, challengerVars, memory
<1>2. Indices' = Indices /\ PinnedIndices' = PinnedIndices
      /\ \A i \in Indices : games[i].createdAt \in Nat /\ games[i].createdAt <= now
  BY <1>0, <1>1, GamesTyped DEF Indices, PinnedIndices, CreationOrdered, Game
<1>3. PinnedCurrent' /\ CreationOrdered' /\ Steady' /\ CacheCurrent' /\ CleanOK'
  <2>1. PinnedCurrent'
    BY <1>0, <1>1, <1>2 DEF PinnedCurrent
  <2>2. CreationOrdered'
    BY <1>0, <1>1, <1>2 DEF CreationOrdered
  <2>3. Steady' /\ CacheCurrent' /\ CleanOK'
    BY <1>0, <1>1, <1>2 DEF Steady, CacheCurrent, CleanOK
  <2> QED
    BY <2>1, <2>2, <2>3
<1>4. \A i \in Indices : ~OldLie(i)
  BY <1>0 DEF CleanOK
<1>5. ASSUME NEW i \in Indices PROVE Eligible(games[i])' /\ LieOK(games[i])'
  <2>1. Eligible(games[i]) /\ LieOK(games[i])
    BY <1>0 DEF WatchedGames
  <2>2. FirstLie(games[i]) /\ games[i].proposal = "Unchallenged" => games[i].createdAt = now
    BY <1>1, <1>2, <1>4 DEF OldLie
  <2> QED
    BY <1>1, <2>1, <2>2 DEF Eligible, LieOK, FirstLie
<1>6. WatchedGames'
  BY <1>2, <1>5 DEF WatchedGames
<1> QED
  BY <1>3, <1>6 DEF PacedRest

LEMMA PacedStep ==
    ASSUME Protectable, PacedInv, [PacedNext]_pacedVars
    PROVE  PacedInv'
<1>1. [ChallengerNext]_allVars
  BY DEF PacedNext, ChallengerNext, pacedVars
<1>2. ChallengerInv'
  BY <1>1, ChallengerStep DEF PacedInv
<1>3. PacedRest'
  <2>1. CASE UNCHANGED pacedVars
    <3>1. UNCHANGED <<vars, config, pinned>> /\ UNCHANGED memory /\ clean' = clean
      BY <2>1 DEF pacedVars, allVars, challengerVars
    <3> QED
      BY <3>1, StillStep, IdleStep
  <2> QED
    BY <2>1, PacedClock, PacedWorld, PacedConfirm, PacedCycle, PacedRestart DEF PacedNext
<1> QED
  BY <1>2, <1>3 DEF PacedInv, PacedRest

LEMMA PacedStart ==
    ASSUME Protectable, PacedInit
    PROVE  PacedInv
<1>0. /\ ChallengerInit /\ clean = FALSE /\ games = << >> /\ now = 1
      /\ respectedGameType = "succinct" /\ challengers = InitChallengers /\ config \in Modes
      /\ pinned = [games |-> games, now |-> now] /\ tracked = << >> /\ pendingDiscoveries = {}
      /\ awaiting = NoTx
  BY DEF PacedInit, ChallengerInit, Init, FactoryInit, AccessInit, RegistryInit
<1>1. ChallengerInv
  BY <1>0, ChallengerInitInv
<1>2. Indices = {} /\ PinnedIndices = {} /\ DOMAIN tracked = {}
  BY <1>0 DEF Indices, PinnedIndices
<1>3. CreationOrdered /\ WatchedGames /\ PinnedCurrent
  BY <1>0, <1>2 DEF CreationOrdered, WatchedGames, PinnedCurrent
<1>4. Steady /\ CacheCurrent /\ CleanOK
  BY <1>0, <1>2 DEF Steady, CacheCurrent, CleanOK, Protectable
<1> QED
  BY <1>1, <1>3, <1>4 DEF PacedInv

(* One challenger that completes a clean cycle between two ticks keeps the *)
(* anchor canonical and every first lie from winning, for any number of    *)
(* games, proposers and failed cycles, and whatever is built on top of     *)
(* lies: the cache of challenger.rs drops, defers and misjudges none that  *)
(* can still be challenged.                                                *)
THEOREM OneChallengerProtects ==
    ASSUME Protectable
    PROVE  PacedSpec => []AnchorIsProtected
<1>1. ASSUME PacedInv PROVE AnchorIsProtected
  <2>0. ChainInv /\ WatchedGames
    BY <1>1 DEF PacedInv, ChallengerInv
  <2>1. \A i \in Succinct : FirstLie(games[i]) => games[i].status # "DEFENDER_WINS"
    BY <2>0 DEF WatchedGames, LieOK, Succinct
  <2>2. NoLieWon
    BY <2>0 DEF NoLieWon, WatchedGames, LieOK, Eligible
  <2>3. AnchorRoot = "canonical"
    BY <2>0, <2>2 DEF ChainInv, BondInv, TypeOK, AnchorRoot, AnchorOK, CanonicalOK
  <2> QED
    BY <2>1, <2>3 DEF AnchorIsProtected
<1>2. PacedInit => PacedInv
  BY PacedStart
<1>3. PacedInv /\ [PacedNext]_pacedVars => PacedInv'
  BY PacedStep
<1> QED
  BY <1>1, <1>2, <1>3, PTL DEF PacedSpec
=============================================================================
