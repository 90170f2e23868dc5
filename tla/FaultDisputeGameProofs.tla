----------------------- MODULE FaultDisputeGameProofs -----------------------
(***************************************************************************)
(* Proofs about FaultDisputeGame for any set of accounts, any bonds,       *)
(* durations and delays, and any number of games: first what one game      *)
(* holds and owes, then the chains the games form, that is who may win on  *)
(* whose back, where the anchor can go, and that the contracts implement   *)
(* ProposalTree.                                                           *)
(***************************************************************************)
EXTENDS FaultDisputeGame, NaturalSets, SequenceTheorems, TLAPS

(* How the proposal status, the roles and the verdict of a game hang       *)
(* together.                                                               *)
RolesOK(g) ==
    /\ g.proposal = "Unchallenged" => g.counteredBy = NoAddress /\ g.prover = NoAddress
    /\ g.proposal = "Challenged" => g.counteredBy # NoAddress /\ g.prover = NoAddress
    /\ g.proposal = "UnchallengedAndValidProofProvided" => g.counteredBy = NoAddress
    /\ g.proposal = "ChallengedAndValidProofProvided" =>
          g.counteredBy # NoAddress /\ g.prover # NoAddress
    /\ g.proposal \in {"Unchallenged", "Challenged"} => g.status = "IN_PROGRESS"
    /\ g.proposal = "Resolved" => g.status # "IN_PROGRESS"

(* What a game holds and owes, at every stage.                             *)
BondsOK(g) ==
    /\ g.status = "IN_PROGRESS" =>
          g.mode = "UNDECIDED" /\ \A a \in Addresses : g.normal[a] = 0
    /\ g.mode = "UNDECIDED" =>
          /\ g.balance = InitBond + (IF g.counteredBy = NoAddress THEN 0 ELSE ChallengerBond)
          /\ \A a \in Addresses : g.refund[a] = Deposit(g, a)
    /\ g.mode = "REFUND" => \A a \in Addresses : g.refund[a] \in {0, Deposit(g, a)}
    /\ g.mode # "NORMAL" => Owes(g.refund, g.balance)
    /\ g.mode # "REFUND" /\ g.status # "IN_PROGRESS" => Owes(g.normal, g.balance)

GameInv(g) == g.gameType = "succinct" => RolesOK(g) /\ BondsOK(g)

(* The inductive invariant.  TypeOK alone is not inductive: that balance   *)
(* stays a natural number when a credit is paid needs BondsOK, and BondsOK *)
(* needs RolesOK to know whose bonds a game holds.                         *)
BondInv == TypeOK /\ \A i \in Indices : GameInv(games[i])
-----------------------------------------------------------------------------
(* Paying a creditor keeps the rest owed.                                  *)
LEMMA PayingKeepsOwed ==
    ASSUME NEW f \in [Addresses -> Nat], NEW b \in Nat, NEW c \in Addresses, Owes(f, b)
    PROVE  /\ f[c] <= b
           /\ Owes([f EXCEPT ![c] = 0], b - f[c])
<1>1. PICK x, y \in Addresses :
          /\ x # y
          /\ f[x] + f[y] = b
          /\ \A z \in Addresses \ {x, y} : f[z] = 0
  BY DEF Owes
<1> DEFINE h == [f EXCEPT ![c] = 0]
<1>2. /\ f[x] \in Nat /\ f[y] \in Nat /\ f[c] \in Nat
      /\ \A z \in Addresses : h[z] = IF z = c THEN 0 ELSE f[z]
  OBVIOUS
<1> HIDE DEF h
<1>3. f[c] <= b
  BY <1>1, <1>2
<1>4. h[x] + h[y] = b - f[c]
  <2>1. CASE c = x
    BY <1>1, <1>2, <2>1
  <2>2. CASE c = y
    BY <1>1, <1>2, <2>2
  <2>3. CASE c # x /\ c # y
    BY <1>1, <1>2, <2>3
  <2> QED
    BY <2>1, <2>2, <2>3
<1>5. \A z \in Addresses \ {x, y} : h[z] = 0
  BY <1>1, <1>2
<1>6. Owes(h, b - f[c])
  BY <1>1, <1>4, <1>5 DEF Owes
<1> QED
  BY <1>3, <1>6 DEF h

(* A mapping that credits one address with everything owes the balance.    *)
LEMMA OneCreditor ==
    ASSUME NEW f, NEW b \in Nat, NEW c \in Addresses, NEW d \in Addresses, c # d,
           f[c] = b, \A z \in Addresses \ {c} : f[z] = 0
    PROVE  Owes(f, b)
<1>1. f[c] + f[d] = b
  OBVIOUS
<1> QED
  BY <1>1 DEF Owes

LEMMA ChallengedKeeps ==
    ASSUME NEW g \in Game, NEW a \in Actors, now \in Nat,
           g.gameType = "succinct", g.proposal = "Unchallenged", GameInv(g)
    PROVE  Challenged(g, a) \in Game /\ GameInv(Challenged(g, a))
<1> DEFINE h == Challenged(g, a)
<1>0. a \in Addresses /\ a # NoAddress /\ g.creator \in Addresses /\ g.creator # NoAddress
      /\ NoAddress \in Addresses
  BY FactoryAssumption DEF Game, Addresses
<1>1. /\ RolesOK(g) /\ BondsOK(g)
      /\ g.status = "IN_PROGRESS" /\ g.mode = "UNDECIDED" /\ g.counteredBy = NoAddress
      /\ g.prover = NoAddress
      /\ g.balance = InitBond
  BY FactoryAssumption DEF GameInv, RolesOK, BondsOK
<1>2. h \in Game
  <2>1. /\ [g.refund EXCEPT ![a] = g.refund[a] + ChallengerBond] \in [Addresses -> Nat]
        /\ g.balance + ChallengerBond \in Nat
        /\ now + MaxProveDuration \in Nat
    BY <1>0, FactoryAssumption, GameAssumption DEF Game
  <2>2. "Challenged" \in ProposalStatuses
    BY DEF ProposalStatuses
  <2> HIDE DEF h
  <2>3. h = Challenged(g, a)
    BY DEF h
  <2> QED
    BY ONLY <1>0, <2>1, <2>2, <2>3, g \in Game DEF Challenged, Game
<1>3. /\ h.gameType = "succinct" /\ h.status = "IN_PROGRESS" /\ h.mode = "UNDECIDED"
      /\ h.counteredBy = a /\ h.prover = NoAddress /\ h.proposal = "Challenged"
      /\ h.balance = InitBond + ChallengerBond /\ h.creator = g.creator /\ h.normal = g.normal
      /\ h.refund = [g.refund EXCEPT ![a] = g.refund[a] + ChallengerBond]
  BY <1>1 DEF Challenged, Game
<1> HIDE DEF h
<1>4. RolesOK(h)
  BY <1>0, <1>3 DEF RolesOK
<1>5. \A b \in Addresses : h.refund[b] = Deposit(h, b)
  <2>1. SUFFICES ASSUME NEW b \in Addresses PROVE h.refund[b] = Deposit(h, b)
    OBVIOUS
  <2>2. g.refund[b] = Deposit(g, b) /\ g.refund \in [Addresses -> Nat]
    BY <1>1 DEF BondsOK, Game
  <2>3. h.refund[b] = IF b = a THEN g.refund[a] + ChallengerBond ELSE g.refund[b]
    BY <1>0, <1>3, <2>2
  <2> QED
    BY <1>0, <1>1, <1>3, <2>2, <2>3, FactoryAssumption DEF Deposit
<1>6. Owes(h.refund, h.balance)
  <2>1. CASE a = g.creator
    <3>1. h.refund[a] = h.balance /\ \A z \in Addresses \ {a} : h.refund[z] = 0
      BY <1>0, <1>3, <1>5, <2>1, FactoryAssumption DEF Deposit
    <3> QED
      BY <1>0, <1>2, <3>1, OneCreditor DEF Game
  <2>2. CASE a # g.creator
    <3>1. h.refund[a] = ChallengerBond /\ h.refund[g.creator] = InitBond
      BY <1>0, <1>3, <1>5, <2>2, FactoryAssumption DEF Deposit
    <3>2. \A z \in Addresses \ {g.creator, a} : h.refund[z] = 0
      BY <1>0, <1>3, <1>5, <2>2, FactoryAssumption DEF Deposit
    <3> QED
      BY <1>0, <1>3, <2>2, <3>1, <3>2, FactoryAssumption DEF Owes
  <2> QED
    BY <2>1, <2>2
<1>7. BondsOK(h)
  BY <1>0, <1>1, <1>3, <1>5, <1>6 DEF BondsOK
<1> QED
  BY <1>2, <1>4, <1>7 DEF GameInv, h
LEMMA ProvedKeeps ==
    ASSUME NEW g \in Game, NEW a \in Actors,
           g.gameType = "succinct", g.prover = NoAddress, GameInv(g)
    PROVE  Proved(g, a) \in Game /\ GameInv(Proved(g, a))
<1> DEFINE h == Proved(g, a)
<1>0. a \in Addresses /\ a # NoAddress
  BY FactoryAssumption DEF Addresses
<1>1. h \in Game
  <2>1. {"UnchallengedAndValidProofProvided", "ChallengedAndValidProofProvided"}
            \subseteq ProposalStatuses
    BY DEF ProposalStatuses
  <2> QED
    BY <1>0, <2>1 DEF Proved, Game
<1>2. /\ h.gameType = "succinct" /\ h.status = g.status /\ h.mode = g.mode
      /\ h.counteredBy = g.counteredBy /\ h.prover = a /\ h.creator = g.creator
      /\ h.balance = g.balance /\ h.refund = g.refund /\ h.normal = g.normal
      /\ h.proposal = IF g.counteredBy = NoAddress THEN "UnchallengedAndValidProofProvided"
                      ELSE "ChallengedAndValidProofProvided"
  BY DEF Proved, Game
<1> HIDE DEF h
<1>3. RolesOK(h)
  BY <1>0, <1>2 DEF RolesOK
<1>4. BondsOK(h)
  BY <1>2 DEF BondsOK, GameInv, Deposit
<1> QED
  BY <1>1, <1>3, <1>4 DEF GameInv, h

(* resolve credits the whole balance, to one address or to two.            *)
LEMMA NormalCreditOwes ==
    ASSUME NEW g \in Game, g.gameType = "succinct", g.status = "IN_PROGRESS", GameInv(g)
    PROVE  NormalCredit(g) \in [Addresses -> Nat] /\ Owes(NormalCredit(g), g.balance)
<1> DEFINE n == NormalCredit(g)
<1>0. /\ g.creator \in Addresses /\ g.creator # NoAddress /\ NoAddress \in Addresses
      /\ g.counteredBy \in Addresses /\ g.prover \in Addresses
      /\ g.balance \in Nat /\ g.normal \in [Addresses -> Nat]
  BY FactoryAssumption DEF Game, Addresses
<1>1. /\ RolesOK(g)
      /\ \A a \in Addresses : g.normal[a] = 0
      /\ g.balance = InitBond + (IF g.counteredBy = NoAddress THEN 0 ELSE ChallengerBond)
  BY DEF GameInv, BondsOK
<1>2. CASE Verdict(g) = "CHALLENGER_WINS"
  <2>1. n = [g.normal EXCEPT ![g.counteredBy] = g.balance]
    BY <1>2 DEF NormalCredit
  <2> HIDE DEF n
  <2>2. /\ n \in [Addresses -> Nat]
        /\ n[g.counteredBy] = g.balance
        /\ \A z \in Addresses \ {g.counteredBy} : n[z] = 0
    BY <1>0, <1>1, <2>1
  <2>3. \E d \in Addresses : d # g.counteredBy
    BY <1>0
  <2>4. Owes(n, g.balance)
    BY <1>0, <2>2, <2>3, OneCreditor
  <2> QED
    BY <2>2, <2>4 DEF n
<1>3. CASE /\ Verdict(g) # "CHALLENGER_WINS"
           /\ g.proposal = "ChallengedAndValidProofProvided" /\ g.prover # g.creator
  <2>1. n = [g.normal EXCEPT ![g.prover] = ChallengerBond,
                             ![g.creator] = g.balance - ChallengerBond]
    BY <1>3 DEF NormalCredit
  <2>2. g.balance - ChallengerBond = InitBond
    BY <1>1, <1>3, FactoryAssumption DEF RolesOK
  <2> HIDE DEF n
  <2>3. /\ n \in [Addresses -> Nat]
        /\ n[g.prover] = ChallengerBond /\ n[g.creator] = InitBond
        /\ \A z \in Addresses \ {g.prover, g.creator} : n[z] = 0
    BY <1>0, <1>1, <1>3, <2>1, <2>2, FactoryAssumption
  <2>4. n[g.prover] + n[g.creator] = g.balance
    BY <1>0, <2>2, <2>3, FactoryAssumption
  <2>5. Owes(n, g.balance)
    BY <1>0, <1>3, <2>3, <2>4 DEF Owes
  <2> QED
    BY <2>3, <2>5 DEF n
<1>4. CASE /\ Verdict(g) # "CHALLENGER_WINS"
           /\ ~(g.proposal = "ChallengedAndValidProofProvided" /\ g.prover # g.creator)
  <2>1. n = [g.normal EXCEPT ![g.creator] = g.balance]
    BY <1>4 DEF NormalCredit
  <2> HIDE DEF n
  <2>2. /\ n \in [Addresses -> Nat]
        /\ n[g.creator] = g.balance
        /\ \A z \in Addresses \ {g.creator} : n[z] = 0
    BY <1>0, <1>1, <2>1
  <2>3. Owes(n, g.balance)
    BY <1>0, <2>2, OneCreditor
  <2> QED
    BY <2>2, <2>3 DEF n
<1> QED
  BY <1>2, <1>3, <1>4

LEMMA ResolvedKeeps ==
    ASSUME NEW g \in Game, now \in Nat,
           g.gameType = "succinct", g.status = "IN_PROGRESS", GameInv(g)
    PROVE  Resolved(g) \in Game /\ GameInv(Resolved(g))
<1> DEFINE h == Resolved(g)
           n == NormalCredit(g)
           v == Verdict(g)
<1>1. n \in [Addresses -> Nat] /\ Owes(n, g.balance)
  BY NormalCreditOwes
<1>2. v \in GameStatuses /\ v # "IN_PROGRESS" /\ "Resolved" \in ProposalStatuses
  BY DEF Verdict, GameStatuses, ProposalStatuses
<1>3. h = [g EXCEPT !.status = v, !.normal = n, !.proposal = "Resolved", !.resolvedAt = now]
  BY DEF Resolved
<1> HIDE DEF h, n, v
<1>4. h \in Game
  BY <1>1, <1>2, <1>3 DEF Game
<1>5. /\ h.gameType = "succinct" /\ h.status = v /\ h.mode = g.mode
      /\ h.counteredBy = g.counteredBy /\ h.prover = g.prover /\ h.creator = g.creator
      /\ h.balance = g.balance /\ h.refund = g.refund /\ h.normal = n
      /\ h.proposal = "Resolved"
  BY <1>3 DEF Game
<1>6. RolesOK(h)
  BY <1>2, <1>5 DEF RolesOK
<1>7. BondsOK(h)
  BY <1>1, <1>2, <1>5 DEF BondsOK, GameInv, Deposit
<1> QED
  BY <1>4, <1>6, <1>7 DEF GameInv, h
LEMMA ClosedKeeps ==
    ASSUME NEW g \in Game, NEW m \in {"NORMAL", "REFUND"},
           g.gameType = "succinct", g.status # "IN_PROGRESS", g.mode = "UNDECIDED", GameInv(g)
    PROVE  [g EXCEPT !.mode = m] \in Game /\ GameInv([g EXCEPT !.mode = m])
<1> DEFINE h == [g EXCEPT !.mode = m]
<1>1. h \in Game
  BY DEF Game, BondDistributionModes
<1>2. /\ h.gameType = "succinct" /\ h.status = g.status /\ h.mode = m
      /\ h.counteredBy = g.counteredBy /\ h.prover = g.prover /\ h.creator = g.creator
      /\ h.balance = g.balance /\ h.refund = g.refund /\ h.normal = g.normal
      /\ h.proposal = g.proposal
  BY DEF Game
<1> HIDE DEF h
<1>3. RolesOK(h) /\ BondsOK(h)
  BY <1>2 DEF RolesOK, BondsOK, GameInv, Deposit
<1> QED
  BY <1>1, <1>3 DEF GameInv, h

(* claimCredit on a game whose mode is decided, or decided in the call.    *)
LEMMA PaidKeeps ==
    ASSUME NEW g \in Game, NEW m \in {"NORMAL", "REFUND"}, NEW a \in Addresses,
           g.gameType = "succinct", g.status # "IN_PROGRESS", g.mode \in {"UNDECIDED", m},
           GameInv(g)
    PROVE  Paid(g, m, a) \in Game /\ GameInv(Paid(g, m, a))
<1> DEFINE h == Paid(g, m, a)
           r == [g.refund EXCEPT ![a] = 0]
           n == [g.normal EXCEPT ![a] = 0]
           c == Credit(g, m, a)
<1>0. /\ g.refund \in [Addresses -> Nat] /\ g.normal \in [Addresses -> Nat]
      /\ g.balance \in Nat /\ m \in BondDistributionModes
  BY DEF Game, BondDistributionModes
<1>1. /\ c \in Nat /\ c <= g.balance
      /\ m = "REFUND" => Owes(r, g.balance - c)
      /\ m = "NORMAL" => Owes(n, g.balance - c)
  <2>1. CASE m = "REFUND"
    <3>1. Owes(g.refund, g.balance)
      BY <2>1 DEF GameInv, BondsOK
    <3> QED
      BY <1>0, <2>1, <3>1, PayingKeepsOwed DEF Credit
  <2>2. CASE m = "NORMAL"
    <3>1. Owes(g.normal, g.balance)
      BY <2>2 DEF GameInv, BondsOK
    <3> QED
      BY <1>0, <2>2, <3>1, PayingKeepsOwed DEF Credit
  <2> QED
    BY <2>1, <2>2
<1>2. /\ r \in [Addresses -> Nat] /\ n \in [Addresses -> Nat] /\ g.balance - c \in Nat
  BY <1>0, <1>1
<1>3. h = [g EXCEPT !.mode = m, !.refund = r, !.normal = n, !.balance = g.balance - c]
  BY DEF Paid
<1> HIDE DEF h, r, n, c
<1>4. h \in Game
  BY <1>0, <1>2, <1>3 DEF Game
<1>5. /\ h.gameType = "succinct" /\ h.status = g.status /\ h.mode = m
      /\ h.counteredBy = g.counteredBy /\ h.prover = g.prover /\ h.creator = g.creator
      /\ h.balance = g.balance - c /\ h.refund = r /\ h.normal = n
      /\ h.proposal = g.proposal
  BY <1>3 DEF Game
<1>6. RolesOK(h)
  BY <1>5 DEF RolesOK, GameInv
<1>7. m = "REFUND" => \A z \in Addresses : h.refund[z] \in {0, Deposit(h, z)}
  <2>1. SUFFICES ASSUME m = "REFUND", NEW z \in Addresses
                 PROVE  h.refund[z] \in {0, Deposit(h, z)}
    OBVIOUS
  <2>2. g.refund[z] \in {0, Deposit(g, z)} /\ Deposit(h, z) = Deposit(g, z)
    BY <1>5, <2>1 DEF GameInv, BondsOK, Deposit
  <2>3. h.refund[z] = IF z = a THEN 0 ELSE g.refund[z]
    BY <1>0, <1>5 DEF r
  <2> QED
    BY <2>2, <2>3
<1>8. BondsOK(h)
  BY <1>1, <1>5, <1>7 DEF BondsOK
<1> QED
  BY <1>4, <1>6, <1>8 DEF GameInv, h

LEMMA NewGameOK ==
    ASSUME TypeOK, NEW type \in GameTypes, NEW a \in Actors,
           NEW par \in {NoParent} \union Indices, NEW block \in 1..MaxBlock, NEW root \in Roots,
           Len(games) < MaxGames
    PROVE  NewGame(type, a, par, block, root) \in Game
           /\ GameInv(NewGame(type, a, par, block, root))
<1> DEFINE h == NewGame(type, a, par, block, root)
           sb == StartingBlock(par)
           sr == StartingRoot(par)
           rf == [NoCredit EXCEPT ![a] = InitBond]
           rs == IF respectedGameType = type THEN "yes" ELSE "no"
<1>0. /\ a \in Addresses /\ a # NoAddress /\ NoAddress \in Addresses
      /\ Len(games) \in Nat /\ MaxBlock \in Nat /\ MaxGames \in Nat
      /\ \A i \in Indices : games[i] \in Game
  BY FactoryAssumption, ElementOfSeq, LenProperties DEF TypeOK, Addresses, Indices
<1>1. sb \in 0..MaxBlock /\ sr \in Roots
  <2>1. \A i \in Indices : games[i].l2Block \in 1..MaxBlock /\ games[i].claim \in Roots
    BY <1>0 DEF Game
  <2>2. AnchorBlock \in 0..MaxBlock /\ AnchorRoot \in Roots
    BY <1>0, <2>1 DEF AnchorBlock, AnchorRoot, TypeOK, Roots
  <2> QED
    BY <1>0, <2>1, <2>2 DEF StartingBlock, StartingRoot
<1>2. /\ rf \in [Addresses -> Nat] /\ NoCredit \in [Addresses -> Nat]
      /\ rf[a] = InitBond
      /\ \A z \in Addresses \ {a} : rf[z] = 0
      /\ \A z \in Addresses : NoCredit[z] = 0
  BY <1>0, FactoryAssumption DEF NoCredit
<1>3. par \in 0..MaxGames /\ rs \in {"yes", "no"}
  BY <1>0 DEF NoParent, Indices
<1>4. now + MaxChallengeDuration \in Nat /\ now \in Nat
  BY GameAssumption DEF TypeOK
<1>5. h = [ gameType |-> type, parent |-> par, l2Block |-> block, claim |-> root,
            creator |-> a, startBlock |-> sb, startRoot |-> sr, createdAt |-> now,
            wasRespected |-> rs,
            proposal |-> "Unchallenged", counteredBy |-> NoAddress, prover |-> NoAddress,
            deadline |-> now + MaxChallengeDuration,
            status |-> "IN_PROGRESS", resolvedAt |-> 0, mode |-> "UNDECIDED",
            balance |-> InitBond, refund |-> rf, normal |-> NoCredit ]
  BY DEF NewGame
<1> HIDE DEF h, sb, sr, rf, rs
<1>6. h \in Game
  BY <1>0, <1>1, <1>2, <1>3, <1>4, <1>5, FactoryAssumption
  DEF Game, ProposalStatuses, GameStatuses, BondDistributionModes
<1>7. RolesOK(h)
  BY <1>5 DEF RolesOK
<1>8. Owes(rf, InitBond)
  BY <1>0, <1>2, OneCreditor, FactoryAssumption
<1>9. BondsOK(h)
  BY <1>0, <1>2, <1>5, <1>8, FactoryAssumption DEF BondsOK, Deposit
<1> QED
  BY <1>6, <1>7, <1>9 DEF GameInv, h
-----------------------------------------------------------------------------
(* Replacing one game, or appending one, keeps the invariant of the rest.  *)
LEMMA ReplaceGame ==
    ASSUME BondInv, NEW i \in Indices, NEW h \in Game, GameInv(h),
           games' = [games EXCEPT ![i] = h]
    PROVE  /\ games' \in Seq(Game)
           /\ Indices' = Indices
           /\ \A j \in Indices' : GameInv(games'[j])
<1>1. games \in Seq(Game)
  BY DEF BondInv, TypeOK
<1>2. /\ games' \in Seq(Game) /\ Len(games') = Len(games)
      /\ \A j \in 1..Len(games) : games'[j] = IF j = i THEN h ELSE games[j]
  BY <1>1, ExceptSeq DEF Indices
<1> QED
  BY <1>2 DEF BondInv, Indices

LEMMA AppendGame ==
    ASSUME BondInv, NEW h \in Game, GameInv(h), games' = Append(games, h)
    PROVE  /\ games' \in Seq(Game)
           /\ Indices \subseteq Indices'
           /\ \A j \in Indices' : GameInv(games'[j])
<1>1. games \in Seq(Game) /\ Len(games) \in Nat
  BY LenProperties DEF BondInv, TypeOK
<1>2. /\ games' \in Seq(Game) /\ Len(games') = Len(games) + 1
      /\ \A j \in 1..Len(games) : games'[j] = games[j]
      /\ games'[Len(games) + 1] = h
  BY <1>1
<1> QED
  BY <1>1, <1>2 DEF BondInv, Indices

(* The rest of the state keeps its type when no action of its own runs.    *)
LEMMA FrameKeepsType ==
    ASSUME TypeOK, games' \in Seq(Game), Indices \subseteq Indices',
           UNCHANGED <<now, accessVars, registryVars>>
    PROVE  TypeOK'
BY DEF TypeOK, accessVars, registryVars, Addresses

(* A game of another implementation, resolved by it, is still a game.      *)
LEMMA OtherResolvedKeeps ==
    ASSUME NEW g \in Game, NEW v \in GameStatuses \ {"IN_PROGRESS"}, NEW t \in Nat,
           g.gameType = "other"
    PROVE  LET h == [g EXCEPT !.status = v, !.resolvedAt = t]
           IN  h \in Game /\ h.gameType = "other"
BY DEF Game

LEMMA BondInvInit == Init => BondInv
BY FactoryAssumption, AccessAssumption, EmptySeq
DEF Init, FactoryInit, AccessInit, RegistryInit, BondInv, TypeOK, Indices, NoParent, GameTypes

LEMMA BondInvStep == BondInv /\ [Next]_vars => BondInv'
<1> SUFFICES ASSUME BondInv, [Next]_vars PROVE BondInv'
  OBVIOUS
<1>0. /\ TypeOK /\ now \in Nat
      /\ \A i \in Indices : games[i] \in Game /\ GameInv(games[i])
  BY ElementOfSeq DEF BondInv, TypeOK, Indices
<1>1. CASE UNCHANGED vars
  BY <1>1 DEF vars, BondInv, TypeOK, Indices, registryVars
<1>2. CASE PassTime
  BY <1>0, <1>2 DEF PassTime, Tick, accessVars, registryVars, BondInv, TypeOK, Indices
<1>3. CASE OwnerStep
  BY <1>0, <1>3 DEF OwnerStep, SetProposer, SetChallenger, registryVars, BondInv, TypeOK, Indices
<1>4. CASE RegistryStep
  BY <1>0, <1>4 DEF RegistryStep, SetAnchorState, Blacklist, UpdateRetirementTimestamp,
     SetRespectedGameType, SetPaused, accessVars, BondInv, TypeOK, Indices
<1>5. ASSUME NEW a \in Actors, NEW p \in {NoParent} \union Indices,
             NEW b \in 1..MaxBlock, NEW r \in Roots, Create(a, p, b, r)
      PROVE  BondInv'
  <2>1. NewGame("succinct", a, p, b, r) \in Game /\ GameInv(NewGame("succinct", a, p, b, r))
    BY <1>0, <1>5, NewGameOK DEF Create, CreationBound, GameTypes
  <2> QED
    BY <1>0, <1>5, <2>1, AppendGame, FrameKeepsType DEF Create, BondInv
<1>6. ASSUME NEW b \in 1..MaxBlock, NEW r \in Roots, CreateOther(b, r)
      PROVE  BondInv'
  <2> DEFINE a == CHOOSE x \in Actors : TRUE
  <2>1. a \in Actors
    BY FactoryAssumption
  <2>2. NewGame("other", a, NoParent, b, r) \in Game /\ GameInv(NewGame("other", a, NoParent, b, r))
    BY <1>0, <1>6, <2>1, NewGameOK DEF CreateOther, CreationBound, GameTypes
  <2> QED
    BY <1>0, <1>6, <2>2, AppendGame, FrameKeepsType DEF CreateOther, BondInv
<1>7. ASSUME NEW i \in Indices, NEW v \in GameStatuses \ {"IN_PROGRESS"}, ResolveOther(i, v)
      PROVE  BondInv'
  <2> DEFINE h == [games[i] EXCEPT !.status = v, !.resolvedAt = now]
  <2>0. games[i] \in Game /\ now \in Nat /\ games[i].gameType = "other"
    BY <1>0, <1>7 DEF ResolveOther
  <2>1. h \in Game /\ h.gameType = "other"
    BY <2>0, OtherResolvedKeeps
  <2>2. GameInv(h)
    BY <2>1 DEF GameInv
  <2> QED
    BY <1>0, <1>7, <2>1, <2>2, ReplaceGame, FrameKeepsType DEF ResolveOther, BondInv
<1>8. ASSUME NEW i \in Indices, NEW a \in Actors, Challenge(i, a)
      PROVE  BondInv'
  <2>1. Challenged(games[i], a) \in Game /\ GameInv(Challenged(games[i], a))
    BY <1>0, <1>8, ChallengedKeeps DEF Challenge
  <2> QED
    BY <1>0, <1>8, <2>1, ReplaceGame, FrameKeepsType DEF Challenge, BondInv
<1>9. ASSUME NEW i \in Indices, NEW a \in Actors, Prove(i, a)
      PROVE  BondInv'
  <2>1. Proved(games[i], a) \in Game /\ GameInv(Proved(games[i], a))
    BY <1>0, <1>9, ProvedKeeps DEF Prove, GameOver
  <2> QED
    BY <1>0, <1>9, <2>1, ReplaceGame, FrameKeepsType DEF Prove, BondInv
<1>10. ASSUME NEW i \in Indices, Resolve(i)
       PROVE  BondInv'
  <2>1. Resolved(games[i]) \in Game /\ GameInv(Resolved(games[i]))
    BY <1>0, <1>10, ResolvedKeeps DEF Resolve
  <2> QED
    BY <1>0, <1>10, <2>1, ReplaceGame, FrameKeepsType DEF Resolve, BondInv
<1>11. ASSUME NEW i \in Indices, CloseGame(i)
       PROVE  BondInv'
  <2>1. /\ ModeAfterClose(i) \in {"NORMAL", "REFUND"}
        /\ games[i].status # "IN_PROGRESS"
    BY <1>11 DEF CloseGame, ModeAfterClose, CanClose, IsGameFinalized
  <2> DEFINE h == [games[i] EXCEPT !.mode = ModeAfterClose(i)]
  <2>2. h \in Game /\ GameInv(h)
    BY <1>0, <1>11, <2>1, ClosedKeeps DEF CloseGame
  <2>3. games' \in Seq(Game) /\ Indices' = Indices /\ \A j \in Indices' : GameInv(games'[j])
    BY <1>11, <2>2, ReplaceGame DEF CloseGame
  <2>4. anchorGame' \in {NoParent} \union Indices
    BY <1>0, <1>11 DEF CloseGame, AnchorAfterClose, TypeOK
  <2> QED
    BY <1>0, <1>11, <2>3, <2>4 DEF CloseGame, BondInv, TypeOK, accessVars
<1>12. ASSUME NEW i \in Indices, NEW a \in Addresses, ClaimCredit(i, a)
       PROVE  BondInv'
  <2> DEFINE m == ModeAfterClose(i)
  <2>0. games[i].mode \in BondDistributionModes
    BY <1>0 DEF Game
  <2>1. m \in {"NORMAL", "REFUND"} /\ games[i].mode \in {"UNDECIDED", m}
    BY <2>0 DEF ModeAfterClose, BondDistributionModes
  <2>2. games[i].status # "IN_PROGRESS" /\ games[i].gameType = "succinct"
    BY <1>0, <1>12 DEF ClaimCredit, CanClose, IsGameFinalized, GameInv, BondsOK
  <2>3. Paid(games[i], m, a) \in Game /\ GameInv(Paid(games[i], m, a))
    BY <1>0, <2>1, <2>2, PaidKeeps
  <2>4. games' \in Seq(Game) /\ Indices' = Indices /\ \A j \in Indices' : GameInv(games'[j])
    BY <1>12, <2>3, ReplaceGame DEF ClaimCredit
  <2>5. anchorGame' \in {NoParent} \union Indices
    BY <1>0, <1>12 DEF ClaimCredit, AnchorAfterClose, TypeOK
  <2> QED
    BY <1>0, <1>12, <2>4, <2>5 DEF ClaimCredit, BondInv, TypeOK, accessVars
<1> QED
  BY <1>1, <1>2, <1>3, <1>4, <1>5, <1>6, <1>7, <1>8, <1>9, <1>10, <1>11, <1>12 DEF Next

(* Every variable keeps its type; in particular no balance, deadline or    *)
(* credit goes below zero.                                                 *)
THEOREM TypeCorrect == Spec => []TypeOK
<1>1. BondInv => TypeOK
  BY DEF BondInv
<1> QED
  BY BondInvInit, BondInvStep, <1>1, PTL DEF Spec

(* The ether of a game is exactly what it owes, for any bonds, accounts,   *)
(* durations and number of games.                                          *)
THEOREM AlwaysSolvent == Spec => []Solvent
<1>1. BondInv => Solvent
  BY DEF BondInv, Solvent, Succinct, GameInv, BondsOK
<1> QED
  BY BondInvInit, BondInvStep, <1>1, PTL DEF Spec

(* A game closed as improper pays every depositor its own deposit, and an  *)
(* open one keeps the whole deposit refundable, whoever wins the dispute.  *)
THEOREM RefundsAreDeposits == Spec => []RefundIsDeposit
<1>1. BondInv => RefundIsDeposit
  BY DEF BondInv, RefundIsDeposit, Succinct, GameInv, BondsOK
<1> QED
  BY BondInvInit, BondInvStep, <1>1, PTL DEF Spec
-----------------------------------------------------------------------------
(* The chains of games, on top of BondInv.                                 *)

(* The part of a game that create fixes for ever.                          *)
Fixed(g) == <<g.gameType, g.parent, g.l2Block, g.claim, g.creator, g.startRoot,
              g.createdAt, g.wasRespected>>

(* A game points back in the list, at the root it starts from.             *)
ParentOK(i) ==
    /\ games[i].parent \in 0..(i - 1)
    /\ games[i].parent # NoParent => games[i].startRoot = games[games[i].parent].claim

(* The verdict of a game in relation to its parent's, its roles and time.  *)
VerdictOK(g) ==
    /\ g.status # "IN_PROGRESS" => g.resolvedAt <= now
    /\ g.gameType = "other" => g.parent = NoParent
    /\ g.gameType = "succinct" =>
        /\ FirstLie(g) => g.prover = NoAddress
        /\ FirstLie(g) /\ g.status = "DEFENDER_WINS" => g.counteredBy = NoAddress
        /\ g.status # "IN_PROGRESS" => ParentGameStatus(g) # "IN_PROGRESS"
        /\ g.status = "DEFENDER_WINS" => ParentGameStatus(g) = "DEFENDER_WINS"
        /\ g.status = "CHALLENGER_WINS" /\ ParentGameStatus(g) = "DEFENDER_WINS" =>
              g.counteredBy # NoAddress /\ g.prover = NoAddress /\ g.deadline < g.resolvedAt

AnchorOK == anchorGame # NoParent => games[anchorGame].status = "DEFENDER_WINS"

(* No first lie won, and no game of another type with a forged claim.      *)
NoLieWon ==
    \A i \in Indices :
        games[i].status = "DEFENDER_WINS" =>
            /\ games[i].gameType = "succinct" => ~FirstLie(games[i])
            /\ games[i].gameType = "other" => games[i].claim = "canonical"

(* Then what won is canonical, and so is every start from the anchor.      *)
CanonicalOK ==
    NoLieWon => \A i \in Indices :
        /\ games[i].status = "DEFENDER_WINS" => games[i].claim = "canonical"
        /\ games[i].parent = NoParent => games[i].startRoot = "canonical"

(* The inductive invariant.  That the anchor is canonical is not inductive *)
(* alone: it needs that every game that won is, which needs that a game    *)
(* wins only after its parent, and that it starts from its parent's root.  *)
ChainInv ==
    /\ BondInv
    /\ \A i \in Indices : ParentOK(i) /\ VerdictOK(games[i])
    /\ AnchorOK
    /\ CanonicalOK
-----------------------------------------------------------------------------
(* What the type invariant says of one game.                               *)
LEMMA GamesTyped ==
    ASSUME ChainInv
    PROVE  /\ games \in Seq(Game) /\ Len(games) \in Nat /\ now \in Nat
           /\ \A i \in Indices : games[i] \in Game /\ GameInv(games[i])
BY ElementOfSeq, LenProperties DEF ChainInv, BondInv, TypeOK, Indices

(* Replacing a game by one with the same fixed part whose verdict, if      *)
(* there was one, stands.                                                  *)
LEMMA ReplaceKeepsChain ==
    ASSUME ChainInv, NEW i \in Indices, NEW h \in Game, VerdictOK(h),
           games' = [games EXCEPT ![i] = h], now' = now,
           Fixed(h) = Fixed(games[i]),
           games[i].status # "IN_PROGRESS" => h.status = games[i].status
    PROVE  /\ \A j \in Indices' : ParentOK(j)' /\ VerdictOK(games[j])'
           /\ CanonicalOK'
           /\ \A j \in Indices : games[j].status = "DEFENDER_WINS" =>
                                     games'[j].status = "DEFENDER_WINS"
<1>1. /\ games \in Seq(Game) /\ Len(games) \in Nat
      /\ \A j \in Indices : games[j] \in Game
  BY GamesTyped
<1>2. /\ Len(games') = Len(games) /\ Indices' = Indices
      /\ \A j \in Indices : games'[j] = IF j = i THEN h ELSE games[j]
  BY <1>1, ExceptSeq DEF Indices
<1>3. \A j \in Indices :
          /\ games'[j].gameType = games[j].gameType /\ games'[j].parent = games[j].parent
          /\ games'[j].claim = games[j].claim /\ games'[j].startRoot = games[j].startRoot
          /\ games[j].status # "IN_PROGRESS" => games'[j].status = games[j].status
  BY <1>2 DEF Fixed
<1>4. \A j \in Indices : ParentOK(j) /\ VerdictOK(games[j]) /\ VerdictOK(games'[j])
                         /\ games'[j] \in Game
  BY <1>1, <1>2 DEF ChainInv
<1>5. \A j \in Indices : games[j].parent # NoParent => games[j].parent \in Indices
  BY <1>1, <1>4 DEF ParentOK, Indices, NoParent
<1>6. \A j \in Indices : ParentOK(j)'
  BY <1>2, <1>3, <1>4, <1>5 DEF ParentOK
<1>7. ASSUME NEW j \in Indices PROVE VerdictOK(games[j])'
  <2>1. \/ ParentGameStatus(games[j])' = ParentGameStatus(games'[j])
        \/ ParentGameStatus(games'[j]) = "IN_PROGRESS"
    BY <1>3, <1>5, <1>7 DEF ParentGameStatus
  <2>2. VerdictOK(games'[j])
    BY <1>4, <1>7
  <2> QED
    BY <2>1, <2>2 DEF VerdictOK, FirstLie
<1>8. CanonicalOK'
  <2> SUFFICES ASSUME NoLieWon'
               PROVE  \A j \in Indices :
                         /\ games'[j].status = "DEFENDER_WINS" => games'[j].claim = "canonical"
                         /\ games'[j].parent = NoParent => games'[j].startRoot = "canonical"
    BY <1>2 DEF CanonicalOK
  <2>1. NoLieWon
    BY <1>2, <1>3 DEF NoLieWon, FirstLie
  <2>2. \A j \in Indices :
            /\ games[j].status = "DEFENDER_WINS" => games[j].claim = "canonical"
            /\ games[j].parent = NoParent => games[j].startRoot = "canonical"
    BY <2>1 DEF ChainInv, CanonicalOK
  <2>3. ASSUME NEW j \in Indices, games'[j].status = "DEFENDER_WINS"
        PROVE  games'[j].claim = "canonical"
    <3>1. CASE games'[j].gameType = "other"
      BY <1>2, <2>3, <3>1 DEF NoLieWon
    <3>2. CASE games'[j].gameType = "succinct"
      <4>1. ParentGameStatus(games'[j]) = "DEFENDER_WINS" /\ ~FirstLie(games'[j])
        BY <1>2, <1>4, <2>3, <3>2 DEF VerdictOK, NoLieWon
      <4>2. games[j].startRoot = "canonical"
        BY <1>3, <1>4, <1>5, <2>2, <2>3, <4>1 DEF ParentGameStatus, ParentOK
      <4> QED
        BY <1>3, <1>4, <2>3, <4>1, <4>2 DEF FirstLie, Game, Roots
    <3> QED
      BY <1>4, <2>3, <3>1, <3>2 DEF Game, GameTypes
  <2> QED
    BY <1>3, <2>2, <2>3
<1>9. \A j \in Indices : games[j].status = "DEFENDER_WINS" => games'[j].status = "DEFENDER_WINS"
  BY <1>3
<1> QED
  BY <1>2, <1>6, <1>7, <1>8, <1>9

(* Appending a new game that starts from its parent or from the anchor.    *)
LEMMA AppendKeepsChain ==
    ASSUME ChainInv, NEW h \in Game, games' = Append(games, h), now' = now,
           h.status = "IN_PROGRESS", h.prover = NoAddress,
           h.parent \in {NoParent} \union Indices,
           h.gameType = "other" => h.parent = NoParent,
           h.startRoot = StartingRoot(h.parent)
    PROVE  /\ \A j \in Indices' : ParentOK(j)' /\ VerdictOK(games[j])'
           /\ CanonicalOK'
           /\ \A j \in Indices : games'[j] = games[j]
<1>1. games \in Seq(Game) /\ Len(games) \in Nat /\ \A j \in Indices : games[j] \in Game
  BY GamesTyped
<1>2. /\ Len(games') = Len(games) + 1
      /\ \A j \in Indices : games'[j] = games[j]
      /\ games'[Len(games) + 1] = h
  BY <1>1 DEF Indices
<1>3. \A j \in Indices' : j \in Indices \/ (j = Len(games) + 1 /\ games'[j] = h)
  BY <1>1, <1>2 DEF Indices
<1>4. /\ \A j \in Indices : j \in Indices' /\ ParentOK(j) /\ VerdictOK(games[j])
      /\ AnchorOK /\ CanonicalOK /\ anchorGame \in {NoParent} \union Indices
  BY <1>1, <1>2 DEF ChainInv, BondInv, TypeOK, Indices
<1>5. \A j \in Indices : games[j].parent # NoParent => games[j].parent \in Indices
  BY <1>1, <1>4 DEF ParentOK, Indices, NoParent
<1>6. ASSUME NEW j \in Indices PROVE ParentOK(j)' /\ VerdictOK(games[j])'
  <2>1. games'[j] = games[j] /\ ParentGameStatus(games[j])' = ParentGameStatus(games[j])
    BY <1>2, <1>5, <1>6 DEF ParentGameStatus
  <2>2. ParentOK(j)'
    BY <1>2, <1>4, <1>5, <1>6, <2>1 DEF ParentOK
  <2> QED
    BY <1>4, <1>6, <2>1, <2>2 DEF VerdictOK, FirstLie
<1>7. ASSUME NEW j, j = Len(games) + 1 PROVE ParentOK(j)' /\ VerdictOK(games[j])'
  <2>1. games'[j] = h
    BY <1>2, <1>7
  <2>2. ParentOK(j)'
    BY <1>1, <1>2, <1>7, <2>1 DEF ParentOK, NoParent, Indices, StartingRoot
  <2>3. VerdictOK(games[j])'
    BY <2>1 DEF VerdictOK
  <2> QED
    BY <2>2, <2>3
<1>8. CanonicalOK'
  <2> SUFFICES ASSUME NoLieWon', NEW j \in Indices'
               PROVE  /\ games'[j].status = "DEFENDER_WINS" => games'[j].claim = "canonical"
                      /\ games'[j].parent = NoParent => games'[j].startRoot = "canonical"
    BY DEF CanonicalOK
  <2>1. NoLieWon
    BY <1>2, <1>4 DEF NoLieWon, FirstLie
  <2>2. CASE j \in Indices
    BY <1>2, <1>4, <2>1, <2>2 DEF CanonicalOK
  <2>3. CASE games'[j] = h
    <3>1. AnchorRoot = "canonical"
      BY <1>4, <2>1 DEF AnchorRoot, AnchorOK, CanonicalOK
    <3> QED
      BY <2>3, <3>1 DEF StartingRoot
  <2> QED
    BY <1>3, <2>2, <2>3
<1> QED
  BY <1>2, <1>3, <1>6, <1>7, <1>8

(* The anchor only moves to a game that won.                               *)
LEMMA AnchorKept ==
    ASSUME ChainInv,
           \A j \in Indices : games[j].status = "DEFENDER_WINS" =>
                                  games'[j].status = "DEFENDER_WINS",
           \/ anchorGame' = anchorGame
           \/ anchorGame' \in Indices /\ games[anchorGame'].status = "DEFENDER_WINS"
    PROVE  AnchorOK'
BY DEF AnchorOK, ChainInv, BondInv, TypeOK

(* Steps that leave the games and the clock alone.                         *)
LEMMA SameGamesKeepChain ==
    ASSUME ChainInv, games' = games, now' = now
    PROVE  /\ \A j \in Indices' : ParentOK(j)' /\ VerdictOK(games[j])'
           /\ CanonicalOK'
BY DEF ChainInv, ParentOK, VerdictOK, CanonicalOK, NoLieWon, FirstLie, Indices, ParentGameStatus

LEMMA ChainInvInit == Init => ChainInv
<1> SUFFICES ASSUME Init PROVE ChainInv
  OBVIOUS
<1>1. BondInv
  BY BondInvInit
<1>2. Indices = {}
  BY EmptySeq DEF Init, FactoryInit, Indices
<1> QED
  BY <1>1, <1>2 DEF ChainInv, CanonicalOK, AnchorOK, Init, RegistryInit

(* closeGame and claimCredit change neither roles nor verdict; the anchor  *)
(* moves to the game closed, if it moves.                                  *)
LEMMA ClosingKeepsChain ==
    ASSUME ChainInv, NEW i \in Indices, NEW h \in Game, now' = now,
           games' = [games EXCEPT ![i] = h], Fixed(h) = Fixed(games[i]),
           h.status = games[i].status, h.resolvedAt = games[i].resolvedAt,
           h.counteredBy = games[i].counteredBy, h.prover = games[i].prover,
           h.deadline = games[i].deadline,
           anchorGame' = AnchorAfterClose(i)
    PROVE  /\ \A j \in Indices' : ParentOK(j)' /\ VerdictOK(games[j])'
           /\ CanonicalOK' /\ AnchorOK'
<1>1. games[i].parent = h.parent /\ VerdictOK(games[i])
  BY DEF Fixed, ChainInv
<1>2. VerdictOK(h)
  BY <1>1 DEF VerdictOK, FirstLie, Fixed, ParentGameStatus
<1>3. anchorGame' = anchorGame \/ (anchorGame' = i /\ games[i].status = "DEFENDER_WINS")
  BY DEF AnchorAfterClose, AnchorAccepts, IsGameClaimValid
<1> QED
  BY <1>2, <1>3, ReplaceKeepsChain, AnchorKept

LEMMA ChainInvStep == ChainInv /\ [Next]_vars => ChainInv'
<1> SUFFICES ASSUME ChainInv, [Next]_vars PROVE ChainInv'
  OBVIOUS
<1>0. /\ BondInv' /\ now \in Nat
      /\ anchorGame \in {NoParent} \union Indices
      /\ \A i \in Indices : games[i] \in Game /\ GameInv(games[i]) /\ VerdictOK(games[i])
  BY BondInvStep, GamesTyped DEF ChainInv, BondInv, TypeOK
<1> DEFINE Kept == (\A j \in Indices' : ParentOK(j)' /\ VerdictOK(games[j])') /\ CanonicalOK'
<1>1. CASE UNCHANGED vars
  <2>1. games' = games /\ now' = now /\ anchorGame' = anchorGame
    BY <1>1 DEF vars, registryVars
  <2> QED
    BY <1>0, <2>1, SameGamesKeepChain, AnchorKept DEF ChainInv
<1>2. CASE PassTime
  <2>1. games' = games /\ now' = now + 1 /\ anchorGame' = anchorGame
    BY <1>2 DEF PassTime, Tick, registryVars
  <2>2. \A j \in Indices : VerdictOK(games[j])'
    <3> TAKE j \in Indices
    <3>1. games[j].resolvedAt \in Nat /\ VerdictOK(games[j])
      BY <1>0 DEF Game
    <3> QED
      BY <1>0, <2>1, <3>1 DEF VerdictOK, FirstLie, ParentGameStatus
  <2>3. Indices' = Indices /\ (\A j \in Indices : ParentOK(j)') /\ CanonicalOK'
    BY <2>1 DEF ChainInv, ParentOK, CanonicalOK, NoLieWon, FirstLie, Indices
  <2> QED
    BY <1>0, <2>1, <2>2, <2>3, AnchorKept DEF ChainInv
<1>3. CASE OwnerStep
  <2>1. games' = games /\ now' = now /\ anchorGame' = anchorGame
    BY <1>3 DEF OwnerStep, registryVars
  <2> QED
    BY <1>0, <2>1, SameGamesKeepChain, AnchorKept DEF ChainInv
<1>4. CASE RegistryStep
  <2>1. /\ games' = games /\ now' = now
        /\ \/ anchorGame' = anchorGame
           \/ anchorGame' \in Indices /\ games[anchorGame'].status = "DEFENDER_WINS"
    BY <1>4 DEF RegistryStep, SetAnchorState, AnchorAccepts, IsGameClaimValid, Blacklist,
       UpdateRetirementTimestamp, SetRespectedGameType, SetPaused
  <2> QED
    BY <1>0, <2>1, SameGamesKeepChain, AnchorKept DEF ChainInv
<1>5. ASSUME NEW a \in Actors, NEW p \in {NoParent} \union Indices,
             NEW b \in 1..MaxBlock, NEW r \in Roots, Create(a, p, b, r)
      PROVE  ChainInv'
  <2> DEFINE h == NewGame("succinct", a, p, b, r)
  <2>1. h \in Game
    BY <1>5, NewGameOK DEF ChainInv, BondInv, Create, CreationBound, GameTypes
  <2>2. /\ h.status = "IN_PROGRESS" /\ h.prover = NoAddress /\ h.gameType = "succinct"
        /\ h.parent = p /\ h.startRoot = StartingRoot(p)
    BY DEF NewGame
  <2>3. games' = Append(games, h) /\ now' = now /\ anchorGame' = anchorGame
    BY <1>5 DEF Create, registryVars
  <2> HIDE DEF h
  <2>4. Kept /\ \A j \in Indices : games'[j] = games[j]
    BY <2>1, <2>2, <2>3, AppendKeepsChain
  <2>5. AnchorOK'
    BY <2>3, <2>4, AnchorKept
  <2> QED
    BY <1>0, <2>4, <2>5 DEF ChainInv
<1>6. ASSUME NEW b \in 1..MaxBlock, NEW r \in Roots, CreateOther(b, r)
      PROVE  ChainInv'
  <2> DEFINE a == CHOOSE x \in Actors : TRUE
             h == NewGame("other", a, NoParent, b, r)
  <2>0. a \in Actors
    BY FactoryAssumption
  <2>1. h \in Game
    BY <1>6, <2>0, NewGameOK DEF ChainInv, BondInv, CreateOther, CreationBound, GameTypes
  <2>2. /\ h.status = "IN_PROGRESS" /\ h.prover = NoAddress
        /\ h.parent = NoParent /\ h.startRoot = StartingRoot(NoParent)
    BY DEF NewGame
  <2>3. games' = Append(games, h) /\ now' = now /\ anchorGame' = anchorGame
    BY <1>6 DEF CreateOther, registryVars
  <2> HIDE DEF h
  <2>4. Kept /\ \A j \in Indices : games'[j] = games[j]
    BY <2>1, <2>2, <2>3, AppendKeepsChain
  <2>5. AnchorOK'
    BY <2>3, <2>4, AnchorKept
  <2> QED
    BY <1>0, <2>4, <2>5 DEF ChainInv
<1>7. ASSUME NEW i \in Indices, NEW v \in GameStatuses \ {"IN_PROGRESS"}, ResolveOther(i, v)
      PROVE  ChainInv'
  <2> DEFINE g == games[i]
             h == [g EXCEPT !.status = v, !.resolvedAt = now]
  <2>0. g \in Game /\ g.gameType = "other" /\ g.status = "IN_PROGRESS" /\ VerdictOK(g)
    BY <1>0, <1>7 DEF ResolveOther
  <2>1. h \in Game /\ h.gameType = "other"
    BY <1>0, <2>0, OtherResolvedKeeps
  <2>2. Fixed(h) = Fixed(g) /\ h.resolvedAt = now /\ h.parent = g.parent
    BY <2>0 DEF Fixed, Game
  <2>3. games' = [games EXCEPT ![i] = h] /\ now' = now /\ anchorGame' = anchorGame
    BY <1>7 DEF ResolveOther, registryVars
  <2> HIDE DEF h
  <2>4. VerdictOK(h)
    BY <1>0, <2>0, <2>1, <2>2 DEF VerdictOK
  <2> QED
    BY <1>0, <2>0, <2>1, <2>2, <2>3, <2>4, ReplaceKeepsChain, AnchorKept DEF ChainInv
<1>8. ASSUME NEW i \in Indices, NEW a \in Actors, Challenge(i, a)
      PROVE  ChainInv'
  <2> DEFINE g == games[i]
             h == Challenged(g, a)
  <2>0. /\ g \in Game /\ g.gameType = "succinct" /\ g.proposal = "Unchallenged"
        /\ GameInv(g) /\ VerdictOK(g)
    BY <1>0, <1>8 DEF Challenge
  <2>1. h \in Game /\ g.status = "IN_PROGRESS"
    BY <1>0, <2>0, ChallengedKeeps DEF GameInv, RolesOK
  <2>2. Fixed(h) = Fixed(g) /\ h.status = g.status /\ h.prover = g.prover
    BY <2>0 DEF Fixed, Game, Challenged
  <2>3. games' = [games EXCEPT ![i] = h] /\ now' = now /\ anchorGame' = anchorGame
    BY <1>8 DEF Challenge, registryVars
  <2> HIDE DEF h
  <2>4. VerdictOK(h)
    BY <2>0, <2>1, <2>2 DEF VerdictOK, Fixed, FirstLie
  <2> QED
    BY <1>0, <2>0, <2>1, <2>2, <2>3, <2>4, ReplaceKeepsChain, AnchorKept DEF ChainInv
<1>9. ASSUME NEW i \in Indices, NEW a \in Actors, Prove(i, a)
      PROVE  ChainInv'
  <2> DEFINE g == games[i]
             h == Proved(g, a)
  <2>0. /\ g \in Game /\ g.gameType = "succinct" /\ GameInv(g) /\ VerdictOK(g)
        /\ g.prover = NoAddress /\ ~(g.deadline < now) /\ ~FirstLie(g)
    BY <1>0, <1>9 DEF Prove, GameOver, ProofVerifies, FirstLie
  <2>1. h \in Game
    BY <2>0, ProvedKeeps
  <2>2. /\ Fixed(h) = Fixed(g) /\ h.status = g.status /\ h.counteredBy = g.counteredBy
        /\ h.deadline = g.deadline /\ h.resolvedAt = g.resolvedAt
        /\ g.deadline \in Nat /\ g.resolvedAt \in Nat
    BY <2>0 DEF Fixed, Game, Proved
  <2>3. games' = [games EXCEPT ![i] = h] /\ now' = now /\ anchorGame' = anchorGame
    BY <1>9 DEF Prove, registryVars
  <2> HIDE DEF h
  <2>4. ~(g.status = "CHALLENGER_WINS" /\ ParentGameStatus(g) = "DEFENDER_WINS")
    BY <1>0, <2>0, <2>2 DEF VerdictOK
  <2>5. VerdictOK(h)
    BY <2>0, <2>2, <2>4 DEF VerdictOK, Fixed, FirstLie, ParentGameStatus
  <2> QED
    BY <1>0, <2>0, <2>1, <2>2, <2>3, <2>5, ReplaceKeepsChain, AnchorKept DEF ChainInv
<1>10. ASSUME NEW i \in Indices, Resolve(i)
       PROVE  ChainInv'
  <2> DEFINE g == games[i]
             h == Resolved(g)
  <2>0. /\ g \in Game /\ g.gameType = "succinct" /\ GameInv(g) /\ VerdictOK(g)
        /\ g.status = "IN_PROGRESS" /\ CanResolve(g) /\ RolesOK(g)
    BY <1>0, <1>10 DEF Resolve, GameInv
  <2>1. h \in Game
    BY <1>0, <2>0, ResolvedKeeps
  <2>2. /\ Fixed(h) = Fixed(g) /\ h.status = Verdict(g) /\ h.counteredBy = g.counteredBy
        /\ h.prover = g.prover /\ h.deadline = g.deadline /\ h.resolvedAt = now
    BY <2>0 DEF Fixed, Game, Resolved
  <2>3. games' = [games EXCEPT ![i] = h] /\ now' = now /\ anchorGame' = anchorGame
    BY <1>10 DEF Resolve, registryVars
  <2> HIDE DEF h
  <2>4. ParentGameStatus(h) = ParentGameStatus(g) /\ FirstLie(h) = FirstLie(g)
    BY <2>2 DEF ParentGameStatus, FirstLie, Fixed
  <2>5. /\ FirstLie(g) => g.prover = NoAddress
        /\ FirstLie(g) /\ Verdict(g) = "DEFENDER_WINS" => g.counteredBy = NoAddress
    BY <2>0 DEF VerdictOK, Verdict, RolesOK, Game, ProposalStatuses
  <2>6. /\ ParentGameStatus(g) # "IN_PROGRESS"
        /\ Verdict(g) = "DEFENDER_WINS" => ParentGameStatus(g) = "DEFENDER_WINS"
        /\ Verdict(g) = "CHALLENGER_WINS" /\ ParentGameStatus(g) = "DEFENDER_WINS" =>
              g.counteredBy # NoAddress /\ g.prover = NoAddress /\ g.deadline < now
    BY <2>0 DEF CanResolve, Verdict, RolesOK, GameOver
  <2>7. VerdictOK(h)
    BY <1>0, <2>0, <2>2, <2>4, <2>5, <2>6 DEF VerdictOK, Fixed
  <2> QED
    BY <1>0, <2>0, <2>1, <2>2, <2>3, <2>7, ReplaceKeepsChain, AnchorKept DEF ChainInv
<1>11. ASSUME NEW i \in Indices, CloseGame(i)
       PROVE  ChainInv'
  <2> DEFINE g == games[i]
             h == [g EXCEPT !.mode = ModeAfterClose(i)]
  <2>0. g \in Game /\ ModeAfterClose(i) \in BondDistributionModes
    BY <1>0 DEF ModeAfterClose, Game, BondDistributionModes
  <2>1. g \in Game /\ h \in Game
    BY <2>0 DEF Game
  <2>2. /\ Fixed(h) = Fixed(g) /\ h.status = g.status /\ h.counteredBy = g.counteredBy
        /\ h.prover = g.prover /\ h.deadline = g.deadline /\ h.resolvedAt = g.resolvedAt
    BY <2>1 DEF Fixed, Game
  <2>3. games' = [games EXCEPT ![i] = h] /\ now' = now /\ anchorGame' = AnchorAfterClose(i)
    BY <1>11 DEF CloseGame
  <2> HIDE DEF h
  <2> QED
    BY <1>0, <2>1, <2>2, <2>3, ClosingKeepsChain DEF ChainInv
<1>12. ASSUME NEW i \in Indices, NEW a \in Addresses, ClaimCredit(i, a)
       PROVE  ChainInv'
  <2> DEFINE g == games[i]
             m == ModeAfterClose(i)
             h == Paid(g, m, a)
  <2>0. /\ g \in Game /\ GameInv(g) /\ g.gameType = "succinct" /\ g.status # "IN_PROGRESS"
        /\ m \in {"NORMAL", "REFUND"} /\ g.mode \in {"UNDECIDED", m}
    BY <1>0, <1>12 DEF ClaimCredit, CanClose, IsGameFinalized, GameInv, BondsOK,
       ModeAfterClose, Game, BondDistributionModes
  <2>1. h \in Game
    BY <2>0, PaidKeeps
  <2>2. /\ Fixed(h) = Fixed(g) /\ h.status = g.status /\ h.counteredBy = g.counteredBy
        /\ h.prover = g.prover /\ h.deadline = g.deadline /\ h.resolvedAt = g.resolvedAt
    BY <2>0 DEF Fixed, Game, Paid
  <2>3. games' = [games EXCEPT ![i] = h] /\ now' = now /\ anchorGame' = AnchorAfterClose(i)
    BY <1>12 DEF ClaimCredit
  <2> HIDE DEF h
  <2> QED
    BY <1>0, <2>1, <2>2, <2>3, ClosingKeepsChain DEF ChainInv
<1> QED
  BY <1>1, <1>2, <1>3, <1>4, <1>5, <1>6, <1>7, <1>8, <1>9, <1>10, <1>11, <1>12 DEF Next

LEMMA ChainInvariant == Spec => []ChainInv
BY ChainInvInit, ChainInvStep, PTL DEF Spec

(* A proposer loses a game whose parent won only if it was challenged and  *)
(* not proved in time, whatever happens to the rest of the chain.          *)
THEOREM OnlyUnprovenLose == Spec => []LosesOnlyUnproven
<1>1. ChainInv => LosesOnlyUnproven
  BY DEF ChainInv, LosesOnlyUnproven, VerdictOK, Succinct
<1> QED
  BY ChainInvariant, <1>1, PTL

(* A challenge always beats a first lie.                                   *)
THEOREM ChallengedLiesLose == Spec => []ChallengedLieNeverWins
<1>1. ChainInv => ChallengedLieNeverWins
  BY DEF ChainInv, ChallengedLieNeverWins, VerdictOK, Succinct
<1> QED
  BY ChainInvariant, <1>1, PTL

(* If every first lie is kept from winning, the anchor root is canonical,  *)
(* for chains of any length and whatever is built on top of lies.          *)
THEOREM AnchorIsCanonical == Spec => []OneHonestChallengerSuffices
<1>1. ChainInv => OneHonestChallengerSuffices
  <2> SUFFICES ASSUME ChainInv, NoLieWon PROVE AnchorRoot = "canonical"
    BY DEF OneHonestChallengerSuffices, NoLieWon
  <2> QED
    BY DEF ChainInv, BondInv, TypeOK, AnchorRoot, AnchorOK, CanonicalOK
<1> QED
  BY ChainInvariant, <1>1, PTL
-----------------------------------------------------------------------------
(* What a step does to the list of games and to the anchor.                *)
Created(h) ==
    /\ games' = Append(games, h)
    /\ h \in Game
    /\ h.status = "IN_PROGRESS" /\ h.createdAt = now
    /\ h.gameType = "succinct" => IsAllowedProposer(h.creator)
    /\ h.parent \in {NoParent} \union Indices
    /\ ParentGameStatus(h) # "CHALLENGER_WINS"
    /\ h.l2Block > AnchorBlock
    /\ h.parent # NoParent => h.l2Block > games[h.parent].l2Block

Changed(i, h) ==
    /\ games' = [games EXCEPT ![i] = h]
    /\ h \in Game /\ Fixed(h) = Fixed(games[i])
    /\ \/ h.status = games[i].status
       \/ /\ games[i].status = "IN_PROGRESS"
          /\ h.status # "IN_PROGRESS"
          /\ ParentGameStatus(h) # "IN_PROGRESS"
          /\ h.status = "DEFENDER_WINS" => ParentGameStatus(h) = "DEFENDER_WINS"
          /\ anchorGame' = anchorGame

AnchorMoves == anchorGame' \in Indices /\ AnchorAccepts(anchorGame')

LEMMA StepKinds ==
    ASSUME ChainInv, [Next]_vars
    PROVE  /\ \/ games' = games
              \/ anchorGame' = anchorGame /\ \E h : Created(h)
              \/ \E i \in Indices, h \in Game : Changed(i, h)
           /\ anchorGame' = anchorGame \/ AnchorMoves
<1>0. /\ TypeOK /\ now \in Nat /\ Len(games) \in Nat /\ AnchorBlock \in Nat
      /\ \A i \in Indices : /\ games[i] \in Game /\ GameInv(games[i]) /\ VerdictOK(games[i])
                            /\ games[i].l2Block \in Nat
  <2>1. /\ TypeOK /\ now \in Nat /\ Len(games) \in Nat
        /\ anchorGame \in {NoParent} \union Indices
        /\ \A i \in Indices : games[i] \in Game /\ GameInv(games[i]) /\ VerdictOK(games[i])
    BY GamesTyped DEF ChainInv, BondInv, TypeOK
  <2>2. \A i \in Indices : games[i].l2Block \in Nat
    BY <2>1, FactoryAssumption DEF Game
  <2> QED
    BY <2>1, <2>2 DEF AnchorBlock
<1>1. CASE UNCHANGED vars \/ PassTime \/ OwnerStep
  BY <1>1 DEF vars, PassTime, OwnerStep, registryVars
<1>2. CASE RegistryStep
  BY <1>2 DEF RegistryStep, SetAnchorState, Blacklist, UpdateRetirementTimestamp,
     SetRespectedGameType, SetPaused, AnchorMoves
<1>3. ASSUME NEW a \in Actors, NEW p \in {NoParent} \union Indices,
             NEW b \in 1..MaxBlock, NEW r \in Roots, Create(a, p, b, r)
      PROVE  anchorGame' = anchorGame /\ \E h : Created(h)
  <2> DEFINE h == NewGame("succinct", a, p, b, r)
  <2>1. h \in Game
    BY <1>0, <1>3, NewGameOK DEF Create, CreationBound, GameTypes
  <2>2. /\ h.status = "IN_PROGRESS" /\ h.parent = p /\ h.l2Block = b /\ h.createdAt = now
        /\ h.creator = a
    BY DEF NewGame
  <2>3. games' = Append(games, h) /\ anchorGame' = anchorGame /\ IsAllowedProposer(a)
    BY <1>3 DEF Create, registryVars
  <2> HIDE DEF h
  <2>4. /\ p # NoParent => /\ games[p].status # "CHALLENGER_WINS"
                           /\ games[p].l2Block > AnchorBlock
                           /\ b > games[p].l2Block
        /\ p = NoParent => b > AnchorBlock
    BY <1>3 DEF Create, ValidParent, StartingBlock
  <2>5. Created(h)
    BY <1>0, <2>1, <2>2, <2>3, <2>4, FactoryAssumption DEF Created, ParentGameStatus
  <2> QED
    BY <2>3, <2>5
<1>4. ASSUME NEW b \in 1..MaxBlock, NEW r \in Roots, CreateOther(b, r)
      PROVE  anchorGame' = anchorGame /\ \E h : Created(h)
  <2> DEFINE a == CHOOSE x \in Actors : TRUE
             h == NewGame("other", a, NoParent, b, r)
  <2>0. a \in Actors
    BY FactoryAssumption
  <2>1. h \in Game
    BY <1>0, <1>4, <2>0, NewGameOK DEF CreateOther, CreationBound, GameTypes
  <2>2. /\ h.status = "IN_PROGRESS" /\ h.parent = NoParent /\ h.l2Block = b
        /\ h.createdAt = now /\ h.gameType = "other"
    BY DEF NewGame
  <2>3. games' = Append(games, h) /\ anchorGame' = anchorGame /\ b > AnchorBlock
    BY <1>4 DEF CreateOther, registryVars
  <2> HIDE DEF h
  <2> QED
    BY <2>1, <2>2, <2>3 DEF Created, ParentGameStatus
<1>5. ASSUME NEW i \in Indices, NEW v \in GameStatuses \ {"IN_PROGRESS"}, ResolveOther(i, v)
      PROVE  anchorGame' = anchorGame /\ \E h \in Game : Changed(i, h)
  <2> DEFINE g == games[i]
             h == [g EXCEPT !.status = v, !.resolvedAt = now]
  <2>0. /\ g \in Game /\ g.gameType = "other" /\ g.status = "IN_PROGRESS"
        /\ g.parent = NoParent
    BY <1>0, <1>5 DEF ResolveOther, VerdictOK
  <2>1. h \in Game
    BY <1>0, <2>0, OtherResolvedKeeps
  <2>2. Fixed(h) = Fixed(g) /\ h.status = v /\ h.parent = g.parent
    BY <2>0 DEF Fixed, Game
  <2>3. games' = [games EXCEPT ![i] = h] /\ anchorGame' = anchorGame
    BY <1>5 DEF ResolveOther, registryVars
  <2> HIDE DEF h
  <2> QED
    BY <2>0, <2>1, <2>2, <2>3 DEF Changed, ParentGameStatus
<1>6. ASSUME NEW i \in Indices, NEW a \in Actors, Challenge(i, a) \/ Prove(i, a)
      PROVE  anchorGame' = anchorGame /\ \E h \in Game : Changed(i, h)
  <2> DEFINE g == games[i]
  <2>0. g \in Game /\ g.gameType = "succinct" /\ GameInv(g)
    BY <1>0, <1>6 DEF Challenge, Prove
  <2>1. CASE Challenge(i, a)
    <3> DEFINE h == Challenged(g, a)
    <3>1. h \in Game
      BY <1>0, <2>0, <2>1, ChallengedKeeps DEF Challenge
    <3>2. Fixed(h) = Fixed(g) /\ h.status = g.status
      BY <2>0 DEF Fixed, Game, Challenged
    <3> HIDE DEF h
    <3> QED
      BY <2>1, <3>1, <3>2 DEF Challenge, registryVars, Changed, h
  <2>2. CASE Prove(i, a)
    <3> DEFINE h == Proved(g, a)
    <3>1. h \in Game
      BY <1>0, <2>0, <2>2, ProvedKeeps DEF Prove, GameOver
    <3>2. Fixed(h) = Fixed(g) /\ h.status = g.status
      BY <2>0 DEF Fixed, Game, Proved
    <3> HIDE DEF h
    <3> QED
      BY <2>2, <3>1, <3>2 DEF Prove, registryVars, Changed, h
  <2> QED
    BY <1>6, <2>1, <2>2
<1>7. ASSUME NEW i \in Indices, Resolve(i)
      PROVE  anchorGame' = anchorGame /\ \E h \in Game : Changed(i, h)
  <2> DEFINE g == games[i]
             h == Resolved(g)
  <2>0. /\ g \in Game /\ g.gameType = "succinct" /\ GameInv(g)
        /\ g.status = "IN_PROGRESS" /\ CanResolve(g)
    BY <1>0, <1>7 DEF Resolve
  <2>1. h \in Game
    BY <1>0, <2>0, ResolvedKeeps
  <2>2. Fixed(h) = Fixed(g) /\ h.status = Verdict(g) /\ h.parent = g.parent
    BY <2>0 DEF Fixed, Game, Resolved
  <2>3. games' = [games EXCEPT ![i] = h] /\ anchorGame' = anchorGame
    BY <1>7 DEF Resolve, registryVars
  <2> HIDE DEF h
  <2>4. /\ ParentGameStatus(h) # "IN_PROGRESS" /\ h.status # "IN_PROGRESS"
        /\ h.status = "DEFENDER_WINS" => ParentGameStatus(h) = "DEFENDER_WINS"
    BY <2>0, <2>2 DEF CanResolve, Verdict, ParentGameStatus
  <2> QED
    BY <2>0, <2>1, <2>2, <2>3, <2>4 DEF Changed
<1>8. ASSUME NEW i \in Indices, CloseGame(i)
      PROVE  /\ anchorGame' = anchorGame \/ AnchorMoves
             /\ \E h \in Game : Changed(i, h)
  <2> DEFINE g == games[i]
             h == [g EXCEPT !.mode = ModeAfterClose(i)]
  <2>0. g \in Game /\ ModeAfterClose(i) \in BondDistributionModes
    BY <1>0 DEF ModeAfterClose, Game, BondDistributionModes
  <2>1. g \in Game /\ h \in Game
    BY <2>0 DEF Game
  <2>2. Fixed(h) = Fixed(g) /\ h.status = g.status
    BY <2>1 DEF Fixed, Game
  <2>3. games' = [games EXCEPT ![i] = h] /\ anchorGame' = AnchorAfterClose(i)
    BY <1>8 DEF CloseGame
  <2> HIDE DEF h
  <2> QED
    BY <2>1, <2>2, <2>3 DEF Changed, AnchorAfterClose, AnchorMoves
<1>9. ASSUME NEW i \in Indices, NEW a \in Addresses, ClaimCredit(i, a)
      PROVE  /\ anchorGame' = anchorGame \/ AnchorMoves
             /\ \E h \in Game : Changed(i, h)
  <2> DEFINE g == games[i]
             m == ModeAfterClose(i)
             h == Paid(g, m, a)
  <2>0. /\ g \in Game /\ GameInv(g) /\ g.gameType = "succinct" /\ g.status # "IN_PROGRESS"
        /\ m \in {"NORMAL", "REFUND"} /\ g.mode \in {"UNDECIDED", m}
    BY <1>0, <1>9 DEF ClaimCredit, CanClose, IsGameFinalized, GameInv, BondsOK,
       ModeAfterClose, Game, BondDistributionModes
  <2>1. h \in Game
    BY <2>0, PaidKeeps
  <2>2. Fixed(h) = Fixed(g) /\ h.status = g.status
    BY <2>0 DEF Fixed, Game, Paid
  <2>3. games' = [games EXCEPT ![i] = h] /\ anchorGame' = AnchorAfterClose(i)
    BY <1>9 DEF ClaimCredit
  <2> HIDE DEF h
  <2> QED
    BY <2>1, <2>2, <2>3 DEF Changed, AnchorAfterClose, AnchorMoves
<1> QED
  BY <1>1, <1>2, <1>3, <1>4, <1>5, <1>6, <1>7, <1>8, <1>9 DEF Next

(* Games are never removed and their fixed part never changes.             *)
LEMMA FixedKept ==
    ASSUME ChainInv, [Next]_vars
    PROVE  \A j \in Indices : j \in Indices' /\ Fixed(games'[j]) = Fixed(games[j])
<1>1. games \in Seq(Game) /\ Len(games) \in Nat
  BY GamesTyped
<1>2. CASE games' = games
  BY <1>2 DEF Indices
<1>3. CASE \E h : Created(h)
  BY <1>1, <1>3 DEF Created, Indices
<1>4. ASSUME NEW i \in Indices, NEW h \in Game, Changed(i, h)
      PROVE  \A j \in Indices : j \in Indices' /\ Fixed(games'[j]) = Fixed(games[j])
  <2>1. /\ games' = [games EXCEPT ![i] = h] /\ Fixed(h) = Fixed(games[i])
    BY <1>4 DEF Changed
  <2>2. /\ Len(games') = Len(games)
        /\ \A j \in 1..Len(games) : games'[j] = IF j = i THEN h ELSE games[j]
    BY <1>1, <1>4, <2>1, ExceptSeq DEF Indices
  <2> QED
    BY <2>1, <2>2 DEF Indices
<1> QED
  BY <1>2, <1>3, <1>4, StepKinds

-----------------------------------------------------------------------------
(* The games as proposals of ProposalTree.                                 *)
AsProposal(g) == [parent |-> g.parent, block |-> g.l2Block, verdict |-> VerdictName[g.status]]

AsProposals(list) == [i \in 1..Len(list) |-> AsProposal(list[i])]

LEMMA ProposalsTyped ==
    ASSUME NEW list \in Seq(Game)
    PROVE  /\ AsProposals(list) \in Seq({AsProposal(g) : g \in Game})
           /\ Len(AsProposals(list)) = Len(list)
           /\ \A i \in 1..Len(list) : AsProposals(list)[i] = AsProposal(list[i])
<1> DEFINE P == AsProposals(list)
<1>1. Len(list) \in Nat /\ \A i \in 1..Len(list) : list[i] \in Game
  BY ElementOfSeq, LenProperties
<1>2. P \in [1..Len(list) -> {AsProposal(g) : g \in Game}]
  BY <1>1 DEF AsProposals
<1>3. P \in Seq({AsProposal(g) : g \in Game}) /\ Len(P) = Len(list)
  BY <1>1, <1>2, IsASeq, LenProperties
<1> QED
  BY <1>3 DEF AsProposals

LEMMA AppendedProposal ==
    ASSUME NEW list \in Seq(Game), NEW h \in Game
    PROVE  AsProposals(Append(list, h)) = Append(AsProposals(list), AsProposal(h))
<1> DEFINE P == AsProposals(list)
           Q == AsProposals(Append(list, h))
           R == Append(P, AsProposal(h))
           T == {AsProposal(g) : g \in Game}
<1>1. /\ Append(list, h) \in Seq(Game) /\ Len(list) \in Nat
      /\ Len(Append(list, h)) = Len(list) + 1
      /\ \A i \in 1..Len(list) : Append(list, h)[i] = list[i]
      /\ Append(list, h)[Len(list) + 1] = h
  BY AppendProperties, LenProperties
<1>2. /\ P \in Seq(T) /\ Len(P) = Len(list)
      /\ \A i \in 1..Len(list) : P[i] = AsProposal(list[i])
  BY ProposalsTyped
<1>3. /\ Q \in Seq(T) /\ Len(Q) = Len(list) + 1
      /\ \A i \in 1..(Len(list) + 1) : Q[i] = AsProposal(Append(list, h)[i])
  BY <1>1, ProposalsTyped
<1>4. AsProposal(h) \in T
  OBVIOUS
<1> HIDE DEF P, Q, T
<1>5. /\ R \in Seq(T) /\ Len(R) = Len(list) + 1
      /\ \A i \in 1..Len(list) : R[i] = P[i]
      /\ R[Len(list) + 1] = AsProposal(h)
  BY <1>2, <1>4, AppendProperties
<1> HIDE DEF R
<1>6. \A i \in 1..Len(Q) : Q[i] = R[i]
  <2> TAKE i \in 1..Len(Q)
  <2>1. i \in 1..Len(list) \/ i = Len(list) + 1
    BY <1>1, <1>3
  <2> QED
    BY <1>1, <1>2, <1>3, <1>5, <2>1
<1>7. Q = R
  BY <1>3, <1>5, <1>6, SeqEqual
<1> QED
  BY <1>7 DEF P, Q, R

LEMMA ReplacedProposal ==
    ASSUME NEW list \in Seq(Game), NEW i \in 1..Len(list), NEW h \in Game
    PROVE  AsProposals([list EXCEPT ![i] = h]) = [AsProposals(list) EXCEPT ![i] = AsProposal(h)]
<1>1. /\ Len([list EXCEPT ![i] = h]) = Len(list)
      /\ \A j \in 1..Len(list) : [list EXCEPT ![i] = h][j] = IF j = i THEN h ELSE list[j]
  BY ExceptSeq
<1> DEFINE R == [j \in 1..Len(list) |-> IF j = i THEN AsProposal(h) ELSE AsProposal(list[j])]
<1>2. AsProposals([list EXCEPT ![i] = h]) = R
  <2> HIDE DEF R
  <2>1. \A j \in 1..Len(list) : AsProposal([list EXCEPT ![i] = h][j])
                               = IF j = i THEN AsProposal(h) ELSE AsProposal(list[j])
    BY <1>1
  <2> QED
    BY <1>1, <2>1 DEF AsProposals, R
<1>3. [AsProposals(list) EXCEPT ![i] = AsProposal(h)] = R
  BY DEF AsProposals
<1> QED
  BY <1>2, <1>3

LEMMA VerdictNames ==
    /\ VerdictName["IN_PROGRESS"] = "pending" /\ VerdictName["DEFENDER_WINS"] = "accepted"
    /\ VerdictName["CHALLENGER_WINS"] = "rejected"
BY DEF VerdictName

LEMMA TreeStep ==
    ASSUME ChainInv, [Next]_vars
    PROVE  [Tree!TreeNext]_<<Proposals, anchorGame>>
<1>0. /\ games \in Seq(Game) /\ Len(games) \in Nat
      /\ anchorGame \in {NoParent} \union Indices /\ NoParent = 0
      /\ NoParent \notin Indices
      /\ \A i \in Indices : games[i] \in Game /\ ParentOK(i)
  BY GamesTyped DEF ChainInv, BondInv, TypeOK, NoParent, Indices
<1>1. Proposals = AsProposals(games) /\ Proposals' = AsProposals(games')
  BY DEF Proposals, AsProposals, AsProposal, Indices
<1>2. /\ Len(Proposals) = Len(games)
      /\ \A i \in Indices : /\ Proposals[i].parent = games[i].parent
                            /\ Proposals[i].block = games[i].l2Block
                            /\ Proposals[i].verdict = VerdictName[games[i].status]
                            /\ Proposals[i] = AsProposal(games[i])
  <2>1. Len(Proposals) = Len(games) /\ \A i \in Indices : Proposals[i] = AsProposal(games[i])
    BY <1>0, <1>1, ProposalsTyped DEF Indices
  <2> QED
    BY <2>1 DEF AsProposal
<1>3. Tree!HeadBlock = AnchorBlock
  BY <1>0, <1>2 DEF Tree!HeadBlock, AnchorBlock
<1>4. \A i \in Indices : games[i].parent \in {NoParent} \union Indices
  BY <1>0 DEF ParentOK, Indices
<1>5. ASSUME NEW g \in Game, g.parent \in {NoParent} \union Indices
      PROVE  Tree!VerdictOf(g.parent) = VerdictName[ParentGameStatus(g)]
  BY <1>0, <1>2, <1>5, VerdictNames DEF Tree!VerdictOf, ParentGameStatus
<1>6. ASSUME Proposals' = Proposals PROVE [Tree!TreeNext]_<<Proposals, anchorGame>>
  <2>1. CASE anchorGame' = anchorGame
    BY <1>6, <2>1
  <2>2. CASE AnchorMoves
    <3>1. /\ anchorGame' \in 1..Len(Proposals)
          /\ Proposals[anchorGame'].verdict = "accepted"
          /\ Proposals[anchorGame'].block > Tree!HeadBlock
      BY <1>0, <1>2, <1>3, <2>2, VerdictNames
      DEF AnchorMoves, AnchorAccepts, IsGameClaimValid, Indices
    <3>2. Tree!Advance(anchorGame')
      BY <1>6, <3>1 DEF Tree!Advance
    <3> QED
      BY <3>1, <3>2 DEF Tree!TreeNext
  <2> QED
    BY <2>1, <2>2, StepKinds
<1>7. CASE games' = games
  BY <1>1, <1>6, <1>7
<1>8. ASSUME NEW h, anchorGame' = anchorGame, Created(h)
      PROVE  [Tree!TreeNext]_<<Proposals, anchorGame>>
  <2>1. /\ h \in Game /\ h.parent \in {NoParent} \union Indices
        /\ h.status = "IN_PROGRESS" /\ h.l2Block \in 1..MaxBlock
        /\ ParentGameStatus(h) \in {"IN_PROGRESS", "DEFENDER_WINS"}
        /\ h.l2Block > AnchorBlock
        /\ h.parent # NoParent => h.l2Block > games[h.parent].l2Block
    BY <1>0, <1>8 DEF Created, Game, ParentGameStatus, GameStatuses
  <2>2. AsProposal(h) = [parent |-> h.parent, block |-> h.l2Block, verdict |-> "pending"]
    BY <2>1, VerdictNames DEF AsProposal
  <2>3. Proposals' = Append(Proposals, AsProposal(h))
    BY <1>0, <1>1, <1>8, <2>1, AppendedProposal DEF Created
  <2>4. Tree!VerdictOf(h.parent) # "rejected"
    BY <1>5, <2>1, VerdictNames
  <2>5. h.parent # 0 => h.l2Block > Proposals[h.parent].block
    BY <1>0, <1>2, <2>1
  <2>6. Tree!Propose(h.parent, h.l2Block)
    BY <1>3, <1>8, <2>1, <2>2, <2>3, <2>4, <2>5 DEF Tree!Propose
  <2>7. h.parent \in 0..Len(Proposals)
    BY <1>0, <1>2, <2>1 DEF Indices
  <2> QED
    BY <2>1, <2>6, <2>7 DEF Tree!TreeNext
<1>9. ASSUME NEW i \in Indices, NEW h \in Game, Changed(i, h)
      PROVE  [Tree!TreeNext]_<<Proposals, anchorGame>>
  <2>1. /\ games' = [games EXCEPT ![i] = h]
        /\ h.parent = games[i].parent /\ h.l2Block = games[i].l2Block
    BY <1>9 DEF Changed, Fixed
  <2>2. Proposals' = [Proposals EXCEPT ![i] = AsProposal(h)]
    BY <1>0, <1>1, <1>9, <2>1, ReplacedProposal DEF Indices
  <2>3. CASE h.status = games[i].status
    <3>1. AsProposal(h) = Proposals[i]
      BY <1>2, <1>9, <2>1, <2>3 DEF AsProposal
    <3>2. Proposals' = Proposals
      BY <1>0, <1>1, <1>9, <2>2, <3>1 DEF AsProposals
    <3> QED
      BY <1>6, <3>2
  <2>4. CASE h.status # games[i].status
    <3> DEFINE v == VerdictName[h.status]
    <3>1. /\ games[i].status = "IN_PROGRESS" /\ h.status # "IN_PROGRESS"
          /\ ParentGameStatus(h) # "IN_PROGRESS"
          /\ h.status = "DEFENDER_WINS" => ParentGameStatus(h) = "DEFENDER_WINS"
          /\ anchorGame' = anchorGame
          /\ h.status \in GameStatuses
      BY <1>9, <2>4 DEF Changed, Game
    <3>2. ParentGameStatus(h) \in GameStatuses
      BY <1>0, <1>4, <1>9, <2>1 DEF ParentGameStatus, Game, GameStatuses
    <3>3. /\ v \in {"accepted", "rejected"}
          /\ v = "accepted" => h.status = "DEFENDER_WINS"
          /\ Proposals[i].verdict = "pending"
      BY <1>2, <1>9, <3>1, VerdictNames DEF GameStatuses
    <3>4. Tree!VerdictOf(Proposals[i].parent) = VerdictName[ParentGameStatus(h)]
      BY <1>2, <1>4, <1>5, <1>9, <2>1
    <3>5. /\ Tree!VerdictOf(Proposals[i].parent) # "pending"
          /\ v = "accepted" => Tree!VerdictOf(Proposals[i].parent) = "accepted"
      BY <3>1, <3>2, <3>3, <3>4, VerdictNames DEF GameStatuses
    <3>6. AsProposal(h) = [Proposals[i] EXCEPT !.verdict = v]
      <4>1. Proposals[i] = [parent |-> h.parent, block |-> h.l2Block,
                            verdict |-> VerdictName[games[i].status]]
        BY <1>2, <1>9, <2>1 DEF AsProposal
      <4> QED
        BY <4>1 DEF AsProposal
    <3>7. Tree!Decide(i, v)
      BY <2>2, <3>1, <3>3, <3>5, <3>6 DEF Tree!Decide
    <3>8. i \in 1..Len(Proposals)
      BY <1>2, <1>9 DEF Indices
    <3> QED
      BY <3>3, <3>7, <3>8 DEF Tree!TreeNext
  <2> QED
    BY <2>3, <2>4
<1> QED
  BY <1>7, <1>8, <1>9, StepKinds

(* With bonds, clocks, proofs, whitelists and guardian left out, every     *)
(* behaviour of the contracts is a behaviour of ProposalTree.              *)
THEOREM GamesImplementTree == Spec => ImplementsProposalTree
<1>1. Init => Tree!TreeInit
  <2> SUFFICES ASSUME Init PROVE Tree!TreeInit
    OBVIOUS
  <2>1. games = << >> /\ anchorGame = 0
    BY DEF Init, FactoryInit, RegistryInit, NoParent
  <2>2. Indices = {}
    BY <2>1, EmptySeq DEF Indices
  <2>3. Proposals = << >>
    BY <2>2 DEF Proposals
  <2> QED
    BY <2>1, <2>3 DEF Tree!TreeInit
<1>2. ChainInv /\ [Next]_vars => [Tree!TreeNext]_<<Proposals, anchorGame>>
  BY TreeStep
<1> QED
  BY ChainInvariant, <1>1, <1>2, PTL DEF Spec, ImplementsProposalTree, Tree!TreeSpec
-----------------------------------------------------------------------------
(* h is the game g as it may look some steps later.                        *)
Later(g, h) ==
    /\ Fixed(h) = Fixed(g)
    /\ g.status # "IN_PROGRESS" => h.status = g.status /\ h.counteredBy = g.counteredBy
    /\ g.mode # "UNDECIDED" =>
          /\ h.mode = g.mode
          /\ \A a \in Addresses : /\ g.refund[a] = 0 => h.refund[a] = 0
                                  /\ g.normal[a] = 0 => h.normal[a] = 0

(* A lost game owes its pot to whoever countered it.                       *)
CreditOK(g) ==
    g.gameType = "succinct" /\ g.status = "CHALLENGER_WINS" =>
        \A a \in Addresses : a # g.counteredBy => g.normal[a] = 0

(* What each call does to the game it is about.                            *)

LEMMA LaterReflexive == ASSUME NEW g PROVE Later(g, g)
BY DEF Later

LEMMA LaterTransitive ==
    ASSUME NEW g, NEW h, NEW k, Later(g, h), Later(h, k)
    PROVE  Later(g, k)
<1>1. Fixed(k) = Fixed(g)
  BY DEF Later
<1>2. ASSUME g.status # "IN_PROGRESS" PROVE k.status = g.status /\ k.counteredBy = g.counteredBy
  BY <1>2 DEF Later
<1>3. ASSUME g.mode # "UNDECIDED"
      PROVE  /\ k.mode = g.mode
             /\ \A a \in Addresses : /\ g.refund[a] = 0 => k.refund[a] = 0
                                     /\ g.normal[a] = 0 => k.normal[a] = 0
  BY <1>3 DEF Later
<1> QED
  BY <1>1, <1>2, <1>3 DEF Later

LEMMA ChallengedLater ==
    ASSUME NEW g \in Game, GameInv(g), g.gameType = "succinct", g.proposal = "Unchallenged",
           NEW a \in Actors
    PROVE  Later(g, Challenged(g, a)) /\ CreditOK(Challenged(g, a))
           /\ Challenged(g, a).counteredBy = a
<1> DEFINE h == Challenged(g, a)
<1>1. g.status = "IN_PROGRESS" /\ g.mode = "UNDECIDED"
  BY DEF GameInv, RolesOK, BondsOK
<1>2. Fixed(h) = Fixed(g) /\ h.status = g.status /\ h.counteredBy = a
  BY DEF Challenged, Game, Fixed
<1> QED
  BY <1>1, <1>2 DEF Later, CreditOK

LEMMA ProvedLater ==
    ASSUME NEW g \in Game, NEW a \in Actors
    PROVE  Later(g, Proved(g, a)) /\ (CreditOK(g) => CreditOK(Proved(g, a)))
           /\ Proved(g, a).counteredBy = g.counteredBy
<1> DEFINE h == Proved(g, a)
<1>1. /\ Fixed(h) = Fixed(g) /\ h.status = g.status /\ h.counteredBy = g.counteredBy
      /\ h.mode = g.mode /\ h.refund = g.refund /\ h.normal = g.normal /\ h.gameType = g.gameType
  BY DEF Proved, Game, Fixed
<1> HIDE DEF h
<1>2. Later(g, h)
  BY <1>1 DEF Later
<1>3. CreditOK(g) => CreditOK(h)
  BY <1>1 DEF CreditOK
<1> QED
  BY <1>1, <1>2, <1>3 DEF h

LEMMA ResolvedLater ==
    ASSUME NEW g \in Game, GameInv(g), g.gameType = "succinct", g.status = "IN_PROGRESS"
    PROVE  Later(g, Resolved(g)) /\ CreditOK(Resolved(g))
           /\ Resolved(g).counteredBy = g.counteredBy
<1> DEFINE h == Resolved(g)
<1>1. g.mode = "UNDECIDED" /\ \A a \in Addresses : g.normal[a] = 0
  BY DEF GameInv, BondsOK
<1>2. /\ Fixed(h) = Fixed(g) /\ h.status = Verdict(g) /\ h.counteredBy = g.counteredBy
      /\ h.normal = NormalCredit(g)
  BY DEF Resolved, Game, Fixed
<1>3. Verdict(g) = "CHALLENGER_WINS" =>
          \A a \in Addresses : a # g.counteredBy => NormalCredit(g)[a] = 0
  BY <1>1 DEF NormalCredit, Game
<1> HIDE DEF h
<1> QED
  BY <1>1, <1>2, <1>3 DEF Later, CreditOK, h

LEMMA ClosedLater ==
    ASSUME NEW g \in Game, g.mode = "UNDECIDED", NEW m
    PROVE  /\ Later(g, [g EXCEPT !.mode = m])
           /\ CreditOK(g) => CreditOK([g EXCEPT !.mode = m])
           /\ [g EXCEPT !.mode = m].counteredBy = g.counteredBy
<1> DEFINE h == [g EXCEPT !.mode = m]
<1>1. /\ Fixed(h) = Fixed(g) /\ h.status = g.status /\ h.counteredBy = g.counteredBy
      /\ h.normal = g.normal /\ h.gameType = g.gameType
  BY DEF Game, Fixed
<1> HIDE DEF h
<1> QED
  BY <1>1 DEF Later, CreditOK, h

LEMMA PaidLater ==
    ASSUME NEW g \in Game, NEW m, g.mode \in {"UNDECIDED", m}, NEW a \in Addresses
    PROVE  Later(g, Paid(g, m, a)) /\ (CreditOK(g) => CreditOK(Paid(g, m, a)))
           /\ Paid(g, m, a).counteredBy = g.counteredBy
<1> DEFINE h == Paid(g, m, a)
<1>1. /\ Fixed(h) = Fixed(g) /\ h.status = g.status /\ h.counteredBy = g.counteredBy
      /\ h.mode = m /\ h.gameType = g.gameType
      /\ h.refund = [g.refund EXCEPT ![a] = 0] /\ h.normal = [g.normal EXCEPT ![a] = 0]
  BY DEF Paid, Game, Fixed
<1>2. g.refund \in [Addresses -> Nat] /\ g.normal \in [Addresses -> Nat]
  BY DEF Game
<1> HIDE DEF h
<1>3. \A b \in Addresses : /\ g.refund[b] = 0 => h.refund[b] = 0
                           /\ g.normal[b] = 0 => h.normal[b] = 0
  BY <1>1, <1>2
<1>4. Later(g, h)
  BY <1>1, <1>3 DEF Later
<1>5. CreditOK(g) => CreditOK(h)
  BY <1>1, <1>3 DEF CreditOK
<1> QED
  BY <1>1, <1>4, <1>5 DEF h

LEMMA OtherResolvedLater ==
    ASSUME NEW g \in Game, g.gameType = "other", g.status = "IN_PROGRESS", NEW v, NEW t
    PROVE  LET h == [g EXCEPT !.status = v, !.resolvedAt = t] IN
           Later(g, h) /\ CreditOK(h) /\ h.counteredBy = g.counteredBy
<1> DEFINE h == [g EXCEPT !.status = v, !.resolvedAt = t]
<1>1. /\ Fixed(h) = Fixed(g) /\ h.counteredBy = g.counteredBy /\ h.mode = g.mode
      /\ h.refund = g.refund /\ h.normal = g.normal /\ h.gameType = "other"
  BY DEF Game, Fixed
<1> HIDE DEF h
<1>2. Later(g, h)
  BY <1>1 DEF Later
<1>3. CreditOK(h)
  BY <1>1 DEF CreditOK
<1> QED
  BY <1>1, <1>2, <1>3 DEF h
-----------------------------------------------------------------------------
(* The list of games is in the order of their creation.                    *)
CreationOrdered ==
    \A j \in Indices :
        /\ games[j].createdAt <= now
        /\ \A i \in 1..j : games[i].createdAt <= games[j].createdAt

OrderInv == ChainInv /\ CreationOrdered

LEMMA OrderInvStep == OrderInv /\ [Next]_vars => OrderInv'
<1> SUFFICES ASSUME OrderInv, [Next]_vars PROVE CreationOrdered'
  BY ChainInvStep DEF OrderInv
<1>0. /\ ChainInv /\ games \in Seq(Game) /\ Len(games) \in Nat /\ now \in Nat
      /\ \A j \in Indices : games[j].createdAt \in Nat
  BY GamesTyped DEF OrderInv, Game
<1>1. now' \in Nat /\ now <= now'
  <2>1. CASE PassTime
    BY <1>0, <2>1 DEF PassTime, Tick
  <2>2. CASE UNCHANGED now
    BY <1>0, <2>2
  <2>3. PassTime \/ UNCHANGED now
    BY DEF Next, vars, OwnerStep, RegistryStep, Create, CreateOther, ResolveOther,
       Challenge, Prove, Resolve, CloseGame, ClaimCredit
  <2> QED
    BY <2>1, <2>2, <2>3
<1>2. \A j \in Indices : j \in Indices' /\ games'[j].createdAt = games[j].createdAt
  BY <1>0, FixedKept DEF Fixed
<1>3. \A j \in Indices' : j \in Indices \/ (j = Len(games) + 1 /\ games'[j].createdAt = now)
  <2>1. CASE games' = games
    BY <2>1 DEF Indices
  <2>2. CASE \E h : Created(h)
    BY <1>0, <2>2 DEF Created, Indices
  <2>3. CASE \E i \in Indices, h \in Game : Changed(i, h)
    BY <1>0, <2>3, ExceptSeq DEF Changed, Indices
  <2> QED
    BY <1>0, <2>1, <2>2, <2>3, StepKinds
<1>4. ASSUME NEW j \in Indices'
      PROVE  /\ games'[j].createdAt <= now'
             /\ \A i \in 1..j : games'[i].createdAt <= games'[j].createdAt
  <2>1. CASE j \in Indices
    <3>1. \A i \in 1..j : i \in Indices
      BY <1>0, <2>1 DEF Indices
    <3> QED
      BY <1>0, <1>1, <1>2, <2>1, <3>1 DEF OrderInv, CreationOrdered
  <2>2. CASE j = Len(games) + 1 /\ games'[j].createdAt = now
    <3>1. \A i \in 1..j : i \in Indices \/ i = j
      BY <1>0, <2>2 DEF Indices
    <3> QED
      BY <1>0, <1>1, <1>2, <2>2, <3>1 DEF OrderInv, CreationOrdered
  <2> QED
    BY <1>3, <1>4, <2>1, <2>2
<1> QED
  BY <1>4 DEF CreationOrdered

(* Every step leaves the games alone, adds one or lets one of them age.    *)
LEMMA GamesAge ==
    ASSUME ChainInv, [Next]_vars
    PROVE  \/ games' = games
           \/ \E h \in Game : /\ games' = Append(games, h) /\ h.createdAt = now
                              /\ h.deadline = now + MaxChallengeDuration
           \/ \E i \in Indices, h \in Game :
                 /\ games' = [games EXCEPT ![i] = h] /\ Later(games[i], h)
                 /\ h.deadline \in {games[i].deadline, now + MaxProveDuration}
<1> DEFINE Same == games' = games
           Adds(h) == /\ games' = Append(games, h) /\ h.createdAt = now
                      /\ h.deadline = now + MaxChallengeDuration
           Ages(i, h) == /\ games' = [games EXCEPT ![i] = h] /\ Later(games[i], h)
                         /\ h.deadline \in {games[i].deadline, now + MaxProveDuration}
           Goal == Same \/ (\E h \in Game : Adds(h)) \/ (\E i \in Indices, h \in Game : Ages(i, h))
<1> SUFFICES Goal
  OBVIOUS
<1>0. /\ TypeOK /\ now \in Nat
      /\ \A i \in Indices : games[i] \in Game /\ GameInv(games[i])
  BY GamesTyped DEF ChainInv, BondInv
<1>1. CASE PassTime \/ OwnerStep \/ RegistryStep \/ UNCHANGED vars
  BY <1>1 DEF PassTime, OwnerStep, RegistryStep, vars
<1>2. ASSUME NEW a \in Actors, NEW p \in {NoParent} \union Indices, NEW b \in 1..MaxBlock,
             NEW r \in Roots, Create(a, p, b, r)
      PROVE  Goal
  <2> DEFINE h == NewGame("succinct", a, p, b, r)
  <2>1. h \in Game
    BY <1>0, <1>2, NewGameOK DEF Create, CreationBound, GameTypes
  <2>2. Adds(h)
    BY <1>2 DEF Create, NewGame
  <2> QED
    BY <2>1, <2>2
<1>3. ASSUME NEW b \in 1..MaxBlock, NEW r \in Roots, CreateOther(b, r) PROVE Goal
  <2> DEFINE a == CHOOSE x \in Actors : TRUE
             h == NewGame("other", a, NoParent, b, r)
  <2>1. a \in Actors
    BY FactoryAssumption
  <2>2. h \in Game
    BY <1>0, <1>3, <2>1, NewGameOK DEF CreateOther, CreationBound, GameTypes
  <2>3. Adds(h)
    BY <1>3 DEF CreateOther, NewGame
  <2> QED
    BY <2>2, <2>3
<1>4. ASSUME NEW i \in Indices, NEW v \in GameStatuses \ {"IN_PROGRESS"}, ResolveOther(i, v)
      PROVE  Goal
  <2> DEFINE h == [games[i] EXCEPT !.status = v, !.resolvedAt = now]
  <2>1. /\ games[i].gameType = "other" /\ games[i].status = "IN_PROGRESS"
        /\ games' = [games EXCEPT ![i] = h]
    BY <1>4 DEF ResolveOther
  <2>2. h \in Game
    BY <1>0, <2>1, OtherResolvedKeeps
  <2>3. Later(games[i], h)
    BY <1>0, <2>1, OtherResolvedLater
  <2>4. h.deadline = games[i].deadline
    BY <1>0 DEF Game
  <2> HIDE DEF h
  <2> QED
    BY <2>1, <2>2, <2>3, <2>4
<1>5. ASSUME NEW i \in Indices, NEW a \in Actors, Challenge(i, a) PROVE Goal
  <2> DEFINE h == Challenged(games[i], a)
  <2>1. /\ games[i].gameType = "succinct" /\ games[i].proposal = "Unchallenged"
        /\ games' = [games EXCEPT ![i] = h]
    BY <1>5 DEF Challenge
  <2>2. h \in Game
    BY <1>0, <1>5, <2>1, ChallengedKeeps DEF Challenge
  <2>3. Later(games[i], h)
    BY <1>0, <2>1, ChallengedLater
  <2>4. h.deadline = now + MaxProveDuration
    BY <1>0 DEF Game, Challenged
  <2> HIDE DEF h
  <2> QED
    BY <2>1, <2>2, <2>3, <2>4
<1>6. ASSUME NEW i \in Indices, NEW a \in Actors, Prove(i, a) PROVE Goal
  <2> DEFINE h == Proved(games[i], a)
  <2>1. games[i].gameType = "succinct" /\ games' = [games EXCEPT ![i] = h]
    BY <1>6 DEF Prove
  <2>2. h \in Game
    BY <1>0, <1>6, <2>1, ProvedKeeps DEF Prove, GameOver
  <2>3. Later(games[i], h)
    BY <1>0, ProvedLater
  <2>4. h.deadline = games[i].deadline
    BY <1>0 DEF Game, Proved
  <2> HIDE DEF h
  <2> QED
    BY <2>1, <2>2, <2>3, <2>4
<1>7. ASSUME NEW i \in Indices, Resolve(i) PROVE Goal
  <2> DEFINE h == Resolved(games[i])
  <2>1. /\ games[i].gameType = "succinct" /\ games[i].status = "IN_PROGRESS"
        /\ games' = [games EXCEPT ![i] = h]
    BY <1>7 DEF Resolve
  <2>2. h \in Game
    BY <1>0, <2>1, ResolvedKeeps
  <2>3. Later(games[i], h)
    BY <1>0, <2>1, ResolvedLater
  <2>4. h.deadline = games[i].deadline
    BY <1>0 DEF Game, Resolved
  <2> HIDE DEF h
  <2> QED
    BY <2>1, <2>2, <2>3, <2>4
<1>8. ASSUME NEW i \in Indices, CloseGame(i) PROVE Goal
  <2> DEFINE m == ModeAfterClose(i)
             h == [games[i] EXCEPT !.mode = m]
  <2>1. games[i].mode = "UNDECIDED" /\ games' = [games EXCEPT ![i] = h]
    BY <1>8 DEF CloseGame
  <2>2. h \in Game
    BY <1>0 DEF ModeAfterClose, Game, BondDistributionModes
  <2>3. h.deadline = games[i].deadline
    BY <1>0 DEF Game
  <2> HIDE DEF m
  <2>4. Later(games[i], h)
    BY <1>0, <2>1, ClosedLater
  <2> HIDE DEF h
  <2> QED
    BY <2>1, <2>2, <2>3, <2>4
<1>9. ASSUME NEW i \in Indices, NEW a \in Addresses, ClaimCredit(i, a) PROVE Goal
  <2> DEFINE m == ModeAfterClose(i)
             h == Paid(games[i], m, a)
  <2>1. /\ games[i].gameType = "succinct" /\ games[i].status # "IN_PROGRESS"
        /\ m \in {"NORMAL", "REFUND"} /\ games[i].mode \in {"UNDECIDED", m}
    BY <1>0, <1>9 DEF ClaimCredit, CanClose, IsGameFinalized, GameInv, BondsOK,
       ModeAfterClose, Game, BondDistributionModes
  <2>2. h \in Game
    BY <1>0, <2>1, PaidKeeps
  <2>3. games' = [games EXCEPT ![i] = h]
    BY <1>9 DEF ClaimCredit
  <2>4. h.deadline = games[i].deadline
    BY <1>0 DEF Game, Paid
  <2> HIDE DEF m
  <2>5. Later(games[i], h)
    BY <1>0, <2>1, PaidLater
  <2> HIDE DEF h
  <2> QED
    BY <2>2, <2>3, <2>4, <2>5
<1> HIDE DEF Goal
<1> QED
  BY <1>1, <1>2, <1>3, <1>4, <1>5, <1>6, <1>7, <1>8, <1>9 DEF Next

(* Deadlines lie between the creation of a game and the future the two     *)
(* clocks allow.                                                           *)
DeadlinesOK ==
    \A j \in Indices : /\ games[j].createdAt <= games[j].deadline
                       /\ games[j].deadline <= now + MaxChallengeDuration + MaxProveDuration

LEMMA StepAges ==
    ASSUME OrderInv, [Next]_vars
    PROVE  /\ Len(games') >= Len(games) /\ now' >= now
           /\ \A j \in Indices : j \in Indices' /\ Later(games[j], games'[j])
           /\ DeadlinesOK => DeadlinesOK'
<1>0. /\ ChainInv /\ games \in Seq(Game) /\ Len(games) \in Nat /\ now \in Nat
      /\ MaxChallengeDuration \in Nat /\ MaxProveDuration \in Nat
      /\ \A j \in Indices : /\ games[j].createdAt \in Nat /\ games[j].deadline \in Nat
                            /\ games[j].createdAt <= now
  BY GamesTyped, GameAssumption DEF OrderInv, CreationOrdered, Game
<1>1. now' \in Nat /\ now <= now'
  <2>1. CASE PassTime
    BY <1>0, <2>1 DEF PassTime, Tick
  <2>2. CASE UNCHANGED now
    BY <1>0, <2>2
  <2>3. PassTime \/ UNCHANGED now
    BY DEF Next, vars, OwnerStep, RegistryStep, Create, CreateOther, ResolveOther,
       Challenge, Prove, Resolve, CloseGame, ClaimCredit
  <2> QED
    BY <2>1, <2>2, <2>3
<1>2. CASE games' = games
  BY <1>0, <1>1, <1>2, LaterReflexive DEF Indices, DeadlinesOK
<1>3. ASSUME NEW h \in Game, games' = Append(games, h), h.createdAt = now,
             h.deadline = now + MaxChallengeDuration
      PROVE  /\ Len(games') >= Len(games)
             /\ \A j \in Indices : j \in Indices' /\ Later(games[j], games'[j])
             /\ DeadlinesOK => DeadlinesOK'
  <2>1. /\ Len(games') = Len(games) + 1 /\ games'[Len(games) + 1] = h
        /\ \A j \in 1..Len(games) : games'[j] = games[j]
    BY <1>0, <1>3
  <2>2. \A j \in Indices : j \in Indices' /\ Later(games[j], games'[j])
    BY <1>0, <2>1, LaterReflexive DEF Indices
  <2>3. \A j \in Indices' : j \in Indices \/ j = Len(games) + 1
    BY <1>0, <2>1 DEF Indices
  <2>4. DeadlinesOK => DeadlinesOK'
    BY <1>0, <1>1, <1>3, <2>1, <2>3 DEF DeadlinesOK, Indices
  <2> QED
    BY <1>0, <2>1, <2>2, <2>4
<1>4. ASSUME NEW i \in Indices, NEW h \in Game, games' = [games EXCEPT ![i] = h],
             Later(games[i], h), h.deadline \in {games[i].deadline, now + MaxProveDuration}
      PROVE  /\ Len(games') >= Len(games)
             /\ \A j \in Indices : j \in Indices' /\ Later(games[j], games'[j])
             /\ DeadlinesOK => DeadlinesOK'
  <2>1. /\ Len(games') = Len(games)
        /\ \A j \in 1..Len(games) : games'[j] = IF j = i THEN h ELSE games[j]
    BY <1>0, <1>4, ExceptSeq DEF Indices
  <2>2. \A j \in Indices : j \in Indices' /\ Later(games[j], games'[j])
    BY <1>4, <2>1, LaterReflexive DEF Indices
  <2>3. h.createdAt = games[i].createdAt
    BY <1>4 DEF Later, Fixed
  <2>4. DeadlinesOK => DeadlinesOK'
    BY <1>0, <1>1, <1>4, <2>1, <2>3 DEF DeadlinesOK, Indices
  <2> QED
    BY <1>0, <2>1, <2>2, <2>4
<1> QED
  BY <1>0, <1>1, <1>2, <1>3, <1>4, GamesAge

(* f is the backward scan of AccessManager over n games of list, deployed  *)
(* at D.                                                                   *)
LooksBack(f, list, n, D) ==
    \A i \in 0..n : f[i] = IF i = 0 \/ list[i].createdAt < D THEN D
                           ELSE IF list[i].gameType = "succinct" THEN list[i].createdAt
                           ELSE f[i - 1]

(* The equation that defines the scan has a solution.                      *)
LEMMA ScanDefined ==
    ASSUME NEW list, NEW n \in Nat, NEW D
    PROVE  \E f : f = [i \in 0..n |-> f[i]] /\ LooksBack(f, list, n, D)
<1> DEFINE Stop == {i \in 0..n : i = 0 \/ list[i].createdAt < D
                                 \/ list[i].gameType = "succinct"}
           val == [i \in 0..n |-> IF i = 0 \/ list[i].createdAt < D THEN D
                                  ELSE list[i].createdAt]
           go == [i \in 0..n |-> i - 1]
           size == [i \in 0..n |-> i]
<1>1. /\ \A i \in 0..n : size[i] \in Nat /\ size[i] < n + 1
      /\ \A i \in (0..n) \ Stop : go[i] \in 0..n /\ size[go[i]] < size[i]
      /\ n + 1 \in Nat
  OBVIOUS
<1>2. PICK f : Descends(f, 0..n, Stop, val, go)
  <2> HIDE DEF Stop, val, go, size
  <2> QED
    BY <1>1, DescentExists
<1>3. \A i \in 0..n : (IF i \in Stop THEN val[i] ELSE f[go[i]]) =
                      IF i = 0 \/ list[i].createdAt < D THEN D
                      ELSE IF list[i].gameType = "succinct" THEN list[i].createdAt
                      ELSE f[i - 1]
  OBVIOUS
<1> HIDE DEF Stop, val, go, size
<1>4. f = [i \in 0..n |-> f[i]]
  BY <1>2, Zenon DEF Descends
<1>5. LooksBack(f, list, n, D)
  BY <1>2, <1>3 DEF Descends, LooksBack
<1> QED
  BY <1>4, <1>5, Zenon

(* What the scan returns for a list of games in the order of their         *)
(* creation: no OP Succinct game, nor the deployment, is newer.            *)
LEMMA ScanIsLast ==
    ASSUME NEW list, NEW n \in Nat, NEW D \in Nat,
           \A j \in 1..n : /\ list[j].createdAt \in Nat
                           /\ \A i \in 1..j : list[i].createdAt <= list[j].createdAt,
           NEW scan, LooksBack(scan, list, n, D)
    PROVE  /\ scan[n] \in Nat /\ scan[n] >= D
           /\ \A j \in 1..n : list[j].gameType = "succinct" => scan[n] >= list[j].createdAt
<1> DEFINE S == {k \in 0..n :
                    /\ scan[k] \in Nat /\ scan[k] >= D
                    /\ \A j \in 1..k : list[j].gameType = "succinct" =>
                                           scan[k] >= list[j].createdAt}
<1>5. 0 \in S
  BY DEF LooksBack
<1>6. ASSUME NEW k \in 0..(n - 1), k \in S PROVE k + 1 \in S
  <2>1. /\ scan[k] \in Nat /\ scan[k] >= D
        /\ \A j \in 1..k : list[j].gameType = "succinct" => scan[k] >= list[j].createdAt
    BY <1>6
  <2>2. k + 1 \in 1..n /\ k + 1 \in 0..n /\ k + 1 # 0 /\ (k + 1) - 1 = k
    OBVIOUS
  <2>3. \A j \in 1..(k + 1) : /\ j \in 1..k \/ j = k + 1
                              /\ list[j].createdAt \in Nat
                              /\ list[j].createdAt <= list[k + 1].createdAt
    BY <2>2
  <2>4. scan[k + 1] = IF list[k + 1].createdAt < D THEN D
                      ELSE IF list[k + 1].gameType = "succinct" THEN list[k + 1].createdAt
                      ELSE scan[k]
    BY <2>2 DEF LooksBack
  <2>5. list[k + 1].createdAt \in Nat
    BY <2>2
  <2>6. CASE list[k + 1].createdAt < D
    BY <2>2, <2>3, <2>4, <2>5, <2>6
  <2>7. CASE ~(list[k + 1].createdAt < D) /\ list[k + 1].gameType = "succinct"
    BY <2>2, <2>3, <2>4, <2>5, <2>7
  <2>8. CASE ~(list[k + 1].createdAt < D) /\ list[k + 1].gameType # "succinct"
    BY <2>1, <2>2, <2>3, <2>4, <2>5, <2>8
  <2> QED
    BY <2>6, <2>7, <2>8
<1>7. \A k \in 0..n : k \in S
  <2> HIDE DEF S
  <2> QED
    BY <1>5, <1>6, IntervalInduction
<1>8. n \in S
  BY <1>7
<1> QED
  BY <1>8

LEMMA LastProposalIsLast ==
    ASSUME OrderInv
    PROVE  /\ GetLastProposalTimestamp \in Nat
           /\ GetLastProposalTimestamp >= DeploymentTimestamp
           /\ \A j \in Succinct : GetLastProposalTimestamp >= games[j].createdAt
<1> DEFINE n == Len(games)
           B(i, f) == IF i = 0 \/ games[i].createdAt < DeploymentTimestamp
                      THEN DeploymentTimestamp
                      ELSE IF games[i].gameType = "succinct" THEN games[i].createdAt
                      ELSE f[i - 1]
           scan == CHOOSE f : f = [i \in 0..n |-> B(i, f)]
<1>1. GetLastProposalTimestamp = scan[Len(games)]
  BY Zenon DEF GetLastProposalTimestamp
<1>2. /\ Len(games) \in Nat /\ DeploymentTimestamp \in Nat
      /\ \A j \in 1..Len(games) :
            /\ games[j].createdAt \in Nat
            /\ \A i \in 1..j : games[i].createdAt <= games[j].createdAt
  BY GamesTyped, AccessAssumption DEF OrderInv, CreationOrdered, Game, Indices
<1>3. LooksBack(scan, games, n, DeploymentTimestamp)
  <2>1. PICK f : f = [i \in 0..n |-> f[i]] /\ LooksBack(f, games, n, DeploymentTimestamp)
    BY <1>2, ScanDefined, Zenon
  <2>2. \A i \in 0..n : f[i] = B(i, f)
    BY <2>1, Zenon DEF LooksBack
  <2>3. scan = [i \in 0..n |-> B(i, scan)]
    <3> HIDE DEF B, n
    <3>1. f = [i \in 0..n |-> B(i, f)]
      BY <2>1, <2>2
    <3> QED
      BY <3>1, Zenon
  <2>4. \A i \in 0..n : scan[i] = B(i, scan)
    <3> HIDE DEF B, n, scan
    <3> QED
      BY <2>3
  <2> HIDE DEF scan
  <2> QED
    BY <2>4, Zenon DEF LooksBack
<1> HIDE DEF scan
<1>4. /\ scan[Len(games)] \in Nat /\ scan[Len(games)] >= DeploymentTimestamp
      /\ \A j \in 1..Len(games) : games[j].gameType = "succinct" =>
                                      scan[Len(games)] >= games[j].createdAt
  BY <1>2, <1>3, ScanIsLast, Zenon
<1> QED
  BY <1>1, <1>4, Zenon DEF Succinct, Indices

(* An account outside the whitelist creates a game only after the silence  *)
(* the fallback waits for.                                                 *)
THEOREM FallbackAfterSilence == Spec => FallbackOnlyAfterSilence
<1> DEFINE A == \A i \in 1..Len(games') :
                    /\ i > Len(games)
                    /\ games'[i].gameType = "succinct"
                    /\ {games'[i].creator, NoAddress} \intersect proposers = {}
                    => /\ now - DeploymentTimestamp > FallbackTimeout
                       /\ \A j \in Succinct : now - games[j].createdAt > FallbackTimeout
<1>1. OrderInv /\ [Next]_vars => [A]_vars
  <2> SUFFICES ASSUME OrderInv, [Next]_vars, NEW i \in 1..Len(games'), i > Len(games),
                      games'[i].gameType = "succinct",
                      {games'[i].creator, NoAddress} \intersect proposers = {}
               PROVE  /\ now - DeploymentTimestamp > FallbackTimeout
                      /\ \A j \in Succinct : now - games[j].createdAt > FallbackTimeout
    OBVIOUS
  <2>0. /\ ChainInv /\ games \in Seq(Game) /\ Len(games) \in Nat /\ now \in Nat
        /\ \A j \in Indices : games[j].createdAt \in Nat
    BY GamesTyped DEF OrderInv, Game
  <2>1. PICK h : Created(h)
    <3>1. games' # games
      BY <2>0
    <3>2. \A k \in Indices, h \in Game : ~Changed(k, h)
      BY <2>0, ExceptSeq DEF Changed, Indices
    <3> QED
      BY <2>0, <3>1, <3>2, StepKinds
  <2>2. games'[i] = h
    BY <2>0, <2>1 DEF Created
  <2>3. now - GetLastProposalTimestamp > FallbackTimeout
    BY <2>1, <2>2 DEF Created, IsAllowedProposer, IsProposalPermissionlessMode
  <2> QED
    BY <2>0, <2>3, LastProposalIsLast, AccessAssumption DEF Succinct
<1>2. Init => OrderInv
  <2> SUFFICES ASSUME Init PROVE CreationOrdered
    BY ChainInvInit DEF OrderInv
  <2>1. Indices = {}
    BY EmptySeq DEF Init, FactoryInit, Indices
  <2> QED
    BY <2>1 DEF CreationOrdered
<1> QED
  BY OrderInvStep, <1>1, <1>2, PTL DEF Spec, FallbackOnlyAfterSilence
=============================================================================
