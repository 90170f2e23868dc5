-------------------------- MODULE FaultDisputeGame --------------------------
(***************************************************************************)
(* OPSuccinctFaultDisputeGame.sol composed with the factory that creates   *)
(* its games, the AccessManager that authorises proposers and challengers  *)
(* and the AnchorStateRegistry that finalizes them.  Every external        *)
(* function that changes state is one action; a call that reverts is not   *)
(* a step.                                                                 *)
(***************************************************************************)
EXTENDS AccessManager, AnchorStateRegistry

CONSTANTS
    MaxChallengeDuration,  \* MAX_CHALLENGE_DURATION
    MaxProveDuration,      \* MAX_PROVE_DURATION
    TypesInUse             \* the game types a run creates games of

ASSUME GameAssumption ==
    /\ MaxChallengeDuration \in Nat /\ MaxProveDuration \in Nat
    /\ TypesInUse \subseteq GameTypes

vars == <<games, now, proposers, challengers, registryVars>>

accessVars == <<proposers, challengers>>

-----------------------------------------------------------------------------
(* The deadline passed, or a proof was given.                              *)
GameOver(g) == g.deadline < now \/ g.prover # NoAddress

\* mutant: the public values leave out l2PreRoot
ProofVerifies_AnyPreRoot(g) == g.claim \in Roots

(* SP1_VERIFIER.verifyProof on (startingOutputRoot.root, rootClaim): SP1   *)
(* is sound, so no proof leads from the canonical state to a forged root.  *)
(* Nothing is assumed of a start that is itself forged.                    *)
ProofVerifies(g) == g.startRoot = "forged" \/ g.claim = "canonical"

ParentGameStatus(g) ==
    IF g.parent = NoParent THEN "DEFENDER_WINS" ELSE games[g.parent].status

\* mutant: a lost game is accepted as parent
ValidParent_LostToo(p) ==
    /\ IsGameRespected(p) /\ ~IsGameBlacklisted(p) /\ ~IsGameRetired(p)
    /\ games[p].l2Block > AnchorBlock

(* The conditions initialize puts on a parent given by index.              *)
ValidParent(p) ==
    /\ IsGameRespected(p) /\ ~IsGameBlacklisted(p) /\ ~IsGameRetired(p)
    /\ games[p].status # "CHALLENGER_WINS"
    /\ games[p].l2Block > AnchorBlock

StartingBlock(par) == IF par = NoParent THEN AnchorBlock ELSE games[par].l2Block

StartingRoot(par) == IF par = NoParent THEN AnchorRoot ELSE games[par].claim

(* A clone as initialize leaves it, with the creator's bond deposited.     *)
NewGame(type, creator, par, block, root) ==
    [ gameType |-> type, parent |-> par, l2Block |-> block, claim |-> root,
      creator |-> creator,
      startBlock |-> StartingBlock(par), startRoot |-> StartingRoot(par),
      createdAt |-> now,
      wasRespected |-> IF respectedGameType = type THEN "yes" ELSE "no",
      proposal |-> "Unchallenged", counteredBy |-> NoAddress, prover |-> NoAddress,
      deadline |-> now + MaxChallengeDuration,
      status |-> "IN_PROGRESS", resolvedAt |-> 0, mode |-> "UNDECIDED",
      balance |-> InitBond,
      refund |-> [NoCredit EXCEPT ![creator] = InitBond],
      normal |-> NoCredit ]

(* Bounds on creation: how many games, until when, how far ahead.          *)
CreationBound(block, par) ==
    /\ Len(games) < MaxGames
    /\ now <= LastCreation
    /\ block <= StartingBlock(par) + MaxStride

(* DisputeGameFactory.create and the initialize it calls.                  *)
Create(creator, par, block, root) ==
    /\ CreationBound(block, par)
    /\ "succinct" \in TypesInUse
    /\ now >= DeploymentTimestamp
    /\ UniqueUUID("succinct", root, block, par)
    /\ IsAllowedProposer(creator)
    /\ par # NoParent => ValidParent(par)
    /\ block > StartingBlock(par)
    /\ games' = Append(games, NewGame("succinct", creator, par, block, root))
    /\ UNCHANGED <<now, accessVars, registryVars>>

(* A game of another type in the same factory.  It only matters as the     *)
(* parent, the anchor or the neighbour in the list of OP Succinct games;   *)
(* nothing reads who created it.                                           *)
CreateOther(block, root) ==
    /\ CreationBound(block, NoParent)
    /\ "other" \in TypesInUse
    /\ UniqueUUID("other", root, block, NoParent)
    /\ block > AnchorBlock
    /\ games' = Append(games, NewGame("other", CHOOSE a \in Actors : TRUE, NoParent, block, root))
    /\ UNCHANGED <<now, accessVars, registryVars>>

ResolveOther(i, verdict) ==
    /\ games[i].gameType = "other" /\ games[i].status = "IN_PROGRESS"
    /\ games' = [games EXCEPT ![i] = [games[i] EXCEPT !.status = verdict, !.resolvedAt = now]]
    /\ UNCHANGED <<now, accessVars, registryVars>>

\* mutant: the challenger's refund overwrites what it already deposited
Challenged_Overwrites(g, sender) ==
    [g EXCEPT !.counteredBy = sender,
              !.proposal = "Challenged",
              !.deadline = now + MaxProveDuration,
              !.balance = g.balance + ChallengerBond,
              !.refund = [g.refund EXCEPT ![sender] = ChallengerBond]]

(* challenge: the first challenger takes the dispute and restarts the      *)
(* clock for the prover.                                                   *)
Challenged(g, sender) ==
    [g EXCEPT !.counteredBy = sender,
              !.proposal = "Challenged",
              !.deadline = now + MaxProveDuration,
              !.balance = g.balance + ChallengerBond,
              !.refund = [g.refund EXCEPT ![sender] = g.refund[sender] + ChallengerBond]]

Challenge(i, sender) ==
    /\ games[i].gameType = "succinct"
    /\ games[i].proposal = "Unchallenged"
    /\ IsAllowedChallenger(sender)
    /\ ~GameOver(games[i])
    /\ games' = [games EXCEPT ![i] = Challenged(games[i], sender)]
    /\ UNCHANGED <<now, accessVars, registryVars>>

\* mutant: the proposal status is not updated
Proved_StatusKept(g, sender) == [g EXCEPT !.prover = sender]

Proved(g, sender) ==
    [g EXCEPT !.prover = sender,
              !.proposal = IF g.counteredBy = NoAddress
                           THEN "UnchallengedAndValidProofProvided"
                           ELSE "ChallengedAndValidProofProvided"]

(* prove asks neither that the game is in progress nor that its claim is   *)
(* unresolved: only that it is not over.                                   *)
Prove(i, sender) ==
    /\ games[i].gameType = "succinct"
    /\ ~GameOver(games[i])
    /\ ProofVerifies(games[i])
    /\ games' = [games EXCEPT ![i] = Proved(games[i], sender)]
    /\ UNCHANGED <<now, accessVars, registryVars>>

\* mutant: a lost parent does not lose its children
Verdict_ParentIgnored(g) ==
    IF g.proposal = "Challenged" THEN "CHALLENGER_WINS" ELSE "DEFENDER_WINS"

(* resolve: the verdict, and who is credited with the balance.             *)
Verdict(g) ==
    IF ParentGameStatus(g) = "CHALLENGER_WINS" \/ g.proposal = "Challenged"
    THEN "CHALLENGER_WINS" ELSE "DEFENDER_WINS"

\* mutant: the creator is credited the whole balance beside the prover
NormalCredit_BondTwice(g) ==
    IF Verdict(g) = "CHALLENGER_WINS"
        THEN [g.normal EXCEPT ![g.counteredBy] = g.balance]
    ELSE IF g.proposal = "ChallengedAndValidProofProvided" /\ g.prover # g.creator
        THEN [g.normal EXCEPT ![g.prover] = ChallengerBond, ![g.creator] = g.balance]
    ELSE [g.normal EXCEPT ![g.creator] = g.balance]

\* mutant: an unchallenged game with a lost parent credits nobody
NormalCredit_NotBurned(g) ==
    IF Verdict(g) = "CHALLENGER_WINS"
        THEN IF g.counteredBy = NoAddress THEN g.normal
             ELSE [g.normal EXCEPT ![g.counteredBy] = g.balance]
    ELSE [g.normal EXCEPT ![g.creator] = g.balance]

NormalCredit(g) ==
    IF Verdict(g) = "CHALLENGER_WINS"
        THEN [g.normal EXCEPT ![g.counteredBy] = g.balance]
    ELSE IF g.proposal = "ChallengedAndValidProofProvided" /\ g.prover # g.creator
        THEN [g.normal EXCEPT ![g.prover] = ChallengerBond,
                              ![g.creator] = g.balance - ChallengerBond]
    ELSE [g.normal EXCEPT ![g.creator] = g.balance]

Resolved(g) ==
    [g EXCEPT !.status = Verdict(g),
              !.normal = NormalCredit(g),
              !.proposal = "Resolved",
              !.resolvedAt = now]

(* A child of a lost game is settled at once, over or not.                 *)
CanResolve(g) ==
    \/ ParentGameStatus(g) = "CHALLENGER_WINS"
    \/ ParentGameStatus(g) = "DEFENDER_WINS" /\ GameOver(g)

Resolve(i) ==
    /\ games[i].gameType = "succinct"
    /\ games[i].status = "IN_PROGRESS"
    /\ CanResolve(games[i])
    /\ games' = [games EXCEPT ![i] = Resolved(games[i])]
    /\ UNCHANGED <<now, accessVars, registryVars>>

(* closeGame decides the distribution mode once; a failed attempt to       *)
(* become the anchor is swallowed.                                         *)
ModeAfterClose(i) ==
    IF games[i].mode # "UNDECIDED" THEN games[i].mode
    ELSE IF IsGameProper(i) THEN "NORMAL" ELSE "REFUND"

AnchorAfterClose(i) ==
    IF games[i].mode = "UNDECIDED" /\ AnchorAccepts(i) THEN i ELSE anchorGame

CanClose(i) == games[i].mode # "UNDECIDED" \/ IsGameFinalized(i)

CloseGame(i) ==
    /\ games[i].gameType = "succinct"
    /\ games[i].mode = "UNDECIDED"
    /\ CanClose(i)
    /\ anchorGame' = AnchorAfterClose(i)
    /\ games' = [games EXCEPT ![i] = [games[i] EXCEPT !.mode = ModeAfterClose(i)]]
    /\ UNCHANGED <<now, accessVars, blacklisted, retirementTimestamp,
                   respectedGameType, paused>>

(* What claimCredit pays a recipient once the mode is decided.             *)
Credit(g, mode, a) == IF mode = "REFUND" THEN g.refund[a] ELSE g.normal[a]

\* mutant: the credits are not zeroed before the transfer
Paid_CreditKept(g, mode, a) == [g EXCEPT !.mode = mode, !.balance = g.balance - Credit(g, mode, a)]

Paid(g, mode, a) ==
    [g EXCEPT !.mode = mode,
              !.refund = [g.refund EXCEPT ![a] = 0],
              !.normal = [g.normal EXCEPT ![a] = 0],
              !.balance = g.balance - Credit(g, mode, a)]

(* claimCredit: closeGame, then pay.  Anyone may call it for anyone, and   *)
(* a transfer that fails reverts the whole call.                           *)
ClaimCredit(i, recipient) ==
    /\ games[i].gameType = "succinct"
    /\ CanClose(i)
    /\ Credit(games[i], ModeAfterClose(i), recipient) > 0
    /\ anchorGame' = AnchorAfterClose(i)
    /\ games' = [games EXCEPT ![i] = Paid(games[i], ModeAfterClose(i), recipient)]
    /\ UNCHANGED <<now, accessVars, blacklisted, retirementTimestamp,
                   respectedGameType, paused>>

-----------------------------------------------------------------------------
Init == FactoryInit /\ AccessInit /\ RegistryInit

PassTime == Tick /\ UNCHANGED <<games, accessVars, registryVars>>

OwnerStep ==
    /\ \E a \in Addresses, allowed \in BOOLEAN :
          SetProposer(a, allowed) \/ SetChallenger(a, allowed)
    /\ UNCHANGED <<games, now, registryVars>>

RegistryStep ==
    /\ \/ \E i \in Indices : SetAnchorState(i) \/ Blacklist(i)
       \/ UpdateRetirementTimestamp
       \/ \E t \in GameTypes : SetRespectedGameType(t)
       \/ \E p \in {"yes", "no"} : SetPaused(p)
    /\ UNCHANGED <<games, now, accessVars>>

Next ==
    \/ PassTime
    \/ OwnerStep
    \/ RegistryStep
    \/ \E a \in Actors, p \in {NoParent} \union Indices, b \in 1..MaxBlock, r \in Roots :
          Create(a, p, b, r)
    \/ \E b \in 1..MaxBlock, r \in Roots : CreateOther(b, r)
    \/ \E i \in Indices, v \in GameStatuses \ {"IN_PROGRESS"} : ResolveOther(i, v)
    \/ \E i \in Indices, a \in Actors : Challenge(i, a) \/ Prove(i, a)
    \/ \E i \in Indices : Resolve(i) \/ CloseGame(i)
    \/ \E i \in Indices, a \in Addresses : ClaimCredit(i, a)

Spec == Init /\ [][Next]_vars

-----------------------------------------------------------------------------
(* Properties.                                                             *)

TypeOK ==
    /\ games \in Seq(Game)
    /\ now \in Nat
    /\ proposers \subseteq Addresses /\ challengers \subseteq Addresses
    /\ anchorGame \in {NoParent} \union Indices
    /\ blacklisted \subseteq Indices
    /\ retirementTimestamp \in Nat
    /\ respectedGameType \in GameTypes
    /\ paused \in {"yes", "no"}

Succinct == {i \in Indices : games[i].gameType = "succinct"}

(* What an account put into a game: the creator its bond, the challenger   *)
(* its own, an account that is both the sum of the two.                    *)
Deposit(g, a) ==
    (IF a = g.creator THEN InitBond ELSE 0)
    + (IF a = g.counteredBy /\ a # NoAddress THEN ChallengerBond ELSE 0)

(* The entries of a credit mapping add up to a balance, held by two        *)
(* addresses at most.                                                      *)
Owes(credit, balance) ==
    \E a, b \in Addresses :
        /\ a # b
        /\ credit[a] + credit[b] = balance
        /\ \A c \in Addresses \ {a, b} : credit[c] = 0

(* Whatever the order of challenge, proof, resolution, closing and claims, *)
(* and whoever plays several roles at once, the ether a game holds is      *)
(* exactly what it still owes: in either mode while the mode is open,      *)
(* in the decided mode afterwards.  (challenge, resolve and claimCredit    *)
(* keep balance, refundModeCredit and normalModeCredit in step.)           *)
Solvent ==
    \A i \in Succinct : LET g == games[i] IN
        /\ g.mode # "NORMAL" => Owes(g.refund, g.balance)
        /\ g.mode # "REFUND" /\ g.status # "IN_PROGRESS" => Owes(g.normal, g.balance)

(* A game closed as improper pays every depositor its own deposit and      *)
(* nobody else anything, no matter who won the dispute.                    *)
RefundIsDeposit ==
    \A i \in Succinct, a \in Addresses : LET g == games[i] IN
        /\ g.mode = "UNDECIDED" => g.refund[a] = Deposit(g, a)
        /\ g.mode = "REFUND" => g.refund[a] \in {0, Deposit(g, a)}

(* A proposer loses a game whose parent won only if it was challenged and  *)
(* nobody proved it before the prove deadline ran out.                     *)
LosesOnlyUnproven ==
    \A i \in Succinct : LET g == games[i] IN
        g.status = "CHALLENGER_WINS" /\ ParentGameStatus(g) = "DEFENDER_WINS" =>
            /\ g.counteredBy # NoAddress
            /\ g.prover = NoAddress
            /\ g.deadline < g.resolvedAt

(* A forged claim that starts from a canonical root: the one place in a    *)
(* chain of forged claims where a challenger must act.                     *)
FirstLie(g) == g.startRoot = "canonical" /\ g.claim = "forged"

(* A first lie wins only if nobody challenged it: challenge() always beats *)
(* it, because no proof of it verifies.                                    *)
ChallengedLieNeverWins ==
    \A i \in Succinct :
        FirstLie(games[i]) /\ games[i].status = "DEFENDER_WINS" =>
            games[i].counteredBy = NoAddress

(* If no first lie ever won (and no game of another type did with a forged *)
(* claim), the anchor root is canonical: it is enough that every first lie *)
(* is challenged, whatever is built on top of lies.                        *)
OneHonestChallengerSuffices ==
    (\A i \in Indices :
        games[i].status = "DEFENDER_WINS" =>
            /\ games[i].gameType = "succinct" => ~FirstLie(games[i])
            /\ games[i].gameType = "other" => games[i].claim = "canonical")
    => AnchorRoot = "canonical"

(* An account outside the whitelist creates a game only after no OP        *)
(* Succinct game was created for FallbackTimeout seconds, counted from the *)
(* deployment when there is none (isAllowedProposer).                      *)
FallbackOnlyAfterSilence ==
    [][\A i \in 1..Len(games') :
        /\ i > Len(games)
        /\ games'[i].gameType = "succinct"
        /\ {games'[i].creator, NoAddress} \intersect proposers = {}
        => /\ now - DeploymentTimestamp > FallbackTimeout
           /\ \A j \in Succinct : now - games[j].createdAt > FallbackTimeout]_vars

-----------------------------------------------------------------------------
(* The games seen as the proposals of ProposalTree.                        *)
VerdictName == [IN_PROGRESS |-> "pending", DEFENDER_WINS |-> "accepted",
                CHALLENGER_WINS |-> "rejected"]

Proposals == [i \in Indices |-> [parent |-> games[i].parent,
                                 block |-> games[i].l2Block,
                                 verdict |-> VerdictName[games[i].status]]]

Tree == INSTANCE ProposalTree
            WITH proposals <- Proposals, head <- anchorGame, Blocks <- 1..MaxBlock

(* With bonds, clocks, proofs, whitelists and guardian left out, every     *)
(* behaviour of the contracts is a behaviour of ProposalTree: decisions    *)
(* respect the tree, and the anchor climbs along accepted proposals.       *)
ImplementsProposalTree == Tree!TreeSpec
=============================================================================
