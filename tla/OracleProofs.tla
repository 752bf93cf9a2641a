---------------------------- MODULE OracleProofs ----------------------------
(***************************************************************************)
(* Proofs about Oracle for any validators, pairs, ballots, parameters and   *)
(* edits of the parameters: what the vote periods promise, how the          *)
(* whitelist follows the parameters, and when EndBlocker cannot panic.      *)
(***************************************************************************)
EXTENDS Oracle, FoldProofs

\* Leaves are first-order set reasoning unless they cite SMT for arithmetic.
USE Zenon

-----------------------------------------------------------------------------
\* Arithmetic of periods.
LEMMA OneMoreMultiple ==
    ASSUME NEW d \in Nat \ {0}, NEW q \in Int, NEW r \in Int, q < r
    PROVE  d * q + d <= d * r
  BY SMT

LEMMA DivMod ==
    ASSUME NEW n \in Nat, NEW d \in Nat \ {0}
    PROVE  n \div d \in Int /\ n % d \in 0..(d - 1) /\ n = d * (n \div d) + (n % d)
<1>1. n \div d \in Int /\ n % d \in 0..(d - 1)
  BY SMT
<1>2. n = d * (n \div d) + (n % d)
  BY SMT
<1>3. QED
  BY <1>1, <1>2

\* A block that does not close a period stays in it.
LEMMA SamePeriod ==
    ASSUME NEW n \in Nat, NEW d \in Nat \ {0}, (n + 1) % d # 0
    PROVE  (n + 1) \div d = n \div d
  BY SMT

\* After a block that closes a period, what is a whole period old is two periods back.
LEMMA WholePeriodLater ==
    ASSUME NEW n \in Nat, NEW m \in Nat, NEW d \in Nat \ {0}, (n + 1) % d = 0, n >= m + d
    PROVE  (n + 1) \div d - m \div d > 1
<1> DEFINE k == (n + 1) \div d
           j == m \div d
<1>1. k \in Int /\ n + 1 = d * k
  <2>1. n + 1 \in Nat
    BY SMT
  <2>2. (n + 1) \div d \in Int /\ n + 1 = d * ((n + 1) \div d) + ((n + 1) % d)
    BY <2>1, DivMod
  <2>3. d * ((n + 1) \div d) \in Int
    BY <2>2, SMT
  <2>4. QED
    BY <2>2, <2>3, SMT
<1>2. j \in Int /\ m >= d * j
  BY DivMod, SMT
<1> HIDE DEF k, j
<1>3. CASE k <= j + 1
  <2>1. d * k <= d * (j + 1)
    BY <1>1, <1>2, <1>3, OneMoreMultiple, SMT
  <2>2. d * (j + 1) = d * j + d
    BY <1>2, SMT
  <2>3. d * j \in Int /\ d * k \in Int
    BY <1>1, <1>2, SMT
  <2>4. n + 1 <= m + d
    BY <1>1, <1>2, <2>1, <2>2, <2>3, SMT
  <2>5. QED
    BY <2>4, SMT
<1>4. QED
  BY <1>1, <1>2, <1>3, SMT DEF k, j

\* A window that is not shorter than a period has a period.
LEMMA WindowHasPeriod ==
    ASSUME NEW w \in Nat, NEW d \in Nat \ {0}, w >= d
    PROVE  w \div d # 0
  BY SMT

-----------------------------------------------------------------------------
\* What EndBlocker does to the state these proofs are about, when it closes the block ...
Closes(bond) ==
    LET act == newValidatorPerformances(bond)
        tally == IsPeriodLastBlock(params.votePeriod)
    IN  /\ height' = height + 1 /\ bonded' = bond
        /\ UNCHANGED <<params, edited, halted>>
        /\ tally => /\ Prevotes' = Without(Prevotes, ClearedPrevotes)
                    /\ Votes' = <<>>
                    /\ refreshWhitelist(params.whitelist, RemainingPairs(act, bond))
        /\ ~tally => UNCHANGED <<Prevotes, Votes, WhitelistedPairs>>

\* ... and when it panics.
Panics == UNCHANGED <<height, params, edited, Prevotes, Votes, WhitelistedPairs, bonded>>

LEMMA EndBlockerCases ==
    ASSUME EndBlocker
    PROVE  Closes(BondedSet) \/ Panics
  BY DEF EndBlocker, Closes, Panics, UpdateExchangeRates, staking, history

\* The steps that leave prevotes, votes and parameters alone.
OtherStep ==
    /\ UNCHANGED <<height, params, edited, halted, Prevotes, Votes>>
    /\ WhitelistedPairs' \in {WhitelistedPairs, params.whitelist}

LEMMA OracleSteps ==
    ASSUME OracleNext
    PROVE  \/ \E v \in Validators, feeder \in Validators \cup Feeders, b \in Ballots :
                 Prevote(feeder, v, GetAggregateVoteHash(b, v)) \/ Vote(feeder, v, b)
           \/ \E e \in ParamEdits : EditOracleParams(e)
           \/ OtherStep
           \/ EndBlocker
<1>1. ASSUME NEW v \in Validators, NEW feeder \in Feeders, DelegateFeedConsent(v, feeder) PROVE OtherStep
  BY <1>1 DEF DelegateFeedConsent, OtherStep, history
<1>2. ASSUME NEW v \in Validators, JailOrUnjail(v) PROVE OtherStep
  BY <1>2 DEF JailOrUnjail, OtherStep, history
<1>3. ASSUME NEW v \in Validators, RemoveValidator(v) PROVE OtherStep
  BY <1>3 DEF RemoveValidator, OtherStep, history
<1>4. ASSUME NEW f \in Funds, AllocateRewards(f[1], f[2]) PROVE OtherStep
  BY <1>4 DEF AllocateRewards, OtherStep, history
<1>5. ASSUME RestartFromGenesis PROVE OtherStep
  BY <1>5 DEF RestartFromGenesis, OtherStep, history
<1>6. QED
  BY <1>1, <1>2, <1>3, <1>4, <1>5 DEF OracleNext

-----------------------------------------------------------------------------
\* Nothing is committed, revealed or edited in a block that is still to come.
PastHeights ==
    /\ height \in Nat /\ edited \in Int /\ edited <= height
    /\ \A v \in DOMAIN Prevotes : Prevotes[v].submit \in Nat /\ Prevotes[v].submit <= height
    /\ \A v \in DOMAIN Votes : Votes[v].committed \in Nat /\ Votes[v].committed <= height

\* The parameters that the proofs use have their types, edited or not.
ParamTypes ==
    /\ DOMAIN params = ParamNames
    /\ params.votePeriod \in Nat \ {0} /\ params.slashWindow \in Nat
    /\ params.twapLookback \in Nat
    /\ params.whitelist \subseteq Pairs /\ WhitelistedPairs \subseteq Pairs

\* The inductive invariant.
OracleIInv == PastHeights /\ ParamTypes /\ CommitBeforeReveal

LEMMA OracleInvInit == OracleInit => OracleIInv
<1> SUFFICES ASSUME OracleInit PROVE OracleIInv
  OBVIOUS
<1>1. PICK g \in Geneses :
         /\ height = g.height /\ params = g.params /\ WhitelistedPairs = g.params.whitelist
  BY DEF OracleInit
<1>2. /\ g.height \in Nat /\ DOMAIN g.params = ParamNames /\ Validate(g.params)
      /\ g.params.whitelist \subseteq Pairs
      /\ g.params.votePeriod \in Nat /\ g.params.slashWindow \in Nat
      /\ g.params.twapLookback \in Nat
  BY OracleAssumption
<1>3. PastHeights
  BY <1>1, <1>2, SMT DEF OracleInit, PastHeights
<1>4. ParamTypes
  BY <1>1, <1>2, SMT DEF ParamTypes, Validate
<1>5. QED
  BY <1>3, <1>4, SMT DEF OracleInit, OracleIInv, CommitBeforeReveal

LEMMA PrevoteKeeps ==
    ASSUME OracleIInv, NEW v, NEW feeder, NEW hash, Prevote(feeder, v, hash)
    PROVE  OracleIInv'
<1>1. PastHeights'
  BY SMT DEF OracleIInv, PastHeights, Prevote, With, history
<1>2. QED
  BY <1>1 DEF OracleIInv, ParamTypes, CommitBeforeReveal, PeriodOf, Prevote, history

\* A revealed vote was committed in the period before: its prevote says so.
LEMMA VoteKeeps ==
    ASSUME OracleIInv, NEW v, NEW feeder, NEW rates, Vote(feeder, v, rates)
    PROVE  OracleIInv'
<1>1. /\ UNCHANGED <<height, params, WhitelistedPairs, halted, edited>>
      /\ v \in DOMAIN Prevotes /\ RevealPeriod(Prevotes[v].submit)
      /\ DOMAIN Votes' = DOMAIN Votes \cup {v}
      /\ Votes'[v].committed = Prevotes[v].submit
      /\ \A w \in DOMAIN Votes \ {v} : Votes'[w] = Votes[w]
      /\ DOMAIN Prevotes' \subseteq DOMAIN Prevotes
      /\ \A w \in DOMAIN Prevotes' : Prevotes'[w] = Prevotes[w]
  BY DEF Vote, With, Without, Restrict, history
<1>2. PastHeights'
  BY <1>1 DEF OracleIInv, PastHeights
<1>3. PeriodOf(Prevotes[v].submit) = PeriodOf(height) - 1
  <2>1. PeriodOf(height) \in Int /\ PeriodOf(Prevotes[v].submit) \in Int
    BY <1>1, SMT DEF OracleIInv, PastHeights, ParamTypes, PeriodOf
  <2>2. QED
    BY <1>1, <2>1, SMT DEF RevealPeriod
<1>4. CommitBeforeReveal'
  BY <1>1, <1>3 DEF OracleIInv, CommitBeforeReveal, PeriodOf
<1>5. QED
  BY <1>1, <1>2, <1>4 DEF OracleIInv, ParamTypes

\* A vote that waits while VotePeriod changes was committed before the change.
LEMMA EditKeeps ==
    ASSUME OracleIInv, ~halted, NEW e \in ParamEdits, EditOracleParams(e)
    PROVE  OracleIInv'
<1>1. /\ DOMAIN params' = DOMAIN params
      /\ \A f \in DOMAIN params : params'[f] = IF f \in DOMAIN e THEN e[f] ELSE params[f]
      /\ edited' = IF params'.votePeriod # params.votePeriod THEN height ELSE edited
      /\ UNCHANGED <<height, WhitelistedPairs, Prevotes, Votes, halted>>
  BY DEF EditOracleParams, mergeOracleParams
<1>2. ParamTypes'
  <2>1. /\ "whitelist" \in DOMAIN e => e.whitelist \in SUBSET Pairs \ {{}}
        /\ \A f \in {"votePeriod", "slashWindow", "twapLookback"} \cap DOMAIN e : e[f] \in Nat \ {0}
    BY OracleAssumption
  <2>2. QED
    BY <1>1, <2>1 DEF OracleIInv, ParamTypes, ParamNames
<1>3. PastHeights'
  BY <1>1, SMT DEF OracleIInv, PastHeights
<1>4. CommitBeforeReveal'
  <2>1. CASE params'.votePeriod = params.votePeriod
    BY <1>1, <2>1 DEF OracleIInv, CommitBeforeReveal, PeriodOf
  <2>2. CASE params'.votePeriod # params.votePeriod
    <3>1. \A v \in DOMAIN Votes : ~(Votes[v].committed > height)
      BY SMT DEF OracleIInv, PastHeights
    <3>2. QED
      BY <1>1, <2>2, <3>1 DEF CommitBeforeReveal
  <2>3. QED
    BY <2>1, <2>2
<1>5. QED
  BY <1>1, <1>2, <1>3, <1>4 DEF OracleIInv

\* A tally consumes the votes; any other block stays in the period.
LEMMA ClosesKeeps ==
    ASSUME OracleIInv, ~halted, NEW bond, Closes(bond)
    PROVE  OracleIInv'
<1>0. PastHeights /\ ParamTypes
  BY DEF OracleIInv
<1>1. height' = height + 1 /\ UNCHANGED <<params, edited, halted>>
  BY DEF Closes
<1>2. ParamTypes'
  BY <1>0, <1>1 DEF ParamTypes, Closes, refreshWhitelist
<1>3. CASE IsPeriodLastBlock(params.votePeriod)
  <2>1. /\ Votes' = <<>> /\ DOMAIN Prevotes' \subseteq DOMAIN Prevotes
        /\ \A w \in DOMAIN Prevotes' : Prevotes'[w] = Prevotes[w]
    BY <1>3 DEF Closes, Without, Restrict
  <2>2. PastHeights'
    BY <1>0, <1>1, <2>1, SMT DEF PastHeights
  <2>3. QED
    BY <1>1, <1>2, <2>1, <2>2, SMT DEF OracleIInv, CommitBeforeReveal
<1>4. CASE ~IsPeriodLastBlock(params.votePeriod)
  <2>1. UNCHANGED <<Votes, Prevotes>>
    BY <1>4 DEF Closes
  <2>2. PastHeights'
    BY <1>0, <1>1, <2>1, SMT DEF PastHeights
  <2>3. (height + 1) \div params.votePeriod = height \div params.votePeriod
    BY <1>0, <1>4, SamePeriod DEF PastHeights, ParamTypes, IsPeriodLastBlock
  <2>4. CommitBeforeReveal'
    BY <1>1, <2>1, <2>3 DEF OracleIInv, CommitBeforeReveal, PeriodOf
  <2>5. QED
    BY <1>1, <1>2, <2>2, <2>4 DEF OracleIInv
<1>5. QED
  BY <1>3, <1>4

LEMMA PanicsKeeps ==
    ASSUME OracleIInv, Panics
    PROVE  OracleIInv'
  BY DEF OracleIInv, PastHeights, ParamTypes, CommitBeforeReveal, PeriodOf, Panics

LEMMA OracleInvStep == OracleIInv /\ [OracleNext]_oracleVars => OracleIInv'
<1> SUFFICES ASSUME OracleIInv, [OracleNext]_oracleVars PROVE OracleIInv'
  OBVIOUS
<1>1. CASE OracleNext
  <2>1. ~halted
    BY <1>1 DEF OracleNext
  <2>2. CASE OtherStep
    BY <2>2 DEF OtherStep, OracleIInv, PastHeights, ParamTypes, CommitBeforeReveal, PeriodOf
  <2>3. CASE EndBlocker
    BY <2>1, <2>3, EndBlockerCases, ClosesKeeps, PanicsKeeps
  <2>4. QED
    BY <1>1, <2>1, <2>2, <2>3, OracleSteps, PrevoteKeeps, VoteKeeps, EditKeeps
<1>2. CASE UNCHANGED oracleVars
  BY <1>2 DEF oracleVars, history, OracleIInv, PastHeights, ParamTypes, CommitBeforeReveal, PeriodOf
<1>3. QED
  BY <1>1, <1>2

-----------------------------------------------------------------------------
\* Every vote that waits for a tally was committed in the vote period before, for any period
\* and any edits of the parameters that do not change its length (AggregateExchangeRateVote).
THEOREM CommitSafety == OracleSpec => []CommitBeforeReveal
<1>1. OracleIInv => CommitBeforeReveal
  BY DEF OracleIInv
<1>2. QED
  BY <1>1, OracleInvInit, OracleInvStep, PTL DEF OracleSpec

\* Only a block changes the height, so only a block matters to the two properties below.
LEMMA BlocksOnly ==
    ASSUME OracleNext, height' # height, OracleIInv
    PROVE  EndBlocker /\ Closes(BondedSet)
<1>1. \A v \in Validators, feeder \in Validators \cup Feeders, b \in Ballots :
         ~Prevote(feeder, v, GetAggregateVoteHash(b, v)) /\ ~Vote(feeder, v, b)
  BY DEF Prevote, Vote
<1>2. \A e \in ParamEdits : ~EditOracleParams(e)
  BY DEF EditOracleParams
<1>3. ~OtherStep /\ ~Panics
  BY DEF OtherStep, Panics
<1>4. QED
  BY <1>1, <1>2, <1>3, OracleSteps, EndBlockerCases

\* A commitment is kept until its whole reveal period is over, for any vote period and
\* height of its submission (clearVotesAndPrevotes).
THEOREM PrevoteSafety == OracleSpec => PrevoteSurvivesRevealPeriod
<1> DEFINE Survives == \A v \in DOMAIN Prevotes :
                          height' # height /\ v \notin DOMAIN Prevotes' =>
                              PeriodOf(height') - PeriodOf(Prevotes[v].submit) > 1
<1>1. OracleIInv /\ [OracleNext]_oracleVars => [Survives]_oracleVars
  <2> SUFFICES ASSUME OracleIInv, OracleNext, NEW v \in DOMAIN Prevotes,
                      height' # height, v \notin DOMAIN Prevotes'
               PROVE  PeriodOf(height') - PeriodOf(Prevotes[v].submit) > 1
    OBVIOUS
  <2>1. Closes(BondedSet)
    BY BlocksOnly
  <2>2. /\ IsPeriodLastBlock(params.votePeriod) /\ height' = height + 1
        /\ v \in ClearedPrevotes
    BY <2>1 DEF Closes, Without, Restrict
  <2>3. /\ (height + 1) % params.votePeriod = 0
        /\ height >= Prevotes[v].submit + params.votePeriod
    BY <2>2 DEF IsPeriodLastBlock, ClearedPrevotes
  <2>4. height \in Nat /\ Prevotes[v].submit \in Nat /\ params.votePeriod \in Nat \ {0}
    BY DEF OracleIInv, PastHeights, ParamTypes
  <2>5. QED
    BY <2>2, <2>3, <2>4, WholePeriodLater DEF PeriodOf
<1>2. QED
  BY <1>1, OracleInvInit, OracleInvStep, PTL DEF OracleSpec, PrevoteSurvivesRevealPeriod

\* After a tally the pairs that may be voted on are those of the parameters, and at most
\* those whose ballot failed in it: comparing the sizes and one inclusion is enough, although
\* refreshWhitelist is given a set that lacks the pairs that failed.
THEOREM WhitelistSafety == OracleSpec => WhitelistFollowsParams
<1> DEFINE FollowsStep ==
             height' # height /\ IsPeriodLastBlock(params.votePeriod) =>
                LET act == newValidatorPerformances(bonded')
                    failed == WhitelistedPairs \ RemainingPairs(act, bonded')
                IN /\ params.whitelist \subseteq WhitelistedPairs'
                   /\ WhitelistedPairs' \ params.whitelist \subseteq failed
<1>1. OracleIInv /\ [OracleNext]_oracleVars => [FollowsStep]_oracleVars
  <2> SUFFICES ASSUME OracleIInv, OracleNext, height' # height, IsPeriodLastBlock(params.votePeriod)
               PROVE  FollowsStep
    OBVIOUS
  <2> DEFINE bond == BondedSet
             next == params.whitelist
             current == RemainingPairs(newValidatorPerformances(bond), bond)
  <2>1. bonded' = bond /\ refreshWhitelist(next, current)
    BY BlocksOnly DEF Closes
  <2>2. current \subseteq WhitelistedPairs /\ IsFiniteSet(current)
    <3>1. current \subseteq WhitelistedPairs
      BY DEF RemainingPairs
    <3>2. QED
      BY <3>1, OracleAssumption, FS_Subset DEF OracleIInv, ParamTypes
  <2> HIDE DEF current
  <2>3. CASE Cardinality(current) # Cardinality(next) \/ ~(next \subseteq current)
    BY <2>1, <2>3 DEF refreshWhitelist
  <2>4. CASE Cardinality(current) = Cardinality(next) /\ next \subseteq current
    <3>1. next = current
      BY <2>2, <2>4, FS_Subset
    <3>2. WhitelistedPairs' = WhitelistedPairs
      BY <2>1, <2>4 DEF refreshWhitelist
    <3>3. QED
      BY <2>1, <2>2, <3>1, <3>2 DEF current
  <2>5. QED
    BY <2>3, <2>4
<1>2. QED
  BY <1>1, OracleInvInit, OracleInvStep, PTL DEF OracleSpec, WhitelistFollowsParams

-----------------------------------------------------------------------------
\* The types of what a tally computes with: powers, revealed rates and stored prices.
MarketTypes ==
    /\ IsFiniteSet(Validators) /\ power \in [Validators -> Nat \ {0}]
    /\ \A v \in DOMAIN Votes : \A p \in DOMAIN Votes[v].rates : Votes[v].rates[p] \in Int
    /\ \A p \in DOMAIN ExchangeRates : ExchangeRates[p] \in [rate : Int, created : Nat]
    /\ \A p \in DOMAIN PriceSnapshots :
          /\ IsFiniteSet(DOMAIN PriceSnapshots[p])
          /\ \A t \in DOMAIN PriceSnapshots[p] : t \in Int /\ PriceSnapshots[p][t] \in Int

\* The powers with which the validators vote on a pair.
Powers(p) == [v \in Validators |-> VotePower(v, p)]

LEMMA PowersType ==
    ASSUME MarketTypes, NEW p
    PROVE  \A v \in Validators : Powers(p)[v] = VotePower(v, p) /\ VotePower(v, p) \in Nat
  BY DEF MarketTypes, Powers, VotePower

\* The power of a set of votes is a sum of powers: natural, additive and monotone.
LEMMA PowerOfSum ==
    ASSUME MarketTypes, NEW p, NEW S \in SUBSET Validators
    PROVE  /\ PowerOf(S, p) = SumFunctionOnSet(Powers(p), S)
           /\ PowerOf(S, p) \in Nat /\ IsFiniteSet(S)
<1> DEFINE f == [v \in S |-> VotePower(v, p)]
<1>1. IsFiniteSet(S)
  BY FS_Subset DEF MarketTypes
<1>2. \A v \in S : f[v] \in Int /\ f[v] = Powers(p)[v] /\ Powers(p)[v] \in Nat
  BY PowersType, SMT
<1>3. PowerOf(S, p) = SumFunctionOnSet(f, S)
  BY DEF PowerOf, SumFunction
<1> HIDE DEF f
<1>4. SumFunctionOnSet(f, S) = SumFunctionOnSet(Powers(p), S)
  BY <1>1, <1>2, SumSame
<1>5. SumFunctionOnSet(Powers(p), S) \in Nat
  BY <1>1, <1>2, SumNat
<1>6. QED
  BY <1>1, <1>3, <1>4, <1>5

LEMMA PowerOfParts ==
    ASSUME MarketTypes, NEW p, NEW S \in SUBSET Validators, NEW R \in SUBSET Validators,
           S \cap R = {}
    PROVE  PowerOf(S \cup R, p) = PowerOf(S, p) + PowerOf(R, p)
<1>1. \A v \in S \cup R : Powers(p)[v] \in Int
  BY PowersType, SMT
<1>2. S \cup R \in SUBSET Validators /\ IsFiniteSet(S) /\ IsFiniteSet(R)
  BY PowerOfSum
<1>3. SumFunctionOnSet(Powers(p), S \cup R)
        = SumFunctionOnSet(Powers(p), S) + SumFunctionOnSet(Powers(p), R)
  BY <1>1, <1>2, SumUnion
<1>4. QED
  BY <1>2, <1>3, PowerOfSum

LEMMA PowerOfFewer ==
    ASSUME MarketTypes, NEW p, NEW S \in SUBSET Validators, NEW R \in SUBSET S
    PROVE  PowerOf(R, p) <= PowerOf(S, p)
<1>1. R \in SUBSET Validators /\ S \ R \in SUBSET Validators /\ R \cup (S \ R) = S
  OBVIOUS
<1>2. PowerOf(S, p) = PowerOf(R, p) + PowerOf(S \ R, p)
  BY <1>1, PowerOfParts, SMT
<1>3. QED
  BY <1>1, <1>2, PowerOfSum, SMT

\* Votes without power: the power of no vote, and of abstentions.
LEMMA NoPower ==
    ASSUME MarketTypes, NEW p, NEW S \in SUBSET Validators, \A v \in S : IsAbstain(v, p)
    PROVE  PowerOf(S, p) = 0
<1>1. \A v \in S : Powers(p)[v] = 0
  BY DEF Powers, VotePower
<1>2. QED
  BY <1>1, PowerOfSum, SumZero

LEMMA HalfOf ==
    ASSUME NEW n \in Nat
    PROVE  n \div 2 \in Nat /\ 2 * (n \div 2) <= n /\ n <= 2 * (n \div 2) + 1
  BY SMT

\* The voters at or below a rate.
UpTo(act, p, r) == {v \in Voters(act, p) : Rate(v, p) <= r}

LEMMA VotersType ==
    ASSUME MarketTypes, NEW p, NEW act \in SUBSET Validators
    PROVE  /\ Voters(act, p) \subseteq Validators /\ IsFiniteSet(Voters(act, p))
           /\ \A v \in Voters(act, p) : Rate(v, p) \in Int
           /\ {Rate(v, p) : v \in Voters(act, p)} \subseteq Int
           /\ IsFiniteSet({Rate(v, p) : v \in Voters(act, p)})
<1>1. Voters(act, p) \in SUBSET Validators
  BY DEF Voters
<1>2. \A v \in Voters(act, p) : Rate(v, p) \in Int
  BY DEF Voters, Rate, MarketTypes
<1>3. IsFiniteSet(Voters(act, p))
  BY <1>1, PowerOfSum
<1>4. IsFiniteSet({Rate(v, p) : v \in Voters(act, p)})
  <2> DEFINE f == [v \in Voters(act, p) |-> Rate(v, p)]
  <2>1. {Rate(v, p) : v \in Voters(act, p)} = {f[v] : v \in Voters(act, p)}
    OBVIOUS
  <2>2. IsFiniteSet({f[v] : v \in Voters(act, p)})
    <3> HIDE DEF f
    <3> QED BY <1>3, ImageFinite
  <2>3. QED
    BY <2>1, <2>2
<1>5. QED
  BY <1>1, <1>2, <1>3, <1>4

\* WeightedMedian is the least rate at which the power up to it reaches one half.
LEMMA MedianIsLeast ==
    ASSUME MarketTypes, NEW p, NEW act \in SUBSET Validators, Voters(act, p) # {}
    PROVE  LET half == PowerOf(Voters(act, p), p) \div 2
               median == WeightedMedian(act, p)
           IN  /\ \E v \in Voters(act, p) : Rate(v, p) = median
               /\ PowerOf(UpTo(act, p, median), p) >= half
               /\ \A v \in Voters(act, p) :
                     PowerOf(UpTo(act, p, Rate(v, p)), p) >= half => median <= Rate(v, p)
<1> DEFINE ballot == Voters(act, p)
           rates == {Rate(v, p) : v \in ballot}
           half == PowerOf(ballot, p) \div 2
           reach == {r \in rates : PowerOf(UpTo(act, p, r), p) >= half}
<1>1. rates \in SUBSET Int /\ IsFiniteSet(rates) /\ rates # {}
  BY VotersType
<1>2. reach \in SUBSET Int /\ IsFiniteSet(reach)
  <2>1. reach \in SUBSET rates
    OBVIOUS
  <2>2. QED
    BY <1>1, <2>1, FS_Subset
<1>3. reach # {}
  <2> DEFINE top == Max(rates)
  <2>1. top \in rates /\ \A r \in rates : top >= r
    <3> HIDE DEF rates
    <3> QED BY <1>1, MaxOfFinite
  <2>2. UpTo(act, p, top) = ballot
    <3>1. \A v \in ballot : Rate(v, p) \in Int /\ top \in Int /\ top >= Rate(v, p)
      BY <1>1, <2>1
    <3> HIDE DEF top, rates
    <3>2. \A v \in ballot : Rate(v, p) <= top
      BY <3>1
    <3>3. QED
      BY <3>2 DEF UpTo
  <2>3. PowerOf(ballot, p) >= half
    <3>1. PowerOf(ballot, p) \in Nat
      BY VotersType, PowerOfSum
    <3> HIDE DEF ballot
    <3>2. QED
      BY <3>1, HalfOf, SMT
  <2>4. QED
    BY <2>1, <2>2, <2>3
<1>4. WeightedMedian(act, p) = Min(reach)
  BY DEF WeightedMedian, UpTo
<1>5. Min(reach) \in reach /\ \A r \in reach : Min(reach) <= r
  <2> HIDE DEF reach
  <2> QED BY <1>2, <1>3, MinOfFinite
<1>6. QED
  BY <1>4, <1>5

\* The median splits the power of its ballot: less than half below it and, up to the rounding
\* of the half, at most half above it.
LEMMA MedianSplits ==
    ASSUME MarketTypes, NEW p, NEW act \in SUBSET Validators, PowerOf(Voters(act, p), p) # 0
    PROVE  LET total == PowerOf(Voters(act, p), p)
               median == WeightedMedian(act, p)
           IN  /\ Voters(act, p) # {} /\ total \in Nat /\ median \in Int
               /\ total > 1 => median > 0
               /\ 2 * PowerOf({v \in Voters(act, p) : Rate(v, p) < median}, p) < total
               /\ 2 * PowerOf({v \in Voters(act, p) : Rate(v, p) > median}, p) <= total + 1
<1> DEFINE ballot == Voters(act, p)
           total == PowerOf(ballot, p)
           median == WeightedMedian(act, p)
           below == {v \in ballot : Rate(v, p) < median}
           above == {v \in ballot : Rate(v, p) > median}
           to(r) == UpTo(act, p, r)
<1>1. ballot \in SUBSET Validators /\ IsFiniteSet(ballot) /\ \A v \in ballot : Rate(v, p) \in Int
  BY VotersType
<1>2. ballot # {}
  BY NoPower
<1>3. total \in Nat
  BY <1>1, PowerOfSum
<1>4. /\ \E v \in ballot : Rate(v, p) = median
      /\ PowerOf(to(median), p) >= total \div 2
      /\ \A v \in ballot : PowerOf(to(Rate(v, p)), p) >= total \div 2 => median <= Rate(v, p)
  BY <1>2, MedianIsLeast
<1>5. median \in Int
  BY <1>1, <1>4
<1>6. \A r : to(r) \in SUBSET ballot
  BY DEF UpTo
<1>7. \A r : PowerOf(to(r), p) \in Nat
  BY <1>1, <1>6, PowerOfSum
<1>8. below \in SUBSET ballot /\ above \in SUBSET ballot
  OBVIOUS
<1>9. total \div 2 \in Nat /\ 2 * (total \div 2) <= total /\ total <= 2 * (total \div 2) + 1
  <2> HIDE DEF total
  <2> QED BY <1>3, HalfOf
<1> HIDE DEF median
<1>10. total > 1 => median > 0
  <2> SUFFICES ASSUME ~(median > 0) PROVE ~(total > 1)
    OBVIOUS
  <2>1. \A v \in to(median) : IsAbstain(v, p)
    BY <1>1, <1>5, <1>6, SMT DEF UpTo, IsAbstain
  <2>2. PowerOf(to(median), p) = 0
    BY <1>1, <1>6, <2>1, NoPower
  <2> HIDE DEF total, to
  <2>3. QED
    BY <1>3, <1>4, <1>9, <2>2, SMT
<1>11. 2 * PowerOf(below, p) < total
  <2>1. CASE below = {}
    <3>1. PowerOf(below, p) = 0
      BY <2>1, NoPower
    <3> HIDE DEF total, below
    <3>2. QED
      BY <1>3, <3>1, SMT DEF total
  <2>2. CASE below # {}
    <3> DEFINE rates == {Rate(v, p) : v \in below}
    <3>1. rates \in SUBSET Int /\ rates # {} /\ IsFiniteSet(rates)
      <4>1. rates \in SUBSET {Rate(v, p) : v \in ballot}
        OBVIOUS
      <4>2. rates # {}
        BY <2>2
      <4>3. IsFiniteSet({Rate(v, p) : v \in ballot}) /\ {Rate(v, p) : v \in ballot} \subseteq Int
        BY VotersType
      <4> HIDE DEF rates
      <4>4. QED
        BY <4>1, <4>2, <4>3, FS_Subset
    <3>2. Max(rates) \in rates /\ \A r \in rates : Max(rates) >= r
      <4> HIDE DEF rates
      <4> QED BY <3>1, MaxOfFinite
    <3>3. PICK w \in below : Rate(w, p) = Max(rates)
      BY <3>2
    <3>4. \A v \in below : Rate(v, p) <= Rate(w, p)
      <4>1. \A v \in below : Max(rates) >= Rate(v, p)
        BY <3>2
      <4>2. \A v \in below : Rate(v, p) \in Int /\ Max(rates) \in Int
        BY <1>1, <3>1, <3>2
      <4> HIDE DEF rates
      <4>3. QED
        BY <3>3, <4>1, <4>2
    <3>5. below \in SUBSET to(Rate(w, p))
      BY <3>4 DEF UpTo
    <3>6. PowerOf(below, p) <= PowerOf(to(Rate(w, p)), p)
      <4>1. to(Rate(w, p)) \in SUBSET Validators
        BY <1>1, <1>6
      <4> HIDE DEF to, below
      <4>2. QED
        BY <3>5, <4>1, PowerOfFewer
    <3>7. ~(PowerOf(to(Rate(w, p)), p) >= total \div 2)
      BY <1>1, <1>4, <1>5, SMT
    <3>8. PowerOf(below, p) \in Nat /\ PowerOf(to(Rate(w, p)), p) \in Nat
      BY <1>1, <1>7, <1>8, PowerOfSum
    <3> HIDE DEF to, below, total
    <3>9. QED
      BY <1>3, <1>9, <3>6, <3>7, <3>8, SMT
  <2>3. QED
    BY <2>1, <2>2
<1>12. 2 * PowerOf(above, p) <= total + 1
  <2>1. to(median) \cap above = {} /\ to(median) \cup above = ballot
    BY <1>1, <1>5, SMT DEF UpTo
  <2>2. total = PowerOf(to(median), p) + PowerOf(above, p)
    <3>1. to(median) \in SUBSET Validators /\ above \in SUBSET Validators
      BY <1>1, <1>6, <1>8
    <3>2. PowerOf(to(median) \cup above, p) = PowerOf(to(median), p) + PowerOf(above, p)
      <4> HIDE DEF to, above
      <4> QED BY <2>1, <3>1, PowerOfParts
    <3>3. QED
      BY <2>1, <3>2
  <2>3. PowerOf(above, p) \in Nat /\ PowerOf(to(median), p) \in Nat
    BY <1>1, <1>7, <1>8, PowerOfSum
  <2> HIDE DEF to, above, total
  <2>4. QED
    BY <1>3, <1>4, <1>9, <2>2, <2>3, SMT
<1>13. QED
  BY <1>2, <1>3, <1>5, <1>10, <1>11, <1>12 DEF median

\* A rate with a majority of the power, by more than the unit that rounding may cost, is the median.
LEMMA MajorityIsMedian ==
    ASSUME MarketTypes, NEW p, NEW act \in SUBSET Validators, NEW v \in Voters(act, p),
           ~(2 * PowerOf({w \in Voters(act, p) : Rate(w, p) = Rate(v, p)}, p)
               <= PowerOf(Voters(act, p), p) + 1)
    PROVE  WeightedMedian(act, p) = Rate(v, p)
<1> DEFINE ballot == Voters(act, p)
           total == PowerOf(ballot, p)
           median == WeightedMedian(act, p)
           same == {w \in ballot : Rate(w, p) = Rate(v, p)}
           below == {w \in ballot : Rate(w, p) < median}
           above == {w \in ballot : Rate(w, p) > median}
<1>1. ballot \in SUBSET Validators /\ Rate(v, p) \in Int
  BY VotersType
<1>2. PowerOf(same, p) \in Nat /\ PowerOf(same, p) <= total /\ total \in Nat
  <2>1. same \in SUBSET ballot /\ same \in SUBSET Validators
    BY <1>1
  <2> HIDE DEF same, ballot
  <2>2. QED
    BY <1>1, <2>1, PowerOfSum, PowerOfFewer DEF ballot
<1>3. total # 0
  BY <1>2, SMT
<1>4. /\ median \in Int /\ 2 * PowerOf(below, p) < total /\ 2 * PowerOf(above, p) <= total + 1
  BY <1>3, MedianSplits
<1>5. below \in SUBSET Validators /\ above \in SUBSET Validators
  BY <1>1
<1>6. PowerOf(below, p) \in Nat /\ PowerOf(above, p) \in Nat
  BY <1>5, PowerOfSum
<1> HIDE DEF median
<1>7. CASE Rate(v, p) < median
  <2>1. same \in SUBSET below
    BY <1>7
  <2>2. PowerOf(same, p) <= PowerOf(below, p)
    BY <1>5, <2>1, PowerOfFewer
  <2>3. QED
    BY <1>2, <1>4, <1>6, <2>2, SMT
<1>8. CASE Rate(v, p) > median
  <2>1. same \in SUBSET above
    BY <1>8
  <2>2. PowerOf(same, p) <= PowerOf(above, p)
    BY <1>5, <2>1, PowerOfFewer
  <2>3. QED
    BY <1>2, <1>4, <1>6, <2>2, SMT
<1>9. QED
  BY <1>1, <1>4, <1>7, <1>8, SMT DEF median

\* Whoever a tally counts a miss for has dissented: the vote of a majority is the median, so it
\* is no further from it than any standard deviation.
LEMMA MissedDissent ==
    ASSUME MarketTypes, NEW p, NEW act \in SUBSET Validators, NEW pairs, p \in pairs,
           NEW v \in Tally(act, p).missed
    PROVE  v \in Dissenters(act, pairs)
<1> DEFINE ballot == Voters(act, p)
           valid == {w \in ballot : ~IsAbstain(w, p)}
           median == WeightedMedian(act, p)
           off(w) == Abs(Rate(w, p) - median)
           square == [w \in valid |-> off(w) * off(w)]
           sum == SumFunction(square)
<1>1. /\ v \in valid
      /\ ~(Cardinality(valid) * off(v) * off(v) <= sum)
  BY DEF Tally
<1>2. ballot \in SUBSET Validators /\ ballot \in SUBSET act /\ IsFiniteSet(ballot)
      /\ \A w \in ballot : Rate(w, p) \in Int
  BY VotersType DEF Voters
<1>3. SUFFICES ASSUME ~(2 * PowerOf({w \in ballot : Rate(w, p) = Rate(v, p)}, p)
                          <= PowerOf(ballot, p) + 1)
               PROVE  FALSE
  BY <1>1, <1>2 DEF Dissenters
<1>4. median = Rate(v, p)
  BY <1>1, <1>3, MajorityIsMedian
<1>5. IsFiniteSet(valid) /\ DOMAIN square = valid
  BY <1>2, FS_Subset
<1>6. \A w \in valid : square[w] \in Nat
  <2> TAKE w \in valid
  <2>1. Rate(w, p) \in Int /\ median \in Int
    BY <1>1, <1>2, <1>4
  <2>2. off(w) \in Nat
    <3> HIDE DEF median
    <3> QED BY <2>1, SMT DEF Abs
  <2>3. off(w) * off(w) \in Nat
    <3> HIDE DEF off
    <3> QED BY <2>2, SMT
  <2>4. QED
    BY <2>3
<1>7. sum \in Nat
  <2>1. SumFunctionOnSet(square, valid) \in Nat
    <3> HIDE DEF square, valid
    <3> QED BY <1>5, <1>6, SumNat
  <2>2. QED
    BY <1>5, <2>1 DEF SumFunction
<1>8. off(v) = 0
  <2> HIDE DEF median
  <2> QED BY <1>1, <1>2, <1>4, SMT DEF Abs
<1>9. Cardinality(valid) \in Nat
  BY <1>5, FS_CardinalityType
<1> HIDE DEF off, sum, valid
<1>10. QED
  BY <1>1, <1>7, <1>8, <1>9, SMT

-----------------------------------------------------------------------------
(* Rewards.                                                                 *)

\* The types of the rewards and of the account that backs them.
RewardTypes ==
    /\ IsFiniteSet(DOMAIN Rewards) /\ funds \in Nat
    /\ \A i \in DOMAIN Rewards : Rewards[i].coins \in Nat /\ Rewards[i].votePeriods \in Nat \ {0}

\* What each reward pays in one period, and in all that are left to it.
PerPeriod == [i \in DOMAIN Rewards |-> Rewards[i].coins]
Owed == [i \in DOMAIN Rewards |-> Rewards[i].coins * Rewards[i].votePeriods]

LEMMA OwedSum ==
    RewardsBacked <=> credited = funded /\ funds >= SumFunctionOnSet(Owed, DOMAIN Rewards)
  BY DEF RewardsBacked, Owed, SumFunction

LEMMA OwedType ==
    ASSUME RewardTypes
    PROVE  /\ \A i \in DOMAIN Rewards : Owed[i] \in Nat /\ PerPeriod[i] \in Nat
           /\ SumFunctionOnSet(Owed, DOMAIN Rewards) \in Nat
           /\ SumFunctionOnSet(PerPeriod, DOMAIN Rewards) \in Nat
<1>1. \A i \in DOMAIN Rewards : Owed[i] \in Nat /\ PerPeriod[i] \in Nat
  BY SMT DEF RewardTypes, Owed, PerPeriod
<1>2. QED
  BY <1>1, SumNat DEF RewardTypes

\* The tallies of a block are finite, and so are the weights.
LEMMA WeightType ==
    ASSUME MarketTypes, NEW tallies, IsFiniteSet(tallies), NEW v \in Validators
    PROVE  RewardWeight(tallies, v) \in Nat
<1> DEFINE won == {t \in tallies : v \in t.winners}
           f == [t \in won |-> VotePower(v, t.pair)]
<1>1. IsFiniteSet(won)
  BY FS_Subset
<1>2. \A t \in won : f[t] \in Nat
  BY PowersType
<1>3. RewardWeight(tallies, v) = SumFunctionOnSet(f, won)
  BY DEF RewardWeight, SumFunction
<1> HIDE DEF f, won
<1>4. QED
  BY <1>1, <1>2, <1>3, SumNat

\* What is distributed to the winners is within the coins gathered.
LEMMA DistributedWithin ==
    ASSUME NEW act, IsFiniteSet(act), NEW w, \A v \in act : w[v] \in Nat, NEW coins \in Nat,
           NEW total, total = SumFunctionOnSet(w, act), total # 0,
           NEW share, \A v \in act : share[v] = Portion(coins, w[v], total)
    PROVE  SumFunctionOnSet(share, act) \in Nat /\ SumFunctionOnSet(share, act) <= coins
<1>1. Precision \in Nat \ {0}
  BY OracleAssumption
<1>2. \A v \in act : share[v] = (coins * ((w[v] * Precision) \div total)) \div Precision
  BY DEF Portion
<1>3. QED
  BY <1>1, <1>2, PortionsWithin

\* A period that pays leaves what the other periods will pay.
LEMMA GatherLeaves ==
    ASSUME RewardTypes, Rewards' = GatherRewards(Rewards)
    PROVE  /\ IsFiniteSet(DOMAIN Rewards')
           /\ \A i \in DOMAIN Rewards' :
                 Rewards'[i].coins \in Nat /\ Rewards'[i].votePeriods \in Nat \ {0}
           /\ SumFunctionOnSet(Owed', DOMAIN Rewards') \in Nat
           /\ SumFunctionOnSet(Owed', DOMAIN Rewards') + SumFunctionOnSet(PerPeriod, DOMAIN Rewards)
                <= SumFunctionOnSet(Owed, DOMAIN Rewards)
<1> DEFINE all == DOMAIN Rewards
           left == {i \in all : Rewards[i].votePeriods > 1}
           rest == [i \in all |-> Rewards[i].coins * (Rewards[i].votePeriods - 1)]
<1>1. DOMAIN Rewards' = left
  BY DEF GatherRewards
<1>2. \A i \in left : /\ Rewards'[i].coins = Rewards[i].coins
                      /\ Rewards'[i].votePeriods = Rewards[i].votePeriods - 1
  BY SMT DEF GatherRewards, RewardTypes
<1>3. IsFiniteSet(all) /\ left \in SUBSET all /\ IsFiniteSet(left)
  BY FS_Subset DEF RewardTypes
<1>4. \A i \in left : Rewards'[i].coins \in Nat /\ Rewards'[i].votePeriods \in Nat \ {0}
  BY <1>2, SMT DEF RewardTypes
<1>5. \A i \in all : rest[i] \in Nat
  <2> TAKE i \in all
  <2>1. Rewards[i].coins \in Nat /\ Rewards[i].votePeriods - 1 \in Nat
    BY SMT DEF RewardTypes
  <2>2. QED
    BY <2>1, SMT
<1>6. \A i \in left : Owed'[i] = rest[i] /\ Owed'[i] \in Int
  BY <1>1, <1>2, <1>5, SMT DEF Owed
<1>7. \A i \in all : /\ PerPeriod[i] \in Int /\ rest[i] \in Int
                     /\ Owed[i] = PerPeriod[i] + rest[i]
  <2> TAKE i \in all
  <2>1. Rewards[i].coins \in Nat /\ Rewards[i].votePeriods \in Nat \ {0}
    BY DEF RewardTypes
  <2>2. Rewards[i].coins * Rewards[i].votePeriods
          = Rewards[i].coins + Rewards[i].coins * (Rewards[i].votePeriods - 1)
    BY <2>1, SMT
  <2>3. QED
    BY <1>5, <2>1, <2>2, SMT DEF Owed, PerPeriod
<1> HIDE DEF rest
<1>8. SumFunctionOnSet(Owed', left) = SumFunctionOnSet(rest, left)
  <2> HIDE DEF left
  <2> QED BY <1>3, <1>6, SumSame
<1>9. SumFunctionOnSet(rest, left) <= SumFunctionOnSet(rest, all)
  <2> HIDE DEF left
  <2> QED BY <1>3, <1>5, SumSubset
<1>10. SumFunctionOnSet(Owed, all)
         = SumFunctionOnSet(PerPeriod, all) + SumFunctionOnSet(rest, all)
  BY <1>3, <1>7, SumAdd
<1>11. /\ SumFunctionOnSet(rest, left) \in Nat /\ SumFunctionOnSet(rest, all) \in Nat
       /\ SumFunctionOnSet(PerPeriod, all) \in Nat
  <2>1. \A i \in left : rest[i] \in Nat
    BY <1>5
  <2> HIDE DEF left
  <2>2. QED
    BY <1>3, <1>5, <2>1, OwedType, SumNat
<1>12. SumFunctionOnSet(Owed', left) + SumFunctionOnSet(PerPeriod, all)
         <= SumFunctionOnSet(Owed, all)
  BY <1>8, <1>9, <1>10, <1>11, SMT
<1>13. QED
  BY <1>1, <1>3, <1>4, <1>8, <1>11, <1>12

\* A reward that is allocated, even over one that a restart gave the same number, is paid for.
LEMMA AllocateKeeps ==
    ASSUME RewardTypes, RewardsBacked, NEW coins \in Nat, NEW n \in Nat \ {0},
           AllocateRewards(coins, n)
    PROVE  RewardTypes' /\ RewardsBacked'
<1> DEFINE each == coins \div n
           all == DOMAIN Rewards \cup {RewardsID}
           old == DOMAIN Rewards \ {RewardsID}
           new == [i \in all |-> IF i = RewardsID THEN each * n ELSE Owed[i]]
<1>1. /\ DOMAIN Rewards' = all
      /\ Rewards'[RewardsID].coins = each /\ Rewards'[RewardsID].votePeriods = n
      /\ \A i \in old : Rewards'[i] = Rewards[i]
      /\ funds' = funds + coins /\ UNCHANGED <<funded, credited>>
  BY DEF AllocateRewards, With
<1>2. each \in Nat /\ each * n \in Nat /\ each * n <= coins
  <2>1. each \in Nat /\ n * each <= coins
    BY DivBounds
  <2> HIDE DEF each
  <2>2. n * each = each * n
    BY <2>1, SMT
  <2>3. QED
    BY <2>1, <2>2, SMT
<1> HIDE DEF each
<1>3. IsFiniteSet(all) /\ IsFiniteSet(old) /\ all \ {RewardsID} = old
  BY FS_AddElement, FS_Subset DEF RewardTypes
<1>4. RewardTypes'
  <2>1. \A i \in all : Rewards'[i].coins \in Nat /\ Rewards'[i].votePeriods \in Nat \ {0}
    BY <1>1, <1>2 DEF RewardTypes
  <2>2. QED
    BY <1>1, <1>3, <2>1, SMT DEF RewardTypes
<1>5. \A i \in all : Owed'[i] = new[i]
  BY <1>1 DEF Owed
<1>6. \A i \in all : Owed'[i] \in Int
  <2>1. \A i \in DOMAIN Rewards : Owed[i] \in Nat
    BY OwedType
  <2>2. \A i \in all : new[i] \in Int
    BY <1>2, <2>1, SMT
  <2> HIDE DEF new
  <2>3. QED
    BY <1>5, <2>2
<1>7. SumFunctionOnSet(Owed', all) = each * n + SumFunctionOnSet(Owed', old)
  <2>1. SumFunctionOnSet(Owed', all) = Owed'[RewardsID] + SumFunctionOnSet(Owed', all \ {RewardsID})
    BY <1>3, <1>6, SumRemove
  <2>2. QED
    BY <1>3, <1>5, <2>1
<1>8. SumFunctionOnSet(Owed', old) = SumFunctionOnSet(Owed, old)
  <2>1. \A i \in old : Owed'[i] \in Int /\ Owed'[i] = Owed[i]
    BY <1>5, <1>6
  <2>2. QED
    BY <1>3, <2>1, SumSame
<1>9. SumFunctionOnSet(Owed, old) <= SumFunctionOnSet(Owed, DOMAIN Rewards)
  BY OwedType, SumSubset DEF RewardTypes
<1>10. SumFunctionOnSet(Owed, old) \in Nat
  BY <1>3, OwedType, SumNat
<1>11. funds >= SumFunctionOnSet(Owed, DOMAIN Rewards) /\ credited = funded
  BY OwedSum
<1>12. funds + coins >= each * n + SumFunctionOnSet(Owed, old)
  BY <1>2, <1>9, <1>10, <1>11, OwedType, SMT DEF RewardTypes
<1>13. QED
  BY <1>1, <1>4, <1>7, <1>8, <1>11, <1>12, OwedSum DEF RewardsBacked, Owed, SumFunction

\* The rewards of a period are paid in full, and what is left of them stays backed.
LEMMA RewardKeeps ==
    ASSUME MarketTypes, RewardTypes, RewardsBacked, NEW act \in SUBSET Validators,
           NEW tallies, IsFiniteSet(tallies), rewardWinners(act, tallies)
    PROVE  RewardTypes' /\ RewardsBacked'
<1> DEFINE w == [v \in act |-> RewardWeight(tallies, v)]
           total == SumFunctionOnSet(w, act)
           coins == SumFunctionOnSet(PerPeriod, DOMAIN Rewards)
           share == [v \in act |-> Portion(coins, RewardWeight(tallies, v), total)]
           sum == SumFunctionOnSet(share, act)
<1>1. \/ total = 0 /\ UNCHANGED money
      \/ /\ total # 0 /\ Rewards' = GatherRewards(Rewards)
         /\ credited' = credited + sum
         /\ funds' = funds - (IF sum <= funds THEN sum ELSE 0)
         /\ funded' = funded + (IF sum <= funds THEN sum ELSE 0)
  BY DEF rewardWinners, SumFunction, PerPeriod
<1>2. CASE total = 0 /\ UNCHANGED money
  BY <1>2 DEF money, RewardTypes, RewardsBacked
<1>3. CASE total # 0
  <2>1. IsFiniteSet(act) /\ \A v \in act : w[v] \in Nat /\ share[v] = Portion(coins, w[v], total)
    BY WeightType, FS_Subset DEF MarketTypes
  <2>2. coins \in Nat
    BY OwedType
  <2> HIDE DEF w, share, coins
  <2>3. sum \in Nat /\ sum <= coins
    BY <1>3, <2>1, <2>2, DistributedWithin
  <2> HIDE DEF total, sum
  <2>4. /\ IsFiniteSet(DOMAIN Rewards')
        /\ \A i \in DOMAIN Rewards' :
              Rewards'[i].coins \in Nat /\ Rewards'[i].votePeriods \in Nat \ {0}
        /\ SumFunctionOnSet(Owed', DOMAIN Rewards') \in Nat
        /\ SumFunctionOnSet(Owed', DOMAIN Rewards') + coins <= SumFunctionOnSet(Owed, DOMAIN Rewards)
    BY <1>1, <1>3, GatherLeaves DEF coins
  <2>5. funds >= SumFunctionOnSet(Owed, DOMAIN Rewards) /\ credited = funded /\ funds \in Nat
        /\ SumFunctionOnSet(Owed, DOMAIN Rewards) \in Nat
    BY OwedSum, OwedType DEF RewardTypes
  <2>6. sum <= funds
    BY <2>2, <2>3, <2>4, <2>5, SMT
  <2>7. credited' = funded' /\ funds' = funds - sum
    BY <1>1, <1>3, <2>5, <2>6
  <2>8. funds' \in Nat /\ funds' >= SumFunctionOnSet(Owed', DOMAIN Rewards')
    BY <2>2, <2>3, <2>4, <2>5, <2>7, SMT
  <2>9. QED
    BY <2>4, <2>7, <2>8 DEF RewardTypes, RewardsBacked, Owed, SumFunction
<1>4. QED
  BY <1>1, <1>2, <1>3

-----------------------------------------------------------------------------
(* The inductive invariant of prices, rewards and misses.                    *)

\* A validator with misses has dissented, and so has one that was slashed for them.
MissesExplained ==
    /\ \A v \in Validators : MissCounters[v] \in Nat /\ (MissCounters[v] > 0 => v \in deviated)
    /\ OnlyDissentersSlashed

MarketInv == MarketTypes /\ RewardTypes /\ RewardsBacked /\ MissesExplained

\* The tallies of a block.
TalliesOf(act, bond) ==
    IF IsPeriodLastBlock(params.votePeriod) THEN {Tally(act, p) : p \in ValidPairs(act, bond)} ELSE {}

\* What EndBlocker does to prices, rewards and misses when it closes the block ...
ClosesMarket(bond, act, tallies) ==
    /\ height' = height + 1 /\ bonded' = bond /\ power' = power
    /\ \/ /\ IsPeriodLastBlock(params.votePeriod)
          /\ SetPrices([p \in {t.pair : t \in tallies} |-> (CHOOSE t \in tallies : t.pair = p).rate])
          /\ rewardWinners(act, tallies)
          /\ Votes' = <<>>
          /\ deviated' = deviated \cup Dissenters(act, ValidPairs(act, bond))
       \/ ~IsPeriodLastBlock(params.votePeriod) /\ UNCHANGED <<prices, money, Votes, deviated>>
    /\ \/ SlashAndResetMissCounters(MissesAfter(tallies), bond)
       \/ MissCounters' = MissesAfter(tallies) /\ slashed' = slashed

\* ... and what every other step but a vote, an allocation and a restart does to them.
MarketStays ==
    UNCHANGED <<height, power, prices, Rewards, funds, funded, credited, Votes, MissCounters,
                deviated, slashed>>

LEMMA EndBlockerMarket ==
    ASSUME EndBlocker
    PROVE  LET bond == BondedSet
               act == newValidatorPerformances(bond)
           IN  ClosesMarket(bond, act, TalliesOf(act, bond)) \/ MarketStays
<1> DEFINE bond == BondedSet
           act == newValidatorPerformances(bond)
           tally == IsPeriodLastBlock(params.votePeriod)
           tallies == IF tally THEN {Tally(act, p) : p \in ValidPairs(act, bond)} ELSE {}
           misses == MissesAfter(tallies)
<1>1. \/ /\ height' = height + 1 /\ bonded' = bond /\ power' = power
         /\ \/ tally /\ UpdateExchangeRates(act, bond, tallies)
                     /\ deviated' = deviated \cup Dissenters(act, ValidPairs(act, bond))
            \/ ~tally /\ UNCHANGED <<prices, money, Votes, deviated>>
         /\ \/ SlashAndResetMissCounters(misses, bond)
            \/ MissCounters' = misses /\ slashed' = slashed
      \/ UNCHANGED <<height, Votes, MissCounters, prices, money, staking, history>>
  BY DEF EndBlocker
<1>2. UNCHANGED <<height, Votes, MissCounters, prices, money, staking, history>> => MarketStays
  BY DEF MarketStays, money, staking, history
<1>3. tallies = TalliesOf(act, bond)
  BY DEF TalliesOf
<1> HIDE DEF bond, act, tallies
<1>4. ClosesMarket(bond, act, tallies) \/ MarketStays
  BY <1>1, <1>2 DEF ClosesMarket, UpdateExchangeRates
<1>5. QED
  BY <1>3, <1>4 DEF bond, act

LEMMA MarketSteps ==
    ASSUME OracleNext
    PROVE  \/ MarketStays
           \/ \E v \in Validators, feeder \in Validators \cup Feeders, b \in Ballots : Vote(feeder, v, b)
           \/ \E f \in Funds : AllocateRewards(f[1], f[2])
           \/ RestartFromGenesis
           \/ EndBlocker
<1>1. ASSUME NEW v, NEW feeder, NEW hash, Prevote(feeder, v, hash) PROVE MarketStays
  BY <1>1 DEF Prevote, MarketStays, staking, history, money
<1>2. ASSUME NEW v, NEW feeder, DelegateFeedConsent(v, feeder) PROVE MarketStays
  BY <1>2 DEF DelegateFeedConsent, MarketStays, staking, history, money
<1>3. ASSUME NEW v, JailOrUnjail(v) PROVE MarketStays
  BY <1>3 DEF JailOrUnjail, MarketStays, history, money
<1>4. ASSUME NEW v, RemoveValidator(v) PROVE MarketStays
  BY <1>4 DEF RemoveValidator, MarketStays, history, money
<1>5. ASSUME NEW e, EditOracleParams(e) PROVE MarketStays
  BY <1>5 DEF EditOracleParams, MarketStays, staking, money
<1>6. QED
  BY <1>1, <1>2, <1>3, <1>4, <1>5 DEF OracleNext

\* The tallies of a block: at most one of each pair, with its median, and finitely many.
LEMMA TalliesFacts ==
    ASSUME OracleIInv, MarketTypes, NEW bond, NEW act \in SUBSET Validators
    PROVE  /\ IsFiniteSet(TalliesOf(act, bond))
           /\ \A t \in TalliesOf(act, bond) :
                 /\ IsPeriodLastBlock(params.votePeriod)
                 /\ t.pair \in ValidPairs(act, bond) /\ t = Tally(act, t.pair)
                 /\ t.rate = WeightedMedian(act, t.pair)
                 /\ PowerOf(Voters(act, t.pair), t.pair) # 0
<1>1. \A p : Tally(act, p).pair = p /\ Tally(act, p).rate = WeightedMedian(act, p)
  BY DEF Tally
<1>2. \A p \in ValidPairs(act, bond) : PowerOf(Voters(act, p), p) # 0
  BY DEF ValidPairs, isPassingVoteThreshold
<1>3. IsFiniteSet(ValidPairs(act, bond))
  <2>1. ValidPairs(act, bond) \subseteq Pairs
    BY DEF ValidPairs, OracleIInv, ParamTypes
  <2>2. QED
    BY <2>1, OracleAssumption, FS_Subset
<1>4. IsFiniteSet({Tally(act, p) : p \in ValidPairs(act, bond)})
  <2> DEFINE f == [p \in ValidPairs(act, bond) |-> Tally(act, p)]
  <2>1. {Tally(act, p) : p \in ValidPairs(act, bond)} = {f[p] : p \in ValidPairs(act, bond)}
    OBVIOUS
  <2>2. IsFiniteSet({f[p] : p \in ValidPairs(act, bond)})
    <3> HIDE DEF f
    <3> QED BY <1>3, ImageFinite
  <2>3. QED
    BY <2>1, <2>2
<1>5. IsFiniteSet(TalliesOf(act, bond))
  BY <1>4, FS_EmptySet DEF TalliesOf
<1>6. QED
  BY <1>1, <1>2, <1>5 DEF TalliesOf

\* The price that a block sets for a pair is the median of its ballot.
LEMMA TalliedRate ==
    ASSUME OracleIInv, MarketTypes, NEW bond, NEW act \in SUBSET Validators,
           NEW p \in {t.pair : t \in TalliesOf(act, bond)}
    PROVE  /\ (CHOOSE t \in TalliesOf(act, bond) : t.pair = p).rate = WeightedMedian(act, p)
           /\ PowerOf(Voters(act, p), p) # 0 /\ WeightedMedian(act, p) \in Int
<1> DEFINE c == CHOOSE t \in TalliesOf(act, bond) : t.pair = p
<1>1. c \in TalliesOf(act, bond) /\ c.pair = p
  OBVIOUS
<1> HIDE DEF c
<1>2. c.rate = WeightedMedian(act, p) /\ PowerOf(Voters(act, p), p) # 0
  BY <1>1, TalliesFacts
<1>3. WeightedMedian(act, p) \in Int
  BY <1>2, MedianSplits
<1>4. QED
  BY <1>2, <1>3 DEF c

LEMMA MarketInit == OracleInit => MarketInv
<1> SUFFICES ASSUME OracleInit PROVE MarketInv
  OBVIOUS
<1>1. PICK g \in Geneses : /\ power = g.power /\ MissCounters = g.misses
                            /\ deviated = {v \in DOMAIN g.power : g.misses[v] > 0}
  BY DEF OracleInit
<1>2. /\ IsFiniteSet(DOMAIN g.power) /\ g.power \in [DOMAIN g.power -> Nat \ {0}]
      /\ g.misses \in [DOMAIN g.power -> Nat]
  BY OracleAssumption
<1>3. /\ DOMAIN Votes = {} /\ DOMAIN ExchangeRates = {} /\ DOMAIN PriceSnapshots = {}
      /\ DOMAIN Rewards = {} /\ funds = 0 /\ credited = funded
      /\ slashed = {}
  BY SMT DEF OracleInit
<1>4. MarketTypes
  BY <1>1, <1>2, <1>3 DEF MarketTypes, Validators
<1>5. RewardTypes
  BY <1>3, FS_EmptySet DEF RewardTypes
<1>6. RewardsBacked
  <2>1. SumFunctionOnSet(Owed, DOMAIN Rewards) = 0
    BY <1>3, SumEmpty
  <2>2. QED
    BY <1>3, <2>1, OwedSum, SMT
<1>7. MissesExplained
  BY <1>1, <1>2, <1>3 DEF MissesExplained, OnlyDissentersSlashed, Validators
<1>8. QED
  BY <1>4, <1>5, <1>6, <1>7 DEF MarketInv

LEMMA MarketStaysKeeps ==
    ASSUME MarketInv, MarketStays
    PROVE  MarketInv'
<1>1. UNCHANGED <<power, Votes, ExchangeRates, PriceSnapshots>> /\ Validators' = Validators
  BY DEF MarketStays, Validators, prices
<1>2. MarketTypes'
  BY <1>1 DEF MarketInv, MarketTypes
<1>3. RewardTypes' /\ RewardsBacked'
  BY DEF MarketInv, MarketStays, RewardTypes, RewardsBacked
<1>4. MissesExplained'
  BY <1>1 DEF MarketInv, MarketStays, MissesExplained, OnlyDissentersSlashed
<1>5. QED
  BY <1>2, <1>3, <1>4 DEF MarketInv

LEMMA VoteKeepsMarket ==
    ASSUME MarketInv, NEW v, NEW feeder, NEW b \in Ballots, Vote(feeder, v, b)
    PROVE  MarketInv'
<1>1. /\ UNCHANGED <<power, ExchangeRates, PriceSnapshots, Rewards, funds, funded, credited,
                     MissCounters, deviated, slashed>>
      /\ DOMAIN Votes' = DOMAIN Votes \cup {v} /\ Votes'[v].rates = b
      /\ \A u \in DOMAIN Votes \ {v} : Votes'[u] = Votes[u]
  BY DEF Vote, With, staking, prices, money, history
<1>2. Validators' = Validators
  BY <1>1 DEF Validators
<1>3. \A p \in DOMAIN b : b[p] \in Int
  BY OracleAssumption
<1>4. \A u \in DOMAIN Votes' : \A p \in DOMAIN Votes'[u].rates : Votes'[u].rates[p] \in Int
  BY <1>1, <1>3 DEF MarketInv, MarketTypes
<1>5. MarketTypes'
  BY <1>1, <1>2, <1>4 DEF MarketInv, MarketTypes
<1>6. RewardTypes' /\ RewardsBacked'
  BY <1>1 DEF MarketInv, RewardTypes, RewardsBacked
<1>7. MissesExplained'
  BY <1>1, <1>2 DEF MarketInv, MissesExplained, OnlyDissentersSlashed
<1>8. QED
  BY <1>5, <1>6, <1>7 DEF MarketInv

LEMMA AllocateKeepsMarket ==
    ASSUME MarketInv, NEW f \in Funds, AllocateRewards(f[1], f[2])
    PROVE  MarketInv'
<1>1. f[1] \in Nat /\ f[2] \in Nat \ {0}
  BY OracleAssumption
<1>2. RewardTypes' /\ RewardsBacked'
  BY <1>1, AllocateKeeps DEF MarketInv
<1>3. UNCHANGED <<power, Votes, ExchangeRates, PriceSnapshots, MissCounters, deviated, slashed>>
  BY DEF AllocateRewards, staking, prices, history
<1>4. Validators' = Validators
  BY <1>3 DEF Validators
<1>5. MarketTypes'
  BY <1>3, <1>4 DEF MarketInv, MarketTypes
<1>6. MissesExplained'
  BY <1>3, <1>4 DEF MarketInv, MissesExplained, OnlyDissentersSlashed
<1>7. QED
  BY <1>2, <1>5, <1>6 DEF MarketInv

LEMMA RestartKeepsMarket ==
    ASSUME OracleIInv, MarketInv, RestartFromGenesis
    PROVE  MarketInv'
<1>1. UNCHANGED <<power, Votes, MissCounters, deviated, slashed, Rewards, funds, funded, credited>>
  BY DEF RestartFromGenesis, staking, history
<1>2. Validators' = Validators
  BY <1>1 DEF Validators
<1>3. \A p \in DOMAIN ExchangeRates' : ExchangeRates'[p] \in [rate : Int, created : Nat]
  <2>1. height \in Nat
    BY DEF OracleIInv, PastHeights
  <2>2. QED
    BY <2>1 DEF RestartFromGenesis, MarketInv, MarketTypes
<1>4. \A p \in DOMAIN PriceSnapshots' :
         /\ DOMAIN PriceSnapshots'[p] = {height}
         /\ PriceSnapshots'[p][height] \in Int
  BY SMT DEF RestartFromGenesis, MarketInv, MarketTypes, With
<1>5. height \in Nat
  BY DEF OracleIInv, PastHeights
<1>6. \A p \in DOMAIN PriceSnapshots' :
         /\ IsFiniteSet(DOMAIN PriceSnapshots'[p])
         /\ \A t \in DOMAIN PriceSnapshots'[p] : t \in Int /\ PriceSnapshots'[p][t] \in Int
  <2> TAKE p \in DOMAIN PriceSnapshots'
  <2>1. IsFiniteSet(DOMAIN PriceSnapshots'[p])
    BY <1>4, FS_Singleton
  <2>2. QED
    BY <1>4, <1>5, <2>1, SMT
<1>7. MarketTypes'
  BY <1>1, <1>2, <1>3, <1>6 DEF MarketInv, MarketTypes
<1>8. RewardTypes' /\ RewardsBacked'
  BY <1>1 DEF MarketInv, RewardTypes, RewardsBacked
<1>9. MissesExplained'
  BY <1>1, <1>2 DEF MarketInv, MissesExplained, OnlyDissentersSlashed
<1>10. QED
  BY <1>7, <1>8, <1>9 DEF MarketInv

\* Prices that are set keep their types.
LEMMA SetPricesTypes ==
    ASSUME MarketTypes, height \in Nat, NEW rates, \A p \in DOMAIN rates : rates[p] \in Int,
           SetPrices(rates)
    PROVE  /\ \A p \in DOMAIN ExchangeRates' : ExchangeRates'[p] \in [rate : Int, created : Nat]
           /\ \A p \in DOMAIN PriceSnapshots' :
                 /\ IsFiniteSet(DOMAIN PriceSnapshots'[p])
                 /\ \A t \in DOMAIN PriceSnapshots'[p] : t \in Int /\ PriceSnapshots'[p][t] \in Int
<1>1. \A p \in DOMAIN ExchangeRates' : ExchangeRates'[p] \in [rate : Int, created : Nat]
  BY DEF SetPrices, MarketTypes
<1>2. ASSUME NEW p \in DOMAIN PriceSnapshots'
      PROVE  /\ IsFiniteSet(DOMAIN PriceSnapshots'[p])
             /\ \A t \in DOMAIN PriceSnapshots'[p] : t \in Int /\ PriceSnapshots'[p][t] \in Int
  <2> DEFINE old == IF p \in DOMAIN PriceSnapshots THEN PriceSnapshots[p] ELSE <<>>
  <2>1. PriceSnapshots'[p] = IF p \in DOMAIN rates THEN With(old, height, rates[p]) ELSE old
    BY DEF SetPrices
  <2>2. IsFiniteSet(DOMAIN old) /\ \A t \in DOMAIN old : t \in Int /\ old[t] \in Int
    <3>1. CASE p \in DOMAIN PriceSnapshots
      BY <3>1 DEF MarketTypes
    <3>2. CASE p \notin DOMAIN PriceSnapshots
      <4>1. DOMAIN old = {}
        BY <3>2, SMT
      <4>2. QED
        BY <4>1, FS_EmptySet
    <3>3. QED
      BY <3>1, <3>2
  <2> HIDE DEF old
  <2>3. CASE p \in DOMAIN rates
    <3> DEFINE new == With(old, height, rates[p])
    <3>1. DOMAIN new = DOMAIN old \cup {height}
          /\ \A t \in DOMAIN new : new[t] = IF t = height THEN rates[p] ELSE old[t]
      BY DEF With
    <3>2. IsFiniteSet(DOMAIN new)
      BY <2>2, <3>1, FS_AddElement, SMT
    <3> HIDE DEF new
    <3>3. \A t \in DOMAIN new : t \in Int /\ new[t] \in Int
      BY <2>2, <2>3, <3>1, SMT
    <3>4. QED
      BY <2>1, <2>3, <3>2, <3>3 DEF new
  <2>4. QED
    BY <2>1, <2>2, <2>3
<1>3. QED
  BY <1>1, <1>2

LEMMA BlockKeepsPrices ==
    ASSUME OracleIInv, MarketTypes, NEW bond, NEW act \in SUBSET Validators,
           ClosesMarket(bond, act, TalliesOf(act, bond))
    PROVE  MarketTypes'
<1>1. power' = power /\ Validators' = Validators
  BY DEF ClosesMarket, Validators
<1>2. CASE ~IsPeriodLastBlock(params.votePeriod)
  BY <1>1, <1>2 DEF ClosesMarket, MarketTypes, prices
<1>3. CASE IsPeriodLastBlock(params.votePeriod)
  <2> DEFINE tallies == TalliesOf(act, bond)
             rates == [p \in {t.pair : t \in tallies} |-> (CHOOSE t \in tallies : t.pair = p).rate]
  <2>1. SetPrices(rates) /\ Votes' = <<>>
    BY <1>3 DEF ClosesMarket
  <2>2. \A p \in DOMAIN rates : rates[p] \in Int
    <3> SUFFICES ASSUME NEW p \in DOMAIN rates PROVE rates[p] \in Int
      OBVIOUS
    <3>1. p \in {t.pair : t \in TalliesOf(act, bond)}
      OBVIOUS
    <3>2. /\ (CHOOSE t \in TalliesOf(act, bond) : t.pair = p).rate = WeightedMedian(act, p)
          /\ WeightedMedian(act, p) \in Int
      BY <3>1, TalliedRate
    <3>3. QED
      BY <3>2
  <2>3. height \in Nat
    BY DEF OracleIInv, PastHeights
  <2> HIDE DEF rates
  <2>4. /\ \A p \in DOMAIN ExchangeRates' : ExchangeRates'[p] \in [rate : Int, created : Nat]
        /\ \A p \in DOMAIN PriceSnapshots' :
              /\ IsFiniteSet(DOMAIN PriceSnapshots'[p])
              /\ \A t \in DOMAIN PriceSnapshots'[p] : t \in Int /\ PriceSnapshots'[p][t] \in Int
    BY <2>1, <2>2, <2>3, SetPricesTypes
  <2>5. DOMAIN Votes' = {}
    BY <2>1, SMT
  <2>6. QED
    BY <1>1, <2>4, <2>5 DEF MarketTypes
<1>4. QED
  BY <1>2, <1>3

LEMMA BlockKeepsRewards ==
    ASSUME OracleIInv, MarketTypes, RewardTypes, RewardsBacked,
           NEW bond, NEW act \in SUBSET Validators, ClosesMarket(bond, act, TalliesOf(act, bond))
    PROVE  RewardTypes' /\ RewardsBacked'
<1>1. CASE UNCHANGED money
  BY <1>1 DEF money, RewardTypes, RewardsBacked
<1>2. CASE rewardWinners(act, TalliesOf(act, bond))
  BY <1>2, TalliesFacts, RewardKeeps
<1>3. QED
  BY <1>1, <1>2 DEF ClosesMarket

\* Misses come from tallies, and those who are slashed have misses.
LEMMA BlockKeepsMisses ==
    ASSUME OracleIInv, MarketTypes, MissesExplained,
           NEW bond, NEW act \in SUBSET Validators, ClosesMarket(bond, act, TalliesOf(act, bond))
    PROVE  MissesExplained'
<1> DEFINE tallies == TalliesOf(act, bond)
           misses == MissesAfter(tallies)
           missed(v) == {t \in tallies : v \in t.missed}
<1>1. Validators' = Validators
  BY DEF ClosesMarket, Validators
<1>2. deviated \subseteq deviated'
      /\ (IsPeriodLastBlock(params.votePeriod)
            => deviated' = deviated \cup Dissenters(act, ValidPairs(act, bond)))
  BY DEF ClosesMarket
<1>3. ASSUME NEW v \in Validators
      PROVE  misses[v] \in Nat /\ (misses[v] > 0 => v \in deviated')
  <2>1. misses[v] = MissCounters[v] + Cardinality(missed(v))
    BY DEF MissesAfter
  <2>2. IsFiniteSet(missed(v))
    <3>1. missed(v) \subseteq tallies
      OBVIOUS
    <3>2. QED
      BY <3>1, TalliesFacts, FS_Subset
  <2>3. Cardinality(missed(v)) \in Nat /\ (missed(v) = {} => Cardinality(missed(v)) = 0)
    BY <2>2, FS_CardinalityType, FS_EmptySet
  <2>4. ASSUME missed(v) # {} PROVE v \in deviated'
    <3>1. PICK t \in tallies : v \in t.missed
      BY <2>4
    <3>2. /\ IsPeriodLastBlock(params.votePeriod)
          /\ t.pair \in ValidPairs(act, bond) /\ t = Tally(act, t.pair)
      BY <3>1, TalliesFacts
    <3>3. v \in Dissenters(act, ValidPairs(act, bond))
      BY <3>1, <3>2, MissedDissent
    <3>4. QED
      BY <1>2, <3>2, <3>3
  <2>5. MissCounters[v] \in Nat /\ (MissCounters[v] > 0 => v \in deviated)
    BY DEF MissesExplained
  <2> HIDE DEF missed, misses
  <2>6. QED
    BY <1>2, <2>1, <2>3, <2>4, <2>5, SMT
<1> HIDE DEF misses
<1>4. slashed \subseteq deviated'
  BY <1>2 DEF MissesExplained, OnlyDissentersSlashed
<1>5. CASE SlashAndResetMissCounters(misses, bond)
  <2>1. \A v \in slashed' : v \in slashed \/ (v \in Validators /\ misses[v] > 0)
    BY <1>5 DEF SlashAndResetMissCounters, BelowMinValid
  <2>2. \A v \in Validators : MissCounters'[v] = 0
    BY <1>5 DEF SlashAndResetMissCounters
  <2>3. QED
    BY <1>1, <1>3, <1>4, <2>1, <2>2, SMT DEF MissesExplained, OnlyDissentersSlashed
<1>6. CASE MissCounters' = misses /\ slashed' = slashed
  BY <1>1, <1>3, <1>4, <1>6 DEF MissesExplained, OnlyDissentersSlashed
<1>7. QED
  BY <1>5, <1>6 DEF ClosesMarket, misses

LEMMA MarketStep == OracleIInv /\ MarketInv /\ [OracleNext]_oracleVars => MarketInv'
<1> SUFFICES ASSUME OracleIInv, MarketInv, [OracleNext]_oracleVars PROVE MarketInv'
  OBVIOUS
<1>1. CASE UNCHANGED oracleVars
  <2>1. MarketStays
    BY <1>1 DEF oracleVars, MarketStays, money, staking, history
  <2>2. QED
    BY <2>1, MarketStaysKeeps
<1>2. ASSUME EndBlocker PROVE MarketInv'
  <2> DEFINE bond == BondedSet
             act == newValidatorPerformances(bond)
  <2>1. ClosesMarket(bond, act, TalliesOf(act, bond)) \/ MarketStays
    BY <1>2, EndBlockerMarket
  <2>2. act \in SUBSET Validators
    BY DEF newValidatorPerformances
  <2> HIDE DEF bond, act
  <2>3. CASE ClosesMarket(bond, act, TalliesOf(act, bond))
    BY <2>2, <2>3, BlockKeepsPrices, BlockKeepsRewards, BlockKeepsMisses DEF MarketInv
  <2>4. QED
    BY <2>1, <2>3, MarketStaysKeeps
<1>3. QED
  BY <1>1, <1>2, MarketSteps, MarketStaysKeeps, VoteKeepsMarket, AllocateKeepsMarket,
     RestartKeepsMarket

\* Both inductive invariants hold in every behaviour.
LEMMA OracleInvariants == OracleSpec => [](OracleIInv /\ MarketInv)
  BY OracleInvInit, OracleInvStep, MarketInit, MarketStep, PTL DEF OracleSpec

\* What x/distribution recorded for validators was paid to it and the module account holds what
\* the remaining periods will pay, for any powers, ballots, allocations and restarts
\* (AllocateRewards, rewardWinners, GatherRewardsForVotePeriod).
THEOREM RewardSafety == OracleSpec => []RewardsBacked
  BY OracleInvariants, PTL DEF MarketInv

\* Whoever is slashed has voted against what a majority of the power voted for: what
\* was missed, jailed, removed or edited before never adds up to a penalty for anyone else (Tally,
\* SlashAndResetMissCounters).
THEOREM SlashingSafety == OracleSpec => []OnlyDissentersSlashed
  BY OracleInvariants, PTL DEF MarketInv, MissesExplained

\* A block sets only medians of revealed rates, for any powers and ballots
\* (removeInvalidVotes, WeightedMedianWithAssertion).
THEOREM PriceSafety == OracleSpec => PriceIsMedianOfVotes
<1> DEFINE Median ==
             \A p \in DOMAIN ExchangeRates' :
                height' # height /\ (p \in DOMAIN ExchangeRates => ExchangeRates'[p] # ExchangeRates[p]) =>
                    LET ballot == Voters(newValidatorPerformances(bonded'), p)
                        price == ExchangeRates'[p].rate
                        Weight(votes) == 2 * PowerOf(votes, p)
                    IN  /\ \E v \in ballot : Rate(v, p) = price
                        /\ PowerOf(ballot, p) > 1 => price > 0
                        /\ Weight({v \in ballot : Rate(v, p) < price}) < PowerOf(ballot, p)
                        /\ Weight({v \in ballot : Rate(v, p) > price}) <= PowerOf(ballot, p) + 1
<1>1. OracleIInv /\ MarketInv /\ [OracleNext]_oracleVars => [Median]_oracleVars
  <2> SUFFICES ASSUME OracleIInv, MarketInv, OracleNext, height' # height,
                      NEW p \in DOMAIN ExchangeRates',
                      p \in DOMAIN ExchangeRates => ExchangeRates'[p] # ExchangeRates[p]
               PROVE  LET ballot == Voters(newValidatorPerformances(bonded'), p)
                          price == ExchangeRates'[p].rate
                      IN  /\ \E v \in ballot : Rate(v, p) = price
                          /\ PowerOf(ballot, p) > 1 => price > 0
                          /\ 2 * PowerOf({v \in ballot : Rate(v, p) < price}, p) < PowerOf(ballot, p)
                          /\ 2 * PowerOf({v \in ballot : Rate(v, p) > price}, p) <= PowerOf(ballot, p) + 1
    OBVIOUS
  <2> DEFINE bond == BondedSet
             act == newValidatorPerformances(bond)
             tallies == TalliesOf(act, bond)
  <2>1. MarketTypes /\ act \in SUBSET Validators
    BY DEF MarketInv, newValidatorPerformances
  <2>2. ClosesMarket(bond, act, tallies)
    <3>1. EndBlocker /\ ~MarketStays
      BY BlocksOnly DEF MarketStays
    <3>2. QED
      BY <3>1, EndBlockerMarket
  <2>3. bonded' = bond
    BY <2>2 DEF ClosesMarket
  <2> HIDE DEF bond
  <2>4. SetPrices([q \in {t.pair : t \in tallies} |-> (CHOOSE t \in tallies : t.pair = q).rate])
    BY <2>2 DEF ClosesMarket, prices
  <2>5. /\ p \in {t.pair : t \in tallies}
        /\ ExchangeRates'[p].rate = (CHOOSE t \in tallies : t.pair = p).rate
    <3> DEFINE rates == [q \in {t.pair : t \in tallies} |-> (CHOOSE t \in tallies : t.pair = q).rate]
    <3>1. DOMAIN rates = {t.pair : t \in tallies}
      OBVIOUS
    <3>2. p \in DOMAIN rates /\ ExchangeRates'[p].rate = rates[p]
      <4> HIDE DEF rates
      <4> QED BY <2>4 DEF SetPrices, rates
    <3>3. QED
      BY <3>1, <3>2
  <2> HIDE DEF act
  <2>6. ExchangeRates'[p].rate = WeightedMedian(act, p) /\ PowerOf(Voters(act, p), p) # 0
    BY <2>1, <2>5, TalliedRate
  <2>7. Voters(act, p) # {}
    BY <2>1, <2>6, MedianSplits
  <2>8. \E v \in Voters(act, p) : Rate(v, p) = WeightedMedian(act, p)
    BY <2>1, <2>7, MedianIsLeast
  <2>9. QED
    BY <2>1, <2>3, <2>6, <2>8, MedianSplits DEF act
<1>2. QED
  BY <1>1, OracleInvariants, PTL DEF OracleSpec, PriceIsMedianOfVotes

-----------------------------------------------------------------------------
(* The time-weighted average.                                               *)

LEMMA TwapBetween ==
    ASSUME OracleIInv, MarketTypes
    PROVE  TwapWithinPrices
<1> SUFFICES
      ASSUME NEW p \in DOMAIN PriceSnapshots,
             Cardinality(DOMAIN PriceSnapshots[p] \cap ((height - params.twapLookback)..height)) > 1
      PROVE  LET times == DOMAIN PriceSnapshots[p] \cap ((height - params.twapLookback)..height)
                 seen == {PriceSnapshots[p][t] : t \in times}
             IN  Twap(p) \in (Min(seen) * (height - Min(times)))..(Max(seen) * (height - Min(times)))
  BY DEF TwapWithinPrices
<1> DEFINE price == PriceSnapshots[p]
           window == (height - params.twapLookback)..height
           times == DOMAIN price \cap window
           seen == {price[t] : t \in times}
           sum == [t \in times |-> price[t] * (NextTime(times, height, t) - t)]
<1>1. height \in Int /\ height - params.twapLookback \in Int
  BY SMT DEF OracleIInv, PastHeights, ParamTypes
<1>2. IsFiniteSet(DOMAIN price) /\ \A t \in DOMAIN price : t \in Int /\ price[t] \in Int
  BY DEF MarketTypes
<1>3. times \in SUBSET Int /\ IsFiniteSet(times)
  BY <1>2, FS_Subset
<1>4. times # {}
  BY FS_EmptySet, SMT
<1>5. \A t \in times : t <= height
  BY <1>1, SMT
<1>6. Twap(p) = SumFunctionOnSet(sum, times)
  <2>1. {t \in DOMAIN PriceSnapshots[p] : t \in (height - params.twapLookback)..height} = times
    OBVIOUS
  <2>2. QED
    BY <2>1 DEF Twap, SumFunction, NextTime
<1>7. seen \in SUBSET Int /\ seen # {} /\ IsFiniteSet(seen)
  <2>1. IsFiniteSet(seen)
    <3> HIDE DEF price, times
    <3> QED BY <1>3, ImageFinite
  <2>2. QED
    BY <1>2, <1>4, <2>1
<1>8. /\ Min(seen) \in Int /\ Max(seen) \in Int
      /\ \A x \in seen : Min(seen) <= x /\ Max(seen) >= x
  <2> HIDE DEF seen
  <2> QED BY <1>7, MinOfFinite, MaxOfFinite
<1>9. \A t \in times : /\ Gaps(times, height)[t] = NextTime(times, height, t) - t
                       /\ Gaps(times, height)[t] \in Nat
  <2> HIDE DEF times
  <2> QED BY <1>1, <1>3, <1>5, GapsType
<1>10. SumFunctionOnSet(Gaps(times, height), times) = height - Min(times)
  <2> HIDE DEF times
  <2> QED BY <1>1, <1>3, <1>4, <1>5, GapsCover
<1> DEFINE gap == Gaps(times, height)
           lo == Min(seen)
           hi == Max(seen)
<1>11. \A t \in times : /\ gap[t] \in Nat /\ price[t] \in Int /\ sum[t] = price[t] * gap[t]
                        /\ lo <= price[t] /\ price[t] <= hi
  <2> SUFFICES ASSUME NEW t \in times
               PROVE  /\ gap[t] \in Nat /\ price[t] \in Int /\ sum[t] = price[t] * gap[t]
                      /\ lo <= price[t] /\ price[t] <= hi
    OBVIOUS
  <2>1. price[t] \in seen /\ price[t] \in Int
    BY <1>2
  <2>2. sum[t] = price[t] * (NextTime(times, height, t) - t)
    OBVIOUS
  <2> HIDE DEF seen, price, times, sum
  <2>3. QED
    BY <1>8, <1>9, <2>1, <2>2
<1> HIDE DEF sum, price, times, gap, seen
<1>12. lo \in Int /\ hi \in Int
  BY <1>8
<1> HIDE DEF lo, hi
<1>13. SumFunctionOnSet(sum, times)
         \in (lo * SumFunctionOnSet(gap, times))..(hi * SumFunctionOnSet(gap, times))
  BY <1>3, <1>11, <1>12, WeightedBetween
<1>14. Twap(p) \in (lo * (height - Min(times)))..(hi * (height - Min(times)))
  BY <1>6, <1>10, <1>13 DEF gap
<1>15. QED
  BY <1>14 DEF lo, hi, seen, times, price

\* A time-weighted average is never outside the prices it averages, for any prices, times of
\* their snapshots, lookback window and height at which it is asked for (GetExchangeRateTwap).
THEOREM TwapSafety == OracleSpec => []TwapWithinPrices
  BY OracleInvariants, TwapBetween, PTL DEF MarketInv

-----------------------------------------------------------------------------
(* When EndBlocker panics.                                                   *)

HaltInv == removed \subseteq Validators /\ OnlyRemovedOperatorsHalt

\* A removed operator is not bonded, so a tally adds nothing to its misses.
LEMMA RemovedMissNothing ==
    ASSUME OracleIInv, MarketInv, HaltInv, NEW v \in removed
    PROVE  MissesAfter(TalliesOf(newValidatorPerformances(BondedSet), BondedSet))[v] = MissCounters[v]
<1> DEFINE act == newValidatorPerformances(BondedSet)
           tallies == TalliesOf(act, BondedSet)
<1>1. v \in Validators /\ v \notin act
  BY DEF HaltInv, newValidatorPerformances, BondedSet
<1>2. act \in SUBSET Validators
  BY DEF newValidatorPerformances
<1>3. MissesAfter(tallies)[v] = MissCounters[v] + Cardinality({t \in tallies : v \in t.missed})
  BY <1>1 DEF MissesAfter
<1> HIDE DEF act
<1>4. \A t \in tallies : t.missed \subseteq act
  <2>1. \A p : Tally(act, p).missed \subseteq act
    BY DEF Tally, Voters
  <2>2. \A t \in tallies : t = Tally(act, t.pair)
    BY <1>2, TalliesFacts DEF MarketInv
  <2> HIDE DEF tallies
  <2>3. QED
    BY <2>1, <2>2
<1> HIDE DEF tallies
<1>5. {t \in tallies : v \in t.missed} = {}
  BY <1>1, <1>4
<1>6. Cardinality({t \in tallies : v \in t.missed}) = 0
  BY <1>5, FS_EmptySet
<1>7. MissCounters[v] \in Nat
  BY <1>1 DEF MarketInv, MissesExplained
<1>8. QED
  BY <1>3, <1>6, <1>7, SMT DEF tallies, act

\* The two ways to panic, and the one that valid parameters leave.
LEMMA PanicReason ==
    ASSUME OracleIInv, MarketInv, HaltInv, ~halted, EndBlocker, halted', Validate(params)
    PROVE  /\ \E v \in removed : BelowMinValid(MissCounters[v])
           /\ UNCHANGED <<params, power, removed, MissCounters>>
<1> DEFINE misses == MissesAfter(TalliesOf(newValidatorPerformances(BondedSet), BondedSet))
<1>1. /\ DividesByZero(misses) \/ CallsNil(misses)
      /\ UNCHANGED <<params, power, removed, MissCounters>>
  BY DEF EndBlocker, TalliesOf, staking
<1>2. ~DividesByZero(misses)
  <2>1. params.slashWindow >= params.votePeriod
    BY DEF Validate
  <2>2. QED
    BY <2>1, WindowHasPeriod DEF OracleIInv, ParamTypes, DividesByZero, votePeriodsPerWindow
<1>3. \A v \in removed : misses[v] = MissCounters[v]
  BY RemovedMissNothing
<1>4. QED
  BY <1>1, <1>2, <1>3 DEF CallsNil

LEMMA HaltStep == OracleIInv /\ MarketInv /\ HaltInv /\ [OracleNext]_oracleVars => HaltInv'
<1> SUFFICES ASSUME OracleIInv, MarketInv, HaltInv, [OracleNext]_oracleVars PROVE HaltInv'
  OBVIOUS
<1>1. CASE UNCHANGED oracleVars
  BY <1>1 DEF oracleVars, staking, HaltInv, OnlyRemovedOperatorsHalt, Validators, BelowMinValid,
              votePeriodsPerWindow
<1>2. CASE OracleNext
  <2>1. ~halted
    BY <1>2 DEF OracleNext
  <2>2. removed' \subseteq Validators'
    <3>1. UNCHANGED power /\ (removed' = removed \/ \E v \in Validators : removed' = removed \cup {v})
      BY <1>2 DEF OracleNext, Prevote, Vote, DelegateFeedConsent, JailOrUnjail, RemoveValidator,
                  EditOracleParams, AllocateRewards, RestartFromGenesis, EndBlocker, staking
    <3>2. QED
      BY <3>1 DEF HaltInv, Validators
  <2>3. ~EndBlocker => halted' = halted
    BY <1>2 DEF OracleNext, Prevote, Vote, DelegateFeedConsent, JailOrUnjail, RemoveValidator,
                EditOracleParams, AllocateRewards, RestartFromGenesis
  <2>4. ASSUME halted', Validate(params)' PROVE \E v \in removed' : BelowMinValid(MissCounters[v])'
    <3>1. EndBlocker
      BY <2>1, <2>3, <2>4
    <3>2. params' = params
      BY <3>1 DEF EndBlocker
    <3>3. Validate(params)
      BY <2>4, <3>2
    <3>4. /\ \E v \in removed : BelowMinValid(MissCounters[v])
          /\ UNCHANGED <<params, power, removed, MissCounters>>
      BY <2>1, <2>4, <3>1, <3>3, PanicReason
    <3>5. QED
      BY <3>4 DEF BelowMinValid, votePeriodsPerWindow
  <2>5. QED
    BY <2>2, <2>4 DEF HaltInv, OnlyRemovedOperatorsHalt
<1>3. QED
  BY <1>1, <1>2

\* With parameters that pass Params.Validate the chain can only be stopped by an operator that has
\* left x/staking with too many misses, whatever was voted, missed, jailed, edited or restarted
\* (SlashAndResetMissCounters).
THEOREM HaltSafety == OracleSpec => []OnlyRemovedOperatorsHalt
<1>1. OracleInit => HaltInv
  BY DEF OracleInit, HaltInv, OnlyRemovedOperatorsHalt
<1>2. HaltInv => OnlyRemovedOperatorsHalt
  BY DEF HaltInv
<1>3. QED
  BY <1>1, <1>2, HaltStep, OracleInvariants, PTL DEF OracleSpec

=============================================================================
