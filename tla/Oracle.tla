------------------------------- MODULE Oracle -------------------------------
(***************************************************************************)
(* x/oracle: in one vote period a validator commits to exchange rates (a    *)
(* prevote, which is a hash), in the next it reveals them (a vote), and the *)
(* EndBlocker of the period's last block turns the votes into prices,       *)
(* rewards and misses.  At the end of a slash window the validators with    *)
(* too many misses are slashed and jailed.                                  *)
(*                                                                          *)
(* Messages of a block are executed at its height, EndBlock closes it.      *)
(* Staking, slashing, distribution and bank are services the module uses.   *)
(* Rates are integers; the salt that hides a prevote is left out.           *)
(***************************************************************************)
EXTENDS Integers, FiniteSets, Functions, FiniteSetsExt

CONSTANTS
    Feeders,      \* accounts that validators may let vote for them
    Pairs,        \* asset pairs
    Ballots,      \* exchange rate tuples of a vote, as functions of pairs
    Geneses,      \* states a chain may start from: height, params, validators, budget
    ParamEdits,   \* what EditOracleParams may be asked to set: some fields of Params
    Precision,    \* units in which LegacyDec represents 1
    Funds,        \* what AllocateRewards may be given: <<coins, periods>>
    MaxHeight     \* bound on the height

ParamNames ==
    {"whitelist", "votePeriod", "slashWindow", "minVoters", "voteThreshold", "rewardBand",
     "minValidPerWindow", "twapLookback"}

\* Params.Validate.  Fractions are pairs <<n, d>>.
Validate(p) ==
    /\ p.votePeriod > 0 /\ p.minVoters > 0
    /\ 100 * p.voteThreshold[1] > 33 * p.voteThreshold[2]
    /\ \A f \in {p.rewardBand, p.minValidPerWindow} : f[1] \in 0..f[2]
    /\ p.slashWindow >= p.votePeriod

ASSUME OracleAssumption ==
    /\ \A g \in Geneses :
          /\ g.height \in Nat /\ g.budget \in Nat /\ g.power \in [DOMAIN g.power -> Nat \ {0}]
          /\ IsFiniteSet(DOMAIN g.power)
          /\ g.misses \in [DOMAIN g.power -> Nat] /\ g.jailed \in SUBSET DOMAIN g.power
          /\ DOMAIN g.params = ParamNames /\ Validate(g.params)
          /\ g.params.whitelist \subseteq Pairs
          /\ \A f \in {"votePeriod", "slashWindow", "twapLookback"} : g.params[f] \in Nat
    /\ \A e \in ParamEdits :
          /\ DOMAIN e \subseteq ParamNames
          /\ "whitelist" \in DOMAIN e => e.whitelist \in SUBSET Pairs \ {{}}
          /\ \A f \in {"votePeriod", "slashWindow", "minVoters", "twapLookback"} \cap DOMAIN e :
                e[f] \in Nat \ {0}
    /\ \A b \in Ballots : DOMAIN b \subseteq Pairs /\ b \in [DOMAIN b -> Int]
    /\ Funds \subseteq Nat \X (Nat \ {0})
    /\ IsFiniteSet(Pairs) /\ Precision \in Nat \ {0} /\ MaxHeight \in Nat

VARIABLES
    height,
    params,            \* Params
    WhitelistedPairs,  \* the pairs that may be voted on
    Prevotes,          \* validator -> hash and height of its prevote
    Votes,             \* validator -> rates, and the height of their prevote
    MissCounters,
    ExchangeRates,     \* pair -> price and the block that set it
    PriceSnapshots,    \* pair -> block time -> price
    FeederDelegations,
    Rewards, RewardsID,
    power, bonded, jailed, \* x/staking: the consensus power of each validator, its status
    removed,           \* x/staking: operators whose validator is no longer stored
    funds,             \* coins of the oracle's module account
    funded, credited,  \* x/distribution: coins received, rewards recorded
    halted,            \* EndBlocker has panicked: the chain cannot go on
    deviated,          \* history: validators that disagreed with a majority
    slashed,           \* history: validators slashed by the oracle
    edited,            \* history: the height at which VotePeriod was last edited, or -1
    budget             \* steps other than votes and blocks that are left (bounds the model)

prices == <<ExchangeRates, PriceSnapshots>>
staking == <<power, bonded, jailed, removed>>
money == <<Rewards, RewardsID, funds, funded, credited>>
history == <<deviated, slashed, edited>>
oracleVars == <<height, params, WhitelistedPairs, Prevotes, Votes, MissCounters, prices,
                FeederDelegations, money, staking, halted, history, budget>>

Validators == DOMAIN power
Without(f, S) == Restrict(f, DOMAIN f \ S)
With(f, x, y) == [z \in DOMAIN f \cup {x} |-> IF z = x THEN y ELSE f[z]]
IsPeriodLastBlock(period) == (height + 1) % period = 0
PeriodOf(h) == h \div params.votePeriod

-----------------------------------------------------------------------------
OracleInit ==
    /\ \E g \in Geneses :
          /\ height = g.height /\ params = g.params /\ WhitelistedPairs = g.params.whitelist
          /\ power = g.power /\ budget = g.budget
          /\ MissCounters = g.misses /\ deviated = {v \in DOMAIN g.power : g.misses[v] > 0}
          /\ bonded = [v \in DOMAIN g.power |-> v \notin g.jailed]
          /\ jailed = [v \in DOMAIN g.power |-> v \in g.jailed]
    /\ Prevotes = <<>> /\ Votes = <<>> /\ ExchangeRates = <<>> /\ PriceSnapshots = <<>>
    /\ FeederDelegations = <<>> /\ Rewards = <<>> /\ RewardsID = 1
    /\ funds = 0 /\ funded = 0 /\ credited = 0
    /\ halted = FALSE /\ removed = {} /\ slashed = {} /\ edited = -1

\* The address of a validator is also an account; any other feeder needs consent.
ValidateFeeder(feeder, v) ==
    /\ feeder = v \/ (v \in DOMAIN FeederDelegations /\ FeederDelegations[v] = feeder)
    /\ bonded[v]

\* SHA-256, truncated, of the salt, the rates and the voter: taken as injective.
GetAggregateVoteHash(rates, v) == <<rates, v>>

\* A later prevote replaces an earlier one.
Prevote(feeder, v, hash) ==
    /\ ValidateFeeder(feeder, v)
    /\ Prevotes' = With(Prevotes, v, [hash |-> hash, submit |-> height])
    /\ UNCHANGED <<height, params, WhitelistedPairs, Votes, MissCounters, prices,
                   FeederDelegations, money, staking, halted, history, budget>>

\* Mutant: a prevote of the same period may be revealed too.
RevealPeriodMut(submit) == PeriodOf(height) - PeriodOf(submit) <= 1

RevealPeriod(submit) == PeriodOf(height) - PeriodOf(submit) = 1

Vote(feeder, v, rates) ==
    /\ ValidateFeeder(feeder, v)
    /\ v \in DOMAIN Prevotes
    /\ RevealPeriod(Prevotes[v].submit)
    /\ DOMAIN rates \subseteq WhitelistedPairs
    /\ Prevotes[v].hash = GetAggregateVoteHash(rates, v)
    /\ Votes' = With(Votes, v, [rates |-> rates, committed |-> Prevotes[v].submit])
    /\ Prevotes' = Without(Prevotes, {v})
    /\ UNCHANGED <<height, params, WhitelistedPairs, MissCounters, prices,
                   FeederDelegations, money, staking, halted, history, budget>>

Spend == budget > 0 /\ budget' = budget - 1

DelegateFeedConsent(v, feeder) ==
    /\ Spend
    /\ v \notin removed
    /\ FeederDelegations' = With(FeederDelegations, v, feeder)
    /\ UNCHANGED <<height, params, WhitelistedPairs, Prevotes, Votes, MissCounters, prices,
                   money, staking, halted, history>>

\* A field of the message that is zero, empty or nil keeps the stored value.
mergeOracleParams(edit, old) ==
    [f \in DOMAIN old |-> IF f \in DOMAIN edit THEN edit[f] ELSE old[f]]

\* The result is not validated.
EditOracleParams(edit) ==
    /\ Spend
    /\ params' = mergeOracleParams(edit, params)
    /\ edited' = IF params'.votePeriod # params.votePeriod THEN height ELSE edited
    /\ UNCHANGED <<height, WhitelistedPairs, Prevotes, Votes, MissCounters, prices,
                   FeederDelegations, money, staking, halted, deviated, slashed>>

\* AllocateRewards, a call of another module that pays for it
AllocateRewards(coins, votePeriods) ==
    /\ Spend
    /\ Rewards' = With(Rewards, RewardsID,
                       [coins |-> coins \div votePeriods, votePeriods |-> votePeriods])
    /\ RewardsID' = RewardsID + 1
    /\ funds' = funds + coins
    /\ UNCHANGED <<height, params, WhitelistedPairs, Prevotes, Votes, MissCounters, prices,
                   FeederDelegations, funded, credited, staking, halted, history>>

\* x/slashing: downtime jails a validator, a message of its operator frees it.
JailOrUnjail(v) ==
    /\ Spend
    /\ v \notin removed
    /\ jailed' = [jailed EXCEPT ![v] = ~@]
    /\ UNCHANGED <<height, params, WhitelistedPairs, Prevotes, Votes, MissCounters, prices,
                   FeederDelegations, money, power, bonded, removed, halted, history>>

\* x/staking: the last delegator leaves a validator that is not bonded, and the validator is
\* deleted.  No hook tells the oracle, which keeps what it stored under the operator.
RemoveValidator(v) ==
    /\ Spend
    /\ ~bonded[v] /\ v \notin removed
    /\ removed' = removed \cup {v}
    /\ UNCHANGED <<height, params, WhitelistedPairs, Prevotes, Votes, MissCounters, prices,
                   FeederDelegations, money, power, bonded, jailed, halted, history>>

-----------------------------------------------------------------------------
(* The tally.  "act" is the set of validators with a performance record.    *)

\* x/staking closes the block first: jailed validators leave the bonded set.
BondedSet == [v \in Validators |-> ~jailed[v] /\ v \notin removed]

\* Bonded validators of the power index, which holds no jailed validator.
newValidatorPerformances(bond) == {v \in Validators : bond[v] /\ ~jailed[v]}

Voters(act, p) == {v \in act \cap DOMAIN Votes : p \in DOMAIN Votes[v].rates}
Rate(v, p) == Votes[v].rates[p]
IsAbstain(v, p) == Rate(v, p) <= 0
\* groupVotesByPair: an abstention has no power.
VotePower(v, p) == IF IsAbstain(v, p) THEN 0 ELSE power[v]
PowerOf(S, p) == SumFunction([v \in S |-> VotePower(v, p)])

\* LegacyDec.RoundInt: to the nearest integer, halves to the even one.
RoundInt(n, d) ==
    LET q == n \div d
        r == 2 * (n % d)
    IN IF r > d \/ (r = d /\ q % 2 = 1) THEN q + 1 ELSE q

isPassingVoteThreshold(act, bond, p) ==
    LET ballot == Voters(act, p)
        totalBonded == SumFunctionOnSet(power, {v \in Validators : bond[v]})
    IN /\ PowerOf(ballot, p) # 0
       /\ PowerOf(ballot, p) >= RoundInt(params.voteThreshold[1] * totalBonded, params.voteThreshold[2])
       /\ Cardinality({v \in ballot : ~IsAbstain(v, p)}) >= params.minVoters

\* removeInvalidVotes: the pairs whose votes count, and what it leaves of the
\* set of whitelisted pairs.
ValidPairs(act, bond) == {p \in WhitelistedPairs : isPassingVoteThreshold(act, bond, p)}
RemainingPairs(act, bond) ==
    {p \in WhitelistedPairs : Voters(act, p) = {} \/ isPassingVoteThreshold(act, bond, p)}

\* Mutant: the last vote by rate.
WeightedMedianLastMut(act, p) == Max({Rate(v, p) : v \in Voters(act, p)})

\* The rate of the first vote, by rate, at which the power reaches one half.
WeightedMedian(act, p) ==
    LET ballot == Voters(act, p)
        UpTo(r) == {v \in ballot : Rate(v, p) <= r}
    IN Min({r \in {Rate(v, p) : v \in ballot} :
              PowerOf(UpTo(r), p) >= PowerOf(ballot, p) \div 2})

Abs(n) == IF n < 0 THEN -n ELSE n

\* Mutant: failing to vote on a pair is a miss too.
TallyMut(act, p) ==
    LET median == WeightedMedian(act, p)
        same == {v \in Voters(act, p) : Rate(v, p) = median}
    IN [pair |-> p, rate |-> median, winners |-> same, missed |-> act \ same]

\* Tally of one ballot: the price, who is rewarded for it, and who missed it.  A vote is right
\* within half the reward band of the median, or within the standard deviation:
\* |rate - median| <= sqrt(sum / n) is compared squared.
Tally(act, p) ==
    LET ballot == Voters(act, p)
        valid == {v \in ballot : ~IsAbstain(v, p)}
        median == WeightedMedian(act, p)
        off(v) == Abs(Rate(v, p) - median)
        sum == SumFunction([v \in valid |-> off(v) * off(v)])
        right == {v \in ballot : \/ 2 * params.rewardBand[2] * off(v) <= params.rewardBand[1] * median
                                 \/ Cardinality(valid) * off(v) * off(v) <= sum}
    IN [pair |-> p, rate |-> median, winners |-> right, missed |-> valid \ right]

\* What a validator earns over the tallied pairs.
RewardWeight(tallies, v) ==
    SumFunction([t \in {t \in tallies : v \in t.winners} |-> VotePower(v, t.pair)])

\* SetPrice for the medians, or for the prices of a genesis: each sets the rate and adds
\* a snapshot under the time of the block (one unit of time per block).
SetPrices(rates) ==
    /\ ExchangeRates' = [p \in DOMAIN ExchangeRates \cup DOMAIN rates |->
          IF p \in DOMAIN rates THEN [rate |-> rates[p], created |-> height] ELSE ExchangeRates[p]]
    /\ PriceSnapshots' = [p \in DOMAIN PriceSnapshots \cup DOMAIN rates |->
          LET old == IF p \in DOMAIN PriceSnapshots THEN PriceSnapshots[p] ELSE <<>>
          IN  IF p \in DOMAIN rates THEN With(old, height, rates[p]) ELSE old]

\* Mutant: the number of periods is not counted down.
GatherRewardsMut(rewards) == rewards

\* GatherRewardsForVotePeriod: what is left of the rewards after this period
GatherRewards(rewards) ==
    LET left == {i \in DOMAIN rewards : rewards[i].votePeriods > 1}
    IN [i \in left |-> [rewards[i] EXCEPT !.votePeriods = @ - 1]]

\* A share of the coins, as LegacyDec computes it.
Portion(coins, weight, total) == (coins * ((weight * Precision) \div total)) \div Precision

\* Without a winner nothing is gathered.  A failing transfer is only logged.
rewardWinners(act, tallies) ==
    LET total == SumFunction([v \in act |-> RewardWeight(tallies, v)])
        coins == SumFunction([i \in DOMAIN Rewards |-> Rewards[i].coins])
        distributed == SumFunction([v \in act |-> Portion(coins, RewardWeight(tallies, v), total)])
        paid == IF distributed <= funds THEN distributed ELSE 0
    IN IF total = 0 THEN UNCHANGED money
       ELSE /\ Rewards' = GatherRewards(Rewards)
            /\ credited' = credited + distributed
            /\ funds' = funds - paid /\ funded' = funded + paid
            /\ UNCHANGED RewardsID

\* Mutant: a prevote is cleared one block early.
ClearedPrevotesMut == {v \in DOMAIN Prevotes : height >= Prevotes[v].submit + params.votePeriod - 1}

\* clearVotesAndPrevotes
ClearedPrevotes == {v \in DOMAIN Prevotes : height >= Prevotes[v].submit + params.votePeriod}

\* Mutant: only the lengths of the lists are compared.
refreshWhitelistMut(next, current) ==
    WhitelistedPairs' = IF Cardinality(current) # Cardinality(next) THEN next ELSE WhitelistedPairs

\* The set compared with the next whitelist lacks the pairs that failed.
refreshWhitelist(next, current) ==
    WhitelistedPairs' = IF Cardinality(current) # Cardinality(next) \/ ~(next \subseteq current)
                        THEN next ELSE WhitelistedPairs

\* History: who voted, on a pair that counts, for a rate without a majority of the power.
\* The tally rounds the half of an odd power down, so a majority by one unit is none.
Dissenters(act, pairs) ==
    {v \in act : \E p \in pairs :
        /\ v \in Voters(act, p) /\ ~IsAbstain(v, p)
        /\ LET same == {w \in Voters(act, p) : Rate(w, p) = Rate(v, p)}
           IN 2 * PowerOf(same, p) <= PowerOf(Voters(act, p), p) + 1}

UpdateExchangeRates(act, bond, tallies) ==
    /\ SetPrices([p \in {t.pair : t \in tallies} |-> (CHOOSE t \in tallies : t.pair = p).rate])
    /\ rewardWinners(act, tallies)
    /\ Prevotes' = Without(Prevotes, ClearedPrevotes)
    /\ Votes' = <<>>
    /\ refreshWhitelist(params.whitelist, RemainingPairs(act, bond))

\* incrementMissCounters
MissesAfter(tallies) ==
    [v \in Validators |-> MissCounters[v] + Cardinality({t \in tallies : v \in t.missed})]

\* Mutant: the last period of the window is not counted.
votePeriodsPerWindowMut == (params.slashWindow - 1) \div params.votePeriod

votePeriodsPerWindow == params.slashWindow \div params.votePeriod

\* The uint64 difference wraps when a validator misses more than the window has
\* periods, and the conversion to int64 undoes it.
BelowMinValid(misses) ==
    /\ misses > 0
    /\ (votePeriodsPerWindow - misses) * params.minValidPerWindow[2]
         < params.minValidPerWindow[1] * votePeriodsPerWindow

\* Only validators with misses have an entry, and each divides by votePeriodsPerWindow.
DividesByZero(misses) == votePeriodsPerWindow = 0 /\ \E v \in Validators : misses[v] > 0

\* Of an operator without a validator, IsBonded is called on a nil interface.
CallsNil(misses) == \E v \in removed : BelowMinValid(misses[v])

SlashAndResetMissCounters(misses, bond) ==
    LET hit == {v \in Validators : BelowMinValid(misses[v]) /\ bond[v] /\ ~jailed[v]}
    IN /\ jailed' = [v \in Validators |-> jailed[v] \/ v \in hit]
       /\ slashed' = slashed \cup hit
       /\ MissCounters' = [v \in Validators |-> 0]

\* When the EndBlocker panics the block is not committed, now or ever.
EndBlocker ==
    LET bond == BondedSet
        act == newValidatorPerformances(bond)
        tally == IsPeriodLastBlock(params.votePeriod)
        slash == IsPeriodLastBlock(params.slashWindow)
        tallies == IF tally THEN {Tally(act, p) : p \in ValidPairs(act, bond)} ELSE {}
        misses == MissesAfter(tallies)
        commit ==
            /\ height' = height + 1
            /\ bonded' = bond
            /\ \/ tally /\ UpdateExchangeRates(act, bond, tallies)
                        /\ deviated' = deviated \cup Dissenters(act, ValidPairs(act, bond))
               \/ ~tally /\ UNCHANGED <<prices, money, Prevotes, Votes, WhitelistedPairs, deviated>>
            /\ \/ slash /\ SlashAndResetMissCounters(misses, bond)
               \/ ~slash /\ MissCounters' = misses /\ UNCHANGED <<jailed, slashed>>
            /\ UNCHANGED <<params, FeederDelegations, power, removed, halted, edited, budget>>
        panic ==
            /\ halted' = TRUE
            /\ UNCHANGED <<height, params, WhitelistedPairs, Prevotes, Votes, MissCounters, prices,
                           FeederDelegations, money, staking, history, budget>>
    IN /\ height < MaxHeight
       /\ IF slash /\ (DividesByZero(misses) \/ CallsNil(misses)) THEN panic ELSE commit

\* ExportGenesis followed by InitGenesis, at the same height.  Snapshots are not exported.
RestartFromGenesis ==
    /\ Spend
    /\ ExchangeRates' = [p \in DOMAIN ExchangeRates |-> [ExchangeRates[p] EXCEPT !.created = height]]
    /\ PriceSnapshots' = [p \in DOMAIN ExchangeRates |-> With(<<>>, height, ExchangeRates[p].rate)]
    /\ WhitelistedPairs' = IF WhitelistedPairs # {} THEN WhitelistedPairs ELSE params.whitelist
    /\ RewardsID' = IF DOMAIN Rewards # {} THEN Max(DOMAIN Rewards) ELSE 1
    /\ UNCHANGED <<height, params, Prevotes, Votes, MissCounters, FeederDelegations,
                   Rewards, funds, funded, credited, staking, halted, history>>

-----------------------------------------------------------------------------
\* Mutant: the last price counts for no time.
TwapMut(p) ==
    LET times == {t \in DOMAIN PriceSnapshots[p] : t \in (height - params.twapLookback)..height}
        next(t) == Min({u \in times \cup {height} : u > t} \cup {Max(times)})
    IN  SumFunction([t \in times |-> PriceSnapshots[p][t] * (next(t) - t)])

\* GetExchangeRateTwap of a pair with more than one snapshot in the window, times the length of
\* the time it divides by.  A price counts until the next one, the last until now.
Twap(p) ==
    LET times == {t \in DOMAIN PriceSnapshots[p] : t \in (height - params.twapLookback)..height}
        next(t) == Min({u \in times \cup {height} : u > t} \cup {height})
    IN  SumFunction([t \in times |-> PriceSnapshots[p][t] * (next(t) - t)])

OracleNext ==
    /\ ~halted
    /\ \/ \E v \in Validators, feeder \in Validators \cup Feeders, b \in Ballots :
             \/ Prevote(feeder, v, GetAggregateVoteHash(b, v))
             \/ Vote(feeder, v, b)
       \/ \E v \in Validators, feeder \in Feeders : DelegateFeedConsent(v, feeder)
       \/ \E v \in Validators : JailOrUnjail(v) \/ RemoveValidator(v)
       \/ \E e \in ParamEdits : EditOracleParams(e)
       \/ \E f \in Funds : AllocateRewards(f[1], f[2])
       \/ RestartFromGenesis
       \/ EndBlocker

OracleSpec == OracleInit /\ [][OracleNext]_oracleVars

-----------------------------------------------------------------------------
(* Commit before reveal: a vote that waits for the tally was committed in    *)
(* the vote period before the current one, when no vote of this period could *)
(* have been seen, unless the length of the period was edited in between      *)
(* (AggregateExchangeRateVote, clearVotesAndPrevotes, EditOracleParams).       *)
CommitBeforeReveal ==
    \A v \in DOMAIN Votes :
        Votes[v].committed > edited => PeriodOf(Votes[v].committed) = PeriodOf(height) - 1

(* A commitment is not lost: a block takes a prevote from the store only     *)
(* after its whole reveal period (clearVotesAndPrevotes).                     *)
PrevoteSurvivesRevealPeriod ==
    [][\A v \in DOMAIN Prevotes :
          height' # height /\ v \notin DOMAIN Prevotes' =>
              PeriodOf(height') - PeriodOf(Prevotes[v].submit) > 1]_oracleVars

(* A price is the median of its ballot: a block sets only a rate that a      *)
(* bonded validator revealed, with less than half of the power of the        *)
(* ballot below it and, up to the rounding of the half, at most half above   *)
(* it.  It is positive unless the power of the ballot is a single unit, half *)
(* of which is rounded to nothing (removeInvalidVotes,                        *)
(* WeightedMedianWithAssertion).                                             *)
PriceIsMedianOfVotes ==
    [][\A p \in DOMAIN ExchangeRates' :
          height' # height /\ (p \in DOMAIN ExchangeRates => ExchangeRates'[p] # ExchangeRates[p]) =>
              LET ballot == Voters(newValidatorPerformances(bonded'), p)
                  price == ExchangeRates'[p].rate
                  Weight(votes) == 2 * PowerOf(votes, p)
              IN  /\ \E v \in ballot : Rate(v, p) = price
                  /\ PowerOf(ballot, p) > 1 => price > 0
                  /\ Weight({v \in ballot : Rate(v, p) < price}) < PowerOf(ballot, p)
                  /\ Weight({v \in ballot : Rate(v, p) > price}) <= PowerOf(ballot, p) + 1]_oracleVars

(* Whoever is slashed has voted, on a pair that counted, for a rate without  *)
(* a majority of the power: misses of several pairs and periods, jailings     *)
(* and edits of the parameters never add up to a penalty for a validator     *)
(* that only abstained or agreed, by more than the one unit that rounding may  *)
(* cost it, with a majority (Tally, SlashAndResetMissCounters).  One that did  *)
(* not vote at all is not slashed either: see SilenceIsAMiss.                 *)
OnlyDissentersSlashed == slashed \subseteq deviated

(* The pairs that may be voted on follow the parameters: after a tally none  *)
(* is missing, and one that was taken from the parameters is still there     *)
(* only if its own ballot failed in this tally (refreshWhitelist compares     *)
(* with a set from which removeInvalidVotes took the pairs that failed).      *)
WhitelistFollowsParams ==
    [][height' # height /\ IsPeriodLastBlock(params.votePeriod) =>
          LET act == newValidatorPerformances(bonded')
              failed == WhitelistedPairs \ RemainingPairs(act, bonded')
          IN /\ params.whitelist \subseteq WhitelistedPairs'
             /\ WhitelistedPairs' \ params.whitelist \subseteq failed]_oracleVars

(* What x/oracle/README.md says of a miss: a bonded validator that in a vote *)
(* period left out a pair of the whitelist has one miss more, unless the      *)
(* slash window ended too and the counters were reset.  The code counts it    *)
(* as an abstention (incrementAbstainsByOmission).                            *)
SilenceIsAMiss ==
    [][height' # height /\ IsPeriodLastBlock(params.votePeriod) /\ ~IsPeriodLastBlock(params.slashWindow) =>
          LET act == newValidatorPerformances(bonded')
          IN  \A v \in act, p \in WhitelistedPairs :
                 v \notin Voters(act, p) => MissCounters'[v] > MissCounters[v]]_oracleVars

(* Under parameters that pass Params.Validate, which EditOracleParams does   *)
(* not call, EndBlocker panics for one reason only: an operator that counted  *)
(* too many misses was removed from x/staking before the slash window ended.  *)
(* Whatever else is edited, jailed, removed or restarted meanwhile, the       *)
(* window closes (SlashAndResetMissCounters).                                 *)
OnlyRemovedOperatorsHalt ==
    halted /\ Validate(params) => \E v \in removed : BelowMinValid(MissCounters[v])

(* The time-weighted average lies between the lowest and the highest price   *)
(* in its window, whenever it is asked for: between two prices, right after   *)
(* one, and after a restart that kept only the last (GetExchangeRateTwap).     *)
TwapWithinPrices ==
    \A p \in DOMAIN PriceSnapshots :
        LET times == DOMAIN PriceSnapshots[p] \cap ((height - params.twapLookback)..height)
            seen == {PriceSnapshots[p][t] : t \in times}
        IN Cardinality(times) > 1 =>
             Twap(p) \in (Min(seen) * (height - Min(times)))..(Max(seen) * (height - Min(times)))

(* Rewards are backed: what x/distribution recorded for validators was paid  *)
(* to it, and the module account still holds what the remaining vote periods *)
(* will pay (AllocateRewards, rewardWinners, GatherRewardsForVotePeriod).     *)
RewardsBacked ==
    /\ credited = funded
    /\ funds >= SumFunction([i \in DOMAIN Rewards |-> Rewards[i].coins * Rewards[i].votePeriods])
=============================================================================
