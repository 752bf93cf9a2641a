------------------------------ MODULE Inflation ------------------------------
(***************************************************************************)
(* x/inflation driven by the day epoch of x/epochs, edited by the sudoers   *)
(* of x/sudo and paying its root account.  Replicas execute the same        *)
(* blocks; the state of x/inflation is the one of the replica Node.  The    *)
(* hook runs in the BeginBlocker, outside any transaction: what it did      *)
(* before an error stays.  A curve gives the value of the polynomial, in    *)
(* unibi, for each period; proportions are parts of Whole.                  *)
(***************************************************************************)
EXTENDS Epochs, Sudo

CONSTANTS
    DayEpochID,     \* the epoch identifier that drives inflation
    Node,           \* the replica whose x/inflation is modelled
    Blocked,        \* the accounts of Addrs the bank refuses to pay (module accounts)
    Curves,         \* polynomials: functions from 0..MaxPeriods to Int
    Distributions,  \* [staking, community, strategic] with sum Whole
    Whole,
    EpochsPerPeriods, MaxPeriods, \* values that sudo may give to the two params
    MaxEdits        \* bound on the number of sudo messages

ASSUME InflationAssumption ==
    /\ DayEpochID \in Ids
    /\ Node \in Replicas
    /\ Blocked \subseteq Addrs
    /\ EpochsPerPeriods \subseteq Nat
    /\ MaxPeriods \subseteq Nat
    /\ Whole \in Nat \ {0}
    /\ Distributions \subseteq [staking : Int, community : Int, strategic : Int]
    /\ \A c \in Curves : \A m \in MaxPeriods : \A i \in 0..(m - 1) : c[i] \in Int

VARIABLES
    params,           \* Params
    currentPeriod,    \* CurrentPeriod
    numSkippedEpochs, \* NumSkippedEpochs
    balance,          \* bank balances of NIBI created by inflation
    edits,            \* sudo messages so far (bounds the model)
    mintedEpochs,     \* history: day epochs in which coins were minted
    lostEpochs,       \* history: day epochs with inflation enabled that minted nothing
    failed            \* history: the last allocation stopped with an error

inflVars == <<params, currentPeriod, numSkippedEpochs, balance, edits,
              mintedEpochs, lostEpochs, failed>>
allVars == <<epochVars, sudoVars, inflVars>>

Holders == {"fee_collector", "community_pool", "inflation"} \cup Addrs

\* The account that x/sudo names as root, as this replica reads it.
Root == GetRootAddr(sudoers[Node])

-----------------------------------------------------------------------------
\* Params.Validate.
Validate(p) ==
    /\ p.epochsPerPeriod > 0
    /\ p.distribution.staking >= 0
    /\ p.distribution.community >= 0
    /\ p.distribution.strategic >= 0
    /\ p.distribution.staking + p.distribution.community + p.distribution.strategic = Whole

\* The polynomial at a period, or 0 where CalculateEpochMintProvision returns zero.
\* The provision of an epoch is this value divided by epochsPerPeriod.
PolynomialValue(p, period) ==
    IF p.epochsPerPeriod = 0 \/ ~p.enabled \/ period >= p.maxPeriod \/ p.curve[period] < 0
    THEN 0
    ELSE p.curve[period]

\* Coins minted in an epoch: the provision, truncated.
MintedCoin(p, period) == PolynomialValue(p, period) \div p.epochsPerPeriod

GetProportions(amount, proportion) == (amount * proportion) \div Whole

\* Mutant: the strategic share is computed as a proportion, not as the remainder.
AllocatePolynomialInflationMut(bal, minted, dist, to) ==
    LET staking == GetProportions(minted, dist.staking)
        community == GetProportions(minted, dist.community)
        strategic == GetProportions(minted, dist.strategic)
        sent == [bal EXCEPT !["fee_collector"] = @ + staking,
                            !["community_pool"] = @ + community,
                            !["inflation"] = @ - staking - community]
    IN  IF to \in Blocked THEN sent
        ELSE [sent EXCEPT ![to] = @ + strategic, !["inflation"] = @ - strategic]

\* Balances after the minted coins were allocated.  The root is paid last, with
\* everything the module account holds; when the bank refuses, the earlier sends stay.
AllocatePolynomialInflation(bal, minted, dist, to) ==
    LET staking == GetProportions(minted, dist.staking)
        community == GetProportions(minted, dist.community)
        sent == [bal EXCEPT !["fee_collector"] = @ + staking,
                            !["community_pool"] = @ + community,
                            !["inflation"] = @ - staking - community]
    IN  IF to \in Blocked THEN sent
        ELSE [sent EXCEPT ![to] = @ + sent["inflation"], !["inflation"] = 0]

\* MintCoins, then the allocation; nothing is done for a zero amount.
MintAndAllocateInflation(bal, minted, dist, to) ==
    IF minted = 0 THEN bal
    ELSE AllocatePolynomialInflation([bal EXCEPT !["inflation"] = @ + minted], minted, dist, to)

PeriodPassed(epoch, p, period, skipped) ==
    epoch - p.epochsPerPeriod * period - skipped >= p.epochsPerPeriod

-----------------------------------------------------------------------------
\* Mutant: after a pause, the epochs before it count as skipped too.
SkipEpochMut(epoch) ==
    /\ ~params.enabled
    /\ numSkippedEpochs' = epoch
    /\ UNCHANGED <<currentPeriod, balance, mintedEpochs, lostEpochs, failed>>

\* The hook with inflation disabled: before inflation ever started every epoch so far
\* counts as skipped, afterwards one more.
SkipEpoch(epoch) ==
    /\ ~params.enabled
    /\ numSkippedEpochs' = IF params.started THEN numSkippedEpochs + 1 ELSE epoch
    /\ UNCHANGED <<currentPeriod, balance, mintedEpochs, lostEpochs, failed>>

\* The hook with inflation enabled and no provision: past MaxPeriod, or a curve at 0
\* or below.  The epoch is not counted as skipped.
EmptyEpoch(epoch) ==
    /\ params.enabled
    /\ PolynomialValue(params, currentPeriod) = 0
    /\ lostEpochs' = lostEpochs + 1
    /\ UNCHANGED <<currentPeriod, numSkippedEpochs, balance, mintedEpochs, failed>>

\* The hook with a provision: mint, allocate, and pass to the next period when the
\* epochs of this one are over; an error of the allocation returns before that.
\* A provision below one unibi mints nothing and is no error.
MintEpoch(epoch) ==
    /\ params.enabled
    /\ PolynomialValue(params, currentPeriod) > 0
    /\ LET minted == MintedCoin(params, currentPeriod)
           err == minted > 0 /\ Root \in Blocked
       IN  /\ balance' = MintAndAllocateInflation(balance, minted, params.distribution, Root)
           /\ failed' = IF minted > 0 THEN err ELSE failed
           /\ mintedEpochs' = IF minted > 0 THEN mintedEpochs + 1 ELSE mintedEpochs
           /\ lostEpochs' = IF minted > 0 THEN lostEpochs ELSE lostEpochs + 1
           /\ currentPeriod' =
                 IF ~err /\ PeriodPassed(epoch, params, currentPeriod, numSkippedEpochs)
                 THEN currentPeriod + 1 ELSE currentPeriod
    /\ UNCHANGED numSkippedEpochs

AfterEpochEnd(epoch) == SkipEpoch(epoch) \/ EmptyEpoch(epoch) \/ MintEpoch(epoch)

-----------------------------------------------------------------------------
InflationInit ==
    /\ EpochsInit
    /\ SudoInit
    /\ \E enabled \in BOOLEAN, c \in Curves, d \in Distributions,
          e \in EpochsPerPeriods, m \in MaxPeriods :
          /\ params = [enabled |-> enabled, started |-> enabled, curve |-> c,
                       distribution |-> d, epochsPerPeriod |-> e, maxPeriod |-> m]
          /\ Validate(params)
    /\ currentPeriod = 0
    /\ numSkippedEpochs = 0
    /\ balance = [h \in Holders |-> 0]
    /\ edits = 0
    /\ mintedEpochs = 0
    /\ lostEpochs = 0
    /\ failed = FALSE

\* A block: x/epochs calls the hook of x/inflation for every epoch that ended, and
\* the hook acts on the day epoch.
Block ==
    /\ NextBlock
    /\ LET ended == Reported("AfterEpochEnd", DayEpochID)'
       IN  IF ended = {}
           THEN UNCHANGED <<currentPeriod, numSkippedEpochs, balance, mintedEpochs, lostEpochs, failed>>
           ELSE \E epoch \in ended : AfterEpochEnd(epoch)
    /\ UNCHANGED <<params, edits, sudoVars>>

\* ExportGenesis and InitGenesis keep params, period, skipped epochs and the Sudoers.
Restart == ExportImport /\ UNCHANGED <<inflVars, sudoVars>>

\* A message of x/sudo or of its sudoers; MaxEdits bounds their number.
SudoMsg ==
    /\ edits < MaxEdits
    /\ edits' = edits + 1
    /\ UNCHANGED <<epochVars, currentPeriod, numSkippedEpochs, balance,
                   mintedEpochs, lostEpochs, failed>>

\* A message of x/inflation, which asks x/sudo whether the signer is a sudoer.
SudoerMsg == SudoMsg /\ OtherMsg /\ CheckPermissions(signer', sudoers[Node])

\* ToggleInflation by a sudoer.
ToggleInflation ==
    /\ SudoerMsg
    /\ \E enabled \in BOOLEAN :
          params' = [params EXCEPT !.enabled = enabled, !.started = @ \/ enabled]

\* EditInflationParams by a sudoer: each field of the message may be left out.
EditInflationParams ==
    /\ SudoerMsg
    /\ \E c \in Curves, d \in Distributions, e \in EpochsPerPeriods, m \in MaxPeriods :
          params' = [params EXCEPT !.curve = c, !.distribution = d,
                                   !.epochsPerPeriod = e, !.maxPeriod = m]
    /\ Validate(params')

\* MsgEditSudoers or MsgChangeRoot of x/sudo; the new root may be any address that
\* parses, a module account included.
EditSudoers ==
    /\ SudoMsg
    /\ MsgAddContracts \/ MsgRemoveContracts \/ MsgChangeRoot
    /\ UNCHANGED params

InflationNext == Block \/ Restart \/ ToggleInflation \/ EditInflationParams \/ EditSudoers

InflationSpec == InflationInit /\ [][InflationNext]_allVars

-----------------------------------------------------------------------------
\* Type invariant: the stored params are valid and no balance is negative.
InflationTypeOK ==
    /\ EpochsTypeOK
    /\ Validate(params)
    /\ params.enabled \in BOOLEAN
    /\ params.enabled => params.started
    /\ currentPeriod \in Nat
    /\ numSkippedEpochs \in Nat
    /\ Root \in Addrs
    /\ balance \in [Holders -> Nat]

\* Coins are minted at most once per day of block time since the StartTime of the
\* day timer, whatever is toggled, edited, restarted or delayed.
MintedWithinClock ==
    mintedEpochs > 0 =>
        Duration[DayEpochID] * mintedEpochs <= blockTime - epochs[DayEpochID].startTime

\* The ended day epochs split exactly into the skipped ones, those that minted and
\* those that had nothing to mint: the subtractions of the hook never go below 0
\* (the epoch number of the event is a uint64), and no epoch is counted twice when
\* inflation is started, paused and resumed or the chain is restarted.
EveryEpochAccounted ==
    LET ended == IF epochs[DayEpochID].currentEpoch = 0 THEN 0
                 ELSE epochs[DayEpochID].currentEpoch - 1
    IN  numSkippedEpochs + mintedEpochs + lostEpochs = ended

\* The curve is never walked faster than inflation runs: period p is reached only
\* after p times the smallest EpochsPerPeriod epochs with inflation enabled.
PeriodFollowsEnabledEpochs ==
    \A e \in EpochsPerPeriods :
        (\A f \in EpochsPerPeriods \ {0} : e <= f) =>
            currentPeriod * e <= mintedEpochs + lostEpochs

\* Coins stay in the inflation module account only when the last allocation failed; the
\* next allocation that succeeds pays them to the root account.
NothingStranded == balance["inflation"] > 0 => failed
=============================================================================
