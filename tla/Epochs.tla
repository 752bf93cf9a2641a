------------------------------- MODULE Epochs -------------------------------
(***************************************************************************)
(* x/epochs: named timers that the BeginBlocker advances and that call the  *)
(* hooks AfterEpochEnd and BeforeEpochStart.  A block carries a time; block *)
(* times only grow, and they may jump (a halted chain that resumes).        *)
(***************************************************************************)
EXTENDS Integers, Sequences

CONSTANTS
    Ids,         \* epoch identifiers ("30 min", "day", "week", "month")
    Duration,    \* Duration[id]: length of an epoch in ticks of block time
    StartTimes,  \* the StartTime values that a genesis file may give
    GenesisTime, \* block time at which the chain starts
    MaxTime,     \* bound on block time
    MaxImports   \* bound on the number of restarts from an exported genesis

\* types/epochinfo.go: Validate rejects a zero duration.
ASSUME EpochsAssumption ==
    /\ Duration \in [Ids -> Nat \ {0}]
    /\ StartTimes \subseteq Nat
    /\ GenesisTime \in Nat \ {0}
    /\ MaxTime \in Nat
    /\ MaxImports \in Nat

VARIABLES
    blockTime,   \* ctx.BlockTime()
    blockHeight, \* ctx.BlockHeight()
    epochs,      \* the Epochs collection: identifier -> EpochInfo
    hooks,       \* per identifier, the hook calls the last block made, in order
    imports      \* restarts so far (bounds the model)

epochVars == <<blockTime, blockHeight, epochs, hooks, imports>>

EpochInfo == [startTime : Nat, currentEpoch : Nat, currentEpochStartHeight : Nat,
              currentEpochStartTime : Nat, epochCountingStarted : BOOLEAN]

HookCall == [hook : {"AfterEpochEnd", "BeforeEpochStart"}, epoch : Nat]

-----------------------------------------------------------------------------
\* An epoch of the genesis file, with the given StartTime (0 is the zero time.Time).
GenesisEpoch(start) ==
    [startTime |-> start, currentEpoch |-> 0, currentEpochStartHeight |-> 0,
     currentEpochStartTime |-> start, epochCountingStarted |-> FALSE]

\* AddEpochInfo: an unset StartTime becomes the block time of the import; the start
\* height is always the height of the import.
AddEpochInfo(e, now, height) ==
    [e EXCEPT !.startTime = IF @ = 0 THEN now ELSE @,
              !.currentEpochStartHeight = height]

EpochsInit ==
    /\ blockTime = GenesisTime
    /\ blockHeight = 0
    /\ epochs \in [Ids -> {AddEpochInfo(GenesisEpoch(s), GenesisTime, 0) : s \in StartTimes}]
    /\ hooks = [id \in Ids |-> <<>>]
    /\ imports = 0

-----------------------------------------------------------------------------
\* Mutant: an epoch whose end time equals the block time is not over.
ShouldEpochStartMut(id, e, now) ==
    \/ ~e.epochCountingStarted
    \/ now > e.currentEpochStartTime + Duration[id]

shouldEpochStart(id, e, now) ==
    \/ ~e.epochCountingStarted
    \/ now >= e.currentEpochStartTime + Duration[id]

\* The epoch fires in a block at time now: it has passed its StartTime.
Fires(id, e, now) == now >= e.startTime /\ shouldEpochStart(id, e, now)

\* The EpochInfo that the BeginBlocker inserts for an epoch that fires.
StartEpoch(e, now, height) ==
    [startTime |-> e.startTime,
     currentEpoch |-> IF e.epochCountingStarted THEN e.currentEpoch + 1 ELSE 1,
     currentEpochStartHeight |-> height,
     currentEpochStartTime |-> now,
     epochCountingStarted |-> TRUE]

\* Mutant: the next epoch is announced before the old one is reported as ended.
HookCallsMut(e) ==
    IF e.epochCountingStarted
    THEN <<[hook |-> "BeforeEpochStart", epoch |-> e.currentEpoch + 1],
           [hook |-> "AfterEpochEnd", epoch |-> e.currentEpoch]>>
    ELSE <<[hook |-> "BeforeEpochStart", epoch |-> 1]>>

\* The hook calls made for an epoch that fires: nothing ends the first time.
HookCalls(e) ==
    IF e.epochCountingStarted
    THEN <<[hook |-> "AfterEpochEnd", epoch |-> e.currentEpoch],
           [hook |-> "BeforeEpochStart", epoch |-> e.currentEpoch + 1]>>
    ELSE <<[hook |-> "BeforeEpochStart", epoch |-> 1]>>

\* BeginBlocker of the block at time now.  Each identifier is examined once, so
\* an epoch advances by at most one however far the time jumped.
BeginBlocker(now) ==
    /\ blockTime' = now
    /\ blockHeight' = blockHeight + 1
    /\ epochs' = [id \in Ids |->
                    IF Fires(id, epochs[id], now)
                    THEN StartEpoch(epochs[id], now, blockHeight + 1)
                    ELSE epochs[id]]
    /\ hooks' = [id \in Ids |->
                    IF Fires(id, epochs[id], now) THEN HookCalls(epochs[id]) ELSE <<>>]
    /\ UNCHANGED imports

NextBlock == \E now \in (blockTime + 1)..MaxTime : BeginBlocker(now)

\* ExportGenesis on the old chain, then InitGenesis on the new one: AddEpochInfo
\* keeps every field but the start height, which becomes the new chain's height.
ExportImport ==
    /\ imports < MaxImports
    /\ imports' = imports + 1
    /\ \E height \in {0, blockHeight + 1} :
          /\ blockHeight' = height
          /\ epochs' = [id \in Ids |->
                          AddEpochInfo(epochs[id], blockTime, height)]
    /\ hooks' = [id \in Ids |-> <<>>]
    /\ UNCHANGED blockTime

EpochsNext == NextBlock \/ ExportImport

EpochsSpec == EpochsInit /\ [][EpochsNext]_epochVars

\* The epoch numbers that the last block reported to a hook of timer id.
Reported(hook, id) == {hooks[id][i].epoch : i \in {j \in DOMAIN hooks[id] : hooks[id][j].hook = hook}}

-----------------------------------------------------------------------------
\* Type invariant: the Epochs collection holds one EpochInfo per identifier.
EpochsTypeOK ==
    /\ blockTime \in Nat
    /\ blockHeight \in Nat
    /\ epochs \in [Ids -> EpochInfo]
    /\ hooks \in [Ids -> Seq(HookCall)]
    /\ imports \in 0..MaxImports

\* Epochs never run ahead of the clock: epoch n of a timer starts no earlier than
\* n-1 full durations after its StartTime, whatever the block times, and no later
\* than now.  (BeginBlocker restarts the clock at the block time, so epochs may
\* only fall behind.)
NeverAheadOfClock ==
    \A id \in Ids : epochs[id].epochCountingStarted =>
        /\ epochs[id].currentEpochStartTime >=
             epochs[id].startTime + Duration[id] * (epochs[id].currentEpoch - 1)
        /\ epochs[id].currentEpochStartTime <= blockTime

\* No epoch is left overdue once a block was processed: the current epoch of a
\* started timer ends strictly after the current block time, even after a jump
\* over several durations.
NoOverdueEpoch ==
    \A id \in Ids : epochs[id].epochCountingStarted =>
        blockTime < epochs[id].currentEpochStartTime + Duration[id]

\* The two together: a started timer keeps pace with the block time, neither ahead of
\* it nor a whole epoch behind it after any block, jump or restart (BeginBlocker).
TimersFollowClock == NeverAheadOfClock /\ NoOverdueEpoch

\* A hook receiver is told of every epoch once and in order: in the block that makes the
\* epoch number grow BeginBlocker calls exactly AfterEpochEnd with the old number and
\* then BeforeEpochStart with the next one (only the latter when counting starts), and in
\* any other block, and at a restart, it calls nothing.
HooksFollowEpochs ==
    [][\A id \in Ids :
         LET old == epochs[id].currentEpoch
             new == epochs'[id].currentEpoch
             ends == [hook |-> "AfterEpochEnd", epoch |-> old]
             starts == [hook |-> "BeforeEpochStart", epoch |-> old + 1]
         IN  /\ new \in {old, old + 1}
             /\ hooks'[id] = IF new = old THEN <<>>
                             ELSE IF old = 0 THEN <<starts>> ELSE <<ends, starts>>
      ]_epochVars
=============================================================================
