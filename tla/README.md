# Nibiru in TLA+

A verification project for the Nibiru chain: a Cosmos SDK application with an EVM, its own
modules (oracle, inflation, epochs, sudo, token factory, developer gas, FunToken mappings) and an
Ethereum JSON-RPC server. The modules here model the parts whose correctness depends on the order
of messages, blocks, callbacks, goroutines, reverts and restarts. `PROJECT.json` holds the exact
correspondence: `map` names the source lines of each definition, `runs` the model-checking runs,
`mutants` one plausible bug per checked property that the run must detect, `theorems` what is
proved, `hazards` what can go wrong in the code and which property watches it.

## 1. Inventory of the system

| part | state | operations | what is hard about it |
| --- | --- | --- | --- |
| `x/epochs` | one timer per identifier | `BeginBlocker`, hooks, genesis | late blocks start one epoch at a time; genesis import in the middle of an epoch |
| `x/inflation` | params, period, skipped epochs, balances | epoch hook, toggle, edit | the hook is not a transaction: a failing step leaves what earlier steps did; root edits interleave with the counters |
| `x/sudo` | root, set of contracts | `EditSudoers`, `ChangeRoot` | every replica must store the same bytes; addresses have spellings |
| `x/oracle` | prevotes, votes, misses, rates, snapshots, rewards, whitelist, params | prevote, vote, consent, `EndBlocker`, edits of the params, genesis | commit and reveal in different periods; expiry by height, admission by period; tally, rewards, misses and whitelist in one block; params that change meanwhile; integer halves |
| `x/tokenfactory` | creators, admins, bank metadata, balances | create, admin, mint, burn, metadata, genesis | existence is asked of the bank, which others write too |
| `x/evm/statedb` | objects, journal, snapshots, access list, cached store | the methods the interpreter calls, precompile start, commit | nested reverts over a commit to the cached store in mid-transaction; two copies of each balance |
| EVM execution, gas, ante | sequences, fees, refund, counters of the block | ante chain, `EthereumTx`, `ApplyEvmMsg`, refund | what survives a failed execution; several messages in one transaction; rounding between wei and unibi |
| transaction life cycle (`app`) | mempool, check and deliver state | CheckTx, DeliverTx, Commit, recheck | two ante chains on the same sequences and the same fee collector |
| `x/devgas` | fee shares | register, update, cancel, payout | payout in the ante handler, before execution; rounded shares |
| FunToken (`x/evm`) | mappings, escrows, two ledgers | register, convert by message or precompile | fee-on-transfer tokens; fees burnt from the account that holds the escrows |
| EVM tx indexer | index database, two goroutines | follow the chain, index, restart, CLI | signals that coalesce, requests that fail, crashes between blocks |
| JSON-RPC filters and websockets | filters map, event bus, topics, goroutines | new, poll, expire, uninstall, push, (un)subscribe on a connection | locks, channels closed by several parties, topics removed and created again |
| the rest | - | wiring, encodings, clients, queries | no state of their own |

How they interact: `x/epochs` calls the hooks of `x/inflation`, and `x/sudo` decides who may edit
it and whose account gets the strategic share (all three composed in `Inflation`); `x/sudo` also
decides who may edit the oracle and token metadata (those modules take the permitted accounts as
constants); Ethereum and ordinary transactions share sequences, balances and the
fee collector, from which `x/devgas` pays (composed in `App`); precompiles reach the bank through
the EVM's StateDB (`StateDB`); FunToken moves value between the bank and ERC20 contracts
(`FunToken`); the indexer and the filters follow the blocks of the node.

A transaction of the chain is atomic: a message that fails changes nothing, so in the modules of
one component its failure is not a step. (`TokenFactory` runs mint and burn on a branch of the bank
and drops the branch at an error, because the code relies on that.) What a failed transaction leaves
behind, its fee and its sequence number, is the subject of `App`. Epoch hooks and
`EndBlocker` are not transactions, and their partial failures are steps.

## 2. Modules

| module | models | corresponds to |
| --- | --- | --- |
| `Epochs` | `x/epochs` | `epochs[id]` is `EpochInfo`; `BeginBlocker` is the code of the same name, for all timers of one block; `ExportImport` is a restart from an exported genesis; `hooks` records the calls of the last block |
| `Inflation` | `x/inflation` on top of `Epochs` and `Sudo` | `Block` is one block with the hook (`SkipEpoch`, `EmptyEpoch` or `MintEpoch`); `ToggleInflation` and `EditInflationParams` are messages of sudoers, `EditSudoers` those of `x/sudo`; `mintedEpochs`, `lostEpochs` and `failed` are history |
| `Sudo` | `x/sudo` on several replicas | `ToPb` gives every order in which a Go map may be ranged over; a string is an address with a spelling; `OtherMsg` is a message of another module |
| `StateDB` | `x/evm/statedb`, bank extension, precompile start | `db` is the StateDB with its objects, journal, `validRevisions`, dirties, access list, cached and transaction context; one action per interpreter instruction that changes state, per precompile call, per revert and for the end of the transaction; `saved` and `crossed` are history (the views at the snapshots, and whether a precompile call was reverted) |
| `Snapshots` | what the interpreter expects of a state with snapshots | abstract: a view and a stack of saved views |
| `Ledger` | accounts, balances and fee collector that the ante handlers and messages share | operators from a state to `Refused` or `Passed(state)` |
| `EvmTx` | `app/evmante`, `EthereumTx`, `ApplyEvmMsg`, gas and fees | the decorators in their order, in the modes check, recheck and deliver; execution, commit of the dirty accounts, refund, gas meter (`SafeConsumeGas`), counters of the block; what the interpreter answers is a choice, and which addresses hold code is a constant (`CodeAccounts`) |
| `DevGas` | `x/devgas` | the messages and the payout of the ante handler; `getAllowedFees` counts the denomination of the fee as often as the parameters list it |
| `App` | the life of a transaction, with `EvmTx` and `DevGas` composed | `check` and `deliver` are the two states of baseapp; `CheckTx`, `TxRefused`, `TxDelivered`, `NextBlock` (EndBlock, Commit, recheck of the mempool, BeginBlock) |
| `TokenFactory` | `x/tokenfactory` and the bank below it | `tfStore`, `metadata`, `balance`, `supply`; one action per message; `mint` and `burn` are the keeper's functions on a branch of the bank, which `RunMsg` writes or drops |
| `Oracle` | `x/oracle` with staking and distribution as far as it uses them | one action per message; `EndBlocker` does the tally, prices with snapshots, rewards, misses, clearing, whitelist refresh and slashing of one block in their order, or panics (a division by zero, a removed operator) and halts the chain; `JailOrUnjail` and `RemoveValidator` are what `x/staking` and `x/slashing` do meanwhile; `edited`, `deviated`, `slashed` are history |
| `FunToken` | FunToken mappings | `funtokens` with its two indexes, both ledgers with their supplies, nonce of the module account; one action per message and precompile method, and the holders' own sends, transfers and burns; an ERC20 keeps back a percentage of a transfer, rounded down, as `TestERC20TransferWithFee` does |
| `TxIndexer` | indexer service, database, command | `pc` is the place in the loop, `listener` that of the other goroutine, `newBlockSignal` the channel of capacity one; `Crash` may come anywhere |
| `EventSubscriber` | `FiltersAPI`, the websocket server, `EventSubscriber`, `memEventBus` | `caller`, `goroutine`, `publisher`, `consumer` are places in the code of each goroutine; locks and channel operations bound the steps; a panic (closing or sending on a closed channel) is recorded in `panics` and stops the process; an event is good, of another type, or does not decode (`Shapes`), and each kind of goroutine does with it what its code does; `late` is history: who registered when the topic had no channel |
| `Laws`, `StepLaws` | no code | what is known of loops and sums, and of one transaction of `App`, as formulas: the interface between the proof modules (section 4) |

`MCInflation`, `MCStateDB`, `MCTokenFactory`, `MCOracle`, `MCFunToken` and `MCApp` give values to
constants that a configuration cannot write down. The proofs are in `ChainProofs` (epochs, sudo,
inflation, indexer), `TokenFactoryProofs`, `OracleProofs`, `EvmProofs` (RPC events and FunToken),
`FoldProofs`, `AppSteps`, `AppInvariants` and `AppProofs`. A definition that ends in `Mut` is a mutant: it stands
before the definition it would replace and is used by no specification.

What is abstracted: amounts are small naturals, names are model values or short strings, wei and
unibi differ by a factor of two instead of 10^12, the inflation curve is a function from periods,
rates are integers, an Ethereum transaction is a flag of its block for the indexer and a record of
sender, nonce, value, gas and prices in `App`, events are numbered. What is kept: every guard,
early return, order of writes and error path of the operations listed.

## 3. Runs

Every run is `tlc -config X.cfg M` with the module and configuration named in `PROJECT.json`. All of
them finish within three minutes on two cores.

| run | states | bounds | shows |
| --- | --- | --- | --- |
| `inflation` | 338 k | 2 timers (durations 1 and 3), time to 6, 1 restart, 2 messages of sudoers or of the root; 2 accounts in 2 spellings, 2 replicas, 2 contracts a message | `TimersFollowClock`, `HooksFollowEpochs`, `EveryEpochAccounted`, `NothingStranded`, `PermissionsAgree`, `OnlyRootEdits` |
| `sudo_replicas` | counterexample | 3 accounts, 2 replicas, 2 contracts a message, one spelling | replicas store the same contracts in different orders |
| `statedb` | 193 k | 3 accounts, 2 slots, every instruction, 3 instructions and any reverts in a transaction, 1 precompile call admitted | `RevertRestoresFrames` (the steps of `Snapshots`), `RevertRestoresModules`, `RevertPanicsOnlyAfterDestruct`, `CommitPersistsView`, `SupplyNeverGrows` |
| `statedb_revert_storage` | counterexample | 3 instructions, 1 slot | a slot keeps a reverted value after a precompile call: `StateDB` does not refine `Snapshots` |
| `tokenfactory` | 211 k | 3 accounts, 4 spellings, 1 subdenom, supply 1, 1 restart | `RegistryConsistent`, `NothingLeftBehind`, `OnlyAdminHandsOver`, `OnlyAdminMints` |
| `oracle` | 652 k | 4 geneses: 2 validators of powers 2 and 3 with vote period 2 and one other operation, the same with one of them jailed with misses before the window ends, and 2 and 3 validators of power 1 with vote period 1; height 4, 2 pairs | `CommitBeforeReveal`, `PrevoteSurvivesRevealPeriod`, `PriceIsMedianOfVotes`, `TwapWithinPrices`, `RewardsBacked`, `OnlyDissentersSlashed`, `WhitelistFollowsParams`, `OnlyRemovedOperatorsHalt` |
| `oracle_silence` | counterexample | the same | a validator that leaves out a pair has no miss |
| `funtoken` | 64 k | 2 users, 2 coins, 1 ERC20 that keeps half, 4 module calls | `MappingsUnique`, `EscrowBacked`, `ConversionsExact` |
| `txindexer` | 89 k | 3 blocks, 1 crash, 1 refused batch | `NoLostWakeup`, `NoHoleInIndex`, `NoticedIsIndexed` |
| `rpc_events` | 151 k | 2 subscriptions of one topic, every pair of kinds, 1 event of any shape | `NothingClosedTwice`, `EventsAtMostOnce`, `FilterIsListening`, `CallsReturn`, `GoroutinesEnd` |
| `app` | 147 k | 2 users, 2 contracts, 2 blocks of up to 3 transactions, mempool of 2, nonces 0 and 1 | `SequencesCountSignatures`, `CoinsConserved`, `FeeMatchesGas`, `ReceiptsAreConsecutive`, `MempoolContinuesSequences`, `CollectorNeverShrinks` |
| `app_commit` | counterexample | transfers to a module account that may not receive coins | a message succeeds although the commit of its StateDB failed half-way |

Why these bounds are enough for the questions asked:

- *Epochs, inflation and sudo.* Six ticks with durations of 1 and 3 let a timer be late by several
  epochs, catch up, be restarted in the middle of an epoch and finish a period; two messages let
  inflation be switched off and on, `EpochsPerPeriod` change between two epochs, or the root add a
  contract that then edits, or hand over to an account that may receive no coins. The proofs
  remove the bounds.
- *StateDB.* A change, a snapshot with a change inside it and a precompile call, with reverts to any
  snapshot in between, fit in three instructions; two slots tell the numbered entries of the access
  list apart. The limit on precompile calls (one here, ten in the code) is reached and crossed. The same
  properties also held in one longer exploration with four instructions, on one storage slot and
  the genesis with a new account only (1.4 million states).
- *Oracle.* A prevote, its reveal and the tally take three blocks of periods of two, and the fourth
  sees what is left. Powers of 2 and 3, and of 1, 1 and 1, give ballots whose half is an integer and
  ballots whose half is rounded; the chains of equal powers have enough windows to slash. The one
  other operation may be a jailing, a removal, a consent, a funding of rewards, an edit of the params
  or a restart, at any moment; the chain that starts with a jailed validator lets its removal come
  before the end of the window.
- *FunToken.* Four calls of the module cover two registrations and two conversions; a fee of
  50 percent (10 in the test contract) is zero for an amount of 1 and positive for 2.
- *Indexer.* Three blocks give a block noticed while another is being indexed and one that comes
  between the two; the crash and the refused batch may come anywhere.
- *RPC events.* Two subscriptions let one remove the topic that the other uses. One event is enough
  for a duplicate, because a duplicate is an event that arrives twice. The proofs remove both bounds
  for the safety properties.
- *App.* Two messages of one sender in a transaction, two of different senders, a transaction that
  comes after the block's gas is used up, an execution that fails in the first or the second message,
  and a mempool with a gap left by a refused transaction all fit in two blocks. Prices and values
  are chosen so that rounding to unibi happens and does not. The parameters of developer gas allow
  the fee's denomination once, twice, or by an empty list.

Deadlock is not checked where the bound on time, height, operations or supply ends the behaviour;
`txindexer` checks it.

### Fairness

Safety runs assume none. `TxIndexer` assumes weak fairness for the steps of the loop that the Go
scheduler always lets proceed, and strong fairness for `Status` and `IndexNext`: requests to the
local node may fail any number of times but not for ever. It assumes nothing of the listener, of
commits or of `Start`: `NoticedIsIndexed` is about heights the listener has stored.
`EventSubscriber` assumes weak fairness for each goroutine of the process that can proceed: calls
in progress, goroutines of subscriptions, the event loop (`Uninstall`, `Install`), publishers and
the consumer's pending send. It assumes nothing of clients, timers and the chain: new calls, polls,
disconnections and events may never come. Both liveness properties excuse a process that has
panicked; `NothingClosedTwice` says that closing a channel twice is not a reason for it.

## 4. Proofs

`tlapm` checks every leaf; nothing is assumed but the named `ASSUME`s of each module, which say
what kinds of values the constants are, and two theorems state a hypothesis of their own
(`RecipientsOpen`, below). TLC evaluates the `ASSUME`s in every run.

**`ChainProofs`, epochs.** `EpochsTypeCorrect`, `EpochsSafety`: for any timers, durations, start
times and block times, and after any number of restarts, a timer is neither ahead of the clock nor a
whole epoch behind. Inductive invariant `EpochsIInv`: the property, types, a non-zero start time, and
that a timer counts from one exactly when it has started; without the last a first epoch could be
confused with a later one in the product of duration and epoch number. `HooksSafety`: in the block in
which an epoch number grows the hooks are called with the old and then with the next number, in
any other block not at all; it needs `EpochsIInv`, because the code decides whether something
ended by the flag of the timer and the property by its number.

**`ChainProofs`, sudo.** `PermissionsSafety` and `RootSafety`, for any addresses, replicas and
messages. Inductive invariant `SudoIInv`: replicas store the same root and the same *set* of
contracts, each in some order. `StepAgrees` shows that every message takes replicas that are `Same`
to replicas that are `Same`, from `ToPbStores`: whatever order `ToPb` chooses, it stores exactly its
argument.

**`ChainProofs`, inflation.** `InflationFollowsOthers`: the composition implements `EpochsSpec` and
`SudoSpec`, so all that is proved of the timers and of the Sudoers holds in it. `EpochsAccounted`:
every ended day epoch was minted, skipped or lost, exactly once (`AccountInv`: the three counters
add up to the epochs the timer has ended; before inflation is started all of them are skipped).
`MintRate` follows from it and from `EpochsSafety`: inflation is never paid more often than the
clock allows. `PeriodPace`: the period never runs ahead of the epochs in which inflation was
enabled. `InflationTypeCorrect` and `NoStrandedCoins`: no balance is negative, and the module keeps
coins only after a failed allocation (`BalanceInv`; the lemmas `ShareBound` and `SharesWithinWhole`
bound the truncated shares by the amount minted).

**`ChainProofs`, indexer.** For any number of blocks, crashes and refused batches: `WakeupSafety`,
which is inductive together with the order of the heights (`Heights`), and `IndexSafety`. The latter
needs `IndexInv`: what the loop has passed (`Passed`: every block with transactions from the first
indexed one to `lastIndexedHeight` is indexed, pruned or left out), that the block it is about to
index is the next one (`NextInOrder`), and the same for the command (`Command`).

**`FoldProofs`.** Facts about the folds of the library (sums over finite sets, loops over 1..n,
extremes, shares and averages). The library's induction theorems take an operator, which the provers
cannot instantiate; here a property is given as a set, and the induction comes from the minimal
counterexample that `WFMin` gives. `LawsHold` proves the formulas of `Laws`.

**`TokenFactoryProofs`.** `RegistrySafety` (invariant `Inv`: types and the property itself),
`HandOverSafety`, `SupplySafety`: the registry agrees with the bank after any messages and restarts,
and an admin record or a supply changes only by its admin, for any accounts, spellings and
subdenoms. `CoinsSafety`: between two messages the module account is empty and the others hold the
supply. `PassesThrough`, `MintStep` and `CollectStep` follow the coins through the module account,
also when a message names that account as its recipient or holder, and through the error that drops
them; `OneHolderChanges` turns what one account gains or loses into the change of the sum.

**`OracleProofs`.** For any validators, powers, pairs, parameters, edits, removals and restarts.
`CommitSafety` (a vote was committed in the period before), `PrevoteSafety` (no prevote is cleared
before its reveal period is over) and `WhitelistSafety` rest on `OracleIInv`: the first of these,
that recorded heights lie in the past (`PastHeights`) and the types of the parameters.
`WholePeriodLater` turns the test of `clearVotesAndPrevotes` on heights into one on period numbers,
which is what the admission of a vote looks at. `PriceSafety`, `SlashingSafety` and `RewardSafety`
rest on `MarketInv`: types, rewards that are backed, and that whoever has a miss has dissented
(`MissesExplained`). `MedianSplits` says where the weighted median lies in the power of its ballot,
`MajorityIsMedian` that a rate with a majority is the median, hence `MissedDissent`: whoever voted
outside the band had no majority. `GatherLeaves` and `DistributedWithin` bound what is paid by what
is there, although every share is rounded. `TwapSafety` is the lemma on weighted averages of
`FoldProofs`, applied to the snapshots of the window. `HaltSafety` (`HaltInv`): of the two reasons
for a panic, `WindowHasPeriod` excludes the division by zero under valid parameters, and
`RemovedMissNothing` shows that the counter that makes the other one fatal stood there before the
block, since a removed operator takes part in no tally.

**`EvmProofs`, RPC events.** For any number of subscriptions and events. `CloseSafety` needs
`ChannelInv`, which follows one subscription through its life (registered by its caller before its
goroutine starts, uninstalled only after the filter has left the map or the goroutine has ended,
hence once) and says that websocket subscriptions have an event subscriber to themselves in which no
topic is ever removed (`WsApart`). `ListeningSafety` also needs `FeedInv`: while anybody is
registered who did not come late, the topic has its channel with a running publisher, or a closed
channel has a publisher that has not closed its subscribers yet. `DeliverySafety` needs `EventInv`:
an event is with the consumer or with one publisher until it is published, and whoever holds it, no
subscription has seen it (`InOnePlace`).

**`EvmProofs`, FunToken.** `MappingsAreUnique`, `EscrowIsSufficient`, `ConversionsAreExact`,
`FunTokenTypeCorrect`: for any users, coins, contracts, amounts and fee percentages. The invariant
`FTIInv` adds three facts to the properties. Contracts that the module has not deployed yet hold
nothing, and the coin of an ERC20 has no supply before a mapping made from it exists: so a new
mapping starts backed. Contracts of mappings made from coins were deployed at nonces already used:
so a new contract is a new one. The argument has three kinds of step: `ConversionPreserves` (both
sides of one mapping move by the same amount), `RegistrationPreserves` (a new mapping, its two sides
empty or unissued) and `OwnPreserves` (what holders do by themselves only adds to the excess).

**`AppProofs`.** For any accounts, transactions with any number of messages, prices, limits and
lengths of blocks. The argument is in three layers that meet at formulas. `AppSteps` looks at one
transaction: from the definitions of the decorators, the commit of the StateDB, `EthereumTx` and the
payout, and from `Laws`, it derives `StepLaws` (what an ante handler that passes has done; what the
messages have done, or that they are dropped). `AppInvariants` looks at behaviours and uses only
`StepLaws`: the invariant `AppInv` holds the types, the numbering of the receipts and
the mempool as a continuation of the sequences (`PoolInv`, which has to speak of the check state and
of the middle of a block, where the property says nothing). `AppProofs` puts the two together with
`FoldProofs`: `ReceiptsSafety`, `MempoolSafety`, `FeeSafety` and `CollectorSafety` without
conditions, `SequenceSafety` and `LedgerSafety` under `RecipientsOpen`: every recipient of an
Ethereum message may receive coins. Without it they do not hold, as `app_commit` shows.
`FeeSafety` says that the sender pays the price of the gas used give or take less than one unibi per
message: fee and refund are both rounded down, so the difference falls either way.

Only model-checked: liveness (`NoticedIsIndexed`, `CallsReturn`, `GoroutinesEnd`), which is out of
the prover's reach, and the properties of `StateDB` with its refinement of `Snapshots`, which would
need an invariant over every suffix of a journal with a dozen kinds of entries.

## 5. Where code and documentation disagree

Four runs are expected to fail (`findings` in `PROJECT.json`):

- `sudo_replicas`: the list of contracts that is stored comes from ranging over a Go map
  (`x/common/set/set.go:22`, `x/sudo/keeper/msg_server.go:99`). Nodes that execute the same messages
  may store different bytes. `PermissionsAgree` shows that they agree on permissions all the same.
- `statedb_revert_storage`: the commit to the cache context before a precompile call moves dirty
  values to `OriginStorage` (`x/evm/statedb/statedb.go:708`); a revert of the frame does not move
  them back. `RevertRestoresFrames` shows that nothing of the kind happens without such a call.
- `app_commit`: when `StateDB.Commit` fails, here at a balance that a blocked module account may not
  receive, `ApplyEvmMsg` returns its response with the error and `EthereumTx` goes on
  (`x/evm/keeper/msg_server.go:449`); the message succeeds and what was written before the failure
  stays, although the comment at `:236` says that the transaction is not committed.

- `oracle_silence`: the README of the oracle says that leaving out a pair of the whitelist is a miss
  (`x/oracle/README.md:81-83`; so does the comment at `update_exchange_rates.go:45`); the tally
  counts it as an abstention (`:23`, `:64`), which is never punished.

Met while reading, without a run of their own:

- *StateDB.* `SelfDestruct6780` looks at `createdThisBlock` and not at `newContract`
  (`statedb.go:507`). `SetTransientState` stores the previous value (`statedb.go:813`, the comment at
  `:797` says otherwise); the model does what the code does. A revert panics when it meets an entry
  of an account that was destructed before a precompile call, because the commit to the cache
  context removes the object; `RevertPanicsOnlyAfterDestruct` shows that this is the only way until a
  precompile call is reverted, after which, as `statedb_revert_storage` shows, more is lost; the
  properties of the commit and of the supply stop there too.
- *Sudo.* The root is stored as it was spelled but compared in canonical form in `CheckPermissions`
  (`keeper.go:141`): a root stored in upper case fails the check.
- *Epochs.* `x/epochs/README.md:143` says that an epoch takes at least two blocks; the code can start one in every block.
- *Inflation.* Epochs after `MaxPeriod` are neither minted nor counted as skipped (`hooks.go:80`,
  comment at `:104`); `EveryEpochAccounted` counts them as lost.
- *Token factory.* `HasDenom` asks the bank, so metadata that a sudoer sets for a denomination makes
  it look created (`store.go:83`); a genesis import replaces custom metadata by the default.
- *Oracle.* `EditOracleParams` stores what `Params.Validate` would refuse (`params.go:79`,
  `types/params.go:93`): with a slash window shorter than the vote period the end of the window divides
  by zero (`slash.go:31`). The counter of an operator whose validator `x/staking` has deleted makes the
  end of the window call a method of nil (`slash.go:36`). `OnlyRemovedOperatorsHalt` shows that
  valid parameters exclude the first and that there is no third.
  `refreshWhitelist` compares the parameters with the pairs that are left after the tally
  (`whitelist.go:27`): a pair that leaves the parameters stays open for votes when its own ballot
  failed in the same tally. The half of an odd power is rounded down, so that a majority by one unit
  may lose the median to the rate below it; `OnlyDissentersSlashed` allows for that unit. After an
  import the first new reward takes the last identifier in use (`genesis.go:79`). The module's README
  says that rates are purged (`:65`) and that the slash window counts voting periods (`:110`); in the
  code rates stay and the window counts blocks.
- *Developer gas.* Each share is rounded to the nearest unit (`ante.go:182`): with a share above one
  half and several contracts the payout may exceed the fee. A denomination that the parameters list
  twice is paid twice (`:136`; `validateArray` lets it pass). `CollectorNeverShrinks` is about payouts
  up to one half, repeated denominations counted.
- *FunToken.* A comment says that `sendToBank` calls `ConvertEvmToCoinForWNIBI`
  (`msg_convert_evm_to_coin.go:199`); it does not.
- *Indexer.* An empty index starts at the present height (`:95`); a refused batch is logged and
  passed over (`:129`); a block committed between `Status` and `Subscribe` is noticed only with the
  next one (`:54`).
- *RPC events.* Only the subscription that created a topic is in the index, so uninstalling it takes
  the topic from the others (`event_subscriber.go:254`); the consumer looks the channel up under the
  lock and sends after releasing it (`:292`, `:263`), which may be a send on a closed channel; a
  `logs` subscription ends at an event that is not an Ethereum transaction, although the comment
  says that it is ignored (`api_eth_filters.go:386`); a filter whose topic is removed between the two
  locks of `Subscribe` (`pubsub.go:100`, `:107`) hears nothing until somebody creates the topic
  again, and `FilterIsListening` shows that it is the only one; the goroutine of a pending-transaction filter
  does not return when its error channel is closed (`:160`). The websocket server never uninstalls:
  taking a subscription off the bus (`websockets.go:187`, `:280`) leaves its goroutine waiting and
  the topic in place.

## 6. What is not modelled

Of some 240,000 lines of Go beside the tests, 190,000 are generated from protobuf definitions
(`api/`, `*.pb.go`) and have no behaviour to model. Of the 51,000 that are written by hand the `map`
covers about an eighth: the code that changes state. `PROJECT.json` lists every part with the
reason. In short:

- Queries, encodings, command lines, wiring, clients and generated code have no state of their own.
- The interpreter, the bank, staking, distribution, baseapp and the mempool are libraries, modelled
  only as far as the code here uses them.
- Conversions through WNIBI (`x/evm`): balances are kept by the WNIBI contract, which the interpreter
  runs, and NIBI is truncated from wei when the StateDB is committed. A model would repeat `FunToken`
  with the contract assumed instead of translated.
- `StateDB` and `App` are not composed: `App` takes what the interpreter does as a choice of outcomes
  and keeps of the commit what moves coins. Their product is out of TLC's reach.
- Burning in `x/inflation`, `UpdateModuleParams` of `x/tokenfactory`, genesis of `x/devgas` and of
  `x/evm`: one write each, that nothing else in the module depends on.
- ERC20 contracts that mint, rebase or call back in the middle of a transfer; Ethereum messages that
  the stateless validation or the recovery of the signature refuses; links of the ordinary ante chain
  that look only at the types of messages. Fees in several denominations: the ledger of `App` follows unibi,
  what is paid in others moves beside it.
