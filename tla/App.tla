-------------------------------- MODULE App --------------------------------
(***************************************************************************)
(* The life of a transaction: CheckTx into the mempool, DeliverTx in a       *)
(* block, Commit, and the recheck of what the mempool still holds.  The ante *)
(* handler is chosen by the kind of the transaction (app/ante.go): a list of *)
(* Ethereum messages, or an ordinary one, here of Wasm and x/devgas          *)
(* messages.  Both use up the sequences of the same accounts and pay to the  *)
(* same fee collector.                                                       *)
(*                                                                         *)
(* The order of things is that of baseapp and of the mempool, libraries: the *)
(* writes of the ante handler stay even when the messages fail, the writes   *)
(* of the messages are kept together or dropped together.                    *)
(***************************************************************************)
EXTENDS EvmTx, DevGas

CONSTANTS
    Users,       \* accounts that sign transactions
    EthTxs,      \* transactions of Ethereum messages: [kind |-> "eth", msgs]
    SdkTxs,      \* ordinary ones: [kind |-> "sdk", from, nonce, fee, gas, msgs]
    Submitted,   \* those of them that are sent to this node
    Outcomes,    \* what the execution of a message may come to: [used, failed, logs, refund]
    ParamsSet,   \* parameters of x/devgas that governance may choose
    Genesis,     \* the state of the chain at genesis
    MaxHeight, MaxTxs, MaxPool   \* bounds: blocks, transactions in a block, in the mempool

VARIABLES
    deliver,       \* deliverState: the state of the block that is executed
    check,         \* checkState: the state that CheckTx runs on
    mempool,       \* transactions that passed CheckTx, oldest first
    height,
    blockGas,      \* consumed in the block
    blockTxs,      \* the transactions of the block
    receipts,      \* the Ethereum messages executed in the block
    distributed,   \* fees of earlier blocks, paid on by x/distribution
    accepted       \* signatures of each account that passed the ante handler in a block

\* Accounts and contracts, in the order of their addresses.
Addresses == DOMAIN Genesis.bank

EthMsg ==
    [from : Users, to : Addresses, nonce : Nat, value : Nat, gas : Nat, tip : Nat, cap : Nat]

SdkMsg ==
    [type : {"Execute", "CancelFeeShare"}, contract : Contracts]
    \cup [type : {"RegisterFeeShare", "UpdateFeeShare"}, contract : Contracts,
          withdrawer : Addresses]
    \cup [type : {"UpdateAdmin"}, contract : Contracts, admin : Addresses \cup {None}]

DevGasParams == [enabled : BOOLEAN, share : Nat \X (Nat \ {0}), denoms : Seq(STRING)]

\* The states of the chain.
State ==
    [seq : [Addresses -> Nat], bank : [Addresses -> Nat], collector : Nat, evm : Nat,
     txIndex : Nat, logSize : Nat, bloom : SUBSET [from : Users, nonce : Nat],
     feeShare : [Contracts -> Addresses \cup {None}],
     admin : [Contracts -> Addresses \cup {None}], devGasParams : DevGasParams]

ASSUME FeeAssumption ==
    /\ WeiPerUnibi \in Nat \ {0} /\ RefundQuotient \in Nat \ {0}
    /\ BaseFee \in Nat /\ MinGasPrice \in Nat /\ Intrinsic \in Nat /\ BlockGasLimit \in Nat
    /\ MaxUint64 \in Nat /\ BlockGasLimit <= MaxUint64

ASSUME AccountAssumption ==
    /\ IsFiniteSet(Addresses) /\ Addresses \subseteq Int
    /\ Users \subseteq Addresses /\ Users \cap Blocked = {}

ASSUME TxAssumption ==
    /\ EthTxs \subseteq [kind : {"eth"}, msgs : Seq(EthMsg)]
    /\ SdkTxs \subseteq [kind : {"sdk"}, from : Users, nonce : Nat, fee : Nat, gas : Nat,
                          msgs : Seq(SdkMsg)]
    /\ Submitted \subseteq EthTxs \cup SdkTxs
    /\ Outcomes \subseteq [used : Nat, failed : BOOLEAN, logs : Nat, refund : Nat]
    /\ ParamsSet \subseteq DevGasParams

ASSUME GenesisAssumption ==
    /\ Genesis \in State
    /\ \A a \in Users : Genesis.seq[a] = 0
    /\ Genesis.evm = 0 /\ Genesis.txIndex = 0 /\ Genesis.logSize = 0 /\ Genesis.bloom = {}

vars == <<deliver, check, mempool, height, blockGas, blockTxs, receipts, distributed, accepted>>

\* The signatures of a transaction, one per Ethereum message.
Signatures(tx) == IF tx.kind = "eth" THEN tx.msgs ELSE <<tx>>
SignaturesOf(tx, a) == Cardinality({i \in DOMAIN Signatures(tx) : Signatures(tx)[i].from = a})

AnteHandlerNonEVM(st, tx) ==
    LET paid == DeductFees(st, tx.from, tx.fee)
        shared == DevGasPayout(paid.st, tx.msgs, tx.fee)
    IN  IF paid.ok /\ shared.ok THEN IncrementSequence(shared.st, tx) ELSE Refused

AnteHandler(st, tx, mode) ==
    IF tx.kind = "eth" THEN EthAnteHandler(st, tx.msgs, mode) ELSE AnteHandlerNonEVM(st, tx)

\* The handler of a message of an ordinary transaction.
Handle(st, sender, m, o) ==
    CASE m.type = "Execute" -> IF o.failed THEN Refused ELSE Passed(st)
      [] m.type = "RegisterFeeShare" -> RegisterFeeShare(st, m.contract, sender, m.withdrawer)
      [] m.type = "UpdateFeeShare" -> UpdateFeeShare(st, m.contract, sender, m.withdrawer)
      [] m.type = "CancelFeeShare" -> CancelFeeShare(st, m.contract, sender)
      [] m.type = "UpdateAdmin" -> UpdateAdmin(st, m.contract, sender, m.admin)

\* baseapp.runMsgs: the messages in order, up to the first error, with the gas they used
\* and a receipt for each Ethereum message.
RunMsgs(st, tx, os) ==
    LET begin == [ok |-> TRUE, st |-> st, gas |-> 0, receipts |-> <<>>]
        receipt(s, m, r) ==
            [from |-> m.from, nonce |-> m.nonce, txIndex |-> s.txIndex, logIndex |-> s.logSize,
             logs |-> r.logs, gasUsed |-> r.gasUsed, commitErr |-> r.commitErr]
        step(acc, i) ==
            IF ~acc.ok THEN acc
            ELSE IF tx.kind = "eth"
            THEN LET r == EthereumTx(acc.st, tx.msgs[i], os[i], acc.gas)
                 IN  IF r.ok
                     THEN [ok |-> TRUE, st |-> r.st, gas |-> acc.gas + r.gasUsed,
                           receipts |-> Append(acc.receipts, receipt(acc.st, tx.msgs[i], r))]
                     ELSE [acc EXCEPT !.ok = FALSE, !.gas = @ + r.gasUsed]
            ELSE LET r == Handle(acc.st, tx.from, tx.msgs[i], os[i])
                 IN  IF r.ok THEN [acc EXCEPT !.st = r.st, !.gas = tx.gas]
                     ELSE [acc EXCEPT !.ok = FALSE, !.gas = tx.gas]
    IN  ForEach(step, begin, [i \in DOMAIN tx.msgs |-> i])

\* Answers of the EVM that are possible for the messages of a transaction.
Possible(tx) ==
    {os \in [DOMAIN tx.msgs -> Outcomes] :
        tx.kind = "eth" => \A i \in DOMAIN os : os[i].used <= AtLeast(tx.msgs[i].gas, Intrinsic)}

-----------------------------------------------------------------------------
Init ==
    /\ deliver = Genesis /\ check = Genesis
    /\ mempool = <<>>
    /\ height = 1 /\ blockGas = 0 /\ blockTxs = {} /\ receipts = <<>>
    /\ distributed = 0
    /\ accepted = [a \in Users |-> 0]

InMempool(tx) == \E i \in DOMAIN mempool : mempool[i] = tx

\* CheckTx of a transaction that is not in the mempool yet (its cache refuses those).
CheckTx(tx) ==
    /\ Len(mempool) < MaxPool
    /\ ~InMempool(tx)
    /\ LET ante == AnteHandler(check, tx, "check")
       IN  ante.ok /\ check' = ante.st
    /\ mempool' = Append(mempool, tx)
    /\ UNCHANGED <<deliver, height, blockGas, blockTxs, receipts, distributed, accepted>>

\* The proposer of a block puts in what it likes, from its own mempool.
Proposed(tx) == Cardinality(blockTxs) < MaxTxs /\ tx \notin blockTxs

\* DeliverTx of a transaction that the ante handler refuses, or that comes when the gas
\* of the block is used up: nothing is written.
TxRefused(tx) ==
    /\ Proposed(tx)
    /\ InMempool(tx)
    /\ blockGas >= BlockGasLimit \/ ~AnteHandler(deliver, tx, "deliver").ok
    /\ blockTxs' = blockTxs \cup {tx}
    /\ UNCHANGED <<deliver, check, mempool, height, blockGas, receipts, distributed, accepted>>

\* DeliverTx otherwise.  The writes of the messages are kept if none failed and the gas
\* they used fits in the block.
TxDelivered(tx) ==
    /\ Proposed(tx)
    /\ blockGas < BlockGasLimit
    /\ LET ante == AnteHandler(deliver, tx, "deliver")
       IN  /\ ante.ok
           /\ \E run \in {RunMsgs(ante.st, tx, os) : os \in Possible(tx)} :
                LET kept == run.ok /\ blockGas + run.gas <= BlockGasLimit
                IN  /\ deliver' = IF kept THEN run.st ELSE ante.st
                    /\ receipts' = IF kept THEN receipts \o run.receipts ELSE receipts
                    /\ blockGas' = blockGas + run.gas
                    /\ accepted' = [a \in Users |-> accepted[a] + SignaturesOf(tx, a)]
    /\ blockTxs' = blockTxs \cup {tx}
    /\ UNCHANGED <<check, mempool, height, distributed>>

\* Mutant: the rest of the mempool is kept as it is.
RecheckMut(st, pool) == [st |-> st, pool |-> SelectSeq(pool, LAMBDA tx : tx \notin blockTxs)]

\* The mempool after Commit: the transactions of the block are gone, and so is every
\* other one that the ante handler refuses now.
Recheck(st, pool) ==
    LET step(acc, tx) ==
            LET ante == AnteHandler(acc.st, tx, "recheck")
            IN  IF tx \notin blockTxs /\ ante.ok
                THEN [st |-> ante.st, pool |-> Append(acc.pool, tx)] ELSE acc
    IN  ForEach(step, [st |-> st, pool |-> <<>>], pool)

\* EndBlock, where x/gov may set the parameters of x/devgas, Commit with the recheck, and
\* BeginBlock of the next height: the transient counters start again, x/distribution
\* empties the fee collector.
NextBlock(params) ==
    /\ height < MaxHeight
    /\ height' = height + 1
    /\ LET governed == UpdateParams(deliver, GovModule, params)
           committed == [governed.st EXCEPT !.txIndex = 0, !.logSize = 0, !.bloom = {}]
           rechecked == Recheck(committed, mempool)
       IN  /\ governed.ok
           /\ deliver' = [committed EXCEPT !.collector = 0]
           /\ check' = rechecked.st
           /\ mempool' = rechecked.pool
    /\ distributed' = distributed + deliver.collector
    /\ blockGas' = 0 /\ blockTxs' = {} /\ receipts' = <<>>
    /\ UNCHANGED accepted

Next ==
    \/ \E tx \in Submitted : CheckTx(tx) \/ TxRefused(tx)
    \/ \E tx \in EthTxs \cup SdkTxs : TxDelivered(tx)
    \/ \E params \in ParamsSet \cup {deliver.devGasParams} : NextBlock(params)

Spec == Init /\ [][Next]_vars

-----------------------------------------------------------------------------
\* Every signature that passes the ante handler in a block uses up exactly one sequence
\* number of its account, whether its transaction is executed or fails: EthereumTx sets
\* the nonce back to that of its message and then one further, and must end where the
\* ante handler had left it, also with several messages of one sender in a transaction.
SequencesCountSignatures == \A a \in Users : deliver.seq[a] = accepted[a]

\* The mints and burns by which the StateDB writes balances cancel out: all coins are
\* with accounts, the fee collector or the validators, and none in the account of x/evm.
\* (When every recipient may receive coins; the run app_commit is about one that may not.)
CoinsConserved ==
    LET total(st) == st.collector + SumFunction(st.bank)
    IN  deliver.evm = 0 /\ total(deliver) + distributed = total(Genesis)

\* The Ethereum messages executed in a block are numbered 0, 1, 2 ... and their logs
\* follow each other without a gap, over transactions that fail in between; the bloom
\* filter covers the messages with logs and no others.
ReceiptsAreConsecutive ==
    LET logs == [i \in DOMAIN receipts |-> receipts[i].logs]
        logsBefore(i) == SumFunctionOnSet(logs, 1..i)
    IN  /\ deliver.txIndex = Len(receipts) /\ deliver.logSize = logsBefore(Len(receipts))
        /\ \A i \in DOMAIN receipts :
              receipts[i].txIndex = i - 1 /\ receipts[i].logIndex = logsBefore(i - 1)
        /\ deliver.bloom = {[from |-> receipts[i].from, nonce |-> receipts[i].nonce] :
                                i \in {j \in DOMAIN receipts : receipts[j].logs > 0}}

\* At the beginning of a block the mempool can be executed in its order as far as nonces
\* go: those of each account continue from its sequence without a gap.
MempoolContinuesSequences ==
    blockTxs = {} =>
      \A k \in DOMAIN mempool : \A i \in DOMAIN Signatures(mempool[k]) :
        LET sigs == Signatures(mempool[k])
            a == sigs[i].from
            earlier == [l \in DOMAIN mempool |-> SignaturesOf(mempool[l], a)]
        IN  sigs[i].nonce = deliver.seq[a] + SumFunctionOnSet(earlier, 1..(k - 1))
                + Cardinality({j \in 1..(i - 1) : sigs[j].from = a})

\* What the sender of an executed transaction has paid is the price of the gas it used, give or
\* take less than one unibi per message: the fee and the refund are both rounded down to unibi,
\* so the difference may fall either way.  It is never more than the fee, and when the messages
\* fail it is the whole fee.
FeeMatchesGas ==
    [][\A tx \in blockTxs' \ blockTxs : tx.kind = "eth" /\ accepted' # accepted =>
         LET fee == SumFunction([i \in DOMAIN tx.msgs |-> EffectiveFee(tx.msgs[i])])
             new == SubSeq(receipts', Len(receipts) + 1, Len(receipts'))
             gasWei == SumFunction([i \in DOMAIN new |->
                                   new[i].gasUsed * EffectiveGasPriceWei(tx.msgs[i])])
             kept == deliver'.collector - deliver.collector
         IN  IF new = <<>> THEN kept = fee
             ELSE /\ kept <= fee
                  /\ NativeToWei(kept) > gasWei - NativeToWei(Len(new))
                  /\ NativeToWei(kept) < gasWei + NativeToWei(Len(new))]_vars

\* The developers get no more than half of a fee, a denomination that is allowed twice counted
\* twice.
AtMostHalf(params) == 2 * getAllowedFees(params, params.share[1]) <= params.share[2]

\* No transaction takes more out of the fee collector than it paid in, neither by refunds
\* nor by the payout to the developers, as long as these get no more than half.
CollectorNeverShrinks ==
    [][height' = height /\ AtMostHalf(deliver.devGasParams)
         => deliver'.collector >= deliver.collector]_vars

\* "If the message fails ... the transaction won't be committed to the store": a message
\* whose ApplyEvmMsg returned an error has moved no coins but the fee of its sender.
ErrorsAreNotCommitted ==
    [][\A tx \in blockTxs' \ blockTxs :
         /\ Len(receipts') = Len(receipts) + 1
         /\ receipts'[Len(receipts')].commitErr
         => LET fee == deliver'.collector - deliver.collector
            IN  /\ deliver'.bank = [deliver.bank EXCEPT ![tx.msgs[1].from] = @ - fee]
                /\ deliver'.evm = deliver.evm]_vars
=============================================================================
