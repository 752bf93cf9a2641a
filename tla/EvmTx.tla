------------------------------- MODULE EvmTx -------------------------------
(***************************************************************************)
(* Ethereum messages: the ante handlers of app/evmante, and EthereumTx with  *)
(* ApplyEvmMsg, the commit of its StateDB, the refund of gas and the         *)
(* counters of the block (x/evm/keeper).  Of the state st of the chain they  *)
(* also use evm, the balance of the module account of x/evm, and txIndex,    *)
(* logSize and bloom, the transient counters.                                *)
(*                                                                         *)
(* A message has from, nonce, to, value (wei), gas (its limit), tip and cap  *)
(* (wei per gas); the one price of a legacy message is both tip and cap.     *)
(* What the EVM computes is an outcome: gas used, failure, a log, and the    *)
(* refund counter.                                                           *)
(***************************************************************************)
EXTENDS Ledger

CONSTANTS
    WeiPerUnibi,
    BaseFee,          \* BASE_FEE_MICRONIBI
    MinGasPrice,      \* of the node, in unibi; 0 when it is not set
    Intrinsic,        \* core.IntrinsicGas
    RefundQuotient,   \* gethparams.RefundQuotientEIP3529
    BlockGasLimit,
    MaxUint64,        \* the most that a gas meter counts
    CodeAccounts      \* the addresses with EVM code

WeiToNative(wei) == wei \div WeiPerUnibi
NativeToWei(n) == n * WeiPerUnibi
BaseFeeWei == NativeToWei(BaseFee)

AtLeast(m, n) == IF m > n THEN m ELSE n
AtMost(m, n) == IF m < n THEN m ELSE n

EffectiveGasPriceWei(m) == AtLeast(BaseFeeWei, AtMost(m.tip + BaseFeeWei, m.cap))
EffectiveFee(m) == WeiToNative(EffectiveGasPriceWei(m) * m.gas)
Cost(m) == m.cap * m.gas + m.value

-----------------------------------------------------------------------------
\* The ante handlers that only look.  All compare with the balance before any fee is
\* deducted, and with the price that was signed, not the effective one.
MempoolGasPrice(m) ==
    MinGasPrice = 0 \/ WeiToNative(EffectiveGasPriceWei(m)) >= AtLeast(MinGasPrice, BaseFee)

\* A sender without an account gets one with sequence 0, as st has it from the beginning (and
\* the bank makes an account for everyone who receives coins).
VerifyEthAcc(st, m) ==
    m.from \notin CodeAccounts /\ NativeToWei(st.bank[m.from]) >= Cost(m)

CanTransfer(st, m) ==
    /\ AtLeast(BaseFeeWei, m.cap) >= BaseFeeWei
    /\ m.value > 0 => NativeToWei(st.bank[m.from]) >= m.value

\* Mutant: the fee is deducted at the price that was signed.
GasConsumeMut(st, m) == DeductFees(st, m.from, WeiToNative(m.cap * m.gas))

\* VerifyFee and deductFee of EthGasConsume.
GasConsume(st, m) == DeductFees(st, m.from, EffectiveFee(m))

GasWanted(msgs) == ForEach(LAMBDA n, m : n + m.gas, 0, msgs)

\* The chain of decorators.  A recheck deducts nothing; intrinsic gas is compared in
\* CheckTx alone.
EthAnteHandler(st, msgs, mode) ==
    LET looks(m) ==
            /\ mode # "deliver" => MempoolGasPrice(m)
            /\ VerifyEthAcc(st, m)
            /\ CanTransfer(st, m)
            /\ mode = "check" => m.gas >= Intrinsic
        paid == IF mode = "recheck" THEN Passed(st) ELSE Each(GasConsume, st, msgs)
    IN  IF (\A i \in DOMAIN msgs : looks(msgs[i])) /\ GasWanted(msgs) <= BlockGasLimit /\ paid.ok
        THEN Each(IncrementSequence, paid.st, msgs)
        ELSE Refused

-----------------------------------------------------------------------------
\* Mutant: the coins of an account are not burnt.
SetAccBalanceMut(st, a, n) == Passed([st EXCEPT !.bank[a] = AtLeast(@, n)])

\* SetAccBalance: what is missing is minted and sent, what is too much taken and burnt.
\* Coins minted for an account that may not receive them stay in the module account.
SetAccBalance(st, a, n) ==
    IF n <= st.bank[a] THEN Passed([st EXCEPT !.bank[a] = n])
    ELSE IF a \in Blocked THEN [ok |-> FALSE, st |-> [st EXCEPT !.evm = @ + n - st.bank[a]]]
    ELSE Passed([st EXCEPT !.bank[a] = n])

\* Commit: the dirty accounts in ascending order of their addresses, up to the first
\* error.  What was written before the error stays written.
CommitAccount(st, obj) ==
    SetAccBalance([st EXCEPT !.seq[obj.addr] = obj.nonce], obj.addr, obj.balance)

Commit(st, objs) ==
    LET byAddress == CHOOSE s \in [1..Cardinality(objs) -> objs] :
                         \A i, j \in DOMAIN s : i < j => s[i].addr < s[j].addr
    IN  Each(CommitAccount, st, byAddress)

\* Mutant: the nonce is set to one more than the sequence the ante handler left.
DirtyMut(st, m, n) ==
    {[addr |-> a, nonce |-> st.seq[a] + (IF a = m.from THEN 1 ELSE 0),
      balance |-> st.bank[a] - (IF a = m.from THEN n ELSE 0) + (IF a = m.to THEN n ELSE 0)] :
        a \in IF n > 0 THEN {m.from, m.to} ELSE {m.from}}

\* The accounts that are dirty after a message moved n unibi: the sender with its nonce
\* set, and the recipient.
Dirty(st, m, n) ==
    LET balance(a) == st.bank[a] - (IF a = m.from THEN n ELSE 0) + (IF a = m.to THEN n ELSE 0)
        nonce(a) == IF a = m.from THEN m.nonce + 1 ELSE st.seq[a]
    IN  {[addr |-> a, nonce |-> nonce(a), balance |-> balance(a)] :
            a \in IF n > 0 THEN {m.from, m.to} ELSE {m.from}}

gasToRefund(available, used) == AtMost(available, used \div RefundQuotient)

\* ApplyEvmMsg with the answer o of the EVM.  A message without the gas or with a value
\* below one unibi is an error (no response); a sender whose balance is too small for the
\* value is a failure of the EVM, as is what the contract reverts.  A leftover beyond the gas
\* limit, before anything is committed, and an error of Commit are returned together with the
\* response.
ApplyEvmMsg(st, m, o) ==
    LET n == WeiToNative(m.value)
        poor == n > st.bank[m.from]
        failed == poor \/ o.failed
        used == IF poor THEN Intrinsic ELSE o.used
        refund == gasToRefund(IF poor THEN 0 ELSE o.refund, used)
        overflow == m.gas - used + refund > m.gas
        committed == Commit(st, Dirty(st, m, IF failed THEN 0 ELSE n))
    IN  IF m.gas < Intrinsic \/ (m.value > 0 /\ n = 0) THEN Refused
        ELSE [ok |-> TRUE, st |-> IF overflow THEN st ELSE committed.st,
              commitErr |-> overflow \/ ~committed.ok,
              gasUsed |-> IF overflow THEN m.gas ELSE used - refund,
              logs |-> IF failed THEN 0 ELSE o.logs, vmErr |-> failed]

\* Mutant: the bloom of the block is that of its last message with logs.
updateBlockBloomMut(st, sig, logs) ==
    IF logs = 0 THEN st ELSE [st EXCEPT !.bloom = {sig}, !.logSize = @ + logs]

updateBlockBloom(st, sig, logs) ==
    IF logs = 0 THEN st
    ELSE [st EXCEPT !.bloom = @ \cup {sig}, !.logSize = @ + logs]

\* SafeConsumeGas: the meter of the transaction has no limit but the width of its counter, and
\* starts again at 0 when that overflows.
SafeConsumeGas(consumed, used) == consumed + used <= MaxUint64

\* RefundGas: nothing is sent when nothing is left over.
RefundGas(st, a, n) == IF n = 0 THEN Passed(st) ELSE SendFromCollector(st, a, n)

\* EthereumTx after ApplyEvmMsg has answered resp in the state st, with gas consumed by earlier
\* messages of the transaction: an error that comes with a response is only noted; the gas is
\* consumed before the refund, which may fail.
Answered(st, m, resp, consumed) ==
    LET left == m.gas - resp.gasUsed
        logged == updateBlockBloom(resp.st, [from |-> m.from, nonce |-> m.nonce], resp.logs)
        refunded == RefundGas(logged, m.from, WeiToNative(left * EffectiveGasPriceWei(m)))
    IN  IF ~resp.ok THEN [ok |-> FALSE, gasUsed |-> 0]
        ELSE IF ~SafeConsumeGas(consumed, resp.gasUsed)
        THEN [ok |-> FALSE, gasUsed |-> 0 - consumed]
        ELSE IF ~refunded.ok THEN [ok |-> FALSE, gasUsed |-> resp.gasUsed]
        ELSE [ok |-> TRUE, st |-> [refunded.st EXCEPT !.txIndex = st.txIndex + 1],
              gasUsed |-> resp.gasUsed, logs |-> resp.logs, commitErr |-> resp.commitErr]

EthereumTx(st, m, o, consumed) == Answered(st, m, ApplyEvmMsg(st, m, o), consumed)
=============================================================================
