------------------------------ MODULE StepLaws ------------------------------
(***************************************************************************)
(* What the ante handler and the messages of one transaction do to the     *)
(* state, as formulas over App.  AppSteps proves them (StepLawsHold) from   *)
(* the definitions of the keepers; AppInvariants derives the invariants of  *)
(* the application from them and never looks into a keeper.                 *)
(***************************************************************************)
EXTENDS App, Laws

\* The coins in the fee collector and in the accounts.
Coins(s) == s.collector + SumFunction(s.bank)

\* The counters of the block, and the records of x/devgas, are left alone.
SameCounters(s, t) == t.txIndex = s.txIndex /\ t.logSize = s.logSize /\ t.bloom = s.bloom

SameShares(s, t) ==
    t.feeShare = s.feeShare /\ t.admin = s.admin /\ t.devGasParams = s.devGasParams

\* How many of the first i signatures are those of a.
Count(sigs, i, a) == Cardinality({j \in 1..i : sigs[j].from = a})

\* The fees of the messages of a transaction.
Fees(msgs) == [i \in DOMAIN msgs |-> EffectiveFee(msgs[i])]

\* The transactions of users.
Txs == EthTxs \cup SdkTxs

\* What an ante handler that passes has done.
AnteDone(st, t, tx) ==
    /\ st \in State /\ t \in State /\ t.evm = st.evm /\ Coins(t) = Coins(st)
    /\ SameCounters(st, t) /\ SameShares(st, t)
    /\ \A a \in Addresses : t.seq[a] = st.seq[a] + SignaturesOf(tx, a)
    /\ \A i \in 1..Len(Signatures(tx)) :
          /\ Signatures(tx)[i].from \in Users
          /\ Signatures(tx)[i].nonce = st.seq[Signatures(tx)[i].from]
                                      + Count(Signatures(tx), i - 1, Signatures(tx)[i].from)

\* From s to t an ordinary message has changed only shares and admins.
Handled(s, t) ==
    /\ s \in State /\ t \in State /\ t.seq = s.seq /\ t.bank = s.bank /\ t.evm = s.evm
    /\ t.collector = s.collector /\ SameCounters(s, t) /\ t.devGasParams = s.devGasParams

\* The receipts of Ethereum messages.
Receipt ==
    [from : Users, nonce : Nat, txIndex : Nat, logIndex : Nat, logs : Nat, gasUsed : Nat,
     commitErr : BOOLEAN]

\* From s to t an Ethereum message m has been executed, with the receipt rc.
EthStep(s, t, m, rc) ==
    /\ s \in State /\ t \in State /\ rc \in Receipt /\ SameShares(s, t)
    /\ rc.from = m.from /\ rc.nonce = m.nonce /\ rc.txIndex = s.txIndex /\ rc.logIndex = s.logSize
    /\ rc.gasUsed \in 0..m.gas
    /\ t.txIndex = s.txIndex + 1 /\ t.logSize = s.logSize + rc.logs
    /\ t.bloom = s.bloom \cup (IF rc.logs = 0 THEN {} ELSE {[from |-> m.from, nonce |-> m.nonce]})
    /\ t.collector = s.collector - WeiToNative((m.gas - rc.gasUsed) * EffectiveGasPriceWei(m))
    /\ m.to \notin Blocked => /\ t.evm = s.evm /\ Coins(t) = Coins(s)
                             /\ t.seq = [s.seq EXCEPT ![m.from] = m.nonce + 1]

\* What runMsgs answers.
Runs == [ok : BOOLEAN, st : State, gas : Nat, receipts : Seq(Receipt)]

\* From st to t the messages have been executed one after the other, with the receipts rcs.
EthRan(st, t, msgs, rcs) ==
    \E S \in [0..Len(msgs) -> State] :
        /\ S[0] = st /\ S[Len(msgs)] = t /\ rcs \in Seq(Receipt) /\ Len(rcs) = Len(msgs)
        /\ \A i \in 1..Len(msgs) : EthStep(S[i - 1], S[i], msgs[i], rcs[i])

-----------------------------------------------------------------------------
\* Sums over the first members of a list, and the number of signatures among them.
PrefixLaw ==
    /\ \A f : SumFunctionOnSet(f, 1..0) = 0
    /\ \A n \in Nat : \A i \in 1..n : \A f : (\A j \in 1..n : f[j] \in Int)
          => /\ SumFunctionOnSet(f, 1..i) = SumFunctionOnSet(f, 1..(i - 1)) + f[i]
             /\ SumFunctionOnSet(f, 1..(i - 1)) \in Int /\ f[i] \in Int

SignedLaw ==
    /\ \A sigs, a : Count(sigs, 0, a) = 0
    /\ \A sigs, a : \A i \in Nat : i # 0
          => /\ Count(sigs, i, a) \in Nat /\ Count(sigs, i - 1, a) \in Nat
             /\ Count(sigs, i, a) = Count(sigs, i - 1, a) + (IF sigs[i].from = a THEN 1 ELSE 0)
    /\ \A tx \in Txs : \A a : SignaturesOf(tx, a) = Count(Signatures(tx), Len(Signatures(tx)), a)

\* Division rounds down.
DivisionLaw ==
    \A n \in Nat : \A d \in Nat \ {0} :
        n \div d \in Nat /\ d * (n \div d) <= n /\ n < d * (n \div d) + d

\* The types of transactions and of what is computed from a message.
TypesLaw ==
    /\ \A m \in EthMsg : /\ EffectiveGasPriceWei(m) \in Nat /\ EffectiveFee(m) \in Nat
                         /\ m.from \in Users /\ m.from \in Addresses /\ m.gas \in Nat
    /\ \A tx \in Txs :
          \/ tx.kind = "eth" /\ tx.msgs \in Seq(EthMsg) /\ Signatures(tx) = tx.msgs
          \/ /\ tx.kind = "sdk" /\ tx.from \in Users /\ tx.from \in Addresses /\ tx.fee \in Nat
             /\ tx.gas \in Nat /\ tx.msgs \in Seq(SdkMsg) /\ Signatures(tx) = <<tx>>

\* The ante handler, when it passes: an Ethereum transaction pays its whole fee unless it is
\* rechecked, and of the fee of another one at most the developers' share leaves the
\* collector again.
AnteLaw ==
    \A st \in State : \A tx \in Txs : \A mode, r :
        r = AnteHandler(st, tx, mode) /\ r.ok
            => /\ AnteDone(st, r.st, tx)
               /\ tx.kind = "eth" /\ mode # "recheck"
                    => r.st.collector = st.collector + SumFunction(Fees(tx.msgs))
               /\ tx.kind = "sdk" /\ AtMostHalf(st.devGasParams)
                    => r.st.collector >= st.collector

\* The messages, when all of them succeed.
RunLaw ==
    \A st \in State : \A tx \in Txs : \A os \in Possible(tx) : \A run :
        run = RunMsgs(st, tx, os)
            => /\ run \in Runs
               /\ run.ok /\ tx.kind = "eth" => EthRan(st, run.st, tx.msgs, run.receipts)
               /\ run.ok /\ tx.kind = "sdk" => Handled(st, run.st) /\ run.receipts = <<>>

StepLaws ==
    Laws /\ PrefixLaw /\ SignedLaw /\ DivisionLaw /\ TypesLaw /\ AnteLaw /\ RunLaw
=============================================================================
