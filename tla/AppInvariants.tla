--------------------------- MODULE AppInvariants ---------------------------
(***************************************************************************)
(* The invariants of App over blocks of any length: the numbering of the    *)
(* receipts, the mempool after a recheck, sequences, coins and the fee      *)
(* collector.  Of a transaction the lemmas use only StepLaws.               *)
(***************************************************************************)
EXTENDS StepLaws, TLAPS

\* Leaves are first-order set reasoning unless they cite SMT for arithmetic.
USE Zenon

\* The laws, as the proofs below cite them.
LEMMA ByIndex ==
    ASSUME StepLaws, NEW n \in Nat, NEW T, 0 \in T, \A i \in 1..n : i - 1 \in T => i \in T
    PROVE  \A i \in 0..n : i \in T
  BY DEF StepLaws, Laws, InductionLaw

LEMMA GreatestIndex ==
    ASSUME StepLaws, NEW n \in Nat, NEW s \in SUBSET (1..n), s # {}
    PROVE  Max(s) \in s /\ Max(s) \in 1..n
  BY DEF StepLaws, Laws, LastLaw

LEMMA SolutionOf ==
    ASSUME StepLaws, NEW n \in Nat, NEW A, NEW b \in A, NEW F, StaysIn(F, A, 1..n)
    PROVE  \E g : Solves(F, b, A, 1..n, g)
  BY DEF StepLaws, Laws, SolutionLaw

LEMMA StatesOf ==
    ASSUME StepLaws, NEW n \in Nat, NEW A, NEW b \in A, NEW F, StaysIn(F, A, 1..n),
           NEW h, Follows(F, b, A, n, h)
    PROVE  \E tr : RunsThrough(F, b, A, n, h[1..n], tr)
  BY DEF StepLaws, Laws, TraceLaw

LEMMA NaturalSum ==
    ASSUME StepLaws, NEW S, IsFiniteSet(S), NEW f, \A x \in S : f[x] \in Nat
    PROVE  SumFunctionOnSet(f, S) \in Nat
  BY DEF StepLaws, Laws, SumLaw

LEMMA EqualSums ==
    ASSUME StepLaws, NEW S, IsFiniteSet(S), NEW f, NEW g, \A x \in S : f[x] \in Int /\ f[x] = g[x]
    PROVE  SumFunctionOnSet(f, S) = SumFunctionOnSet(g, S)
  BY DEF StepLaws, Laws, SameLaw

LEMMA IntervalFinite == ASSUME StepLaws PROVE \A n \in Nat : IsFiniteSet(1..n)
  BY DEF StepLaws, Laws, FiniteLaw

LEMMA SubsetFinite ==
    ASSUME StepLaws, NEW S, IsFiniteSet(S), NEW T \in SUBSET S
    PROVE  IsFiniteSet(T)
  BY DEF StepLaws, Laws, FiniteLaw

LEMMA NaturalCardinality == ASSUME StepLaws, NEW S, IsFiniteSet(S) PROVE Cardinality(S) \in Nat
  BY DEF StepLaws, Laws, FiniteLaw

LEMMA Division ==
    ASSUME StepLaws, NEW n \in Nat, NEW d \in Nat \ {0}
    PROVE  n \div d \in Nat /\ d * (n \div d) <= n /\ n < d * (n \div d) + d
  BY DEF StepLaws, DivisionLaw

LEMMA SumNone == ASSUME StepLaws, NEW f PROVE SumFunctionOnSet(f, 1..0) = 0
  BY DEF StepLaws, PrefixLaw

LEMMA SumNext ==
    ASSUME StepLaws, NEW n \in Nat, NEW i \in 1..n, NEW f, \A j \in 1..n : f[j] \in Int
    PROVE  /\ SumFunctionOnSet(f, 1..i) = SumFunctionOnSet(f, 1..(i - 1)) + f[i]
           /\ SumFunctionOnSet(f, 1..(i - 1)) \in Int /\ f[i] \in Int
  BY DEF StepLaws, PrefixLaw

LEMMA SignedNone == ASSUME StepLaws, NEW sigs, NEW a PROVE Count(sigs, 0, a) = 0
  BY DEF StepLaws, SignedLaw

LEMMA SignedNext ==
    ASSUME StepLaws, NEW sigs, NEW a, NEW i \in Nat, i # 0
    PROVE  /\ Count(sigs, i, a) \in Nat /\ Count(sigs, i - 1, a) \in Nat
           /\ Count(sigs, i, a) = Count(sigs, i - 1, a) + (IF sigs[i].from = a THEN 1 ELSE 0)
<1>1. SignedLaw
  BY DEF StepLaws
<1>2. QED
  BY <1>1, SMT DEF SignedLaw

LEMMA SignaturesAre ==
    ASSUME StepLaws, NEW tx \in Txs, NEW a
    PROVE  SignaturesOf(tx, a) = Count(Signatures(tx), Len(Signatures(tx)), a)
  BY DEF StepLaws, SignedLaw

LEMMA MessageTypes ==
    ASSUME StepLaws, NEW m \in EthMsg
    PROVE  /\ EffectiveGasPriceWei(m) \in Nat /\ EffectiveFee(m) \in Nat
           /\ m.from \in Users /\ m.from \in Addresses /\ m.gas \in Nat
  BY DEF StepLaws, TypesLaw

LEMMA TransactionTypes ==
    ASSUME StepLaws, NEW tx \in Txs
    PROVE  \/ tx.kind = "eth" /\ tx.msgs \in Seq(EthMsg) /\ Signatures(tx) = tx.msgs
           \/ /\ tx.kind = "sdk" /\ tx.from \in Users /\ tx.from \in Addresses /\ tx.fee \in Nat
              /\ tx.gas \in Nat /\ tx.msgs \in Seq(SdkMsg) /\ Signatures(tx) = <<tx>>
  BY DEF StepLaws, TypesLaw

LEMMA AnteIs ==
    ASSUME StepLaws, NEW st \in State, NEW tx \in Txs, NEW mode,
           NEW r, r = AnteHandler(st, tx, mode), r.ok
    PROVE  AnteDone(st, r.st, tx)
  BY DEF StepLaws, AnteLaw

LEMMA EthAnteIs ==
    ASSUME StepLaws, NEW st \in State, NEW tx \in Txs, tx.kind = "eth", NEW mode, mode # "recheck",
           NEW r, r = AnteHandler(st, tx, mode), r.ok
    PROVE  r.st.collector = st.collector + SumFunction(Fees(tx.msgs))
<1>1. AnteLaw
  BY DEF StepLaws
<1>2. QED
  BY <1>1, SMT DEF AnteLaw

LEMMA SdkAnteIs ==
    ASSUME StepLaws, NEW st \in State, NEW tx \in Txs, tx.kind = "sdk", NEW mode,
           NEW r, r = AnteHandler(st, tx, mode), r.ok,
           AtMostHalf(st.devGasParams)
    PROVE  r.st.collector >= st.collector
  BY DEF StepLaws, AnteLaw

LEMMA RunIs ==
    ASSUME StepLaws, NEW st \in State, NEW tx \in Txs, NEW os \in Possible(tx)
    PROVE  RunMsgs(st, tx, os) \in Runs
  BY DEF StepLaws, RunLaw

LEMMA EthRunIs ==
    ASSUME StepLaws, NEW st \in State, NEW tx \in Txs, tx.kind = "eth", NEW os \in Possible(tx),
           NEW run, run = RunMsgs(st, tx, os), run.ok
    PROVE  EthRan(st, run.st, tx.msgs, run.receipts)
  BY DEF StepLaws, RunLaw

LEMMA SdkRunIs ==
    ASSUME StepLaws, NEW st \in State, NEW tx \in Txs, tx.kind = "sdk", NEW os \in Possible(tx),
           NEW run, run = RunMsgs(st, tx, os), run.ok
    PROVE  Handled(st, run.st) /\ run.receipts = <<>>
  BY DEF StepLaws, RunLaw

-----------------------------------------------------------------------------
LogsOf(rcs) == [i \in DOMAIN rcs |-> rcs[i].logs]
SigOf(rc) == [from |-> rc.from, nonce |-> rc.nonce]

\* The counters of st are those after the first k of the receipts.
Numbered(st, rcs, k) ==
    /\ st.txIndex = k /\ st.logSize = SumFunctionOnSet(LogsOf(rcs), 1..k)
    /\ \A i \in 1..k : /\ rcs[i].txIndex = i - 1
                       /\ rcs[i].logIndex = SumFunctionOnSet(LogsOf(rcs), 1..(i - 1))
    /\ st.bloom = {SigOf(rcs[i]) : i \in {j \in 1..k : rcs[j].logs > 0}}

LEMMA LogsType ==
    ASSUME NEW rcs \in Seq(Receipt)
    PROVE  /\ Len(rcs) \in Nat /\ DOMAIN rcs = 1..Len(rcs)
           /\ \A i \in 1..Len(rcs) : /\ rcs[i] \in Receipt /\ LogsOf(rcs)[i] = rcs[i].logs
                                     /\ LogsOf(rcs)[i] \in Nat /\ LogsOf(rcs)[i] \in Int
<1>1. Len(rcs) \in Nat /\ DOMAIN rcs = 1..Len(rcs) /\ \A i \in 1..Len(rcs) : rcs[i] \in Receipt
  BY SMT
<1>2. \A i \in 1..Len(rcs) : LogsOf(rcs)[i] = rcs[i].logs
  BY <1>1 DEF LogsOf
<1>3. \A i \in 1..Len(rcs) : rcs[i].logs \in Nat
  BY <1>1 DEF Receipt
<1>4. QED
  BY <1>1, <1>2, <1>3, SMT

LEMMA NumberedNext ==
    ASSUME StepLaws, NEW rcs \in Seq(Receipt), NEW k \in 1..Len(rcs), NEW s, NEW t, NEW m,
           Numbered(s, rcs, k - 1), EthStep(s, t, m, rcs[k])
    PROVE  Numbered(t, rcs, k)
<1> DEFINE f == LogsOf(rcs)
           n == Len(rcs)
           rc == rcs[k]
<1>1. n \in Nat /\ k \in 1..n /\ (\A i \in 1..n : f[i] \in Int) /\ f[k] = rc.logs /\ rc.logs \in Nat
  BY LogsType
<1>2. /\ SumFunctionOnSet(f, 1..k) = SumFunctionOnSet(f, 1..(k - 1)) + f[k]
      /\ SumFunctionOnSet(f, 1..(k - 1)) \in Int
  <2> HIDE DEF f, n
  <2> QED BY <1>1, SumNext
<1>3. /\ rc.from = m.from /\ rc.nonce = m.nonce /\ rc.txIndex = s.txIndex /\ rc.logIndex = s.logSize
      /\ t.txIndex = s.txIndex + 1 /\ t.logSize = s.logSize + rc.logs
      /\ t.bloom = s.bloom \cup (IF rc.logs = 0 THEN {} ELSE {[from |-> m.from, nonce |-> m.nonce]})
  BY DEF EthStep
<1>4. t.txIndex = k /\ t.logSize = SumFunctionOnSet(f, 1..k)
  BY <1>1, <1>2, <1>3, SMT DEF Numbered
<1>5. ASSUME NEW i \in 1..k
      PROVE  rcs[i].txIndex = i - 1 /\ rcs[i].logIndex = SumFunctionOnSet(f, 1..(i - 1))
  <2>1. CASE i = k
    BY <1>3, <2>1 DEF Numbered
  <2>2. CASE i \in 1..(k - 1)
    BY <2>2 DEF Numbered
  <2> QED BY <2>1, <2>2, SMT
<1>6. t.bloom = {SigOf(rcs[i]) : i \in {j \in 1..k : rcs[j].logs > 0}}
  <2> DEFINE A == {j \in 1..(k - 1) : rcs[j].logs > 0}
             B == {j \in 1..k : rcs[j].logs > 0}
  <2>1. s.bloom = {SigOf(rcs[i]) : i \in A}
    BY DEF Numbered
  <2>2. B = A \cup (IF rc.logs = 0 THEN {} ELSE {k})
    <3>1. \A j \in 1..k : j = k \/ j \in 1..(k - 1)
      BY SMT
    <3>2. \A j \in 1..(k - 1) : j \in 1..k
      BY SMT
    <3> QED BY <1>1, <3>1, <3>2, SMT
  <2> HIDE DEF A, B
  <2>3. SigOf(rcs[k]) = [from |-> m.from, nonce |-> m.nonce]
    BY <1>3 DEF SigOf
  <2>4. t.bloom = {SigOf(rcs[i]) : i \in B}
    BY <1>3, <2>1, <2>2, <2>3
  <2> QED BY <2>4 DEF B
<1>7. QED
  BY <1>4, <1>5, <1>6 DEF Numbered

LEMMA SumsAgree ==
    ASSUME StepLaws, NEW n \in Nat, NEW k \in 0..n, NEW f, NEW g,
           \A i \in 1..n : f[i] \in Int /\ f[i] = g[i]
    PROVE  SumFunctionOnSet(f, 1..k) = SumFunctionOnSet(g, 1..k)
<1>1. IsFiniteSet(1..k)
  BY IntervalFinite, SMT
<1>2. \A i \in 1..k : f[i] \in Int /\ f[i] = g[i]
  BY SMT
<1> DEFINE S == 1..k
<1>3. IsFiniteSet(S) /\ \A i \in S : f[i] \in Int /\ f[i] = g[i]
  BY <1>1, <1>2
<1>4. SumFunctionOnSet(f, S) = SumFunctionOnSet(g, S)
  <2> HIDE DEF S
  <2> QED BY <1>3, EqualSums
<1>5. QED
  BY <1>4

\* More receipts, the same counters.
LEMMA NumberedSame ==
    ASSUME StepLaws, NEW R \in Seq(Receipt), NEW W \in Seq(Receipt), Len(R) <= Len(W),
           \A i \in 1..Len(R) : W[i] = R[i], NEW s, NEW t, Numbered(s, R, Len(R)), SameCounters(s, t)
    PROVE  Numbered(t, W, Len(R))
<1> DEFINE n == Len(R)
           f == LogsOf(R)
           g == LogsOf(W)
<1>1. n \in Nat /\ \A i \in 1..n : f[i] \in Int /\ f[i] = g[i] /\ W[i] = R[i]
  <2>1. Len(W) \in Nat /\ n \in Nat /\ \A i \in 1..n : i \in 1..Len(W)
    BY LogsType, SMT
  <2>2. \A i \in 1..n : f[i] = R[i].logs /\ f[i] \in Int
    BY LogsType
  <2>3. \A i \in 1..n : g[i] = W[i].logs
    BY <2>1, LogsType
  <2> QED BY <2>1, <2>2, <2>3
<1>2. \A k \in 0..n : SumFunctionOnSet(f, 1..k) = SumFunctionOnSet(g, 1..k)
  <2>1. n \in Nat /\ \A i \in 1..n : f[i] \in Int /\ f[i] = g[i]
    BY <1>1
  <2> HIDE DEF n, f, g
  <2> QED BY <2>1, SumsAgree
<1>3. t.txIndex = n /\ t.logSize = SumFunctionOnSet(g, 1..n)
  <2>1. n \in 0..n
    BY <1>1, SMT
  <2> QED BY <1>2, <2>1 DEF Numbered, SameCounters
<1>4. \A i \in 1..n : W[i].txIndex = i - 1 /\ W[i].logIndex = SumFunctionOnSet(g, 1..(i - 1))
  <2>1. \A i \in 1..n : i - 1 \in 0..n
    BY <1>1, SMT
  <2> QED BY <1>1, <1>2, <2>1 DEF Numbered
<1>5. t.bloom = {SigOf(W[i]) : i \in {j \in 1..n : W[j].logs > 0}}
  <2>1. {j \in 1..n : W[j].logs > 0} = {j \in 1..n : R[j].logs > 0}
    BY <1>1
  <2> DEFINE B == {j \in 1..n : R[j].logs > 0}
  <2>2. \A i \in B : W[i] = R[i]
    BY <1>1
  <2>3. t.bloom = {SigOf(R[i]) : i \in B}
    BY DEF Numbered, SameCounters
  <2> HIDE DEF B
  <2>4. {SigOf(R[i]) : i \in B} = {SigOf(W[i]) : i \in B}
    BY <2>2
  <2> QED BY <2>1, <2>3, <2>4 DEF B
<1>6. QED
  BY <1>3, <1>4, <1>5 DEF Numbered

\* One list after another.
LEMMA Joined ==
    ASSUME NEW S, NEW a \in Seq(S), NEW b \in Seq(S)
    PROVE  /\ a \o b \in Seq(S) /\ Len(a \o b) = Len(a) + Len(b)
           /\ \A i \in 1..Len(a) : (a \o b)[i] = a[i]
           /\ \A i \in 1..Len(b) : (a \o b)[Len(a) + i] = b[i]
<1>1. a \o b \in Seq(S)
  BY SMT
<1>2. Len(a \o b) = Len(a) + Len(b)
  BY SMT
<1>3. \A i \in 1..Len(a) : (a \o b)[i] = a[i]
  BY SMT
<1>4. \A i \in 1..Len(b) : (a \o b)[Len(a) + i] = b[i]
  BY SMT
<1> QED BY <1>1, <1>2, <1>3, <1>4

\* Over the messages of a transaction the numbering goes on.
LEMMA NumberedRun ==
    ASSUME StepLaws, NEW R \in Seq(Receipt), NEW rcs, NEW s, NEW st, NEW t, NEW msgs \in Seq(EthMsg),
           Numbered(s, R, Len(R)), SameCounters(s, st), EthRan(st, t, msgs, rcs)
    PROVE  R \o rcs \in Seq(Receipt) /\ Numbered(t, R \o rcs, Len(R \o rcs))
<1> DEFINE n == Len(msgs)
           W == R \o rcs
           k == Len(R)
<1>1. PICK S \in [0..n -> State] :
        /\ S[0] = st /\ S[n] = t /\ rcs \in Seq(Receipt) /\ Len(rcs) = n
        /\ \A i \in 1..n : EthStep(S[i - 1], S[i], msgs[i], rcs[i])
  BY DEF EthRan
<1>2. n \in Nat /\ k \in Nat
  BY SMT
<1>3. /\ W \in Seq(Receipt) /\ Len(W) = k + n
      /\ \A i \in 1..k : W[i] = R[i]
      /\ \A i \in 1..n : W[k + i] = rcs[i]
  <2>1. R \in Seq(Receipt) /\ rcs \in Seq(Receipt) /\ Len(rcs) = n
    BY <1>1
  <2> HIDE DEF n
  <2> QED BY <2>1, Joined, SMT
<1> HIDE DEF n, W, k
<1> DEFINE T == {i \in 0..n : Numbered(S[i], W, k + i)}
<1>4. 0 \in T
  <2>1. Numbered(st, W, k)
    <3>1. Len(R) <= Len(W) /\ \A i \in 1..Len(R) : W[i] = R[i]
      BY <1>2, <1>3, SMT DEF k
    <3>2. Numbered(st, W, Len(R))
      BY <1>3, <3>1, NumberedSame
    <3> QED BY <3>2 DEF k
  <2>2. k + 0 = k /\ 0 \in 0..n
    BY <1>2, SMT
  <2> QED BY <1>1, <2>1, <2>2
<1>5. ASSUME NEW i \in 1..n, i - 1 \in T PROVE i \in T
  <2> DEFINE j == k + i
  <2>1. j \in 1..Len(W) /\ j - 1 = k + (i - 1) /\ i \in 0..n /\ i - 1 \in 0..n
    BY <1>2, <1>3, SMT
  <2>2. Numbered(S[i - 1], W, j - 1) /\ EthStep(S[i - 1], S[i], msgs[i], W[j])
    BY <1>1, <1>3, <1>5, <2>1
  <2> HIDE DEF j
  <2>3. Numbered(S[i], W, j)
    BY <1>3, <2>1, <2>2, NumberedNext
  <2> QED BY <2>1, <2>3 DEF j
<1>6. \A i \in 0..n : i \in T
  <2> HIDE DEF T
  <2> QED BY <1>2, <1>4, <1>5, ByIndex
<1>7. n \in T
  BY <1>2, <1>6, SMT
<1>8. QED
  BY <1>1, <1>3, <1>7 DEF W

\* Where every recipient may receive coins, the messages end with the sequences that the
\* ante handler had left, and with the same coins.
LEMMA SequencesKept ==
    ASSUME StepLaws, NEW tx \in Txs, tx.kind = "eth", NEW s0, NEW st, AnteDone(s0, st, tx),
           NEW t, NEW rcs, EthRan(st, t, tx.msgs, rcs),
           \A i \in DOMAIN tx.msgs : tx.msgs[i].to \notin Blocked
    PROVE  t.seq = st.seq /\ Coins(t) = Coins(st) /\ t.evm = st.evm
<1> DEFINE msgs == tx.msgs
           n == Len(msgs)
<1>1. PICK S \in [0..n -> State] :
        /\ S[0] = st /\ S[n] = t
        /\ \A i \in 1..n : EthStep(S[i - 1], S[i], msgs[i], rcs[i])
  BY DEF EthRan
<1>2. msgs \in Seq(EthMsg) /\ Signatures(tx) = msgs
  BY TransactionTypes
<1>3. n \in Nat /\ n \in 0..n /\ DOMAIN msgs = 1..n /\ \A i \in 1..n : msgs[i] \in EthMsg
  <2> HIDE DEF msgs
  <2> QED BY <1>2, SMT
<1>4. s0.seq \in [Addresses -> Nat] /\ st.seq \in [Addresses -> Nat] /\ t.seq \in [Addresses -> Nat]
  BY <1>1, <1>3 DEF AnteDone, State
<1>5. /\ \A a \in Addresses : st.seq[a] = s0.seq[a] + Count(msgs, n, a)
      /\ \A i \in 1..n : msgs[i].nonce = s0.seq[msgs[i].from] + Count(msgs, i - 1, msgs[i].from)
  BY <1>2, SignaturesAre DEF AnteDone
<1>6. \A i \in 1..n : msgs[i].to \notin Blocked /\ msgs[i].from \in Addresses
  BY <1>3, MessageTypes
<1> HIDE DEF msgs, n
<1> DEFINE Done(i, a) == S[i].seq[a] = IF Count(msgs, i, a) = 0 THEN st.seq[a]
                                       ELSE s0.seq[a] + Count(msgs, i, a)
           P(i) == /\ Coins(S[i]) = Coins(st) /\ S[i].evm = st.evm
                   /\ \A a \in Addresses : Done(i, a)
           T == {i \in 0..n : P(i)}
<1>7. 0 \in T
  BY <1>1, <1>3, SignedNone, SMT
<1>8. ASSUME NEW i \in 1..n, i - 1 \in T PROVE i \in T
  <2> DEFINE s == S[i - 1]
             u == S[i]
             c == msgs[i].from
  <2>1. i \in 0..n /\ i - 1 \in 0..n /\ i \in Nat /\ i # 0 /\ s \in State
    BY <1>1, <1>3, SMT
  <2>2. /\ u.evm = s.evm /\ Coins(u) = Coins(s)
        /\ u.seq = [s.seq EXCEPT ![c] = msgs[i].nonce + 1]
    <3>1. EthStep(s, u, msgs[i], rcs[i]) /\ msgs[i].to \notin Blocked
      BY <1>1, <1>6
    <3> HIDE DEF s, u
    <3> QED BY <3>1 DEF EthStep
  <2>3. ASSUME NEW a \in Addresses PROVE Done(i, a)
    <3> DEFINE k == Count(msgs, i - 1, a)
               l == Count(msgs, i, a)
    <3>1. k \in Nat /\ l \in Nat /\ l = k + (IF c = a THEN 1 ELSE 0)
      BY <2>1, SignedNext
    <3>2. s.seq[a] = IF k = 0 THEN st.seq[a] ELSE s0.seq[a] + k
      BY <1>8
    <3>3. s.seq \in [Addresses -> Nat] /\ s0.seq[a] \in Nat /\ st.seq[a] \in Nat
      BY <1>4, <2>1 DEF State
    <3>4. u.seq[a] = IF a = c THEN msgs[i].nonce + 1 ELSE s.seq[a]
      BY <2>2, <3>3
    <3>5. a = c => msgs[i].nonce = s0.seq[a] + k
      BY <1>5
    <3> HIDE DEF k, l, s, u, c
    <3>6. u.seq[a] = IF l = 0 THEN st.seq[a] ELSE s0.seq[a] + l
      <4>1. CASE a = c
        <5> DEFINE w == s0.seq[a]
        <5>1. u.seq[a] = msgs[i].nonce + 1 /\ msgs[i].nonce = w + k /\ w \in Nat
          BY <3>3, <3>4, <3>5, <4>1
        <5>2. l = k + 1 /\ l # 0
          BY <3>1, <4>1, SMT
        <5> HIDE DEF w
        <5>3. u.seq[a] = w + l
          BY <3>1, <5>1, <5>2, SMT
        <5> QED BY <5>2, <5>3 DEF w
      <4>2. CASE a # c
        BY <3>1, <3>2, <3>4, <4>2, SMT
      <4> QED BY <4>1, <4>2
    <3> QED BY <3>6 DEF u, l
  <2> QED BY <1>8, <2>1, <2>2, <2>3
<1>9. \A i \in 0..n : i \in T
  <2> HIDE DEF T
  <2> QED BY <1>3, <1>7, <1>8, ByIndex
<1>10. P(n)
  BY <1>3, <1>9
<1>11. ASSUME NEW a \in Addresses PROVE t.seq[a] = st.seq[a]
  <2> DEFINE l == Count(msgs, n, a)
  <2>1. t.seq[a] = IF l = 0 THEN st.seq[a] ELSE s0.seq[a] + l
    BY <1>1, <1>10
  <2>2. st.seq[a] = s0.seq[a] + l
    BY <1>5
  <2> HIDE DEF l
  <2> QED BY <2>1, <2>2
<1>12. t.seq = st.seq
  BY <1>4, <1>11, SMT
<1>13. QED
  BY <1>1, <1>10, <1>12

-----------------------------------------------------------------------------
\* The fee of a message, less its refund, is the gas it used at its price, but for the
\* rounding.
LEMMA OneFee ==
    ASSUME StepLaws, NEW W \in Nat \ {0}, NEW g \in Nat, NEW p \in Nat, NEW u \in 0..g,
           NEW F, F = (p * g) \div W, NEW R, R = ((g - u) * p) \div W
    PROVE  /\ F \in Nat /\ R \in Nat /\ R <= F /\ u * p \in Nat
           /\ W * F - W * R <= u * p + (W - 1) /\ u * p - (W - 1) <= W * F - W * R
<1> DEFINE x == p * g
           y == (g - u) * p
           z == u * p
<1>1. x \in Nat /\ y \in Nat /\ z \in Nat /\ x = y + z
  <2>1. u \in Nat /\ g - u \in Nat
    BY SMT
  <2>2. x \in Nat /\ y \in Nat /\ z \in Nat
    BY <2>1, SMT
  <2>3. (g - u) * p = g * p - u * p
    BY <2>1, SMT
  <2>4. g * p = p * g
    BY SMT
  <2> QED BY <2>2, <2>3, <2>4, SMT
<1>2. F = x \div W /\ R = y \div W
  OBVIOUS
<1> HIDE DEF x, y, z
<1>3. F \in Nat /\ W * F <= x /\ x < W * F + W
  BY <1>1, <1>2, Division
<1>4. R \in Nat /\ W * R <= y /\ y < W * R + W
  BY <1>1, <1>2, Division
<1> DEFINE a == W * F
           b == W * R
<1>5. a \in Nat /\ b \in Nat
  BY <1>3, <1>4, SMT
<1>6. W * R <= W * F + W - 1
  <2>1. b <= y /\ y <= x /\ x < a + W
    BY <1>1, <1>3, <1>4, SMT
  <2> HIDE DEF a, b
  <2>2. b <= a + W - 1
    BY <1>1, <1>5, <2>1, SMT
  <2> QED BY <2>2 DEF a, b
<1>7. R <= F
  <2> SUFFICES ASSUME R >= F + 1 PROVE FALSE
    BY <1>3, <1>4, SMT
  <2>1. R - F - 1 \in Nat /\ W * (R - F - 1) = W * R - W * F - W
    BY <1>3, <1>4, SMT
  <2>2. W * (R - F - 1) \in Nat
    BY <2>1, SMT
  <2> HIDE DEF a, b
  <2>3. b - a - W \in Nat
    BY <2>1, <2>2 DEF a, b
  <2> QED BY <1>5, <1>6, <2>3, SMT DEF a, b
<1>8. a - b <= z + (W - 1) /\ z - (W - 1) <= a - b
  <2>1. a <= x /\ x < a + W /\ b <= y /\ y < b + W
    BY <1>3, <1>4
  <2> HIDE DEF a, b
  <2> QED BY <1>1, <1>5, <2>1, SMT
<1>9. QED
  BY <1>1, <1>3, <1>4, <1>7, <1>8 DEF z

\* What an Ethereum transaction leaves in the fee collector of the fee it has paid.
GasWei(msgs, rcs) == [i \in DOMAIN rcs |-> rcs[i].gasUsed * EffectiveGasPriceWei(msgs[i])]

LEMMA FeesKept ==
    ASSUME StepLaws, NEW msgs \in Seq(EthMsg), NEW st, NEW t, NEW rcs, EthRan(st, t, msgs, rcs)
    PROVE  LET n == Len(msgs)
               fee == SumFunction(Fees(msgs))
               gas == SumFunction(GasWei(msgs, rcs))
               kept == fee + t.collector - st.collector
           IN  /\ fee \in Nat /\ gas \in Nat /\ st.collector \in Nat /\ t.collector \in Nat
               /\ t.collector <= st.collector /\ kept \in Nat
               /\ WeiPerUnibi * kept <= gas + (WeiPerUnibi - 1) * n
               /\ gas - (WeiPerUnibi - 1) * n <= WeiPerUnibi * kept
<1> DEFINE n == Len(msgs)
           f == Fees(msgs)
           g == GasWei(msgs, rcs)
           W == WeiPerUnibi
<1>1. PICK S \in [0..n -> State] :
        /\ S[0] = st /\ S[n] = t /\ rcs \in Seq(Receipt) /\ Len(rcs) = n
        /\ \A i \in 1..n : EthStep(S[i - 1], S[i], msgs[i], rcs[i])
  BY DEF EthRan
<1>2. n \in Nat /\ n \in 0..n /\ DOMAIN msgs = 1..n /\ DOMAIN rcs = 1..n /\ W \in Nat \ {0}
      /\ \A i \in 1..n : msgs[i] \in EthMsg
  <2>1. W \in Nat \ {0}
    BY FeeAssumption
  <2>2. n \in Nat /\ n \in 0..n /\ DOMAIN msgs = 1..n /\ \A i \in 1..n : msgs[i] \in EthMsg
    BY SMT
  <2>3. DOMAIN rcs = 1..Len(rcs)
    BY <1>1, SMT
  <2> QED BY <1>1, <2>1, <2>2, <2>3
<1>3. \A i \in 0..n : S[i].collector \in Nat
  BY <1>1 DEF State
<1> HIDE DEF n, W
<1>4. ASSUME NEW i \in 1..n
      PROVE  LET r == S[i - 1].collector - S[i].collector
             IN  /\ f[i] \in Nat /\ g[i] \in Nat /\ r \in Nat /\ r <= f[i]
                 /\ W * f[i] - W * r <= g[i] + (W - 1) /\ g[i] - (W - 1) <= W * f[i] - W * r
  <2> DEFINE m == msgs[i]
             u == rcs[i].gasUsed
             p == EffectiveGasPriceWei(m)
             r == ((m.gas - u) * p) \div W
  <2>1. m \in EthMsg /\ EthStep(S[i - 1], S[i], m, rcs[i])
    BY <1>1, <1>2
  <2>2. p \in Nat /\ m.gas \in Nat
    BY <2>1, MessageTypes
  <2>3. u \in 0..m.gas /\ S[i].collector = S[i - 1].collector - r
    BY <2>1 DEF EthStep, WeiToNative, W
  <2>4. f[i] = (p * m.gas) \div W /\ g[i] = u * p
    BY <1>2 DEF Fees, GasWei, EffectiveFee, WeiToNative, W
  <2> DEFINE k == m.gas
             F == f[i]
  <2>5. /\ F \in Nat /\ r \in Nat /\ r <= F /\ u * p \in Nat
        /\ W * F - W * r <= u * p + (W - 1) /\ u * p - (W - 1) <= W * F - W * r
    <3>1. k \in Nat /\ p \in Nat /\ u \in 0..k /\ F = (p * k) \div W /\ r = ((k - u) * p) \div W
      BY <2>2, <2>3, <2>4
    <3> HIDE DEF k, u, p, F, r, m
    <3> QED BY <1>2, <3>1, OneFee
  <2>6. S[i - 1].collector - S[i].collector = r
    <3>1. S[i - 1].collector \in Nat
      BY <1>2, <1>3, SMT
    <3> HIDE DEF r
    <3> QED BY <2>3, <2>5, <3>1, SMT
  <2> HIDE DEF r, f, g
  <2> QED BY <2>4, <2>5, <2>6
<1>5. \A i \in 1..n : f[i] \in Int /\ g[i] \in Int
  BY <1>4, SMT
<1> HIDE DEF f, g
<1> DEFINE sf(i) == SumFunctionOnSet(f, 1..i)
           sg(i) == SumFunctionOnSet(g, 1..i)
           c(i) == S[i].collector
           K(i) == sf(i) + c(i) - c(0)
           P(i) == /\ sf(i) \in Nat /\ sg(i) \in Nat /\ c(i) <= c(0) /\ K(i) \in Nat
                   /\ W * K(i) <= sg(i) + (W - 1) * i /\ sg(i) - (W - 1) * i <= W * K(i)
           T == {i \in 0..n : P(i)}
<1>6. 0 \in T
  <2>1. sf(0) = 0 /\ sg(0) = 0
    BY SumNone
  <2>2. c(0) \in Nat /\ 0 \in 0..n
    BY <1>2, <1>3, SMT
  <2> HIDE DEF c, sf, sg
  <2>3. K(0) = 0 /\ (W - 1) * 0 = 0 /\ W * 0 = 0
    BY <1>2, <2>1, <2>2, SMT
  <2> QED BY <1>2, <2>1, <2>2, <2>3, SMT
<1>7. ASSUME NEW i \in 1..n, i - 1 \in T PROVE i \in T
  <2> DEFINE r == c(i - 1) - c(i)
             a == f[i]
             b == g[i]
             k == K(i - 1)
             l == K(i)
             x == sg(i - 1)
             w == (W - 1) * (i - 1)
  <2>1. i \in 0..n /\ i - 1 \in 0..n /\ i \in Int
    BY <1>2, SMT
  <2>2. /\ sf(i) = sf(i - 1) + a /\ sg(i) = sg(i - 1) + b
    BY <1>2, <1>5, SumNext
  <2>3. P(i - 1)
    BY <1>7
  <2>4. /\ a \in Nat /\ b \in Nat /\ r \in Nat /\ r <= a
        /\ W * a - W * r <= b + (W - 1) /\ b - (W - 1) <= W * a - W * r
    BY <1>4
  <2>5. c(0) \in Nat /\ c(i) \in Nat /\ c(i - 1) \in Nat
    BY <1>2, <1>3, <2>1, SMT
  <2>6. l = k + (a - r) /\ sf(i) \in Nat /\ sg(i) \in Nat /\ c(i) <= c(0) /\ a - r \in Nat
    <3> DEFINE y == sf(i - 1)
               z == sf(i)
               v == sg(i - 1)
               c0 == c(0)
               c1 == c(i - 1)
               c2 == c(i)
    <3>1. /\ z = y + a /\ y \in Nat /\ sg(i) = v + b /\ v \in Nat /\ c1 <= c0 /\ r = c1 - c2
          /\ k = y + c1 - c0 /\ l = z + c2 - c0
          /\ c0 \in Nat /\ c1 \in Nat /\ c2 \in Nat
      BY <2>2, <2>3, <2>5
    <3> HIDE DEF a, b, k, l, r, y, z, v, c0, c1, c2
    <3>2. l = k + (a - r) /\ z \in Nat /\ v + b \in Nat /\ c2 <= c0 /\ a - r \in Nat
      BY <2>4, <3>1, SMT
    <3> QED BY <3>1, <3>2 DEF z, c0, c2
  <2>7. k \in Nat /\ W * k <= x + w /\ x - w <= W * k /\ sg(i) = x + b /\ x \in Nat
    BY <2>2, <2>3
  <2>8. (W - 1) * i = w + (W - 1) /\ w \in Int
    BY <1>2, <2>1, SMT
  <2> HIDE DEF sf, sg, c, a, b, k, l, x, w, r, K
  <2>9. W * l = W * k + (W * a - W * r) /\ l \in Nat /\ W * k \in Int /\ W * a \in Int /\ W * r \in Int
    BY <1>2, <2>4, <2>6, <2>7, SMT
  <2> DEFINE wk == W * k
             wa == W * a
             wr == W * r
             wl == W * l
             wi == (W - 1) * i
  <2>10. /\ wl = wk + (wa - wr) /\ wk \in Int /\ wa \in Int /\ wr \in Int
         /\ wk <= x + w /\ x - w <= wk /\ wa - wr <= b + (W - 1) /\ b - (W - 1) <= wa - wr
         /\ wi = w + (W - 1)
    BY <2>4, <2>7, <2>8, <2>9
  <2> HIDE DEF wk, wa, wr, wl, wi
  <2>11. wl <= sg(i) + wi /\ sg(i) - wi <= wl
    BY <1>2, <2>4, <2>7, <2>8, <2>10, SMT
  <2>12. W * K(i) <= sg(i) + (W - 1) * i /\ sg(i) - (W - 1) * i <= W * K(i) /\ K(i) \in Nat
    BY <2>9, <2>11 DEF wl, wi, l
  <2> QED BY <2>1, <2>6, <2>12
<1>8. \A i \in 0..n : i \in T
  <2> HIDE DEF T
  <2> QED BY <1>2, <1>6, <1>7, ByIndex
<1>9. P(n)
  <2> HIDE DEF P
  <2> QED BY <1>2, <1>8
<1>10. SumFunction(f) = sf(n) /\ SumFunction(g) = sg(n)
  <2>1. DOMAIN f = 1..n /\ DOMAIN g = 1..n
    BY <1>2 DEF f, g, Fees, GasWei
  <2> QED BY <2>1 DEF SumFunction, SumFunctionOnSet, FoldFunction
<1>11. c(0) = st.collector /\ c(n) = t.collector /\ c(0) \in Nat /\ c(n) \in Nat
  BY <1>1, <1>2, <1>3, SMT
<1> HIDE DEF sf, sg, c
<1>12. QED
  BY <1>9, <1>10, <1>11 DEF f, g, n, W

LEMMA SignaturesNat ==
    ASSUME StepLaws, NEW tx \in Txs, NEW a
    PROVE  SignaturesOf(tx, a) \in Nat
<1> DEFINE n == Len(Signatures(tx))
           S == {j \in 1..n : Signatures(tx)[j].from = a}
<1>1. n \in Nat
  BY TransactionTypes, SMT
<1>2. IsFiniteSet(1..n) /\ S \in SUBSET (1..n)
  BY <1>1, IntervalFinite
<1>3. SignaturesOf(tx, a) = Cardinality(S)
  BY SignaturesAre DEF Count
<1> HIDE DEF S, n
<1>4. QED
  BY <1>2, <1>3, SubsetFinite, NaturalCardinality

Pools == [st : State, pool : Seq(Txs)]

RecheckStep(acc, tx) ==
    LET ante == AnteHandler(acc.st, tx, "recheck")
    IN  IF tx \notin blockTxs /\ ante.ok
        THEN [st |-> ante.st, pool |-> Append(acc.pool, tx)] ELSE acc

LEMMA RecheckStepIs ==
    ASSUME StepLaws, NEW acc \in Pools, NEW tx \in Txs
    PROVE  /\ RecheckStep(acc, tx) \in Pools
           /\ \/ RecheckStep(acc, tx) = acc
              \/ /\ AnteDone(acc.st, RecheckStep(acc, tx).st, tx)
                 /\ RecheckStep(acc, tx).pool = Append(acc.pool, tx)
<1> DEFINE ante == AnteHandler(acc.st, tx, "recheck")
<1>1. acc.st \in State /\ acc.pool \in Seq(Txs)
  BY DEF Pools
<1>2. RecheckStep(acc, tx) = IF tx \notin blockTxs /\ ante.ok
                             THEN [st |-> ante.st, pool |-> Append(acc.pool, tx)] ELSE acc
  BY DEF RecheckStep
<1>3. ante.ok => AnteDone(acc.st, ante.st, tx)
  BY <1>1, AnteIs
<1> HIDE DEF ante
<1>4. CASE ~(tx \notin blockTxs /\ ante.ok)
  BY <1>2, <1>4
<1>5. CASE tx \notin blockTxs /\ ante.ok
  <2>1. RecheckStep(acc, tx) = [st |-> ante.st, pool |-> Append(acc.pool, tx)]
    BY <1>2, <1>5
  <2>2. ante.st \in State /\ Append(acc.pool, tx) \in Seq(Txs)
    BY <1>1, <1>3, <1>5, SMT DEF AnteDone
  <2>3. RecheckStep(acc, tx) \in Pools
    BY <2>1, <2>2, SMT DEF Pools
  <2> QED BY <1>3, <1>5, <2>1, <2>3, SMT
<1>6. QED
  BY <1>4, <1>5

\* The recheck, transaction by transaction.
LEMMA RecheckTrace ==
    ASSUME StepLaws, NEW st \in State, NEW pool \in Seq(Txs)
    PROVE  \E tr \in [0..Len(pool) -> Pools] :
              /\ tr[0] = [st |-> st, pool |-> <<>>] /\ tr[Len(pool)] = Recheck(st, pool)
              /\ \A i \in 1..Len(pool) :
                    tr[i] = RecheckStep(tr[i - 1], pool[i])
<1> DEFINE n == Len(pool)
           Step(x, i) == RecheckStep(x, pool[i])
           F == [i \in 1..n |-> [x \in Pools |-> Step(x, i)]]
           b == [st |-> st, pool |-> <<>>]
           Body(g, s) == IF s = {} THEN b ELSE Step(g[s \ {Max(s)}], Max(s))
           h == CHOOSE g : g = [s \in SUBSET (1..n) |-> Body(g, s)]
<1>1. n \in Nat /\ DOMAIN pool = 1..n /\ \A i \in 1..n : pool[i] \in Txs
  BY SMT
<1>2. Recheck(st, pool) = h[1..n]
  BY <1>1 DEF Recheck, ForEach, MapThenFoldSet, RecheckStep
<1>3. ASSUME NEW x \in Pools, NEW i \in 1..n PROVE Step(x, i) \in Pools
  BY <1>1, RecheckStepIs
<1>4. /\ \A i \in 1..n : \A x \in Pools : F[i][x] = Step(x, i)
      /\ StaysIn(F, Pools, 1..n) /\ b \in Pools
  <2>1. b \in Pools
    BY SMT DEF Pools
  <2> QED BY <1>3, <2>1 DEF StaysIn
<1> HIDE DEF n, F, b, Step
<1>5. PICK g : Solves(F, b, Pools, 1..n, g)
  BY <1>1, <1>4, SolutionOf
<1>6. ASSUME NEW f, NEW s \in SUBSET (1..n), s # {} /\ f[s \ {Max(s)}] \in Pools
      PROVE  Step(f[s \ {Max(s)}], Max(s)) = F[Max(s)][f[s \ {Max(s)}]]
  BY <1>1, <1>4, <1>6, GreatestIndex
<1>7. g = [s \in SUBSET (1..n) |-> Body(g, s)]
  <2>1. ASSUME NEW s \in SUBSET (1..n) PROVE LoopRec(F, b, g, s) = Body(g, s)
    BY <1>5, <1>6 DEF LoopRec, Solves
  <2> HIDE DEF Body
  <2> QED BY <1>5, <2>1 DEF Solves
<1>8. h = [s \in SUBSET (1..n) |-> Body(h, s)]
  <2> HIDE DEF Body
  <2> QED BY <1>7
<1> HIDE DEF h
<1>9. Follows(F, b, Pools, n, h)
  <2>1. \A s \in SUBSET (1..n) : h[s] = Body(h, s)
    <3> HIDE DEF Body
    <3> QED BY <1>8
  <2> QED BY <1>6, <2>1 DEF Follows
<1>10. PICK tr : RunsThrough(F, b, Pools, n, h[1..n], tr)
  BY <1>1, <1>4, <1>9, StatesOf
<1>11. ASSUME NEW i \in 1..n PROVE tr[i] = Step(tr[i - 1], i)
  <2>1. i - 1 \in 0..n
    BY <1>1, SMT
  <2> QED BY <1>4, <1>10, <2>1 DEF RunsThrough
<1>12. QED
  BY <1>2, <1>10, <1>11 DEF n, Step, b, RunsThrough


-----------------------------------------------------------------------------
\* The signatures of a in each transaction of a list.
Earlier(pool, a) == [l \in DOMAIN pool |-> SignaturesOf(pool[l], a)]

\* The transactions of pool can be signed one after the other from the sequences base, and
\* end with those of st.
Continues(base, pool, st) ==
    /\ \A k \in 1..Len(pool) : \A i \in 1..Len(Signatures(pool[k])) :
          LET sig == Signatures(pool[k])[i]
          IN  sig.nonce = base[sig.from] + SumFunctionOnSet(Earlier(pool, sig.from), 1..(k - 1))
                            + Count(Signatures(pool[k]), i - 1, sig.from)
    /\ \A a \in Addresses :
          st.seq[a] = base[a] + SumFunctionOnSet(Earlier(pool, a), 1..Len(pool))

LEMMA EarlierType ==
    ASSUME StepLaws, NEW pool \in Seq(Txs), NEW a
    PROVE  \A l \in 1..Len(pool) : /\ Earlier(pool, a)[l] = SignaturesOf(pool[l], a)
                                   /\ Earlier(pool, a)[l] \in Int
<1>1. DOMAIN pool = 1..Len(pool) /\ \A l \in 1..Len(pool) : pool[l] \in Txs
  BY SMT
<1>2. \A l \in 1..Len(pool) : Earlier(pool, a)[l] = SignaturesOf(pool[l], a)
  BY <1>1 DEF Earlier
<1>3. QED
  BY <1>1, <1>2, SignaturesNat, SMT

LEMMA NoneContinue ==
    ASSUME StepLaws, NEW st \in State PROVE Continues(st.seq, <<>>, st)
<1>1. \A a \in Addresses : st.seq[a] \in Nat
  BY DEF State
<1>2. Len(<<>>) = 0 /\ \A k \in 1..0 : FALSE
  BY SMT
<1>3. \A a \in Addresses : st.seq[a] = st.seq[a] + SumFunctionOnSet(Earlier(<<>>, a), 1..0)
  BY <1>1, SumNone, SMT
<1>4. QED
  BY <1>2, <1>3 DEF Continues

LEMMA ContinuesNext ==
    ASSUME StepLaws, NEW base \in [Addresses -> Nat], NEW pool \in Seq(Txs), NEW tx \in Txs, NEW st, NEW t,
           Continues(base, pool, st), AnteDone(st, t, tx)
    PROVE  Continues(base, Append(pool, tx), t)
<1> DEFINE n == Len(pool)
           W == Append(pool, tx)
<1>1. /\ n \in Nat /\ W \in Seq(Txs) /\ Len(W) = n + 1 /\ W[n + 1] = tx
      /\ \A l \in 1..n : W[l] = pool[l]
  BY SMT
<1> HIDE DEF n, W
<1>2. ASSUME NEW a
      PROVE  /\ \A k \in 0..n : SumFunctionOnSet(Earlier(W, a), 1..k)
                                  = SumFunctionOnSet(Earlier(pool, a), 1..k)
             /\ SumFunctionOnSet(Earlier(W, a), 1..(n + 1))
                  = SumFunctionOnSet(Earlier(pool, a), 1..n) + SignaturesOf(tx, a)
             /\ SumFunctionOnSet(Earlier(pool, a), 1..n) \in Int /\ SignaturesOf(tx, a) \in Int
  <2> DEFINE f == Earlier(W, a)
             g == Earlier(pool, a)
             m == n + 1
  <2>1. \A l \in 1..m : f[l] = SignaturesOf(W[l], a) /\ f[l] \in Int
    BY <1>1, EarlierType
  <2>2. \A l \in 1..n : g[l] = SignaturesOf(pool[l], a)
    BY EarlierType DEF n
  <2>3. \A l \in 1..n : l \in 1..m
    BY <1>1, SMT
  <2>4. \A l \in 1..n : f[l] \in Int /\ f[l] = g[l]
    BY <1>1, <2>1, <2>2, <2>3
  <2>5. m \in Nat /\ m \in 1..m /\ m - 1 = n /\ n \in 0..n
    BY <1>1, SMT
  <2> HIDE DEF f, g, m
  <2>6. \A k \in 0..n : SumFunctionOnSet(f, 1..k) = SumFunctionOnSet(g, 1..k)
    BY <1>1, <2>4, SumsAgree
  <2>7. /\ SumFunctionOnSet(f, 1..m) = SumFunctionOnSet(f, 1..n) + f[m]
        /\ SumFunctionOnSet(f, 1..n) \in Int /\ f[m] \in Int
    <3>1. \A l \in 1..m : f[l] \in Int
      BY <2>1
    <3>2. /\ SumFunctionOnSet(f, 1..m) = SumFunctionOnSet(f, 1..(m - 1)) + f[m]
          /\ SumFunctionOnSet(f, 1..(m - 1)) \in Int /\ f[m] \in Int
      BY <2>5, <3>1, SumNext
    <3> QED BY <2>5, <3>2
  <2>8. f[m] = SignaturesOf(tx, a)
    BY <1>1, <2>1, <2>5 DEF m
  <2>9. SumFunctionOnSet(f, 1..n) = SumFunctionOnSet(g, 1..n)
    BY <2>5, <2>6
  <2> QED BY <2>6, <2>7, <2>8, <2>9 DEF f, g, m
<1>3. ASSUME NEW k \in 1..(n + 1), NEW i \in 1..Len(Signatures(W[k]))
      PROVE  LET sig == Signatures(W[k])[i]
             IN  sig.nonce = base[sig.from] + SumFunctionOnSet(Earlier(W, sig.from), 1..(k - 1))
                               + Count(Signatures(W[k]), i - 1, sig.from)
  <2> DEFINE a == Signatures(W[k])[i].from
  <2>1. CASE k = n + 1
    <3>1. W[k] = tx /\ k - 1 = n /\ n \in 0..n
      BY <1>1, <2>1, SMT
    <3>2. /\ a \in Users /\ Signatures(tx)[i].nonce = st.seq[a] + Count(Signatures(tx), i - 1, a)
      BY <3>1 DEF AnteDone
    <3>3. a \in Addresses
      BY <3>2, AccountAssumption
    <3>4. st.seq[a] = base[a] + SumFunctionOnSet(Earlier(pool, a), 1..n)
      BY <3>3 DEF Continues, n
    <3>5. SumFunctionOnSet(Earlier(W, a), 1..n) = SumFunctionOnSet(Earlier(pool, a), 1..n)
      BY <1>2, <3>1
    <3> QED BY <3>1, <3>2, <3>4, <3>5
  <2>2. CASE k \in 1..n
    <3>1. W[k] = pool[k] /\ k - 1 \in 0..n
      BY <1>1, <2>2, SMT
    <3>2. SumFunctionOnSet(Earlier(W, a), 1..(k - 1)) = SumFunctionOnSet(Earlier(pool, a), 1..(k - 1))
      BY <1>2, <3>1
    <3>3. Signatures(pool[k])[i].nonce
            = base[a] + SumFunctionOnSet(Earlier(pool, a), 1..(k - 1))
                + Count(Signatures(pool[k]), i - 1, a)
      BY <2>2, <3>1 DEF Continues, n
    <3> QED BY <3>1, <3>2, <3>3
  <2> QED BY <1>1, <2>1, <2>2, SMT
<1>4. ASSUME NEW a \in Addresses
      PROVE  t.seq[a] = base[a] + SumFunctionOnSet(Earlier(W, a), 1..(n + 1))
  <2> DEFINE x == SumFunctionOnSet(Earlier(pool, a), 1..n)
             y == SignaturesOf(tx, a)
             z == SumFunctionOnSet(Earlier(W, a), 1..(n + 1))
  <2>1. t.seq[a] = st.seq[a] + y
    BY DEF AnteDone
  <2>2. st.seq[a] = base[a] + x /\ base[a] \in Nat
    BY DEF Continues, n
  <2>3. z = x + y /\ x \in Int /\ y \in Int
    BY <1>2
  <2> HIDE DEF x, y, z
  <2>4. t.seq[a] = base[a] + z
    BY <2>1, <2>2, <2>3, SMT
  <2> QED BY <2>4 DEF z
<1>5. Continues(base, W, t)
  BY <1>1, <1>3, <1>4 DEF Continues
<1>6. QED
  BY <1>5 DEF W

\* What the recheck keeps of the mempool continues the sequences of the new block.
LEMMA RecheckContinues ==
    ASSUME StepLaws, NEW st \in State, NEW pool \in Seq(Txs)
    PROVE  /\ Recheck(st, pool) \in Pools
           /\ Continues(st.seq, Recheck(st, pool).pool, Recheck(st, pool).st)
<1> DEFINE n == Len(pool)
<1>1. PICK tr \in [0..n -> Pools] :
              /\ tr[0] = [st |-> st, pool |-> <<>>] /\ tr[n] = Recheck(st, pool)
              /\ \A i \in 1..n : tr[i] = RecheckStep(tr[i - 1], pool[i])
  BY RecheckTrace
<1>2. n \in Nat /\ n \in 0..n /\ \A i \in 1..n : pool[i] \in Txs
  BY SMT
<1> HIDE DEF n
<1> DEFINE T == {i \in 0..n : Continues(st.seq, tr[i].pool, tr[i].st)}
<1>3. 0 \in T
  <2>1. tr[0].st = st /\ tr[0].pool = <<>> /\ 0 \in 0..n
    BY <1>1, <1>2, SMT
  <2> QED BY <2>1, NoneContinue
<1>4. ASSUME NEW i \in 1..n, i - 1 \in T PROVE i \in T
  <2> DEFINE x == tr[i - 1]
             y == tr[i]
  <2>1. i \in 0..n /\ i - 1 \in 0..n /\ x \in Pools /\ pool[i] \in Txs /\ y = RecheckStep(x, pool[i])
    BY <1>1, <1>2, SMT
  <2>2. Continues(st.seq, x.pool, x.st)
    BY <1>4
  <2>3. y = x \/ (AnteDone(x.st, y.st, pool[i]) /\ y.pool = Append(x.pool, pool[i]))
    <3> HIDE DEF x, y
    <3> QED BY <2>1, RecheckStepIs
  <2>4. x.pool \in Seq(Txs) /\ st.seq \in [Addresses -> Nat]
    BY <2>1 DEF Pools, State
  <2> HIDE DEF x, y
  <2>5. Continues(st.seq, y.pool, y.st)
    <3>1. CASE y = x
      BY <2>2, <3>1
    <3>2. CASE AnteDone(x.st, y.st, pool[i]) /\ y.pool = Append(x.pool, pool[i])
      BY <2>1, <2>2, <2>4, <3>2, ContinuesNext
    <3> QED BY <2>3, <3>1, <3>2
  <2> QED BY <2>1, <2>5 DEF y
<1>5. \A i \in 0..n : i \in T
  <2> HIDE DEF T
  <2> QED BY <1>2, <1>3, <1>4, ByIndex
<1>6. QED
  BY <1>1, <1>2, <1>5

\* What DeliverTx of a transaction that passes the ante handler comes to: st is the state
\* that the ante handler leaves.
Executed(st, tx) ==
    \/ deliver' = st /\ receipts' = receipts
    \/ /\ tx.kind = "eth"
       /\ \E rcs : EthRan(st, deliver', tx.msgs, rcs) /\ receipts' = receipts \o rcs
    \/ tx.kind = "sdk" /\ Handled(st, deliver') /\ receipts' = receipts

Paid(st, tx) ==
    /\ tx.kind = "eth" => st.collector = deliver.collector + SumFunction(Fees(tx.msgs))
    /\ tx.kind = "sdk" /\ AtMostHalf(deliver.devGasParams)
         => st.collector >= deliver.collector

\* The types of the variables.
Typed ==
    /\ deliver \in State /\ check \in State /\ mempool \in Seq(Txs) /\ height \in Nat
    /\ blockGas \in Nat /\ receipts \in Seq(Receipt) /\ distributed \in Nat
    /\ accepted \in [Users -> Nat]

LEMMA EmptyJoined ==
    ASSUME NEW S, NEW s \in Seq(S) PROVE s \o <<>> = s
  BY SMT

LEMMA DeliveredIs ==
    ASSUME StepLaws, Typed, NEW tx \in Txs, TxDelivered(tx)
    PROVE  /\ \E st \in State : AnteDone(deliver, st, tx) /\ Paid(st, tx) /\ Executed(st, tx)
           /\ blockGas' \in Nat
           /\ accepted' = [a \in Users |-> accepted[a] + SignaturesOf(tx, a)]
           /\ blockTxs' = blockTxs \cup {tx}
           /\ UNCHANGED <<check, mempool, height, distributed>>
<1> DEFINE ante == AnteHandler(deliver, tx, "deliver")
           st == ante.st
<1>1. deliver \in State /\ blockGas \in Nat /\ receipts \in Seq(Receipt)
  BY DEF Typed
<1>2. /\ ante.ok
      /\ \E os \in Possible(tx) :
           LET run == RunMsgs(st, tx, os)
               kept == run.ok /\ blockGas + run.gas <= BlockGasLimit
           IN  /\ deliver' = IF kept THEN run.st ELSE st
               /\ receipts' = IF kept THEN receipts \o run.receipts ELSE receipts
               /\ blockGas' = blockGas + run.gas
      /\ accepted' = [a \in Users |-> accepted[a] + SignaturesOf(tx, a)]
      /\ blockTxs' = blockTxs \cup {tx}
      /\ UNCHANGED <<check, mempool, height, distributed>>
  BY DEF TxDelivered
<1>3. AnteDone(deliver, st, tx)
  BY <1>1, <1>2, AnteIs
<1>4. Paid(st, tx)
  <2>1. tx.kind = "eth" => st.collector = deliver.collector + SumFunction(Fees(tx.msgs))
    <3>1. "deliver" # "recheck"
      OBVIOUS
    <3> QED BY <1>1, <1>2, <3>1, EthAnteIs
  <2>2. tx.kind = "sdk" /\ AtMostHalf(deliver.devGasParams)
         => st.collector >= deliver.collector
    BY <1>1, <1>2, SdkAnteIs
  <2> HIDE DEF st
  <2> QED BY <2>1, <2>2 DEF Paid
<1> HIDE DEF ante, st
<1>5. st \in State
  BY <1>3 DEF AnteDone
<1>6. PICK os \in Possible(tx) :
           LET run == RunMsgs(st, tx, os)
               kept == run.ok /\ blockGas + run.gas <= BlockGasLimit
           IN  /\ deliver' = IF kept THEN run.st ELSE st
               /\ receipts' = IF kept THEN receipts \o run.receipts ELSE receipts
               /\ blockGas' = blockGas + run.gas
  BY <1>2
<1> DEFINE run == RunMsgs(st, tx, os)
<1>7. run \in Runs
  BY <1>5, RunIs
<1>8. run.ok /\ tx.kind = "eth" => EthRan(st, run.st, tx.msgs, run.receipts)
  BY <1>5, EthRunIs
<1>9. run.ok /\ tx.kind = "sdk" => Handled(st, run.st) /\ run.receipts = <<>>
  BY <1>5, SdkRunIs
<1> DEFINE kept == run.ok /\ blockGas + run.gas <= BlockGasLimit
<1>10. /\ deliver' = IF kept THEN run.st ELSE st
       /\ receipts' = IF kept THEN receipts \o run.receipts ELSE receipts
       /\ blockGas' = blockGas + run.gas
  BY <1>6
<1> HIDE DEF run
<1>11. blockGas' \in Nat
  BY <1>1, <1>7, <1>10, SMT DEF Runs
<1>12. tx.kind \in {"eth", "sdk"}
  BY TransactionTypes
<1>13. receipts \o <<>> = receipts
  BY <1>1, EmptyJoined
<1>14. Executed(st, tx)
  <2>1. CASE ~kept
    BY <1>10, <2>1 DEF Executed
  <2>2. CASE kept /\ tx.kind = "eth"
    BY <1>8, <1>10, <2>2 DEF Executed
  <2>3. CASE kept /\ tx.kind = "sdk"
    <3>1. Handled(st, deliver') /\ receipts' = receipts
      BY <1>9, <1>10, <1>13, <2>3
    <3> QED BY <2>3, <3>1 DEF Executed
  <2> QED BY <1>12, <2>1, <2>2, <2>3
<1>15. QED
  BY <1>2, <1>3, <1>4, <1>5, <1>11, <1>14

\* The next block begins with the sequences and balances of this one.
LEMMA NextBlockIs ==
    ASSUME StepLaws, Typed, NEW params \in ParamsSet \cup {deliver.devGasParams}, NextBlock(params)
    PROVE  /\ deliver' \in State /\ deliver'.seq = deliver.seq /\ deliver'.bank = deliver.bank
           /\ deliver'.evm = deliver.evm /\ deliver'.collector = 0
           /\ deliver'.txIndex = 0 /\ deliver'.logSize = 0 /\ deliver'.bloom = {}
           /\ check' \in State /\ mempool' \in Seq(Txs)
           /\ Continues(deliver'.seq, mempool', check')
           /\ distributed' = distributed + deliver.collector
           /\ blockGas' = 0 /\ blockTxs' = {} /\ receipts' = <<>> /\ height' = height + 1
           /\ accepted' = accepted
<1> DEFINE g == UpdateParams(deliver, GovModule, params)
           c == [g.st EXCEPT !.txIndex = 0, !.logSize = 0, !.bloom = {}]
           q == Recheck(c, mempool)
<1>1. /\ g.ok /\ deliver' = [c EXCEPT !.collector = 0] /\ check' = q.st /\ mempool' = q.pool
      /\ distributed' = distributed + deliver.collector /\ height' = height + 1
      /\ blockGas' = 0 /\ blockTxs' = {} /\ receipts' = <<>> /\ accepted' = accepted
  BY DEF NextBlock
<1>2. deliver \in State /\ mempool \in Seq(Txs) /\ params \in DevGasParams
  BY TxAssumption DEF Typed, State
<1>3. g.st = [deliver EXCEPT !.devGasParams = params]
  BY <1>1 DEF UpdateParams, Refused, Passed
<1>4. g.st \in State
  BY <1>2, <1>3 DEF State
<1>5. /\ g.st.seq = deliver.seq /\ g.st.bank = deliver.bank /\ g.st.evm = deliver.evm
  BY <1>2, <1>3 DEF State
<1> HIDE DEF g
<1>6. c \in State
  <2>1. 0 \in Nat /\ {} \in SUBSET [from : Users, nonce : Nat]
    OBVIOUS
  <2> QED BY <1>4, <2>1 DEF State
<1>7. /\ c.seq = deliver.seq /\ c.bank = deliver.bank /\ c.evm = deliver.evm
      /\ c.txIndex = 0 /\ c.logSize = 0 /\ c.bloom = {}
  BY <1>4, <1>5 DEF State
<1> HIDE DEF c
<1>8. deliver' \in State
  BY <1>1, <1>6 DEF State
<1>9. /\ deliver'.seq = c.seq /\ deliver'.bank = c.bank /\ deliver'.evm = c.evm
      /\ deliver'.txIndex = c.txIndex /\ deliver'.logSize = c.logSize /\ deliver'.bloom = c.bloom
      /\ deliver'.collector = 0
  BY <1>1, <1>6 DEF State
<1>10. q \in Pools /\ Continues(c.seq, q.pool, q.st)
  BY <1>2, <1>6, RecheckContinues
<1> HIDE DEF q
<1>11. q.st \in State /\ q.pool \in Seq(Txs)
  BY <1>10 DEF Pools
<1>12. QED
  BY <1>1, <1>7, <1>8, <1>9, <1>10, <1>11

\* The mempool continues some sequences; in an empty block, those of the block.
PoolInv ==
    \E base \in [Addresses -> Nat] :
        Continues(base, mempool, check) /\ (blockTxs = {} => base = deliver.seq)

AppInv == Typed /\ Numbered(deliver, receipts, Len(receipts)) /\ PoolInv

LEMMA CheckedIs ==
    ASSUME StepLaws, Typed, NEW tx \in Txs, CheckTx(tx)
    PROVE  /\ AnteDone(check, check', tx) /\ mempool' = Append(mempool, tx)
           /\ UNCHANGED <<deliver, height, blockGas, blockTxs, receipts, distributed, accepted>>
<1> DEFINE r == AnteHandler(check, tx, "check")
<1>1. r.ok /\ check' = r.st /\ check \in State
  BY DEF CheckTx, Typed
<1>2. AnteDone(check, r.st, tx)
  BY <1>1, AnteIs
<1> HIDE DEF r
<1>3. QED
  BY <1>1, <1>2 DEF CheckTx

LEMMA NumberedNone ==
    ASSUME StepLaws, NEW st, st.txIndex = 0, st.logSize = 0, st.bloom = {}
    PROVE  Numbered(st, <<>>, Len(<<>>))
<1>1. Len(<<>>) = 0 /\ (\A i \in 1..0 : FALSE) /\ SumFunctionOnSet(LogsOf(<<>>), 1..0) = 0
  BY SumNone, SMT
<1>2. {SigOf(<<>>[i]) : i \in {j \in 1..0 : <<>>[j].logs > 0}} = {}
  BY <1>1
<1>3. Numbered(st, <<>>, 0)
  BY <1>1, <1>2 DEF Numbered
<1>4. QED
  BY <1>1, <1>3

LEMMA AppInvInit == ASSUME StepLaws PROVE Init => AppInv
<1> SUFFICES ASSUME Init PROVE AppInv
  OBVIOUS
<1>1. /\ deliver = Genesis /\ check = Genesis /\ mempool = <<>> /\ height = 1 /\ blockGas = 0
      /\ receipts = <<>> /\ distributed = 0 /\ accepted = [a \in Users |-> 0]
  BY DEF Init
<1>2. /\ Genesis \in State /\ Genesis.txIndex = 0 /\ Genesis.logSize = 0 /\ Genesis.bloom = {}
  BY GenesisAssumption
<1>3. Typed
  BY <1>1, <1>2, SMT DEF Typed
<1>4. Numbered(deliver, receipts, Len(receipts))
  BY <1>1, <1>2, NumberedNone
<1>5. PoolInv
  <2>1. Continues(Genesis.seq, <<>>, Genesis) /\ Genesis.seq \in [Addresses -> Nat]
    BY <1>2, NoneContinue DEF State
  <2> QED BY <1>1, <2>1 DEF PoolInv
<1>6. QED
  BY <1>3, <1>4, <1>5 DEF AppInv

\* DeliverTx keeps the types and the numbering.
LEMMA DeliveredKeeps ==
    ASSUME StepLaws, AppInv, NEW tx \in Txs, TxDelivered(tx)
    PROVE  AppInv'
<1>1. Typed /\ Numbered(deliver, receipts, Len(receipts)) /\ PoolInv
  BY DEF AppInv
<1>2. /\ \E st \in State : AnteDone(deliver, st, tx) /\ Paid(st, tx) /\ Executed(st, tx)
      /\ blockGas' \in Nat
      /\ accepted' = [a \in Users |-> accepted[a] + SignaturesOf(tx, a)]
      /\ blockTxs' = blockTxs \cup {tx}
      /\ check' = check /\ mempool' = mempool /\ height' = height /\ distributed' = distributed
  BY <1>1, DeliveredIs
<1>3. PICK st \in State : AnteDone(deliver, st, tx) /\ Executed(st, tx)
  BY <1>2
<1>4. SameCounters(deliver, st) /\ receipts \in Seq(Receipt)
  BY <1>1, <1>3 DEF AnteDone, Typed
<1>5. Numbered(st, receipts, Len(receipts))
  <2>1. Len(receipts) <= Len(receipts) /\ \A i \in 1..Len(receipts) : receipts[i] = receipts[i]
    BY <1>4, SMT
  <2> QED BY <1>1, <1>4, <2>1, NumberedSame
<1>6. deliver' \in State /\ receipts' \in Seq(Receipt) /\ Numbered(deliver', receipts', Len(receipts'))
  <2>1. CASE deliver' = st /\ receipts' = receipts
    BY <1>4, <1>5, <2>1
  <2>2. CASE tx.kind = "eth" /\ \E rcs : EthRan(st, deliver', tx.msgs, rcs) /\ receipts' = receipts \o rcs
    <3>1. PICK rcs : EthRan(st, deliver', tx.msgs, rcs) /\ receipts' = receipts \o rcs
      BY <2>2
    <3>2. tx.msgs \in Seq(EthMsg)
      BY <2>2, TransactionTypes
    <3> DEFINE R == receipts
               t == deliver'
    <3>3. R \in Seq(Receipt) /\ Numbered(deliver, R, Len(R)) /\ EthRan(st, t, tx.msgs, rcs)
      BY <1>1, <1>4, <3>1
    <3>4. R \o rcs \in Seq(Receipt) /\ Numbered(t, R \o rcs, Len(R \o rcs))
      <4> HIDE DEF R, t
      <4> QED BY <1>4, <3>2, <3>3, NumberedRun
    <3>5. deliver' \in State
      <4>1. PICK S \in [0..Len(tx.msgs) -> State] : S[Len(tx.msgs)] = deliver'
        BY <3>1 DEF EthRan
      <4>2. Len(tx.msgs) \in 0..Len(tx.msgs)
        BY <3>2, SMT
      <4> QED BY <4>1, <4>2
    <3> QED BY <3>1, <3>4, <3>5
  <2>3. CASE tx.kind = "sdk" /\ Handled(st, deliver') /\ receipts' = receipts
    <3>1. deliver' \in State /\ SameCounters(st, deliver')
      BY <2>3 DEF Handled
    <3>2. Numbered(deliver', receipts, Len(receipts))
      <4>1. Len(receipts) <= Len(receipts) /\ \A i \in 1..Len(receipts) : receipts[i] = receipts[i]
        BY <1>4, SMT
      <4> QED BY <1>4, <1>5, <3>1, <4>1, NumberedSame
    <3> QED BY <1>4, <2>3, <3>1, <3>2
  <2> QED BY <1>3, <2>1, <2>2, <2>3 DEF Executed
<1>7. accepted' \in [Users -> Nat]
  <2>1. \A a \in Users : accepted[a] \in Nat /\ SignaturesOf(tx, a) \in Nat
    BY <1>1, SignaturesNat DEF Typed
  <2>2. \A a \in Users : accepted[a] + SignaturesOf(tx, a) \in Nat
    BY <2>1, SMT
  <2> QED BY <1>2, <2>2
<1>8. Typed'
  BY <1>1, <1>2, <1>6, <1>7 DEF Typed
<1>9. PoolInv'
  <2>1. blockTxs' # {}
    BY <1>2
  <2> QED BY <1>1, <1>2, <2>1 DEF PoolInv
<1>10. QED
  BY <1>6, <1>8, <1>9 DEF AppInv

LEMMA AppInvNext == ASSUME StepLaws PROVE AppInv /\ [Next]_vars => AppInv'
<1> SUFFICES ASSUME AppInv, [Next]_vars PROVE AppInv'
  OBVIOUS
<1>1. Typed /\ Numbered(deliver, receipts, Len(receipts)) /\ PoolInv
  BY DEF AppInv
<1>2. ASSUME NEW tx \in Submitted, CheckTx(tx) PROVE AppInv'
  <2>1. tx \in Txs
    BY TxAssumption DEF Txs
  <2>2. /\ AnteDone(check, check', tx) /\ mempool' = Append(mempool, tx)
        /\ UNCHANGED <<deliver, height, blockGas, blockTxs, receipts, distributed, accepted>>
    BY <1>1, <1>2, <2>1, CheckedIs
  <2>3. check' \in State /\ mempool \in Seq(Txs) /\ mempool' \in Seq(Txs)
    BY <1>1, <2>1, <2>2, SMT DEF Typed, AnteDone
  <2>4. Typed'
    BY <1>1, <2>2, <2>3 DEF Typed
  <2>5. PICK base \in [Addresses -> Nat] :
             Continues(base, mempool, check) /\ (blockTxs = {} => base = deliver.seq)
    BY <1>1 DEF PoolInv
  <2>6. Continues(base, mempool', check')
    <3> DEFINE t == check'
    <3>1. AnteDone(check, t, tx)
      BY <2>2
    <3> HIDE DEF t
    <3>2. Continues(base, Append(mempool, tx), t)
      BY <2>1, <2>3, <2>5, <3>1, ContinuesNext
    <3> QED BY <2>2, <3>2 DEF t
  <2>7. PoolInv'
    BY <2>2, <2>5, <2>6 DEF PoolInv
  <2> QED BY <1>1, <2>2, <2>4, <2>7 DEF AppInv
<1>3. ASSUME NEW tx \in Submitted, TxRefused(tx) PROVE AppInv'
  <2>1. /\ blockTxs' = blockTxs \cup {tx}
        /\ UNCHANGED <<deliver, check, mempool, height, blockGas, receipts, distributed, accepted>>
    BY <1>3 DEF TxRefused
  <2>2. Typed' /\ PoolInv'
    BY <1>1, <2>1 DEF Typed, PoolInv
  <2> QED BY <1>1, <2>1, <2>2 DEF AppInv
<1>4. ASSUME NEW tx \in EthTxs \cup SdkTxs, TxDelivered(tx) PROVE AppInv'
  BY <1>4, DeliveredKeeps DEF Txs
<1>5. ASSUME NEW params \in ParamsSet \cup {deliver.devGasParams}, NextBlock(params) PROVE AppInv'
  <2>1. /\ deliver' \in State /\ deliver'.collector = 0
        /\ deliver'.txIndex = 0 /\ deliver'.logSize = 0 /\ deliver'.bloom = {}
        /\ check' \in State /\ mempool' \in Seq(Txs)
        /\ Continues(deliver'.seq, mempool', check')
        /\ distributed' = distributed + deliver.collector
        /\ blockGas' = 0 /\ blockTxs' = {} /\ receipts' = <<>> /\ height' = height + 1
        /\ accepted' = accepted
    BY <1>1, <1>5, NextBlockIs
  <2>2. distributed' \in Nat /\ height' \in Nat /\ <<>> \in Seq(Receipt)
    <3>1. deliver \in State /\ distributed \in Nat /\ height \in Nat
      BY <1>1 DEF Typed
    <3>2. deliver.collector \in Nat
      BY <3>1 DEF State
    <3> QED BY <2>1, <3>1, <3>2, SMT
  <2>3. Typed'
    BY <1>1, <2>1, <2>2 DEF Typed
  <2>4. Numbered(deliver', receipts', Len(receipts'))
    <3> DEFINE t == deliver'
    <3>1. t.txIndex = 0 /\ t.logSize = 0 /\ t.bloom = {}
      BY <2>1
    <3> HIDE DEF t
    <3>2. Numbered(t, <<>>, Len(<<>>))
      BY <3>1, NumberedNone
    <3> QED BY <2>1, <3>2 DEF t
  <2>5. PoolInv'
    <3>1. deliver'.seq \in [Addresses -> Nat]
      BY <2>1 DEF State
    <3> QED BY <2>1, <3>1 DEF PoolInv
  <2> QED BY <2>3, <2>4, <2>5 DEF AppInv
<1>6. CASE UNCHANGED vars
  BY <1>1, <1>6 DEF vars, AppInv, Typed, PoolInv
<1>7. QED
  BY <1>2, <1>3, <1>4, <1>5, <1>6 DEF Next

LEMMA ReceiptsFollow == ASSUME AppInv PROVE ReceiptsAreConsecutive
<1>1. Numbered(deliver, receipts, Len(receipts)) /\ DOMAIN receipts = 1..Len(receipts)
  BY SMT DEF AppInv, Typed
<1>2. QED
  BY <1>1 DEF ReceiptsAreConsecutive, Numbered, LogsOf, SigOf

LEMMA MempoolFollows == ASSUME StepLaws, AppInv PROVE MempoolContinuesSequences
<1> SUFFICES ASSUME blockTxs = {} PROVE MempoolContinuesSequences
  BY DEF MempoolContinuesSequences
<1>1. mempool \in Seq(Txs) /\ Continues(deliver.seq, mempool, check)
  BY DEF AppInv, Typed, PoolInv
<1>2. DOMAIN mempool = 1..Len(mempool) /\ \A k \in DOMAIN mempool : mempool[k] \in Txs
  BY <1>1, SMT
<1>3. \A k \in DOMAIN mempool :
        DOMAIN Signatures(mempool[k]) = 1..Len(Signatures(mempool[k]))
  <2> SUFFICES ASSUME NEW k \in DOMAIN mempool
               PROVE  DOMAIN Signatures(mempool[k]) = 1..Len(Signatures(mempool[k]))
    OBVIOUS
  <2>1. mempool[k] \in Txs
    BY <1>2
  <2> QED BY <2>1, TransactionTypes, SMT
<1> SUFFICES ASSUME NEW k \in DOMAIN mempool, NEW i \in DOMAIN Signatures(mempool[k])
             PROVE  LET sigs == Signatures(mempool[k])
                        a == sigs[i].from
                        earlier == [l \in DOMAIN mempool |-> SignaturesOf(mempool[l], a)]
                    IN  sigs[i].nonce = deliver.seq[a] + SumFunctionOnSet(earlier, 1..(k - 1))
                           + Cardinality({j \in 1..(i - 1) : sigs[j].from = a})
  BY DEF MempoolContinuesSequences
<1>4. k \in 1..Len(mempool) /\ i \in 1..Len(Signatures(mempool[k]))
  BY <1>2, <1>3
<1> QED BY <1>1, <1>4 DEF Continues, Earlier, Count

-----------------------------------------------------------------------------
\* Every recipient of an Ethereum message may receive coins.  Where one may not, Commit
\* fails after it has written the sender (the run app_commit).
RecipientsOpen == \A tx \in EthTxs : \A i \in DOMAIN tx.msgs : tx.msgs[i].to \notin Blocked

LedgerInv == AppInv /\ SequencesCountSignatures /\ CoinsConserved

\* The coins of a state are a number.
LEMMA CoinsType ==
    ASSUME StepLaws, NEW st \in State
    PROVE  Coins(st) \in Nat /\ SumFunction(st.bank) \in Nat /\ st.collector \in Nat
<1>1. st.bank \in [Addresses -> Nat] /\ st.collector \in Nat /\ IsFiniteSet(Addresses)
  BY AccountAssumption DEF State
<1>2. SumFunction(st.bank) = SumFunctionOnSet(st.bank, Addresses)
  BY <1>1 DEF SumFunction, SumFunctionOnSet, FoldFunction
<1>3. \A a \in Addresses : st.bank[a] \in Nat
  BY <1>1
<1>4. SumFunctionOnSet(st.bank, Addresses) \in Nat
  BY <1>1, <1>3, NaturalSum
<1>5. QED
  BY <1>1, <1>2, <1>4, SMT DEF Coins

LEMMA LedgerInit == ASSUME StepLaws PROVE Init => SequencesCountSignatures /\ CoinsConserved
<1> SUFFICES ASSUME Init PROVE SequencesCountSignatures /\ CoinsConserved
  OBVIOUS
<1>1. /\ deliver = Genesis /\ distributed = 0 /\ accepted = [a \in Users |-> 0]
      /\ Genesis \in State /\ Genesis.evm = 0 /\ \A a \in Users : Genesis.seq[a] = 0
  BY GenesisAssumption DEF Init
<1>2. SumFunction(Genesis.bank) \in Nat /\ Genesis.collector \in Nat
  BY <1>1, CoinsType
<1> DEFINE x == Genesis.collector + SumFunction(Genesis.bank)
<1>3. x + 0 = x
  BY <1>2, SMT
<1>4. QED
  BY <1>1, <1>3 DEF SequencesCountSignatures, CoinsConserved

LEMMA LedgerNext ==
    ASSUME StepLaws, RecipientsOpen, LedgerInv, [Next]_vars
    PROVE  (SequencesCountSignatures /\ CoinsConserved)'
<1>1. /\ Typed /\ deliver \in State /\ accepted \in [Users -> Nat] /\ distributed \in Nat
      /\ \A a \in Users : deliver.seq[a] = accepted[a]
      /\ deliver.evm = 0 /\ Coins(deliver) + distributed = Coins(Genesis)
  BY DEF LedgerInv, AppInv, Typed, SequencesCountSignatures, CoinsConserved, Coins
<1>2. SUFFICES /\ \A a \in Users : deliver'.seq[a] = accepted'[a]
               /\ deliver'.evm = 0 /\ Coins(deliver') + distributed' = Coins(Genesis)
  BY DEF SequencesCountSignatures, CoinsConserved, Coins
<1>3. ASSUME NEW tx \in Txs, TxDelivered(tx)
      PROVE  /\ \A a \in Users : deliver'.seq[a] = accepted'[a]
             /\ deliver'.evm = 0 /\ Coins(deliver') + distributed' = Coins(Genesis)
  <2>1. /\ \E st \in State : AnteDone(deliver, st, tx) /\ Paid(st, tx) /\ Executed(st, tx)
        /\ accepted' = [a \in Users |-> accepted[a] + SignaturesOf(tx, a)]
        /\ distributed' = distributed
    BY <1>1, <1>3, DeliveredIs
  <2>2. PICK st \in State : AnteDone(deliver, st, tx) /\ Executed(st, tx)
    BY <2>1
  <2>3. deliver'.seq = st.seq /\ Coins(deliver') = Coins(st) /\ deliver'.evm = st.evm
    <3>1. CASE deliver' = st
      BY <3>1
    <3>2. CASE tx.kind = "eth" /\ \E rcs : EthRan(st, deliver', tx.msgs, rcs)
      <4>1. PICK rcs : EthRan(st, deliver', tx.msgs, rcs)
        BY <3>2
      <4>2. \A i \in DOMAIN tx.msgs : tx.msgs[i].to \notin Blocked
        <5>1. tx \in EthTxs
          <6>1. tx \in SdkTxs => tx.kind = "sdk"
            BY TxAssumption
          <6> QED BY <3>2, <6>1 DEF Txs
        <5> QED BY <5>1 DEF RecipientsOpen
      <4> DEFINE t == deliver'
      <4>3. EthRan(st, t, tx.msgs, rcs)
        BY <4>1
      <4> HIDE DEF t
      <4>4. t.seq = st.seq /\ Coins(t) = Coins(st) /\ t.evm = st.evm
        BY <2>2, <3>2, <4>2, <4>3, SequencesKept
      <4> QED BY <4>4 DEF t
    <3>3. CASE Handled(st, deliver')
      BY <3>3 DEF Handled, Coins
    <3> QED BY <2>2, <3>1, <3>2, <3>3 DEF Executed
  <2>4. /\ st.evm = deliver.evm /\ Coins(st) = Coins(deliver)
        /\ \A a \in Addresses : st.seq[a] = deliver.seq[a] + SignaturesOf(tx, a)
    BY <2>2 DEF AnteDone
  <2>5. Users \subseteq Addresses
    BY AccountAssumption
  <2>6. \A a \in Users : deliver'.seq[a] = accepted'[a]
    BY <1>1, <2>1, <2>3, <2>4, <2>5
  <2> QED BY <1>1, <2>1, <2>3, <2>4, <2>6
<1>4. ASSUME NEW params \in ParamsSet \cup {deliver.devGasParams}, NextBlock(params)
      PROVE  /\ \A a \in Users : deliver'.seq[a] = accepted'[a]
             /\ deliver'.evm = 0 /\ Coins(deliver') + distributed' = Coins(Genesis)
  <2>1. /\ deliver'.seq = deliver.seq /\ deliver'.bank = deliver.bank
        /\ deliver'.evm = deliver.evm /\ deliver'.collector = 0
        /\ distributed' = distributed + deliver.collector /\ accepted' = accepted
    BY <1>1, <1>4, NextBlockIs
  <2> DEFINE b == SumFunction(deliver.bank)
             c == deliver.collector
  <2>2. b \in Nat /\ c \in Nat /\ Coins(deliver) = c + b
    BY <1>1, CoinsType DEF Coins
  <2>3. Coins(deliver') = 0 + b
    BY <2>1 DEF Coins
  <2> HIDE DEF b, c
  <2>4. (0 + b) + (distributed + c) = (c + b) + distributed
    BY <1>1, <2>2, SMT
  <2>5. Coins(deliver') + distributed' = Coins(Genesis)
    BY <1>1, <2>1, <2>2, <2>3, <2>4 DEF c
  <2> QED BY <1>1, <2>1, <2>5
<1>5. CASE UNCHANGED <<deliver, distributed, accepted>>
  BY <1>1, <1>5
<1>6. QED
  <2>1. ASSUME NEW tx \in Submitted, CheckTx(tx) \/ TxRefused(tx)
        PROVE  UNCHANGED <<deliver, distributed, accepted>>
    BY <2>1 DEF CheckTx, TxRefused
  <2>2. UNCHANGED vars => UNCHANGED <<deliver, distributed, accepted>>
    BY DEF vars
  <2> QED BY <1>3, <1>4, <1>5, <2>1, <2>2 DEF Next, Txs

\* The two accounts of the ledger, for any accounts, transactions, outcomes of the EVM and
\* lengths of the chain, where every recipient may receive coins.
\* What a list has gained.
LEMMA NoneGained ==
    ASSUME NEW S, NEW a \in Seq(S)
    PROVE  SubSeq(a, Len(a) + 1, Len(a)) = <<>>
  BY SMT

LEMMA Gained ==
    ASSUME NEW S, NEW a \in Seq(S), NEW b \in Seq(S)
    PROVE  SubSeq(a \o b, Len(a) + 1, Len(a \o b)) = b
<1> DEFINE W == a \o b
           m == Len(a)
           n == Len(b)
           q == SubSeq(W, m + 1, m + n)
<1>1. /\ W \in Seq(S) /\ Len(W) = m + n /\ m \in Nat /\ n \in Nat
      /\ \A i \in 1..n : W[m + i] = b[i]
  BY Joined, SMT
<1> HIDE DEF W
<1>2. q \in Seq(S) /\ Len(q) = n /\ \A i \in 1..n : q[i] = W[m + i]
  <2> HIDE DEF m, n
  <2>1. \A i \in (m + 1)..(m + n) : i \in 1..Len(W)
    BY <1>1, SMT
  <2>2. q \in Seq(S)
    BY <1>1, <2>1, SMT
  <2>3. Len(q) = n
    BY <1>1, <2>1, SMT
  <2>4. \A i \in 1..n : q[i] = W[m + i]
    BY <1>1, <2>1, SMT
  <2> QED BY <2>2, <2>3, <2>4
<1> HIDE DEF q, m
<1>3. q = b
  BY <1>1, <1>2, SMT
<1>4. QED
  BY <1>1, <1>3 DEF q, W, m, n

-----------------------------------------------------------------------------
\* What FeeMatchesGas says of a transaction tx whose receipts are new.
FeeMatches(tx, new, kept) ==
    LET fee == SumFunction(Fees(tx.msgs))
        gasWei == SumFunction(GasWei(tx.msgs, new))
    IN  IF new = <<>> THEN kept = fee
        ELSE /\ kept <= fee
             /\ NativeToWei(kept) > gasWei - NativeToWei(Len(new))
             /\ NativeToWei(kept) < gasWei + NativeToWei(Len(new))

LEMMA RunMatches ==
    ASSUME StepLaws, NEW tx \in Txs, tx.kind = "eth", NEW st, NEW t, NEW rcs, EthRan(st, t, tx.msgs, rcs),
           NEW c \in Nat, st.collector = c + SumFunction(Fees(tx.msgs))
    PROVE  /\ rcs \in Seq(Receipt) /\ FeeMatches(tx, rcs, t.collector - c)
           /\ t.collector \in Nat /\ t.collector >= c
<1> DEFINE msgs == tx.msgs
           n == Len(msgs)
           fee == SumFunction(Fees(msgs))
           gas == SumFunction(GasWei(msgs, rcs))
           W == WeiPerUnibi
           kept == t.collector - c
<1>1. msgs \in Seq(EthMsg) /\ n \in Nat /\ W \in Nat \ {0}
  BY TransactionTypes, FeeAssumption, SMT
<1>2. /\ fee \in Nat /\ gas \in Nat /\ st.collector \in Nat /\ t.collector \in Nat
      /\ t.collector <= st.collector /\ fee + t.collector - st.collector \in Nat
      /\ W * (fee + t.collector - st.collector) <= gas + (W - 1) * n
      /\ gas - (W - 1) * n <= W * (fee + t.collector - st.collector)
  <2> HIDE DEF msgs
  <2> QED BY <1>1, FeesKept DEF msgs
<1>3. rcs \in Seq(Receipt) /\ Len(rcs) = n
  BY DEF EthRan
<1> HIDE DEF fee, gas, n, W
<1>4. kept = fee + t.collector - st.collector
  BY <1>2, SMT DEF fee
<1>5. kept \in Nat /\ W * kept <= gas + (W - 1) * n /\ gas - (W - 1) * n <= W * kept
  BY <1>2, <1>4
<1>6. t.collector >= c /\ kept <= fee
  BY <1>2, <1>4, <1>5, SMT
<1> DEFINE w == W * kept
           v == (W - 1) * n
<1>7. CASE n # 0
  <2>1. v = W * n - n /\ W * n \in Int
    BY <1>1, SMT
  <2>2. w \in Int /\ w <= gas + v /\ gas - v <= w
    BY <1>1, <1>5, SMT
  <2> DEFINE x == W * n
  <2> HIDE DEF w, v, x, kept
  <2>3. v < x /\ x \in Int /\ v \in Int
    BY <1>1, <1>7, <2>1, SMT DEF x
  <2>4. w > gas - x /\ w < gas + x
    BY <1>2, <2>2, <2>3, SMT
  <2>5. NativeToWei(kept) = w /\ NativeToWei(Len(rcs)) = x
    <3>1. kept * W = W * kept /\ n * W = W * n
      BY <1>1, <1>5, SMT
    <3> QED BY <1>3, <3>1 DEF NativeToWei, w, x, W
  <2>6. rcs # <<>>
    BY <1>1, <1>3, <1>7, SMT
  <2>7. FeeMatches(tx, rcs, kept)
    BY <1>6, <2>4, <2>5, <2>6 DEF FeeMatches, fee, gas
  <2> QED BY <1>2, <1>3, <1>6, <2>7 DEF kept
<1>8. CASE n = 0
  <2>1. t = st
    BY <1>8 DEF EthRan, n
  <2>2. kept = fee
    BY <1>2, <1>4, <2>1, SMT
  <2>3. rcs = <<>>
    BY <1>3, <1>8, SMT
  <2> HIDE DEF kept
  <2>4. FeeMatches(tx, rcs, kept)
    BY <2>2, <2>3 DEF FeeMatches, fee
  <2> QED BY <1>2, <1>3, <1>6, <2>4 DEF kept
<1>9. QED
  BY <1>7, <1>8

LEMMA FeesNat ==
    ASSUME StepLaws, NEW msgs \in Seq(EthMsg) PROVE SumFunction(Fees(msgs)) \in Nat
<1> DEFINE n == Len(msgs)
           f == Fees(msgs)
           S == 1..n
<1>1. n \in Nat /\ DOMAIN msgs = S /\ \A i \in S : msgs[i] \in EthMsg
  BY SMT
<1>2. DOMAIN f = S /\ \A i \in S : f[i] \in Nat
  BY <1>1, MessageTypes DEF Fees
<1>3. IsFiniteSet(S)
  BY <1>1, IntervalFinite
<1> HIDE DEF f, S
<1>4. SumFunctionOnSet(f, S) \in Nat
  BY <1>2, <1>3, NaturalSum
<1>5. SumFunction(f) = SumFunctionOnSet(f, S)
  BY <1>2 DEF SumFunction, SumFunctionOnSet, FoldFunction
<1>6. QED
  BY <1>4, <1>5 DEF f

\* What a transaction that is executed does to the fee collector.
LEMMA CollectorStep ==
    ASSUME StepLaws, Typed, NEW tx \in Txs, TxDelivered(tx)
    PROVE  /\ tx.kind = "eth" =>
                /\ FeeMatches(tx, SubSeq(receipts', Len(receipts) + 1, Len(receipts')),
                              deliver'.collector - deliver.collector)
                /\ deliver'.collector >= deliver.collector
           /\ tx.kind = "sdk" /\ AtMostHalf(deliver.devGasParams)
                => deliver'.collector >= deliver.collector
<1> DEFINE new == SubSeq(receipts', Len(receipts) + 1, Len(receipts'))
<1>1. deliver \in State /\ receipts \in Seq(Receipt)
  BY DEF Typed
<1>2. deliver.collector \in Nat
  BY <1>1 DEF State
<1>3. PICK st \in State : AnteDone(deliver, st, tx) /\ Paid(st, tx) /\ Executed(st, tx)
  BY DeliveredIs
<1>4. CASE tx.kind = "eth"
  <2> DEFINE fee == SumFunction(Fees(tx.msgs))
             c == deliver.collector
  <2>1. st.collector = c + fee
    BY <1>3, <1>4 DEF Paid
  <2>2. CASE deliver' = st /\ receipts' = receipts
    <3>1. new = <<>>
      BY <1>1, <2>2, NoneGained
    <3>2. fee \in Nat
      <4>1. tx.msgs \in Seq(EthMsg)
        BY <1>4, TransactionTypes
      <4> QED BY <4>1, FeesNat
    <3>3. deliver'.collector - c = fee /\ deliver'.collector >= c
      <4> HIDE DEF fee, c
      <4>1. deliver'.collector = c + fee /\ c \in Nat
        BY <1>2, <2>1, <2>2 DEF c
      <4> QED BY <3>2, <4>1, SMT
    <3>4. FeeMatches(tx, new, deliver'.collector - c)
      <4> HIDE DEF new
      <4> QED BY <3>1, <3>3 DEF FeeMatches
    <3> QED BY <1>4, <3>3, <3>4
  <2>3. CASE \E rcs : EthRan(st, deliver', tx.msgs, rcs) /\ receipts' = receipts \o rcs
    <3>1. PICK rcs : EthRan(st, deliver', tx.msgs, rcs) /\ receipts' = receipts \o rcs
      BY <2>3
    <3> DEFINE t == deliver'
    <3>2. EthRan(st, t, tx.msgs, rcs)
      BY <3>1
    <3> HIDE DEF t
    <3>3. rcs \in Seq(Receipt) /\ FeeMatches(tx, rcs, t.collector - c) /\ t.collector >= c
      BY <1>2, <1>4, <2>1, <3>2, RunMatches
    <3>4. new = rcs
      BY <1>1, <3>1, <3>3, Gained
    <3>5. FeeMatches(tx, new, deliver'.collector - c) /\ deliver'.collector >= c
      <4> HIDE DEF new
      <4> QED BY <3>3, <3>4 DEF t
    <3> QED BY <1>4, <3>5
  <2> QED BY <1>3, <1>4, <2>2, <2>3 DEF Executed
<1>5. CASE tx.kind = "sdk"
  <2>1. deliver'.collector = st.collector
    BY <1>3, <1>5 DEF Executed, Handled
  <2> QED BY <1>3, <1>5, <2>1 DEF Paid
<1>6. tx.kind \in {"eth", "sdk"}
  BY TransactionTypes
<1>7. QED
  BY <1>4, <1>5, <1>6

\* What FeeMatchesGas and CollectorNeverShrinks say of a step.
FeeStep ==
    \A tx \in blockTxs' \ blockTxs : tx.kind = "eth" /\ accepted' # accepted =>
       LET fee == SumFunction([i \in DOMAIN tx.msgs |-> EffectiveFee(tx.msgs[i])])
           new == SubSeq(receipts', Len(receipts) + 1, Len(receipts'))
           gasWei == SumFunction([i \in DOMAIN new |->
                                 new[i].gasUsed * EffectiveGasPriceWei(tx.msgs[i])])
           kept == deliver'.collector - deliver.collector
       IN  IF new = <<>> THEN kept = fee
           ELSE /\ kept <= fee
                /\ NativeToWei(kept) > gasWei - NativeToWei(Len(new))
                /\ NativeToWei(kept) < gasWei + NativeToWei(Len(new))

LEMMA FeeStepHolds == ASSUME StepLaws, AppInv, Next PROVE FeeStep
<1> SUFFICES ASSUME NEW tx \in blockTxs' \ blockTxs,
                    tx.kind = "eth", accepted' # accepted
             PROVE  FeeMatches(tx, SubSeq(receipts', Len(receipts) + 1, Len(receipts')),
                               deliver'.collector - deliver.collector)
  BY DEF FeeStep, FeeMatches, Fees, GasWei
<1>1. ASSUME NEW x \in Submitted, CheckTx(x) \/ TxRefused(x) PROVE accepted' = accepted
  BY <1>1 DEF CheckTx, TxRefused
<1>2. ASSUME NEW params \in ParamsSet \cup {deliver.devGasParams}, NextBlock(params)
      PROVE  accepted' = accepted
  BY <1>2 DEF NextBlock
<1>3. PICK x \in Txs : TxDelivered(x)
  BY <1>1, <1>2 DEF Next, Txs
<1>4. blockTxs' = blockTxs \cup {x}
  BY <1>3 DEF TxDelivered
<1>5. x = tx
  BY <1>4
<1> QED BY <1>3, <1>5, CollectorStep DEF AppInv

CollectorKept ==
    height' = height /\ AtMostHalf(deliver.devGasParams)
      => deliver'.collector >= deliver.collector

LEMMA CollectorKeeps == ASSUME StepLaws, AppInv, Next PROVE CollectorKept
<1> SUFFICES ASSUME height' = height,
                    AtMostHalf(deliver.devGasParams)
             PROVE  deliver'.collector >= deliver.collector
  BY DEF CollectorKept
<1>1. Typed /\ height \in Nat /\ deliver.collector \in Nat
  BY DEF AppInv, Typed, State
<1>2. ASSUME NEW x \in Submitted, CheckTx(x) \/ TxRefused(x) PROVE deliver' = deliver
  BY <1>2 DEF CheckTx, TxRefused
<1>3. ASSUME NEW params \in ParamsSet \cup {deliver.devGasParams}, NextBlock(params) PROVE FALSE
  <2>1. height' = height + 1
    BY <1>3 DEF NextBlock
  <2> QED BY <1>1, <2>1, SMT
<1>4. ASSUME NEW x \in Txs, TxDelivered(x) PROVE deliver'.collector >= deliver.collector
  <2>1. x.kind \in {"eth", "sdk"}
    BY TransactionTypes
  <2> QED BY <1>1, <1>4, <2>1, CollectorStep
<1>5. CASE deliver' = deliver
  BY <1>1, <1>5, SMT
<1> QED BY <1>2, <1>3, <1>4, <1>5 DEF Next, Txs
=============================================================================
