------------------------------ MODULE AppSteps ------------------------------
(***************************************************************************)
(* One transaction of App: what the decorators of the ante handler, the     *)
(* commit of the StateDB, EthereumTx, the messages of x/devgas and the      *)
(* loops over them do to the state, for any accounts, messages and prices.  *)
(* Everything is derived from the definitions of the keepers and from Laws; *)
(* the last lemma collects the results as StepLaws.                         *)
(***************************************************************************)
EXTENDS StepLaws, TLAPS

\* Leaves are first-order set reasoning unless they cite SMT for arithmetic.
USE Zenon

LEMMA AlongLoop ==
    ASSUME Laws, NEW n \in Nat, NEW T, 0 \in T, \A i \in 1..n : i - 1 \in T => i \in T
    PROVE  \A i \in 0..n : i \in T
  BY DEF Laws, InductionLaw

LEMMA LastOfLoop ==
    ASSUME Laws, NEW n \in Nat, NEW s \in SUBSET (1..n), s # {}
    PROVE  Max(s) \in s /\ Max(s) \in 1..n
  BY DEF Laws, LastLaw

LEMMA LoopSolution ==
    ASSUME Laws, NEW n \in Nat, NEW A, NEW b \in A, NEW F, StaysIn(F, A, 1..n)
    PROVE  \E g : Solves(F, b, A, 1..n, g)
  BY DEF Laws, SolutionLaw

LEMMA LoopStates ==
    ASSUME Laws, NEW n \in Nat, NEW A, NEW b \in A, NEW F, StaysIn(F, A, 1..n),
           NEW h, Follows(F, b, A, n, h)
    PROVE  \E tr : RunsThrough(F, b, A, n, h[1..n], tr)
  BY DEF Laws, TraceLaw

LEMMA SumOfNone == ASSUME Laws, NEW f PROVE SumFunctionOnSet(f, {}) = 0
  BY DEF Laws, SumLaw

LEMMA SumOfInts ==
    ASSUME Laws, NEW S, IsFiniteSet(S), NEW f, \A x \in S : f[x] \in Int
    PROVE  SumFunctionOnSet(f, S) \in Int
  BY DEF Laws, SumLaw

LEMMA SumOfNats ==
    ASSUME Laws, NEW S, IsFiniteSet(S), NEW f, \A x \in S : f[x] \in Nat
    PROVE  SumFunctionOnSet(f, S) \in Nat
  BY DEF Laws, SumLaw

LEMMA SumWith ==
    ASSUME Laws, NEW S, IsFiniteSet(S), NEW f, NEW x, x \notin S, \A y \in S \cup {x} : f[y] \in Int
    PROVE  SumFunctionOnSet(f, S \cup {x}) = f[x] + SumFunctionOnSet(f, S)
  BY DEF Laws, InsertLaw

LEMMA SumChange ==
    ASSUME Laws, NEW S, IsFiniteSet(S), NEW f, NEW g, \A y \in S : f[y] \in Int /\ g[y] \in Int,
           NEW x \in S, \A y \in S : y # x => g[y] = f[y]
    PROVE  SumFunctionOnSet(g, S) = SumFunctionOnSet(f, S) - f[x] + g[x]
<1>1. OnlyAt(x, f, g, S)
  BY DEF OnlyAt
<1>2. QED
  BY <1>1, ZenonT(60) DEF Laws, UpdateLaw, Exchanged

LEMMA SumEqual ==
    ASSUME Laws, NEW S, IsFiniteSet(S), NEW f, NEW g, \A x \in S : f[x] \in Int /\ f[x] = g[x]
    PROVE  SumFunctionOnSet(f, S) = SumFunctionOnSet(g, S)
  BY DEF Laws, SameLaw

LEMMA FiniteInterval == ASSUME Laws PROVE \A n \in Nat : IsFiniteSet(1..n)
  BY DEF Laws, FiniteLaw

LEMMA FiniteSubset ==
    ASSUME Laws, NEW S, IsFiniteSet(S), NEW T \in SUBSET S
    PROVE  IsFiniteSet(T)
  BY DEF Laws, FiniteLaw

LEMMA CardinalityNat == ASSUME Laws, NEW S, IsFiniteSet(S) PROVE Cardinality(S) \in Nat
  BY DEF Laws, FiniteLaw

LEMMA CardinalityEmpty == ASSUME Laws PROVE Cardinality({}) = 0
  BY DEF Laws, CountLaw

LEMMA CardinalityOne == ASSUME Laws, NEW x PROVE IsFiniteSet({x}) /\ Cardinality({x}) = 1
  BY DEF Laws, CountLaw

LEMMA CardinalityAdd ==
    ASSUME Laws, NEW S, IsFiniteSet(S), NEW x, x \notin S
    PROVE  Cardinality(S \cup {x}) = Cardinality(S) + 1
  BY DEF Laws, CountLaw

\* Division rounds down.
LEMMA Quotient ==
    ASSUME NEW n \in Nat, NEW d \in Nat \ {0}
    PROVE  n \div d \in Nat /\ d * (n \div d) <= n /\ n < d * (n \div d) + d
<1>1. n \div d \in Int /\ n % d \in 0..(d - 1) /\ n = d * (n \div d) + (n % d)
  BY SMT
<1>2. n \div d \in Nat
  BY SMT
<1>3. d * (n \div d) \in Int
  BY <1>2, SMT
<1>4. QED
  BY <1>1, <1>2, <1>3, SMT

LEMMA CancelFactor ==
    ASSUME NEW c \in Nat \ {0}, NEW a \in Int, NEW b \in Int, c * a <= c * b
    PROVE  a <= b
  BY SMT

\* The sum over the first i members of a list.
LEMMA PrefixSum ==
    ASSUME Laws, NEW n \in Nat, NEW i \in 1..n, NEW f, \A j \in 1..n : f[j] \in Int
    PROVE  /\ SumFunctionOnSet(f, 1..i) = SumFunctionOnSet(f, 1..(i - 1)) + f[i]
           /\ SumFunctionOnSet(f, 1..(i - 1)) \in Int /\ f[i] \in Int
<1>1. 1..i = (1..(i - 1)) \cup {i} /\ i \notin 1..(i - 1)
  BY SMT
<1>2. \A j \in (1..(i - 1)) \cup {i} : f[j] \in Int
  BY SMT
<1>3. IsFiniteSet(1..(i - 1))
  BY FiniteInterval, SMT
<1> DEFINE S == 1..(i - 1)
<1>4. /\ IsFiniteSet(S) /\ i \notin S /\ \A j \in S \cup {i} : f[j] \in Int
  BY <1>1, <1>2, <1>3
<1>5. SumFunctionOnSet(f, S \cup {i}) = f[i] + SumFunctionOnSet(f, S) /\ SumFunctionOnSet(f, S) \in Int
  <2> HIDE DEF S
  <2> QED BY <1>4, SumWith, SumOfInts
<1>6. QED
  <2> DEFINE x == SumFunctionOnSet(f, S)
  <2>1. SumFunctionOnSet(f, 1..i) = f[i] + x /\ x \in Int /\ f[i] \in Int
    BY <1>1, <1>4, <1>5
  <2> HIDE DEF x
  <2>2. f[i] + x = x + f[i]
    BY <2>1, SMT
  <2> QED BY <2>1, <2>2 DEF x

LEMMA PrefixNone == ASSUME Laws, NEW f PROVE SumFunctionOnSet(f, 1..0) = 0
<1>1. 1..0 = {}
  BY SMT
<1>2. QED
  BY <1>1, SumOfNone

LEMMA CountNext ==
    ASSUME Laws, NEW sigs, NEW a, NEW i \in Nat, i # 0
    PROVE  /\ Count(sigs, i, a) \in Nat /\ Count(sigs, i - 1, a) \in Nat
           /\ Count(sigs, i, a) = Count(sigs, i - 1, a) + (IF sigs[i].from = a THEN 1 ELSE 0)
<1> DEFINE S == {j \in 1..(i - 1) : sigs[j].from = a}
           R == {j \in 1..i : sigs[j].from = a}
<1>1. IsFiniteSet(1..(i - 1)) /\ S \in SUBSET (1..(i - 1))
  BY FiniteInterval, SMT
<1>2. IsFiniteSet(S)
  <2> HIDE DEF S
  <2> QED BY <1>1, FiniteSubset
<1>3. i \notin S
  BY SMT
<1>4. R = IF sigs[i].from = a THEN S \cup {i} ELSE S
  BY SMT
<1>5. Cardinality(S) \in Nat /\ Cardinality(S \cup {i}) = Cardinality(S) + 1
  <2> HIDE DEF S
  <2> QED BY <1>2, <1>3, CardinalityAdd, CardinalityNat
<1>6. QED
  <2> HIDE DEF S, R
  <2>1. Cardinality(R) = Cardinality(S) + (IF sigs[i].from = a THEN 1 ELSE 0)
    BY <1>4, <1>5, SMT
  <2> QED BY <1>5, <2>1, SMT DEF Count, S, R

LEMMA CountNone == ASSUME Laws, NEW sigs, NEW a PROVE Count(sigs, 0, a) = 0
<1>1. {j \in 1..0 : sigs[j].from = a} = {}
  BY SMT
<1>2. QED
  BY <1>1, CardinalityEmpty DEF Count

-----------------------------------------------------------------------------

\* From s to t only coins have moved, between the accounts and the fee collector.
Moved(s, t) ==
    /\ s \in State /\ t \in State /\ t.seq = s.seq /\ t.evm = s.evm
    /\ SameCounters(s, t) /\ SameShares(s, t) /\ Coins(t) = Coins(s)

\* From s to t only sequences have changed.
Counted(s, t) ==
    /\ s \in State /\ t \in State /\ t.bank = s.bank /\ t.collector = s.collector /\ t.evm = s.evm
    /\ SameCounters(s, t) /\ SameShares(s, t)

LEMMA MovedTwice ==
    ASSUME NEW s, NEW t, NEW u, Moved(s, t), Moved(t, u)
    PROVE  Moved(s, u)
  BY DEF Moved, SameCounters, SameShares

LEMMA CountedTwice ==
    ASSUME NEW s, NEW t, NEW u, Counted(s, t), Counted(t, u)
    PROVE  Counted(s, u)
  BY DEF Counted, SameCounters, SameShares

\* What a change of one balance does to their sum.
LEMMA BankUpdate ==
    ASSUME Laws, NEW b \in [Addresses -> Nat], NEW a \in Addresses, NEW n \in Nat
    PROVE  /\ [b EXCEPT ![a] = n] \in [Addresses -> Nat]
           /\ SumFunction(b) \in Nat
           /\ SumFunction([b EXCEPT ![a] = n]) = SumFunction(b) - b[a] + n
<1> DEFINE c == [b EXCEPT ![a] = n]
<1>1. /\ DOMAIN b = Addresses /\ DOMAIN c = Addresses /\ c \in [Addresses -> Nat]
      /\ c[a] = n /\ \A x \in Addresses : x # a => c[x] = b[x]
  OBVIOUS
<1>2. \A x \in Addresses : b[x] \in Nat /\ b[x] \in Int /\ c[x] \in Int
  BY <1>1, SMT
<1>3. SumFunction(b) = SumFunctionOnSet(b, Addresses) /\ SumFunction(c) = SumFunctionOnSet(c, Addresses)
  BY <1>1 DEF SumFunction, SumFunctionOnSet, FoldFunction
<1> HIDE DEF c
<1>4. SumFunctionOnSet(c, Addresses) = SumFunctionOnSet(b, Addresses) - b[a] + c[a]
  <2>1. \A x \in Addresses : b[x] \in Int /\ c[x] \in Int
    BY <1>2
  <2>2. \A x \in Addresses : x # a => c[x] = b[x]
    BY <1>1
  <2>3. IsFiniteSet(Addresses)
    BY AccountAssumption
  <2> QED BY <2>1, <2>2, <2>3, SumChange, SMT
<1>5. SumFunctionOnSet(b, Addresses) \in Nat
  BY <1>2, AccountAssumption, SumOfNats
<1>6. QED
  BY <1>1, <1>3, <1>4, <1>5 DEF c

LEMMA DeductFeesIs ==
    ASSUME Laws, NEW st \in State, NEW a \in Addresses, NEW n \in Nat, NEW r, r = DeductFees(st, a, n)
    PROVE  \/ r = Refused
           \/ r = Passed(r.st) /\ Moved(st, r.st) /\ r.st.collector = st.collector + n
<1> USE DEF State
<1>1. CASE n > st.bank[a]
  BY <1>1 DEF DeductFees
<1>2. CASE ~(n > st.bank[a])
  <2> DEFINE s == [st EXCEPT !.bank[a] = @ - n, !.collector = @ + n]
  <2>1. st.bank[a] - n \in Nat /\ st.collector + n \in Nat /\ st.bank \in [Addresses -> Nat]
    BY <1>2, SMT
  <2>2. [st.bank EXCEPT ![a] = st.bank[a] - n] \in [Addresses -> Nat]
    BY <2>1
  <2>3. s \in State
    BY <2>1, <2>2
  <2>4. /\ s.bank = [st.bank EXCEPT ![a] = st.bank[a] - n] /\ s.collector = st.collector + n
        /\ s.seq = st.seq /\ s.evm = st.evm
        /\ SameCounters(st, s) /\ SameShares(st, s)
    BY DEF SameCounters, SameShares
  <2>5. r = Passed(s)
    BY <1>2 DEF DeductFees
  <2> HIDE DEF s, State
  <2>6. /\ SumFunction(s.bank) = SumFunction(st.bank) - st.bank[a] + (st.bank[a] - n)
        /\ SumFunction(st.bank) \in Nat
    BY <2>1, <2>4, BankUpdate, SMT
  <2>7. Coins(s) = Coins(st)
    <3>1. st.collector \in Nat /\ st.bank[a] \in Nat
      BY <2>1 DEF State
    <3> QED BY <2>4, <2>6, <3>1, SMT DEF Coins
  <2>8. r.st = s
    BY <2>5, SMT DEF Passed
  <2>9. QED
    BY <2>3, <2>4, <2>5, <2>7, <2>8 DEF Moved
<1>3. QED
  BY <1>1, <1>2

LEMMA SendFromCollectorIs ==
    ASSUME Laws, NEW st \in State, NEW a \in Addresses, NEW n \in Nat, NEW r, r = SendFromCollector(st, a, n)
    PROVE  \/ r = Refused
           \/ r = Passed(r.st) /\ Moved(st, r.st) /\ r.st.collector = st.collector - n
<1> USE DEF State
<1>1. CASE a \in Blocked \/ n > st.collector
  BY <1>1 DEF SendFromCollector
<1>2. CASE ~(a \in Blocked \/ n > st.collector)
  <2> DEFINE s == [st EXCEPT !.bank[a] = @ + n, !.collector = @ - n]
  <2>1. st.bank[a] + n \in Nat /\ st.collector - n \in Nat /\ st.bank \in [Addresses -> Nat]
    BY <1>2, SMT
  <2>2. [st.bank EXCEPT ![a] = st.bank[a] + n] \in [Addresses -> Nat]
    BY <2>1
  <2>3. s \in State
    BY <2>1, <2>2
  <2>4. /\ s.bank = [st.bank EXCEPT ![a] = st.bank[a] + n] /\ s.collector = st.collector - n
        /\ s.seq = st.seq /\ s.evm = st.evm
        /\ SameCounters(st, s) /\ SameShares(st, s)
    BY DEF SameCounters, SameShares
  <2>5. r = Passed(s)
    BY <1>2 DEF SendFromCollector
  <2> HIDE DEF s, State
  <2>6. /\ SumFunction(s.bank) = SumFunction(st.bank) - st.bank[a] + (st.bank[a] + n)
        /\ SumFunction(st.bank) \in Nat
    BY <2>1, <2>4, BankUpdate, SMT
  <2>7. Coins(s) = Coins(st)
    <3>1. st.collector \in Nat /\ st.bank[a] \in Nat
      BY <2>1 DEF State
    <3> QED BY <2>4, <2>6, <3>1, SMT DEF Coins
  <2>8. r.st = s
    BY <2>5, SMT DEF Passed
  <2>9. QED
    BY <2>3, <2>4, <2>5, <2>7, <2>8 DEF Moved
<1>3. QED
  BY <1>1, <1>2

LEMMA IncrementSequenceIs ==
    ASSUME NEW st \in State, NEW sig, sig.from \in Addresses, NEW r, r = IncrementSequence(st, sig)
    PROVE  \/ r = Refused
           \/ /\ r = Passed(r.st) /\ Counted(st, r.st) /\ sig.nonce = st.seq[sig.from]
              /\ r.st.seq = [st.seq EXCEPT ![sig.from] = st.seq[sig.from] + 1]
<1> USE DEF State
<1>1. CASE st.seq[sig.from] # sig.nonce
  BY <1>1 DEF IncrementSequence
<1>2. CASE st.seq[sig.from] = sig.nonce
  <2> DEFINE a == sig.from
             s == [st EXCEPT !.seq[a] = @ + 1]
  <2>1. st.seq[a] + 1 \in Nat /\ st.seq \in [Addresses -> Nat]
    BY <1>2, SMT
  <2>2. [st.seq EXCEPT ![a] = st.seq[a] + 1] \in [Addresses -> Nat]
    BY <2>1
  <2>3. s \in State
    BY <2>1, <2>2
  <2>4. /\ s.seq = [st.seq EXCEPT ![a] = st.seq[a] + 1] /\ s.collector = st.collector
        /\ s.bank = st.bank /\ s.evm = st.evm
        /\ SameCounters(st, s) /\ SameShares(st, s)
    BY DEF SameCounters, SameShares
  <2>5. r = Passed(s)
    BY <1>2 DEF IncrementSequence
  <2>6. r.st = s
    BY <2>5, SMT DEF Passed
  <2> HIDE DEF s, State
  <2>7. QED
    BY <1>2, <2>3, <2>4, <2>5, <2>6 DEF Counted
<1>3. QED
  BY <1>1, <1>2

\* What a handler may answer.
Answers == {Refused} \cup [ok : {TRUE}, st : State]

LEMMA AnswersAre ==
    /\ Refused \in Answers /\ Refused.ok = FALSE
    /\ \A s \in State : Passed(s) \in Answers /\ Passed(s).ok /\ Passed(s).st = s
    /\ \A r \in Answers : r = Refused \/ (r.ok /\ r.st \in State /\ r = Passed(r.st))
<1>1. Refused \in Answers /\ Refused.ok = FALSE
  BY DEF Answers, Refused
<1>2. ASSUME NEW s \in State PROVE Passed(s) \in Answers /\ Passed(s).ok /\ Passed(s).st = s
  BY DEF Answers, Passed
<1>3. ASSUME NEW r \in Answers, r # Refused PROVE r.ok /\ r.st \in State /\ r = Passed(r.st)
  BY <1>3 DEF Answers, Passed
<1>4. QED
  BY <1>1, <1>2, <1>3

\* The operations answer in that set.
LEMMA OperationsAnswer ==
    ASSUME Laws, NEW st \in State
    PROVE  /\ \A a \in Addresses : \A n \in Nat : DeductFees(st, a, n) \in Answers
           /\ \A a \in Addresses : \A n \in Nat : SendFromCollector(st, a, n) \in Answers
           /\ \A sig : sig.from \in Addresses => IncrementSequence(st, sig) \in Answers
<1>1. ASSUME NEW a \in Addresses, NEW n \in Nat PROVE DeductFees(st, a, n) \in Answers
  <2> DEFINE q == DeductFees(st, a, n)
  <2>1. q = Refused \/ (q = Passed(q.st) /\ q.st \in State)
    BY DeductFeesIs, SMT DEF Moved
  <2> HIDE DEF q
  <2>2. q \in Answers
    BY <2>1, AnswersAre
  <2> QED BY <2>2 DEF q
<1>2. ASSUME NEW a \in Addresses, NEW n \in Nat PROVE SendFromCollector(st, a, n) \in Answers
  <2> DEFINE q == SendFromCollector(st, a, n)
  <2>1. q = Refused \/ (q = Passed(q.st) /\ q.st \in State)
    BY SendFromCollectorIs, SMT DEF Moved
  <2> HIDE DEF q
  <2>2. q \in Answers
    BY <2>1, AnswersAre
  <2> QED BY <2>2 DEF q
<1>3. ASSUME NEW sig, sig.from \in Addresses PROVE IncrementSequence(st, sig) \in Answers
  <2> DEFINE s == [st EXCEPT !.seq[sig.from] = @ + 1]
  <2>1. [st.seq EXCEPT ![sig.from] = st.seq[sig.from] + 1] \in [Addresses -> Nat]
    BY <1>3, SMT DEF State
  <2>2. s \in State
    BY <2>1 DEF State
  <2>3. IncrementSequence(st, sig) \in {Refused, Passed(s)}
    BY DEF IncrementSequence
  <2> QED BY <2>2, <2>3, AnswersAre
<1>4. QED
  BY <1>1, <1>2, <1>3

LEMMA PriceType ==
    ASSUME NEW m \in EthMsg
    PROVE  /\ EffectiveGasPriceWei(m) \in Nat /\ EffectiveFee(m) \in Nat
           /\ m.from \in Users /\ m.from \in Addresses /\ m.gas \in Nat
<1>1. /\ BaseFeeWei \in Nat /\ m.tip \in Nat /\ m.cap \in Nat /\ m.gas \in Nat
      /\ m.from \in Users /\ m.from \in Addresses /\ WeiPerUnibi \in Nat \ {0}
  <2>1. BaseFeeWei \in Nat /\ WeiPerUnibi \in Nat \ {0}
    BY FeeAssumption, SMT DEF BaseFeeWei, NativeToWei
  <2>2. m.tip \in Nat /\ m.cap \in Nat /\ m.gas \in Nat /\ m.from \in Users
    BY DEF EthMsg
  <2>3. m.from \in Addresses
    BY <2>2, AccountAssumption
  <2> QED BY <2>1, <2>2, <2>3
<1>2. EffectiveGasPriceWei(m) \in Nat
  BY <1>1, SMT DEF EffectiveGasPriceWei, AtLeast, AtMost
<1>3. EffectiveGasPriceWei(m) * m.gas \in Nat
  BY <1>1, <1>2, SMT
<1>4. EffectiveFee(m) \in Nat
  BY <1>1, <1>3, Quotient DEF EffectiveFee, WeiToNative
<1>5. QED
  BY <1>1, <1>2, <1>4

\* The loop of AnteDecEthGasConsume, message by message.
LEMMA GasTrace ==
    ASSUME Laws, NEW st \in State, NEW msgs \in Seq(EthMsg)
    PROVE  \E tr \in [0..Len(msgs) -> Answers] :
              /\ tr[0] = Passed(st) /\ tr[Len(msgs)] = Each(GasConsume, st, msgs)
              /\ \A i \in 1..Len(msgs) :
                    tr[i] = IF tr[i - 1].ok THEN GasConsume(tr[i - 1].st, msgs[i]) ELSE tr[i - 1]
<1> DEFINE n == Len(msgs)
           Step(x, i) == IF x.ok THEN GasConsume(x.st, msgs[i]) ELSE x
           F == [i \in 1..n |-> [x \in Answers |-> Step(x, i)]]
           b == Passed(st)
           Body(g, s) == IF s = {} THEN b ELSE Step(g[s \ {Max(s)}], Max(s))
           h == CHOOSE g : g = [s \in SUBSET (1..n) |-> Body(g, s)]
<1>1. n \in Nat /\ DOMAIN msgs = 1..n /\ \A i \in 1..n : msgs[i] \in EthMsg
  BY SMT
<1>2. Each(GasConsume, st, msgs) = h[1..n]
  BY <1>1 DEF Each, ForEach, MapThenFoldSet
<1>3. ASSUME NEW x \in Answers, NEW i \in 1..n PROVE Step(x, i) \in Answers
  <2>1. CASE x = Refused
    BY <2>1, AnswersAre
  <2>2. CASE x.ok /\ x.st \in State
    <3>1. msgs[i] \in EthMsg
      BY <1>1
    <3>2. msgs[i].from \in Addresses /\ EffectiveFee(msgs[i]) \in Nat
      BY <3>1, PriceType
    <3>3. GasConsume(x.st, msgs[i]) \in Answers
      BY <2>2, <3>2, OperationsAnswer DEF GasConsume
    <3>4. QED
      BY <2>2, <3>3
  <2>3. QED
    BY <2>1, <2>2, AnswersAre
<1>4. /\ \A i \in 1..n : \A x \in Answers : F[i][x] = Step(x, i)
      /\ StaysIn(F, Answers, 1..n) /\ b \in Answers
  BY <1>3, AnswersAre DEF StaysIn
<1> HIDE DEF n, F, b, Step
<1>5. PICK g : Solves(F, b, Answers, 1..n, g)
  BY <1>1, <1>4, LoopSolution
<1>6. ASSUME NEW f, NEW s \in SUBSET (1..n), s # {} /\ f[s \ {Max(s)}] \in Answers
      PROVE  Step(f[s \ {Max(s)}], Max(s)) = F[Max(s)][f[s \ {Max(s)}]]
  BY <1>1, <1>4, <1>6, LastOfLoop
<1>7. g = [s \in SUBSET (1..n) |-> Body(g, s)]
  <2>1. ASSUME NEW s \in SUBSET (1..n) PROVE LoopRec(F, b, g, s) = Body(g, s)
    BY <1>5, <1>6 DEF LoopRec, Solves
  <2> HIDE DEF Body
  <2> QED BY <1>5, <2>1 DEF Solves
<1>8. h = [s \in SUBSET (1..n) |-> Body(h, s)]
  <2> HIDE DEF Body
  <2> QED BY <1>7
<1> HIDE DEF h
<1>9. Follows(F, b, Answers, n, h)
  <2>1. \A s \in SUBSET (1..n) : h[s] = Body(h, s)
    <3> HIDE DEF Body
    <3> QED BY <1>8
  <2> QED BY <1>6, <2>1 DEF Follows
<1>10. PICK tr : RunsThrough(F, b, Answers, n, h[1..n], tr)
  BY <1>1, <1>4, <1>9, LoopStates
<1>11. ASSUME NEW i \in 1..n PROVE tr[i] = Step(tr[i - 1], i)
  <2>1. i - 1 \in 0..n
    BY <1>1, SMT
  <2> QED BY <1>4, <1>10, <2>1 DEF RunsThrough
<1>12. QED
  BY <1>2, <1>10, <1>11 DEF n, Step, b, RunsThrough

\* The loop that increments the sequences, message by message.
LEMMA SequenceTrace ==
    ASSUME Laws, NEW st \in State, NEW msgs \in Seq(EthMsg)
    PROVE  \E tr \in [0..Len(msgs) -> Answers] :
              /\ tr[0] = Passed(st) /\ tr[Len(msgs)] = Each(IncrementSequence, st, msgs)
              /\ \A i \in 1..Len(msgs) :
                    tr[i] = IF tr[i - 1].ok THEN IncrementSequence(tr[i - 1].st, msgs[i])
                            ELSE tr[i - 1]
<1> DEFINE n == Len(msgs)
           Step(x, i) == IF x.ok THEN IncrementSequence(x.st, msgs[i]) ELSE x
           F == [i \in 1..n |-> [x \in Answers |-> Step(x, i)]]
           b == Passed(st)
           Body(g, s) == IF s = {} THEN b ELSE Step(g[s \ {Max(s)}], Max(s))
           h == CHOOSE g : g = [s \in SUBSET (1..n) |-> Body(g, s)]
<1>1. n \in Nat /\ DOMAIN msgs = 1..n /\ \A i \in 1..n : msgs[i] \in EthMsg
  BY SMT
<1>2. Each(IncrementSequence, st, msgs) = h[1..n]
  BY <1>1 DEF Each, ForEach, MapThenFoldSet
<1>3. ASSUME NEW x \in Answers, NEW i \in 1..n PROVE Step(x, i) \in Answers
  <2>1. CASE x = Refused
    BY <2>1, AnswersAre
  <2>2. CASE x.ok /\ x.st \in State
    <3>1. msgs[i] \in EthMsg
      BY <1>1
    <3>2. msgs[i].from \in Addresses
      BY <3>1, PriceType
    <3>3. IncrementSequence(x.st, msgs[i]) \in Answers
      BY <2>2, <3>2, OperationsAnswer
    <3>4. QED
      BY <2>2, <3>3
  <2>3. QED
    BY <2>1, <2>2, AnswersAre
<1>4. /\ \A i \in 1..n : \A x \in Answers : F[i][x] = Step(x, i)
      /\ StaysIn(F, Answers, 1..n) /\ b \in Answers
  BY <1>3, AnswersAre DEF StaysIn
<1> HIDE DEF n, F, b, Step
<1>5. PICK g : Solves(F, b, Answers, 1..n, g)
  BY <1>1, <1>4, LoopSolution
<1>6. ASSUME NEW f, NEW s \in SUBSET (1..n), s # {} /\ f[s \ {Max(s)}] \in Answers
      PROVE  Step(f[s \ {Max(s)}], Max(s)) = F[Max(s)][f[s \ {Max(s)}]]
  BY <1>1, <1>4, <1>6, LastOfLoop
<1>7. g = [s \in SUBSET (1..n) |-> Body(g, s)]
  <2>1. ASSUME NEW s \in SUBSET (1..n) PROVE LoopRec(F, b, g, s) = Body(g, s)
    BY <1>5, <1>6 DEF LoopRec, Solves
  <2> HIDE DEF Body
  <2> QED BY <1>5, <2>1 DEF Solves
<1>8. h = [s \in SUBSET (1..n) |-> Body(h, s)]
  <2> HIDE DEF Body
  <2> QED BY <1>7
<1> HIDE DEF h
<1>9. Follows(F, b, Answers, n, h)
  <2>1. \A s \in SUBSET (1..n) : h[s] = Body(h, s)
    <3> HIDE DEF Body
    <3> QED BY <1>8
  <2> QED BY <1>6, <2>1 DEF Follows
<1>10. PICK tr : RunsThrough(F, b, Answers, n, h[1..n], tr)
  BY <1>1, <1>4, <1>9, LoopStates
<1>11. ASSUME NEW i \in 1..n PROVE tr[i] = Step(tr[i - 1], i)
  <2>1. i - 1 \in 0..n
    BY <1>1, SMT
  <2> QED BY <1>4, <1>10, <2>1 DEF RunsThrough
<1>12. QED
  BY <1>2, <1>10, <1>11 DEF n, Step, b, RunsThrough

\* AnteDecEthGasConsume moves the fees of all messages to the fee collector.
LEMMA GasPaid ==
    ASSUME Laws, NEW st \in State, NEW msgs \in Seq(EthMsg), NEW r, r = Each(GasConsume, st, msgs), r.ok
    PROVE  Moved(st, r.st) /\ r.st.collector = st.collector + SumFunction(Fees(msgs))
<1> DEFINE n == Len(msgs)
           f == Fees(msgs)
<1>1. PICK tr \in [0..n -> Answers] :
              /\ tr[0] = Passed(st) /\ tr[n] = Each(GasConsume, st, msgs)
              /\ \A i \in 1..n :
                    tr[i] = IF tr[i - 1].ok THEN GasConsume(tr[i - 1].st, msgs[i]) ELSE tr[i - 1]
  BY GasTrace
<1>2. n \in Nat /\ DOMAIN msgs = 1..n /\ \A i \in 1..n : msgs[i] \in EthMsg
  BY SMT
<1>3. \A i \in 1..n : f[i] = EffectiveFee(msgs[i]) /\ f[i] \in Nat /\ f[i] \in Int
                      /\ msgs[i].from \in Addresses
  BY <1>2, PriceType, SMT DEF Fees
<1> DEFINE P(i) == /\ Moved(st, tr[i].st)
                   /\ tr[i].st.collector = st.collector + SumFunctionOnSet(f, 1..i)
           T == {i \in 0..n : tr[i].ok => P(i)}
<1> HIDE DEF n, f
<1>4. 0 \in T
  <2>1. tr[0].st = st /\ st.collector \in Nat
    BY <1>1, AnswersAre DEF State
  <2>2. Moved(st, tr[0].st)
    BY <2>1 DEF Moved, SameCounters, SameShares
  <2>3. SumFunctionOnSet(f, 1..0) = 0
    BY PrefixNone
  <2> QED BY <1>2, <2>1, <2>2, <2>3, SMT
<1>5. ASSUME NEW i \in 1..n, i - 1 \in T PROVE i \in T
  <2>1. i \in 0..n /\ i - 1 \in 0..n /\ tr[i] \in Answers /\ tr[i - 1] \in Answers
    BY <1>1, <1>2, SMT
  <2> SUFFICES ASSUME tr[i].ok PROVE P(i)
    BY <2>1
  <2>2. tr[i - 1].ok /\ tr[i - 1].st \in State /\ tr[i] = GasConsume(tr[i - 1].st, msgs[i])
    BY <1>1, <2>1, AnswersAre
  <2>3. tr[i] # Refused
    BY AnswersAre
  <2> DEFINE s == tr[i - 1].st
             t == tr[i].st
  <2>4. Moved(s, t) /\ t.collector = s.collector + f[i]
    <3> DEFINE q == tr[i]
               c == msgs[i].from
               k == f[i]
    <3>1. s \in State /\ c \in Addresses /\ k \in Nat /\ q = DeductFees(s, c, k) /\ q # Refused
      BY <1>3, <2>2, <2>3 DEF GasConsume
    <3> HIDE DEF s, c, k, q
    <3>2. Moved(s, q.st) /\ q.st.collector = s.collector + k
      BY <3>1, DeductFeesIs, SMT
    <3> QED BY <3>2 DEF q, k
  <2>5. P(i - 1)
    BY <1>5, <2>2
  <2>6. /\ SumFunctionOnSet(f, 1..i) = SumFunctionOnSet(f, 1..(i - 1)) + f[i]
        /\ SumFunctionOnSet(f, 1..(i - 1)) \in Int /\ f[i] \in Int
    BY <1>2, <1>3, PrefixSum
  <2>7. Moved(st, t)
    BY <2>4, <2>5, MovedTwice
  <2>8. t.collector = st.collector + SumFunctionOnSet(f, 1..i)
    <3>1. st.collector \in Int
      BY SMT DEF State
    <3> DEFINE x == SumFunctionOnSet(f, 1..(i - 1))
               y == SumFunctionOnSet(f, 1..i)
    <3>2. s.collector = st.collector + x /\ y = x + f[i] /\ x \in Int /\ f[i] \in Int
      BY <2>5, <2>6
    <3> HIDE DEF x, y, s, t
    <3>3. t.collector = st.collector + y
      BY <2>4, <3>1, <3>2, SMT
    <3> QED BY <3>3 DEF y, t
  <2> QED BY <2>7, <2>8
<1>6. \A i \in 0..n : i \in T
  <2> HIDE DEF T
  <2> QED BY <1>2, <1>4, <1>5, AlongLoop
<1>7. P(n)
  <2>1. n \in T /\ tr[n].ok
    BY <1>1, <1>2, <1>6, SMT
  <2> QED BY <2>1
<1>8. SumFunction(f) = SumFunctionOnSet(f, 1..n)
  <2>1. DOMAIN f = 1..n
    BY <1>2 DEF f, Fees
  <2> QED BY <2>1 DEF SumFunction, SumFunctionOnSet, FoldFunction
<1>9. QED
  BY <1>1, <1>7, <1>8 DEF f

\* What the loop over the sequences does.
Used(st, t, sigs) ==
    /\ Counted(st, t)
    /\ \A a \in Addresses : t.seq[a] = st.seq[a] + Count(sigs, Len(sigs), a)
    /\ \A i \in 1..Len(sigs) :
          sigs[i].nonce = st.seq[sigs[i].from] + Count(sigs, i - 1, sigs[i].from)

LEMMA SequencesUsed ==
    ASSUME Laws, NEW st \in State, NEW msgs \in Seq(EthMsg), NEW r,
           r = Each(IncrementSequence, st, msgs), r.ok
    PROVE  Used(st, r.st, msgs)
<1> DEFINE n == Len(msgs)
<1>1. PICK tr \in [0..n -> Answers] :
              /\ tr[0] = Passed(st) /\ tr[n] = Each(IncrementSequence, st, msgs)
              /\ \A i \in 1..n :
                    tr[i] = IF tr[i - 1].ok THEN IncrementSequence(tr[i - 1].st, msgs[i])
                            ELSE tr[i - 1]
  BY SequenceTrace
<1>2. n \in Nat /\ DOMAIN msgs = 1..n /\ \A i \in 1..n : msgs[i] \in EthMsg
  BY SMT
<1>3. \A i \in 1..n : msgs[i].from \in Addresses
  BY <1>2, PriceType
<1> DEFINE P(i) == /\ Counted(st, tr[i].st)
                   /\ \A a \in Addresses : tr[i].st.seq[a] = st.seq[a] + Count(msgs, i, a)
                   /\ \A j \in 1..i : msgs[j].nonce
                                       = st.seq[msgs[j].from] + Count(msgs, j - 1, msgs[j].from)
           T == {i \in 0..n : tr[i].ok => P(i)}
<1> HIDE DEF n
<1>4. 0 \in T
  <2>1. tr[0].st = st /\ \A a \in Addresses : st.seq[a] \in Nat
    BY <1>1, AnswersAre DEF State
  <2>2. Counted(st, tr[0].st)
    BY <2>1 DEF Counted, SameCounters, SameShares
  <2>3. \A a \in Addresses : tr[0].st.seq[a] = st.seq[a] + Count(msgs, 0, a)
    BY <2>1, CountNone, SMT
  <2> QED BY <1>2, <2>2, <2>3, SMT
<1>5. ASSUME NEW i \in 1..n, i - 1 \in T PROVE i \in T
  <2>1. i \in 0..n /\ i - 1 \in 0..n /\ tr[i] \in Answers /\ tr[i - 1] \in Answers /\ i \in Nat /\ i # 0
    BY <1>1, <1>2, SMT
  <2> SUFFICES ASSUME tr[i].ok PROVE P(i)
    BY <2>1
  <2>2. tr[i - 1].ok /\ tr[i - 1].st \in State /\ tr[i] = IncrementSequence(tr[i - 1].st, msgs[i])
    BY <1>1, <2>1, AnswersAre
  <2>3. tr[i] # Refused
    BY AnswersAre
  <2> DEFINE s == tr[i - 1].st
             t == tr[i].st
             c == msgs[i].from
  <2>4. /\ Counted(s, t) /\ msgs[i].nonce = s.seq[c] /\ t.seq = [s.seq EXCEPT ![c] = s.seq[c] + 1]
        /\ c \in Addresses
    <3> DEFINE q == tr[i]
               sig == msgs[i]
    <3>1. s \in State /\ sig.from \in Addresses /\ q = IncrementSequence(s, sig) /\ q # Refused
      BY <1>3, <2>2, <2>3
    <3> HIDE DEF s, sig, q
    <3>2. \/ q = Refused
          \/ /\ q = Passed(q.st) /\ Counted(s, q.st) /\ sig.nonce = s.seq[sig.from]
             /\ q.st.seq = [s.seq EXCEPT ![sig.from] = s.seq[sig.from] + 1]
      BY <3>1, IncrementSequenceIs, SMTT(30)
    <3>3. /\ Counted(s, q.st) /\ sig.nonce = s.seq[sig.from]
          /\ q.st.seq = [s.seq EXCEPT ![sig.from] = s.seq[sig.from] + 1]
      BY <3>1, <3>2
    <3> QED BY <3>1, <3>3 DEF q, sig
  <2>5. P(i - 1)
    BY <1>5, <2>2
  <2>6. Counted(st, t)
    BY <2>4, <2>5, CountedTwice
  <2>7. \A a \in Addresses : t.seq[a] = st.seq[a] + Count(msgs, i, a)
    <3> SUFFICES ASSUME NEW a \in Addresses PROVE t.seq[a] = st.seq[a] + Count(msgs, i, a)
      OBVIOUS
    <3>1. /\ Count(msgs, i, a) \in Nat /\ Count(msgs, i - 1, a) \in Nat
          /\ Count(msgs, i, a) = Count(msgs, i - 1, a) + (IF c = a THEN 1 ELSE 0)
      BY <2>1, CountNext
    <3>2. s.seq[a] = st.seq[a] + Count(msgs, i - 1, a) /\ st.seq[a] \in Nat
      BY <2>5 DEF State
    <3>3. t.seq[a] = IF a = c THEN s.seq[a] + 1 ELSE s.seq[a]
      BY <2>2, <2>4, ZenonT(60) DEF State
    <3> HIDE DEF s, t, c
    <3> QED BY <3>1, <3>2, <3>3, SMT
  <2>8. \A j \in 1..i : msgs[j].nonce = st.seq[msgs[j].from] + Count(msgs, j - 1, msgs[j].from)
    <3>1. msgs[i].nonce = st.seq[c] + Count(msgs, i - 1, c)
      BY <2>4, <2>5
    <3>2. \A j \in 1..i : j = i \/ j \in 1..(i - 1)
      BY <2>1, SMT
    <3> QED BY <2>5, <3>1, <3>2
  <2> QED BY <2>6, <2>7, <2>8
<1>6. \A i \in 0..n : i \in T
  <2> HIDE DEF T
  <2> QED BY <1>2, <1>4, <1>5, AlongLoop
<1>7. P(n)
  <2>1. n \in T /\ tr[n].ok
    BY <1>1, <1>2, <1>6, SMT
  <2> QED BY <2>1
<1>8. QED
  BY <1>1, <1>7 DEF n, Used

\* The loop of getWithdrawAddressesFromMsgs, message by message.
LEMMA WithdrawerTrace ==
    ASSUME Laws, NEW st \in State, NEW msgs \in Seq(SdkMsg)
    PROVE  \E tr \in [0..Len(msgs) -> Seq(Addresses)] :
              /\ tr[0] = <<>> /\ tr[Len(msgs)] = getWithdrawAddressesFromMsgs(st, msgs)
              /\ \A i \in 1..Len(msgs) :
                    tr[i] = IF msgs[i].type = "Execute" /\ st.feeShare[msgs[i].contract] # None
                            THEN Append(tr[i - 1], st.feeShare[msgs[i].contract])
                            ELSE tr[i - 1]
<1> DEFINE n == Len(msgs)
           Step(x, i) == IF msgs[i].type = "Execute" /\ st.feeShare[msgs[i].contract] # None
                            THEN Append(x, st.feeShare[msgs[i].contract])
                            ELSE x
           F == [i \in 1..n |-> [x \in Seq(Addresses) |-> Step(x, i)]]
           b == <<>>
           Body(g, s) == IF s = {} THEN b ELSE Step(g[s \ {Max(s)}], Max(s))
           h == CHOOSE g : g = [s \in SUBSET (1..n) |-> Body(g, s)]
<1>1. n \in Nat /\ DOMAIN msgs = 1..n /\ \A i \in 1..n : msgs[i] \in SdkMsg
  BY SMT
<1>2. getWithdrawAddressesFromMsgs(st, msgs) = h[1..n]
  BY <1>1 DEF getWithdrawAddressesFromMsgs, ForEach, MapThenFoldSet
<1>3. ASSUME NEW x \in Seq(Addresses), NEW i \in 1..n PROVE Step(x, i) \in Seq(Addresses)
  <2>1. msgs[i] \in SdkMsg
    BY <1>1
  <2>2. msgs[i].contract \in Contracts
    BY <2>1 DEF SdkMsg
  <2>3. st.feeShare[msgs[i].contract] # None => st.feeShare[msgs[i].contract] \in Addresses
    BY <2>2 DEF State
  <2> QED BY <2>3, SMT
<1>4. /\ \A i \in 1..n : \A x \in Seq(Addresses) : F[i][x] = Step(x, i)
      /\ StaysIn(F, Seq(Addresses), 1..n) /\ b \in Seq(Addresses)
  BY <1>3, AnswersAre, SMT DEF StaysIn
<1> HIDE DEF n, F, b, Step
<1>5. PICK g : Solves(F, b, Seq(Addresses), 1..n, g)
  BY <1>1, <1>4, LoopSolution
<1>6. ASSUME NEW f, NEW s \in SUBSET (1..n), s # {} /\ f[s \ {Max(s)}] \in Seq(Addresses)
      PROVE  Step(f[s \ {Max(s)}], Max(s)) = F[Max(s)][f[s \ {Max(s)}]]
  BY <1>1, <1>4, <1>6, LastOfLoop
<1>7. g = [s \in SUBSET (1..n) |-> Body(g, s)]
  <2>1. ASSUME NEW s \in SUBSET (1..n) PROVE LoopRec(F, b, g, s) = Body(g, s)
    BY <1>5, <1>6 DEF LoopRec, Solves
  <2> HIDE DEF Body
  <2> QED BY <1>5, <2>1 DEF Solves
<1>8. h = [s \in SUBSET (1..n) |-> Body(h, s)]
  <2> HIDE DEF Body
  <2> QED BY <1>7
<1> HIDE DEF h
<1>9. Follows(F, b, Seq(Addresses), n, h)
  <2>1. \A s \in SUBSET (1..n) : h[s] = Body(h, s)
    <3> HIDE DEF Body
    <3> QED BY <1>8
  <2> QED BY <1>6, <2>1 DEF Follows
<1>10. PICK tr : RunsThrough(F, b, Seq(Addresses), n, h[1..n], tr)
  BY <1>1, <1>4, <1>9, LoopStates
<1>11. ASSUME NEW i \in 1..n PROVE tr[i] = Step(tr[i - 1], i)
  <2>1. i - 1 \in 0..n
    BY <1>1, SMT
  <2> QED BY <1>4, <1>10, <2>1 DEF RunsThrough
<1>12. QED
  BY <1>2, <1>10, <1>11 DEF n, Step, b, RunsThrough

\* The withdrawers are addresses.
LEMMA WithdrawersAre ==
    ASSUME Laws, NEW st \in State, NEW msgs \in Seq(SdkMsg)
    PROVE  getWithdrawAddressesFromMsgs(st, msgs) \in Seq(Addresses)
<1> DEFINE n == Len(msgs)
<1>1. PICK tr \in [0..n -> Seq(Addresses)] : tr[n] = getWithdrawAddressesFromMsgs(st, msgs)
  BY WithdrawerTrace
<1>2. n \in 0..n
  BY SMT
<1>3. QED
  BY <1>1, <1>2

\* The loop of settleFeePayments, withdrawer by withdrawer.
LEMMA PayoutTrace ==
    ASSUME Laws, NEW st \in State, NEW toPay \in Seq(Addresses), NEW fee,
           FeePayLogic(getAllowedFees(st.devGasParams, fee), st.devGasParams.share, Len(toPay)) \in Nat
    PROVE  \E tr \in [0..Len(toPay) -> Answers] :
              /\ tr[0] = Passed(st) /\ tr[Len(toPay)] = settleFeePayments(st, toPay, fee)
              /\ \A i \in 1..Len(toPay) :
                    tr[i] = IF tr[i - 1].ok
                            THEN SendFromCollector(tr[i - 1].st, toPay[i],
                                     FeePayLogic(getAllowedFees(st.devGasParams, fee), st.devGasParams.share, Len(toPay)))
                            ELSE tr[i - 1]
<1> DEFINE n == Len(toPay)
           Step(x, i) == IF x.ok
                            THEN SendFromCollector(x.st, toPay[i],
                                     FeePayLogic(getAllowedFees(st.devGasParams, fee), st.devGasParams.share, Len(toPay)))
                            ELSE x
           F == [i \in 1..n |-> [x \in Answers |-> Step(x, i)]]
           b == Passed(st)
           Body(g, s) == IF s = {} THEN b ELSE Step(g[s \ {Max(s)}], Max(s))
           h == CHOOSE g : g = [s \in SUBSET (1..n) |-> Body(g, s)]
<1>1. n \in Nat /\ DOMAIN toPay = 1..n /\ \A i \in 1..n : toPay[i] \in Addresses
  BY SMT
<1>2. settleFeePayments(st, toPay, fee) = h[1..n]
  BY <1>1 DEF settleFeePayments, Each, ForEach, MapThenFoldSet
<1>3. ASSUME NEW x \in Answers, NEW i \in 1..n PROVE Step(x, i) \in Answers
  <2>1. CASE x = Refused
    BY <2>1, AnswersAre
  <2>2. CASE x.ok /\ x.st \in State
    <3>1. toPay[i] \in Addresses
      BY <1>1
    <3>2. SendFromCollector(x.st, toPay[i], FeePayLogic(getAllowedFees(st.devGasParams, fee), st.devGasParams.share, Len(toPay))) \in Answers
      BY <2>2, <3>1, OperationsAnswer
    <3>3. QED
      BY <2>2, <3>2
  <2>3. QED
    BY <2>1, <2>2, AnswersAre
<1>4. /\ \A i \in 1..n : \A x \in Answers : F[i][x] = Step(x, i)
      /\ StaysIn(F, Answers, 1..n) /\ b \in Answers
  BY <1>3, AnswersAre DEF StaysIn
<1> HIDE DEF n, F, b, Step
<1>5. PICK g : Solves(F, b, Answers, 1..n, g)
  BY <1>1, <1>4, LoopSolution
<1>6. ASSUME NEW f, NEW s \in SUBSET (1..n), s # {} /\ f[s \ {Max(s)}] \in Answers
      PROVE  Step(f[s \ {Max(s)}], Max(s)) = F[Max(s)][f[s \ {Max(s)}]]
  BY <1>1, <1>4, <1>6, LastOfLoop
<1>7. g = [s \in SUBSET (1..n) |-> Body(g, s)]
  <2>1. ASSUME NEW s \in SUBSET (1..n) PROVE LoopRec(F, b, g, s) = Body(g, s)
    BY <1>5, <1>6 DEF LoopRec, Solves
  <2> HIDE DEF Body
  <2> QED BY <1>5, <2>1 DEF Solves
<1>8. h = [s \in SUBSET (1..n) |-> Body(h, s)]
  <2> HIDE DEF Body
  <2> QED BY <1>7
<1> HIDE DEF h
<1>9. Follows(F, b, Answers, n, h)
  <2>1. \A s \in SUBSET (1..n) : h[s] = Body(h, s)
    <3> HIDE DEF Body
    <3> QED BY <1>8
  <2> QED BY <1>6, <2>1 DEF Follows
<1>10. PICK tr : RunsThrough(F, b, Answers, n, h[1..n], tr)
  BY <1>1, <1>4, <1>9, LoopStates
<1>11. ASSUME NEW i \in 1..n PROVE tr[i] = Step(tr[i - 1], i)
  <2>1. i - 1 \in 0..n
    BY <1>1, SMT
  <2> QED BY <1>4, <1>10, <2>1 DEF RunsThrough
<1>12. QED
  BY <1>2, <1>10, <1>11 DEF n, Step, b, RunsThrough

\* RoundInt answers no more than twice the number that it rounds.
LEMMA RoundIntBounds ==
    ASSUME NEW num \in Nat, NEW den \in Nat \ {0}
    PROVE  RoundInt(num, den) \in Nat /\ den * RoundInt(num, den) <= 2 * num
<1> DEFINE q == num \div den
           r == num % den
           p == den * q
<1>1. q \in Nat /\ r \in 0..(den - 1) /\ num = p + r /\ p \in Nat
  <2>1. q \in Int /\ r \in 0..(den - 1) /\ num = den * q + r
    BY SMT
  <2>2. q \in Nat
    BY SMT
  <2>3. den * q \in Nat
    BY <2>2, SMT
  <2> QED BY <2>1, <2>2, <2>3
<1>2. RoundInt(num, den) \in {q, q + 1}
  BY DEF RoundInt
<1>3. RoundInt(num, den) = q + 1 => (2 * r > den \/ (2 * r = den /\ q % 2 = 1))
  <2>1. q # q + 1
    BY <1>1, SMT
  <2> QED BY <2>1 DEF RoundInt
<1>4. q % 2 = 1 => p >= den
  <2>1. ASSUME q % 2 = 1 PROVE q >= 1
    BY <1>1, <2>1, SMT
  <2>2. q >= 1 => den * q >= den
    BY <1>1, SMT
  <2> QED BY <2>1, <2>2
<1>5. den * (q + 1) = p + den
  BY <1>1, SMT
<1> HIDE DEF q, r, p
<1>6. CASE RoundInt(num, den) = q
  BY <1>1, <1>6, SMT DEF p
<1>7. CASE RoundInt(num, den) = q + 1
  <2>1. den * RoundInt(num, den) = p + den
    BY <1>5, <1>7
  <2>2. p + den <= 2 * num
    BY <1>1, <1>3, <1>4, <1>7, SMT
  <2> QED BY <1>1, <1>7, <2>1, <2>2, SMT
<1>8. QED
  BY <1>2, <1>6, <1>7

\* getAllowedFees counts an amount as often as its denomination is allowed.
LEMMA AllowedTimes ==
    ASSUME Laws, NEW params \in DevGasParams
    PROVE  \E k \in Nat : \A x \in Nat : getAllowedFees(params, x) = x * k
<1> DEFINE D == {i \in DOMAIN params.denoms : params.denoms[i] = FeeDenom}
<1>1. params.denoms \in Seq(STRING)
  BY DEF DevGasParams
<1>2. Cardinality(D) \in Nat
  <2>1. Len(params.denoms) \in Nat /\ D \in SUBSET (1..Len(params.denoms))
    BY <1>1, SMT
  <2> HIDE DEF D
  <2> QED BY <2>1 DEF Laws, FiniteLaw
<1>3. CASE params.denoms = <<>>
  <2>1. \A x \in Nat : x = x * 1
    BY SMT
  <2>2. 1 \in Nat
    BY SMT
  <2> QED BY <1>3, <2>1, <2>2 DEF getAllowedFees
<1>4. CASE params.denoms # <<>>
  BY <1>2, <1>4 DEF getAllowedFees
<1>5. QED
  BY <1>3, <1>4

\* What each developer gets; together no more than the fee when their share is at most half.
LEMMA FeePayBounds ==
    ASSUME NEW fee \in Nat, NEW k \in Nat, NEW share \in Nat \X (Nat \ {0}), NEW n \in Nat \ {0}
    PROVE  /\ FeePayLogic(fee * k, share, n) \in Nat
           /\ 2 * (share[1] * k) <= share[2] => n * FeePayLogic(fee * k, share, n) <= fee
<1> DEFINE a == share[1]
           d == share[2]
           e == FeePayLogic(fee * k, share, n)
<1>1. a \in Nat /\ d \in Nat \ {0}
  OBVIOUS
<1>2. e = RoundInt(a * (fee * k), d * n)
  BY DEF FeePayLogic
<1> HIDE DEF a, d, e
<1>3. a * (fee * k) \in Nat /\ d * n \in Nat \ {0}
  BY <1>1, SMT
<1>4. e \in Nat /\ (d * n) * e <= 2 * (a * (fee * k))
  BY <1>2, <1>3, RoundIntBounds
<1>5. ASSUME 2 * (a * k) <= d PROVE n * e <= fee
  <2>1. 2 * (a * (fee * k)) = (2 * (a * k)) * fee
    BY <1>1, SMT
  <2>2. (2 * (a * k)) * fee <= d * fee
    <3> DEFINE c == 2 * (a * k)
    <3>1. c \in Nat /\ c <= d
      BY <1>1, <1>5, SMT
    <3> HIDE DEF c
    <3>2. c * fee <= d * fee
      BY <1>1, <3>1, SMT
    <3> QED BY <3>2 DEF c
  <2>3. (d * n) * e = d * (n * e)
    BY <1>1, <1>4, SMT
  <2>4. d * (n * e) <= d * fee
    <3> DEFINE u == (d * n) * e
               v == 2 * (a * (fee * k))
               w == d * fee
    <3>1. u \in Int /\ v \in Int /\ w \in Int
      BY <1>1, <1>3, <1>4, SMT
    <3>2. u <= v /\ v <= w
      BY <1>4, <2>1, <2>2
    <3> HIDE DEF u, v, w
    <3>3. u <= w
      BY <3>1, <3>2, SMT
    <3> QED BY <2>3, <3>3 DEF u, w
  <2>5. n * e \in Int
    BY <1>4, SMT
  <2> QED BY <1>1, <2>4, <2>5, CancelFactor, SMT
<1>6. QED
  BY <1>4, <1>5 DEF a, d, e

\* settleFeePayments pays every withdrawer the same amount.
LEMMA PaidOut ==
    ASSUME Laws, NEW st \in State, NEW toPay \in Seq(Addresses), NEW fee, NEW e \in Nat,
           e = FeePayLogic(getAllowedFees(st.devGasParams, fee), st.devGasParams.share, Len(toPay)),
           NEW r, r = settleFeePayments(st, toPay, fee), r.ok
    PROVE  Moved(st, r.st) /\ r.st.collector = st.collector - Len(toPay) * e
<1> DEFINE n == Len(toPay)
<1>1. PICK tr \in [0..n -> Answers] :
              /\ tr[0] = Passed(st) /\ tr[n] = settleFeePayments(st, toPay, fee)
              /\ \A i \in 1..n :
                    tr[i] = IF tr[i - 1].ok THEN SendFromCollector(tr[i - 1].st, toPay[i], e)
                            ELSE tr[i - 1]
  BY PayoutTrace, ZenonT(60)
<1>2. n \in Nat /\ \A i \in 1..n : toPay[i] \in Addresses
  BY SMT
<1> DEFINE P(i) == Moved(st, tr[i].st) /\ tr[i].st.collector = st.collector - i * e
           T == {i \in 0..n : tr[i].ok => P(i)}
<1> HIDE DEF n
<1>3. 0 \in T
  <2>1. tr[0].st = st /\ st.collector \in Nat
    BY <1>1, AnswersAre DEF State
  <2>2. Moved(st, tr[0].st)
    BY <2>1 DEF Moved, SameCounters, SameShares
  <2> QED BY <1>2, <2>1, <2>2, SMT
<1>4. ASSUME NEW i \in 1..n, i - 1 \in T PROVE i \in T
  <2>1. i \in 0..n /\ i - 1 \in 0..n /\ tr[i] \in Answers /\ tr[i - 1] \in Answers
    BY <1>1, <1>2, SMT
  <2> SUFFICES ASSUME tr[i].ok PROVE P(i)
    BY <2>1
  <2>2. tr[i - 1].ok /\ tr[i - 1].st \in State
        /\ tr[i] = SendFromCollector(tr[i - 1].st, toPay[i], e)
    BY <1>1, <2>1, AnswersAre
  <2>3. tr[i] # Refused
    BY AnswersAre
  <2> DEFINE s == tr[i - 1].st
             t == tr[i].st
  <2>4. Moved(s, t) /\ t.collector = s.collector - e
    <3> DEFINE q == tr[i]
               c == toPay[i]
    <3>1. s \in State /\ c \in Addresses /\ q = SendFromCollector(s, c, e) /\ q # Refused
      BY <1>2, <2>2, <2>3
    <3> HIDE DEF s, c, q
    <3>2. Moved(s, q.st) /\ q.st.collector = s.collector - e
      BY <3>1, SendFromCollectorIs, SMT
    <3> QED BY <3>2 DEF q
  <2>5. P(i - 1)
    BY <1>4, <2>2
  <2>6. Moved(st, t)
    BY <2>4, <2>5, MovedTwice
  <2>7. t.collector = st.collector - i * e
    <3>1. st.collector \in Int /\ i \in Int
      BY <1>2, SMT DEF State
    <3>2. (i - 1) * e = i * e - e /\ i * e \in Int
      BY <3>1, SMT
    <3> HIDE DEF s, t
    <3>3. s.collector = st.collector - (i - 1) * e
      BY <2>5 DEF s
    <3> QED BY <2>4, <3>1, <3>2, <3>3, SMTT(30)
  <2> QED BY <2>6, <2>7
<1>5. \A i \in 0..n : i \in T
  <2> HIDE DEF T
  <2> QED BY <1>2, <1>3, <1>4, AlongLoop
<1>6. P(n)
  <2>1. n \in T /\ tr[n].ok
    BY <1>1, <1>2, <1>5, SMT
  <2> QED BY <2>1
<1>7. QED
  BY <1>1, <1>6 DEF n

\* The payout takes no more than the fee while the share is at most half.
LEMMA PayoutWithin ==
    ASSUME Laws, NEW st \in State, NEW msgs \in Seq(SdkMsg), NEW fee \in Nat,
           NEW r, r = DevGasPayout(st, msgs, fee), r.ok
    PROVE  /\ Moved(st, r.st)
           /\ AtMostHalf(st.devGasParams)
                => r.st.collector >= st.collector - fee
<1> DEFINE toPay == getWithdrawAddressesFromMsgs(st, msgs)
           share == st.devGasParams.share
           n == Len(toPay)
           e == FeePayLogic(getAllowedFees(st.devGasParams, fee), share, n)
           half == AtMostHalf(st.devGasParams)
<1>1. toPay \in Seq(Addresses) /\ n \in Nat /\ share \in Nat \X (Nat \ {0}) /\ st.collector \in Nat
  <2>1. st.devGasParams \in DevGasParams /\ st.collector \in Nat
    BY DEF State
  <2>2. share \in Nat \X (Nat \ {0})
    BY <2>1 DEF DevGasParams
  <2>3. toPay \in Seq(Addresses)
    BY WithdrawersAre
  <2> HIDE DEF toPay
  <2> QED BY <2>1, <2>2, <2>3, SMT
<1> HIDE DEF toPay
<1>2. CASE r = Passed(st)
  <2>1. r.st = st
    BY <1>2, SMT DEF Passed
  <2>2. Moved(st, st)
    BY DEF Moved, SameCounters, SameShares
  <2>3. st.collector >= st.collector - fee
    BY <1>1, SMT
  <2> QED BY <2>1, <2>2, <2>3
<1>3. CASE r # Passed(st)
  <2>1. toPay # <<>> /\ r = settleFeePayments(st, toPay, fee)
    BY <1>3 DEF DevGasPayout, toPay
  <2>2. n \in Nat \ {0}
    BY <1>1, <2>1, SMT
  <2>3. e \in Nat /\ (half => n * e <= fee)
    <3>1. PICK k \in Nat : \A x \in Nat : getAllowedFees(st.devGasParams, x) = x * k
      BY AllowedTimes DEF State
    <3>2. share[1] \in Nat
      BY <1>1
    <3>3. e = FeePayLogic(fee * k, share, n) /\ (half => 2 * (share[1] * k) <= share[2])
      BY <3>1, <3>2 DEF AtMostHalf
    <3> HIDE DEF share, n, e, half
    <3> QED BY <1>1, <2>2, <3>3, FeePayBounds
  <2> HIDE DEF share, n, e, half
  <2>4. Moved(st, r.st) /\ r.st.collector = st.collector - n * e
    <3>1. e = FeePayLogic(getAllowedFees(st.devGasParams, fee), st.devGasParams.share, Len(toPay))
      BY DEF e, n, share
    <3>2. Moved(st, r.st) /\ r.st.collector = st.collector - Len(toPay) * e
      BY <1>1, <2>1, <2>3, <3>1, PaidOut, SMT
    <3> QED BY <3>2 DEF n
  <2>5. n * e \in Int
    BY <2>2, <2>3, SMT
  <2>6. half => r.st.collector >= st.collector - fee
    <3> DEFINE k == n * e
    <3>1. k \in Int /\ r.st.collector = st.collector - k /\ (half => k <= fee)
      BY <2>3, <2>4, <2>5
    <3> HIDE DEF k
    <3> QED BY <1>1, <3>1, SMT
  <2> QED BY <2>4, <2>6 DEF half
<1>4. QED
  BY <1>2, <1>3

-----------------------------------------------------------------------------

LEMMA TxTypes ==
    ASSUME NEW tx \in Txs
    PROVE  \/ /\ tx.kind = "eth" /\ tx.msgs \in Seq(EthMsg) /\ Signatures(tx) = tx.msgs
           \/ /\ tx.kind = "sdk" /\ tx.from \in Users /\ tx.from \in Addresses /\ tx.fee \in Nat
              /\ tx.gas \in Nat /\ tx.msgs \in Seq(SdkMsg) /\ Signatures(tx) = <<tx>>
<1>1. CASE tx \in EthTxs
  <2>1. tx \in [kind : {"eth"}, msgs : Seq(EthMsg)]
    BY <1>1, TxAssumption
  <2> QED BY <2>1 DEF Signatures
<1>2. CASE tx \in SdkTxs
  <2>1. tx \in [kind : {"sdk"}, from : Users, nonce : Nat, fee : Nat, gas : Nat, msgs : Seq(SdkMsg)]
    BY <1>2, TxAssumption
  <2>2. tx.from \in Addresses
    BY <2>1, AccountAssumption
  <2> QED BY <2>1, <2>2 DEF Signatures
<1>3. QED
  BY <1>1, <1>2 DEF Txs

LEMMA SignaturesCount ==
    ASSUME NEW tx \in Txs, NEW a
    PROVE  SignaturesOf(tx, a) = Count(Signatures(tx), Len(Signatures(tx)), a)
<1>1. DOMAIN Signatures(tx) = 1..Len(Signatures(tx))
  BY TxTypes, SMT
<1>2. QED
  BY <1>1 DEF SignaturesOf, Count

\* The two parts of an ante handler, one after the other.
LEMMA MovedAndUsed ==
    ASSUME NEW st, NEW s, NEW t, NEW tx \in Txs, Moved(st, s), Used(s, t, Signatures(tx)),
           \A i \in 1..Len(Signatures(tx)) : Signatures(tx)[i].from \in Users
    PROVE  AnteDone(st, t, tx) /\ t.collector = s.collector
<1>1. /\ st \in State /\ s \in State /\ t \in State /\ t.collector = s.collector
      /\ t.bank = s.bank /\ t.evm = st.evm /\ s.seq = st.seq /\ Coins(s) = Coins(st)
      /\ SameCounters(st, t) /\ SameShares(st, t)
  BY DEF Moved, Used, Counted, SameCounters, SameShares
<1>2. Coins(t) = Coins(st)
  BY <1>1 DEF Coins
<1>3. \A a \in Addresses : t.seq[a] = st.seq[a] + SignaturesOf(tx, a)
  BY <1>1, SignaturesCount DEF Used
<1>4. \A i \in 1..Len(Signatures(tx)) :
          Signatures(tx)[i].nonce = st.seq[Signatures(tx)[i].from]
                                      + Count(Signatures(tx), i - 1, Signatures(tx)[i].from)
  BY <1>1 DEF Used
<1>5. QED
  BY <1>1, <1>2, <1>3, <1>4 DEF AnteDone

LEMMA EthAnte ==
    ASSUME Laws, NEW st \in State, NEW tx \in Txs, tx.kind = "eth", NEW mode,
           NEW r, r = AnteHandler(st, tx, mode), r.ok
    PROVE  /\ AnteDone(st, r.st, tx)
           /\ mode # "recheck" => r.st.collector = st.collector + SumFunction(Fees(tx.msgs))
<1> DEFINE msgs == tx.msgs
           paid == IF mode = "recheck" THEN Passed(st) ELSE Each(GasConsume, st, msgs)
<1>1. msgs \in Seq(EthMsg) /\ Signatures(tx) = msgs
  BY TxTypes
<1>2. Refused.ok = FALSE
  BY AnswersAre
<1>3. paid.ok /\ r = Each(IncrementSequence, paid.st, msgs)
  BY <1>2 DEF AnteHandler, EthAnteHandler
<1>4. /\ Moved(st, paid.st)
      /\ mode # "recheck" => paid.st.collector = st.collector + SumFunction(Fees(msgs))
  <2>1. CASE mode = "recheck"
    <3>1. paid.st = st
      BY <2>1 DEF Passed
    <3> QED BY <2>1, <3>1 DEF Moved, SameCounters, SameShares
  <2>2. CASE mode # "recheck"
    <3>1. paid = Each(GasConsume, st, msgs)
      BY <2>2
    <3> HIDE DEF paid, msgs
    <3> QED BY <1>1, <1>3, <2>2, <3>1, GasPaid
  <2>3. QED
    BY <2>1, <2>2
<1> HIDE DEF paid
<1>5. Used(paid.st, r.st, msgs)
  <2>1. paid.st \in State
    BY <1>4 DEF Moved
  <2> HIDE DEF msgs
  <2> QED BY <1>1, <1>3, <2>1, SequencesUsed
<1>6. \A i \in 1..Len(Signatures(tx)) : Signatures(tx)[i].from \in Users
  BY <1>1, PriceType, SMT
<1>7. AnteDone(st, r.st, tx) /\ r.st.collector = paid.st.collector
  BY <1>1, <1>4, <1>5, <1>6, MovedAndUsed, ZenonT(60)
<1>8. QED
  BY <1>4, <1>7

LEMMA SdkAnte ==
    ASSUME Laws, NEW st \in State, NEW tx \in Txs, tx.kind = "sdk", NEW mode,
           NEW r, r = AnteHandler(st, tx, mode), r.ok
    PROVE  /\ AnteDone(st, r.st, tx)
           /\ AtMostHalf(st.devGasParams)
                => r.st.collector >= st.collector
<1> DEFINE paid == DeductFees(st, tx.from, tx.fee)
           shared == DevGasPayout(paid.st, tx.msgs, tx.fee)
<1>1. tx.from \in Users /\ tx.from \in Addresses /\ tx.fee \in Nat /\ tx.msgs \in Seq(SdkMsg)
      /\ Signatures(tx) = <<tx>>
  BY TxTypes
<1>2. Refused.ok = FALSE
  BY AnswersAre
<1>3. paid.ok /\ shared.ok /\ r = IncrementSequence(shared.st, tx) /\ r # Refused /\ paid # Refused
  BY <1>2 DEF AnteHandler, AnteHandlerNonEVM
<1>4. Moved(st, paid.st) /\ paid.st.collector = st.collector + tx.fee
  <2>1. paid = DeductFees(st, tx.from, tx.fee)
    OBVIOUS
  <2> HIDE DEF paid
  <2> QED BY <1>1, <1>3, <2>1, DeductFeesIs, SMT
<1> HIDE DEF paid
<1>5. /\ Moved(paid.st, shared.st)
      /\ AtMostHalf(paid.st.devGasParams)
           => shared.st.collector >= paid.st.collector - tx.fee
  <2>1. paid.st \in State /\ shared = DevGasPayout(paid.st, tx.msgs, tx.fee)
    BY <1>4 DEF Moved
  <2> HIDE DEF shared
  <2> QED BY <1>1, <1>3, <2>1, PayoutWithin
<1> HIDE DEF shared
<1>6. Moved(st, shared.st)
  BY <1>4, <1>5, MovedTwice
<1> DEFINE s == shared.st
           t == r.st
<1>7. /\ Counted(s, t) /\ tx.nonce = s.seq[tx.from] /\ s \in State
      /\ t.seq = [s.seq EXCEPT ![tx.from] = s.seq[tx.from] + 1]
  <2>1. s \in State
    BY <1>6 DEF Moved
  <2>2. r = IncrementSequence(s, tx)
    BY <1>3
  <2> HIDE DEF s
  <2> QED BY <1>1, <1>3, <2>1, <2>2, IncrementSequenceIs, SMT
<1>8. Used(s, t, <<tx>>)
  <2>1. Len(<<tx>>) = 1 /\ <<tx>>[1] = tx
    OBVIOUS
  <2>2. \A a : Count(<<tx>>, 1, a) = (IF tx.from = a THEN 1 ELSE 0) /\ Count(<<tx>>, 0, a) = 0
    <3> SUFFICES ASSUME NEW a
                 PROVE  Count(<<tx>>, 1, a) = (IF tx.from = a THEN 1 ELSE 0) /\ Count(<<tx>>, 0, a) = 0
      OBVIOUS
    <3>1. Count(<<tx>>, 0, a) = 0
      BY CountNone
    <3> DEFINE sigs == <<tx>>
    <3>2. sigs[1].from = tx.from
      BY <2>1
    <3> HIDE DEF sigs
    <3>3. Count(sigs, 1, a) = Count(sigs, 1 - 1, a) + (IF sigs[1].from = a THEN 1 ELSE 0)
      BY CountNext, SMT
    <3>4. Count(sigs, 1 - 1, a) = 0
      BY <3>1, SMT DEF sigs
    <3> QED BY <3>1, <3>2, <3>3, <3>4, SMT DEF sigs
  <2>3. \A a \in Addresses : t.seq[a] = s.seq[a] + Count(<<tx>>, 1, a)
    <3> SUFFICES ASSUME NEW a \in Addresses PROVE t.seq[a] = s.seq[a] + Count(<<tx>>, 1, a)
      OBVIOUS
    <3>1. t.seq[a] = IF a = tx.from THEN s.seq[a] + 1 ELSE s.seq[a]
      <4>1. s.seq \in [Addresses -> Nat]
        BY <1>7 DEF State
      <4> HIDE DEF s, t
      <4> QED BY <1>1, <1>7, <4>1
    <3>2. s.seq[a] \in Nat
      BY <1>7 DEF State
    <3>3. Count(<<tx>>, 1, a) = IF tx.from = a THEN 1 ELSE 0
      BY <2>2
    <3> QED BY <3>1, <3>2, <3>3, SMT
  <2>4. tx.nonce = s.seq[tx.from] + Count(<<tx>>, 0, tx.from)
    <3>1. s.seq[tx.from] \in Nat
      BY <1>1, <1>7 DEF State
    <3> QED BY <1>7, <2>2, <3>1, SMT
  <2> HIDE DEF s, t
  <2>5. \A i \in 1..1 : <<tx>>[i].nonce = s.seq[<<tx>>[i].from] + Count(<<tx>>, i - 1, <<tx>>[i].from)
    <3>1. \A i \in 1..1 : i = 1 /\ i - 1 = 0
      BY SMT
    <3> QED BY <2>1, <2>4, <3>1
  <2> QED BY <1>7, <2>1, <2>3, <2>5 DEF Used
<1>9. AnteDone(st, t, tx) /\ t.collector = s.collector
  <2>1. \A i \in 1..Len(Signatures(tx)) : Signatures(tx)[i].from \in Users
    BY <1>1, SMT
  <2>2. Moved(st, s) /\ Used(s, t, Signatures(tx))
    BY <1>1, <1>6, <1>8
  <2> HIDE DEF s, t
  <2> QED BY <2>1, <2>2, MovedAndUsed
<1>10. AtMostHalf(st.devGasParams) => t.collector >= st.collector
  <2>1. paid.st.devGasParams = st.devGasParams
    BY <1>4 DEF Moved, SameShares
  <2>2. st.collector \in Nat /\ s.collector \in Nat
    BY <1>7 DEF State
  <2> QED BY <1>1, <1>4, <1>5, <1>9, <2>1, <2>2, SMT
<1>11. QED
  BY <1>9, <1>10

\* What the writes of an account answer, with the state in any case.
Written == [ok : BOOLEAN, st : State]

\* From s to t nothing but sequences, balances and the coins of x/evm has changed.
Wrote(s, t) ==
    /\ s \in State /\ t \in State /\ t.collector = s.collector
    /\ SameCounters(s, t) /\ SameShares(s, t)

LEMMA WroteTwice ==
    ASSUME NEW s, NEW t, NEW u, Wrote(s, t), Wrote(t, u)
    PROVE  Wrote(s, u)
  BY DEF Wrote, SameCounters, SameShares

Objects == [addr : Addresses, nonce : Nat, balance : Nat]

\* What the writes of one account have done.
AccountDone(st, obj, r) ==
    /\ r \in Written /\ Wrote(st, r.st)
    /\ r.st.seq = [st.seq EXCEPT ![obj.addr] = obj.nonce]
    /\ obj.addr \notin Blocked \/ obj.balance <= st.bank[obj.addr]
         => /\ r.ok /\ r.st.evm = st.evm
            /\ r.st.bank = [st.bank EXCEPT ![obj.addr] = obj.balance]

LEMMA CommitAccountIs ==
    ASSUME NEW st \in State, NEW obj \in Objects
    PROVE  AccountDone(st, obj, CommitAccount(st, obj))
<1> DEFINE a == obj.addr
           k == obj.balance
           s == [st EXCEPT !.seq[obj.addr] = obj.nonce]
           r == CommitAccount(st, obj)
<1>1. a \in Addresses /\ k \in Nat /\ obj.nonce \in Nat
  BY DEF Objects
<1>2. /\ st.seq \in [Addresses -> Nat] /\ st.bank \in [Addresses -> Nat] /\ st.evm \in Nat
      /\ [st.seq EXCEPT ![a] = obj.nonce] \in [Addresses -> Nat]
  BY <1>1 DEF State
<1>3. s \in State
  BY <1>2 DEF State
<1>4. /\ s.seq = [st.seq EXCEPT ![a] = obj.nonce] /\ s.bank = st.bank /\ s.evm = st.evm
      /\ s.collector = st.collector /\ SameCounters(st, s) /\ SameShares(st, s)
  BY DEF State, SameCounters, SameShares
<1>5. r = SetAccBalance(s, a, k)
  BY DEF CommitAccount
<1> HIDE DEF s, a, k, r
<1> DEFINE t == [s EXCEPT !.bank[a] = k]
           u == [s EXCEPT !.evm = @ + k - s.bank[a]]
<1>6. CASE k <= s.bank[a] \/ a \notin Blocked
  <2>1. r = Passed(t)
    BY <1>5, <1>6 DEF SetAccBalance
  <2>2. [s.bank EXCEPT ![a] = k] \in [Addresses -> Nat]
    BY <1>1, <1>2, <1>4
  <2>3. t \in State
    BY <1>3, <2>2, SMTT(30) DEF State
  <2>4. /\ t.bank = [s.bank EXCEPT ![a] = k] /\ t.seq = s.seq /\ t.evm = s.evm
        /\ t.collector = s.collector /\ SameCounters(s, t) /\ SameShares(s, t)
    BY <1>3 DEF State, SameCounters, SameShares
  <2> HIDE DEF t
  <2>5. r.st = t /\ r.ok /\ r \in Written
    BY <2>1, <2>3 DEF Passed, Written
  <2>6. Wrote(st, t)
    BY <1>4, <2>3, <2>4 DEF Wrote, SameCounters, SameShares
  <2> QED BY <1>4, <2>4, <2>5, <2>6 DEF a, k, r, AccountDone
<1>7. CASE ~(k <= s.bank[a] \/ a \notin Blocked)
  <2>1. r = [ok |-> FALSE, st |-> u]
    BY <1>5, <1>7 DEF SetAccBalance
  <2>2. s.evm + k - s.bank[a] \in Nat
    BY <1>1, <1>2, <1>4, <1>7, SMT
  <2>3. u \in State
    BY <1>3, <2>2 DEF State
  <2>4. /\ u.seq = s.seq /\ u.collector = s.collector /\ SameCounters(s, u) /\ SameShares(s, u)
    BY <1>3 DEF State, SameCounters, SameShares
  <2> HIDE DEF u
  <2>5. r.st = u /\ r \in Written
    BY <2>1, <2>3 DEF Written
  <2>6. Wrote(st, u)
    BY <1>4, <2>3, <2>4 DEF Wrote, SameCounters, SameShares
  <2> QED BY <1>4, <1>7, <2>4, <2>5, <2>6 DEF a, k, r, AccountDone
<1>8. QED
  BY <1>6, <1>7 DEF r

\* The loop of StateDB.Commit, account by account.
LEMMA CommitTrace ==
    ASSUME Laws, NEW st \in State, NEW objs \in Seq(Objects)
    PROVE  \E tr \in [0..Len(objs) -> Written] :
              /\ tr[0] = Passed(st) /\ tr[Len(objs)] = Each(CommitAccount, st, objs)
              /\ \A i \in 1..Len(objs) :
                    tr[i] = IF tr[i - 1].ok THEN CommitAccount(tr[i - 1].st, objs[i]) ELSE tr[i - 1]
<1> DEFINE n == Len(objs)
           Step(x, i) == IF x.ok THEN CommitAccount(x.st, objs[i]) ELSE x
           F == [i \in 1..n |-> [x \in Written |-> Step(x, i)]]
           b == Passed(st)
           Body(g, s) == IF s = {} THEN b ELSE Step(g[s \ {Max(s)}], Max(s))
           h == CHOOSE g : g = [s \in SUBSET (1..n) |-> Body(g, s)]
<1>1. n \in Nat /\ DOMAIN objs = 1..n /\ \A i \in 1..n : objs[i] \in Objects
  BY SMT
<1>2. Each(CommitAccount, st, objs) = h[1..n]
  BY <1>1 DEF Each, ForEach, MapThenFoldSet
<1>3. ASSUME NEW x \in Written, NEW i \in 1..n PROVE Step(x, i) \in Written
  <2>1. x.st \in State /\ objs[i] \in Objects
    BY <1>1 DEF Written
  <2>2. CommitAccount(x.st, objs[i]) \in Written
    BY <2>1, CommitAccountIs DEF AccountDone
  <2> QED BY <2>2
<1>4. /\ \A i \in 1..n : \A x \in Written : F[i][x] = Step(x, i)
      /\ StaysIn(F, Written, 1..n) /\ b \in Written
  BY <1>3 DEF StaysIn, Written, Passed
<1> HIDE DEF n, F, b, Step
<1>5. PICK g : Solves(F, b, Written, 1..n, g)
  BY <1>1, <1>4, LoopSolution
<1>6. ASSUME NEW f, NEW s \in SUBSET (1..n), s # {} /\ f[s \ {Max(s)}] \in Written
      PROVE  Step(f[s \ {Max(s)}], Max(s)) = F[Max(s)][f[s \ {Max(s)}]]
  BY <1>1, <1>4, <1>6, LastOfLoop
<1>7. g = [s \in SUBSET (1..n) |-> Body(g, s)]
  <2>1. ASSUME NEW s \in SUBSET (1..n) PROVE LoopRec(F, b, g, s) = Body(g, s)
    BY <1>5, <1>6 DEF LoopRec, Solves
  <2> HIDE DEF Body
  <2> QED BY <1>5, <2>1 DEF Solves
<1>8. h = [s \in SUBSET (1..n) |-> Body(h, s)]
  <2> HIDE DEF Body
  <2> QED BY <1>7
<1> HIDE DEF h
<1>9. Follows(F, b, Written, n, h)
  <2>1. \A s \in SUBSET (1..n) : h[s] = Body(h, s)
    <3> HIDE DEF Body
    <3> QED BY <1>8
  <2> QED BY <1>6, <2>1 DEF Follows
<1>10. PICK tr : RunsThrough(F, b, Written, n, h[1..n], tr)
  BY <1>1, <1>4, <1>9, LoopStates
<1>11. ASSUME NEW i \in 1..n PROVE tr[i] = Step(tr[i - 1], i)
  <2>1. i - 1 \in 0..n
    BY <1>1, SMT
  <2> QED BY <1>4, <1>10, <2>1 DEF RunsThrough
<1>12. QED
  BY <1>2, <1>10, <1>11 DEF n, Step, b, RunsThrough

\* The order in which Commit takes the dirty accounts.
ByAddress(objs) ==
    CHOOSE s \in [1..Cardinality(objs) -> objs] :
        \A i, j \in DOMAIN s : i < j => s[i].addr < s[j].addr

LEMMA ListOf ==
    ASSUME NEW S, NEW n \in Nat, NEW s \in [1..n -> S]
    PROVE  s \in Seq(S) /\ Len(s) = n
<1>1. s \in Seq(S)
  BY SMT
<1>2. DOMAIN s = 1..n
  OBVIOUS
<1>3. QED
  BY <1>1, <1>2, SMT

LEMMA OneByAddress ==
    ASSUME Laws, NEW x \in Objects
    PROVE  LET s == ByAddress({x}) IN s \in Seq(Objects) /\ Len(s) = 1 /\ s[1] = x
<1> DEFINE w == [i \in 1..1 |-> x]
<1>1. Cardinality({x}) = 1
  BY CardinalityOne
<1>2. w \in [1..1 -> {x}] /\ \A i, j \in DOMAIN w : i < j => w[i].addr < w[j].addr
  BY SMT
<1> HIDE DEF w
<1>3. \E s \in [1..1 -> {x}] : \A i, j \in DOMAIN s : i < j => s[i].addr < s[j].addr
  BY <1>2
<1>4. ByAddress({x}) \in [1..1 -> {x}]
  BY <1>1, <1>3 DEF ByAddress
<1> DEFINE s == ByAddress({x})
<1> HIDE DEF s
<1>5. s \in [1..1 -> {x}]
  BY <1>4 DEF s
<1>6. s[1] = x /\ s \in [1..1 -> Objects]
  BY <1>5, SMT
<1>7. s \in Seq(Objects) /\ Len(s) = 1
  BY <1>6, ListOf, 1 \in Nat
<1>8. QED
  BY <1>6, <1>7 DEF s

LEMMA TwoByAddress ==
    ASSUME Laws, NEW x \in Objects, NEW y \in Objects, x.addr # y.addr
    PROVE  LET s == ByAddress({x, y})
           IN  s \in Seq(Objects) /\ Len(s) = 2 /\ <<s[1], s[2]>> \in {<<x, y>>, <<y, x>>}
<1> DEFINE Ascends(s) == \A i, j \in DOMAIN s : i < j => s[i].addr < s[j].addr
           w == [i \in 1..2 |-> IF x.addr < y.addr THEN (IF i = 1 THEN x ELSE y)
                                                   ELSE (IF i = 1 THEN y ELSE x)]
<1>1. Cardinality({x, y}) = 2
  <2>1. x # y
    OBVIOUS
  <2>2. IsFiniteSet({x}) /\ Cardinality({x}) = 1 /\ y \notin {x} /\ {x} \cup {y} = {x, y}
    BY <2>1, CardinalityOne
  <2>3. Cardinality({x} \cup {y}) = Cardinality({x}) + 1
    BY <2>2, CardinalityAdd
  <2> QED BY <2>2, <2>3, SMT
<1>2. x.addr \in Int /\ y.addr \in Int
  BY AccountAssumption DEF Objects
<1>3. w \in [1..2 -> {x, y}] /\ Ascends(w)
  <2>1. w \in [1..2 -> {x, y}] /\ DOMAIN w = 1..2
    OBVIOUS
  <2>2. w[1].addr < w[2].addr
    BY <1>2, SMT
  <2>3. \A i, j \in 1..2 : i < j => i = 1 /\ j = 2
    BY SMT
  <2> QED BY <2>1, <2>2, <2>3
<1> HIDE DEF w
<1>4. \E s \in [1..2 -> {x, y}] : Ascends(s)
  BY <1>3
<1>5. ByAddress({x, y}) \in [1..2 -> {x, y}] /\ Ascends(ByAddress({x, y}))
  BY <1>1, <1>4 DEF ByAddress
<1> DEFINE s == ByAddress({x, y})
<1> HIDE DEF s
<1>6. s \in [1..2 -> {x, y}] /\ Ascends(s)
  BY <1>5 DEF s
<1>7. s[1] \in {x, y} /\ s[2] \in {x, y} /\ s[1].addr < s[2].addr
  BY <1>6, SMT
<1>8. s[1] # s[2]
  BY <1>2, <1>7, SMT
<1>9. s \in Seq(Objects) /\ Len(s) = 2
  <2>1. s \in [1..2 -> Objects]
    BY <1>6
  <2> QED BY <2>1, ListOf, 2 \in Nat
<1>10. <<s[1], s[2]>> \in {<<x, y>>, <<y, x>>}
  BY <1>7, <1>8
<1>11. QED
  BY <1>9, <1>10 DEF s

\* Commit of one account, and of two.
LEMMA CommitOne ==
    ASSUME Laws, NEW st \in State, NEW s \in Seq(Objects), Len(s) = 1
    PROVE  Each(CommitAccount, st, s) = CommitAccount(st, s[1])
<1>1. PICK tr \in [0..Len(s) -> Written] :
              /\ tr[0] = Passed(st) /\ tr[Len(s)] = Each(CommitAccount, st, s)
              /\ \A i \in 1..Len(s) :
                    tr[i] = IF tr[i - 1].ok THEN CommitAccount(tr[i - 1].st, s[i]) ELSE tr[i - 1]
  BY CommitTrace
<1>2. tr[1] = IF tr[0].ok THEN CommitAccount(tr[0].st, s[1]) ELSE tr[0]
  <2>1. 1 \in 1..Len(s) /\ 1 - 1 = 0
    BY SMT
  <2> QED BY <1>1, <2>1
<1>3. tr[0].ok /\ tr[0].st = st
  BY <1>1, SMT DEF Passed
<1>4. QED
  BY <1>1, <1>2, <1>3

LEMMA CommitTwo ==
    ASSUME Laws, NEW st \in State, NEW s \in Seq(Objects), Len(s) = 2,
           NEW c, c = CommitAccount(st, s[1])
    PROVE  Each(CommitAccount, st, s) = IF c.ok THEN CommitAccount(c.st, s[2]) ELSE c
<1>1. PICK tr \in [0..Len(s) -> Written] :
              /\ tr[0] = Passed(st) /\ tr[Len(s)] = Each(CommitAccount, st, s)
              /\ \A i \in 1..Len(s) :
                    tr[i] = IF tr[i - 1].ok THEN CommitAccount(tr[i - 1].st, s[i]) ELSE tr[i - 1]
  BY CommitTrace
<1>2. 1 \in 1..Len(s) /\ 2 \in 1..Len(s) /\ 1 - 1 = 0 /\ 2 - 1 = 1
  BY SMT
<1>3. tr[1] = IF tr[0].ok THEN CommitAccount(tr[0].st, s[1]) ELSE tr[0]
  BY <1>1, <1>2
<1>4. tr[2] = IF tr[1].ok THEN CommitAccount(tr[1].st, s[2]) ELSE tr[1]
  BY <1>1, <1>2
<1>5. tr[0].ok /\ tr[0].st = st
  BY <1>1, SMT DEF Passed
<1>6. QED
  BY <1>1, <1>3, <1>4, <1>5

LEMMA BankSet ==
    ASSUME Laws, NEW b \in [Addresses -> Nat], NEW a \in Addresses, NEW n \in Nat,
           NEW c, c = [b EXCEPT ![a] = n]
    PROVE  SumFunction(b) \in Nat /\ SumFunction(c) = SumFunction(b) - b[a] + n
BY BankUpdate, ZenonT(60)

\* What the writes of two accounts have done.
PairDone(st, x, y, r) ==
    /\ r \in Written /\ Wrote(st, r.st)
    /\ /\ x.addr \notin Blocked \/ x.balance <= st.bank[x.addr]
       /\ y.addr \notin Blocked \/ y.balance <= st.bank[y.addr]
       => /\ r.ok /\ r.st.evm = st.evm
          /\ r.st.seq = [st.seq EXCEPT ![x.addr] = x.nonce, ![y.addr] = y.nonce]
          /\ SumFunction(r.st.bank)
               = SumFunction(st.bank) - st.bank[x.addr] + x.balance - st.bank[y.addr] + y.balance

LEMMA CommitPair ==
    ASSUME Laws, NEW st \in State, NEW x \in Objects, NEW y \in Objects, x.addr # y.addr,
           NEW s \in Seq(Objects), Len(s) = 2, s[1] = x /\ s[2] = y, NEW r,
           r = Each(CommitAccount, st, s)
    PROVE  PairDone(st, x, y, r)
<1> DEFINE c == CommitAccount(st, x)
           e == c.st
           d == CommitAccount(e, y)
           p == x.addr
           q == y.addr
           b0 == st.bank
           b1 == e.bank
           b2 == d.st.bank
<1>1. r = IF c.ok THEN d ELSE c
  BY CommitTwo
<1>2. /\ c \in Written /\ Wrote(st, e)
      /\ e.seq = [st.seq EXCEPT ![p] = x.nonce]
      /\ p \notin Blocked \/ x.balance <= b0[p]
           => /\ c.ok /\ e.evm = st.evm
              /\ b1 = [b0 EXCEPT ![p] = x.balance]
  BY CommitAccountIs DEF AccountDone
<1>3. e \in State /\ b0 \in [Addresses -> Nat] /\ st.seq \in [Addresses -> Nat]
      /\ p \in Addresses /\ q \in Addresses /\ p # q /\ x.balance \in Nat /\ y.balance \in Nat
  BY <1>2 DEF Wrote, Objects, State
<1> HIDE DEF e
<1>4. /\ d \in Written /\ Wrote(e, d.st)
      /\ d.st.seq = [e.seq EXCEPT ![q] = y.nonce]
      /\ q \notin Blocked \/ y.balance <= b1[q]
           => /\ d.ok /\ d.st.evm = e.evm
              /\ b2 = [b1 EXCEPT ![q] = y.balance]
  <2>1. e \in State
    BY <1>3
  <2>2. AccountDone(e, y, d)
    BY <2>1, CommitAccountIs
  <2> HIDE DEF d
  <2> QED BY <2>2 DEF AccountDone
<1> HIDE DEF d, c
<1>5. r \in Written /\ Wrote(st, r.st)
  <2>1. CASE c.ok
    BY <1>1, <1>2, <1>4, <2>1, WroteTwice
  <2>2. CASE ~c.ok
    BY <1>1, <1>2, <2>2 DEF e
  <2> QED BY <2>1, <2>2
<1> HIDE DEF p, q, b0, b1, b2
<1>6. ASSUME p \notin Blocked \/ x.balance <= b0[p], q \notin Blocked \/ y.balance <= b0[q]
      PROVE  /\ r.ok /\ r.st.evm = st.evm
             /\ r.st.seq = [st.seq EXCEPT ![p] = x.nonce, ![q] = y.nonce]
             /\ SumFunction(r.st.bank) = SumFunction(b0) - b0[p] + x.balance - b0[q] + y.balance
  <2>1. c.ok /\ e.evm = st.evm /\ b1 = [b0 EXCEPT ![p] = x.balance]
    BY <1>2, <1>6
  <2>2. b1[q] = b0[q] /\ b1 \in [Addresses -> Nat]
    BY <1>3, <2>1
  <2>3. d.ok /\ d.st.evm = e.evm /\ b2 = [b1 EXCEPT ![q] = y.balance]
    BY <1>4, <1>6, <2>2
  <2>4. r = d
    BY <1>1, <2>1
  <2>5. r.st.seq = [st.seq EXCEPT ![p] = x.nonce, ![q] = y.nonce]
    BY <1>2, <1>3, <1>4, <2>4
  <2>6. SumFunction(b0) \in Nat /\ SumFunction(b1) = SumFunction(b0) - b0[p] + x.balance
    <3>1. b0 \in [Addresses -> Nat] /\ p \in Addresses /\ x.balance \in Nat
      BY <1>3
    <3> QED BY <3>1, <2>1, BankSet, ZenonT(60)
  <2>7. SumFunction(b2) = SumFunction(b1) - b1[q] + y.balance
    <3>1. b1 \in [Addresses -> Nat] /\ q \in Addresses /\ y.balance \in Nat
      BY <1>3, <2>2
    <3> QED BY <3>1, <2>3, BankSet, ZenonT(60)
  <2>8. r.ok /\ r.st.evm = st.evm /\ r.st.bank = b2
    BY <2>1, <2>3, <2>4 DEF b2
  <2>9. b0[p] \in Nat /\ b0[q] \in Nat
    BY <1>3
  <2>10. SumFunction(b2) = SumFunction(b0) - b0[p] + x.balance - b0[q] + y.balance
    BY <1>3, <2>2, <2>6, <2>7, <2>9, SMT
  <2> QED BY <2>5, <2>8, <2>10
<1>7. QED
  BY <1>5, <1>6 DEF p, q, b0, PairDone

\* What the commit of the accounts that a message made dirty has done: when the
\* recipient may receive coins, the sequence is that after the message and the coins
\* are still all there.
CommitDone(st, r, m) ==
    /\ r \in Written /\ Wrote(st, r.st)
    /\ m.to \notin Blocked => /\ r.ok /\ r.st.evm = st.evm
                             /\ r.st.seq = [st.seq EXCEPT ![m.from] = m.nonce + 1]
                             /\ SumFunction(r.st.bank) = SumFunction(st.bank)

LEMMA DirtyAre ==
    ASSUME NEW st \in State, NEW m \in EthMsg, NEW n \in Nat, n <= st.bank[m.from]
    PROVE  \E x \in Objects :
              /\ x.addr = m.from /\ x.nonce = m.nonce + 1
              /\ \/ Dirty(st, m, n) = {x} /\ x.balance = st.bank[m.from]
                 \/ /\ m.to # m.from
                    /\ x.balance = st.bank[m.from] - n
                    /\ \E y \in Objects : /\ y.addr = m.to /\ y.nonce = st.seq[m.to]
                                          /\ y.balance = st.bank[m.to] + n
                                          /\ Dirty(st, m, n) = {x, y}
<1> DEFINE f == m.from
           b(a) == st.bank[a] - (IF a = f THEN n ELSE 0) + (IF a = m.to THEN n ELSE 0)
           obj(a) == [addr |-> a, nonce |-> IF a = f THEN m.nonce + 1 ELSE st.seq[a],
                      balance |-> b(a)]
<1>1. /\ f \in Addresses /\ m.to \in Addresses /\ m.nonce \in Nat
      /\ st.bank[f] \in Nat /\ st.bank[m.to] \in Nat /\ st.seq[m.to] \in Nat
  BY AccountAssumption DEF EthMsg, State
<1>2. b(f) \in Nat /\ b(m.to) \in Nat
  BY <1>1, SMT
<1>3. obj(f) \in Objects /\ obj(m.to) \in Objects
  BY <1>1, <1>2, SMT DEF Objects
<1>4. Dirty(st, m, n) = {obj(a) : a \in IF n > 0 THEN {f, m.to} ELSE {f}}
  BY DEF Dirty
<1>5. CASE n = 0 \/ m.to = f
  <2>1. Dirty(st, m, n) = {obj(f)}
    BY <1>4, <1>5, SMT
  <2>2. obj(f).balance = st.bank[f]
    BY <1>1, <1>5, SMT
  <2> QED BY <1>3, <2>1, <2>2
<1>6. CASE n # 0 /\ m.to # f
  <2>1. Dirty(st, m, n) = {obj(f), obj(m.to)}
    BY <1>4, <1>6, SMT
  <2>2. /\ obj(f).balance = st.bank[f] - n /\ obj(m.to).balance = st.bank[m.to] + n
        /\ obj(m.to).nonce = st.seq[m.to]
    BY <1>1, <1>6, SMT
  <2> QED BY <1>3, <1>6, <2>1, <2>2
<1>7. QED
  BY <1>5, <1>6

\* The commit of what an Ethereum message made dirty.
LEMMA CommitDirty ==
    ASSUME Laws, NEW st \in State, NEW m \in EthMsg, NEW n \in Nat, n <= st.bank[m.from]
    PROVE  CommitDone(st, Commit(st, Dirty(st, m, n)), m)
<1>1. PICK x \in Objects :
              /\ x.addr = m.from /\ x.nonce = m.nonce + 1
              /\ \/ Dirty(st, m, n) = {x} /\ x.balance = st.bank[m.from]
                 \/ /\ m.to # m.from
                    /\ x.balance = st.bank[m.from] - n
                    /\ \E y \in Objects : /\ y.addr = m.to /\ y.nonce = st.seq[m.to]
                                          /\ y.balance = st.bank[m.to] + n
                                          /\ Dirty(st, m, n) = {x, y}
  BY DirtyAre
<1> DEFINE r == Commit(st, Dirty(st, m, n))
           s == ByAddress(Dirty(st, m, n))
           f == m.from
<1>2. r = Each(CommitAccount, st, s)
  BY DEF Commit, ByAddress
<1>3. /\ f \in Addresses /\ m.to \in Addresses /\ f \notin Blocked
      /\ st.bank \in [Addresses -> Nat] /\ st.seq \in [Addresses -> Nat]
  BY AccountAssumption DEF EthMsg, State
<1> HIDE DEF r, s
<1>4. CASE Dirty(st, m, n) = {x} /\ x.balance = st.bank[f]
  <2>1. s \in Seq(Objects) /\ Len(s) = 1 /\ s[1] = x
    BY <1>4, OneByAddress DEF s
  <2>2. r = CommitAccount(st, x)
    BY <1>2, <2>1, CommitOne
  <2>3. AccountDone(st, x, r)
    BY <2>2, CommitAccountIs
  <2>4. r.st.bank = st.bank /\ r.ok /\ r.st.evm = st.evm
    <3>1. r.ok /\ r.st.evm = st.evm /\ r.st.bank = [st.bank EXCEPT ![f] = st.bank[f]]
      <4>1. x.addr = f /\ x.addr \notin Blocked /\ x.balance = st.bank[f]
        BY <1>1, <1>3, <1>4
      <4> QED BY <2>3, <4>1 DEF AccountDone
    <3>2. [st.bank EXCEPT ![f] = st.bank[f]] = st.bank
      BY <1>3
    <3> QED BY <3>1, <3>2
  <2> QED BY <1>1, <2>3, <2>4 DEF AccountDone, CommitDone, r
<1>5. CASE ~(Dirty(st, m, n) = {x} /\ x.balance = st.bank[f])
  <2>1. PICK y \in Objects : /\ y.addr = m.to /\ y.nonce = st.seq[m.to]
                             /\ y.balance = st.bank[m.to] + n /\ m.to # f
                             /\ x.balance = st.bank[f] - n
                             /\ Dirty(st, m, n) = {x, y}
    BY <1>1, <1>5
  <2>2. s \in Seq(Objects) /\ Len(s) = 2 /\ <<s[1], s[2]>> \in {<<x, y>>, <<y, x>>}
    BY <1>1, <2>1, TwoByAddress, SMT DEF s
  <2> DEFINE Done ==
        /\ r.ok /\ r.st.evm = st.evm
        /\ r.st.seq = [st.seq EXCEPT ![f] = x.nonce]
        /\ SumFunction(r.st.bank) = SumFunction(st.bank)
  <2>3. SumFunction(st.bank) \in Nat
    BY <1>3, BankUpdate, 0 \in Nat
  <2>4. ASSUME s[1] = x, s[2] = y
        PROVE  r \in Written /\ Wrote(st, r.st) /\ (m.to \notin Blocked => Done)
    <3>1. PairDone(st, x, y, r)
      BY <1>1, <1>2, <2>1, <2>2, <2>4, CommitPair
    <3>2. ASSUME m.to \notin Blocked PROVE Done
      <4>1. x.addr = f /\ y.addr = m.to /\ x.addr \notin Blocked /\ y.addr \notin Blocked
        BY <1>1, <1>3, <2>1, <3>2
      <4>2. /\ r.ok /\ r.st.evm = st.evm
            /\ r.st.seq = [st.seq EXCEPT ![f] = x.nonce, ![m.to] = st.seq[m.to]]
            /\ SumFunction(r.st.bank) = SumFunction(st.bank) - st.bank[f] + x.balance - st.bank[m.to] + y.balance
        BY <2>1, <3>1, <4>1 DEF PairDone
      <4>3. [st.seq EXCEPT ![f] = x.nonce, ![m.to] = st.seq[m.to]] = [st.seq EXCEPT ![f] = x.nonce]
        BY <1>3, <2>1
      <4>4. SumFunction(st.bank) - st.bank[f] + x.balance - st.bank[m.to] + y.balance = SumFunction(st.bank)
        BY <1>3, <2>1, <2>3, SMT
      <4> QED BY <4>2, <4>3, <4>4
    <3> QED BY <3>1, <3>2 DEF PairDone
  <2>5. ASSUME s[1] = y, s[2] = x
        PROVE  r \in Written /\ Wrote(st, r.st) /\ (m.to \notin Blocked => Done)
    <3>1. PairDone(st, y, x, r)
      BY <1>1, <1>2, <2>1, <2>2, <2>5, CommitPair
    <3>2. ASSUME m.to \notin Blocked PROVE Done
      <4>1. x.addr = f /\ y.addr = m.to /\ x.addr \notin Blocked /\ y.addr \notin Blocked
        BY <1>1, <1>3, <2>1, <3>2
      <4>2. /\ r.ok /\ r.st.evm = st.evm
            /\ r.st.seq = [st.seq EXCEPT ![m.to] = st.seq[m.to], ![f] = x.nonce]
            /\ SumFunction(r.st.bank) = SumFunction(st.bank) - st.bank[m.to] + y.balance - st.bank[f] + x.balance
        BY <2>1, <3>1, <4>1 DEF PairDone
      <4>3. [st.seq EXCEPT ![m.to] = st.seq[m.to], ![f] = x.nonce] = [st.seq EXCEPT ![f] = x.nonce]
        BY <1>3, <2>1
      <4>4. SumFunction(st.bank) - st.bank[m.to] + y.balance - st.bank[f] + x.balance = SumFunction(st.bank)
        BY <1>3, <2>1, <2>3, SMT
      <4> QED BY <4>2, <4>3, <4>4
    <3> QED BY <3>1, <3>2 DEF PairDone
  <2>6. r \in Written /\ Wrote(st, r.st) /\ (m.to \notin Blocked => Done)
    BY <2>2, <2>4, <2>5
  <2> QED BY <1>1, <2>6 DEF CommitDone, r
<1>6. QED
  BY <1>1, <1>4, <1>5

\* What ApplyEvmMsg has done when it answers.
Applied(st, q, m) ==
    /\ q.ok /\ q.gasUsed \in 0..m.gas /\ q.logs \in Nat /\ q.commitErr \in BOOLEAN
    /\ Wrote(st, q.st)
    /\ m.to \notin Blocked => /\ q.st.evm = st.evm
                             /\ q.st.seq = [st.seq EXCEPT ![m.from] = m.nonce + 1]
                             /\ SumFunction(q.st.bank) = SumFunction(st.bank)

\* gasToRefund leaves at least nothing to pay.
LEMMA RefundWithin ==
    ASSUME NEW a \in Nat, NEW u \in Nat
    PROVE  u - gasToRefund(a, u) \in 0..u /\ gasToRefund(a, u) \in Nat
<1>1. RefundQuotient \in Nat \ {0}
  BY FeeAssumption
<1> DEFINE d == u \div RefundQuotient
<1>2. d \in Nat /\ RefundQuotient * d <= u
  BY <1>1, Quotient
<1>3. d <= RefundQuotient * d
  <2> HIDE DEF d
  <2>1. RefundQuotient - 1 \in Nat /\ RefundQuotient * d = (RefundQuotient - 1) * d + d
    BY <1>1, <1>2, SMT
  <2>2. (RefundQuotient - 1) * d \in Nat
    BY <1>2, <2>1, SMT
  <2> QED BY <1>2, <2>1, <2>2, SMT
<1>4. RefundQuotient * d \in Int
  BY <1>1, <1>2, SMT
<1>5. d <= u
  <2> DEFINE p == RefundQuotient * d
  <2>1. p \in Int /\ d <= p /\ p <= u /\ d \in Nat
    BY <1>2, <1>3, <1>4
  <2> HIDE DEF p, d
  <2> QED BY <2>1, SMT
<1> HIDE DEF d
<1>6. gasToRefund(a, u) \in 0..u
  <2>1. gasToRefund(a, u) = AtMost(a, d)
    BY DEF gasToRefund, d
  <2> QED BY <1>2, <1>5, <2>1, SMT DEF AtMost
<1>7. QED
  BY <1>6, SMT

LEMMA ApplyEvmMsgIs ==
    ASSUME Laws, NEW st \in State, NEW m \in EthMsg, NEW o \in Outcomes,
           o.used <= AtLeast(m.gas, Intrinsic), NEW q, q = ApplyEvmMsg(st, m, o)
    PROVE  q = Refused \/ Applied(st, q, m)
<1> DEFINE n == WeiToNative(m.value)
           poor == n > st.bank[m.from]
           failed == poor \/ o.failed
           used == IF poor THEN Intrinsic ELSE o.used
           moved == IF failed THEN 0 ELSE n
           refund == IF poor THEN 0 ELSE o.refund
           c == Commit(st, Dirty(st, m, moved))
           logs == IF failed THEN 0 ELSE o.logs
<1>1. o.used \in Nat /\ o.logs \in Nat /\ o.refund \in Nat
  BY TxAssumption
<1>2. m.gas \in Nat /\ m.value \in Nat /\ st.bank[m.from] \in Nat /\ Intrinsic \in Nat
      /\ WeiPerUnibi \in Nat \ {0}
  BY FeeAssumption, AccountAssumption DEF EthMsg, State
<1>3. n \in Nat
  BY <1>2, Quotient DEF WeiToNative
<1>4. CASE m.gas < Intrinsic \/ (m.value > 0 /\ n = 0)
  BY <1>4 DEF ApplyEvmMsg
<1>5. CASE ~(m.gas < Intrinsic \/ (m.value > 0 /\ n = 0))
  <2> DEFINE over == m.gas - used + gasToRefund(refund, used) > m.gas
  <2>1. q = [ok |-> TRUE, st |-> IF over THEN st ELSE c.st, commitErr |-> over \/ ~c.ok,
             gasUsed |-> IF over THEN m.gas ELSE used - gasToRefund(refund, used),
             logs |-> logs, vmErr |-> failed]
    BY <1>5 DEF ApplyEvmMsg
  <2> HIDE DEF n
  <2>2. moved \in Nat /\ moved <= st.bank[m.from] /\ logs \in Nat /\ used \in Nat /\ refund \in Nat
    BY <1>1, <1>2, <1>3, SMT
  <2>3. used <= m.gas
    BY <1>1, <1>2, <1>5, SMT DEF AtLeast
  <2> HIDE DEF moved, used, refund, failed, logs, poor
  <2>4. CommitDone(st, c, m)
    BY <2>2, CommitDirty
  <2>5. used - gasToRefund(refund, used) \in 0..used /\ gasToRefund(refund, used) \in Nat
    BY <2>2, RefundWithin
  <2>9. ~over
    BY <1>2, <2>2, <2>5, SMT
  <2> HIDE DEF c, over
  <2>6. q.gasUsed \in 0..m.gas
    <3> DEFINE g == used - gasToRefund(refund, used)
    <3>1. g \in 0..used /\ q.gasUsed = g
      BY <2>1, <2>5, <2>9, SMT
    <3> HIDE DEF g
    <3> QED BY <1>2, <2>2, <2>3, <3>1, SMT
  <2>7. q.ok /\ q.logs \in Nat /\ q.commitErr \in BOOLEAN /\ q.st = c.st
    BY <2>1, <2>2, <2>4, <2>9, SMT DEF CommitDone, Written
  <2>8. QED
    BY <2>4, <2>6, <2>7 DEF Applied, CommitDone
<1>6. QED
  BY <1>4, <1>5

\* What EthereumTx has done when it answers r.
EthDone(st, r, m) ==
    /\ r.ok /\ st \in State /\ r.st \in State /\ r.gasUsed \in 0..m.gas /\ r.logs \in Nat
    /\ r.commitErr \in BOOLEAN /\ SameShares(st, r.st)
    /\ r.st.txIndex = st.txIndex + 1 /\ r.st.logSize = st.logSize + r.logs
    /\ r.st.bloom = st.bloom \cup (IF r.logs = 0 THEN {} ELSE {[from |-> m.from, nonce |-> m.nonce]})
    /\ r.st.collector
         = st.collector - WeiToNative((m.gas - r.gasUsed) * EffectiveGasPriceWei(m))
    /\ m.to \notin Blocked => /\ r.st.evm = st.evm /\ Coins(r.st) = Coins(st)
                             /\ r.st.seq = [st.seq EXCEPT ![m.from] = m.nonce + 1]

LogsAdded(s, t, sig, k) ==
    /\ t \in State /\ t.seq = s.seq /\ t.bank = s.bank /\ t.evm = s.evm
    /\ t.collector = s.collector /\ SameShares(s, t) /\ t.txIndex = s.txIndex
    /\ t.logSize = s.logSize + k /\ t.bloom = s.bloom \cup (IF k = 0 THEN {} ELSE {sig})

LEMMA Logged ==
    ASSUME NEW s \in State, NEW sig \in [from : Users, nonce : Nat], NEW k \in Nat
    PROVE  LogsAdded(s, updateBlockBloom(s, sig, k), sig, k)
<1> DEFINE t == updateBlockBloom(s, sig, k)
<1>1. CASE k = 0
  <2>1. t = s
    BY <1>1 DEF updateBlockBloom
  <2>2. s.logSize \in Nat
    BY DEF State
  <2> HIDE DEF t
  <2>3. LogsAdded(s, t, sig, k)
    BY <1>1, <2>1, <2>2, SMT DEF SameShares, LogsAdded
  <2> QED BY <2>3 DEF t
<1>2. CASE k # 0
  <2>1. t = [s EXCEPT !.bloom = @ \cup {sig}, !.logSize = @ + k]
    BY <1>2 DEF updateBlockBloom
  <2> HIDE DEF t
  <2>2. s.bloom \cup {sig} \in SUBSET [from : Users, nonce : Nat] /\ s.logSize + k \in Nat
    BY SMT DEF State
  <2>3. t \in State
    BY <2>1, <2>2 DEF State
  <2>4. /\ t.bloom = s.bloom \cup {sig} /\ t.logSize = s.logSize + k /\ t.txIndex = s.txIndex
        /\ t.seq = s.seq /\ t.bank = s.bank /\ t.evm = s.evm
        /\ t.collector = s.collector /\ SameShares(s, t)
    BY <2>1 DEF State, SameShares
  <2>5. LogsAdded(s, t, sig, k)
    BY <1>2, <2>3, <2>4 DEF LogsAdded
  <2> QED BY <2>5 DEF t
<1>3. QED
  BY <1>1, <1>2

\* RefundGas moves coins of the collector, or nothing.
LEMMA RefundGasIs ==
    ASSUME Laws, NEW st \in State, NEW a \in Addresses, NEW n \in Nat,
           NEW r, r = RefundGas(st, a, n), r.ok
    PROVE  Moved(st, r.st) /\ r.st.collector = st.collector - n
<1>1. CASE n = 0
  <2>1. r.st = st /\ st.collector \in Nat
    BY <1>1, SMT DEF RefundGas, Passed, State
  <2>2. Moved(st, st)
    BY DEF Moved, SameCounters, SameShares
  <2> QED BY <1>1, <2>1, <2>2, SMT
<1>2. CASE n # 0
  <2>1. r = SendFromCollector(st, a, n) /\ r # Refused
    BY <1>2, AnswersAre DEF RefundGas
  <2>2. Moved(st, r.st) /\ r.st.collector = st.collector - n
    BY <2>1, SendFromCollectorIs, SMT
  <2> QED BY <2>2
<1>3. QED
  BY <1>1, <1>2

LEMMA AnsweredIs ==
    ASSUME Laws, NEW st \in State, NEW m \in EthMsg, NEW q, Applied(st, q, m),
           NEW used \in Nat, NEW r, r = Answered(st, m, q, used)
    PROVE  used + r.gasUsed \in Nat /\ (r.ok = FALSE \/ EthDone(st, r, m))
<1> DEFINE sig == [from |-> m.from, nonce |-> m.nonce]
           t == updateBlockBloom(q.st, sig, q.logs)
           w == WeiToNative((m.gas - q.gasUsed) * EffectiveGasPriceWei(m))
           u == RefundGas(t, m.from, w)
<1>1. /\ m.gas \in Nat /\ m.from \in Addresses /\ EffectiveGasPriceWei(m) \in Nat
      /\ sig \in [from : Users, nonce : Nat]
  BY PriceType DEF EthMsg
<1>2. q.gasUsed \in 0..m.gas /\ q.logs \in Nat /\ q.st \in State
  BY DEF Applied, Wrote
<1>3. w \in Nat
  <2>1. WeiPerUnibi \in Nat \ {0}
    BY FeeAssumption
  <2>2. m.gas - q.gasUsed \in Nat
    BY <1>1, <1>2, SMT
  <2>3. (m.gas - q.gasUsed) * EffectiveGasPriceWei(m) \in Nat
    BY <1>1, <2>2, SMT
  <2> QED BY <2>1, <2>3, Quotient DEF WeiToNative
<1>4. /\ t \in State /\ t.seq = q.st.seq /\ t.bank = q.st.bank /\ t.evm = q.st.evm
      /\ t.collector = q.st.collector /\ SameShares(q.st, t) /\ t.txIndex = q.st.txIndex
      /\ t.logSize = q.st.logSize + q.logs
      /\ t.bloom = q.st.bloom \cup (IF q.logs = 0 THEN {} ELSE {sig})
  <2>1. LogsAdded(q.st, t, sig, q.logs)
    <3> HIDE DEF sig
    <3> QED BY <1>1, <1>2, Logged
  <2> HIDE DEF t, sig
  <2> QED BY <2>1 DEF LogsAdded
<1>5. r = IF ~q.ok THEN [ok |-> FALSE, gasUsed |-> 0]
          ELSE IF ~SafeConsumeGas(used, q.gasUsed) THEN [ok |-> FALSE, gasUsed |-> 0 - used]
          ELSE IF ~u.ok THEN [ok |-> FALSE, gasUsed |-> q.gasUsed]
          ELSE [ok |-> TRUE, st |-> [u.st EXCEPT !.txIndex = st.txIndex + 1],
                gasUsed |-> q.gasUsed, logs |-> q.logs, commitErr |-> q.commitErr]
  BY DEF Answered
<1> HIDE DEF t, w, sig
<1>6. q.ok
  BY DEF Applied
<1>10. CASE ~SafeConsumeGas(used, q.gasUsed)
  <2>1. r = [ok |-> FALSE, gasUsed |-> 0 - used]
    BY <1>5, <1>6, <1>10
  <2> QED BY <2>1, SMT
<1>7. CASE SafeConsumeGas(used, q.gasUsed) /\ ~u.ok
  <2> HIDE DEF u
  <2> QED BY <1>1, <1>2, <1>5, <1>6, <1>7, SMT
<1>8. CASE SafeConsumeGas(used, q.gasUsed) /\ u.ok
  <2>1. Moved(t, u.st) /\ u.st.collector = t.collector - w
    <3>1. u = RefundGas(t, m.from, w) /\ u.ok
      BY <1>8
    <3> HIDE DEF u
    <3> QED BY <1>1, <1>3, <1>4, <3>1, RefundGasIs, SMT
  <2> HIDE DEF u
  <2> DEFINE v == [u.st EXCEPT !.txIndex = st.txIndex + 1]
  <2>2. r = [ok |-> TRUE, st |-> v, gasUsed |-> q.gasUsed, logs |-> q.logs, commitErr |-> q.commitErr]
    BY <1>5, <1>6, <1>8
  <2>3. u.st \in State /\ st.txIndex + 1 \in Nat
    <3>1. u.st \in State
      BY <2>1 DEF Moved
    <3>2. st.txIndex + 1 \in Nat
      BY SMT DEF State
    <3> QED BY <3>1, <3>2
  <2>4. v \in State
    BY <2>3 DEF State
  <2>5. /\ v.txIndex = st.txIndex + 1 /\ v.seq = u.st.seq /\ v.bank = u.st.bank
        /\ v.collector = u.st.collector /\ v.evm = u.st.evm /\ v.logSize = u.st.logSize
        /\ v.bloom = u.st.bloom /\ SameShares(u.st, v)
    BY <2>3 DEF State, SameShares
  <2> HIDE DEF v
  <2>6. /\ r.ok /\ r.st = v /\ r.gasUsed = q.gasUsed /\ r.logs = q.logs /\ r.commitErr = q.commitErr
    BY <2>2, SMT
  <2>7. /\ SameShares(st, v) /\ v.logSize = st.logSize + q.logs
        /\ v.bloom = st.bloom \cup (IF q.logs = 0 THEN {} ELSE {sig})
        /\ v.collector = st.collector - w
        /\ v.seq = q.st.seq /\ v.evm = q.st.evm
    <3>1. /\ SameShares(st, q.st) /\ q.st.logSize = st.logSize /\ q.st.bloom = st.bloom
          /\ q.st.collector = st.collector
      BY DEF Applied, Wrote, SameCounters
    <3>2. /\ u.st.seq = t.seq /\ u.st.evm = t.evm /\ u.st.logSize = t.logSize
          /\ u.st.bloom = t.bloom /\ SameShares(t, u.st)
      BY <2>1 DEF Moved, SameCounters
    <3>3. SameShares(st, v)
      BY <1>4, <2>5, <3>1, <3>2 DEF SameShares
    <3> QED BY <1>4, <2>1, <2>5, <3>1, <3>2, <3>3
  <2>8. ASSUME m.to \notin Blocked
        PROVE  /\ v.evm = st.evm /\ Coins(v) = Coins(st)
               /\ v.seq = [st.seq EXCEPT ![m.from] = m.nonce + 1]
    <3>1. /\ q.st.evm = st.evm /\ q.st.seq = [st.seq EXCEPT ![m.from] = m.nonce + 1]
          /\ SumFunction(q.st.bank) = SumFunction(st.bank) /\ q.st.collector = st.collector
      BY <2>8 DEF Applied, Wrote
    <3>2. Coins(v) = Coins(u.st) /\ Coins(u.st) = Coins(t) /\ Coins(t) = Coins(q.st)
      BY <1>4, <2>1, <2>5 DEF Coins, Moved
    <3>3. Coins(q.st) = Coins(st)
      BY <3>1 DEF Coins
    <3> QED BY <2>7, <3>1, <3>2, <3>3
  <2>9. q.commitErr \in BOOLEAN
    BY DEF Applied
  <2>10. used + q.gasUsed \in Nat
    BY <1>1, <1>2, SMT
  <2> QED BY <1>2, <2>4, <2>5, <2>6, <2>7, <2>8, <2>9, <2>10 DEF EthDone, w, sig
<1>9. QED
  BY <1>7, <1>8, <1>10

LEMMA EthereumTxIs ==
    ASSUME Laws, NEW st \in State, NEW m \in EthMsg, NEW o \in Outcomes,
           o.used <= AtLeast(m.gas, Intrinsic), NEW used \in Nat,
           NEW r, r = EthereumTx(st, m, o, used)
    PROVE  used + r.gasUsed \in Nat /\ (r.ok = FALSE \/ EthDone(st, r, m))
<1> DEFINE q == ApplyEvmMsg(st, m, o)
<1>1. r = Answered(st, m, q, used)
  BY DEF EthereumTx
<1>2. q = Refused \/ Applied(st, q, m)
  BY ApplyEvmMsgIs
<1> HIDE DEF q
<1>3. CASE q = Refused
  <2>1. r = [ok |-> FALSE, gasUsed |-> 0]
    BY <1>1, <1>3 DEF Answered, Refused
  <2> QED BY <2>1, SMT
<1>4. CASE Applied(st, q, m)
  BY <1>1, <1>4, AnsweredIs
<1>5. QED
  BY <1>2, <1>3, <1>4

LEMMA SetFeeShare ==
    ASSUME NEW st \in State, NEW c \in Contracts, NEW a \in Addresses \cup {None},
           NEW r, r = Refused \/ r = Passed([st EXCEPT !.feeShare[c] = a])
    PROVE  r = Refused \/ (r.ok /\ Handled(st, r.st))
<1> DEFINE t == [st EXCEPT !.feeShare[c] = a]
<1>1. [st.feeShare EXCEPT ![c] = a] \in [Contracts -> Addresses \cup {None}]
  BY DEF State
<1>2. t \in State
  BY <1>1 DEF State
<1>3. Handled(st, t)
  BY <1>2, SMTT(30) DEF Handled, SameCounters, State
<1> HIDE DEF t
<1>4. QED
  BY <1>3, SMT DEF Passed, t

LEMMA SetAdmin ==
    ASSUME NEW st \in State, NEW c \in Contracts, NEW a \in Addresses \cup {None},
           NEW r, r = Refused \/ r = Passed([st EXCEPT !.admin[c] = a])
    PROVE  r = Refused \/ (r.ok /\ Handled(st, r.st))
<1> DEFINE t == [st EXCEPT !.admin[c] = a]
<1>1. [st.admin EXCEPT ![c] = a] \in [Contracts -> Addresses \cup {None}]
  BY DEF State
<1>2. t \in State
  BY <1>1 DEF State
<1>3. Handled(st, t)
  BY <1>2 DEF Handled, SameCounters, State
<1> HIDE DEF t
<1>4. QED
  BY <1>3, SMT DEF Passed, t

LEMMA HandleIs ==
    ASSUME NEW st \in State, NEW sender, NEW m \in SdkMsg, NEW o, NEW r,
           r = Handle(st, sender, m, o)
    PROVE  r = Refused \/ (r.ok /\ Handled(st, r.st))
<1>1. m.contract \in Contracts
  BY DEF SdkMsg
<1>2. CASE m.type = "Execute"
  <2>1. r = Refused \/ r = Passed(st)
    BY <1>2 DEF Handle
  <2>2. Handled(st, st)
    BY DEF Handled, SameCounters
  <2> QED BY <2>1, <2>2, SMT DEF Passed
<1>3. CASE m.type \in {"RegisterFeeShare", "UpdateFeeShare"}
  <2>1. m.withdrawer \in Addresses
    BY <1>3 DEF SdkMsg
  <2>2. r = Refused \/ r = Passed([st EXCEPT !.feeShare[m.contract] = m.withdrawer])
    BY <1>3 DEF Handle, RegisterFeeShare, UpdateFeeShare
  <2> DEFINE c == m.contract
             a == m.withdrawer
  <2>3. c \in Contracts /\ a \in Addresses \cup {None}
        /\ (r = Refused \/ r = Passed([st EXCEPT !.feeShare[c] = a]))
    BY <1>1, <2>1, <2>2
  <2> HIDE DEF c, a
  <2> QED BY <2>3, SetFeeShare
<1>4. CASE m.type = "CancelFeeShare"
  <2>1. r = Refused \/ r = Passed([st EXCEPT !.feeShare[m.contract] = None])
    BY <1>4 DEF Handle, CancelFeeShare
  <2> DEFINE c == m.contract
  <2>2. c \in Contracts /\ None \in Addresses \cup {None}
        /\ (r = Refused \/ r = Passed([st EXCEPT !.feeShare[c] = None]))
    BY <1>1, <2>1
  <2> HIDE DEF c
  <2> QED BY <2>2, SetFeeShare
<1>5. CASE m.type = "UpdateAdmin"
  <2>1. m.admin \in Addresses \cup {None}
    BY <1>5 DEF SdkMsg
  <2>2. r = Refused \/ r = Passed([st EXCEPT !.admin[m.contract] = m.admin])
    BY <1>5 DEF Handle, UpdateAdmin
  <2> DEFINE c == m.contract
             a == m.admin
  <2>3. c \in Contracts /\ a \in Addresses \cup {None}
        /\ (r = Refused \/ r = Passed([st EXCEPT !.admin[c] = a]))
    BY <1>1, <2>1, <2>2
  <2> HIDE DEF c, a
  <2> QED BY <2>3, SetAdmin
<1>6. QED
  BY <1>2, <1>3, <1>4, <1>5 DEF SdkMsg

-----------------------------------------------------------------------------

ReceiptOf(s, m, r) ==
    [from |-> m.from, nonce |-> m.nonce, txIndex |-> s.txIndex, logIndex |-> s.logSize,
     logs |-> r.logs, gasUsed |-> r.gasUsed, commitErr |-> r.commitErr]

RunStep(tx, os, acc, i) ==
    LET e == EthereumTx(acc.st, tx.msgs[i], os[i], acc.gas)
        h == Handle(acc.st, tx.from, tx.msgs[i], os[i])
    IN  IF ~acc.ok THEN acc
        ELSE IF tx.kind = "eth"
        THEN IF e.ok
             THEN [ok |-> TRUE, st |-> e.st, gas |-> acc.gas + e.gasUsed,
                   receipts |-> Append(acc.receipts, ReceiptOf(acc.st, tx.msgs[i], e))]
             ELSE [acc EXCEPT !.ok = FALSE, !.gas = @ + e.gasUsed]
        ELSE IF h.ok THEN [acc EXCEPT !.st = h.st, !.gas = tx.gas]
             ELSE [acc EXCEPT !.ok = FALSE, !.gas = tx.gas]

Ran(tx, acc, new, i) ==
    /\ new \in Runs
    /\ new.ok => /\ acc.ok
                 /\ tx.kind = "eth" => \E rc \in Receipt : /\ EthStep(acc.st, new.st, tx.msgs[i], rc)
                                                          /\ new.receipts = Append(acc.receipts, rc)
                 /\ tx.kind = "sdk" => /\ Handled(acc.st, new.st)
                                       /\ new.receipts = acc.receipts

LEMMA RunStepIs ==
    ASSUME Laws, NEW tx \in Txs, NEW os \in Possible(tx), NEW acc \in Runs, NEW i \in 1..Len(tx.msgs)
    PROVE  Ran(tx, acc, RunStep(tx, os, acc, i), i)
<1> DEFINE new == RunStep(tx, os, acc, i)
<1>1. acc.st \in State /\ acc.gas \in Nat /\ acc.receipts \in Seq(Receipt) /\ acc.ok \in BOOLEAN
  BY DEF Runs
<1>2. DOMAIN tx.msgs = 1..Len(tx.msgs)
  BY TxTypes, SMT
<1>3. os \in [DOMAIN tx.msgs -> Outcomes]
  BY DEF Possible
<1>4. os[i] \in Outcomes
  BY <1>2, <1>3
<1>5. CASE ~acc.ok
  <2>1. new = acc
    BY <1>5 DEF RunStep
  <2> HIDE DEF new
  <2>2. Ran(tx, acc, new, i)
    BY <1>5, <2>1 DEF Ran
  <2> QED BY <2>2 DEF new
<1>6. CASE acc.ok /\ tx.kind = "eth"
  <2> DEFINE m == tx.msgs[i]
             e == EthereumTx(acc.st, m, os[i], acc.gas)
             rc == ReceiptOf(acc.st, m, e)
  <2>1. m \in EthMsg
    BY <1>6, TxTypes, SMT
  <2>2. os[i].used <= AtLeast(m.gas, Intrinsic)
    BY <1>2, <1>3, <1>6 DEF Possible
  <2>3. acc.gas + e.gasUsed \in Nat /\ (e.ok = FALSE \/ EthDone(acc.st, e, m))
    <3> HIDE DEF m
    <3> QED BY <1>1, <1>4, <2>1, <2>2, EthereumTxIs
  <2>4. new = IF e.ok THEN [ok |-> TRUE, st |-> e.st, gas |-> acc.gas + e.gasUsed,
                            receipts |-> Append(acc.receipts, rc)]
              ELSE [acc EXCEPT !.ok = FALSE, !.gas = @ + e.gasUsed]
    BY <1>6 DEF RunStep
  <2> HIDE DEF new, e
  <2>5. CASE e.ok = FALSE
    <3> DEFINE g == acc.gas + e.gasUsed
    <3>3. new = [acc EXCEPT !.ok = FALSE, !.gas = g] /\ g \in Nat
      BY <1>1, <2>3, <2>4, <2>5, SMT DEF Runs
    <3> HIDE DEF g
    <3>1. new \in Runs /\ new.ok = FALSE
      BY <1>1, <3>3 DEF Runs
    <3>2. Ran(tx, acc, new, i)
      BY <3>1 DEF Ran
    <3> QED BY <3>2 DEF new
  <2>6. CASE EthDone(acc.st, e, m)
    <3> HIDE DEF m
    <3>1. e.ok /\ e.st \in State /\ e.logs \in Nat /\ e.commitErr \in BOOLEAN
      BY <2>6 DEF EthDone
    <3>0. e.gasUsed \in Nat
      <4>1. m.gas \in Nat /\ e.gasUsed \in 0..m.gas
        BY <2>1, <2>6 DEF EthDone, EthMsg
      <4> QED BY <4>1, SMT
    <3>2. m.from \in Users /\ m.nonce \in Nat /\ acc.st.txIndex \in Nat /\ acc.st.logSize \in Nat
      BY <1>1, <2>1 DEF EthMsg, State
    <3>3. /\ rc \in Receipt /\ rc.from = m.from /\ rc.nonce = m.nonce /\ rc.logs = e.logs
          /\ rc.txIndex = acc.st.txIndex /\ rc.logIndex = acc.st.logSize /\ rc.gasUsed = e.gasUsed
      BY <3>0, <3>1, <3>2 DEF Receipt, ReceiptOf
    <3> HIDE DEF rc
    <3>4. new = [ok |-> TRUE, st |-> e.st, gas |-> acc.gas + e.gasUsed,
                 receipts |-> Append(acc.receipts, rc)]
      BY <2>4, <3>1
    <3>5. /\ new \in Runs /\ new.st = e.st /\ new.receipts = Append(acc.receipts, rc)
      BY <1>1, <2>3, <3>1, <3>3, <3>4, SMT DEF Runs
    <3>6. EthStep(acc.st, e.st, m, rc)
      BY <2>6, <3>3 DEF EthDone, EthStep
    <3>7. EthStep(acc.st, new.st, m, rc) /\ new.receipts = Append(acc.receipts, rc)
      BY <3>5, <3>6
    <3>8. tx.kind # "sdk"
      BY <1>6
    <3>9. Ran(tx, acc, new, i)
      BY <1>6, <3>3, <3>5, <3>7, <3>8 DEF Ran, m
    <3> QED BY <3>9 DEF new
  <2>7. QED
    BY <2>3, <2>5, <2>6
<1>7. CASE acc.ok /\ tx.kind = "sdk"
  <2> DEFINE m == tx.msgs[i]
             h == Handle(acc.st, tx.from, m, os[i])
  <2>1. m \in SdkMsg /\ tx.gas \in Nat
    BY <1>7, TxTypes, SMT
  <2>2. h = Refused \/ (h.ok /\ Handled(acc.st, h.st))
    <3> HIDE DEF m
    <3> QED BY <1>1, <2>1, HandleIs
  <2>3. new = IF h.ok THEN [acc EXCEPT !.st = h.st, !.gas = tx.gas]
              ELSE [acc EXCEPT !.ok = FALSE, !.gas = tx.gas]
    BY <1>7 DEF RunStep
  <2> HIDE DEF new, h, m
  <2>4. CASE h = Refused
    <3>1. new = [acc EXCEPT !.ok = FALSE, !.gas = tx.gas]
      BY <2>3, <2>4 DEF Refused
    <3>2. new \in Runs /\ new.ok = FALSE
      BY <1>1, <2>1, <3>1 DEF Runs
    <3>3. Ran(tx, acc, new, i)
      BY <3>2 DEF Ran
    <3> QED BY <3>3 DEF new
  <2>5. CASE h.ok /\ Handled(acc.st, h.st)
    <3>1. new = [acc EXCEPT !.st = h.st, !.gas = tx.gas]
      BY <2>3, <2>5
    <3>2. h.st \in State
      BY <2>5 DEF Handled
    <3>3. new \in Runs /\ new.st = h.st /\ new.receipts = acc.receipts
      BY <1>1, <2>1, <3>1, <3>2 DEF Runs
    <3>4. tx.kind # "eth"
      BY <1>7
    <3>5. Ran(tx, acc, new, i)
      BY <1>7, <2>5, <3>3, <3>4 DEF Ran
    <3> QED BY <3>5 DEF new
  <2>6. QED
    BY <2>2, <2>4, <2>5
<1>8. tx.kind \in {"eth", "sdk"}
  BY TxTypes
<1>9. QED
  BY <1>1, <1>5, <1>6, <1>7, <1>8

\* The loop of runMsgs, message by message.
LEMMA RunTrace ==
    ASSUME Laws, NEW st \in State, NEW tx \in Txs, NEW os \in Possible(tx)
    PROVE  \E tr \in [0..Len(tx.msgs) -> Runs] :
              /\ tr[0] = [ok |-> TRUE, st |-> st, gas |-> 0, receipts |-> <<>>] /\ tr[Len(tx.msgs)] = RunMsgs(st, tx, os)
              /\ \A i \in 1..Len(tx.msgs) :
                    tr[i] = RunStep(tx, os, tr[i - 1], i)
<1> DEFINE n == Len(tx.msgs)
           Step(x, i) == RunStep(tx, os, x, i)
           F == [i \in 1..n |-> [x \in Runs |-> Step(x, i)]]
           b == [ok |-> TRUE, st |-> st, gas |-> 0, receipts |-> <<>>]
           ids == [i \in DOMAIN tx.msgs |-> i]
           Body(g, s) == IF s = {} THEN b ELSE Step(g[s \ {Max(s)}], ids[Max(s)])
           h == CHOOSE g : g = [s \in SUBSET (1..n) |-> Body(g, s)]
<1>1. n \in Nat /\ DOMAIN tx.msgs = 1..n
  BY TxTypes, SMT
<1>2. RunMsgs(st, tx, os) = h[1..n]
  BY <1>1 DEF RunMsgs, ForEach, MapThenFoldSet, RunStep, ReceiptOf
<1>3. ASSUME NEW x \in Runs, NEW i \in 1..n PROVE Step(x, i) \in Runs
  BY <1>1, RunStepIs DEF Ran
<1>4. /\ \A i \in 1..n : \A x \in Runs : F[i][x] = Step(x, i)
      /\ StaysIn(F, Runs, 1..n) /\ b \in Runs
  <2>1. b \in Runs
    BY SMT DEF Runs
  <2> QED BY <1>3, <2>1 DEF StaysIn
<1>13. \A i \in 1..n : ids[i] = i
  BY <1>1
<1> HIDE DEF n, F, b, Step, ids
<1>5. PICK g : Solves(F, b, Runs, 1..n, g)
  BY <1>1, <1>4, LoopSolution
<1>6. ASSUME NEW f, NEW s \in SUBSET (1..n), s # {} /\ f[s \ {Max(s)}] \in Runs
      PROVE  Step(f[s \ {Max(s)}], ids[Max(s)]) = F[Max(s)][f[s \ {Max(s)}]]
  BY <1>1, <1>4, <1>6, <1>13, LastOfLoop
<1>7. g = [s \in SUBSET (1..n) |-> Body(g, s)]
  <2>1. ASSUME NEW s \in SUBSET (1..n) PROVE LoopRec(F, b, g, s) = Body(g, s)
    BY <1>5, <1>6 DEF LoopRec, Solves
  <2> HIDE DEF Body
  <2> QED BY <1>5, <2>1 DEF Solves
<1>8. h = [s \in SUBSET (1..n) |-> Body(h, s)]
  <2> HIDE DEF Body
  <2> QED BY <1>7
<1> HIDE DEF h
<1>9. Follows(F, b, Runs, n, h)
  <2>1. \A s \in SUBSET (1..n) : h[s] = Body(h, s)
    <3> HIDE DEF Body
    <3> QED BY <1>8
  <2> QED BY <1>6, <2>1 DEF Follows
<1>10. PICK tr : RunsThrough(F, b, Runs, n, h[1..n], tr)
  BY <1>1, <1>4, <1>9, LoopStates
<1>11. ASSUME NEW i \in 1..n PROVE tr[i] = Step(tr[i - 1], i)
  <2>1. i - 1 \in 0..n
    BY <1>1, SMT
  <2> QED BY <1>4, <1>10, <2>1 DEF RunsThrough
<1>12. QED
  BY <1>2, <1>10, <1>11 DEF n, Step, b, RunsThrough

LEMMA RunType ==
    ASSUME Laws, NEW st \in State, NEW tx \in Txs, NEW os \in Possible(tx)
    PROVE  RunMsgs(st, tx, os) \in Runs
<1> DEFINE n == Len(tx.msgs)
<1>1. PICK tr \in [0..n -> Runs] : tr[n] = RunMsgs(st, tx, os)
  BY RunTrace
<1>2. n \in Nat
  BY TxTypes, SMT
<1> HIDE DEF n
<1>3. n \in 0..n
  BY <1>2, SMT
<1>4. QED
  BY <1>1, <1>3

LEMMA EthRun ==
    ASSUME Laws, NEW st \in State, NEW tx \in Txs, tx.kind = "eth", NEW os \in Possible(tx),
           NEW run, run = RunMsgs(st, tx, os), run.ok
    PROVE  EthRan(st, run.st, tx.msgs, run.receipts)
<1> DEFINE n == Len(tx.msgs)
<1>1. PICK tr \in [0..n -> Runs] :
              /\ tr[0] = [ok |-> TRUE, st |-> st, gas |-> 0, receipts |-> <<>>]
              /\ tr[n] = RunMsgs(st, tx, os)
              /\ \A i \in 1..n : tr[i] = RunStep(tx, os, tr[i - 1], i)
  BY RunTrace
<1>2. n \in Nat /\ n \in 0..n
  BY TxTypes, SMT
<1> HIDE DEF n
<1> DEFINE P(i) == /\ tr[i].receipts \in Seq(Receipt) /\ Len(tr[i].receipts) = i
                   /\ \A j \in 1..i : EthStep(tr[j - 1].st, tr[j].st, tx.msgs[j], tr[i].receipts[j])
           T == {i \in 0..n : tr[i].ok => P(i)}
<1>3. 0 \in T
  <2>1. tr[0].receipts = <<>> /\ 0 \in 0..n /\ \A j \in 1..0 : FALSE
    BY <1>1, <1>2, SMT
  <2>2. <<>> \in Seq(Receipt) /\ Len(<<>>) = 0
    BY SMT
  <2>3. P(0)
    BY <2>1, <2>2
  <2> QED BY <2>1, <2>3
<1>4. ASSUME NEW i \in 1..n, i - 1 \in T PROVE i \in T
  <2>1. i \in 0..n /\ i - 1 \in 0..n /\ tr[i - 1] \in Runs /\ i \in Nat
    BY <1>1, <1>2, SMT
  <2> SUFFICES ASSUME tr[i].ok PROVE P(i)
    BY <2>1
  <2>2. Ran(tx, tr[i - 1], tr[i], i)
    <3>1. tr[i] = RunStep(tx, os, tr[i - 1], i)
      BY <1>1
    <3> QED BY <2>1, <3>1, RunStepIs DEF n
  <2> DEFINE x == tr[i - 1].receipts
             y == tr[i].receipts
  <2>3. tr[i - 1].ok /\ \E rc \in Receipt : /\ EthStep(tr[i - 1].st, tr[i].st, tx.msgs[i], rc)
                                            /\ y = Append(x, rc)
    BY <2>2 DEF Ran
  <2>4. P(i - 1)
    BY <1>4, <2>3
  <2>5. PICK rc \in Receipt : EthStep(tr[i - 1].st, tr[i].st, tx.msgs[i], rc) /\ y = Append(x, rc)
    BY <2>3
  <2> HIDE DEF x, y
  <2>6. x \in Seq(Receipt) /\ Len(x) = i - 1
    BY <2>4 DEF x
  <2>7. y \in Seq(Receipt) /\ Len(y) = i /\ y[i] = rc /\ \A j \in 1..(i - 1) : y[j] = x[j]
    BY <2>1, <2>5, <2>6, SMT
  <2>8. ASSUME NEW j \in 1..i PROVE EthStep(tr[j - 1].st, tr[j].st, tx.msgs[j], y[j])
    <3>1. CASE j = i
      BY <2>5, <2>7, <3>1
    <3>2. CASE j \in 1..(i - 1)
      BY <2>4, <2>7, <3>2 DEF x
    <3> QED BY <2>1, <3>1, <3>2, SMT
  <2> QED BY <2>7, <2>8 DEF y
<1>5. \A i \in 0..n : i \in T
  <2> HIDE DEF T
  <2> QED BY <1>2, <1>3, <1>4, AlongLoop
<1>6. P(n) /\ tr[n] = run
  BY <1>1, <1>2, <1>5
<1> DEFINE S == [i \in 0..n |-> tr[i].st]
<1>7. S \in [0..n -> State]
  BY <1>1 DEF Runs
<1>8. S[0] = st /\ S[n] = run.st
  BY <1>1, <1>2, <1>6, SMT
<1>9. \A i \in 1..n : EthStep(S[i - 1], S[i], tx.msgs[i], run.receipts[i])
  <2>1. \A i \in 1..n : S[i - 1] = tr[i - 1].st /\ S[i] = tr[i].st
    BY <1>2, SMT
  <2> HIDE DEF S
  <2> QED BY <1>6, <2>1
<1> HIDE DEF S
<1>10. QED
  BY <1>6, <1>7, <1>8, <1>9 DEF EthRan, n

LEMMA SdkRun ==
    ASSUME Laws, NEW st \in State, NEW tx \in Txs, tx.kind = "sdk", NEW os \in Possible(tx),
           NEW run, run = RunMsgs(st, tx, os), run.ok
    PROVE  Handled(st, run.st) /\ run.receipts = <<>>
<1> DEFINE n == Len(tx.msgs)
<1>1. PICK tr \in [0..n -> Runs] :
              /\ tr[0] = [ok |-> TRUE, st |-> st, gas |-> 0, receipts |-> <<>>]
              /\ tr[n] = RunMsgs(st, tx, os)
              /\ \A i \in 1..n : tr[i] = RunStep(tx, os, tr[i - 1], i)
  BY RunTrace
<1>2. n \in Nat /\ n \in 0..n
  BY TxTypes, SMT
<1> HIDE DEF n
<1> DEFINE P(i) == Handled(st, tr[i].st) /\ tr[i].receipts = <<>>
           T == {i \in 0..n : tr[i].ok => P(i)}
<1>3. 0 \in T
  <2>1. tr[0].receipts = <<>> /\ 0 \in 0..n /\ tr[0].st = st
    BY <1>1, <1>2, SMT
  <2>2. Handled(st, st)
    BY DEF Handled, SameCounters
  <2> QED BY <2>1, <2>2
<1>4. ASSUME NEW i \in 1..n, i - 1 \in T PROVE i \in T
  <2>1. i \in 0..n /\ i - 1 \in 0..n /\ tr[i - 1] \in Runs
    BY <1>1, <1>2, SMT
  <2> SUFFICES ASSUME tr[i].ok PROVE P(i)
    BY <2>1
  <2>2. Ran(tx, tr[i - 1], tr[i], i)
    <3>1. tr[i] = RunStep(tx, os, tr[i - 1], i)
      BY <1>1
    <3> QED BY <2>1, <3>1, RunStepIs DEF n
  <2>3. tr[i - 1].ok /\ Handled(tr[i - 1].st, tr[i].st) /\ tr[i].receipts = tr[i - 1].receipts
    BY <2>2 DEF Ran
  <2>4. P(i - 1)
    BY <1>4, <2>3
  <2>5. Handled(st, tr[i].st)
    BY <2>3, <2>4 DEF Handled, SameCounters
  <2> QED BY <2>3, <2>4, <2>5
<1>5. \A i \in 0..n : i \in T
  <2> HIDE DEF T
  <2> QED BY <1>2, <1>3, <1>4, AlongLoop
<1>6. P(n) /\ tr[n] = run
  BY <1>1, <1>2, <1>5
<1>7. QED
  BY <1>6

-----------------------------------------------------------------------------
\* All of it: the step laws follow from the definitions of App and the laws of loops, sums
\* and finite sets.
LEMMA StepLawsHold == ASSUME Laws PROVE StepLaws
<1>1. PrefixLaw
  <2>1. \A f : SumFunctionOnSet(f, 1..0) = 0
    BY PrefixNone
  <2>2. ASSUME NEW n \in Nat, NEW i \in 1..n, NEW f, \A j \in 1..n : f[j] \in Int
        PROVE  /\ SumFunctionOnSet(f, 1..i) = SumFunctionOnSet(f, 1..(i - 1)) + f[i]
               /\ SumFunctionOnSet(f, 1..(i - 1)) \in Int /\ f[i] \in Int
    BY <2>2, PrefixSum
  <2> QED BY <2>1, <2>2 DEF PrefixLaw
<1>2. SignedLaw
  <2>1. \A sigs, a : Count(sigs, 0, a) = 0
    BY CountNone
  <2>2. ASSUME NEW sigs, NEW a, NEW i \in Nat, i # 0
        PROVE  /\ Count(sigs, i, a) \in Nat /\ Count(sigs, i - 1, a) \in Nat
               /\ Count(sigs, i, a) = Count(sigs, i - 1, a) + (IF sigs[i].from = a THEN 1 ELSE 0)
    BY <2>2, CountNext
  <2>3. ASSUME NEW tx \in Txs, NEW a
        PROVE  SignaturesOf(tx, a) = Count(Signatures(tx), Len(Signatures(tx)), a)
    BY SignaturesCount
  <2> QED BY <2>1, <2>2, <2>3 DEF SignedLaw
<1>3. DivisionLaw
  BY Quotient DEF DivisionLaw
<1>4. TypesLaw
  BY PriceType, TxTypes DEF TypesLaw
<1>5. AnteLaw
  <2> SUFFICES ASSUME NEW st \in State, NEW tx \in Txs, NEW mode, NEW r,
                      r = AnteHandler(st, tx, mode), r.ok
               PROVE  /\ AnteDone(st, r.st, tx)
                      /\ tx.kind = "eth" /\ mode # "recheck"
                           => r.st.collector = st.collector + SumFunction(Fees(tx.msgs))
                      /\ tx.kind = "sdk" /\ AtMostHalf(st.devGasParams)
                           => r.st.collector >= st.collector
    BY DEF AnteLaw
  <2>1. tx.kind \in {"eth", "sdk"} /\ "eth" # "sdk"
    BY TxTypes
  <2>2. CASE tx.kind = "eth"
    <3>1. /\ AnteDone(st, r.st, tx)
          /\ mode # "recheck" => r.st.collector = st.collector + SumFunction(Fees(tx.msgs))
      BY <2>2, EthAnte, SMT
    <3> QED BY <2>1, <2>2, <3>1
  <2>3. CASE tx.kind = "sdk"
    <3>1. /\ AnteDone(st, r.st, tx)
          /\ AtMostHalf(st.devGasParams) => r.st.collector >= st.collector
      BY <2>3, SdkAnte
    <3> QED BY <2>1, <2>3, <3>1
  <2> QED BY <2>1, <2>2, <2>3
<1>6. RunLaw
  <2> SUFFICES ASSUME NEW st \in State, NEW tx \in Txs, NEW os \in Possible(tx), NEW run,
                      run = RunMsgs(st, tx, os)
               PROVE  /\ run \in Runs
                      /\ run.ok /\ tx.kind = "eth" => EthRan(st, run.st, tx.msgs, run.receipts)
                      /\ run.ok /\ tx.kind = "sdk" => Handled(st, run.st) /\ run.receipts = <<>>
    BY DEF RunLaw
  <2> QED BY RunType, EthRun, SdkRun
<1>7. QED
  BY <1>1, <1>2, <1>3, <1>4, <1>5, <1>6 DEF StepLaws
=============================================================================
