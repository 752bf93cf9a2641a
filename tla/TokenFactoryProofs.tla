------------------------- MODULE TokenFactoryProofs -------------------------
(***************************************************************************)
(* Proofs about TokenFactory for any accounts, strings and denominations:   *)
(* the registry of the module stays consistent, and only the admin of a     *)
(* denomination hands it over, mints it or burns the coins of others; and   *)
(* the accounts hold the whole supply, which keeps every amount natural.    *)
(***************************************************************************)
EXTENDS TokenFactory, FoldProofs

\* Leaves are first-order set reasoning unless they cite SMT for arithmetic.
USE Zenon

\* What the proofs need of the type invariant.
Types ==
    /\ denoms \subseteq TFDenom
    /\ denomAdmins \in [DOMAIN denomAdmins -> Strings]
    /\ DOMAIN denomAdmins \subseteq TFDenom
    /\ metadata \in [Denoms -> {"none", "default", "custom"}]
    /\ balance \in [Accounts -> [Denoms -> Int]]
    /\ supply \in [Denoms -> Int]

Inv == Types /\ RegistryConsistent

\* Messages that leave the registry and the metadata alone keep the invariant.
LEMMA BankStep ==
    ASSUME Inv, UNCHANGED <<tfStore, metadata>>,
           balance' \in [Accounts -> [Denoms -> Int]], supply' \in [Denoms -> Int]
    PROVE  Inv'
  BY DEF Inv, Types, RegistryConsistent, HasDenom, tfStore

\* Metadata other than "none" may be set for any denomination.
LEMMA MetadataStep ==
    ASSUME Inv, UNCHANGED <<tfStore, balance, supply>>,
           NEW d \in Denoms, metadata' = [metadata EXCEPT ![d] = "custom"]
    PROVE  Inv'
  BY DEF Inv, Types, RegistryConsistent, HasDenom, tfStore, Denoms

-----------------------------------------------------------------------------
\* What the bank calls add up to.

\* n coins of d more or less in one account.
Changed(amounts, a, d, n) ==
    [h \in Accounts |-> [x \in Denoms |->
        IF h = a /\ x = d THEN amounts[h][x] + n ELSE amounts[h][x]]]

\* The same change to an account and to the supply, and nothing else.
OneHolder(a, d, n) ==
    /\ balance' = Changed(balance, a, d, n)
    /\ supply' = [x \in Denoms |-> IF x = d THEN supply[x] + n ELSE supply[x]]
    /\ UNCHANGED <<tfStore, metadata>>

LEMMA AddChanges ==
    ASSUME NEW amounts \in [Accounts -> [Denoms -> Int]], NEW a \in Accounts, NEW d \in Denoms,
           NEW n \in Int
    PROVE  /\ Add(amounts, a, d, n) = Changed(amounts, a, d, n)
           /\ Add(amounts, a, d, n) \in [Accounts -> [Denoms -> Int]]
<1>1. Add(amounts, a, d, n) \in [Accounts -> [Denoms -> Int]]
  BY SMT DEF Add
<1>2. Changed(amounts, a, d, n) \in [Accounts -> [Denoms -> Int]]
  BY SMT DEF Changed
<1>3. \A h \in Accounts, x \in Denoms :
         Add(amounts, a, d, n)[h][x] = Changed(amounts, a, d, n)[h][x]
  BY SMT DEF Add, Changed
<1> DEFINE p == Add(amounts, a, d, n)
           q == Changed(amounts, a, d, n)
<1> HIDE DEF p, q
<1>4. \A h \in Accounts : p[h] = q[h]
  <2> TAKE h \in Accounts
  <2>1. p[h] = [x \in Denoms |-> p[h][x]] /\ q[h] = [x \in Denoms |-> q[h][x]]
    BY <1>1, <1>2 DEF p, q
  <2>2. QED
    BY <1>3, <2>1 DEF p, q
<1>5. p = [h \in Accounts |-> p[h]] /\ q = [h \in Accounts |-> q[h]]
  BY <1>1, <1>2 DEF p, q
<1>6. p = q
  BY <1>4, <1>5
<1>7. QED
  BY <1>1, <1>6 DEF p, q

LEMMA AddTwice ==
    ASSUME NEW amounts \in [Accounts -> [Denoms -> Int]], NEW a \in Accounts, NEW b \in Accounts,
           NEW d \in Denoms, NEW m \in Int, NEW n \in Int
    PROVE  /\ Add(Add(amounts, a, d, m), b, d, n) = Changed(Changed(amounts, a, d, m), b, d, n)
           /\ Add(Add(amounts, a, d, m), b, d, n) \in [Accounts -> [Denoms -> Int]]
<1> DEFINE p == Add(amounts, a, d, m)
<1>1. p \in [Accounts -> [Denoms -> Int]] /\ p = Changed(amounts, a, d, m)
  BY AddChanges
<1> HIDE DEF p
<1>2. Add(p, b, d, n) = Changed(p, b, d, n) /\ Add(p, b, d, n) \in [Accounts -> [Denoms -> Int]]
  BY <1>1, AddChanges
<1>3. QED
  BY <1>1, <1>2 DEF p

\* A coin that passes through the module account leaves it as it was.
LEMMA PassesThrough ==
    ASSUME NEW amounts \in [Accounts -> [Denoms -> Int]], NEW a \in Accounts, NEW d \in Denoms,
           NEW n \in {1, -1}, a # Module
    PROVE  Changed(Changed(Changed(amounts, Module, d, 1), Module, d, -1), a, d, n)
             = Changed(amounts, a, d, n)
           /\ Changed(Changed(Changed(amounts, a, d, -1), Module, d, 1), Module, d, -1)
             = Changed(amounts, a, d, -1)
<1> USE TokenFactoryAssumption
<1>1. \A h \in Accounts, x \in Denoms : amounts[h][x] \in Int
  OBVIOUS
<1>2. \A k \in Int : k + 1 + (-1) = k
  BY SMT
<1>3. QED
  BY <1>1, <1>2 DEF Changed

\* A message of x/tokenfactory that mints: refused for a blocked recipient, with the coin
\* already in the module account, or else the recipient and the supply have one more.
LEMMA MintStep ==
    ASSUME Inv, NEW s \in Signers, NEW d \in Denoms, NEW t \in Strings, Mint(s, d, t)
    PROVE  \/ UNCHANGED tfVars
           \/ OneHolder(AccOf[t], d, 1) /\ AccOf[t] \notin Blocked /\ Signed(s)
<1> USE TokenFactoryAssumption
<1> DEFINE a == AccOf[t]
           m == mint(Bank, d, a)
           minted == MintCoins(Bank, d)
<1>1. /\ a \in Accounts /\ Module \in Accounts
      /\ balance \in [Accounts -> [Denoms -> Int]] /\ supply \in [Denoms -> Int]
      /\ -1 \in Int /\ 1 \in Int
  BY SMT DEF Inv, Types
<1>2. CASE m.err
  BY <1>2 DEF Mint, RunMsg
<1>3. CASE ~m.err
  <2>1. a \notin Blocked /\ m = SendCoins(minted, Module, a, d)
    <3>1. Fail(minted).err = TRUE
      BY DEF Fail, MintCoins
    <3>2. QED
      BY <1>3, <3>1 DEF mint
  <2>2. /\ minted.balance = Changed(balance, Module, d, 1)
        /\ minted.balance \in [Accounts -> [Denoms -> Int]]
        /\ minted.supply = [supply EXCEPT ![d] = @ + 1] /\ minted.err = FALSE
        /\ minted = [balance |-> minted.balance, supply |-> minted.supply, err |-> FALSE]
    BY <1>1, AddChanges DEF MintCoins, Bank
  <2> HIDE DEF minted, m, a
  <2>3. /\ m.balance = Add(Add(minted.balance, Module, d, -1), a, d, 1)
        /\ m.supply = minted.supply
    <3>1. Fail(minted).err = TRUE
      BY <2>2 DEF Fail
    <3>2. m = [minted EXCEPT !.balance = Add(Add(minted.balance, Module, d, -1), a, d, 1)]
      BY <1>3, <2>1, <3>1 DEF SendCoins
    <3>3. QED
      BY <2>2, <3>2
  <2>4. m.balance = Changed(balance, a, d, 1)
    <3>1. m.balance = Changed(Changed(minted.balance, Module, d, -1), a, d, 1)
      <4>1. \A am \in [Accounts -> [Denoms -> Int]] :
              Add(Add(am, Module, d, -1), a, d, 1) = Changed(Changed(am, Module, d, -1), a, d, 1)
        BY <1>1, AddTwice, SMT
      <4>2. QED
        BY <2>2, <2>3, <4>1
    <3>2. a # Module /\ 1 \in {1, -1}
      BY <2>1
    <3>3. a \in Accounts
      BY <1>1
    <3>4. QED
      BY <1>1, <2>2, <3>1, <3>2, <3>3, PassesThrough, SMT
  <2>5. m.supply = [x \in Denoms |-> IF x = d THEN supply[x] + 1 ELSE supply[x]]
    BY <1>1, <2>2, <2>3
  <2>6. balance' = m.balance /\ supply' = m.supply /\ Signed(s) /\ UNCHANGED <<tfStore, metadata>>
    BY <1>3 DEF Mint, RunMsg, m, a
  <2>7. QED
    BY <2>1, <2>4, <2>5, <2>6 DEF OneHolder, a
<1>4. QED
  BY <1>2, <1>3

\* A message that collects a coin and burns it, from an account that is not the module's.
LEMMA CollectStep ==
    ASSUME Inv, NEW s, NEW d \in Denoms, NEW a \in Accounts, a # Module,
           RunMsg(s, CollectAndBurn(Bank, a, d))
    PROVE  \/ UNCHANGED tfVars
           \/ OneHolder(a, d, -1) /\ balance[a][d] >= 1 /\ Signed(s)
<1> USE TokenFactoryAssumption
<1> DEFINE m == CollectAndBurn(Bank, a, d)
           sent == SendCoins(Bank, a, Module, d)
<1>1. /\ Module \in Accounts
      /\ balance \in [Accounts -> [Denoms -> Int]] /\ supply \in [Denoms -> Int]
      /\ -1 \in Int /\ 1 \in Int
  BY SMT DEF Inv, Types
<1>2. CASE m.err
  BY <1>2 DEF RunMsg
<1>3. CASE ~m.err
  <2>1. ~sent.err /\ m = BurnCoins(sent, d)
    BY <1>3 DEF CollectAndBurn
  <2>2. /\ balance[a][d] >= 1
        /\ sent.balance = Add(Add(balance, a, d, -1), Module, d, 1)
        /\ sent.supply = supply
    <3>1. Fail(Bank).err = TRUE
      BY DEF Fail, Bank
    <3>2. ~(Bank.balance[a][d] < 1)
      BY <2>1, <3>1 DEF SendCoins
    <3>3. Bank.balance = balance /\ Bank.supply = supply
      BY DEF Bank
    <3>4. balance[a][d] >= 1
      BY <1>1, <3>2, <3>3, SMT
    <3>5. sent = [Bank EXCEPT !.balance = Add(Add(balance, a, d, -1), Module, d, 1)]
      BY <3>2, <3>3 DEF SendCoins
    <3>6. QED
      BY <3>4, <3>5 DEF Bank
  <2>3. sent.balance = Changed(Changed(balance, a, d, -1), Module, d, 1)
        /\ sent.balance \in [Accounts -> [Denoms -> Int]]
    BY <1>1, <2>2, AddTwice, SMT
  <2> HIDE DEF sent, m
  <2>4. m.balance = Add(sent.balance, Module, d, -1) /\ m.supply = [supply EXCEPT ![d] = @ - 1]
    <3>1. CASE sent.balance[Module][d] < 1
      <4>1. m = [sent EXCEPT !.err = TRUE]
        BY <2>1, <3>1 DEF BurnCoins, Fail
      <4>2. m.err = TRUE
        BY <4>1 DEF sent, SendCoins, Fail, Bank
      <4>3. QED
        BY <1>3, <4>2
    <3>2. CASE ~(sent.balance[Module][d] < 1)
      BY <2>1, <2>2, <3>2 DEF BurnCoins
    <3>3. QED
      BY <3>1, <3>2
  <2>5. m.balance = Changed(balance, a, d, -1)
    <3>1. m.balance = Changed(sent.balance, Module, d, -1)
      <4>1. \A am \in [Accounts -> [Denoms -> Int]] :
              Add(am, Module, d, -1) = Changed(am, Module, d, -1)
        <5> DEFINE k == -1
        <5>1. k \in Int
          BY <1>1
        <5> HIDE DEF k
        <5>2. \A am \in [Accounts -> [Denoms -> Int]] : Add(am, Module, d, k) = Changed(am, Module, d, k)
          BY <1>1, <5>1, AddChanges
        <5>3. QED
          BY <5>2 DEF k
      <4>2. QED
        BY <2>3, <2>4, <4>1
    <3>2. -1 \in {1, -1}
      OBVIOUS
    <3>3. QED
      BY <1>1, <2>3, <3>1, <3>2, PassesThrough, SMT
  <2>6. m.supply = [x \in Denoms |-> IF x = d THEN supply[x] + (-1) ELSE supply[x]]
    <3>1. supply[d] - 1 = supply[d] + (-1)
      BY <1>1, SMT
    <3>2. QED
      BY <1>1, <2>4, <3>1
  <2>7. balance' = m.balance /\ supply' = m.supply /\ Signed(s) /\ UNCHANGED <<tfStore, metadata>>
    BY <1>3 DEF RunMsg, m
  <2>8. QED
    BY <2>2, <2>5, <2>6, <2>7 DEF OneHolder
<1>4. QED
  BY <1>2, <1>3

\* Burn and BurnNative never collect from the module account: it is blocked and signs nothing.
LEMMA BurnStep ==
    ASSUME Inv, NEW s \in Signers, NEW d \in Denoms, NEW t \in Strings, Burn(s, d, t)
    PROVE  \/ UNCHANGED tfVars
           \/ OneHolder(AccOf[t], d, -1) /\ balance[AccOf[t]][d] >= 1 /\ Signed(s)
<1> USE TokenFactoryAssumption
<1>1. CASE AccOf[t] \in Blocked
  <2>1. Fail(Bank).err = TRUE
    BY DEF Fail, Bank
  <2>2. QED
    BY <1>1, <2>1 DEF Burn, burn, RunMsg
<1>2. CASE AccOf[t] \notin Blocked
  BY <1>2, CollectStep DEF Burn, burn
<1>3. QED
  BY <1>1, <1>2

LEMMA BurnNativeStep ==
    ASSUME Inv, NEW s \in Signers, NEW d \in Denoms, BurnNative(s, d)
    PROVE  \/ UNCHANGED tfVars
           \/ OneHolder(AccOf[s], d, -1) /\ balance[AccOf[s]][d] >= 1 /\ Signed(s)
  BY TokenFactoryAssumption, CollectStep DEF BurnNative, Signers

\* What a transfer does to the balances.
LEMMA SendStep ==
    ASSUME Inv, NEW s \in Signers, NEW d \in Denoms, NEW t \in Strings, Send(s, t, d)
    PROVE  /\ AccOf[s] # AccOf[t] /\ AccOf[s] # Module /\ AccOf[t] # Module
           /\ balance[AccOf[s]][d] >= 1
           /\ balance' = Changed(Changed(balance, AccOf[s], d, -1), AccOf[t], d, 1)
           /\ UNCHANGED <<supply, tfStore, metadata>> /\ Signed(s)
<1> USE TokenFactoryAssumption
<1> DEFINE from == AccOf[s]
           to == AccOf[t]
           m == SendCoins(Bank, from, to, d)
<1>1. /\ from \in Accounts /\ to \in Accounts /\ from # Module
      /\ balance \in [Accounts -> [Denoms -> Int]] /\ -1 \in Int /\ 1 \in Int
  BY SMT DEF Signers, Inv, Types
<1>2. from # to /\ to # Module /\ balance[from][d] >= 1
  BY DEF Send
<1>3. ~(Bank.balance[from][d] < 1) /\ Bank.balance = balance
  BY <1>1, <1>2, SMT DEF Bank
<1>4. m = [Bank EXCEPT !.balance = Add(Add(balance, from, d, -1), to, d, 1)]
  BY <1>3 DEF SendCoins
<1>5. m.err = FALSE /\ m.balance = Add(Add(balance, from, d, -1), to, d, 1) /\ m.supply = supply
  BY <1>4 DEF Bank
<1>6. m.balance = Changed(Changed(balance, from, d, -1), to, d, 1)
  BY <1>1, <1>5, AddTwice, SMT
<1> HIDE DEF m
<1>7. balance' = m.balance /\ supply' = m.supply /\ Signed(s) /\ UNCHANGED <<tfStore, metadata>>
  BY <1>5 DEF Send, RunMsg, m
<1>8. QED
  BY <1>1, <1>2, <1>5, <1>6, <1>7

-----------------------------------------------------------------------------
\* A change of one holder and the supply keeps the registry and the types.
LEMMA OneHolderKeeps ==
    ASSUME Inv, NEW a \in Accounts, NEW d \in Denoms, NEW n \in Int, OneHolder(a, d, n)
    PROVE  Inv'
<1>1. balance' \in [Accounts -> [Denoms -> Int]] /\ supply' \in [Denoms -> Int]
  BY SMT DEF Inv, Types, OneHolder, Changed
<1>2. QED
  BY <1>1, BankStep DEF OneHolder

LEMMA UnchangedKeeps == ASSUME Inv, UNCHANGED tfVars PROVE Inv'
  BY DEF tfVars, Inv, Types, RegistryConsistent, HasDenom

\* The collections agree initially and after every message and restart.
LEMMA InvInductive == Inv /\ [TFNext]_tfVars => Inv'
<1> SUFFICES ASSUME Inv, [TFNext]_tfVars PROVE Inv'
  OBVIOUS
<1> USE TokenFactoryAssumption
<1>1. ASSUME NEW s \in Signers, NEW sub \in Subdenoms, CreateDenom(s, sub) PROVE Inv'
  <2> DEFINE d == <<s, sub>>
  <2>1. d \in TFDenom /\ d[1] = s /\ s \in Strings
    BY DEF TFDenom, Signers
  <2>2. unsafeInsertDenom(d, s) /\ UNCHANGED <<balance, supply>>
    BY <1>1 DEF CreateDenom
  <2>3. Types'
    BY <2>1, <2>2 DEF Inv, Types, unsafeInsertDenom, Denoms
  <2>4. denoms' = DOMAIN denomAdmins'
    BY <2>2 DEF Inv, RegistryConsistent, unsafeInsertDenom
  <2>5. creators' = {x[1] : x \in denoms'}
    BY <2>1, <2>2 DEF Inv, RegistryConsistent, unsafeInsertDenom
  <2>6. \A x \in denoms' : HasDenom(x)'
    BY <2>1, <2>2 DEF Inv, Types, RegistryConsistent, unsafeInsertDenom, HasDenom, Denoms
  <2>7. QED
    BY <2>3, <2>4, <2>5, <2>6 DEF Inv, RegistryConsistent
<1>2. ASSUME NEW s \in Signers, NEW d \in TFDenom, NEW t \in Strings, ChangeAdmin(s, d, t) PROVE Inv'
  <2>1. /\ denomAdmins' = [denomAdmins EXCEPT ![d] = t]
        /\ UNCHANGED <<denoms, creators, metadata, balance, supply>>
    BY <1>2 DEF ChangeAdmin
  <2>2. DOMAIN denomAdmins' = DOMAIN denomAdmins /\ denomAdmins' \in [DOMAIN denomAdmins' -> Strings]
    BY <2>1 DEF Inv, Types
  <2>3. QED
    BY <2>1, <2>2 DEF Inv, Types, RegistryConsistent, HasDenom
<1>3. ASSUME NEW s \in Signers, NEW d \in TFDenom, NEW t \in Strings, Mint(s, d, t) \/ Burn(s, d, t)
      PROVE Inv'
  <2>1. AccOf[t] \in Accounts /\ d \in Denoms /\ 1 \in Int /\ -1 \in Int
    BY SMT DEF Denoms
  <2>2. QED
    BY <1>3, <2>1, MintStep, BurnStep, OneHolderKeeps, UnchangedKeeps
<1>5. ASSUME NEW s \in Signers, NEW d \in Denoms, BurnNative(s, d) PROVE Inv'
  <2>1. AccOf[s] \in Accounts /\ -1 \in Int
    BY SMT DEF Signers
  <2>2. QED
    BY <1>5, <2>1, BurnNativeStep, OneHolderKeeps, UnchangedKeeps
<1>6. ASSUME NEW s \in Signers, NEW d \in Denoms, SetDenomMetadata(s, d) PROVE Inv'
  BY <1>6, MetadataStep DEF SetDenomMetadata
<1>7. ASSUME NEW s \in Signers, NEW d \in Denoms, SudoSetDenomMetadata(s, d) PROVE Inv'
  BY <1>7, MetadataStep DEF SudoSetDenomMetadata
<1>8. ASSUME NEW s \in Signers, NEW d \in Denoms, NEW t \in Strings, Send(s, t, d) PROVE Inv'
  <2>1. balance' \in [Accounts -> [Denoms -> Int]]
    BY <1>8, SendStep, SMT DEF Inv, Types, Changed
  <2>2. UNCHANGED <<supply, tfStore, metadata>>
    BY <1>8, SendStep
  <2>3. QED
    BY <2>1, <2>2, BankStep DEF Inv, Types
<1>9. CASE Restart
  <2>1. /\ denoms' = denoms /\ creators' = {d[1] : d \in denoms}
        /\ denomAdmins' = [d \in denoms |-> denomAdmins[d]]
        /\ metadata' = [d \in Denoms |-> IF d \in denoms THEN "default" ELSE metadata[d]]
        /\ UNCHANGED <<balance, supply>>
    BY <1>9 DEF Restart
  <2>2. denomAdmins' \in [denoms -> Strings]
    BY <2>1 DEF Inv, Types, RegistryConsistent
  <2>3. Types'
    BY <2>1, <2>2 DEF Inv, Types
  <2>4. RegistryConsistent'
    BY <2>1, <2>2 DEF Inv, Types, RegistryConsistent, HasDenom, Denoms
  <2>5. QED
    BY <2>3, <2>4 DEF Inv
<1>10. CASE UNCHANGED tfVars
  BY <1>10, UnchangedKeeps
<1>11. QED
  BY <1>1, <1>2, <1>3, <1>5, <1>6, <1>7, <1>8, <1>9, <1>10 DEF TFNext

LEMMA InvInit == TFInit => Inv
<1> SUFFICES ASSUME TFInit PROVE Inv
  OBVIOUS
<1> USE TokenFactoryAssumption
<1>1. Types
  BY SMT DEF TFInit, Types
<1>2. RegistryConsistent
  BY DEF TFInit, RegistryConsistent
<1>3. QED
  BY <1>1, <1>2 DEF Inv

\* The store and the bank agree on which denominations of the factory exist: each has
\* exactly one admin, its creator is indexed and HasDenom finds it, so that
\* ExportGenesis never panics and CreateDenom never registers it again.
THEOREM RegistrySafety == TFSpec => []RegistryConsistent
<1>1. Inv => RegistryConsistent
  BY DEF Inv
<1>2. QED
  BY InvInit, InvInductive, <1>1, PTL DEF TFSpec

\* What one step may do to the registered denominations: none disappears, and an admin
\* is replaced only by a message that the admin signed.
HandsOver ==
    \A d \in denoms : /\ d \in denoms'
                      /\ denomAdmins'[d] # denomAdmins[d] => signer' = AccOf[denomAdmins[d]]

LEMMA StepHandsOver == Inv /\ [TFNext]_tfVars => HandsOver
<1> SUFFICES ASSUME Inv, [TFNext]_tfVars PROVE HandsOver
  OBVIOUS
<1> USE TokenFactoryAssumption
<1>1. ASSUME NEW s \in Signers, NEW sub \in Subdenoms, CreateDenom(s, sub) PROVE HandsOver
  <2>1. <<s, sub>> \notin denoms
    BY <1>1 DEF CreateDenom, Inv, RegistryConsistent
  <2>2. QED
    BY <1>1, <2>1 DEF CreateDenom, unsafeInsertDenom, HandsOver, Inv, RegistryConsistent
<1>2. ASSUME NEW s \in Signers, NEW d \in TFDenom, NEW t \in Strings, ChangeAdmin(s, d, t) PROVE HandsOver
  BY <1>2 DEF ChangeAdmin, IsAdmin, HasAdmin, Signed, HandsOver, Inv, Types, RegistryConsistent
<1>3. ASSUME UNCHANGED tfStore PROVE HandsOver
  BY <1>3 DEF tfStore, HandsOver
<1>4. CASE Restart
  BY <1>4 DEF Restart, HandsOver
<1>5. CASE UNCHANGED tfVars
  BY <1>3, <1>5 DEF tfVars, tfStore
<1>6. ASSUME NEW s \in Signers, NEW d \in Denoms, NEW t \in Strings,
             Mint(s, d, t) \/ Burn(s, d, t) \/ Send(s, t, d)
      PROVE HandsOver
  BY <1>3, <1>5, <1>6, MintStep, BurnStep, SendStep DEF OneHolder
<1>7. ASSUME NEW s \in Signers, NEW d \in Denoms,
             BurnNative(s, d) \/ SetDenomMetadata(s, d) \/ SudoSetDenomMetadata(s, d)
      PROVE HandsOver
  BY <1>3, <1>5, <1>7, BurnNativeStep DEF OneHolder, SetDenomMetadata, SudoSetDenomMetadata
<1>8. QED
  <2>1. TFDenom \subseteq Denoms
    BY DEF Denoms
  <2>2. QED
    BY <1>1, <1>2, <1>4, <1>5, <1>6, <1>7, <2>1 DEF TFNext

\* A denomination is never registered twice, deleted or taken back: only a message of
\* the current admin changes the admin (CreateDenom, ChangeAdmin, InitGenesis).
THEOREM HandOverSafety == TFSpec => OnlyAdminHandsOver
<1>1. Inv /\ [TFNext]_tfVars => [HandsOver]_tfVars
  BY StepHandsOver
<1>2. TFSpec => [][HandsOver]_tfVars
  BY <1>1, InvInit, InvInductive, PTL DEF TFSpec
<1>3. QED
  BY <1>2 DEF OnlyAdminHandsOver, HandsOver

\* What one step may do to coins: supply grows by a message of the admin, and an account
\* is debited by its own message or by one of the admin.
MintsAndDebits ==
    \A d \in Denoms :
        /\ supply'[d] > supply[d] => HasAdmin(d) /\ signer' = AccOf[denomAdmins[d]]
        /\ \A a \in Accounts : balance'[a][d] < balance[a][d] =>
              signer' = a \/ (HasAdmin(d) /\ signer' = AccOf[denomAdmins[d]])

LEMMA StepMintsAndDebits == Inv /\ [TFNext]_tfVars => MintsAndDebits
<1> SUFFICES ASSUME Inv, [TFNext]_tfVars PROVE MintsAndDebits
  OBVIOUS
<1> USE TokenFactoryAssumption
<1>1. /\ balance \in [Accounts -> [Denoms -> Int]] /\ supply \in [Denoms -> Int]
      /\ TFDenom \subseteq Denoms
      /\ \A s \in Strings : AccOf[s] \in Accounts
      /\ Signers \subseteq Strings
  BY DEF Inv, Types, Denoms, Signers
<1>2. ASSUME UNCHANGED <<balance, supply>> PROVE MintsAndDebits
  BY <1>1, <1>2, SMT DEF MintsAndDebits
<1>0. CASE UNCHANGED tfVars
  BY <1>2, <1>0 DEF tfVars
<1>3. ASSUME NEW s \in Signers, NEW d \in TFDenom, NEW t \in Strings, Mint(s, d, t) PROVE MintsAndDebits
  <2>1. HasAdmin(d) /\ AccOf[s] = AccOf[denomAdmins[d]]
    BY <1>3 DEF Mint, IsAdmin
  <2>2. ASSUME OneHolder(AccOf[t], d, 1), Signed(s) PROVE MintsAndDebits
    <3>1. \A x \in Denoms : x # d => supply'[x] = supply[x]
      BY <2>2 DEF OneHolder
    <3>2. \A b \in Accounts, x \in Denoms : ~(balance'[b][x] < balance[b][x])
      BY <1>1, <2>2, SMT DEF OneHolder, Changed
    <3>3. \A x \in Denoms : x # d => ~(supply'[x] > supply[x])
      BY <1>1, <3>1, SMT
    <3>4. QED
      BY <2>1, <2>2, <3>2, <3>3 DEF MintsAndDebits, Signed
  <2>3. QED
    BY <1>1, <1>3, <1>0, <2>2, MintStep
<1>4. ASSUME NEW a \in Accounts, NEW d \in Denoms, OneHolder(a, d, -1),
             signer' = a \/ (HasAdmin(d) /\ signer' = AccOf[denomAdmins[d]])
      PROVE MintsAndDebits
  <2>1. \A x \in Denoms : ~(supply'[x] > supply[x])
    BY <1>1, <1>4, SMT DEF OneHolder
  <2>2. \A b \in Accounts, x \in Denoms : b # a \/ x # d => balance'[b][x] = balance[b][x]
    BY <1>4 DEF OneHolder, Changed
  <2>3. \A b \in Accounts, x \in Denoms : b # a \/ x # d => ~(balance'[b][x] < balance[b][x])
    BY <1>1, <2>2, SMT
  <2>4. QED
    BY <1>4, <2>1, <2>3 DEF MintsAndDebits
<1>5. ASSUME NEW s \in Signers, NEW d \in TFDenom, NEW t \in Strings, Burn(s, d, t) PROVE MintsAndDebits
  <2>1. HasAdmin(d) /\ AccOf[s] = AccOf[denomAdmins[d]]
    BY <1>5 DEF Burn, IsAdmin
  <2>2. QED
    BY <1>1, <1>4, <1>5, <1>0, <2>1, BurnStep DEF Signed
<1>6. ASSUME NEW s \in Signers, NEW d \in Denoms, BurnNative(s, d) PROVE MintsAndDebits
  BY <1>1, <1>4, <1>6, <1>0, BurnNativeStep DEF Signed
<1>7. ASSUME NEW s \in Signers, NEW d \in Denoms, NEW t \in Strings, Send(s, t, d) PROVE MintsAndDebits
  <2>1. signer' = AccOf[s] /\ supply' = supply
    BY <1>7, SendStep DEF Signed
  <2>2. \A b \in Accounts, x \in Denoms : b # AccOf[s] => ~(balance'[b][x] < balance[b][x])
    BY <1>1, <1>7, SendStep, SMT DEF Changed
  <2>3. \A x \in Denoms : ~(supply'[x] > supply[x])
    BY <1>1, <2>1, SMT
  <2>4. QED
    BY <2>1, <2>2, <2>3 DEF MintsAndDebits
<1>8. ASSUME NEW s \in Signers, NEW d \in Denoms,
             SetDenomMetadata(s, d) \/ SudoSetDenomMetadata(s, d)
      PROVE MintsAndDebits
  BY <1>2, <1>8 DEF SetDenomMetadata, SudoSetDenomMetadata
<1>9. ASSUME NEW s \in Signers, NEW sub \in Subdenoms, CreateDenom(s, sub) PROVE MintsAndDebits
  BY <1>2, <1>9 DEF CreateDenom
<1>10. ASSUME NEW s \in Signers, NEW d \in TFDenom, NEW t \in Strings, ChangeAdmin(s, d, t)
       PROVE MintsAndDebits
  BY <1>2, <1>10 DEF ChangeAdmin
<1>11. CASE Restart
  BY <1>2, <1>11 DEF Restart
<1>13. QED
  BY <1>3, <1>5, <1>6, <1>7, <1>8, <1>9, <1>10, <1>11, <1>0 DEF TFNext

\* Nobody but the admin creates coins of a denomination or takes them from others
\* (Mint, Burn, BurnNative and the bank's own messages).
THEOREM SupplySafety == TFSpec => OnlyAdminMints
<1>1. Inv /\ [TFNext]_tfVars => [MintsAndDebits]_tfVars
  BY StepMintsAndDebits
<1>2. TFSpec => [][MintsAndDebits]_tfVars
  BY <1>1, InvInit, InvInductive, PTL DEF TFSpec
<1>3. QED
  BY <1>2 DEF OnlyAdminMints, MintsAndDebits

-----------------------------------------------------------------------------
\* What the accounts hold of a denomination.
Held(d) == [a \in Accounts |-> balance[a][d]]

\* The inductive invariant about coins: amounts are natural because the supply is the sum
\* of the balances, and a denomination without an admin has no supply to burn.
Coins ==
    /\ balance \in [Accounts -> [Denoms -> Nat]]
    /\ supply \in [Denoms -> Nat]
    /\ NothingLeftBehind

\* The sums of NothingLeftBehind, before and after a step.
LEMMA Sums ==
    ASSUME NEW d \in Denoms
    PROVE  /\ SumFunction(Held(d)) = SumFunctionOnSet(Held(d), Accounts)
           /\ SumFunction(Held(d)') = SumFunctionOnSet(Held(d)', Accounts)
  BY DEF SumFunction, Held

\* An account holds no more than the supply.
LEMMA HeldBySupply ==
    ASSUME Coins, NEW a \in Accounts, NEW d \in Denoms
    PROVE  balance[a][d] <= supply[d] /\ supply[d] = SumFunctionOnSet(Held(d), Accounts)
<1> USE TokenFactoryAssumption
<1>1. supply[d] = SumFunctionOnSet(Held(d), Accounts)
  BY Sums DEF Coins, NothingLeftBehind, Held
<1>2. \A x \in Accounts : Held(d)[x] \in Nat
  BY DEF Coins, Held
<1>3. Held(d)[a] <= SumFunctionOnSet(Held(d), Accounts)
  BY <1>2, SumElement
<1>4. QED
  BY <1>1, <1>3 DEF Held

\* A step that changes what account a holds of d and the supply of d by the same n, within
\* the supply, and touches d only if it was created.
LEMMA OneHolderChanges ==
    ASSUME Inv, Coins, NEW a \in Accounts, NEW d \in Denoms, NEW n \in Int,
           a # Module, OneHolder(a, d, n),
           balance[a][d] + n >= 0, d \in TFDenom => d \in denoms
    PROVE  Coins'
<1> USE TokenFactoryAssumption
<1>0. /\ balance' = [h \in Accounts |-> [x \in Denoms |->
                    IF h = a /\ x = d THEN balance[h][x] + n ELSE balance[h][x]]]
      /\ supply' = [x \in Denoms |-> IF x = d THEN supply[x] + n ELSE supply[x]]
      /\ UNCHANGED denoms /\ Module \in Accounts
  BY DEF OneHolder, Changed, tfStore
<1>1. balance[a][d] \in Nat /\ supply[d] \in Nat /\ balance[a][d] <= supply[d]
  BY HeldBySupply DEF Coins
<1>2. balance' \in [Accounts -> [Denoms -> Nat]] /\ supply' \in [Denoms -> Nat]
  BY <1>0, <1>1, SMT DEF Coins
<1>3. ASSUME NEW x \in Denoms PROVE supply'[x] = SumFunction(Held(x)')
  <2>1. \A y \in Accounts : Held(x)[y] \in Int /\ Held(x)'[y] \in Int
    BY <1>2, SMT DEF Coins, Held
  <2>2. supply[x] = SumFunctionOnSet(Held(x), Accounts)
    BY HeldBySupply
  <2>3. CASE x = d
    <3>1. \A y \in Accounts : y # a => Held(x)'[y] = Held(x)[y]
      BY <1>0, <2>3 DEF Held
    <3>2. Held(x)'[a] = Held(x)[a] + n
      BY <1>0, <1>1, <2>3 DEF Held
    <3>3. SumFunctionOnSet(Held(x)', Accounts)
            = SumFunctionOnSet(Held(x), Accounts) - Held(x)[a] + Held(x)'[a]
      BY <2>1, <3>1, SumUpdate, SMT
    <3>4. SumFunctionOnSet(Held(x)', Accounts) = supply[d] + n
      BY <1>1, <2>1, <2>2, <2>3, <3>2, <3>3, SMT
    <3>5. QED
      BY <1>0, <2>3, <3>4, Sums
  <2>4. CASE x # d
    <3>1. \A y \in Accounts : Held(x)[y] \in Int /\ Held(x)[y] = Held(x)'[y]
      BY <1>0, <2>1, <2>4 DEF Held
    <3>2. SumFunctionOnSet(Held(x), Accounts) = SumFunctionOnSet(Held(x)', Accounts)
      BY <3>1, SumSame
    <3>3. QED
      BY <1>0, <2>2, <2>4, <3>2, Sums
  <2>5. QED
    BY <2>3, <2>4
<1>4. \A x \in Denoms : balance'[Module][x] = 0
  BY <1>0 DEF Coins, NothingLeftBehind
<1>5. \A x \in TFDenom \ denoms' : supply'[x] = 0
  BY <1>0 DEF Coins, NothingLeftBehind, Denoms
<1>6. QED
  BY <1>2, <1>3, <1>4, <1>5 DEF Coins, NothingLeftBehind, Held

\* A step that leaves the coins alone and forgets no denomination.
LEMMA CoinsStay ==
    ASSUME Coins, UNCHANGED <<balance, supply>>, denoms \subseteq denoms'
    PROVE  Coins'
  BY DEF Coins, NothingLeftBehind

\* A coin burnt from an account: the supply covers it, so the denomination was created.
LEMMA CollectKeepsCoins ==
    ASSUME Inv, Coins, NEW a \in Accounts, NEW d \in Denoms, a # Module,
           OneHolder(a, d, -1), balance[a][d] >= 1
    PROVE  Coins'
<1>1. balance[a][d] \in Nat /\ supply[d] \in Nat
  BY DEF Coins
<1>2. supply[d] # 0
  BY <1>1, HeldBySupply, SMT
<1>3. d \in TFDenom => d \in denoms
  BY <1>2 DEF Coins, NothingLeftBehind
<1>4. balance[a][d] + (-1) >= 0 /\ -1 \in Int
  BY <1>1, SMT
<1>5. QED
  BY <1>3, <1>4, OneHolderChanges

\* A coin minted by the admin, of a denomination that has one.
LEMMA MintKeepsCoins ==
    ASSUME Inv, Coins, NEW s \in Signers, NEW d \in TFDenom, NEW t \in Strings, Mint(s, d, t),
           OneHolder(AccOf[t], d, 1), AccOf[t] \notin Blocked
    PROVE  Coins'
<1> USE TokenFactoryAssumption
<1>1. d \in denoms /\ d \in Denoms
  BY DEF Mint, IsAdmin, HasAdmin, Inv, RegistryConsistent, Denoms
<1>2. AccOf[t] \in Accounts /\ AccOf[t] # Module /\ balance[AccOf[t]][d] \in Nat
  BY <1>1 DEF Coins
<1>3. balance[AccOf[t]][d] + 1 >= 0 /\ 1 \in Int
  BY <1>2, SMT
<1>4. QED
  BY <1>1, <1>2, <1>3, OneHolderChanges

\* A transfer between two accounts.
LEMMA SendKeepsCoins ==
    ASSUME Inv, Coins, NEW s \in Signers, NEW d \in Denoms, NEW t \in Strings, Send(s, t, d)
    PROVE  Coins'
<1> USE TokenFactoryAssumption
<1> DEFINE from == AccOf[s]
           to == AccOf[t]
<1>1. /\ from \in Accounts /\ to \in Accounts /\ from # to /\ from # Module /\ to # Module
      /\ balance[from][d] >= 1 /\ UNCHANGED <<supply, denoms>>
      /\ balance' = Changed(Changed(balance, from, d, -1), to, d, 1)
  BY SendStep DEF tfStore, Signers
<1> HIDE DEF from, to
<1>2. balance \in [Accounts -> [Denoms -> Nat]]
  BY DEF Coins
<1>3. \A h \in Accounts, x \in Denoms :
         balance'[h][x] = IF h = from /\ x = d THEN balance[h][x] - 1
                          ELSE IF h = to /\ x = d THEN balance[h][x] + 1
                          ELSE balance[h][x]
  BY <1>1, <1>2, SMT DEF Changed
<1>4. balance' \in [Accounts -> [Denoms -> Nat]]
  <2>1. balance' = [h \in Accounts |-> [x \in Denoms |-> balance'[h][x]]]
    BY <1>1 DEF Changed
  <2>2. \A h \in Accounts, x \in Denoms : balance'[h][x] \in Nat
    BY <1>1, <1>2, <1>3, SMT
  <2>3. QED
    BY <2>1, <2>2
<1>5. ASSUME NEW x \in Denoms PROVE supply'[x] = SumFunction(Held(x)')
  <2>1. \A y \in Accounts : Held(x)[y] \in Int /\ Held(x)'[y] \in Int
    BY <1>2, <1>4, SMT DEF Held
  <2>2. supply'[x] = SumFunctionOnSet(Held(x), Accounts)
    BY <1>1, HeldBySupply
  <2>3. CASE x = d
    <3>1. /\ Held(x)'[from] = Held(x)[from] - 1 /\ Held(x)'[to] = Held(x)[to] + 1
          /\ \A y \in Accounts : y # from /\ y # to => Held(x)'[y] = Held(x)[y]
      BY <1>1, <1>3, <2>3 DEF Held
    <3>2. SumFunctionOnSet(Held(x)', Accounts) = SumFunctionOnSet(Held(x), Accounts)
      <4> DEFINE f == Held(x)
                 g == Held(x)'
      <4>1. /\ IsFiniteSet(Accounts) /\ from \in Accounts /\ to \in Accounts /\ from # to
            /\ 1 \in Int
        BY <1>1, SMT
      <4>2. /\ \A y \in Accounts : f[y] \in Int /\ g[y] \in Int
            /\ g[from] = f[from] - 1 /\ g[to] = f[to] + 1
            /\ \A y \in Accounts : y # from /\ y # to => g[y] = f[y]
        BY <2>1, <3>1
      <4> HIDE DEF f, g
      <4>3. SumFunctionOnSet(g, Accounts) = SumFunctionOnSet(f, Accounts)
        BY <4>1, <4>2, SumMove, SMT
      <4>4. QED
        BY <4>3 DEF f, g
    <3>3. QED
      BY <2>2, <3>2, Sums
  <2>4. CASE x # d
    <3>1. \A y \in Accounts : Held(x)[y] \in Int /\ Held(x)[y] = Held(x)'[y]
      BY <1>3, <2>1, <2>4 DEF Held
    <3>2. SumFunctionOnSet(Held(x), Accounts) = SumFunctionOnSet(Held(x)', Accounts)
      BY <3>1, SumSame
    <3>3. QED
      BY <2>2, <3>2, Sums
  <2>5. QED
    BY <2>3, <2>4
<1>6. \A x \in Denoms : balance'[Module][x] = 0
  BY <1>1, <1>3 DEF Coins, NothingLeftBehind
<1>7. QED
  BY <1>1, <1>4, <1>5, <1>6 DEF Coins, NothingLeftBehind, Held

LEMMA CoinsInit == TFInit => Coins
<1> SUFFICES ASSUME TFInit PROVE Coins
  OBVIOUS
<1> USE TokenFactoryAssumption
<1>1. PICK a \in Sudoers \ Blocked : balance = [h \in Accounts |-> [d \in Denoms |->
                                         IF d \in Native /\ h = a THEN 1 ELSE 0]]
  BY DEF TFInit
<1>2. supply = [d \in Denoms |-> IF d \in Native THEN 1 ELSE 0] /\ denoms = {}
  BY DEF TFInit
<1>3. a \in Accounts /\ Module \in Accounts /\ a # Module
  OBVIOUS
<1>4. balance \in [Accounts -> [Denoms -> Nat]] /\ supply \in [Denoms -> Nat]
  BY <1>1, <1>2
<1>5. ASSUME NEW d \in Denoms PROVE supply[d] = SumFunction(Held(d))
  <2> DEFINE z == [x \in Accounts |-> 0]
  <2>1. \A x \in Accounts : z[x] = 0 /\ z[x] \in Int /\ Held(d)[x] \in Int
    BY <1>3, <1>4, SMT DEF Held
  <2>2. \A x \in Accounts : x # a => Held(d)[x] = z[x]
    BY <1>1, <1>3 DEF Held
  <2>3. Held(d)[a] = supply[d]
    BY <1>1, <1>2, <1>3 DEF Held
  <2> HIDE DEF z
  <2>4. SumFunctionOnSet(z, Accounts) = 0
    BY <2>1, SumZero
  <2>5. SumFunctionOnSet(Held(d), Accounts) = SumFunctionOnSet(z, Accounts) - z[a] + Held(d)[a]
    BY <1>3, <2>1, <2>2, SumUpdate, SMT
  <2>6. SumFunctionOnSet(Held(d), Accounts) = supply[d]
    BY <1>3, <1>4, <2>1, <2>3, <2>4, <2>5, SMT
  <2>7. QED
    BY <2>6, Sums
<1>6. \A d \in Denoms : balance[Module][d] = 0
  BY <1>1, <1>3
<1>7. \A d \in TFDenom \ denoms : supply[d] = 0
  BY <1>2 DEF Denoms
<1>8. QED
  BY <1>4, <1>5, <1>6, <1>7 DEF Coins, NothingLeftBehind, Held

LEMMA CoinsInductive == Inv /\ Coins /\ [TFNext]_tfVars => Coins'
<1> SUFFICES ASSUME Inv, Coins, [TFNext]_tfVars PROVE Coins'
  OBVIOUS
<1> USE TokenFactoryAssumption
<1>0. CASE UNCHANGED tfVars
  BY <1>0, CoinsStay DEF tfVars
<1>1. \A x \in Signers : AccOf[x] \in Accounts /\ AccOf[x] # Module
  BY DEF Signers
<1>2. TFDenom \subseteq Denoms
  BY DEF Denoms
<1>3. ASSUME NEW s \in Signers, NEW sub \in Subdenoms, CreateDenom(s, sub) PROVE Coins'
  BY <1>3, CoinsStay DEF CreateDenom, unsafeInsertDenom
<1>4. ASSUME NEW s \in Signers, NEW d \in TFDenom, NEW t \in Strings, ChangeAdmin(s, d, t) PROVE Coins'
  BY <1>4, CoinsStay DEF ChangeAdmin
<1>5. ASSUME NEW s \in Signers, NEW d \in TFDenom, NEW t \in Strings, Mint(s, d, t) PROVE Coins'
  BY <1>2, <1>5, <1>0, MintStep, MintKeepsCoins
<1>6. ASSUME NEW s \in Signers, NEW d \in TFDenom, NEW t \in Strings, Burn(s, d, t) PROVE Coins'
  <2>1. CASE AccOf[t] = Module
    <3>1. Fail(Bank).err = TRUE
      BY DEF Fail, Bank
    <3>2. UNCHANGED tfVars
      BY <1>6, <2>1, <3>1 DEF Burn, burn, RunMsg
    <3>3. QED
      BY <1>0, <3>2
  <2>2. CASE AccOf[t] # Module
    BY <1>2, <1>6, <1>0, <2>2, BurnStep, CollectKeepsCoins
  <2>3. QED
    BY <2>1, <2>2
<1>7. ASSUME NEW s \in Signers, NEW d \in Denoms, BurnNative(s, d) PROVE Coins'
  BY <1>1, <1>7, <1>0, BurnNativeStep, CollectKeepsCoins
<1>8. ASSUME NEW s \in Signers, NEW d \in Denoms, SetDenomMetadata(s, d) PROVE Coins'
  BY <1>8, CoinsStay DEF SetDenomMetadata, tfStore
<1>9. ASSUME NEW s \in Signers, NEW d \in Denoms, SudoSetDenomMetadata(s, d) PROVE Coins'
  BY <1>9, CoinsStay DEF SudoSetDenomMetadata, tfStore
<1>10. ASSUME NEW s \in Signers, NEW d \in Denoms, NEW t \in Strings, Send(s, t, d) PROVE Coins'
  BY <1>10, SendKeepsCoins
<1>11. CASE Restart
  BY <1>11, CoinsStay DEF Restart
<1>13. QED
  BY <1>3, <1>4, <1>5, <1>6, <1>7, <1>8, <1>9, <1>10, <1>11, <1>0 DEF TFNext

\* Mint, Burn and BurnNative move coins through the module account, a message that fails
\* between two bank calls included, and leave none there; the accounts hold exactly the
\* supply, and a denomination that was not created has none (k.mint, k.burn, BurnNative).
THEOREM CoinsSafety == TFSpec => []NothingLeftBehind
<1>1. Coins => NothingLeftBehind
  BY DEF Coins
<1>2. QED
  BY InvInit, InvInductive, CoinsInit, CoinsInductive, <1>1, PTL DEF TFSpec
=============================================================================
