---------------------------- MODULE ChainProofs -----------------------------
(***************************************************************************)
(* Proofs about what runs from block to block.  x/inflation and the two     *)
(* modules it relies on, x/epochs and x/sudo, for any timers, durations,    *)
(* block times, curves, distributions, accounts and replicas: the safety    *)
(* invariants and the hook order of the timers; that inflation follows the  *)
(* timers, accounts for every epoch, mints no faster than the clock, walks  *)
(* the curve no faster than it runs and strands coins only in a failed      *)
(* allocation; that replicas which store the same contracts in different    *)
(* orders never disagree on a permission, and that only the root of the     *)
(* moment edits the Sudoers.  TxIndexer, for chains of any height and any   *)
(* number of crashes and refused batches: no wake-up of the loop is lost,   *)
(* and the index has no unexplained hole.                                   *)
(***************************************************************************)
EXTENDS Inflation, TxIndexer, TLAPS, WellFoundedInduction

\* Leaves are first-order set reasoning unless they cite SMT for arithmetic.
USE Zenon

(* x/epochs *)

\* The two operators that write an EpochInfo return a well-formed EpochInfo ...
LEMMA AddEpochInfoType ==
    ASSUME NEW e \in EpochInfo, NEW now \in Nat, NEW ht \in Nat
    PROVE  AddEpochInfo(e, now, ht) \in EpochInfo
  BY DEF AddEpochInfo, EpochInfo

LEMMA StartEpochType ==
    ASSUME NEW e \in EpochInfo, NEW now \in Nat, NEW ht \in Nat
    PROVE  StartEpoch(e, now, ht) \in EpochInfo
  BY SMT DEF StartEpoch, EpochInfo

\* ... and an import changes nothing but an unset StartTime and the start height.
LEMMA AddEpochInfoFields ==
    ASSUME NEW e \in EpochInfo, NEW now \in Nat, NEW ht \in Nat
    PROVE  /\ AddEpochInfo(e, now, ht).startTime = IF e.startTime = 0 THEN now ELSE e.startTime
           /\ AddEpochInfo(e, now, ht).currentEpoch = e.currentEpoch
           /\ AddEpochInfo(e, now, ht).currentEpochStartTime = e.currentEpochStartTime
           /\ AddEpochInfo(e, now, ht).epochCountingStarted = e.epochCountingStarted
  BY DEF AddEpochInfo, EpochInfo

\* The type invariant is inductive: BeginBlocker and a genesis import write only
\* well-formed EpochInfo values.
THEOREM EpochsTypeCorrect == EpochsSpec => []EpochsTypeOK
<1> USE EpochsAssumption
<1>1. EpochsInit => EpochsTypeOK
  <2> SUFFICES ASSUME EpochsInit PROVE EpochsTypeOK
    OBVIOUS
  <2>1. epochs \in [Ids -> EpochInfo]
    <3>1. ASSUME NEW s \in StartTimes PROVE GenesisEpoch(s) \in EpochInfo
      BY DEF GenesisEpoch, EpochInfo
    <3>2. \A s \in StartTimes : AddEpochInfo(GenesisEpoch(s), GenesisTime, 0) \in EpochInfo
      BY <3>1, AddEpochInfoType
    <3>3. QED
      BY <3>2, SMT DEF EpochsInit
  <2>2. QED
    BY <2>1, SMT DEF EpochsInit, EpochsTypeOK
<1>2. EpochsTypeOK /\ [EpochsNext]_epochVars => EpochsTypeOK'
  <2> SUFFICES ASSUME EpochsTypeOK, [EpochsNext]_epochVars PROVE EpochsTypeOK'
    OBVIOUS
  <2>1. CASE NextBlock
    <3>1. PICK now \in (blockTime + 1)..MaxTime : BeginBlocker(now)
      BY <2>1 DEF NextBlock
    <3>2. now \in Nat /\ blockHeight + 1 \in Nat
      BY <3>1, SMT DEF EpochsTypeOK
    <3>3. epochs' \in [Ids -> EpochInfo]
      BY <3>1, <3>2, StartEpochType DEF BeginBlocker, EpochsTypeOK
    <3>4. hooks' \in [Ids -> Seq(HookCall)]
      <4>1. ASSUME NEW e \in EpochInfo PROVE HookCalls(e) \in Seq(HookCall)
        <5>1. e.currentEpoch \in Nat /\ e.currentEpoch + 1 \in Nat
          BY SMT DEF EpochInfo
        <5>2. /\ [hook |-> "AfterEpochEnd", epoch |-> e.currentEpoch] \in HookCall
              /\ [hook |-> "BeforeEpochStart", epoch |-> e.currentEpoch + 1] \in HookCall
              /\ [hook |-> "BeforeEpochStart", epoch |-> 1] \in HookCall
          BY <5>1 DEF HookCall
        <5>3. QED
          BY <5>2, SMT DEF HookCalls
      <4>2. \A id \in Ids : epochs[id] \in EpochInfo
        BY DEF EpochsTypeOK
      <4>3. QED
        BY <3>1, <4>1, <4>2, SMT DEF BeginBlocker
    <3>5. QED
      BY <3>1, <3>2, <3>3, <3>4 DEF BeginBlocker, EpochsTypeOK
  <2>2. CASE ExportImport
    <3>1. PICK ht \in {0, blockHeight + 1} :
             /\ blockHeight' = ht
             /\ epochs' = [id \in Ids |-> AddEpochInfo(epochs[id], blockTime, ht)]
      BY <2>2 DEF ExportImport
    <3>2. epochs' \in [Ids -> EpochInfo]
      BY <3>1, AddEpochInfoType, SMT DEF EpochsTypeOK
    <3>3. QED
      BY <2>2, <3>1, <3>2, SMT DEF ExportImport, EpochsTypeOK
  <2>3. CASE UNCHANGED epochVars
    BY <2>3 DEF epochVars, EpochsTypeOK
  <2>4. QED
    BY <2>1, <2>2, <2>3 DEF EpochsNext
<1>3. QED
  BY <1>1, <1>2, PTL DEF EpochsSpec

-----------------------------------------------------------------------------
\* What the two safety invariants need beside themselves: a timer is in epoch 0 until
\* it is started, and its StartTime was set at genesis.
EpochsIInv ==
    /\ EpochsTypeOK
    /\ NeverAheadOfClock
    /\ NoOverdueEpoch
    /\ \A id \in Ids :
          /\ epochs[id].startTime # 0
          /\ epochs[id].epochCountingStarted => epochs[id].currentEpoch >= 1
          /\ ~epochs[id].epochCountingStarted => epochs[id].currentEpoch = 0

\* One more epoch takes one more duration.
LEMMA OneMoreDuration ==
    ASSUME NEW d \in Nat, NEW n \in Nat, n >= 1
    PROVE  d * (n + 1 - 1) = d * (n - 1) + d
<1>1. PICK m \in Nat : n = m + 1
  <2>1. n - 1 \in Nat /\ n = (n - 1) + 1
    BY SMT
  <2>2. QED
    BY <2>1
<1>2. d * (m + 1) = d * m + d
  BY SMT
<1>3. QED
  BY <1>1, <1>2, SMT

\* A timer that fires starts its new epoch at least one duration after the old one, so
\* BeginBlocker preserves the invariant whatever the block time.
LEMMA BeginBlockerPreserves ==
    ASSUME EpochsIInv, EpochsTypeOK', NEW now \in (blockTime + 1)..MaxTime, BeginBlocker(now)
    PROVE  EpochsIInv'
<1> USE EpochsAssumption
<1> SUFFICES ASSUME NEW id \in Ids
             PROVE  /\ epochs'[id].epochCountingStarted =>
                         /\ epochs'[id].currentEpochStartTime >=
                              epochs'[id].startTime + Duration[id] * (epochs'[id].currentEpoch - 1)
                         /\ epochs'[id].currentEpochStartTime <= blockTime'
                         /\ blockTime' < epochs'[id].currentEpochStartTime + Duration[id]
                         /\ epochs'[id].currentEpoch >= 1
                    /\ ~epochs'[id].epochCountingStarted => epochs'[id].currentEpoch = 0
                    /\ epochs'[id].startTime # 0
  BY DEF EpochsIInv, NeverAheadOfClock, NoOverdueEpoch
<1> DEFINE e == epochs[id]
           d == Duration[id]
<1>0. /\ e \in EpochInfo /\ d \in Nat \ {0} /\ now \in Nat /\ blockTime \in Nat
      /\ now > blockTime
      /\ MaxTime \in Nat
      /\ blockTime' = now
      /\ e.startTime # 0
      /\ e.epochCountingStarted =>
            /\ e.currentEpochStartTime >= e.startTime + d * (e.currentEpoch - 1)
            /\ e.currentEpochStartTime <= blockTime
            /\ blockTime < e.currentEpochStartTime + d
            /\ e.currentEpoch >= 1
      /\ ~e.epochCountingStarted => e.currentEpoch = 0
  BY SMT DEF EpochsIInv, EpochsTypeOK, NeverAheadOfClock, NoOverdueEpoch, BeginBlocker
<1>1. CASE ~Fires(id, e, now)
  <2>1. epochs'[id] = e
    BY <1>1 DEF BeginBlocker
  <2>2. e.epochCountingStarted => now < e.currentEpochStartTime + d \/ now < e.startTime
    BY <1>0, <1>1, SMT DEF Fires, shouldEpochStart, EpochInfo
  <2>3. e.epochCountingStarted => now >= e.startTime
    <3>1. SUFFICES ASSUME e.epochCountingStarted PROVE now >= e.startTime
      OBVIOUS
    <3>2. d * (e.currentEpoch - 1) \in Nat
      <4>1. e.currentEpoch - 1 \in Nat
        BY <1>0, <3>1, SMT DEF EpochInfo
      <4>2. QED
        BY <1>0, <4>1, SMT
    <3>3. QED
      BY <1>0, <3>1, <3>2, SMT DEF EpochInfo
  <2>4. QED
    BY <1>0, <2>1, <2>2, <2>3, SMT DEF EpochInfo
<1>2. CASE Fires(id, e, now) /\ ~e.epochCountingStarted
  <2>1. epochs'[id] = StartEpoch(e, now, blockHeight + 1)
    BY <1>2 DEF BeginBlocker
  <2>2. /\ epochs'[id].currentEpochStartTime = now
        /\ epochs'[id].startTime = e.startTime
        /\ epochs'[id].currentEpoch = 1
        /\ epochs'[id].epochCountingStarted = TRUE
    BY <1>0, <1>2, <2>1, SMT DEF StartEpoch
  <2>3. now >= e.startTime
    BY <1>2 DEF Fires
  <2>4. QED
    BY <1>0, <2>2, <2>3, SMT DEF EpochInfo
<1>3. CASE Fires(id, e, now) /\ e.epochCountingStarted
  <2>1. epochs'[id] = StartEpoch(e, now, blockHeight + 1)
    BY <1>3 DEF BeginBlocker
  <2>2. /\ epochs'[id].currentEpochStartTime = now
        /\ epochs'[id].startTime = e.startTime
        /\ epochs'[id].currentEpoch = e.currentEpoch + 1
        /\ epochs'[id].epochCountingStarted = TRUE
    BY <1>0, <1>3, <2>1, SMT DEF StartEpoch
  <2>3. now >= e.currentEpochStartTime + d
    BY <1>3 DEF Fires, shouldEpochStart
  <2>4. d * (e.currentEpoch + 1 - 1) = d * (e.currentEpoch - 1) + d
    BY <1>0, <1>3, OneMoreDuration DEF EpochInfo
  <2>5. d * (e.currentEpoch - 1) \in Int
    BY <1>0, SMT DEF EpochInfo
  <2>6. QED
    BY <1>0, <1>3, <2>2, <2>3, <2>4, <2>5, SMT DEF EpochInfo
<1>4. QED
  BY <1>1, <1>2, <1>3

\* The invariant holds in every behaviour of the timers.
LEMMA EpochsInvariant == EpochsSpec => []EpochsIInv
<1> USE EpochsAssumption
<1>1. EpochsInit => EpochsIInv
  <2> SUFFICES ASSUME EpochsInit PROVE EpochsIInv
    OBVIOUS
  <2>1. EpochsTypeOK
    <3>1. epochs \in [Ids -> EpochInfo]
      <4>1. ASSUME NEW s \in StartTimes PROVE GenesisEpoch(s) \in EpochInfo
        BY DEF GenesisEpoch, EpochInfo
      <4>2. \A s \in StartTimes : AddEpochInfo(GenesisEpoch(s), GenesisTime, 0) \in EpochInfo
        BY <4>1, AddEpochInfoType
      <4>3. QED
        BY <4>2, SMT DEF EpochsInit
    <3>2. QED
      BY <3>1, SMT DEF EpochsInit, EpochsTypeOK
  <2>2. \A id \in Ids : ~epochs[id].epochCountingStarted /\ epochs[id].startTime # 0 /\ epochs[id].currentEpoch = 0
    <3>1. ASSUME NEW s \in StartTimes
          PROVE  LET e == AddEpochInfo(GenesisEpoch(s), GenesisTime, 0)
                 IN  e.epochCountingStarted = FALSE /\ e.startTime # 0 /\ e.currentEpoch = 0
      BY DEF AddEpochInfo, GenesisEpoch
    <3>2. ASSUME NEW id \in Ids
          PROVE  \E s \in StartTimes : epochs[id] = AddEpochInfo(GenesisEpoch(s), GenesisTime, 0)
      BY DEF EpochsInit
    <3>3. QED
      BY <3>1, <3>2
  <2>3. QED
    BY <2>1, <2>2 DEF EpochsIInv, NeverAheadOfClock, NoOverdueEpoch
<1>2. EpochsIInv /\ EpochsTypeOK' /\ [EpochsNext]_epochVars => EpochsIInv'
  <2> SUFFICES ASSUME EpochsIInv, EpochsTypeOK', [EpochsNext]_epochVars PROVE EpochsIInv'
    OBVIOUS
  <2>1. CASE NextBlock
    BY <2>1, BeginBlockerPreserves DEF NextBlock
  <2>2. CASE ExportImport
    <3>1. PICK ht \in {0, blockHeight + 1} :
             epochs' = [id \in Ids |-> AddEpochInfo(epochs[id], blockTime, ht)]
      BY <2>2 DEF ExportImport
    <3>2. ASSUME NEW id \in Ids
          PROVE  /\ epochs'[id].startTime = epochs[id].startTime
                 /\ epochs'[id].currentEpoch = epochs[id].currentEpoch
                 /\ epochs'[id].currentEpochStartTime = epochs[id].currentEpochStartTime
                 /\ epochs'[id].epochCountingStarted = epochs[id].epochCountingStarted
      BY <3>1, AddEpochInfoFields, SMT DEF EpochsIInv, EpochsTypeOK
    <3>3. blockTime' = blockTime
      BY <2>2 DEF ExportImport
    <3>4. QED
      BY <3>2, <3>3 DEF EpochsIInv, NeverAheadOfClock, NoOverdueEpoch
  <2>3. CASE UNCHANGED epochVars
    BY <2>3 DEF epochVars, EpochsIInv, NeverAheadOfClock, NoOverdueEpoch
  <2>4. QED
    BY <2>1, <2>2, <2>3 DEF EpochsNext
<1>3. QED
  BY <1>1, <1>2, EpochsTypeCorrect, PTL DEF EpochsSpec

\* Epochs never run ahead of the clock and no epoch is left overdue by a block.
THEOREM EpochsSafety == EpochsSpec => []TimersFollowClock
<1>1. EpochsIInv => TimersFollowClock
  BY DEF EpochsIInv, TimersFollowClock
<1>2. QED
  BY <1>1, EpochsInvariant, PTL

-----------------------------------------------------------------------------
\* A hook receiver of x/epochs is told of every epoch of every timer, once, its end before
\* the start of the next, for any timers, durations, jumps of the block time and restarts
\* from an exported genesis (BeginBlocker).
THEOREM HooksSafety == EpochsSpec => HooksFollowEpochs
<1> DEFINE Ends(n) == [hook |-> "AfterEpochEnd", epoch |-> n]
           Starts(n) == [hook |-> "BeforeEpochStart", epoch |-> n + 1]
           Told(id) ==
             LET old == epochs[id].currentEpoch
                 new == epochs'[id].currentEpoch
                 ends == [hook |-> "AfterEpochEnd", epoch |-> old]
                 starts == [hook |-> "BeforeEpochStart", epoch |-> old + 1]
             IN  /\ new \in {old, old + 1}
                 /\ hooks'[id] = IF new = old THEN <<>>
                                 ELSE IF old = 0 THEN <<starts>> ELSE <<ends, starts>>
<1>1. EpochsIInv /\ [EpochsNext]_epochVars => [\A id \in Ids : Told(id)]_epochVars
  <2> SUFFICES ASSUME EpochsIInv, EpochsNext, NEW id \in Ids PROVE Told(id)
    OBVIOUS
  <2> DEFINE e == epochs[id]
             n == e.currentEpoch
  <2>0. /\ e \in EpochInfo /\ n \in Nat
        /\ e.epochCountingStarted => n # 0
        /\ ~e.epochCountingStarted => n = 0
    BY SMT DEF EpochsIInv, EpochsTypeOK, EpochInfo
  <2>1. n + 1 # n /\ 0 + 1 = 1
    BY <2>0, SMT
  <2>2. CASE NextBlock
    <3>1. PICK now \in (blockTime + 1)..MaxTime : BeginBlocker(now)
      BY <2>2 DEF NextBlock
    <3>2. CASE ~Fires(id, e, now)
      <4>1. epochs'[id] = e /\ hooks'[id] = <<>>
        BY <3>1, <3>2 DEF BeginBlocker
      <4>2. QED
        BY <4>1
    <3>3. CASE Fires(id, e, now)
      <4>1. epochs'[id] = StartEpoch(e, now, blockHeight + 1) /\ hooks'[id] = HookCalls(e)
        BY <3>1, <3>3 DEF BeginBlocker
      <4>2. CASE e.epochCountingStarted
        <5>1. epochs'[id].currentEpoch = n + 1
          BY <4>1, <4>2, SMT DEF StartEpoch
        <5>2. hooks'[id] = <<Ends(n), Starts(n)>>
          BY <4>1, <4>2 DEF HookCalls
        <5>3. QED
          BY <2>0, <2>1, <4>2, <5>1, <5>2, SMT
      <4>3. CASE ~e.epochCountingStarted
        <5>1. epochs'[id].currentEpoch = 1
          BY <4>1, <4>3, SMT DEF StartEpoch
        <5>2. hooks'[id] = <<[hook |-> "BeforeEpochStart", epoch |-> 1]>>
          BY <4>1, <4>3 DEF HookCalls
        <5>3. QED
          BY <2>0, <2>1, <4>3, <5>1, <5>2, SMT
      <4>4. QED
        BY <4>2, <4>3
    <3>4. QED
      BY <3>2, <3>3
  <2>3. CASE ExportImport
    <3>1. PICK ht \in {0, blockHeight + 1} :
             epochs' = [x \in Ids |-> AddEpochInfo(epochs[x], blockTime, ht)]
      BY <2>3 DEF ExportImport
    <3>2. epochs'[id].currentEpoch = n
      <4>1. blockHeight \in Nat /\ blockTime \in Nat /\ epochs[id] \in EpochInfo
        BY DEF EpochsIInv, EpochsTypeOK
      <4>2. ht \in Nat
        BY <4>1, SMT
      <4>3. QED
        BY <3>1, <4>1, <4>2, AddEpochInfoFields
    <3>3. hooks'[id] = <<>>
      BY <2>3 DEF ExportImport
    <3>4. QED
      BY <3>2, <3>3
  <2>4. QED
    BY <2>2, <2>3 DEF EpochsNext
<1>2. QED
  BY <1>1, EpochsInvariant, PTL DEF EpochsSpec, HooksFollowEpochs

-----------------------------------------------------------------------------
(* x/sudo *)

\* What is stored: a root and finitely many contracts, both as strings.
Stored(sudo) ==
    /\ sudo = [root |-> sudo.root, contracts |-> sudo.contracts]
    /\ sudo.root \in Bech32
    /\ Range(sudo.contracts) \subseteq Bech32

\* Replicas agree up to the order of the contracts.
Same(s, t) == s.root = t.root /\ Range(s.contracts) = Range(t.contracts)

SudoIInv ==
    /\ sudoers = [r \in Replicas |-> sudoers[r]]
    /\ \A r \in Replicas : Stored(sudoers[r])
    /\ \A q, r \in Replicas : Same(sudoers[q], sudoers[r])

\* Whatever order ToSlice produces, the stored list has the elements of the set.
LEMMA ToPbStores ==
    ASSUME NEW root, NEW S \in SUBSET Bech32, NEW sudo \in ToPb(root, S)
    PROVE  sudo.root = root /\ Range(sudo.contracts) = S
           /\ sudo = [root |-> sudo.root, contracts |-> sudo.contracts]
<1>1. PICK f \in Bijection(1..Cardinality(S), S) : sudo = [root |-> root, contracts |-> f]
  BY DEF ToPb
<1>2. Range(f) = S
  BY DEF Bijection, Injection, Surjection, Range
<1>3. QED
  BY <1>1, <1>2

-----------------------------------------------------------------------------
\* Messages name strings of accounts.
LEMMA MsgStrings ==
    /\ MsgBech32 \subseteq Bech32
    /\ \A cs \in MsgContracts : cs \subseteq Bech32
    /\ \A a \in Addrs : AccString(a) \in Bech32
    /\ \A s \in Bech32 : AccAddressFromBech32(s) \in Addrs
  BY SudoAssumption DEF MsgBech32, Bech32, MsgContracts, AccString, AccAddressFromBech32

\* Each message turns Sudoers that agree into Sudoers that agree, in whatever order each
\* replica stores them, and leaves those alone of which the sender is not the root.
LEMMA AddContractsAgrees ==
    ASSUME NEW sender \in MsgBech32, NEW cs \in MsgContracts,
           NEW s, NEW t, Stored(s), Stored(t), Same(s, t),
           NEW u \in AddContracts(s, sender, cs), NEW v \in AddContracts(t, sender, cs)
    PROVE  Stored(u) /\ Same(u, v) /\ (u # s => sender = s.root)
<1> DEFINE new == {AccString(AccAddressFromBech32(c)) : c \in cs}
<1>1. new \in SUBSET Bech32
  BY MsgStrings
<1>2. CASE senderHasPermission(sender, s.root)
  <2>1. u \in ToPb(s.root, Range(s.contracts) \cup new)
    BY <1>2 DEF AddContracts
  <2>2. v \in ToPb(s.root, Range(s.contracts) \cup new)
    BY <1>2 DEF AddContracts, Same
  <2>3. Range(s.contracts) \cup new \in SUBSET Bech32
    BY <1>1 DEF Stored
  <2> HIDE DEF new
  <2>4. u.root = s.root /\ Range(u.contracts) = Range(s.contracts) \cup new
        /\ u = [root |-> u.root, contracts |-> u.contracts]
    BY <2>1, <2>3, ToPbStores
  <2>5. v.root = s.root /\ Range(v.contracts) = Range(s.contracts) \cup new
    BY <2>2, <2>3, ToPbStores
  <2>6. QED
    BY <1>2, <2>3, <2>4, <2>5 DEF Stored, Same, senderHasPermission
<1>3. CASE ~senderHasPermission(sender, s.root)
  BY <1>3 DEF AddContracts, Same
<1>4. QED
  BY <1>2, <1>3

LEMMA RemoveContractsAgrees ==
    ASSUME NEW sender \in MsgBech32, NEW cs \in MsgContracts,
           NEW s, NEW t, Stored(s), Stored(t), Same(s, t),
           NEW u \in RemoveContracts(s, sender, cs), NEW v \in RemoveContracts(t, sender, cs)
    PROVE  Stored(u) /\ Same(u, v) /\ (u # s => sender = s.root)
<1>1. CASE senderHasPermission(sender, s.root)
  <2>1. u \in ToPb(s.root, Range(s.contracts) \ cs)
    BY <1>1 DEF RemoveContracts
  <2>2. v \in ToPb(s.root, Range(s.contracts) \ cs)
    BY <1>1 DEF RemoveContracts, Same
  <2>3. Range(s.contracts) \ cs \in SUBSET Bech32
    BY DEF Stored
  <2>4. u.root = s.root /\ Range(u.contracts) = Range(s.contracts) \ cs
        /\ u = [root |-> u.root, contracts |-> u.contracts]
    BY <2>1, <2>3, ToPbStores
  <2>5. v.root = s.root /\ Range(v.contracts) = Range(s.contracts) \ cs
    BY <2>2, <2>3, ToPbStores
  <2>6. QED
    BY <1>1, <2>3, <2>4, <2>5 DEF Stored, Same, senderHasPermission
<1>2. CASE ~senderHasPermission(sender, s.root)
  BY <1>2 DEF RemoveContracts, Same
<1>3. QED
  BY <1>1, <1>2

LEMMA ChangeRootAgrees ==
    ASSUME NEW sender \in MsgBech32, NEW newRoot \in MsgBech32,
           NEW s, NEW t, Stored(s), Stored(t), Same(s, t),
           NEW u \in ChangeRoot(s, sender, newRoot), NEW v \in ChangeRoot(t, sender, newRoot)
    PROVE  /\ Stored(u) /\ Same(u, v)
           /\ u # s => AccAddressFromBech32(sender) = GetRootAddr(s)
<1>1. CASE GetRootAddr(s) = AccAddressFromBech32(sender)
  <2>1. GetRootAddr(t) = AccAddressFromBech32(sender)
    BY <1>1 DEF GetRootAddr, Same
  <2>2. u = [s EXCEPT !.root = newRoot] /\ v = [t EXCEPT !.root = newRoot]
    BY <1>1, <2>1 DEF ChangeRoot
  <2>3. newRoot \in Bech32
    BY MsgStrings
  <2>4. u = [root |-> newRoot, contracts |-> s.contracts] /\ v = [root |-> newRoot, contracts |-> t.contracts]
    BY <2>2 DEF Stored
  <2>5. QED
    BY <1>1, <2>3, <2>4 DEF Stored, Same
<1>2. CASE GetRootAddr(s) # AccAddressFromBech32(sender)
  <2>1. GetRootAddr(t) # AccAddressFromBech32(sender)
    BY <1>2 DEF GetRootAddr, Same
  <2>2. u = s /\ v = t
    BY <1>2, <2>1 DEF ChangeRoot
  <2>3. QED
    BY <2>2
<1>3. QED
  BY <1>1, <1>2

-----------------------------------------------------------------------------
\* The action of OnlyRootEdits.
RootEdits ==
    \A r \in Replicas : sudoers'[r] # sudoers[r] => signer' = GetRootAddr(sudoers[r])

\* One message, whatever replica stores whatever its execution may give.
LEMMA StepAgrees ==
    SudoIInv /\ [SudoNext]_sudoVars => SudoIInv' /\ [RootEdits]_sudoVars
<1> SUFFICES ASSUME SudoIInv, [SudoNext]_sudoVars
             PROVE  SudoIInv' /\ [RootEdits]_sudoVars
  OBVIOUS
<1>1. CASE MsgAddContracts
  <2>1. PICK sender \in MsgBech32, cs \in MsgContracts :
          /\ \A r \in Replicas : sudoers'[r] \in AddContracts(sudoers[r], sender, cs)
          /\ sudoers' = [r \in Replicas |-> sudoers'[r]]
          /\ signer' = AccAddressFromBech32(sender)
    BY <1>1 DEF MsgAddContracts, Deliver
  <2>2. \A q, r \in Replicas :
          /\ Stored(sudoers'[q]) /\ Same(sudoers'[q], sudoers'[r])
          /\ sudoers'[q] # sudoers[q] => sender = sudoers[q].root
    BY <2>1, AddContractsAgrees, SMT DEF SudoIInv
  <2>3. QED
    BY <2>1, <2>2 DEF SudoIInv, RootEdits, GetRootAddr
<1>2. CASE MsgRemoveContracts
  <2>1. PICK sender \in MsgBech32, cs \in MsgContracts :
          /\ \A r \in Replicas : sudoers'[r] \in RemoveContracts(sudoers[r], sender, cs)
          /\ sudoers' = [r \in Replicas |-> sudoers'[r]]
          /\ signer' = AccAddressFromBech32(sender)
    BY <1>2 DEF MsgRemoveContracts, Deliver
  <2>2. \A q, r \in Replicas :
          /\ Stored(sudoers'[q]) /\ Same(sudoers'[q], sudoers'[r])
          /\ sudoers'[q] # sudoers[q] => sender = sudoers[q].root
    BY <2>1, RemoveContractsAgrees, SMT DEF SudoIInv
  <2>3. QED
    BY <2>1, <2>2 DEF SudoIInv, RootEdits, GetRootAddr
<1>3. CASE MsgChangeRoot
  <2>1. PICK sender \in MsgBech32, newRoot \in MsgBech32 :
          /\ \A r \in Replicas : sudoers'[r] \in ChangeRoot(sudoers[r], sender, newRoot)
          /\ sudoers' = [r \in Replicas |-> sudoers'[r]]
          /\ signer' = AccAddressFromBech32(sender)
    BY <1>3 DEF MsgChangeRoot, Deliver
  <2>2. \A q, r \in Replicas :
          /\ Stored(sudoers'[q]) /\ Same(sudoers'[q], sudoers'[r])
          /\ sudoers'[q] # sudoers[q] => AccAddressFromBech32(sender) = GetRootAddr(sudoers[q])
    BY <2>1, ChangeRootAgrees DEF SudoIInv
  <2>3. QED
    BY <2>1, <2>2 DEF SudoIInv, RootEdits
<1>4. CASE OtherMsg \/ UNCHANGED sudoVars
  BY <1>4 DEF SudoIInv, RootEdits, OtherMsg, sudoVars
<1>5. QED
  BY <1>1, <1>2, <1>3, <1>4 DEF SudoNext

LEMMA SudoInvInit == SudoInit => SudoIInv
<1> SUFFICES ASSUME SudoInit PROVE SudoIInv
  OBVIOUS
<1>1. AccString(GenesisRoot) \in Bech32
  BY SudoAssumption, MsgStrings
<1>2. Range(<<>>) = {}
  BY SMT DEF Range
<1>3. \A r \in Replicas : sudoers[r] = [root |-> AccString(GenesisRoot), contracts |-> <<>>]
  BY DEF SudoInit
<1>4. QED
  BY <1>1, <1>2, <1>3 DEF SudoInit, SudoIInv, Stored, Same

LEMMA SudoInvariant == SudoSpec => []SudoIInv
  BY SudoInvInit, StepAgrees, PTL DEF SudoSpec

\* Replicas never disagree on a permission, in whatever orders they store the contracts
\* (Keeper.CheckPermissions, Sudoers.ToPb).
THEOREM PermissionsSafety == SudoSpec => []PermissionsAgree
<1>1. SudoIInv => PermissionsAgree
  BY DEF SudoIInv, Same, PermissionsAgree, CheckPermissions, GetRootAddr
<1>2. QED
  BY <1>1, SudoInvariant, PTL

\* Only a message of the root of the moment changes what a replica stores
\* (senderHasPermission in EditSudoers, the comparison of accounts in ChangeRoot).
THEOREM RootSafety == SudoSpec => OnlyRootEdits
<1>1. SudoSpec => [][RootEdits]_sudoVars
  BY SudoInvInit, StepAgrees, PTL DEF SudoSpec
<1>2. QED
  BY <1>1 DEF OnlyRootEdits, RootEdits

-----------------------------------------------------------------------------
(* x/inflation *)

\* x/inflation drives neither module it relies on: every step is one of x/epochs or leaves
\* the timers alone, and one of x/sudo or leaves the Sudoers alone.
THEOREM InflationFollowsOthers == InflationSpec => EpochsSpec /\ SudoSpec
<1>1. InflationInit => EpochsInit /\ SudoInit
  BY DEF InflationInit
<1>2. [InflationNext]_allVars => [EpochsNext]_epochVars
  BY DEF InflationNext, Block, Restart, ToggleInflation, EditInflationParams, EditSudoers,
         SudoerMsg, SudoMsg, EpochsNext, allVars
<1>3. [InflationNext]_allVars => [SudoNext]_sudoVars
  BY DEF InflationNext, Block, Restart, ToggleInflation, EditInflationParams, EditSudoers,
         SudoerMsg, SudoNext, allVars
<1>4. QED
  BY <1>1, <1>2, <1>3, PTL DEF InflationSpec, EpochsSpec, SudoSpec

-----------------------------------------------------------------------------
Day == epochs[DayEpochID]

\* Counters and parameters have the types the arithmetic needs.
CountersOK ==
    /\ currentPeriod \in Nat /\ numSkippedEpochs \in Nat
    /\ mintedEpochs \in Nat /\ lostEpochs \in Nat
    /\ params.enabled \in BOOLEAN /\ params.started \in BOOLEAN
    /\ params.enabled => params.started
    /\ params.epochsPerPeriod \in EpochsPerPeriods \ {0}

\* The number of day epochs that have ended.
Ended == IF Day.currentEpoch = 0 THEN 0 ELSE Day.currentEpoch - 1

\* Before inflation is started nothing is minted and nothing lost; that is why the hook
\* may count all epochs so far as skipped.
AccountInv ==
    /\ CountersOK
    /\ ~params.started => mintedEpochs = 0 /\ lostEpochs = 0
    /\ numSkippedEpochs + mintedEpochs + lostEpochs = Ended

\* The hook of one ended epoch keeps the account: epoch numbers of ended epochs are
\* exactly the sum of what was skipped, minted and lost so far.
LEMMA HookAccounts ==
    ASSUME CountersOK, NEW epoch \in Nat \ {0}, AfterEpochEnd(epoch), UNCHANGED params,
           ~params.started => mintedEpochs = 0 /\ lostEpochs = 0,
           numSkippedEpochs + mintedEpochs + lostEpochs = epoch - 1
    PROVE  /\ CountersOK'
           /\ ~params'.started => mintedEpochs' = 0 /\ lostEpochs' = 0
           /\ numSkippedEpochs' + mintedEpochs' + lostEpochs' = epoch
<1>1. CASE SkipEpoch(epoch)
  BY <1>1, SMT DEF SkipEpoch, CountersOK
<1>2. CASE EmptyEpoch(epoch)
  BY <1>2, SMT DEF EmptyEpoch, CountersOK
<1>3. CASE MintEpoch(epoch)
  <2>1. /\ params.enabled /\ numSkippedEpochs' = numSkippedEpochs
        /\ \/ mintedEpochs' = mintedEpochs + 1 /\ lostEpochs' = lostEpochs
           \/ mintedEpochs' = mintedEpochs /\ lostEpochs' = lostEpochs + 1
        /\ currentPeriod' \in {currentPeriod, currentPeriod + 1}
    BY <1>3 DEF MintEpoch
  <2>2. QED
    BY <2>1, SMT DEF CountersOK
<1>4. QED
  BY <1>1, <1>2, <1>3 DEF AfterEpochEnd

\* What a block reports of the day epoch, and how the timer moves.
LEMMA DayReports ==
    ASSUME EpochsIInv, NextBlock
    PROVE  \/ /\ Reported("AfterEpochEnd", DayEpochID)' = {Day.currentEpoch}
              /\ Day.currentEpoch \in Nat \ {0} /\ Day'.currentEpoch = Day.currentEpoch + 1
           \/ /\ Reported("AfterEpochEnd", DayEpochID)' = {}
              /\ \/ Day'.currentEpoch = Day.currentEpoch
                 \/ Day.currentEpoch = 0 /\ Day'.currentEpoch = 1
<1> USE EpochsAssumption, InflationAssumption
<1>1. PICK now \in (blockTime + 1)..MaxTime : BeginBlocker(now)
  BY DEF NextBlock
<1> DEFINE h == hooks'[DayEpochID]
<1>2. /\ Day \in EpochInfo
      /\ Day.epochCountingStarted => Day.currentEpoch >= 1
      /\ ~Day.epochCountingStarted => Day.currentEpoch = 0
  BY DEF EpochsIInv, EpochsTypeOK, Day
<1>3. Reported("AfterEpochEnd", DayEpochID)' =
          {h[n].epoch : n \in {j \in DOMAIN h : h[j].hook = "AfterEpochEnd"}}
  BY DEF Reported
<1>4. CASE ~Fires(DayEpochID, Day, now)
  <2>1. h = <<>> /\ Day' = Day
    BY <1>1, <1>4 DEF BeginBlocker, Day
  <2>2. DOMAIN h = {}
    BY <2>1, SMT
  <2>3. Reported("AfterEpochEnd", DayEpochID)' = {}
    BY <1>3, <2>2
  <2>4. QED
    BY <2>1, <2>3
<1>5. CASE Fires(DayEpochID, Day, now) /\ ~Day.epochCountingStarted
  <2>1. h = <<[hook |-> "BeforeEpochStart", epoch |-> 1]>>
    BY <1>1, <1>5 DEF BeginBlocker, HookCalls, Day
  <2>2. Day' = StartEpoch(Day, now, blockHeight + 1)
    BY <1>1, <1>5 DEF BeginBlocker, Day
  <2>3. Day'.currentEpoch = 1
    BY <1>5, <2>2 DEF StartEpoch
  <2>4. \A j \in DOMAIN h : h[j].hook = "BeforeEpochStart"
    BY <2>1, SMT
  <2>5. Reported("AfterEpochEnd", DayEpochID)' = {}
    BY <1>3, <2>4
  <2>6. QED
    BY <1>2, <1>5, <2>3, <2>5
<1>6. CASE Fires(DayEpochID, Day, now) /\ Day.epochCountingStarted
  <2> DEFINE a == [hook |-> "AfterEpochEnd", epoch |-> Day.currentEpoch]
             b == [hook |-> "BeforeEpochStart", epoch |-> Day.currentEpoch + 1]
  <2>1. h = <<a, b>>
    BY <1>1, <1>6 DEF BeginBlocker, HookCalls, Day
  <2>2. Day' = StartEpoch(Day, now, blockHeight + 1)
    BY <1>1, <1>6 DEF BeginBlocker, Day
  <2>3. Day'.currentEpoch = Day.currentEpoch + 1
    BY <1>6, <2>2 DEF StartEpoch
  <2>4. DOMAIN h = {1, 2} /\ h[1] = a /\ h[2] = b
    <3> HIDE DEF a, b
    <3>1. QED
      BY <2>1, SMT
  <2>5. {j \in DOMAIN h : h[j].hook = "AfterEpochEnd"} = {1}
    BY <2>4, SMT
  <2>6. h[1].epoch = Day.currentEpoch
    BY <2>4, SMT
  <2>7. Reported("AfterEpochEnd", DayEpochID)' = {Day.currentEpoch}
    BY <1>3, <2>5, <2>6
  <2>8. QED
    BY <1>2, <1>6, <2>3, <2>7, SMT DEF EpochInfo
<1>7. QED
  BY <1>4, <1>5, <1>6

\* Messages of the sudoers touch neither the counters nor the timers.
LEMMA SudoMsgAccounts ==
    ASSUME AccountInv, ToggleInflation \/ EditInflationParams \/ EditSudoers
    PROVE  AccountInv'
<1>1. UNCHANGED <<epochs, currentPeriod, numSkippedEpochs, mintedEpochs, lostEpochs>>
  BY DEF ToggleInflation, EditInflationParams, EditSudoers, SudoerMsg, SudoMsg, epochVars
<1>2. Ended' = Ended
  BY <1>1 DEF Ended, Day
<1>3. ASSUME CountersOK', ~params'.started => ~params.started PROVE AccountInv'
  BY <1>1, <1>2, <1>3 DEF AccountInv
<1>4. CASE ToggleInflation
  <2>1. PICK enabled \in BOOLEAN :
           params' = [params EXCEPT !.enabled = enabled, !.started = @ \/ enabled]
    BY <1>4 DEF ToggleInflation
  <2>2. QED
    BY <1>1, <1>3, <2>1, SMT DEF AccountInv, CountersOK
<1>5. CASE EditInflationParams
  <2>1. PICK c \in Curves, d \in Distributions, e \in EpochsPerPeriods, m \in MaxPeriods :
           params' = [params EXCEPT !.curve = c, !.distribution = d,
                                    !.epochsPerPeriod = e, !.maxPeriod = m]
    BY <1>5 DEF EditInflationParams
  <2>2. params'.epochsPerPeriod > 0
    BY <1>5 DEF EditInflationParams, Validate
  <2>3. QED
    BY <1>1, <1>3, <2>1, <2>2, SMT DEF AccountInv, CountersOK
<1>6. CASE EditSudoers
  BY <1>1, <1>3, <1>6 DEF EditSudoers, AccountInv, CountersOK
<1>7. QED
  BY <1>4, <1>5, <1>6

LEMMA AccountInit == InflationInit => AccountInv
<1> SUFFICES ASSUME InflationInit PROVE AccountInv
  OBVIOUS
<1> USE EpochsAssumption, InflationAssumption
<1>1. Ended = 0
  <2>1. PICK s \in StartTimes : Day = AddEpochInfo(GenesisEpoch(s), GenesisTime, 0)
    BY DEF InflationInit, EpochsInit, Day
  <2>2. Day.currentEpoch = 0
    BY <2>1 DEF AddEpochInfo, GenesisEpoch
  <2>3. QED
    BY <2>2 DEF Ended
<1>2. CountersOK
  BY SMT DEF InflationInit, CountersOK, Validate
<1>3. QED
  BY <1>1, <1>2, SMT DEF InflationInit, AccountInv

LEMMA AccountStep ==
    ASSUME EpochsIInv, AccountInv, [InflationNext]_allVars
    PROVE  AccountInv'
<1> USE EpochsAssumption, InflationAssumption
<1>0. Day.currentEpoch \in Nat
  BY DEF EpochsIInv, EpochsTypeOK, EpochInfo, Day
<1>1. CASE Block
  <2>1. NextBlock /\ UNCHANGED params
    BY <1>1 DEF Block
  <2>2. CASE /\ Reported("AfterEpochEnd", DayEpochID)' = {Day.currentEpoch}
             /\ Day.currentEpoch \in Nat \ {0} /\ Day'.currentEpoch = Day.currentEpoch + 1
    <3>1. AfterEpochEnd(Day.currentEpoch)
      BY <1>1, <2>2 DEF Block
    <3>2. Ended = Day.currentEpoch - 1 /\ Ended' = Day.currentEpoch
      BY <2>2, SMT DEF Ended
    <3>3. QED
      BY <2>1, <2>2, <3>1, <3>2, HookAccounts DEF AccountInv
  <2>3. CASE /\ Reported("AfterEpochEnd", DayEpochID)' = {}
             /\ \/ Day'.currentEpoch = Day.currentEpoch
                \/ Day.currentEpoch = 0 /\ Day'.currentEpoch = 1
    <3>1. UNCHANGED <<currentPeriod, numSkippedEpochs, mintedEpochs, lostEpochs>>
      BY <1>1, <2>3 DEF Block
    <3>2. Ended' = Ended
      BY <2>3, SMT DEF Ended
    <3>3. QED
      BY <2>1, <3>1, <3>2 DEF AccountInv, CountersOK
  <2>4. QED
    BY <2>1, <2>2, <2>3, DayReports
<1>2. CASE Restart
  <2>1. PICK ht \in {0, blockHeight + 1} :
           epochs' = [id \in Ids |-> AddEpochInfo(epochs[id], blockTime, ht)]
    BY <1>2 DEF Restart, ExportImport
  <2>2. Day' = AddEpochInfo(Day, blockTime, ht)
    BY <2>1 DEF Day
  <2>3. Day'.currentEpoch = Day.currentEpoch
    <3>1. Day \in EpochInfo /\ blockTime \in Nat /\ ht \in Nat
      BY <2>1, SMT DEF EpochsIInv, EpochsTypeOK, Day
    <3>2. QED
      BY <2>2, <3>1, AddEpochInfoFields
  <2>4. UNCHANGED inflVars
    BY <1>2 DEF Restart
  <2>5. QED
    BY <2>3, <2>4 DEF inflVars, AccountInv, CountersOK, Ended
<1>3. CASE ToggleInflation \/ EditInflationParams \/ EditSudoers
  BY <1>3, SudoMsgAccounts
<1>4. CASE UNCHANGED allVars
  BY <1>4 DEF allVars, epochVars, inflVars, AccountInv, CountersOK, Ended, Day
<1>5. QED
  BY <1>1, <1>2, <1>3, <1>4 DEF InflationNext

LEMMA AccountInvariant == InflationSpec => [](EpochsIInv /\ AccountInv)
<1>1. EpochsIInv /\ AccountInv /\ [InflationNext]_allVars => AccountInv'
  BY AccountStep
<1>2. QED
  BY <1>1, AccountInit, InflationFollowsOthers, EpochsInvariant, PTL DEF InflationSpec

\* Every day epoch that ended was skipped, minted or had nothing to mint, exactly once,
\* however inflation is toggled and edited and wherever the chain restarts.
THEOREM EpochsAccounted == InflationSpec => []EveryEpochAccounted
<1>1. AccountInv => EveryEpochAccounted
  BY DEF AccountInv, EveryEpochAccounted, Ended, Day
<1>2. QED
  BY <1>1, AccountInvariant, PTL

-----------------------------------------------------------------------------
\* Products of natural numbers are monotone.
LEMMA ProductMonotone ==
    ASSUME NEW d \in Nat, NEW m \in Nat, NEW n \in Nat, m <= n
    PROVE  d * m <= d * n
<1>1. PICK k \in Nat : n = m + k
  <2>1. n - m \in Nat /\ n = m + (n - m)
    BY SMT
  <2>2. QED
    BY <2>1
<1>2. d * (m + k) = d * m + d * k /\ d * k \in Nat /\ d * m \in Nat
  BY SMT
<1>3. QED
  BY <1>1, <1>2, SMT

\* Coins are minted at most once per duration of the day timer: an epoch that minted has
\* ended, and ended epochs never run ahead of the block clock.
THEOREM MintRate == InflationSpec => []MintedWithinClock
<1> USE EpochsAssumption, InflationAssumption
<1>1. EpochsIInv /\ AccountInv => MintedWithinClock
  <2> SUFFICES ASSUME EpochsIInv, AccountInv, mintedEpochs > 0
               PROVE  Duration[DayEpochID] * mintedEpochs <= blockTime - Day.startTime
    BY DEF MintedWithinClock, Day
  <2> DEFINE d == Duration[DayEpochID]
  <2>1. /\ Day \in EpochInfo /\ d \in Nat /\ blockTime \in Nat
        /\ mintedEpochs \in Nat /\ lostEpochs \in Nat /\ numSkippedEpochs \in Nat
    BY DEF EpochsIInv, EpochsTypeOK, AccountInv, CountersOK, Day
  <2>2. Day.currentEpoch \in Nat /\ Day.startTime \in Nat /\ Day.currentEpochStartTime \in Nat
    BY <2>1 DEF EpochInfo
  <2>3. Day.currentEpoch >= 1 /\ mintedEpochs <= Day.currentEpoch - 1
    BY <2>1, <2>2, SMT DEF AccountInv, Ended
  <2>4. /\ Day.currentEpochStartTime >= Day.startTime + d * (Day.currentEpoch - 1)
        /\ Day.currentEpochStartTime <= blockTime
    BY <2>2, <2>3, SMT DEF EpochsIInv, NeverAheadOfClock, Day
  <2>5. Day.currentEpoch - 1 \in Nat
    BY <2>2, <2>3, SMT
  <2>6. d * mintedEpochs <= d * (Day.currentEpoch - 1)
    BY <2>1, <2>3, <2>5, ProductMonotone
  <2>7. d * mintedEpochs \in Nat /\ d * (Day.currentEpoch - 1) \in Nat
    BY <2>1, <2>5, SMT
  <2>8. QED
    BY <2>1, <2>2, <2>4, <2>6, <2>7, SMT
<1>2. QED
  BY <1>1, AccountInvariant, PTL

-----------------------------------------------------------------------------
\* A hook that passes to the next period has seen the epochs of one more period.
LEMMA HookPeriod ==
    ASSUME CountersOK, NEW epoch \in Nat \ {0}, AfterEpochEnd(epoch), UNCHANGED params,
           numSkippedEpochs + mintedEpochs + lostEpochs = epoch - 1,
           NEW e \in Nat, e <= params.epochsPerPeriod,
           currentPeriod * e <= mintedEpochs + lostEpochs
    PROVE  currentPeriod' * e <= mintedEpochs' + lostEpochs'
<1> DEFINE epp == params.epochsPerPeriod
<1> USE InflationAssumption
<1>0. epp \in Nat /\ currentPeriod \in Nat
  BY DEF CountersOK
<1>1. CASE SkipEpoch(epoch)
  BY <1>1 DEF SkipEpoch
<1>2. CASE EmptyEpoch(epoch)
  <2>1. currentPeriod * e \in Nat
    BY <1>0, SMT
  <2>2. QED
    BY <1>2, <2>1, SMT DEF EmptyEpoch, CountersOK
<1>3. CASE MintEpoch(epoch)
  <2>1. /\ mintedEpochs' + lostEpochs' = mintedEpochs + lostEpochs + 1
        /\ \/ currentPeriod' = currentPeriod
           \/ /\ currentPeriod' = currentPeriod + 1
              /\ PeriodPassed(epoch, params, currentPeriod, numSkippedEpochs)
    BY <1>3, SMT DEF MintEpoch, CountersOK
  <2>2. CASE currentPeriod' = currentPeriod
    <3>1. currentPeriod * e \in Nat
      BY <1>0, SMT
    <3>2. QED
      BY <2>1, <2>2, <3>1, SMT DEF CountersOK
  <2>3. CASE /\ currentPeriod' = currentPeriod + 1
             /\ PeriodPassed(epoch, params, currentPeriod, numSkippedEpochs)
    <3>1. epp * currentPeriod \in Nat
      BY <1>0, SMT
    <3>2. epp * currentPeriod + epp <= mintedEpochs' + lostEpochs'
      BY <2>1, <2>3, <3>1, <1>0, SMT DEF PeriodPassed, CountersOK
    <3>3. currentPeriod * e <= currentPeriod * epp
      BY <1>0, ProductMonotone
    <3>4. /\ (currentPeriod + 1) * e = currentPeriod * e + e
          /\ currentPeriod * epp = epp * currentPeriod
          /\ currentPeriod * e \in Nat
      BY <1>0, SMT
    <3>5. mintedEpochs' + lostEpochs' \in Nat
      BY <2>1, SMT DEF CountersOK
    <3>6. QED
      BY <2>3, <3>1, <3>2, <3>3, <3>4, <3>5, <1>0, SMT
  <2>4. QED
    BY <2>1, <2>2, <2>3
<1>4. QED
  BY <1>1, <1>2, <1>3 DEF AfterEpochEnd

LEMMA PeriodStep ==
    ASSUME EpochsIInv, AccountInv, PeriodFollowsEnabledEpochs, [InflationNext]_allVars
    PROVE  PeriodFollowsEnabledEpochs'
<1> USE EpochsAssumption, InflationAssumption
<1> SUFFICES ASSUME NEW e \in EpochsPerPeriods, \A f \in EpochsPerPeriods \ {0} : e <= f
             PROVE  currentPeriod' * e <= mintedEpochs' + lostEpochs'
  BY DEF PeriodFollowsEnabledEpochs
<1>1. currentPeriod * e <= mintedEpochs + lostEpochs /\ e \in Nat
  BY DEF PeriodFollowsEnabledEpochs
<1>2. e <= params.epochsPerPeriod
  BY DEF AccountInv, CountersOK
<1>3. CASE Block
  <2>1. NextBlock /\ UNCHANGED params
    BY <1>3 DEF Block
  <2>2. CASE /\ Reported("AfterEpochEnd", DayEpochID)' = {Day.currentEpoch}
             /\ Day.currentEpoch \in Nat \ {0} /\ Day'.currentEpoch = Day.currentEpoch + 1
    <3>1. AfterEpochEnd(Day.currentEpoch)
      BY <1>3, <2>2 DEF Block
    <3>2. Ended = Day.currentEpoch - 1
      BY <2>2 DEF Ended
    <3>3. QED
      BY <1>1, <1>2, <2>1, <2>2, <3>1, <3>2, HookPeriod DEF AccountInv
  <2>3. CASE Reported("AfterEpochEnd", DayEpochID)' = {}
    BY <1>1, <1>3, <2>3 DEF Block
  <2>4. QED
    BY <2>1, <2>2, <2>3, DayReports
<1>4. CASE Restart \/ ToggleInflation \/ EditInflationParams \/ EditSudoers \/ UNCHANGED allVars
  <2>1. UNCHANGED <<currentPeriod, mintedEpochs, lostEpochs>>
    BY <1>4 DEF Restart, ToggleInflation, EditInflationParams, EditSudoers, SudoerMsg, SudoMsg,
                inflVars, allVars
  <2>2. QED
    BY <1>1, <2>1
<1>5. QED
  BY <1>3, <1>4 DEF InflationNext

\* The curve of inflation is walked no faster than inflation runs, whatever values
\* EpochsPerPeriod takes over time.
THEOREM PeriodPace == InflationSpec => []PeriodFollowsEnabledEpochs
<1>1. InflationInit => PeriodFollowsEnabledEpochs
  <2> SUFFICES ASSUME currentPeriod = 0, mintedEpochs = 0, lostEpochs = 0, NEW e \in Nat
               PROVE  currentPeriod * e <= mintedEpochs + lostEpochs
    BY InflationAssumption DEF InflationInit, PeriodFollowsEnabledEpochs
  <2>1. 0 * e = 0
    BY SMT
  <2>2. QED
    BY <2>1, SMT
<1>2. EpochsIInv /\ AccountInv /\ PeriodFollowsEnabledEpochs /\ [InflationNext]_allVars
        => PeriodFollowsEnabledEpochs'
  BY PeriodStep
<1>3. QED
  BY <1>1, <1>2, AccountInvariant, PTL DEF InflationSpec

-----------------------------------------------------------------------------
\* What GetProportions returns, and that two shares of a whole never exceed it.
LEMMA ShareBound ==
    ASSUME NEW a \in Nat, NEW p \in Nat, NEW w \in Nat \ {0}
    PROVE  /\ (a * p) \div w \in Nat
           /\ w * ((a * p) \div w) <= a * p
<1>1. a * p \in Nat
  BY SMT
<1>2. \A x \in Nat : x \div w \in Nat /\ w * (x \div w) <= x
  BY SMT
<1>3. QED
  BY <1>1, <1>2

LEMMA SharesWithinWhole ==
    ASSUME NEW a \in Nat, NEW p \in Nat, NEW q \in Nat, NEW w \in Nat \ {0}, p + q <= w
    PROVE  (a * p) \div w + (a * q) \div w <= a
<1> DEFINE s == (a * p) \div w
           c == (a * q) \div w
<1>1. s \in Nat /\ c \in Nat /\ w * s <= a * p /\ w * c <= a * q
  BY ShareBound
<1> HIDE DEF s, c
<1>2. /\ w * (s + c) = w * s + w * c /\ a * (p + q) = a * p + a * q
      /\ w * s \in Nat /\ w * c \in Nat /\ a * p \in Nat /\ a * q \in Nat
      /\ w * a = a * w /\ a * w \in Nat
  BY <1>1, SMT
<1>3. a * (p + q) <= a * w
  BY ProductMonotone, SMT
<1>4. w * (s + c) <= w * a
  BY <1>1, <1>2, <1>3, SMT
<1>5. CASE s + c > a
  <2>1. a + 1 <= s + c /\ a + 1 \in Nat /\ s + c \in Nat
    BY <1>1, <1>5, SMT
  <2>2. w * (a + 1) <= w * (s + c)
    BY <2>1, ProductMonotone
  <2>3. w * (a + 1) = w * a + w /\ w * (s + c) \in Nat
    BY <2>1, SMT
  <2>4. QED
    BY <1>2, <1>4, <2>2, <2>3, SMT
<1>6. QED
  BY <1>1, <1>5, SMT DEF s, c

\* Stored params are validated, and the module account keeps coins only after an
\* allocation that failed.
BalanceInv ==
    /\ Validate(params)
    /\ params.distribution \in Distributions
    /\ params.curve \in Curves /\ params.maxPeriod \in MaxPeriods
    /\ balance \in [Holders -> Nat]
    /\ NothingStranded

LEMMA AllocationBalances ==
    ASSUME NEW bal \in [Holders -> Nat], NEW minted \in Nat, bal["inflation"] >= minted,
           NEW d \in Distributions, d.staking >= 0, d.community >= 0, d.strategic >= 0,
           d.staking + d.community + d.strategic = Whole, NEW to \in Addrs
    PROVE  LET after == AllocatePolynomialInflation(bal, minted, d, to)
           IN  after \in [Holders -> Nat] /\ (to \notin Blocked => after["inflation"] = 0)
<1> USE InflationAssumption
<1> DEFINE staking == GetProportions(minted, d.staking)
           community == GetProportions(minted, d.community)
           sent == [bal EXCEPT !["fee_collector"] = @ + staking,
                               !["community_pool"] = @ + community,
                               !["inflation"] = @ - staking - community]
<1>1. d.staking \in Nat /\ d.community \in Nat /\ d.staking + d.community <= Whole
  <2>1. d \in [staking : Int, community : Int, strategic : Int]
    OBVIOUS
  <2>2. QED
    BY <2>1, SMT
<1>2. staking \in Nat /\ community \in Nat
  BY <1>1, ShareBound DEF GetProportions
<1>3. staking + community <= minted
  BY <1>1, SharesWithinWhole DEF GetProportions
<1>4. to \in Holders /\ "inflation" \in Holders
  BY DEF Holders
<1> HIDE DEF staking, community
<1>5. sent \in [Holders -> Nat]
  <2>1. bal["inflation"] \in Nat /\ bal["inflation"] - staking - community \in Nat
    BY <1>2, <1>3, <1>4, SMT
  <2>2. QED
    BY <1>2, <1>4, <2>1, SMT
<1> HIDE DEF sent
<1>6. AllocatePolynomialInflation(bal, minted, d, to) =
        IF to \in Blocked THEN sent
        ELSE [sent EXCEPT ![to] = @ + sent["inflation"], !["inflation"] = 0]
  BY DEF AllocatePolynomialInflation, sent, staking, community
<1>7. QED
  BY <1>4, <1>5, <1>6, SMT

\* The string that x/sudo stores as root is one of an account.
LEMMA RootIsAccount == SudoIInv => Root \in Addrs
  BY InflationAssumption, MsgStrings DEF SudoIInv, Stored, Root, GetRootAddr

LEMMA HookBalances ==
    ASSUME SudoIInv, CountersOK, BalanceInv, NEW epoch, AfterEpochEnd(epoch)
    PROVE  balance' \in [Holders -> Nat] /\ NothingStranded'
<1> USE InflationAssumption
<1>1. CASE SkipEpoch(epoch) \/ EmptyEpoch(epoch)
  BY <1>1 DEF SkipEpoch, EmptyEpoch, BalanceInv, NothingStranded
<1>2. CASE MintEpoch(epoch)
  <2> DEFINE minted == MintedCoin(params, currentPeriod)
             bal == [balance EXCEPT !["inflation"] = @ + minted]
  <2>1. minted \in Nat
    <3>0. /\ currentPeriod \in Nat /\ params.maxPeriod \in Nat
          /\ PolynomialValue(params, currentPeriod) > 0
      BY <1>2 DEF MintEpoch, CountersOK, BalanceInv
    <3>1. /\ ~(currentPeriod >= params.maxPeriod)
          /\ PolynomialValue(params, currentPeriod) = params.curve[currentPeriod]
      <4>1. CASE \/ params.epochsPerPeriod = 0 \/ ~params.enabled
                 \/ currentPeriod >= params.maxPeriod \/ params.curve[currentPeriod] < 0
        <5>1. PolynomialValue(params, currentPeriod) = 0
          BY <4>1 DEF PolynomialValue
        <5>2. QED
          BY <3>0, <5>1, SMT
      <4>2. CASE ~(\/ params.epochsPerPeriod = 0 \/ ~params.enabled
                   \/ currentPeriod >= params.maxPeriod \/ params.curve[currentPeriod] < 0)
        BY <4>2 DEF PolynomialValue
      <4>3. QED
        BY <4>1, <4>2
    <3>2. PolynomialValue(params, currentPeriod) \in Nat
      <4>1. currentPeriod \in 0..(params.maxPeriod - 1)
        BY <3>0, <3>1, SMT
      <4>2. params.curve[currentPeriod] \in Int
        BY <4>1 DEF BalanceInv
      <4>3. QED
        BY <3>0, <3>1, <4>2, SMT
    <3>3. params.epochsPerPeriod \in Nat \ {0}
      BY DEF CountersOK
    <3>4. QED
      BY <3>2, <3>3, SMT DEF MintedCoin
  <2> HIDE DEF minted
  <2>2. /\ balance' = MintAndAllocateInflation(balance, minted, params.distribution, Root)
        /\ failed' = IF minted > 0 THEN Root \in Blocked ELSE failed
    BY <1>2, SMT DEF MintEpoch, minted
  <2>3. CASE minted = 0
    BY <2>2, <2>3, SMT DEF MintAndAllocateInflation, BalanceInv, NothingStranded
  <2>4. CASE minted > 0
    <3>1. /\ bal \in [Holders -> Nat] /\ bal["inflation"] >= minted
      BY <2>1, SMT DEF BalanceInv, Holders
    <3> HIDE DEF bal
    <3>2. balance' = AllocatePolynomialInflation(bal, minted, params.distribution, Root)
      BY <2>2, <2>4, SMT DEF MintAndAllocateInflation, bal
    <3>3. balance' \in [Holders -> Nat] /\ (Root \notin Blocked => balance'["inflation"] = 0)
      BY <2>1, <3>1, <3>2, AllocationBalances, RootIsAccount DEF BalanceInv, Validate
    <3>4. failed' = (Root \in Blocked)
      BY <2>2, <2>4
    <3>5. CASE Root \in Blocked
      BY <3>3, <3>4, <3>5 DEF NothingStranded
    <3>6. CASE Root \notin Blocked
      BY <3>3, <3>6, SMT DEF NothingStranded
    <3>7. QED
      BY <3>3, <3>5, <3>6
  <2>5. QED
    BY <2>1, <2>3, <2>4, SMT
<1>3. QED
  BY <1>1, <1>2 DEF AfterEpochEnd

LEMMA BalanceStep ==
    ASSUME EpochsIInv, SudoIInv, AccountInv, BalanceInv, [InflationNext]_allVars
    PROVE  BalanceInv'
<1> USE EpochsAssumption, InflationAssumption
<1>1. CASE Block
  <2>1. NextBlock /\ UNCHANGED params
    BY <1>1 DEF Block
  <2>2. balance' \in [Holders -> Nat] /\ NothingStranded'
    <3>1. CASE Reported("AfterEpochEnd", DayEpochID)' = {}
      BY <1>1, <3>1 DEF Block, BalanceInv, NothingStranded
    <3>2. CASE Reported("AfterEpochEnd", DayEpochID)' # {}
      <4>1. PICK epoch \in Reported("AfterEpochEnd", DayEpochID)' : AfterEpochEnd(epoch)
        BY <1>1, <3>2 DEF Block
      <4>2. QED
        BY <4>1, HookBalances DEF AccountInv
    <3>3. QED
      BY <3>1, <3>2
  <2>3. QED
    BY <2>1, <2>2 DEF BalanceInv, Validate
<1>2. CASE Restart \/ UNCHANGED allVars
  BY <1>2 DEF Restart, inflVars, allVars, BalanceInv, NothingStranded, Validate
<1>3. CASE ToggleInflation
  <2>1. /\ UNCHANGED <<balance, failed>>
        /\ params'.distribution = params.distribution /\ params'.curve = params.curve
        /\ params'.maxPeriod = params.maxPeriod
        /\ params'.epochsPerPeriod = params.epochsPerPeriod
    BY <1>3, SMT DEF ToggleInflation, SudoerMsg, SudoMsg
  <2>2. QED
    BY <2>1 DEF BalanceInv, NothingStranded, Validate
<1>4. CASE EditInflationParams
  <2>1. PICK c \in Curves, d \in Distributions, e \in EpochsPerPeriods, m \in MaxPeriods :
           params' = [params EXCEPT !.curve = c, !.distribution = d,
                                    !.epochsPerPeriod = e, !.maxPeriod = m]
    BY <1>4 DEF EditInflationParams
  <2>2. /\ params'.distribution \in Distributions /\ params'.curve \in Curves
        /\ params'.maxPeriod \in MaxPeriods
    BY <2>1, SMT
  <2>3. UNCHANGED <<balance, failed>> /\ Validate(params')
    BY <1>4 DEF EditInflationParams, SudoerMsg, SudoMsg
  <2>4. QED
    BY <2>2, <2>3 DEF BalanceInv, NothingStranded
<1>5. CASE EditSudoers
  BY <1>5 DEF EditSudoers, SudoMsg, BalanceInv, NothingStranded, Validate
<1>6. QED
  BY <1>1, <1>2, <1>3, <1>4, <1>5 DEF InflationNext

LEMMA BalanceInvariant == InflationSpec => [](EpochsIInv /\ SudoIInv /\ AccountInv /\ BalanceInv)
<1>1. InflationInit => BalanceInv
  <2> SUFFICES ASSUME InflationInit PROVE BalanceInv
    OBVIOUS
  <2>1. PICK enabled \in BOOLEAN, c \in Curves, d \in Distributions,
             e \in EpochsPerPeriods, m \in MaxPeriods :
           /\ params = [enabled |-> enabled, started |-> enabled, curve |-> c,
                        distribution |-> d, epochsPerPeriod |-> e, maxPeriod |-> m]
           /\ Validate(params)
    BY DEF InflationInit
  <2>2. /\ params.distribution \in Distributions /\ params.curve \in Curves
        /\ params.maxPeriod \in MaxPeriods
    BY <2>1
  <2>3. balance \in [Holders -> Nat] /\ NothingStranded
    BY SMT DEF InflationInit, NothingStranded, Holders
  <2>4. QED
    BY <2>1, <2>2, <2>3 DEF BalanceInv
<1>2. EpochsIInv /\ SudoIInv /\ AccountInv /\ BalanceInv /\ [InflationNext]_allVars => BalanceInv'
  BY BalanceStep
<1>3. QED
  BY <1>1, <1>2, AccountInvariant, InflationFollowsOthers, SudoInvariant, PTL DEF InflationSpec

\* Stored params stay valid and no share of an allocation exceeds what the module account
\* holds: no balance goes below zero for any proportions and any rounding.
THEOREM InflationTypeCorrect == InflationSpec => []InflationTypeOK
<1>1. EpochsIInv /\ SudoIInv /\ AccountInv /\ BalanceInv => InflationTypeOK
  BY RootIsAccount DEF EpochsIInv, AccountInv, CountersOK, BalanceInv, InflationTypeOK
<1>2. QED
  BY <1>1, BalanceInvariant, PTL

\* Coins are left in the module account only by an allocation that failed.
THEOREM NoStrandedCoins == InflationSpec => []NothingStranded
<1>1. BalanceInv => NothingStranded
  BY DEF BalanceInv
<1>2. QED
  BY <1>1, BalanceInvariant, PTL

-----------------------------------------------------------------------------
(* TxIndexer *)

\* The part of TypeOK the proofs use: every height is one of the chain.
Heights ==
    /\ height \in Nat \ {0} /\ base \in 1..height
    /\ ethBlocks \subseteq 1..height /\ db \subseteq ethBlocks /\ leftOut \subseteq 1..height
    /\ headers \subseteq 1..height
    /\ chainHeightStorage \in 0..height
    /\ lastIndexedHeight \in 0..height /\ chainHeight \in 0..height /\ i \in 0..(height + 1)

\* While the loop runs, it has passed every indexed block and left no hole behind it.
Passed ==
    /\ \A h \in db : h <= lastIndexedHeight
    /\ \A h \in ethBlocks :
          h >= base /\ h <= lastIndexedHeight /\ (\E a \in db : a <= h) => h \in db \cup leftOut

\* While it indexes, the next block follows the last one, or those between are pruned.
NextInOrder == i > lastIndexedHeight /\ (i = lastIndexedHeight + 1 \/ i <= base)

\* The command counts as left out what it has not indexed.
Command == chainHeight = height - 1 /\ \A h \in ethBlocks : h <= chainHeight => h \in db \cup leftOut

\* The inductive invariant: when the process is down only NoHoleInIndex is left of it, and
\* the loop starts again from the last key.
IndexInv ==
    /\ Heights
    /\ NoHoleInIndex
    /\ pc \in Loop => Passed
    /\ pc = "index" => NextInOrder
    /\ pc = "cli" => Command

-----------------------------------------------------------------------------
\* Max and Min of the library, where they are used.
LEMMA MaxOfTwo ==
    ASSUME NEW m \in Int, NEW n \in Int
    PROVE  Max({m, n}) \in {m, n} /\ Max({m, n}) >= m /\ Max({m, n}) >= n
<1>1. \E x \in {m, n} : \A y \in {m, n} : x >= y
  BY SMT
<1>2. QED
  BY <1>1 DEF Max

LEMMA LeastNatural ==
    ASSUME NEW S \in SUBSET Nat, S # {}
    PROVE  \E x \in S : \A y \in S : x <= y
<1> DEFINE Less == {ss \in Nat \X Nat : ss[1] < ss[2]}
<1>1. IsWellFoundedOn(Less, Nat)
  BY NatLessThanWellFounded DEF OpToRel
<1>2. PICK x \in S : \A y \in S : <<y, x>> \notin Less
  <2> HIDE DEF Less
  <2> QED BY <1>1, WFMin
<1>3. \A y \in S : y < x => <<y, x>> \in Less
  OBVIOUS
<1> HIDE DEF Less
<1>4. \A y \in S : ~(y < x)
  BY <1>2, <1>3
<1>5. QED
  BY <1>4, SMT

LEMMA MaxOfBounded ==
    ASSUME NEW S \in SUBSET Nat, S # {}, NEW n \in Nat, \A s \in S : s <= n
    PROVE  Max(S) \in S /\ \A y \in S : Max(S) >= y
<1> DEFINE T == {n - s : s \in S}
<1>1. T \in SUBSET Nat /\ T # {}
  <2>1. \A s \in S : n - s \in Nat
    BY SMT
  <2> QED BY <2>1
<1>2. PICK x \in T : \A y \in T : x <= y
  <2> HIDE DEF T
  <2> QED BY <1>1, LeastNatural
<1>3. PICK s \in S : x = n - s
  BY <1>2
<1>4. \A y \in S : s >= y
  BY <1>2, <1>3, SMT
<1>5. QED
  BY <1>4 DEF Max

\* The last key of the index is the highest block in it.
LEMMA LastKey ==
    ASSUME Heights
    PROVE  /\ LastIndexedBlock \in -1..height
           /\ db = {} => LastIndexedBlock = -1
           /\ db # {} => LastIndexedBlock \in db /\ \A h \in db : h <= LastIndexedBlock
<1>1. db \in SUBSET Nat /\ height \in Nat /\ \A h \in db : h <= height
  BY SMT DEF Heights
<1>2. CASE db = {}
  BY <1>1, <1>2, SMT DEF LastIndexedBlock
<1>3. CASE db # {}
  <2>1. Max(db) \in db /\ \A h \in db : Max(db) >= h
    BY <1>1, <1>3, MaxOfBounded
  <2>2. LastIndexedBlock = Max(db)
    BY <1>3 DEF LastIndexedBlock
  <2>3. Max(db) \in Nat /\ Max(db) <= height
    BY <1>1, <2>1
  <2>4. \A h \in db : h \in Nat /\ h <= Max(db)
    BY <1>1, <2>1, <2>3
  <2>5. Max(db) \in -1..height
    BY <1>1, <2>3, SMT
  <2>6. QED
    BY <1>3, <2>1, <2>2, <2>4, <2>5
<1>4. QED
  BY <1>2, <1>3

LEMMA MinOfNaturals ==
    ASSUME NEW S \in SUBSET Nat, S # {}
    PROVE  Min(S) \in S
  BY LeastNatural DEF Min

-----------------------------------------------------------------------------
\* Heights stay within the chain.
LEMMA HeightsStep == Heights /\ [IndexerNext]_indexerVars => Heights'
<1> SUFFICES ASSUME Heights, [IndexerNext]_indexerVars PROVE Heights'
  OBVIOUS
<1> USE DEF Heights, chainVars, indexLoopVars, countVars
<1>1. CASE Commit
  BY <1>1, SMT DEF Commit
<1>2. CASE Prune
  BY <1>2, SMT DEF Prune
<1>3. CASE Start
  BY <1>3, SMT DEF Start
<1>4. CASE Subscribe
  BY <1>4 DEF Subscribe
<1>5. CASE LoadLastIndexed
  <2>1. LastIndexedBlock \in -1..height
    BY LastKey
  <2>2. QED
    BY <1>5, <2>1, SMT DEF LoadLastIndexed
<1>6. CASE ReceiveHeader
  <2>1. headers \in SUBSET Nat /\ headers # {} /\ height \in Nat /\ \A h \in headers : h <= height
    BY <1>6, SMT DEF ReceiveHeader
  <2>2. Min(headers) \in headers
    BY <2>1, MinOfNaturals
  <2>3. /\ chainHeightStorage' \in {chainHeightStorage, Min(headers)}
        /\ headers' \subseteq headers
        /\ UNCHANGED <<chainVars, db, indexLoopVars, leftOut>>
    BY <1>6 DEF ReceiveHeader
  <2>4. chainHeightStorage' \in 0..height
    BY <2>2, <2>3, SMT
  <2>5. QED
    BY <2>3, <2>4
<1>7. CASE Notify
  BY <1>7 DEF Notify
<1>8. CASE CloseDB
  BY <1>8 DEF CloseDB
<1>9. CASE Check
  BY <1>9 DEF Check
<1>10. CASE Wake
  BY <1>10 DEF Wake
<1>11. CASE Status
  <2>1. Max({lastIndexedHeight + 1, base}) \in {lastIndexedHeight + 1, base}
    <3>1. lastIndexedHeight + 1 \in Int /\ base \in Int
      BY SMT
    <3>2. QED
      BY <3>1, MaxOfTwo
  <2>2. QED
    BY <1>11, <2>1, SMT DEF Status
<1>12. CASE IndexNext
  <2>1. i \in 1..height /\ i + 1 \in 0..(height + 1)
    BY <1>12, SMT DEF IndexNext
  <2>2. db' \subseteq db \cup (ethBlocks \cap {i}) /\ leftOut' \subseteq leftOut \cup {i}
    BY <1>12 DEF IndexNext, IndexBlock
  <2>3. QED
    BY <1>12, <2>1, <2>2, SMT DEF IndexNext
<1>13. CASE IndexDone
  BY <1>13 DEF IndexDone
<1>14. CASE RequestFails
  BY <1>14 DEF RequestFails
<1>15. CASE Crash
  BY <1>15 DEF Crash
<1>16. CASE StartCommand
  <2>1. PICK from \in {LastIndexedBlock} \cup 0..(height - 1) :
          i' = Max({from, base}) /\ i' <= height - 1
    BY <1>16 DEF StartCommand
  <2>2. from \in Int /\ base \in Int
    BY LastKey, SMT
  <2>3. i' \in Int /\ i' >= base
    BY <2>1, <2>2, MaxOfTwo
  <2>4. QED
    BY <1>16, <2>1, <2>3, SMT DEF StartCommand
<1>17. CASE CommandStep
  <2>1. i' = i \/ (i' = i + 1 /\ i <= chainHeight)
    BY <1>17 DEF CommandStep
  <2>2. i' \in 0..(height + 1)
    BY <2>1, SMT
  <2>3. db' \subseteq db \cup (ethBlocks \cap {i}) /\ leftOut' \subseteq leftOut
    BY <1>17 DEF CommandStep, IndexBlock
  <2>4. QED
    BY <1>17, <2>2, <2>3 DEF CommandStep
<1>18. CASE UNCHANGED indexerVars
  BY <1>18 DEF indexerVars
<1>19. QED
  BY <1>1, <1>2, <1>3, <1>4, <1>5, <1>6, <1>7, <1>8, <1>9, <1>10, <1>11, <1>12, <1>13, <1>14,
     <1>15, <1>16, <1>17, <1>18 DEF IndexerNext

\* Every step keeps the inductive invariant.
LEMMA IndexInvStep == IndexInv /\ [IndexerNext]_indexerVars => IndexInv'
<1> SUFFICES ASSUME IndexInv, [IndexerNext]_indexerVars PROVE IndexInv'
  OBVIOUS
<1>0. Heights /\ Heights' /\ NoHoleInIndex
  BY HeightsStep DEF IndexInv
<1>1. CASE Commit
  <2>1. \A h \in db \cup {lastIndexedHeight} : h <= height
    BY <1>0, SMT DEF Heights
  <2>2. \A h \in ethBlocks' : h \in ethBlocks \/ h = height + 1
    BY <1>1 DEF Commit
  <2>3. \A b \in db : ~(height + 1 <= b)
    BY <1>0, <2>1, SMT DEF Heights
  <2>4. ~(height + 1 <= lastIndexedHeight)
    BY <1>0, <2>1, SMT DEF Heights
  <2>5. NoHoleInIndex'
    BY <1>0, <1>1, <2>2, <2>3 DEF NoHoleInIndex, Commit
  <2>6. pc \in Loop => Passed'
    BY <1>1, <2>2, <2>4 DEF IndexInv, Passed, Commit, indexLoopVars
  <2>7. QED
    BY <1>0, <1>1, <2>5, <2>6 DEF IndexInv, Commit, NextInOrder, indexLoopVars
<1>2. CASE Prune
  <2>1. \A h \in ethBlocks : h >= base' => h >= base
    BY <1>0, <1>2, SMT DEF Heights, Prune
  <2>2. NoHoleInIndex' /\ (Passed => Passed')
    BY <1>0, <1>2, <2>1 DEF NoHoleInIndex, Passed, Prune, indexLoopVars
  <2>3. NextInOrder => NextInOrder'
    BY <1>0, <1>2, SMT DEF NextInOrder, Heights, Prune, indexLoopVars
  <2>4. QED
    BY <1>0, <1>2, <2>2, <2>3 DEF IndexInv, Prune, indexLoopVars
<1>3. CASE Start
  BY <1>0, <1>3 DEF IndexInv, NoHoleInIndex, Start, Loop, chainVars
<1>4. CASE Subscribe
  BY <1>0, <1>4 DEF IndexInv, NoHoleInIndex, Subscribe, Loop, chainVars
<1>5. CASE LoadLastIndexed
  <2>1. CASE db = {}
    BY <1>0, <1>5, <2>1 DEF IndexInv, NoHoleInIndex, Passed, LoadLastIndexed, chainVars
  <2>2. CASE db # {}
    <3>1. LastIndexedBlock \in db /\ \A h \in db : h <= LastIndexedBlock
      BY <1>0, <2>2, LastKey
    <3>2. LastIndexedBlock # -1
      BY <1>0, <3>1, SMT DEF Heights
    <3>3. lastIndexedHeight' = LastIndexedBlock
      BY <1>5, <3>2 DEF LoadLastIndexed
    <3>4. Passed'
      BY <1>0, <1>5, <3>1, <3>3 DEF Passed, NoHoleInIndex, LoadLastIndexed, chainVars
    <3>5. QED
      BY <1>0, <1>5, <3>4 DEF IndexInv, NoHoleInIndex, LoadLastIndexed, chainVars
  <2>3. QED
    BY <2>1, <2>2
<1>6. CASE ReceiveHeader
  BY <1>0, <1>6 DEF IndexInv, NoHoleInIndex, Passed, NextInOrder, Command, ReceiveHeader,
                    chainVars, indexLoopVars
<1>7. CASE Notify
  BY <1>0, <1>7 DEF IndexInv, NoHoleInIndex, Passed, NextInOrder, Command, Notify,
                    chainVars, indexLoopVars
<1>8. CASE CloseDB
  BY <1>0, <1>8 DEF IndexInv, NoHoleInIndex, Passed, NextInOrder, Command, CloseDB,
                    chainVars, indexLoopVars
<1>9. CASE Check
  BY <1>0, <1>9 DEF IndexInv, NoHoleInIndex, Passed, Check, Loop, chainVars
<1>10. CASE Wake
  BY <1>0, <1>10 DEF IndexInv, NoHoleInIndex, Passed, Wake, Loop, chainVars
<1>11. CASE Status
  <2>1. lastIndexedHeight + 1 \in Int /\ base \in Int /\ lastIndexedHeight \in Int
    BY <1>0, SMT DEF Heights
  <2>2. /\ i' \in {lastIndexedHeight + 1, base}
        /\ i' >= lastIndexedHeight + 1
    BY <1>11, <2>1, MaxOfTwo DEF Status
  <2>3. NextInOrder'
    BY <1>11, <2>1, <2>2, SMT DEF NextInOrder, Status, chainVars
  <2>4. QED
    BY <1>0, <1>11, <2>3 DEF IndexInv, NoHoleInIndex, Passed, Status, Loop, chainVars
<1>12. CASE IndexNext
  <2>1. /\ pc = "index" /\ pc' = "index" /\ NextInOrder /\ Passed
        /\ lastIndexedHeight' = i /\ i' = i + 1
        /\ UNCHANGED <<base, ethBlocks>>
    BY <1>12 DEF IndexInv, IndexNext, Loop, chainVars
  <2>2. /\ db \subseteq db' /\ db' \subseteq db \cup {i}
        /\ leftOut \subseteq leftOut' \cup {i}
        /\ i \in ethBlocks => i \in db' \cup leftOut'
    BY <1>12 DEF IndexNext, IndexBlock
  <2>3. \A h \in db' : h <= i
    BY <1>0, <2>1, <2>2, SMT DEF Heights, Passed, NextInOrder
  <2>4. ASSUME NEW h \in ethBlocks, h >= base, h <= i, NEW a \in db', a <= h
        PROVE  h \in db' \cup leftOut'
    <3>1. CASE h = i
      BY <3>1, <2>2
    <3>2. CASE h # i
      <4>1. h <= lastIndexedHeight /\ h \in Nat /\ h < i
        BY <1>0, <2>1, <2>4, <3>2, SMT DEF Heights, NextInOrder
      <4>2. a # i
        BY <1>0, <4>1, <2>4, SMT DEF Heights
      <4>3. h \in db \cup leftOut
        BY <2>1, <2>2, <2>4, <4>1, <4>2 DEF Passed
      <4>4. QED
        BY <4>3, <2>2, <3>2
    <3>3. QED
      BY <3>1, <3>2
  <2>5. Passed'
    BY <2>1, <2>3, <2>4 DEF Passed
  <2>6. NoHoleInIndex'
    <3>1. ASSUME NEW h \in ethBlocks, NEW b \in db', h <= b PROVE h <= i
      <4>1. h \in Nat /\ b \in Nat /\ i \in Nat /\ b <= i
        BY <1>0, <2>1, <2>3, SMT DEF Heights
      <4>2. QED
        BY <4>1, <3>1, SMT
    <3>2. QED
      BY <2>1, <2>4, <3>1 DEF NoHoleInIndex
  <2>7. NextInOrder'
    BY <1>0, <2>1, SMT DEF Heights, NextInOrder
  <2>8. QED
    BY <1>0, <2>1, <2>5, <2>6, <2>7 DEF IndexInv
<1>13. CASE IndexDone
  BY <1>0, <1>13 DEF IndexInv, NoHoleInIndex, Passed, IndexDone, Loop, chainVars
<1>14. CASE RequestFails
  BY <1>0, <1>14 DEF IndexInv, NoHoleInIndex, Passed, RequestFails, Loop, chainVars
<1>15. CASE Crash
  BY <1>0, <1>15 DEF IndexInv, NoHoleInIndex, Crash, Loop, chainVars
<1>16. CASE StartCommand
  <2>1. NoHoleInIndex'
    BY <1>0, <1>16 DEF NoHoleInIndex, StartCommand, chainVars
  <2>2. \A h \in ethBlocks : h <= height - 1 => h \in db \cup (1..(height - 1) \ db)
    BY <1>0, SMT DEF Heights
  <2>3. Command'
    BY <1>16, <2>2 DEF Command, StartCommand, chainVars
  <2>4. QED
    BY <1>0, <1>16, <2>1, <2>3 DEF IndexInv, StartCommand, Loop
<1>17. CASE CommandStep
  <2>1. /\ Command /\ pc' \in {"cli", "down"}
        /\ UNCHANGED <<base, ethBlocks, height, chainHeight>>
    BY <1>17 DEF IndexInv, CommandStep, chainVars
  <2>2. /\ db \subseteq db'
        /\ leftOut \cap ethBlocks \subseteq db' \cup leftOut'
        /\ \A b \in db' : b \in db \/ b <= chainHeight
    BY <1>17 DEF CommandStep, IndexBlock
  <2>3. Command'
    BY <2>1, <2>2 DEF Command
  <2>4. ASSUME NEW h \in ethBlocks, NEW b \in db', h <= b PROVE h \in db' \cup leftOut'
    <3>1. h \in Nat /\ b \in Nat /\ h <= height /\ b <= height /\ height \in Nat
      BY <1>0, <2>1, SMT DEF Heights
    <3>2. CASE h <= chainHeight
      BY <2>1, <2>2, <3>2 DEF Command
    <3>3. CASE ~(h <= chainHeight)
      <4>1. h = b /\ ~(b <= chainHeight)
        BY <2>1, <2>4, <3>1, <3>3, SMT DEF Command
      <4>2. QED
        BY <4>1
    <3>4. QED
      BY <3>2, <3>3
  <2>5. NoHoleInIndex'
    BY <2>1, <2>4 DEF NoHoleInIndex
  <2>6. QED
    BY <1>0, <2>1, <2>3, <2>5 DEF IndexInv, Loop
<1>18. CASE UNCHANGED indexerVars
  BY <1>0, <1>18 DEF IndexInv, NoHoleInIndex, Passed, NextInOrder, Command, indexerVars, chainVars, indexLoopVars
<1>19. QED
  BY <1>1, <1>2, <1>3, <1>4, <1>5, <1>6, <1>7, <1>8, <1>9, <1>10, <1>11, <1>12, <1>13, <1>14,
     <1>15, <1>16, <1>17, <1>18 DEF IndexerNext

LEMMA IndexInvInit == IndexerInit => IndexInv /\ NoLostWakeup
<1> SUFFICES ASSUME IndexerInit PROVE IndexInv /\ NoLostWakeup
  OBVIOUS
<1>1. Heights
  BY SMT DEF IndexerInit, Heights
<1>2. QED
  BY <1>1 DEF IndexerInit, IndexInv, NoHoleInIndex, NoLostWakeup, Loop

\* The two goroutines: what the listener does between the loop's check and its wait.
LEMMA WakeupStep == Heights /\ NoLostWakeup /\ [IndexerNext]_indexerVars => NoLostWakeup'
<1> SUFFICES ASSUME Heights, NoLostWakeup, [IndexerNext]_indexerVars PROVE NoLostWakeup'
  OBVIOUS
<1> USE DEF NoLostWakeup
<1>1. CASE Commit \/ Prune
  BY <1>1 DEF Commit, Prune, indexLoopVars
<1>2. CASE Start \/ Subscribe \/ LoadLastIndexed
  BY <1>2 DEF Start, Subscribe, LoadLastIndexed
<1>3. CASE ReceiveHeader
  BY <1>3 DEF ReceiveHeader, indexLoopVars
<1>4. CASE Notify
  BY <1>4 DEF Notify
<1>5. CASE CloseDB
  BY <1>5 DEF CloseDB
<1>6. CASE Check
  <2>1. chainHeightStorage \in Nat /\ lastIndexedHeight \in Nat
    BY SMT DEF Heights
  <2>2. QED
    BY <1>6, <2>1, SMT DEF Check
<1>7. CASE Wake \/ Status \/ IndexNext \/ IndexDone \/ RequestFails
  BY <1>7 DEF Wake, Status, IndexNext, IndexDone, RequestFails
<1>8. CASE Crash \/ StartCommand \/ CommandStep
  BY <1>8 DEF Crash, StartCommand, CommandStep
<1>9. CASE UNCHANGED indexerVars
  BY <1>9 DEF indexerVars, indexLoopVars
<1>10. QED
  BY <1>1, <1>2, <1>3, <1>4, <1>5, <1>6, <1>7, <1>8, <1>9 DEF IndexerNext

-----------------------------------------------------------------------------
\* In every reachable state of the indexer service, of a chain of any height with any number
\* of crashes, failed requests and refused batches, a loop that waits behind the stored
\* height has a signal waiting or coming: the order of the store and the send in the
\* listener, and of the read and the wait in the loop, loses none.
THEOREM WakeupSafety == IndexerSpec => []NoLostWakeup
<1>1. IndexInv => Heights
  BY DEF IndexInv
<1>2. QED
  BY <1>1, IndexInvInit, IndexInvStep, WakeupStep, PTL DEF IndexerSpec

\* In every such state the index has no hole that pruning, a refused batch or the operator's
\* command does not account for: restarting from the last key is enough, wherever the
\* process stopped.
THEOREM IndexSafety == IndexerSpec => []NoHoleInIndex
<1>1. IndexInv => NoHoleInIndex
  BY DEF IndexInv
<1>2. QED
  BY <1>1, IndexInvInit, IndexInvStep, PTL DEF IndexerSpec
=============================================================================
