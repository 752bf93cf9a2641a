------------------------------ MODULE AppProofs ------------------------------
(***************************************************************************)
(* Theorems about App, for any accounts, transactions, prices, limits and   *)
(* lengths of blocks.  FoldProofs shows the laws of loops and sums, AppSteps *)
(* what one transaction does, AppInvariants that the invariants survive     *)
(* every step; here the three are put together.                             *)
(***************************************************************************)
EXTENDS AppSteps, AppInvariants, FoldProofs

\* The laws that AppInvariants assumes hold.
LEMMA AppLaws == StepLaws
  BY LawsHold, StepLawsHold, Zenon

\* The inductive invariant: the types of the variables, the counters of the block, and the
\* mempool as a continuation of the sequences at the beginning of the block.
LEMMA AppInvariant == Spec => []AppInv
<1>1. Init => AppInv
  BY AppLaws, AppInvInit, Zenon
<1>2. AppInv /\ [Next]_vars => AppInv'
  BY AppLaws, AppInvNext, Zenon
<1>3. QED
  BY <1>1, <1>2, PTL DEF Spec

\* The counters of the block and the log indexes of its receipts: what updateBlockBloom and
\* EthereumTx leave after every message is the number of messages and of logs so far, in
\* blocks of any length and over transactions that fail in between.
THEOREM ReceiptsSafety == Spec => []ReceiptsAreConsecutive
<1>1. AppInv => ReceiptsAreConsecutive
  BY ReceiptsFollow, Zenon
<1>2. QED
  BY <1>1, AppInvariant, PTL

\* The recheck after Commit and the check state keep the mempool executable: for any number
\* of accounts, transactions and messages the nonces that wait in it follow each other from
\* the sequences at the beginning of the block.
THEOREM MempoolSafety == Spec => []MempoolContinuesSequences
<1>1. AppInv => MempoolContinuesSequences
  BY AppLaws, MempoolFollows, Zenon
<1>2. QED
  BY <1>1, AppInvariant, PTL

-----------------------------------------------------------------------------
\* Where every recipient may receive coins, the ledger is an invariant as well.
LEMMA LedgerInvariant == ASSUME RecipientsOpen PROVE Spec => []LedgerInv
<1>1. Init => LedgerInv
  BY AppLaws, AppInvInit, LedgerInit, Zenon DEF LedgerInv
<1>2. LedgerInv /\ [Next]_vars => LedgerInv'
  <2> SUFFICES ASSUME LedgerInv, [Next]_vars PROVE LedgerInv'
    OBVIOUS
  <2>1. AppInv'
    BY AppLaws, AppInvNext, Zenon DEF LedgerInv
  <2>2. (SequencesCountSignatures /\ CoinsConserved)'
    BY AppLaws, LedgerNext, Zenon
  <2> QED BY <2>1, <2>2, Zenon DEF LedgerInv
<1>3. QED
  BY <1>1, <1>2, PTL DEF Spec

\* Every signature that passes the ante handler in a block uses up one sequence number:
\* EthereumTx sets nonces back and ends where the ante handler had left them, with any
\* number of messages and senders in a transaction.
THEOREM SequenceSafety == ASSUME RecipientsOpen PROVE Spec => []SequencesCountSignatures
<1>1. LedgerInv => SequencesCountSignatures
  BY Zenon DEF LedgerInv
<1>2. QED
  BY <1>1, LedgerInvariant, PTL

\* The mints and burns of Commit cancel out: no transaction creates or destroys coins, and
\* none stay in the account of x/evm.
THEOREM LedgerSafety == ASSUME RecipientsOpen PROVE Spec => []CoinsConserved
<1>1. LedgerInv => CoinsConserved
  BY Zenon DEF LedgerInv
<1>2. QED
  BY <1>1, LedgerInvariant, PTL

-----------------------------------------------------------------------------
\* The sender of an Ethereum transaction pays for the gas that was used, at most the whole
\* fee, and exactly that when the messages are dropped; rounding moves it by less than one
\* unibi per message, up or down, for any prices and any number of messages.
THEOREM FeeSafety == Spec => FeeMatchesGas
<1>1. AppInv /\ [Next]_vars => [FeeStep]_vars
  BY AppLaws, FeeStepHolds, Zenon
<1>2. QED
  BY <1>1, AppInvariant, PTL DEF Spec, FeeMatchesGas, FeeStep

\* No transaction takes out of the fee collector more than it paid in, however many
\* messages are refunded and however many developers are paid, while their share is at
\* most half.
THEOREM CollectorSafety == Spec => CollectorNeverShrinks
<1>1. AppInv /\ [Next]_vars => [CollectorKept]_vars
  BY AppLaws, CollectorKeeps, Zenon
<1>2. QED
  BY <1>1, AppInvariant, PTL DEF Spec, CollectorNeverShrinks, CollectorKept
=============================================================================
