------------------------------- MODULE DevGas -------------------------------
(***************************************************************************)
(* x/devgas: the contracts registered for a share of the fees of the        *)
(* transactions that execute them, and the payout of that share by the ante *)
(* handler.  Every handler is an operator on the state st of the chain, of   *)
(* which it reads feeShare, devGasParams, admin, bank and collector; it      *)
(* answers Refused or Passed(new state).  Contracts are Wasm contracts with  *)
(* an admin, who may be missing, and a creator; both may be contracts.       *)
(***************************************************************************)
EXTENDS Ledger

CONSTANTS
    Contracts,   \* the addresses of the Wasm contracts
    Creator,     \* the account or contract that created each of them
    GovModule,   \* the address of x/gov
    None,        \* no address
    FeeDenom     \* the denomination of the fees in the ledger, unibi

\* LegacyDec.RoundInt of num / den: to the nearest integer, halves to the even one.
RoundInt(num, den) ==
    LET floor == num \div den
        twice == 2 * (num % den)
    IN  IF twice > den \/ (twice = den /\ floor % 2 = 1) THEN floor + 1 ELSE floor

\* Mutant: every developer gets the share of all of them.
FeePayLogicMut(fee, share, n) == RoundInt(share[1] * fee, share[2])

\* What each of n developers gets of a fee when governance shares out <<num, den>> of it.
FeePayLogic(fee, share, n) == RoundInt(share[1] * fee, share[2] * n)

\* The withdrawers of the contracts that a transaction executes, one per execution.
getWithdrawAddressesFromMsgs(st, msgs) ==
    LET add(toPay, m) ==
            IF m.type = "Execute" /\ st.feeShare[m.contract] # None
            THEN Append(toPay, st.feeShare[m.contract])
            ELSE toPay
    IN  ForEach(add, <<>>, msgs)

\* What the developers share in: the fee, if its denomination is allowed (an empty list allows
\* all), as often as the list names it.
getAllowedFees(params, fee) ==
    IF params.denoms = <<>> THEN fee
    ELSE fee * Cardinality({i \in DOMAIN params.denoms : params.denoms[i] = FeeDenom})

settleFeePayments(st, toPay, fee) ==
    LET each == FeePayLogic(getAllowedFees(st.devGasParams, fee), st.devGasParams.share, Len(toPay))
        pay(s, a) == SendFromCollector(s, a, each)
    IN  Each(pay, st, toPay)

DevGasPayout(st, msgs, fee) ==
    LET toPay == getWithdrawAddressesFromMsgs(st, msgs)
    IN  IF ~st.devGasParams.enabled \/ toPay = <<>> THEN Passed(st)
        ELSE settleFeePayments(st, toPay, fee)

-----------------------------------------------------------------------------
isContractCreatedFromFactory(st, c, sender) ==
    \/ st.admin[c] = GovModule
    \/ st.admin[c] = None /\ Creator[c] \in Contracts
    \/ st.admin[c] \notin {None, sender} /\ st.admin[c] \in Contracts

\* GetContractAdminOrCreatorAddress: the only account that may speak for a contract.
Controls(st, c, a) == a = IF st.admin[c] = None THEN Creator[c] ELSE st.admin[c]

RegisterFeeShare(st, c, sender, withdrawer) ==
    IF /\ st.devGasParams.enabled
       /\ c \in Contracts /\ st.feeShare[c] = None
       /\ IF isContractCreatedFromFactory(st, c, sender) THEN withdrawer = c
          ELSE Controls(st, c, sender)
    THEN Passed([st EXCEPT !.feeShare[c] = withdrawer])
    ELSE Refused

UpdateFeeShare(st, c, sender, withdrawer) ==
    IF /\ st.devGasParams.enabled
       /\ st.feeShare[c] \notin {None, withdrawer}
       /\ Controls(st, c, sender)
    THEN Passed([st EXCEPT !.feeShare[c] = withdrawer])
    ELSE Refused

CancelFeeShare(st, c, sender) ==
    IF st.devGasParams.enabled /\ st.feeShare[c] # None /\ Controls(st, c, sender)
    THEN Passed([st EXCEPT !.feeShare[c] = None])
    ELSE Refused

\* x/wasm: the admin hands a contract over.
UpdateAdmin(st, c, sender, admin) ==
    IF st.admin[c] = sender THEN Passed([st EXCEPT !.admin[c] = admin]) ELSE Refused

\* UpdateParams: only the authority, shares between 0 and 1, no blank denomination.
UpdateParams(st, sender, params) ==
    IF /\ sender = GovModule
       /\ params.share[1] \in 0..params.share[2]
       /\ \A i \in DOMAIN params.denoms : params.denoms[i] # ""
    THEN Passed([st EXCEPT !.devGasParams = params])
    ELSE Refused
=============================================================================
