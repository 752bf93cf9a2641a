----------------------------- MODULE MCFunToken -----------------------------
(***************************************************************************)
(* A small instance of FunToken: two users, NIBI and one more coin, and an  *)
(* ERC20 contract that takes a fee.                                         *)
(***************************************************************************)
EXTENDS FunToken, Sequences

CONSTANTS alice, bob

MCERC20Denom == [t \in Tokens |-> "erc20/" \o t]

\* Half of the amount, truncated, so that a small amount pays a fee and a smaller one does not.
MCFeePercentage == [t \in Tokens |-> 50]

\* Contracts of the module by nonce.
MCCreateAddress == [k \in 0..MaxNonce |-> <<"c0", "c1", "c2", "c3", "c4", "c5", "c6">>[k + 1]]

\* Alice owns everything at first.
MCGenesisCoins == [d \in Coins |-> [u \in Users |-> IF u # alice THEN 0 ELSE IF d = NativeDenom THEN 3 ELSE 2]]
MCGenesisTokens == [t \in Tokens |-> [u \in Users |-> IF u = alice THEN 3 ELSE 0]]
=============================================================================
