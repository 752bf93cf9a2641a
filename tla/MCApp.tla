------------------------------- MODULE MCApp -------------------------------
(***************************************************************************)
(* Instances of App.  Users 1 and 3; 2 is a module account that lies         *)
(* between them in the order of addresses; 4 and 5 are Wasm contracts: 4     *)
(* belongs to user 1 and is registered, 5 was created by 4.                  *)
(***************************************************************************)
EXTENDS App, TLC

CONSTANTS MaxNonce, Singles, Pairs

\* A transfer, one that is rounded down to unibi, one of less than a unibi, a message
\* without enough gas at no price; transfers to the module account from both its sides.
Transfer == [from |-> 1, to |-> 3, value |-> 2, gas |-> 3, tip |-> 3, cap |-> 3]
Rounded == [from |-> 3, to |-> 1, value |-> 3, gas |-> 2, tip |-> 1, cap |-> 4]
Dust == [from |-> 1, to |-> 3, value |-> 1, gas |-> 2, tip |-> 2, cap |-> 2]
Cheap == [from |-> 1, to |-> 1, value |-> 0, gas |-> 1, tip |-> 0, cap |-> 0]
ToModule(a) == [from |-> a, to |-> 2, value |-> 2, gas |-> 2, tip |-> 2, cap |-> 2]

MCSingles == {Transfer, Rounded, Dust, Cheap}
MCPairs == {<<Transfer, Transfer>>, <<Transfer, Rounded>>, <<Transfer, Cheap>>}
MCToModule == {ToModule(a) : a \in Users}

Sign(m, n) == [nonce |-> n] @@ m
Eth(msgs) == [kind |-> "eth", msgs |-> msgs]
MCEthTxs ==
    {Eth(<<Sign(m, n)>>) : m \in Singles, n \in 0..MaxNonce}
    \cup {Eth(<<Sign(p[1], n), Sign(p[2], IF p[1].from = p[2].from THEN n + 1 ELSE k)>>) :
             p \in Pairs, n, k \in 0..MaxNonce}

Sdk(a, n, fee, msgs) ==
    [kind |-> "sdk", from |-> a, nonce |-> n, fee |-> fee, gas |-> 1, msgs |-> msgs]
Execute(c) == [type |-> "Execute", contract |-> c]
Executions(n) == Sdk(3, n, 3, <<Execute(4), Execute(5)>>)
MCSdkTxs ==
    {Executions(n) : n \in 0..MaxNonce}
    \cup {Sdk(1, 0, 0, <<[type |-> "UpdateFeeShare", contract |-> 4, withdrawer |-> 3],
                         [type |-> "RegisterFeeShare", contract |-> 5, withdrawer |-> 5]>>),
          Sdk(1, 1, 0, <<[type |-> "CancelFeeShare", contract |-> 4],
                         [type |-> "UpdateAdmin", contract |-> 4, admin |-> 3]>>)}

MCSubmitted ==
    {Eth(<<Sign(Transfer, n)>>) : n \in 0..MaxNonce}
    \cup {Eth(<<Sign(Transfer, 0), Sign(Transfer, 1)>>), Executions(0)}

MCOutcomes == {[used |-> 2, failed |-> FALSE, logs |-> 0, refund |-> 1],
               [used |-> 3, failed |-> FALSE, logs |-> 2, refund |-> 0],
               [used |-> 3, failed |-> TRUE, logs |-> 1, refund |-> 0]}
MCParams == {[enabled |-> TRUE, share |-> <<1, 1>>, denoms |-> <<>>],
             [enabled |-> TRUE, share |-> <<1, 2>>, denoms |-> <<"unibi", "unibi">>]}
MCGenesis ==
    [seq |-> [a \in 1..5 |-> 0], bank |-> <<12, 0, 9, 0, 0>>, collector |-> 0, evm |-> 0,
     txIndex |-> 0, logSize |-> 0, bloom |-> {},
     feeShare |-> (4 :> 4 @@ 5 :> 0), admin |-> (4 :> 1 @@ 5 :> 4),
     devGasParams |-> [enabled |-> TRUE, share |-> <<1, 2>>, denoms |-> <<"atom", "unibi">>]]
MCCreator == (4 :> 1 @@ 5 :> 4)
=============================================================================
