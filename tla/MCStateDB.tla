------------------------------ MODULE MCStateDB ------------------------------
(* The sender "s", a contract "c" and an account "n" that may not exist yet. *)
EXTENDS StateDB

MCAccount(kind) ==
    [exists |-> kind # "none", nonce |-> IF kind = "contract" THEN 1 ELSE 0,
     code |-> IF kind = "contract" THEN "code" ELSE EmptyCode]

MCStore(kinds, funds, slot) ==
    [acct |-> [a \in Addrs |-> MCAccount(kinds[a])], bank |-> funds,
     slots |-> [a \in Addrs |-> [k \in Keys |-> IF a = "c" THEN slot ELSE 0]], other |-> 0]

\* The third account is new, or holds coins already.
MCNew == {MCStore([s |-> "user", c |-> "contract", n |-> "none"], [s |-> 2, c |-> 1, n |-> 0], 0)}
MCFunded ==
    {MCStore([s |-> "user", c |-> "contract", n |-> "user"], [s |-> 2, c |-> 0, n |-> 1], 1)}
MCGenesis == MCNew \cup MCFunded
=============================================================================
