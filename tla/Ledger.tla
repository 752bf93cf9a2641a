------------------------------- MODULE Ledger -------------------------------
(***************************************************************************)
(* The accounts and balances that transactions of both kinds share, as the  *)
(* handlers use them (x/auth and x/bank are libraries).  A state st of the   *)
(* chain is a record with seq and bank, functions of addresses, and         *)
(* collector, the balance of the fee collector; a handler is an operator     *)
(* that answers Refused or Passed(new state).  Amounts are in unibi.         *)
(***************************************************************************)
EXTENDS Integers, Sequences, FiniteSetsExt, Folds, Functions

CONSTANT Blocked   \* module accounts the bank lets nobody send coins to

Refused == [ok |-> FALSE]
Passed(st) == [ok |-> TRUE, st |-> st]

\* A loop over a list.
ForEach(op(_, _), base, list) ==
    MapThenFoldSet(LAMBDA x, acc : op(acc, x), base, LAMBDA i : list[i], Max, DOMAIN list)

\* A loop that stops at the first error.
Each(Step(_, _), st, list) ==
    ForEach(LAMBDA acc, x : IF acc.ok THEN Step(acc.st, x) ELSE acc, Passed(st), list)

\* DeductFees: SendCoinsFromAccountToModule, to the fee collector.
DeductFees(st, a, n) ==
    IF n > st.bank[a] THEN Refused
    ELSE Passed([st EXCEPT !.bank[a] = @ - n, !.collector = @ + n])

\* SendCoinsFromModuleToAccount, from the fee collector.
SendFromCollector(st, a, n) ==
    IF a \in Blocked \/ n > st.collector THEN Refused
    ELSE Passed([st EXCEPT !.bank[a] = @ + n, !.collector = @ - n])

\* A signature is for the next sequence of its account, and uses it up.
IncrementSequence(st, sig) ==
    IF st.seq[sig.from] # sig.nonce THEN Refused
    ELSE Passed([st EXCEPT !.seq[sig.from] = @ + 1])
=============================================================================
