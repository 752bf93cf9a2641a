------------------------------ MODULE Snapshots ------------------------------
(***************************************************************************)
(* What Snapshot and RevertToSnapshot promise to the EVM: a stack of saved  *)
(* states.  A step may change the visible state in any way, may save a       *)
(* state on the way, and may return to a saved state, which drops that *)
(* one and the later ones.  Nothing else changes what is saved.             *)
(***************************************************************************)
EXTENDS Naturals, Sequences

VARIABLES
    view,  \* the state the EVM sees
    saved, \* the saved states, oldest first
    txs    \* transactions that have ended

Init == saved = <<>>

\* Operations, with or without a snapshot of a state on their way.
Operate ==
    /\ saved' = saved \/ (saved' # <<>> /\ saved = SubSeq(saved', 1, Len(saved') - 1))
    /\ UNCHANGED txs

RevertToSnapshot ==
    /\ \E i \in DOMAIN saved : view' = saved[i] /\ saved' = SubSeq(saved, 1, i - 1)
    /\ UNCHANGED txs

\* The transaction ends, and the next one starts with no snapshot.
NewTx == saved' = <<>> /\ txs' = txs + 1

Next == Operate \/ RevertToSnapshot \/ NewTx

Spec == Init /\ [][Next]_<<view, saved, txs>>
=============================================================================
