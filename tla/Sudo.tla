-------------------------------- MODULE Sudo --------------------------------
(***************************************************************************)
(* x/sudo: the root account and the set of contracts with elevated          *)
(* permissions.  Every replica of the chain executes the same messages in   *)
(* the same order; the Sudoers item is part of the replicated state.  A     *)
(* bech32 string is an address with a spelling: the decoder accepts the     *)
(* upper-case form, the encoder writes lower case.                          *)
(***************************************************************************)
EXTENDS Integers, Sequences, FiniteSets, Functions

CONSTANTS
    Addrs,        \* account addresses
    Replicas,     \* nodes that execute the chain
    Spellings,    \* spellings a message may use: {"lower"} or {"lower", "upper"}
    GenesisRoot,  \* the root account of the genesis file
    MaxContracts  \* bound on the contracts that one message names

ASSUME SudoAssumption ==
    /\ IsFiniteSet(Addrs)
    /\ Spellings \subseteq {"lower", "upper"}
    /\ GenesisRoot \in Addrs
    /\ MaxContracts \in Nat

VARIABLES
    sudoers,  \* per replica, the stored Sudoers{Root, Contracts}
    signer    \* the account that signed the last message delivered

sudoVars == <<sudoers, signer>>

Bech32 == Addrs \X {"lower", "upper"}
MsgBech32 == Addrs \X Spellings
MsgContracts == {cs \in SUBSET MsgBech32 : Cardinality(cs) \in 1..MaxContracts}

AccAddressFromBech32(s) == s[1]
AccString(a) == <<a, "lower">>

-----------------------------------------------------------------------------
GetRootAddr(sudo) == AccAddressFromBech32(sudo.root)

\* Mutant: the sender of an edit is not compared with the root.
senderHasPermissionMut(sender, root) == TRUE

senderHasPermission(sender, root) == sender = root

\* A permissioned function of another module (inflation, oracle, tokenfactory, evm)
\* runs for this caller.
CheckPermissions(caller, sudo) ==
    AccString(caller) \in Range(sudo.contracts) \cup {sudo.root}

\* ToPb of a set.Set[string]: ToSlice ranges over a Go map, so any order may result.
ToPb(root, contracts) == {[root |-> root, contracts |-> s] : s \in Bijection(1..Cardinality(contracts), contracts)}

\* The Sudoers a replica may store after an "add_contracts" message.
AddContracts(sudo, sender, contracts) ==
    IF senderHasPermission(sender, sudo.root)
    THEN ToPb(sudo.root, Range(sudo.contracts) \cup
                           {AccString(AccAddressFromBech32(c)) : c \in contracts})
    ELSE {sudo}

\* Mutant: one contract is removed by its position in the stored list.
RemoveContractsMut(sudo, sender, contracts) ==
    IF senderHasPermission(sender, sudo.root) /\ sudo.contracts # <<>>
    THEN {[sudo EXCEPT !.contracts = Tail(@)]}
    ELSE {sudo}

\* After a "remove_contracts" message: strings are removed as the message spells them.
RemoveContracts(sudo, sender, contracts) ==
    IF senderHasPermission(sender, sudo.root)
    THEN ToPb(sudo.root, Range(sudo.contracts) \ contracts)
    ELSE {sudo}

\* After MsgChangeRoot: the accounts are compared, the new root is stored as spelled.
ChangeRoot(sudo, sender, newRoot) ==
    IF GetRootAddr(sudo) = AccAddressFromBech32(sender)
    THEN {[sudo EXCEPT !.root = newRoot]}
    ELSE {sudo}

-----------------------------------------------------------------------------
SudoInit ==
    /\ sudoers = [r \in Replicas |-> [root |-> AccString(GenesisRoot), contracts |-> <<>>]]
    /\ signer = GenesisRoot

\* DeliverTx on every replica: each stores one of the states its execution may give.
Deliver(sender, Exec(_)) ==
    /\ sudoers' \in {f \in [Replicas -> UNION {Exec(sudoers[r]) : r \in Replicas}] :
                       \A r \in Replicas : f[r] \in Exec(sudoers[r])}
    /\ signer' = AccAddressFromBech32(sender)

MsgAddContracts ==
    \E sender \in MsgBech32, contracts \in MsgContracts :
        Deliver(sender, LAMBDA s : AddContracts(s, sender, contracts))

MsgRemoveContracts ==
    \E sender \in MsgBech32, contracts \in MsgContracts :
        Deliver(sender, LAMBDA s : RemoveContracts(s, sender, contracts))

MsgChangeRoot ==
    \E sender, newRoot \in MsgBech32 :
        Deliver(sender, LAMBDA s : ChangeRoot(s, sender, newRoot))

\* A message of another module: it may ask CheckPermissions and edits no Sudoers.
OtherMsg ==
    /\ signer' \in Addrs
    /\ UNCHANGED sudoers

SudoNext == MsgAddContracts \/ MsgRemoveContracts \/ MsgChangeRoot \/ OtherMsg

SudoSpec == SudoInit /\ [][SudoNext]_sudoVars

-----------------------------------------------------------------------------
\* Replicas never disagree on who may call a permissioned function, although each
\* may hold the contracts in another order.
PermissionsAgree ==
    \A a \in Addrs, r1, r2 \in Replicas :
        /\ CheckPermissions(a, sudoers[r1]) = CheckPermissions(a, sudoers[r2])
        /\ GetRootAddr(sudoers[r1]) = GetRootAddr(sudoers[r2])

\* An account gains or loses permissions only through a message of the account that is
\* root at that moment: a past root or a sudo contract cannot edit the Sudoers.
OnlyRootEdits ==
    [][\A r \in Replicas :
         sudoers'[r] # sudoers[r] => signer' = GetRootAddr(sudoers[r])]_sudoVars

\* x/common/omap/omap.go: "Every action, given the same input, should consistently yield
\* the same result": replicas store the same Sudoers after the same messages.
SudoersAgree == \A r1, r2 \in Replicas : sudoers[r1] = sudoers[r2]
=============================================================================
