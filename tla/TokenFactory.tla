---------------------------- MODULE TokenFactory ----------------------------
(***************************************************************************)
(* x/tokenfactory: bank denominations that any account may create and whose *)
(* admin mints, burns and describes them.  The bank keeper (balances,       *)
(* metadata) is a service the module uses; coins are minted into and burnt  *)
(* from the account of the module, which messages may name as any other.    *)
(* baseapp drops what a message wrote before it returned an error.          *)
(*                                                                          *)
(* Addresses in messages and in the store are bech32 strings, and one       *)
(* account may have two of them (lower and upper case).                     *)
(***************************************************************************)
EXTENDS Integers, FiniteSets, Functions

CONSTANTS
    Strings,    \* bech32 strings
    Accounts,   \* accounts
    AccOf,      \* AccAddressFromBech32: the account a string denotes
    Subdenoms,
    Native,     \* denominations of the bank that are not of the factory
    Blocked,    \* accounts the bank keeper blocks as recipients
    Sudoers,    \* accounts that pass CheckPermissions of x/sudo
    Module,     \* the module account of x/tokenfactory, one of the blocked accounts
    MaxSupply,  \* bound on the supply of a denomination
    MaxRestarts \* bound on the genesis restarts

\* Blocked accounts are module accounts, which sign nothing.
Signers == {s \in Strings : AccOf[s] \notin Blocked}
\* "tf/{creator}/{subdenom}", for creators that may exist
TFDenom == Signers \X Subdenoms
Denoms == TFDenom \cup Native

ASSUME TokenFactoryAssumption ==
    /\ AccOf \in [Strings -> Accounts]
    /\ Blocked \subseteq Accounts /\ Sudoers \subseteq Accounts
    /\ IsFiniteSet(Accounts) /\ Module \in Blocked
    /\ TFDenom \cap Native = {}
    /\ MaxSupply \in Nat \ {0} /\ MaxRestarts \in Nat

VARIABLES
    denoms,       \* Store.Denoms: the denominations of the factory
    creators,     \* Store.creator
    denomAdmins,  \* Store.denomAdmins: the admin string of a denomination
    metadata,     \* bank metadata: "none", "default" of the factory, or "custom"
    balance,      \* bank balances
    supply,       \* bank supply
    signer,       \* the account whose message was executed last
    restarts

tfStore == <<denoms, creators, denomAdmins>>
tfVars == <<denoms, creators, denomAdmins, metadata, balance, supply, signer, restarts>>

-----------------------------------------------------------------------------
\* Mutant: a denomination is known once it has a supply.
HasDenomMut(d) == \E h \in Accounts : balance[h][d] > 0

\* "The x/bank keeper is the source of truth."
HasDenom(d) == metadata[d] # "none"

HasAdmin(d) == d \in DOMAIN denomAdmins

\* Mutant: a missing admin is read as the empty value, which is not compared.
IsAdminMut(sender, d) == HasAdmin(d) => denomAdmins[d] = sender

\* GetAdmin and the comparison of strings that Mint, Burn, ChangeAdmin and
\* SetDenomMetadata make.
IsAdmin(sender, d) == HasAdmin(d) /\ denomAdmins[d] = sender

\* Mutant: the creator is not indexed.
unsafeInsertDenomMut(d, admin) ==
    /\ denoms' = denoms \cup {d}
    /\ UNCHANGED creators
    /\ metadata' = [metadata EXCEPT ![d] = "default"]
    /\ denomAdmins' = [x \in DOMAIN denomAdmins \cup {d} |-> IF x = d THEN admin ELSE denomAdmins[x]]

\* Overwrites what is there, the bank metadata included.
unsafeInsertDenom(d, admin) ==
    /\ denoms' = denoms \cup {d}
    /\ creators' = creators \cup {d[1]}
    /\ metadata' = [metadata EXCEPT ![d] = "default"]
    /\ denomAdmins' = [x \in DOMAIN denomAdmins \cup {d} |-> IF x = d THEN admin ELSE denomAdmins[x]]

-----------------------------------------------------------------------------
TFInit ==
    /\ denoms = {} /\ creators = {}
    /\ denomAdmins = [d \in {} |-> ""]
    /\ metadata = [d \in Denoms |-> IF d \in Native THEN "custom" ELSE "none"]
    /\ \E a \in Sudoers \ Blocked : balance = [h \in Accounts |-> [d \in Denoms |->
                                         IF d \in Native /\ h = a THEN 1 ELSE 0]]
    /\ supply = [d \in Denoms |-> IF d \in Native THEN 1 ELSE 0]
    /\ signer = Module
    /\ restarts = 0

Signed(sender) == signer' = AccOf[sender] /\ UNCHANGED restarts

CreateDenom(sender, sub) ==
    LET d == <<sender, sub>>
    IN  /\ ~HasDenom(d)
        /\ unsafeInsertDenom(d, sender)
        /\ Signed(sender)
        /\ UNCHANGED <<balance, supply>>

\* Any string that parses may become the admin.
ChangeAdmin(sender, d, newAdmin) ==
    /\ IsAdmin(sender, d)
    /\ denomAdmins' = [denomAdmins EXCEPT ![d] = newAdmin]
    /\ Signed(sender)
    /\ UNCHANGED <<denoms, creators, metadata, balance, supply>>

\* The bank in the branch of the store that a message runs on.
Bank == [balance |-> balance, supply |-> supply, err |-> FALSE]

Fail(b) == [b EXCEPT !.err = TRUE]

\* One coin more (n = 1) or less (n = -1).
Add(amounts, a, d, n) == [amounts EXCEPT ![a][d] = @ + n]

MintCoins(b, d) ==
    [balance |-> Add(b.balance, Module, d, 1), supply |-> [b.supply EXCEPT ![d] = @ + 1], err |-> FALSE]

BurnCoins(b, d) ==
    IF b.balance[Module][d] < 1 THEN Fail(b)
    ELSE [balance |-> Add(b.balance, Module, d, -1), supply |-> [b.supply EXCEPT ![d] = @ - 1],
          err |-> FALSE]

SendCoins(b, from, to, d) ==
    IF b.balance[from][d] < 1 THEN Fail(b)
    ELSE [b EXCEPT !.balance = Add(Add(@, from, d, -1), to, d, 1)]

\* baseapp: the branch is written when the message returned no error, and dropped when it did.
RunMsg(sender, b) ==
    IF b.err THEN UNCHANGED tfVars
    ELSE /\ balance' = b.balance
         /\ supply' = b.supply
         /\ Signed(sender)
         /\ UNCHANGED <<tfStore, metadata>>

\* Mutant: a blocked recipient ends the call without an error.
mintMut(b, d, to) ==
    LET minted == MintCoins(b, d)
    IN  IF to \in Blocked THEN minted ELSE SendCoins(minted, Module, to, d)

\* The coins are minted to the module account before the recipient is looked at.
mint(b, d, to) ==
    LET minted == MintCoins(b, d)
    IN  IF to \in Blocked THEN Fail(minted) ELSE SendCoins(minted, Module, to, d)

Mint(sender, d, mintTo) ==
    /\ IsAdmin(sender, d)
    /\ supply[d] < MaxSupply
    /\ RunMsg(sender, mint(Bank, d, AccOf[mintTo]))

\* SendCoinsFromAccountToModule, then BurnCoins.
CollectAndBurn(b, from, d) ==
    LET sent == SendCoins(b, from, Module, d)
    IN  IF sent.err THEN sent ELSE BurnCoins(sent, d)

\* From any account that is not blocked.
burn(b, d, from) == IF from \in Blocked THEN Fail(b) ELSE CollectAndBurn(b, from, d)

Burn(sender, d, burnFrom) ==
    /\ IsAdmin(sender, d)
    /\ RunMsg(sender, burn(Bank, d, AccOf[burnFrom]))

\* A holder burns coins of any denomination.
BurnNative(sender, d) == RunMsg(sender, CollectAndBurn(Bank, AccOf[sender], d))

SetDenomMetadata(sender, d) ==
    /\ IsAdmin(sender, d)
    /\ metadata' = [metadata EXCEPT ![d] = "custom"]
    /\ Signed(sender)
    /\ UNCHANGED <<tfStore, balance, supply>>

\* MsgSend of the bank, where it is not refused.
Send(sender, to, d) ==
    /\ AccOf[to] \notin Blocked /\ AccOf[sender] # AccOf[to]
    /\ balance[AccOf[sender]][d] >= 1
    /\ RunMsg(sender, SendCoins(Bank, AccOf[sender], AccOf[to], d))

\* A sudoer sets the metadata of any denomination, existing or not.
SudoSetDenomMetadata(sender, d) ==
    /\ AccOf[sender] \in Sudoers
    /\ metadata' = [metadata EXCEPT ![d] = "custom"]
    /\ Signed(sender)
    /\ UNCHANGED <<tfStore, balance, supply>>

\* ExportGenesis and InitGenesis: the factory imports its denominations after the bank
\* imported its own state, and stores the default metadata for each of them.
Restart ==
    /\ restarts < MaxRestarts
    /\ restarts' = restarts + 1
    /\ denoms \subseteq DOMAIN denomAdmins
    /\ denoms' = denoms
    /\ creators' = {d[1] : d \in denoms}
    /\ denomAdmins' = [d \in denoms |-> denomAdmins[d]]
    /\ metadata' = [d \in Denoms |-> IF d \in denoms THEN "default" ELSE metadata[d]]
    /\ UNCHANGED <<balance, supply, signer>>

TFNext ==
    \/ \E s \in Signers :
        \/ \E sub \in Subdenoms : CreateDenom(s, sub)
        \/ \E d \in TFDenom, t \in Strings : ChangeAdmin(s, d, t)
        \/ \E d \in TFDenom, t \in Strings : Mint(s, d, t)
        \/ \E d \in TFDenom, t \in Strings : Burn(s, d, t)
        \/ \E d \in Denoms : BurnNative(s, d)
        \/ \E d \in Denoms : SetDenomMetadata(s, d)
        \/ \E d \in Denoms : SudoSetDenomMetadata(s, d)
        \/ \E d \in Denoms, t \in Strings : Send(s, t, d)
    \/ Restart

TFSpec == TFInit /\ [][TFNext]_tfVars

-----------------------------------------------------------------------------
\* Type invariant.
TFTypeOK ==
    /\ denoms \subseteq TFDenom
    /\ creators \subseteq Strings
    /\ DOMAIN denomAdmins \subseteq TFDenom
    /\ \A d \in DOMAIN denomAdmins : denomAdmins[d] \in Strings
    /\ metadata \in [Denoms -> {"none", "default", "custom"}]
    /\ balance \in [Accounts -> [Denoms -> Nat]]
    /\ supply \in [Denoms -> 0..MaxSupply]
    /\ signer \in Accounts
    /\ restarts \in 0..MaxRestarts

\* The collections of the module and the bank agree: a denomination of the factory has
\* one admin (ExportGenesis panics without), its creator is indexed, and HasDenom finds it.
RegistryConsistent ==
    /\ denoms = DOMAIN denomAdmins
    /\ creators = {d[1] : d \in denoms}
    /\ \A d \in denoms : HasDenom(d)

\* A denomination is registered once: its admin changes only by a message of that
\* admin, so a creator who handed it over never gets it back by creating it again.
OnlyAdminHandsOver ==
    [][\A d \in denoms : /\ d \in denoms'
                         /\ denomAdmins'[d] # denomAdmins[d] => signer' = AccOf[denomAdmins[d]]]_tfVars

\* The supply of a denomination grows only by a message of its admin, and an account
\* loses coins only by its own message or by one of the admin.
OnlyAdminMints ==
    [][\A d \in Denoms :
         /\ supply'[d] > supply[d] => HasAdmin(d) /\ signer' = AccOf[denomAdmins[d]]
         /\ \A a \in Accounts : balance'[a][d] < balance[a][d] =>
               signer' = a \/ (HasAdmin(d) /\ signer' = AccOf[denomAdmins[d]])]_tfVars

\* Mint and burn put coins in the module account and a message may fail with them there,
\* or name that account as recipient or holder (k.mint, k.burn, BurnNative); yet between
\* two messages it holds nothing, and the other accounts hold exactly the supply.  A
\* denomination that was never created has none.
NothingLeftBehind ==
    /\ \A d \in Denoms : supply[d] = SumFunction([a \in Accounts |-> balance[a][d]])
    /\ \A d \in Denoms : balance[Module][d] = 0
    /\ \A d \in TFDenom \ denoms : supply[d] = 0
=============================================================================
