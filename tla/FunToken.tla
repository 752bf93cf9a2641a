------------------------------ MODULE FunToken ------------------------------
(***************************************************************************)
(* FunToken mappings of x/evm: one asset as a Bank Coin and as an ERC20.    *)
(*                                                                         *)
(* A mapping made from a coin owns its ERC20 contract: coins are escrowed   *)
(* in the EVM module account while ERC20 tokens are minted for them.  A     *)
(* mapping made from an ERC20 mints its coin: ERC20 tokens are escrowed in  *)
(* the module while coins exist for them.  Messages and precompile calls    *)
(* convert in both directions; users also move both forms on their own.     *)
(* A message or call that fails changes nothing and has no step.            *)
(***************************************************************************)
EXTENDS Integers, FiniteSets, FiniteSetsExt

CONSTANTS
    Users,             \* accounts that sign messages and call contracts
    Module,            \* EVM_MODULE_ADDRESS, the account of the EVM module
    Pot,               \* where a token with a transfer fee collects it
    Coins,             \* bank denominations that are not made by x/evm
    NativeDenom,       \* evm.EVMBankDenom, "unibi"
    Tokens,            \* ERC20 contracts deployed by users
    FeePercentage,     \* FeePercentage[t]: FEE_PERCENTAGE of contract t, 0 for a plain ERC20
    ERC20Denom,        \* ERC20Denom[t]: the denomination "erc20/{t}"
    CreateAddress,     \* CreateAddress[n]: contract the module deploys at nonce n
    CreateFuntokenFee, \* evm.Params.CreateFuntokenFee
    GenesisCoins,      \* GenesisCoins[d][u], GenesisTokens[t][u]: first balances
    GenesisTokens,
    GenesisMetadata,   \* denominations with bank metadata at genesis
    Amounts,           \* amounts that users name
    MaxNonce           \* bound on the nonce of the module account

Accounts == Users \cup {Module, Pot}
Recipients == Users \cup {Module}
Nonces == 0..MaxNonce
Contracts == Tokens \cup {CreateAddress[k] : k \in Nonces}
Denoms == Coins \cup {ERC20Denom[t] : t \in Tokens}

TotalOf(balances) == MapThenSumSet(LAMBDA a : balances[a], DOMAIN balances)

\* Addresses of contracts do not collide, nor do denominations (a coin cannot be
\* named "erc20/..." but by x/evm), and genesis balances belong to users.
ASSUME FunTokenAssumption ==
    /\ Module \notin Users /\ Pot \notin Users /\ Module # Pot
    /\ NativeDenom \in Coins
    /\ MaxNonce \in Nat
    /\ \A k \in Nonces : CreateAddress[k] \notin Tokens
    /\ \A k, l \in Nonces : CreateAddress[k] = CreateAddress[l] => k = l
    /\ \A t \in Tokens : ERC20Denom[t] \notin Coins
    /\ \A t, s \in Tokens : ERC20Denom[t] = ERC20Denom[s] => t = s
    /\ CreateFuntokenFee \in Nat
    /\ GenesisCoins \in [Coins -> [Users -> Nat]]
    /\ GenesisTokens \in [Tokens -> [Users -> Nat]]
    /\ GenesisMetadata \subseteq Denoms
    /\ \A d \in Coins : TotalOf(GenesisCoins[d]) \in Nat
    /\ \A t \in Tokens : TotalOf(GenesisTokens[t]) \in Nat
    /\ Amounts \subseteq Nat \ {0}
    /\ FeePercentage \in [Tokens -> 0..100]

VARIABLES
    funtokens,  \* the FunTokens collection
    metadata,   \* denominations with (suitable) bank metadata
    bank,       \* bank[d][a]: coins of an account
    bankSupply, \* bankSupply[d]: bank supply of a denomination
    erc20,      \* erc20[c][a]: balanceOf
    erc20Supply,\* erc20Supply[c]: totalSupply
    nonce       \* nonce of the module account

ftVars == <<funtokens, metadata, bank, bankSupply, erc20, erc20Supply, nonce>>

FunTokens == [erc20 : Contracts, denom : Denoms, isMadeFromCoin : BOOLEAN]

\* The indexes of the collection.
ByDenom(d) == {f \in funtokens : f.denom = d}
ByERC20(c) == {f \in funtokens : f.erc20 = c}

\* DefaultGenesisState: no mapping yet.  Users have deployed their contracts.
FTInit ==
    /\ funtokens = {}
    /\ metadata = GenesisMetadata
    /\ bank = [d \in Denoms |-> [a \in Accounts |->
                 IF d \in Coins /\ a \in Users THEN GenesisCoins[d][a] ELSE 0]]
    /\ bankSupply = [d \in Denoms |-> IF d \in Coins THEN TotalOf(GenesisCoins[d]) ELSE 0]
    /\ erc20 = [c \in Contracts |-> [a \in Accounts |->
                 IF c \in Tokens /\ a \in Users THEN GenesisTokens[c][a] ELSE 0]]
    /\ erc20Supply = [c \in Contracts |-> IF c \in Tokens THEN TotalOf(GenesisTokens[c]) ELSE 0]
    /\ nonce = 0

-----------------------------------------------------------------------------
\* Bank balances after a send; sender and recipient may be the same.
Sent(d, from, to, n) ==
    [bank EXCEPT ![d] = [a \in Accounts |-> bank[d][a]
        - (IF a = from THEN n ELSE 0) + (IF a = to THEN n ELSE 0)]]

\* What a transfer of n tokens keeps back: the contract takes it as TestERC20TransferWithFee
\* does; the contracts that the module deploys take nothing.
TransferFee(c, n) == IF c \in Tokens THEN (n * FeePercentage[c]) \div 100 ELSE 0

\* Balances after "transfer" of contract c.
Transferred(c, from, to, n) ==
    LET fee == TransferFee(c, n)
    IN  [a \in Accounts |-> erc20[c][a]
            - (IF a = from THEN n ELSE 0)
            + (IF a = Pot THEN fee ELSE 0)
            + (IF a = to THEN n - fee ELSE 0)]

\* ERC20().Transfer returns by how much the balance of the recipient grew.
BalanceIncrease(c, from, to, n) == Transferred(c, from, to, n)[to] - erc20[c][to]

\* ERC20().Transfer: fails unless the recipient got something.
CanTransfer(c, from, to, n) ==
    erc20[c][from] >= n /\ BalanceIncrease(c, from, to, n) > 0

\* A call of the EVM module account uses one nonce of it.
ModuleCall == nonce < MaxNonce /\ nonce' = nonce + 1

\* deductCreateFunTokenFee: the fee goes to the module account and is burnt there.
DeductFee(u) ==
    /\ bank[NativeDenom][u] >= CreateFuntokenFee
    /\ bank' = [bank EXCEPT ![NativeDenom][u] = @ - CreateFuntokenFee]
    /\ bankSupply' = [bankSupply EXCEPT ![NativeDenom] = @ - CreateFuntokenFee]

\* SafeInsert
Insert(c, d, fromCoin) ==
    funtokens' = funtokens \cup {[erc20 |-> c, denom |-> d, isMadeFromCoin |-> fromCoin]}

\* CreateFunToken with from_bank_denom: deploys an ERC20 contract of the module.
CreateFunTokenFromCoin(u, d) ==
    /\ DeductFee(u)
    /\ ByDenom(d) = {}
    /\ d \in metadata
    /\ ModuleCall
    /\ ByERC20(CreateAddress[nonce]) = {}
    /\ Insert(CreateAddress[nonce], d, TRUE)
    /\ UNCHANGED <<metadata, erc20, erc20Supply>>

\* Mutant: bank metadata is not taken for a registration.
CreateFunTokenFromERC20Mut(u, t) ==
    /\ DeductFee(u)
    /\ ByERC20(t) = {}
    /\ ModuleCall
    /\ metadata' = metadata \cup {ERC20Denom[t]}
    /\ Insert(t, ERC20Denom[t], FALSE)
    /\ UNCHANGED <<erc20, erc20Supply>>

\* CreateFunToken with from_erc20: registers the coin "erc20/{t}".
CreateFunTokenFromERC20(u, t) ==
    /\ DeductFee(u)
    /\ ByERC20(t) = {}
    /\ ModuleCall
    /\ ERC20Denom[t] \notin metadata
    /\ ByDenom(ERC20Denom[t]) = {}
    /\ metadata' = metadata \cup {ERC20Denom[t]}
    /\ Insert(t, ERC20Denom[t], FALSE)
    /\ UNCHANGED <<erc20, erc20Supply>>

-----------------------------------------------------------------------------
\* From coin to ERC20.

\* Coins go to the module account, the module mints ERC20 tokens for them.
EscrowAndMint(f, u, to, n) ==
    /\ bank' = Sent(f.denom, u, Module, n)
    /\ erc20' = [erc20 EXCEPT ![f.erc20][to] = @ + n]
    /\ erc20Supply' = [erc20Supply EXCEPT ![f.erc20] = @ + n]
    /\ UNCHANGED bankSupply

\* Mutant: only what the recipient got is burnt.
BurnAndUnescrowMut(f, u, to, n) ==
    LET got == BalanceIncrease(f.erc20, Module, to, n)
    IN  /\ CanTransfer(f.erc20, Module, to, n)
        /\ bank' = [Sent(f.denom, u, Module, n) EXCEPT ![f.denom][Module] = @ - got]
        /\ bankSupply' = [bankSupply EXCEPT ![f.denom] = @ - got]
        /\ erc20' = [erc20 EXCEPT ![f.erc20] = Transferred(f.erc20, Module, to, n)]
        /\ UNCHANGED erc20Supply

\* Coins go to the module account and are burnt, escrowed ERC20 tokens are sent.
BurnAndUnescrow(f, u, to, n) ==
    /\ CanTransfer(f.erc20, Module, to, n)
    /\ bank' = [bank EXCEPT ![f.denom][u] = @ - n]
    /\ bankSupply' = [bankSupply EXCEPT ![f.denom] = @ - n]
    /\ erc20' = [erc20 EXCEPT ![f.erc20] = Transferred(f.erc20, Module, to, n)]
    /\ UNCHANGED erc20Supply

CoinToEvm(f, u, to, n) ==
    /\ bank[f.denom][u] >= n
    /\ ModuleCall
    /\ \/ f.isMadeFromCoin /\ EscrowAndMint(f, u, to, n)
       \/ ~f.isMadeFromCoin /\ BurnAndUnescrow(f, u, to, n)
    /\ UNCHANGED <<funtokens, metadata>>

\* MsgConvertCoinToEvm: NIBI takes the way through WNIBI, which is not modelled here.
ConvertCoinToEvm(u, to, d, n) ==
    /\ d # NativeDenom
    /\ Cardinality(ByDenom(d)) = 1
    /\ \E f \in ByDenom(d) : CoinToEvm(f, u, to, n)

\* The precompile method sendToEvm.
SendToEvm(u, to, d, n) == \E f \in ByDenom(d) : CoinToEvm(f, u, to, n)

-----------------------------------------------------------------------------
\* From ERC20 to coin.  The bank refuses to send to a module account.

\* The escrowed coins for tokens that were burnt.
Unescrow(f, to, n) ==
    /\ to # Module
    /\ bank[f.denom][Module] >= n
    /\ bank' = Sent(f.denom, Module, to, n)
    /\ UNCHANGED bankSupply

\* convertEvmToCoinForCoinOriginated: burnFromAuthority.
BurnAndRelease(f, u, to, n) ==
    /\ erc20[f.erc20][u] >= n
    /\ erc20' = [erc20 EXCEPT ![f.erc20][u] = @ - n]
    /\ erc20Supply' = [erc20Supply EXCEPT ![f.erc20] = @ - n]
    /\ Unescrow(f, to, n)

\* sendToBank, mapping made from a coin: the tokens are sent to the module and burnt there.
CollectAndRelease(f, u, to, n) ==
    LET got == BalanceIncrease(f.erc20, u, Module, n)
    IN  /\ CanTransfer(f.erc20, u, Module, n)
        /\ erc20' = [erc20 EXCEPT ![f.erc20] =
                        [Transferred(f.erc20, u, Module, n) EXCEPT ![Module] = @ - got]]
        /\ erc20Supply' = [erc20Supply EXCEPT ![f.erc20] = @ - got]
        /\ Unescrow(f, to, got)

\* Mutant: coins are minted for the amount asked for.
EscrowAndMintCoinMut(f, u, to, n) ==
    /\ CanTransfer(f.erc20, u, Module, n)
    /\ erc20' = [erc20 EXCEPT ![f.erc20] = Transferred(f.erc20, u, Module, n)]
    /\ to # Module
    /\ bank' = [bank EXCEPT ![f.denom][to] = @ + n]
    /\ bankSupply' = [bankSupply EXCEPT ![f.denom] = @ + n]
    /\ UNCHANGED erc20Supply

\* The tokens are sent to the module, which mints coins for what it got.
EscrowAndMintCoin(f, u, to, n) ==
    LET got == BalanceIncrease(f.erc20, u, Module, n)
    IN  /\ CanTransfer(f.erc20, u, Module, n)
        /\ erc20' = [erc20 EXCEPT ![f.erc20] = Transferred(f.erc20, u, Module, n)]
        /\ to # Module
        /\ bank' = [bank EXCEPT ![f.denom][to] = @ + got]
        /\ bankSupply' = [bankSupply EXCEPT ![f.denom] = @ + got]
        /\ UNCHANGED erc20Supply

\* MsgConvertEvmToCoin for a contract other than WNIBI.
ConvertEvmToCoin(u, to, c, n) ==
    /\ Cardinality(ByERC20(c)) = 1
    /\ ModuleCall
    /\ \E f \in ByERC20(c) :
          \/ f.isMadeFromCoin /\ BurnAndRelease(f, u, to, n)
          \/ ~f.isMadeFromCoin /\ EscrowAndMintCoin(f, u, to, n)
    /\ UNCHANGED <<funtokens, metadata>>

\* The precompile method sendToBank.
SendToBank(u, to, c, n) ==
    /\ Cardinality(ByERC20(c)) = 1
    /\ ModuleCall
    /\ \E f \in ByERC20(c) :
          \/ f.isMadeFromCoin /\ CollectAndRelease(f, u, to, n)
          \/ ~f.isMadeFromCoin /\ EscrowAndMintCoin(f, u, to, n)
    /\ UNCHANGED <<funtokens, metadata>>

-----------------------------------------------------------------------------
\* What users do on their own.

\* MsgSend, and the precompile method bankMsgSend.
BankMsgSend(u, to, d, n) ==
    /\ to # Module
    /\ bank[d][u] >= n
    /\ bank' = Sent(d, u, to, n)
    /\ UNCHANGED <<funtokens, metadata, bankSupply, erc20, erc20Supply, nonce>>

\* A user calls "transfer" of an ERC20 contract, also to the module account.
UserTransfer(u, to, c, n) ==
    /\ erc20[c][u] >= n
    /\ erc20' = [erc20 EXCEPT ![c] = Transferred(c, u, to, n)]
    /\ UNCHANGED <<funtokens, metadata, bank, bankSupply, erc20Supply, nonce>>

\* A holder calls "burn" of a contract that the module deployed (ERC20Burnable).
UserBurn(u, c, n) ==
    /\ c \notin Tokens
    /\ erc20[c][u] >= n
    /\ erc20' = [erc20 EXCEPT ![c][u] = @ - n]
    /\ erc20Supply' = [erc20Supply EXCEPT ![c] = @ - n]
    /\ UNCHANGED <<funtokens, metadata, bank, bankSupply, nonce>>

\* MsgSudoSetDenomMetadata of x/tokenfactory accepts every denomination.
SudoSetDenomMetadata(d) ==
    /\ metadata' = metadata \cup {d}
    /\ UNCHANGED <<funtokens, bank, bankSupply, erc20, erc20Supply, nonce>>

FTNext ==
    \/ \E u \in Users, d \in Denoms : CreateFunTokenFromCoin(u, d)
    \/ \E u \in Users, t \in Tokens : CreateFunTokenFromERC20(u, t)
    \/ \E u \in Users, to \in Recipients, d \in Denoms, n \in Amounts :
          \/ ConvertCoinToEvm(u, to, d, n)
          \/ SendToEvm(u, to, d, n)
          \/ BankMsgSend(u, to, d, n)
    \/ \E u \in Users, to \in Recipients, c \in Contracts, n \in Amounts :
          \/ ConvertEvmToCoin(u, to, c, n)
          \/ SendToBank(u, to, c, n)
          \/ UserTransfer(u, to, c, n)
    \/ \E u \in Users, c \in Contracts, n \in Amounts : UserBurn(u, c, n)
    \/ \E d \in Denoms : SudoSetDenomMetadata(d)

FTSpec == FTInit /\ [][FTNext]_ftVars

-----------------------------------------------------------------------------
\* Type invariant: no balance is ever negative.
FTTypeOK ==
    /\ funtokens \subseteq FunTokens
    /\ metadata \subseteq Denoms
    /\ bank \in [Denoms -> [Accounts -> Nat]]
    /\ bankSupply \in [Denoms -> Int]
    /\ erc20 \in [Contracts -> [Accounts -> Nat]]
    /\ erc20Supply \in [Contracts -> Int]
    /\ nonce \in Nonces

\* A denomination belongs to one mapping and so does a contract, whoever registers what
\* first, so the handlers that insist on exactly one match find it.
MappingsUnique ==
    \A f, g \in funtokens : f.denom = g.denom \/ f.erc20 = g.erc20 => f = g

\* What the module holds for a mapping beyond what was issued against it.
Excess(f) ==
    IF f.isMadeFromCoin
    THEN bank[f.denom][Module] - erc20Supply[f.erc20]
    ELSE erc20[f.erc20][Module] - bankSupply[f.denom]

\* Every issued token is backed: ERC20 tokens of a mapping made from a coin by coins in the
\* module account, coins of a mapping made from an ERC20 by ERC20 tokens there, also when
\* the ERC20 takes a fee of transfers and when registration fees are burnt there.
EscrowBacked == \A f \in funtokens : Excess(f) >= 0

\* A conversion takes from the escrow exactly what it takes out of circulation, in both
\* directions and for both kinds of mapping: only a holder's own transfer to the module
\* account or burn changes what the escrow holds in excess.
ConversionsExact ==
    [][\A f \in funtokens : nonce' # nonce => Excess(f)' = Excess(f)]_ftVars

=============================================================================
