------------------------------- MODULE StateDB -------------------------------
(***************************************************************************)
(* x/evm/statedb: the EVM's view of the chain within one transaction, its   *)
(* journal of undo entries, snapshots, and the commit to the stores.  The   *)
(* variable db is the StateDB struct; each method is an operator from a     *)
(* struct to the struct after the call.  What the go-ethereum interpreter   *)
(* calls for one instruction is one action.                                 *)
(*                                                                          *)
(* A store holds what the multistore of an sdk.Context holds: the accounts, *)
(* the bank balances in unibi, the contract storage, and one number for the *)
(* state of all other modules.  Code is identified with its hash.           *)
(***************************************************************************)
EXTENDS Integers, Sequences, FiniteSets, SequencesExt, FiniteSetsExt

CONSTANTS
    Addrs,            \* accounts
    Keys, Values,     \* storage slots and their values; 0 is the empty value
    WeiPerUnibi,      \* 10^12 in the code
    Amounts,          \* amounts of wei that calls transfer
    Sender,           \* the account that signs the transactions
    Genesis,          \* possible stores before the first transaction
    MaxPrecompileCalls, \* maxMultistoreCacheCount
    Instructions,     \* the kinds of instruction the contracts execute
    MaxOps, MaxTxs    \* bounds on the instructions and on the transactions

ASSUME StateDBAssumption ==
    /\ WeiPerUnibi \in Nat \ {0}
    /\ 0 \in Values
    /\ Sender \in Addrs
    /\ Amounts \subseteq Nat
    /\ MaxPrecompileCalls \in Nat

VARIABLES
    db,      \* StateDB struct
    ops,     \* instructions executed (bounds the model)
    txs,     \* transactions committed (bounds the model)
    crossed, \* history: this transaction reverted a precompile call that had started
    saved    \* history: for each valid revision, what the EVM saw when it was taken

vars == <<db, ops, txs, crossed, saved>>

EmptyCode == "empty"

-----------------------------------------------------------------------------
\* Keeper: the store behind a context.

\* SetAccount with SetAccBalance: bank coins are minted or burned to the new balance.
SetAccount(store, a, nonce, code, unibi) ==
    [store EXCEPT !.acct[a] = [exists |-> TRUE, nonce |-> nonce, code |-> code],
                  !.bank[a] = unibi]

\* DeleteAccount: clears balance and storage, removes the account; nothing without one.
DeleteAccount(store, a) ==
    IF ~store.acct[a].exists THEN store
    ELSE [store EXCEPT !.acct[a] = [exists |-> FALSE, nonce |-> 0, code |-> EmptyCode],
                       !.bank[a] = 0,
                       !.slots[a] = [k \in Keys |-> 0]]

SetSlots(store, a, changed) ==
    [store EXCEPT !.slots[a] = [k \in Keys |-> IF k \in DOMAIN changed THEN changed[k] ELSE @[k]]]

NativeToWei(unibi) == unibi * WeiPerUnibi
WeiToNative(wei) == wei \div WeiPerUnibi

-----------------------------------------------------------------------------
\* Objects.

newObject(acct, unibi, created) ==
    [nonce |-> acct.nonce, wei |-> NativeToWei(unibi), code |-> acct.code,
     OriginStorage |-> << >>, DirtyStorage |-> << >>,
     SelfDestructed |-> FALSE, createdThisBlock |-> created, newContract |-> FALSE]

isEmpty(o) == o.nonce = 0 /\ o.wei = 0 /\ o.code = EmptyCode

NewDB(store) ==
    [evmTxCtx |-> store, cacheCtx |-> store, hasCache |-> FALSE, stateObjects |-> << >>,
     entries |-> <<>>, dirties |-> << >>, validRevisions |-> <<>>, nextRevisionID |-> 0,
     accessList |-> [addresses |-> << >>, slots |-> <<>>],
     transientStorage |-> [a \in Addrs |-> 0], refund |-> 0, logs |-> 0,
     multistoreCacheCount |-> 0, panicked |-> FALSE]

\* The function f with f[x] set to v, as an assignment to a Go map does.
Put(f, x, v) == [y \in DOMAIN f \cup {x} |-> IF y = x THEN v ELSE f[y]]
Drop(f, x) == [y \in DOMAIN f \ {x} |-> f[y]]
Read(f, x) == IF x \in DOMAIN f THEN f[x] ELSE 0

Live(d, a) == a \in DOMAIN d.stateObjects
Ctx(d) == IF d.hasCache THEN d.cacheCtx ELSE d.evmTxCtx

\* getStateObject: the live object, or the account loaded from the current context.
getStateObject(d, a) ==
    IF Live(d, a) \/ ~Ctx(d).acct[a].exists THEN d
    ELSE [d EXCEPT !.stateObjects = Put(@, a, newObject(Ctx(d).acct[a], Ctx(d).bank[a], FALSE))]

Exist(d, a) == Live(getStateObject(d, a), a)

\* GetCommittedState reads the commit context, never the cache context.
GetCommittedState(d, a, k) ==
    LET o == d.stateObjects[a]
    IN  IF k \in DOMAIN o.OriginStorage THEN o.OriginStorage[k] ELSE d.evmTxCtx.slots[a][k]

GetState(d, a, k) ==
    LET o == d.stateObjects[a]
    IN  IF k \in DOMAIN o.DirtyStorage THEN o.DirtyStorage[k] ELSE GetCommittedState(d, a, k)

\* A read of a slot caches its committed value in the object.
CacheSlot(d, a, k) ==
    [d EXCEPT !.stateObjects[a].OriginStorage = Put(@, k, GetCommittedState(d, a, k))]

\* stateObject.setState: a value equal to the origin is not dirty.
setState(d, a, k, v, origin) ==
    [d EXCEPT !.stateObjects[a].DirtyStorage = IF v = origin THEN Drop(@, k) ELSE Put(@, k, v)]

-----------------------------------------------------------------------------
\* Journal.

Dirtied(e) == e.kind \in {"createObject", "suicide", "balance", "nonce", "code", "storage", "touch"}

\* journal.append
append(d, e) ==
    [d EXCEPT !.entries = Append(@, e),
              !.dirties = IF Dirtied(e) THEN Put(@, e.addr, Read(@, e.addr) + 1) ELSE @]

\* accessList.DeleteSlot: the last slot of an address takes the set, and all the sets
\* after it, out of the list.  Sets are numbered from 1; 0 is an address without slots.
DeleteSlot(d, a, k) ==
    LET i == d.accessList.addresses[a]
        rest == d.accessList.slots[i] \ {k}
    IN  IF rest # {} THEN [d EXCEPT !.accessList.slots[i] = rest]
        ELSE [d EXCEPT !.accessList.slots = SubSeq(@, 1, i - 1), !.accessList.addresses[a] = 0]

\* Revert of one JournalChange on a live object, or on other fields of the struct.
Undo(e, d) ==
    CASE e.kind = "createObject" -> [d EXCEPT !.stateObjects = Drop(@, e.addr)]
      [] e.kind = "suicide" -> [d EXCEPT !.stateObjects[e.addr].SelfDestructed = e.prev,
                                         !.stateObjects[e.addr].wei = e.prevbalance]
      [] e.kind = "balance" -> [d EXCEPT !.stateObjects[e.addr].wei = e.prev]
      [] e.kind = "nonce" -> [d EXCEPT !.stateObjects[e.addr].nonce = e.prev]
      [] e.kind = "code" -> [d EXCEPT !.stateObjects[e.addr].code = e.prev]
      [] e.kind = "storage" -> setState(d, e.addr, e.key, e.prev, e.origin)
      [] e.kind = "createContract" -> [d EXCEPT !.stateObjects[e.addr].newContract = FALSE]
      [] e.kind = "refund" -> [d EXCEPT !.refund = e.prev]
      [] e.kind = "log" -> [d EXCEPT !.logs = @ - 1]
      [] e.kind = "transient" -> [d EXCEPT !.transientStorage[e.addr] = e.prev]
      [] e.kind = "accessAddress" -> [d EXCEPT !.accessList.addresses = Drop(@, e.addr)]
      [] e.kind = "accessSlot" -> DeleteSlot(d, e.addr, e.key)
      [] e.kind = "precompile" -> [d EXCEPT !.cacheCtx = e.multistore]
      [] e.kind = "touch" -> d

\* The entries whose Revert goes through getStateObject; two of them accept nil, the
\* others dereference it.
NeedsObject(e) == e.kind \in {"suicide", "balance", "nonce", "code", "storage", "createContract"}
AcceptsNil(e) == e.kind \in {"suicide", "createContract"}

RevertEntry(e, d) ==
    IF NeedsObject(e) /\ ~Exist(d, e.addr)
    THEN IF AcceptsNil(e) THEN d ELSE [d EXCEPT !.panicked = TRUE]
    ELSE Undo(e, IF NeedsObject(e) THEN getStateObject(d, e.addr) ELSE d)

\* An undone change leaves the dirty tracking, and an address with none is dropped.
Undirty(e, d) ==
    IF ~Dirtied(e) THEN d
    ELSE LET n == Read(d.dirties, e.addr) - 1
         IN  [d EXCEPT !.dirties = IF n = 0 THEN Drop(@, e.addr) ELSE Put(@, e.addr, n)]

\* journal.Revert: undo the entries after the first n, the last one first.
Revert(d, n) ==
    LET Step(e, acc) == IF acc.panicked THEN acc ELSE Undirty(e, RevertEntry(e, acc))
    IN  [FoldRight(Step, SubSeq(d.entries, n + 1, Len(d.entries)), d)
            EXCEPT !.entries = SubSeq(d.entries, 1, n)]

-----------------------------------------------------------------------------
\* Methods that change one thing.

\* createObject for an address that has none (go-ethereum calls CreateAccount only
\* after Exist), and getOrNewStateObject.
createObject(d, a) ==
    append([d EXCEPT !.stateObjects =
                Put(@, a, newObject([nonce |-> 0, code |-> EmptyCode], 0, TRUE))],
           [kind |-> "createObject", addr |-> a])

getOrNewStateObject(d, a) == IF Exist(d, a) THEN getStateObject(d, a) ELSE createObject(d, a)

SetBalance(d, a, wei) ==
    [append(d, [kind |-> "balance", addr |-> a, prev |-> d.stateObjects[a].wei])
        EXCEPT !.stateObjects[a].wei = wei]

SetBalanceWei(d, a, wei) == SetBalance(getOrNewStateObject(d, a), a, wei)

\* AddBalance of zero touches an empty account.
AddBalance(d0, a, n) ==
    LET d == getOrNewStateObject(d0, a)
        o == d.stateObjects[a]
    IN  IF n > 0 THEN SetBalance(d, a, o.wei + n)
        ELSE IF isEmpty(o) THEN append(d, [kind |-> "touch", addr |-> a]) ELSE d

SubBalance(d0, a, n) ==
    LET d == getOrNewStateObject(d0, a)
    IN  IF n = 0 THEN d ELSE SetBalance(d, a, d.stateObjects[a].wei - n)

SetNonce(d0, a, nonce) ==
    LET d == getOrNewStateObject(d0, a)
    IN  [append(d, [kind |-> "nonce", addr |-> a, prev |-> d.stateObjects[a].nonce])
            EXCEPT !.stateObjects[a].nonce = nonce]

SetCode(d0, a, code) ==
    LET d == getOrNewStateObject(d0, a)
    IN  [append(d, [kind |-> "code", addr |-> a, prev |-> d.stateObjects[a].code])
            EXCEPT !.stateObjects[a].code = code]

\* Mutant: a write is journalled with the new value.
SetStateMut(d0, a, k, v) ==
    LET d == CacheSlot(getOrNewStateObject(d0, a), a, k)
        prev == GetState(d, a, k)
        origin == GetCommittedState(d, a, k)
    IN  IF prev = v THEN d
        ELSE setState(append(d, [kind |-> "storage", addr |-> a, key |-> k, prev |-> v,
                                 origin |-> origin]), a, k, v, origin)

\* A write of the current value is not journalled.
SetState(d0, a, k, v) ==
    LET d == CacheSlot(getOrNewStateObject(d0, a), a, k)
        prev == GetState(d, a, k)
        origin == GetCommittedState(d, a, k)
    IN  IF prev = v THEN d
        ELSE setState(append(d, [kind |-> "storage", addr |-> a, key |-> k, prev |-> prev,
                                 origin |-> origin]), a, k, v, origin)

CreateContract(d, a) ==
    IF d.stateObjects[a].newContract THEN d
    ELSE append([d EXCEPT !.stateObjects[a].newContract = TRUE],
                [kind |-> "createContract", addr |-> a])

\* The balance is zeroed whether or not the object was destructed before; only the
\* first destruction is journalled.
SelfDestruct(d, a) ==
    LET o == d.stateObjects[a]
        zeroed == [d EXCEPT !.stateObjects[a].wei = 0]
    IN  IF o.SelfDestructed THEN zeroed
        ELSE append([zeroed EXCEPT !.stateObjects[a].SelfDestructed = TRUE],
                    [kind |-> "suicide", addr |-> a, prev |-> FALSE, prevbalance |-> o.wei])

SelfDestruct6780(d, a) == IF d.stateObjects[a].createdThisBlock THEN SelfDestruct(d, a) ELSE d

AddAddressToAccessList(d, a) ==
    IF a \in DOMAIN d.accessList.addresses THEN d
    ELSE append([d EXCEPT !.accessList.addresses = Put(@, a, 0)],
                [kind |-> "accessAddress", addr |-> a])

AddSlotToAccessList(d0, a, k) ==
    LET d == AddAddressToAccessList(d0, a)
        i == d.accessList.addresses[a]
        entry == [kind |-> "accessSlot", addr |-> a, key |-> k]
    IN  IF i = 0
        THEN append([d EXCEPT !.accessList.slots = Append(@, {k}),
                              !.accessList.addresses[a] = Len(d.accessList.slots) + 1], entry)
        ELSE IF k \in d.accessList.slots[i] THEN d
        ELSE append([d EXCEPT !.accessList.slots[i] = @ \cup {k}], entry)

AddLog(d) == [append(d, [kind |-> "log"]) EXCEPT !.logs = @ + 1]

AddRefund(d, gas) == [append(d, [kind |-> "refund", prev |-> d.refund]) EXCEPT !.refund = @ + gas]

SubRefund(d, gas) ==
    LET j == append(d, [kind |-> "refund", prev |-> d.refund])
    IN  IF gas > d.refund THEN [j EXCEPT !.panicked = TRUE] ELSE [j EXCEPT !.refund = @ - gas]

\* The slot is set to its previous value.
SetTransientState(d, a, v) ==
    LET prev == d.transientStorage[a]
    IN  IF prev = v THEN d
        ELSE [append(d, [kind |-> "transient", addr |-> a, prev |-> prev])
                EXCEPT !.transientStorage[a] = prev]

-----------------------------------------------------------------------------
\* Snapshots and commits.

Snapshot(d) ==
    [d EXCEPT !.validRevisions = Append(@, [id |-> d.nextRevisionID, journalIndex |-> Len(d.entries)]),
              !.nextRevisionID = @ + 1]

RevertToSnapshot(d, i) ==
    [Revert(d, d.validRevisions[i].journalIndex)
        EXCEPT !.validRevisions = SubSeq(@, 1, i - 1)]

\* Storage that commitCtx writes: values equal to the origin are not dirty.
ChangedSlots(o) ==
    LET ks == {k \in DOMAIN o.DirtyStorage :
                 o.DirtyStorage[k] # IF k \in DOMAIN o.OriginStorage THEN o.OriginStorage[k] ELSE 0}
    IN  [k \in ks |-> o.DirtyStorage[k]]

\* Mutant: objects leave the live set once they are committed.
CommitAddrMut(d0, ctx, a) ==
    LET d == getStateObject(d0, a)
        o == d.stateObjects[a]
        clean == [d EXCEPT !.dirties = Put(@, a, 0), !.stateObjects = Drop(@, a)]
    IN  IF ~Live(d, a) THEN [d EXCEPT !.dirties = Put(@, a, 0)]
        ELSE IF o.SelfDestructed THEN [clean EXCEPT ![ctx] = DeleteAccount(@, a)]
        ELSE [clean EXCEPT ![ctx] =
                SetSlots(SetAccount(@, a, o.nonce, o.code, WeiToNative(o.wei)), a, ChangedSlots(o))]

\* commitCtx for one dirty address, into the context named ctx.
CommitAddr(d0, ctx, a) ==
    LET d == getStateObject(d0, a)
        o == d.stateObjects[a]
        written == SetAccount(d[ctx], a, o.nonce, o.code, WeiToNative(o.wei))
        changed == ChangedSlots(o)
        origin == [k \in DOMAIN o.OriginStorage \cup DOMAIN changed |->
                      IF k \in DOMAIN changed THEN changed[k] ELSE o.OriginStorage[k]]
        clean == [d EXCEPT !.dirties = Put(@, a, 0)]
    IN  IF ~Live(d, a) THEN clean
        ELSE IF o.SelfDestructed
        THEN [clean EXCEPT ![ctx] = DeleteAccount(@, a), !.stateObjects = Drop(@, a)]
        ELSE [clean EXCEPT ![ctx] = SetSlots(written, a, changed),
                           !.stateObjects[a].OriginStorage = origin]

commitCtx(d, ctx) == FoldSet(LAMBDA a, acc : CommitAddr(acc, ctx, a), d, DOMAIN d.dirties)

\* Mutant: what precompiles wrote to the cache context is not written back.
CommitMut(d) == commitCtx(d, "evmTxCtx")

\* Commit: the cache context is written to the commit context, then the dirty objects.
Commit(d) ==
    commitCtx([d EXCEPT !.evmTxCtx = Ctx(d)], "evmTxCtx")

\* Mutant: the undo entry is a copy of the commit context.
SavePrecompileCalledMut(d0) ==
    LET d == [d0 EXCEPT !.cacheCtx = Ctx(d0), !.hasCache = TRUE]
    IN  [append(d, [kind |-> "precompile", multistore |-> d.evmTxCtx])
            EXCEPT !.multistoreCacheCount = @ + 1]

\* CacheCtxForPrecompile and SavePrecompileCalledJournalChange: a copy of the cache
\* context, made before the dirty objects are committed to it, is the undo entry.
SavePrecompileCalled(d0) ==
    LET d == [d0 EXCEPT !.cacheCtx = Ctx(d0), !.hasCache = TRUE]
    IN  [append(d, [kind |-> "precompile", multistore |-> d.cacheCtx])
            EXCEPT !.multistoreCacheCount = @ + 1]

OverLimit(d) == d.multistoreCacheCount > MaxPrecompileCalls

\* OnRunStart, within the snapshot that evm.Call takes.
OnRunStart(d) ==
    LET called == SavePrecompileCalled(Snapshot(d))
    IN  IF OverLimit(called) THEN called ELSE commitCtx(called, "cacheCtx")

\* A call that returns an error is reverted by evm.Call to its own snapshot.
FailCall(d) == RevertToSnapshot(d, Len(d.validRevisions))

\* Mutant: only the recipient is synchronised.
BankSendMut(d, from, to, unibi) ==
    LET sent == [d EXCEPT !.cacheCtx.bank[from] = @ - unibi, !.cacheCtx.bank[to] = @ + unibi,
                          !.cacheCtx.acct[to].exists = TRUE]
    IN  SetBalanceWei(sent, to, NativeToWei(sent.cacheCtx.bank[to]))

\* SendCoins of the bank keeper on the cache context, then SyncStateDBWithAccount for
\* both accounts: their live balances become those of the bank.
BankSend(d, from, to, unibi) ==
    LET sent == [d EXCEPT !.cacheCtx.bank[from] = @ - unibi, !.cacheCtx.bank[to] = @ + unibi,
                          !.cacheCtx.acct[to].exists = TRUE]
        Sync(x, a) == SetBalanceWei(x, a, NativeToWei(x.cacheCtx.bank[a]))
    IN  Sync(Sync(sent, from), to)

-----------------------------------------------------------------------------
\* What the EVM can read of an account, and of the whole StateDB.
VisibleAccount(d0, a) ==
    LET d == getStateObject(d0, a)
        o == d.stateObjects[a]
    IN  IF ~Live(d, a) THEN [exists |-> FALSE]
        ELSE [exists |-> TRUE, nonce |-> o.nonce, wei |-> o.wei, code |-> o.code,
              slots |-> [k \in Keys |-> GetState(d, a, k)],
              destructed |-> o.SelfDestructed, created |-> o.createdThisBlock,
              newContract |-> o.newContract]

\* The slots of an address that accessList.Contains finds.
AccessedSlots(d, a) ==
    LET i == d.accessList.addresses[a] IN IF i = 0 THEN {} ELSE d.accessList.slots[i]

View(d) ==
    [accessed |-> [a \in DOMAIN d.accessList.addresses |-> AccessedSlots(d, a)],
     acct |-> [a \in Addrs |-> VisibleAccount(d, a)], other |-> Ctx(d).other,
     transient |-> d.transientStorage, refund |-> d.refund, logs |-> d.logs]

-----------------------------------------------------------------------------
\* The instructions of the interpreter.

\* A new StateDB, prepared: the sender is in the access list.
BeginTx(store) ==
    LET d == AddAddressToAccessList(NewDB(store), Sender)
    IN  SetNonce(d, Sender, store.acct[Sender].nonce)

Init ==
    /\ \E store \in Genesis : db = BeginTx(store)
    /\ ops = 0
    /\ txs = 0
    /\ crossed = FALSE
    /\ saved = <<>>

Instruction(name) ==
    /\ name \in Instructions
    /\ ~db.panicked
    /\ ops < MaxOps
    /\ ops' = ops + 1
    /\ UNCHANGED txs

\* A new revision, taken of the struct d, saves what was seen then; a dropped one forgets it.
SaveViews(d) ==
    saved' = LET n == Len(db'.validRevisions)
             IN  IF n > Len(saved) THEN Append(saved, View(d)) ELSE SubSeq(saved, 1, n)

Uncrossed(d) == SaveViews(d) /\ UNCHANGED crossed

\* The account as the EVM sees it.
Account(a) == getStateObject(db, a).stateObjects[a]
IsContract(a) == Exist(db, a) /\ (Account(a).code # EmptyCode \/ Account(a).newContract)

Transfer(d, a, b, n) == AddBalance(SubBalance(d, a, n), b, n)

\* The callee enters the access list with the gas for the call; evm.Call: snapshot,
\* creation of an unknown callee, transfer of the value.
Call(a, b, n) ==
    /\ Instruction("Call")
    /\ Exist(db, a) /\ Account(a).wei >= n
    /\ Exist(db, b) \/ n > 0
    /\ LET charged == AddAddressToAccessList(db, b)
           d == Snapshot(charged)
       IN  /\ db' = Transfer(IF Exist(d, b) THEN d ELSE createObject(d, b), a, b, n)
           /\ Uncrossed(charged)

\* evm.Create before its snapshot: the creator's nonce, which a failed creation keeps.
CreateNonce(a) ==
    /\ Instruction("Create")
    /\ Exist(db, a)
    /\ db' = SetNonce(db, a, Account(a).nonce + 1)
    /\ Uncrossed(db)

\* evm.Create from there up to the init code, at an address without code or nonce; the
\* address enters the access list before the snapshot.
Create(a, b, n) ==
    /\ Instruction("Create")
    /\ b \notin {a, Sender} /\ Exist(db, a) /\ Account(a).wei >= n
    /\ Exist(db, b) => Account(b).nonce = 0 /\ Account(b).code = EmptyCode
    /\ LET warm == AddAddressToAccessList(db, b)
           d == getOrNewStateObject(Snapshot(warm), b)
       IN  /\ db' = Transfer(SetNonce(CreateContract(d, b), b, 1), a, b, n)
           /\ Uncrossed(warm)

\* evm.Create after the init code.
Deploy(a) ==
    /\ Instruction("Create")
    /\ Exist(db, a) /\ Account(a).newContract /\ Account(a).code = EmptyCode
    /\ db' = SetCode(db, a, "code")
    /\ Uncrossed(db)

SLoad(a, k) ==
    /\ Instruction("SLoad")
    /\ IsContract(a)
    /\ db' = CacheSlot(getStateObject(AddSlotToAccessList(db, a, k), a), a, k)
    /\ Uncrossed(db)

SStore(a, k, v) ==
    /\ Instruction("SStore")
    /\ IsContract(a)
    /\ db' = SetState(AddSlotToAccessList(db, a, k), a, k, v)
    /\ Uncrossed(db)

\* SELFDESTRUCT: the balance goes to the beneficiary, who may be the contract itself.
SelfDestructTo(a, b) ==
    /\ Instruction("SelfDestruct")
    /\ IsContract(a)
    /\ LET n == Account(a).wei
       IN  db' = SelfDestruct6780(
                    AddBalance(SubBalance(AddAddressToAccessList(db, b), a, n), b, n), a)
    /\ Uncrossed(db)

Log == Instruction("Log") /\ db' = AddLog(db) /\ Uncrossed(db)

\* SSTORE gas accounting; the interpreter never takes back more than it gave.
Refund ==
    /\ Instruction("Refund")
    /\ \/ db' = AddRefund(db, 1)
       \/ db.refund > 0 /\ db' = SubRefund(db, 1)
    /\ Uncrossed(db)

TStore(a, v) ==
    /\ Instruction("TStore")
    /\ IsContract(a)
    /\ db' = SetTransientState(db, a, v)
    /\ Uncrossed(db)

\* A precompile changes the state of other modules.
PrecompileWrite ==
    /\ Instruction("PrecompileWrite")
    /\ LET d == OnRunStart(db)
       IN  db' = IF OverLimit(d) THEN FailCall(d) ELSE [d EXCEPT !.cacheCtx.other = @ + 1]
    /\ Uncrossed(db)

\* A precompile called by account a sends one of its unibi with the bank keeper.
PrecompileSend(a, b) ==
    /\ Instruction("PrecompileSend")
    /\ a # b /\ Live(db, a)
    /\ LET d == OnRunStart(db)
       IN  ~OverLimit(d) /\ d.cacheCtx.bank[a] >= 1 /\ db' = BankSend(d, a, b, 1)
    /\ Uncrossed(db)

\* A precompile starts and returns an error.
PrecompileFail ==
    /\ Instruction("PrecompileFail")
    /\ LET d == OnRunStart(db)
       IN  db' = FailCall(d) /\ crossed' = (crossed \/ ~OverLimit(d))
    /\ SaveViews(db)

\* A call frame fails; snapshots of the frames below stay.
RevertFrame(i) ==
    /\ ~db.panicked
    /\ db' = RevertToSnapshot(db, i)
    /\ crossed' = (crossed \/ \E j \in DOMAIN db.entries :
                       j > db.validRevisions[i].journalIndex /\ db.entries[j].kind = "precompile")
    /\ SaveViews(db)
    /\ UNCHANGED <<ops, txs>>

\* ApplyEvmMsg after the EVM returned: the sender's nonce, Commit; the next
\* transaction has a StateDB of its own.
Executed == SetNonce(db, Sender, Account(Sender).nonce + 1)

EndTx ==
    /\ ~db.panicked
    /\ txs < MaxTxs
    /\ txs' = txs + 1
    /\ db' = BeginTx(Commit(Executed).evmTxCtx)
    /\ crossed' = FALSE
    /\ SaveViews(db)
    /\ UNCHANGED ops

\* baseapp recovers from a panic: nothing of the transaction is kept.
DropTx ==
    /\ db.panicked
    /\ txs < MaxTxs
    /\ txs' = txs + 1
    /\ db' = BeginTx(db.evmTxCtx)
    /\ crossed' = FALSE
    /\ SaveViews(db)
    /\ UNCHANGED ops

Next ==
    \/ \E a, b \in Addrs, n \in Amounts : Call(a, b, n)
    \/ \E a, b \in Addrs, n \in Amounts : Create(a, b, n)
    \/ \E a \in Addrs : CreateNonce(a)
    \/ \E a \in Addrs : Deploy(a)
    \/ \E a \in Addrs, k \in Keys : SLoad(a, k)
    \/ \E a \in Addrs, k \in Keys, v \in Values : SStore(a, k, v)
    \/ \E a, b \in Addrs : SelfDestructTo(a, b)
    \/ Log
    \/ Refund
    \/ \E a \in Addrs, v \in Values : TStore(a, v)
    \/ PrecompileWrite
    \/ \E a, b \in Addrs : PrecompileSend(a, b)
    \/ PrecompileFail
    \/ \E i \in DOMAIN db.validRevisions : RevertFrame(i)
    \/ EndTx
    \/ DropTx

Spec == Init /\ [][Next]_vars

-----------------------------------------------------------------------------
\* The store that a view stands for once the transaction is committed.
Persisted(v) ==
    LET gone(a) == ~v.acct[a].exists \/ v.acct[a].destructed
    IN  [acct |-> [a \in Addrs |->
                     IF gone(a) THEN [exists |-> FALSE, nonce |-> 0, code |-> EmptyCode]
                     ELSE [exists |-> TRUE, nonce |-> v.acct[a].nonce, code |-> v.acct[a].code]],
         bank |-> [a \in Addrs |-> IF gone(a) THEN 0 ELSE WeiToNative(v.acct[a].wei)],
         slots |-> [a \in Addrs |-> IF gone(a) THEN [k \in Keys |-> 0] ELSE v.acct[a].slots],
         other |-> v.other]

Abstract == INSTANCE Snapshots WITH view <- View(db)

\* The journal implements a stack of saved states: whatever is executed after a
\* snapshot, RevertToSnapshot gives back the state the EVM saw when it was taken.
RevertRestoresView == Abstract!Spec

\* As long as no precompile call is among what is reverted, it does: balances, storage,
\* created and destructed accounts, logs, refunds and the access list with its numbered
\* slots are as they were, however changes and frames are interleaved.
RevertRestoresFrames ==
    [][~crossed' => [Abstract!Next]_<<View(db), saved, txs>>]_vars

\* The same, in every reachable state and for reverts of precompile calls too, for the
\* state of the other modules that precompiles change through the cache context: any
\* revert that does not panic gives it back.
RevertRestoresModules ==
    \A i \in DOMAIN saved :
        LET reverted == RevertToSnapshot(db, i)
        IN  ~reverted.panicked => Ctx(reverted).other = saved[i].other

\* Commit makes the store what the EVM saw at the end of the transaction, in whole
\* unibi, when no precompile call was reverted in it.
CommitPersistsView ==
    [][txs' > txs /\ ~crossed => db'.evmTxCtx = Persisted(View(Executed))]_vars

Supply(store) == MapThenSumSet(LAMBDA a : store.bank[a], Addrs)

\* The mints and burns of SetAccBalance never add up to new coins, when no precompile
\* call was reverted.
SupplyNeverGrows ==
    [][~crossed => Supply(db'.evmTxCtx) <= Supply(db.evmTxCtx)]_vars

\* As long as no precompile call was reverted, a revert meets a journal entry for an object
\* that is gone, and panics, only when the transaction destructed an account and called a
\* precompile after that: its commit to the cache context takes the object away, and no
\* journal entry brings it back.
RevertPanicsOnlyAfterDestruct ==
    ~db.panicked /\ ~crossed /\ (\E i \in DOMAIN db.validRevisions : RevertToSnapshot(db, i).panicked) =>
        \E j \in DOMAIN db.entries :
            /\ db.entries[j].kind = "suicide"
            /\ \E k \in j..Len(db.entries) : db.entries[k].kind = "precompile"
=============================================================================
