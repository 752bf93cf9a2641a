------------------------------ MODULE TxIndexer ------------------------------
(***************************************************************************)
(* The EVM transaction indexer of a node: the service that follows the      *)
(* chain with two goroutines, its database, and the command that indexes    *)
(* blocks while the service is down.  A block either holds Ethereum         *)
(* transactions to index or it does not; the database is the set of heights *)
(* that have entries in it, because each block is written in one batch.     *)
(***************************************************************************)
EXTENDS Integers, FiniteSetsExt

CONSTANTS
    MaxHeight,      \* bound on the height of the chain
    MaxCrashes,     \* bound on the times the node stops and starts
    MaxWriteFaults  \* bound on the batches that the database refuses

ASSUME IndexerAssumption ==
    MaxHeight \in Nat \ {0} /\ MaxCrashes \in Nat /\ MaxWriteFaults \in Nat

VARIABLES
    height,       \* the latest block of the node
    base,         \* the earliest block the node has not pruned
    ethBlocks,    \* the heights with Ethereum transactions
    db,           \* the heights with entries in the index
    headers,      \* new-block-header events on their way to the listener
    pc,           \* where the indexer loop is
    listener,     \* where the listening goroutine is
    chainHeightStorage, \* the height both goroutines share
    newBlockSignal,     \* the channel of capacity one holds a signal
    lastIndexedHeight,  \* local to the loop
    chainHeight,        \* local to the loop: the height it indexes up to
    i,                  \* local to the loop: the next block
    crashes, writeFaults,
    leftOut       \* history: heights whose batch was refused, or that the operator's
                  \* command did not reach

chainVars == <<height, base, ethBlocks>>
indexLoopVars == <<pc, lastIndexedHeight, chainHeight, i>>
countVars == <<crashes, writeFaults>>
indexerVars == <<chainVars, db, headers, indexLoopVars, listener, chainHeightStorage,
          newBlockSignal, countVars, leftOut>>

-----------------------------------------------------------------------------
\* The height of the last key of the index, -1 for an empty index.
LastIndexedBlock == IF db = {} THEN -1 ELSE Max(db)

\* IndexBlock writes all entries of the block in one batch, or none.
IndexBlock(h, written) ==
    /\ db' = IF written /\ h \in ethBlocks THEN db \cup {h} ELSE db
    /\ leftOut' = IF written THEN leftOut \ {h} ELSE leftOut \cup {h}

WriteFault == writeFaults < MaxWriteFaults /\ writeFaults' = writeFaults + 1

-----------------------------------------------------------------------------
\* CometBFT: a block is committed, and its header event published to whoever subscribed.
Commit ==
    /\ height < MaxHeight
    /\ pc # "cli"
    /\ height' = height + 1
    /\ ethBlocks' \in {ethBlocks, ethBlocks \cup {height + 1}}
    /\ headers' = IF listener \in {"listen", "notify"} THEN headers \cup {height + 1} ELSE headers
    /\ UNCHANGED <<base, db, indexLoopVars, listener, chainHeightStorage, newBlockSignal,
                   countVars, leftOut>>

\* CometBFT: the earliest block is pruned.
Prune ==
    /\ base < height
    /\ pc # "cli"
    /\ base' = base + 1
    /\ UNCHANGED <<height, ethBlocks, db, headers, indexLoopVars, listener, chainHeightStorage,
                   newBlockSignal, countVars, leftOut>>

\* OnStart: the height of the chain is read before new headers are subscribed to.
Start ==
    /\ pc = "down"
    /\ chainHeightStorage' = height
    /\ newBlockSignal' = FALSE
    /\ pc' = "subscribe"
    /\ UNCHANGED <<chainVars, db, headers, listener, lastIndexedHeight, chainHeight, i,
                   countVars, leftOut>>

Subscribe ==
    /\ pc = "subscribe"
    /\ listener' = "listen"
    /\ pc' = "load"
    /\ UNCHANGED <<chainVars, db, headers, chainHeightStorage, newBlockSignal,
                   lastIndexedHeight, chainHeight, i, countVars, leftOut>>

\* An empty index starts at the present height, not at the earliest block.
LoadLastIndexed ==
    /\ pc = "load"
    /\ lastIndexedHeight' =
          IF LastIndexedBlock = -1 THEN chainHeightStorage ELSE LastIndexedBlock
    /\ pc' = "check"
    /\ UNCHANGED <<chainVars, db, headers, listener, chainHeightStorage, newBlockSignal,
                   chainHeight, i, countVars, leftOut>>

-----------------------------------------------------------------------------
\* The listening goroutine takes the next header and stores its height if it is new.
ReceiveHeader ==
    /\ listener = "listen"
    /\ headers # {}
    /\ LET h == Min(headers)
       IN  /\ headers' = headers \ {h}
           /\ IF h > chainHeightStorage
              THEN chainHeightStorage' = h /\ listener' = "notify"
              ELSE UNCHANGED <<chainHeightStorage, listener>>
    /\ UNCHANGED <<chainVars, db, indexLoopVars, newBlockSignal, countVars, leftOut>>

\* Mutant: the signal is not sent when one was sent before.
NotifyMut ==
    /\ listener = "notify"
    /\ newBlockSignal' = ~newBlockSignal
    /\ listener' = "listen"
    /\ UNCHANGED <<chainVars, db, headers, indexLoopVars, chainHeightStorage, countVars, leftOut>>

\* The send does not block: a signal already waiting is enough.
Notify ==
    /\ listener = "notify"
    /\ newBlockSignal' = TRUE
    /\ listener' = "listen"
    /\ UNCHANGED <<chainVars, db, headers, indexLoopVars, chainHeightStorage, countVars, leftOut>>

\* OnStop cancels the context; the listener closes the database and ends.  The loop does
\* not watch the context and runs on until the process exits.
CloseDB ==
    /\ listener = "listen"
    /\ listener' = "closed"
    /\ headers' = {}
    /\ UNCHANGED <<chainVars, db, indexLoopVars, chainHeightStorage, newBlockSignal,
                   countVars, leftOut>>

-----------------------------------------------------------------------------
\* The top of the indexer loop: read the shared height, then wait or index.
Check ==
    /\ pc = "check"
    /\ chainHeight' = chainHeightStorage
    /\ pc' = IF chainHeightStorage <= lastIndexedHeight THEN "wait" ELSE "status"
    /\ UNCHANGED <<chainVars, db, headers, lastIndexedHeight, i, listener,
                   chainHeightStorage, newBlockSignal, countVars, leftOut>>

\* A signal ends the wait, and so does the timeout of a minute, which leaves a signal.
Wake ==
    /\ pc = "wait"
    /\ newBlockSignal' \in {FALSE, newBlockSignal}
    /\ pc' = "check"
    /\ UNCHANGED <<chainVars, db, headers, lastIndexedHeight, chainHeight, i, listener,
                   chainHeightStorage, countVars, leftOut>>

\* Mutant: pruned blocks are not passed over.
StatusMut ==
    /\ pc = "status"
    /\ i' = lastIndexedHeight + 1
    /\ pc' = "index"
    /\ UNCHANGED <<chainVars, db, headers, lastIndexedHeight, chainHeight, listener,
                   chainHeightStorage, newBlockSignal, countVars, leftOut>>

\* A pruned node may not have the block after the last indexed one.
Status ==
    /\ pc = "status"
    /\ i' = Max({lastIndexedHeight + 1, base})
    /\ pc' = "index"
    /\ UNCHANGED <<chainVars, db, headers, lastIndexedHeight, chainHeight, listener,
                   chainHeightStorage, newBlockSignal, countVars, leftOut>>

\* One block of the inner loop.  A refused batch is logged, and the loop goes on to the
\* next block all the same.
IndexNext ==
    /\ pc = "index"
    /\ i <= chainHeight
    /\ i >= base
    /\ \/ listener # "closed" /\ IndexBlock(i, TRUE) /\ UNCHANGED writeFaults
       \/ listener # "closed" /\ IndexBlock(i, FALSE) /\ WriteFault
       \/ listener = "closed" /\ IndexBlock(i, FALSE) /\ UNCHANGED writeFaults
    /\ lastIndexedHeight' = i
    /\ i' = i + 1
    /\ UNCHANGED <<chainVars, headers, pc, chainHeight, listener, chainHeightStorage,
                   newBlockSignal, crashes>>

\* The inner loop is done, or breaks at a block that was pruned meanwhile.
IndexDone ==
    /\ pc = "index"
    /\ i > chainHeight \/ i < base
    /\ pc' = "check"
    /\ UNCHANGED <<chainVars, db, headers, lastIndexedHeight, chainHeight, i, listener,
                   chainHeightStorage, newBlockSignal, countVars, leftOut>>

\* Mutant: a failed request goes on to the next block.
RequestFailsMut ==
    /\ pc \in {"status", "index"}
    /\ IF pc = "index" THEN i' = i + 1 /\ UNCHANGED pc ELSE pc' = "check" /\ UNCHANGED i
    /\ i <= height
    /\ UNCHANGED <<chainVars, db, headers, lastIndexedHeight, chainHeight, listener,
                   chainHeightStorage, newBlockSignal, countVars, leftOut>>

\* A request to the node fails: the loop starts over.
RequestFails ==
    /\ pc \in {"status", "index"}
    /\ pc' = "check"
    /\ UNCHANGED <<chainVars, db, headers, lastIndexedHeight, chainHeight, i, listener,
                   chainHeightStorage, newBlockSignal, countVars, leftOut>>

-----------------------------------------------------------------------------
\* The process ends, between any two steps; only the database is kept.
Crash ==
    /\ pc # "down"
    /\ crashes < MaxCrashes
    /\ crashes' = crashes + 1
    /\ pc' = "down"
    /\ listener' = "none"
    /\ headers' = {}
    /\ UNCHANGED <<chainVars, db, lastIndexedHeight, chainHeight, i, chainHeightStorage,
                   newBlockSignal, writeFaults, leftOut>>

\* The command evm-tx-index, with the node down: from the last indexed block or from a
\* given one, up to the block before the last.  What it has not indexed when it ends, passed
\* over by its argument or by an error, is left out.
StartCommand ==
    /\ pc = "down"
    /\ \E from \in {LastIndexedBlock} \cup 0..(height - 1) :
          /\ i' = Max({from, base})
          /\ i' <= height - 1
    /\ leftOut' = leftOut \cup (1..(height - 1) \ db)
    /\ chainHeight' = height - 1
    /\ pc' = "cli"
    /\ UNCHANGED <<chainVars, db, headers, listener, chainHeightStorage, newBlockSignal,
                   lastIndexedHeight, countVars>>

\* The command stops at the first error, and when it is done.
CommandStep ==
    /\ pc = "cli"
    /\ \/ /\ i <= chainHeight
          /\ IndexBlock(i, TRUE)
          /\ i' = i + 1
          /\ UNCHANGED <<pc, writeFaults>>
       \/ /\ i <= chainHeight
          /\ WriteFault
          /\ pc' = "down"
          /\ UNCHANGED <<db, leftOut, i>>
       \/ /\ i > chainHeight
          /\ pc' = "down"
          /\ UNCHANGED <<db, leftOut, i, writeFaults>>
    /\ UNCHANGED <<chainVars, headers, listener, chainHeightStorage, newBlockSignal,
                   lastIndexedHeight, chainHeight, crashes>>

-----------------------------------------------------------------------------
IndexerInit ==
    /\ height = 1 /\ base = 1
    /\ ethBlocks \in {{}, {1}}
    /\ db = {} /\ headers = {}
    /\ pc = "down" /\ listener = "none"
    /\ chainHeightStorage = 0 /\ newBlockSignal = FALSE
    /\ lastIndexedHeight = 0 /\ chainHeight = 0 /\ i = 0
    /\ crashes = 0 /\ writeFaults = 0
    /\ leftOut = {}

IndexerNext ==
    \/ Commit \/ Prune
    \/ Start \/ Subscribe \/ LoadLastIndexed
    \/ ReceiveHeader \/ Notify \/ CloseDB
    \/ Check \/ Wake \/ Status \/ IndexNext \/ IndexDone \/ RequestFails
    \/ Crash \/ StartCommand \/ CommandStep

\* The goroutines keep running, and a request to the own node does not fail for ever.
IndexerFairness ==
    /\ WF_indexerVars(Subscribe \/ LoadLastIndexed)
    /\ WF_indexerVars(Check \/ Wake \/ IndexDone)
    /\ SF_indexerVars(Status)
    /\ SF_indexerVars(IndexNext)

IndexerSpec == IndexerInit /\ [][IndexerNext]_indexerVars /\ IndexerFairness

-----------------------------------------------------------------------------
Loop == {"check", "wait", "status", "index"}

\* Type invariant.
TypeOK ==
    /\ height \in 1..MaxHeight /\ base \in 1..height
    /\ ethBlocks \subseteq 1..height /\ db \subseteq ethBlocks
    /\ headers \subseteq 1..height
    /\ pc \in Loop \cup {"down", "subscribe", "load", "cli"}
    /\ listener \in {"none", "listen", "notify", "closed"}
    /\ chainHeightStorage \in 0..height
    /\ newBlockSignal \in BOOLEAN
    /\ lastIndexedHeight \in 0..height /\ chainHeight \in 0..height /\ i \in 0..(height + 1)
    /\ leftOut \subseteq 1..height

\* No wake-up is lost: while the loop waits although the listener has stored a new height,
\* a signal is in the channel or the listener is about to send one.  The loop reads the
\* height before it waits and the listener stores it before it signals.
NoLostWakeup ==
    pc = "wait" /\ chainHeightStorage > lastIndexedHeight =>
        newBlockSignal \/ listener \in {"notify", "closed"}

\* The index has no holes: a block with Ethereum transactions between two indexed blocks
\* is indexed itself, across crashes, failed requests and pruning, unless it was pruned,
\* its batch was refused or the operator's command left it out.
NoHoleInIndex ==
    \A h \in ethBlocks :
        /\ h >= base
        /\ \E a \in db : a <= h
        /\ \E b \in db : h <= b
        => h \in db \cup leftOut

\* A height that the listener has stored gets indexed, whatever signals were dropped and
\* requests failed, unless its block is pruned, its batch refused or the process ends.
NoticedIsIndexed ==
    \A h \in 1..MaxHeight :
        (pc \in Loop /\ h \in ethBlocks /\ lastIndexedHeight < h /\ h <= chainHeightStorage)
            ~> (h \in db \cup leftOut \/ h < base \/ pc = "down")
=============================================================================
