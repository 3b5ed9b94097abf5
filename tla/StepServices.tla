---------------------------- MODULE StepServices ----------------------------
(***************************************************************************)
(* What the actions of steps share: the locker and the key-value store of  *)
(* the agent, its pool of database handles, and the registry of open       *)
(* transactions each execution has of its own (internal/runtime), with the *)
(* database and Redis behind them.                                         *)
(*                                                                         *)
(* Each operator is one section of one operation on behalf of a caller c   *)
(* of execution e; StepRun makes actions of them.  A caller is a step, or  *)
(* the execution itself when it runs the on_error steps of the workflow.   *)
(***************************************************************************)
EXTENDS Integers, FiniteSets

CONSTANTS
    Keys,           \* keys of locks and of the key-value store
    Names,          \* names of transactions
    MaxOpenConns,   \* connections of one sql.DB (10 in openAndPing)
    NoOne           \* no caller

ASSUME ConnsAssumption == MaxOpenConns \in Nat \ {0}

VARIABLES
    locked,         \* lockEntry.locked of each key
    token,          \* lockEntry.ch of each key holds its one signal
    kv,             \* the entry of each key: [st, ttl, val]
    pool,           \* MemoryDBPool.pool has the data source
    opener,         \* who holds the write lock of the pool, or NoOne
    handles,        \* sql.DB handles open
    reg,            \* MemoryTxRegistry.txs: execution -> name -> tx, or NoOne
    busy,           \* who holds the registry's mutex across BeginTx, or NoOne
    tx,             \* transactions by the caller that began them: [st, dirty]
    taken,          \* the tx a Commit or Rollback of a caller has in hand
    rows            \* durable rows, each named by the step that wrote it

lockVars == <<locked, token>>
poolVars == <<pool, opener, handles>>
txVars   == <<reg, busy, tx, taken, rows>>
services == <<lockVars, kv, poolVars, txVars>>

Absent == [st |-> "absent", ttl |-> FALSE, val |-> 0]

ServicesInit(execs, callers) ==
    /\ locked = [k \in Keys |-> FALSE]
    /\ token = [k \in Keys |-> FALSE]
    /\ kv = [k \in Keys |-> Absent]
    /\ pool = FALSE
    /\ opener = NoOne
    /\ handles = 0
    /\ reg = [e \in execs |-> [n \in Names |-> NoOne]]
    /\ busy = [e \in execs |-> NoOne]
    /\ tx = [c \in callers |-> [st |-> "none", dirty |-> {}]]
    /\ taken = [c \in callers |-> NoOne]
    /\ rows = {}
-----------------------------------------------------------------------------
(* MemoryLocker: a flag, and a channel of one signal that wakes one waiter *)

LockFreeAlways(k) == TRUE

LockFree(k) == ~locked[k]

\* The section of Lock under e.mu that finds the flag down.
TakeLock(k) ==
    /\ LockFree(k)
    /\ locked' = [locked EXCEPT ![k] = TRUE]
    /\ UNCHANGED token

\* The receive on e.ch in Lock's select.
TakeToken(k) ==
    /\ token[k]
    /\ token' = [token EXCEPT ![k] = FALSE]
    /\ UNCHANGED locked

\* Unlock of a locked key, whoever locked it; the signal is not waited for.
SignalForgotten(k) == token[k]

Signal(k) == TRUE

ReleaseLock(k) ==
    /\ locked[k]
    /\ locked' = [locked EXCEPT ![k] = FALSE]
    /\ token' = [token EXCEPT ![k] = Signal(k)]
-----------------------------------------------------------------------------
(* MemoryKVStore and RedisKVStore                                          *)

\* Get: an expired entry is removed and not found.  It has value 0, which
\* is also what a script that finds nothing starts from.
KvGet(k, val) ==
    /\ val = IF kv[k].st = "live" THEN kv[k].val ELSE 0
    /\ kv' = [kv EXCEPT ![k] = IF @.st = "expired" THEN Absent ELSE @]

KvSet(k, val, ttl) ==
    kv' = [kv EXCEPT ![k] = [st |-> "live", ttl |-> ttl, val |-> val]]

\* Delete: the answer says whether there was a live entry.
KvDelete(k) == kv' = [kv EXCEPT ![k] = Absent]

\* RedisKVStore: an error of the server is answered as a missing key, and a
\* write that failed as one that was made.
RedisGetFails(val) == val = 0 /\ UNCHANGED kv

RedisSetFails == UNCHANGED kv

RedisDeleteFails == UNCHANGED kv

\* The time of an entry with a ttl is over.
KvExpire(k) ==
    /\ kv[k].st = "live" /\ kv[k].ttl
    /\ kv' = [kv EXCEPT ![k].st = "expired"]
-----------------------------------------------------------------------------
(* MemoryDBPool.Get for one data source: read lock, write lock with the    *)
(* check repeated, open and ping with the write lock held                  *)

PoolReadable == opener = NoOne

PoolRecheckForgotten == FALSE

PoolRecheck == pool

\* The second look, under the write lock; a miss opens a handle.
PoolOpen(c) ==
    /\ opener = NoOne
    /\ IF PoolRecheck
       THEN UNCHANGED poolVars
       ELSE opener' = c /\ handles' = handles + 1 /\ UNCHANGED pool

\* The end of openAndPing: the handle goes into the map or is closed.
PoolPinged(c, ok) ==
    /\ opener = c
    /\ opener' = NoOne
    /\ pool' = (pool \/ ok)
    /\ handles' = IF ok THEN handles ELSE handles - 1
-----------------------------------------------------------------------------
(* MemoryTxRegistry and database/sql's Tx *)

Open == {t \in DOMAIN tx : tx[t].st = "open"}

ConnFree == Cardinality(Open) < MaxOpenConns

RegistryFree(e) == busy[e] = NoOne

NameTakenNever(e, n) == FALSE

NameTaken(e, n) == reg[e][n] # NoOne

\* Begin waits for a connection with the registry's mutex held.
BeginLocks(c, e) ==
    /\ busy' = [busy EXCEPT ![e] = c]
    /\ UNCHANGED <<reg, tx, taken, rows>>

Began(c, e, n) ==
    /\ busy[e] = c
    /\ ConnFree
    /\ busy' = [busy EXCEPT ![e] = NoOne]
    /\ reg' = [reg EXCEPT ![e][n] = c]
    /\ tx' = [tx EXCEPT ![c] = [st |-> "open", dirty |-> {}]]
    /\ UNCHANGED <<taken, rows>>

BeginFailed(c, e) ==
    /\ busy[e] = c
    /\ busy' = [busy EXCEPT ![e] = NoOne]
    /\ UNCHANGED <<reg, tx, taken, rows>>

\* A statement that writes, in transaction t or on a connection of its own.
WriteIn(t, c) ==
    /\ tx[t].st = "open"
    /\ tx' = [tx EXCEPT ![t].dirty = @ \cup {c}]
    /\ UNCHANGED <<reg, busy, taken, rows>>

WriteAlone(c) ==
    /\ ConnFree
    /\ rows' = rows \cup {c}
    /\ UNCHANGED <<reg, busy, tx, taken>>

\* Commit and Rollback take the entry out of the registry first.
Unregister(c, e, n) ==
    /\ RegistryFree(e)
    /\ reg[e][n] # NoOne
    /\ taken' = [taken EXCEPT ![c] = reg[e][n]]
    /\ reg' = [reg EXCEPT ![e][n] = NoOne]
    /\ UNCHANGED <<busy, tx, rows>>

\* What the database keeps of the transaction a caller has in hand.
Committed(t) == rows \cup tx[t].dirty

EndTx(c, st) ==
    LET t == taken[c]
    IN  /\ tx[t].st = "open"
        /\ tx' = [tx EXCEPT ![t].st = st]
        /\ rows' = IF st = "committed" THEN Committed(t) ELSE rows
        /\ taken' = [taken EXCEPT ![c] = NoOne]
        /\ UNCHANGED <<reg, busy>>

\* tx.Commit or tx.Rollback on a transaction that is over, or whose context
\* is done, returns an error and changes nothing.
EndTxFails(c) ==
    /\ taken' = [taken EXCEPT ![c] = NoOne]
    /\ UNCHANGED <<reg, busy, tx, rows>>

\* database/sql rolls a transaction back when the context of its BeginTx is
\* done.  The registry keeps the entry.
AbortTx(t) ==
    /\ tx[t].st = "open"
    /\ tx' = [tx EXCEPT ![t].st = "over"]
    /\ UNCHANGED <<reg, busy, taken, rows>>
=============================================================================
