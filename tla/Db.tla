-------------------------------- MODULE Db --------------------------------
(***************************************************************************)
(* The local store of encrypted files (db.c) on top of the transactions,   *)
(* the writer mutex and the reader table of LMDB (liblmdb/mdb.c).  Several *)
(* rkx processes started in one directory share the environment ./data;    *)
(* each uses it from its main thread only.  A process may be killed at any *)
(* point, and its next incarnation opens the environment again.            *)
(*                                                                         *)
(* A committed database is a set of records [key, file]; what a transaction*)
(* sees is the database at its begin.                                      *)
(***************************************************************************)
EXTENDS Naturals, FiniteSets

CONSTANTS
    Procs,          \* rkx processes
    Uuids,          \* files, by the uuid that kx_crypt_file gave them
    KeyLen,         \* strlen("user:uuid") for each uuid
    Head,           \* what a key shorter than 8 bytes keeps of each uuid
    Junk,           \* memory behind the uuid that a longer key takes in
    NoJunk,         \* ... and the absence of it
    MaxReaders,     \* size of the reader table
    Ops,            \* operations the application uses
    MaxCalls,       \* bound: operations started
    MaxOpens        \* bound: environments opened

CONSTANTS NoProc, Dead, Stale   \* model values

ASSUME DbAssumption ==
    /\ MaxReaders \in Nat /\ MaxCalls \in Nat /\ MaxOpens \in Nat
    /\ Ops \subseteq {"insert", "get", "list"}
    /\ {NoProc, Dead, Stale} \cap Procs = {}
    /\ NoProc # Dead /\ NoProc # Stale
    /\ KeyLen \in [Uuids -> Nat]

VARIABLES
    open,           \* the process has an environment (client.db # NULL)
    pc,             \* where each process is in its operation
    arg,            \* the file of the operation
    wlock,          \* owner of the writer mutex; Dead: it died holding it
    slots,          \* the reader table
    tls,            \* the thread's reader slot, 0 if it has none
    store,          \* the committed database
    snap,           \* the database the process' transaction sees
    newKey,         \* the key of the record being inserted
    op, ret, out,   \* last operation, its return value and its result
    kept,           \* history: files whose insertion was committed
    missed,         \* history: get_file has missed in this environment
    panic,          \* MDB_FATAL_ERROR of the process' environment handle
    calls, opens

txnVars == <<wlock, slots, tls, store, snap>>
vars == <<open, pc, arg, wlock, slots, tls, store, snap, newKey, op, ret, out,
          kept, missed, panic, calls, opens>>

Slot == 1..MaxReaders
FreeSlot == [pid |-> NoProc, txn |-> "none"]

Init ==
    /\ open = [p \in Procs |-> FALSE]
    /\ pc = [p \in Procs |-> "idle"]
    /\ arg \in [Procs -> Uuids]
    /\ \A p, q \in Procs : arg[p] = arg[q]
    /\ wlock = NoProc
    /\ slots = [s \in Slot |-> FreeSlot]
    /\ tls = [p \in Procs |-> 0]
    /\ store = {} /\ snap = [p \in Procs |-> {}]
    /\ newKey = [p \in Procs |-> <<>>]
    /\ op = [p \in Procs |-> "none"]
    /\ ret = [p \in Procs |-> "none"]
    /\ out = [p \in Procs |-> NoProc]
    /\ missed = [p \in Procs |-> FALSE]
    /\ panic = [p \in Procs |-> FALSE]
    /\ kept = {} /\ calls = 0 /\ opens = 0

-----------------------------------------------------------------------------
(* Keys.                                                                   *)

\* insert_file takes strlen("user:uuid") bytes from &file->uuid: the uuid cut
\* short, or the uuid with what lies behind it in memory.  The mutated form
\* always cuts it short.
InsertKeysShort(f) == {<<Head[f], 7, NoJunk>>}
InsertKeys(f) ==
    CASE KeyLen[f] < 8 -> {<<Head[f], KeyLen[f], NoJunk>>}
      [] KeyLen[f] = 8 -> {<<f, 8, NoJunk>>}
      [] OTHER -> {<<f, KeyLen[f], j>> : j \in Junk}

\* get_file looks up the 8 bytes of the uuid.
LookupKey(f) == <<f, 8, NoJunk>>

\* mdb_put: the record replaces one with the same key.
Put(s, k, f) == {r \in s : r.key # k} \cup {[key |-> k, file |-> f]}

-----------------------------------------------------------------------------
(* The environment.                                                        *)

\* mdb_env_setup_locks: fcntl locks belong to processes, so the lock region
\* is initialised whenever no other process has the environment open.
Exclusive(p) == \A q \in Procs \ {p} : ~open[q]

\* kx_creat_db.  The mutated form initialises the lock region always.
OpenEnv(p, init) ==
    /\ pc[p] = "idle" /\ opens < MaxOpens
    /\ open' = [open EXCEPT ![p] = TRUE]
    /\ tls' = [tls EXCEPT ![p] = 0]
    /\ wlock' = IF init THEN NoProc ELSE wlock
    /\ slots' = IF init THEN [s \in Slot |-> FreeSlot] ELSE slots
    /\ missed' = [missed EXCEPT ![p] = FALSE]
    /\ panic' = [panic EXCEPT ![p] = FALSE]
    /\ opens' = opens + 1
    /\ UNCHANGED <<pc, arg, store, snap, newKey, op, ret, out, kept, calls>>
CreatDbNotExclusive(p) == OpenEnv(p, TRUE)
CreatDb(p) == OpenEnv(p, Exclusive(p))

\* The process is gone, and all it kept in memory; its reader slot stays.
Vanish(p, ss) ==
    /\ open' = [open EXCEPT ![p] = FALSE]
    /\ pc' = [pc EXCEPT ![p] = "idle"]
    /\ op' = [op EXCEPT ![p] = "none"]
    /\ ret' = [ret EXCEPT ![p] = "none"]
    /\ out' = [out EXCEPT ![p] = NoProc]
    /\ tls' = [tls EXCEPT ![p] = 0]
    /\ slots' = [s \in Slot |-> IF ss[s].pid = p
                                THEN [pid |-> Stale, txn |-> ss[s].txn]
                                ELSE ss[s]]
    /\ missed' = [missed EXCEPT ![p] = FALSE]
    /\ panic' = [panic EXCEPT ![p] = FALSE]
    /\ UNCHANGED <<arg, store, snap, newKey, kept, calls, opens>>

\* The process ends, by main's return (kx_free_db is never called) or killed
\* at any point: a mutex it holds stays behind too.
Exit(p) ==
    /\ open[p]
    /\ wlock' = IF wlock = p THEN Dead ELSE wlock
    /\ Vanish(p, slots)

\* kx_store_db or kx_get_db is called.
Call(p, o, f) ==
    /\ open[p] /\ pc[p] = "idle" /\ calls < MaxCalls /\ o \in Ops
    /\ op' = [op EXCEPT ![p] = o]
    /\ arg' = [arg EXCEPT ![p] = f]
    /\ pc' = [pc EXCEPT ![p] = IF o = "insert" THEN "w_wait" ELSE "r_begin"]
    /\ ret' = [ret EXCEPT ![p] = "none"]
    /\ out' = [out EXCEPT ![p] = NoProc]
    /\ calls' = calls + 1
    /\ UNCHANGED <<open, txnVars, newKey, kept, missed, panic, opens>>

\* Both return 0, whatever the operation did.
Return(p) ==
    /\ pc' = [pc EXCEPT ![p] = "idle"]
    /\ ret' = [ret EXCEPT ![p] = "0"]
    /\ UNCHANGED <<open, arg, op, calls, opens>>

-----------------------------------------------------------------------------
(* insert_file.                                                            *)

\* Whoever gets the mutex of an owner that died clears the slots of dead
\* processes (mdb_mutex_failed).
Recovered == IF wlock # Dead THEN slots
             ELSE [s \in Slot |-> IF slots[s].pid = Stale THEN FreeSlot ELSE slots[s]]

\* mdb_txn_begin locks the writer mutex, its own leaked lock included.  The
\* mutated forms do not wait, and do not recover.
BeginWriteAs(p, may) ==
    /\ pc[p] = "w_wait" /\ may /\ ~panic[p]
    /\ wlock' = p
    /\ slots' = Recovered
    /\ snap' = [snap EXCEPT ![p] = store]
    /\ pc' = [pc EXCEPT ![p] = "w_put"]
    /\ UNCHANGED <<open, arg, tls, store, newKey, op, ret, out, kept, missed, panic,
                   calls, opens>>
BeginWriteNotRobust(p) == BeginWriteAs(p, wlock = NoProc)
BeginWrite(p) == BeginWriteAs(p, wlock \in {NoProc, Dead})

\* MDB_PANIC: mdb_txn_begin gives the mutex back and sets no transaction.
\* insert_file does not look at its result, and mdb_dbi_open dereferences the
\* null transaction: the process is killed.
BeginWritePanics(p) ==
    /\ pc[p] = "w_wait" /\ wlock \in {NoProc, Dead} /\ panic[p]
    /\ wlock' = NoProc
    /\ Vanish(p, Recovered)

PutRecord(p) ==
    /\ pc[p] = "w_put"
    /\ \E k \in InsertKeys(arg[p]) : newKey' = [newKey EXCEPT ![p] = k]
    /\ pc' = [pc EXCEPT ![p] = "w_commit"]
    /\ UNCHANGED <<open, arg, txnVars, op, ret, out, kept, missed, panic, calls, opens>>

\* mdb_dbi_open or mdb_put fails (the map is full): MDB_CHECK returns without
\* mdb_txn_abort, and the process keeps the writer mutex.
PutFails(p) ==
    /\ pc[p] = "w_put"
    /\ Return(p)
    /\ UNCHANGED <<txnVars, newKey, out, kept, missed, panic>>

\* mdb_txn_commit writes the new database and ends the transaction; when it
\* fails it aborts, and when the write of the meta page was what failed, the
\* environment handle is of no use from then on (MDB_FATAL_ERROR).
Commit(p) ==
    /\ pc[p] = "w_commit"
    /\ \/ /\ store' = Put(snap[p], newKey[p], arg[p])
          /\ kept' = kept \cup {arg[p]}
          /\ UNCHANGED panic
       \/ /\ \E fatal \in BOOLEAN : panic' = [panic EXCEPT ![p] = fatal]
          /\ UNCHANGED <<store, kept>>
    /\ wlock' = NoProc
    /\ Return(p)
    /\ UNCHANGED <<slots, tls, snap, newKey, out, missed>>

-----------------------------------------------------------------------------
(* get_file and get_file_list.                                             *)

\* The first slot that no process has claimed.
Unused == {s \in Slot : slots[s].pid = NoProc}
FirstUnused == {s \in Unused : \A u \in Unused : s <= u}

\* mdb_txn_begin of a read transaction: take the thread's slot, or claim one.
BeginRead(p) ==
    /\ pc[p] = "r_begin" /\ ~panic[p]
    /\ \/ /\ tls[p] # 0 /\ slots[tls[p]] = [pid |-> p, txn |-> "none"]
          /\ slots' = [slots EXCEPT ![tls[p]] = [pid |-> p, txn |-> "active"]]
          /\ UNCHANGED tls
       \/ \E s \in FirstUnused :
             /\ tls[p] = 0
             /\ slots' = [slots EXCEPT ![s] = [pid |-> p, txn |-> "active"]]
             /\ tls' = [tls EXCEPT ![p] = s]
    /\ snap' = [snap EXCEPT ![p] = store]
    /\ pc' = [pc EXCEPT ![p] = "r_read"]
    /\ UNCHANGED <<open, arg, wlock, store, newKey, op, ret, out, kept, missed, panic,
                   calls, opens>>

\* MDB_BAD_RSLOT: the thread's slot is still in a transaction (or another's);
\* MDB_READERS_FULL: there is no slot.
BeginReadFails(p) ==
    /\ pc[p] = "r_begin"
    /\ IF tls[p] # 0 THEN slots[tls[p]] # [pid |-> p, txn |-> "none"] ELSE Unused = {}
    /\ Return(p)
    /\ UNCHANGED <<txnVars, newKey, out, kept, missed, panic>>

\* MDB_PANIC, which these two look at: the slot taken stays the thread's.
BeginReadPanics(p) ==
    /\ pc[p] = "r_begin" /\ panic[p]
    /\ \/ /\ tls[p] # 0 /\ slots[tls[p]] = [pid |-> p, txn |-> "none"]
          /\ UNCHANGED <<slots, tls>>
       \/ \E s \in FirstUnused :
             /\ tls[p] = 0
             /\ slots' = [slots EXCEPT ![s] = [pid |-> p, txn |-> "none"]]
             /\ tls' = [tls EXCEPT ![p] = s]
    /\ Return(p)
    /\ UNCHANGED <<wlock, store, snap, newKey, out, kept, missed, panic>>

\* mdb_txn_abort of the read transaction.
EndRead(p) ==
    /\ slots' = [slots EXCEPT ![tls[p]] = [pid |-> slots[tls[p]].pid, txn |-> "none"]]
    /\ UNCHANGED <<wlock, tls, store, snap>>

\* get_file_list: mdb_dbi_open fails until the first insertion was committed;
\* both paths abort the transaction.  The mutated form returns at once.
ListFilesEarlyReturn(p) ==
    /\ pc[p] = "r_read" /\ op[p] = "list"
    /\ IF snap[p] = {} THEN UNCHANGED txnVars ELSE EndRead(p)
    /\ Return(p)
    /\ UNCHANGED <<newKey, out, kept, missed, panic>>
ListFiles(p) ==
    /\ pc[p] = "r_read" /\ op[p] = "list"
    /\ EndRead(p)
    /\ Return(p)
    /\ UNCHANGED <<newKey, out, kept, missed, panic>>

\* get_file, the record exists: *outfile points to it, and the transaction
\* that keeps it in place is aborted.
GetFound(p) ==
    /\ pc[p] = "r_read" /\ op[p] = "get"
    /\ \E r \in snap[p] : /\ r.key = LookupKey(arg[p])
                          /\ out' = [out EXCEPT ![p] = r.file]
    /\ EndRead(p)
    /\ Return(p)
    /\ UNCHANGED <<newKey, kept, missed, panic>>

\* get_file, no record: MDB_CHECK returns without mdb_txn_abort, and the
\* thread's reader slot stays in the transaction.
GetMissed(p) ==
    /\ pc[p] = "r_read" /\ op[p] = "get"
    /\ \A r \in snap[p] : r.key # LookupKey(arg[p])
    /\ Return(p)
    /\ missed' = [missed EXCEPT ![p] = TRUE]
    /\ UNCHANGED <<txnVars, newKey, out, kept, panic>>

-----------------------------------------------------------------------------
Step(p) ==
    \/ BeginWrite(p) \/ BeginWritePanics(p) \/ PutRecord(p) \/ Commit(p)
    \/ BeginRead(p) \/ BeginReadFails(p) \/ BeginReadPanics(p)
    \/ ListFiles(p) \/ GetFound(p) \/ GetMissed(p)

\* Nothing is called any more.  A process that waits for its own writer
\* mutex waits for good.
Ended ==
    /\ \A p \in Procs : pc[p] = "idle" \/ (pc[p] = "w_wait" /\ wlock \in Procs)
    /\ UNCHANGED vars

Next ==
    \/ \E p \in Procs :
          \/ CreatDb(p) \/ Exit(p) \/ Step(p) \/ PutFails(p)
          \/ \E o \in Ops, f \in Uuids : Call(p, o, f)
    \/ Ended

Spec == Init /\ [][Next]_vars

\* The kernel runs every process; the writer mutex is not fair, but the
\* number of calls is finite.
FairSpec == Spec /\ \A p \in Procs : WF_vars(Step(p))

-----------------------------------------------------------------------------
(* Properties.                                                             *)

Pcs == {"idle", "w_wait", "w_put", "w_commit", "r_begin", "r_read"}
Writing == {"w_put", "w_commit"}
Key == UNION {InsertKeys(f) : f \in Uuids}
Record == [key : Key, file : Uuids]
SlotState == [pid : Procs \cup {NoProc, Stale}, txn : {"none", "active"}]

TypeOK ==
    /\ open \in [Procs -> BOOLEAN]
    /\ pc \in [Procs -> Pcs]
    /\ arg \in [Procs -> Uuids]
    /\ wlock \in Procs \cup {NoProc, Dead}
    /\ slots \in [Slot -> SlotState]
    /\ tls \in [Procs -> Slot \cup {0}]
    /\ store \subseteq Record
    /\ snap \in [Procs -> SUBSET Record]
    /\ newKey \in [Procs -> Key \cup {<<>>}]
    /\ op \in [Procs -> {"none"} \cup Ops]
    /\ ret \in [Procs -> {"none", "0"}]
    /\ out \in [Procs -> Uuids \cup {NoProc}]
    /\ kept \subseteq Uuids
    /\ missed \in [Procs -> BOOLEAN] /\ panic \in [Procs -> BOOLEAN]
    /\ calls \in 0..MaxCalls /\ opens \in 0..MaxOpens

\* A process inside a write transaction owns the writer mutex, so that no
\* two write at once, even across kills and initialisations of the lock
\* region; and the database it started from is still the latest.
OneWriter ==
    \A p \in Procs : pc[p] \in Writing => wlock = p /\ snap[p] = store

\* A thread's reader slot is its own: no other process has claimed it and no
\* initialisation or clearing of stale readers has taken it away.
SlotsOwned ==
    \A p \in Procs : tls[p] # 0 => open[p] /\ slots[tls[p]].pid = p

\* A process that reads is registered in the reader table as a reader.
ReadersRegistered ==
    \A p \in Procs : pc[p] = "r_read" =>
        tls[p] # 0 /\ slots[tls[p]].txn = "active"

\* The lock region keeps its promises however processes are killed, started
\* again and initialise it.
LockRegionSound == OneWriter /\ SlotsOwned /\ ReadersRegistered

\* No record of a committed file is lost to another file (keys of 8 bytes or
\* more).
NoRecordLost == kept = {r.file : r \in store}

\* A process that has returned to the shell has left no read transaction
\* open, unless get_file, which the application does not call, missed.
NoReaderLeak ==
    \A p \in Procs :
        pc[p] = "idle" /\ tls[p] # 0 /\ slots[tls[p]].txn = "active" => missed[p]

\* The processes stay within the reader table and leave it as they found it.
ReadersReturn == TypeOK /\ NoReaderLeak

\* Only a write transaction that a live process never ended can block an
\* insertion for ever; the mutex of a killed process is recovered.
Sitting(q) == wlock = q /\ pc[q] \notin Writing
OnlyLeaksBlock ==
    \A p \in Procs :
        pc[p] = "w_wait" ~> (pc[p] # "w_wait" \/ \E q \in Procs : Sitting(q))

\* lmdb.h: "A thread can only use one transaction at a time".
OneTransactionPerThread ==
    \A p \in Procs :
        /\ pc[p] = "w_wait" => wlock # p
        /\ pc[p] = "r_begin" /\ tls[p] # 0 => slots[tls[p]].txn = "none"
=============================================================================
