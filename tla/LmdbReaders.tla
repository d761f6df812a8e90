----------------------------- MODULE LmdbReaders -----------------------------
(***************************************************************************)
(* The reader table of LMDB.  Every process keeps a byte of the lock file  *)
(* locked at the offset of its pid; a slot is stale when nobody holds the  *)
(* byte of its pid.  Slots are claimed under the reader mutex, but cleared *)
(* and looked at without it, processes are killed anywhere, and the system *)
(* gives their pids to new ones.                                           *)
(***************************************************************************)
EXTENDS Integers, FiniteSets

CONSTANTS
    RProcs,         \* places for processes
    Pids,           \* pids of the system
    me_maxreaders,  \* slots of the table
    MaxStarts       \* bound: processes started

NoPid == 0
ASSUME ReadersAssumption ==
    /\ NoPid \notin Pids /\ me_maxreaders \in Nat
    /\ {"free", "dead"} \cap RProcs = {}

VARIABLES
    table,          \* mr_pid of the slots, from 1 on
    mti_numreaders,
    rmutex,         \* holder of the reader mutex; "free", or "dead" after a kill
    pr,             \* the processes
    starts

rvars == <<table, mti_numreaders, rmutex, pr, starts>>
Slots == 1..me_maxreaders

\* pid: NoPid if there is no process.  live: me_live_reader; close:
\* me_close_readers; at: slot being claimed; mine: slots of its threads.  The
\* rest are the locals of mdb_reader_check0; stale is history: slots of dead
\* processes when the check began, unless their pid or the slot came back.
NoProcess == [pid |-> NoPid, pc |-> "idle", live |-> FALSE, close |-> 0, at |-> 0, mine |-> {},
              i |-> 0, rdrs |-> 0, seen |-> {}, who |-> NoPid, stale |-> {}]

ReadersInit ==
    /\ table = [s \in Slots |-> NoPid]
    /\ mti_numreaders = 0 /\ rmutex = "free"
    /\ pr = [p \in RProcs |-> NoProcess]
    /\ starts = 0

Set(p, new) == pr' = [pr EXCEPT ![p] = new]
Alive == {pr[p].pid : p \in RProcs} \ {NoPid}

\* mdb_reader_pid, Pidcheck: is the byte of this pid locked?
PidLocked(pid) == \E p \in RProcs : pr[p].pid = pid /\ pr[p].live

-----------------------------------------------------------------------------
(* Processes. *)

\* mdb_env_open.  Whoever has the lock file for itself initialises the region;
\* the slots keep what was in them.
Start(p, pid) ==
    /\ pr[p].pid = NoPid /\ pid \notin Alive /\ starts < MaxStarts
    /\ starts' = starts + 1
    /\ IF Alive = {} THEN mti_numreaders' = 0 /\ rmutex' = "free"
       ELSE UNCHANGED <<mti_numreaders, rmutex>>
    /\ pr' = [q \in RProcs |->
                IF q = p THEN [NoProcess EXCEPT !.pid = pid]
                ELSE [pr[q] EXCEPT !.stale = {s \in @ : table[s] # pid}]]
    /\ UNCHANGED table

\* mdb_env_close0 clears the slots with its own pid, then the lock file is closed.
CloseEnv(p) ==
    /\ pr[p].pid # NoPid /\ pr[p].pc = "idle"
    /\ table' = [s \in Slots |-> IF s <= pr[p].close /\ table[s] = pr[p].pid THEN NoPid
                                 ELSE table[s]]
    /\ Set(p, NoProcess)
    /\ UNCHANGED <<mti_numreaders, rmutex, starts>>
Die(p) ==
    /\ pr[p].pid # NoPid
    /\ Set(p, NoProcess)
    /\ rmutex' = IF rmutex = p THEN "dead" ELSE rmutex
    /\ UNCHANGED <<table, mti_numreaders, starts>>

-----------------------------------------------------------------------------
(* mdb_txn_renew0: a thread without a slot claims one. *)

SetPidLock(p) ==
    /\ pr[p].pid # NoPid /\ pr[p].pc = "idle"
    /\ Set(p, [pr[p] EXCEPT !.live = TRUE, !.pc = "lock"])
    /\ UNCHANGED <<table, mti_numreaders, rmutex, starts>>

\* mdb_mutex_failed after the death of the holder: mdb_reader_check0 with the
\* mutex locked clears all stale slots but those of its own pid.
Swept(p) == [s \in Slots |-> IF s <= mti_numreaders /\ table[s] # pr[p].pid /\ ~PidLocked(table[s])
                             THEN NoPid ELSE table[s]]
Lock(p) ==
    /\ rmutex \in {"free", "dead"}
    /\ rmutex' = p
    /\ table' = IF rmutex = "dead" THEN Swept(p) ELSE table
FreeSlots == {s \in 1..mti_numreaders : table[s] = NoPid}
\* The first free slot below mti_numreaders, or the one behind.
FirstFree == IF FreeSlots = {} THEN mti_numreaders + 1
             ELSE CHOOSE s \in FreeSlots : \A t \in FreeSlots : s <= t
LockTable(p) ==
    /\ pr[p].pc = "lock"
    /\ Lock(p)
    /\ Set(p, [pr[p] EXCEPT !.pc = "find"])
    /\ UNCHANGED <<mti_numreaders, starts>>
Find(p) ==
    /\ pr[p].pc = "find"
    /\ IF FirstFree > me_maxreaders
       THEN /\ Set(p, [pr[p] EXCEPT !.pc = "idle"])      \* MDB_READERS_FULL
            /\ rmutex' = "free" /\ table' = table
       ELSE /\ Set(p, [pr[p] EXCEPT !.pc = "publish", !.at = FirstFree])
            /\ table' = [table EXCEPT ![FirstFree] = NoPid]
            /\ rmutex' = rmutex
    /\ UNCHANGED <<mti_numreaders, starts>>
Publish(p) ==
    /\ pr[p].pc = "publish"
    /\ mti_numreaders' = IF pr[p].at > mti_numreaders THEN pr[p].at ELSE mti_numreaders
    /\ Set(p, [pr[p] EXCEPT !.pc = "claim", !.close = mti_numreaders'])
    /\ UNCHANGED <<table, rmutex, starts>>
Claim(p) ==
    /\ pr[p].pc = "claim"
    /\ table' = [table EXCEPT ![pr[p].at] = pr[p].pid]
    /\ rmutex' = "free"
    /\ pr' = [q \in RProcs |->
                IF q = p THEN [pr[p] EXCEPT !.pc = "idle", !.mine = @ \cup {pr[p].at}, !.at = 0]
                ELSE [pr[q] EXCEPT !.stale = @ \ {pr[p].at}]]
    /\ UNCHANGED <<mti_numreaders, starts>>

\* mdb_env_reader_dest: a thread ends.
ThreadEnds(p, s) ==
    /\ pr[p].pc = "idle" /\ s \in pr[p].mine
    /\ table' = [table EXCEPT ![s] = NoPid]
    /\ Set(p, [pr[p] EXCEPT !.mine = @ \ {s}])
    /\ UNCHANGED <<mti_numreaders, rmutex, starts>>

-----------------------------------------------------------------------------
(* mdb_reader_check *)

Check(p) ==
    /\ pr[p].pid # NoPid /\ pr[p].pc = "idle" /\ mti_numreaders > 0
    /\ Set(p, [pr[p] EXCEPT !.pc = "scan", !.i = 1, !.rdrs = mti_numreaders, !.seen = {},
                            !.stale = {s \in 1..mti_numreaders :
                                         table[s] # NoPid /\ table[s] \notin Alive}])
    /\ UNCHANGED <<table, mti_numreaders, rmutex, starts>>
\* The next slot is read; a pid that was not seen before is looked up.
Scan(p) ==
    /\ pr[p].pc = "scan" /\ pr[p].i <= pr[p].rdrs
    /\ LET pid == table[pr[p].i] IN
       Set(p, IF pid \in {NoPid, pr[p].pid} \cup pr[p].seen THEN [pr[p] EXCEPT !.i = @ + 1]
              ELSE IF PidLocked(pid) THEN [pr[p] EXCEPT !.i = @ + 1, !.seen = @ \cup {pid}]
              ELSE [pr[p] EXCEPT !.pc = "found", !.who = pid, !.seen = @ \cup {pid}])
    /\ UNCHANGED <<table, mti_numreaders, rmutex, starts>>
\* Under the mutex the pid is looked up again: a new process may have it now.
\* Mutants: it is not; only the slot at hand is cleared.
Clear(p, gone, last) ==
    /\ pr[p].pc = "found" /\ rmutex \in {"free", "dead"}
    /\ rmutex' = "free"
    /\ table' = IF rmutex = "dead" THEN Swept(p)
                ELSE [s \in Slots |-> IF gone /\ s \in pr[p].i..last /\ table[s] = pr[p].who
                                      THEN NoPid ELSE table[s]]
    /\ Set(p, [pr[p] EXCEPT !.pc = "scan", !.i = @ + 1, !.who = NoPid,
                            !.rdrs = IF rmutex = "dead" THEN 0 ELSE @])
    /\ UNCHANGED <<mti_numreaders, starts>>
ClearStaleUnchecked(p) == Clear(p, TRUE, pr[p].rdrs)
ClearStaleOne(p) == Clear(p, ~PidLocked(pr[p].who), pr[p].i)
ClearStale(p) == Clear(p, ~PidLocked(pr[p].who), pr[p].rdrs)
CheckDone(p) ==
    /\ pr[p].pc = "scan" /\ pr[p].i > pr[p].rdrs
    /\ Set(p, [pr[p] EXCEPT !.pc = "idle", !.i = 0, !.rdrs = 0, !.seen = {}, !.stale = {}])
    /\ UNCHANGED <<table, mti_numreaders, rmutex, starts>>

\* The bound is reached and nobody is left.
ReadersEnd ==
    /\ starts = MaxStarts /\ \A p \in RProcs : pr[p].pid = NoPid
    /\ UNCHANGED rvars

ReadersNext == ReadersEnd \/ \E p \in RProcs :
    \/ \E pid \in Pids : Start(p, pid)
    \/ CloseEnv(p) \/ Die(p)
    \/ SetPidLock(p) \/ LockTable(p) \/ Find(p) \/ Publish(p) \/ Claim(p)
    \/ \E s \in Slots : ThreadEnds(p, s)
    \/ Check(p) \/ Scan(p) \/ ClearStale(p) \/ CheckDone(p)

ReadersSpec == ReadersInit /\ [][ReadersNext]_rvars

-----------------------------------------------------------------------------
\* A slot stays with the live process that claimed it and where the writer
\* looks for it, whoever checks for dead readers, dies or gets the pid of a
\* dead process meanwhile: otherwise the writer would reuse the pages of a
\* snapshot that is being read (comment "Recheck, a new process may have
\* reused pid" of mdb_reader_check0).
SlotsKept ==
    \A p \in RProcs : \A s \in pr[p].mine :
        table[s] = pr[p].pid /\ s <= mti_numreaders

\* When mdb_reader_check returns, the slots of processes that were dead when
\* it began are free, or were claimed again, unless their pid came back.
StaleCleared ==
    \A p \in RProcs : pr[p].pc = "scan" /\ pr[p].i > pr[p].rdrs =>
        \A s \in pr[p].stale : table[s] \in Alive \cup {NoPid}
=============================================================================
