---------------------------- MODULE SupportProofs ----------------------------
(***************************************************************************)
(* Proofs about what the rest is built on, for any number of processes,    *)
(* threads, slots, blocks, keys and commits: of the environment of LMDB that *)
(* processes and threads share, its table of readers, the handles of named *)
(* databases and the copy made while others commit; the memory in use; and *)
(* the directory of the store.                                             *)
(***************************************************************************)
EXTENDS LmdbReaders, LmdbDbi, LmdbAsIs, Zmalloc, Mkdirp, FiniteSetTheorems,
        FunctionTheorems, SequenceTheorems, WellFoundedInduction, TLAPS

-----------------------------------------------------------------------------
(* The reader table.                                                       *)

Claiming == {"find", "publish", "claim"}
Process ==
    [pid : Pids \cup {NoPid}, pc : {"idle", "lock", "scan", "found"} \cup Claiming,
     live : BOOLEAN, close : Nat, at : Slots \cup {0}, mine : SUBSET Slots, i : Nat,
     rdrs : Slots \cup {0}, seen : SUBSET Pids, who : Pids \cup {NoPid}, stale : SUBSET Slots]

TypeOK ==
    /\ table \in [Slots -> Pids \cup {NoPid}]
    /\ mti_numreaders \in 0..me_maxreaders
    /\ rmutex \in {"free", "dead"} \cup RProcs
    /\ pr \in [RProcs -> Process]

\* A check begins at the first slot.
Scanning == \A p \in RProcs : pr[p].pc \in {"scan", "found"} => pr[p].i > 0

\* Nothing is left of a process that ended, and pids are those of one process.
Separate ==
    /\ \A p \in RProcs : pr[p].pid = NoPid => pr[p] = NoProcess
    /\ \A p, q \in RProcs : p # q /\ pr[p].pid = pr[q].pid => pr[p].pid = NoPid

\* Who claims a slot holds the mutex, and nobody has that slot.
Claims ==
    \A p \in RProcs :
        /\ pr[p].pc \in Claiming <=> rmutex = p
        /\ pr[p].pc = "publish" => pr[p].at \in 1..(mti_numreaders + 1)
        /\ pr[p].pc = "claim" => pr[p].at \in 1..mti_numreaders
        /\ pr[p].pc \in {"publish", "claim"} => pr[p].at \in Slots /\ table[pr[p].at] = NoPid

\* A process that has slots, or is about to claim one, keeps the byte of its pid
\* locked.
Locked ==
    \A p \in RProcs : pr[p].mine # {} \/ pr[p].pc \in Claiming \cup {"lock"} => pr[p].live

\* The inductive invariant behind SlotsKept.
SlotsInv == TypeOK /\ Scanning /\ Separate /\ Claims /\ Locked /\ SlotsKept

\* A slot of a process that was dead when the check began is free by now, or is
\* still to be looked at: its pid was not seen before, or is the one being
\* cleared.
Ahead(p, s) ==
    /\ table[s] \notin Alive
    /\ s \in pr[p].i..pr[p].rdrs
    /\ table[s] \in pr[p].seen => pr[p].pc = "found" /\ table[s] = pr[p].who
    /\ pr[p].pc = "found" /\ s = pr[p].i => table[s] = pr[p].who
StaleAt(p) ==
    /\ pr[p].pc \notin {"scan", "found"} => pr[p].stale = {}
    /\ pr[p].stale \subseteq 1..mti_numreaders
    /\ \A s \in pr[p].stale : table[s] = NoPid \/ Ahead(p, s)
StaleInv == \A p \in RProcs : StaleAt(p)

-----------------------------------------------------------------------------
(* Types.                                                                  *)

LEMMA Least ==
    ASSUME NEW S \in SUBSET Nat, S # {}
    PROVE  \E m \in S : \A k \in S : m <= k
<1>1. PICK m \in S : \A k \in S : ~ (<<k, m>> \in OpToRel(<, Nat))
    BY NatLessThanWellFounded, WFMin
<1>2. \A k \in S : ~ (k < m)
    BY <1>1, Zenon DEF OpToRel
<1> QED
    BY <1>2

\* The slot that mdb_txn_renew0 finds.
LEMMA FirstFreeSlot ==
    ASSUME TypeOK
    PROVE  /\ FirstFree \in 1..(mti_numreaders + 1)
           /\ FirstFree <= mti_numreaders => table[FirstFree] = NoPid
<1>1. CASE FreeSlots = {}
    BY <1>1, ReadersAssumption DEF FirstFree, TypeOK
<1>2. CASE FreeSlots # {}
    <2>1. FreeSlots \in SUBSET Nat
        BY ReadersAssumption DEF FreeSlots, TypeOK
    <2>2. \E s \in FreeSlots : \A k \in FreeSlots : s <= k
        BY <1>2, <2>1, Least
    <2>3. FirstFree \in FreeSlots
        BY <1>2, <2>2 DEF FirstFree
    <2> QED
        BY <2>3, ReadersAssumption DEF FreeSlots, TypeOK
<1> QED
    BY <1>1, <1>2

\* A record given back by one process leaves the others as they were.
LEMMA SetOne ==
    ASSUME pr \in [RProcs -> Process], NEW p \in RProcs, NEW new \in Process, Set(p, new)
    PROVE  /\ pr' \in [RProcs -> Process]
           /\ pr'[p] = new
           /\ \A q \in RProcs : q # p => pr'[q] = pr[q]
BY DEF Set

LEMMA NoProcessType == NoProcess \in Process
BY DEF NoProcess, Process

LEMMA SweptType ==
    ASSUME TypeOK, NEW p \in RProcs
    PROVE  Swept(p) \in [Slots -> Pids \cup {NoPid}]
BY DEF Swept, TypeOK

LEMMA TypeStep ==
    ASSUME TypeOK, Scanning, Claims, [ReadersNext]_rvars
    PROVE  TypeOK'
<1> USE DEF TypeOK, Claiming
<1>1. ASSUME NEW p \in RProcs, NEW pid \in Pids, Start(p, pid) PROVE TypeOK'
    <2>1. [NoProcess EXCEPT !.pid = pid] \in Process
        BY NoProcessType DEF Process
    <2>2. ASSUME NEW q \in RProcs
          PROVE  [pr[q] EXCEPT !.stale = {s \in pr[q].stale : table[s] # pid}] \in Process
        BY DEF Process
    <2>3. pr' \in [RProcs -> Process]
        BY <1>1, <2>1, <2>2 DEF Start
    <2> QED
        BY <1>1, <2>3, ReadersAssumption DEF Start
<1>2. ASSUME NEW p \in RProcs, CloseEnv(p) PROVE TypeOK'
    <2>1. pr' \in [RProcs -> Process]
        BY <1>2, NoProcessType, SetOne DEF CloseEnv
    <2> QED
        BY <1>2, <2>1 DEF CloseEnv
<1>3. ASSUME NEW p \in RProcs, Die(p) PROVE TypeOK'
    <2>1. pr' \in [RProcs -> Process]
        BY <1>3, NoProcessType, SetOne DEF Die
    <2> QED
        BY <1>3, <2>1 DEF Die
<1>4. ASSUME NEW p \in RProcs, SetPidLock(p) PROVE TypeOK'
    <2>1. [pr[p] EXCEPT !.live = TRUE, !.pc = "lock"] \in Process
        BY ZenonT(30) DEF Process
    <2>2. pr' \in [RProcs -> Process]
        BY <1>4, <2>1, SetOne DEF SetPidLock
    <2> QED
        BY <1>4, <2>2 DEF SetPidLock
<1>5. ASSUME NEW p \in RProcs, LockTable(p) PROVE TypeOK'
    <2>1. [pr[p] EXCEPT !.pc = "find"] \in Process
        BY DEF Process
    <2>2. pr' \in [RProcs -> Process]
        BY <1>5, <2>1, SetOne DEF LockTable
    <2> QED
        BY <1>5, <2>2, SweptType DEF LockTable, Lock
<1>6. ASSUME NEW p \in RProcs, Find(p) PROVE TypeOK'
    <2>1. [pr[p] EXCEPT !.pc = "idle"] \in Process
        BY DEF Process
    <2>2. CASE FirstFree > me_maxreaders
        <3>1. pr' \in [RProcs -> Process]
            BY <1>6, <2>1, <2>2, SetOne DEF Find
        <3> QED
            BY <1>6, <2>2, <3>1 DEF Find
    <2>3. CASE ~(FirstFree > me_maxreaders)
        <3>1. FirstFree \in Slots
            BY <2>3, FirstFreeSlot, ReadersAssumption DEF Slots
        <3>2. [pr[p] EXCEPT !.pc = "publish", !.at = FirstFree] \in Process
            BY <3>1, ZenonT(30) DEF Process
        <3>3. pr' \in [RProcs -> Process]
            BY <1>6, <2>3, <3>2, SetOne DEF Find
        <3> QED
            BY <1>6, <2>3, <3>1, <3>3 DEF Find
    <2> QED
        BY <2>2, <2>3
<1>7. ASSUME NEW p \in RProcs, Publish(p) PROVE TypeOK'
    <2>1. mti_numreaders' \in 0..me_maxreaders /\ mti_numreaders' \in Nat
        BY <1>7, ReadersAssumption DEF Publish, Process, Slots
    <2>2. [pr[p] EXCEPT !.pc = "claim", !.close = mti_numreaders'] \in Process
        BY <2>1, ZenonT(30) DEF Process
    <2>3. pr' \in [RProcs -> Process]
        BY <1>7, <2>2, SetOne DEF Publish
    <2> QED
        BY <1>7, <2>1, <2>3 DEF Publish
<1>8. ASSUME NEW p \in RProcs, Claim(p) PROVE TypeOK'
    <2>1. pr[p].at \in Slots /\ pr[p].mine \cup {pr[p].at} \in SUBSET Slots /\ pr[p].pid \in Pids \cup {NoPid}
        BY <1>8 DEF Claim, Claims, Process
    <2>2. [pr[p] EXCEPT !.pc = "idle", !.mine = pr[p].mine \cup {pr[p].at}, !.at = 0] \in Process
        BY <2>1, ZenonT(30) DEF Process
    <2>3. ASSUME NEW q \in RProcs PROVE [pr[q] EXCEPT !.stale = pr[q].stale \ {pr[p].at}] \in Process
        BY DEF Process
    <2>4. pr' \in [RProcs -> Process]
        BY <1>8, <2>2, <2>3 DEF Claim
    <2> QED
        BY <1>8, <2>1, <2>4 DEF Claim
<1>9. ASSUME NEW p \in RProcs, NEW s \in Slots, ThreadEnds(p, s) PROVE TypeOK'
    <2>1. [pr[p] EXCEPT !.mine = pr[p].mine \ {s}] \in Process
        BY DEF Process
    <2>2. pr' \in [RProcs -> Process]
        BY <1>9, <2>1, SetOne DEF ThreadEnds
    <2> QED
        BY <1>9, <2>2 DEF ThreadEnds
<1>10. ASSUME NEW p \in RProcs, Check(p) PROVE TypeOK'
    <2> DEFINE st == {s \in 1..mti_numreaders : table[s] # NoPid /\ table[s] \notin Alive}
    <2>1. st \in SUBSET Slots /\ mti_numreaders \in Slots \cup {0} /\ 1 \in Nat
        BY ReadersAssumption DEF Slots
    <2> HIDE DEF st
    <2>2. [pr[p] EXCEPT !.pc = "scan", !.i = 1, !.rdrs = mti_numreaders, !.seen = {}, !.stale = st]
            \in Process
        BY <2>1, ZenonT(30) DEF Process
    <2>3. pr' \in [RProcs -> Process]
        BY <1>10, <2>2, SetOne DEF Check, st
    <2> QED
        BY <1>10, <2>3 DEF Check
<1>11. ASSUME NEW p \in RProcs, Scan(p) PROVE TypeOK'
    <2> DEFINE pid == table[pr[p].i]
               j == pr[p].i + 1
               more == pr[p].seen \cup {pid}
    <2>1. pr[p].i \in Slots /\ pr[p].seen \in SUBSET Pids
        BY <1>11, ReadersAssumption, SMTT(20) DEF Process, Scan, Slots, Scanning
    <2>2. j \in Nat /\ pid \in Pids \cup {NoPid}
        BY <2>1, ReadersAssumption DEF Slots
    <2>3. pid \notin {NoPid} => more \in SUBSET Pids
        BY <2>1, <2>2
    <2> HIDE DEF pid, j, more
    <2>4. [pr[p] EXCEPT !.i = j] \in Process
        BY <2>2 DEF Process
    <2>5. pid # NoPid => /\ [pr[p] EXCEPT !.i = j, !.seen = more] \in Process
                         /\ [pr[p] EXCEPT !.pc = "found", !.who = pid, !.seen = more] \in Process
        BY <2>2, <2>3, ZenonT(30) DEF Process
    <2>6. PICK new \in Process : Set(p, new)
        <3>1. CASE pid \in {NoPid, pr[p].pid} \cup pr[p].seen
            BY <1>11, <2>4, <3>1 DEF Scan, pid, j
        <3>2. CASE pid \notin {NoPid, pr[p].pid} \cup pr[p].seen /\ PidLocked(pid)
            BY <1>11, <2>5, <3>2 DEF Scan, pid, j, more
        <3>3. CASE pid \notin {NoPid, pr[p].pid} \cup pr[p].seen /\ ~PidLocked(pid)
            BY <1>11, <2>5, <3>3 DEF Scan, pid, more
        <3> QED
            BY <3>1, <3>2, <3>3
    <2>7. pr' \in [RProcs -> Process]
        BY <2>6, SetOne
    <2> QED
        BY <1>11, <2>7 DEF Scan
<1>12. ASSUME NEW p \in RProcs, ClearStale(p) PROVE TypeOK'
    <2> DEFINE j == pr[p].i + 1
               left == IF rmutex = "dead" THEN 0 ELSE pr[p].rdrs
    <2>1. pr[p].i \in Nat /\ pr[p].rdrs \in Slots \cup {0}
        BY DEF Process
    <2>2. j \in Nat /\ left \in Slots \cup {0}
        BY <2>1
    <2>3. [pr[p] EXCEPT !.pc = "scan", !.i = pr[p].i + 1, !.who = NoPid,
                        !.rdrs = IF rmutex = "dead" THEN 0 ELSE pr[p].rdrs] \in Process
        <3> HIDE DEF j, left
        <3>1. [pr[p] EXCEPT !.pc = "scan", !.i = j, !.who = NoPid, !.rdrs = left] \in Process
            BY <2>2, ZenonT(30) DEF Process
        <3> QED
            BY <3>1 DEF j, left
    <2>4. pr' \in [RProcs -> Process]
        BY <1>12, <2>3, SetOne DEF ClearStale, Clear
    <2> QED
        BY <1>12, <2>4, SweptType DEF ClearStale, Clear
<1>13. ASSUME NEW p \in RProcs, CheckDone(p) PROVE TypeOK'
    <2>1. [pr[p] EXCEPT !.pc = "idle", !.i = 0, !.rdrs = 0, !.seen = {}, !.stale = {}] \in Process
        BY ZenonT(30) DEF Process
    <2>2. pr' \in [RProcs -> Process]
        BY <1>13, <2>1, SetOne DEF CheckDone
    <2> QED
        BY <1>13, <2>2 DEF CheckDone
<1>14. CASE ReadersEnd \/ UNCHANGED rvars
    BY <1>14 DEF ReadersEnd, rvars
<1> QED
    BY <1>1, <1>2, <1>3, <1>4, <1>5, <1>6, <1>7, <1>8, <1>9, <1>10, <1>11, <1>12, <1>13, <1>14
    DEF ReadersNext

LEMMA ScanningStep ==
    ASSUME TypeOK, Scanning, [ReadersNext]_rvars
    PROVE  Scanning'
<1> USE DEF TypeOK, Scanning, Process, NoProcess
<1>1. ASSUME NEW p \in RProcs, NEW pid \in Pids, Start(p, pid) PROVE Scanning'
    BY <1>1 DEF Start
<1>2. ASSUME NEW p \in RProcs, CloseEnv(p) PROVE Scanning'
    BY <1>2 DEF CloseEnv, Set
<1>3. ASSUME NEW p \in RProcs, Die(p) PROVE Scanning'
    BY <1>3 DEF Die, Set
<1>4. ASSUME NEW p \in RProcs, SetPidLock(p) PROVE Scanning'
    BY <1>4 DEF SetPidLock, Set
<1>5. ASSUME NEW p \in RProcs, LockTable(p) PROVE Scanning'
    BY <1>5 DEF LockTable, Lock, Set
<1>6. ASSUME NEW p \in RProcs, Find(p) PROVE Scanning'
    BY <1>6, ZenonT(30) DEF Find, Set
<1>7. ASSUME NEW p \in RProcs, Publish(p) PROVE Scanning'
    BY <1>7 DEF Publish, Set
<1>8. ASSUME NEW p \in RProcs, Claim(p) PROVE Scanning'
    BY <1>8 DEF Claim
<1>9. ASSUME NEW p \in RProcs, NEW s \in Slots, ThreadEnds(p, s) PROVE Scanning'
    BY <1>9 DEF ThreadEnds, Set
<1>10. ASSUME NEW p \in RProcs, Check(p) PROVE Scanning'
    BY <1>10 DEF Check, Set
<1>11. ASSUME NEW p \in RProcs, Scan(p) PROVE Scanning'
    BY <1>11 DEF Scan, Set
<1>12. ASSUME NEW p \in RProcs, ClearStale(p) PROVE Scanning'
    BY <1>12 DEF ClearStale, Clear, Set
<1>13. ASSUME NEW p \in RProcs, CheckDone(p) PROVE Scanning'
    BY <1>13 DEF CheckDone, Set
<1>14. CASE ReadersEnd \/ UNCHANGED rvars
    BY <1>14 DEF ReadersEnd, rvars
<1> QED
    BY <1>1, <1>2, <1>3, <1>4, <1>5, <1>6, <1>7, <1>8, <1>9, <1>10, <1>11, <1>12, <1>13, <1>14 DEF ReadersNext


-----------------------------------------------------------------------------
(* Slots.                                                                  *)

\* Nobody is alive: nothing is left of any process.
LEMMA NobodyAlive ==
    ASSUME TypeOK, Separate, Alive = {}
    PROVE  \A q \in RProcs : pr[q] = NoProcess
BY DEF Alive, Separate

\* The effect of Find: the table is full, or the free slot found is noted.
FindsNone(p) ==
    /\ Set(p, [pr[p] EXCEPT !.pc = "idle"])
    /\ rmutex' = "free" /\ table' = table /\ mti_numreaders' = mti_numreaders
FindsSlot(p) ==
    /\ FirstFree \in Slots
    /\ Set(p, [pr[p] EXCEPT !.pc = "publish", !.at = FirstFree])
    /\ table' = [table EXCEPT ![FirstFree] = NoPid]
    /\ rmutex' = rmutex /\ mti_numreaders' = mti_numreaders
LEMMA NothingStale == NoProcess.stale = {} /\ [NoProcess EXCEPT !.stale = {}] = NoProcess
<1>1. ASSUME NEW r \in Process, r.stale = {} PROVE [r EXCEPT !.stale = {}] = r
    BY <1>1 DEF Process
<1>2. NoProcess.stale = {}
    BY DEF NoProcess
<1> QED
    BY <1>1, <1>2, NoProcessType

LEMMA FindStep ==
    ASSUME TypeOK, NEW p \in RProcs, Find(p)
    PROVE  pr[p].pc = "find" /\ (FindsNone(p) \/ FindsSlot(p))
<1>1. CASE FirstFree > me_maxreaders
    BY <1>1 DEF Find, FindsNone
<1>2. CASE ~(FirstFree > me_maxreaders)
    <2>1. FirstFree \in Slots
        BY <1>2, FirstFreeSlot, ReadersAssumption DEF Slots, TypeOK
    <2> QED
        BY <1>2, <2>1 DEF Find, FindsSlot
<1> QED
    BY <1>1, <1>2

LEMMA SeparateStep ==
    ASSUME TypeOK, Separate, [ReadersNext]_rvars
    PROVE  Separate'
<1> USE DEF TypeOK, Separate
<1>1. ASSUME NEW p \in RProcs, NEW pid \in Pids, Start(p, pid) PROVE Separate'
    <2>1. \A q \in RProcs \ {p} : pr'[q].pid = pr[q].pid /\ pr[q].pid # pid
        BY <1>1, ReadersAssumption DEF Start, Process, Alive
    <2>2. pr'[p].pid = pid /\ pid # NoPid
        BY <1>1, ReadersAssumption DEF Start, NoProcess
    <2>3. ASSUME NEW q \in RProcs, q # p, pr[q] = NoProcess PROVE pr'[q] = NoProcess
        <3>1. {s \in pr[q].stale : table[s] # pid} = {}
            BY <2>3, NothingStale
        <3>2. pr'[q] = [pr[q] EXCEPT !.stale = {s \in pr[q].stale : table[s] # pid}]
            BY <1>1, <2>3 DEF Start
        <3> QED
            BY <2>3, <3>1, <3>2, NothingStale
    <2> QED
        BY <2>1, <2>2, <2>3
<1>2. ASSUME NEW p \in RProcs, CloseEnv(p) PROVE Separate'
    BY <1>2 DEF CloseEnv, Set, NoProcess
<1>3. ASSUME NEW p \in RProcs, Die(p) PROVE Separate'
    BY <1>3 DEF Die, Set, NoProcess
<1>4. ASSUME NEW p \in RProcs, SetPidLock(p) PROVE Separate'
    <2>1. pr[p].pid # NoPid
        BY <1>4 DEF SetPidLock, Set, NoProcess
    <2>2. pr'[p].pid = pr[p].pid
        BY <1>4 DEF SetPidLock, Set, Process
    <2>3. \A q \in RProcs : q # p => pr'[q] = pr[q]
        BY <1>4 DEF SetPidLock, Set
    <2> QED
        BY <2>1, <2>2, <2>3
<1>5. ASSUME NEW p \in RProcs, LockTable(p) PROVE Separate'
    <2>1. pr[p].pid # NoPid
        BY <1>5 DEF LockTable, Lock, Set, NoProcess
    <2>2. pr'[p].pid = pr[p].pid
        BY <1>5 DEF LockTable, Lock, Set, Process
    <2>3. \A q \in RProcs : q # p => pr'[q] = pr[q]
        BY <1>5 DEF LockTable, Lock, Set
    <2> QED
        BY <2>1, <2>2, <2>3
<1>6. ASSUME NEW p \in RProcs, Find(p) PROVE Separate'
    <2>1. pr[p].pid # NoPid
        BY <1>6 DEF Find, NoProcess
    <2>2. pr'[p].pid = pr[p].pid /\ \A q \in RProcs : q # p => pr'[q] = pr[q]
        <3>1. CASE FindsNone(p)
            BY <3>1 DEF FindsNone, Set, Process
        <3>2. CASE FindsSlot(p)
            BY <3>2 DEF FindsSlot, Set, Process
        <3> QED
            BY <1>6, <3>1, <3>2, FindStep
    <2> QED
        BY <2>1, <2>2
<1>7. ASSUME NEW p \in RProcs, Publish(p) PROVE Separate'
    <2>1. pr[p].pid # NoPid
        BY <1>7 DEF Publish, Set, NoProcess
    <2>2. pr'[p].pid = pr[p].pid
        BY <1>7 DEF Publish, Set, Process
    <2>3. \A q \in RProcs : q # p => pr'[q] = pr[q]
        BY <1>7 DEF Publish, Set
    <2> QED
        BY <2>1, <2>2, <2>3
<1>8. ASSUME NEW p \in RProcs, Claim(p) PROVE Separate'
    <2>1. pr[p].pid # NoPid
        BY <1>8 DEF Claim, NoProcess
    <2>2. \A q \in RProcs : pr'[q].pid = pr[q].pid
        BY <1>8 DEF Claim, Process
    <2>3. ASSUME NEW q \in RProcs, pr[q] = NoProcess PROVE pr'[q] = NoProcess
        <3>1. q # p
            BY <1>8, <2>3 DEF Claim, NoProcess
        <3> QED
            <4>1. pr[q].stale \ {pr[p].at} = {}
                BY <2>3, NothingStale
            <4>2. pr'[q] = [pr[q] EXCEPT !.stale = pr[q].stale \ {pr[p].at}]
                BY <1>8, <3>1 DEF Claim
            <4> QED
                BY <2>3, <4>1, <4>2, NothingStale
    <2> QED
        BY <2>1, <2>2, <2>3
<1>9. ASSUME NEW p \in RProcs, NEW s \in Slots, ThreadEnds(p, s) PROVE Separate'
    <2>1. pr[p].pid # NoPid
        BY <1>9 DEF ThreadEnds, Set, NoProcess
    <2>2. pr'[p].pid = pr[p].pid
        BY <1>9 DEF ThreadEnds, Set, Process
    <2>3. \A q \in RProcs : q # p => pr'[q] = pr[q]
        BY <1>9 DEF ThreadEnds, Set
    <2> QED
        BY <2>1, <2>2, <2>3
<1>10. ASSUME NEW p \in RProcs, Check(p) PROVE Separate'
    <2>1. pr[p].pid # NoPid
        BY <1>10 DEF Check, Set, NoProcess
    <2>2. pr'[p].pid = pr[p].pid
        BY <1>10 DEF Check, Set, Process
    <2>3. \A q \in RProcs : q # p => pr'[q] = pr[q]
        BY <1>10 DEF Check, Set
    <2> QED
        BY <2>1, <2>2, <2>3
<1>11. ASSUME NEW p \in RProcs, Scan(p) PROVE Separate'
    <2>1. pr[p].pid # NoPid
        BY <1>11 DEF Scan, Set, NoProcess
    <2>2. pr'[p].pid = pr[p].pid
        BY <1>11 DEF Scan, Set, Process
    <2>3. \A q \in RProcs : q # p => pr'[q] = pr[q]
        BY <1>11 DEF Scan, Set
    <2> QED
        BY <2>1, <2>2, <2>3
<1>12. ASSUME NEW p \in RProcs, ClearStale(p) PROVE Separate'
    <2>1. pr[p].pid # NoPid
        BY <1>12 DEF ClearStale, Clear, Set, NoProcess
    <2>2. pr'[p].pid = pr[p].pid
        BY <1>12 DEF ClearStale, Clear, Set, Process
    <2>3. \A q \in RProcs : q # p => pr'[q] = pr[q]
        BY <1>12 DEF ClearStale, Clear, Set
    <2> QED
        BY <2>1, <2>2, <2>3
<1>13. ASSUME NEW p \in RProcs, CheckDone(p) PROVE Separate'
    <2>1. pr[p].pid # NoPid
        BY <1>13 DEF CheckDone, Set, NoProcess
    <2>2. pr'[p].pid = pr[p].pid
        BY <1>13 DEF CheckDone, Set, Process
    <2>3. \A q \in RProcs : q # p => pr'[q] = pr[q]
        BY <1>13 DEF CheckDone, Set
    <2> QED
        BY <2>1, <2>2, <2>3
<1>14. CASE ReadersEnd \/ UNCHANGED rvars
    BY <1>14 DEF ReadersEnd, rvars
<1> QED
    BY <1>1, <1>2, <1>3, <1>4, <1>5, <1>6, <1>7, <1>8, <1>9, <1>10, <1>11, <1>12, <1>13, <1>14 DEF ReadersNext

LEMMA LockedStep ==
    ASSUME TypeOK, Separate, Locked, [ReadersNext]_rvars
    PROVE  Locked'
<1> USE DEF TypeOK, Separate, Locked, Process, NoProcess, Claiming
<1>1. ASSUME NEW p \in RProcs, NEW pid \in Pids, Start(p, pid) PROVE Locked'
    BY <1>1 DEF Start
<1>2. ASSUME NEW p \in RProcs, CloseEnv(p) PROVE Locked'
    BY <1>2 DEF CloseEnv, Set
<1>3. ASSUME NEW p \in RProcs, Die(p) PROVE Locked'
    BY <1>3 DEF Die, Set
<1>4. ASSUME NEW p \in RProcs, SetPidLock(p) PROVE Locked'
    BY <1>4 DEF SetPidLock, Set
<1>5. ASSUME NEW p \in RProcs, LockTable(p) PROVE Locked'
    BY <1>5 DEF LockTable, Lock, Set
<1>6. ASSUME NEW p \in RProcs, Find(p) PROVE Locked'
    <2>1. pr[p].pc = "find" /\ pr[p].live
        BY <1>6 DEF Find
    <2>2. CASE FindsNone(p)
        BY <2>1, <2>2 DEF FindsNone, Set
    <2>3. CASE FindsSlot(p)
        BY <2>1, <2>3 DEF FindsSlot, Set
    <2> QED
        BY <1>6, <2>2, <2>3, FindStep
<1>7. ASSUME NEW p \in RProcs, Publish(p) PROVE Locked'
    BY <1>7 DEF Publish, Set
<1>8. ASSUME NEW p \in RProcs, Claim(p) PROVE Locked'
    BY <1>8 DEF Claim
<1>9. ASSUME NEW p \in RProcs, NEW s \in Slots, ThreadEnds(p, s) PROVE Locked'
    BY <1>9 DEF ThreadEnds, Set
<1>10. ASSUME NEW p \in RProcs, Check(p) PROVE Locked'
    BY <1>10 DEF Check, Set
<1>11. ASSUME NEW p \in RProcs, Scan(p) PROVE Locked'
    BY <1>11 DEF Scan, Set
<1>12. ASSUME NEW p \in RProcs, ClearStale(p) PROVE Locked'
    BY <1>12 DEF ClearStale, Clear, Set
<1>13. ASSUME NEW p \in RProcs, CheckDone(p) PROVE Locked'
    BY <1>13 DEF CheckDone, Set
<1>14. CASE ReadersEnd \/ UNCHANGED rvars
    BY <1>14 DEF ReadersEnd, rvars
<1> QED
    BY <1>1, <1>2, <1>3, <1>4, <1>5, <1>6, <1>7, <1>8, <1>9, <1>10, <1>11, <1>12, <1>13, <1>14 DEF ReadersNext

LEMMA ClaimsStep ==
    ASSUME SlotsInv, [ReadersNext]_rvars
    PROVE  Claims'
<1> USE ReadersAssumption DEF TypeOK, Separate, Claims, Process, NoProcess, SlotsInv, Claiming, Slots
<1>1. ASSUME NEW p \in RProcs, NEW pid \in Pids, Start(p, pid) PROVE Claims'
    <2>1. CASE Alive = {}
        <3>1. \A q \in RProcs : pr[q] = NoProcess
            BY <2>1, NobodyAlive
        <3> QED
            BY <1>1, <2>1, <3>1 DEF Start
    <2>2. CASE Alive # {}
        BY <1>1, <2>2 DEF Start
    <2> QED
        BY <2>1, <2>2
<1>2. ASSUME NEW p \in RProcs, CloseEnv(p) PROVE Claims'
    BY <1>2 DEF CloseEnv, Set
<1>3. ASSUME NEW p \in RProcs, Die(p) PROVE Claims'
    BY <1>3 DEF Die, Set
<1>4. ASSUME NEW p \in RProcs, SetPidLock(p) PROVE Claims'
    BY <1>4 DEF SetPidLock, Set
<1>5. ASSUME NEW p \in RProcs, LockTable(p) PROVE Claims'
    BY <1>5 DEF LockTable, Lock, Set, Swept
<1>6. ASSUME NEW p \in RProcs, Find(p) PROVE Claims'
    <2>1. pr[p].pc = "find" /\ rmutex = p
        BY <1>6 DEF Find
    <2>2. FirstFree \in 1..(mti_numreaders + 1)
        BY FirstFreeSlot
    <2>3. CASE FindsNone(p)
        BY <2>1, <2>3 DEF FindsNone, Set
    <2>4. CASE FindsSlot(p)
        BY <2>1, <2>2, <2>4 DEF FindsSlot, Set
    <2> QED
        BY <1>6, <2>3, <2>4, FindStep
<1>7. ASSUME NEW p \in RProcs, Publish(p) PROVE Claims'
    BY <1>7 DEF Publish, Set
<1>8. ASSUME NEW p \in RProcs, Claim(p) PROVE Claims'
    BY <1>8 DEF Claim
<1>9. ASSUME NEW p \in RProcs, NEW s \in Slots, ThreadEnds(p, s) PROVE Claims'
    BY <1>9 DEF ThreadEnds, Set
<1>10. ASSUME NEW p \in RProcs, Check(p) PROVE Claims'
    BY <1>10 DEF Check, Set
<1>11. ASSUME NEW p \in RProcs, Scan(p) PROVE Claims'
    BY <1>11 DEF Scan, Set
<1>12. ASSUME NEW p \in RProcs, ClearStale(p) PROVE Claims'
    BY <1>12 DEF ClearStale, Clear, Set, Swept
<1>13. ASSUME NEW p \in RProcs, CheckDone(p) PROVE Claims'
    BY <1>13 DEF CheckDone, Set
<1>14. CASE ReadersEnd \/ UNCHANGED rvars
    BY <1>14 DEF ReadersEnd, rvars
<1> QED
    BY <1>1, <1>2, <1>3, <1>4, <1>5, <1>6, <1>7, <1>8, <1>9, <1>10, <1>11, <1>12, <1>13, <1>14 DEF ReadersNext

LEMMA SlotsKeptStep ==
    ASSUME SlotsInv, [ReadersNext]_rvars
    PROVE  SlotsKept'
<1> USE ReadersAssumption DEF TypeOK, Separate, Claims, Locked, SlotsKept, Process, NoProcess, SlotsInv, Claiming, Slots
<1>1. ASSUME NEW p \in RProcs, NEW pid \in Pids, Start(p, pid) PROVE SlotsKept'
    <2>1. CASE Alive = {}
        <3>1. \A q \in RProcs : pr[q] = NoProcess
            BY <2>1, NobodyAlive
        <3> QED
            BY <1>1, <2>1, <3>1 DEF Start
    <2>2. CASE Alive # {}
        BY <1>1, <2>2 DEF Start
    <2> QED
        BY <2>1, <2>2
<1>2. ASSUME NEW p \in RProcs, CloseEnv(p) PROVE SlotsKept'
    BY <1>2 DEF CloseEnv, Set
<1>3. ASSUME NEW p \in RProcs, Die(p) PROVE SlotsKept'
    BY <1>3 DEF Die, Set
<1>4. ASSUME NEW p \in RProcs, SetPidLock(p) PROVE SlotsKept'
    BY <1>4 DEF SetPidLock, Set
<1>5. ASSUME NEW p \in RProcs, LockTable(p) PROVE SlotsKept'
    BY <1>5 DEF LockTable, Lock, Set, Swept, PidLocked
<1>6. ASSUME NEW p \in RProcs, Find(p) PROVE SlotsKept'
    <2>1. pr[p].pc = "find" /\ (FindsNone(p) \/ FindsSlot(p))
        BY <1>6, FindStep
    <2>2. FirstFree <= mti_numreaders => table[FirstFree] = NoPid
        BY FirstFreeSlot
    <2>3. CASE FindsNone(p)
        BY <2>3 DEF FindsNone, Set
    <2>4. CASE FindsSlot(p)
        <3>1. \A q \in RProcs : pr'[q].mine = pr[q].mine /\ pr'[q].pid = pr[q].pid
            BY <2>4 DEF FindsSlot, Set
        <3>2. ASSUME NEW q \in RProcs, NEW u \in pr[q].mine PROVE u # FirstFree
            BY <2>2
        <3> QED
            BY <2>4, <3>1, <3>2 DEF FindsSlot
    <2> QED
        BY <2>1, <2>3, <2>4
<1>7. ASSUME NEW p \in RProcs, Publish(p) PROVE SlotsKept'
    BY <1>7 DEF Publish, Set
<1>8. ASSUME NEW p \in RProcs, Claim(p) PROVE SlotsKept'
    BY <1>8 DEF Claim
<1>9. ASSUME NEW p \in RProcs, NEW s \in Slots, ThreadEnds(p, s) PROVE SlotsKept'
    BY <1>9 DEF ThreadEnds, Set
<1>10. ASSUME NEW p \in RProcs, Check(p) PROVE SlotsKept'
    BY <1>10 DEF Check, Set
<1>11. ASSUME NEW p \in RProcs, Scan(p) PROVE SlotsKept'
    BY <1>11 DEF Scan, Set
<1>12. ASSUME NEW p \in RProcs, ClearStale(p) PROVE SlotsKept'
    BY <1>12 DEF ClearStale, Clear, Set, Swept, PidLocked
<1>13. ASSUME NEW p \in RProcs, CheckDone(p) PROVE SlotsKept'
    BY <1>13 DEF CheckDone, Set
<1>14. CASE ReadersEnd \/ UNCHANGED rvars
    BY <1>14 DEF ReadersEnd, rvars
<1> QED
    BY <1>1, <1>2, <1>3, <1>4, <1>5, <1>6, <1>7, <1>8, <1>9, <1>10, <1>11, <1>12, <1>13, <1>14 DEF ReadersNext

LEMMA SlotsInvHolds == ReadersSpec => []SlotsInv
<1>1. ReadersInit => SlotsInv
    <2> SUFFICES ASSUME ReadersInit PROVE SlotsInv
        OBVIOUS
    <2>1. TypeOK
        BY NoProcessType, ReadersAssumption DEF ReadersInit, TypeOK
    <2>2. \A p \in RProcs : pr[p] = NoProcess
        BY DEF ReadersInit
    <2>3. Scanning /\ Locked /\ SlotsKept
        BY <2>2 DEF NoProcess, Scanning, Locked, SlotsKept, Claiming
    <2>5. Separate
        BY <2>2, NoProcess.pid = NoPid DEF Separate, NoProcess
    <2>4. Claims
        BY <2>2, ReadersAssumption DEF NoProcess, Claims, Claiming, ReadersInit
    <2> QED
        BY <2>1, <2>3, <2>4, <2>5 DEF SlotsInv
<1>2. SlotsInv /\ [ReadersNext]_rvars => SlotsInv'
    BY TypeStep, ScanningStep, SeparateStep, ClaimsStep, LockedStep, SlotsKeptStep DEF SlotsInv
<1> QED
    BY <1>1, <1>2, PTL DEF ReadersSpec

\* SlotsKept holds of every behaviour of the processes that share the lock
\* file: mdb_reader_check0, the death of a process or the use of its pid by
\* another never takes the slot of a live reader.
THEOREM SlotsStay == ReadersSpec => []SlotsKept
BY SlotsInvHolds, PTL DEF SlotsInv


-----------------------------------------------------------------------------
(* Stale slots.                                                            *)

LEMMA Beyond ==
    ASSUME NEW i \in Nat, NEW n \in Nat, NEW s \in i..n, s # i
    PROVE  s \in (i + 1)..n
OBVIOUS

LEMMA LockedAlive ==
    ASSUME NEW pid, pid # NoPid, PidLocked(pid)
    PROVE  pid \in Alive
BY DEF PidLocked, Alive

LEMMA SamePids ==
    ASSUME \A q \in RProcs : pr'[q].pid = pr[q].pid
    PROVE  Alive' = Alive
BY DEF Alive

\* A check goes on as before when what it looks at has only been cleared.
Unaffected(q) ==
    /\ pr'[q].pc = pr[q].pc /\ pr'[q].i = pr[q].i /\ pr'[q].rdrs = pr[q].rdrs
    /\ pr'[q].seen = pr[q].seen /\ pr'[q].who = pr[q].who
    /\ pr'[q].stale \subseteq pr[q].stale /\ mti_numreaders' >= mti_numreaders
    /\ \A s \in pr'[q].stale :
         \/ table'[s] = NoPid
         \/ table'[s] = table[s] /\ (table[s] \notin Alive => table[s] \notin Alive')
LEMMA CheckGoesOn ==
    ASSUME TypeOK, TypeOK', NEW q \in RProcs, StaleAt(q), Unaffected(q)
    PROVE  StaleAt(q)'
<1> QED
    BY ReadersAssumption DEF TypeOK, StaleAt, Unaffected, Ahead

LEMMA NoCheck ==
    ASSUME NEW q \in RProcs, pr'[q].stale = {}
    PROVE  StaleAt(q)'
BY DEF StaleAt

LEMMA StaleStep ==
    ASSUME SlotsInv, TypeOK', StaleInv, [ReadersNext]_rvars
    PROVE  StaleInv'
<1> USE ReadersAssumption DEF TypeOK, SlotsInv, Process
<1>1. ASSUME NEW p \in RProcs, NEW pid \in Pids, Start(p, pid) PROVE StaleInv'
    <2>1. pr'[p].stale = {}
        BY <1>1 DEF Start, NoProcess
    <2>2. Alive' = Alive \cup {pid}
        <3>1. \A q \in RProcs : q # p => pr'[q].pid = pr[q].pid
            BY <1>1 DEF Start
        <3>2. pr'[p].pid = pid /\ pr[p].pid = NoPid /\ pid # NoPid
            BY <1>1, ReadersAssumption DEF Start, NoProcess
        <3> QED
            BY <3>1, <3>2, SMTT(30) DEF Alive
    <2>3. CASE Alive = {}
        <3>1. ASSUME NEW q \in RProcs PROVE pr'[q].stale = {}
            BY <1>1, <2>1, <2>3, NobodyAlive DEF Start, NoProcess
        <3> QED
            BY <3>1, NoCheck DEF StaleInv
    <2>4. CASE Alive # {}
        <3>1. ASSUME NEW q \in RProcs, q # p PROVE Unaffected(q)
            BY <1>1, <2>2, <2>4, <3>1 DEF Start, Unaffected
        <3> QED
            BY <2>1, <3>1, CheckGoesOn, NoCheck DEF StaleInv
    <2> QED
        BY <2>3, <2>4
<1>2. ASSUME NEW p \in RProcs, CloseEnv(p) PROVE StaleInv'
    <2>1. ASSUME NEW pid, pid \in Alive' PROVE pid \in Alive
        BY <1>2, <2>1 DEF CloseEnv, Set, Alive, NoProcess
    <2>2. pr'[p].stale = {}
        BY <1>2 DEF CloseEnv, Set, NoProcess
    <2>3. ASSUME NEW q \in RProcs, q # p PROVE Unaffected(q)
        BY <1>2, <2>1, <2>3 DEF CloseEnv, Set, Unaffected
    <2> QED
        BY <2>2, <2>3, CheckGoesOn, NoCheck DEF StaleInv
<1>3. ASSUME NEW p \in RProcs, Die(p) PROVE StaleInv'
    <2>1. ASSUME NEW pid, pid \in Alive' PROVE pid \in Alive
        BY <1>3, <2>1 DEF Die, Set, Alive, NoProcess
    <2>2. pr'[p].stale = {}
        BY <1>3 DEF Die, Set, NoProcess
    <2>3. ASSUME NEW q \in RProcs, q # p PROVE Unaffected(q)
        BY <1>3, <2>1, <2>3 DEF Die, Set, Unaffected
    <2> QED
        BY <2>2, <2>3, CheckGoesOn, NoCheck DEF StaleInv
<1>4. ASSUME NEW p \in RProcs, SetPidLock(p) PROVE StaleInv'
    <2>1. Alive' = Alive
        BY <1>4, SamePids DEF SetPidLock, Set
    <2>2. pr'[p].stale = {}
        BY <1>4 DEF SetPidLock, Set, StaleInv, StaleAt
    <2>3. ASSUME NEW q \in RProcs, q # p PROVE Unaffected(q)
        BY <1>4, <2>1, <2>3 DEF SetPidLock, Set, Unaffected
    <2> QED
        BY <2>2, <2>3, CheckGoesOn, NoCheck DEF StaleInv
<1>5. ASSUME NEW p \in RProcs, LockTable(p) PROVE StaleInv'
    <2>1. Alive' = Alive
        BY <1>5, SamePids DEF LockTable, Lock, Set
    <2>2. pr'[p].stale = {}
        BY <1>5 DEF LockTable, Lock, Set, StaleInv, StaleAt
    <2>3. ASSUME NEW q \in RProcs, q # p PROVE Unaffected(q)
        BY <1>5, <2>1, <2>3 DEF LockTable, Lock, Set, Swept, Unaffected
    <2> QED
        BY <2>2, <2>3, CheckGoesOn, NoCheck DEF StaleInv
<1>6. ASSUME NEW p \in RProcs, Find(p) PROVE StaleInv'
    <2>1. FindsNone(p) \/ FindsSlot(p)
        BY <1>6, FindStep
    <2>2. \A q \in RProcs : pr'[q].pid = pr[q].pid /\ (q # p => pr'[q] = pr[q])
        <3>1. CASE FindsNone(p)
            BY <3>1 DEF FindsNone, Set
        <3>2. CASE FindsSlot(p)
            BY <3>2 DEF FindsSlot, Set
        <3> QED
            BY <2>1, <3>1, <3>2
    <2>3. Alive' = Alive
        BY <2>2, SamePids
    <2>4. pr'[p].stale = {}
        <3>1. pr[p].stale = {}
            BY <1>6 DEF Find, StaleInv, StaleAt
        <3>2. CASE FindsNone(p)
            BY <3>1, <3>2 DEF FindsNone, Set
        <3>3. CASE FindsSlot(p)
            BY <3>1, <3>3 DEF FindsSlot, Set
        <3> QED
            BY <2>1, <3>2, <3>3
    <2>5. ASSUME NEW q \in RProcs, q # p PROVE Unaffected(q)
        BY <2>1, <2>2, <2>3, <2>5 DEF FindsNone, FindsSlot, Unaffected
    <2> QED
        BY <2>4, <2>5, CheckGoesOn, NoCheck DEF StaleInv
<1>7. ASSUME NEW p \in RProcs, Publish(p) PROVE StaleInv'
    <2>1. Alive' = Alive
        BY <1>7, SamePids DEF Publish, Set
    <2>2. pr'[p].stale = {}
        BY <1>7 DEF Publish, Set, StaleInv, StaleAt
    <2>3. ASSUME NEW q \in RProcs, q # p PROVE Unaffected(q)
        BY <1>7, <2>1, <2>3 DEF Publish, Set, Unaffected
    <2> QED
        BY <2>2, <2>3, CheckGoesOn, NoCheck DEF StaleInv
<1>8. ASSUME NEW p \in RProcs, Claim(p) PROVE StaleInv'
    <2>1. Alive' = Alive
        BY <1>8, SamePids DEF Claim
    <2>2. pr'[p].stale = {}
        <3>1. pr[p].stale = {}
            BY <1>8 DEF Claim, StaleInv, StaleAt
        <3>2. pr'[p] = [pr[p] EXCEPT !.pc = "idle", !.mine = pr[p].mine \cup {pr[p].at}, !.at = 0]
            BY <1>8 DEF Claim
        <3> QED
            BY <3>1, <3>2
    <2>3. ASSUME NEW q \in RProcs, q # p PROVE Unaffected(q)
        <3>1. pr'[q] = [pr[q] EXCEPT !.stale = pr[q].stale \ {pr[p].at}]
            BY <1>8, <2>3 DEF Claim
        <3>2. \A u \in pr'[q].stale : table'[u] = table[u]
            BY <1>8, <3>1, ZenonT(30) DEF Claim
        <3>3. /\ pr'[q].pc = pr[q].pc /\ pr'[q].i = pr[q].i /\ pr'[q].rdrs = pr[q].rdrs
              /\ pr'[q].seen = pr[q].seen /\ pr'[q].who = pr[q].who
              /\ pr'[q].stale \subseteq pr[q].stale
            BY <3>1
        <3>4. mti_numreaders' >= mti_numreaders
            BY <1>8 DEF Claim
        <3> QED
            BY <2>1, <3>2, <3>3, <3>4 DEF Unaffected
    <2> QED
        BY <2>2, <2>3, CheckGoesOn, NoCheck DEF StaleInv
<1>9. ASSUME NEW p \in RProcs, NEW s \in Slots, ThreadEnds(p, s) PROVE StaleInv'
    <2>1. Alive' = Alive
        BY <1>9, SamePids DEF ThreadEnds, Set
    <2>2. pr'[p].stale = {}
        BY <1>9 DEF ThreadEnds, Set, StaleInv, StaleAt
    <2>3. ASSUME NEW q \in RProcs, q # p PROVE Unaffected(q)
        BY <1>9, <2>1, <2>3 DEF ThreadEnds, Set, Unaffected
    <2> QED
        BY <2>2, <2>3, CheckGoesOn, NoCheck DEF StaleInv
<1>10. ASSUME NEW p \in RProcs, Check(p) PROVE StaleInv'
    <2> DEFINE st == {s \in 1..mti_numreaders : table[s] # NoPid /\ table[s] \notin Alive}
    <2>1. Set(p, [pr[p] EXCEPT !.pc = "scan", !.i = 1, !.rdrs = mti_numreaders, !.seen = {},
                               !.stale = st])
        BY <1>10 DEF Check
    <2>2. \A s \in st : s \in 1..mti_numreaders /\ table[s] \notin Alive
        OBVIOUS
    <2> HIDE DEF st
    <2>3. Alive' = Alive
        BY <2>1, SamePids DEF Set
    <2>4. ASSUME NEW q \in RProcs, q # p PROVE Unaffected(q)
        <3>1. pr'[q] = pr[q]
            BY <2>1, <2>4 DEF Set
        <3> QED
            BY <1>10, <2>3, <3>1 DEF Check, Unaffected
    <2>5. StaleAt(p)'
        <3>1. /\ pr'[p].pc = "scan" /\ pr'[p].i = 1 /\ pr'[p].rdrs = mti_numreaders
              /\ pr'[p].seen = {} /\ pr'[p].stale = st
            BY <2>1 DEF Set
        <3>2. table' = table /\ mti_numreaders' = mti_numreaders
            BY <1>10 DEF Check
        <3> QED
            BY <2>2, <2>3, <3>1, <3>2 DEF StaleAt, Ahead
    <2> QED
        BY <2>4, <2>5, CheckGoesOn DEF StaleInv
<1>11. ASSUME NEW p \in RProcs, Scan(p) PROVE StaleInv'
    <2>1. Alive' = Alive
        BY <1>11, SamePids DEF Scan, Set
    <2>2. ASSUME NEW q \in RProcs, q # p PROVE Unaffected(q)
        BY <1>11, <2>1, <2>2 DEF Scan, Set, Unaffected
    <2>3. StaleAt(p)'
        <3> DEFINE pid == table[pr[p].i]
        <3>1. pr[p].pc = "scan" /\ pr[p].pid \in Alive /\ table' = table /\ mti_numreaders' = mti_numreaders
            BY <1>11 DEF Scan, Alive, Separate, NoProcess
        <3>2. ASSUME NEW s \in pr[p].stale, table[s] # NoPid
              PROVE  table[s] \notin Alive /\ s \in pr[p].i..pr[p].rdrs /\ table[s] \notin pr[p].seen
            BY <3>1, <3>2 DEF StaleInv, StaleAt, Ahead
        <3>3. pr[p].stale \subseteq 1..mti_numreaders
            BY DEF StaleInv, StaleAt
        <3>7. pr[p].i \in Nat /\ pr[p].rdrs \in Nat
            BY DEF Slots
        <3>4. CASE pid \in {NoPid, pr[p].pid} \cup pr[p].seen
            <4>1. pr'[p] = [pr[p] EXCEPT !.i = pr[p].i + 1]
                BY <1>11, <3>4 DEF Scan, Set
            <4>2. ASSUME NEW s \in pr[p].stale, table[s] # NoPid
                  PROVE  s \in (pr[p].i + 1)..pr[p].rdrs
                <5>1. s \in pr[p].i..pr[p].rdrs /\ s # pr[p].i
                    BY <3>1, <3>2, <3>4, <4>2
                <5> QED
                    BY <3>7, <5>1, Beyond
            <4>3. /\ pr'[p].pc = "scan" /\ pr'[p].i = pr[p].i + 1 /\ pr'[p].rdrs = pr[p].rdrs
                  /\ pr'[p].seen = pr[p].seen /\ pr'[p].stale = pr[p].stale
                BY <3>1, <4>1
            <4> QED
                BY <2>1, <3>1, <3>2, <3>3, <4>2, <4>3 DEF StaleAt, Ahead
        <3>5. CASE pid \notin {NoPid, pr[p].pid} \cup pr[p].seen /\ PidLocked(pid)
            <4>1. pr'[p] = [pr[p] EXCEPT !.i = pr[p].i + 1, !.seen = pr[p].seen \cup {pid}]
                BY <1>11, <3>5 DEF Scan, Set
            <4>2. pid \in Alive
                BY <3>5, LockedAlive
            <4>3. ASSUME NEW s \in pr[p].stale, table[s] # NoPid
                  PROVE  s \in (pr[p].i + 1)..pr[p].rdrs /\ table[s] # pid
                <5>1. s \in pr[p].i..pr[p].rdrs /\ s # pr[p].i /\ table[s] # pid
                    BY <3>2, <4>2, <4>3
                <5> QED
                    BY <3>7, <5>1, Beyond
            <4>4. /\ pr'[p].pc = "scan" /\ pr'[p].i = pr[p].i + 1 /\ pr'[p].rdrs = pr[p].rdrs
                  /\ pr'[p].seen = pr[p].seen \cup {pid} /\ pr'[p].stale = pr[p].stale
                BY <3>1, <4>1
            <4> QED
                BY <2>1, <3>1, <3>2, <3>3, <4>3, <4>4 DEF StaleAt, Ahead
        <3>6. CASE pid \notin {NoPid, pr[p].pid} \cup pr[p].seen /\ ~PidLocked(pid)
            <4>1. pr'[p] = [pr[p] EXCEPT !.pc = "found", !.who = pid, !.seen = pr[p].seen \cup {pid}]
                BY <1>11, <3>6 DEF Scan, Set
            <4> QED
                BY <2>1, <3>1, <3>2, <3>3, <4>1 DEF StaleAt, Ahead
        <3> QED
            BY <3>4, <3>5, <3>6
    <2> QED
        BY <2>2, <2>3, CheckGoesOn DEF StaleInv
<1>12. ASSUME NEW p \in RProcs, ClearStale(p) PROVE StaleInv'
    <2>1. Alive' = Alive
        BY <1>12, SamePids DEF ClearStale, Clear, Set
    <2>2. ASSUME NEW q \in RProcs, q # p PROVE Unaffected(q)
        BY <1>12, <2>1, <2>2 DEF ClearStale, Clear, Set, Swept, Unaffected
    <2>3. StaleAt(p)'
        <3>1. pr[p].pc = "found" /\ pr[p].pid \in Alive /\ mti_numreaders' = mti_numreaders
            BY <1>12 DEF ClearStale, Clear, Alive, Separate, NoProcess
        <3>2. ASSUME NEW s \in pr[p].stale, table[s] # NoPid
              PROVE  /\ table[s] \notin Alive /\ s \in pr[p].i..pr[p].rdrs
                     /\ table[s] \in pr[p].seen \/ s = pr[p].i => table[s] = pr[p].who
                     /\ ~PidLocked(table[s])
            BY <3>1, <3>2, LockedAlive DEF StaleInv, StaleAt, Ahead
        <3>3. pr[p].stale \subseteq 1..mti_numreaders
            BY DEF StaleInv, StaleAt
        <3>4. /\ pr'[p].pc = "scan" /\ pr'[p].i = pr[p].i + 1 /\ pr'[p].seen = pr[p].seen
              /\ pr'[p].stale = pr[p].stale /\ (rmutex # "dead" => pr'[p].rdrs = pr[p].rdrs)
            BY <1>12 DEF ClearStale, Clear, Set
        <3>5. CASE rmutex = "dead"
            <4>1. table' = Swept(p)
                BY <1>12, <3>5 DEF ClearStale, Clear
            <4>2. ASSUME NEW s \in pr[p].stale PROVE table'[s] = NoPid
                BY <3>1, <3>2, <3>3, <4>1 DEF Swept
            <4> QED
                BY <3>1, <3>3, <3>4, <4>2 DEF StaleAt
        <3>6. CASE rmutex # "dead"
            <4>1. ASSUME NEW s \in pr[p].stale
                  PROVE  \/ table'[s] = NoPid
                         \/ table'[s] = table[s] /\ table[s] # NoPid /\ table[s] # pr[p].who
                <5>1. table'[s] = IF /\ ~PidLocked(pr[p].who)
                                     /\ s \in pr[p].i..pr[p].rdrs /\ table[s] = pr[p].who
                                  THEN NoPid ELSE table[s]
                    BY <1>12, <3>6 DEF ClearStale, Clear
                <5> QED
                    BY <3>2, <5>1
            <4>2. ASSUME NEW s \in pr[p].stale, table'[s] # NoPid
                  PROVE  /\ table'[s] \notin Alive' /\ table'[s] \notin pr'[p].seen
                         /\ s \in pr'[p].i..pr'[p].rdrs
                <5>1. /\ table'[s] = table[s] /\ table[s] # NoPid /\ table[s] # pr[p].who
                      /\ pr'[p].rdrs = pr[p].rdrs
                    BY <3>4, <3>6, <4>1, <4>2
                <5>2. table[s] \notin Alive /\ s \in pr[p].i..pr[p].rdrs /\ table[s] \notin pr[p].seen
                      /\ s # pr[p].i
                    BY <3>2, <5>1
                <5>3. pr[p].i \in Nat /\ pr[p].rdrs \in Nat
                    BY DEF Slots
                <5>4. s \in (pr[p].i + 1)..pr[p].rdrs
                    BY <5>2, <5>3, Beyond
                <5> QED
                    BY <2>1, <3>4, <5>1, <5>2, <5>4
            <4> QED
                BY <3>1, <3>3, <3>4, <4>2 DEF StaleAt, Ahead
        <3> QED
            BY <3>5, <3>6
    <2> QED
        BY <2>2, <2>3, CheckGoesOn DEF StaleInv
<1>13. ASSUME NEW p \in RProcs, CheckDone(p) PROVE StaleInv'
    <2>1. Alive' = Alive
        BY <1>13, SamePids DEF CheckDone, Set
    <2>2. pr'[p].stale = {}
        BY <1>13 DEF CheckDone, Set, StaleInv, StaleAt
    <2>3. ASSUME NEW q \in RProcs, q # p PROVE Unaffected(q)
        BY <1>13, <2>1, <2>3 DEF CheckDone, Set, Unaffected
    <2> QED
        BY <2>2, <2>3, CheckGoesOn, NoCheck DEF StaleInv
<1>14. CASE ReadersEnd \/ UNCHANGED rvars
    BY <1>14 DEF ReadersEnd, rvars, StaleInv, StaleAt, Ahead, Alive
<1> QED
    BY <1>1, <1>2, <1>3, <1>4, <1>5, <1>6, <1>7, <1>8, <1>9, <1>10, <1>11, <1>12, <1>13, <1>14 DEF ReadersNext

\* StaleCleared holds of every behaviour: when mdb_reader_check0 is through, the
\* slots of the processes that were dead when it began are free or taken again,
\* whatever was claimed, cleared and killed meanwhile, unless their pid came back.
THEOREM StaleGone == ReadersSpec => []StaleCleared
<1>1. ReadersInit => StaleInv
    BY DEF ReadersInit, StaleInv, StaleAt, NoProcess
<1>2. SlotsInv /\ SlotsInv' /\ StaleInv /\ [ReadersNext]_rvars => StaleInv'
    BY StaleStep DEF SlotsInv
<1>3. SlotsInv /\ StaleInv => StaleCleared
    <2> SUFFICES ASSUME SlotsInv, StaleInv, NEW p \in RProcs, pr[p].pc = "scan", pr[p].i > pr[p].rdrs,
                        NEW s \in pr[p].stale
                 PROVE  table[s] = NoPid
        BY DEF StaleCleared
    <2>1. pr[p].i \in Nat /\ pr[p].rdrs \in Nat
        BY ReadersAssumption DEF SlotsInv, TypeOK, Process, Slots
    <2>2. table[s] = NoPid \/ s \in pr[p].i..pr[p].rdrs
        BY DEF StaleInv, StaleAt, Ahead
    <2> QED
        BY <2>1, <2>2
<1> QED
    BY SlotsInvHolds, <1>1, <1>2, <1>3, PTL DEF ReadersSpec

-----------------------------------------------------------------------------
(* Handles of named databases.                                             *)

Flags == {"DB_NEW", "DB_VALID", "DB_STALE", "DB_DIRTY"}
Txn == [num : 0..me_maxdbs, main : SUBSET Names, flags : [Dbis -> SUBSET Flags]]
Handle == [dbi : Dbis, name : Names, in : Nat]

DbiTypeOK ==
    /\ names \in [Dbis -> Names \cup {NoName}] /\ valid \in [Dbis -> BOOLEAN]
    /\ me_dbiseqs \in [Dbis -> Nat] /\ mt_dbiseqs \in [Dbis -> Nat]
    /\ me_numdbs \in 0..me_maxdbs
    /\ dbs \in SUBSET Names
    /\ txs \in Seq(Txn)
    /\ handles \in SUBSET Handle

\* No transaction within the one at depth d opened this slot.
Settled(i, d) == \A e \in d + 1..depth : "DB_NEW" \notin txs[e].flags[i]

\* A slot with a name is that of a database: of the committed ones, if no
\* transaction opened it, and of every transaction from the one on that did.
SlotsRight ==
    \A i \in Dbis : names[i] # NoName =>
        /\ depth > 0 => ~Changed(i)
        /\ Settled(i, 0) => i <= me_numdbs /\ valid[i] /\ names[i] \in dbs
        /\ \A d \in 1..depth : Settled(i, d) =>
             /\ i <= txs[d].num /\ "DB_VALID" \in txs[d].flags[i]
             /\ names[i] \in txs[d].main

\* A database has one slot.
OneSlot == \A i, j \in Dbis : names[i] # NoName /\ names[i] = names[j] => i = j

\* A handle is that of the database its slot has, and of the innermost
\* transaction that opened it.
HandlesOpen ==
    \A h \in handles :
        /\ names[h.dbi] = h.name
        /\ h.in \in 0..depth /\ Settled(h.dbi, h.in)
        /\ h.in > 0 => "DB_NEW" \in txs[h.in].flags[h.dbi]

\* The inductive invariant behind HandlesRight.
DbiInv == DbiTypeOK /\ SlotsRight /\ OneSlot /\ HandlesOpen

-----------------------------------------------------------------------------
(* Slots and the stack of transactions.                                    *)

LEMMA Inner ==
    ASSUME DbiTypeOK
    PROVE  /\ depth \in Nat
           /\ \A d \in 1..depth : /\ txs[d] \in Txn /\ txs[d].num \in 0..me_maxdbs
                                  /\ txs[d].main \in SUBSET Names
                                  /\ txs[d].flags \in [Dbis -> SUBSET Flags]
<1>1. depth \in Nat /\ \A d \in 1..depth : txs[d] \in Txn
    BY DEF DbiTypeOK, depth
<1> QED
    BY <1>1 DEF Txn

\* The slot mdb_dbi_open takes has no name.
LEMMA NewSlotFree ==
    ASSUME DbiInv, depth > 0, NewSlot <= me_maxdbs
    PROVE  NewSlot \in Dbis /\ names[NewSlot] = NoName
<1>1. t \in Txn /\ t.num \in 0..me_maxdbs
    BY Inner DEF DbiInv, t
<1>2. CASE Unused = {}
    <2>1. NewSlot = t.num + 1 /\ NewSlot \in Dbis
        BY <1>1, <1>2, DbiAssumption DEF NewSlot, Dbis
    <2>2. \A i \in Dbis : names[i] # NoName => i <= t.num
        BY Inner DEF DbiInv, SlotsRight, Settled, t
    <2> QED
        BY <1>1, <2>1, <2>2
<1>3. CASE Unused # {}
    <2>1. Unused \in SUBSET Nat
        BY <1>1 DEF Unused
    <2>2. \E i \in Unused : \A j \in Unused : i <= j
        BY <1>3, <2>1, Least
    <2>3. NewSlot \in Unused
        BY <1>3, <2>2 DEF NewSlot
    <2> QED
        BY <1>1, <2>3, DbiAssumption DEF Unused, Dbis
<1> QED
    BY <1>2, <1>3

\* The depth of the innermost transaction that opened a slot.
LEMMA OpenedAt ==
    ASSUME DbiTypeOK, NEW i \in Dbis
    PROVE  /\ Opened(i) \in 0..depth
           /\ Settled(i, Opened(i))
           /\ Opened(i) > 0 => "DB_NEW" \in txs[Opened(i)].flags[i]
<1> DEFINE S == {0} \cup {d \in 1..depth : "DB_NEW" \in txs[d].flags[i]}
           R == {depth - d : d \in S}
<1>1. depth \in Nat /\ S \subseteq 0..depth /\ 0 \in S
    BY Inner
<1>2. R \in SUBSET Nat /\ R # {}
    BY <1>1
<1>3. PICK m \in R : \A k \in R : m <= k
    BY <1>2, Least
<1>4. PICK x \in S : m = depth - x
    BY <1>3
<1>5. \A y \in S : x >= y
    <2>1. ASSUME NEW y \in S PROVE depth - y \in R
        OBVIOUS
    <2> HIDE DEF S, R
    <2>2. ASSUME NEW y \in S PROVE depth - x <= depth - y
        BY <1>3, <1>4, <2>1
    <2>3. ASSUME NEW y \in S PROVE y \in 0..depth
        BY <1>1
    <2> QED
        BY <1>1, <2>2, <2>3
<1>6. Opened(i) = CHOOSE z \in S : \A y \in S : z >= y
    BY DEF Opened, Max
<1>7. Opened(i) \in S /\ \A y \in S : Opened(i) >= y
    BY <1>5, <1>6
<1>8. ASSUME NEW e \in Opened(i) + 1..depth PROVE "DB_NEW" \notin txs[e].flags[i]
    BY <1>1, <1>7
<1> QED
    BY <1>1, <1>7, <1>8 DEF Settled

\* What a transaction does to its own copy leaves its parents as they were.
LEMMA InnerReplaced ==
    ASSUME DbiTypeOK, depth > 0, NEW new \in Txn, txs' = [txs EXCEPT ![depth] = new]
    PROVE  /\ txs' \in Seq(Txn) /\ depth' = depth
           /\ txs'[depth] = new
           /\ \A d \in 1..depth : d # depth => txs'[d] = txs[d]
BY DEF DbiTypeOK, depth

LEMMA InnerAdded ==
    ASSUME DbiTypeOK, NEW new \in Txn, txs' = Append(txs, new)
    PROVE  /\ txs' \in Seq(Txn) /\ depth' = depth + 1
           /\ txs'[depth + 1] = new
           /\ \A d \in 1..depth : txs'[d] = txs[d]
BY DEF DbiTypeOK, depth

LEMMA InnerRemoved ==
    ASSUME DbiTypeOK, depth > 0, txs' = SubSeq(txs, 1, depth - 1)
    PROVE  /\ txs' \in Seq(Txn) /\ depth' = depth - 1
           /\ \A d \in 1..depth - 1 : txs'[d] = txs[d]
<1>1. txs \in Seq(Txn) /\ Len(txs) \in Nat
    BY DEF DbiTypeOK
<1>2. \A d \in 1..depth - 1 : txs[d] \in Txn
    BY <1>1 DEF depth
<1>3. depth - 1 \in Int /\ 1 \in Int /\ depth - 1 >= 0
    BY <1>1 DEF depth
<1>4. /\ txs' \in Seq(Txn)
      /\ Len(txs') = IF 1 <= depth - 1 THEN depth - 1 - 1 + 1 ELSE 0
      /\ \A d \in 1..depth - 1 - 1 + 1 : txs'[d] = txs[1 + d - 1]
    BY <1>2, <1>3, SubSeqProperties
<1>5. Len(txs') = depth - 1
    BY <1>3, <1>4
<1>6. ASSUME NEW d \in 1..depth - 1 PROVE txs'[d] = txs[d]
    <2>1. d \in 1..depth - 1 - 1 + 1 /\ 1 + d - 1 = d
        BY <1>3
    <2> QED
        BY <1>4, <2>1
<1> QED
    BY <1>4, <1>5, <1>6 DEF depth

LEMMA InnerMerged ==
    ASSUME DbiTypeOK, depth > 1, NEW new \in Txn,
           txs' = [SubSeq(txs, 1, depth - 1) EXCEPT ![depth - 1] = new]
    PROVE  /\ txs' \in Seq(Txn) /\ depth' = depth - 1
           /\ txs'[depth - 1] = new
           /\ \A d \in 1..depth - 2 : txs'[d] = txs[d]
<1> DEFINE short == SubSeq(txs, 1, depth - 1)
<1>1. txs \in Seq(Txn) /\ Len(txs) \in Nat
    BY DEF DbiTypeOK
<1>2. \A d \in 1..depth - 1 : txs[d] \in Txn
    BY <1>1 DEF depth
<1>3. depth - 1 \in Int /\ 1 \in Int /\ depth - 1 >= 1 /\ depth \in Nat
    BY <1>1 DEF depth
<1>4. /\ short \in Seq(Txn)
      /\ Len(short) = IF 1 <= depth - 1 THEN depth - 1 - 1 + 1 ELSE 0
      /\ \A d \in 1..depth - 1 - 1 + 1 : short[d] = txs[1 + d - 1]
    BY <1>2, <1>3, SubSeqProperties
<1>5. Len(short) = depth - 1
    BY <1>3, <1>4
<1>6. ASSUME NEW d \in 1..depth - 2 PROVE short[d] = txs[d]
    <2>1. d \in 1..depth - 1 - 1 + 1 /\ 1 + d - 1 = d
        BY <1>3
    <2> QED
        BY <1>4, <2>1
<1> HIDE DEF short
<1>7. txs' = [short EXCEPT ![depth - 1] = new]
    BY DEF short
<1>8. txs' \in Seq(Txn) /\ Len(txs') = depth - 1 /\ txs'[depth - 1] = new
    BY <1>3, <1>4, <1>5, <1>7
<1>9. ASSUME NEW d \in 1..depth - 2 PROVE txs'[d] = txs[d]
    BY <1>3, <1>4, <1>5, <1>6, <1>7
<1> QED
    BY <1>8, <1>9 DEF depth

LEMMA HandleParts ==
    ASSUME DbiTypeOK, NEW h \in handles
    PROVE  h \in Handle /\ h.dbi \in Dbis /\ h.name \in Names /\ h.in \in Nat
BY DEF DbiTypeOK, Handle

\* The application has one handle for a slot.
LEMMA SameSlot ==
    ASSUME DbiInv, NEW g \in handles, NEW h \in handles, g.dbi = h.dbi
    PROVE  g = h
<1>1. g \in Handle /\ h \in Handle /\ g.in \in Nat /\ h.in \in Nat
    BY HandleParts DEF DbiInv
<1>2. g.name = h.name
    BY DEF DbiInv, HandlesOpen
<1>3. ASSUME NEW x \in handles, NEW y \in handles, x.dbi = y.dbi, x.in < y.in PROVE FALSE
    <2>1. x.in \in Nat /\ y.in \in Nat /\ y.in > 0
        BY <1>3, HandleParts DEF DbiInv
    <2>2. y.in \in x.in + 1..depth
        BY <1>3, <2>1 DEF DbiInv, HandlesOpen
    <2> QED
        BY <1>3, <2>1, <2>2 DEF DbiInv, HandlesOpen, Settled
<1>4. g.in = h.in
    BY <1>1, <1>3
<1> QED
    BY <1>1, <1>2, <1>4 DEF Handle

-----------------------------------------------------------------------------
(* The operations.                                                         *)

LEMMA BeginTxnKeeps ==
    ASSUME DbiInv, BeginTxn
    PROVE  DbiInv'
<1> DEFINE fl == [i \in Dbis |-> IF i <= me_numdbs /\ valid[i] THEN {"DB_VALID", "DB_STALE"} ELSE {}]
           new == [num |-> me_numdbs, main |-> dbs, flags |-> fl]
<1>1. fl \in [Dbis -> SUBSET Flags] /\ \A i \in Dbis : "DB_NEW" \notin fl[i]
    BY DEF Flags
<1>2. new \in Txn
    BY <1>1 DEF Txn, DbiInv, DbiTypeOK
<1>3. txs' = <<new>> /\ depth = 0
    BY DEF BeginTxn, depth
<1>4. new.num = me_numdbs /\ new.main = dbs /\ new.flags = fl
    OBVIOUS
<1> HIDE DEF new
<1>5. txs' \in Seq(Txn) /\ depth' = 1 /\ txs'[1] = new
    BY <1>2, <1>3 DEF depth
<1>6. DbiTypeOK'
    BY <1>5 DEF DbiInv, DbiTypeOK, BeginTxn
<1>7. SlotsRight'
    <2> SUFFICES ASSUME NEW i \in Dbis, names[i] # NoName
                 PROVE  /\ mt_dbiseqs'[i] = me_dbiseqs[i]
                        /\ i <= me_numdbs /\ valid[i] /\ names[i] \in dbs
        BY <1>4, <1>5 DEF SlotsRight, Changed, BeginTxn
    <2>1. Settled(i, 0)
        BY <1>3 DEF Settled
    <2> QED
        BY <2>1 DEF DbiInv, SlotsRight, BeginTxn
<1>8. HandlesOpen'
    BY <1>1, <1>3, <1>4, <1>5, HandleParts DEF DbiInv, HandlesOpen, BeginTxn, Settled
<1> QED
    BY <1>6, <1>7, <1>8 DEF DbiInv, OneSlot, BeginTxn

LEMMA BeginNestedKeeps ==
    ASSUME DbiInv, BeginNested
    PROVE  DbiInv'
<1> DEFINE fl == [i \in Dbis |-> t.flags[i] \ {"DB_NEW"}]
           new == [t EXCEPT !.flags = fl]
<1>1. depth \in Nat /\ depth > 0 /\ t = txs[depth] /\ t \in Txn /\ t.flags \in [Dbis -> SUBSET Flags]
    BY Inner DEF DbiInv, BeginNested, t
<1>2. fl \in [Dbis -> SUBSET Flags] /\ \A i \in Dbis : fl[i] = t.flags[i] \ {"DB_NEW"}
    BY <1>1
<1> HIDE DEF fl
<1>3. new \in Txn /\ new.num = t.num /\ new.main = t.main /\ new.flags = fl
    BY <1>1, <1>2 DEF Txn
<1>4. txs' = Append(txs, new)
    BY DEF BeginNested, fl
<1> HIDE DEF new
<1>5. /\ txs' \in Seq(Txn) /\ depth' = depth + 1 /\ txs'[depth + 1] = new
      /\ \A d \in 1..depth : txs'[d] = txs[d]
    BY <1>3, <1>4, InnerAdded DEF DbiInv
<1>6. DbiTypeOK'
    BY <1>5 DEF DbiInv, DbiTypeOK, BeginNested
<1>7. ASSUME NEW i \in Dbis, NEW d \in 0..depth PROVE Settled(i, d)' <=> Settled(i, d)
    <2>1. \A e \in d + 1..depth : txs'[e] = txs[e] /\ e \in d + 1..depth + 1
        BY <1>1, <1>5
    <2>2. \A e \in d + 1..depth + 1 : e = depth + 1 \/ e \in d + 1..depth
        BY <1>1
    <2>3. "DB_NEW" \notin txs'[depth + 1].flags[i]
        BY <1>2, <1>3, <1>5
    <2> QED
        BY <1>5, <2>1, <2>2, <2>3 DEF Settled
<1>8. SlotsRight'
    <2> SUFFICES ASSUME NEW i \in Dbis, names[i] # NoName
                 PROVE  /\ ~Changed(i)
                        /\ Settled(i, 0)' => i <= me_numdbs /\ valid[i] /\ names[i] \in dbs
                        /\ \A d \in 1..depth + 1 : Settled(i, d)' =>
                             /\ i <= txs'[d].num /\ "DB_VALID" \in txs'[d].flags[i]
                             /\ names[i] \in txs'[d].main
        BY <1>5 DEF SlotsRight, Changed, BeginNested
    <2>1. ~Changed(i)
        BY <1>1 DEF DbiInv, SlotsRight
    <2>2. Settled(i, 0)' => i <= me_numdbs /\ valid[i] /\ names[i] \in dbs
        BY <1>1, <1>7 DEF DbiInv, SlotsRight
    <2>3. ASSUME NEW d \in 1..depth, Settled(i, d)'
          PROVE  i <= txs'[d].num /\ "DB_VALID" \in txs'[d].flags[i] /\ names[i] \in txs'[d].main
        BY <1>5, <1>7, <2>3 DEF DbiInv, SlotsRight
    <2>4. i <= new.num /\ "DB_VALID" \in new.flags[i] /\ names[i] \in new.main
        <3>1. Settled(i, depth)
            BY <1>1 DEF Settled
        <3> QED
            BY <1>1, <1>2, <1>3, <3>1 DEF DbiInv, SlotsRight
    <2>5. \A d \in 1..depth + 1 : d = depth + 1 \/ d \in 1..depth
        BY <1>1
    <2> QED
        BY <1>5, <2>1, <2>2, <2>3, <2>4, <2>5
<1>9. HandlesOpen'
    <2> SUFFICES ASSUME NEW h \in handles
                 PROVE  /\ names[h.dbi] = h.name
                        /\ h.in \in 0..depth + 1 /\ Settled(h.dbi, h.in)'
                        /\ h.in > 0 => "DB_NEW" \in txs'[h.in].flags[h.dbi]
        BY <1>5 DEF HandlesOpen, BeginNested
    <2>1. /\ names[h.dbi] = h.name /\ h.in \in 0..depth /\ Settled(h.dbi, h.in)
          /\ h.in > 0 => "DB_NEW" \in txs[h.in].flags[h.dbi]
        BY DEF DbiInv, HandlesOpen
    <2>2. h.dbi \in Dbis
        BY HandleParts DEF DbiInv
    <2> QED
        BY <1>1, <1>5, <1>7, <2>1, <2>2
<1> QED
    BY <1>6, <1>8, <1>9 DEF DbiInv, OneSlot, BeginNested

LEMMA OpenAgainKeeps ==
    ASSUME DbiInv, NEW n \in Names, NEW i \in Dbis, OpenAgain(n, i)
    PROVE  DbiInv'
<1> DEFINE new == [dbi |-> i, name |-> n, in |-> Opened(i)]
<1>1. /\ Opened(i) \in 0..depth /\ Settled(i, Opened(i)) /\ depth \in Nat
      /\ Opened(i) > 0 => "DB_NEW" \in txs[Opened(i)].flags[i]
    BY OpenedAt, Inner DEF DbiInv
<1>2. new \in Handle /\ new.dbi = i /\ new.name = n /\ new.in = Opened(i)
    BY <1>1 DEF Handle
<1>3. handles' = handles \cup {new} /\ names[i] = n
    BY DEF OpenAgain
<1> HIDE DEF new
<1>4. DbiTypeOK'
    BY <1>2, <1>3 DEF DbiInv, DbiTypeOK, OpenAgain
<1>5. \A j, d : Settled(j, d)' <=> Settled(j, d)
    BY DEF Settled, depth, OpenAgain
<1>6. SlotsRight'
    BY <1>5 DEF DbiInv, SlotsRight, Changed, depth, OpenAgain
<1>7. HandlesOpen'
    BY <1>1, <1>2, <1>3, <1>5 DEF DbiInv, HandlesOpen, depth, OpenAgain
<1> QED
    BY <1>4, <1>6, <1>7 DEF DbiInv, OneSlot, OpenAgain

LEMMA OpenNewKeeps ==
    ASSUME DbiInv, NEW n \in Names, NEW create \in BOOLEAN, OpenNew(n, create)
    PROVE  DbiInv'
<1>2. PICK i \in Dbis : i = NewSlot /\ names[i] = NoName
    BY NewSlotFree DEF OpenNew
<1> DEFINE own == {"DB_NEW", "DB_VALID"} \cup (IF n \in t.main THEN {} ELSE {"DB_DIRTY"})
           new == [t EXCEPT !.main = t.main \cup {n}, !.num = IF i > t.num THEN i ELSE t.num,
                            !.flags = [t.flags EXCEPT ![i] = own]]
           hnd == [dbi |-> i, name |-> n, in |-> depth]
<1>1. /\ depth \in Nat /\ depth > 0 /\ t = txs[depth] /\ t \in Txn
      /\ t.flags \in [Dbis -> SUBSET Flags] /\ t.num \in 0..me_maxdbs /\ t.main \in SUBSET Names
    BY Inner DEF DbiInv, OpenNew, t
<1>3. own \in SUBSET Flags /\ "DB_NEW" \in own /\ "DB_VALID" \in own
    BY DEF Flags
<1>4. txs' = [txs EXCEPT ![depth] = new]
    <2> DEFINE was == [t EXCEPT !.main = t.main \cup {n}, !.num = IF i > t.num THEN i ELSE t.num,
                                !.flags[i] = own]
    <2>1. txs' = [txs EXCEPT ![depth] = was]
        BY <1>1, <1>2 DEF OpenNew
    <2>2. ASSUME NEW r \in Txn, NEW m, NEW k, NEW f
          PROVE  [r EXCEPT !.main = m, !.num = k, !.flags[i] = f]
                   = [r EXCEPT !.main = m, !.num = k, !.flags = [r.flags EXCEPT ![i] = f]]
        BY DEF Txn
    <2>3. was = new
        <3> HIDE DEF own
        <3> QED
            BY <1>1, <2>2
    <2> QED
        BY <2>1, <2>3
<1>5. /\ names' = [names EXCEPT ![i] = n] /\ handles' = handles \cup {hnd}
      /\ me_dbiseqs' = [me_dbiseqs EXCEPT ![i] = me_dbiseqs[i] + 1]
      /\ mt_dbiseqs' = [mt_dbiseqs EXCEPT ![i] = me_dbiseqs[i] + 1]
      /\ UNCHANGED <<valid, me_numdbs, dbs>>
    BY <1>2 DEF OpenNew
<1>6. ~\E j \in 1..t.num : names[j] = n
    BY DEF OpenNew
<1>7. hnd.dbi = i /\ hnd.name = n /\ hnd.in = depth /\ hnd \in Handle
    BY <1>1, <1>2 DEF Handle
<1> HIDE DEF own, hnd
<1>8. /\ new \in Txn /\ new.main = t.main \cup {n}
      /\ new.num = (IF i > t.num THEN i ELSE t.num) /\ new.num \in 0..me_maxdbs
      /\ new.flags = [t.flags EXCEPT ![i] = own]
    <2>1. (IF i > t.num THEN i ELSE t.num) \in 0..me_maxdbs
        BY <1>1, <1>2, DbiAssumption DEF Dbis
    <2>2. [t.flags EXCEPT ![i] = own] \in [Dbis -> SUBSET Flags]
        BY <1>1, <1>2, <1>3
    <2> QED
        BY <1>1, <2>1, <2>2 DEF Txn
<1> HIDE DEF new
<1>9. /\ txs' \in Seq(Txn) /\ depth' = depth /\ txs'[depth] = new
      /\ \A d \in 1..depth : d # depth => txs'[d] = txs[d]
    BY <1>1, <1>4, <1>8, InnerReplaced DEF DbiInv
<1>10. DbiTypeOK'
    BY <1>2, <1>5, <1>7, <1>9 DEF DbiInv, DbiTypeOK
<1>11. ASSUME NEW j \in Dbis, j # i, NEW d \in 1..depth
       PROVE  /\ txs'[d].flags[j] = txs[d].flags[j] /\ txs[d].main \subseteq txs'[d].main
              /\ j <= txs[d].num => j <= txs'[d].num
    <2>1. CASE d = depth
        <3>1. txs[d] = t /\ txs'[d] = new
            BY <1>1, <1>9, <2>1
        <3>2. new.flags[j] = t.flags[j] /\ t.main \subseteq new.main
            BY <1>1, <1>8, <1>11
        <3>3. j <= t.num => j <= new.num
            BY <1>1, <1>2, <1>8, DbiAssumption DEF Dbis
        <3> QED
            BY <3>1, <3>2, <3>3
    <2>2. CASE d # depth
        BY <1>9, <2>2
    <2> QED
        BY <2>1, <2>2
<1>12. ASSUME NEW j \in Dbis, j # i, NEW d \in 0..depth PROVE Settled(j, d)' <=> Settled(j, d)
    <2>1. \A e \in d + 1..depth : e \in 1..depth
        BY <1>1
    <2> QED
        BY <1>9, <1>11, <1>12, <2>1 DEF Settled
<1>13. \A j \in Dbis : names[j] # NoName => j <= t.num
    <2>1. \A j \in Dbis : Settled(j, depth)
        BY <1>1 DEF Settled
    <2> QED
        BY <1>1, <2>1 DEF DbiInv, SlotsRight
<1>14. \A j \in Dbis : names[j] # n
    <2>1. n # NoName
        BY DbiAssumption
    <2> QED
        BY <1>1, <1>6, <1>13, <2>1, DbiAssumption DEF Dbis
<1>15. SlotsRight'
    <2> SUFFICES ASSUME NEW j \in Dbis, names'[j] # NoName
                 PROVE  /\ mt_dbiseqs'[j] = me_dbiseqs'[j]
                        /\ Settled(j, 0)' => j <= me_numdbs /\ valid[j] /\ names'[j] \in dbs
                        /\ \A d \in 1..depth : Settled(j, d)' =>
                             /\ j <= txs'[d].num /\ "DB_VALID" \in txs'[d].flags[j]
                             /\ names'[j] \in txs'[d].main
        BY <1>5, <1>9 DEF SlotsRight, Changed
    <2>1. CASE j # i
        <3>1. names[j] # NoName /\ names'[j] = names[j]
            BY <1>5, <2>1
        <3>2. mt_dbiseqs'[j] = me_dbiseqs'[j]
            BY <1>1, <1>5, <2>1, <3>1 DEF DbiInv, SlotsRight, Changed, DbiTypeOK
        <3>3. Settled(j, 0)' => j <= me_numdbs /\ valid[j] /\ names'[j] \in dbs
            BY <1>1, <1>12, <2>1, <3>1 DEF DbiInv, SlotsRight
        <3>4. ASSUME NEW d \in 1..depth, Settled(j, d)'
              PROVE  j <= txs'[d].num /\ "DB_VALID" \in txs'[d].flags[j] /\ names'[j] \in txs'[d].main
            <4>1. Settled(j, d)
                BY <1>1, <1>12, <2>1, <3>4
            <4> QED
                BY <1>11, <2>1, <3>1, <4>1 DEF DbiInv, SlotsRight
        <3> QED
            BY <3>2, <3>3, <3>4
    <2>2. CASE j = i
        <3>1. "DB_NEW" \in txs'[depth].flags[i] /\ "DB_VALID" \in txs'[depth].flags[i]
            BY <1>1, <1>2, <1>3, <1>8, <1>9
        <3>2. ASSUME NEW d \in 0..depth, d # depth PROVE ~Settled(i, d)'
            <4>1. depth \in d + 1..depth
                BY <1>1, <3>2
            <4> QED
                BY <1>9, <3>1, <4>1, <1>1 DEF Settled
        <3>3. i <= txs'[depth].num /\ names'[i] \in txs'[depth].main
            <4>1. names'[i] = n
                BY <1>2, <1>5 DEF DbiInv, DbiTypeOK
            <4>2. i <= new.num
                BY <1>1, <1>2, <1>8, DbiAssumption DEF Dbis
            <4> QED
                BY <1>8, <1>9, <4>1, <4>2
        <3>4. mt_dbiseqs'[i] = me_dbiseqs'[i]
            BY <1>2, <1>5 DEF DbiInv, DbiTypeOK
        <3> QED
            <4>1. ~Settled(i, 0)' /\ \A d \in 1..depth : d # depth => ~Settled(i, d)'
                BY <1>1, <3>2
            <4> QED
                BY <1>1, <2>2, <3>1, <3>3, <3>4, <4>1
    <2> QED
        BY <2>1, <2>2
<1>16. OneSlot'
    BY <1>2, <1>5, <1>14 DEF DbiInv, DbiTypeOK, OneSlot
<1>17. HandlesOpen'
    <2> SUFFICES ASSUME NEW h \in handles \cup {hnd}
                 PROVE  /\ names'[h.dbi] = h.name
                        /\ h.in \in 0..depth /\ Settled(h.dbi, h.in)'
                        /\ h.in > 0 => "DB_NEW" \in txs'[h.in].flags[h.dbi]
        BY <1>5, <1>9 DEF HandlesOpen
    <2>1. CASE h = hnd
        BY <1>1, <1>2, <1>3, <1>5, <1>7, <1>8, <1>9, <2>1, SMTT(20) DEF DbiInv, DbiTypeOK, Settled
    <2>2. CASE h \in handles
        <3>1. h.dbi \in Dbis /\ h.name # NoName
            BY <2>2, HandleParts, DbiAssumption DEF DbiInv
        <3>2. /\ names[h.dbi] = h.name /\ h.in \in 0..depth /\ Settled(h.dbi, h.in)
              /\ h.in > 0 => "DB_NEW" \in txs[h.in].flags[h.dbi]
            BY <2>2 DEF DbiInv, HandlesOpen
        <3>3. h.dbi # i
            BY <1>2, <3>1, <3>2
        <3> QED
            BY <1>1, <1>5, <1>11, <1>12, <3>1, <3>2, <3>3
    <2> QED
        BY <2>1, <2>2
<1> QED
    BY <1>10, <1>15, <1>16, <1>17 DEF DbiInv

LEMMA ModifyKeeps ==
    ASSUME DbiInv, NEW g \in handles, Modify(g)
    PROVE  DbiInv'
<1> DEFINE own == (t.flags[g.dbi] \ {"DB_STALE"}) \cup {"DB_DIRTY"}
           new == [t EXCEPT !.flags = [t.flags EXCEPT ![g.dbi] = own]]
<1>1. /\ depth \in Nat /\ depth > 0 /\ t = txs[depth] /\ t \in Txn
      /\ t.flags \in [Dbis -> SUBSET Flags] /\ g.dbi \in Dbis
    BY Inner, HandleParts DEF DbiInv, Modify, t
<1>2. own \in SUBSET Flags
    BY <1>1 DEF Flags
<1>3. txs' = [txs EXCEPT ![depth] = new]
    BY <1>1 DEF Modify, t, Txn, DbiInv, DbiTypeOK
<1>4. /\ new \in Txn /\ new.main = t.main /\ new.num = t.num
      /\ new.flags = [t.flags EXCEPT ![g.dbi] = own]
    <2>1. [t.flags EXCEPT ![g.dbi] = own] \in [Dbis -> SUBSET Flags]
        BY <1>1, <1>2
    <2> HIDE DEF own
    <2> QED
        BY <1>1, <2>1 DEF Txn
<1> HIDE DEF new
<1>5. /\ txs' \in Seq(Txn) /\ depth' = depth /\ txs'[depth] = new
      /\ \A d \in 1..depth : d # depth => txs'[d] = txs[d]
    BY <1>1, <1>3, <1>4, InnerReplaced DEF DbiInv
<1>6. DbiTypeOK'
    BY <1>5 DEF DbiInv, DbiTypeOK, Modify
<1>7. ASSUME NEW j \in Dbis, NEW d \in 1..depth
      PROVE  /\ "DB_NEW" \in txs'[d].flags[j] <=> "DB_NEW" \in txs[d].flags[j]
             /\ "DB_VALID" \in txs'[d].flags[j] <=> "DB_VALID" \in txs[d].flags[j]
             /\ txs'[d].main = txs[d].main /\ txs'[d].num = txs[d].num
    <2>1. CASE d = depth
        BY <1>1, <1>4, <1>5, <2>1
    <2>2. CASE d # depth
        BY <1>5, <2>2
    <2> QED
        BY <2>1, <2>2
<1>8. ASSUME NEW j \in Dbis, NEW d \in 0..depth PROVE Settled(j, d)' <=> Settled(j, d)
    <2>1. \A e \in d + 1..depth : e \in 1..depth
        BY <1>1
    <2> QED
        BY <1>5, <1>7, <2>1 DEF Settled
<1>9. SlotsRight'
    BY <1>1, <1>5, <1>7, <1>8 DEF DbiInv, SlotsRight, Changed, Modify
<1>10. HandlesOpen'
    BY <1>1, <1>5, <1>7, <1>8, HandleParts DEF DbiInv, HandlesOpen, Modify
<1> QED
    BY <1>6, <1>9, <1>10 DEF DbiInv, OneSlot, Modify

LEMMA CloseSlotsTypes ==
    ASSUME DbiTypeOK, NEW S \in SUBSET Dbis, CloseSlots(S)
    PROVE  /\ names' \in [Dbis -> Names \cup {NoName}] /\ valid' \in [Dbis -> BOOLEAN]
           /\ me_dbiseqs' \in [Dbis -> Nat]
           /\ \A j \in Dbis : names'[j] # NoName =>
                /\ j \notin S /\ names[j] # NoName /\ names'[j] = names[j]
                /\ valid[j] => valid'[j]
                /\ me_dbiseqs'[j] = me_dbiseqs[j]
           /\ \A j \in Dbis \ S : names'[j] = names[j]
<1>1. names' \in [Dbis -> Names \cup {NoName}] /\ me_dbiseqs' \in [Dbis -> Nat]
    BY DEF CloseSlots, DbiTypeOK
<1>2. valid' \in [Dbis -> BOOLEAN]
    BY Zenon DEF CloseSlots
<1>3. \A j \in Dbis \ S : names'[j] = names[j] /\ me_dbiseqs'[j] = me_dbiseqs[j]
    BY DEF CloseSlots
<1>4. \A j \in S : names'[j] = NoName
    BY DEF CloseSlots
<1>5. \A j \in Dbis \ S : valid[j] => valid'[j]
    BY DEF CloseSlots
<1> QED
    BY <1>1, <1>2, <1>3, <1>4, <1>5

LEMMA DropDbKeeps ==
    ASSUME DbiInv, NEW g \in handles, DropDb(g)
    PROVE  DbiInv'
<1> DEFINE new == [t EXCEPT !.main = t.main \ {names[g.dbi]},
                            !.flags = [t.flags EXCEPT ![g.dbi] = {"DB_STALE"}]]
<1>1. /\ depth \in Nat /\ depth > 0 /\ t = txs[depth] /\ t \in Txn
      /\ t.flags \in [Dbis -> SUBSET Flags] /\ t.main \in SUBSET Names
      /\ g.dbi \in Dbis /\ g.name # NoName
    BY Inner, HandleParts, DbiAssumption DEF DbiInv, DropDb, t
<1>2. txs' = [txs EXCEPT ![depth] = new]
    <2>1. ASSUME NEW r \in Txn, NEW m, NEW f
          PROVE  [r EXCEPT !.main = m, !.flags[g.dbi] = f]
                   = [r EXCEPT !.main = m, !.flags = [r.flags EXCEPT ![g.dbi] = f]]
        BY DEF Txn
    <2>2. txs' = [txs EXCEPT ![depth] = [t EXCEPT !.main = t.main \ {names[g.dbi]},
                                                  !.flags[g.dbi] = {"DB_STALE"}]]
        BY DEF DropDb
    <2> QED
        BY <1>1, <2>1, <2>2
<1>3. /\ new \in Txn /\ new.main = t.main \ {names[g.dbi]} /\ new.num = t.num
      /\ new.flags = [t.flags EXCEPT ![g.dbi] = {"DB_STALE"}]
    <2>1. [t.flags EXCEPT ![g.dbi] = {"DB_STALE"}] \in [Dbis -> SUBSET Flags]
        BY <1>1 DEF Flags
    <2> QED
        BY <1>1, <2>1 DEF Txn
<1> HIDE DEF new
<1>4. /\ txs' \in Seq(Txn) /\ depth' = depth /\ txs'[depth] = new
      /\ \A d \in 1..depth : d # depth => txs'[d] = txs[d]
    BY <1>1, <1>2, <1>3, InnerReplaced DEF DbiInv
<1>5. /\ names' \in [Dbis -> Names \cup {NoName}] /\ valid' \in [Dbis -> BOOLEAN]
      /\ me_dbiseqs' \in [Dbis -> Nat]
      /\ \A j \in Dbis : names'[j] # NoName =>
           /\ j # g.dbi /\ names[j] # NoName /\ names'[j] = names[j]
           /\ valid[j] => valid'[j]
           /\ me_dbiseqs'[j] = me_dbiseqs[j]
      /\ \A j \in Dbis : j # g.dbi => names'[j] = names[j]
    BY <1>1, CloseSlotsTypes DEF DropDb, DbiInv
<1>6. DbiTypeOK'
    BY <1>4, <1>5 DEF DbiInv, DbiTypeOK, DropDb
<1>7. ASSUME NEW j \in Dbis, j # g.dbi, NEW d \in 1..depth
      PROVE  txs'[d].flags[j] = txs[d].flags[j] /\ txs'[d].num = txs[d].num
    <2>1. CASE d = depth
        BY <1>1, <1>3, <1>4, <1>7, <2>1
    <2>2. CASE d # depth
        BY <1>4, <2>2
    <2> QED
        BY <2>1, <2>2
<1>8. ASSUME NEW j \in Dbis, j # g.dbi, names[j] # NoName, NEW d \in 1..depth, names[j] \in txs[d].main
      PROVE  names[j] \in txs'[d].main
    <2>1. names[j] # names[g.dbi]
        BY <1>1, <1>8 DEF DbiInv, OneSlot
    <2>2. CASE d = depth
        BY <1>1, <1>3, <1>4, <1>8, <2>1, <2>2
    <2>3. CASE d # depth
        BY <1>4, <1>8, <2>3
    <2> QED
        BY <2>2, <2>3
<1>9. ASSUME NEW j \in Dbis, j # g.dbi, NEW d \in 0..depth PROVE Settled(j, d)' <=> Settled(j, d)
    <2>1. \A e \in d + 1..depth : e \in 1..depth
        BY <1>1
    <2> QED
        BY <1>4, <1>7, <1>9, <2>1 DEF Settled
<1>10. SlotsRight'
    <2> SUFFICES ASSUME NEW j \in Dbis, names'[j] # NoName
                 PROVE  /\ ~Changed(j)'
                        /\ Settled(j, 0)' => j <= me_numdbs' /\ valid'[j] /\ names'[j] \in dbs'
                        /\ \A d \in 1..depth : Settled(j, d)' =>
                             /\ j <= txs'[d].num /\ "DB_VALID" \in txs'[d].flags[j]
                             /\ names'[j] \in txs'[d].main
        BY <1>4 DEF SlotsRight
    <2>1. /\ j # g.dbi /\ names[j] # NoName /\ names'[j] = names[j]
          /\ valid[j] => valid'[j]
          /\ me_dbiseqs'[j] = me_dbiseqs[j]
        BY <1>5
    <2>2. ~Changed(j)'
        BY <1>1, <2>1 DEF DbiInv, SlotsRight, Changed, DropDb
    <2>3. Settled(j, 0)' => j <= me_numdbs' /\ valid'[j] /\ names'[j] \in dbs'
        BY <1>1, <1>9, <2>1 DEF DbiInv, SlotsRight, DropDb
    <2>4. ASSUME NEW d \in 1..depth, Settled(j, d)'
          PROVE  j <= txs'[d].num /\ "DB_VALID" \in txs'[d].flags[j] /\ names'[j] \in txs'[d].main
        <3>1. Settled(j, d)
            BY <1>1, <1>9, <2>1, <2>4
        <3> QED
            BY <1>7, <1>8, <2>1, <3>1 DEF DbiInv, SlotsRight
    <2> QED
        BY <2>2, <2>3, <2>4
<1>11. OneSlot'
    BY <1>5 DEF DbiInv, OneSlot
<1>12. HandlesOpen'
    <2> SUFFICES ASSUME NEW h \in handles, h # g
                 PROVE  /\ names'[h.dbi] = h.name
                        /\ h.in \in 0..depth /\ Settled(h.dbi, h.in)'
                        /\ h.in > 0 => "DB_NEW" \in txs'[h.in].flags[h.dbi]
        BY <1>4 DEF HandlesOpen, DropDb
    <2>1. h.dbi \in Dbis /\ h.dbi # g.dbi
        BY HandleParts, SameSlot DEF DbiInv
    <2>2. /\ names[h.dbi] = h.name /\ h.in \in 0..depth /\ Settled(h.dbi, h.in)
          /\ h.in > 0 => "DB_NEW" \in txs[h.in].flags[h.dbi]
        BY DEF DbiInv, HandlesOpen
    <2> QED
        BY <1>1, <1>5, <1>7, <1>9, <2>1, <2>2
<1> QED
    BY <1>6, <1>10, <1>11, <1>12 DEF DbiInv

LEMMA CloseDbiKeeps ==
    ASSUME DbiInv, NEW g \in handles, CloseDbi(g)
    PROVE  DbiInv'
<1>1. g.dbi \in Dbis /\ depth = 0 /\ depth' = 0 /\ txs' = txs
    BY HandleParts DEF DbiInv, CloseDbi, depth
<1>2. /\ names' \in [Dbis -> Names \cup {NoName}] /\ valid' \in [Dbis -> BOOLEAN]
      /\ me_dbiseqs' \in [Dbis -> Nat]
      /\ \A j \in Dbis : names'[j] # NoName =>
           j # g.dbi /\ names[j] # NoName /\ names'[j] = names[j] /\ (valid[j] => valid'[j])
      /\ \A j \in Dbis : j # g.dbi => names'[j] = names[j]
    BY <1>1, CloseSlotsTypes DEF CloseDbi, DbiInv
<1>3. DbiTypeOK'
    BY <1>1, <1>2 DEF DbiInv, DbiTypeOK, CloseDbi
<1>4. SlotsRight'
    <2> SUFFICES ASSUME NEW j \in Dbis, names'[j] # NoName
                 PROVE  j <= me_numdbs' /\ valid'[j] /\ names'[j] \in dbs'
        BY <1>1 DEF SlotsRight
    <2>1. Settled(j, 0)
        BY <1>1 DEF Settled
    <2> QED
        BY <1>2, <2>1 DEF DbiInv, SlotsRight, CloseDbi
<1>5. OneSlot'
    BY <1>2 DEF DbiInv, OneSlot
<1>6. HandlesOpen'
    <2> SUFFICES ASSUME NEW h \in handles, h # g
                 PROVE  /\ names'[h.dbi] = h.name
                        /\ h.in \in 0..0 /\ Settled(h.dbi, h.in)'
                        /\ h.in > 0 => "DB_NEW" \in txs'[h.in].flags[h.dbi]
        BY <1>1 DEF HandlesOpen, CloseDbi
    <2>1. h.dbi \in Dbis /\ h.dbi # g.dbi
        BY HandleParts, SameSlot DEF DbiInv
    <2>2. names[h.dbi] = h.name /\ h.in \in 0..0
        BY <1>1 DEF DbiInv, HandlesOpen
    <2> QED
        BY <1>1, <1>2, <2>1, <2>2 DEF Settled
<1> QED
    BY <1>3, <1>4, <1>5, <1>6 DEF DbiInv

LEMMA CommitNestedKeeps ==
    ASSUME DbiInv, CommitNested
    PROVE  DbiInv'
<1> DEFINE fl == [i \in Dbis |-> t.flags[i] \cup (txs[depth - 1].flags[i] \cap {"DB_NEW"})]
           new == [t EXCEPT !.flags = fl]
<1>1. /\ depth \in Nat /\ depth > 1 /\ t = txs[depth] /\ t \in Txn
      /\ t.flags \in [Dbis -> SUBSET Flags] /\ txs[depth - 1].flags \in [Dbis -> SUBSET Flags]
    <2>1. depth \in Nat /\ depth > 1 /\ depth - 1 \in 1..depth /\ depth \in 1..depth
        BY Inner DEF DbiInv, CommitNested, CommitNestedAs
    <2> QED
        BY <2>1, Inner DEF DbiInv, t
<1>2. /\ fl \in [Dbis -> SUBSET Flags]
      /\ \A i \in Dbis : fl[i] = t.flags[i] \cup (txs[depth - 1].flags[i] \cap {"DB_NEW"})
    BY <1>1
<1> HIDE DEF fl
<1>3. new \in Txn /\ new.num = t.num /\ new.main = t.main /\ new.flags = fl
    BY <1>1, <1>2 DEF Txn
<1>4. txs' = [SubSeq(txs, 1, depth - 1) EXCEPT ![depth - 1] = new]
    BY DEF CommitNested, CommitNestedAs, fl
<1> HIDE DEF new
<1>5. /\ txs' \in Seq(Txn) /\ depth' = depth - 1 /\ txs'[depth - 1] = new
      /\ \A d \in 1..depth - 2 : txs'[d] = txs[d]
    BY <1>1, <1>3, <1>4, InnerMerged DEF DbiInv
<1>6. ASSUME NEW g \in handles'
      PROVE  \E h \in handles : /\ g.dbi = h.dbi /\ g.name = h.name /\ g \in Handle
                                /\ g.in = IF h.in = depth THEN depth - 1 ELSE h.in
    <2>1. PICK h \in handles : g = [h EXCEPT !.in = IF h.in = depth THEN depth - 1 ELSE h.in]
        BY DEF CommitNested, CommitNestedAs
    <2>2. h \in Handle /\ h.in \in Nat
        BY HandleParts DEF DbiInv
    <2>3. (IF h.in = depth THEN depth - 1 ELSE h.in) \in Nat
        BY <1>1, <2>2
    <2> QED
        BY <2>1, <2>2, <2>3 DEF Handle
<1>7. DbiTypeOK'
    <2>1. handles' \in SUBSET Handle
        BY <1>6
    <2> QED
        BY <1>5, <2>1 DEF DbiInv, DbiTypeOK, CommitNested, CommitNestedAs
<1>8. ASSUME NEW i \in Dbis, NEW d \in 0..depth - 2 PROVE Settled(i, d)' <=> Settled(i, d)
    <2>1. \A e \in d + 1..depth - 1 : e = depth - 1 \/ e \in 1..depth - 2
        BY <1>1
    <2>2. \A e \in d + 1..depth : e = depth \/ e \in d + 1..depth - 1
        BY <1>1
    <2>3. /\ \A e \in d + 1..depth - 1 : e \in d + 1..depth
          /\ depth \in d + 1..depth /\ depth - 1 \in d + 1..depth - 1
        BY <1>1
    <2>4. "DB_NEW" \in txs'[depth - 1].flags[i] <=>
            "DB_NEW" \in txs[depth].flags[i] \/ "DB_NEW" \in txs[depth - 1].flags[i]
        BY <1>1, <1>2, <1>3, <1>5
    <2> QED
        BY <1>5, <2>1, <2>2, <2>3, <2>4 DEF Settled
<1>9. ASSUME NEW i \in Dbis PROVE Settled(i, depth)
    BY <1>1 DEF Settled
<1>12. ASSUME NEW i \in Dbis, NEW d \in Nat, d = depth - 1 PROVE Settled(i, d)'
    BY <1>1, <1>5, <1>12 DEF Settled
<1>10. SlotsRight'
    <2> SUFFICES ASSUME NEW i \in Dbis, names[i] # NoName
                 PROVE  /\ ~Changed(i)
                        /\ Settled(i, 0)' => i <= me_numdbs /\ valid[i] /\ names[i] \in dbs
                        /\ \A d \in 1..depth - 1 : Settled(i, d)' =>
                             /\ i <= txs'[d].num /\ "DB_VALID" \in txs'[d].flags[i]
                             /\ names[i] \in txs'[d].main
        BY <1>5 DEF SlotsRight, Changed, CommitNested, CommitNestedAs
    <2>1. ~Changed(i)
        BY <1>1 DEF DbiInv, SlotsRight
    <2>2. Settled(i, 0)' => i <= me_numdbs /\ valid[i] /\ names[i] \in dbs
        BY <1>1, <1>8 DEF DbiInv, SlotsRight
    <2>3. ASSUME NEW d \in 1..depth - 2, Settled(i, d)'
          PROVE  i <= txs'[d].num /\ "DB_VALID" \in txs'[d].flags[i] /\ names[i] \in txs'[d].main
        <3>1. Settled(i, d) /\ d \in 1..depth
            BY <1>1, <1>8, <2>3
        <3> QED
            BY <1>5, <3>1 DEF DbiInv, SlotsRight
    <2>4. i <= new.num /\ "DB_VALID" \in new.flags[i] /\ names[i] \in new.main
        BY <1>1, <1>2, <1>3, <1>9 DEF DbiInv, SlotsRight
    <2>5. \A d \in 1..depth - 1 : d = depth - 1 \/ d \in 1..depth - 2
        BY <1>1
    <2> QED
        BY <1>5, <2>1, <2>2, <2>3, <2>4, <2>5
<1>11. HandlesOpen'
    <2> SUFFICES ASSUME NEW g \in handles'
                 PROVE  /\ names[g.dbi] = g.name
                        /\ g.in \in 0..depth - 1 /\ Settled(g.dbi, g.in)'
                        /\ g.in > 0 => "DB_NEW" \in txs'[g.in].flags[g.dbi]
        BY <1>5 DEF HandlesOpen, CommitNested, CommitNestedAs
    <2>1. PICK h \in handles : /\ g.dbi = h.dbi /\ g.name = h.name
                               /\ g.in = IF h.in = depth THEN depth - 1 ELSE h.in
        BY <1>6
    <2>2. /\ names[h.dbi] = h.name /\ h.in \in 0..depth /\ Settled(h.dbi, h.in)
          /\ h.in > 0 => "DB_NEW" \in txs[h.in].flags[h.dbi]
        BY DEF DbiInv, HandlesOpen
    <2>3. h.dbi \in Dbis
        BY HandleParts DEF DbiInv
    <2>4. CASE h.in \in {depth, depth - 1}
        <3>1. g.in = depth - 1 /\ h.in > 0
            BY <1>1, <2>1, <2>4
        <3>2. "DB_NEW" \in fl[h.dbi]
            BY <1>1, <1>2, <2>2, <2>3, <2>4, <3>1
        <3>3. Settled(g.dbi, g.in)'
            <4>1. g.in \in Nat /\ g.dbi \in Dbis
                BY <1>1, <2>1, <2>3, <3>1
            <4> QED
                BY <1>12, <3>1, <4>1
        <3>4. txs'[g.in].flags[g.dbi] = fl[h.dbi]
            BY <1>3, <1>5, <2>1, <3>1
        <3> QED
            BY <1>1, <2>1, <2>2, <3>1, <3>2, <3>3, <3>4
    <2>5. CASE h.in \notin {depth, depth - 1}
        <3>1. g.in = h.in /\ h.in \in 0..depth - 2
            BY <1>1, <2>1, <2>2, <2>5
        <3>2. Settled(g.dbi, g.in)'
            BY <1>8, <2>1, <2>2, <2>3, <3>1
        <3> QED
            BY <1>1, <1>5, <2>1, <2>2, <3>1, <3>2
    <2> QED
        BY <2>4, <2>5
<1> QED
    BY <1>7, <1>10, <1>11 DEF DbiInv, OneSlot, CommitNested, CommitNestedAs

LEMMA CommitOuterKeeps ==
    ASSUME DbiInv, CommitOuter
    PROVE  DbiInv'
<1>1. /\ depth = 1 /\ t = txs[1] /\ t \in Txn /\ t.num \in 0..me_maxdbs /\ t.main \in SUBSET Names
    BY Inner DEF DbiInv, CommitOuter, t
<1>2. txs' \in Seq(Txn) /\ depth' = 0
    BY DEF CommitOuter, depth
<1>3. ASSUME NEW g \in handles'
      PROVE  \E h \in handles : g.dbi = h.dbi /\ g.name = h.name /\ g \in Handle /\ g.in = 0
    <2>1. PICK h \in handles : g = [h EXCEPT !.in = 0]
        BY DEF CommitOuter
    <2>2. h \in Handle
        BY HandleParts DEF DbiInv
    <2> QED
        BY <2>1, <2>2 DEF Handle
<1>4. DbiTypeOK'
    <2>1. handles' \in SUBSET Handle
        BY <1>3
    <2>2. me_numdbs' \in 0..me_maxdbs
        BY <1>1, DbiAssumption DEF CommitOuter, DbiInv, DbiTypeOK
    <2>3. valid' \in [Dbis -> BOOLEAN]
        BY Zenon DEF CommitOuter
    <2> QED
        BY <1>1, <1>2, <2>1, <2>2, <2>3 DEF DbiInv, DbiTypeOK, CommitOuter
<1>5. SlotsRight'
    <2> SUFFICES ASSUME NEW i \in Dbis, names[i] # NoName
                 PROVE  i <= me_numdbs' /\ valid'[i] /\ names[i] \in dbs'
        BY <1>2 DEF SlotsRight, CommitOuter
    <2>1. Settled(i, 1)
        BY <1>1 DEF Settled
    <2>2. i <= t.num /\ names[i] \in t.main
        BY <1>1, <2>1 DEF DbiInv, SlotsRight
    <2>3. i <= me_numdbs'
        BY <1>1, <2>2, DbiAssumption, SMTT(20) DEF CommitOuter, DbiInv, DbiTypeOK, Dbis
    <2>4. i \in NewIn \/ Settled(i, 0)
        BY <1>1, <2>2, DbiAssumption DEF NewIn, Settled, Dbis
    <2>5. i \in NewIn \/ valid[i]
        BY <2>4 DEF DbiInv, SlotsRight
    <2>6. valid'[i]
        BY <2>5 DEF CommitOuter
    <2> QED
        BY <2>2, <2>3, <2>6 DEF CommitOuter
<1>6. HandlesOpen'
    <2> SUFFICES ASSUME NEW g \in handles' PROVE names[g.dbi] = g.name /\ g.in = 0
        BY <1>2 DEF HandlesOpen, Settled, CommitOuter
    <2> QED
        BY <1>3 DEF DbiInv, HandlesOpen
<1> QED
    BY <1>4, <1>5, <1>6 DEF DbiInv, OneSlot, CommitOuter

LEMMA AbortTxnKeeps ==
    ASSUME DbiInv, AbortTxn
    PROVE  DbiInv'
<1> DEFINE S == {i \in NewIn : names[i] # NoName}
<1>1. /\ depth \in Nat /\ depth > 0 /\ t = txs[depth] /\ t \in Txn /\ t.num \in 0..me_maxdbs
    BY Inner DEF DbiInv, AbortTxn, t
<1>2. S \in SUBSET Dbis
    BY <1>1, DbiAssumption DEF NewIn, Dbis
<1>3. /\ txs' \in Seq(Txn) /\ depth' = depth - 1
      /\ \A d \in 1..depth - 1 : txs'[d] = txs[d]
    BY <1>1, InnerRemoved DEF DbiInv, AbortTxn
<1> HIDE DEF S
<1>4. CloseSlots(S)
    BY DEF AbortTxn, S
<1>5. /\ names' \in [Dbis -> Names \cup {NoName}] /\ valid' \in [Dbis -> BOOLEAN]
      /\ me_dbiseqs' \in [Dbis -> Nat]
      /\ \A j \in Dbis : names'[j] # NoName =>
           /\ j \notin S /\ names[j] # NoName /\ names'[j] = names[j]
           /\ valid[j] => valid'[j]
           /\ me_dbiseqs'[j] = me_dbiseqs[j]
      /\ \A j \in Dbis \ S : names'[j] = names[j]
    BY <1>2, <1>4, CloseSlotsTypes DEF DbiInv
<1>6. DbiTypeOK'
    BY <1>3, <1>5 DEF DbiInv, DbiTypeOK, AbortTxn
<1>7. ASSUME NEW i \in Dbis, "DB_NEW" \notin t.flags[i], NEW d \in 0..depth - 1
      PROVE  Settled(i, d)' <=> Settled(i, d)
    <2>1. \A e \in d + 1..depth : e = depth \/ e \in d + 1..depth - 1
        BY <1>1
    <2>2. \A e \in d + 1..depth - 1 : e \in d + 1..depth /\ e \in 1..depth - 1
        BY <1>1
    <2> QED
        BY <1>1, <1>3, <1>7, <2>1, <2>2 DEF Settled
<1>8. ASSUME NEW i \in Dbis, names[i] # NoName, i \notin S PROVE "DB_NEW" \notin t.flags[i]
    <2>1. Settled(i, depth)
        BY <1>1 DEF Settled
    <2>2. i <= t.num
        BY <1>1, <1>8, <2>1 DEF DbiInv, SlotsRight
    <2> QED
        BY <1>1, <1>8, <2>2, DbiAssumption DEF S, NewIn, Dbis
<1>9. SlotsRight'
    <2> SUFFICES ASSUME NEW j \in Dbis, names'[j] # NoName
                 PROVE  /\ ~Changed(j)'
                        /\ Settled(j, 0)' => j <= me_numdbs' /\ valid'[j] /\ names'[j] \in dbs'
                        /\ \A d \in 1..depth - 1 : Settled(j, d)' =>
                             /\ j <= txs'[d].num /\ "DB_VALID" \in txs'[d].flags[j]
                             /\ names'[j] \in txs'[d].main
        BY <1>3 DEF SlotsRight
    <2>1. /\ j \notin S /\ names[j] # NoName /\ names'[j] = names[j]
          /\ valid[j] => valid'[j]
          /\ me_dbiseqs'[j] = me_dbiseqs[j]
        BY <1>5
    <2>2. "DB_NEW" \notin t.flags[j]
        BY <1>8, <2>1
    <2>3. ~Changed(j)'
        BY <1>1, <2>1 DEF DbiInv, SlotsRight, Changed, AbortTxn
    <2>4. Settled(j, 0)' => j <= me_numdbs' /\ valid'[j] /\ names'[j] \in dbs'
        BY <1>1, <1>7, <2>1, <2>2 DEF DbiInv, SlotsRight, AbortTxn
    <2>5. ASSUME NEW d \in 1..depth - 1, Settled(j, d)'
          PROVE  j <= txs'[d].num /\ "DB_VALID" \in txs'[d].flags[j] /\ names'[j] \in txs'[d].main
        <3>1. Settled(j, d) /\ d \in 1..depth
            BY <1>1, <1>7, <2>2, <2>5
        <3> QED
            BY <1>3, <2>1, <3>1 DEF DbiInv, SlotsRight
    <2> QED
        BY <2>3, <2>4, <2>5
<1>10. OneSlot'
    BY <1>5 DEF DbiInv, OneSlot
<1>11. HandlesOpen'
    <2> SUFFICES ASSUME NEW h \in handles, h.in < depth
                 PROVE  /\ names'[h.dbi] = h.name
                        /\ h.in \in 0..depth - 1 /\ Settled(h.dbi, h.in)'
                        /\ h.in > 0 => "DB_NEW" \in txs'[h.in].flags[h.dbi]
        BY <1>3 DEF HandlesOpen, AbortTxn
    <2>1. h.dbi \in Dbis /\ h.in \in Nat
        BY HandleParts DEF DbiInv
    <2>2. /\ names[h.dbi] = h.name /\ Settled(h.dbi, h.in)
          /\ h.in > 0 => "DB_NEW" \in txs[h.in].flags[h.dbi]
        BY DEF DbiInv, HandlesOpen
    <2>3. depth \in h.in + 1..depth /\ h.in \in 0..depth - 1
        BY <1>1, <2>1
    <2>4. "DB_NEW" \notin t.flags[h.dbi]
        BY <1>1, <2>2, <2>3 DEF Settled
    <2>5. h.dbi \notin S
        BY <2>4 DEF S, NewIn
    <2>6. Settled(h.dbi, h.in)'
        BY <1>7, <2>1, <2>2, <2>3, <2>4
    <2> QED
        BY <1>3, <1>5, <2>1, <2>2, <2>3, <2>5, <2>6
<1> QED
    BY <1>6, <1>9, <1>10, <1>11 DEF DbiInv

-----------------------------------------------------------------------------
\* Handles of named databases: HandlesRight holds of every behaviour of one
\* write transaction and its children, however deep they nest and however
\* often mdb_dbi_open, mdb_drop, mdb_dbi_close, commit and abort use a slot
\* again.
THEOREM HandlesStayRight == DbiSpec => []HandlesRight
<1>1. DbiInit => DbiInv
    <2> SUFFICES ASSUME DbiInit PROVE DbiInv
        OBVIOUS
    <2>1. txs \in Seq(Txn) /\ depth = 0
        BY DEF DbiInit, depth
    <2>2. valid \in [Dbis -> BOOLEAN]
        BY Zenon DEF DbiInit
    <2>3. DbiTypeOK
        BY <2>1, <2>2, DbiAssumption DEF DbiInit, DbiTypeOK
    <2> QED
        BY <2>3 DEF DbiInit, DbiInv, SlotsRight, OneSlot, HandlesOpen
<1>2. DbiInv /\ [DbiNext]_hvars => DbiInv'
    <2> SUFFICES ASSUME DbiInv, [DbiNext]_hvars PROVE DbiInv'
        OBVIOUS
    <2>1. CASE UNCHANGED hvars
        BY <2>1 DEF hvars, DbiInv, DbiTypeOK, SlotsRight, OneSlot, HandlesOpen, Settled, Changed, depth
    <2> QED
        BY <2>1, BeginTxnKeeps, BeginNestedKeeps, CommitNestedKeeps, CommitOuterKeeps, AbortTxnKeeps,
           OpenAgainKeeps, OpenNewKeeps, ModifyKeeps, DropDbKeeps, CloseDbiKeeps DEF DbiNext
<1>3. DbiInv => HandlesRight
    <2> SUFFICES ASSUME DbiInv, NEW h \in handles, depth > 0
                 PROVE  /\ h.dbi <= t.num /\ Exists(h.dbi) /\ ~Changed(h.dbi)
                        /\ names[h.dbi] = h.name /\ h.name \in t.main
        BY DEF HandlesRight
    <2>1. h.dbi \in Dbis /\ h.name # NoName /\ names[h.dbi] = h.name
        BY HandleParts, DbiAssumption DEF DbiInv, HandlesOpen
    <2>2. depth \in Nat /\ Settled(h.dbi, depth)
        BY Inner DEF DbiInv, Settled
    <2> QED
        BY <2>1, <2>2 DEF DbiInv, SlotsRight, t, Exists
<1> QED
    BY <1>1, <1>2, <1>3, PTL DEF DbiSpec

-----------------------------------------------------------------------------
(* The copy of an environment as it is.                                    *)

AMeta == [txnid : Nat, at : [CKeys -> Data], next : Nat \ {0, 1},
          free : SUBSET [p : Data, t : Nat]]
Content == {<<>>} \cup (CKeys \X Nat)
AType ==
    /\ metas \in [{0, 1} -> AMeta]
    /\ wtxn \in AMeta \cup {None}
    /\ cmetas \in [{0, 1} -> AMeta \cup {None}]
    /\ pages \in [Data -> Content] /\ cpages \in [Data -> Content]
    /\ cpos \in Nat

\* The meta pages are those of two transactions in a row, each at its place.
TwoMetas(ms) ==
    /\ ms[0].txnid % 2 = 0 /\ ms[1].txnid % 2 = 1
    /\ ms[0].txnid = ms[1].txnid + 1 \/ ms[1].txnid = ms[0].txnid + 1

\* The pages ps show what the transaction of m committed.
Shown(ps, m) ==
    \A k \in CKeys : m.at[k] < m.next /\ \E v \in Nat : v <= m.txnid /\ ps[m.at[k]] = <<k, v>>
\* The free list of m is apart from its pages.
FreeApart(m) ==
    \A f \in m.free : f.p < m.next /\ \A k \in CKeys : m.at[k] # f.p
\* The free list of m spares the pages of the earlier transaction s.
Spares(m, s) ==
    /\ s.next <= m.next /\ s.txnid <= m.txnid
    /\ \A f \in m.free : \A k \in CKeys : s.at[k] = f.p => f.t > s.txnid
Good(ps, m) == Shown(ps, m) /\ FreeApart(m)

WriterInv ==
    /\ TwoMetas(metas) /\ Good(pages, newest)
    /\ wtxn # None => /\ wmutex = "writer" /\ wtxn.txnid = newest.txnid + 1
                      /\ Good(pages, wtxn) /\ Spares(wtxn, newest)

\* The transaction that is copied.
csnap == IF cpos < 2 THEN newest ELSE pick(cmetas)
CopyOf(s) ==
    /\ reader = s.txnid /\ snap = s.next
    /\ Shown(pages, s) /\ Spares(newest, s)
    /\ wtxn # None => Spares(wtxn, s)
    /\ \A k \in CKeys : s.at[k] < cpos => cpages[s.at[k]] = pages[s.at[k]]
CopierInv ==
    /\ cpc \in {"begin", "lock"} => cpos = 0 /\ reader = 0
    /\ cpc = "copy" => /\ cpos < 2 => /\ wmutex = "copier"
                                      /\ cpos = 1 => cmetas[0] = metas[0]
                       /\ cpos >= 2 => cmetas \in [{0, 1} -> AMeta] /\ TwoMetas(cmetas)
                       /\ CopyOf(csnap)
    /\ cpc = "ended" => reader = 0
    /\ cpc \in {"begin", "lock", "copy", "ended"}
    /\ cret = "ok" => cpc = "ended" /\ AsIsComplete

AsIsInv == AType /\ WriterInv /\ CopierInv

-----------------------------------------------------------------------------
LEMMA PickType ==
    ASSUME NEW ms \in [{0, 1} -> AMeta]
    PROVE  pick(ms) \in AMeta
BY DEF pick

\* The newer of the two meta pages is that of the later transaction.
LEMMA PickRight ==
    ASSUME NEW ms \in [{0, 1} -> AMeta], TwoMetas(ms)
    PROVE  \E i \in {0, 1} : /\ pick(ms) = ms[i] /\ ms[i].txnid % 2 = i
                             /\ ms[i].txnid \in Nat /\ ms[1 - i].txnid = ms[i].txnid - 1
                             /\ ms[i].txnid > 0
<1>1. ms[0].txnid \in Nat /\ ms[1].txnid \in Nat
    BY DEF AMeta
<1>2. CASE ms[0].txnid = ms[1].txnid + 1
    <2>1. pick(ms) = ms[0]
        BY <1>1, <1>2 DEF pick
    <2> QED
        BY <1>1, <1>2, <2>1 DEF TwoMetas
<1>3. CASE ms[1].txnid = ms[0].txnid + 1
    <2>1. pick(ms) = ms[1]
        BY <1>1, <1>3 DEF pick
    <2> QED
        BY <1>1, <1>3, <2>1 DEF TwoMetas
<1> QED
    BY <1>2, <1>3 DEF TwoMetas

\* The commit of the next transaction takes the place of the older one.
LEMMA PickNext ==
    ASSUME NEW ms \in [{0, 1} -> AMeta], TwoMetas(ms), NEW m \in AMeta,
           m.txnid = pick(ms).txnid + 1
    PROVE  LET new == [ms EXCEPT ![m.txnid % 2] = m]
           IN  new \in [{0, 1} -> AMeta] /\ TwoMetas(new) /\ pick(new) = m
<1> DEFINE new == [ms EXCEPT ![m.txnid % 2] = m]
<1>1. PICK i \in {0, 1} : /\ pick(ms) = ms[i] /\ ms[i].txnid % 2 = i
                          /\ ms[i].txnid \in Nat /\ ms[1 - i].txnid = ms[i].txnid - 1
    BY PickRight
<1>2. m.txnid = ms[i].txnid + 1
    BY <1>1
<1>3. m.txnid % 2 = 1 - i
    BY <1>1, <1>2
<1>4. new \in [{0, 1} -> AMeta] /\ new[1 - i] = m /\ new[i] = ms[i]
    BY <1>3
<1>5. new[1 - i].txnid = new[i].txnid + 1 /\ new[i].txnid % 2 = i /\ new[1 - i].txnid % 2 = 1 - i
    BY <1>1, <1>2, <1>3, <1>4
<1>6. TwoMetas(new)
    BY <1>4, <1>5 DEF TwoMetas
<1>7. pick(new) = m
    BY <1>1, <1>4, <1>5 DEF pick
<1> QED
    BY <1>4, <1>6, <1>7

LEMMA MinOfTwo ==
    ASSUME NEW a \in Nat, NEW b \in Nat
    PROVE  Min({a, b}) <= a /\ Min({a, b}) <= b
<1>1. \E x \in {a, b} : \A y \in {a, b} : x <= y
    OBVIOUS
<1> QED
    BY <1>1 DEF Min

LEMMA NoneApart == None \notin AMeta
<1> SUFFICES ASSUME None \in AMeta PROVE FALSE
    OBVIOUS
<1>1. None.txnid \in Nat
    BY Zenon DEF AMeta
<1> QED
    BY <1>1 DEF None

LEMMA DataRoom ==
    /\ 2..Cardinality(CKeys) + 1 \subseteq Data
    /\ Cardinality(CKeys) \in Nat
    /\ Data \subseteq Nat /\ \A p \in Data : p >= 2
<1> DEFINE n == Cardinality(CKeys)
<1>1. n \in Nat
    BY AsIsAssumption, FS_CardinalityType
<1> HIDE DEF n
<1>2. n * MaxCommits \in Nat /\ n * (MaxCommits + 1) = n * MaxCommits + n
    BY <1>1, AsIsAssumption
<1>3. Data = 2..(2 + n * (MaxCommits + 1))
    BY DEF Data, n
<1>4. 2..n + 1 \subseteq Data
    BY <1>1, <1>2, <1>3
<1>5. Data \subseteq Nat /\ \A p \in Data : p >= 2
    BY <1>1, <1>2, <1>3
<1> QED
    BY <1>1, <1>4, <1>5 DEF n

LEMMA DataPage ==
    ASSUME NEW p \in Data
    PROVE  p \in Nat /\ ~(p < 0) /\ ~(p < 1) /\ ~(p < 2)
<1>1. p \in Nat /\ p >= 2
    BY DataRoom, Zenon
<1> QED
    BY <1>1

LEMMA FirstPlaces ==
    \E f \in [CKeys -> 2..Cardinality(CKeys) + 1] : IsInjective(f)
<1> DEFINE n == Cardinality(CKeys)
<1>1. n \in Nat /\ ExistsBijection(1..n, CKeys)
    BY AsIsAssumption, FS_CardinalityType
<1>2. ExistsBijection(CKeys, 1..n)
    BY <1>1, Fun_ExistsBijSymmetric
<1>3. PICK g \in [CKeys -> 1..n] : IsInjective(g)
    BY <1>2 DEF ExistsBijection, Bijection, Injection
<1> DEFINE f == [k \in CKeys |-> g[k] + 1]
<1>4. f \in [CKeys -> 2..n + 1]
    BY <1>1
<1>5. IsInjective(f)
    BY <1>3, <1>1 DEF IsInjective
<1> QED
    BY <1>4, <1>5

LEMMA AsIsInitially == AsIsInit => AsIsInv
<1> SUFFICES ASSUME AsIsInit PROVE AsIsInv
    OBVIOUS
<1> DEFINE n == Cardinality(CKeys)
           at == CHOOSE f \in [CKeys -> 2..n + 1] : IsInjective(f)
<1>1. at \in [CKeys -> 2..n + 1] /\ IsInjective(at)
    BY FirstPlaces
<1>2. /\ metas = [i \in {0, 1} |-> [txnid |-> i, at |-> at, next |-> n + 2, free |-> {}]]
      /\ pages = [p \in Data |-> IF \E k \in CKeys : at[k] = p
                                 THEN <<CHOOSE k \in CKeys : at[k] = p, 1>> ELSE <<>>]
    BY Zenon DEF AsIsInit
<1> HIDE DEF at
<1>3. at \in [CKeys -> Data] /\ n \in Nat /\ \A k \in CKeys : at[k] < n + 2
    BY <1>1, DataRoom
<1> HIDE DEF n
<1>4. metas \in [{0, 1} -> AMeta]
    BY <1>2, <1>3 DEF AMeta
<1>5. newest = metas[1] /\ TwoMetas(metas)
    BY <1>2 DEF newest, pick, TwoMetas
<1>6. ASSUME NEW k \in CKeys PROVE pages[at[k]] = <<k, 1>>
    <2>1. (CHOOSE j \in CKeys : at[j] = at[k]) = k
        BY <1>1 DEF IsInjective
    <2> QED
        BY <1>2, <1>3, <2>1
<1>7. pages \in [Data -> Content]
    <2>1. ASSUME NEW p \in Data, \E k \in CKeys : at[k] = p
          PROVE  <<CHOOSE k \in CKeys : at[k] = p, 1>> \in CKeys \X Nat
        BY <2>1
    <2> QED
        BY <1>2, <2>1 DEF Content
<1>8. Good(pages, newest)
    <2>1. newest.at = at /\ newest.next = n + 2 /\ newest.free = {} /\ newest.txnid = 1
        BY <1>2, <1>5
    <2>2. Shown(pages, newest)
        BY <1>3, <1>6, <2>1 DEF Shown
    <2> QED
        BY <2>1, <2>2 DEF Good, FreeApart
<1>9. AType
    BY <1>4, <1>7 DEF AType, AsIsInit, Content
<1>10. WriterInv
    BY <1>5, <1>8 DEF WriterInv, AsIsInit
<1>11. CopierInv
    BY DEF CopierInv, AsIsInit
<1> QED
    BY <1>9, <1>10, <1>11 DEF AsIsInv

-----------------------------------------------------------------------------
(* The writer. *)

\* The transaction w after a page of its own for key k.
Rewritten(w, k, p) ==
    [w EXCEPT !.at[k] = p,
              !.next = IF p = @ THEN @ + 1 ELSE @,
              !.free = {f \in @ : f.p # p} \union {[p |-> w.at[k], t |-> w.txnid]}]
\* A page that Rewrite may take.
MayTake(w, p, old) == p = w.next \/ \E f \in w.free : f.p = p /\ f.t < old

LEMMA RewrittenParts ==
    ASSUME NEW w \in AMeta, NEW k \in CKeys, NEW p \in Data
    PROVE  LET w2 == Rewritten(w, k, p) IN
           /\ w2 \in AMeta /\ w2.txnid = w.txnid
           /\ w2.at = [w.at EXCEPT ![k] = p]
           /\ w2.next = IF p = w.next THEN w.next + 1 ELSE w.next
           /\ w2.free = {f \in w.free : f.p # p} \union {[p |-> w.at[k], t |-> w.txnid]}
<1> DEFINE w2 == Rewritten(w, k, p)
<1>1. /\ w.at \in [CKeys -> Data] /\ w.at[k] \in Data /\ w.next \in Nat \ {0, 1} /\ w.txnid \in Nat
      /\ w.free \in SUBSET [p : Data, t : Nat]
    BY DEF AMeta
<1> DEFINE fr == {f \in w.free : f.p # p} \union {[p |-> w.at[k], t |-> w.txnid]}
           to == [w.at EXCEPT ![k] = p]
           nx == IF p = w.next THEN w.next + 1 ELSE w.next
<1>2. w2 = [w EXCEPT !.at = to, !.next = nx, !.free = fr]
    BY Zenon DEF Rewritten
<1>3. fr \in SUBSET [p : Data, t : Nat] /\ to \in [CKeys -> Data] /\ nx \in Nat \ {0, 1}
    BY <1>1
<1> HIDE DEF fr, to, nx, w2
<1>4. w2 \in AMeta /\ w2.txnid = w.txnid /\ w2.at = to /\ w2.next = nx /\ w2.free = fr
    BY <1>2, <1>3 DEF AMeta
<1> QED
    BY <1>4, Zenon DEF w2, fr, to, nx

LEMMA RewrittenType ==
    ASSUME NEW w \in AMeta, NEW k \in CKeys, NEW p \in Data
    PROVE  Rewritten(w, k, p) \in AMeta /\ Rewritten(w, k, p).txnid = w.txnid
<1> DEFINE w2 == Rewritten(w, k, p)
<1>1. /\ w2 \in AMeta /\ w2.txnid = w.txnid
      /\ w2.at = [w.at EXCEPT ![k] = p]
      /\ w2.next = IF p = w.next THEN w.next + 1 ELSE w.next
      /\ w2.free = {f \in w.free : f.p # p} \union {[p |-> w.at[k], t |-> w.txnid]}
    BY RewrittenParts
<1> QED
    BY <1>1

\* It is not a page of an earlier transaction that the free list spares.
LEMMA UnusedSpared ==
    ASSUME NEW w \in AMeta, NEW s \in AMeta, NEW p \in Data, NEW old \in Nat, NEW ps,
           MayTake(w, p, old), Spares(w, s), Shown(ps, s), old <= s.txnid
    PROVE  \A j \in CKeys : s.at[j] # p
<1> SUFFICES ASSUME NEW j \in CKeys, s.at[j] = p PROVE FALSE
    OBVIOUS
<1>1. s.next \in Nat /\ w.next \in Nat /\ s.txnid \in Nat /\ p \in Nat
    BY DataRoom DEF AMeta
<1>2. CASE p = w.next
    BY <1>1, <1>2 DEF Shown, Spares
<1>3. ASSUME NEW f \in w.free, f.p = p, f.t < old PROVE FALSE
    <2>1. f.t \in Nat
        BY DEF AMeta
    <2>2. f.t > s.txnid
        BY <1>3 DEF Spares
    <2> QED
        BY <1>1, <1>3, <2>1, <2>2
<1> QED
    BY <1>2, <1>3 DEF MayTake

LEMMA UnusedApart ==
    ASSUME NEW w \in AMeta, NEW p \in Data, NEW old, NEW ps,
           MayTake(w, p, old), Good(ps, w)
    PROVE  (\A j \in CKeys : w.at[j] # p) /\ p <= w.next
<1>1. w.next \in Nat /\ p \in Nat
    BY DataRoom DEF AMeta
<1>2. CASE p = w.next
    BY <1>1, <1>2 DEF Good, Shown
<1>3. CASE \E f \in w.free : f.p = p
    BY <1>1, <1>3 DEF Good, FreeApart
<1> QED
    BY <1>2, <1>3 DEF MayTake

LEMMA RewrittenGood ==
    ASSUME NEW ps \in [Data -> Content], NEW w \in AMeta, NEW k \in CKeys, NEW p \in Data,
           Good(ps, w), \A j \in CKeys : w.at[j] # p, p <= w.next
    PROVE  /\ [ps EXCEPT ![p] = <<k, w.txnid>>] \in [Data -> Content]
           /\ Good([ps EXCEPT ![p] = <<k, w.txnid>>], Rewritten(w, k, p))
<1> DEFINE w2 == Rewritten(w, k, p)
           q == [ps EXCEPT ![p] = <<k, w.txnid>>]
<1>1. /\ w2 \in AMeta /\ w2.txnid = w.txnid
      /\ w2.at = [w.at EXCEPT ![k] = p]
      /\ w2.next = IF p = w.next THEN w.next + 1 ELSE w.next
      /\ w2.free = {f \in w.free : f.p # p} \union {[p |-> w.at[k], t |-> w.txnid]}
    BY RewrittenParts
<1>2. w.next \in Nat /\ p \in Nat /\ w.txnid \in Nat /\ w.at \in [CKeys -> Data]
    BY DataRoom DEF AMeta
<1>3. q \in [Data -> Content]
    BY <1>2 DEF Content
<1> HIDE DEF w2
<1>4. ASSUME NEW j \in CKeys
      PROVE  w2.at[j] < w2.next /\ \E v \in Nat : v <= w2.txnid /\ q[w2.at[j]] = <<j, v>>
    <2>1. CASE j = k
        BY <1>1, <1>2, <2>1
    <2>2. CASE j # k
        <3>1. w2.at[j] = w.at[j] /\ w.at[j] \in Data /\ w.at[j] # p /\ w.at[j] \in Nat
            BY <1>1, <1>2, <2>2, DataRoom
        <3>2. w.at[j] < w.next /\ \E v \in Nat : v <= w.txnid /\ ps[w.at[j]] = <<j, v>>
            BY DEF Good, Shown
        <3>3. q[w.at[j]] = ps[w.at[j]]
            BY <3>1
        <3> QED
            BY <1>1, <1>2, <3>1, <3>2, <3>3
    <2> QED
        BY <2>1, <2>2
<1>5. ASSUME NEW f \in w2.free PROVE f.p < w2.next /\ \A j \in CKeys : w2.at[j] # f.p
    <2>1. CASE f \in w.free /\ f.p # p
        <3>1. f.p \in Nat
            BY <2>1, DataRoom DEF AMeta
        <3>2. f.p < w.next /\ \A j \in CKeys : w.at[j] # f.p
            BY <2>1 DEF Good, FreeApart
        <3> QED
            BY <1>1, <1>2, <2>1, <3>1, <3>2
    <2>2. CASE f = [p |-> w.at[k], t |-> w.txnid]
        <3>1. f.p = w.at[k] /\ w.at[k] \in Nat
            BY <1>2, <2>2, DataRoom
        <3>2. w.at[k] < w.next /\ w.at[k] # p
            BY DEF Good, Shown
        <3>3. ASSUME NEW j \in CKeys, j # k PROVE w.at[j] # w.at[k]
            <4>1. PICK v \in Nat : ps[w.at[j]] = <<j, v>>
                BY DEF Good, Shown
            <4>2. PICK u \in Nat : ps[w.at[k]] = <<k, u>>
                BY DEF Good, Shown
            <4> QED
                BY <4>1, <4>2, <3>3
        <3> QED
            BY <1>1, <1>2, <3>1, <3>2, <3>3
    <2> QED
        BY <1>1, <2>1, <2>2
<1> QED
    BY <1>3, <1>4, <1>5 DEF Good, Shown, FreeApart, w2

LEMMA RewrittenSpares ==
    ASSUME NEW w \in AMeta, NEW s \in AMeta, NEW k \in CKeys, NEW p \in Data,
           Spares(w, s), w.txnid > s.txnid
    PROVE  Spares(Rewritten(w, k, p), s)
<1> DEFINE w2 == Rewritten(w, k, p)
<1>1. /\ w2 \in AMeta /\ w2.txnid = w.txnid
      /\ w2.at = [w.at EXCEPT ![k] = p]
      /\ w2.next = IF p = w.next THEN w.next + 1 ELSE w.next
      /\ w2.free = {f \in w.free : f.p # p} \union {[p |-> w.at[k], t |-> w.txnid]}
    BY RewrittenParts
<1>2. w.next \in Nat /\ s.next \in Nat
    BY DEF AMeta
<1> HIDE DEF w2
<1> QED
    BY <1>1, <1>2 DEF Spares, w2

LEMMA NewestType ==
    ASSUME AsIsInv
    PROVE  newest \in AMeta /\ newest.txnid \in Nat /\ newest.txnid > 0
<1>1. metas \in [{0, 1} -> AMeta] /\ TwoMetas(metas)
    BY DEF AsIsInv, AType, WriterInv
<1>2. PICK i \in {0, 1} : pick(metas) = metas[i] /\ metas[i].txnid \in Nat /\ metas[i].txnid > 0
    BY <1>1, PickRight
<1> QED
    BY <1>1, <1>2 DEF newest

LEMMA OldestRight ==
    ASSUME AsIsInv
    PROVE  /\ oldest \in Nat /\ oldest <= newest.txnid
           /\ cpc = "copy" => oldest <= csnap.txnid
<1>1. newest.txnid \in Nat /\ newest.txnid > 0
    BY NewestType
<1>2. CASE cpc # "copy"
    BY <1>1, <1>2 DEF AsIsInv, CopierInv, oldest
<1>3. CASE cpc = "copy"
    <2>1. csnap \in AMeta
        BY <1>3, NewestType, PickType DEF csnap, AsIsInv, CopierInv, AType
    <2>2. csnap.txnid \in Nat /\ reader = csnap.txnid
        BY <1>3, <2>1 DEF AsIsInv, CopierInv, CopyOf, AMeta
    <2>7. csnap.txnid > 0
        <3>1. CASE cpos < 2
            BY <1>1, <3>1 DEF csnap
        <3>2. CASE ~(cpos < 2)
            <4>1. cmetas \in [{0, 1} -> AMeta] /\ TwoMetas(cmetas)
                BY <1>3, <3>2 DEF AsIsInv, CopierInv, AType
            <4>2. PICK i \in {0, 1} : pick(cmetas) = cmetas[i] /\ cmetas[i].txnid > 0
                BY <4>1, PickRight
            <4> QED
                BY <3>2, <4>2 DEF csnap
        <3> QED
            BY <3>1, <3>2
    <2>3. Min({newest.txnid, reader}) <= newest.txnid /\ Min({newest.txnid, reader}) <= reader
        BY <1>1, <2>2, MinOfTwo
    <2>4. Min({newest.txnid, reader}) \in {newest.txnid, reader}
        <3>1. \E x \in {newest.txnid, reader} : \A y \in {newest.txnid, reader} : x <= y
            BY <1>1, <2>2
        <3> QED
            BY <3>1 DEF Min
    <2>5. reader # 0 => oldest = Min({newest.txnid, reader})
        BY DEF oldest
    <2> QED
        BY <1>1, <2>2, <2>3, <2>4, <2>5, <2>7
<1> QED
    BY <1>2, <1>3

LEMMA CopyState ==
    ASSUME AsIsInv, cpc = "copy"
    PROVE  csnap \in AMeta /\ CopyOf(csnap) /\ cpos \in Nat
BY NewestType, PickType DEF csnap, AsIsInv, CopierInv, AType

LEMMA WBeginKeeps ==
    ASSUME AsIsInv, WBegin
    PROVE  AsIsInv'
<1> DEFINE m == newest
           w == [m EXCEPT !.txnid = @ + 1]
<1>1. m \in AMeta /\ m.txnid \in Nat
    BY NewestType
<1>2. metas' = metas /\ pages' = pages /\ wtxn' = w /\ wmutex' = "writer" /\ wmutex = "none"
      /\ reader' = reader /\ cpc' = cpc /\ cpos' = cpos /\ snap' = snap /\ cmetas' = cmetas
      /\ cpages' = cpages /\ cret' = cret
    BY DEF WBegin, copying
<1>3. newest' = m
    BY <1>2 DEF newest
<1>4. TwoMetas(metas) /\ Good(pages, m)
    BY DEF AsIsInv, WriterInv
<1> HIDE DEF m
<1>5. w \in AMeta /\ w.txnid = m.txnid + 1 /\ w.at = m.at /\ w.next = m.next /\ w.free = m.free
    BY <1>1 DEF AMeta
<1> HIDE DEF w
<1>6. Good(pages, w)
    BY <1>1, <1>4, <1>5 DEF Good, Shown, FreeApart
<1>7. Spares(w, m)
    BY <1>1, <1>4, <1>5 DEF Good, FreeApart, Spares, AMeta
<1>8. AType'
    BY <1>2, <1>5 DEF AsIsInv, AType
<1>9. WriterInv'
    BY <1>2, <1>3, <1>4, <1>5, <1>6, <1>7 DEF WriterInv
<1>10. ASSUME cpc = "copy" PROVE cpos >= 2 /\ csnap' = csnap /\ CopyOf(csnap)'
    <2>1. csnap \in AMeta /\ CopyOf(csnap) /\ cpos \in Nat
        BY <1>10, CopyState
    <2>2. cpos >= 2
        BY <1>2, <1>10, <2>1 DEF AsIsInv, CopierInv
    <2>3. csnap' = csnap
        BY <1>2, <2>1, <2>2 DEF csnap
    <2>4. Spares(m, csnap)
        BY <2>1 DEF CopyOf, m
    <2>5. Spares(w, csnap)
        BY <1>1, <1>5, <2>1, <2>4 DEF Spares, AMeta
    <2> QED
        BY <1>2, <1>3, <2>1, <2>2, <2>3, <2>4, <2>5 DEF CopyOf
<1>11. CopierInv'
    BY <1>2, <1>10 DEF AsIsInv, CopierInv, AsIsComplete
<1> QED
    BY <1>8, <1>9, <1>11 DEF AsIsInv

LEMMA RewriteKeeps ==
    ASSUME AsIsInv, NEW k \in CKeys, NEW p \in Data, Rewrite(k, p)
    PROVE  AsIsInv'
<1>1. newest \in AMeta /\ newest.txnid \in Nat
    BY NewestType
<1>2. wtxn \in AMeta /\ wtxn # None /\ wmutex = "writer"
    BY DEF Rewrite, AsIsInv, AType
<1>3. wtxn' = Rewritten(wtxn, k, p)
    BY Zenon DEF Rewrite, Rewritten
<1>4. pages' = [pages EXCEPT ![p] = <<k, wtxn.txnid>>] /\ metas' = metas /\ wmutex' = wmutex
      /\ reader' = reader /\ cpc' = cpc /\ cpos' = cpos /\ snap' = snap /\ cmetas' = cmetas
      /\ cpages' = cpages /\ cret' = cret
    BY DEF Rewrite, copying
<1>5. newest' = newest
    BY <1>4 DEF newest
<1>6. MayTake(wtxn, p, oldest)
    BY DEF Rewrite, Reusable, MayTake
<1>7. TwoMetas(metas) /\ Good(pages, newest) /\ wtxn.txnid = newest.txnid + 1
      /\ Good(pages, wtxn) /\ Spares(wtxn, newest)
    BY <1>2 DEF AsIsInv, WriterInv
<1>8. oldest \in Nat /\ oldest <= newest.txnid /\ (cpc = "copy" => oldest <= csnap.txnid)
    BY OldestRight
<1>9. pages \in [Data -> Content]
    BY DEF AsIsInv, AType
<1>10. (\A j \in CKeys : wtxn.at[j] # p) /\ p <= wtxn.next
    BY <1>2, <1>6, <1>7, UnusedApart
<1>11. pages' \in [Data -> Content] /\ Good(pages', wtxn')
    BY <1>2, <1>3, <1>4, <1>7, <1>9, <1>10, RewrittenGood
<1>12. wtxn' \in AMeta /\ wtxn'.txnid = wtxn.txnid
    BY <1>2, <1>3, RewrittenType
<1>13. wtxn' # None
    BY <1>12, NoneApart
<1>14. ASSUME NEW s \in AMeta, Spares(wtxn, s), Shown(pages, s), oldest <= s.txnid,
              s.txnid <= newest.txnid
       PROVE  /\ Shown(pages', s) /\ Spares(wtxn', s)
              /\ \A j \in CKeys : pages'[s.at[j]] = pages[s.at[j]]
    <2>1. \A j \in CKeys : s.at[j] # p
        BY <1>2, <1>6, <1>8, <1>14, UnusedSpared
    <2>2. s.txnid \in Nat
        BY DEF AMeta
    <2>3. wtxn.txnid > s.txnid
        BY <1>1, <1>7, <1>14, <2>2
    <2>4. Spares(wtxn', s)
        BY <1>2, <1>3, <1>14, <2>3, RewrittenSpares
    <2>5. PICK c : pages' = [pages EXCEPT ![p] = c]
        BY <1>4
    <2>6. Shown(pages', s) /\ \A j \in CKeys : pages'[s.at[j]] = pages[s.at[j]]
        <3>1. \A j \in CKeys : s.at[j] \in Data
            BY DEF AMeta
        <3>2. \A j \in CKeys : pages'[s.at[j]] = pages[s.at[j]]
            BY <1>9, <2>1, <2>5, <3>1
        <3> QED
            BY <1>14, <3>2 DEF Shown
    <2> QED
        BY <2>4, <2>6
<1>15. AType'
    BY <1>4, <1>11, <1>12 DEF AsIsInv, AType
<1>16. Shown(pages', newest) /\ Spares(wtxn', newest)
    BY <1>1, <1>7, <1>8, <1>14 DEF Good
<1>17. WriterInv'
    BY <1>2, <1>4, <1>5, <1>7, <1>11, <1>12, <1>16 DEF WriterInv, Good
<1>18. ASSUME cpc = "copy" PROVE csnap' = csnap /\ CopyOf(csnap)'
    <2>1. csnap \in AMeta /\ CopyOf(csnap) /\ cpos \in Nat
        BY <1>18, CopyState
    <2>2. csnap' = csnap
        BY <1>4, <1>5 DEF csnap
    <2>3. Spares(newest, csnap) /\ Spares(wtxn, csnap) /\ Shown(pages, csnap)
        BY <1>2, <2>1 DEF CopyOf
    <2>4. csnap.txnid <= newest.txnid
        BY <2>3 DEF Spares
    <2>5. /\ Shown(pages', csnap) /\ Spares(wtxn', csnap)
          /\ \A j \in CKeys : pages'[csnap.at[j]] = pages[csnap.at[j]]
        BY <1>8, <1>14, <1>18, <2>1, <2>3, <2>4
    <2> QED
        BY <1>4, <1>5, <2>1, <2>2, <2>3, <2>5 DEF CopyOf
<1>19. CopierInv'
    BY <1>4, <1>18 DEF AsIsInv, CopierInv, AsIsComplete
<1> QED
    BY <1>15, <1>17, <1>19 DEF AsIsInv

LEMMA WCommitKeeps ==
    ASSUME AsIsInv, WCommit
    PROVE  AsIsInv'
<1>1. wtxn \in AMeta /\ wtxn # None
    BY DEF WCommit, AsIsInv, AType
<1>2. metas \in [{0, 1} -> AMeta] /\ TwoMetas(metas) /\ wtxn.txnid = pick(metas).txnid + 1
      /\ wmutex = "writer" /\ Good(pages, wtxn)
    BY <1>1 DEF AsIsInv, AType, WriterInv, newest
<1>3. metas' = [metas EXCEPT ![wtxn.txnid % 2] = wtxn] /\ wtxn' = None
      /\ pages' = pages /\ wmutex' = wmutex
      /\ reader' = reader /\ cpc' = cpc /\ cpos' = cpos /\ snap' = snap /\ cmetas' = cmetas
      /\ cpages' = cpages /\ cret' = cret
    BY DEF WCommit, copying
<1>4. metas' \in [{0, 1} -> AMeta] /\ TwoMetas(metas') /\ pick(metas') = wtxn
    BY <1>1, <1>2, <1>3, PickNext
<1>5. newest' = wtxn
    BY <1>4 DEF newest
<1>6. AType'
    BY <1>3, <1>4 DEF AsIsInv, AType
<1>7. WriterInv'
    BY <1>2, <1>3, <1>4, <1>5 DEF WriterInv
<1>8. ASSUME cpc = "copy" PROVE cpos >= 2 /\ csnap' = csnap /\ CopyOf(csnap)'
    <2>1. csnap \in AMeta /\ CopyOf(csnap) /\ cpos \in Nat
        BY <1>8, CopyState
    <2>2. cpos >= 2
        BY <1>2, <1>8, <2>1 DEF AsIsInv, CopierInv
    <2>3. csnap' = csnap
        BY <1>3, <2>1, <2>2 DEF csnap
    <2> QED
        BY <1>1, <1>3, <1>5, <2>1, <2>2, <2>3 DEF CopyOf
<1>9. CopierInv'
    BY <1>3, <1>8 DEF AsIsInv, CopierInv, AsIsComplete
<1> QED
    BY <1>6, <1>7, <1>9 DEF AsIsInv

LEMMA WEndKeeps ==
    ASSUME AsIsInv, WEnd
    PROVE  AsIsInv'
<1>1. wmutex' = "none" /\ wmutex = "writer" /\ wtxn = None
      /\ metas' = metas /\ pages' = pages /\ wtxn' = wtxn
      /\ reader' = reader /\ cpc' = cpc /\ cpos' = cpos /\ snap' = snap /\ cmetas' = cmetas
      /\ cpages' = cpages /\ cret' = cret
    BY DEF WEnd, copying, writing
<1>2. newest' = newest /\ csnap' = csnap
    BY <1>1 DEF newest, csnap
<1>3. AType' /\ WriterInv'
    BY <1>1, <1>2 DEF AsIsInv, AType, WriterInv
<1>4. CopyOf(csnap) => CopyOf(csnap)'
    BY <1>1, <1>2 DEF CopyOf
<1>5. CopierInv'
    BY <1>1, <1>2, <1>4 DEF AsIsInv, CopierInv, AsIsComplete
<1> QED
    BY <1>3, <1>5 DEF AsIsInv

-----------------------------------------------------------------------------
(* The copying thread. *)

LEMMA CBeginKeeps ==
    ASSUME AsIsInv, CBegin
    PROVE  AsIsInv'
<1>1. /\ cpc = "begin"
      /\ metas' = metas /\ pages' = pages /\ wtxn' = wtxn /\ wmutex' = wmutex
      /\ cpos' = cpos /\ snap' = snap /\ cmetas' = cmetas /\ cpages' = cpages
    BY DEF CBegin, writing
<1>5. (cpc' = "lock" /\ reader' = reader /\ cret' = cret) \/ Fail
    BY DEF CBegin
<1>2. newest' = newest
    BY <1>1 DEF newest
<1>3. AType' /\ WriterInv'
    BY <1>1, <1>2 DEF AsIsInv, AType, WriterInv
<1>4. CopierInv'
    <2>1. CASE Fail
        BY <1>1, <2>1 DEF CopierInv, Fail
    <2>2. CASE cpc' = "lock" /\ reader' = reader /\ cret' = cret
        BY <1>1, <2>2 DEF AsIsInv, CopierInv
    <2> QED
        BY <1>5, <2>1, <2>2
<1> QED
    BY <1>3, <1>4 DEF AsIsInv

LEMMA CLockKeeps ==
    ASSUME AsIsInv, CLock
    PROVE  AsIsInv'
<1>1. /\ cpc = "lock" /\ wmutex = "none" /\ wmutex' = "copier" /\ cpc' = "copy"
      /\ reader' = newest.txnid /\ snap' = newest.next
      /\ metas' = metas /\ pages' = pages /\ wtxn' = wtxn
      /\ cpos' = cpos /\ cmetas' = cmetas /\ cpages' = cpages /\ cret' = cret
    BY DEF CLock, writing
<1>2. newest' = newest /\ newest \in AMeta
    BY <1>1, NewestType DEF newest
<1>3. wtxn = None /\ Good(pages, newest) /\ cpos = 0 /\ cret # "ok"
    BY <1>1 DEF AsIsInv, WriterInv, CopierInv
<1>4. AType' /\ WriterInv'
    BY <1>1, <1>2, <1>3 DEF AsIsInv, AType, WriterInv
<1>5. csnap' = newest
    BY <1>1, <1>2, <1>3 DEF csnap
<1>6. Spares(newest, newest)
    BY <1>2, <1>3 DEF Spares, Good, FreeApart, AMeta
<1>7. ASSUME NEW k \in CKeys PROVE ~(newest.at[k] < 0)
    <2>1. newest.at[k] \in Data
        BY <1>2 DEF AMeta
    <2> QED
        BY <2>1, DataPage
<1>8. CopyOf(csnap)'
    BY <1>1, <1>2, <1>3, <1>5, <1>6, <1>7 DEF CopyOf, Good
<1>9. CopierInv'
    BY <1>1, <1>3, <1>8 DEF CopierInv
<1> QED
    BY <1>4, <1>9 DEF AsIsInv

\* An error ends the copy.
LEMMA FailKeeps ==
    ASSUME AsIsInv, Fail, cpc = "copy", UNCHANGED <<writing, cmetas, cpages, cpos>>,
           wtxn = None \/ wmutex' = wmutex
    PROVE  AsIsInv'
<1>1. newest' = newest
    BY DEF newest, writing
<1>2. AType' /\ WriterInv'
    BY <1>1 DEF AsIsInv, AType, WriterInv, writing
<1>3. CopierInv'
    BY DEF Fail, CopierInv
<1> QED
    BY <1>2, <1>3 DEF AsIsInv

LEMMA CMetaKeeps ==
    ASSUME AsIsInv, CMeta
    PROVE  AsIsInv'
<1>1. cpc = "copy" /\ cpos < 2
      /\ metas' = metas /\ pages' = pages /\ wtxn' = wtxn /\ snap' = snap /\ cpages' = cpages
    BY DEF CMeta, writing
<1>2. newest' = newest /\ newest \in AMeta
    BY <1>1, NewestType DEF newest
<1>3. /\ wmutex = "copier" /\ (cpos = 1 => cmetas[0] = metas[0])
      /\ CopyOf(csnap) /\ csnap = newest /\ cpos \in {0, 1}
    BY <1>1, CopyState DEF AsIsInv, CopierInv, csnap
<1>4. wtxn = None
    BY <1>3 DEF AsIsInv, WriterInv
<1>5. CASE Fail /\ UNCHANGED <<cpos, cmetas>>
    BY <1>1, <1>4, <1>5, FailKeeps DEF writing
<1>6. CASE /\ cmetas' = [cmetas EXCEPT ![cpos] = metas[cpos]] /\ cpos' = cpos + 1
           /\ wmutex' = IF cpos = 1 THEN "none" ELSE wmutex
           /\ UNCHANGED <<reader, cpc, cret>>
    <2>1. metas \in [{0, 1} -> AMeta] /\ TwoMetas(metas) /\ cmetas \in [{0, 1} -> AMeta \cup {None}]
        BY DEF AsIsInv, AType, WriterInv
    <2>2. cmetas' \in [{0, 1} -> AMeta \cup {None}]
        BY <1>3, <1>6, <2>1
    <2>3. AType' /\ WriterInv'
        BY <1>1, <1>2, <1>3, <1>4, <1>6, <2>2 DEF AsIsInv, AType, WriterInv
    <2>4. cpos = 1 => cmetas' = metas
        BY <1>3, <1>6, <2>1
    <2>5. csnap' = newest
        <3>1. CASE cpos = 0
            BY <1>2, <1>6, <3>1 DEF csnap
        <3>2. CASE cpos = 1
            <4>1. csnap' = pick(cmetas')
                BY <1>6, <3>2 DEF csnap
            <4> QED
                BY <2>4, <3>2, <4>1 DEF newest
        <3> QED
            BY <1>3, <3>1, <3>2
    <2>6. ASSUME NEW k \in CKeys PROVE ~(newest.at[k] < 1) /\ ~(newest.at[k] < 2)
        <3>1. newest.at[k] \in Data
            BY <1>2 DEF AMeta
        <3> QED
            BY <3>1, DataPage
    <2>7. CopyOf(csnap)'
        BY <1>1, <1>2, <1>3, <1>4, <1>6, <2>5, <2>6 DEF CopyOf
    <2>8. cpos' < 2 => wmutex' = "copier" /\ (cpos' = 1 => cmetas'[0] = metas'[0])
        BY <1>1, <1>3, <1>6, <2>1
    <2>9. cpos' >= 2 => cmetas' \in [{0, 1} -> AMeta] /\ TwoMetas(cmetas')
        <3>1. cpos' >= 2 => cpos = 1
            BY <1>3, <1>6
        <3> QED
            BY <2>1, <2>4, <3>1
    <2>10. cret # "ok"
        BY <1>1 DEF AsIsInv, CopierInv
    <2>11. CopierInv'
        BY <1>1, <1>6, <2>7, <2>8, <2>9, <2>10 DEF CopierInv
    <2> QED
        BY <2>3, <2>11 DEF AsIsInv
<1> QED
    BY <1>5, <1>6 DEF CMeta

LEMMA CPageKeeps ==
    ASSUME AsIsInv, CPage
    PROVE  AsIsInv'
<1>1. cpc = "copy" /\ cpos \in 2..snap - 1 /\ wmutex' = wmutex
      /\ metas' = metas /\ pages' = pages /\ wtxn' = wtxn /\ snap' = snap /\ cmetas' = cmetas
    BY DEF CPage, writing
<1>2. newest' = newest
    BY <1>1 DEF newest
<1>3. csnap \in AMeta /\ CopyOf(csnap) /\ cpos \in Nat
    BY <1>1, CopyState
<1>4. cpos >= 2
    BY <1>1, <1>3 DEF CopyOf, AMeta
<1>5. CASE Fail /\ UNCHANGED <<cpos, cpages>>
    BY <1>1, <1>5, FailKeeps DEF writing
<1>6. CASE cpages' = [cpages EXCEPT ![cpos] = pages[cpos]] /\ cpos' = cpos + 1
           /\ UNCHANGED <<reader, cpc, cret>>
    <2>1. pages \in [Data -> Content] /\ cpages \in [Data -> Content]
        BY DEF AsIsInv, AType
    <2>2. cpages' \in [Data -> Content]
        BY <1>6, <2>1
    <2>3. AType' /\ WriterInv'
        BY <1>1, <1>2, <1>3, <1>6, <2>2 DEF AsIsInv, AType, WriterInv
    <2>4. csnap' = csnap
        BY <1>1, <1>3, <1>4, <1>6 DEF csnap
    <2>5. ASSUME NEW k \in CKeys, csnap.at[k] < cpos + 1
          PROVE  cpages'[csnap.at[k]] = pages[csnap.at[k]]
        <3>1. csnap.at[k] \in Data /\ csnap.at[k] \in Nat
            BY <1>3, DataRoom DEF AMeta
        <3>2. CASE csnap.at[k] = cpos
            BY <1>6, <2>1, <3>1, <3>2
        <3>3. CASE csnap.at[k] < cpos
            <4>1. cpages[csnap.at[k]] = pages[csnap.at[k]]
                BY <1>3, <3>3 DEF CopyOf
            <4> QED
                BY <1>6, <2>1, <3>1, <3>3, <4>1, <1>3
        <3> QED
            BY <1>3, <2>5, <3>1, <3>2, <3>3
    <2>6. CopyOf(csnap)'
        BY <1>1, <1>2, <1>3, <1>6, <2>4, <2>5 DEF CopyOf
    <2>7. CopierInv'
        BY <1>1, <1>3, <1>4, <1>6, <2>6 DEF AsIsInv, CopierInv
    <2> QED
        BY <2>3, <2>7 DEF AsIsInv
<1> QED
    BY <1>5, <1>6 DEF CPage

LEMMA CLeaveKeeps ==
    ASSUME AsIsInv, CLeave
    PROVE  AsIsInv'
<1>1. /\ cpc = "copy" /\ cpos >= snap /\ reader' = 0 /\ cpc' = "ended" /\ cret' = "ok"
      /\ metas' = metas /\ pages' = pages /\ wtxn' = wtxn /\ wmutex' = wmutex
      /\ cpos' = cpos /\ snap' = snap /\ cmetas' = cmetas /\ cpages' = cpages
    BY DEF CLeave, writing
<1>2. newest' = newest
    BY <1>1 DEF newest
<1>3. csnap \in AMeta /\ CopyOf(csnap) /\ cpos \in Nat
    BY <1>1, CopyState
<1>4. snap = csnap.next /\ snap \in Nat \ {0, 1}
    BY <1>3 DEF CopyOf, AMeta
<1>5. pick(cmetas) = csnap
    BY <1>1, <1>3, <1>4 DEF csnap
<1>6. csnap # None
    BY <1>3, NoneApart
<1>7. ASSUME NEW k \in CKeys
      PROVE  /\ cpages[csnap.at[k]] # <<>> /\ cpages[csnap.at[k]][1] = k
             /\ cpages[csnap.at[k]][2] <= csnap.txnid
    <2>1. PICK v \in Nat : csnap.at[k] < csnap.next /\ v <= csnap.txnid
                            /\ pages[csnap.at[k]] = <<k, v>>
        BY <1>3 DEF CopyOf, Shown
    <2>2. csnap.at[k] \in Nat
        BY <1>3, DataRoom DEF AMeta
    <2>3. cpages[csnap.at[k]] = <<k, v>>
        BY <1>1, <1>3, <1>4, <2>1, <2>2 DEF CopyOf
    <2> QED
        BY <2>1, <2>3
<1>8. AsIsComplete'
    BY <1>1, <1>5, <1>6, <1>7 DEF AsIsComplete
<1>9. AType' /\ WriterInv'
    BY <1>1, <1>2 DEF AsIsInv, AType, WriterInv
<1>10. CopierInv'
    BY <1>1, <1>8 DEF CopierInv
<1> QED
    BY <1>9, <1>10 DEF AsIsInv

\* AsIsFaithful holds of every behaviour: mdb_env_copyfd0 keeps the writer out only
\* while it copies the meta pages, yet the data pages it copies afterwards, while
\* others commit, free and use pages again, are those of the snapshot it was
\* registered with, for any number of keys and commits.
THEOREM CopyAsIsFaithful == AsIsSpec => []AsIsFaithful
<1>1. AsIsInv /\ [AsIsNext]_avars => AsIsInv'
    <2> SUFFICES ASSUME AsIsInv, [AsIsNext]_avars PROVE AsIsInv'
        OBVIOUS
    <2>1. CASE UNCHANGED avars
        <3>1. newest' = newest /\ csnap' = csnap
            BY <2>1 DEF avars, newest, csnap
        <3>2. AType' /\ WriterInv'
            BY <2>1, <3>1 DEF avars, AsIsInv, AType, WriterInv
        <3>3. CopyOf(csnap) => CopyOf(csnap)'
            BY <2>1, <3>1 DEF avars, CopyOf
        <3>4. CopierInv'
            BY <2>1, <3>1, <3>3 DEF avars, AsIsInv, CopierInv, AsIsComplete
        <3> QED
            BY <3>2, <3>4 DEF AsIsInv
    <2>2. CASE AsIsWriter
        BY <2>2, WBeginKeeps, RewriteKeeps, WCommitKeeps, WEndKeeps DEF AsIsWriter
    <2>3. CASE AsIsCopier
        BY <2>3, CBeginKeeps, CLockKeeps, CMetaKeeps, CPageKeeps, CLeaveKeeps DEF AsIsCopier
    <2> QED
        BY <2>1, <2>2, <2>3 DEF AsIsNext
<1>2. AsIsInv => AsIsFaithful
    BY DEF AsIsInv, CopierInv, AsIsFaithful
<1> QED
    BY <1>1, <1>2, AsIsInitially, PTL DEF AsIsSpec

-----------------------------------------------------------------------------
(* Memory in use.                                                          *)

\* The sum of f over S as the number of elements of a set.
Area(f, S) == {e \in S \X Nat : 1 <= e[2] /\ e[2] <= f[e[1]]}

\* One block of it.
LEMMA AreaSplit ==
    ASSUME NEW S, NEW T \in SUBSET S, NEW x \in T, NEW f \in [S -> Nat]
    PROVE  /\ Area(f, T) = Area(f, T \ {x}) \cup ({x} \X (1..f[x]))
           /\ Area(f, T \ {x}) \cap ({x} \X (1..f[x])) = {}
<1>1. f[x] \in Nat
    OBVIOUS
<1>2. ASSUME NEW e \in Area(f, T) PROVE e \in Area(f, T \ {x}) \cup ({x} \X (1..f[x]))
    <2>1. PICK a \in T, m \in Nat : e = <<a, m>>
        BY <1>2 DEF Area
    <2>2. 1 <= m /\ m <= f[a]
        BY <1>2, <2>1 DEF Area
    <2>3. CASE a = x
        BY <2>1, <2>2, <2>3, <1>1
    <2>4. CASE a # x
        BY <2>1, <2>2, <2>4 DEF Area
    <2> QED
        BY <2>3, <2>4
<1>3. ASSUME NEW e \in {x} \X (1..f[x]) PROVE e \in Area(f, T) /\ e \notin Area(f, T \ {x})
    <2>1. PICK m \in 1..f[x] : e = <<x, m>>
        BY <1>3
    <2>2. m \in Nat /\ 1 <= m /\ m <= f[x]
        BY <1>1
    <2> QED
        BY <2>1, <2>2 DEF Area
<1>4. Area(f, T \ {x}) \subseteq Area(f, T)
    BY DEF Area
<1> QED
    BY <1>2, <1>3, <1>4

LEMMA AreaEmpty ==
    ASSUME NEW f
    PROVE  Area(f, {}) = {}
BY DEF Area

LEMMA AreaStep ==
    ASSUME NEW S, NEW T \in SUBSET S, NEW x \in T, NEW f \in [S -> Nat],
           IsFiniteSet(Area(f, T \ {x}))
    PROVE  /\ IsFiniteSet(Area(f, T))
           /\ Cardinality(Area(f, T)) = f[x] + Cardinality(Area(f, T \ {x}))
<1>1. f[x] \in Nat
    OBVIOUS
<1>2. IsFiniteSet(1..f[x]) /\ Cardinality(1..f[x]) = f[x]
    BY <1>1, FS_Interval
<1>3. IsFiniteSet({x}) /\ Cardinality({x}) = 1
    BY FS_Singleton, Zenon
<1>4. IsFiniteSet({x} \X (1..f[x])) /\ Cardinality({x} \X (1..f[x])) = 1 * f[x]
    BY <1>2, <1>3, FS_Product
<1>5. Cardinality(Area(f, T \ {x})) \in Nat
    BY FS_CardinalityType
<1>6. /\ IsFiniteSet(Area(f, T \ {x}) \cup ({x} \X (1..f[x])))
      /\ Cardinality(Area(f, T \ {x}) \cup ({x} \X (1..f[x]))) =
           Cardinality(Area(f, T \ {x})) + Cardinality({x} \X (1..f[x]))
           - Cardinality(Area(f, T \ {x}) \cap ({x} \X (1..f[x])))
    BY <1>4, FS_Union
<1>7. Cardinality(Area(f, T \ {x}) \cap ({x} \X (1..f[x]))) = 0
    BY AreaSplit, FS_EmptySet
<1>8. Area(f, T) = Area(f, T \ {x}) \cup ({x} \X (1..f[x]))
    <2>1. Area(f, T) = Area(f, T \ {x}) \cup ({x} \X (1..f[x]))
          /\ Area(f, T \ {x}) \cap ({x} \X (1..f[x])) = {}
        BY AreaSplit, Zenon
    <2> QED
        BY <2>1, Zenon
<1>9. 1 * f[x] = f[x]
    BY <1>1
<1> QED
    BY <1>1, <1>4, <1>5, <1>6, <1>7, <1>8, <1>9

LEMMA AreaFinite ==
    ASSUME NEW S, IsFiniteSet(S), NEW f \in [S -> Nat], NEW T \in SUBSET S
    PROVE  IsFiniteSet(Area(f, T))
<1> DEFINE Bad == {Cardinality(U) : U \in {V \in SUBSET S : ~IsFiniteSet(Area(f, V))}}
<1>1. ASSUME NEW U \in SUBSET S PROVE IsFiniteSet(U) /\ Cardinality(U) \in Nat
    BY FS_Subset, FS_CardinalityType
<1>2. SUFFICES ASSUME ~IsFiniteSet(Area(f, T)) PROVE FALSE
    OBVIOUS
<1>3. Bad \subseteq Nat /\ Cardinality(T) \in Bad
    BY <1>1, <1>2
<1>4. PICK m \in Bad : \A k \in Bad : m <= k
    BY <1>3, Least
<1>5. PICK U \in SUBSET S : m = Cardinality(U) /\ ~IsFiniteSet(Area(f, U))
    BY <1>4
<1>6. U # {}
    BY <1>5, AreaEmpty, FS_EmptySet
<1>7. PICK x \in U : TRUE
    BY <1>6
<1>8. Cardinality(U \ {x}) = m - 1 /\ m \in Nat
    BY <1>1, <1>5, <1>7, FS_RemoveElement
<1>9. U \ {x} \in SUBSET S
    OBVIOUS
<1>10. IsFiniteSet(Area(f, U \ {x}))
    BY <1>4, <1>8, <1>9
<1> QED
    BY <1>5, <1>7, <1>10, AreaStep

SumOf(f, S) == MapThenSumSet(LAMBDA b : f[b], S)

LEMMA SumIsArea ==
    ASSUME NEW S, IsFiniteSet(S), NEW f \in [S -> Nat]
    PROVE  SumOf(f, S) = Cardinality(Area(f, S))
<1> DEFINE One(s) == CHOOSE x \in s : TRUE
           Body(g, s) == IF s = {} THEN 0 ELSE f[One(s)] + g[s \ {One(s)}]
           iter == CHOOSE g : g = [s \in SUBSET S |-> Body(g, s)]
           area == [s \in SUBSET S |-> Cardinality(Area(f, s))]
<1>1. SumOf(f, S) = iter[S]
    BY Zenon DEF SumOf, MapThenSumSet, MapThenFoldSet
<1>2. ASSUME NEW s \in SUBSET S, s # {}
      PROVE  One(s) \in s /\ s \ {One(s)} \in SUBSET S
    BY <1>2
<1>3. \A s \in SUBSET S : IsFiniteSet(Area(f, s))
    BY AreaFinite
<1>4. ASSUME NEW s \in SUBSET S PROVE area[s] = Body(area, s)
    <2>1. CASE s = {}
        BY <2>1, AreaEmpty, FS_EmptySet
    <2>2. CASE s # {}
        <3>0. One(s) \in s /\ s \ {One(s)} \in SUBSET S /\ IsFiniteSet(Area(f, s \ {One(s)}))
            BY <1>2, <1>3, <2>2
        <3>1. area[s] = f[One(s)] + Cardinality(Area(f, s \ {One(s)}))
            <4> HIDE DEF One
            <4>1. Cardinality(Area(f, s)) = f[One(s)] + Cardinality(Area(f, s \ {One(s)}))
                BY <3>0, AreaStep
            <4> QED
                BY <4>1
        <3> QED
            BY <3>1, <2>2, <1>2
    <2> QED
        BY <2>1, <2>2
<1>5. area = [s \in SUBSET S |-> Body(area, s)]
    <2> HIDE DEF Body
    <2> QED
    BY <1>4
<1>6. iter = [s \in SUBSET S |-> Body(iter, s)]
    <2> HIDE DEF Body, area
    <2> QED
        BY <1>5, Zenon
<1> HIDE DEF iter
<1>7. ASSUME NEW s \in SUBSET S PROVE iter[s] = Body(iter, s)
    <2> HIDE DEF Body
    <2> QED
        BY <1>6
<1> HIDE DEF area
<1> DEFINE Bad == {Cardinality(U) : U \in {V \in SUBSET S : iter[V] # area[V]}}
<1>8. ASSUME NEW U \in SUBSET S PROVE IsFiniteSet(U) /\ Cardinality(U) \in Nat
    BY FS_Subset, FS_CardinalityType
<1>9. ASSUME iter[S] # area[S] PROVE FALSE
    <2>1. Bad \subseteq Nat /\ Cardinality(S) \in Bad
        BY <1>8, <1>9
    <2>2. PICK m \in Bad : \A k \in Bad : m <= k
        BY <2>1, Least
    <2>3. PICK U \in SUBSET S : m = Cardinality(U) /\ iter[U] # area[U]
        BY <2>2
    <2>4. U # {}
        BY <2>3, <1>4, <1>7
    <2>5. One(U) \in U /\ U \ {One(U)} \in SUBSET S
        BY <1>2, <2>4
    <2>6. Cardinality(U \ {One(U)}) = m - 1 /\ m \in Nat
        BY <1>8, <2>3, <2>5, FS_RemoveElement
    <2>7. iter[U \ {One(U)}] = area[U \ {One(U)}]
        BY <2>2, <2>5, <2>6
    <2> QED
        BY <2>3, <2>4, <2>7, <1>4, <1>7
<1> QED
    BY <1>1, <1>9 DEF area

LEMMA SumType ==
    ASSUME NEW S, IsFiniteSet(S), NEW f \in [S -> Nat]
    PROVE  SumOf(f, S) \in Nat
BY SumIsArea, AreaFinite, FS_CardinalityType

\* One of the summands is another.
LEMMA SumChange ==
    ASSUME NEW S, IsFiniteSet(S), NEW f \in [S -> Nat], NEW g \in [S -> Nat], NEW x \in S,
           \A y \in S \ {x} : g[y] = f[y]
    PROVE  SumOf(g, S) = SumOf(f, S) - f[x] + g[x]
<1>1. f[x] \in Nat /\ g[x] \in Nat
    OBVIOUS
<1>2. Area(g, S \ {x}) = Area(f, S \ {x})
    BY DEF Area
<1>3. IsFiniteSet(Area(f, S \ {x})) /\ IsFiniteSet(Area(g, S \ {x}))
    BY AreaFinite
<1>4. Cardinality(Area(f, S \ {x})) \in Nat
    BY <1>3, FS_CardinalityType
<1>5. Cardinality(Area(f, S)) = f[x] + Cardinality(Area(f, S \ {x}))
    BY <1>3, AreaStep
<1>6. Cardinality(Area(g, S)) = g[x] + Cardinality(Area(g, S \ {x}))
    BY <1>3, AreaStep
<1>7. SumOf(f, S) = Cardinality(Area(f, S)) /\ SumOf(g, S) = Cardinality(Area(g, S))
    BY SumIsArea
<1> QED
    BY <1>1, <1>2, <1>4, <1>5, <1>6, <1>7

LEMMA SumZero ==
    ASSUME NEW S, IsFiniteSet(S), NEW f \in [S -> Nat], \A x \in S : f[x] = 0
    PROVE  SumOf(f, S) = 0
<1>1. Area(f, S) = {}
    BY DEF Area
<1> QED
    BY <1>1, SumIsArea, FS_EmptySet

-----------------------------------------------------------------------------
ZThread ==
    [do : {"nothing", "count", "uncount", "free"}, ptr : Blocks \cup {NoBlock}, oldsize : Nat]
ZType ==
    /\ size \in [Blocks -> Nat] /\ lost \in Nat
    /\ zt \in [ZThreads -> ZThread]

\* A thread between the allocator and the count has a block of its own.
Apart ==
    /\ \A th \in ZThreads : zt[th].do = "nothing" => zt[th] = Quiet
    /\ \A th \in ZThreads : zt[th].do # "nothing" => zt[th].ptr \in Blocks /\ size[zt[th].ptr] > 0
    /\ \A th \in ZThreads : zt[th].do \in {"count", "free"} => zt[th].oldsize = 0
    /\ \A th, u \in ZThreads : th # u /\ zt[th].ptr = zt[u].ptr => zt[th].ptr = NoBlock

\* c is what used_memory counts of each block: all of it, or oldsize while a
\* thread has still to correct the count.
Counts(c) ==
    /\ \A b \in Blocks : (\A th \in ZThreads : zt[th].ptr # b) => c[b] = size[b]
    /\ \A th \in ZThreads : zt[th].ptr \in Blocks => c[zt[th].ptr] = zt[th].oldsize
Counted == \E c \in [Blocks -> Nat] : Counts(c) /\ used_memory = SumOf(c, Blocks) + lost

ZmallocInv == ZType /\ Apart /\ Counted

LEMMA ZmallocInitially == ZmallocInit => ZmallocInv
<1> SUFFICES ASSUME ZmallocInit PROVE ZmallocInv
    OBVIOUS
<1> USE ZmallocAssumption DEF ZmallocInit, Quiet
<1>1. ZType
    BY DEF ZType, ZThread
<1>2. Apart
    BY DEF Apart
<1>3. Counted
    <2>1. size \in [Blocks -> Nat] /\ \A b \in Blocks : size[b] = 0
        OBVIOUS
    <2>2. SumOf(size, Blocks) = 0
        BY <2>1, SumZero
    <2>3. Counts(size)
        BY DEF Counts
    <2> QED
        BY <2>1, <2>2, <2>3 DEF Counted
<1> QED
    BY <1>1, <1>2, <1>3 DEF ZmallocInv

LEMMA AllocKeeps ==
    ASSUME ZmallocInv, NEW th \in ZThreads, NEW b \in Blocks, NEW s \in Sizes, Alloc(th, b, s)
    PROVE  ZmallocInv'
<1> USE ZmallocAssumption DEF ZmallocInv, Alloc, Resize, ZSet
<1>1. ZType'
    BY DEF ZType, ZThread
<1>2. \A u \in ZThreads : zt[u].ptr # b
    BY DEF Apart, Quiet, ZType
<1>3. Apart'
    BY <1>2 DEF Apart, Quiet, ZType, ZThread
<1>4. PICK c \in [Blocks -> Nat] : Counts(c) /\ used_memory = SumOf(c, Blocks) + lost
    BY DEF Counted
<1>5. Counts(c)'
    BY <1>2, <1>4 DEF Counts, Quiet, ZType, ZThread
<1> QED
    BY <1>1, <1>3, <1>4, <1>5 DEF Counted

LEMMA CountKeeps ==
    ASSUME ZmallocInv, NEW th \in ZThreads, Count(th)
    PROVE  ZmallocInv'
<1> USE ZmallocAssumption DEF ZmallocInv, Count
<1> DEFINE b == zt[th].ptr
<1>1. b \in Blocks /\ zt[th].oldsize = 0 /\ size[b] \in Nat
    BY DEF Apart, ZType, ZThread
<1>2. ZType'
    BY DEF ZType, ZThread, Quiet
<1>3. Apart'
    BY DEF Apart, Quiet, ZType, ZThread
<1>4. PICK c \in [Blocks -> Nat] : Counts(c) /\ used_memory = SumOf(c, Blocks) + lost
    BY DEF Counted
<1>5. c[b] = 0
    BY <1>1, <1>4 DEF Counts
<1>6. PICK d \in [Blocks -> Nat] : d = [c EXCEPT ![b] = size[b]]
    BY <1>1
<1>61. SumOf(d, Blocks) = SumOf(c, Blocks) - c[b] + size[b]
    <2>1. d[b] = size[b] /\ \A y \in Blocks \ {b} : d[y] = c[y]
        BY <1>1, <1>6
    <2> HIDE DEF b
    <2> QED
        BY <1>1, <2>1, SumChange
<1>7. Counts(d)'
    BY <1>1, <1>4, <1>6 DEF Counts, Apart, Quiet, ZType, ZThread
<1>8. SumOf(c, Blocks) \in Nat /\ lost \in Nat
    BY SumType DEF ZType
<1>9. used_memory' = SumOf(d, Blocks) + lost'
    BY <1>1, <1>4, <1>5, <1>61, <1>8
<1> QED
    BY <1>2, <1>3, <1>7, <1>9 DEF Counted

LEMMA ReallocKeeps ==
    ASSUME ZmallocInv, NEW th \in ZThreads, NEW b \in Blocks, NEW d \in Blocks, NEW s \in Sizes,
           Realloc(th, b, d, s)
    PROVE  ZmallocInv'
<1> USE ZmallocAssumption DEF ZmallocInv, Realloc, ReallocFrom, ZSet
<1>1. /\ \A u \in ZThreads : zt[u].ptr # b /\ zt[u].ptr # d
      /\ size[b] \in Nat /\ size[b] > 0
    BY DEF Apart, Quiet, ZType, Live
<1>2. ZType'
    BY DEF ZType, ZThread
<1>3. Apart'
    BY <1>1 DEF Apart, Quiet, ZType, ZThread
<1>4. PICK c \in [Blocks -> Nat] : Counts(c) /\ used_memory = SumOf(c, Blocks) + lost
    BY DEF Counted
<1>5. c[b] = size[b] /\ (d # b => c[d] = 0)
    BY <1>1, <1>4 DEF Counts
<1>6. PICK c1 \in [Blocks -> Nat] : c1 = [c EXCEPT ![b] = 0]
    OBVIOUS
<1>7. PICK c2 \in [Blocks -> Nat] : c2 = [c1 EXCEPT ![d] = size[b]]
    BY <1>1
<1>8. SumOf(c1, Blocks) = SumOf(c, Blocks) - c[b] + 0
    <2>1. c1[b] = 0 /\ \A y \in Blocks \ {b} : c1[y] = c[y]
        BY <1>6
    <2> QED
        BY <2>1, SumChange
<1>9. SumOf(c2, Blocks) = SumOf(c1, Blocks) - 0 + size[b]
    <2>1. c1[d] = 0 /\ c2[d] = size[b] /\ \A y \in Blocks \ {d} : c2[y] = c1[y]
        BY <1>5, <1>6, <1>7
    <2> QED
        BY <2>1, SumChange
<1>10. SumOf(c, Blocks) \in Nat /\ lost \in Nat
    BY SumType DEF ZType
<1>11. used_memory' = SumOf(c2, Blocks) + lost'
    BY <1>1, <1>4, <1>5, <1>8, <1>9, <1>10
<1>12. Counts(c2)'
    BY <1>1, <1>4, <1>5, <1>6, <1>7 DEF Counts, Quiet, ZType, ZThread
<1> QED
    BY <1>2, <1>3, <1>11, <1>12 DEF Counted

LEMMA UncountKeeps ==
    ASSUME ZmallocInv, NEW th \in ZThreads, Uncount(th)
    PROVE  ZmallocInv'
<1> USE ZmallocAssumption DEF ZmallocInv, Uncount, ZSet
<1> DEFINE b == zt[th].ptr
           old == zt[th].oldsize
<1>1. b \in Blocks /\ old \in Nat
    BY DEF Apart, ZType, ZThread
<1>2. ZType'
    BY <1>1 DEF ZType, ZThread, Quiet
<1>3. Apart'
    BY <1>1 DEF Apart, Quiet, ZType, ZThread
<1>4. PICK c \in [Blocks -> Nat] : Counts(c) /\ used_memory = SumOf(c, Blocks) + lost
    BY DEF Counted
<1>5. c[b] = old
    BY <1>1, <1>4 DEF Counts
<1>6. PICK d \in [Blocks -> Nat] : d = [c EXCEPT ![b] = 0]
    BY <1>1
<1>61. SumOf(d, Blocks) = SumOf(c, Blocks) - c[b] + 0
    <2>1. d[b] = 0 /\ \A y \in Blocks \ {b} : d[y] = c[y]
        BY <1>1, <1>6
    <2> HIDE DEF b
    <2> QED
        BY <1>1, <2>1, SumChange
<1>7. Counts(d)'
    BY <1>1, <1>4, <1>6 DEF Counts, Apart, Quiet, ZType, ZThread
<1>8. SumOf(c, Blocks) \in Nat /\ lost \in Nat
    BY SumType DEF ZType
<1>9. used_memory' = SumOf(d, Blocks) + lost'
    BY <1>1, <1>4, <1>5, <1>61, <1>8
<1> QED
    BY <1>2, <1>3, <1>7, <1>9 DEF Counted

LEMMA ZfreeKeeps ==
    ASSUME ZmallocInv, NEW th \in ZThreads, NEW b \in Blocks, Zfree(th, b)
    PROVE  ZmallocInv'
<1> USE ZmallocAssumption DEF ZmallocInv, Zfree, ZSet
<1>1. size[b] \in Nat /\ size[b] > 0 /\ \A u \in ZThreads : zt[u].ptr # b
    BY DEF Live, ZType
<1>2. ZType'
    BY <1>1 DEF ZType, ZThread, Quiet
<1>3. Apart'
    BY <1>1 DEF Apart, Quiet, ZType, ZThread
<1>4. PICK c \in [Blocks -> Nat] : Counts(c) /\ used_memory = SumOf(c, Blocks) + lost
    BY DEF Counted
<1>5. c[b] = size[b]
    BY <1>1, <1>4 DEF Counts
<1>6. PICK d \in [Blocks -> Nat] : d = [c EXCEPT ![b] = 0]
    OBVIOUS
<1>61. SumOf(d, Blocks) = SumOf(c, Blocks) - c[b] + 0
    <2>1. d[b] = 0 /\ \A y \in Blocks \ {b} : d[y] = c[y]
        BY <1>6
    <2> QED
        BY <2>1, SumChange
<1>7. Counts(d)'
    BY <1>1, <1>4, <1>6 DEF Counts, Quiet, ZType, ZThread
<1>8. SumOf(c, Blocks) \in Nat /\ lost \in Nat
    BY SumType DEF ZType
<1>9. used_memory' = SumOf(d, Blocks) + lost'
    BY <1>1, <1>4, <1>5, <1>61, <1>8
<1> QED
    BY <1>2, <1>3, <1>7, <1>9 DEF Counted

LEMMA FreeKeeps ==
    ASSUME ZmallocInv, NEW th \in ZThreads, Free(th)
    PROVE  ZmallocInv'
<1> USE ZmallocAssumption DEF ZmallocInv, Free, Resize
<1>1. zt[th].ptr \in Blocks /\ zt[th].oldsize = 0
    BY DEF Apart
<1>2. ZType'
    BY DEF ZType, ZThread, Quiet
<1>3. Apart'
    BY <1>1 DEF Apart, Quiet, ZType, ZThread
<1>4. PICK c \in [Blocks -> Nat] : Counts(c) /\ used_memory = SumOf(c, Blocks) + lost
    BY DEF Counted
<1>5. Counts(c)'
    BY <1>1, <1>4 DEF Counts, Quiet, ZType, ZThread
<1> QED
    BY <1>2, <1>3, <1>4, <1>5 DEF Counted

LEMMA FreeStateKeeps ==
    ASSUME ZmallocInv, NEW th \in ZThreads, NEW b \in Blocks, FreeState(th, b)
    PROVE  ZmallocInv'
<1> USE ZmallocAssumption DEF ZmallocInv, FreeState, Resize
<1>1. size[b] \in Nat /\ \A u \in ZThreads : zt[u].ptr # b
    BY DEF Live, ZType
<1>2. ZType'
    BY <1>1 DEF ZType
<1>3. Apart'
    BY <1>1 DEF Apart, ZType, ZThread
<1>4. PICK c \in [Blocks -> Nat] : Counts(c) /\ used_memory = SumOf(c, Blocks) + lost
    BY DEF Counted
<1>5. c[b] = size[b]
    BY <1>1, <1>4 DEF Counts
<1>6. PICK d \in [Blocks -> Nat] : d = [c EXCEPT ![b] = 0]
    OBVIOUS
<1>61. SumOf(d, Blocks) = SumOf(c, Blocks) - c[b] + 0
    <2>1. d[b] = 0 /\ \A y \in Blocks \ {b} : d[y] = c[y]
        BY <1>6
    <2> QED
        BY <2>1, SumChange
<1>7. Counts(d)'
    BY <1>1, <1>4, <1>6 DEF Counts, ZType, ZThread
<1>8. SumOf(c, Blocks) \in Nat /\ lost \in Nat
    BY SumType DEF ZType
<1>9. used_memory' = SumOf(d, Blocks) + lost'
    BY <1>1, <1>4, <1>5, <1>61, <1>8
<1> QED
    BY <1>2, <1>3, <1>7, <1>9 DEF Counted

LEMMA CountExact == ZmallocInv => UsedExact
<1> SUFFICES ASSUME ZmallocInv PROVE UsedExact
    OBVIOUS
<1>1. PICK c \in [Blocks -> Nat] : Counts(c) /\ used_memory = SumOf(c, Blocks) + lost
    BY DEF ZmallocInv, Counted
<1>2. SumOf(c, Blocks) \in Nat /\ lost \in Nat
    BY SumType, ZmallocAssumption DEF ZmallocInv, ZType
<1>3. ASSUME \A th \in ZThreads : zt[th] = Quiet
      PROVE  c = size
    BY <1>1, <1>3, ZmallocAssumption DEF Counts, Quiet, ZmallocInv, ZType
<1>4. SizeOf(Blocks) = SumOf(size, Blocks)
    BY DEF SizeOf, SumOf
<1> QED
    BY <1>1, <1>2, <1>3, <1>4 DEF UsedExact

\* UsedExact holds of every behaviour, for any number of threads and blocks: the
\* allocator and update_zmalloc_stat_alloc or _free are separate steps, which
\* threads interleave, and still used_memory never wraps and never drifts.
THEOREM UsedMemoryExact == ZmallocSpec => []UsedExact
<1>1. ZmallocInv /\ [ZmallocNext]_zvars => ZmallocInv'
    <2> SUFFICES ASSUME ZmallocInv, [ZmallocNext]_zvars PROVE ZmallocInv'
        OBVIOUS
    <2>1. CASE UNCHANGED zvars
        BY <2>1 DEF zvars, ZmallocInv, ZType, Apart, Counted, Counts
    <2>2. CASE ZmallocNext
        BY <2>2, AllocKeeps, CountKeeps, ReallocKeeps, UncountKeeps, ZfreeKeeps, FreeKeeps,
           FreeStateKeeps DEF ZmallocNext
    <2> QED
        BY <2>1, <2>2
<1> QED
    BY <1>1, ZmallocInitially, CountExact, PTL DEF ZmallocSpec

-----------------------------------------------------------------------------
(* The directory of the store.                                             *)

IsKept(f, done, path, K, n) ==
    f = [i \in 0..n |-> IF i = 0 THEN done
                        ELSE IF i \in K THEN Append(f[i - 1], path[i]) ELSE f[i - 1]]

LEMMA KeptOf ==
    ASSUME NEW f, NEW done, NEW path, NEW K, NEW n \in Nat, IsKept(f, done, path, K, n)
    PROVE  /\ DOMAIN f = 0..n
           /\ f[0] = done
           /\ \A i \in 1..n : f[i] = IF i \in K THEN Append(f[i - 1], path[i]) ELSE f[i - 1]
<1> DEFINE R(i) == IF i = 0 THEN done ELSE IF i \in K THEN Append(f[i - 1], path[i]) ELSE f[i - 1]
<1>1. f = [i \in 0..n |-> R(i)]
    BY DEF IsKept
<1>2. R(0) = done
    OBVIOUS
<1>3. \A i \in 1..n : R(i) = IF i \in K THEN Append(f[i - 1], path[i]) ELSE f[i - 1]
    OBVIOUS
<1> HIDE DEF R
<1>4. DOMAIN f = 0..n /\ \A i \in 0..n : f[i] = R(i)
    BY <1>1
<1>5. 0 \in 0..n /\ \A i \in 1..n : i \in 0..n
    OBVIOUS
<1> QED
    BY <1>2, <1>3, <1>4, <1>5

LEMMA IsKeptBy ==
    ASSUME NEW n \in Nat, NEW f, NEW done, NEW path, NEW K,
           f = [i \in 0..n |-> f[i]], f[0] = done,
           \A i \in 1..n : f[i] = IF i \in K THEN Append(f[i - 1], path[i]) ELSE f[i - 1]
    PROVE  IsKept(f, done, path, K, n)
<1> DEFINE R(i) == IF i = 0 THEN done ELSE IF i \in K THEN Append(f[i - 1], path[i]) ELSE f[i - 1]
<1>1. \A i \in 0..n : f[i] = R(i)
    <2> TAKE i \in 0..n
    <2>1. CASE i = 0
        BY <2>1
    <2>2. CASE i # 0
        <3>1. i \in 1..n
            BY <2>2
        <3> QED
            BY <2>2, <3>1
    <2> QED
        BY <2>1, <2>2
<1>2. [i \in 0..n |-> f[i]] = [i \in 0..n |-> R(i)]
    <2> HIDE DEF R
    <2> QED
        BY <1>1
<1> QED
    BY <1>2 DEF IsKept

LEMMA KeptExists ==
    ASSUME NEW done, NEW path, NEW K, NEW N \in Nat
    PROVE  \E f : IsKept(f, done, path, K, N)
<1> DEFINE Bad == {n \in Nat : ~\E f : IsKept(f, done, path, K, n)}
<1> SUFFICES ASSUME Bad # {} PROVE FALSE
    OBVIOUS
<1>1. PICK n \in Bad : \A k \in Bad : n <= k
    <2>1. Bad \in SUBSET Nat
        OBVIOUS
    <2> QED
        BY <2>1, Least
<1>2. n \in Nat /\ ~\E f : IsKept(f, done, path, K, n)
    BY <1>1
<1>3. CASE n = 0
    <2> DEFINE f == [i \in 0..n |-> done]
    <2>1. f = [i \in 0..n |-> f[i]] /\ f[0] = done
        BY <1>3
    <2>2. \A i \in 1..n : FALSE
        BY <1>3
    <2> HIDE DEF f
    <2>3. IsKept(f, done, path, K, n)
        BY <1>2, <2>1, <2>2, IsKeptBy
    <2> QED
        BY <1>2, <2>3
<1>4. CASE n # 0
    <2>1. n - 1 \in Nat /\ n - 1 \notin Bad
        BY <1>1, <1>2, <1>4
    <2>2. PICK g : IsKept(g, done, path, K, n - 1)
        BY <2>1
    <2>3. /\ g[0] = done
          /\ \A i \in 1..(n - 1) : g[i] = IF i \in K THEN Append(g[i - 1], path[i]) ELSE g[i - 1]
        BY <2>1, <2>2, KeptOf
    <2> DEFINE new == IF n \in K THEN Append(g[n - 1], path[n]) ELSE g[n - 1]
               f == [i \in 0..n |-> IF i = n THEN new ELSE g[i]]
    <2>4. f = [i \in 0..n |-> f[i]] /\ f[n] = new /\ \A i \in 0..(n - 1) : f[i] = g[i]
        BY <1>2
    <2> HIDE DEF f
    <2>5. f[0] = done
        BY <1>2, <1>4, <2>3, <2>4
    <2>6. ASSUME NEW i \in 1..n
          PROVE  f[i] = IF i \in K THEN Append(f[i - 1], path[i]) ELSE f[i - 1]
        <3>0. i - 1 \in 0..(n - 1)
            BY <1>2
        <3>1. i - 1 \in 0..(n - 1) /\ f[i - 1] = g[i - 1]
            BY <2>4, <3>0
        <3>2. CASE i = n
            BY <2>4, <3>1, <3>2
        <3>3. CASE i # n
            <4>1. i \in 1..(n - 1) /\ i \in 0..(n - 1)
                BY <1>2, <3>3
            <4> QED
                BY <2>3, <2>4, <3>1, <4>1
        <3> QED
            BY <3>2, <3>3
    <2>7. IsKept(f, done, path, K, n)
        BY <1>2, <2>4, <2>5, <2>6, IsKeptBy
    <2> QED
        BY <1>2, <2>7
<1> QED
    BY <1>3, <1>4

LEMMA KeepingKept ==
    ASSUME NEW done, NEW path, NEW K, Len(path) \in Nat
    PROVE  \E f : IsKept(f, done, path, K, Len(path)) /\ Keeping(done, path, K) = f[Len(path)]
<1> DEFINE Is(f) == f = [i \in 0..Len(path) |->
                            IF i = 0 THEN done
                            ELSE IF i \in K THEN Append(f[i - 1], path[i]) ELSE f[i - 1]]
           kept == CHOOSE f : Is(f)
<1>0. \E f : IsKept(f, done, path, K, Len(path))
    BY KeptExists
<1>1. \E f : Is(f)
    BY <1>0, Zenon DEF IsKept
<1>2. Is(kept)
    BY <1>1, Zenon
<1>3. Keeping(done, path, K) = kept[Len(path)]
    BY Zenon DEF Keeping
<1> QED
    BY <1>2, <1>3 DEF IsKept

\* What is kept of an empty path, and of one that is longer by an element.
LEMMA KeepingNone ==
    ASSUME NEW done, NEW K PROVE Keeping(done, <<>>, K) = done
<1>1. PICK f : IsKept(f, done, <<>>, K, Len(<<>>)) /\ Keeping(done, <<>>, K) = f[Len(<<>>)]
    BY KeepingKept
<1> QED
    BY <1>1, KeptOf

Agree(path, K, L) == \A i \in 1..Len(path) : i \in K <=> i \in L
KeepsMore(done, path, x, K, L) ==
    /\ Len(path) + 1 \in K => Keeping(done, Append(path, x), K) = Append(Keeping(done, path, L), x)
    /\ Len(path) + 1 \notin K => Keeping(done, Append(path, x), K) = Keeping(done, path, L)

LEMMA KeepingMore ==
    ASSUME NEW done, NEW path \in Seq(Elements), NEW x \in Elements, NEW K, NEW L,
           Agree(path, K, L)
    PROVE  KeepsMore(done, path, x, K, L)
<1> USE DEF Agree, KeepsMore
<1>n. PICK n \in Nat : n = Len(path)
    BY LenProperties
<1>1. PICK q \in Seq(Elements) : q = Append(path, x)
    BY AppendProperties
<1>2. Len(q) = n + 1 /\ q[n + 1] = x /\ \A i \in 1..n : q[i] = path[i]
    BY <1>n, <1>1, AppendProperties
<1>3. PICK f : IsKept(f, done, q, K, n + 1) /\ Keeping(done, q, K) = f[n + 1]
    BY <1>n, <1>2, KeepingKept
<1>4. PICK g : IsKept(g, done, path, L, n) /\ Keeping(done, path, L) = g[n]
    BY <1>n, KeepingKept
<1>5. /\ f[0] = done
      /\ \A i \in 1..(n + 1) : f[i] = IF i \in K THEN Append(f[i - 1], q[i]) ELSE f[i - 1]
    BY <1>n, <1>3, KeptOf
<1>6. /\ g[0] = done
      /\ \A i \in 1..n : g[i] = IF i \in L THEN Append(g[i - 1], path[i]) ELSE g[i - 1]
    BY <1>n, <1>4, KeptOf
<1>7. \A i \in 0..n : f[i] = g[i]
    <2> DEFINE Bad == {i \in 0..n : f[i] # g[i]}
    <2> SUFFICES ASSUME Bad # {} PROVE FALSE
        OBVIOUS
    <2>1. PICK m \in Bad : \A k \in Bad : m <= k
        <3>1. Bad \in SUBSET Nat
            BY <1>n
        <3> QED
            BY <3>1, Least
    <2>2. m # 0
        BY <1>5, <1>6, <2>1
    <2>3. m \in 1..n /\ m - 1 \in 0..n /\ m - 1 \notin Bad /\ m \in 1..(n + 1)
        BY <1>n, <2>1, <2>2
    <2>4. f[m - 1] = g[m - 1] /\ q[m] = path[m] /\ (m \in K <=> m \in L)
        BY <1>n, <1>2, <2>3
    <2> QED
        BY <1>5, <1>6, <2>1, <2>3, <2>4
<1>8. n + 1 \in 1..(n + 1) /\ n + 1 - 1 = n /\ f[n] = g[n]
    BY <1>n, <1>7
<1>9. f[n + 1] = IF n + 1 \in K THEN Append(g[n], x) ELSE g[n]
    BY <1>2, <1>5, <1>8
<1> QED
    BY <1>n, <1>1, <1>3, <1>4, <1>9

\* Target, from a given start, of a sequence of elements.
Resolved(base, path) ==
    Keeping(<<base>>, path, {i \in 1..Len(path) : path[i] \notin {Sep, "."}})

LEMMA ResolvedMore ==
    ASSUME NEW base, NEW path \in Seq(Elements), NEW x \in Elements
    PROVE  Resolved(base, Append(path, x)) =
           IF x \in {Sep, "."} THEN Resolved(base, path) ELSE Append(Resolved(base, path), x)
<1>n. PICK n \in Nat : n = Len(path)
    BY LenProperties
<1>1. PICK q \in Seq(Elements) : q = Append(path, x)
    BY AppendProperties
<1>2. Len(q) = n + 1 /\ q[n + 1] = x /\ \A i \in 1..n : q[i] = path[i]
    BY <1>n, <1>1, AppendProperties
<1> DEFINE K == {i \in 1..Len(q) : q[i] \notin {Sep, "."}}
           L == {i \in 1..Len(path) : path[i] \notin {Sep, "."}}
<1>3. Agree(path, K, L)
    BY <1>n, <1>2 DEF Agree
<1>4. n + 1 \in K <=> x \notin {Sep, "."}
    BY <1>n, <1>2
<1>5. Resolved(base, q) = Keeping(<<base>>, q, K) /\ Resolved(base, path) = Keeping(<<base>>, path, L)
    BY DEF Resolved
<1> HIDE DEF K, L
<1>6. KeepsMore(<<base>>, path, x, K, L)
    BY <1>3, KeepingMore
<1> QED
    BY <1>n, <1>1, <1>4, <1>5, <1>6 DEF KeepsMore

LEMMA NormalizeMore ==
    ASSUME NEW path \in Seq(Elements), NEW x \in Elements
    PROVE  path_normalize(Append(path, x)) =
           IF x # Sep \/ Len(path) = 0 \/ path[Len(path)] # Sep
           THEN Append(path_normalize(path), x) ELSE path_normalize(path)
<1>n. PICK n \in Nat : n = Len(path)
    BY LenProperties
<1>1. PICK q \in Seq(Elements) : q = Append(path, x)
    BY AppendProperties
<1>2. Len(q) = n + 1 /\ q[n + 1] = x /\ \A i \in 1..n : q[i] = path[i]
    BY <1>n, <1>1, AppendProperties
<1>3. PICK K : K = FirstOfRow(q)
    OBVIOUS
<1>4. PICK L : L = FirstOfRow(path)
    OBVIOUS
<1>5. ASSUME NEW i \in 1..n PROVE i \in K <=> i \in L
    <2>1. i \in 1..(n + 1) /\ q[i] = path[i]
        BY <1>n, <1>2
    <2>2. CASE i = 1
        BY <1>n, <1>2, <1>3, <1>4, <2>1, <2>2 DEF FirstOfRow
    <2>3. CASE i # 1
        <3>1. i - 1 \in 1..n /\ q[i - 1] = path[i - 1]
            <4>1. i - 1 \in 1..n
                BY <2>3
            <4> QED
                BY <1>2, <4>1
        <3> QED
            BY <1>n, <1>2, <1>3, <1>4, <2>1, <3>1 DEF FirstOfRow
    <2> QED
        BY <2>2, <2>3
<1>6. n + 1 \in K <=> x # Sep \/ n = 0 \/ path[n] # Sep
    <2>1. n + 1 \in K <=> (x # Sep \/ n + 1 = 1 \/ q[n] # Sep)
        <3>1. n + 1 - 1 = n /\ n + 1 \in 1..(n + 1)
            OBVIOUS
        <3> QED
            BY <1>2, <1>3, <3>1 DEF FirstOfRow
    <2>2. CASE n = 0
        BY <2>1, <2>2
    <2>3. CASE n # 0
        <3>1. q[n] = path[n]
            BY <1>2, <2>3
        <3> QED
            BY <2>1, <2>3, <3>1
    <2> QED
        BY <2>2, <2>3
<1>7. KeepsMore(<<>>, path, x, K, L)
    <2>1. Agree(path, K, L)
        BY <1>n, <1>5 DEF Agree
    <2> QED
        BY <2>1, KeepingMore
<1>8. path_normalize(q) = Keeping(<<>>, q, K) /\ path_normalize(path) = Keeping(<<>>, path, L)
    BY <1>3, <1>4 DEF path_normalize
<1> QED
    BY <1>n, <1>1, <1>6, <1>7, <1>8 DEF KeepsMore

LEMMA BothNone ==
    /\ path_normalize(<<>>) = <<>>
    /\ \A base : Resolved(base, <<>>) = <<base>>
BY KeepingNone DEF path_normalize, Resolved

\* A path that is not empty ends with an element.
LEMMA Grown ==
    ASSUME NEW path \in Seq(Elements), path # <<>>
    PROVE  \E a \in Seq(Elements) : \E x \in Elements :
               /\ path = Append(a, x) /\ Len(path) = Len(a) + 1
               /\ \A i \in 1..Len(a) : path[i] = a[i]
               /\ a = SubSeq(path, 1, Len(path) - 1)
<1>1. PICK n \in Nat : n = Len(path)
    BY LenProperties
<1>2. n # 0
    BY <1>1, EmptySeq
<1> DEFINE a == SubSeq(path, 1, n - 1)
<1>3. a \in Seq(Elements) /\ Len(a) = n - 1 /\ \A i \in 1..(n - 1) : a[i] = path[i]
    BY <1>1, <1>2, SubSeqProperties
<1>4. path[n] \in Elements
    BY <1>1, <1>2, ElementOfSeq
<1>5. /\ Append(a, path[n]) \in Seq(Elements) /\ Len(Append(a, path[n])) = n
      /\ Append(a, path[n])[n] = path[n]
      /\ \A i \in 1..(n - 1) : Append(a, path[n])[i] = path[i]
    BY <1>2, <1>3, <1>4, AppendProperties
<1>6. \A i \in 1..n : Append(a, path[n])[i] = path[i]
    BY <1>2, <1>5
<1>7. Append(a, path[n]) = path
    BY <1>1, <1>5, <1>6, SeqEqual
<1>8. a = SubSeq(path, 1, Len(path) - 1) /\ Len(path) = Len(a) + 1
    BY <1>1, <1>2, <1>3
<1>9. \A i \in 1..Len(a) : path[i] = a[i]
    BY <1>3
<1> HIDE DEF a
<1> QED
    BY <1>3, <1>4, <1>7, <1>8, <1>9

LEMMA SpelledShorter ==
    ASSUME NEW path \in Seq(Elements), NEW x \in Elements, Spelled(Append(path, x))
    PROVE  Spelled(path) /\ (Len(path) = 0 \/ path[Len(path)] = Sep \/ x = Sep)
<1>n. PICK n \in Nat : n = Len(path)
    BY LenProperties
<1>1. PICK q \in Seq(Elements) : q = Append(path, x)
    BY AppendProperties
<1>2. Len(q) = n + 1 /\ q[n + 1] = x /\ \A i \in 1..n : q[i] = path[i]
    BY <1>n, <1>1, AppendProperties
<1>3. \A i \in 1..n : q[i] = Sep \/ q[i + 1] = Sep
    BY <1>1, <1>2 DEF Spelled
<1>4. ASSUME NEW i \in 1..(n - 1) PROVE path[i] = Sep \/ path[i + 1] = Sep
    <2>1. i \in 1..n /\ i + 1 \in 1..n
        BY <1>n
    <2> QED
        BY <1>2, <1>3, <2>1
<1>5. n = 0 \/ path[n] = Sep \/ x = Sep
    <2>1. CASE n = 0
        BY <2>1
    <2>2. CASE n # 0
        <3>1. n \in 1..n
            BY <2>2
        <3> QED
            BY <1>2, <1>3, <3>1
    <2> QED
        BY <2>1, <2>2
<1> QED
    BY <1>n, <1>4, <1>5 DEF Spelled

LEMMA SpelledLonger ==
    ASSUME NEW path \in Seq(Elements), NEW x \in Elements, Spelled(path),
           Len(path) = 0 \/ path[Len(path)] = Sep \/ x = Sep
    PROVE  Spelled(Append(path, x))
<1>n. PICK n \in Nat : n = Len(path)
    BY LenProperties
<1>1. PICK q \in Seq(Elements) : q = Append(path, x)
    BY AppendProperties
<1>2. Len(q) = n + 1 /\ q[n + 1] = x /\ \A i \in 1..n : q[i] = path[i]
    BY <1>n, <1>1, AppendProperties
<1>3. ASSUME NEW i \in 1..n PROVE q[i] = Sep \/ q[i + 1] = Sep
    <2>1. CASE i = n
        BY <1>n, <1>2, <2>1
    <2>2. CASE i # n
        <3>1. i \in 1..(n - 1) /\ i + 1 \in 1..n
            BY <1>n, <2>2
        <3> QED
            BY <1>n, <1>2, <3>1 DEF Spelled
    <2> QED
        BY <2>1, <2>2
<1> QED
    BY <1>1, <1>2, <1>3 DEF Spelled

\* What path_normalize keeps of a path.
Normalized(path, q) ==
    /\ q \in Seq(Elements) /\ Spelled(q)
    /\ Len(q) = 0 <=> Len(path) = 0
    /\ Len(path) # 0 => q[1] = path[1] /\ q[Len(q)] = path[Len(path)]
    /\ \A base : Resolved(base, q) = Resolved(base, path)
IsNormalized(path) == Spelled(path) => Normalized(path, path_normalize(path))

LEMMA NormalizedMore ==
    ASSUME NEW path \in Seq(Elements), NEW x \in Elements, IsNormalized(path)
    PROVE  IsNormalized(Append(path, x))
<1> SUFFICES ASSUME Spelled(Append(path, x))
             PROVE  Normalized(Append(path, x), path_normalize(Append(path, x)))
    BY DEF IsNormalized
<1>n. PICK n \in Nat : n = Len(path)
    BY LenProperties
<1>1. Spelled(path) /\ (n = 0 \/ path[n] = Sep \/ x = Sep)
    BY <1>n, SpelledShorter
<1>2. PICK q : q = path_normalize(path)
    OBVIOUS
<1>3. Normalized(path, q)
    BY <1>1, <1>2 DEF IsNormalized
<1>4. PICK l \in Nat : l = Len(q)
    BY <1>3, LenProperties DEF Normalized
<1>5. q \in Seq(Elements) /\ Spelled(q) /\ (l = 0 <=> n = 0)
    BY <1>n, <1>3, <1>4 DEF Normalized
<1>6. n # 0 => q[1] = path[1] /\ q[l] = path[n]
    BY <1>n, <1>3, <1>4 DEF Normalized
<1>7. PICK r \in Seq(Elements) : r = Append(path, x)
    BY AppendProperties
<1>8. Len(r) = n + 1 /\ r[n + 1] = x /\ \A i \in 1..n : r[i] = path[i]
    BY <1>n, <1>7, AppendProperties
<1>9. CASE x # Sep \/ n = 0 \/ path[n] # Sep
    <2>1. PICK w \in Seq(Elements) : w = Append(q, x)
        BY <1>5, AppendProperties
    <2>2. Len(w) = l + 1 /\ w[l + 1] = x /\ \A i \in 1..l : w[i] = q[i]
        BY <1>4, <1>5, <2>1, AppendProperties
    <2>3. path_normalize(r) = w
        BY <1>n, <1>2, <1>7, <1>9, <2>1, NormalizeMore
    <2>4. Spelled(w)
        <3>1. Len(q) = 0 \/ q[Len(q)] = Sep \/ x = Sep
            BY <1>1, <1>4, <1>5, <1>6
        <3> QED
            BY <1>5, <2>1, <3>1, SpelledLonger
    <2>5. w[1] = r[1]
        <3>1. CASE n = 0
            BY <1>5, <1>8, <2>2, <3>1
        <3>2. CASE n # 0
            <4>1. 1 \in 1..n /\ 1 \in 1..l
                BY <1>5, <3>2
            <4> QED
                BY <1>6, <1>8, <2>2, <3>2, <4>1
        <3> QED
            BY <3>1, <3>2
    <2>6. ASSUME NEW base PROVE Resolved(base, w) = Resolved(base, r)
        <3>1. Resolved(base, q) = Resolved(base, path)
            BY <1>3 DEF Normalized
        <3>2. Resolved(base, w) = IF x \in {Sep, "."} THEN Resolved(base, q)
                                  ELSE Append(Resolved(base, q), x)
            BY <1>5, <2>1, ResolvedMore
        <3>3. Resolved(base, r) = IF x \in {Sep, "."} THEN Resolved(base, path)
                                  ELSE Append(Resolved(base, path), x)
            BY <1>7, ResolvedMore
        <3> QED
            BY <3>1, <3>2, <3>3
    <2>7. Normalized(r, w)
        BY <1>8, <2>1, <2>2, <2>4, <2>5, <2>6 DEF Normalized
    <2> QED
        BY <1>7, <2>3, <2>7
<1>10. CASE ~(x # Sep \/ n = 0 \/ path[n] # Sep)
    <2>1. path_normalize(r) = q
        BY <1>n, <1>2, <1>7, <1>10, NormalizeMore
    <2>2. ASSUME NEW base PROVE Resolved(base, q) = Resolved(base, r)
        <3>1. Resolved(base, q) = Resolved(base, path)
            BY <1>3 DEF Normalized
        <3>2. Resolved(base, r) = Resolved(base, path)
            <4>1. x \in {Sep, "."}
                BY <1>10
            <4> QED
                BY <1>7, <4>1, ResolvedMore
        <3> QED
            BY <3>1, <3>2
    <2>3. q[1] = r[1] /\ q[l] = r[n + 1]
        <3>1. 1 \in 1..n
            BY <1>10
        <3> QED
            BY <1>6, <1>8, <1>10, <3>1
    <2>4. Normalized(r, q)
        BY <1>4, <1>5, <1>8, <1>10, <2>2, <2>3 DEF Normalized
    <2> QED
        BY <1>7, <2>1, <2>4
<1> QED
    BY <1>9, <1>10

LEMMA NormalizeKeeps ==
    ASSUME NEW path \in Seq(Elements) PROVE IsNormalized(path)
<1> DEFINE Bad == {n \in Nat : \E s \in Seq(Elements) : Len(s) = n /\ ~IsNormalized(s)}
<1>1. SUFFICES ASSUME ~IsNormalized(path) PROVE FALSE
    OBVIOUS
<1>2. PICK n \in Bad : \A k \in Bad : n <= k
    <2>1. Bad \in SUBSET Nat
        OBVIOUS
    <2>2. Len(path) \in Bad
        BY <1>1, LenProperties
    <2> HIDE DEF Bad
    <2> QED
        BY <2>1, <2>2, Least
<1>3. PICK s \in Seq(Elements) : Len(s) = n /\ ~IsNormalized(s)
    BY <1>2
<1>4. CASE s = <<>>
    <2>1. IsNormalized(<<>>)
        BY BothNone DEF IsNormalized, Normalized, Spelled
    <2> QED
        BY <1>3, <1>4, <2>1
<1>5. CASE s # <<>>
    <2>1. PICK a \in Seq(Elements) : \E x \in Elements : s = Append(a, x) /\ Len(s) = Len(a) + 1
        BY <1>5, Grown
    <2>2. PICK x \in Elements : s = Append(a, x) /\ Len(s) = Len(a) + 1
        BY <2>1
    <2>3. PICK m \in Nat : m = Len(a)
        BY LenProperties
    <2>4. m \notin Bad
        BY <1>2, <1>3, <2>2, <2>3
    <2>5. IsNormalized(a)
        BY <2>3, <2>4
    <2> QED
        BY <1>3, <2>2, <2>5, NormalizedMore
<1> QED
    BY <1>4, <1>5

LEMMA ResolvedType ==
    ASSUME NEW base \in Elements, NEW path \in Seq(Elements)
    PROVE  Resolved(base, path) \in Seq(Elements)
<1> DEFINE Bad == {n \in Nat : \E s \in Seq(Elements) :
                                   Len(s) = n /\ Resolved(base, s) \notin Seq(Elements)}
<1>1. SUFFICES ASSUME Resolved(base, path) \notin Seq(Elements) PROVE FALSE
    OBVIOUS
<1>2. PICK n \in Bad : \A k \in Bad : n <= k
    <2>1. Bad \in SUBSET Nat
        OBVIOUS
    <2>2. Len(path) \in Bad
        BY <1>1, LenProperties
    <2> HIDE DEF Bad
    <2> QED
        BY <2>1, <2>2, Least
<1>3. PICK s \in Seq(Elements) : Len(s) = n /\ Resolved(base, s) \notin Seq(Elements)
    BY <1>2
<1>4. CASE s = <<>>
    <2>1. Resolved(base, <<>>) = <<base>> /\ <<base>> \in Seq(Elements)
        BY BothNone
    <2> QED
        BY <1>3, <1>4, <2>1
<1>5. CASE s # <<>>
    <2>1. PICK a \in Seq(Elements) : \E x \in Elements : s = Append(a, x) /\ Len(s) = Len(a) + 1
        BY <1>5, Grown
    <2>2. PICK x \in Elements : s = Append(a, x) /\ Len(s) = Len(a) + 1
        BY <2>1
    <2>3. PICK m \in Nat : m = Len(a)
        BY LenProperties
    <2>4. m \notin Bad
        BY <1>2, <1>3, <2>2, <2>3
    <2>5. Resolved(base, a) \in Seq(Elements)
        BY <2>3, <2>4
    <2>6. Append(Resolved(base, a), x) \in Seq(Elements)
        BY <2>5, AppendProperties
    <2>7. Resolved(base, s) \in {Resolved(base, a), Append(Resolved(base, a), x)}
        BY <2>2, ResolvedMore
    <2> QED
        BY <1>3, <2>5, <2>6, <2>7
<1> QED
    BY <1>4, <1>5

LEMMA LastSep ==
    ASSUME NEW path \in Seq(Elements), Seps(path) # {}
    PROVE  Max(Seps(path)) \in Seps(path) /\ \A i \in Seps(path) : i <= Max(Seps(path))
<1>1. PICK n \in Nat : n = Len(path)
    BY LenProperties
<1>2. Seps(path) \in SUBSET (1..n)
    BY <1>1 DEF Seps
<1> DEFINE Down == {j \in 0..n : n - j \in Seps(path)}
<1>3. PICK i \in Seps(path) : TRUE
    OBVIOUS
<1>4. i \in 1..n /\ n - (n - i) = i /\ n - i \in 0..n
    BY <1>1, <1>2, <1>3
<1>5. Down \in SUBSET Nat /\ Down # {}
    <2>1. n - i \in Down
        BY <1>3, <1>4
    <2>2. Down \in SUBSET Nat
        BY <1>1
    <2> QED
        BY <2>1, <2>2
<1>6. PICK j \in Down : \A k \in Down : j <= k
    BY <1>5, Least
<1>7. n - j \in Seps(path) /\ j \in 0..n
    BY <1>6
<1>8. ASSUME NEW l \in Seps(path) PROVE l <= n - j
    <2>1. l \in 1..n /\ n - (n - l) = l /\ n - l \in 0..n
        BY <1>1, <1>2
    <2>2. n - l \in Down
        BY <2>1
    <2>3. j <= n - l
        BY <1>6, <2>2
    <2> HIDE DEF Down
    <2> QED
        BY <1>7, <2>1, <2>3
<1>9. \E m \in Seps(path) : \A y \in Seps(path) : m >= y
    BY <1>1, <1>2, <1>7, <1>8
<1>10. Max(Seps(path)) \in Seps(path) /\ \A y \in Seps(path) : Max(Seps(path)) >= y
    BY <1>9, Zenon DEF Max
<1> QED
    BY <1>1, <1>2, <1>10

\* What the directory above a path is.
IsAbove(c, d) ==
    /\ d \in Seq(Elements) /\ Spelled(d)
    /\ Len(d) # 0 => d[1] = c[1]
    /\ \A base : \/ Resolved(base, c) = Resolved(base, d)
                 \/ \E x \in Elements : Resolved(base, c) = Append(Resolved(base, d), x)

LEMMA PartOf ==
    ASSUME NEW path \in Seq(Elements), NEW j \in 0..Len(path)
    PROVE  /\ SubSeq(path, 1, j) \in Seq(Elements) /\ Len(SubSeq(path, 1, j)) = j
           /\ \A i \in 1..j : SubSeq(path, 1, j)[i] = path[i]
<1>1. PICK n \in Nat : n = Len(path)
    BY LenProperties
<1>2. j \in Nat /\ \A i \in 1..j : path[i] \in Elements
    BY <1>1, ElementOfSeq
<1>3. 1 \in Int /\ j \in Int
    BY <1>2
<1>4. /\ SubSeq(path, 1, j) \in Seq(Elements)
      /\ Len(SubSeq(path, 1, j)) = IF 1 <= j THEN j - 1 + 1 ELSE 0
      /\ \A i \in 1..(j - 1 + 1) : SubSeq(path, 1, j)[i] = path[1 + i - 1]
    BY <1>2, <1>3, SubSeqProperties
<1>5. PICK w \in Seq(Elements) : w = SubSeq(path, 1, j)
    BY <1>4
<1>6. Len(w) = j /\ \A i \in 1..j : w[i] = path[i]
    BY <1>2, <1>4, <1>5
<1> QED
    BY <1>5, <1>6

LEMMA ParentAbove ==
    ASSUME NEW c \in Seq(Elements), Spelled(c), c # <<>>
    PROVE  IsAbove(c, Parent(c))
<1>1. PICK n \in Nat : n = Len(c)
    BY LenProperties
<1>2. PICK a \in Seq(Elements) : \E x \in Elements :
               /\ c = Append(a, x) /\ Len(c) = Len(a) + 1
               /\ \A i \in 1..Len(a) : c[i] = a[i]
               /\ a = SubSeq(c, 1, Len(c) - 1)
    BY Grown
<1>3. PICK x \in Elements :
               /\ c = Append(a, x) /\ Len(c) = Len(a) + 1
               /\ \A i \in 1..Len(a) : c[i] = a[i]
               /\ a = SubSeq(c, 1, Len(c) - 1)
    BY <1>2
<1>4. PICK l \in Nat : l = Len(a)
    BY LenProperties
<1>5. n = l + 1 /\ c[n] = x /\ \A i \in 1..l : c[i] = a[i]
    BY <1>1, <1>3, <1>4, AppendProperties
<1>6. Spelled(a) /\ (l = 0 \/ a[l] = Sep \/ x = Sep)
    BY <1>3, <1>4, SpelledShorter
<1>7. \A base : Resolved(base, c) = IF x \in {Sep, "."} THEN Resolved(base, a)
                                    ELSE Append(Resolved(base, a), x)
    BY <1>3, ResolvedMore
<1>8. \A i \in 1..n : i \in Seps(c) <=> c[i] = Sep
    BY <1>1 DEF Seps
<1>81. Seps(c) \in SUBSET (1..n)
    BY <1>1 DEF Seps
<1>9. CASE x = Sep
    <2>1. n \in Seps(c)
        BY <1>5, <1>8, <1>9
    <2>2. Max(Seps(c)) = n
        <3>1. Max(Seps(c)) \in Seps(c) /\ n <= Max(Seps(c))
            BY <2>1, LastSep
        <3>2. PICK m \in 1..n : m = Max(Seps(c))
            BY <1>81, <3>1
        <3> QED
            BY <3>1, <3>2
    <2>3. Parent(c) = a
        BY <1>1, <1>3, <2>1, <2>2 DEF Parent
    <2>4. l # 0 => a[1] = c[1]
        BY <1>5
    <2> QED
        BY <1>4, <1>6, <1>7, <1>9, <2>3, <2>4 DEF IsAbove
<1>10. CASE x # Sep /\ l = 0
    <2>1. Seps(c) = {}
        <3> SUFFICES ASSUME NEW i \in Seps(c) PROVE FALSE
            OBVIOUS
        <3>1. i = n /\ i \in 1..n
            BY <1>5, <1>10, <1>81
        <3> QED
            BY <1>5, <1>8, <1>10, <3>1
    <2>2. Parent(c) = <<>> /\ a = <<>>
        BY <1>4, <1>10, <2>1, EmptySeq DEF Parent
    <2>3. Parent(c) = a
        BY <2>2
    <2>4. l # 0 => a[1] = c[1]
        BY <1>10
    <2> QED
        BY <1>4, <1>6, <1>7, <2>3, <2>4 DEF IsAbove
<1>11. CASE x # Sep /\ l # 0
    <2>1. a[l] = Sep /\ l \in 1..l /\ l \in 1..n
        BY <1>5, <1>6, <1>11
    <2>2. l \in Seps(c)
        BY <1>5, <1>8, <2>1
    <2>3. Max(Seps(c)) = l
        <3>1. Max(Seps(c)) \in Seps(c) /\ l <= Max(Seps(c))
            BY <2>2, LastSep
        <3>2. PICK m \in 1..n : m = Max(Seps(c))
            BY <1>81, <3>1
        <3>3. m # n
            BY <1>5, <1>8, <1>11, <3>1, <3>2
        <3> QED
            BY <1>5, <3>1, <3>2, <3>3
    <2>4. Parent(c) = SubSeq(c, 1, l - 1)
        BY <2>2, <2>3 DEF Parent
    <2>5. a # <<>>
        BY <1>4, <1>11
    <2>6. PICK e \in Seq(Elements) : \E y \in Elements :
               /\ a = Append(e, y) /\ Len(a) = Len(e) + 1
               /\ \A i \in 1..Len(e) : a[i] = e[i]
               /\ e = SubSeq(a, 1, Len(a) - 1)
        BY <2>5, Grown
    <2>7. PICK y \in Elements :
               /\ a = Append(e, y) /\ Len(a) = Len(e) + 1
               /\ \A i \in 1..Len(e) : a[i] = e[i]
               /\ e = SubSeq(a, 1, Len(a) - 1)
        BY <2>6
    <2>8. PICK j \in Nat : j = Len(e)
        BY LenProperties
    <2>9. l = j + 1 /\ y = Sep
        BY <1>4, <2>1, <2>7, <2>8, AppendProperties
    <2>10. ASSUME NEW i \in 1..j PROVE c[i] = e[i]
        <3>1. i \in 1..l
            BY <2>9
        <3>2. a[i] = e[i]
            BY <2>7, <2>8
        <3> QED
            BY <1>5, <3>1, <3>2
    <2>11. Parent(c) = e
        <3>0. l - 1 = j /\ j <= Len(c) /\ 1 <= j + 1
            BY <1>1, <1>5, <2>9
        <3>1. j \in 0..Len(c)
            BY <1>1, <1>5, <2>9
        <3>2. PICK s \in Seq(Elements) :
                  s = SubSeq(c, 1, j) /\ Len(s) = j /\ \A i \in 1..j : s[i] = c[i]
            BY <3>1, PartOf
        <3>3. s = e
            BY <2>8, <2>10, <3>2, SeqEqual
        <3> QED
            BY <2>4, <3>0, <3>2, <3>3
    <2>12. Spelled(e)
        BY <1>6, <2>7, SpelledShorter
    <2>13. \A base : Resolved(base, a) = Resolved(base, e)
        BY <2>7, <2>9, ResolvedMore
    <2>14. j # 0 => e[1] = c[1]
        BY <2>10
    <2>15. \A base : \/ Resolved(base, c) = Resolved(base, e)
                     \/ \E z \in Elements : Resolved(base, c) = Append(Resolved(base, e), z)
        <3> TAKE base
        <3>1. Resolved(base, c) = IF x \in {Sep, "."} THEN Resolved(base, e)
                                  ELSE Append(Resolved(base, e), x)
            BY <1>7, <2>13
        <3> QED
            BY <3>1
    <2> QED
        BY <2>8, <2>11, <2>12, <2>14, <2>15 DEF IsAbove
<1> QED
    BY <1>9, <1>10, <1>11

LEMMA SepApart == Sep # "." /\ Sep \in Elements /\ "." \in Elements
BY DEF Sep, Elements

LEMMA TargetResolved ==
    ASSUME NEW path PROVE Target(path) = Resolved(Base(path), path)
BY Zenon DEF Target, Resolved

LEMMA TargetType ==
    ASSUME NEW path \in Seq(Elements) PROVE Target(path) \in Seq(Elements)
<1>1. Base(path) \in Elements
    BY SepApart DEF Base
<1> QED
    BY <1>1, TargetResolved, ResolvedType

\* path_normalize does not change what a path names.
LEMMA SameTarget ==
    ASSUME NEW path \in Seq(Elements), Spelled(path)
    PROVE  /\ path_normalize(path) \in Seq(Elements) /\ Spelled(path_normalize(path))
           /\ path_normalize(path) = <<>> <=> path = <<>>
           /\ Target(path_normalize(path)) = Target(path)
<1>1. PICK q : q = path_normalize(path)
    OBVIOUS
<1>2. Normalized(path, q)
    BY <1>1, NormalizeKeeps DEF IsNormalized
<1>3. /\ q \in Seq(Elements) /\ Spelled(q) /\ (Len(q) = 0 <=> Len(path) = 0)
      /\ Len(path) # 0 => q[1] = path[1]
      /\ \A base : Resolved(base, q) = Resolved(base, path)
    BY <1>2 DEF Normalized
<1>4. (q = <<>> <=> Len(q) = 0) /\ (path = <<>> <=> Len(path) = 0)
    BY <1>3, EmptySeq
<1>5. Base(q) = Base(path)
    BY <1>3, <1>4 DEF Base
<1>6. Resolved(Base(q), q) = Resolved(Base(path), path)
    BY <1>3, <1>5
<1> QED
    BY <1>1, <1>3, <1>4, <1>6, TargetResolved

\* The file above that of a path: the one its Parent names, or where it begins.
Up(c) == Resolved(Base(c), Parent(c))

LEMMA UpRight ==
    ASSUME NEW c \in Seq(Elements), Spelled(c), c # <<>>
    PROVE  /\ Parent(c) \in Seq(Elements) /\ Spelled(Parent(c))
           /\ Up(c) \in Seq(Elements)
           /\ Target(c) = Up(c) \/ \E x \in Elements : Target(c) = Append(Up(c), x)
           /\ Parent(c) = <<>> => Up(c) = <<Base(c)>>
           /\ Parent(c) # <<>> => Up(c) = Target(Parent(c))
<1>1. PICK d : d = Parent(c)
    OBVIOUS
<1>2. IsAbove(c, d)
    BY <1>1, ParentAbove
<1>3. /\ d \in Seq(Elements) /\ Spelled(d)
      /\ Len(d) # 0 => d[1] = c[1]
      /\ \/ Resolved(Base(c), c) = Resolved(Base(c), d)
         \/ \E x \in Elements : Resolved(Base(c), c) = Append(Resolved(Base(c), d), x)
    BY <1>2 DEF IsAbove
<1>4. d = <<>> <=> Len(d) = 0
    BY <1>3, EmptySeq
<1>5. Base(c) \in Elements
    BY SepApart DEF Base
<1>6. Up(c) = Resolved(Base(c), d) /\ Up(c) \in Seq(Elements)
    BY <1>1, <1>3, <1>5, ResolvedType DEF Up
<1>7. d = <<>> => Up(c) = <<Base(c)>>
    BY <1>6, BothNone
<1>8. d # <<>> => Up(c) = Target(d)
    <2>1. d # <<>> => Base(d) = Base(c)
        BY <1>3, <1>4 DEF Base
    <2> QED
        BY <1>6, <2>1, TargetResolved
<1>9. Target(c) = Resolved(Base(c), c)
    BY TargetResolved
<1> QED
    BY <1>1, <1>3, <1>6, <1>7, <1>8, <1>9

\* A call of kx_mkdirp for each directory in progress, each that of the one before;
\* all on the way to the file that dbpath names.
Chained(p) ==
    /\ p.ret = 0 /\ Len(p.chain) # 0
    /\ p.chain[1] = path_normalize(p.path)
    /\ p.chain[Len(p.chain)] = <<>> => p.path = <<>>
    /\ \A i \in 1..Len(p.chain) :
           Spelled(p.chain[i]) /\ IsPrefix(Target(p.chain[i]), Target(p.path))
    /\ \A i \in 1..Len(p.chain) - 1 :
           /\ p.chain[i] # <<>> /\ Parent(p.chain[i]) # <<>>
           /\ p.chain[i + 1] = path_normalize(Parent(p.chain[i]))

\* The directory above the one that mkdir makes is there, or a file has its name.
UpMade(p, made) ==
    p.chain[Len(p.chain)] # <<>> => Up(p.chain[Len(p.chain)]) \in made

Made(p, made, other) ==
    /\ p.ret = 0 => p.path # <<>> /\ Target(p.path) \in made
    /\ p.ret # 0 => p.fault \/ p.path = <<>> \/ \E f \in other : IsPrefix(f, Target(p.path))

Making ==
    [at : {"stat", "call", "mkdir", "open", "opened", "failed"}, path : Seq(Elements),
     chain : Seq(Seq(Elements)), ret : {0, 1}, fault : BOOLEAN]

\* made: directories and files, other: the files.
Right(p, made, other) ==
    /\ p \in Making /\ Spelled(p.path)
    /\ p.at = "stat" => p.ret = 0
    /\ p.at \in {"call", "mkdir"} => Chained(p)
    /\ p.at = "mkdir" => UpMade(p, made)
    /\ p.at \in {"open", "opened", "failed"} => Made(p, made, other)

MkdirpInv ==
    /\ <<Sep>> \in dirs /\ <<".">> \in dirs
    /\ proc = [k \in KProcs |-> proc[k]]
    /\ \A k \in KProcs : Right(proc[k], dirs \cup files, files)

LEMMA MadeMore ==
    ASSUME NEW p, NEW made, NEW more, NEW other, Right(p, made, other), made \subseteq more
    PROVE  Right(p, more, other)
BY DEF Right, Made, UpMade

\* What holds of the process that takes a step, and of the others still.
LEMMA StepKeeps ==
    ASSUME MkdirpInv, NEW k \in KProcs, NEW p, NEW d, NEW o, d = dirs', o = files, files' = files,
           dirs \subseteq d, proc' = [proc EXCEPT ![k] = p], Right(p, d \cup o, o)
    PROVE  MkdirpInv'
<1>1. \A l \in KProcs : proc'[l] = IF l = k THEN p ELSE proc[l]
    BY DEF MkdirpInv
<1>2. proc' = [l \in KProcs |-> proc'[l]]
    BY DEF MkdirpInv
<1>3. PICK m : m = dirs \cup files
    OBVIOUS
<1>4. ASSUME NEW l \in KProcs PROVE Right(proc'[l], d \cup o, o)
    <2>1. CASE l = k
        BY <1>1, <2>1
    <2>2. CASE l # k
        <3>1. PICK q : q = proc[l] /\ q = proc'[l]
            BY <1>1, <2>2
        <3>2. Right(q, m, o)
            BY <1>3, <3>1 DEF MkdirpInv
        <3>3. m \subseteq d \cup o
            BY <1>3
        <3> QED
            BY <3>1, <3>2, <3>3, MadeMore
    <2> QED
        BY <2>1, <2>2
<1>5. <<Sep>> \in d /\ <<".">> \in d
    BY DEF MkdirpInv
<1> QED
    BY <1>2, <1>4, <1>5 DEF MkdirpInv

LEMMA SpelledType ==
    ASSUME NEW c, Spelled(c) PROVE c \in Seq(Elements)
BY DEF Spelled

\* Who is above is on the way.
LEMMA UpOnTheWay ==
    ASSUME NEW c, Spelled(c), c # <<>>, NEW w \in Seq(Elements), IsPrefix(Target(c), w)
    PROVE  IsPrefix(Up(c), w)
<1>1. PICK u \in Seq(Elements) : u = Up(c)
    BY SpelledType, UpRight
<1>2. PICK v \in Seq(Elements) : v = Target(c)
    BY SpelledType, TargetType
<1>3. v = u \/ \E x \in Elements : v = Append(u, x)
    BY <1>1, <1>2, SpelledType, UpRight
<1>4. CASE v = u
    BY <1>1, <1>2, <1>4
<1>5. CASE \E x \in Elements : v = Append(u, x)
    <2>1. PICK n \in Nat : n = Len(u)
        BY LenProperties
    <2>2. PICK m \in Nat : m = Len(w)
        BY LenProperties
    <2>3. Len(v) = n + 1 /\ \A i \in 1..n : v[i] = u[i]
        BY <1>5, <2>1, AppendProperties
    <2>4. n + 1 <= m /\ SubSeq(v, 1, n + 1) = SubSeq(w, 1, n + 1)
        BY <1>2, <2>2, <2>3 DEF IsPrefix
    <2>5. \A i \in 1..(n + 1) : SubSeq(v, 1, n + 1)[i] = v[i]
        BY <2>1, <2>3, PartOf
    <2>6. \A i \in 1..(n + 1) : SubSeq(w, 1, n + 1)[i] = w[i]
        BY <2>1, <2>2, <2>4, PartOf
    <2>7. \A i \in 1..n : w[i] = u[i]
        BY <2>1, <2>3, <2>4, <2>5, <2>6
    <2>8. PICK a \in Seq(Elements) : a = SubSeq(u, 1, n) /\ Len(a) = n /\ \A i \in 1..n : a[i] = u[i]
        <3>1. n \in 0..Len(u)
            BY <2>1
        <3> QED
            BY <3>1, PartOf
    <2>9. PICK b \in Seq(Elements) : b = SubSeq(w, 1, n) /\ Len(b) = n /\ \A i \in 1..n : b[i] = w[i]
        <3>1. n \in 0..Len(w)
            BY <2>1, <2>2, <2>4
        <3> QED
            BY <3>1, PartOf
    <2>10. a = b
        BY <2>7, <2>8, <2>9, SeqEqual
    <2> QED
        BY <1>1, <2>1, <2>2, <2>4, <2>8, <2>9, <2>10 DEF IsPrefix
<1> QED
    BY <1>3, <1>4, <1>5

LEMMA PrefixSelf ==
    ASSUME NEW w \in Seq(Elements) PROVE IsPrefix(w, w)
<1>1. Len(w) \in Nat
    BY LenProperties
<1> QED
    BY <1>1 DEF IsPrefix

LEMMA NothingAbove == Parent(<<>>) = <<>>
BY DEF Parent, Seps

\* The next call of kx_mkdirp for the directory above.
LEMMA CallKeeps ==
    ASSUME NEW q, Chained(q), q \in Making, Spelled(q.path),
           NEW c, c = q.chain[Len(q.chain)], Parent(c) # <<>>,
           NEW p, p = [q EXCEPT !.chain = Append(q.chain, path_normalize(Parent(c)))]
    PROVE  p \in Making /\ Chained(p)
<1>1. PICK s \in Seq(Seq(Elements)) : s = q.chain
    BY DEF Making
<1>2. PICK n \in Nat : n = Len(s)
    BY LenProperties
<1>3. /\ n # 0 /\ s[1] = path_normalize(q.path) /\ c = s[n]
      /\ \A i \in 1..n : Spelled(s[i]) /\ IsPrefix(Target(s[i]), Target(q.path))
      /\ \A i \in 1..n - 1 : /\ s[i] # <<>> /\ Parent(s[i]) # <<>>
                             /\ s[i + 1] = path_normalize(Parent(s[i]))
    BY <1>1, <1>2 DEF Chained
<1>4. n \in 1..n
    BY <1>3
<1>5. c # <<>> /\ Spelled(c) /\ c \in Seq(Elements) /\ IsPrefix(Target(c), Target(q.path))
    BY <1>3, <1>4, NothingAbove, SpelledType
<1>6. PICK d \in Seq(Elements) : d = Parent(c)
    BY <1>5, UpRight
<1>7. Spelled(d) /\ Up(c) = Target(d)
    BY <1>5, <1>6, UpRight
<1>8. PICK e \in Seq(Elements) : e = path_normalize(d)
    BY <1>7, SameTarget
<1>9. Spelled(e) /\ e # <<>> /\ Target(e) = Target(d)
    BY <1>6, <1>7, <1>8, SameTarget
<1>10. IsPrefix(Target(e), Target(q.path))
    <2>1. q.path \in Seq(Elements)
        BY DEF Making
    <2>2. Target(q.path) \in Seq(Elements)
        BY <2>1, TargetType
    <2>3. IsPrefix(Up(c), Target(q.path))
        BY <1>5, <2>2, UpOnTheWay
    <2> QED
        BY <1>7, <1>9, <2>3
<1>11. PICK r \in Seq(Seq(Elements)) : r = Append(s, e)
    BY AppendProperties
<1>12. Len(r) = n + 1 /\ r[n + 1] = e /\ \A i \in 1..n : r[i] = s[i]
    BY <1>2, <1>11, AppendProperties
<1>13. p = [q EXCEPT !.chain = r]
    BY <1>1, <1>6, <1>8, <1>11
<1>14. p \in Making /\ p.chain = r /\ p.ret = q.ret /\ p.path = q.path
    BY <1>13 DEF Making
<1>15. ASSUME NEW i \in 1..n + 1
       PROVE  Spelled(r[i]) /\ IsPrefix(Target(r[i]), Target(q.path))
    <2>1. CASE i = n + 1
        BY <1>9, <1>10, <1>12, <2>1
    <2>2. CASE i # n + 1
        <3>1. i \in 1..n
            BY <2>2
        <3> QED
            BY <1>3, <1>12, <3>1
    <2> QED
        BY <2>1, <2>2
<1>16. ASSUME NEW i \in 1..n
       PROVE  r[i] # <<>> /\ Parent(r[i]) # <<>> /\ r[i + 1] = path_normalize(Parent(r[i]))
    <2>1. CASE i = n
        BY <1>3, <1>5, <1>6, <1>8, <1>12, <2>1
    <2>2. CASE i # n
        <3>1. i \in 1..n - 1 /\ i + 1 \in 1..n
            BY <2>2
        <3> QED
            BY <1>3, <1>12, <3>1
    <2> QED
        BY <2>1, <2>2
<1>17. r[1] = path_normalize(q.path)
    <2>1. 1 \in 1..n
        BY <1>4
    <2> QED
        BY <1>3, <1>12, <2>1
<1>18. q.ret = 0
    BY DEF Chained
<1>19. Len(r) # 0 /\ r[Len(r)] # <<>> /\ Len(r) = n + 1 /\ Len(r) - 1 = n
    BY <1>9, <1>12
<1>20. \A i \in 1..Len(r) : Spelled(r[i]) /\ IsPrefix(Target(r[i]), Target(q.path))
    BY <1>15, <1>19
<1>21. \A i \in 1..Len(r) - 1 : r[i] # <<>> /\ Parent(r[i]) # <<>>
                               /\ r[i + 1] = path_normalize(Parent(r[i]))
    BY <1>16, <1>19
<1> QED
    BY <1>14, <1>17, <1>18, <1>19, <1>20, <1>21 DEF Chained

\* A call returns 0: the directory it was for is there.
LEMMA ReturnKeeps ==
    ASSUME NEW q, NEW made, NEW other, Right(q, made, other), q.at = "mkdir",
           NEW c, c = q.chain[Len(q.chain)], c # <<>>, Target(c) \in made,
           NEW p, p = [q EXCEPT !.chain = Front(q.chain),
                                !.at = IF Len(q.chain) = 1 THEN "open" ELSE "mkdir"]
    PROVE  Right(p, made, other)
<1>0. q \in Making /\ Spelled(q.path) /\ Chained(q) /\ UpMade(q, made)
    BY DEF Right
<1>1. PICK s \in Seq(Seq(Elements)) : s = q.chain
    BY <1>0 DEF Making
<1>2. PICK n \in Nat : n = Len(s)
    BY LenProperties
<1>3. /\ n # 0 /\ s[1] = path_normalize(q.path) /\ c = s[n] /\ q.ret = 0
      /\ \A i \in 1..n : Spelled(s[i]) /\ IsPrefix(Target(s[i]), Target(q.path))
      /\ \A i \in 1..n - 1 : /\ s[i] # <<>> /\ Parent(s[i]) # <<>>
                             /\ s[i + 1] = path_normalize(Parent(s[i]))
    BY <1>0, <1>1, <1>2 DEF Chained
<1>4. PICK r \in Seq(Seq(Elements)) :
          r = Front(s) /\ Len(r) = n - 1 /\ \A i \in 1..n - 1 : r[i] = s[i]
    <2>1. /\ SubSeq(s, 1, n - 1) \in Seq(Seq(Elements)) /\ Len(SubSeq(s, 1, n - 1)) = n - 1
          /\ \A i \in 1..n - 1 : SubSeq(s, 1, n - 1)[i] = s[i]
        BY <1>2, <1>3, SubSeqProperties
    <2> QED
        BY <1>2, <2>1 DEF Front
<1>5. PICK a : a = IF n = 1 THEN "open" ELSE "mkdir"
    OBVIOUS
<1>6. p = [q EXCEPT !.chain = r, !.at = a]
    BY <1>1, <1>2, <1>4, <1>5
<1>7. p \in Making /\ p.chain = r /\ p.ret = 0 /\ p.path = q.path /\ p.at = a
    BY <1>0, <1>3, <1>5, <1>6 DEF Making
<1>8. CASE n = 1
    <2>1. q.path \in Seq(Elements) /\ c = path_normalize(q.path)
        BY <1>0, <1>3, <1>8 DEF Making
    <2>2. q.path # <<>> /\ Target(c) = Target(q.path)
        BY <1>0, <2>1, SameTarget
    <2>3. Made(p, made, other)
        BY <1>7, <2>2 DEF Made
    <2> QED
        BY <1>0, <1>5, <1>7, <1>8, <2>3 DEF Right
<1>9. CASE n # 1
    <2>1. PICK m \in Nat : m = n - 1 /\ m # 0 /\ m + 1 = n
        BY <1>3, <1>9
    <2>2. m \in 1..n - 1 /\ m \in 1..n
        BY <2>1
    <2>3. s[m] # <<>> /\ Parent(s[m]) # <<>> /\ c = path_normalize(Parent(s[m])) /\ Spelled(s[m])
        BY <1>3, <2>1, <2>2
    <2>4. PICK b \in Seq(Elements) : b = s[m]
        BY <2>3, SpelledType
    <2>5. PICK d \in Seq(Elements) : d = Parent(b)
        BY <2>3, <2>4, UpRight
    <2>6. Spelled(d) /\ Up(b) = Target(d)
        BY <2>3, <2>4, <2>5, UpRight
    <2>7. Target(c) = Target(d)
        BY <2>3, <2>4, <2>5, <2>6, SameTarget
    <2>8. r[m] = b /\ Len(r) = m
        BY <1>4, <2>1, <2>2, <2>4
    <2>9. UpMade(p, made)
        BY <1>7, <2>6, <2>7, <2>8 DEF UpMade
    <2>10. \A i \in 1..m : i \in 1..n - 1 /\ i \in 1..n
        BY <2>1
    <2>11. \A i \in 1..m : Spelled(r[i]) /\ IsPrefix(Target(r[i]), Target(q.path))
        BY <1>3, <1>4, <2>10
    <2>12. ASSUME NEW i \in 1..m - 1
           PROVE  r[i] # <<>> /\ Parent(r[i]) # <<>> /\ r[i + 1] = path_normalize(Parent(r[i]))
        <3>1. i \in 1..n - 1 /\ i + 1 \in 1..n - 1
            BY <2>1
        <3> QED
            BY <1>3, <1>4, <3>1
    <2>13. r[1] = path_normalize(q.path)
        <3>1. 1 \in 1..n - 1
            BY <2>1
        <3> QED
            BY <1>3, <1>4, <3>1
    <2>14. Chained(p)
        BY <1>7, <2>1, <2>3, <2>4, <2>8, <2>11, <2>12, <2>13 DEF Chained
    <2> QED
        BY <1>0, <1>5, <1>7, <1>9, <2>9, <2>14 DEF Right
<1> QED
    BY <1>8, <1>9

\* A call returns -1 only for a reason DirectoryMade names.
LEMMA MinusOneKeeps ==
    ASSUME NEW q, NEW ds, NEW other, Right(q, ds \cup other, other), q.at = "mkdir",
           NEW c, c = q.chain[Len(q.chain)], NEW fault \in BOOLEAN,
           \/ fault
           \/ c = <<>>
           \/ Target(c) \notin ds \cup other /\ Front(Target(c)) \notin ds,
           NEW p, p = [q EXCEPT !.chain = <<>>, !.at = "open", !.ret = 1, !.fault = fault]
    PROVE  Right(p, ds \cup other, other)
<1>1. q \in Making /\ Spelled(q.path) /\ Chained(q) /\ UpMade(q, ds \cup other)
    BY DEF Right
<1>2. p \in Making /\ p.path = q.path /\ p.at = "open" /\ p.ret = 1 /\ p.fault = fault
    <2>1. <<>> \in Seq(Seq(Elements))
        OBVIOUS
    <2> QED
        BY <1>1, <2>1 DEF Making
<1>3. fault \/ q.path = <<>> \/ \E f \in other : IsPrefix(f, Target(q.path))
    <2>1. CASE fault
        BY <2>1
    <2>2. CASE c = <<>>
        BY <1>1, <2>2 DEF Chained
    <2>3. CASE c # <<>> /\ Target(c) \notin ds \cup other /\ Front(Target(c)) \notin ds
        <3>1. Len(q.chain) \in 1..Len(q.chain)
            <4>1. PICK s \in Seq(Seq(Elements)) : s = q.chain
                BY <1>1 DEF Making
            <4>2. Len(s) \in Nat
                BY LenProperties
            <4>3. Len(s) # 0
                BY <1>1, <4>1 DEF Chained
            <4> QED
                BY <4>1, <4>2, <4>3
        <3>2. Spelled(c) /\ IsPrefix(Target(c), Target(q.path))
            BY <1>1, <3>1 DEF Chained
        <3>3. Up(c) \in ds \cup other
            BY <1>1, <2>3 DEF UpMade
        <3>4. PICK u \in Seq(Elements) : u = Up(c)
            BY <2>3, <3>2, SpelledType, UpRight
        <3>5. Target(c) = u \/ \E x \in Elements : Target(c) = Append(u, x)
            BY <2>3, <3>2, <3>4, SpelledType, UpRight
        <3>6. PICK x \in Elements : Target(c) = Append(u, x)
            BY <2>3, <3>3, <3>4, <3>5
        <3>7. Front(Append(u, x)) = u
            <4>1. PICK w \in Seq(Elements) : w = Append(u, x)
                BY AppendProperties
            <4>2. PICK n \in Nat : n = Len(u)
                BY LenProperties
            <4>3. Len(w) = n + 1 /\ n \in 0..Len(w) /\ \A i \in 1..n : w[i] = u[i]
                BY <4>1, <4>2, AppendProperties
            <4>4. PICK a \in Seq(Elements) :
                      a = SubSeq(w, 1, n) /\ Len(a) = n /\ \A i \in 1..n : a[i] = w[i]
                BY <4>3, PartOf
            <4>5. a = u
                BY <4>2, <4>3, <4>4, SeqEqual
            <4>6. Front(w) = a
                BY <4>3, <4>4 DEF Front
            <4> QED
                BY <4>1, <4>5, <4>6
        <3>8. u \in other
            BY <2>3, <3>3, <3>4, <3>6, <3>7
        <3>9. IsPrefix(u, Target(q.path))
            <4>1. Target(q.path) \in Seq(Elements)
                BY <1>1, SpelledType, TargetType
            <4> QED
                BY <2>3, <3>2, <3>4, <4>1, UpOnTheWay
        <3> QED
            BY <3>8, <3>9
    <2> QED
        BY <2>1, <2>2, <2>3
<1>4. Made(p, ds \cup other, other)
    BY <1>2, <1>3 DEF Made
<1> QED
    BY <1>1, <1>2, <1>4 DEF Right

LEMMA StatKeeps ==
    ASSUME MkdirpInv, NEW k \in KProcs, NEW path \in Paths, Stat(k, path)
    PROVE  MkdirpInv'
<1>1. PICK d : d = dirs
    OBVIOUS
<1>2. PICK o : o = files
    OBVIOUS
<1>3. PICK q : q = proc[k]
    OBVIOUS
<1>4. Right(q, d \cup o, o) /\ q.at = "stat" /\ q \in Making /\ q.ret = 0
    BY <1>1, <1>2, <1>3 DEF MkdirpInv, Right, Stat
<1>5. Spelled(path) /\ path \in Seq(Elements)
    BY MkdirpAssumption, SpelledType
<1>6. d = dirs' /\ files' = files /\ dirs \subseteq d
    BY <1>1 DEF Stat
<1>7. CASE Exists2(path)
    <2>1. PICK p : p = [q EXCEPT !.at = "open", !.path = path]
        OBVIOUS
    <2>2. proc' = [proc EXCEPT ![k] = p]
        BY <1>3, <1>7, <2>1 DEF Stat
    <2>3. p \in Making /\ p.at = "open" /\ p.path = path /\ p.ret = 0
        BY <1>4, <1>5, <2>1 DEF Making
    <2>4. Made(p, d \cup o, o)
        BY <1>1, <1>2, <1>7, <2>3 DEF Made, Exists2
    <2>5. Right(p, d \cup o, o)
        BY <1>5, <2>3, <2>4 DEF Right
    <2> QED
        BY <1>2, <1>6, <2>2, <2>5, StepKeeps
<1>8. CASE ~Exists2(path)
    <2>1. PICK e \in Seq(Elements) : e = path_normalize(path)
        BY <1>5, SameTarget
    <2>2. Spelled(e) /\ (e = <<>> <=> path = <<>>) /\ Target(e) = Target(path)
        BY <1>5, <2>1, SameTarget
    <2>3. PICK p : p = [q EXCEPT !.at = "call", !.path = path, !.chain = <<e>>]
        OBVIOUS
    <2>4. proc' = [proc EXCEPT ![k] = p]
        BY <1>3, <1>8, <2>1, <2>3 DEF Stat
    <2>5. p \in Making /\ p.at = "call" /\ p.path = path /\ p.ret = 0 /\ p.chain = <<e>>
        <3>1. <<e>> \in Seq(Seq(Elements))
            OBVIOUS
        <3> QED
            BY <1>4, <1>5, <2>3, <3>1 DEF Making
    <2>6. Chained(p)
        <3>1. IsPrefix(Target(e), Target(path))
            BY <1>5, <2>2, TargetType, PrefixSelf
        <3>2. Len(<<e>>) = 1 /\ <<e>>[1] = e
            OBVIOUS
        <3> QED
            BY <2>1, <2>2, <2>5, <3>1, <3>2 DEF Chained
    <2>7. Right(p, d \cup o, o)
        BY <1>5, <2>5, <2>6 DEF Right
    <2> QED
        BY <1>2, <1>6, <2>4, <2>7, StepKeeps
<1> QED
    BY <1>7, <1>8

LEMMA CallAboveKeeps ==
    ASSUME MkdirpInv, NEW k \in KProcs, CallAbove(k)
    PROVE  MkdirpInv'
<1>1. PICK d : d = dirs
    OBVIOUS
<1>2. PICK o : o = files
    OBVIOUS
<1>3. PICK q : q = proc[k]
    OBVIOUS
<1>4. Right(q, d \cup o, o) /\ q.at = "call"
    BY <1>1, <1>2, <1>3 DEF MkdirpInv, CallAbove
<1>5. q \in Making /\ Spelled(q.path) /\ Chained(q) /\ q.ret = 0
    BY <1>4 DEF Right, Chained
<1>6. d = dirs' /\ files' = files /\ dirs \subseteq d
    BY <1>1 DEF CallAbove
<1>7. PICK c : c = q.chain[Len(q.chain)] /\ c = pathname(k)
    BY <1>3 DEF pathname, Last
<1>8. CASE Parent(c) = <<>>
    <2>1. PICK p : p = [q EXCEPT !.at = "mkdir"]
        OBVIOUS
    <2>2. proc' = [proc EXCEPT ![k] = p]
        BY <1>3, <1>7, <1>8, <2>1 DEF CallAbove
    <2>3. p \in Making /\ p.at = "mkdir" /\ p.path = q.path /\ p.ret = q.ret /\ p.chain = q.chain
        BY <1>5, <2>1 DEF Making
    <2>4. c # <<>> => Up(c) \in d \cup o
        <3> SUFFICES ASSUME c # <<>> PROVE Up(c) \in d \cup o
            OBVIOUS
        <3>1. Len(q.chain) \in 1..Len(q.chain)
            <4>1. PICK s \in Seq(Seq(Elements)) : s = q.chain
                BY <1>5 DEF Making
            <4>2. Len(s) \in Nat
                BY LenProperties
            <4>3. Len(s) # 0
                BY <1>5, <4>1 DEF Chained
            <4> QED
                BY <4>1, <4>2, <4>3
        <3>2. Spelled(c) /\ c \in Seq(Elements)
            BY <1>5, <1>7, <3>1, SpelledType DEF Chained
        <3>3. Up(c) = <<Base(c)>>
            BY <1>8, <3>2, UpRight
        <3>4. <<Sep>> \in d /\ <<".">> \in d
            BY <1>1 DEF MkdirpInv
        <3> QED
            BY <3>3, <3>4 DEF Base
    <2>5. UpMade(p, d \cup o)
        BY <1>7, <2>3, <2>4 DEF UpMade
    <2>6. Chained(p)
        BY <1>5, <2>3 DEF Chained
    <2>7. Right(p, d \cup o, o)
        BY <1>5, <2>3, <2>5, <2>6 DEF Right
    <2> QED
        BY <1>2, <1>6, <2>2, <2>7, StepKeeps
<1>9. CASE Parent(c) # <<>>
    <2>1. PICK p : p = [q EXCEPT !.chain = Append(q.chain, path_normalize(Parent(c)))]
        OBVIOUS
    <2>2. proc' = [proc EXCEPT ![k] = p]
        BY <1>3, <1>7, <1>9, <2>1 DEF CallAbove
    <2>3. p \in Making /\ Chained(p)
        BY <1>5, <1>7, <1>9, <2>1, CallKeeps
    <2>4. p.at = "call" /\ p.path = q.path /\ p.ret = q.ret
        BY <1>4, <1>5, <2>1 DEF Making
    <2>5. Right(p, d \cup o, o)
        BY <1>5, <2>3, <2>4 DEF Right
    <2> QED
        BY <1>2, <1>6, <2>2, <2>5, StepKeeps
<1> QED
    BY <1>8, <1>9

LEMMA Returns0Keeps ==
    ASSUME MkdirpInv, NEW k \in KProcs, proc[k].at = "mkdir", pathname(k) # <<>>,
           files' = files, dirs \subseteq dirs', Target(pathname(k)) \in dirs' \cup files',
           Returns0(k)
    PROVE  MkdirpInv'
<1>1. PICK m : m = dirs \cup files
    OBVIOUS
<1>2. PICK o : o = files
    OBVIOUS
<1>3. PICK q : q = proc[k]
    OBVIOUS
<1>4. PICK d : d = dirs'
    OBVIOUS
<1>5. Right(q, m, o) /\ q.at = "mkdir"
    BY <1>1, <1>2, <1>3 DEF MkdirpInv
<1>6. m \subseteq d \cup o
    BY <1>1, <1>2, <1>4
<1>7. Right(q, d \cup o, o)
    BY <1>5, <1>6, MadeMore
<1>8. PICK c : c = q.chain[Len(q.chain)] /\ c = pathname(k)
    BY <1>3 DEF pathname, Last
<1>9. c # <<>> /\ Target(c) \in d \cup o
    BY <1>2, <1>4, <1>8
<1>10. PICK p : p = [q EXCEPT !.chain = Front(q.chain),
                              !.at = IF Len(q.chain) = 1 THEN "open" ELSE "mkdir"]
    OBVIOUS
<1>11. proc' = [proc EXCEPT ![k] = p]
    BY <1>3, <1>10 DEF Returns0
<1>12. Right(p, d \cup o, o)
    BY <1>5, <1>7, <1>8, <1>9, <1>10, ReturnKeeps
<1> QED
    BY <1>2, <1>4, <1>11, <1>12, StepKeeps

LEMMA MkdirFailsKeeps ==
    ASSUME MkdirpInv, NEW k \in KProcs, MkdirFails(k)
    PROVE  MkdirpInv'
<1>1. PICK d : d = dirs
    OBVIOUS
<1>2. PICK o : o = files
    OBVIOUS
<1>3. PICK q : q = proc[k]
    OBVIOUS
<1>4. Right(q, d \cup o, o) /\ q.at = "mkdir"
    BY <1>1, <1>2, <1>3 DEF MkdirpInv, MkdirFails
<1>5. d = dirs' /\ files' = files /\ dirs \subseteq d
    BY <1>1 DEF MkdirFails
<1>6. PICK c : c = q.chain[Len(q.chain)] /\ c = pathname(k)
    BY <1>3 DEF pathname, Last
<1>7. PICK fault \in BOOLEAN :
          /\ Fails(k, fault)
          /\ \/ fault
             \/ c = <<>>
             \/ Target(c) \notin d \cup o /\ Front(Target(c)) \notin d
    BY <1>1, <1>2, <1>6 DEF MkdirFails, Exists2
<1>8. PICK p : p = [q EXCEPT !.chain = <<>>, !.at = "open", !.ret = 1, !.fault = fault]
    OBVIOUS
<1>9. proc' = [proc EXCEPT ![k] = p]
    BY <1>3, <1>7, <1>8 DEF Fails
<1>10. Right(p, d \cup o, o)
    BY <1>4, <1>6, <1>7, <1>8, MinusOneKeeps
<1> QED
    BY <1>2, <1>5, <1>9, <1>10, StepKeeps

LEMMA OpenEnvKeeps ==
    ASSUME MkdirpInv, NEW k \in KProcs, OpenEnv(k)
    PROVE  MkdirpInv'
<1>1. PICK d : d = dirs
    OBVIOUS
<1>2. PICK o : o = files
    OBVIOUS
<1>3. PICK q : q = proc[k]
    OBVIOUS
<1>4. Right(q, d \cup o, o) /\ q.at = "open"
    BY <1>1, <1>2, <1>3 DEF MkdirpInv, OpenEnv
<1>5. d = dirs' /\ files' = files /\ dirs \subseteq d
    BY <1>1 DEF OpenEnv
<1>6. PICK a \in {"opened", "failed"} : proc' = [proc EXCEPT ![k].at = a]
    BY DEF OpenEnv
<1>7. PICK p : p = [q EXCEPT !.at = a]
    OBVIOUS
<1>8. proc' = [proc EXCEPT ![k] = p]
    BY <1>3, <1>6, <1>7
<1>9. Right(p, d \cup o, o)
    <2>1. q \in Making /\ Spelled(q.path) /\ Made(q, d \cup o, o)
        BY <1>4 DEF Right
    <2>2. p \in Making /\ p.at = a /\ p.path = q.path /\ p.ret = q.ret /\ p.fault = q.fault
        BY <1>6, <1>7, <2>1 DEF Making
    <2>3. Made(p, d \cup o, o)
        BY <2>1, <2>2 DEF Made
    <2> QED
        BY <1>6, <2>1, <2>2, <2>3 DEF Right
<1> QED
    BY <1>2, <1>5, <1>8, <1>9, StepKeeps

LEMMA MkdirpInitially == MkdirpInit => MkdirpInv
<1> SUFFICES ASSUME MkdirpInit PROVE MkdirpInv
    OBVIOUS
<1>1. <<Sep>> \in dirs /\ <<".">> \in dirs
    BY DEF MkdirpInit
<1>2. PICK p : p = [at |-> "stat", path |-> <<>>, chain |-> <<>>, ret |-> 0, fault |-> FALSE]
    OBVIOUS
<1>3. <<>> \in Seq(Elements) /\ <<>> \in Seq(Seq(Elements)) /\ Len(<<>>) = 0
    OBVIOUS
<1>4. p \in Making /\ Spelled(p.path) /\ p.at = "stat" /\ p.ret = 0
    BY <1>2, <1>3 DEF Making, Spelled
<1>5. ASSUME NEW made, NEW other PROVE Right(p, made, other)
    BY <1>4 DEF Right
<1>6. proc = [k \in KProcs |-> p]
    BY <1>2 DEF MkdirpInit
<1> QED
    BY <1>1, <1>5, <1>6 DEF MkdirpInv

LEMMA MadeShown == MkdirpInv => DirectoryMade
<1> SUFFICES ASSUME MkdirpInv, NEW k \in KProcs, proc[k].at \in {"open", "opened", "failed"}
             PROVE  /\ proc[k].ret = 0 => Exists2(proc[k].path)
                    /\ proc[k].ret # 0 => \/ proc[k].fault \/ InTheWay(proc[k].path)
                                          \/ proc[k].path = <<>>
    BY DEF DirectoryMade
<1>1. Made(proc[k], dirs \cup files, files)
    BY DEF MkdirpInv, Right
<1> QED
    BY <1>1 DEF Made, Exists2, InTheWay

\* DirectoryMade holds of every behaviour, for any number of processes and any
\* spelling of the paths: what kx_mkdirp normalises, cuts at the last separator and
\* makes one directory at a time is the directory dbpath names, although other
\* processes make directories in between (path_normalize, kx_mkdirp).
THEOREM DirectoryIsMade == MkdirpSpec => []DirectoryMade
<1>1. MkdirpInv /\ [MkdirpNext]_kvars => MkdirpInv'
    <2> SUFFICES ASSUME MkdirpInv, [MkdirpNext]_kvars PROVE MkdirpInv'
        OBVIOUS
    <2>1. CASE UNCHANGED kvars
        BY <2>1 DEF kvars, MkdirpInv
    <2>2. ASSUME NEW k \in KProcs, NEW path \in Paths, Stat(k, path) PROVE MkdirpInv'
        BY <2>2, StatKeeps
    <2>3. ASSUME NEW k \in KProcs, CallAbove(k) PROVE MkdirpInv'
        BY <2>3, CallAboveKeeps
    <2>4. ASSUME NEW k \in KProcs, MkdirMakes(k) PROVE MkdirpInv'
        <3>1. /\ proc[k].at = "mkdir" /\ pathname(k) # <<>> /\ files' = files
              /\ dirs \subseteq dirs' /\ Target(pathname(k)) \in dirs' \cup files' /\ Returns0(k)
            BY <2>4 DEF MkdirMakes
        <3> QED
            BY <3>1, Returns0Keeps
    <2>5. ASSUME NEW k \in KProcs, MkdirExists(k) PROVE MkdirpInv'
        <3>1. /\ proc[k].at = "mkdir" /\ pathname(k) # <<>> /\ files' = files
              /\ dirs \subseteq dirs' /\ Target(pathname(k)) \in dirs' \cup files' /\ Returns0(k)
            BY <2>5 DEF MkdirExists, Exists2
        <3> QED
            BY <3>1, Returns0Keeps
    <2>6. ASSUME NEW k \in KProcs, MkdirFails(k) PROVE MkdirpInv'
        BY <2>6, MkdirFailsKeeps
    <2>7. ASSUME NEW k \in KProcs, OpenEnv(k) PROVE MkdirpInv'
        BY <2>7, OpenEnvKeeps
    <2>8. CASE MkdirpEnd
        BY <2>8 DEF MkdirpEnd, kvars, MkdirpInv
    <2> QED
        BY <2>1, <2>2, <2>3, <2>4, <2>5, <2>6, <2>7, <2>8 DEF MkdirpNext
<1> QED
    BY <1>1, MkdirpInitially, MadeShown, PTL DEF MkdirpSpec
=============================================================================
