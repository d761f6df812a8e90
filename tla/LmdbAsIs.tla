------------------------------ MODULE LmdbAsIs ------------------------------
(***************************************************************************)
(* The copy of an LMDB environment as it is (mdb_env_copyfd0), page by     *)
(* page, while another thread goes on committing write transactions.       *)
(* LmdbTxn has the transactions in detail; here a database is one page per *)
(* key, and a page says which transaction wrote what.                      *)
(***************************************************************************)
EXTENDS Integers, Sequences, FiniteSetsExt, Functions

CONSTANTS
    CKeys,      \* keys
    MaxCommits  \* bound: commits while the copy is made

ASSUME AsIsAssumption == IsFiniteSet(CKeys) /\ MaxCommits \in Nat

VARIABLES
    metas,      \* the two meta pages: [txnid, at: page of each key, next, free]
    pages,      \* content of the data pages: <<key, transaction>>
    wmutex,     \* me_wmutex
    wtxn,       \* the write transaction: its meta, not yet written; <<>> for none
    reader,     \* mr_txnid of the copying thread; 0 for none
    cpc, cpos,  \* the copying thread and the page it is at
    snap,       \* mt_next_pgno of its transaction
    cmetas, cpages, \* the copy
    cret        \* what mdb_env_copyfd0 returned

avars == <<metas, pages, wmutex, wtxn, reader, cpc, cpos, snap, cmetas, cpages, cret>>
writing == <<metas, pages, wtxn>>
copying == <<reader, cpc, cpos, snap, cmetas, cpages, cret>>

None == [txnid |-> -1]
Data == 2..(2 + Cardinality(CKeys) * (MaxCommits + 1))
pick(m) == IF m[0].txnid < m[1].txnid THEN m[1] ELSE m[0]
newest == pick(metas)

AsIsInit ==
    /\ LET at == CHOOSE f \in [CKeys -> 2..Cardinality(CKeys) + 1] : IsInjective(f)
       IN
         /\ metas = [i \in {0, 1} |-> [txnid |-> i, at |-> at, next |-> Cardinality(CKeys) + 2, free |-> {}]]
         /\ pages = [p \in Data |-> IF \E k \in CKeys : at[k] = p
                                    THEN <<CHOOSE k \in CKeys : at[k] = p, 1>> ELSE <<>>]
    /\ wmutex = "none" /\ wtxn = None
    /\ reader = 0 /\ cpc = "begin" /\ cpos = 0 /\ snap = 0
    /\ cmetas = [i \in {0, 1} |-> None] /\ cpages = [p \in Data |-> <<>>]
    /\ cret = "none"

-----------------------------------------------------------------------------
(* The writer. *)

WBegin ==
    /\ wmutex = "none" /\ newest.txnid <= MaxCommits
    /\ wmutex' = "writer"
    /\ wtxn' = [newest EXCEPT !.txnid = @ + 1]
    /\ UNCHANGED <<metas, pages, copying>>

\* The oldest snapshot in use.
oldest == IF reader = 0 THEN newest.txnid ELSE Min({newest.txnid, reader})
\* A page freed by a transaction older than that may be used again.
Reusable(p) == \E f \in wtxn.free : f.p = p /\ f.t < oldest
Rewrite(k, p) ==
    /\ wmutex = "writer" /\ wtxn # None
    /\ pages[wtxn.at[k]][2] < wtxn.txnid
    /\ \/ p = wtxn.next /\ ~\E q \in Data : Reusable(q)
       \/ Reusable(p)
    /\ pages' = [pages EXCEPT ![p] = <<k, wtxn.txnid>>]
    /\ wtxn' = [wtxn EXCEPT !.at[k] = p,
                            !.next = IF p = @ THEN @ + 1 ELSE @,
                            !.free = {f \in @ : f.p # p} \union {[p |-> wtxn.at[k], t |-> wtxn.txnid]}]
    /\ UNCHANGED <<metas, wmutex, copying>>
WCommit ==
    /\ wtxn # None
    /\ metas' = [metas EXCEPT ![wtxn.txnid % 2] = wtxn]
    /\ wtxn' = None
    /\ UNCHANGED <<pages, wmutex, copying>>
WEnd ==
    /\ wmutex = "writer" /\ wtxn = None
    /\ wmutex' = "none"
    /\ UNCHANGED <<writing, copying>>

-----------------------------------------------------------------------------
(* mdb_env_copyfd0 *)

Fail == reader' = 0 /\ cpc' = "ended" /\ cret' = "error"
\* mdb_txn_begin and its reset, which keep the slot but no snapshot.
CBegin ==
    /\ cpc = "begin"
    /\ \/ cpc' = "lock" /\ UNCHANGED <<reader, cret>>
       \/ Fail
    /\ UNCHANGED <<writing, wmutex, cpos, snap, cmetas, cpages>>
\* Mutant: the snapshot is taken without the writer's mutex.
CLockNot ==
    /\ cpc = "lock"
    /\ reader' = newest.txnid /\ snap' = newest.next
    /\ cpc' = "copy"
    /\ UNCHANGED <<writing, wmutex, cpos, cmetas, cpages, cret>>
\* The writer is kept out; mdb_txn_renew0 takes the snapshot.
CLock ==
    /\ cpc = "lock" /\ wmutex = "none"
    /\ wmutex' = "copier"
    /\ reader' = newest.txnid /\ snap' = newest.next
    /\ cpc' = "copy"
    /\ UNCHANGED <<writing, cpos, cmetas, cpages, cret>>
\* write() of a meta page, then of the next; the mutex is released in any case.
CMeta ==
    /\ cpc = "copy" /\ cpos < 2
    /\ \/ /\ cmetas' = [cmetas EXCEPT ![cpos] = metas[cpos]]
          /\ cpos' = cpos + 1
          /\ wmutex' = IF cpos = 1 THEN "none" ELSE wmutex
          /\ UNCHANGED <<reader, cpc, cret>>
       \/ Fail /\ wmutex' = "none" /\ UNCHANGED <<cpos, cmetas>>
    /\ UNCHANGED <<writing, snap, cpages>>
CPage ==
    /\ cpc = "copy" /\ cpos \in 2..snap - 1
    /\ \/ cpages' = [cpages EXCEPT ![cpos] = pages[cpos]] /\ cpos' = cpos + 1 /\ UNCHANGED <<reader, cpc, cret>>
       \/ Fail /\ UNCHANGED <<cpos, cpages>>
    /\ UNCHANGED <<writing, wmutex, snap, cmetas>>
CLeave ==
    /\ cpc = "copy" /\ cpos >= snap
    /\ reader' = 0 /\ cpc' = "ended" /\ cret' = "ok"
    /\ UNCHANGED <<writing, wmutex, cpos, snap, cmetas, cpages>>

AsIsWriter == WBegin \/ (\E k \in CKeys, p \in Data : Rewrite(k, p)) \/ WCommit \/ WEnd
AsIsCopier == CBegin \/ CLock \/ CMeta \/ CPage \/ CLeave
AsIsNext == AsIsWriter \/ AsIsCopier

AsIsSpec == AsIsInit /\ [][AsIsNext]_avars

-----------------------------------------------------------------------------
\* What a process that opens the copy sees: a committed snapshot, with every
\* page the snapshot points to.
AsIsComplete ==
    LET m == pick(cmetas)
    IN /\ m # None
       /\ \A k \in CKeys : /\ cpages[m.at[k]] # <<>>
                           /\ cpages[m.at[k]][1] = k
                           /\ cpages[m.at[k]][2] <= m.txnid

\* A copy that mdb_env_copyfd0 reports as made is one committed snapshot,
\* whatever the other thread committed meanwhile and whichever freed pages it
\* used again: never a meta page of a later commit than the pages.
AsIsFaithful == cret = "ok" => AsIsComplete
=============================================================================
