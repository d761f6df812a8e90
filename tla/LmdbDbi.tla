------------------------------- MODULE LmdbDbi -------------------------------
(***************************************************************************)
(* Handles of named databases in LMDB.  A handle is an index into arrays of *)
(* the environment; a transaction has flags of its own for each of them and *)
(* compares sequence numbers, since indices are used again.  The           *)
(* application keeps the rules of lmdb.h: it forgets a handle when it       *)
(* closes it, drops its database or aborts the transaction it was opened   *)
(* in, and closes no handle whose database an open transaction changed.    *)
(***************************************************************************)
EXTENDS Naturals, Sequences, FiniteSetsExt

CONSTANTS
    Names,          \* names of databases
    me_maxdbs,      \* named databases the environment allows
    MaxNest,        \* bound: depth of nested transactions
    MaxSeq          \* bound: sequence number of a slot

NoName == "none"
ASSUME DbiAssumption == NoName \notin Names /\ me_maxdbs \in Nat

VARIABLES
    names,          \* md_name of the slots in me_dbxs; NoName: unused
    valid,          \* MDB_VALID in me_dbflags
    me_dbiseqs, me_numdbs,
    dbs,            \* databases in the last committed main database
    txs,            \* the write transaction and its children, innermost last:
                    \* mt_numdbs, mt_dbflags, and its main database
    mt_dbiseqs,     \* of the write transaction; its children share it
    handles         \* what the application holds: [dbi, name, in: depth of the
                    \* transaction it was opened in, 0 when that was committed]

hvars == <<names, valid, me_dbiseqs, me_numdbs, dbs, txs, mt_dbiseqs, handles>>
Dbis == 1..me_maxdbs
depth == Len(txs)
t == txs[depth]

DbiInit ==
    /\ names = [i \in Dbis |-> NoName] /\ valid = [i \in Dbis |-> FALSE]
    /\ me_dbiseqs = [i \in Dbis |-> 0] /\ me_numdbs = 0
    /\ dbs = {} /\ txs = <<>>
    /\ mt_dbiseqs = me_dbiseqs
    /\ handles = {}

\* mdb_txn_renew0
BeginTxn ==
    /\ txs = <<>>
    /\ txs' = <<[num |-> me_numdbs, main |-> dbs,
                 flags |-> [i \in Dbis |-> IF i <= me_numdbs /\ valid[i]
                                           THEN {"DB_VALID", "DB_STALE"} ELSE {}]]>>
    /\ mt_dbiseqs' = me_dbiseqs
    /\ UNCHANGED <<names, valid, me_dbiseqs, me_numdbs, dbs, handles>>
\* mdb_txn_begin with a parent
BeginNested ==
    /\ depth \in 1..MaxNest - 1
    /\ txs' = Append(txs, [t EXCEPT !.flags = [i \in Dbis |-> @[i] \ {"DB_NEW"}]])
    /\ UNCHANGED <<names, valid, me_dbiseqs, me_numdbs, dbs, mt_dbiseqs, handles>>

\* TXN_DBI_EXIST and TXN_DBI_CHANGED
Exists(i) == "DB_VALID" \in t.flags[i]
Changed(i) == mt_dbiseqs[i] # me_dbiseqs[i]

\* mdb_dbi_open: an open handle is returned; a new one gets the first unused
\* slot, or the next one.
Opened(i) == Max({0} \cup {d \in 1..depth : "DB_NEW" \in txs[d].flags[i]})
OpenAgain(n, i) ==
    /\ depth > 0 /\ i <= t.num /\ names[i] = n
    /\ handles' = handles \cup {[dbi |-> i, name |-> n, in |-> Opened(i)]}
    /\ UNCHANGED <<names, valid, me_dbiseqs, me_numdbs, dbs, txs, mt_dbiseqs>>
Unused == {i \in 1..t.num : names[i] = NoName}
NewSlot == IF Unused = {} THEN t.num + 1 ELSE CHOOSE i \in Unused : \A j \in Unused : i <= j
OpenNew(n, create) ==
    /\ depth > 0 /\ ~\E i \in 1..t.num : names[i] = n
    /\ NewSlot <= me_maxdbs                             \* else MDB_DBS_FULL
    /\ n \in t.main \/ create
    /\ me_dbiseqs[NewSlot] < MaxSeq
    /\ LET i == NewSlot IN
       /\ names' = [names EXCEPT ![i] = n]
       /\ me_dbiseqs' = [me_dbiseqs EXCEPT ![i] = @ + 1]
       /\ mt_dbiseqs' = [mt_dbiseqs EXCEPT ![i] = me_dbiseqs[i] + 1]
       /\ txs' = [txs EXCEPT ![depth] =
                    [t EXCEPT !.main = @ \cup {n}, !.num = IF i > @ THEN i ELSE @,
                              !.flags[i] = {"DB_NEW", "DB_VALID"} \cup
                                           (IF n \in t.main THEN {} ELSE {"DB_DIRTY"})]]
       /\ handles' = handles \cup {[dbi |-> i, name |-> n, in |-> depth]}
    /\ UNCHANGED <<valid, me_numdbs, dbs>>

\* A change of the database: mdb_cursor_touch.
Modify(h) ==
    /\ depth > 0 /\ Exists(h.dbi) /\ ~Changed(h.dbi)
    /\ txs' = [txs EXCEPT ![depth].flags[h.dbi] = (@ \ {"DB_STALE"}) \cup {"DB_DIRTY"}]
    /\ UNCHANGED <<names, valid, me_dbiseqs, me_numdbs, dbs, mt_dbiseqs, handles>>

\* mdb_dbi_close of slots that have a name.
CloseSlots(s) ==
    /\ names' = [i \in Dbis |-> IF i \in s THEN NoName ELSE names[i]]
    /\ valid' = [i \in Dbis |-> valid[i] /\ i \notin s]
    /\ me_dbiseqs' = [i \in Dbis |-> IF i \in s THEN me_dbiseqs[i] + 1 ELSE me_dbiseqs[i]]
\* mdb_drop with del: also closes the handle.
DropDb(h) ==
    /\ depth > 0 /\ Exists(h.dbi) /\ ~Changed(h.dbi)
    /\ \A d \in 1..depth - 1 : "DB_DIRTY" \notin txs[d].flags[h.dbi]
    /\ CloseSlots({h.dbi})
    /\ txs' = [txs EXCEPT ![depth] = [t EXCEPT !.main = @ \ {names[h.dbi]}, !.flags[h.dbi] = {"DB_STALE"}]]
    /\ handles' = handles \ {h}
    /\ UNCHANGED <<me_numdbs, dbs, mt_dbiseqs>>
CloseDbi(h) ==
    /\ depth = 0
    /\ CloseSlots({h.dbi})
    /\ handles' = handles \ {h}
    /\ UNCHANGED <<me_numdbs, dbs, txs, mt_dbiseqs>>

\* mdb_dbis_update and the end of a transaction.  A child's flags replace its
\* parent's, which keep DB_NEW.  Mutant: which do not.
NewIn == {i \in 1..t.num : "DB_NEW" \in t.flags[i]}
CommitNestedAs(Keep) ==
    /\ depth > 1
    /\ txs' = [SubSeq(txs, 1, depth - 1) EXCEPT ![depth - 1] =
                 [t EXCEPT !.flags = [i \in Dbis |->
                    @[i] \cup (txs[depth - 1].flags[i] \cap Keep)]]]
    /\ handles' = {[h EXCEPT !.in = IF @ = depth THEN depth - 1 ELSE @] : h \in handles}
    /\ UNCHANGED <<names, valid, me_dbiseqs, me_numdbs, dbs, mt_dbiseqs>>
CommitNestedForget == CommitNestedAs({})
CommitNested == CommitNestedAs({"DB_NEW"})

\* MDB_BAD_DBI, if a slot that was changed here has another database by now.
BadDbi == \E i \in 1..t.num : "DB_DIRTY" \in t.flags[i] /\ Changed(i)
CommitOuter ==
    /\ depth = 1 /\ ~BadDbi
    /\ dbs' = t.main
    /\ valid' = [i \in Dbis |-> valid[i] \/ i \in NewIn]
    /\ me_numdbs' = IF me_numdbs < t.num THEN t.num ELSE me_numdbs
    /\ txs' = <<>>
    /\ handles' = {[h EXCEPT !.in = 0] : h \in handles}
    /\ UNCHANGED <<names, me_dbiseqs, mt_dbiseqs>>
\* mdb_txn_abort, and mdb_txn_commit that fails.
AbortTxn ==
    /\ depth > 0
    /\ CloseSlots({i \in NewIn : names[i] # NoName})
    /\ txs' = SubSeq(txs, 1, depth - 1)
    /\ handles' = {h \in handles : h.in < depth}
    /\ UNCHANGED <<me_numdbs, dbs, mt_dbiseqs>>

DbiNext ==
    \/ BeginTxn \/ BeginNested \/ CommitNested \/ CommitOuter \/ AbortTxn
    \/ \E n \in Names : (\E i \in Dbis : OpenAgain(n, i)) \/ \E create \in BOOLEAN : OpenNew(n, create)
    \/ \E h \in handles : Modify(h) \/ DropDb(h) \/ CloseDbi(h)

DbiSpec == DbiInit /\ [][DbiNext]_hvars

-----------------------------------------------------------------------------
\* A handle the application may still use is accepted by the transaction and
\* reaches its own database, never another one, whatever was opened in its slot
\* before, and whatever nested transactions committed, aborted or dropped.
HandlesRight ==
    \A h \in handles : depth > 0 =>
        /\ h.dbi <= t.num /\ Exists(h.dbi) /\ ~Changed(h.dbi)
        /\ names[h.dbi] = h.name /\ h.name \in t.main
=============================================================================
