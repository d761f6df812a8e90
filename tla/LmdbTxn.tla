------------------------------ MODULE LmdbTxn ------------------------------
(***************************************************************************)
(* Pages, transactions and snapshots of LMDB (liblmdb/mdb.c) as the local  *)
(* store uses them: copy on write, reuse of freed pages below the oldest   *)
(* reader, loose and spilled pages, nested transactions, the free list     *)
(* saved inside the database it describes, two meta pages, kills, power    *)
(* failures and I/O errors.                                                *)
(*                                                                         *)
(* A database is its root page and one item per key; an item is a leaf     *)
(* page, or a run of overflow pages for the keys with more than one page.  *)
(* The free database is one leaf page of records, each an ID list kept in  *)
(* the node or, when it is long, in overflow pages.  The shape of larger   *)
(* trees is the subject of LmdbTree.                                       *)
(*                                                                         *)
(* The writer's work is private to its process until mdb_page_flush, so    *)
(* that a call is one step there; from then on each write is a step.       *)
(***************************************************************************)
EXTENDS Integers, SequencesExt

CONSTANTS
    Keys,               \* keys of the main database
    PagesOf,            \* pages of each key's item; 1: a leaf page
    Readers,            \* threads with a reader slot
    MDB_IDL_UM_MAX,     \* length of the dirty list
    me_maxpg,           \* pages of the map
    NodeIds,            \* page numbers of a free record that fit its node
    me_maxfree_1pg,     \* ... that fit one overflow page
    MaxTxn,             \* bound: transactions committed
    MaxOps,             \* bound: calls of mdb_put and mdb_del
    MaxDepth,           \* bound: transactions nested
    MaxFaults,          \* bound: kills, power failures, I/O errors
    MaxReads,           \* bound: read transactions
    MaxTurns            \* turns within which mdb_freelist_save has to end

ASSUME LmdbTxnAssumption ==
    /\ PagesOf \in [Keys -> Nat \ {0}]
    /\ {MDB_IDL_UM_MAX, me_maxpg, me_maxfree_1pg, MaxDepth} \subseteq Nat \ {0}
    /\ {NodeIds, MaxTxn, MaxOps, MaxFaults, MaxReads, MaxTurns} \subseteq Nat

VARIABLES
    file, disk,         \* pages in the page cache, and those synced
    metas, mdisk,       \* the two meta pages in the page cache, and what a
                        \* power failure may leave of each
    mti_txnid,          \* last committed transaction, in the lock region
    slot,               \* mr_txnid of each reader; NoTxn: none
    rd,                 \* each reader: position, value read, its root
    pc,                 \* where the writer is
    tx,                 \* its transactions, innermost last
    env,                \* me_pghead (and whether it exists), me_pglast,
                        \* me_pgoldest
    sv,                 \* locals of mdb_freelist_save; turn counts its steps
    hist,               \* history: contents after each transaction
    spoiled,            \* history: meta pages whose write failed, and
    revived,            \* whether a recovery used one all the same
    ops, faults, reads

wvars == <<file, pc, tx, env, sv>>
vars == <<file, disk, metas, mdisk, mti_txnid, slot, rd, pc, tx, env, sv, hist,
          spoiled, revived, ops, faults, reads>>

NoTxn == -1             \* (txnid_t)-1, larger than any transaction
NoPage == 0             \* P_INVALID; pages 0 and 1 are the meta pages
Pgno == 2..(me_maxpg - 1)
Run(p, n) == p..(p + n - 1)
Empty == <<>>           \* the function with no key

\* Pages: a root is a function from keys to items, a free page one from
\* transactions to records; all pages of a run carry the item's content.
Junk == <<"junk">>
Root(f) == <<"root", f>>
Item(k, v) == <<"item", k, v>>
FreePage(f) == <<"free", f>>
Ids(s, n) == <<"ids", s, n>>

\* mdb_env_init_meta0: a new environment.
Init ==
    /\ file = [p \in Pgno |-> Junk] /\ disk = file
    /\ metas = [i \in 0..1 |-> [txnid |-> 0, main |-> NoPage, free |-> NoPage,
                                last |-> 1]]
    /\ mdisk = [i \in 0..1 |-> {metas[i]}]
    /\ mti_txnid = 0
    /\ slot = [r \in Readers |-> NoTxn]
    /\ rd = [r \in Readers |-> [pc |-> "idle", val |-> 0, main |-> NoPage,
                                view |-> Empty, late |-> FALSE]]
    /\ pc = "idle" /\ tx = <<>>
    /\ env = [has |-> FALSE, head |-> {}, last |-> 0, oldest |-> 0]
    /\ sv = [pglast |-> 0, id |-> 0, freecnt |-> 0, head |-> 0, total |-> 0,
             more |-> 1, put |-> FALSE, turn |-> 0]
    /\ hist = <<Empty>> /\ spoiled = {} /\ revived = FALSE
    /\ ops = 0 /\ faults = 0 /\ reads = 0

-----------------------------------------------------------------------------
(* The writer's state S: transactions, page state of the environment, page *)
(* cache; ret is the page a call returns.                                  *)

State == [tx |-> tx, env |-> env, file |-> file, ret |-> NoPage]
Apply(S) == tx' = S.tx /\ env' = S.env /\ file' = S.file

Top(S) == S.tx[Len(S.tx)]
SetTop(S, t) == [S EXCEPT !.tx[Len(S.tx)] = t]
Failed(S) == Top(S).error
Fail(S) == [S EXCEPT !.tx[Len(S.tx)].error = TRUE]      \* MDB_TXN_ERROR

\* op after a call that left S, unless it failed.
Bind(S, op(_)) == IF Failed(S) THEN S ELSE op(S)

\* mdb_page_get: the innermost transaction that has spilled or dirtied the
\* page says where it is; 0 is the map.
Level(S, p) ==
    Max({0} \cup {i \in DOMAIN S.tx :
                    p \in S.tx[i].spill \cup DOMAIN S.tx[i].dirty})
Spilled(S, p) == Level(S, p) # 0 /\ p \in S.tx[Level(S, p)].spill
Dirty(S, p) == Level(S, p) # 0 /\ ~Spilled(S, p)
Get(S, p) == IF Dirty(S, p) THEN S.tx[Level(S, p)].dirty[p].c ELSE S.file[p]

\* Add, change and remove entries of the dirty list.
Drop(f, s) == [p \in DOMAIN f \ s |-> f[p]]
SetPage(S, p, c) == [S EXCEPT !.tx[Len(S.tx)].dirty[p].c = c]
Insert(S, p, c, n, room) ==
    LET t == Top(S) IN
    SetTop([S EXCEPT !.ret = p],
           [t EXCEPT !.dirty = (p :> [c |-> c, n |-> n]) @@ t.dirty,
                     !.room = t.room - room])

\* mdb_midl_append: what was freed must not have been free before.
Free(S, ps) ==
    LET t == Top(S) IN
    SetTop(S, [t EXCEPT !.frees = t.frees \cup ps,
                        !.twice = t.twice \/ ps \cap (t.frees \cup S.env.head) # {}])
ToHead(S, ps) ==
    [S EXCEPT !.env.head = S.env.head \cup ps,
              !.tx[Len(S.tx)].twice =
                  Top(S).twice \/ ps \cap (Top(S).frees \cup S.env.head) # {}]

FreeRecs(S) == IF Top(S).free = NoPage THEN Empty ELSE Get(S, Top(S).free)[2]
RecIds(S, rec) == IF rec.at = NoPage THEN rec.ids ELSE Get(S, rec.at)[2]

-----------------------------------------------------------------------------
(* Allocation.                                                             *)

\* mdb_find_oldest.
FindOldest(S) == Min({Top(S).id - 1} \cup {slot[r] : r \in {q \in Readers : slot[q] # NoTxn}})

\* The loop of mdb_page_alloc: records of the free database after me_pglast
\* and before the oldest reader are merged into me_pghead one by one, until
\* it has n pages in a row; the oldest reader is looked up when the one
\* found earlier does not do.
Runs(ids, n) == {p \in ids : Run(p, n) \subseteq ids}
FetchBelow(S, n, oldest) ==
    LET recs == FreeRecs(S)
        old == {i \in (S.env.last + 1)..(oldest - 1) : i \in DOMAIN recs}
        HeadAt(i) == S.env.head \cup UNION {RecIds(S, recs[j]) : j \in {l \in old : l <= i}}
        stop == Min({MaxTxn} \cup {i \in old \cup {S.env.last} : Runs(HeadAt(i), n) # {}})
    IN  [S EXCEPT !.env = [has |-> S.env.has \/ \E i \in old : i <= stop,
                           head |-> HeadAt(stop),
                           last |-> Max({S.env.last} \cup {i \in old : i <= stop}),
                           oldest |-> oldest]]
Fetch(S, n) ==
    Bind(FetchBelow(S, n, S.env.oldest), LAMBDA T :
        IF \/ Runs(T.env.head, n) # {}
           \/ T.env.oldest > T.env.last + 1 /\ \A i \in DOMAIN FreeRecs(T) : i <= T.env.last
        THEN T ELSE FetchBelow(T, n, FindOldest(T)))

\* mdb_page_alloc.
Place(S, n) ==
    LET runs == Runs(S.env.head, n)
        new == Top(S).next
    IN  IF runs # {}
        THEN Insert([S EXCEPT !.env.head = S.env.head \ Run(Min(runs), n)],
                    Min(runs), Junk, n, 1)
        ELSE IF new + n >= me_maxpg THEN Fail(S)            \* MDB_MAP_FULL
        ELSE Insert([S EXCEPT !.tx[Len(S.tx)].next = new + n], new, Junk, n, 1)
Alloc(S, n) ==
    IF n = 1 /\ Top(S).loose # <<>>
    THEN [S EXCEPT !.ret = Head(Top(S).loose),
                   !.tx[Len(S.tx)].loose = Tail(Top(S).loose)]
    ELSE IF Top(S).room = 0 THEN Fail(S)                    \* MDB_TXN_FULL
    ELSE Place(Fetch(S, n), n)
NewPage(S, n, c) == LET S1 == Alloc(S, n) IN Bind(S1, LAMBDA T : SetPage(T, T.ret, c))

\* mdb_page_unspill: a spilled page is dirty again under its own number.
Unspill(S, p, n) ==
    IF Top(S).room = 0 THEN Fail(S)
    ELSE LET S1 == Insert(S, p, S.file[p], n, 1) IN
         IF p \in Top(S).spill
         THEN [S1 EXCEPT !.tx[Len(S.tx)].spill = Top(S).spill \ {p}]
         ELSE S1

\* mdb_page_touch: returns a page of this transaction with the content of p.
\* The mutated form takes a page that is dirty in a parent for its own.
TouchNoCopy(S, p) ==
    IF Dirty(S, p) THEN [S EXCEPT !.ret = p]
    ELSE IF Spilled(S, p) THEN Unspill(S, p, 1)
    ELSE Bind(NewPage(S, 1, Get(S, p)), LAMBDA T : Free(T, {p}))
Touch(S, p) ==
    IF Spilled(S, p) THEN Unspill(S, p, 1)
    ELSE IF ~Dirty(S, p)
    THEN Bind(NewPage(S, 1, Get(S, p)), LAMBDA T : Free(T, {p}))
    ELSE IF Level(S, p) = Len(S.tx) THEN [S EXCEPT !.ret = p]
    ELSE Insert(S, p, Get(S, p), 1, 0)

\* mdb_page_loose: a page of this transaction is kept for its next use.
Loose(S, p) ==
    IF Level(S, p) = Len(S.tx) /\ Dirty(S, p)
    THEN [S EXCEPT !.tx[Len(S.tx)].loose = <<p>> \o Top(S).loose]
    ELSE Free(S, {p})

\* mdb_ovpage_free: pages of this transaction go back to me_pghead, if there
\* is one; all others are freed by the transaction.
OvFree(S, p, n) ==
    LET t == Top(S) IN
    IF ~(S.env.has /\ Len(S.tx) = 1 /\ Level(S, p) = 1) THEN Free(S, Run(p, n))
    ELSE IF Dirty(S, p)
    THEN ToHead(SetTop(S, [t EXCEPT !.dirty = Drop(t.dirty, {p}), !.room = t.room + 1]),
                Run(p, n))
    ELSE ToHead(SetTop(S, [t EXCEPT !.spill = t.spill \ {p}]), Run(p, n))

\* mdb_cursor_put on an item in overflow pages: old pages that this
\* transaction may write and that are enough are used again.
PutBig(S, p, n0, n, c) ==
    LET S1 == IF n0 >= n /\ Spilled(S, p) THEN Unspill(S, p, n0) ELSE S IN
    Bind(S1, LAMBDA T :
        IF n0 >= n /\ Dirty(T, p)
        THEN IF Level(T, p) = Len(T.tx) THEN SetPage([T EXCEPT !.ret = p], p, c)
             ELSE Insert(T, p, c, n0, 0)
        ELSE NewPage(OvFree(T, p, n0), n, c))

\* mdb_page_spill: when the dirty list has no room for what the call may
\* need, its pages are written from the end of the list on; not the roots,
\* the pages under the cursor, loose pages, and what a parent has spilled.
Highest(s, n) == {p \in s : Cardinality({q \in s : q > p}) < n}
Write(f, d, s) ==
    [q \in Pgno |-> IF \E p \in s : q \in Run(p, d[p].n)
                    THEN d[CHOOSE p \in s : q \in Run(p, d[p].n)].c ELSE f[q]]
SpillSome(S, need, keep, kept) ==
    LET t == Top(S)
        min == Max({need, MDB_IDL_UM_MAX \div 8})
        others == UNION {S.tx[i].spill : i \in 1..(Len(S.tx) - 1)}
        out == Highest(DOMAIN t.dirty \ (keep \cup kept \cup others
                                         \cup {t.main, t.free}), min)
    IN  IF t.room > need THEN S
        ELSE SetTop([S EXCEPT !.file = Write(S.file, t.dirty, out)],
                    [t EXCEPT !.dirty = Drop(t.dirty, out), !.spill = t.spill \cup out,
                              !.spills = TRUE, !.room = t.room + Cardinality(out)])
LooseSet(S) == {Top(S).loose[i] : i \in DOMAIN Top(S).loose}
Spill(S, need, keep) == SpillSome(S, need, keep, LooseSet(S))

-----------------------------------------------------------------------------
(* Calls on the main database.                                             *)

Nodes(S) == IF Top(S).main = NoPage THEN Empty ELSE Get(S, Top(S).main)[2]
Depth(r) == IF r = NoPage THEN 0 ELSE 2
SetMain(S, p) == [S EXCEPT !.tx[Len(S.tx)].main = p]
SetNodes(S, f) == SetPage(S, Top(S).main, Root(f))
UnderCursor(S, k) == IF k \in DOMAIN Nodes(S) /\ PagesOf[k] = 1 THEN {Nodes(S)[k]} ELSE {}

\* mdb_cursor_touch, or the first page of an empty database.
TouchMain(S) ==
    LET S1 == IF Top(S).main = NoPage THEN NewPage(S, 1, Root(Empty))
              ELSE Touch(S, Top(S).main)
    IN  Bind(S1, LAMBDA T : SetMain(T, T.ret))

\* mdb_put.
PutItem(S, k, c) ==
    LET old == Nodes(S)[k]
        S1 == IF k \notin DOMAIN Nodes(S) THEN NewPage(S, PagesOf[k], c)
              ELSE IF PagesOf[k] = 1
              THEN Bind(Touch(S, old), LAMBDA T : SetPage(T, T.ret, c))
              ELSE PutBig(S, old, PagesOf[k], PagesOf[k], c)
    IN  Bind(S1, LAMBDA T : SetNodes(T, (k :> T.ret) @@ Nodes(T)))
PutMain(S, k, v) ==
    LET S1 == Spill(S, 2 * (Depth(Top(S).main) + PagesOf[k]), UnderCursor(S, k))
        S2 == Bind(S1, TouchMain)
        S3 == Bind(S2, LAMBDA T : PutItem(T, k, Item(k, v)))
    IN  Bind(S3, LAMBDA T : [T EXCEPT !.tx[Len(T.tx)].view = (k :> v) @@ Top(T).view])

\* mdb_del: an empty leaf page is unlinked (mdb_rebalance), an empty root
\* page is freed.
DelItem(S, k) ==
    LET old == Nodes(S)[k]
        S1 == IF PagesOf[k] = 1
              THEN Bind(Touch(S, old), LAMBDA T : Loose(T, T.ret))
              ELSE OvFree(S, old, PagesOf[k])
    IN  Bind(S1, LAMBDA T :
            IF DOMAIN Nodes(T) = {k}
            THEN SetMain(Free(T, {Top(T).main}), NoPage)
            ELSE SetNodes(T, Drop(Nodes(T), {k})))
DelMain(S, k) ==
    LET S1 == Spill(S, 2 * Depth(Top(S).main), UnderCursor(S, k))
        S2 == Bind(Bind(S1, TouchMain), LAMBDA T : DelItem(T, k))
    IN  Bind(S2, LAMBDA T : [T EXCEPT !.tx[Len(T.tx)].view = Drop(Top(T).view, {k})])

-----------------------------------------------------------------------------
(* The free database.                                                      *)

OvPages(n) == (n \div (me_maxfree_1pg + 1)) + 1     \* n IDs and their number
SetFree(S, p) == [S EXCEPT !.tx[Len(S.tx)].free = p]
SetRecs(S, f) == SetPage(S, Top(S).free, FreePage(f))

\* mdb_page_search with MDB_PS_MODIFY.
TouchFree(S) ==
    IF Top(S).free = NoPage THEN S
    ELSE Bind(Touch(S, Top(S).free), LAMBDA T : SetFree(T, T.ret))

\* mdb_cursor_put with MDB_RESERVE: an empty list with room for n numbers.
PutRec(S, i, n) ==
    LET recs == FreeRecs(S)
        big == i \in DOMAIN recs /\ recs[i].at # NoPage
        n0 == IF big THEN OvPages(Get(S, recs[i].at)[3]) ELSE 0
        len == IF big /\ n0 >= OvPages(n) THEN Get(S, recs[i].at)[3] ELSE n
        S1 == IF big THEN PutBig(S, recs[i].at, n0, OvPages(n), Ids({}, len))
              ELSE IF n > NodeIds THEN NewPage(S, OvPages(n), Ids({}, n))
              ELSE [S EXCEPT !.ret = NoPage]
    IN  Bind(S1, LAMBDA T :
            SetRecs(T, (i :> [room |-> n, at |-> T.ret, ids |-> {}]) @@ FreeRecs(T)))
PutFree(S, i, n) ==
    LET need == 2 * (Min({Depth(Top(S).free), 1}) + 1
                     + (IF n > NodeIds THEN OvPages(n) ELSE 0))
        S1 == Spill(S, need, {})
        S2 == Bind(S1, LAMBDA T :
                  IF Top(T).free # NoPage THEN TouchFree(T)
                  ELSE Bind(NewPage(T, 1, FreePage(Empty)), LAMBDA U : SetFree(U, U.ret)))
    IN  Bind(S2, LAMBDA T : PutRec(T, i, n))

\* The IDs are copied into the reserved room, or put there (MDB_CURRENT).
Fill(S, i, ids) ==
    LET rec == FreeRecs(S)[i]
        len == Get(S, rec.at)[3]
        new == [FreeRecs(S) EXCEPT ![i].room = Cardinality(ids),
                                   ![i].ids = IF rec.at = NoPage THEN ids ELSE {}]
    IN  IF rec.at = NoPage THEN SetRecs(S, new)
        ELSE PutBig(SetRecs(S, new), rec.at, OvPages(len), OvPages(len), Ids(ids, len))

\* mdb_cursor_del: an empty free database has no page.
DelFree(S, i) ==
    LET S1 == Bind(Spill(S, 2, {}), TouchFree)
        rec == FreeRecs(S)[i]
        S2 == Bind(S1, LAMBDA T :
                  IF rec.at = NoPage THEN T
                  ELSE OvFree(T, rec.at, OvPages(Get(T, rec.at)[3])))
    IN  Bind(S2, LAMBDA T :
            IF DOMAIN FreeRecs(T) = {i} THEN SetFree(Free(T, {Top(T).free}), NoPage)
            ELSE SetRecs(T, Drop(FreeRecs(T), {i})))

-----------------------------------------------------------------------------
(* Transactions.                                                           *)

NewTxn(m) ==
    [id |-> mti_txnid + 1, main |-> m.main, free |-> m.free, next |-> m.last + 1,
     dirty |-> Empty, frees |-> {}, loose |-> <<>>, spill |-> {}, spills |-> FALSE,
     room |-> MDB_IDL_UM_MAX, error |-> FALSE, twice |-> FALSE,
     view |-> hist[m.txnid + 1], saved |-> env]

\* mdb_txn_begin, mdb_txn_renew0 of a write transaction.
BeginWrite ==
    /\ pc = "idle" /\ mti_txnid < MaxTxn /\ ~revived
    /\ tx' = <<NewTxn(metas[mti_txnid % 2])>>
    /\ pc' = "txn"
    /\ env' = [env EXCEPT !.has = FALSE, !.head = {}, !.last = 0]
    /\ UNCHANGED <<file, disk, metas, mdisk, mti_txnid, slot, rd, sv, hist, spoiled,
                   revived, ops, faults, reads>>

Call(S) ==
    /\ pc = "txn" /\ ~Failed(State) /\ ops < MaxOps
    /\ ops' = ops + 1
    /\ Apply(S)
    /\ UNCHANGED <<disk, metas, mdisk, mti_txnid, slot, rd, pc, sv, hist, spoiled,
                   revived, faults, reads>>
Put(k) == Call(PutMain(State, k, ops + 1))
Del(k) ==
    /\ pc = "txn" /\ k \in DOMAIN Top(State).view
    /\ Call(DelMain(State, k))

\* mdb_txn_begin with a parent: a copy of the parent's databases, and the
\* environment's page state is saved.
BeginChild ==
    /\ pc = "txn" /\ ~Failed(State) /\ Len(tx) < MaxDepth
    /\ tx' = Append(tx, [Top(State) EXCEPT !.dirty = Empty, !.frees = {}, !.loose = <<>>,
                                           !.spill = {}, !.saved = env])
    /\ UNCHANGED <<file, disk, metas, mdisk, mti_txnid, slot, rd, pc, env, sv, hist,
                   spoiled, revived, ops, faults, reads>>

\* mdb_txn_commit of a child: its lists are merged into its parent's.
MergeChild(p, c) ==
    [c EXCEPT !.frees = p.frees \cup c.frees,
              !.twice = p.twice \/ c.twice \/ p.frees \cap c.frees # {},
              !.spill = (p.spill \ DOMAIN c.dirty) \cup c.spill,
              !.dirty = c.dirty @@ Drop(p.dirty, c.spill),
              !.loose = p.loose \o c.loose,
              !.saved = p.saved]
CommitChild ==
    /\ pc = "txn" /\ Len(tx) > 1 /\ ~Failed(State)
    /\ tx' = Append(SubSeq(tx, 1, Len(tx) - 2), MergeChild(tx[Len(tx) - 1], Top(State)))
    /\ UNCHANGED <<file, disk, metas, mdisk, mti_txnid, slot, rd, pc, env, sv, hist,
                   spoiled, revived, ops, faults, reads>>

\* mdb_txn_abort of a child, or its commit after an error, which the parent
\* then has, too.  The mutated form forgets to restore the page state.
AbortChildTo(e) ==
    /\ pc = "txn" /\ Len(tx) > 1
    /\ \E err \in {FALSE, Failed(State)} :
          tx' = [SubSeq(tx, 1, Len(tx) - 1) EXCEPT ![Len(tx) - 1].error = @ \/ err]
    /\ env' = [e EXCEPT !.oldest = env.oldest]
    /\ UNCHANGED <<file, disk, metas, mdisk, mti_txnid, slot, rd, pc, sv, hist,
                   spoiled, revived, ops, faults, reads>>
AbortChildKeepHead == AbortChildTo(env)
AbortChild == AbortChildTo(Top(State).saved)

\* mdb_txn_end of the outer transaction.
EndAt(e, to) ==
    /\ tx' = <<>> /\ pc' = to
    /\ env' = [has |-> FALSE, head |-> {}, last |-> 0, oldest |-> e]
    /\ sv' = [pglast |-> 0, id |-> 0, freecnt |-> 0, head |-> 0, total |-> 0,
              more |-> 1, put |-> FALSE, turn |-> 0]
End(e) == EndAt(e, "idle")

\* mdb_txn_abort; mdb_txn_commit of a transaction that failed or wrote nothing.
Abort ==
    /\ Len(tx) = 1
    /\ pc = "txn" \/ (pc = "save" /\ Failed(State))
    /\ End(env.oldest)
    /\ UNCHANGED <<file, disk, metas, mdisk, mti_txnid, slot, rd, hist, spoiled,
                   revived, ops, faults, reads>>

-----------------------------------------------------------------------------
(* mdb_txn_commit.                                                         *)

Saving(S, s) ==
    /\ Apply(S) /\ sv' = [s EXCEPT !.turn = s.turn + 1]
    /\ UNCHANGED <<disk, metas, mdisk, mti_txnid, slot, rd, hist, spoiled, revived,
                   ops, faults, reads>>

\* mdb_freelist_save, first part: the first page of the free database is
\* touched; without me_pghead loose pages are freed by this transaction.
LooseToFree(S) ==
    LET t == Top(S) IN
    IF S.env.has \/ t.loose = <<>> THEN S
    ELSE Free(SetTop(S, [t EXCEPT !.loose = <<>>, !.dirty = Drop(t.dirty, LooseSet(S))]),
              LooseSet(S))
Commit ==
    /\ pc = "txn" /\ Len(tx) = 1 /\ ~Failed(State)
    /\ tx[1].dirty # Empty \/ tx[1].spills
    /\ Saving(Bind(IF env.has THEN TouchFree(State) ELSE State, LooseToFree), sv)
    /\ pc' = "save"

\* Records that were taken into me_pghead are deleted, one at a time.
SaveDelete ==
    /\ pc = "save" /\ ~Failed(State) /\ sv.pglast < env.last /\ ~sv.put
    /\ LET i == Min(DOMAIN FreeRecs(State)) IN
       Saving(DelFree(State, i), [sv EXCEPT !.pglast = i, !.id = i, !.head = 0, !.total = 0])
    /\ UNCHANGED pc

\* The record of the pages that this transaction freed; putting it may free
\* more, and then it is put again before anything else.
SaveFreed ==
    /\ pc = "save" /\ ~Failed(State) /\ (sv.pglast >= env.last \/ sv.put)
    /\ sv.freecnt < Cardinality(Top(State).frees)
    /\ LET S == IF sv.freecnt = 0 THEN TouchFree(State) ELSE State
           n == Cardinality(Top(S).frees)
           S1 == Bind(S, LAMBDA T : PutFree(T, Top(T).id, n))
           done == Cardinality(Top(S1).frees) = n
       IN  Saving(IF done THEN Bind(S1, LAMBDA T : Fill(T, Top(T).id, Top(T).frees))
                  ELSE S1, [sv EXCEPT !.freecnt = n, !.put = ~done])
    /\ UNCHANGED pc

\* Room for me_pghead is reserved in records that no reader needs, split
\* when they get long.
MopLen == Cardinality(env.head) + Len(Top(State).loose)
Reserved == sv.total = MopLen \/ (sv.total > MopLen /\ sv.more = 0)
HeadRoom(id, room) ==
    IF room > me_maxfree_1pg /\ id > 1
    THEN (room \div id) + me_maxfree_1pg - ((room \div id) % (me_maxfree_1pg + 1))
    ELSE Max({room, 0})
SaveHead ==
    /\ pc = "save" /\ ~Failed(State) /\ sv.pglast >= env.last
    /\ sv.freecnt >= Cardinality(Top(State).frees)
    /\ ~Reserved
    /\ LET new == /\ sv.total < MopLen /\ sv.head >= me_maxfree_1pg /\ sv.id > 1
           id == IF new THEN sv.id - 1 ELSE sv.id
           total == IF new THEN sv.total ELSE sv.total - sv.head
           room == HeadRoom(id, MopLen - total)
       IN  Saving(PutFree(State, id, room),
                  [sv EXCEPT !.id = id, !.head = room, !.total = total + room,
                           !.more = IF sv.total > MopLen THEN 0 ELSE sv.more])
    /\ UNCHANGED pc

\* Loose pages go back to me_pghead, and the reserved records get its pages,
\* the lowest first.
Lowest(s, n) == {p \in s : Cardinality({q \in s : q < p}) < n}
Distribute(S) ==
    LET t == Top(S)
        ids == S.env.head \cup LooseSet(S)
        S0 == SetTop(S, [t EXCEPT !.loose = <<>>, !.dirty = Drop(t.dirty, LooseSet(S))])
        One(acc, i) ==
            LET part == Lowest(acc.left, FreeRecs(acc.S)[i].room) IN
            IF acc.left = {} \/ i \notin DOMAIN FreeRecs(S) THEN acc
            ELSE [S |-> Bind(acc.S, LAMBDA T : Fill(T, i, part)), left |-> acc.left \ part]
        upto[i \in 0..S.env.last] ==
            IF i = 0 THEN [S |-> S0, left |-> ids] ELSE One(upto[i - 1], i)
    IN  upto[S.env.last].S
SaveDone ==
    /\ pc = "save" /\ ~Failed(State) /\ sv.pglast >= env.last
    /\ sv.freecnt >= Cardinality(Top(State).frees) /\ Reserved
    /\ Saving(Distribute(State), sv)
    /\ pc' = "flush"

\* mdb_page_flush: the dirty pages are written in the order of the list;
\* n of them, when the process ends on the way.
Flushed(n) ==
    LET d == tx[1].dirty IN file' = Write(file, d, Lowest(DOMAIN d, n))
Flush ==
    /\ pc = "flush"
    /\ Flushed(Cardinality(DOMAIN tx[1].dirty)) /\ pc' = "sync"
    /\ tx' = [tx EXCEPT ![1].dirty = Empty]
    /\ UNCHANGED <<disk, metas, mdisk, mti_txnid, slot, rd, env, sv, hist, spoiled,
                   revived, ops, faults, reads>>

\* mdb_env_sync0.  The mutated form leaves it out.
SyncNot ==
    /\ pc = "sync" /\ pc' = "meta"
    /\ UNCHANGED <<file, disk, metas, mdisk, mti_txnid, slot, rd, tx, env, sv, hist,
                   spoiled, revived, ops, faults, reads>>
Sync ==
    /\ pc = "sync" /\ pc' = "meta"
    /\ disk' = file /\ mdisk' = [i \in 0..1 |-> {metas[i]}]
    /\ UNCHANGED <<file, metas, mti_txnid, slot, rd, tx, env, sv, hist, spoiled,
                   revived, ops, faults, reads>>

\* A write or the sync fails: mdb_txn_abort.
CommitFails ==
    /\ pc \in {"flush", "sync"} /\ faults < MaxFaults
    /\ faults' = faults + 1
    /\ \E n \in 0..Cardinality(DOMAIN tx[1].dirty) : Flushed(n)
    /\ End(env.oldest)
    /\ UNCHANGED <<disk, metas, mdisk, mti_txnid, slot, rd, hist, spoiled, revived,
                   ops, reads>>

\* mdb_env_write_meta, through a descriptor that syncs.
NewMeta == [txnid |-> tx[1].id, main |-> tx[1].main, free |-> tx[1].free,
            last |-> tx[1].next - 1]
Recorded == hist' = Append(SubSeq(hist, 1, tx[1].id), tx[1].view)
WriteMetaAt(i) ==
    /\ pc = "meta"
    /\ metas' = [metas EXCEPT ![i] = NewMeta] /\ mdisk' = [mdisk EXCEPT ![i] = {NewMeta}]
    /\ Recorded
    /\ spoiled' = spoiled \ {i}
    /\ pc' = "publish"
    /\ UNCHANGED <<file, disk, mti_txnid, slot, rd, tx, env, sv, revived, ops,
                   faults, reads>>
WriteMeta == WriteMetaAt(tx[1].id % 2)

\* The write fails: the old transaction and size are written back over it, not
\* the databases, and nobody looks whether that worked or syncs it.  Of the two
\* writes, those in written reach the page cache, and any of them the disk.
\* MDB_FATAL_ERROR, and another process goes on.
WriteMetaFailsAt(i) ==
    LET old == metas[i]
        undone == [NewMeta EXCEPT !.txnid = old.txnid, !.last = old.last]
    IN  /\ pc = "meta" /\ faults < MaxFaults
        /\ \E written \in {<<>>, <<NewMeta>>, <<undone>>, <<NewMeta, undone>>} :
              /\ metas' = [metas EXCEPT ![i] = IF written = <<>> THEN old ELSE Last(written)]
              /\ mdisk' = [mdisk EXCEPT ![i] = mdisk[i] \cup Range(written)]
              /\ spoiled' = IF written = <<>> THEN spoiled ELSE spoiled \cup {i}
        /\ Recorded
        /\ faults' = faults + 1
        /\ End(0)
        /\ UNCHANGED <<file, disk, mti_txnid, slot, rd, revived, ops, reads>>
WriteMetaFails == WriteMetaFailsAt(tx[1].id % 2)

\* mti_txnid, and mdb_txn_end.
Publish ==
    /\ pc = "publish"
    /\ mti_txnid' = tx[1].id
    /\ End(env.oldest)
    /\ UNCHANGED <<file, disk, metas, mdisk, slot, rd, hist, spoiled, revived, ops,
                   faults, reads>>

-----------------------------------------------------------------------------
(* Read transactions, kills and power failures.                            *)

Reader(r, f) ==
    /\ rd' = [rd EXCEPT ![r] = f]
    /\ UNCHANGED <<file, disk, metas, mdisk, mti_txnid, pc, tx, env, sv, hist,
                   spoiled, revived, ops, faults>>

\* mdb_txn_renew0: the last transaction is read, stored in the reader's slot
\* and compared with the last transaction once more.
ReadTxnid(r) ==
    /\ rd[r].pc = "idle" /\ reads < MaxReads /\ reads' = reads + 1
    /\ Reader(r, [rd[r] EXCEPT !.pc = "store", !.val = mti_txnid])
    /\ UNCHANGED slot
StoreTxnid(r) ==
    /\ rd[r].pc = "store"
    /\ slot' = [slot EXCEPT ![r] = rd[r].val]
    /\ Reader(r, [rd[r] EXCEPT !.pc = "check"])
    /\ UNCHANGED reads
\* Mutant: not compared.
CheckTxnidNot(r) ==
    /\ rd[r].pc = "check"
    /\ Reader(r, [rd[r] EXCEPT !.pc = "copy"])
    /\ UNCHANGED <<slot, reads>>
CheckTxnid(r) ==
    /\ rd[r].pc = "check"
    /\ Reader(r, IF slot[r] = mti_txnid THEN [rd[r] EXCEPT !.pc = "copy"]
                 ELSE [rd[r] EXCEPT !.pc = "store", !.val = mti_txnid])
    /\ UNCHANGED <<slot, reads>>
\* The databases are copied from the meta page of that transaction.
CopyMeta(r) ==
    /\ rd[r].pc = "copy"
    /\ LET i == slot[r] % 2 IN
       Reader(r, [pc |-> "active", val |-> 0, main |-> metas[i].main,
                  view |-> hist[metas[i].txnid + 1], late |-> i \in spoiled])
    /\ UNCHANGED <<slot, reads>>
EndRead(r) ==
    /\ rd[r].pc = "active"
    /\ slot' = [slot EXCEPT ![r] = NoTxn]
    /\ Reader(r, [pc |-> "idle", val |-> 0, main |-> NoPage, view |-> Empty, late |-> FALSE])
    /\ UNCHANGED reads

\* mdb_env_pick_meta.
Newest == IF metas[0].txnid < metas[1].txnid THEN 1 ELSE 0

\* The writer is killed; the next one to lock the mutex recovers
\* (mdb_mutex_failed).
Kill ==
    /\ pc \notin {"idle", "dead"} /\ faults < MaxFaults /\ faults' = faults + 1
    /\ IF pc # "flush" THEN file' = file
       ELSE \E n \in 0..Cardinality(DOMAIN tx[1].dirty) : Flushed(n)
    /\ EndAt(0, "dead")
    /\ UNCHANGED <<disk, metas, mdisk, mti_txnid, slot, rd, hist, spoiled, revived,
                   ops, reads>>
Recover ==
    /\ pc = "dead"
    /\ pc' = "idle" /\ mti_txnid' = metas[Newest].txnid
    /\ revived' = (revived \/ Newest \in spoiled)
    /\ UNCHANGED <<file, disk, metas, mdisk, slot, rd, tx, env, sv, hist, spoiled,
                   ops, faults, reads>>

\* Power fails: the writes since the last sync are lost, or not (MetasLead is
\* about both files, and so about every mixture of them), and the next
\* process initialises the lock region (mdb_env_share_locks).
PowerFails ==
    /\ faults < MaxFaults /\ faults' = faults + 1
    /\ file' \in {disk, file}
    /\ disk' = file'
    /\ \E a \in mdisk[0], b \in mdisk[1] : metas' = [i \in 0..1 |-> <<a, b>>[i + 1]]
    /\ mdisk' = [i \in 0..1 |-> {metas'[i]}]
    /\ mti_txnid' = metas'[Newest'].txnid
    /\ revived' = (revived \/ Newest' \in spoiled)
    /\ slot' = [r \in Readers |-> NoTxn]
    /\ rd' = [r \in Readers |-> [pc |-> "idle", val |-> 0, main |-> NoPage, view |-> Empty,
                                 late |-> FALSE]]
    /\ End(0)
    /\ UNCHANGED <<hist, spoiled, ops, reads>>

-----------------------------------------------------------------------------
Saves == SaveDelete \/ SaveFreed \/ SaveHead \/ SaveDone
Next ==
    \/ BeginWrite \/ (\E k \in Keys : Put(k) \/ Del(k))
    \/ BeginChild \/ CommitChild \/ AbortChild \/ Abort \/ Commit
    \/ Saves \/ Flush \/ Sync \/ CommitFails \/ WriteMeta \/ WriteMetaFails \/ Publish
    \/ \E r \in Readers : ReadTxnid(r) \/ StoreTxnid(r) \/ CheckTxnid(r) \/ CopyMeta(r) \/ EndRead(r)
    \/ Kill \/ Recover \/ PowerFails

Spec == Init /\ [][Next]_vars

-----------------------------------------------------------------------------
(* Properties.                                                             *)

\* Page p is the root of a database with the content of view; get(p, q) is
\* page q of the item that begins at page p.
Shows(get(_, _), p, view) ==
    /\ (p = NoPage) = (view = Empty)
    /\ p # NoPage =>
         /\ get(p, p)[1] = "root" /\ DOMAIN get(p, p)[2] = DOMAIN view
         /\ \A k \in DOMAIN view : LET i == get(p, p)[2][k] IN
               \A q \in Run(i, PagesOf[k]) : get(i, q) = Item(k, view[k])

\* A reader sees the content it began with until it ends, whatever the writer
\* does meanwhile.
ReadersSee ==
    \A r \in Readers : rd[r].pc = "active" /\ ~rd[r].late =>
        Shows(LAMBDA p, q : file[q], rd[r].main, rd[r].view)

\* However reading and writing transactions begin and end meanwhile: the records
\* of the free database whose pages the writer takes (up to me_pglast) are older
\* than the transaction of every registered reader, and the meta page that the
\* reader copies is of that transaction or a later one (mdb_find_oldest,
\* mdb_txn_renew0).
ReadersRespected ==
    \A r \in Readers : rd[r].pc \in {"copy", "active"} =>
        /\ metas[slot[r] % 2].txnid >= slot[r]
        /\ env.last = 0 \/ env.last < slot[r]

\* Both meta pages lead to what their transactions committed.
MetasLead ==
    \A i \in {0, 1} \ spoiled :
        /\ Shows(LAMBDA p, q : file[q], metas[i].main, hist[metas[i].txnid + 1])
        /\ Shows(LAMBDA p, q : disk[q], metas[i].main, hist[metas[i].txnid + 1])

\* What was committed stays: in the page cache for readers that began with it,
\* whatever is committed and used again meanwhile, and behind both meta pages also
\* on disk, whenever the writer is killed, a write or sync fails or the power goes
\* (mdb_page_alloc, mdb_txn_commit, mdb_env_write_meta).
SnapshotsKept == ~revived => ReadersSee /\ MetasLead

\* mdb_audit: every page of the newest snapshot is in use once or listed as
\* free once, and nothing is freed twice.
PagesAccounted ==
    LET m == metas[Newest]
        root == IF m.main = NoPage THEN Empty ELSE file[m.main][2]
        recs == IF m.free = NoPage THEN Empty ELSE file[m.free][2]
        big == {i \in DOMAIN recs : recs[i].at # NoPage}
        parts == {<<"main", 0, {m.main} \ {NoPage}>>, <<"free", 0, {m.free} \ {NoPage}>>}
                 \cup {<<"item", k, Run(root[k], PagesOf[k])>> : k \in DOMAIN root}
                 \cup {<<"node", i, recs[i].ids>> : i \in DOMAIN recs}
                 \cup {<<"list", i, file[recs[i].at][2]>> : i \in big}
                 \cup {<<"over", i, Run(recs[i].at, OvPages(file[recs[i].at][3]))>> : i \in big}
    IN  /\ UNION {x[3] : x \in parts} = 2..m.last
        /\ \A x, y \in parts : x # y => x[3] \cap y[3] = {}
        /\ \A i \in DOMAIN tx : ~tx[i].twice

\* The writer reads back what it wrote, through its own and its parents'
\* dirty, spilled and loose pages.
WriterSees ==
    tx # <<>> /\ ~Failed(State) /\ pc = "txn" =>
        Shows(LAMBDA p, q : Get(State, IF Dirty(State, p) THEN p ELSE q), Top(State).main, Top(State).view)

\* mt_dirty_room is what is left of the dirty list, for a child together with
\* its parents' pages that it has not spilled.
DirtyRoom ==
    pc = "txn" =>
      \A i \in DOMAIN tx :
        tx[i].room = MDB_IDL_UM_MAX - Cardinality(
            {p \in UNION {DOMAIN tx[j].dirty : j \in 1..i} :
                \E j \in 1..i : p \in DOMAIN tx[j].dirty
                                /\ \A l \in (j + 1)..i : p \notin tx[l].spill})

\* mdb_freelist_save comes to an end although it changes what it saves.
SaveEnds == sv.turn <= MaxTurns

\* The free list is exact in every committed state and its saving ends: no
\* page is lost, listed twice or in use and free at once, whatever nested
\* transactions allocated, freed and undid before (mdb_freelist_save,
\* mdb_txn_end).
FreeListKept == PagesAccounted /\ SaveEnds

\* A transaction reads its own and its parents' writes, and its dirty room
\* agrees with its dirty lists (mdb_page_touch, mdb_page_unspill, mdb_page_get).
WriterRight == WriterSees /\ DirtyRoom
=============================================================================
