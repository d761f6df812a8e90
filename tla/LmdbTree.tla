------------------------------ MODULE LmdbTree ------------------------------
(***************************************************************************)
(* The B+tree of LMDB (liblmdb/mdb.c) inside one write transaction: the    *)
(* search, the insertion with page splits, the deletion with moves and     *)
(* merges of pages, and the cursors, which are paths of pages and indices  *)
(* that every change of the tree has to repair.  A database without        *)
(* duplicates; which page numbers are used is the subject of LmdbTxn, here *)
(* a page has the least free number.                                       *)
(*                                                                         *)
(* A page is a sequence of nodes: a key with a value in a leaf, a key with *)
(* a child page in a branch, where the first node has the empty key 0.     *)
(* Indices count from 0 as in the code.                                    *)
(***************************************************************************)
EXTENDS Integers, SequencesExt, FiniteSetsExt

CONSTANTS
    Keys, Vals, Cursors,    \* Cursors: positive numbers
    Ksz, Dsz,               \* sizes of the keys and of the values
    Cap,                    \* room of a page, a node's own cost being 1
    Levels,                 \* CURSOR_STACK: bound of the depth
    Loads,                  \* sequences of <<key, value>> stored at first
    MaxOps                  \* bound of the operations after the load

VARIABLES
    db,         \* the database of the transaction and its cursors
    map, pos,   \* what a caller sees of it: see View
    ops         \* number of operations so far

\* mdb_env_open2: me_nodemax lets every page have two nodes (larger values go
\* to overflow pages); MDB_MAXKEYSIZE lets a branch have many more.
ASSUME SizesAssumption ==
    /\ \A k \in Keys, v \in Vals : 2 * (1 + Ksz[k] + Dsz[v]) <= Cap
    /\ \A k \in Keys : 4 * (1 + Ksz[k]) <= Cap

End == Max(Keys) + 1
temp == 0                   \* the cursor of mdb_put and mdb_del

NoCursor == [pg |-> [l \in 0..Levels |-> 0], ki |-> [l \in 0..Levels |-> 0],
             n |-> 0, ini |-> FALSE, eof |-> FALSE, del |-> FALSE]
Empty == [pg |-> <<>>, root |-> 0, depth |-> 0, entries |-> 0, leafs |-> 0,
          branches |-> 0, cur |-> [c \in Cursors \cup {temp} |-> NoCursor],
          tr |-> Cursors \cup {temp}, bad |-> FALSE]

-----------------------------------------------------------------------------
(* Pages and nodes. *)

Size(leaf, nd) == 1 + (IF nd.k = 0 THEN 0 ELSE Ksz[nd.k]) + (IF leaf THEN Dsz[nd.v] ELSE 0)
Used(leaf, nodes) == FoldLeft(LAMBDA s, nd : s + Size(leaf, nd), 0, nodes)
NumKeys(w, p) == Len(w.pg[p].n)
Node(w, p, i) == w.pg[p].n[i + 1]
Left(w, p) == Cap - Used(w.pg[p].leaf, w.pg[p].n)

Top(w, c) == w.cur[c].n - 1
PageOf(w, c) == w.cur[c].pg[Top(w, c)]
IndexOf(w, c) == w.cur[c].ki[Top(w, c)]
FreshCursor(w) == Max(DOMAIN w.cur) + 1

\* mdb_page_new.
LeastFree(w) == CHOOSE p \in 1..Cardinality(DOMAIN w.pg) + 1 :
                    p \notin DOMAIN w.pg /\ 1..p - 1 \subseteq DOMAIN w.pg
WithPage(w, p, leaf, nodes) ==
    [w EXCEPT !.pg = [q \in DOMAIN @ \cup {p} |->
                         IF q = p THEN [leaf |-> leaf, n |-> nodes] ELSE @[q]],
              !.leafs = IF leaf THEN @ + 1 ELSE @,
              !.branches = IF leaf THEN @ ELSE @ + 1]
WithoutPage(w, p) == [w EXCEPT !.pg = [q \in DOMAIN @ \ {p} |-> @[q]]]

\* mdb_node_add answers MDB_PAGE_FULL without room, mdb_node_del asserts
\* that the node exists.
NodeAdd(w, p, i, nd) ==
    IF Left(w, p) < Size(w.pg[p].leaf, nd) THEN [w EXCEPT !.bad = TRUE]
    ELSE [w EXCEPT !.pg[p].n = InsertAt(@, i + 1, nd)]
NodeDel(w, p, i) ==
    IF i >= NumKeys(w, p) THEN [w EXCEPT !.bad = TRUE]
    ELSE [w EXCEPT !.pg[p].n = RemoveAt(@, i + 1)]

\* mdb_node_search: in a leaf the first node not below the key, in a branch
\* the last child whose keys begin at or below it.
NodeSearch(w, p, k) ==
    IF w.pg[p].leaf
    THEN Cardinality({i \in 1..NumKeys(w, p) : w.pg[p].n[i].k < k})
    ELSE Cardinality({i \in 2..NumKeys(w, p) : w.pg[p].n[i].k <= k})

\* mdb_page_search_lowest: the smallest key under a page.
RECURSIVE Lowest(_, _)
Lowest(w, p) == IF w.pg[p].leaf THEN Node(w, p, 0).k ELSE Lowest(w, Node(w, p, 0).v)

-----------------------------------------------------------------------------
(* Cursors. *)

\* All tracked cursors that fit `sel', changed by `fix'.
Adjust(w, Sel(_, _), Fix(_)) ==
    [w EXCEPT !.cur = [c \in DOMAIN @ |->
        IF c \in w.tr /\ Sel(c, @[c]) THEN Fix(@[c]) ELSE @[c]]]

\* The first n levels of `a', and `b' further down.
Graft(a, n, b) ==
    [b EXCEPT !.pg = [l \in 0..Levels |-> IF l < n THEN a.pg[l] ELSE b.pg[l]],
              !.ki = [l \in 0..Levels |-> IF l < n THEN a.ki[l] ELSE b.ki[l]]]
\* mdb_cursor_copy: from `a' to `b'.
CopyOver(a, b) ==
    [Graft(a, a.n, b) EXCEPT !.n = a.n, !.ini = a.ini, !.eof = a.eof, !.del = a.del]
WithCursor(w, c, cu) ==
    [w EXCEPT !.cur = [d \in DOMAIN @ \cup {c} |-> IF d = c THEN cu ELSE @[d]]]

\* mdb_cursor_push.
Push(cu, p) == [cu EXCEPT !.pg[cu.n] = p, !.ki[cu.n] = 0, !.n = @ + 1]

\* mdb_page_search, mdb_page_search_root: from the top page of the cursor down
\* to the leaf of a key; 0 finds the first leaf, End the last one.  The search
\* for the last leaf trusts the cursor's own path as far as it is the last.
RECURSIVE Walk(_, _, _)
Walk(w, cu, k) ==
    LET p == cu.pg[cu.n - 1]
        i == NodeSearch(w, p, k)
    IN IF w.pg[p].leaf THEN [cu EXCEPT !.ini = TRUE, !.eof = FALSE]
       ELSE IF k = End /\ cu.ini /\ cu.ki[cu.n - 1] = i
       THEN Walk(w, [cu EXCEPT !.n = @ + 1], k)
       ELSE Walk(w, Push([cu EXCEPT !.ki[cu.n - 1] = i], Node(w, p, i).v), k)
PageSearch(w, cu, k) == Walk(w, [cu EXCEPT !.pg[0] = w.root, !.n = 1], k)

\* mdb_cursor_sibling: the deepest level above the top page with a node to
\* the right (left), and from there the first (last) pages; `ok' when there is one.
CanMove(w, cu, right) ==
    {l \in 0..cu.n - 2 : IF right THEN cu.ki[l] + 1 < NumKeys(w, cu.pg[l]) ELSE cu.ki[l] > 0}
RECURSIVE Down(_, _, _, _)
Down(w, cu, n, right) ==
    IF cu.n = n THEN cu
    ELSE LET p == Node(w, cu.pg[cu.n - 1], cu.ki[cu.n - 1]).v
             i == IF right THEN 0 ELSE NumKeys(w, p) - 1
         IN Down(w, [Push(cu, p) EXCEPT !.ki[cu.n] = i], n, right)
Sibling(w, cu, right) ==
    LET l == Max(CanMove(w, cu, right))
    IN Down(w, [cu EXCEPT !.ki[l] = @ + (IF right THEN 1 ELSE -1), !.n = l + 1], cu.n, right)

\* mdb_cursor_set: on the page the cursor is on if the key must be there, or
\* else from the root.  `found' is the answer to MDB_SET; MDB_SET_RANGE goes on
\* to the next page.
InLeaf(w, cu, k) == [cu EXCEPT !.ki[cu.n - 1] = NodeSearch(w, cu.pg[cu.n - 1], k)]
OnTheNext(w, cu) ==
    IF cu.ki[cu.n - 1] < NumKeys(w, cu.pg[cu.n - 1]) THEN cu
    ELSE IF CanMove(w, cu, TRUE) = {} THEN [cu EXCEPT !.eof = TRUE]
    ELSE Sibling(w, cu, TRUE)
FromRoot(w, cu, range) == IF range THEN OnTheNext(w, cu) ELSE cu
SetCursor(w, cu, k, range) ==
    LET p == cu.pg[cu.n - 1]
        n == NumKeys(w, p)
        first == Node(w, p, 0).k
    IN IF cu.ini /\ first <= k /\ k <= Node(w, p, n - 1).k
       THEN [InLeaf(w, cu, k) EXCEPT !.eof = FALSE]
       ELSE IF cu.ini /\ k > first /\ CanMove(w, cu, TRUE) = {}
       THEN [cu EXCEPT !.ki[cu.n - 1] = n]
       ELSE IF cu.ini /\ cu.n = 1
       THEN [cu EXCEPT !.ki[0] = 0, !.eof = @ /\ ~range]
       ELSE FromRoot(w, InLeaf(w, PageSearch(w, cu, k), k), range)
Found(w, cu, k) ==
    LET p == cu.pg[cu.n - 1]
        i == cu.ki[cu.n - 1]
    IN i < NumKeys(w, p) /\ Node(w, p, i).k = k

-----------------------------------------------------------------------------
(* Splitting a page. *)

\* mdb_page_split: where to cut the nodes `all' of a page that is too full, the
\* new one being at `new'.  The sizes are added up from the end the new node
\* is near to until a page is full or the middle is passed.  (With hundreds of
\* small nodes on a page the code takes the middle at once.)
SplitIndex(leaf, all, new) ==
    LET nkeys == Len(all) - 1
        mid == (nkeys + 1) \div 2
        up == new <= mid \/ new >= nkeys
        k == IF new >= nkeys THEN nkeys ELSE mid + 1 + (IF leaf THEN 1 ELSE 0)
        Full(i) == Used(leaf, IF up THEN SubSeq(all, 1, i + 1) ELSE SubSeq(all, i + 1, nkeys + 1)) > Cap
    IN IF up THEN Min({k - 1} \cup {i \in 0..k - 1 : Full(i)})
       ELSE Max({mid} \cup {i \in mid..nkeys : Full(i)}) + 1

\* A new root above the page `p' the cursor is on.
Shift(cu, pp, i) ==
    [cu EXCEPT !.pg = [l \in 0..Levels |-> IF l = 0 THEN pp ELSE cu.pg[l - 1]],
               !.ki = [l \in 0..Levels |-> IF l = 0 THEN i ELSE cu.ki[l - 1]],
               !.n = @ + 1]
NewRoot(w, c, p) ==
    LET pp == LeastFree(w)
        v == WithPage(w, pp, FALSE, <<[k |-> 0, v |-> p]>>)
    IN [v EXCEPT !.root = pp, !.depth = @ + 1, !.cur[c] = Shift(@, pp, 0)]

NullFirst(leaf, nodes) == IF leaf THEN nodes ELSE [nodes EXCEPT ![1].k = 0]

\* A split is described by a record: the cursor c, the page p and its nodes
\* `all' with the new one at `new', cut at s; the right page rp; the
\* temporary cursor mn on the right page; and whether the node replaces one
\* and the page is the root.
SplitOf(w, c, all, replace, p, new) ==
    [c |-> c, p |-> p, all |-> all, new |-> new, s |-> SplitIndex(w.pg[p].leaf, all, new),
     leaf |-> w.pg[p].leaf, rp |-> LeastFree(w), mn |-> FreshCursor(w),
     replace |-> replace, root |-> Top(w, c) = 0]
RightOf(j) == NullFirst(j.leaf, SubSeq(j.all, j.s + 1, Len(j.all)))
LeftOf(j) == NullFirst(j.leaf, SubSeq(j.all, 1, j.s))
SepOf(j) == [k |-> j.all[j.s + 1].k, v |-> j.rp]
CutRight(j) ==
    /\ j.s \in 1..Len(j.all) - 1
    /\ Used(j.leaf, RightOf(j)) <= Cap /\ Used(j.leaf, LeftOf(j)) <= Cap

\* The new pages, and mn.
SplitMn(cu, rp) == [cu EXCEPT !.pg[cu.n - 1] = rp, !.ki[cu.n - 2] = @ + 1]
SplitCursor(w, j) == WithCursor(w, j.mn, SplitMn(w.cur[j.c], j.rp))
SplitRoot(w, j) == IF j.root THEN NewRoot(w, j.c, j.p) ELSE w
SplitNew(w, j) == SplitCursor(SplitRoot(WithPage(w, j.rp, j.leaf, <<>>), j), j)
ParentOf(w, j) == w.cur[j.c].pg[Top(w, j.c) - 1]
ParentFull(w, j) == Left(w, ParentOf(w, j)) < Size(FALSE, SepOf(j))

\* The left page may have changed its parent with a split of the parent; mn
\* knows the parent of the right page.
Moved(w, mc, mn, pt) == mn.pg[pt] # mc.pg[pt] /\ mc.ki[pt] >= NumKeys(w, mc.pg[pt])
LeftLost(w, mc, mn, pt) ==
    Moved(w, mc, mn, pt) /\ mn.ki[pt] = 0 /\ CanMove(w, [mn EXCEPT !.n = pt + 2], FALSE) = {}
BeforeMn(w, to, pt) ==
    IF to.ki[pt] > 0 THEN [to EXCEPT !.ki[pt] = @ - 1] ELSE Sibling(w, to, FALSE)
LeftPath(w, mc, mn, pt) ==
    IF Moved(w, mc, mn, pt) THEN BeforeMn(w, Graft(mn, pt + 1, mc), pt) ELSE mc
\* The cursor itself is on the new node, on the left or on the right page.
RightPath(w, mc, mn, pt) == IF Moved(w, mc, mn, pt) THEN Graft(mn, pt + 1, mc) ELSE mc
OnNewNode(w, mc, mn, pt, j) ==
    IF j.new < j.s THEN [mc EXCEPT !.pg[pt + 1] = j.p, !.ki[pt + 1] = j.new]
    ELSE RightPath(w, [mc EXCEPT !.pg[pt + 1] = j.rp, !.ki[pt + 1] = j.new - j.s,
                                 !.ki[pt] = @ + 1], mn, pt)

\* The other cursors: under a new root, then on the right page when their node
\* is there now, or one further in the parent.
Bump(j, i) == IF i >= j.new /\ ~j.replace THEN i + 1 ELSE i
OnCutPage(m, mn, top, i, j) ==
    IF i < j.s THEN [m EXCEPT !.ki[top] = i]
    ELSE Graft(mn, top, [m EXCEPT !.pg[top] = j.rp, !.ki[top] = i - j.s])
SplitFix(m, mc, mn, top, didsplit, j) ==
    IF m.n > top /\ m.pg[top] = j.p THEN OnCutPage(m, mn, top, Bump(j, m.ki[top]), j)
    ELSE IF ~didsplit /\ m.n >= top /\ m.pg[top - 1] = mc.pg[top - 1]
                      /\ m.ki[top - 1] >= mc.ki[top - 1]
    THEN [m EXCEPT !.ki[top - 1] = @ + 1]
    ELSE m
UnderRoot(m, mc, j) ==
    IF j.root THEN Shift(m, mc.pg[0], IF m.ki[0] >= j.s THEN 1 ELSE 0) ELSE m
SplitOthers(w, mc, didsplit, j) ==
    Adjust(w, LAMBDA d, m : d # j.c /\ m.ini /\ (j.root => m.pg[0] = j.p),
           LAMBDA m : SplitFix(UnderRoot(m, mc, j), mc, w.cur[j.mn], mc.n - 1, didsplit, j))

\* The nodes go to the two pages once the parent points to both.
SplitNodes(w, mc, didsplit, j) ==
    SplitOthers([w EXCEPT !.pg[j.p].n = LeftOf(j), !.pg[j.rp].n = RightOf(j),
                          !.cur[j.c] = mc, !.tr = @ \ {j.mn}], mc, didsplit, j)
SplitRest(w, didsplit, pt, j) ==
    IF w.bad \/ ~CutRight(j) \/ (didsplit /\ LeftLost(w, w.cur[j.c], w.cur[j.mn], pt))
    THEN [w EXCEPT !.bad = TRUE]
    ELSE SplitNodes(w, OnNewNode(w, IF didsplit THEN LeftPath(w, w.cur[j.c], w.cur[j.mn], pt)
                                    ELSE w.cur[j.c], w.cur[j.mn], pt, j), didsplit, j)
SplitEnd(w, didsplit, j) == SplitRest(w, didsplit, Top(w, j.c) - 1, j)

RECURSIVE Split(_, _, _, _)
SplitParent(w, j) ==
    IF ParentFull(w, j)
    THEN SplitEnd(Split([w EXCEPT !.cur[j.mn].n = @ - 1, !.tr = @ \cup {j.mn}],
                        j.mn, SepOf(j), FALSE), TRUE, j)
    ELSE SplitEnd(NodeAdd(w, ParentOf(w, j), w.cur[j.mn].ki[Top(w, j.c) - 1], SepOf(j)),
                  FALSE, j)
SplitAs(w, j) == SplitParent(SplitNew(w, j), j)
Split(w, c, nd, replace) ==
    SplitAs(w, SplitOf(w, c, InsertAt(w.pg[PageOf(w, c)].n, IndexOf(w, c) + 1, nd),
                       replace, PageOf(w, c), IndexOf(w, c)))

\* mdb_update_key: a longer key may have no room in its branch page.
UpdateKey(w, c, k) ==
    LET p == PageOf(w, c)
        i == IndexOf(w, c)
        nd == [Node(w, p, i) EXCEPT !.k = k]
    IN IF Size(FALSE, nd) - Size(FALSE, Node(w, p, i)) > Left(w, p)
       THEN Split(NodeDel(w, p, i), c, nd, TRUE)
       ELSE [w EXCEPT !.pg[p].n[i + 1].k = k]

-----------------------------------------------------------------------------
(* Inserting: _mdb_cursor_put. *)

\* Mutant: other cursors are left alone.
InsertedAlone(w, c) == w

\* The other cursors on a page with a new node.
Inserted(w, c) ==
    LET mc == w.cur[c]
        top == mc.n - 1
    IN Adjust(w, LAMBDA d, cu : d # c /\ cu.n >= mc.n /\ cu.pg[top] = mc.pg[top]
                                /\ cu.ki[top] >= mc.ki[top],
              LAMBDA cu : [cu EXCEPT !.ki[top] = @ + 1])
Added(w, c, nd, insert) ==
    IF Left(w, PageOf(w, c)) < Size(TRUE, nd) THEN Split(w, c, nd, ~insert)
    ELSE IF insert THEN Inserted(NodeAdd(w, PageOf(w, c), IndexOf(w, c), nd), c)
    ELSE NodeAdd(w, PageOf(w, c), IndexOf(w, c), nd)
Store(w, c, nd, insert) ==
    [Added(w, c, nd, insert) EXCEPT !.entries = IF insert THEN @ + 1 ELSE @,
                                    !.cur[c].ini = @ \/ insert]

NewTree(w, c, p) ==
    [WithPage(w, p, TRUE, <<>>) EXCEPT
        !.root = p, !.depth = 1,
        !.cur[c] = Push([NoCursor EXCEPT !.eof = w.cur[c].eof, !.ini = TRUE], p)]
Overwrite(w, c, nd, p, i) ==
    IF Dsz[Node(w, p, i).v] = Dsz[nd.v] THEN [w EXCEPT !.pg[p].n[i + 1] = nd]
    ELSE Store(NodeDel(w, p, i), c, nd, FALSE)
PutThere(w, c, nd) ==
    IF Found(w, w.cur[c], nd.k) THEN Overwrite(w, c, nd, PageOf(w, c), IndexOf(w, c))
    ELSE Store(w, c, nd, TRUE)
CursorPut(w, c, nd) ==
    IF w.root = 0 THEN Store(NewTree(w, c, LeastFree(w)), c, nd, TRUE)
    ELSE PutThere([w EXCEPT !.cur[c] = [SetCursor(w, @, nd.k, FALSE) EXCEPT !.del = FALSE]],
                  c, nd)

-----------------------------------------------------------------------------
(* Deleting. *)

Copied(w, m, cu) == WithCursor(w, m, [cu EXCEPT !.n = @ - 1])
\* The separator of a page whose first node has changed, in its parent: found
\* with a tracked copy of the cursor; the first node itself has no key.
NewKey(w, c, m, k) == UpdateKey([Copied(w, m, w.cur[c]) EXCEPT !.tr = @ \cup {m}], m, k)
FirstKeyless(w, p, tr) == [w EXCEPT !.tr = tr, !.pg[p].n = NullFirst(w.pg[p].leaf, @)]
Separator(w, c) ==
    LET cu == w.cur[c] IN
    IF cu.ki[cu.n - 1] # 0 THEN w
    ELSE IF cu.ki[cu.n - 2] = 0 THEN FirstKeyless(w, PageOf(w, c), w.tr)
    ELSE FirstKeyless(NewKey(w, c, FreshCursor(w), Node(w, PageOf(w, c), 0).k),
                      PageOf(w, c), w.tr)

\* mdb_node_move: one node from the page of `s' to that of `d'.
MoveFix(m3, cs, cd, fromleft, isd) ==
    LET top == cs.n - 1
        to == [m3 EXCEPT !.pg[top] = cd.pg[top], !.ki[top] = cd.ki[top],
                         !.ki[top - 1] = IF fromleft THEN @ + 1 ELSE @ - 1]
    IN IF fromleft /\ ~isd /\ m3.pg[top] = cd.pg[top] /\ m3.ki[top] >= cd.ki[top]
       THEN [m3 EXCEPT !.ki[top] = @ + 1]
       ELSE IF fromleft /\ m3.pg[top] = cs.pg[top] /\ m3.ki[top] = cs.ki[top] THEN to
       ELSE IF ~fromleft /\ m3.pg[top] = cs.pg[top]
       THEN IF m3.ki[top] = 0 THEN to ELSE [m3 EXCEPT !.ki[top] = @ - 1]
       ELSE m3
MoveOthers(w, s, d, fromleft) ==
    [w EXCEPT !.cur = [c \in DOMAIN @ |->
        IF c \in w.tr /\ c # s /\ @[c].ini /\ @[c].n >= w.cur[s].n
        THEN MoveFix(@[c], w.cur[s], w.cur[d], fromleft, c = d) ELSE @[c]]]
MoveNode(w, s, d, nd) ==
    NodeDel(NodeAdd(w, PageOf(w, d), IndexOf(w, d), nd), PageOf(w, s), IndexOf(w, s))
MoveEnd(w, s, d, fromleft) ==
    IF w.bad THEN w ELSE Separator(Separator(MoveOthers(w, s, d, fromleft), s), d)
\* A branch page gets the key of its first node before another goes there.
KeyFirst(w, d, m) ==
    IF w.pg[PageOf(w, d)].leaf \/ IndexOf(w, d) # 0 THEN w
    ELSE UpdateKey(WithCursor(w, m, w.cur[d]), m, Lowest(w, PageOf(w, d)))
WithKey(w, p, i) ==
    IF ~w.pg[p].leaf /\ i = 0 THEN [Node(w, p, i) EXCEPT !.k = Lowest(w, p)] ELSE Node(w, p, i)
NodeMove(w, s, d, fromleft) ==
    MoveEnd(MoveNode(KeyFirst(w, d, FreshCursor(w)), s, d, WithKey(w, PageOf(w, s), IndexOf(w, s))),
            s, d, fromleft)

\* Mutant: cursors further right in the parent keep their index.
MergeFixHere(m3, cs, cd, nkeys) ==
    LET top == cs.n - 1
    IN IF m3.pg[top] # cs.pg[top] THEN m3
       ELSE [m3 EXCEPT !.pg[top] = cd.pg[top], !.ki[top] = @ + nkeys,
                       !.ki[top - 1] = cd.ki[top - 1]]

\* mdb_page_merge: the nodes of the page of `s' go behind those of the page of
\* `d', and the parent loses a node.
MergeFix(m3, cs, cd, nkeys) ==
    LET top == cs.n - 1
    IN IF m3.pg[top] = cs.pg[top]
       THEN [m3 EXCEPT !.pg[top] = cd.pg[top], !.ki[top] = @ + nkeys,
                       !.ki[top - 1] = cd.ki[top - 1]]
       ELSE IF m3.pg[top - 1] = cs.pg[top - 1] /\ m3.ki[top - 1] > cs.ki[top - 1]
       THEN [m3 EXCEPT !.ki[top - 1] = @ - 1] ELSE m3
MergeNodes(w, ps, pd) ==
    [w EXCEPT !.pg[pd].n = @ \o [i \in 1..NumKeys(w, ps) |-> WithKey(w, ps, i - 1)]]
Unlink(w, ps, pp, i) ==
    [WithoutPage(NodeDel(w, pp, i), ps) EXCEPT
        !.pg[pp].n = IF i = 0 THEN NullFirst(FALSE, @) ELSE @,
        !.leafs = IF w.pg[ps].leaf THEN @ - 1 ELSE @,
        !.branches = IF w.pg[ps].leaf THEN @ ELSE @ - 1]
MergeOthers(w, s, d, nkeys) ==
    Adjust(w, LAMBDA c, cu : c # s /\ cu.n >= w.cur[s].n,
           LAMBDA cu : MergeFix(cu, w.cur[s], w.cur[d], nkeys))
MergeInto(w, s, d, nkeys) ==
    IF Left(w, PageOf(w, d)) < 0 THEN [w EXCEPT !.bad = TRUE]
    ELSE MergeOthers(Unlink(w, PageOf(w, s), w.cur[s].pg[Top(w, s) - 1],
                            w.cur[s].ki[Top(w, s) - 1]), s, d, nkeys)
MergePages(w, s, d) ==
    MergeInto(MergeNodes(w, PageOf(w, s), PageOf(w, d)), s, d, NumKeys(w, PageOf(w, d)))

\* mdb_rebalance of the root page.
EmptyTree(w, c) ==
    LET p == w.cur[c].pg[0]
        v == [WithoutPage(w, p) EXCEPT !.root = 0, !.depth = 0, !.leafs = 0,
                                       !.cur[c].n = 0, !.cur[c].ini = FALSE]
    IN Adjust(v, LAMBDA d, cu : cu.ini /\ cu.pg[0] = p,
              LAMBDA cu : [cu EXCEPT !.n = 0, !.ini = FALSE])
Unshift(cu, n) ==
    [cu EXCEPT !.pg = [l \in 0..Levels |-> IF l < n THEN cu.pg[l + 1] ELSE cu.pg[l]],
               !.ki = [l \in 0..Levels |-> IF l < n THEN cu.ki[l + 1] ELSE cu.ki[l]]]
CollapseRoot(w, c) ==
    LET p == w.cur[c].pg[0]
        r == Node(w, p, 0).v
        n == w.depth - 1
        v == [WithoutPage(w, p) EXCEPT !.root = r, !.depth = n, !.branches = @ - 1,
                                       !.cur[c] = [Unshift(@, n) EXCEPT !.pg[0] = r]]
    IN Adjust(v, LAMBDA d, cu : d # c /\ cu.ini /\ cu.pg[0] = p,
              LAMBDA cu : [Unshift(cu, n) EXCEPT !.n = @ - 1])

\* mdb_rebalance: a page that is too empty takes a node from a neighbour, or
\* the two become one, and the parent is next.
EnoughOn(w, p, more) ==
    IF w.pg[p].leaf THEN 4 * Used(TRUE, w.pg[p].n) >= Cap /\ NumKeys(w, p) >= 1 + more
    ELSE NumKeys(w, p) >= 2 + more
RECURSIVE Rebalance(_, _)
Height(w, d, n, depth) == [w EXCEPT !.cur[d].n = n + w.depth - depth]
MergeUp(w, d) ==
    IF w.bad THEN w
    ELSE Height(Rebalance([w EXCEPT !.cur[d].n = @ - 1], d), d, w.cur[d].n, w.depth)
Merge(w, s, d) == MergeUp(MergePages(w, s, d), d)

\* The cursor m is on the neighbour q, to the left if there is one.
Neighbour(cu, i, q, ki) ==
    [cu EXCEPT !.ki[cu.n - 2] = i, !.pg[cu.n - 1] = q, !.ki[cu.n - 1] = ki]
OnOld(cu, ki, moved) == [cu EXCEPT !.ki[cu.n - 1] = ki, !.eof = @ /\ moved]
Back(w, c, ki, tr, moved) == [w EXCEPT !.tr = tr, !.cur[c] = OnOld(@, ki, moved)]
FromRight(w, c, m, q, old) ==
    IF EnoughOn(w, q, 1) THEN Back(NodeMove(w, m, c, FALSE), c, old, w.tr, TRUE)
    ELSE Back(Merge(w, m, c), c, old, w.tr, FALSE)
MergedLeft(w, c, m) == [w EXCEPT !.cur[c] = CopyOver(w.cur[m], @)]
Behind(w, c, m) == [w EXCEPT !.cur[m].ki[Top(w, m)] = @ + 1, !.tr = @ \cup {m}]
FromLeft(w, c, m, q, old) ==
    IF EnoughOn(w, q, 1) THEN Back(NodeMove(w, m, c, TRUE), c, old + 1, w.tr, TRUE)
    ELSE Back(MergedLeft(Merge(Behind(w, c, m), c, m), c, m), c, old + NumKeys(w, q), w.tr, FALSE)
RebalanceWith(w, c, cu, m) ==
    LET i == cu.ki[cu.n - 2]
        parent == cu.pg[cu.n - 2]
        l == Node(w, parent, i - 1).v
        r == Node(w, parent, i + 1).v
        at == [w EXCEPT !.cur[c].ki[cu.n - 1] = IF i = 0 THEN NumKeys(w, cu.pg[cu.n - 1]) ELSE 0]
    IN IF NumKeys(w, parent) < 2 THEN [w EXCEPT !.bad = TRUE]
       ELSE IF i = 0
       THEN FromRight(WithCursor(at, m, Neighbour(cu, 1, r, 0)), c, m, r, cu.ki[cu.n - 1])
       ELSE FromLeft(WithCursor(at, m, Neighbour(cu, i - 1, l, NumKeys(w, l) - 1)), c, m, l,
                     cu.ki[cu.n - 1])
RebalanceRoot(w, c, p) ==
    IF NumKeys(w, p) = 0 THEN EmptyTree(w, c)
    ELSE IF ~w.pg[p].leaf /\ NumKeys(w, p) = 1 THEN CollapseRoot(w, c)
    ELSE w
Rebalance(w, c) ==
    IF EnoughOn(w, PageOf(w, c), 0) THEN w
    ELSE IF w.cur[c].n < 2 THEN RebalanceRoot(w, c, PageOf(w, c))
    ELSE RebalanceWith(w, c, w.cur[c], FreshCursor(w))

\* mdb_cursor_del0: cursors on the node now stand in front of the next one;
\* those behind the last node of the page go to the next page.
Deleted(w, c) ==
    LET mc == w.cur[c]
        top == mc.n - 1
    IN Adjust(w, LAMBDA d, cu : d # c /\ cu.ini /\ cu.n >= mc.n
                                /\ cu.pg[top] = mc.pg[top] /\ cu.ki[top] >= mc.ki[top],
              LAMBDA cu : IF cu.ki[top] = mc.ki[top] THEN [cu EXCEPT !.del = TRUE]
                          ELSE [cu EXCEPT !.ki[top] = @ - 1])
PastPage(w, c) ==
    LET mc == w.cur[c]
        top == mc.n - 1
    IN Adjust(w, LAMBDA d, cu : cu.ini /\ cu.n >= mc.n /\ cu.pg[top] = mc.pg[top]
                                /\ cu.ki[top] >= mc.ki[top]
                                /\ cu.ki[top] >= NumKeys(w, mc.pg[top]),
              LAMBDA cu : IF CanMove(w, cu, TRUE) = {} THEN [cu EXCEPT !.eof = TRUE]
                          ELSE Sibling(w, cu, TRUE))
DelEnd(w, c) ==
    IF w.bad THEN w
    ELSE IF w.cur[c].n = 0 THEN [w EXCEPT !.cur[c].eof = TRUE]
    ELSE [PastPage(w, c) EXCEPT !.cur[c].del = TRUE]
DelNode(w, c) == [NodeDel(w, PageOf(w, c), IndexOf(w, c)) EXCEPT !.entries = @ - 1]
CursorDel(w, c) == DelEnd(Rebalance(Deleted(DelNode(w, c), c), c), c)

-----------------------------------------------------------------------------
(* The operations on the database; the cursors left to the caller have no   *)
(* temporary cursors beside them, and nothing below their leaf.             *)

Tidy(cu) == [cu EXCEPT !.pg = [l \in 0..Levels |-> IF l < cu.n THEN @[l] ELSE 0],
                       !.ki = [l \in 0..Levels |-> IF l < cu.n THEN @[l] ELSE 0]]
Done(w) == [w EXCEPT !.cur = [c \in Cursors \cup {temp} |->
                                 IF c = temp THEN NoCursor ELSE Tidy(@[c])]]

\* What a caller sees: the keys that mdb_get finds, and where each cursor is.
Answer(w, cu, k) == IF Found(w, cu, k) THEN {Node(w, cu.pg[cu.n - 1], cu.ki[cu.n - 1])} ELSE {}
mdb_get(w, k) == IF w.root = 0 THEN {} ELSE Answer(w, SetCursor(w, NoCursor, k, FALSE), k)
AsMap(nds) == [k \in {nd.k : nd \in nds} |-> (CHOOSE nd \in nds : nd.k = k).v]
MapOf(w) == AsMap(UNION {mdb_get(w, k) : k \in Keys})
PosOf(w, cu) ==
    LET p == cu.pg[cu.n - 1]
        i == cu.ki[cu.n - 1]
    IN IF ~cu.ini THEN [k |-> 0, gap |-> FALSE, eof |-> FALSE]
       ELSE IF i < NumKeys(w, p) THEN [k |-> Node(w, p, i).k, gap |-> cu.del, eof |-> cu.eof]
       ELSE [k |-> End, gap |-> FALSE, eof |-> TRUE]
View ==
    /\ map' = MapOf(db')
    /\ pos' = [c \in Cursors |-> PosOf(db', db'.cur[c])]

Op(w) == ops < MaxOps /\ ops' = ops + 1 /\ db' = Done(w) /\ View
Get(c, cu) == Op([db EXCEPT !.cur[c] = [cu EXCEPT !.del = FALSE]])

Load(w, kv) == Done(CursorPut(w, temp, [k |-> kv[1], v |-> kv[2]]))
Init ==
    /\ \E load \in Loads : db = FoldLeft(Load, Empty, load)
    /\ map = MapOf(db)
    /\ pos = [c \in Cursors |-> PosOf(db, db.cur[c])]
    /\ ops = 0

\* mdb_put, mdb_cursor_put.
Put(k, v) == Op(CursorPut(db, temp, [k |-> k, v |-> v]))
PutAt(c, k, v) == Op(CursorPut(db, c, [k |-> k, v |-> v]))

\* mdb_del, mdb_cursor_del.
CanDel(cu, k) == db.root # 0 /\ Found(db, cu, k)
Delete(at, k) == CanDel(at, k) /\ Op(CursorDel([db EXCEPT !.cur[temp] = at], temp))
Del(k) == db.root # 0 /\ Delete(SetCursor(db, NoCursor, k, FALSE), k)
DelAt(c) ==
    /\ db.cur[c].ini
    /\ IndexOf(db, c) < NumKeys(db, PageOf(db, c))
    /\ Op(CursorDel(db, c))

\* mdb_cursor_get.
EdgeOf(at, n, k) == [at EXCEPT !.ki[at.n - 1] = IF k = End THEN n - 1 ELSE 0,
                               !.ini = TRUE, !.eof = k = End]
OnEdge(at, k) == EdgeOf(at, NumKeys(db, at.pg[at.n - 1]), k)
AtEdge(cu, k) == IF db.root = 0 THEN cu
                 ELSE OnEdge(IF cu.ini /\ cu.n = 1 THEN cu ELSE PageSearch(db, cu, k), k)
NextOf(cu, n, i) ==
    IF cu.eof /\ i + 1 >= n THEN cu
    ELSE IF cu.del THEN [cu EXCEPT !.eof = FALSE]
    ELSE IF i + 1 < n THEN [cu EXCEPT !.eof = FALSE, !.ki[cu.n - 1] = i + 1]
    ELSE IF CanMove(db, cu, TRUE) = {} THEN [cu EXCEPT !.eof = TRUE]
    ELSE [Sibling(db, cu, TRUE) EXCEPT !.eof = FALSE]
PrevOf(cu, i) ==
    IF i > 0 THEN [cu EXCEPT !.eof = FALSE, !.ki[cu.n - 1] = i - 1]
    ELSE IF CanMove(db, cu, FALSE) = {} THEN [cu EXCEPT !.eof = FALSE]
    ELSE [Sibling(db, cu, FALSE) EXCEPT !.eof = FALSE]
BeforeEnd(cu) == IF db.root = 0 THEN cu ELSE PrevOf(cu, cu.ki[cu.n - 1] + 1)

GetFirst(c) == Get(c, AtEdge(db.cur[c], 0))
GetLast(c) == Get(c, AtEdge(db.cur[c], End))
GetNext(c) ==
    Get(c, IF db.cur[c].ini THEN NextOf(db.cur[c], NumKeys(db, PageOf(db, c)), IndexOf(db, c))
           ELSE AtEdge(db.cur[c], 0))
GetPrev(c) ==
    Get(c, IF db.cur[c].ini THEN PrevOf(db.cur[c], IndexOf(db, c))
           ELSE BeforeEnd(AtEdge(db.cur[c], End)))
SetRange(c, k) == Get(c, IF db.root = 0 THEN db.cur[c] ELSE SetCursor(db, db.cur[c], k, TRUE))
GetCurrent(c) ==
    /\ db.cur[c].ini
    /\ Get(c, [db.cur[c] EXCEPT
                  !.ki[Top(db, c)] = Min({@, NumKeys(db, PageOf(db, c))})])

Next ==
    \/ \E k \in Keys, v \in Vals : Put(k, v)
    \/ \E c \in Cursors, k \in Keys, v \in Vals : PutAt(c, k, v)
    \/ \E k \in Keys : Del(k)
    \/ \E c \in Cursors : DelAt(c)
    \/ \E c \in Cursors : GetFirst(c)
    \/ \E c \in Cursors : GetLast(c)
    \/ \E c \in Cursors : GetNext(c)
    \/ \E c \in Cursors : GetPrev(c)
    \/ \E c \in Cursors, k \in Keys : SetRange(c, k)
    \/ \E c \in Cursors : GetCurrent(c)

vars == <<db, map, pos, ops>>
Spec == Init /\ [][Next]_vars

-----------------------------------------------------------------------------
(* Properties. *)

\* The pages of the level below a level, and all levels of a tree.
Below(w, up) ==
    FlattenSeq([i \in 1..Len(up) |-> [j \in 1..NumKeys(w, up[i]) |-> w.pg[up[i]].n[j].v]])
LevelsOf(w) ==
    FoldLeft(LAMBDA ls, l : Append(ls, Below(w, ls[l])), <<<<w.root>>>>, [l \in 1..w.depth - 1 |-> l])

\* The tree is well formed after every operation: all leaves have the same
\* depth, no page is lost or shared, the keys are in order, a separator is not
\* above the first key under it and above all keys before it, pages are neither
\* too full nor too empty, the counters of MDB_stat are right, and no
\* assertion, MDB_PAGE_FULL or MDB_PROBLEM was met.
Between(s, seps) ==
    \A i \in 1..Len(s) : \A nd \in seps : nd.low > s[i].k => nd.k > s[i].k
Sound(w, levels) ==
    LET leaves == levels[w.depth]
        pages == FlattenSeq(levels)
        chain == FlattenSeq([i \in 1..Len(leaves) |-> w.pg[leaves[i]].n])
        seps == {[k |-> nd.k, low |-> Lowest(w, nd.v)] :
                    nd \in UNION {Range(Tail(w.pg[p].n)) : p \in DOMAIN w.pg \ Range(leaves)}}
    IN /\ IsInjective(pages) /\ Range(pages) = DOMAIN w.pg
       /\ \A p \in DOMAIN w.pg :
            /\ w.pg[p].leaf = (p \in Range(leaves))
            /\ Left(w, p) >= 0
            /\ NumKeys(w, p) >= IF w.pg[p].leaf THEN 1 ELSE 2
            /\ ~w.pg[p].leaf => Node(w, p, 0).k = 0
       /\ \A i \in 1..Len(chain) - 1 : chain[i].k < chain[i + 1].k
       /\ \A nd \in seps : nd.k <= nd.low
       /\ Between(chain, seps)
       /\ w.entries = Len(chain) /\ w.leafs = Len(leaves)
       /\ w.branches = Cardinality(DOMAIN w.pg) - Len(leaves)
TreeRight ==
    /\ ~db.bad
    /\ IF db.root = 0 THEN db.pg = <<>> /\ db.entries = 0 /\ db.depth = 0
       ELSE Sound(db, LevelsOf(db))

\* Every initialised cursor is a path from the root to a leaf after every
\* operation, whoever split, moved or merged the pages it goes through.
CursorsOnPath ==
    \A c \in Cursors :
        LET cu == db.cur[c] IN
        IF cu.ini
        THEN /\ cu.n = db.depth /\ cu.pg[0] = db.root
             /\ \A l \in 0..cu.n - 2 :
                  /\ cu.ki[l] < NumKeys(db, cu.pg[l])
                  /\ Node(db, cu.pg[l], cu.ki[l]).v = cu.pg[l + 1]
        ELSE cu.n = 0

\* Splits, moves, merges and root changes leave a well formed tree in which the
\* cursors they adjust are still paths (mdb_page_split, mdb_node_move,
\* mdb_page_merge, mdb_rebalance).
TreeSound == TreeRight /\ CursorsOnPath

Map == INSTANCE OrderedMap

\* The tree with its cursors is an ordered map: every key stored is found with
\* its last value, and every cursor is where the documentation says it is.
IsOrderedMap == Map!Spec
=============================================================================
