-------------------------------- MODULE Midl --------------------------------
(***************************************************************************)
(* Lists of page numbers of LMDB (midl.c): arrays that know their size, in *)
(* descending order when sorted, and the ascending list of dirty pages.    *)
(* They are checked against the sets and bags they stand for.              *)
(***************************************************************************)
EXTENDS Integers, Sequences, SequencesExt, FiniteSetsExt

CONSTANTS
    IdMax,          \* page numbers are 1..IdMax
    IdlMax,         \* MDB_IDL_UM_MAX
    SMALL,          \* SMALL of mdb_midl_sort
    Grain,          \* lists grow to a multiple of this (256)
    MaxIdl          \* bound: page numbers in a list

ASSUME MidlAssumption == SMALL \in Nat /\ SMALL >= 2 /\ Grain > 2 /\ IdlMax \in {2^k - 1 : k \in 1..17}

VARIABLES
    idl,            \* a list: ids and their room, ids[-1]
    bag,            \* history: what was put into it, ascending
    sorted,         \* history: mdb_midl_sort was the last call
    id2l,           \* the dirty list
    dirty,          \* history: what was put into that
    behind          \* something was written behind the room

mvars == <<idl, bag, sorted, id2l, dirty, behind>>
Id == 1..IdMax

MidlInit ==
    /\ idl = [ids |-> <<>>, room |-> IdlMax] /\ bag = <<>> /\ sorted = TRUE
    /\ id2l = <<>> /\ dirty = {}
    /\ behind = FALSE

-----------------------------------------------------------------------------
(* Search. *)

\* mdb_midl_search and mdb_mid2l_search differ in Before.
RECURSIVE Bisect(_, _, _, _, _, _)
Bisect(s, id, Before(_, _), base, n, at) ==
    IF n = 0 THEN at
    ELSE LET pivot == n \div 2
             cursor == base + pivot + 1
         IN CASE Before(id, s[cursor]) -> Bisect(s, id, Before, base, pivot, cursor)
              [] Before(s[cursor], id) -> Bisect(s, id, Before, cursor, n - pivot - 1, cursor + 1)
              [] OTHER -> cursor
mdb_midl_search(s, id) == Bisect(s, id, LAMBDA a, b : a > b, 0, Len(s), 1)
mdb_mid2l_search(s, id) == Bisect(s, id, LAMBDA a, b : a < b, 0, Len(s), 1)

-----------------------------------------------------------------------------
(* mdb_midl_sort: quicksort, and insertion sort for small parts.           *)

Swap(s, i, j) == [s EXCEPT ![i] = s[j], ![j] = s[i]]
SwapIf(s, i, j) == IF s[i] < s[j] THEN Swap(s, i, j) ELSE s

\* Insertion sort of l..ir; it runs down to index 1.
RECURSIVE Sink(_, _)
Sink(s, i) == IF i > 1 /\ s[i - 1] < s[i] THEN Sink(Swap(s, i, i - 1), i - 1) ELSE s
RECURSIVE InsertionSort(_, _, _)
InsertionSort(s, j, ir) == IF j > ir THEN s ELSE InsertionSort(Sink(s, j), j + 1, ir)

\* The two scans of a partition, which the median of three stops.
UpFrom(s, i, a) == CHOOSE x \in i + 1..Len(s) : s[x] <= a /\ \A y \in i + 1..x - 1 : s[y] > a
DownFrom(s, j, a) == CHOOSE x \in 1..j - 1 : s[x] >= a /\ \A y \in x + 1..j - 1 : s[y] < a
RECURSIVE Partition(_, _, _, _)
Partition(s, i, j, a) ==
    LET i2 == UpFrom(s, i, a)
        j2 == DownFrom(s, j, a)
    IN IF j2 < i2 THEN <<s, i2, j2>> ELSE Partition(Swap(s, i2, j2), i2, j2, a)
MedianOf(s, l, ir) ==
    SwapIf(SwapIf(SwapIf(Swap(s, (l + ir) \div 2, l + 1), l, ir), l + 1, ir), l, l + 1)

\* The parts still to sort are on a stack, the larger one below.
RECURSIVE SortParts(_, _)
SortParts(s, stack) ==
    IF stack = <<>> THEN s
    ELSE LET l == Head(stack)[1]
             ir == Head(stack)[2]
         IN IF ir - l < SMALL THEN SortParts(InsertionSort(s, l + 1, ir), Tail(stack))
            ELSE LET a == MedianOf(s, l, ir)[l + 1]
                     q == Partition(MedianOf(s, l, ir), l + 1, ir, a)
                     i == q[2]
                     j == q[3]
                     parts == IF ir - i + 1 >= j - l THEN << <<l, j - 1>>, <<i, ir>> >>
                              ELSE << <<i, ir>>, <<l, j - 1>> >>
                 IN SortParts([q[1] EXCEPT ![l + 1] = q[1][j], ![j] = a], parts \o Tail(stack))
mdb_midl_sort(s) == IF s = <<>> THEN s ELSE SortParts(s, << <<1, Len(s)>> >>)

\* mdb_midl_xmerge: from behind, into the room behind the first list.
RECURSIVE XMerge(_, _)
XMerge(s, m) ==
    IF m = <<>> THEN s
    ELSE IF s # <<>> /\ Last(s) < Last(m) THEN Append(XMerge(Front(s), m), Last(s))
    ELSE Append(XMerge(s, Front(m)), Last(m))

-----------------------------------------------------------------------------
(* Calls. *)

Add(s) == bag' = SortSeq(bag \o s, <)
Into(s, room) ==
    /\ Len(s) <= MaxIdl
    /\ idl' = [ids |-> s, room |-> room]
    /\ behind' = (behind \/ Len(s) > room)
    /\ UNCHANGED <<id2l, dirty>>

mdb_midl_append(id) ==
    /\ Add(<<id>>) /\ sorted' = FALSE
    /\ Into(Append(idl.ids, id), IF Len(idl.ids) >= idl.room THEN idl.room + IdlMax ELSE idl.room)
mdb_midl_append_list(app) ==
    /\ Add(app) /\ sorted' = FALSE
    /\ Into(idl.ids \o app, IF Len(idl.ids) + Len(app) >= idl.room THEN idl.room + Len(app) ELSE idl.room)
\* n page numbers, the highest first; room grows by n | MDB_IDL_UM_MAX.
mdb_midl_append_range(id, n) ==
    LET range == [i \in 1..n |-> id + n - i]
        more == (n \div (IdlMax + 1)) * (IdlMax + 1) + IdlMax
    IN /\ Add(range) /\ sorted' = FALSE
       /\ Into(idl.ids \o range, IF Len(idl.ids) + n > idl.room THEN idl.room + more ELSE idl.room)
Sort ==
    /\ sorted' = TRUE
    /\ Into(mdb_midl_sort(idl.ids), idl.room)
    /\ UNCHANGED bag
\* mdb_midl_need, then mdb_midl_xmerge of a sorted list (mdb_page_alloc,
\* mdb_freelist_save).  Mutant: room for the list alone.
Round(n) == ((n + n \div 4 + Grain + 2) \div Grain) * Grain
NeedOfListOnly(have, n) == IF n > idl.room THEN Round(n) - 2 ELSE idl.room
Need(have, n) == IF have + n > idl.room THEN Round(have + n) - 2 ELSE idl.room
MergeIn(m) ==
    /\ sorted /\ Add(m) /\ sorted' = TRUE
    /\ Into(XMerge(idl.ids, m), Need(Len(idl.ids), Len(m)))
\* mdb_midl_shrink of an emptied list (mdb_txn_end).
Reset ==
    /\ bag' = <<>> /\ sorted' = TRUE
    /\ Into(<<>>, IF idl.room > IdlMax THEN IdlMax ELSE idl.room)

\* mdb_mid2l_insert: its place is found, or it is there already, or the list
\* is full.
mdb_mid2l_insert(id) ==
    /\ Len(id2l) < IdlMax \/ id \in dirty
    /\ dirty' = dirty \cup {id}
    /\ LET x == mdb_mid2l_search(id2l, id) IN
       id2l' = IF x <= Len(id2l) /\ id2l[x] = id THEN id2l ELSE InsertAt(id2l, x, id)
    /\ UNCHANGED <<idl, bag, sorted, behind>>

MidlNext ==
    \/ \E id \in Id : mdb_midl_append(id)
    \/ \E a, b \in Id : mdb_midl_append_list(<<a, b>>)
    \/ \E id \in Id, n \in 2..3 : id + n - 1 \in Id /\ mdb_midl_append_range(id, n)
    \/ Sort \/ Reset
    \/ \E s \in SUBSET Id : Cardinality(s) \in 1..3 /\ MergeIn(SetToSortSeq(s, >))
Mid2lNext == \E id \in Id : mdb_mid2l_insert(id)

-----------------------------------------------------------------------------
\* The lists hold what was put into them, within their room; sorting and
\* merging leave them in order, and a search finds every page number or the
\* place where it belongs, at both ends too.
MidlRight ==
    /\ ~behind
    /\ SortSeq(idl.ids, <) = bag
    /\ sorted => /\ idl.ids = Reverse(bag)
                 /\ \A id \in 0..IdMax + 1 : LET x == mdb_midl_search(idl.ids, id) IN
                      /\ x \in 1..Len(idl.ids) + 1
                      /\ \A i \in 1..Len(idl.ids) : i < x => idl.ids[i] >= id
                      /\ \A i \in 1..Len(idl.ids) : i > x => idl.ids[i] <= id
                      /\ id \in Range(idl.ids) => idl.ids[x] = id
                      /\ x <= Len(idl.ids) => idl.ids[x] <= id
    /\ id2l = SetToSortSeq(dirty, <)
=============================================================================
