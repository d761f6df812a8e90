------------------------------ MODULE LmdbDrop ------------------------------
(***************************************************************************)
(* mdb_drop0: the pages of a database are given back level by level, each  *)
(* level from left to right.  A leaf's number is freed with its parent, so *)
(* leaves are only visited for the overflow pages and sub-databases that   *)
(* their nodes lead to, and no longer than there are any.                  *)
(*                                                                         *)
(* A page is [leaf, nodes].  The nodes of a branch page are its children,  *)
(* those of a leaf are DataNode, Big(n) with n overflow pages, or Sub(r).  *)
(* The number of a page is its path from the root.                         *)
(***************************************************************************)
EXTENDS Naturals, Sequences, SequencesExt, FiniteSetsExt

CONSTANTS
    Plain,          \* roots of databases without MDB_DUPSORT
    Dupsort         \* roots of databases with it

VARIABLES
    md_root,        \* the root page, with what it leads to
    calls,          \* mdb_drop0 and, above it, the call for a sub-database
    freed,          \* page numbers appended to mt_free_pgs
    ended           \* "no", "ok", "error": MDB_TXN_ERROR

dvars == <<md_root, calls, freed, ended>>

DataNode == [kind |-> "data"]
Big(n) == [kind |-> "big", n |-> n]
Sub(r) == [kind |-> "sub", root |-> r]

RECURSIVE At(_, _)
At(pg, path) ==
    IF path = <<>> THEN pg
    ELSE LET n == pg.nodes[Head(path)] IN
         At(IF pg.leaf THEN n.root ELSE n, Tail(path))
PageAt(path) == At(md_root, path)
\* Overflow pages of a database, md_overflow_pages.
RECURSIVE Overflow(_)
Overflow(pg) ==
    FoldSeq(LAMBDA n, sum : sum + (IF ~pg.leaf THEN Overflow(n)
                                   ELSE IF n.kind = "big" THEN n.n ELSE 0), 0, pg.nodes)

\* The leftmost pages below a page: mdb_page_search with MDB_PS_FIRST.
RECURSIVE Leftmost(_)
Leftmost(path) == <<[pg |-> path, ki |-> 1]>> \o
                  (IF PageAt(path).leaf THEN <<>> ELSE Leftmost(Append(path, 1)))
Popped(mc) == IF mc = <<>> THEN mc ELSE Front(mc)

\* A call of mdb_drop0; leaves are left out when there is nothing to find.
DropCall(path, subs, csub) ==
    LET mc == Leftmost(path)
        md == Overflow(PageAt(path))
        from == IF csub \/ (~subs /\ md = 0) THEN Popped(mc) ELSE mc
    IN [base |-> path, subs |-> subs, md |-> md, i |-> 1, mc |-> from, mx |-> from]

DropInit ==
    /\ \/ md_root \in Plain /\ calls = <<DropCall(<<>>, FALSE, FALSE)>>
       \/ md_root \in Dupsort /\ calls = <<DropCall(<<>>, TRUE, FALSE)>>
    /\ freed = <<>> /\ ended = "no"

cl == Last(calls)
here == Last(cl.mc)
Running == ended = "no" /\ cl.mc # <<>>
WithCall(c) == calls' = Append(Front(calls), c)

\* mdb_cursor_sibling to the right, or the cursor as it was.
RECURSIVE Sibling(_)
Sibling(mc) ==
    IF Len(mc) < 2 THEN <<>>
    ELSE LET up == Front(mc)
             next == IF Last(up).ki < Len(PageAt(Last(up).pg).nodes)
                     THEN [up EXCEPT ![Len(up)].ki = @ + 1] ELSE Sibling(up)
         IN IF next = <<>> THEN <<>>
            ELSE Append(next, [pg |-> Append(Last(next).pg, Last(next).ki), ki |-> 1])
\* Back to the beginning of the level above.  Mutant: to where it ended.
PopInPlace(c) == [c EXCEPT !.mc = Popped(@), !.i = 1]
Pop(c) == [c EXCEPT !.mc = SubSeq(c.mx, 1, Len(c.mc) - 1), !.i = 1]
GoOn(c) ==
    IF Len(c.mc) = 1 THEN [c EXCEPT !.mc = <<>>]
    ELSE IF Sibling(c.mc) = <<>> THEN Pop(c)
    ELSE [c EXCEPT !.mc = Sibling(c.mc), !.i = 1]

\* One node of a leaf.
ScanLeaf ==
    /\ Running /\ PageAt(here.pg).leaf /\ cl.i <= Len(PageAt(here.pg).nodes)
    /\ LET n == PageAt(here.pg).nodes[cl.i]
           at == Append(here.pg, cl.i)
           next == [cl EXCEPT !.i = @ + 1]
       IN CASE n.kind = "big" ->
                 /\ freed' = freed \o [k \in 1..n.n |-> Append(at, k)]
                 /\ WithCall(IF cl.md = n.n /\ ~cl.subs THEN Pop([cl EXCEPT !.md = 0])
                             ELSE [next EXCEPT !.md = @ - n.n])
            [] n.kind = "sub" /\ cl.subs ->
                 /\ calls' = Append(Front(calls), next) \o <<DropCall(at, FALSE, TRUE)>>
                 /\ freed' = freed
            [] OTHER -> WithCall(next) /\ freed' = freed
    /\ UNCHANGED <<md_root, ended>>
LeafDone ==
    /\ Running /\ PageAt(here.pg).leaf /\ cl.i > Len(PageAt(here.pg).nodes)
    /\ WithCall(IF ~cl.subs /\ cl.md = 0 THEN Pop(cl) ELSE GoOn(cl))
    /\ UNCHANGED <<md_root, freed, ended>>
\* A branch page: its children.
FreeChildren ==
    /\ Running /\ ~PageAt(here.pg).leaf
    /\ freed' = freed \o [k \in 1..Len(PageAt(here.pg).nodes) |-> Append(here.pg, k)]
    /\ WithCall(GoOn(cl))
    /\ UNCHANGED <<md_root, ended>>
\* The root comes last, and the call returns.
FreeRoot ==
    /\ ended = "no" /\ cl.mc = <<>>
    /\ freed' = Append(freed, cl.base)
    /\ IF Len(calls) = 1 THEN ended' = "ok" /\ calls' = calls
       ELSE calls' = Front(calls) /\ ended' = ended
    /\ UNCHANGED md_root
\* mdb_page_get or the growth of mt_free_pgs fails.
DropFails ==
    /\ Running
    /\ ended' = "error"
    /\ UNCHANGED <<md_root, calls, freed>>
DropEnd == ended # "no" /\ UNCHANGED dvars

DropNext == ScanLeaf \/ LeafDone \/ FreeChildren \/ FreeRoot \/ DropFails \/ DropEnd

-----------------------------------------------------------------------------
\* All pages of a database, those of its sub-databases included.
RECURSIVE AllPages(_)
AllPages(path) ==
    {path} \cup UNION {LET n == PageAt(path).nodes[i]
                           at == Append(path, i)
                       IN IF ~PageAt(path).leaf \/ n.kind = "sub" THEN AllPages(at)
                          ELSE IF n.kind = "big" THEN {Append(at, k) : k \in 1..n.n} ELSE {}
                      : i \in 1..Len(PageAt(path).nodes)}

\* mdb_drop gives back every page of the database, and none of them twice:
\* a page twice in the free list would be handed out to two owners, one left
\* out is lost for ever.
DropExact ==
    /\ IsInjective(freed)
    /\ ended = "ok" => Range(freed) = AllPages(<<>>)
=============================================================================
