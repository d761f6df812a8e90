---------------------------- MODULE LmdbCompact ----------------------------
(***************************************************************************)
(* The compacting copy of LMDB (mdb_env_copyfd1): one thread walks the     *)
(* trees of a snapshot depth first and puts the pages, with new numbers,   *)
(* into one of two buffers; a second thread writes the full ones.  A page  *)
(* has its number before anyone knows where it will land in the file.      *)
(***************************************************************************)
EXTENDS Integers, Sequences, FiniteSets

CONSTANTS
    Src,        \* the pages of the snapshot: for a page the sequence of its
                \* nodes, [t |-> "data"], [t |-> "kid", p], [t |-> "sub", p]
                \* (a named database) or [t |-> "big", p, n] (n overflow pages)
    SrcRoots,   \* roots to copy; 0 is an empty database (P_INVALID)
    WBuf        \* MDB_WBUF in pages

ASSUME WBufAssumption == WBuf \in Nat /\ WBuf >= 2

VARIABLES
    root0, leaked,  \* root of the snapshot; pages that are neither used nor free
    pc, stack,      \* the walking thread and its cursors: [p, i, kids, sub]
    mc_next_pgno, root, \* next new page number; the new number of the root
    toggle,         \* mc_toggle
    wbuf, wlen,     \* mc_wbuf, mc_wlen (pages)
    over,           \* mc_over with mc_olen: tail of an overflow page
    new, eof,       \* mc_new and its MDB_EOF bit
    err, lock,      \* mc_error; holder of mc_mutex
    wpc, wt, wpos,  \* the writing thread, its buffer and how much of it is written
    out,            \* the file written so far
    ret             \* what mdb_env_copyfd1 returned

cvars == <<root0, leaked, pc, stack, mc_next_pgno, root, toggle, wbuf, wlen, over, new, eof, err,
           lock, wpc, wt, wpos, out, ret>>

Leaf(p) == \A i \in 1..Len(Src[p]) : Src[p][i].t # "kid"
Page(p, no, kids) == [orig |-> p, no |-> no, kids |-> kids]
Tail1(p, n) == [i \in 1..n - 1 |-> Page(p, -i, <<>>)]

\* All pages of the trees below a page.
RECURSIVE PagesOf(_)
PagesOf(p) ==
    LET RECURSIVE Sum(_)
        Sum(i) == IF i = 0 THEN 0
                  ELSE Sum(i - 1) + (CASE Src[p][i].t \in {"kid", "sub"} /\ Src[p][i].p # 0 -> PagesOf(Src[p][i].p)
                                       [] Src[p][i].t = "big" -> Src[p][i].n
                                       [] OTHER -> 0)
    IN 1 + Sum(Len(Src[p]))

\* mdb_env_copyfd1: the number the root will have, from the pages in use.
newroot == IF root0 = 0 THEN 0 ELSE 1 + PagesOf(root0) + leaked

CompactInit ==
    /\ root0 \in SrcRoots
    /\ leaked \in {0, 1}
    /\ pc = "begin" /\ stack = <<>> /\ mc_next_pgno = 2 /\ root = 0
    /\ toggle = 0
    /\ wbuf = [b \in {0, 1} |-> [i \in 1..WBuf |-> Page("none", 0, <<>>)]]
    /\ wlen = [b \in {0, 1} |-> 0]
    /\ over = [b \in {0, 1} |-> <<>>]
    /\ new = 0 /\ eof = FALSE /\ err = FALSE /\ lock = "none"
    /\ wpc = "lock" /\ wt = 0 /\ wpos = 0
    /\ out = <<>> /\ ret = "none"

writer == <<wpc, wt, wpos, out>>
shared == <<new, eof, lock>>

-----------------------------------------------------------------------------
(* mdb_env_cwalk *)

\* The pages from p down to its first leaf.
RECURSIVE Path(_, _)
Path(p, sub) ==
    <<[p |-> p, i |-> 1, kids |-> <<>>, sub |-> sub]>>
        \o (IF Leaf(p) THEN <<>> ELSE Path(Src[p][1].p, FALSE))

\* mdb_txn_begin may fail; the meta pages are the first pages of the copy.
BeginCompact(ok) ==
    /\ pc = "begin"
    /\ wbuf' = [wbuf EXCEPT ![0] = [@ EXCEPT ![1] = Page("meta", 0, <<>>),
                                             ![2] = Page("meta", 1, <<newroot>>)]]
    /\ wlen' = [wlen EXCEPT ![0] = IF ok THEN 2 ELSE 0]
    /\ stack' = IF ok /\ root0 # 0 THEN Path(root0, FALSE) ELSE <<>>
    /\ pc' = IF ok /\ root0 # 0 THEN "walk" ELSE "finish"
    /\ err' = (err \/ ~ok)
    /\ UNCHANGED <<root0, leaked, mc_next_pgno, root, toggle, over, shared, writer, ret>>

top == stack[Len(stack)]
item == Src[top.p][top.i]
Given(frame, kid) == [frame EXCEPT !.i = @ + 1, !.kids = Append(@, kid)]
Advance(kid) == [stack EXCEPT ![Len(stack)] = Given(@, kid)]

\* A page goes into the buffer, or a full buffer goes to the writer first.
Emit(page, n) ==
    /\ wbuf' = [wbuf EXCEPT ![toggle][wlen[toggle] + 1] = page]
    /\ wlen' = [wlen EXCEPT ![toggle] = @ + 1]
    /\ mc_next_pgno' = mc_next_pgno + n
    /\ pc' = IF n > 1 THEN "toggle" ELSE "walk"
    /\ over' = IF n > 1 THEN [over EXCEPT ![toggle] = Tail1(page.orig, n)] ELSE over
HandOver ==
    /\ wlen[toggle] >= WBuf
    /\ pc' = "toggle"
    /\ UNCHANGED <<wbuf, wlen, mc_next_pgno, over, stack, root>>

walking == <<root0, leaked, toggle, shared, err, writer, ret>>
Item ==
    /\ pc = "walk" /\ top.i <= Len(Src[top.p])
    /\ \/ /\ item.t = "data"
          /\ stack' = Advance(0)
          /\ UNCHANGED <<pc, wbuf, wlen, mc_next_pgno, over, root>>
       \/ item.t = "big" /\ HandOver
       \/ /\ item.t = "big" /\ wlen[toggle] < WBuf
          /\ Emit(Page(item.p, mc_next_pgno, <<>>), item.n)
          /\ stack' = Advance(mc_next_pgno)
          /\ root' = root
       \/ /\ item.t = "sub" /\ item.p = 0
          /\ stack' = Advance(0)
          /\ UNCHANGED <<pc, wbuf, wlen, mc_next_pgno, over, root>>
       \/ /\ item.t \in {"sub", "kid"} /\ item.p # 0
          /\ stack' = stack \o Path(item.p, item.t = "sub")
          /\ UNCHANGED <<pc, wbuf, wlen, mc_next_pgno, over, root>>
    /\ UNCHANGED walking
\* The page itself comes after everything below it; its parent learns its number.
WholePage ==
    /\ pc = "walk" /\ top.i > Len(Src[top.p])
    /\ \/ HandOver
       \/ /\ wlen[toggle] < WBuf
          /\ LET page == Page(top.p, mc_next_pgno, top.kids)
                 n == Len(stack)
             IN IF n > 1
                THEN /\ Emit(page, 1)
                     /\ stack' = [i \in 1..n - 1 |-> IF i = n - 1 THEN Given(stack[i], mc_next_pgno) ELSE stack[i]]
                     /\ root' = root
                ELSE /\ wbuf' = [wbuf EXCEPT ![toggle][wlen[toggle] + 1] = page]
                     /\ wlen' = [wlen EXCEPT ![toggle] = @ + 1]
                     /\ mc_next_pgno' = mc_next_pgno + 1 /\ root' = mc_next_pgno
                     /\ over' = over /\ stack' = <<>> /\ pc' = "finish"
    /\ UNCHANGED walking
\* mdb_page_get fails.
WalkFails ==
    /\ pc = "walk"
    /\ pc' = "finish" /\ err' = TRUE
    /\ UNCHANGED <<root0, leaked, stack, mc_next_pgno, root, toggle, wbuf, wlen, over, shared, writer, ret>>

\* finish: a root of another number is MDB_INCOMPATIBLE.
FinishWalk ==
    /\ pc = "finish"
    /\ err' = (err \/ root # newroot)
    /\ pc' = "last"
    /\ UNCHANGED <<root0, leaked, stack, mc_next_pgno, root, toggle, wbuf, wlen, over, shared, writer, ret>>

-----------------------------------------------------------------------------
(* mdb_env_cthr_toggle, for a full buffer and at last with MDB_EOF.  The    *)
(* threads share one condition variable: a signal wakes whoever waits.      *)

ToggleTo(next) ==
    /\ pc \in {"toggle", "last"} /\ lock = "none"
    /\ new' = new + 1 /\ eof' = (pc = "last")
    /\ wpc' = IF wpc = "wait" THEN "lock" ELSE wpc
    /\ pc' = next
    /\ UNCHANGED <<root0, leaked, stack, mc_next_pgno, root, toggle, wbuf, wlen, over, err,
                   lock, wt, wpos, out, ret>>
\* Mutant: the walking thread does not wait for a buffer to be free.
ToggleNoWait == ToggleTo("done")
Toggle == ToggleTo(IF new + 1 = 2 THEN "wait" ELSE "done")
Woken ==
    /\ pc = "woken" /\ lock = "none"
    /\ pc' = IF new = 2 THEN "wait" ELSE "done"
    /\ UNCHANGED <<root0, leaked, stack, mc_next_pgno, root, toggle, wbuf, wlen, over, shared, err, writer, ret>>
\* After the unlock: the other buffer, and the error of the writer.
ToggleDone ==
    /\ pc = "done"
    /\ toggle' = 1 - toggle
    /\ wlen' = [wlen EXCEPT ![1 - toggle] = 0]
    /\ pc' = IF eof THEN "join" ELSE IF err THEN "finish" ELSE "walk"
    /\ UNCHANGED <<root0, leaked, stack, mc_next_pgno, root, wbuf, over, shared, err, writer, ret>>
JoinWriter ==
    /\ pc = "join" /\ wpc = "ended"
    /\ pc' = "ended"
    /\ ret' = IF err THEN "error" ELSE "ok"
    /\ UNCHANGED <<root0, leaked, stack, mc_next_pgno, root, toggle, wbuf, wlen, over, shared, err, writer>>

-----------------------------------------------------------------------------
(* mdb_env_copythr: holds the mutex but for its waits. *)

walker == <<root0, leaked, stack, mc_next_pgno, root, toggle, wbuf, ret>>
Look ==
    /\ \/ wpc = "lock" /\ lock = "none"
       \/ wpc = "test"
    /\ wpc' = IF new > 0 THEN "write" ELSE IF eof THEN "ended" ELSE "wait"
    /\ lock' = IF new > 0 THEN "writer" ELSE "none"
    /\ wpos' = 0
    /\ UNCHANGED <<walker, pc, wlen, over, new, eof, err, wt, out>>

\* write() takes some of the pages, or fails; after a failure nothing more is
\* written.  The tail of an overflow page follows.
pending == IF wpc = "write" THEN SubSeq(wbuf[wt], wpos + 1, wlen[wt])
           ELSE SubSeq(over[wt], wpos + 1, Len(over[wt]))
Write ==
    /\ wpc \in {"write", "tail"} /\ pending # <<>> /\ ~err
    /\ \/ \E n \in 1..Len(pending) :
            out' = out \o SubSeq(pending, 1, n) /\ wpos' = wpos + n /\ err' = err
       \/ out' = out /\ wpos' = wpos /\ err' = TRUE
    /\ UNCHANGED <<walker, pc, wlen, over, shared, wpc, wt>>
Tail2 ==
    /\ wpc = "write" /\ (pending = <<>> \/ err) /\ over[wt] # <<>>
    /\ wpc' = "tail" /\ wpos' = 0
    /\ UNCHANGED <<walker, pc, wlen, over, shared, err, wt, out>>
\* Mutant: the buffer is given back without a signal.
WriterReturnsSilently ==
    /\ \/ wpc = "write" /\ over[wt] = <<>>
       \/ wpc = "tail"
    /\ pending = <<>> \/ err
    /\ wlen' = [wlen EXCEPT ![wt] = 0]
    /\ over' = [over EXCEPT ![wt] = <<>>]
    /\ wt' = 1 - wt /\ wpos' = 0 /\ new' = new - 1 /\ wpc' = "test"
    /\ UNCHANGED <<walker, pc, eof, lock, err, out>>
\* The buffer is given back, with a signal.
WriterReturns ==
    /\ \/ wpc = "write" /\ over[wt] = <<>>
       \/ wpc = "tail"
    /\ pending = <<>> \/ err
    /\ wlen' = [wlen EXCEPT ![wt] = 0]
    /\ over' = [over EXCEPT ![wt] = <<>>]
    /\ wt' = 1 - wt /\ wpos' = 0 /\ new' = new - 1 /\ wpc' = "test"
    /\ pc' = IF pc = "wait" THEN "woken" ELSE pc
    /\ UNCHANGED <<walker, eof, lock, err, out>>

\* A wait may end without a signal.
Spurious ==
    /\ \/ wpc = "wait" /\ wpc' = "lock" /\ pc' = pc
       \/ pc = "wait" /\ pc' = "woken" /\ wpc' = wpc
    /\ UNCHANGED <<walker, wlen, over, shared, err, wt, wpos, out>>

Walker == (\E ok \in BOOLEAN : BeginCompact(ok)) \/ Item \/ WholePage \/ WalkFails \/ FinishWalk
          \/ Toggle \/ Woken \/ ToggleDone \/ JoinWriter
Writer == Look \/ Write \/ Tail2 \/ WriterReturns
CompactNext == Walker \/ Writer \/ Spurious

-----------------------------------------------------------------------------
(* Properties. *)

\* The tree at page n of the copy is the tree at page p of the snapshot: every
\* page of the copy says its own number and points to the copies of the pages
\* its original points to.
RECURSIVE Same(_, _)
Same(n, p) ==
    /\ n + 1 \in 1..Len(out)
    /\ out[n + 1].orig = p /\ out[n + 1].no = n
    /\ Len(out[n + 1].kids) = Len(Src[p])
    /\ \A i \in 1..Len(Src[p]) :
         LET it == Src[p][i]
             k == out[n + 1].kids[i]
         IN CASE it.t \in {"kid", "sub"} -> IF it.p = 0 THEN k = 0 ELSE Same(k, it.p)
              [] it.t = "big" -> /\ k + it.n \in 1..Len(out)
                                 /\ out[k + 1] = Page(it.p, k, <<>>)
                                 /\ \A j \in 1..it.n - 1 : out[k + 1 + j] = Page(it.p, -j, <<>>)
              [] OTHER -> TRUE

\* All pages are where their numbers say, from the root on.
CompactComplete ==
    /\ Len(out) = IF root0 = 0 THEN 2 ELSE newroot + 1
    /\ out[2] = Page("meta", 1, <<newroot>>)
    /\ root0 # 0 => Same(newroot, root0)
=============================================================================
