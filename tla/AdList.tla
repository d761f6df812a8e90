------------------------------- MODULE AdList -------------------------------
(***************************************************************************)
(* The doubly linked lists of adlist.c, pointer by pointer.  rkx keeps the *)
(* encrypted files of a session in two of them (client.local_cryptfiles    *)
(* and client.remote_cryptfiles).  The functions with a loop take one step *)
(* per iteration; they and an iteration of the caller share one cursor,    *)
(* since everything runs on the main thread.                               *)
(*                                                                         *)
(* No list has a free, dup or match method unless said otherwise.          *)
(***************************************************************************)
EXTENDS Integers, Sequences, SequencesExt, FiniteSets

CONSTANTS
    Lists,          \* pointers to lists
    Nodes,          \* addresses of list nodes
    Values,
    MaxIndex        \* bound: arguments of listIndex

CONSTANTS NULL, Freed   \* model values; Freed: memory given back

ASSUME AdListAssumption ==
    /\ {NULL, Freed} \cap Nodes = {} /\ NULL # Freed
    /\ MaxIndex \in Nat

VARIABLES
    alive,              \* lists that were created and not released
    head, tail, len,    \* the fields of each list
    prev, next, value,  \* the fields of each node
    heap,               \* allocated nodes
    op,                 \* the loop in progress, its return, or "none"
    ask,                \* its arguments
    cur,                \* its current or next node
    n,                  \* its counter
    res,                \* what the search or the index returned
    order,              \* history: the nodes of each list, head to tail
    start,              \* history: order when an iteration began
    seen                \* history: nodes the iteration has returned

lists == <<alive, head, tail, len>>
nodes == <<prev, next, value, heap>>
loop == <<op, ask, cur, n, res, start, seen>>
listvars == <<lists, nodes, loop, order>>

NoAsk == [l |-> NULL, o |-> NULL, dir |-> "head", v |-> NULL, i |-> 0]

ListInit ==
    /\ alive = {}
    /\ head = [l \in Lists |-> NULL] /\ tail = [l \in Lists |-> NULL]
    /\ len = [l \in Lists |-> 0]
    /\ prev = [x \in Nodes |-> Freed] /\ next = [x \in Nodes |-> Freed]
    /\ value = [x \in Nodes |-> Freed] /\ heap = {}
    /\ op = "none" /\ ask = NoAsk /\ cur = NULL /\ n = 0 /\ res = NULL
    /\ order = [l \in Lists |-> <<>>] /\ start = <<>> /\ seen = <<>>

-----------------------------------------------------------------------------
(* Lists and single nodes.                                                 *)

Idle(l) == op = "none" /\ l \in alive

\* listCreate.
Create(l) ==
    /\ op = "none" /\ l \notin alive
    /\ alive' = alive \cup {l}
    /\ head' = [head EXCEPT ![l] = NULL] /\ tail' = [tail EXCEPT ![l] = NULL]
    /\ len' = [len EXCEPT ![l] = 0]
    /\ UNCHANGED <<nodes, loop, order>>

\* listAddNodeHead.
AddNodeHead(l, x, v) ==
    /\ Idle(l) /\ x \notin heap
    /\ heap' = heap \cup {x} /\ value' = [value EXCEPT ![x] = v]
    /\ IF len[l] = 0
       THEN /\ head' = [head EXCEPT ![l] = x] /\ tail' = [tail EXCEPT ![l] = x]
            /\ prev' = [prev EXCEPT ![x] = NULL] /\ next' = [next EXCEPT ![x] = NULL]
       ELSE /\ prev' = [prev EXCEPT ![x] = NULL, ![head[l]] = x]
            /\ next' = [next EXCEPT ![x] = head[l]]
            /\ head' = [head EXCEPT ![l] = x] /\ UNCHANGED tail
    /\ len' = [len EXCEPT ![l] = @ + 1]
    /\ order' = [order EXCEPT ![l] = InsertAt(@, 1, x)]
    /\ UNCHANGED <<alive, loop>>

\* What listAddNodeTail does to the fields.
LinkTail(l, x, v) ==
    /\ heap' = heap \cup {x} /\ value' = [value EXCEPT ![x] = v]
    /\ IF len[l] = 0
       THEN /\ head' = [head EXCEPT ![l] = x] /\ tail' = [tail EXCEPT ![l] = x]
            /\ prev' = [prev EXCEPT ![x] = NULL] /\ next' = [next EXCEPT ![x] = NULL]
       ELSE /\ prev' = [prev EXCEPT ![x] = tail[l]]
            /\ next' = [next EXCEPT ![x] = NULL, ![tail[l]] = x]
            /\ tail' = [tail EXCEPT ![l] = x] /\ UNCHANGED head
    /\ len' = [len EXCEPT ![l] = @ + 1]
    /\ order' = [order EXCEPT ![l] = InsertAt(@, Len(@) + 1, x)]

AddNodeTail(l, x, v) ==
    /\ Idle(l) /\ x \notin heap
    /\ LinkTail(l, x, v)
    /\ UNCHANGED <<alive, loop>>

\* listInsertNode, after the node at i or before it.  A new end of the list
\* becomes its tail or head; the mutated forms forget that.
InsertAfterAs(l, i, x, v, newTail) ==
    LET old == order[l][i] IN
    /\ Idle(l) /\ x \notin heap
    /\ heap' = heap \cup {x} /\ value' = [value EXCEPT ![x] = v]
    /\ tail' = IF tail[l] = old THEN [tail EXCEPT ![l] = newTail] ELSE tail
    /\ next' = [next EXCEPT ![x] = next[old], ![old] = x]
    /\ prev' = [y \in Nodes |-> CASE y = x -> old
                                  [] y # x /\ y = next[old] -> x
                                  [] OTHER -> prev[y]]
    /\ len' = [len EXCEPT ![l] = @ + 1]
    /\ order' = [order EXCEPT ![l] = InsertAt(@, i + 1, x)]
    /\ UNCHANGED <<alive, head, loop>>
InsertAfterOldTail(l, i, x, v) == InsertAfterAs(l, i, x, v, tail[l])
InsertAfter(l, i, x, v) == InsertAfterAs(l, i, x, v, x)

InsertBefore(l, i, x, v) ==
    LET old == order[l][i] IN
    /\ Idle(l) /\ x \notin heap
    /\ heap' = heap \cup {x} /\ value' = [value EXCEPT ![x] = v]
    /\ head' = IF head[l] = old THEN [head EXCEPT ![l] = x] ELSE head
    /\ prev' = [prev EXCEPT ![x] = prev[old], ![old] = x]
    /\ next' = [y \in Nodes |-> CASE y = x -> old
                                  [] y # x /\ y = prev[old] -> x
                                  [] OTHER -> next[y]]
    /\ len' = [len EXCEPT ![l] = @ + 1]
    /\ order' = [order EXCEPT ![l] = InsertAt(@, i, x)]
    /\ UNCHANGED <<alive, tail, loop>>

\* listDelNode of the node x, which is the i-th.
Unlink(l, x, i) ==
    /\ next' = [y \in Nodes |-> CASE y = x -> Freed
                                  [] y # x /\ y = prev[x] -> next[x]
                                  [] OTHER -> next[y]]
    /\ prev' = [y \in Nodes |-> CASE y = x -> Freed
                                  [] y # x /\ y = next[x] -> prev[x]
                                  [] OTHER -> prev[y]]
    /\ head' = IF prev[x] = NULL THEN [head EXCEPT ![l] = next[x]] ELSE head
    /\ tail' = IF next[x] = NULL THEN [tail EXCEPT ![l] = prev[x]] ELSE tail
    /\ value' = [value EXCEPT ![x] = Freed] /\ heap' = heap \ {x}
    /\ len' = [len EXCEPT ![l] = @ - 1]
    /\ order' = [order EXCEPT ![l] = RemoveAt(@, i)]
    /\ UNCHANGED alive

DelNode(l, i) == Idle(l) /\ Unlink(l, order[l][i], i) /\ UNCHANGED loop

\* listRotate: the tail becomes the head.
Rotate(l) ==
    LET t == tail[l] IN
    /\ Idle(l) /\ len[l] > 1
    /\ tail' = [tail EXCEPT ![l] = prev[t]]
    /\ next' = [next EXCEPT ![prev[t]] = NULL, ![t] = head[l]]
    /\ prev' = [prev EXCEPT ![head[l]] = t, ![t] = NULL]
    /\ head' = [head EXCEPT ![l] = t]
    /\ order' = [order EXCEPT ![l] = <<Last(@)>> \o Front(@)]
    /\ UNCHANGED <<alive, len, value, heap, loop>>

\* listJoin: the nodes of o go to the end of l.
Join(l, o) ==
    /\ Idle(l) /\ o \in alive /\ l # o
    /\ prev' = IF head[o] # NULL THEN [prev EXCEPT ![head[o]] = tail[l]] ELSE prev
    /\ next' = IF tail[l] # NULL THEN [next EXCEPT ![tail[l]] = head[o]] ELSE next
    /\ head' = [head EXCEPT ![l] = IF tail[l] # NULL THEN @ ELSE head[o], ![o] = NULL]
    /\ tail' = [tail EXCEPT ![l] = IF tail[o] # NULL THEN tail[o] ELSE @, ![o] = NULL]
    /\ len' = [len EXCEPT ![l] = @ + len[o], ![o] = 0]
    /\ order' = [order EXCEPT ![l] = @ \o order[o], ![o] = <<>>]
    /\ UNCHANGED <<alive, value, heap, loop>>

-----------------------------------------------------------------------------
(* Loops.                                                                  *)

Begin(o, a, c, k) ==
    /\ op = "none" /\ op' = o /\ ask' = a /\ cur' = c /\ n' = k
    /\ start' = order[a.l] /\ seen' = <<>> /\ res' = NULL
    /\ UNCHANGED <<lists, nodes, order>>

\* The loop ends; before Return the caller looks at the result.
Finish(o, r) ==
    /\ op' = o /\ res' = r /\ cur' = NULL /\ n' = 0

\* listEmpty and listRelease: len nodes are freed, from the head on.
BeginEmpty(l, o) == l \in alive /\ Begin(o, [NoAsk EXCEPT !.l = l], head[l], len[l])
EmptyStep ==
    /\ op \in {"empty", "release"} /\ n > 0
    /\ cur' = next[cur] /\ n' = n - 1
    /\ heap' = heap \ {cur}
    /\ next' = [next EXCEPT ![cur] = Freed] /\ prev' = [prev EXCEPT ![cur] = Freed]
    /\ value' = [value EXCEPT ![cur] = Freed]
    /\ seen' = Append(seen, cur)
    /\ UNCHANGED <<lists, op, ask, res, start, order>>

EmptyDone ==
    /\ op \in {"empty", "release"} /\ n = 0
    /\ head' = [head EXCEPT ![ask.l] = NULL] /\ tail' = [tail EXCEPT ![ask.l] = NULL]
    /\ len' = [len EXCEPT ![ask.l] = 0]
    /\ alive' = IF op = "release" THEN alive \ {ask.l} ELSE alive
    /\ order' = [order EXCEPT ![ask.l] = <<>>]
    /\ Finish("none", NULL) /\ ask' = NoAsk /\ start' = <<>> /\ seen' = <<>>
    /\ UNCHANGED nodes

\* listGetIterator, listRewind and listRewindTail.
BeginIter(l, d) ==
    /\ l \in alive
    /\ Begin("iter", [NoAsk EXCEPT !.l = l, !.dir = d],
             IF d = "head" THEN head[l] ELSE tail[l], 0)

\* listNext.  The mutated form forgets the direction.
StepForward(d) == next[cur]
Step(d) == IF d = "head" THEN next[cur] ELSE prev[cur]
IterNext ==
    /\ op = "iter" /\ cur # NULL
    /\ cur' = Step(ask.dir)
    /\ res' = cur /\ seen' = Append(seen, cur)
    /\ UNCHANGED <<lists, nodes, op, ask, n, start, order>>

\* The caller may remove the node that listNext has just returned.
IterDel ==
    /\ op = "iter" /\ res # NULL
    /\ \E i \in 1..Len(order[ask.l]) : order[ask.l][i] = res /\ Unlink(ask.l, res, i)
    /\ res' = NULL
    /\ UNCHANGED <<op, ask, cur, n, start, seen>>

IterEnd ==
    /\ op = "iter" /\ cur = NULL
    /\ op' = "iter_ret"
    /\ UNCHANGED <<lists, nodes, ask, cur, n, res, start, seen, order>>

\* listSearchKey without a match method: the values are compared.
BeginSearch(l, v) ==
    l \in alive /\ Begin("search", [NoAsk EXCEPT !.l = l, !.v = v], head[l], 0)
SearchStep ==
    /\ op = "search"
    /\ IF cur = NULL \/ value[cur] = ask.v
       THEN Finish("search_ret", cur)
       ELSE cur' = next[cur] /\ UNCHANGED <<op, n, res>>
    /\ UNCHANGED <<lists, nodes, ask, start, seen, order>>

\* listIndex: from the head, or with a negative index from the tail.
BeginIndex(l, i) ==
    /\ l \in alive
    /\ Begin("index", [NoAsk EXCEPT !.l = l, !.i = i, !.dir = IF i < 0 THEN "tail" ELSE "head"],
             IF i < 0 THEN tail[l] ELSE head[l], IF i < 0 THEN -i - 1 ELSE i)
IndexStep ==
    /\ op = "index"
    /\ IF n = 0 \/ cur = NULL
       THEN Finish("index_ret", cur)
       ELSE n' = n - 1 /\ cur' = Step(ask.dir) /\ UNCHANGED <<op, res>>
    /\ UNCHANGED <<lists, nodes, ask, start, seen, order>>

\* listDup: listCreate, then a listAddNodeTail for every node.
BeginDup(l, o) ==
    /\ l \in alive /\ o \notin alive
    /\ Begin("dup", [NoAsk EXCEPT !.l = l, !.o = o], head[l], 0)
DupStep(x) ==
    /\ op = "dup" /\ cur # NULL /\ x \notin heap
    /\ LinkTail(ask.o, x, value[cur])
    /\ cur' = next[cur]
    /\ UNCHANGED <<alive, op, ask, n, res, start, seen>>
DupDone ==
    /\ op = "dup" /\ cur = NULL
    /\ alive' = alive \cup {ask.o}
    /\ Finish("none", NULL) /\ ask' = NoAsk /\ start' = <<>> /\ seen' = <<>>
    /\ UNCHANGED <<head, tail, len, nodes, order>>
\* A dup method returns NULL: the copy so far is released.
DupFails ==
    /\ op = "dup" /\ cur # NULL
    /\ op' = "release" /\ ask' = [NoAsk EXCEPT !.l = ask.o]
    /\ cur' = head[ask.o] /\ n' = len[ask.o] /\ start' = order[ask.o]
    /\ UNCHANGED <<lists, nodes, res, seen, order>>

\* The caller goes on.
Return ==
    /\ op \in {"iter_ret", "search_ret", "index_ret"}
    /\ Finish("none", NULL) /\ ask' = NoAsk /\ start' = <<>> /\ seen' = <<>>
    /\ UNCHANGED <<lists, nodes, order>>

-----------------------------------------------------------------------------
NewNode(l, x, v) ==
    \/ AddNodeHead(l, x, v) \/ AddNodeTail(l, x, v)
    \/ \E i \in 1..Len(order[l]) : InsertAfter(l, i, x, v) \/ InsertBefore(l, i, x, v)

Call(l) ==
    \/ Create(l)
    \/ \E x \in Nodes, v \in Values : NewNode(l, x, v)
    \/ \E i \in 1..Len(order[l]) : DelNode(l, i)
    \/ Rotate(l)
    \/ \E o \in Lists : Join(l, o) \/ BeginDup(l, o)
    \/ \E o \in {"empty", "release"} : BeginEmpty(l, o)
    \/ \E d \in {"head", "tail"} : BeginIter(l, d)
    \/ \E v \in Values : BeginSearch(l, v)
    \/ \E i \in -MaxIndex..MaxIndex : BeginIndex(l, i)

LoopStep ==
    \/ EmptyStep \/ EmptyDone \/ IterNext \/ IterDel \/ IterEnd
    \/ SearchStep \/ IndexStep
    \/ \E x \in Nodes : DupStep(x)
    \/ DupDone \/ DupFails \/ Return

ListNext == (\E l \in Lists : Call(l)) \/ LoopStep
AdListSpec == ListInit /\ [][ListNext]_listvars

-----------------------------------------------------------------------------
(* Properties.                                                             *)

Pointer == Nodes \cup {NULL}
Emptying(l) == op \in {"empty", "release"} /\ ask.l = l

TypeOK ==
    /\ alive \subseteq Lists /\ heap \subseteq Nodes
    /\ head \in [Lists -> Pointer] /\ tail \in [Lists -> Pointer]
    /\ len \in [Lists -> Nat]
    /\ prev \in [Nodes -> Pointer \cup {Freed}] /\ next \in [Nodes -> Pointer \cup {Freed}]
    /\ value \in [Nodes -> Values \cup {Freed}]
    /\ op \in {"none", "empty", "release", "iter", "iter_ret", "search", "search_ret",
               "index", "index_ret", "dup"}
    /\ ask \in [l : Lists \cup {NULL}, o : Lists \cup {NULL}, dir : {"head", "tail"},
                v : Values \cup {NULL}, i : -MaxIndex..MaxIndex]
    /\ cur \in Pointer /\ n \in Nat /\ res \in Pointer
    /\ order \in [Lists -> Seq(Nodes)] /\ start \in Seq(Nodes) /\ seen \in Seq(Nodes)

\* The fields of a list and of its nodes describe the sequence s: len is its
\* length, head and tail its ends, next and prev its neighbours.
Links(l, s) ==
    /\ len[l] = Len(s)
    /\ head[l] = IF s = <<>> THEN NULL ELSE s[1]
    /\ tail[l] = IF s = <<>> THEN NULL ELSE s[Len(s)]
    /\ \A i \in 1..Len(s) :
          /\ next[s[i]] = IF i = Len(s) THEN NULL ELSE s[i + 1]
          /\ prev[s[i]] = IF i = 1 THEN NULL ELSE s[i - 1]

\* After every function of adlist.c, in whatever sequence they are called, the
\* pointers of each list describe the sequence of nodes it should have.
WellLinked == \A l \in Lists : ~Emptying(l) => Links(l, order[l])

\* A node is allocated exactly if it is in a list, and it is there once: no
\* leak, no double free, no list that shares a node with another.
Places(l) == {i \in 1..Len(order[l]) : Emptying(l) => i > Len(seen)}
HeapExact ==
    /\ \A x \in Nodes : x \in heap <=> \E l \in Lists : \E i \in Places(l) : order[l][i] = x
    /\ \A l, m \in Lists : \A i \in Places(l), j \in Places(m) :
          order[l][i] = order[m][j] => l = m /\ i = j

\* adlist.c on listNext: "It's valid to remove the currently returned element".
\* The iteration returns every node of the list it started with, in order,
\* whatever the caller removes on the way.
IterationComplete ==
    op = "iter_ret" => seen = IF ask.dir = "head" THEN start ELSE Reverse(start)

\* What the searching loops return is right although the list behind them may
\* have been built in any order.  listSearchKey: the first match from the
\* head, NULL if there is none.  listIndex: "0 is the head, 1 the element next
\* to head and so on.  Negative integers are used in order to count from the
\* tail, -1 is the last element".
AnswersRight ==
    LET s == order[ask.l]
        hits == {i \in 1..Len(s) : value[s[i]] = ask.v}
        i == IF ask.i < 0 THEN Len(s) + ask.i + 1 ELSE ask.i + 1 IN
    /\ op = "search_ret" => res = IF hits = {} THEN NULL ELSE s[Min(hits)]
    /\ op = "index_ret" => res = IF i \in 1..Len(s) THEN s[i] ELSE NULL

\* Whatever sequence of functions is called: the pointers are right, nothing
\* leaks or is freed twice, and what the loops return is right.
ListsSound == TypeOK /\ WellLinked /\ HeapExact /\ IterationComplete /\ AnswersRight

\* What a reader of the pointers finds: k nodes from h on, and their values.
Follow(x, nx) == IF x \in Nodes THEN nx[x] ELSE x
Trail(h, nx, k) ==
    LET w[i \in 1..k] == IF i = 1 THEN h ELSE Follow(w[i - 1], nx)
    IN  w
Walk(h, nx, val, k) ==
    LET w == Trail(h, nx, k)
    IN  [i \in 1..k |-> IF w[i] \in Nodes THEN val[w[i]] ELSE w[i]]
Hidden(l) == Emptying(l) \/ (op = "dup" /\ ask.o = l)

\* A list that is being emptied, released or copied to has no items until the
\* function returns; one that is being released does not exist any more.
Existing == IF op = "release" THEN alive \ {ask.l} ELSE alive
Shown == [l \in Lists |-> IF Hidden(l) THEN <<>> ELSE Walk(head[l], next, value, len[l])]

\* The lists behave like sequences of values that every function changes in
\* one step.
Abstract == INSTANCE ListSpec WITH exists <- Existing, items <- Shown
ListsAreSequences == Abstract!Spec
======================
