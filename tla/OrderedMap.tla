----------------------------- MODULE OrderedMap -----------------------------
(***************************************************************************)
(* What a database of LMDB promises to the owner of a write transaction    *)
(* (liblmdb/lmdb.h): a map with ordered keys, and cursors that keep their  *)
(* place in it whatever other cursors insert and delete.                   *)
(***************************************************************************)
EXTENDS Integers, FiniteSetsExt

CONSTANTS Keys, Vals, Cursors

VARIABLES
    map,        \* function from the keys stored to their values
    pos         \* each cursor: the key it stands on, or the next one when
                \* its own was deleted (gap); eof: it has met the end

End == Max(Keys) + 1
NoPos == [k |-> 0, gap |-> FALSE, eof |-> FALSE]
On(k, eof) == [k |-> k, gap |-> FALSE, eof |-> eof]

Init ==
    /\ map \in UNION {[s -> Vals] : s \in SUBSET Keys}
    /\ pos = [c \in Cursors |-> NoPos]

Succ(k) == Min({End} \cup {j \in DOMAIN map : j > k})
Pred(k) == Max({0} \cup {j \in DOMAIN map : j < k})
Move(c, ps) == \E p \in ps : pos' = [pos EXCEPT ![c] = p] /\ map' = map

-----------------------------------------------------------------------------
\* mdb_put, mdb_cursor_put: other cursors keep their keys.
With(k, v) == map' = [j \in DOMAIN map \cup {k} |-> IF j = k THEN v ELSE map[j]]
Put(k, v) == With(k, v) /\ pos' = pos
PutAt(c, k, v) ==
    /\ With(k, v)
    /\ \E e \in BOOLEAN : pos' = [pos EXCEPT ![c] = On(k, e)]

\* mdb_del, mdb_cursor_del: cursors on the key stand in front of the next
\* one, or behind the end; an empty database has no place to stand on.
Without(k) ==
    /\ map' = [j \in DOMAIN map \ {k} |-> map[j]]
    /\ \E e \in BOOLEAN :
         pos' = [c \in Cursors |->
                   IF DOMAIN map = {k} THEN NoPos
                   ELSE IF pos[c].k # k THEN pos[c]
                   ELSE IF Succ(k) = End THEN On(End, TRUE)
                   ELSE [k |-> Succ(k), gap |-> TRUE, eof |-> pos[c].eof /\ e]]
Del(k) == k \in DOMAIN map /\ Without(k)
DelAt(c) == pos[c].k \in DOMAIN map /\ Without(pos[c].k)

-----------------------------------------------------------------------------
\* mdb_cursor_get.
GetFirst(c) == Move(c, {IF map = <<>> THEN pos[c] ELSE On(Succ(0), FALSE)})
GetLast(c) == Move(c, {IF map = <<>> THEN pos[c] ELSE On(Pred(End), TRUE)})
GetNext(c) ==
    IF pos[c] = NoPos THEN GetFirst(c)
    ELSE IF pos[c].gap THEN Move(c, {On(pos[c].k, FALSE)}
                                    \cup (IF pos[c].eof THEN {On(pos[c].k, TRUE)} ELSE {}))
    ELSE IF Succ(pos[c].k) = End THEN Move(c, {On(pos[c].k, TRUE)})
    ELSE Move(c, {On(Succ(pos[c].k), FALSE)}
                 \cup (IF pos[c].eof THEN {On(pos[c].k, TRUE)} ELSE {}))
GetPrev(c) ==
    LET from == IF pos[c] = NoPos THEN End ELSE pos[c].k IN
    IF Pred(from) = 0 THEN Move(c, {IF pos[c] = NoPos THEN NoPos ELSE On(pos[c].k, FALSE)})
    ELSE Move(c, {On(Pred(from), FALSE)})
SetRange(c, k) ==
    IF map = <<>> THEN Move(c, {pos[c]})
    ELSE IF Succ(k - 1) = End THEN Move(c, {On(End, TRUE)})
    ELSE Move(c, {On(Succ(k - 1), FALSE)})
GetCurrent(c) == Move(c, {On(pos[c].k, pos[c].eof)})

Next ==
    \/ \E k \in Keys, v \in Vals : Put(k, v) \/ \E c \in Cursors : PutAt(c, k, v)
    \/ \E k \in Keys : Del(k) \/ \E c \in Cursors : SetRange(c, k)
    \/ \E c \in Cursors : DelAt(c) \/ GetFirst(c) \/ GetLast(c) \/ GetNext(c) \/ GetPrev(c) \/ GetCurrent(c)

Spec == Init /\ [][Next]_<<map, pos>>
=============================================================================
