---------------------------- MODULE LmdbTxnProofs ----------------------------
(***************************************************************************)
(* Proofs about transactions of LMDB: what the writer may take again is not *)
(* in use by a reader, for any number of readers, pages and transactions.  *)
(***************************************************************************)
EXTENDS LmdbTxn, SequenceTheorems, WellFoundedInduction, TLAPS

LEMMA Least ==
    ASSUME NEW S \in SUBSET Nat, S # {}
    PROVE  \E m \in S : \A k \in S : m <= k
<1>1. PICK m \in S : \A k \in S : ~ (<<k, m>> \in OpToRel(<, Nat))
    BY NatLessThanWellFounded, WFMin
<1>2. \A k \in S : ~ (k < m)
    BY <1>1, Zenon DEF OpToRel
<1> QED
    BY <1>2

\* B: the transactions that pages may still belong to, the last one and those of
\* the registered readers.
EnvOk(e, B) ==
    /\ DOMAIN e = {"has", "head", "last", "oldest"}
    /\ e.last \in Nat /\ e.oldest \in Nat /\ B \in SUBSET Nat
    /\ \A b \in B : e.oldest <= b /\ (e.last = 0 \/ e.last < b)
TxOk(t, id, B) == {"id", "saved"} \subseteq DOMAIN t /\ t.id = id /\ EnvOk(t.saved, B)
TxsOk(q, n, id, B) == q = [i \in 1..n |-> q[i]] /\ \A i \in 1..n : TxOk(q[i], id, B)
StateOk(S, n, id, B) ==
    /\ DOMAIN S = {"tx", "env", "file", "ret"}
    /\ TxsOk(S.tx, n, id, B) /\ EnvOk(S.env, B)

LEMMA SeqLen ==
    ASSUME NEW q, NEW n \in Nat, q = [i \in 1..n |-> q[i]]
    PROVE  Len(q) = n /\ DOMAIN q = 1..n
<1> DEFINE V == {q[i] : i \in 1..n}
<1>1. q \in [1..n -> V]
    <2>1. [i \in 1..n |-> q[i]] \in [1..n -> V]
        OBVIOUS
    <2> QED
        BY <2>1
<1> HIDE DEF V
<1>2. q \in Seq(V)
    BY <1>1, SeqDef
<1> QED
    BY <1>1, <1>2, LenProperties

LEMMA TopOk ==
    ASSUME NEW S, NEW n \in Nat \ {0}, NEW id, NEW B, StateOk(S, n, id, B)
    PROVE  Len(S.tx) = n /\ Top(S) = S.tx[n] /\ TxOk(Top(S), id, B)
<1>1. Len(S.tx) = n
    BY SeqLen DEF StateOk, TxsOk
<1> QED
    BY <1>1 DEF Top, StateOk, TxsOk

\* The innermost transaction may become any other of the same number.
LEMMA TopSet ==
    ASSUME NEW S, NEW n \in Nat \ {0}, NEW id, NEW B, StateOk(S, n, id, B),
           NEW t, TxOk(t, id, B)
    PROVE  StateOk([S EXCEPT !.tx = [S.tx EXCEPT ![n] = t]], n, id, B)
<1> DEFINE q == [S.tx EXCEPT ![n] = t]
<1>1. S.tx = [i \in 1..n |-> S.tx[i]] /\ \A i \in 1..n : TxOk(S.tx[i], id, B)
    BY DEF StateOk, TxsOk
<1>2. q = [i \in 1..n |-> q[i]] /\ \A i \in 1..n : TxOk(q[i], id, B)
    BY <1>1
<1> HIDE DEF q
<1>3. TxsOk(q, n, id, B)
    BY <1>2 DEF TxsOk
<1> DEFINE T == [S EXCEPT !.tx = q]
<1>4. DOMAIN S = {"tx", "env", "file", "ret"} /\ EnvOk(S.env, B)
    BY DEF StateOk
<1>5. DOMAIN T = DOMAIN S /\ T.tx = q /\ T.env = S.env
    BY <1>4
<1> HIDE DEF T
<1>6. StateOk(T, n, id, B)
    BY <1>3, <1>4, <1>5 DEF StateOk
<1> QED
    BY <1>6 DEF T, q

LEMMA SetTopOk ==
    ASSUME NEW S, NEW n \in Nat \ {0}, NEW id, NEW B, StateOk(S, n, id, B),
           NEW t, TxOk(t, id, B)
    PROVE  StateOk(SetTop(S, t), n, id, B)
BY TopOk, TopSet DEF SetTop

LEMMA FailOk ==
    ASSUME NEW S, NEW n \in Nat \ {0}, NEW id, NEW B, StateOk(S, n, id, B)
    PROVE  StateOk(Fail(S), n, id, B)
<1>1. Len(S.tx) = n /\ S.tx[n] = Top(S) /\ TxOk(Top(S), id, B)
    BY TopOk
<1> DEFINE t == [S.tx[n] EXCEPT !.error = TRUE]
<1>2. Fail(S) = [S EXCEPT !.tx = [S.tx EXCEPT ![n] = t]]
    BY <1>1, Zenon DEF Fail
<1>3. TxOk(t, id, B)
    BY <1>1 DEF TxOk
<1> HIDE DEF t
<1> QED
    BY <1>2, <1>3, TopSet

LEMMA SetPageOk ==
    ASSUME NEW S, NEW n \in Nat \ {0}, NEW id, NEW B, StateOk(S, n, id, B), NEW p, NEW c
    PROVE  StateOk(SetPage(S, p, c), n, id, B)
<1>1. Len(S.tx) = n /\ S.tx[n] = Top(S) /\ TxOk(Top(S), id, B)
    BY TopOk
<1> DEFINE d == [S.tx[n].dirty EXCEPT ![p].c = c]
           t == [S.tx[n] EXCEPT !.dirty = d]
<1>2. SetPage(S, p, c) = [S EXCEPT !.tx = [S.tx EXCEPT ![n] = t]]
    BY <1>1, Zenon DEF SetPage
<1> HIDE DEF d
<1>3. TxOk(t, id, B)
    BY <1>1 DEF TxOk
<1> HIDE DEF t
<1> QED
    BY <1>2, <1>3, TopSet

LEMMA InsertOk ==
    ASSUME NEW S, NEW n \in Nat \ {0}, NEW id, NEW B, StateOk(S, n, id, B),
           NEW p, NEW c, NEW m, NEW room
    PROVE  StateOk(Insert(S, p, c, m, room), n, id, B)
<1> DEFINE T == [S EXCEPT !.ret = p]
           d == (p :> [c |-> c, n |-> m]) @@ Top(S).dirty
           x == Top(S).room - room
           t == [Top(S) EXCEPT !.dirty = d, !.room = x]
<1>1. Insert(S, p, c, m, room) = SetTop(T, t)
    BY Zenon DEF Insert
<1>2. StateOk(T, n, id, B)
    BY DEF StateOk
<1>3. TxOk(Top(S), id, B)
    BY TopOk
<1> HIDE DEF d, x, T
<1>4. TxOk(t, id, B)
    BY <1>3 DEF TxOk
<1> HIDE DEF t
<1> QED
    BY <1>1, <1>2, <1>4, SetTopOk

LEMMA FreeOk ==
    ASSUME NEW S, NEW n \in Nat \ {0}, NEW id, NEW B, StateOk(S, n, id, B), NEW ps
    PROVE  StateOk(Free(S, ps), n, id, B)
<1> DEFINE f == Top(S).frees \cup ps
           x == Top(S).twice \/ ps \cap (Top(S).frees \cup S.env.head) # {}
           t == [Top(S) EXCEPT !.frees = f, !.twice = x]
<1>1. Free(S, ps) = SetTop(S, t)
    BY Zenon DEF Free
<1>2. TxOk(Top(S), id, B)
    BY TopOk
<1> HIDE DEF f, x
<1>3. TxOk(t, id, B)
    BY <1>2 DEF TxOk
<1> HIDE DEF t
<1> QED
    BY <1>1, <1>3, SetTopOk

\* The environment's page state may become any other that is in order.
LEMMA EnvSet ==
    ASSUME NEW S, NEW n \in Nat \ {0}, NEW id, NEW B, StateOk(S, n, id, B),
           NEW e, EnvOk(e, B)
    PROVE  StateOk([S EXCEPT !.env = e], n, id, B)
BY DEF StateOk

LEMMA ToHeadOk ==
    ASSUME NEW S, NEW n \in Nat \ {0}, NEW id, NEW B, StateOk(S, n, id, B), NEW ps
    PROVE  StateOk(ToHead(S, ps), n, id, B)
<1>1. Len(S.tx) = n /\ S.tx[n] = Top(S) /\ TxOk(Top(S), id, B)
    BY TopOk
<1> DEFINE h == S.env.head \cup ps
           e == [S.env EXCEPT !.head = h]
           x == Top(S).twice \/ ps \cap (Top(S).frees \cup S.env.head) # {}
           t == [S.tx[n] EXCEPT !.twice = x]
           T == [S EXCEPT !.env = e]
<1>2. ToHead(S, ps) = [[S EXCEPT !.env = e] EXCEPT !.tx = [S.tx EXCEPT ![n] = t]]
    BY <1>1, Zenon DEF ToHead
<1> HIDE DEF h, x
<1>3. EnvOk(e, B)
    BY DEF StateOk, EnvOk
<1>4. TxOk(t, id, B)
    BY <1>1 DEF TxOk
<1> HIDE DEF e, t
<1>5. StateOk(T, n, id, B)
    BY <1>3, EnvSet
<1>6. T.tx = S.tx
    BY DEF StateOk
<1> HIDE DEF T
<1>7. StateOk([T EXCEPT !.tx = [T.tx EXCEPT ![n] = t]], n, id, B)
    BY <1>4, <1>5, TopSet
<1> QED
    BY <1>2, <1>6, <1>7 DEF T

LEMMA RetOk ==
    ASSUME NEW S, NEW n \in Nat \ {0}, NEW id, NEW B, StateOk(S, n, id, B), NEW p
    PROVE  StateOk([S EXCEPT !.ret = p], n, id, B)
BY DEF StateOk

\* The largest of the numbers of a bounded set.
LEMMA Largest ==
    ASSUME NEW A \in SUBSET Nat, A # {}, NEW h \in Nat, \A a \in A : a <= h
    PROVE  Max(A) \in A /\ \A a \in A : a <= Max(A)
<1> DEFINE D == {h - a : a \in A}
<1>1. D \in SUBSET Nat /\ D # {}
    <2>1. \A a \in A : h - a \in Nat
        OBVIOUS
    <2>2. PICK a \in A : TRUE
        OBVIOUS
    <2>3. h - a \in D
        OBVIOUS
    <2> QED
        BY <2>1, <2>3
<1>2. PICK m \in D : \A k \in D : m <= k
    BY <1>1, Least
<1>3. PICK a \in A : m = h - a
    BY <1>2
<1>4. \A b \in A : b <= a
    <2> TAKE b \in A
    <2>1. h - b \in D
        OBVIOUS
    <2>2. m <= h - b
        BY <1>2, <2>1
    <2> QED
        BY <1>3, <2>2
<1> QED
    BY <1>4, Zenon DEF Max

LEMMA Smallest ==
    ASSUME NEW A \in SUBSET Nat, A # {}
    PROVE  Min(A) \in A /\ \A a \in A : Min(A) <= a
<1>1. PICK m \in A : \A k \in A : m <= k
    BY Least
<1> QED
    BY <1>1, Zenon DEF Min

\* me_pglast stays where it is or moves below the oldest reader.
LEMMA FetchBelowOk ==
    ASSUME NEW S, NEW n \in Nat \ {0}, NEW id, NEW B, StateOk(S, n, id, B),
           NEW m, NEW o \in Nat, \A b \in B : o <= b
    PROVE  StateOk(FetchBelow(S, m, o), n, id, B)
<1> DEFINE recs == FreeRecs(S)
           old == {i \in (S.env.last + 1)..(o - 1) : i \in DOMAIN recs}
           HeadAt(i) == S.env.head \cup UNION {RecIds(S, recs[j]) : j \in {l \in old : l <= i}}
           stop == Min({MaxTxn} \cup {i \in old \cup {S.env.last} : Runs(HeadAt(i), m) # {}})
           has == S.env.has \/ \E i \in old : i <= stop
           took == {i \in old : i <= stop}
           last == Max({S.env.last} \cup took)
           head == HeadAt(stop)
           e == [has |-> has, head |-> head, last |-> last, oldest |-> o]
<1>1. FetchBelow(S, m, o) = [S EXCEPT !.env = e]
    BY Zenon DEF FetchBelow
<1>2. EnvOk(S.env, B)
    BY DEF StateOk
<1>3. S.env.last \in Nat
    BY <1>2 DEF EnvOk
<1>4. took \in SUBSET ((S.env.last + 1)..(o - 1))
    BY Zenon
<1> HIDE DEF took, has, head
<1>5. last \in {S.env.last} \cup took
    <2> DEFINE A == {S.env.last} \cup took
    <2>1. \A a \in A : a \in Nat /\ a <= S.env.last + o
        <3> TAKE a \in A
        <3>1. CASE a = S.env.last
            BY <3>1, <1>3
        <3>2. CASE a \in took
            <4>1. a \in (S.env.last + 1)..(o - 1)
                BY <3>2, <1>4
            <4> QED
                BY <4>1, <1>3
        <3> QED
            BY <3>1, <3>2
    <2>4. A # {}
        OBVIOUS
    <2>2. S.env.last + o \in Nat
        BY <1>3
    <2> HIDE DEF A
    <2>3. Max(A) \in A
        BY <2>1, <2>2, <2>4, Largest
    <2> QED
        BY <2>3 DEF A
<1> HIDE DEF last
<1>6. last = S.env.last \/ last \in (S.env.last + 1)..(o - 1)
    BY <1>4, <1>5
<1>7. EnvOk(e, B)
    <2>1. last \in Nat
        BY <1>3, <1>6
    <2>2. \A b \in B : last = 0 \/ last < b
        <3> TAKE b \in B
        <3>1. CASE last = S.env.last
            BY <3>1, <1>2 DEF EnvOk
        <3>2. CASE last \in (S.env.last + 1)..(o - 1)
            <4>1. o <= b /\ b \in Nat
                BY <1>2 DEF EnvOk
            <4>2. last + 1 <= o
                BY <3>2, <1>3
            <4> QED
                BY <3>2, <4>1, <4>2, <2>1, <1>3
        <3> QED
            BY <3>1, <3>2, <1>6
    <2> QED
        BY <2>1, <2>2, <1>2 DEF EnvOk
<1> HIDE DEF e
<1> QED
    BY <1>1, <1>7, EnvSet

\* What mdb_find_oldest finds for transaction id.
Low(id) == Min({id - 1} \cup {slot[r] : r \in {q \in Readers : slot[q] # NoTxn}})
Found(id, B) == Low(id) \in Nat /\ \A b \in B : Low(id) <= b

LEMMA FetchOk ==
    ASSUME NEW S, NEW n \in Nat \ {0}, NEW id, NEW B, StateOk(S, n, id, B), Found(id, B),
           NEW m
    PROVE  StateOk(Fetch(S, m), n, id, B)
<1> DEFINE T == FetchBelow(S, m, S.env.oldest)
           U == FetchBelow(T, m, FindOldest(T))
<1>1. Fetch(S, m) = T \/ Fetch(S, m) = U
    BY Zenon DEF Fetch, Bind
<1>2. S.env.oldest \in Nat /\ \A b \in B : S.env.oldest <= b
    BY DEF StateOk, EnvOk
<1>3. StateOk(T, n, id, B)
    BY <1>2, FetchBelowOk
<1> HIDE DEF T
<1>4. FindOldest(T) = Low(id)
    <2>1. Top(T).id = id
        BY <1>3, TopOk DEF TxOk
    <2> QED
        BY <2>1, Zenon DEF FindOldest, Low
<1>5. StateOk(U, n, id, B)
    BY <1>3, <1>4, FetchBelowOk DEF Found
<1> QED
    BY <1>1, <1>3, <1>5

LEMMA PlaceOk ==
    ASSUME NEW S, NEW n \in Nat \ {0}, NEW id, NEW B, StateOk(S, n, id, B), NEW m
    PROVE  StateOk(Place(S, m), n, id, B)
<1>1. Len(S.tx) = n /\ S.tx[n] = Top(S) /\ TxOk(Top(S), id, B)
    BY TopOk
<1> DEFINE runs == Runs(S.env.head, m)
           p == Min(runs)
           new == Top(S).next
           h == S.env.head \ Run(p, m)
           e == [S.env EXCEPT !.head = h]
           T == [S EXCEPT !.env = e]
           x == new + m
           t == [S.tx[n] EXCEPT !.next = x]
           U == [S EXCEPT !.tx = [S.tx EXCEPT ![n] = t]]
<1>2. \/ Place(S, m) = Insert(T, p, Junk, m, 1)
      \/ Place(S, m) = Fail(S)
      \/ Place(S, m) = Insert(U, new, Junk, m, 1)
    BY <1>1, Zenon DEF Place
<1> HIDE DEF h, x, p, new
<1>3. EnvOk(e, B)
    BY DEF StateOk, EnvOk
<1>4. TxOk(t, id, B)
    BY <1>1 DEF TxOk
<1> HIDE DEF e, t
<1>5. StateOk(T, n, id, B)
    BY <1>3, EnvSet
<1>6. StateOk(U, n, id, B)
    BY <1>4, TopSet
<1> HIDE DEF T, U
<1> QED
    BY <1>2, <1>5, <1>6, InsertOk, FailOk

LEMMA AllocOk ==
    ASSUME NEW S, NEW n \in Nat \ {0}, NEW id, NEW B, StateOk(S, n, id, B), Found(id, B),
           NEW m
    PROVE  StateOk(Alloc(S, m), n, id, B)
<1>1. Len(S.tx) = n /\ S.tx[n] = Top(S) /\ TxOk(Top(S), id, B)
    BY TopOk
<1> DEFINE p == Head(Top(S).loose)
           T == [S EXCEPT !.ret = p]
           l == Tail(Top(S).loose)
           t == [S.tx[n] EXCEPT !.loose = l]
           U == [S EXCEPT !.tx = [S.tx EXCEPT ![n] = t]]
<1>2. \/ Alloc(S, m) = [U EXCEPT !.ret = p]
      \/ Alloc(S, m) = Fail(S)
      \/ Alloc(S, m) = Place(Fetch(S, m), m)
    <2>1. [S EXCEPT !.ret = p, !.tx[Len(S.tx)].loose = l] = [U EXCEPT !.ret = p]
        <3> HIDE DEF p, l
        <3>1. DOMAIN S = {"tx", "env", "file", "ret"}
            BY DEF StateOk
        <3>2. [S EXCEPT !.ret = p, !.tx[Len(S.tx)].loose = l]
                = [[S EXCEPT !.ret = p] EXCEPT !.tx = [S.tx EXCEPT ![n] = t]]
            BY <1>1, <3>1, Zenon
        <3> DEFINE q == [S.tx EXCEPT ![n] = t]
        <3>3. [[S EXCEPT !.ret = p] EXCEPT !.tx = q] = [[S EXCEPT !.tx = q] EXCEPT !.ret = p]
            <4> HIDE DEF q
            <4> QED
                BY <3>1
        <3> QED
            BY <3>2, <3>3
    <2> QED
        BY <2>1, Zenon DEF Alloc
<1> HIDE DEF l, p
<1>4. TxOk(t, id, B)
    BY <1>1 DEF TxOk
<1> HIDE DEF t
<1>5. StateOk(U, n, id, B)
    BY <1>4, TopSet
<1> HIDE DEF U
<1> QED
    BY <1>2, <1>5, RetOk, FailOk, FetchOk, PlaceOk

LEMMA NewPageOk ==
    ASSUME NEW S, NEW n \in Nat \ {0}, NEW id, NEW B, StateOk(S, n, id, B), Found(id, B),
           NEW m, NEW c
    PROVE  StateOk(NewPage(S, m, c), n, id, B)
<1> DEFINE T == Alloc(S, m)
<1>1. NewPage(S, m, c) = T \/ NewPage(S, m, c) = SetPage(T, T.ret, c)
    BY Zenon DEF NewPage, Bind
<1>2. StateOk(T, n, id, B)
    BY AllocOk
<1> HIDE DEF T
<1> QED
    BY <1>1, <1>2, SetPageOk

LEMMA UnspillOk ==
    ASSUME NEW S, NEW n \in Nat \ {0}, NEW id, NEW B, StateOk(S, n, id, B), NEW p, NEW m
    PROVE  StateOk(Unspill(S, p, m), n, id, B)
<1> DEFINE T == Insert(S, p, S.file[p], m, 1)
           x == Top(S).spill \ {p}
           t == [T.tx[n] EXCEPT !.spill = x]
           U == [T EXCEPT !.tx = [T.tx EXCEPT ![n] = t]]
<1>1. StateOk(T, n, id, B)
    BY InsertOk
<1>2. Len(S.tx) = n
    BY TopOk
<1>3. Unspill(S, p, m) = Fail(S) \/ Unspill(S, p, m) = T \/ Unspill(S, p, m) = U
    BY <1>2, Zenon DEF Unspill
<1> HIDE DEF T, x
<1>4. T.tx[n] = Top(T) /\ TxOk(Top(T), id, B)
    BY <1>1, TopOk
<1>5. TxOk(t, id, B)
    BY <1>4 DEF TxOk
<1> HIDE DEF t
<1>6. StateOk(U, n, id, B)
    BY <1>1, <1>5, TopSet
<1> QED
    BY <1>1, <1>3, <1>6, FailOk

LEMMA TouchOk ==
    ASSUME NEW S, NEW n \in Nat \ {0}, NEW id, NEW B, StateOk(S, n, id, B), Found(id, B),
           NEW p
    PROVE  StateOk(Touch(S, p), n, id, B)
<1> DEFINE T == NewPage(S, 1, Get(S, p))
<1>1. \/ Touch(S, p) = Unspill(S, p, 1)
      \/ Touch(S, p) = T
      \/ Touch(S, p) = Free(T, {p})
      \/ Touch(S, p) = [S EXCEPT !.ret = p]
      \/ Touch(S, p) = Insert(S, p, Get(S, p), 1, 0)
    BY Zenon DEF Touch, Bind
<1>2. StateOk(T, n, id, B)
    BY NewPageOk
<1> HIDE DEF T
<1>3. StateOk(Free(T, {p}), n, id, B)
    BY <1>2, FreeOk
<1> QED
    BY <1>1, <1>2, <1>3, UnspillOk, RetOk, InsertOk

SetLoose(S, l) == [S EXCEPT !.tx[Len(S.tx)].loose = l]
LEMMA SetLooseOk ==
    ASSUME NEW S, NEW n \in Nat \ {0}, NEW id, NEW B, StateOk(S, n, id, B),
           NEW l
    PROVE  StateOk(SetLoose(S, l), n, id, B)
<1>1. Len(S.tx) = n /\ S.tx[n] = Top(S) /\ TxOk(Top(S), id, B)
    BY TopOk
<1> DEFINE x == l
           t == [S.tx[n] EXCEPT !.loose = x]
<1>2. SetLoose(S, l) = [S EXCEPT !.tx = [S.tx EXCEPT ![n] = t]]
    BY <1>1, Zenon DEF SetLoose
<1> HIDE DEF x
<1>3. TxOk(t, id, B)
    BY <1>1 DEF TxOk
<1> HIDE DEF t
<1> QED
    BY <1>2, <1>3, TopSet

SetView(S, v) == [S EXCEPT !.tx[Len(S.tx)].view = v]
LEMMA SetViewOk ==
    ASSUME NEW S, NEW n \in Nat \ {0}, NEW id, NEW B, StateOk(S, n, id, B),
           NEW v
    PROVE  StateOk(SetView(S, v), n, id, B)
<1>1. Len(S.tx) = n /\ S.tx[n] = Top(S) /\ TxOk(Top(S), id, B)
    BY TopOk
<1> DEFINE x == v
           t == [S.tx[n] EXCEPT !.view = x]
<1>2. SetView(S, v) = [S EXCEPT !.tx = [S.tx EXCEPT ![n] = t]]
    BY <1>1, Zenon DEF SetView
<1> HIDE DEF x
<1>3. TxOk(t, id, B)
    BY <1>1 DEF TxOk
<1> HIDE DEF t
<1> QED
    BY <1>2, <1>3, TopSet

LEMMA SetMainOk ==
    ASSUME NEW S, NEW n \in Nat \ {0}, NEW id, NEW B, StateOk(S, n, id, B),
           NEW p
    PROVE  StateOk(SetMain(S, p), n, id, B)
<1>1. Len(S.tx) = n /\ S.tx[n] = Top(S) /\ TxOk(Top(S), id, B)
    BY TopOk
<1> DEFINE x == p
           t == [S.tx[n] EXCEPT !.main = x]
<1>2. SetMain(S, p) = [S EXCEPT !.tx = [S.tx EXCEPT ![n] = t]]
    BY <1>1, Zenon DEF SetMain
<1> HIDE DEF x
<1>3. TxOk(t, id, B)
    BY <1>1 DEF TxOk
<1> HIDE DEF t
<1> QED
    BY <1>2, <1>3, TopSet

LEMMA SetFreeOk ==
    ASSUME NEW S, NEW n \in Nat \ {0}, NEW id, NEW B, StateOk(S, n, id, B),
           NEW p
    PROVE  StateOk(SetFree(S, p), n, id, B)
<1>1. Len(S.tx) = n /\ S.tx[n] = Top(S) /\ TxOk(Top(S), id, B)
    BY TopOk
<1> DEFINE x == p
           t == [S.tx[n] EXCEPT !.free = x]
<1>2. SetFree(S, p) = [S EXCEPT !.tx = [S.tx EXCEPT ![n] = t]]
    BY <1>1, Zenon DEF SetFree
<1> HIDE DEF x
<1>3. TxOk(t, id, B)
    BY <1>1 DEF TxOk
<1> HIDE DEF t
<1> QED
    BY <1>2, <1>3, TopSet

LEMMA LooseOk ==
    ASSUME NEW S, NEW n \in Nat \ {0}, NEW id, NEW B, StateOk(S, n, id, B),
           NEW p
    PROVE  StateOk(Loose(S, p), n, id, B)
<1> DEFINE l == <<p>> \o Top(S).loose
<1>1. \/ Loose(S, p) = SetLoose(S, l)
      \/ Loose(S, p) = Free(S, {p})
    BY Zenon DEF Loose, SetLoose
<1> HIDE DEF l
<1> QED
    BY <1>1, SetLooseOk, FreeOk

LEMMA OvFreeOk ==
    ASSUME NEW S, NEW n \in Nat \ {0}, NEW id, NEW B, StateOk(S, n, id, B),
           NEW p, NEW m
    PROVE  StateOk(OvFree(S, p, m), n, id, B)
<1> DEFINE d == Drop(Top(S).dirty, {p})
           x == Top(S).room + 1
           y == Top(S).spill \ {p}
           t == [Top(S) EXCEPT !.dirty = d, !.room = x]
           u == [Top(S) EXCEPT !.spill = y]
<1>1. \/ OvFree(S, p, m) = Free(S, Run(p, m))
      \/ OvFree(S, p, m) = ToHead(SetTop(S, t), Run(p, m))
      \/ OvFree(S, p, m) = ToHead(SetTop(S, u), Run(p, m))
    BY Zenon DEF OvFree
<1>2. TxOk(Top(S), id, B)
    BY TopOk
<1> HIDE DEF d, x, y
<1>3. TxOk(t, id, B) /\ TxOk(u, id, B)
    BY <1>2 DEF TxOk
<1> HIDE DEF t, u
<1>4. StateOk(SetTop(S, t), n, id, B) /\ StateOk(SetTop(S, u), n, id, B)
    BY <1>3, SetTopOk
<1> QED
    BY <1>1, <1>4, FreeOk, ToHeadOk

LEMMA PutBigOk ==
    ASSUME NEW S, NEW n \in Nat \ {0}, NEW id, NEW B, StateOk(S, n, id, B), Found(id, B),
           NEW p, NEW m0, NEW m, NEW c
    PROVE  StateOk(PutBig(S, p, m0, m, c), n, id, B)
<1> DEFINE T == IF m0 >= m /\ Spilled(S, p) THEN Unspill(S, p, m0) ELSE S
           U == [T EXCEPT !.ret = p]
           V == OvFree(T, p, m0)
<1>1. \/ PutBig(S, p, m0, m, c) = T
      \/ PutBig(S, p, m0, m, c) = SetPage(U, p, c)
      \/ PutBig(S, p, m0, m, c) = Insert(T, p, c, m0, 0)
      \/ PutBig(S, p, m0, m, c) = NewPage(V, m, c)
    BY Zenon DEF PutBig, Bind
<1>2. StateOk(T, n, id, B)
    BY UnspillOk
<1> HIDE DEF T
<1>3. StateOk(U, n, id, B) /\ StateOk(V, n, id, B)
    BY <1>2, RetOk, OvFreeOk
<1> HIDE DEF U, V
<1> QED
    BY <1>1, <1>2, <1>3, SetPageOk, InsertOk, NewPageOk

LEMMA SpillOk ==
    ASSUME NEW S, NEW n \in Nat \ {0}, NEW id, NEW B, StateOk(S, n, id, B),
           NEW need, NEW keep
    PROVE  StateOk(Spill(S, need, keep), n, id, B)
<1> DEFINE kept == LooseSet(S)
           min == Max({need, MDB_IDL_UM_MAX \div 8})
           others == UNION {S.tx[i].spill : i \in 1..(Len(S.tx) - 1)}
           out == Highest(DOMAIN Top(S).dirty \ (keep \cup kept \cup others
                                         \cup {Top(S).main, Top(S).free}), min)
           f == Write(S.file, Top(S).dirty, out)
           T == [S EXCEPT !.file = f]
           d == Drop(Top(S).dirty, out)
           x == Top(S).spill \cup out
           y == Top(S).room + Cardinality(out)
           t == [Top(S) EXCEPT !.dirty = d, !.spill = x, !.spills = TRUE, !.room = y]
<1>1. Spill(S, need, keep) = S \/ Spill(S, need, keep) = SetTop(T, t)
    BY Zenon DEF Spill, SpillSome
<1>2. TxOk(Top(S), id, B)
    BY TopOk
<1> HIDE DEF f, d, x, y
<1>3. TxOk(t, id, B)
    BY <1>2 DEF TxOk
<1>4. StateOk(T, n, id, B)
    BY DEF StateOk
<1> HIDE DEF t, T
<1> QED
    BY <1>1, <1>3, <1>4, SetTopOk

LEMMA SetNodesOk ==
    ASSUME NEW S, NEW n \in Nat \ {0}, NEW id, NEW B, StateOk(S, n, id, B),
           NEW f
    PROVE  StateOk(SetNodes(S, f), n, id, B)
BY SetPageOk DEF SetNodes

LEMMA SetRecsOk ==
    ASSUME NEW S, NEW n \in Nat \ {0}, NEW id, NEW B, StateOk(S, n, id, B),
           NEW f
    PROVE  StateOk(SetRecs(S, f), n, id, B)
BY SetPageOk DEF SetRecs

LEMMA TouchMainOk ==
    ASSUME NEW S, NEW n \in Nat \ {0}, NEW id, NEW B, StateOk(S, n, id, B), Found(id, B)
    PROVE  StateOk(TouchMain(S), n, id, B)
<1> DEFINE T == IF Top(S).main = NoPage THEN NewPage(S, 1, Root(Empty))
                ELSE Touch(S, Top(S).main)
<1>1. TouchMain(S) = T \/ TouchMain(S) = SetMain(T, T.ret)
    BY Zenon DEF TouchMain, Bind
<1>2. StateOk(T, n, id, B)
    BY NewPageOk, TouchOk
<1> HIDE DEF T
<1> QED
    BY <1>1, <1>2, SetMainOk

LEMMA PutItemOk ==
    ASSUME NEW S, NEW n \in Nat \ {0}, NEW id, NEW B, StateOk(S, n, id, B), Found(id, B),
           NEW k, NEW c
    PROVE  StateOk(PutItem(S, k, c), n, id, B)
<1> DEFINE old == Nodes(S)[k]
           U == Touch(S, old)
           V == IF Failed(U) THEN U ELSE SetPage(U, U.ret, c)
           T == IF k \notin DOMAIN Nodes(S) THEN NewPage(S, PagesOf[k], c)
                ELSE IF PagesOf[k] = 1 THEN V
                ELSE PutBig(S, old, PagesOf[k], PagesOf[k], c)
<1>1. PutItem(S, k, c) = T \/ PutItem(S, k, c) = SetNodes(T, (k :> T.ret) @@ Nodes(T))
    BY Zenon DEF PutItem, Bind
<1>2. StateOk(U, n, id, B)
    BY TouchOk
<1> HIDE DEF U, old
<1>3. StateOk(V, n, id, B)
    BY <1>2, SetPageOk
<1> HIDE DEF V
<1>4. StateOk(T, n, id, B)
    BY <1>3, NewPageOk, PutBigOk
<1> HIDE DEF T
<1> QED
    BY <1>1, <1>4, SetNodesOk

LEMMA PutMainOk ==
    ASSUME NEW S, NEW n \in Nat \ {0}, NEW id, NEW B, StateOk(S, n, id, B), Found(id, B),
           NEW k, NEW v
    PROVE  StateOk(PutMain(S, k, v), n, id, B)
<1> DEFINE S1 == Spill(S, 2 * (Depth(Top(S).main) + PagesOf[k]), UnderCursor(S, k))
           S2 == IF Failed(S1) THEN S1 ELSE TouchMain(S1)
           S3 == IF Failed(S2) THEN S2 ELSE PutItem(S2, k, Item(k, v))
<1> DEFINE w == (k :> v) @@ Top(S3).view
<1>1. \/ PutMain(S, k, v) = S3
      \/ PutMain(S, k, v) = SetView(S3, w)
    BY Zenon DEF PutMain, Bind, SetView
<1>2. StateOk(S1, n, id, B)
    BY SpillOk
<1> HIDE DEF S1
<1>3. StateOk(S2, n, id, B)
    BY <1>2, TouchMainOk
<1> HIDE DEF S2
<1>4. StateOk(S3, n, id, B)
    BY <1>3, PutItemOk
<1> HIDE DEF S3, w
<1> QED
    BY <1>1, <1>4, SetViewOk

LEMMA DelItemOk ==
    ASSUME NEW S, NEW n \in Nat \ {0}, NEW id, NEW B, StateOk(S, n, id, B), Found(id, B),
           NEW k
    PROVE  StateOk(DelItem(S, k), n, id, B)
<1> DEFINE old == Nodes(S)[k]
           U == Touch(S, old)
           V == IF Failed(U) THEN U ELSE Loose(U, U.ret)
           T == IF PagesOf[k] = 1 THEN V ELSE OvFree(S, old, PagesOf[k])
           W == Free(T, {Top(T).main})
<1>1. \/ DelItem(S, k) = T
      \/ DelItem(S, k) = SetMain(W, NoPage)
      \/ DelItem(S, k) = SetNodes(T, Drop(Nodes(T), {k}))
    BY Zenon DEF DelItem, Bind
<1>2. StateOk(U, n, id, B)
    BY TouchOk
<1> HIDE DEF U, old
<1>3. StateOk(V, n, id, B)
    BY <1>2, LooseOk
<1> HIDE DEF V
<1>4. StateOk(T, n, id, B)
    BY <1>3, OvFreeOk
<1> HIDE DEF T
<1>5. StateOk(W, n, id, B)
    BY <1>4, FreeOk
<1> HIDE DEF W
<1> QED
    BY <1>1, <1>4, <1>5, SetMainOk, SetNodesOk

LEMMA DelMainOk ==
    ASSUME NEW S, NEW n \in Nat \ {0}, NEW id, NEW B, StateOk(S, n, id, B), Found(id, B),
           NEW k
    PROVE  StateOk(DelMain(S, k), n, id, B)
<1> DEFINE S1 == Spill(S, 2 * Depth(Top(S).main), UnderCursor(S, k))
           S2 == IF Failed(S1) THEN S1 ELSE TouchMain(S1)
           S3 == IF Failed(S2) THEN S2 ELSE DelItem(S2, k)
<1> DEFINE w == Drop(Top(S3).view, {k})
<1>1. \/ DelMain(S, k) = S3
      \/ DelMain(S, k) = SetView(S3, w)
    BY Zenon DEF DelMain, Bind, SetView
<1>2. StateOk(S1, n, id, B)
    BY SpillOk
<1> HIDE DEF S1
<1>3. StateOk(S2, n, id, B)
    BY <1>2, TouchMainOk
<1> HIDE DEF S2
<1>4. StateOk(S3, n, id, B)
    BY <1>3, DelItemOk
<1> HIDE DEF S3, w
<1> QED
    BY <1>1, <1>4, SetViewOk

LEMMA TouchFreeOk ==
    ASSUME NEW S, NEW n \in Nat \ {0}, NEW id, NEW B, StateOk(S, n, id, B), Found(id, B)
    PROVE  StateOk(TouchFree(S), n, id, B)
<1> DEFINE T == Touch(S, Top(S).free)
<1>1. TouchFree(S) = S \/ TouchFree(S) = T \/ TouchFree(S) = SetFree(T, T.ret)
    BY Zenon DEF TouchFree, Bind
<1>2. StateOk(T, n, id, B)
    BY TouchOk
<1> HIDE DEF T
<1> QED
    BY <1>1, <1>2, SetFreeOk

LEMMA PutRecOk ==
    ASSUME NEW S, NEW n \in Nat \ {0}, NEW id, NEW B, StateOk(S, n, id, B), Found(id, B),
           NEW i, NEW m
    PROVE  StateOk(PutRec(S, i, m), n, id, B)
<1> DEFINE recs == FreeRecs(S)
           big == i \in DOMAIN recs /\ recs[i].at # NoPage
           n0 == IF big THEN OvPages(Get(S, recs[i].at)[3]) ELSE 0
           len == IF big /\ n0 >= OvPages(m) THEN Get(S, recs[i].at)[3] ELSE m
           T == IF big THEN PutBig(S, recs[i].at, n0, OvPages(m), Ids({}, len))
                ELSE IF m > NodeIds THEN NewPage(S, OvPages(m), Ids({}, m))
                ELSE [S EXCEPT !.ret = NoPage]
<1>1. \/ PutRec(S, i, m) = T
      \/ PutRec(S, i, m)
            = SetRecs(T, (i :> [room |-> m, at |-> T.ret, ids |-> {}]) @@ FreeRecs(T))
    BY Zenon DEF PutRec, Bind
<1> HIDE DEF recs, big, n0, len
<1>2. StateOk(T, n, id, B)
    BY PutBigOk, NewPageOk, RetOk
<1> HIDE DEF T
<1> QED
    BY <1>1, <1>2, SetRecsOk

LEMMA PutFreeOk ==
    ASSUME NEW S, NEW n \in Nat \ {0}, NEW id, NEW B, StateOk(S, n, id, B), Found(id, B),
           NEW i, NEW m
    PROVE  StateOk(PutFree(S, i, m), n, id, B)
<1> DEFINE need == 2 * (Min({Depth(Top(S).free), 1}) + 1
                        + (IF m > NodeIds THEN OvPages(m) ELSE 0))
           S1 == Spill(S, need, {})
           N == NewPage(S1, 1, FreePage(Empty))
           M == IF Failed(N) THEN N ELSE SetFree(N, N.ret)
           S2 == IF Failed(S1) THEN S1
                 ELSE IF Top(S1).free # NoPage THEN TouchFree(S1) ELSE M
<1>1. PutFree(S, i, m) = S2 \/ PutFree(S, i, m) = PutRec(S2, i, m)
    BY Zenon DEF PutFree, Bind
<1>2. StateOk(S1, n, id, B)
    BY SpillOk
<1> HIDE DEF S1
<1>3. StateOk(N, n, id, B)
    BY <1>2, NewPageOk
<1> HIDE DEF N
<1>4. StateOk(M, n, id, B)
    BY <1>3, SetFreeOk
<1> HIDE DEF M
<1>5. StateOk(S2, n, id, B)
    BY <1>2, <1>4, TouchFreeOk
<1> HIDE DEF S2
<1> QED
    BY <1>1, <1>5, PutRecOk

LEMMA FillOk ==
    ASSUME NEW S, NEW n \in Nat \ {0}, NEW id, NEW B, StateOk(S, n, id, B), Found(id, B),
           NEW i, NEW ids
    PROVE  StateOk(Fill(S, i, ids), n, id, B)
<1> DEFINE rec == FreeRecs(S)[i]
           len == Get(S, rec.at)[3]
           new == [FreeRecs(S) EXCEPT ![i].room = Cardinality(ids),
                                      ![i].ids = IF rec.at = NoPage THEN ids ELSE {}]
           T == SetRecs(S, new)
<1>1. \/ Fill(S, i, ids) = T
      \/ Fill(S, i, ids) = PutBig(T, rec.at, OvPages(len), OvPages(len), Ids(ids, len))
    BY Zenon DEF Fill
<1> HIDE DEF rec, len, new
<1>2. StateOk(T, n, id, B)
    BY SetRecsOk
<1> HIDE DEF T
<1> QED
    BY <1>1, <1>2, PutBigOk

LEMMA DelFreeOk ==
    ASSUME NEW S, NEW n \in Nat \ {0}, NEW id, NEW B, StateOk(S, n, id, B), Found(id, B),
           NEW i
    PROVE  StateOk(DelFree(S, i), n, id, B)
<1> DEFINE S0 == Spill(S, 2, {})
           S1 == IF Failed(S0) THEN S0 ELSE TouchFree(S0)
           rec == FreeRecs(S)[i]
           S2 == IF Failed(S1) THEN S1
                 ELSE IF rec.at = NoPage THEN S1
                 ELSE OvFree(S1, rec.at, OvPages(Get(S1, rec.at)[3]))
           W == Free(S2, {Top(S2).free})
<1>1. \/ DelFree(S, i) = S2
      \/ DelFree(S, i) = SetFree(W, NoPage)
      \/ DelFree(S, i) = SetRecs(S2, Drop(FreeRecs(S2), {i}))
    BY Zenon DEF DelFree, Bind
<1>2. StateOk(S0, n, id, B)
    BY SpillOk
<1> HIDE DEF S0, rec
<1>3. StateOk(S1, n, id, B)
    BY <1>2, TouchFreeOk
<1> HIDE DEF S1
<1>4. StateOk(S2, n, id, B)
    BY <1>3, OvFreeOk
<1> HIDE DEF S2
<1>5. StateOk(W, n, id, B)
    BY <1>4, FreeOk
<1> HIDE DEF W
<1> QED
    BY <1>1, <1>4, <1>5, SetFreeOk, SetRecsOk

LEMMA LooseToFreeOk ==
    ASSUME NEW S, NEW n \in Nat \ {0}, NEW id, NEW B, StateOk(S, n, id, B)
    PROVE  StateOk(LooseToFree(S), n, id, B)
<1> DEFINE d == Drop(Top(S).dirty, LooseSet(S))
           t == [Top(S) EXCEPT !.loose = <<>>, !.dirty = d]
           T == SetTop(S, t)
<1>1. LooseToFree(S) = S \/ LooseToFree(S) = Free(T, LooseSet(S))
    BY Zenon DEF LooseToFree
<1>2. TxOk(Top(S), id, B)
    BY TopOk
<1> HIDE DEF d
<1>3. TxOk(t, id, B)
    BY <1>2 DEF TxOk
<1> HIDE DEF t
<1>4. StateOk(T, n, id, B)
    BY <1>3, SetTopOk
<1> HIDE DEF T
<1> QED
    BY <1>1, <1>4, FreeOk

LEMMA DistributeOk ==
    ASSUME NEW S, NEW n \in Nat \ {0}, NEW id, NEW B, StateOk(S, n, id, B), Found(id, B)
    PROVE  StateOk(Distribute(S), n, id, B)
<1> DEFINE t == Top(S)
           ids == S.env.head \cup LooseSet(S)
           d == Drop(t.dirty, LooseSet(S))
           u == [t EXCEPT !.loose = <<>>, !.dirty = d]
           S0 == SetTop(S, u)
           One(acc, i) ==
               LET part == Lowest(acc.left, FreeRecs(acc.S)[i].room) IN
               IF acc.left = {} \/ i \notin DOMAIN FreeRecs(S) THEN acc
               ELSE [S |-> Bind(acc.S, LAMBDA T : Fill(T, i, part)), left |-> acc.left \ part]
           a == [S |-> S0, left |-> ids]
           N == S.env.last
           Is(f, m) == f = [i \in 0..m |-> IF i = 0 THEN a ELSE One(f[i - 1], i)]
<1>1. Distribute(S) = (CHOOSE f : Is(f, N))[N].S
    BY Zenon DEF Distribute
<1>2. StateOk(S0, n, id, B)
    <2>1. TxOk(Top(S), id, B)
        BY TopOk
    <2> HIDE DEF d
    <2>2. TxOk(u, id, B)
        BY <2>1 DEF TxOk
    <2> HIDE DEF u
    <2> QED
        BY <2>2, SetTopOk
<1>3. N \in Nat
    BY DEF StateOk, EnvOk
<1>4. \A acc, i : StateOk(acc.S, n, id, B) => StateOk(One(acc, i).S, n, id, B)
    <2> SUFFICES ASSUME NEW acc, NEW i, StateOk(acc.S, n, id, B)
                 PROVE  StateOk(One(acc, i).S, n, id, B)
        OBVIOUS
    <2> DEFINE part == Lowest(acc.left, FreeRecs(acc.S)[i].room)
               F == Fill(acc.S, i, part)
               X == IF Failed(acc.S) THEN acc.S ELSE F
               r == acc.left \ part
    <2>1. One(acc, i) = acc \/ One(acc, i) = [S |-> X, left |-> r]
        BY Zenon DEF Bind
    <2> HIDE DEF part
    <2>2. StateOk(F, n, id, B)
        BY FillOk
    <2> HIDE DEF F
    <2>3. StateOk(X, n, id, B)
        BY <2>2
    <2> HIDE DEF X, r, One
    <2> QED
        BY <2>1, <2>3
<1>5. a.S = S0
    BY Zenon
<1>6. StateOk(a.S, n, id, B)
    BY <1>2, <1>5, Zenon
<1> HIDE DEF One, a, N
<1>7. \A m \in Nat : \E f : Is(f, m)
    <2> DEFINE Bad == {m \in Nat : ~ \E f : Is(f, m)}
    <2> SUFFICES ASSUME Bad # {} PROVE FALSE
        OBVIOUS
    <2>1. PICK m \in Bad : \A k \in Bad : m <= k
        BY Least
    <2>2. CASE m = 0
        <3>1. Is([i \in 0..0 |-> a], 0)
            OBVIOUS
        <3> QED
            BY <2>2, <3>1, Zenon
    <2>3. CASE m # 0
        <3>1. m - 1 \in Nat /\ m - 1 \notin Bad
            <4>1. m \in Nat
                BY <2>1
            <4> HIDE DEF Bad
            <4> QED
                BY <4>1, <2>1, <2>3
        <3>2. PICK f : Is(f, m - 1)
            BY <3>1
        <3> DEFINE g == [i \in 0..m |-> IF i = m THEN One(f[m - 1], m) ELSE f[i]]
        <3>3. \A i \in 0..m : g[i] = IF i = 0 THEN a ELSE One(g[i - 1], i)
            <4> TAKE i \in 0..m
            <4>1. CASE i = 0
                BY <4>1, <2>3, <3>2
            <4>2. CASE i # 0 /\ i # m
                <5>1. i \in 0..(m - 1) /\ i - 1 \in 0..m /\ i - 1 # m /\ i # m
                    BY <4>2
                <5>2. g[i] = f[i] /\ g[i - 1] = f[i - 1]
                    BY <5>1
                <5>3. f[i] = One(f[i - 1], i)
                    BY <3>2, <4>2, <5>1
                <5> HIDE DEF g
                <5> QED
                    BY <4>2, <5>2, <5>3
            <4>3. CASE i = m
                <5>1. m - 1 \in 0..m /\ m - 1 # m /\ m \in 0..m
                    BY <3>1
                <5>2. g[m] = One(f[m - 1], m) /\ g[m - 1] = f[m - 1]
                    BY <5>1
                <5> HIDE DEF g
                <5> QED
                    BY <4>3, <5>2, <2>3
            <4> QED
                BY <4>1, <4>2, <4>3
        <3>4. DOMAIN g = 0..m /\ g = [i \in 0..m |-> g[i]]
            OBVIOUS
        <3> HIDE DEF g
        <3>5. Is(g, m)
            BY <3>3, <3>4
        <3> QED
            BY <3>5
    <2> QED
        BY <2>2, <2>3
<1> DEFINE upto == CHOOSE f : Is(f, N)
<1>8. Is(upto, N)
    BY <1>3, <1>7, Zenon
<1> HIDE DEF upto
<1>9. \A m \in 0..N : StateOk(upto[m].S, n, id, B)
    <2> DEFINE Bad == {m \in 0..N : ~ StateOk(upto[m].S, n, id, B)}
    <2> SUFFICES ASSUME Bad # {} PROVE FALSE
        OBVIOUS
    <2>1. Bad \in SUBSET Nat
        OBVIOUS
    <2>2. PICK m \in Bad : \A k \in Bad : m <= k
        BY <2>1, Least
    <2>3. m # 0
        BY <1>8, <1>6, <2>2
    <2>4. m - 1 \in 0..N /\ m - 1 \notin Bad
        BY <1>3, <2>2, <2>3
    <2>5. StateOk(upto[m - 1].S, n, id, B)
        BY <2>4
    <2>6. upto[m] = One(upto[m - 1], m)
        BY <1>8, <2>2, <2>3
    <2> QED
        BY <1>4, <2>2, <2>5, <2>6
<1>10. Distribute(S) = upto[N].S
    BY <1>1, Zenon DEF upto
<1> QED
    BY <1>3, <1>9, <1>10

-----------------------------------------------------------------------------
(* The inductive invariant.                                                *)

Registered == {r \in Readers : rd[r].pc \in {"copy", "active"}}
Bounds == {mti_txnid} \cup {slot[r] : r \in Registered}

Types ==
    /\ mti_txnid \in Nat
    /\ pc \in {"idle", "txn", "save", "flush", "sync", "meta", "publish", "dead"}
    /\ slot \in [Readers -> Nat \cup {NoTxn}]
    /\ rd = [r \in Readers |-> rd[r]]
    /\ \A r \in Readers : {"pc", "val"} \subseteq DOMAIN rd[r] /\ rd[r].val \in Nat

\* A transaction is written to the meta page of its parity, and only the one
\* being published, or whose meta page a write left behind as it failed, is newer
\* than the last.
Top1 == mti_txnid + 1
MetaShape(m, i) ==
    /\ {"txnid", "main", "free"} \subseteq DOMAIN m
    /\ m.txnid \in Nat /\ (m.txnid = 0 \/ m.txnid % 2 = i)
MetaOk(m, i, h) == MetaShape(m, i) /\ m.txnid <= h
MetasOk ==
    /\ metas = [i \in 0..1 |-> metas[i]]
    /\ \A i \in 0..1 : MetaOk(metas[i], i, Top1)
    /\ metas[mti_txnid % 2].txnid >= mti_txnid
    /\ pc = "publish" => metas[(mti_txnid + 1) % 2].txnid = mti_txnid + 1

\* What a power failure may leave of the meta pages.
DiskOk == \A i \in 0..1 : \A m \in mdisk[i] : MetaShape(m, i)

RegisteredOk ==
    \A r \in Registered : slot[r] \in Nat /\ metas[slot[r] % 2].txnid >= slot[r]

Count(n) ==
    /\ (n = 0) = (pc \in {"idle", "dead"})
    /\ pc \in {"save", "flush", "sync", "meta", "publish"} => n = 1
WriterOk == \E n \in Nat : TxsOk(tx, n, mti_txnid + 1, Bounds) /\ Count(n)

ReadersInv == Types /\ MetasOk /\ RegisteredOk /\ EnvOk(env, Bounds) /\ WriterOk

LEMMA EnvMono ==
    ASSUME NEW e, NEW B, NEW C \in SUBSET Nat, EnvOk(e, B), \A c \in C : \E b \in B : b <= c
    PROVE  EnvOk(e, C)
BY DEF EnvOk

LEMMA NoTxs ==
    ASSUME NEW id, NEW B
    PROVE  TxsOk(<<>>, 0, id, B)
BY DEF TxsOk

LEMMA TxsSet ==
    ASSUME NEW q, NEW n \in Nat \ {0}, NEW id, NEW B, TxsOk(q, n, id, B),
           NEW t, TxOk(t, id, B)
    PROVE  TxsOk([q EXCEPT ![n] = t], n, id, B)
<1> DEFINE p == [q EXCEPT ![n] = t]
<1>1. q = [i \in 1..n |-> q[i]] /\ \A i \in 1..n : TxOk(q[i], id, B)
    BY DEF TxsOk
<1>2. p = [i \in 1..n |-> p[i]] /\ \A i \in 1..n : TxOk(p[i], id, B)
    BY <1>1
<1> HIDE DEF p
<1>3. TxsOk(p, n, id, B)
    BY <1>2 DEF TxsOk
<1> QED
    BY <1>3 DEF p

LEMMA OneTx ==
    ASSUME NEW t, NEW id, NEW B, TxOk(t, id, B)
    PROVE  TxsOk(<<t>>, 1, id, B)
<1>1. <<t>> = [i \in 1..1 |-> <<t>>[i]]
    OBVIOUS
<1>2. \A i \in 1..1 : TxOk(<<t>>[i], id, B)
    OBVIOUS
<1> QED
    BY <1>1, <1>2 DEF TxsOk

LEMMA TxsSeq ==
    ASSUME NEW q, NEW n \in Nat, NEW id, NEW B, TxsOk(q, n, id, B)
    PROVE  /\ Len(q) = n /\ DOMAIN q = 1..n /\ q \in Seq({q[i] : i \in 1..n})
           /\ \A i \in 1..n : TxOk(q[i], id, B)
<1>1. q = [i \in 1..n |-> q[i]] /\ \A i \in 1..n : TxOk(q[i], id, B)
    BY DEF TxsOk
<1>2. Len(q) = n /\ DOMAIN q = 1..n
    BY <1>1, SeqLen
<1> DEFINE V == {q[i] : i \in 1..n}
<1>3. q \in [1..n -> V]
    BY <1>1
<1> HIDE DEF V
<1>4. q \in Seq(V)
    BY <1>3, SeqDef
<1> QED
    BY <1>1, <1>2, <1>4 DEF V

LEMMA SeqTxs ==
    ASSUME NEW V, NEW q \in Seq(V), NEW n \in Nat, Len(q) = n, NEW id, NEW B,
           \A i \in 1..n : TxOk(q[i], id, B)
    PROVE  TxsOk(q, n, id, B)
<1>1. q \in [1..n -> V]
    BY LenProperties
<1>2. q = [i \in 1..n |-> q[i]]
    BY <1>1
<1> QED
    BY <1>2 DEF TxsOk

LEMMA BoundsNat ==
    ASSUME ReadersInv
    PROVE  Bounds \in SUBSET Nat /\ mti_txnid \in Bounds
BY DEF ReadersInv, Types, RegisteredOk, Bounds

\* No more than the last transaction, and that of each reader.
LEMMA FoundNow ==
    ASSUME ReadersInv
    PROVE  Found(mti_txnid + 1, Bounds)
<1> DEFINE Slots == {slot[r] : r \in {q \in Readers : slot[q] # NoTxn}}
           A == {(mti_txnid + 1) - 1} \cup Slots
<1>1. mti_txnid \in Nat /\ slot \in [Readers -> Nat \cup {NoTxn}]
    BY DEF ReadersInv, Types
<1>2. A \in SUBSET Nat /\ A # {}
    BY <1>1
<1>3. Bounds \subseteq A
    <2> SUFFICES ASSUME NEW b \in Bounds PROVE b \in A
        OBVIOUS
    <2>1. CASE b = mti_txnid
        BY <2>1, <1>1
    <2>2. ASSUME NEW r \in Registered, b = slot[r] PROVE b \in A
        <3>1. r \in Readers /\ slot[r] \in Nat
            BY <2>2 DEF ReadersInv, RegisteredOk, Registered
        <3>2. slot[r] # NoTxn
            BY <3>1 DEF NoTxn
        <3> QED
            BY <2>2, <3>1, <3>2
    <2> QED
        BY <2>1, <2>2 DEF Bounds
<1>4. Low(mti_txnid + 1) = Min(A)
    BY Zenon DEF Low
<1> HIDE DEF A
<1>5. Min(A) \in A /\ \A a \in A : Min(A) <= a
    BY <1>2, Smallest
<1> QED
    BY <1>2, <1>3, <1>4, <1>5 DEF Found

LEMMA SameBounds ==
    ASSUME UNCHANGED <<mti_txnid, slot, rd>>
    PROVE  Bounds' = Bounds /\ Registered' = Registered
BY DEF Bounds, Registered

\* What the writer may do on its own.
LEMMA WriterStep ==
    ASSUME ReadersInv, UNCHANGED <<metas, mti_txnid, slot, rd>>, NEW n \in Nat,
           TxsOk(tx', n, mti_txnid + 1, Bounds), EnvOk(env', Bounds), Count(n)',
           pc' \in {"idle", "txn", "save", "flush", "sync", "meta", "dead"},
           pc \in {"publish", "dead"} => pc' = "dead"
    PROVE  ReadersInv'
<1>1. Bounds' = Bounds /\ Registered' = Registered
    BY SameBounds
<1>2. Types'
    BY DEF ReadersInv, Types
<1>3. MetasOk'
    <2>1. mti_txnid \in Nat /\ Top1 <= Top1' /\ Top1 \in Nat /\ Top1' \in Nat
        BY DEF ReadersInv, Types, Top1
    <2>2. \A i \in 0..1 : MetaOk(metas[i], i, Top1')
        BY <2>1 DEF ReadersInv, MetasOk, MetaOk, MetaShape
    <2> QED
        BY <2>2 DEF ReadersInv, MetasOk
<1>4. RegisteredOk'
    BY <1>1 DEF ReadersInv, RegisteredOk
<1>5. EnvOk(env, Bounds)'
    BY <1>1
<1>6. WriterOk'
    BY <1>1 DEF WriterOk
<1> QED
    BY <1>2, <1>3, <1>4, <1>5, <1>6 DEF ReadersInv

LEMMA ReadersInit == Init => ReadersInv
<1> SUFFICES ASSUME Init PROVE ReadersInv
    OBVIOUS
<1>1. Types
    BY DEF Init, Types, NoTxn
<1>2. Registered = {} /\ Bounds = {0}
    BY DEF Init, Registered, Bounds
<1>3. MetasOk
    BY DEF Init, MetasOk, MetaOk, MetaShape, Top1
<1>4. RegisteredOk
    BY <1>2 DEF RegisteredOk
<1>5. EnvOk(env, Bounds)
    BY <1>2 DEF Init, EnvOk
<1>6. WriterOk
    <2>1. TxsOk(tx, 0, mti_txnid + 1, Bounds)
        BY NoTxs DEF Init
    <2>2. Count(0)
        BY DEF Init, Count
    <2> QED
        BY <2>1, <2>2 DEF WriterOk
<1> QED
    BY <1>1, <1>3, <1>4, <1>5, <1>6 DEF ReadersInv

\* The state that the calls of a transaction start from.
LEMMA Current ==
    ASSUME ReadersInv, pc \notin {"idle", "dead"}
    PROVE  \E n \in Nat \ {0} :
              /\ StateOk(State, n, mti_txnid + 1, Bounds) /\ Count(n) /\ Len(tx) = n
              /\ Top(State) = tx[n] /\ TxsOk(tx, n, mti_txnid + 1, Bounds)
<1>1. PICK n \in Nat : TxsOk(tx, n, mti_txnid + 1, Bounds) /\ Count(n)
    BY DEF ReadersInv, WriterOk
<1>2. n # 0
    BY <1>1 DEF Count
<1>3. EnvOk(env, Bounds)
    BY DEF ReadersInv
<1>4. State.tx = tx /\ State.env = env /\ DOMAIN State = {"tx", "env", "file", "ret"}
    BY DEF State
<1>5. StateOk(State, n, mti_txnid + 1, Bounds)
    BY <1>1, <1>3, <1>4 DEF StateOk
<1>6. Len(tx) = n
    BY <1>1, TxsSeq
<1>7. Top(State) = tx[n]
    BY <1>4, <1>6 DEF Top
<1> QED
    BY <1>1, <1>2, <1>5, <1>6, <1>7

\* A call of the writer that keeps the number of its transactions.
LEMMA CallStep ==
    ASSUME ReadersInv, UNCHANGED <<metas, mti_txnid, slot, rd>>,
           NEW S, NEW n \in Nat \ {0}, StateOk(S, n, mti_txnid + 1, Bounds), Apply(S),
           Count(n), pc' = pc \/ (pc = "txn" /\ n = 1 /\ pc' = "save")
                              \/ (pc = "save" /\ pc' = "flush"),
           pc \in {"txn", "save"}
    PROVE  ReadersInv'
<1>1. TxsOk(tx', n, mti_txnid + 1, Bounds) /\ EnvOk(env', Bounds)
    BY DEF StateOk, Apply
<1>2. Count(n)'
    BY DEF Count
<1>3. /\ pc' \in {"idle", "txn", "save", "flush", "sync", "meta", "dead"}
      /\ pc \in {"publish", "dead"} => pc' = "dead"
    OBVIOUS
<1> QED
    BY <1>1, <1>2, <1>3, WriterStep

LEMMA PutKeeps ==
    ASSUME ReadersInv, NEW k, Put(k)
    PROVE  ReadersInv'
<1> DEFINE S == PutMain(State, k, ops + 1)
<1>1. pc = "txn" /\ Apply(S) /\ UNCHANGED <<metas, mti_txnid, slot, rd, pc>>
    BY Zenon DEF Put, Call
<1>2. PICK n \in Nat \ {0} : StateOk(State, n, mti_txnid + 1, Bounds) /\ Count(n)
    BY <1>1, Current
<1>3. StateOk(S, n, mti_txnid + 1, Bounds)
    BY <1>2, FoundNow, PutMainOk
<1> HIDE DEF S
<1> QED
    BY <1>1, <1>2, <1>3, CallStep

LEMMA DelKeeps ==
    ASSUME ReadersInv, NEW k, Del(k)
    PROVE  ReadersInv'
<1> DEFINE S == DelMain(State, k)
<1>1. pc = "txn" /\ Apply(S) /\ UNCHANGED <<metas, mti_txnid, slot, rd, pc>>
    BY Zenon DEF Del, Call
<1>2. PICK n \in Nat \ {0} : StateOk(State, n, mti_txnid + 1, Bounds) /\ Count(n)
    BY <1>1, Current
<1>3. StateOk(S, n, mti_txnid + 1, Bounds)
    BY <1>2, FoundNow, DelMainOk
<1> HIDE DEF S
<1> QED
    BY <1>1, <1>2, <1>3, CallStep

LEMMA BeginWriteKeeps ==
    ASSUME ReadersInv, BeginWrite
    PROVE  ReadersInv'
<1> DEFINE t == NewTxn(metas[mti_txnid % 2])
<1>1. /\ pc = "idle" /\ pc' = "txn" /\ tx' = <<t>>
      /\ env' = [env EXCEPT !.has = FALSE, !.head = {}, !.last = 0]
      /\ UNCHANGED <<metas, mti_txnid, slot, rd>>
    BY DEF BeginWrite
<1>2. EnvOk(env, Bounds)
    BY DEF ReadersInv
<1>3. {"id", "saved"} \subseteq DOMAIN t /\ t.id = mti_txnid + 1 /\ t.saved = env
    BY DEF NewTxn
<1> HIDE DEF t
<1>4. TxOk(t, mti_txnid + 1, Bounds)
    BY <1>2, <1>3 DEF TxOk
<1>5. TxsOk(tx', 1, mti_txnid + 1, Bounds)
    BY <1>1, <1>4, OneTx
<1>6. EnvOk(env', Bounds)
    BY <1>1, <1>2 DEF EnvOk
<1>7. Count(1)'
    BY <1>1 DEF Count
<1> QED
    BY <1>1, <1>5, <1>6, <1>7, WriterStep

LEMMA BeginChildKeeps ==
    ASSUME ReadersInv, BeginChild
    PROVE  ReadersInv'
<1> DEFINE t == [Top(State) EXCEPT !.dirty = Empty, !.frees = {}, !.loose = <<>>,
                                   !.spill = {}, !.saved = env]
<1>1. /\ pc = "txn" /\ tx' = Append(tx, t)
      /\ UNCHANGED <<metas, mti_txnid, slot, rd, pc, env>>
    BY DEF BeginChild
<1>2. PICK n \in Nat \ {0} :
          /\ StateOk(State, n, mti_txnid + 1, Bounds) /\ Count(n)
          /\ TxsOk(tx, n, mti_txnid + 1, Bounds)
    BY <1>1, Current
<1>3. EnvOk(env, Bounds)
    BY DEF ReadersInv
<1>4. TxOk(Top(State), mti_txnid + 1, Bounds)
    BY <1>2, TopOk
<1>5. TxOk(t, mti_txnid + 1, Bounds)
    BY <1>3, <1>4 DEF TxOk
<1> HIDE DEF t
<1> DEFINE V == {tx[i] : i \in 1..n} \cup {t}
<1>6. /\ Len(tx) = n /\ tx \in Seq({tx[i] : i \in 1..n})
      /\ \A i \in 1..n : TxOk(tx[i], mti_txnid + 1, Bounds)
    BY <1>2, TxsSeq
<1>7. tx \in Seq(V) /\ t \in V
    BY <1>6
<1> HIDE DEF V
<1>8. PICK q : q = tx
    OBVIOUS
<1>9. /\ Append(q, t) \in Seq(V) /\ Len(Append(q, t)) = n + 1
      /\ \A i \in 1..(n + 1) : TxOk(Append(q, t)[i], mti_txnid + 1, Bounds)
    BY <1>5, <1>6, <1>7, <1>8
<1>10. TxsOk(tx', n + 1, mti_txnid + 1, Bounds)
    <2>1. PICK p : p = Append(q, t)
        OBVIOUS
    <2>2. n + 1 \in Nat /\ p \in Seq(V) /\ Len(p) = n + 1
        BY <1>9, <2>1
    <2>3. \A i \in 1..(n + 1) : TxOk(p[i], mti_txnid + 1, Bounds)
        BY <1>9, <2>1
    <2>4. TxsOk(p, n + 1, mti_txnid + 1, Bounds)
        BY <2>2, <2>3, SeqTxs
    <2> QED
        BY <1>1, <1>8, <2>1, <2>4
<1>11. Count(n + 1)'
    BY <1>1, <1>2 DEF Count
<1>12. EnvOk(env', Bounds)
    BY <1>1, <1>3
<1> QED
    BY <1>1, <1>10, <1>11, <1>12, WriterStep

LEMMA CommitChildKeeps ==
    ASSUME ReadersInv, CommitChild
    PROVE  ReadersInv'
<1>1. /\ pc = "txn" /\ Len(tx) > 1
      /\ tx' = Append(SubSeq(tx, 1, Len(tx) - 2), MergeChild(tx[Len(tx) - 1], Top(State)))
      /\ UNCHANGED <<metas, mti_txnid, slot, rd, pc, env>>
    BY DEF CommitChild
<1>2. PICK n \in Nat \ {0} :
          /\ StateOk(State, n, mti_txnid + 1, Bounds) /\ Count(n)
          /\ TxsOk(tx, n, mti_txnid + 1, Bounds) /\ Len(tx) = n
    BY <1>1, Current
<1>3. EnvOk(env', Bounds)
    BY <1>1 DEF ReadersInv
<1>4. /\ tx \in Seq({tx[i] : i \in 1..n})
      /\ \A i \in 1..n : TxOk(tx[i], mti_txnid + 1, Bounds)
    BY <1>2, TxsSeq
<1>5. TxOk(Top(State), mti_txnid + 1, Bounds) /\ TxOk(tx[n - 1], mti_txnid + 1, Bounds)
    <2>1. n - 1 \in 1..n
        BY <1>1, <1>2
    <2> QED
        BY <1>2, <1>4, <2>1, TopOk
<1> DEFINE t == MergeChild(tx[n - 1], Top(State))
<1>6. TxOk(t, mti_txnid + 1, Bounds)
    <2> DEFINE c == Top(State)
               p == tx[n - 1]
               a1 == p.frees \cup c.frees
               a2 == p.twice \/ c.twice \/ p.frees \cap c.frees # {}
               a3 == (p.spill \ DOMAIN c.dirty) \cup c.spill
               a4 == c.dirty @@ Drop(p.dirty, c.spill)
               a5 == p.loose \o c.loose
    <2>1. t = [c EXCEPT !.frees = a1, !.twice = a2, !.spill = a3, !.dirty = a4, !.loose = a5,
                        !.saved = p.saved]
        BY Zenon DEF MergeChild
    <2>2. TxOk(c, mti_txnid + 1, Bounds) /\ TxOk(p, mti_txnid + 1, Bounds)
        BY <1>5
    <2> HIDE DEF a1, a2, a3, a4, a5, c, p, t
    <2> QED
        BY <2>1, <2>2 DEF TxOk
<1> HIDE DEF t
<1> DEFINE V == {tx[i] : i \in 1..n} \cup {t}
<1>7. tx \in Seq(V) /\ t \in V
    BY <1>4
<1> HIDE DEF V
<1>8. PICK q : q = SubSeq(tx, 1, n - 2)
    OBVIOUS
<1>9. /\ q \in Seq(V) /\ Len(q) = n - 2
      /\ \A i \in 1..(n - 2) : TxOk(q[i], mti_txnid + 1, Bounds)
    BY <1>1, <1>2, <1>4, <1>7, <1>8, SubSeqProperties
<1>10. /\ Append(q, t) \in Seq(V) /\ Len(Append(q, t)) = n - 1
       /\ \A i \in 1..(n - 1) : TxOk(Append(q, t)[i], mti_txnid + 1, Bounds)
    BY <1>1, <1>2, <1>6, <1>7, <1>9
<1>11. TxsOk(tx', n - 1, mti_txnid + 1, Bounds) /\ n - 1 \in Nat
    <2>1. PICK p : p = Append(q, t)
        OBVIOUS
    <2>2. n - 1 \in Nat /\ p \in Seq(V) /\ Len(p) = n - 1
        BY <1>1, <1>2, <1>10, <2>1
    <2>3. \A i \in 1..(n - 1) : TxOk(p[i], mti_txnid + 1, Bounds)
        BY <1>10, <2>1
    <2>4. TxsOk(p, n - 1, mti_txnid + 1, Bounds)
        BY <2>2, <2>3, SeqTxs
    <2>5. tx' = p
        BY <1>1, <1>2, <1>8, <2>1, Zenon DEF t
    <2> QED
        BY <2>2, <2>4, <2>5
<1>12. Count(n - 1)'
    BY <1>1, <1>2 DEF Count
<1> QED
    BY <1>1, <1>3, <1>11, <1>12, WriterStep

LEMMA AbortChildKeeps ==
    ASSUME ReadersInv, AbortChild
    PROVE  ReadersInv'
<1>1. /\ pc = "txn" /\ Len(tx) > 1
      /\ env' = [Top(State).saved EXCEPT !.oldest = env.oldest]
      /\ UNCHANGED <<metas, mti_txnid, slot, rd, pc>>
    BY DEF AbortChild, AbortChildTo
<1>2. PICK err : tx' = [SubSeq(tx, 1, Len(tx) - 1) EXCEPT ![Len(tx) - 1].error = @ \/ err]
    BY DEF AbortChild, AbortChildTo
<1>3. PICK n \in Nat \ {0} :
          /\ StateOk(State, n, mti_txnid + 1, Bounds) /\ Count(n)
          /\ TxsOk(tx, n, mti_txnid + 1, Bounds) /\ Len(tx) = n
    BY <1>1, Current
<1>4. EnvOk(env', Bounds)
    <2>1. EnvOk(Top(State).saved, Bounds) /\ EnvOk(env, Bounds)
        BY <1>3, TopOk DEF TxOk, ReadersInv
    <2> QED
        BY <1>1, <2>1 DEF EnvOk
<1>5. /\ tx \in Seq({tx[i] : i \in 1..n})
      /\ \A i \in 1..n : TxOk(tx[i], mti_txnid + 1, Bounds)
    BY <1>3, TxsSeq
<1> DEFINE V == {tx[i] : i \in 1..n}
<1>6. tx \in Seq(V)
    BY <1>5
<1> HIDE DEF V
<1>7. PICK q : q = SubSeq(tx, 1, n - 1)
    OBVIOUS
<1>8. /\ q \in Seq(V) /\ Len(q) = n - 1
      /\ \A i \in 1..(n - 1) : TxOk(q[i], mti_txnid + 1, Bounds)
    BY <1>1, <1>3, <1>5, <1>6, <1>7, SubSeqProperties
<1> DEFINE x == q[n - 1].error \/ err
           t == [q[n - 1] EXCEPT !.error = x]
<1>9. tx' = [q EXCEPT ![n - 1] = t]
    BY <1>2, <1>3, <1>7, Zenon
<1> HIDE DEF x
<1>10. n - 1 \in Nat /\ n - 1 \in 1..(n - 1)
    BY <1>1, <1>3
<1>11. TxOk(t, mti_txnid + 1, Bounds)
    BY <1>8, <1>10 DEF TxOk
<1> HIDE DEF t
<1>12. TxsOk(tx', n - 1, mti_txnid + 1, Bounds)
    <2>1. q \in [1..(n - 1) -> V]
        BY <1>8, LenProperties
    <2> QED
        BY <1>8, <1>9, <1>10, <1>11, <2>1 DEF TxsOk
<1>13. Count(n - 1)'
    BY <1>1, <1>3, <1>10 DEF Count
<1> QED
    BY <1>1, <1>4, <1>10, <1>12, <1>13, WriterStep

LEMMA CommitKeeps ==
    ASSUME ReadersInv, Commit
    PROVE  ReadersInv'
<1> DEFINE T == IF env.has THEN TouchFree(State) ELSE State
           S == IF Failed(T) THEN T ELSE LooseToFree(T)
<1>1. /\ pc = "txn" /\ Len(tx) = 1 /\ pc' = "save" /\ Apply(S)
      /\ UNCHANGED <<metas, mti_txnid, slot, rd>>
    BY Zenon DEF Commit, Saving, Bind
<1>2. PICK n \in Nat \ {0} :
          StateOk(State, n, mti_txnid + 1, Bounds) /\ Count(n) /\ Len(tx) = n
    BY <1>1, Current
<1>3. StateOk(T, n, mti_txnid + 1, Bounds)
    BY <1>2, FoundNow, TouchFreeOk
<1> HIDE DEF T
<1>4. StateOk(S, n, mti_txnid + 1, Bounds)
    BY <1>2, <1>3, LooseToFreeOk
<1> HIDE DEF S
<1> QED
    BY <1>1, <1>2, <1>4, CallStep

LEMMA SaveDeleteKeeps ==
    ASSUME ReadersInv, SaveDelete
    PROVE  ReadersInv'
<1>1. pc = "save" /\ UNCHANGED pc
    BY DEF SaveDelete
<1>2. PICK i : Apply(DelFree(State, i)) /\ UNCHANGED <<metas, mti_txnid, slot, rd>>
    BY Zenon DEF SaveDelete, Saving
<1>3. PICK n \in Nat \ {0} : StateOk(State, n, mti_txnid + 1, Bounds) /\ Count(n)
    BY <1>1, Current
<1> DEFINE S == DelFree(State, i)
<1>4. StateOk(S, n, mti_txnid + 1, Bounds)
    BY <1>3, FoundNow, DelFreeOk
<1> HIDE DEF S
<1> QED
    BY <1>1, <1>2, <1>3, <1>4, CallStep DEF S

LEMMA SaveFreedKeeps ==
    ASSUME ReadersInv, SaveFreed
    PROVE  ReadersInv'
<1> DEFINE T == IF sv.freecnt = 0 THEN TouchFree(State) ELSE State
           m == Cardinality(Top(T).frees)
           U == IF Failed(T) THEN T ELSE PutFree(T, Top(T).id, m)
           F == Fill(U, Top(U).id, Top(U).frees)
           S == IF Cardinality(Top(U).frees) = m /\ ~ Failed(U) THEN F ELSE U
<1>1. /\ pc = "save" /\ UNCHANGED <<metas, mti_txnid, slot, rd, pc>>
      /\ Apply(S)
    <2>1. pc = "save" /\ UNCHANGED <<metas, mti_txnid, slot, rd, pc>>
        BY DEF SaveFreed, Saving
    <2>2. Apply(IF Cardinality(Top(U).frees) = m THEN IF Failed(U) THEN U ELSE F ELSE U)
        BY Zenon DEF SaveFreed, Saving, Bind
    <2> HIDE DEF U, F, m
    <2> QED
        BY <2>1, <2>2
<1>2. PICK n \in Nat \ {0} : StateOk(State, n, mti_txnid + 1, Bounds) /\ Count(n)
    BY <1>1, Current
<1>3. StateOk(T, n, mti_txnid + 1, Bounds)
    BY <1>2, FoundNow, TouchFreeOk
<1> HIDE DEF T, m
<1>4. StateOk(U, n, mti_txnid + 1, Bounds)
    BY <1>3, FoundNow, PutFreeOk
<1> HIDE DEF U
<1>5. StateOk(F, n, mti_txnid + 1, Bounds)
    BY <1>4, FoundNow, FillOk
<1> HIDE DEF F
<1>6. StateOk(S, n, mti_txnid + 1, Bounds)
    BY <1>4, <1>5
<1> HIDE DEF S
<1> QED
    BY <1>1, <1>2, <1>6, CallStep

LEMMA SaveHeadKeeps ==
    ASSUME ReadersInv, SaveHead
    PROVE  ReadersInv'
<1>1. pc = "save" /\ UNCHANGED pc
    BY DEF SaveHead
<1>2. PICK i, m : Apply(PutFree(State, i, m)) /\ UNCHANGED <<metas, mti_txnid, slot, rd>>
    BY Zenon DEF SaveHead, Saving
<1>3. PICK n \in Nat \ {0} : StateOk(State, n, mti_txnid + 1, Bounds) /\ Count(n)
    BY <1>1, Current
<1> DEFINE S == PutFree(State, i, m)
<1>4. StateOk(S, n, mti_txnid + 1, Bounds)
    BY <1>3, FoundNow, PutFreeOk
<1> HIDE DEF S
<1> QED
    BY <1>1, <1>2, <1>3, <1>4, CallStep DEF S

LEMMA SaveDoneKeeps ==
    ASSUME ReadersInv, SaveDone
    PROVE  ReadersInv'
<1> DEFINE S == Distribute(State)
<1>1. /\ pc = "save" /\ pc' = "flush" /\ UNCHANGED <<metas, mti_txnid, slot, rd>>
      /\ Apply(S)
    BY Zenon DEF SaveDone, Saving
<1>2. PICK n \in Nat \ {0} : StateOk(State, n, mti_txnid + 1, Bounds) /\ Count(n)
    BY <1>1, Current
<1>3. StateOk(S, n, mti_txnid + 1, Bounds)
    BY <1>2, FoundNow, DistributeOk
<1> HIDE DEF S
<1> QED
    BY <1>1, <1>2, <1>3, CallStep

LEMMA FlushKeeps ==
    ASSUME ReadersInv, Flush \/ Sync
    PROVE  ReadersInv'
<1>1. /\ pc \in {"flush", "sync"} /\ pc' \in {"sync", "meta"}
      /\ UNCHANGED <<metas, mti_txnid, slot, rd, env>>
      /\ tx' = tx \/ tx' = [tx EXCEPT ![1].dirty = Empty]
    BY DEF Flush, Sync
<1>2. PICK n \in Nat \ {0} : Count(n) /\ TxsOk(tx, n, mti_txnid + 1, Bounds)
    BY <1>1, Current
<1>3. n = 1
    BY <1>1, <1>2 DEF Count
<1> DEFINE t == [tx[1] EXCEPT !.dirty = Empty]
<1>4. tx' = tx \/ tx' = [tx EXCEPT ![1] = t]
    BY <1>1
<1>5. tx = [i \in 1..1 |-> tx[i]] /\ TxOk(tx[1], mti_txnid + 1, Bounds)
    BY <1>2, <1>3 DEF TxsOk
<1>6. TxOk(t, mti_txnid + 1, Bounds)
    BY <1>5 DEF TxOk
<1> HIDE DEF t
<1>7. TxsOk(tx', 1, mti_txnid + 1, Bounds)
    <2>1. CASE tx' = tx
        BY <2>1, <1>2, <1>3
    <2>2. CASE tx' = [tx EXCEPT ![1] = t]
        <3>1. PICK q : q = tx
            OBVIOUS
        <3>2. TxsOk([q EXCEPT ![1] = t], 1, mti_txnid + 1, Bounds)
            BY <1>2, <1>3, <1>6, <3>1, TxsSet
        <3> QED
            BY <2>2, <3>1, <3>2
    <2> QED
        BY <1>4, <2>1, <2>2
<1>8. Count(1)'
    BY <1>1 DEF Count
<1>9. EnvOk(env', Bounds)
    BY <1>1 DEF ReadersInv
<1> QED
    BY <1>1, <1>7, <1>8, <1>9, WriterStep

\* mdb_txn_end: no transaction, and the oldest reader that was found may be kept.
LEMMA EndKeeps ==
    ASSUME ReadersInv, NEW e \in {0, env.oldest}, NEW to \in {"idle", "dead"},
           EndAt(e, to), UNCHANGED <<metas, mti_txnid, slot, rd>>,
           pc \in {"publish", "dead"} => to = "dead"
    PROVE  ReadersInv'
<1>1. tx' = <<>> /\ pc' = to
      /\ env' = [has |-> FALSE, head |-> {}, last |-> 0, oldest |-> e]
    BY DEF EndAt
<1>2. EnvOk(env, Bounds)
    BY DEF ReadersInv
<1>3. EnvOk(env', Bounds)
    <2>1. e \in Nat /\ \A b \in Bounds : b \in Nat /\ e <= b
        BY <1>2 DEF EnvOk
    <2> QED
        BY <1>1, <1>2, <2>1 DEF EnvOk
<1>4. TxsOk(tx', 0, mti_txnid + 1, Bounds)
    BY <1>1, NoTxs
<1>5. Count(0)'
    BY <1>1 DEF Count
<1> QED
    BY <1>1, <1>3, <1>4, <1>5, WriterStep

LEMMA AbortKeeps ==
    ASSUME ReadersInv, Abort \/ CommitFails \/ Kill
    PROVE  ReadersInv'
<1>1. UNCHANGED <<metas, mti_txnid, slot, rd>>
    BY DEF Abort, CommitFails, Kill
<1>2. CASE Abort
    BY <1>1, <1>2, EndKeeps DEF Abort, End
<1>3. CASE CommitFails
    BY <1>1, <1>3, EndKeeps DEF CommitFails, End
<1>4. CASE Kill
    BY <1>1, <1>4, EndKeeps DEF Kill
<1> QED
    BY <1>2, <1>3, <1>4

\* A transaction goes to the meta page that the last one is not in.
LEMMA Parity ==
    ASSUME NEW i \in Nat
    PROVE  i % 2 \in 0..1 /\ (i + 1) % 2 \in 0..1 /\ (i + 1) % 2 # i % 2
OBVIOUS

LEMMA OneTransaction ==
    ASSUME ReadersInv, pc \in {"meta", "publish"}
    PROVE  /\ TxsOk(tx, 1, mti_txnid + 1, Bounds) /\ Count(1)
           /\ tx[1].id = mti_txnid + 1
<1>1. PICK n \in Nat \ {0} : Count(n) /\ TxsOk(tx, n, mti_txnid + 1, Bounds)
    BY Current
<1>2. n = 1
    BY <1>1 DEF Count
<1>3. TxOk(tx[1], mti_txnid + 1, Bounds)
    BY <1>1, <1>2 DEF TxsOk
<1> QED
    BY <1>1, <1>2, <1>3 DEF TxOk

LEMMA WriteMetaKeeps ==
    ASSUME ReadersInv, WriteMeta
    PROVE  ReadersInv'
<1>1. TxsOk(tx, 1, mti_txnid + 1, Bounds) /\ tx[1].id = mti_txnid + 1
    BY OneTransaction DEF WriteMeta, WriteMetaAt
<1>2. mti_txnid \in Nat
    BY DEF ReadersInv, Types
<1>3. PICK i : i = (mti_txnid + 1) % 2
    OBVIOUS
<1>4. i \in 0..1 /\ i # mti_txnid % 2 /\ mti_txnid % 2 \in 0..1
    BY <1>2, <1>3, Parity
<1>5. PICK m : m = NewMeta
    OBVIOUS
<1>6. metas' = [metas EXCEPT ![i] = m] /\ pc = "meta" /\ pc' = "publish"
      /\ UNCHANGED <<mti_txnid, slot, rd, tx, env>>
    BY <1>1, <1>3, <1>5, Zenon DEF WriteMeta, WriteMetaAt
<1>7. m.txnid = mti_txnid + 1 /\ MetaShape(m, i)
    BY <1>1, <1>2, <1>3, <1>5 DEF NewMeta, MetaShape
<1>8. Bounds' = Bounds /\ Registered' = Registered
    BY <1>6, SameBounds
<1>9. /\ metas = [j \in 0..1 |-> metas[j]]
      /\ \A j \in 0..1 : metas[j].txnid \in Nat /\ MetaOk(metas[j], j, mti_txnid + 1)
    BY DEF ReadersInv, MetasOk, MetaOk, MetaShape, Top1
<1>10. /\ metas' = [j \in 0..1 |-> metas'[j]] /\ metas'[i] = m
       /\ \A j \in 0..1 : j # i => metas'[j] = metas[j]
    BY <1>4, <1>6, <1>9
<1>11. \A j \in 0..1 : MetaOk(metas'[j], j, mti_txnid + 1)
    BY <1>2, <1>7, <1>9, <1>10 DEF MetaOk
<1>12. MetasOk'
    <2>1. metas'[mti_txnid % 2].txnid >= mti_txnid
        BY <1>4, <1>10 DEF ReadersInv, MetasOk
    <2>2. metas'[(mti_txnid + 1) % 2].txnid = mti_txnid + 1
        BY <1>3, <1>7, <1>10
    <2> QED
        BY <1>6, <1>10, <1>11, <2>1, <2>2 DEF MetasOk, Top1
<1>13. RegisteredOk'
    <2> SUFFICES ASSUME NEW r \in Registered
                 PROVE  slot[r] \in Nat /\ metas'[slot[r] % 2].txnid >= slot[r]
        BY <1>6, <1>8 DEF RegisteredOk
    <2>1. slot[r] \in Nat /\ metas[slot[r] % 2].txnid >= slot[r]
        BY DEF ReadersInv, RegisteredOk
    <2>2. slot[r] % 2 \in 0..1
        BY <2>1
    <2>3. metas[slot[r] % 2].txnid \in Nat /\ metas[slot[r] % 2].txnid <= mti_txnid + 1
        BY <1>9, <2>2 DEF MetaOk
    <2>4. slot[r] <= mti_txnid + 1
        BY <2>1, <2>3, <1>2
    <2>5. CASE slot[r] % 2 = i
        BY <2>1, <2>4, <2>5, <1>2, <1>7, <1>10
    <2>6. CASE slot[r] % 2 # i
        BY <2>1, <2>2, <2>6, <1>10
    <2> QED
        BY <2>5, <2>6
<1>14. Types' /\ EnvOk(env, Bounds)'
    BY <1>6, <1>8 DEF ReadersInv, Types
<1>15. WriterOk'
    <2>1. Count(1)'
        BY <1>6 DEF Count
    <2>2. TxsOk(tx, 1, mti_txnid + 1, Bounds)'
        BY <1>1, <1>6, <1>8
    <2> QED
        BY <2>1, <2>2 DEF WriterOk
<1> QED
    BY <1>12, <1>13, <1>14, <1>15 DEF ReadersInv

\* What a failed write may leave in a meta page: what it held, or a record of
\* the new transaction or of the old.
LEMMA FailedMeta ==
    ASSUME ReadersInv, WriteMetaFails
    PROVE  LET i == (mti_txnid + 1) % 2 IN
           /\ i \in 0..1
           /\ \E m : /\ metas' = [metas EXCEPT ![i] = m] /\ MetaShape(m, i)
                     /\ m.txnid \in {metas[i].txnid, mti_txnid + 1}
           /\ \E R : /\ mdisk' = [mdisk EXCEPT ![i] = mdisk[i] \cup R]
                     /\ \A m \in R : MetaShape(m, i)
<1>1. tx[1].id = mti_txnid + 1
    BY OneTransaction DEF WriteMetaFails, WriteMetaFailsAt
<1>2. mti_txnid \in Nat
    BY DEF ReadersInv, Types
<1>3. PICK i : i = (mti_txnid + 1) % 2
    OBVIOUS
<1>4. i \in 0..1
    BY <1>2, <1>3, Parity
<1>5. MetaShape(metas[i], i)
    BY <1>4 DEF ReadersInv, MetasOk, MetaOk
<1>6. PICK new, undone :
          /\ new = NewMeta
          /\ undone = [NewMeta EXCEPT !.txnid = metas[i].txnid, !.last = metas[i].last]
    OBVIOUS
<1>7. MetaShape(new, i) /\ new.txnid = mti_txnid + 1
    BY <1>1, <1>2, <1>3, <1>6 DEF NewMeta, MetaShape
<1>8. MetaShape(undone, i) /\ undone.txnid = metas[i].txnid
    BY <1>5, <1>6 DEF NewMeta, MetaShape
<1>9. PICK written \in {<<>>, <<new>>, <<undone>>, <<new, undone>>} :
          /\ metas' = [metas EXCEPT ![i] = IF written = <<>> THEN metas[i] ELSE Last(written)]
          /\ mdisk' = [mdisk EXCEPT ![i] = mdisk[i] \cup Range(written)]
    BY <1>1, <1>3, <1>6, Zenon DEF WriteMetaFails, WriteMetaFailsAt
<1>10. PICK m : m = IF written = <<>> THEN metas[i] ELSE Last(written)
    OBVIOUS
<1>11. m \in {metas[i], new, undone}
    BY <1>9, <1>10 DEF Last
<1>12. \A x \in Range(written) : x \in {new, undone}
    BY <1>9 DEF Range
<1>13. metas' = [metas EXCEPT ![i] = m]
    BY <1>9, <1>10, Zenon
<1>14. MetaShape(m, i) /\ m.txnid \in {metas[i].txnid, mti_txnid + 1}
    BY <1>5, <1>7, <1>8, <1>11
<1>15. \A x \in Range(written) : MetaShape(x, i)
    BY <1>7, <1>8, <1>12
<1> QED
    BY <1>3, <1>4, <1>9, <1>13, <1>14, <1>15, Zenon

\* The transaction of a meta page whose write fails remains or is the new one.
LEMMA WriteMetaFailsKeeps ==
    ASSUME ReadersInv, WriteMetaFails
    PROVE  ReadersInv'
<1>2. mti_txnid \in Nat
    BY DEF ReadersInv, Types
<1>3. PICK i : i = (mti_txnid + 1) % 2
    OBVIOUS
<1>4. i \in 0..1 /\ i # mti_txnid % 2 /\ mti_txnid % 2 \in 0..1
    BY <1>2, <1>3, Parity
<1>5. pc = "meta" /\ pc' = "idle" /\ UNCHANGED <<mti_txnid, slot, rd>> /\ tx' = <<>>
      /\ env' = [has |-> FALSE, head |-> {}, last |-> 0, oldest |-> 0]
    BY DEF WriteMetaFails, WriteMetaFailsAt, End, EndAt
<1>6. Bounds' = Bounds /\ Registered' = Registered
    BY <1>5, SameBounds
<1>7. /\ metas = [j \in 0..1 |-> metas[j]]
      /\ \A j \in 0..1 : metas[j].txnid \in Nat /\ MetaOk(metas[j], j, mti_txnid + 1)
    BY DEF ReadersInv, MetasOk, MetaOk, MetaShape, Top1
<1>8. PICK m : /\ metas' = [metas EXCEPT ![i] = m] /\ MetaShape(m, i)
               /\ m.txnid \in {metas[i].txnid, mti_txnid + 1}
    BY <1>3, FailedMeta, Zenon
<1>9. MetaOk(m, i, mti_txnid + 1) /\ m.txnid >= metas[i].txnid
    BY <1>2, <1>4, <1>7, <1>8 DEF MetaOk
<1>10. /\ metas' = [j \in 0..1 |-> metas'[j]] /\ metas'[i] = m
       /\ \A j \in 0..1 : j # i => metas'[j] = metas[j]
    BY <1>4, <1>7, <1>8
<1>11. \A j \in 0..1 : /\ metas'[j].txnid \in Nat /\ metas'[j].txnid >= metas[j].txnid
                       /\ MetaOk(metas'[j], j, mti_txnid + 1)
    BY <1>7, <1>9, <1>10 DEF MetaOk, MetaShape
<1>13. MetasOk'
    <2>1. metas'[mti_txnid % 2].txnid >= mti_txnid
        BY <1>4, <1>10 DEF ReadersInv, MetasOk
    <2> QED
        BY <1>5, <1>10, <1>11, <2>1 DEF MetasOk, Top1
<1>14. RegisteredOk'
    <2> SUFFICES ASSUME NEW r \in Registered
                 PROVE  slot[r] \in Nat /\ metas'[slot[r] % 2].txnid >= slot[r]
        BY <1>5, <1>6 DEF RegisteredOk
    <2>1. slot[r] \in Nat /\ metas[slot[r] % 2].txnid >= slot[r]
        BY DEF ReadersInv, RegisteredOk
    <2>2. slot[r] % 2 \in 0..1
        BY <2>1
    <2> QED
        BY <2>1, <2>2, <1>7, <1>11
<1>15. Types'
    BY <1>5 DEF ReadersInv, Types
<1>16. EnvOk(env, Bounds)'
    BY <1>5, <1>6, BoundsNat DEF EnvOk
<1>17. WriterOk'
    <2>1. Count(0)'
        BY <1>5 DEF Count
    <2>2. TxsOk(tx, 0, mti_txnid + 1, Bounds)'
        BY <1>5, NoTxs
    <2> QED
        BY <2>1, <2>2 DEF WriterOk
<1> QED
    BY <1>13, <1>14, <1>15, <1>16, <1>17 DEF ReadersInv

\* The last transaction becomes a newer one, and no reader is added.
LEMMA Advance ==
    ASSUME ReadersInv, Types', UNCHANGED metas, mti_txnid <= mti_txnid', pc' = "idle",
           tx' = <<>>, EnvOk(env', Bounds),
           Registered' \subseteq Registered, \A r \in Registered' : slot'[r] = slot[r],
           metas[mti_txnid' % 2].txnid >= mti_txnid',
           \A i \in 0..1 : metas[i].txnid <= mti_txnid'
    PROVE  ReadersInv'
<1>1. mti_txnid \in Nat /\ mti_txnid' \in Nat
    BY DEF ReadersInv, Types
<1>2. PICK C : C = Bounds'
    OBVIOUS
<1>3. C \in SUBSET Nat /\ \A c \in C : \E b \in Bounds : b <= c
    <2>1. \A c \in C : c \in Nat /\ \E b \in Bounds : b <= c
        <3> TAKE c \in C
        <3>1. CASE c = mti_txnid'
            BY <3>1, <1>1 DEF Bounds
        <3>2. ASSUME NEW r \in Registered', c = slot'[r]
              PROVE  c \in Nat /\ \E b \in Bounds : b <= c
            <4>1. r \in Registered /\ c = slot[r]
                BY <3>2
            <4>2. c \in Bounds /\ c \in Nat
                BY <4>1 DEF Bounds, ReadersInv, RegisteredOk
            <4> QED
                BY <4>2
        <3> QED
            BY <1>2, <3>1, <3>2 DEF Bounds
    <2> QED
        BY <2>1
<1>4. PICK e : e = env'
    OBVIOUS
<1>5. EnvOk(e, C)
    BY <1>3, <1>4, EnvMono
<1>6. EnvOk(env, Bounds)'
    BY <1>2, <1>4, <1>5
<1>7. MetasOk'
    <2>1. Top1' = mti_txnid' + 1
        BY DEF Top1
    <2>2. \A i \in 0..1 : MetaOk(metas[i], i, mti_txnid' + 1)
        BY <1>1 DEF ReadersInv, MetasOk, MetaOk, MetaShape
    <2> QED
        BY <2>1, <2>2 DEF ReadersInv, MetasOk
<1>8. RegisteredOk'
    BY DEF ReadersInv, RegisteredOk
<1>9. WriterOk'
    <2>1. Count(0)'
        BY DEF Count
    <2>2. TxsOk(tx, 0, mti_txnid + 1, Bounds)'
        BY NoTxs
    <2> QED
        BY <2>1, <2>2 DEF WriterOk
<1> QED
    BY <1>6, <1>7, <1>8, <1>9 DEF ReadersInv

LEMMA PublishKeeps ==
    ASSUME ReadersInv, Publish
    PROVE  ReadersInv'
<1>1. tx[1].id = mti_txnid + 1
    BY OneTransaction DEF Publish
<1>2. /\ pc = "publish" /\ pc' = "idle" /\ mti_txnid' = mti_txnid + 1
      /\ UNCHANGED <<metas, slot, rd>> /\ tx' = <<>>
      /\ env' = [has |-> FALSE, head |-> {}, last |-> 0, oldest |-> env.oldest]
    BY <1>1 DEF Publish, End, EndAt
<1>3. mti_txnid \in Nat
    BY DEF ReadersInv, Types
<1>4. Types'
    BY <1>2, <1>3 DEF ReadersInv, Types
<1>5. EnvOk(env', Bounds)
    BY <1>2 DEF ReadersInv, EnvOk
<1>6. Registered' = Registered
    BY <1>2 DEF Registered
<1>7. metas[(mti_txnid + 1) % 2].txnid = mti_txnid + 1
    BY <1>2 DEF ReadersInv, MetasOk
<1>8. \A i \in 0..1 : metas[i].txnid <= mti_txnid + 1
    <2>1. Top1 = mti_txnid + 1
        BY <1>2 DEF Top1
    <2> QED
        BY <1>3, <2>1 DEF ReadersInv, MetasOk, MetaOk, MetaShape
<1>9. metas[mti_txnid' % 2].txnid >= mti_txnid' /\ \A i \in 0..1 : metas[i].txnid <= mti_txnid'
    BY <1>2, <1>3, <1>7, <1>8
<1> QED
    BY <1>2, <1>3, <1>4, <1>5, <1>6, <1>9, Advance

\* The newer of the two meta pages is that of its transaction.
LEMMA NewerOk ==
    ASSUME NEW M, \A i \in 0..1 : MetaShape(M[i], i), NEW n,
           n = IF M[0].txnid < M[1].txnid THEN 1 ELSE 0
    PROVE  /\ n \in 0..1 /\ M[n].txnid \in Nat /\ M[n].txnid % 2 = n
           /\ \A i \in 0..1 : M[i].txnid <= M[n].txnid
<1>1. \A i \in 0..1 : M[i].txnid \in Nat /\ (M[i].txnid = 0 \/ M[i].txnid % 2 = i)
    BY DEF MetaShape
<1>2. n \in 0..1 /\ M[n].txnid \in Nat /\ (M[n].txnid = 0 => n = 0)
    BY <1>1
<1> QED
    BY <1>1, <1>2

LEMMA NewestOk ==
    ASSUME ReadersInv
    PROVE  LET t == metas[Newest].txnid IN
           /\ t \in Nat /\ mti_txnid <= t /\ metas[t % 2].txnid >= t
           /\ \A i \in 0..1 : metas[i].txnid <= t
<1>1. PICK n : n = IF metas[0].txnid < metas[1].txnid THEN 1 ELSE 0
    OBVIOUS
<1>2. mti_txnid \in Nat /\ \A i \in 0..1 : MetaShape(metas[i], i)
    BY DEF ReadersInv, MetasOk, MetaOk, Types
<1>3. /\ n \in 0..1 /\ metas[n].txnid \in Nat /\ metas[n].txnid % 2 = n
      /\ \A i \in 0..1 : metas[i].txnid <= metas[n].txnid
    BY <1>1, <1>2, NewerOk
<1>4. mti_txnid <= metas[n].txnid
    <2>1. mti_txnid % 2 \in 0..1 /\ metas[mti_txnid % 2].txnid >= mti_txnid
        BY <1>2, Parity DEF ReadersInv, MetasOk
    <2>2. metas[mti_txnid % 2].txnid \in Nat /\ metas[mti_txnid % 2].txnid <= metas[n].txnid
        BY <1>2, <1>3, <2>1 DEF MetaShape
    <2> QED
        BY <1>2, <1>3, <2>1, <2>2
<1>5. Newest = n
    BY <1>1 DEF Newest
<1>6. metas[metas[n].txnid % 2].txnid >= metas[n].txnid
    BY <1>3
<1> QED
    BY <1>3, <1>4, <1>5, <1>6

LEMMA RecoverKeeps ==
    ASSUME ReadersInv, Recover
    PROVE  ReadersInv'
<1>1. /\ pc = "dead" /\ pc' = "idle" /\ mti_txnid' = metas[Newest].txnid
      /\ UNCHANGED <<metas, slot, rd, tx, env>>
    BY DEF Recover
<1>2. PICK t : t = metas[Newest].txnid
    OBVIOUS
<1>3. /\ t \in Nat /\ mti_txnid <= t /\ metas[t % 2].txnid >= t
      /\ \A i \in 0..1 : metas[i].txnid <= t
    BY <1>2, NewestOk
<1>4. Types'
    BY <1>1, <1>2, <1>3 DEF ReadersInv, Types
<1>5. EnvOk(env', Bounds)
    BY <1>1 DEF ReadersInv
<1>6. Registered' = Registered
    BY <1>1 DEF Registered
<1>7. tx' = <<>>
    <2>1. TxsOk(tx, 0, mti_txnid + 1, Bounds)
        BY <1>1 DEF ReadersInv, WriterOk, Count
    <2> QED
        BY <1>1, <2>1 DEF TxsOk
<1> QED
    BY <1>1, <1>2, <1>3, <1>4, <1>5, <1>6, <1>7, Advance

LEMMA PowerFailsKeeps ==
    ASSUME ReadersInv, DiskOk, PowerFails
    PROVE  ReadersInv'
<1>1. /\ pc' = "idle" /\ mti_txnid' = metas'[Newest'].txnid
      /\ slot' = [r \in Readers |-> NoTxn]
      /\ rd' = [r \in Readers |-> [pc |-> "idle", val |-> 0, main |-> NoPage, view |-> Empty,
                                   late |-> FALSE]]
      /\ tx' = <<>> /\ env' = [has |-> FALSE, head |-> {}, last |-> 0, oldest |-> 0]
    BY DEF PowerFails, End, EndAt
<1>2. PICK a \in mdisk[0], b \in mdisk[1] : metas' = [i \in 0..1 |-> <<a, b>>[i + 1]]
    BY Zenon DEF PowerFails
<1>3. PICK M : M = metas'
    OBVIOUS
<1>4. M = [i \in 0..1 |-> M[i]] /\ \A i \in 0..1 : MetaShape(M[i], i)
    BY <1>2, <1>3 DEF DiskOk
<1>5. PICK n : n = IF M[0].txnid < M[1].txnid THEN 1 ELSE 0
    OBVIOUS
<1>6. /\ n \in 0..1 /\ M[n].txnid \in Nat /\ M[n].txnid % 2 = n
      /\ \A i \in 0..1 : M[i].txnid <= M[n].txnid
    BY <1>4, <1>5, NewerOk
<1>7. Newest' = n
    BY <1>3, <1>5 DEF Newest
<1>8. PICK t : t = M[n].txnid
    OBVIOUS
<1>9. mti_txnid' = t /\ t \in Nat
    BY <1>1, <1>3, <1>6, <1>7, <1>8
<1>10. Types'
    BY <1>1, <1>9 DEF Types, NoTxn
<1>11. Registered' = {} /\ Bounds' = {t}
    BY <1>1, <1>9 DEF Registered, Bounds
<1>12. MetasOk'
    <2>1. \A i \in 0..1 : MetaOk(M[i], i, t + 1)
        BY <1>4, <1>6, <1>8 DEF MetaOk, MetaShape
    <2>2. M[t % 2].txnid >= t
        BY <1>6, <1>8
    <2> QED
        BY <1>1, <1>3, <1>4, <1>9, <2>1, <2>2 DEF MetasOk, Top1
<1>13. RegisteredOk'
    BY <1>11 DEF RegisteredOk
<1>14. EnvOk(env, Bounds)'
    BY <1>1, <1>9, <1>11 DEF EnvOk
<1>15. WriterOk'
    <2>1. Count(0)'
        BY <1>1 DEF Count
    <2>2. TxsOk(tx, 0, mti_txnid + 1, Bounds)'
        BY <1>1, NoTxs
    <2> QED
        BY <2>1, <2>2 DEF WriterOk
<1> QED
    BY <1>10, <1>12, <1>13, <1>14, <1>15 DEF ReadersInv

\* A step of a reader: it is registered with the last transaction, if at all.
LEMMA ReaderStep ==
    ASSUME ReadersInv, NEW r \in Readers, NEW f, {"pc", "val"} \subseteq DOMAIN f,
           f.val \in Nat, rd' = [rd EXCEPT ![r] = f],
           slot' \in [Readers -> Nat \cup {NoTxn}],
           \A q \in Readers : q # r => slot'[q] = slot[q],
           UNCHANGED <<metas, mti_txnid, pc, tx, env>>,
           f.pc \in {"copy", "active"} => slot'[r] = slot[r] /\ (r \in Registered \/ slot[r] = mti_txnid)
    PROVE  ReadersInv'
<1>1. rd' = [q \in Readers |-> rd'[q]] /\ \A q \in Readers : rd'[q] = IF q = r THEN f ELSE rd[q]
    BY DEF ReadersInv, Types
<1>2. Types'
    BY <1>1 DEF ReadersInv, Types
<1>3. \A q \in Registered' : slot'[q] = slot[q] /\ (q \in Registered \/ slot[q] = mti_txnid)
    BY <1>1 DEF Registered
<1>4. PICK C : C = Bounds'
    OBVIOUS
<1>5. C \subseteq Bounds
    BY <1>3, <1>4 DEF Bounds
<1>6. C \in SUBSET Nat /\ \A c \in C : \E b \in Bounds : b <= c
    BY <1>5, BoundsNat
<1>7. EnvOk(env, Bounds)'
    <2>1. EnvOk(env, C)
        BY <1>6, EnvMono DEF ReadersInv
    <2> QED
        BY <1>4, <2>1
<1>8. MetasOk'
    BY DEF ReadersInv, MetasOk, Top1
<1>9. RegisteredOk'
    BY <1>3 DEF ReadersInv, RegisteredOk, MetasOk, Types
<1>10. WriterOk'
    <2>1. PICK n \in Nat : TxsOk(tx, n, mti_txnid + 1, Bounds) /\ Count(n)
        BY DEF ReadersInv, WriterOk
    <2>2. \A e : EnvOk(e, Bounds) => EnvOk(e, C)
        BY <1>6, EnvMono
    <2>3. TxsOk(tx, n, mti_txnid + 1, C)
        BY <2>1, <2>2 DEF TxsOk, TxOk
    <2>4. TxsOk(tx, n, mti_txnid + 1, Bounds)'
        BY <1>4, <2>3
    <2>5. Count(n)'
        BY <2>1 DEF Count
    <2> QED
        BY <2>4, <2>5 DEF WriterOk
<1> QED
    BY <1>2, <1>7, <1>8, <1>9, <1>10 DEF ReadersInv

LEMMA ReaderKeeps ==
    ASSUME ReadersInv, NEW r \in Readers,
           ReadTxnid(r) \/ StoreTxnid(r) \/ CheckTxnid(r) \/ CopyMeta(r) \/ EndRead(r)
    PROVE  ReadersInv'
<1>1. UNCHANGED <<metas, mti_txnid, pc, tx, env>>
    BY DEF ReadTxnid, StoreTxnid, CheckTxnid, CopyMeta, EndRead, Reader
<1>2. /\ mti_txnid \in Nat /\ slot \in [Readers -> Nat \cup {NoTxn}]
      /\ {"pc", "val"} \subseteq DOMAIN rd[r] /\ rd[r].val \in Nat
    BY DEF ReadersInv, Types
<1>3. CASE ReadTxnid(r)
    <2> DEFINE f == [rd[r] EXCEPT !.pc = "store", !.val = mti_txnid]
    <2>1. rd' = [rd EXCEPT ![r] = f] /\ slot' = slot
        BY <1>3 DEF ReadTxnid, Reader
    <2>2. {"pc", "val"} \subseteq DOMAIN f /\ f.val \in Nat /\ f.pc = "store"
        BY <1>2
    <2> HIDE DEF f
    <2> QED
        BY <1>1, <1>2, <2>1, <2>2, ReaderStep
<1>4. CASE StoreTxnid(r)
    <2> DEFINE f == [rd[r] EXCEPT !.pc = "check"]
    <2>1. rd' = [rd EXCEPT ![r] = f] /\ slot' = [slot EXCEPT ![r] = rd[r].val]
        BY <1>4 DEF StoreTxnid, Reader
    <2>2. {"pc", "val"} \subseteq DOMAIN f /\ f.val \in Nat /\ f.pc = "check"
        BY <1>2
    <2>3. /\ slot' \in [Readers -> Nat \cup {NoTxn}]
          /\ \A q \in Readers : q # r => slot'[q] = slot[q]
        BY <1>2, <2>1
    <2> HIDE DEF f
    <2> QED
        BY <1>1, <2>1, <2>2, <2>3, ReaderStep
<1>5. CASE CheckTxnid(r)
    <2>1. CASE slot[r] = mti_txnid
        <3> DEFINE f == [rd[r] EXCEPT !.pc = "copy"]
        <3>1. rd' = [rd EXCEPT ![r] = f] /\ slot' = slot
            BY <1>5, <2>1 DEF CheckTxnid, Reader
        <3>2. {"pc", "val"} \subseteq DOMAIN f /\ f.val \in Nat
            BY <1>2
        <3> HIDE DEF f
        <3> QED
            BY <1>1, <1>2, <2>1, <3>1, <3>2, ReaderStep
    <2>2. CASE slot[r] # mti_txnid
        <3> DEFINE f == [rd[r] EXCEPT !.pc = "store", !.val = mti_txnid]
        <3>1. rd' = [rd EXCEPT ![r] = f] /\ slot' = slot
            BY <1>5, <2>2 DEF CheckTxnid, Reader
        <3>2. {"pc", "val"} \subseteq DOMAIN f /\ f.val \in Nat /\ f.pc = "store"
            BY <1>2
        <3> HIDE DEF f
        <3> QED
            BY <1>1, <1>2, <3>1, <3>2, ReaderStep
    <2> QED
        BY <2>1, <2>2
<1>6. CASE CopyMeta(r)
    <2>1. PICK f : /\ rd' = [rd EXCEPT ![r] = f] /\ slot' = slot
                   /\ {"pc", "val"} \subseteq DOMAIN f /\ f.val \in Nat
        <3> DEFINE f(m, v, l) == [pc |-> "active", val |-> 0, main |-> m, view |-> v, late |-> l]
        <3>1. slot' = slot
            BY <1>6 DEF CopyMeta
        <3>2. PICK m, v, l : rd' = [rd EXCEPT ![r] = f(m, v, l)]
            BY <1>6, Zenon DEF CopyMeta, Reader
        <3>3. {"pc", "val"} \subseteq DOMAIN f(m, v, l) /\ f(m, v, l).val \in Nat
            OBVIOUS
        <3> HIDE DEF f
        <3> QED
            BY <3>1, <3>2, <3>3
    <2>2. r \in Registered
        BY <1>6 DEF CopyMeta, Registered
    <2> QED
        BY <1>1, <1>2, <2>1, <2>2, ReaderStep
<1>7. CASE EndRead(r)
    <2> DEFINE f == [pc |-> "idle", val |-> 0, main |-> NoPage, view |-> Empty, late |-> FALSE]
    <2>1. rd' = [rd EXCEPT ![r] = f] /\ slot' = [slot EXCEPT ![r] = NoTxn]
        BY <1>7 DEF EndRead, Reader
    <2>2. {"pc", "val"} \subseteq DOMAIN f /\ f.val \in Nat /\ f.pc = "idle"
        OBVIOUS
    <2>3. /\ slot' \in [Readers -> Nat \cup {NoTxn}]
          /\ \A q \in Readers : q # r => slot'[q] = slot[q]
        BY <1>2, <2>1
    <2> HIDE DEF f
    <2> QED
        BY <1>1, <2>1, <2>2, <2>3, ReaderStep
<1> QED
    BY <1>3, <1>4, <1>5, <1>6, <1>7

LEMMA StutterKeeps ==
    ASSUME ReadersInv, UNCHANGED vars
    PROVE  ReadersInv'
<1>1. UNCHANGED <<metas, mti_txnid, slot, rd, pc, tx, env>>
    BY DEF vars
<1>2. Bounds' = Bounds /\ Registered' = Registered
    BY <1>1, SameBounds
<1>3. Types' /\ MetasOk'
    BY <1>1 DEF ReadersInv, Types, MetasOk, Top1
<1>4. RegisteredOk' /\ EnvOk(env, Bounds)'
    BY <1>1, <1>2 DEF ReadersInv, RegisteredOk
<1>5. WriterOk'
    BY <1>1, <1>2 DEF ReadersInv, WriterOk, Count
<1> QED
    BY <1>3, <1>4, <1>5 DEF ReadersInv

\* Whatever write or sync fails, each meta page remains one on disk.
LEMMA DiskKeeps ==
    ASSUME ReadersInv, DiskOk, [Next]_vars
    PROVE  DiskOk'
<1>1. \A i \in 0..1 : MetaShape(metas[i], i)
    BY DEF ReadersInv, MetasOk, MetaOk
<1>2. CASE Sync
    <2>1. mdisk' = [i \in 0..1 |-> {metas[i]}]
        BY <1>2 DEF Sync
    <2> QED
        BY <1>1, <2>1 DEF DiskOk
<1>3. CASE WriteMeta
    <2>1. PICK i, m : i = (mti_txnid + 1) % 2 /\ m = NewMeta
        OBVIOUS
    <2>2. tx[1].id = mti_txnid + 1 /\ mti_txnid \in Nat
        BY <1>3, OneTransaction DEF WriteMeta, WriteMetaAt, ReadersInv, Types
    <2>3. mdisk' = [mdisk EXCEPT ![i] = {m}]
        BY <1>3, <2>1, <2>2, Zenon DEF WriteMeta, WriteMetaAt
    <2>4. MetaShape(m, i)
        BY <2>1, <2>2 DEF NewMeta, MetaShape
    <2> QED
        BY <2>3, <2>4 DEF DiskOk
<1>4. CASE WriteMetaFails
    <2>1. PICK i, R : /\ mdisk' = [mdisk EXCEPT ![i] = mdisk[i] \cup R]
                      /\ \A m \in R : MetaShape(m, i)
        BY <1>4, FailedMeta, Zenon
    <2> QED
        BY <2>1 DEF DiskOk
<1>5. CASE PowerFails
    <2>1. PICK a \in mdisk[0], b \in mdisk[1] : metas' = [i \in 0..1 |-> <<a, b>>[i + 1]]
        BY <1>5, Zenon DEF PowerFails
    <2>2. mdisk' = [i \in 0..1 |-> {metas'[i]}]
        BY <1>5 DEF PowerFails
    <2> QED
        BY <2>1, <2>2 DEF DiskOk
<1>6. CASE UNCHANGED mdisk
    BY <1>6 DEF DiskOk
<1>7. CASE UNCHANGED vars
    BY <1>6, <1>7 DEF vars
<1>8. CASE Next
    <2>1. CASE Saves \/ Commit
        BY <2>1, <1>6 DEF Saves, SaveDelete, SaveFreed, SaveHead, SaveDone, Commit, Saving
    <2>2. ASSUME NEW k \in Keys, Put(k) \/ Del(k) PROVE DiskOk'
        BY <2>2, <1>6 DEF Put, Del, Call
    <2>3. CASE BeginWrite \/ BeginChild \/ CommitChild \/ AbortChild \/ Abort
        BY <2>3, <1>6 DEF BeginWrite, BeginChild, CommitChild, AbortChild, AbortChildTo, Abort
    <2>4. CASE Flush \/ CommitFails \/ Publish \/ Kill \/ Recover
        BY <2>4, <1>6 DEF Flush, CommitFails, Publish, Kill, Recover
    <2>5. ASSUME NEW r \in Readers,
                 ReadTxnid(r) \/ StoreTxnid(r) \/ CheckTxnid(r) \/ CopyMeta(r) \/ EndRead(r)
          PROVE  DiskOk'
        BY <2>5, <1>6 DEF ReadTxnid, StoreTxnid, CheckTxnid, CopyMeta, EndRead, Reader
    <2> QED
        BY <1>2, <1>3, <1>4, <1>5, <1>8, <2>1, <2>2, <2>3, <2>4, <2>5 DEF Next
<1> QED
    BY <1>7, <1>8

\* ReadersRespected holds of every behaviour of the writer and any number of
\* readers: mdb_find_oldest looks at the table while mdb_txn_renew0 registers
\* readers step by step, yet the writer never takes pages that a registered
\* reader may look at, nor writes over the meta page it is about to copy.
THEOREM ReadersProtected == Spec => []ReadersRespected
<1>1. Init => ReadersInv /\ DiskOk
    BY ReadersInit DEF Init, DiskOk, MetaShape
<1>2. ReadersInv /\ DiskOk /\ [Next]_vars => (ReadersInv /\ DiskOk)'
    <2> SUFFICES ASSUME ReadersInv, DiskOk, [Next]_vars PROVE ReadersInv'
        BY DiskKeeps
    <2>1. CASE BeginWrite
        BY <2>1, BeginWriteKeeps
    <2>2. ASSUME NEW k \in Keys, Put(k) \/ Del(k) PROVE ReadersInv'
        BY <2>2, PutKeeps, DelKeeps
    <2>3. CASE BeginChild \/ CommitChild \/ AbortChild
        BY <2>3, BeginChildKeeps, CommitChildKeeps, AbortChildKeeps
    <2>4. CASE Commit \/ Saves
        BY <2>4, CommitKeeps, SaveDeleteKeeps, SaveFreedKeeps, SaveHeadKeeps, SaveDoneKeeps
           DEF Saves
    <2>5. CASE Abort \/ CommitFails \/ Kill
        BY <2>5, AbortKeeps
    <2>6. CASE Flush \/ Sync
        BY <2>6, FlushKeeps
    <2>7. CASE WriteMeta \/ WriteMetaFails \/ Publish
        BY <2>7, WriteMetaKeeps, WriteMetaFailsKeeps, PublishKeeps
    <2>8. ASSUME NEW r \in Readers,
                 ReadTxnid(r) \/ StoreTxnid(r) \/ CheckTxnid(r) \/ CopyMeta(r) \/ EndRead(r)
          PROVE  ReadersInv'
        BY <2>8, ReaderKeeps
    <2>9. CASE Recover \/ PowerFails
        BY <2>9, RecoverKeeps, PowerFailsKeeps
    <2>10. CASE UNCHANGED vars
        BY <2>10, StutterKeeps
    <2> QED
        BY <2>1, <2>2, <2>3, <2>4, <2>5, <2>6, <2>7, <2>8, <2>9, <2>10 DEF Next
<1>3. ReadersInv => ReadersRespected
    <2> SUFFICES ASSUME ReadersInv, NEW r \in Readers, rd[r].pc \in {"copy", "active"}
                 PROVE  /\ metas[slot[r] % 2].txnid >= slot[r]
                        /\ env.last = 0 \/ env.last < slot[r]
        BY DEF ReadersRespected
    <2>1. r \in Registered /\ slot[r] \in Bounds
        BY DEF Registered, Bounds
    <2> QED
        BY <2>1 DEF ReadersInv, RegisteredOk, EnvOk
<1> QED
    BY <1>1, <1>2, <1>3, PTL DEF Spec
=============================================================================
