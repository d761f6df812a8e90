---------------------------- MODULE AdListProofs ----------------------------
(***************************************************************************)
(* Proofs about the linked lists of adlist.c, for any number of lists,     *)
(* nodes and values.                                                       *)
(***************************************************************************)
EXTENDS AdList, SequenceTheorems, WellFoundedInduction, TLAPS

\* A list that does not exist has no nodes, unless listDup is building it.
Unused ==
    \A l \in Lists : l \notin alive /\ ~Hidden(l) => order[l] = <<>>

\* The list a loop works on.
LoopList == op # "none" => ask.l \in Lists /\ (op # "release" => ask.l \in alive)

\* The node at place c of k, or of a list, NULL beyond its ends.
Nth(s, k, c) == IF c \in 1..k THEN s[c] ELSE NULL
At(s, c) == Nth(s, Len(s), c)

\* listEmpty, q of k nodes s freed: what is left of the list is linked as it
\* was, c is its first node and cnt their number.
Emptied(s, k, q, cnt, c, nx) ==
    /\ cnt = k - q /\ c = Nth(s, k, q + 1)
    /\ \A i \in q + 1..k : nx[s[i]] = Nth(s, k, i + 1)
EmptyInv ==
    op \in {"empty", "release"} =>
        Emptied(order[ask.l], Len(order[ask.l]), Len(seen), n, cur, next)

\* An iteration from the head of a list that was a, is s and of which b was
\* returned: what is to come is the end of the list as it is and of the list as
\* it was, c is its first node and r, the node returned last unless it was
\* removed, is in front of it.  From the tail: the other way round.
Forward(s, k, a, p, b, q, c, r) ==
    /\ q <= p /\ p - q <= k
    /\ c = Nth(a, p, q + 1)
    /\ \A i \in 1..q : b[i] = a[i]
    /\ \A i \in 1..p - q : s[k - (p - q) + i] = a[q + i]
    /\ r # NULL => k > p - q /\ s[k - (p - q)] = r
Backward(s, k, a, p, b, q, c, r) ==
    /\ q <= p /\ p - q <= k
    /\ c = Nth(a, p, p - q)
    /\ \A i \in 1..q : b[i] = a[p - i + 1]
    /\ \A i \in 1..p - q : s[i] = a[i]
    /\ r # NULL => k > p - q /\ s[p - q + 1] = r
IterInv ==
    LET s == order[ask.l] IN
    op \in {"iter", "iter_ret"} =>
        /\ op = "iter_ret" => cur = NULL
        /\ ask.dir = "head" => Forward(s, Len(s), start, Len(start), seen, Len(seen), cur, res)
        /\ ask.dir = "tail" => Backward(s, Len(s), start, Len(start), seen, Len(seen), cur, res)

\* listSearchKey: nothing was overlooked.
Searched(s, k, val, v, c) ==
    \E j \in 1..k + 1 : c = Nth(s, k, j) /\ \A i \in 1..j - 1 : val[s[i]] # v
SearchInv ==
    op = "search" => Searched(order[ask.l], Len(order[ask.l]), value, ask.v, cur)

\* listIndex: as far from the end it began at as the counter says.
Indexed(s, k, i, cnt, c) ==
    LET j == IF i < 0 THEN k + i + 1 + cnt ELSE i + 1 - cnt IN
    /\ j \in IF i < 0 THEN 0..k ELSE 1..k + 1
    /\ c = Nth(s, k, j)
IndexInv ==
    op = "index" =>
        /\ ask.dir = IF ask.i < 0 THEN "tail" ELSE "head"
        /\ Indexed(order[ask.l], Len(order[ask.l]), ask.i, n, cur)

\* listDup: the copy d has the values of what was passed.
Copied(s, k, d, q, val, c) ==
    /\ q <= k /\ c = Nth(s, k, q + 1)
    /\ \A i \in 1..q : val[d[i]] = val[s[i]]
DupInv ==
    op = "dup" =>
        /\ ask.o \in Lists \ alive /\ seen = <<>>
        /\ Copied(order[ask.l], Len(order[ask.l]), order[ask.o], Len(order[ask.o]), value, cur)

\* The inductive invariant behind ListsSound.
LoopInv == LoopList /\ EmptyInv /\ IterInv /\ SearchInv /\ IndexInv /\ DupInv
ListInv == TypeOK /\ WellLinked /\ HeapExact /\ Unused /\ LoopInv /\ AnswersRight

-----------------------------------------------------------------------------
(* Sequences.                                                              *)

\* Of k elements: r is s with x put at place i, s without its element at place
\* i, s with its last element moved to the front, s followed by the u of k2.
With(r, s, k, i, x) ==
    \A j \in 1..k + 1 : r[j] = IF j < i THEN s[j] ELSE IF j = i THEN x ELSE s[j - 1]
Without(r, s, k, i) == \A j \in 1..k - 1 : r[j] = IF j < i THEN s[j] ELSE s[j + 1]
Turned(r, s, k) == \A j \in 1..k : r[j] = IF j = 1 THEN s[k] ELSE s[j - 1]
Followed(r, s, k, u, k2) == \A j \in 1..k + k2 : r[j] = IF j <= k THEN s[j] ELSE u[j - k]

LEMMA Inserted ==
    ASSUME NEW S, NEW s \in Seq(S), NEW i \in 1..Len(s) + 1, NEW x \in S
    PROVE  /\ InsertAt(s, i, x) \in Seq(S) /\ Len(InsertAt(s, i, x)) = Len(s) + 1
           /\ With(InsertAt(s, i, x), s, Len(s), i, x)
<1> DEFINE a == SubSeq(s, 1, i - 1)
           b == SubSeq(s, i, Len(s))
<1>1. Len(s) \in Nat /\ i \in Int /\ i - 1 \in Int /\ Len(s) \in Int /\ 1 \in Int
    OBVIOUS
<1>2. /\ a \in Seq(S) /\ Len(a) = i - 1
      /\ \A j \in 1..i - 1 : a[j] = s[j]
    <2>1. \A j \in 1..i - 1 : s[j] \in S
        BY <1>1
    <2>2. /\ a \in Seq(S) /\ Len(a) = IF 1 <= i - 1 THEN i - 1 - 1 + 1 ELSE 0
          /\ \A j \in 1..i - 1 - 1 + 1 : a[j] = s[1 + j - 1]
        BY <1>1, <2>1, SubSeqProperties
    <2> HIDE DEF a
    <2>3. i - 1 - 1 + 1 = i - 1 /\ \A j \in 1..i - 1 : 1 + j - 1 = j
        BY <1>1
    <2> QED
        BY <1>1, <2>2, <2>3
<1>3. /\ b \in Seq(S) /\ Len(b) = Len(s) - i + 1
      /\ \A j \in 1..Len(s) - i + 1 : b[j] = s[i + j - 1]
    <2>1. \A j \in i..Len(s) : s[j] \in S
        BY <1>1
    <2>2. /\ b \in Seq(S) /\ Len(b) = IF i <= Len(s) THEN Len(s) - i + 1 ELSE 0
          /\ \A j \in 1..Len(s) - i + 1 : b[j] = s[i + j - 1]
        BY <1>1, <2>1, SubSeqProperties
    <2> HIDE DEF b
    <2> QED
        BY <1>1, <2>2
<1> HIDE DEF a, b
<1> DEFINE c == a \o <<x>>
<1>4. c \in Seq(S) /\ Len(c) = i /\ \A j \in 1..i : c[j] = IF j < i THEN s[j] ELSE x
    <2> DEFINE u == <<x>>
    <2>1. u \in Seq(S) /\ Len(u) = 1 /\ u[1] = x
        OBVIOUS
    <2> HIDE DEF u
    <2>2. /\ c \in Seq(S) /\ Len(c) = i - 1 + 1
          /\ \A j \in 1..i - 1 + 1 : c[j] = IF j <= i - 1 THEN a[j] ELSE u[j - (i - 1)]
        BY <1>2, <2>1, ConcatProperties DEF u
    <2> HIDE DEF c
    <2>3. i - 1 + 1 = i
        BY <1>1
    <2>4. ASSUME NEW j \in 1..i PROVE c[j] = IF j < i THEN s[j] ELSE x
        <3>1. CASE j < i
            BY <1>1, <1>2, <2>2, <2>3, <3>1
        <3>2. CASE ~(j < i)
            <4>1. j = i /\ j - (i - 1) = 1 /\ ~(j <= i - 1)
                BY <1>1, <3>2
            <4> QED
                BY <2>1, <2>2, <2>3, <4>1
        <3> QED
            BY <3>1, <3>2
    <2> QED
        BY <2>2, <2>3, <2>4
<1> HIDE DEF c
<1>5. /\ c \o b \in Seq(S) /\ Len(c \o b) = i + (Len(s) - i + 1)
      /\ \A j \in 1..i + (Len(s) - i + 1) : (c \o b)[j] = IF j <= i THEN c[j] ELSE b[j - i]
    BY <1>3, <1>4, ConcatProperties
<1>6. InsertAt(s, i, x) = c \o b
    BY DEF InsertAt, a, b, c
<1>7. i + (Len(s) - i + 1) = Len(s) + 1
    BY <1>1
<1>8. ASSUME NEW j \in 1..Len(s) + 1
      PROVE  (c \o b)[j] = IF j < i THEN s[j] ELSE IF j = i THEN x ELSE s[j - 1]
    <2>1. CASE j <= i
        BY <1>1, <1>4, <1>5, <1>7, <2>1
    <2>2. CASE ~(j <= i)
        <3>1. j - i \in 1..Len(s) - i + 1 /\ i + (j - i) - 1 = j - 1
            BY <1>1, <2>2
        <3>2. b[j - i] = s[j - 1]
            BY <1>3, <3>1
        <3> QED
            BY <1>1, <1>5, <1>7, <2>2, <3>2
    <2> QED
        BY <2>1, <2>2
<1> QED
    BY <1>5, <1>6, <1>7, <1>8 DEF With

\* The sequence after a removal: what is behind place i moves down.
LEMMA Removed ==
    ASSUME NEW S, NEW s \in Seq(S), NEW i \in 1..Len(s)
    PROVE  /\ RemoveAt(s, i) \in Seq(S) /\ Len(RemoveAt(s, i)) = Len(s) - 1
           /\ Without(RemoveAt(s, i), s, Len(s), i)
<1> DEFINE a == SubSeq(s, 1, i - 1)
           b == SubSeq(s, i + 1, Len(s))
<1>1. Len(s) \in Nat /\ i \in Int /\ i - 1 \in Int /\ i + 1 \in Int /\ Len(s) \in Int /\ 1 \in Int
    OBVIOUS
<1>2. /\ a \in Seq(S) /\ Len(a) = i - 1
      /\ \A j \in 1..i - 1 : a[j] = s[j]
    <2>1. \A j \in 1..i - 1 : s[j] \in S
        BY <1>1
    <2>2. /\ a \in Seq(S) /\ Len(a) = IF 1 <= i - 1 THEN i - 1 - 1 + 1 ELSE 0
          /\ \A j \in 1..i - 1 - 1 + 1 : a[j] = s[1 + j - 1]
        BY <1>1, <2>1, SubSeqProperties
    <2> HIDE DEF a
    <2>3. i - 1 - 1 + 1 = i - 1 /\ \A j \in 1..i - 1 : 1 + j - 1 = j
        BY <1>1
    <2> QED
        BY <1>1, <2>2, <2>3
<1>3. /\ b \in Seq(S) /\ Len(b) = Len(s) - i
      /\ \A j \in 1..Len(s) - i : b[j] = s[i + j]
    <2>1. \A j \in i + 1..Len(s) : s[j] \in S
        BY <1>1
    <2>2. /\ b \in Seq(S) /\ Len(b) = IF i + 1 <= Len(s) THEN Len(s) - (i + 1) + 1 ELSE 0
          /\ \A j \in 1..Len(s) - (i + 1) + 1 : b[j] = s[i + 1 + j - 1]
        BY <1>1, <2>1, SubSeqProperties
    <2> HIDE DEF b
    <2>3. Len(s) - (i + 1) + 1 = Len(s) - i
        BY <1>1
    <2>4. Len(b) = Len(s) - i
        BY <1>1, <2>2
    <2>5. ASSUME NEW j \in 1..Len(s) - i PROVE b[j] = s[i + j]
        <3>1. i + 1 + j - 1 = i + j
            BY <1>1
        <3> QED
            BY <2>2, <2>3, <3>1
    <2> QED
        BY <2>2, <2>4, <2>5
<1> HIDE DEF a, b
<1>4. /\ a \o b \in Seq(S) /\ Len(a \o b) = i - 1 + (Len(s) - i)
      /\ \A j \in 1..i - 1 + (Len(s) - i) : (a \o b)[j] = IF j <= i - 1 THEN a[j] ELSE b[j - (i - 1)]
    <2>1. /\ a \o b \in Seq(S) /\ Len(a \o b) = Len(a) + Len(b)
          /\ \A j \in 1..Len(a) + Len(b) : (a \o b)[j] = IF j <= Len(a) THEN a[j] ELSE b[j - Len(a)]
        BY <1>2, <1>3, ConcatProperties
    <2> QED
        BY <1>2, <1>3, <2>1
<1>5. RemoveAt(s, i) = a \o b
    BY DEF RemoveAt, a, b
<1>6. i - 1 + (Len(s) - i) = Len(s) - 1
    BY <1>1
<1>7. ASSUME NEW j \in 1..Len(s) - 1 PROVE (a \o b)[j] = IF j < i THEN s[j] ELSE s[j + 1]
    <2>1. CASE j < i
        BY <1>1, <1>2, <1>4, <1>6, <2>1
    <2>2. CASE ~(j < i)
        <3>1. j - (i - 1) \in 1..Len(s) - i /\ i + (j - (i - 1)) = j + 1 /\ ~(j <= i - 1)
            BY <1>1, <2>2
        <3>2. b[j - (i - 1)] = s[j + 1]
            BY <1>3, <3>1
        <3> QED
            BY <1>4, <1>6, <2>2, <3>1, <3>2
    <2> QED
        BY <2>1, <2>2
<1> QED
    BY <1>4, <1>5, <1>6, <1>7 DEF Without

\* Arithmetic.
LEMMA AtLeastTwo == ASSUME NEW k \in Nat, k > 0, k # 1 PROVE 1 <= k - 1
OBVIOUS

\* What listRotate does to the sequence: the last node moves to the front.
LEMMA Rotated ==
    ASSUME NEW S, NEW s \in Seq(S), Len(s) > 0
    PROVE  /\ <<Last(s)>> \o Front(s) \in Seq(S) /\ Len(<<Last(s)>> \o Front(s)) = Len(s)
           /\ Turned(<<Last(s)>> \o Front(s), s, Len(s))
<1> DEFINE a == <<Last(s)>>
           b == Front(s)
<1>1. Len(s) \in Nat /\ Len(s) - 1 \in Int /\ 1 \in Int
    OBVIOUS
<1>2. a \in Seq(S) /\ Len(a) = 1 /\ a[1] = s[Len(s)]
    BY <1>1 DEF Last
<1>3. /\ b \in Seq(S) /\ Len(b) = Len(s) - 1
      /\ \A j \in 1..Len(s) - 1 : b[j] = s[j]
    <2>1. \A j \in 1..Len(s) - 1 : s[j] \in S
        BY <1>1
    <2>2. /\ b \in Seq(S) /\ Len(b) = IF 1 <= Len(s) - 1 THEN Len(s) - 1 - 1 + 1 ELSE 0
          /\ \A j \in 1..Len(s) - 1 - 1 + 1 : b[j] = s[1 + j - 1]
        BY <1>1, <2>1, SubSeqProperties DEF Front
    <2> HIDE DEF b
    <2>3. Len(s) - 1 - 1 + 1 = Len(s) - 1
        BY <1>1
    <2>4. Len(b) = Len(s) - 1
        <3>1. CASE Len(s) = 1
            BY <2>2, <3>1
        <3>2. CASE Len(s) # 1
            <4>1. 1 <= Len(s) - 1
                BY <1>1, <3>2, AtLeastTwo
            <4> QED
                BY <2>2, <2>3, <4>1
        <3> QED
            BY <3>1, <3>2
    <2>5. ASSUME NEW j \in 1..Len(s) - 1 PROVE b[j] = s[j]
        <3>1. 1 + j - 1 = j
            BY <1>1
        <3> QED
            BY <2>2, <2>3, <3>1
    <2> QED
        BY <2>2, <2>4, <2>5
<1> HIDE DEF a, b
<1>4. /\ a \o b \in Seq(S) /\ Len(a \o b) = 1 + (Len(s) - 1)
      /\ \A j \in 1..1 + (Len(s) - 1) : (a \o b)[j] = IF j <= 1 THEN a[j] ELSE b[j - 1]
    <2>1. /\ a \o b \in Seq(S) /\ Len(a \o b) = Len(a) + Len(b)
          /\ \A j \in 1..Len(a) + Len(b) : (a \o b)[j] = IF j <= Len(a) THEN a[j] ELSE b[j - Len(a)]
        BY <1>2, <1>3, ConcatProperties
    <2> QED
        BY <1>2, <1>3, <2>1
<1>5. ASSUME NEW j \in 1..Len(s) PROVE (a \o b)[j] = IF j = 1 THEN s[Len(s)] ELSE s[j - 1]
    <2>1. j \in 1..1 + (Len(s) - 1) /\ (j # 1 => j - 1 \in 1..Len(s) - 1 /\ ~(j <= 1))
        BY <1>1
    <2> QED
        BY <1>2, <1>3, <1>4, <2>1
<1> QED
    BY <1>1, <1>4, <1>5 DEF a, b, Turned
\* What listJoin does to the sequences.
LEMMA Joined ==
    ASSUME NEW S, NEW s \in Seq(S), NEW u \in Seq(S)
    PROVE  /\ s \o u \in Seq(S) /\ Len(s \o u) = Len(s) + Len(u)
           /\ Followed(s \o u, s, Len(s), u, Len(u))
BY ConcatProperties DEF Followed

-----------------------------------------------------------------------------
(* Chains: the pointers nx and pv, entered at h and t, run through the k   *)
(* nodes s[1], ..., s[k].                                                  *)

Chain(s, k, h, t, nx, pv) ==
    /\ h = Nth(s, k, 1) /\ t = Nth(s, k, k)
    /\ \A i \in 1..k : nx[s[i]] = Nth(s, k, i + 1) /\ pv[s[i]] = Nth(s, k, i - 1)

\* The fields of a list describe s if they are a chain through it.
LEMMA LinksAreChain ==
    ASSUME NEW l, NEW s \in Seq(Nodes)
    PROVE  Links(l, s) <=>
           len[l] = Len(s) /\ Chain(s, Len(s), head[l], tail[l], next, prev)
<1> PICK k \in Nat : k = Len(s)
    OBVIOUS
<1>1. s = <<>> <=> k = 0
    BY EmptySeq
<1>2. /\ Nth(s, k, 1) = IF s = <<>> THEN NULL ELSE s[1]
      /\ Nth(s, k, k) = IF s = <<>> THEN NULL ELSE s[k]
    BY <1>1 DEF Nth
<1>3. ASSUME NEW i \in 1..k
      PROVE  /\ Nth(s, k, i + 1) = IF i = k THEN NULL ELSE s[i + 1]
             /\ Nth(s, k, i - 1) = IF i = 1 THEN NULL ELSE s[i - 1]
    BY DEF Nth
<1> QED
    BY <1>2, <1>3 DEF Links, Chain

\* A chain is not affected by what happens to other nodes.
LinksKept(nx2, pv2, nx, pv, s, k) ==
    \A i \in 1..k : nx2[s[i]] = nx[s[i]] /\ pv2[s[i]] = pv[s[i]]
LEMMA ChainKept ==
    ASSUME NEW s, NEW k \in Nat, NEW h, NEW t, NEW nx, NEW pv, NEW nx2, NEW pv2,
           Chain(s, k, h, t, nx, pv), LinksKept(nx2, pv2, nx, pv, s, k)
    PROVE  Chain(s, k, h, t, nx2, pv2)
BY DEF Chain, LinksKept

\* How the pointers of a chain's nodes change when x is put at place i, when the
\* node at place i is taken out, when the last node becomes the first, when a
\* second chain is added.
LinkIn(nx2, pv2, nx, pv, s, k, i, x) ==
    /\ \A j \in 1..k : /\ nx2[s[j]] = IF j = i - 1 THEN x ELSE nx[s[j]]
                       /\ pv2[s[j]] = IF j = i THEN x ELSE pv[s[j]]
    /\ nx2[x] = Nth(s, k, i) /\ pv2[x] = Nth(s, k, i - 1)
LinkOut(nx2, pv2, nx, pv, s, k, i) ==
    \A j \in 1..k : j # i => /\ nx2[s[j]] = IF j = i - 1 THEN nx[s[i]] ELSE nx[s[j]]
                             /\ pv2[s[j]] = IF j = i + 1 THEN pv[s[i]] ELSE pv[s[j]]
EndsOut(h2, t2, h, t, nx, pv, s, k, i) ==
    /\ h2 = IF i = 1 THEN nx[s[i]] ELSE h
    /\ t2 = IF i = k THEN pv[s[i]] ELSE t
LinkTurned(nx2, pv2, nx, pv, s, k) ==
    \A j \in 1..k :
        /\ nx2[s[j]] = IF j = k THEN s[1] ELSE IF j = k - 1 THEN NULL ELSE nx[s[j]]
        /\ pv2[s[j]] = IF j = k THEN NULL ELSE IF j = 1 THEN s[k] ELSE pv[s[j]]
LinkBoth(nx2, pv2, nx, pv, s, k, u, k2) ==
    /\ \A j \in 1..k : /\ nx2[s[j]] = IF j = k THEN Nth(u, k2, 1) ELSE nx[s[j]]
                       /\ pv2[s[j]] = pv[s[j]]
    /\ \A j \in 1..k2 : /\ nx2[u[j]] = nx[u[j]]
                        /\ pv2[u[j]] = IF j = 1 THEN Nth(s, k, k) ELSE pv[u[j]]
EndsBoth(h3, t3, h, t, k, h2, t2, k2) ==
    /\ h3 = IF k > 0 THEN h ELSE h2
    /\ t3 = IF k2 > 0 THEN t2 ELSE t

\* A node x is put at place i.
LEMMA ChainInsert ==
    ASSUME NEW s, NEW k \in Nat, NEW h, NEW t, NEW nx, NEW pv,
           NEW r, NEW i \in 1..k + 1, NEW x, NEW nx2, NEW pv2, NEW k2, NEW h2, NEW t2,
           Chain(s, k, h, t, nx, pv), With(r, s, k, i, x), LinkIn(nx2, pv2, nx, pv, s, k, i, x),
           k2 = k + 1, h2 = IF i = 1 THEN x ELSE h, t2 = IF i = k + 1 THEN x ELSE t
    PROVE  Chain(r, k2, h2, t2, nx2, pv2)
<1> USE DEF With, LinkIn
<1>1. (IF i = 1 THEN x ELSE h) = Nth(r, k + 1, 1)
    BY DEF Chain, Nth
<1>2. (IF i = k + 1 THEN x ELSE t) = Nth(r, k + 1, k + 1)
    BY DEF Chain, Nth
<1>3. ASSUME NEW j \in 1..k + 1
      PROVE  nx2[r[j]] = Nth(r, k + 1, j + 1) /\ pv2[r[j]] = Nth(r, k + 1, j - 1)
    <2>1. CASE j < i
        <3>1. j \in 1..k /\ r[j] = s[j]
            BY <2>1
        <3>2. nx2[s[j]] = Nth(r, k + 1, j + 1)
            BY <2>1, <3>1 DEF Chain, Nth
        <3>3. pv2[s[j]] = Nth(r, k + 1, j - 1)
            BY <2>1, <3>1 DEF Chain, Nth
        <3> QED
            BY <3>1, <3>2, <3>3
    <2>2. CASE j = i
        BY <2>2 DEF Nth
    <2>3. CASE j > i
        <3>1. j - 1 \in 1..k /\ r[j] = s[j - 1]
            BY <2>3
        <3>2. nx2[s[j - 1]] = Nth(r, k + 1, j + 1)
            BY <2>3, <3>1 DEF Chain, Nth
        <3>3. pv2[s[j - 1]] = Nth(r, k + 1, j - 1)
            BY <2>3, <3>1 DEF Chain, Nth
        <3> QED
            BY <3>1, <3>2, <3>3
    <2> QED
        BY <2>1, <2>2, <2>3
<1> QED
    BY <1>1, <1>2, <1>3 DEF Chain

\* The node at place i is taken out.
LEMMA ChainRemove ==
    ASSUME NEW s, NEW k \in Nat, NEW h, NEW t, NEW nx, NEW pv,
           NEW r, NEW i \in 1..k, NEW nx2, NEW pv2, NEW k2, NEW h2, NEW t2,
           Chain(s, k, h, t, nx, pv), Without(r, s, k, i), LinkOut(nx2, pv2, nx, pv, s, k, i),
           k2 = k - 1, EndsOut(h2, t2, h, t, nx, pv, s, k, i)
    PROVE  Chain(r, k2, h2, t2, nx2, pv2)
<1> USE DEF Without, LinkOut, EndsOut
<1>1. (IF i = 1 THEN nx[s[i]] ELSE h) = Nth(r, k - 1, 1)
    BY DEF Chain, Nth
<1>2. (IF i = k THEN pv[s[i]] ELSE t) = Nth(r, k - 1, k - 1)
    BY DEF Chain, Nth
<1>3. ASSUME NEW j \in 1..k - 1
      PROVE  nx2[r[j]] = Nth(r, k - 1, j + 1) /\ pv2[r[j]] = Nth(r, k - 1, j - 1)
    <2>1. CASE j < i
        <3>1. j \in 1..k /\ r[j] = s[j] /\ j # i
            BY <2>1
        <3>2. nx2[s[j]] = Nth(r, k - 1, j + 1)
            BY <2>1, <3>1 DEF Chain, Nth
        <3>3. pv2[s[j]] = Nth(r, k - 1, j - 1)
            BY <2>1, <3>1 DEF Chain, Nth
        <3> QED
            BY <3>1, <3>2, <3>3
    <2>2. CASE ~(j < i)
        <3>1. j + 1 \in 1..k /\ r[j] = s[j + 1] /\ j + 1 # i
            BY <2>2
        <3>2. nx2[s[j + 1]] = Nth(r, k - 1, j + 1)
            BY <2>2, <3>1 DEF Chain, Nth
        <3>3. pv2[s[j + 1]] = Nth(r, k - 1, j - 1)
            BY <2>2, <3>1 DEF Chain, Nth
        <3> QED
            BY <3>1, <3>2, <3>3
    <2> QED
        BY <2>1, <2>2
<1> QED
    BY <1>1, <1>2, <1>3 DEF Chain

\* The last node becomes the first.
LEMMA ChainRotate ==
    ASSUME NEW s, NEW k \in Nat, k > 1, NEW h, NEW t, NEW nx, NEW pv,
           NEW r, NEW nx2, NEW pv2, NEW t2,
           Chain(s, k, h, t, nx, pv), Turned(r, s, k), LinkTurned(nx2, pv2, nx, pv, s, k),
           t2 = pv[t]
    PROVE  Chain(r, k, t, t2, nx2, pv2)
<1> USE DEF Turned, LinkTurned
<1>1. t = Nth(r, k, 1)
    BY DEF Chain, Nth
<1>2. t = s[k] /\ pv[t] = Nth(r, k, k)
    BY DEF Chain, Nth
<1>3. ASSUME NEW j \in 1..k
      PROVE  nx2[r[j]] = Nth(r, k, j + 1) /\ pv2[r[j]] = Nth(r, k, j - 1)
    <2>1. CASE j = 1
        BY <2>1 DEF Chain, Nth
    <2>2. CASE j # 1
        <3>1. j - 1 \in 1..k /\ r[j] = s[j - 1] /\ j - 1 # k
            BY <2>2
        <3>2. nx2[s[j - 1]] = Nth(r, k, j + 1)
            BY <2>2, <3>1 DEF Chain, Nth
        <3>3. pv2[s[j - 1]] = Nth(r, k, j - 1)
            BY <2>2, <3>1 DEF Chain, Nth
        <3> QED
            BY <3>1, <3>2, <3>3
    <2> QED
        BY <2>1, <2>2
<1> QED
    BY <1>1, <1>2, <1>3 DEF Chain

\* Two chains are joined.
LEMMA ChainJoin ==
    ASSUME NEW s, NEW k \in Nat, NEW h, NEW t, NEW s2, NEW k2 \in Nat, NEW h2, NEW t2,
           NEW nx, NEW pv, NEW r, NEW nx2, NEW pv2, NEW k3 \in Nat, NEW h3, NEW t3,
           Chain(s, k, h, t, nx, pv), Chain(s2, k2, h2, t2, nx, pv),
           Followed(r, s, k, s2, k2), LinkBoth(nx2, pv2, nx, pv, s, k, s2, k2),
           k3 = k + k2, EndsBoth(h3, t3, h, t, k, h2, t2, k2)
    PROVE  Chain(r, k3, h3, t3, nx2, pv2)
<1> USE DEF Followed, LinkBoth, EndsBoth
<1>1. (IF k > 0 THEN h ELSE h2) = Nth(r, k + k2, 1)
    BY DEF Chain, Nth
<1>2. (IF k2 > 0 THEN t2 ELSE t) = Nth(r, k + k2, k + k2)
    BY DEF Chain, Nth
<1>3. ASSUME NEW j \in 1..k + k2
      PROVE  nx2[r[j]] = Nth(r, k + k2, j + 1) /\ pv2[r[j]] = Nth(r, k + k2, j - 1)
    <2>1. CASE j <= k
        <3>1. j \in 1..k /\ r[j] = s[j]
            BY <2>1
        <3>2. nx2[s[j]] = Nth(r, k + k2, j + 1)
            BY <2>1, <3>1 DEF Chain, Nth
        <3>3. pv2[s[j]] = Nth(r, k + k2, j - 1)
            BY <2>1, <3>1 DEF Chain, Nth
        <3> QED
            BY <3>1, <3>2, <3>3
    <2>2. CASE ~(j <= k)
        <3>1. j - k \in 1..k2 /\ r[j] = s2[j - k]
            BY <2>2
        <3>2. nx2[s2[j - k]] = Nth(r, k + k2, j + 1)
            BY <2>2, <3>1 DEF Chain, Nth
        <3>3. pv2[s2[j - k]] = Nth(r, k + k2, j - 1)
            BY <2>2, <3>1 DEF Chain, Nth
        <3> QED
            BY <3>1, <3>2, <3>3
    <2> QED
        BY <2>1, <2>2
<1> QED
    BY <1>1, <1>2, <1>3 DEF Chain

-----------------------------------------------------------------------------
(* Ownership: every node of the heap is at one of the places P of the      *)
(* lists o, at one only.                                                   *)

Owned(hp, o, P) ==
    /\ \A x \in Nodes : x \in hp <=> \E l \in Lists : \E i \in P[l] : o[l][i] = x
    /\ \A l, m \in Lists : \A i \in P[l], j \in P[m] : o[l][i] = o[m][j] => l = m /\ i = j

LEMMA HeapIsOwned == HeapExact <=> Owned(heap, order, [l \in Lists |-> Places(l)])
<1> DEFINE P == [l \in Lists |-> Places(l)]
<1>1. \A l \in Lists : P[l] = Places(l)
    OBVIOUS
<1> HIDE DEF P
<1>2. HeapExact <=> Owned(heap, order, P)
    BY <1>1 DEF HeapExact, Owned
<1> QED
    BY <1>2 DEF P

\* Only the lists L change.
OthersKept(o2, P2, o, P, L) == \A m \in Lists \ L : o2[m] = o[m] /\ P2[m] = P[m]

\* A new node x is put at place i of list l.
LEMMA OwnedInsert ==
    ASSUME NEW hp, NEW o, NEW P, NEW o2, NEW P2, NEW hp2, Owned(hp, o, P),
           NEW l \in Lists, NEW k \in Nat, NEW i \in 1..k + 1, NEW x \in Nodes, x \notin hp,
           P[l] = 1..k, P2[l] = 1..k + 1, hp2 = hp \cup {x},
           OthersKept(o2, P2, o, P, {l}), With(o2[l], o[l], k, i, x)
    PROVE  Owned(hp2, o2, P2)
<1> USE DEF OthersKept, With
<1>1. \A m \in Lists : \A j \in P[m] : o[m][j] # x
    BY DEF Owned
<1>2. ASSUME NEW y \in Nodes
      PROVE  y \in hp2 <=> \E m \in Lists : \E j \in P2[m] : o2[m][j] = y
    <2>1. ASSUME y \in hp PROVE \E m \in Lists : \E j \in P2[m] : o2[m][j] = y
        <3>1. PICK m \in Lists : \E j \in P[m] : o[m][j] = y
            BY <2>1 DEF Owned
        <3>2. PICK j \in P[m] : o[m][j] = y
            BY <3>1
        <3>3. CASE m # l
            BY <3>2, <3>3
        <3>4. CASE m = l /\ j < i
            <4>1. j \in P2[l] /\ o2[l][j] = y
                BY <3>2, <3>4
            <4> QED
                BY <4>1
        <3>5. CASE m = l /\ ~(j < i)
            <4>1. j + 1 \in P2[l] /\ o2[l][j + 1] = o[l][j + 1 - 1] /\ j + 1 - 1 = j
                BY <3>2, <3>5
            <4> QED
                BY <3>2, <3>5, <4>1
        <3> QED
            BY <3>3, <3>4, <3>5
    <2>2. \E j \in P2[l] : o2[l][j] = x
        <3>1. i \in P2[l] /\ o2[l][i] = x
            OBVIOUS
        <3> QED
            BY <3>1
    <2>3. ASSUME NEW m \in Lists, NEW j \in P2[m], o2[m][j] = y PROVE y \in hp2
        <3>1. CASE m # l
            BY <2>3, <3>1 DEF Owned
        <3>2. CASE m = l /\ j < i
            <4>1. j \in P[l] /\ o[l][j] = y
                BY <2>3, <3>2
            <4> QED
                BY <4>1 DEF Owned
        <3>3. CASE m = l /\ j = i
            BY <2>3, <3>3
        <3>4. CASE m = l /\ j > i
            <4>1. j - 1 \in P[l] /\ o[l][j - 1] = y
                BY <2>3, <3>4
            <4> QED
                BY <4>1 DEF Owned
        <3>5. m # l \/ j \in 1..k + 1
            OBVIOUS
        <3> QED
            BY <3>1, <3>2, <3>3, <3>4, <3>5
    <2> QED
        BY <2>1, <2>2, <2>3
<1>3. ASSUME NEW a \in Lists, NEW b \in Lists, NEW c \in P2[a], NEW d \in P2[b],
             o2[a][c] = o2[b][d]
      PROVE  a = b /\ c = d
    <2>1. CASE a # l /\ b # l
        BY <1>3, <2>1 DEF Owned
    <2>2. ASSUME NEW e \in 1..k + 1, NEW m \in Lists, m # l, NEW f \in P2[m]
          PROVE  o2[l][e] # o2[m][f]
        <3>1. f \in P[m] /\ o2[m][f] = o[m][f]
            BY <2>2
        <3>2. CASE e < i
            <4>1. e \in P[l] /\ o2[l][e] = o[l][e]
                BY <3>2
            <4> QED
                BY <2>2, <3>1, <4>1 DEF Owned
        <3>3. CASE e = i
            BY <1>1, <3>1, <3>3
        <3>4. CASE e > i
            <4>1. e - 1 \in P[l] /\ o2[l][e] = o[l][e - 1]
                BY <3>4
            <4> QED
                BY <2>2, <3>1, <4>1 DEF Owned
        <3> QED
            BY <3>2, <3>3, <3>4
    <2>3. CASE a = l /\ b = l
        <3>1. c \in 1..k + 1 /\ d \in 1..k + 1 /\ o2[l][c] = o2[l][d]
            BY <1>3, <2>3
        <3> DEFINE Old(e) == IF e < i THEN e ELSE e - 1
        <3>2. ASSUME NEW e \in 1..k + 1, e # i
              PROVE  Old(e) \in P[l] /\ o2[l][e] = o[l][Old(e)]
            BY <3>2
        <3>3. o2[l][i] = x
            OBVIOUS
        <3> HIDE DEF Old
        <3>4. ASSUME NEW e \in 1..k + 1, e # i PROVE o2[l][e] # x
            BY <1>1, <3>2, <3>4
        <3>5. CASE c = i \/ d = i
            BY <2>3, <3>1, <3>3, <3>4, <3>5
        <3>6. CASE c # i /\ d # i
            <4>1. o[l][Old(c)] = o[l][Old(d)] /\ Old(c) \in P[l] /\ Old(d) \in P[l]
                BY <3>1, <3>2, <3>6
            <4>2. Old(c) = Old(d)
                BY <4>1 DEF Owned
            <4> QED
                BY <2>3, <3>1, <3>6, <4>2 DEF Old
        <3> QED
            BY <3>5, <3>6
    <2> QED
        BY <1>3, <2>1, <2>2, <2>3
<1> QED
    BY <1>2, <1>3 DEF Owned

\* The node at place i of list l is given back and leaves its place.
LEMMA OwnedDrop ==
    ASSUME NEW hp, NEW o, NEW P, NEW P2, NEW hp2, Owned(hp, o, P),
           NEW l \in Lists, NEW i \in P[l], P2[l] = P[l] \ {i}, hp2 = hp \ {o[l][i]},
           OthersKept(o, P2, o, P, {l})
    PROVE  Owned(hp2, o, P2)
<1> USE DEF OthersKept
<1>1. \A m \in Lists : P2[m] \subseteq P[m]
    OBVIOUS
<1>2. ASSUME NEW y \in Nodes
      PROVE  y \in hp2 <=> \E m \in Lists : \E j \in P2[m] : o[m][j] = y
    <2>1. ASSUME y \in hp2 PROVE \E m \in Lists : \E j \in P2[m] : o[m][j] = y
        <3>1. PICK m \in Lists : \E j \in P[m] : o[m][j] = y
            BY <2>1 DEF Owned
        <3>2. PICK j \in P[m] : o[m][j] = y
            BY <3>1
        <3>3. j \in P2[m]
            BY <2>1, <3>2
        <3> QED
            BY <3>2, <3>3
    <2>2. ASSUME NEW m \in Lists, NEW j \in P2[m], o[m][j] = y PROVE y \in hp2
        <3>1. y \in hp
            BY <1>1, <2>2 DEF Owned
        <3>2. y # o[l][i]
            BY <1>1, <2>2 DEF Owned
        <3> QED
            BY <3>1, <3>2
    <2> QED
        BY <2>1, <2>2
<1>3. \A a, b \in Lists : \A c \in P2[a], d \in P2[b] : o[a][c] = o[b][d] => a = b /\ c = d
    BY <1>1 DEF Owned
<1> QED
    BY <1>2, <1>3 DEF Owned

\* The nodes of list l close up after a removal.
LEMMA OwnedCloseUp ==
    ASSUME NEW hp, NEW o, NEW P, NEW o2, NEW P2, Owned(hp, o, P),
           NEW l \in Lists, NEW k \in Nat, NEW i \in 1..k,
           P[l] = (1..k) \ {i}, P2[l] = 1..k - 1,
           OthersKept(o2, P2, o, P, {l}), Without(o2[l], o[l], k, i)
    PROVE  Owned(hp, o2, P2)
<1> USE DEF OthersKept, Without
<1> DEFINE Old(e) == IF e < i THEN e ELSE e + 1
<1>1. ASSUME NEW e \in 1..k - 1
      PROVE  Old(e) \in P[l] /\ o2[l][e] = o[l][Old(e)]
    OBVIOUS
<1>2. ASSUME NEW f \in P[l] PROVE \E e \in 1..k - 1 : Old(e) = f
    <2>1. CASE f < i
        <3>1. f \in 1..k - 1 /\ Old(f) = f
            BY <2>1
        <3> QED
            BY <3>1
    <2>2. CASE f > i
        <3>1. f - 1 \in 1..k - 1 /\ Old(f - 1) = f
            BY <2>2
        <3> QED
            BY <3>1
    <2>3. f < i \/ f > i
        OBVIOUS
    <2> QED
        BY <2>1, <2>2, <2>3
<1>3. ASSUME NEW e \in 1..k - 1, NEW f \in 1..k - 1, Old(e) = Old(f) PROVE e = f
    BY <1>3
<1> HIDE DEF Old
<1>4. ASSUME NEW y \in Nodes
      PROVE  y \in hp <=> \E m \in Lists : \E j \in P2[m] : o2[m][j] = y
    <2>1. ASSUME y \in hp PROVE \E m \in Lists : \E j \in P2[m] : o2[m][j] = y
        <3>1. PICK m \in Lists : \E j \in P[m] : o[m][j] = y
            BY <2>1 DEF Owned
        <3>2. PICK j \in P[m] : o[m][j] = y
            BY <3>1
        <3>3. CASE m # l
            BY <3>2, <3>3
        <3>4. CASE m = l
            <4>1. PICK e \in 1..k - 1 : Old(e) = j
                BY <1>2, <3>2, <3>4
            <4> QED
                BY <1>1, <3>2, <3>4, <4>1
        <3> QED
            BY <3>3, <3>4
    <2>2. ASSUME NEW m \in Lists, NEW j \in P2[m], o2[m][j] = y PROVE y \in hp
        <3>1. CASE m # l
            BY <2>2, <3>1 DEF Owned
        <3>2. CASE m = l
            <4>1. j \in 1..k - 1 /\ o2[l][j] = y
                BY <2>2, <3>2
            <4>2. Old(j) \in P[l] /\ o[l][Old(j)] = y
                BY <1>1, <4>1
            <4> QED
                BY <4>2 DEF Owned
        <3> QED
            BY <3>1, <3>2
    <2> QED
        BY <2>1, <2>2
<1>5. ASSUME NEW a \in Lists, NEW b \in Lists, NEW c \in P2[a], NEW d \in P2[b],
             o2[a][c] = o2[b][d]
      PROVE  a = b /\ c = d
    <2>1. ASSUME NEW f \in 1..k - 1
          PROVE  Old(f) \in P[l] /\ o2[l][f] = o[l][Old(f)]
        BY <1>1
    <2>2. CASE a # l /\ b # l
        BY <1>5, <2>2 DEF Owned
    <2>3. CASE a = l /\ b # l
        <3>1. Old(c) \in P[l] /\ o[l][Old(c)] = o[b][d] /\ d \in P[b]
            BY <1>5, <2>1, <2>3
        <3> QED
            BY <2>3, <3>1 DEF Owned
    <2>4. CASE a # l /\ b = l
        <3>1. Old(d) \in P[l] /\ o[l][Old(d)] = o[a][c] /\ c \in P[a]
            BY <1>5, <2>1, <2>4
        <3> QED
            BY <2>4, <3>1 DEF Owned
    <2>5. CASE a = l /\ b = l
        <3>1. Old(c) \in P[l] /\ Old(d) \in P[l] /\ o[l][Old(c)] = o[l][Old(d)]
            BY <1>5, <2>1, <2>5
        <3>2. Old(c) = Old(d)
            BY <3>1 DEF Owned
        <3> QED
            BY <1>3, <2>5, <3>2
    <2> QED
        BY <2>2, <2>3, <2>4, <2>5
<1> QED
    BY <1>4, <1>5 DEF Owned

\* The last node of list l moves to the front.
LEMMA OwnedRotate ==
    ASSUME NEW hp, NEW o, NEW P, NEW o2, Owned(hp, o, P),
           NEW l \in Lists, NEW k \in Nat, k > 0, P[l] = 1..k,
           OthersKept(o2, P, o, P, {l}), Turned(o2[l], o[l], k)
    PROVE  Owned(hp, o2, P)
<1> USE DEF OthersKept, Turned
<1> DEFINE Old(e) == IF e = 1 THEN k ELSE e - 1
<1>1. ASSUME NEW e \in 1..k
      PROVE  Old(e) \in 1..k /\ o2[l][e] = o[l][Old(e)]
    OBVIOUS
<1>2. ASSUME NEW f \in 1..k PROVE \E e \in 1..k : Old(e) = f
    <2>1. CASE f = k
        <3>1. 1 \in 1..k /\ Old(1) = f
            BY <2>1
        <3> QED
            BY <3>1
    <2>2. CASE f # k
        <3>1. f + 1 \in 1..k /\ Old(f + 1) = f
            BY <2>2
        <3> QED
            BY <3>1
    <2> QED
        BY <2>1, <2>2
<1>3. ASSUME NEW e \in 1..k, NEW f \in 1..k, Old(e) = Old(f) PROVE e = f
    BY <1>3
<1> HIDE DEF Old
<1>4. ASSUME NEW y \in Nodes
      PROVE  y \in hp <=> \E m \in Lists : \E j \in P[m] : o2[m][j] = y
    <2>1. ASSUME y \in hp PROVE \E m \in Lists : \E j \in P[m] : o2[m][j] = y
        <3>1. PICK m \in Lists : \E j \in P[m] : o[m][j] = y
            BY <2>1 DEF Owned
        <3>2. PICK j \in P[m] : o[m][j] = y
            BY <3>1
        <3>3. CASE m # l
            BY <3>2, <3>3
        <3>4. CASE m = l
            <4>1. PICK e \in 1..k : Old(e) = j
                BY <1>2, <3>2, <3>4
            <4> QED
                BY <1>1, <3>2, <3>4, <4>1
        <3> QED
            BY <3>3, <3>4
    <2>2. ASSUME NEW m \in Lists, NEW j \in P[m], o2[m][j] = y PROVE y \in hp
        <3>1. CASE m # l
            BY <2>2, <3>1 DEF Owned
        <3>2. CASE m = l
            <4>1. j \in 1..k /\ o2[l][j] = y
                BY <2>2, <3>2
            <4>2. Old(j) \in P[l] /\ o[l][Old(j)] = y
                BY <1>1, <4>1
            <4> QED
                BY <4>2 DEF Owned
        <3> QED
            BY <3>1, <3>2
    <2> QED
        BY <2>1, <2>2
<1>5. ASSUME NEW a \in Lists, NEW b \in Lists, NEW c \in P[a], NEW d \in P[b],
             o2[a][c] = o2[b][d]
      PROVE  a = b /\ c = d
    <2>1. ASSUME NEW f \in 1..k
          PROVE  Old(f) \in P[l] /\ o2[l][f] = o[l][Old(f)]
        BY <1>1
    <2>2. CASE a # l /\ b # l
        BY <1>5, <2>2 DEF Owned
    <2>3. CASE a = l /\ b # l
        <3>1. Old(c) \in P[l] /\ o[l][Old(c)] = o[b][d] /\ d \in P[b]
            BY <1>5, <2>1, <2>3
        <3> QED
            BY <2>3, <3>1 DEF Owned
    <2>4. CASE a # l /\ b = l
        <3>1. Old(d) \in P[l] /\ o[l][Old(d)] = o[a][c] /\ c \in P[a]
            BY <1>5, <2>1, <2>4
        <3> QED
            BY <2>4, <3>1 DEF Owned
    <2>5. CASE a = l /\ b = l
        <3>1. Old(c) \in P[l] /\ Old(d) \in P[l] /\ o[l][Old(c)] = o[l][Old(d)]
            BY <1>5, <2>1, <2>5
        <3>2. Old(c) = Old(d)
            BY <3>1 DEF Owned
        <3> QED
            BY <1>3, <2>5, <3>2
    <2> QED
        BY <2>2, <2>3, <2>4, <2>5
<1> QED
    BY <1>4, <1>5 DEF Owned

\* The nodes of list m go to the end of list l.
LEMMA OwnedJoin ==
    ASSUME NEW hp, NEW o, NEW P, NEW o2, NEW P2, Owned(hp, o, P),
           NEW l \in Lists, NEW m \in Lists, l # m, NEW k \in Nat, NEW k2 \in Nat,
           P[l] = 1..k, P[m] = 1..k2, P2[l] = 1..k + k2, P2[m] = {},
           OthersKept(o2, P2, o, P, {l, m}), Followed(o2[l], o[l], k, o[m], k2)
    PROVE  Owned(hp, o2, P2)
<1> USE DEF OthersKept, Followed
<1>1. ASSUME NEW y \in Nodes
      PROVE  y \in hp <=> \E a \in Lists : \E j \in P2[a] : o2[a][j] = y
    <2>1. ASSUME y \in hp PROVE \E a \in Lists : \E j \in P2[a] : o2[a][j] = y
        <3>1. PICK a \in Lists : \E j \in P[a] : o[a][j] = y
            BY <2>1 DEF Owned
        <3>2. PICK j \in P[a] : o[a][j] = y
            BY <3>1
        <3>3. CASE a \notin {l, m}
            BY <3>2, <3>3
        <3>4. CASE a = l
            <4>1. j \in P2[l] /\ o2[l][j] = y
                BY <3>2, <3>4
            <4> QED
                BY <4>1
        <3>5. CASE a = m
            <4>1. k + j \in P2[l] /\ o2[l][k + j] = y
                <5>1. j \in 1..k2 /\ k + j - k = j /\ ~(k + j <= k) /\ k + j \in 1..k + k2
                    BY <3>2, <3>5
                <5> QED
                    BY <3>2, <3>5, <5>1
            <4> QED
                BY <4>1
        <3> QED
            BY <3>3, <3>4, <3>5
    <2>2. ASSUME NEW a \in Lists, NEW j \in P2[a], o2[a][j] = y PROVE y \in hp
        <3>1. CASE a \notin {l, m}
            BY <2>2, <3>1 DEF Owned
        <3>2. CASE a = l /\ j <= k
            <4>1. j \in P[l] /\ o[l][j] = y
                BY <2>2, <3>2
            <4> QED
                BY <4>1 DEF Owned
        <3>3. CASE a = l /\ ~(j <= k)
            <4>1. j - k \in P[m] /\ o[m][j - k] = y
                BY <2>2, <3>3
            <4> QED
                BY <4>1 DEF Owned
        <3> QED
            BY <3>1, <3>2, <3>3
    <2> QED
        BY <2>1, <2>2
<1>2. ASSUME NEW a \in Lists, NEW b \in Lists, NEW c \in P2[a], NEW d \in P2[b],
             o2[a][c] = o2[b][d]
      PROVE  a = b /\ c = d
    <2>1. a # m /\ b # m
        OBVIOUS
    <2>2. CASE a # l /\ b # l
        BY <1>2, <2>1, <2>2 DEF Owned
    <2>3. ASSUME NEW e \in 1..k + k2, NEW f \in Lists, f # l, f # m, NEW g \in P2[f]
          PROVE  o2[l][e] # o2[f][g]
        <3>1. g \in P[f] /\ o2[f][g] = o[f][g]
            BY <2>3
        <3>2. CASE e <= k
            <4>1. e \in P[l] /\ o2[l][e] = o[l][e]
                BY <3>2
            <4> QED
                BY <2>3, <3>1, <4>1 DEF Owned
        <3>3. CASE ~(e <= k)
            <4>1. e - k \in P[m] /\ o2[l][e] = o[m][e - k]
                BY <3>3
            <4> QED
                BY <2>3, <3>1, <4>1 DEF Owned
        <3> QED
            BY <3>2, <3>3
    <2>4. CASE a = l /\ b = l
        <3>1. c \in 1..k + k2 /\ d \in 1..k + k2 /\ o2[l][c] = o2[l][d]
            BY <1>2, <2>4
        <3>2. ASSUME NEW e \in 1..k + k2, e <= k
              PROVE  e \in P[l] /\ o2[l][e] = o[l][e]
            BY <3>2
        <3>3. ASSUME NEW e \in 1..k + k2, ~(e <= k)
              PROVE  e - k \in P[m] /\ o2[l][e] = o[m][e - k]
            BY <3>3
        <3>4. CASE c <= k /\ d <= k
            BY <2>4, <3>1, <3>2, <3>4 DEF Owned
        <3>5. CASE ~(c <= k) /\ ~(d <= k)
            <4>1. c - k \in P[m] /\ d - k \in P[m] /\ o[m][c - k] = o[m][d - k]
                BY <3>1, <3>3, <3>5
            <4>2. c - k = d - k
                BY <4>1 DEF Owned
            <4> QED
                BY <2>4, <3>1, <4>2
        <3>6. CASE c <= k /\ ~(d <= k)
            BY <3>1, <3>2, <3>3, <3>6 DEF Owned
        <3>7. CASE ~(c <= k) /\ d <= k
            BY <3>1, <3>2, <3>3, <3>7 DEF Owned
        <3> QED
            BY <3>4, <3>5, <3>6, <3>7
    <2>5. CASE a = l /\ b # l
        BY <1>2, <2>1, <2>3, <2>5
    <2>6. CASE a # l /\ b = l
        BY <1>2, <2>1, <2>3, <2>6
    <2> QED
        BY <2>2, <2>4, <2>5, <2>6
<1> QED
    BY <1>1, <1>2 DEF Owned

-----------------------------------------------------------------------------
(* The lists of a state and of the next one as chains and places.          *)

LEMMA LinksAreChainNext ==
    ASSUME NEW l, NEW s \in Seq(Nodes)
    PROVE  Links(l, s)' <=>
           len'[l] = Len(s) /\ Chain(s, Len(s), head'[l], tail'[l], next', prev')
<1> PICK k \in Nat : k = Len(s)
    OBVIOUS
<1>1. s = <<>> <=> k = 0
    BY EmptySeq
<1>2. /\ Nth(s, k, 1) = IF s = <<>> THEN NULL ELSE s[1]
      /\ Nth(s, k, k) = IF s = <<>> THEN NULL ELSE s[k]
    BY <1>1 DEF Nth
<1>3. ASSUME NEW i \in 1..k
      PROVE  /\ Nth(s, k, i + 1) = IF i = k THEN NULL ELSE s[i + 1]
             /\ Nth(s, k, i - 1) = IF i = 1 THEN NULL ELSE s[i - 1]
    BY DEF Nth
<1> QED
    BY <1>2, <1>3 DEF Links, Chain

LEMMA HeapIsOwnedNext == HeapExact' <=> Owned(heap', order', [l \in Lists |-> Places(l)'])
<1> DEFINE P == [l \in Lists |-> Places(l)']
<1>1. \A l \in Lists : P[l] = Places(l)'
    OBVIOUS
<1> HIDE DEF P
<1>2. HeapExact' <=> Owned(heap', order', P)
    BY <1>1 DEF HeapExact, Owned
<1> QED
    BY <1>2 DEF P

\* A list that is not being emptied is a chain through all its places.
LEMMA WholeList ==
    ASSUME TypeOK, WellLinked, NEW l \in Lists, ~Emptying(l)
    PROVE  /\ order[l] \in Seq(Nodes) /\ Len(order[l]) \in Nat
           /\ Places(l) = 1..Len(order[l]) /\ len[l] = Len(order[l])
           /\ Chain(order[l], Len(order[l]), head[l], tail[l], next, prev)
<1>1. order[l] \in Seq(Nodes) /\ Len(order[l]) \in Nat
    BY DEF TypeOK
<1>2. Links(l, order[l])
    BY DEF WellLinked
<1>3. Places(l) = 1..Len(order[l])
    BY DEF Places
<1> QED
    BY <1>1, <1>2, <1>3, LinksAreChain

\* The nodes of different places are different.
LEMMA OneNodePerPlace ==
    ASSUME HeapExact, NEW l \in Lists, NEW m \in Lists, NEW i \in Places(l), NEW j \in Places(m),
           order[l][i] = order[m][j]
    PROVE  l = m /\ i = j
BY DEF HeapExact

\* Nodes in a list are in the heap.
LEMMA PlacesInHeap ==
    ASSUME HeapExact, NEW l \in Lists, NEW i \in Places(l), order[l][i] \in Nodes
    PROVE  order[l][i] \in heap
BY DEF HeapExact

-----------------------------------------------------------------------------
(* A node is put into a list: listAddNodeHead, listAddNodeTail and         *)
(* listInsertNode, with x at place i of list l.                            *)

Spliced(l, i, x) ==
    /\ heap' = heap \cup {x}
    /\ head' = [head EXCEPT ![l] = IF i = 1 THEN x ELSE @]
    /\ tail' = [tail EXCEPT ![l] = IF i = Len(order[l]) + 1 THEN x ELSE @]
    /\ next' = [y \in Nodes |-> IF y = x THEN At(order[l], i)
                                ELSE IF y = At(order[l], i - 1) THEN x ELSE next[y]]
    /\ prev' = [y \in Nodes |-> IF y = x THEN At(order[l], i - 1)
                                ELSE IF y = At(order[l], i) THEN x ELSE prev[y]]
    /\ len' = [len EXCEPT ![l] = @ + 1]
    /\ order' = [order EXCEPT ![l] = InsertAt(@, i, x)]

LEMMA SplicedKeeps ==
    ASSUME TypeOK, WellLinked, HeapExact,
           NEW l \in Lists, NEW i \in 1..Len(order[l]) + 1, NEW x \in Nodes \ heap,
           Spliced(l, i, x),
           \A m \in Lists : ~Emptying(m) /\ ~Emptying(m)'
    PROVE  WellLinked' /\ HeapExact' /\ order' \in [Lists -> Seq(Nodes)]
<1> USE AdListAssumption
<1> PICK s \in Seq(Nodes) : s = order[l]
    BY DEF TypeOK
<1> PICK k \in Nat : k = Len(s)
    OBVIOUS
<1> PICK r : r = InsertAt(s, i, x)
    OBVIOUS
<1>1. r \in Seq(Nodes) /\ Len(r) = k + 1 /\ With(r, s, k, i, x)
    BY Inserted
<1>2. order'[l] = r /\ \A m \in Lists \ {l} : order'[m] = order[m]
    BY DEF Spliced, TypeOK
<1>3. order' \in [Lists -> Seq(Nodes)]
    BY <1>1 DEF Spliced, TypeOK
<1>4. \A m \in Lists : Places(m) = 1..Len(order[m]) /\ Places(m)' = 1..Len(order'[m])
    BY DEF Places
<1>5. \A j \in 1..k : s[j] \in Nodes /\ s[j] # x
    BY <1>4, PlacesInHeap
<1>6. ASSUME NEW a \in 1..k, NEW b \in 1..k, s[a] = s[b] PROVE a = b
    BY <1>4, <1>6, OneNodePerPlace
<1>7. HeapExact'
    <2> DEFINE P == [m \in Lists |-> Places(m)]
               P2 == [m \in Lists |-> Places(m)']
    <2>1. Owned(heap, order, P)
        BY HeapIsOwned
    <2>2. P[l] = 1..k /\ P2[l] = 1..k + 1 /\ OthersKept(order', P2, order, P, {l})
        BY <1>1, <1>2, <1>4 DEF OthersKept
    <2>3. heap' = heap \cup {x} /\ With(order'[l], order[l], k, i, x)
        BY <1>1, <1>2 DEF Spliced
    <2> HIDE DEF P, P2
    <2>4. Owned(heap', order', P2)
        BY <2>1, <2>2, <2>3, OwnedInsert
    <2> QED
        BY <2>4, HeapIsOwnedNext DEF P2
<1>8. ASSUME NEW m \in Lists PROVE Links(m, order[m])'
    <2>1. CASE m = l
        <3>1. len[l] = k /\ Chain(s, k, head[l], tail[l], next, prev)
            BY WholeList
        <3>2. LinkIn(next', prev', next, prev, s, k, i, x)
            <4>1. ASSUME NEW j \in 1..k
                  PROVE  /\ next'[s[j]] = IF j = i - 1 THEN x ELSE next[s[j]]
                         /\ prev'[s[j]] = IF j = i THEN x ELSE prev[s[j]]
                BY <1>5, <1>6 DEF Spliced, At, Nth
            <4>2. next'[x] = Nth(s, k, i) /\ prev'[x] = Nth(s, k, i - 1)
                BY DEF Spliced, At
            <4> QED
                BY <4>1, <4>2 DEF LinkIn
        <3>3. /\ head'[l] = IF i = 1 THEN x ELSE head[l]
              /\ tail'[l] = IF i = k + 1 THEN x ELSE tail[l]
              /\ len'[l] = k + 1
            BY <3>1 DEF Spliced, TypeOK
        <3>4. Chain(r, k + 1, head'[l], tail'[l], next', prev')
            BY <1>1, <3>1, <3>2, <3>3, ChainInsert
        <3>7. Links(l, r)'
            BY <1>1, <3>3, <3>4, LinksAreChainNext
        <3> QED
            BY <1>2, <2>1, <3>7
    <2>2. CASE m # l
        <3> PICK s2 \in Seq(Nodes) : s2 = order[m]
            BY DEF TypeOK
        <3> PICK k2 \in Nat : k2 = Len(s2)
            OBVIOUS
        <3>1. len[m] = k2 /\ Chain(s2, k2, head[m], tail[m], next, prev)
            BY WholeList
        <3>2. ASSUME NEW j \in 1..k2, NEW a \in 1..k PROVE s2[j] # s[a]
            BY <1>4, <2>2, OneNodePerPlace
        <3>3. ASSUME NEW j \in 1..k2 PROVE s2[j] # x /\ s2[j] \in Nodes
            BY <1>4, PlacesInHeap
        <3>4. \A j \in 1..k2 : next'[s2[j]] = next[s2[j]] /\ prev'[s2[j]] = prev[s2[j]]
            BY <3>2, <3>3 DEF Spliced, At, Nth
        <3>5. Chain(s2, k2, head[m], tail[m], next', prev')
            BY <3>1, <3>4, ChainKept, SMTT(20) DEF LinksKept
        <3>6. head'[m] = head[m] /\ tail'[m] = tail[m] /\ len'[m] = len[m]
            BY <2>2 DEF Spliced, TypeOK
        <3>7. Links(m, s2)'
            BY <3>1, <3>5, <3>6, LinksAreChainNext
        <3> QED
            BY <1>2, <2>2, <3>7
    <2> QED
        BY <2>1, <2>2
<1> QED
    BY <1>3, <1>7, <1>8 DEF WellLinked
LEMMA AddNodeHeadSplices ==
    ASSUME TypeOK, WellLinked, HeapExact, NEW l \in Lists, NEW x \in Nodes, NEW v,
           AddNodeHead(l, x, v)
    PROVE  Spliced(l, 1, x)
<1> USE AdListAssumption
<1> PICK s \in Seq(Nodes) : s = order[l]
    BY DEF TypeOK
<1> PICK k \in Nat : k = Len(s)
    OBVIOUS
<1>1. len[l] = k /\ Chain(s, k, head[l], tail[l], next, prev)
    BY WholeList DEF AddNodeHead, Idle, Emptying
<1>2. \A j \in 1..k : s[j] \in Nodes
    OBVIOUS
<1>3. At(s, 1) = head[l] /\ At(s, 1 - 1) = NULL
    BY <1>1 DEF Chain, At, Nth
<1>4. (k = 0 => head[l] = NULL) /\ (k # 0 => head[l] \in Nodes)
    BY <1>1, <1>2 DEF Chain, Nth
<1>5. /\ head' = [head EXCEPT ![l] = x]
      /\ tail' = [tail EXCEPT ![l] = IF 1 = k + 1 THEN x ELSE @]
    BY <1>1 DEF AddNodeHead, TypeOK
<1>6. next' = [y \in Nodes |-> IF y = x THEN head[l] ELSE IF y = NULL THEN x ELSE next[y]]
    BY <1>1, <1>4 DEF AddNodeHead, TypeOK
<1>7. prev' = [y \in Nodes |-> IF y = x THEN NULL ELSE IF y = head[l] THEN x ELSE prev[y]]
    <2>1. CASE k = 0
        BY <1>1, <1>4, <2>1 DEF AddNodeHead, TypeOK
    <2>2. CASE k # 0
        <3>1. head[l] # x
            BY <1>1, <1>2, <2>2, PlacesInHeap DEF AddNodeHead, Idle, Emptying, Places, Chain, Nth
        <3> QED
            BY <1>1, <1>4, <2>2, <3>1 DEF AddNodeHead, TypeOK
    <2> QED
        BY <2>1, <2>2
<1> QED
    BY <1>3, <1>5, <1>6, <1>7 DEF AddNodeHead, Spliced

LEMMA LinkTailSplices ==
    ASSUME TypeOK, WellLinked, HeapExact, NEW l \in Lists, NEW x \in Nodes \ heap, NEW v,
           ~Emptying(l), LinkTail(l, x, v)
    PROVE  Spliced(l, Len(order[l]) + 1, x)
<1> USE AdListAssumption
<1> PICK s \in Seq(Nodes) : s = order[l]
    BY DEF TypeOK
<1> PICK k \in Nat : k = Len(s)
    OBVIOUS
<1>1. len[l] = k /\ Chain(s, k, head[l], tail[l], next, prev)
    BY WholeList
<1>2. \A j \in 1..k : s[j] \in Nodes
    OBVIOUS
<1>3. At(s, k + 1) = NULL /\ At(s, k + 1 - 1) = tail[l]
    BY <1>1 DEF Chain, At, Nth
<1>4. (k = 0 => tail[l] = NULL) /\ (k # 0 => tail[l] \in Nodes)
    BY <1>1, <1>2 DEF Chain, Nth
<1>5. /\ head' = [head EXCEPT ![l] = IF k + 1 = 1 THEN x ELSE @]
      /\ tail' = [tail EXCEPT ![l] = x]
    BY <1>1 DEF LinkTail, TypeOK
<1>6. prev' = [y \in Nodes |-> IF y = x THEN tail[l] ELSE IF y = NULL THEN x ELSE prev[y]]
    BY <1>1, <1>4 DEF LinkTail, TypeOK
<1>7. next' = [y \in Nodes |-> IF y = x THEN NULL ELSE IF y = tail[l] THEN x ELSE next[y]]
    <2>1. CASE k = 0
        BY <1>1, <1>4, <2>1 DEF LinkTail, TypeOK
    <2>2. CASE k # 0
        <3>1. tail[l] # x
            BY <1>1, <1>2, <2>2, PlacesInHeap DEF Places, Chain, Nth
        <3> QED
            BY <1>1, <1>4, <2>2, <3>1 DEF LinkTail, TypeOK
    <2> QED
        BY <2>1, <2>2
<1> QED
    BY <1>3, <1>5, <1>6, <1>7 DEF LinkTail, Spliced

LEMMA InsertAfterSplices ==
    ASSUME TypeOK, WellLinked, HeapExact, NEW l \in Lists, NEW i \in 1..Len(order[l]),
           NEW x \in Nodes, NEW v, InsertAfter(l, i, x, v)
    PROVE  Spliced(l, i + 1, x)
<1> USE AdListAssumption
<1> PICK s \in Seq(Nodes) : s = order[l]
    BY DEF TypeOK
<1> PICK k \in Nat : k = Len(s)
    OBVIOUS
<1> USE DEF InsertAfter, InsertAfterAs
<1>1. ~Emptying(l) /\ x \notin heap
    BY DEF Idle, Emptying
<1>2. len[l] = k /\ Chain(s, k, head[l], tail[l], next, prev)
    BY <1>1, WholeList
<1>3. \A j \in 1..k : s[j] \in Nodes /\ s[j] # x
    BY <1>1, PlacesInHeap DEF Places
<1>4. ASSUME NEW a \in 1..k, NEW b \in 1..k, s[a] = s[b] PROVE a = b
    BY <1>1, <1>4, OneNodePerPlace DEF Places
<1>5. At(s, i + 1) = next[s[i]] /\ At(s, i + 1 - 1) = s[i]
    BY <1>2 DEF Chain, At, Nth
<1>6. head' = [head EXCEPT ![l] = IF i + 1 = 1 THEN x ELSE @]
    BY DEF TypeOK
<1>7. tail' = [tail EXCEPT ![l] = IF i + 1 = k + 1 THEN x ELSE @]
    <2>1. tail[l] = s[k]
        BY <1>2 DEF Chain, Nth
    <2>2. tail[l] = s[i] <=> i = k
        BY <1>4, <2>1
    <2>3. i = k <=> i + 1 = k + 1
        OBVIOUS
    <2>4. tail' = [tail EXCEPT ![l] = IF i = k THEN x ELSE @]
        BY <2>2 DEF TypeOK
    <2> QED
        BY <2>3, <2>4
<1>8. next' = [y \in Nodes |-> IF y = x THEN next[s[i]] ELSE IF y = s[i] THEN x ELSE next[y]]
    BY <1>3 DEF TypeOK
<1>9. prev' = [y \in Nodes |-> IF y = x THEN s[i] ELSE IF y = next[s[i]] THEN x ELSE prev[y]]
    OBVIOUS
<1>10. /\ heap' = heap \cup {x} /\ len' = [len EXCEPT ![l] = @ + 1]
       /\ order' = [order EXCEPT ![l] = InsertAt(@, i + 1, x)]
    OBVIOUS
<1> HIDE DEF InsertAfter, InsertAfterAs
<1> QED
    BY <1>5, <1>6, <1>7, <1>8, <1>9, <1>10 DEF Spliced

LEMMA InsertBeforeSplices ==
    ASSUME TypeOK, WellLinked, HeapExact, NEW l \in Lists, NEW i \in 1..Len(order[l]),
           NEW x \in Nodes, NEW v, InsertBefore(l, i, x, v)
    PROVE  Spliced(l, i, x)
<1> USE AdListAssumption
<1> PICK s \in Seq(Nodes) : s = order[l]
    BY DEF TypeOK
<1> PICK k \in Nat : k = Len(s)
    OBVIOUS
<1> USE DEF InsertBefore
<1>1. ~Emptying(l) /\ x \notin heap
    BY DEF Idle, Emptying
<1>2. len[l] = k /\ Chain(s, k, head[l], tail[l], next, prev)
    BY <1>1, WholeList
<1>3. \A j \in 1..k : s[j] \in Nodes /\ s[j] # x
    BY <1>1, PlacesInHeap DEF Places
<1>4. ASSUME NEW a \in 1..k, NEW b \in 1..k, s[a] = s[b] PROVE a = b
    BY <1>1, <1>4, OneNodePerPlace DEF Places
<1>5. At(s, i) = s[i] /\ At(s, i - 1) = prev[s[i]]
    BY <1>2 DEF Chain, At, Nth
<1>6. tail' = [tail EXCEPT ![l] = IF i = k + 1 THEN x ELSE @]
    BY DEF TypeOK
<1>7. head' = [head EXCEPT ![l] = IF i = 1 THEN x ELSE @]
    <2>1. head[l] = s[1]
        BY <1>2 DEF Chain, Nth
    <2>2. head[l] = s[i] <=> i = 1
        BY <1>4, <2>1
    <2> QED
        BY <2>2 DEF TypeOK
<1>8. prev' = [y \in Nodes |-> IF y = x THEN prev[s[i]] ELSE IF y = s[i] THEN x ELSE prev[y]]
    BY <1>3 DEF TypeOK
<1>9. next' = [y \in Nodes |-> IF y = x THEN s[i] ELSE IF y = prev[s[i]] THEN x ELSE next[y]]
    OBVIOUS
<1>10. /\ heap' = heap \cup {x} /\ len' = [len EXCEPT ![l] = @ + 1]
       /\ order' = [order EXCEPT ![l] = InsertAt(@, i, x)]
    OBVIOUS
<1> HIDE DEF InsertBefore
<1> QED
    BY <1>5, <1>6, <1>7, <1>8, <1>9, <1>10 DEF Spliced

-----------------------------------------------------------------------------
(* A node is taken out (listDelNode), a list is rotated, two lists are     *)
(* joined.                                                                 *)

LEMMA UnlinkKeeps ==
    ASSUME TypeOK, WellLinked, HeapExact,
           NEW l \in Lists, NEW i \in 1..Len(order[l]), Unlink(l, order[l][i], i),
           \A m \in Lists : ~Emptying(m) /\ ~Emptying(m)'
    PROVE  WellLinked' /\ HeapExact' /\ order' \in [Lists -> Seq(Nodes)]
<1> USE AdListAssumption
<1> PICK s \in Seq(Nodes) : s = order[l]
    BY DEF TypeOK
<1> PICK k \in Nat : k = Len(s)
    OBVIOUS
<1> PICK r : r = RemoveAt(s, i)
    OBVIOUS
<1>1. r \in Seq(Nodes) /\ Len(r) = k - 1 /\ Without(r, s, k, i)
    BY Removed
<1>2. order'[l] = r /\ \A m \in Lists \ {l} : order'[m] = order[m]
    BY DEF Unlink, TypeOK
<1>3. order' \in [Lists -> Seq(Nodes)]
    BY <1>1 DEF Unlink, TypeOK
<1>4. \A m \in Lists : Places(m) = 1..Len(order[m]) /\ Places(m)' = 1..Len(order'[m])
    BY DEF Places
<1>5. \A j \in 1..k : s[j] \in Nodes
    OBVIOUS
<1>6. ASSUME NEW a \in 1..k, NEW b \in 1..k, s[a] = s[b] PROVE a = b
    BY <1>4, <1>6, OneNodePerPlace
<1>7. HeapExact'
    <2> DEFINE P == [m \in Lists |-> Places(m)]
               P1 == [P EXCEPT ![l] = (1..k) \ {i}]
               P2 == [m \in Lists |-> Places(m)']
    <2>1. Owned(heap, order, P)
        BY HeapIsOwned
    <2>2. P1[l] = P[l] \ {i} /\ i \in P[l] /\ OthersKept(order, P1, order, P, {l})
        BY <1>4 DEF OthersKept
    <2>3. /\ P1[l] = (1..k) \ {i} /\ P2[l] = 1..k - 1
          /\ OthersKept(order', P2, order, P1, {l})
        BY <1>1, <1>2, <1>4 DEF OthersKept
    <2>4. heap' = heap \ {order[l][i]} /\ Without(order'[l], order[l], k, i)
        BY <1>1, <1>2 DEF Unlink
    <2> HIDE DEF P, P1, P2
    <2>5. Owned(heap', order, P1)
        BY <2>1, <2>2, <2>4, OwnedDrop
    <2>6. Owned(heap', order', P2)
        BY <2>3, <2>4, <2>5, OwnedCloseUp
    <2> QED
        BY <2>6, HeapIsOwnedNext DEF P2
<1>8. Chain(s, k, head[l], tail[l], next, prev) /\ len[l] = k
    BY WholeList
<1>9. /\ prev[s[i]] = Nth(s, k, i - 1) /\ next[s[i]] = Nth(s, k, i + 1)
      /\ (prev[s[i]] = NULL <=> i = 1) /\ (next[s[i]] = NULL <=> i = k)
    <2>1. prev[s[i]] = Nth(s, k, i - 1) /\ next[s[i]] = Nth(s, k, i + 1)
        BY <1>8 DEF Chain
    <2>2. Nth(s, k, i - 1) = NULL <=> i = 1
        BY <1>5 DEF Nth
    <2>3. Nth(s, k, i + 1) = NULL <=> i = k
        BY <1>5 DEF Nth
    <2> QED
        BY <2>1, <2>2, <2>3
<1>10. ASSUME NEW m \in Lists PROVE Links(m, order[m])'
    <2>1. CASE m = l
        <3>1. LinkOut(next', prev', next, prev, s, k, i)
            <4>1. ASSUME NEW j \in 1..k, j # i
                  PROVE  /\ next'[s[j]] = IF j = i - 1 THEN next[s[i]] ELSE next[s[j]]
                         /\ prev'[s[j]] = IF j = i + 1 THEN prev[s[i]] ELSE prev[s[j]]
                <5>1. s[j] # s[i] /\ (s[j] = prev[s[i]] <=> j = i - 1) /\ (s[j] = next[s[i]] <=> j = i + 1)
                    BY <1>5, <1>6, <1>9, <4>1 DEF Nth
                <5> QED
                    BY <1>5, <5>1 DEF Unlink
            <4> QED
                BY <4>1 DEF LinkOut
        <3>2. /\ EndsOut(head'[l], tail'[l], head[l], tail[l], next, prev, s, k, i)
              /\ len'[l] = k - 1
            BY <1>8, <1>9 DEF Unlink, TypeOK, EndsOut
        <3>3. Chain(r, k - 1, head'[l], tail'[l], next', prev')
            <4> PICK k2 : k2 = k - 1
                OBVIOUS
            <4>1. i \in 1..k
                OBVIOUS
            <4>2. Chain(r, k2, head'[l], tail'[l], next', prev')
                BY <1>1, <1>8, <3>1, <3>2, <4>1, ChainRemove
            <4> QED
                BY <4>2
        <3>4. Links(l, r)'
            BY <1>1, <3>2, <3>3, LinksAreChainNext
        <3> QED
            BY <1>2, <2>1, <3>4
    <2>2. CASE m # l
        <3> PICK s2 \in Seq(Nodes) : s2 = order[m]
            BY DEF TypeOK
        <3> PICK k2 \in Nat : k2 = Len(s2)
            OBVIOUS
        <3>1. len[m] = k2 /\ Chain(s2, k2, head[m], tail[m], next, prev)
            BY WholeList
        <3>2. ASSUME NEW j \in 1..k2, NEW a \in 1..k PROVE s2[j] # s[a]
            BY <1>4, <2>2, OneNodePerPlace
        <3>3. \A j \in 1..k2 : next'[s2[j]] = next[s2[j]] /\ prev'[s2[j]] = prev[s2[j]]
            BY <1>9, <3>2, SMTT(20) DEF Unlink, Nth
        <3>4. Chain(s2, k2, head[m], tail[m], next', prev')
            BY <3>1, <3>3, ChainKept DEF LinksKept
        <3>5. head'[m] = head[m] /\ tail'[m] = tail[m] /\ len'[m] = len[m]
            BY <2>2 DEF Unlink, TypeOK
        <3>6. Links(m, s2)'
            BY <3>1, <3>4, <3>5, LinksAreChainNext
        <3> QED
            BY <1>2, <2>2, <3>6
    <2> QED
        BY <2>1, <2>2
<1> QED
    BY <1>3, <1>7, <1>10 DEF WellLinked
LEMMA RotateKeeps ==
    ASSUME TypeOK, WellLinked, HeapExact, NEW l \in Lists, Rotate(l),
           \A m \in Lists : ~Emptying(m) /\ ~Emptying(m)'
    PROVE  WellLinked' /\ HeapExact' /\ order' \in [Lists -> Seq(Nodes)]
<1> USE AdListAssumption
<1> PICK s \in Seq(Nodes) : s = order[l]
    BY DEF TypeOK
<1> PICK k \in Nat : k = Len(s)
    OBVIOUS
<1> PICK r : r = <<Last(s)>> \o Front(s)
    OBVIOUS
<1>1. Chain(s, k, head[l], tail[l], next, prev) /\ len[l] = k
    BY WholeList
<1>2. k > 1
    BY <1>1 DEF Rotate
<1>3. r \in Seq(Nodes) /\ Len(r) = k /\ Turned(r, s, k)
    <2>1. Len(s) > 0
        BY <1>2
    <2> QED
        BY <2>1, Rotated
<1>4. order'[l] = r /\ \A m \in Lists \ {l} : order'[m] = order[m]
    BY DEF Rotate, TypeOK
<1>5. order' \in [Lists -> Seq(Nodes)]
    BY <1>3 DEF Rotate, TypeOK
<1>6. \A m \in Lists : Places(m) = 1..Len(order[m]) /\ Places(m)' = 1..Len(order'[m])
    BY DEF Places
<1>7. \A j \in 1..k : s[j] \in Nodes
    OBVIOUS
<1>8. ASSUME NEW a \in 1..k, NEW b \in 1..k, s[a] = s[b] PROVE a = b
    BY <1>6, <1>8, OneNodePerPlace
<1>9. HeapExact'
    <2> DEFINE P == [m \in Lists |-> Places(m)]
               P2 == [m \in Lists |-> Places(m)']
    <2>1. Owned(heap, order, P)
        BY HeapIsOwned
    <2>2. P2 = P /\ P[l] = 1..k
        BY <1>3, <1>4, <1>6
    <2>3. OthersKept(order', P, order, P, {l}) /\ Turned(order'[l], order[l], k)
        BY <1>3, <1>4 DEF OthersKept
    <2>4. heap' = heap
        BY DEF Rotate
    <2> HIDE DEF P, P2
    <2>5. Owned(heap', order', P2)
        BY <1>2, <2>1, <2>2, <2>3, <2>4, OwnedRotate
    <2> QED
        BY <2>5, HeapIsOwnedNext DEF P2
<1>10. head[l] = s[1] /\ tail[l] = s[k] /\ prev[s[k]] = s[k - 1]
    <2>1. 1 \in 1..k /\ k \in 1..k /\ k - 1 \in 1..k
        BY <1>2
    <2>2. /\ head[l] = Nth(s, k, 1) /\ tail[l] = Nth(s, k, k)
          /\ prev[s[k]] = Nth(s, k, k - 1)
        BY <1>1, <2>1 DEF Chain
    <2> QED
        BY <2>1, <2>2 DEF Nth
<1>11. ASSUME NEW m \in Lists PROVE Links(m, order[m])'
    <2>1. CASE m = l
        <3>1. LinkTurned(next', prev', next, prev, s, k)
            <4>1. ASSUME NEW j \in 1..k
                  PROVE  /\ next'[s[j]] = IF j = k THEN s[1] ELSE IF j = k - 1 THEN NULL ELSE next[s[j]]
                         /\ prev'[s[j]] = IF j = k THEN NULL ELSE IF j = 1 THEN s[k] ELSE prev[s[j]]
                <5>1. 1 \in 1..k /\ k \in 1..k /\ k - 1 \in 1..k
                    BY <1>2
                <5>2. /\ s[j] = s[k] <=> j = k
                      /\ s[j] = s[k - 1] <=> j = k - 1
                      /\ s[j] = s[1] <=> j = 1
                    BY <1>8, <5>1
                <5>3. s[j] \in Nodes /\ s[1] \in Nodes /\ s[k] \in Nodes /\ s[k - 1] \in Nodes
                    BY <1>7, <5>1
                <5>4. /\ next' = [next EXCEPT ![s[k - 1]] = NULL, ![s[k]] = s[1]]
                      /\ prev' = [prev EXCEPT ![s[1]] = s[k], ![s[k]] = NULL]
                    BY <1>10 DEF Rotate
                <5> QED
                    BY <5>2, <5>3, <5>4 DEF TypeOK
            <4> QED
                BY <4>1 DEF LinkTurned
        <3>2. head'[l] = tail[l] /\ tail'[l] = prev[tail[l]] /\ len'[l] = k
            BY <1>1 DEF Rotate, TypeOK
        <3>3. Chain(r, k, head'[l], tail'[l], next', prev')
            BY <1>1, <1>2, <1>3, <3>1, <3>2, ChainRotate
        <3>4. Links(l, r)'
            BY <1>3, <3>2, <3>3, LinksAreChainNext
        <3> QED
            BY <1>4, <2>1, <3>4
    <2>2. CASE m # l
        <3> PICK s2 \in Seq(Nodes) : s2 = order[m]
            BY DEF TypeOK
        <3> PICK k2 \in Nat : k2 = Len(s2)
            OBVIOUS
        <3>1. len[m] = k2 /\ Chain(s2, k2, head[m], tail[m], next, prev)
            BY WholeList
        <3>2. ASSUME NEW j \in 1..k2, NEW a \in 1..k PROVE s2[j] # s[a]
            BY <1>6, <2>2, OneNodePerPlace
        <3>3. ASSUME NEW j \in 1..k2
              PROVE  next'[s2[j]] = next[s2[j]] /\ prev'[s2[j]] = prev[s2[j]]
            <4>1. s2[j] # s[1] /\ s2[j] # s[k] /\ s2[j] # s[k - 1] /\ s2[j] \in Nodes
                BY <1>2, <3>2
            <4>2. /\ next' = [next EXCEPT ![s[k - 1]] = NULL, ![s[k]] = s[1]]
                  /\ prev' = [prev EXCEPT ![s[1]] = s[k], ![s[k]] = NULL]
                BY <1>10 DEF Rotate
            <4> QED
                BY <4>1, <4>2 DEF TypeOK
        <3>4. Chain(s2, k2, head[m], tail[m], next', prev')
            BY <3>1, <3>3, ChainKept DEF LinksKept
        <3>5. head'[m] = head[m] /\ tail'[m] = tail[m] /\ len'[m] = len[m]
            BY <2>2 DEF Rotate, TypeOK
        <3>6. Links(m, s2)'
            BY <3>1, <3>4, <3>5, LinksAreChainNext
        <3> QED
            BY <1>4, <2>2, <3>6
    <2> QED
        BY <2>1, <2>2
<1> QED
    BY <1>5, <1>9, <1>11 DEF WellLinked

LEMMA JoinKeeps ==
    ASSUME TypeOK, WellLinked, HeapExact, NEW l \in Lists, NEW o \in Lists, Join(l, o),
           \A m \in Lists : ~Emptying(m) /\ ~Emptying(m)'
    PROVE  WellLinked' /\ HeapExact' /\ order' \in [Lists -> Seq(Nodes)]
<1> USE AdListAssumption
<1> PICK s \in Seq(Nodes) : s = order[l]
    BY DEF TypeOK
<1> PICK u \in Seq(Nodes) : u = order[o]
    BY DEF TypeOK
<1>k. PICK k \in Nat : k = Len(s)
    OBVIOUS
<1>m. PICK k2 \in Nat : k2 = Len(u)
    OBVIOUS
<1>0. PICK r : r = s \o u
    OBVIOUS
<1>1. l # o
    BY DEF Join
<1>2. r \in Seq(Nodes) /\ Len(r) = k + k2 /\ Followed(r, s, k, u, k2)
    BY <1>k, <1>m, <1>0, Joined
<1>3. /\ order'[l] = r /\ order'[o] = <<>>
      /\ \A m \in Lists \ {l, o} : order'[m] = order[m]
    BY <1>0, <1>1 DEF Join, TypeOK
<1>4. order' \in [Lists -> Seq(Nodes)]
    <2>1. order' = [order EXCEPT ![l] = r, ![o] = <<>>] /\ <<>> \in Seq(Nodes)
        BY <1>0 DEF Join
    <2> QED
        BY <1>2, <2>1 DEF TypeOK
<1>5. \A m \in Lists : Places(m) = 1..Len(order[m]) /\ Places(m)' = 1..Len(order'[m])
    BY DEF Places
<1>6. /\ \A j \in 1..k : s[j] \in Nodes
      /\ \A j \in 1..k2 : u[j] \in Nodes
    BY <1>k, <1>m
<1>7. HeapExact'
    <2> DEFINE P == [m \in Lists |-> Places(m)]
               P2 == [m \in Lists |-> Places(m)']
    <2>1. Owned(heap, order, P)
        BY HeapIsOwned
    <2>2. /\ P[l] = 1..k /\ P[o] = 1..k2 /\ P2[l] = 1..k + k2
          /\ OthersKept(order', P2, order, P, {l, o})
        BY <1>k, <1>m, <1>2, <1>3, <1>5 DEF OthersKept
    <2>3. P2[o] = {}
        BY <1>3, <1>5
    <2>4. heap' = heap /\ Followed(order'[l], order[l], k, order[o], k2)
        BY <1>2, <1>3 DEF Join
    <2> HIDE DEF P, P2
    <2>5. Owned(heap', order', P2)
        BY <1>1, <2>1, <2>2, <2>3, <2>4, OwnedJoin
    <2> QED
        BY <2>5, HeapIsOwnedNext DEF P2
<1>8. /\ Chain(s, k, head[l], tail[l], next, prev) /\ len[l] = k
      /\ Chain(u, k2, head[o], tail[o], next, prev) /\ len[o] = k2
    BY <1>k, <1>m, WholeList
<1>9. /\ head[o] = Nth(u, k2, 1) /\ (head[o] = NULL <=> k2 = 0)
      /\ tail[l] = Nth(s, k, k) /\ (tail[l] = NULL <=> k = 0)
      /\ (tail[o] = NULL <=> k2 = 0)
    BY <1>6, <1>8 DEF Chain, Nth
<1>10. ASSUME NEW y \in Nodes
       PROVE  /\ next'[y] = IF k > 0 /\ y = s[k] THEN head[o] ELSE next[y]
              /\ prev'[y] = IF k2 > 0 /\ y = u[1] THEN tail[l] ELSE prev[y]
    BY <1>9, SMTT(20) DEF Join, TypeOK, Nth
<1>11. ASSUME NEW a \in Lists, NEW b \in Lists, NEW i \in 1..Len(order[a]), NEW j \in 1..Len(order[b]),
              order[a][i] = order[b][j]
       PROVE  a = b /\ i = j
    BY <1>5, <1>11, OneNodePerPlace
<1>12. ASSUME NEW m \in Lists PROVE Links(m, order[m])'
    <2>1. CASE m = l
        <3>1. LinkBoth(next', prev', next, prev, s, k, u, k2)
            <4>1. ASSUME NEW j \in 1..k
                  PROVE  /\ next'[s[j]] = IF j = k THEN Nth(u, k2, 1) ELSE next[s[j]]
                         /\ prev'[s[j]] = prev[s[j]]
                <5>1. s[j] = s[k] <=> j = k
                    BY <1>k, <1>m, <1>11
                <5>2. k2 > 0 => s[j] # u[1]
                    BY <1>k, <1>m, <1>1, <1>11
                <5> QED
                    BY <1>6, <1>9, <1>10, <5>1, <5>2
            <4>2. ASSUME NEW j \in 1..k2
                  PROVE  /\ next'[u[j]] = next[u[j]]
                         /\ prev'[u[j]] = IF j = 1 THEN Nth(s, k, k) ELSE prev[u[j]]
                <5>1. u[j] = u[1] <=> j = 1
                    BY <1>k, <1>m, <1>11
                <5>2. k > 0 => u[j] # s[k]
                    BY <1>k, <1>m, <1>1, <1>11
                <5> QED
                    BY <1>6, <1>9, <1>10, <5>1, <5>2
            <4> QED
                BY <4>1, <4>2 DEF LinkBoth
        <3>2. /\ EndsBoth(head'[l], tail'[l], head[l], tail[l], k, head[o], tail[o], k2)
              /\ len'[l] = k + k2
            BY <1>1, <1>8, <1>9 DEF Join, TypeOK, EndsBoth
        <3>3. Chain(r, k + k2, head'[l], tail'[l], next', prev')
            <4> PICK k3 \in Nat : k3 = k + k2
                OBVIOUS
            <4>1. Chain(r, k3, head'[l], tail'[l], next', prev')
                BY <1>2, <1>8, <3>1, <3>2, ChainJoin
            <4> QED
                BY <4>1
        <3>4. Links(l, r)'
            BY <1>2, <3>2, <3>3, LinksAreChainNext
        <3> QED
            BY <1>3, <2>1, <3>4
    <2>2. CASE m = o
        <3>1. len'[o] = 0 /\ head'[o] = NULL /\ tail'[o] = NULL
            BY <1>1 DEF Join, TypeOK
        <3> QED
            BY <1>3, <2>2, <3>1 DEF Links
    <2>3. CASE m \notin {l, o}
        <3> PICK s3 \in Seq(Nodes) : s3 = order[m]
            BY DEF TypeOK
        <3>k. PICK k3 \in Nat : k3 = Len(s3)
            OBVIOUS
        <3>1. len[m] = k3 /\ Chain(s3, k3, head[m], tail[m], next, prev)
            BY <3>k, WholeList
        <3>2. LinksKept(next', prev', next, prev, s3, k3)
            <4>1. ASSUME NEW j \in 1..k3
                  PROVE  next'[s3[j]] = next[s3[j]] /\ prev'[s3[j]] = prev[s3[j]]
                <5>1. s3[j] \in Nodes /\ (k > 0 => s3[j] # s[k]) /\ (k2 > 0 => s3[j] # u[1])
                    BY <1>k, <1>m, <3>k, <1>11, <2>3
                <5> QED
                    BY <1>10, <5>1
            <4> QED
                BY <4>1 DEF LinksKept
        <3>3. Chain(s3, k3, head[m], tail[m], next', prev')
            BY <3>1, <3>2, ChainKept
        <3>4. head'[m] = head[m] /\ tail'[m] = tail[m] /\ len'[m] = len[m]
            BY <2>3 DEF Join, TypeOK
        <3>5. Links(m, s3)'
            BY <3>k, <3>1, <3>3, <3>4, LinksAreChainNext
        <3> QED
            BY <1>3, <2>3, <3>5
    <2> QED
        BY <2>1, <2>2, <2>3
<1> QED
    BY <1>4, <1>7, <1>12 DEF WellLinked

-----------------------------------------------------------------------------
(* The calls without a loop.                                               *)

\* Between the calls nothing is said about a loop.
LEMMA NoLoop == ASSUME op' = "none" PROVE LoopInv' /\ AnswersRight'
BY DEF LoopInv, AnswersRight, LoopList, EmptyInv, IterInv, SearchInv, IndexInv, DupInv

LEMMA AtType == ASSUME NEW s \in Seq(Nodes), NEW c PROVE At(s, c) \in Pointer
BY DEF At, Nth, Pointer

\* What the types say about the pointers.
PointerTypes ==
    /\ head \in [Lists -> Pointer] /\ tail \in [Lists -> Pointer] /\ len \in [Lists -> Nat]
    /\ prev \in [Nodes -> Pointer \cup {Freed}] /\ next \in [Nodes -> Pointer \cup {Freed}]
    /\ heap \subseteq Nodes

LEMMA SplicedTypes ==
    ASSUME TypeOK, NEW l \in Lists, NEW i, NEW x \in Nodes, Spliced(l, i, x)
    PROVE  PointerTypes'
<1>1. /\ head \in [Lists -> Pointer] /\ tail \in [Lists -> Pointer] /\ len \in [Lists -> Nat]
      /\ prev \in [Nodes -> Pointer \cup {Freed}] /\ next \in [Nodes -> Pointer \cup {Freed}]
      /\ heap \subseteq Nodes /\ order[l] \in Seq(Nodes) /\ x \in Pointer
    BY DEF TypeOK, Pointer
<1>2. At(order[l], i) \in Pointer /\ At(order[l], i - 1) \in Pointer
    BY <1>1, AtType
<1>3. head' \in [Lists -> Pointer] /\ tail' \in [Lists -> Pointer]
    BY <1>1 DEF Spliced
<1>4. prev' \in [Nodes -> Pointer \cup {Freed}] /\ next' \in [Nodes -> Pointer \cup {Freed}]
    BY <1>1, <1>2 DEF Spliced
<1>5. len' \in [Lists -> Nat] /\ heap' \subseteq Nodes
    BY <1>1 DEF Spliced
<1> QED
    BY <1>3, <1>4, <1>5 DEF PointerTypes

LEMMA SplicedIdle ==
    ASSUME ListInv, op = "none", NEW l \in Lists, l \in alive,
           NEW i \in 1..Len(order[l]) + 1, NEW x \in Nodes \ heap, NEW v \in Values,
           Spliced(l, i, x), value' = [value EXCEPT ![x] = v], UNCHANGED <<alive, loop>>
    PROVE  ListInv'
<1>1. TypeOK /\ WellLinked /\ HeapExact /\ Unused
    BY DEF ListInv
<1>2. op' = "none" /\ \A m \in Lists : ~Emptying(m) /\ ~Emptying(m)'
    BY DEF loop, Emptying
<1>3. WellLinked' /\ HeapExact' /\ order' \in [Lists -> Seq(Nodes)]
    BY <1>1, <1>2, SplicedKeeps
<1>4. PointerTypes'
    BY <1>1, SplicedTypes
<1>5. TypeOK'
    BY <1>1, <1>3, <1>4 DEF TypeOK, PointerTypes, loop, Pointer
<1>6. Unused'
    BY <1>1 DEF Unused, Hidden, Emptying, loop, Spliced
<1> QED
    BY <1>2, <1>3, <1>5, <1>6, NoLoop DEF ListInv

LEMMA NewNodeSplices ==
    ASSUME ListInv, NEW l \in Lists, NEW x \in Nodes, NEW v \in Values, NewNode(l, x, v)
    PROVE  /\ op = "none" /\ l \in alive /\ x \notin heap /\ UNCHANGED <<alive, loop>>
           /\ value' = [value EXCEPT ![x] = v]
           /\ \E i \in 1..Len(order[l]) + 1 : Spliced(l, i, x)
<1>1. TypeOK /\ WellLinked /\ HeapExact
    BY DEF ListInv
<1>2. order[l] \in Seq(Nodes) /\ Len(order[l]) \in Nat
    BY <1>1 DEF TypeOK
<1>3. CASE AddNodeHead(l, x, v)
    <2>1. Spliced(l, 1, x)
        BY <1>1, <1>3, AddNodeHeadSplices
    <2>2. 1 \in 1..Len(order[l]) + 1
        BY <1>2
    <2> QED
        BY <1>3, <2>1, <2>2 DEF AddNodeHead, Idle
<1>4. CASE AddNodeTail(l, x, v)
    <2>1. Spliced(l, Len(order[l]) + 1, x)
        BY <1>1, <1>4, LinkTailSplices DEF AddNodeTail, Idle, Emptying
    <2>2. Len(order[l]) + 1 \in 1..Len(order[l]) + 1
        BY <1>2
    <2> QED
        BY <1>4, <2>1, <2>2 DEF AddNodeTail, LinkTail, Idle
<1>5. ASSUME NEW i \in 1..Len(order[l]), InsertAfter(l, i, x, v)
      PROVE  /\ op = "none" /\ l \in alive /\ x \notin heap /\ UNCHANGED <<alive, loop>>
             /\ value' = [value EXCEPT ![x] = v]
             /\ \E j \in 1..Len(order[l]) + 1 : Spliced(l, j, x)
    <2>1. Spliced(l, i + 1, x)
        BY <1>1, <1>5, InsertAfterSplices
    <2>2. i + 1 \in 1..Len(order[l]) + 1
        BY <1>2
    <2> QED
        BY <1>5, <2>1, <2>2 DEF InsertAfter, InsertAfterAs, Idle
<1>6. ASSUME NEW i \in 1..Len(order[l]), InsertBefore(l, i, x, v)
      PROVE  /\ op = "none" /\ l \in alive /\ x \notin heap /\ UNCHANGED <<alive, loop>>
             /\ value' = [value EXCEPT ![x] = v]
             /\ \E j \in 1..Len(order[l]) + 1 : Spliced(l, j, x)
    <2>1. Spliced(l, i, x)
        BY <1>1, <1>6, InsertBeforeSplices
    <2>2. i \in 1..Len(order[l]) + 1
        BY <1>2
    <2> QED
        BY <1>6, <2>1, <2>2 DEF InsertBefore, Idle
<1> QED
    BY <1>3, <1>4, <1>5, <1>6 DEF NewNode

LEMMA NewNodeInv ==
    ASSUME ListInv, NEW l \in Lists, NEW x \in Nodes, NEW v \in Values, NewNode(l, x, v)
    PROVE  ListInv'
BY NewNodeSplices, SplicedIdle

LEMMA CreateInv ==
    ASSUME ListInv, NEW l \in Lists, Create(l) PROVE ListInv'
<1>1. TypeOK /\ WellLinked /\ HeapExact /\ Unused
    BY DEF ListInv
<1>2. op' = "none" /\ \A m \in Lists : ~Emptying(m) /\ ~Emptying(m)' /\ ~Hidden(m) /\ ~Hidden(m)'
    BY DEF Create, loop, Emptying, Hidden
<1>3. order[l] = <<>> /\ order' = order
    BY <1>1, <1>2 DEF Unused, Create
<1>4. TypeOK'
    BY <1>1 DEF TypeOK, Create, nodes, loop, Pointer
<1>5. WellLinked'
    <2>1. ASSUME NEW m \in Lists PROVE Links(m, order[m])'
        <3>1. Links(m, order[m]) /\ Links(l, order[l])
            BY <1>1, <1>2 DEF WellLinked
        <3>2. next' = next /\ prev' = prev
            BY DEF Create, nodes
        <3>3. head'[m] = head[m] /\ tail'[m] = tail[m] /\ len'[m] = len[m]
            BY <1>1, <1>3, <3>1 DEF Create, TypeOK, Links
        <3> QED
            BY <1>3, <3>1, <3>2, <3>3 DEF Links
    <2> QED
        BY <2>1 DEF WellLinked
<1>6. HeapExact'
    BY <1>1, <1>2, <1>3 DEF HeapExact, Places, Create, nodes
<1>7. Unused'
    BY <1>1, <1>2, <1>3 DEF Unused, Create
<1> QED
    BY <1>2, <1>4, <1>5, <1>6, <1>7, NoLoop DEF ListInv

LEMMA UnlinkTypes ==
    ASSUME TypeOK, WellLinked, HeapExact, NEW l \in Lists, ~Emptying(l),
           NEW i \in 1..Len(order[l]), Unlink(l, order[l][i], i)
    PROVE  PointerTypes' /\ value' \in [Nodes -> Values \cup {Freed}]
<1> PICK s \in Seq(Nodes) : s = order[l]
    BY DEF TypeOK
<1>1. Links(l, s)
    BY DEF WellLinked
<1>2. s[i] \in Nodes /\ len[l] \in Nat /\ len[l] >= 1
    BY <1>1 DEF Links
<1>3. next[s[i]] \in Pointer /\ prev[s[i]] \in Pointer
    BY <1>1 DEF Links, Pointer
<1>4. /\ head \in [Lists -> Pointer] /\ tail \in [Lists -> Pointer] /\ len \in [Lists -> Nat]
      /\ prev \in [Nodes -> Pointer \cup {Freed}] /\ next \in [Nodes -> Pointer \cup {Freed}]
      /\ heap \subseteq Nodes /\ value \in [Nodes -> Values \cup {Freed}]
    BY DEF TypeOK
<1>5. head' \in [Lists -> Pointer] /\ tail' \in [Lists -> Pointer]
    BY <1>3, <1>4 DEF Unlink
<1>6. prev' \in [Nodes -> Pointer \cup {Freed}] /\ next' \in [Nodes -> Pointer \cup {Freed}]
    BY <1>3, <1>4 DEF Unlink
<1>7. len' \in [Lists -> Nat] /\ heap' \subseteq Nodes /\ value' \in [Nodes -> Values \cup {Freed}]
    BY <1>2, <1>4 DEF Unlink
<1> QED
    BY <1>5, <1>6, <1>7 DEF PointerTypes

LEMMA DelNodeInv ==
    ASSUME ListInv, NEW l \in Lists, NEW i \in 1..Len(order[l]), DelNode(l, i) PROVE ListInv'
<1>1. TypeOK /\ WellLinked /\ HeapExact /\ Unused
    BY DEF ListInv
<1>2. op' = "none" /\ \A m \in Lists : ~Emptying(m) /\ ~Emptying(m)' /\ ~Hidden(m) /\ ~Hidden(m)'
    BY DEF DelNode, Idle, loop, Emptying, Hidden
<1>3. Unlink(l, order[l][i], i) /\ l \in alive /\ UNCHANGED loop
    BY DEF DelNode, Idle
<1>4. WellLinked' /\ HeapExact' /\ order' \in [Lists -> Seq(Nodes)]
    BY <1>1, <1>2, <1>3, UnlinkKeeps
<1>5. PointerTypes' /\ value' \in [Nodes -> Values \cup {Freed}]
    BY <1>1, <1>2, <1>3, UnlinkTypes
<1>6. alive' = alive
    BY <1>3 DEF Unlink
<1>7. TypeOK'
    BY <1>1, <1>3, <1>4, <1>5, <1>6 DEF TypeOK, PointerTypes, loop, Pointer
<1>8. Unused'
    <2>1. \A m \in Lists : m # l => order'[m] = order[m]
        BY <1>1, <1>3 DEF Unlink, TypeOK
    <2> QED
        BY <1>1, <1>2, <1>3, <1>6, <2>1 DEF Unused
<1> QED
    BY <1>2, <1>4, <1>7, <1>8, NoLoop DEF ListInv

LEMMA RotateInv ==
    ASSUME ListInv, NEW l \in Lists, Rotate(l) PROVE ListInv'
<1>1. TypeOK /\ WellLinked /\ HeapExact /\ Unused
    BY DEF ListInv
<1>2. op' = "none" /\ \A m \in Lists : ~Emptying(m) /\ ~Emptying(m)' /\ ~Hidden(m) /\ ~Hidden(m)'
    BY DEF Rotate, Idle, loop, Emptying, Hidden
<1>3. WellLinked' /\ HeapExact' /\ order' \in [Lists -> Seq(Nodes)]
    BY <1>1, <1>2, RotateKeeps
<1>4. prev[tail[l]] \in Pointer
    <2> PICK s \in Seq(Nodes) : s = order[l]
        BY <1>1 DEF TypeOK
    <2>1. Links(l, s)
        BY <1>1, <1>2 DEF WellLinked
    <2> PICK k \in Nat : k = Len(s)
        OBVIOUS
    <2>2. k > 1
        BY <2>1 DEF Rotate, Links
    <2>3. s # <<>> /\ \A j \in 1..k : s[j] \in Nodes
        BY <2>2
    <2>4. prev[s[k]] = s[k - 1] /\ tail[l] = s[k] /\ k - 1 \in 1..k
        BY <2>1, <2>2, <2>3 DEF Links
    <2> QED
        BY <2>3, <2>4 DEF Pointer
<1>5. PointerTypes'
    BY <1>1, <1>4 DEF TypeOK, PointerTypes, Rotate, Pointer
<1>6. TypeOK'
    BY <1>1, <1>3, <1>5 DEF TypeOK, PointerTypes, Rotate, loop, Pointer
<1>7. Unused'
    <2>1. \A m \in Lists : m # l => order'[m] = order[m]
        BY <1>1 DEF Rotate, TypeOK
    <2> QED
        BY <1>1, <1>2, <2>1 DEF Unused, Rotate, Idle
<1> QED
    BY <1>2, <1>3, <1>6, <1>7, NoLoop DEF ListInv

LEMMA JoinInv ==
    ASSUME ListInv, NEW l \in Lists, NEW o \in Lists, Join(l, o) PROVE ListInv'
<1>1. TypeOK /\ WellLinked /\ HeapExact /\ Unused
    BY DEF ListInv
<1>2. op' = "none" /\ \A m \in Lists : ~Emptying(m) /\ ~Emptying(m)' /\ ~Hidden(m) /\ ~Hidden(m)'
    BY DEF Join, Idle, loop, Emptying, Hidden
<1>3. WellLinked' /\ HeapExact' /\ order' \in [Lists -> Seq(Nodes)]
    BY <1>1, <1>2, JoinKeeps
<1>4. PointerTypes'
    <2>1. /\ head \in [Lists -> Pointer] /\ tail \in [Lists -> Pointer] /\ len \in [Lists -> Nat]
          /\ prev \in [Nodes -> Pointer \cup {Freed}] /\ next \in [Nodes -> Pointer \cup {Freed}]
          /\ heap \subseteq Nodes /\ NULL \in Pointer
        BY <1>1 DEF TypeOK, Pointer
    <2>2. prev' \in [Nodes -> Pointer \cup {Freed}] /\ next' \in [Nodes -> Pointer \cup {Freed}]
        BY <2>1 DEF Join
    <2>3. head' \in [Lists -> Pointer] /\ tail' \in [Lists -> Pointer]
        BY <2>1 DEF Join
    <2>4. len' \in [Lists -> Nat] /\ heap' \subseteq Nodes
        BY <2>1 DEF Join
    <2> QED
        BY <2>2, <2>3, <2>4 DEF PointerTypes
<1>5. TypeOK'
    BY <1>1, <1>3, <1>4 DEF TypeOK, PointerTypes, Join, loop, Pointer
<1>6. Unused'
    <2>1. \A m \in Lists : m \notin {l, o} => order'[m] = order[m]
        BY <1>1 DEF Join, TypeOK
    <2> QED
        BY <1>1, <1>2, <2>1 DEF Unused, Join, Idle
<1> QED
    BY <1>2, <1>3, <1>5, <1>6, NoLoop DEF ListInv

-----------------------------------------------------------------------------
(* What a turn of each loop does to the place it has reached.              *)

\* The k elements of s are different; b2 is b of q elements with c added; the
\* first of k nodes with the value v.
Distinct(s, k) == \A x, y \in 1..k : s[x] = s[y] => x = y
Extended(b2, b, q, c) == b2[q + 1] = c /\ \A i \in 1..q : b2[i] = b[i]
FirstHit(s, k, val, v) ==
    LET hits == {i \in 1..k : val[s[i]] = v} IN IF hits = {} THEN NULL ELSE s[Min(hits)]

\* listNext from the head.
LEMMA ForwardNext ==
    ASSUME NEW s, NEW k \in Nat, NEW a, NEW p \in Nat, NEW b, NEW q \in Nat, NEW c, NEW r,
           NEW h, NEW t, NEW nx, NEW pv, NEW b2, NEW q2, NEW c2,
           Chain(s, k, h, t, nx, pv), Forward(s, k, a, p, b, q, c, r), c # NULL,
           q2 = q + 1, c2 = nx[c], Extended(b2, b, q, c)
    PROVE  Forward(s, k, a, p, b2, q2, c2, c)
<1> USE DEF Extended
<1>1. q + 1 \in 1..p /\ c = a[q + 1]
    BY DEF Forward, Nth
<1> PICK m \in Nat : m = p - q
    BY <1>1
<1>2. m > 0 /\ m <= k /\ p - q2 = m - 1 /\ q2 <= p
    BY <1>1 DEF Forward
<1>3. ASSUME NEW i \in 1..m PROVE s[k - m + i] = a[q + i]
    BY DEF Forward
<1>4. k - m + 1 \in 1..k /\ s[k - m + 1] = c
    BY <1>1, <1>2, <1>3
<1>5. c2 = Nth(a, p, q2 + 1)
    <2>1. nx[s[k - m + 1]] = Nth(s, k, k - m + 1 + 1)
        BY <1>4 DEF Chain
    <2>2. CASE m = 1
        <3>1. ~(k - m + 1 + 1 \in 1..k) /\ ~(q2 + 1 \in 1..p)
            BY <1>1, <2>2
        <3> QED
            BY <1>4, <2>1, <3>1 DEF Nth
    <2>3. CASE m # 1
        <3>1. k - m + 1 + 1 \in 1..k /\ q2 + 1 \in 1..p
            BY <1>1, <1>2, <2>3
        <3>2. s[k - m + 1 + 1] = a[q2 + 1]
            <4>1. 2 \in 1..m /\ k - m + 1 + 1 = k - m + 2 /\ q2 + 1 = q + 2
                BY <1>2, <2>3
            <4> QED
                BY <1>3, <4>1
        <3> QED
            BY <1>4, <2>1, <3>1, <3>2 DEF Nth
    <2> QED
        BY <2>2, <2>3
<1>6. ASSUME NEW i \in 1..q2 PROVE b2[i] = a[i]
    BY <1>1 DEF Forward
<1>7. ASSUME NEW i \in 1..m - 1 PROVE s[k - (m - 1) + i] = a[q2 + i]
    <2>1. i + 1 \in 1..m /\ k - (m - 1) + i = k - m + (i + 1) /\ q2 + i = q + (i + 1)
        BY <1>2
    <2> QED
        BY <1>3, <2>1
<1>8. k > m - 1 /\ s[k - (m - 1)] = c
    BY <1>2, <1>4
<1> QED
    BY <1>2, <1>5, <1>6, <1>7, <1>8 DEF Forward

\* listNext from the tail.
LEMMA BackwardNext ==
    ASSUME NEW s, NEW k \in Nat, NEW a, NEW p \in Nat, NEW b, NEW q \in Nat, NEW c, NEW r,
           NEW h, NEW t, NEW nx, NEW pv, NEW b2, NEW q2, NEW c2,
           Chain(s, k, h, t, nx, pv), Backward(s, k, a, p, b, q, c, r), c # NULL,
           q2 = q + 1, c2 = pv[c], Extended(b2, b, q, c)
    PROVE  Backward(s, k, a, p, b2, q2, c2, c)
<1> USE DEF Extended
<1>1. p - q \in 1..p /\ c = a[p - q]
    BY DEF Backward, Nth
<1> PICK m \in Nat : m = p - q
    BY <1>1
<1>2. m > 0 /\ m <= k /\ p - q2 = m - 1 /\ q2 <= p
    BY <1>1 DEF Backward
<1>3. ASSUME NEW i \in 1..m PROVE s[i] = a[i]
    BY DEF Backward
<1>4. m \in 1..k /\ m \in 1..m /\ s[m] = c
    BY <1>1, <1>2, <1>3
<1>5. c2 = Nth(a, p, m - 1)
    <2>1. pv[s[m]] = Nth(s, k, m - 1)
        BY <1>4 DEF Chain
    <2> QED
        BY <1>1, <1>2, <1>3, <1>4, <2>1 DEF Nth
<1>6. ASSUME NEW i \in 1..q2 PROVE b2[i] = a[p - i + 1]
    <2>1. CASE i = q + 1
        <3>1. p - i + 1 = p - q
            BY <2>1
        <3> QED
            BY <1>1, <2>1, <3>1
    <2>2. CASE i # q + 1
        BY <2>2 DEF Backward
    <2> QED
        BY <2>1, <2>2
<1>7. ASSUME NEW i \in 1..m - 1 PROVE s[i] = a[i]
    BY <1>3
<1>8. k > m - 1 /\ s[m - 1 + 1] = c
    BY <1>2, <1>4
<1> QED
    BY <1>2, <1>5, <1>6, <1>7, <1>8 DEF Backward

\* The node returned last is removed: it is the one in front of what is to come.
LEMMA ForwardDel ==
    ASSUME NEW s, NEW k \in Nat, NEW a, NEW p \in Nat, NEW b, NEW q \in Nat, NEW c, NEW r,
           Forward(s, k, a, p, b, q, c, r), r # NULL,
           NEW i \in 1..k, s[i] = r, Distinct(s, k),
           NEW s2, NEW k2, Without(s2, s, k, i), k2 = k - 1
    PROVE  Forward(s2, k2, a, p, b, q, c, NULL)
<1> PICK m \in Nat : m = p - q
    BY DEF Forward
<1>1. k > m /\ s[k - m] = r /\ k - m \in 1..k
    BY DEF Forward
<1>2. i = k - m
    BY <1>1 DEF Distinct
<1>3. ASSUME NEW j \in 1..m PROVE s2[k2 - m + j] = a[q + j]
    <2>1. /\ k2 - m + j \in 1..k - 1 /\ ~(k2 - m + j < i)
          /\ k2 - m + j + 1 = k - m + j
        BY <1>1, <1>2
    <2>2. s2[k2 - m + j] = s[k - m + j]
        BY <2>1 DEF Without
    <2> QED
        BY <2>2 DEF Forward
<1>4. m <= k2
    BY <1>1
<1> QED
    BY <1>3, <1>4 DEF Forward

LEMMA BackwardDel ==
    ASSUME NEW s, NEW k \in Nat, NEW a, NEW p \in Nat, NEW b, NEW q \in Nat, NEW c, NEW r,
           Backward(s, k, a, p, b, q, c, r), r # NULL,
           NEW i \in 1..k, s[i] = r, Distinct(s, k),
           NEW s2, NEW k2, Without(s2, s, k, i), k2 = k - 1
    PROVE  Backward(s2, k2, a, p, b, q, c, NULL)
<1> PICK m \in Nat : m = p - q
    BY DEF Backward
<1>1. k > m /\ s[m + 1] = r /\ m + 1 \in 1..k
    BY DEF Backward
<1>2. i = m + 1
    BY <1>1 DEF Distinct
<1>3. ASSUME NEW j \in 1..m PROVE s2[j] = a[j]
    <2>1. j \in 1..k - 1 /\ j < i
        BY <1>1, <1>2
    <2>2. s2[j] = s[j]
        BY <2>1 DEF Without
    <2> QED
        BY <2>2 DEF Backward
<1>4. m <= k2
    BY <1>1
<1> QED
    BY <1>3, <1>4 DEF Backward

\* listSearchKey goes on to the next node.
LEMMA SearchedNext ==
    ASSUME NEW s, NEW k \in Nat, NEW val, NEW v, NEW c, NEW c2,
           NEW h, NEW t, NEW nx, NEW pv, Chain(s, k, h, t, nx, pv),
           Searched(s, k, val, v, c), c # NULL, val[c] # v, c2 = nx[c]
    PROVE  Searched(s, k, val, v, c2)
<1>1. PICK j \in 1..k + 1 : c = Nth(s, k, j) /\ \A i \in 1..j - 1 : val[s[i]] # v
    BY DEF Searched
<1>2. j \in 1..k /\ c = s[j]
    BY <1>1 DEF Nth
<1>3. j + 1 \in 1..k + 1 /\ c2 = Nth(s, k, j + 1)
    BY <1>2 DEF Chain
<1>4. \A i \in 1..j + 1 - 1 : val[s[i]] # v
    BY <1>1, <1>2
<1> QED
    BY <1>3, <1>4 DEF Searched

\* listSearchKey ends with the first match, or without one.
LEMMA SearchedEnd ==
    ASSUME NEW s, NEW k \in Nat, NEW val, NEW v, NEW c, \A i \in 1..k : s[i] # NULL,
           Searched(s, k, val, v, c), c = NULL \/ val[c] = v
    PROVE  c = FirstHit(s, k, val, v)
<1> DEFINE hits == {i \in 1..k : val[s[i]] = v}
<1>1. PICK j \in 1..k + 1 : c = Nth(s, k, j) /\ \A i \in 1..j - 1 : val[s[i]] # v
    BY DEF Searched
<1>2. CASE c = NULL
    <2>1. j = k + 1
        BY <1>1, <1>2 DEF Nth
    <2>2. hits = {}
        BY <1>1, <2>1
    <2> QED
        BY <1>2, <2>2 DEF FirstHit
<1>3. CASE c # NULL
    <2>1. j \in 1..k /\ c = s[j]
        BY <1>1, <1>3 DEF Nth
    <2>2. j \in hits /\ \A i \in hits : j <= i
        BY <1>1, <1>3, <2>1
    <2>3. \A i \in hits : i \in Int
        OBVIOUS
    <2> HIDE DEF hits
    <2>4. Min(hits) \in hits /\ \A i \in hits : Min(hits) <= i
        BY <2>2 DEF Min
    <2>5. Min(hits) = j
        <3>1. PICK m : m = Min(hits)
            OBVIOUS
        <3>2. m \in Int /\ j \in Int /\ m <= j /\ j <= m
            BY <2>2, <2>3, <2>4, <3>1
        <3>3. m = j
            BY <3>2
        <3> QED
            BY <3>1, <3>3
    <2> QED
        BY <2>1, <2>2, <2>5 DEF hits, FirstHit
<1> QED
    BY <1>2, <1>3

\* listIndex goes one node further.
LEMMA IndexedNext ==
    ASSUME NEW s, NEW k \in Nat, NEW i \in Int, NEW cnt \in Nat, NEW c, NEW c2, NEW cnt2,
           NEW h, NEW t, NEW nx, NEW pv, Chain(s, k, h, t, nx, pv),
           Indexed(s, k, i, cnt, c), c # NULL, cnt # 0, cnt2 = cnt - 1,
           c2 = IF i < 0 THEN pv[c] ELSE nx[c]
    PROVE  Indexed(s, k, i, cnt2, c2)
<1>1. CASE i < 0
    <2> PICK j \in Int : j = k + i + 1 + cnt
        OBVIOUS
    <2>1. j \in 1..k /\ c = s[j]
        BY <1>1 DEF Indexed, Nth
    <2>2. c2 = Nth(s, k, j - 1) /\ j - 1 \in 0..k /\ k + i + 1 + cnt2 = j - 1
        BY <1>1, <2>1 DEF Chain
    <2> QED
        BY <1>1, <2>2 DEF Indexed
<1>2. CASE ~(i < 0)
    <2> PICK j \in Int : j = i + 1 - cnt
        OBVIOUS
    <2>1. j \in 1..k /\ c = s[j]
        BY <1>2 DEF Indexed, Nth
    <2>2. c2 = Nth(s, k, j + 1) /\ j + 1 \in 1..k + 1 /\ i + 1 - cnt2 = j + 1
        BY <1>2, <2>1 DEF Chain
    <2> QED
        BY <1>2, <2>2 DEF Indexed
<1> QED
    BY <1>1, <1>2

\* listIndex ends at the node asked for, or beyond the list.
LEMMA IndexedEnd ==
    ASSUME NEW s, NEW k \in Nat, NEW i \in Int, NEW cnt \in Nat, NEW c, \A j \in 1..k : s[j] # NULL,
           Indexed(s, k, i, cnt, c), cnt = 0 \/ c = NULL
    PROVE  LET j == IF i < 0 THEN k + i + 1 ELSE i + 1
           IN  c = IF j \in 1..k THEN s[j] ELSE NULL
<1>1. CASE i < 0 /\ cnt = 0
    BY <1>1 DEF Indexed, Nth
<1>2. CASE ~(i < 0) /\ cnt = 0
    BY <1>2 DEF Indexed, Nth
<1>3. CASE i < 0 /\ c = NULL
    <2>1. k + i + 1 + cnt = 0
        BY <1>3 DEF Indexed, Nth
    <2> QED
        BY <1>3, <2>1
<1>4. CASE ~(i < 0) /\ c = NULL
    <2>1. i + 1 - cnt = k + 1
        BY <1>4 DEF Indexed, Nth
    <2> QED
        BY <1>4, <2>1
<1> QED
    BY <1>1, <1>2, <1>3, <1>4

-----------------------------------------------------------------------------
(* The loops start.                                                        *)

\* A step that moves no node.
LEMMA QuietKeeps ==
    ASSUME TypeOK, WellLinked, HeapExact, UNCHANGED <<head, tail, len, nodes, order>>,
           \A m \in Lists : ~Emptying(m) /\ ~Emptying(m)'
    PROVE  WellLinked' /\ HeapExact'
<1>1. \A m \in Lists : Places(m)' = Places(m)
    BY DEF Places
<1>2. HeapExact'
    BY <1>1 DEF HeapExact, nodes
<1>3. ASSUME NEW m \in Lists PROVE Links(m, order[m])'
    <2>1. Links(m, order[m])
        BY DEF WellLinked
    <2> QED
        BY <2>1 DEF Links, nodes
<1> QED
    BY <1>2, <1>3 DEF WellLinked

\* What every loop starts with.
LEMMA BeginTypes ==
    ASSUME ListInv, NEW l \in Lists, l \in alive,
           NEW o \in {"empty", "release", "iter", "search", "index", "dup"}, NEW a, NEW c, NEW k,
           a \in [l : Lists \cup {NULL}, o : Lists \cup {NULL}, dir : {"head", "tail"},
                  v : Values \cup {NULL}, i : -MaxIndex..MaxIndex],
           a.l = l, c \in Pointer, k \in Nat, Begin(o, a, c, k)
    PROVE  /\ TypeOK' /\ LoopList' /\ Unused'
           /\ ask'.l = l /\ start' = order[l] /\ seen' = <<>> /\ res' = NULL /\ cur' = c /\ n' = k
           /\ op' = o /\ ask' = a /\ order' = order /\ next' = next /\ value' = value /\ alive' = alive
<1>1. TypeOK /\ Unused
    BY DEF ListInv
<1>2. /\ ask'.l = l /\ start' = order[l] /\ seen' = <<>> /\ res' = NULL /\ cur' = c /\ n' = k
      /\ op' = o /\ ask' = a /\ order' = order /\ next' = next /\ value' = value /\ alive' = alive
      /\ op = "none" /\ UNCHANGED <<lists, nodes>>
    BY DEF Begin, lists, nodes
<1>3. order[l] \in Seq(Nodes) /\ <<>> \in Seq(Nodes) /\ NULL \in Pointer
    BY <1>1 DEF TypeOK, Pointer
<1>4. TypeOK'
    BY <1>1, <1>2, <1>3 DEF TypeOK, lists, nodes, Pointer
<1>5. LoopList'
    BY <1>2 DEF LoopList
<1>6. Unused'
    BY <1>1, <1>2 DEF Unused, Hidden, Emptying
<1> QED
    BY <1>2, <1>4, <1>5, <1>6

LEMMA NoAskType ==
    NoAsk \in [l : Lists \cup {NULL}, o : Lists \cup {NULL}, dir : {"head", "tail"},
               v : Values \cup {NULL}, i : -MaxIndex..MaxIndex]
BY AdListAssumption DEF NoAsk

\* A list between the calls.
LEMMA IdleList ==
    ASSUME ListInv, op = "none", NEW l \in Lists
    PROVE  /\ order[l] \in Seq(Nodes) /\ Len(order[l]) \in Nat /\ len[l] = Len(order[l])
           /\ head[l] = At(order[l], 1) /\ tail[l] = At(order[l], Len(order[l]))
           /\ head[l] \in Pointer /\ tail[l] \in Pointer
           /\ Chain(order[l], Len(order[l]), head[l], tail[l], next, prev)
<1>1. TypeOK /\ WellLinked /\ ~Emptying(l)
    BY DEF ListInv, Emptying
<1>2. /\ order[l] \in Seq(Nodes) /\ Len(order[l]) \in Nat /\ len[l] = Len(order[l])
      /\ Chain(order[l], Len(order[l]), head[l], tail[l], next, prev)
    BY <1>1, WholeList
<1> QED
    BY <1>1, <1>2 DEF Chain, At, TypeOK

LEMMA BeginIterInv ==
    ASSUME ListInv, NEW l \in Lists, NEW d \in {"head", "tail"}, BeginIter(l, d) PROVE ListInv'
<1> DEFINE a == [NoAsk EXCEPT !.l = l, !.dir = d]
           c == IF d = "head" THEN head[l] ELSE tail[l]
<1>1. op = "none" /\ l \in alive /\ Begin("iter", a, c, 0)
    BY DEF BeginIter, Begin
<1>2. /\ a \in [l : Lists \cup {NULL}, o : Lists \cup {NULL}, dir : {"head", "tail"},
                v : Values \cup {NULL}, i : -MaxIndex..MaxIndex]
      /\ a.l = l /\ a.dir = d
    BY NoAskType DEF NoAsk
<1> PICK s \in Seq(Nodes) : s = order[l]
    BY <1>1, IdleList
<1>k. PICK k \in Nat : k = Len(s)
    OBVIOUS
<1>3. c \in Pointer /\ c = IF d = "head" THEN Nth(s, k, 1) ELSE Nth(s, k, k)
    BY <1>1, <1>k, IdleList DEF At
<1> HIDE DEF a, c
<1>4. /\ TypeOK' /\ LoopList' /\ Unused'
      /\ ask'.l = l /\ start' = order[l] /\ seen' = <<>> /\ res' = NULL /\ cur' = c
      /\ op' = "iter" /\ ask' = a /\ order' = order
    BY <1>1, <1>2, <1>3, BeginTypes
<1>5. WellLinked' /\ HeapExact'
    BY <1>1, <1>4, QuietKeeps DEF Begin, lists, ListInv, Emptying
<1>6. d = "head" => Forward(s, k, s, k, <<>>, 0, c, NULL)
    BY <1>3 DEF Forward
<1>7. d = "tail" => Backward(s, k, s, k, <<>>, 0, c, NULL)
    BY <1>3 DEF Backward
<1>8. IterInv'
    <2>1. order'[ask'.l] = s /\ start' = s /\ Len(seen') = 0 /\ Len(s) = k
        BY <1>4, <1>k
    <2> QED
        BY <1>2, <1>4, <1>6, <1>7, <2>1 DEF IterInv
<1> QED
    BY <1>4, <1>5, <1>8 DEF ListInv, LoopInv, EmptyInv, SearchInv, IndexInv, DupInv, AnswersRight

LEMMA BeginSearchInv ==
    ASSUME ListInv, NEW l \in Lists, NEW v \in Values, BeginSearch(l, v) PROVE ListInv'
<1> DEFINE a == [NoAsk EXCEPT !.l = l, !.v = v]
<1>1. op = "none" /\ l \in alive /\ Begin("search", a, head[l], 0)
    BY DEF BeginSearch, Begin
<1>2. /\ a \in [l : Lists \cup {NULL}, o : Lists \cup {NULL}, dir : {"head", "tail"},
                v : Values \cup {NULL}, i : -MaxIndex..MaxIndex]
      /\ a.l = l
    BY NoAskType DEF NoAsk
<1> PICK s \in Seq(Nodes) : s = order[l]
    BY <1>1, IdleList
<1>k. PICK k \in Nat : k = Len(s)
    OBVIOUS
<1>3. head[l] \in Pointer /\ head[l] = Nth(s, k, 1)
    BY <1>1, <1>k, IdleList DEF At
<1> HIDE DEF a
<1>4. /\ TypeOK' /\ LoopList' /\ Unused'
      /\ ask'.l = l /\ cur' = head[l]
      /\ op' = "search" /\ ask' = a /\ order' = order
    BY <1>1, <1>2, <1>3, BeginTypes
<1>5. WellLinked' /\ HeapExact'
    BY <1>1, <1>4, QuietKeeps DEF Begin, lists, ListInv, Emptying
<1>6. Searched(s, k, value', ask'.v, cur')
    <2>1. 1 \in 1..k + 1 /\ cur' = Nth(s, k, 1) /\ \A i \in 1..1 - 1 : value'[s[i]] # ask'.v
        BY <1>3, <1>4
    <2> QED
        BY <2>1 DEF Searched
<1>7. SearchInv'
    BY <1>4, <1>6, <1>k DEF SearchInv
<1> QED
    BY <1>4, <1>5, <1>7 DEF ListInv, LoopInv, EmptyInv, IterInv, IndexInv, DupInv, AnswersRight

LEMMA BeginIndexInv ==
    ASSUME ListInv, NEW l \in Lists, NEW i \in -MaxIndex..MaxIndex, BeginIndex(l, i) PROVE ListInv'
<1> DEFINE a == [NoAsk EXCEPT !.l = l, !.i = i, !.dir = IF i < 0 THEN "tail" ELSE "head"]
           c == IF i < 0 THEN tail[l] ELSE head[l]
           cnt == IF i < 0 THEN -i - 1 ELSE i
<1>0. MaxIndex \in Nat /\ i \in Int
    BY AdListAssumption
<1>1. op = "none" /\ l \in alive /\ Begin("index", a, c, cnt)
    BY DEF BeginIndex, Begin
<1>2. /\ a \in [l : Lists \cup {NULL}, o : Lists \cup {NULL}, dir : {"head", "tail"},
                v : Values \cup {NULL}, i : -MaxIndex..MaxIndex]
      /\ a.l = l /\ a.i = i /\ a.dir = IF i < 0 THEN "tail" ELSE "head"
    BY NoAskType DEF NoAsk
<1> PICK s \in Seq(Nodes) : s = order[l]
    BY <1>1, IdleList
<1>k. PICK k \in Nat : k = Len(s)
    OBVIOUS
<1>3. c \in Pointer /\ c = IF i < 0 THEN Nth(s, k, k) ELSE Nth(s, k, 1)
    BY <1>1, <1>k, IdleList DEF At
<1>4. cnt \in Nat /\ (i < 0 => k + i + 1 + cnt = k) /\ (~(i < 0) => i + 1 - cnt = 1)
    BY <1>0
<1> HIDE DEF a, c, cnt
<1>5. /\ TypeOK' /\ LoopList' /\ Unused'
      /\ ask'.l = l /\ cur' = c /\ n' = cnt
      /\ op' = "index" /\ ask' = a /\ order' = order
    BY <1>1, <1>2, <1>3, <1>4, BeginTypes
<1>6. WellLinked' /\ HeapExact'
    BY <1>1, <1>5, QuietKeeps DEF Begin, lists, ListInv, Emptying
<1>7. Indexed(s, k, i, cnt, c)
    BY <1>0, <1>3, <1>4 DEF Indexed
<1>8. IndexInv'
    BY <1>2, <1>5, <1>7, <1>k DEF IndexInv
<1> QED
    BY <1>5, <1>6, <1>8 DEF ListInv, LoopInv, EmptyInv, IterInv, SearchInv, DupInv, AnswersRight

LEMMA BeginDupInv ==
    ASSUME ListInv, NEW l \in Lists, NEW o \in Lists, BeginDup(l, o) PROVE ListInv'
<1> DEFINE a == [NoAsk EXCEPT !.l = l, !.o = o]
<1>1. op = "none" /\ l \in alive /\ o \notin alive /\ Begin("dup", a, head[l], 0)
    BY DEF BeginDup, Begin
<1>2. /\ a \in [l : Lists \cup {NULL}, o : Lists \cup {NULL}, dir : {"head", "tail"},
                v : Values \cup {NULL}, i : -MaxIndex..MaxIndex]
      /\ a.l = l /\ a.o = o
    BY NoAskType DEF NoAsk
<1> PICK s \in Seq(Nodes) : s = order[l]
    BY <1>1, IdleList
<1>k. PICK k \in Nat : k = Len(s)
    OBVIOUS
<1>3. head[l] \in Pointer /\ head[l] = Nth(s, k, 1)
    BY <1>1, <1>k, IdleList DEF At
<1>4. order[o] = <<>>
    BY <1>1 DEF ListInv, Unused, Hidden, Emptying
<1> HIDE DEF a
<1>5. /\ TypeOK' /\ LoopList' /\ Unused'
      /\ ask'.l = l /\ cur' = head[l] /\ seen' = <<>>
      /\ op' = "dup" /\ ask' = a /\ order' = order /\ alive' = alive
    BY <1>1, <1>2, <1>3, BeginTypes
<1>6. WellLinked' /\ HeapExact'
    BY <1>1, <1>5, QuietKeeps DEF Begin, lists, ListInv, Emptying
<1>7. Copied(s, k, <<>>, 0, value', cur')
    BY <1>3, <1>5 DEF Copied
<1>8. DupInv'
    <2>1. ask'.o = o /\ order'[ask'.o] = <<>> /\ Len(order'[ask'.o]) = 0 /\ order'[ask'.l] = s
        BY <1>2, <1>4, <1>5
    <2> QED
        BY <1>1, <1>5, <1>7, <1>k, <2>1 DEF DupInv
<1> QED
    BY <1>5, <1>6, <1>8 DEF ListInv, LoopInv, EmptyInv, IterInv, SearchInv, IndexInv, AnswersRight

\* listEmpty and listRelease start, also for the copy that listDup gives up.
LEMMA StartEmpty ==
    ASSUME TypeOK, WellLinked, HeapExact, op \notin {"empty", "release"},
           UNCHANGED <<head, tail, len, nodes, order>>,
           NEW l \in Lists, op' \in {"empty", "release"}, ask'.l = l, seen' = <<>>,
           cur' = head[l], n' = len[l]
    PROVE  WellLinked' /\ HeapExact' /\ EmptyInv'
<1> PICK s \in Seq(Nodes) : s = order[l]
    BY DEF TypeOK
<1>k. PICK k \in Nat : k = Len(s)
    OBVIOUS
<1>1. \A m \in Lists : ~Emptying(m)
    BY DEF Emptying
<1>2. ASSUME NEW m \in Lists PROVE Links(m, order[m])'
    <2>1. Links(m, order[m])
        BY <1>1 DEF WellLinked
    <2> QED
        BY <2>1 DEF Links, nodes
<1>3. \A m \in Lists : Places(m) = 1..Len(order[m]) /\ Places(m)' = 1..Len(order'[m])
    <2>1. Len(seen') = 0
        OBVIOUS
    <2> QED
        BY <1>1, <2>1 DEF Places
<1>4. HeapExact'
    BY <1>3 DEF HeapExact, nodes
<1>5. len[l] = k /\ Chain(s, k, head[l], tail[l], next, prev)
    BY <1>1, <1>k, WholeList
<1>6. Emptied(s, k, 0, n', cur', next')
    BY <1>5 DEF Emptied, Chain, nodes
<1>7. EmptyInv'
    <2>1. order'[ask'.l] = s /\ Len(seen') = 0
        OBVIOUS
    <2> QED
        BY <1>k, <1>6, <2>1 DEF EmptyInv
<1> QED
    BY <1>2, <1>4, <1>7 DEF WellLinked

LEMMA BeginEmptyInv ==
    ASSUME ListInv, NEW l \in Lists, NEW o \in {"empty", "release"}, BeginEmpty(l, o) PROVE ListInv'
<1> DEFINE a == [NoAsk EXCEPT !.l = l]
<1>1. op = "none" /\ l \in alive /\ Begin(o, a, head[l], len[l])
    BY DEF BeginEmpty, Begin
<1>2. /\ a \in [l : Lists \cup {NULL}, o : Lists \cup {NULL}, dir : {"head", "tail"},
                v : Values \cup {NULL}, i : -MaxIndex..MaxIndex]
      /\ a.l = l
    BY NoAskType DEF NoAsk
<1>3. head[l] \in Pointer /\ len[l] \in Nat
    BY <1>1, IdleList
<1> HIDE DEF a
<1>4. /\ TypeOK' /\ LoopList' /\ Unused'
      /\ ask'.l = l /\ cur' = head[l] /\ n' = len[l] /\ seen' = <<>> /\ op' = o
    BY <1>1, <1>2, <1>3, BeginTypes
<1>5. UNCHANGED <<head, tail, len, nodes, order>>
    BY <1>1 DEF Begin, lists
<1>6. WellLinked' /\ HeapExact' /\ EmptyInv'
    BY <1>1, <1>4, <1>5, StartEmpty DEF ListInv
<1> QED
    BY <1>4, <1>6 DEF ListInv, LoopInv, IterInv, SearchInv, IndexInv, DupInv, AnswersRight

-----------------------------------------------------------------------------
(* The turns of the loops.                                                 *)

\* The list of a loop that frees nothing.
LEMMA LoopsList ==
    ASSUME ListInv, op \notin {"none", "empty", "release"}
    PROVE  /\ ask.l \in Lists /\ ask.l \in alive
           /\ \A m \in Lists : ~Emptying(m)
           /\ order[ask.l] \in Seq(Nodes) /\ Len(order[ask.l]) \in Nat
           /\ Chain(order[ask.l], Len(order[ask.l]), head[ask.l], tail[ask.l], next, prev)
<1>1. TypeOK /\ WellLinked /\ ask.l \in Lists /\ ask.l \in alive
    BY DEF ListInv, LoopInv, LoopList
<1>2. \A m \in Lists : ~Emptying(m)
    BY DEF Emptying
<1> QED
    BY <1>1, <1>2, WholeList

\* Nothing but the loop's own variables change.
LEMMA TurnKeeps ==
    ASSUME ListInv, op \notin {"none", "empty", "release"},
           op' \notin {"empty", "release", "dup"}, op # "dup", UNCHANGED <<lists, nodes, order>>
    PROVE  WellLinked' /\ HeapExact' /\ Unused'
<1>1. \A m \in Lists : ~Emptying(m) /\ ~Emptying(m)' /\ ~Hidden(m) /\ ~Hidden(m)'
    BY DEF Emptying, Hidden
<1>2. WellLinked' /\ HeapExact'
    BY <1>1, QuietKeeps DEF ListInv, lists
<1>3. Unused'
    BY <1>1 DEF ListInv, Unused, lists
<1> QED
    BY <1>2, <1>3

LEMMA IterNextInv == ASSUME ListInv, IterNext PROVE ListInv'
<1>1. op = "iter" /\ op' = "iter" /\ cur # NULL /\ UNCHANGED <<lists, nodes, order, ask, start, n>>
    BY DEF IterNext
<1>2. WellLinked' /\ HeapExact' /\ Unused'
    BY <1>1, TurnKeeps
<1> PICK l \in Lists : l = ask.l
    BY <1>1, LoopsList
<1> PICK s \in Seq(Nodes) : s = order[l]
    BY <1>1, LoopsList
<1>3. TypeOK /\ IterInv
    BY DEF ListInv, LoopInv
<1>4. /\ seen \in Seq(Nodes) /\ start \in Seq(Nodes) /\ cur \in Nodes /\ ask.dir \in {"head", "tail"}
      /\ next \in [Nodes -> Pointer \cup {Freed}] /\ prev \in [Nodes -> Pointer \cup {Freed}]
    BY <1>1, <1>3 DEF TypeOK, Pointer
<1>k. PICK k \in Nat : k = Len(s)
    OBVIOUS
<1>p. PICK p \in Nat : p = Len(start)
    BY <1>4
<1>q. PICK q \in Nat : q = Len(seen)
    BY <1>4
<1>5. /\ seen' \in Seq(Nodes) /\ Len(seen') = q + 1
      /\ Extended(seen', seen, q, cur)
    <2>1. seen' = Append(seen, cur)
        BY DEF IterNext
    <2> QED
        BY <1>4, <1>q, <2>1 DEF Extended
<1>6. Chain(s, k, head[l], tail[l], next, prev)
    BY <1>1, <1>k, LoopsList
<1>7. res' = cur /\ cur' = IF ask.dir = "head" THEN next[cur] ELSE prev[cur]
    BY DEF IterNext, Step
<1>8. ask.dir = "head" => Forward(s, k, start, p, seen', q + 1, cur', cur)
    <2> HAVE ask.dir = "head"
    <2>1. Forward(s, k, start, p, seen, q, cur, res)
        BY <1>1, <1>3, <1>k, <1>p, <1>q DEF IterInv
    <2>2. PICK q2 : q2 = q + 1
        OBVIOUS
    <2>3. cur' = next[cur]
        BY <1>7
    <2>4. Forward(s, k, start, p, seen', q2, cur', cur)
        BY <1>1, <1>5, <1>6, <2>1, <2>2, <2>3, ForwardNext
    <2> QED
        BY <2>2, <2>4
<1>9. ask.dir = "tail" => Backward(s, k, start, p, seen', q + 1, cur', cur)
    <2> HAVE ask.dir = "tail"
    <2>1. Backward(s, k, start, p, seen, q, cur, res)
        BY <1>1, <1>3, <1>k, <1>p, <1>q DEF IterInv
    <2>2. PICK q2 : q2 = q + 1
        OBVIOUS
    <2>3. cur' = prev[cur]
        BY <1>7
    <2>4. Backward(s, k, start, p, seen', q2, cur', cur)
        BY <1>1, <1>5, <1>6, <2>1, <2>2, <2>3, BackwardNext
    <2> QED
        BY <2>2, <2>4
<1>10. cur' \in Pointer
    <2>1. \A i \in 1..p : start[i] \in Nodes
        BY <1>4, <1>p
    <2> QED
        BY <1>4, <1>8, <1>9, <2>1 DEF Forward, Backward, Nth, Pointer
<1>11. TypeOK'
    BY <1>1, <1>3, <1>4, <1>5, <1>7, <1>10 DEF TypeOK, lists, nodes, Pointer
<1>12. IterInv'
    <2>1. /\ order'[ask'.l] = s /\ start' = start /\ Len(seen') = q + 1 /\ Len(s) = k
          /\ Len(start) = p /\ ask' = ask
        BY <1>1, <1>5, <1>k, <1>p
    <2> QED
        BY <1>1, <1>7, <1>8, <1>9, <2>1 DEF IterInv
<1>13. LoopList'
    BY <1>1, LoopsList DEF LoopList, lists
<1> QED
    BY <1>1, <1>2, <1>11, <1>12, <1>13
       DEF ListInv, LoopInv, EmptyInv, SearchInv, IndexInv, DupInv, AnswersRight

LEMMA IterDelInv == ASSUME ListInv, IterDel PROVE ListInv'
<1>1. /\ op = "iter" /\ op' = "iter" /\ res # NULL /\ res' = NULL
      /\ UNCHANGED <<ask, cur, n, start, seen>>
    BY DEF IterDel
<1> PICK l \in Lists : l = ask.l
    BY <1>1, LoopsList
<1> PICK s \in Seq(Nodes) : s = order[l]
    BY <1>1, LoopsList
<1>2. TypeOK /\ IterInv /\ WellLinked /\ HeapExact /\ Unused
    BY DEF ListInv, LoopInv
<1>3. /\ seen \in Seq(Nodes) /\ start \in Seq(Nodes) /\ ask.dir \in {"head", "tail"}
    BY <1>2 DEF TypeOK
<1>k. PICK k \in Nat : k = Len(s)
    OBVIOUS
<1>p. PICK p \in Nat : p = Len(start)
    BY <1>3
<1>q. PICK q \in Nat : q = Len(seen)
    BY <1>3
<1>4. PICK i \in 1..k : s[i] = res /\ Unlink(l, res, i)
    BY <1>k DEF IterDel
<1>5. i \in 1..Len(order[l]) /\ Unlink(l, order[l][i], i) /\ alive' = alive
    BY <1>4, <1>k DEF Unlink
<1>6. \A m \in Lists : ~Emptying(m) /\ ~Emptying(m)' /\ ~Hidden(m) /\ ~Hidden(m)'
    BY <1>1 DEF Emptying, Hidden
<1>7. WellLinked' /\ HeapExact' /\ order' \in [Lists -> Seq(Nodes)]
    BY <1>2, <1>5, <1>6, UnlinkKeeps
<1>8. PointerTypes' /\ value' \in [Nodes -> Values \cup {Freed}]
    BY <1>2, <1>5, <1>6, UnlinkTypes
<1>9. TypeOK'
    BY <1>1, <1>2, <1>5, <1>7, <1>8 DEF TypeOK, PointerTypes, Pointer
<1>10. Unused'
    <2>1. \A m \in Lists : m # l => order'[m] = order[m]
        BY <1>2, <1>5 DEF Unlink, TypeOK
    <2> QED
        BY <1>1, <1>2, <1>5, <1>6, <2>1, LoopsList DEF Unused
<1>11. Distinct(s, k)
    <2>1. ASSUME NEW x \in 1..k, NEW y \in 1..k, s[x] = s[y] PROVE x = y
        BY <1>2, <1>6, <2>1, <1>k, OneNodePerPlace DEF Places
    <2> QED
        BY <2>1 DEF Distinct
<1>12. PICK r \in Seq(Nodes) : r = RemoveAt(s, i) /\ Len(r) = k - 1 /\ Without(r, s, k, i)
    BY <1>k, <1>5, Removed
<1>13. order'[l] = r
    BY <1>2, <1>5, <1>12 DEF Unlink, TypeOK
<1>14. ask.dir = "head" => Forward(r, k - 1, start, p, seen, q, cur, NULL)
    <2> HAVE ask.dir = "head"
    <2>1. Forward(s, k, start, p, seen, q, cur, res)
        BY <1>1, <1>2, <1>k, <1>p, <1>q DEF IterInv
    <2>2. PICK k2 : k2 = k - 1
        OBVIOUS
    <2>3. Forward(r, k2, start, p, seen, q, cur, NULL)
        BY <1>1, <1>4, <1>11, <1>12, <2>1, <2>2, ForwardDel
    <2> QED
        BY <2>2, <2>3
<1>15. ask.dir = "tail" => Backward(r, k - 1, start, p, seen, q, cur, NULL)
    <2> HAVE ask.dir = "tail"
    <2>1. Backward(s, k, start, p, seen, q, cur, res)
        BY <1>1, <1>2, <1>k, <1>p, <1>q DEF IterInv
    <2>2. PICK k2 : k2 = k - 1
        OBVIOUS
    <2>3. Backward(r, k2, start, p, seen, q, cur, NULL)
        BY <1>1, <1>4, <1>11, <1>12, <2>1, <2>2, BackwardDel
    <2> QED
        BY <2>2, <2>3
<1>16. IterInv'
    <2>1. /\ order'[ask'.l] = r /\ start' = start /\ seen' = seen /\ Len(r) = k - 1
          /\ Len(start) = p /\ Len(seen) = q /\ ask' = ask /\ cur' = cur
        BY <1>1, <1>12, <1>13, <1>p, <1>q
    <2> QED
        BY <1>1, <1>14, <1>15, <2>1 DEF IterInv
<1>17. LoopList'
    BY <1>1, <1>5, LoopsList DEF LoopList
<1> QED
    BY <1>1, <1>7, <1>9, <1>10, <1>16, <1>17
       DEF ListInv, LoopInv, EmptyInv, SearchInv, IndexInv, DupInv, AnswersRight

LEMMA IterEndInv == ASSUME ListInv, IterEnd PROVE ListInv'
<1>1. /\ op = "iter" /\ op' = "iter_ret" /\ cur = NULL
      /\ UNCHANGED <<lists, nodes, order, ask, cur, n, res, start, seen>>
    BY DEF IterEnd
<1>2. WellLinked' /\ HeapExact' /\ Unused'
    BY <1>1, TurnKeeps
<1>3. TypeOK'
    BY <1>1 DEF ListInv, TypeOK, lists, nodes, Pointer
<1>4. IterInv'
    BY <1>1 DEF ListInv, LoopInv, IterInv
<1>5. LoopList'
    BY <1>1, LoopsList DEF LoopList, lists
<1> QED
    BY <1>1, <1>2, <1>3, <1>4, <1>5
       DEF ListInv, LoopInv, EmptyInv, SearchInv, IndexInv, DupInv, AnswersRight

LEMMA SearchStepInv == ASSUME ListInv, SearchStep PROVE ListInv'
<1>1. op = "search" /\ UNCHANGED <<lists, nodes, order, ask, start, seen>>
    BY DEF SearchStep
<1> PICK l \in Lists : l = ask.l
    BY <1>1, LoopsList
<1> PICK s \in Seq(Nodes) : s = order[l]
    BY <1>1, LoopsList
<1>k. PICK k \in Nat : k = Len(s)
    OBVIOUS
<1>2. Chain(s, k, head[l], tail[l], next, prev) /\ l \in alive
    BY <1>1, <1>k, LoopsList
<1>3. TypeOK /\ Searched(s, k, value, ask.v, cur)
    BY <1>1, <1>k DEF ListInv, LoopInv, SearchInv
<1>4. \A i \in 1..k : s[i] \in Nodes /\ s[i] # NULL
    BY <1>k, AdListAssumption
<1>5. CASE cur = NULL \/ value[cur] = ask.v
    <2>1. op' = "search_ret" /\ res' = cur /\ cur' = NULL /\ n' = 0
        BY <1>5 DEF SearchStep, Finish
    <2>2. WellLinked' /\ HeapExact' /\ Unused'
        BY <1>1, <2>1, TurnKeeps
    <2>3. TypeOK'
        BY <1>1, <1>3, <2>1 DEF TypeOK, lists, nodes, Pointer
    <2>4. cur = FirstHit(s, k, value, ask.v)
        <3>1. \A i \in 1..k : s[i] # NULL
            BY <1>4
        <3>2. Searched(s, k, value, ask.v, cur)
            BY <1>3
        <3> QED
            BY <1>5, <3>1, <3>2, SearchedEnd
    <2>5. AnswersRight'
        <3>1. order'[ask'.l] = s /\ value' = value /\ ask' = ask /\ Len(s) = k
            BY <1>1, <1>k DEF nodes
        <3> QED
            BY <2>1, <2>4, <3>1 DEF AnswersRight, FirstHit
    <2>6. LoopList'
        BY <1>1, <1>2, <2>1 DEF LoopList, lists
    <2> QED
        BY <2>1, <2>2, <2>3, <2>5, <2>6
           DEF ListInv, LoopInv, EmptyInv, IterInv, SearchInv, IndexInv, DupInv
<1>6. CASE ~(cur = NULL \/ value[cur] = ask.v)
    <2>1. op' = "search" /\ res' = res /\ cur' = next[cur] /\ n' = n
        BY <1>1, <1>6 DEF SearchStep
    <2>2. WellLinked' /\ HeapExact' /\ Unused'
        BY <1>1, <2>1, TurnKeeps
    <2>3. Searched(s, k, value, ask.v, cur')
        BY <1>2, <1>3, <1>6, <2>1, SearchedNext
    <2>4. cur' \in Pointer
        BY <1>4, <2>3 DEF Searched, Nth, Pointer
    <2>5. TypeOK'
        BY <1>1, <1>3, <2>1, <2>4 DEF TypeOK, lists, nodes, Pointer
    <2>6. SearchInv'
        <3>1. order'[ask'.l] = s /\ value' = value /\ ask' = ask /\ Len(s) = k
            BY <1>1, <1>k DEF nodes
        <3> QED
            BY <2>3, <3>1 DEF SearchInv
    <2>7. LoopList'
        BY <1>1, <1>2, <2>1 DEF LoopList, lists
    <2> QED
        BY <2>1, <2>2, <2>5, <2>6, <2>7
           DEF ListInv, LoopInv, EmptyInv, IterInv, IndexInv, DupInv, AnswersRight
<1> QED
    BY <1>5, <1>6

LEMMA IndexStepInv == ASSUME ListInv, IndexStep PROVE ListInv'
<1>1. op = "index" /\ UNCHANGED <<lists, nodes, order, ask, start, seen>>
    BY DEF IndexStep
<1> PICK l \in Lists : l = ask.l
    BY <1>1, LoopsList
<1> PICK s \in Seq(Nodes) : s = order[l]
    BY <1>1, LoopsList
<1>k. PICK k \in Nat : k = Len(s)
    OBVIOUS
<1>2. Chain(s, k, head[l], tail[l], next, prev) /\ l \in alive
    BY <1>1, <1>k, LoopsList
<1>3. TypeOK /\ Indexed(s, k, ask.i, n, cur) /\ ask.dir = IF ask.i < 0 THEN "tail" ELSE "head"
    BY <1>1, <1>k DEF ListInv, LoopInv, IndexInv
<1>4. \A j \in 1..k : s[j] \in Nodes /\ s[j] # NULL
    BY <1>k, AdListAssumption
<1>5. ask.i \in Int /\ n \in Nat
    BY <1>3, AdListAssumption DEF TypeOK
<1> PICK i \in Int : i = ask.i
    BY <1>5
<1>6. CASE n = 0 \/ cur = NULL
    <2>1. op' = "index_ret" /\ res' = cur /\ cur' = NULL /\ n' = 0
        BY <1>6 DEF IndexStep, Finish
    <2>2. WellLinked' /\ HeapExact' /\ Unused'
        BY <1>1, <2>1, TurnKeeps
    <2>3. TypeOK'
        BY <1>1, <1>3, <2>1 DEF TypeOK, lists, nodes, Pointer
    <2>4. LET j == IF i < 0 THEN k + i + 1 ELSE i + 1
          IN  cur = IF j \in 1..k THEN s[j] ELSE NULL
        BY <1>3, <1>4, <1>5, <1>6, IndexedEnd
    <2>5. AnswersRight'
        <3>1. order'[ask'.l] = s /\ ask' = ask /\ ask'.i = i /\ Len(s) = k
            BY <1>1, <1>k
        <3> QED
            BY <2>1, <2>4, <3>1 DEF AnswersRight
    <2>6. LoopList'
        BY <1>1, <1>2, <2>1 DEF LoopList, lists
    <2> QED
        BY <2>1, <2>2, <2>3, <2>5, <2>6
           DEF ListInv, LoopInv, EmptyInv, IterInv, SearchInv, IndexInv, DupInv
<1>7. CASE ~(n = 0 \/ cur = NULL)
    <2>1. op' = "index" /\ res' = res /\ n' = n - 1 /\ cur' = Step(ask.dir)
        BY <1>1, <1>7 DEF IndexStep
    <2>2. WellLinked' /\ HeapExact' /\ Unused'
        BY <1>1, <2>1, TurnKeeps
    <2>3. Indexed(s, k, i, n', cur')
        <3>1. cur' = IF i < 0 THEN prev[cur] ELSE next[cur]
            BY <1>3, <2>1 DEF Step
        <3>2. cur # NULL /\ n # 0
            BY <1>7
        <3> QED
            BY <1>2, <1>3, <1>5, <2>1, <3>1, <3>2, IndexedNext
    <2>4. cur' \in Pointer /\ n' \in Nat
        BY <1>4, <1>5, <1>7, <2>1, <2>3 DEF Indexed, Nth, Pointer
    <2>5. TypeOK'
        BY <1>1, <1>3, <2>1, <2>4 DEF TypeOK, lists, nodes, Pointer
    <2>6. IndexInv'
        <3>1. order'[ask'.l] = s /\ ask' = ask /\ ask'.i = i /\ Len(s) = k
            BY <1>1, <1>k
        <3> QED
            BY <1>3, <2>3, <3>1 DEF IndexInv
    <2>7. LoopList'
        BY <1>1, <1>2, <2>1 DEF LoopList, lists
    <2> QED
        BY <2>1, <2>2, <2>5, <2>6, <2>7
           DEF ListInv, LoopInv, EmptyInv, IterInv, SearchInv, DupInv, AnswersRight
<1> QED
    BY <1>6, <1>7

LEMMA ReturnInv == ASSUME ListInv, Return PROVE ListInv'
<1>1. /\ op \in {"iter_ret", "search_ret", "index_ret"} /\ op' = "none" /\ res' = NULL /\ cur' = NULL
      /\ n' = 0 /\ ask' = NoAsk /\ start' = <<>> /\ seen' = <<>> /\ UNCHANGED <<lists, nodes, order>>
    BY DEF Return, Finish
<1>2. WellLinked' /\ HeapExact' /\ Unused'
    BY <1>1, TurnKeeps
<1>3. TypeOK'
    BY <1>1, NoAskType DEF ListInv, TypeOK, lists, nodes, Pointer
<1> QED
    BY <1>1, <1>2, <1>3, NoLoop DEF ListInv

-----------------------------------------------------------------------------
(* listEmpty, listRelease and listDup.                                     *)

LEMMA EmptyStepInv == ASSUME ListInv, EmptyStep PROVE ListInv'
<1> USE AdListAssumption
<1>1. /\ op \in {"empty", "release"} /\ n > 0 /\ op' = op /\ cur' = next[cur] /\ n' = n - 1
      /\ UNCHANGED <<lists, ask, res, start, order>>
    BY DEF EmptyStep
<1>2. TypeOK /\ WellLinked /\ HeapExact /\ Unused /\ LoopList /\ EmptyInv
    BY DEF ListInv, LoopInv
<1> PICK l \in Lists : l = ask.l
    BY <1>1, <1>2 DEF LoopList
<1> PICK s \in Seq(Nodes) : s = order[l]
    BY <1>2 DEF TypeOK
<1>k. PICK k \in Nat : k = Len(s)
    OBVIOUS
<1>q. PICK q \in Nat : q = Len(seen)
    <2>1. seen \in Seq(Nodes)
        BY <1>2 DEF TypeOK
    <2> QED
        BY <2>1
<1>3. Emptied(s, k, q, n, cur, next)
    BY <1>1, <1>2, <1>k, <1>q DEF EmptyInv
<1>4. q + 1 \in 1..k /\ cur = s[q + 1] /\ n = k - q
    <2>1. n = k - q /\ cur = Nth(s, k, q + 1)
        BY <1>3 DEF Emptied
    <2>2. q + 1 \in 1..k
        BY <1>1, <2>1
    <2> QED
        BY <2>1, <2>2 DEF Nth
<1>5. cur \in Nodes /\ \A i \in 1..k : s[i] \in Nodes
    BY <1>k, <1>4
<1>6. seen' \in Seq(Nodes) /\ Len(seen') = q + 1
    <2>1. seen' = Append(seen, cur) /\ seen \in Seq(Nodes)
        BY <1>2 DEF EmptyStep, TypeOK
    <2> QED
        BY <1>q, <1>5, <2>1
<1>7. /\ Places(l) = {i \in 1..k : i > q} /\ Places(l)' = {i \in 1..k : i > q + 1}
      /\ \A m \in Lists : m # l => Places(m) = 1..Len(order[m]) /\ Places(m)' = Places(m)
    <2>1. Emptying(l) /\ Emptying(l)' /\ \A m \in Lists : m # l => ~Emptying(m) /\ ~Emptying(m)'
        BY <1>1 DEF Emptying
    <2> QED
        BY <1>1, <1>k, <1>q, <1>6, <2>1 DEF Places
<1>8. q + 1 \in Places(l)
    BY <1>4, <1>7
<1>9. ASSUME NEW y \in Nodes, y # cur PROVE next'[y] = next[y] /\ prev'[y] = prev[y]
    BY <1>2, <1>5, <1>9 DEF EmptyStep, TypeOK
<1>10. HeapExact'
    <2> DEFINE P == [m \in Lists |-> Places(m)]
               P2 == [m \in Lists |-> Places(m)']
    <2>1. Owned(heap, order, P)
        BY <1>2, HeapIsOwned
    <2>2. P2[l] = P[l] \ {q + 1} /\ q + 1 \in P[l] /\ OthersKept(order, P2, order, P, {l})
        BY <1>7, <1>8 DEF OthersKept
    <2>3. heap' = heap \ {order[l][q + 1]} /\ order' = order
        BY <1>1, <1>4 DEF EmptyStep
    <2> HIDE DEF P, P2
    <2>4. PICK i : i = q + 1
        OBVIOUS
    <2>5. Owned(heap', order, P2)
        BY <2>1, <2>2, <2>3, <2>4, OwnedDrop
    <2> QED
        BY <2>3, <2>5, HeapIsOwnedNext DEF P2
<1>11. ASSUME NEW m \in Lists, ~Emptying(m)' PROVE Links(m, order[m])'
    <2>1. m # l /\ ~Emptying(m)
        BY <1>1, <1>11 DEF Emptying
    <2> PICK s2 \in Seq(Nodes) : s2 = order[m]
        BY <1>2 DEF TypeOK
    <2>k. PICK k2 \in Nat : k2 = Len(s2)
        OBVIOUS
    <2>2. len[m] = k2 /\ Chain(s2, k2, head[m], tail[m], next, prev)
        BY <1>2, <2>1, <2>k, WholeList
    <2>3. ASSUME NEW j \in 1..k2
          PROVE  next'[s2[j]] = next[s2[j]] /\ prev'[s2[j]] = prev[s2[j]]
        <3>1. s2[j] \in Nodes
            BY <2>k
        <3>2. j \in Places(m)
            BY <1>7, <2>1, <2>k
        <3>3. s2[j] # cur
            BY <1>2, <1>4, <1>8, <2>1, <3>2, OneNodePerPlace
        <3> QED
            BY <1>9, <3>1, <3>3
    <2>4. Chain(s2, k2, head[m], tail[m], next', prev')
        BY <2>2, <2>3, ChainKept, SMTT(20) DEF LinksKept
    <2>5. head'[m] = head[m] /\ tail'[m] = tail[m] /\ len'[m] = len[m] /\ order'[m] = s2
        BY <1>1 DEF lists
    <2>6. Links(m, s2)'
        BY <2>2, <2>4, <2>5, <2>k, LinksAreChainNext
    <2> QED
        BY <2>5, <2>6
<1>12. Emptied(s, k, q + 1, n', cur', next')
    <2>1. n' = k - (q + 1)
        BY <1>1, <1>4
    <2>2. cur' = Nth(s, k, q + 1 + 1)
        <3>1. next[s[q + 1]] = Nth(s, k, q + 1 + 1)
            BY <1>3, <1>4 DEF Emptied
        <3> QED
            BY <1>1, <1>4, <3>1
    <2>3. ASSUME NEW i \in q + 1 + 1..k PROVE next'[s[i]] = Nth(s, k, i + 1)
        <3>1. i \in 1..k /\ i \in Places(l) /\ i # q + 1 /\ i \in q + 1..k
            BY <1>7
        <3>2. s[i] # cur
            BY <1>2, <1>4, <1>8, <3>1, OneNodePerPlace
        <3>3. next[s[i]] = Nth(s, k, i + 1)
            BY <1>3, <3>1 DEF Emptied
        <3> QED
            BY <1>5, <1>9, <3>1, <3>2, <3>3
    <2> QED
        BY <2>1, <2>2, <2>3 DEF Emptied
<1>13. EmptyInv'
    <2>1. order'[ask'.l] = s /\ Len(s) = k /\ Len(seen') = q + 1
        BY <1>1, <1>6, <1>k
    <2> QED
        BY <1>12, <2>1 DEF EmptyInv
<1>14. cur' \in Pointer /\ n' \in Nat
    BY <1>1, <1>2, <1>5, <1>12, SMTT(20) DEF Emptied, Nth, Pointer, TypeOK
<1>15. /\ heap' \subseteq Nodes /\ value' \in [Nodes -> Values \cup {Freed}]
       /\ prev' \in [Nodes -> Pointer \cup {Freed}] /\ next' \in [Nodes -> Pointer \cup {Freed}]
    BY <1>2 DEF TypeOK, EmptyStep
<1>16. TypeOK'
    BY <1>1, <1>2, <1>6, <1>14, <1>15 DEF TypeOK, lists, Pointer
<1>17. Unused' /\ LoopList'
    BY <1>1, <1>2 DEF Unused, Hidden, Emptying, LoopList, lists
<1> QED
    BY <1>1, <1>10, <1>11, <1>13, <1>16, <1>17
       DEF WellLinked, ListInv, LoopInv, IterInv, SearchInv, IndexInv, DupInv, AnswersRight

LEMMA EmptyDoneInv == ASSUME ListInv, EmptyDone PROVE ListInv'
<1>1. /\ op \in {"empty", "release"} /\ n = 0 /\ op' = "none" /\ cur' = NULL /\ n' = 0 /\ res' = NULL
      /\ ask' = NoAsk /\ start' = <<>> /\ seen' = <<>> /\ UNCHANGED nodes
    BY DEF EmptyDone, Finish
<1>2. TypeOK /\ WellLinked /\ HeapExact /\ Unused /\ LoopList /\ EmptyInv
    BY DEF ListInv, LoopInv
<1> PICK l \in Lists : l = ask.l
    BY <1>1, <1>2 DEF LoopList
<1> PICK s \in Seq(Nodes) : s = order[l]
    BY <1>2 DEF TypeOK
<1>k. PICK k \in Nat : k = Len(s)
    OBVIOUS
<1>q. PICK q \in Nat : q = Len(seen)
    <2>1. seen \in Seq(Nodes)
        BY <1>2 DEF TypeOK
    <2> QED
        BY <2>1
<1>3. q = k
    <2>1. Emptied(s, k, q, n, cur, next)
        BY <1>1, <1>2, <1>k, <1>q DEF EmptyInv
    <2> QED
        BY <1>1, <2>1 DEF Emptied
<1>4. /\ Emptying(l) /\ \A m \in Lists : (m # l => ~Emptying(m)) /\ ~Emptying(m)' /\ ~Hidden(m)'
      /\ \A m \in Lists : m # l => ~Hidden(m)
    BY <1>1 DEF Emptying, Hidden
<1>5. /\ head' = [head EXCEPT ![l] = NULL] /\ tail' = [tail EXCEPT ![l] = NULL]
      /\ len' = [len EXCEPT ![l] = 0] /\ order' = [order EXCEPT ![l] = <<>>]
      /\ alive' = IF op = "release" THEN alive \ {l} ELSE alive
    BY DEF EmptyDone
<1>6. order'[l] = <<>> /\ \A m \in Lists : m # l => order'[m] = order[m]
    BY <1>2, <1>5 DEF TypeOK
<1>7. /\ \A i \in Places(l) : FALSE
      /\ \A i \in Places(l)' : FALSE
      /\ \A m \in Lists : m # l => Places(m)' = Places(m)
    <2>1. \A i \in Places(l) : FALSE
        BY <1>3, <1>4, <1>k, <1>q DEF Places
    <2>2. Len(order'[l]) = 0
        BY <1>6
    <2>3. \A i \in Places(l)' : FALSE
        BY <1>4, <2>2 DEF Places
    <2>4. \A m \in Lists : m # l => Places(m)' = Places(m)
        BY <1>4, <1>6 DEF Places
    <2> QED
        BY <2>1, <2>3, <2>4
<1>8. HeapExact'
    <2>1. heap' = heap
        BY <1>1 DEF nodes
    <2>2. ASSUME NEW x \in Nodes
          PROVE  x \in heap' <=> \E m \in Lists : \E i \in Places(m)' : order'[m][i] = x
        BY <1>2, <1>6, <1>7, <2>1 DEF HeapExact
    <2>3. ASSUME NEW a \in Lists, NEW b \in Lists, NEW i \in Places(a)', NEW j \in Places(b)',
                 order'[a][i] = order'[b][j]
          PROVE  a = b /\ i = j
        <3>1. a # l /\ b # l
            BY <1>7
        <3> QED
            BY <1>2, <1>6, <1>7, <2>3, <3>1 DEF HeapExact
    <2> QED
        BY <2>2, <2>3 DEF HeapExact
<1>9. ASSUME NEW m \in Lists PROVE Links(m, order[m])'
    <2>1. CASE m = l
        <3>1. len'[l] = 0 /\ head'[l] = NULL /\ tail'[l] = NULL
            BY <1>2, <1>5 DEF TypeOK
        <3> QED
            BY <1>6, <2>1, <3>1 DEF Links
    <2>2. CASE m # l
        <3>1. Links(m, order[m])
            BY <1>2, <1>4, <2>2 DEF WellLinked
        <3>2. /\ head'[m] = head[m] /\ tail'[m] = tail[m] /\ len'[m] = len[m] /\ order'[m] = order[m]
              /\ next' = next /\ prev' = prev
            BY <1>1, <1>2, <1>5, <2>2 DEF TypeOK, nodes
        <3> QED
            BY <3>1, <3>2 DEF Links
    <2> QED
        BY <2>1, <2>2
<1>10. Unused'
    BY <1>2, <1>4, <1>5, <1>6 DEF Unused
<1>11. TypeOK'
    <2>1. order' \in [Lists -> Seq(Nodes)] /\ <<>> \in Seq(Nodes)
        BY <1>2, <1>5 DEF TypeOK
    <2>2. head' \in [Lists -> Pointer] /\ tail' \in [Lists -> Pointer] /\ len' \in [Lists -> Nat]
        BY <1>2, <1>5 DEF TypeOK, Pointer
    <2>3. alive' \subseteq Lists
        BY <1>2, <1>5 DEF TypeOK
    <2> QED
        BY <1>1, <1>2, <2>1, <2>2, <2>3, NoAskType DEF TypeOK, nodes, Pointer
<1> QED
    BY <1>1, <1>8, <1>9, <1>10, <1>11, NoLoop DEF ListInv, WellLinked

LEMMA DupStepInv == ASSUME ListInv, NEW x \in Nodes, DupStep(x) PROVE ListInv'
<1>1. /\ op = "dup" /\ op' = "dup" /\ cur # NULL /\ x \notin heap /\ cur' = next[cur]
      /\ LinkTail(ask.o, x, value[cur]) /\ UNCHANGED <<alive, ask, n, res, start, seen>>
    BY DEF DupStep
<1>2. TypeOK /\ WellLinked /\ HeapExact /\ Unused /\ DupInv
    BY DEF ListInv, LoopInv
<1> PICK l \in Lists : l = ask.l
    BY <1>1, LoopsList
<1> PICK o \in Lists : o = ask.o
    BY <1>1, <1>2 DEF DupInv
<1>3. l \in alive /\ o \notin alive /\ l # o /\ seen = <<>>
    BY <1>1, <1>2, LoopsList DEF DupInv
<1> PICK s \in Seq(Nodes) : s = order[l]
    BY <1>2 DEF TypeOK
<1> PICK d \in Seq(Nodes) : d = order[o]
    BY <1>2 DEF TypeOK
<1>k. PICK k \in Nat : k = Len(s)
    OBVIOUS
<1>q. PICK q \in Nat : q = Len(d)
    OBVIOUS
<1>4. Copied(s, k, d, q, value, cur)
    BY <1>1, <1>2, <1>k, <1>q DEF DupInv
<1>5. \A m \in Lists : ~Emptying(m) /\ ~Emptying(m)'
    BY <1>1 DEF Emptying
<1>6. Spliced(o, Len(order[o]) + 1, x)
    BY <1>1, <1>2, <1>5, LinkTailSplices
<1>7. Len(order[o]) + 1 \in 1..Len(order[o]) + 1
    <2>1. q + 1 \in 1..q + 1
        OBVIOUS
    <2> QED
        BY <1>q, <2>1
<1>8. WellLinked' /\ HeapExact' /\ order' \in [Lists -> Seq(Nodes)]
    BY <1>1, <1>2, <1>5, <1>6, <1>7, SplicedKeeps
<1>9. PointerTypes'
    BY <1>2, <1>6, SplicedTypes
<1>10. q + 1 \in 1..k /\ cur = s[q + 1] /\ \A i \in 1..k : s[i] \in Nodes
    <2>1. q <= k /\ cur = Nth(s, k, q + 1)
        BY <1>4 DEF Copied
    <2>2. q + 1 \in 1..k /\ cur = s[q + 1]
        BY <1>1, <2>1 DEF Nth
    <2> QED
        BY <1>k, <2>2
<1>11. Chain(s, k, head[l], tail[l], next, prev)
    BY <1>1, <1>k, LoopsList
<1>12. value' = [value EXCEPT ![x] = value[cur]]
    BY <1>1 DEF LinkTail
<1>13. \A i \in 1..k : s[i] # x
    BY <1>1, <1>2, <1>5, <1>10, <1>k, PlacesInHeap DEF Places
<1>14. \A i \in 1..q : d[i] # x /\ d[i] \in Nodes
    <2>1. \A i \in 1..q : d[i] \in Nodes
        BY <1>q
    <2> QED
        BY <1>1, <1>2, <1>5, <1>q, <2>1, PlacesInHeap DEF Places
<1>15. PICK r \in Seq(Nodes) : r = order'[o] /\ Len(r) = q + 1 /\ With(r, d, q, q + 1, x)
    <2>1. order'[o] = InsertAt(d, q + 1, x)
        BY <1>2, <1>6, <1>q DEF Spliced, TypeOK
    <2>2. Len(d) + 1 \in 1..Len(d) + 1
        BY <1>7
    <2>3. /\ InsertAt(d, Len(d) + 1, x) \in Seq(Nodes)
          /\ Len(InsertAt(d, Len(d) + 1, x)) = Len(d) + 1
          /\ With(InsertAt(d, Len(d) + 1, x), d, Len(d), Len(d) + 1, x)
        BY <2>2, Inserted
    <2> QED
        BY <1>q, <2>1, <2>3
<1>16. order'[l] = s
    BY <1>2, <1>3, <1>6 DEF Spliced, TypeOK
<1>17. Copied(s, k, r, q + 1, value', cur')
    <2>1. cur' = Nth(s, k, q + 1 + 1)
        BY <1>1, <1>10, <1>11 DEF Chain
    <2>2. ASSUME NEW i \in 1..q + 1 PROVE value'[r[i]] = value'[s[i]]
        <3>0. value \in [Nodes -> Values \cup {Freed}]
            BY <1>2 DEF TypeOK
        <3>1. i \in 1..k /\ value'[s[i]] = value[s[i]]
            BY <1>10, <1>12, <1>13, <3>0
        <3>2. CASE i = q + 1
            <4>1. r[i] = x
                BY <1>15, <3>2 DEF With
            <4> QED
                BY <1>10, <1>12, <3>0, <3>1, <3>2, <4>1
        <3>3. CASE i # q + 1
            <4>1. i \in 1..q /\ r[i] = d[i]
                BY <1>15, <3>3 DEF With
            <4>2. value'[d[i]] = value[d[i]]
                BY <1>12, <1>14, <3>0, <4>1
            <4>3. value[d[i]] = value[s[i]]
                BY <1>4, <4>1 DEF Copied
            <4> QED
                BY <3>1, <4>1, <4>2, <4>3
        <3> QED
            BY <3>2, <3>3
    <2>3. q + 1 <= k
        BY <1>10
    <2> QED
        BY <2>1, <2>2, <2>3 DEF Copied
<1>18. DupInv'
    <2>1. /\ order'[ask'.l] = s /\ order'[ask'.o] = r /\ Len(s) = k /\ Len(r) = q + 1
          /\ ask'.o = o /\ o \in Lists \ alive' /\ seen' = <<>>
        BY <1>1, <1>3, <1>15, <1>16, <1>k
    <2> QED
        BY <1>17, <2>1 DEF DupInv
<1>19. TypeOK'
    <2>1. cur' \in Pointer
        BY <1>10, <1>17 DEF Copied, Nth, Pointer
    <2>2. value' \in [Nodes -> Values \cup {Freed}]
        BY <1>2, <1>10, <1>12 DEF TypeOK
    <2> QED
        BY <1>1, <1>2, <1>8, <1>9, <2>1, <2>2 DEF TypeOK, PointerTypes, Pointer
<1>20. Unused'
    <2>1. \A m \in Lists : m # o => order'[m] = order[m]
        BY <1>2, <1>6 DEF Spliced, TypeOK
    <2> QED
        BY <1>1, <1>2, <2>1 DEF Unused, Hidden, Emptying
<1>21. LoopList'
    BY <1>1, LoopsList DEF LoopList
<1> QED
    BY <1>1, <1>8, <1>18, <1>19, <1>20, <1>21
       DEF ListInv, LoopInv, EmptyInv, IterInv, SearchInv, IndexInv, AnswersRight

LEMMA DupDoneInv == ASSUME ListInv, DupDone PROVE ListInv'
<1>1. /\ op = "dup" /\ op' = "none" /\ res' = NULL /\ cur' = NULL /\ n' = 0 /\ ask' = NoAsk
      /\ start' = <<>> /\ seen' = <<>> /\ alive' = alive \cup {ask.o}
      /\ UNCHANGED <<head, tail, len, nodes, order>>
    BY DEF DupDone, Finish
<1>2. TypeOK /\ WellLinked /\ HeapExact /\ Unused /\ ask.o \in Lists
    BY <1>1 DEF ListInv, LoopInv, DupInv
<1>3. /\ \A m \in Lists : ~Emptying(m) /\ ~Emptying(m)' /\ ~Hidden(m)'
      /\ \A m \in Lists : m # ask.o => ~Hidden(m)
    BY <1>1 DEF Emptying, Hidden
<1>4. WellLinked' /\ HeapExact'
    BY <1>1, <1>2, <1>3, QuietKeeps
<1>5. TypeOK'
    BY <1>1, <1>2, NoAskType DEF TypeOK, nodes, Pointer
<1>6. Unused'
    BY <1>1, <1>2, <1>3 DEF Unused
<1> QED
    BY <1>1, <1>4, <1>5, <1>6, NoLoop DEF ListInv

LEMMA DupFailsInv == ASSUME ListInv, DupFails PROVE ListInv'
<1>1. /\ op = "dup" /\ op' = "release" /\ ask' = [NoAsk EXCEPT !.l = ask.o]
      /\ cur' = head[ask.o] /\ n' = len[ask.o] /\ start' = order[ask.o]
      /\ UNCHANGED <<lists, nodes, res, seen, order>>
    BY DEF DupFails
<1>2. TypeOK /\ WellLinked /\ HeapExact /\ Unused /\ ask.o \in Lists /\ seen = <<>>
    BY <1>1 DEF ListInv, LoopInv, DupInv
<1>3. ask'.l = ask.o
    BY <1>1 DEF NoAsk
<1>4. WellLinked' /\ HeapExact' /\ EmptyInv'
    BY <1>1, <1>2, <1>3, StartEmpty DEF lists
<1>5. /\ ask' \in [l : Lists \cup {NULL}, o : Lists \cup {NULL}, dir : {"head", "tail"},
                   v : Values \cup {NULL}, i : -MaxIndex..MaxIndex]
    BY <1>1, <1>2, NoAskType DEF NoAsk
<1>6. TypeOK'
    BY <1>1, <1>2, <1>5 DEF TypeOK, lists, nodes, Pointer
<1>7. Unused' /\ LoopList'
    BY <1>1, <1>2, <1>3 DEF Unused, Hidden, Emptying, LoopList, lists
<1> QED
    BY <1>1, <1>4, <1>6, <1>7 DEF ListInv, LoopInv, IterInv, SearchInv, IndexInv, DupInv, AnswersRight

-----------------------------------------------------------------------------
(* The invariant.                                                          *)

LEMMA ListInitInv == ListInit => ListInv
<1> SUFFICES ASSUME ListInit PROVE ListInv
    OBVIOUS
<1> USE AdListAssumption DEF ListInit
<1>1. \A l \in Lists : order[l] = <<>> /\ Len(order[l]) = 0 /\ ~Emptying(l)
    BY DEF Emptying
<1>2. TypeOK
    <2>1. <<>> \in Seq(Nodes)
        OBVIOUS
    <2> QED
        BY <2>1, NoAskType DEF TypeOK, Pointer
<1>3. WellLinked
    BY <1>1 DEF WellLinked, Links
<1>4. HeapExact
    <2>1. \A l \in Lists : Places(l) = {}
        BY <1>1 DEF Places
    <2> QED
        BY <2>1 DEF HeapExact
<1>5. Unused
    BY <1>1 DEF Unused
<1>6. LoopInv /\ AnswersRight
    BY DEF LoopInv, AnswersRight, LoopList, EmptyInv, IterInv, SearchInv, IndexInv, DupInv
<1> QED
    BY <1>2, <1>3, <1>4, <1>5, <1>6 DEF ListInv

LEMMA ListStutter == ASSUME ListInv, UNCHANGED listvars PROVE ListInv'
BY DEF ListInv, listvars, lists, nodes, loop, TypeOK, Pointer, WellLinked, Links, Emptying, HeapExact,
       Places, Unused, Hidden, LoopInv, LoopList, EmptyInv, IterInv, SearchInv, IndexInv, DupInv,
       AnswersRight

LEMMA ListNextInv == ASSUME ListInv, ListNext PROVE ListInv'
<1>1. ASSUME NEW l \in Lists, Call(l) PROVE ListInv'
    <2>1. ASSUME NEW x \in Nodes, NEW v \in Values, NewNode(l, x, v) PROVE ListInv'
        BY <2>1, NewNodeInv
    <2>2. ASSUME NEW i \in 1..Len(order[l]), DelNode(l, i) PROVE ListInv'
        BY <2>2, DelNodeInv
    <2>3. ASSUME NEW o \in Lists, Join(l, o) \/ BeginDup(l, o) PROVE ListInv'
        BY <2>3, JoinInv, BeginDupInv
    <2>4. ASSUME NEW o \in {"empty", "release"}, BeginEmpty(l, o) PROVE ListInv'
        BY <2>4, BeginEmptyInv
    <2>5. ASSUME NEW d \in {"head", "tail"}, BeginIter(l, d) PROVE ListInv'
        BY <2>5, BeginIterInv
    <2>6. ASSUME NEW v \in Values, BeginSearch(l, v) PROVE ListInv'
        BY <2>6, BeginSearchInv
    <2>7. ASSUME NEW i \in -MaxIndex..MaxIndex, BeginIndex(l, i) PROVE ListInv'
        BY <2>7, BeginIndexInv
    <2>8. CASE Create(l)
        BY <2>8, CreateInv
    <2>9. CASE Rotate(l)
        BY <2>9, RotateInv
    <2> QED
        BY <1>1, <2>1, <2>2, <2>3, <2>4, <2>5, <2>6, <2>7, <2>8, <2>9 DEF Call
<1>2. ASSUME LoopStep PROVE ListInv'
    BY <1>2, EmptyStepInv, EmptyDoneInv, IterNextInv, IterDelInv, IterEndInv, SearchStepInv,
       IndexStepInv, DupStepInv, DupDoneInv, DupFailsInv, ReturnInv DEF LoopStep
<1> QED
    BY <1>1, <1>2 DEF ListNext

\* At the end of an iteration every node was returned, in the order of its
\* direction.
LEMMA IterationEnds == ASSUME ListInv PROVE IterationComplete
<1> SUFFICES ASSUME op = "iter_ret"
             PROVE  seen = IF ask.dir = "head" THEN start ELSE Reverse(start)
    BY DEF IterationComplete
<1>1. /\ start \in Seq(Nodes) /\ seen \in Seq(Nodes) /\ ask.dir \in {"head", "tail"}
      /\ cur = NULL /\ IterInv
    BY DEF ListInv, TypeOK, LoopInv, IterInv
<1>p. PICK p \in Nat : p = Len(start)
    BY <1>1
<1>q. PICK q \in Nat : q = Len(seen)
    BY <1>1
<1>2. \A i \in 1..p : start[i] \in Nodes /\ start[i] # NULL
    BY <1>1, <1>p, AdListAssumption
<1>3. CASE ask.dir = "head"
    <2>1. PICK s, k : Forward(s, k, start, p, seen, q, NULL, res)
        BY <1>1, <1>3, <1>p, <1>q DEF IterInv
    <2>2. q = p
        BY <1>2, <2>1 DEF Forward, Nth
    <2>3. \A i \in 1..q : seen[i] = start[i]
        BY <2>1 DEF Forward
    <2>4. seen = start
        BY <1>1, <1>p, <1>q, <2>2, <2>3, SeqEqual
    <2> QED
        BY <1>3, <2>4
<1>4. CASE ask.dir = "tail"
    <2>1. PICK s, k : Backward(s, k, start, p, seen, q, NULL, res)
        BY <1>1, <1>4, <1>p, <1>q DEF IterInv
    <2>2. q = p
        BY <1>2, <2>1 DEF Backward, Nth
    <2>3. \A i \in 1..q : seen[i] = start[p - i + 1]
        BY <2>1 DEF Backward
    <2>4. DOMAIN seen = 1..q /\ seen = [i \in DOMAIN seen |-> seen[i]]
        BY <1>1, <1>q
    <2>5. Reverse(start) = [i \in 1..p |-> start[p - i + 1]]
        BY <1>p DEF Reverse
    <2>6. seen = Reverse(start)
        BY <2>2, <2>3, <2>4, <2>5
    <2> QED
        BY <1>4, <2>6
<1> QED
    BY <1>1, <1>3, <1>4

\* Whatever sequence of the functions of adlist.c is called, on any number of
\* lists, nodes and values: the pointers of each list describe the sequence it
\* should have, a node is allocated exactly if it is in a list and is there
\* once, an iteration returns every node although the caller removes some, and
\* listSearchKey and listIndex return what they should.
THEOREM ListsStaySound == AdListSpec => []ListsSound
<1>1. ListInit => ListInv
    BY ListInitInv
<1>2. ListInv /\ [ListNext]_listvars => ListInv'
    BY ListNextInv, ListStutter
<1>3. ListInv => ListsSound
    BY IterationEnds DEF ListInv, ListsSound
<1> QED
    BY <1>1, <1>2, <1>3, PTL DEF AdListSpec

-----------------------------------------------------------------------------
(* The refinement of ListSpec.  Following the pointers of a chain visits   *)
(* its nodes: the least place where it does not has one in front of it.    *)

LEMMA Least ==
    ASSUME NEW S \in SUBSET Nat, S # {}
    PROVE  \E m \in S : \A k \in S : m <= k
<1>1. PICK m \in S : \A k \in S : ~ (<<k, m>> \in OpToRel(<, Nat))
    BY NatLessThanWellFounded, WFMin
<1>2. \A k \in S : ~ (k < m)
    BY <1>1, Zenon DEF OpToRel
<1> QED
    BY <1>2

LEMMA TrailOfChain ==
    ASSUME NEW s, NEW k \in Nat, NEW h, NEW t, NEW nx, NEW pv,
           Chain(s, k, h, t, nx, pv), \A i \in 1..k : s[i] \in Nodes
    PROVE  \A i \in 1..k : Trail(h, nx, k)[i] = s[i]
<1> DEFINE F(f) == [i \in 1..k |-> IF i = 1 THEN h ELSE Follow(f[i - 1], nx)]
           g == [i \in 1..k |-> s[i]]
<1>1. \A i \in 1..k : i # 1 => i - 1 \in 1..k
    OBVIOUS
<1>2. ASSUME NEW i \in 1..k PROVE g[i] = IF i = 1 THEN h ELSE Follow(g[i - 1], nx)
    <2>1. CASE i = 1
        BY <2>1 DEF Chain, Nth
    <2>2. CASE i # 1
        <3>1. PICK j \in 1..k : j = i - 1 /\ i = j + 1
            BY <2>2
        <3>2. nx[s[j]] = s[i] /\ s[j] \in Nodes /\ g[j] = s[j] /\ g[i] = s[i]
            BY <3>1 DEF Chain, Nth
        <3> QED
            BY <2>2, <3>1, <3>2 DEF Follow
    <2> QED
        BY <2>1, <2>2
<1>3. g = F(g)
    BY <1>2
<1>4. Trail(h, nx, k) = CHOOSE f : f = F(f)
    BY Zenon DEF Trail
<1>5. \E f : f = F(f)
    BY <1>3, Zenon
<1> DEFINE w == Trail(h, nx, k)
<1>6. w = F(w)
    <2> HIDE DEF F
    <2> QED
        BY <1>4, <1>5, Zenon
<1> HIDE DEF w
<1>7. \A i \in 1..k : w[i] = IF i = 1 THEN h ELSE Follow(w[i - 1], nx)
    BY <1>6
<1>8. \A i \in 1..k : g[i] = s[i]
    OBVIOUS
<1> HIDE DEF g, F
<1> DEFINE S == {i \in 1..k : w[i] # g[i]}
<1>9. S = {}
    <2> SUFFICES ASSUME S # {} PROVE FALSE
        OBVIOUS
    <2>0. S \in SUBSET Nat
        OBVIOUS
    <2>1. PICK m \in S : \A i \in S : m <= i
        <3> HIDE DEF S
        <3> QED
            BY <2>0, Least
    <2>2. m \in 1..k /\ w[m] # g[m]
        OBVIOUS
    <2>3. m # 1
        BY <1>2, <1>7, <2>2
    <2>4. PICK j \in 1..k : j = m - 1 /\ j < m
        BY <2>2, <2>3
    <2>5. w[j] = g[j]
        BY <2>1, <2>2, <2>4
    <2> QED
        BY <1>2, <1>7, <2>2, <2>3, <2>4, <2>5
<1> QED
    BY <1>8, <1>9 DEF w

-----------------------------------------------------------------------------
(* The values of a list, and how they change with its nodes.               *)

ValuesOf(s, val) == [j \in 1..Len(s) |-> val[s[j]]]
Value == Values \cup {Freed}

LEMMA ValuesType ==
    ASSUME NEW s \in Seq(Nodes), NEW val \in [Nodes -> Value]
    PROVE  /\ ValuesOf(s, val) \in Seq(Value) /\ Len(ValuesOf(s, val)) = Len(s)
           /\ \A j \in 1..Len(s) : ValuesOf(s, val)[j] = val[s[j]]
<1> PICK k \in Nat : k = Len(s)
    OBVIOUS
<1>1. \A j \in 1..k : val[s[j]] \in Value
    OBVIOUS
<1>2. ValuesOf(s, val) = [j \in 1..k |-> val[s[j]]]
    BY DEF ValuesOf
<1> QED
    BY <1>1, <1>2

LEMMA ValuesEmpty == ASSUME NEW val PROVE ValuesOf(<<>>, val) = <<>>
<1>1. ValuesOf(<<>>, val) = [j \in 1..0 |-> val[<<>>[j]]]
    BY DEF ValuesOf
<1> QED
    BY <1>1

\* Two sequences of k elements that agree everywhere are equal.
LEMMA SameItems ==
    ASSUME NEW S, NEW a \in Seq(S), NEW b \in Seq(S), NEW k \in Nat, Len(a) = k, Len(b) = k,
           \A j \in 1..k : a[j] = b[j]
    PROVE  a = b
BY SeqEqual

\* The values do not depend on other nodes.
SameValues(s, val2, val) == \A j \in 1..Len(s) : val2[s[j]] = val[s[j]]
SameButAt(s, i, val2, val) == \A j \in 1..Len(s) : j # i => val2[s[j]] = val[s[j]]
LEMMA ValuesKept ==
    ASSUME NEW s, NEW val, NEW val2, SameValues(s, val2, val)
    PROVE  ValuesOf(s, val2) = ValuesOf(s, val)
BY DEF ValuesOf, SameValues

\* The values after an insertion, a removal, a rotation and a join.
LEMMA ValuesInserted ==
    ASSUME NEW s \in Seq(Nodes), NEW val \in [Nodes -> Value], NEW val2 \in [Nodes -> Value],
           NEW i \in 1..Len(s) + 1, NEW x \in Nodes, NEW v \in Value,
           SameValues(s, val2, val), val2[x] = v
    PROVE  ValuesOf(InsertAt(s, i, x), val2) = InsertAt(ValuesOf(s, val), i, v)
<1>k. PICK k \in Nat : k = Len(s)
    OBVIOUS
<1>r. PICK r : r = InsertAt(s, i, x)
    OBVIOUS
<1>1. r \in Seq(Nodes) /\ Len(r) = k + 1 /\ With(r, s, k, i, x)
    BY <1>k, <1>r, Inserted
<1>u. PICK u \in Seq(Value) : u = ValuesOf(s, val) /\ Len(u) = k /\ \A j \in 1..k : u[j] = val[s[j]]
    BY <1>k, ValuesType
<1>q. PICK q : q = InsertAt(u, i, v)
    OBVIOUS
<1>2. q \in Seq(Value) /\ Len(q) = k + 1 /\ With(q, u, k, i, v)
    BY <1>k, <1>u, <1>q, Inserted
<1>3. /\ ValuesOf(r, val2) \in Seq(Value) /\ Len(ValuesOf(r, val2)) = k + 1
      /\ \A j \in 1..k + 1 : ValuesOf(r, val2)[j] = val2[r[j]]
    BY <1>1, ValuesType
<1>4. ASSUME NEW j \in 1..k + 1 PROVE val2[r[j]] = q[j]
    <2>1. i \in 1..k + 1
        BY <1>k
    <2>2. CASE j < i
        <3>1. j \in 1..k
            BY <2>1, <2>2
        <3> QED
            BY <1>1, <1>2, <1>k, <1>u, <2>2, <3>1 DEF With, SameValues
    <2>3. CASE j = i
        BY <1>1, <1>2, <2>3 DEF With
    <2>4. CASE ~(j < i) /\ j # i
        <3>1. PICK h \in 1..k : h = j - 1
            BY <2>1, <2>4
        <3>2. r[j] = s[h] /\ q[j] = u[h]
            BY <1>1, <1>2, <2>4, <3>1 DEF With
        <3> QED
            BY <1>k, <1>u, <3>2 DEF SameValues
    <2> QED
        BY <2>2, <2>3, <2>4
<1>m. PICK m \in Nat : m = k + 1
    OBVIOUS
<1>5. ValuesOf(r, val2) = q
    BY <1>2, <1>3, <1>4, <1>m, SameItems
<1> QED
    BY <1>5, <1>q, <1>u, <1>r

LEMMA ValuesRemoved ==
    ASSUME NEW s \in Seq(Nodes), NEW val \in [Nodes -> Value], NEW val2 \in [Nodes -> Value],
           NEW i \in 1..Len(s), SameButAt(s, i, val2, val)
    PROVE  ValuesOf(RemoveAt(s, i), val2) = RemoveAt(ValuesOf(s, val), i)
<1>k. PICK k \in Nat : k = Len(s)
    OBVIOUS
<1>r. PICK r : r = RemoveAt(s, i)
    OBVIOUS
<1>1. r \in Seq(Nodes) /\ Len(r) = k - 1 /\ Without(r, s, k, i)
    BY <1>k, <1>r, Removed
<1>u. PICK u \in Seq(Value) : u = ValuesOf(s, val) /\ Len(u) = k /\ \A j \in 1..k : u[j] = val[s[j]]
    BY <1>k, ValuesType
<1>q. PICK q : q = RemoveAt(u, i)
    OBVIOUS
<1>2. q \in Seq(Value) /\ Len(q) = k - 1 /\ Without(q, u, k, i)
    BY <1>k, <1>u, <1>q, Removed
<1>m. PICK m \in Nat : m = k - 1
    BY <1>1
<1>3. /\ ValuesOf(r, val2) \in Seq(Value) /\ Len(ValuesOf(r, val2)) = m
      /\ \A j \in 1..m : ValuesOf(r, val2)[j] = val2[r[j]]
    BY <1>1, <1>m, ValuesType
<1>4. ASSUME NEW j \in 1..m PROVE val2[r[j]] = q[j]
    <2>1. i \in 1..k /\ j \in 1..k - 1 /\ j \in 1..k /\ j + 1 \in 1..k
        BY <1>k, <1>m
    <2>2. CASE j < i
        <3>1. r[j] = s[j] /\ q[j] = u[j] /\ j # i
            BY <1>1, <1>2, <2>1, <2>2 DEF Without
        <3> QED
            BY <1>k, <1>u, <2>1, <3>1 DEF SameButAt
    <2>3. CASE ~(j < i)
        <3>1. r[j] = s[j + 1] /\ q[j] = u[j + 1] /\ j + 1 # i
            BY <1>1, <1>2, <2>1, <2>3 DEF Without
        <3> QED
            BY <1>k, <1>u, <2>1, <3>1 DEF SameButAt
    <2> QED
        BY <2>2, <2>3
<1>5. ValuesOf(r, val2) = q
    BY <1>2, <1>m, <1>3, <1>4, SameItems
<1> QED
    BY <1>5, <1>q, <1>u, <1>r

LEMMA ValuesRotated ==
    ASSUME NEW s \in Seq(Nodes), NEW val \in [Nodes -> Value], Len(s) > 0
    PROVE  ValuesOf(<<Last(s)>> \o Front(s), val)
           = <<Last(ValuesOf(s, val))>> \o Front(ValuesOf(s, val))
<1>k. PICK k \in Nat : k = Len(s)
    OBVIOUS
<1>r. PICK r : r = <<Last(s)>> \o Front(s)
    OBVIOUS
<1>1. r \in Seq(Nodes) /\ Len(r) = k /\ Turned(r, s, k)
    BY <1>k, <1>r, Rotated
<1>u. PICK u \in Seq(Value) : u = ValuesOf(s, val) /\ Len(u) = k /\ \A j \in 1..k : u[j] = val[s[j]]
    BY <1>k, ValuesType
<1>q. PICK q : q = <<Last(u)>> \o Front(u)
    OBVIOUS
<1>2. q \in Seq(Value) /\ Len(q) = k /\ Turned(q, u, k)
    BY <1>k, <1>u, <1>q, Rotated
<1>3. /\ ValuesOf(r, val) \in Seq(Value) /\ Len(ValuesOf(r, val)) = k
      /\ \A j \in 1..k : ValuesOf(r, val)[j] = val[r[j]]
    BY <1>1, ValuesType
<1>4. ASSUME NEW j \in 1..k PROVE val[r[j]] = q[j]
    <2>1. PICK h \in 1..k : h = IF j = 1 THEN k ELSE j - 1
        BY <1>k
    <2>2. r[j] = s[h] /\ q[j] = u[h]
        BY <1>1, <1>2, <2>1 DEF Turned
    <2> QED
        BY <1>u, <2>2
<1>5. ValuesOf(r, val) = q
    BY <1>2, <1>3, <1>4, SameItems
<1> QED
    BY <1>5, <1>q, <1>u, <1>r

LEMMA ValuesJoined ==
    ASSUME NEW s \in Seq(Nodes), NEW p \in Seq(Nodes), NEW val \in [Nodes -> Value]
    PROVE  ValuesOf(s \o p, val) = ValuesOf(s, val) \o ValuesOf(p, val)
<1>k. PICK k \in Nat : k = Len(s)
    OBVIOUS
<1>h. PICK h \in Nat : h = Len(p)
    OBVIOUS
<1>r. PICK r : r = s \o p
    OBVIOUS
<1>1. r \in Seq(Nodes) /\ Len(r) = k + h /\ Followed(r, s, k, p, h)
    BY <1>k, <1>h, <1>r, Joined
<1>u. PICK u \in Seq(Value) : u = ValuesOf(s, val) /\ Len(u) = k /\ \A j \in 1..k : u[j] = val[s[j]]
    BY <1>k, ValuesType
<1>w. PICK w \in Seq(Value) : w = ValuesOf(p, val) /\ Len(w) = h /\ \A j \in 1..h : w[j] = val[p[j]]
    BY <1>h, ValuesType
<1>q. PICK q : q = u \o w
    OBVIOUS
<1>2. q \in Seq(Value) /\ Len(q) = k + h /\ Followed(q, u, k, w, h)
    BY <1>u, <1>w, <1>q, Joined
<1>m. PICK m \in Nat : m = k + h
    OBVIOUS
<1>3. /\ ValuesOf(r, val) \in Seq(Value) /\ Len(ValuesOf(r, val)) = m
      /\ \A j \in 1..m : ValuesOf(r, val)[j] = val[r[j]]
    BY <1>1, <1>m, ValuesType
<1>4. ASSUME NEW j \in 1..m PROVE val[r[j]] = q[j]
    <2>1. j \in 1..k + h
        BY <1>m
    <2>2. CASE j <= k
        BY <1>1, <1>2, <1>u, <2>1, <2>2 DEF Followed
    <2>3. CASE ~(j <= k)
        <3>1. j - k \in 1..h
            BY <2>1, <2>3
        <3> QED
            BY <1>1, <1>2, <1>w, <2>1, <2>3, <3>1 DEF Followed
    <2> QED
        BY <2>2, <2>3
<1>5. Len(q) = m /\ Len(ValuesOf(r, val)) = m
    BY <1>2, <1>3, <1>m
<1>6. \A j \in 1..m : ValuesOf(r, val)[j] = q[j]
    BY <1>3, <1>4
<1>7. ValuesOf(r, val) = q
    BY <1>2, <1>3, <1>5, <1>6, SameItems
<1> QED
    BY <1>7, <1>q, <1>u, <1>w, <1>r

-----------------------------------------------------------------------------
(* What the pointers show is the history with its values.                  *)

LEMMA WalkOfChain ==
    ASSUME NEW s \in Seq(Nodes), NEW h, NEW t, NEW nx, NEW pv, NEW val,
           Chain(s, Len(s), h, t, nx, pv)
    PROVE  Walk(h, nx, val, Len(s)) = ValuesOf(s, val)
<1>k. PICK k \in Nat : k = Len(s)
    OBVIOUS
<1>1. \A i \in 1..k : s[i] \in Nodes
    BY <1>k
<1>2. Chain(s, k, h, t, nx, pv)
    BY <1>k
<1>3. \A i \in 1..k : Trail(h, nx, k)[i] = s[i]
    BY <1>1, <1>2, TrailOfChain
<1>4. Walk(h, nx, val, k) = [i \in 1..k |-> val[s[i]]]
    BY <1>1, <1>3 DEF Walk
<1> QED
    BY <1>4, <1>k DEF ValuesOf

Item(l) == IF Hidden(l) THEN <<>> ELSE ValuesOf(order[l], value)
Contents == [l \in Lists |-> Item(l)]

LEMMA ShownRight == ListInv => Shown = Contents
<1> SUFFICES ASSUME ListInv, NEW l \in Lists, ~Hidden(l)
             PROVE  Walk(head[l], next, value, len[l]) = ValuesOf(order[l], value)
    BY DEF Shown, Contents, Item
<1>1. order[l] \in Seq(Nodes)
    BY DEF ListInv, TypeOK
<1>2. Links(l, order[l])
    BY DEF ListInv, WellLinked, Hidden
<1>3. /\ len[l] = Len(order[l])
      /\ Chain(order[l], Len(order[l]), head[l], tail[l], next, prev)
    BY <1>1, <1>2, LinksAreChain
<1> QED
    BY <1>1, <1>3, WalkOfChain

LEMMA ShownRightNext == (ListInv => Shown = Contents)'
BY ShownRight, PTL

\* What a step of a list must do.
AbstractStep == Abstract!Next \/ UNCHANGED <<Existing, Shown>>

LEMMA ItemType ==
    ASSUME ListInv, NEW l \in Lists, ~Hidden(l)
    PROVE  /\ order[l] \in Seq(Nodes) /\ value \in [Nodes -> Value]
           /\ Contents[l] = ValuesOf(order[l], value) /\ Len(Contents[l]) = Len(order[l])
<1>1. order[l] \in Seq(Nodes) /\ value \in [Nodes -> Value]
    BY DEF ListInv, TypeOK, Value
<1>2. Contents[l] = ValuesOf(order[l], value)
    BY DEF Contents, Item
<1> QED
    BY <1>1, <1>2, ValuesType

\* A list whose nodes keep their values shows what it showed.
LEMMA ItemKept ==
    ASSUME NEW m \in Lists, order'[m] = order[m], Hidden(m)' <=> Hidden(m),
           ~Hidden(m) => SameValues(order[m], value', value)
    PROVE  Contents'[m] = Contents[m]
<1>1. Contents'[m] = Item(m)' /\ Contents[m] = Item(m)
    BY DEF Contents
<1>2. CASE Hidden(m)
    BY <1>1, <1>2 DEF Item
<1>3. CASE ~Hidden(m)
    <2>1. ValuesOf(order[m], value') = ValuesOf(order[m], value)
        BY <1>3, ValuesKept
    <2> QED
        BY <1>1, <1>3, <2>1 DEF Item
<1> QED
    BY <1>2, <1>3

\* A node that is not allocated is in no list, and a node is in one place.
LEMMA FreshNode ==
    ASSUME ListInv, NEW m \in Lists, ~Emptying(m), NEW x \in Nodes \ heap, NEW v,
           value' = [value EXCEPT ![x] = v]
    PROVE  SameValues(order[m], value', value)
<1>1. /\ order[m] \in Seq(Nodes) /\ value \in [Nodes -> Values \cup {Freed}] /\ HeapExact
      /\ Places(m) = 1..Len(order[m])
    BY DEF ListInv, TypeOK, Places
<1>2. ASSUME NEW j \in 1..Len(order[m]) PROVE value'[order[m][j]] = value[order[m][j]]
    <2>1. order[m][j] \in Nodes
        BY <1>1
    <2>2. order[m][j] \in heap
        BY <1>1, <2>1, PlacesInHeap
    <2> QED
        BY <1>1, <2>1, <2>2
<1> QED
    BY <1>2 DEF SameValues

LEMMA OtherNode ==
    ASSUME ListInv, NEW l \in Lists, NEW m \in Lists, ~Emptying(m), NEW i \in Places(l), m # l,
           value' = [value EXCEPT ![order[l][i]] = Freed]
    PROVE  SameValues(order[m], value', value)
<1>1. /\ order[m] \in Seq(Nodes) /\ value \in [Nodes -> Values \cup {Freed}] /\ HeapExact
      /\ Places(m) = 1..Len(order[m])
    BY DEF ListInv, TypeOK, Places
<1>2. ASSUME NEW j \in 1..Len(order[m]) PROVE value'[order[m][j]] = value[order[m][j]]
    <2>1. order[m][j] \in Nodes
        BY <1>1
    <2>2. order[m][j] # order[l][i]
        BY <1>1, OneNodePerPlace
    <2> QED
        BY <1>1, <2>1, <2>2
<1> QED
    BY <1>2 DEF SameValues

\* The contents after a step are those of every list after it.
LEMMA OneItem ==
    ASSUME NEW l \in Lists, NEW e, Contents'[l] = e,
           \A m \in Lists : m # l => Contents'[m] = Contents[m]
    PROVE  Contents' = [Contents EXCEPT ![l] = e]
<1>1. Contents = [m \in Lists |-> Contents[m]] /\ Contents' = [m \in Lists |-> Contents'[m]]
    BY DEF Contents
<1>2. \A m \in Lists : Contents'[m] = [Contents EXCEPT ![l] = e][m]
    BY <1>1
<1>3. [Contents EXCEPT ![l] = e] = [m \in Lists |-> [Contents EXCEPT ![l] = e][m]]
    BY <1>1
<1> QED
    BY <1>1, <1>2, <1>3

LEMMA NoItem ==
    ASSUME \A m \in Lists : Contents'[m] = Contents[m]
    PROVE  Contents' = Contents
BY DEF Contents

\* A step that keeps the lists that exist and what they contain is a stutter.
LEMMA Stutters ==
    ASSUME ListInv, ListInv', Existing' = Existing,
           \A m \in Lists : Contents'[m] = Contents[m]
    PROVE  AbstractStep
BY ShownRight, ShownRightNext, NoItem DEF AbstractStep

-----------------------------------------------------------------------------
(* Each function is one step of the abstract specification.                *)

LEMMA SplicedShown ==
    ASSUME ListInv, ListInv', op = "none", NEW l \in Lists, l \in alive,
           NEW i \in 1..Len(order[l]) + 1, NEW x \in Nodes \ heap, NEW v \in Values,
           Spliced(l, i, x), value' = [value EXCEPT ![x] = v], UNCHANGED <<alive, loop>>
    PROVE  AbstractStep
<1>1. /\ \A m \in Lists : ~Hidden(m) /\ ~Hidden(m)' /\ ~Emptying(m)
      /\ Existing = alive /\ Existing' = alive
    BY DEF Hidden, Emptying, loop, Existing
<1>2. order'[l] = InsertAt(order[l], i, x) /\ \A m \in Lists : m # l => order'[m] = order[m]
    BY DEF Spliced, ListInv, TypeOK
<1>3. /\ order[l] \in Seq(Nodes) /\ value \in [Nodes -> Value] /\ value' \in [Nodes -> Value]
      /\ Contents[l] = ValuesOf(order[l], value) /\ Len(Contents[l]) = Len(order[l])
      /\ v \in Value /\ value'[x] = v
    <2>1. value' \in [Nodes -> Value] /\ v \in Value
        BY DEF ListInv, TypeOK, Value
    <2> QED
        BY <1>1, <2>1, ItemType
<1>4. \A m \in Lists : SameValues(order[m], value', value)
    BY <1>1, FreshNode
<1>5. Contents'[l] = InsertAt(Contents[l], i, v)
    <2>1. Contents'[l] = ValuesOf(InsertAt(order[l], i, x), value')
        BY <1>1, <1>2 DEF Contents, Item
    <2>2. ValuesOf(InsertAt(order[l], i, x), value') = InsertAt(ValuesOf(order[l], value), i, v)
        <3>1. PICK s \in Seq(Nodes) : s = order[l]
            BY <1>3
        <3>2. PICK val \in [Nodes -> Value] : val = value
            BY <1>3
        <3>3. PICK val2 \in [Nodes -> Value] : val2 = value'
            BY <1>3
        <3>4. i \in 1..Len(s) + 1 /\ SameValues(s, val2, val) /\ val2[x] = v /\ v \in Value
            BY <1>3, <1>4, <3>1, <3>2, <3>3
        <3>5. ValuesOf(InsertAt(s, i, x), val2) = InsertAt(ValuesOf(s, val), i, v)
            BY <3>4, ValuesInserted, SMTT(20)
        <3> QED
            BY <3>1, <3>2, <3>3, <3>5
    <2> QED
        BY <1>3, <2>1, <2>2
<1>6. \A m \in Lists : m # l => Contents'[m] = Contents[m]
    BY <1>1, <1>2, <1>4, ItemKept
<1>7. Shown' = [Shown EXCEPT ![l] = InsertAt(Shown[l], i, v)]
    BY <1>5, <1>6, OneItem, ShownRight, ShownRightNext
<1>8. l \in Existing /\ i \in 1..Len(Shown[l]) + 1
    BY <1>1, <1>3, ShownRight
<1>9. Abstract!Insert(l, i, v)
    BY <1>1, <1>7 DEF Abstract!Insert, Abstract!InsertAt, InsertAt
<1> QED
    BY <1>8, <1>9 DEF AbstractStep, Abstract!Next

LEMMA UnlinkShown ==
    ASSUME ListInv, ListInv', NEW l \in Lists, l \in alive, NEW i \in 1..Len(order[l]),
           op \notin {"empty", "release", "dup"}, op' = op, ask' = ask,
           Unlink(l, order[l][i], i)
    PROVE  AbstractStep
<1>1. /\ \A m \in Lists : ~Hidden(m) /\ ~Hidden(m)' /\ ~Emptying(m)
      /\ Existing = alive /\ Existing' = alive
    BY DEF Hidden, Emptying, Existing, Unlink
<1>2. order'[l] = RemoveAt(order[l], i) /\ \A m \in Lists : m # l => order'[m] = order[m]
    BY DEF Unlink, ListInv, TypeOK
<1>3. /\ order[l] \in Seq(Nodes) /\ value \in [Nodes -> Value] /\ value' \in [Nodes -> Value]
      /\ Contents[l] = ValuesOf(order[l], value) /\ Len(Contents[l]) = Len(order[l])
      /\ Places(l) = 1..Len(order[l]) /\ HeapExact
    <2>1. value' \in [Nodes -> Value] /\ Places(l) = 1..Len(order[l]) /\ HeapExact
        BY <1>1 DEF ListInv, TypeOK, Value, Places
    <2> QED
        BY <1>1, <2>1, ItemType
<1>4. value' = [value EXCEPT ![order[l][i]] = Freed]
    BY DEF Unlink
<1>5. Contents'[l] = RemoveAt(Contents[l], i)
    <2>1. Contents'[l] = ValuesOf(RemoveAt(order[l], i), value')
        BY <1>1, <1>2 DEF Contents, Item
    <2>2. ASSUME NEW j \in 1..Len(order[l]), j # i
          PROVE  value'[order[l][j]] = value[order[l][j]]
        <3>1. order[l][j] \in Nodes
            BY <1>3
        <3>2. order[l][j] # order[l][i]
            BY <1>3, <2>2, OneNodePerPlace
        <3> QED
            BY <1>3, <1>4, <3>1, <3>2
    <2>3. SameButAt(order[l], i, value', value)
        BY <2>2 DEF SameButAt
    <2>4. ValuesOf(RemoveAt(order[l], i), value') = RemoveAt(ValuesOf(order[l], value), i)
        BY <1>3, <2>3, ValuesRemoved
    <2> QED
        BY <1>3, <2>1, <2>4
<1>6. \A m \in Lists : m # l => Contents'[m] = Contents[m]
    <2> SUFFICES ASSUME NEW m \in Lists, m # l PROVE Contents'[m] = Contents[m]
        OBVIOUS
    <2>1. SameValues(order[m], value', value)
        BY <1>1, <1>3, <1>4, OtherNode
    <2> QED
        BY <1>1, <1>2, <2>1, ItemKept
<1>7. Shown' = [Shown EXCEPT ![l] = RemoveAt(Shown[l], i)]
    BY <1>5, <1>6, OneItem, ShownRight, ShownRightNext
<1>8. l \in Existing /\ i \in 1..Len(Shown[l])
    BY <1>1, <1>3, ShownRight
<1>9. Abstract!Delete(l, i)
    BY <1>1, <1>7 DEF Abstract!Delete, Abstract!RemoveAt, RemoveAt
<1> QED
    BY <1>8, <1>9 DEF AbstractStep, Abstract!Next

LEMMA RotateShown ==
    ASSUME ListInv, ListInv', NEW l \in Lists, Rotate(l)
    PROVE  AbstractStep
<1>1. /\ \A m \in Lists : ~Hidden(m) /\ ~Hidden(m)' /\ ~Emptying(m)
      /\ Existing = alive /\ Existing' = alive /\ l \in alive /\ value' = value
    BY DEF Hidden, Emptying, Existing, Rotate, Idle, loop
<1>2. /\ order'[l] = <<Last(order[l])>> \o Front(order[l])
      /\ \A m \in Lists : m # l => order'[m] = order[m]
    BY DEF Rotate, ListInv, TypeOK
<1>3. /\ order[l] \in Seq(Nodes) /\ value \in [Nodes -> Value]
      /\ Contents[l] = ValuesOf(order[l], value) /\ Len(Contents[l]) = Len(order[l])
    BY <1>1, ItemType
<1>4. Len(order[l]) > 0
    BY <1>1 DEF ListInv, WellLinked, Links, Rotate, TypeOK
<1>5. Contents'[l] = <<Last(Contents[l])>> \o Front(Contents[l])
    <2>1. Contents'[l] = ValuesOf(<<Last(order[l])>> \o Front(order[l]), value)
        BY <1>1, <1>2 DEF Contents, Item
    <2> QED
        BY <1>3, <1>4, <2>1, ValuesRotated
<1>6. \A m \in Lists : m # l => Contents'[m] = Contents[m]
    BY <1>1, <1>2, ItemKept DEF SameValues
<1>7. Shown' = [Shown EXCEPT ![l] = <<Last(Shown[l])>> \o Front(Shown[l])]
    BY <1>5, <1>6, OneItem, ShownRight, ShownRightNext
<1>8. l \in Existing /\ Shown[l] # <<>>
    BY <1>1, <1>3, <1>4, ShownRight
<1>9. Abstract!Rotate(l)
    BY <1>1, <1>7, <1>8
    DEF Abstract!Rotate, Abstract!Last, Abstract!Front, Last, Front
<1> QED
    BY <1>8, <1>9 DEF AbstractStep, Abstract!Next

LEMMA JoinShown ==
    ASSUME ListInv, ListInv', NEW l \in Lists, NEW o \in Lists, Join(l, o)
    PROVE  AbstractStep
<1>1. /\ \A m \in Lists : ~Hidden(m) /\ ~Hidden(m)' /\ ~Emptying(m)
      /\ Existing = alive /\ Existing' = alive /\ l \in alive /\ o \in alive /\ l # o
      /\ value' = value
    BY DEF Hidden, Emptying, Existing, Join, Idle, loop
<1>2. /\ order'[l] = order[l] \o order[o] /\ order'[o] = <<>>
      /\ \A m \in Lists : m \notin {l, o} => order'[m] = order[m]
    BY <1>1 DEF Join, ListInv, TypeOK
<1>3. /\ order[l] \in Seq(Nodes) /\ order[o] \in Seq(Nodes) /\ value \in [Nodes -> Value]
      /\ Contents[l] = ValuesOf(order[l], value) /\ Contents[o] = ValuesOf(order[o], value)
    BY <1>1, ItemType
<1>4. Contents'[l] = Contents[l] \o Contents[o]
    <2>1. Contents'[l] = ValuesOf(order[l] \o order[o], value)
        BY <1>1, <1>2 DEF Contents, Item
    <2> QED
        BY <1>3, <2>1, ValuesJoined
<1>5. Contents'[o] = <<>>
    BY <1>1, <1>2, ValuesEmpty DEF Contents, Item
<1>6. \A m \in Lists : m \notin {l, o} => Contents'[m] = Contents[m]
    BY <1>1, <1>2, ItemKept DEF SameValues
<1>7. Contents' = [Contents EXCEPT ![l] = Contents[l] \o Contents[o], ![o] = <<>>]
    <2> DEFINE E == [Contents EXCEPT ![l] = Contents[l] \o Contents[o], ![o] = <<>>]
    <2>1. Contents = [m \in Lists |-> Contents[m]] /\ Contents' = [m \in Lists |-> Contents'[m]]
        BY DEF Contents
    <2>2. /\ E = [m \in Lists |-> E[m]] /\ E[o] = <<>> /\ E[l] = Contents[l] \o Contents[o]
          /\ \A m \in Lists : m \notin {l, o} => E[m] = Contents[m]
        BY <1>1, <2>1
    <2> HIDE DEF E
    <2>3. \A m \in Lists : Contents'[m] = E[m]
        BY <1>4, <1>5, <1>6, <2>2
    <2>4. Contents' = E
        BY <2>1, <2>2, <2>3
    <2> QED
        BY <2>4 DEF E
<1>8. Abstract!Join(l, o)
    BY <1>1, <1>7, ShownRight, ShownRightNext DEF Abstract!Join
<1> QED
    BY <1>1, <1>8 DEF AbstractStep, Abstract!Next

LEMMA CreateShown ==
    ASSUME ListInv, ListInv', NEW l \in Lists, Create(l)
    PROVE  AbstractStep
<1>1. /\ \A m \in Lists : (Hidden(m)' <=> Hidden(m)) /\ ~Emptying(m)
      /\ Existing = alive /\ Existing' = alive \cup {l} /\ l \notin alive
      /\ value' = value /\ order' = order
    BY DEF Hidden, Emptying, Existing, Create, loop, nodes
<1>2. \A m \in Lists : Contents'[m] = Contents[m]
    BY <1>1, ItemKept DEF SameValues
<1>3. Abstract!Create(l)
    BY <1>1, <1>2, NoItem, ShownRight, ShownRightNext DEF Abstract!Create
<1> QED
    BY <1>3 DEF AbstractStep, Abstract!Next

\* Nothing is shown of a list from the call of listEmpty or listRelease on.
LEMMA BeginEmptyShown ==
    ASSUME ListInv, ListInv', NEW l \in Lists, NEW o \in {"empty", "release"}, BeginEmpty(l, o)
    PROVE  AbstractStep
<1>1. /\ \A m \in Lists : ~Hidden(m)
      /\ Existing = alive /\ l \in alive /\ op' = o /\ ask'.l = l /\ alive' = alive
      /\ value' = value /\ order' = order
    BY DEF Hidden, Emptying, Existing, BeginEmpty, Begin, lists, nodes, NoAsk
<1>2. Hidden(l)' /\ \A m \in Lists : m # l => ~Hidden(m)'
    BY <1>1 DEF Hidden, Emptying
<1>3. \A m \in Lists : m # l => Contents'[m] = Contents[m]
    BY <1>1, <1>2, ItemKept DEF SameValues
<1>4. Contents'[l] = <<>>
    BY <1>2 DEF Contents, Item
<1>5. Shown' = [Shown EXCEPT ![l] = <<>>]
    BY <1>3, <1>4, OneItem, ShownRight, ShownRightNext
<1>6. CASE o = "empty"
    <2>1. Existing' = alive
        BY <1>1, <1>6 DEF Existing
    <2>2. Abstract!Empty(l)
        BY <1>1, <1>5, <2>1 DEF Abstract!Empty
    <2> QED
        BY <1>1, <2>2 DEF AbstractStep, Abstract!Next
<1>7. CASE o = "release"
    <2>1. Existing' = alive \ {l}
        BY <1>1, <1>7 DEF Existing
    <2>2. Abstract!Release(l)
        BY <1>1, <1>5, <2>1 DEF Abstract!Release
    <2> QED
        BY <1>1, <2>2 DEF AbstractStep, Abstract!Next
<1> QED
    BY <1>6, <1>7

\* The steps that free the nodes are not seen.
LEMMA EmptyStepShown ==
    ASSUME ListInv, ListInv', EmptyStep
    PROVE  AbstractStep
<1>1. /\ op \in {"empty", "release"} /\ n > 0 /\ op' = op /\ ask' = ask /\ alive' = alive
      /\ order' = order /\ value' = [value EXCEPT ![cur] = Freed]
    BY DEF EmptyStep, lists
<1>l. PICK l \in Lists : l = ask.l
    BY <1>1 DEF ListInv, LoopInv, LoopList
<1>s. PICK s \in Seq(Nodes) : s = order[l]
    BY DEF ListInv, TypeOK
<1>k. PICK k \in Nat : k = Len(s)
    OBVIOUS
<1>q. PICK q \in Nat : q = Len(seen)
    BY DEF ListInv, TypeOK
<1>2. Emptied(s, k, q, n, cur, next)
    BY <1>1, <1>l, <1>s, <1>k, <1>q DEF ListInv, LoopInv, EmptyInv
<1>3. PICK i \in 1..k : i = q + 1 /\ cur = s[i]
    BY <1>1, <1>2 DEF Emptied, Nth
<1>4. i \in Places(l) /\ cur = order[l][i]
    BY <1>3, <1>s, <1>k, <1>q DEF Places
<1>5. Existing' = Existing /\ \A m \in Lists : Hidden(m)' <=> Hidden(m)
    BY <1>1 DEF Existing, Hidden, Emptying
<1>6. ASSUME NEW m \in Lists, ~Hidden(m) PROVE SameValues(order[m], value', value)
    <2>1. ~Emptying(m) /\ m # l
        BY <1>1, <1>l, <1>6 DEF Hidden, Emptying
    <2> QED
        BY <1>1, <1>4, <2>1, OtherNode
<1>7. \A m \in Lists : Contents'[m] = Contents[m]
    BY <1>1, <1>5, <1>6, ItemKept
<1> QED
    BY <1>5, <1>7, Stutters

LEMMA EmptyDoneShown ==
    ASSUME ListInv, ListInv', EmptyDone
    PROVE  AbstractStep
<1>1. /\ op \in {"empty", "release"} /\ op' = "none" /\ value' = value
      /\ alive' = IF op = "release" THEN alive \ {ask.l} ELSE alive
      /\ order' = [order EXCEPT ![ask.l] = <<>>]
    BY DEF EmptyDone, Finish, nodes
<1>l. PICK l \in Lists : l = ask.l
    BY <1>1 DEF ListInv, LoopInv, LoopList
<1>2. /\ Existing' = Existing /\ Hidden(l)
      /\ \A m \in Lists : ~Hidden(m)' /\ (m # l => ~Hidden(m))
    BY <1>1, <1>l DEF Existing, Hidden, Emptying
<1>3. order'[l] = <<>> /\ \A m \in Lists : m # l => order'[m] = order[m]
    BY <1>1, <1>l DEF ListInv, TypeOK
<1>4. Contents[l] = <<>> /\ Contents'[l] = <<>>
    BY <1>2, <1>3, ValuesEmpty DEF Contents, Item
<1>5. \A m \in Lists : m # l => Contents'[m] = Contents[m]
    BY <1>1, <1>2, <1>3, ItemKept DEF SameValues
<1> QED
    BY <1>2, <1>4, <1>5, Stutters

\* A copy is not seen before listDup returns it.
LEMMA BeginDupShown ==
    ASSUME ListInv, ListInv', NEW l \in Lists, NEW o \in Lists, BeginDup(l, o)
    PROVE  AbstractStep
<1>1. /\ op = "none" /\ op' = "dup" /\ ask'.o = o /\ alive' = alive /\ o \notin alive
      /\ value' = value /\ order' = order
    BY DEF BeginDup, Begin, lists, nodes, NoAsk
<1>2. /\ Existing' = Existing /\ Hidden(o)'
      /\ \A m \in Lists : ~Hidden(m) /\ (m # o => ~Hidden(m)')
    BY <1>1 DEF Existing, Hidden, Emptying
<1>3. order[o] = <<>>
    BY <1>1, <1>2 DEF ListInv, Unused
<1>4. Contents[o] = <<>> /\ Contents'[o] = <<>>
    BY <1>2, <1>3, ValuesEmpty DEF Contents, Item
<1>5. \A m \in Lists : m # o => Contents'[m] = Contents[m]
    BY <1>1, <1>2, ItemKept DEF SameValues
<1> QED
    BY <1>2, <1>4, <1>5, Stutters

LEMMA DupStepShown ==
    ASSUME ListInv, ListInv', NEW x \in Nodes, DupStep(x)
    PROVE  AbstractStep
<1>1. /\ op = "dup" /\ op' = op /\ ask' = ask /\ alive' = alive /\ x \notin heap
      /\ value' = [value EXCEPT ![x] = value[cur]]
      /\ order' = [order EXCEPT ![ask.o] = InsertAt(@, Len(@) + 1, x)]
    BY DEF DupStep, LinkTail
<1>2. /\ Existing' = Existing /\ \A m \in Lists : (Hidden(m)' <=> Hidden(m)) /\ ~Emptying(m)
    BY <1>1 DEF Existing, Hidden, Emptying
<1>3. ASSUME NEW m \in Lists PROVE Contents'[m] = Contents[m]
    <2>1. CASE Hidden(m)
        BY <1>2, <2>1 DEF Contents, Item
    <2>2. CASE ~Hidden(m)
        <3>1. m # ask.o
            BY <1>1, <2>2 DEF Hidden
        <3>2. order'[m] = order[m]
            BY <1>1, <3>1 DEF ListInv, TypeOK
        <3>3. SameValues(order[m], value', value)
            BY <1>1, <1>2, FreshNode
        <3> QED
            BY <1>2, <3>2, <3>3, ItemKept
    <2> QED
        BY <2>1, <2>2
<1> QED
    BY <1>2, <1>3, Stutters

LEMMA DupDoneShown ==
    ASSUME ListInv, ListInv', DupDone
    PROVE  AbstractStep
<1>1. /\ op = "dup" /\ cur = NULL /\ op' = "none" /\ alive' = alive \cup {ask.o}
      /\ value' = value /\ order' = order
    BY DEF DupDone, Finish, nodes
<1>2. DupInv /\ TypeOK
    BY DEF ListInv, LoopInv
<1>l. PICK l \in Lists : l = ask.l /\ l \in alive
    BY <1>1, LoopsList
<1>o. PICK o \in Lists : o = ask.o /\ o \notin alive
    BY <1>1, <1>2 DEF DupInv
<1>3. /\ Existing = alive /\ Existing' = alive \cup {o} /\ l # o /\ Hidden(o)
      /\ \A m \in Lists : ~Hidden(m)' /\ (m # o => ~Hidden(m))
    BY <1>1, <1>l, <1>o DEF Existing, Hidden, Emptying
<1>s. PICK s \in Seq(Nodes) : s = order[l]
    BY <1>2 DEF TypeOK
<1>d. PICK d \in Seq(Nodes) : d = order[o]
    BY <1>2 DEF TypeOK
<1>k. PICK k \in Nat : k = Len(s)
    OBVIOUS
<1>q. PICK q \in Nat : q = Len(d)
    OBVIOUS
<1>4. Copied(s, k, d, q, value, NULL)
    BY <1>1, <1>2, <1>l, <1>o, <1>s, <1>d, <1>k, <1>q DEF DupInv
<1>5. \A i \in 1..k : s[i] # NULL
    BY <1>k, AdListAssumption
<1>6. q = k
    BY <1>4, <1>5 DEF Copied, Nth
<1>7. ValuesOf(d, value) = ValuesOf(s, value)
    <2>1. \A i \in 1..k : value[d[i]] = value[s[i]]
        BY <1>4, <1>6 DEF Copied
    <2> QED
        BY <1>6, <1>k, <1>q, <2>1 DEF ValuesOf
<1>8. Contents[l] = ValuesOf(s, value) /\ Contents'[o] = ValuesOf(d, value)
    BY <1>1, <1>3, <1>s, <1>d DEF Contents, Item
<1>9. \A m \in Lists : m # o => Contents'[m] = Contents[m]
    BY <1>1, <1>3, ItemKept DEF SameValues
<1>10. Shown' = [Shown EXCEPT ![o] = Shown[l]]
    BY <1>7, <1>8, <1>9, OneItem, ShownRight, ShownRightNext
<1>11. Abstract!Dup(l, o)
    BY <1>3, <1>o, <1>10 DEF Abstract!Dup
<1> QED
    BY <1>3, <1>l, <1>11 DEF AbstractStep, Abstract!Next

LEMMA DupFailsShown ==
    ASSUME ListInv, ListInv', DupFails
    PROVE  AbstractStep
<1>1. /\ op = "dup" /\ op' = "release" /\ ask'.l = ask.o /\ alive' = alive
      /\ value' = value /\ order' = order
    BY DEF DupFails, lists, nodes, NoAsk
<1>2. ask.o \notin alive
    BY <1>1 DEF ListInv, LoopInv, DupInv
<1>3. Existing' = Existing /\ \A m \in Lists : Hidden(m)' <=> Hidden(m)
    BY <1>1, <1>2 DEF Existing, Hidden, Emptying
<1>4. \A m \in Lists : Contents'[m] = Contents[m]
    BY <1>1, <1>3, ItemKept DEF SameValues
<1> QED
    BY <1>3, <1>4, Stutters

\* Iterations, searches and indices change no list.
LEMMA ReadersShown ==
    ASSUME ListInv, ListInv', op \notin {"empty", "release", "dup"},
           op' \notin {"empty", "release", "dup"}, UNCHANGED <<lists, nodes, order>>
    PROVE  AbstractStep
<1>1. alive' = alive /\ value' = value /\ order' = order
    BY DEF lists, nodes
<1>2. Existing' = Existing /\ \A m \in Lists : Hidden(m)' <=> Hidden(m)
    BY <1>1 DEF Existing, Hidden, Emptying
<1>3. \A m \in Lists : Contents'[m] = Contents[m]
    BY <1>1, <1>2, ItemKept DEF SameValues
<1> QED
    BY <1>2, <1>3, Stutters

LEMMA ListNextShown == ASSUME ListInv, ListInv', ListNext PROVE AbstractStep
<1>1. ASSUME NEW l \in Lists, Call(l) PROVE AbstractStep
    <2>1. ASSUME NEW x \in Nodes, NEW v \in Values, NewNode(l, x, v) PROVE AbstractStep
        <3>1. /\ op = "none" /\ l \in alive /\ x \notin heap /\ UNCHANGED <<alive, loop>>
              /\ value' = [value EXCEPT ![x] = v]
              /\ \E i \in 1..Len(order[l]) + 1 : Spliced(l, i, x)
            BY <2>1, NewNodeSplices
        <3> QED
            BY <3>1, SplicedShown
    <2>2. ASSUME NEW i \in 1..Len(order[l]), DelNode(l, i) PROVE AbstractStep
        <3>1. /\ op = "none" /\ op' = op /\ ask' = ask /\ l \in alive
              /\ Unlink(l, order[l][i], i)
            BY <2>2 DEF DelNode, Idle, loop
        <3> QED
            BY <3>1, UnlinkShown
    <2>3. ASSUME NEW o \in Lists, Join(l, o) \/ BeginDup(l, o) PROVE AbstractStep
        BY <2>3, JoinShown, BeginDupShown
    <2>4. ASSUME NEW o \in {"empty", "release"}, BeginEmpty(l, o) PROVE AbstractStep
        BY <2>4, BeginEmptyShown
    <2>5. ASSUME NEW d \in {"head", "tail"}, BeginIter(l, d) PROVE AbstractStep
        BY <2>5, ReadersShown DEF BeginIter, Begin
    <2>6. ASSUME NEW v \in Values, BeginSearch(l, v) PROVE AbstractStep
        BY <2>6, ReadersShown DEF BeginSearch, Begin
    <2>7. ASSUME NEW i \in -MaxIndex..MaxIndex, BeginIndex(l, i) PROVE AbstractStep
        BY <2>7, ReadersShown DEF BeginIndex, Begin
    <2>8. CASE Create(l)
        BY <2>8, CreateShown
    <2>9. CASE Rotate(l)
        BY <2>9, RotateShown
    <2> QED
        BY <1>1, <2>1, <2>2, <2>3, <2>4, <2>5, <2>6, <2>7, <2>8, <2>9 DEF Call
<1>2. CASE IterDel
    <2>1. op = "iter" /\ op' = op /\ ask' = ask
        BY <1>2 DEF IterDel
    <2>2. PICK i \in 1..Len(order[ask.l]) : order[ask.l][i] = res /\ Unlink(ask.l, res, i)
        BY <1>2 DEF IterDel
    <2>3. ask.l \in Lists /\ ask.l \in alive
        BY <2>1, LoopsList
    <2> QED
        BY <2>1, <2>2, <2>3, UnlinkShown
<1>3. CASE IterNext \/ IterEnd
    BY <1>3, ReadersShown DEF IterNext, IterEnd
<1>4. CASE SearchStep \/ IndexStep
    BY <1>4, ReadersShown DEF SearchStep, IndexStep, Finish
<1>5. CASE Return
    BY <1>5, ReadersShown DEF Return, Finish
<1>6. CASE EmptyStep \/ EmptyDone \/ DupDone \/ DupFails \/ \E x \in Nodes : DupStep(x)
    BY <1>6, EmptyStepShown, EmptyDoneShown, DupStepShown, DupDoneShown, DupFailsShown
<1> QED
    BY <1>1, <1>2, <1>3, <1>4, <1>5, <1>6 DEF ListNext, LoopStep

LEMMA ListInitShown == ListInit => Abstract!Init
<1> SUFFICES ASSUME ListInit PROVE Abstract!Init
    OBVIOUS
<1>1. op = "none" /\ alive = {} /\ \A m \in Lists : order[m] = <<>>
    BY DEF ListInit
<1>2. Existing = {} /\ \A m \in Lists : ~Hidden(m)
    BY <1>1 DEF Existing, Hidden, Emptying
<1>3. Contents = [m \in Lists |-> <<>>]
    BY <1>1, <1>2, ValuesEmpty DEF Contents, Item
<1> QED
    BY <1>2, <1>3, ListInitInv, ShownRight DEF Abstract!Init

LEMMA ListStutterShown == ASSUME UNCHANGED listvars PROVE UNCHANGED <<Existing, Shown>>
BY DEF listvars, lists, nodes, loop, Existing, Shown, Hidden, Emptying

\* adlist.c implements ListSpec: whatever sequence of its functions is called,
\* who follows the pointers finds sequences of values that each function
\* changes in one step, and none of the steps of its loops is seen.
THEOREM ListsImplementSequences == AdListSpec => ListsAreSequences
<1>1. ListInit => ListInv /\ Abstract!Init
    BY ListInitInv, ListInitShown
<1>2. ListInv /\ [ListNext]_listvars => ListInv'
    BY ListNextInv, ListStutter
<1>3. ListInv /\ ListInv' /\ [ListNext]_listvars => [Abstract!Next]_(Abstract!vars)
    BY ListNextShown, ListStutterShown DEF AbstractStep, Abstract!vars
<1> QED
    BY <1>1, <1>2, <1>3, PTL DEF AdListSpec, ListsAreSequences, Abstract!Spec
=============================================================================
