---------------------------- MODULE ShellProofs ----------------------------
(***************************************************************************)
(* Proofs about the line editor and the shell loop, for any buffer length, *)
(* width of the terminal, length of the history and number of keys.        *)
(***************************************************************************)
EXTENDS Shell, FiniteSetTheorems, SequenceTheorems, WellFoundedInduction, TLAPS

Entry == Seq(Chars)
Buffer == [0..LINENOISE_MAX_LINE - 1 -> Bytes]

EditTypes ==
    /\ EditTypeOK
    /\ history \in Seq(Entry) /\ typed \in Entry /\ line \in Entry
    /\ before \in Seq(Entry) /\ Len(before) <= history_max_len

LoopTypes ==
    /\ pc \in {"load", "read", "count", "cut", "execute", "save", "end", "unsaved"}
    /\ at \in 1..Len(IF pc = "load" THEN file ELSE text) + 1 /\ argc \in 0..ArgcMod - 1
    /\ text \in Seq(Keys) /\ argv \in Seq(1..Len(text))
    /\ pc = "load" => file \in Seq(Entry)

\* linenoise is only called from the loop, and returns to it once.
CallInv ==
    /\ mode = "edit" => pc = "read" /\ ret = "none"
    /\ pc = "load" => mode = "off" /\ ret = "none"

\* Until the first change to the line, the history is that before the call with
\* an empty entry, and the buffer holds the entry that is looked at: storing it
\* changes nothing.
BrowseInv ==
    mode = "edit" /\ ~edited /\ ShortEntries =>
        history = HistoryAdd(before, <<>>) /\ Str(buf) = history[At(history_index)]

\* The inductive invariant behind EditorSound.
EditorInv ==
    /\ EditTypes /\ LoopTypes /\ CallInv
    /\ Terminated /\ TypedLineKept /\ BrowseInv /\ HistoryKept

-----------------------------------------------------------------------------
(* Numbers.                                                                *)

LEMMA Least ==
    ASSUME NEW S \in SUBSET Nat, S # {}
    PROVE  Min(S) \in S /\ \A k \in S : Min(S) <= k
<1>1. PICK m \in S : \A k \in S : ~ (<<k, m>> \in OpToRel(<, Nat))
    BY NatLessThanWellFounded, WFMin
<1>2. \A k \in S : ~ (k < m)
    BY <1>1, Zenon DEF OpToRel
<1>3. \E x \in S : \A k \in S : x <= k
    BY <1>2
<1> QED
    BY <1>3, Zenon DEF Min

LEMMA Greatest ==
    ASSUME NEW n \in Nat, NEW S \in SUBSET (0..n), S # {}
    PROVE  Max(S) \in S /\ \A k \in S : k <= Max(S)
<1> DEFINE T == {n - k : k \in S}
<1>1. T \in SUBSET Nat /\ T # {}
    <2>1. \A k \in S : k \in Int /\ n - k \in Nat
        OBVIOUS
    <2>2. PICK k \in S : TRUE
        OBVIOUS
    <2>3. n - k \in T
        BY <2>2
    <2>4. \A m \in T : m \in Nat
        BY <2>1
    <2> HIDE DEF T
    <2> QED
        BY <2>3, <2>4
<1>2. PICK m \in T : \A k \in T : m <= k
    <2> HIDE DEF T
    <2> QED
        BY <1>1, Least
<1>3. PICK x \in S : m = n - x
    OBVIOUS
<1>4. \A k \in S : x >= k
    <2> SUFFICES ASSUME NEW k \in S PROVE x >= k
        OBVIOUS
    <2>1. PICK j \in T : j = n - k
        OBVIOUS
    <2>2. m <= j /\ k \in Int /\ x \in Int
        BY <1>2, <2>1
    <2> QED
        BY <1>3, <2>1, <2>2
<1>5. \E y \in S : \A k \in S : y >= k
    BY <1>4
<1>6. Max(S) \in S /\ \A k \in S : Max(S) >= k
    BY <1>5, Zenon DEF Max
<1> QED
    BY <1>6

LEMMA MinOfTwo ==
    ASSUME NEW a \in Int, NEW b \in Int
    PROVE  Min({a, b}) = IF a <= b THEN a ELSE b
<1>1. \E x \in {a, b} : \A y \in {a, b} : x <= y
    OBVIOUS
<1>2. Min({a, b}) \in {a, b} /\ \A y \in {a, b} : Min({a, b}) <= y
    BY <1>1, Zenon DEF Min
<1> QED
    BY <1>2

-----------------------------------------------------------------------------
(* Strings in memory.                                                      *)

\* The buffer b holds a line of n bytes.
Line(b, n) == n \in 0..buflen /\ b[n] = NUL /\ \A i \in 0..n - 1 : b[i] \in Keys

LEMMA Sizes == /\ LINENOISE_MAX_LINE \in Nat /\ buflen \in Nat /\ buflen >= 2
               /\ 0..LINENOISE_MAX_LINE - 1 = 0..buflen
               /\ NUL \in Bytes /\ Keys \subseteq Bytes /\ NUL \in Keys /\ Junk \in Bytes
               /\ Keys \ {NUL} = Chars
BY LineEditAssumption DEF buflen, Bytes, Keys

WrittenAt(r, b, i, c) == \A j \in 0..buflen : r[j] = IF j = i THEN c ELSE b[j]
LEMMA SetByte ==
    ASSUME NEW b \in Buffer, NEW i \in 0..buflen, NEW c \in Bytes
    PROVE  Set(b, i, c) \in Buffer /\ WrittenAt(Set(b, i, c), b, i, c)
<1>1. DOMAIN b = 0..buflen /\ b \in [0..buflen -> Bytes] /\ DOMAIN b \cup {i} = 0..buflen
    BY Sizes DEF Buffer
<1>2. Set(b, i, c) = [j \in 0..buflen |-> IF j = i THEN c ELSE b[j]]
    BY <1>1 DEF Set
<1>3. Set(b, i, c) \in [0..buflen -> Bytes]
    BY <1>1, <1>2
<1> QED
    BY <1>2, <1>3, Sizes DEF Buffer, WrittenAt

Moved(r, b, dst, src, count) ==
    \A j \in 0..buflen : r[j] = IF j \in dst..dst + count - 1 THEN b[src + j - dst] ELSE b[j]
LEMMA MoveBytes ==
    ASSUME NEW b \in Buffer, NEW dst \in Nat, NEW src \in Nat, NEW count \in Nat,
           dst + count <= buflen + 1, src + count <= buflen + 1
    PROVE  /\ Memmove(b, dst, src, count) \in Buffer
           /\ Moved(Memmove(b, dst, src, count), b, dst, src, count)
<1>1. /\ DOMAIN b = 0..buflen /\ b \in [0..buflen -> Bytes]
      /\ DOMAIN b \cup (dst..dst + count - 1) = 0..buflen
    BY Sizes DEF Buffer
<1>2. Memmove(b, dst, src, count)
        = [j \in 0..buflen |-> IF j \in dst..dst + count - 1 THEN b[src + j - dst] ELSE b[j]]
    BY <1>1 DEF Memmove
<1>3. \A j \in dst..dst + count - 1 : src + j - dst \in 0..buflen
    BY Sizes
<1>4. Memmove(b, dst, src, count) \in [0..buflen -> Bytes]
    BY <1>1, <1>2, <1>3
<1> QED
    BY <1>2, <1>4, Sizes DEF Buffer, Moved

\* strlen stops at the first NUL.
LEMMA FirstNul ==
    ASSUME NEW b \in Buffer, NEW n \in 0..buflen, b[n] = NUL
    PROVE  /\ StrLen(b) \in 0..n /\ b[StrLen(b)] = NUL
           /\ \A i \in 0..StrLen(b) - 1 : b[i] # NUL
<1> DEFINE S == {i \in DOMAIN b : b[i] = NUL}
<1>1. DOMAIN b = 0..buflen
    BY Sizes DEF Buffer
<1>2. S \in SUBSET Nat /\ n \in S
    BY <1>1, Sizes
<1> HIDE DEF S
<1>3. Min(S) \in S /\ \A k \in S : Min(S) <= k
    BY <1>2, Least
<1>m. PICK m \in Nat : m = Min(S) /\ m \in S /\ \A k \in S : m <= k
    BY <1>2, <1>3
<1>4. StrLen(b) = m
    BY <1>m DEF StrLen, S
<1>5. StrLen(b) \in 0..n /\ b[StrLen(b)] = NUL
    BY <1>2, <1>m, <1>4 DEF S
<1>6. ASSUME NEW i \in 0..StrLen(b) - 1 PROVE b[i] # NUL
    <2>1. i \in 0..buflen /\ i < m /\ i \in Int
        BY <1>4, <1>5, Sizes
    <2>2. i \notin S
        BY <1>m, <2>1
    <2> QED
        BY <1>1, <2>1, <2>2 DEF S
<1> QED
    BY <1>5, <1>6

LEMMA NulIs ==
    ASSUME NEW b \in Buffer, NEW n \in 0..buflen, b[n] = NUL, \A i \in 0..n - 1 : b[i] # NUL
    PROVE  StrLen(b) = n
<1>1. StrLen(b) \in 0..n /\ b[StrLen(b)] = NUL
    BY FirstNul
<1> QED
    BY <1>1, Sizes

LEMMA StrOfLine ==
    ASSUME NEW b \in Buffer, NEW n, Line(b, n)
    PROVE  /\ Str(b) \in Entry /\ Len(Str(b)) = StrLen(b) /\ StrLen(b) \in 0..buflen
           /\ \A i \in 1..StrLen(b) : Str(b)[i] = b[i - 1]
<1>1. /\ n \in 0..buflen /\ StrLen(b) \in 0..n
      /\ \A i \in 0..StrLen(b) - 1 : b[i] # NUL
    BY FirstNul DEF Line
<1>2. PICK k \in Nat : k = StrLen(b) /\ k <= n
    BY <1>1
<1>3. ASSUME NEW i \in 1..k PROVE b[i - 1] \in Chars
    <2>1. i - 1 \in 0..n - 1 /\ i - 1 \in 0..StrLen(b) - 1
        BY <1>1, <1>2
    <2>2. b[i - 1] \in Keys /\ b[i - 1] # NUL
        BY <1>1, <2>1 DEF Line
    <2> QED
        BY <2>2, Sizes
<1>4. Str(b) = [i \in 1..k |-> b[i - 1]]
    BY <1>2 DEF Str
<1>5. Str(b) \in Seq(Chars) /\ Len(Str(b)) = k
    BY <1>3, <1>4
<1> QED
    BY <1>1, <1>2, <1>4, <1>5, Sizes DEF Entry

LEMMA StrIs ==
    ASSUME NEW b \in Buffer, NEW s \in Entry, Len(s) <= buflen, b[Len(s)] = NUL,
           \A i \in 1..Len(s) : b[i - 1] = s[i]
    PROVE  StrLen(b) = Len(s) /\ Str(b) = s
<1>k. PICK k \in Nat : k = Len(s)
    BY DEF Entry
<1>1. \A i \in 1..k : s[i] \in Chars /\ s[i] # NUL
    BY <1>k, LineEditAssumption DEF Entry
<1>2. ASSUME NEW i \in 0..k - 1 PROVE b[i] # NUL
    <2>1. PICK j \in 1..k : i = j - 1
        <3>1. i + 1 \in 1..k /\ i = (i + 1) - 1
            OBVIOUS
        <3> QED
            BY <3>1
    <2> QED
        BY <1>1, <1>k, <2>1
<1>3. k \in 0..buflen /\ b[k] = NUL
    BY <1>k, Sizes
<1>4. StrLen(b) = k
    BY <1>2, <1>3, NulIs
<1>5. Str(b) = [i \in 1..k |-> b[i - 1]]
    BY <1>4 DEF Str
<1>6. s = [i \in 1..k |-> s[i]]
    BY <1>k DEF Entry
<1>7. Str(b) = s
    BY <1>5, <1>6, <1>k
<1> QED
    BY <1>4, <1>7, <1>k

\* strncpy of an entry: at most buflen - 1 bytes of it, then a NUL.
LEMMA CopiedEntry ==
    ASSUME NEW b \in Buffer, NEW s \in Entry
    PROVE  /\ StrNCpy(b, s) \in Buffer /\ Line(StrNCpy(b, s), StrLen(StrNCpy(b, s)))
           /\ Len(s) < buflen => Str(StrNCpy(b, s)) = s
<1>k. PICK k \in Nat : k = Len(s)
    BY DEF Entry
<1>r. PICK r : r = StrNCpy(b, s)
    OBVIOUS
<1>1. \A i \in 1..k : s[i] \in Chars /\ s[i] # NUL /\ s[i] \in Bytes /\ s[i] \in Keys
    BY <1>k, LineEditAssumption DEF Entry, Bytes, Keys
<1>2. r = [i \in 0..buflen |-> CASE i < buflen - 1 /\ i < k -> s[i + 1]
                                 [] i < buflen /\ (i >= k \/ i = buflen - 1) -> NUL
                                 [] OTHER -> b[i]]
    <2>1. DOMAIN b = 0..buflen
        BY Sizes DEF Buffer
    <2> QED
        BY <1>k, <1>r, <2>1 DEF StrNCpy
<1>3. /\ \A i \in 0..buflen : i < buflen - 1 /\ i < k => r[i] = s[i + 1]
      /\ \A i \in 0..buflen : i < buflen /\ (i >= k \/ i = buflen - 1) => r[i] = NUL
      /\ r[buflen] = b[buflen]
    BY <1>2, Sizes
<1>4. r \in Buffer
    <2>1. \A i \in 0..buflen : b[i] \in Bytes
        BY Sizes DEF Buffer
    <2>2. ASSUME NEW i \in 0..buflen PROVE r[i] \in Bytes
        <3>1. CASE i < buflen - 1 /\ i < k
            <4>1. i + 1 \in 1..k
                BY <3>1
            <4> QED
                BY <1>1, <1>3, <3>1, <4>1
        <3>2. CASE i < buflen /\ (i >= k \/ i = buflen - 1)
            BY <1>3, <3>2, Sizes
        <3>3. CASE i = buflen
            BY <1>3, <2>1, <3>3
        <3> QED
            BY <3>1, <3>2, <3>3, Sizes
    <2>3. r = [i \in 0..buflen |-> r[i]]
        BY <1>2
    <2>4. r \in [0..buflen -> Bytes]
        BY <2>2, <2>3
    <2> QED
        BY <2>4, Sizes DEF Buffer
<1>m. PICK m \in Nat : m = IF k < buflen THEN k ELSE buflen - 1
    BY Sizes
<1>5. m \in 0..buflen /\ m < buflen /\ m <= k /\ r[m] = NUL
    BY <1>3, <1>m, Sizes
<1>6. ASSUME NEW i \in 0..m - 1 PROVE r[i] \in Chars /\ r[i] # NUL /\ r[i] \in Keys
    <2>1. i \in 0..buflen /\ i < buflen - 1 /\ i < k /\ i + 1 \in 1..k
        BY <1>5, Sizes
    <2> QED
        BY <1>1, <1>3, <2>1
<1>7. StrLen(r) = m
    BY <1>4, <1>5, <1>6, NulIs
<1>8. Line(r, m)
    BY <1>5, <1>6 DEF Line
<1>9. ASSUME k < buflen PROVE Str(r) = s
    <2>1. m = k
        BY <1>9, <1>m
    <2>2. ASSUME NEW i \in 1..k PROVE r[i - 1] = s[i]
        <3>1. i - 1 \in 0..buflen /\ i - 1 < buflen - 1 /\ i - 1 < k /\ (i - 1) + 1 = i
            BY <1>9, Sizes
        <3> QED
            BY <1>3, <3>1
    <2> QED
        BY <1>4, <1>5, <1>9, <1>k, <2>1, <2>2, StrIs
<1> QED
    BY <1>4, <1>7, <1>8, <1>9, <1>k, <1>r

-----------------------------------------------------------------------------
(* The history.                                                            *)

LEMMA FrontTail ==
    ASSUME NEW S, NEW s \in Seq(S), s # <<>>
    PROVE  /\ Front(s) \in Seq(S) /\ Len(Front(s)) = Len(s) - 1
           /\ \A i \in 1..Len(s) - 1 : Front(s)[i] = s[i]
           /\ Tail(s) \in Seq(S) /\ Len(Tail(s)) = Len(s) - 1
           /\ \A i \in 1..Len(s) - 1 : Tail(s)[i] = s[i + 1]
           /\ Len(s) \in Nat /\ Len(s) >= 1
<1>1. Len(s) \in Nat /\ Len(s) >= 1 /\ \A i \in 1..Len(s) : s[i] \in S
    BY EmptySeq, ElementOfSeq, LenProperties
<1>2. /\ Front(s) \in Seq(S) /\ Len(Front(s)) = Len(s) - 1
      /\ \A i \in 1..Len(s) - 1 : Front(s)[i] = s[i]
    <2>n. PICK n \in Nat : n = Len(s) - 1
        BY <1>1
    <2>1. n \in Int /\ 1 \in Int /\ \A i \in 1..n : s[i] \in S
        BY <1>1, <2>n
    <2>2. /\ SubSeq(s, 1, n) \in Seq(S)
          /\ Len(SubSeq(s, 1, n)) = IF 1 <= n THEN n - 1 + 1 ELSE 0
          /\ \A i \in 1..n - 1 + 1 : SubSeq(s, 1, n)[i] = s[1 + i - 1]
        BY <2>1, SubSeqProperties
    <2>3. n - 1 + 1 = n /\ (IF 1 <= n THEN n ELSE 0) = n /\ \A i \in 1..n : 1 + i - 1 = i
        BY <2>n
    <2>4. Front(s) = SubSeq(s, 1, n)
        BY <2>n DEF Front
    <2> QED
        BY <2>2, <2>3, <2>4, <2>n
<1> QED
    BY <1>1, <1>2, HeadTailProperties

LEMMA FrontOfAppend ==
    ASSUME NEW S, NEW s \in Seq(S), NEW e \in S
    PROVE  Front(Append(s, e)) = s
<1>t. PICK t \in Seq(S) : t = Append(s, e)
    BY AppendProperties
<1>1. t # <<>> /\ Len(t) = Len(s) + 1 /\ \A i \in 1..Len(s) : t[i] = s[i]
    BY <1>t, AppendProperties
<1>2. /\ Front(t) \in Seq(S) /\ Len(Front(t)) = Len(t) - 1
      /\ \A i \in 1..Len(t) - 1 : Front(t)[i] = t[i]
    BY <1>1, FrontTail
<1>3. Len(s) \in Nat /\ Len(Front(t)) = Len(s)
    BY <1>1, <1>2, LenProperties
<1>4. \A i \in 1..Len(Front(t)) : Front(t)[i] = s[i]
    BY <1>1, <1>2, <1>3
<1>5. Front(t) = s
    BY <1>2, <1>3, <1>4, SeqEqual
<1> QED
    BY <1>5, <1>t

\* What HistoryAdd appends to: the history without the oldest entry if it is
\* full.
Room(h) == IF Len(h) = history_max_len THEN Tail(h) ELSE h
AllBelow(h, n) == \A i \in 1..Len(h) : Len(h[i]) < n

LEMMA RoomMade ==
    ASSUME NEW h \in Seq(Entry), Len(h) <= history_max_len
    PROVE  /\ Room(h) \in Seq(Entry) /\ Len(Room(h)) < history_max_len
           /\ \A n : AllBelow(h, n) => AllBelow(Room(h), n)
<1>1. CASE Len(h) = history_max_len
    <2>1. h # <<>>
        BY <1>1, LineEditAssumption, EmptySeq
    <2>2. /\ Tail(h) \in Seq(Entry) /\ Len(Tail(h)) = Len(h) - 1
          /\ \A i \in 1..Len(h) - 1 : Tail(h)[i] = h[i + 1]
          /\ Len(h) \in Nat /\ Len(h) >= 1
        BY <2>1, FrontTail
    <2>3. Room(h) = Tail(h)
        BY <1>1 DEF Room
    <2>4. \A i \in 1..Len(h) - 1 : i + 1 \in 1..Len(h)
        BY <2>2
    <2>5. \A n : AllBelow(h, n) => AllBelow(Tail(h), n)
        BY <2>2, <2>4 DEF AllBelow
    <2> QED
        BY <1>1, <2>2, <2>3, <2>5
<1>2. CASE Len(h) # history_max_len
    BY <1>2, LenProperties, LineEditAssumption DEF Room
<1> QED
    BY <1>1, <1>2

LEMMA Added ==
    ASSUME NEW h \in Seq(Entry), NEW s \in Entry, Len(h) <= history_max_len
    PROVE  /\ HistoryAdd(h, s) \in Seq(Entry)
           /\ Len(HistoryAdd(h, s)) \in 1..history_max_len
           /\ HistoryAdd(h, s)[Len(HistoryAdd(h, s))] = s
           /\ \A n : AllBelow(h, n) /\ Len(s) < n => AllBelow(HistoryAdd(h, s), n)
           /\ s = <<>> => Front(HistoryAdd(h, s)) = Kept(h)
<1>1. CASE h # <<>> /\ Last(h) = s
    <2>1. HistoryAdd(h, s) = h
        BY <1>1 DEF HistoryAdd, HistoryAddUnless
    <2>2. Len(h) \in Nat /\ Len(h) >= 1 /\ h[Len(h)] = s
        BY <1>1, EmptySeq DEF Last
    <2>3. s = <<>> => Front(h) = Kept(h)
        BY <1>1 DEF Kept
    <2> QED
        BY <2>1, <2>2, <2>3, LineEditAssumption
<1>2. CASE ~ (h # <<>> /\ Last(h) = s)
    <2>g. PICK g : g = Room(h)
        OBVIOUS
    <2>1. /\ g \in Seq(Entry) /\ Len(g) < history_max_len
          /\ \A n : AllBelow(h, n) => AllBelow(g, n)
        BY <2>g, RoomMade
    <2>r. PICK r : r = Append(g, s)
        OBVIOUS
    <2>2. HistoryAdd(h, s) = r
        BY <1>2, <2>g, <2>r DEF HistoryAdd, HistoryAddUnless, Room
    <2>3. /\ r \in Seq(Entry) /\ Len(r) = Len(g) + 1 /\ Len(g) \in Nat
          /\ \A i \in 1..Len(g) : r[i] = g[i]
          /\ r[Len(g) + 1] = s
        BY <2>1, <2>r, AppendProperties, LenProperties
    <2>4. Len(r) \in 1..history_max_len /\ r[Len(r)] = s
        BY <2>1, <2>3, LineEditAssumption
    <2>5. ASSUME NEW n, AllBelow(h, n), Len(s) < n PROVE AllBelow(r, n)
        <3>1. AllBelow(g, n)
            BY <2>1, <2>5
        <3>2. ASSUME NEW i \in 1..Len(r) PROVE Len(r[i]) < n
            <4>1. i \in 1..Len(g) \/ i = Len(g) + 1
                BY <2>3
            <4> QED
                BY <2>3, <2>5, <3>1, <4>1 DEF AllBelow
        <3> QED
            BY <3>2 DEF AllBelow
    <2>6. s = <<>> => Front(r) = Kept(h)
        <3>1. Front(r) = g
            BY <2>1, <2>r, FrontOfAppend
        <3> QED
            BY <1>2, <2>g, <3>1 DEF Kept, Room
    <2> QED
        BY <2>2, <2>3, <2>4, <2>5, <2>6
<1> QED
    BY <1>1, <1>2

\* An entry is stored: At(history_index) of the history.
LEMMA Stored ==
    ASSUME NEW h \in Seq(Entry), NEW i \in Nat, i < Len(h), NEW s \in Entry,
           NEW g, g = [h EXCEPT ![Len(h) - i] = s]
    PROVE  /\ g \in Seq(Entry) /\ Len(g) = Len(h) /\ Len(h) \in Nat
           /\ i = 0 => g[Len(g)] = s
           /\ i # 0 => g[Len(g)] = h[Len(h)]
           /\ s = h[Len(h) - i] => g = h
<1>n. PICK n \in Nat : n = Len(h)
    BY LenProperties
<1>k. PICK k \in 1..n : k = n - i
    BY <1>n
<1>1. /\ g \in Seq(Entry) /\ Len(g) = n
      /\ \A j \in 1..n : g[j] = IF j = k THEN s ELSE h[j]
    BY <1>n, <1>k, ExceptSeq
<1>2. i = 0 => n = k
    BY <1>k
<1>3. i # 0 => n # k
    BY <1>k
<1>4. n \in 1..n
    BY <1>k
<1>5. ASSUME s = h[k] PROVE g = h
    <2>1. \A j \in 1..Len(g) : g[j] = h[j]
        BY <1>1, <1>5
    <2> QED
        BY <1>1, <1>n, <2>1, SeqEqual
<1> QED
    BY <1>1, <1>2, <1>3, <1>4, <1>5, <1>n, <1>k

-----------------------------------------------------------------------------
(* What each key does to the bytes of the line.                            *)

\* The bytes of r from lo up to hi are those of b, d further on.
Same(r, b, lo, hi, d) == \A j \in lo..hi - 1 : r[j] = b[j + d]

\* c is inserted at p into a line of n bytes.
Inserted(r, b, n, p, c) ==
    /\ r \in Buffer /\ r[p] = c /\ r[n + 1] = NUL
    /\ Same(r, b, 0, p, 0) /\ Same(r, b, p + 1, n + 1, -1)

\* The bytes from q up to p are taken out.
Without(r, b, n, q, p) ==
    /\ r \in Buffer /\ r[n - (p - q)] = NUL
    /\ Same(r, b, 0, q, 0) /\ Same(r, b, q, n - (p - q), p - q)

LEMMA InsertedEnd ==
    ASSUME NEW b \in Buffer, NEW n \in Nat, n < buflen, NEW c \in Keys
    PROVE  Inserted(Set(Set(b, n, c), n + 1, NUL), b, n, n, c)
<1>m. PICK m \in 0..buflen : m = n + 1 /\ m # n /\ n \in 0..buflen /\ c \in Bytes
    BY Sizes
<1>a. PICK a \in Buffer : a = Set(b, n, c) /\ WrittenAt(a, b, n, c)
    BY <1>m, SetByte
<1>r. PICK r \in Buffer : r = Set(a, m, NUL) /\ WrittenAt(r, a, m, NUL)
    BY <1>a, Sizes, SetByte
<1>1. r[n] = c /\ r[m] = NUL
    BY <1>a, <1>r, <1>m DEF WrittenAt
<1>2. Same(r, b, 0, n, 0)
    <2>1. \A j \in 0..n - 1 : j \in 0..buflen /\ j # n /\ j # m /\ j + 0 = j
        BY <1>m, Sizes
    <2> QED
        BY <1>a, <1>r, <2>1 DEF WrittenAt, Same
<1>3. Same(r, b, n + 1, n + 1, -1)
    BY DEF Same
<1> QED
    BY <1>a, <1>r, <1>m, <1>1, <1>2, <1>3 DEF Inserted

LEMMA InsertedMiddle ==
    ASSUME NEW b \in Buffer, NEW n \in Nat, NEW p \in Nat, p < n, n < buflen, NEW c \in Keys
    PROVE  Inserted(Set(Set(Memmove(b, p + 1, p, n - p), p, c), n + 1, NUL), b, n, p, c)
<1>m. /\ n + 1 \in 0..buflen /\ p \in 0..buflen /\ c \in Bytes /\ NUL \in Bytes
      /\ p + 1 \in Nat /\ n - p \in Nat
      /\ (p + 1) + (n - p) <= buflen + 1 /\ p + (n - p) <= buflen + 1
    BY Sizes
<1>a. PICK a \in Buffer : a = Memmove(b, p + 1, p, n - p) /\ Moved(a, b, p + 1, p, n - p)
    BY <1>m, MoveBytes
<1>d. PICK d \in Buffer : d = Set(a, p, c) /\ WrittenAt(d, a, p, c)
    BY <1>m, SetByte
<1>r. PICK r \in Buffer : r = Set(d, n + 1, NUL) /\ WrittenAt(r, d, n + 1, NUL)
    BY <1>m, SetByte
<1>1. r[p] = c /\ r[n + 1] = NUL
    BY <1>d, <1>r, <1>m DEF WrittenAt
<1>2. ASSUME NEW j \in 0..p - 1 PROVE r[j] = b[j + 0]
    <2>1. j \in 0..buflen /\ j # n + 1 /\ j # p /\ j \notin (p + 1)..(p + 1) + (n - p) - 1
          /\ j + 0 = j
        BY <1>m, Sizes
    <2> QED
        BY <1>a, <1>d, <1>r, <2>1 DEF WrittenAt, Moved
<1>3. ASSUME NEW j \in (p + 1)..(n + 1) - 1 PROVE r[j] = b[j + (-1)]
    <2>1. j \in 0..buflen /\ j # n + 1 /\ j # p /\ j \in (p + 1)..(p + 1) + (n - p) - 1
          /\ p + j - (p + 1) = j + (-1)
        BY <1>m, Sizes
    <2> QED
        BY <1>a, <1>d, <1>r, <2>1 DEF WrittenAt, Moved
<1> QED
    BY <1>1, <1>2, <1>3, <1>a, <1>d, <1>r DEF Inserted, Same

LEMMA InsertedLine ==
    ASSUME NEW b \in Buffer, NEW n \in Nat, NEW p \in 0..n, n < buflen, NEW c \in Keys,
           Line(b, n), NEW r, Inserted(r, b, n, p, c)
    PROVE  Line(r, n + 1)
<1>1. n + 1 \in 0..buflen /\ r[n + 1] = NUL
    BY Sizes DEF Inserted
<1>2. ASSUME NEW i \in 0..n PROVE r[i] \in Keys
    <2>1. CASE i < p
        BY <2>1 DEF Inserted, Same, Line
    <2>2. CASE i = p
        BY <2>2 DEF Inserted
    <2>3. CASE i > p
        <3>1. i \in (p + 1)..(n + 1) - 1 /\ i + (-1) \in 0..n - 1
            BY <2>3
        <3> QED
            BY <3>1 DEF Inserted, Same, Line
    <2> QED
        BY <2>1, <2>2, <2>3
<1> QED
    BY <1>1, <1>2 DEF Line

LEMMA WithoutLine ==
    ASSUME NEW b \in Buffer, NEW n \in Nat, NEW p \in 0..n, NEW q \in 0..p, n <= buflen,
           Line(b, n), NEW r, Without(r, b, n, q, p)
    PROVE  Line(r, n - (p - q))
<1>m. PICK m \in 0..buflen : m = n - (p - q) /\ m >= q /\ m <= n /\ m + (p - q) = n
    BY Sizes
<1>1. r[m] = NUL
    BY <1>m DEF Without
<1>2. ASSUME NEW i \in 0..m - 1 PROVE r[i] \in Keys
    <2>1. CASE i < q
        <3>1. i \in 0..q - 1 /\ i + 0 = i /\ i \in 0..n - 1
            BY <1>m, <2>1
        <3> QED
            BY <3>1 DEF Without, Same, Line
    <2>2. CASE i >= q
        <3>1. i \in q..m - 1 /\ i + (p - q) \in 0..n - 1
            BY <1>m, <2>2
        <3> QED
            BY <1>m, <3>1 DEF Without, Same, Line
    <2> QED
        BY <2>1, <2>2
<1> QED
    BY <1>1, <1>2, <1>m DEF Line

\* memmove over the gap, then a NUL (backspace, delete).
LEMMA ClosedGap ==
    ASSUME NEW b \in Buffer, NEW n \in Nat, NEW p \in 1..n, n <= buflen
    PROVE  Without(Set(Memmove(b, p - 1, p, n - p), n - 1, NUL), b, n, p - 1, p)
<1>m. /\ n - 1 \in 0..buflen /\ NUL \in Bytes
      /\ p - 1 \in Nat /\ p \in Nat /\ n - p \in Nat /\ n - (p - (p - 1)) = n - 1
      /\ (p - 1) + (n - p) <= buflen + 1 /\ p + (n - p) <= buflen + 1
    BY Sizes
<1>a. PICK a \in Buffer : a = Memmove(b, p - 1, p, n - p) /\ Moved(a, b, p - 1, p, n - p)
    BY <1>m, MoveBytes
<1>r. PICK r \in Buffer : r = Set(a, n - 1, NUL) /\ WrittenAt(r, a, n - 1, NUL)
    BY <1>m, SetByte
<1>1. r[n - (p - (p - 1))] = NUL
    BY <1>r, <1>m DEF WrittenAt
<1>2. ASSUME NEW j \in 0..(p - 1) - 1 PROVE r[j] = b[j + 0]
    <2>1. j \in 0..buflen /\ j # n - 1 /\ j \notin (p - 1)..(p - 1) + (n - p) - 1 /\ j + 0 = j
        BY <1>m, Sizes
    <2> QED
        BY <1>a, <1>r, <2>1 DEF WrittenAt, Moved
<1>3. ASSUME NEW j \in (p - 1)..(n - (p - (p - 1))) - 1 PROVE r[j] = b[j + (p - (p - 1))]
    <2>1. j \in 0..buflen /\ j # n - 1 /\ j \in (p - 1)..(p - 1) + (n - p) - 1
          /\ p + j - (p - 1) = j + (p - (p - 1))
        BY <1>m, Sizes
    <2> QED
        BY <1>a, <1>r, <2>1 DEF WrittenAt, Moved
<1> QED
    BY <1>1, <1>2, <1>3, <1>a, <1>r DEF Without, Same

\* memmove with the NUL (Ctrl-W).
LEMMA ClosedGapWithNul ==
    ASSUME NEW b \in Buffer, NEW n \in Nat, NEW p \in 0..n, NEW q \in 0..p, n <= buflen,
           b[n] = NUL
    PROVE  Without(Memmove(b, q, p, n - p + 1), b, n, q, p)
<1>m. /\ q \in Nat /\ p \in Nat /\ n - p + 1 \in Nat
      /\ q + (n - p + 1) <= buflen + 1 /\ p + (n - p + 1) <= buflen + 1
    BY Sizes
<1>r. PICK r \in Buffer : r = Memmove(b, q, p, n - p + 1) /\ Moved(r, b, q, p, n - p + 1)
    BY <1>m, MoveBytes
<1>1. r[n - (p - q)] = NUL
    <2>1. /\ n - (p - q) \in 0..buflen /\ n - (p - q) \in q..q + (n - p + 1) - 1
          /\ p + (n - (p - q)) - q = n
        BY Sizes
    <2> QED
        BY <1>r, <2>1 DEF Moved
<1>2. ASSUME NEW j \in 0..q - 1 PROVE r[j] = b[j + 0]
    <2>1. j \in 0..buflen /\ j \notin q..q + (n - p + 1) - 1 /\ j + 0 = j
        BY Sizes
    <2> QED
        BY <1>r, <2>1 DEF Moved
<1>3. ASSUME NEW j \in q..(n - (p - q)) - 1 PROVE r[j] = b[j + (p - q)]
    <2>1. j \in 0..buflen /\ j \in q..q + (n - p + 1) - 1 /\ p + j - q = j + (p - q)
        BY Sizes
    <2> QED
        BY <1>r, <2>1 DEF Moved
<1> QED
    BY <1>1, <1>2, <1>3, <1>r DEF Without, Same

\* A NUL ends the line (Ctrl-U, Ctrl-K).
LEMMA CutOff ==
    ASSUME NEW b \in Buffer, NEW n \in Nat, NEW p \in 0..n, n <= buflen, Line(b, n)
    PROVE  /\ Set(b, p, NUL) \in Buffer /\ Line(Set(b, p, NUL), p)
           /\ Same(Set(b, p, NUL), b, 0, p, 0)
<1>m. p \in 0..buflen
    BY Sizes
<1>r. PICK r \in Buffer : r = Set(b, p, NUL) /\ WrittenAt(r, b, p, NUL)
    BY <1>m, Sizes, SetByte
<1>1. ASSUME NEW j \in 0..p - 1 PROVE r[j] = b[j] /\ b[j] \in Keys /\ j + 0 = j
    <2>1. j \in 0..buflen /\ j # p /\ j \in 0..n - 1
        BY <1>m, Sizes
    <2> QED
        BY <1>r, <2>1 DEF WrittenAt, Line
<1>2. r[p] = NUL
    BY <1>m, <1>r DEF WrittenAt
<1> QED
    BY <1>1, <1>2, <1>m, <1>r DEF Line, Same

\* Ctrl-T.
Swapped(r, b, p) ==
    /\ r \in Buffer /\ r[p - 1] = b[p] /\ r[p] = b[p - 1]
    /\ \A j \in 0..buflen : j \notin {p - 1, p} => r[j] = b[j]
LEMMA SwappedBytes ==
    ASSUME NEW b \in Buffer, NEW p \in 1..buflen
    PROVE  Swapped(Set(Set(b, p - 1, b[p]), p, b[p - 1]), b, p)
<1>m. p \in 0..buflen /\ p - 1 \in 0..buflen /\ p # p - 1 /\ b[p] \in Bytes /\ b[p - 1] \in Bytes
    BY Sizes DEF Buffer
<1>a. PICK a \in Buffer : a = Set(b, p - 1, b[p]) /\ WrittenAt(a, b, p - 1, b[p])
    BY <1>m, SetByte
<1>r. PICK r \in Buffer : r = Set(a, p, b[p - 1]) /\ WrittenAt(r, a, p, b[p - 1])
    BY <1>m, SetByte
<1> QED
    BY <1>m, <1>a, <1>r DEF WrittenAt, Swapped

LEMMA SwappedLine ==
    ASSUME NEW b \in Buffer, NEW n \in Nat, NEW p \in 1..n - 1, n <= buflen, Line(b, n),
           NEW r, Swapped(r, b, p)
    PROVE  Line(r, n)
<1>1. n \in 0..buflen /\ n # p /\ n # p - 1 /\ r[n] = NUL
    BY Sizes DEF Line, Swapped
<1>2. ASSUME NEW i \in 0..n - 1 PROVE r[i] \in Keys
    <2>1. i \in 0..buflen /\ p \in 0..n - 1 /\ p - 1 \in 0..n - 1
        BY Sizes
    <2> QED
        BY <2>1 DEF Line, Swapped
<1> QED
    BY <1>1, <1>2 DEF Line

-----------------------------------------------------------------------------
(* Every step keeps EditorInv.                                             *)

LEMMA LoopKeeps ==
    ASSUME EditorInv, UNCHANGED editVars, LoopTypes', CallInv'
    PROVE  EditorInv'
<1> USE DEF editVars, bufVars, histVars, callVars
<1>1. EditTypes'
    BY DEF EditorInv, EditTypes, EditTypeOK
<1>2. Terminated'
    BY DEF EditorInv, Terminated
<1>3. TypedLineKept'
    BY DEF EditorInv, TypedLineKept
<1>4. ShortEntries' = ShortEntries
    BY DEF ShortEntries
<1>5. BrowseInv'
    BY <1>4 DEF EditorInv, BrowseInv, At
<1>6. HistoryKept'
    BY <1>4 DEF EditorInv, HistoryKept
<1> QED
    BY <1>1, <1>2, <1>3, <1>5, <1>6 DEF EditorInv

LEMMA LoopSame ==
    ASSUME EditorInv, UNCHANGED loopVars
    PROVE  LoopTypes'
BY DEF EditorInv, LoopTypes, loopVars

\* A key that leaves the history alone.
LEMMA TextKeeps ==
    ASSUME EditorInv, mode = "edit", UNCHANGED <<callVars, histVars, loopVars>>,
           Key, buf' \in Buffer, Line(buf', len'), pos' \in 0..len',
           edited' = TRUE \/ UNCHANGED <<buf, edited>>
    PROVE  EditorInv'
<1> USE DEF histVars, callVars
<1>1. EditTypes'
    <2>1. keys' \in 0..MaxKeys
        BY LineEditAssumption DEF Key, EditorInv, EditTypes, EditTypeOK
    <2>2. edited' \in BOOLEAN
        <3>1. edited \in BOOLEAN
            BY Zenon DEF EditorInv, EditTypes, EditTypeOK
        <3> QED
            BY <3>1, Zenon
    <2>3. len' \in 0..buflen
        BY DEF Line
    <2> QED
        BY <2>1, <2>2, <2>3 DEF EditorInv, EditTypes, EditTypeOK, Buffer
<1>2. LoopTypes'
    BY LoopSame
<1>3. CallInv'
    BY DEF EditorInv, CallInv, loopVars
<1>4. Terminated'
    BY DEF Terminated, Line
<1>5. TypedLineKept'
    BY DEF EditorInv, TypedLineKept
<1>6. ShortEntries' = ShortEntries
    BY DEF ShortEntries
<1>7. BrowseInv'
    BY <1>6 DEF EditorInv, BrowseInv, At
<1>8. HistoryKept'
    BY <1>6 DEF EditorInv, HistoryKept, CallInv
<1> QED
    BY <1>1, <1>2, <1>3, <1>4, <1>5, <1>7, <1>8 DEF EditorInv

\* In the editor the buffer holds the line.
LEMMA Editing ==
    ASSUME EditorInv, mode = "edit"
    PROVE  /\ buf \in Buffer /\ Line(buf, len) /\ len \in Nat /\ len <= buflen
           /\ pos \in Nat /\ pos <= len
BY Sizes DEF EditorInv, EditTypes, EditTypeOK, Terminated, Line, Buffer

LEMMA InsertKeeps ==
    ASSUME EditorInv, mode = "edit", NEW c \in Keys, InsertEnd(c) \/ InsertMiddle(c),
           UNCHANGED loopVars
    PROVE  EditorInv' /\ len < buflen /\ Inserted(buf', buf, len, pos, c)
           /\ len' = len + 1 /\ pos' = pos + 1
<1>1. /\ Key /\ UNCHANGED <<callVars, histVars>> /\ edited' = TRUE
      /\ len < buflen /\ len' = len + 1 /\ pos' = pos + 1
    BY DEF InsertEnd, InsertEndIf, InsertMiddle, InsertMiddleWith, Edit, Redraw
<1>2. Inserted(buf', buf, len, pos, c)
    <2>1. CASE InsertEnd(c)
        <3>1. buf' = Set(Set(buf, len, c), len + 1, NUL) /\ pos = len
            BY <2>1 DEF InsertEnd, InsertEndIf
        <3> QED
            BY <1>1, <3>1, Editing, InsertedEnd
    <2>2. CASE InsertMiddle(c)
        <3>1. /\ buf' = Set(Set(Memmove(buf, pos + 1, pos, len - pos), pos, c), len + 1, NUL)
              /\ pos < len
            BY <2>2 DEF InsertMiddle, InsertMiddleWith, Edit, Redraw
        <3> QED
            BY <1>1, <3>1, Editing, InsertedMiddle
    <2> QED
        BY <2>1, <2>2
<1>3. pos \in 0..len
    BY Editing
<1>4. Line(buf', len + 1) /\ buf' \in Buffer
    BY <1>1, <1>2, <1>3, Editing, InsertedLine DEF Inserted
<1>5. pos' \in 0..len'
    BY <1>1, <1>3, Editing
<1> QED
    BY <1>1, <1>2, <1>4, <1>5, TextKeeps

\* Backspace, delete and Ctrl-W take bytes out.
Took(q, p) ==
    /\ q \in 0..p /\ p \in 0..len
    /\ Without(buf', buf, len, q, p) /\ len' = len - (p - q) /\ pos' = q

LEMMA TakeKeeps ==
    ASSUME EditorInv, mode = "edit", NEW q, NEW p, Took(q, p), Key,
           UNCHANGED <<callVars, histVars, loopVars>>, edited' = TRUE
    PROVE  EditorInv'
<1>1. p \in 0..len /\ q \in 0..p
    BY DEF Took
<1>2. Line(buf', len') /\ buf' \in Buffer
    BY <1>1, Editing, WithoutLine DEF Took, Without
<1>3. pos' \in 0..len'
    BY <1>1, Editing DEF Took
<1> QED
    BY <1>2, <1>3, TextKeeps

LEMMA BackspaceKeeps ==
    ASSUME EditorInv, mode = "edit", Backspace, UNCHANGED loopVars
    PROVE  EditorInv' /\ Took(pos - 1, pos) /\ pos > 0
<1>1. /\ buf' = Set(Memmove(buf, pos - 1, pos, len - pos), len - 1, NUL)
      /\ len' = len - 1 /\ pos' = pos - 1 /\ pos > 0
      /\ Key /\ UNCHANGED <<callVars, histVars>> /\ edited' = TRUE
    BY DEF Backspace, Edit, Redraw
<1>2. Without(buf', buf, len, pos - 1, pos)
    BY <1>1, Editing, ClosedGap
<1>3. Took(pos - 1, pos)
    BY <1>1, <1>2, Editing DEF Took
<1> QED
    BY <1>1, <1>3, TakeKeeps

LEMMA DeleteKeeps ==
    ASSUME EditorInv, mode = "edit", Delete, UNCHANGED loopVars
    PROVE  EditorInv' /\ Took(pos, pos + 1) /\ pos < len
<1>1. /\ buf' = Set(Memmove(buf, pos, pos + 1, len - pos - 1), len - 1, NUL)
      /\ len' = len - 1 /\ pos' = pos /\ pos < len
      /\ Key /\ UNCHANGED <<callVars, histVars>> /\ edited' = TRUE
    BY DEF Delete, Edit, Redraw
<1>2. PICK p \in 1..len : p = pos + 1
    BY <1>1, Editing
<1>3. p - 1 = pos /\ len - p = len - pos - 1
    BY <1>2, Editing
<1>4. buf' = Set(Memmove(buf, p - 1, p, len - p), len - 1, NUL)
    BY <1>1, <1>2, <1>3
<1>5. Without(buf', buf, len, p - 1, p)
    BY <1>2, <1>4, Editing, ClosedGap
<1>6. Took(p - 1, p)
    <2>1. p - 1 \in 0..p /\ p \in 0..len /\ len - (p - (p - 1)) = len - 1
        BY <1>2, Editing
    <2> QED
        BY <1>1, <1>3, <1>5, <2>1 DEF Took
<1>7. Took(pos, pos + 1)
    BY <1>2, <1>3, <1>6
<1> QED
    BY <1>1, <1>7, TakeKeeps

LEMMA BackStops ==
    ASSUME NEW p \in Nat, NEW S, NEW q, q = BackOver(p, S)
    PROVE  /\ q \in 0..p
           /\ \A i \in 1..p : i > q => buf[i - 1] \in S
           /\ q # 0 => buf[q - 1] \notin S
<1>s. PICK T : T = {i \in 1..p : buf[i - 1] \notin S}
    OBVIOUS
<1>1. q = IF T = {} THEN 0 ELSE Max(T)
    BY <1>s DEF BackOver
<1>2. CASE T = {}
    BY <1>1, <1>2, <1>s
<1>3. CASE T # {}
    <2>1. T \in SUBSET (0..p)
        BY <1>s
    <2>2. q \in T /\ \A k \in T : k <= q
        BY <1>1, <1>3, <2>1, Greatest
    <2> QED
        BY <1>s, <2>2
<1> QED
    BY <1>2, <1>3

\* The place Ctrl-W goes back to.
WordBefore == BackOver(BackOver(pos, {Space}), Bytes \ {Space})

LEMMA PrevWordKeeps ==
    ASSUME EditorInv, mode = "edit", DeletePrevWord, UNCHANGED loopVars
    PROVE  EditorInv' /\ Took(WordBefore, pos)
<1>q. PICK q : q = WordBefore
    OBVIOUS
<1>1. /\ buf' = Memmove(buf, q, pos, len - pos + 1)
      /\ len' = len - (pos - q) /\ pos' = q
      /\ Key /\ UNCHANGED <<callVars, histVars>> /\ edited' = TRUE
    BY <1>q DEF DeletePrevWord, Edit, Redraw, WordBefore
<1>2. q \in 0..pos
    <2>r. PICK r : r = BackOver(pos, {Space})
        OBVIOUS
    <2>1. r \in 0..pos
        BY <2>r, Editing, BackStops
    <2>2. q \in 0..r
        BY <1>q, <2>r, <2>1, BackStops DEF WordBefore
    <2> QED
        BY <2>1, <2>2, Editing
<1>3. buf[len] = NUL /\ pos \in 0..len
    BY Editing DEF Line
<1>4. Without(buf', buf, len, q, pos)
    BY <1>1, <1>2, <1>3, Editing, ClosedGapWithNul
<1>5. Took(q, pos)
    BY <1>1, <1>2, <1>3, <1>4 DEF Took
<1> QED
    BY <1>1, <1>5, <1>q, TakeKeeps

LEMMA TransposeKeeps ==
    ASSUME EditorInv, mode = "edit", Transpose, UNCHANGED loopVars
    PROVE  /\ EditorInv' /\ Swapped(buf', buf, pos) /\ len' = len /\ pos > 0 /\ pos < len
           /\ pos' = IF pos # len - 1 THEN pos + 1 ELSE pos
<1>1. /\ buf' = Set(Set(buf, pos - 1, buf[pos]), pos, buf[pos - 1])
      /\ len' = len /\ pos > 0 /\ pos < len
      /\ pos' = IF pos # len - 1 THEN pos + 1 ELSE pos
      /\ Key /\ UNCHANGED <<callVars, histVars>> /\ edited' = TRUE
    BY DEF Transpose, Edit, Redraw
<1>2. pos \in 1..buflen /\ pos \in 1..len - 1 /\ pos' \in 0..len'
    BY <1>1, Editing, Sizes
<1>3. Swapped(buf', buf, pos)
    BY <1>1, <1>2, Editing, SwappedBytes
<1>4. Line(buf', len') /\ buf' \in Buffer
    BY <1>1, <1>2, <1>3, Editing, SwappedLine DEF Swapped
<1> QED
    BY <1>1, <1>2, <1>3, <1>4, TextKeeps

\* Ctrl-U and Ctrl-K keep the bytes left of p.
LEMMA KillKeeps ==
    ASSUME EditorInv, mode = "edit", NEW p \in 0..len, Edit(Set(buf, p, NUL), p, p),
           UNCHANGED loopVars
    PROVE  EditorInv' /\ Same(buf', buf, 0, p, 0) /\ len' = p /\ pos' = p
<1>1. /\ buf' = Set(buf, p, NUL) /\ len' = p /\ pos' = p
      /\ Key /\ UNCHANGED <<callVars, histVars>> /\ edited' = TRUE
    BY DEF Edit, Redraw
<1>2. buf' \in Buffer /\ Line(buf', len') /\ Same(buf', buf, 0, p, 0)
    BY <1>1, Editing, CutOff
<1>3. pos' \in 0..len'
    BY <1>1, Editing
<1> QED
    BY <1>1, <1>2, <1>3, TextKeeps

Moving == MoveLeft \/ MoveRight \/ MoveHome \/ MoveEnd
LEMMA MoveKeeps ==
    ASSUME EditorInv, mode = "edit", Moving, UNCHANGED loopVars
    PROVE  EditorInv' /\ buf' = buf /\ len' = len /\ pos' \in 0..len
<1>1. /\ buf' = buf /\ len' = len
      /\ Key /\ UNCHANGED <<callVars, histVars>> /\ edited' = edited
    BY DEF Moving, MoveLeft, MoveRight, MoveHome, MoveEnd, MoveTo, Redraw
<1>2. pos' \in 0..len
    BY Editing DEF Moving, MoveLeft, MoveRight, MoveHome, MoveEnd, MoveTo, Redraw
<1>3. buf' \in Buffer /\ Line(buf', len')
    BY <1>1, Editing
<1> QED
    BY <1>1, <1>2, <1>3, TextKeeps

LEMMA IgnoredKeeps ==
    ASSUME EditorInv, mode = "edit", Ignored, UNCHANGED loopVars
    PROVE  EditorInv'
<1>1. Key /\ UNCHANGED <<buf, len, pos, callVars, histVars, edited>>
    BY DEF Ignored, bufVars
<1>2. buf' \in Buffer /\ Line(buf', len') /\ pos' \in 0..len'
    BY <1>1, Editing
<1> QED
    BY <1>1, <1>2, TextKeeps

\* The line goes into the entry it came from.
StoredHistory == [history EXCEPT ![At(history_index)] = Str(buf)]
LEMMA StoreKeeps ==
    ASSUME EditorInv, mode = "edit"
    PROVE  /\ StoredHistory \in Seq(Entry) /\ Len(StoredHistory) = Len(history)
           /\ Len(history) \in Nat /\ Str(buf) \in Entry
           /\ history_index = 0 => StoredHistory[Len(history)] = Str(buf)
           /\ history_index # 0 => StoredHistory[Len(history)] = typed
           /\ ~edited /\ ShortEntries =>
                /\ StoredHistory = history
                /\ AllBelow(history, buflen)
<1>1. history \in Seq(Entry) /\ history_index \in Nat /\ history_index < Len(history)
    BY DEF EditorInv, EditTypes, EditTypeOK, TypedLineKept
<1>2. Str(buf) \in Entry
    BY Editing, StrOfLine
<1>g. PICK g : g = StoredHistory
    OBVIOUS
<1>3. g = [history EXCEPT ![Len(history) - history_index] = Str(buf)]
    BY <1>g DEF StoredHistory, At
<1>4. /\ g \in Seq(Entry) /\ Len(g) = Len(history) /\ Len(history) \in Nat
      /\ history_index = 0 => g[Len(g)] = Str(buf)
      /\ history_index # 0 => g[Len(g)] = history[Len(history)]
      /\ Str(buf) = history[Len(history) - history_index] => g = history
    BY <1>1, <1>2, <1>3, Stored
<1>5. history_index # 0 => history[Len(history)] = typed
    BY DEF EditorInv, TypedLineKept, Last
<1>6. ASSUME ~edited, ShortEntries PROVE g = history /\ AllBelow(history, buflen)
    <2>1. history = HistoryAdd(before, <<>>) /\ Str(buf) = history[Len(history) - history_index]
        BY <1>6 DEF EditorInv, BrowseInv, At
    <2>2. AllBelow(before, buflen)
        BY <1>6 DEF ShortEntries, AllBelow
    <2>3. <<>> \in Entry /\ Len(<<>>) < buflen
        BY Sizes, EmptySeq DEF Entry
    <2> QED
        BY <1>4, <2>1, <2>2, <2>3, Added DEF EditorInv, EditTypes
<1> QED
    BY <1>2, <1>4, <1>5, <1>6, <1>g

LEMMA HistoryEndKeeps ==
    ASSUME EditorInv, mode = "edit", NEW d, HistoryEnd(d), UNCHANGED loopVars
    PROVE  EditorInv'
<1>1. /\ history' = StoredHistory /\ typed' = IF history_index = 0 THEN Str(buf) ELSE typed
      /\ UNCHANGED <<buf, len, pos, history_index, mode, ret, line, before, edited>>
      /\ keys < MaxKeys /\ keys' = keys + 1
    BY DEF HistoryEnd, StoredHistory, bufVars, callVars, Key
<1>2. /\ history' \in Seq(Entry) /\ Len(history') = Len(history)
      /\ Len(history) \in Nat /\ Str(buf) \in Entry
      /\ history_index = 0 => history'[Len(history)] = Str(buf)
      /\ history_index # 0 => history'[Len(history)] = typed
      /\ ~edited /\ ShortEntries => history' = history
    BY <1>1, StoreKeeps
<1>3. EditTypes'
    <2>1. keys' \in 0..MaxKeys
        BY <1>1, LineEditAssumption DEF EditorInv, EditTypes, EditTypeOK
    <2>2. edited' \in BOOLEAN
        BY <1>1, Zenon DEF EditorInv, EditTypes, EditTypeOK
    <2>3. typed' \in Entry
        BY <1>1, <1>2 DEF EditorInv, EditTypes
    <2> QED
        BY <1>1, <1>2, <2>1, <2>2, <2>3 DEF EditorInv, EditTypes, EditTypeOK
<1>4. LoopTypes'
    BY LoopSame
<1>5. CallInv'
    BY <1>1 DEF EditorInv, CallInv, loopVars
<1>6. Terminated'
    BY <1>1 DEF EditorInv, Terminated
<1>7. TypedLineKept'
    BY <1>1, <1>2 DEF EditorInv, TypedLineKept, Last
<1>8. ShortEntries' = ShortEntries
    BY <1>1 DEF ShortEntries
<1>9. BrowseInv'
    BY <1>1, <1>2, <1>8 DEF EditorInv, BrowseInv, At
<1>10. HistoryKept'
    BY <1>1 DEF EditorInv, HistoryKept, CallInv
<1> QED
    BY <1>3, <1>4, <1>5, <1>6, <1>7, <1>9, <1>10 DEF EditorInv

LEMMA HistoryNextKeeps ==
    ASSUME EditorInv, mode = "edit", NEW d, HistoryNext(d), UNCHANGED loopVars
    PROVE  /\ EditorInv' /\ len' \in 0..buflen /\ pos' = len'
           /\ \A i \in 0..len' - 1 : buf'[i] \in Keys
<1>i. PICK i : i = history_index + d
    OBVIOUS
<1>1. /\ history' = StoredHistory /\ typed' = IF history_index = 0 THEN Str(buf) ELSE typed
      /\ i \in 0..Len(history) - 1 /\ history_index' = i
      /\ buf' = StrNCpy(buf, StoredHistory[Len(history) - i])
      /\ len' = StrLen(buf') /\ pos' = StrLen(buf')
      /\ UNCHANGED <<mode, ret, line, before, edited>>
      /\ keys < MaxKeys /\ keys' = keys + 1
    BY <1>i DEF HistoryNext, HistoryNextAs, StoredHistory, callVars, Key, Redraw, At
<1>2. /\ history' \in Seq(Entry) /\ Len(history') = Len(history)
      /\ Len(history) \in Nat /\ Str(buf) \in Entry
      /\ history_index = 0 => history'[Len(history)] = Str(buf)
      /\ history_index # 0 => history'[Len(history)] = typed
      /\ ~edited /\ ShortEntries => history' = history /\ AllBelow(history, buflen)
    BY <1>1, StoreKeeps
<1>e. PICK e \in Entry : e = history'[Len(history') - history_index']
    <2>1. Len(history') - history_index' \in 1..Len(history')
        BY <1>1, <1>2
    <2> QED
        BY <1>2, <2>1, ElementOfSeq
<1>3. /\ buf' \in Buffer /\ Line(buf', len')
      /\ Len(e) < buflen => Str(buf') = e
    <2>1. buf' = StrNCpy(buf, e)
        BY <1>1, <1>2, <1>e
    <2> QED
        BY <1>1, <2>1, Editing, CopiedEntry
<1>4. len' \in 0..buflen /\ pos' \in 0..len' /\ pos' = len'
    BY <1>1, <1>3 DEF Line
<1>5. EditTypes'
    <2>1. keys' \in 0..MaxKeys
        BY <1>1, LineEditAssumption DEF EditorInv, EditTypes, EditTypeOK
    <2>2. edited' \in BOOLEAN
        BY <1>1, Zenon DEF EditorInv, EditTypes, EditTypeOK
    <2>3. typed' \in Entry
        BY <1>1, <1>2 DEF EditorInv, EditTypes
    <2>4. history_index' \in Nat
        BY <1>1, <1>2
    <2> QED
        BY <1>1, <1>2, <1>3, <1>4, <2>1, <2>2, <2>3, <2>4
        DEF EditorInv, EditTypes, EditTypeOK, Buffer
<1>6. LoopTypes'
    BY LoopSame
<1>7. CallInv'
    BY <1>1 DEF EditorInv, CallInv, loopVars
<1>8. Terminated'
    BY <1>3 DEF Terminated, Line
<1>9. TypedLineKept'
    <2>1. history_index' < Len(history')
        BY <1>1, <1>2
    <2>2. history'[Len(history')] = typed'
        BY <1>1, <1>2
    <2> QED
        BY <2>1, <2>2 DEF TypedLineKept, Last
<1>10. ShortEntries' = ShortEntries
    BY <1>1 DEF ShortEntries
<1>11. BrowseInv'
    <2> SUFFICES ASSUME ~edited', ShortEntries'
                 PROVE  /\ history' = HistoryAdd(before', <<>>)
                        /\ Str(buf') = history'[Len(history') - history_index']
        BY DEF BrowseInv, At
    <2>1. history' = history /\ AllBelow(history, buflen)
        BY <1>1, <1>2, <1>10
    <2>2. history = HistoryAdd(before, <<>>)
        BY <1>1, <1>10 DEF EditorInv, BrowseInv
    <2>3. Len(history') - history_index' \in 1..Len(history)
        BY <1>1, <1>2
    <2>4. Len(e) < buflen
        BY <1>e, <2>1, <2>3 DEF AllBelow
    <2> QED
        BY <1>1, <1>3, <1>e, <2>1, <2>2, <2>4
<1>12. HistoryKept'
    BY <1>1 DEF EditorInv, HistoryKept, CallInv
<1>13. \A j \in 0..len' - 1 : buf'[j] \in Keys
    BY <1>3 DEF Line
<1> QED
    BY <1>4, <1>5, <1>6, <1>7, <1>8, <1>9, <1>11, <1>12, <1>13 DEF EditorInv

\* linenoise returns.
LEMMA FinishKeeps ==
    ASSUME EditorInv, mode = "edit", UNCHANGED loopVars, keys' \in 0..MaxKeys,
           NEW r, NEW h, Finish(r, h), r # "none",
           h = history \/ h = Front(history), r \in {"line", "eof"} => h = Front(history)
    PROVE  EditorInv'
<1>1. /\ mode' = "off" /\ ret' = r /\ history' = h
      /\ line' = IF r \in {"line", "hangup"} THEN Str(buf) ELSE <<>>
      /\ UNCHANGED <<buf, len, pos, history_index, typed, before, edited>>
    BY DEF Finish, bufVars
<1>2. history \in Seq(Entry) /\ history # <<>> /\ Len(history) <= history_max_len
    <2>1. history \in Seq(Entry) /\ Len(history) <= history_max_len
        BY DEF EditorInv, EditTypes, EditTypeOK
    <2>2. history_index \in Nat /\ history_index < Len(history)
        BY DEF EditorInv, EditTypes, EditTypeOK, TypedLineKept
    <2>3. Len(<<>>) = 0
        BY EmptySeq
    <2> QED
        BY <2>1, <2>2, <2>3
<1>3. history' \in Seq(Entry) /\ Len(history') <= history_max_len
    <2>1. Front(history) \in Seq(Entry) /\ Len(Front(history)) = Len(history) - 1
          /\ Len(history) \in Nat
        BY <1>2, FrontTail
    <2>2. history_max_len \in Nat
        BY LineEditAssumption
    <2> QED
        BY <1>1, <1>2, <2>1, <2>2
<1>4. EditTypes'
    <2>1. line' \in Entry
        <3>1. Str(buf) \in Entry
            BY Editing, StrOfLine
        <3>2. <<>> \in Entry
            BY EmptySeq DEF Entry
        <3> QED
            BY <1>1, <3>1, <3>2
    <2>2. edited' \in BOOLEAN
        BY <1>1, Zenon DEF EditorInv, EditTypes, EditTypeOK
    <2> QED
        BY <1>1, <1>3, <2>1, <2>2 DEF EditorInv, EditTypes, EditTypeOK
<1>5. LoopTypes'
    BY LoopSame
<1>6. CallInv'
    BY <1>1 DEF EditorInv, CallInv, loopVars
<1>7. Terminated' /\ TypedLineKept' /\ BrowseInv'
    BY <1>1 DEF Terminated, TypedLineKept, BrowseInv
<1>8. HistoryKept'
    <2> SUFFICES ASSUME r \in {"line", "eof"}, ~edited, ShortEntries
                 PROVE  Front(history) = Kept(before)
        <3>1. ShortEntries' = ShortEntries
            BY <1>1 DEF ShortEntries
        <3> QED
            BY <1>1, <3>1 DEF HistoryKept
    <2>1. history = HistoryAdd(before, <<>>)
        BY DEF EditorInv, BrowseInv
    <2>2. <<>> \in Entry
        BY EmptySeq DEF Entry
    <2> QED
        BY <2>1, <2>2, Added DEF EditorInv, EditTypes
<1> QED
    BY <1>4, <1>5, <1>6, <1>7, <1>8 DEF EditorInv

LEMMA KeyKeeps ==
    ASSUME EditorInv, EditKey, UNCHANGED loopVars
    PROVE  EditorInv'
<1> mode = "edit"
    BY DEF EditKey
<1>k. Key => keys' \in 0..MaxKeys
    BY LineEditAssumption DEF Key, EditorInv, EditTypes, EditTypeOK
<1>1. CASE \E c \in Keys : InsertEnd(c) \/ InsertMiddle(c)
    BY <1>1, InsertKeeps
<1>2. CASE InsertFull \/ Nothing
    BY <1>2, IgnoredKeeps DEF InsertFull, Nothing
<1>3. CASE Backspace
    BY <1>3, BackspaceKeeps
<1>4. CASE Delete
    BY <1>4, DeleteKeeps
<1>5. CASE Transpose
    BY <1>5, TransposeKeeps
<1>6. CASE KillLine \/ KillEnd
    <2>1. 0 \in 0..len /\ pos \in 0..len
        BY Editing
    <2>2. CASE KillLine
        BY <2>1, <2>2, KillKeeps DEF KillLine
    <2>3. CASE KillEnd
        BY <2>1, <2>3, KillKeeps DEF KillEnd
    <2> QED
        BY <1>6, <2>2, <2>3
<1>7. CASE DeletePrevWord
    BY <1>7, PrevWordKeeps
<1>8. CASE Moving
    BY <1>8, MoveKeeps
<1>9. CASE \E d \in {1, -1} : HistoryNext(d) \/ HistoryEnd(d)
    BY <1>9, HistoryNextKeeps, HistoryEndKeeps
<1>10. CASE Enter
    BY <1>10, <1>k, FinishKeeps DEF Enter
<1>11. CASE EndOfFile
    BY <1>11, <1>k, FinishKeeps DEF EndOfFile
<1>12. CASE Interrupt
    BY <1>12, <1>k, FinishKeeps DEF Interrupt
<1> QED
    BY <1>1, <1>2, <1>3, <1>4, <1>5, <1>6, <1>7, <1>8, <1>9, <1>10, <1>11, <1>12
    DEF EditKey, Moving

LEMMA HangupKeeps ==
    ASSUME EditorInv, Lost
    PROVE  EditorInv'
<1>1. mode = "edit" /\ Finish("hangup", history) /\ keys' = keys /\ UNCHANGED loopVars
    BY DEF Lost, Hangup
<1>2. keys' \in 0..MaxKeys
    BY <1>1 DEF EditorInv, EditTypes, EditTypeOK
<1> QED
    BY <1>1, <1>2, FinishKeeps

\* The loop calls linenoise.
LEMMA CallKeeps ==
    ASSUME EditorInv, Call
    PROVE  EditorInv'
<1>0. pc = "read" /\ ret = "none" /\ mode = "off" /\ UNCHANGED loopVars
    BY DEF Call, BeginEdit, NoRawMode
<1>1. LoopTypes'
    BY <1>0, LoopSame
<1>2. CASE NoRawMode
    <2>1. /\ ret' = "noraw" /\ line' = <<>> /\ mode' = "off"
          /\ UNCHANGED <<buf, len, pos, history_index, history, typed, before, edited, keys>>
        BY <1>0, <1>2 DEF NoRawMode, bufVars, histVars
    <2>2. line' \in Entry
        BY <2>1, EmptySeq DEF Entry
    <2>3. EditTypes'
        <3>1. edited' \in BOOLEAN
            BY <2>1, Zenon DEF EditorInv, EditTypes, EditTypeOK
        <3> QED
            BY <2>1, <2>2, <3>1 DEF EditorInv, EditTypes, EditTypeOK
    <2>4. CallInv'
        BY <1>0, <2>1 DEF CallInv, loopVars
    <2>5. Terminated' /\ TypedLineKept' /\ BrowseInv' /\ HistoryKept'
        BY <2>1 DEF Terminated, TypedLineKept, BrowseInv, HistoryKept
    <2> QED
        BY <1>1, <2>3, <2>4, <2>5 DEF EditorInv
<1>3. CASE BeginEdit
    <2>1. /\ mode' = "edit" /\ ret' = "none" /\ line' = <<>> /\ typed' = <<>>
          /\ buf' = [i \in 0..LINENOISE_MAX_LINE - 1 |-> IF i = 0 THEN NUL ELSE Junk]
          /\ len' = 0 /\ pos' = 0 /\ history_index' = 0
          /\ history' = HistoryAdd(history, <<>>) /\ before' = history
          /\ edited' = FALSE /\ keys' = keys
        BY <1>3 DEF BeginEdit
    <2>2. <<>> \in Entry
        BY EmptySeq DEF Entry
    <2>3. /\ history' \in Seq(Entry) /\ Len(history') \in 1..history_max_len
          /\ history'[Len(history')] = <<>>
        BY <2>1, <2>2, Added DEF EditorInv, EditTypes, EditTypeOK
    <2>4. buf' \in Buffer /\ buf'[0] = NUL
        BY <2>1, Sizes DEF Buffer
    <2>5. EditTypes'
        <3>1. 0 \in 0..buflen /\ 0 \in 0..0 /\ 0 \in Nat
            BY Sizes
        <3>2. edited' \in BOOLEAN
            BY <2>1, Zenon
        <3>3. Len(history') <= history_max_len
            BY <2>3, LineEditAssumption
        <3> QED
            BY <2>1, <2>2, <2>3, <2>4, <3>1, <3>2, <3>3
            DEF EditorInv, EditTypes, EditTypeOK, Buffer
    <2>6. CallInv'
        BY <1>0, <2>1 DEF CallInv, loopVars
    <2>7. Terminated'
        BY <2>1, <2>4 DEF Terminated
    <2>8. TypedLineKept'
        BY <2>1, <2>3, LineEditAssumption DEF TypedLineKept
    <2>9. BrowseInv'
        <3>1. Str(buf') = <<>>
            <4>1. Len(<<>>) = 0 /\ \A i \in 1..0 : FALSE
                BY EmptySeq
            <4> QED
                BY <2>2, <2>4, <4>1, Sizes, StrIs
        <3>2. Len(history') - history_index' = Len(history')
            BY <2>1, <2>3
        <3> QED
            BY <2>1, <2>3, <3>1, <3>2 DEF BrowseInv, At
    <2>10. HistoryKept'
        BY <2>1 DEF HistoryKept
    <2> QED
        BY <1>1, <2>5, <2>6, <2>7, <2>8, <2>9, <2>10 DEF EditorInv
<1> QED
    BY <1>2, <1>3 DEF Call

-----------------------------------------------------------------------------
(* Steps of the loop itself.                                               *)

LEMMA FirstInRange ==
    ASSUME NEW i \in Nat, i >= 1, i <= Len(text) + 1, Len(text) \in Nat, NEW S
    PROVE  /\ FirstIn(i, S) \in Nat /\ FirstIn(i, S) >= i /\ FirstIn(i, S) <= Len(text) + 1
           /\ FirstIn(i, S) <= Len(text) => text[FirstIn(i, S)] \in S
<1>n. PICK n \in Nat : n = Len(text)
    OBVIOUS
<1>t. PICK T : T = {j \in i..n : text[j] \in S} \cup {n + 1}
    OBVIOUS
<1>1. T \in SUBSET Nat /\ n + 1 \in T
    BY <1>t
<1>2. Min(T) \in T /\ \A k \in T : Min(T) <= k
    BY <1>1, Least
<1>3. FirstIn(i, S) = Min(T)
    BY <1>n, <1>t DEF FirstIn, FirstOf
<1> QED
    BY <1>n, <1>t, <1>1, <1>2, <1>3

LEMMA LoadKeeps ==
    ASSUME EditorInv, Load
    PROVE  EditorInv'
<1>1. /\ pc = "load" /\ at <= Len(file) /\ history' = LoadLine(history, file[at]) /\ at' = at + 1
      /\ UNCHANGED <<buf, len, pos, mode, ret, line, before, history_index, typed, edited, keys,
                     pc, text, argc, argv, cmd, file>>
    BY DEF Load, bufVars, callVars
<1>2. mode = "off" /\ ret = "none" /\ file \in Seq(Entry) /\ at \in 1..Len(file) + 1
    BY <1>1 DEF EditorInv, CallInv, LoopTypes
<1>3. file[at] \in Entry /\ at + 1 \in 1..Len(file) + 1
    <2>1. at \in 1..Len(file) /\ Len(file) \in Nat
        BY <1>1, <1>2, LenProperties
    <2> QED
        BY <1>2, <2>1, ElementOfSeq
<1>4. history' \in Seq(Entry) /\ Len(history') <= history_max_len
    <2>1. history \in Seq(Entry) /\ Len(history) <= history_max_len
        BY DEF EditorInv, EditTypes, EditTypeOK
    <2>h. PICK h : h = HistoryAdd(history, file[at])
        OBVIOUS
    <2>2. h \in Seq(Entry) /\ Len(h) \in 1..history_max_len
        BY <1>3, <2>1, <2>h, Added
    <2>3. Len(h) <= history_max_len /\ <<>> \in Entry
        BY <2>2, LineEditAssumption, EmptySeq DEF Entry
    <2>4. HistoryAdd(h, <<>>) \in Seq(Entry) /\ Len(HistoryAdd(h, <<>>)) \in 1..history_max_len
        BY <2>2, <2>3, Added
    <2>5. history' = h \/ history' = HistoryAdd(h, <<>>)
        BY <1>1, <2>h DEF LoadLine
    <2> QED
        BY <2>2, <2>3, <2>4, <2>5, LineEditAssumption
<1>5. EditTypes'
    <2>1. edited' \in BOOLEAN
        BY <1>1, Zenon DEF EditorInv, EditTypes, EditTypeOK
    <2> QED
        BY <1>1, <1>4, <2>1 DEF EditorInv, EditTypes, EditTypeOK
<1>6. LoopTypes'
    BY <1>1, <1>3 DEF EditorInv, LoopTypes
<1>7. CallInv'
    BY <1>1, <1>2 DEF CallInv
<1>8. Terminated' /\ TypedLineKept' /\ BrowseInv' /\ HistoryKept'
    BY <1>1, <1>2 DEF Terminated, TypedLineKept, BrowseInv, HistoryKept
<1> QED
    BY <1>5, <1>6, <1>7, <1>8 DEF EditorInv

LEMMA LoadDoneKeeps ==
    ASSUME EditorInv, LoadDone
    PROVE  EditorInv'
<1>1. pc = "load" /\ pc' = "read" /\ at' = 1 /\ UNCHANGED <<editVars, text, argc, argv, cmd, file>>
    BY DEF LoadDone
<1>2. LoopTypes'
    <2>1. Len(text) \in Nat
        BY LenProperties DEF EditorInv, LoopTypes
    <2>2. 1 \in 1..Len(text) + 1
        BY <2>1
    <2> QED
        BY <1>1, <2>2 DEF EditorInv, LoopTypes
<1>3. CallInv'
    BY <1>1 DEF EditorInv, CallInv, editVars, callVars
<1> QED
    BY <1>1, <1>2, <1>3, LoopKeeps

LEMMA AcceptKeeps ==
    ASSUME EditorInv, Accept
    PROVE  EditorInv'
<1>1. /\ pc = "read" /\ mode = "off" /\ ret' = "none" /\ text' = line /\ at' = 1
      /\ argc' = 0 /\ argv' = <<>> /\ pc' \in {"read", "save", "count"}
      /\ UNCHANGED <<buf, len, pos, mode, line, before, history_index, history, typed, edited,
                     keys>>
    BY DEF Accept, bufVars, histVars
<1>2. EditTypes'
    <2>1. edited' \in BOOLEAN
        BY <1>1, Zenon DEF EditorInv, EditTypes, EditTypeOK
    <2> QED
        BY <1>1, <2>1 DEF EditorInv, EditTypes, EditTypeOK
<1>3. LoopTypes'
    <2>1. text' \in Seq(Keys)
        <3>1. line \in Seq(Chars) /\ Chars \subseteq Keys
            BY Sizes DEF EditorInv, EditTypes, Entry
        <3> QED
            BY <1>1, <3>1
    <2>2. Len(text') \in Nat
        BY <2>1, LenProperties
    <2>3. 1 \in 1..Len(text') + 1 /\ 0 \in 0..ArgcMod - 1
        BY <2>2, ShellAssumption
    <2>4. argv' \in Seq(1..Len(text'))
        BY <1>1, EmptySeq
    <2> QED
        BY <1>1, <2>1, <2>3, <2>4 DEF LoopTypes
<1>4. CallInv'
    BY <1>1 DEF CallInv
<1>5. Terminated' /\ TypedLineKept' /\ BrowseInv' /\ HistoryKept'
    BY <1>1 DEF Terminated, TypedLineKept, BrowseInv, HistoryKept
<1> QED
    BY <1>2, <1>3, <1>4, <1>5 DEF EditorInv

\* split_str runs while linenoise does not.
LEMMA SplitKeeps ==
    ASSUME EditorInv, UNCHANGED editVars, pc \notin {"read", "load"}, LoopTypes', pc' # "load"
    PROVE  EditorInv'
<1>1. mode' = "off"
    BY DEF EditorInv, CallInv, EditTypes, EditTypeOK, editVars, callVars
<1>2. CallInv'
    BY <1>1 DEF CallInv
<1> QED
    BY <1>2, LoopKeeps

\* The word that is looked for lies in the line.
LEMMA WordInLine ==
    ASSUME EditorInv, pc # "load"
    PROVE  /\ Len(text) \in Nat /\ WordStart \in Nat /\ WordEnd \in Nat
           /\ WordStart >= 1 /\ WordEnd >= 1 /\ WordEnd <= Len(text) + 1
<1>1. Len(text) \in Nat /\ at \in 1..Len(text) + 1
    BY LenProperties DEF EditorInv, LoopTypes
<1>2. at \in Nat /\ at >= 1 /\ at <= Len(text) + 1
    BY <1>1
<1>s. PICK s : s = WordStart
    OBVIOUS
<1>3. s \in Nat /\ s >= at /\ s <= Len(text) + 1
    BY <1>1, <1>2, <1>s, FirstInRange DEF WordStart
<1>4. s \in Nat /\ s >= 1
    BY <1>2, <1>3
<1>5. WordEnd \in Nat /\ WordEnd >= s /\ WordEnd <= Len(text) + 1
    BY <1>1, <1>3, <1>4, <1>s, FirstInRange DEF WordEnd
<1> QED
    BY <1>1, <1>4, <1>5, <1>s

LEMMA CountKeeps ==
    ASSUME EditorInv, CountWord \/ CountDone
    PROVE  EditorInv'
<1>1. CASE CountWord
    <2>1. /\ pc = "count" /\ pc' = "count" /\ at' = WordEnd /\ UNCHANGED <<editVars, text, argv>>
          /\ argc' = IF WordStart <= Len(text) THEN (argc + 1) % ArgcMod ELSE argc
        BY <1>1 DEF CountWord, CountFrom
    <2>2. argc' \in 0..ArgcMod - 1
        <3>1. argc \in Nat /\ argc \in 0..ArgcMod - 1 /\ ArgcMod \in Nat /\ ArgcMod > 0
            BY ShellAssumption DEF EditorInv, LoopTypes
        <3>2. (argc + 1) % ArgcMod \in 0..ArgcMod - 1
            BY <3>1
        <3> QED
            BY <2>1, <3>1, <3>2
    <2>3. at' \in 1..Len(text) + 1
        BY <2>1, WordInLine
    <2>4. LoopTypes'
        BY <2>1, <2>2, <2>3 DEF EditorInv, LoopTypes
    <2> QED
        BY <2>1, <2>4, SplitKeeps
<1>2. CASE CountDone
    <2>1. /\ pc = "count" /\ pc' \in {"read", "cut"} /\ at' = 1
          /\ UNCHANGED <<editVars, text, argc, argv>>
        BY <1>2 DEF CountDone
    <2>2. 1 \in 1..Len(text) + 1
        BY <2>1, WordInLine
    <2>3. LoopTypes'
        BY <2>1, <2>2 DEF EditorInv, LoopTypes
    <2> QED
        BY <2>1, <2>3, SplitKeeps
<1> QED
    BY <1>1, <1>2

LEMMA CutKeeps ==
    ASSUME EditorInv, CutWord
    PROVE  EditorInv'
<1>1. /\ pc = "cut" /\ pc' = "cut" /\ UNCHANGED <<editVars, argc>>
      /\ argv' = IF WordStart <= Len(text) THEN Append(argv, WordStart) ELSE argv
      /\ IF WordEnd <= Len(text)
         THEN text' = [text EXCEPT ![WordEnd] = NUL] /\ at' = WordEnd + 1
         ELSE at' = WordEnd /\ text' = text
    BY DEF CutWord, CutWith
<1>2. text \in Seq(Keys) /\ argv \in Seq(1..Len(text)) /\ NUL \in Keys
    BY Sizes DEF EditorInv, LoopTypes
<1>3. text' \in Seq(Keys) /\ Len(text') = Len(text)
    <2>1. CASE WordEnd <= Len(text)
        <3>1. PICK e \in 1..Len(text) : e = WordEnd
            BY <1>1, <2>1, WordInLine
        <3>2. text' = [text EXCEPT ![e] = NUL]
            BY <1>1, <2>1, <3>1
        <3> QED
            BY <1>2, <3>2, ExceptSeq
    <2>2. CASE ~ (WordEnd <= Len(text))
        BY <1>1, <1>2, <2>2
    <2> QED
        BY <2>1, <2>2
<1>4. at' \in 1..Len(text') + 1
    BY <1>1, <1>3, WordInLine
<1>5. argv' \in Seq(1..Len(text'))
    <2>1. WordStart <= Len(text) => WordStart \in 1..Len(text)
        BY <1>1, WordInLine
    <2> QED
        BY <1>1, <1>2, <1>3, <2>1, AppendProperties
<1>6. LoopTypes'
    BY <1>1, <1>3, <1>4, <1>5 DEF EditorInv, LoopTypes
<1> QED
    BY <1>1, <1>6, SplitKeeps

LEMMA RestKeeps ==
    ASSUME EditorInv, CutDone \/ Execute \/ Save
    PROVE  EditorInv'
<1>1. /\ pc \in {"cut", "execute", "save"} /\ pc' \in {"execute", "read", "end", "unsaved"}
      /\ UNCHANGED <<editVars, text, at, argc, argv>>
    BY DEF CutDone, Execute, Save
<1>2. LoopTypes'
    BY <1>1 DEF EditorInv, LoopTypes
<1> QED
    BY <1>1, <1>2, SplitKeeps

LEMMA InitEditorInv == Init => EditorInv
<1> SUFFICES ASSUME Init PROVE EditorInv
    OBVIOUS
<1>0. <<>> \in Entry /\ <<>> \in Seq(Entry) /\ <<>> \in Seq(Keys) /\ <<>> \in Seq(1..Len(text))
      /\ Len(<<>>) = 0
    BY EmptySeq DEF Entry
<1>1. file \in Seq(Entry)
    <2>1. file \in Seq(Seq(Chars \ {Newline}))
        BY ShellAssumption DEF Init
    <2>2. \A s \in Seq(Chars \ {Newline}) : s \in Seq(Chars)
        OBVIOUS
    <2> QED
        BY <2>1, <2>2 DEF Entry
<1>2. buf \in Buffer
    BY Sizes DEF Init, EditInit, Buffer
<1>3. EditTypes
    <2>1. edited \in BOOLEAN
        BY Zenon DEF Init, EditInit
    <2> QED
        BY <1>0, <1>2, <2>1, Sizes, LineEditAssumption
        DEF Init, EditInit, EditTypes, EditTypeOK, Buffer
<1>4. LoopTypes
    <2>1. Len(file) \in Nat
        BY <1>1, LenProperties
    <2>2. 1 \in 1..Len(file) + 1 /\ 0 \in 0..ArgcMod - 1
        BY <2>1, ShellAssumption
    <2> QED
        BY <1>0, <1>1, <2>2 DEF Init, LoopTypes
<1>5. CallInv /\ Terminated /\ TypedLineKept /\ BrowseInv /\ HistoryKept
    BY DEF Init, EditInit, CallInv, Terminated, TypedLineKept, BrowseInv, HistoryKept
<1> QED
    BY <1>3, <1>4, <1>5 DEF EditorInv

LEMMA NextEditorInv == EditorInv /\ [Next]_vars => EditorInv'
<1> SUFFICES ASSUME EditorInv, [Next]_vars PROVE EditorInv'
    OBVIOUS
<1>1. CASE Load
    BY <1>1, LoadKeeps
<1>2. CASE LoadDone
    BY <1>2, LoadDoneKeeps
<1>3. CASE Call
    BY <1>3, CallKeeps
<1>4. CASE Accept
    BY <1>4, AcceptKeeps
<1>5. CASE CountWord \/ CountDone
    BY <1>5, CountKeeps
<1>6. CASE CutWord
    BY <1>6, CutKeeps
<1>7. CASE CutDone \/ Execute \/ Save
    BY <1>7, RestKeeps
<1>8. CASE Press
    BY <1>8, KeyKeeps DEF Press
<1>9. CASE Lost
    BY <1>9, HangupKeeps
<1>10. CASE UNCHANGED vars
    <2>1. UNCHANGED editVars /\ UNCHANGED loopVars
        BY <1>10 DEF vars
    <2>2. LoopTypes' /\ CallInv'
        BY <2>1, LoopSame DEF EditorInv, CallInv, loopVars, editVars, callVars
    <2> QED
        BY <2>1, <2>2, LoopKeeps
<1> QED
    BY <1>1, <1>2, <1>3, <1>4, <1>5, <1>6, <1>7, <1>8, <1>9, <1>10 DEF Next, Loop

LEMMA EditorInvHolds == Spec => []EditorInv
<1>1. Init => EditorInv
    BY InitEditorInv
<1>2. EditorInv /\ [Next]_vars => EditorInv'
    BY NextEditorInv
<1> QED
    BY <1>1, <1>2, PTL DEF Spec

\* Whatever keys are pressed, for any buffer, history and number of keys: the
\* buffer of linenoise is a string within its bounds, the line that was typed
\* survives browsing, and a history that was only browsed is the one from
\* before the call.
THEOREM EditorStaysSound == Spec => []EditorSound
<1>1. EditorInv => EditorSound
    <2> SUFFICES ASSUME EditorInv PROVE EditorSound
        OBVIOUS
    <2>1. \A i \in 1..Len(argv) : argv[i] \in 1..Len(text)
        BY ElementOfSeq DEF EditorInv, LoopTypes
    <2> QED
        BY <2>1 DEF EditorSound, TypeOK, EditorInv, EditTypes, LoopTypes
<1> QED
    BY <1>1, EditorInvHolds, PTL

-----------------------------------------------------------------------------
(* The screen.                                                             *)

\* A character written at the end of a line that fits is what a refresh shows.
LEMMA OneCharacter ==
    ASSUME NEW b, NEW r, NEW n \in Nat, NEW c, PLen + n + 1 < Cols, Inserted(r, b, n, n, c)
    PROVE  [text |-> Append(Refreshed(b, n, n).text, c), cursor |-> Refreshed(b, n, n).cursor + 1]
             = Refreshed(r, n + 1, n + 1)
<1> USE LineEditAssumption
<1>m. PICK m \in Nat : m = n + 1
    OBVIOUS
<1>1. Min({n - 0, Cols - PLen}) = n /\ Min({m - 0, Cols - PLen}) = m
    <2>1. n - 0 \in Int /\ m - 0 \in Int /\ Cols - PLen \in Int /\ n <= Cols - PLen
          /\ m <= Cols - PLen /\ n - 0 = n /\ m - 0 = m
        BY <1>m
    <2> QED
        BY <2>1, MinOfTwo
<1>2. Refreshed(b, n, n) = [text |-> Piece(b, 0, n), cursor |-> PLen + n - 0]
    BY <1>1 DEF Refreshed
<1>3. Refreshed(r, m, m) = [text |-> Piece(r, 0, m), cursor |-> PLen + m - 0]
    BY <1>1, <1>m DEF Refreshed
<1>4. Append(Piece(b, 0, n), c) = Piece(r, 0, m)
    <2>1. \A j \in 1..n : r[0 + j - 1] = b[0 + j - 1]
        <3>1. \A j \in 1..n : 0 + j - 1 \in 0..n - 1 /\ (0 + j - 1) + 0 = 0 + j - 1
            OBVIOUS
        <3> QED
            BY <3>1 DEF Inserted, Same
    <2>2. r[0 + m - 1] = c
        BY <1>m DEF Inserted
    <2> QED
        BY <2>1, <2>2, <1>m DEF Piece
<1>5. PLen + n - 0 + 1 = PLen + m - 0
    BY <1>m
<1> QED
    BY <1>2, <1>3, <1>4, <1>5, <1>m

LEMMA NextScreenRight ==
    EditorInv /\ ScreenRight /\ [Next]_vars => ScreenRight'
<1> SUFFICES ASSUME EditorInv, ScreenRight, [Next]_vars, mode' = "edit"
             PROVE  screen' = Refreshed(buf', len', pos')
    BY DEF ScreenRight
<1> USE DEF bufVars, editVars, callVars
<1>1. CASE Press /\ mode = "edit"
    <2>0. screen = Refreshed(buf, len, pos) /\ EditKey /\ UNCHANGED loopVars
        BY <1>1 DEF ScreenRight, Press
    <2>1. CASE \E c \in Keys : InsertEnd(c) \/ InsertMiddle(c)
        <3>c. PICK c \in Keys : InsertEnd(c) \/ InsertMiddle(c)
            BY <2>1
        <3>1. CASE InsertEnd(c) /\ PLen + len + 1 < Cols
            <4>1. /\ pos = len /\ len' = len + 1 /\ pos' = len + 1
                  /\ screen' = [text |-> Append(screen.text, c), cursor |-> screen.cursor + 1]
                BY <3>1 DEF InsertEnd, InsertEndIf
            <4>2. Inserted(buf', buf, len, len, c) /\ len \in Nat
                BY <1>1, <2>0, <3>c, <4>1, InsertKeeps, Editing
            <4> QED
                BY <2>0, <3>1, <4>1, <4>2, OneCharacter
        <3>2. CASE InsertEnd(c) /\ ~ (PLen + len + 1 < Cols)
            BY <3>2 DEF InsertEnd, InsertEndIf
        <3>3. CASE InsertMiddle(c)
            BY <3>3 DEF InsertMiddle, InsertMiddleWith, Edit, Redraw
        <3> QED
            BY <3>c, <3>1, <3>2, <3>3
    <2>2. CASE InsertFull \/ Nothing
        BY <2>0, <2>2 DEF InsertFull, Nothing, Ignored
    <2>3. CASE Backspace \/ Delete \/ Transpose \/ KillLine \/ KillEnd \/ DeletePrevWord
        BY <2>3 DEF Backspace, Delete, Transpose, KillLine, KillEnd, DeletePrevWord, Edit, Redraw
    <2>4. CASE Moving
        BY <2>4 DEF Moving, MoveLeft, MoveRight, MoveHome, MoveEnd, MoveTo, Redraw
    <2>5. CASE \E d \in {1, -1} : HistoryNext(d) \/ HistoryEnd(d)
        BY <2>0, <2>5 DEF HistoryNext, HistoryNextAs, HistoryEnd, Redraw
    <2>6. CASE Enter \/ EndOfFile \/ Interrupt
        BY <2>6 DEF Enter, EndOfFile, Interrupt, Finish
    <2> QED
        BY <2>0, <2>1, <2>2, <2>3, <2>4, <2>5, <2>6 DEF EditKey, Moving
<1>2. CASE Call
    <2>1. CASE BeginEdit
        <3>1. /\ screen' = [text |-> <<>>, cursor |-> PLen] /\ len' = 0 /\ pos' = 0
            BY <2>1 DEF BeginEdit
        <3>2. Min({0 - 0, Cols - PLen}) = 0 /\ ~ (PLen + 0 >= Cols)
            <4>1. 0 - 0 \in Int /\ Cols - PLen \in Int /\ 0 - 0 <= Cols - PLen /\ 0 - 0 = 0
                BY LineEditAssumption
            <4> QED
                BY <4>1, MinOfTwo, LineEditAssumption
        <3>3. Piece(buf', 0, 0) = <<>> /\ PLen + 0 - 0 = PLen
            BY LineEditAssumption DEF Piece
        <3> QED
            BY <3>1, <3>2, <3>3 DEF Refreshed
    <2>2. CASE NoRawMode
        BY <2>2 DEF NoRawMode
    <2> QED
        BY <1>2, <2>1, <2>2 DEF Call
<1>3. CASE Load \/ Accept
    BY <1>3 DEF Load, Accept, ScreenRight
<1>4. CASE UNCHANGED editVars
    BY <1>4 DEF ScreenRight
<1>5. CASE Lost
    BY <1>5 DEF Lost, Hangup, Finish
<1> QED
    BY <1>1, <1>2, <1>3, <1>4, <1>5
    DEF Next, Loop, Press, EditKey, LoadDone, CountWord, CountFrom, CountDone, CutWord, CutWith,
        CutDone, Execute, Save, vars

\* The terminal always shows what a full refresh would show, for any width:
\* writing a single character never makes a difference.
THEOREM ScreenStaysRight == Spec => []ScreenRight
<1>1. Init => ScreenRight
    BY DEF Init, EditInit, ScreenRight
<1>2. EditorInv /\ ScreenRight /\ [Next]_vars => ScreenRight'
    BY NextScreenRight
<1> QED
    BY <1>1, <1>2, EditorInvHolds, PTL DEF Spec

-----------------------------------------------------------------------------
(* Pieces of the buffer as sequences.                                      *)

LEMMA PieceOf ==
    ASSUME NEW b \in Buffer, NEW i \in Nat, NEW n \in Nat, i + n <= buflen + 1
    PROVE  /\ Piece(b, i, n) \in Seq(Bytes) /\ Len(Piece(b, i, n)) = n
           /\ \A j \in 1..n : Piece(b, i, n)[j] = b[i + j - 1]
<1>1. ASSUME NEW j \in 1..n PROVE b[i + j - 1] \in Bytes
    <2>1. i + j - 1 \in 0..buflen
        BY Sizes
    <2> QED
        BY <2>1, Sizes DEF Buffer
<1> QED
    BY <1>1 DEF Piece

LEMMA PieceIs ==
    ASSUME NEW b \in Buffer, NEW i \in Nat, NEW n \in Nat, i + n <= buflen + 1,
           NEW s \in Seq(Bytes), Len(s) = n, \A j \in 1..n : s[j] = b[i + j - 1]
    PROVE  Piece(b, i, n) = s
<1>p. PICK t \in Seq(Bytes) : t = Piece(b, i, n) /\ Len(t) = n
                              /\ \A j \in 1..n : t[j] = b[i + j - 1]
    BY PieceOf
<1>1. \A j \in 1..Len(t) : t[j] = s[j]
    BY <1>p
<1>2. t = s
    BY <1>p, <1>1, SeqEqual
<1> QED
    BY <1>p, <1>2

LEMMA NoPiece == ASSUME NEW b, NEW i PROVE Piece(b, i, 0) = <<>>
BY DEF Piece

\* The same bytes at another place.
LEMMA PiecesEqual ==
    ASSUME NEW b \in Buffer, NEW r \in Buffer, NEW i \in Nat, NEW k \in Nat, NEW n \in Nat,
           i + n <= buflen + 1, k + n <= buflen + 1, Same(r, b, i, i + n, k - i)
    PROVE  Piece(r, i, n) = Piece(b, k, n)
<1>p. PICK t \in Seq(Bytes) : t = Piece(b, k, n) /\ Len(t) = n
                              /\ \A j \in 1..n : t[j] = b[k + j - 1]
    BY PieceOf
<1>1. ASSUME NEW j \in 1..n PROVE t[j] = r[i + j - 1]
    <2>1. i + j - 1 \in i..(i + n) - 1 /\ (i + j - 1) + (k - i) = k + j - 1
        OBVIOUS
    <2> QED
        BY <1>p, <2>1 DEF Same
<1> QED
    BY <1>p, <1>1, PieceIs

LEMMA Joined ==
    ASSUME NEW b \in Buffer, NEW n \in Nat, NEW p \in 0..n, n <= buflen
    PROVE  /\ Piece(b, 0, p) \o Piece(b, p, n - p) = Piece(b, 0, n)
           /\ Len(Piece(b, 0, p) \o Piece(b, p, n - p)) = n
<1>m. PICK m \in Nat : m = n - p /\ p + m = n
    OBVIOUS
<1>0. 0 \in Nat /\ p \in Nat /\ 0 + p <= buflen + 1
    BY Sizes
<1>l. PICK l \in Seq(Bytes) : l = Piece(b, 0, p) /\ Len(l) = p
                              /\ \A j \in 1..p : l[j] = b[0 + j - 1]
    BY <1>0, PieceOf
<1>k. p \in Nat /\ m \in Nat /\ p + m <= buflen + 1
    BY <1>m, Sizes
<1>r. PICK r \in Seq(Bytes) : r = Piece(b, p, m) /\ Len(r) = m
                              /\ \A j \in 1..m : r[j] = b[p + j - 1]
    BY <1>k, PieceOf
<1>1. /\ l \o r \in Seq(Bytes) /\ Len(l \o r) = Len(l) + Len(r)
      /\ \A i \in 1..Len(l) + Len(r) : (l \o r)[i] = IF i <= Len(l) THEN l[i] ELSE r[i - Len(l)]
    BY ConcatProperties
<1>n. Len(l) + Len(r) = n /\ Len(l) = p
    BY <1>l, <1>r, <1>m
<1>s. PICK s \in Seq(Bytes) : s = l \o r /\ Len(s) = n
                              /\ \A i \in 1..n : s[i] = IF i <= p THEN l[i] ELSE r[i - p]
    BY <1>n, <1>1
<1>2. ASSUME NEW i \in 1..n PROVE s[i] = b[0 + i - 1]
    <2>1. CASE i <= p
        BY <1>s, <1>l, <2>1
    <2>2. CASE i > p
        <3>1. i - p \in 1..m /\ p + (i - p) - 1 = 0 + i - 1
            BY <1>m, <2>2
        <3> QED
            BY <1>s, <1>r, <2>2, <3>1
    <2> QED
        BY <2>1, <2>2
<1>3. 0 \in Nat /\ 0 + n <= buflen + 1
    BY Sizes
<1>4. Piece(b, 0, n) = s
    <2>1. Len(s) = n /\ \A i \in 1..n : s[i] = b[0 + i - 1]
        BY <1>s, <1>2
    <2> QED
        BY <1>3, <2>1, PieceIs
<1> QED
    BY <1>s, <1>4, <1>l, <1>r, <1>m

\* The cursor moves over one byte.
LEMMA PieceFront ==
    ASSUME NEW b \in Buffer, NEW p \in Nat, p >= 1, p <= buflen
    PROVE  Piece(b, 0, p) # <<>> /\ Front(Piece(b, 0, p)) = Piece(b, 0, p - 1)
           /\ Piece(b, 0, p) = Append(Piece(b, 0, p - 1), b[p - 1])
           /\ Last(Piece(b, 0, p)) = b[p - 1]
<1>m. PICK m \in Nat : m = p - 1
    OBVIOUS
<1>0. 0 \in Nat /\ 0 + p <= buflen + 1 /\ 0 + m <= buflen + 1
    BY <1>m, Sizes
<1>l. PICK l \in Seq(Bytes) : l = Piece(b, 0, p) /\ Len(l) = p
                              /\ \A j \in 1..p : l[j] = b[0 + j - 1]
    BY <1>0, PieceOf
<1>r. PICK r \in Seq(Bytes) : r = Piece(b, 0, m) /\ Len(r) = m
                              /\ \A j \in 1..m : r[j] = b[0 + j - 1]
    BY <1>0, PieceOf
<1>1. l # <<>>
    BY <1>l, EmptySeq
<1>2. /\ Front(l) \in Seq(Bytes) /\ Len(Front(l)) = Len(l) - 1
      /\ \A i \in 1..Len(l) - 1 : Front(l)[i] = l[i]
    BY <1>1, FrontTail
<1>3. Len(Front(l)) = m /\ \A j \in 1..m : Front(l)[j] = r[j]
    BY <1>l, <1>r, <1>m, <1>2
<1>4. Front(l) = r
    BY <1>2, <1>3, <1>r, SeqEqual
<1>5. l[p] = b[m]
    BY <1>l, <1>m
<1>6. l = Append(r, b[m])
    <2>1. b[m] \in Bytes
        BY <1>m, Sizes DEF Buffer
    <2>a. PICK a \in Seq(Bytes) : a = Append(r, b[m]) /\ Len(a) = m + 1 /\ a[m + 1] = b[m]
                                  /\ \A i \in 1..m : a[i] = r[i]
        <3>1. /\ Append(r, b[m]) \in Seq(Bytes) /\ Len(Append(r, b[m])) = Len(r) + 1
              /\ \A i \in 1..Len(r) : Append(r, b[m])[i] = r[i]
              /\ Append(r, b[m])[Len(r) + 1] = b[m]
            BY <2>1, AppendProperties
        <3> QED
            BY <3>1, <1>r
    <2>2. Len(l) = Len(a) /\ \A i \in 1..Len(l) : l[i] = a[i]
        BY <2>a, <1>l, <1>r, <1>m, <1>5
    <2> QED
        BY <2>a, <2>2, SeqEqual
<1> QED
    BY <1>1, <1>4, <1>5, <1>6, <1>l, <1>r, <1>m DEF Last

LEMMA PieceTail ==
    ASSUME NEW b \in Buffer, NEW p \in Nat, NEW n \in Nat, p < n, n <= buflen
    PROVE  /\ Piece(b, p, n - p) # <<>> /\ Head(Piece(b, p, n - p)) = b[p]
           /\ Len(Piece(b, p, n - p)) = n - p
           /\ Tail(Piece(b, p, n - p)) = Piece(b, p + 1, n - (p + 1))
<1>m. PICK m \in Nat : m = n - (p + 1) /\ n - p = m + 1
    OBVIOUS
<1>k. PICK k \in Nat : k = m + 1 /\ k = n - p /\ p + k <= buflen + 1
    BY <1>m, Sizes
<1>0. /\ Piece(b, p, k) \in Seq(Bytes) /\ Len(Piece(b, p, k)) = k
      /\ \A j \in 1..k : Piece(b, p, k)[j] = b[p + j - 1]
    BY <1>k, PieceOf
<1>l. PICK l \in Seq(Bytes) : l = Piece(b, p, m + 1) /\ Len(l) = m + 1
                              /\ \A j \in 1..m + 1 : l[j] = b[p + j - 1]
    BY <1>k, <1>0
<1>1. l # <<>>
    BY <1>l, EmptySeq
<1>2. /\ Tail(l) \in Seq(Bytes) /\ Len(Tail(l)) = Len(l) - 1
      /\ \A i \in 1..Len(l) - 1 : Tail(l)[i] = l[i + 1]
    BY <1>1, FrontTail
<1>3. ASSUME NEW j \in 1..m PROVE Tail(l)[j] = b[(p + 1) + j - 1]
    <2>1. j + 1 \in 1..m + 1 /\ p + (j + 1) - 1 = (p + 1) + j - 1
        OBVIOUS
    <2> QED
        BY <1>l, <1>2, <2>1
<1>4. Len(Tail(l)) = m /\ p + 1 \in Nat /\ (p + 1) + m <= buflen + 1
    BY <1>m, <1>l, <1>2, Sizes
<1>5. Piece(b, p + 1, m) = Tail(l)
    BY <1>2, <1>3, <1>4, PieceIs
<1>6. Head(l) = l[1] /\ l[1] = b[p]
    BY <1>l
<1> QED
    BY <1>1, <1>5, <1>6, <1>l, <1>m

\* The text left of q.
LEMMA Prefix ==
    ASSUME NEW b \in Buffer, NEW p \in Nat, NEW q \in 0..p, p <= buflen
    PROVE  SubSeq(Piece(b, 0, p), 1, q) = Piece(b, 0, q)
<1>0. 0 \in Nat /\ p \in Nat /\ 0 + p <= buflen + 1
    BY Sizes
<1>l. PICK l \in Seq(Bytes) : l = Piece(b, 0, p) /\ Len(l) = p
                              /\ \A j \in 1..p : l[j] = b[0 + j - 1]
    BY <1>0, PieceOf
<1>1. \A j \in 1..q : l[j] \in Bytes /\ l[j] = b[0 + j - 1] /\ 1 + j - 1 = j
    BY <1>l
<1>2. /\ SubSeq(l, 1, q) \in Seq(Bytes)
      /\ Len(SubSeq(l, 1, q)) = IF 1 <= q THEN q - 1 + 1 ELSE 0
      /\ \A i \in 1..q - 1 + 1 : SubSeq(l, 1, q)[i] = l[1 + i - 1]
    BY <1>1, SubSeqProperties
<1>3. Len(SubSeq(l, 1, q)) = q /\ \A j \in 1..q : SubSeq(l, 1, q)[j] = b[0 + j - 1]
    BY <1>1, <1>2
<1>4. 0 \in Nat /\ 0 + q <= buflen + 1 /\ q \in Nat
    BY Sizes
<1>5. Piece(b, 0, q) = SubSeq(l, 1, q)
    BY <1>2, <1>3, <1>4, PieceIs
<1> QED
    BY <1>5, <1>l

-----------------------------------------------------------------------------
(* The editor implements EditSpec.                                         *)

LeftText == Piece(buf, 0, pos)
RightText == Piece(buf, pos, len - pos)

\* Lines and cursors always lie in the buffer.
LEMMA Placed ==
    ASSUME EditorInv
    PROVE  buf \in Buffer /\ len \in Nat /\ len <= buflen /\ pos \in Nat /\ pos <= len
BY Sizes DEF EditorInv, EditTypes, EditTypeOK, Buffer

LEMMA InsertShown ==
    ASSUME EditorInv, EditorInv', mode = "edit", NEW c \in Keys, InsertEnd(c) \/ InsertMiddle(c),
           UNCHANGED loopVars
    PROVE  Text!Insert(c)
<1>b. buf \in Buffer /\ len \in Nat /\ len <= buflen /\ pos \in Nat /\ pos <= len
    BY Placed
<1>1. len < buflen /\ Inserted(buf', buf, len, pos, c) /\ len' = len + 1 /\ pos' = pos + 1
    BY InsertKeeps
<1>r. PICK r \in Buffer : r = buf'
    BY <1>1 DEF Inserted
<1>2. /\ r[pos] = c /\ Same(r, buf, 0, pos, 0) /\ Same(r, buf, pos + 1, len + 1, -1)
    BY <1>1, <1>r DEF Inserted
<1>p. PICK p \in Nat : p = pos + 1 /\ p - 1 = pos /\ p >= 1 /\ p <= buflen
    BY <1>b, <1>1, Sizes
<1>m. PICK m \in Nat : m = len - pos /\ p + m = len + 1
    BY <1>b, <1>p
<1>3. LeftText' = Append(LeftText, c)
    <2>1. Piece(r, 0, p) = Append(Piece(r, 0, p - 1), r[p - 1])
        BY <1>p, PieceFront
    <2>2. Piece(r, 0, pos) = Piece(buf, 0, pos)
        <3>1. 0 \in Nat /\ 0 + pos <= buflen + 1 /\ 0 + pos = pos /\ 0 - 0 = 0
            BY <1>b, Sizes
        <3> QED
            BY <1>2, <1>b, <3>1, PiecesEqual
    <2> QED
        BY <2>1, <2>2, <1>1, <1>2, <1>r, <1>p DEF LeftText
<1>4. RightText' = RightText
    <2>1. p + m <= buflen + 1 /\ pos + m <= buflen + 1 /\ pos - p = -1 /\ len' - pos' = m
        BY <1>b, <1>1, <1>p, <1>m, Sizes
    <2>2. Same(r, buf, p, p + m, pos - p)
        BY <1>2, <1>p, <1>m, <2>1
    <2>3. Piece(r, p, m) = Piece(buf, pos, m)
        BY <1>b, <2>1, <2>2, PiecesEqual
    <2> QED
        BY <2>1, <2>3, <1>1, <1>r, <1>p, <1>m DEF RightText
<1>5. Len(LeftText \o RightText) < buflen
    <2>1. pos \in 0..len
        BY <1>b
    <2> QED
        BY <1>b, <1>1, <2>1, Joined DEF LeftText, RightText
<1> QED
    BY <1>3, <1>4, <1>5 DEF Text!Insert, LeftText, RightText

\* What is left and right of the bytes taken out.
LEMMA TakeShown ==
    ASSUME EditorInv, EditorInv', NEW q, NEW p, Took(q, p)
    PROVE  LeftText' = Piece(buf, 0, q) /\ RightText' = Piece(buf, p, len - p)
<1>b. buf \in Buffer /\ buf' \in Buffer /\ len \in Nat /\ len <= buflen
    BY Placed DEF Took, Without
<1>1. /\ q \in 0..p /\ p \in 0..len /\ len' = len - (p - q) /\ pos' = q
      /\ Same(buf', buf, 0, q, 0) /\ Same(buf', buf, q, len - (p - q), p - q)
    BY DEF Took, Without
<1>q. q \in Nat /\ p \in Nat /\ q <= p /\ p <= len
    BY <1>b, <1>1
<1>m. PICK m \in Nat : m = len - p /\ q + m = len - (p - q) /\ q + m <= buflen + 1
                       /\ p + m <= buflen + 1 /\ len' - pos' = m
    BY <1>b, <1>1, <1>q, Sizes
<1>2. 0 \in Nat /\ 0 + q <= buflen + 1 /\ 0 + q = q /\ 0 - 0 = 0
    BY <1>b, <1>q, Sizes
<1>3. Piece(buf', 0, q) = Piece(buf, 0, q)
    BY <1>b, <1>1, <1>q, <1>2, PiecesEqual
<1>4. Piece(buf', q, m) = Piece(buf, p, m)
    BY <1>b, <1>1, <1>q, <1>m, PiecesEqual
<1> QED
    BY <1>1, <1>3, <1>4, <1>m DEF LeftText, RightText

LEMMA BackspaceShown ==
    ASSUME EditorInv, EditorInv', mode = "edit", Backspace, UNCHANGED loopVars
    PROVE  Text!Backspace
<1>b. buf \in Buffer /\ len \in Nat /\ len <= buflen /\ pos \in Nat /\ pos <= len
    BY Placed
<1>1. Took(pos - 1, pos) /\ pos > 0
    BY BackspaceKeeps
<1>2. LeftText' = Piece(buf, 0, pos - 1) /\ RightText' = RightText
    BY <1>1, TakeShown DEF RightText
<1>3. LeftText # <<>> /\ Front(LeftText) = Piece(buf, 0, pos - 1)
    <2>1. pos >= 1 /\ pos <= buflen
        BY <1>b, <1>1, Sizes
    <2> QED
        BY <1>b, <2>1, PieceFront DEF LeftText
<1> QED
    BY <1>2, <1>3 DEF Text!Backspace, LeftText, RightText, Text!Front, Front

LEMMA DeleteShown ==
    ASSUME EditorInv, EditorInv', mode = "edit", Delete, UNCHANGED loopVars
    PROVE  Text!Delete
<1>b. buf \in Buffer /\ len \in Nat /\ len <= buflen /\ pos \in Nat /\ pos <= len
    BY Placed
<1>1. Took(pos, pos + 1) /\ pos < len
    BY DeleteKeeps
<1>2. LeftText' = LeftText /\ RightText' = Piece(buf, pos + 1, len - (pos + 1))
    BY <1>1, TakeShown DEF LeftText
<1>3. RightText # <<>> /\ Tail(RightText) = Piece(buf, pos + 1, len - (pos + 1))
    BY <1>b, <1>1, PieceTail DEF RightText
<1> QED
    BY <1>2, <1>3 DEF Text!Delete, LeftText, RightText

LEMMA KillShown ==
    ASSUME EditorInv, EditorInv', mode = "edit", KillLine \/ KillEnd, UNCHANGED loopVars
    PROVE  Text!KillLine \/ Text!KillEnd
<1>b. /\ buf \in Buffer /\ len \in Nat /\ len <= buflen /\ pos \in Nat /\ pos <= len
      /\ buf' \in Buffer
    BY Placed DEF EditorInv, EditTypes, EditTypeOK, Buffer
<1>1. ASSUME NEW p \in 0..len, Edit(Set(buf, p, NUL), p, p)
      PROVE  LeftText' = Piece(buf, 0, p) /\ RightText' = <<>>
    <2>1. Same(buf', buf, 0, p, 0) /\ len' = p /\ pos' = p /\ p \in Nat
        BY <1>1, <1>b, KillKeeps
    <2>2. 0 \in Nat /\ 0 + p <= buflen + 1 /\ 0 + p = p /\ 0 - 0 = 0 /\ p - p = 0
        BY <1>b, <1>1, <2>1, Sizes
    <2>3. Piece(buf', 0, p) = Piece(buf, 0, p)
        BY <1>b, <2>1, <2>2, PiecesEqual
    <2>4. Piece(buf', p, 0) = <<>>
        BY NoPiece
    <2> QED
        BY <2>1, <2>2, <2>3, <2>4 DEF LeftText, RightText
<1>2. CASE KillLine
    <2>1. 0 \in 0..len /\ Piece(buf, 0, 0) = <<>>
        BY <1>b, NoPiece
    <2>2. LeftText' = <<>> /\ RightText' = <<>>
        BY <1>1, <1>2, <2>1 DEF KillLine
    <2> QED
        BY <2>2 DEF Text!KillLine, LeftText, RightText
<1>3. CASE KillEnd
    <2>1. pos \in 0..len
        BY <1>b
    <2>2. LeftText' = LeftText /\ RightText' = <<>>
        BY <1>1, <1>3, <2>1 DEF KillEnd, LeftText
    <2> QED
        BY <2>2 DEF Text!KillEnd, LeftText, RightText
<1> QED
    BY <1>2, <1>3

LEMMA MoveShown ==
    ASSUME EditorInv, EditorInv', mode = "edit", Moving, UNCHANGED loopVars
    PROVE  Text!Move
<1>b. buf \in Buffer /\ len \in Nat /\ len <= buflen /\ pos \in 0..len
    BY Placed
<1>1. buf' = buf /\ len' = len /\ pos' \in 0..len
    BY MoveKeeps
<1>2. Piece(buf, 0, pos) \o Piece(buf, pos, len - pos) = Piece(buf, 0, len)
    BY <1>b, Joined
<1>3. Piece(buf, 0, pos') \o Piece(buf, pos', len - pos') = Piece(buf, 0, len)
    BY <1>b, <1>1, Joined
<1> QED
    BY <1>1, <1>2, <1>3 DEF Text!Move

LEMMA NextEntryShown ==
    ASSUME EditorInv, EditorInv', mode = "edit", NEW d, HistoryNext(d), UNCHANGED loopVars
    PROVE  Text!Replace
<1>1. /\ len' \in 0..buflen /\ pos' = len' /\ \A i \in 0..len' - 1 : buf'[i] \in Keys
    BY HistoryNextKeeps
<1>n. PICK n \in Nat : n = len' /\ n \in 0..buflen
    BY <1>1, Sizes
<1>2. ASSUME NEW j \in 1..n PROVE buf'[0 + j - 1] \in Keys
    <2>1. 0 + j - 1 \in 0..n - 1
        OBVIOUS
    <2> QED
        BY <1>1, <1>n, <2>1
<1>3. Piece(buf', 0, n) \in [1..n -> Keys]
    BY <1>2 DEF Piece
<1>4. LeftText' \in BoundedSeq(Keys, buflen)
    BY <1>1, <1>n, <1>3 DEF BoundedSeq, SeqOf, LeftText
<1>5. RightText' = <<>>
    <2>1. len' \in Nat /\ pos' = len'
        BY <1>1, Sizes
    <2>2. \A k \in Nat : k - k = 0
        OBVIOUS
    <2>3. len' - pos' = 0
        BY <2>1, <2>2
    <2> QED
        BY <2>3, NoPiece DEF RightText
<1> QED
    BY <1>4, <1>5 DEF Text!Replace, Text!BoundedSeq, Text!SeqOf, BoundedSeq, SeqOf, LeftText,
                      RightText

LEMMA TransposeShown ==
    ASSUME EditorInv, EditorInv', mode = "edit", Transpose, UNCHANGED loopVars
    PROVE  Text!Transpose
<1>b. buf \in Buffer /\ len \in Nat /\ len <= buflen /\ pos \in Nat /\ pos <= len
    BY Placed
<1>1. /\ Swapped(buf', buf, pos) /\ len' = len /\ pos > 0 /\ pos < len
      /\ pos' = IF pos # len - 1 THEN pos + 1 ELSE pos
    BY TransposeKeeps
<1>r. PICK r \in Buffer : r = buf' /\ r[pos - 1] = buf[pos] /\ r[pos] = buf[pos - 1]
                          /\ \A j \in 0..buflen : j \notin {pos - 1, pos} => r[j] = buf[j]
    BY <1>1 DEF Swapped
<1>p. PICK p \in Nat : p = pos - 1 /\ p + 1 = pos
    BY <1>b, <1>1
<1>n. pos >= 1 /\ pos <= buflen
    BY <1>b, <1>1, Sizes
<1>l. PICK l : l = Append(Front(LeftText), Head(RightText))
    OBVIOUS
<1>t. PICK t : t = <<Last(LeftText)>> \o Tail(RightText)
    OBVIOUS
<1>2. LeftText # <<>> /\ RightText # <<>> /\ Len(RightText) = len - pos
    BY <1>b, <1>1, <1>n, PieceFront, PieceTail DEF LeftText, RightText
\* The bytes up to the cursor.
<1>3. Piece(r, 0, pos) = l
    <2>1. Piece(r, 0, pos) = Append(Piece(r, 0, pos - 1), r[pos - 1])
        BY <1>b, <1>n, PieceFront
    <2>2. Front(LeftText) = Piece(buf, 0, pos - 1) /\ Head(RightText) = buf[pos]
        BY <1>b, <1>1, <1>n, PieceFront, PieceTail DEF LeftText, RightText
    <2>3. Piece(r, 0, p) = Piece(buf, 0, p)
        <3>1. 0 \in Nat /\ 0 + p <= buflen + 1 /\ 0 - 0 = 0 /\ 0 + p = p
            BY <1>n, <1>p, <1>b, Sizes
        <3>2. \A j \in 0..p - 1 : j \in 0..buflen /\ j \notin {pos - 1, pos} /\ j + 0 = j
            BY <1>n, <1>p, <1>b, Sizes
        <3>3. Same(r, buf, 0, p, 0)
            BY <1>r, <3>2 DEF Same
        <3> QED
            BY <1>b, <3>1, <3>3, PiecesEqual
    <2> QED
        BY <1>l, <1>p, <1>r, <2>1, <2>2, <2>3
\* The bytes from the cursor on.
<1>4. Piece(r, pos, len - pos) = t
    <2>m. PICK m \in Nat : m = len - (pos + 1) /\ len - pos = m + 1
        BY <1>b, <1>1
    <2>1. Last(LeftText) = buf[pos - 1]
        BY <1>b, <1>n, PieceFront DEF LeftText
    <2>2. Tail(RightText) = Piece(buf, pos + 1, m)
        BY <1>b, <1>1, <2>m, PieceTail DEF RightText
    <2>3. Piece(r, pos + 1, m) = Piece(buf, pos + 1, m)
        <3>k. PICK k \in Nat : k = pos + 1 /\ k + m = len /\ k + m <= buflen + 1
            BY <1>b, <2>m, Sizes
        <3>2. \A j \in k..len - 1 : j \in 0..buflen /\ j \notin {pos - 1, pos} /\ j + 0 = j
            BY <1>b, <3>k, Sizes
        <3>3. \A j \in k..len - 1 : r[j] = buf[j]
            BY <1>r, <3>2
        <3>4. \A j \in 1..m : k + j - 1 \in k..len - 1
            BY <3>k
        <3>5. Piece(r, k, m) = Piece(buf, k, m)
            BY <3>3, <3>4 DEF Piece
        <3> QED
            BY <3>k, <3>5
    <2>4. /\ Head(Piece(r, pos, len - pos)) = r[pos]
          /\ Tail(Piece(r, pos, len - pos)) = Piece(r, pos + 1, m)
          /\ Piece(r, pos, len - pos) # <<>>
        BY <1>b, <1>1, <2>m, PieceTail
    <2>5. Piece(r, pos, len - pos) \in Seq(Bytes)
        <3>1. len - pos \in Nat /\ pos + (len - pos) <= buflen + 1
            BY <1>b, Sizes
        <3> QED
            BY <1>b, <3>1, PieceOf
    <2>6. \A s \in Seq(Bytes) : s # <<>> => s = <<Head(s)>> \o Tail(s)
        OBVIOUS
    <2> QED
        BY <1>r, <1>t, <2>1, <2>2, <2>3, <2>4, <2>5, <2>6
<1>5. CASE pos = len - 1
    <2>1. pos' = pos /\ len - pos = 1
        BY <1>1, <1>5, <1>b
    <2>2. LeftText' = l /\ RightText' = t /\ Len(RightText) = 1
        BY <1>1, <1>2, <1>3, <1>4, <1>r, <2>1 DEF LeftText, RightText
    <2> QED
        BY <1>2, <1>l, <1>t, <2>2
        DEF Text!Transpose, LeftText, RightText, Text!Front, Front, Text!Last, Last
<1>6. CASE pos # len - 1
    <2>1. pos' = pos + 1 /\ len - pos > 1 /\ pos + 1 \in Nat /\ pos + 1 >= 1 /\ pos + 1 <= buflen
          /\ (pos + 1) - 1 = pos
        BY <1>1, <1>6, <1>b, Sizes
    <2>2. Piece(r, 0, pos + 1) = Append(l, r[pos])
        BY <1>3, <2>1, PieceFront
    <2>3. /\ Head(Piece(r, pos, len - pos)) = r[pos]
          /\ Tail(Piece(r, pos, len - pos)) = Piece(r, pos + 1, len - (pos + 1))
        BY <1>b, <1>1, PieceTail
    <2>4. LeftText' = Append(l, Head(t)) /\ RightText' = Tail(t) /\ Len(RightText) > 1
        BY <1>1, <1>2, <1>4, <1>r, <2>1, <2>2, <2>3 DEF LeftText, RightText
    <2> QED
        BY <1>2, <1>l, <1>t, <2>4
        DEF Text!Transpose, LeftText, RightText, Text!Front, Front, Text!Last, Last
<1> QED
    BY <1>5, <1>6

LEMMA PrevWordShown ==
    ASSUME EditorInv, EditorInv', mode = "edit", DeletePrevWord, UNCHANGED loopVars
    PROVE  Text!PrevWord
<1>b. buf \in Buffer /\ len \in Nat /\ len <= buflen /\ pos \in Nat /\ pos <= len
      /\ pos <= buflen
    BY Placed, Sizes
<1>q. PICK q : q = WordBefore
    OBVIOUS
<1>1. Took(q, pos)
    BY <1>q, PrevWordKeeps
<1>2. LeftText' = Piece(buf, 0, q) /\ RightText' = RightText
    BY <1>1, TakeShown DEF RightText
<1>3. q \in 0..pos
    BY <1>1 DEF Took
<1>4. LeftText' = SubSeq(LeftText, 1, q)
    BY <1>b, <1>2, <1>3, Prefix DEF LeftText
<1>5. Len(LeftText) = pos /\ \A i \in 1..pos : LeftText[i] = buf[i - 1] /\ buf[i - 1] \in Bytes
    <2>1. /\ 0 \in Nat /\ 0 + pos <= buflen + 1
          /\ \A i \in 1..pos : 0 + i - 1 = i - 1 /\ i - 1 \in 0..buflen
        BY <1>b, Sizes
    <2>2. \A j \in 0..buflen : buf[j] \in Bytes
        BY <1>b, Sizes DEF Buffer
    <2> QED
        BY <1>b, <2>1, <2>2, PieceOf DEF LeftText
\* From r on there are only spaces, from q to r there are none.
<1>r. PICK r : r = BackOver(pos, {Space})
    OBVIOUS
<1>6. /\ r \in 0..pos /\ \A i \in 1..pos : i > r => buf[i - 1] = Space
      /\ r # 0 => buf[r - 1] # Space
    BY <1>b, <1>r, BackStops
<1>7. /\ q \in 0..r /\ \A i \in 1..r : i > q => buf[i - 1] # Space
      /\ q # 0 => buf[q - 1] \notin Bytes \ {Space}
    <2>1. r \in Nat /\ q = BackOver(r, Bytes \ {Space})
        BY <1>6, <1>q, <1>r DEF WordBefore
    <2> QED
        BY <2>1, BackStops
<1>8. q # 0 => buf[q - 1] = Space
    <2>1. q # 0 => q \in 1..pos
        BY <1>3
    <2> QED
        BY <1>5, <1>7, <2>1
<1>L. PICK letters : letters = {i \in 1..Len(LeftText) : LeftText[i] # Space}
    OBVIOUS
<1>S. PICK spaces : spaces = {i \in 1..Len(LeftText) : LeftText[i] = Space
                                                      /\ \E j \in letters : i < j}
    OBVIOUS
<1>9. \A i : i \in letters <=> i \in 1..pos /\ buf[i - 1] # Space
    BY <1>5, <1>L
<1>10. \A i : i \in spaces <=> i \in 1..pos /\ buf[i - 1] = Space /\ \E j \in letters : i < j
    BY <1>5, <1>S
<1>11. q # 0 => q \in spaces /\ letters # {}
    <2> SUFFICES ASSUME q # 0 PROVE q \in spaces /\ letters # {}
        OBVIOUS
    <2>1. r # 0 /\ r \in 1..pos /\ q # r /\ q < r /\ q \in 1..pos
        BY <1>3, <1>6, <1>7, <1>8
    <2>2. r \in letters
        BY <1>6, <1>9, <2>1
    <2> QED
        BY <1>8, <1>10, <2>1, <2>2
<1>12. ASSUME NEW i \in spaces PROVE i <= q
    <2>1. i \in 1..pos /\ buf[i - 1] = Space
        BY <1>10
    <2>2. PICK j \in letters : i < j
        BY <1>10
    <2>3. j \in 1..pos /\ ~ (j > r)
        BY <1>6, <1>9
    <2>4. i \in 1..r
        BY <1>6, <2>1, <2>2, <2>3
    <2> QED
        BY <1>3, <1>7, <2>1, <2>4
<1>13. q = IF letters = {} \/ spaces = {} THEN 0 ELSE Max(spaces)
    <2>1. CASE letters = {} \/ spaces = {}
        BY <1>11, <2>1
    <2>2. CASE ~ (letters = {} \/ spaces = {})
        <3>1. spaces \in SUBSET (0..pos) /\ spaces # {}
            BY <1>10, <2>2
        <3>2. Max(spaces) \in spaces /\ \A k \in spaces : k <= Max(spaces)
            BY <1>b, <3>1, Greatest
        <3>m. PICK m \in Nat : m = Max(spaces) /\ m \in spaces /\ m >= 1
            BY <1>10, <3>2
        <3>3. m <= q
            BY <1>12, <3>m
        <3>4. q # 0
            BY <1>3, <3>3, <3>m
        <3>5. q <= m
            BY <1>11, <3>2, <3>4, <3>m
        <3>6. q = m
            BY <1>3, <3>3, <3>5, <3>m
        <3> QED
            BY <2>2, <3>6, <3>m
    <2> QED
        BY <2>1, <2>2
<1> QED
    BY <1>2, <1>4, <1>13, <1>L, <1>S
    DEF Text!PrevWord, LeftText, RightText, Text!Max, Max

LEMMA StepShown ==
    ASSUME EditorInv, EditorInv', [Next]_vars
    PROVE  Text!Next \/ UNCHANGED <<LeftText, RightText>>
<1>s. UNCHANGED bufVars => UNCHANGED <<LeftText, RightText>>
    BY DEF bufVars, LeftText, RightText
<1>1. CASE Press
    <2>0. mode = "edit" /\ EditKey /\ UNCHANGED loopVars
        BY <1>1 DEF Press, EditKey
    <2>1. CASE \E c \in Keys : InsertEnd(c) \/ InsertMiddle(c)
        BY <2>0, <2>1, InsertShown DEF Text!Next
    <2>2. CASE InsertFull \/ Nothing
        BY <1>s, <2>2 DEF InsertFull, Nothing, Ignored
    <2>3. CASE Backspace
        BY <2>0, <2>3, BackspaceShown DEF Text!Next
    <2>4. CASE Delete
        BY <2>0, <2>4, DeleteShown DEF Text!Next
    <2>5. CASE Transpose
        BY <2>0, <2>5, TransposeShown DEF Text!Next
    <2>6. CASE KillLine \/ KillEnd
        BY <2>0, <2>6, KillShown DEF Text!Next
    <2>7. CASE DeletePrevWord
        BY <2>0, <2>7, PrevWordShown DEF Text!Next
    <2>8. CASE Moving
        BY <2>0, <2>8, MoveShown DEF Text!Next
    <2>9. ASSUME NEW d \in {1, -1}, HistoryNext(d)
          PROVE  Text!Next
        BY <2>0, <2>9, NextEntryShown DEF Text!Next
    <2>10. ASSUME NEW d \in {1, -1}, HistoryEnd(d)
           PROVE  UNCHANGED <<LeftText, RightText>>
        BY <1>s, <2>10 DEF HistoryEnd
    <2>11. CASE Enter \/ EndOfFile \/ Interrupt
        BY <1>s, <2>11 DEF Enter, EndOfFile, Interrupt, Finish
    <2> QED
        BY <2>0, <2>1, <2>2, <2>3, <2>4, <2>5, <2>6, <2>7, <2>8, <2>9, <2>10, <2>11
        DEF EditKey, Moving
<1>2. CASE Call
    <2>1. CASE BeginEdit
        <3>1. len' = 0 /\ pos' = 0 /\ 0 - 0 = 0
            BY <2>1 DEF BeginEdit
        <3>2. LeftText' = <<>> /\ RightText' = <<>>
            BY <3>1, NoPiece DEF LeftText, RightText
        <3> QED
            BY <3>2 DEF Text!Next, Text!KillLine, LeftText, RightText
    <2>2. CASE NoRawMode
        BY <1>s, <2>2 DEF NoRawMode
    <2> QED
        BY <1>2, <2>1, <2>2 DEF Call
<1>3. CASE Load \/ Accept
    BY <1>s, <1>3 DEF Load, Accept
<1>4. CASE UNCHANGED editVars
    BY <1>s, <1>4 DEF editVars
<1>5. CASE Lost
    BY <1>s, <1>5 DEF Lost, Hangup, Finish
<1> QED
    BY <1>1, <1>2, <1>3, <1>4, <1>5
    DEF Next, Loop, LoadDone, CountWord, CountFrom, CountDone, CutWord, CutWith, CutDone,
        Execute, Save, vars

\* The bytes linenoise moves about in its buffer are an implementation of
\* EditSpec: each key does to the text left and right of the cursor what is
\* promised there, and nothing else touches the line.
THEOREM KeysImplementEdits == Spec => KeysEdit
<1>1. Init => Text!Init
    <2> SUFFICES ASSUME Init PROVE Text!Init
        OBVIOUS
    <2>1. len = 0 /\ pos = 0 /\ 0 - 0 = 0
        BY DEF Init, EditInit
    <2> QED
        BY <2>1, NoPiece DEF Text!Init
<1>2. EditorInv /\ EditorInv' /\ [Next]_vars => [Text!Next]_(Text!vars)
    BY StepShown DEF Text!vars, LeftText, RightText
<1> QED
    BY <1>1, <1>2, EditorInvHolds, PTL DEF Spec, KeysEdit, Text!Spec

-----------------------------------------------------------------------------
(* split_str.                                                              *)

LEMMA FirstFound ==
    ASSUME NEW V, NEW s \in Seq(V), NEW i \in 1..Len(s) + 1, NEW S
    PROVE  /\ FirstOf(s, i, S) \in i..Len(s) + 1
           /\ FirstOf(s, i, S) <= Len(s) => s[FirstOf(s, i, S)] \in S
           /\ \A j \in i..FirstOf(s, i, S) - 1 : s[j] \notin S
<1>n. PICK n \in Nat : n = Len(s)
    BY LenProperties
<1>t. PICK T : T = {j \in i..n : s[j] \in S} \cup {n + 1}
    OBVIOUS
<1>1. T \in SUBSET Nat /\ n + 1 \in T
    BY <1>n, <1>t
<1>2. Min(T) \in T /\ \A k \in T : Min(T) <= k
    BY <1>1, Least
<1>e. PICK e : e = Min(T)
    OBVIOUS
<1>3. FirstOf(s, i, S) = e
    BY <1>n, <1>t, <1>e DEF FirstOf
<1>4. e \in i..n + 1 /\ (e <= n => s[e] \in S)
    BY <1>n, <1>t, <1>2, <1>e
<1>5. \A j \in i..e - 1 : s[j] \notin S
    <2> SUFFICES ASSUME NEW j \in i..e - 1, s[j] \in S PROVE FALSE
        OBVIOUS
    <2>1. j \in T
        BY <1>n, <1>t, <1>4
    <2> QED
        BY <1>2, <1>4, <1>e, <1>n, <2>1
<1> QED
    BY <1>n, <1>3, <1>4, <1>5

LEMMA FirstIs ==
    ASSUME NEW V, NEW s \in Seq(V), NEW i \in 1..Len(s) + 1, NEW S, NEW e \in i..Len(s) + 1,
           e <= Len(s) => s[e] \in S, \A j \in i..e - 1 : s[j] \notin S
    PROVE  FirstOf(s, i, S) = e
<1>f. PICK f : f = FirstOf(s, i, S)
    OBVIOUS
<1>1. f \in i..Len(s) + 1 /\ (f <= Len(s) => s[f] \in S) /\ \A j \in i..f - 1 : s[j] \notin S
    BY <1>f, FirstFound
<1>2. Len(s) \in Nat
    BY LenProperties
<1>3. ~ (f < e)
    <2> SUFFICES ASSUME f < e PROVE FALSE
        OBVIOUS
    <2>1. f \in i..e - 1 /\ f <= Len(s)
        BY <1>1, <1>2
    <2> QED
        BY <1>1, <2>1
<1>4. ~ (e < f)
    <2> SUFFICES ASSUME e < f PROVE FALSE
        OBVIOUS
    <2>1. e \in i..f - 1 /\ e <= Len(s)
        BY <1>1, <1>2
    <2> QED
        BY <1>1, <2>1
<1> QED
    BY <1>f, <1>1, <1>2, <1>3, <1>4

LEMMA FirstSame ==
    ASSUME NEW s, NEW t, Len(s) = Len(t), NEW i, NEW S, \A j \in i..Len(t) : s[j] = t[j]
    PROVE  FirstOf(s, i, S) = FirstOf(t, i, S)
<1>1. {j \in i..Len(s) : s[j] \in S} = {j \in i..Len(t) : t[j] \in S}
    OBVIOUS
<1> QED
    BY <1>1 DEF FirstOf

\* The words that begin before p.
Below(s, p) == {i \in Begins(s) : i < p}
\* Between two words, or before the first.
Between(s, p) == p = 1 \/ s[p - 1] = Space \/ (p <= Len(s) /\ s[p] = Space)
Ends == {Space, Newline, NUL}

\* From one gap to the next there is one word, or the rest of the line.
NextWord(s, p, w, e) ==
    /\ w \in p..Len(s) + 1 /\ e \in w..Len(s) + 1
    /\ w <= Len(s) => /\ w < e /\ w \in Begins(s) /\ Below(s, e) = Below(s, p) \cup {w}
                      /\ FirstOf(s, w, {Space}) = e
    /\ w > Len(s) => e = w /\ Below(s, e) = Below(s, p)
    /\ e <= Len(s) => s[e] = Space
    /\ \A j \in p..e - 1 : s[j] # Newline
LEMMA OneWord ==
    ASSUME NEW s \in Seq(Chars), NEW p \in 1..Len(s), Between(s, p),
           NEW w, w = FirstOf(s, p, Visible), NEW e, e = FirstOf(s, w, Ends),
           e <= Len(s) => s[e] # Newline
    PROVE  NextWord(s, p, w, e)
<1>n. PICK n \in Nat : n = Len(s)
    BY LenProperties
<1>c. /\ \A j \in 1..n : s[j] \in Chars
      /\ Space \in Chars /\ Newline \in Chars /\ NUL \notin Chars
    BY <1>n, ElementOfSeq, LineEditAssumption
<1>1. /\ w \in p..n + 1 /\ (w <= n => s[w] \in Visible)
      /\ \A j \in p..w - 1 : s[j] \notin Visible
    <2>1. p \in 1..Len(s) + 1
        BY <1>n
    <2> QED
        BY <1>n, <2>1, FirstFound
<1>2. /\ e \in w..n + 1 /\ (e <= n => s[e] \in Ends)
      /\ \A j \in w..e - 1 : s[j] \notin Ends
    <2>1. w \in 1..Len(s) + 1
        BY <1>n, <1>1
    <2> QED
        BY <1>n, <2>1, FirstFound
<1>3. \A j \in p..w - 1 : s[j] = Space
    <2> TAKE j \in p..w - 1
    <2>1. j \in 1..n /\ s[j] \notin Visible
        BY <1>n, <1>1
    <2> QED
        BY <1>c, <2>1 DEF Visible
<1>4. \A j \in w..e - 1 : s[j] # Space /\ s[j] # Newline
    BY <1>2 DEF Ends
<1>5. e <= n => s[e] = Space
    <2> SUFFICES ASSUME e <= n PROVE s[e] = Space
        OBVIOUS
    <2>1. e \in 1..n
        BY <1>n, <1>1, <1>2
    <2> QED
        BY <1>n, <1>c, <1>2, <2>1 DEF Ends
<1>6. ASSUME w <= n
      PROVE  w < e /\ w \in Begins(s) /\ Below(s, e) = Below(s, p) \cup {w}
             /\ FirstOf(s, w, {Space}) = e
    <2>1. s[w] # Space
        BY <1>1, <1>6 DEF Visible
    <2>2. w < e
        <3>1. w # e
            BY <1>5, <1>6, <2>1
        <3> QED
            BY <1>n, <1>1, <1>2, <3>1
    <2>3. w = 1 \/ s[w - 1] = Space
        <3>1. CASE w = p
            BY <3>1, <2>1 DEF Between
        <3>2. CASE w # p
            <4>1. w - 1 \in p..w - 1
                BY <3>2, <1>1, <1>n
            <4> QED
                BY <4>1, <1>3
        <3> QED
            BY <3>1, <3>2
    <2>4. w \in 1..Len(s)
        BY <1>n, <1>1, <1>6
    <2>5. w \in Begins(s)
        BY <2>1, <2>3, <2>4 DEF Begins
    <2>6. \A i \in Below(s, e) : i \in Below(s, p) \cup {w}
        <3> SUFFICES ASSUME NEW i \in Below(s, e), ~ (i < p), i # w PROVE FALSE
            BY DEF Below
        <3>1. i \in 1..n /\ i < e /\ s[i] # Space /\ (i = 1 \/ s[i - 1] = Space)
            BY <1>n DEF Below, Begins
        <3>2. i \in p..w - 1 \/ i \in w + 1..e - 1
            BY <1>n, <1>1, <1>2, <3>1
        <3>3. CASE i \in p..w - 1
            BY <3>1, <3>3, <1>3
        <3>4. CASE i \in w + 1..e - 1
            <4>1. i - 1 \in w..e - 1 /\ i # 1
                BY <1>n, <1>1, <1>2, <3>4
            <4> QED
                BY <3>1, <4>1, <1>4
        <3> QED
            BY <3>2, <3>3, <3>4
    <2>7. \A i \in Below(s, p) \cup {w} : i \in Below(s, e)
        <3> SUFFICES ASSUME NEW i \in Below(s, p) PROVE i < e
            BY <2>2, <2>5 DEF Below
        <3>1. i \in 1..n /\ i < p
            BY <1>n DEF Below, Begins
        <3> QED
            BY <1>n, <1>1, <1>2, <3>1
    <2>8. FirstOf(s, w, {Space}) = e
        <3>1. w \in 1..Len(s) + 1 /\ e \in w..Len(s) + 1
            BY <1>n, <1>2, <2>4
        <3>2. e <= Len(s) => s[e] \in {Space}
            BY <1>n, <1>5
        <3>3. \A j \in w..e - 1 : s[j] \notin {Space}
            BY <1>4
        <3> QED
            BY <3>1, <3>2, <3>3, FirstIs
    <2> QED
        BY <2>2, <2>5, <2>6, <2>7, <2>8
<1>7. ASSUME w > n
      PROVE  e = w /\ Below(s, e) = Below(s, p)
    <2>1. e = w
        BY <1>n, <1>1, <1>2, <1>7
    <2>2. \A i \in Begins(s) : (i < e) <=> (i < p)
        <3> TAKE i \in Begins(s)
        <3>1. i \in 1..n /\ s[i] # Space
            BY <1>n DEF Begins
        <3>2. i \notin p..w - 1
            BY <3>1, <1>3
        <3> QED
            BY <1>n, <1>1, <1>7, <2>1, <3>1, <3>2
    <2> QED
        BY <2>1, <2>2 DEF Below
<1>8. \A j \in p..e - 1 : s[j] # Newline
    <2> TAKE j \in p..e - 1
    <2>1. j \in p..w - 1 \/ j \in w..e - 1
        BY <1>n, <1>1, <1>2
    <2>2. CASE j \in p..w - 1
        BY <1>3, <2>2, LineEditAssumption
    <2> QED
        BY <2>1, <2>2, <1>4
<1> QED
    BY <1>n, <1>1, <1>2, <1>5, <1>6, <1>7, <1>8 DEF NextWord

Listed(q, W) ==
    /\ Len(q) = Cardinality(W) /\ {q[i] : i \in 1..Len(q)} = W
    /\ \A i, j \in 1..Len(q) : i < j => q[i] < q[j]
WordCut(s, t, i) ==
    /\ \A j \in i..FirstOf(s, i, {Space}) - 1 : t[j] = s[j]
    /\ FirstOf(s, i, {Space}) <= Len(s) => t[FirstOf(s, i, {Space})] = NUL
CountOk(s, t, p, c) ==
    /\ t = s
    /\ \/ p <= Len(s) /\ s[p] = Newline
       \/ /\ c = Cardinality(Below(s, p)) /\ \A j \in 1..p - 1 : s[j] # Newline
          /\ Between(s, p) \/ p = Len(s) + 1
CutOk(s, t, p, c, q) ==
    /\ Len(t) = Len(s) /\ \A j \in p..Len(s) : t[j] = s[j]
    /\ \A j \in 1..Len(s) : s[j] # Newline
    /\ c = Cardinality(Begins(s)) /\ (Between(s, p) \/ p = Len(s) + 1)
    /\ Listed(q, Below(s, p))
    /\ \A i \in Below(s, p) : WordCut(s, t, i) /\ (FirstOf(s, i, {Space}) < p \/ p = Len(s) + 1)

\* The inductive invariant behind SplitRight.
SplitInv ==
    /\ Len(line) <= buflen
    /\ pc = "count" => argv = <<>> /\ CountOk(line, text, at, argc)
    /\ pc = "cut" => CutOk(line, text, at, argc, argv)
    /\ SplitRight

LEMMA BeginsFinite ==
    ASSUME NEW s \in Seq(Chars), NEW p
    PROVE  /\ IsFiniteSet(Begins(s)) /\ Cardinality(Begins(s)) <= Len(s)
           /\ IsFiniteSet(Below(s, p)) /\ Cardinality(Below(s, p)) <= Cardinality(Begins(s))
           /\ Cardinality(Below(s, p)) \in Nat /\ Cardinality(Begins(s)) \in Nat
           /\ Cardinality(Below(s, p)) = Cardinality(Begins(s)) => Below(s, p) = Begins(s)
<1>1. Len(s) \in Nat
    BY LenProperties
<1>2. IsFiniteSet(1..Len(s)) /\ Cardinality(1..Len(s)) = Len(s)
    <2>1. PICK n \in Nat : n = Len(s)
        BY <1>1
    <2>2. IsFiniteSet(1..n) /\ Cardinality(1..n) = IF 1 <= n THEN n - 1 + 1 ELSE 0
        BY FS_Interval, SMTT(30)
    <2>3. Cardinality(1..n) = n
        BY <2>2
    <2> QED
        BY <2>1, <2>2, <2>3
<1>3. Begins(s) \in SUBSET (1..Len(s)) /\ Below(s, p) \in SUBSET Begins(s)
    BY DEF Begins, Below
<1>4. IsFiniteSet(Begins(s)) /\ Cardinality(Begins(s)) <= Len(s)
    BY <1>2, <1>3, FS_Subset
<1>5. /\ IsFiniteSet(Below(s, p)) /\ Cardinality(Below(s, p)) <= Cardinality(Begins(s))
      /\ Cardinality(Below(s, p)) = Cardinality(Begins(s)) => Below(s, p) = Begins(s)
    BY <1>3, <1>4, FS_Subset
<1> QED
    BY <1>4, <1>5, FS_CardinalityType

LEMMA NoneBelow ==
    ASSUME NEW s \in Seq(Chars)
    PROVE  Below(s, 1) = {} /\ Below(s, Len(s) + 1) = Begins(s)
<1>1. Len(s) \in Nat
    BY LenProperties
<1> QED
    BY <1>1 DEF Below, Begins

\* One more word is counted.
LEMMA CountStep ==
    ASSUME NEW s \in Seq(Chars), Len(s) <= buflen, NEW p \in 1..Len(s), NEW c,
           CountOk(s, s, p, c),
           NEW w, w = FirstOf(s, p, Visible), NEW e, e = FirstOf(s, w, Ends)
    PROVE  CountOk(s, s, e, IF w <= Len(s) THEN (c + 1) % ArgcMod ELSE c)
<1>n. PICK n \in Nat : n = Len(s)
    BY LenProperties
<1>c. Space \in Chars /\ Newline \in Chars /\ NUL \notin Chars /\ Space # Newline
    BY LineEditAssumption
<1>1. /\ w \in p..n + 1 /\ (w <= n => s[w] \in Visible)
      /\ \A j \in p..w - 1 : s[j] \notin Visible
    <2>1. p \in 1..Len(s) + 1
        BY <1>n
    <2> QED
        BY <1>n, <2>1, FirstFound
<1>2. /\ e \in w..n + 1 /\ (e <= n => s[e] \in Ends)
      /\ \A j \in w..e - 1 : s[j] \notin Ends
    <2>1. w \in 1..Len(s) + 1
        BY <1>n, <1>1
    <2> QED
        BY <1>n, <2>1, FirstFound
<1>3. CASE e <= n /\ s[e] = Newline
    BY <1>3, <1>n DEF CountOk
<1>4. CASE s[p] = Newline
    <2>1. w = p
        <3>1. s[p] \in Visible
            BY <1>4, <1>c DEF Visible
        <3>2. p \notin p..w - 1
            BY <1>1, <3>1
        <3> QED
            BY <1>n, <1>1, <3>2
    <2>2. e = p
        <3>1. s[p] \in Ends
            BY <1>4 DEF Ends
        <3>2. p \notin w..e - 1
            BY <1>2, <3>1
        <3> QED
            BY <1>n, <1>1, <1>2, <2>1, <3>2
    <2> QED
        BY <1>4, <2>2, <1>n DEF CountOk
<1>5. CASE s[p] # Newline /\ ~ (e <= n /\ s[e] = Newline)
    <2>1. /\ c = Cardinality(Below(s, p)) /\ \A j \in 1..p - 1 : s[j] # Newline
          /\ Between(s, p)
        BY <1>5, <1>n DEF CountOk
    <2>2. /\ w <= n => /\ w \in Begins(s) /\ Below(s, e) = Below(s, p) \cup {w}
          /\ w > n => e = w /\ Below(s, e) = Below(s, p)
          /\ e <= n => s[e] = Space
          /\ \A j \in p..e - 1 : s[j] # Newline
        <3>1. e <= Len(s) => s[e] # Newline
            BY <1>5, <1>n
        <3>2. NextWord(s, p, w, e)
            BY <2>1, <3>1, OneWord
        <3> QED
            BY <1>n, <3>2 DEF NextWord
    <2>3. \A j \in 1..e - 1 : s[j] # Newline
        <3> TAKE j \in 1..e - 1
        <3>1. j \in 1..p - 1 \/ j \in p..e - 1
            BY <1>n, <1>1, <1>2
        <3> QED
            BY <2>1, <2>2, <3>1
    <2>4. Between(s, e) \/ e = n + 1
        BY <1>n, <1>1, <1>2, <2>2 DEF Between
    <2>5. c \in Nat /\ IsFiniteSet(Below(s, p)) /\ Cardinality(Below(s, e)) <= n
          /\ Cardinality(Below(s, e)) \in Nat
        <3>1. Cardinality(Begins(s)) \in Nat /\ Cardinality(Begins(s)) <= n
            BY <1>n, BeginsFinite
        <3>2. Cardinality(Below(s, e)) <= Cardinality(Begins(s)) /\ Cardinality(Below(s, e)) \in Nat
            BY BeginsFinite
        <3>3. c \in Nat /\ IsFiniteSet(Below(s, p))
            BY <2>1, BeginsFinite
        <3> QED
            BY <3>1, <3>2, <3>3, <1>n
    <2>6. CASE w <= n
        <3>1. w \notin Below(s, p)
            BY <1>n, <1>1 DEF Below
        <3>2. Cardinality(Below(s, e)) = c + 1
            BY <2>1, <2>2, <2>5, <2>6, <3>1, FS_AddElement
        <3>3. c + 1 < ArgcMod /\ ArgcMod \in Nat
            BY <1>n, <2>5, <3>2, Sizes, ShellAssumption
        <3>4. (c + 1) % ArgcMod = c + 1
            BY <2>5, <3>3
        <3> QED
            BY <1>n, <2>3, <2>4, <2>6, <3>2, <3>4 DEF CountOk
    <2>7. CASE ~ (w <= n)
        <3>1. Below(s, e) = Below(s, p)
            BY <1>n, <1>1, <2>2, <2>7
        <3> QED
            BY <1>n, <2>1, <2>3, <2>4, <2>7, <3>1 DEF CountOk
    <2> QED
        BY <2>6, <2>7
<1> QED
    BY <1>3, <1>4, <1>5

LEMMA ListedMore ==
    ASSUME NEW V, NEW q \in Seq(V), NEW W, IsFiniteSet(W), Listed(q, W), NEW w \in V,
           \A x \in W : x < w, w \notin W
    PROVE  Listed(Append(q, w), W \cup {w})
<1>1. PICK n \in Nat : n = Len(q)
    BY LenProperties
<1>2. PICK r : r = Append(q, w)
    OBVIOUS
<1>3. r \in Seq(V) /\ Len(r) = n + 1 /\ r[n + 1] = w /\ \A i \in 1..n : r[i] = q[i]
    BY <1>1, <1>2, AppendProperties
<1>4. Cardinality(W \cup {w}) = n + 1
    BY <1>1, FS_AddElement DEF Listed
<1>5. {r[i] : i \in 1..n + 1} = W \cup {w}
    <2>1. {q[i] : i \in 1..n} = W
        BY <1>1 DEF Listed
    <2>2. \A x \in W \cup {w} : \E i \in 1..n + 1 : x = r[i]
        <3> TAKE x \in W \cup {w}
        <3>1. CASE x = w
            BY <3>1, <1>3
        <3>2. CASE x \in W
            <4>1. PICK i \in 1..n : x = q[i]
                BY <2>1, <3>2
            <4>2. i \in 1..n + 1 /\ x = r[i]
                BY <1>3, <4>1
            <4> QED
                BY <4>2
        <3> QED
            BY <3>1, <3>2
    <2>3. \A i \in 1..n + 1 : r[i] \in W \cup {w}
        <3> TAKE i \in 1..n + 1
        <3>1. i = n + 1 \/ i \in 1..n
            OBVIOUS
        <3> QED
            BY <1>3, <2>1, <3>1
    <2> QED
        BY <2>2, <2>3
<1>6. \A i, j \in 1..n + 1 : i < j => r[i] < r[j]
    <2> SUFFICES ASSUME NEW i \in 1..n + 1, NEW j \in 1..n + 1, i < j PROVE r[i] < r[j]
        OBVIOUS
    <2>1. i \in 1..n /\ r[i] = q[i]
        BY <1>3
    <2>2. CASE j = n + 1
        <3>1. q[i] \in W
            BY <1>1, <2>1 DEF Listed
        <3> QED
            BY <1>3, <2>1, <2>2, <3>1
    <2>3. CASE j # n + 1
        <3>1. j \in 1..n /\ r[j] = q[j]
            BY <1>3, <2>3
        <3> QED
            BY <1>1, <2>1, <3>1 DEF Listed
    <2> QED
        BY <2>2, <2>3
<1> QED
    BY <1>2, <1>3, <1>4, <1>5, <1>6 DEF Listed

LEMMA NextPlace ==
    ASSUME NEW n \in Nat, NEW p \in 1..n, NEW e \in p..n + 1, NEW a,
           a = IF e <= n THEN e + 1 ELSE e
    PROVE  a \in p + 1..n + 1 /\ e <= a /\ ((a = e + 1 /\ e <= n) \/ (a = n + 1 /\ e = n + 1))
OBVIOUS

\* One more word is cut out: of what was cut before nothing changes.
EndedAt(s, t, e, u) == \A j \in 1..Len(s) : u[j] = IF j = e THEN NUL ELSE t[j]
LEMMA CutStep ==
    ASSUME NEW s \in Seq(Chars), NEW t \in Seq(Keys), NEW p \in 1..Len(s), NEW c,
           NEW q \in Seq(1..Len(s)), CutOk(s, t, p, c, q),
           NEW w, w = FirstOf(s, p, Visible), NEW e, e = FirstOf(s, w, Ends),
           NEW r, r = IF w <= Len(t) THEN Append(q, w) ELSE q,
           NEW u \in Seq(Keys), Len(u) = Len(s), EndedAt(s, t, e, u)
    PROVE  CutOk(s, u, IF e <= Len(s) THEN e + 1 ELSE e, c, r)
<1>n. PICK n \in Nat : n = Len(s) /\ n = Len(t) /\ p \in 1..n
    BY LenProperties DEF CutOk
<1>u. \A j \in 1..n : u[j] = IF j = e THEN NUL ELSE t[j]
    BY <1>n DEF EndedAt
<1>1. /\ \A j \in p..n : t[j] = s[j]
      /\ \A j \in 1..n : s[j] # Newline
      /\ c = Cardinality(Begins(s)) /\ Between(s, p)
      /\ Listed(q, Below(s, p))
      /\ \A i \in Below(s, p) : WordCut(s, t, i) /\ FirstOf(s, i, {Space}) < p
    <2>1. p # n + 1
        BY <1>n
    <2>2. \A i \in Below(s, p) : WordCut(s, t, i) /\ (FirstOf(s, i, {Space}) < p \/ p = n + 1)
        BY <1>n DEF CutOk
    <2>3. Between(s, p) \/ p = n + 1
        BY <1>n DEF CutOk
    <2>4. /\ \A j \in p..n : t[j] = s[j]
          /\ \A j \in 1..n : s[j] # Newline
          /\ c = Cardinality(Begins(s)) /\ Listed(q, Below(s, p))
        BY <1>n DEF CutOk
    <2> QED
        BY <2>1, <2>2, <2>3, <2>4
<1>3. w \in p..n + 1
    <2>1. p \in 1..Len(s) + 1
        BY <1>n
    <2>2. FirstOf(s, p, Visible) \in p..Len(s) + 1
        BY <2>1, FirstFound
    <2> QED
        BY <1>n, <2>2
<1>5. e \in w..n + 1
    <2>1. w \in 1..Len(s) + 1
        BY <1>n, <1>3
    <2>2. FirstOf(s, w, Ends) \in w..Len(s) + 1
        BY <2>1, FirstFound
    <2> QED
        BY <1>n, <2>2
<1>6. /\ w <= n => /\ w < e /\ w \in Begins(s) /\ Below(s, e) = Below(s, p) \cup {w}
                   /\ FirstOf(s, w, {Space}) = e
      /\ w > n => e = w /\ Below(s, e) = Below(s, p)
      /\ e <= n => s[e] = Space
    <2>1. e <= Len(s) => s[e] # Newline
        BY <1>n, <1>1, <1>3, <1>5
    <2>2. p \in 1..Len(s)
        BY <1>n
    <2>3. NextWord(s, p, w, e)
        <3>1. Between(s, p)
            BY <1>1
        <3> QED
            BY <2>1, <2>2, <3>1, OneWord
    <2> QED
        BY <1>n, <2>3 DEF NextWord
<1>p. PICK a : a = IF e <= n THEN e + 1 ELSE e
    OBVIOUS
<1>7. a \in p + 1..n + 1 /\ e <= a /\ ((a = e + 1 /\ e <= n) \/ (a = n + 1 /\ e = n + 1))
    <2>1. e \in p..n + 1 /\ p \in 1..n
        BY <1>3, <1>5, <1>n
    <2> QED
        BY <1>p, <2>1, NextPlace
<1>8. Below(s, a) = Below(s, e)
    <2>1. CASE e <= n
        <3>1. e \notin Begins(s)
            BY <1>6, <2>1 DEF Begins
        <3>2. \A i \in Begins(s) : i \in Nat
            BY <1>n DEF Begins
        <3>3. \A i \in Begins(s) : (i < a) <=> (i < e)
            BY <1>3, <1>5, <1>n, <1>p, <2>1, <3>1, <3>2
        <3> QED
            BY <3>3 DEF Below
    <2>2. CASE ~ (e <= n)
        BY <2>2, <1>p
    <2> QED
        BY <2>1, <2>2
<1>9. Listed(r, Below(s, a))
    <2>1. CASE w <= n
        <3>1. \A x \in Below(s, p) : x < w
            <4> TAKE x \in Below(s, p)
            <4>1. x \in 1..n /\ x < p
                BY <1>n DEF Below, Begins
            <4> QED
                BY <1>3, <1>n, <4>1
        <3>2. w \notin Below(s, p) /\ w \in 1..n
            BY <1>3, <1>n, <2>1 DEF Below
        <3>3. Listed(Append(q, w), Below(s, p) \cup {w})
            BY <1>n, <1>1, <3>1, <3>2, BeginsFinite, ListedMore
        <3> QED
            BY <1>n, <1>6, <1>8, <2>1, <3>3
    <2>2. CASE ~ (w <= n)
        <3>1. Below(s, a) = Below(s, p)
            BY <1>3, <1>n, <1>6, <1>8, <2>2
        <3> QED
            BY <1>1, <1>n, <2>2, <3>1
    <2> QED
        BY <2>1, <2>2
<1>10. \A i \in Below(s, a) :
          WordCut(s, u, i) /\ (FirstOf(s, i, {Space}) < a \/ a = n + 1)
    <2> TAKE i \in Below(s, a)
    <2>1. CASE i \in Below(s, p)
        <3>1. PICK f : f = FirstOf(s, i, {Space})
            OBVIOUS
        <3>2. i \in 1..n /\ i \in 1..Len(s) + 1
            BY <2>1, <1>n DEF Below, Begins
        <3>3. f \in i..n + 1 /\ f < p
            BY <2>1, <3>1, <3>2, <1>n, <1>1, FirstFound
        <3>4. (\A j \in i..f - 1 : t[j] = s[j]) /\ t[f] = NUL
            <4>1. WordCut(s, t, i) /\ f <= Len(s)
                BY <2>1, <3>3, <1>n, <1>1
            <4> QED
                BY <3>1, <4>1 DEF WordCut
        <3>5. \A j \in i..f : j \in 1..n /\ j # e
            BY <3>2, <3>3, <1>3, <1>5, <1>n
        <3>6. (\A j \in i..f - 1 : u[j] = s[j]) /\ u[f] = NUL
            <4>1. \A j \in i..f : u[j] = t[j]
                BY <3>5, <1>n, <1>u
            <4>2. f \in i..f /\ \A j \in i..f - 1 : j \in i..f
                BY <3>2, <3>3
            <4> QED
                BY <3>4, <4>1, <4>2
        <3>7. f < a
            BY <3>3, <1>7, <1>n
        <3> QED
            BY <3>1, <3>6, <3>7 DEF WordCut
    <2>2. CASE i \notin Below(s, p)
        <3>1. w <= n /\ i = w
            BY <2>2, <1>3, <1>n, <1>6, <1>8
        <3>2. FirstOf(s, i, {Space}) = e /\ i < e
            BY <3>1, <1>6
        <3>3. \A j \in i..e - 1 : u[j] = s[j]
            <4> TAKE j \in i..e - 1
            <4>1. j \in 1..n /\ j # e /\ j \in p..n
                BY <3>1, <1>3, <1>5, <1>n
            <4> QED
                BY <4>1, <1>n, <1>u, <1>1
        <3>4. e <= n => u[e] = NUL
            <4>1. e <= n => e \in 1..n
                BY <3>1, <3>2, <1>3, <1>5, <1>n
            <4> QED
                BY <4>1, <1>u
        <3>5. e < a \/ a = n + 1
            BY <1>7, <1>5, <1>3, <1>n
        <3> QED
            BY <3>2, <3>3, <3>4, <3>5, <1>n DEF WordCut
    <2> QED
        BY <2>1, <2>2
<1>11. Between(s, a) \/ a = n + 1
    <2>1. CASE a = e + 1 /\ e <= n
        <3>1. a - 1 = e
            BY <2>1, <1>3, <1>5, <1>n
        <3> QED
            BY <2>1, <3>1, <1>6 DEF Between
    <2> QED
        BY <2>1, <1>7
<1>12. \A j \in a..n : u[j] = s[j]
    <2> TAKE j \in a..n
    <2>1. j \in 1..n /\ j # e /\ j \in p..n
        BY <1>3, <1>5, <1>7, <1>n
    <2> QED
        BY <2>1, <1>1, <1>n, <1>u
<1>13. CutOk(s, u, a, c, r)
    BY <1>n, <1>1, <1>9, <1>10, <1>11, <1>12 DEF CutOk
<1> QED
    BY <1>13, <1>p, <1>n

\* Cutting is over: all words are there.
AllCut(s, t, c, q) ==
    /\ c = Len(q) /\ {q[i] : i \in 1..c} = Begins(s)
    /\ \A i, j \in 1..c : i < j => q[i] < q[j]
    /\ \A i \in 1..c : SubSeq(t, q[i], FirstOf(t, q[i], {NUL}) - 1) = Word(s, q[i])
LEMMA CutAll ==
    ASSUME NEW s \in Seq(Chars), NEW t \in Seq(Keys), NEW p \in 1..Len(s) + 1, NEW c,
           NEW q \in Seq(1..Len(s)), CutOk(s, t, p, c, q), ~ (Len(q) < c /\ p <= Len(s))
    PROVE  AllCut(s, t, c, q)
<1>n. PICK n \in Nat : n = Len(s) /\ n = Len(t) /\ p \in 1..n + 1
    BY LenProperties DEF CutOk
<1>1. /\ c = Cardinality(Begins(s)) /\ Listed(q, Below(s, p))
      /\ \A i \in Below(s, p) : WordCut(s, t, i)
    BY DEF CutOk
<1>2. Below(s, p) = Begins(s)
    <2>1. CASE p = n + 1
        BY <1>n, <2>1, NoneBelow
    <2>2. CASE p # n + 1
        <3>1. Len(q) = Cardinality(Below(s, p)) /\ ~ (Len(q) < c)
            BY <1>n, <1>1, <2>2 DEF Listed
        <3>2. /\ Cardinality(Below(s, p)) \in Nat /\ Cardinality(Begins(s)) \in Nat
              /\ Cardinality(Below(s, p)) <= Cardinality(Begins(s))
              /\ Cardinality(Below(s, p)) = Cardinality(Begins(s)) => Below(s, p) = Begins(s)
            BY BeginsFinite
        <3> QED
            BY <1>1, <3>1, <3>2
    <2> QED
        BY <2>1, <2>2
<1>3. /\ c = Len(q) /\ {q[i] : i \in 1..c} = Begins(s)
      /\ \A i, j \in 1..c : i < j => q[i] < q[j]
    BY <1>1, <1>2 DEF Listed
<1>4. ASSUME NEW i \in 1..c
      PROVE  SubSeq(t, q[i], FirstOf(t, q[i], {NUL}) - 1) = Word(s, q[i])
    <2>1. PICK b : b = q[i] /\ b \in Begins(s)
        BY <1>3
    <2>2. b \in 1..n /\ b \in 1..Len(s) + 1 /\ b \in 1..Len(t) + 1
        BY <1>n, <2>1 DEF Begins
    <2>3. PICK f : f = FirstOf(s, b, {Space})
        OBVIOUS
    <2>4. f \in b..n + 1
        BY <1>n, <2>2, <2>3, FirstFound
    <2>5. (\A j \in b..f - 1 : t[j] = s[j]) /\ (f <= n => t[f] = NUL)
        BY <1>n, <1>1, <1>2, <2>1, <2>3 DEF WordCut
    <2>6. FirstOf(t, b, {NUL}) = f
        <3>1. f \in b..Len(t) + 1
            BY <1>n, <2>4
        <3>2. f <= Len(t) => t[f] \in {NUL}
            BY <1>n, <2>5
        <3>3. \A j \in b..f - 1 : t[j] \notin {NUL}
            <4> TAKE j \in b..f - 1
            <4>1. j \in 1..Len(s)
                BY <1>n, <2>2, <2>4
            <4>2. s[j] \in Chars
                BY <4>1, ElementOfSeq
            <4> QED
                BY <2>5, <4>2, LineEditAssumption
        <3> QED
            BY <2>2, <3>1, <3>2, <3>3, FirstIs
    <2>7. SubSeq(t, b, f - 1) = SubSeq(s, b, f - 1)
        <3>1. PICK m \in Nat : m = f - b
            BY <2>2, <2>4, <1>n
        <3>2. \A j \in 1..m : b + j - 1 \in b..f - 1 /\ b + j - 1 \in 1..n
            BY <2>2, <2>4, <3>1, <1>n
        <3>3. SubSeq(t, b, f - 1) = [j \in 1..m |-> t[b + j - 1]]
            BY <1>n, <2>2, <2>4, <3>1, SubSeqProperties
        <3>4. SubSeq(s, b, f - 1) = [j \in 1..m |-> s[b + j - 1]]
            BY <1>n, <2>2, <2>4, <3>1, SubSeqProperties
        <3> QED
            BY <2>5, <3>2, <3>3, <3>4
    <2> QED
        BY <2>1, <2>3, <2>6, <2>7 DEF Word
<1> QED
    BY <1>3, <1>4 DEF AllCut

\* The line stays as long as the buffer is.
LEMMA LineShort ==
    ASSUME EditorInv, Len(line) <= buflen, [Next]_vars
    PROVE  Len(line') <= buflen
<1>0. Len(<<>>) = 0 /\ buflen \in Nat
    BY EmptySeq, Sizes
<1>1. ASSUME NEW r, NEW h, Finish(r, h), mode = "edit" PROVE Len(line') <= buflen
    <2>1. line' = IF r \in {"line", "hangup"} THEN Str(buf) ELSE <<>>
        BY <1>1 DEF Finish
    <2>2. Len(Str(buf)) <= buflen
        BY <1>1, Editing, StrOfLine, Sizes
    <2> QED
        BY <1>0, <2>1, <2>2
<1>2. ASSUME line' = line \/ line' = <<>> PROVE Len(line') <= buflen
    BY <1>0, <1>2
<1>3. CASE Press
    <2>1. mode = "edit"
        BY <1>3 DEF Press, EditKey
    <2>2. CASE Enter \/ EndOfFile \/ Interrupt
        BY <1>1, <2>1, <2>2 DEF Enter, EndOfFile, Interrupt
    <2>3. CASE ~ (Enter \/ EndOfFile \/ Interrupt)
        <3>r. ASSUME NEW b, NEW n, NEW p, Redraw(b, n, p) PROVE UNCHANGED callVars
            BY <3>r DEF Redraw
        <3>e. ASSUME NEW b, NEW n, NEW p, Edit(b, n, p) PROVE UNCHANGED callVars
            BY <3>e, <3>r DEF Edit
        <3>m. ASSUME NEW p, MoveTo(p) PROVE UNCHANGED callVars
            BY <3>m, <3>r DEF MoveTo
        <3>10. UNCHANGED callVars
            <4>1. CASE \E c \in Keys : InsertEnd(c) \/ InsertMiddle(c)
                BY <4>1, <3>e DEF InsertEnd, InsertEndIf, InsertMiddle, InsertMiddleWith
            <4>2. CASE InsertFull \/ Nothing
                BY <4>2 DEF InsertFull, Nothing, Ignored
            <4>3. CASE Backspace \/ Delete
                BY <4>3, <3>e DEF Backspace, Delete
            <4>4. CASE Transpose
                BY <4>4, <3>e DEF Transpose
            <4>5. CASE KillLine \/ KillEnd
                BY <4>5, <3>e DEF KillLine, KillEnd
            <4>6. CASE DeletePrevWord
                BY <4>6, <3>e DEF DeletePrevWord
            <4>7. CASE MoveLeft \/ MoveRight \/ MoveHome \/ MoveEnd
                BY <4>7, <3>m DEF MoveLeft, MoveRight, MoveHome, MoveEnd
            <4>8. CASE \E d \in {1, -1} : HistoryNext(d)
                BY <4>8, <3>r DEF HistoryNext, HistoryNextAs
            <4>9. CASE \E d \in {1, -1} : HistoryEnd(d)
                BY <4>9 DEF HistoryEnd
            <4> QED
                BY <1>3, <2>3, <4>1, <4>2, <4>3, <4>4, <4>5, <4>6, <4>7, <4>8, <4>9 DEF Press, EditKey
        <3> QED
            BY <1>2, <3>10 DEF callVars
    <2> QED
        BY <2>2, <2>3
<1>4. CASE Lost
    BY <1>1, <1>4 DEF Lost, Hangup
<1>5. CASE Loop
    <2>1. CASE Call
        BY <1>2, <2>1 DEF Call, BeginEdit, NoRawMode
    <2>2. CASE Accept
        BY <1>2, <2>2 DEF Accept
    <2>3. CASE ~ Call /\ ~ Accept
        <3>1. line' = line
            BY <1>5, <2>3 DEF Loop, Load, LoadDone, CountWord, CountFrom, CountDone, CutWord,
               CutWith, CutDone, Execute, Save, callVars, editVars
        <3> QED
            BY <1>2, <3>1
    <2> QED
        BY <2>1, <2>2, <2>3
<1>6. CASE UNCHANGED vars
    BY <1>2, <1>6 DEF vars, editVars, callVars
<1> QED
    BY <1>3, <1>4, <1>5, <1>6 DEF Next

LEMMA NextSplitInv == EditorInv /\ SplitInv /\ [Next]_vars => SplitInv'
<1> SUFFICES ASSUME EditorInv, SplitInv, [Next]_vars PROVE SplitInv'
    OBVIOUS
<1>0. Len(line') <= buflen
    BY LineShort DEF SplitInv
<1>1. /\ line \in Seq(Chars) /\ text \in Seq(Keys) /\ argv \in Seq(1..Len(text))
      /\ Len(line) <= buflen /\ Len(line) \in Nat
      /\ pc # "load" => at \in 1..Len(text) + 1
    BY LenProperties DEF EditorInv, EditTypes, LoopTypes, SplitInv, Entry
<1>2. CASE pc' \notin {"count", "cut", "execute"}
    BY <1>0, <1>2 DEF SplitInv, SplitRight
<1>3. CASE Accept
    <2>1. CASE pc' = "count"
        <3>1. text' = line /\ at' = 1 /\ argc' = 0 /\ line' = line /\ argv' = <<>>
            BY <1>3 DEF Accept
        <3>2. CountOk(line, line, 1, 0)
            <4>1. Cardinality(Below(line, 1)) = 0
                BY <1>1, NoneBelow, FS_EmptySet
            <4> QED
                BY <4>1 DEF CountOk, Between
        <3> QED
            BY <1>0, <2>1, <3>1, <3>2 DEF SplitInv, SplitRight
    <2> QED
        BY <1>2, <1>3, <2>1 DEF Accept
<1>4. CASE CountWord
    <2>1. /\ pc = "count" /\ pc' = "count" /\ at <= Len(text) /\ at' = WordEnd
          /\ argc' = IF WordStart <= Len(text) THEN (argc + 1) % ArgcMod ELSE argc
          /\ text' = text /\ line' = line /\ argv' = argv
        BY <1>4 DEF CountWord, CountFrom, editVars, callVars
    <2>2. text = line /\ CountOk(line, line, at, argc)
        BY <2>1 DEF SplitInv, CountOk
    <2>3. PICK w, e : w = WordStart /\ e = WordEnd
        OBVIOUS
    <2>4. w = FirstOf(line, at, Visible) /\ e = FirstOf(line, w, Ends)
        BY <2>2, <2>3 DEF WordStart, WordEnd, FirstIn, Ends
    <2>5. at \in 1..Len(line)
        BY <1>1, <2>1, <2>2
    <2>6. CountOk(line, line, e, IF w <= Len(line) THEN (argc + 1) % ArgcMod ELSE argc)
        BY <1>1, <2>2, <2>4, <2>5, CountStep
    <2>7. CountOk(line, text, at, argc)'
        BY <2>1, <2>2, <2>3, <2>6
    <2> QED
        BY <1>0, <2>1, <2>7 DEF SplitInv, SplitRight
<1>5. CASE CountDone
    <2>1. /\ pc = "count" /\ at = Len(text) + 1 /\ at' = 1 /\ pc' \in {"read", "cut"}
          /\ UNCHANGED <<line, text, argc, argv>>
        BY <1>5 DEF CountDone, editVars, callVars
    <2>2. CASE pc' = "cut"
        <3>1. text = line /\ CountOk(line, line, Len(line) + 1, argc)
            BY <2>1 DEF SplitInv, CountOk
        <3>2. /\ argc = Cardinality(Below(line, Len(line) + 1))
              /\ \A j \in 1..Len(line) : line[j] # Newline
            BY <1>1, <3>1 DEF CountOk
        <3>3. argc = Cardinality(Begins(line))
            BY <1>1, <3>2, NoneBelow
        <3>4. argv = <<>>
            BY <2>1 DEF SplitInv
        <3>5. CutOk(line, line, 1, argc, <<>>)
            <4>1. Below(line, 1) = {} /\ Cardinality({}) = 0 /\ Len(<<>>) = 0
                BY <1>1, NoneBelow, FS_EmptySet, EmptySeq
            <4>2. Listed(<<>>, Below(line, 1))
                BY <4>1 DEF Listed
            <4> QED
                BY <1>1, <3>2, <3>3, <4>1, <4>2 DEF CutOk, Between
        <3> QED
            BY <1>0, <2>1, <2>2, <3>1, <3>4, <3>5 DEF SplitInv, SplitRight
    <2> QED
        BY <1>2, <2>1, <2>2
<1>6. CASE CutWord
    <2>1. /\ pc = "cut" /\ pc' = "cut" /\ at <= Len(text) /\ argc' = argc /\ line' = line
          /\ argv' = IF WordStart <= Len(text) THEN Append(argv, WordStart) ELSE argv
          /\ IF WordEnd <= Len(text)
             THEN text' = [text EXCEPT ![WordEnd] = NUL] /\ at' = WordEnd + 1
             ELSE at' = WordEnd /\ text' = text
        BY <1>6 DEF CutWord, CutWith, editVars, callVars
    <2>2. CutOk(line, text, at, argc, argv)
        BY <2>1 DEF SplitInv
    <2>3. Len(text) = Len(line) /\ \A j \in at..Len(line) : text[j] = line[j]
        BY <2>2 DEF CutOk
    <2>4. PICK w, e : w = WordStart /\ e = WordEnd
        OBVIOUS
    <2>5. at \in 1..Len(line)
        BY <1>1, <2>1, <2>3
    <2>6. w = FirstOf(line, at, Visible)
        <3>1. w = FirstOf(text, at, Visible)
            BY <2>4 DEF WordStart, FirstIn
        <3> QED
            BY <2>3, <3>1, FirstSame
    <2>7. w \in at..Len(line) + 1
        <3>1. at \in 1..Len(line) + 1
            BY <1>1, <2>5
        <3> QED
            BY <1>1, <2>6, <3>1, FirstFound
    <2>8. e = FirstOf(line, w, Ends)
        <3>1. e = FirstOf(text, w, Ends)
            BY <2>4 DEF WordEnd, FirstIn, Ends
        <3>2. \A j \in w..Len(line) : text[j] = line[j]
            BY <1>1, <2>3, <2>5, <2>7
        <3> QED
            BY <2>3, <3>1, <3>2, FirstSame
    <2>9. e \in 1..Len(line) + 1
        <3>1. w \in 1..Len(line) + 1
            BY <1>1, <2>5, <2>7
        <3>2. e \in w..Len(line) + 1
            BY <1>1, <2>8, <3>1, FirstFound
        <3> QED
            BY <1>1, <3>1, <3>2
    <2>10. PICK u : u = text'
        OBVIOUS
    <2>11. /\ u \in Seq(Keys) /\ Len(u) = Len(line)
           /\ \A j \in 1..Len(line) : u[j] = IF j = e THEN NUL ELSE text[j]
        <3>1. CASE e <= Len(line)
            <4>1. e \in 1..Len(text) /\ NUL \in Keys /\ u = [text EXCEPT ![e] = NUL]
                BY <1>1, <2>1, <2>3, <2>4, <2>9, <2>10, <3>1, Sizes
            <4> QED
                BY <1>1, <2>3, <4>1, ExceptSeq
        <3>2. CASE ~ (e <= Len(line))
            BY <1>1, <2>1, <2>3, <2>4, <2>9, <2>10, <3>2
        <3> QED
            BY <3>1, <3>2
    <2>12. PICK r : r = argv'
        OBVIOUS
    <2>13. r = IF w <= Len(text) THEN Append(argv, w) ELSE argv
        BY <2>1, <2>4, <2>12
    <2>14. argv \in Seq(1..Len(line))
        BY <1>1, <2>3
    <2>15. CutOk(line, u, IF e <= Len(line) THEN e + 1 ELSE e, argc, r)
        <3>1. PICK s, t, p, q, c : s = line /\ t = text /\ p = at /\ q = argv /\ c = argc
            OBVIOUS
        <3>2. /\ s \in Seq(Chars) /\ t \in Seq(Keys) /\ p \in 1..Len(s) /\ q \in Seq(1..Len(s))
              /\ CutOk(s, t, p, c, q) /\ w = FirstOf(s, p, Visible) /\ e = FirstOf(s, w, Ends)
              /\ r = IF w <= Len(t) THEN Append(q, w) ELSE q
              /\ u \in Seq(Keys) /\ Len(u) = Len(s)
            BY <1>1, <2>2, <2>5, <2>6, <2>8, <2>11, <2>13, <2>14, <3>1
        <3>3. EndedAt(s, t, e, u)
            BY <2>11, <3>1 DEF EndedAt
        <3>4. CutOk(s, u, IF e <= Len(s) THEN e + 1 ELSE e, c, r)
            BY <3>2, <3>3, CutStep
        <3> QED
            BY <3>1, <3>4
    <2>16. at' = IF e <= Len(line) THEN e + 1 ELSE e
        BY <2>1, <2>3, <2>4
    <2>17. CutOk(line, text, at, argc, argv)'
        BY <2>1, <2>10, <2>12, <2>15, <2>16
    <2> QED
        BY <1>0, <2>1, <2>17 DEF SplitInv, SplitRight
<1>7. CASE CutDone
    <2>1. /\ pc = "cut" /\ pc' = "execute" /\ ~ (Len(argv) < argc /\ at <= Len(text))
          /\ UNCHANGED <<line, text, argc, argv>>
        BY <1>7 DEF CutDone, editVars, callVars
    <2>2. CutOk(line, text, at, argc, argv) /\ Len(text) = Len(line)
        BY <2>1 DEF SplitInv, CutOk
    <2>3. /\ argc = Len(argv) /\ {argv[i] : i \in 1..argc} = Begins(line)
          /\ \A i, j \in 1..argc : i < j => argv[i] < argv[j]
          /\ \A i \in 1..argc : SubSeq(text, argv[i], FirstOf(text, argv[i], {NUL}) - 1)
                                  = Word(line, argv[i])
        <3>1. PICK s, t, p, q, c : s = line /\ t = text /\ p = at /\ q = argv /\ c = argc
            OBVIOUS
        <3>2. /\ s \in Seq(Chars) /\ t \in Seq(Keys) /\ p \in 1..Len(s) + 1
              /\ q \in Seq(1..Len(s)) /\ CutOk(s, t, p, c, q)
              /\ ~ (Len(q) < c /\ p <= Len(s))
            BY <1>1, <2>1, <2>2, <3>1
        <3>3. AllCut(s, t, c, q)
            BY <3>2, CutAll
        <3> QED
            BY <3>1, <3>3 DEF AllCut
    <2>4. SplitRight'
        BY <2>1, <2>3 DEF SplitRight, Arg, FirstIn
    <2> QED
        BY <1>0, <2>1, <2>4 DEF SplitInv
<1>8. CASE UNCHANGED vars
    BY <1>8 DEF SplitInv, SplitRight, Arg, FirstIn, vars, editVars, callVars, loopVars
<1>9. CASE Press \/ Lost \/ Call
    <2>1. pc' = "read"
        BY <1>9 DEF Press, Lost, Call, loopVars
    <2> QED
        BY <1>2, <2>1
<1>10. CASE Load \/ LoadDone \/ Execute \/ Save
    <2>1. pc' \in {"load", "read", "end", "unsaved"}
        BY <1>10 DEF Load, LoadDone, Execute, Save
    <2> QED
        BY <1>2, <2>1
<1> QED
    BY <1>3, <1>4, <1>5, <1>6, <1>7, <1>8, <1>9, <1>10 DEF Next, Loop

\* For any line that can be entered: split_str, which counts the arguments first
\* and cuts them out of the line in place then, hands to the command exactly the
\* words of the line, in order, and never the rest of another word.
THEOREM LinesAreSplit == Spec => []SplitRight
<1>1. Init => SplitInv
    <2> SUFFICES ASSUME Init PROVE SplitInv
        OBVIOUS
    <2>1. Len(<<>>) = 0 /\ buflen \in Nat
        BY EmptySeq, Sizes
    <2> QED
        BY <2>1 DEF Init, EditInit, SplitInv, SplitRight
<1>2. EditorInv /\ SplitInv /\ [Next]_vars => SplitInv'
    BY NextSplitInv
<1>3. SplitInv => SplitRight
    BY DEF SplitInv
<1> QED
    BY <1>1, <1>2, <1>3, EditorInvHolds, PTL DEF Spec

-----------------------------------------------------------------------------
(* linenoiseHistorySave and linenoiseHistoryLoad.                          *)

\* A sequence grows by its next element.
LEMMA Grown ==
    ASSUME NEW V, NEW s \in Seq(V), NEW i \in 1..Len(s)
    PROVE  /\ SubSeq(s, 1, i) = Append(SubSeq(s, 1, i - 1), s[i])
           /\ SubSeq(s, 1, i - 1) \in Seq(V) /\ Len(SubSeq(s, 1, i - 1)) = i - 1
           /\ \A j \in 1..i - 1 : SubSeq(s, 1, i - 1)[j] = s[j]
<1>n. PICK n \in Nat : n = Len(s) /\ i \in 1..n
    BY LenProperties
<1>1. /\ SubSeq(s, 1, i - 1) \in Seq(V) /\ Len(SubSeq(s, 1, i - 1)) = i - 1
      /\ \A j \in 1..i - 1 : SubSeq(s, 1, i - 1)[j] = s[j]
    <2>1. i - 1 \in Nat /\ i - 1 <= n
        BY <1>n
    <2> QED
        BY <2>1, <1>n, SubSeqProperties
<1>2. SubSeq(s, 1, i) \in Seq(V) /\ Len(SubSeq(s, 1, i)) = i /\ \A j \in 1..i : SubSeq(s, 1, i)[j] = s[j]
    BY <1>n, SubSeqProperties
<1>3. s[i] \in V
    BY <1>n, ElementOfSeq
<1>4. PICK a, b : a = SubSeq(s, 1, i - 1) /\ b = SubSeq(s, 1, i)
    OBVIOUS
<1>5. /\ Append(a, s[i]) \in Seq(V) /\ Len(Append(a, s[i])) = i
      /\ \A j \in 1..i : Append(a, s[i])[j] = s[j]
    BY <1>n, <1>1, <1>3, <1>4, AppendProperties
<1>6. b = Append(a, s[i])
    BY <1>2, <1>4, <1>5, SeqEqual
<1> QED
    BY <1>1, <1>4, <1>6

LEMMA LinesPlain ==
    ASSUME NEW s \in Entry, \A i \in 1..Len(s) : s[i] # Newline
    PROVE  LinesOf(s) = <<s>>
<1>n. PICK n \in Nat : n = Len(s)
    BY LenProperties DEF Entry
<1> DEFINE Up(i) == <<SubSeq(s, 1, i)>>
           Is(f) == f = [i \in 0..n |-> IF i = 0 THEN <<<<>>>> ELSE CutAtNewline(f[i - 1], s[i])]
           u == [i \in 0..n |-> Up(i)]
<1>1. Up(0) = <<<<>>>> /\ Up(n) = <<s>>
    BY <1>n, SubSeqProperties DEF Entry
<1>2. ASSUME NEW i \in 1..n PROVE CutAtNewline(Up(i - 1), s[i]) = Up(i)
    <2>1. PICK a : a = SubSeq(s, 1, i - 1) /\ SubSeq(s, 1, i) = Append(a, s[i])
        BY <1>n, Grown DEF Entry
    <2>2. CutAtNewline(<<a>>, s[i]) = Front(<<a>>) \o <<Append(Last(<<a>>), s[i])>>
        BY <1>n DEF CutAtNewline
    <2>3. Front(<<a>>) = <<>> /\ Last(<<a>>) = a
        BY DEF Front, Last
    <2>4. <<>> \o <<Append(a, s[i])>> = <<Append(a, s[i])>>
        OBVIOUS
    <2> QED
        BY <2>1, <2>2, <2>3, <2>4
<1> HIDE DEF Up
<1>3. Is(u)
    <2>1. \A i \in 0..n : u[i] = IF i = 0 THEN <<<<>>>> ELSE CutAtNewline(u[i - 1], s[i])
        <3> TAKE i \in 0..n
        <3>1. CASE i = 0
            BY <1>1, <3>1
        <3>2. CASE i # 0
            <4>1. i \in 1..n /\ i - 1 \in 0..n /\ u[i] = Up(i) /\ u[i - 1] = Up(i - 1)
                BY <3>2
            <4> HIDE DEF u
            <4> QED
                BY <1>2, <3>2, <4>1
        <3> QED
            BY <3>1, <3>2
    <2>2. u = [i \in 0..n |-> u[i]]
        OBVIOUS
    <2> HIDE DEF u
    <2> QED
        BY <2>1, <2>2
<1> HIDE DEF u
<1> DEFINE cut == CHOOSE f : Is(f)
<1>4. Is(cut)
    BY <1>3, Zenon
<1>5. LinesOf(s) = cut[n]
    BY <1>n, Zenon DEF LinesOf
<1> HIDE DEF cut
<1>6. \A i \in 0..n : cut[i] = Up(i)
    <2> DEFINE Bad == {i \in 0..n : cut[i] # Up(i)}
    <2> SUFFICES ASSUME Bad # {} PROVE FALSE
        OBVIOUS
    <2>1. Bad \in SUBSET Nat
        OBVIOUS
    <2>2. PICK m \in Bad : \A k \in Bad : m <= k
        BY <2>1, Least
    <2>3. m # 0
        BY <1>1, <1>4, <2>2
    <2>4. m \in 1..n /\ m - 1 \in 0..n /\ m - 1 \notin Bad
        BY <2>2, <2>3
    <2>5. cut[m - 1] = Up(m - 1) /\ cut[m] # Up(m)
        BY <2>2, <2>4
    <2>6. cut[m] = CutAtNewline(cut[m - 1], s[m])
        BY <1>4, <2>4
    <2> QED
        BY <1>2, <2>4, <2>5, <2>6
<1> QED
    BY <1>1, <1>5, <1>6

\* A history without newlines is saved as it is.
LEMMA SavedPlain ==
    ASSUME NEW h \in Seq(Entry), \A j \in 1..Len(h) : \A i \in 1..Len(h[j]) : h[j][i] # Newline
    PROVE  HistorySave(h) = h
<1>n. PICK n \in Nat : n = Len(h)
    BY LenProperties
<1> DEFINE Up(i) == SubSeq(h, 1, i)
           Is(f) == f = [i \in 0..n |-> IF i = 0 THEN <<>> ELSE f[i - 1] \o LinesOf(h[i])]
           u == [i \in 0..n |-> Up(i)]
<1>1. Up(0) = <<>> /\ Up(n) = h
    BY <1>n, SubSeqProperties
<1>2. ASSUME NEW i \in 1..n PROVE Up(i - 1) \o LinesOf(h[i]) = Up(i)
    <2>1. PICK a \in Seq(Entry) : a = SubSeq(h, 1, i - 1) /\ SubSeq(h, 1, i) = Append(a, h[i])
        BY <1>n, Grown
    <2>2. h[i] \in Entry
        BY <1>n, ElementOfSeq
    <2>3. LinesOf(h[i]) = <<h[i]>>
        BY <1>n, <2>2, LinesPlain
    <2>4. Append(a, h[i]) = a \o <<h[i]>>
        BY <2>1, <2>2, AppendIsConcat
    <2> QED
        BY <2>1, <2>3, <2>4
<1> HIDE DEF Up
<1>3. Is(u)
    <2>1. \A i \in 0..n : u[i] = IF i = 0 THEN <<>> ELSE u[i - 1] \o LinesOf(h[i])
        <3> TAKE i \in 0..n
        <3>1. CASE i = 0
            BY <1>1, <3>1
        <3>2. CASE i # 0
            <4>1. i \in 1..n /\ i - 1 \in 0..n /\ u[i] = Up(i) /\ u[i - 1] = Up(i - 1)
                BY <3>2
            <4> HIDE DEF u
            <4> QED
                BY <1>2, <3>2, <4>1
        <3> QED
            BY <3>1, <3>2
    <2>2. u = [i \in 0..n |-> u[i]]
        OBVIOUS
    <2> HIDE DEF u
    <2> QED
        BY <2>1, <2>2
<1> HIDE DEF u
<1> DEFINE saved == CHOOSE f : Is(f)
<1>4. Is(saved)
    BY <1>3, Zenon
<1>5. HistorySave(h) = saved[n]
    BY <1>n, Zenon DEF HistorySave
<1> HIDE DEF saved
<1>6. \A i \in 0..n : saved[i] = Up(i)
    <2> DEFINE Bad == {i \in 0..n : saved[i] # Up(i)}
    <2> SUFFICES ASSUME Bad # {} PROVE FALSE
        OBVIOUS
    <2>1. Bad \in SUBSET Nat
        OBVIOUS
    <2>2. PICK m \in Bad : \A k \in Bad : m <= k
        BY <2>1, Least
    <2>3. m # 0
        BY <1>1, <1>4, <2>2
    <2>4. m \in 1..n /\ m - 1 \in 0..n /\ m - 1 \notin Bad
        BY <2>2, <2>3
    <2>5. saved[m - 1] = Up(m - 1) /\ saved[m] # Up(m)
        BY <2>2, <2>4
    <2>6. saved[m] = saved[m - 1] \o LinesOf(h[m])
        <3>1. m \in 0..n
            BY <2>4
        <3>2. saved[m] = IF m = 0 THEN <<>> ELSE saved[m - 1] \o LinesOf(h[m])
            BY <1>4, <3>1, Zenon
        <3> QED
            BY <2>3, <3>2, Zenon
    <2> QED
        BY <1>2, <2>4, <2>5, <2>6
<1> QED
    BY <1>1, <1>5, <1>6

\* A history without neighbours that are the same is loaded as it is.
LEMMA LoadedPlain ==
    ASSUME NEW h \in Seq(Entry), Len(h) <= history_max_len, \A i \in 1..Len(h) : Len(h[i]) < buflen,
           \A i \in 1..Len(h) - 1 : h[i] # h[i + 1]
    PROVE  HistoryLoad(h) = h
<1>n. PICK n \in Nat : n = Len(h)
    BY LenProperties
<1> DEFINE Up(i) == SubSeq(h, 1, i)
           Is(f) == f = [i \in 0..n |-> IF i = 0 THEN <<>> ELSE LoadLine(f[i - 1], h[i])]
           u == [i \in 0..n |-> Up(i)]
<1>1. Up(0) = <<>> /\ Up(n) = h
    BY <1>n, SubSeqProperties
<1>2. ASSUME NEW i \in 1..n PROVE LoadLine(Up(i - 1), h[i]) = Up(i)
    <2>1. PICK a \in Seq(Entry) : /\ a = SubSeq(h, 1, i - 1) /\ SubSeq(h, 1, i) = Append(a, h[i])
                                  /\ Len(a) = i - 1 /\ \A j \in 1..i - 1 : a[j] = h[j]
        <3>1. i \in 1..Len(h)
            BY <1>n
        <3>2. /\ SubSeq(h, 1, i) = Append(SubSeq(h, 1, i - 1), h[i])
              /\ SubSeq(h, 1, i - 1) \in Seq(Entry) /\ Len(SubSeq(h, 1, i - 1)) = i - 1
              /\ \A j \in 1..i - 1 : SubSeq(h, 1, i - 1)[j] = h[j]
            BY <3>1, Grown, Zenon
        <3> QED
            BY <3>2, Zenon
    <2>2. LoadLine(a, h[i]) = HistoryAdd(a, h[i])
        BY <1>n DEF LoadLine
    <2>3. ~ (a # <<>> /\ Last(a) = h[i])
        <3> SUFFICES ASSUME a # <<>>, a[Len(a)] = h[i] PROVE FALSE
            BY DEF Last
        <3>1. Len(a) # 0
            BY EmptySeq
        <3>2. i - 1 \in 1..i - 1 /\ i - 1 \in 1..n - 1 /\ (i - 1) + 1 = i
            BY <2>1, <3>1, <1>n
        <3>3. h[i - 1] # h[(i - 1) + 1]
            BY <1>n, <3>2
        <3> QED
            BY <2>1, <3>2, <3>3
    <2>4. Len(a) # history_max_len
        BY <1>n, <2>1, LineEditAssumption
    <2> QED
        BY <2>1, <2>2, <2>3, <2>4 DEF HistoryAdd, HistoryAddUnless
<1> HIDE DEF Up
<1>3. Is(u)
    <2>1. \A i \in 0..n : u[i] = IF i = 0 THEN <<>> ELSE LoadLine(u[i - 1], h[i])
        <3> TAKE i \in 0..n
        <3>1. CASE i = 0
            BY <1>1, <3>1
        <3>2. CASE i # 0
            <4>1. i \in 1..n /\ i - 1 \in 0..n /\ u[i] = Up(i) /\ u[i - 1] = Up(i - 1)
                BY <3>2
            <4> HIDE DEF u
            <4> QED
                BY <1>2, <3>2, <4>1
        <3> QED
            BY <3>1, <3>2
    <2>2. u = [i \in 0..n |-> u[i]]
        OBVIOUS
    <2> HIDE DEF u
    <2> QED
        BY <2>1, <2>2
<1> HIDE DEF u
<1> DEFINE loaded == CHOOSE f : Is(f)
<1>4. Is(loaded)
    BY <1>3, Zenon
<1>5. HistoryLoad(h) = loaded[n]
    BY <1>n, Zenon DEF HistoryLoad
<1> HIDE DEF loaded
<1>6. \A i \in 0..n : loaded[i] = Up(i)
    <2> DEFINE Bad == {i \in 0..n : loaded[i] # Up(i)}
    <2> SUFFICES ASSUME Bad # {} PROVE FALSE
        OBVIOUS
    <2>1. Bad \in SUBSET Nat
        OBVIOUS
    <2>2. PICK m \in Bad : \A k \in Bad : m <= k
        BY <2>1, Least
    <2>3. m # 0
        BY <1>1, <1>4, <2>2
    <2>4. m \in 1..n /\ m - 1 \in 0..n /\ m - 1 \notin Bad
        BY <2>2, <2>3
    <2>5. loaded[m - 1] = Up(m - 1) /\ loaded[m] # Up(m)
        BY <2>2, <2>4
    <2>6. loaded[m] = LoadLine(loaded[m - 1], h[m])
        BY <1>4, <2>4
    <2> QED
        BY <1>2, <2>4, <2>5, <2>6
<1> QED
    BY <1>1, <1>5, <1>6

\* What was saved last is the history.
SavedInv == pc = "end" => file = HistorySave(history)

LEMMA PlainPersists ==
    ASSUME EditorInv, SavedInv
    PROVE  HistoryPersists
<1> SUFFICES ASSUME pc = "end", Plain(history) PROVE HistoryLoad(file) = history
    BY DEF HistoryPersists
<1>1. PICK h : h = history
    OBVIOUS
<1>2. h \in Seq(Entry) /\ Len(h) <= history_max_len
    BY <1>1 DEF EditorInv, EditTypes, EditTypeOK
<1>3. \A i \in 1..Len(h) : Newline \notin Range(h[i]) /\ Len(h[i]) < buflen
    BY <1>1 DEF Plain
<1>4. \A i \in 1..Len(h) - 1 : h[i] # h[i + 1]
    BY <1>1 DEF Plain
<1>5. ASSUME NEW j \in 1..Len(h), NEW i \in 1..Len(h[j]) PROVE h[j][i] # Newline
    <2>1. h[j] \in Seq(Chars)
        BY <1>2, ElementOfSeq DEF Entry
    <2>2. i \in DOMAIN h[j]
        BY <2>1, LenProperties
    <2> QED
        BY <1>3, <2>2 DEF Range
<1>6. HistorySave(h) = h
    BY <1>2, <1>5, SavedPlain
<1>7. HistoryLoad(h) = h
    BY <1>2, <1>3, <1>4, LoadedPlain
<1> QED
    BY <1>1, <1>6, <1>7 DEF SavedInv

LEMMA NextSavedInv == SavedInv /\ [Next]_vars => SavedInv'
<1> SUFFICES ASSUME SavedInv, [Next]_vars, pc' = "end" PROVE file' = HistorySave(history')
    BY DEF SavedInv
<1>1. CASE Save
    BY <1>1 DEF Save, editVars, histVars
<1>2. CASE UNCHANGED vars
    BY <1>2 DEF SavedInv, vars, editVars, histVars, loopVars
<1>3. CASE Press \/ Lost \/ Call
    BY <1>3 DEF Press, Lost, Call, loopVars
<1>4. CASE Load \/ LoadDone \/ Accept
    BY <1>4 DEF Load, LoadDone, Accept
<1>5. CASE CountWord \/ CountDone
    BY <1>5 DEF CountWord, CountFrom, CountDone
<1>6. CASE CutWord \/ CutDone \/ Execute
    BY <1>6 DEF CutWord, CutWith, CutDone, Execute
<1> QED
    BY <1>1, <1>2, <1>3, <1>4, <1>5, <1>6 DEF Next, Loop

\* For any history, length of the buffer and number of entries: what
\* linenoiseHistoryLoad reads at the next start is the history that
\* linenoiseHistorySave wrote when the loop ended, unless an entry holds a
\* newline, fills the buffer or equals its neighbour.
THEOREM HistorySurvives == Spec => []HistoryPersists
<1>1. Init => SavedInv
    BY DEF Init, SavedInv
<1>2. SavedInv /\ [Next]_vars => SavedInv'
    BY NextSavedInv
<1>3. EditorInv /\ SavedInv => HistoryPersists
    BY PlainPersists
<1> QED
    BY <1>1, <1>2, <1>3, EditorInvHolds, PTL DEF Spec
=============================================================================
