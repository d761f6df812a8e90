------------------------------ MODULE LineEdit ------------------------------
(***************************************************************************)
(* Line editing and history of linenoise.c as rkx uses them: single line   *)
(* mode, no hints, a completion callback that completes nothing.  The edit *)
(* buffer is an array of bytes with length and cursor next to it.          *)
(***************************************************************************)
EXTENDS Integers, Sequences, SequencesExt, FiniteSets

CONSTANTS
    Chars,                  \* characters of a line
    Space, Newline,         \* two of them; Newline is Ctrl-J
    NUL, Junk,              \* end of string; uninitialised memory
    LINENOISE_MAX_LINE,
    history_max_len,
    PLen, Cols,             \* length of the prompt, width of the terminal
    MaxKeys                 \* bound: keys pressed

ASSUME LineEditAssumption ==
    /\ {Space, Newline} \subseteq Chars /\ Space # Newline
    /\ {NUL, Junk} \cap Chars = {} /\ NUL # Junk
    /\ LINENOISE_MAX_LINE \in Nat \ {0, 1, 2}
    /\ history_max_len \in Nat \ {0}
    /\ PLen \in Nat /\ Cols \in Nat /\ PLen < Cols /\ MaxKeys \in Nat

VARIABLES
    mode,           \* "off" or "edit" (in linenoiseEdit)
    buf, len, pos,  \* of linenoiseState
    history_index,
    history,        \* the entries, oldest first
    screen,         \* behind the prompt: text and column of the cursor
    ret,            \* how linenoise returned: see Finish; "none" if it did not
    line,           \* the string it returned
    typed,          \* history: the line when the user began to browse
    before,         \* history: the history before this call
    edited,         \* history: the line was changed in this call
    keys

bufVars == <<buf, len, pos>>
histVars == <<history_index, history, typed>>
callVars == <<mode, ret, line, before>>
editVars == <<bufVars, histVars, callVars, screen, edited, keys>>

buflen == LINENOISE_MAX_LINE - 1
Keys == Chars \cup {NUL}        \* what a key inserts; NUL is Ctrl-Space
Bytes == Keys \cup {Junk}

-----------------------------------------------------------------------------
(* Strings in memory.                                                      *)

\* A byte is written; count bytes are moved.  Writing behind the array makes
\* it longer, which TypeOK rules out.
Set(b, i, c) == [j \in DOMAIN b \cup {i} |-> IF j = i THEN c ELSE b[j]]
Memmove(b, dst, src, count) ==
    [i \in DOMAIN b \cup (dst..dst + count - 1) |->
        IF i \in dst..dst + count - 1 THEN b[src + i - dst] ELSE b[i]]

\* The n bytes from i on, as a sequence.
Piece(b, i, n) == [j \in 1..n |-> b[i + j - 1]]

\* strlen and strdup.
StrLen(b) == Min({i \in DOMAIN b : b[i] = NUL})
Str(b) == [i \in 1..StrLen(b) |-> b[i - 1]]

\* strncpy(b, s, buflen), then b[buflen - 1] = NUL.
StrNCpy(b, s) ==
    [i \in DOMAIN b |-> CASE i < buflen - 1 /\ i < Len(s) -> s[i + 1]
                          [] i < buflen /\ (i >= Len(s) \/ i = buflen - 1) -> NUL
                          [] OTHER -> b[i]]

\* refreshSingleLine: the part of the line that fits, so that the cursor is
\* on the screen.
Refreshed(b, n, p) ==
    LET off == IF PLen + p >= Cols THEN PLen + p - Cols + 1 ELSE 0
        shown == Min({n - off, Cols - PLen}) IN
    [text |-> Piece(b, off, shown), cursor |-> PLen + p - off]

-----------------------------------------------------------------------------
(* History.                                                                *)

\* linenoiseHistoryAdd: no duplicate of the last entry, and the oldest entry
\* makes room.  The mutated form adds no duplicate at all.
HistoryAddUnless(h, s, duplicate) ==
    IF duplicate THEN h
    ELSE Append(IF Len(h) = history_max_len THEN Tail(h) ELSE h, s)
HistoryAddOnce(h, s) == HistoryAddUnless(h, s, s \in Range(h))
HistoryAdd(h, s) == HistoryAddUnless(h, s, h # <<>> /\ Last(h) = s)

\* linenoiseHistorySave writes each entry and a newline; a newline inside an
\* entry makes two lines of it.
CutAtNewline(ls, c) ==
    IF c = Newline THEN Append(ls, <<>>)
    ELSE Front(ls) \o <<Append(Last(ls), c)>>
LinesOf(s) ==
    LET cut[i \in 0..Len(s)] == IF i = 0 THEN <<<<>>>> ELSE CutAtNewline(cut[i - 1], s[i])
    IN cut[Len(s)]
HistorySave(h) ==
    LET saved[i \in 0..Len(h)] == IF i = 0 THEN <<>> ELSE saved[i - 1] \o LinesOf(h[i])
    IN saved[Len(h)]

\* linenoiseHistoryLoad: a line that fills fgets' buffer leaves its newline to
\* the next fgets, which reads an empty line.
LoadLine(h, s) ==
    IF Len(s) < buflen THEN HistoryAdd(h, s) ELSE HistoryAdd(HistoryAdd(h, s), <<>>)
HistoryLoad(lines) ==
    LET loaded[i \in 0..Len(lines)] == IF i = 0 THEN <<>> ELSE LoadLine(loaded[i - 1], lines[i])
    IN loaded[Len(lines)]

-----------------------------------------------------------------------------
(* linenoiseRaw, linenoiseEdit.                                            *)

EditInit ==
    /\ mode = "off" /\ ret = "none" /\ line = <<>> /\ before = <<>>
    /\ buf = [i \in 0..LINENOISE_MAX_LINE - 1 |-> Junk] /\ len = 0 /\ pos = 0
    /\ history_index = 0 /\ typed = <<>>
    /\ screen = [text |-> <<>>, cursor |-> PLen]
    /\ edited = FALSE /\ keys = 0

\* The current buffer becomes the latest entry of the history.
BeginEdit ==
    /\ mode = "off" /\ mode' = "edit"
    /\ buf' = [i \in 0..LINENOISE_MAX_LINE - 1 |-> IF i = 0 THEN NUL ELSE Junk]
    /\ len' = 0 /\ pos' = 0 /\ history_index' = 0
    /\ history' = HistoryAdd(history, <<>>)
    /\ before' = history
    /\ screen' = [text |-> <<>>, cursor |-> PLen]
    /\ ret' = "none" /\ line' = <<>> /\ typed' = <<>> /\ edited' = FALSE
    /\ UNCHANGED keys

\* enableRawMode fails and linenoise returns NULL at once.
NoRawMode ==
    /\ mode = "off" /\ ret' = "noraw" /\ line' = <<>>
    /\ UNCHANGED <<bufVars, histVars, mode, before, screen, edited, keys>>

Key == mode = "edit" /\ keys < MaxKeys /\ keys' = keys + 1

\* A key that changes the buffer ends in refreshLine.
Redraw(b, n, p) ==
    /\ Key /\ buf' = b /\ len' = n /\ pos' = p
    /\ screen' = Refreshed(b, n, p)
    /\ UNCHANGED callVars
Edit(b, n, p) == Redraw(b, n, p) /\ edited' = TRUE /\ UNCHANGED histVars
MoveTo(p) == p # pos /\ Redraw(buf, len, p) /\ UNCHANGED <<histVars, edited>>

\* A key that does nothing.
Ignored == Key /\ UNCHANGED <<bufVars, histVars, callVars, screen, edited>>

\* linenoiseEditInsert at the end of the line: if the line still fits, the
\* character alone is written.  The mutated form is off by one in its width.
InsertEndIf(c, fits) ==
    LET b == Set(Set(buf, pos, c), len + 1, NUL) IN
    /\ pos = len /\ len < buflen
    /\ Key /\ buf' = b /\ len' = len + 1 /\ pos' = pos + 1
    /\ screen' = IF fits
                 THEN [text |-> Append(screen.text, c), cursor |-> screen.cursor + 1]
                 ELSE Refreshed(b, len + 1, pos + 1)
    /\ edited' = TRUE
    /\ UNCHANGED <<histVars, callVars>>
InsertEndTooWide(c) == InsertEndIf(c, PLen + len + 1 <= Cols)
InsertEnd(c) == InsertEndIf(c, PLen + len + 1 < Cols)

\* ... and before its end.  The mutated form moves one byte too few.
InsertMiddleWith(c, count) ==
    /\ pos < len /\ len < buflen
    /\ Edit(Set(Set(Memmove(buf, pos + 1, pos, count), pos, c), len + 1, NUL),
            len + 1, pos + 1)
InsertMiddleShort(c) == InsertMiddleWith(c, len - pos - 1)
InsertMiddle(c) == InsertMiddleWith(c, len - pos)

\* The buffer is full.
InsertFull == len >= buflen /\ Ignored

\* linenoiseEditBackspace.
Backspace ==
    /\ pos > 0 /\ len > 0
    /\ Edit(Set(Memmove(buf, pos - 1, pos, len - pos), len - 1, NUL), len - 1, pos - 1)

\* linenoiseEditDelete: the delete key, or Ctrl-D.
Delete ==
    /\ pos < len
    /\ Edit(Set(Memmove(buf, pos, pos + 1, len - pos - 1), len - 1, NUL), len - 1, pos)

\* Ctrl-T.
Transpose ==
    /\ pos > 0 /\ pos < len
    /\ Edit(Set(Set(buf, pos - 1, buf[pos]), pos, buf[pos - 1]), len,
            IF pos # len - 1 THEN pos + 1 ELSE pos)

\* Ctrl-U and Ctrl-K.
KillLine == Edit(Set(buf, 0, NUL), 0, 0)
KillEnd == Edit(Set(buf, pos, NUL), pos, pos)

\* linenoiseEditDeletePrevWord (Ctrl-W): back over spaces, then over a word.
BackOver(p, S) ==
    LET stops == {i \in 1..p : buf[i - 1] \notin S} IN
    IF stops = {} THEN 0 ELSE Max(stops)
DeletePrevWord ==
    LET p == BackOver(BackOver(pos, {Space}), Bytes \ {Space}) IN
    Edit(Memmove(buf, p, pos, len - pos + 1), len - (pos - p), p)

MoveLeft == pos > 0 /\ MoveTo(pos - 1)
MoveRight == pos # len /\ MoveTo(pos + 1)
MoveHome == MoveTo(0)
MoveEnd == MoveTo(len)

\* linenoiseEditHistoryNext: the line goes into the entry it came from and the
\* next one is shown.  The mutated form stores it after the move.
At(i) == Len(history) - i
HistoryNextAs(d, storeAt) ==
    LET i == history_index + d
        h == [history EXCEPT ![storeAt] = Str(buf)]
        b == StrNCpy(buf, h[At(i)]) IN
    /\ Len(history) > 1 /\ i \in 0..Len(history) - 1
    /\ history' = h /\ history_index' = i
    /\ typed' = IF history_index = 0 THEN Str(buf) ELSE typed
    /\ Redraw(b, StrLen(b), StrLen(b))
    /\ UNCHANGED edited
HistoryNextLate(d) == HistoryNextAs(d, At(history_index + d))
HistoryNext(d) == HistoryNextAs(d, At(history_index))

\* At either end of the history only the entry is stored.
HistoryEnd(d) ==
    /\ Len(history) > 1 /\ history_index + d \notin 0..Len(history) - 1
    /\ history' = [history EXCEPT ![At(history_index)] = Str(buf)]
    /\ typed' = IF history_index = 0 THEN Str(buf) ELSE typed
    /\ Key /\ UNCHANGED <<bufVars, history_index, callVars, screen, edited>>

\* Keys without effect: Tab, which completes nothing, unknown escape
\* sequences, and moves and deletions at an end of the line.  Ctrl-L redraws.
Nothing == Ignored

\* linenoise returns.  With "line" and "hangup" it returns what is in the
\* buffer, else NULL.
Finish(r, h) ==
    /\ mode' = "off" /\ ret' = r /\ history' = h
    /\ line' = IF r \in {"line", "hangup"} THEN Str(buf) ELSE <<>>
    /\ UNCHANGED <<bufVars, history_index, typed, screen, before, edited>>

\* Enter, and Ctrl-D on an empty line: the latest entry goes again.
Enter == Key /\ Finish("line", Front(history))
EndOfFile == len = 0 /\ Key /\ Finish("eof", Front(history))

\* Ctrl-C leaves it, and so does a terminal that cannot be written or read.
\* (If the input ends inside an escape sequence, its missing bytes are
\* uninitialised; what the sequence then does is one of the keys.)
Interrupt == Key /\ Finish("intr", history)
Hangup == mode = "edit" /\ Finish("hangup", history) /\ UNCHANGED keys

EditKey ==
    /\ mode = "edit"
    /\ \/ \E c \in Keys : InsertEnd(c) \/ InsertMiddle(c)
       \/ InsertFull \/ Nothing
       \/ Backspace \/ Delete \/ Transpose \/ KillLine \/ KillEnd \/ DeletePrevWord
       \/ MoveLeft \/ MoveRight \/ MoveHome \/ MoveEnd
       \/ \E d \in {1, -1} : HistoryNext(d) \/ HistoryEnd(d)
       \/ Enter \/ EndOfFile \/ Interrupt

-----------------------------------------------------------------------------
(* Properties.                                                             *)

EditTypeOK ==
    /\ mode \in {"off", "edit"}
    /\ buf \in [0..LINENOISE_MAX_LINE - 1 -> Bytes]
    /\ len \in 0..buflen /\ pos \in 0..len
    /\ history_index \in Nat /\ keys \in 0..MaxKeys
    /\ Len(history) <= history_max_len
    /\ edited \in BOOLEAN

\* The buffer is a string of len characters whenever a key has been handled,
\* so that what linenoise returns is what was edited (up to the first NUL
\* key), and nothing of it is uninitialised memory.
Terminated ==
    mode = "edit" => /\ buf[len] = NUL
                     /\ \A i \in 0..len - 1 : buf[i] \in Keys

\* The entry that is edited exists, and the line the user typed before
\* browsing is the latest entry of the history until linenoise returns.
TypedLineKept ==
    mode = "edit" => /\ history_index < Len(history)
                     /\ history_index # 0 => Last(history) = typed

\* The terminal shows what a full refresh would show: writing one character
\* only is never visible.
ScreenRight == mode = "edit" => screen = Refreshed(buf, len, pos)

\* Entering a line, or Ctrl-D, leaves the history as it was before the call
\* if the user only browsed, but for the empty entry at its end and, when the
\* history was full, the oldest one.
Kept(h) ==
    IF h # <<>> /\ Last(h) = <<>> THEN Front(h)
    ELSE IF Len(h) = history_max_len THEN Tail(h) ELSE h
ShortEntries == \A i \in 1..Len(before) : Len(before[i]) < buflen
HistoryKept ==
    ret \in {"line", "eof"} /\ ~edited /\ ShortEntries => history = Kept(before)

\* The keys do to the text around the cursor what EditSpec says.
Text == INSTANCE EditSpec WITH
    Chars <- Keys, Limit <- buflen,
    left <- Piece(buf, 0, pos),
    right <- Piece(buf, pos, len - pos)
KeysEdit == Text!Spec
=============================================================================
