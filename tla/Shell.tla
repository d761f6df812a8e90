------------------------------- MODULE Shell -------------------------------
(***************************************************************************)
(* The shell loop of rkx.c: lines come from the editor of LineEdit, are    *)
(* split into arguments in place and looked up in the table of commands.   *)
(* What a command does is the subject of Session.                          *)
(***************************************************************************)
EXTENDS LineEdit

CONSTANTS
    Slash,          \* a character: lines that begin with it are not commands
    Histories,      \* contents of ./history at the start
    Commands,       \* names of commands, as sequences of characters
    ArgcMod         \* argc counts modulo this: an int, for 4095 characters

ASSUME ShellAssumption ==
    /\ Slash \in Chars \ {Space, Newline}
    /\ ArgcMod \in Nat \ {0} /\ buflen < ArgcMod
    /\ Histories \subseteq Seq(Seq(Chars \ {Newline}))
    /\ \A f \in Histories : \A i \in 1..Len(f) : Len(f[i]) <= buflen

VARIABLES
    pc,             \* "load", "read", "count", "cut", "execute", "save", "end",
                    \* "unsaved"
    text,           \* the line being split
    at,             \* position in it, from 1; Len + 1 is the NUL.  At first
                    \* the line of the file that is loaded next
    argc, argv,     \* argv: positions where the arguments begin
    cmd,            \* the command found
    file            \* ./history, a sequence of lines

loopVars == <<pc, text, at, argc, argv, cmd, file>>
vars == <<editVars, loopVars>>

Init ==
    /\ EditInit /\ history = <<>>
    /\ file \in Histories
    /\ pc = "load" /\ text = <<>> /\ at = 1 /\ argc = 0 /\ argv = <<>> /\ cmd = <<>>

\* kx_loop: linenoiseHistoryLoad reads ./history line by line.
Load ==
    /\ pc = "load" /\ at <= Len(file)
    /\ history' = LoadLine(history, file[at]) /\ at' = at + 1
    /\ UNCHANGED <<bufVars, callVars, history_index, typed, screen, edited, keys, pc, text,
                   argc, argv, cmd, file>>

\* The end of the file, or fopen fails.
LoadDone ==
    /\ pc = "load" /\ at \in {1, Len(file) + 1}
    /\ pc' = "read" /\ at' = 1
    /\ UNCHANGED <<editVars, text, argc, argv, cmd, file>>

\* linenoise is called, and a key is pressed.
Call == pc = "read" /\ ret = "none" /\ (BeginEdit \/ NoRawMode) /\ UNCHANGED loopVars
Press == pc = "read" /\ EditKey /\ UNCHANGED loopVars
Lost == pc = "read" /\ Hangup /\ UNCHANGED loopVars

\* A line is back.  NULL ends the loop; an empty line, or one that begins
\* with a slash, is not split.
Accept ==
    /\ pc = "read" /\ mode = "off" /\ ret # "none"
    /\ pc' = IF ret \notin {"line", "hangup"} THEN "save"
             ELSE IF line = <<>> \/ Head(line) = Slash THEN "read"
             ELSE "count"
    /\ ret' = "none"
    /\ text' = line /\ at' = 1 /\ argc' = 0 /\ argv' = <<>> /\ cmd' = <<>>
    /\ UNCHANGED <<bufVars, histVars, mode, line, before, screen, edited, keys, file>>

-----------------------------------------------------------------------------
(* split_str.                                                              *)

\* The first position from i on that holds a byte of S, or the NUL.
FirstOf(s, i, S) == Min({j \in i..Len(s) : s[j] \in S} \cup {Len(s) + 1})
FirstIn(i, S) == FirstOf(text, i, S)
Visible == (Chars \cup {NUL}) \ {Space}
WordStart == FirstIn(at, Visible)
WordEnd == FirstIn(WordStart, {Space, Newline, NUL})

\* First pass: arguments are counted.  At a newline it does not get on.  The
\* mutated form does not skip spaces.
CountFrom(s, e) ==
    /\ pc = "count" /\ at <= Len(text)
    /\ argc' = IF s <= Len(text) THEN (argc + 1) % ArgcMod ELSE argc
    /\ at' = e
    /\ UNCHANGED <<editVars, pc, text, argv, cmd, file>>
CountWordNoSkip == CountFrom(at, FirstIn(at, {Space, Newline, NUL}))
CountWord == CountFrom(WordStart, WordEnd)

CountDone ==
    /\ pc = "count" /\ at = Len(text) + 1
    /\ pc' = IF argc = 0 THEN "read" ELSE "cut"
    /\ at' = 1
    /\ UNCHANGED <<editVars, text, argc, argv, cmd, file>>

\* Second pass: arguments are noted, and the byte behind each becomes NUL.
\* The mutated form leaves it.
CutWith(c) ==
    /\ pc = "cut" /\ Len(argv) < argc /\ at <= Len(text)
    /\ argv' = IF WordStart <= Len(text) THEN Append(argv, WordStart) ELSE argv
    /\ IF WordEnd <= Len(text)
       THEN text' = [text EXCEPT ![WordEnd] = c] /\ at' = WordEnd + 1
       ELSE at' = WordEnd /\ UNCHANGED text
    /\ UNCHANGED <<editVars, pc, argc, cmd, file>>
CutWordOpen == CutWith(Space)
CutWord == CutWith(NUL)

\* The string that begins at i.
Arg(i) == SubSeq(text, i, FirstIn(i, {NUL}) - 1)

\* get_cmd finds the command by argv[0], or nothing.
CutDone ==
    /\ pc = "cut" /\ ~(Len(argv) < argc /\ at <= Len(text))
    /\ pc' = "execute"
    /\ cmd' = IF Arg(argv[1]) \in Commands THEN Arg(argv[1]) ELSE <<>>
    /\ UNCHANGED <<editVars, text, at, argc, argv, file>>

Execute ==
    /\ pc = "execute" /\ pc' = "read"
    /\ UNCHANGED <<editVars, text, at, argc, argv, cmd, file>>

\* What a full disk keeps of some lines.
CutShort(s) ==
    {SubSeq(s, 1, i) : i \in 0..Len(s) - 1}
        \cup UNION {{Append(SubSeq(s, 1, i - 1), SubSeq(s[i], 1, n)) : n \in 1..Len(s[i])} :
                    i \in 1..Len(s)}

\* linenoiseHistorySave.  When fopen fails the file stays as it was; what
\* fprintf and fclose return is not looked at.
Save ==
    /\ pc = "save"
    /\ \/ pc' = "end" /\ file' = HistorySave(history)
       \/ pc' = "unsaved" /\ file' \in {file} \cup CutShort(HistorySave(history))
    /\ UNCHANGED <<editVars, text, at, argc, argv, cmd>>

-----------------------------------------------------------------------------
Loop ==
    \/ Load \/ LoadDone \/ Call \/ Accept \/ CountWord \/ CountDone \/ CutWord \/ CutDone
    \/ Execute \/ Save
Next == Loop \/ Press \/ Lost

Spec == Init /\ [][Next]_vars

\* The main thread runs; the user need not press a key.
FairSpec == Spec /\ WF_vars(Loop)

-----------------------------------------------------------------------------
(* Properties.                                                             *)

TypeOK ==
    /\ EditTypeOK
    /\ pc \in {"load", "read", "count", "cut", "execute", "save", "end", "unsaved"}
    /\ at \in 1..Len(IF pc = "load" THEN file ELSE text) + 1 /\ argc \in 0..ArgcMod - 1
    /\ \A i \in 1..Len(argv) : argv[i] \in 1..Len(text)

\* Whatever keys are pressed: the buffer is a string within its bounds, the
\* line that was typed survives browsing, and so does the history.
EditorSound == TypeOK /\ Terminated /\ TypedLineKept /\ HistoryKept

\* The arguments of a command are the words of the line that was entered, all
\* of them and in order, although they are cut out of it in place: a word is
\* what stands between spaces (split_str).
Begins(s) == {i \in 1..Len(s) : s[i] # Space /\ (i = 1 \/ s[i - 1] = Space)}
Word(s, i) == SubSeq(s, i, FirstOf(s, i, {Space}) - 1)
SplitRight ==
    pc = "execute" =>
        /\ argc = Len(argv) /\ {argv[i] : i \in 1..argc} = Begins(line)
        /\ \A i, j \in 1..argc : i < j => argv[i] < argv[j]
        /\ \A i \in 1..argc : Arg(argv[i]) = Word(line, argv[i])

\* Splitting comes to an end, unless the line holds a newline (Ctrl-J), with
\* which split_str never returns.
HasNewline == Newline \in Range(line)
SplitEnds == (pc = "count") ~> (pc \in {"read", "execute"} \/ HasNewline)

\* What the next start loads is the history that was saved as a whole, if no
\* entry holds a newline or fills the buffer and none equals its neighbour.
Plain(h) ==
    /\ \A i \in 1..Len(h) : Newline \notin Range(h[i]) /\ Len(h[i]) < buflen
    /\ \A i \in 1..Len(h) - 1 : h[i] # h[i + 1]
HistoryPersists == pc = "end" /\ Plain(history) => HistoryLoad(file) = history
=============================================================================
