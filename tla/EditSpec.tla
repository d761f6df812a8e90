------------------------------ MODULE EditSpec ------------------------------
(***************************************************************************)
(* What the line editor promises: a line is the text left and right of the *)
(* cursor, and every key changes these.                                    *)
(***************************************************************************)
EXTENDS Integers, Sequences, SequencesExt

CONSTANTS
    Chars, Space,
    Limit           \* longest line

VARIABLES left, right

vars == <<left, right>>

Init == left = <<>> /\ right = <<>>

Insert(c) ==
    /\ Len(left \o right) < Limit
    /\ left' = Append(left, c) /\ UNCHANGED right

Backspace == left # <<>> /\ left' = Front(left) /\ UNCHANGED right
Delete == right # <<>> /\ right' = Tail(right) /\ UNCHANGED left
Move == left' \o right' = left \o right
KillLine == left' = <<>> /\ right' = <<>>
KillEnd == right' = <<>> /\ UNCHANGED left

\* The characters around the cursor change places and the cursor moves on,
\* unless it would leave the last character.
Transpose ==
    /\ left # <<>> /\ right # <<>>
    /\ LET l == Append(Front(left), Head(right))
           r == <<Last(left)>> \o Tail(right) IN
       \/ Len(right) = 1 /\ left' = l /\ right' = r
       \/ Len(right) > 1 /\ left' = Append(l, Head(r)) /\ right' = Tail(r)

\* The last word left of the cursor goes, with the spaces behind it.
PrevWord ==
    LET letters == {i \in 1..Len(left) : left[i] # Space}
        spaces == {i \in 1..Len(left) : left[i] = Space
                                        /\ \E j \in letters : i < j} IN
    /\ left' = SubSeq(left, 1, IF letters = {} \/ spaces = {} THEN 0 ELSE Max(spaces))
    /\ UNCHANGED right

\* An entry of the history takes the place of the line.
Replace == right' = <<>> /\ left' \in BoundedSeq(Chars, Limit)

Next ==
    \/ \E c \in Chars : Insert(c)
    \/ Backspace \/ Delete \/ Move \/ KillLine \/ KillEnd
    \/ Transpose \/ PrevWord \/ Replace

Spec == Init /\ [][Next]_vars
=============================================================================
