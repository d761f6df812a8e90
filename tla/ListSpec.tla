------------------------------ MODULE ListSpec ------------------------------
(***************************************************************************)
(* What adlist promises: lists are sequences of values, and every function *)
(* changes them in one step.                                               *)
(***************************************************************************)
EXTENDS Integers, Sequences, SequencesExt

CONSTANTS Lists, Values

VARIABLES
    exists,         \* the lists that were created and not released
    items           \* the values of each, from head to tail

vars == <<exists, items>>

Init == exists = {} /\ items = [l \in Lists |-> <<>>]

Create(l) == l \notin exists /\ exists' = exists \cup {l} /\ UNCHANGED items

\* listAddNodeHead, listAddNodeTail, listInsertNode.
Insert(l, i, v) ==
    /\ items' = [items EXCEPT ![l] = InsertAt(@, i, v)]
    /\ UNCHANGED exists

Delete(l, i) == items' = [items EXCEPT ![l] = RemoveAt(@, i)] /\ UNCHANGED exists

Rotate(l) ==
    /\ items[l] # <<>>
    /\ items' = [items EXCEPT ![l] = <<Last(@)>> \o Front(@)]
    /\ UNCHANGED exists

Join(l, o) ==
    /\ items' = [items EXCEPT ![l] = @ \o items[o], ![o] = <<>>]
    /\ UNCHANGED exists

Empty(l) == items' = [items EXCEPT ![l] = <<>>] /\ UNCHANGED exists
Release(l) == items' = [items EXCEPT ![l] = <<>>] /\ exists' = exists \ {l}

\* listDup, which may fail and then leaves nothing behind.
Dup(l, o) ==
    /\ o \notin exists /\ exists' = exists \cup {o}
    /\ items' = [items EXCEPT ![o] = items[l]]

Next ==
    \/ \E l \in Lists : Create(l)
    \/ \E l \in exists :
          \/ \E i \in 1..Len(items[l]) + 1, v \in Values : Insert(l, i, v)
          \/ \E i \in 1..Len(items[l]) : Delete(l, i)
          \/ Rotate(l) \/ Empty(l) \/ Release(l)
          \/ \E o \in exists \ {l} : Join(l, o)
          \/ \E o \in Lists \ {l} : Dup(l, o)

Spec == Init /\ [][Next]_vars
=============================================================================
