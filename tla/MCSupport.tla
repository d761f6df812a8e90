------------------------------ MODULE MCSupport ------------------------------
(***************************************************************************)
(* The parts the rest is built on: lists, page number lists, allocation,   *)
(* the store's directory, and of LMDB the reader table, the handles, the   *)
(* drop of a database and the copy of an environment.  They share nothing, *)
(* so that a behaviour is one of a single part.                            *)
(***************************************************************************)
EXTENDS AdList, Midl, LmdbReaders, LmdbDbi, LmdbDrop, LmdbCopy, Zmalloc, Mkdirp

CONSTANTS ka, kb    \* keys of the environment that is copied

VARIABLE part       \* the part that runs

Only(p, now) == part # p => now

SupportInit ==
    /\ part \in {"lists", "idl", "id2l", "readers", "handles", "drop", "copy", "zmalloc", "mkdirp"}
    /\ ListInit /\ MidlInit /\ ReadersInit /\ DbiInit /\ ZmallocInit
    /\ DropInit
    /\ Only("drop", md_root = (CHOOSE r \in Plain : TRUE) /\ ~cl.subs)
    /\ MkdirpInit
    /\ Only("mkdirp", dirs = {<<"/">>, <<".">>} /\ files = {})
    /\ CopyInit
    /\ Only("copy", cpflags = "none")

SupportNext ==
    \/ /\ part = "lists" /\ ListNext
       /\ UNCHANGED <<part, mvars, rvars, hvars, dvars, copyvars, zvars, kvars>>
    \/ /\ part = "idl" /\ MidlNext
       /\ UNCHANGED <<part, listvars, rvars, hvars, dvars, copyvars, zvars, kvars>>
    \/ /\ part = "id2l" /\ Mid2lNext
       /\ UNCHANGED <<part, listvars, rvars, hvars, dvars, copyvars, zvars, kvars>>
    \/ /\ part = "readers" /\ ReadersNext
       /\ UNCHANGED <<part, listvars, mvars, hvars, dvars, copyvars, zvars, kvars>>
    \/ /\ part = "handles" /\ DbiNext
       /\ UNCHANGED <<part, listvars, mvars, rvars, dvars, copyvars, zvars, kvars>>
    \/ /\ part = "drop" /\ DropNext
       /\ UNCHANGED <<part, listvars, mvars, rvars, hvars, copyvars, zvars, kvars>>
    \/ /\ part = "copy" /\ CopyNext
       /\ UNCHANGED <<part, listvars, mvars, rvars, hvars, dvars, zvars, kvars>>
    \/ /\ part = "zmalloc" /\ ZmallocNext
       /\ UNCHANGED <<part, listvars, mvars, rvars, hvars, dvars, copyvars, kvars>>
    \/ /\ part = "mkdirp" /\ MkdirpNext
       /\ UNCHANGED <<part, listvars, mvars, rvars, hvars, dvars, copyvars, zvars>>

svars == <<part, listvars, mvars, rvars, hvars, dvars, copyvars, zvars, kvars>>
Spec == SupportInit /\ [][SupportNext]_svars /\ CopyFairness

-----------------------------------------------------------------------------
(* LmdbDrop: trees of up to three levels, overflow pages in some leaves,   *)
(* sub-databases of up to three levels in others.                          *)
Leaves(n1, e) == {[leaf |-> TRUE, nodes |-> s] : s \in UNION {[1..k -> e] : k \in 1..n1}}
Branches(ns, kids) == {[leaf |-> FALSE, nodes |-> s] : s \in UNION {[1..k -> kids] : k \in ns}}
MCPlain ==
    LET two == Leaves(2, {DataNode, Big(1), Big(2)}) IN
    two \cup Branches({2}, two) \cup Branches({2, 3}, Branches({2}, Leaves(1, {DataNode, Big(1)})))
MCDupsort ==
    LET one == Leaves(1, {DataNode})
        subs == one \cup Branches({2}, one) \cup Branches({2}, Branches({2}, one))
        two == Leaves(2, {DataNode} \cup {Sub(r) : r \in subs})
    IN two \cup Branches({2}, two)
       \cup Branches({2}, Branches({2}, Leaves(1, {DataNode} \cup {Sub(r) : r \in one})))

(* LmdbCopy: a tree of three levels with overflow pages, a named database  *)
(* and an empty one; a single leaf page; an empty database.                *)
data == [t |-> "data"]
kid(p) == [t |-> "kid", p |-> p]
sub(p) == [t |-> "sub", p |-> p]
big(p, m) == [t |-> "big", p |-> p, n |-> m]
MCSrc ==
    <<  <<kid(2), kid(5)>>,
        <<kid(3), kid(4)>>,
        <<data, big(6, 3), big(7, 1)>>,
        <<sub(8), sub(0), data>>,
        <<kid(9), kid(10)>>,
        <<>>, <<>>,
        <<big(6, 2)>>,
        <<data>>,
        <<big(6, 1)>> >>

(* Mkdirp: relative, absolute, with separators at all places; "./a" is how *)
(* rkx names the directory of its store.                                   *)
MCPaths ==
    { <<".", "/", "a">>, <<"a", "/", "/", "b">>, <<"a", "/", "b", "/", "/">>, <<"b">>,
      <<"/", "/", "a">>, <<"/", "a", "/">>, <<"/">>, <<>> }
MCBefore == {{}, {<<".", "a">>}, {<<"/", "a">>}, {<<".", "b">>}}
=============================================================================
