----------------------------- MODULE MCSession -----------------------------
\* A small instance of Session.
EXTENDS Session

L(c, os) == [cmd |-> c, opts |-> os]
O(o, a) == [o |-> o, a |-> a]
N(o) == O(o, Null)

\* Two files with the same content, and one name that is only in one directory.
MCContent == [f \in {"home", "sub"} \X {"a", "b"} |->
                IF f = <<"sub", "b">> THEN Absent ELSE "x"]

\* A machine-id has 32 digits: users of one node have the same key; without
\* one the node is "unknow" and the keys differ.
MCMachineId == <<"m", "i">>
MCUnknow == <<"?">>
MCSpelling == [u \in {"u1", "u2"} |-> IF u = "u1" THEN <<"1">> ELSE <<"2", "2">>]

Reg(u) == L("user", <<N("r"), O("u", u), N("p")>>)
MCLines ==
    {Reg("u1"), Reg("u2"),
     L("user", <<N("r"), N("?")>>), L("user", <<N("r"), N("p")>>), L("user", <<N("r"), N("g")>>),
     L("user", <<N("g")>>),
     L("file", <<O("e", "a")>>), L("file", <<O("d", "a")>>),
     L("file", <<O("d", "a"), O("d", "b")>>),
     L("file", <<O("e", "a"), O("d", "b")>>), L("file", <<O("t", "a"), O("e", "b")>>),
     L("file", <<O("d", "a"), N("l")>>), L("file", <<N("l"), O("e", "a")>>),
     L("file", <<N("h"), O("e", "a")>>), L("file", <<>>),
     L("cd", <<O("arg", "sub")>>), L("cd", <<>>), L("other", <<>>)}
=============================================================================
