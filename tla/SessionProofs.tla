--------------------------- MODULE SessionProofs ---------------------------
(***************************************************************************)
(* Proofs about Session for any users, files, directories, command lines   *)
(* and numbers of lines and starts.                                        *)
(***************************************************************************)
EXTENDS Session, FiniteSetTheorems, TLAPS

-----------------------------------------------------------------------------
(* Crashes.                                                                *)

\* Name and password are there, or the check that asks for them was skipped.
Excused == {"u", "p"} \subseteq flags \/ invalid \/ "g" \in flags

\* The check is made while parsing; a registration relies on it two steps
\* later.  Each place in a command belongs to the command and the options that
\* lead there.
CrashInv ==
    /\ pc = "dispatch" /\ line.cmd = "user" /\ ret = 0 /\ "r" \in flags => Excused
    /\ pc \in {"node_set", "register"} => line.cmd = "user" /\ Excused
    /\ pc \in {"crypt", "send", "store"} => line.cmd = "file" /\ "e" \in flags
    /\ pc = "decrypt" => line.cmd = "file" /\ "d" \in flags
    /\ pc = "list" => line.cmd = "file" /\ "l" \in flags
    /\ CrashExplained

LEMMA CrashInit == Init => CrashInv
BY DEF Init, CrashInv, CrashExplained

LEMMA CrashStep == CrashInv /\ [Next]_vars => CrashInv'
<1> SUFFICES ASSUME CrashInv, [Next]_vars PROVE CrashInv'
    OBVIOUS
<1> USE DEF CrashInv, CrashExplained, Excused, parser, client, env, bounds, sysVars
<1>1. CASE Enter
    BY <1>1 DEF Enter, EnterWith
<1>2. CASE ParseMode
    BY <1>2 DEF ParseMode, MoreOptions, Opt, Take, Reject, FileModes
<1>3. CASE ParseUser
    BY <1>3 DEF ParseUser, ParseUserAt, MoreOptions, Opt, Take
<1>4. CASE ParseLast
    BY <1>4 DEF ParseLast, MoreOptions, Opt, Take
<1>5. CASE ParseUnknown
    BY <1>5 DEF ParseUnknown, MoreOptions, Opt, Reject
<1>6. CASE ParseEnd
    BY <1>6 DEF ParseEnd, ParseEndIf, PairMissing
<1>7. CASE Dispatch
    BY <1>7 DEF Dispatch
<1>8. CASE NodeSet \/ RegSend \/ UserGet
    BY <1>8 DEF NodeSet, RegSend, UserGet, Goto
<1>9. CASE Register
    BY <1>9 DEF Register, Crash, Goto
<1>10. CASE CryptRefused \/ CryptNoUser \/ Crypt
    BY <1>10 DEF CryptRefused, CryptNoUser, Crypt, Crash, Goto
<1>11. CASE Send
    BY <1>11 DEF Send, Goto
<1>12. CASE Decrypt \/ List
    BY <1>12 DEF Decrypt, List, Crash, Goto
<1>13. CASE Cd \/ Exit \/ Start
    BY <1>13 DEF Cd, Exit, Start
<1>14. CASE Store \/ StoreFails
    BY <1>14 DEF Store, StoreFails, Unlocked, Goto
<1>15. CASE StoreCrash
    BY <1>15 DEF StoreCrash, Unlocked, Crash
<1>16. CASE RedisSilent \/ OtherHolds
    BY <1>16 DEF RedisSilent, OtherHolds
<1>17. CASE UNCHANGED vars
    BY <1>17 DEF vars
<1> QED
    BY <1>1, <1>2, <1>3, <1>4, <1>5, <1>6, <1>7, <1>8, <1>9, <1>10, <1>11,
       <1>12, <1>13, <1>14, <1>15, <1>16, <1>17 DEF Next, Command

\* The program dereferences a NULL pointer only in "file" without a user or a
\* store, in an insertion into an environment whose last commit could not
\* write its meta page, or in a registration without name or password whose
\* options skipped the check of parse_options.
THEOREM CrashesExplained == Spec => []CrashExplained
<1>1. CrashInv => CrashExplained
    BY DEF CrashInv
<1> QED
    BY <1>1, CrashInit, CrashStep, PTL DEF Spec

-----------------------------------------------------------------------------
(* Local and remote records.                                               *)

RemoteUuids == {q.uuid : q \in remote} \cup lost

\* Between the HMSET and the local insertion the record is already remote, or
\* its loss is known.
RemoteInv ==
    /\ LocalImpliesRemote
    /\ pc = "store" => kf.uuid \in RemoteUuids

\* A record replaces only one with the same uuid.
LEMMA PutRemoteKeeps ==
    ASSUME NEW s, NEW r
    PROVE  {q.uuid : q \in PutRemote(s, r)} = {q.uuid : q \in s} \cup {r.uuid}
<1>1. ASSUME NEW u \in {q.uuid : q \in PutRemote(s, r)}
      PROVE  u \in {q.uuid : q \in s} \cup {r.uuid}
    BY <1>1 DEF PutRemote
<1>2. ASSUME NEW u \in {q.uuid : q \in s}
      PROVE  u \in {q.uuid : q \in PutRemote(s, r)}
  <2>1. PICK q \in s : u = q.uuid
    BY <1>2
  <2>2. CASE u = r.uuid
    <3>1. r \in PutRemote(s, r)
      BY DEF PutRemote
    <3> QED
      BY <2>2, <3>1
  <2>3. CASE u # r.uuid
    <3>1. q \in PutRemote(s, r)
      BY <2>1, <2>3 DEF PutRemote
    <3> QED
      BY <2>1, <3>1
  <2> QED
    BY <2>2, <2>3
<1>3. r.uuid \in {q.uuid : q \in PutRemote(s, r)}
  <2>1. r \in PutRemote(s, r)
    BY DEF PutRemote
  <2> QED
    BY <2>1
<1> QED
    BY <1>1, <1>2, <1>3

LEMMA RemoteInit == Init => RemoteInv
BY DEF Init, RemoteInv, LocalImpliesRemote

\* The step in which the HMSET is executed or lost.
LEMMA SendStep == RemoteInv /\ Send => RemoteInv'
<1> SUFFICES ASSUME RemoteInv, Send PROVE RemoteInv'
    OBVIOUS
<1>1. kf.uuid \in RemoteUuids' /\ RemoteUuids \subseteq RemoteUuids'
  <2>1. CASE Executed /\ UNCHANGED lost
             /\ remote' = PutRemote(remote, [uuid |-> kf.uuid, path |-> kf.path, user |-> user])
    <3> DEFINE r == [uuid |-> kf.uuid, path |-> kf.path, user |-> user]
    <3>1. {q.uuid : q \in remote'} = {q.uuid : q \in remote} \cup {r.uuid}
      BY <2>1, PutRemoteKeeps
    <3>2. r.uuid = kf.uuid
      OBVIOUS
    <3> QED
      BY <2>1, <3>1, <3>2 DEF RemoteUuids
  <2>2. CASE NotExecuted /\ UNCHANGED remote /\ lost' = lost \cup {kf.uuid}
    BY <2>2 DEF RemoteUuids
  <2> QED
    BY <2>1, <2>2 DEF Send
<1>2. UNCHANGED <<kf, store>>
    BY DEF Send, Goto, client
<1> QED
    BY <1>1, <1>2 DEF RemoteInv, LocalImpliesRemote, RemoteUuids

\* The step that inserts the local record.
LEMMA StoreStep == RemoteInv /\ Store => RemoteInv'
<1> SUFFICES ASSUME RemoteInv, Store PROVE RemoteInv'
    OBVIOUS
<1>1. UNCHANGED <<remote, lost>> /\ pc' # "store" /\ kf.uuid \in RemoteUuids
    BY DEF Store, Unlocked, Goto, RemoteInv
<1>2. SUFFICES ASSUME NEW r \in store' PROVE r.uuid \in RemoteUuids
    BY <1>1 DEF RemoteInv, LocalImpliesRemote, RemoteUuids
<1>3. r \in store \/ r = [db |-> db, uuid |-> kf.uuid, path |-> kf.path]
    BY DEF Store, PutStore
<1> QED
    BY <1>1, <1>3 DEF RemoteInv, LocalImpliesRemote, RemoteUuids

LEMMA RemoteStep == RemoteInv /\ [Next]_vars => RemoteInv'
<1> SUFFICES ASSUME RemoteInv, [Next]_vars PROVE RemoteInv'
    OBVIOUS
<1>1. CASE Send
    BY <1>1, SendStep
<1>2. CASE Store
    BY <1>2, StoreStep
<1>3. CASE UNCHANGED <<remote, lost, store>> /\ (pc' # "store" \/ UNCHANGED <<pc, kf>>)
    BY <1>3 DEF RemoteInv, LocalImpliesRemote, RemoteUuids
<1> USE DEF parser, client, bounds, sysVars
<1>4. CASE Enter
    BY <1>3, <1>4 DEF Enter, EnterWith
<1>5. CASE ParseMode \/ ParseUser \/ ParseLast \/ ParseUnknown \/ ParseEnd
    BY <1>3, <1>5 DEF ParseMode, ParseUser, ParseUserAt, ParseLast, ParseUnknown,
                      ParseEnd, ParseEndIf, Take, Reject
<1>6. CASE Dispatch
    BY <1>3, <1>6 DEF Dispatch
<1>7. CASE NodeSet \/ Register \/ RegSend \/ UserGet
    BY <1>3, <1>7 DEF NodeSet, Register, RegSend, UserGet, Crash, Goto
<1>8. CASE CryptRefused \/ CryptNoUser \/ Crypt \/ Decrypt \/ List
    BY <1>3, <1>8 DEF CryptRefused, CryptNoUser, Crypt, Decrypt, List, Crash, Goto
<1>9. CASE Cd \/ Exit \/ Start
    BY <1>3, <1>9 DEF Cd, Exit, Start
<1>10. CASE StoreCrash \/ StoreFails \/ OtherHolds \/ RedisSilent
    BY <1>3, <1>10 DEF StoreCrash, StoreFails, OtherHolds, RedisSilent, Crash, Goto
<1>11. CASE UNCHANGED vars
    BY <1>3, <1>11 DEF vars
<1> QED
    BY <1>1, <1>2, <1>4, <1>5, <1>6, <1>7, <1>8, <1>9, <1>10, <1>11 DEF Next, Command

\* A record of the local store has its counterpart in redis, or the HMSET for
\* it was not executed: whatever fails and whenever the program is killed
\* between the two insertions of file_encrypt.
THEOREM LocalRecordsRemote == Spec => []LocalImpliesRemote
<1>1. RemoteInv => LocalImpliesRemote
    BY DEF RemoteInv
<1> QED
    BY <1>1, RemoteInit, RemoteStep, PTL DEF Spec

-----------------------------------------------------------------------------
(* Types.                                                                  *)

\* The word v is w up to its last step, which may be the new step a.
Follows(v, w, a) ==
    \A i \in 1..Len(v) :
        \/ i \in 1..Len(w) /\ v[i] = w[i] /\ SubSeq(v, 1, i) = SubSeq(w, 1, i)
        \/ i = Len(v) /\ v[i] = a

\* A word grows or shrinks at its end, and only an encryption puts a 1 there.
LEMMA AesPrefix ==
    ASSUME NEW K, NEW w \in Seq(K \X Signs), NEW k \in K, NEW s \in Signs
    PROVE  Aes(w, k, s) \in Seq(K \X Signs) /\ Follows(Aes(w, k, s), w, <<k, s>>)
<1>1. CASE w # <<>> /\ Last(w) = <<k, -s>>
  <2>1. Aes(w, k, s) = SubSeq(w, 1, Len(w) - 1)
    BY <1>1 DEF Aes, Front
  <2> QED
    BY <1>1, <2>1 DEF Follows
<1>2. CASE ~(w # <<>> /\ Last(w) = <<k, -s>>)
  <2>1. Aes(w, k, s) = Append(w, <<k, s>>)
    BY <1>2 DEF Aes
  <2>2. <<k, s>> \in K \X Signs
    OBVIOUS
  <2>3. ASSUME NEW i \in 1..Len(w)
        PROVE  SubSeq(Append(w, <<k, s>>), 1, i) = SubSeq(w, 1, i)
    BY <2>2
  <2> QED
    BY <2>1, <2>2, <2>3 DEF Follows
<1> QED
    BY <1>1, <1>2

\* The state of the parser holds arguments of the right kind.
ArgumentTypes ==
    /\ flags \cap FileModes # {} => sfile \in Names
    /\ "u" \in flags => sname \in Users
    /\ pc = "reg_send" => user \in Users
    /\ pc = "parse" => line \in Lines

\* TypeOK, and what a step needs to know besides to keep it.
Types ==
    /\ TypeOK /\ ArgumentTypes
    /\ disk \in [File -> Seq(Keys \X Signs)]

\* What getopt_long returns next.
LEMMA OptionType ==
    ASSUME Types, MoreOptions
    PROVE  /\ line \in Lines
           /\ line.cmd = "file" /\ Opt.o \in FileModes => Opt.a \in Names
           /\ line.cmd = "user" /\ Opt.o = "u" => Opt.a \in Users
BY OptionArguments DEF Types, TypeOK, ArgumentTypes, MoreOptions, Opt, FileModes

\* What the proofs use of the assumptions on the constants.
LEMMA Constants ==
    /\ MaxLines \in Nat /\ MaxStarts \in Nat \ {0} /\ Home \in Dirs
    /\ Null \notin Users \cup Names
    /\ \A l \in Lines : l.opts \in Seq([o : {"e", "d", "t", "l", "h", "u", "p", "r", "g", "?", "arg"},
                                        a : Users \cup Names \cup Dirs \cup {Null}])
BY SessionAssumption

\* The Boolean variables.
LEMMA BooleansStep ==
    ASSUME invalid \in BOOLEAN, clean \in BOOLEAN, panic \in BOOLEAN, [Next]_vars
    PROVE  invalid' \in BOOLEAN /\ clean' \in BOOLEAN /\ panic' \in BOOLEAN
BY DEF Next, Command, Enter, EnterWith, ParseMode, ParseUser, ParseUserAt, ParseLast,
       ParseUnknown, ParseEnd, ParseEndIf, Take, Reject, Dispatch, NodeSet, Register, RegSend,
       UserGet, CryptRefused, CryptNoUser, Crypt, Send, Store, StoreCrash, StoreFails,
       OtherHolds, RedisSilent, Decrypt, List, Cd, Exit, Start,
       Crash, Goto, parser, client, env, sysVars, bounds, vars

\* An option that is taken into the state.
LEMMA TakeTypes ==
    ASSUME Types, MoreOptions,
           NEW n \in Nat, NEW fs \in SUBSET {"e", "d", "t", "l", "u", "p", "r", "g"},
           NEW r \in {0, -1, -2}, NEW next \in {"parse", "dispatch"}, Take(n, fs, r, next),
           fs \cap FileModes # {} => sfile' \in Names, "u" \in fs => sname' \in Users
    PROVE  Types'
<1> USE DEF Types, TypeOK, ArgumentTypes, Pcs, FileModes, parser, client, env, bounds, sysVars, Take,
            MoreOptions
<1>1. TypeOK'
    OBVIOUS
<1>2. ArgumentTypes'
    OBVIOUS
<1> QED
    BY <1>1, <1>2

LEMMA TypesStep == ASSUME Types, [Next]_vars PROVE Types'
<1>0. invalid' \in BOOLEAN /\ clean' \in BOOLEAN /\ panic' \in BOOLEAN
    BY BooleansStep DEF Types, TypeOK
<1> USE <1>0, Constants
    DEF Types, TypeOK, ArgumentTypes, Pcs, FileModes, parser, client, env, bounds, sysVars
<1>1. CASE Enter
    BY <1>1 DEF Enter, EnterWith
<1>2. CASE ParseMode
  <2>1. line.cmd = "file" /\ Opt.o \in FileModes /\ Opt.a \in Names
    BY <1>2, OptionType DEF ParseMode
  <2>2. CASE Reject
    BY <2>2 DEF Reject
  <2>3. CASE Take(optind + 1, flags \cup {Opt.o}, 0, "parse") /\ sfile' = Opt.a /\ UNCHANGED sname
    <3>1. MoreOptions /\ optind + 1 \in Nat /\ 0 \in {0, -1, -2}
      BY <1>2 DEF ParseMode
    <3>2. flags \cup {Opt.o} \in SUBSET {"e", "d", "t", "l", "u", "p", "r", "g"}
      BY <2>1
    <3>3. "u" \in flags \cup {Opt.o} => sname' \in Users
      BY <2>1, <2>3
    <3> QED
      BY <2>1, <2>3, <3>1, <3>2, <3>3, TakeTypes
  <2> QED
    BY <1>2, <2>2, <2>3 DEF ParseMode
<1>3. CASE ParseUser
  <2>1. line.cmd = "user" /\ (Opt.o = "u" => Opt.a \in Users)
    BY <1>3, OptionType DEF ParseUser, ParseUserAt
  <2>2. MoreOptions /\ optind + 1 \in Nat /\ 0 \in {0, -1, -2} /\ Opt.o \in {"u", "p", "r"}
        /\ Take(optind + 1, flags \cup {Opt.o}, 0, "parse")
    BY <1>3 DEF ParseUser, ParseUserAt
  <2>3. flags \cup {Opt.o} \in SUBSET {"e", "d", "t", "l", "u", "p", "r", "g"}
    BY <2>2
  <2>4. (flags \cup {Opt.o}) \cap FileModes # {} => sfile' \in Names
    BY <1>3, <2>2 DEF ParseUser, ParseUserAt
  <2>5. "u" \in flags \cup {Opt.o} => sname' \in Users
    BY <1>3, <2>1, <2>2 DEF ParseUser, ParseUserAt
  <2> QED
    BY <2>2, <2>3, <2>4, <2>5, TakeTypes
<1>4. CASE ParseLast
  <2>1. MoreOptions /\ optind + 1 \in Nat /\ UNCHANGED <<sfile, sname>>
    BY <1>4 DEF ParseLast
  <2>2. ASSUME Opt.o \in {"l", "g"}, Take(optind + 1, flags \cup {Opt.o}, 0, "dispatch")
        PROVE  Types'
    <3>1. flags \cup {Opt.o} \in SUBSET {"e", "d", "t", "l", "u", "p", "r", "g"}
      BY <2>2
    <3>2. (flags \cup {Opt.o}) \cap FileModes # {} => sfile' \in Names
      BY <2>1, <2>2
    <3>3. "u" \in flags \cup {Opt.o} => sname' \in Users
      BY <2>1, <2>2
    <3> QED
      BY <2>1, <2>2, <3>1, <3>2, <3>3, TakeTypes
  <2>3. CASE Take(optind + 1, flags, -2, "dispatch")
    BY <2>1, <2>3, TakeTypes
  <2> QED
    BY <1>4, <2>2, <2>3 DEF ParseLast
<1>5. CASE ParseUnknown
    BY <1>5 DEF ParseUnknown, MoreOptions, Reject
<1>6. CASE ParseEnd
    BY <1>6 DEF ParseEnd, ParseEndIf
<1>7. CASE Dispatch
    BY <1>7 DEF Dispatch
<1>8. CASE NodeSet \/ UserGet
    BY <1>8 DEF NodeSet, UserGet, Goto, Executed, NotExecuted
<1>9. CASE RegSend
    BY <1>9 DEF RegSend, Goto, Executed, NotExecuted
<1>10. CASE Register
  <2>1. CASE Crash
    BY <2>1 DEF Crash
  <2>2. CASE {"u", "p"} \subseteq flags /\ ~Crash
    <3>1. sname \in Users /\ user' = sname /\ db' \in (Dirs \X Users) \cup {Null}
      BY <1>10, <2>2 DEF Register
    <3>2. held' \subseteq Dirs
      BY <1>10, <2>2 DEF Register
    <3>3. pc' = "reg_send" /\ UNCHANGED <<parser, cwd, bounds, list, net, kf, sysVars>>
      BY <1>10, <2>2 DEF Register, Goto
    <3> QED
      BY <3>1, <3>2, <3>3
  <2> QED
    BY <1>10, <2>1, <2>2 DEF Register
<1>11. CASE CryptRefused \/ CryptNoUser
    BY <1>11 DEF CryptRefused, CryptNoUser, Crash, Goto
<1>12. CASE Crypt
  <2>1. Target \in File /\ user \in Users /\ KeyOf[user] \in Keys
    BY <1>12 DEF Crypt, Target, File, Keys, KeyOf
  <2>2. Aes(disk[Target], KeyOf[user], 1) \in Seq(Keys \X Signs)
    BY <2>1, AesPrefix DEF Signs
  <2>3. disk' \in [File -> Seq(Keys \X Signs)]
    BY <1>12, <2>1, <2>2 DEF Crypt
  <2> QED
    BY <1>12, <2>3 DEF Crypt, Goto
<1>13. CASE Send
    BY <1>13 DEF Send, Goto, Executed, NotExecuted
<1>14. CASE Store \/ StoreCrash
    BY <1>14 DEF Store, StoreCrash, Unlocked, Crash, Goto
<1>15. CASE Decrypt
  <2>1. CASE user = Null /\ Crash
    BY <2>1 DEF Crash
  <2>2. CASE user # Null
    <3>1. Target \in File /\ user \in Users /\ KeyOf[user] \in Keys
      BY <1>15, <2>2 DEF Decrypt, Target, File, Keys, KeyOf
    <3>2. Aes(disk[Target], KeyOf[user], -1) \in Seq(Keys \X Signs)
      BY <3>1, AesPrefix DEF Signs
    <3>3. disk' \in [File -> Seq(Keys \X Signs)]
      BY <1>15, <2>2, <3>1, <3>2 DEF Decrypt
    <3> QED
      BY <1>15, <2>2, <3>3 DEF Decrypt, Goto
  <2> QED
    BY <1>15, <2>1, <2>2 DEF Decrypt
<1>16. CASE List
    BY <1>16 DEF List, Crash, Goto
<1>17. CASE Cd
    BY <1>17 DEF Cd
<1>18. CASE Exit
  <2>1. pc' = "dead" /\ UNCHANGED <<parser, client, net, cwd, kf, sysVars, bounds>>
    BY <1>18 DEF Exit
  <2> QED
    BY <2>1
<1>19. CASE Start
    BY <1>19 DEF Start
<1>20. CASE StoreFails \/ OtherHolds
  <2>1. db[1] \in Dirs
    BY <1>20 DEF StoreFails, OtherHolds, Unlocked
  <2> QED
    BY <1>20, <2>1 DEF StoreFails, OtherHolds, Unlocked, Goto
<1>21. CASE RedisSilent
    BY <1>21 DEF RedisSilent
<1>22. CASE UNCHANGED vars
    BY <1>22 DEF vars
<1> QED
    BY <1>1, <1>2, <1>3, <1>4, <1>5, <1>6, <1>7, <1>8, <1>9, <1>10, <1>11, <1>12,
       <1>13, <1>14, <1>15, <1>16, <1>17, <1>18, <1>19, <1>20, <1>21, <1>22 DEF Next, Command

\* The state of the parser, the client and the files on disk have their types.
THEOREM TypesKept == Spec => []Types
<1>0. Init => invalid \in BOOLEAN /\ clean \in BOOLEAN /\ panic \in BOOLEAN
    BY DEF Init
<1>1. Init => Types
    BY <1>0, Constants DEF Init, Types, TypeOK, ArgumentTypes, Pcs, FileModes, NoLine
<1> QED
    BY <1>1, TypesStep, PTL DEF Spec

-----------------------------------------------------------------------------
(* Encryptions and their records.                                          *)

\* Between an encryption and the insertion of its record file_encrypt has the
\* uuid in its kxfile.
Pending(f, i) == pc \in {"send", "store"} /\ kf.uuid = Uuid(f, SubSeq(disk[f], 1, i))
RecordInv ==
    clean => \A f \in File : \A i \in 1..Len(disk[f]) :
                disk[f][i][2] = 1 => Recorded(f, i) \/ Pending(f, i)

\* Steps that touch neither files nor records.
LEMMA RecordSame ==
    ASSUME RecordInv, UNCHANGED <<disk, store>>,
           clean' => clean,
           clean' /\ pc \in {"send", "store"} => pc' \in {"send", "store"} /\ kf' = kf
    PROVE  RecordInv'
BY DEF RecordInv, Recorded, Pending, Uuid

\* The file on which kx_crypt_file works.
LEMMA TargetType ==
    ASSUME Types, pc \in {"crypt", "decrypt"}, user # Null
    PROVE  Target \in File /\ user \in Users /\ KeyOf[user] \in Keys
BY DEF Types, TypeOK, Target, File, Keys, KeyOf

LEMMA CryptRecords == ASSUME Types, RecordInv, Crypt PROVE RecordInv'
<1> DEFINE w == Aes(disk[Target], KeyOf[user], 1)
<1>1. Target \in File /\ KeyOf[user] \in Keys /\ disk \in [File -> Seq(Keys \X Signs)]
    BY TargetType DEF Crypt, Types
<1>2. disk' = [disk EXCEPT ![Target] = w] /\ store' = store /\ pc = "crypt" /\ (clean' => clean)
    BY DEF Crypt
<1>3. clean' => pc' = "send" /\ kf'.uuid = Uuid(Target, w)
    BY <1>1, <1>2 DEF Crypt, Goto
<1>4. SUFFICES ASSUME clean', NEW f \in File, NEW i \in 1..Len(disk'[f]), disk'[f][i][2] = 1
               PROVE  Recorded(f, i)' \/ Pending(f, i)'
    BY DEF RecordInv
<1>5. ASSUME i \in 1..Len(disk[f]), disk'[f][i] = disk[f][i],
             SubSeq(disk'[f], 1, i) = SubSeq(disk[f], 1, i)
      PROVE  Recorded(f, i)'
    BY <1>2, <1>4, <1>5 DEF RecordInv, Recorded, Pending, Uuid
<1>6. CASE f # Target
    BY <1>1, <1>2, <1>5, <1>6
<1>7. CASE f = Target
  <2>1. disk'[f] = w
    BY <1>1, <1>2, <1>7
  <2>2. /\ w \in Seq(Keys \X Signs)
        /\ \/ i \in 1..Len(disk[f]) /\ w[i] = disk[f][i] /\ SubSeq(w, 1, i) = SubSeq(disk[f], 1, i)
           \/ i = Len(w)
    <3>1. i \in 1..Len(w) /\ disk[Target] \in Seq(Keys \X Signs) /\ 1 \in Signs
      BY <1>1, <2>1 DEF Signs
    <3>2. w \in Seq(Keys \X Signs) /\ Follows(w, disk[Target], <<KeyOf[user], 1>>)
      BY <1>1, <3>1, AesPrefix
    <3> HIDE DEF w
    <3> QED
      BY <1>7, <3>1, <3>2 DEF Follows
  <2>3. CASE i = Len(w)
    <3>1. SubSeq(w, 1, i) = w
      BY <2>2, <2>3
    <3> QED
      BY <1>3, <1>4, <1>7, <2>1, <3>1 DEF Pending, Uuid
  <2> QED
    BY <1>5, <2>1, <2>2, <2>3
<1> QED
    BY <1>6, <1>7

LEMMA DecryptRecords == ASSUME Types, RecordInv, Decrypt PROVE RecordInv'
<1>1. CASE UNCHANGED disk
    BY <1>1, RecordSame DEF Decrypt, Crash, Goto, sysVars
<1>2. CASE user # Null /\ disk' = [disk EXCEPT ![Target] = Aes(@, KeyOf[user], -1)]
  <2> DEFINE w == Aes(disk[Target], KeyOf[user], -1)
  <2>1. Target \in File /\ KeyOf[user] \in Keys /\ disk \in [File -> Seq(Keys \X Signs)]
    BY <1>2, TargetType DEF Decrypt, Types
  <2>2. store' = store /\ pc = "decrypt" /\ (clean' => clean)
    BY <1>2 DEF Decrypt, Crash, sysVars
  <2>3. SUFFICES ASSUME clean', NEW f \in File, NEW i \in 1..Len(disk'[f]), disk'[f][i][2] = 1
                 PROVE  Recorded(f, i)'
    BY DEF RecordInv
  <2>4. i \in 1..Len(disk[f]) /\ disk'[f][i] = disk[f][i]
        /\ SubSeq(disk'[f], 1, i) = SubSeq(disk[f], 1, i)
    <3>1. CASE f # Target
      BY <1>2, <2>1, <3>1
    <3>2. CASE f = Target
      <4>1. disk'[f] = w /\ i \in 1..Len(w) /\ disk[Target] \in Seq(Keys \X Signs) /\ -1 \in Signs
        BY <1>2, <2>1, <3>2 DEF Signs
      <4>2. w[i] # <<KeyOf[user], -1>>
        BY <2>3, <4>1
      <4>3. Follows(w, disk[Target], <<KeyOf[user], -1>>)
        BY <2>1, <4>1, AesPrefix
      <4> HIDE DEF w
      <4> QED
        BY <3>2, <4>1, <4>2, <4>3 DEF Follows
    <3> QED
      BY <3>1, <3>2
  <2> QED
    BY <2>2, <2>3, <2>4 DEF RecordInv, Recorded, Pending, Uuid
<1> QED
    BY <1>1, <1>2 DEF Decrypt, Crash, sysVars

LEMMA StoreRecords == ASSUME RecordInv, Store PROVE RecordInv'
<1> DEFINE rec == [db |-> db, uuid |-> kf.uuid, path |-> kf.path]
<1>1. CASE clean'
  <2>1. store' = PutStore(store, rec) /\ UNCHANGED <<disk, clean>>
    BY <1>1 DEF Store, Goto
  <2>2. rec \in store' /\ rec.uuid = kf.uuid
    BY <2>1 DEF PutStore
  <2>3. ASSUME NEW r \in store
        PROVE  \E q \in store' : q.uuid = r.uuid
    <3>1. CASE <<r.db, r.uuid>> = <<rec.db, rec.uuid>>
      BY <2>2, <3>1
    <3>2. CASE <<r.db, r.uuid>> # <<rec.db, rec.uuid>>
      BY <2>1, <3>2 DEF PutStore
    <3> QED
      BY <3>1, <3>2
  <2>4. SUFFICES ASSUME NEW f \in File, NEW i \in 1..Len(disk[f]), disk[f][i][2] = 1
                 PROVE  Recorded(f, i)'
    BY <2>1 DEF RecordInv
  <2>5. CASE Recorded(f, i)
    BY <2>1, <2>3, <2>5 DEF Recorded, Uuid
  <2>6. CASE Pending(f, i)
    BY <2>1, <2>2, <2>6 DEF Pending, Recorded, Uuid
  <2> QED
    BY <1>1, <2>1, <2>4, <2>5, <2>6 DEF RecordInv
<1>2. CASE ~clean'
    BY <1>2 DEF RecordInv
<1> QED
    BY <1>1, <1>2

LEMMA RecordStep == ASSUME Types, RecordInv, [Next]_vars PROVE RecordInv'
<1>1. CASE Crypt
    BY <1>1, CryptRecords
<1>2. CASE Decrypt
    BY <1>2, DecryptRecords
<1>3. CASE Store
    BY <1>3, StoreRecords
<1> USE DEF parser, client, bounds, sysVars
<1>4. CASE Enter
    BY <1>4, RecordSame DEF Enter, EnterWith
<1>5. CASE ParseMode \/ ParseUser \/ ParseLast \/ ParseUnknown \/ ParseEnd
    BY <1>5, RecordSame DEF ParseMode, ParseUser, ParseUserAt, ParseLast, ParseUnknown,
                            ParseEnd, ParseEndIf, Take, Reject, MoreOptions
<1>6. CASE Dispatch
    BY <1>6, RecordSame DEF Dispatch
<1>7. CASE NodeSet \/ RegSend \/ UserGet
    BY <1>7, RecordSame DEF NodeSet, RegSend, UserGet, Goto
<1>8. CASE Register \/ CryptRefused \/ CryptNoUser \/ List
    BY <1>8, RecordSame DEF Register, CryptRefused, CryptNoUser, List, Crash, Goto
<1>9. CASE Send
    BY <1>9, RecordSame DEF Send, Goto
<1>10. CASE Cd \/ Start
    BY <1>10, RecordSame DEF Cd, Start
<1>11. CASE Exit
  <2>1. UNCHANGED <<disk, store>> /\ (clean' => clean /\ pc = "prompt")
    BY <1>11 DEF Exit
  <2> QED
    BY <2>1, RecordSame
<1>12. CASE StoreCrash \/ StoreFails \/ OtherHolds \/ RedisSilent
    BY <1>12, RecordSame DEF StoreCrash, StoreFails, OtherHolds, RedisSilent, Crash, Goto
<1>13. CASE UNCHANGED vars
    BY <1>13, RecordSame DEF vars
<1> QED
    BY <1>1, <1>2, <1>3, <1>4, <1>5, <1>6, <1>7, <1>8, <1>9, <1>10, <1>11, <1>12, <1>13
    DEF Next, Command

\* As long as nothing failed or was cut short, whatever commands were entered,
\* every encryption that is on a file has a local record under the uuid of
\* that ciphertext: file_encrypt keeps the uuid over the HMSET and inserts it,
\* and a record only replaces one with the same uuid.
THEOREM EncryptionsRecorded == Spec => []EncryptedIsRecorded
<1>1. Init => RecordInv
  <2>1. Init => \A f \in File : Len(disk[f]) = 0
    BY DEF Init
  <2> QED
    BY <2>1 DEF RecordInv
<1>2. RecordInv => EncryptedIsRecorded
    BY DEF RecordInv, EncryptedIsRecorded, Pending
<1> QED
    BY <1>1, <1>2, RecordStep, TypesKept, PTL DEF Spec

-----------------------------------------------------------------------------
(* The command line is obeyed.                                             *)

\* The first k options are -e, -d or -t, all the same, and k is as far as
\* they go.
Uniform(os, k) ==
    /\ k \in 0..Len(os)
    /\ \A i \in 1..k : os[i].o \in FileModes
    /\ \A i, j \in 1..k : os[i].o = os[j].o
Ends(os, k) == k = Len(os) \/ k + 1 \in Stops(os)

\* What the first k options have left in the state.
Taken(k) ==
    /\ Uniform(line.opts, k)
    /\ \A m \in FileModes : m \in flags <=> \E i \in 1..k : line.opts[i].o = m
    /\ sfile = IF k = 0 THEN Null ELSE line.opts[k].a

\* The inductive invariant: parse_options has taken the options so far, and
\* when it returns 0 it has taken all up to the one that ends the loop.
ParseInv ==
    /\ pc = "parse" /\ line.cmd = "file" =>
          Taken(optind) /\ "l" \notin flags /\ (ret = 0 => optind > 0)
    /\ pc = "dispatch" /\ line.cmd = "file" /\ ret = 0 =>
          \E k \in Nat : /\ Taken(k) /\ Ends(line.opts, k)
                         /\ "l" \in flags => k < Len(line.opts) /\ line.opts[k + 1].o = "l"
    /\ LineObeyed

\* The modes of a line are the options before the one that ends the loop.
LEMMA ModesUpTo ==
    ASSUME NEW os, Len(os) \in Nat, NEW k \in Nat, Uniform(os, k), Ends(os, k)
    PROVE  Modes(os) = 1..k /\ Cardinality(Modes(os)) = k
<1>1. \A i \in Stops(os) : i > k
    BY DEF Stops, Uniform
<1>2. \A i \in 1..k : i \in Modes(os)
    BY <1>1 DEF Modes, Uniform, Stops
<1>3. \A i \in Modes(os) : i \in 1..k
    BY DEF Modes, Ends
<1>4. Modes(os) = 1..k
    BY <1>2, <1>3
<1>5. Cardinality(1..k) = k
    BY FS_Interval
<1> QED
    BY <1>4, <1>5

\* do_file carries out the line as it was read.
LEMMA DispatchObeys == ASSUME Types, ParseInv, Dispatch PROVE LineObeyed'
<1>1. SUFFICES ASSUME pc' \in {"crypt", "decrypt", "list"} PROVE LineObeyed'
    BY DEF LineObeyed
<1>2. pc = "dispatch" /\ line.cmd = "file" /\ ret = 0 /\ UNCHANGED <<line, flags, sfile>>
    BY <1>1 DEF Dispatch, parser
<1> DEFINE os == line.opts
<1>3. PICK k \in Nat : /\ Taken(k) /\ Ends(os, k)
                       /\ "l" \in flags => k < Len(os) /\ os[k + 1].o = "l"
    BY <1>2 DEF ParseInv
<1>4. Len(os) \in Nat
    BY Constants DEF Types, TypeOK, NoLine
<1>5. Modes(os) = 1..k /\ Cardinality(Modes(os)) = k
    BY <1>3, <1>4, ModesUpTo DEF Taken
<1>6. pc' = "crypt" => \E i \in 1..k : os[i].o = "e"
    BY <1>2, <1>3 DEF Dispatch, Taken, FileModes
<1>7. pc' = "decrypt" => \A i \in 1..k : os[i].o = "d"
    BY <1>2, <1>3 DEF Dispatch, Taken, Uniform, FileModes
<1>8. pc' = "list" => os[k + 1].o = "l"
    BY <1>2, <1>3 DEF Dispatch
<1>9. sfile # Null => os[k].a = sfile /\ \A i \in 1..k : os[i].o = os[1].o
    BY <1>3 DEF Taken, Uniform
<1>10. os' = os /\ sfile' = sfile
    BY <1>2
<1> QED
    BY <1>5, <1>6, <1>7, <1>8, <1>9, <1>10 DEF LineObeyed

\* One more -e, -d or -t.
LEMMA ModeTaken ==
    ASSUME Types, ParseInv, ParseMode PROVE ParseInv'
<1>1. pc = "parse" /\ line.cmd = "file" /\ Taken(optind) /\ optind \in Nat
      /\ optind < Len(line.opts) /\ Len(line.opts) \in Nat /\ Opt.o \in FileModes
      /\ "l" \notin flags /\ (ret = 0 => optind > 0)
    BY Constants DEF ParseMode, MoreOptions, ParseInv, Types, TypeOK, NoLine
<1>2. CASE flags \cap (FileModes \ {Opt.o}) # {}
  <2>1. UNCHANGED <<line, optind, flags, sfile, ret>> /\ pc' = "dispatch"
    BY <1>2 DEF ParseMode, Reject
  <2>2. optind + 1 \in Stops(line.opts)
    <3>1. PICK j \in 1..optind : line.opts[j].o \in FileModes \ {Opt.o}
      BY <1>1, <1>2 DEF Taken
    <3> QED
      BY <1>1, <3>1 DEF Stops, Opt
  <2>3. Taken(optind)' /\ Ends(line.opts, optind)' /\ "l" \notin flags'
    BY <1>1, <2>1, <2>2 DEF Taken, Ends
  <2> QED
    BY <1>1, <2>1, <2>3 DEF ParseInv, LineObeyed
<1>3. CASE ~(flags \cap (FileModes \ {Opt.o}) # {})
  <2>1. optind' = optind + 1 /\ flags' = flags \cup {Opt.o} /\ sfile' = Opt.a
        /\ pc' = "parse" /\ line' = line
    BY <1>3 DEF ParseMode, Take
  <2>2. Uniform(line.opts, optind + 1)
    BY <1>1, <1>3 DEF Taken, Uniform, Opt
  <2>3. \A m \in FileModes : m \in flags' <=> \E i \in 1..(optind + 1) : line.opts[i].o = m
    BY <1>1, <2>1 DEF Taken, Opt
  <2>4. Taken(optind)'
    BY <1>1, <2>1, <2>2, <2>3 DEF Taken, Opt
  <2>5. "l" \notin flags' /\ optind' > 0
    BY <1>1, <2>1 DEF FileModes
  <2> QED
    BY <2>1, <2>4, <2>5 DEF ParseInv, LineObeyed
<1> QED
    BY <1>2, <1>3

\* An option that ends the loop, or no more option.
LEMMA LoopEnds ==
    ASSUME Types, ParseInv, ParseLast \/ ParseUnknown \/ ParseEnd PROVE ParseInv'
<1>1. pc = "parse" /\ pc' = "dispatch" /\ UNCHANGED <<line, sfile>>
    BY DEF ParseLast, ParseUnknown, ParseEnd, ParseEndIf, MoreOptions, Take, Reject
<1>2. SUFFICES ASSUME line.cmd = "file", ret' = 0
               PROVE  \E k \in Nat : /\ Taken(k)' /\ Ends(line.opts, k)
                                     /\ "l" \in flags' => k < Len(line.opts)
                                                          /\ line.opts[k + 1].o = "l"
    BY <1>1 DEF ParseInv, LineObeyed
<1>3. Taken(optind) /\ optind \in Nat /\ Len(line.opts) \in Nat /\ "l" \notin flags
      /\ (ret = 0 => optind > 0)
    BY <1>1, <1>2, Constants DEF ParseInv, Types, TypeOK, NoLine
<1>4. \A m \in FileModes : m \in flags' <=> m \in flags
    BY <1>2 DEF ParseLast, ParseUnknown, ParseEnd, ParseEndIf, Take, Reject, FileModes
<1>5. \A k \in Nat : Taken(k) => Taken(k)'
    BY <1>1, <1>4 DEF Taken
<1>6. CASE ParseLast
  <2>1. Opt.o = "l" /\ optind < Len(line.opts)
    BY <1>2, <1>6 DEF ParseLast, MoreOptions, Take
  <2>2. optind + 1 \in Stops(line.opts)
    BY <1>3, <2>1 DEF Stops, Opt, FileModes
  <2> QED
    BY <1>3, <1>5, <2>1, <2>2 DEF Ends, Opt
<1>7. CASE ParseUnknown
  <2>1. Opt.o \notin FileModes /\ optind < Len(line.opts) /\ flags' = flags
    BY <1>2, <1>7 DEF ParseUnknown, MoreOptions, Reject
  <2>2. optind + 1 \in Stops(line.opts)
    BY <1>3, <2>1 DEF Stops, Opt
  <2> QED
    BY <1>3, <1>5, <2>1, <2>2 DEF Ends
<1>8. CASE ParseEnd
  <2>1. optind >= Len(line.opts) /\ flags' = flags
    BY <1>8 DEF ParseEnd, ParseEndIf
  <2>2. optind = Len(line.opts)
    BY <1>3, <2>1 DEF Taken, Uniform
  <2> QED
    BY <1>3, <1>5, <2>1, <2>2 DEF Ends
<1> QED
    BY <1>6, <1>7, <1>8

LEMMA ParseStep == ASSUME Types, ParseInv, [Next]_vars PROVE ParseInv'
<1>1. CASE Enter
  <2>1. flags' = {} /\ optind' = 0 /\ sfile' = Null /\ pc' \in {"parse", "cd", "prompt"} /\ ret' = -1
    BY <1>1 DEF Enter, EnterWith
  <2>2. pc' = "parse" => line' \in Lines
    BY <1>1 DEF Enter, EnterWith
  <2>3. pc' = "parse" => Taken(optind)'
    BY <2>1, <2>2, Constants DEF Taken, Uniform
  <2> QED
    BY <2>1, <2>3 DEF ParseInv, LineObeyed
<1>2. CASE ParseMode
    BY <1>2, ModeTaken
<1>3. CASE ParseUser
    BY <1>3 DEF ParseUser, ParseUserAt, Take, ParseInv, LineObeyed
<1>4. CASE ParseLast \/ ParseUnknown \/ ParseEnd
    BY <1>4, LoopEnds
<1>5. CASE Dispatch
  <2>1. pc' \notin {"parse", "dispatch"}
    BY <1>5 DEF Dispatch
  <2> QED
    BY <1>5, <2>1, DispatchObeys DEF ParseInv
<1>6. CASE pc' \notin {"parse", "dispatch", "crypt", "decrypt", "list"}
    BY <1>6 DEF ParseInv, LineObeyed
<1>7. CASE NodeSet \/ Register \/ RegSend \/ UserGet
    BY <1>6, <1>7 DEF NodeSet, Register, RegSend, UserGet, Crash, Goto
<1>8. CASE CryptRefused \/ CryptNoUser \/ Crypt \/ Send \/ Store \/ StoreCrash \/ StoreFails
             \/ Decrypt \/ List
    BY <1>6, <1>8 DEF CryptRefused, CryptNoUser, Crypt, Send, Store, StoreCrash, StoreFails,
                      Decrypt, List, Crash, Goto
<1>9. CASE Cd \/ Exit \/ Start
    BY <1>6, <1>9 DEF Cd, Exit, Start
<1>10. CASE RedisSilent \/ OtherHolds
    BY <1>10 DEF RedisSilent, OtherHolds, AtRedis, Unlocked, parser, ParseInv, LineObeyed, Taken, Ends
<1>11. CASE UNCHANGED vars
    BY <1>11 DEF vars, parser, ParseInv, LineObeyed, Taken, Ends
<1> QED
    BY <1>1, <1>2, <1>3, <1>4, <1>5, <1>7, <1>8, <1>9, <1>10, <1>11 DEF Next, Command

\* The static state of the parser and the client have their types, and the
\* command that is carried out is the one the current line asks for, however
\* its options conflict and whatever earlier lines left in the static state.
THEOREM LinesObeyed == Spec => []CommandState
<1>1. Init => ParseInv
    BY DEF Init, ParseInv, LineObeyed
<1>2. Types /\ ParseInv => CommandState
    BY DEF Types, ParseInv, CommandState
<1> QED
    BY <1>1, <1>2, ParseStep, TypesKept, PTL DEF Spec
=============================================================================
