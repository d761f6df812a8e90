------------------------------ MODULE Session ------------------------------
(***************************************************************************)
(* The commands "user", "file" and "cd" of the shell (kx_user.c, kx_file.c,*)
(* kx_command.c) over what they leave behind: files on disk (file.c), hash *)
(* records in redis (net.c) and records in the local store (db.c).  All of *)
(* it runs on the main thread; the process may be killed between any two   *)
(* steps and started again.                                                *)
(*                                                                         *)
(* FileCrypt has the detail of one encryption and Db that of the store; an *)
(* encryption is one step here and a file's blocks have one word.  An      *)
(* insertion is one step too, with the outcomes Db has for it.             *)
(***************************************************************************)
EXTENDS Integers, Sequences, FiniteSets, FiniteSetsExt, Cipher

CONSTANTS
    Users,          \* user names
    Names,          \* file names as typed
    Dirs,           \* working directories
    Home,           \* the one rkx is started in
    Content,        \* content of each file <<dir, name>>; Absent: see below
    Spelling,       \* the characters of each user name
    NodeUuid,       \* client.node->uuid: the machine-id, or "unknow"
    KEYLEN,         \* bytes of a key that AES reads (16)
    STRSIZE,        \* sizeof(str) in kx_user_creat_key (64)
    Lines,          \* command lines: [cmd, opts]; an option is [o, a], "?" one that
                    \* getopt_long does not know, "arg" the argument of cd.
                    \* getopt_long moves words that are no options behind the
                    \* others, where nobody looks: they are left out
    MaxLines,       \* bound: command lines entered
    MaxStarts       \* bound: starts of the program

CONSTANTS Null, Absent   \* model values; Absent: no such file, or too large

ASSUME SessionAssumption ==
    /\ MaxLines \in Nat /\ MaxStarts \in Nat \ {0}
    /\ Null \notin Users \cup Names
    /\ Home \in Dirs
    /\ KEYLEN \in Nat /\ STRSIZE \in Nat /\ KEYLEN < STRSIZE
    /\ \A u \in Users : Len(NodeUuid \o Spelling[u]) >= KEYLEN
    /\ Lines \subseteq [cmd : {"file", "user", "cd", "other"},
                        opts : Seq([o : {"e", "d", "t", "l", "h", "u", "p", "r", "g", "?", "arg"},
                                    a : Users \cup Names \cup Dirs \cup {Null}])]

\* getopt_long gives the options of "e:d:t:" and "u:" the argument they require.
ASSUME OptionArguments ==
    \A l \in Lines : \A i \in 1..Len(l.opts) :
        /\ l.cmd = "file" /\ l.opts[i].o \in {"e", "d", "t"} => l.opts[i].a \in Names
        /\ l.cmd = "user" /\ l.opts[i].o = "u" => l.opts[i].a \in Users
        /\ l.opts[i].o = "arg" => l.cmd = "cd"

VARIABLES
    pc,             \* where the main thread is
    line, optind,   \* the command line and getopt_long's position in it
    flags,          \* options set in "struct state", u and p: puser, ppwd
    sfile, sname,   \* state->file, state->puser
    ret,            \* of parse_options
    invalid,        \* parse_options has reported an error
    user, db,       \* client.user, client.db
    panic,          \* MDB_FATAL_ERROR of client.db's environment
    held,           \* directories in whose ./data this or another live process
                    \* has a write transaction that it never ends
    list,           \* client.local_cryptfiles, a sequence of kxfile
    net,            \* the redis context: "up", "silent", or "err", which is final
    cwd,            \* the working directory
    kf,             \* file_encrypt's kxfile
    disk,           \* what each file's blocks went through
    remote,         \* redis: records fileuuid:<uuid>
    regs,           \* redis: users of the node
    store,          \* local records, by environment and user
    lost,           \* history: uuids whose HMSET was not executed
    clean,          \* history: nothing failed or was cut short
    lines, starts

sysVars == <<disk, remote, regs, store, lost>>
env == <<panic, held>>
client == <<user, db, env, list>>
parser == <<line, optind, flags, sfile, sname, ret, invalid>>
bounds == <<lines, starts>>
vars == <<pc, parser, client, net, cwd, kf, sysVars, clean, bounds>>

File == Dirs \X Names

\* kx_user_creat_key: the node's uuid and the user's name, cut to str[], to hex
\* digits and back to bytes.  AES reads the first KEYLEN of them, so that the
\* name matters only behind a short uuid.
Str(u) == SubSeq(NodeUuid \o Spelling[u], 1,
                 Min({Len(NodeUuid \o Spelling[u]), STRSIZE - 1}))
KeyOf == [u \in Users |-> SubSeq(Str(u), 1, KEYLEN)]

NoKf == [uuid |-> Null, path |-> Null]
NoLine == [cmd |-> "other", opts |-> <<>>]

\* rkx_init, then the shell.
Init ==
    /\ pc = "prompt" /\ user = Null /\ db = Null /\ list = <<>>
    /\ panic = FALSE /\ held = {}
    /\ net = "up" /\ cwd = Home /\ kf = NoKf
    /\ line = NoLine /\ optind = 0 /\ flags = {} /\ sfile = Null /\ sname = Null
    /\ ret = 0 /\ invalid = FALSE
    /\ disk = [f \in File |-> <<>>]
    /\ remote = {} /\ regs = {} /\ store = {} /\ lost = {}
    /\ clean = TRUE /\ lines = 0 /\ starts = 1

-----------------------------------------------------------------------------
(* The command line.                                                       *)

\* kx_loop reads a line; do_user and do_file make a new "struct state" and
\* parse_options resets optind.  The mutated forms leave one of them out.
EnterWith(i, fs) ==
    /\ pc = "prompt" /\ lines < MaxLines
    /\ \E l \in Lines :
          /\ line' = l
          /\ pc' = CASE l.cmd \in {"file", "user"} -> "parse"
                     [] l.cmd = "cd" -> "cd"
                     [] OTHER -> "prompt"
    /\ optind' = i
    /\ flags' = fs /\ sfile' = Null /\ sname' = Null /\ ret' = -1
    /\ invalid' = FALSE
    /\ lines' = lines + 1
    /\ UNCHANGED <<client, net, cwd, kf, sysVars, clean, starts>>
EnterNoReset == EnterWith(optind, {})
Enter == EnterWith(0, {})

Opt == line.opts[optind + 1]
MoreOptions == pc = "parse" /\ optind < Len(line.opts)

\* An option is taken into the state, which sets ret, and the loop goes on or
\* ends.
Take(n, fs, r, next) ==
    /\ optind' = n
    /\ flags' = fs /\ ret' = r /\ pc' = next
    /\ UNCHANGED <<line, invalid, client, net, cwd, kf, sysVars, clean, bounds>>

\* "goto err": the message is printed, but ret keeps what an earlier option
\* has set it to.
Reject ==
    /\ pc' = "dispatch" /\ invalid' = TRUE
    /\ UNCHANGED <<line, optind, flags, sfile, sname, ret, client, net, cwd, kf, sysVars,
                   clean, bounds>>

\* kx_file.c: -e, -d and -t exclude each other.
FileModes == {"e", "d", "t"}
ParseMode ==
    /\ MoreOptions /\ line.cmd = "file" /\ Opt.o \in FileModes
    /\ IF flags \cap (FileModes \ {Opt.o}) # {} THEN Reject
       ELSE /\ Take(optind + 1, flags \cup {Opt.o}, 0, "parse")
            /\ sfile' = Opt.a /\ UNCHANGED sname

\* kx_user.c: -u, -p and -r; -u after -u replaces the name.  The mutated form
\* stays at the option.
ParseUserAt(n) ==
    /\ MoreOptions /\ line.cmd = "user" /\ Opt.o \in {"u", "p", "r"}
    /\ Take(n, flags \cup {Opt.o}, 0, "parse")
    /\ sname' = IF Opt.o = "u" THEN Opt.a ELSE sname
    /\ UNCHANGED sfile
ParseUserStuck == ParseUserAt(optind)
ParseUser == ParseUserAt(optind + 1)

\* -l of "file" and -g of "user" end the loop, -h and -v end the command.
ParseLast ==
    /\ MoreOptions
    /\ \/ /\ <<line.cmd, Opt.o>> \in {<<"file", "l">>, <<"user", "g">>}
          /\ Take(optind + 1, flags \cup {Opt.o}, 0, "dispatch")
       \/ Opt.o = "h" /\ Take(optind + 1, flags, -2, "dispatch")
    /\ UNCHANGED <<sfile, sname>>

ParseUnknown ==
    /\ MoreOptions
    /\ Opt.o \notin IF line.cmd = "file" THEN FileModes \cup {"l", "h"}
                    ELSE {"u", "p", "r", "g", "h"}
    /\ Reject

\* After the last option kx_user.c insists on -u and -p together; ret is left
\* as it is otherwise.  The mutated form does not insist.
PairMissing ==
    IF "r" \in flags THEN ~({"u", "p"} \subseteq flags)
    ELSE Cardinality({"u", "p"} \cap flags) = 1
ParseEndIf(missing) ==
    /\ pc = "parse" /\ optind >= Len(line.opts)
    /\ IF line.cmd = "user" /\ missing
       THEN ret' = -2 /\ invalid' = TRUE
       ELSE UNCHANGED <<ret, invalid>>
    /\ pc' = "dispatch"
    /\ UNCHANGED <<line, optind, flags, sfile, sname, client, net, cwd, kf, sysVars,
                   clean, bounds>>
ParseEndUnchecked == ParseEndIf(FALSE)
ParseEnd == ParseEndIf(PairMissing)

\* do_file and do_user: the first that is set, whatever else is.
Dispatch ==
    /\ pc = "dispatch"
    /\ pc' = CASE ret # 0 -> "prompt"
               [] ret = 0 /\ line.cmd = "file" /\ "e" \in flags -> "crypt"
               [] ret = 0 /\ line.cmd = "file" /\ "e" \notin flags /\ "l" \in flags -> "list"
               [] ret = 0 /\ line.cmd = "file" /\ flags = {"d"} -> "decrypt"
               [] ret = 0 /\ line.cmd = "user" /\ "r" \in flags -> "node_set"
               [] ret = 0 /\ line.cmd = "user" /\ "r" \notin flags /\ "g" \in flags -> "user_get"
               [] OTHER -> "prompt"
    /\ UNCHANGED <<parser, client, net, cwd, kf, sysVars, clean, bounds>>
-----------------------------------------------------------------------------
(* Redis (net.c): kx_sync_send_cmd, kx_command.                            *)

\* redisCommand executes the command or not; it answers with a result or an
\* error, or returns NULL, after which the context is of no more use.
Executed == net = "up" /\ net' \in {"up", "err"}
NotExecuted == net # "silent" /\ net' \in {net, "err"}

\* Only the connect has a timeout: while the server keeps the connection and
\* does not answer, redisCommand waits.
AtRedis == {"node_set", "reg_send", "user_get", "send"}
RedisSilent ==
    /\ pc \in AtRedis /\ net \in {"up", "silent"}
    /\ net' = IF net = "up" THEN "silent" ELSE "up"
    /\ UNCHANGED <<pc, parser, client, cwd, kf, sysVars, clean, bounds>>

\* The calling command goes on whatever happened.
Goto(l) == pc' = l /\ UNCHANGED <<parser, cwd, bounds>>

\* The file's record replaces one with the same uuid; in the mutated form one
\* with the same path.
PutRemoteByPath(s, r) == {q \in s : q.path # r.path} \cup {r}
PutRemote(s, r) == {q \in s : q.uuid # r.uuid} \cup {r}

-----------------------------------------------------------------------------
(* The command "user".                                                     *)

\* kx_node_set.
NodeSet ==
    /\ pc = "node_set" /\ (Executed \/ NotExecuted)
    /\ Goto("register")
    /\ UNCHANGED <<client, kf, sysVars, clean>>

\* A NULL pointer is dereferenced.
Crash ==
    /\ pc' = "crashed"
    /\ clean' = FALSE
    /\ UNCHANGED <<parser, client, net, cwd, kf, sysVars, bounds>>

\* kx_user_register: strlen of the name and the password, then the user and
\* the store, which takes the place of an earlier one.  kx_creat_db returns
\* NULL when it cannot open the environment in the working directory; opening
\* it initialises the writer mutex unless another process is there (Db).
Register ==
    /\ pc = "register"
    /\ \/ ~({"u", "p"} \subseteq flags) /\ Crash
       \/ /\ {"u", "p"} \subseteq flags
          /\ user' = sname
          /\ \/ db' = <<cwd, sname>> /\ UNCHANGED clean
             \/ db' = Null /\ clean' = FALSE
          /\ panic' = FALSE
          /\ held' \in {held, held \ {cwd}}
          /\ Goto("reg_send")
          /\ UNCHANGED <<list, net, kf, sysVars>>

RegSend ==
    /\ pc = "reg_send"
    /\ \/ Executed /\ regs' = regs \cup {user}
       \/ NotExecuted /\ UNCHANGED regs
    /\ Goto("prompt")
    /\ UNCHANGED <<client, kf, disk, remote, store, lost, clean>>

\* kx_user_get: username is the first member, so that without a user its
\* address is NULL and vsnprintf prints "(null)".
UserGet ==
    /\ pc = "user_get" /\ (Executed \/ NotExecuted)
    /\ Goto("prompt")
    /\ UNCHANGED <<client, kf, sysVars, clean>>

-----------------------------------------------------------------------------
(* The command "file".                                                     *)

Target == <<cwd, sfile>>
Uuid(f, w) == <<Content[f], w>>

\* kx_crypt_file: stat comes first, client.user->key is read next.
CryptRefused ==
    /\ pc = "crypt"
    /\ Content[Target] = Absent \/ user # Null
    /\ clean' = FALSE
    /\ Goto("prompt")
    /\ UNCHANGED <<client, net, kf, sysVars>>

CryptNoUser == pc = "crypt" /\ Content[Target] # Absent /\ user = Null /\ Crash

\* The file is encrypted and its uuid computed from the ciphertext;
\* file_encrypt adds it to the list.  When the hash fails the file stays
\* encrypted.
Crypt ==
    /\ pc = "crypt" /\ Content[Target] # Absent /\ user # Null
    /\ disk' = [disk EXCEPT ![Target] = Aes(@, KeyOf[user], 1)]
    /\ \/ /\ kf' = [uuid |-> Uuid(Target, disk'[Target]), path |-> sfile]
          /\ list' = <<kf'>> \o list
          /\ Goto("send")
          /\ UNCHANGED clean
       \/ Goto("prompt") /\ clean' = FALSE /\ UNCHANGED <<kf, list>>
    /\ UNCHANGED <<user, db, env, net, remote, regs, store, lost>>

\* The HMSET of the file's record.
Send ==
    /\ pc = "send"
    /\ \/ Executed /\ UNCHANGED lost
          /\ remote' = PutRemote(remote, [uuid |-> kf.uuid, path |-> kf.path, user |-> user])
       \/ NotExecuted /\ UNCHANGED remote /\ lost' = lost \cup {kf.uuid}
    /\ Goto("store")
    /\ UNCHANGED <<client, kf, disk, regs, store, clean>>

\* kx_store_db, keyed by uuid within the user's database; in the mutated form
\* by path.
PutStoreByPath(s, r) == {q \in s : <<q.db, q.path>> # <<r.db, r.path>>} \cup {r}
PutStore(s, r) == {q \in s : <<q.db, q.uuid>> # <<r.db, r.uuid>>} \cup {r}

\* insert_file waits for the writer mutex of its directory.
Unlocked == pc = "store" /\ db # Null /\ db[1] \notin held

Store ==
    /\ Unlocked /\ ~panic
    /\ store' = PutStore(store, [db |-> db, uuid |-> kf.uuid, path |-> kf.path])
    /\ Goto("prompt")
    /\ UNCHANGED <<client, net, kf, disk, remote, regs, lost, clean>>

\* client.db is NULL; or mdb_txn_begin returns MDB_PANIC, which nobody looks
\* at, and mdb_dbi_open gets no transaction.
StoreCrash ==
    /\ \/ pc = "store" /\ db = Null
       \/ Unlocked /\ panic
    /\ Crash

\* mdb_put fails: the write transaction stays open, and the mutex locked.
\* Or the commit fails, which ends it, and with the write of the meta page
\* for the environment as well.
StoreFails ==
    /\ Unlocked /\ ~panic
    /\ \/ held' = held \cup {db[1]} /\ UNCHANGED panic
       \/ panic' \in BOOLEAN /\ UNCHANGED held
    /\ clean' = FALSE
    /\ Goto("prompt")
    /\ UNCHANGED <<user, db, list, net, kf, sysVars>>

\* Another process' mdb_put has failed in the same directory.
OtherHolds ==
    /\ Unlocked
    /\ held' = held \cup {db[1]}
    /\ UNCHANGED <<pc, parser, user, db, panic, list, net, cwd, kf, sysVars, clean, bounds>>

\* file_decrypt: client.user->key is an argument, so it is read first.
Decrypt ==
    /\ pc = "decrypt"
    /\ \/ user = Null /\ Crash
       \/ /\ user # Null
          /\ \/ /\ Content[Target] # Absent
                /\ disk' = [disk EXCEPT ![Target] = Aes(@, KeyOf[user], -1)]
                /\ UNCHANGED clean
             \/ UNCHANGED disk /\ clean' = FALSE
          /\ Goto("prompt")
          /\ UNCHANGED <<client, net, kf, remote, regs, store, lost>>

\* file_getfilelist.
List ==
    /\ pc = "list"
    /\ \/ db = Null /\ Crash
       \/ db # Null /\ Goto("prompt") /\ UNCHANGED <<client, net, kf, sysVars, clean>>

-----------------------------------------------------------------------------
(* Working directory, end and start.                                       *)

\* do_command: system(), then chdir(argv[1]).  Without an argument argv[1]
\* lies behind the array: chdir fails, or finds the argument of an earlier
\* command there.
Cd ==
    /\ pc = "cd"
    /\ \/ UNCHANGED cwd
       \/ \E d \in Dirs : /\ cwd' = d
                          /\ \/ line.opts = <<>>
                             \/ line.opts # <<>> /\ line.opts[1].a = d
    /\ pc' = "prompt"
    /\ UNCHANGED <<parser, client, net, kf, sysVars, clean, bounds>>

\* Ctrl-D or Ctrl-C at the prompt, or a kill at any point.
Exit ==
    /\ pc \notin {"dead", "crashed"}
    /\ pc' = "dead"
    /\ clean' = (clean /\ pc = "prompt")
    /\ UNCHANGED <<parser, client, net, cwd, kf, sysVars, bounds>>

\* rkx is started again; a connection that cannot be made ends it at once.
Start ==
    /\ pc \in {"dead", "crashed"} /\ starts < MaxStarts
    /\ pc' = "prompt" /\ starts' = starts + 1
    /\ user' = Null /\ db' = Null /\ list' = <<>>
    /\ panic' = FALSE /\ held' = {}
    /\ net' = "up" /\ cwd' = Home /\ kf' = NoKf
    /\ UNCHANGED <<parser, sysVars, clean, lines>>

Command ==
    \/ ParseMode \/ ParseUser \/ ParseLast \/ ParseUnknown \/ ParseEnd \/ Dispatch
    \/ NodeSet \/ Register \/ RegSend \/ UserGet
    \/ CryptRefused \/ CryptNoUser \/ Crypt \/ Send
    \/ Store \/ StoreCrash \/ StoreFails \/ Decrypt \/ List \/ Cd

Next == Enter \/ Command \/ RedisSilent \/ OtherHolds \/ Exit \/ Start

Spec == Init /\ [][Next]_vars

\* The main thread runs.  Nothing makes redis answer or another process end.
FairSpec == Spec /\ WF_vars(Command)

-----------------------------------------------------------------------------
(* Properties.                                                             *)

Keys == {KeyOf[u] : u \in Users}
Pcs == {"prompt", "parse", "dispatch", "cd", "node_set", "register", "reg_send",
        "user_get", "crypt", "send", "store", "decrypt", "list", "dead", "crashed"}

TypeOK ==
    /\ pc \in Pcs /\ line \in Lines \cup {NoLine}
    /\ optind \in Nat /\ flags \subseteq {"e", "d", "t", "l", "u", "p", "r", "g"}
    /\ ret \in {0, -1, -2} /\ invalid \in BOOLEAN
    /\ user \in Users \cup {Null} /\ db \in (Dirs \X Users) \cup {Null}
    /\ (pc \in {"crypt", "decrypt"} => sfile \in Names)
    /\ (pc = "reg_send" => sname \in Users)
    /\ panic \in BOOLEAN /\ held \subseteq Dirs
    /\ net \in {"up", "silent", "err"} /\ cwd \in Dirs
    /\ \A f \in File : disk[f] \in Seq(Keys \X Signs)
    /\ regs \subseteq Users /\ clean \in BOOLEAN
    /\ lines \in 0..MaxLines /\ starts \in 1..MaxStarts

\* What a "file" line says, read as a whole: the options up to the first that
\* ends the loop or contradicts an earlier one.  The command that is carried
\* out is the one of this line and not of an earlier one, and with -e, -d and
\* -t in conflict it is the first of them (kx_file.c, parse_options).
Stops(os) ==
    {i \in 1..Len(os) :
        \/ os[i].o \notin FileModes
        \/ \E j \in 1..i-1 : os[j].o \in FileModes \ {os[i].o}}
Modes(os) == {i \in 1..Len(os) : \A j \in Stops(os) : i < j}
LineObeyed ==
    pc \in {"crypt", "decrypt", "list"} =>
        LET os == line.opts
            ms == Modes(os) IN
        /\ pc = "crypt" => \E i \in ms : os[i].o = "e"
        /\ pc = "decrypt" => \A i \in ms : os[i].o = "d"
        /\ pc = "list" => os[Cardinality(ms) + 1].o = "l"
        /\ sfile # Null => /\ os[Cardinality(ms)].a = sfile
                           /\ \A i \in ms : os[i].o = os[1].o

\* The static state, optind and the global client are what the current line
\* made of them, and the line is obeyed.
CommandState == TypeOK /\ LineObeyed

\* The program dies of a NULL pointer in no other way than these: "file" before
\* a registration, or after one whose store could not be opened; an insertion
\* after a commit whose meta page could not be written, with no registration in
\* between; and a registration without name or password that skipped their
\* check, by an option it rejected or by -g.
CrashExplained ==
    pc = "crashed" =>
        \/ line.cmd = "file" /\ user = Null /\ flags \cap {"e", "d"} # {}
        \/ line.cmd = "file" /\ db = Null /\ flags \cap {"e", "l"} # {}
        \/ line.cmd = "file" /\ panic /\ "e" \in flags
        \/ line.cmd = "user" /\ ~({"u", "p"} \subseteq flags) /\ (invalid \/ "g" \in flags)

\* A local record has its counterpart in redis unless its HMSET was lost,
\* also when the program was killed in between.
LocalImpliesRemote ==
    \A r \in store : r.uuid \in {q.uuid : q \in remote} \cup lost

\* As long as nothing failed, every encryption that is on a file, below
\* others or not, has a local record under the uuid of that ciphertext.
Recorded(f, i) == \E r \in store : r.uuid = Uuid(f, SubSeq(disk[f], 1, i))
EncryptedIsRecorded ==
    clean /\ pc \in {"prompt", "dead"} =>
        \A f \in File : \A i \in 1..Len(disk[f]) :
            disk[f][i][2] = 1 => Recorded(f, i)

\* Every command comes back to the prompt, unless the program ends, redis does
\* not answer, or the insertion waits for a mutex that a live process, maybe
\* this one, will not give back.
MutexNeverFree == pc = "store" /\ db # Null /\ db[1] \in held
CommandsReturn ==
    (pc # "prompt") ~> \/ pc \in {"prompt", "dead", "crashed"}
                       \/ net = "silent" \/ MutexNeverFree
=============================================================================
