------------------------------- MODULE Mkdirp -------------------------------
(***************************************************************************)
(* The directory of the local store: kx_creat_db looks whether it exists   *)
(* and calls kx_mkdirp, which makes the directories above it first.  Other *)
(* rkx processes do the same at the same time.  A path is a sequence of    *)
(* names and separators.                                                   *)
(***************************************************************************)
EXTENDS Integers, Sequences, SequencesExt, FiniteSetsExt

CONSTANTS
    KProcs,         \* rkx processes
    Files,          \* names of files
    Paths,          \* arguments dbpath
    Before          \* sets of directories there may be before: sequences of names
                    \* that start with "/" or with ".", the working directory

Sep == "/"
Elements == Files \cup {Sep, "."}

\* A name is all that stands between two separators.
Spelled(path) ==
    path \in Seq(Elements) /\ \A i \in 1..Len(path) - 1 : path[i] = Sep \/ path[i + 1] = Sep

ASSUME MkdirpAssumption ==
    /\ {Sep, "."} \cap Files = {}
    /\ \A path \in Paths : Spelled(path)

VARIABLES
    dirs, files,    \* the file system; directories and other files
    proc            \* the processes: path; chain: calls of kx_mkdirp in
                    \* progress, the innermost last; ret; fault: history

kvars == <<dirs, files, proc>>

\* done and the elements of path at the places K.
Keeping(done, path, K) ==
    LET kept[i \in 0..Len(path)] ==
            IF i = 0 THEN done ELSE IF i \in K THEN Append(kept[i - 1], path[i]) ELSE kept[i - 1]
    IN kept[Len(path)]

\* path_normalize: of several separators one stays.
FirstOfRow(path) == {i \in 1..Len(path) : path[i] # Sep \/ i = 1 \/ path[i - 1] # Sep}
path_normalize(path) == Keeping(<<>>, path, FirstOfRow(path))
\* What stands before the last separator; empty if that is the first character
\* or there is none.
Seps(path) == {i \in 1..Len(path) : path[i] = Sep}
Parent(path) == IF Seps(path) = {} THEN <<>> ELSE SubSeq(path, 1, Max(Seps(path)) - 1)

\* The file a path names.
Base(path) == IF path # <<>> /\ path[1] = Sep THEN Sep ELSE "."
Target(path) == Keeping(<<Base(path)>>, path, {i \in 1..Len(path) : path[i] \notin {Sep, "."}})
Exists2(path) == path # <<>> /\ Target(path) \in dirs \cup files

MkdirpInit ==
    /\ \E d \in Before : dirs = d \cup {<<Sep>>, <<".">>}
    /\ files \in {{}} \cup {{Target(path)} : path \in Paths}
    /\ files \cap dirs = {}
    /\ \A f \in files : Front(f) \in dirs
    /\ proc = [k \in KProcs |-> [at |-> "stat", path |-> <<>>, chain |-> <<>>, ret |-> 0,
                                 fault |-> FALSE]]

\* stat(dbpath) of kx_creat_db
Stat(k, path) ==
    /\ proc[k].at = "stat"
    /\ proc' = [proc EXCEPT ![k] =
                  IF Exists2(path) THEN [@ EXCEPT !.at = "open", !.path = path]
                  ELSE [@ EXCEPT !.at = "call", !.path = path, !.chain = <<path_normalize(path)>>]]
    /\ UNCHANGED <<dirs, files>>

\* kx_mkdirp calls itself for the directory above, if there is one.
pathname(k) == Last(proc[k].chain)
CallAbove(k) ==
    /\ proc[k].at = "call"
    /\ proc' = [proc EXCEPT ![k] =
                  IF Parent(pathname(k)) = <<>> THEN [@ EXCEPT !.at = "mkdir"]
                  ELSE [@ EXCEPT !.chain = Append(proc[k].chain, path_normalize(Parent(pathname(k))))]]
    /\ UNCHANGED <<dirs, files>>

\* mkdir of the innermost call, which then returns 0 to the next.
Returns0(k) ==
    proc' = [proc EXCEPT ![k] = [@ EXCEPT !.chain = Front(proc[k].chain),
                                          !.at = IF Len(proc[k].chain) = 1 THEN "open" ELSE "mkdir"]]
Fails(k, fault) ==
    proc' = [proc EXCEPT ![k] = [@ EXCEPT !.chain = <<>>, !.at = "open", !.ret = 1, !.fault = fault]]
MkdirMakes(k) ==
    /\ proc[k].at = "mkdir" /\ pathname(k) # <<>> /\ ~Exists2(pathname(k))
    /\ Front(Target(pathname(k))) \in dirs
    /\ dirs' = dirs \cup {Target(pathname(k))}
    /\ Returns0(k)
    /\ UNCHANGED files
\* EEXIST is as good as success.  Mutant: it is not.
MkdirExistsFails(k) ==
    /\ proc[k].at = "mkdir" /\ Exists2(pathname(k))
    /\ Fails(k, FALSE)
    /\ UNCHANGED <<dirs, files>>
MkdirExists(k) ==
    /\ proc[k].at = "mkdir" /\ Exists2(pathname(k))
    /\ Returns0(k)
    /\ UNCHANGED <<dirs, files>>
\* ENOENT or ENOTDIR, and any other failure: -1 from all calls.
MkdirFails(k) ==
    /\ proc[k].at = "mkdir"
    /\ \/ /\ ~Exists2(pathname(k))
          /\ pathname(k) = <<>> \/ Front(Target(pathname(k))) \notin dirs
          /\ Fails(k, FALSE)
       \/ Fails(k, TRUE)
    /\ UNCHANGED <<dirs, files>>
\* mdb_env_open, whatever kx_mkdirp returned.
OpenEnv(k) ==
    /\ proc[k].at = "open"
    /\ proc' = [proc EXCEPT ![k].at = IF Target(proc[k].path) \in dirs /\ proc[k].path # <<>>
                                      THEN "opened" ELSE "failed"]
    /\ UNCHANGED <<dirs, files>>
MkdirpEnd == (\A k \in KProcs : proc[k].at \in {"opened", "failed"}) /\ UNCHANGED kvars

MkdirpNext ==
    \/ \E k \in KProcs : \/ \E path \in Paths : Stat(k, path)
                         \/ CallAbove(k) \/ MkdirMakes(k) \/ MkdirExists(k) \/ MkdirFails(k) \/ OpenEnv(k)
    \/ MkdirpEnd

MkdirpSpec == MkdirpInit /\ [][MkdirpNext]_kvars

-----------------------------------------------------------------------------
InTheWay(path) == \E f \in files : IsPrefix(f, Target(path))

\* Whoever else makes the same directories in between, and however the path
\* is written, a process finds its directory made when kx_mkdirp returns 0,
\* and it does so unless a call of mkdir failed for a reason of its own, a
\* file is in the way or the path is empty.
DirectoryMade ==
    \A k \in KProcs : proc[k].at \in {"open", "opened", "failed"} =>
        /\ proc[k].ret = 0 => Exists2(proc[k].path)
        /\ proc[k].ret # 0 => proc[k].fault \/ InTheWay(proc[k].path) \/ proc[k].path = <<>>
=============================================================================
