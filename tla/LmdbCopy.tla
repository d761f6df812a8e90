------------------------------ MODULE LmdbCopy ------------------------------
(***************************************************************************)
(* mdb_env_copy2 and the backup tool mdb_copy: a file is created, the      *)
(* environment is copied into it in one of two ways, the file is closed.   *)
(***************************************************************************)
EXTENDS LmdbCompact, LmdbAsIs

VARIABLES
    cpflags,    \* MDB_CP_COMPACT or none
    act         \* what mdb_env_copy2 does; at last its result

copyvars == <<cpflags, act, cvars, avars>>

CopyInit ==
    /\ cpflags \in {"none", "MDB_CP_COMPACT"}
    /\ act = "open"
    /\ CompactInit /\ AsIsInit
    /\ cpflags = "none" => root0 = 0 /\ leaked = 0

\* mdb_fopen of the new file.
OpenCopy ==
    /\ act = "open"
    /\ act' \in {"copy", "error"}
    /\ UNCHANGED <<cpflags, cvars, avars>>
\* mdb_env_copyfd2
copyfd2 ==
    /\ act = "copy"
    /\ \/ cpflags = "MDB_CP_COMPACT" /\ CompactNext /\ UNCHANGED avars
       \/ cpflags = "none" /\ AsIsNext /\ UNCHANGED cvars
    /\ UNCHANGED <<cpflags, act>>
\* An error of close() counts if there was none before.
result == IF cpflags = "none" THEN cret ELSE ret
CloseCopy ==
    /\ act = "copy" /\ result # "none"
    /\ act' \in {result, "error"}
    /\ UNCHANGED <<cpflags, cvars, avars>>
CopyEnd == act \in {"ok", "error"} /\ UNCHANGED copyvars
CopyNext == OpenCopy \/ copyfd2 \/ CloseCopy \/ CopyEnd

Compacting(Step) == act = "copy" /\ cpflags = "MDB_CP_COMPACT" /\ Step /\ UNCHANGED <<cpflags, act, avars>>
AsItIs(Step) == act = "copy" /\ cpflags = "none" /\ Step /\ UNCHANGED <<cpflags, act, cvars>>
\* Every thread is scheduled, and a write transaction ends; nothing is said of
\* wake-ups without a signal.
CopyFairness ==
    /\ WF_copyvars(CloseCopy)
    /\ WF_copyvars(Compacting(Walker)) /\ WF_copyvars(Compacting(Writer))
    /\ WF_copyvars(AsItIs(WCommit)) /\ WF_copyvars(AsItIs(WEnd)) /\ WF_copyvars(AsItIs(AsIsCopier))

\* mdb_env_copy2 reports a copy as made only if the copying was (LmdbAsIs and
\* AsIsFaithful for the one way), and a compacted copy can be opened and holds
\* the snapshot with all pages at their new numbers, whichever write() failed or
\* was short and whichever of the two threads was faster (mdb_env_copyfd1).
CopyFaithful ==
    act = "ok" => result = "ok" /\ (cpflags = "MDB_CP_COMPACT" => CompactComplete)

\* The copy ends, also after an error of either thread: the walking and the
\* writing thread of mdb_env_copyfd1 never both wait for a signal.
CopyReturns == act = "copy" ~> act \in {"ok", "error"}
=============================================================================
