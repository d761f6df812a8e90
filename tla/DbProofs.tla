----------------------------- MODULE DbProofs -----------------------------
(***************************************************************************)
(* Proofs about Db for every number of processes, files, reader slots and  *)
(* operations.                                                             *)
(***************************************************************************)
EXTENDS Db, TLAPS

\* Types of the lock region and of what each process does with it.
LockTypes ==
    /\ open \in [Procs -> BOOLEAN]
    /\ pc \in [Procs -> Pcs]
    /\ wlock \in Procs \cup {NoProc, Dead}
    /\ slots \in [Slot -> SlotState]
    /\ tls \in [Procs -> Slot \cup {0}]

\* Functions that hold the data of the transactions.
DataTypes ==
    /\ arg \in [Procs -> Uuids]
    /\ DOMAIN snap = Procs /\ snap = [p \in Procs |-> snap[p]]
    /\ DOMAIN newKey = Procs /\ newKey = [p \in Procs |-> newKey[p]]

\* A process is in an operation only while it has the environment open.
BusyIsOpen == \A p \in Procs : pc[p] # "idle" => open[p]

\* The inductive invariant of the lock region: who is inside a transaction
\* has the environment open, so that nobody initialises the region under it.
LockInv ==
    /\ LockTypes /\ DataTypes /\ BusyIsOpen
    /\ OneWriter /\ SlotsOwned /\ ReadersRegistered

\* Every record is stored under a key that belongs to its file, and so is the
\* record that is about to be committed.
KeysMatch ==
    /\ \A r \in store : r = [key |-> r.key, file |-> r.file]
                          /\ r.file \in Uuids /\ r.key \in InsertKeys(r.file)
    /\ \A p \in Procs : pc[p] = "w_commit" => newKey[p] \in InsertKeys(arg[p])

\* strlen("user:uuid") is at least the 8 bytes of the uuid: a user name and
\* a uuid of 6 digits or more.
LongKeys == \A f \in Uuids : KeyLen[f] >= 8

\* A thread that begins to read takes the slot it has, or one nobody claims.
LEMMA BeginReadSlot ==
    ASSUME LockTypes, NEW p \in Procs, BeginRead(p)
    PROVE  \E s \in Slot :
              /\ slots[s].pid \in {NoProc, p}
              /\ slots' = [slots EXCEPT ![s] = [pid |-> p, txn |-> "active"]]
              /\ tls' = [tls EXCEPT ![p] = s]
<1> USE DEF BeginRead, LockTypes
<1>1. CASE tls[p] # 0
  <2>1. tls[p] \in Slot /\ slots[tls[p]] = [pid |-> p, txn |-> "none"] /\ tls' = tls
    BY <1>1
  <2>2. slots' = [slots EXCEPT ![tls[p]] = [pid |-> p, txn |-> "active"]]
    BY <1>1, <2>1
  <2>3. tls' = [tls EXCEPT ![p] = tls[p]]
    BY <2>1
  <2> QED
    BY <2>1, <2>2, <2>3
<1>2. CASE tls[p] = 0
  <2>1. PICK s \in FirstUnused :
            /\ slots' = [slots EXCEPT ![s] = [pid |-> p, txn |-> "active"]]
            /\ tls' = [tls EXCEPT ![p] = s]
    BY <1>2
  <2>2. s \in Slot /\ slots[s].pid = NoProc
    BY <2>1 DEF FirstUnused, Unused
  <2> QED
    BY <2>1, <2>2
<1> QED
    BY <1>1, <1>2

\* The same when the environment handle is of no use, but no transaction stays.
LEMMA BeginReadPanicsSlot ==
    ASSUME LockTypes, NEW p \in Procs, BeginReadPanics(p)
    PROVE  \E s \in Slot :
              /\ slots[s].pid \in {NoProc, p}
              /\ slots' = [slots EXCEPT ![s] = [pid |-> p, txn |-> "none"]]
              /\ tls' = [tls EXCEPT ![p] = s]
<1> USE DEF BeginReadPanics, LockTypes
<1>1. CASE tls[p] # 0
  <2>1. tls[p] \in Slot /\ slots[tls[p]] = [pid |-> p, txn |-> "none"] /\ tls' = tls
    BY <1>1
  <2>2. slots' = [slots EXCEPT ![tls[p]] = [pid |-> p, txn |-> "none"]]
    BY <1>1, <2>1
  <2>3. tls' = [tls EXCEPT ![p] = tls[p]]
    BY <2>1
  <2> QED
    BY <2>1, <2>2, <2>3
<1>2. CASE tls[p] = 0
  <2>1. PICK s \in FirstUnused :
            /\ slots' = [slots EXCEPT ![s] = [pid |-> p, txn |-> "none"]]
            /\ tls' = [tls EXCEPT ![p] = s]
    BY <1>2
  <2>2. s \in Slot /\ slots[s].pid = NoProc
    BY <2>1 DEF FirstUnused, Unused
  <2> QED
    BY <2>1, <2>2
<1> QED
    BY <1>1, <1>2

\* Every step keeps the types of the lock region.
LEMMA LockTypesStep ==
    ASSUME LockTypes, [Next]_vars
    PROVE  LockTypes'
<1> USE DbAssumption DEF LockTypes, Pcs, SlotState, Slot, FreeSlot
<1>1. ASSUME NEW p \in Procs, CreatDb(p) \/ Exit(p) \/ Step(p) \/ PutFails(p)
                \/ \E o \in Ops, f \in Uuids : Call(p, o, f)
      PROVE  LockTypes'
  <2>1. CASE CreatDb(p)
    BY <2>1 DEF CreatDb, OpenEnv
  <2>2. CASE Exit(p)
    BY <2>2 DEF Exit, Vanish
  <2>3. CASE \E o \in Ops, f \in Uuids : Call(p, o, f)
    BY <2>3 DEF Call, txnVars
  <2>4. CASE BeginWrite(p)
    BY <2>4 DEF BeginWrite, BeginWriteAs, Recovered
  <2>5. CASE PutRecord(p)
    BY <2>5 DEF PutRecord, txnVars
  <2>6. CASE PutFails(p)
    BY <2>6 DEF PutFails, Return, txnVars
  <2>7. CASE Commit(p)
    BY <2>7 DEF Commit, Return, Put
  <2>8. CASE BeginRead(p)
    <3>1. PICK s \in Slot : /\ slots[s].pid \in {NoProc, p}
                            /\ slots' = [slots EXCEPT ![s] = [pid |-> p, txn |-> "active"]]
                            /\ tls' = [tls EXCEPT ![p] = s]
        BY <2>8, BeginReadSlot
    <3> QED
        BY <2>8, <3>1 DEF BeginRead
  <2>9. CASE BeginReadFails(p)
    BY <2>9 DEF BeginReadFails, Return, txnVars
  <2>10. CASE ListFiles(p)
    BY <2>10 DEF ListFiles, EndRead, Return
  <2>11. CASE GetFound(p)
    BY <2>11 DEF GetFound, EndRead, Return
  <2>12. CASE GetMissed(p)
    BY <2>12 DEF GetMissed, Return, txnVars
  <2>13. CASE BeginWritePanics(p)
    BY <2>13 DEF BeginWritePanics, Vanish, Recovered
  <2>14. CASE BeginReadPanics(p)
    <3>1. PICK s \in Slot : /\ slots[s].pid \in {NoProc, p}
                            /\ slots' = [slots EXCEPT ![s] = [pid |-> p, txn |-> "none"]]
                            /\ tls' = [tls EXCEPT ![p] = s]
        BY <2>14, BeginReadPanicsSlot
    <3> QED
        BY <2>14, <3>1 DEF BeginReadPanics, Return
  <2> QED
    BY <1>1, <2>1, <2>2, <2>3, <2>4, <2>5, <2>6, <2>7, <2>8, <2>9, <2>10, <2>11, <2>12,
       <2>13, <2>14 DEF Step
<1>2. CASE Ended \/ UNCHANGED vars
    BY <1>2 DEF Ended, vars
<1> QED
    BY <1>1, <1>2 DEF Next

\* Every step keeps the types of the data.
LEMMA DataTypesStep ==
    ASSUME DataTypes, [Next]_vars
    PROVE  DataTypes'
<1> USE DEF DataTypes
<1>1. ASSUME NEW p \in Procs, CreatDb(p) \/ Exit(p) \/ Step(p) \/ PutFails(p)
                \/ \E o \in Ops, f \in Uuids : Call(p, o, f)
      PROVE  DataTypes'
  <2>1. CASE CreatDb(p)
    BY <2>1 DEF CreatDb, OpenEnv
  <2>2. CASE Exit(p)
    BY <2>2 DEF Exit, Vanish
  <2>3. CASE \E o \in Ops, f \in Uuids : Call(p, o, f)
    BY <2>3 DEF Call, txnVars
  <2>4. CASE BeginWrite(p)
    BY <2>4 DEF BeginWrite, BeginWriteAs, Recovered
  <2>5. CASE PutRecord(p)
    BY <2>5 DEF PutRecord, txnVars
  <2>6. CASE PutFails(p)
    BY <2>6 DEF PutFails, Return, txnVars
  <2>7. CASE Commit(p)
    BY <2>7 DEF Commit, Return, Put
  <2>8. CASE BeginRead(p)
    BY <2>8 DEF BeginRead, FirstUnused, Unused
  <2>9. CASE BeginReadFails(p)
    BY <2>9 DEF BeginReadFails, Return, txnVars
  <2>10. CASE ListFiles(p)
    BY <2>10 DEF ListFiles, EndRead, Return
  <2>11. CASE GetFound(p)
    BY <2>11 DEF GetFound, EndRead, Return
  <2>12. CASE GetMissed(p)
    BY <2>12 DEF GetMissed, Return, txnVars
  <2>13. CASE BeginWritePanics(p)
    BY <2>13 DEF BeginWritePanics, Vanish, Recovered
  <2>14. CASE BeginReadPanics(p)
    BY <2>14 DEF BeginReadPanics, FirstUnused, Unused, Return
  <2> QED
    BY <1>1, <2>1, <2>2, <2>3, <2>4, <2>5, <2>6, <2>7, <2>8, <2>9, <2>10, <2>11, <2>12,
       <2>13, <2>14 DEF Step
<1>2. CASE Ended \/ UNCHANGED vars
    BY <1>2 DEF Ended, vars
<1> QED
    BY <1>1, <1>2 DEF Next

\* No step closes the environment under an operation of its process.
LEMMA BusyIsOpenStep ==
    ASSUME LockTypes, BusyIsOpen, [Next]_vars
    PROVE  BusyIsOpen'
<1> USE DbAssumption DEF BusyIsOpen, LockTypes
<1>1. ASSUME NEW p \in Procs, CreatDb(p) \/ Exit(p) \/ Step(p) \/ PutFails(p)
                \/ \E o \in Ops, f \in Uuids : Call(p, o, f)
      PROVE  BusyIsOpen'
  <2>1. CASE CreatDb(p)
    BY <2>1 DEF CreatDb, OpenEnv
  <2>2. CASE Exit(p)
    BY <2>2 DEF Exit, Vanish
  <2>3. CASE \E o \in Ops, f \in Uuids : Call(p, o, f)
    BY <2>3 DEF Call, txnVars
  <2>4. CASE BeginWrite(p)
    BY <2>4 DEF BeginWrite, BeginWriteAs, Recovered
  <2>5. CASE PutRecord(p)
    BY <2>5 DEF PutRecord, txnVars
  <2>6. CASE PutFails(p)
    BY <2>6 DEF PutFails, Return, txnVars
  <2>7. CASE Commit(p)
    BY <2>7 DEF Commit, Return, Put
  <2>8. CASE BeginRead(p)
    BY <2>8 DEF BeginRead, FirstUnused, Unused
  <2>9. CASE BeginReadFails(p)
    BY <2>9 DEF BeginReadFails, Return, txnVars
  <2>10. CASE ListFiles(p)
    BY <2>10 DEF ListFiles, EndRead, Return
  <2>11. CASE GetFound(p)
    BY <2>11 DEF GetFound, EndRead, Return
  <2>12. CASE GetMissed(p)
    BY <2>12 DEF GetMissed, Return, txnVars
  <2>13. CASE BeginWritePanics(p)
    BY <2>13 DEF BeginWritePanics, Vanish, Recovered
  <2>14. CASE BeginReadPanics(p)
    BY <2>14 DEF BeginReadPanics, FirstUnused, Unused, Return
  <2> QED
    BY <1>1, <2>1, <2>2, <2>3, <2>4, <2>5, <2>6, <2>7, <2>8, <2>9, <2>10, <2>11, <2>12,
       <2>13, <2>14 DEF Step
<1>2. CASE Ended \/ UNCHANGED vars
    BY <1>2 DEF Ended, vars
<1> QED
    BY <1>1, <1>2 DEF Next

\* Every step keeps writers apart.
LEMMA OneWriterStep ==
    ASSUME LockInv, [Next]_vars
    PROVE  OneWriter'
<1> USE DbAssumption DEF LockInv, LockTypes, DataTypes, BusyIsOpen, OneWriter, Writing, Exclusive
<1>1. ASSUME NEW p \in Procs, CreatDb(p) \/ Exit(p) \/ Step(p) \/ PutFails(p)
                \/ \E o \in Ops, f \in Uuids : Call(p, o, f)
      PROVE  OneWriter'
  <2>1. CASE CreatDb(p)
    BY <2>1 DEF CreatDb, OpenEnv
  <2>2. CASE Exit(p)
    BY <2>2 DEF Exit, Vanish
  <2>3. CASE \E o \in Ops, f \in Uuids : Call(p, o, f)
    BY <2>3 DEF Call, txnVars
  <2>4. CASE BeginWrite(p)
    BY <2>4 DEF BeginWrite, BeginWriteAs, Recovered
  <2>5. CASE PutRecord(p)
    BY <2>5 DEF PutRecord, txnVars
  <2>6. CASE PutFails(p)
    BY <2>6 DEF PutFails, Return, txnVars
  <2>7. CASE Commit(p)
    BY <2>7 DEF Commit, Return, Put
  <2>8. CASE BeginRead(p)
    BY <2>8 DEF BeginRead, FirstUnused, Unused
  <2>9. CASE BeginReadFails(p)
    BY <2>9 DEF BeginReadFails, Return, txnVars
  <2>10. CASE ListFiles(p)
    BY <2>10 DEF ListFiles, EndRead, Return
  <2>11. CASE GetFound(p)
    BY <2>11 DEF GetFound, EndRead, Return
  <2>12. CASE GetMissed(p)
    BY <2>12 DEF GetMissed, Return, txnVars
  <2>13. CASE BeginWritePanics(p)
    BY <2>13 DEF BeginWritePanics, Vanish, Recovered
  <2>14. CASE BeginReadPanics(p)
    BY <2>14 DEF BeginReadPanics, FirstUnused, Unused, Return
  <2> QED
    BY <1>1, <2>1, <2>2, <2>3, <2>4, <2>5, <2>6, <2>7, <2>8, <2>9, <2>10, <2>11, <2>12,
       <2>13, <2>14 DEF Step
<1>2. CASE Ended \/ UNCHANGED vars
    BY <1>2 DEF Ended, vars
<1> QED
    BY <1>1, <1>2 DEF Next

\* No step takes the reader slot of a thread away from it.
LEMMA SlotsOwnedStep ==
    ASSUME LockInv, [Next]_vars
    PROVE  SlotsOwned'
<1> USE DbAssumption DEF LockInv, LockTypes, BusyIsOpen, SlotsOwned, Exclusive, Slot, SlotState, FreeSlot
<1>1. ASSUME NEW p \in Procs, CreatDb(p) \/ Exit(p) \/ Step(p) \/ PutFails(p)
                \/ \E o \in Ops, f \in Uuids : Call(p, o, f)
      PROVE  SlotsOwned'
  <2>1. CASE CreatDb(p)
    BY <2>1 DEF CreatDb, OpenEnv
  <2>2. CASE Exit(p)
    BY <2>2 DEF Exit, Vanish
  <2>3. CASE \E o \in Ops, f \in Uuids : Call(p, o, f)
    BY <2>3 DEF Call, txnVars
  <2>4. CASE BeginWrite(p)
    BY <2>4 DEF BeginWrite, BeginWriteAs, Recovered
  <2>5. CASE PutRecord(p)
    BY <2>5 DEF PutRecord, txnVars
  <2>6. CASE PutFails(p)
    BY <2>6 DEF PutFails, Return, txnVars
  <2>7. CASE Commit(p)
    BY <2>7 DEF Commit, Return, Put
  <2>8. CASE BeginRead(p)
    <3>1. PICK s \in Slot : /\ slots[s].pid \in {NoProc, p}
                            /\ slots' = [slots EXCEPT ![s] = [pid |-> p, txn |-> "active"]]
                            /\ tls' = [tls EXCEPT ![p] = s]
        BY <2>8, BeginReadSlot
    <3> QED
        BY <2>8, <3>1 DEF BeginRead
  <2>9. CASE BeginReadFails(p)
    BY <2>9 DEF BeginReadFails, Return, txnVars
  <2>10. CASE ListFiles(p)
    BY <2>10 DEF ListFiles, EndRead, Return
  <2>11. CASE GetFound(p)
    BY <2>11 DEF GetFound, EndRead, Return
  <2>12. CASE GetMissed(p)
    BY <2>12 DEF GetMissed, Return, txnVars
  <2>13. CASE BeginWritePanics(p)
    BY <2>13 DEF BeginWritePanics, Vanish, Recovered
  <2>14. CASE BeginReadPanics(p)
    BY <2>14 DEF BeginReadPanics, FirstUnused, Unused, Return
  <2> QED
    BY <1>1, <2>1, <2>2, <2>3, <2>4, <2>5, <2>6, <2>7, <2>8, <2>9, <2>10, <2>11, <2>12,
       <2>13, <2>14 DEF Step
<1>2. CASE Ended \/ UNCHANGED vars
    BY <1>2 DEF Ended, vars
<1> QED
    BY <1>1, <1>2 DEF Next

\* No step unregisters a reader.
LEMMA ReadersRegisteredStep ==
    ASSUME LockInv, [Next]_vars
    PROVE  ReadersRegistered'
<1> USE DbAssumption DEF LockInv, LockTypes, BusyIsOpen, SlotsOwned, ReadersRegistered, Exclusive, Slot, SlotState, FreeSlot
<1>1. ASSUME NEW p \in Procs, CreatDb(p) \/ Exit(p) \/ Step(p) \/ PutFails(p)
                \/ \E o \in Ops, f \in Uuids : Call(p, o, f)
      PROVE  ReadersRegistered'
  <2>1. CASE CreatDb(p)
    BY <2>1 DEF CreatDb, OpenEnv
  <2>2. CASE Exit(p)
    BY <2>2 DEF Exit, Vanish
  <2>3. CASE \E o \in Ops, f \in Uuids : Call(p, o, f)
    BY <2>3 DEF Call, txnVars
  <2>4. CASE BeginWrite(p)
    BY <2>4 DEF BeginWrite, BeginWriteAs, Recovered
  <2>5. CASE PutRecord(p)
    BY <2>5 DEF PutRecord, txnVars
  <2>6. CASE PutFails(p)
    BY <2>6 DEF PutFails, Return, txnVars
  <2>7. CASE Commit(p)
    BY <2>7 DEF Commit, Return, Put
  <2>8. CASE BeginRead(p)
    <3>1. PICK s \in Slot : /\ slots[s].pid \in {NoProc, p}
                            /\ slots' = [slots EXCEPT ![s] = [pid |-> p, txn |-> "active"]]
                            /\ tls' = [tls EXCEPT ![p] = s]
        BY <2>8, BeginReadSlot
    <3> QED
        BY <2>8, <3>1 DEF BeginRead
  <2>9. CASE BeginReadFails(p)
    BY <2>9 DEF BeginReadFails, Return, txnVars
  <2>10. CASE ListFiles(p)
    BY <2>10 DEF ListFiles, EndRead, Return
  <2>11. CASE GetFound(p)
    BY <2>11 DEF GetFound, EndRead, Return
  <2>12. CASE GetMissed(p)
    BY <2>12 DEF GetMissed, Return, txnVars
  <2>13. CASE BeginWritePanics(p)
    BY <2>13 DEF BeginWritePanics, Vanish, Recovered
  <2>14. CASE BeginReadPanics(p)
    BY <2>14 DEF BeginReadPanics, FirstUnused, Unused, Return
  <2> QED
    BY <1>1, <2>1, <2>2, <2>3, <2>4, <2>5, <2>6, <2>7, <2>8, <2>9, <2>10, <2>11, <2>12,
       <2>13, <2>14 DEF Step
<1>2. CASE Ended \/ UNCHANGED vars
    BY <1>2 DEF Ended, vars
<1> QED
    BY <1>1, <1>2 DEF Next

\* The invariant of the lock region holds in every reachable state.
THEOREM LockRegion == Spec => []LockInv
<1>1. Init => LockInv
    BY DbAssumption DEF Init, LockInv, LockTypes, DataTypes, BusyIsOpen, OneWriter,
       SlotsOwned, ReadersRegistered, Pcs, SlotState, Slot, FreeSlot, Writing
<1>2. LockInv /\ [Next]_vars => LockInv'
    BY LockTypesStep, DataTypesStep, BusyIsOpenStep, OneWriterStep, SlotsOwnedStep,
       ReadersRegisteredStep DEF LockInv
<1> QED
    BY <1>1, <1>2, PTL DEF Spec

\* Writers exclude each other, and readers keep their slots and are registered,
\* whatever is killed, started again or initialised.
THEOREM LockRegionKept == Spec => []LockRegionSound
<1>1. LockInv => LockRegionSound
    BY DEF LockInv, LockRegionSound
<1> QED
    BY <1>1, LockRegion, PTL

\* insert_file: of all processes that share the environment at most one is
\* inside a write transaction, and it started from the latest database,
\* whatever is killed or reopened.
THEOREM WritersExclude == Spec => []OneWriter
<1>1. LockInv => OneWriter
    BY DEF LockInv
<1> QED
    BY <1>1, LockRegion, PTL

\* A thread's reader slot is never given to, or cleared by, another process.
THEOREM SlotsStayOwned == Spec => []SlotsOwned
<1>1. LockInv => SlotsOwned
    BY DEF LockInv
<1> QED
    BY <1>1, LockRegion, PTL

\* Whoever reads is in the reader table, so that no writer reuses the pages.
THEOREM ReadersStayRegistered == Spec => []ReadersRegistered
<1>1. LockInv => ReadersRegistered
    BY DEF LockInv
<1> QED
    BY <1>1, LockRegion, PTL

-----------------------------------------------------------------------------

\* Keys of 8 bytes or more tell the files apart.
LEMMA KeysDisjoint ==
    ASSUME LongKeys, NEW f \in Uuids, NEW g \in Uuids,
           NEW k \in InsertKeys(f), k \in InsertKeys(g)
    PROVE  f = g
<1>1. k[1] = f
    BY DbAssumption DEF LongKeys, InsertKeys
<1>2. k[1] = g
    BY DbAssumption DEF LongKeys, InsertKeys
<1> QED
    BY <1>1, <1>2

\* What a commit does to the files in the store.
LEMMA PutFiles ==
    ASSUME LongKeys, KeysMatch, NEW f \in Uuids, NEW k \in InsertKeys(f)
    PROVE  {r.file : r \in Put(store, k, f)} = {r.file : r \in store} \cup {f}
<1>1. ASSUME NEW r \in store, r.key = k
      PROVE  r.file = f
    BY <1>1, KeysDisjoint DEF KeysMatch
<1>2. ASSUME NEW x \in {r.file : r \in Put(store, k, f)}
      PROVE  x \in {r.file : r \in store} \cup {f}
    BY <1>2 DEF Put
<1>3. ASSUME NEW x \in {r.file : r \in store}
      PROVE  x \in {r.file : r \in Put(store, k, f)}
  <2>1. PICK r \in store : x = r.file
    BY <1>3
  <2>2. CASE r.key = k
    <3>1. [key |-> k, file |-> f] \in Put(store, k, f)
        BY DEF Put
    <3>2. [key |-> k, file |-> f].file = x
        BY <1>1, <2>1, <2>2
    <3> QED
        BY <3>1, <3>2
  <2>3. CASE r.key # k
    <3>1. r \in Put(store, k, f)
        BY <2>3 DEF Put
    <3> QED
        BY <2>1, <3>1
  <2> QED
    BY <2>2, <2>3
<1>4. f \in {r.file : r \in Put(store, k, f)}
  <2>1. [key |-> k, file |-> f] \in Put(store, k, f)
    BY DEF Put
  <2>2. [key |-> k, file |-> f].file = f
    OBVIOUS
  <2> QED
    BY <2>1, <2>2
<1> QED
    BY <1>2, <1>3, <1>4

\* The records that a commit leaves carry keys of their own files.
LEMMA PutMatches ==
    ASSUME KeysMatch, NEW f \in Uuids, NEW k \in InsertKeys(f), NEW r \in Put(store, k, f)
    PROVE  r = [key |-> r.key, file |-> r.file] /\ r.file \in Uuids /\ r.key \in InsertKeys(r.file)
    BY DEF Put, KeysMatch

\* Every step keeps records under keys of their files.
LEMMA KeysMatchStep ==
    ASSUME LockInv, KeysMatch, [Next]_vars
    PROVE  KeysMatch'
<1> USE DEF KeysMatch, LockInv, LockTypes, DataTypes
<1>1. ASSUME NEW p \in Procs, CreatDb(p) \/ Exit(p) \/ Step(p) \/ PutFails(p)
                \/ \E o \in Ops, f \in Uuids : Call(p, o, f)
      PROVE  KeysMatch'
  <2>1. CASE CreatDb(p)
    BY <2>1 DEF CreatDb, OpenEnv
  <2>2. CASE Exit(p)
    BY <2>2 DEF Exit, Vanish
  <2>3. CASE \E o \in Ops, f \in Uuids : Call(p, o, f)
    BY <2>3 DEF Call, txnVars
  <2>4. CASE BeginWrite(p)
    BY <2>4 DEF BeginWrite, BeginWriteAs, Recovered
  <2>5. CASE PutRecord(p)
    <3>1. PICK k \in InsertKeys(arg[p]) : newKey' = [newKey EXCEPT ![p] = k]
        BY <2>5 DEF PutRecord
    <3> QED
        BY <2>5, <3>1 DEF PutRecord, txnVars, KeysMatch, LockInv, LockTypes, DataTypes
  <2>6. CASE PutFails(p)
    BY <2>6 DEF PutFails, Return, txnVars
  <2>7. CASE Commit(p)
    <3>1. pc[p] = "w_commit" /\ snap[p] = store /\ arg[p] \in Uuids
        BY <2>7 DEF Commit, LockInv, OneWriter, Writing, DataTypes
    <3>2. newKey[p] \in InsertKeys(arg[p])
        BY <3>1 DEF KeysMatch
    <3>3. store' = Put(store, newKey[p], arg[p]) \/ store' = store
        BY <2>7, <3>1 DEF Commit
    <3>4. pc' = [pc EXCEPT ![p] = "idle"] /\ newKey' = newKey /\ arg' = arg
        BY <2>7 DEF Commit, Return
    <3> QED
        BY <3>1, <3>2, <3>3, <3>4, PutMatches DEF KeysMatch, LockInv, LockTypes
  <2>8. CASE BeginRead(p)
    BY <2>8 DEF BeginRead, FirstUnused, Unused
  <2>9. CASE BeginReadFails(p)
    BY <2>9 DEF BeginReadFails, Return, txnVars
  <2>10. CASE ListFiles(p)
    BY <2>10 DEF ListFiles, EndRead, Return
  <2>11. CASE GetFound(p)
    BY <2>11 DEF GetFound, EndRead, Return
  <2>12. CASE GetMissed(p)
    BY <2>12 DEF GetMissed, Return, txnVars
  <2>13. CASE BeginWritePanics(p)
    BY <2>13 DEF BeginWritePanics, Vanish, Recovered
  <2>14. CASE BeginReadPanics(p)
    BY <2>14 DEF BeginReadPanics, FirstUnused, Unused, Return
  <2> QED
    BY <1>1, <2>1, <2>2, <2>3, <2>4, <2>5, <2>6, <2>7, <2>8, <2>9, <2>10, <2>11, <2>12,
       <2>13, <2>14 DEF Step
<1>2. CASE Ended \/ UNCHANGED vars
    BY <1>2 DEF Ended, vars
<1> QED
    BY <1>1, <1>2 DEF Next

\* No step loses a record.
LEMMA NoRecordLostStep ==
    ASSUME LongKeys, LockInv, KeysMatch, NoRecordLost, [Next]_vars
    PROVE  NoRecordLost'
<1> USE DEF NoRecordLost
<1>1. ASSUME NEW p \in Procs, CreatDb(p) \/ Exit(p) \/ Step(p) \/ PutFails(p)
                \/ \E o \in Ops, f \in Uuids : Call(p, o, f)
      PROVE  NoRecordLost'
  <2>1. CASE CreatDb(p)
    BY <2>1 DEF CreatDb, OpenEnv
  <2>2. CASE Exit(p)
    BY <2>2 DEF Exit, Vanish
  <2>3. CASE \E o \in Ops, f \in Uuids : Call(p, o, f)
    BY <2>3 DEF Call, txnVars
  <2>4. CASE BeginWrite(p)
    BY <2>4 DEF BeginWrite, BeginWriteAs, Recovered
  <2>5. CASE PutRecord(p)
    BY <2>5 DEF PutRecord, txnVars
  <2>6. CASE PutFails(p)
    BY <2>6 DEF PutFails, Return, txnVars
  <2>7. CASE Commit(p)
    <3>1. pc[p] = "w_commit" /\ snap[p] = store /\ arg[p] \in Uuids
        BY <2>7 DEF Commit, LockInv, OneWriter, Writing, DataTypes
    <3>2. newKey[p] \in InsertKeys(arg[p])
        BY <3>1 DEF KeysMatch
    <3>3. {r.file : r \in Put(store, newKey[p], arg[p])}
              = {r.file : r \in store} \cup {arg[p]}
        BY <3>1, <3>2, PutFiles
    <3>4. \/ store' = Put(store, newKey[p], arg[p]) /\ kept' = kept \cup {arg[p]}
          \/ store' = store /\ kept' = kept
        BY <2>7, <3>1 DEF Commit
    <3> QED
        BY <3>3, <3>4 DEF NoRecordLost
  <2>8. CASE BeginRead(p)
    BY <2>8 DEF BeginRead, FirstUnused, Unused
  <2>9. CASE BeginReadFails(p)
    BY <2>9 DEF BeginReadFails, Return, txnVars
  <2>10. CASE ListFiles(p)
    BY <2>10 DEF ListFiles, EndRead, Return
  <2>11. CASE GetFound(p)
    BY <2>11 DEF GetFound, EndRead, Return
  <2>12. CASE GetMissed(p)
    BY <2>12 DEF GetMissed, Return, txnVars
  <2>13. CASE BeginWritePanics(p)
    BY <2>13 DEF BeginWritePanics, Vanish, Recovered
  <2>14. CASE BeginReadPanics(p)
    BY <2>14 DEF BeginReadPanics, FirstUnused, Unused, Return
  <2> QED
    BY <1>1, <2>1, <2>2, <2>3, <2>4, <2>5, <2>6, <2>7, <2>8, <2>9, <2>10, <2>11, <2>12,
       <2>13, <2>14 DEF Step
<1>2. CASE Ended \/ UNCHANGED vars
    BY <1>2 DEF Ended, vars
<1> QED
    BY <1>1, <1>2 DEF Next

\* insert_file: with keys of 8 bytes or more, the store holds exactly the files
\* whose insertion was committed; no insertion, kill or recovery loses one.
THEOREM RecordsKept == LongKeys /\ Spec => []NoRecordLost
<1>1. ASSUME LongKeys
      PROVE  Spec => []NoRecordLost
  <2>1. Init => KeysMatch /\ NoRecordLost
    BY DEF Init, KeysMatch, NoRecordLost
  <2>2. LockInv /\ KeysMatch /\ NoRecordLost /\ [Next]_vars => KeysMatch' /\ NoRecordLost'
    BY <1>1, KeysMatchStep, NoRecordLostStep
  <2> QED
    BY <2>1, <2>2, LockRegion, PTL DEF Spec
<1> QED
    BY <1>1

-----------------------------------------------------------------------------
(* Types of the data, and readers that are left behind.                    *)

\* The part of TypeOK that LockTypes does not state.
RecordTypes ==
    /\ arg \in [Procs -> Uuids]
    /\ store \subseteq Record
    /\ snap \in [Procs -> SUBSET Record]
    /\ newKey \in [Procs -> Key \cup {<<>>}]
    /\ op \in [Procs -> {"none"} \cup Ops]
    /\ ret \in [Procs -> {"none", "0"}]
    /\ out \in [Procs -> Uuids \cup {NoProc}]
    /\ kept \subseteq Uuids
    /\ missed \in [Procs -> BOOLEAN] /\ panic \in [Procs -> BOOLEAN]
    /\ calls \in 0..MaxCalls /\ opens \in 0..MaxOpens

\* What a commit writes are records.
LEMMA PutRecords ==
    ASSUME NEW s \in SUBSET Record, NEW f \in Uuids, NEW k \in InsertKeys(f)
    PROVE  Put(s, k, f) \subseteq Record
<1>1. k \in Key
    BY DEF Key
<1> QED
    BY <1>1 DEF Put, Record

\* Every step keeps the types of the records.
LEMMA RecordTypesStep ==
    ASSUME LockInv, KeysMatch, RecordTypes, [Next]_vars
    PROVE  RecordTypes'
<1> USE DbAssumption DEF RecordTypes
<1>1. ASSUME NEW p \in Procs, CreatDb(p) \/ Exit(p) \/ Step(p) \/ PutFails(p)
                \/ \E o \in Ops, f \in Uuids : Call(p, o, f)
      PROVE  RecordTypes'
  <2>1. CASE CreatDb(p)
    BY <2>1 DEF CreatDb, OpenEnv
  <2>2. CASE Exit(p)
    BY <2>2 DEF Exit, Vanish
  <2>3. CASE \E o \in Ops, f \in Uuids : Call(p, o, f)
    BY <2>3 DEF Call, txnVars
  <2>4. CASE BeginWrite(p)
    BY <2>4 DEF BeginWrite, BeginWriteAs, Recovered
  <2>5. CASE PutRecord(p)
    <3>1. PICK k \in InsertKeys(arg[p]) : newKey' = [newKey EXCEPT ![p] = k]
        BY <2>5 DEF PutRecord
    <3>2. k \in Key
        BY <3>1 DEF Key
    <3> QED
        BY <2>5, <3>1, <3>2 DEF PutRecord, txnVars
  <2>6. CASE PutFails(p)
    BY <2>6 DEF PutFails, Return, txnVars
  <2>7. CASE Commit(p)
    <3>1. newKey[p] \in InsertKeys(arg[p]) /\ arg[p] \in Uuids
        BY <2>7 DEF Commit, KeysMatch
    <3>2. Put(snap[p], newKey[p], arg[p]) \subseteq Record
        BY <3>1, PutRecords
    <3> QED
        BY <2>7, <3>1, <3>2 DEF Commit, Return
  <2>8. CASE BeginRead(p)
    BY <2>8 DEF BeginRead, FirstUnused, Unused
  <2>9. CASE BeginReadFails(p)
    BY <2>9 DEF BeginReadFails, Return, txnVars
  <2>10. CASE ListFiles(p)
    BY <2>10 DEF ListFiles, EndRead, Return
  <2>11. CASE GetFound(p)
    <3>1. PICK r \in snap[p] : out' = [out EXCEPT ![p] = r.file]
        BY <2>11 DEF GetFound
    <3>2. r.file \in Uuids
        BY <3>1 DEF Record
    <3> QED
        BY <2>11, <3>1, <3>2 DEF GetFound, EndRead, Return
  <2>12. CASE GetMissed(p)
    BY <2>12 DEF GetMissed, Return, txnVars
  <2>13. CASE BeginWritePanics(p)
    BY <2>13 DEF BeginWritePanics, Vanish, Recovered
  <2>14. CASE BeginReadPanics(p)
    BY <2>14 DEF BeginReadPanics, FirstUnused, Unused, Return
  <2> QED
    BY <1>1, <2>1, <2>2, <2>3, <2>4, <2>5, <2>6, <2>7, <2>8, <2>9, <2>10, <2>11, <2>12,
       <2>13, <2>14 DEF Step
<1>2. CASE Ended \/ UNCHANGED vars
    BY <1>2 DEF Ended, vars
<1> QED
    BY <1>1, <1>2 DEF Next

\* A slot whose transaction is open belongs to a thread that is reading, or
\* to one whose get_file missed: what NoReaderLeak says of idle processes, and
\* of the others what makes it inductive.
ReadersAccounted ==
    \A p \in Procs :
        tls[p] # 0 /\ slots[tls[p]].txn = "active" => missed[p] \/ pc[p] = "r_read"

\* No step leaves a reader behind.
LEMMA ReadersAccountedStep ==
    ASSUME LockInv, RecordTypes, ReadersAccounted, [Next]_vars
    PROVE  ReadersAccounted'
<1> USE DbAssumption DEF LockInv, LockTypes, RecordTypes, BusyIsOpen, SlotsOwned, ReadersRegistered,
        ReadersAccounted, Exclusive, Slot, SlotState, FreeSlot
<1>1. ASSUME NEW p \in Procs, CreatDb(p) \/ Exit(p) \/ Step(p) \/ PutFails(p)
                \/ \E o \in Ops, f \in Uuids : Call(p, o, f)
      PROVE  ReadersAccounted'
  <2>1. CASE CreatDb(p)
    BY <2>1 DEF CreatDb, OpenEnv
  <2>2. CASE Exit(p)
    BY <2>2 DEF Exit, Vanish
  <2>3. CASE \E o \in Ops, f \in Uuids : Call(p, o, f)
    BY <2>3 DEF Call, txnVars
  <2>4. CASE BeginWrite(p)
    BY <2>4 DEF BeginWrite, BeginWriteAs, Recovered
  <2>5. CASE PutRecord(p)
    BY <2>5 DEF PutRecord, txnVars
  <2>6. CASE PutFails(p)
    BY <2>6 DEF PutFails, Return, txnVars
  <2>7. CASE Commit(p)
    BY <2>7 DEF Commit, Return
  <2>8. CASE BeginRead(p)
    <3>1. PICK s \in Slot : /\ slots[s].pid \in {NoProc, p}
                            /\ slots' = [slots EXCEPT ![s] = [pid |-> p, txn |-> "active"]]
                            /\ tls' = [tls EXCEPT ![p] = s]
        BY <2>8, BeginReadSlot
    <3> QED
        BY <2>8, <3>1 DEF BeginRead
  <2>9. CASE BeginReadFails(p)
    BY <2>9 DEF BeginReadFails, Return, txnVars
  <2>10. CASE ListFiles(p)
    BY <2>10 DEF ListFiles, EndRead, Return
  <2>11. CASE GetFound(p)
    BY <2>11 DEF GetFound, EndRead, Return
  <2>12. CASE GetMissed(p)
    BY <2>12 DEF GetMissed, Return, txnVars
  <2>13. CASE BeginWritePanics(p)
    BY <2>13 DEF BeginWritePanics, Vanish, Recovered
  <2>14. CASE BeginReadPanics(p)
    BY <2>14 DEF BeginReadPanics, FirstUnused, Unused, Return
  <2> QED
    BY <1>1, <2>1, <2>2, <2>3, <2>4, <2>5, <2>6, <2>7, <2>8, <2>9, <2>10, <2>11, <2>12,
       <2>13, <2>14 DEF Step
<1>2. CASE Ended \/ UNCHANGED vars
    BY <1>2 DEF Ended, vars
<1> QED
    BY <1>1, <1>2 DEF Next

\* The store's types are kept and no process that is back in the shell keeps a
\* read transaction open, unless get_file missed in this environment:
\* get_file_list ends its transaction on every path, and who fails to begin one
\* leaves the slot as it was.
THEOREM ReadersLeftAsFound == Spec => []ReadersReturn
<1>1. Init => KeysMatch /\ RecordTypes /\ ReadersAccounted
    BY DbAssumption DEF Init, KeysMatch, RecordTypes, ReadersAccounted
<1>2. LockInv /\ KeysMatch /\ RecordTypes /\ ReadersAccounted /\ [Next]_vars
          => KeysMatch' /\ RecordTypes' /\ ReadersAccounted'
    BY KeysMatchStep, RecordTypesStep, ReadersAccountedStep
<1>3. LockInv /\ RecordTypes /\ ReadersAccounted => ReadersReturn
    BY DEF LockInv, LockTypes, RecordTypes, ReadersAccounted, ReadersReturn, TypeOK, NoReaderLeak
<1> QED
    BY <1>1, <1>2, <1>3, LockRegion, PTL DEF Spec
=============================================================================
