# A TLA+ model of rkx

rkx is an interactive client: a shell in which a user registers and encrypts or
decrypts files in place; each encrypted file is recorded in a redis server and
in a local LMDB store, and an MQTT thread listens to a topic. This directory
models the program's own logic and the embedded LMDB it relies on, model-checks
them with TLC on small instances and proves with TLAPS, for every instance, the
safety properties of the program itself and of LMDB's reader table and handles,
that pages a reader may look at are not used again and that a copy made
meanwhile is complete, and that the program's lists and its line editor
implement their abstract specifications.

Source paths below are relative to the repository (`src/rkx.c`,
`liblmdb/mdb.c`). `PROJECT.json` has the exact lines behind each definition,
the runs, the mutated definitions that show that each property can fail, and
the list of hazards that the properties were chosen for.

## 1. Inventory

| Part | State it keeps | Operations | Talks to |
|---|---|---|---|
| Startup, shutdown (`rkx.c`: `main`, `rkx_init`) | `client`, `g_cbComplete`, `g_mutex`, `g_cond` | connect, create the MQTT thread, wait for the subscription, shell, free | all |
| MQTT thread (`mq.c`, callbacks in `rkx.c`) | the mosquitto client, its connection and subscription | connect, loop, three callbacks, free | main thread through the condition variable; broker |
| Shell loop (`rkx.c`: `kx_loop`, `split_str`, `get_cmd`) | line, `argc`, `argv` | read, split in place, look up, execute | line editor, commands |
| Line editor (`linenoise.c`) | edit buffer, length, cursor, history, `./history`, screen | some 20 keys, load, save | terminal |
| Commands `user`, `file`, `ls`, `cd` (`kx_user.c`, `kx_file.c`, `kx_command.c`) | static `struct state`, `optind`, working directory | parse options, register, encrypt, decrypt, list | file encryption, redis client, store, lists |
| File encryption (`file.c`, `aes.c`, `xxhash.h`) | the file's blocks | encrypt, decrypt, hash | disk |
| Redis client (`net.c`, hiredis) | one context, in error for good after an I/O error | node, user and file records | server |
| Local store (`db.c`) | the environment `./data`, one database per user | create, insert, get, list | LMDB |
| LMDB locks (`liblmdb/mdb.c`) | lock region: robust writer and reader mutexes, reader table, last transaction | open, claim, check and clear slots, recover, close | other processes |
| LMDB transactions and pages (`mdb.c`, `midl.c`) | pages, two meta pages, free database; dirty, loose, spilled and freed pages of a transaction and its children | begin, touch, allocate, spill, commit, abort, save the free list, flush, sync | file, lock region |
| LMDB tree and cursors (`mdb.c`) | pages of nodes, cursors | get, put, delete, move; split, merge, rebalance | transactions |
| LMDB handles, drop, copy (`mdb.c`, `mdb_copy.c`) | handle arrays; free list; two buffers of the copy | open, close, drop, copy with and without compaction | transactions, a second thread |
| Lists (`adlist.c`) | two lists of encrypted files | 15 functions | commands |
| User and node (`user.c`, `node.c`, `chex.h`) | name, password, key derived from machine-id and name | create | commands |
| Support (`zmalloc.c`, `log.c`, `util.c`) | memory counter, log callbacks | allocate, log, make directories | all |

The program has two threads of its own, any number of instances may share a
directory, and it has no clean-up on any failure path. What is hard to test:

* the handshake of two threads over a condition variable, with a network that
  refuses, drops and reopens the connection in any order;
* shutdown of one thread under the other;
* kills between any two block writes of a file, and between the encryption, the
  redis record and the local record;
* transactions of several processes on one LMDB environment, kills inside them,
  early returns that leave them open, re-initialisation of the lock region;
* option parsing with static state, in any order of options and of lines;
* editing with every key at the limits of the buffer and of the screen;
* long sequences of list operations with removal during iteration;
* in LMDB: reuse of pages under readers that register at that moment, kills and
  power failures inside a commit, nested transactions that are undone, the free
  list that is saved inside the database it describes, cursors that other
  cursors' splits and merges pull away, reader slots of dead processes whose
  pids come back, handles whose slots are used again, the two threads of a
  compacting copy;
* two processes that make the same directories.

What makes each part correct:

* main reaches the shell exactly when the subscription callback has run, and
  never sleeps through it;
* a file's blocks have gone through the completed runs, none skipped, none
  ciphered twice, and decryption undoes encryption;
* one writer, registered readers, no record lost to another file;
* a local record implies a remote one, and an encrypted file has its record;
* a command does what its own line says, and comes back;
* lists are sequences; the edit buffer is text around a cursor;
* a reader sees its snapshot, what was committed is found again, every page has
  one owner, a tree with its cursors is an ordered map, a copy is one snapshot;
* the memory counted is the memory in use.

## 2. Modules

```
RkxMain             <- RkxMainProofs
Cipher <- FileCrypt <- MCFileCrypt, FileCryptProofs
Cipher <- Session   <- MCSession, SessionProofs
Db                  <- MCDb, DbProofs
EditSpec <~ LineEdit <- Shell <- MCShell, ShellProofs
LmdbTxn             <- MCLmdbTxn, LmdbTxnProofs
OrderedMap <~ LmdbTree <- MCLmdbTree
ListSpec <~ AdList                   <- MCSupport, AdListProofs
LmdbReaders, LmdbDbi, Zmalloc, Mkdirp <- MCSupport, SupportProofs
LmdbAsIs                             <- LmdbCopy, SupportProofs
LmdbCompact <- LmdbCopy              <- MCSupport
Midl, LmdbDrop                       <- MCSupport
```
(`<-` is extended by, `<~` is implemented by.) An `MC` module gives constants
their values; `MCSupport` also puts small components that share nothing side by
side, one of which runs in each behaviour.

The components meet where the code calls from one into the other, and the
caller's module keeps the interface only: `RkxMain` treats the shell as one
state, `Shell` runs a command in one step, `Session` enciphers a file in one
step (`FileCrypt` has its blocks) and inserts a record in one step (`Db` has
its transaction). In the same way `Db` commits in one step (`LmdbTxn` has the
pages, the flush and the meta pages), `LmdbTxn` keeps trees of two levels
(`LmdbTree` has splits and merges), and both take lists of page numbers as sets
(`Midl` has the arrays). A step has the outcomes of the detailed module that
its caller can tell apart. Of an insertion these are: it is done (`Store`); it
returns without a record, with the write transaction and its mutex left behind
by a failed `mdb_put`, or with an environment that is of no more use after a
failed meta page (`StoreFails`); it waits for a mutex that this or another live
process left locked (`held`, `OtherHolds`); it kills the process, because the
store is NULL or because `mdb_txn_begin` returned `MDB_PANIC` and nobody looked
(`StoreCrash`). `Db` has the same outcomes call by call. What it does not have
is the transaction of a failed meta page that a recovery brings back
(`LmdbTxn`, below).

**RkxMain** (`rkx.c`, `mq.c`). One variable per thread for its position, the
owner of `g_mutex`, membership in the wait set of `g_cond`, the flag, and the
state of the mosquitto client: socket, `mosquitto_disconnect` called,
subscription of this connection, messages in flight. The lock, the test, the
two halves of `pthread_cond_wait` and each statement of the callback's critical
section are steps of their own. `rkx_connect_cb`, `rkx_subscribe_cb` and
`rkx_message_cb` are the actions of those names. The library and the broker are
external: the loop reopens lost connections until a disconnect was asked for,
a clean session loses its subscription with its connection, the broker may
refuse connection and subscription. `UseAfterDestroy` is the MQTT thread
running in a client that `kx_mq_free` has destroyed. The default callbacks of
`mq.c` are never installed and are left out.

**Cipher** (`aes.c` as used). AES with one key is a permutation of blocks, so a
block is the word of what it went through, pairs `<<key, sign>>` in which an
operation and its inverse cancel. Two keys never cancel.

**FileCrypt** (`file.c`). The file is a sequence of blocks (word, size, torn or
not). `CryptStart`, `DecryptStart`, one `Step` per block, `Finish`, `Hash`, the
early returns (`Refused`), failed writes (`StepNoSpace`) and `Kill`.

**Db** (`db.c` over `liblmdb/mdb.c`). For each process: open or not, position,
operation, reader slot in thread-local storage, the database its transaction
sees. Shared: the robust writer mutex, the reader table and the committed
database. Actions are `kx_creat_db` (with the exclusive initialisation of
the lock region, which `fcntl` locks give to the only process that has it
open), begin, put, failed put, commit, failed commit, begin and end of reads, hit and
miss of `get_file`, `get_file_list`, and `Exit` at any point. A commit whose
meta page cannot be written sets `panic` (`MDB_FATAL_ERROR`): from then on
`mdb_txn_begin` fails, which the read operations look at (`BeginReadPanics`)
and `insert_file` does not, so that `mdb_dbi_open` gets a null transaction and
the process dies (`BeginWritePanics`). Keys are modelled as the code builds
them: `strlen("user:uuid")` bytes starting at the uuid.

**Session** (`kx_user.c`, `kx_file.c`, `kx_command.c`, `user.c`, `net.c`). A
command line is a sequence of options; `parse_options` of both commands runs
option by option over `struct state`, with its early exits. Then every call
that leaves something behind is a step: the redis commands (executed or not,
answered or not, the context dead after an error, and a server that keeps the
connection and does not answer: `net.c` sets a timeout for the connect only),
the registration, the encryption, the record in redis, the record in the store
with the outcomes named above, `cd`. A registration opens a new environment,
which is free of `panic` and initialises the mutex of its directory unless
another process is there. The uuid of a
file is its content and word, the key of a user is cut from node uuid and name
as `kx_user_creat_key` does. A kill (`Exit`) is possible between any two steps,
`Start` runs rkx again. NULL dereferences are the state `crashed`.

**AdList / ListSpec** (`adlist.c`). Pointer by pointer: head, tail, length,
previous, next, value, allocated nodes; functions with loops take one step per
iteration. `ListSpec` says that lists are sequences; the refinement shows it
what one finds who follows the pointers from the head (`Trail`), and hides a
list while `listEmpty` or `listDup` is at work on it.

**LineEdit / EditSpec, Shell** (`linenoise.c`, `rkx.c`). The edit buffer is an
array of bytes, uninitialised behind the terminating NUL, so that a write
behind it or a read of it is seen. All keys of `linenoiseEdit`, history,
refresh of the visible part, `./history` with its newlines. `EditSpec` says
what each key does to the text left and right of the cursor. `Shell` adds
`kx_loop`: load line by line, read, split in two passes in place, look up, save.
`./history` may fail to open for reading or for writing, and what is written may
be cut short, which `linenoiseHistorySave` does not notice (`"unsaved"`).

**LmdbTxn** (`mdb.c`). The file in the page cache and on disk, two meta pages,
the last transaction in the lock region, readers with their slots, and a writer
with nested transactions: dirty pages, loose pages, spilled pages, freed pages,
`mt_dirty_room`, and the environment's `me_pghead`, `me_pglast`, `me_pgoldest`.
A put or delete is one step as long as the writer's work is private; the loop of
`mdb_freelist_save` takes one step per turn, and per put in its inner loop
(`sv.put`), and flush, sync, meta page and
publication are separate. A reader's retry loop in `mdb_txn_renew0` is one step
per access. Faults: kill of the writer anywhere, failing writes and syncs, a
failing meta write, power failure with or without the writes since the last
sync. When the write of a meta page fails the code writes the old transaction
number back, but not the databases, does not look whether that worked, and does
not sync it: of the two writes either, both or none may be in the page cache
(`metas`), and a power failure may leave what the page held before or either of
them (`mdisk`), until the next `fdatasync`. A page that such a write reached is
exempt until it is written again (`spoiled`). While the process that failed can
no longer write (`MDB_FATAL_ERROR`), others go on and use the pages of the
failed transaction again; should the write back have failed or been lost, and
the next recovery therefore take that transaction for the newest (`revived`),
nothing is promised any more, and no further transaction is modelled.

**LmdbTree / OrderedMap** (`mdb.c`). One transaction's tree: pages of nodes with
sizes, cursors as paths of pages and indices. `mdb_page_search`,
`mdb_cursor_set` with its shortcuts, `mdb_cursor_next` and `prev`,
`_mdb_cursor_put`, `_mdb_cursor_del`, `mdb_page_split`, `mdb_node_move`,
`mdb_page_merge`, `mdb_rebalance`, `mdb_update_key` and the loops that adjust
all other cursors are operators on that state; an action is one call of the
API. `OrderedMap` says what `lmdb.h` promises: where each cursor is after any
cursor's insertion or deletion. The case of `mdb_page_split` in which the left
page changes its parent (`LeftPath`) is reached only from the untracked cursor
of a rebalancing.

**LmdbReaders** (`mdb.c`). Claiming of slots as four steps under the reader
mutex, `mdb_reader_check` slot by slot without it, sweeps after the death of a
mutex holder, processes that end, are killed, and whose pids are given to new
ones. A process locks the byte of its pid before it claims a slot.

**LmdbDbi** (`mdb.c`). Handle arrays with sequence numbers, one write
transaction with children, each with its flags. The application keeps the rules
of `lmdb.h` on handles.

**LmdbDrop** (`mdb.c`: `mdb_drop0`). The walk over a tree with overflow pages
or sub-databases, page by page; a page's number is its path.

**LmdbCompact, LmdbAsIs, LmdbCopy** (`mdb.c`, `mdb_copy.c`). The walking and the
writing thread with the two buffers, `mc_new`, mutex and condition; the copy of
meta pages under the writer mutex and of the pages without it, while a writer
commits.

**Midl** (`midl.c`). Arrays with their room: growth, append, merge, the
quicksort with its stack, both binary searches, against sets and sorted
sequences as reference.

**Zmalloc** (`zmalloc.c`). The allocator and the counter as separate steps of
several threads. In rkx itself only the main thread allocates; the counter is
written for threads. `FreeState` is the `free` of the commands' `free_state`.

**Mkdirp** (`util.c`, `db.c`). `path_normalize`, the recursion of `kx_mkdirp` as
the chain of its calls in progress (`CallAbove` makes the next one), the `stat`
before it, in processes that race. `errno` is read after `zfree`; the model takes
`free` to keep it, as glibc does. Paths are names, `.` and separators
(`MkdirpAssumption`); `..` and links are not modelled, and rkx passes `./data`.

## 3. Runs

Distinct states are those of the configuration in this directory.

| Run | Shows | Bounds, and why they are enough | States |
|---|---|---|---|
| `main` | shell only after the callback and no lost wakeup (`Handshake`), resubscription after reconnections, a rejected subscription ends the loop, main continues unless the loop ended before a SUBACK | 2 lost connections (one before, one after the handshake), 2 messages: more repeat the same states | 1 058 |
| `main_destroy` (violated) | the comment in `kx_mq_loop_start` does not hold: the client is destroyed under the loop | as above | |
| `file_crypt` | blocks follow the completed runs, complete runs neither mix nor mend a file, the limit holds | 3 runs (encrypt, interrupted, again), 2 keys, 8 files: empty, partial block, at and above the limit, which is 3 blocks | 38 948 |
| `file_status` (violated) | `kx_decrypt_file` returns 0 though a write failed | as above | |
| `db` | one writer, own reader slots, registered readers (`LockRegionSound`), no reader left behind except by a miss of `get_file`, no record lost, only a transaction left open by a live process blocks an insertion for ever | 2 processes, 2 files (a key of 8 bytes, a longer one), 2 slots (full with one stale reader), 3 calls (a commit that fails for good, and a call of each process after it), 4 opens (each process twice) | 329 966 |
| `db_one_txn` (violated) | after a failed `mdb_put` the thread begins a second write transaction and waits for itself | 2 calls | |
| `session` | a line is obeyed (`CommandState`), crashes have the known causes, local implies remote, encrypted implies recorded, commands return | 4 lines out of 18 (register, two file operations, and a change of user or directory between them), 2 starts, 2 users, 2 directories | 792 867 |
| `shell` | buffer and history invariants (`EditorSound`), screen, words (`SplitRight`), the history that comes back at the next start (`HistoryPersists`), termination of splitting, refinement of `EditSpec` | 5 keys on a buffer of 3 characters in a window of 2 (it fills and scrolls), 3 history entries, 4 histories (empty, one entry as long as the buffer, blank last line, full), each also unreadable; letter, space, newline, slash, NUL | 1 541 969 |
| `lmdb_txn` | a reader keeps its snapshot, both meta pages lead to what was committed, and the pages the writer takes are older than every registered reader (`ReadersRespected`) | 1 reader that begins once, 4 transactions with 5 calls (a page is freed, becomes reusable and is reused while the reader is registered), two faults of any kind (a meta page that cannot be written, and a kill or power failure after it), one key with two overflow pages; `lmdb_pages` has two keys, one with a leaf page | 841 679 |
| `lmdb_pages` | every page of the committed state has one owner and the saving of the free list ends; a writer reads its writes through dirty, spilled and loose pages | nested transactions (depth 2), 6 calls in 4 transactions, a dirty list of 9 entries that spills, overflow runs of 2 pages, free records that need overflow pages of their own; 8 turns of the saving loop | 519 856 |
| `lmdb_tree` | the tree is well formed, cursors are paths, tree and cursors implement an ordered map | 3 calls through 2 cursors on loaded trees of one to three levels with a full branch page; 8 keys of two sizes, 2 values: splits at every level, moves both ways, merges, root growth and collapse all happen | 61 578 |
| `support` | the remaining components, see below | | 262 691 |

`support` checks for each component:

* `AdList`: `ListsSound` (links, heap, iteration with removal, answers) and
  the refinement `ListsAreSequences`; two lists that share 3 nodes, 2 values;
* `Midl`: `MidlRight`; lists of up to 6 of 4 numbers, with `SMALL`, the grain
  and `MDB_IDL_UM_MAX` scaled down so that every branch of the sort and every
  growth happens;
* `LmdbReaders`: `SlotsKept`, `StaleCleared`; 2 places for processes, 2 pids, 2
  slots, 4 starts, so that a pid comes back twice;
* `LmdbDbi`: `HandlesRight`; 2 names, 2 slots, three nested transactions;
* `LmdbDrop`: `DropExact`; trees of up to three levels with overflow pages in
  some leaves, or with sub-databases of up to three levels;
* `LmdbCopy`: `AsIsFaithful` for the copy as it is, `CopyFaithful` (a copy is
  reported as made only if it was, and a compacted one is complete),
  `CopyReturns`; a source of three levels with
  overflow pages larger than a buffer, a named and an empty database; 3 commits
  during the copy;
* `Zmalloc`: `UsedExact`; 2 threads, 3 blocks, 2 sizes;
* `Mkdirp`: `DirectoryMade`; 2 processes, 8 spellings of paths, 4 states of the
  file system, each with or without a file in the way.

`db_one_txn`, `main_destroy` and `file_status` each refute one sentence of the
repository; `findings` in `PROJECT.json` quotes it. Two more observations are
built into the properties: main waits for ever after a refused connection
(the exception of `ShellOrLoopEnded`), and users who encrypt files with the
same content share one redis record, which is keyed by the hash of the
ciphertext (`EncryptedIsRecorded` asks for the record, not for its owner).

Numbers of keys, lines, calls, runs and starts are bounds of the guards, named
in each module. Deadlock is checked except where the program may really stop:
`session` (the program ends), `shell` (end of the loop), and the LMDB runs
whose numbers of transactions and calls are used up; `RkxMain`, `FileCrypt`,
`Db` and the parts of `MCSupport` that end have an explicit last step.

Symmetry is not used: runs with liveness properties do not allow it, and the
others are small.

### Fairness

* `RkxMain`: weak fairness of each thread, which the kernel's scheduler gives;
  a broker that keeps a connection answers; spurious wakeups are finite in
  number. No fairness for the user, for lost connections or messages.
* `Db`: weak fairness of each process' step inside an operation. The writer
  mutex is not assumed fair; calls are finitely many, so none is needed. A
  failing `mdb_put` and `Exit` are never required.
* `Session`: weak fairness of the command in progress, that is, of the main
  thread. It does not make redis answer, nor another process end or give back
  its mutex: `CommandsReturn` exempts a silent server (a call then waits without
  bound) and a mutex that a live process, this one included, never frees. Nobody
  has to type.
* `Shell`: the main thread goes on; the user need not press a key.
* `LmdbCopy`: both threads of the copy go on, as the scheduler makes them, and
  a write transaction that holds the mutex ends; spurious wakeups and failing
  writes are never required.
* `LmdbTxn`, `LmdbTree`: safety only. That the saving loop ends is an invariant
  on the number of its turns.

## 4. Proofs

TLAPS proves the following for all values of the constants, from the named
`ASSUME`s only.

* **RkxMainProofs**: `HandshakeCorrect` (shell only after the callback, no lost
  wakeup, critical sections exclude each other) and `SubscriptionRenewed`.
  These are not inductive alone: `MutexInv` ties the owner of `g_mutex` to the
  positions of both threads, `FlagInv` ties flag and wait set to the position
  of the callback, `SubInv` the subscription to the connection.
* **FileCryptProofs**: `NoBlockSkipped`, `MixtureKept`, `LimitHolds` for any
  file, number of keys and runs, and `RoundTrip`: deciphering a reduced word
  with the same key gives it back. The invariant adds that the loop visits as
  many blocks as the file has (`LoopInv`), that words are reduced
  (`ReducedInv`), and what the run has made of the file it started from
  (`RunInv`).
* **DbProofs**: `LockRegionKept` (from `WritersExclude`, `SlotsStayOwned`,
  `ReadersStayRegistered`) for any number of processes, slots, kills and reopenings. The argument
  (`LockInv`): whoever is in a transaction has the environment open, so nobody
  else initialises the lock region; recovery after a death clears stale slots
  only. `RecordsKept`: no committed record is lost, provided that keys have 8
  bytes or more (`LongKeys`; the user's name and the digits of the uuid);
  `KeysMatch` says that every record lies under a key of its own file.
  `ReadersLeftAsFound`: no process that is back in the shell has a read
  transaction open, except after a miss of `get_file`.
* **SessionProofs**: `CrashesExplained` (the check of `-u` and `-p` is relied
  on two steps after it was made, which `CrashInv` carries over; a user is set
  from the registration on, so that an insertion can only die of the store it
  has not, or of the environment that a failed commit left),
  `LocalRecordsRemote` (`RemoteInv`: between the two insertions the remote one
  is done or known to be lost; a record never removes another uuid),
  `EncryptionsRecorded` (`RecordInv`: as long as nothing failed, an encryption
  on a file is recorded, or `file_encrypt` still holds its uuid) and
  `LinesObeyed` (`ParseInv`: the static state is what the options up to
  `optind` make of it, whatever the line before left; conflicting options and
  `-l`, which ends the loop, included).
* **ShellProofs**: `EditorStaysSound`, `ScreenStaysRight` and
  `KeysImplementEdits` for any length of buffer, prompt, terminal and history.
  `EditorInv` adds that linenoise runs only while the loop waits for it
  (`CallInv`) and, for the history that comes back unchanged, that up to the
  first change of the line the buffer holds exactly the entry looked at, so
  that storing it changes nothing (`BrowseInv`). What `memmove` and the NULs
  written behind it do to the line is stated byte by byte, once for insertion
  (`Inserted`) and once for taking out (`Without`), and from there both as a
  terminated line and as text left and right of the cursor. For Ctrl-W the two
  loops that go back over spaces and letters are shown to stop where `EditSpec`
  says: behind the last space before the last letter. `LinesAreSplit`: what
  `split_str` cuts out of the line is what it counted, word by word. `SplitInv`
  says where the two passes are: both stop only between words (`Between`), the
  count is that of the words that begin below (`Below`), and in the second pass
  all that is above is still the line and each word below is followed by its NUL
  (`CutOk`). `HistorySurvives`: what the next start loads is what was saved,
  if it was saved as a whole.
* **AdListProofs**: `ListsStaySound` and the refinement
  `ListsImplementSequences`. `ListInv` says that pointers and the sequence kept
  as history agree (`WellLinked`), that exactly the nodes in lists are allocated,
  each in one (`HeapExact`), and for each loop of `adlist.c` what it has done so
  far (`LoopInv`): emptied a prefix, returned a prefix or suffix although nodes
  were removed under it, compared all values before the current one, counted
  down an index, copied a prefix. For the refinement, following the pointers
  gives the sequence (`TrailOfChain`, by least counterexample); each function
  is then one abstract step and the steps of loops stutter.
* **LmdbTxnProofs**: `ReadersProtected` for any number of readers, keys, pages,
  calls and commits. That the writer looks for the oldest reader while readers
  register step by step is right for reasons that are spread over the module,
  and `ReadersInv` collects them. `me_pgoldest` and `me_pglast` are bounded by the
  number of the last transaction and by those of all registered readers
  (`EnvOk`, `Bounds`); a reader that finds in the lock region the number it has
  stored in its slot is therefore respected by what the writer did before, and
  by what the writer looks up later because the slot is there. The meta page it
  is about to copy can only have become newer (`MetasOk`, `RegisteredOk`), a
  write that failed and what a power failure leaves of it included (`FailedMeta`,
  `DiskOk`). Each
  operator that fetches, allocates, touches, frees or saves pages is shown to
  keep the bounds in all nested transactions and in the state they go back to
  when they are undone (`StateOk`), the loops of `mdb_freelist_save` included.
* **SupportProofs**:
  - `SlotsStay` and `StaleGone` for any number of processes, pids and slots.
    `SlotsInv`: live processes have different pids and an ended one leaves
    nothing (`Separate`); who claims a slot holds the reader mutex and the slot
    is still nobody's (`Claims`); who has a slot or claims one has locked the
    byte of its pid (`Locked`), so that a check takes it for alive. `StaleInv`: a
    slot that was stale when a check began is free, or its pid is still to be
    looked at or being cleared.
  - `HandlesStayRight` for any depth of nesting. `DbiInv`: a slot with a name is
    that of a committed database if no transaction opened it, and is valid in
    every transaction from the one on that did (`SlotsRight`); a database has
    one slot (`OneSlot`); a handle names the database of its slot and the
    innermost transaction that opened it (`HandlesOpen`).
  - `CopyAsIsFaithful` for any number of keys and commits. `AsIsInv`: the meta
    pages are those of two transactions in a row (`TwoMetas`); every page that
    a transaction points to holds what it says (`Shown`); a page of the copied
    snapshot is only freed by later transactions, so that it is not used again
    while the snapshot is registered (`Spares`); the pages copied so
    far are those of the snapshot (`CopyOf`).
  - `UsedMemoryExact` for any number of threads and blocks. `Counted` says
    what `used_memory` counts of each block, all of it or what it counted before
    the step a thread is at, and `Apart` that no two threads are at one block; that such a sum
    changes by one summand when one block changes is shown by taking the sum as
    the number of elements of a set (`Area`).
  - `DirectoryIsMade` for any number of processes and spelling of the paths.
    What a path names (`Resolved`) and what `path_normalize` keeps of it are
    computed element by element; by least counterexample on the length, a path
    and its normal form name the same file (`NormalizeKeeps`), and what stands
    before the last separator names the directory above, or the same file if
    the path ends with a separator or a `.` (`ParentAbove`). `MkdirpInv`: the
    calls in progress are each for the directory above the one before and all
    on the way to the file of `dbpath` (`Chained`), and before a `mkdir` the
    directory above is there or a file has its name (`UpMade`).

Assumptions on the constants are those that the code gives: bounds are natural
numbers and there is at least one start (`MaxStarts`); the option letters that
take an argument have one, as `getopt` sees to (`OptionArguments`); NULL, freed
memory, the absence of a pid or a name, and the marks of a mutex without owner
are none of the nodes, pids, names or processes; separators and `.` are no names
of files (`MkdirpAssumption`); the lines of `./history` hold
no newline and fit the buffer of `fgets`; an `int` counts further than a line is
long (`ShellAssumption`), and a space is not a newline; blocks and keys are
finitely many.

Only model-checked:

* liveness and fairness (`RejectionEndsLoop`, `ShellOrLoopEnded`,
  `OnlyLeaksBlock`, `CommandsReturn`, `SplitEnds`, `CopyReturns`), which is out
  of this prover's reach;
* `LmdbTree`, `Midl`, `LmdbDrop` and `LmdbCompact`, which follow the recursion of
  the code with `RECURSIVE` operators; the prover does not take them, and so
  `TreeSound`, `IsOrderedMap`, `MidlRight`, `DropExact` and `CopyFaithful` are
  checked only;
* of `LmdbTxn`, what is beyond the handshake with the readers: `SnapshotsKept`,
  `FreeListKept` and `WriterRight` relate the content of the trees, the free
  database and all lists of a transaction over the steps of a commit.

Induction over data is out of reach; induction over numbers is done where it is
needed by taking the least counterexample (`Least`), and a recursive function is
known by exhibiting one that satisfies its equation (`SavedPlain`).

## 5. Not modelled

* `zmalloc.c`: functions on RSS, `/proc` and memory size (no caller). Out of
  memory is modelled only where the code handles it.
* `log.c`: output only. `node.c`: reads addresses and machine-id once; its
  result is a constant of `Session`.
* AES rounds and xxHash: third-party arithmetic; see `Cipher`. xxHash does not
  collide in the models.
* LMDB: sorted duplicates (`MDB_DUPSORT`) with sub-pages and sub-cursors except
  in `LmdbDrop`, `P_LEAF2` pages, `MDB_APPEND`, `MDB_WRITEMAP`, `MDB_NOSYNC`,
  `MDB_NOMETASYNC`, `MDB_NOLOCK`, `MDB_NOTLS`, `MDB_VL32`, Windows, changes of
  the map size, comparison functions, statistics and error texts. rkx opens its
  environments without flags and uses none of these. The tools other than
  `mdb_copy`, and the tests, are not part of rkx.
* `linenoise.c`: input that is no terminal, dumb terminals, termios, and what
  rkx never switches on (multi line, mask, hints, completions).
* Terminals narrower than the prompt and keys shorter than 16 bytes are
  excluded by assumptions (`LineEditAssumption`, `SessionAssumption`): there
  the code reads outside its arrays.
* `getopt_long` moves words that are no options behind the options; the models
  take the words of a line as options with their arguments, in order.
* What commands print, and the layout of structures in memory: terminating NULs
  written one byte behind an array (`user.c:42`, `db.c:59`, `node.c:48` and
  others) land in the next field, which is written later.

## 6. Plan

The process and its threads came first, then what is lost when something fails
(files, store, session), then the data structures and the shell, then LMDB
from its locks to its tree. Next, in this order:

1. Proofs: that every page of `LmdbTxn` has one owner (`FreeListKept`), from
   which, with `ReadersProtected`, the first half of `SnapshotsKept` follows
   (`ReadersSee`); then the order of flush, sync and meta page (`MetasLead`).
2. `LmdbTxn` as a refinement of the commit of `Db`: the step that writes the
   meta page is the commit, all others stutter.
3. Composition: `Session` with the handshake of `RkxMain`, to state what a
   shutdown may interrupt; `FileCrypt` as a refinement of `Session`'s `Crypt`.
4. Sorted duplicates in `LmdbTree`, if rkx comes to use them.
