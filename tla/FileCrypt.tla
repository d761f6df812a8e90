----------------------------- MODULE FileCrypt -----------------------------
(***************************************************************************)
(* Encryption and decryption of one file in place (file.c): kx_crypt_file  *)
(* and kx_decrypt_file run AES-128-ECB over the file block by block,       *)
(* reading each block and writing it back before they read the next.       *)
(*                                                                         *)
(* A block on disk is what its bytes went through.  "word" is the word     *)
(* of module Cipher; "size" is its number of bytes; "io" says whether a    *)
(* write that had to extend it failed half way.  The process may be killed *)
(* between any two writes, and another run may follow.                     *)
(***************************************************************************)
EXTENDS Integers, Sequences, Cipher

CONSTANTS
    Keys,           \* the keys a user may have (user.c)
    MAXFILESIZE,    \* largest file kx_crypt_file accepts, in bytes
    Files,          \* initial contents: sequences of block sizes
    MaxRuns         \* bound: runs of kx_crypt_file and kx_decrypt_file

AES_BLOCK_SIZE == 16

\* The sizes of the blocks of a file: all whole but the last.
IsFile(f) ==
    /\ f \in Seq(1..AES_BLOCK_SIZE)
    /\ \A i \in 1..Len(f) : i < Len(f) => f[i] = AES_BLOCK_SIZE

ASSUME FilesAssumption == \A f \in Files : IsFile(f)

\* 100 * 1024 * 1024 is a multiple of the block size.
ASSUME SizeAssumption ==
    MAXFILESIZE \in Nat /\ MAXFILESIZE % AES_BLOCK_SIZE = 0

ASSUME RunsAssumption == MaxRuns \in Nat

VARIABLES
    disk,           \* the file: a sequence of blocks
    pc,             \* "idle", "loop" (over the blocks), "hash"
    op,             \* the run: "enc" (kx_crypt_file), "dec" (kx_decrypt_file)
    key,            \* the key of the run
    numBlocks,      \* of the run, computed from the size when it started
    block,          \* loop index, from 0
    result,         \* of the last run: "none", "ok", "fail", "killed"
    runs,           \* runs started
    start,          \* history: the file when the run started
    done,           \* history: the word of the completed runs
    intact          \* history: no run was cut short and no write failed

vars == <<disk, pc, op, key, numBlocks, block, result, runs, start, done,
          intact>>

-----------------------------------------------------------------------------
\* ftell at the end of the file.
FileSize(d) ==
    IF d = <<>> THEN 0
    ELSE (Len(d) - 1) * AES_BLOCK_SIZE + d[Len(d)].size

\* The mutated form forgets the partial block.
NumBlocksTruncated(size) == size \div AES_BLOCK_SIZE
NumBlocks(size) == (size + AES_BLOCK_SIZE - 1) \div AES_BLOCK_SIZE

\* The word of the run in progress on a file whose word was w.
Sign == IF op = "dec" THEN -1 ELSE 1
Target == Aes(done, key, Sign)

\* A block read, filled up with AES_BLOCK_SIZE - bytesRead, ciphered and
\* written back: always a whole block.
CryptBlock(b, k, s) ==
    [word |-> Aes(b.word, k, s), size |-> AES_BLOCK_SIZE, io |-> b.io]

\* A file of the given block sizes that nobody has touched yet.
Plain(f) == [i \in 1..Len(f) |-> [word |-> <<>>, size |-> f[i], io |-> "whole"]]

Init ==
    /\ \E f \in Files : disk = Plain(f)
    /\ start = disk
    /\ pc = "idle" /\ op = "enc" /\ result = "none" /\ runs = 0
    /\ key \in Keys
    /\ numBlocks = 0 /\ block = 0
    /\ done = <<>> /\ intact = TRUE

-----------------------------------------------------------------------------
\* The common part of a run: fopen, the size, the number of blocks.
Start(k, o) ==
    /\ pc = "idle" /\ runs < MaxRuns
    /\ pc' = "loop" /\ op' = o /\ key' = k
    /\ numBlocks' = NumBlocks(FileSize(disk)) /\ block' = 0
    /\ result' = "none" /\ runs' = runs + 1
    /\ start' = disk
    /\ UNCHANGED <<disk, done, intact>>

\* kx_crypt_file refuses a file above the limit; the mutated form does not.
CryptStartUnlimited(k) == Start(k, "enc")
CryptStart(k) == FileSize(disk) <= MAXFILESIZE /\ Start(k, "enc")
DecryptStart(k) == Start(k, "dec")

\* stat or fopen fails, or the file is too large: nothing is touched.
\* stat and fopen may fail whatever the size.
Refused ==
    /\ pc = "idle" /\ runs < MaxRuns
    /\ result' = "fail" /\ runs' = runs + 1
    /\ UNCHANGED <<disk, pc, op, key, numBlocks, block, start, done, intact>>

\* One iteration of the loop of encrypt_file and decrypt_file, which moves on
\* by n blocks.  In the mutated form the write skips the next block.
Iterate(n) ==
    /\ pc = "loop" /\ block < numBlocks
    /\ disk' = [disk EXCEPT ![block + 1] = CryptBlock(@, key, Sign)]
    /\ block' = block + n
    /\ UNCHANGED <<pc, op, key, numBlocks, result, runs, start, done, intact>>
StepSkipping == Iterate(2)
Step == Iterate(1)

\* The last block has to grow and fwrite fails (no space): nothing or a part
\* of it is written, and the loop goes on as if it had been.
StepNoSpace ==
    /\ pc = "loop" /\ block < numBlocks
    /\ disk[block + 1].size < AES_BLOCK_SIZE
    /\ \/ UNCHANGED disk
       \/ disk' = [disk EXCEPT ![block + 1].io = "torn"]
    /\ block' = block + 1 /\ intact' = FALSE
    /\ UNCHANGED <<pc, op, key, numBlocks, result, runs, start, done>>

\* fclose and return: encryption goes on to the hash of the file.
Finish ==
    /\ pc = "loop" /\ block = numBlocks
    /\ pc' = IF op = "enc" THEN "hash" ELSE "idle"
    /\ result' = IF op = "enc" THEN result ELSE "ok"
    /\ done' = Target
    /\ UNCHANGED <<disk, op, key, numBlocks, block, runs, start, intact>>

\* calculate_xxhash; 0 stands for every error, and kx_crypt_file then returns
\* NULL for a file it has encrypted.
Hash ==
    /\ pc = "hash"
    /\ result' \in {"ok", "fail"}
    /\ pc' = "idle"
    /\ UNCHANGED <<disk, op, key, numBlocks, block, runs, start, done, intact>>

\* The process is killed.  A run that had written some but not all blocks
\* leaves a mixed file.
Kill ==
    /\ pc # "idle"
    /\ pc' = "idle" /\ result' = "killed"
    /\ done' = IF pc = "loop" /\ block > 0 /\ block = numBlocks THEN Target
               ELSE done
    /\ intact' = (intact /\ (block = 0 \/ block = numBlocks))
    /\ UNCHANGED <<disk, op, key, numBlocks, block, runs, start>>

\* All runs are over.
Ended == pc = "idle" /\ runs = MaxRuns /\ UNCHANGED vars

Next ==
    \/ \E k \in Keys : CryptStart(k) \/ DecryptStart(k)
    \/ Refused \/ Step \/ StepNoSpace \/ Finish \/ Hash \/ Kill \/ Ended

Spec == Init /\ [][Next]_vars

-----------------------------------------------------------------------------
(* Properties.                                                             *)

Word == Seq(Keys \X Signs)
Block == [word : Word, size : 1..AES_BLOCK_SIZE, io : {"whole", "torn"}]

\* Every variable has its type, and the file stays a file: whole blocks but
\* for the last one.
TypeOK ==
    /\ disk \in Seq(Block) /\ start \in Seq(Block)
    /\ \A i \in 1..Len(disk) : i < Len(disk) => disk[i].size = AES_BLOCK_SIZE
    /\ pc \in {"idle", "loop", "hash"}
    /\ op \in {"enc", "dec"}
    /\ key \in Keys
    /\ numBlocks \in Nat /\ block \in 0..numBlocks
    /\ result \in {"none", "ok", "fail", "killed"}
    /\ runs \in 0..MaxRuns
    /\ done \in Word
    /\ intact \in BOOLEAN

\* While no run was killed half way and no write failed, every block has gone
\* through exactly the completed runs, plus the run in progress for the
\* blocks the loop has passed: no block is skipped or ciphered twice.
BlocksFollowRuns ==
    intact => \A i \in 1..Len(disk) :
                 /\ disk[i].io = "whole"
                 /\ disk[i].word = IF pc = "loop" /\ i <= block THEN Target
                                   ELSE done

\* No encryption is kept next to its own decryption, so decrypting with the
\* key of the last encryption gives the blocks of before it.
IsReduced(w) ==
    \A i \in 1..Len(w) - 1 : ~(w[i][1] = w[i + 1][1] /\ w[i][2] = -w[i + 1][2])
WordsReduced ==
    /\ IsReduced(done)
    /\ \A i \in 1..Len(disk) : IsReduced(disk[i].word)

Uniform(d) == \A i, j \in 1..Len(d) : d[i].word = d[j].word
Finished == pc = "idle" /\ result = "ok"

\* A run that completes neither mixes a file nor mends one that a killed run
\* has left mixed (unless fwrite failed): only another kill can.
RunsKeepMixture ==
    Finished /\ (\A i \in 1..Len(start) : start[i].size = AES_BLOCK_SIZE)
        => (Uniform(start) <=> Uniform(disk))

\* Filling up the last block never takes a file that kx_crypt_file accepted
\* over the limit, so it can be encrypted again.
LimitKept == op = "enc" /\ pc # "idle" => FileSize(disk) <= MAXFILESIZE

\* file.h on kx_decrypt_file: "Returns 0 on success and -1 on failure".  A
\* write that fails is not noticed.
SuccessMeansDecrypted ==
    Finished /\ op = "dec" =>
        \A i \in 1..Len(disk) : disk[i] = CryptBlock(start[i], key, -1)
=============================================================================
