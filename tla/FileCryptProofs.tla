-------------------------- MODULE FileCryptProofs --------------------------
(***************************************************************************)
(* Proofs about FileCrypt for every set of keys, every file and any number *)
(* of runs.                                                                *)
(***************************************************************************)
EXTENDS FileCrypt, TLAPS

-----------------------------------------------------------------------------
(* Words.                                                                  *)

\* Ciphering a word gives a word.
LEMMA AesType ==
    ASSUME NEW w \in Word, NEW k \in Keys, NEW s \in Signs
    PROVE  Aes(w, k, s) \in Word
BY DEF Aes, Word, Signs, Front, Last

\* Ciphering keeps a word reduced.
LEMMA AesReduced ==
    ASSUME NEW w \in Word, NEW k \in Keys, NEW s \in Signs, IsReduced(w)
    PROVE  IsReduced(Aes(w, k, s))
<1>1. CASE w # <<>> /\ Last(w) = <<k, -s>>
    BY <1>1 DEF Aes, Word, Signs, Front, Last, IsReduced
<1>2. CASE w # <<>> /\ Last(w) # <<k, -s>>
  <2> DEFINE v == Append(w, <<k, s>>)
  <2>1. Aes(w, k, s) = v
    BY <1>2 DEF Aes
  <2>2. SUFFICES ASSUME NEW i \in 1..Len(v) - 1
                 PROVE  ~(v[i][1] = v[i + 1][1] /\ v[i][2] = -v[i + 1][2])
    BY <2>1 DEF IsReduced
  <2>3. CASE i < Len(w)
    BY <2>3 DEF Word, Signs, IsReduced
  <2>4. CASE i = Len(w)
    <3>1. v[i] = Last(w) /\ v[i + 1] = <<k, s>> /\ v[i] \in Keys \X Signs
      BY <1>2, <2>4 DEF Word, Last
    <3>2. -(-s) = s /\ s \in Int
      BY DEF Signs
    <3> QED
      BY <1>2, <3>1, <3>2 DEF Signs
  <2> QED
    BY <2>3, <2>4 DEF Word
<1>3. CASE w = <<>>
    BY <1>3 DEF Aes, Word, Signs, IsReduced
<1> QED
    BY <1>1, <1>2, <1>3

\* Decryption with the same key undoes encryption, and the reverse: the round
\* trip of file -e and file -d.
THEOREM RoundTrip ==
    ASSUME NEW w \in Word, NEW k \in Keys, NEW s \in Signs, IsReduced(w)
    PROVE  Aes(Aes(w, k, s), k, -s) = w
<1>0. -s \in Signs /\ -(-s) = s
    BY DEF Signs
<1>1. CASE w # <<>> /\ Last(w) = <<k, -s>>
  <2> DEFINE v == Front(w)
  <2>1. Aes(w, k, s) = v /\ v \in Word /\ Append(v, <<k, -s>>) = w
    BY <1>1 DEF Aes, Word, Front, Last
  <2>2. ~(v # <<>> /\ Last(v) = <<k, s>>)
    BY <1>0, <1>1 DEF Word, Signs, Front, Last, IsReduced
  <2> QED
    BY <1>0, <2>1, <2>2 DEF Aes
<1>2. CASE ~(w # <<>> /\ Last(w) = <<k, -s>>)
  <2> DEFINE v == Append(w, <<k, s>>)
  <2>1. Aes(w, k, s) = v
    BY <1>2 DEF Aes
  <2>2. v # <<>> /\ Last(v) = <<k, s>> /\ Front(v) = w
    BY DEF Word, Front, Last
  <2>3. Aes(v, k, -s) = Front(v)
    BY <1>0, <2>2 DEF Aes
  <2> QED
    BY <2>1, <2>2, <2>3
<1> QED
    BY <1>1, <1>2

\* Different contents never become equal under the same key.
LEMMA AesInjective ==
    ASSUME NEW v \in Word, NEW w \in Word, NEW k \in Keys, NEW s \in Signs,
           IsReduced(v), IsReduced(w), Aes(v, k, s) = Aes(w, k, s)
    PROVE  v = w
BY RoundTrip

-----------------------------------------------------------------------------
(* Sizes.                                                                  *)

\* The last block of a file that is not empty.
LEMMA LastBlock ==
    ASSUME NEW d \in Seq(Block), d # <<>>
    PROVE  Len(d) \in Nat /\ Len(d) > 0 /\ d[Len(d)].size \in 1..16
<1>1. Len(d) \in Nat /\ Len(d) > 0 /\ d[Len(d)] \in Block
    OBVIOUS
<1>2. \A b \in Block : b.size \in 1..16
    BY DEF Block, AES_BLOCK_SIZE
<1> QED
    BY <1>1, <1>2

\* The loop of a run visits every block, the partial one included.
LEMMA BlockCount ==
    ASSUME NEW d \in Seq(Block)
    PROVE  NumBlocks(FileSize(d)) = Len(d)
<1>1. CASE d = <<>>
  <2>1. Len(d) = 0 /\ FileSize(d) = 0
    BY <1>1 DEF FileSize
  <2> QED
    BY <2>1 DEF NumBlocks, AES_BLOCK_SIZE
<1>2. CASE d # <<>>
  <2>1. Len(d) \in Nat /\ Len(d) > 0 /\ d[Len(d)].size \in 1..16
    BY <1>2, LastBlock
  <2>2. FileSize(d) = (Len(d) - 1) * 16 + d[Len(d)].size
    BY <1>2 DEF FileSize, AES_BLOCK_SIZE
  <2>3. \A n \in Nat, r \in 1..16 : (n * 16 + r + 15) \div 16 = n + 1
    OBVIOUS
  <2>4. Len(d) - 1 \in Nat
    BY <2>1
  <2>5. ((Len(d) - 1) * 16 + d[Len(d)].size + 15) \div 16 = Len(d) - 1 + 1
    BY <2>1, <2>3, <2>4
  <2>6. NumBlocks(FileSize(d)) = (FileSize(d) + 15) \div 16
    BY <2>1, <2>2 DEF NumBlocks, AES_BLOCK_SIZE
  <2> QED
    BY <2>1, <2>2, <2>5, <2>6
<1> QED
    BY <1>1, <1>2

\* A file within the limit has room for its padding.
LEMMA PaddedWithinLimit ==
    ASSUME NEW d \in Seq(Block), FileSize(d) <= MAXFILESIZE
    PROVE  Len(d) * 16 <= MAXFILESIZE
<1>1. CASE d = <<>>
  <2>1. Len(d) = 0
    BY <1>1
  <2> QED
    BY <2>1, SizeAssumption
<1>2. CASE d # <<>>
  <2>1. Len(d) \in Nat /\ Len(d) > 0 /\ d[Len(d)].size \in 1..16
    BY <1>2, LastBlock
  <2>2. FileSize(d) = (Len(d) - 1) * 16 + d[Len(d)].size
    BY <1>2 DEF FileSize, AES_BLOCK_SIZE
  <2> QED
    BY <2>1, <2>2, SizeAssumption, SMTT(20) DEF AES_BLOCK_SIZE
<1> QED
    BY <1>1, <1>2

LEMMA SizeOfBlocks ==
    ASSUME NEW d \in Seq(Block), Len(d) * 16 <= MAXFILESIZE
    PROVE  FileSize(d) <= MAXFILESIZE
<1>1. CASE d = <<>>
  <2>1. FileSize(d) = 0
    BY <1>1 DEF FileSize
  <2> QED
    BY <2>1, SizeAssumption
<1>2. CASE d # <<>>
  <2>1. Len(d) \in Nat /\ Len(d) > 0 /\ d[Len(d)].size \in 1..16
    BY <1>2, LastBlock
  <2>2. FileSize(d) = (Len(d) - 1) * 16 + d[Len(d)].size
    BY <1>2 DEF FileSize, AES_BLOCK_SIZE
  <2> QED
    BY <2>1, <2>2, SizeAssumption, SMTT(20)
<1> QED
    BY <1>1, <1>2

-----------------------------------------------------------------------------
(* The inductive invariant.                                                *)

\* A run visits all blocks, and has visited them all when it hashes.
LoopInv ==
    /\ pc # "idle" \/ result = "ok" => numBlocks = Len(disk)
    /\ pc = "hash" \/ (pc = "idle" /\ result = "ok") => block = numBlocks

ReducedInv ==
    /\ WordsReduced
    /\ \A i \in 1..Len(start) : IsReduced(start[i].word)

LimitInv == op = "enc" /\ pc # "idle" => Len(disk) * 16 <= MAXFILESIZE

\* The run relative to the file it started from, mixed or not.
RunInv ==
    /\ pc # "idle" \/ result = "ok"
    /\ \A i \in 1..Len(start) : start[i].size = AES_BLOCK_SIZE
    => /\ Len(start) = Len(disk)
       /\ \A i \in 1..Len(disk) :
             /\ disk[i].size = AES_BLOCK_SIZE
             /\ disk[i].word = IF i <= block
                               THEN Aes(start[i].word, key, Sign)
                               ELSE start[i].word

IInv ==
    TypeOK /\ LoopInv /\ ReducedInv /\ BlocksFollowRuns /\ LimitInv /\ RunInv

LEMMA SignType == Sign \in Signs
BY DEF Sign, Signs

LEMMA TargetType == ASSUME TypeOK PROVE Target \in Word
BY SignType, AesType DEF TypeOK, Target

\* A block keeps its type when it is ciphered.
LEMMA CryptBlockType ==
    ASSUME NEW b \in Block, NEW k \in Keys, NEW s \in Signs
    PROVE  /\ CryptBlock(b, k, s) \in Block
           /\ CryptBlock(b, k, s).word = Aes(b.word, k, s)
           /\ CryptBlock(b, k, s).size = AES_BLOCK_SIZE
           /\ CryptBlock(b, k, s).io = b.io
           /\ b.word \in Word
<1>1. b.word \in Word /\ b.size \in 1..16 /\ b.io \in {"whole", "torn"}
    BY DEF Block, AES_BLOCK_SIZE
<1>2. Aes(b.word, k, s) \in Word
    BY <1>1, AesType
<1> QED
    BY <1>1, <1>2 DEF CryptBlock, Block, AES_BLOCK_SIZE

\* The effect of one iteration on the file.
LEMMA StepEffect ==
    ASSUME IInv, Step
    PROVE  /\ block + 1 \in 1..Len(disk)
           /\ disk' \in Seq(Block) /\ Len(disk') = Len(disk)
           /\ disk'[block + 1] = CryptBlock(disk[block + 1], key, Sign)
           /\ \A i \in 1..Len(disk) : i # block + 1 => disk'[i] = disk[i]
<1>1. disk \in Seq(Block) /\ block \in Nat /\ key \in Keys
    BY DEF IInv, TypeOK
<1>2. block + 1 \in 1..Len(disk) /\ Len(disk) \in Nat
    BY <1>1 DEF IInv, TypeOK, LoopInv, Step, Iterate
<1>3. disk' = [disk EXCEPT ![block + 1] = CryptBlock(disk[block + 1], key, Sign)]
    BY DEF Step, Iterate
<1>4. CryptBlock(disk[block + 1], key, Sign) \in Block
    BY <1>1, <1>2, SignType, CryptBlockType
<1> QED
    BY <1>1, <1>2, <1>3, <1>4

\* The effect of an iteration whose write fails.
LEMMA NoSpaceEffect ==
    ASSUME IInv, StepNoSpace
    PROVE  /\ block + 1 \in 1..Len(disk)
           /\ disk' \in Seq(Block) /\ Len(disk') = Len(disk)
           /\ \A i \in 1..Len(disk) : /\ disk'[i].word = disk[i].word
                                      /\ disk'[i].size = disk[i].size
<1>1. disk \in Seq(Block) /\ block \in Nat
    BY DEF IInv, TypeOK
<1>2. block + 1 \in 1..Len(disk) /\ Len(disk) \in Nat
    BY <1>1 DEF IInv, TypeOK, LoopInv, StepNoSpace
<1>3. CASE UNCHANGED disk
    BY <1>1, <1>2, <1>3
<1>4. CASE disk' = [disk EXCEPT ![block + 1].io = "torn"]
  <2> DEFINE b == disk[block + 1]
  <2>1. b \in Block
    BY <1>1, <1>2
  <2>2. [b EXCEPT !.io = "torn"] \in Block
    BY <2>1 DEF Block
  <2>3. /\ [b EXCEPT !.io = "torn"].word = b.word
        /\ [b EXCEPT !.io = "torn"].size = b.size
    BY <2>1 DEF Block
  <2>4. disk' = [disk EXCEPT ![block + 1] = [b EXCEPT !.io = "torn"]]
    BY <1>4
  <2> HIDE DEF b
  <2> QED
    BY <1>1, <1>2, <2>2, <2>3, <2>4 DEF b
<1> QED
    BY <1>3, <1>4 DEF StepNoSpace

-----------------------------------------------------------------------------
(* Each part of the invariant is kept by every step.                       *)

LEMMA InitInv == Init => IInv
<1> SUFFICES ASSUME Init PROVE IInv
    OBVIOUS
<1>1. PICK f \in Files : disk = Plain(f)
    BY DEF Init
<1>2. IsFile(f)
    BY FilesAssumption
<1>3. <<>> \in Word /\ Len(<<>>) = 0
    BY DEF Word
<1>4. /\ Len(disk) = Len(f) /\ Len(f) \in Nat
    BY <1>1, <1>2 DEF Plain, IsFile
<1>a. ASSUME NEW i \in 1..Len(disk)
      PROVE  disk[i].word = <<>> /\ disk[i].size = f[i] /\ disk[i].io = "whole"
  <2>1. disk[i] = [word |-> <<>>, size |-> f[i], io |-> "whole"]
    BY <1>1, <1>4 DEF Plain
  <2> QED
    BY <2>1
<1>5. \A i \in 1..Len(f) : f[i] \in 1..16
    BY <1>2 DEF IsFile, AES_BLOCK_SIZE
<1>6. disk \in Seq(Block)
  <2>1. \A i \in 1..Len(f) :
           [word |-> <<>>, size |-> f[i], io |-> "whole"] \in Block
    BY <1>3, <1>5 DEF Block, AES_BLOCK_SIZE
  <2> QED
    BY <1>1, <1>4, <2>1 DEF Plain
<1>7. TypeOK
  <2>1. \A i \in 1..Len(disk) : i < Len(disk) => disk[i].size = AES_BLOCK_SIZE
    BY <1>2, <1>4, <1>a DEF IsFile
  <2>2. intact \in BOOLEAN
    BY Zenon DEF Init
  <2>3. start \in Seq(Block) /\ done \in Word /\ runs \in 0..MaxRuns
    BY <1>3, <1>6, RunsAssumption DEF Init
  <2> QED
    BY <1>6, <2>1, <2>2, <2>3 DEF Init, TypeOK
<1>8. ReducedInv
  <2>1. IsReduced(<<>>)
    BY <1>3 DEF IsReduced
  <2> QED
    BY <1>a, <2>1 DEF Init, ReducedInv, WordsReduced
<1>9. BlocksFollowRuns
    BY <1>a DEF Init, BlocksFollowRuns
<1> QED
    BY <1>7, <1>8, <1>9 DEF Init, IInv, LoopInv, LimitInv, RunInv

LEMMA StartInv ==
    ASSUME IInv, NEW k \in Keys, CryptStart(k) \/ DecryptStart(k)
    PROVE  IInv'
<1>1. PICK o \in {"enc", "dec"} :
         Start(k, o) /\ (o = "enc" => FileSize(disk) <= MAXFILESIZE)
    BY DEF CryptStart, DecryptStart
<1> USE DEF Start
<1>2. disk \in Seq(Block) /\ Len(disk) \in Nat
    BY DEF IInv, TypeOK
<1>3. NumBlocks(FileSize(disk)) = Len(disk)
    BY <1>2, BlockCount
<1>4. TypeOK'
    BY <1>1, <1>2, <1>3, RunsAssumption DEF IInv, TypeOK
<1>5. LoopInv'
    BY <1>1, <1>3 DEF LoopInv
<1>6. ReducedInv'
    BY <1>1 DEF IInv, ReducedInv, WordsReduced
<1>7. BlocksFollowRuns'
    BY <1>1, <1>2 DEF IInv, BlocksFollowRuns
<1>8. LimitInv'
    BY <1>1, <1>2, PaddedWithinLimit DEF LimitInv
<1>9. RunInv'
    BY <1>1, <1>2 DEF RunInv
<1> QED
    BY <1>4, <1>5, <1>6, <1>7, <1>8, <1>9 DEF IInv

LEMMA StepInv == ASSUME IInv, Step PROVE IInv'
<1> DEFINE b == block + 1
<1>0. /\ pc = "loop" /\ block < numBlocks /\ block' = block + 1
      /\ UNCHANGED <<pc, op, key, numBlocks, result, runs, start, done, intact>>
    BY DEF Step, Iterate
<1>1. /\ b \in 1..Len(disk)
      /\ disk' \in Seq(Block) /\ Len(disk') = Len(disk)
      /\ disk'[b] = CryptBlock(disk[b], key, Sign)
      /\ \A i \in 1..Len(disk) : i # b => disk'[i] = disk[i]
    BY StepEffect
<1>2. disk \in Seq(Block) /\ Len(disk) \in Nat /\ block \in Nat /\ key \in Keys
      /\ disk[b] \in Block
    BY <1>1 DEF IInv, TypeOK
<1>3. /\ disk'[b].word = Aes(disk[b].word, key, Sign)
      /\ disk'[b].size = AES_BLOCK_SIZE /\ disk'[b].io = disk[b].io
      /\ disk[b].word \in Word
    BY <1>1, <1>2, CryptBlockType, SignType
<1>4. Sign' = Sign /\ Target' = Target
    BY <1>0 DEF Sign, Target
<1> HIDE DEF b
<1>5. TypeOK'
    BY <1>0, <1>1, <1>2, <1>3 DEF IInv, TypeOK, b
<1>6. LoopInv'
    BY <1>0, <1>1 DEF IInv, LoopInv
<1>7. ReducedInv'
  <2>1. IsReduced(disk'[b].word)
    BY <1>1, <1>2, <1>3, AesReduced, SignType
       DEF IInv, ReducedInv, WordsReduced
  <2> QED
    BY <1>0, <1>1, <2>1 DEF IInv, ReducedInv, WordsReduced
<1>8. BlocksFollowRuns'
  <2> SUFFICES ASSUME intact, NEW i \in 1..Len(disk)
               PROVE  /\ disk'[i].io = "whole"
                      /\ disk'[i].word = IF i <= block + 1 THEN Target ELSE done
    BY <1>0, <1>1, <1>4 DEF BlocksFollowRuns
  <2>1. disk[i].io = "whole"
        /\ disk[i].word = IF i <= block THEN Target ELSE done
    BY <1>0 DEF IInv, BlocksFollowRuns
  <2>2. CASE i = b
    BY <1>2, <1>3, <2>1, <2>2 DEF b, Target
  <2>3. CASE i # b
    BY <1>1, <1>2, <2>1, <2>3 DEF b
  <2> QED
    BY <2>2, <2>3
<1>9. LimitInv'
    BY <1>0, <1>1 DEF IInv, LimitInv
<1>10. RunInv'
  <2> SUFFICES ASSUME \A i \in 1..Len(start) : start[i].size = AES_BLOCK_SIZE
               PROVE  /\ Len(start) = Len(disk)
                      /\ \A i \in 1..Len(disk) :
                           /\ disk'[i].size = AES_BLOCK_SIZE
                           /\ disk'[i].word = IF i <= block + 1
                                              THEN Aes(start[i].word, key, Sign)
                                              ELSE start[i].word
    BY <1>0, <1>1, <1>4 DEF RunInv
  <2>1. /\ Len(start) = Len(disk)
        /\ \A i \in 1..Len(disk) :
              /\ disk[i].size = AES_BLOCK_SIZE
              /\ disk[i].word = IF i <= block
                                THEN Aes(start[i].word, key, Sign)
                                ELSE start[i].word
    BY <1>0 DEF IInv, RunInv
  <2> QED
    BY <1>1, <1>2, <1>3, <2>1 DEF b
<1> QED
    BY <1>5, <1>6, <1>7, <1>8, <1>9, <1>10 DEF IInv

LEMMA NoSpaceInv == ASSUME IInv, StepNoSpace PROVE IInv'
<1>0. /\ pc = "loop" /\ block < numBlocks /\ block' = block + 1
      /\ disk[block + 1].size < AES_BLOCK_SIZE
      /\ UNCHANGED <<pc, op, key, numBlocks, result, runs, start, done>>
    BY DEF StepNoSpace
<1>1. /\ block + 1 \in 1..Len(disk)
      /\ disk' \in Seq(Block) /\ Len(disk') = Len(disk)
      /\ \A i \in 1..Len(disk) : /\ disk'[i].word = disk[i].word
                                 /\ disk'[i].size = disk[i].size
    BY NoSpaceEffect
<1>2. intact' = FALSE /\ intact' \in BOOLEAN
    BY Zenon DEF StepNoSpace
<1>3. TypeOK'
    BY <1>0, <1>1, <1>2 DEF IInv, TypeOK
<1>4. LoopInv'
    BY <1>0, <1>1 DEF IInv, LoopInv
<1>5. ReducedInv'
    BY <1>0, <1>1 DEF IInv, ReducedInv, WordsReduced
<1>6. BlocksFollowRuns'
    BY <1>2 DEF BlocksFollowRuns
<1>7. LimitInv'
    BY <1>0, <1>1 DEF IInv, LimitInv
<1>8. RunInv'
  <2>1. ~ \A i \in 1..Len(start) : start[i].size = AES_BLOCK_SIZE
    BY <1>0, <1>1 DEF IInv, RunInv, AES_BLOCK_SIZE
  <2> QED
    BY <1>0, <2>1 DEF RunInv
<1> QED
    BY <1>3, <1>4, <1>5, <1>6, <1>7, <1>8 DEF IInv

LEMMA FinishInv == ASSUME IInv, Finish PROVE IInv'
<1>0. /\ pc = "loop" /\ block = numBlocks /\ done' = Target
      /\ UNCHANGED <<disk, op, key, numBlocks, block, runs, start, intact>>
      /\ pc' = IF op = "enc" THEN "hash" ELSE "idle"
      /\ result' = IF op = "enc" THEN result ELSE "ok"
    BY DEF Finish
<1>1. disk \in Seq(Block) /\ Len(disk) \in Nat /\ key \in Keys
      /\ done \in Word /\ numBlocks = Len(disk)
    BY <1>0 DEF IInv, TypeOK, LoopInv
<1>2. TypeOK'
    BY <1>0, TargetType DEF IInv, TypeOK
<1>3. LoopInv'
    BY <1>0, <1>1 DEF IInv, LoopInv
<1>4. ReducedInv'
  <2>1. IsReduced(Target)
    BY <1>1, AesReduced, SignType DEF Target, IInv, ReducedInv, WordsReduced
  <2> QED
    BY <1>0, <2>1 DEF IInv, ReducedInv, WordsReduced
<1>5. BlocksFollowRuns'
    BY <1>0, <1>1 DEF IInv, BlocksFollowRuns
<1>6. LimitInv'
    BY <1>0 DEF IInv, LimitInv
<1>7. RunInv'
    BY <1>0 DEF IInv, RunInv, Sign
<1> QED
    BY <1>2, <1>3, <1>4, <1>5, <1>6, <1>7 DEF IInv

LEMMA HashInv == ASSUME IInv, Hash PROVE IInv'
<1>0. /\ pc = "hash" /\ pc' = "idle" /\ result' \in {"ok", "fail"}
      /\ UNCHANGED <<disk, op, key, numBlocks, block, runs, start, done, intact>>
    BY DEF Hash
<1>1. TypeOK'
    BY <1>0 DEF IInv, TypeOK
<1>2. LoopInv' /\ ReducedInv' /\ LimitInv'
    BY <1>0 DEF IInv, LoopInv, ReducedInv, WordsReduced, LimitInv
<1>3. BlocksFollowRuns'
    BY <1>0 DEF IInv, BlocksFollowRuns
<1>4. RunInv'
    BY <1>0 DEF IInv, RunInv, Sign
<1> QED
    BY <1>1, <1>2, <1>3, <1>4 DEF IInv

LEMMA KillInv == ASSUME IInv, Kill PROVE IInv'
<1>0. /\ pc # "idle" /\ pc' = "idle" /\ result' = "killed"
      /\ UNCHANGED <<disk, op, key, numBlocks, block, runs, start>>
      /\ done' = IF pc = "loop" /\ block > 0 /\ block = numBlocks THEN Target
                 ELSE done
    BY DEF Kill
<1>1. intact' \in BOOLEAN
  <2>1. intact' = (intact /\ (block = 0 \/ block = numBlocks))
    BY DEF Kill
  <2> QED
    BY <2>1
<1>2. disk \in Seq(Block) /\ Len(disk) \in Nat /\ key \in Keys
      /\ done \in Word /\ numBlocks = Len(disk) /\ block \in 0..numBlocks
    BY <1>0 DEF IInv, TypeOK, LoopInv
<1>3. TypeOK'
    BY <1>0, <1>1, TargetType DEF IInv, TypeOK
<1>4. LoopInv' /\ LimitInv' /\ RunInv'
    BY <1>0 DEF LoopInv, LimitInv, RunInv
<1>5. ReducedInv'
  <2>1. IsReduced(Target)
    BY <1>2, AesReduced, SignType DEF Target, IInv, ReducedInv, WordsReduced
  <2> QED
    BY <1>0, <2>1 DEF IInv, ReducedInv, WordsReduced
<1>6. BlocksFollowRuns'
  <2> SUFFICES ASSUME intact', NEW i \in 1..Len(disk)
               PROVE  disk[i].io = "whole" /\ disk[i].word = done'
    BY <1>0 DEF BlocksFollowRuns
  <2>1. intact /\ (block = 0 \/ block = numBlocks)
    BY DEF Kill
  <2>2. disk[i].io = "whole"
        /\ disk[i].word = IF pc = "loop" /\ i <= block THEN Target ELSE done
    BY <2>1 DEF IInv, BlocksFollowRuns
  <2> QED
    BY <1>0, <1>2, <2>1, <2>2
<1> QED
    BY <1>3, <1>4, <1>5, <1>6 DEF IInv

LEMMA OtherInv == ASSUME IInv, Refused \/ Ended \/ UNCHANGED vars PROVE IInv'
<1>1. CASE Refused
  <2>0. /\ pc = "idle" /\ result' = "fail" /\ runs' = runs + 1 /\ runs < MaxRuns
        /\ UNCHANGED <<disk, pc, op, key, numBlocks, block, start, done, intact>>
    BY <1>1 DEF Refused
  <2>1. TypeOK'
    BY <2>0, RunsAssumption DEF IInv, TypeOK
  <2>2. LoopInv' /\ ReducedInv' /\ LimitInv' /\ RunInv'
    BY <2>0 DEF IInv, LoopInv, ReducedInv, WordsReduced, LimitInv, RunInv
  <2>3. BlocksFollowRuns'
    BY <2>0 DEF IInv, BlocksFollowRuns
  <2> QED
    BY <2>1, <2>2, <2>3 DEF IInv
<1>2. CASE Ended \/ UNCHANGED vars
  <2>0. UNCHANGED vars
    BY <1>2 DEF Ended
  <2>1. TypeOK' /\ LoopInv' /\ LimitInv'
    BY <2>0 DEF vars, IInv, TypeOK, LoopInv, LimitInv
  <2>2. ReducedInv'
    BY <2>0 DEF vars, IInv, ReducedInv, WordsReduced
  <2>3. BlocksFollowRuns'
    BY <2>0 DEF vars, IInv, BlocksFollowRuns, Target, Sign
  <2>4. RunInv'
    BY <2>0 DEF vars, IInv, RunInv, Sign
  <2> QED
    BY <2>1, <2>2, <2>3, <2>4 DEF IInv
<1> QED
    BY <1>1, <1>2

\* IInv holds in every reachable state.
THEOREM Inductive == Spec => []IInv
<1>1. IInv /\ [Next]_vars => IInv'
  <2> SUFFICES ASSUME IInv, [Next]_vars PROVE IInv'
    OBVIOUS
  <2>1. CASE \E k \in Keys : CryptStart(k) \/ DecryptStart(k)
    BY <2>1, StartInv
  <2>2. CASE Step
    BY <2>2, StepInv
  <2>3. CASE StepNoSpace
    BY <2>3, NoSpaceInv
  <2>4. CASE Finish
    BY <2>4, FinishInv
  <2>5. CASE Hash
    BY <2>5, HashInv
  <2>6. CASE Kill
    BY <2>6, KillInv
  <2>7. CASE Refused \/ Ended \/ UNCHANGED vars
    BY <2>7, OtherInv
  <2> QED
    BY <2>1, <2>2, <2>3, <2>4, <2>5, <2>6, <2>7 DEF Next
<1> QED
    BY InitInv, <1>1, PTL DEF Spec

\* Every variable keeps its type.
THEOREM TypeCorrect == Spec => []TypeOK
<1>1. IInv => TypeOK
    BY DEF IInv
<1> QED
    BY <1>1, Inductive, PTL

\* Without kills half way and failed writes, every block has gone through
\* exactly the completed runs.
THEOREM NoBlockSkipped == Spec => []BlocksFollowRuns
<1>1. IInv => BlocksFollowRuns
    BY DEF IInv
<1> QED
    BY <1>1, Inductive, PTL

\* The padding never takes a file over MAXFILESIZE.
THEOREM LimitHolds == Spec => []LimitKept
<1>1. IInv => LimitKept
    BY SizeOfBlocks DEF IInv, TypeOK, LimitInv, LimitKept
<1> QED
    BY <1>1, Inductive, PTL

\* A completed run neither mixes a file nor mends a mixed one.
THEOREM MixtureKept == Spec => []RunsKeepMixture
<1>1. IInv => RunsKeepMixture
  <2> SUFFICES ASSUME IInv, Finished,
                      \A i \in 1..Len(start) : start[i].size = AES_BLOCK_SIZE
               PROVE  Uniform(start) <=> Uniform(disk)
    BY DEF RunsKeepMixture
  <2>1. block = Len(disk) /\ Len(disk) \in Nat /\ key \in Keys
    BY DEF IInv, TypeOK, LoopInv, Finished
  <2>2. /\ Len(start) = Len(disk)
        /\ \A i \in 1..Len(disk) :
              disk[i].word = Aes(start[i].word, key, Sign)
    BY <2>1 DEF IInv, RunInv, Finished
  <2>3. \A i \in 1..Len(start) :
           start[i].word \in Word /\ IsReduced(start[i].word)
    <3>1. \A i \in 1..Len(start) : start[i] \in Block
      BY DEF IInv, TypeOK
    <3>2. \A b \in Block : b.word \in Word
      BY DEF Block
    <3> QED
      BY <3>1, <3>2 DEF IInv, ReducedInv
  <2>4. \A i, j \in 1..Len(disk) :
           start[i].word = start[j].word <=> disk[i].word = disk[j].word
    BY <2>1, <2>2, <2>3, AesInjective, SignType
  <2> QED
    BY <2>2, <2>4 DEF Uniform
<1> QED
    BY <1>1, Inductive, PTL
=============================================================================
