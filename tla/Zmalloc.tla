------------------------------- MODULE Zmalloc -------------------------------
(***************************************************************************)
(* Allocation with a count of the memory in use.  The allocator and the    *)
(* count are two steps, which other threads come between.  Sizes are what  *)
(* zmalloc_size returns: malloc_usable_size, or size + PREFIX_SIZE.        *)
(***************************************************************************)
EXTENDS Integers, FiniteSetsExt

CONSTANTS
    ZThreads,       \* threads
    Blocks,         \* addresses malloc can return
    Sizes,          \* sizes of blocks
    MaxLost         \* bound: memory released with free

NoBlock == "null"

ASSUME ZmallocAssumption ==
    Sizes \subseteq Nat \ {0} /\ IsFiniteSet(Blocks) /\ NoBlock \notin Blocks

VARIABLES
    size,           \* sizes of the allocated blocks; 0: not allocated
    used_memory,
    zt,             \* the threads: what they do next, to which block, oldsize
    lost            \* history: memory of zmalloc released with free

zvars == <<size, used_memory, zt, lost>>
Quiet == [do |-> "nothing", ptr |-> NoBlock, oldsize |-> 0]

ZmallocInit ==
    /\ size = [b \in Blocks |-> 0]
    /\ used_memory = 0
    /\ zt = [t \in ZThreads |-> Quiet]
    /\ lost = 0

Live == {b \in Blocks : size[b] > 0 /\ \A t \in ZThreads : zt[t].ptr # b}
ZSet(t, do, b, old) == zt' = [zt EXCEPT ![t] = [do |-> do, ptr |-> b, oldsize |-> old]]
Resize(b, s) == size' = [size EXCEPT ![b] = s]

\* zmalloc, zcalloc and zstrdup, and zrealloc of NULL.  Without memory
\* zmalloc_oom_handler ends the process.
Alloc(t, b, s) ==
    /\ zt[t] = Quiet /\ size[b] = 0
    /\ Resize(b, s) /\ ZSet(t, "count", b, 0)
    /\ UNCHANGED <<used_memory, lost>>
\* update_zmalloc_stat_alloc
Count(t) ==
    /\ zt[t].do = "count"
    /\ used_memory' = used_memory + size[zt[t].ptr]
    /\ zt' = [zt EXCEPT ![t] = Quiet]
    /\ UNCHANGED <<size, lost>>

\* zrealloc reads the old size first; the block grows in place or moves.
\* Mutant: the size is read from the new block.
ReallocFrom(t, b, c, s, old) ==
    /\ zt[t] = Quiet /\ b \in Live /\ (c = b \/ size[c] = 0)
    /\ size' = [size EXCEPT ![b] = 0, ![c] = s]
    /\ ZSet(t, "uncount", c, old)
    /\ UNCHANGED <<used_memory, lost>>
ReallocLate(t, b, c, s) == ReallocFrom(t, b, c, s, s)
Realloc(t, b, c, s) == ReallocFrom(t, b, c, s, size[b])
Uncount(t) ==
    /\ zt[t].do = "uncount"
    /\ used_memory' = used_memory - zt[t].oldsize
    /\ ZSet(t, "count", zt[t].ptr, 0)
    /\ UNCHANGED <<size, lost>>

\* zfree: update_zmalloc_stat_free, then free.
Zfree(t, b) ==
    /\ zt[t] = Quiet /\ b \in Live
    /\ used_memory' = used_memory - size[b]
    /\ ZSet(t, "free", b, 0)
    /\ UNCHANGED <<size, lost>>
Free(t) ==
    /\ zt[t].do = "free"
    /\ Resize(zt[t].ptr, 0)
    /\ zt' = [zt EXCEPT ![t] = Quiet]
    /\ UNCHANGED <<used_memory, lost>>
\* free_state of the commands 'file' and 'user' calls free.
FreeState(t, b) ==
    /\ zt[t] = Quiet /\ b \in Live /\ lost + size[b] <= MaxLost
    /\ Resize(b, 0)
    /\ lost' = lost + size[b]
    /\ UNCHANGED <<used_memory, zt>>

ZmallocNext == \E t \in ZThreads :
    \/ \E b \in Blocks : \/ \E s \in Sizes : Alloc(t, b, s) \/ \E c \in Blocks : Realloc(t, b, c, s)
                         \/ Zfree(t, b) \/ FreeState(t, b)
    \/ Count(t) \/ Uncount(t) \/ Free(t)

ZmallocSpec == ZmallocInit /\ [][ZmallocNext]_zvars

-----------------------------------------------------------------------------
SizeOf(s) == MapThenSumSet(LAMBDA b : size[b], s)

\* zmalloc_used_memory never wraps below zero, and when no thread is between
\* the allocator and the count it is the memory in use, and in addition all
\* that the commands ever released with free instead of zfree.
UsedExact ==
    /\ used_memory >= 0
    /\ (\A t \in ZThreads : zt[t] = Quiet) => used_memory = SizeOf(Blocks) + lost
=============================================================================
