-------------------------------- MODULE Arena --------------------------------
(***************************************************************************)
(* Arena (src/src/util/mm/Arena.cpp), a bump allocator with no free: one   *)
(* thread allocates.  An address is a block and an offset in it.  operator *)
(* new[] returns blocks aligned to 16 bytes, so an address is aligned as   *)
(* its offset is; block 0 is the null pointer.                             *)
(***************************************************************************)
EXTENDS Integers, Sequences

CONSTANTS kBlockSize,    \* 4096
          RequestSizes,  \* the sizes asked for
          MaxChunks      \* bound on the requests

ASSUME ArenaAssumption == /\ kBlockSize \in Nat \ {0} /\ kBlockSize % 8 = 0
                          /\ RequestSizes \subseteq Nat \ {0}
                          /\ MaxChunks \in Nat

VARIABLES
  blocks_,                 \* the sizes of the blocks
  alloc_ptr_,              \* [block, offset]
  alloc_bytes_remaining_,
  memory_usage_,
  chunks                   \* history: what was handed out, [block, offset, size, aligned]

arenaVars == <<blocks_, alloc_ptr_, alloc_bytes_remaining_, memory_usage_, chunks>>

ArenaInit == /\ blocks_ = <<>>
             /\ alloc_ptr_ = [block |-> 0, offset |-> 0]
             /\ alloc_bytes_remaining_ = 0
             /\ memory_usage_ = 0
             /\ chunks = <<>>

\* The bytes of padding before the next aligned address.
Slop == LET current_mod == alloc_ptr_.offset % 8
        IN  IF current_mod = 0 THEN 0 ELSE 8 - current_mod

-----------------------------------------------------------------------------
HandOut(b, o, n, aligned) ==
  chunks' = Append(chunks, [block |-> b, offset |-> o, size |-> n, aligned |-> aligned])

\* allocateNewBlock counts the pointer to the block too.
NewBlock(size) == /\ blocks_' = Append(blocks_, size)
                  /\ memory_usage_' = memory_usage_ + size + 8

\* Mutant: the result starts after the padding, the free space before it.
BumpWithoutSlop(n, slop, aligned) ==
  /\ n + slop <= alloc_bytes_remaining_
  /\ HandOut(alloc_ptr_.block, alloc_ptr_.offset + slop, n, aligned)
  /\ alloc_ptr_' = [alloc_ptr_ EXCEPT !.offset = @ + n]
  /\ alloc_bytes_remaining_' = alloc_bytes_remaining_ - n
  /\ UNCHANGED <<blocks_, memory_usage_>>

\* The current block has room.
Bump(n, slop, aligned) ==
  /\ n + slop <= alloc_bytes_remaining_
  /\ HandOut(alloc_ptr_.block, alloc_ptr_.offset + slop, n, aligned)
  /\ alloc_ptr_' = [alloc_ptr_ EXCEPT !.offset = @ + n + slop]
  /\ alloc_bytes_remaining_' = alloc_bytes_remaining_ - (n + slop)
  /\ UNCHANGED <<blocks_, memory_usage_>>

IsLarge(n) == n > kBlockSize \div 4

\* allocateFallBack: a large request gets a block of its own and the current
\* one stays; another one starts a new block, and the rest of the old is lost.
FallBack(n, slop, aligned) ==
  /\ n + slop > alloc_bytes_remaining_
  /\ HandOut(Len(blocks_) + 1, 0, n, aligned)
  /\ \/ /\ IsLarge(n)
        /\ NewBlock(n)
        /\ UNCHANGED <<alloc_ptr_, alloc_bytes_remaining_>>
     \/ /\ ~IsLarge(n)
        /\ NewBlock(kBlockSize)
        /\ alloc_ptr_' = [block |-> Len(blocks_) + 1, offset |-> n]
        /\ alloc_bytes_remaining_' = kBlockSize - n

allocate(n) == Bump(n, 0, FALSE) \/ FallBack(n, 0, FALSE)

allocateAligned(n) == Bump(n, Slop, TRUE) \/ FallBack(n, Slop, TRUE)

ArenaNext == /\ Len(chunks) < MaxChunks
             /\ \E n \in RequestSizes : allocate(n) \/ allocateAligned(n)

ArenaSpec == ArenaInit /\ [][ArenaNext]_arenaVars

-----------------------------------------------------------------------------
Chunk == [block : Nat, offset : Nat, size : Nat \ {0}, aligned : BOOLEAN]

ArenaTypeOK ==
  /\ blocks_ \in Seq(Nat)
  /\ alloc_ptr_ \in [block : 0 .. Len(blocks_), offset : Nat]
  /\ alloc_bytes_remaining_ \in Nat
  /\ alloc_ptr_.offset + alloc_bytes_remaining_ = IF alloc_ptr_.block = 0 THEN 0 ELSE kBlockSize
  /\ memory_usage_ \in Nat
  /\ chunks \in Seq(Chunk)

\* No two results share a byte and none reaches beyond its block, however
\* aligned, unaligned, small and large requests alternate (Arena.cpp:22-81).
Apart(c, d) == \/ c.block # d.block
               \/ c.offset + c.size <= d.offset
               \/ d.offset + d.size <= c.offset

ChunksApart ==
  /\ \A i, j \in DOMAIN chunks : i # j => Apart(chunks[i], chunks[j])
  /\ \A i \in DOMAIN chunks : LET c == chunks[i]
                              IN  /\ c.block \in DOMAIN blocks_
                                  /\ c.offset + c.size <= blocks_[c.block]

\* The assertion at the end of allocateAligned (Arena.cpp:79), which also
\* covers the results of allocateFallBack.
AlignedResults == \A i \in DOMAIN chunks : chunks[i].aligned => chunks[i].offset % 8 = 0
=============================================================================
