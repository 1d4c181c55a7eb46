---------------------------- MODULE UtilityProofs ----------------------------
(***************************************************************************)
(* Small components that MCUtilities runs side by side.                    *)
(*                                                                         *)
(* The Arena never hands out a byte twice, for every block size that is a  *)
(* multiple of the alignment and every sequence of requests.  ChunksApart  *)
(* alone is not inductive.  Two facts tie it to the allocator: in the      *)
(* current block every result ends at or before alloc_ptr_, and the bytes  *)
(* that remain are those up to the end of that block.                      *)
(*                                                                         *)
(* The Buffer is a queue of bytes.  The invariant BufInv says that the     *)
(* array of capacity_ + 1 places holds the expected bytes from get_pos_ on *)
(* and that put_pos_ is the place behind them; then find sees a place of   *)
(* the array as what stands there among the expected bytes.                *)
(*                                                                         *)
(* The LRUReplacer is LRUCache: its list is ordered by the relation newer, *)
(* so the entry that is dropped at its end is the one used longest ago.    *)
(*                                                                         *)
(* An integer of BufferWriter is read back by BufferReader exactly when    *)
(* no byte of 128 or more spoils the bytes above it: in each column of the *)
(* result there is one byte of the number, and sign extensions.            *)
(*                                                                         *)
(* A LogFormatter prints what its pattern spells.  Scanned is a recursive  *)
(* function, so a scan of a longer pattern is shown to agree with that of  *)
(* the shorter one; then the pieces are the directives, one by one.        *)
(***************************************************************************)
EXTENDS Arena, Buffer, LRUReplacer, ByteOrder, Pattern, WellFoundedInduction, TLAPS

-----------------------------------------------------------------------------
(* Arena *)

\* What the results in the current block leave free.
BelowPointer == \A i \in DOMAIN chunks :
                  chunks[i].block = alloc_ptr_.block
                    => chunks[i].offset + chunks[i].size <= alloc_ptr_.offset

CurrentBlockSize == alloc_ptr_.block # 0 => blocks_[alloc_ptr_.block] = kBlockSize

ArenaInv == ArenaTypeOK /\ CurrentBlockSize /\ BelowPointer /\ ChunksApart /\ AlignedResults

\* A sequence one element longer.
LEMMA Longer ==
  ASSUME NEW S, NEW s \in Seq(S), NEW x \in S
  PROVE  /\ Append(s, x) \in Seq(S)
         /\ DOMAIN s = 1 .. Len(s)
         /\ Len(Append(s, x)) = Len(s) + 1
         /\ DOMAIN Append(s, x) = 1 .. Len(s) + 1
         /\ \A i \in 1 .. Len(s) : Append(s, x)[i] = s[i]
         /\ Append(s, x)[Len(s) + 1] = x
  OBVIOUS

\* The padding aligns the address.
LEMMA SlopAligns ==
  ASSUME alloc_ptr_.offset \in Nat
  PROVE  Slop \in 0 .. 7 /\ (alloc_ptr_.offset + Slop) % 8 = 0
  BY DEF Slop

\* A chunk that is apart from all others and within its block, and aligned if
\* it was asked to be, may be handed out; the blocks may grow by one.
LEMMA Handing ==
  ASSUME ArenaInv, NEW c \in Chunk,
         chunks' = Append(chunks, c),
         blocks_' \in Seq(Nat), Len(blocks_) <= Len(blocks_'),
         \A b \in 1 .. Len(blocks_) : blocks_'[b] = blocks_[b],
         \A i \in 1 .. Len(chunks) : Apart(chunks[i], c) /\ Apart(c, chunks[i]),
         c.block \in 1 .. Len(blocks_'), c.offset + c.size <= blocks_'[c.block],
         c.aligned => c.offset % 8 = 0
  PROVE  chunks' \in Seq(Chunk) /\ ChunksApart' /\ AlignedResults'
<1>1. chunks \in Seq(Chunk) /\ blocks_ \in Seq(Nat)
  BY DEF ArenaInv, ArenaTypeOK
<1>2. /\ chunks' \in Seq(Chunk)
      /\ DOMAIN chunks = 1 .. Len(chunks) /\ DOMAIN chunks' = 1 .. Len(chunks) + 1
      /\ \A i \in 1 .. Len(chunks) : chunks'[i] = chunks[i]
      /\ chunks'[Len(chunks) + 1] = c
  BY <1>1, Longer
<1>3. Len(chunks) \in Nat /\ Len(blocks_) \in Nat /\ Len(blocks_') \in Nat
  BY <1>1
<1>4. DOMAIN blocks_ = 1 .. Len(blocks_) /\ DOMAIN blocks_' = 1 .. Len(blocks_')
  BY <1>1
<1>5. ASSUME NEW i \in DOMAIN chunks', NEW j \in DOMAIN chunks', i # j
      PROVE  Apart(chunks'[i], chunks'[j])
  <2>1. CASE i \in 1 .. Len(chunks) /\ j \in 1 .. Len(chunks)
    BY <1>2, <1>5, <2>1 DEF ArenaInv, ChunksApart
  <2>2. CASE i = Len(chunks) + 1 \/ j = Len(chunks) + 1
    BY <1>2, <1>3, <1>5, <2>2
  <2> QED
    BY <1>2, <1>3, <2>1, <2>2
<1>6. ASSUME NEW i \in DOMAIN chunks'
      PROVE  /\ chunks'[i].block \in DOMAIN blocks_'
             /\ chunks'[i].offset + chunks'[i].size <= blocks_'[chunks'[i].block]
             /\ chunks'[i].aligned => chunks'[i].offset % 8 = 0
  <2>1. CASE i \in 1 .. Len(chunks)
    <3>1. chunks[i].block \in 1 .. Len(blocks_)
      BY <1>2, <1>4, <2>1 DEF ArenaInv, ChunksApart
    <3>2. /\ chunks[i].offset + chunks[i].size <= blocks_[chunks[i].block]
          /\ chunks[i].aligned => chunks[i].offset % 8 = 0
      BY <1>2, <2>1 DEF ArenaInv, ChunksApart, AlignedResults
    <3> QED
      BY <1>2, <1>3, <1>4, <2>1, <3>1, <3>2
  <2>2. CASE i = Len(chunks) + 1
    BY <1>2, <1>4, <2>2
  <2> QED
    BY <1>2, <1>3, <2>1, <2>2
<1> QED
  BY <1>2, <1>5, <1>6 DEF ChunksApart, AlignedResults

-----------------------------------------------------------------------------
\* A chunk that ends before another one of its block starts, or that is in
\* another block, shares no byte with it.
LEMMA ApartBelow ==
  ASSUME NEW x \in Chunk, NEW d \in Chunk,
         x.block = d.block => x.offset + x.size <= d.offset
  PROVE  Apart(x, d) /\ Apart(d, x)
<1>1. CASE x.block # d.block
  BY <1>1 DEF Apart
<1>2. CASE x.block = d.block
  BY <1>2 DEF Apart
<1> QED
  BY <1>1, <1>2

\* Handing out the next bytes of the current block keeps the invariant.
LEMMA BumpKeepsInv ==
  ASSUME ArenaInv, NEW n \in Nat \ {0}, NEW slop \in Nat, NEW aligned \in BOOLEAN,
         aligned => (alloc_ptr_.offset + slop) % 8 = 0,
         Bump(n, slop, aligned)
  PROVE  ArenaInv'
<1> DEFINE p == alloc_ptr_.offset
           b == alloc_ptr_.block
           c == [block |-> b, offset |-> p + slop, size |-> n, aligned |-> aligned]
<1>1. /\ blocks_ \in Seq(Nat) /\ chunks \in Seq(Chunk)
      /\ alloc_ptr_ \in [block : 0 .. Len(blocks_), offset : Nat]
      /\ alloc_bytes_remaining_ \in Nat /\ memory_usage_ \in Nat
      /\ p + alloc_bytes_remaining_ = IF b = 0 THEN 0 ELSE kBlockSize
      /\ kBlockSize \in Nat
  BY ArenaAssumption DEF ArenaInv, ArenaTypeOK
<1>2. /\ n + slop <= alloc_bytes_remaining_
      /\ chunks' = Append(chunks, c)
      /\ alloc_ptr_' = [alloc_ptr_ EXCEPT !.offset = p + n + slop]
      /\ alloc_bytes_remaining_' = alloc_bytes_remaining_ - (n + slop)
      /\ blocks_' = blocks_ /\ memory_usage_' = memory_usage_
  BY DEF Bump, HandOut
<1>3. p \in Nat /\ b \in 0 .. Len(blocks_) /\ Len(blocks_) \in Nat
      /\ alloc_ptr_' = [block |-> b, offset |-> p + n + slop]
  <2>1. p \in Nat /\ b \in 0 .. Len(blocks_) /\ Len(blocks_) \in Nat
    BY <1>1
  <2>2. alloc_ptr_ = [block |-> b, offset |-> p]
    BY <1>1
  <2>3. alloc_ptr_' = [block |-> b, offset |-> p + n + slop]
    BY <1>2, <2>2
  <2> QED
    BY <2>1, <2>3
<1>4. b # 0 /\ b \in 1 .. Len(blocks_) /\ blocks_[b] = kBlockSize
      /\ p + slop + n <= kBlockSize
  <2> HIDE DEF p
  <2>1. b # 0
    BY <1>1, <1>2, <1>3
  <2>2. p + alloc_bytes_remaining_ = kBlockSize
    BY <1>1, <2>1
  <2>3. p + slop + n <= kBlockSize
    BY <1>1, <1>2, <1>3, <2>2
  <2>4. blocks_[b] = kBlockSize
    BY <2>1 DEF ArenaInv, CurrentBlockSize
  <2> QED
    BY <1>3, <2>1, <2>3, <2>4
<1>5. c \in Chunk /\ c.block = b /\ c.offset = p + slop /\ c.size = n /\ c.aligned = aligned
  BY <1>3, <1>4 DEF Chunk
<1>6. \A i \in 1 .. Len(chunks) : /\ chunks[i] \in Chunk
                                  /\ chunks[i].block = b => chunks[i].offset + chunks[i].size <= p
  BY <1>1 DEF ArenaInv, BelowPointer
<1> HIDE DEF c, p, b
<1>7. \A i \in 1 .. Len(chunks) : Apart(chunks[i], c) /\ Apart(c, chunks[i])
  <2> SUFFICES ASSUME NEW i \in 1 .. Len(chunks)
               PROVE  Apart(chunks[i], c) /\ Apart(c, chunks[i])
    OBVIOUS
  <2> DEFINE e == chunks[i].offset + chunks[i].size
  <2>1. e \in Nat
    BY <1>6 DEF Chunk
  <2>2. chunks[i].block = b => e <= p
    BY <1>6
  <2> HIDE DEF e
  <2>3. chunks[i].block = c.block => e <= c.offset
    BY <1>3, <1>5, <2>1, <2>2
  <2>4. chunks[i] \in Chunk
    BY <1>6
  <2> QED
    BY <1>5, <2>3, <2>4, ApartBelow DEF e
<1>8. chunks' \in Seq(Chunk) /\ ChunksApart' /\ AlignedResults'
  <2>1. /\ blocks_' \in Seq(Nat) /\ Len(blocks_) <= Len(blocks_')
        /\ \A d \in 1 .. Len(blocks_) : blocks_'[d] = blocks_[d]
        /\ c.block \in 1 .. Len(blocks_') /\ c.offset + c.size <= blocks_'[c.block]
    BY <1>1, <1>2, <1>4, <1>5
  <2>2. c.aligned => c.offset % 8 = 0
    BY <1>5 DEF p
  <2> QED
    BY <1>2, <1>5, <1>7, <2>1, <2>2, Handing
<1>9. BelowPointer'
  <2>1. DOMAIN chunks' = 1 .. Len(chunks) + 1 /\ Len(chunks) \in Nat
        /\ (\A i \in 1 .. Len(chunks) : chunks'[i] = chunks[i])
        /\ chunks'[Len(chunks) + 1] = c
    BY <1>1, <1>2, <1>5, Longer
  <2> SUFFICES ASSUME NEW i \in DOMAIN chunks', chunks'[i].block = b
               PROVE  chunks'[i].offset + chunks'[i].size <= p + n + slop
    BY <1>3 DEF BelowPointer
  <2>2. CASE i \in 1 .. Len(chunks)
    <3> DEFINE e == chunks[i].offset + chunks[i].size
    <3>1. e <= p
      BY <1>6, <2>1, <2>2
    <3>2. e \in Nat
      BY <1>6, <2>2 DEF Chunk
    <3>3. chunks'[i].offset + chunks'[i].size = e
      BY <2>1, <2>2
    <3> HIDE DEF e
    <3> QED
      BY <1>3, <3>1, <3>2, <3>3
  <2>3. CASE i = Len(chunks) + 1
    BY <1>3, <1>5, <2>1, <2>3
  <2> QED
    BY <2>1, <2>2, <2>3
<1>10. ArenaTypeOK'
  <2>1. alloc_bytes_remaining_' \in Nat /\ blocks_' \in Seq(Nat) /\ memory_usage_' \in Nat
    BY <1>1, <1>2
  <2>2. alloc_ptr_'.offset + alloc_bytes_remaining_'
          = IF alloc_ptr_'.block = 0 THEN 0 ELSE kBlockSize
    <3>1. p + alloc_bytes_remaining_ = kBlockSize
      BY <1>1, <1>4 DEF p, b
    <3>2. alloc_ptr_'.offset = p + n + slop /\ alloc_ptr_'.block # 0
      BY <1>3, <1>4
    <3>3. (p + n + slop) + (alloc_bytes_remaining_ - (n + slop)) = kBlockSize
      BY <1>1, <1>3, <3>1
    <3> QED
      BY <1>2, <3>2, <3>3
  <2>3. p + n + slop \in Nat
    BY <1>3
  <2>4. alloc_ptr_' \in [block : 0 .. Len(blocks_'), offset : Nat]
    <3> DEFINE q == p + n + slop
    <3>1. q \in Nat /\ alloc_ptr_' = [block |-> b, offset |-> q]
      BY <1>3, <2>3
    <3>2. b \in 0 .. Len(blocks_')
      BY <1>2, <1>3
    <3> HIDE DEF q
    <3> QED
      BY <3>1, <3>2
  <2>5. chunks' \in Seq(Chunk)
    BY <1>8
  <2> QED
    BY <2>1, <2>2, <2>4, <2>5, Zenon DEF ArenaTypeOK
<1> QED
  BY <1>2, <1>3, <1>4, <1>8, <1>9, <1>10 DEF ArenaInv, CurrentBlockSize

\* So does handing out the beginning of a new block.
LEMMA FallBackKeepsInv ==
  ASSUME ArenaInv, NEW n \in Nat \ {0}, NEW slop \in Nat, NEW aligned \in BOOLEAN,
         FallBack(n, slop, aligned)
  PROVE  ArenaInv'
<1> DEFINE k == Len(blocks_) + 1
           c == [block |-> k, offset |-> 0, size |-> n, aligned |-> aligned]
           m == IF IsLarge(n) THEN n ELSE kBlockSize
<1>1. /\ blocks_ \in Seq(Nat) /\ chunks \in Seq(Chunk)
      /\ alloc_ptr_ \in [block : 0 .. Len(blocks_), offset : Nat]
      /\ alloc_bytes_remaining_ \in Nat /\ memory_usage_ \in Nat
      /\ alloc_ptr_.offset + alloc_bytes_remaining_ = IF alloc_ptr_.block = 0 THEN 0 ELSE kBlockSize
      /\ kBlockSize \in Nat
  BY ArenaAssumption DEF ArenaInv, ArenaTypeOK
<1>2. m \in Nat /\ n <= m
  <2>1. CASE IsLarge(n)
    BY <2>1
  <2>2. CASE ~IsLarge(n)
    <3> DEFINE q == kBlockSize \div 4
    <3>1. q \in Nat /\ q <= kBlockSize
      BY <1>1
    <3>2. ~(n > q)
      BY <2>2 DEF IsLarge
    <3> HIDE DEF q
    <3> QED
      BY <1>1, <2>2, <3>1, <3>2
  <2> QED
    BY <2>1, <2>2
<1>3. /\ chunks' = Append(chunks, c)
      /\ blocks_' = Append(blocks_, m) /\ memory_usage_' = memory_usage_ + m + 8
      /\ IF IsLarge(n)
           THEN UNCHANGED <<alloc_ptr_, alloc_bytes_remaining_>>
           ELSE alloc_ptr_' = [block |-> k, offset |-> n]
                /\ alloc_bytes_remaining_' = kBlockSize - n
  BY DEF FallBack, HandOut, NewBlock
<1>4. /\ blocks_' \in Seq(Nat) /\ Len(blocks_') = k /\ blocks_'[k] = m
      /\ \A d \in 1 .. Len(blocks_) : blocks_'[d] = blocks_[d]
      /\ Len(blocks_) \in Nat
  BY <1>1, <1>2, <1>3, Longer
<1>5. c \in Chunk /\ c.block = k /\ c.offset = 0 /\ c.size = n
  BY <1>4 DEF Chunk
<1>6. \A i \in 1 .. Len(chunks) : chunks[i] \in Chunk /\ chunks[i].block # k
                                  /\ chunks[i].block \in 1 .. Len(blocks_)
  <2> SUFFICES ASSUME NEW i \in 1 .. Len(chunks)
               PROVE  chunks[i] \in Chunk /\ chunks[i].block # k
                      /\ chunks[i].block \in 1 .. Len(blocks_)
    OBVIOUS
  <2>1. DOMAIN chunks = 1 .. Len(chunks) /\ DOMAIN blocks_ = 1 .. Len(blocks_)
        /\ chunks[i] \in Chunk
    BY <1>1
  <2>2. chunks[i].block \in 1 .. Len(blocks_)
    BY <2>1 DEF ArenaInv, ChunksApart
  <2> QED
    BY <1>4, <2>1, <2>2
<1>7. DOMAIN chunks' = 1 .. Len(chunks) + 1 /\ Len(chunks) \in Nat
      /\ (\A i \in 1 .. Len(chunks) : chunks'[i] = chunks[i])
      /\ chunks'[Len(chunks) + 1] = c
  BY <1>1, <1>3, <1>5, Longer
<1> HIDE DEF c, k, m
<1>8. chunks' \in Seq(Chunk) /\ ChunksApart' /\ AlignedResults'
  <2>1. \A i \in 1 .. Len(chunks) : Apart(chunks[i], c) /\ Apart(c, chunks[i])
    BY <1>5, <1>6, ApartBelow
  <2>2. /\ Len(blocks_) <= Len(blocks_') /\ c.block \in 1 .. Len(blocks_')
        /\ c.offset + c.size <= blocks_'[c.block]
    BY <1>2, <1>4, <1>5 DEF k
  <2>3. c.aligned => c.offset % 8 = 0
    BY <1>5
  <2> QED
    BY <1>3, <1>4, <1>5, <2>1, <2>2, <2>3, Handing
<1>9. CASE IsLarge(n)
  <2>1. UNCHANGED <<alloc_ptr_, alloc_bytes_remaining_>>
    BY <1>3, <1>9
  <2>2. ArenaTypeOK'
    BY <1>1, <1>2, <1>3, <1>4, <1>8, <2>1 DEF ArenaTypeOK, k
  <2>3. CurrentBlockSize'
    BY <1>1, <1>4, <2>1 DEF ArenaInv, CurrentBlockSize
  <2>4. BelowPointer'
    <3> SUFFICES ASSUME NEW i \in DOMAIN chunks', chunks'[i].block = alloc_ptr_.block
                 PROVE  chunks'[i].offset + chunks'[i].size <= alloc_ptr_.offset
      BY <2>1 DEF BelowPointer
    <3>1. alloc_ptr_.block # k
      BY <1>1, <1>4 DEF k
    <3>2. i \in 1 .. Len(chunks)
      BY <1>5, <1>7, <3>1
    <3> QED
      BY <1>7, <3>2 DEF ArenaInv, BelowPointer
  <2> QED
    BY <1>8, <2>2, <2>3, <2>4 DEF ArenaInv
<1>10. CASE ~IsLarge(n)
  <2>1. /\ alloc_ptr_' = [block |-> k, offset |-> n]
        /\ alloc_bytes_remaining_' = kBlockSize - n /\ m = kBlockSize
    BY <1>3, <1>10 DEF m
  <2>2. ArenaTypeOK'
    BY <1>1, <1>2, <1>3, <1>4, <1>8, <2>1 DEF ArenaTypeOK, k
  <2>3. CurrentBlockSize'
    BY <1>4, <2>1 DEF CurrentBlockSize
  <2>4. BelowPointer'
    <3> SUFFICES ASSUME NEW i \in DOMAIN chunks', chunks'[i].block = k
                 PROVE  chunks'[i].offset + chunks'[i].size <= n
      BY <2>1 DEF BelowPointer
    <3>1. i = Len(chunks) + 1
      BY <1>6, <1>7
    <3> QED
      BY <1>5, <1>7, <3>1
  <2> QED
    BY <1>8, <2>2, <2>3, <2>4 DEF ArenaInv
<1> QED
  BY <1>9, <1>10

\* Every request keeps the invariant.
LEMMA ArenaStep == ArenaInv /\ [ArenaNext]_arenaVars => ArenaInv'
<1> SUFFICES ASSUME ArenaInv, [ArenaNext]_arenaVars
             PROVE  ArenaInv'
  OBVIOUS
<1>1. CASE UNCHANGED arenaVars
  BY <1>1 DEF arenaVars, ArenaInv, ArenaTypeOK, CurrentBlockSize, BelowPointer, ChunksApart,
              AlignedResults
<1>2. ASSUME NEW n \in RequestSizes, allocate(n)
      PROVE  ArenaInv'
  BY <1>2, BumpKeepsInv, FallBackKeepsInv, ArenaAssumption DEF allocate
<1>3. ASSUME NEW n \in RequestSizes, allocateAligned(n)
      PROVE  ArenaInv'
  <2>1. Slop \in Nat /\ (alloc_ptr_.offset + Slop) % 8 = 0
    <3>1. alloc_ptr_.offset \in Nat
      BY DEF ArenaInv, ArenaTypeOK
    <3>2. Slop \in 0 .. 7 /\ (alloc_ptr_.offset + Slop) % 8 = 0
      BY <3>1, SlopAligns
    <3> QED
      BY <3>2
  <2>2. n \in Nat \ {0}
    BY ArenaAssumption
  <2> QED
    BY <1>3, <2>1, <2>2, BumpKeepsInv, FallBackKeepsInv DEF allocateAligned
<1> QED
  BY <1>1, <1>2, <1>3 DEF ArenaNext

\* An arena starts with no block.
LEMMA ArenaStart == ArenaInit => ArenaInv
  BY ArenaAssumption DEF ArenaInit, ArenaInv, ArenaTypeOK, CurrentBlockSize, BelowPointer,
                         ChunksApart, AlignedResults

\* No two results overlap and none leaves its block (Arena.cpp:22-81).
THEOREM NeverTwice == ArenaSpec => []ChunksApart
<1>1. ArenaInv => ChunksApart
  BY DEF ArenaInv
<1> QED
  BY <1>1, ArenaStart, ArenaStep, PTL DEF ArenaSpec

\* The assertion at Arena.cpp:79 never fails.
THEOREM AssertionHolds == ArenaSpec => []AlignedResults
<1>1. ArenaInv => AlignedResults
  BY DEF ArenaInv
<1> QED
  BY <1>1, ArenaStart, ArenaStep, PTL DEF ArenaSpec

-----------------------------------------------------------------------------
(* Buffer *)

\* Within two laps, a remainder is the number or what a lap leaves of it.
LEMMA WithinTwoLaps ==
  ASSUME NEW C \in Nat \ {0}, NEW n \in Nat, n < 2 * C
  PROVE  n % C = IF n < C THEN n ELSE n - C
<1>1. CASE n < C
  BY <1>1
<1>2. CASE n >= C
  <2>1. n = C * 1 + (n - C) /\ n - C \in 0 .. C - 1
    BY <1>2
  <2> DEFINE r == n - C
  <2>2. n = C * 1 + r /\ r \in 0 .. C - 1
    BY <2>1
  <2> HIDE DEF r
  <2>3. n % C = r
    BY <2>2
  <2> QED
    BY <1>2, <2>3 DEF r
<1> QED
  BY <1>1, <1>2

\* The place i further than g in an array of n + 1 places.
Ring(g, i, n) == IF g + i <= n THEN g + i ELSE g + i - (n + 1)

\* Places of the array, with one subtraction instead of a remainder.
LEMMA RingIs ==
  ASSUME NEW n \in Nat, NEW g \in 0 .. n, NEW i \in 0 .. n
  PROVE  /\ (g + i) % (n + 1) = Ring(g, i, n)
         /\ Ring(g, i, n) \in 0 .. n
         /\ \A j \in 0 .. n : Ring(g, i, n) = Ring(g, j, n) => i = j
         /\ \A j \in 0 .. n : i + j <= n => Ring(Ring(g, i, n), j, n) = Ring(g, i + j, n)
<1>1. (g + i) % (n + 1) = Ring(g, i, n)
  <2> DEFINE C == n + 1
             m == g + i
  <2>1. C \in Nat \ {0} /\ m \in Nat /\ m < 2 * C
    OBVIOUS
  <2> HIDE DEF C, m
  <2>2. m % C = IF m < C THEN m ELSE m - C
    BY <2>1, WithinTwoLaps
  <2> QED
    BY <2>2 DEF C, m, Ring
<1>2. Ring(g, i, n) \in 0 .. n
  BY DEF Ring
<1>3. \A j \in 0 .. n : Ring(g, i, n) = Ring(g, j, n) => i = j
  BY DEF Ring
<1>4. \A j \in 0 .. n : i + j <= n => Ring(Ring(g, i, n), j, n) = Ring(g, i + j, n)
  BY DEF Ring
<1> QED
  BY <1>1, <1>2, <1>3, <1>4

\* The bytes of e are in d, from place g on.
Holds(d, g, n, e) == \A i \in 0 .. Len(e) - 1 : d[Ring(g, i, n)] = e[i + 1]

\* An array of n + 1 places with the bytes of e between the positions g and p.
Keeps(n, g, p, d, e) ==
  /\ n \in Nat /\ g \in 0 .. n
  /\ e \in Seq(Bytes) /\ Len(e) <= n
  /\ p = Ring(g, Len(e), n)
  /\ Holds(d, g, n, e)

\* The first b bytes are taken.
LEMMA Taken ==
  ASSUME NEW n, NEW g, NEW p, NEW d, NEW e, Keeps(n, g, p, d, e), NEW b \in 0 .. Len(e)
  PROVE  Keeps(n, Ring(g, b, n), p, d, SubSeq(e, b + 1, Len(e)))
<1> DEFINE f == SubSeq(e, b + 1, Len(e))
           l == Len(e)
<1>1. n \in Nat /\ g \in 0 .. n /\ l \in Nat /\ l <= n /\ b \in 0 .. n /\ l - b \in 0 .. n
  BY DEF Keeps
<1>2. /\ f \in Seq(Bytes) /\ Len(f) = l - b
      /\ \A i \in 1 .. l - b : f[i] = e[b + i]
  BY DEF Keeps
<1> HIDE DEF f, l
<1>3. Ring(g, b, n) \in 0 .. n
  BY <1>1, RingIs
<1>4. p = Ring(Ring(g, b, n), l - b, n)
  <2>1. b + (l - b) = l /\ b + (l - b) <= n
    BY <1>1
  <2>2. Ring(Ring(g, b, n), l - b, n) = Ring(g, b + (l - b), n)
    BY <1>1, <2>1, RingIs
  <2> QED
    BY <2>1, <2>2 DEF Keeps, l
<1>5. ASSUME NEW i \in 0 .. (l - b) - 1
      PROVE  d[Ring(Ring(g, b, n), i, n)] = f[i + 1]
  <2>1. i \in 0 .. n /\ b + i \in 0 .. l - 1 /\ b + i <= n /\ i + 1 \in 1 .. l - b
        /\ (b + i) + 1 = b + (i + 1)
    BY <1>1
  <2>2. Ring(Ring(g, b, n), i, n) = Ring(g, b + i, n)
    BY <1>1, <2>1, RingIs
  <2>3. d[Ring(g, b + i, n)] = e[(b + i) + 1]
    BY <2>1 DEF Keeps, Holds, l
  <2> QED
    BY <1>2, <2>1, <2>2, <2>3
<1>6. Holds(d, Ring(g, b, n), n, f)
  BY <1>2, <1>5 DEF Holds
<1> QED
  BY <1>1, <1>2, <1>3, <1>4, <1>6 DEF Keeps, f

\* The bytes of s are put after those of e.
LEMMA Put ==
  ASSUME NEW n, NEW g, NEW p, NEW d, NEW e, Keeps(n, g, p, d, e),
         NEW s \in Seq(Bytes), Len(e) + Len(s) <= n, NEW c,
         \A i \in 0 .. Len(s) - 1 : c[Ring(g, Len(e) + i, n)] = s[i + 1],
         \A i \in 0 .. Len(e) - 1 : c[Ring(g, i, n)] = d[Ring(g, i, n)]
  PROVE  Keeps(n, g, Ring(g, Len(e) + Len(s), n), c, e \o s)
<1> DEFINE f == e \o s
<1>1. /\ f \in Seq(Bytes) /\ Len(f) = Len(e) + Len(s) /\ Len(e) \in Nat /\ Len(s) \in Nat
      /\ \A i \in 1 .. Len(e) : f[i] = e[i]
      /\ \A i \in 1 .. Len(s) : f[Len(e) + i] = s[i]
  BY DEF Keeps
<1> HIDE DEF f
<1>2. ASSUME NEW i \in 0 .. Len(f) - 1
      PROVE  c[Ring(g, i, n)] = f[i + 1]
  <2>1. CASE i < Len(e)
    <3>1. i \in 0 .. Len(e) - 1 /\ i + 1 \in 1 .. Len(e)
      BY <1>1, <2>1
    <3> QED
      BY <1>1, <3>1 DEF Keeps, Holds
  <2>2. CASE i >= Len(e)
    <3> SUFFICES ASSUME NEW k, k = i - Len(e)
                 PROVE  c[Ring(g, i, n)] = f[i + 1]
      OBVIOUS
    <3>1. k \in 0 .. Len(s) - 1 /\ k + 1 \in 1 .. Len(s) /\ Len(e) + k = i
          /\ Len(e) + (k + 1) = i + 1
      BY <1>1, <2>2
    <3>2. c[Ring(g, Len(e) + k, n)] = s[k + 1]
      BY <3>1
    <3>3. f[Len(e) + (k + 1)] = s[k + 1]
      BY <1>1, <3>1
    <3> QED
      BY <3>1, <3>2, <3>3
  <2> QED
    BY <1>1, <2>1, <2>2
<1>3. Holds(c, g, n, f)
  BY <1>2 DEF Holds
<1> QED
  BY <1>1, <1>3 DEF Keeps, f

\* reset puts the bytes at the front of a new array.
LEMMA Copied ==
  ASSUME NEW n \in Nat, NEW e \in Seq(Bytes), Len(e) <= n, NEW d,
         \A i \in 0 .. n : d[i] = IF i < Len(e) THEN e[i + 1] ELSE Junk
  PROVE  Keeps(n, 0, Len(e), d, e)
<1>1. Len(e) \in Nat
  OBVIOUS
<1>2. \A i \in 0 .. n : Ring(0, i, n) = i
  BY DEF Ring
<1>3. \A i \in 0 .. Len(e) - 1 : i \in 0 .. n /\ i < Len(e)
  BY <1>1
<1>4. Holds(d, 0, n, e)
  BY <1>2, <1>3 DEF Holds
<1>5. Len(e) = Ring(0, Len(e), n)
  BY <1>1, <1>2
<1> QED
  BY <1>4, <1>5 DEF Keeps

-----------------------------------------------------------------------------
BufInv == /\ capacity_ \in Nat /\ capacity_ >= InitSize
          /\ Keeps(capacity_, get_pos_, put_pos_, data_, expected)

\* size is the number of expected bytes, and indexOf walks round the array.
LEMMA SizeIs ==
  ASSUME BufInv
  PROVE  /\ capacity_ \in Nat /\ get_pos_ \in 0 .. capacity_ /\ expected \in Seq(Bytes)
         /\ size = Len(expected) /\ Len(expected) \in 0 .. capacity_
         /\ \A i \in 0 .. capacity_ : indexOf(get_pos_, i) = Ring(get_pos_, i, capacity_)
<1> DEFINE n == capacity_
           l == Len(expected)
           g == get_pos_
<1>1. n \in Nat /\ g \in 0 .. n /\ expected \in Seq(Bytes) /\ l <= n /\ put_pos_ = Ring(g, l, n)
  BY DEF BufInv, Keeps
<1>2. l \in 0 .. n
  BY <1>1
<1>3. \A i \in 0 .. n : indexOf(g, i) = Ring(g, i, n)
  BY <1>1, RingIs DEF indexOf
<1> HIDE DEF l
<1>4. (n + 1 + put_pos_ - g) % (n + 1) = l
  <2> DEFINE m == n + 1 + put_pos_ - g
             C == n + 1
  <2>1. m = (IF g + l <= n THEN C + l ELSE l) /\ C \in Nat \ {0} /\ m \in Nat /\ m < 2 * C
    BY <1>1, <1>2 DEF Ring
  <2>2. l < C /\ l \in Nat
    BY <1>1, <1>2
  <2> HIDE DEF m, C
  <2>3. m % C = IF m < C THEN m ELSE m - C
    BY <2>1, WithinTwoLaps
  <2>4. m % C = l
    BY <2>1, <2>2, <2>3
  <2> QED
    BY <2>4 DEF m, C
<1> QED
  BY <1>1, <1>2, <1>3, <1>4 DEF size, l

\* What the buffer holds is what is expected.
LEMMA ContentsAre == ASSUME BufInv PROVE BytesKept
<1>1. /\ size = Len(expected) /\ Len(expected) \in 0 .. capacity_ /\ expected \in Seq(Bytes)
      /\ \A i \in 0 .. capacity_ : indexOf(get_pos_, i) = Ring(get_pos_, i, capacity_)
      /\ capacity_ \in Nat
  BY SizeIs
<1>2. ASSUME NEW i \in 1 .. Len(expected)
      PROVE  data_[indexOf(get_pos_, i - 1)] = expected[i]
  <2>1. i - 1 \in 0 .. Len(expected) - 1 /\ i - 1 \in 0 .. capacity_ /\ (i - 1) + 1 = i
    BY <1>1
  <2>2. data_[Ring(get_pos_, i - 1, capacity_)] = expected[(i - 1) + 1]
    BY <2>1 DEF BufInv, Keeps, Holds
  <2> QED
    BY <1>1, <2>1, <2>2
<1>3. expected = [i \in 1 .. Len(expected) |-> expected[i]]
  BY <1>1
<1>4. Contents = [i \in 1 .. Len(expected) |-> data_[indexOf(get_pos_, i - 1)]]
  BY <1>1 DEF Contents
<1>5. Contents = [i \in 1 .. Len(expected) |-> expected[i]]
  BY <1>2, <1>4
<1> QED
  BY <1>3, <1>5 DEF BytesKept

-----------------------------------------------------------------------------
(* Steps *)

\* A non-empty set of natural numbers has a smallest member.
LEMMA Smallest ==
  ASSUME NEW S \in SUBSET Nat, S # {}
  PROVE  Min(S) \in S /\ \A y \in S : Min(S) <= y
<1> DEFINE R == OpToRel(<, Nat)
<1>1. IsWellFoundedOn(R, Nat)
  BY NatLessThanWellFounded
<1>2. \A x, y \in Nat : y < x => <<y, x>> \in R
  BY DEF OpToRel
<1> HIDE DEF R
<1>3. PICK x \in S : \A y \in S : ~ (<<y, x>> \in R)
  BY <1>1, WFMin
<1>4. \A y \in S : x <= y
  <2> TAKE y \in S
  <2>1. x \in Nat /\ y \in Nat /\ ~ (<<y, x>> \in R)
    BY <1>3
  <2>2. y < x => <<y, x>> \in R
    BY <1>2, <2>1
  <2>3. ~ (y < x)
    BY <2>1, <2>2
  <2> QED
    BY <2>1, <2>3
<1> QED
  BY <1>4 DEF Min

\* The minimum of two numbers.
LEMMA LesserIs ==
  ASSUME NEW a \in Nat, NEW b \in Nat
  PROVE  Min({a, b}) = IF a <= b THEN a ELSE b
<1>1. Min({a, b}) \in {a, b} /\ \A y \in {a, b} : Min({a, b}) <= y
  BY Smallest
<1> QED
  BY <1>1

\* To take n bytes, or all there are, keeps the invariant.
LEMMA ConsumeStep ==
  ASSUME BufInv, NEW m \in Nat, Consume(m)
  PROVE  BufInv'
<1> DEFINE b == Min({m, size})
           l == Len(expected)
<1>1. /\ size = l /\ l \in 0 .. capacity_ /\ capacity_ \in Nat
      /\ \A i \in 0 .. capacity_ : indexOf(get_pos_, i) = Ring(get_pos_, i, capacity_)
  BY SizeIs
<1>2. b \in 0 .. l /\ b \in 0 .. capacity_
  <2>1. b = IF m <= l THEN m ELSE l
    BY <1>1, LesserIs
  <2> HIDE DEF b
  <2> QED
    BY <1>1, <2>1
<1> HIDE DEF b
<1>3. /\ get_pos_' = Ring(get_pos_, b, capacity_)
      /\ expected' = SubSeq(expected, b + 1, Len(expected))
      /\ UNCHANGED <<capacity_, put_pos_, data_>>
  BY <1>1, <1>2 DEF Consume, b
<1>4. Keeps(capacity_, Ring(get_pos_, b, capacity_), put_pos_, data_,
            SubSeq(expected, b + 1, Len(expected)))
  BY <1>2, Taken DEF BufInv
<1> QED
  BY <1>3, <1>4 DEF BufInv

\* What append and read(fd) do first: the buffer is as it was, or twice as
\* large with its bytes at the front.
Grown(n, g, p, d) ==
  IF TooSmall
    THEN /\ n = capacity_ * 2 /\ g = 0 /\ p = size
         /\ \A i \in 0 .. n : d[i] = IF i < size THEN Contents[i + 1] ELSE Junk
    ELSE n = capacity_ /\ g = get_pos_ /\ p = put_pos_ /\ d = data_

\* To move the bytes to the front of a larger array keeps them.
LEMMA GrownKeeps ==
  ASSUME BufInv, NEW n, NEW g, NEW p, NEW d, Grown(n, g, p, d)
  PROVE  /\ Keeps(n, g, p, d, expected) /\ n >= capacity_ /\ n \in Nat
         /\ n - Len(expected) >= kMaxBytesPerRead
<1>1. /\ size = Len(expected) /\ Len(expected) \in 0 .. capacity_ /\ capacity_ \in Nat
      /\ expected \in Seq(Bytes)
  BY SizeIs
<1>2. /\ kMaxBytesPerRead \in Nat \ {0} /\ InitSize \in Nat /\ InitSize >= kMaxBytesPerRead
      /\ capacity_ >= InitSize
  BY BufferAssumption DEF BufInv
<1>3. CASE TooSmall
  <2>1. /\ n = capacity_ * 2 /\ g = 0 /\ p = size
        /\ \A i \in 0 .. n : d[i] = IF i < size THEN expected[i + 1] ELSE Junk
    BY <1>3, ContentsAre DEF Grown, BytesKept
  <2>2. n \in Nat /\ n >= capacity_ /\ n - Len(expected) >= kMaxBytesPerRead
        /\ Len(expected) <= n
    BY <1>1, <1>2, <2>1
  <2>3. Keeps(n, 0, Len(expected), d, expected)
    BY <1>1, <2>1, <2>2, Copied
  <2> QED
    BY <1>1, <2>1, <2>2, <2>3
<1>4. CASE ~TooSmall
  <2>1. n = capacity_ /\ g = get_pos_ /\ p = put_pos_ /\ d = data_
    BY <1>4 DEF Grown
  <2>2. n - Len(expected) >= kMaxBytesPerRead
    BY <1>1, <1>2, <1>4, <2>1 DEF TooSmall, writableBytes
  <2> QED
    BY <1>1, <2>1, <2>2 DEF BufInv
<1> QED
  BY <1>3, <1>4

\* append keeps the invariant: there is room for the whole string.
LEMMA AppendStep ==
  ASSUME BufInv, NEW s \in Strings, append(s)
  PROVE  BufInv'
<1> DEFINE n == IF TooSmall THEN capacity_ * 2 ELSE capacity_
           g == IF TooSmall THEN 0 ELSE get_pos_
           p == IF TooSmall THEN size ELSE put_pos_
           b == Min({Len(s), n - size})
           at(i) == (p + i) % (n + 1)
           d == IF TooSmall THEN [i \in 0 .. n |-> IF i < size THEN Contents[i + 1] ELSE Junk]
                ELSE data_
           l == Len(expected)
<1>1. /\ capacity_' = n /\ get_pos_' = g /\ put_pos_' = at(b)
      /\ data_' = [x \in 0 .. n |->
                     IF \E i \in 0 .. b - 1 : at(i) = x
                       THEN s[(CHOOSE i \in 0 .. b - 1 : at(i) = x) + 1]
                       ELSE d[x]]
      /\ expected' = expected \o s
  BY DEF append
<1>2. Grown(n, g, p, d)
  BY DEF Grown
<1> HIDE DEF n, g, p, d
<1>3. /\ Keeps(n, g, p, d, expected) /\ n >= capacity_ /\ n \in Nat
      /\ n - l >= kMaxBytesPerRead
  BY <1>2, GrownKeeps
<1>4. s \in Seq(Bytes) /\ Len(s) \in Nat /\ Len(s) <= kMaxBytesPerRead /\ kMaxBytesPerRead \in Nat
  BY BufferAssumption
<1>5. size = l /\ l \in Nat /\ capacity_ \in Nat
  BY SizeIs
<1>6. b = Len(s) /\ l + Len(s) <= n
  <2>1. n - l \in Nat /\ Len(s) <= n - l
    BY <1>3, <1>4, <1>5
  <2>2. b = IF Len(s) <= n - l THEN Len(s) ELSE n - l
    BY <1>4, <1>5, <2>1, LesserIs
  <2> HIDE DEF b, l
  <2> QED
    BY <1>3, <1>4, <1>5, <2>1, <2>2
<1> HIDE DEF b
<1>7. \A i \in 0 .. Len(s) : at(i) = Ring(g, l + i, n)
  <2> TAKE i \in 0 .. Len(s)
  <2>1. g \in 0 .. n /\ p = Ring(g, l, n)
    BY <1>3 DEF Keeps
  <2>2. l \in 0 .. n /\ i \in 0 .. n /\ l + i <= n
    BY <1>3, <1>4, <1>5, <1>6
  <2>3. p \in 0 .. n
    BY <1>3, <2>1, <2>2, RingIs
  <2>4. (p + i) % (n + 1) = Ring(p, i, n)
    BY <1>3, <2>2, <2>3, RingIs
  <2>5. Ring(Ring(g, l, n), i, n) = Ring(g, l + i, n)
    BY <1>3, <2>1, <2>2, RingIs
  <2> QED
    BY <2>1, <2>4, <2>5
<1> HIDE DEF at
<1>8. ASSUME NEW i \in 0 .. Len(s) - 1
      PROVE  data_'[Ring(g, l + i, n)] = s[i + 1]
  <2>1. g \in 0 .. n /\ i \in 0 .. Len(s) /\ l + i \in 0 .. n
    BY <1>3, <1>4, <1>5, <1>6 DEF Keeps
  <2>2. ASSUME NEW j \in 0 .. Len(s) - 1, at(j) = Ring(g, l + i, n)
        PROVE  j = i
    <3>1. j \in 0 .. Len(s) /\ l + j \in 0 .. n
      BY <1>3, <1>4, <1>5, <1>6
    <3>2. Ring(g, l + j, n) = Ring(g, l + i, n)
      BY <1>7, <2>2, <3>1
    <3>3. l + j = l + i
      BY <1>3, <2>1, <3>1, <3>2, RingIs
    <3> QED
      BY <1>4, <1>5, <3>3
  <2>3. at(i) = Ring(g, l + i, n)
    BY <1>7, <2>1
  <2>4. (CHOOSE j \in 0 .. Len(s) - 1 : at(j) = Ring(g, l + i, n)) = i
    BY <2>2, <2>3
  <2>5. Ring(g, l + i, n) \in 0 .. n
    BY <1>3, <2>1, RingIs
  <2> QED
    BY <1>1, <1>6, <2>3, <2>4, <2>5
<1>9. ASSUME NEW i \in 0 .. l - 1
      PROVE  data_'[Ring(g, i, n)] = d[Ring(g, i, n)]
  <2>1. g \in 0 .. n /\ i \in 0 .. n
    BY <1>3, <1>4, <1>5, <1>6 DEF Keeps
  <2>2. ASSUME NEW j \in 0 .. Len(s) - 1
        PROVE  at(j) # Ring(g, i, n)
    <3>1. j \in 0 .. Len(s) /\ l + j \in 0 .. n /\ l + j # i
      BY <1>3, <1>4, <1>5, <1>6
    <3>2. Ring(g, l + j, n) # Ring(g, i, n)
      BY <1>3, <2>1, <3>1, RingIs
    <3> QED
      BY <1>7, <3>1, <3>2
  <2>3. Ring(g, i, n) \in 0 .. n
    BY <1>3, <2>1, RingIs
  <2> QED
    BY <1>1, <1>6, <2>2, <2>3
<1>10. Keeps(n, g, Ring(g, l + Len(s), n), data_', expected \o s)
  BY <1>3, <1>4, <1>6, <1>8, <1>9, Put
<1>11. at(b) = Ring(g, l + Len(s), n)
  BY <1>4, <1>6, <1>7
<1>12. n >= InitSize
  BY <1>3, <1>5, BufferAssumption DEF BufInv
<1> QED
  BY <1>1, <1>3, <1>10, <1>11, <1>12 DEF BufInv

\* So does the read that sends the buffer's own content.
LEMMA ReadFdStep ==
  ASSUME BufInv, NEW m \in 0 .. kMaxBytesPerRead, readFd(m)
  PROVE  BufInv'
<1> DEFINE l == Len(expected)
<1>1. /\ size = l /\ l \in 0 .. capacity_ /\ capacity_ \in Nat
      /\ get_pos_ \in 0 .. capacity_
      /\ \A i \in 0 .. capacity_ : indexOf(get_pos_, i) = Ring(get_pos_, i, capacity_)
      /\ kMaxBytesPerRead \in Nat /\ InitSize \in Nat /\ capacity_ >= InitSize
  BY SizeIs, BufferAssumption DEF BufInv
<1>2. m \in 0 .. l
  <2>1. m <= Min({size, kMaxBytesPerRead})
    BY DEF readFd
  <2>2. Min({size, kMaxBytesPerRead}) = IF l <= kMaxBytesPerRead THEN l ELSE kMaxBytesPerRead
    BY <1>1, LesserIs
  <2> QED
    BY <1>1, <2>1, <2>2
<1>3. expected' = SubSeq(expected, m + 1, Len(expected))
  BY DEF readFd
<1>4. CASE TooSmall
  <2>1. /\ capacity_' = capacity_ * 2 /\ get_pos_' = m /\ put_pos_' = size
        /\ data_' = [i \in 0 .. capacity_' |-> IF i < size THEN Contents[i + 1] ELSE Junk]
    BY <1>4 DEF readFd
  <2>2. Grown(capacity_', 0, put_pos_', data_')
    BY <1>4, <2>1 DEF Grown
  <2>3. Keeps(capacity_', 0, put_pos_', data_', expected) /\ capacity_' \in Nat
    BY <2>2, GrownKeeps
  <2>4. Keeps(capacity_', Ring(0, m, capacity_'), put_pos_', data_', expected')
    BY <1>2, <1>3, <2>3, Taken
  <2>5. Ring(0, m, capacity_') = m /\ capacity_' >= InitSize
    BY <1>1, <1>2, <2>1 DEF Ring
  <2> QED
    BY <2>1, <2>3, <2>4, <2>5 DEF BufInv
<1>5. CASE ~TooSmall
  <2>1. get_pos_' = indexOf(get_pos_, m) /\ UNCHANGED <<capacity_, put_pos_, data_>>
    BY <1>5 DEF readFd
  <2>2. get_pos_' = Ring(get_pos_, m, capacity_)
    BY <1>1, <1>2, <2>1
  <2>3. Keeps(capacity_, Ring(get_pos_, m, capacity_), put_pos_, data_, expected')
    BY <1>2, <1>3, Taken DEF BufInv
  <2> QED
    BY <1>1, <2>1, <2>2, <2>3 DEF BufInv
<1> QED
  BY <1>4, <1>5

-----------------------------------------------------------------------------
(* find *)

\* The first k bytes of t are among the bytes of the buffer, from j on.
Among(t, j, k) == /\ j + k <= Len(expected)
                  /\ \A i \in 0 .. k - 1 : expected[j + i + 1] = t[i + 1]

idxOf(j, i) == indexOf(j + get_pos_, i)
AgreesTo(t, j, n) == \A i \in 0 .. n - 1 :
                       idxOf(j, i) # put_pos_ /\ data_[idxOf(j, i)] = t[i + 1]
EndsEarly(t, j) == \E n \in 0 .. Len(t) - 1 : AgreesTo(t, j, n) /\ idxOf(j, n) = put_pos_
EndsOf(t) == {j \in 0 .. size - 1 : AgreesTo(t, j, Len(t)) \/ EndsEarly(t, j)}

\* find in the terms used here.
LEMMA FindEnds ==
  ASSUME NEW t
  PROVE  find(t) = IF EndsOf(t) = {} \/ EndsEarly(t, Min(EndsOf(t))) THEN -1
                   ELSE Min(EndsOf(t))
BY DEF find, EndsOf, EndsEarly, AgreesTo, idxOf

\* The place i bytes after j holds expected byte j + i, or is put_pos_.
LEMMA IdxIs ==
  ASSUME BufInv, NEW j \in Nat, NEW i \in Nat, j + i <= Len(expected)
  PROVE  /\ idxOf(j, i) = Ring(get_pos_, j + i, capacity_)
         /\ idxOf(j, i) = put_pos_ <=> j + i = Len(expected)
         /\ j + i < Len(expected) => data_[idxOf(j, i)] = expected[j + i + 1]
<1>1. /\ capacity_ \in Nat /\ get_pos_ \in 0 .. capacity_ /\ Len(expected) \in 0 .. capacity_
      /\ \A m \in 0 .. capacity_ : indexOf(get_pos_, m) = Ring(get_pos_, m, capacity_)
  BY SizeIs
<1>2. j + i \in 0 .. capacity_ /\ (j + get_pos_) + i = get_pos_ + (j + i)
  BY <1>1
<1>3. idxOf(j, i) = Ring(get_pos_, j + i, capacity_)
  BY <1>1, <1>2 DEF idxOf, indexOf
<1>4. put_pos_ = Ring(get_pos_, Len(expected), capacity_)
  BY DEF BufInv, Keeps
<1>5. idxOf(j, i) = put_pos_ <=> j + i = Len(expected)
  <2> SUFFICES ASSUME NEW m, m = j + i, NEW l, l = Len(expected),
                      NEW g, g = get_pos_, NEW n, n = capacity_
               PROVE  Ring(g, m, n) = Ring(g, l, n) <=> m = l
    BY <1>3, <1>4
  <2>1. n \in Nat /\ g \in 0 .. n /\ m \in 0 .. n /\ l \in 0 .. n
    BY <1>1, <1>2
  <2> QED
    BY <2>1, RingIs
<1>6. j + i < Len(expected) => data_[idxOf(j, i)] = expected[j + i + 1]
  <2> SUFFICES ASSUME j + i < Len(expected), NEW m, m = j + i
               PROVE  data_[idxOf(j, i)] = expected[m + 1]
    OBVIOUS
  <2>1. m \in 0 .. Len(expected) - 1
    BY <1>1, <1>2
  <2>2. data_[Ring(get_pos_, m, capacity_)] = expected[m + 1]
    BY <2>1 DEF BufInv, Keeps, Holds
  <2> QED
    BY <1>3, <2>2
<1> QED
  BY <1>3, <1>5, <1>6

\* A comparison that does not meet put_pos_ stays among the bytes.
LEMMA AgreesIsAmong ==
  ASSUME BufInv, NEW t, NEW j \in 0 .. Len(expected) - 1, NEW k \in Nat
  PROVE  AgreesTo(t, j, k) <=> Among(t, j, k)
<1>1. Len(expected) \in Nat /\ j \in Nat
  BY SizeIs
<1>2. ASSUME AgreesTo(t, j, k)
      PROVE  Among(t, j, k)
  <2>1. j + k <= Len(expected)
    <3> SUFFICES ASSUME j + k > Len(expected)
                 PROVE  FALSE
      BY <1>1
    <3> SUFFICES ASSUME NEW i, i = Len(expected) - j
                 PROVE  FALSE
      OBVIOUS
    <3>1. i \in 0 .. k - 1 /\ i \in Nat /\ j + i = Len(expected)
      BY <1>1
    <3>2. idxOf(j, i) = put_pos_
      BY <1>1, <3>1, IdxIs
    <3> QED
      BY <1>2, <3>1, <3>2 DEF AgreesTo
  <2>2. ASSUME NEW i \in 0 .. k - 1
        PROVE  expected[j + i + 1] = t[i + 1]
    <3>1. i \in Nat /\ j + i < Len(expected) /\ j + i <= Len(expected)
      BY <1>1, <2>1
    <3>2. data_[idxOf(j, i)] = expected[j + i + 1]
      BY <1>1, <3>1, IdxIs
    <3> QED
      BY <1>2, <3>2 DEF AgreesTo
  <2> QED
    BY <2>1, <2>2 DEF Among
<1>3. ASSUME Among(t, j, k)
      PROVE  AgreesTo(t, j, k)
  <2>1. ASSUME NEW i \in 0 .. k - 1
        PROVE  idxOf(j, i) # put_pos_ /\ data_[idxOf(j, i)] = t[i + 1]
    <3>1. i \in Nat /\ j + i < Len(expected) /\ j + i <= Len(expected) /\ j + i # Len(expected)
      BY <1>1, <1>3 DEF Among
    <3>2. idxOf(j, i) # put_pos_ /\ data_[idxOf(j, i)] = expected[j + i + 1]
      BY <1>1, <3>1, IdxIs
    <3> QED
      BY <1>3, <3>2 DEF Among
  <2> QED
    BY <2>1 DEF AgreesTo
<1> QED
  BY <1>2, <1>3

\* A comparison that meets put_pos_ has less than t before it.
LEMMA EarlyIsLate ==
  ASSUME BufInv, NEW t \in Seq(Bytes), NEW j \in 0 .. Len(expected) - 1, EndsEarly(t, j)
  PROVE  j + Len(t) > Len(expected)
<1>1. Len(expected) \in Nat /\ j \in Nat /\ Len(t) \in Nat
  BY SizeIs
<1>2. PICK k \in 0 .. Len(t) - 1 : AgreesTo(t, j, k) /\ idxOf(j, k) = put_pos_
  BY DEF EndsEarly
<1>3. k \in Nat /\ Among(t, j, k)
  BY <1>1, <1>2, AgreesIsAmong
<1>4. j + k <= Len(expected)
  BY <1>3 DEF Among
<1>5. j + k = Len(expected)
  BY <1>1, <1>2, <1>3, <1>4, IdxIs
<1> QED
  BY <1>1, <1>5

Places(t) == {j \in 0 .. Len(expected) - 1 :
                j + Len(t) <= Len(expected) /\ SubSeq(expected, j + 1, j + Len(t)) = t}

\* A place of t is where the bytes of t stand among the expected ones.
LEMMA PlacesAre ==
  ASSUME BufInv, NEW t \in Seq(Bytes), NEW j \in 0 .. Len(expected) - 1
  PROVE  j \in Places(t) <=> Among(t, j, Len(t))
<1>1. Len(expected) \in Nat /\ j \in Nat /\ Len(t) \in Nat /\ expected \in Seq(Bytes)
  BY SizeIs
<1> DEFINE m == Len(t)
           u == SubSeq(expected, j + 1, j + m)
<1>2. ASSUME j + m <= Len(expected)
      PROVE  u = t <=> \A i \in 0 .. m - 1 : expected[j + i + 1] = t[i + 1]
  <2>1. u \in Seq(Bytes) /\ Len(u) = m /\ \A i \in 1 .. m : u[i] = expected[j + i]
    BY <1>1, <1>2
  <2>2. u = t <=> \A i \in 1 .. m : u[i] = t[i]
    <3> HIDE DEF u
    <3>1. u = [i \in 1 .. m |-> u[i]] /\ t = [i \in 1 .. m |-> t[i]]
      BY <1>1, <2>1
    <3> QED
      BY <3>1
  <2> HIDE DEF u
  <2>3. (\A i \in 1 .. m : u[i] = t[i]) <=> \A i \in 1 .. m : expected[j + i] = t[i]
    BY <2>1
  <2>4. (\A i \in 1 .. m : expected[j + i] = t[i]) <=>
          \A i \in 0 .. m - 1 : expected[j + i + 1] = t[i + 1]
    <3>1. ASSUME \A i \in 1 .. m : expected[j + i] = t[i], NEW i \in 0 .. m - 1
          PROVE  expected[j + i + 1] = t[i + 1]
      <4> SUFFICES ASSUME NEW k, k = i + 1
                   PROVE  expected[j + k] = t[k]
        BY <1>1
      <4>1. k \in 1 .. m
        BY <1>1
      <4> QED
        BY <3>1, <4>1
    <3>2. ASSUME \A i \in 0 .. m - 1 : expected[j + i + 1] = t[i + 1], NEW i \in 1 .. m
          PROVE  expected[j + i] = t[i]
      <4>1. i - 1 \in 0 .. m - 1 /\ j + (i - 1) + 1 = j + i /\ (i - 1) + 1 = i
        BY <1>1
      <4> QED
        BY <3>2, <4>1
    <3> QED
      BY <3>1, <3>2
  <2> QED
    BY <2>2, <2>3, <2>4
<1> QED
  BY <1>2 DEF Places, Among

\* find is the first place.  An early end at j leaves no room for the target from
\* j on, so no place is behind it.
LEMMA FindIs ==
  ASSUME BufInv, NEW t \in Seq(Bytes)
  PROVE  /\ find(t) = IF Places(t) = {} THEN -1 ELSE Min(Places(t))
         /\ find(t) = -1 \/ find(t) \in Nat
<1> DEFINE n == Len(expected)
           E == EndsOf(t)
           P == Places(t)
<1>1. n \in Nat /\ size = n /\ Len(t) \in Nat
  BY SizeIs
<1>2. /\ E \in SUBSET Nat /\ P \in SUBSET Nat
      /\ \A j \in E : j \in 0 .. n - 1 /\ (AgreesTo(t, j, Len(t)) \/ EndsEarly(t, j))
      /\ \A j \in P : j \in 0 .. n - 1 /\ j + Len(t) <= n
  BY <1>1 DEF EndsOf, Places
<1>3. P \subseteq E
  <2> SUFFICES ASSUME NEW j \in P
               PROVE  j \in E
    OBVIOUS
  <2>1. j \in 0 .. n - 1 /\ j + Len(t) <= n
    BY <1>2
  <2>2. Among(t, j, Len(t))
    BY <2>1, PlacesAre
  <2>3. AgreesTo(t, j, Len(t))
    BY <1>1, <2>1, <2>2, AgreesIsAmong
  <2> QED
    BY <1>1, <2>1, <2>3 DEF EndsOf
<1>4. \A j \in E : ~EndsEarly(t, j) => j \in P
  <2> SUFFICES ASSUME NEW j \in E, ~EndsEarly(t, j)
               PROVE  j \in P
    OBVIOUS
  <2>1. j \in 0 .. n - 1 /\ j \in Nat /\ AgreesTo(t, j, Len(t))
    BY <1>1, <1>2
  <2>2. Among(t, j, Len(t))
    BY <1>1, <2>1, AgreesIsAmong
  <2> QED
    BY <2>1, <2>2, PlacesAre
<1>5. \A j \in E : EndsEarly(t, j) => j + Len(t) > n
  BY <1>2, EarlyIsLate
<1>6. find(t) = IF E = {} \/ EndsEarly(t, Min(E)) THEN -1 ELSE Min(E)
  BY FindEnds
<1> HIDE DEF E, P
<1>7. CASE E = {}
  BY <1>3, <1>6, <1>7 DEF P
<1>8. CASE E # {}
  <2>1. Min(E) \in E /\ \A j \in E : Min(E) <= j
    BY <1>2, <1>8, Smallest
  <2> SUFFICES ASSUME NEW e, e = Min(E)
               PROVE  find(t) = (IF P = {} THEN -1 ELSE Min(P)) /\ (find(t) = -1 \/ find(t) \in Nat)
    BY DEF P
  <2>2. CASE EndsEarly(t, e)
    <3>1. ASSUME NEW j \in P
          PROVE  FALSE
      <4>1. e \in Nat /\ j \in Nat /\ e <= j
        BY <1>2, <1>3, <2>1
      <4>2. e + Len(t) > n /\ j + Len(t) <= n
        BY <1>2, <1>5, <2>1, <2>2
      <4> QED
        BY <1>1, <4>1, <4>2
    <3> QED
      BY <1>6, <2>2, <3>1
  <2>3. CASE ~EndsEarly(t, e)
    <3>1. e \in P /\ e \in Nat
      BY <1>2, <1>4, <2>1, <2>3
    <3>2. Min(P) \in P /\ \A j \in P : Min(P) <= j
      BY <1>2, <3>1, Smallest
    <3>3. Min(P) <= e /\ e <= Min(P) /\ Min(P) \in Nat
      BY <1>2, <1>3, <2>1, <3>1, <3>2
    <3>4. Min(P) = e
      BY <3>1, <3>3
    <3> QED
      BY <1>6, <1>8, <2>3, <3>1, <3>4
  <2> QED
    BY <2>2, <2>3
<1> QED
  BY <1>7, <1>8

\* So find is right for every target.
LEMMA FindsFirst == BufInv => FindIsFirst
<1> SUFFICES ASSUME BufInv, NEW t \in Targets
             PROVE  find(t) = IF Places(t) = {} THEN -1 ELSE Min(Places(t))
  BY DEF FindIsFirst, Places
<1>1. t \in Seq(Bytes)
  BY BufferAssumption
<1> QED
  BY <1>1, FindIs

-----------------------------------------------------------------------------
LEMMA BufStart == BufInit => BufInv
<1> SUFFICES ASSUME BufInit
             PROVE  BufInv
  OBVIOUS
<1>1. /\ capacity_ = InitSize /\ InitSize \in Nat /\ put_pos_ = 0 /\ get_pos_ = 0
      /\ expected = <<>>
  BY BufferAssumption DEF BufInit
<1>2. Ring(0, 0, InitSize) = 0
  BY <1>1 DEF Ring
<1>3. <<>> \in Seq(Bytes) /\ Len(<<>>) = 0
  OBVIOUS
<1>4. Holds(data_, 0, InitSize, <<>>)
  BY <1>3 DEF Holds
<1> QED
  BY <1>1, <1>2, <1>3, <1>4 DEF BufInv, Keeps

\* clear keeps the invariant.
LEMMA ClearStep ==
  ASSUME BufInv, clear
  PROVE  BufInv'
<1>1. /\ get_pos_' = 0 /\ put_pos_' = 0 /\ expected' = <<>>
      /\ capacity_' = capacity_ /\ data_' = data_
  BY DEF clear
<1>2. capacity_ \in Nat /\ capacity_ >= InitSize
  BY DEF BufInv
<1>3. Ring(0, 0, capacity_) = 0
  BY <1>2 DEF Ring
<1>4. <<>> \in Seq(Bytes) /\ Len(<<>>) = 0
  OBVIOUS
<1>5. Holds(data_, 0, capacity_, <<>>)
  BY <1>4 DEF Holds
<1> QED
  BY <1>1, <1>2, <1>3, <1>4, <1>5 DEF BufInv, Keeps

\* Every step keeps the invariant.
LEMMA BufStep == BufInv /\ [BufNext]_bufVars => BufInv'
<1> SUFFICES ASSUME BufInv, [BufNext]_bufVars
             PROVE  BufInv'
  OBVIOUS
<1>1. ASSUME NEW s \in Strings, append(s)
      PROVE  BufInv'
  BY <1>1, AppendStep
<1>2. ASSUME NEW n \in 1 .. MaxCapacity, read(n) \/ advance(n)
      PROVE  BufInv'
  <2>1. n \in Nat /\ Consume(n)
    BY <1>2, BufferAssumption DEF read, advance
  <2> QED
    BY <2>1, ConsumeStep
<1>3. CASE readAll
  <2>1. size \in Nat
    BY SizeIs
  <2> QED
    BY <1>3, <2>1, ConsumeStep DEF readAll
<1>4. CASE clear
  BY <1>4, ClearStep
<1>5. ASSUME NEW t \in Targets, advanceTo(t) \/ findAndSkip(t)
      PROVE  BufInv'
  <2>1. t \in Seq(Bytes) /\ Len(t) \in Nat
    BY BufferAssumption
  <2>2. find(t) = -1 \/ find(t) \in Nat
    BY <2>1, FindIs
  <2>3. size \in Nat
    BY SizeIs
  <2>4. CASE advanceTo(t)
    <3> SUFFICES ASSUME NEW n, n = IF find(t) = -1 THEN size ELSE find(t)
                 PROVE  BufInv'
      OBVIOUS
    <3>1. n \in Nat /\ Consume(n)
      BY <2>2, <2>3, <2>4 DEF advanceTo
    <3> QED
      BY <3>1, ConsumeStep
  <2>5. CASE findAndSkip(t)
    <3>1. find(t) + Len(t) \in Nat /\ Consume(find(t) + Len(t))
      BY <2>1, <2>2, <2>5 DEF findAndSkip
    <3> QED
      BY <3>1, ConsumeStep
  <2> QED
    BY <1>5, <2>4, <2>5
<1>6. ASSUME NEW n \in 0 .. kMaxBytesPerRead, readFd(n)
      PROVE  BufInv'
  BY <1>6, ReadFdStep
<1>7. CASE UNCHANGED bufVars
  BY <1>7 DEF bufVars, BufInv, Keeps, Holds
<1> QED
  BY <1>1, <1>2, <1>3, <1>4, <1>5, <1>6, <1>7 DEF BufNext

\* However it grows and wraps around, the buffer holds what was appended and not
\* consumed, and find returns the first place of its target, for every capacity
\* and every workload of strings that the limit allows (Buffer.cpp:34-121,
\* BufferReader.cpp:3-71).
THEOREM ByteQueue == BufSpec => []BufferIsQueue
<1>1. BufInv => BufferIsQueue
  BY ContentsAre, FindsFirst DEF BufferIsQueue
<1> QED
  BY <1>1, BufStart, BufStep, PTL DEF BufSpec

-----------------------------------------------------------------------------
(* LRUReplacer *)

Items == [key : Keys, value : Values]

\* The keys of s are in the order that N gives.
LatestFirst(s, N) == \A i, j \in DOMAIN s : i < j => <<s[i].key, s[j].key>> \in N

\* r is s without its entry number p, in the same order.
Thinned(r, s, p) ==
  /\ r \in Seq(Items) /\ Len(r) = Len(s) - 1
  /\ \A N : LatestFirst(s, N) => LatestFirst(r, N)
  /\ \A i \in DOMAIN r : \E j \in DOMAIN s : j # p /\ r[i] = s[j]
  /\ \A j \in DOMAIN s : j # p => \E i \in DOMAIN r : r[i] = s[j]

\* A sequence that leaves out entry p of s, and only it, is Thinned.
LEMMA Thins ==
  ASSUME NEW s \in Seq(Items), NEW p \in DOMAIN s, NEW r \in Seq(Items), Len(r) = Len(s) - 1,
         \A i \in 1 .. Len(s) - 1 : r[i] = s[IF i < p THEN i ELSE i + 1]
  PROVE  Thinned(r, s, p)
<1> DEFINE at(i) == IF i < p THEN i ELSE i + 1
<1>1. /\ DOMAIN s = 1 .. Len(s) /\ Len(s) \in Nat /\ Len(s) - 1 \in Nat
      /\ DOMAIN r = 1 .. Len(s) - 1 /\ p \in 1 .. Len(s)
  OBVIOUS
<1>2. \A i \in DOMAIN r : r[i] = s[at(i)] /\ at(i) \in DOMAIN s /\ at(i) # p
  BY <1>1
<1>3. \A i, j \in DOMAIN r : i < j => at(i) < at(j)
  BY <1>1
<1>4. ASSUME NEW j \in DOMAIN s, j # p
      PROVE  \E i \in DOMAIN r : at(i) = j
  <2>1. CASE j < p
    BY <1>1, <2>1
  <2>2. CASE j > p
    <3>1. j - 1 \in DOMAIN r /\ at(j - 1) = j
      BY <1>1, <2>2
    <3> QED
      BY <3>1
  <2> QED
    BY <1>1, <1>4, <2>1, <2>2
<1> HIDE DEF at
<1>5. ASSUME NEW N, LatestFirst(s, N)
      PROVE  LatestFirst(r, N)
  BY <1>2, <1>3, <1>5 DEF LatestFirst
<1> QED
  BY <1>2, <1>4, <1>5 DEF Thinned

\* RemoveAt is one.
LEMMA RemoveAtThins ==
  ASSUME NEW s \in Seq(Items), NEW p \in DOMAIN s
  PROVE  Thinned(RemoveAt(s, p), s, p)
<1> DEFINE a == SubSeq(s, 1, p - 1)
           b == SubSeq(s, p + 1, Len(s))
           r == a \o b
<1>1. p \in 1 .. Len(s) /\ Len(s) \in Nat
  OBVIOUS
<1>2. /\ a \in Seq(Items) /\ Len(a) = p - 1 /\ \A i \in 1 .. p - 1 : a[i] = s[i]
      /\ b \in Seq(Items) /\ Len(b) = Len(s) - p /\ \A i \in 1 .. Len(s) - p : b[i] = s[p + i]
  BY <1>1
<1> HIDE DEF a, b
<1>3. r \in Seq(Items) /\ Len(r) = Len(s) - 1
  BY <1>1, <1>2
<1>4. ASSUME NEW i \in 1 .. Len(s) - 1
      PROVE  r[i] = s[IF i < p THEN i ELSE i + 1]
  <2>1. CASE i < p
    BY <1>1, <1>2, <2>1
  <2>2. CASE i >= p
    <3>1. i - (p - 1) \in 1 .. Len(s) - p /\ r[i] = b[i - (p - 1)]
      BY <1>1, <1>2, <2>2
    <3>2. p + (i - (p - 1)) = i + 1
      BY <1>1
    <3> QED
      BY <1>2, <2>2, <3>1, <3>2
  <2>3. i \in Nat /\ p \in Nat
    BY <1>1
  <2>4. i < p \/ i >= p
    BY <2>3
  <2> QED
    BY <2>1, <2>2, <2>4
<1> HIDE DEF r
<1>5. Thinned(r, s, p)
  BY <1>3, <1>4, Thins
<1> QED
  BY <1>5 DEF r, a, b, RemoveAt

\* So is Front, for the last entry.
LEMMA FrontThins ==
  ASSUME NEW s \in Seq(Items), s # <<>>
  PROVE  Len(s) \in DOMAIN s /\ Thinned(Front(s), s, Len(s))
<1> DEFINE r == Front(s)
<1>1. Len(s) \in Nat \ {0} /\ DOMAIN s = 1 .. Len(s)
  OBVIOUS
<1>2. r \in Seq(Items) /\ Len(r) = Len(s) - 1 /\ \A i \in 1 .. Len(s) - 1 : r[i] = s[i]
  BY <1>1 DEF Front
<1> HIDE DEF r
<1>3. Len(s) \in DOMAIN s /\ \A i \in 1 .. Len(s) - 1 : i < Len(s)
  BY <1>1
<1>4. Thinned(r, s, Len(s))
  BY <1>2, <1>3, Thins
<1> QED
  BY <1>3, <1>4 DEF r

\* r is s behind the entry e, in the order that M gives.
Led(r, e, s, M) == /\ r \in Seq(Items) /\ Len(r) = Len(s) + 1 /\ LatestFirst(r, M)
                   /\ \A i \in DOMAIN r : r[i] = e \/ \E j \in DOMAIN s : r[i] = s[j]
                   /\ 1 \in DOMAIN r /\ r[1] = e
                   /\ \A j \in DOMAIN s : \E i \in DOMAIN r : r[i] = s[j]

\* A new first entry, whose key was used last.
LEMMA Prepended ==
  ASSUME NEW s \in Seq(Items), NEW e \in Items, NEW N, LatestFirst(s, N),
         NEW M, \A j \in DOMAIN s : <<e.key, s[j].key>> \in M,
         \A i, j \in DOMAIN s : <<s[i].key, s[j].key>> \in N => <<s[i].key, s[j].key>> \in M
  PROVE  Led(<<e>> \o s, e, s, M)
<1> DEFINE r == <<e>> \o s
<1>1. /\ r \in Seq(Items) /\ Len(r) = Len(s) + 1 /\ DOMAIN r = 1 .. Len(s) + 1 /\ r[1] = e
      /\ \A j \in 1 .. Len(s) : r[j + 1] = s[j]
      /\ DOMAIN s = 1 .. Len(s) /\ Len(s) \in Nat
  OBVIOUS
<1> HIDE DEF r
<1>2. ASSUME NEW i \in DOMAIN r, i # 1
      PROVE  i - 1 \in DOMAIN s /\ r[i] = s[i - 1]
  <2>1. i - 1 \in 1 .. Len(s) /\ (i - 1) + 1 = i
    BY <1>1, <1>2
  <2> QED
    BY <1>1, <2>1
<1>3. ASSUME NEW i \in DOMAIN r, NEW j \in DOMAIN r, i < j
      PROVE  <<r[i].key, r[j].key>> \in M
  <2>1. j # 1 /\ i \in Nat /\ j \in Nat
    BY <1>1, <1>3
  <2>2. j - 1 \in DOMAIN s /\ r[j] = s[j - 1]
    BY <1>2, <2>1
  <2>3. CASE i = 1
    BY <1>1, <2>2, <2>3
  <2>4. CASE i # 1
    <3>1. i - 1 \in DOMAIN s /\ r[i] = s[i - 1] /\ i - 1 < j - 1
      BY <1>2, <1>3, <2>1, <2>4
    <3> QED
      BY <2>2, <3>1 DEF LatestFirst
  <2> QED
    BY <2>3, <2>4
<1>4. \A j \in DOMAIN s : j + 1 \in DOMAIN r /\ r[j + 1] = s[j]
  BY <1>1
<1>5. LatestFirst(r, M)
  BY <1>3 DEF LatestFirst
<1>6. 1 \in DOMAIN r
  BY <1>1
<1> QED
  BY <1>1, <1>2, <1>4, <1>5, <1>6 DEF r, Led

-----------------------------------------------------------------------------
\* No key was used later than itself.
LRUInv == LRUTypeOK /\ RecencyOrder /\ \A k : <<k, k>> \notin newer

\* The list as a sequence of entries with different keys.
LEMMA CachesAre ==
  ASSUME LRUInv
  PROVE  /\ caches_ \in Seq(Items) /\ LatestFirst(caches_, newer)
         /\ \A i, j \in DOMAIN caches_ : caches_[i].key = caches_[j].key => i = j
         /\ \A i \in DOMAIN caches_ : caches_[i] \in Items
         /\ DOMAIN caches_ = 1 .. Len(caches_) /\ Len(caches_) \in Nat
<1>1. caches_ \in Seq(Items) /\ LatestFirst(caches_, newer)
  BY DEF LRUInv, LRUTypeOK, RecencyOrder, Items, LatestFirst
<1>2. DOMAIN caches_ = 1 .. Len(caches_) /\ Len(caches_) \in Nat
      /\ \A i \in DOMAIN caches_ : caches_[i] \in Items
  BY <1>1
<1>3. ASSUME NEW i \in DOMAIN caches_, NEW j \in DOMAIN caches_, caches_[i].key = caches_[j].key
      PROVE  i = j
  <2>1. ~(i < j) /\ ~(j < i)
    BY <1>1, <1>3 DEF LRUInv, LatestFirst
  <2> QED
    BY <1>2, <2>1
<1> QED
  BY <1>1, <1>2, <1>3

\* The list without the entry of k, which it holds.
LEMMA WithoutIs ==
  ASSUME LRUInv, NEW k \in cached
  PROVE  /\ Found(k) \in DOMAIN caches_ /\ caches_[Found(k)].key = k
         /\ Thinned(Without(k), caches_, Found(k))
<1>1. PICK i \in DOMAIN caches_ : caches_[i].key = k
  BY DEF cached
<1>2. \A j \in 1 .. i - 1 : caches_[j].key # k
  <2> TAKE j \in 1 .. i - 1
  <2>1. j \in DOMAIN caches_ /\ j # i
    BY CachesAre
  <2> QED
    BY <1>1, <2>1, CachesAre
<1>3. Found(k) \in DOMAIN caches_ /\ caches_[Found(k)].key = k
  BY <1>1, <1>2 DEF Found
<1> QED
  BY <1>3, CachesAre, RemoveAtThins DEF Without

\* What is touched is later than all others, whose order stays.
LEMMA Touched ==
  ASSUME LRUInv, NEW k \in Keys, Touch(k)
  PROVE  /\ newer' \subseteq Keys \X Keys
         /\ \A j : <<j, j>> \notin newer'
         /\ \A j \in Keys \ {k} : <<k, j>> \in newer'
         /\ \A i, j : i # k /\ j # k /\ <<i, j>> \in newer => <<i, j>> \in newer'
BY DEF Touch, LRUInv, LRUTypeOK

\* The list has a new front, of the key used last, and the rest of it is part
\* of what it was.
LEMMA NewFront ==
  ASSUME LRUInv, NEW k \in Keys, Touch(k), NEW e \in Items, e.key = k,
         NEW r \in Seq(Items), LatestFirst(r, newer), \A i \in DOMAIN r : r[i].key # k,
         \A i \in DOMAIN r : \E j \in DOMAIN caches_ : r[i] = caches_[j],
         caches_' = <<e>> \o r, Len(r) < capacity,
         stored' \in [Keys -> Values], stored'[k] = e.value,
         \A j \in Keys : j # k => stored'[j] = stored[j]
  PROVE  /\ LRUInv'
         /\ \A j \in cached' : j = k \/ \E i \in DOMAIN r : r[i].key = j
         /\ k \in cached' /\ \A i \in DOMAIN r : r[i].key \in cached'
<1>1. \A i \in DOMAIN r : r[i] \in Items /\ r[i].key \in Keys
  <2>1. \A i \in DOMAIN r : r[i] \in Items
    OBVIOUS
  <2> QED
    BY <2>1 DEF Items
<1>2. /\ \A j \in DOMAIN r : <<e.key, r[j].key>> \in newer'
      /\ \A i, j \in DOMAIN r : <<r[i].key, r[j].key>> \in newer => <<r[i].key, r[j].key>> \in newer'
  BY <1>1, Touched
<1> DEFINE s == caches_'
<1>3. /\ s \in Seq(Items) /\ Len(s) = Len(r) + 1 /\ LatestFirst(s, newer')
      /\ \A i \in DOMAIN s : s[i] = e \/ \E j \in DOMAIN r : s[i] = r[j]
      /\ 1 \in DOMAIN s /\ s[1] = e
      /\ \A j \in DOMAIN r : \E i \in DOMAIN s : s[i] = r[j]
  <2>1. Led(<<e>> \o r, e, r, newer')
    BY <1>2, Prepended
  <2> QED
    BY <2>1 DEF Led
<1>4. ASSUME NEW i \in DOMAIN s
      PROVE  s[i].value = stored'[s[i].key]
  <2>1. CASE s[i] = e
    BY <2>1
  <2>2. ASSUME NEW j \in DOMAIN r, s[i] = r[j]
        PROVE  s[i].value = stored'[s[i].key]
    <3>1. r[j].key # k /\ r[j].key \in Keys
      BY <1>1
    <3>2. r[j].value = stored[r[j].key]
      BY DEF LRUInv, RecencyOrder
    <3> QED
      BY <2>2, <3>1, <3>2
  <2> QED
    BY <1>3, <2>1, <2>2
<1>5. Len(s) <= capacity
  BY <1>3, ReplacerAssumption
<1>6. LRUTypeOK'
  BY <1>3, <1>5, Touched DEF LRUTypeOK, Items
<1>7. RecencyOrder'
  BY <1>3, <1>4 DEF RecencyOrder, LatestFirst
<1>8. LRUInv'
  BY <1>6, <1>7, Touched DEF LRUInv
<1>9. /\ \A i \in DOMAIN s : s[i].key \in cached'
      /\ \A j \in cached' : \E i \in DOMAIN s : j = s[i].key
  BY DEF cached
<1> HIDE DEF s
<1>10. /\ \A j \in cached' : j = k \/ \E i \in DOMAIN r : r[i].key = j
       /\ k \in cached' /\ \A i \in DOMAIN r : r[i].key \in cached'
  <2>1. ASSUME NEW j \in cached'
        PROVE  j = k \/ \E i \in DOMAIN r : r[i].key = j
    <3>1. PICK i \in DOMAIN s : j = s[i].key
      BY <1>9
    <3>2. s[i] = e \/ \E m \in DOMAIN r : s[i] = r[m]
      BY <1>3
    <3> QED
      BY <3>1, <3>2
  <2>2. k \in cached'
    BY <1>3, <1>9
  <2>3. ASSUME NEW i \in DOMAIN r
        PROVE  r[i].key \in cached'
    BY <1>3, <1>9
  <2> QED
    BY <2>1, <2>2, <2>3
<1> QED
  BY <1>8, <1>10

\* What an access drops was used before all that it keeps.
DropsOldestOnly ==
  cached' \ cached # {} =>
    \A k \in cached \ cached' :
      /\ Len(caches_) = capacity
      /\ \A j \in cached \ {k} : <<j, k>> \in newer

\* A key that is there moves to the front; nothing is dropped.
LEMMA HitStep ==
  ASSUME LRUInv, NEW k \in Keys, Hit(k)
  PROVE  LRUInv' /\ DropsOldestOnly
<1> DEFINE p == Found(k)
           r == Without(k)
           e == caches_[p]
<1>1. k \in cached /\ caches_' = <<e>> \o r /\ Touch(k) /\ stored' = stored
  BY DEF Hit
<1>2. p \in DOMAIN caches_ /\ e.key = k /\ Thinned(r, caches_, p)
  BY <1>1, WithoutIs
<1>3. e \in Items /\ e.value = stored[k]
  BY <1>2, CachesAre DEF LRUInv, RecencyOrder
<1> HIDE DEF p, r
<1>4. /\ r \in Seq(Items) /\ LatestFirst(r, newer)
      /\ \A i \in DOMAIN r : \E j \in DOMAIN caches_ : j # p /\ r[i] = caches_[j]
      /\ \A j \in DOMAIN caches_ : j # p => \E i \in DOMAIN r : r[i] = caches_[j]
      /\ Len(r) = Len(caches_) - 1
  BY <1>2, CachesAre DEF Thinned
<1>5. \A i \in DOMAIN r : r[i].key # k
  BY <1>2, <1>4, CachesAre
<1>6. Len(r) < capacity
  BY <1>4, CachesAre, ReplacerAssumption DEF LRUInv, LRUTypeOK
<1>7. stored' \in [Keys -> Values] /\ stored'[k] = e.value
  BY <1>1, <1>3 DEF LRUInv, LRUTypeOK
<1> HIDE DEF e
<1>8. /\ LRUInv'
      /\ \A j \in cached' : j = k \/ \E i \in DOMAIN r : r[i].key = j
  <2>1. \A i \in DOMAIN r : \E j \in DOMAIN caches_ : r[i] = caches_[j]
    BY <1>4
  <2>2. caches_' = <<e>> \o r /\ Touch(k)
    BY <1>1
  <2>3. r \in Seq(Items) /\ LatestFirst(r, newer) /\ e.key = k /\ e \in Items
    BY <1>2, <1>3, <1>4
  <2>4. \A j \in Keys : j # k => stored'[j] = stored[j]
    BY <1>1
  <2> QED
    BY <1>5, <1>6, <1>7, <2>1, <2>2, <2>3, <2>4, NewFront
<1>9. ASSUME NEW j \in cached'
      PROVE  j \in cached
  <2>1. CASE j = k
    BY <1>1, <2>1
  <2>2. ASSUME NEW i \in DOMAIN r, r[i].key = j
        PROVE  j \in cached
    <3>1. PICK m \in DOMAIN caches_ : r[i] = caches_[m]
      BY <1>4
    <3> QED
      BY <2>2, <3>1 DEF cached
  <2> QED
    BY <1>8, <2>1, <2>2
<1> QED
  BY <1>8, <1>9 DEF DropsOldestOnly

\* A new key goes to the front; a full list loses its last entry, the oldest.
LEMMA MissStep ==
  ASSUME LRUInv, NEW k \in Keys, NEW v \in Values, Miss(k, v)
  PROVE  LRUInv' /\ DropsOldestOnly
<1> DEFINE r == MakeRoom
           e == Entry(k, v)
           n == Len(caches_)
<1>1. /\ k \notin cached /\ caches_' = <<e>> \o r /\ Touch(k)
      /\ stored' = [stored EXCEPT ![k] = v]
  BY DEF Miss
<1>2. e \in Items /\ e.key = k /\ e.value = v
  BY DEF Entry, Items
<1>3. n \in Nat /\ DOMAIN caches_ = 1 .. n /\ n <= capacity /\ capacity \in Nat \ {0}
  BY CachesAre, ReplacerAssumption DEF LRUInv, LRUTypeOK
<1>4. \A j \in DOMAIN caches_ : caches_[j].key # k
  BY <1>1 DEF cached
<1>5. stored' \in [Keys -> Values] /\ stored'[k] = e.value
      /\ \A j \in Keys : j # k => stored'[j] = stored[j]
  BY <1>1, <1>2 DEF LRUInv, LRUTypeOK
<1> HIDE DEF e
<1>6. CASE n < capacity
  <2>1. r = caches_
    BY <1>3, <1>6 DEF MakeRoom
  <2>2. LRUInv' /\ \A i \in DOMAIN caches_ : caches_[i].key \in cached'
    BY <1>1, <1>2, <1>4, <1>5, <1>6, <2>1, CachesAre, NewFront
  <2>3. cached \ cached' = {}
    BY <2>2 DEF cached
  <2> QED
    BY <2>2, <2>3 DEF DropsOldestOnly
<1>7. CASE n = capacity
  <2>1. r = Front(caches_) /\ caches_ # <<>>
    BY <1>3, <1>7 DEF MakeRoom
  <2>2. n \in DOMAIN caches_ /\ Thinned(r, caches_, n)
    BY <2>1, CachesAre, FrontThins
  <2> HIDE DEF r
  <2>3. /\ r \in Seq(Items) /\ LatestFirst(r, newer)
        /\ \A i \in DOMAIN r : \E j \in DOMAIN caches_ : j # n /\ r[i] = caches_[j]
        /\ \A j \in DOMAIN caches_ : j # n => \E i \in DOMAIN r : r[i] = caches_[j]
        /\ Len(r) = n - 1
    BY <2>2, CachesAre DEF Thinned
  <2>4. Len(r) < capacity /\ \A i \in DOMAIN r : r[i].key # k
    BY <1>3, <1>4, <1>7, <2>3
  <2>5. LRUInv' /\ \A i \in DOMAIN r : r[i].key \in cached'
    <3>1. \A i \in DOMAIN r : \E j \in DOMAIN caches_ : r[i] = caches_[j]
      BY <2>3
    <3>2. caches_' = <<e>> \o r /\ Touch(k)
      BY <1>1
    <3> QED
      BY <1>2, <1>5, <2>3, <2>4, <3>1, <3>2, NewFront
  <2>6. ASSUME NEW j \in cached, j \notin cached'
        PROVE  j = caches_[n].key
    <3>1. PICK m \in DOMAIN caches_ : caches_[m].key = j
      BY DEF cached
    <3>2. ASSUME m # n
          PROVE  FALSE
      <4>1. PICK i \in DOMAIN r : r[i] = caches_[m]
        BY <2>3, <3>2
      <4> QED
        BY <2>5, <2>6, <3>1, <4>1
    <3> QED
      BY <3>1, <3>2
  <2>7. ASSUME NEW j \in cached \ {caches_[n].key}
        PROVE  <<j, caches_[n].key>> \in newer
    <3>1. PICK i \in DOMAIN caches_ : caches_[i].key = j
      BY DEF cached
    <3>2. i < n
      BY <1>3, <2>7, <3>1
    <3> QED
      BY <2>2, <3>1, <3>2, CachesAre DEF LatestFirst
  <2> QED
    BY <1>7, <2>5, <2>6, <2>7 DEF DropsOldestOnly
<1>8. n < capacity \/ n = capacity
  <2> HIDE DEF n
  <2> QED
    BY <1>3
<1> QED
  BY <1>6, <1>7, <1>8

\* remove takes out one entry.
LEMMA RemoveStep ==
  ASSUME LRUInv, NEW k \in Keys, remove(k)
  PROVE  LRUInv' /\ DropsOldestOnly
<1>1. k \in cached /\ caches_' = Without(k) /\ newer' = newer /\ stored' = stored
  BY DEF remove
<1> DEFINE r == Without(k)
<1>2. Thinned(r, caches_, Found(k))
  BY <1>1, WithoutIs
<1> HIDE DEF r
<1>3. /\ r \in Seq(Items) /\ LatestFirst(r, newer) /\ Len(r) = Len(caches_) - 1
      /\ \A i \in DOMAIN r : \E j \in DOMAIN caches_ : r[i] = caches_[j]
  BY <1>2, CachesAre DEF Thinned
<1>4. caches_' = r
  BY <1>1 DEF r
<1>5. LRUTypeOK'
  BY <1>1, <1>3, <1>4, CachesAre, ReplacerAssumption DEF LRUInv, LRUTypeOK, Items
<1>6. RecencyOrder'
  BY <1>1, <1>3, <1>4 DEF LRUInv, RecencyOrder, LatestFirst
<1>7. cached' \ cached = {}
  BY <1>3, <1>4 DEF cached
<1> QED
  BY <1>1, <1>5, <1>6, <1>7 DEF LRUInv, DropsOldestOnly

\* Every step keeps the invariant and drops the oldest entry or none.
LEMMA LRUStep == LRUInv /\ [LRUNext]_lruVars => LRUInv' /\ [DropsOldestOnly]_lruVars
<1> SUFFICES ASSUME LRUInv, [LRUNext]_lruVars
             PROVE  LRUInv' /\ [DropsOldestOnly]_lruVars
  OBVIOUS
<1>1. ASSUME NEW k \in Keys, remove(k)
      PROVE  LRUInv' /\ DropsOldestOnly
  BY <1>1, RemoveStep
<1>2. ASSUME NEW k \in Keys, NEW v \in Values, access(k, v)
      PROVE  LRUInv' /\ DropsOldestOnly
  BY <1>2, HitStep, MissStep DEF access
<1>3. CASE UNCHANGED lruVars
  BY <1>3 DEF lruVars, LRUInv, LRUTypeOK, RecencyOrder
<1> QED
  BY <1>1, <1>2, <1>3 DEF LRUNext

\* The empty cache satisfies the invariant.
LEMMA LRUStart == LRUInit => LRUInv
<1> SUFFICES ASSUME LRUInit
             PROVE  LRUInv
  OBVIOUS
<1>1. caches_ = <<>> /\ newer = {} /\ stored \in [Keys -> Values]
  BY ReplacerAssumption DEF LRUInit
<1>2. LRUTypeOK
  BY <1>1, ReplacerAssumption DEF LRUTypeOK
<1>3. RecencyOrder
  BY <1>1 DEF RecencyOrder
<1> QED
  BY <1>1, <1>2, <1>3 DEF LRUInv

\* The cache holds each key once, in the order of last use and with the value
\* it was stored with, and drops the key used longest ago, and only when it is
\* full, for every capacity and every set of keys (Replacer.cpp:3-49).
THEOREM LeastRecentlyUsed == LRUSpec => CacheIsLRU
<1>1. LRUInv => RecencyOrder
  BY DEF LRUInv
<1> QED
  BY <1>1, LRUStart, LRUStep, PTL DEF LRUSpec, CacheIsLRU, DropsOldest, DropsOldestOnly

-----------------------------------------------------------------------------
(* Integers *)

\* A number that is among S and not below any of S is its maximum.
LEMMA LargestIs ==
  ASSUME NEW S \in SUBSET Int, NEW m \in S, \A y \in S : y <= m
  PROVE  Max(S) = m
<1>1. Max(S) \in S /\ \A y \in S : Max(S) >= y
  BY DEF Max
<1>2. Max(S) \in Int /\ m \in Int /\ Max(S) <= m /\ Max(S) >= m
  BY <1>1
<1> QED
  BY <1>2

\* v is an integer of n bytes.
IsInteger(v, n) == Len(v) = n /\ \A j \in 1 .. n : v[j] \in 0 .. 255

\* A function on 1 .. n is a sequence of n elements.
LEMMA LengthIs ==
  ASSUME NEW S, NEW n \in Nat, NEW s \in [1 .. n -> S]
  PROVE  s \in Seq(S) /\ Len(s) = n
OBVIOUS

\* What a byte adds to the four of a result.
LEMMA ShiftedIs ==
  ASSUME NEW b, NEW k \in Nat, NEW i \in 1 .. 4
  PROVE  Shifted(b, k)[i] = IF i <= k THEN 0 ELSE IF i = k + 1 THEN b
                            ELSE IF b >= 128 THEN 255 ELSE 0
BY DEF Shifted

\* Whichever byte comes first in the array, byte j of the integer is shifted
\* by j - 1 places.
LEMMA SameColumns ==
  ASSUME NEW n \in 2 .. 4, NEW v, IsInteger(v, n), NEW fwd \in BOOLEAN
  PROVE  readU(written(v, fwd), fwd) =
           [i \in 1 .. ResultWidth(n) |-> Max({Shifted(v[j], j - 1)[i] : j \in 1 .. n})]
<1> DEFINE p == written(v, fwd)
           shift(k) == IF fwd THEN Len(p) - k ELSE k - 1
<1>1. Len(p) = n /\ \A k \in 1 .. n : p[k] = IF fwd THEN v[n + 1 - k] ELSE v[k]
  BY DEF written, IsInteger
<1> HIDE DEF p
<1>2. ASSUME NEW i
      PROVE  {Shifted(p[k], shift(k))[i] : k \in 1 .. n} =
             {Shifted(v[j], j - 1)[i] : j \in 1 .. n}
  <2>1. CASE fwd
    <3>1. ASSUME NEW k \in 1 .. n
          PROVE  /\ n + 1 - k \in 1 .. n
                 /\ Shifted(p[k], shift(k))[i] = Shifted(v[n + 1 - k], (n + 1 - k) - 1)[i]
      <4>1. n + 1 - k \in 1 .. n /\ shift(k) = (n + 1 - k) - 1
        BY <1>1, <2>1
      <4>2. p[k] = v[n + 1 - k]
        BY <1>1, <2>1
      <4> QED
        BY <4>1, <4>2
    <3>2. ASSUME NEW j \in 1 .. n
          PROVE  /\ n + 1 - j \in 1 .. n
                 /\ Shifted(p[n + 1 - j], shift(n + 1 - j))[i] = Shifted(v[j], j - 1)[i]
      <4>1. n + 1 - j \in 1 .. n /\ shift(n + 1 - j) = j - 1 /\ n + 1 - (n + 1 - j) = j
        BY <1>1, <2>1
      <4>2. p[n + 1 - j] = v[j]
        BY <1>1, <2>1, <4>1
      <4> QED
        BY <4>1, <4>2
    <3> HIDE DEF shift
    <3>3. ASSUME NEW y
          PROVE  (\E k \in 1 .. n : y = Shifted(p[k], shift(k))[i]) <=>
                   (\E j \in 1 .. n : y = Shifted(v[j], j - 1)[i])
      BY <3>1, <3>2
    <3> QED
      BY <3>3
  <2>2. CASE ~fwd
    <3>1. \A k \in 1 .. n : p[k] = v[k] /\ shift(k) = k - 1
      BY <1>1, <2>2
    <3> HIDE DEF shift
    <3> QED
      BY <3>1
  <2> QED
    BY <2>1, <2>2
<1>3. readU(p, fwd) = [i \in 1 .. ResultWidth(n) |->
                         Max({Shifted(p[k], shift(k))[i] : k \in 1 .. n})]
  BY <1>1 DEF readU
<1> HIDE DEF shift
<1> QED
  BY <1>2, <1>3 DEF p

\* Byte i is 255 above a byte of 128 or more, and else as it was written.
LEMMA ColumnIs ==
  ASSUME NEW n \in 2 .. 4, NEW v, IsInteger(v, n), NEW i \in 1 .. ResultWidth(n)
  PROVE  Max({Shifted(v[j], j - 1)[i] : j \in 1 .. n}) =
           IF \E j \in 1 .. n : j < i /\ v[j] >= 128 THEN 255 ELSE Padded(v)[i]
<1> DEFINE at == [j \in 1 .. n |-> Shifted(v[j], j - 1)[i]]
           S == {at[j] : j \in 1 .. n}
<1>1. \A j \in 1 .. n : v[j] \in 0 .. 255
  BY DEF IsInteger
<1>2. i \in 1 .. 4 /\ Padded(v)[i] = IF i <= n THEN v[i] ELSE 0
  BY DEF ResultWidth, Padded, IsInteger
<1>3. \A j \in 1 .. n : at[j] = IF i < j THEN 0 ELSE IF i = j THEN v[j]
                                ELSE IF v[j] >= 128 THEN 255 ELSE 0
  <2> TAKE j \in 1 .. n
  <2>1. j - 1 \in Nat /\ (i <= j - 1 <=> i < j) /\ (i = (j - 1) + 1 <=> i = j)
    BY <1>2
  <2> QED
    BY <1>2, <2>1, ShiftedIs
<1> HIDE DEF at
<1>4. /\ \A j \in 1 .. n : at[j] \in S
      /\ \A y \in S : \E j \in 1 .. n : y = at[j]
  OBVIOUS
<1> HIDE DEF S
<1>5. ASSUME NEW j \in 1 .. n
       PROVE  at[j] \in 0 .. 255
  <2>1. v[j] \in 0 .. 255
    BY <1>1
  <2>2. at[j] = 0 \/ at[j] = 255 \/ at[j] = v[j]
    BY <1>3
  <2> QED
    BY <2>1, <2>2
<1>6. \A y \in S : y \in 0 .. 255
  BY <1>4, <1>5
<1>7. S \in SUBSET Int
  BY <1>6
<1>8. Max({Shifted(v[j], j - 1)[i] : j \in 1 .. n}) = Max(S)
  <2>1. \A j \in 1 .. n : Shifted(v[j], j - 1)[i] = at[j]
    BY DEF at
  <2> QED
    BY <2>1 DEF S
<1>9. CASE \E j \in 1 .. n : j < i /\ v[j] >= 128
  <2>1. PICK j \in 1 .. n : j < i /\ v[j] >= 128
    BY <1>9
  <2>2. 255 = at[j]
    BY <1>2, <1>3, <2>1
  <2>3. 255 \in S
    BY <1>4, <2>2
  <2>4. Max(S) = 255
    BY <1>6, <1>7, <2>3, LargestIs
  <2> QED
    BY <1>8, <1>9, <2>4
<1>10. CASE ~ \E j \in 1 .. n : j < i /\ v[j] >= 128
  <2>1. \A j \in 1 .. n : at[j] = IF i = j THEN v[i] ELSE 0
    BY <1>2, <1>3, <1>10
  <2>2. PICK j \in 1 .. n : j = IF i <= n THEN i ELSE 1
    BY <1>2
  <2>3. at[j] = Padded(v)[i]
    BY <1>2, <2>1, <2>2
  <2>4. \A k \in 1 .. n : at[k] <= at[j]
    <3>1. CASE i <= n
      <4>1. i \in 1 .. n /\ j = i
        BY <1>2, <2>2, <3>1
      <4>2. v[i] \in 0 .. 255 /\ at[j] = v[i]
        BY <1>1, <2>1, <4>1
      <4>3. \A k \in 1 .. n : at[k] = v[i] \/ at[k] = 0
        BY <2>1
      <4> QED
        BY <4>2, <4>3
    <3>2. CASE ~(i <= n)
      <4>1. \A k \in 1 .. n : at[k] = 0
        BY <1>2, <2>1, <3>2
      <4> QED
        BY <4>1
    <3> QED
      BY <3>1, <3>2
  <2>5. at[j] \in S /\ \A y \in S : y <= at[j]
    BY <1>4, <2>4
  <2>6. Max(S) = at[j]
    BY <1>7, <2>5, LargestIs
  <2> QED
    BY <1>8, <1>10, <2>3, <2>6
<1> QED
  BY <1>9, <1>10

\* No byte of 128 or more has anything but 255 above it.
Unspoilt(v) ==
  \A i, j \in DOMAIN Padded(v) : i < j /\ Padded(v)[i] >= 128 => Padded(v)[j] = 255

\* What is read is what was written if and only if nothing is spoilt.
LEMMA WhatIsReadBack ==
  ASSUME NEW n \in 2 .. 4, NEW v, IsInteger(v, n), NEW fwd \in BOOLEAN
  PROVE  readU(written(v, fwd), fwd) = Padded(v) <=> Unspoilt(v)
<1> DEFINE w == ResultWidth(n)
           r == readU(written(v, fwd), fwd)
           q == Padded(v)
           spoilt(i) == \E j \in 1 .. n : j < i /\ v[j] >= 128
<1>1. w \in 2 .. 4 /\ n <= w
  BY DEF ResultWidth
<1>2. q = [i \in 1 .. w |-> IF i <= n THEN v[i] ELSE 0]
  BY DEF Padded, IsInteger
<1>3. r = [i \in 1 .. w |-> Max({Shifted(v[j], j - 1)[i] : j \in 1 .. n})]
  BY SameColumns
<1>4. ASSUME NEW i \in 1 .. w
      PROVE  r[i] = IF spoilt(i) THEN 255 ELSE q[i]
  <2>1. r[i] = Max({Shifted(v[j], j - 1)[i] : j \in 1 .. n})
    BY <1>3
  <2>2. Max({Shifted(v[j], j - 1)[i] : j \in 1 .. n}) = IF spoilt(i) THEN 255 ELSE q[i]
    BY ColumnIs
  <2> QED
    BY <2>1, <2>2
<1>5. DOMAIN r = 1 .. w /\ r = [i \in DOMAIN r |-> r[i]]
  BY <1>3
<1> HIDE DEF w, r
<1>6. r = q <=> \A i \in 1 .. w : spoilt(i) => q[i] = 255
  <2>1. DOMAIN q = 1 .. w /\ q = [i \in DOMAIN q |-> q[i]]
    BY <1>2
  <2> HIDE DEF q, spoilt
  <2>2. r = q <=> \A i \in 1 .. w : r[i] = q[i]
    BY <1>5, <2>1
  <2> QED
    BY <1>4, <2>2
<1>7. \A i \in 1 .. w : spoilt(i) <=> \E j \in 1 .. w : j < i /\ q[j] >= 128
  <2> TAKE i \in 1 .. w
  <2>1. \A j \in 1 .. n : j \in 1 .. w /\ q[j] = v[j]
    BY <1>1, <1>2
  <2>2. \A j \in 1 .. w : q[j] >= 128 => j \in 1 .. n
    BY <1>1, <1>2
  <2> HIDE DEF q
  <2> QED
    BY <2>1, <2>2
<1>8. DOMAIN q = 1 .. w
  BY <1>2
<1> HIDE DEF q, spoilt
<1>9. (\A i \in 1 .. w : spoilt(i) => q[i] = 255) <=>
        \A i, j \in 1 .. w : i < j /\ q[i] >= 128 => q[j] = 255
  BY <1>7
<1> QED
  BY <1>6, <1>8, <1>9 DEF r, q, Unspoilt

\* An integer is read back exactly when no byte of 128 or more spoils what is
\* above it, for every integer of two to four bytes (BufferReader.cpp:74-127,
\* BufferWriter.cpp:3-38).
THEOREM ReadBack == CodecSpec => []ReadsBackUnlessSigned
<1>1. CodecInit => ReadsBackUnlessSigned
  <2> SUFFICES ASSUME CodecInit
               PROVE  ReadsBackUnlessSigned
    OBVIOUS
  <2>1. Padded(value) = [i \in 1 .. 2 |-> 0] /\ result = [i \in 1 .. 2 |-> 0]
    BY DEF CodecInit, Padded, ResultWidth
  <2> QED
    BY <2>1 DEF ReadsBackUnlessSigned
<1>2. ReadsBackUnlessSigned /\ [CodecNext]_codecVars => ReadsBackUnlessSigned'
  <2> SUFFICES ASSUME ReadsBackUnlessSigned, [CodecNext]_codecVars
               PROVE  ReadsBackUnlessSigned'
    OBVIOUS
  <2>1. ASSUME NEW v \in Integers2To4, NEW fwd \in BOOLEAN, Transfer(v, fwd)
        PROVE  ReadsBackUnlessSigned'
    <3>1. PICK n \in 2 .. 4 : v \in [1 .. n -> SomeBytes]
      BY DEF Integers2To4
    <3>2. IsInteger(v, n)
      <4>1. v \in [1 .. n -> 0 .. 255]
        BY <3>1, CodecAssumption
      <4>2. Len(v) = n
        BY <4>1, LengthIs
      <4> QED
        BY <4>1, <4>2 DEF IsInteger
    <3>3. value' = v /\ result' = readU(written(v, fwd), fwd)
      BY <2>1 DEF Transfer
    <3>4. readU(written(v, fwd), fwd) = Padded(v) <=> Unspoilt(v)
      BY <3>2, WhatIsReadBack
    <3>5. Padded(value)' = Padded(v)
      BY <3>3 DEF Padded
    <3> QED
      BY <3>3, <3>4, <3>5 DEF ReadsBackUnlessSigned, Unspoilt
  <2>2. CASE UNCHANGED codecVars
    <3>1. value' = value /\ result' = result
      BY <2>2 DEF codecVars
    <3>2. Padded(value)' = Padded(value)
      BY <3>1 DEF Padded
    <3> QED
      BY <3>1, <3>2 DEF ReadsBackUnlessSigned
  <2> QED
    BY <2>1, <2>2 DEF CodecNext
<1> QED
  BY <1>1, <1>2, PTL DEF CodecSpec

-----------------------------------------------------------------------------
(* LogFormatter *)

\* What patterns are made of: strings, and by name those that have a meaning.
Symbol == STRING \cup s_format_items \cup {ID_TOKEN, "CHAR:", Brace, EndBrace}

\* Where init's loop starts, and what it has at each of the first n characters.
Start == [vec |-> <<>>, token |-> <<>>]

IsScan(f, p, n) == f = [i \in 0 .. n |-> IF i = 0 THEN Start ELSE Cut(f[i - 1], p[i])]

LEMMA ScanSteps ==
  ASSUME NEW f, NEW p, NEW n, IsScan(f, p, n)
  PROVE  \A i \in 0 .. n : f[i] = IF i = 0 THEN Start ELSE Cut(f[i - 1], p[i])
  BY DEF IsScan

\* There is such a function: a shortest prefix that had none would have one,
\* made of that of the prefix before it.
LEMMA ScansExist ==
  ASSUME NEW p, NEW n \in Nat
  PROVE  \E f : IsScan(f, p, n)
<1> DEFINE Bad == {k \in Nat : ~ \E f : IsScan(f, p, k)}
<1>1. Bad # {} => Min(Bad) \in Bad /\ \A y \in Bad : Min(Bad) <= y
  BY Smallest
<1>2. SUFFICES ASSUME NEW m \in Nat, ~ \E f : IsScan(f, p, m),
                      \A k \in Nat : (~ \E f : IsScan(f, p, k)) => m <= k
               PROVE  FALSE
  BY <1>1
<1> HIDE DEF Bad
<1>3. m # 0
  <2> DEFINE g == [i \in 0 .. 0 |-> Start]
  <2>1. IsScan(g, p, 0)
    BY DEF IsScan
  <2> QED
    BY <1>2, <2>1
<1>4. m - 1 \in Nat /\ m - 1 < m
  BY <1>2, <1>3
<1>5. PICK f : IsScan(f, p, m - 1)
  BY <1>2, <1>4
<1> DEFINE g == [i \in 0 .. m |-> IF i < m THEN f[i] ELSE Cut(f[m - 1], p[m])]
<1>6. \A i \in 0 .. m - 1 : f[i] = IF i = 0 THEN Start ELSE Cut(f[i - 1], p[i])
  BY <1>5 DEF IsScan
<1>7. \A i \in 0 .. m : g[i] = IF i = 0 THEN Start ELSE Cut(g[i - 1], p[i])
  <2> TAKE i \in 0 .. m
  <2>1. CASE i = 0
    BY <1>3, <1>4, <1>6, <2>1
  <2>2. CASE i # 0 /\ i < m
    <3>1. g[i] = f[i] /\ g[i - 1] = f[i - 1] /\ i \in 0 .. m - 1
      BY <1>4, <2>2
    <3> QED
      BY <1>6, <2>2, <3>1
  <2>3. CASE i = m
    <3>1. g[m - 1] = f[m - 1]
      BY <1>4
    <3> QED
      BY <1>3, <2>3, <3>1
  <2> QED
    BY <2>1, <2>2, <2>3
<1>8. IsScan(g, p, m)
  <2> DEFINE h == [i \in 0 .. m |-> IF i = 0 THEN Start ELSE Cut(g[i - 1], p[i])]
  <2>1. g = [i \in 0 .. m |-> g[i]]
    OBVIOUS
  <2>2. h = [i \in 0 .. m |-> g[i]]
    BY <1>7
  <2>3. g = h
    BY <2>1, <2>2
  <2> HIDE DEF g
  <2> QED
    BY <2>3 DEF IsScan
<1> QED
  BY <1>2, <1>8

\* The scan is the last value of such a function.
LEMMA ScanIs ==
  ASSUME NEW p \in Seq(Symbol)
  PROVE  \E f : IsScan(f, p, Len(p)) /\ Scanned(p) = f[Len(p)]
<1> DEFINE h == CHOOSE f : f = [i \in 0 .. Len(p) |-> IF i = 0 THEN [vec |-> <<>>, token |-> <<>>]
                                                       ELSE Cut(f[i - 1], p[i])]
<1>1. \E f : IsScan(f, p, Len(p))
  <2>1. Len(p) \in Nat
    OBVIOUS
  <2> QED
    BY <2>1, ScansExist
<1>2. IsScan(h, p, Len(p))
  BY <1>1 DEF IsScan, Start
<1>3. Scanned(p) = h[Len(p)]
  BY DEF Scanned
<1> QED
  BY <1>2, <1>3

\* Two scans agree as far as their patterns do.
LEMMA ScansAgree ==
  ASSUME NEW p \in Seq(Symbol), NEW q \in Seq(Symbol), Len(p) <= Len(q),
         \A i \in 1 .. Len(p) : p[i] = q[i],
         NEW f, NEW g, IsScan(f, p, Len(p)), IsScan(g, q, Len(q))
  PROVE  f[Len(p)] = g[Len(p)]
<1> DEFINE n == Len(p)
<1>0. n \in Nat /\ Len(q) \in Nat
  OBVIOUS
<1>1. /\ \A i \in 0 .. n : f[i] = IF i = 0 THEN Start ELSE Cut(f[i - 1], p[i])
      /\ \A i \in 0 .. n : g[i] = IF i = 0 THEN Start ELSE Cut(g[i - 1], q[i])
  <2>1. \A i \in 0 .. n : f[i] = IF i = 0 THEN Start ELSE Cut(f[i - 1], p[i])
    BY ScanSteps
  <2>2. \A i \in 0 .. Len(q) : g[i] = IF i = 0 THEN Start ELSE Cut(g[i - 1], q[i])
    BY ScanSteps
  <2>3. \A i \in 0 .. n : i \in 0 .. Len(q)
    BY <1>0
  <2> QED
    BY <2>1, <2>2, <2>3
<1> HIDE DEF n
<1> DEFINE Bad == {k \in 0 .. n : f[k] # g[k]}
<1>2. Bad \in SUBSET Nat
  BY <1>0
<1>3. Bad # {} => Min(Bad) \in Bad /\ \A y \in Bad : Min(Bad) <= y
  BY <1>2, Smallest
<1>4. SUFFICES ASSUME NEW k \in 0 .. n, f[k] # g[k], \A i \in 0 .. n : f[i] # g[i] => k <= i
               PROVE  FALSE
  <2>1. n \in 0 .. n
    BY <1>0
  <2>2. \A k \in 0 .. n : k \in Bad <=> f[k] # g[k]
    OBVIOUS
  <2> HIDE DEF Bad
  <2>3. Bad # {} => \E k \in 0 .. n : f[k] # g[k] /\ \A i \in 0 .. n : f[i] # g[i] => k <= i
    <3>1. Bad \subseteq 0 .. n
      BY DEF Bad
    <3> QED
      BY <1>3, <2>2, <3>1
  <2> QED
    BY <2>1, <2>2, <2>3 DEF n
<1>5. CASE k = 0
  BY <1>1, <1>4, <1>5
<1>6. CASE k # 0
  <2>1. k - 1 \in 0 .. n /\ k \in 1 .. n /\ ~ (k <= k - 1)
    BY <1>0, <1>4, <1>6
  <2>2. f[k - 1] = g[k - 1] /\ p[k] = q[k]
    BY <1>4, <2>1 DEF n
  <2> QED
    BY <1>1, <1>4, <1>6, <2>2
<1> QED
  BY <1>5, <1>6

\* One character more is one turn of the loop more.
LEMMA OneMore ==
  ASSUME NEW p \in Seq(Symbol), NEW c \in Symbol
  PROVE  Append(p, c) \in Seq(Symbol) /\ Scanned(Append(p, c)) = Cut(Scanned(p), c)
<1> DEFINE q == Append(p, c)
<1>1. /\ q \in Seq(Symbol) /\ Len(q) = Len(p) + 1 /\ Len(p) \in Nat
      /\ \A i \in 1 .. Len(p) : q[i] = p[i]
      /\ q[Len(p) + 1] = c
  OBVIOUS
<1> HIDE DEF q
<1>2. PICK f : IsScan(f, p, Len(p)) /\ Scanned(p) = f[Len(p)]
  BY ScanIs
<1>3. PICK g : IsScan(g, q, Len(q)) /\ Scanned(q) = g[Len(q)]
  BY <1>1, ScanIs
<1>4. f[Len(p)] = g[Len(p)]
  <2>1. Len(p) <= Len(q) /\ \A i \in 1 .. Len(p) : p[i] = q[i]
    BY <1>1
  <2> QED
    BY <1>1, <1>2, <1>3, <2>1, ScansAgree
<1>5. g[Len(p) + 1] = Cut(g[Len(p)], c)
  <2>1. \A i \in 0 .. Len(q) : g[i] = IF i = 0 THEN Start ELSE Cut(g[i - 1], q[i])
    BY <1>3, ScanSteps
  <2>2. Len(p) + 1 \in 0 .. Len(q) /\ Len(p) + 1 # 0 /\ (Len(p) + 1) - 1 = Len(p)
    BY <1>1
  <2> QED
    BY <1>1, <2>1, <2>2
<1>6. Scanned(q) = Cut(Scanned(p), c)
  BY <1>1, <1>2, <1>3, <1>4, <1>5
<1> QED
  BY <1>1, <1>6 DEF q

\* What is spelt behind an ID_TOKEN, and holds none itself, is the next piece.
LEMMA TokenIs ==
  ASSUME NEW p \in Seq(Symbol), NEW q \in Seq(Symbol), Scanned(p).token = <<>>,
         Scanned(p) = [vec |-> Scanned(p).vec, token |-> Scanned(p).token],
         \A i \in 1 .. Len(q) : q[i] # ID_TOKEN
  PROVE  Scanned(p \o q) = [vec |-> Scanned(p).vec, token |-> q]
<1> DEFINE Until(k) == Scanned(p \o SubSeq(q, 1, k)) = [vec |-> Scanned(p).vec, token |-> SubSeq(q, 1, k)]
           Bad == {k \in 0 .. Len(q) : ~ Until(k)}
<1>1. Bad \in SUBSET Nat
  OBVIOUS
<1>2. Bad # {} => Min(Bad) \in Bad /\ \A y \in Bad : Min(Bad) <= y
  BY <1>1, Smallest
<1>3. ASSUME NEW k \in 0 .. Len(q), ~ Until(k), \A i \in 0 .. Len(q) : ~ Until(i) => k <= i
      PROVE  FALSE
  <2>1. CASE k = 0
    <3>1. SubSeq(q, 1, 0) = <<>> /\ p \o <<>> = p
      OBVIOUS
    <3> QED
      BY <1>3, <2>1, <3>1
  <2>2. CASE k # 0
    <3> DEFINE s == SubSeq(q, 1, k - 1)
               r == p \o s
    <3>1. k \in 1 .. Len(q) /\ k - 1 \in 0 .. Len(q) /\ ~ (k <= k - 1)
      BY <1>3, <2>2
    <3>2. Scanned(r) = [vec |-> Scanned(p).vec, token |-> s]
      BY <1>3, <3>1
    <3>3. q[k] \in Symbol /\ q[k] # ID_TOKEN /\ s \in Seq(Symbol) /\ r \in Seq(Symbol)
      BY <3>1
    <3>4. SubSeq(q, 1, k) = Append(s, q[k])
      BY <3>1
    <3>5. p \o SubSeq(q, 1, k) = Append(r, q[k])
      <4> HIDE DEF s
      <4>1. p \o Append(s, q[k]) = Append(p \o s, q[k])
        BY <3>3
      <4> QED
        BY <3>4, <4>1
    <3> HIDE DEF s, r
    <3>6. Scanned(Append(r, q[k])) = Cut(Scanned(r), q[k])
      BY <3>3, OneMore
    <3>7. Cut(Scanned(r), q[k]) = [vec |-> Scanned(p).vec, token |-> Append(s, q[k])]
      BY <3>2, <3>3 DEF Cut
    <3> QED
      BY <1>3, <3>4, <3>5, <3>6, <3>7
  <2> QED
    BY <2>1, <2>2
<1>4. Until(Len(q))
  <2>1. Len(q) \in 0 .. Len(q)
    OBVIOUS
  <2> HIDE DEF Until
  <2> QED
    BY <1>2, <1>3, <2>1
<1>5. SubSeq(q, 1, Len(q)) = q
  OBVIOUS
<1> QED
  BY <1>4, <1>5

\* Sequences with an element before them, put between others, and regrouped.
LEMMA Before ==
  ASSUME NEW S, NEW x \in S, NEW a \in Seq(S)
  PROVE  /\ <<x>> \o a \in Seq(S) /\ Len(<<x>> \o a) = Len(a) + 1
         /\ (<<x>> \o a)[1] = x /\ \A i \in 1 .. Len(a) : (<<x>> \o a)[i + 1] = a[i]
         /\ Head(<<x>> \o a) = x /\ Tail(<<x>> \o a) = a
  OBVIOUS

LEMMA Between ==
  ASSUME NEW S, NEW x \in S, NEW y \in S, NEW z \in S, NEW a \in Seq(S), NEW tok,
         tok = <<x, y>> \o a \o <<z>>
  PROVE  /\ tok \in Seq(S) /\ Len(tok) = Len(a) + 3 /\ DOMAIN tok = 1 .. Len(a) + 3
         /\ tok[1] = x /\ tok[2] = y /\ tok[Len(a) + 3] = z
         /\ \A i \in 1 .. Len(a) : tok[i + 2] = a[i]
  OBVIOUS

LEMMA Regroup ==
  ASSUME NEW S, NEW p \in Seq(S), NEW x \in S, NEW a \in Seq(S)
  PROVE  p \o (<<x>> \o a) = Append(p, x) \o a
  OBVIOUS

LEMMA Wider ==
  ASSUME NEW S, NEW T, S \subseteq T, NEW s \in Seq(S)
  PROVE  s \in Seq(T)
  OBVIOUS

LEMMA Distinct == Brace # ID_TOKEN /\ EndBrace # ID_TOKEN /\ EndBrace # "DATETIME" /\ EndBrace # Brace
  BY Zenon DEF Brace, EndBrace, ID_TOKEN

\* A directive as it is parsed: its name and its argument.
Piece(d) == Parsed(<<d.kind>>, d.arg, TRUE)

\* A time format ends at the last brace of its token, which is the one behind it.
LEMMA LastBrace ==
  ASSUME NEW a \in Seq(Symbol)
  PROVE  timefmt(<<"DATETIME", Brace>> \o a \o <<EndBrace>>) = a
<1> DEFINE tok == <<"DATETIME", Brace>> \o a \o <<EndBrace>>
           braces == {i \in DOMAIN tok : tok[i] = EndBrace}
           n == Len(a) + 3
<1>1. /\ tok \in Seq(Symbol) /\ Len(tok) = n /\ DOMAIN tok = 1 .. n
      /\ tok[n] = EndBrace /\ \A i \in 1 .. Len(a) : tok[i + 2] = a[i]
  <2>1. "DATETIME" \in Symbol /\ Brace \in Symbol /\ EndBrace \in Symbol
    BY DEF Symbol, s_format_items
  <2> HIDE DEF tok
  <2>2. tok = <<"DATETIME", Brace>> \o a \o <<EndBrace>>
    BY DEF tok
  <2> QED
    BY <2>1, <2>2, Between
<1>2. Len(a) \in Nat /\ n \in Nat /\ n - 1 = Len(a) + 2
  OBVIOUS
<1> HIDE DEF tok
<1>3. n \in braces /\ \A j \in braces : n >= j
  BY <1>1, <1>2
<1>4. \A i \in braces : (\A j \in braces : i >= j) => i = n
  BY <1>1, <1>2, <1>3
<1>5. (CHOOSE i \in braces : \A j \in braces : i >= j) = n
  <2> HIDE DEF braces, n
  <2> QED
    BY <1>3, <1>4
<1>6. timefmt(tok) = SubSeq(tok, 3, n - 1)
  BY <1>3, <1>5 DEF timefmt
<1>7. SubSeq(tok, 3, n - 1) = a
  <2>1. SubSeq(tok, 3, n - 1) \in Seq(Symbol) /\ Len(SubSeq(tok, 3, n - 1)) = Len(a)
    BY <1>1, <1>2
  <2>2. \A i \in 1 .. Len(a) : SubSeq(tok, 3, n - 1)[i] = a[i]
    BY <1>1, <1>2
  <2> QED
    BY <2>1, <2>2
<1> QED
  BY <1>6, <1>7 DEF tok

\* A token holds no ID_TOKEN and is parsed as the directive it names.
LEMMA NamedIs ==
  ASSUME PatternAssumption, NEW d \in Directives
  PROVE  /\ Named(d) \in Seq(Symbol) /\ Named(d) # <<>>
         /\ \A i \in 1 .. Len(Named(d)) : Named(d)[i] # ID_TOKEN
         /\ parsePatToken(Named(d)) = Piece(d)
<1>1. /\ d.kind \in s_format_items /\ d.arg \in Seq(STRING) /\ ID_TOKEN \notin ToSet(d.arg)
      /\ d.kind = "CHAR" => d.arg # <<>>
      /\ d.kind \notin {"CHAR", "DATETIME"} => d.arg = <<>>
  BY DEF PatternAssumption
<1> DEFINE a == d.arg
<1>2. a \in Seq(Symbol) /\ \A i \in 1 .. Len(a) : a[i] # ID_TOKEN
  <2> HIDE DEF a
  <2>1. a \in Seq(STRING) /\ DOMAIN a = 1 .. Len(a) /\ ID_TOKEN \notin ToSet(a)
    BY <1>1 DEF a
  <2>2. STRING \subseteq Symbol
    BY DEF Symbol
  <2>3. a \in Seq(Symbol)
    BY <2>1, <2>2, Wider
  <2> QED
    BY <2>1, <2>3 DEF ToSet
<1>3. d.kind \in Symbol /\ d.kind # ID_TOKEN /\ d.kind # "CHAR:"
  BY <1>1 DEF s_format_items, ID_TOKEN, Symbol
<1> HIDE DEF a
<1>4. ID_TOKEN \in Symbol /\ "CHAR:" \in Symbol /\ "DATETIME" \in Symbol /\ Brace \in Symbol /\ EndBrace \in Symbol
  BY DEF Symbol, s_format_items
<1>5. CASE d.kind = "CHAR"
  <2> DEFINE tok == <<"CHAR:">> \o a
  <2>1. Named(d) = tok
    BY <1>5 DEF Named, a
  <2>2. a # <<>>
    BY <1>1, <1>5 DEF a
  <2>3. /\ tok \in Seq(Symbol) /\ Len(tok) = Len(a) + 1
        /\ tok[1] = "CHAR:" /\ \A i \in 1 .. Len(a) : tok[i + 1] = a[i]
        /\ Head(tok) = "CHAR:" /\ Tail(tok) = a
    BY <1>2, <1>4, Before
  <2> HIDE DEF tok
  <2>5. \A i \in 1 .. Len(tok) : tok[i] # ID_TOKEN
    <3> TAKE i \in 1 .. Len(tok)
    <3>1. CASE i = 1
      BY <2>3, <3>1 DEF ID_TOKEN
    <3>2. CASE i # 1
      <4>1. i - 1 \in 1 .. Len(a) /\ (i - 1) + 1 = i
        BY <1>2, <2>3, <3>2
      <4> QED
        BY <1>2, <2>3, <4>1
    <3> QED
      BY <3>1, <3>2
  <2>6. Len(tok) > 1
    BY <1>2, <2>2, <2>3
  <2>7. parsePatToken(tok) = Parsed(<<"CHAR">>, a, TRUE)
    BY <2>3, <2>6 DEF parsePatToken
  <2>8. tok # <<>>
    BY <2>6
  <2> QED
    BY <1>5, <2>1, <2>3, <2>5, <2>7, <2>8 DEF Piece, a
<1>6. CASE d.kind = "DATETIME" /\ d.arg # DefaultTime
  <2> DEFINE tok == <<"DATETIME", Brace>> \o a \o <<EndBrace>>
  <2>1. Named(d) = tok
    BY <1>6 DEF Named, a
  <2>3. timefmt(tok) = a
    BY <1>2, LastBrace
  <2>4. tok = <<"DATETIME", Brace>> \o a \o <<EndBrace>>
    OBVIOUS
  <2> HIDE DEF tok
  <2>5. /\ tok \in Seq(Symbol) /\ Len(tok) = Len(a) + 3
        /\ tok[1] = "DATETIME" /\ tok[2] = Brace /\ tok[Len(a) + 3] = EndBrace
        /\ \A i \in 1 .. Len(a) : tok[i + 2] = a[i]
    BY <1>2, <1>4, <2>4, Between
  <2>6. \A i \in 1 .. Len(tok) : tok[i] # ID_TOKEN
    <3> TAKE i \in 1 .. Len(tok)
    <3>1. CASE i = 1 \/ i = 2 \/ i = Len(a) + 3
      <4>1. "DATETIME" # ID_TOKEN
        BY DEF ID_TOKEN
      <4> QED
        BY <2>5, <3>1, <4>1, Distinct
    <3>2. CASE ~ (i = 1 \/ i = 2 \/ i = Len(a) + 3)
      <4>1. i - 2 \in 1 .. Len(a) /\ (i - 2) + 2 = i
        BY <1>2, <2>5, <3>2
      <4> QED
        BY <1>2, <2>5, <4>1
    <3> QED
      BY <3>1, <3>2
  <2>7. Head(tok) = "DATETIME" /\ Len(tok) > 1 /\ tok # <<>>
    BY <1>2, <2>5
  <2>8. parsePatToken(tok) = Parsed(<<"DATETIME">>, a, TRUE)
    BY <2>3, <2>5, <2>7 DEF parsePatToken
  <2> QED
    BY <1>6, <2>1, <2>5, <2>6, <2>7, <2>8 DEF Piece, a
<1>7. CASE d.kind # "CHAR" /\ ~ (d.kind = "DATETIME" /\ d.arg # DefaultTime)
  <2>1. Named(d) = <<d.kind>>
    BY <1>7 DEF Named
  <2>3. /\ <<d.kind>> \in Seq(Symbol) /\ Len(<<d.kind>>) = 1 /\ <<d.kind>>[1] = d.kind
        /\ Head(<<d.kind>>) = d.kind
    BY <1>3
  <2>4. parsePatToken(<<d.kind>>) = Parsed(<<d.kind>>, d.arg, TRUE)
    <3>1. CASE d.kind = "DATETIME"
      <4> DEFINE tok == <<d.kind>>
      <4>1. d.arg = DefaultTime /\ tok = <<"DATETIME">>
        BY <1>7, <3>1
      <4>2. Head(tok) = "DATETIME" /\ Len(tok) = 1
        BY <2>3, <3>1
      <4> HIDE DEF tok
      <4>3. parsePatToken(tok) = Parsed(<<"DATETIME">>, DefaultTime, TRUE)
        BY <4>2 DEF parsePatToken
      <4> QED
        BY <4>1, <4>3 DEF tok
    <3>2. CASE d.kind # "DATETIME"
      <4>1. d.arg = <<>>
        BY <1>1, <1>7, <3>2
      <4>2. parsePatToken(<<d.kind>>) = Parsed(<<d.kind>>, <<>>, TRUE)
        BY <1>3, <2>3, <3>2 DEF parsePatToken
      <4> QED
        BY <4>1, <4>2
    <3> QED
      BY <3>1, <3>2
  <2> QED
    BY <1>3, <2>1, <2>3, <2>4 DEF Piece
<1> QED
  BY <1>5, <1>6, <1>7

\* The pieces are the directives: those the loop has pushed and the one after it.
FormatterInv ==
  /\ directives \in Seq(Directives) /\ pattern_ \in Seq(Symbol) /\ items = directives
  /\ Scanned(pattern_) = [vec |-> Scanned(pattern_).vec, token |-> Scanned(pattern_).token]
  /\ Pushed(Scanned(pattern_)) = [i \in DOMAIN directives |-> Piece(directives[i])]
  /\ directives # <<>> => Scanned(pattern_).token # <<>> /\ ~ hasError_(pattern_)

\* A known directive is its own item and no error.
LEMMA ItemIs ==
  ASSUME PatternAssumption, NEW d \in Directives
  PROVE  Item(Piece(d)) = d /\ Supported(Piece(d))
<1>1. d = [kind |-> d.kind, arg |-> d.arg] /\ d.kind \in s_format_items
  BY DEF PatternAssumption
<1>2. /\ Piece(d).id = <<d.kind>> /\ Piece(d).arg = d.arg /\ Piece(d).ok = TRUE
      /\ Len(<<d.kind>>) = 1 /\ <<d.kind>>[1] = d.kind
  BY DEF Piece, Parsed
<1>3. Supported(Piece(d))
  BY <1>1, <1>2 DEF Supported
<1>4. Item(Piece(d)) = [kind |-> d.kind, arg |-> d.arg]
  BY <1>2, <1>3 DEF Item
<1> QED
  BY <1>1, <1>3, <1>4

\* Pieces that are the directives make the items that are meant.
LEMMA PiecesMean ==
  ASSUME PatternAssumption, NEW ds \in Seq(Directives), ds # <<>>, NEW p,
         Pushed(Scanned(p)) = [i \in DOMAIN ds |-> Piece(ds[i])], Scanned(p).token # <<>>
  PROVE  items_(p) = ds /\ ~ hasError_(p)
<1> DEFINE ps == ParsedPieces(p)
<1>1. ps = [i \in DOMAIN ds |-> Piece(ds[i])]
  BY DEF ParsedPieces
<1>2. \A i \in DOMAIN ds : ds[i] \in Directives
  OBVIOUS
<1> HIDE DEF ps
<1>3. \A i \in DOMAIN ds : Item(ps[i]) = ds[i] /\ Supported(ps[i])
  BY <1>1, <1>2, ItemIs
<1>4. ds = [i \in DOMAIN ds |-> ds[i]]
  OBVIOUS
<1>5. [i \in DOMAIN ps |-> Item(ps[i])] = [i \in DOMAIN ds |-> ds[i]]
  BY <1>1, <1>3
<1>6. items_(p) = ds
  BY <1>4, <1>5 DEF items_, ps
<1>7. \A q \in ToSet(ps) : Supported(q)
  BY <1>1, <1>3 DEF ToSet
<1> QED
  BY <1>6, <1>7 DEF hasError_, ps

\* One directive more is one piece more.
LEMMA ConstructMeans ==
  ASSUME FormatterInv, PatternAssumption, NEW d \in Directives,
         directives' = Append(directives, d), pattern_' = pattern_ \o Spelled(d)
  PROVE  /\ Scanned(pattern_') = [vec |-> Pushed(Scanned(pattern_)), token |-> Named(d)]
         /\ Pushed(Scanned(pattern_')) = [i \in DOMAIN directives' |-> Piece(directives'[i])]
         /\ pattern_' \in Seq(Symbol) /\ directives' \in Seq(Directives) /\ directives' # <<>>
<1> DEFINE p == Append(pattern_, ID_TOKEN)
           q == Named(d)
           v == Pushed(Scanned(pattern_))
<1>1. directives \in Seq(Directives) /\ pattern_ \in Seq(Symbol)
  BY DEF FormatterInv
<1>2. /\ q \in Seq(Symbol) /\ q # <<>> /\ \A i \in 1 .. Len(q) : q[i] # ID_TOKEN
      /\ parsePatToken(q) = Piece(d)
  BY NamedIs
<1>3. /\ p \in Seq(Symbol) /\ Scanned(p) = Cut(Scanned(pattern_), ID_TOKEN)
      /\ pattern_' = p \o q
  <2>1. ID_TOKEN \in Symbol
    BY DEF Symbol
  <2>2. p \in Seq(Symbol) /\ Scanned(p) = Cut(Scanned(pattern_), ID_TOKEN)
    BY <1>1, <2>1, OneMore
  <2>3. pattern_ \o (<<ID_TOKEN>> \o q) = p \o q
    BY <1>1, <1>2, <2>1, Regroup
  <2> QED
    BY <2>2, <2>3 DEF Spelled
<1>4. Scanned(p) = [vec |-> v, token |-> <<>>]
  BY <1>3 DEF Cut
<1> HIDE DEF p, q, v
<1>5. Scanned(p \o q) = [vec |-> v, token |-> q]
  <2>1. Scanned(p).token = <<>> /\ Scanned(p).vec = v
    BY <1>4
  <2>2. Scanned(p) = [vec |-> Scanned(p).vec, token |-> Scanned(p).token]
    BY <1>4, <2>1
  <2>3. Scanned(p \o q) = [vec |-> Scanned(p).vec, token |-> q]
    BY <1>2, <1>3, <2>1, <2>2, TokenIs
  <2> QED
    BY <2>1, <2>3
<1>6. Pushed(Scanned(p \o q)) = Append(v, Piece(d))
  BY <1>2, <1>5 DEF Pushed
<1>7. v = [i \in DOMAIN directives |-> Piece(directives[i])]
  BY DEF FormatterInv, v
<1> DEFINE longer == Append(directives, d)
<1>8. /\ longer \in Seq(Directives) /\ DOMAIN directives = 1 .. Len(directives)
      /\ DOMAIN longer = 1 .. Len(directives) + 1 /\ Len(directives) \in Nat
      /\ \A i \in 1 .. Len(directives) : longer[i] = directives[i]
      /\ longer[Len(directives) + 1] = d
  BY <1>1, Longer
<1> HIDE DEF longer
<1>9. Append(v, Piece(d)) = [i \in DOMAIN longer |-> Piece(longer[i])]
  <2> DEFINE Pieces == {Piece(e) : e \in Directives}
             n == Len(directives)
  <2>1. n \in Nat /\ \A i \in 1 .. n : directives[i] \in Directives
    BY <1>1
  <2>2. v \in [1 .. n -> Pieces]
    BY <1>7, <1>8, <2>1
  <2>3. v \in Seq(Pieces) /\ Len(v) = n
    <3> HIDE DEF Pieces, n
    <3> QED
      BY <2>1, <2>2
  <2>4. Piece(d) \in Pieces
    OBVIOUS
  <2>5. \A i \in 1 .. n : v[i] = Piece(longer[i])
    BY <1>7, <1>8
  <2>6. Piece(d) = Piece(longer[n + 1])
    BY <1>8
  <2> HIDE DEF Pieces, n
  <2> DEFINE w == Append(v, Piece(d))
  <2>7. /\ w \in Seq(Pieces) /\ DOMAIN w = 1 .. n + 1
        /\ \A i \in 1 .. n : w[i] = v[i]
        /\ w[n + 1] = Piece(d)
    BY <2>3, <2>4, Longer
  <2> HIDE DEF w
  <2>8. \A i \in 1 .. n + 1 : w[i] = Piece(longer[i])
    <3> TAKE i \in 1 .. n + 1
    <3>1. CASE i = n + 1
      BY <2>6, <2>7, <3>1
    <3>2. CASE i # n + 1
      <4>1. i \in 1 .. n
        BY <1>8, <3>2 DEF n
      <4> QED
        BY <2>5, <2>7, <4>1
    <3> QED
      BY <3>1, <3>2
  <2>9. w = [i \in 1 .. n + 1 |-> w[i]]
    BY <2>7
  <2>10. w = [i \in 1 .. n + 1 |-> Piece(longer[i])]
    BY <2>8, <2>9
  <2> QED
    BY <1>8, <2>10 DEF n, w
<1>10. directives' = longer
  BY DEF longer
<1>11. longer # <<>>
  BY <1>8
<1>12. p \o q \in Seq(Symbol)
  BY <1>2, <1>3
<1> QED
  BY <1>2, <1>3, <1>5, <1>6, <1>8, <1>9, <1>10, <1>11, <1>12 DEF q, v

\* The formatter prints what was meant, whatever the pattern (Logger.cpp:347-444).
THEOREM SpellsWhatIsMeant == FormatterSpec => []MeansWhatItSpells
<1>1. FormatterInit => FormatterInv
  <2> SUFFICES ASSUME FormatterInit
               PROVE  FormatterInv
    OBVIOUS
  <2>1. directives = <<>> /\ pattern_ = <<>> /\ items = <<>>
    BY DEF FormatterInit
  <2>2. PICK f : IsScan(f, <<>>, Len(<<>>)) /\ Scanned(<<>>) = f[Len(<<>>)]
    <3>1. <<>> \in Seq(Symbol)
      OBVIOUS
    <3> QED
      BY <3>1, ScanIs
  <2>3. Scanned(pattern_) = Start
    <3>1. Len(<<>>) = 0 /\ 0 \in 0 .. 0
      OBVIOUS
    <3>2. \A i \in 0 .. 0 : f[i] = IF i = 0 THEN Start ELSE Cut(f[i - 1], <<>>[i])
      BY <2>2, <3>1, ScanSteps
    <3> QED
      BY <2>1, <2>2, <3>1, <3>2
  <2>4. Pushed(Start) = <<>> /\ Start = [vec |-> Start.vec, token |-> Start.token]
    BY DEF Pushed, Start
  <2>5. <<>> = [i \in DOMAIN <<>> |-> Piece(<<>>[i])]
    OBVIOUS
  <2>6. <<>> \in Seq(Directives) /\ <<>> \in Seq(Symbol)
    OBVIOUS
  <2> QED
    BY <2>1, <2>3, <2>4, <2>5, <2>6 DEF FormatterInv
<1>2. FormatterInv /\ [Construct]_formatterVars => FormatterInv'
  <2> SUFFICES ASSUME FormatterInv, [Construct]_formatterVars
               PROVE  FormatterInv'
    OBVIOUS
  <2>1. CASE Construct
    <3>1. PICK d \in Directives : directives' = Append(directives, d) /\ pattern_' = pattern_ \o Spelled(d)
      BY <2>1 DEF Construct
    <3>2. /\ Scanned(pattern_') = [vec |-> Pushed(Scanned(pattern_)), token |-> Named(d)]
          /\ Pushed(Scanned(pattern_')) = [i \in DOMAIN directives' |-> Piece(directives'[i])]
          /\ pattern_' \in Seq(Symbol) /\ directives' \in Seq(Directives) /\ directives' # <<>>
      BY <3>1, PatternAssumption, ConstructMeans
    <3>3. Named(d) # <<>>
      BY PatternAssumption, NamedIs
    <3>4. items' = items_(pattern_')
      BY <2>1 DEF Construct
    <3>5. items_(pattern_') = directives' /\ ~ hasError_(pattern_')
      BY <3>2, <3>3, PatternAssumption, PiecesMean
    <3> QED
      BY <3>2, <3>3, <3>4, <3>5 DEF FormatterInv
  <2>2. CASE UNCHANGED formatterVars
    BY <2>2 DEF FormatterInv, formatterVars
  <2> QED
    BY <2>1, <2>2
<1>3. FormatterInv => MeansWhatItSpells
  BY DEF FormatterInv, MeansWhatItSpells
<1> QED
  BY <1>1, <1>2, <1>3, PTL DEF FormatterSpec
=============================================================================
