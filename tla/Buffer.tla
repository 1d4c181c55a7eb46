------------------------------- MODULE Buffer -------------------------------
(***************************************************************************)
(* The circular byte buffer of src/src/util/buffer/Buffer.cpp as           *)
(* BufferReader (BufferReader.cpp) uses it: one thread, under the mutex of *)
(* its connection, appends, looks for a delimiter and consumes.            *)
(*                                                                         *)
(* The constructor allocates capacity_ + 1 bytes, reset only newCapacity;  *)
(* the positions still run over newCapacity + 1.  The byte beyond the end  *)
(* is taken as memory that keeps its value, as the allocator's rounding    *)
(* leaves it for the sizes in use (1 MiB doubled).                          *)
(***************************************************************************)
EXTENDS Integers, Sequences, FiniteSetsExt

CONSTANTS Bytes,             \* the bytes that occur
          Junk,              \* the content of a byte never written
          Strings,           \* what is appended
          Targets,           \* what is looked for
          kMaxBytesPerRead,  \* 4096
          InitSize,          \* init_size of the reader
          MaxCapacity        \* bound on the growth

ASSUME BufferAssumption ==
  /\ kMaxBytesPerRead \in Nat \ {0} /\ InitSize \in Nat \ {0} /\ MaxCapacity \in Nat
  /\ InitSize >= kMaxBytesPerRead
  /\ Strings \subseteq Seq(Bytes) /\ Targets \subseteq Seq(Bytes)
  /\ \A s \in Strings : Len(s) <= kMaxBytesPerRead
  /\ Junk \notin Bytes

VARIABLES capacity_, put_pos_, get_pos_, data_,
          expected     \* history: what was appended and not consumed yet

bufVars == <<capacity_, put_pos_, get_pos_, data_, expected>>

indexOf(pos, n) == (pos + n) % (capacity_ + 1)

size == (capacity_ + 1 + put_pos_ - get_pos_) % (capacity_ + 1)
writableBytes == capacity_ - size

BufInit == /\ capacity_ = InitSize
           /\ put_pos_ = 0 /\ get_pos_ = 0
           /\ data_ = [i \in 0 .. InitSize |-> Junk]
           /\ expected = <<>>

\* The bytes in the buffer, oldest first.
Contents == [i \in 1 .. size |-> data_[indexOf(get_pos_, i - 1)]]

-----------------------------------------------------------------------------
\* Mutant: the comparison goes on beyond put_pos_.
findPastEnd(t) ==
  LET hits == {j \in 0 .. size - 1 :
                 \A i \in 0 .. Len(t) - 1 : data_[indexOf(j + get_pos_, i)] = t[i + 1]}
  IN  IF hits = {} THEN -1 ELSE Min(hits)

\* For each start j the target is compared up to the first difference; to run
\* into put_pos_ first ends the search.
find(t) ==
  LET idx(j, i) == indexOf(j + get_pos_, i)
      Agrees(j, n) == \A i \in 0 .. n - 1 : idx(j, i) # put_pos_ /\ data_[idx(j, i)] = t[i + 1]
      RunsOut(j) == \E n \in 0 .. Len(t) - 1 : Agrees(j, n) /\ idx(j, n) = put_pos_
      ends == {j \in 0 .. size - 1 : Agrees(j, Len(t)) \/ RunsOut(j)}
  IN  IF ends = {} \/ RunsOut(Min(ends)) THEN -1 ELSE Min(ends)

\* Buffer::read(s, n) takes what there is, at most n.
Consume(n) == LET bytesRead == Min({n, size})
              IN  /\ get_pos_' = indexOf(get_pos_, bytesRead)
                  /\ expected' = SubSeq(expected, bytesRead + 1, Len(expected))
                  /\ UNCHANGED <<capacity_, put_pos_, data_>>

\* Mutant: the buffer grows one byte too late.
TooSmallLate == writableBytes < kMaxBytesPerRead - 1

TooSmall == writableBytes < kMaxBytesPerRead

\* reset(capacity_ * 2) copies the content to the front of a new array; then
\* Buffer::write stores as much of s as there is room for.
append(s) ==
  LET newCapacity == IF TooSmall THEN capacity_ * 2 ELSE capacity_
      get == IF TooSmall THEN 0 ELSE get_pos_
      put == IF TooSmall THEN size ELSE put_pos_
      bytesWrite == Min({Len(s), newCapacity - size})
      at(i) == (put + i) % (newCapacity + 1)
      old == IF TooSmall THEN [i \in 0 .. newCapacity |->
                                 IF i < size THEN Contents[i + 1] ELSE Junk]
             ELSE data_
  IN  /\ newCapacity <= MaxCapacity
      /\ capacity_' = newCapacity
      /\ get_pos_' = get
      /\ put_pos_' = at(bytesWrite)
      /\ data_' = [p \in 0 .. newCapacity |->
                     IF \E i \in 0 .. bytesWrite - 1 : at(i) = p
                       THEN s[(CHOOSE i \in 0 .. bytesWrite - 1 : at(i) = p) + 1]
                       ELSE old[p]]
      /\ expected' = expected \o s

\* BufferReader::read(n, data) wants all n bytes or none.
read(n) == n <= size /\ Consume(n)

advance(n) == Consume(n)

readAll == Consume(size)

\* A target that is not there: -1 becomes the largest size_t.
advanceTo(t) == Consume(IF find(t) = -1 THEN size ELSE find(t))

findAndSkip(t) == find(t) # -1 /\ Consume(find(t) + Len(t))

clear == /\ get_pos_' = 0 /\ put_pos_' = 0 /\ expected' = <<>>
         /\ UNCHANGED <<capacity_, data_>>

\* BufferReader::read(fd) makes room as append does and then sends its own
\* content: the kernel takes n bytes of it, or none.
readFd(n) ==
  /\ n <= Min({size, kMaxBytesPerRead})
  /\ IF TooSmall
       THEN /\ capacity_ * 2 <= MaxCapacity
            /\ capacity_' = capacity_ * 2
            /\ get_pos_' = n /\ put_pos_' = size
            /\ data_' = [i \in 0 .. capacity_' |-> IF i < size THEN Contents[i + 1] ELSE Junk]
       ELSE /\ get_pos_' = indexOf(get_pos_, n)
            /\ UNCHANGED <<capacity_, put_pos_, data_>>
  /\ expected' = SubSeq(expected, n + 1, Len(expected))

BufNext == \/ \E s \in Strings : append(s)
           \/ \E n \in 1 .. MaxCapacity : read(n) \/ advance(n)
           \/ readAll \/ clear
           \/ \E t \in Targets : advanceTo(t) \/ findAndSkip(t)
           \/ \E n \in 0 .. kMaxBytesPerRead : readFd(n)

BufSpec == BufInit /\ [][BufNext]_bufVars

-----------------------------------------------------------------------------
BufTypeOK == /\ capacity_ \in InitSize .. MaxCapacity
             /\ put_pos_ \in 0 .. capacity_ /\ get_pos_ \in 0 .. capacity_
             /\ data_ \in [0 .. capacity_ -> Bytes \cup {Junk}]
             /\ expected \in Seq(Bytes)

\* However appends, growth, partial reads and wrap-arounds alternate, the
\* buffer holds the bytes that were appended and not yet consumed, in order:
\* append never drops the end of a string of up to kMaxBytesPerRead bytes
\* although Buffer::write may (Buffer.cpp:34-49, 83-100, BufferReader.cpp:3-13).
BytesKept == Contents = expected

\* find returns the first place of the target, also across the wrap-around and
\* after a partial match, and -1 when there is none (Buffer.cpp:102-121).
FindIsFirst ==
  \A t \in Targets :
    LET places == {j \in 0 .. Len(expected) - 1 :
                     j + Len(t) <= Len(expected) /\ SubSeq(expected, j + 1, j + Len(t)) = t}
    IN  find(t) = IF places = {} THEN -1 ELSE Min(places)

\* What its readers count on: the bytes that were appended, and where a
\* delimiter first is among them.
BufferIsQueue == BytesKept /\ FindIsFirst
=============================================================================
