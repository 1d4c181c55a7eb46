------------------------------ MODULE ByteOrder ------------------------------
(***************************************************************************)
(* The integers of BufferReader.cpp:74-127 and BufferWriter.cpp:3-38: an   *)
(* integer of 2, 3 or 4 bytes is written into a char array and read back,  *)
(* forward (the high byte first) or in reverse.  An integer is here the    *)
(* sequence of its bytes, low byte first: TLC's integers have 32 bits.     *)
(*                                                                         *)
(* char is signed, as on the x86 builds.  The reader shifts and combines   *)
(* plain chars, so a byte of 128 or more is extended by ones to the left.  *)
(***************************************************************************)
EXTENDS Integers, Sequences, FiniteSetsExt

CONSTANT SomeBytes       \* the bytes that occur

ASSUME CodecAssumption == SomeBytes \subseteq 0 .. 255

VARIABLES value,         \* what was written, as many bytes as its width
          forward,       \* how it was written and read
          result         \* what was read, as many bytes as the result type has

codecVars == <<value, forward, result>>

\* readU16 returns a uint16_t, readU24 and readU32 a uint32_t.
ResultWidth(n) == IF n = 2 THEN 2 ELSE 4

\* Mutant: the three bytes of a U24 are written as the low ones of a U32.
writtenAsU32(v, fwd) ==
  LET u == IF Len(v) = 3 THEN v \o <<0>> ELSE v
  IN  [i \in 1 .. Len(v) |-> IF fwd THEN u[Len(u) + 1 - i] ELSE u[i]]

\* writeU16Forward ... writeU32Reverse: the array p, from p[0].
written(v, fwd) == [i \in 1 .. Len(v) |-> IF fwd THEN v[Len(v) + 1 - i] ELSE v[i]]

\* p[k] << 8 * shift, as an int of four bytes.
Shifted(byte, shift) ==
  [i \in 1 .. 4 |-> IF i <= shift THEN 0
                    ELSE IF i = shift + 1 THEN byte
                    ELSE IF byte >= 128 THEN 255 ELSE 0]

\* readU16Forward ... readU32Reverse on the n bytes of p: of the bytes that are
\* combined in one place, at most one is neither 0 nor 255, so "|" is the maximum.
readU(p, fwd) ==
  LET shift(k) == IF fwd THEN Len(p) - k ELSE k - 1
  IN  [i \in 1 .. ResultWidth(Len(p)) |->
         Max({Shifted(p[k], shift(k))[i] : k \in 1 .. Len(p)})]

CodecInit == value = <<0, 0>> /\ forward = TRUE /\ result = <<0, 0>>

Transfer(v, fwd) == /\ value' = v /\ forward' = fwd
                    /\ result' = readU(written(v, fwd), fwd)

Integers2To4 == UNION {[1 .. n -> SomeBytes] : n \in 2 .. 4}

CodecNext == \E v \in Integers2To4, fwd \in BOOLEAN : Transfer(v, fwd)

CodecSpec == CodecInit /\ [][CodecNext]_codecVars

-----------------------------------------------------------------------------
\* The integer as its reader should have it: zeroes above its own bytes.
Padded(v) == [i \in 1 .. ResultWidth(Len(v)) |-> IF i <= Len(v) THEN v[i] ELSE 0]

\* What is written is read back exactly when the sign of no byte spoils what
\* is above it: below a byte of 128 or more, every byte up to the result's
\* highest would have to be 255 anyway (BufferReader.cpp:74-127).  A U24 whose
\* high byte is 128 or more is never read back.
ReadsBackUnlessSigned ==
  result = Padded(value) <=>
    \A i, j \in DOMAIN Padded(value) :
      i < j /\ Padded(value)[i] >= 128 => Padded(value)[j] = 255
=============================================================================
