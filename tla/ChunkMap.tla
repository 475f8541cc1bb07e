------------------------------ MODULE ChunkMap ------------------------------
(***************************************************************************)
(* How the map of the media buffer travels in a ping (client.cpp): packed  *)
(* into bytes by the sender and unpacked by the receiver.  A bitset is a   *)
(* sequence of 0 and 1, the position 0 of the buffer first.                *)
(***************************************************************************)
EXTENDS Integers, Sequences, SequencesExt

\* Least significant bit first, without the zeros at the end.
ByteToBitset(a) ==
  LET bits[n \in 0..255] == IF n = 0 THEN <<>> ELSE <<n % 2>> \o bits[n \div 2]
  IN  bits[a]

BytesToBitset(bytes) ==
  FlattenSeq([k \in DOMAIN bytes |->
    LET b == ByteToBitset(bytes[k])
    IN  [i \in 1..8 |-> IF i <= Len(b) THEN b[i] ELSE 0]])

ToByte(bits) == FoldRight(LAMBDA bit, rest : bit + 2 * rest, bits, 0)

\* The BUFFER_SIZE/8 bytes Ping copies; what BitsetToBytes puts after them for
\* the bits of an incomplete byte is not sent.
BitsetToBytes(a) ==
  [k \in 1 .. Len(a) \div 8 |-> ToByte(SubSeq(a, 8 * k - 7, 8 * k))]

\* What the partner stores.
Received(a) == BytesToBitset(BitsetToBytes(a))
=============================================================================
