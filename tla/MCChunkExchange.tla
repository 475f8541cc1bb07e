--------------------------- MODULE MCChunkExchange ---------------------------
(***************************************************************************)
(* The client with its player, the chunk arithmetic compared with the      *)
(* distance in the stream, and the packed map compared with the map.       *)
(***************************************************************************)
EXTENDS ChunkPlayer, ChunkMap

ASSUME \A a, b \in ChunkIDs :
  /\ WithinCycle(b, a) <=> Index(a) - Index(b) \in Positions
  /\ NotAfter(b, a) => Index(Minus(a, b)) = Index(a) - Index(b)
  /\ \A k \in 0 .. Index(a) : Index(MinusInt(a, k)) = Index(a) - k

\* The map arrives as it was but for the positions beyond the last multiple
\* of 8, which the partner does not get.
ASSUME \A n \in 0 .. 11 : \A a \in [1 .. n -> {0, 1}] :
  Received(a) = SubSeq(a, 1, 8 * (n \div 8))
ASSUME \A S \in SUBSET {1, 2, 7, 8, 9, 10, 15, 16} :
  LET a == [i \in 1 .. 16 |-> IF i \in S THEN 1 ELSE 0] IN Received(a) = a
==============================================================================
