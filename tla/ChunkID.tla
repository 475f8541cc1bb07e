------------------------------- MODULE ChunkID -------------------------------
(***************************************************************************)
(* Chunk identifiers (common/ChunkUniqueID): a position in the ring of     *)
(* BufferSize chunks and the number of times the stream went round it.     *)
(***************************************************************************)
EXTENDS Integers

CONSTANTS
  BufferSize,  \* bufferSize of every identifier (a uint16_t)
  Cycles       \* how many values the cycle has: 2^32 in the code

ASSUME ChunkIDAssumption ==
  BufferSize \in Nat \ {0} /\ Cycles \in Nat \ {0}

Positions == 0 .. BufferSize - 1
ChunkIDs  == [cycle : 0 .. Cycles - 1, position : Positions]
First     == [cycle |-> 0, position |-> 0]

\* operator++.
IncID(c) == IF c.position + 1 >= BufferSize
            THEN [cycle |-> (c.cycle + 1) % Cycles, position |-> 0]
            ELSE [c EXCEPT !.position = c.position + 1]

\* operator< and operator<=.
Before(a, b) == \/ a.cycle < b.cycle
                \/ a.cycle = b.cycle /\ a.position < b.position
NotAfter(a, b) == Before(a, b) \/ a = b

\* operator-(int) for k \in Nat.  The cycle stops at 0; the position wraps
\* all the same.
MinusInt(c, k) ==
  LET posToSub   == k % BufferSize
      borrow     == c.position < posToSub
      cycleToSub == k \div BufferSize + (IF borrow THEN 1 ELSE 0)
  IN [cycle    |-> IF c.cycle > cycleToSub THEN c.cycle - cycleToSub ELSE 0,
      position |-> c.position - posToSub + (IF borrow THEN BufferSize ELSE 0)]

\* operator-(ChunkUniqueID).  The cycles are subtracted as unsigned numbers,
\* so the check for a negative difference never fires.
Minus(a, b) ==
  MinusInt([cycle |-> (a.cycle - b.cycle) % Cycles, position |-> a.position],
           b.position)

\* "1 cycle max diff": the test the code makes before it asks for b, or
\* answers for b, when the newest chunk is a.
WithinCycle(b, a) == NotAfter(b, a) /\ Minus(a, b).cycle = 0

\* The place of c in the stream.
Index(c) == c.cycle * BufferSize + c.position
==============================================================================
