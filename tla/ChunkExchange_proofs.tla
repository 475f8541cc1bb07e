------------------------ MODULE ChunkExchange_proofs ------------------------
(***************************************************************************)
(* Safety of the chunk exchange and of the player, for every buffer size,   *)
(* number of cycles and bound on attempts and failures.                     *)
(***************************************************************************)
EXTENDS ChunkPlayer, Extrema_proofs, SequenceTheorems

USE ChunkIDAssumption
-----------------------------------------------------------------------------
(***************************************************************************)
(* Identifiers.                                                            *)
(***************************************************************************)

\* A number below the modulus is its own remainder.
LEMMA SmallMod ==
  ASSUME NEW m \in Nat \ {0}, NEW x \in 0 .. m - 1
  PROVE  x % m = x /\ x \div m = 0
BY Z3

\* A remainder is below the modulus.
LEMMA ModRange ==
  ASSUME NEW m \in Nat \ {0}, NEW x \in Int
  PROVE  x % m \in 0 .. m - 1
BY Z3

\* A natural number is made of its quotient and its remainder.
LEMMA DivMod ==
  ASSUME NEW m \in Nat \ {0}, NEW x \in Nat
  PROVE  x \div m \in Nat /\ x = m * (x \div m) + (x % m)
BY Z3

\* The fields of an identifier.
LEMMA Fields ==
  ASSUME NEW c \in ChunkIDs
  PROVE  /\ c.cycle \in Nat /\ c.cycle < Cycles
         /\ c.position \in Nat /\ c.position < BufferSize
         /\ c = [cycle |-> c.cycle, position |-> c.position]
BY DEF ChunkIDs, Positions

\* operator++ gives an identifier.
LEMMA IncType ==
  ASSUME NEW c \in ChunkIDs
  PROVE  IncID(c) \in ChunkIDs
<1>1. (c.cycle + 1) % Cycles \in 0 .. Cycles - 1
  BY Fields, ModRange
<1> QED BY <1>1, Fields DEF IncID, ChunkIDs, Positions

\* operator- of a number gives an identifier, and goes back, whatever happens
\* to the cycle, unless there is no cycle to go back to.
LEMMA MinusType ==
  ASSUME NEW c \in ChunkIDs, NEW k \in Nat
  PROVE  /\ MinusInt(c, k) \in ChunkIDs
         /\ c.cycle > 0 \/ k <= c.position => NotAfter(MinusInt(c, k), c)
<1> DEFINE q == k \div BufferSize
           r == k % BufferSize
           borrow == c.position < r
           down == q + (IF borrow THEN 1 ELSE 0)
           d == MinusInt(c, k)
<1>1. q \in Nat /\ r \in 0 .. BufferSize - 1
  <2>1. k \in Int
    OBVIOUS
  <2> QED BY <2>1, DivMod, ModRange
<1>2. /\ d.cycle = (IF c.cycle > down THEN c.cycle - down ELSE 0)
      /\ d.position = c.position - r + (IF borrow THEN BufferSize ELSE 0)
      /\ d = [cycle |-> d.cycle, position |-> d.position]
  BY DEF MinusInt
<1>3. k <= c.position => q = 0 /\ r = k
  BY Fields, SmallMod
<1> HIDE DEF q, r, d
<1>4. d.cycle \in 0 .. Cycles - 1 /\ d.position \in 0 .. BufferSize - 1
  BY <1>1, <1>2, Fields
<1>5. d \in ChunkIDs
  BY <1>2, <1>4 DEF ChunkIDs, Positions
<1>6. c.cycle > 0 \/ k <= c.position => NotAfter(d, c)
  BY <1>1, <1>2, <1>3, <1>4, Fields DEF NotAfter, Before
<1> QED BY <1>5, <1>6 DEF d
-----------------------------------------------------------------------------
(***************************************************************************)
(* The order of identifiers.                                               *)
(***************************************************************************)

\* It is total.
LEMMA Total ==
  ASSUME NEW a \in ChunkIDs, NEW b \in ChunkIDs
  PROVE  NotAfter(a, b) \/ Before(b, a)
BY Fields DEF NotAfter, Before

\* It is transitive.
LEMMA Transitive ==
  ASSUME NEW a \in ChunkIDs, NEW b \in ChunkIDs, NEW c \in ChunkIDs, NotAfter(a, b)
  PROVE  /\ NotAfter(b, c) => NotAfter(a, c)
         /\ Before(b, c) => Before(a, c)
BY Fields DEF NotAfter, Before

\* The last identifier before the cycles start again.
LastID == [cycle |-> Cycles - 1, position |-> BufferSize - 1]

\* operator++ is strictly increasing up to the last one.
LEMMA IncIncreases ==
  ASSUME NEW c \in ChunkIDs, c # LastID
  PROVE  Before(c, IncID(c))
<1>1. c.position + 1 >= BufferSize => (c.cycle + 1) % Cycles = c.cycle + 1
  <2>1. c.position + 1 >= BufferSize => c.cycle # Cycles - 1
    BY Fields DEF LastID
  <2>2. c.cycle # Cycles - 1 => c.cycle + 1 \in 0 .. Cycles - 1
    BY Fields
  <2> QED BY <2>1, <2>2, SmallMod
<1> QED BY <1>1, Fields DEF IncID, Before, ChunkIDs

\* It is monotonic: there is nothing between an identifier and its successor.
LEMMA IncMonotonic ==
  ASSUME NEW a \in ChunkIDs, NEW b \in ChunkIDs, b # LastID, NotAfter(a, b)
  PROVE  /\ NotAfter(IncID(a), IncID(b)) /\ a # LastID
         /\ Before(a, b) => NotAfter(IncID(a), b)
<1>1. a # LastID
  BY Fields DEF NotAfter, Before, LastID
<1>2. \A c \in {a, b} : c.position + 1 >= BufferSize => (c.cycle + 1) % Cycles = c.cycle + 1
  <2>1. ASSUME NEW c \in {a, b}, c.position + 1 >= BufferSize
        PROVE  c.cycle + 1 \in 0 .. Cycles - 1
    BY <1>1, <2>1, Fields DEF LastID
  <2> QED BY <2>1, SmallMod
<1> QED BY <1>1, <1>2, Fields DEF IncID, NotAfter, Before, ChunkIDs
-----------------------------------------------------------------------------
(***************************************************************************)
(* The window of one cycle.                                                *)
(***************************************************************************)

\* More cycles, more chunks.
LEMMA MoreCycles ==
  ASSUME NEW k \in Nat, NEW d \in Nat, k <= d
  PROVE  k * BufferSize <= d * BufferSize
BY Z3

\* The place in the stream of a later chunk, in cycles from an earlier one.
LEMMA IndexDifference ==
  ASSUME NEW a \in ChunkIDs, NEW b \in ChunkIDs, NEW d \in Nat, a.cycle = b.cycle + d
  PROVE  Index(a) - Index(b) = d * BufferSize + a.position - b.position
<1>1. /\ a.cycle \in Nat /\ b.cycle \in Nat /\ a.position \in Nat /\ b.position \in Nat
      /\ BufferSize \in Nat
  BY Fields
<1> QED BY <1>1, Z3 DEF Index

\* operator-(ChunkUniqueID) with a borrow, for the chunks up to the latest one:
\* the unsigned difference of the cycles does not wrap.
LEMMA MinusFields ==
  ASSUME NEW a \in ChunkIDs, NEW b \in ChunkIDs, NotAfter(b, a)
  PROVE  LET d == a.cycle - b.cycle
             borrow == IF a.position < b.position THEN 1 ELSE 0
         IN /\ d \in Nat /\ d >= borrow
            /\ Minus(a, b).cycle = d - borrow
            /\ Minus(a, b).position = a.position - b.position + borrow * BufferSize
<1> DEFINE d == a.cycle - b.cycle
           e == [cycle |-> (a.cycle - b.cycle) % Cycles, position |-> a.position]
<1>1. d \in Nat /\ d \in 0 .. Cycles - 1 /\ (a.position < b.position => d >= 1)
  BY Fields DEF NotAfter, Before
<1>2. e.cycle = d /\ e.position = a.position
  BY <1>1, SmallMod
<1>3. b.position % BufferSize = b.position /\ b.position \div BufferSize = 0
  BY Fields, SmallMod
<1>4. Minus(a, b) = MinusInt(e, b.position)
  BY DEF Minus
<1> HIDE DEF e
<1>5. /\ Minus(a, b).cycle =
           (IF d > (IF a.position < b.position THEN 1 ELSE 0)
            THEN d - (IF a.position < b.position THEN 1 ELSE 0) ELSE 0)
      /\ Minus(a, b).position = a.position - b.position
                                + (IF a.position < b.position THEN BufferSize ELSE 0)
  BY <1>1, <1>2, <1>3, <1>4, Fields DEF MinusInt
<1> QED BY <1>1, <1>5, Fields

\* "1 cycle max diff" (client.cpp:681, Request.cpp:66): the test accepts the
\* last BufferSize chunks up to the latest one, and no other.
THEOREM WindowTheorem ==
  ASSUME NEW a \in ChunkIDs, NEW b \in ChunkIDs
  PROVE  WithinCycle(b, a) <=> Index(a) - Index(b) \in Positions
<1> DEFINE d == a.cycle - b.cycle
<1>1. CASE NotAfter(b, a)
  <2>1. /\ d \in Nat /\ (a.position < b.position => d >= 1)
        /\ Minus(a, b).cycle = d - (IF a.position < b.position THEN 1 ELSE 0)
    BY <1>1, MinusFields
  <2>2. Index(a) - Index(b) = d * BufferSize + a.position - b.position
    BY <2>1, IndexDifference, Fields
  <2>3. /\ d = 0 => d * BufferSize = 0
        /\ d = 1 => d * BufferSize = BufferSize
        /\ d >= 1 => d * BufferSize >= BufferSize
        /\ d >= 2 => d * BufferSize >= 2 * BufferSize
        /\ d * BufferSize \in Nat
    BY <2>1, MoreCycles, Z3
  <2> HIDE DEF d
  <2>4. WithinCycle(b, a) <=> d = (IF a.position < b.position THEN 1 ELSE 0)
    BY <1>1, <2>1 DEF WithinCycle
  <2> DEFINE p == d * BufferSize
  <2>5. p \in Nat /\ Index(a) - Index(b) = p + a.position - b.position
    BY <2>2, <2>3
  <2>6. /\ d = 0 => p = 0
        /\ d = 1 => p = BufferSize
        /\ d >= 1 => p >= BufferSize
        /\ d >= 2 => p >= 2 * BufferSize
    BY <2>3
  <2> HIDE DEF p
  <2> QED BY <2>1, <2>4, <2>5, <2>6, Fields DEF Positions
<1>2. CASE ~NotAfter(b, a)
  <2> DEFINE e == b.cycle - a.cycle
  <2>1. e \in Nat /\ (e = 0 => a.position < b.position)
    BY <1>2, Fields DEF NotAfter, Before
  <2>2. Index(b) - Index(a) = e * BufferSize + b.position - a.position
    BY <2>1, IndexDifference, Fields
  <2>3. (e >= 1 => e * BufferSize >= BufferSize) /\ e * BufferSize \in Nat
    BY <2>1, MoreCycles, Z3
  <2>4. e = 0 => e * BufferSize = 0
    BY Z3
  <2> DEFINE p == e * BufferSize
  <2>5. p \in Nat /\ Index(b) - Index(a) = p + b.position - a.position
        /\ (e >= 1 => p >= BufferSize) /\ (e = 0 => p = 0)
    BY <2>2, <2>3, <2>4
  <2> HIDE DEF p, e
  <2>6. Index(a) \in Int /\ Index(b) \in Int
    BY Fields, Z3 DEF Index
  <2>7. Index(b) - Index(a) > 0
    BY <2>1, <2>5, Fields
  <2> QED BY <1>2, <2>6, <2>7 DEF WithinCycle, Positions
<1> QED BY <1>1, <1>2
-----------------------------------------------------------------------------
(***************************************************************************)
(* The elements of a sequence that are in a set.                           *)
(***************************************************************************)

\* A set of naturals with a member has a least one.
LEMMA LeastOne ==
  ASSUME NEW T \in SUBSET Nat, T # {}
  PROVE  \E n \in T : \A m \in T : n <= m
BY MinProperties

\* The body of the recursion of Those, and the function it defines.
ThoseAfter(s, S, f, n) ==
  IF n = 0 THEN <<>>
  ELSE IF s[n] \in S THEN Append(f[n - 1], s[n]) ELSE f[n - 1]

Solves(s, S, f, n) == f = [m \in 0 .. n |-> ThoseAfter(s, S, f, m)]

ThoseOf(s, S) == CHOOSE f : f = [m \in 0 .. Len(s) |-> ThoseAfter(s, S, f, m)]

\* Those, with its recursion named.
LEMMA ThoseIsRecursion ==
  ASSUME NEW s, NEW S
  PROVE  Those(s, S) = ThoseOf(s, S)[Len(s)]
BY DEF Those, ThoseOf, ThoseAfter

\* The recursion is well-founded, so that its equation has a solution.
LEMMA ThoseEquation ==
  ASSUME NEW s, NEW S, Len(s) \in Nat
  PROVE  Solves(s, S, ThoseOf(s, S), Len(s))
<1> DEFINE Bad == {n \in Nat : ~ \E f : Solves(s, S, f, n)}
<1>1. ASSUME Bad # {} PROVE FALSE
  <2>1. PICK n \in Bad : \A m \in Bad : n <= m
    <3> HIDE DEF Bad
    <3>1. Bad \in SUBSET Nat
      BY DEF Bad
    <3> QED BY <1>1, <3>1, LeastOne
  <2>2. CASE n = 0
    <3>1. Solves(s, S, [m \in 0 .. 0 |-> <<>>], 0)
      BY DEF Solves, ThoseAfter
    <3> QED BY <2>1, <2>2, <3>1
  <2>3. CASE n # 0
    <3>1. n \in Nat /\ n - 1 \in Nat /\ n - 1 \notin Bad
      BY <2>1, <2>3
    <3>2. PICK f : Solves(s, S, f, n - 1)
      BY <3>1
    <3> DEFINE g == [m \in 0 .. n |-> IF m = n THEN ThoseAfter(s, S, f, n) ELSE f[m]]
    <3>3. ASSUME NEW m \in 0 .. n PROVE g[m] = ThoseAfter(s, S, g, m)
      <4>1. CASE m = n
        <5>1. g[n - 1] = f[n - 1]
          BY <3>1
        <5> QED BY <4>1, <5>1 DEF ThoseAfter
      <4>2. CASE m # n
        <5>1. m \in 0 .. n - 1 /\ (m # 0 => m - 1 \in 0 .. n - 1)
          BY <3>1, <4>2
        <5>2. g[m] = f[m] /\ f[m] = ThoseAfter(s, S, f, m)
          BY <3>1, <3>2, <4>2, <5>1 DEF Solves
        <5>3. m # 0 => g[m - 1] = f[m - 1]
          BY <3>1, <5>1
        <5> QED BY <5>2, <5>3 DEF ThoseAfter
      <4> QED BY <4>1, <4>2
    <3>4. g = [m \in 0 .. n |-> ThoseAfter(s, S, g, m)]
      BY <3>3
    <3>5. Solves(s, S, g, n)
      <4> HIDE DEF g
      <4> QED BY <3>4 DEF Solves
    <3> HIDE DEF g
    <3> QED BY <2>1, <3>5
  <2> QED BY <2>2, <2>3
<1>2. \E f : Solves(s, S, f, Len(s))
  BY <1>1
<1> QED BY <1>2 DEF Solves, ThoseOf

\* t is made of elements of S among the first n of s, in their order.
Among(t, s, S, n) ==
  /\ \A j \in DOMAIN t : \E l \in 1 .. n : t[j] = s[l] /\ s[l] \in S
  /\ \A i, j \in DOMAIN t : i < j =>
       \E k, l \in 1 .. n : k < l /\ t[i] = s[k] /\ t[j] = s[l]

\* One more element is looked at.
LEMMA AmongStep ==
  ASSUME NEW X, NEW s \in Seq(X), NEW S, NEW n \in 1 .. Len(s), NEW t \in Seq(X),
         Among(t, s, S, n - 1)
  PROVE  /\ Among(t, s, S, n)
         /\ s[n] \in S => Among(Append(t, s[n]), s, S, n)
<1>1. 1 .. n - 1 \subseteq 1 .. n /\ n \in 1 .. n /\ \A k \in 1 .. n - 1 : k < n
  OBVIOUS
<1>2. Among(t, s, S, n)
  BY <1>1 DEF Among
<1>3. ASSUME s[n] \in S PROVE Among(Append(t, s[n]), s, S, n)
  <2> DEFINE u == Append(t, s[n])
  <2>1. s[n] \in X
    OBVIOUS
  <2>2. /\ u \in Seq(X) /\ Len(u) = Len(t) + 1
        /\ u[Len(u)] = s[n] /\ \A i \in DOMAIN t : u[i] = t[i]
        /\ DOMAIN u = 1 .. Len(t) + 1 /\ DOMAIN t = 1 .. Len(t)
    BY <2>1, AppendProperties
  <2>3. \A j \in DOMAIN u : j \in DOMAIN t \/ j = Len(u)
    BY <2>2
  <2> HIDE DEF u
  <2>4. \A j \in DOMAIN u : \E l \in 1 .. n : u[j] = s[l] /\ s[l] \in S
    BY <1>1, <1>2, <1>3, <2>2, <2>3 DEF Among
  <2>5. ASSUME NEW i \in DOMAIN u, NEW j \in DOMAIN u, i < j
        PROVE  \E k, l \in 1 .. n : k < l /\ u[i] = s[k] /\ u[j] = s[l]
    <3>1. i \in DOMAIN t
      BY <2>2, <2>3, <2>5
    <3>2. CASE j \in DOMAIN t
      <4>1. PICK k \in 1 .. n, l \in 1 .. n : k < l /\ t[i] = s[k] /\ t[j] = s[l]
        BY <1>2, <2>5, <3>1, <3>2 DEF Among
      <4>2. u[i] = s[k] /\ u[j] = s[l]
        BY <2>2, <3>1, <3>2, <4>1
      <4> QED BY <4>1, <4>2
    <3>3. CASE j = Len(u)
      <4>1. PICK k \in 1 .. n - 1 : t[i] = s[k]
        BY <3>1 DEF Among
      <4> QED BY <1>1, <2>2, <3>1, <3>3, <4>1
    <3> QED BY <2>3, <3>2, <3>3
  <2> QED BY <2>4, <2>5 DEF Among, u
<1> QED BY <1>2, <1>3

\* Those gives elements of S in the order of s.
LEMMA ThoseProperties ==
  ASSUME NEW X, NEW s \in Seq(X), NEW S
  PROVE  Those(s, S) \in Seq(X) /\ Among(Those(s, S), s, S, Len(s))
<1> DEFINE f == ThoseOf(s, S)
           Bad == {n \in 0 .. Len(s) : ~(f[n] \in Seq(X) /\ Among(f[n], s, S, n))}
<1>1. Len(s) \in Nat
  OBVIOUS
<1>2. \A n \in 0 .. Len(s) : f[n] = ThoseAfter(s, S, f, n)
  BY <1>1, ThoseEquation DEF Solves
<1> HIDE DEF f
<1>3. ASSUME Bad # {} PROVE FALSE
  <2>1. PICK n \in Bad : \A m \in Bad : n <= m
    <3>1. Bad \in SUBSET Nat
      BY <1>1
    <3> HIDE DEF Bad
    <3> QED BY <1>3, <3>1, LeastOne
  <2>2. n \in 0 .. Len(s)
    BY <2>1
  <2>3. CASE n = 0
    <3>1. f[n] = <<>>
      BY <1>2, <2>2, <2>3 DEF ThoseAfter
    <3>2. f[n] \in Seq(X) /\ Among(f[n], s, S, n)
      BY <3>1 DEF Among
    <3> QED BY <2>1, <3>2
  <2>4. CASE n # 0
    <3>1. n - 1 \in 0 .. Len(s) /\ n \in 1 .. Len(s) /\ n - 1 \notin Bad
      BY <1>1, <2>1, <2>2, <2>4
    <3>2. f[n - 1] \in Seq(X) /\ Among(f[n - 1], s, S, n - 1)
      BY <3>1
    <3>3. f[n] = IF s[n] \in S THEN Append(f[n - 1], s[n]) ELSE f[n - 1]
      BY <1>2, <2>2, <2>4 DEF ThoseAfter
    <3>4. f[n] \in Seq(X) /\ Among(f[n], s, S, n)
      BY <3>1, <3>2, <3>3, AmongStep
    <3> QED BY <2>1, <3>4
  <2> QED BY <2>3, <2>4
<1>4. f[Len(s)] \in Seq(X) /\ Among(f[Len(s)], s, S, Len(s))
  BY <1>1, <1>3
<1> QED BY <1>4, ThoseIsRecursion DEF f
-----------------------------------------------------------------------------
(***************************************************************************)
(* The invariant of the exchange.                                          *)
(***************************************************************************)

\* What MediaBuffer's id[] holds for a slot that has a chunk was written: the
\* answer to a request never reads one that was not.
Stored == \A pos \in Positions : ring[pos].full => ring[pos].id \in 0 .. Cycles - 1

\* A request that is due has not been sent yet.
Fresh == \A i \in DOMAIN requestList :
           requestList[i].ttl = "due" => requestList[i].attempts = 0

\* The requester asks on only while it has not failed too often.
Patience == requester \in {"ask", "clear"} => failures < MaxFailures

IInv == TypeOK /\ Stored /\ Fresh /\ Patience /\ NothingPastLatest

USE ExchangeAssumption

\* A chunk put in a slot, and the others as they were.
LEMMA PutType ==
  ASSUME NEW b \in Buffers, NEW c \in ChunkIDs, NEW bit \in BOOLEAN
  PROVE  /\ Put(b, c, bit) \in Buffers
         /\ Put(b, c, bit)[c.position] = [id |-> c.cycle, full |-> TRUE, map |-> bit]
         /\ \A pos \in Positions \ {c.position} : Put(b, c, bit)[pos] = b[pos]
<1>1. c.position \in Positions /\ c.cycle \in 0 .. Cycles - 1
  BY DEF ChunkIDs
<1>2. [id |-> c.cycle, full |-> TRUE, map |-> bit] \in Slot
  BY <1>1 DEF Slot
<1> QED BY <1>1, <1>2 DEF Put, Buffers

\* A bit of the map changes, and no chunk.
LEMMA SetMapType ==
  ASSUME NEW b \in Buffers, NEW p \in Positions, NEW bit \in BOOLEAN
  PROVE  /\ SetMap(b, p, bit) \in Buffers
         /\ \A pos \in Positions : /\ SetMap(b, p, bit)[pos].id = b[pos].id
                                   /\ SetMap(b, p, bit)[pos].full = b[pos].full
<1>1. [b[p] EXCEPT !.map = bit] \in Slot
  BY DEF Buffers, Slot
<1>2. SetMap(b, p, bit) = [b EXCEPT ![p] = [b[p] EXCEPT !.map = bit]]
  BY DEF SetMap
<1>3. SetMap(b, p, bit) \in Buffers
  BY <1>1, <1>2 DEF Buffers
<1>4. /\ [b[p] EXCEPT !.map = bit].id = b[p].id
      /\ [b[p] EXCEPT !.map = bit].full = b[p].full
  BY DEF Buffers, Slot
<1>5. ASSUME NEW pos \in Positions
      PROVE  /\ SetMap(b, p, bit)[pos].id = b[pos].id
             /\ SetMap(b, p, bit)[pos].full = b[pos].full
  <2>1. CASE pos = p
    <3>1. SetMap(b, p, bit)[pos] = [b[p] EXCEPT !.map = bit]
      BY <1>2, <2>1 DEF Buffers
    <3> QED BY <1>4, <2>1, <3>1
  <2>2. CASE pos # p
    BY <1>2, <2>2 DEF Buffers
  <2> QED BY <2>1, <2>2
<1> QED BY <1>3, <1>5

\* What is sent is of the type of what was.
LEMMA SendType ==
  ASSUME TypeOK, NEW S \in SUBSET Datagrams, Send(S)
  PROVE  net' \subseteq Datagrams
BY DEF Send, TypeOK

\* The places of the stream have identifiers.
LEMMA ChunkType ==
  ASSUME NEW n \in Nat
  PROVE  Chunk(n) \in ChunkIDs
<1>1. n \in Int /\ n \div BufferSize \in Int
  BY DivMod
<1>2. n % BufferSize \in Positions /\ (n \div BufferSize) % Cycles \in 0 .. Cycles - 1
  BY <1>1, ModRange DEF Positions
<1> QED BY <1>2 DEF Chunk, ChunkIDs

\* The ring of a server that has made Joined chunks.
LEMMA JoinedType ==
  ASSUME NEW b \in Unfilled
  PROVE  /\ JoinedRing(b) \in Buffers
         /\ \A pos \in Positions :
              JoinedRing(b)[pos].full => JoinedRing(b)[pos].id \in 0 .. Cycles - 1
<1>1. ASSUME NEW pos \in Positions
      PROVE  /\ JoinedRing(b)[pos] \in Slot
             /\ JoinedRing(b)[pos].full => JoinedRing(b)[pos].id \in 0 .. Cycles - 1
  <2> DEFINE Made == {n \in 0 .. Joined - 1 : n % BufferSize = pos}
             r == [id |-> Chunk(Max(Made)).cycle, full |-> TRUE,
                   map |-> Max(Made) # Joined - 1]
  <2>1. JoinedRing(b)[pos] = IF Made = {} THEN b[pos] ELSE r
    BY DEF JoinedRing
  <2>2. b[pos] \in Slot /\ ~b[pos].full
    BY DEF Unfilled, Slot
  <2>3. ASSUME Made # {} PROVE r \in Slot /\ r.id \in 0 .. Cycles - 1
    <3>1. Made \in SUBSET Nat
      OBVIOUS
    <3>2. IsFiniteSet(0 .. Joined - 1)
      <4>1. 0 \in Int /\ Joined - 1 \in Int
        OBVIOUS
      <4> QED BY <4>1, FS_Interval
    <3>3. IsFiniteSet(Made)
      BY <3>2, FS_Subset
    <3>4. Max(Made) \in Nat
      <4> HIDE DEF Made
      <4>1. Max(Made) \in Made
        BY <2>3, <3>1, <3>3, MaxProperties
      <4> QED BY <3>1, <4>1
    <3> HIDE DEF Made
    <3>5. Chunk(Max(Made)).cycle \in 0 .. Cycles - 1
      BY <3>4, ChunkType DEF ChunkIDs
    <3> QED BY <3>5 DEF Slot
  <2> HIDE DEF Made, r
  <2>4. CASE Made = {}
    BY <2>1, <2>2, <2>4
  <2>5. CASE Made # {}
    BY <2>1, <2>3, <2>5
  <2> QED BY <2>4, <2>5
<1>2. JoinedRing(b) = [pos \in Positions |-> JoinedRing(b)[pos]]
  BY DEF JoinedRing
<1>3. JoinedRing(b) \in Buffers
  BY <1>1, <1>2 DEF Buffers
<1> QED BY <1>1, <1>3

\* The first identifier.
LEMMA FirstType == First \in ChunkIDs
BY DEF First, ChunkIDs, Positions

\* The client comes with an empty buffer and asks for nothing.
LEMMA Initial == Init => IInv
<1> SUFFICES ASSUME Init PROVE IInv
  OBVIOUS
<1>1. PICK b \in Unfilled : ring = JoinedRing(b)
  BY DEF Init
<1>2. ring \in Buffers /\ Stored
  BY <1>1, JoinedType DEF Stored
<1>3. tip \in ChunkIDs /\ bootTip \in ChunkIDs
  BY ChunkType DEF Init
<1>4. /\ buffer \in Buffers /\ \A pos \in Positions : ~buffer[pos].full
  BY DEF Init, Unfilled, Buffers, Slot
<1>5. requestList \in Seq(Request) /\ DOMAIN requestList = {}
  BY DEF Init
<1>6. needTip \in BOOLEAN /\ failures \in 0 .. MaxFailures
  BY DEF Init
<1>7. TypeOK
  BY <1>2, <1>3, <1>4, <1>5, <1>6, FirstType DEF Init, TypeOK
<1>8. Fresh /\ Patience /\ NothingPastLatest
  BY <1>4, <1>5 DEF Init, Fresh, Patience, NothingPastLatest
<1> QED BY <1>2, <1>7, <1>8 DEF IInv
-----------------------------------------------------------------------------
(***************************************************************************)
(* The steps keep it.                                                      *)
(***************************************************************************)

\* A chunk that is not past the latest one is not past a later one.
LEMMA LaterStill ==
  ASSUME NEW n \in Nat, NEW pos \in Positions, NEW a \in ChunkIDs, NEW b \in ChunkIDs,
         Before(a, b), NotAfter([cycle |-> n, position |-> pos], a)
  PROVE  NotAfter([cycle |-> n, position |-> pos], b)
<1> DEFINE c == [cycle |-> n, position |-> pos]
<1>1. c.cycle = n /\ c.position = pos /\ pos \in Nat
  BY DEF Positions
<1>2. NotAfter(c, b)
  <2>1. c.cycle < b.cycle \/ (c.cycle = b.cycle /\ c.position < b.position)
    <3>1. c = a => c.cycle = a.cycle /\ c.position = a.position
      OBVIOUS
    <3>2. \/ c.cycle < a.cycle
          \/ c.cycle = a.cycle /\ c.position <= a.position
      BY <1>1, <3>1, Fields DEF NotAfter, Before
    <3> HIDE DEF c
    <3> QED BY <1>1, <3>2, Fields DEF Before
  <2> QED BY <2>1 DEF NotAfter, Before
<1> QED BY <1>2

\* NothingPastLatest rests on the slots of the buffer, latest and recv.
LEMMA PastKept ==
  ASSUME NothingPastLatest, latest' = latest, recv' = recv \/ recv.pc # "latest",
         \A pos \in Positions : /\ buffer'[pos].id = buffer[pos].id
                                /\ buffer'[pos].full = buffer[pos].full
  PROVE  NothingPastLatest'
<1> SUFFICES ASSUME NEW pos \in Positions, buffer'[pos].full
             PROVE  \/ NotAfter([cycle |-> buffer'[pos].id, position |-> pos], latest')
                    \/ recv' = [pc |-> "latest",
                                chunk |-> [cycle |-> buffer'[pos].id, position |-> pos]]
  BY DEF NothingPastLatest
<1>1. \/ NotAfter([cycle |-> buffer[pos].id, position |-> pos], latest)
      \/ recv = [pc |-> "latest",
                 chunk |-> [cycle |-> buffer[pos].id, position |-> pos]]
  BY DEF NothingPastLatest
<1> QED BY <1>1

\* The server's steps: the ring keeps chunks whose cycle was written.
LEMMA ServerStep ==
  ASSUME IInv, InsertMedia \/ MoveTip \/ PingBootstrap \/ TakeTip
  PROVE  IInv'
<1>0. /\ ring \in Buffers /\ Stored /\ NothingPastLatest
      /\ tip \in ChunkIDs /\ bootTip \in ChunkIDs /\ head \in ChunkIDs \cup {NoChunk}
  BY DEF IInv, TypeOK
<1>1. UNCHANGED <<net, chunkMap, dataVars, askVars>>
  BY DEF InsertMedia, MoveTip, PingBootstrap, TakeTip
<1>2. /\ tip' \in ChunkIDs /\ bootTip' \in ChunkIDs /\ head' \in ChunkIDs \cup {NoChunk}
      /\ gen' \in {"receive", "inserted"}
  BY <1>0, IncType DEF IInv, TypeOK, InsertMedia, MoveTip, PingBootstrap, TakeTip
<1>3. ring' \in Buffers /\ Stored'
  <2>1. CASE ring' = ring
    BY <1>0, <2>1 DEF Stored
  <2>2. CASE InsertMedia
    <3>1. ring' = Put(ring, tip, FALSE) /\ tip.cycle \in 0 .. Cycles - 1
      BY <1>0, <2>2 DEF InsertMedia, ChunkIDs
    <3>2. /\ ring' \in Buffers
          /\ ring'[tip.position] = [id |-> tip.cycle, full |-> TRUE, map |-> FALSE]
          /\ \A pos \in Positions \ {tip.position} : ring'[pos] = ring[pos]
      BY <1>0, <3>1, PutType
    <3>3. ASSUME NEW pos \in Positions, ring'[pos].full
          PROVE  ring'[pos].id \in 0 .. Cycles - 1
      <4>1. CASE pos = tip.position
        <5>1. ring'[pos].id = tip.cycle
          BY <3>2, <4>1
        <5> QED BY <3>1, <5>1
      <4>2. CASE pos # tip.position
        <5>1. ring'[pos] = ring[pos]
          BY <3>2, <4>2
        <5> QED BY <1>0, <3>3, <5>1 DEF Stored
      <4> QED BY <4>1, <4>2
    <3> QED BY <3>2, <3>3 DEF Stored
  <2>3. CASE MoveTip /\ ring' # ring
    <3> DEFINE last == (tip.position - 1) % BufferSize
    <3>1. last \in Positions
      <4>1. tip.position - 1 \in Int
        BY <1>0, Fields
      <4> QED BY <4>1, ModRange DEF Positions
    <3>2. ring' = SetMap(ring, last, TRUE)
      BY <2>3 DEF MoveTip
    <3> HIDE DEF last
    <3>3. /\ ring' \in Buffers
          /\ \A pos \in Positions : ring'[pos].id = ring[pos].id /\ ring'[pos].full = ring[pos].full
      BY <1>0, <3>1, <3>2, SetMapType
    <3> QED BY <1>0, <3>3 DEF Stored
  <2> QED BY <2>1, <2>2, <2>3 DEF PingBootstrap, TakeTip
<1>4. TypeOK'
  BY <1>1, <1>2, <1>3 DEF IInv, TypeOK, dataVars, askVars
<1>5. NothingPastLatest'
  BY <1>0, <1>1, PastKept DEF dataVars
<1> QED BY <1>1, <1>3, <1>4, <1>5 DEF IInv, Fresh, Patience, askVars

\* Datagrams that are sent, or are gone.
LEMMA NetStep ==
  ASSUME IInv, net' \subseteq Datagrams, head' \in ChunkIDs \cup {NoChunk},
         chunkMap' \in [head : ChunkIDs, bits : SUBSET Positions],
         UNCHANGED <<ring, tip, gen, bootTip, dataVars, askVars>>
  PROVE  IInv'
<1>1. TypeOK'
  BY DEF IInv, TypeOK, dataVars, askVars
<1>2. NothingPastLatest'
  BY PastKept DEF IInv, dataVars
<1> QED BY <1>1, <1>2 DEF IInv, Stored, Fresh, Patience, dataVars, askVars

\* The server's map goes out.
LEMMA SendMapStep == IInv /\ SendMap => IInv'
<1> SUFFICES ASSUME IInv, SendMap PROVE IInv'
  OBVIOUS
<1> DEFINE m == [type |-> "map", head |-> head, bits |-> Bits(ring)]
<1>1. m \in Datagrams
  BY DEF SendMap, IInv, TypeOK, Datagrams, Bits
<1>2. {m} \in SUBSET Datagrams
  BY <1>1
<1>3. Send({m}) /\ head' = NoChunk
      /\ UNCHANGED <<ring, tip, gen, bootTip, chunkMap, dataVars, askVars>>
  BY DEF SendMap
<1> HIDE DEF m
<1>4. net' \subseteq Datagrams
  BY <1>2, <1>3, SendType DEF IInv
<1> QED BY <1>3, <1>4, NetStep DEF IInv, TypeOK

\* The answer to a request is a chunk.
LEMMA AnswerType ==
  ASSUME IInv, NEW c \in ChunkIDs
  PROVE  Answer(c) \subseteq Datagrams
<1>1. c.position \in Positions
  BY DEF ChunkIDs
<1>2. ASSUME Available(ring, c.position)
      PROVE  [cycle |-> ring[c.position].id, position |-> c.position] \in ChunkIDs
  BY <1>1, <1>2 DEF Available, IInv, Stored, ChunkIDs
<1> QED BY <1>2 DEF Answer, Datagrams

\* An answer is made of a slot that was written.
LEMMA AnswerStep ==
  ASSUME IInv, NEW q \in net, HandleRequestMessage(q)
  PROVE  IInv'
<1>1. q \in Datagrams /\ q.chunk \in ChunkIDs
  BY DEF HandleRequestMessage, IInv, TypeOK, Datagrams
<1>2. Answer(q.chunk) \subseteq Datagrams
  BY <1>1, AnswerType
<1>3. net' \subseteq Datagrams
  BY <1>2 DEF HandleRequestMessage, IInv, TypeOK
<1> QED BY <1>3, NetStep DEF HandleRequestMessage, serverVars, IInv, TypeOK

\* A map comes in.
LEMMA MapStep ==
  ASSUME IInv, NEW m \in net, StoreChunkMap(m)
  PROVE  IInv'
<1>1. m.head \in ChunkIDs /\ m.bits \in SUBSET Positions
  BY DEF StoreChunkMap, IInv, TypeOK, Datagrams
<1>2. net' \subseteq Datagrams /\ chunkMap' = [head |-> m.head, bits |-> m.bits]
  BY DEF StoreChunkMap, IInv, TypeOK
<1> QED BY <1>1, <1>2, NetStep DEF StoreChunkMap, serverVars, IInv, TypeOK

\* The request list with some requests gone.
LEMMA ThoseRequests ==
  ASSUME IInv, NEW S
  PROVE  /\ Those(requestList, S) \in Seq(Request)
         /\ Among(Those(requestList, S), requestList, S, Len(requestList))
         /\ \A j \in DOMAIN Those(requestList, S) :
              \E l \in DOMAIN requestList :
                Those(requestList, S)[j] = requestList[l] /\ requestList[l] \in S
<1>1. requestList \in Seq(Request)
  BY DEF IInv, TypeOK
<1>2. DOMAIN requestList = 1 .. Len(requestList)
  BY <1>1
<1> QED BY <1>1, <1>2, ThoseProperties DEF Among

\* A chunk is accepted and its request goes.
LEMMA AcceptStep ==
  ASSUME IInv, NEW m \in net, AcceptData(m)
  PROVE  IInv'
<1> DEFINE S == {r \in ToSet(requestList) : r.chunk # m.chunk}
<1>1. m.chunk \in ChunkIDs
  BY DEF AcceptData, IInv, TypeOK, Datagrams
<1>2. /\ net' \subseteq Datagrams /\ recv = RecvIdle
      /\ UNCHANGED <<serverVars, chunkMap, buffer, latest, requestPosition,
                     requester, failures, needTip>>
      /\ \/ UNCHANGED <<requestList, recv>>
         \/ /\ requestList' = Those(requestList, S)
            /\ recv' = [pc |-> "insert", chunk |-> m.chunk]
  BY DEF AcceptData, IInv, TypeOK
<1>3. requestList' \in Seq(Request) /\ Fresh'
  <2>1. CASE requestList' = requestList
    BY <2>1 DEF IInv, TypeOK, Fresh
  <2>2. CASE requestList' = Those(requestList, S)
    <3> HIDE DEF S
    <3> QED BY <2>2, ThoseRequests DEF IInv, Fresh
  <2> QED BY <1>2, <2>1, <2>2
<1>4. recv' \in [pc : {"insert", "latest"}, chunk : ChunkIDs] \cup {RecvIdle}
  BY <1>1, <1>2
<1>5. TypeOK'
  BY <1>2, <1>3, <1>4 DEF IInv, TypeOK, serverVars
<1>6. NothingPastLatest'
  BY <1>2, PastKept DEF IInv, RecvIdle
<1> QED BY <1>2, <1>3, <1>5, <1>6 DEF IInv, Stored, Patience, serverVars

\* The only chunk past the latest one is the one being stored.
LEMMA InsertStep == IInv /\ InsertData => IInv'
<1> SUFFICES ASSUME IInv, InsertData PROVE IInv'
  OBVIOUS
<1> DEFINE c == recv.chunk
<1>1. c \in ChunkIDs /\ recv.pc = "insert" /\ c.position \in Positions
  BY SMTT(30) DEF InsertData, IInv, TypeOK, RecvIdle, ChunkIDs
<1>2. /\ recv' = [pc |-> "latest", chunk |-> c] /\ buffer' = Put(buffer, c, TRUE)
      /\ UNCHANGED <<serverVars, net, chunkMap, latest, askVars>>
  BY DEF InsertData, IInv, TypeOK, RecvIdle
<1>3. /\ buffer' \in Buffers
      /\ buffer'[c.position] = [id |-> c.cycle, full |-> TRUE, map |-> TRUE]
      /\ \A pos \in Positions \ {c.position} : buffer'[pos] = buffer[pos]
  BY <1>1, <1>2, PutType, ZenonT(60) DEF IInv, TypeOK
<1> HIDE DEF c
<1>4. TypeOK'
  BY <1>1, <1>2, <1>3 DEF IInv, TypeOK, serverVars, askVars
<1>5. NothingPastLatest'
  <2> SUFFICES ASSUME NEW pos \in Positions, buffer'[pos].full
               PROVE  \/ NotAfter([cycle |-> buffer'[pos].id, position |-> pos], latest')
                      \/ recv' = [pc |-> "latest",
                                  chunk |-> [cycle |-> buffer'[pos].id, position |-> pos]]
    BY DEF NothingPastLatest
  <2>1. CASE pos = c.position
    <3>1. c = [cycle |-> buffer'[pos].id, position |-> pos]
      BY <1>1, <1>3, <2>1, Fields
    <3> QED BY <1>2, <3>1
  <2>2. CASE pos # c.position
    <3>1. buffer'[pos] = buffer[pos]
      BY <1>3, <2>2
    <3>2. recv # [pc |-> "latest", chunk |-> [cycle |-> buffer[pos].id, position |-> pos]]
      BY <1>1
    <3>3. NotAfter([cycle |-> buffer[pos].id, position |-> pos], latest)
      BY <3>1, <3>2 DEF IInv, NothingPastLatest
    <3> QED BY <1>2, <3>1, <3>3
  <2> QED BY <2>1, <2>2
<1> QED BY <1>2, <1>4, <1>5 DEF IInv, Stored, Fresh, Patience, serverVars, askVars

\* ... and it is no longer once latestReceivedPosition is told.
LEMMA LatestStep == IInv /\ UpdateLatest => IInv'
<1> SUFFICES ASSUME IInv, UpdateLatest PROVE IInv'
  OBVIOUS
<1> DEFINE c == recv.chunk
<1>1. c \in ChunkIDs /\ latest \in ChunkIDs
  BY DEF UpdateLatest, IInv, TypeOK, RecvIdle
<1>2. /\ recv' = RecvIdle /\ latest' = IF Before(latest, c) THEN c ELSE latest
      /\ UNCHANGED <<serverVars, net, chunkMap, buffer, askVars>>
  BY DEF UpdateLatest, Newest
<1>3. TypeOK'
  BY <1>1, <1>2 DEF IInv, TypeOK, serverVars, askVars
<1>4. NotAfter(c, latest')
  BY <1>1, <1>2, Total DEF NotAfter
<1>5. NothingPastLatest'
  <2> SUFFICES ASSUME NEW pos \in Positions, buffer[pos].full
               PROVE  NotAfter([cycle |-> buffer[pos].id, position |-> pos], latest')
    BY <1>2 DEF NothingPastLatest
  <2>1. buffer[pos].id \in Nat
    <3>1. buffer[pos].id \in InitIDs \cup 0 .. Cycles - 1
      BY DEF IInv, TypeOK, Buffers, Slot
    <3>2. InitIDs \cup 0 .. Cycles - 1 \subseteq Nat
      OBVIOUS
    <3> HIDE DEF Slot
    <3> QED BY <3>1, <3>2, Zenon
  <2>2. CASE recv = [pc |-> "latest",
                     chunk |-> [cycle |-> buffer[pos].id, position |-> pos]]
    BY <1>4, <2>2
  <2>3. CASE NotAfter([cycle |-> buffer[pos].id, position |-> pos], latest)
    <3> HIDE DEF c
    <3> QED BY <1>1, <1>2, <2>1, <2>3, LaterStill
  <2> QED BY <2>2, <2>3 DEF IInv, NothingPastLatest
<1> QED BY <1>2, <1>3, <1>5 DEF IInv, Stored, Fresh, Patience, serverVars, askVars

\* What is kept while only the requester's variables change.
LEMMA AskKept ==
  ASSUME IInv, UNCHANGED <<serverVars, chunkMap, dataVars>>,
         net' \subseteq Datagrams, requestPosition' \in ChunkIDs,
         requestList' \in Seq(Request), Fresh', Patience',
         requester' \in {"ask", "asked", "send", "giveUp", "clear"},
         failures' \in 0 .. MaxFailures, needTip' \in BOOLEAN
  PROVE  IInv'
<1>1. TypeOK'
  BY DEF IInv, TypeOK, serverVars, dataVars
<1>2. NothingPastLatest'
  BY PastKept DEF IInv, dataVars
<1> QED BY <1>1, <1>2 DEF IInv, Stored, serverVars

\* A chunk is asked for, or nobody has it and the failures count.
LEMMA AskStep == IInv /\ Ask => IInv'
<1> SUFFICES ASSUME IInv, Ask PROVE IInv'
  OBVIOUS
<1> DEFINE r == [chunk |-> requestPosition, ttl |-> "due", attempts |-> 0]
<1>1. /\ requestPosition \in ChunkIDs /\ requestList \in Seq(Request)
      /\ failures \in 0 .. MaxFailures /\ failures < MaxFailures
  BY DEF Ask, IInv, TypeOK, Patience
<1>2. UNCHANGED <<serverVars, net, chunkMap, dataVars, requestPosition, needTip>>
  BY DEF Ask
<1>3. r \in Request /\ r.attempts = 0
  BY <1>1 DEF Request
<1>4. CASE Candidate(requestPosition)
  <2>1. /\ requestList' = Append(requestList, r) /\ requester' = "asked"
        /\ failures' = failures
    BY <1>4 DEF Ask
  <2> HIDE DEF r
  <2>2. requestList' \in Seq(Request)
    BY <1>1, <1>3, <2>1, AppendProperties
  <2>3. Fresh'
    <3> SUFFICES ASSUME NEW i \in DOMAIN requestList', requestList'[i].ttl = "due"
                 PROVE  requestList'[i].attempts = 0
      BY DEF Fresh
    <3>1. \/ i \in DOMAIN requestList /\ requestList'[i] = requestList[i]
          \/ requestList'[i] = r
      BY <1>1, <1>3, <2>1, AppendProperties
    <3> QED BY <1>3, <3>1 DEF IInv, Fresh
  <2>4. Patience'
    BY <2>1 DEF Patience
  <2> QED BY <1>1, <1>2, <2>1, <2>2, <2>3, <2>4, AskKept DEF IInv, TypeOK
<1>5. CASE ~Candidate(requestPosition)
  <2>1. failures' = failures + 1 /\ requester' = "send" /\ UNCHANGED requestList
    BY <1>5 DEF Ask
  <2>2. failures' \in 0 .. MaxFailures /\ Fresh' /\ Patience'
    BY <1>1, <2>1 DEF IInv, Fresh, Patience
  <2> QED BY <1>2, <2>1, <2>2, AskKept DEF IInv, TypeOK
<1> QED BY <1>4, <1>5

\* The position moves on, and the slot it comes to is given free.
LEMMA NextStep == IInv /\ NextPosition => IInv'
<1> SUFFICES ASSUME IInv, NextPosition PROVE IInv'
  OBVIOUS
<1>1. requestPosition \in ChunkIDs /\ buffer \in Buffers
  BY DEF IInv, TypeOK
<1>2. /\ requester' = "send" /\ requestPosition' = IncID(requestPosition)
      /\ buffer' = SetMap(buffer, requestPosition'.position, FALSE) /\ failures' = 0
      /\ UNCHANGED <<serverVars, net, chunkMap, latest, recv, requestList, needTip>>
  BY DEF NextPosition
<1>3. requestPosition' \in ChunkIDs /\ requestPosition'.position \in Positions
  BY <1>1, <1>2, IncType DEF ChunkIDs
<1>4. /\ buffer' \in Buffers
      /\ \A pos \in Positions : buffer'[pos].id = buffer[pos].id /\ buffer'[pos].full = buffer[pos].full
  BY <1>1, <1>2, <1>3, SetMapType, ZenonT(60)
<1>5. NothingPastLatest'
  BY <1>2, <1>4, PastKept DEF IInv
<1>6. TypeOK'
  <2>1. failures' \in 0 .. MaxFailures
    BY <1>2
  <2>2. requester' \in {"ask", "asked", "send", "giveUp", "clear"}
    BY <1>2
  <2> QED BY <1>2, <1>3, <1>4, <2>1, <2>2 DEF IInv, TypeOK, serverVars
<1>7. Fresh' /\ Patience' /\ Stored'
  BY <1>2 DEF IInv, Fresh, Stored, Patience, serverVars
<1> QED BY <1>5, <1>6, <1>7 DEF IInv

\* A request that is sent once more.
LEMMA AgainRequest ==
  ASSUME NEW r \in Request, NEW n \in 0 .. MaxAttempts
  PROVE  /\ [r EXCEPT !.ttl = "waiting", !.attempts = n] \in Request
         /\ [r EXCEPT !.ttl = "waiting", !.attempts = n].ttl = "waiting"
         /\ [r EXCEPT !.ttl = "waiting", !.attempts = n].chunk = r.chunk
BY DEF Request

\* Every request the requester keeps was in its list; it waits from now on, and
\* has been sent once more or not at all.
LEMMA PedidosList ==
  ASSUME IInv, FazPedidos
  PROVE  /\ requestList' \in Seq(Request)
         /\ DOMAIN requestList' = DOMAIN Those(requestList,
              {r \in ToSet(requestList) : ~TriedOut(r)})
         /\ \A i \in DOMAIN requestList' :
              /\ requestList'[i].ttl = "waiting"
              /\ requestList'[i].chunk =
                   Those(requestList, {r \in ToSet(requestList) : ~TriedOut(r)})[i].chunk
<1> DEFINE S == {r \in ToSet(requestList) : ~TriedOut(r)}
           kept == Those(requestList, S)
           sent == {r \in ToSet(kept) : r.ttl # "waiting" /\ Candidate(r.chunk)}
           body(i) == IF kept[i] \in sent
                      THEN [kept[i] EXCEPT !.ttl = "waiting", !.attempts = kept[i].attempts + 1]
                      ELSE [kept[i] EXCEPT !.ttl = "waiting"]
<1>1. kept \in Seq(Request) /\ DOMAIN kept = 1 .. Len(kept) /\ Len(kept) \in Nat
  BY ThoseRequests
<1>2. requestList' = [i \in DOMAIN kept |-> body(i)]
  BY DEF FazPedidos
<1>3. ASSUME NEW i \in DOMAIN kept
      PROVE  /\ body(i) \in Request /\ body(i).ttl = "waiting"
             /\ body(i).chunk = kept[i].chunk
  <2>1. kept[i] \in Request
    BY <1>1, <1>3
  <2>2. PICK l \in DOMAIN requestList : kept[i] = requestList[l] /\ requestList[l] \in S
    BY <1>3, ThoseRequests
  <2>3. ASSUME kept[i] \in sent PROVE kept[i].attempts < MaxAttempts
    <3>1. kept[i].ttl = "due" \/ kept[i].ttl = "over"
      BY <2>1, <2>3 DEF Request
    <3>2. kept[i].ttl = "due" => kept[i].attempts = 0
      BY <2>2 DEF IInv, Fresh
    <3>3. ~TriedOut(kept[i]) /\ kept[i].attempts \in Nat
      BY <2>1, <2>2 DEF Request
    <3> QED BY <3>1, <3>2, <3>3 DEF TriedOut
  <2> HIDE DEF kept, sent
  <2>4. /\ [kept[i] EXCEPT !.ttl = "waiting"] \in Request
        /\ [kept[i] EXCEPT !.ttl = "waiting"].ttl = "waiting"
        /\ [kept[i] EXCEPT !.ttl = "waiting"].chunk = kept[i].chunk
    BY <2>1 DEF Request
  <2>5. ASSUME kept[i] \in sent
        PROVE  /\ [kept[i] EXCEPT !.ttl = "waiting", !.attempts = kept[i].attempts + 1] \in Request
               /\ [kept[i] EXCEPT !.ttl = "waiting", !.attempts = kept[i].attempts + 1].ttl = "waiting"
               /\ [kept[i] EXCEPT !.ttl = "waiting", !.attempts = kept[i].attempts + 1].chunk
                    = kept[i].chunk
    <3>1. kept[i].attempts + 1 \in 0 .. MaxAttempts
      BY <2>1, <2>3, <2>5 DEF Request
    <3> QED BY <2>1, <3>1, AgainRequest
  <2> QED BY <2>4, <2>5
<1> HIDE DEF body, kept
<1>4. requestList' \in Seq(Request)
  BY <1>1, <1>2, <1>3
<1> QED BY <1>2, <1>3, <1>4 DEF kept

\* Requests are sent again or given up, and the requester gives up in time.
LEMMA PedidosStep == IInv /\ FazPedidos => IInv'
<1> SUFFICES ASSUME IInv, FazPedidos PROVE IInv'
  OBVIOUS
<1> DEFINE S == {r \in ToSet(requestList) : ~TriedOut(r)}
           kept == Those(requestList, S)
           sent == {r \in ToSet(kept) : r.ttl # "waiting" /\ Candidate(r.chunk)}
           sends == {[type |-> "request", chunk |-> r.chunk] : r \in sent}
<1>1. kept \in Seq(Request)
  BY ThoseRequests
<1>2. ToSet(kept) \subseteq Request
  BY <1>1 DEF ToSet
<1>3. \A r \in sent : r.chunk \in ChunkIDs
  BY <1>2 DEF Request
<1>4. sends \in SUBSET Datagrams
  <2>1. ASSUME NEW r \in sent PROVE [type |-> "request", chunk |-> r.chunk] \in Datagrams
    <3> HIDE DEF sent
    <3> QED BY <1>3 DEF Datagrams
  <2> HIDE DEF sent
  <2> QED BY <2>1
<1>5. Send(sends)
  BY DEF FazPedidos
<1> HIDE DEF sends
<1>6. net' \subseteq Datagrams
  BY <1>4, <1>5, SendType DEF IInv
<1>7. requestList' \in Seq(Request) /\ Fresh'
  BY PedidosList DEF Fresh
<1>8. /\ requester' = IF failures >= MaxFailures THEN "giveUp" ELSE "ask"
      /\ UNCHANGED <<serverVars, chunkMap, dataVars, requestPosition, failures, needTip>>
  BY DEF FazPedidos
<1>9. failures \in 0 .. MaxFailures
  BY DEF IInv, TypeOK
<1>10. Patience'
  BY <1>8, <1>9 DEF Patience
<1> QED BY <1>6, <1>7, <1>8, <1>9, <1>10, AskKept DEF IInv, TypeOK

\* The time of a request is over; its chunk is the same.
LEMMA TimeStep ==
  ASSUME IInv, NEW i \in DOMAIN requestList, TimeOver(i)
  PROVE  IInv' /\ requestList' \in Seq(Request) /\ DOMAIN requestList' = DOMAIN requestList
         /\ \A j \in DOMAIN requestList : requestList'[j].chunk = requestList[j].chunk
<1> DEFINE r == [requestList[i] EXCEPT !.ttl = "over"]
<1>1. requestList \in Seq(Request) /\ requestList[i] \in Request
  BY DEF IInv, TypeOK
<1>2. r \in Request /\ r.ttl = "over" /\ r.chunk = requestList[i].chunk
  BY <1>1 DEF Request
<1>3. /\ requestList' = [requestList EXCEPT ![i] = r]
      /\ UNCHANGED <<serverVars, net, chunkMap, dataVars, requestPosition, requester,
                     failures, needTip>>
  BY DEF TimeOver
<1> HIDE DEF r
<1>4. /\ requestList' \in Seq(Request) /\ DOMAIN requestList' = DOMAIN requestList
      /\ requestList'[i] = r
      /\ \A j \in DOMAIN requestList \ {i} : requestList'[j] = requestList[j]
  BY <1>1, <1>2, <1>3, ExceptSeq
<1>5. Fresh' /\ Patience'
  BY <1>2, <1>3, <1>4 DEF IInv, Fresh, Patience
<1>6. IInv'
  BY <1>3, <1>4, <1>5, AskKept DEF IInv, TypeOK
<1>7. \A j \in DOMAIN requestList : requestList'[j].chunk = requestList[j].chunk
  BY <1>2, <1>4
<1> QED BY <1>4, <1>6, <1>7

\* No request, no condition on requests.
LEMMA EmptyList ==
  /\ <<>> \in Seq(Request) /\ DOMAIN <<>> = {}
  /\ requestList' = <<>> => Fresh'
BY DEF Fresh

\* The requester starts over.
LEMMA RestartStep ==
  ASSUME IInv, GiveUp \/ ClearRequests
  PROVE  IInv'
<1>1. CASE GiveUp
  <2>1. Fresh' /\ Patience' /\ failures' \in 0 .. MaxFailures
    BY <1>1 DEF GiveUp, IInv, Fresh, Patience
  <2> QED BY <1>1, <2>1, AskKept DEF GiveUp, StartOver, IInv, TypeOK
<1>2. CASE ClearRequests
  <2>1. requestList' \in Seq(Request) /\ Fresh'
    BY <1>2, EmptyList DEF ClearRequests, NoRequests
  <2>2. Patience'
    BY <1>2 DEF ClearRequests, IInv, Patience
  <2> QED BY <1>2, <2>1, <2>2, AskKept DEF ClearRequests, IInv, TypeOK
<1> QED BY <1>1, <1>2

\* The bootstrap's reply never sends the requests past the tip it knows.
LEMMA ReplyPosition ==
  ASSUME IInv, TipReply
  PROVE  requestPosition' \in ChunkIDs /\ NotAfter(requestPosition', bootTip)
<1>1. bootTip \in ChunkIDs
  BY DEF IInv, TypeOK
<1>2. CASE bootTip.cycle = 0 /\ bootTip.position < TipOffset
  <2>1. requestPosition' = First
    BY <1>2 DEF TipReply
  <2>2. NotAfter(First, bootTip)
    BY <1>1, <1>2, Fields DEF NotAfter, Before, First
  <2> QED BY <2>1, <2>2, FirstType
<1>3. CASE ~(bootTip.cycle = 0 /\ bootTip.position < TipOffset)
  <2>1. requestPosition' = MinusInt(bootTip, TipOffset)
    BY <1>3 DEF TipReply
  <2>2. bootTip.cycle > 0 \/ TipOffset <= bootTip.position
    BY <1>1, <1>3, Fields
  <2> QED BY <1>1, <2>1, <2>2, MinusType
<1> QED BY <1>2, <1>3

\* The bootstrap's reply sets a position that is an identifier.
LEMMA ReplyStep == IInv /\ TipReply => IInv'
<1> SUFFICES ASSUME IInv, TipReply PROVE IInv'
  OBVIOUS
<1>1. requestPosition' \in ChunkIDs
  BY ReplyPosition
<1>2. Fresh' /\ Patience'
  BY DEF TipReply, IInv, Fresh, Patience
<1> QED BY <1>1, <1>2, AskKept DEF TipReply, IInv, TypeOK

\* The player's reset drops the requests and changes nothing else here.
LEMMA ResetStep ==
  ASSUME IInv, requestList' = <<>>,
         UNCHANGED <<serverVars, net, chunkMap, dataVars, requestPosition, requester,
                     failures, needTip>>
  PROVE  IInv'
<1>1. Fresh' /\ Patience' /\ requestList' \in Seq(Request)
  BY EmptyList DEF IInv, Patience
<1> QED BY <1>1, AskKept DEF IInv, TypeOK

\* Every step of the exchange keeps the invariant.
LEMMA StepIInv == IInv /\ [Next]_vars => IInv'
<1> SUFFICES ASSUME IInv, [Next]_vars PROVE IInv'
  OBVIOUS
<1>1. CASE UNCHANGED vars
  BY <1>1, NetStep DEF vars, serverVars, IInv, TypeOK
<1> QED
  BY <1>1, ServerStep, SendMapStep, AnswerStep, MapStep, AcceptStep, InsertStep, LatestStep,
     AskStep, NextStep, PedidosStep, TimeStep, RestartStep, ReplyStep
     DEF Next, Exchange, Server, Receive, Requester

\* The invariant of the exchange holds.
LEMMA Invariance == Spec => []IInv
BY Initial, StepIInv, PTL DEF Spec

\* Type correctness of the server, the client and what is between them; with
\* it, no answer reads a slot of MediaBuffer that was never written, no
\* request is sent more than maxRequestAttempt times, and the requester gives
\* up in time.
THEOREM TypeCorrect == Spec => []TypeOK
BY Invariance, PTL DEF IInv

\* The client never has a chunk past latestReceivedPosition, but for the one
\* HandleDataMessage is storing.
THEOREM LatestTheorem == Spec => []NothingPastLatest
BY Invariance, PTL DEF IInv
-----------------------------------------------------------------------------
(***************************************************************************)
(* The order of the requests, and the player.  Both hold as long as the     *)
(* cycle, a 32-bit number, has not started again: Unwrapped says that the   *)
(* stream is shorter than that.                                             *)
(***************************************************************************)
Unwrapped == /\ Joined + 2 < BufferSize * Cycles
             /\ LastTip + 2 < BufferSize * Cycles

\* There is room for two more chunks after c.
Early(c) == c # LastID /\ IncID(c) # LastID

\* Whatever is not after an early chunk is early too.
LEMMA EarlyDown ==
  ASSUME NEW a \in ChunkIDs, NEW b \in ChunkIDs, NotAfter(a, b), Early(b)
  PROVE  Early(a) /\ Before(a, IncID(a))
<1>1. a # LastID /\ NotAfter(IncID(a), IncID(b))
  BY IncMonotonic DEF Early
<1>2. IncID(a) # LastID
  BY <1>1, IncType, IncMonotonic DEF Early
<1> QED BY <1>1, <1>2, IncIncreases DEF Early

\* The places of the stream that have room for two more.
LEMMA EarlyIndex ==
  ASSUME NEW c \in ChunkIDs, Index(c) + 2 < BufferSize * Cycles
  PROVE  Early(c)
<1> DEFINE B == BufferSize
           C == Cycles
           y == c.cycle
           p == c.position
<1>1. /\ B \in Nat \ {0} /\ C \in Nat \ {0} /\ y \in Nat /\ p \in Nat
      /\ y < C /\ p < B /\ Index(c) = y * B + p
  BY Fields DEF Index
<1>2. B * C - 1 = (C - 1) * B + (B - 1) /\ (C - 1) * B = B * C - B
  BY <1>1, Z3
<1>3. c # LastID
  <2>1. ASSUME c = LastID PROVE Index(c) = (C - 1) * B + (B - 1)
    <3>1. y = C - 1 /\ p = B - 1
      BY <2>1 DEF LastID
    <3> QED BY <1>1, <3>1
  <2>2. Index(c) # B * C - 1
    <3> HIDE DEF B, C
    <3>1. B * C \in Int /\ Index(c) \in Int
      BY <1>1, Z3
    <3> QED BY <3>1 DEF B, C
  <2> QED BY <1>2, <2>1, <2>2
<1>4. IncID(c) # LastID
  <2> SUFFICES ASSUME IncID(c) = LastID PROVE FALSE
    OBVIOUS
  <2>1. CASE p + 1 >= B
    <3>1. (y + 1) % C = C - 1 /\ B = 1 /\ p = 0
      <4>1. IncID(c).cycle = (y + 1) % C /\ IncID(c).position = 0
        BY <2>1 DEF IncID
      <4>2. LastID.cycle = C - 1 /\ LastID.position = B - 1
        BY DEF LastID
      <4> QED BY <1>1, <2>1, <4>1, <4>2
    <3>2. y # C - 1
      BY <1>1, <1>3, <3>1 DEF LastID, ChunkIDs
    <3>3. (y + 1) % C = y + 1
      <4>1. y + 1 \in 0 .. C - 1
        BY <1>1, <3>2
      <4> QED BY <4>1, SmallMod
    <3>4. y = C - 2 /\ Index(c) = y /\ B * C = C
      BY <1>1, <3>1, <3>3, Z3
    <3> QED BY <1>1, <3>4
  <2>2. CASE ~(p + 1 >= B)
    <3>1. IncID(c).cycle = y /\ IncID(c).position = p + 1
      BY <2>2 DEF IncID, ChunkIDs
    <3>2. y = C - 1 /\ p = B - 2
      BY <1>1, <3>1 DEF LastID
    <3>3. Index(c) = (C - 1) * B + (B - 2)
      BY <1>1, <3>2
    <3>4. Index(c) = B * C - 2
      <4>1. B * C \in Int
        BY <1>1, Z3
      <4> HIDE DEF B, C
      <4> DEFINE q == (C - 1) * B
                 s == B * C
      <4>2. q = s - B /\ Index(c) = q + (B - 2) /\ s \in Int /\ B \in Int
        BY <1>1, <1>2, <3>3, <4>1
      <4> HIDE DEF q, s
      <4>3. Index(c) = s - 2
        BY <4>2
      <4> QED BY <4>3 DEF s
    <3> QED BY <1>1, <3>4
  <2> QED BY <2>1, <2>2
<1> QED BY <1>3, <1>4 DEF Early

\* The identifier of a place of the stream is at that place.
LEMMA ChunkIndex ==
  ASSUME NEW n \in Nat, n < BufferSize * Cycles
  PROVE  Index(Chunk(n)) = n
<1> DEFINE q == n \div BufferSize
           r == n % BufferSize
<1>1. q \in Nat /\ r \in 0 .. BufferSize - 1 /\ n = BufferSize * q + r
  <2>1. n \in Int
    OBVIOUS
  <2> QED BY <2>1, DivMod, ModRange
<1> HIDE DEF q, r
<1>2. q < Cycles
  <2>1. BufferSize * q < BufferSize * Cycles
    BY <1>1, Z3
  <2> QED BY <1>1, <2>1, Z3
<1>3. q % Cycles = q
  <2>1. q \in 0 .. Cycles - 1
    BY <1>1, <1>2
  <2> QED BY <2>1, SmallMod
<1>4. Chunk(n) = [cycle |-> q, position |-> r]
  BY <1>3 DEF Chunk, q, r
<1>5. q * BufferSize = BufferSize * q
  BY <1>1, Z3
<1> QED BY <1>1, <1>4, <1>5 DEF Index

\* operator++ goes to the next place.
LEMMA IncIndex ==
  ASSUME NEW c \in ChunkIDs, c # LastID
  PROVE  Index(IncID(c)) = Index(c) + 1 /\ Index(c) \in Nat
<1>1. /\ c.cycle \in Nat /\ c.position \in Nat /\ c.cycle < Cycles /\ c.position < BufferSize
  BY Fields
<1>2. CASE c.position + 1 >= BufferSize
  <2>1. c.position = BufferSize - 1
    BY <1>1, <1>2
  <2>2. c.cycle # Cycles - 1
    BY <2>1, Fields DEF LastID
  <2>3. (c.cycle + 1) % Cycles = c.cycle + 1
    <3>1. c.cycle + 1 \in 0 .. Cycles - 1
      BY <1>1, <2>2
    <3> QED BY <3>1, SmallMod
  <2>4. IncID(c).cycle = c.cycle + 1 /\ IncID(c).position = 0
    BY <1>2, <2>3 DEF IncID
  <2>5. (c.cycle + 1) * BufferSize = c.cycle * BufferSize + BufferSize
    BY <1>1, Z3
  <2>6. c.cycle * BufferSize \in Nat
    BY <1>1, Z3
  <2> DEFINE q == c.cycle * BufferSize
  <2>7. Index(IncID(c)) = q + BufferSize /\ Index(c) = q + c.position /\ q \in Nat
    BY <2>4, <2>5, <2>6 DEF Index
  <2> HIDE DEF q
  <2> QED BY <1>1, <2>1, <2>7
<1>3. CASE ~(c.position + 1 >= BufferSize)
  <2>1. IncID(c).cycle = c.cycle /\ IncID(c).position = c.position + 1
    BY <1>3 DEF IncID, ChunkIDs
  <2> DEFINE q == c.cycle * BufferSize
  <2>2. Index(IncID(c)) = q + (c.position + 1) /\ Index(c) = q + c.position /\ q \in Nat
    <3>1. q \in Nat
      BY <1>1, Z3
    <3> QED BY <2>1, <3>1 DEF Index
  <2> HIDE DEF q
  <2> QED BY <1>1, <2>2
<1> QED BY <1>2, <1>3
-----------------------------------------------------------------------------
(***************************************************************************)
(* The invariant of the requests and the player.                           *)
(***************************************************************************)

\* While the tip is awaited there is no request in the list, or it is about to
\* be emptied: the reply can move the request position.
Emptied == needTip => \/ requester = "clear"
                      \/ requester = "ask" /\ requestList = <<>>

\* The chunks in the list s are early, in order and before p.
AllEarly(s)   == \A i \in DOMAIN s : Early(s[i].chunk)
Ordered(s, p) == \A i \in DOMAIN s : /\ Before(s[i].chunk, p)
                                     /\ \A j \in 1 .. i - 1 : Before(s[j].chunk, s[i].chunk)

\* Every identifier the server, the client and the network have is early.
EarlyServer == Early(tip) /\ Early(bootTip) /\ (head # NoChunk => Early(head))
EarlyNet    == \A m \in net : m.type = "map" => Early(m.head)
EarlyData   == Early(latest) /\ (recv # RecvIdle => Early(recv.chunk))
Inside      == /\ EarlyServer /\ EarlyNet /\ Early(chunkMap.head) /\ EarlyData
               /\ AllEarly(requestList) /\ requestPosition # LastID /\ ToAsk # LastID

\* The requests in t are requests of s, in the order of s.
Drawn(t, s) ==
  /\ \A j \in DOMAIN t : \E l \in DOMAIN s : t[j].chunk = s[l].chunk
  /\ \A i, j \in DOMAIN t : i < j =>
       \E k, l \in DOMAIN s : k < l /\ t[i].chunk = s[k].chunk /\ t[j].chunk = s[l].chunk

AskInv == IInv /\ Emptied /\ Inside /\ RequestsOrdered

\* RequestsOrdered in terms of the list and the chunk to ask for next.
LEMMA OrderedForm ==
  /\ RequestsOrdered <=> (requester # "clear" => Ordered(requestList, ToAsk))
  /\ RequestsOrdered' <=> (requester' # "clear" => Ordered(requestList', ToAsk'))
BY DEF RequestsOrdered, Ordered

\* A list drawn from an ordered one is ordered.
LEMMA DrawnOrdered ==
  ASSUME NEW s \in Seq(Request), NEW t \in Seq(Request), NEW p, Drawn(t, s)
  PROVE  /\ AllEarly(s) => AllEarly(t)
         /\ Ordered(s, p) => Ordered(t, p)
<1>1. /\ DOMAIN s = 1 .. Len(s) /\ DOMAIN t = 1 .. Len(t)
      /\ Len(s) \in Nat /\ Len(t) \in Nat
  OBVIOUS
<1>2. AllEarly(s) => AllEarly(t)
  BY DEF Drawn, AllEarly
<1>3. ASSUME Ordered(s, p) PROVE Ordered(t, p)
  <2>1. ASSUME NEW i \in DOMAIN t PROVE Before(t[i].chunk, p)
    BY <1>3 DEF Drawn, Ordered
  <2>2. ASSUME NEW i \in DOMAIN t, NEW j \in 1 .. i - 1
        PROVE  Before(t[j].chunk, t[i].chunk)
    <3>1. j \in DOMAIN t /\ j < i
      BY <1>1
    <3>2. PICK k \in DOMAIN s, l \in DOMAIN s :
            k < l /\ t[j].chunk = s[k].chunk /\ t[i].chunk = s[l].chunk
      BY <3>1 DEF Drawn
    <3>3. k \in 1 .. l - 1
      BY <1>1, <3>2
    <3>4. Before(s[k].chunk, s[l].chunk)
      BY <1>3, <3>3 DEF Ordered
    <3> QED BY <3>2, <3>4
  <2> QED BY <2>1, <2>2 DEF Ordered
<1> QED BY <1>2, <1>3

\* A list whose chunks are those of another one is drawn from it, and so are
\* the empty list and what Those keeps.
LEMMA DrawnSame ==
  ASSUME NEW s \in Seq(Request), NEW t \in Seq(Request), DOMAIN t = DOMAIN s,
         \A j \in DOMAIN s : t[j].chunk = s[j].chunk
  PROVE  Drawn(t, s)
BY DEF Drawn

\* The empty list is drawn from every list.
LEMMA DrawnEmpty ==
  ASSUME NEW s
  PROVE  Drawn(<<>>, s)
BY DEF Drawn

\* What Those keeps is drawn from the list.
LEMMA DrawnThose ==
  ASSUME IInv, NEW S
  PROVE  Drawn(Those(requestList, S), requestList)
<1> DEFINE t == Those(requestList, S)
<1>1. Among(t, requestList, S, Len(requestList))
  BY ThoseRequests
<1>2. DOMAIN requestList = 1 .. Len(requestList)
  BY DEF IInv, TypeOK
<1> HIDE DEF t
<1>3. Drawn(t, requestList)
  BY <1>1, <1>2 DEF Among, Drawn
<1> QED BY <1>3 DEF t

\* The requester appends a request: it is the first one past the others.
LEMMA AppendOrdered ==
  ASSUME NEW s \in Seq(Request), NEW r \in Request, NEW p \in ChunkIDs, Ordered(s, r.chunk),
         AllEarly(s), Early(r.chunk), Before(r.chunk, p)
  PROVE  AllEarly(Append(s, r)) /\ Ordered(Append(s, r), p)
<1> DEFINE u == Append(s, r)
<1>1. /\ u \in Seq(Request) /\ Len(u) = Len(s) + 1 /\ u[Len(u)] = r
      /\ DOMAIN u = 1 .. Len(s) + 1 /\ DOMAIN s = 1 .. Len(s) /\ Len(s) \in Nat
      /\ \A i \in DOMAIN s : u[i] = s[i]
  BY AppendProperties
<1>2. \A i \in DOMAIN u : i \in DOMAIN s \/ i = Len(u)
  BY <1>1
<1>3. ASSUME NEW i \in DOMAIN s PROVE s[i].chunk \in ChunkIDs
  <2>1. s[i] \in Request
    BY <1>3, <1>1
  <2> QED BY <2>1 DEF Request
<1>4. r.chunk \in ChunkIDs
  BY DEF Request
<1> HIDE DEF u
<1>5. AllEarly(u)
  BY <1>1, <1>2 DEF AllEarly
<1>6. ASSUME NEW i \in DOMAIN u
      PROVE  Before(u[i].chunk, p) /\ \A j \in 1 .. i - 1 : Before(u[j].chunk, u[i].chunk)
  <2>1. CASE i \in DOMAIN s
    <3>1. Before(s[i].chunk, r.chunk)
      BY <2>1 DEF Ordered
    <3>2. Before(s[i].chunk, p)
      BY <1>3, <1>4, <2>1, <3>1, Transitive DEF NotAfter
    <3>3. \A j \in 1 .. i - 1 : j \in DOMAIN s
      BY <1>1, <2>1
    <3>4. \A j \in 1 .. i - 1 : Before(s[j].chunk, s[i].chunk)
      BY <2>1 DEF Ordered
    <3> QED BY <1>1, <2>1, <3>2, <3>3, <3>4
  <2>2. CASE i = Len(u)
    <3>1. \A j \in 1 .. i - 1 : j \in DOMAIN s
      BY <1>1, <2>2
    <3>2. \A j \in DOMAIN s : Before(s[j].chunk, r.chunk)
      BY DEF Ordered
    <3> QED BY <1>1, <2>2, <3>1, <3>2
  <2> QED BY <1>2, <2>1, <2>2
<1>7. Ordered(u, p)
  BY <1>6 DEF Ordered
<1> QED BY <1>5, <1>7 DEF u
-----------------------------------------------------------------------------
(***************************************************************************)
(* The steps keep the requests in order.                                   *)
(***************************************************************************)

\* A step that appends no request draws the list from what it was.
LEMMA ListDrawn ==
  ASSUME IInv,
         \/ requestList' = requestList
         \/ requestList' = <<>>
         \/ \E m \in net : AcceptData(m)
         \/ FazPedidos
         \/ \E i \in DOMAIN requestList : TimeOver(i)
  PROVE  requestList \in Seq(Request) /\ Drawn(requestList', requestList)
<1>1. requestList \in Seq(Request)
  BY DEF IInv, TypeOK
<1>2. CASE requestList' = requestList
  BY <1>1, <1>2, DrawnSame
<1>3. CASE requestList' = <<>>
  BY <1>1, <1>3, DrawnEmpty
<1>4. ASSUME NEW m \in net, AcceptData(m) PROVE Drawn(requestList', requestList)
  <2> DEFINE S == {r \in ToSet(requestList) : r.chunk # m.chunk}
  <2>1. requestList' = Those(requestList, S) \/ requestList' = requestList
    BY <1>4 DEF AcceptData
  <2> HIDE DEF S
  <2> QED BY <1>1, <2>1, DrawnThose, DrawnSame
<1>5. CASE FazPedidos
  <2> DEFINE S == {r \in ToSet(requestList) : ~TriedOut(r)}
             t == Those(requestList, S)
  <2>1. /\ DOMAIN requestList' = DOMAIN t
        /\ \A i \in DOMAIN t : requestList'[i].chunk = t[i].chunk
    BY <1>5, PedidosList
  <2> HIDE DEF S
  <2>2. Drawn(t, requestList)
    BY DrawnThose
  <2> HIDE DEF t
  <2> QED BY <1>1, <2>1, <2>2 DEF Drawn
<1>6. ASSUME NEW i \in DOMAIN requestList, TimeOver(i) PROVE Drawn(requestList', requestList)
  BY <1>1, <1>6, TimeStep, DrawnSame
<1> QED BY <1>1, <1>2, <1>3, <1>4, <1>5, <1>6

\* What a step of the exchange or the player does to the requests: nothing, or
\* one of these.
LEMMA AskCases ==
  ASSUME [PlayNext]_allVars
  PROVE  \/ UNCHANGED askVars
         \/ \E m \in net : AcceptData(m)
         \/ Ask \/ NextPosition \/ FazPedidos \/ GiveUp \/ ClearRequests
         \/ \E i \in DOMAIN requestList : TimeOver(i)
         \/ TipReply
         \/ CheckReset
<1>1. CASE UNCHANGED allVars
  BY <1>1 DEF allVars, baseVars, vars
<1>2. CASE Deliver \/ Advance \/ Miss \/ Wait
  BY <1>2 DEF Deliver, Advance, Miss, Wait, baseVars, vars
<1>3. CASE InsertMedia \/ MoveTip \/ PingBootstrap \/ TakeTip \/ SendMap
           \/ InsertData \/ UpdateLatest
  BY <1>3 DEF InsertMedia, MoveTip, PingBootstrap, TakeTip, SendMap, InsertData, UpdateLatest
<1>4. CASE \E m \in net : HandleRequestMessage(m) \/ StoreChunkMap(m)
  BY <1>4 DEF HandleRequestMessage, StoreChunkMap
<1> QED BY <1>1, <1>2, <1>3, <1>4
        DEF PlayNext, Player, StartReply, Exchange, Server, Receive, Requester

\* The next chunk to ask for, when a partner has it, has room after it.
LEMMA AskEarly ==
  ASSUME AskInv, Candidate(requestPosition)
  PROVE  /\ requestPosition \in ChunkIDs /\ Early(requestPosition)
         /\ Before(requestPosition, IncID(requestPosition))
         /\ IncID(requestPosition) # LastID /\ IncID(requestPosition) \in ChunkIDs
<1>1. requestPosition \in ChunkIDs /\ chunkMap.head \in ChunkIDs
  BY DEF AskInv, IInv, TypeOK
<1>2. NotAfter(requestPosition, chunkMap.head) /\ Early(chunkMap.head)
  BY DEF AskInv, Inside, Candidate, WithinCycle
<1>3. Early(requestPosition)
  BY <1>1, <1>2, EarlyDown
<1> QED BY <1>1, <1>3, IncIncreases, IncType DEF Early

\* What a step keeps of the requests.
RequestsGood == /\ Emptied' /\ RequestsOrdered' /\ AllEarly(requestList')
                /\ requestPosition' # LastID /\ ToAsk' # LastID
                /\ TipReply \/ NotAfter(requestPosition, requestPosition')

\* The requests stay early, in order and before the request position, and the
\* position moves forward only, but for the bootstrap's reply.
LEMMA RequestsStep ==
  ASSUME AskInv, IInv', [PlayNext]_allVars
  PROVE  RequestsGood
<1>0. /\ IInv /\ Emptied /\ AllEarly(requestList) /\ requestPosition # LastID /\ ToAsk # LastID
      /\ requestList \in Seq(Request) /\ requestList' \in Seq(Request)
      /\ requestPosition \in ChunkIDs /\ bootTip \in ChunkIDs /\ Early(bootTip)
      /\ requester # "clear" => Ordered(requestList, ToAsk)
  BY OrderedForm DEF AskInv, Inside, EarlyServer, IInv, TypeOK
<1>1. ASSUME Drawn(requestList', requestList), requestPosition' = requestPosition, Emptied',
             requester = "clear" => requester' = "clear",
             requester = "asked" <=> requester' = "asked"
      PROVE  RequestsGood
  <2>0. ToAsk' = ToAsk
    BY <1>1 DEF ToAsk
  <2>1. AllEarly(requestList')
    BY <1>0, <1>1, DrawnOrdered
  <2>2. requester' # "clear" => Ordered(requestList', ToAsk')
    BY <1>0, <1>1, <2>0, DrawnOrdered
  <2> QED BY <1>0, <1>1, <2>0, <2>1, <2>2, OrderedForm DEF NotAfter, RequestsGood
<1>2. CASE UNCHANGED askVars
  <2>1. Drawn(requestList', requestList)
    BY <1>0, <1>2, ListDrawn DEF askVars
  <2>2. Emptied' /\ requestPosition' = requestPosition /\ requester' = requester
    BY <1>0, <1>2 DEF askVars, Emptied
  <2> QED BY <1>1, <2>1, <2>2
<1>3. CASE \E m \in net : AcceptData(m)
  <2>1. Drawn(requestList', requestList)
    BY <1>0, <1>3, ListDrawn
  <2>2. /\ requestList' = requestList \/ DOMAIN requestList # {}
        /\ UNCHANGED <<requestPosition, requester, failures, needTip>>
    BY <1>3 DEF AcceptData, Asked
  <2>3. Emptied'
    BY <1>0, <2>2 DEF Emptied
  <2> QED BY <1>1, <2>1, <2>2, <2>3
<1>4. CASE Ask
  <2>1. CASE Candidate(requestPosition)
    <3> DEFINE r == [chunk |-> requestPosition, ttl |-> "due", attempts |-> 0]
    <3>1. /\ requestList' = Append(requestList, r) /\ requestPosition' = requestPosition
          /\ requester = "ask" /\ requester' = "asked" /\ ~needTip /\ ~needTip'
      BY <1>4, <2>1 DEF Ask
    <3>2. r \in Request /\ r.chunk = requestPosition
      BY <1>0 DEF Request
    <3> HIDE DEF r
    <3>3. ToAsk = requestPosition /\ ToAsk' = IncID(requestPosition)
      BY <3>1 DEF ToAsk
    <3>4. AllEarly(requestList') /\ Ordered(requestList', ToAsk') /\ ToAsk' # LastID
      BY <1>0, <2>1, <3>1, <3>2, <3>3, AskEarly, AppendOrdered
    <3> QED BY <1>0, <3>1, <3>4, OrderedForm DEF Emptied, NotAfter, RequestsGood
  <2>2. CASE ~Candidate(requestPosition)
    <3>1. /\ UNCHANGED <<requestList, requestPosition>> /\ ~needTip'
          /\ requester = "ask" /\ requester' = "send"
      BY <1>4, <2>2 DEF Ask
    <3>2. Drawn(requestList', requestList)
      BY <1>0, <3>1, ListDrawn
    <3> QED BY <1>1, <3>1, <3>2 DEF Emptied
  <2> QED BY <2>1, <2>2
<1>5. CASE FazPedidos
  <2>1. Drawn(requestList', requestList)
    BY <1>0, <1>5, ListDrawn
  <2>2. /\ requester = "send" /\ requester' # "asked"
        /\ needTip' = needTip /\ requestPosition' = requestPosition
    BY <1>5 DEF FazPedidos
  <2> QED BY <1>0, <1>1, <2>1, <2>2 DEF Emptied
<1>6. CASE GiveUp
  <2>1. /\ requester = "giveUp" /\ requester' = "clear"
        /\ UNCHANGED <<requestList, requestPosition>>
    BY <1>6 DEF GiveUp
  <2>2. Drawn(requestList', requestList)
    BY <1>0, <2>1, ListDrawn
  <2> QED BY <1>1, <2>1, <2>2 DEF Emptied
<1>7. CASE ClearRequests
  <2>1. requestList' = <<>> /\ requester' = "ask" /\ requestPosition' = requestPosition
    BY <1>7 DEF ClearRequests, NoRequests
  <2>2. Ordered(requestList', ToAsk') /\ AllEarly(requestList') /\ ToAsk' = requestPosition
    BY <2>1 DEF Ordered, AllEarly, ToAsk
  <2> QED BY <1>0, <2>1, <2>2, OrderedForm DEF Emptied, NotAfter, RequestsGood
<1>8. CASE \E i \in DOMAIN requestList : TimeOver(i)
  <2>1. Drawn(requestList', requestList)
    BY <1>0, <1>8, ListDrawn
  <2>2. /\ DOMAIN requestList # {}
        /\ UNCHANGED <<requestPosition, requester, failures, needTip>>
    BY <1>8 DEF TimeOver
  <2>3. Emptied'
    BY <1>0, <2>2 DEF Emptied
  <2> QED BY <1>1, <2>1, <2>2, <2>3
<1>9. CASE TipReply
  <2>1. needTip /\ ~needTip' /\ UNCHANGED <<requestList, requester>>
    BY <1>9 DEF TipReply
  <2>2. requestPosition' \in ChunkIDs /\ NotAfter(requestPosition', bootTip)
    BY <1>0, <1>9, ReplyPosition
  <2>3. requestPosition' # LastID /\ ToAsk' = requestPosition'
    BY <1>0, <2>1, <2>2, EarlyDown DEF Early, Emptied, ToAsk
  <2>4. requester' # "clear" => Ordered(requestList', ToAsk')
    BY <1>0, <2>1 DEF Emptied, Ordered
  <2> QED BY <1>0, <1>9, <2>1, <2>3, <2>4, OrderedForm DEF Emptied, RequestsGood
<1>10. CASE CheckReset
  <2>1. /\ requestList' = <<>> \/ requestList' = requestList
        /\ UNCHANGED <<requestPosition, requester, needTip>>
    BY <1>10 DEF CheckReset
  <2>2. Drawn(requestList', requestList)
    BY <1>0, <2>1, ListDrawn
  <2>3. Emptied'
    BY <1>0, <2>1 DEF Emptied
  <2> QED BY <1>1, <2>1, <2>2, <2>3
<1>12. CASE NextPosition
  <2>1. /\ requestPosition' = IncID(requestPosition) /\ requestList' = requestList
        /\ requester = "asked" /\ requester' = "send" /\ needTip' = needTip
    BY <1>12 DEF NextPosition
  <2>2. ToAsk' = ToAsk /\ requestPosition' = ToAsk
    BY <2>1 DEF ToAsk
  <2>3. NotAfter(requestPosition, requestPosition')
    BY <1>0, <2>1, IncIncreases DEF NotAfter
  <2> QED BY <1>0, <2>1, <2>2, <2>3, OrderedForm DEF Emptied, RequestsGood
<1>11. \/ UNCHANGED askVars
       \/ \E m \in net : AcceptData(m)
       \/ Ask \/ NextPosition \/ FazPedidos \/ GiveUp \/ ClearRequests
       \/ \E i \in DOMAIN requestList : TimeOver(i)
       \/ TipReply
       \/ CheckReset
  BY AskCases
<1> QED
  BY <1>2, <1>3, <1>4, <1>5, <1>6, <1>7, <1>8, <1>9, <1>10, <1>11, <1>12
-----------------------------------------------------------------------------
(***************************************************************************)
(* Every identifier stays early.                                           *)
(***************************************************************************)

\* The stream goes on while it is short of its bound.
LEMMA TipEarly ==
  ASSUME IInv, Unwrapped, EarlyServer, MoveTip
  PROVE  Early(IncID(tip))
<1>1. tip \in ChunkIDs /\ tip # LastID /\ Index(tip) < LastTip
  BY DEF IInv, TypeOK, EarlyServer, Early, MoveTip
<1>2. Index(IncID(tip)) = Index(tip) + 1 /\ Index(tip) \in Nat /\ IncID(tip) \in ChunkIDs
  BY <1>1, IncIndex, IncType
<1> DEFINE room == BufferSize * Cycles
<1>3. LastTip + 2 < room /\ room \in Int
  <2>1. BufferSize \in Nat /\ Cycles \in Nat
    OBVIOUS
  <2>2. room \in Int
    BY <2>1, Z3
  <2> QED BY <2>2 DEF Unwrapped
<1> HIDE DEF room
<1>4. Index(IncID(tip)) + 2 < room
  BY <1>1, <1>2, <1>3
<1> QED BY <1>2, <1>4, EarlyIndex DEF room

\* What the server has.
LEMMA ServerEarly ==
  ASSUME IInv, Unwrapped, EarlyServer, [PlayNext]_allVars
  PROVE  EarlyServer'
<1>1. CASE UNCHANGED <<tip, head, bootTip>>
  BY <1>1 DEF EarlyServer
<1>2. CASE MoveTip
  <2>1. tip' = IncID(tip) /\ UNCHANGED <<head, bootTip>>
    BY <1>2 DEF MoveTip
  <2> QED BY <1>2, <2>1, TipEarly DEF EarlyServer
<1>3. CASE PingBootstrap \/ TakeTip
  BY <1>3 DEF PingBootstrap, TakeTip, EarlyServer
<1>4. CASE SendMap
  BY <1>4 DEF SendMap, EarlyServer
<1>5. CASE \E m \in net : HandleRequestMessage(m) \/ StoreChunkMap(m) \/ AcceptData(m)
  BY <1>1, <1>5 DEF HandleRequestMessage, StoreChunkMap, AcceptData, serverVars
<1>6. CASE InsertData \/ UpdateLatest \/ Ask \/ NextPosition \/ FazPedidos \/ GiveUp
           \/ ClearRequests
           \/ TipReply \/ CheckReset \/ \E i \in DOMAIN requestList : TimeOver(i)
  BY <1>1, <1>6
     DEF InsertData, UpdateLatest, Ask, NextPosition, FazPedidos, GiveUp, ClearRequests, TipReply,
         CheckReset, TimeOver, serverVars
<1>7. CASE InsertMedia
  BY <1>1, <1>7 DEF InsertMedia
<1>8. CASE Deliver \/ Advance \/ Miss \/ Wait \/ UNCHANGED allVars
  BY <1>1, <1>8 DEF Deliver, Advance, Miss, Wait, allVars, baseVars, vars, serverVars
<1> QED BY <1>2, <1>3, <1>4, <1>5, <1>6, <1>7, <1>8
        DEF PlayNext, Player, StartReply, Exchange, Server, Receive, Requester

\* What the network and the client's map have: heads the server had.
LEMMA NetEarly ==
  ASSUME EarlyServer, EarlyNet, Early(chunkMap.head), [PlayNext]_allVars
  PROVE  EarlyNet' /\ Early(chunkMap'.head)
<1>1. CASE UNCHANGED <<net, chunkMap>>
  BY <1>1 DEF EarlyNet
<1>2. CASE SendMap
  <2>1. /\ head # NoChunk /\ chunkMap' = chunkMap
        /\ \A m \in net' : m \in net \/ m = [type |-> "map", head |-> head, bits |-> Bits(ring)]
    BY <1>2 DEF SendMap, Send
  <2> QED BY <2>1 DEF EarlyNet, EarlyServer
<1>3. CASE FazPedidos
  <2> DEFINE kept == Those(requestList, {r \in ToSet(requestList) : ~TriedOut(r)})
             sent == {r \in ToSet(kept) : r.ttl # "waiting" /\ Candidate(r.chunk)}
             sends == {[type |-> "request", chunk |-> r.chunk] : r \in sent}
  <2>1. chunkMap' = chunkMap /\ Send(sends)
    BY <1>3 DEF FazPedidos
  <2>2. \A m \in sends : m.type = "request"
    <3> HIDE DEF sent
    <3> QED OBVIOUS
  <2> HIDE DEF sends
  <2>3. \A m \in net' : m \in net \/ m \in sends
    BY <2>1 DEF Send
  <2> QED BY <2>1, <2>2, <2>3 DEF EarlyNet
<1>4. ASSUME NEW q \in net, HandleRequestMessage(q) PROVE EarlyNet' /\ Early(chunkMap'.head)
  <2>1. chunkMap' = chunkMap /\ \A m \in net' : m \in net \/ m.type = "data"
    BY <1>4 DEF HandleRequestMessage, Answer
  <2> QED BY <2>1 DEF EarlyNet
<1>5. ASSUME NEW m \in net, StoreChunkMap(m) \/ AcceptData(m)
      PROVE  EarlyNet' /\ Early(chunkMap'.head)
  <2>1. net' \subseteq net
    BY <1>5 DEF StoreChunkMap, AcceptData
  <2>2. chunkMap' = chunkMap \/ (m.type = "map" /\ chunkMap'.head = m.head)
    BY <1>5 DEF StoreChunkMap, AcceptData
  <2> QED BY <1>5, <2>1, <2>2 DEF EarlyNet
<1>6. CASE InsertData \/ UpdateLatest \/ Ask \/ NextPosition \/ GiveUp \/ ClearRequests
           \/ TipReply \/ CheckReset \/ \E i \in DOMAIN requestList : TimeOver(i)
  BY <1>1, <1>6
     DEF InsertData, UpdateLatest, Ask, NextPosition, GiveUp, ClearRequests, TipReply,
         CheckReset, TimeOver
<1>7. CASE InsertMedia \/ MoveTip \/ PingBootstrap \/ TakeTip
  BY <1>1, <1>7 DEF InsertMedia, MoveTip, PingBootstrap, TakeTip
<1>8. CASE Deliver \/ Advance \/ Miss \/ Wait \/ UNCHANGED allVars
  BY <1>1, <1>8 DEF Deliver, Advance, Miss, Wait, allVars, baseVars, vars
<1> QED BY <1>2, <1>3, <1>4, <1>5, <1>6, <1>7, <1>8
        DEF PlayNext, Player, StartReply, Exchange, Server, Receive, Requester

\* What the client receives: chunks it asked for.
LEMMA DataEarly ==
  ASSUME IInv, AllEarly(requestList), EarlyData, [PlayNext]_allVars
  PROVE  EarlyData' /\ NotAfter(latest, latest')
<1>1. CASE UNCHANGED <<latest, recv>>
  BY <1>1 DEF EarlyData, NotAfter
<1>2. ASSUME NEW m \in net, AcceptData(m) PROVE EarlyData' /\ NotAfter(latest, latest')
  <2>1. /\ latest' = latest
        /\ recv' = recv \/ (Asked(m.chunk) /\ recv'.chunk = m.chunk)
    BY <1>2 DEF AcceptData
  <2>2. Asked(m.chunk) => Early(m.chunk)
    BY DEF Asked, AllEarly
  <2> QED BY <2>1, <2>2 DEF EarlyData, NotAfter
<1>3. CASE InsertData
  <2>1. recv # RecvIdle /\ recv'.chunk = recv.chunk /\ latest' = latest
    BY <1>3 DEF InsertData, RecvIdle, IInv, TypeOK
  <2> QED BY <2>1 DEF EarlyData, NotAfter
<1>4. CASE UpdateLatest
  <2>1. /\ recv # RecvIdle /\ recv' = RecvIdle
        /\ latest' = IF Before(latest, recv.chunk) THEN recv.chunk ELSE latest
    BY <1>4 DEF UpdateLatest, RecvIdle, Newest
  <2> QED BY <2>1 DEF EarlyData, NotAfter
<1>5. CASE \E m \in net : HandleRequestMessage(m) \/ StoreChunkMap(m)
  BY <1>1, <1>5 DEF HandleRequestMessage, StoreChunkMap, dataVars
<1>6. CASE Ask \/ NextPosition \/ FazPedidos \/ GiveUp \/ ClearRequests
           \/ TipReply \/ CheckReset \/ \E i \in DOMAIN requestList : TimeOver(i)
  BY <1>1, <1>6
     DEF Ask, NextPosition, FazPedidos, GiveUp, ClearRequests, TipReply, CheckReset, TimeOver,
         dataVars
<1>7. CASE InsertMedia \/ MoveTip \/ PingBootstrap \/ TakeTip \/ SendMap
  BY <1>1, <1>7 DEF InsertMedia, MoveTip, PingBootstrap, TakeTip, SendMap, dataVars
<1>8. CASE Deliver \/ Advance \/ Miss \/ Wait \/ UNCHANGED allVars
  BY <1>1, <1>8 DEF Deliver, Advance, Miss, Wait, allVars, baseVars, vars, dataVars
<1> QED BY <1>2, <1>3, <1>4, <1>5, <1>6, <1>7, <1>8
        DEF PlayNext, Player, StartReply, Exchange, Server, Receive, Requester

\* A step with the player is a step of the exchange, or the player's alone.
LEMMA PlayIInv == IInv /\ [PlayNext]_allVars => IInv'
<1> SUFFICES ASSUME IInv, [PlayNext]_allVars PROVE IInv'
  OBVIOUS
<1>1. CASE [Next]_vars
  BY <1>1, StepIInv
<1>2. CASE CheckReset
  <2>1. /\ requestList' = <<>> \/ requestList' = requestList
        /\ UNCHANGED <<serverVars, net, chunkMap, dataVars, requestPosition, requester,
                       failures, needTip>>
    BY <1>2 DEF CheckReset
  <2>2. CASE requestList' = <<>>
    BY <2>1, <2>2, ResetStep
  <2>3. CASE requestList' = requestList
    <3>1. UNCHANGED vars
      BY <2>1, <2>3 DEF vars, askVars
    <3> QED BY <3>1, StepIInv
  <2> QED BY <2>1, <2>2, <2>3
<1> QED BY <1>1, <1>2
        DEF PlayNext, Player, StartReply, Next, Deliver, Advance, Miss, Wait, allVars, baseVars

\* All of it together.
LEMMA AskStepInv ==
  ASSUME AskInv, Unwrapped, [PlayNext]_allVars
  PROVE  AskInv'
<1>1. IInv'
  BY PlayIInv DEF AskInv
<1>2. RequestsGood
  BY <1>1, RequestsStep
<1>3. EarlyServer'
  BY ServerEarly DEF AskInv, Inside
<1>4. EarlyNet' /\ Early(chunkMap'.head)
  BY NetEarly DEF AskInv, Inside
<1>5. EarlyData'
  BY DataEarly DEF AskInv, Inside
<1> QED BY <1>1, <1>2, <1>3, <1>4, <1>5 DEF AskInv, Inside, RequestsGood

\* The client comes to a stream that has not wrapped, and asks from the first
\* identifier on.
LEMMA AskInitial ==
  ASSUME Init, Unwrapped
  PROVE  AskInv
<1> DEFINE room == BufferSize * Cycles
<1>1. Joined + 2 < room /\ room \in Int
  <2>1. BufferSize \in Nat /\ Cycles \in Nat
    OBVIOUS
  <2>2. room \in Int
    BY <2>1, Z3
  <2> QED BY <2>2 DEF Unwrapped
<1>2. Index(Chunk(Joined)) = Joined
  <2>1. Joined \in Nat /\ Joined < room
    <3> HIDE DEF room
    <3> QED BY <1>1
  <2> QED BY <2>1, ChunkIndex
<1>3. Index(First) = 0
  BY DEF Index, First
<1> HIDE DEF room
<1>4. Index(Chunk(Joined)) + 2 < room /\ Index(First) + 2 < room
  BY <1>1, <1>2, <1>3
<1>5. Early(Chunk(Joined))
  BY <1>4, EarlyIndex, ChunkType DEF room
<1>6. Early(First)
  BY <1>4, EarlyIndex, FirstType DEF room
<1>7. IInv
  BY Initial
<1>8. Emptied /\ RequestsOrdered /\ AllEarly(requestList) /\ ToAsk = requestPosition
  BY DEF Init, Emptied, RequestsOrdered, AllEarly, ToAsk
<1>9. Inside
  BY <1>5, <1>6, <1>8 DEF Init, Inside, EarlyServer, EarlyNet, EarlyData, Early
<1> QED BY <1>7, <1>8, <1>9 DEF AskInv

\* No chunk is asked twice at the same time: the request list is in stream
\* order and behind the chunk to ask for next, although the player, the receive
\* thread and the timer thread change the list or the position meanwhile.
THEOREM OrderTheorem == Unwrapped => (PlaySpec => []RequestsOrdered)
<1> SUFFICES ASSUME Unwrapped PROVE PlaySpec => []RequestsOrdered
  OBVIOUS
<1>1. PlayInit => AskInv
  BY AskInitial DEF PlayInit
<1>2. AskInv /\ [PlayNext]_allVars => AskInv'
  BY AskStepInv
<1>3. AskInv => RequestsOrdered
  BY DEF AskInv
<1> QED BY <1>1, <1>2, <1>3, PTL DEF PlaySpec
-----------------------------------------------------------------------------
(***************************************************************************)
(* The player.                                                             *)
(***************************************************************************)
PlayType == playerPosition \in ChunkIDs /\ player \in {"check", "look", "advance"}

\* Between a delivery or a miss and the step to the next chunk the position is
\* not even one past the latest chunk or the request position.
Behind ==
  IF player = "advance"
  THEN NotAfter(playerPosition, latest) \/ NotAfter(playerPosition, requestPosition)
  ELSE PlayerNotAhead

PlayInv == AskInv /\ PlayType /\ Behind

\* What is behind an identifier stays behind when it grows.
LEMMA StillBehind ==
  ASSUME NEW p \in ChunkIDs, NEW a \in ChunkIDs, NEW b \in ChunkIDs, NotAfter(a, b), b # LastID
  PROVE  /\ NotAfter(p, a) => NotAfter(p, b)
         /\ NotAfter(p, IncID(a)) => NotAfter(p, IncID(b))
         /\ NotAfter(p, b) => NotAfter(p, IncID(b)) /\ NotAfter(IncID(p), IncID(b))
<1>1. NotAfter(IncID(a), IncID(b)) /\ Before(b, IncID(b))
  BY IncMonotonic, IncIncreases
<1>2. IncID(a) \in ChunkIDs /\ IncID(b) \in ChunkIDs
  BY IncType
<1>3. NotAfter(p, a) => NotAfter(p, b)
  BY Transitive
<1>4. NotAfter(p, IncID(a)) => NotAfter(p, IncID(b))
  BY <1>1, <1>2, Transitive
<1>5. NotAfter(b, IncID(b))
  BY <1>1 DEF NotAfter
<1>6. NotAfter(p, b) => NotAfter(p, IncID(b))
  BY <1>2, <1>5, Transitive
<1>7. NotAfter(p, b) => NotAfter(IncID(p), IncID(b))
  BY IncMonotonic
<1> QED BY <1>3, <1>4, <1>6, <1>7

\* The positions a step starts from and leads to.
LEMMA Positioned ==
  ASSUME AskInv, AskInv', [PlayNext]_allVars
  PROVE  /\ latest \in ChunkIDs /\ latest' \in ChunkIDs /\ latest # LastID /\ latest' # LastID
         /\ requestPosition \in ChunkIDs /\ requestPosition' \in ChunkIDs
         /\ requestPosition # LastID /\ requestPosition' # LastID
         /\ NotAfter(latest, latest')
         /\ TipReply \/ NotAfter(requestPosition, requestPosition')
<1>1. NotAfter(latest, latest')
  BY DataEarly DEF AskInv, Inside
<1>2. TipReply \/ NotAfter(requestPosition, requestPosition')
  BY RequestsStep DEF AskInv, RequestsGood
<1> QED BY <1>1, <1>2 DEF AskInv, Inside, EarlyData, Early, IInv, TypeOK

\* The soft reset goes back from the latest chunk: it is past the first cycle.
LEMMA ResetBack ==
  ASSUME IInv, PlayType, Before(playerPosition, latest), Minus(latest, playerPosition).cycle > 0
  PROVE  MinusInt(latest, TipOffset) \in ChunkIDs /\ NotAfter(MinusInt(latest, TipOffset), latest)
<1>1. latest \in ChunkIDs /\ playerPosition \in ChunkIDs
  BY DEF IInv, TypeOK, PlayType
<1> DEFINE d == latest.cycle - playerPosition.cycle
           borrow == IF latest.position < playerPosition.position THEN 1 ELSE 0
<1>2. d \in Nat /\ Minus(latest, playerPosition).cycle = d - borrow
  BY <1>1, MinusFields DEF NotAfter
<1>3. latest.cycle > 0
  BY <1>1, <1>2, Fields
<1> QED BY <1>1, <1>3, MinusType

\* Only the bootstrap's reply ends the wait for the tip.
LEMMA NoReply == Exchange => ~TipReply
BY DEF Exchange, Server, InsertMedia, MoveTip, PingBootstrap, TakeTip, SendMap,
       HandleRequestMessage, Receive, StoreChunkMap, AcceptData, InsertData, UpdateLatest,
       Requester, Ask, NextPosition, FazPedidos, GiveUp, StartOver, ClearRequests, TimeOver, TipReply, askVars

\* The player stays behind.
LEMMA BehindStep ==
  ASSUME PlayInv, AskInv', [PlayNext]_allVars
  PROVE  PlayType' /\ Behind'
<1>0. /\ playerPosition \in ChunkIDs /\ AskInv /\ IInv /\ Behind /\ PlayType
      /\ player \in {"check", "look", "advance"}
  BY DEF PlayInv, PlayType, AskInv
<1>1. /\ latest \in ChunkIDs /\ latest' \in ChunkIDs /\ latest # LastID /\ latest' # LastID
      /\ requestPosition \in ChunkIDs /\ requestPosition' \in ChunkIDs
      /\ requestPosition # LastID /\ requestPosition' # LastID
      /\ NotAfter(latest, latest')
      /\ TipReply \/ NotAfter(requestPosition, requestPosition')
  BY <1>0, Positioned
<1>2. ASSUME UNCHANGED <<playerPosition, player>>, NotAfter(requestPosition, requestPosition')
      PROVE  PlayType' /\ Behind'
  <2>1. CASE player = "advance"
    <3>1. NotAfter(playerPosition, latest') \/ NotAfter(playerPosition, requestPosition')
      BY <1>0, <1>1, <1>2, <2>1, StillBehind DEF Behind
    <3> QED BY <1>0, <1>2, <2>1, <3>1 DEF Behind, PlayType
  <2>2. CASE player # "advance"
    <3>1. \/ NotAfter(playerPosition, IncID(latest'))
          \/ NotAfter(playerPosition, IncID(requestPosition'))
      BY <1>0, <1>1, <1>2, <2>2, StillBehind DEF Behind, PlayerNotAhead
    <3> QED BY <1>0, <1>2, <2>2, <3>1 DEF Behind, PlayerNotAhead, PlayType
  <2> QED BY <2>1, <2>2
<1>3. CASE StartReply
  <2>1. playerPosition' = requestPosition' /\ player' = player
    BY <1>3 DEF StartReply
  <2>2. /\ NotAfter(playerPosition', requestPosition')
        /\ NotAfter(playerPosition', IncID(requestPosition'))
    BY <1>1, <2>1, IncIncreases DEF NotAfter
  <2> QED BY <1>0, <1>1, <2>1, <2>2 DEF Behind, PlayerNotAhead, PlayType
<1>4. CASE CheckReset
  <2>1. /\ player = "check" /\ player' = "look" /\ latest' = latest
        /\ requestPosition' = requestPosition
    BY <1>4 DEF CheckReset, dataVars
  <2>2. CASE playerPosition' = playerPosition
    BY <1>0, <2>1, <2>2 DEF Behind, PlayerNotAhead, PlayType
  <2>3. CASE playerPosition' # playerPosition
    <3>1. /\ Before(playerPosition, latest) /\ Minus(latest, playerPosition).cycle > 0
          /\ playerPosition' = MinusInt(latest, TipOffset)
      BY <1>4, <2>3 DEF CheckReset
    <3>2. playerPosition' \in ChunkIDs /\ NotAfter(playerPosition', latest)
      BY <1>0, <3>1, ResetBack
    <3>3. NotAfter(playerPosition', IncID(latest'))
      BY <1>1, <2>1, <3>2, StillBehind
    <3> QED BY <2>1, <3>2, <3>3 DEF Behind, PlayerNotAhead, PlayType
  <2> QED BY <2>2, <2>3
<1>5. CASE Deliver
  BY <1>0, <1>5 DEF Deliver, Playable, Behind, PlayType, baseVars, vars, dataVars
<1>6. CASE Advance
  <2>1. /\ player = "advance" /\ player' = "check" /\ playerPosition' = IncID(playerPosition)
        /\ latest' = latest /\ requestPosition' = requestPosition
    BY <1>6 DEF Advance, baseVars, vars, dataVars, askVars
  <2>2. NotAfter(playerPosition, latest) \/ NotAfter(playerPosition, requestPosition)
    BY <1>0, <2>1 DEF Behind
  <2>3. \/ NotAfter(IncID(playerPosition), IncID(latest))
        \/ NotAfter(IncID(playerPosition), IncID(requestPosition))
    BY <1>0, <1>1, <2>2, IncMonotonic
  <2> QED BY <1>0, <2>1, <2>3, IncType DEF Behind, PlayerNotAhead, PlayType
<1>7. CASE Miss
  BY <1>0, <1>7 DEF Miss, Overtaken, NotAfter, Behind, PlayType, baseVars, vars, dataVars
<1>8. CASE Wait
  BY <1>0, <1>8 DEF Wait, Behind, PlayerNotAhead, PlayType, baseVars, vars, dataVars, askVars
<1>9. CASE UNCHANGED <<playerPosition, player>> /\ ~TipReply
  BY <1>1, <1>2, <1>9
<1>10. CASE UNCHANGED allVars
  <2>1. NotAfter(requestPosition, requestPosition')
    BY <1>10 DEF allVars, baseVars, vars, askVars, NotAfter
  <2> QED BY <1>2, <1>10, <2>1 DEF allVars
<1>11. Exchange => ~TipReply
  BY NoReply
<1> QED BY <1>3, <1>4, <1>5, <1>6, <1>7, <1>8, <1>9, <1>10, <1>11 DEF PlayNext, Player

\* The player is never more than one chunk past the latest one received or past
\* the next one to ask for, even when the bootstrap's reply moves it between a
\* delivery or a miss and the step to the next chunk.
THEOREM PlayerTheorem == Unwrapped => (PlaySpec => []PlayerNotAhead)
<1> SUFFICES ASSUME Unwrapped PROVE PlaySpec => []PlayerNotAhead
  OBVIOUS
<1>1. PlayInit => PlayInv
  <2> SUFFICES ASSUME PlayInit PROVE PlayInv
    OBVIOUS
  <2>1. AskInv
    BY AskInitial DEF PlayInit
  <2>2. playerPosition = First /\ latest = First /\ player = "check"
    BY DEF PlayInit, Init
  <2>3. NotAfter(First, IncID(First))
    BY <2>1, <2>2, FirstType, IncIncreases DEF AskInv, Inside, EarlyData, Early, NotAfter
  <2> QED BY <2>1, <2>2, <2>3, FirstType DEF PlayInv, PlayType, Behind, PlayerNotAhead
<1>2. PlayInv /\ [PlayNext]_allVars => PlayInv'
  BY AskStepInv, BehindStep DEF PlayInv
<1>3. PlayInv => PlayerNotAhead
  <2> SUFFICES ASSUME PlayInv PROVE PlayerNotAhead
    OBVIOUS
  <2>1. /\ playerPosition \in ChunkIDs
        /\ latest \in ChunkIDs /\ latest # LastID
        /\ requestPosition \in ChunkIDs /\ requestPosition # LastID
    BY DEF PlayInv, PlayType, AskInv, Inside, EarlyData, Early, IInv, TypeOK
  <2>2. NotAfter(latest, latest) /\ NotAfter(requestPosition, requestPosition)
    BY DEF NotAfter
  <2> QED BY <2>1, <2>2, StillBehind DEF PlayInv, Behind, PlayerNotAhead
<1> QED BY <1>1, <1>2, <1>3, PTL DEF PlaySpec

\* With the fairness the runs assume, all the same.
COROLLARY FairTheorem ==
  Unwrapped => (FairSpec => [](RequestsOrdered /\ PlayerNotAhead))
BY OrderTheorem, PlayerTheorem, PTL DEF FairSpec
=============================================================================
