-------------------------- MODULE UdpQueue_proofs --------------------------
(***************************************************************************)
(* Safety of the send queue for any number of threads, addresses, messages  *)
(* and ticks: the message the sender holds, the turn of the round robin,    *)
(* which is always of an address that has a message, and how long an        *)
(* address waits for it, though Pop tests its queue without the lock.       *)
(***************************************************************************)
EXTENDS UdpQueue, Extrema_proofs, SequenceTheorems

\* UDPSend holds a message from its pop until it is sent or dropped.
Held == current # <<>> <=> sender \in {"age", "tokens", "toBucket", "inBucket", "send"}

\* Messages were born in the past.
Timely ==
    /\ \A i \in 1..Len(queue) : queue[i].born <= clock
    /\ current # <<>> => current[1].born <= clock

\* Only the round robin has a pointer.
OnlyRR == scheduler # "RR" => keyPointer = NoKey

\* The addresses whose turn comes before d's when it is k's.
Before(k, d) ==
    IF k <= d THEN {e \in Dests : k <= e /\ e < d} ELSE {e \in Dests : k <= e \/ e < d}

\* Whoever has seen others popped has a message, and the turns to come before
\* its own fit in what is left of a round.
Turned ==
    \A d \in Dests : turns[d] > 0 =>
        /\ d \in Keys /\ keyPointer # NoKey
        /\ turns[d] + Cardinality(Before(keyPointer, d)) < Cardinality(Dests)

\* What Pop's test found is still there when Pop takes it under the lock.
Found ==
    /\ sender = "take" => First # {} /\ (scheduler = "RR" => keyPointer # NoKey)
    /\ sender = "takeRequest" => Requests # {}

IInv == TypeOK /\ Held /\ Timely /\ OnlyRR /\ Found /\ PointerPending /\ Turned

USE UdpQueueAssumption DEF UdpQueueAssumption
-----------------------------------------------------------------------------
(***************************************************************************)
(* Sequences, addresses, turns.                                             *)
(***************************************************************************)

\* t is s without its element i.
Without(t, s, i) ==
    /\ Len(t) = Len(s) - 1
    /\ \A j \in 1..(Len(s) - 1) : t[j] = IF j < i THEN s[j] ELSE s[j + 1]

\* A message taken out of the queue leaves the others in their order.
LEMMA Removal ==
  ASSUME NEW S, NEW s \in Seq(S), NEW i \in 1..Len(s)
  PROVE  RemoveAt(s, i) \in Seq(S) /\ Without(RemoveAt(s, i), s, i)
<1> DEFINE a == SubSeq(s, 1, i - 1)
           b == SubSeq(s, i + 1, Len(s))
<1>0. Len(s) \in Nat /\ i \in Int /\ \A j \in 1..Len(s) : s[j] \in S
  BY LenProperties, ElementOfSeq
<1>1. /\ a \in Seq(S) /\ Len(a) = i - 1 /\ \A j \in 1..(i - 1) : a[j] = s[j]
  <2>1. /\ a \in Seq(S) /\ Len(a) = IF 1 <= i - 1 THEN (i - 1) - 1 + 1 ELSE 0
        /\ \A j \in 1..((i - 1) - 1 + 1) : a[j] = s[1 + j - 1]
    <3>1. \A j \in 1..(i - 1) : s[j] \in S
      BY <1>0
    <3> QED BY <1>0, <3>1, SubSeqProperties
  <2> QED BY <1>0, <2>1
<1>2. /\ b \in Seq(S) /\ Len(b) = Len(s) - i
      /\ \A j \in 1..(Len(s) - i) : b[j] = s[i + j]
  <2>1. /\ b \in Seq(S) /\ Len(b) = IF i + 1 <= Len(s) THEN Len(s) - (i + 1) + 1 ELSE 0
        /\ \A j \in 1..(Len(s) - (i + 1) + 1) : b[j] = s[(i + 1) + j - 1]
    <3>1. \A j \in (i + 1)..Len(s) : s[j] \in S
      BY <1>0
    <3> QED BY <1>0, <3>1, SubSeqProperties
  <2> QED BY <1>0, <2>1
<1> HIDE DEF a, b
<1>3. RemoveAt(s, i) = a \o b
  BY DEF RemoveAt, a, b
<1>4. /\ a \o b \in Seq(S) /\ Len(a \o b) = Len(s) - 1
      /\ \A j \in 1..(Len(s) - 1) :
           (a \o b)[j] = IF j <= i - 1 THEN a[j] ELSE b[j - (i - 1)]
  <2>1. /\ a \o b \in Seq(S) /\ Len(a \o b) = Len(a) + Len(b)
        /\ \A j \in 1..(Len(a) + Len(b)) :
             (a \o b)[j] = IF j <= Len(a) THEN a[j] ELSE b[j - Len(a)]
    <3>1. a \in Seq(S) /\ b \in Seq(S)
      BY <1>1, <1>2
    <3> QED BY <3>1
  <2>2. Len(a) + Len(b) = Len(s) - 1
    BY <1>0, <1>1, <1>2
  <2> QED BY <1>1, <2>1, <2>2
<1>5. ASSUME NEW j \in 1..(Len(s) - 1)
      PROVE  (a \o b)[j] = IF j < i THEN s[j] ELSE s[j + 1]
  <2>1. CASE j < i
    BY <1>0, <1>1, <1>4, <2>1
  <2>2. CASE ~(j < i)
    <3>1. j - (i - 1) \in 1..(Len(s) - i) /\ i + (j - (i - 1)) = j + 1
      BY <1>0, <2>2
    <3> QED BY <1>0, <1>2, <1>4, <2>2, <3>1
  <2> QED BY <2>1, <2>2
<1> QED BY <1>3, <1>4, <1>5 DEF Without

\* Addresses are numbers; there are some exactly when there are messages.
LEMMA KeysAre ==
  ASSUME TypeOK
  PROVE  /\ Keys \in SUBSET Dests /\ Keys \in SUBSET Nat /\ NoKey \notin Keys
         /\ queue # <<>> => Keys # {}
<1>1. /\ Len(queue) \in Nat /\ \A i \in 1..Len(queue) : queue[i] \in Message
      /\ queue # <<>> => Len(queue) >= 1
  BY LenProperties, ElementOfSeq, EmptySeq DEF TypeOK
<1>2. \A i \in 1..Len(queue) : queue[i].dest \in Dests
  BY <1>1 DEF Message
<1>3. queue # <<>> => queue[1].dest \in Keys
  BY <1>1 DEF Keys
<1> QED BY <1>2, <1>3 DEF Keys

\* The first address is one with a message.
LEMMA FirstKey ==
  ASSUME TypeOK, First # {}
  PROVE  Min(Keys) \in Keys
<1>1. PICK i \in First : TRUE
  OBVIOUS
<1>2. i \in 1..Len(queue)
  BY DEF First
<1>3. queue[i].dest \in Keys
  BY <1>2 DEF Keys
<1> QED BY <1>3, KeysAre, MinProperties

\* The next turn is another address's if there is one, and no address with a
\* message has its turn between the two.
LEMMA NextKeyNext ==
  ASSUME TypeOK, NEW k \in Keys, Keys # {k}
  PROVE  /\ NextKey(k) \in Keys /\ NextKey(k) # k
         /\ \A d \in Keys \ {k} : /\ k < d => k < NextKey(k) /\ NextKey(k) <= d
                                  /\ d < k => k < NextKey(k) \/ NextKey(k) <= d
<1> DEFINE later == {l \in Keys : l > k}
<1>1. Keys \in SUBSET Nat /\ later \in SUBSET Nat
  BY KeysAre
<1>2. CASE later = {}
  <2>1. NextKey(k) = Min(Keys)
    BY <1>2 DEF NextKey
  <2>2. Min(Keys) \in Keys /\ \A d \in Keys : Min(Keys) <= d
    BY <1>1, MinProperties
  <2>3. PICK e \in Keys : e # k
    OBVIOUS
  <2>4. e < k
    BY <1>1, <1>2, <2>3
  <2> HIDE DEF later
  <2>5. \A d \in Keys \ {k} : ~(k < d)
    BY <1>1, <1>2 DEF later
  <2> QED BY <1>1, <2>1, <2>2, <2>4, <2>5
<1>3. CASE later # {}
  <2>1. NextKey(k) = Min(later)
    BY <1>3 DEF NextKey
  <2>2. Min(later) \in later /\ \A d \in later : Min(later) <= d
    BY <1>1, <1>3, MinProperties
  <2> QED BY <1>1, <2>1, <2>2
<1> QED BY <1>2, <1>3

\* The turns before an address's are those of others, finitely many.
LEMMA BeforeFinite ==
  ASSUME NEW k \in Nat, NEW d \in Nat
  PROVE  /\ Before(k, d) \subseteq Dests \ {d} /\ IsFiniteSet(Before(k, d))
         /\ Cardinality(Before(k, d)) \in Nat
         /\ d \in Dests => Cardinality(Before(k, d)) < Cardinality(Dests)
<1>1. Before(k, d) \subseteq Dests \ {d}
  BY DEF Before
<1>2. /\ IsFiniteSet(Dests \ {d}) /\ IsFiniteSet(Before(k, d))
      /\ Cardinality(Before(k, d)) <= Cardinality(Dests \ {d})
  <2>1. IsFiniteSet(Dests \ {d})
    BY FS_Subset
  <2> QED BY <1>1, <2>1, FS_Subset
<1>3. /\ Cardinality(Before(k, d)) \in Nat /\ Cardinality(Dests \ {d}) \in Nat
      /\ Cardinality(Dests) \in Nat
  BY <1>2, FS_CardinalityType
<1>4. d \in Dests => Cardinality(Dests \ {d}) = Cardinality(Dests) - 1
  BY FS_RemoveElement
<1> QED BY <1>1, <1>2, <1>3, <1>4

\* When the turn passes from k to the next, one turn fewer is before d's.
LEMMA TurnPasses ==
  ASSUME TypeOK, NEW k \in Keys, NEW d \in Keys, d # k
  PROVE  Cardinality(Before(NextKey(k), d)) + 1 <= Cardinality(Before(k, d))
<1>1. /\ Keys \in SUBSET Nat /\ Keys \in SUBSET Dests /\ Keys # {k}
  BY KeysAre
<1> DEFINE n == NextKey(k)
<1>2. /\ n \in Keys /\ n # k
      /\ k < d => k < n /\ n <= d
      /\ d < k => k < n \/ n <= d
  BY <1>1, NextKeyNext
<1> HIDE DEF n
<1>3. k \in Nat /\ d \in Nat /\ n \in Nat /\ k \in Dests
  BY <1>1, <1>2
<1>4. Before(n, d) \subseteq Before(k, d) \ {k}
  <2> SUFFICES ASSUME NEW e \in Before(n, d) PROVE e \in Before(k, d) \ {k}
    OBVIOUS
  <2>1. e \in Dests /\ e \in Nat
    BY DEF Before
  <2> QED BY <1>2, <1>3, <2>1 DEF Before
<1>5. k \in Before(k, d)
  BY <1>3 DEF Before
<1>6. IsFiniteSet(Before(k, d)) /\ IsFiniteSet(Before(k, d) \ {k})
  BY <1>3, BeforeFinite, FS_Subset
<1>7. Cardinality(Before(n, d)) <= Cardinality(Before(k, d) \ {k})
  BY <1>4, <1>6, FS_Subset
<1>8. Cardinality(Before(k, d) \ {k}) = Cardinality(Before(k, d)) - 1
  BY <1>5, <1>6, FS_RemoveElement
<1>9. Cardinality(Before(n, d)) \in Nat /\ Cardinality(Before(k, d)) \in Nat
  BY <1>3, BeforeFinite
<1> QED BY <1>7, <1>8, <1>9 DEF n

\* Whatever the scheduler, Pop takes a message that is in the queue; the round
\* robin takes one of the address whose turn it is.
LEMMA PopsFromQueue ==
  ASSUME TypeOK, PointerPending, Found, sender \in {"take", "takeRequest"},
         NEW i \in Poppable
  PROVE  /\ i \in 1..Len(queue)
         /\ scheduler = "RR" => keyPointer \in Keys /\ queue[i].dest = keyPointer
<1>1. /\ Len(queue) \in Nat /\ Len(queue) >= 1
      /\ \A j \in 1..Len(queue) : queue[j] \in Message
      /\ First \in SUBSET (1..Len(queue)) /\ Requests \in SUBSET (1..Len(queue))
  <2>1. Len(queue) \in Nat /\ \A j \in 1..Len(queue) : queue[j] \in Message
    BY LenProperties, ElementOfSeq DEF TypeOK
  <2>2. First \in SUBSET (1..Len(queue)) /\ Requests \in SUBSET (1..Len(queue))
    BY DEF First, Requests
  <2>3. PICK j \in 1..Len(queue) : TRUE
    BY <2>2 DEF Found
  <2>4. Len(queue) >= 1
    BY <2>1, <2>3
  <2> QED BY <2>1, <2>2, <2>4
<1>2. CASE scheduler = "FIFO"
  BY <1>1, <1>2 DEF Poppable, FIFOPop
<1>3. CASE scheduler = "Random"
  BY <1>1, <1>3 DEF Poppable, RandomPop
<1>4. CASE scheduler = "RR"
  <2> DEFINE its == {j \in 1..Len(queue) : queue[j].dest = keyPointer}
  <2>0. Requests = {}
    BY <1>4 DEF Requests, InFirst
  <2>1. keyPointer \in Keys
    BY <1>4, <2>0 DEF Found, PointerPending
  <2>2. its # {} /\ its \in SUBSET Nat
    BY <1>1, <2>1 DEF Keys
  <2>3. Min(its) \in its
    BY <2>2, MinProperties
  <2>4. i = Min(its)
    BY <1>4 DEF Poppable, RRPop
  <2> HIDE DEF its
  <2>5. i \in its
    BY <2>3, <2>4
  <2> QED BY <2>1, <2>5 DEF its
<1>5. CASE scheduler = "CDF"
  <2> DEFINE its == IF sender = "take" THEN First ELSE Nearest
  <2>1. i = Min(its)
    BY <1>5 DEF Poppable, CDFPop
  <2>2. its \in SUBSET (1..Len(queue)) /\ its \in SUBSET Nat
    <3>1. Nearest \in SUBSET Requests
      BY DEF Nearest
    <3>2. its \in SUBSET (1..Len(queue))
      BY <1>1, <3>1
    <3>3. 1..Len(queue) \in SUBSET Nat
      OBVIOUS
    <3> QED BY <3>2, <3>3
  <2>3. its # {}
    <3>1. CASE sender = "take"
      BY <3>1 DEF Found
    <3>2. CASE sender = "takeRequest"
      <4> DEFINE gaps == {queue[j].gap : j \in Requests}
      <4>1. ASSUME NEW j \in Requests PROVE queue[j].gap \in Nat
        <5>1. queue[j].gap \in Gaps \cup {0}
          BY <1>1 DEF Message
        <5>2. Gaps \cup {0} \subseteq Nat
          OBVIOUS
        <5> QED BY <5>1, <5>2, Zenon
      <4>2. gaps \in SUBSET Nat /\ gaps # {}
        BY <3>2, <4>1 DEF Found
      <4>3. Min(gaps) \in gaps /\ \A g \in gaps : Min(gaps) <= g
        BY <4>2, MinProperties
      <4>4. PICK j \in Requests : queue[j].gap = Min(gaps)
        BY <4>3
      <4>5. j \in Nearest
        BY <4>3, <4>4 DEF Nearest
      <4> QED BY <3>2, <4>5
    <3> QED BY <3>1, <3>2
  <2> HIDE DEF its
  <2>4. i \in its
    BY <2>1, <2>2, <2>3, MinProperties
  <2> QED BY <1>5, <2>2, <2>4
<1>6. scheduler \in {"FIFO", "Random", "RR", "CDF"}
  BY DEF TypeOK
<1> QED BY <1>2, <1>3, <1>4, <1>5, <1>6
-----------------------------------------------------------------------------
(***************************************************************************)
(* The steps.                                                               *)
(***************************************************************************)

\* A producer adds a message of now at the end, or finds no room.
LEMMA PushKeeps ==
  ASSUME IInv, NEW t \in Producers, NEW d \in Dests, NEW kind \in Kinds,
         NEW mark \in BOOLEAN, Push(t, d, kind, mark)
  PROVE  IInv'
<1>1. /\ marked' = IF mark THEN "queued" ELSE marked
      /\ notifying' = notifying \cup {t}
      /\ UNCHANGED <<scheduler, keyPointer, sender, current, tokens, clock, turns>>
      /\ TypeOK
  BY DEF Push, IInv
<1>2. /\ queue' \in Seq(Message) /\ Len(queue') <= MaxQueue
      /\ \A i \in 1..Len(queue') : queue'[i].born <= clock
      /\ Keys \subseteq Keys' /\ First \subseteq First' /\ Requests \subseteq Requests'
  <2>0. Len(queue) \in Nat /\ \A i \in 1..Len(queue) : queue[i].born <= clock
    BY <1>1, LenProperties DEF IInv, Timely, TypeOK
  <2>1. CASE UNCHANGED queue
    BY <1>1, <2>0, <2>1 DEF TypeOK, Keys, First, Requests, InFirst
  <2>2. CASE Len(queue) < MaxQueue
    <3>1. PICK g \in GapsOf(kind) :
            queue' = Append(queue, [dest |-> d, kind |-> kind, born |-> clock,
                                    marked |-> mark, gap |-> g])
      BY <2>2 DEF Push
    <3> DEFINE m == [dest |-> d, kind |-> kind, born |-> clock,
                     marked |-> mark, gap |-> g]
    <3>2. m \in Message /\ m.born = clock
      <4>1. g \in Gaps \cup {0}
        BY DEF GapsOf
      <4>2. clock \in 0..MaxClock
        BY <1>1 DEF TypeOK
      <4> QED BY <4>1, <4>2 DEF Message
    <3>3. queue' = Append(queue, m)
      BY <3>1
    <3> HIDE DEF m
    <3>4. /\ queue' \in Seq(Message) /\ Len(queue') = Len(queue) + 1
          /\ \A i \in 1..Len(queue) : queue'[i] = queue[i]
          /\ queue'[Len(queue) + 1] = m
      BY <1>1, <3>2, <3>3, AppendProperties DEF TypeOK
    <3>5. ASSUME NEW i \in 1..Len(queue') PROVE queue'[i].born <= clock
      <4>1. i \in 1..Len(queue) \/ i = Len(queue) + 1
        BY <2>0, <3>4
      <4>2. clock \in Nat
        BY <1>1 DEF TypeOK
      <4> QED BY <2>0, <3>2, <3>4, <4>1, <4>2
    <3>6. Keys \subseteq Keys'
      <4> SUFFICES ASSUME NEW i \in 1..Len(queue) PROVE queue[i].dest \in Keys'
        BY DEF Keys
      <4>1. i \in 1..Len(queue') /\ queue'[i].dest = queue[i].dest
        BY <2>0, <3>4
      <4> QED BY <4>1 DEF Keys
    <3>7. First \subseteq First' /\ Requests \subseteq Requests'
      <4>1. \A i \in 1..Len(queue) : i \in 1..Len(queue') /\ queue'[i] = queue[i]
        BY <2>0, <3>4
      <4> QED BY <1>1, <4>1 DEF First, Requests, InFirst
    <3> QED BY <2>0, <2>2, <3>4, <3>5, <3>6, <3>7
  <2> QED BY <2>1, <2>2 DEF Push
<1>3. TypeOK'
  BY <1>1, <1>2 DEF TypeOK
<1>4. Held' /\ Timely' /\ OnlyRR' /\ Found' /\ PointerPending'
  BY <1>1, <1>2 DEF IInv, Held, Timely, OnlyRR, Found, PointerPending
<1>5. Turned'
  BY <1>1, <1>2 DEF IInv, Turned, Before
<1> QED BY <1>3, <1>4, <1>5 DEF IInv

\* What Pop does to the turns of the round robin: those whose turn has not come
\* have seen one more, and one turn fewer is before theirs.
LEMMA PopTurns ==
  ASSUME IInv, keyPointer \in Keys,
         keyPointer' = PointerAfter,
         turns' = [d \in Dests |-> IF d \in Keys \ {keyPointer} THEN turns[d] + 1 ELSE 0],
         Keys \ {keyPointer} \subseteq Keys'
  PROVE  PointerPending' /\ Turned'
<1>1. TypeOK /\ Keys \in SUBSET Dests /\ Keys \in SUBSET Nat
      /\ NoKey \notin Keys
  BY KeysAre DEF IInv
<1>2. CASE Keys = {keyPointer}
  BY <1>2 DEF PointerAfter, PointerPending, Turned
<1>3. CASE Keys # {keyPointer}
  <2>1. keyPointer' = NextKey(keyPointer)
    BY <1>3 DEF PointerAfter
  <2>2. NextKey(keyPointer) \in Keys \ {keyPointer}
    BY <1>1, <1>3, NextKeyNext
  <2>3. PointerPending' /\ keyPointer' # NoKey
    BY <1>1, <2>1, <2>2 DEF PointerPending
  <2>4. ASSUME NEW d \in Keys \ {keyPointer}
        PROVE  turns[d] + 1 + Cardinality(Before(NextKey(keyPointer), d)) < Cardinality(Dests)
    <3>1. d \in Dests /\ d \in Nat /\ keyPointer \in Nat /\ NextKey(keyPointer) \in Nat
      BY <1>1, <2>2
    <3>2. /\ Cardinality(Before(keyPointer, d)) \in Nat
          /\ Cardinality(Before(keyPointer, d)) < Cardinality(Dests)
          /\ Cardinality(Before(NextKey(keyPointer), d)) \in Nat
      BY <3>1, BeforeFinite
    <3>3. turns[d] \in Nat /\ Cardinality(Dests) \in Nat
      BY <1>1, <3>1, FS_CardinalityType DEF TypeOK
    <3>4. turns[d] + Cardinality(Before(keyPointer, d)) < Cardinality(Dests)
      <4>1. CASE turns[d] = 0
        BY <3>2, <4>1
      <4>2. CASE turns[d] # 0
        <5>1. turns[d] > 0
          BY <3>3, <4>2
        <5> QED BY <3>1, <5>1 DEF IInv, Turned
      <4> QED BY <4>1, <4>2
    <3>5. Cardinality(Before(NextKey(keyPointer), d)) + 1 <= Cardinality(Before(keyPointer, d))
      BY <1>1, TurnPasses
    <3> QED BY <3>2, <3>3, <3>4, <3>5
  <2>5. Turned'
    <3> SUFFICES ASSUME NEW d \in Dests, turns'[d] > 0
                 PROVE  /\ d \in Keys'
                        /\ turns'[d] + Cardinality(Before(keyPointer, d)') < Cardinality(Dests)
      BY <2>3 DEF Turned
    <3>1. d \in Keys \ {keyPointer} /\ turns'[d] = turns[d] + 1
      OBVIOUS
    <3>2. Before(keyPointer, d)' = Before(NextKey(keyPointer), d)
      BY <2>1 DEF Before
    <3> QED BY <2>4, <3>1, <3>2
  <2> QED BY <2>3, <2>5
<1> QED BY <1>2, <1>3

\* The sender takes a message of the queue in its hand.
LEMMA PopKeeps ==
  ASSUME IInv, Pop
  PROVE  IInv'
<1>1. /\ sender \in {"take", "takeRequest"} /\ sender' = "age"
      /\ UNCHANGED <<scheduler, notifying, tokens, clock, marked>>
      /\ TypeOK
      /\ keyPointer' = IF scheduler = "RR" THEN PointerAfter ELSE keyPointer
  BY DEF Pop, IInv
<1>2. PICK i \in Poppable :
        /\ current' = <<[queue[i] EXCEPT !.gap = 0]>>
        /\ queue' = RemoveAt(queue, i)
        /\ turns' = [d \in Dests |->
               IF scheduler = "RR" /\ d \in Keys \ {queue[i].dest}
               THEN turns[d] + 1 ELSE 0]
  BY DEF Pop
<1>3. /\ i \in 1..Len(queue)
      /\ scheduler = "RR" => keyPointer \in Keys /\ queue[i].dest = keyPointer
  BY <1>1, PopsFromQueue DEF IInv
<1>4. /\ queue' \in Seq(Message) /\ Len(queue') = Len(queue) - 1
      /\ \A j \in 1..(Len(queue) - 1) :
           queue'[j] = IF j < i THEN queue[j] ELSE queue[j + 1]
      /\ Len(queue) \in Nat /\ queue[i] \in Message
  <2>1. queue \in Seq(Message)
    BY <1>1 DEF IInv, TypeOK
  <2>2. Len(queue) \in Nat /\ queue[i] \in Message
    BY <1>3, <2>1, LenProperties, ElementOfSeq
  <2>3. RemoveAt(queue, i) \in Seq(Message) /\ Without(RemoveAt(queue, i), queue, i)
    BY <1>3, <2>1, Removal
  <2>4. queue' \in Seq(Message) /\ Without(queue', queue, i)
    BY <1>2, <2>3
  <2> QED BY <2>2, <2>4 DEF Without
<1> DEFINE m == [queue[i] EXCEPT !.gap = 0]
<1>5. m \in Message /\ m.born = queue[i].born
  BY <1>4 DEF Message
<1>6. current' = <<m>>
  BY <1>2
<1> HIDE DEF m
<1>7. Keys \ {queue[i].dest} \subseteq Keys'
  <2> SUFFICES ASSUME NEW j \in 1..Len(queue), j # i
               PROVE  queue[j].dest \in Keys'
    BY DEF Keys
  <2>1. CASE j < i
    <3>1. j \in 1..(Len(queue) - 1) /\ queue'[j] = queue[j]
      BY <1>3, <1>4, <2>1
    <3> QED BY <1>4, <3>1 DEF Keys
  <2>2. CASE j > i
    <3>1. /\ j - 1 \in 1..(Len(queue) - 1) /\ queue'[j - 1] = queue[(j - 1) + 1]
          /\ (j - 1) + 1 = j
      BY <1>3, <1>4, <2>2
    <3> QED BY <1>4, <3>1 DEF Keys
  <2> QED BY <1>4, <1>3, <2>1, <2>2
<1>8. PointerPending' /\ Turned' /\ OnlyRR' /\ keyPointer' \in Dests \cup {NoKey}
      /\ turns' \in [Dests -> Nat]
  <2>1. turns' \in [Dests -> Nat]
    BY <1>1, <1>2 DEF TypeOK
  <2>2. CASE scheduler = "RR"
    <3>1. PointerPending' /\ Turned'
      BY <1>1, <1>2, <1>3, <1>7, <2>2, PopTurns
    <3>2. keyPointer' \in Dests \cup {NoKey}
      <4>1. keyPointer \in Keys /\ Keys \in SUBSET Dests
        BY <1>1, <1>3, <2>2, KeysAre
      <4>2. Keys # {keyPointer} => NextKey(keyPointer) \in Dests
        BY <1>1, <4>1, NextKeyNext
      <4> QED BY <1>1, <2>2, <4>2 DEF PointerAfter
    <3> QED BY <1>1, <2>1, <2>2, <3>1, <3>2 DEF OnlyRR
  <2>3. CASE scheduler # "RR"
    <3>1. keyPointer' = NoKey /\ \A d \in Dests : turns'[d] = 0
      BY <1>1, <1>2, <2>3 DEF IInv, OnlyRR
    <3> QED BY <1>1, <2>1, <3>1 DEF OnlyRR, PointerPending, Turned
  <2> QED BY <2>2, <2>3
<1>9. TypeOK'
  BY <1>1, <1>4, <1>5, <1>6, <1>8 DEF TypeOK, Places
<1>10. Held' /\ Found'
  BY <1>1, <1>6 DEF Held, Found
<1>11. Timely'
  <2>1. ASSUME NEW j \in 1..Len(queue') PROVE queue'[j].born <= clock
    <3>1. /\ j \in 1..(Len(queue) - 1) /\ j \in 1..Len(queue) /\ j + 1 \in 1..Len(queue)
      BY <1>4
    <3> QED BY <1>4, <3>1 DEF IInv, Timely
  <2>2. m.born <= clock /\ current'[1] = m
    BY <1>3, <1>5, <1>6 DEF IInv, Timely
  <2> QED BY <1>1, <2>1, <2>2 DEF Timely
<1> QED BY <1>8, <1>9, <1>10, <1>11 DEF IInv

\* A step that leaves the queue, the pointer, the turns and the hand alone and
\* moves the sender without its message.
Quiet ==
    /\ UNCHANGED <<scheduler, queue, keyPointer, current, turns>>
    /\ Held' /\ Found' /\ clock' >= clock

\* A step that leaves the queues and the pointer alone keeps the invariant.
LEMMA QuietKeeps ==
  ASSUME IInv, Quiet, TypeOK'
  PROVE  IInv'
<1>1. UNCHANGED <<scheduler, queue, keyPointer, current, turns>> /\ TypeOK
  BY DEF Quiet, IInv
<1>2. Keys' = Keys /\ OnlyRR' /\ PointerPending' /\ Turned'
  BY <1>1 DEF Keys, IInv, OnlyRR, PointerPending, Turned, Before
<1>3. Timely'
  <2>1. clock \in Nat /\ clock' \in Nat /\ clock' >= clock
    BY <1>1 DEF TypeOK, Quiet
  <2>2. ASSUME NEW i \in 1..Len(queue) PROVE queue[i].born <= clock'
    <3>1. queue[i] \in Message
      BY <1>1, ElementOfSeq DEF TypeOK
    <3>2. queue[i].born \in 0..MaxClock
      BY <3>1 DEF Message
    <3>3. queue[i].born \in Nat
      BY <3>2
    <3>4. queue[i].born <= clock
      BY DEF IInv, Timely
    <3> QED BY <2>1, <3>3, <3>4
  <2>3. ASSUME current # <<>> PROVE current[1].born <= clock'
    <3>1. PICK m \in Message : current = <<m>>
      BY <1>1, <2>3 DEF TypeOK
    <3>2. current[1].born \in 0..MaxClock
      BY <3>1 DEF Message
    <3>3. current[1].born \in Nat
      BY <3>2
    <3>4. current[1].born <= clock
      BY <2>3 DEF IInv, Timely
    <3> QED BY <2>1, <3>3, <3>4
  <2> QED BY <1>1, <2>2, <2>3 DEF Timely
<1> QED BY <1>2, <1>3 DEF Quiet, IInv

\* The clock, the notifies, the waits and the sender's other steps with its
\* hand unchanged.
LEMMA WaitsKeep ==
  ASSUME IInv, Tick \/ (\E t \in Producers : Notify(t)) \/ Look \/ Wait
                 \/ WakeSpuriously \/ TestRequests \/ WaitBucket
  PROVE  IInv'
<1>1. TypeOK /\ Held /\ Found
  BY DEF IInv
<1>2. queue' = queue /\ scheduler' = scheduler => First' = First /\ Requests' = Requests
  BY DEF First, Requests, InFirst
<1>3. Tick => Quiet /\ TypeOK'
  BY <1>1, <1>2 DEF Tick, Quiet, TypeOK, Held, Found
<1>4. (\E t \in Producers : Notify(t)) => Quiet /\ TypeOK'
  BY <1>1, <1>2 DEF Notify, Woken, Quiet, TypeOK, Held, Found, Places
<1>5. Look \/ Wait \/ WakeSpuriously \/ WaitBucket => Quiet /\ TypeOK'
  BY <1>1, <1>2 DEF Look, Wait, WakeSpuriously, WaitBucket, Quiet, TypeOK, Held, Found,
                    Places
<1>6. TestRequests => Quiet /\ TypeOK'
  BY <1>1, <1>2 DEF TestRequests, Quiet, TypeOK, Held, Found, Places
<1> QED BY <1>3, <1>4, <1>5, <1>6, QuietKeeps

\* The test gives the round robin a turn when it has none, of an address with a
\* message; without a turn nobody has waited.
LEMMA TestQueueKeeps ==
  ASSUME IInv, TestQueue
  PROVE  IInv'
<1>1. /\ TypeOK /\ Held
      /\ UNCHANGED <<scheduler, queue, notifying, current, tokens, clock, marked, turns>>
      /\ sender = "pop" /\ sender' \in {"take", "popRequest", "look"}
      /\ sender' = "take" => First # {}
  BY DEF IInv, TestQueue
<1>2. First' = First /\ Requests' = Requests /\ Keys' = Keys
  BY <1>1 DEF First, Requests, InFirst, Keys
<1>3. CASE keyPointer' = keyPointer
  <2>1. TypeOK' /\ Held' /\ OnlyRR' /\ PointerPending' /\ Turned'
    BY <1>1, <1>2, <1>3 DEF TypeOK, Held, Places, IInv, OnlyRR, PointerPending, Turned,
                            Before
  <2>2. Found'
    <3>1. ASSUME scheduler = "RR", First # {} PROVE keyPointer # NoKey
      <4>1. SUFFICES ASSUME keyPointer = NoKey PROVE FALSE
        OBVIOUS
      <4>2. keyPointer' = Min(Keys)
        BY <3>1, <4>1 DEF TestQueue
      <4>3. NoKey \in Keys
        BY <1>1, <1>3, <3>1, <4>1, <4>2, FirstKey
      <4> QED BY <1>1, <4>3, KeysAre
    <3> QED BY <1>1, <1>2, <1>3, <3>1 DEF Found
  <2>3. Timely'
    BY <1>1 DEF IInv, Timely
  <2> QED BY <2>1, <2>2, <2>3 DEF IInv
<1>4. CASE keyPointer' # keyPointer
  <2>1. scheduler = "RR" /\ First # {} /\ keyPointer = NoKey /\ keyPointer' = Min(Keys)
    BY <1>4 DEF TestQueue
  <2>2. keyPointer' \in Keys /\ Keys \in SUBSET Dests /\ NoKey \notin Keys
    BY <1>1, <2>1, FirstKey, KeysAre
  <2>3. \A d \in Dests : ~(turns[d] > 0)
    BY <2>1 DEF IInv, Turned
  <2>4. TypeOK' /\ Held' /\ OnlyRR' /\ PointerPending' /\ Turned'
    BY <1>1, <1>2, <2>1, <2>2, <2>3
       DEF TypeOK, Held, Places, OnlyRR, PointerPending, Turned
  <2>5. Found'
    BY <1>1, <1>2, <2>2 DEF Found
  <2>6. Timely'
    BY <1>1 DEF IInv, Timely
  <2> QED BY <2>4, <2>5, <2>6 DEF IInv
<1> QED BY <1>3, <1>4

\* The bucket is never overfilled, and is asked for no more than it holds.
LEMMA BucketKeeps ==
  ASSUME IInv, DecToken \/ Replenish
  PROVE  IInv'
<1>1. TypeOK /\ Held /\ Found
  BY DEF IInv
<1>2. CASE DecToken
  <2>1. PICK m \in Message : current = <<m>>
    BY <1>1, <1>2 DEF TypeOK, Held, DecToken
  <2>2. SizeOf[current[1].kind] \in Nat
    <3>1. current[1].kind \in Kinds
      BY <2>1 DEF Message
    <3> QED BY <3>1
  <2> DEFINE cost == SizeOf[current[1].kind]
  <2>3. \/ tokens >= cost /\ tokens' = tokens - cost /\ sender' = "send"
        \/ tokens' = tokens /\ sender' = "toBucket"
    BY <1>2 DEF DecToken
  <2>4. sender = "tokens"
        /\ UNCHANGED <<scheduler, queue, keyPointer, notifying, current, clock,
                       marked, turns>>
    BY <1>2 DEF DecToken
  <2> HIDE DEF cost
  <2>5. tokens' \in 0..BucketSize /\ sender' \in {"send", "toBucket"}
    <3>1. tokens \in 0..BucketSize /\ cost \in Nat
      BY <1>1, <2>2 DEF TypeOK, cost
    <3> QED BY <2>3, <3>1
  <2>6. Quiet /\ TypeOK'
    BY <1>1, <2>4, <2>5 DEF Quiet, TypeOK, Held, Found, Places
  <2> QED BY <2>6, QuietKeeps
<1>3. CASE Replenish
  <2>1. Refilled \in 0..BucketSize
    <3>1. /\ tokens + Refill \in Nat /\ BucketSize \in Nat
          /\ {tokens + Refill, BucketSize} \in SUBSET Nat
      BY <1>1 DEF TypeOK
    <3>2. /\ Min({tokens + Refill, BucketSize}) \in {tokens + Refill, BucketSize}
          /\ Min({tokens + Refill, BucketSize}) <= BucketSize
      BY <3>1, MinProperties
    <3> QED BY <3>1, <3>2 DEF Refilled
  <2>2. Quiet /\ TypeOK'
    <3>1. queue' = queue /\ scheduler' = scheduler =>
            First' = First /\ Requests' = Requests
      BY DEF First, Requests, InFirst
    <3> QED BY <1>1, <1>3, <2>1, <3>1
            DEF Replenish, Quiet, TypeOK, Held, Found, Places
  <2> QED BY <2>2, QuietKeeps
<1> QED BY <1>2, <1>3

\* A message that is sent or too old leaves the hand; one that is not waits for
\* its tokens or, if it needs none, is sent.
LEMMA LeavesKeep ==
  ASSUME IInv, CheckAge \/ Send
  PROVE  IInv'
<1>1. TypeOK /\ Held
  BY DEF IInv
<1>2. /\ UNCHANGED <<scheduler, queue, keyPointer, notifying, tokens, clock, turns>>
      /\ \/ sender' = "look" /\ current' = <<>> /\ marked' \in {marked, "gone"}
         \/ /\ sender = "age" /\ sender' \in {"send", "tokens"}
            /\ UNCHANGED <<current, marked>>
  BY DEF CheckAge, Send
<1>3. TypeOK' /\ Held' /\ Found'
  BY <1>1, <1>2 DEF TypeOK, Held, Found, Places
<1>4. Keys' = Keys /\ OnlyRR' /\ PointerPending' /\ Turned'
  BY <1>2 DEF Keys, IInv, OnlyRR, PointerPending, Turned, Before
<1>5. Timely'
  BY <1>2 DEF IInv, Timely
<1> QED BY <1>3, <1>4, <1>5 DEF IInv

\* Every step keeps the invariant.
LEMMA StepKeeps ==
  ASSUME IInv, [Next]_vars
  PROVE  IInv'
<1>1. CASE UNCHANGED vars
  <2>1. UNCHANGED <<scheduler, queue, keyPointer, notifying, sender, current,
                    tokens, clock, marked, turns>>
    BY <1>1 DEF vars
  <2>2. TypeOK'
    BY <2>1 DEF IInv, TypeOK
  <2>3. Quiet
    BY <2>1 DEF IInv, TypeOK, Quiet, Held, Found, First, Requests, InFirst
  <2> QED BY <2>2, <2>3, QuietKeeps
<1>2. CASE \E t \in Producers : PushAny(t)
  <2>1. PICK t \in Producers, d \in Dests, kind \in Kinds, mark \in BOOLEAN :
          Push(t, d, kind, mark)
    BY <1>2 DEF PushAny
  <2> QED BY <2>1, PushKeeps
<1>3. CASE Pop
  BY <1>3, PopKeeps
<1>4. CASE CheckAge \/ Send
  BY <1>4, LeavesKeep
<1>5. CASE DecToken \/ Replenish
  BY <1>5, BucketKeeps
<1>6. CASE Tick \/ (\E t \in Producers : Notify(t)) \/ Look \/ Wait
             \/ WakeSpuriously \/ TestRequests \/ WaitBucket
  BY <1>6, WaitsKeep
<1>7. CASE TestQueue
  BY <1>7, TestQueueKeeps
<1> QED BY <1>1, <1>2, <1>3, <1>4, <1>5, <1>6, <1>7 DEF Next, SenderStep

\* Nothing is queued at first and the bucket is full.
LEMMA Starts ==
  ASSUME Init
  PROVE  IInv
<1>1. <<>> \in Seq(Message) /\ Len(<<>>) = 0
  BY EmptySeq
<1>2. \A d \in Dests : turns[d] = 0
  BY DEF Init
<1> QED BY <1>1, <1>2 DEF Init, IInv, TypeOK, Held, Timely, OnlyRR, Found,
                          PointerPending, Turned, Places

\* The invariant holds in every state.
LEMMA AlwaysInv == Spec => []IInv
<1>1. Init => IInv
  BY Starts
<1>2. IInv /\ [Next]_vars => IInv'
  BY StepKeeps
<1> QED BY <1>1, <1>2, PTL DEF Spec
-----------------------------------------------------------------------------
(***************************************************************************)
(* The theorems.                                                            *)
(***************************************************************************)

\* Whatever the scheduler pops is a message of the queue, and the bucket never
\* holds more than its size nor less than nothing.
THEOREM TypeCorrect == Spec => []TypeOK
<1>1. IInv => TypeOK
  BY DEF IInv
<1> QED BY <1>1, AlwaysInv, PTL

\* The turn of the round robin is of an address that has a message: at() and
\* front() of its queue never fail.
THEOREM PointerTheorem == Spec => []PointerPending
<1>1. IInv => PointerPending
  BY DEF IInv
<1> QED BY <1>1, AlwaysInv, PTL

\* With any number of addresses that come and go, none with a message sees as
\* many pops of others as there are addresses before its turn.
THEOREM FairTurnsTheorem == Spec => []FairTurns
<1>1. IInv => FairTurns
  <2> SUFFICES ASSUME IInv, NEW d \in Dests PROVE turns[d] < Cardinality(Dests)
    BY DEF FairTurns
  <2>1. turns[d] \in Nat /\ keyPointer \in Nat /\ d \in Nat
    BY DEF IInv, TypeOK, NoKey
  <2>2. Cardinality(Dests) \in Nat /\ Cardinality(Before(d, d)) \in Nat
        /\ Cardinality(Before(d, d)) < Cardinality(Dests)
    BY <2>1, BeforeFinite, FS_CardinalityType
  <2>3. CASE turns[d] = 0
    BY <2>2, <2>3
  <2>4. CASE turns[d] > 0
    <3>1. turns[d] + Cardinality(Before(keyPointer, d)) < Cardinality(Dests)
      BY <2>4 DEF IInv, Turned
    <3>2. Cardinality(Before(keyPointer, d)) \in Nat
      BY <2>1, BeforeFinite
    <3> QED BY <2>1, <2>2, <3>1, <3>2
  <2> QED BY <2>1, <2>3, <2>4
<1> QED BY <1>1, AlwaysInv, PTL
=============================================================================
