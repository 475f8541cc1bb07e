------------------------------ MODULE UdpQueue ------------------------------
(***************************************************************************)
(* The send queue of UDPServer (common/udp.cpp), the scheduler that orders  *)
(* it (common/Scheduler), the thread that empties it (Client::UDPSend) and  *)
(* the bucket that limits it (client/Temporizable/LeakyBucket.cpp).  The    *)
(* receive queue is the same queue without the age and the bucket.          *)
(*                                                                         *)
(* Producers push and notify in two steps and hold neither mutex of a       *)
(* condition variable, so a wait may start after the notify it needed.      *)
(***************************************************************************)
EXTENDS Integers, Sequences, FiniteSets, FiniteSetsExt, SequencesExt

CONSTANTS
    Producers,      \* the threads that call EnqueueSend
    Pinger,         \* the one of them that never stops: Client::Ping
    KindsOf,        \* the kinds of message each sends
    Dests,          \* addresses, numbered in the order of the strings
    Schedulers,     \* the schedulers to choose from on the command line
    SizeOf,         \* tokens a message of each kind costs
    BucketSize, Refill,
    OnlyData,       \* leakyBucketDataFilter
    Gaps,           \* distances of a requested chunk to the play-out point
    MaxQueue,       \* bound on the queue
    TicksPerSecond, MaxClock    \* grain and bound of the clock

Kinds == {"ping", "request", "data"}
NoKey == 0

ASSUME UdpQueueAssumption ==
    /\ Pinger \in Producers /\ KindsOf \in [Producers -> SUBSET Kinds]
    /\ KindsOf[Pinger] = {"ping"}
    /\ Dests \subseteq Nat \ {NoKey} /\ IsFiniteSet(Dests)
    /\ Schedulers \subseteq {"FIFO", "RR", "Random", "CDF"}
    /\ SizeOf \in [Kinds -> Nat \ {0}]
    /\ BucketSize \in Nat /\ Refill \in Nat \ {0} /\ OnlyData \in BOOLEAN
    /\ Gaps \subseteq Nat
    /\ MaxQueue \in Nat \ {0} /\ TicksPerSecond \in Nat \ {0} /\ MaxClock \in Nat

\* A packet larger than the bucket would wait for ever in UDPSend.
ASSUME PacketsFitBucket == \A k \in Kinds : SizeOf[k] <= BucketSize

VARIABLES
    scheduler,      \* the one chosen
    queue,          \* messages pushed and not popped, in order of arrival
    keyPointer,     \* RR: whose turn it is
    notifying,      \* producers between their push and their notify
    sender,         \* where UDPSend is
    current,        \* <<>> or the message it has popped
    tokens,         \* LeakyBucket::tokens
    clock,
    marked,         \* an arbitrary message: not yet pushed, queued or gone
    turns           \* RR: pops of others since each address has a message

vars == <<scheduler, queue, keyPointer, notifying, sender, current, tokens,
          clock, marked, turns>>

Message == [dest : Dests, kind : Kinds, born : 0..MaxClock, marked : BOOLEAN,
            gap : Gaps \cup {0}]
Places == {"look", "toWait", "asleep", "pop", "popRequest", "take", "takeRequest",
           "age", "tokens", "toBucket", "inBucket", "send"}

TypeOK ==
    /\ scheduler \in Schedulers
    /\ queue \in Seq(Message) /\ Len(queue) <= MaxQueue
    /\ keyPointer \in Dests \cup {NoKey}
    /\ notifying \subseteq Producers
    /\ sender \in Places
    /\ current \in {<<>>} \cup {<<m>> : m \in Message}
    /\ tokens \in 0..BucketSize
    /\ clock \in 0..MaxClock
    /\ marked \in {"none", "queued", "gone"}
    /\ turns \in [Dests -> Nat]

Init ==
    /\ scheduler \in Schedulers
    /\ queue = <<>> /\ keyPointer = NoKey /\ notifying = {}
    /\ sender = "look" /\ current = <<>>
    /\ tokens = BucketSize /\ clock = 0
    /\ marked = "none" /\ turns = [d \in Dests |-> 0]

Tick ==
    /\ clock < MaxClock /\ clock' = clock + 1
    /\ UNCHANGED <<scheduler, queue, keyPointer, notifying, sender, current,
                   tokens, marked, turns>>

-----------------------------------------------------------------------------
(* Producers: EnqueueSend *)

\* What CDF's Push reads out of a message: the distance of a request.
GapsOf(kind) == IF scheduler = "CDF" /\ kind = "request" THEN Gaps ELSE {0}

\* A message beyond the bound is not recorded but is notified all the same.
Push(t, d, kind, mark) ==
    /\ t \notin notifying
    /\ kind \in KindsOf[t]
    /\ mark => marked = "none" /\ Len(queue) < MaxQueue
    /\ IF Len(queue) < MaxQueue
       THEN \E g \in GapsOf(kind) :
              queue' = Append(queue, [dest |-> d, kind |-> kind, born |-> clock,
                                      marked |-> mark, gap |-> g])
       ELSE UNCHANGED queue
    /\ marked' = IF mark THEN "queued" ELSE marked
    /\ notifying' = notifying \cup {t}
    /\ UNCHANGED <<scheduler, keyPointer, sender, current, tokens, clock, turns>>

\* DEFECT (MessagesLeave): the notify wakes nobody.
Unwoken == sender

Woken == IF sender = "asleep" THEN "pop" ELSE sender

Notify(t) ==
    /\ t \in notifying
    /\ notifying' = notifying \ {t}
    /\ sender' = Woken
    /\ UNCHANGED <<scheduler, queue, keyPointer, current, tokens, clock, marked,
                   turns>>

-----------------------------------------------------------------------------
(* The schedulers: which message Pop takes *)

Keys == {queue[i].dest : i \in 1..Len(queue)}
NextKey(k) ==
    LET later == {l \in Keys : l > k} IN Min(IF later = {} THEN Keys ELSE later)

\* CDF keeps the requests in a queue of their own; the others have one.
InFirst(m) == scheduler = "CDF" => m.kind # "request"
First == {i \in 1..Len(queue) : InFirst(queue[i])}
Requests == {i \in 1..Len(queue) : ~InFirst(queue[i])}

\* The places in the queue Pop may take.
FIFOPop == {1}

\* The insertion goes to (uint32_t)drand48(), which is 0: the newest is first.
RandomPop == {Len(queue)}

RRPop == {Min({i \in 1..Len(queue) : queue[i].dest = keyPointer})}

\* Whatever was no request goes first; if there was none, the request nearest to
\* the play-out point (a multimap: the first pushed among those equally near).
Nearest == {i \in Requests : \A j \in Requests : queue[i].gap <= queue[j].gap}
CDFPop == {Min(IF sender = "take" THEN First ELSE Nearest)}

Poppable == CASE scheduler = "FIFO"   -> FIFOPop
              [] scheduler = "Random" -> RandomPop
              [] scheduler = "RR"     -> RRPop
              [] scheduler = "CDF"    -> CDFPop

\* DEFECT (FairTurns): the pointer is dropped after every pop.
PointerDropped == NoKey

\* DEFECT (PointerPending): the pointer stays at an address with no message.
PointerPast == NextKey(keyPointer)

\* RR: the pointer goes to the next address in turn, and is dropped when there
\* is no other, even if this one has more messages.
PointerAfter == IF Keys = {keyPointer} THEN NoKey ELSE NextKey(keyPointer)

-----------------------------------------------------------------------------
(* Client::UDPSend *)

\* GetNextMessageToSend holds the mutex of the condition variable from here to
\* the wait, but no producer takes it.
Look ==
    /\ sender = "look"
    /\ sender' = IF queue = <<>> THEN "toWait" ELSE "pop"
    /\ UNCHANGED <<scheduler, queue, keyPointer, notifying, current, tokens,
                   clock, marked, turns>>

Wait ==
    /\ sender = "toWait" /\ sender' = "asleep"
    /\ UNCHANGED <<scheduler, queue, keyPointer, notifying, current, tokens,
                   clock, marked, turns>>

\* A condition variable may wake by itself; the code pops all the same.
WakeSpuriously ==
    /\ sender \in {"asleep", "inBucket"}
    /\ sender' = IF sender = "asleep" THEN "pop" ELSE "tokens"
    /\ UNCHANGED <<scheduler, queue, keyPointer, notifying, current, tokens,
                   clock, marked, turns>>

\* Pop tests its queue without the lock that pushes hold, and the round robin
\* without a turn takes the first address it sees.
TestQueue ==
    /\ sender = "pop"
    /\ sender' = IF First # {} THEN "take"
                 ELSE IF scheduler = "CDF" THEN "popRequest" ELSE "look"
    /\ keyPointer' = IF scheduler = "RR" /\ First # {} /\ keyPointer = NoKey
                     THEN Min(Keys) ELSE keyPointer
    /\ UNCHANGED <<scheduler, queue, notifying, current, tokens, clock, marked,
                   turns>>

\* CDF found nothing but requests, or nothing at all.
TestRequests ==
    /\ sender = "popRequest"
    /\ sender' = IF Requests # {} THEN "takeRequest" ELSE "look"
    /\ UNCHANGED <<scheduler, queue, keyPointer, notifying, current, tokens,
                   clock, marked, turns>>

\* Under the lock, whatever was pushed since the test.  The distance is
\* forgotten: nobody reads it after the queue.
Pop ==
    /\ sender \in {"take", "takeRequest"}
    /\ \E i \in Poppable :
         /\ current' = <<[queue[i] EXCEPT !.gap = 0]>>
         /\ queue' = RemoveAt(queue, i)
         /\ keyPointer' = IF scheduler = "RR" THEN PointerAfter ELSE keyPointer
         /\ turns' = [d \in Dests |->
                IF scheduler = "RR" /\ d \in Keys \ {queue[i].dest}
                THEN turns[d] + 1 ELSE 0]
    /\ sender' = "age"
    /\ UNCHANGED <<scheduler, notifying, tokens, clock, marked>>

\* AddressedMessage::GetAge divides the microseconds as integers: what is left
\* is the difference of the whole seconds of the two times.
Seconds(t) == t \div TicksPerSecond

TooOld(m) == Seconds(clock) - Seconds(m.born) > 0

CheckAge ==
    /\ sender = "age"
    /\ LET m == current[1]
       IN  IF TooOld(m)
           THEN /\ sender' = "look" /\ current' = <<>>
                /\ marked' = IF m.marked THEN "gone" ELSE marked
           ELSE /\ sender' = IF OnlyData /\ m.kind # "data" THEN "send" ELSE "tokens"
                /\ UNCHANGED <<current, marked>>
    /\ UNCHANGED <<scheduler, queue, keyPointer, notifying, tokens, clock, turns>>

\* DecToken: take the tokens or wait to be told of more.
DecToken ==
    /\ sender = "tokens"
    /\ LET cost == SizeOf[current[1].kind]
       IN  IF tokens >= cost
           THEN tokens' = tokens - cost /\ sender' = "send"
           ELSE UNCHANGED tokens /\ sender' = "toBucket"
    /\ UNCHANGED <<scheduler, queue, keyPointer, notifying, current, clock,
                   marked, turns>>

WaitBucket ==
    /\ sender = "toBucket" /\ sender' = "inBucket"
    /\ UNCHANGED <<scheduler, queue, keyPointer, notifying, current, tokens,
                   clock, marked, turns>>

\* LeakyBucket::TimerAlarm, from CyclicTimers.
\* DEFECT (TypeOK): more tokens than the bucket holds.
Overfilled == tokens + Refill

Refilled == Min({tokens + Refill, BucketSize})

Replenish ==
    /\ tokens' = Refilled
    /\ sender' = IF sender = "inBucket" THEN "tokens" ELSE sender
    /\ UNCHANGED <<scheduler, queue, keyPointer, notifying, current, clock,
                   marked, turns>>

Send ==
    /\ sender = "send" /\ sender' = "look" /\ current' = <<>>
    /\ marked' = IF current[1].marked THEN "gone" ELSE marked
    /\ UNCHANGED <<scheduler, queue, keyPointer, notifying, tokens, clock, turns>>

-----------------------------------------------------------------------------
SenderStep ==
    \/ Look \/ Wait \/ TestQueue \/ TestRequests \/ Pop
    \/ CheckAge \/ DecToken \/ WaitBucket \/ Send

PushAny(t) ==
    \E d \in Dests, kind \in Kinds, mark \in BOOLEAN : Push(t, d, kind, mark)

Next ==
    \/ \E t \in Producers : PushAny(t) \/ Notify(t)
    \/ SenderStep \/ WakeSpuriously \/ Replenish \/ Tick

Spec == Init /\ [][Next]_vars

\* Threads run, the ping thread sends every second and the timer refills.
Fairness ==
    /\ WF_vars(SenderStep)
    /\ WF_vars(PushAny(Pinger))
    /\ \A t \in Producers : WF_vars(Notify(t))
    /\ WF_vars(Replenish)

FairSpec == Spec /\ Fairness

-----------------------------------------------------------------------------
(* Properties *)

\* RRMessageScheduler: the turn is of an address that has a message, so that
\* rrQueue.at(keyPointer).front() never fails.
PointerPending == keyPointer # NoKey => keyPointer \in Keys

\* RRMessageScheduler: no address with a message sees another popped twice
\* before its turn, though addresses come and go and the pointer starts over.
FairTurns == \A d \in Dests : turns[d] < Cardinality(Dests)

\* The age test of UDPSend keeps its comment (client.cpp:1679, "If message older
\* than 500 ms"): what it drops may be 500 ms old and what it lets go may be
\* younger, where a message of n ticks is between n - 1 and n + 1 ticks old.
DropsByAge ==
    [][sender = "age" /\ sender' # "age" =>
        LET age == clock - current[1].born
        IN  IF sender' = "look" THEN 2 * (age + 1) > TicksPerSecond
            ELSE 2 * (age - 1) < TicksPerSecond]_vars

\* With the FIFO or the round-robin scheduler every message leaves, sent or too
\* old: a notify lost between the test of the size and the wait, or in the
\* bucket, delays it until the next push or refill but not for ever.
MessagesLeave ==
    (scheduler \in {"FIFO", "RR"} /\ marked = "queued") ~> (marked = "gone")
=============================================================================
