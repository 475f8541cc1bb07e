----------------------------- MODULE Strategies -----------------------------
(***************************************************************************)
(* The strategies that reorder or cut a list of candidates                 *)
(* (common/Strategy) before its head is used: by the requester, which asks *)
(* the first (Request::GetPeer), the Connector and the Disconnectors, and  *)
(* the bootstrap (Channel::SelectPeerList).  A list is a sequence without  *)
(* repetitions; what a strategy looks at of a peer is a function of it.    *)
(* Each operator gives the set of lists that chance may leave.             *)
(***************************************************************************)
EXTENDS Integers, Sequences, FiniteSetsExt, SequencesExt

Swapped(s, i, j) == [s EXCEPT ![i] = s[j], ![j] = s[i]]

\* RandomStrategy::shuffle: at place i, one of those from i on.
Shuffles(s) ==
    LET after[i \in 0..Len(s)] ==
            IF i = 0 THEN {s}
            ELSE UNION {{Swapped(t, i, r) : r \in i..Len(s)} : t \in after[i - 1]}
    IN  after[Len(s)]

\* Strategy::Execute: an empty list is left alone.
Execute(peers, selected) == IF peers = <<>> THEN {peers} ELSE selected

NullStrategy(peers) == {peers}
RandomStrategy(peers) == Execute(peers, Shuffles(peers))

\* The first of those with the fewest pending requests goes to the front.
LeastPending(peers, pending) ==
    Min({i \in DOMAIN peers : \A j \in DOMAIN peers : pending[peers[i]] <= pending[peers[j]]})
MinimumFaultStrategy(peers, pending) ==
    Execute(peers, {Swapped(s, 1, LeastPending(s, pending)) : s \in RandomStrategy(peers)})

\* Only who offers enough, or does not say (-1).
RandomStrategyWhitoutPoorBand(peers, out, minimalBandwidthOut) ==
    LET enough(p) == out[p] >= minimalBandwidthOut \/ out[p] < 0
    IN  Execute(peers, RandomStrategy(SelectSeq(peers, enough)))

\* Here whether they say it is still asked of the other size.
RandomStrategyWhitoutPoorBand_FREE(peers, out, outFree, minimalBandwidthOut) ==
    LET enough(p) == outFree[p] >= minimalBandwidthOut \/ out[p] < 0
    IN  Execute(peers, RandomStrategy(SelectSeq(peers, enough)))

\* Of the first 2 * quantity of a shuffled list, each of the first quantity
\* plays each of the others but one: the loop begins a place too far.  What is
\* selected is lost: the strategy deletes the list, which is on the stack of
\* the caller, and the bootstrap aborts.
TournamentSelected(peers, quantity, score) ==
    LET size == Min({Len(peers), 2 * quantity})
        games == SetToSortSeq((1..quantity) \X ((quantity + 2)..size),
                              LAMBDA g, h : g[1] < h[1] \/ (g[1] = h[1] /\ g[2] < h[2]))
        Play(s, g) == IF score[s[g[1]]] < score[s[g[2]]] THEN Swapped(s, g[1], g[2]) ELSE s
    IN  {FoldLeft(Play, SubSeq(s, 1, size), games) : s \in RandomStrategy(peers)}

\* NearestIPStrategy: distances octet by octet, the first that differs decides.
IPDistance(a, b) == [g \in 1..4 |-> IF a[g] > b[g] THEN a[g] - b[g] ELSE b[g] - a[g]]
Nearer(d, e) == \E g \in 1..4 : d[g] < e[g] /\ \A k \in 1..(g - 1) : d[k] = e[k]

\* The place of the nearest, starting from the first place at distance 256.
NearestPlace(peers, ip, query) ==
    LET dist(i) == IPDistance(ip[peers[i]], query)
        nearest == FoldLeftDomain(LAMBDA n, j : IF Nearer(dist(j), n.dist)
                                                THEN [place |-> j, dist |-> dist(j)] ELSE n,
                                  [place |-> 1, dist |-> [g \in 1..4 |-> 256]], peers)
    IN  nearest.place

\* One after the other is moved from the list (of at least `quantity`) to the
\* results, which are lost: this list too is deleted.
NearestIPSelected(peers, quantity, ip, query) ==
    LET step[n \in 0..quantity] ==
            IF n = 0 THEN [left |-> peers, results |-> <<>>]
            ELSE LET before == step[n - 1]
                     place == NearestPlace(before.left, ip, query)
                 IN  [left |-> RemoveAt(before.left, place),
                      results |-> Append(before.results, before.left[place])]
    IN  step[quantity].results
=============================================================================
