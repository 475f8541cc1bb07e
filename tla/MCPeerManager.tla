--------------------------- MODULE MCPeerManager ---------------------------
(***************************************************************************)
(* Constants of the model-checking runs of PeerManager (p1 announces the   *)
(* smaller out list), and the strategies compared with what the models     *)
(* take them for.                                                          *)
(***************************************************************************)
EXTENDS PeerManager, Strategies

CONSTANTS p1, p2

OneEach    == [L \in Lists |-> 1]
NoDrop     == [L \in Lists |-> 0]
DropOneOut == [L \in Lists |-> IF L = "Out" THEN 1 ELSE 0]

SameSize    == (p1 :> {1}) @@ (p2 :> {1})
PoorAndRich == (p1 :> {1}) @@ (p2 :> {2})
\* With OutLimit = 1: p2 in either out list, p1 in the ordinary one.
EitherList  == (p1 :> {2}) @@ (p2 :> {1, 2})

Numbered(n) == [i \in 1..n |-> i]
Heads(lists) == {Head(s) : s \in lists}
FirstOf(lists, k) == {ToSet(SubSeq(s, 1, k)) : s \in lists}

\* The shuffle reaches every order, so that the first k may be any k: what
\* Connect, Flexibilize and Channel's SelectPeerList choose from.
ASSUME AnyOfRandom ==
  \A n \in 1..4 :
    /\ RandomStrategy(Numbered(n)) = SetToSeqs(1..n)
    /\ \A k \in 0..n : FirstOf(RandomStrategy(Numbered(n)), k) = kSubset(k, 1..n)

\* The requester asks a partner with the fewest pending requests, any of them.
ASSUME LeastLoadedAsked ==
  \A n \in 1..4 : \A pending \in [1..n -> {-1, 0, 2}] :
    Heads(MinimumFaultStrategy(Numbered(n), pending)) =
      {p \in 1..n : \A q \in 1..n : pending[p] <= pending[q]}

\* A list may be left empty by the minimal bandwidth; whoever stays offers
\* enough or says nothing.
ASSUME PoorLeftOut ==
  \A n \in 0..3 : \A out, outFree \in [1..n -> {-1, 0, 2}] :
    LET able     == {p \in 1..n : out[p] \in {-1, 2}}
        ableFree == {p \in 1..n : outFree[p] = 2 \/ out[p] = -1}
    IN  /\ RandomStrategyWhitoutPoorBand(Numbered(n), out, 1) =
             SetToSeqs(able)
        /\ RandomStrategyWhitoutPoorBand_FREE(Numbered(n), out, outFree, 1) =
             SetToSeqs(ableFree)

\* The winners of a tournament are the best of its players but one, who is
\* passed over however good he is.
ASSUME WinnersBest ==
  \A score \in [1..4 -> 0..2], quantity \in 1..3 :
    \A s \in TournamentSelected(Numbered(4), quantity, score) :
      /\ \A i \in 1..quantity, j \in (quantity + 2)..Len(s) : score[s[i]] >= score[s[j]]
      /\ Cardinality(ToSet(s)) = Min({4, 2 * quantity})
ASSUME OnePassedOver ==
  \E s \in TournamentSelected(Numbered(4), 2, [p \in 1..4 |-> p]) : s[3] = 4

\* The nearest come first, in the order of the list where they are equally near.
ASSUME NearestFirst ==
  LET Octets == {0, 3}
      ips == {ip \in [1..4 -> 0..4] : ip[1] \in Octets /\ ip[2] \in {1, 4} /\ ip[3] = 2 /\ ip[4] \in {0, 4}}
      query == <<1, 2, 2, 2>>
  IN  \A a, b, c \in ips :
        LET ip == <<a, b, c>>
            d(p) == IPDistance(ip[p], query)
            s == NearestIPSelected(Numbered(3), 3, ip, query)
        IN  /\ ToSet(s) = 1..3
            /\ \A i \in 1..3, j \in 1..3 :
                 i < j => Nearer(d(s[i]), d(s[j])) \/ (d(s[i]) = d(s[j]) /\ s[i] < s[j])
=============================================================================
