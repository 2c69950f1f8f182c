------------------------------ MODULE CSPFProofs ------------------------------
(***************************************************************************)
(* Proofs about CSPF, for any finite graph and any weights: the answer of  *)
(* computePath is the least-cost path that ChosenPaths defines, there is   *)
(* none when it says so, and it ends within one round, and one edge read   *)
(* back, for every node.                                                   *)
(***************************************************************************)
EXTENDS CSPF, FiniteSetTheorems, WellFoundedInduction, TLAPS

\* Zenon is the prover of every leaf that names no other.
USE Zenon

\* Every set of natural numbers has a least element.
LEMMA NatLeast ==
    ASSUME NEW T \in SUBSET Nat, T # {}
    PROVE  \E m \in T : \A k \in T : m <= k
<1>1. PICK m \in T : \A k \in T : <<k, m>> \notin OpToRel(<, Nat)
  <2>1. IsWellFoundedOn(OpToRel(<, Nat), Nat)  BY NatLessThanWellFounded
  <2> QED  BY <2>1, WFMin
<1>2. \A k \in T : ~(k < m)  BY <1>1 DEF OpToRel
<1> QED  BY <1>2, SMT

\* What holds of 0, and of n + 1 when it holds of n, holds of every number.
LEMMA NatInductive ==
    ASSUME NEW T, 0 \in T, \A n \in Nat : n \in T => n + 1 \in T
    PROVE  Nat \subseteq T
<1> SUFFICES ASSUME Nat \ T # {}  PROVE  FALSE
  OBVIOUS
<1>1. PICK m \in Nat \ T : \A k \in Nat \ T : m <= k  BY NatLeast
<1>2. m # 0 /\ m - 1 \in Nat  BY <1>1, SMT
<1> QED  BY <1>1, <1>2, SMT

\* The types of the question and of the loop's state.
Typed ==
    /\ graph \in SUBSET Edges
    /\ weight \in [Edges -> Weights \cup {Inf}]
    /\ pc \in {"begin", "loop", "trace", "done"}
    /\ dist \in [Nodes -> Nat \cup {Inf}]
    /\ prev \in [Nodes -> Edges \cup {0}]
    /\ visited \in SUBSET Nodes
    /\ result \in {"none", "path", "no_path", "unknown_node"}

\* The order in which the loop visits nodes.
Before(n, m) == dist[n] < dist[m] \/ (dist[n] = dist[m] /\ n < m)

\* The order in which the loop prefers edges into one node.
Offer(e) == dist[NodeFrom[e]] + weight[e]
Better(e, f) ==
    \/ Offer(e) < Offer(f)
    \/ /\ Offer(e) = Offer(f)
       /\ \/ Before(NodeFrom[e], NodeFrom[f])
          \/ NodeFrom[e] = NodeFrom[f] /\ e < f

(***************************************************************************)
(* The inductive invariant of the loop.  The visited nodes precede the     *)
(* reachable ones; a reachable node hangs on a visited one, by an edge     *)
(* better than all others that leave visited nodes for it.                 *)
(***************************************************************************)
TreeInv ==
    /\ src \in Nodes /\ dst \in Nodes /\ src # dst
    /\ dist[src] = 0
    /\ dst \notin visited
    /\ src \in visited \/ (visited = {} /\ Reachable = {src})
    /\ \A n \in visited : dist[n] # Inf
    /\ \A n \in Nodes \ {src} : dist[n] # Inf =>
          /\ prev[n] \in Usable /\ NodeTo[prev[n]] = n
          /\ NodeFrom[prev[n]] \in visited
          /\ dist[n] = Offer(prev[n])
    /\ \A v \in visited, u \in Reachable : Before(v, u)
    /\ \A f \in Usable : NodeFrom[f] \in visited /\ NodeTo[f] # src =>
          /\ dist[NodeTo[f]] # Inf
          /\ prev[NodeTo[f]] = f \/ Better(prev[NodeTo[f]], f)

\* The least by one number and then another.
LEMMA LexLeast ==
    ASSUME NEW S, S # {}, NEW f, NEW g, \A x \in S : f[x] \in Nat /\ g[x] \in Nat
    PROVE  \E x \in S : \A y \in S : f[x] < f[y] \/ (f[x] = f[y] /\ g[x] <= g[y])
<1> DEFINE F == {f[x] : x \in S}
<1>1. F \in SUBSET Nat /\ F # {}  OBVIOUS
<1>2. PICK a \in F : \A b \in F : a <= b
  <2> HIDE DEF F
  <2> QED  BY <1>1, NatLeast
<1> DEFINE A == {x \in S : f[x] = a}
           G == {g[x] : x \in A}
<1>3. G \in SUBSET Nat /\ G # {}  BY <1>2
<1>4. PICK c \in G : \A b \in G : c <= b
  <2> HIDE DEF G
  <2> QED  BY <1>3, NatLeast
<1>5. PICK x \in A : g[x] = c  OBVIOUS
<1>6. ASSUME NEW y \in S  PROVE  f[x] < f[y] \/ (f[x] = f[y] /\ g[x] <= g[y])
  <2>1. f[x] = a /\ a <= f[y]  BY <1>2, <1>5
  <2>2. CASE f[y] = a
    <3>1. g[y] \in G  BY <2>2
    <3> QED  BY <1>4, <1>5, <2>1, <2>2, <3>1
  <2>3. CASE f[y] # a  BY <2>1, <2>3, <1>1, SMT
  <2> QED  BY <2>2, <2>3
<1> QED  BY <1>5, <1>6

\* The scan ends with the nearest node.
LEMMA NearestIsNearest ==
    ASSUME Typed, Reachable # {}
    PROVE  /\ Nearest \in Reachable
           /\ \A m \in Reachable \ {Nearest} : Before(Nearest, m)
<1> DEFINE id == [n \in Nodes |-> n]
<1>1. \A x \in Reachable : dist[x] \in Nat /\ id[x] \in Nat /\ x \in Nodes /\ id[x] = x
  BY NameAssumption DEF Reachable, Typed
<1> HIDE DEF id
<1>2. PICK x \in Reachable : \A y \in Reachable :
         dist[x] < dist[y] \/ (dist[x] = dist[y] /\ id[x] <= id[y])
  BY <1>1, LexLeast
<1>3. \A m \in Reachable \ {x} : dist[x] < dist[m] \/ (dist[x] = dist[m] /\ x < m)
  BY <1>1, <1>2, SMT
<1> QED  BY <1>3 DEF Nearest, Before

\* An edge out of a reachable node is an offer, or the neighbour is no farther.
LEMMA OfferFacts ==
    ASSUME Typed, NEW n \in Nodes, NEW m \in Nodes, dist[n] # Inf
    PROVE  /\ \A e \in Offers(n, m) :
                 /\ e \in Usable /\ NodeFrom[e] = n /\ NodeTo[e] = m
                 /\ weight[e] \in Nat \ {0} /\ Plus(dist[n], weight[e]) = Offer(e)
                 /\ Offer(e) \in Nat /\ (dist[m] # Inf => Offer(e) < dist[m])
           /\ \A e \in Usable : NodeFrom[e] = n /\ NodeTo[e] = m /\ e \notin Offers(n, m) =>
                 dist[m] # Inf /\ dist[m] <= Offer(e)
<1>1. \A e \in Usable : weight[e] \in Nat \ {0} /\ weight[e] # Inf /\ e \in graph /\ e \in Edges
  BY WeightAssumption DEF Typed, Usable, Inf
<1>2. dist[n] \in Nat /\ dist[m] \in Nat \cup {Inf}  BY DEF Typed
<1>3. \A e \in Offers(n, m) : e \in Usable /\ NodeFrom[e] = n /\ NodeTo[e] = m
  BY <1>2 DEF Offers, Usable, Plus, Less
<1> QED  BY <1>1, <1>2, <1>3, SMT DEF Offers, Usable, Plus, Less, Offer, Inf

\* The offer that wins is the least, and among the least the first.
LEMMA BestOfferIsBest ==
    ASSUME Typed, NEW n \in Nodes, NEW m \in Nodes, dist[n] # Inf, Offers(n, m) # {}
    PROVE  /\ BestOffer(n, m) \in Offers(n, m)
           /\ \A f \in Offers(n, m) \ {BestOffer(n, m)} : Better(BestOffer(n, m), f)
<1> DEFINE id == [e \in Edges |-> e]
<1>1. \A e \in Offers(n, m) : /\ weight[e] \in Nat /\ id[e] \in Nat /\ id[e] = e
                              /\ NodeFrom[e] = n
  BY OfferFacts, NameAssumption DEF Typed, Usable
<1> HIDE DEF id
<1>2. PICK x \in Offers(n, m) : \A y \in Offers(n, m) :
         weight[x] < weight[y] \/ (weight[x] = weight[y] /\ id[x] <= id[y])
  BY <1>1, LexLeast
<1>3. \A f \in Offers(n, m) \ {x} : weight[x] < weight[f] \/ (weight[x] = weight[f] /\ x < f)
  BY <1>1, <1>2, SMT
<1>4. /\ BestOffer(n, m) \in Offers(n, m)
      /\ \A f \in Offers(n, m) \ {BestOffer(n, m)} :
            \/ weight[BestOffer(n, m)] < weight[f]
            \/ weight[BestOffer(n, m)] = weight[f] /\ BestOffer(n, m) < f
  BY <1>3 DEF BestOffer
<1>5. dist[n] \in Nat  BY DEF Typed
<1>6. ASSUME NEW f \in Offers(n, m), f # BestOffer(n, m)  PROVE  Better(BestOffer(n, m), f)
  <2>1. /\ Offer(f) = dist[n] + weight[f]
        /\ Offer(BestOffer(n, m)) = dist[n] + weight[BestOffer(n, m)]
    BY <1>1, <1>4 DEF Offer
  <2>2. weight[f] \in Nat /\ weight[BestOffer(n, m)] \in Nat  BY <1>1, <1>4
  <2>3. NodeFrom[f] = NodeFrom[BestOffer(n, m)]  BY <1>1, <1>4
  <2> QED  BY <1>4, <1>5, <1>6, <2>1, <2>2, <2>3, SMT DEF Better
<1> QED  BY <1>4, <1>6

-------------------------------------------------------------------------------
\* Numbers: distances, weights and offers of visited nodes.
LEMMA TreeNumbers ==
    ASSUME Typed, TreeInv
    PROVE  /\ \A v \in visited : v \in Nodes /\ dist[v] \in Nat
           /\ \A f \in Usable : /\ f \in Edges /\ weight[f] \in Nat \ {0}
                                /\ NodeFrom[f] \in Nodes /\ NodeTo[f] \in Nodes
           /\ \A f \in Usable : dist[NodeFrom[f]] # Inf =>
                 Offer(f) \in Nat /\ dist[NodeFrom[f]] < Offer(f)
<1>1. \A n \in Nodes : dist[n] # Inf => dist[n] \in Nat  BY DEF Typed
<1>2. \A f \in Usable : /\ f \in Edges /\ weight[f] \in Nat \ {0}
                        /\ NodeFrom[f] \in Nodes /\ NodeTo[f] \in Nodes
  BY WeightAssumption, EndpointAssumption DEF Typed, Usable
<1>3. \A v \in visited : v \in Nodes /\ dist[v] # Inf  BY DEF Typed, TreeInv
<1>4. ASSUME NEW f \in Usable, dist[NodeFrom[f]] # Inf
      PROVE  Offer(f) \in Nat /\ dist[NodeFrom[f]] < Offer(f)
  BY <1>1, <1>2, <1>4, SMT DEF Offer
<1> QED  BY <1>1, <1>2, <1>3, <1>4

\* One round of the loop keeps the tree.
LEMMA SettleKeepsTree ==
    ASSUME Typed, TreeInv, Settle
    PROVE  Typed' /\ TreeInv'
<1> DEFINE n == Nearest
           Relaxed == {m \in Nodes \ (visited \cup {n}) : Offers(n, m) # {}}
           b(m) == BestOffer(n, m)
<1>1. /\ n \in Nodes \ visited /\ dist[n] # Inf /\ n \in Reachable /\ n # dst
      /\ \A m \in Reachable \ {n} : Before(n, m)
  BY NearestIsNearest DEF Settle, Reachable
<1>2. /\ visited' = visited \cup {n}
      /\ dist' = [m \in Nodes |-> IF m \in Relaxed THEN Plus(dist[n], weight[b(m)]) ELSE dist[m]]
      /\ prev' = [m \in Nodes |-> IF m \in Relaxed THEN b(m) ELSE prev[m]]
      /\ UNCHANGED <<graph, weight, src, dst, pc, result, path>>
  BY DEF Settle, input
<1> HIDE DEF n
<1>3. ASSUME NEW m \in Relaxed
      PROVE  /\ m \in Nodes /\ m \notin visited /\ m # n
             /\ b(m) \in Usable /\ b(m) \in Edges /\ NodeFrom[b(m)] = n /\ NodeTo[b(m)] = m
             /\ dist'[m] = Offer(b(m)) /\ prev'[m] = b(m)
             /\ Offer(b(m)) \in Nat /\ dist[n] < Offer(b(m))
             /\ dist[m] # Inf => Offer(b(m)) < dist[m]
             /\ \A f \in Offers(n, m) \ {b(m)} : Better(b(m), f)
  <2>1. m \in Nodes /\ m \notin visited /\ m # n /\ Offers(n, m) # {}  OBVIOUS
  <2>2. b(m) \in Offers(n, m) /\ \A f \in Offers(n, m) \ {b(m)} : Better(b(m), f)
    BY <1>1, <2>1, BestOfferIsBest
  <2>3. /\ b(m) \in Usable /\ NodeFrom[b(m)] = n /\ NodeTo[b(m)] = m
        /\ Plus(dist[n], weight[b(m)]) = Offer(b(m))
        /\ Offer(b(m)) \in Nat /\ (dist[m] # Inf => Offer(b(m)) < dist[m])
    BY <1>1, <2>1, <2>2, OfferFacts, SMT
  <2>4. b(m) \in Edges /\ dist[n] < Offer(b(m))  BY <1>1, <2>3, TreeNumbers
  <2>5. dist'[m] = Plus(dist[n], weight[b(m)]) /\ prev'[m] = b(m)  BY <1>2, <2>1
  <2> QED  BY <2>1, <2>2, <2>3, <2>4, <2>5
<1>4. \A m \in Nodes \ Relaxed : dist'[m] = dist[m] /\ prev'[m] = prev[m]  BY <1>2
<1>5. Relaxed \subseteq Nodes /\ \A v \in visited' : v \in Nodes \ Relaxed /\ dist'[v] = dist[v]
  BY <1>1, <1>2, <1>4 DEF Typed
<1>6. Typed'
  <2>1. dist' \in [Nodes -> Nat \cup {Inf}]
    <3>1. \A m \in Nodes : dist'[m] \in Nat \cup {Inf}  BY <1>3, <1>4, SMT DEF Typed
    <3>2. DOMAIN dist' = Nodes /\ dist' = [m \in Nodes |-> dist'[m]]  BY <1>2
    <3> QED  BY <3>1, <3>2
  <2>2. prev' \in [Nodes -> Edges \cup {0}]
    <3>1. \A m \in Nodes : prev'[m] \in Edges \cup {0}  BY <1>3, <1>4, SMT DEF Typed
    <3>2. DOMAIN prev' = Nodes /\ prev' = [m \in Nodes |-> prev'[m]]  BY <1>2
    <3> QED  BY <3>1, <3>2
  <2>3. visited' \in SUBSET Nodes  BY <1>1, <1>2 DEF Typed
  <2> QED  BY <1>2, <2>1, <2>2, <2>3 DEF Typed
<1>7. src \in visited' /\ src \notin Relaxed /\ src \in Nodes
  <2>1. src \in visited \/ src = n  BY <1>1 DEF TreeInv
  <2> QED  BY <1>2, <2>1 DEF TreeInv
<1>8. Usable' = Usable  BY <1>2 DEF Usable
<1> HIDE DEF Relaxed, b
<1>9. \A f \in Usable : NodeFrom[f] \in visited' => Offer(f)' = Offer(f)
  BY <1>2, <1>5 DEF Offer
<1>10. \A e, f \in Usable : NodeFrom[e] \in visited' /\ NodeFrom[f] \in visited' =>
          (Better(e, f)' <=> Better(e, f))
  BY <1>5, <1>9 DEF Better, Before
<1>11. \A v \in visited' : v \in Nodes /\ dist[v] \in Nat /\ dist[v] <= dist[n]
  <2>1. \A v \in visited : Before(v, n)  BY <1>1 DEF TreeInv
  <2>2. dist[n] \in Nat  BY <1>1 DEF Typed
  <2> QED  BY <1>1, <1>2, <2>1, <2>2, TreeNumbers, SMT DEF Before
<1>12. \A m \in Nodes \ {src} : dist'[m] # Inf =>
          /\ prev'[m] \in Usable /\ NodeTo[prev'[m]] = m
          /\ NodeFrom[prev'[m]] \in visited'
          /\ dist'[m] = Offer(prev'[m])
  <2> SUFFICES ASSUME NEW m \in Nodes \ {src}, dist'[m] # Inf
               PROVE  /\ prev'[m] \in Usable /\ NodeTo[prev'[m]] = m
                      /\ NodeFrom[prev'[m]] \in visited'
                      /\ dist'[m] = Offer(prev'[m])
    OBVIOUS
  <2>1. CASE m \in Relaxed  BY <1>2, <1>3, <2>1
  <2>2. CASE m \notin Relaxed
    <3>1. dist'[m] = dist[m] /\ prev'[m] = prev[m]  BY <1>4, <2>2
    <3> QED  BY <1>2, <3>1 DEF TreeInv
  <2> QED  BY <2>1, <2>2
<1>13. \A v \in visited', u \in Reachable' : Before(v, u)'
  <2> SUFFICES ASSUME NEW v \in visited', NEW u \in Reachable'
               PROVE  dist'[v] < dist'[u] \/ (dist'[v] = dist'[u] /\ v < u)
    BY DEF Before
  <2>1. u \in Nodes /\ u \notin visited /\ u # n /\ dist'[u] # Inf  BY <1>2 DEF Reachable
  <2>2. dist'[v] = dist[v] /\ dist[v] \in Nat /\ dist[n] \in Nat  BY <1>1, <1>2, <1>5, <1>11
  <2>3. CASE u \in Relaxed
    <3>1. dist'[u] \in Nat /\ dist[n] < dist'[u]  BY <1>3, <2>3, SMT
    <3> QED  BY <1>11, <2>2, <3>1, SMT
  <2>4. CASE u \notin Relaxed
    <3>1. dist'[u] = dist[u] /\ u \in Reachable \ {n}  BY <1>4, <2>1, <2>4 DEF Reachable
    <3>2. Before(v, u)  BY <1>1, <1>2, <3>1 DEF TreeInv
    <3> QED  BY <2>2, <3>1, <3>2 DEF Before
  <2> QED  BY <2>3, <2>4
<1>14. \A f \in Usable : NodeFrom[f] \in visited' /\ NodeTo[f] # src =>
          /\ dist'[NodeTo[f]] # Inf
          /\ prev'[NodeTo[f]] = f \/ Better(prev'[NodeTo[f]], f)
  <2> SUFFICES ASSUME NEW f \in Usable, NodeFrom[f] \in visited', NodeTo[f] # src
               PROVE  /\ dist'[NodeTo[f]] # Inf
                      /\ prev'[NodeTo[f]] = f \/ Better(prev'[NodeTo[f]], f)
    OBVIOUS
  <2> DEFINE m == NodeTo[f]
             e == prev[m]
  <2>0. /\ m \in Nodes \ {src} /\ dist[n] \in Nat
        /\ Offer(f) \in Nat /\ dist[NodeFrom[f]] < Offer(f) /\ dist[NodeFrom[f]] \in Nat
    BY <1>1, <1>2, <1>11, TreeNumbers, SMT DEF Inf
  <2>1. ASSUME dist[m] # Inf
        PROVE  /\ e \in Usable /\ NodeFrom[e] \in visited /\ dist[m] = Offer(e)
               /\ dist[m] \in Nat
    BY <2>0, <2>1 DEF TreeInv, Typed
  <2> HIDE DEF m
  <2>2. CASE m \in Relaxed
    <3>1. /\ dist'[m] # Inf /\ prev'[m] = b(m) /\ Offer(b(m)) \in Nat
          /\ dist[m] # Inf => Offer(b(m)) < dist[m]
          /\ \A g \in Offers(n, m) \ {b(m)} : Better(b(m), g)
      BY <1>3, <2>2, SMT DEF Inf
    <3>2. CASE f \in Offers(n, m)  BY <3>1, <3>2 DEF m
    <3>3. CASE f \notin Offers(n, m)
      <4>1. dist[m] # Inf /\ dist[m] \in Nat /\ dist[m] <= Offer(f)
        <5>1. CASE NodeFrom[f] = n  BY <1>1, <2>0, <2>1, <3>3, <5>1, OfferFacts DEF m
        <5>2. CASE NodeFrom[f] \in visited
          <6>1. dist[m] # Inf /\ (e = f \/ Better(e, f))  BY <5>2 DEF TreeInv, m
          <6>2. dist[m] = Offer(e) /\ dist[m] \in Nat  BY <2>1, <6>1
          <6> QED  BY <2>0, <6>1, <6>2, SMT DEF Better
        <5> QED  BY <1>2, <5>1, <5>2
      <4>2. Offer(b(m)) < Offer(f)  BY <2>0, <3>1, <4>1, SMT
      <4> QED  BY <3>1, <4>2 DEF Better, m
    <3> QED  BY <3>2, <3>3
  <2>3. CASE m \notin Relaxed
    <3>1. dist'[m] = dist[m] /\ prev'[m] = e  BY <1>4, <2>0, <2>3
    <3>2. CASE NodeFrom[f] \in visited
      BY <3>1, <3>2 DEF TreeInv, m
    <3>3. CASE NodeFrom[f] = n
      <4>1. CASE m \in visited'
        <5>1. dist[m] \in Nat /\ dist[m] <= dist[n] /\ dist[m] # Inf  BY <1>11, <4>1, SMT DEF Inf
        <5>2. Offer(e) < Offer(f)  BY <2>0, <2>1, <3>3, <5>1, SMT
        <5> QED  BY <3>1, <5>1, <5>2 DEF Better, m
      <4>2. CASE m \notin visited'
        <5>1. f \notin Offers(n, m)  BY <1>2, <2>0, <2>3, <4>2 DEF Relaxed
        <5>2. dist[m] # Inf /\ dist[m] <= Offer(f)
          BY <1>1, <2>0, <3>3, <5>1, OfferFacts DEF m
        <5>3. Before(NodeFrom[e], NodeFrom[f])  BY <1>1, <2>1, <3>3, <5>2 DEF TreeInv
        <5>4. Offer(e) < Offer(f) \/ Offer(e) = Offer(f)  BY <2>0, <2>1, <5>2, SMT
        <5> QED  BY <3>1, <5>2, <5>3, <5>4 DEF Better, m
      <4> QED  BY <4>1, <4>2
    <3> QED  BY <1>2, <3>2, <3>3
  <2> QED  BY <2>2, <2>3 DEF m
<1>15. TreeInv'
  <2>1. dist'[src] = 0  BY <1>4, <1>7 DEF TreeInv
  <2>2. dst \notin visited'  BY <1>1, <1>2 DEF TreeInv
  <2>3. \A v \in visited' : dist'[v] # Inf  BY <1>5, <1>11, SMT DEF Inf
  <2>4. \A m \in Nodes \ {src} : dist'[m] # Inf =>
          /\ prev'[m] \in Usable' /\ NodeTo[prev'[m]] = m
          /\ NodeFrom[prev'[m]] \in visited'
          /\ dist'[m] = Offer(prev[m])'
    <3> SUFFICES ASSUME NEW m \in Nodes \ {src}, dist'[m] # Inf
                 PROVE  /\ prev'[m] \in Usable' /\ NodeTo[prev'[m]] = m
                        /\ NodeFrom[prev'[m]] \in visited'
                        /\ dist'[m] = Offer(prev[m])'
      OBVIOUS
    <3>1. /\ prev'[m] \in Usable /\ NodeTo[prev'[m]] = m
          /\ NodeFrom[prev'[m]] \in visited'
          /\ dist'[m] = Offer(prev'[m])
      BY <1>12
    <3>2. Offer(prev[m])' = dist'[NodeFrom[prev'[m]]] + weight'[prev'[m]]  BY DEF Offer
    <3>3. Offer(prev'[m]) = dist[NodeFrom[prev'[m]]] + weight[prev'[m]]  BY DEF Offer
    <3> QED  BY <1>2, <1>5, <1>8, <3>1, <3>2, <3>3
  <2>5. \A f \in Usable' : NodeFrom[f] \in visited' /\ NodeTo[f] # src =>
          /\ dist'[NodeTo[f]] # Inf
          /\ prev'[NodeTo[f]] = f \/ Better(prev[NodeTo[f]], f)'
    <3> SUFFICES ASSUME NEW f \in Usable, NodeFrom[f] \in visited', NodeTo[f] # src
                 PROVE  /\ dist'[NodeTo[f]] # Inf
                        /\ prev'[NodeTo[f]] = f \/ Better(prev[NodeTo[f]], f)'
      BY <1>8
    <3> DEFINE e == prev'[NodeTo[f]]
    <3>1. dist'[NodeTo[f]] # Inf /\ (e = f \/ Better(e, f))  BY <1>14
    <3>2. NodeTo[f] \in Nodes \ {src}  BY TreeNumbers
    <3>3. e \in Usable /\ NodeFrom[e] \in visited'  BY <1>12, <3>1, <3>2
    <3>4. dist'[NodeFrom[e]] = dist[NodeFrom[e]] /\ dist'[NodeFrom[f]] = dist[NodeFrom[f]]
      BY <1>5, <3>3
    <3>5. Better(prev[NodeTo[f]], f)' <=> Better(e, f)
      BY <1>2, <3>4 DEF Better, Before, Offer
    <3> QED  BY <3>1, <3>5
  <2> QED  BY <1>2, <1>7, <1>13, <2>1, <2>2, <2>3, <2>4, <2>5 DEF TreeInv
<1> QED  BY <1>6, <1>15

-------------------------------------------------------------------------------
\* The cost of the first k edges of a path.
AddsUp(h, p) == h = [k \in 0..Len(p) |-> IF k = 0 THEN 0 ELSE h[k - 1] + weight[p[k]]]
Costs(p) == CHOOSE h : AddsUp(h, p)
PrefixCost(p, k) == Costs(p)[k]

\* A walk of L usable edges from src.
IsWalk(p, L) ==
    /\ L \in Nat \ {0}
    /\ p \in [1..L -> Usable]
    /\ NodeFrom[p[1]] = src
    /\ \A i \in 1..(L - 1) : NodeTo[p[i]] = NodeFrom[p[i + 1]]

\* A walk is a sequence.
LEMMA WalkIsSequence ==
    ASSUME NEW L \in Nat, NEW S, NEW p \in [1..L -> S]
    PROVE  p \in Seq(S) /\ Len(p) = L /\ DOMAIN p = 1..L
BY SMT

\* The cost of a walk adds up edge by edge.
LEMMA PrefixCostSteps ==
    ASSUME Typed, TreeInv, NEW p, NEW L, IsWalk(p, L)
    PROVE  /\ PrefixCost(p, 0) = 0
           /\ \A k \in 0..L : PrefixCost(p, k) \in Nat
           /\ \A k \in 0..(L - 1) : PrefixCost(p, k + 1) = PrefixCost(p, k) + weight[p[k + 1]]
           /\ PathCost(p, weight) = PrefixCost(p, L)
<1> DEFINE Sums(n) == \E h \in [0..n -> Nat] :
                         h[0] = 0 /\ \A k \in 1..n : h[k] = h[k - 1] + weight[p[k]]
           T == {n \in Nat : n <= L => Sums(n)}
<1>1. L \in Nat /\ DOMAIN p = 1..L /\ Len(p) = L /\ \A i \in 1..L : weight[p[i]] \in Nat
  BY WalkIsSequence, TreeNumbers DEF IsWalk
<1>2. 0 \in T
  <2>1. [k \in 0..0 |-> 0] \in [0..0 -> Nat] /\ 1..0 = {} /\ 0 \in 0..0  BY SMT
  <2> QED  BY <2>1
<1>3. ASSUME NEW n \in Nat, n \in T  PROVE  n + 1 \in T
  <2> HIDE DEF Sums
  <2> SUFFICES ASSUME n + 1 <= L  PROVE  Sums(n + 1)
    BY SMT
  <2> USE DEF Sums
  <2>1. PICK h \in [0..n -> Nat] : h[0] = 0 /\ \A k \in 1..n : h[k] = h[k - 1] + weight[p[k]]
    BY <1>1, <1>3, SMT
  <2> DEFINE g == [k \in 0..(n + 1) |-> IF k \in 0..n THEN h[k] ELSE h[n] + weight[p[n + 1]]]
  <2>2. n \in 0..n /\ n + 1 \in 1..L /\ n + 1 \notin 0..n /\ 0 \in 0..n  BY <1>1, SMT
  <2>3. g \in [0..(n + 1) -> Nat] /\ g[0] = 0  BY <1>1, <2>1, <2>2, SMT
  <2>4. ASSUME NEW k \in 1..(n + 1)  PROVE  g[k] = g[k - 1] + weight[p[k]]
    <3>1. k - 1 \in 0..n /\ k \in 0..(n + 1) /\ k - 1 \in 0..(n + 1)  BY SMT
    <3>2. g[k - 1] = h[k - 1]  BY <3>1
    <3>3. CASE k \in 1..n
      <4>1. g[k] = h[k]  BY <3>3, SMT
      <4> QED  BY <2>1, <3>2, <3>3, <4>1
    <3>4. CASE k = n + 1
      <4>1. g[k] = h[n] + weight[p[n + 1]] /\ k - 1 = n  BY <2>2, <3>4, SMT
      <4> QED  BY <3>2, <3>4, <4>1
    <3> QED  BY <3>3, <3>4, SMT
  <2> QED  BY <2>3, <2>4
<1> HIDE DEF T
<1>4. L \in T  BY <1>1, <1>2, <1>3, NatInductive
<1>5. PICK h \in [0..L -> Nat] : h[0] = 0 /\ \A k \in 1..L : h[k] = h[k - 1] + weight[p[k]]
  BY <1>1, <1>4, SMT DEF T
<1>6. AddsUp(h, p)
  <2>1. ASSUME NEW k \in 0..L  PROVE  h[k] = IF k = 0 THEN 0 ELSE h[k - 1] + weight[p[k]]
    BY <1>5, SMT
  <2>2. h = [k \in 0..L |-> h[k]]  OBVIOUS
  <2> QED  BY <1>1, <2>1, <2>2 DEF AddsUp
<1>7. AddsUp(Costs(p), p)  BY <1>6 DEF Costs
<1>8. /\ Costs(p)[0] = 0
      /\ \A k \in 1..L : Costs(p)[k] = Costs(p)[k - 1] + weight[p[k]]
  <2>1. 0 \in 0..L /\ \A k \in 1..L : k \in 0..L /\ k # 0  BY <1>1, SMT
  <2> QED  BY <1>1, <1>7, <2>1 DEF AddsUp
<1> DEFINE S == {k \in Nat : k <= L => Costs(p)[k] \in Nat}
<1>9. 0 \in S  BY <1>8, SMT
<1>10. ASSUME NEW k \in Nat, k \in S  PROVE  k + 1 \in S
  <2> SUFFICES ASSUME k + 1 <= L  PROVE  Costs(p)[k + 1] \in Nat
    BY SMT
  <2>1. k + 1 \in 1..L /\ (k + 1) - 1 = k /\ Costs(p)[k] \in Nat  BY <1>1, <1>10, SMT
  <2>2. Costs(p)[k + 1] = Costs(p)[k] + weight[p[k + 1]]  BY <1>8, <2>1
  <2> QED  BY <1>1, <2>1, <2>2, SMT
<1> HIDE DEF S
<1>11. Nat \subseteq S  BY <1>9, <1>10, NatInductive
<1>12. \A k \in 0..L : Costs(p)[k] \in Nat  BY <1>1, <1>11, SMT DEF S
<1>13. ASSUME NEW k \in 0..(L - 1)  PROVE  Costs(p)[k + 1] = Costs(p)[k] + weight[p[k + 1]]
  <2>1. k + 1 \in 1..L /\ (k + 1) - 1 = k  BY <1>1, SMT
  <2> QED  BY <1>8, <2>1
<1>14. PathCost(p, weight) = Costs(p)[L]  BY <1>1 DEF PathCost, Costs, AddsUp
<1> QED  BY <1>8, <1>12, <1>13, <1>14 DEF PrefixCost

\* Costs grow along a walk: no edge is free.
LEMMA PrefixCostGrows ==
    ASSUME Typed, TreeInv, NEW p, NEW L, IsWalk(p, L), NEW i \in 0..L, NEW j \in 0..L, i < j
    PROVE  PrefixCost(p, i) < PrefixCost(p, j)
<1> DEFINE T == {k \in Nat : i + k + 1 <= L => PrefixCost(p, i) < PrefixCost(p, i + k + 1)}
<1>0. L \in Nat /\ \A k \in 1..L : weight[p[k]] \in Nat \ {0}
  BY TreeNumbers DEF IsWalk
<1>1. \A k \in 0..(L - 1) : /\ PrefixCost(p, k) \in Nat /\ PrefixCost(p, k + 1) \in Nat
                            /\ PrefixCost(p, k) < PrefixCost(p, k + 1)
  <2> TAKE k \in 0..(L - 1)
  <2>1. k \in 0..L /\ k + 1 \in 0..L /\ k + 1 \in 1..L  BY <1>0, SMT
  <2>2. /\ PrefixCost(p, k) \in Nat /\ PrefixCost(p, k + 1) \in Nat
        /\ PrefixCost(p, k + 1) = PrefixCost(p, k) + weight[p[k + 1]]
    BY <2>1, PrefixCostSteps
  <2> QED  BY <1>0, <2>1, <2>2, SMT
<1>2. 0 \in T
  <2>1. CASE i + 1 <= L
    <3>1. i \in 0..(L - 1)  BY <1>0, <2>1, SMT
    <3> QED  BY <1>1, <3>1, SMT
  <2>2. CASE ~(i + 1 <= L)  BY <2>2, SMT
  <2> QED  BY <2>1, <2>2
<1>3. ASSUME NEW k \in Nat, k \in T  PROVE  k + 1 \in T
  <2> SUFFICES ASSUME i + (k + 1) + 1 <= L
               PROVE  PrefixCost(p, i) < PrefixCost(p, i + (k + 1) + 1)
    BY SMT
  <2> DEFINE m == i + k + 1
  <2>1. m \in 0..(L - 1) /\ i + (k + 1) + 1 = m + 1 /\ i \in 0..(L - 1)  BY <1>0, SMT
  <2>2. PrefixCost(p, i) < PrefixCost(p, m)  BY <1>0, <1>3, SMT
  <2> HIDE DEF m, T
  <2>3. /\ PrefixCost(p, i) \in Nat /\ PrefixCost(p, m) \in Nat /\ PrefixCost(p, m + 1) \in Nat
        /\ PrefixCost(p, m) < PrefixCost(p, m + 1)
    BY <1>1, <2>1
  <2> QED  BY <2>1, <2>2, <2>3, SMT
<1> HIDE DEF T
<1>4. Nat \subseteq T  BY <1>2, <1>3, NatInductive
<1>5. j - i - 1 \in Nat /\ i + (j - i - 1) + 1 = j /\ j <= L  BY <1>0, SMT
<1>6. j - i - 1 \in T  BY <1>4, <1>5
<1> QED  BY <1>5, <1>6 DEF T

\* An edge out of a visited node has been relaxed.
LEMMA EdgeIsRelaxed ==
    ASSUME Typed, TreeInv, NEW f \in Usable, NodeFrom[f] \in visited
    PROVE  /\ dist[NodeTo[f]] \in Nat /\ dist[NodeTo[f]] # Inf
           /\ dist[NodeTo[f]] <= dist[NodeFrom[f]] + weight[f]
<1>1. /\ dist[NodeFrom[f]] \in Nat /\ weight[f] \in Nat \ {0} /\ NodeTo[f] \in Nodes
      /\ Offer(f) \in Nat /\ Offer(f) = dist[NodeFrom[f]] + weight[f]
  BY TreeNumbers DEF TreeInv, Offer
<1>2. CASE NodeTo[f] = src  BY <1>1, <1>2, SMT DEF TreeInv, Inf
<1>3. CASE NodeTo[f] # src
  <2>1. /\ dist[NodeTo[f]] # Inf
        /\ prev[NodeTo[f]] = f \/ Better(prev[NodeTo[f]], f)
    BY <1>3 DEF TreeInv
  <2>2. dist[NodeTo[f]] = Offer(prev[NodeTo[f]]) /\ dist[NodeTo[f]] \in Nat
    BY <1>1, <1>3, <2>1 DEF TreeInv, Typed
  <2> QED  BY <1>1, <2>1, <2>2, SMT DEF Better
<1> QED  BY <1>2, <1>3

\* No unvisited node is nearer than n.
IsSettled(n) ==
    /\ n \in Nodes /\ dist[n] # Inf
    /\ \A u \in Reachable : ~(dist[u] < dist[n])

\* What the loop has visited is settled, and so is the node it takes next.
LEMMA VisitedAreSettled ==
    ASSUME Typed, TreeInv
    PROVE  /\ \A n \in visited : IsSettled(n)
           /\ Reachable # {} => IsSettled(Nearest)
<1>1. \A u \in Reachable : dist[u] \in Nat /\ u \in Nodes /\ dist[u] # Inf
  BY DEF Reachable, Typed
<1>2. \A n \in visited : IsSettled(n)
  BY <1>1, TreeNumbers, SMT DEF TreeInv, IsSettled, Before
<1>3. ASSUME Reachable # {}  PROVE  IsSettled(Nearest)
  BY <1>1, <1>3, NearestIsNearest, SMT DEF IsSettled, Before
<1> QED  BY <1>2, <1>3

\* A walk that is still cheaper than a settled node is among the visited ones,
\* and is not cheaper than the distance of the node it has come to.
LEMMA WalkLowerBound ==
    ASSUME Typed, TreeInv, NEW n, IsSettled(n), NEW p, NEW L, IsWalk(p, L)
    PROVE  /\ \A k \in 1..L :
                 \/ PrefixCost(p, k) >= dist[n]
                 \/ /\ dist[NodeTo[p[k]]] \in Nat
                    /\ dist[NodeTo[p[k]]] <= PrefixCost(p, k)
                    /\ NodeTo[p[k]] \in visited
           /\ \A k \in 1..L : \/ PrefixCost(p, k - 1) >= dist[n]
                              \/ NodeFrom[p[k]] \in visited
<1> DEFINE At(k) == IF k = 0 THEN src ELSE NodeTo[p[k]]
           T == {k \in Nat : k <= L =>
                    \/ PrefixCost(p, k) >= dist[n]
                    \/ /\ dist[At(k)] \in Nat /\ dist[At(k)] <= PrefixCost(p, k)
                       /\ At(k) \in visited}
<1>0. /\ L \in Nat \ {0} /\ dist[n] \in Nat
      /\ \A k \in 0..L : PrefixCost(p, k) \in Nat /\ At(k) \in Nodes
      /\ \A k \in 1..L : p[k] \in Usable /\ NodeFrom[p[k]] = At(k - 1)
  <2>1. L \in Nat \ {0} /\ \A k \in 1..L : p[k] \in Usable  BY DEF IsWalk
  <2>2. dist[n] \in Nat  BY DEF IsSettled, Typed
  <2>3. \A k \in 0..L : PrefixCost(p, k) \in Nat  BY PrefixCostSteps
  <2>4. \A k \in 0..L : At(k) \in Nodes  BY <2>1, TreeNumbers, SMT DEF TreeInv
  <2>5. ASSUME NEW k \in 1..L  PROVE  NodeFrom[p[k]] = At(k - 1)
    <3>1. CASE k = 1  BY <3>1, SMT DEF IsWalk
    <3>2. CASE k # 1
      <4>1. k - 1 \in 1..(L - 1) /\ (k - 1) + 1 = k  BY <2>1, <3>2, SMT
      <4>2. NodeTo[p[k - 1]] = NodeFrom[p[(k - 1) + 1]]  BY <4>1 DEF IsWalk
      <4> QED  BY <4>1, <4>2, SMT
    <3> QED  BY <3>1, <3>2
  <2> QED  BY <2>1, <2>2, <2>3, <2>4, <2>5
<1> HIDE DEF At
<1>1. ASSUME NEW m \in Nodes, dist[m] \in Nat, dist[m] < dist[n]  PROVE  m \in visited
  BY <1>1, SMT DEF IsSettled, Reachable, Inf
<1>2. 0 \in T
  <2>1. At(0) = src /\ dist[src] = 0 /\ PrefixCost(p, 0) = 0 /\ src \in Nodes
    BY PrefixCostSteps DEF At, TreeInv
  <2>2. CASE dist[n] = 0  BY <2>1, <2>2, SMT
  <2>3. CASE dist[n] # 0  BY <1>0, <1>1, <2>1, <2>3, SMT
  <2> QED  BY <2>2, <2>3
<1>3. ASSUME NEW k \in Nat, k \in T  PROVE  k + 1 \in T
  <2> SUFFICES ASSUME k + 1 <= L, ~(PrefixCost(p, k + 1) >= dist[n])
               PROVE  /\ dist[At(k + 1)] \in Nat /\ dist[At(k + 1)] <= PrefixCost(p, k + 1)
                      /\ At(k + 1) \in visited
    BY SMT
  <2> DEFINE f == p[k + 1]
  <2>1. /\ k \in 0..(L - 1) /\ k \in 0..L /\ k + 1 \in 0..L /\ k + 1 \in 1..L
        /\ (k + 1) - 1 = k
    BY <1>0, SMT
  <2>2. f \in Usable /\ NodeFrom[f] = At(k)  BY <1>0, <2>1
  <2>3. PrefixCost(p, k + 1) = PrefixCost(p, k) + weight[f] /\ weight[f] \in Nat
    BY <2>1, <2>2, PrefixCostSteps, TreeNumbers
  <2>4. PrefixCost(p, k) \in Nat /\ PrefixCost(p, k + 1) \in Nat  BY <1>0, <2>1
  <2>5. /\ dist[At(k)] \in Nat /\ dist[At(k)] <= PrefixCost(p, k)
        /\ At(k) \in visited
    BY <1>0, <1>3, <2>1, <2>3, <2>4, SMT
  <2>6. At(k + 1) = NodeTo[f] /\ At(k + 1) \in Nodes  BY <1>0, <2>1, SMT DEF At
  <2> HIDE DEF f, T
  <2>7. dist[NodeTo[f]] \in Nat /\ dist[NodeTo[f]] <= dist[At(k)] + weight[f]
    BY <2>2, <2>5, EdgeIsRelaxed
  <2>8. dist[At(k + 1)] \in Nat /\ dist[At(k + 1)] <= PrefixCost(p, k + 1)
    BY <2>3, <2>4, <2>5, <2>6, <2>7, SMT
  <2> QED  BY <1>0, <1>1, <2>4, <2>6, <2>8, SMT
<1> HIDE DEF T
<1>4. Nat \subseteq T  BY <1>2, <1>3, NatInductive
<1>5. ASSUME NEW k \in 0..L
      PROVE  \/ PrefixCost(p, k) >= dist[n]
             \/ /\ dist[At(k)] \in Nat /\ dist[At(k)] <= PrefixCost(p, k)
                /\ At(k) \in visited
  BY <1>0, <1>4, SMT DEF T
<1>6. ASSUME NEW k \in 1..L
      PROVE  \/ PrefixCost(p, k) >= dist[n]
             \/ /\ dist[NodeTo[p[k]]] \in Nat
                /\ dist[NodeTo[p[k]]] <= PrefixCost(p, k)
                /\ NodeTo[p[k]] \in visited
  BY <1>0, <1>5, SMT DEF At
<1>7. ASSUME NEW k \in 1..L
      PROVE  PrefixCost(p, k - 1) >= dist[n] \/ NodeFrom[p[k]] \in visited
  <2>1. k - 1 \in 0..L  BY <1>0, SMT
  <2> QED  BY <1>0, <1>5, <2>1
<1> QED  BY <1>6, <1>7

-------------------------------------------------------------------------------
\* The walk to n along the predecessors.
IsTreePath(p, L, n) ==
    /\ IsWalk(p, L)
    /\ NodeTo[p[L]] = n
    /\ \A i \in 1..L : /\ p[i] = prev[NodeTo[p[i]]] /\ NodeTo[p[i]] # src
                       /\ dist[NodeTo[p[i]]] # Inf

\* Every reachable node has one.
LEMMA TreePathExists ==
    ASSUME Typed, TreeInv, NEW n \in Nodes \ {src}, dist[n] # Inf
    PROVE  \E L \in Nat : \E p \in [1..L -> Usable] : IsTreePath(p, L, n)
<1> DEFINE Has(m) == \E L \in Nat : \E p \in [1..L -> Usable] : IsTreePath(p, L, m)
           T == {d \in Nat : \A m \in Nodes \ {src} : dist[m] # Inf /\ dist[m] <= d => Has(m)}
<1>1. ASSUME NEW m \in Nodes \ {src}, dist[m] # Inf
      PROVE  /\ prev[m] \in Usable /\ NodeTo[prev[m]] = m
             /\ NodeFrom[prev[m]] \in Nodes /\ dist[NodeFrom[prev[m]]] \in Nat
             /\ dist[NodeFrom[prev[m]]] < dist[m] /\ dist[m] \in Nat
  <2>1. /\ prev[m] \in Usable /\ NodeTo[prev[m]] = m
        /\ NodeFrom[prev[m]] \in visited /\ dist[m] = Offer(prev[m])
    BY <1>1 DEF TreeInv
  <2>2. dist[NodeFrom[prev[m]]] # Inf  BY <2>1 DEF TreeInv
  <2> QED  BY <2>1, <2>2, TreeNumbers
<1>2. ASSUME NEW m \in Nodes \ {src}, dist[m] # Inf, NodeFrom[prev[m]] = src  PROVE  Has(m)
  <2> DEFINE p == [i \in 1..1 |-> prev[m]]
  <2>1. p \in [1..1 -> Usable] /\ p[1] = prev[m] /\ 1 \in Nat \ {0}  BY <1>1, <1>2, SMT
  <2>2. NodeFrom[p[1]] = src /\ NodeTo[p[1]] = m  BY <1>1, <1>2, <2>1
  <2>3. IsTreePath(p, 1, m)
    <3>1. \A i \in 1..(1 - 1) : NodeTo[p[i]] = NodeFrom[p[i + 1]]  BY SMT
    <3> HIDE DEF p
    <3>2. IsWalk(p, 1)  BY <2>1, <2>2, <3>1 DEF IsWalk
    <3> QED  BY <1>1, <1>2, <2>1, <2>2, <3>2, SMT DEF IsTreePath
  <2> HIDE DEF p
  <2> QED  BY <2>1, <2>3
<1>3. ASSUME NEW m \in Nodes \ {src}, dist[m] # Inf, NodeFrom[prev[m]] # src,
             Has(NodeFrom[prev[m]])
      PROVE  Has(m)
  <2>0. PICK L \in Nat : \E q \in [1..L -> Usable] : IsTreePath(q, L, NodeFrom[prev[m]])
    BY <1>3
  <2>1. PICK q \in [1..L -> Usable] : IsTreePath(q, L, NodeFrom[prev[m]])  BY <2>0
  <2> DEFINE p == [i \in 1..(L + 1) |-> IF i <= L THEN q[i] ELSE prev[m]]
  <2>2. /\ L \in Nat \ {0} /\ NodeFrom[q[1]] = src /\ NodeTo[q[L]] = NodeFrom[prev[m]]
        /\ \A i \in 1..(L - 1) : NodeTo[q[i]] = NodeFrom[q[i + 1]]
        /\ \A i \in 1..L : /\ q[i] = prev[NodeTo[q[i]]] /\ NodeTo[q[i]] # src
                           /\ dist[NodeTo[q[i]]] # Inf
    BY <2>1 DEF IsTreePath, IsWalk
  <2>3. /\ p \in [1..(L + 1) -> Usable] /\ p[L + 1] = prev[m]
        /\ \A i \in 1..L : p[i] = q[i]
    BY <1>1, <1>3, <2>2, SMT
  <2>4. NodeFrom[p[1]] = src  BY <2>2, <2>3, SMT
  <2> HIDE DEF p
  <2>5. \A i \in 1..((L + 1) - 1) : NodeTo[p[i]] = NodeFrom[p[i + 1]]
    <3> SUFFICES ASSUME NEW i \in 1..L  PROVE  NodeTo[p[i]] = NodeFrom[p[i + 1]]
      BY <2>2, SMT
    <3>1. CASE i = L  BY <2>2, <2>3, <3>1
    <3>2. CASE i # L
      <4>1. i \in 1..(L - 1) /\ i + 1 \in 1..L  BY <2>2, <3>2, SMT
      <4> QED  BY <2>2, <2>3, <4>1
    <3> QED  BY <3>1, <3>2
  <2>6. \A i \in 1..(L + 1) : /\ p[i] = prev[NodeTo[p[i]]] /\ NodeTo[p[i]] # src
                              /\ dist[NodeTo[p[i]]] # Inf
    <3> TAKE i \in 1..(L + 1)
    <3>1. CASE i = L + 1  BY <1>1, <1>3, <2>3, <3>1
    <3>2. CASE i \in 1..L  BY <2>2, <2>3, <3>2
    <3> QED  BY <2>2, <3>1, <3>2, SMT
  <2>7. NodeTo[p[L + 1]] = m  BY <1>1, <1>3, <2>3
  <2>8. L + 1 \in Nat \ {0}  BY <2>2, SMT
  <2>9. IsTreePath(p, L + 1, m)  BY <2>3, <2>4, <2>5, <2>6, <2>7, <2>8 DEF IsTreePath, IsWalk
  <2> QED  BY <2>3, <2>8, <2>9
<1> HIDE DEF Has
<1>4. 0 \in T
  <2> SUFFICES ASSUME NEW m \in Nodes \ {src}, dist[m] # Inf, dist[m] <= 0  PROVE  FALSE
    OBVIOUS
  <2> QED  BY <1>1, SMT
<1>5. ASSUME NEW d \in Nat, d \in T  PROVE  d + 1 \in T
  <2> SUFFICES ASSUME NEW m \in Nodes \ {src}, dist[m] # Inf, dist[m] <= d + 1  PROVE  Has(m)
    BY SMT
  <2>1. CASE NodeFrom[prev[m]] = src  BY <1>2, <2>1
  <2>2. CASE NodeFrom[prev[m]] # src
    <3>1. /\ NodeFrom[prev[m]] \in Nodes \ {src} /\ dist[NodeFrom[prev[m]]] # Inf
          /\ dist[NodeFrom[prev[m]]] <= d
      BY <1>1, <2>2, SMT DEF Inf
    <3>2. Has(NodeFrom[prev[m]])  BY <1>5, <3>1
    <3> QED  BY <1>3, <2>2, <3>2
  <2> QED  BY <2>1, <2>2
<1> HIDE DEF T
<1>6. Nat \subseteq T  BY <1>4, <1>5, NatInductive
<1>7. dist[n] \in Nat /\ dist[n] <= dist[n]  BY <1>1, SMT
<1>8. dist[n] \in T  BY <1>6, <1>7
<1>9. Has(n)  BY <1>7, <1>8 DEF T
<1> QED  BY <1>9 DEF Has

\* Along it the cost so far is the distance.
LEMMA TreePathCost ==
    ASSUME Typed, TreeInv, NEW n, NEW p, NEW L, IsTreePath(p, L, n)
    PROVE  /\ \A k \in 1..L : dist[NodeTo[p[k]]] = PrefixCost(p, k)
           /\ dist[n] = PathCost(p, weight) /\ n \in Nodes /\ dist[n] # Inf
<1> DEFINE At(k) == IF k = 0 THEN src ELSE NodeTo[p[k]]
           T == {k \in Nat : k <= L => dist[At(k)] = PrefixCost(p, k)}
<1>0. /\ L \in Nat \ {0} /\ IsWalk(p, L) /\ NodeTo[p[L]] = n
      /\ \A k \in 1..L : /\ p[k] \in Usable /\ p[k] = prev[NodeTo[p[k]]] /\ NodeTo[p[k]] # src
                         /\ dist[NodeTo[p[k]]] # Inf
  BY DEF IsTreePath, IsWalk
<1>1. ASSUME NEW k \in Nat, k + 1 <= L
      PROVE  NodeFrom[p[k + 1]] = At(k) /\ At(k + 1) = NodeTo[p[k + 1]]
  <2>1. CASE k = 0  BY <1>0, <2>1, SMT DEF IsWalk
  <2>2. CASE k # 0
    <3>1. k \in 1..(L - 1)  BY <1>0, <1>1, <2>2, SMT
    <3> QED  BY <1>0, <2>2, <3>1, SMT DEF IsWalk
  <2> QED  BY <2>1, <2>2
<1> HIDE DEF At
<1>2. 0 \in T
  <2>1. At(0) = src  BY DEF At
  <2> QED  BY <1>0, <2>1, PrefixCostSteps DEF TreeInv
<1>3. ASSUME NEW k \in Nat, k \in T  PROVE  k + 1 \in T
  <2> SUFFICES ASSUME k + 1 <= L  PROVE  dist[At(k + 1)] = PrefixCost(p, k + 1)
    BY SMT
  <2> DEFINE f == p[k + 1]
  <2>1. k \in 0..(L - 1) /\ k + 1 \in 1..L  BY <1>0, SMT
  <2>2. PrefixCost(p, k + 1) = PrefixCost(p, k) + weight[f]  BY <1>0, <2>1, PrefixCostSteps
  <2>3. f \in Usable /\ f = prev[NodeTo[f]] /\ NodeTo[f] # src /\ dist[NodeTo[f]] # Inf
    BY <1>0, <2>1
  <2>4. dist[NodeTo[f]] = dist[NodeFrom[f]] + weight[f]
    BY <2>3, TreeNumbers, SMT DEF TreeInv, Offer
  <2>5. dist[At(k)] = PrefixCost(p, k)  BY <1>0, <1>3, SMT
  <2> QED  BY <1>1, <2>2, <2>4, <2>5
<1> HIDE DEF T
<1>4. Nat \subseteq T  BY <1>2, <1>3, NatInductive
<1>5. ASSUME NEW k \in 1..L  PROVE  dist[NodeTo[p[k]]] = PrefixCost(p, k)
  BY <1>0, <1>4, SMT DEF T, At
<1>6. dist[n] = PathCost(p, weight)  BY <1>0, <1>5, PrefixCostSteps, SMT
<1>7. n \in Nodes /\ dist[n] # Inf  BY <1>0, TreeNumbers, SMT
<1> QED  BY <1>5, <1>6, <1>7

\* A tree path is simple, so it is one of the paths to n.
LEMMA TreePathIsPath ==
    ASSUME Typed, TreeInv, NEW n, NEW p, NEW L, IsTreePath(p, L, n)
    PROVE  p \in PathsBetween(Usable, src, n) /\ L < Cardinality(Nodes) /\ Len(p) = L
<1>0. /\ L \in Nat \ {0} /\ IsWalk(p, L) /\ NodeTo[p[L]] = n /\ NodeFrom[p[1]] = src
      /\ p \in [1..L -> Usable] /\ \A i \in 1..(L - 1) : NodeTo[p[i]] = NodeFrom[p[i + 1]]
  BY DEF IsTreePath, IsWalk
<1>1. Usable \subseteq Edges  BY DEF Usable, Typed
<1>2. p \in [1..L -> Edges] /\ Len(p) = L /\ DOMAIN p = 1..L
  BY <1>0, <1>1, WalkIsSequence
<1>3. ASSUME NEW i \in 1..(L + 1)
      PROVE  PathNodes(p)[i] \in Nodes /\ dist[PathNodes(p)[i]] = PrefixCost(p, i - 1)
  <2>1. PathNodes(p)[i] = IF i = 1 THEN NodeFrom[p[1]] ELSE NodeTo[p[i - 1]]
    BY <1>2 DEF PathNodes
  <2>2. CASE i = 1
    <3>1. PathNodes(p)[i] = src  BY <1>0, <2>1, <2>2
    <3>2. PrefixCost(p, 0) = 0  BY <1>0, PrefixCostSteps
    <3>3. src \in Nodes /\ dist[src] = 0  BY DEF TreeInv
    <3>4. i - 1 = 0  BY <2>2, SMT
    <3> QED  BY <3>1, <3>2, <3>3, <3>4
  <2>3. CASE i # 1
    <3>1. i - 1 \in 1..L  BY <1>0, <2>3, SMT
    <3>2. p[i - 1] \in Usable  BY <1>0, <3>1
    <3>3. PathNodes(p)[i] = NodeTo[p[i - 1]]  BY <2>1, <2>3
    <3>4. \A k \in 1..L : dist[NodeTo[p[k]]] = PrefixCost(p, k)  BY TreePathCost
    <3>5. dist[NodeTo[p[i - 1]]] = PrefixCost(p, i - 1)  BY <3>1, <3>4
    <3>6. NodeTo[p[i - 1]] \in Nodes  BY <3>2, TreeNumbers
    <3> QED  BY <3>3, <3>5, <3>6
  <2> QED  BY <2>2, <2>3
<1>4. ASSUME NEW i \in 1..(L + 1), NEW j \in 1..(L + 1), i < j
      PROVE  PathNodes(p)[i] # PathNodes(p)[j]
  <2>1. i - 1 \in 0..L /\ j - 1 \in 0..L /\ i - 1 < j - 1  BY <1>0, <1>4, SMT
  <2>2. PrefixCost(p, i - 1) < PrefixCost(p, j - 1)  BY <1>0, <2>1, PrefixCostGrows
  <2>3. PrefixCost(p, i - 1) \in Nat /\ PrefixCost(p, j - 1) \in Nat
    BY <1>0, <2>1, PrefixCostSteps
  <2> QED  BY <1>3, <2>2, <2>3, SMT
<1>5. \A i, j \in 1..(L + 1) : i # j => PathNodes(p)[i] # PathNodes(p)[j]
  <2> SUFFICES ASSUME NEW i \in 1..(L + 1), NEW j \in 1..(L + 1), i # j
               PROVE  PathNodes(p)[i] # PathNodes(p)[j]
    OBVIOUS
  <2>1. CASE i < j  BY <1>4, <2>1
  <2>2. CASE j < i  BY <1>4, <2>2
  <2> QED  BY <1>0, <2>1, <2>2, SMT
<1>6. IsSimplePath(p)  BY <1>0, <1>2, <1>5 DEF IsSimplePath
<1>7. L + 1 <= Cardinality(Nodes) /\ Cardinality(Nodes) \in Nat
  <2>1. PathNodes(p) \in [1..(L + 1) -> Nodes]
    <3>1. PathNodes(p) = [i \in 1..(L + 1) |-> PathNodes(p)[i]]  BY <1>2 DEF PathNodes
    <3> QED  BY <1>3, <3>1
  <2>2. PathNodes(p) \in Injection(1..(L + 1), Nodes)
    BY <1>5, <2>1 DEF Injection, IsInjective
  <2>3. Cardinality(1..(L + 1)) <= Cardinality(Nodes)
    BY <2>2, FiniteAssumption, FS_Injection
  <2>4. Cardinality(1..(L + 1)) = L + 1  BY <1>0, FS_Interval, SMT
  <2>5. Cardinality(Nodes) \in Nat  BY FiniteAssumption, FS_CardinalityType
  <2> QED  BY <2>3, <2>4, <2>5
<1>8. p \in SimplePaths
  <2>1. L \in 1..(Cardinality(Nodes) - 1)  BY <1>0, <1>7, SMT
  <2> QED  BY <1>2, <1>6, <2>1 DEF SimplePaths
<1>9. EdgesOf(p) \subseteq Usable  BY <1>0, <1>2 DEF EdgesOf
<1> QED  BY <1>0, <1>2, <1>7, <1>8, <1>9, SMT DEF PathsBetween

-------------------------------------------------------------------------------
\* A path of the reference definition is a walk.
LEMMA PathIsWalk ==
    ASSUME Typed, NEW n, NEW q \in PathsBetween(Usable, src, n)
    PROVE  /\ IsWalk(q, Len(q)) /\ NodeTo[q[Len(q)]] = n
           /\ \A i, j \in 1..(Len(q) + 1) : i # j => PathNodes(q)[i] # PathNodes(q)[j]
<1>1. PICK L \in 1..(Cardinality(Nodes) - 1) : q \in [1..L -> Edges]
  BY DEF PathsBetween, SimplePaths
<1>2. L \in Nat \ {0}
  <2>1. Cardinality(Nodes) \in Nat  BY FiniteAssumption, FS_CardinalityType
  <2> QED  BY <2>1, SMT
<1>3. Len(q) = L /\ DOMAIN q = 1..L  BY <1>1, <1>2, WalkIsSequence
<1>4. q \in [1..L -> Usable]  BY <1>1, <1>3 DEF PathsBetween, EdgesOf
<1>5. IsSimplePath(q)  BY DEF PathsBetween, SimplePaths
<1> QED  BY <1>2, <1>3, <1>4, <1>5 DEF IsWalk, IsSimplePath, PathsBetween

\* A settled node's distance is the least cost of a path to it.
LEMMA SettledIsLeast ==
    ASSUME Typed, TreeInv, NEW n, n # src, IsSettled(n), NEW p, NEW L, IsTreePath(p, L, n)
    PROVE  p \in LeastCostPaths(Usable, src, n, weight) /\ PathCost(p, weight) = dist[n]
<1>1. p \in PathsBetween(Usable, src, n) /\ PathCost(p, weight) = dist[n]
  BY TreePathIsPath, TreePathCost
<1>2. ASSUME NEW q \in PathsBetween(Usable, src, n)
      PROVE  dist[n] <= PathCost(q, weight)
  <2>1. IsWalk(q, Len(q)) /\ NodeTo[q[Len(q)]] = n  BY PathIsWalk
  <2>2. Len(q) \in Nat \ {0} /\ Len(q) \in 1..Len(q) /\ Len(q) \in 0..Len(q)
    BY <2>1, SMT DEF IsWalk
  <2>3. PathCost(q, weight) = PrefixCost(q, Len(q)) /\ PrefixCost(q, Len(q)) \in Nat
    BY <2>1, <2>2, PrefixCostSteps
  <2>4. \/ PrefixCost(q, Len(q)) >= dist[n]
        \/ dist[NodeTo[q[Len(q)]]] <= PrefixCost(q, Len(q))
    BY <2>1, <2>2, WalkLowerBound
  <2>5. dist[n] \in Nat  BY DEF IsSettled, Typed
  <2> QED  BY <2>1, <2>3, <2>4, <2>5
<1> QED  BY <1>1, <1>2 DEF LeastCostPaths

\* When no reachable node is left, there are no paths to the others.
LEMMA UnreachedHasNoPath ==
    ASSUME Typed, TreeInv, Reachable = {}, NEW n \in Nodes, dist[n] = Inf
    PROVE  PathsBetween(Usable, src, n) = {}
<1> SUFFICES ASSUME NEW q \in PathsBetween(Usable, src, n)  PROVE  FALSE
  OBVIOUS
<1> DEFINE L == Len(q)
           T == {k \in Nat : k + 1 <= L => NodeTo[q[k + 1]] \in visited}
<1>1. IsWalk(q, L) /\ NodeTo[q[L]] = n  BY PathIsWalk
<1>2. /\ L \in Nat \ {0} /\ NodeFrom[q[1]] = src /\ \A k \in 1..L : q[k] \in Usable
      /\ \A i \in 1..(L - 1) : NodeTo[q[i]] = NodeFrom[q[i + 1]]
  BY <1>1 DEF IsWalk
<1> HIDE DEF L
<1>3. ASSUME NEW f \in Usable, NodeFrom[f] \in visited  PROVE  NodeTo[f] \in visited
  <2>1. dist[NodeTo[f]] # Inf /\ NodeTo[f] \in Nodes  BY <1>3, EdgeIsRelaxed, TreeNumbers
  <2> QED  BY <2>1 DEF Reachable
<1>4. src \in visited  BY DEF TreeInv
<1>5. 0 \in T  BY <1>2, <1>3, <1>4, SMT
<1>6. ASSUME NEW k \in Nat, k \in T  PROVE  k + 1 \in T
  <2> SUFFICES ASSUME (k + 1) + 1 <= L  PROVE  NodeTo[q[(k + 1) + 1]] \in visited
    BY SMT
  <2>1. k + 1 \in 1..(L - 1) /\ (k + 1) + 1 \in 1..L  BY <1>2, SMT
  <2>2. NodeTo[q[k + 1]] \in visited  BY <1>2, <1>6, <2>1, SMT
  <2> QED  BY <1>2, <1>3, <2>1, <2>2
<1> HIDE DEF T
<1>7. Nat \subseteq T  BY <1>5, <1>6, NatInductive
<1>8. L - 1 \in T /\ (L - 1) + 1 = L  BY <1>2, <1>7, SMT
<1>9. n \in visited  BY <1>1, <1>2, <1>8, SMT DEF T
<1> QED  BY <1>9 DEF TreeInv

\* On a least-cost path every edge is an offer that was taken or tied.
LEMMA LeastPathIsTight ==
    ASSUME Typed, TreeInv, NEW n, IsSettled(n), NEW q, NEW L, IsWalk(q, L),
           NodeTo[q[L]] = n, PrefixCost(q, L) = dist[n], NEW k \in 1..L
    PROVE  NodeFrom[q[k]] \in visited /\ Offer(q[k]) = dist[NodeTo[q[k]]]
<1> DEFINE T == {j \in Nat : j < L => dist[NodeTo[q[L - j]]] = PrefixCost(q, L - j)}
<1>0. /\ L \in Nat \ {0} /\ dist[n] \in Nat /\ NodeFrom[q[1]] = src
      /\ \A i \in 1..L : q[i] \in Usable /\ weight[q[i]] \in Nat
      /\ \A i \in 1..(L - 1) : NodeTo[q[i]] = NodeFrom[q[i + 1]]
      /\ \A i \in 0..L : PrefixCost(q, i) \in Nat
      /\ \A i \in 0..(L - 1) : PrefixCost(q, i + 1) = PrefixCost(q, i) + weight[q[i + 1]]
      /\ PrefixCost(q, 0) = 0
  BY PrefixCostSteps, TreeNumbers DEF IsWalk, IsSettled, Typed
<1>1. ASSUME NEW i \in 0..(L - 1)  PROVE  ~(PrefixCost(q, i) >= dist[n])
  <2>1. i \in 0..L /\ L \in 0..L /\ i < L  BY <1>0, SMT
  <2>2. PrefixCost(q, i) < PrefixCost(q, L)  BY <2>1, PrefixCostGrows
  <2> QED  BY <1>0, <2>1, <2>2, SMT
<1>2. ASSUME NEW i \in 1..L  PROVE  NodeFrom[q[i]] \in visited
  <2>1. i - 1 \in 0..(L - 1)  BY <1>0, SMT
  <2> QED  BY <1>1, <2>1, WalkLowerBound
<1>3. ASSUME NEW i \in 1..(L - 1)
      PROVE  dist[NodeTo[q[i]]] \in Nat /\ dist[NodeTo[q[i]]] <= PrefixCost(q, i)
  <2>1. i \in 0..(L - 1) /\ i \in 1..L  BY <1>0, SMT
  <2> QED  BY <1>1, <2>1, WalkLowerBound
<1>4. 0 \in T
  <2>1. L - 0 = L  BY <1>0, SMT
  <2> QED  BY <2>1
<1>5. ASSUME NEW j \in Nat, j \in T  PROVE  j + 1 \in T
  <2> SUFFICES ASSUME j + 1 < L
               PROVE  dist[NodeTo[q[L - (j + 1)]]] = PrefixCost(q, L - (j + 1))
    BY SMT
  <2> DEFINE i == L - (j + 1)
  <2>1. /\ i \in 1..(L - 1) /\ i \in 0..(L - 1) /\ i \in 0..L
        /\ i + 1 \in 1..L /\ i + 1 = L - j /\ j < L
    BY <1>0, SMT
  <2>2. dist[NodeTo[q[i + 1]]] = PrefixCost(q, i + 1)  BY <1>5, <2>1
  <2> HIDE DEF i, T
  <2>3. /\ PrefixCost(q, i + 1) = PrefixCost(q, i) + weight[q[i + 1]]
        /\ PrefixCost(q, i) \in Nat /\ weight[q[i + 1]] \in Nat
        /\ q[i + 1] \in Usable /\ NodeTo[q[i]] = NodeFrom[q[i + 1]]
    BY <1>0, <2>1
  <2>4. /\ dist[NodeTo[q[i + 1]]] \in Nat
        /\ dist[NodeTo[q[i + 1]]] <= dist[NodeFrom[q[i + 1]]] + weight[q[i + 1]]
    BY <1>2, <2>1, <2>3, EdgeIsRelaxed
  <2>5. dist[NodeTo[q[i]]] \in Nat /\ dist[NodeTo[q[i]]] <= PrefixCost(q, i)  BY <1>3, <2>1
  <2>6. dist[NodeTo[q[i]]] = PrefixCost(q, i)  BY <2>2, <2>3, <2>4, <2>5, SMT
  <2> QED  BY <2>6 DEF i
<1> HIDE DEF T
<1>6. Nat \subseteq T  BY <1>4, <1>5, NatInductive
<1>7. ASSUME NEW i \in 1..L  PROVE  dist[NodeTo[q[i]]] = PrefixCost(q, i)
  <2>1. L - i \in Nat /\ L - i < L /\ L - (L - i) = i  BY <1>0, SMT
  <2>2. L - i \in T  BY <1>6, <2>1
  <2> QED  BY <2>1, <2>2 DEF T
<1>8. dist[NodeFrom[q[k]]] = PrefixCost(q, k - 1)
  <2>1. CASE k = 1  BY <1>0, <2>1, SMT DEF TreeInv
  <2>2. CASE k # 1
    <3>1. k - 1 \in 1..(L - 1) /\ k - 1 \in 1..L /\ (k - 1) + 1 = k  BY <1>0, <2>2, SMT
    <3>2. NodeTo[q[k - 1]] = NodeFrom[q[k]]  BY <1>0, <3>1
    <3> QED  BY <1>7, <3>1, <3>2
  <2> QED  BY <2>1, <2>2
<1>9. PrefixCost(q, k) = PrefixCost(q, k - 1) + weight[q[k]]
  <2>1. k - 1 \in 0..(L - 1) /\ (k - 1) + 1 = k  BY <1>0, SMT
  <2> QED  BY <1>0, <2>1
<1> QED  BY <1>2, <1>7, <1>8, <1>9 DEF Offer

-------------------------------------------------------------------------------
\* The least of a set of numbers.
LEMMA MinIs ==
    ASSUME NEW S \in SUBSET Nat, NEW k \in S, \A y \in S : k <= y
    PROVE  Min(S) = k
<1>1. \A x \in S : (\A y \in S : x <= y) => x = k  BY SMT
<1> QED  BY <1>1 DEF Min

\* Where two paths, read backwards, first differ.
Differences(p, q) ==
    {i \in 0..(Len(p) - 1) : i >= Len(q) \/ FromEnd(p, i) # FromEnd(q, i)}

\* No path is the end of a longer one: it would pass src twice.
LEMMA NotASuffix ==
    ASSUME Typed, NEW n, NEW p \in PathsBetween(Usable, src, n),
           NEW q \in PathsBetween(Usable, src, n), Len(p) <= Len(q),
           \A i \in 0..(Len(p) - 1) : FromEnd(p, i) = FromEnd(q, i)
    PROVE  p = q
<1> DEFINE L == Len(p)
           M == Len(q)
           d == M - L
<1>1. IsWalk(p, L) /\ IsWalk(q, M)
      /\ \A i, j \in 1..(M + 1) : i # j => PathNodes(q)[i] # PathNodes(q)[j]
  BY PathIsWalk
<1>2. /\ L \in Nat \ {0} /\ M \in Nat \ {0} /\ p \in [1..L -> Usable] /\ q \in [1..M -> Usable]
      /\ NodeFrom[p[1]] = src /\ NodeFrom[q[1]] = src
      /\ \A i \in 1..(M - 1) : NodeTo[q[i]] = NodeFrom[q[i + 1]]
  BY <1>1 DEF IsWalk
<1>3. d \in Nat /\ L + d = M  BY <1>2, SMT
<1>4. ASSUME NEW i \in 1..L  PROVE  p[i] = q[i + d]
  <2>1. L - i \in 0..(L - 1) /\ L - (L - i) = i /\ M - (L - i) = i + d  BY <1>2, <1>3, SMT
  <2>2. FromEnd(p, L - i) = FromEnd(q, L - i)  BY <2>1
  <2> QED  BY <2>1, <2>2 DEF FromEnd
<1> HIDE DEF L, M, d
<1>5. d = 0
  <2> SUFFICES ASSUME d # 0  PROVE  FALSE
    OBVIOUS
  <2>1. /\ d \in 1..(M - 1) /\ d + 1 \in 1..(M + 1) /\ 1 \in 1..(M + 1) /\ d + 1 # 1
        /\ (d + 1) - 1 = d /\ 1 + d = d + 1 /\ 1 \in 1..L
    BY <1>2, <1>3, SMT
  <2>2. PathNodes(q)[1] = src  BY <1>2, <2>1 DEF PathNodes, M
  <2>3. PathNodes(q)[d + 1] = NodeTo[q[d]]  BY <2>1 DEF PathNodes, M
  <2>4. NodeTo[q[d]] = NodeFrom[q[d + 1]] /\ q[d + 1] = p[1]  BY <1>2, <1>4, <2>1
  <2> QED  BY <1>1, <1>2, <2>1, <2>2, <2>3, <2>4
<1>6. L = M /\ \A i \in 1..L : p[i] = q[i]
  <2>1. \A i \in 1..L : i + d = i  BY <1>2, <1>5, SMT
  <2> QED  BY <1>2, <1>3, <1>4, <1>5, <2>1, SMT
<1> QED  BY <1>2, <1>6, SMT

\* Two paths to n differ, and the first difference is the same from either.
LEMMA FirstDifference ==
    ASSUME Typed, NEW n, NEW p \in PathsBetween(Usable, src, n),
           NEW q \in PathsBetween(Usable, src, n), p # q
    PROVE  \E k \in Nat : /\ k < Len(p) /\ k < Len(q) /\ FromEnd(p, k) # FromEnd(q, k)
                          /\ \A i \in Nat : i < k => FromEnd(p, i) = FromEnd(q, i)
                          /\ Min(Differences(p, q)) = k /\ Min(Differences(q, p)) = k
<1> DEFINE D == {i \in Nat : i < Len(p) /\ i < Len(q) /\ FromEnd(p, i) # FromEnd(q, i)}
<1>1. Len(p) \in Nat /\ Len(q) \in Nat
  BY PathIsWalk DEF IsWalk
<1>2. D # {}
  <2> SUFFICES ASSUME D = {}  PROVE  FALSE
    OBVIOUS
  <2>1. CASE Len(p) <= Len(q)
    <3>1. \A i \in 0..(Len(p) - 1) : FromEnd(p, i) = FromEnd(q, i)
      <4> TAKE i \in 0..(Len(p) - 1)
      <4>1. i \in Nat /\ i < Len(p) /\ i < Len(q)  BY <1>1, <2>1, SMT
      <4> QED  BY <4>1
    <3> QED  BY <2>1, <3>1, NotASuffix
  <2>2. CASE ~(Len(p) <= Len(q))
    <3>1. \A i \in 0..(Len(q) - 1) : FromEnd(q, i) = FromEnd(p, i)
      <4> TAKE i \in 0..(Len(q) - 1)
      <4>1. i \in Nat /\ i < Len(p) /\ i < Len(q)  BY <1>1, <2>2, SMT
      <4> QED  BY <4>1
    <3>2. Len(q) <= Len(p)  BY <1>1, <2>2, SMT
    <3> QED  BY <3>1, <3>2, NotASuffix
  <2> QED  BY <2>1, <2>2
<1>3. PICK k \in D : \A j \in D : k <= j
  <2>1. D \in SUBSET Nat  OBVIOUS
  <2> HIDE DEF D
  <2> QED  BY <1>2, <2>1, NatLeast
<1>4. k \in Nat /\ k < Len(p) /\ k < Len(q) /\ FromEnd(p, k) # FromEnd(q, k)  OBVIOUS
<1>5. ASSUME NEW i \in Nat, i < k  PROVE  FromEnd(p, i) = FromEnd(q, i)
  <2>1. i < Len(p) /\ i < Len(q) /\ ~(k <= i)  BY <1>1, <1>4, <1>5, SMT
  <2> QED  BY <1>3, <2>1
<1> HIDE DEF D
<1>6. Min(Differences(p, q)) = k
  <2>1. k \in Differences(p, q) /\ Differences(p, q) \in SUBSET Nat
    BY <1>1, <1>4, SMT DEF Differences
  <2>2. \A y \in Differences(p, q) : k <= y
    <3> TAKE y \in Differences(p, q)
    <3>1. y \in Nat /\ (y >= Len(q) \/ FromEnd(p, y) # FromEnd(q, y))
      BY <1>1, SMT DEF Differences
    <3> QED  BY <1>1, <1>4, <1>5, <3>1, SMT
  <2> QED  BY <2>1, <2>2, MinIs
<1>7. Min(Differences(q, p)) = k
  <2>1. k \in Differences(q, p) /\ Differences(q, p) \in SUBSET Nat
    BY <1>1, <1>4, SMT DEF Differences
  <2>2. \A y \in Differences(q, p) : k <= y
    <3> TAKE y \in Differences(q, p)
    <3>1. y \in Nat /\ (y >= Len(p) \/ FromEnd(q, y) # FromEnd(p, y))
      BY <1>1, SMT DEF Differences
    <3> QED  BY <1>1, <1>4, <1>5, <3>1, SMT
  <2> QED  BY <2>1, <2>2, MinIs
<1> QED  BY <1>4, <1>5, <1>6, <1>7

\* Edges at the same place before which the paths agree enter the same node.
LEMMA SameEnd ==
    ASSUME Typed, NEW n, NEW p \in PathsBetween(Usable, src, n), NEW k \in Nat, k < Len(p)
    PROVE  /\ FromEnd(p, k) \in Usable /\ Len(p) - k \in 1..Len(p)
           /\ NodeTo[FromEnd(p, k)] = IF k = 0 THEN n ELSE NodeFrom[FromEnd(p, k - 1)]
<1>1. /\ IsWalk(p, Len(p)) /\ NodeTo[p[Len(p)]] = n
  BY PathIsWalk
<1>2. /\ Len(p) \in Nat \ {0} /\ \A i \in 1..Len(p) : p[i] \in Usable
      /\ \A i \in 1..(Len(p) - 1) : NodeTo[p[i]] = NodeFrom[p[i + 1]]
  BY <1>1 DEF IsWalk
<1>3. Len(p) - k \in 1..Len(p)  BY <1>2, SMT
<1>4. CASE k = 0
  <2>1. Len(p) - k = Len(p)  BY <1>2, <1>4, SMT
  <2> QED  BY <1>1, <1>2, <1>3, <1>4, <2>1 DEF FromEnd
<1>5. CASE k # 0
  <2>1. Len(p) - k \in 1..(Len(p) - 1) /\ (Len(p) - k) + 1 = Len(p) - (k - 1)  BY <1>2, <1>5, SMT
  <2> QED  BY <1>2, <1>3, <1>5, <2>1 DEF FromEnd
<1> QED  BY <1>4, <1>5

\* Among least-cost paths the tree path is the one preferred, to any other.
LEMMA TreePathIsPreferred ==
    ASSUME Typed, TreeInv, NEW n, n # src, IsSettled(n), NEW p, NEW L, IsTreePath(p, L, n),
           NEW q \in LeastCostPaths(Usable, src, n, weight), q # p
    PROVE  Prefers(p, q, weight) /\ ~ Prefers(q, p, weight)
<1>1. /\ p \in PathsBetween(Usable, src, n) /\ Len(p) = L /\ PathCost(p, weight) = dist[n]
      /\ p \in LeastCostPaths(Usable, src, n, weight)
  BY TreePathIsPath, TreePathCost, SettledIsLeast
<1>2. q \in PathsBetween(Usable, src, n) /\ PathCost(q, weight) <= PathCost(p, weight)
      /\ PathCost(p, weight) <= PathCost(q, weight)
  BY <1>1 DEF LeastCostPaths
<1>3. IsWalk(q, Len(q)) /\ NodeTo[q[Len(q)]] = n /\ PrefixCost(q, Len(q)) = dist[n]
  <2>1. IsWalk(q, Len(q)) /\ NodeTo[q[Len(q)]] = n  BY <1>2, PathIsWalk
  <2>2. Len(q) \in 0..Len(q)  BY <2>1, SMT DEF IsWalk
  <2>3. PathCost(q, weight) = PrefixCost(q, Len(q)) /\ PrefixCost(q, Len(q)) \in Nat
    BY <2>1, <2>2, PrefixCostSteps
  <2>4. dist[n] \in Nat  BY DEF IsSettled, Typed
  <2> QED  BY <1>1, <1>2, <2>1, <2>3, <2>4, SMT
<1>4. PICK k \in Nat : /\ k < Len(p) /\ k < Len(q) /\ FromEnd(p, k) # FromEnd(q, k)
                       /\ \A i \in Nat : i < k => FromEnd(p, i) = FromEnd(q, i)
                       /\ Min(Differences(p, q)) = k /\ Min(Differences(q, p)) = k
  BY <1>1, <1>2, FirstDifference, SMT
<1> DEFINE a == FromEnd(p, k)
           b == FromEnd(q, k)
           m == NodeTo[a]
<1>5. a \in Usable /\ b \in Usable /\ NodeTo[b] = m
  <2>1. a \in Usable /\ b \in Usable  BY <1>1, <1>2, <1>4, SameEnd
  <2>2. /\ NodeTo[a] = IF k = 0 THEN n ELSE NodeFrom[FromEnd(p, k - 1)]
        /\ NodeTo[b] = IF k = 0 THEN n ELSE NodeFrom[FromEnd(q, k - 1)]
    BY <1>1, <1>2, <1>4, SameEnd
  <2>3. k # 0 => FromEnd(p, k - 1) = FromEnd(q, k - 1)  BY <1>4, SMT
  <2> QED  BY <2>1, <2>2, <2>3, SMT
<1>6. a = prev[m] /\ m # src /\ dist[m] # Inf /\ m \in Nodes
  <2>1. L - k \in 1..L  BY <1>1, <1>4, SameEnd
  <2>2. a = p[L - k]  BY <1>1 DEF FromEnd
  <2>3. p[L - k] = prev[NodeTo[p[L - k]]] /\ NodeTo[p[L - k]] # src /\ dist[NodeTo[p[L - k]]] # Inf
    BY <2>1 DEF IsTreePath
  <2>4. m \in Nodes  BY <1>5, TreeNumbers
  <2> QED  BY <2>2, <2>3, <2>4
<1>7. NodeFrom[b] \in visited /\ Offer(b) = dist[m]
  <2>1. Len(q) - k \in 1..Len(q)  BY <1>2, <1>4, SameEnd
  <2>2. b = q[Len(q) - k]  BY DEF FromEnd
  <2>3. PICK j \in 1..Len(q) : j = Len(q) - k  BY <2>1
  <2>4. NodeFrom[q[j]] \in visited /\ Offer(q[j]) = dist[NodeTo[q[j]]]
    BY <1>3, LeastPathIsTight, SMT
  <2> QED  BY <1>5, <2>2, <2>3, <2>4
<1> HIDE DEF a, b, m
<1>8. Offer(a) = dist[m] /\ NodeFrom[a] \in visited  BY <1>6 DEF TreeInv
<1>9. Better(a, b) /\ a # b
  <2>1. a # b  BY <1>4 DEF a, b
  <2> QED  BY <1>5, <1>6, <1>7, <2>1 DEF TreeInv
<1>10. /\ weight[a] \in Nat /\ weight[b] \in Nat /\ a \in Nat /\ b \in Nat
       /\ NodeFrom[a] \in Nat /\ NodeFrom[b] \in Nat
       /\ dist[NodeFrom[a]] \in Nat /\ dist[NodeFrom[b]] \in Nat
  BY <1>5, <1>7, <1>8, TreeNumbers, NameAssumption
<1>11. dist[NodeFrom[a]] + weight[a] = dist[NodeFrom[b]] + weight[b]
  BY <1>7, <1>8 DEF Offer
<1>12. \/ dist[NodeFrom[a]] < dist[NodeFrom[b]]
       \/ dist[NodeFrom[a]] = dist[NodeFrom[b]] /\ NodeFrom[a] < NodeFrom[b]
       \/ NodeFrom[a] = NodeFrom[b] /\ a < b
  BY <1>7, <1>8, <1>9, <1>10, SMT DEF Better, Before, Offer
<1>13. \/ weight[a] > weight[b]
       \/ weight[a] = weight[b] /\ NodeFrom[a] < NodeFrom[b]
       \/ weight[a] = weight[b] /\ NodeFrom[a] = NodeFrom[b] /\ a < b
  BY <1>10, <1>11, <1>12, SMT
<1>14. ~ \/ weight[b] > weight[a]
         \/ weight[b] = weight[a] /\ NodeFrom[b] < NodeFrom[a]
         \/ weight[b] = weight[a] /\ NodeFrom[b] = NodeFrom[a] /\ b < a
  BY <1>10, <1>13, SMT
<1>15. Prefers(p, q, weight)  BY <1>4, <1>13 DEF Prefers, Differences, a, b
<1>16. ~ Prefers(q, p, weight)  BY <1>4, <1>14 DEF Prefers, Differences, a, b
<1> QED  BY <1>15, <1>16

-------------------------------------------------------------------------------
\* The last k edges of p, a walk of L edges.
LastEdges(p, L, k) == [i \in 1..k |-> p[L - k + i]]

\* Reading the path back: the end of a tree path of dst is read, and dst is
\* settled.
Traced ==
    /\ IsSettled(dst)
    /\ \E L \in Nat : \E p \in [1..L -> Usable] :
          IsTreePath(p, L, dst) /\ \E k \in 0..L : path = LastEdges(p, L, k)

\* A step of reconstruct puts one more edge of the tree path in front, or
\* returns all of it: it meets no node without a predecessor before src.
LEMMA BackAddsAnEdge ==
    ASSUME Typed, TreeInv, NEW p, NEW L, IsTreePath(p, L, dst), NEW k \in 0..L,
           path = LastEdges(p, L, k), Reconstruct
    PROVE  \/ k = L /\ path = p /\ Answer("path", p)
           \/ /\ k + 1 \in 0..L /\ path' = LastEdges(p, L, k + 1)
              /\ UNCHANGED <<input, pc, dist, prev, visited, result>>
<1>0. /\ L \in Nat \ {0} /\ p \in [1..L -> Usable] /\ NodeFrom[p[1]] = src
      /\ \A i \in 1..(L - 1) : NodeTo[p[i]] = NodeFrom[p[i + 1]]
      /\ NodeTo[p[L]] = dst
      /\ \A i \in 1..L : p[i] = prev[NodeTo[p[i]]] /\ NodeTo[p[i]] # src
  BY DEF IsTreePath, IsWalk
<1>1. \A i \in 1..L : p[i] \in Edges /\ p[i] # 0
  BY <1>0, TreeNumbers, NameAssumption
<1> DEFINE at == IF path = NoPath THEN dst ELSE NodeFrom[path[1]]
<1>2. IF at = src THEN Answer("path", path)
      ELSE IF prev[at] = 0 THEN Answer("no_path", NoPath)
      ELSE /\ path' = <<prev[at]>> \o path
           /\ UNCHANGED <<input, pc, dist, prev, visited, result>>
  BY DEF Reconstruct
<1>3. CASE k < L
  <2>1. path = [i \in 1..k |-> p[L - k + i]]  BY DEF LastEdges
  <2>2. at = NodeTo[p[L - k]]
    <3>1. CASE k = 0
      <4>1. path = <<>> /\ L - k = L  BY <1>0, <2>1, <3>1, SMT
      <4> QED  BY <1>0, <4>1 DEF NoPath
    <3>2. CASE k # 0
      <4>1. 1 \in 1..k /\ L - k \in 1..(L - 1) /\ L - k + 1 = (L - k) + 1  BY <1>0, <1>3, <3>2, SMT
      <4>2. path[1] = p[(L - k) + 1] /\ DOMAIN path = 1..k  BY <2>1, <4>1
      <4>3. path # NoPath  BY <4>1, <4>2, SMT DEF NoPath
      <4> QED  BY <1>0, <4>1, <4>2, <4>3
    <3> QED  BY <3>1, <3>2
  <2>3. L - k \in 1..L  BY <1>0, <1>3, SMT
  <2>4. at # src /\ prev[at] = p[L - k] /\ prev[at] # 0  BY <1>0, <1>1, <2>2, <2>3, SMT
  <2>5. /\ path' = <<p[L - k]>> \o path
        /\ UNCHANGED <<input, pc, dist, prev, visited, result>>
    BY <1>2, <2>4
  <2>6. path \in Seq(Edges) /\ Len(path) = k
    <3>1. \A i \in 1..k : L - k + i \in 1..L  BY <1>0, <1>3, SMT
    <3>2. path \in [1..k -> Edges]  BY <1>1, <2>1, <3>1
    <3>3. k \in Nat  BY <1>0, SMT
    <3> QED  BY <3>2, <3>3, WalkIsSequence
  <2>7. <<p[L - k]>> \o path = [i \in 1..(k + 1) |-> p[L - (k + 1) + i]]
    <3> DEFINE s == <<p[L - k]>> \o path
    <3>1. DOMAIN s = 1..(k + 1) /\ s = [i \in 1..(k + 1) |-> s[i]]
      BY <1>1, <2>3, <2>6, SMT
    <3>2. ASSUME NEW i \in 1..(k + 1)  PROVE  s[i] = p[L - (k + 1) + i]
      <4>1. CASE i = 1
        <5>1. L - (k + 1) + i = L - k  BY <1>0, <4>1, SMT
        <5> QED  BY <1>1, <2>3, <2>6, <4>1, <5>1, SMT
      <4>2. CASE i # 1
        <5>1. i - 1 \in 1..k /\ L - k + (i - 1) = L - (k + 1) + i  BY <1>0, <4>2, SMT
        <5>2. s[i] = path[i - 1]  BY <1>1, <2>3, <2>6, <4>2, SMT
        <5> QED  BY <2>1, <5>1, <5>2
      <4> QED  BY <4>1, <4>2
    <3> HIDE DEF s
    <3>3. s = [i \in 1..(k + 1) |-> p[L - (k + 1) + i]]  BY <3>1, <3>2
    <3> QED  BY <3>3 DEF s
  <2>8. k + 1 \in 0..L  BY <1>0, <1>3, SMT
  <2> QED  BY <2>5, <2>7, <2>8 DEF LastEdges
<1>4. CASE ~(k < L)
  <2>1. k = L  BY <1>0, <1>4, SMT
  <2>2. path = p
    <3>1. \A i \in 1..L : L - L + i = i  BY <1>0, SMT
    <3>2. p = [i \in 1..L |-> p[L - L + i]]  BY <1>0, <3>1
    <3> QED  BY <2>1, <3>2 DEF LastEdges
  <2>3. path # NoPath
    <3>1. 1 \in DOMAIN p  BY <1>0, SMT
    <3> QED  BY <2>2, <3>1, SMT DEF NoPath
  <2>4. at = src  BY <1>0, <2>2, <2>3
  <2> QED  BY <1>2, <2>1, <2>2, <2>4
<1> QED  BY <1>3, <1>4

\* The tree is not touched while the path is read back.
LEMMA TreeIsKept ==
    ASSUME UNCHANGED <<graph, weight, src, dst, dist, prev, visited>>
    PROVE  /\ Usable' = Usable
           /\ TreeInv' <=> TreeInv
           /\ IsSettled(dst)' <=> IsSettled(dst)
           /\ \A p, L : IsTreePath(p, L, dst)' <=> IsTreePath(p, L, dst)
<1>1. Usable' = Usable /\ Reachable' = Reachable  BY DEF Usable, Reachable
<1>2. TreeInv' <=> TreeInv  BY <1>1, SMT DEF TreeInv, Before, Better, Offer
<1>3. IsSettled(dst)' <=> IsSettled(dst)  BY <1>1 DEF IsSettled
<1>4. \A p, L : IsTreePath(p, L, dst)' <=> IsTreePath(p, L, dst)
  BY <1>1 DEF IsTreePath, IsWalk
<1> QED  BY <1>1, <1>2, <1>3, <1>4

-------------------------------------------------------------------------------
\* The inductive invariant: the types, the tree from the start of the loop on,
\* the part of the path that is read back, and the answer once it is given.
LoopInv ==
    /\ Typed
    /\ pc = "begin" => dist = [n \in Nodes |-> Inf] /\ visited = {}
    /\ pc \in {"begin", "loop"} => path = NoPath
    /\ pc = "loop" => TreeInv
    /\ pc = "trace" => TreeInv /\ Traced
    /\ TreeInv \/ visited = {}
    /\ path \in Seq(Edges)
    /\ pc = "done" => path \in {NoPath} \cup SimplePaths
    /\ AnswerIsOptimal

\* The end of the loop: there is no path, or the way back can be followed.
LEMMA FinishIsOptimal ==
    ASSUME Typed, TreeInv, path = NoPath, Finish
    PROVE  \/ pc' = "done" /\ AnswerIsOptimal' /\ path' = NoPath
           \/ pc' = "trace" /\ Traced' /\ path' = NoPath
<1>0. /\ UNCHANGED <<graph, weight, src, dst, dist, prev, visited>>
      /\ Reachable # {} => Nearest = dst
  BY DEF Finish, Answer, input
<1>1. src \in Nodes /\ dst \in Nodes /\ src # dst /\ dst \notin visited  BY DEF TreeInv
<1>2. CASE dist[dst] = Inf
  <2>1. Reachable = {}  BY <1>0, <1>2, NearestIsNearest DEF Reachable
  <2>2. PathsBetween(Usable, src, dst) = {}  BY <1>1, <1>2, <2>1, UnreachedHasNoPath
  <2>3. pc' = "done" /\ result' = "no_path" /\ path' = NoPath  BY <1>2 DEF Finish, Answer
  <2>4. Usable' = Usable  BY <1>0 DEF Usable
  <2> QED  BY <1>0, <2>2, <2>3, <2>4 DEF AnswerIsOptimal
<1>3. CASE dist[dst] # Inf
  <2>1. PICK L \in Nat : \E p \in [1..L -> Usable] : IsTreePath(p, L, dst)
    BY <1>1, <1>3, TreePathExists
  <2>2. PICK p \in [1..L -> Usable] : IsTreePath(p, L, dst)  BY <2>1
  <2>3. IsSettled(dst)
    <3>1. Reachable # {}  BY <1>1, <1>3 DEF Reachable
    <3> QED  BY <1>0, <3>1, VisitedAreSettled
  <2>4. pc' = "trace" /\ path' = NoPath  BY <1>3 DEF Finish
  <2>5. path' = LastEdges(p, L, 0) /\ 0 \in 0..L
    BY <2>4, SMT DEF LastEdges, NoPath
  <2>6. Usable' = Usable /\ IsSettled(dst)' /\ IsTreePath(p, L, dst)'
    BY <1>0, <2>2, <2>3, TreeIsKept
  <2>7. Traced'  BY <2>5, <2>6 DEF Traced
  <2> QED  BY <2>4, <2>7
<1> QED  BY <1>2, <1>3

\* What is read back is the answer to a question with a path.
LEMMA TraceIsOptimal ==
    ASSUME Typed, TreeInv, pc = "trace", Traced, Reconstruct
    PROVE  /\ UNCHANGED <<graph, weight, src, dst, dist, prev, visited>>
           /\ result' = result \/ result' = "path"
           /\ \/ pc' = "done" /\ AnswerIsOptimal' /\ path' \in SimplePaths
              \/ pc' = "trace" /\ Traced' /\ Len(path') = Len(path) + 1
           /\ path' \in Seq(Edges)
           /\ Len(path) \in Nat /\ Len(path') \in Nat
           /\ Len(path) < Cardinality(Nodes) /\ Len(path') < Cardinality(Nodes)
<1>1. PICK L \in Nat : \E p \in [1..L -> Usable] :
          IsTreePath(p, L, dst) /\ \E k \in 0..L : path = LastEdges(p, L, k)
  BY DEF Traced
<1>2. PICK p \in [1..L -> Usable] :
          IsTreePath(p, L, dst) /\ \E k \in 0..L : path = LastEdges(p, L, k)
  BY <1>1
<1>3. PICK k \in 0..L : path = LastEdges(p, L, k)  BY <1>2
<1>4. IsSettled(dst) /\ dst \in Nodes /\ src \in Nodes /\ src # dst  BY DEF Traced, TreeInv
<1>5. L < Cardinality(Nodes) /\ Cardinality(Nodes) \in Nat
  BY <1>2, TreePathIsPath, FiniteAssumption, FS_CardinalityType
<1>6. ASSUME NEW j \in 0..L
      PROVE  LastEdges(p, L, j) \in Seq(Edges) /\ Len(LastEdges(p, L, j)) = j
  <2>1. \A i \in 1..j : L - j + i \in 1..L  BY SMT
  <2>2. \A i \in 1..L : p[i] \in Edges  BY <1>2, TreeNumbers
  <2>3. LastEdges(p, L, j) \in [1..j -> Edges]  BY <2>1, <2>2 DEF LastEdges
  <2>4. j \in Nat  BY SMT
  <2> QED  BY <2>3, <2>4, WalkIsSequence
<1>7. Len(path) = k /\ path \in Seq(Edges) /\ k \in Nat /\ k < Cardinality(Nodes)
  <2>1. k \in Nat /\ k < Cardinality(Nodes)  BY <1>5, SMT
  <2> QED  BY <1>3, <1>6, <2>1
<1>8. CASE k = L /\ path = p /\ Answer("path", p)
  <2>1. /\ pc' = "done" /\ result' = "path" /\ path' = p
        /\ UNCHANGED <<graph, weight, src, dst, dist, prev, visited>>
    BY <1>8 DEF Answer, input
  <2>2. p \in LeastCostPaths(Usable, src, dst, weight) /\ PathCost(p, weight) = dist[dst]
    BY <1>2, <1>4, SettledIsLeast
  <2>3. ASSUME NEW q \in LeastCostPaths(Usable, src, dst, weight), q # p
        PROVE  Prefers(p, q, weight) /\ ~ Prefers(q, p, weight)
    BY <1>2, <1>4, <2>3, TreePathIsPreferred
  <2>4. ChosenPaths(Usable, src, dst, weight) = {p}  BY <2>2, <2>3 DEF ChosenPaths
  <2>5. p \in SimplePaths  BY <1>2, TreePathIsPath DEF PathsBetween
  <2>6. Usable' = Usable  BY <2>1, TreeIsKept
  <2>7. AnswerIsOptimal'  BY <2>1, <2>2, <2>4, <2>6 DEF AnswerIsOptimal
  <2> QED  BY <1>7, <1>8, <2>1, <2>5, <2>7
<1>9. CASE /\ k + 1 \in 0..L /\ path' = LastEdges(p, L, k + 1)
           /\ UNCHANGED <<input, pc, dist, prev, visited, result>>
  <2>1. /\ pc' = "trace" /\ result' = result
        /\ UNCHANGED <<graph, weight, src, dst, dist, prev, visited>>
    BY <1>9 DEF input
  <2>2. Usable' = Usable /\ IsSettled(dst)' /\ IsTreePath(p, L, dst)'
    BY <1>2, <1>4, <2>1, TreeIsKept
  <2>3. Traced'  BY <1>9, <2>2 DEF Traced
  <2>4. path' \in Seq(Edges) /\ Len(path') = k + 1  BY <1>6, <1>9
  <2>5. k + 1 \in Nat /\ k + 1 < Cardinality(Nodes)  BY <1>5, <1>7, <1>9, SMT
  <2> QED  BY <1>7, <2>1, <2>3, <2>4, <2>5
<1> QED  BY <1>2, <1>3, <1>8, <1>9, BackAddsAnEdge

\* The tree before the first round: src alone.
LEMMA BeginPlantsTree ==
    ASSUME LoopInv, Begin, pc' = "loop"
    PROVE  Typed' /\ TreeInv'
<1>0. /\ pc = "begin" /\ src \in Nodes /\ dst \in Nodes /\ src # dst
      /\ dist' = [dist EXCEPT ![src] = 0]
      /\ UNCHANGED <<graph, weight, src, dst, prev, visited, result, path>>
  BY DEF Begin, Answer, input
<1>1. /\ dist'[src] = 0 /\ visited' = {} /\ dist' \in [Nodes -> Nat \cup {Inf}]
      /\ \A n \in Nodes \ {src} : dist'[n] = Inf
  BY <1>0 DEF LoopInv, Typed
<1>2. Reachable' = {src}  BY <1>0, <1>1, SMT DEF Reachable, Inf
<1>3. Typed'  BY <1>0, <1>1 DEF LoopInv, Typed
<1>4. TreeInv'  BY <1>0, <1>1, <1>2 DEF TreeInv
<1> QED  BY <1>3, <1>4

\* The loop of ComputePath keeps its invariant.
LEMMA LoopInvHolds == Spec => []LoopInv
<1>1. Init => LoopInv
  <2> SUFFICES ASSUME Init  PROVE  LoopInv
    OBVIOUS
  <2>1. Typed  BY GraphAssumption DEF Init, Typed
  <2>2. NoPath \in Seq(Edges)  BY SMT DEF NoPath
  <2> QED  BY <2>1, <2>2 DEF Init, LoopInv, AnswerIsOptimal
<1>2. LoopInv /\ [Next]_vars => LoopInv'
  <2> SUFFICES ASSUME LoopInv, [Next]_vars  PROVE  LoopInv'
    OBVIOUS
  <2>1. CASE Begin
    <3>1. CASE pc' = "loop"
      <4>1. pc = "begin" /\ path' = path  BY <2>1, <3>1 DEF Begin, Answer
      <4> QED  BY <2>1, <3>1, <4>1, BeginPlantsTree DEF LoopInv, AnswerIsOptimal
    <3>2. CASE pc' # "loop"
      <4>0. NoPath \in Seq(Edges)  BY SMT DEF NoPath
      <4>1. /\ pc = "begin" /\ pc' = "done" /\ path' = NoPath
            /\ result' \in {"path", "unknown_node"}
            /\ UNCHANGED <<graph, weight, src, dst, dist, prev, visited>>
            /\ src = dst \/ ~({src, dst} \subseteq Nodes)
        BY <2>1, <3>2 DEF Begin, Answer, input
      <4>2. Typed'  BY <4>1 DEF LoopInv, Typed
      <4>3. visited' = {}  BY <4>1 DEF LoopInv
      <4> QED  BY <4>0, <4>1, <4>2, <4>3 DEF LoopInv, AnswerIsOptimal
    <3> QED  BY <3>1, <3>2
  <2>2. CASE Settle
    <3>1. pc = "loop" /\ pc' = "loop" /\ path' = path  BY <2>2 DEF Settle
    <3>2. Typed' /\ TreeInv'  BY <2>2, <3>1, SettleKeepsTree DEF LoopInv
    <3> QED  BY <3>1, <3>2 DEF LoopInv, AnswerIsOptimal
  <2>3. CASE Finish
    <3>1. /\ pc = "loop" /\ result' \in {result, "no_path"}
          /\ UNCHANGED <<graph, weight, src, dst, dist, prev, visited>>
      BY <2>3 DEF Finish, Answer, input
    <3>2. Typed /\ TreeInv /\ path = NoPath  BY <3>1 DEF LoopInv
    <3>3. \/ pc' = "done" /\ AnswerIsOptimal' /\ path' = NoPath
          \/ pc' = "trace" /\ Traced' /\ path' = NoPath
      BY <2>3, <3>2, FinishIsOptimal
    <3>4. Typed'  BY <3>1, <3>2, <3>3 DEF Typed
    <3>5. TreeInv'  BY <3>1, <3>2, TreeIsKept
    <3>6. pc' = "trace" => AnswerIsOptimal'  BY DEF AnswerIsOptimal
    <3>7. NoPath \in Seq(Edges)  BY SMT DEF NoPath
    <3> QED  BY <3>1, <3>3, <3>4, <3>5, <3>6, <3>7 DEF LoopInv
  <2>4. CASE Reconstruct
    <3>1. pc = "trace" /\ Typed /\ TreeInv /\ Traced  BY <2>4 DEF Reconstruct, LoopInv
    <3>2. /\ UNCHANGED <<graph, weight, src, dst, dist, prev, visited>>
          /\ result' = result \/ result' = "path"
          /\ \/ pc' = "done" /\ AnswerIsOptimal' /\ path' \in SimplePaths
             \/ pc' = "trace" /\ Traced'
          /\ path' \in Seq(Edges)
      BY <2>4, <3>1, TraceIsOptimal
    <3>3. Typed'  BY <3>1, <3>2 DEF Typed
    <3>4. TreeInv'  BY <3>1, <3>2, TreeIsKept
    <3>5. pc' = "trace" => AnswerIsOptimal'  BY DEF AnswerIsOptimal
    <3> QED  BY <3>2, <3>3, <3>4, <3>5 DEF LoopInv
  <2>5. CASE UNCHANGED vars
    <3>1. Typed'  BY <2>5 DEF vars, LoopInv, Typed
    <3>2. /\ TreeInv' <=> TreeInv
          /\ Traced' <=> Traced
      <4>1. UNCHANGED <<graph, weight, src, dst, dist, prev, visited, path>>  BY <2>5 DEF vars
      <4> QED  BY <4>1, TreeIsKept DEF Traced
    <3>3. AnswerIsOptimal'
      BY <2>5 DEF vars, LoopInv, AnswerIsOptimal, Usable
    <3> QED  BY <2>5, <3>1, <3>2, <3>3 DEF vars, LoopInv
  <2> QED  BY <2>1, <2>2, <2>3, <2>4, <2>5 DEF Next
<1> QED  BY <1>1, <1>2, PTL DEF Spec

\* Type correctness: the path returned is a simple path of the graph, or none.
THEOREM ComputePathTyped == Spec => []TypeOK
<1>1. LoopInv => TypeOK  BY DEF LoopInv, Typed, TypeOK
<1> QED  BY <1>1, LoopInvHolds, PTL

\* computePath returns the least-cost path, the one ChosenPaths defines, with its
\* cost; and answers that there is none only when there is none.  For any finite
\* graph and any positive weights.
THEOREM ComputePathIsOptimal == Spec => []AnswerIsOptimal
<1>1. LoopInv => AnswerIsOptimal  BY DEF LoopInv
<1> QED  BY <1>1, LoopInvHolds, PTL

\* The distance of a visited node is final, and is the least cost of reaching it.
THEOREM VisitedDistancesAreLeast == Spec => []VisitedIsSettled
<1>1. ASSUME LoopInv  PROVE  VisitedIsSettled
  <2> SUFFICES ASSUME NEW n \in visited \ {src}
               PROVE  \E p \in LeastCostPaths(Usable, src, n, weight) :
                         PathCost(p, weight) = dist[n]
    BY DEF VisitedIsSettled
  <2>1. Typed /\ TreeInv  BY <1>1 DEF LoopInv
  <2>2. n \in Nodes \ {src} /\ dist[n] # Inf /\ IsSettled(n)
    BY <2>1, VisitedAreSettled DEF IsSettled
  <2>3. PICK L \in Nat : \E p \in [1..L -> Usable] : IsTreePath(p, L, n)
    BY <2>1, <2>2, TreePathExists
  <2>4. PICK p \in [1..L -> Usable] : IsTreePath(p, L, n)  BY <2>3
  <2>5. p \in LeastCostPaths(Usable, src, n, weight) /\ PathCost(p, weight) = dist[n]
    BY <2>1, <2>2, <2>4, SettledIsLeast
  <2> QED  BY <2>5
<1> QED  BY <1>1, LoopInvHolds, PTL

-------------------------------------------------------------------------------
(***************************************************************************)
(* How many steps computePath can still take: neither of its loops has a   *)
(* bound of its own, but every round of the search but the last marks one  *)
(* more node as visited, and the way back has fewer edges than there are   *)
(* nodes.                                                                  *)
(***************************************************************************)
StepsLeft ==
    CASE pc = "begin" -> 2 * Cardinality(Nodes) + 2
      [] pc = "loop" -> Cardinality(Nodes \ visited) + Cardinality(Nodes) + 1
      [] pc = "trace" -> Cardinality(Nodes) - Len(path)
      [] OTHER -> 0

(***************************************************************************)
(* Every step leaves fewer: computePath ends after at most one round and   *)
(* one edge read back for every node, whatever the graph and the weights.  *)
(* This is what Terminates needs beside the fairness of the goroutine.     *)
(***************************************************************************)
SearchIsBounded ==
    [][StepsLeft' < StepsLeft /\ StepsLeft' \in Nat /\ StepsLeft \in Nat]_vars

\* A round visits a node that was not visited.
LEMMA RoundVisitsOneMore ==
    ASSUME LoopInv, Settle
    PROVE  /\ Cardinality(Nodes \ visited) \in Nat /\ Cardinality((Nodes \ visited)') \in Nat
           /\ Cardinality((Nodes \ visited)') < Cardinality(Nodes \ visited)
<1>1. Typed  BY DEF Settle, LoopInv
<1>2. Reachable # {} /\ visited' = visited \cup {Nearest}  BY DEF Settle
<1>3. Nearest \in Nodes \ visited  BY <1>1, <1>2, NearestIsNearest DEF Reachable
<1>4. IsFiniteSet(Nodes \ visited)  BY FiniteAssumption, FS_Difference
<1>5. (Nodes \ visited)' = (Nodes \ visited) \ {Nearest}  BY <1>2
<1>6. Cardinality((Nodes \ visited) \ {Nearest}) = Cardinality(Nodes \ visited) - 1
  BY <1>3, <1>4, FS_RemoveElement
<1>7. Cardinality(Nodes \ visited) \in Nat \ {0}
  BY <1>3, <1>4, FS_CardinalityType, FS_EmptySet
<1> QED  BY <1>5, <1>6, <1>7, SMT

\* So the search is over after one round for every node, and the way back
\* meets no node twice.
THEOREM ComputePathIsBounded == Spec => SearchIsBounded
<1>1. ASSUME LoopInv, Next
      PROVE  StepsLeft \in Nat /\ StepsLeft' \in Nat /\ StepsLeft' < StepsLeft
  <2>0. Cardinality(Nodes) \in Nat  BY FiniteAssumption, FS_CardinalityType
  <2>1. CASE Begin
    <3>1. /\ pc = "begin" /\ pc' \in {"loop", "done"} /\ visited' = visited
          /\ visited = {}
      BY <1>1, <2>1 DEF Begin, Answer, LoopInv
    <3>2. (Nodes \ visited)' = Nodes  BY <3>1
    <3> QED  BY <2>0, <3>1, <3>2, SMT DEF StepsLeft
  <2>2. CASE Settle
    <3>1. pc = "loop" /\ pc' = "loop"  BY <2>2 DEF Settle
    <3> QED  BY <1>1, <2>0, <2>2, <3>1, RoundVisitsOneMore, SMT DEF StepsLeft
  <2>3. CASE Finish
    <3>1. pc = "loop" /\ pc' \in {"trace", "done"} /\ path' = NoPath
      BY <1>1, <2>3 DEF Finish, Answer, LoopInv
    <3>2. Cardinality(Nodes \ visited) \in Nat
      BY FiniteAssumption, FS_Difference, FS_CardinalityType
    <3> QED  BY <2>0, <3>1, <3>2, SMT DEF StepsLeft, NoPath
  <2>4. CASE Reconstruct
    <3>1. pc = "trace" /\ Typed /\ TreeInv /\ Traced
      BY <1>1, <2>4 DEF Reconstruct, LoopInv
    <3>2. /\ pc' = "done" \/ (pc' = "trace" /\ Len(path') = Len(path) + 1)
          /\ Len(path) \in Nat /\ Len(path') \in Nat
          /\ Len(path) < Cardinality(Nodes) /\ Len(path') < Cardinality(Nodes)
      BY <2>4, <3>1, TraceIsOptimal
    <3> QED  BY <2>0, <3>1, <3>2, SMT DEF StepsLeft
  <2> QED  BY <1>1, <2>1, <2>2, <2>3, <2>4 DEF Next
<1>2. LoopInv /\ [Next]_vars => [StepsLeft' < StepsLeft /\ StepsLeft' \in Nat /\ StepsLeft \in Nat]_vars
  BY <1>1
<1> QED  BY <1>2, LoopInvHolds, PTL DEF Spec, SearchIsBounded
===============================================================================
