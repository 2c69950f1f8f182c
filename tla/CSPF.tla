--------------------------------- MODULE CSPF ---------------------------------
(***************************************************************************)
(* The path computation of cspf.go: Dijkstra's algorithm over the pruned   *)
(* graph, one Settle step per round of the loop and one Reconstruct step   *)
(* per edge read back, checked against the definition of a least-cost path *)
(* in PCEGraph.                                                            *)
(***************************************************************************)
EXTENDS PCEGraph

CONSTANTS
    Weights,        \* finite edge weights; at least one, costEdgeEpsilon
    Graphs,         \* the pruned graphs that are asked about
    Questions       \* pairs <<src, dst>>, of nodes the graph has or not

ASSUME WeightAssumption == Weights \subseteq Nat \ {0}

\* Names are numbers here, in the order of the names; 0 names no edge.
ASSUME NameAssumption == Nodes \subseteq Nat /\ Edges \subseteq Nat \ {0}

ASSUME GraphAssumption == Graphs \subseteq SUBSET Edges

VARIABLES graph, weight, src, dst,      \* the question
          pc,                           \* "begin", "loop", "trace" or "done"
          dist, prev, visited,          \* the loop's state
          result, path                  \* the answer, and the path as it is read back

input == <<graph, weight, src, dst>>
vars == <<graph, weight, src, dst, pc, dist, prev, visited, result, path>>

Inf == -1           \* math.Inf(1): the cost of an edge that cannot be used
Plus(a, b) == IF a = Inf \/ b = Inf THEN Inf ELSE a + b
Less(a, b) == a # Inf /\ (b = Inf \/ a < b)

Init ==
    /\ graph \in Graphs
    /\ weight \in [Edges -> Weights \cup {Inf}]
    /\ \A e \in Edges \ graph : weight[e] = Inf
    /\ \E q \in Questions : src = q[1] /\ dst = q[2]
    /\ pc = "begin"
    /\ dist = [n \in Nodes |-> Inf]
    /\ prev = [n \in Nodes |-> 0]
    /\ visited = {}
    /\ result = "none"
    /\ path = NoPath

Answer(r, p) ==
    /\ pc' = "done"
    /\ result' = r
    /\ path' = p
    /\ UNCHANGED <<input, dist, prev, visited>>

(***************************************************************************)
(* The early returns, and the initial distances.                           *)
(***************************************************************************)
Begin ==
    /\ pc = "begin"
    /\ \/ {src, dst} \subseteq Nodes /\ src = dst /\ Answer("path", NoPath)
       \/ ~({src, dst} \subseteq Nodes) /\ Answer("unknown_node", NoPath)
       \/ /\ {src, dst} \subseteq Nodes
          /\ src # dst
          /\ dist' = [dist EXCEPT ![src] = 0]
          /\ pc' = "loop"
          /\ UNCHANGED <<input, prev, visited, result, path>>

(***************************************************************************)
(* The scan for the nearest unvisited node goes through the nodes in order *)
(* and replaces its candidate only by a strictly nearer one.               *)
(***************************************************************************)
Reachable == {n \in Nodes \ visited : dist[n] # Inf}

\* mutant: the first reachable node, not the nearest
NearestIsFirst == CHOOSE n \in Reachable : \A m \in Reachable : n <= m

Nearest ==
    CHOOSE n \in Reachable :
        \A m \in Reachable \ {n} : dist[n] < dist[m] \/ (dist[n] = dist[m] /\ n < m)

(***************************************************************************)
(* Relaxing the edges of a node in order: a neighbour's distance becomes   *)
(* the least on offer, by the first edge that offers it.                   *)
(***************************************************************************)
Offers(n, m) ==
    {e \in graph : /\ NodeFrom[e] = n
                   /\ NodeTo[e] = m
                   /\ Less(Plus(dist[n], weight[e]), dist[m])}

\* mutant: an equal offer replaces the earlier one
BestOfferIsLast(n, m) ==
    CHOOSE e \in Offers(n, m) :
        \A f \in Offers(n, m) \ {e} :
            weight[e] < weight[f] \/ (weight[e] = weight[f] /\ e > f)

BestOffer(n, m) ==
    CHOOSE e \in Offers(n, m) :
        \A f \in Offers(n, m) \ {e} :
            weight[e] < weight[f] \/ (weight[e] = weight[f] /\ e < f)

\* mutant: the node is not marked visited
SettleUnmarked ==
    /\ pc = "loop"
    /\ Reachable # {}
    /\ Nearest # dst
    /\ LET n == Nearest
           Relaxed == {m \in Nodes \ {n} : Offers(n, m) # {}}
       IN /\ dist' = [m \in Nodes |-> IF m \in Relaxed
                                      THEN Plus(dist[n], weight[BestOffer(n, m)])
                                      ELSE dist[m]]
          /\ prev' = [m \in Nodes |-> IF m \in Relaxed
                                      THEN BestOffer(n, m) ELSE prev[m]]
    /\ UNCHANGED <<input, pc, visited, result, path>>

Settle ==
    /\ pc = "loop"
    /\ Reachable # {}
    /\ Nearest # dst
    /\ LET n == Nearest
           Relaxed == {m \in Nodes \ (visited \cup {n}) : Offers(n, m) # {}}
       IN /\ visited' = visited \cup {n}
          /\ dist' = [m \in Nodes |-> IF m \in Relaxed
                                      THEN Plus(dist[n], weight[BestOffer(n, m)])
                                      ELSE dist[m]]
          /\ prev' = [m \in Nodes |-> IF m \in Relaxed
                                      THEN BestOffer(n, m) ELSE prev[m]]
    /\ UNCHANGED <<input, pc, result, path>>

(***************************************************************************)
(* The end of the loop: with a distance for dst the path is read back.     *)
(***************************************************************************)
Finish ==
    /\ pc = "loop"
    /\ Reachable # {} => Nearest = dst
    /\ IF dist[dst] = Inf
       THEN Answer("no_path", NoPath)
       ELSE pc' = "trace" /\ UNCHANGED <<input, dist, prev, visited, result, path>>

(***************************************************************************)
(* Following the predecessors from dst back to src, one edge a step.  The  *)
(* code appends each edge and reverses them at the end.                    *)
(***************************************************************************)
\* mutant: the edges are not put back in order
ReconstructBackwards ==
    /\ pc = "trace"
    /\ LET at == IF path = NoPath THEN dst ELSE NodeFrom[path[Len(path)]]
       IN IF at = src THEN Answer("path", path)
          ELSE IF prev[at] = 0 THEN Answer("no_path", NoPath)
          ELSE /\ path' = Append(path, prev[at])
               /\ UNCHANGED <<input, pc, dist, prev, visited, result>>

Reconstruct ==
    /\ pc = "trace"
    /\ LET at == IF path = NoPath THEN dst ELSE NodeFrom[path[1]]
       IN IF at = src THEN Answer("path", path)
          ELSE IF prev[at] = 0 THEN Answer("no_path", NoPath)
          ELSE /\ path' = <<prev[at]>> \o path
               /\ UNCHANGED <<input, pc, dist, prev, visited, result>>

Next == Begin \/ Settle \/ Finish \/ Reconstruct

Spec == Init /\ [][Next]_vars /\ WF_vars(Next)

-------------------------------------------------------------------------------
TypeOK ==
    /\ pc \in {"begin", "loop", "trace", "done"}
    /\ dist \in [Nodes -> Nat \cup {Inf}]
    /\ prev \in [Nodes -> Edges \cup {0}]
    /\ visited \subseteq Nodes
    /\ result \in {"none", "path", "no_path", "unknown_node"}
    /\ path \in Seq(Edges)
    /\ pc = "done" => path \in {NoPath} \cup SimplePaths

Usable == {e \in graph : weight[e] # Inf}

(***************************************************************************)
(* The answer of computePath is a least-cost path of the graph it was      *)
(* given, over edges of finite cost, and its Cost is the sum of the edge   *)
(* costs; "no path" is answered only when there is none.  Between equal    *)
(* costs the answer is the one ChosenPaths says, and nothing else decides. *)
(***************************************************************************)
AnswerIsOptimal ==
    pc = "done" /\ {src, dst} \subseteq Nodes /\ src # dst =>
        IF result = "path"
        THEN /\ ChosenPaths(Usable, src, dst, weight) = {path}
             /\ dist[dst] = PathCost(path, weight)
        ELSE PathsBetween(Usable, src, dst) = {}

(***************************************************************************)
(* The reason it is: the distance of a visited node, which the loop never  *)
(* touches again, is already the least cost from src to it.                *)
(***************************************************************************)
VisitedIsSettled ==
    \A n \in visited \ {src} :
        \E p \in LeastCostPaths(Usable, src, n, weight) :
            PathCost(p, weight) = dist[n]

(***************************************************************************)
(* Neither the loop of computePath nor that of reconstruct, which follows  *)
(* the predecessors wherever they lead, has a bound of its own; both end.  *)
(***************************************************************************)
Terminates == <>(pc = "done")
===============================================================================
