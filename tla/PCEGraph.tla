------------------------------- MODULE PCEGraph -------------------------------
(***************************************************************************)
(* The directed graph that paths are computed on, and what a path in it    *)
(* is.  NewLinkID gives every link an edge of its own, so an edge of the   *)
(* graph is exactly one directed link: parallel links are not bundled.     *)
(***************************************************************************)
EXTENDS Integers, Sequences, FiniteSets, FiniteSetsExt, Functions

CONSTANTS
    Nodes,
    Edges,          \* directed links; numbers, in the order of their names
    NodeFrom,       \* edge -> the node it leaves
    NodeTo          \* edge -> the node it enters

ASSUME FiniteAssumption == IsFiniteSet(Nodes) /\ IsFiniteSet(Edges)

ASSUME EndpointAssumption ==
    /\ NodeFrom \in [Edges -> Nodes]
    /\ NodeTo \in [Edges -> Nodes]

(***************************************************************************)
(* Links that are down are not part of the graph.                          *)
(***************************************************************************)
NewPCEGraph(up) == {e \in Edges : up[e]}

-------------------------------------------------------------------------------
(***************************************************************************)
(* A path is the sequence of its edges; NoPath, the empty one, stands for  *)
(* a path that does not exist.                                             *)
(***************************************************************************)
NoPath == <<>>

EdgesOf(p) == {p[i] : i \in DOMAIN p}

PathNodes(p) ==
    [i \in 1..(Len(p) + 1) |-> IF i = 1 THEN NodeFrom[p[1]] ELSE NodeTo[p[i - 1]]]

IsSimplePath(p) ==
    /\ \A i \in 1..(Len(p) - 1) : NodeTo[p[i]] = NodeFrom[p[i + 1]]
    /\ \A i, j \in 1..(Len(p) + 1) : i # j => PathNodes(p)[i] # PathNodes(p)[j]

SimplePaths ==
    {p \in UNION {[1..n -> Edges] : n \in 1..(Cardinality(Nodes) - 1)} :
        IsSimplePath(p)}

(***************************************************************************)
(* The reference for the path computation: the paths from src to dst that  *)
(* use only the edges of a graph, and the cheapest of them for a weight    *)
(* per edge.                                                               *)
(***************************************************************************)
PathsBetween(graph, src, dst) ==
    {p \in SimplePaths : /\ EdgesOf(p) \subseteq graph
                         /\ NodeFrom[p[1]] = src
                         /\ NodeTo[p[Len(p)]] = dst}

PathCost(p, weight) ==
    LET cost[k \in 0..Len(p)] == IF k = 0 THEN 0 ELSE cost[k - 1] + weight[p[k]]
    IN  cost[Len(p)]

LeastCostPaths(graph, src, dst, weight) ==
    LET Candidates == PathsBetween(graph, src, dst)
    IN {p \in Candidates :
           \A q \in Candidates : PathCost(p, weight) <= PathCost(q, weight)}

(***************************************************************************)
(* Among paths of the same least cost the algorithm's order of visits      *)
(* decides.  Where two of them, read backwards from dst, first use         *)
(* different edges, it keeps the one that leaves the node nearer to src    *)
(* (visited first, and only a strictly better offer replaces it), then the *)
(* one that leaves the smaller node, then the smaller edge.                *)
(***************************************************************************)
FromEnd(p, k) == p[Len(p) - k]

Prefers(p, q, weight) ==
    LET k == Min({i \in 0..(Len(p) - 1) : i >= Len(q) \/ FromEnd(p, i) # FromEnd(q, i)})
        a == FromEnd(p, k)
        b == FromEnd(q, k)
    IN \/ weight[a] > weight[b]
       \/ weight[a] = weight[b] /\ NodeFrom[a] < NodeFrom[b]
       \/ weight[a] = weight[b] /\ NodeFrom[a] = NodeFrom[b] /\ a < b

ChosenPaths(graph, src, dst, weight) ==
    LET Best == LeastCostPaths(graph, src, dst, weight)
    IN {p \in Best : \A q \in Best \ {p} : Prefers(p, q, weight)}
===============================================================================
