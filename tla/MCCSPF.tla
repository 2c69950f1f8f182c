-------------------------------- MODULE MCCSPF --------------------------------
(***************************************************************************)
(* Four nodes: two parallel links from 1 to 2, a detour over 3, and a dead *)
(* end 4 with a link back.                                                 *)
(***************************************************************************)
EXTENDS CSPF

MCNodes == 1..4
MCEdges == 1..6
MCNodeFrom == <<1, 1, 1, 3, 2, 4>>
MCNodeTo   == <<2, 2, 3, 2, 4, 3>>
MCQuestions == {<<1, 2>>, <<1, 4>>, <<2, 3>>, <<4, 1>>, <<3, 3>>, <<1, 5>>, <<5, 1>>}
MCGraphs == {MCEdges, MCEdges \ {1}, MCEdges \ {4}}
===============================================================================
