--------------------------- MODULE MCCommittees ---------------------------
(***************************************************************************)
(* Two committees as kcomp_draft could draft them: A of three servers,    *)
(* whose internal reachability is any of the 64 subsets of its six        *)
(* possible edges, and B of five servers where each reaches the next      *)
(* three around b1..b5 (so three edge-disjoint rings exist, one more than *)
(* num_rings).  Between the committees: both ways, one way only, or both  *)
(* ways through different servers.  A client c1 that reaches nothing or   *)
(* reaches a2 and b1, and a registry c2 that reaches b2 or nothing.       *)
(***************************************************************************)
EXTENDS Committees, TLC

CONSTANTS a1, a2, a3, b1, b2, b3, b4, b5, c1, c2

MCServerSeq == <<a1, a2, a3, b1, b2, b3, b4, b5>>
MCClientSeq == <<c1, c2>>
MCCommitteeSeq == <<<<a1, a2, a3>>, <<b1, b2, b3, b4, b5>>>>

ASeq == <<a1, a2, a3>>
BSeq == <<b1, b2, b3, b4, b5>>

AEdges == {<<ASeq[i], ASeq[j]>> : i, j \in 1..3} \ {<<a, a>> : a \in Range(ASeq)}
BEdges == {<<BSeq[i], BSeq[((i + d - 1) % 5) + 1]>> : i \in 1..5, d \in 1..3}

InterChoices == {{<<a1, b1>>, <<b1, a1>>}, {<<a1, b1>>}, {<<a2, b2>>, <<b3, a3>>}}
ClientChoices == {{}, {<<c1, a2>>, <<c1, b1>>}} \X {{<<c2, b2>>}, {}}

MCReachChoices ==
    {x \cup BEdges \cup i \cup cl[1] \cup cl[2] :
        x \in SUBSET AEdges, i \in InterChoices, cl \in ClientChoices}

=============================================================================
