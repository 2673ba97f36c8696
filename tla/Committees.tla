----------------------------- MODULE Committees -----------------------------
(***************************************************************************)
(* The committee layout of the two-six network manager configs:           *)
(* generate_flat_committees_from_reachability (network_manager_utils.py)  *)
(* after the servers are drafted into committees, Committee.generate_rings *)
(* (committee.py), analyze_committees, and the per-node configs that       *)
(* Server.json_config and Client.json_config write from them.             *)
(*                                                                         *)
(* The drafting itself (kcomp_draft, networkx k-components) is not         *)
(* modelled: CommitteeSeq is its result.  Reachability is a set of         *)
(* directed edges; a node's reachable_servers list is in ServerSeq order. *)
(***************************************************************************)
EXTENDS Naturals, Sequences, SequencesExt, FiniteSets, Graphs

CONSTANTS
    ServerSeq,       \* the genesis servers, in range-config order
    ClientSeq,       \* the genesis clients and registries, in that order
    CommitteeSeq,    \* kcomp_draft's committees: sequences of servers
    NumRings,        \* num_rings
    ReachChoices     \* the reachability relations of the ranges considered

Servers == Range(ServerSeq)
Clients == Range(ClientSeq)
Nodes == Servers \cup Clients
Ks == 1..Len(CommitteeSeq)

VARIABLES
    reach,             \* <<node, server>> edges of full_internode_connectivity
    pc,                \* "clients", "rings", "analyze", "done"
    cur,               \* the client, or the committee, the loop is at
    committeeIdx,      \* committee_idx
    reachableIdx,      \* reachable_idx
    exitOf,            \* client -> index of its exit (and entrance) committee
    committeeClients,  \* committee -> Committee.clients
    exitClients,       \* server -> Server.exit_clients
    rings,             \* committee -> Committee.rings
    graph,             \* generate_rings' graph: the edges not yet in a ring
    outcome            \* "none", or the exception analyze_committees raised

vars == <<reach, pc, cur, committeeIdx, reachableIdx, exitOf, committeeClients,
          exitClients, rings, graph, outcome>>

-----------------------------------------------------------------------------
(* Reachability and the committee of a server                              *)

\* node.reachable_servers: load_nodes_from_range_config drops self-edges
\* and client-to-client edges, and keeps the range config's order
ReachableServers(n) == SelectSeq(ServerSeq, LAMBDA s : <<n, s>> \in reach)

\* server.committee, by index
CommitteeOf(s) == CHOOSE k \in Ks : s \in Range(CommitteeSeq[k])

\* the edges between members of committee k
CommitteeEdges(k) == {e \in reach : e[1] \in Range(CommitteeSeq[k]) /\ e[2] \in Range(CommitteeSeq[k])}

-----------------------------------------------------------------------------
(* generate_flat_committees_from_reachability: the client loop            *)

\* mutant: only the committee's first server learns of its exit client
AssignClientFirstServerOnly(c, k) ==
    /\ exitOf' = [exitOf EXCEPT ![c] = k]
    /\ committeeClients' = [committeeClients EXCEPT ![k] = Append(@, c)]
    /\ exitClients' = [exitClients EXCEPT ![CommitteeSeq[k][1]] = Append(@, c)]

\* assign_client without diff_entrance_exit: the client exits, and enters,
\* at committee k; it joins the committee's clients and every member's
\* exit clients
AssignClient(c, k) ==
    /\ exitOf' = [exitOf EXCEPT ![c] = k]
    /\ committeeClients' = [committeeClients EXCEPT ![k] = Append(@, c)]
    /\ exitClients' = [s \in Servers |->
                          IF s \in Range(CommitteeSeq[k]) THEN Append(exitClients[s], c)
                          ELSE exitClients[s]]

\* mutant: committee_idx advances without wrapping around
NextCommitteeIdxNoWrap(i) == i + 1

\* committee_idx = (committee_idx + 1) % len(committee_keys)
NextCommitteeIdx(i) == (i + 1) % Len(CommitteeSeq)

\* one iteration of the client loop: a client that reaches a server goes to
\* that server's committee, taking its reachable servers in turn by
\* reachable_idx; any other client goes to committee committee_idx.  The
\* loop over the committees' generate_rings follows the last client.
PlaceClient ==
    /\ pc = "clients"
    /\ LET c == ClientSeq[cur]
           rs == ReachableServers(c)
       IN /\ IF rs # <<>>
             THEN /\ AssignClient(c, CommitteeOf(rs[(reachableIdx % Len(rs)) + 1]))
                  /\ reachableIdx' = reachableIdx + 1
             ELSE /\ AssignClient(c, committeeIdx + 1)
                  /\ UNCHANGED reachableIdx
          /\ committeeIdx' = NextCommitteeIdx(committeeIdx)
    /\ IF cur = Len(ClientSeq)
       THEN pc' = "rings" /\ cur' = 1 /\ graph' = CommitteeEdges(1)
       ELSE cur' = cur + 1 /\ UNCHANGED <<pc, graph>>
    /\ UNCHANGED <<reach, rings, outcome>>

-----------------------------------------------------------------------------
(* Committee.generate_rings                                                *)

\* the edges around a cycle, back to its start
CycleEdges(cyc) == {<<cyc[i], cyc[(i % Len(cyc)) + 1]>> : i \in 1..Len(cyc)}

\* the cycles of nx.simple_cycles(graph) as long as the committee.  The
\* order simple_cycles yields them in is not specified, so any may come
\* first; a cycle is written from the committee's first server (its
\* rotation changes no config).
HamiltonianCycles(k, edges) ==
    {cyc \in {<<CommitteeSeq[k][1]>> \o p : p \in SetToSeqs(Range(Tail(CommitteeSeq[k])))} :
        CycleEdges(cyc) \subseteq edges}

\* mutant: the ring's edges stay in the graph
AddRingKeepEdges(k, cyc) ==
    /\ rings' = [rings EXCEPT ![k] = Append(@, cyc)]
    /\ UNCHANGED graph

\* the while loop's body: the first cycle found becomes a ring and its
\* edges leave the graph
AddRing(k, cyc) ==
    /\ rings' = [rings EXCEPT ![k] = Append(@, cyc)]
    /\ graph' = graph \ CycleEdges(cyc)

WantsRing(k) == Len(rings[k]) < NumRings

GenerateRing ==
    /\ pc = "rings"
    /\ WantsRing(cur)
    /\ \E cyc \in HamiltonianCycles(cur, graph) : AddRing(cur, cyc)
    /\ UNCHANGED <<reach, pc, cur, committeeIdx, reachableIdx, exitOf,
                   committeeClients, exitClients, outcome>>

\* the loop ends when enough rings are found or no cycle is left (the
\* shortfall is only printed); the next committee builds its own graph
FinishRings ==
    /\ pc = "rings"
    /\ ~WantsRing(cur) \/ HamiltonianCycles(cur, graph) = {}
    /\ IF cur = Len(CommitteeSeq)
       THEN pc' = "analyze" /\ UNCHANGED <<cur, graph>>
       ELSE cur' = cur + 1 /\ graph' = CommitteeEdges(cur + 1) /\ UNCHANGED pc
    /\ UNCHANGED <<reach, committeeIdx, reachableIdx, exitOf, committeeClients,
                   exitClients, rings, outcome>>

-----------------------------------------------------------------------------
(* analyze_committees, run first by generate_network_manager_request      *)

\* nx.is_strongly_connected, by Warshall's closure
StronglyConnected(G) == \A m, n \in G.node : ConnectionsIn(G)[m, n]

\* Committee.gather_reachable_committees: the committees of the servers
\* the members reach, its own included when a member reaches another
GatherReachableCommittees(k) ==
    {CommitteeOf(e[2]) : e \in {f \in reach : f[1] \in Range(CommitteeSeq[k])}}

\* mutant: the direction of reachability is dropped before the check
CommitteeGraphBothWays ==
    LET E == UNION {{<<k, d>> : d \in GatherReachableCommittees(k)} : k \in Ks}
        U == E \cup {<<e[2], e[1]>> : e \in E}
    IN [node |-> {e[1] : e \in U}, edge |-> U]

\* the committee digraph: an edge from each committee to every committee
\* gather_reachable_committees finds, its own included; a committee with
\* no edge at all is not a node of it
CommitteeGraph ==
    LET E == UNION {{<<k, d>> : d \in GatherReachableCommittees(k)} : k \in Ks}
    IN [node |-> {e[1] : e \in E} \cup {e[2] : e \in E}, edge |-> E]

\* max() of no out-degrees raises ValueError; a graph that is not strongly
\* connected raises; the flooding warning is only printed
AnalyzeCommittees ==
    /\ pc = "analyze"
    /\ outcome' = IF CommitteeGraph.edge = {} THEN "ValueError"
                  ELSE IF StronglyConnected(CommitteeGraph) THEN "none"
                  ELSE "notStronglyConnected"
    /\ pc' = "done"
    /\ UNCHANGED <<reach, cur, committeeIdx, reachableIdx, exitOf, committeeClients,
                   exitClients, rings, graph>>

-----------------------------------------------------------------------------
(* The configs written from the committees                                 *)

\* mutant: the entry names the server itself as its successor
RingEntrySelf(ring, s) ==
    IF s \in Range(ring)
    THEN [next |-> ring[SelectInSeq(ring, LAMBDA x : x = s)], length |-> Len(ring)]
    ELSE [next |-> "", length |-> 0]

\* get_rings_for_server: per ring, the successor and the ring's length, or
\* a blank entry that keeps ringIdx aligned across the committee
RingEntry(ring, s) ==
    IF s \in Range(ring)
    THEN [next |-> ring[(SelectInSeq(ring, LAMBDA x : x = s) % Len(ring)) + 1],
          length |-> Len(ring)]
    ELSE [next |-> "", length |-> 0]

GetRingsForServer(s) ==
    [j \in 1..Len(rings[CommitteeOf(s)]) |-> RingEntry(rings[CommitteeOf(s)][j], s)]

\* reachableCommittees: the first reachable server of each other committee
ReachableCommittees(s) ==
    LET rs == ReachableServers(s)
        others == {CommitteeOf(rs[i]) : i \in 1..Len(rs)} \ {CommitteeOf(s)}
    IN [k \in others |-> rs[SelectInSeq(rs, LAMBDA t : CommitteeOf(t) = k)]]

\* Server.json_config
ServerConfig(s) ==
    [committeeName |-> CommitteeOf(s),
     exitClients |-> exitClients[s],
     committeeClients |-> committeeClients[CommitteeOf(s)],
     reachableCommittees |-> ReachableCommittees(s),
     rings |-> GetRingsForServer(s)]

\* Client.json_config: entrance and exit committee are the same servers
ClientConfig(c) ==
    [entranceCommittee |-> CommitteeSeq[exitOf[c]], exitCommittee |-> CommitteeSeq[exitOf[c]]]

\* the s2s links determine_links_needed asks for: every hop of every ring,
\* and from each server to the first server it reaches in each other
\* committee
RingLinks ==
    UNION {UNION {CycleEdges(rings[k][j]) : j \in DOMAIN rings[k]} : k \in Ks}

IntercommitteeLinks ==
    UNION {{<<s, ServerConfig(s).reachableCommittees[k]>> : k \in DOMAIN ServerConfig(s).reachableCommittees}
           : s \in Servers}

-----------------------------------------------------------------------------

Init ==
    /\ reach \in ReachChoices
    /\ pc = "clients"
    /\ cur = 1
    /\ committeeIdx = 0
    /\ reachableIdx = 0
    /\ exitOf = [c \in Clients |-> 0]
    /\ committeeClients = [k \in Ks |-> <<>>]
    /\ exitClients = [s \in Servers |-> <<>>]
    /\ rings = [k \in Ks |-> <<>>]
    /\ graph = {}
    /\ outcome = "none"

Next ==
    \/ PlaceClient
    \/ GenerateRing
    \/ FinishRings
    \/ AnalyzeCommittees

Spec == Init /\ [][Next]_vars
-----------------------------------------------------------------------------
(* Properties                                                              *)

Phases == {"clients", "rings", "analyze", "done"}

TypeOK ==
    /\ reach \subseteq Nodes \X Servers
    /\ pc \in Phases
    /\ cur \in 1..(IF Len(ClientSeq) > Len(CommitteeSeq) THEN Len(ClientSeq) ELSE Len(CommitteeSeq))
    /\ committeeIdx \in 0..(Len(CommitteeSeq) - 1)
    /\ reachableIdx \in 0..Len(ClientSeq)
    /\ exitOf \in [Clients -> 0..Len(CommitteeSeq)]
    /\ committeeClients \in [Ks -> Seq(Clients)]
    /\ exitClients \in [Servers -> Seq(Clients)]
    /\ rings \in [Ks -> Seq(Seq(Servers))]
    /\ graph \subseteq Servers \X Servers
    /\ outcome \in {"none", "ValueError", "notStronglyConnected"}

\* generate_rings promises rings "using disjoint sets of edges": no two
\* rings of a committee share a hop, whatever order simple_cycles yields
\* the cycles in and however many rounds the while loop runs
RingsEdgeDisjoint ==
    \A k \in Ks : \A i, j \in 1..Len(rings[k]) :
        i # j => CycleEdges(rings[k][i]) \cap CycleEdges(rings[k][j]) = {}

\* the successor of s on the j-th ring of its committee, as the rings
\* entry of its config says
Hop(s, j) == GetRingsForServer(s)[j].next

RECURSIVE Walk(_, _, _)
\* the servers met following ring j from s for n hops
Walk(s, j, n) == IF n = 0 THEN {} ELSE {s} \cup Walk(Hop(s, j), j, n - 1)

\* every ring entry that get_rings_for_server writes into a server config
\* names a member the server reaches, carries the committee's size as the
\* ring length, is a link generate_configs asks for, and following the
\* entries from any member visits the whole committee: a ring message
\* started anywhere passes every server
RingConfigsTraverseCommittee ==
    \A k \in Ks : \A j \in 1..Len(rings[k]) :
        LET members == Range(CommitteeSeq[k]) IN
        /\ \A s \in members :
              /\ Hop(s, j) \in members
              /\ <<s, Hop(s, j)>> \in reach \cap RingLinks
              /\ GetRingsForServer(s)[j].length = Len(CommitteeSeq[k])
        /\ \A s \in members : Walk(s, j, Len(CommitteeSeq[k])) = members

\* once the client loop is over, every client's exit committee in its
\* config is exactly the set of servers whose config lists it among the
\* exit clients and the committee clients, and a client that reaches any
\* server exits at a committee it reaches
ClientsPlacedConsistently ==
    pc # "clients" =>
        \A c \in Clients :
            LET exits == Range(ClientConfig(c).exitCommittee) IN
            /\ exits = {s \in Servers : c \in Range(ServerConfig(s).exitClients)}
            /\ \A s \in exits : c \in Range(ServerConfig(s).committeeClients)
            /\ ReachableServers(c) # <<>> => \E s \in exits : <<c, s>> \in reach

\* the committee graph of the links the configs request: from a server's
\* committee to each committee in its reachableCommittees
LinkGraph ==
    [node |-> Ks, edge |-> {<<CommitteeOf(l[1]), CommitteeOf(l[2])>> : l \in IntercommitteeLinks}]

\* when analyze_committees lets config generation go on, the
\* intercommittee links the configs request, one per server and reachable
\* committee, connect every committee to every other
AnalyzedCommitteesLinked ==
    pc = "done" /\ outcome = "none" => StronglyConnected(LinkGraph)

=============================================================================
