------------------------------ MODULE ConfigGen ------------------------------
(***************************************************************************)
(* The network manager's config generator (generate_configs.py), a batch   *)
(* program that RiB runs twice.  The first run turns the CLI's channel     *)
(* selectors and the channel list into per-node channel roles, expected    *)
(* links and a link request (network-manager-request.json); the comms      *)
(* plugins then try to create the requested links, and the second run     *)
(* compares the request with what they report as fulfilled.                *)
(*                                                                         *)
(* The file I/O, logging and persona/key generation are left out; every    *)
(* computation that decides roles, links and the outcome is an operator    *)
(* below, and an exception of the program is the outcome of its run.       *)
(***************************************************************************)
EXTENDS Naturals, Sequences, SequencesExt, FiniteSets

CONSTANTS
    ServerSeq,    \* server uuids, sorted
    ClientSeq,    \* client uuids, sorted
    Ring,         \* the committee's ring (one committee, one ring)
    Entrance,     \* client -> its entrance committee's servers
    Exit,         \* client -> its exit committee's servers
    Reachable,    \* server -> first server of each other reachable committee
    ChannelList,  \* channel gids in the order of the channel list file
    ConnType,     \* gid -> connectionType
    ShapesOf,     \* gid -> the channel property sets the list may give it
    S2SChoices,   \* values the two s2s selectors may take (sequences of gids)
    C2SChoices    \* values the two c2s selectors may take

Servers  == Range(ServerSeq)
Clients  == Range(ClientSeq)
Personas == Servers \cup Clients
Gids     == Range(ChannelList)

Sides == {"LS_BOTH", "LS_CREATOR", "LS_LOADER"}
NoRole == [name |-> "none", side |-> "LS_UNDEF", tags |-> {}]
NoSide == "none"

VARIABLES
    shape,      \* gid -> channel record (channel list file)
    cli,        \* the CLI arguments of the two runs
    attempt,    \* runs so far (status file "attempt")
    outcome,    \* "none" or the exception that ended the last run
    statusFile, \* network-manager-config-gen-status.json: "none" if absent
    request,    \* network-manager-request.json: the requested links
    needed,     \* links determine_links_needed asked for
    nodes,      \* the NodeState of every persona after the first run
    fulfilled,  \* the fulfilled-requests file handed to the second run
    reviewed    \* RiB has produced the fulfilled-requests file

vars == <<shape, cli, attempt, outcome, statusFile, request, needed, nodes,
          fulfilled, reviewed>>

\* the channels the gids of a selector or the channel list name
Chans(gids) == [i \in 1..Len(gids) |-> shape[gids[i]]]

-----------------------------------------------------------------------------
(* Channel compatibility (create_state's filters)                          *)

\* roles conflict iff they share a mechanical tag
RolesCompatible(a, b) == a.tags \cap b.tags = {}

\* the roles of a compatible with some role of b
PossibleRoles(a, b) ==
    SelectSeq(a.roles, LAMBDA ra : \E j \in 1..Len(b.roles) : RolesCompatible(ra, b.roles[j]))

ChannelsCompatible(a, b) ==
    /\ a.gid # b.gid
    /\ Len(PossibleRoles(a, b)) = Len(a.roles)
    /\ Len(PossibleRoles(b, a)) = Len(b.roles)

FilterCompatibleChannels(channels, required, connType) ==
    SelectSeq(channels, LAMBDA c : c.ctype = connType
                                   /\ \A j \in 1..Len(required) : ChannelsCompatible(c, required[j]))

\* selector if given, else the channels that do not conflict with any selector
CreateState ==
    LET all  == Chans(ChannelList)
        req  == Chans(cli.genC2S) \o Chans(cli.genS2S) \o Chans(cli.dynC2S) \o Chans(cli.dynS2S)
        pC2S == FilterCompatibleChannels(all, req, "CT_INDIRECT")
        pS2S == FilterCompatibleChannels(all, req, "CT_DIRECT") \o pC2S
        Pick(sel, possible) == IF sel # <<>> THEN Chans(sel) ELSE possible
    IN [genS2S |-> Pick(cli.genS2S, pS2S), genC2S |-> Pick(cli.genC2S, pC2S),
        dynS2S |-> Pick(cli.dynS2S, pS2S), dynC2S |-> Pick(cli.dynC2S, pC2S),
        bootstrap |-> FilterCompatibleChannels(all, req, "CT_LOCAL"),
        multicast |-> cli.multicast
                      /\ \E c \in Range(Pick(cli.genC2S, pC2S)) : c.multicast]

-----------------------------------------------------------------------------
(* Links needed (determine_links_needed, dedup)                            *)

L(src, dsts) == [src |-> src, dsts |-> dsts]

\* keep the first of equal sender/recipients pairs
Dedup(links) ==
    FoldLeft(LAMBDA acc, l : IF l \in Range(acc) THEN acc ELSE Append(acc, l), <<>>, links)

\* each link also requested in the other direction, from its first recipient
BothWays(links) ==
    FlattenSeq([i \in 1..Len(links) |->
                  <<links[i], L(links[i].dsts[1], <<links[i].src>>)>>])

CompleteC2S ==
    FlattenSeq([i \in 1..Len(ClientSeq) |->
                  [j \in 1..Len(ServerSeq) |-> L(ClientSeq[i], <<ServerSeq[j]>>)]])
CompleteS2S ==
    FlattenSeq([i \in 1..Len(ServerSeq) |->
                  SelectSeq([j \in 1..Len(ServerSeq) |-> L(ServerSeq[i], <<ServerSeq[j]>>)],
                            LAMBDA l : l.dsts[1] # ServerSeq[i])])

CommitteeC2S(multicast) ==
    FlattenSeq([i \in 1..Len(ClientSeq) |->
        LET c == ClientSeq[i]
            unicast == Entrance[c] \o Exit[c]
        IN [j \in 1..Len(unicast) |-> L(c, <<unicast[j]>>)]
           \o (IF multicast THEN <<L(c, Entrance[c])>> ELSE <<>>)])
CommitteeS2S ==
    [i \in 1..Len(Ring) |-> L(Ring[i], <<Ring[(i % Len(Ring)) + 1]>>)]
    \o FlattenSeq([i \in 1..Len(ServerSeq) |->
                     [k \in 1..Len(Reachable[ServerSeq[i]]) |->
                        L(ServerSeq[i], <<Reachable[ServerSeq[i]][k]>>)]])

DetermineLinksNeeded(st) ==
    [c2s |-> Dedup(BothWays(IF cli.complete THEN CompleteC2S ELSE CommitteeC2S(st.multicast))),
     s2s |-> Dedup(BothWays(IF cli.complete THEN CompleteS2S ELSE CommitteeS2S))]

-----------------------------------------------------------------------------
(* Role assignment on NodeState (fulfill_request and its helpers)          *)

\* NodeState of every persona: channel_roles, mechanical_tags,
\* expected_links (dst -> gid -> link side) and expected_multicast_links
EmptyNodes ==
    [roles |-> [n \in Personas |-> [g \in Gids |-> NoRole]],
     tags  |-> [n \in Personas |-> {}],
     exp   |-> [n \in Personas |-> [m \in Personas |-> [g \in Gids |-> NoSide]]],
     mc    |-> [n \in Personas |-> {}]]

\* the first role whose side is the first of the allowed sides present;
\* NoRole where find_role raises
FindRole(roles, allowed) ==
    LET hits == SelectSeq([k \in 1..Len(allowed) |->
                             SelectSeq(roles, LAMBDA r : r.side = allowed[k])],
                          LAMBDA h : h # <<>>)
    IN IF hits = <<>> THEN NoRole ELSE Head(Head(hits))

\* mutant: only the same-channel test, no mechanical-tag test
RoleCompatibleWithNodeNoTags(ns, n, role, g) ==
    IF ns.roles[n][g] # NoRole THEN ns.roles[n][g].name = role.name ELSE TRUE

RoleCompatibleWithNode(ns, n, role, g) ==
    IF ns.roles[n][g] # NoRole THEN ns.roles[n][g].name = role.name
    ELSE role.tags \cap ns.tags[n] = {}

AddRoleToNode(ns, n, role, g) ==
    [ns EXCEPT !.roles[n][g] = role, !.tags[n] = @ \cup role.tags]

NodeHasExpectedLink(ns, n, dst, g, side) == ns.exp[n][dst][g] = side

NodeHasExpectedMulticastLink(ns, n, dsts, g, side) ==
    [personas |-> dsts, gid |-> g, side |-> side] \in ns.mc[n]

MatchingLinkSide(side) ==
    CASE side = "LS_BOTH"    -> "LS_BOTH"
      [] side = "LS_LOADER"  -> "LS_CREATOR"
      [] side = "LS_CREATOR" -> "LS_LOADER"

\* mutant: the receiver's role is not assigned, only the expected link
AssignUnicastNoReceiverRole(ns, src, dst, sr, rr, g) ==
    [ns EXCEPT !.exp[src][dst][g] = sr.side]

\* mutant: the expected link records the role's name, not its link side
AssignUnicastRoleName(ns, src, dst, sr, rr, g) ==
    [AddRoleToNode(ns, dst, rr, g) EXCEPT !.exp[src][dst][g] = sr.name]

\* the receiver takes its role and the sender expects the link on g
AssignUnicast(ns, src, dst, sr, rr, g) ==
    [AddRoleToNode(ns, dst, rr, g) EXCEPT !.exp[src][dst][g] = sr.side]

LoaderRoles  == <<"LS_BOTH", "LS_LOADER">>
CreatorRoles == <<"LS_BOTH", "LS_CREATOR">>

\* <<sender role, receiver role>> the link direction and existing roles ask for
LinkRoles(ch, ns, src, dsts) ==
    LET sr == ns.roles[src][ch.gid]
        rr == ns.roles[dsts[1]][ch.gid]
    IN CASE ch.dir = "LD_LOADER_TO_CREATOR" ->
              <<FindRole(ch.roles, LoaderRoles), FindRole(ch.roles, CreatorRoles)>>
         [] ch.dir = "LD_CREATOR_TO_LOADER" ->
              <<FindRole(ch.roles, CreatorRoles), FindRole(ch.roles, LoaderRoles)>>
         [] sr # NoRole -> <<sr, FindRole(ch.roles, <<MatchingLinkSide(sr.side)>>)>>
         [] rr # NoRole -> <<FindRole(ch.roles, <<MatchingLinkSide(rr.side)>>), rr>>
         [] OTHER -> <<FindRole(ch.roles, LoaderRoles), FindRole(ch.roles, CreatorRoles)>>

\* The loops below thread one record through fulfill_request's calls:
\* err (the exception raised so far, "none" if none), ok (the last
\* fulfill_request's answer), nodes, req (network_manager_request) and
\* still (the links not yet requested).  An exception skips every later
\* step, as it ends generate_network_manager_request.

\* fulfill_request once the roles are chosen: sr for the sender, rr for
\* the receivers.  err is "noRole" where find_role raised.
FulfillWithRoles(ch, acc, src, dsts, update, sr, rr) ==
    LET ns == acc.nodes
        g  == ch.gid
        fits == /\ RoleCompatibleWithNode(ns, src, sr, g)
                /\ \A d \in Range(dsts) : RoleCompatibleWithNode(ns, d, rr, g)
        \* a BOTH/BOTH link is only expected on one node of the pair
        once == /\ ch.dir = "LD_BIDI" /\ sr.side = "LS_BOTH" /\ rr.side = "LS_BOTH"
                /\ Len(dsts) = 1
                /\ NodeHasExpectedLink(ns, dsts[1], src, g, "LS_BOTH")
        ns1 == AddRoleToNode(ns, src, sr, g)
        multi == IF NodeHasExpectedMulticastLink(ns, src, dsts, g, sr.side) THEN ns1
                 ELSE [FoldLeft(LAMBDA a, d : AddRoleToNode(a, d, rr, g), ns1, dsts)
                         EXCEPT !.mc[src] = @ \cup {[personas |-> dsts, gid |-> g,
                                                     side |-> sr.side]}]
    IN CASE sr = NoRole \/ rr = NoRole -> [acc EXCEPT !.err = "noRole", !.ok = FALSE]
         [] ~fits -> [acc EXCEPT !.ok = FALSE]
         [] update /\ ~once ->
              [acc EXCEPT !.ok = TRUE,
                          !.nodes = IF Len(dsts) = 1
                                    THEN AssignUnicast(ns1, src, dsts[1], sr, rr, g)
                                    ELSE multi]
         [] OTHER -> [acc EXCEPT !.ok = TRUE]

\* can ch carry src -> dsts: a multicast link needs a multicast channel
FulfillRequest(ch, acc, src, dsts, update) ==
    IF Len(dsts) > 1 /\ ~ch.multicast THEN [acc EXCEPT !.ok = FALSE]
    ELSE LET rs == LinkRoles(ch, acc.nodes, src, dsts)
         IN FulfillWithRoles(ch, acc, src, dsts, update, rs[1], rs[2])

-----------------------------------------------------------------------------
(* The loops of generate_network_manager_request                           *)

\* after fulfill_request for l on ch in create_links: requested on ch,
\* or left for the next channel
Requested(ch, l, f) ==
    CASE f.err # "none" -> f
      [] f.ok -> [f EXCEPT !.req = Append(@, [sender |-> l.src, recipients |-> l.dsts,
                                              channel |-> ch.gid])]
      [] OTHER -> [f EXCEPT !.still = Append(@, l)]

TakeLink(ch, acc, l) ==
    IF acc.err # "none" THEN acc
    ELSE Requested(ch, l, FulfillRequest(ch, acc, l.src, l.dsts, TRUE))

\* one enabled channel takes every remaining link it can carry
OfferLinks(ch, acc) ==
    IF ~ch.enabled THEN acc
    ELSE FoldLeft(LAMBDA a, l : TakeLink(ch, a, l), [acc EXCEPT !.still = <<>>], acc.still)

RECURSIVE CreateLinks(_, _)

\* each channel in turn; links left after the last channel raise
CreateLinks(channels, acc) ==
    CASE acc.err # "none" -> acc
      [] channels = <<>> -> [acc EXCEPT !.err = IF acc.still = <<>> THEN "none"
                                                ELSE "unsatisfied"]
      [] OTHER -> CreateLinks(Tail(channels), OfferLinks(Head(channels), acc))

\* every channel is offered every link; roles and expected links only
RECURSIVE AssignDynChannelRoles(_, _, _)
AssignDynChannelRoles(channels, acc, links) ==
    IF channels = <<>> \/ acc.err # "none" THEN acc
    ELSE AssignDynChannelRoles(
           Tail(channels),
           FoldLeft(LAMBDA a, l : IF a.err # "none" THEN a
                                  ELSE FulfillRequest(Head(channels), a, l.src, l.dsts, TRUE),
                    acc, links),
           links)

\* a bootstrap channel's only role goes to every node
AssignBootstrapChannelRoles(channels, acc) ==
    LET Assign(a, ch) ==
            CASE a.err # "none" -> a
              [] Len(ch.roles) # 1 -> [a EXCEPT !.err = "bootstrapRoles"]
              [] \E n \in Personas : ~RoleCompatibleWithNode(a.nodes, n, ch.roles[1], ch.gid) ->
                   [a EXCEPT !.err = "bootstrapConflict"]
              [] OTHER ->
                   [a EXCEPT !.nodes = FoldLeft(LAMBDA b, n : AddRoleToNode(b, n, ch.roles[1], ch.gid),
                                                @, ServerSeq \o ClientSeq)]
    IN FoldLeft(Assign, acc, channels)

\* the scan for a link expected on g: node.expected_links[dsts[0]] raises
\* KeyError for a sender that expects no link at all to that recipient
RECURSIVE ScanLinks(_, _, _)
ScanLinks(g, ns, links) ==
    IF links = <<>> THEN "unlinked"
    ELSE LET row == ns.exp[Head(links).src][Head(links).dsts[1]]
         IN CASE \A h \in Gids : row[h] = NoSide -> "KeyError"
              [] row[g] # NoSide -> "none"
              [] OTHER -> ScanLinks(g, ns, Tail(links))

CheckReqLinks(gids, acc, links) ==
    IF acc.err # "none" THEN acc
    ELSE [acc EXCEPT !.err = FoldLeft(LAMBDA e, g : IF e # "none" THEN e
                                                    ELSE ScanLinks(g, acc.nodes, links),
                                      "none", gids)]

\* the steps in the order the code takes them, the first exception ending
\* the run; need is determine_links_needed's [c2s, s2s]
GenerateNetworkManagerRequest(st, need) ==
    LET start == [err |-> "none", ok |-> FALSE, nodes |-> EmptyNodes, req |-> <<>>,
                  still |-> need.s2s]
        Links(acc, links) == [acc EXCEPT !.still = links]
    IN CheckReqLinks(cli.dynC2S, CheckReqLinks(cli.dynS2S,
       CheckReqLinks(cli.genC2S, CheckReqLinks(cli.genS2S,
         AssignBootstrapChannelRoles(st.bootstrap,
           AssignDynChannelRoles(st.dynC2S,
             AssignDynChannelRoles(st.dynS2S,
               CreateLinks(st.genC2S, Links(CreateLinks(st.genS2S, start), need.c2s)),
               need.s2s),
             need.c2s)),
         need.s2s), need.c2s), need.s2s), need.c2s)

-----------------------------------------------------------------------------
(* The second run: what the comms plugins fulfilled                        *)

\* sender and sorted recipients identify a link
LinkHashFunction(l) == <<l.sender, Range(l.recipients)>>

\* requested links with no fulfilled entry, or whose entry names no channel
\* (the fulfilled file names each link once)
GetUnfulfilledLinks(req, ful) ==
    LET Entry(h) == {f \in ful : LinkHashFunction(f) = h}
    IN {i \in 1..Len(req) :
          \/ Entry(LinkHashFunction(req[i])) = {}
          \/ \A f \in Entry(LinkHashFunction(req[i])) : f.channels = {}}

-----------------------------------------------------------------------------
(* The two runs and RiB between them                                       *)

Channel == [gid : Gids, ctype : {"CT_DIRECT", "CT_INDIRECT", "CT_LOCAL"},
            dir : {"LD_LOADER_TO_CREATOR", "LD_CREATOR_TO_LOADER", "LD_BIDI"},
            multicast : BOOLEAN, enabled : BOOLEAN,
            roles : Seq([name : STRING, side : Sides, tags : SUBSET STRING])]

Init ==
    /\ shape \in {f \in [Gids -> UNION {ShapesOf[g] : g \in Gids}] :
                    \A g \in Gids : f[g] \in ShapesOf[g]}
    /\ cli \in [genS2S : S2SChoices, dynS2S : S2SChoices,
                genC2S : C2SChoices, dynC2S : C2SChoices,
                complete : BOOLEAN, multicast : BOOLEAN]
    /\ attempt = 0
    /\ outcome = "none"
    /\ statusFile = "none"
    /\ request = <<>>
    /\ needed = [c2s |-> <<>>, s2s |-> <<>>]
    /\ nodes = EmptyNodes
    /\ fulfilled = {}
    /\ reviewed = FALSE

\* run() without a fulfilled-requests file: handle_initial_attempt writes
\* the configs, the request and a needs-review status; an exception ends
\* the run before the status file is written
HandleInitialAttempt ==
    /\ attempt = 0
    /\ \E need \in {DetermineLinksNeeded(CreateState)} :
         \E g \in {GenerateNetworkManagerRequest(CreateState, need)} :
            /\ outcome' = g.err
            /\ request' = IF g.err = "none" THEN g.req ELSE <<>>
            /\ needed' = need
            /\ nodes' = g.nodes
            /\ statusFile' = IF g.err = "none" THEN "needs-review" ELSE "none"
    /\ attempt' = 1
    /\ UNCHANGED <<shape, cli, fulfilled, reviewed>>

\* RiB hands the request to the comms plugins, which report every link
\* fulfilled except possibly one, left out or reported with no channel
RibReview ==
    /\ statusFile = "needs-review"
    /\ ~reviewed
    /\ \E miss \in 0..Len(request), how \in {"absent", "noChannel"} :
          fulfilled' = {[sender |-> request[i].sender, recipients |-> request[i].recipients,
                         channels |-> IF i = miss THEN {} ELSE {request[i].channel}] :
                          i \in {j \in 1..Len(request) : j # miss \/ how = "noChannel"}}
    /\ reviewed' = TRUE
    /\ UNCHANGED <<shape, cli, attempt, outcome, statusFile, request, needed, nodes>>

\* run() with the fulfilled-requests file: create_state removes the status
\* file; handle_final_attempt writes "complete" on success and raises if a
\* requested link went unfulfilled
HandleFinalAttempt ==
    /\ reviewed
    /\ attempt = 1
    /\ attempt' = 2
    /\ IF GetUnfulfilledLinks(request, fulfilled) = {}
       THEN outcome' = "none" /\ statusFile' = "complete"
       ELSE outcome' = "failed" /\ statusFile' = "none"
    /\ UNCHANGED <<shape, cli, request, needed, nodes, fulfilled, reviewed>>

Next ==
    \/ HandleInitialAttempt
    \/ RibReview
    \/ HandleFinalAttempt

Spec == Init /\ [][Next]_vars

-----------------------------------------------------------------------------
(* Properties                                                              *)

Link == [sender : Personas, recipients : Seq(Personas), channel : Gids]

TypeOK ==
    /\ shape \in [Gids -> Channel]
    /\ attempt \in 0..2
    /\ outcome \in {"none", "unsatisfied", "noRole", "bootstrapRoles",
                    "bootstrapConflict", "unlinked", "KeyError", "failed"}
    /\ statusFile \in {"none", "needs-review", "complete"}
    /\ request \in Seq(Link)
    /\ nodes.roles \in [Personas -> [Gids -> {NoRole} \cup UNION {Range(shape[g].roles) : g \in Gids}]]
    /\ nodes.exp \in [Personas -> [Personas -> [Gids -> Sides \cup {NoSide}]]]
    /\ fulfilled \subseteq [sender : Personas, recipients : Seq(Personas), channels : SUBSET Gids]
    /\ reviewed \in BOOLEAN

\* the run that RiB continues from: the first run wrote its configs
FirstRunSucceeded == attempt = 2 \/ (attempt = 1 /\ outcome = "none")

\* a creator on one end and a loader on the other, in the channel's direction
LinkablePair(dir, s, r) ==
    LET loads   == {"LS_BOTH", "LS_LOADER"}
        creates == {"LS_BOTH", "LS_CREATOR"}
    IN CASE dir = "LD_LOADER_TO_CREATOR" -> s \in loads /\ r \in creates
         [] dir = "LD_CREATOR_TO_LOADER" -> s \in creates /\ r \in loads
         [] OTHER -> (s \in loads /\ r \in creates) \/ (s \in creates /\ r \in loads)

\* Invariant 6 of the specification and its role-assignment rule, over
\* everything the first run's config.json files hold: no node holds two
\* channel roles with a mechanical tag in common, and every expected
\* link, unicast or multicast, has roles on both ends, the sender's being
\* the link side it expects, that can create and load it in the channel's
\* direction.  Roles accumulate over genesis, dynamic and bootstrap
\* channels, and fulfill_request picks a role from the roles a node
\* already holds, so a wrong choice shows only several links later.
RolesConsistent ==
    FirstRunSucceeded =>
        \A n \in Personas :
            /\ \A g1, g2 \in Gids :
                  g1 # g2 => nodes.roles[n][g1].tags \cap nodes.roles[n][g2].tags = {}
            /\ \A m \in Personas, g \in Gids :
                  nodes.exp[n][m][g] # NoSide =>
                     /\ nodes.roles[n][g].side = nodes.exp[n][m][g]
                     /\ nodes.roles[m][g] # NoRole
                     /\ LinkablePair(shape[g].dir, nodes.roles[n][g].side, nodes.roles[m][g].side)
            /\ \A e \in nodes.mc[n] :
                  /\ nodes.roles[n][e.gid].side = e.side
                  /\ \A d \in Range(e.personas) :
                        /\ nodes.roles[d][e.gid] # NoRole
                        /\ LinkablePair(shape[e.gid].dir, e.side, nodes.roles[d][e.gid].side)

\* create_links' contract: each needed link, both directions of every
\* committee link after dedup, is requested exactly once, on one channel,
\* and the sender and every recipient hold a role on that channel, so the
\* comms plugins can realise it.
RequestsRealizable ==
    FirstRunSucceeded =>
        /\ Len(request) = Len(needed.c2s) + Len(needed.s2s)
        /\ {<<r.sender, r.recipients>> : r \in Range(request)}
              = {<<l.src, l.dsts>> : l \in Range(needed.c2s \o needed.s2s)}
        /\ \A r \in Range(request) :
              /\ nodes.roles[r.sender][r.channel] # NoRole
              /\ \A d \in Range(r.recipients) : nodes.roles[d][r.channel] # NoRole

\* a required channel g has a link expected on it among links
HasExpectedLink(g, links) == \E l \in Range(links) : nodes.exp[l.src][l.dsts[1]][g] # NoSide

\* check_req_links' docstring: the run fails there only when a required
\* channel "will not have any links", i.e. no node expects a link on it.
RequiredChannelCheckSound ==
    outcome \in {"unlinked", "KeyError"} =>
        \/ \E g \in Range(cli.genS2S) \cup Range(cli.dynS2S) : ~HasExpectedLink(g, needed.s2s)
        \/ \E g \in Range(cli.genC2S) \cup Range(cli.dynC2S) : ~HasExpectedLink(g, needed.c2s)

=============================================================================
