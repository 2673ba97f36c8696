----------------------------- MODULE LinkWizard -----------------------------
(***************************************************************************)
(* The LinkWizard protocol between network managers: obtain_unicast_link   *)
(* asks an unknown peer for its channels (getSupportedChannels) and queues *)
(* the request; the answer (supportedChannels) replays the queued requests;*)
(* a request picks the best compatible channel and either creates a link   *)
(* (createLink, then requestLoadLinkAddress to the peer once LINK_CREATED) *)
(* or asks the peer to create one (requestCreateLink).  SDK link calls     *)
(* answer asynchronously with LINK_CREATED / LINK_LOADED / LINK_DESTROYED. *)
(* Messages travel as MSG_LINKS packages, delivered in any order.         *)
(* Only LT_SEND requests are modelled: invokeLinkWizard and the retry hook *)
(* of the connection manager are the only callers, and both ask LT_SEND.   *)
(***************************************************************************)
EXTENDS Naturals, FiniteSets, Bags

CONSTANTS
    Nodes,        \* personas running a network manager
    Channels,     \* channel gids
    Side,         \* node -> channel -> currentRole.linkSide, or "none" if unsupported
    Dir,          \* channel -> linkDirection
    ConnType,     \* channel -> connectionType
    Bandwidth,    \* channel -> side -> expected send bandwidth (creator/loader)
    PType,        \* node -> "P_CLIENT" or "P_SERVER"
    MaxLinks,     \* channel -> maxLinks
    ObtainCalls,  \* <<node, peer>> -> obtain calls the NM makes for that peer
    SdkMayFail    \* may createLink / loadLinkAddress end in LINK_DESTROYED?

Sides == {"LS_CREATOR", "LS_LOADER", "LS_BOTH"}

ASSUME
    /\ Side \in [Nodes -> [Channels -> Sides \cup {"none"}]]
    /\ Dir \in [Channels -> {"LD_CREATOR_TO_LOADER", "LD_LOADER_TO_CREATOR", "LD_BIDI"}]
    /\ ConnType \in [Channels -> {"CT_DIRECT", "CT_INDIRECT"}]
    /\ Bandwidth \in [Channels -> [{"LS_CREATOR", "LS_LOADER"} -> Nat \ {0}]]
    /\ PType \in [Nodes -> {"P_CLIENT", "P_SERVER"}]
    /\ MaxLinks \in [Channels -> Nat]
    /\ ObtainCalls \in [Nodes \X Nodes -> Nat]
    /\ \A n \in Nodes : ObtainCalls[<<n, n>>] = 0
    /\ SdkMayFail \in BOOLEAN

VARIABLES
    supported,     \* node -> peers in _uuid_to_supported_channels_map
    requestMap,    \* node -> peer -> LT_SEND requests queued in _request_map
    pendingCreate, \* node -> <<handle, peer>> in _pending_create
    pendingLoad,   \* node -> <<handle, peer>> in _pending_load
    sdkOps,        \* createLink / loadLinkAddress calls the SDK has not answered
    links,         \* node -> <<address, channel, handle>>: the links its SDK holds
    net,           \* bag of MSG_LINKS messages in flight
    nextHandle,    \* the SDK's next RaceHandle
    obtained,      \* <<node, peer>> -> obtain calls made so far
    destroyed      \* <<node, peer>> of SDK link calls that ended LINK_DESTROYED

vars == <<supported, requestMap, pendingCreate, pendingLoad, sdkOps, links, net,
          nextHandle, obtained, destroyed>>

\* a MSG_LINKS message; ch and link are only used by the request verbs
Msg(from, to, verb, ch, link) == [from |-> from, to |-> to, verb |-> verb, ch |-> ch, link |-> link]
NoCh == "none"
\* sendFormattedMsg: the encrypted message goes to the peer's network manager;
\* every persona the wizard talks to is in _uuid_to_persona_map, so the
\* lookup failure is not taken
Send(msgs) == net (+) msgs

\* the MSG_LINKS messages the three senders build (JSON body, ExtClrMsg,
\* formatDelimitedMessage, sendFormattedMsg to the peer)
QuerySupportedChannels(n, p) == Msg(n, p, "getSupportedChannels", NoCh, 0)
RequestCreateLink(n, p, ch) == Msg(n, p, "requestCreateLink", ch, 0)
RequestLoadLinkAddress(n, p, ch, link) == Msg(n, p, "requestLoadLinkAddress", ch, link)

LinksOn(n, ch) == {l \in links[n] : l[2] = ch}

-----------------------------------------------------------------------------
(* _internal_obtain_unicast_link for LT_SEND                                *)

\* the create rule and the load rule of the candidate loop
CanCreate(n, p, ch) ==
    /\ Side[n][ch] \in {"LS_CREATOR", "LS_BOTH"}
    /\ Side[p][ch] \in {"LS_LOADER", "LS_BOTH"}
    /\ Dir[ch] \in {"LD_BIDI", "LD_CREATOR_TO_LOADER"}
CanLoad(n, p, ch) ==
    /\ Side[n][ch] \in {"LS_LOADER", "LS_BOTH"}
    /\ Side[p][ch] \in {"LS_CREATOR", "LS_BOTH"}
    /\ Dir[ch] \in {"LD_BIDI", "LD_LOADER_TO_CREATOR"}

\* supported_potential_channels: channel -> the side this node would take
Candidates(n, p) == {ch \in Channels : CanCreate(n, p, ch) \/ CanLoad(n, p, ch)}
SideOf(n, p, ch) == IF CanCreate(n, p, ch) THEN "LS_CREATOR" ELSE "LS_LOADER"

\* _rank_channel_properties: for a client recipient CT_INDIRECT first, then
\* the larger expected send bandwidth of the side taken
Outranks(n, p, a, b, r) ==
    \/ r = "P_CLIENT" /\ ConnType[a] = "CT_INDIRECT" /\ ConnType[b] # "CT_INDIRECT"
    \/ /\ ~(r = "P_CLIENT" /\ ConnType[b] = "CT_INDIRECT" /\ ConnType[a] # "CT_INDIRECT")
       /\ Bandwidth[a][SideOf(n, p, a)] > Bandwidth[b][SideOf(n, p, b)]

\* _get_preferred_channel_gid_for_sending_to_persona: the recipient type is
\* P_CLIENT on a client node, the peer's type on a server; a DIRECT winner
\* for a client recipient is rejected ("none")
Preferred(n, p) ==
    LET r == IF PType[n] = "P_CLIENT" THEN "P_CLIENT" ELSE PType[p]
        cs == Candidates(n, p)
        best == CHOOSE ch \in cs : \A o \in cs : ~Outranks(n, p, o, ch, r)
    IN  IF cs = {} THEN NoCh
        ELSE IF r = "P_CLIENT" /\ ConnType[best] = "CT_DIRECT" THEN NoCh
        ELSE best

\* k consecutive calls with the same state: the link count read by the
\* maxLinks test does not change before LINK_CREATED, so all k make the
\* same choice: k createLink calls, or k requestCreateLink messages, or none
InternalObtain(n, p, k) ==
    LET ch == Preferred(n, p)
    IN  IF ch = NoCh \/ Cardinality(LinksOn(n, ch)) >= MaxLinks[ch]
        THEN [create |-> 0, ask |-> 0, ch |-> ch]
        ELSE IF SideOf(n, p, ch) = "LS_CREATOR"
             THEN [create |-> k, ask |-> 0, ch |-> ch]
             ELSE [create |-> 0, ask |-> k, ch |-> ch]

\* the createLink calls of an outcome: handles nextHandle .. nextHandle+k-1
CreateOps(n, p, ch, k) ==
    {[node |-> n, h |-> nextHandle + i, op |-> "create", ch |-> ch, peer |-> p, link |-> 0]
        : i \in 0..(k - 1)}

\* apply an InternalObtain outcome: SDK calls, pendingCreate entries, messages
ApplyObtain(n, p, out) ==
    /\ sdkOps' = sdkOps \cup CreateOps(n, p, out.ch, out.create)
    /\ pendingCreate' = [pendingCreate EXCEPT ![n] =
                            @ \cup {<<o.h, p>> : o \in CreateOps(n, p, out.ch, out.create)}]
    /\ nextHandle' = nextHandle + out.create
    /\ net' = IF out.ask > 0
              THEN Send([x \in {RequestCreateLink(n, p, out.ch)} |-> out.ask])
              ELSE net

-----------------------------------------------------------------------------
(* Handlers                                                                 *)

\* the NM calls obtain_unicast_link(peer, LT_SEND) (invokeLinkWizard or the
\* retry hook): an unknown peer is asked for its channels and the request
\* queued; a known one is served at once
Obtain(n, p) ==
    /\ obtained[<<n, p>>] < ObtainCalls[<<n, p>>]
    /\ obtained' = [obtained EXCEPT ![<<n, p>>] = @ + 1]
    /\ IF p \notin supported[n]
       THEN /\ net' = Send(SetToBag({QuerySupportedChannels(n, p)}))
            /\ requestMap' = [requestMap EXCEPT ![n][p] = @ + 1]
            /\ UNCHANGED <<sdkOps, pendingCreate, nextHandle>>
       ELSE /\ ApplyObtain(n, p, InternalObtain(n, p, 1))
            /\ UNCHANGED requestMap
    /\ UNCHANGED <<supported, pendingLoad, links, destroyed>>

\* the package of message m is delivered and handed to process_link_msg
Deliver(m, out) == net' = (net (-) SetToBag({m})) (+) out

\* getSupportedChannels: _respond_supported_channels
RecvGetSupportedChannels(m) ==
    /\ m.verb = "getSupportedChannels"
    /\ Deliver(m, SetToBag({Msg(m.to, m.from, "supportedChannels", NoCh, 0)}))
    /\ UNCHANGED <<supported, requestMap, pendingCreate, pendingLoad, sdkOps, links,
                   nextHandle, obtained, destroyed>>

\* slip: the queued requests are dropped without being replayed
RecvSupportedChannelsNoReplay(m) ==
    LET n == m.to  p == m.from
    IN
    /\ m.verb = "supportedChannels"
    /\ supported' = [supported EXCEPT ![n] = @ \cup {p}]
    /\ requestMap' = [requestMap EXCEPT ![n][p] = 0]
    /\ Deliver(m, EmptyBag)
    /\ UNCHANGED <<pendingCreate, pendingLoad, sdkOps, links, nextHandle, obtained, destroyed>>

\* supportedChannels: record the peer's channels, replay every queued
\* request (each now served by _internal_obtain_unicast_link), clear them
RecvSupportedChannels(m) ==
    LET n == m.to  p == m.from
        out == InternalObtain(n, p, requestMap[n][p])
    IN
    /\ m.verb = "supportedChannels"
    /\ supported' = [supported EXCEPT ![n] = @ \cup {p}]
    /\ requestMap' = [requestMap EXCEPT ![n][p] = 0]
    /\ sdkOps' = sdkOps \cup CreateOps(n, p, out.ch, out.create)
    /\ pendingCreate' = [pendingCreate EXCEPT ![n] =
                            @ \cup {<<o.h, p>> : o \in CreateOps(n, p, out.ch, out.create)}]
    /\ nextHandle' = nextHandle + out.create
    /\ Deliver(m, IF out.ask > 0
                  THEN [x \in {RequestCreateLink(n, p, out.ch)} |-> out.ask]
                  ELSE EmptyBag)
    /\ UNCHANGED <<pendingLoad, links, obtained, destroyed>>

\* requestCreateLink: _handle_create_link_request
RecvRequestCreateLink(m) ==
    LET n == m.to  p == m.from
        ok == Side[n][m.ch] # "none" /\ Cardinality(LinksOn(n, m.ch)) < MaxLinks[m.ch]
        op == [node |-> n, h |-> nextHandle, op |-> "create", ch |-> m.ch, peer |-> p, link |-> 0]
    IN
    /\ m.verb = "requestCreateLink"
    /\ Deliver(m, EmptyBag)
    /\ IF ok
       THEN /\ sdkOps' = sdkOps \cup {op}
            /\ pendingCreate' = [pendingCreate EXCEPT ![n] = @ \cup {<<nextHandle, p>>}]
            /\ nextHandle' = nextHandle + 1
       ELSE UNCHANGED <<sdkOps, pendingCreate, nextHandle>>
    /\ UNCHANGED <<supported, requestMap, pendingLoad, links, obtained, destroyed>>

\* requestLoadLinkAddress: _handle_load_link_address_request
RecvRequestLoadLinkAddress(m) ==
    LET n == m.to  p == m.from
        ok == Side[n][m.ch] # "none" /\ Cardinality(LinksOn(n, m.ch)) < MaxLinks[m.ch]
        op == [node |-> n, h |-> nextHandle, op |-> "load", ch |-> m.ch, peer |-> p, link |-> m.link]
    IN
    /\ m.verb = "requestLoadLinkAddress"
    /\ Deliver(m, EmptyBag)
    /\ IF ok
       THEN /\ sdkOps' = sdkOps \cup {op}
            /\ pendingLoad' = [pendingLoad EXCEPT ![n] = @ \cup {<<nextHandle, p>>}]
            /\ nextHandle' = nextHandle + 1
       ELSE UNCHANGED <<sdkOps, pendingLoad, nextHandle>>
    /\ UNCHANGED <<supported, requestMap, pendingCreate, links, obtained, destroyed>>

\* slip: the creator's own uuid, appended to the list, is not skipped
LinkCreatedToSelf(o) ==
    LET n == o.node
        mine == {e \in pendingCreate[n] : e[1] = o.h}
    IN
    /\ o \in sdkOps /\ o.op = "create"
    /\ sdkOps' = sdkOps \ {o}
    /\ links' = [links EXCEPT ![n] = @ \cup {<<o.h, o.ch, o.h>>}]
    /\ pendingCreate' = [pendingCreate EXCEPT ![n] = @ \ mine]
    /\ net' = net (+) SetToBag({RequestLoadLinkAddress(n, u, o.ch, o.h) :
                                  u \in {e[2] : e \in mine} \cup (IF mine # {} THEN {n} ELSE {})})
    /\ UNCHANGED <<supported, requestMap, pendingLoad, nextHandle, obtained, destroyed>>

\* LINK_CREATED for a createLink: the link exists (its id is the handle);
\* handle_link_status_update sends requestLoadLinkAddress to the peer of a
\* pending create and removes the entry
LinkCreated(o) ==
    LET n == o.node
        mine == {e \in pendingCreate[n] : e[1] = o.h}
    IN
    /\ o \in sdkOps /\ o.op = "create"
    /\ sdkOps' = sdkOps \ {o}
    /\ links' = [links EXCEPT ![n] = @ \cup {<<o.h, o.ch, o.h>>}]
    /\ pendingCreate' = [pendingCreate EXCEPT ![n] = @ \ mine]
    /\ net' = net (+) SetToBag({RequestLoadLinkAddress(n, e[2], o.ch, o.h) : e \in mine})
    /\ UNCHANGED <<supported, requestMap, pendingLoad, nextHandle, obtained, destroyed>>

\* LINK_LOADED for a loadLinkAddress: the node holds the link; the pending
\* load is cleared
LinkLoaded(o) ==
    LET n == o.node
    IN
    /\ o \in sdkOps /\ o.op = "load"
    /\ sdkOps' = sdkOps \ {o}
    /\ links' = [links EXCEPT ![n] = @ \cup {<<o.link, o.ch, o.h>>}]
    /\ pendingLoad' = [pendingLoad EXCEPT ![n] = {e \in @ : e[1] # o.h}]
    /\ UNCHANGED <<supported, requestMap, pendingCreate, net, nextHandle, obtained, destroyed>>

\* LINK_DESTROYED for either call: only a pending load is cleared
LinkDestroyed(o) ==
    LET n == o.node
    IN
    /\ SdkMayFail
    /\ o \in sdkOps
    /\ sdkOps' = sdkOps \ {o}
    /\ pendingLoad' = [pendingLoad EXCEPT ![n] = {e \in @ : e[1] # o.h}]
    /\ destroyed' = destroyed \cup {<<n, o.peer>>}
    /\ UNCHANGED <<supported, requestMap, pendingCreate, links, net, nextHandle, obtained>>

-----------------------------------------------------------------------------

Init ==
    /\ supported = [n \in Nodes |-> {}]
    /\ requestMap = [n \in Nodes |-> [p \in Nodes |-> 0]]
    /\ pendingCreate = [n \in Nodes |-> {}]
    /\ pendingLoad = [n \in Nodes |-> {}]
    /\ sdkOps = {}
    /\ links = [n \in Nodes |-> {}]
    /\ net = EmptyBag
    /\ nextHandle = 1
    /\ obtained = [np \in Nodes \X Nodes |-> 0]
    /\ destroyed = {}

\* every obtain made, every message handled, every SDK call answered
Done ==
    /\ \A np \in Nodes \X Nodes : obtained[np] = ObtainCalls[np]
    /\ net = EmptyBag
    /\ sdkOps = {}

Recv(m) ==
    \/ RecvGetSupportedChannels(m)
    \/ RecvSupportedChannels(m)
    \/ RecvRequestCreateLink(m)
    \/ RecvRequestLoadLinkAddress(m)

Next ==
    \/ \E n, p \in Nodes : Obtain(n, p)
    \/ \E m \in BagToSet(net) : Recv(m)
    \/ \E o \in sdkOps : LinkCreated(o) \/ LinkLoaded(o) \/ LinkDestroyed(o)
    \/ Done /\ UNCHANGED vars

\* Every package is eventually processed by its addressee's NM and every
\* SDK link call is eventually answered; the NM's obtain calls are not
\* forced.  Finitely many messages and calls are ever made, so fairness of
\* the two kinds of step drains all of them.
Fairness ==
    /\ WF_vars(\E m \in BagToSet(net) : Recv(m))
    /\ WF_vars(\E o \in sdkOps : LinkCreated(o) \/ LinkLoaded(o) \/ LinkDestroyed(o))

Spec == Init /\ [][Next]_vars /\ Fairness

-----------------------------------------------------------------------------
(* Properties                                                               *)

TypeOK ==
    /\ supported \in [Nodes -> SUBSET Nodes]
    /\ requestMap \in [Nodes -> [Nodes -> Nat]]
    /\ pendingCreate \in [Nodes -> SUBSET (Nat \X Nodes)]
    /\ pendingLoad \in [Nodes -> SUBSET (Nat \X Nodes)]
    /\ \A o \in sdkOps : o.node \in Nodes /\ o.op \in {"create", "load"} /\ o.ch \in Channels
                        /\ o.peer \in Nodes \ {o.node}
    /\ links \in [Nodes -> SUBSET (Nat \X Channels \X Nat)]
    /\ nextHandle \in Nat \ {0}
    /\ obtained \in [Nodes \X Nodes -> Nat]
    /\ destroyed \subseteq Nodes \X Nodes

\* n and p hold the two ends of one link
Shared(n, p) ==
    \E e \in links[n], f \in links[p] : e[1] = f[1] /\ e[2] = f[2]

\* An obtain_unicast_link call for a peer with a usable channel eventually
\* gives the two nodes a common link, unless one of the SDK calls made for
\* it ended LINK_DESTROYED: query, answer, replay of the queued request,
\* createLink or requestCreateLink, LINK_CREATED, requestLoadLinkAddress and
\* LINK_LOADED, in whatever order the two NMs process them (spec 4.3, S4).
LinkRequestsHonoured ==
    \A n, p \in Nodes :
        (obtained[<<n, p>>] > 0 /\ Preferred(n, p) # NoCh) ~>
            (Shared(n, p) \/ <<n, p>> \in destroyed \/ <<p, n>> \in destroyed)

\* No node holds more links on a channel than the channel's maxLinks
\* (spec 4.3 step 5 and MaxLinksExceeded: createLink and loadLinkAddress
\* are refused at the limit).
LinksWithinMax ==
    \A n \in Nodes, ch \in Channels : Cardinality(LinksOn(n, ch)) <= MaxLinks[ch]

=============================================================================
