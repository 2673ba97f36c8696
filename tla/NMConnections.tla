---------------------------- MODULE NMConnections ----------------------------
(***************************************************************************)
(* Link and connection management of the NM plugin (PluginNMTwoSix): the   *)
(* genesis links of each channel once it is AVAILABLE, a connection per    *)
(* link once the link is created or loaded, the ranked send connections   *)
(* per persona, replacement of a closed send connection, and the one-time  *)
(* LinkWizard invocation once every channel is up and every genesis link   *)
(* request is answered.  The SDK's answers (channel, link and connection  *)
(* status callbacks) are the environment's actions.                       *)
(***************************************************************************)
EXTENDS Naturals, FiniteSets, Sequences

CONSTANTS
    Peers,          \* personas other than this node
    PeerOrder,      \* _uuid_to_persona_map.values() in dict order
    ChannelsToUse,  \* enabled channels with a role: activated at init
    Links,          \* links this node will know
    GenesisLinks,   \* links in link-profiles.json (created/loaded at start)
    ChannelOf,      \* link -> channel
    PersonaOf,      \* link -> the persona at its other end
    LinkTypeOf,     \* link -> "LT_SEND" or "LT_RECV"
    Rank,           \* link -> position under compareLinkProperties (1 best)
    ExpectedLinks,  \* persona -> links expected (network-manager-request.json)
    MaxOpens,       \* bound on openConnection calls per link
    MaxCloses,      \* bound on connections the SDK closes on its own
    OpenMayFail     \* may openConnection answer with an SDK error?

ASSUME
    /\ GenesisLinks \subseteq Links
    /\ PeerOrder \in Seq(Peers) /\ {PeerOrder[i] : i \in 1..Len(PeerOrder)} = Peers
    /\ \A l \in Links : ChannelOf[l] \in ChannelsToUse /\ PersonaOf[l] \in Peers
                       /\ LinkTypeOf[l] \in {"LT_SEND", "LT_RECV"} /\ Rank[l] \in Nat
    /\ ExpectedLinks \in [Peers -> Nat] /\ MaxOpens \in Nat /\ MaxCloses \in Nat
    /\ OpenMayFail \in BOOLEAN

\* a connection id or openConnection handle: the link and the how-many-th open
Conns == Links \X (1..MaxOpens)

VARIABLES
    channelsToUse,        \* channels_to_use
    genesisLinkRequests,  \* genesis_link_requests (link-request handles)
    linkStatus,           \* link -> what the SDK has said about it
    openingConnections,   \* _opening_connections (handles)
    opens,                \* link -> openConnection calls so far
    recvConnections,      \* _recv_connections
    sendKeys,             \* personas that are keys of _uuid_to_send_connections_map
    sendConnections,      \* persona -> connections in that list
    sendConnectionToUuid, \* _send_connection_to_uuid_map, as a set of connections
    connStatus,           \* connection -> "opening", "open" or "closed" (SDK)
    linkWizardInitialized,
    obtainToRetry,        \* personas in _obtain_unicast_link_to_retry
    wizardRequests,       \* persona -> LinkWizard requests sent (history)
    closes,               \* connections the SDK closed on its own
    fatal,                \* an exception escaped a handler: PLUGIN_FATAL
    readyOwed             \* an openConnection was made since the last PLUGIN_READY

vars == <<channelsToUse, genesisLinkRequests, linkStatus, openingConnections, opens,
          recvConnections, sendKeys, sendConnections, sendConnectionToUuid,
          connStatus, linkWizardInitialized, obtainToRetry, wizardRequests,
          closes, fatal, readyOwed>>

LinkOf(c) == c[1]
Live == ~fatal

-----------------------------------------------------------------------------
(* Helpers                                                                 *)

\* _get_sorted_links: the SDK's send links to the persona (created/loaded)
SortedLinks(u) ==
    {l \in Links : PersonaOf[l] = u /\ LinkTypeOf[l] = "LT_SEND"
                   /\ linkStatus[l] = "LINK_LOADED"}

\* the best-ranked of a set of links
Best(ls) == CHOOSE l \in ls : \A k \in ls : Rank[l] <= Rank[k]

\* LinkWizard.obtain_unicast_link for a persona whose channels are not yet
\* known: _query_supported_channels -> sendFormattedMsg -> sendTo, which
\* returns NULL without a key, raises ZeroDivisionError on an empty list,
\* and otherwise sends the query
ObtainOutcome(u, keys, conns) ==
    IF u \notin keys THEN "NULL"
    ELSE IF conns[u] = {} THEN "RAISE"
    ELSE "SENT"

\* invokeLinkWizard over the personas in order: for each, the loop from the
\* channels it has links on up to its expected links calls obtain until one
\* call succeeds (then breaks) or records a retry after every failure;
\* an exception leaves the rest of the personas unvisited.
RECURSIVE InvokeLinkWizard(_, _, _)
InvokeLinkWizard(order, retry, reqs) ==
    IF order = <<>> THEN [retry |-> retry, reqs |-> reqs, raised |-> FALSE]
    ELSE LET u    == Head(order)
             have == Cardinality({ChannelOf[l] : l \in SortedLinks(u)})
             out  == ObtainOutcome(u, sendKeys, sendConnections)
         IN  IF have >= ExpectedLinks[u]
             THEN InvokeLinkWizard(Tail(order), retry, reqs)
             ELSE CASE out = "RAISE" -> [retry |-> retry, reqs |-> reqs, raised |-> TRUE]
                    [] out = "NULL"  -> InvokeLinkWizard(Tail(order), retry \cup {u}, reqs)
                    [] OTHER         -> InvokeLinkWizard(Tail(order), retry,
                                                         [reqs EXCEPT ![u] = @ + 1])

-----------------------------------------------------------------------------
(* NM handlers                                                             *)

OnChannelAvailable(ch) ==
    /\ Live
    /\ ch \in channelsToUse
    /\ LET profiles == {l \in GenesisLinks : ChannelOf[l] = ch}
       IN  /\ genesisLinkRequests' = genesisLinkRequests \cup profiles
           /\ linkStatus' = [l \in Links |-> IF l \in profiles THEN "requested"
                                                ELSE linkStatus[l]]
    /\ channelsToUse' = channelsToUse \ {ch}
    /\ UNCHANGED <<openingConnections, opens, recvConnections, sendKeys,
                   sendConnections, sendConnectionToUuid, connStatus,
                   linkWizardInitialized, obtainToRetry, wizardRequests, closes, fatal,
                   readyOwed>>

\* onLinkStatusChanged for a genesis request: LINK_CREATED/LINK_LOADED opens
\* a connection of the link's type; LINK_DESTROYED does nothing; then the
\* handle leaves genesis_link_requests and, if nothing else is pending, the
\* LinkWizard is invoked once
OnLinkStatusChanged(l) ==
    /\ Live
    /\ linkStatus[l] = "requested"
    /\ opens[l] < MaxOpens
    /\ \E st \in {"LINK_LOADED", "LINK_DESTROYED"} :
         LET c == <<l, opens[l] + 1>>
             genesis2 == genesisLinkRequests \ {l}
             init == ~linkWizardInitialized /\ genesis2 = {} /\ channelsToUse = {}
             wiz == InvokeLinkWizard(PeerOrder, obtainToRetry, wizardRequests)
         IN  /\ linkStatus' = [linkStatus EXCEPT ![l] = st]
             /\ IF st = "LINK_LOADED"
                THEN /\ openingConnections' = openingConnections \cup {c}
                     /\ opens' = [opens EXCEPT ![l] = @ + 1]
                     /\ connStatus' = [connStatus EXCEPT ![c] = "opening"]
                     /\ readyOwed' = TRUE
                ELSE UNCHANGED <<openingConnections, opens, connStatus, readyOwed>>
             /\ genesisLinkRequests' = genesis2
             /\ linkWizardInitialized' = (linkWizardInitialized \/ init)
             /\ IF init
                THEN /\ obtainToRetry' = wiz.retry
                     /\ wizardRequests' = wiz.reqs
                     /\ fatal' = wiz.raised
                ELSE UNCHANGED <<obtainToRetry, wizardRequests, fatal>>
    /\ UNCHANGED <<channelsToUse, recvConnections, sendKeys, sendConnections,
                   sendConnectionToUuid, closes>>

\* onLinkStatusChanged(LINK_LOADED) whose openConnection fails: the handler
\* returns PLUGIN_OK at once, before the genesis handle is discarded
OnLinkLoadedOpenFailed(l) ==
    /\ Live
    /\ OpenMayFail
    /\ linkStatus[l] = "requested"
    /\ linkStatus' = [linkStatus EXCEPT ![l] = "LINK_LOADED"]
    /\ UNCHANGED <<channelsToUse, genesisLinkRequests, openingConnections, opens,
                   recvConnections, sendKeys, sendConnections, sendConnectionToUuid,
                   connStatus, linkWizardInitialized, obtainToRetry, wizardRequests,
                   closes, fatal, readyOwed>>

\* slip: the readiness test reads the opening set from before the handler
ReportsReadyBeforeHandler(opening) == openingConnections = {}

\* onConnectionStatusChanged, after either handler: PLUGIN_READY (and a
\* toast) once no openConnection is unresolved, whatever resolved the last
\* one, an open or a close
ReportsReady(opening) == opening = {}

\* slip: the retried obtain is made but its entry is not deleted
OnConnectionOpenKeepRetry(c) ==
    LET u == PersonaOf[LinkOf(c)]
    IN
    /\ Live
    /\ c \in openingConnections /\ connStatus[c] = "opening"
    /\ openingConnections' = openingConnections \ {c}
    /\ connStatus' = [connStatus EXCEPT ![c] = "open"]
    /\ IF LinkTypeOf[LinkOf(c)] = "LT_RECV"
       THEN /\ recvConnections' = recvConnections \cup {c}
            /\ UNCHANGED <<sendKeys, sendConnections, sendConnectionToUuid, wizardRequests>>
       ELSE /\ sendKeys' = sendKeys \cup {u}
            /\ sendConnections' = [sendConnections EXCEPT ![u] = @ \cup {c}]
            /\ sendConnectionToUuid' = sendConnectionToUuid \cup {c}
            /\ wizardRequests' = IF u \in obtainToRetry
                                 THEN [wizardRequests EXCEPT ![u] = @ + 1]
                                 ELSE wizardRequests
            /\ UNCHANGED recvConnections
    /\ UNCHANGED <<channelsToUse, genesisLinkRequests, linkStatus, opens, obtainToRetry,
                   linkWizardInitialized, closes, fatal>>
    /\ readyOwed' = (readyOwed /\ ~ReportsReady(openingConnections'))

\* onConnectionStatusChanged(CONNECTION_OPEN) -> _handleConnectionOpened
OnConnectionOpen(c) ==
    LET u == PersonaOf[LinkOf(c)]
        retry == u \in obtainToRetry
    IN
    /\ Live
    /\ c \in openingConnections /\ connStatus[c] = "opening"
    /\ openingConnections' = openingConnections \ {c}
    /\ connStatus' = [connStatus EXCEPT ![c] = "open"]
    /\ IF LinkTypeOf[LinkOf(c)] = "LT_RECV"
       THEN /\ recvConnections' = recvConnections \cup {c}
            /\ UNCHANGED <<sendKeys, sendConnections, sendConnectionToUuid,
                           obtainToRetry, wizardRequests>>
       ELSE /\ sendKeys' = sendKeys \cup {u}
            /\ sendConnections' = [sendConnections EXCEPT ![u] = @ \cup {c}]
            /\ sendConnectionToUuid' = sendConnectionToUuid \cup {c}
            \* the retried obtain now finds a send connection
            /\ obtainToRetry' = obtainToRetry \ {u}
            /\ wizardRequests' = IF retry THEN [wizardRequests EXCEPT ![u] = @ + 1]
                                 ELSE wizardRequests
            /\ UNCHANGED recvConnections
    /\ UNCHANGED <<channelsToUse, genesisLinkRequests, linkStatus, opens,
                   linkWizardInitialized, closes, fatal>>
    /\ readyOwed' = (readyOwed /\ ~ReportsReady(openingConnections'))

\* the replacement a closed send connection to u gets: the best SDK link to
\* u that no connection in u's list uses (connections still opening count
\* as unused)
Replacement(u, remaining) ==
    SortedLinks(u) \ {LinkOf(k) : k \in remaining}

\* slip: the reverse-index entry of a closed send connection is kept
OnConnectionClosedKeepIndex(c) ==
    LET u == PersonaOf[LinkOf(c)]
        remaining == sendConnections[u] \ {c}
        cands == Replacement(u, remaining)
        isSend == c \notin recvConnections /\ c \in sendConnectionToUuid
        want == isSend /\ cands # {}
        nc == <<Best(cands), opens[Best(cands)]+ 1>>
    IN
    /\ Live
    /\ \/ connStatus[c] = "opening"
       \/ connStatus[c] = "open" /\ closes < MaxCloses
    /\ want => opens[Best(cands)] < MaxOpens
    /\ \E byHandle \in IF c \in openingConnections THEN BOOLEAN ELSE {FALSE},
          reopen \in IF want THEN (IF OpenMayFail THEN BOOLEAN ELSE {TRUE}) ELSE {FALSE} :
       /\ closes' = IF connStatus[c] = "opening" THEN closes ELSE closes + 1
       /\ recvConnections' = recvConnections \ {c}
       /\ UNCHANGED sendConnectionToUuid
       /\ sendConnections' = IF isSend THEN [sendConnections EXCEPT ![u] = remaining]
                             ELSE sendConnections
       /\ openingConnections' = (openingConnections \ (IF byHandle THEN {c} ELSE {}))
                                \cup (IF reopen THEN {nc} ELSE {})
       /\ opens' = IF want THEN [opens EXCEPT ![Best(cands)] = @ + 1] ELSE opens
       /\ connStatus' = [k \in Conns |-> IF k = c THEN "closed"
                                         ELSE IF reopen /\ k = nc THEN "opening"
                                         ELSE connStatus[k]]
       /\ readyOwed' = ((readyOwed \/ reopen) /\ ~ReportsReady(openingConnections'))
    /\ UNCHANGED <<channelsToUse, genesisLinkRequests, linkStatus, sendKeys,
                   linkWizardInitialized, obtainToRetry, wizardRequests, fatal>>

\* slip: the replacement's handle taken from the link's last open
OnConnectionClosedStaleHandle(c) ==
    LET u == PersonaOf[LinkOf(c)]
        remaining == sendConnections[u] \ {c}
        cands == Replacement(u, remaining)
        isSend == c \notin recvConnections /\ c \in sendConnectionToUuid
        want == isSend /\ cands # {}
        nc == <<Best(cands), opens[Best(cands)]>>
    IN
    /\ Live
    /\ \/ connStatus[c] = "opening"
       \/ connStatus[c] = "open" /\ closes < MaxCloses
    /\ want => opens[Best(cands)] < MaxOpens
    /\ \E byHandle \in IF c \in openingConnections THEN BOOLEAN ELSE {FALSE},
          reopen \in IF want THEN (IF OpenMayFail THEN BOOLEAN ELSE {TRUE}) ELSE {FALSE} :
       /\ closes' = IF connStatus[c] = "opening" THEN closes ELSE closes + 1
       /\ recvConnections' = recvConnections \ {c}
       /\ sendConnectionToUuid' = sendConnectionToUuid \ {c}
       /\ sendConnections' = IF isSend THEN [sendConnections EXCEPT ![u] = remaining]
                             ELSE sendConnections
       /\ openingConnections' = (openingConnections \ (IF byHandle THEN {c} ELSE {}))
                                \cup (IF reopen THEN {nc} ELSE {})
       /\ opens' = IF want THEN [opens EXCEPT ![Best(cands)] = @ + 1] ELSE opens
       /\ connStatus' = [k \in Conns |-> IF k = c THEN "closed"
                                         ELSE IF reopen /\ k = nc THEN "opening"
                                         ELSE connStatus[k]]
       /\ readyOwed' = ((readyOwed \/ reopen) /\ ~ReportsReady(openingConnections'))
    /\ UNCHANGED <<channelsToUse, genesisLinkRequests, linkStatus, sendKeys,
                   linkWizardInitialized, obtainToRetry, wizardRequests, fatal>>

\* onConnectionStatusChanged(CONNECTION_CLOSED) -> _handleConnectionClosed,
\* for a connection that never opened or one the SDK closes later.  The
\* entry of _opening_connections is popped by the callback's handle: only a
\* CLOSED that carries the openConnection handle (byHandle) removes it; one
\* with NULL_RACE_HANDLE, as the python comms plugin's monitors send, or
\* with a closeConnection handle leaves it.  A receive connection is
\* dropped; a connection the send map does not know is PLUGIN_ERROR; a send
\* connection leaves its persona's list (the key stays) and the best
\* unused SDK link to the persona is opened instead, an openConnection that
\* may fail (then the handler returns at once, with no entry added).
OnConnectionClosed(c) ==
    LET u == PersonaOf[LinkOf(c)]
        remaining == sendConnections[u] \ {c}
        cands == Replacement(u, remaining)
        isSend == c \notin recvConnections /\ c \in sendConnectionToUuid
        want == isSend /\ cands # {}
        nc == <<Best(cands), opens[Best(cands)]+ 1>>
    IN
    /\ Live
    /\ \/ connStatus[c] = "opening"
       \/ connStatus[c] = "open" /\ closes < MaxCloses
    /\ want => opens[Best(cands)] < MaxOpens
    /\ \E byHandle \in IF c \in openingConnections THEN BOOLEAN ELSE {FALSE},
          reopen \in IF want THEN (IF OpenMayFail THEN BOOLEAN ELSE {TRUE}) ELSE {FALSE} :
       /\ closes' = IF connStatus[c] = "opening" THEN closes ELSE closes + 1
       /\ recvConnections' = recvConnections \ {c}
       /\ sendConnectionToUuid' = sendConnectionToUuid \ {c}
       /\ sendConnections' = IF isSend THEN [sendConnections EXCEPT ![u] = remaining]
                             ELSE sendConnections
       /\ openingConnections' = (openingConnections \ (IF byHandle THEN {c} ELSE {}))
                                \cup (IF reopen THEN {nc} ELSE {})
       /\ opens' = IF want THEN [opens EXCEPT ![Best(cands)] = @ + 1] ELSE opens
       /\ connStatus' = [k \in Conns |-> IF k = c THEN "closed"
                                         ELSE IF reopen /\ k = nc THEN "opening"
                                         ELSE connStatus[k]]
       /\ readyOwed' = ((readyOwed \/ reopen) /\ ~ReportsReady(openingConnections'))
    /\ UNCHANGED <<channelsToUse, genesisLinkRequests, linkStatus, sendKeys,
                   linkWizardInitialized, obtainToRetry, wizardRequests, fatal>>

-----------------------------------------------------------------------------

Init ==
    /\ channelsToUse = ChannelsToUse
    /\ genesisLinkRequests = {}
    /\ linkStatus = [l \in Links |-> "none"]
    /\ openingConnections = {}
    /\ opens = [l \in Links |-> 0]
    /\ recvConnections = {}
    /\ sendKeys = {}
    /\ sendConnections = [u \in Peers |-> {}]
    /\ sendConnectionToUuid = {}
    /\ connStatus = [c \in Conns |-> "none"]
    /\ linkWizardInitialized = FALSE
    /\ obtainToRetry = {}
    /\ wizardRequests = [u \in Peers |-> 0]
    /\ closes = 0
    /\ fatal = FALSE
    /\ readyOwed = FALSE

\* the SDK has answered every request and the plugin waits, or it is dead
Quiescent ==
    \/ fatal
    \/ /\ channelsToUse = {}
       /\ \A l \in Links : linkStatus[l] # "requested"
       /\ \A c \in Conns : connStatus[c] # "opening"

Next ==
    \/ \E ch \in ChannelsToUse : OnChannelAvailable(ch)
    \/ \E l \in Links : OnLinkStatusChanged(l) \/ OnLinkLoadedOpenFailed(l)
    \/ \E c \in Conns : OnConnectionOpen(c) \/ OnConnectionClosed(c)
    \/ Quiescent /\ UNCHANGED vars

\* The SDK answers: every channel comes up, every link request and every
\* openConnection is answered.  It need not ever close an open connection.
Fairness ==
    /\ \A ch \in ChannelsToUse : WF_vars(OnChannelAvailable(ch))
    /\ \A l \in Links : WF_vars(OnLinkStatusChanged(l) \/ OnLinkLoadedOpenFailed(l))
    /\ \A c \in Conns :
         WF_vars(connStatus[c] = "opening" /\ (OnConnectionOpen(c) \/ OnConnectionClosed(c)))

Spec == Init /\ [][Next]_vars /\ Fairness

-----------------------------------------------------------------------------
(* Properties                                                               *)

TypeOK ==
    /\ channelsToUse \subseteq ChannelsToUse
    /\ genesisLinkRequests \subseteq GenesisLinks
    /\ linkStatus \in [Links -> {"none", "requested", "LINK_LOADED", "LINK_DESTROYED"}]
    /\ openingConnections \subseteq Conns
    /\ opens \in [Links -> 0..MaxOpens]
    /\ recvConnections \subseteq Conns
    /\ sendKeys \subseteq Peers
    /\ sendConnections \in [Peers -> SUBSET Conns]
    /\ sendConnectionToUuid \subseteq Conns
    /\ connStatus \in [Conns -> {"none", "opening", "open", "closed"}]
    /\ linkWizardInitialized \in BOOLEAN
    /\ obtainToRetry \subseteq Peers
    /\ wizardRequests \in [Peers -> Nat]
    /\ closes \in 0..MaxCloses
    /\ fatal \in BOOLEAN
    /\ readyOwed \in BOOLEAN

\* The NM's send map, its reverse index and its receive set describe exactly
\* the connections the SDK has open: every open send connection is in the
\* list of the persona its link leads to and in the reverse index, and no
\* closed or still-opening connection is in either (the bookkeeping of
\* _handleConnectionOpened and _handleConnectionClosed across any order of
\* opens, failed opens, closes and replacements).
ConnectionMapsMatchSDK ==
    \A c \in Conns :
        /\ c \in sendConnectionToUuid <=>
               (connStatus[c] = "open" /\ LinkTypeOf[LinkOf(c)] = "LT_SEND")
        /\ c \in recvConnections <=>
               (connStatus[c] = "open" /\ LinkTypeOf[LinkOf(c)] = "LT_RECV")
        /\ \A u \in Peers : c \in sendConnections[u] <=>
               (c \in sendConnectionToUuid /\ PersonaOf[LinkOf(c)] = u)

\* sendTo indexes the persona's list modulo its length: a persona that is a
\* key of _uuid_to_send_connections_map always has a connection in it
\* (spec 4.4: with no replacement the plugin warns and does not fail).
NoEmptySendList ==
    \A u \in sendKeys : sendConnections[u] # {}

\* A persona left in _obtain_unicast_link_to_retry by invokeLinkWizard has
\* no send connection: the first one that opens to it runs the retried
\* obtain and clears the entry, so no LinkWizard request waits on a
\* connection that is already there.
RetryOnlyWhileUnreachable ==
    \A u \in obtainToRetry : sendConnections[u] = {}

\* a genesis link is loaded but its handle was never discarded: the
\* openConnection of onLinkStatusChanged failed
GenesisOpenFailed ==
    \E l \in Links : linkStatus[l] = "LINK_LOADED" /\ l \in genesisLinkRequests

\* every channel is up and every genesis request answered, but the
\* LinkWizard was not invoked: the last event was a channel without link
\* profiles becoming AVAILABLE, and onChannelStatusChanged has no
\* initialization test, so no event is left to make it
InitTestMissed ==
    /\ ~linkWizardInitialized
    /\ channelsToUse = {} /\ genesisLinkRequests = {}
    /\ \A l \in Links : linkStatus[l] # "requested"

StrandedOpening == \E c \in openingConnections : connStatus[c] = "closed"

\* Once onLinkStatusChanged or a replacement in _handleConnectionClosed has
\* called openConnection, the plugin eventually reports PLUGIN_READY with no
\* openConnection unresolved (spec 4.4 step 6), however the answers are
\* interleaved and however many replacements fail, unless it died first or
\* a connection was closed with a handle other than its openConnection
\* handle, which strands its entry and keeps readiness from ever being
\* reported.
ReadyEventuallyReported == readyOwed ~> (~readyOwed \/ fatal \/ StrandedOpening)

=============================================================================
