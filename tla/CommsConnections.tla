--------------------------- MODULE CommsConnections ---------------------------
(***************************************************************************)
(* Connections of the python two-six comms plugin: openConnection and     *)
(* closeConnection under connections_lock, and the monitor thread each    *)
(* receiving connection starts (_direct_connection_monitor for a TCP link, *)
(* _multicast_connection_monitor for a whiteboard link).  A CommsConn may *)
(* carry several connection ids (one per openConnection on its link); it  *)
(* is named here by the id it was created with, which is also the id its  *)
(* monitor thread reports CONNECTION_OPEN for.  Threads run concurrently  *)
(* with the SDK's calls; each step below is one stretch of a thread       *)
(* between two points where another thread can run.  The SDK's calls are   *)
(* serialized: activateChannel and onUserInputReceived, the link calls     *)
(* (createLink, createLinkFromAddress, loadLinkAddress, loadLinkAddresses, *)
(* destroyLink, deactivateChannel) and the connection calls.               *)
(***************************************************************************)
EXTENDS Naturals, Sequences, FiniteSets

CONSTANTS
    Links,           \* link ids generateLinkId can hand out
    LinkChannel,     \* link id -> the channel generateLinkId made it for
    MultiAddressable,\* channel -> its multiAddressable property
    MaxRefused,      \* link calls answered LINK_DESTROYED without a link
    UserMayDecline,  \* may the hostname prompt end without an answer?
    MaxIds,          \* connection ids generateConnectionId hands out
    MaxDeliveries,   \* packages the monitors receive in all
    MonitorMayFail,  \* may bind, accept or a whiteboard request raise?
    CloseBeforeOpen  \* may closeConnection come before the id's CONNECTION_OPEN?

Direct == "twoSixDirectPython"      \* DIRECT_CHANNEL_GID
Indirect == "twoSixIndirectPython"  \* INDIRECT_CHANNEL_GID
Channels == {Direct, Indirect}

ASSUME
    /\ LinkChannel \in [Links -> Channels] /\ MultiAddressable \in [Channels -> BOOLEAN]
    /\ MaxRefused \in Nat /\ UserMayDecline \in BOOLEAN
    /\ MaxIds \in Nat \ {0} /\ MaxDeliveries \in Nat
    /\ MonitorMayFail \in BOOLEAN /\ CloseBeforeOpen \in BOOLEAN

ConnIds == 1..MaxIds
NoConn == 0
NoLink == "none"
LinkTypes == {"LT_SEND", "LT_RECV", "LT_BIDI"}
Multicast == [l \in Links |-> LinkChannel[l] = Indirect]
ChannelStatuses == {"UNAVAILABLE", "AVAILABLE", "FAILED"}
\* the handles of requestPluginUserInput("startPort") and
\* requestCommonUserInput("hostname")
Prompts == {"startPort", "hostname"}
MonitorPcs == {"none", "start", "loop", "accept", "blocked", "poll", "failed", "exit", "done"}

VARIABLES
    nextId,      \* the id generateConnectionId returns next
    connections, \* id -> the CommsConn it names, or NoConn
    connIds,     \* CommsConn -> its connection_ids
    linkOf,      \* CommsConn -> its link_id
    terminate,   \* CommsConn -> its terminate flag
    sock,        \* CommsConn -> its listening socket: "none", "bound", "closed"
    mon,         \* CommsConn -> where its monitor thread is
    reports,     \* id -> the onConnectionStatusChanged statuses sent for it
    delivered,   \* receiveEncPkg calls made
    lastRx,      \* the connection_ids passed to the last receiveEncPkg
    exitLeft,    \* CommsConn -> ids its exiting monitor has still to report CLOSED
    chStatus,    \* channel_status
    inputReqs,   \* user_input_requests: prompt handles not yet answered
    prompts,     \* the prompts the SDK will answer (requested successfully)
    awaiting,    \* channels activated and not yet given a status
    linksIn,     \* links_in_channels
    profiles,    \* the keys of link_profiles
    linkReports, \* link -> the onLinkStatusChanged statuses sent for it
    refused,     \* LINK_DESTROYED answers for calls that made no link
    closing,     \* ids destroyLink has still to close
    activated    \* channels activateChannel was called for

channelVars == <<chStatus, inputReqs, prompts, awaiting, linksIn, profiles,
                 linkReports, refused, closing, activated>>
connVars == <<nextId, connections, connIds, linkOf, terminate, sock, mon, reports,
              delivered, lastRx, exitLeft>>
vars == <<connVars, channelVars>>

\* onConnectionStatusChanged(st) for every id of ids
Report(ids, st) ==
    [id \in ConnIds |-> IF id \in ids THEN Append(reports[id], st) ELSE reports[id]]

\* the CommsConn of link l still in the connections map
LiveConnOn(l) == {connections[id] : id \in {i \in ConnIds : connections[i] # NoConn
                                                  /\ linkOf[connections[i]] = l}}

LastReport(id) == IF reports[id] = <<>> THEN "none" ELSE reports[id][Len(reports[id])]

-----------------------------------------------------------------------------
(* The SDK's calls into the plugin                                          *)

\* slip: the shared CommsConn's id list is not extended
OpenConnectionNoAppend(l, t) ==
    /\ l \in profiles
    /\ nextId <= MaxIds
    /\ nextId' = nextId + 1
    /\ LET id == nextId IN
       IF LiveConnOn(l) # {}
       THEN LET o == CHOOSE c \in LiveConnOn(l) : TRUE IN
            /\ connections' = [connections EXCEPT ![id] = o]
            /\ reports' = Report({id}, "OPEN")
            /\ UNCHANGED <<connIds, linkOf, mon>>
       ELSE /\ connections' = [connections EXCEPT ![id] = id]
            /\ connIds' = [connIds EXCEPT ![id] = {id}]
            /\ linkOf' = [linkOf EXCEPT ![id] = l]
            /\ IF t \in {"LT_RECV", "LT_BIDI"}
               THEN mon' = [mon EXCEPT ![id] = "start"] /\ UNCHANGED reports
               ELSE reports' = Report({id}, "OPEN") /\ UNCHANGED mon
    /\ UNCHANGED <<terminate, sock, delivered, lastRx, exitLeft, channelVars>>

\* openConnection: a link without a link profile is refused (PLUGIN_ERROR);
\* a second open of a link shares its CommsConn and is
\* reported OPEN at once; a first open of a receiving link starts a monitor
\* thread, which reports; a send-only open is reported OPEN at once
OpenConnection(l, t) ==
    /\ l \in profiles
    /\ nextId <= MaxIds
    /\ nextId' = nextId + 1
    /\ LET id == nextId IN
       IF LiveConnOn(l) # {}
       THEN LET o == CHOOSE c \in LiveConnOn(l) : TRUE IN
            /\ connections' = [connections EXCEPT ![id] = o]
            /\ connIds' = [connIds EXCEPT ![o] = @ \cup {id}]
            /\ reports' = Report({id}, "OPEN")
            /\ UNCHANGED <<linkOf, mon>>
       ELSE /\ connections' = [connections EXCEPT ![id] = id]
            /\ connIds' = [connIds EXCEPT ![id] = {id}]
            /\ linkOf' = [linkOf EXCEPT ![id] = l]
            /\ IF t \in {"LT_RECV", "LT_BIDI"}
               THEN mon' = [mon EXCEPT ![id] = "start"] /\ UNCHANGED reports
               ELSE reports' = Report({id}, "OPEN") /\ UNCHANGED mon
    /\ UNCHANGED <<terminate, sock, delivered, lastRx, exitLeft, channelVars>>

\* who closes an id: the network manager closes only connections it was
\* told are open (closeRecvConns); the plugin's shutdown closes every id
\* in its map, whether its monitor has reported yet or not
CloseAllowed(id) == CloseBeforeOpen \/ LastReport(id) = "OPEN"

\* slip: the id stays in conn.connection_ids
CloseConnectionKeepId(id) ==
    /\ connections[id] # NoConn
    /\ CloseAllowed(id)
    /\ LET o == connections[id] IN
       /\ connections' = [connections EXCEPT ![id] = NoConn]
       /\ terminate' = IF connIds[o] = {} THEN [terminate EXCEPT ![o] = TRUE] ELSE terminate
       /\ sock' = IF connIds[o] = {} /\ sock[o] = "bound"
                  THEN [sock EXCEPT ![o] = "closed"] ELSE sock
       /\ reports' = Report({id}, "CLOSED")
    /\ UNCHANGED <<nextId, connIds, linkOf, mon, delivered, lastRx, exitLeft, channelVars>>

\* slip: terminate set only when there is a socket to close
CloseConnectionTerminateWithSock(id) ==
    /\ connections[id] # NoConn
    /\ CloseAllowed(id)
    /\ LET o == connections[id]
           rest == connIds[o] \ {id}
       IN  /\ connections' = [connections EXCEPT ![id] = NoConn]
           /\ connIds' = [connIds EXCEPT ![o] = rest]
           /\ terminate' = IF rest = {} /\ sock[o] = "bound"
                           THEN [terminate EXCEPT ![o] = TRUE] ELSE terminate
           /\ sock' = IF rest = {} /\ sock[o] = "bound"
                      THEN [sock EXCEPT ![o] = "closed"] ELSE sock
           /\ reports' = Report({id}, "CLOSED")
    /\ UNCHANGED <<nextId, linkOf, mon, delivered, lastRx, exitLeft, channelVars>>

\* closeConnection's work for an id in the map: unlink the id from the map
\* and from conn.connection_ids; the last id of a CommsConn sets its
\* terminate flag and closes its socket; the id is reported CLOSED
CloseId(id) ==
    LET o == connections[id]
        rest == connIds[o] \ {id}
    IN  /\ connections' = [connections EXCEPT ![id] = NoConn]
        /\ connIds' = [connIds EXCEPT ![o] = rest]
        /\ terminate' = IF rest = {} THEN [terminate EXCEPT ![o] = TRUE] ELSE terminate
        /\ sock' = IF rest = {} /\ sock[o] = "bound"
                   THEN [sock EXCEPT ![o] = "closed"] ELSE sock
        /\ reports' = Report({id}, "CLOSED")

\* closeConnection of an id in the map (an id not in the map returns
\* PLUGIN_ERROR and changes nothing)
CloseConnection(id) ==
    /\ connections[id] # NoConn
    /\ CloseAllowed(id)
    /\ CloseId(id)
    /\ UNCHANGED <<nextId, linkOf, mon, delivered, lastRx, exitLeft, channelVars>>

-----------------------------------------------------------------------------
(* The SDK's channel and link calls                                         *)

\* onChannelStatusChanged(st) for ch, which answers its activation
ChannelStatusChanged(ch, st) ==
    /\ chStatus' = [chStatus EXCEPT ![ch] = st]
    /\ awaiting' = awaiting \ {ch}

\* activateChannel, which the network manager calls once per channel, at
\* init (PluginNMTwoSixServerPy/ClientPy.init): the
\* indirect channel is AVAILABLE at once; the direct one prompts the user
\* for a start port and for the hostname, and is FAILED when the hostname
\* prompt cannot be made; the handle of a prompt that cannot be made is
\* added to user_input_requests all the same
ActivateChannel(ch) ==
    /\ ch \notin activated
    /\ activated' = activated \cup {ch}
    /\ IF ch = Indirect
       THEN ChannelStatusChanged(ch, "AVAILABLE") /\ UNCHANGED <<inputReqs, prompts>>
       ELSE /\ inputReqs' = inputReqs \cup Prompts
            \* the start-port prompt is made, or refused by the SDK (a
            \* warning; its handle is added all the same)
            /\ \E sp \in {{"startPort"}, {}} :
                  \/ /\ prompts' = prompts \cup sp \cup {"hostname"}
                     /\ awaiting' = awaiting \cup {ch}
                     /\ UNCHANGED chStatus
                  \/ /\ prompts' = prompts \cup sp
                     /\ ChannelStatusChanged(ch, "FAILED")
    /\ UNCHANGED <<linksIn, profiles, linkReports, refused, closing>> /\ UNCHANGED connVars

\* slip: the emptiness test made before the handle is discarded
OnUserInputReceivedTestFirst(h) ==
    /\ h \in prompts
    /\ prompts' = prompts \ {h}
    /\ inputReqs' = inputReqs \ {h}
    /\ IF inputReqs = {}
       THEN ChannelStatusChanged(Direct, "AVAILABLE")
       ELSE UNCHANGED <<chStatus, awaiting>>
    /\ UNCHANGED <<linksIn, profiles, linkReports, refused, closing, activated>> /\ UNCHANGED connVars

\* onUserInputReceived for a prompt: the start port is parsed or the default
\* kept (ports are not modelled); an answered hostname is stored; then the
\* handle is discarded and, with no prompt left, the direct channel is
\* AVAILABLE.  A hostname prompt ended without an answer assigns the
\* undefined CHANNEL_DISABLED: the NameError leaves everything as it was.
OnUserInputReceived(h) ==
    /\ h \in prompts
    /\ prompts' = prompts \ {h}
    /\ \/ /\ inputReqs' = inputReqs \ {h}
          /\ IF inputReqs' = {}
             THEN ChannelStatusChanged(Direct, "AVAILABLE")
             ELSE UNCHANGED <<chStatus, awaiting>>
       \/ /\ UserMayDecline /\ h = "hostname"
          /\ UNCHANGED <<inputReqs, chStatus, awaiting>>
    /\ UNCHANGED <<linksIn, profiles, linkReports, refused, closing, activated>> /\ UNCHANGED connVars

\* a link call answered LINK_DESTROYED with the empty link id
Refuse ==
    /\ refused < MaxRefused
    /\ refused' = refused + 1
    /\ UNCHANGED <<linksIn, profiles, linkReports>>

\* createLink (st = "CREATED"), and the same steps of createLinkFromAddress
\* and loadLinkAddress (st = "LOADED"): a channel that is not AVAILABLE, or
\* no id from generateLinkId, is answered LINK_DESTROYED without a link;
\* otherwise the new link gets its link profile, joins links_in_channels
\* and is reported st
NewLink(ch, st) ==
    /\ \/ chStatus[ch] # "AVAILABLE" /\ Refuse
       \/ /\ chStatus[ch] = "AVAILABLE"
          /\ \/ Refuse
             \/ \E l \in Links :
                  /\ LinkChannel[l] = ch /\ linkReports[l] = <<>>
                  /\ profiles' = profiles \cup {l}
                  /\ linksIn' = [linksIn EXCEPT ![ch] = @ \cup {l}]
                  /\ linkReports' = [linkReports EXCEPT ![l] = <<st>>]
                  /\ UNCHANGED refused
    /\ UNCHANGED <<chStatus, inputReqs, prompts, awaiting, closing, activated>> /\ UNCHANGED connVars

CreateLinkFromAddress(ch) == NewLink(ch, "CREATED")

LoadLinkAddress(ch) == NewLink(ch, "LOADED")

\* loadLinkAddresses refuses a channel that is not AVAILABLE or is
\* multi-addressable; for any other channel it returns without an answer,
\* which changes nothing
LoadLinkAddresses(ch) ==
    /\ chStatus[ch] # "AVAILABLE" \/ MultiAddressable[ch]
    /\ Refuse
    /\ UNCHANGED <<chStatus, inputReqs, prompts, awaiting, closing, activated>> /\ UNCHANGED connVars

\* the linkType of the LinkProperties reported with the link, which the
\* network manager passes to openConnection: a created direct link
\* receives, a loaded one sends, a whiteboard link does both
LinkTypeOf(l) ==
    CASE Multicast[l]                    -> "LT_BIDI"
      [] linkReports[l][1] = "CREATED"   -> "LT_RECV"
      [] linkReports[l][1] = "LOADED"    -> "LT_SEND"

\* the ids in the connections map on a link of L
IdsOn(L) == {id \in ConnIds : connections[id] # NoConn /\ linkOf[connections[id]] \in L}

\* slip: the link id is left in links_in_channels
DestroyLinkKeepId(l) ==
    /\ l \in linksIn[LinkChannel[l]]
    /\ \A id \in IdsOn({l}) : CloseAllowed(id)
    /\ linkReports' = [linkReports EXCEPT ![l] = Append(@, "DESTROYED")]
    /\ closing' = IdsOn({l})
    /\ UNCHANGED <<linksIn, chStatus, inputReqs, prompts, awaiting, profiles, refused, activated>>
    /\ UNCHANGED connVars

\* destroyLink of a link the SDK holds: LINK_DESTROYED, then the ids on the
\* link in the map now are closed one closeConnection at a time (DestroyLoop),
\* and the link leaves links_in_channels; its link profile stays
DestroyLink(l) ==
    /\ l \in linksIn[LinkChannel[l]]
    /\ \A id \in IdsOn({l}) : CloseAllowed(id)
    /\ linkReports' = [linkReports EXCEPT ![l] = Append(@, "DESTROYED")]
    /\ closing' = IdsOn({l})
    /\ linksIn' = [linksIn EXCEPT ![LinkChannel[l]] = @ \ {l}]
    /\ UNCHANGED <<chStatus, inputReqs, prompts, awaiting, profiles, refused, activated>>
    /\ UNCHANGED connVars

\* deactivateChannel of an AVAILABLE channel: UNAVAILABLE, then destroyLink
\* of each of its links, and links_in_channels[ch] is cleared
DeactivateChannel(ch) ==
    /\ chStatus[ch] = "AVAILABLE"
    /\ \A id \in IdsOn(linksIn[ch]) : CloseAllowed(id)
    /\ ChannelStatusChanged(ch, "UNAVAILABLE")
    /\ linkReports' = [l \in Links |-> IF l \in linksIn[ch]
                                        THEN Append(linkReports[l], "DESTROYED")
                                        ELSE linkReports[l]]
    /\ closing' = IdsOn(linksIn[ch])
    /\ linksIn' = [linksIn EXCEPT ![ch] = {}]
    /\ UNCHANGED <<inputReqs, prompts, profiles, refused, activated>>
    /\ UNCHANGED connVars

\* one iteration of destroyLink's loop over its copy of the map: the id, if a
\* failing monitor has not popped it meanwhile, is closed (closeConnection
\* of a popped id returns PLUGIN_ERROR)
DestroyLoop ==
    /\ closing # {}
    /\ LET id == CHOOSE i \in closing : \A j \in closing : i <= j IN
       /\ closing' = closing \ {id}
       /\ IF connections[id] # NoConn
          THEN CloseId(id)
          ELSE UNCHANGED <<connections, connIds, terminate, sock, reports>>
    /\ UNCHANGED <<nextId, linkOf, mon, delivered, lastRx, exitLeft>>
    /\ UNCHANGED <<chStatus, inputReqs, prompts, awaiting, linksIn, profiles, linkReports, refused, activated>>

-----------------------------------------------------------------------------
(* The monitor threads                                                     *)

\* monitor steps leave the SDK's calls' state alone
MonitorOnly == UNCHANGED <<nextId, linkOf, terminate, channelVars>>

\* receiveEncPkg(pkg, conn.connection_ids): the list as it is now
Receive(o) ==
    /\ delivered < MaxDeliveries
    /\ delivered' = delivered + 1
    /\ lastRx' = connIds[o]

Goto(o, pc) == mon' = [mon EXCEPT ![o] = pc]

\* _direct_connection_monitor up to its loop: bind and listen, publish the
\* socket, report OPEN for the id the thread was started with; or bind raises
DirectStart(o) ==
    /\ mon[o] = "start" /\ ~Multicast[linkOf[o]]
    /\ \/ /\ sock' = [sock EXCEPT ![o] = "bound"]
          /\ reports' = Report({o}, "OPEN")
          /\ Goto(o, "loop")
       \/ /\ MonitorMayFail
          /\ Goto(o, "failed")
          /\ UNCHANGED <<sock, reports>>
    /\ MonitorOnly /\ UNCHANGED <<connections, connIds, delivered, lastRx, exitLeft>>

\* _multicast_connection_monitor up to its loop: report OPEN for the id the
\* thread was started with, then fetch the latest post index, which may raise
MulticastStart(o) ==
    /\ mon[o] = "start" /\ Multicast[linkOf[o]]
    /\ reports' = Report({o}, "OPEN")
    /\ \/ Goto(o, "loop")
       \/ MonitorMayFail /\ Goto(o, "failed")
    /\ MonitorOnly /\ UNCHANGED <<connections, connIds, sock, delivered, lastRx, exitLeft>>

\* while not conn.terminate: leave the loop, or accept / poll again
MonitorLoop(o) ==
    /\ mon[o] = "loop"
    /\ IF terminate[o]
       THEN Goto(o, "exit") /\ exitLeft' = [exitLeft EXCEPT ![o] = connIds[o]]
       ELSE Goto(o, IF Multicast[linkOf[o]] THEN "poll" ELSE "accept") /\ UNCHANGED exitLeft
    /\ MonitorOnly /\ UNCHANGED <<connections, connIds, sock, reports, delivered, lastRx>>

\* s.accept() called on a socket closeConnection has already closed raises
AcceptClosed(o) ==
    /\ mon[o] = "accept" /\ sock[o] = "closed"
    /\ Goto(o, "failed")
    /\ MonitorOnly /\ UNCHANGED <<connections, connIds, sock, reports, delivered, lastRx, exitLeft>>

\* s.accept() called on the open socket blocks until a peer connects.
\* closeConnection's sock.close() does not wake it: on Linux, close(2) of a
\* descriptor another thread is blocked in accept(2) on leaves that call
\* waiting on the still listening socket (shutdown(2) would wake it).
AcceptBlocks(o) ==
    /\ mon[o] = "accept" /\ sock[o] = "bound"
    /\ Goto(o, "blocked")
    /\ MonitorOnly /\ UNCHANGED <<connections, connIds, sock, reports, delivered, lastRx, exitLeft>>

\* a peer connects: read to EOF, hand the package to the SDK (the socket
\* may have been closed while accept was blocked)
AcceptPackage(o) ==
    /\ mon[o] = "blocked"
    /\ Receive(o)
    /\ Goto(o, "loop")
    /\ MonitorOnly /\ UNCHANGED <<connections, connIds, sock, reports, exitLeft>>

\* accept or the read raises for a reason of its own
AcceptError(o) ==
    /\ mon[o] = "blocked" /\ MonitorMayFail
    /\ Goto(o, "failed")
    /\ MonitorOnly /\ UNCHANGED <<connections, connIds, sock, reports, delivered, lastRx, exitLeft>>

\* _get_new_posts: hand a new post to the SDK, find none, or raise on an
\* unexpected status
MulticastPoll(o) ==
    /\ mon[o] = "poll"
    /\ \/ Receive(o) /\ Goto(o, "loop")
       \/ Goto(o, "loop") /\ UNCHANGED <<delivered, lastRx>>
       \/ MonitorMayFail /\ Goto(o, "failed") /\ UNCHANGED <<delivered, lastRx>>
    /\ MonitorOnly /\ UNCHANGED <<connections, connIds, sock, reports, exitLeft>>

\* slip: the ids are cleared along with their map entries
MonitorFailClearIds(o) ==
    /\ mon[o] = "failed"
    /\ connections' = [id \in ConnIds |-> IF id \in connIds[o] THEN NoConn ELSE connections[id]]
    /\ connIds' = [connIds EXCEPT ![o] = {}]
    /\ exitLeft' = [exitLeft EXCEPT ![o] = {}]
    /\ Goto(o, "exit")
    /\ MonitorOnly /\ UNCHANGED <<sock, reports, delivered, lastRx>>

\* the except branch: under connections_lock, pop every id of the conn
\* from the map; the ids stay in conn.connection_ids for the report loop
MonitorFail(o) ==
    /\ mon[o] = "failed"
    /\ connections' = [id \in ConnIds |-> IF id \in connIds[o] THEN NoConn ELSE connections[id]]
    /\ exitLeft' = [exitLeft EXCEPT ![o] = connIds[o]]
    /\ Goto(o, "exit")
    /\ MonitorOnly /\ UNCHANGED <<connIds, sock, reports, delivered, lastRx>>

\* after the loop, outside the lock: report CLOSED for each id still in
\* conn.connection_ids, in list (creation) order, one call at a time
MonitorExit(o) ==
    /\ mon[o] = "exit"
    /\ IF exitLeft[o] = {}
       THEN Goto(o, "done") /\ UNCHANGED <<reports, exitLeft>>
       ELSE LET id == CHOOSE i \in exitLeft[o] : \A j \in exitLeft[o] : i <= j IN
            /\ reports' = Report({id}, "CLOSED")
            /\ exitLeft' = [exitLeft EXCEPT ![o] = @ \ {id}]
            /\ UNCHANGED mon
    /\ MonitorOnly /\ UNCHANGED <<connections, connIds, sock, delivered, lastRx>>

-----------------------------------------------------------------------------

Init ==
    /\ nextId = 1
    /\ connections = [id \in ConnIds |-> NoConn]
    /\ connIds = [o \in ConnIds |-> {}]
    /\ linkOf = [o \in ConnIds |-> NoLink]
    /\ terminate = [o \in ConnIds |-> FALSE]
    /\ sock = [o \in ConnIds |-> "none"]
    /\ mon = [o \in ConnIds |-> "none"]
    /\ reports = [id \in ConnIds |-> <<>>]
    /\ delivered = 0
    /\ lastRx = {}
    /\ exitLeft = [o \in ConnIds |-> {}]
    /\ chStatus = [ch \in Channels |-> "UNAVAILABLE"]
    /\ inputReqs = {} /\ prompts = {} /\ awaiting = {}
    /\ linksIn = [ch \in Channels |-> {}]
    /\ profiles = {}
    /\ linkReports = [l \in Links |-> <<>>]
    /\ refused = 0
    /\ closing = {}
    /\ activated = {}

\* the steps a started thread takes without waiting for a peer
MonitorRuns(o) ==
    DirectStart(o) \/ MulticastStart(o) \/ MonitorLoop(o) \/ AcceptClosed(o) \/ AcceptBlocks(o)
    \/ MulticastPoll(o) \/ MonitorFail(o) \/ MonitorExit(o)

\* the SDK makes one call at a time: none while destroyLink closes ids
SdkIdle == closing = {}

Next ==
    \/ SdkIdle /\ \E l \in UNION {linksIn[ch] : ch \in Channels} : OpenConnection(l, LinkTypeOf(l))
    \/ SdkIdle /\ \E id \in ConnIds : CloseConnection(id)
    \/ \E o \in ConnIds : MonitorRuns(o) \/ AcceptPackage(o) \/ AcceptError(o)
    \/ SdkIdle /\ \E ch \in Channels :
          \/ ActivateChannel(ch) \/ DeactivateChannel(ch)
          \/ NewLink(ch, "CREATED") \/ CreateLinkFromAddress(ch)
          \/ LoadLinkAddress(ch) \/ LoadLinkAddresses(ch)
    \/ SdkIdle /\ \E h \in Prompts : OnUserInputReceived(h)
    \/ SdkIdle /\ \E l \in Links : DestroyLink(l)
    \/ DestroyLoop

\* Monitor threads run on when they need no peer, and so does destroyLink's
\* loop; the SDK delivers the user's answer to every prompt it made, or the
\* end of the prompt
Spec == Init /\ [][Next]_vars
        /\ \A o \in ConnIds : WF_vars(MonitorRuns(o))
        /\ WF_vars(DestroyLoop)
        /\ \A h \in Prompts : WF_vars(SdkIdle /\ OnUserInputReceived(h))

-----------------------------------------------------------------------------
(* Properties                                                               *)

\* Every variable has its type, and an id in the connections map is in the
\* connection_ids of the CommsConn it names (openConnection and
\* closeConnection change the two together under connections_lock).
TypeOK ==
    /\ nextId \in 1..(MaxIds + 1)
    /\ connections \in [ConnIds -> ConnIds \cup {NoConn}]
    /\ connIds \in [ConnIds -> SUBSET ConnIds]
    /\ linkOf \in [ConnIds -> Links \cup {NoLink}]
    /\ terminate \in [ConnIds -> BOOLEAN]
    /\ sock \in [ConnIds -> {"none", "bound", "closed"}]
    /\ mon \in [ConnIds -> MonitorPcs]
    /\ reports \in [ConnIds -> Seq({"OPEN", "CLOSED"})]
    /\ delivered \in 0..MaxDeliveries
    /\ lastRx \subseteq ConnIds
    /\ exitLeft \in [ConnIds -> SUBSET ConnIds]
    /\ chStatus \in [Channels -> ChannelStatuses]
    /\ inputReqs \subseteq Prompts /\ prompts \subseteq inputReqs /\ awaiting \subseteq Channels
    /\ linksIn \in [Channels -> SUBSET Links] /\ profiles \subseteq Links
    /\ linkReports \in [Links -> Seq({"CREATED", "LOADED", "DESTROYED"})]
    /\ refused \in 0..MaxRefused
    /\ closing \subseteq ConnIds /\ activated \subseteq Channels
    /\ \A id \in ConnIds : connections[id] # NoConn => id \in connIds[connections[id]]

\* what the SDK knows of an id: handed out, and the last status reported
Status(id) ==
    IF id >= nextId THEN "none"
    ELSE CASE LastReport(id) = "none"   -> "opening"
           [] LastReport(id) = "OPEN"   -> "open"
           [] LastReport(id) = "CLOSED" -> "closed"

Lifecycle == INSTANCE ConnectionLifecycle
    WITH status <- [id \in ConnIds |-> Status(id)]

\* The statuses the plugin reports to the SDK, and the connection ids it
\* hands packages to, follow ConnectionLifecycle: every id is reported OPEN
\* or CLOSED eventually, CLOSED is never followed by another report, and
\* receiveEncPkg names only ids reported OPEN.  openConnection,
\* closeConnection and the monitor threads' reports and receives interleave.
ImplementsLifecycle == Lifecycle!Spec

\* a direct monitor blocked in accept on a socket closeConnection closed:
\* only a peer connecting (which nothing makes happen) returns it to its
\* loop, and until then the thread and its port are held
StuckInAccept(o) == mon[o] = "blocked" /\ sock[o] = "closed"

\* A monitor thread whose CommsConn lost its last id to closeConnection
\* eventually exits, or is left blocked in accept on its closed socket: the
\* terminate flag reaches it wherever it is, starting, polling the
\* whiteboard, or before it calls accept, where the closed socket makes
\* accept raise; only a thread already blocked in accept is not woken.
MonitorsTerminate ==
    \A o \in ConnIds :
        (mon[o] \notin {"none", "done"} /\ connIds[o] = {}) ~> (mon[o] = "done" \/ StuckInAccept(o))

\* An id taken out of the connections map, by closeConnection or by a
\* failing monitor thread, is eventually reported CLOSED to the SDK (spec
\* section 5: thread exit on error paths still reports CLOSED for every
\* connId attached to the connection).
ClosedReportedForDetached ==
    \A id \in ConnIds :
        (id < nextId /\ connections[id] = NoConn) ~> LastReport(id) = "CLOSED"

\* a handle in user_input_requests that no answer will ever discard: its
\* request was refused, or the answer to it raised NameError
PromptLost == \E h \in inputReqs : h \notin prompts

\* Every activateChannel is answered by onChannelStatusChanged: the direct
\* channel's two prompts are answered in either order, with link and
\* connection calls in between (or the hostname prompt cannot be made, which
\* reports FAILED), and the answer that empties user_input_requests makes
\* it AVAILABLE (spec: a channel activates, possibly after prompting for
\* user input).  The exception is a lost prompt: a refused start-port
\* request, or a declined hostname whose CHANNEL_DISABLED raises NameError,
\* leaves the channel unanswered for good.
ChannelActivationAnswered ==
    \A ch \in Channels : ch \in awaiting ~> (ch \notin awaiting \/ PromptLost)

\* links_in_channels holds exactly the links reported CREATED or LOADED and
\* not yet DESTROYED, all in AVAILABLE channels, and no link is reported
\* DESTROYED twice: destroyLink, deactivateChannel and the link calls keep
\* the table and the reports to the SDK in step.
LinksMatchReports ==
    \A l \in Links :
        /\ Len(linkReports[l]) <= 2
        /\ Len(linkReports[l]) = 2 => linkReports[l][2] = "DESTROYED"
        /\ l \in linksIn[LinkChannel[l]] <=> Len(linkReports[l]) = 1
        /\ l \in linksIn[LinkChannel[l]] => chStatus[LinkChannel[l]] = "AVAILABLE"

=============================================================================
