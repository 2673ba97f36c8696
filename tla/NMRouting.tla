----------------------------- MODULE NMRouting -----------------------------
(***************************************************************************)
(* Oblivious routing of the two-six network manager: clients hand a        *)
(* cleartext message to every server of their entrance committee; servers  *)
(* carry it around their committee's rings, flood it to other committees   *)
(* and hand it to the destination's exit servers; the destination client   *)
(* presents it to the user once.  One action per handler of                *)
(* PluginNMTwoSixClientPy / PluginNMTwoSixServerPy; the packages in flight *)
(* are a bag, so copies, reordering, loss and duplication are explicit.    *)
(***************************************************************************)
EXTENDS Naturals, Integers, Sequences, SequencesExt, FiniteSets, Bags, SeenSet

CONSTANTS
    Servers, Clients, Committees,
    CommitteeOf,          \* server -> committeeName
    Rings,                \* server -> <<[next, length], ...>>  (config "rings")
    ExitClients,          \* server -> set of clients  (config "exitClients")
    CommitteeClients,     \* server -> set of clients  (config "committeeClients")
    ReachableCommittees,  \* server -> <<<<committee, firstMember>>, ...>> in dict order
    FloodingFactor,       \* server -> floodingFactor of its committee
    EntranceCommittee,    \* client -> <<server, ...>>  (config "entranceCommittee")
    Msgs, MsgFrom, MsgTo, \* the cleartext messages the users send
    MaxStaleUuids,        \* server config "maxStaleUuids"
    MaxSeenMessages,      \* client config "maxSeenMessages"
    MaxDuplicates         \* bound on packages the network delivers twice

Nodes == Servers \cup Clients

\* ExtClrMsg.UNSET_RING_TTL
UNSET == -1

ASSUME
    /\ CommitteeOf \in [Servers -> Committees]
    /\ \A s \in Servers : \A i \in 1..Len(Rings[s]) :
           Rings[s][i].next \in Servers /\ Rings[s][i].length \in Nat
    /\ \A c \in Clients : \A i \in 1..Len(EntranceCommittee[c]) :
           EntranceCommittee[c][i] \in Servers
    /\ \A m \in Msgs : MsgFrom[m] \in Clients /\ MsgTo[m] \in Clients
                      /\ MsgFrom[m] # MsgTo[m]
    /\ MaxStaleUuids \in Nat /\ MaxSeenMessages \in Nat
    /\ MaxDuplicates \in Nat

VARIABLES
    net,          \* bag of [dst, msg] packages handed to sendEncryptedPackage
    staleUuids,   \* server -> ordered set of message uuids it has routed
    floodedUuids, \* server -> ordered set of uuids it has sent out of its committee
    seenMessages, \* client -> ordered set of message hashes
    submitted,    \* messages the user has handed to processClrMsg
    presented,    \* client -> message -> number of presentCleartextMessage calls
    dups,         \* packages the network has duplicated so far
    ringsStarted  \* server -> message -> number of sendToRings calls (history)

vars == <<net, staleUuids, floodedUuids, seenMessages, submitted, presented, dups,
          ringsStarted>>

-----------------------------------------------------------------------------
(* Messages and packages.  The uuid of an ExtClrMsg is a hash of the       *)
(* cleartext fields, so it is the message identity; committeesVisited is a *)
(* list only tested for membership, so it is a set here.  committeesSent   *)
(* is not modelled: forwardToNewCommittees resets the copy it reads and    *)
(* appends to the other one, so it never affects a choice.                 *)

XMsg(id, ttl, idx, visited) ==
    [id |-> id, ringTtl |-> ttl, ringIdx |-> idx, visited |-> visited]

\* ExtClrMsg.asClrMsg, and parsing a 7-token ClrMsg (ExtClrMsg.fromClrMsg):
\* the extension fields are gone and come back at their defaults.
AsClrMsg(m) == XMsg(m.id, UNSET, 0, {})

Pkt(dst, m) == [dst |-> dst, msg |-> m]

Packages == DOMAIN net

\* the message hashes of the client: RaceCrypto.getMessageHash over the
\* formatted message, which differs for a ClrMsg (sent) and an ExtClrMsg
\* (received) with the same fields
SentHash(id) == <<"clr", id>>
RecvHash(id) == <<"ext", id>>

\* one package leaves the network, the handler's sends join it
Deliver(p, out) == net' = (net (-) SetToBag({p})) (+) out

NoSends == EmptyBag

\* a bag holding one package for each destination in a set
SendToEach(dsts, m) == SetToBag({Pkt(d, m) : d \in dsts})

-----------------------------------------------------------------------------
(* Server: routing (PluginNMTwoSixServerPy.routeMsg and its helpers)        *)

addStaleUuid(s, id) ==
    staleUuids' = [staleUuids EXCEPT ![s] = AddBounded(@, id, MaxStaleUuids)]

addFloodedUuid(s, id) ==
    floodedUuids' = [floodedUuids EXCEPT ![s] = AddBounded(@, id, MaxStaleUuids)]

\* slip: ringIdx counted from zero, as enumerate() does
sendToRingsFromZero(s, m) ==
    ToBag([i \in 1..Len(Rings[s]) |->
             Pkt(Rings[s][i].next,
                 [m EXCEPT !.ringTtl = Rings[s][i].length - 1, !.ringIdx = i - 1])])

\* sendToRings: one copy per ring, ringTtl = length - 1, ringIdx = ring index
sendToRings(s, m) ==
    ToBag([i \in 1..Len(Rings[s]) |->
             Pkt(Rings[s][i].next,
                 [m EXCEPT !.ringTtl = Rings[s][i].length - 1, !.ringIdx = i])])

\* slip: the loop without the "committee in visited" test
RECURSIVE IntercomDstsNoVisited(_, _, _, _)
IntercomDstsNoVisited(rc, visited, ff, acc) ==
    IF rc = <<>> THEN acc
    ELSE LET acc2 == acc \cup {Head(rc)[2]}
         IN  IF ff > 0 /\ Cardinality(acc2) >= ff
             THEN acc2
             ELSE IntercomDstsNoVisited(Tail(rc), visited, ff, acc2)

\* the loop of forwardToNewCommittees over reachableCommittees: skip visited
\* committees, take the first reachable member, stop once floodingFactor
\* destinations are collected (floodingFactor <= 0 means no limit)
RECURSIVE IntercomDsts(_, _, _, _)
IntercomDsts(rc, visited, ff, acc) ==
    IF rc = <<>> THEN acc
    ELSE IF Head(rc)[1] \in visited THEN IntercomDsts(Tail(rc), visited, ff, acc)
    ELSE LET acc2 == acc \cup {Head(rc)[2]}
         IN  IF ff > 0 /\ Cardinality(acc2) >= ff
             THEN acc2
             ELSE IntercomDsts(Tail(rc), visited, ff, acc2)

forwardToNewCommittees(s, m) ==
    LET intercom == [m EXCEPT !.ringTtl = UNSET,
                              !.visited = @ \cup {CommitteeOf[s]}]
        ff       == FloodingFactor[s]
        dsts     == IntercomDsts(ReachableCommittees[s], intercom.visited, ff, {})
        relay    == ff <= 0 \/ Cardinality(dsts) < ff
    IN  SendToEach(dsts, intercom)
        (+) (IF relay
             THEN ToBag([i \in 1..Len(Rings[s]) |-> Pkt(Rings[s][i].next, m)])
             ELSE NoSends)

\* the end-of-ring branch of handleRingMsg, for a message not yet flooded
EndOfRingSends(s, m) ==
    LET dst == MsgTo[m.id]
    IN  (IF dst \in ExitClients[s]
         THEN SetToBag({Pkt(dst, AsClrMsg(m))}) ELSE NoSends)
        (+) (IF dst \in CommitteeClients[s] /\ Len(Rings[s]) > 0
             THEN SetToBag({Pkt(Rings[s][m.ringIdx].next, m)})
             ELSE forwardToNewCommittees(s, m))

IsStartOfRing(s, m) == m.ringTtl = UNSET /\ Len(Rings[s]) > 0

\* processEncPkg -> routeMsg -> startRingMsg, copy already seen: dropped
startRingMsgDuplicate(s, p) ==
    /\ IsStartOfRing(s, p.msg)
    /\ p.msg.id \in ToSet(staleUuids[s])
    /\ Deliver(p, NoSends)
    /\ UNCHANGED <<staleUuids, floodedUuids, ringsStarted>>

\* slip: startRingMsg without the staleUuids test
startRingMsgNoStaleCheck(s, p) ==
    /\ IsStartOfRing(s, p.msg)
    /\ addStaleUuid(s, p.msg.id)
    /\ Deliver(p, sendToRings(s, p.msg))
    /\ ringsStarted' = [ringsStarted EXCEPT ![s][p.msg.id] = @ + 1]
    /\ UNCHANGED floodedUuids

\* processEncPkg -> routeMsg -> startRingMsg -> sendToRings
startRingMsg(s, p) ==
    /\ IsStartOfRing(s, p.msg)
    /\ p.msg.id \notin ToSet(staleUuids[s])
    /\ addStaleUuid(s, p.msg.id)
    /\ Deliver(p, sendToRings(s, p.msg))
    /\ ringsStarted' = [ringsStarted EXCEPT ![s][p.msg.id] = @ + 1]
    /\ UNCHANGED floodedUuids

\* handleRingMsg with ringTtl > 0: continue around ring ringIdx
handleRingMsgForward(s, p) ==
    /\ ~IsStartOfRing(s, p.msg)
    /\ p.msg.ringTtl > 0
    /\ addStaleUuid(s, p.msg.id)
    /\ Deliver(p, SetToBag({Pkt(Rings[s][p.msg.ringIdx].next,
                                [p.msg EXCEPT !.ringTtl = @ - 1])}))
    /\ UNCHANGED <<floodedUuids, ringsStarted>>

\* slip: the end-of-ring branch without the floodedUuids test
handleRingMsgEndNoFloodCheck(s, p) ==
    /\ ~IsStartOfRing(s, p.msg)
    /\ p.msg.ringTtl <= 0
    /\ addStaleUuid(s, p.msg.id)
    /\ addFloodedUuid(s, p.msg.id)
    /\ Deliver(p, EndOfRingSends(s, p.msg))
    /\ UNCHANGED ringsStarted

\* handleRingMsg at the end of the ring (or without rings), first time
handleRingMsgEnd(s, p) ==
    /\ ~IsStartOfRing(s, p.msg)
    /\ p.msg.ringTtl <= 0
    /\ p.msg.id \notin ToSet(floodedUuids[s])
    /\ addStaleUuid(s, p.msg.id)
    /\ addFloodedUuid(s, p.msg.id)
    /\ Deliver(p, EndOfRingSends(s, p.msg))
    /\ UNCHANGED ringsStarted

\* handleRingMsg at the end of the ring for a message already flooded
handleRingMsgDone(s, p) ==
    /\ ~IsStartOfRing(s, p.msg)
    /\ p.msg.ringTtl <= 0
    /\ p.msg.id \in ToSet(floodedUuids[s])
    /\ addStaleUuid(s, p.msg.id)
    /\ Deliver(p, NoSends)
    /\ UNCHANGED <<floodedUuids, ringsStarted>>

ServerProcessEncPkg(s) ==
    \E p \in Packages :
        /\ p.dst = s
        /\ \/ startRingMsgDuplicate(s, p)
           \/ startRingMsg(s, p)
           \/ handleRingMsgForward(s, p)
           \/ handleRingMsgEnd(s, p)
           \/ handleRingMsgDone(s, p)
        /\ UNCHANGED <<seenMessages, submitted, presented, dups>>

-----------------------------------------------------------------------------
(* Client (PluginNMTwoSixClientPy)                                          *)

addSeenMessage(c, h) ==
    seenMessages' = [seenMessages EXCEPT ![c] = AddBounded(@, h, MaxSeenMessages)]

\* processClrMsg: the user sends m (again, if the host repeats an identical
\* message); one package per entrance-committee server
processClrMsg(c, m) ==
    /\ MsgFrom[m] = c
    /\ submitted' = submitted \cup {m}
    /\ IF SentHash(m) \in ToSet(seenMessages[c])
       THEN UNCHANGED <<seenMessages, net>>          \* raises: PLUGIN_FATAL
       ELSE /\ addSeenMessage(c, SentHash(m))
            /\ net' = net (+) ToBag([i \in 1..Len(EntranceCommittee[c]) |->
                                       Pkt(EntranceCommittee[c][i],
                                           XMsg(m, UNSET, 0, {}))])
    /\ UNCHANGED <<staleUuids, floodedUuids, presented, dups, ringsStarted>>

\* slip: presenting every MSG_CLIENT package without the hash test
ClientProcessEncPkgNoDedup(c) ==
    \E p \in Packages :
        /\ p.dst = c
        /\ Deliver(p, NoSends)
        /\ addSeenMessage(c, RecvHash(p.msg.id))
        /\ presented' = [presented EXCEPT ![c][p.msg.id] = @ + 1]
        /\ UNCHANGED <<staleUuids, floodedUuids, submitted, dups, ringsStarted>>

\* processEncPkg of a MSG_CLIENT package: present it unless its hash was seen
ClientProcessEncPkg(c) ==
    \E p \in Packages :
        /\ p.dst = c
        /\ Deliver(p, NoSends)
        /\ IF RecvHash(p.msg.id) \in ToSet(seenMessages[c])
           THEN UNCHANGED <<seenMessages, presented>>
           ELSE /\ addSeenMessage(c, RecvHash(p.msg.id))
                /\ presented' = [presented EXCEPT ![c][p.msg.id] = @ + 1]
        /\ UNCHANGED <<staleUuids, floodedUuids, submitted, dups, ringsStarted>>

-----------------------------------------------------------------------------
(* The transport below sendEncryptedPackage                                 *)

\* a package delivered twice (replayed post, retransmission)
DuplicatePackage ==
    /\ dups < MaxDuplicates
    /\ \E p \in Packages : net' = net (+) SetToBag({p})
    /\ dups' = dups + 1
    /\ UNCHANGED <<staleUuids, floodedUuids, seenMessages, submitted, presented,
                   ringsStarted>>

-----------------------------------------------------------------------------

Init ==
    /\ net = EmptyBag
    /\ staleUuids = [s \in Servers |-> <<>>]
    /\ floodedUuids = [s \in Servers |-> <<>>]
    /\ seenMessages = [c \in Clients |-> <<>>]
    /\ submitted = {}
    /\ presented = [c \in Clients |-> [m \in Msgs |-> 0]]
    /\ dups = 0
    /\ ringsStarted = [s \in Servers |-> [m \in Msgs |-> 0]]

Next ==
    \/ \E c \in Clients, m \in Msgs : processClrMsg(c, m)
    \/ \E s \in Servers : ServerProcessEncPkg(s)
    \/ \E c \in Clients : ClientProcessEncPkg(c)
    \/ DuplicatePackage

\* receive threads keep polling and the SDK keeps calling processEncPkg
Fairness ==
    /\ \A s \in Servers : WF_vars(ServerProcessEncPkg(s))
    /\ \A c \in Clients : WF_vars(ClientProcessEncPkg(c))

Spec == Init /\ [][Next]_vars /\ Fairness

-----------------------------------------------------------------------------
(* Properties                                                               *)

TypeOK ==
    /\ IsABag(net)
    /\ \A p \in Packages : p.dst \in Nodes /\ p.msg.id \in Msgs
    \* a ring copy names a ring of the server it is sent to, or
    \* self.rings[msg.ringIdx] raises in handleRingMsg
    /\ \A p \in Packages : p.msg.ringTtl >= 0 =>
           p.dst \in Servers /\ p.msg.ringIdx \in 1..Len(Rings[p.dst])
    /\ staleUuids \in [Servers -> Seq(Msgs)]
    /\ floodedUuids \in [Servers -> Seq(Msgs)]
    /\ \A c \in Clients : ToSet(seenMessages[c]) \subseteq ({"clr", "ext"} \X Msgs)
    /\ submitted \subseteq Msgs
    /\ presented \in [Clients -> [Msgs -> Nat]]
    /\ dups \in 0..MaxDuplicates
    /\ ringsStarted \in [Servers -> [Msgs -> Nat]]

\* Spec invariant 1: whatever copies reach a client over its exit servers,
\* replays included, processEncPkg presents each message to the user at
\* most once.
AtMostOncePresentation ==
    \A c \in Clients, m \in Msgs : presented[c][m] <= 1

\* Spec invariant 2: a server puts a message on its rings at most once,
\* however many copies reach it from the entrance client, from several
\* committees' flooding and from replays (startRingMsg's staleUuids check).
RingsStartedAtMostOnce ==
    \A s \in Servers, m \in Msgs : ringsStarted[s][m] <= 1

\* A message sent by processClrMsg reaches its addressee: the rings, the
\* committeeClients relay and the flooding out of committees (capped by
\* floodingFactor) always leave some path to an exit server.
EventualPresentation ==
    \A m \in Msgs : (m \in submitted) ~> (presented[MsgTo[m]][m] > 0)

\* Routing terminates: the rings stop at the server that started them and
\* the floodedUuids check stops the ringTtl = 0 relay, so every copy is
\* eventually consumed and nothing circulates forever.
RoutingTerminates == <>[](net = EmptyBag)

=============================================================================
