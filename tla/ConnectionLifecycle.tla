------------------------- MODULE ConnectionLifecycle -------------------------
(***************************************************************************)
(* What a comms plugin tells the SDK about its connections, per connection *)
(* id: openConnection hands out an id, later (or at once) the id is        *)
(* reported CONNECTION_OPEN or CONNECTION_CLOSED, an open id is eventually *)
(* closed only if someone closes it, and CLOSED is final.  Packages are    *)
(* handed to the SDK (receiveEncPkg) with a list of connection ids, every  *)
(* one of them open.                                                        *)
(***************************************************************************)
EXTENDS Naturals

CONSTANTS
    ConnIds,        \* the ids generateConnectionId can hand out
    MaxDeliveries   \* receiveEncPkg calls considered

VARIABLES
    status,    \* id -> "none", "opening", "open" or "closed"
    delivered, \* receiveEncPkg calls so far
    lastRx     \* the connection ids of the last receiveEncPkg call

absVars == <<status, delivered, lastRx>>

\* openConnection returned an id whose status is still to come
Request(id) ==
    /\ status[id] = "none"
    /\ status' = [status EXCEPT ![id] = "opening"]
    /\ UNCHANGED <<delivered, lastRx>>

\* CONNECTION_OPEN, possibly within the openConnection call itself
Open(id) ==
    /\ status[id] \in {"none", "opening"}
    /\ status' = [status EXCEPT ![id] = "open"]
    /\ UNCHANGED <<delivered, lastRx>>

\* CONNECTION_CLOSED, from closeConnection or from a failing connection
Close(id) ==
    /\ status[id] \in {"opening", "open"}
    /\ status' = [status EXCEPT ![id] = "closed"]
    /\ UNCHANGED <<delivered, lastRx>>

\* a package is handed to the SDK on connections that are all open; the
\* list may be empty (the last id closed while the package was read)
Deliver(S) ==
    /\ \A id \in S : status[id] = "open"
    /\ delivered < MaxDeliveries
    /\ delivered' = delivered + 1
    /\ lastRx' = S
    /\ UNCHANGED status

\* an id still waiting for its first report gets one
Resolve(id) == status[id] = "opening" /\ (Open(id) \/ Close(id))

Init ==
    /\ status = [id \in ConnIds |-> "none"]
    /\ delivered = 0
    /\ lastRx = {}

Next ==
    \/ \E id \in ConnIds : Request(id) \/ Open(id) \/ Close(id)
    \/ \E S \in SUBSET ConnIds : Deliver(S)

Spec == Init /\ [][Next]_absVars /\ \A id \in ConnIds : WF_absVars(Resolve(id))

=============================================================================
