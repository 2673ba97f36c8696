------------------------- MODULE MCTrackerWhiteboard -------------------------
(***************************************************************************)
(* The NM client's message-status reporting (PackageTracker) over the      *)
(* whiteboard channel (WhiteboardChannel): every package processClrMsg     *)
(* hands to the SDK goes out through sendPackageMulticast on one hashtag,  *)
(* so the status the tracker receives is the answer of the /post route,    *)
(* and the entrance servers' multicast monitor polls the same hashtag.     *)
(***************************************************************************)
EXTENDS PackageTracker

CONSTANTS h1, Capacity, StoreMayFail, LatestMayFail

MCMsgs == {h1}

VARIABLES board, first, posted, rpc, start, latest, delivered, lost

WB == INSTANCE WhiteboardChannel WITH Posts <- Pkgs, board <- board, first <- first,
    posted <- posted, rpc <- rpc, start <- start, latest <- latest,
    delivered <- delivered, lost <- lost

wbVars == <<board, first, posted, rpc, start, latest, delivered, lost>>

allVars == <<vars, wbVars>>

\* the comms plugin's send of a package is a post to the whiteboard
CommsPost(p) ==
    \E st \in {"PACKAGE_SENT", "PACKAGE_FAILED_GENERIC"} :
        CommsReport(p, st) /\ WB!SendPackageMulticast(p, st)

\* the post raises out of sendPackage: no status for the package
CommsPostRaises(p) == CommsNoStatus(p) /\ WB!SendPackageMulticastRaises(p)

TWInit == Init /\ WB!WBInit

TWNext ==
    \/ /\ \E h \in Msgs : ProcessClrMsg(h) \/ SendToHandle(h) \/ SendToNull(h)
                          \/ AddEncPkgHandle(h)
       /\ UNCHANGED wbVars
    \/ \E p \in Pkgs : CommsPost(p) \/ CommsPostRaises(p)
    \/ \E c \in callbacks : OnPackageStatusChanged(c[1], c[2]) /\ UNCHANGED wbVars
    \/ WB!MonitorNext /\ UNCHANGED vars
    \/ Quiescent /\ UNCHANGED allVars

TWFairness ==
    /\ \A h \in Msgs : WF_allVars((SendToHandle(h) \/ SendToNull(h) \/ AddEncPkgHandle(h))
                                          /\ UNCHANGED wbVars)
    /\ \A p \in Pkgs : WF_allVars(CommsPost(p) \/ CommsPostRaises(p))
    /\ \A p \in Pkgs, st \in PkgStatus : WF_allVars(OnPackageStatusChanged(p, st) /\ UNCHANGED wbVars)
    /\ WF_allVars(WB!MonitorStart /\ UNCHANGED vars)
    /\ WF_allVars(WB!Poll /\ UNCHANGED vars)

TWSpec == TWInit /\ [][TWNext]_allVars /\ TWFairness

\* Types of the whiteboard and the monitor (WhiteboardChannel's WBTypeOK).
WBTypeOK == WB!WBTypeOK

\* The monitor hands over, once and in order, or counts as lost, exactly the
\* posts between its first and its current latest (WhiteboardChannel).
PollAccountsForEveryPost == WB!PollAccountsForEveryPost

=============================================================================
