--------------------------- MODULE PackageTracker ---------------------------
(***************************************************************************)
(* Message-status reporting of the NM client: processClrMsg hands one      *)
(* package per entrance server to the SDK (sendTo) and registers each      *)
(* returned handle in the ClearMessagePackageTracker; the comms plugin     *)
(* later reports PACKAGE_SENT or PACKAGE_FAILED_GENERIC for the handle, and *)
(* onPackageStatusChanged updates the tracker and reports the aggregate    *)
(* message status to the host unless it is MS_UNDEF.                      *)
(* Concurrent says whether the SDK may run onPackageStatusChanged while    *)
(* processClrMsg is still in its send loop.                                *)
(***************************************************************************)
EXTENDS Naturals, FiniteSets, Sequences

CONSTANTS
    Msgs,        \* clear-message handles the host sends with
    NumEntrance, \* servers in the entrance committee
    Concurrent,  \* may callbacks run during processClrMsg?
    SendMayRaise \* may sendPackage end without reporting a status?

ASSUME NumEntrance \in Nat \ {0} /\ Concurrent \in BOOLEAN /\ SendMayRaise \in BOOLEAN

\* one enc-package per (message, entrance server); the SDK handle
Pkgs == Msgs \X (1..NumEntrance)
PkgsOf(h) == {p \in Pkgs : p[1] = h}

\* PackageStatus values the comms plugin reports, and the tracker's initial one
PkgStatus == {"PACKAGE_INVALID", "PACKAGE_SENT", "PACKAGE_FAILED_GENERIC"}
FailedStatus == {"PACKAGE_FAILED_GENERIC", "PACKAGE_FAILED_NETWORK_ERROR",
                 "PACKAGE_FAILED_TIMEOUT"}

VARIABLES
    phase,     \* message -> where processClrMsg is: idle, send, add, done, fatal
    idx,       \* message -> entrance server the send loop is at
    anySent,   \* message -> processClrMsg's anySent
    tracker,   \* package -> status, or "absent" before it is registered
    queued,    \* packages sendEncryptedPackage accepted (handle returned)
    callbacks, \* <<package, status>> reports the comms plugin has made
    outcome,   \* package -> what the comms plugin reported (history);
               \* "raised" when sendPackage ended without a status
    reported   \* message -> sequence of onMessageStatusChanged statuses

vars == <<phase, idx, anySent, tracker, queued, callbacks, outcome, reported>>

-----------------------------------------------------------------------------
(* ClearMessagePackageTracker._get_status_for_clr_msg: any SENT -> MS_SENT;  *)
(* otherwise any package not failed -> MS_UNDEF; otherwise MS_FAILED.       *)
(* Only registered packages are in the map.                                 *)

\* slip: a failed package fails the message at once
StatusForClrMsgFirstFailure(h, t) ==
    LET reg == {p \in PkgsOf(h) : t[p] # "absent"}
    IN  IF \E p \in reg : t[p] = "PACKAGE_SENT" THEN "MS_SENT"
        ELSE IF \E p \in reg : t[p] \in FailedStatus THEN "MS_FAILED"
        ELSE "MS_UNDEF"

\* slip: PACKAGE_FAILED_GENERIC left out of the failure test
StatusForClrMsgNoGeneric(h, t) ==
    LET reg == {p \in PkgsOf(h) : t[p] # "absent"}
    IN  IF \E p \in reg : t[p] = "PACKAGE_SENT" THEN "MS_SENT"
        ELSE IF \E p \in reg : t[p] \notin FailedStatus \ {"PACKAGE_FAILED_GENERIC"}
             THEN "MS_UNDEF"
        ELSE "MS_FAILED"

StatusForClrMsg(h, t) ==
    LET reg == {p \in PkgsOf(h) : t[p] # "absent"}
    IN  IF \E p \in reg : t[p] = "PACKAGE_SENT" THEN "MS_SENT"
        ELSE IF \E p \in reg : t[p] \notin FailedStatus THEN "MS_UNDEF"
        ELSE "MS_FAILED"

-----------------------------------------------------------------------------
(* PluginNMTwoSixClientPy.processClrMsg, its send loop one step per server *)

\* the host calls processClrMsg; the hash is new, the loop starts
ProcessClrMsg(h) ==
    /\ phase[h] = "idle"
    /\ phase' = [phase EXCEPT ![h] = "send"]
    /\ UNCHANGED <<idx, anySent, tracker, queued, callbacks, outcome, reported>>

\* sendTo returns an SDK handle: the package is queued to the comms plugin
SendToHandle(h) ==
    /\ phase[h] = "send"
    /\ phase' = [phase EXCEPT ![h] = "add"]
    /\ anySent' = [anySent EXCEPT ![h] = TRUE]
    /\ queued' = queued \cup {<<h, idx[h]>>}
    /\ UNCHANGED <<idx, tracker, callbacks, outcome, reported>>

\* sendTo returns NULL_RACE_HANDLE (no send connection, SDK error)
SendToNull(h) ==
    /\ phase[h] = "send"
    /\ IF idx[h] < NumEntrance
       THEN /\ idx' = [idx EXCEPT ![h] = @ + 1]
            /\ UNCHANGED phase
       ELSE /\ phase' = [phase EXCEPT ![h] = IF anySent[h] THEN "done" ELSE "fatal"]
            /\ UNCHANGED idx
    /\ UNCHANGED <<anySent, tracker, queued, callbacks, outcome, reported>>

\* slip: the loop bound tested with <=
AddEncPkgHandlePastEnd(h) ==
    /\ phase[h] = "add"
    /\ tracker' = [tracker EXCEPT ![<<h, idx[h]>>] = "PACKAGE_INVALID"]
    /\ IF idx[h] <= NumEntrance
       THEN /\ idx' = [idx EXCEPT ![h] = @ + 1]
            /\ phase' = [phase EXCEPT ![h] = "send"]
       ELSE /\ phase' = [phase EXCEPT ![h] = "done"]
            /\ UNCHANGED idx
    /\ UNCHANGED <<anySent, queued, callbacks, outcome, reported>>

\* add_enc_pkg_handle_for_clr_msg: the map entry is (re)set to INVALID
AddEncPkgHandle(h) ==
    /\ phase[h] = "add"
    /\ tracker' = [tracker EXCEPT ![<<h, idx[h]>>] = "PACKAGE_INVALID"]
    /\ IF idx[h] < NumEntrance
       THEN /\ idx' = [idx EXCEPT ![h] = @ + 1]
            /\ phase' = [phase EXCEPT ![h] = "send"]
       ELSE /\ phase' = [phase EXCEPT ![h] = "done"]
            /\ UNCHANGED idx
    /\ UNCHANGED <<anySent, queued, callbacks, outcome, reported>>

-----------------------------------------------------------------------------
(* The comms plugin: sendPackageDirectLink / sendPackageMulticast report   *)
(* exactly one status per package.                                         *)

\* sendPackage on a queued package: one status st for its handle
CommsReport(p, st) ==
    /\ p \in queued
    /\ outcome[p] = "none"
    /\ outcome' = [outcome EXCEPT ![p] = st]
    /\ callbacks' = callbacks \cup {<<p, st>>}
    /\ UNCHANGED <<phase, idx, anySent, tracker, queued, reported>>

\* either send path ends in PACKAGE_SENT or PACKAGE_FAILED_GENERIC
CommsSendPackage(p) ==
    \E st \in {"PACKAGE_SENT", "PACKAGE_FAILED_GENERIC"} : CommsReport(p, st)

\* sendPackage that never reports: self.connections[conn_id] raises KeyError
\* for an id closed since the SDK queued the package, a receive-only
\* connection returns PLUGIN_ERROR, and requests.post raising in
\* sendPackageMulticast leaves sendPackage, which has no try
CommsNoStatus(p) ==
    /\ SendMayRaise
    /\ p \in queued
    /\ outcome[p] = "none"
    /\ outcome' = [outcome EXCEPT ![p] = "raised"]
    /\ UNCHANGED <<phase, idx, anySent, tracker, queued, callbacks, reported>>

\* processClrMsg is in its send loop for some message
Sending == \E h \in Msgs : phase[h] \in {"send", "add"}

\* update_package_status_for_enc_pkg_handle: the handle's entry, if any
UpdatePackageStatus(t, p, st) ==
    IF t[p] = "absent" THEN t ELSE [t EXCEPT ![p] = st]

\* PluginNMTwoSixClientPy.onPackageStatusChanged: an unknown handle gives
\* (NULL, MS_UNDEF); a status other than MS_UNDEF goes to the host
OnPackageStatusChanged(p, st) ==
    /\ <<p, st>> \in callbacks
    /\ Concurrent \/ ~Sending
    /\ callbacks' = callbacks \ {<<p, st>>}
    /\ tracker' = UpdatePackageStatus(tracker, p, st)
    /\ LET ms == IF tracker[p] = "absent" THEN "MS_UNDEF"
                 ELSE StatusForClrMsg(p[1], tracker')
       IN  reported' = IF ms = "MS_UNDEF" THEN reported
                       ELSE [reported EXCEPT ![p[1]] = Append(@, ms)]
    /\ UNCHANGED <<phase, idx, anySent, queued, outcome>>

-----------------------------------------------------------------------------

Init ==
    /\ phase = [h \in Msgs |-> "idle"]
    /\ idx = [h \in Msgs |-> 1]
    /\ anySent = [h \in Msgs |-> FALSE]
    /\ tracker = [p \in Pkgs |-> "absent"]
    /\ queued = {}
    /\ callbacks = {}
    /\ outcome = [p \in Pkgs |-> "none"]
    /\ reported = [h \in Msgs |-> <<>>]

\* every message handled and every package reported: the plugin waits
Quiescent ==
    /\ \A h \in Msgs : phase[h] \in {"done", "fatal"}
    /\ callbacks = {}
    /\ \A p \in queued : outcome[p] # "none"

Next ==
    \/ \E h \in Msgs : ProcessClrMsg(h) \/ SendToHandle(h) \/ SendToNull(h)
                       \/ AddEncPkgHandle(h)
    \/ \E p \in Pkgs : CommsSendPackage(p) \/ CommsNoStatus(p)
    \/ \E c \in callbacks : OnPackageStatusChanged(c[1], c[2])
    \/ Quiescent /\ UNCHANGED vars

Fairness ==
    /\ \A h \in Msgs : WF_vars(SendToHandle(h) \/ SendToNull(h) \/ AddEncPkgHandle(h))
    /\ \A p \in Pkgs : WF_vars(CommsSendPackage(p) \/ CommsNoStatus(p))
    /\ \A p \in Pkgs, st \in PkgStatus : WF_vars(OnPackageStatusChanged(p, st))

Spec == Init /\ [][Next]_vars /\ Fairness

-----------------------------------------------------------------------------
(* Properties                                                               *)

MsgStatus == {"MS_SENT", "MS_FAILED"}

TypeOK ==
    /\ phase \in [Msgs -> {"idle", "send", "add", "done", "fatal"}]
    /\ idx \in [Msgs -> 1..NumEntrance]
    /\ anySent \in [Msgs -> BOOLEAN]
    /\ tracker \in [Pkgs -> PkgStatus \cup {"absent"}]
    /\ queued \subseteq Pkgs
    /\ callbacks \subseteq Pkgs \X PkgStatus
    /\ outcome \in [Pkgs -> {"none", "PACKAGE_SENT", "PACKAGE_FAILED_GENERIC", "raised"}]
    /\ reported \in [Msgs -> Seq(MsgStatus)]

\* The host is told MS_SENT only when a package of the message was sent,
\* and MS_FAILED only when every package processClrMsg handed to the SDK
\* failed (spec 4.6 / section 7: all failed -> MS_FAILED).  The tracker
\* aggregates over the packages registered so far and over the statuses
\* delivered so far, so this relates its answer to what the comms plugin
\* did for packages it may not know about yet.
ReportsMatchOutcomes ==
    \A h \in Msgs : \A i \in 1..Len(reported[h]) :
        /\ reported[h][i] = "MS_SENT" =>
               \E p \in PkgsOf(h) : outcome[p] = "PACKAGE_SENT"
        /\ reported[h][i] = "MS_FAILED" =>
               \A p \in queued \cap PkgsOf(h) : outcome[p] = "PACKAGE_FAILED_GENERIC"

\* the status the host should end up with for a message processClrMsg sent
FinalStatus(h) ==
    IF \E p \in PkgsOf(h) : outcome[p] = "PACKAGE_SENT" THEN "MS_SENT" ELSE "MS_FAILED"

LastReport(h) == IF reported[h] = <<>> THEN "none" ELSE reported[h][Len(reported[h])]

\* every package of the message is settled, none was sent, and one got no
\* status: its tracker entry stays PACKAGE_INVALID, so the aggregate stays
\* MS_UNDEF for good
Unresolved(h) ==
    /\ \A p \in queued \cap PkgsOf(h) : outcome[p] # "none"
    /\ \A p \in PkgsOf(h) : outcome[p] # "PACKAGE_SENT"
    /\ \E p \in PkgsOf(h) : outcome[p] = "raised"

\* Every message processClrMsg sent on is eventually resolved for the host:
\* its last onMessageStatusChanged is MS_SENT if a package got through, even
\* when another package got no status, and MS_FAILED if every package
\* failed with a status (spec section 7, NoRoute: MS_FAILED once all
\* per-package handles resolve).  The one exception is a message none of
\* whose packages was sent and one of whose sendPackage calls ended without
\* a status: it is never resolved (spec section 7 says errors are returned,
\* never raised across the plugin boundary).
FinalStatusReported ==
    \A h \in Msgs :
        (phase[h] = "done") ~> (LastReport(h) = FinalStatus(h) \/ Unresolved(h))

=============================================================================
