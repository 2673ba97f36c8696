---------------------------- MODULE MCNMRouting ----------------------------
(***************************************************************************)
(* A small deployment for NMRouting, in the shape race-python-utils'       *)
(* config generator produces: committee X = {x1, x2} with the one          *)
(* Hamiltonian ring x1 -> x2 -> x1, single-server committees Y = {y1} and  *)
(* Z = {z1} (no rings).  Client a enters at x1 and exits at x2; client b   *)
(* enters and exits at z1.  reachableCommittees keeps, per committee, the  *)
(* first reachable member, in dict order.                                  *)
(***************************************************************************)
EXTENDS NMRouting, Framing

CONSTANTS x1, x2, y1, z1, a, b, X, Y, Z, m1, m2

MCServers == {x1, x2, y1, z1}
MCClients == {a, b}
MCCommittees == {X, Y, Z}

MCCommitteeOf == (x1 :> X) @@ (x2 :> X) @@ (y1 :> Y) @@ (z1 :> Z)

MCRings ==
    (x1 :> <<[next |-> x2, length |-> 2]>>) @@
    (x2 :> <<[next |-> x1, length |-> 2]>>) @@
    (y1 :> <<>>) @@ (z1 :> <<>>)

MCExitClients == (x1 :> {}) @@ (x2 :> {a}) @@ (y1 :> {}) @@ (z1 :> {b})

MCCommitteeClients == (x1 :> {a}) @@ (x2 :> {a}) @@ (y1 :> {}) @@ (z1 :> {b})

MCReachableCommittees ==
    (x1 :> <<<<Y, y1>>>>) @@
    (x2 :> <<<<Z, z1>>, <<Y, y1>>>>) @@
    (y1 :> <<<<X, x1>>, <<Z, z1>>>>) @@
    (z1 :> <<<<Y, y1>>, <<X, x2>>>>)

\* floodingFactor per committee; 0 is FULL_FLOODING
MCFloodingFactor == (x1 :> 1) @@ (x2 :> 1) @@ (y1 :> 1) @@ (z1 :> 0)

MCEntranceCommittee == (a :> <<x1>>) @@ (b :> <<z1>>)

MCMsgs == {m1, m2}
MCMsgFrom == (m1 :> a) @@ (m2 :> b)
MCMsgTo == (m1 :> b) @@ (m2 :> a)


(***************************************************************************)
(* Every package on the wire survives its "~~~" framing as Framing         *)
(* characterizes it, whatever body the application gave it.  A package     *)
(* whose ringTtl is UNSET is a ClrMsg framed by the client (processClrMsg  *)
(* into sendEncryptedPackage); every other one is an ExtClrMsg framed by a *)
(* server forwarding it.  The receiver gets exactly the message sent iff   *)
(* the body neither contains "~~~" nor ends in "~", parseDelimitedExt-     *)
(* Message raises iff it contains "~~~", it never answers None, and what   *)
(* it answers parses to itself when the next server frames it again.      *)
(***************************************************************************)
FramedBodyOutcome ==
    \A p \in Packages :
        FramingOutcomeByHop[IF p.msg.ringTtl = UNSET THEN "client" ELSE "server"]

=============================================================================
