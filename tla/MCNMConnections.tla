--------------------------- MODULE MCNMConnections ---------------------------
(***************************************************************************)
(* A node with two peers and two channels.  p1 is reached by send links    *)
(* l1 (ch1, ranked first) and l2 (ch2); l3 is a receive link from p2 on    *)
(* ch1 and l4 a send link to p2 on ch2.  Every link is a genesis link.     *)
(* p2 expects two links, so the LinkWizard has work to do for it.  A      *)
(* third channel to use, ch3, has no link profiles.                        *)
(***************************************************************************)
EXTENDS NMConnections, TLC

CONSTANTS p1, p2, ch1, ch2, ch3, l1, l2, l3, l4

MCPeers == {p1, p2}
MCPeerOrder == <<p1, p2>>
MCLinks == {l1, l2, l3, l4}
MCChannelOf == (l1 :> ch1) @@ (l2 :> ch2) @@ (l3 :> ch1) @@ (l4 :> ch2)
MCPersonaOf == (l1 :> p1) @@ (l2 :> p1) @@ (l3 :> p2) @@ (l4 :> p2)
MCLinkTypeOf == (l1 :> "LT_SEND") @@ (l2 :> "LT_SEND") @@ (l3 :> "LT_RECV")
                @@ (l4 :> "LT_SEND")
MCRank == (l1 :> 1) @@ (l2 :> 2) @@ (l3 :> 1) @@ (l4 :> 1)
MCExpectedLinks == (p1 :> 2) @@ (p2 :> 2)

\* ch1 and ch2 carry the genesis links; ch3 has no link profiles
MCChannels == {ch1, ch2, ch3}

=============================================================================
