------------------------- MODULE MCCommsConnections -------------------------
(* A comms plugin whose SDK can make one direct (TCP) link and one         *)
(* whiteboard link.                                                         *)
EXTENDS CommsConnections

CONSTANTS ld, lm

MCLinks == {ld, lm}
MCLinkChannel == [l \in MCLinks |-> IF l = ld THEN Direct ELSE Indirect]
MCMultiAddressable == [ch \in Channels |-> ch = Indirect]

=============================================================================
