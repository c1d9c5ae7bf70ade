--------------------------- MODULE MCOwnSubscriptions ---------------------------
(* A small instance of OwnSubscriptions for TLC: two chat rooms, one of which *)
(* requires more than the second device offers.                                *)
EXTENDS OwnSubscriptions, TLC

CONSTANTS r1, r2, d1, d2

MCRooms == {r1, r2}
MCDevices == {d1, d2}
MCCapabilitiesOf == (r1 :> {"Conference"}) @@ (r2 :> {"Conference", "Encrypted"})
MCSpecsOf == (d1 :> {"groupchat", "lime"}) @@ (d2 :> {"groupchat"})

=============================================================================
