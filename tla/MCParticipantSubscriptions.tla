----------------------- MODULE MCParticipantSubscriptions -----------------------
(* Small instances of ParticipantSubscriptions for TLC.  x1 and x2 are two    *)
(* URIs of one external participant, y another one; o and p are local, p with *)
(* an AOR that is no SIP URI.  x1 and x2 can be exchanged, and the chat rooms  *)
(* when they have the same capabilities.                                       *)
EXTENDS ParticipantSubscriptions, TLC

CONSTANTS r1, r2, d1, d2, x1, x2, y, o, p, kx, ky, ko, kp

MCKeyOf == [a \in Addresses |->
              CASE a \in {x1, x2} -> kx
                [] a = y -> ky
                [] a = o -> ko
                [] a = p -> kp]
MCSameCapabilities == [r \in Rooms |-> {"Conference"}]
MCCapabilitiesOf == [r \in Rooms |-> IF r = r1 THEN {"Conference"} ELSE {"Conference", "Encrypted"}]
MCSpecsOf == [d \in Devices |-> IF d = d1 THEN {"groupchat", "lime"} ELSE {"groupchat"}]

Symmetry == Permutations(Clients) \cup Permutations(Events) \cup Permutations(Objects)
            \cup Permutations({x1, x2})
RoomSymmetry == Symmetry \cup Permutations(Rooms)

=============================================================================
