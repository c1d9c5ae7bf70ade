------------------------------ MODULE Capabilities ------------------------------
(***************************************************************************)
(* The filter between what a participant registers and what a chat room is  *)
(* given: a device whose specs do not cover the capabilities of the chat     *)
(* room is left out, when the server checks capabilities at all.             *)
(* A bit mask is the set of its capabilities.                                *)
(***************************************************************************)

CONSTANTS
    Rooms,               \* the chat rooms
    Devices,             \* the devices (contacts) participants register
    mCheckCapabilities,  \* conference-server/check-capabilities
    CapabilitiesOf,      \* chat room -> the capabilities it requires
    SpecsOf              \* device -> the specs its contact advertises

Specs == {"groupchat", "lime", "ephemeral"}

MaskFromSpecs(specs) ==
    {cap \in {"Conference", "Encrypted", "Ephemeral"} :
        \/ cap = "Conference" /\ "groupchat" \in specs
        \/ cap = "Encrypted" /\ "lime" \in specs
        \/ cap = "Ephemeral" /\ "ephemeral" \in specs}

IsContactCompatible(room, device) ==
    mCheckCapabilities =>
        CapabilitiesOf[room] \subseteq {"OneToOne"} \cup MaskFromSpecs(SpecsOf[device])

\* The devices of a list the chat room is given.
Compatible(room, devices) == {d \in devices : IsContactCompatible(room, d)}

=============================================================================
