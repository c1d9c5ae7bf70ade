--------------------------- MODULE MCRegEventClients ---------------------------
(* A small instance of RegEventClients for TLC. *)
EXTENDS RegEventClients, TLC

Symmetry == Permutations(Clients) \cup Permutations(Events)
            \cup Permutations(Addresses) \cup Permutations(Listeners)
            \cup Permutations(Devices)

=============================================================================
