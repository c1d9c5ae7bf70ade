---------------------------- MODULE MCServerBindings ----------------------------
(* A small instance of ServerBindings for TLC: a factory, two foci, and a      *)
(* chat room whose address has the instance of an earlier server.              *)
EXTENDS ServerBindings, TLC

CONSTANTS old, g1

MCGruuOf == [r \in ChatRooms |-> g1]

=============================================================================
