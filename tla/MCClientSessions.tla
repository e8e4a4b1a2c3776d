-------------------------- MODULE MCClientSessions --------------------------
(* Instances of ClientSessions for TLC.                                    *)
EXTENDS ClientSessions, TLC

AlwaysShared == {"always"}
NeverShared  == {"never"}
ClientsChoose == {"client"}

Symmetry == Permutations(Clients)
=============================================================================
