--------------------------- MODULE MCConnections ---------------------------
(* Connections on small instances.                                         *)
EXTENDS Connections, TLC

MCUuids == {<<"OfflinePlayer", n>> : n \in Names}
MCOfflineUuid == [n \in Names |-> <<"OfflinePlayer", n>>]

\* Tasks are interchangeable, and so are names with their uuids.
Interchangeable == Permutations(Conns) \cup Permutations(Names)
=============================================================================
