----------------------------- MODULE MCLoginWire -----------------------------
(* LoginWire on small instances.                                           *)
EXTENDS LoginWire, TLC

MCUuids == {<<"OfflinePlayer", n>> : n \in Names}
MCOfflineUuid == [n \in Names |-> <<"OfflinePlayer", n>>]

Interchangeable == Permutations(Conns)
=============================================================================
