------------------------------ MODULE Admission ------------------------------
(***************************************************************************)
(* What the login path of rukkit-server promises, whatever the tasks do:   *)
(* at any time at most MaxPlayers connections are playing, each under a    *)
(* name of its own.  A connection takes a name when there is room and      *)
(* nobody has that name, and gives it up again; nothing else ever happens  *)
(* to it, in particular no join changes or ends the session of another.    *)
(***************************************************************************)
EXTENDS Naturals, FiniteSets

CONSTANTS Conns, Names, MaxPlayers, None

VARIABLE session   \* session[c]: the name connection c plays under, or None

Playing == {c \in Conns : session[c] # None}

Join(c, n) ==
    /\ session[c] = None
    /\ Cardinality(Playing) < MaxPlayers
    /\ \A d \in Playing : session[d] # n
    /\ session' = [session EXCEPT ![c] = n]

Leave(c) ==
    /\ c \in Playing
    /\ session' = [session EXCEPT ![c] = None]

Init == session = [c \in Conns |-> None]

Next == \E c \in Conns : Leave(c) \/ \E n \in Names : Join(c, n)

Spec == Init /\ [][Next]_session
=============================================================================
