--------------------------- MODULE LoginWire_proofs ---------------------------
(***************************************************************************)
(* The connection tasks, for any number of sockets and names and any       *)
(* configuration; then the same tasks behind their sockets, with any amount*)
(* of chatter.                                                             *)
(*                                                                         *)
(* SlotOwnership is not inductive by itself: that a join really has a name *)
(* to insert rests on what Hello stored (Named), and Capacity counts tasks *)
(* while try_insert counts map entries (SlotsCounted relates the two).     *)
(* With the two streams and the clients around them the tasks are still    *)
(* those of Connections (TasksOnTheWire), so that what is proved in the    *)
(* first part holds in the second.  FramingAgrees and StatesAgree follow   *)
(* from what is in flight on each stream and how far the two ends can be   *)
(* apart.                                                                  *)
(***************************************************************************)
EXTENDS LoginWire, FiniteSetTheorems, SequenceTheorems, TLAPS

-----------------------------------------------------------------------------
(* The tasks.                                                              *)

Holders == {c \in Conns : Holds(c)}

\* From Hello to the end of configuration a task has a name.
Named ==
    \A c \in Conns :
        pc[c] \in {"setCompression", "loginFinished", "ack"} => name[c] \in Names

\* As many map entries as tasks that hold a slot, and never too many.
SlotsCounted ==
    /\ IsFiniteSet(Holders)
    /\ IsFiniteSet(DOMAIN players)
    /\ Cardinality(DOMAIN players) = Cardinality(Holders)
    /\ Cardinality(DOMAIN players) <= MaxPlayers

\* What a request has read is there when it is used, and the cached document
\* belongs to the key it is cached under.
KeysRead ==
    /\ \A c \in Conns :
          pc[c] \in {"sample", "peek", "rebuild", "statusReply"} => key[c] \in Keys
    /\ cached # None =>
          cached.json = Build([online |-> cached.online, sample |-> cached.sample])

IInv ==
    /\ TypeOK
    /\ Named
    /\ SlotOwnership
    /\ SlotsCounted
    /\ KeysRead
    /\ ServedMatchesAsked

-----------------------------------------------------------------------------
(* Operators.                                                              *)

\* A document built from a well-formed key is a document.
LEMMA BuildType == ASSUME NEW k \in Keys PROVE Build(k) \in Documents
<1>1. k.sample \in Seq(Names) /\ k.online \in 0 .. MaxPlayers
  BY DEF Keys
<1>. DEFINE cut == IF Len(k.sample) < SampleLimit THEN Len(k.sample) ELSE SampleLimit
<1>2. Len(k.sample) \in Nat
  BY <1>1, LenProperties
<1>3. cut \in 0 .. Len(k.sample)
  BY <1>2, ConnectionsAssumption
<1>4. SubSeq(k.sample, 1, cut) \in Seq(Names)
  BY <1>1, <1>3, SubSeqProperties
<1>. QED
  BY <1>1, <1>4 DEF Build, Documents

\* A document depends on the two fields of its key and on nothing else.
LEMMA BuildFields ==
  ASSUME NEW k, NEW l, k.online = l.online, k.sample = l.sample
  PROVE  Build(k) = Build(l)
BY DEF Build

\* A sample of the registry's names is a sequence of names.
LEMMA SampleType ==
  ASSUME TypeOK, IsFiniteSet(DOMAIN players), NEW s \in SampleNames(players)
  PROVE  s \in Seq(Names)
<1>1. Count(players) \in Nat
  BY FS_CardinalityType DEF Count
<1>2. PICK n \in Nat : s \in [1..n -> {players[u].name : u \in DOMAIN players}]
  BY <1>1, ConnectionsAssumption DEF SampleNames
<1>3. {players[u].name : u \in DOMAIN players} \subseteq Names
  BY DEF TypeOK, Players
<1>4. s \in [1..n -> Names]
  BY <1>2, <1>3
<1>. QED
  BY <1>4, IsASeq

\* try_insert answers Ok only with room left and the name not in the registry.
LEMMA JoinOk ==
  ASSUME NEW n, IsFiniteSet(DOMAIN players), JoinOutcome(players, n) = "Ok"
  PROVE  Cardinality(DOMAIN players) < MaxPlayers /\ ~NameTaken(players, n)
<1>1. Count(players) \in Nat
  BY FS_CardinalityType DEF Count
<1>. QED
  BY <1>1, ConnectionsAssumption DEF JoinOutcome, Count

-----------------------------------------------------------------------------
(* Initial states.                                                         *)

LEMMA InitInv == Init => IInv
<1>. SUFFICES ASSUME Init PROVE IInv
  OBVIOUS
<1>1. DOMAIN players = {}
  BY DEF Init
<1>2. Holders = {}
  BY DEF Init, Holders, Holds, Admitted
<1>3. TypeOK
  BY <1>1, ConnectionsAssumption DEF Init, TypeOK, Pcs
<1>4. Named /\ SlotOwnership /\ KeysRead /\ ServedMatchesAsked
  BY <1>1 DEF Init, Named, SlotOwnership, KeysRead, ServedMatchesAsked, Holds, Admitted
<1>5. SlotsCounted
  BY <1>1, <1>2, FS_EmptySet, ConnectionsAssumption DEF SlotsCounted
<1>. QED
  BY <1>3, <1>4, <1>5 DEF IInv

-----------------------------------------------------------------------------
(* Steps.                                                                  *)

\* A step that leaves the registry, the holders and their names as they are
\* keeps the relation between them.
LEMMA Untouched ==
  ASSUME IInv, players' = players,
         \A c \in Conns : Holds(c)' <=> Holds(c),
         \A c \in Conns : Holds(c) => name'[c] = name[c]
  PROVE  SlotOwnership' /\ SlotsCounted'
<1>1. Holders' = Holders
  BY DEF Holders
<1>2. SlotsCounted'
  BY <1>1 DEF IInv, SlotsCounted
<1>3. \A u \in DOMAIN players : players[u].addr \in Conns
  BY DEF IInv, TypeOK, Players
<1>4. SlotOwnership'
  BY <1>3 DEF IInv, SlotOwnership
<1>. QED
  BY <1>2, <1>4

\* A task may go anywhere outside a status request, as long as it does not
\* enter or leave the admitted part and has a name where it needs one.
LEMMA Moved ==
  ASSUME IInv, NEW c \in Conns, NEW where \in Pcs, Goto(c, where),
         where \notin {"sample", "peek", "rebuild", "statusReply"},
         where \in Admitted <=> Holds(c),
         where \in {"setCompression", "loginFinished", "ack"} => name[c] \in Names,
         zip' \in [Conns -> BOOLEAN], unread' \in [Conns -> 0 .. SendCap],
         UNCHANGED <<name, quiet, players, status>>
  PROVE  IInv'
<1>1. /\ pc' \in [Conns -> Pcs]
      /\ pc'[c] = where
      /\ \A d \in Conns \ {c} : pc'[d] = pc[d]
  BY DEF Goto, IInv, TypeOK
<1>2. TypeOK'
  BY <1>1 DEF IInv, TypeOK, status
<1>3. Named'
  BY <1>1 DEF IInv, Named
<1>4. SlotOwnership' /\ SlotsCounted'
  <2>1. \A d \in Conns : Holds(d)' <=> Holds(d)
    BY <1>1 DEF Holds
  <2>. QED
    BY <2>1, Untouched
<1>5. KeysRead' /\ ServedMatchesAsked'
  BY <1>1 DEF IInv, KeysRead, ServedMatchesAsked, Build, status
<1>. QED
  BY <1>2, <1>3, <1>4, <1>5 DEF IInv

\* Handshake, status and configuration packets only move the task.
LEMMA PacketsKeep ==
  ASSUME IInv, NEW c \in Conns,
         Accept(c) \/ Intention(c) \/ StatusRequest(c) \/ PingRequest(c)
           \/ SelectKnownPacks(c) \/ FinishConfigurationAck(c)
  PROVE  IInv'
<1>. USE DEF Pcs, Reading, Sending, LastWords, Admitted, Holds, Awaits
<1>t. zip \in [Conns -> BOOLEAN] /\ unread \in [Conns -> 0 .. SendCap]
  BY DEF IInv, TypeOK
<1>1. CASE Accept(c)
  BY <1>1, <1>t, Moved DEF Accept
<1>2. CASE Intention(c)
  BY <1>2, <1>t, Moved DEF Intention
<1>3. CASE StatusRequest(c)
  BY <1>3, <1>t, Moved DEF StatusRequest
<1>4. CASE PingRequest(c)
  BY <1>4, <1>t, Moved DEF PingRequest
<1>5. CASE SelectKnownPacks(c)
  BY <1>5, <1>t, Moved DEF SelectKnownPacks
<1>6. CASE FinishConfigurationAck(c)
  BY <1>6, <1>t, Moved DEF FinishConfigurationAck
<1>. QED
  BY <1>1, <1>2, <1>3, <1>4, <1>5, <1>6

\* A write moves the task along and an error moves it out, but neither takes
\* it across the borders of the admitted part.
LEMMA SendsAndFaultsKeep ==
  ASSUME IInv, NEW c \in Conns, Send(c) \/ Fault(c)
  PROVE  IInv'
<1>. USE DEF Pcs, Reading, Sending, LastWords, Admitted, Holds
<1>t. zip \in [Conns -> BOOLEAN] /\ unread \in [Conns -> 0 .. SendCap]
  BY DEF IInv, TypeOK
<1>1. CASE Send(c)
  <2>1. zip' \in [Conns -> BOOLEAN] /\ unread' \in [Conns -> 0 .. SendCap]
    BY <1>1, <1>t, ConnectionsAssumption DEF Send
  <2>2. Goto(c, AfterSend(pc[c])) /\ pc[c] \in Sending
    BY <1>1 DEF Send
  <2>3. /\ AfterSend(pc[c]) \in {"status", "loginFinished", "ack", "knownPacks",
                                "config", "leave", "closing"}
        /\ AfterSend(pc[c]) \in Admitted <=> pc[c] \in Admitted
        /\ AfterSend(pc[c]) \in {"loginFinished", "ack"}
              => pc[c] \in {"setCompression", "loginFinished"}
    BY <2>2 DEF AfterSend
  <2>4. AfterSend(pc[c]) \in {"setCompression", "loginFinished", "ack"} => name[c] \in Names
    BY <2>3 DEF IInv, Named
  <2>5. /\ AfterSend(pc[c]) \in Pcs
        /\ AfterSend(pc[c]) \notin {"sample", "peek", "rebuild", "statusReply"}
        /\ AfterSend(pc[c]) \in Admitted <=> Holds(c)
    BY <2>3
  <2>6. UNCHANGED <<name, quiet, players, status>>
    BY <1>1 DEF Send
  <2>. HIDE DEF Pcs, Reading, Sending, LastWords, Admitted, Holds
  <2>. QED
    BY <2>1, <2>2, <2>4, <2>5, <2>6, Moved
<1>2. CASE Fault(c)
  <2>1. Goto(c, Exit(c)) /\ UNCHANGED <<name, zip, unread, quiet, players, status>>
    BY <1>2 DEF Fault, SendFails, ReadFails, TimeOut
  <2>. QED
    BY <1>t, <2>1, Moved DEF Exit
<1>. QED
  BY <1>1, <1>2

\* The peer reading, or going silent, touches no state of the server.
LEMMA PeerKeeps ==
  ASSUME IInv, NEW c \in Conns, Peer(c)
  PROVE  IInv'
<1>1. /\ UNCHANGED <<pc, name, zip, players, status>>
      /\ unread' \in [Conns -> 0 .. SendCap]
      /\ quiet' \in [Conns -> BOOLEAN]
  BY DEF IInv, TypeOK, Peer, ClientReads, GoQuiet
<1>2. TypeOK' /\ Named'
  BY <1>1 DEF IInv, TypeOK, Named, status
<1>3. SlotOwnership' /\ SlotsCounted'
  BY <1>1, Untouched DEF Holds
<1>4. KeysRead' /\ ServedMatchesAsked'
  BY <1>1 DEF IInv, KeysRead, ServedMatchesAsked, Build, status
<1>. QED
  BY <1>2, <1>3, <1>4 DEF IInv

\* Hello gives a task its name; Close takes everything from a task that holds
\* no slot any more.
LEMMA HelloCloseKeep ==
  ASSUME IInv, NEW c \in Conns, Hello(c) \/ Close(c)
  PROVE  IInv'
<1>1. /\ ~Holds(c) /\ ~Holds(c)'
      /\ pc' \in [Conns -> Pcs]
      /\ \A d \in Conns \ {c} : pc'[d] = pc[d] /\ name'[d] = name[d]
  BY DEF Hello, Close, Awaits, Goto, Holds, Admitted, IInv, TypeOK, Pcs, Reading,
         Sending, LastWords
<1>2. TypeOK'
  <2>1. TypeOK
    BY DEF IInv
  <2>2. CASE Hello(c)
    BY <1>1, <2>1, <2>2 DEF Hello, TypeOK, status
  <2>3. CASE Close(c)
    <3>1. 0 \in 0 .. SendCap
      BY ConnectionsAssumption
    <3>2. UNCHANGED <<players, cached, rebuilds>>
      BY <2>3 DEF Close
    <3>3. /\ name' \in [Conns -> Names \cup {None}]
          /\ zip' \in [Conns -> BOOLEAN]
          /\ unread' \in [Conns -> 0 .. SendCap]
          /\ quiet' \in [Conns -> BOOLEAN]
          /\ key' \in [Conns -> Keys \cup {None}]
          /\ doc' \in [Conns -> Documents \cup {None}]
      BY <2>1, <2>3, <3>1 DEF Close, TypeOK
    <3>. QED
      BY <1>1, <2>1, <3>2, <3>3 DEF TypeOK
  <2>. QED
    BY <2>2, <2>3
<1>3. Named'
  BY <1>1 DEF Hello, Close, Goto, IInv, TypeOK, Named
<1>4. SlotOwnership' /\ SlotsCounted'
  <2>1. \A d \in Conns : Holds(d)' <=> Holds(d)
    BY <1>1 DEF Holds
  <2>2. players' = players
    BY DEF Hello, Close
  <2>. QED
    BY <1>1, <2>1, <2>2, Untouched
<1>5. KeysRead' /\ ServedMatchesAsked'
  <2>. DEFINE Serving == {"sample", "peek", "rebuild", "statusReply"}
  <2>1. KeysRead /\ ServedMatchesAsked
    BY DEF IInv
  <2>2. pc'[c] \notin Serving /\ cached' = cached
    BY DEF Hello, Close, Goto, IInv, TypeOK, status
  <2>3. \A d \in Conns \ {c} : pc'[d] = pc[d] /\ key'[d] = key[d] /\ doc'[d] = doc[d]
    <3>1. CASE Hello(c)
      BY <1>1, <3>1 DEF Hello, status
    <3>2. CASE Close(c)
      BY <1>1, <3>2 DEF Close, IInv, TypeOK
    <3>. QED
      BY <3>1, <3>2
  <2>4. \A d \in Conns : pc'[d] \in Serving =>
           pc'[d] = pc[d] /\ key'[d] = key[d] /\ doc'[d] = doc[d]
    BY <2>2, <2>3
  <2>. HIDE DEF Serving
  <2>5. KeysRead'
    BY <2>1, <2>2, <2>4 DEF KeysRead, Build, Serving
  <2>6. ServedMatchesAsked'
    BY <2>1, <2>4 DEF ServedMatchesAsked, Build, Serving
  <2>. QED
    BY <2>5, <2>6
<1>. QED
  BY <1>2, <1>3, <1>4, <1>5 DEF IInv

\* The four steps of a status request: what is read is a key, and what is
\* served is the document of that key.
LEMMA StatusKeeps ==
  ASSUME IInv, NEW c \in Conns,
         CountPlayers(c) \/ SamplePlayers(c) \/ PeekStatus(c) \/ RebuildStatus(c)
  PROVE  IInv'
<1>. DEFINE Serving == {"sample", "peek", "rebuild", "statusReply"}
<1>1. /\ ~Holds(c) /\ ~Holds(c)'
      /\ pc' \in [Conns -> Pcs]
      /\ pc'[c] \in Serving
      /\ \A d \in Conns \ {c} : pc'[d] = pc[d]
      /\ UNCHANGED <<name, zip, unread, quiet, players>>
  BY DEF CountPlayers, SamplePlayers, PeekStatus, RebuildStatus, Goto, Holds, Admitted,
         IInv, TypeOK, Pcs, Reading, Sending, LastWords
<1>2. Named'
  BY <1>1 DEF IInv, Named
<1>3. SlotOwnership' /\ SlotsCounted'
  <2>1. \A d \in Conns : Holds(d)' <=> Holds(d)
    BY <1>1 DEF Holds
  <2>. QED
    BY <1>1, <2>1, Untouched
<1>4. /\ key' \in [Conns -> Keys \cup {None}]
      /\ key'[c] \in Keys
      /\ \A d \in Conns \ {c} : key'[d] = key[d]
  <2>1. CASE CountPlayers(c)
    <3>1. Count(players) \in 0 .. MaxPlayers
      BY FS_CardinalityType, ConnectionsAssumption DEF IInv, SlotsCounted, Count
    <3>2. [online |-> Count(players), sample |-> <<>>] \in Keys
      BY <3>1, EmptySeq DEF Keys
    <3>. QED
      BY <2>1, <3>2 DEF CountPlayers, IInv, TypeOK
  <2>2. CASE SamplePlayers(c)
    <3>1. PICK s \in SampleNames(players) : key' = [key EXCEPT ![c].sample = s]
      BY <2>2 DEF SamplePlayers
    <3>2. s \in Seq(Names)
      BY SampleType DEF IInv, SlotsCounted
    <3>3. key[c] \in Keys
      BY <2>2 DEF SamplePlayers, IInv, KeysRead
    <3>4. [key[c] EXCEPT !.sample = s] \in Keys
      BY <3>2, <3>3 DEF Keys
    <3>. QED
      BY <3>1, <3>4 DEF IInv, TypeOK
  <2>3. CASE PeekStatus(c) \/ RebuildStatus(c)
    BY <2>3 DEF PeekStatus, RebuildStatus, IInv, TypeOK, KeysRead
  <2>. QED
    BY <2>1, <2>2, <2>3
<1>5. /\ doc' \in [Conns -> Documents \cup {None}]
      /\ cached' \in CacheEntries \cup {None}
      /\ cached' # None =>
            cached'.json = Build([online |-> cached'.online, sample |-> cached'.sample])
      /\ rebuilds' \in 0 .. CounterMod - 1
      /\ pc'[c] = "statusReply" => doc'[c] = Build(key'[c])
      /\ \A d \in Conns \ {c} : doc'[d] = doc[d]
  <2>t. /\ doc \in [Conns -> Documents \cup {None}]
        /\ cached \in CacheEntries \cup {None}
        /\ rebuilds \in 0 .. CounterMod - 1
        /\ pc \in [Conns -> Pcs]
        /\ cached # None =>
              cached.json = Build([online |-> cached.online, sample |-> cached.sample])
    BY DEF IInv, TypeOK, KeysRead
  <2>1. CASE CountPlayers(c) \/ SamplePlayers(c)
    BY <2>1, <2>t DEF CountPlayers, SamplePlayers, Goto
  <2>2. CASE PeekStatus(c) /\ ~CacheHit(key[c])
    BY <2>2, <2>t DEF PeekStatus, Goto
  <2>3. CASE (PeekStatus(c) \/ RebuildStatus(c)) /\ CacheHit(key[c])
    <3>1. cached.json = Build(key[c]) /\ cached \in CacheEntries
      BY <2>3, <2>t, BuildFields DEF CacheHit
    <3>2. doc' = [doc EXCEPT ![c] = cached.json] /\ UNCHANGED <<key, cached, rebuilds>>
      BY <2>3 DEF PeekStatus, RebuildStatus
    <3>3. cached.json \in Documents
      BY <3>1 DEF CacheEntries
    <3>. QED
      BY <2>t, <3>1, <3>2, <3>3
  <2>4. CASE RebuildStatus(c) /\ ~CacheHit(key[c])
    <3>1. key[c] \in Keys /\ UNCHANGED key
      BY <2>4 DEF RebuildStatus, IInv, KeysRead
    <3>2. Build(key[c]) \in Documents
      BY <3>1, BuildType
    <3>3. /\ doc' = [doc EXCEPT ![c] = Build(key[c])]
          /\ cached' = [online |-> key[c].online, sample |-> key[c].sample,
                        json |-> Build(key[c])]
          /\ rebuilds' = (rebuilds + 1) % CounterMod
      BY <2>4 DEF RebuildStatus
    <3>4. cached' \in CacheEntries
      BY <3>1, <3>2, <3>3 DEF Keys, CacheEntries
    <3>5. cached'.json = Build([online |-> cached'.online, sample |-> cached'.sample])
      BY <3>3, BuildFields
    <3>6. rebuilds' \in 0 .. CounterMod - 1
      BY <2>t, <3>3, ConnectionsAssumption
    <3>. QED
      BY <2>t, <3>1, <3>2, <3>3, <3>4, <3>5, <3>6
  <2>. QED
    BY <2>1, <2>2, <2>3, <2>4
<1>6. TypeOK'
  BY <1>1, <1>4, <1>5 DEF IInv, TypeOK
<1>7. KeysRead' /\ ServedMatchesAsked'
  BY <1>1, <1>4, <1>5, ZenonT(40) DEF IInv, KeysRead, ServedMatchesAsked, Build
<1>. QED
  BY <1>2, <1>3, <1>6, <1>7 DEF IInv

\* try_insert: an Ok adds exactly one entry, the task's own, under a uuid that
\* was not there, because two names do not share a uuid.
LEMMA JoinKeeps ==
  ASSUME IInv, NEW c \in Conns, LoginAcknowledged(c)
  PROVE  IInv'
<1>1. pc[c] = "ack" /\ ~Holds(c) /\ name[c] \in Names /\ pc \in [Conns -> Pcs]
  BY DEF LoginAcknowledged, Awaits, Holds, Admitted, IInv, Named, TypeOK
<1>t. zip \in [Conns -> BOOLEAN] /\ unread \in [Conns -> 0 .. SendCap]
  BY DEF IInv, TypeOK
<1>2. CASE JoinOutcome(players, name[c]) # "Ok"
  <2>1. Goto(c, "joinRefuse") /\ UNCHANGED <<name, zip, unread, quiet, players, status>>
    BY <1>2 DEF LoginAcknowledged
  <2>2. "joinRefuse" \in Pcs /\ ("joinRefuse" \in Admitted <=> Holds(c))
    BY <1>1 DEF Pcs, Sending, LastWords, Admitted
  <2>. QED
    BY <1>t, <2>1, <2>2, Moved
<1>3. CASE JoinOutcome(players, name[c]) = "Ok"
  <2>. DEFINE u == OfflineUuid[name[c]]
  <2>1. /\ Goto(c, "brand")
        /\ players' = Inserted(players, name[c], c)
        /\ UNCHANGED <<name, zip, unread, quiet, status>>
    BY <1>3 DEF LoginAcknowledged
  <2>2. /\ pc' \in [Conns -> Pcs]
        /\ pc'[c] = "brand"
        /\ \A d \in Conns \ {c} : pc'[d] = pc[d]
    BY <1>1, <2>1 DEF Goto, Pcs, Sending
  <2>3. Cardinality(DOMAIN players) < MaxPlayers /\ ~NameTaken(players, name[c])
    BY <1>3, JoinOk DEF IInv, SlotsCounted
  <2>4. u \in Uuids /\ u \notin DOMAIN players
    BY <1>1, <2>3, ConnectionsAssumption DEF NameTaken, IInv, SlotOwnership, TypeOK, Players
  <2>5. /\ DOMAIN players' = DOMAIN players \cup {u}
        /\ players'[u] = [name |-> name[c], addr |-> c]
        /\ \A v \in DOMAIN players : players'[v] = players[v]
    BY <2>1, <2>4 DEF Inserted
  <2>6. Holds(c)' /\ \A d \in Conns \ {c} : Holds(d)' <=> Holds(d)
    BY <2>2 DEF Holds, Admitted
  <2>7. TypeOK'
    <3>1. players' \in [DOMAIN players' -> Players]
      BY <1>1, <2>1, <2>5 DEF IInv, TypeOK, Players, Inserted
    <3>. QED
      BY <2>1, <2>2, <2>4, <2>5, <3>1 DEF IInv, TypeOK, status
  <2>8. Named'
    BY <2>1, <2>2 DEF IInv, Named
  <2>9. SlotOwnership'
    <3>1. \A v \in DOMAIN players : players[v].addr \in Conns \ {c}
      BY <1>1 DEF IInv, SlotOwnership, TypeOK, Players
    <3>2. \A d \in Conns : Holds(d)' =>
            /\ name'[d] \in Names
            /\ OfflineUuid[name'[d]] \in DOMAIN players'
            /\ players'[OfflineUuid[name'[d]]] = [name |-> name'[d], addr |-> d]
      BY <1>1, <2>1, <2>5, <2>6 DEF IInv, SlotOwnership
    <3>3. \A v \in DOMAIN players' :
            /\ pc'[players'[v].addr] \in Admitted
            /\ name'[players'[v].addr] = players'[v].name
            /\ OfflineUuid[players'[v].name] = v
      BY <2>1, <2>2, <2>5, <3>1 DEF IInv, SlotOwnership, Holds, Admitted
    <3>. QED
      BY <3>2, <3>3 DEF SlotOwnership, Holds
  <2>10. SlotsCounted'
    <3>1. Holders' = Holders \cup {c} /\ c \notin Holders
      BY <1>1, <2>6 DEF Holders
    <3>2. /\ IsFiniteSet(Holders') /\ Cardinality(Holders') = Cardinality(Holders) + 1
          /\ IsFiniteSet(DOMAIN players')
          /\ Cardinality(DOMAIN players') = Cardinality(DOMAIN players) + 1
      BY <2>4, <2>5, <3>1, FS_AddElement DEF IInv, SlotsCounted
    <3>3. Cardinality(DOMAIN players) \in Nat
      BY FS_CardinalityType DEF IInv, SlotsCounted
    <3>. QED
      BY <2>3, <3>2, <3>3, ConnectionsAssumption DEF IInv, SlotsCounted
  <2>11. KeysRead' /\ ServedMatchesAsked'
    BY <2>1, <2>2 DEF IInv, KeysRead, ServedMatchesAsked, Build, status
  <2>. QED
    BY <2>7, <2>8, <2>9, <2>10, <2>11 DEF IInv
<1>. QED
  BY <1>2, <1>3

\* players.remove takes out the entry of the task that leaves and no other.
LEMMA LeaveKeeps ==
  ASSUME IInv, NEW c \in Conns, Leave(c)
  PROVE  IInv'
<1>. DEFINE u == OfflineUuid[name[c]]
<1>1. /\ Holds(c) /\ pc \in [Conns -> Pcs]
      /\ u \in DOMAIN players
      /\ players[u] = [name |-> name[c], addr |-> c]
      /\ players' = Removed(players, u)
      /\ UNCHANGED <<name, zip, unread, quiet, status>>
  BY DEF Leave, Holds, Admitted, IInv, SlotOwnership, TypeOK
<1>2. /\ pc' \in [Conns -> Pcs]
      /\ pc'[c] = "closing"
      /\ \A d \in Conns \ {c} : pc'[d] = pc[d]
  BY <1>1 DEF Leave, Goto, Pcs
<1>3. ~Holds(c)' /\ \A d \in Conns \ {c} : Holds(d)' <=> Holds(d)
  BY <1>2 DEF Holds, Admitted
<1>4. /\ DOMAIN players' = DOMAIN players \ {u}
      /\ \A v \in DOMAIN players' : players'[v] = players[v]
  BY <1>1 DEF Removed
<1>5. TypeOK'
  <2>1. players' \in [DOMAIN players' -> Players]
    BY <1>1, <1>4 DEF IInv, TypeOK, Removed
  <2>. QED
    BY <1>1, <1>2, <1>4, <2>1 DEF IInv, TypeOK, status
<1>6. Named'
  BY <1>1, <1>2 DEF IInv, Named
<1>7. SlotOwnership'
  <2>1. \A v \in DOMAIN players' : players[v].addr \in Conns \ {c}
    BY <1>1, <1>4 DEF IInv, SlotOwnership, TypeOK, Players
  <2>2. \A d \in Conns \ {c} : Holds(d) => OfflineUuid[name[d]] # u
    <3>1. \A d \in Conns : Holds(d) => players[OfflineUuid[name[d]]].addr = d
      <4>. SUFFICES ASSUME NEW d \in Conns, Holds(d)
                    PROVE  players[OfflineUuid[name[d]]].addr = d
        OBVIOUS
      <4>1. players[OfflineUuid[name[d]]] = [name |-> name[d], addr |-> d]
        BY DEF IInv, SlotOwnership
      <4>. QED
        BY <4>1
    <3>. QED
      BY <1>1, <3>1
  <2>3. \A d \in Conns : Holds(d)' =>
          /\ name'[d] \in Names
          /\ OfflineUuid[name'[d]] \in DOMAIN players'
          /\ players'[OfflineUuid[name'[d]]] = [name |-> name'[d], addr |-> d]
    BY <1>1, <1>3, <1>4, <2>2 DEF IInv, SlotOwnership
  <2>4. \A v \in DOMAIN players' :
          /\ pc'[players'[v].addr] \in Admitted
          /\ name'[players'[v].addr] = players'[v].name
          /\ OfflineUuid[players'[v].name] = v
    BY <1>1, <1>2, <1>4, <2>1 DEF IInv, SlotOwnership, Holds
  <2>. QED
    BY <2>3, <2>4 DEF SlotOwnership, Holds
<1>8. SlotsCounted'
  <2>1. Holders' = Holders \ {c} /\ c \in Holders
    BY <1>1, <1>3 DEF Holders
  <2>2. /\ IsFiniteSet(Holders') /\ Cardinality(Holders') = Cardinality(Holders) - 1
        /\ IsFiniteSet(DOMAIN players')
        /\ Cardinality(DOMAIN players') = Cardinality(DOMAIN players) - 1
    BY <1>1, <1>4, <2>1, FS_RemoveElement DEF IInv, SlotsCounted
  <2>3. Cardinality(DOMAIN players) \in Nat
    BY FS_CardinalityType DEF IInv, SlotsCounted
  <2>. QED
    BY <2>2, <2>3, ConnectionsAssumption DEF IInv, SlotsCounted
<1>9. KeysRead' /\ ServedMatchesAsked'
  BY <1>1, <1>2 DEF IInv, KeysRead, ServedMatchesAsked, Build, status
<1>. QED
  BY <1>5, <1>6, <1>7, <1>8, <1>9 DEF IInv

LEMMA NextInv == IInv /\ [Next]_vars => IInv'
<1>. SUFFICES ASSUME IInv, [Next]_vars PROVE IInv'
  OBVIOUS
<1>1. CASE UNCHANGED vars
  <2>1. UNCHANGED <<pc, name, players>>
    BY <1>1 DEF vars
  <2>2. SlotOwnership' /\ SlotsCounted'
    BY <2>1, Untouched DEF Holds
  <2>. QED
    BY <1>1, <2>2
    DEF vars, IInv, TypeOK, Named, KeysRead, ServedMatchesAsked, Build
<1>2. ASSUME NEW c \in Conns, Accept(c) \/ Receive(c) \/ Advance(c) \/ Fault(c) \/ Peer(c)
      PROVE  IInv'
  <2>1. CASE ConfigPacket(c)
    BY <1>1, <2>1 DEF ConfigPacket
  <2>2. CASE Accept(c) \/ (Receive(c) /\ ~ConfigPacket(c))
    BY <2>2, PacketsKeep, HelloCloseKeep, JoinKeeps DEF Receive
  <2>3. CASE Advance(c)
    BY <2>3, StatusKeeps, SendsAndFaultsKeep, LeaveKeeps, HelloCloseKeep DEF Advance
  <2>4. CASE Fault(c) \/ Peer(c)
    BY <2>4, SendsAndFaultsKeep, PeerKeeps
  <2>. QED
    BY <1>2, <2>1, <2>2, <2>3, <2>4
<1>. QED
  BY <1>1, <1>2 DEF Next

\* The inductive invariant holds in every reachable state.
LEMMA Invariance == Spec => []IInv
BY InitInv, NextInv, PTL DEF Spec

-----------------------------------------------------------------------------
(* Theorems.                                                               *)

\* Every variable keeps its type, whatever the tasks and peers do.
THEOREM TypeCorrect == Spec => []TypeOK
BY Invariance, PTL DEF IInv

\* Entries and admitted tasks correspond one to one on every path through
\* login_phase and configuration_phase.
THEOREM SlotsAreOwned == Spec => []SlotOwnership
BY Invariance, PTL DEF IInv

\* try_insert admits no more than max_players tasks at once.
THEOREM CapacityKept == Spec => []Capacity
<1>1. IInv => Capacity
  BY DEF IInv, SlotsCounted, Capacity, Holders
<1>. QED
  BY <1>1, Invariance, PTL

\* A status request is answered with the document of what it read, for any
\* interleaving of requests on the shared cache.
THEOREM AnswersMatch == Spec => []ServedMatchesAsked
BY Invariance, PTL DEF IInv

\* try_insert refuses a login only because of players that are there.
THEOREM RefusalsHaveCause == Spec => RefusedWithCause
<1>1. ASSUME IInv, [Next]_vars
      PROVE  [\A c \in Conns : pc[c] = "ack" /\ pc'[c] = "joinRefuse" =>
                \/ Cardinality({d \in Conns : Holds(d)}) >= MaxPlayers
                \/ \E d \in Conns : Holds(d) /\ name[d] = name[c]]_vars
  <2>. SUFFICES ASSUME NEW c \in Conns, pc[c] = "ack", pc'[c] = "joinRefuse"
                PROVE  \/ Cardinality({d \in Conns : Holds(d)}) >= MaxPlayers
                       \/ \E d \in Conns : Holds(d) /\ name[d] = name[c]
    OBVIOUS
  <2>t. pc \in [Conns -> Pcs]
    BY <1>1 DEF IInv, TypeOK
  <2>1. LoginAcknowledged(c)
    <3>1. PICK d \in Conns : Accept(d) \/ Receive(d) \/ Advance(d) \/ Fault(d) \/ Peer(d)
      BY <1>1 DEF Next, vars
    <3>2. d = c
      BY <3>1, <2>t
      DEF Accept, Receive, Advance, Fault, Peer, Intention, StatusRequest, PingRequest,
          Hello, LoginAcknowledged, ConfigPacket, SelectKnownPacks, FinishConfigurationAck,
          CountPlayers, SamplePlayers, PeekStatus, RebuildStatus, Send, Leave, Close,
          SendFails, ReadFails, TimeOut, ClientReads, GoQuiet, Goto, vars
    <3>3. Accept(c) \/ Receive(c) \/ Fault(c) \/ Peer(c)
      BY <3>1, <3>2
      DEF Advance, CountPlayers, SamplePlayers, PeekStatus, RebuildStatus, Send, Leave,
          Close, Sending, LastWords
    <3>. QED
      BY <3>3, <2>t
      DEF Accept, Receive, Fault, Peer, Intention, StatusRequest, PingRequest, Hello,
          ConfigPacket, SelectKnownPacks, FinishConfigurationAck, SendFails, ReadFails,
          TimeOut, ClientReads, GoQuiet, Goto, Awaits, Exit, vars
  <2>2. JoinOutcome(players, name[c]) # "Ok"
    BY <2>1, <2>t DEF LoginAcknowledged, Goto
  <2>3. CASE Count(players) >= MaxPlayers
    BY <1>1, <2>3 DEF IInv, SlotsCounted, Holders, Count
  <2>4. CASE NameTaken(players, name[c])
    BY <1>1, <2>4 DEF NameTaken, IInv, SlotOwnership, TypeOK, Players
  <2>. QED
    BY <2>2, <2>3, <2>4 DEF JoinOutcome
<1>. QED
  BY <1>1, Invariance, PTL DEF Spec, RefusedWithCause

\* The second look at the cache, under the write lock, makes every rebuild a
\* change: no document is serialized twice in a row.
THEOREM RebuildsCount == Spec => NoRedundantRebuild
<1>1. ASSUME IInv, [Next]_vars
      PROVE  [rebuilds' # rebuilds => cached' # cached]_vars
  <2>. SUFFICES ASSUME rebuilds' # rebuilds PROVE cached' # cached
    OBVIOUS
  <2>1. PICK c \in Conns : RebuildStatus(c) /\ ~CacheHit(key[c])
    BY <1>1
    DEF Next, vars, status, Accept, Receive, Advance, Fault, Peer, Intention, StatusRequest,
        PingRequest, Hello, LoginAcknowledged, ConfigPacket, SelectKnownPacks,
        FinishConfigurationAck, CountPlayers, SamplePlayers, PeekStatus, RebuildStatus, Send,
        Leave, Close, SendFails, ReadFails, TimeOut, ClientReads, GoQuiet
  <2>2. key[c] \in Keys
    BY <1>1, <2>1 DEF RebuildStatus, IInv, KeysRead
  <2>3. cached' = [online |-> key[c].online, sample |-> key[c].sample, json |-> Build(key[c])]
    BY <2>1 DEF RebuildStatus
  <2>4. CASE cached = None
    <3>1. cached' \in CacheEntries
      BY <2>2, <2>3, BuildType DEF Keys, CacheEntries
    <3>. QED
      BY <2>4, <3>1, ConnectionsAssumption
  <2>5. CASE cached # None
    BY <2>1, <2>3, <2>5 DEF CacheHit
  <2>. QED
    BY <2>4, <2>5
<1>. QED
  BY <1>1, Invariance, PTL DEF Spec, NoRedundantRebuild

-----------------------------------------------------------------------------
(* Refinement.                                                             *)

\* A step that neither admits nor releases a task is a stutter of Admission.
LEMMA SessionKept ==
  ASSUME \A c \in Conns : Holds(c)' <=> Holds(c),
         \A c \in Conns : Holds(c) => name'[c] = name[c]
  PROVE  Session' = Session
BY DEF Session

\* While a task plays, its session is the name it said Hello with.
LEMMA SessionNames ==
  ASSUME IInv
  PROVE  /\ \A c \in Conns : Session[c] = IF Holds(c) THEN name[c] ELSE None
         /\ Adm!Playing = Holders
<1>1. \A c \in Conns : Holds(c) => name[c] # None
  <2>1. None \notin Names
    BY ConnectionsAssumption
  <2>. QED
    BY <2>1 DEF IInv, SlotOwnership
<1>. QED
  BY <1>1 DEF Session, Adm!Playing, Holders

\* An accepted try_insert is a Join; a refused one changes no session.
LEMMA JoinRefines ==
  ASSUME IInv, NEW c \in Conns, LoginAcknowledged(c)
  PROVE  [Adm!Next]_Session
<1>1. /\ pc \in [Conns -> Pcs] /\ pc[c] = "ack" /\ ~Holds(c)
      /\ name[c] \in Names /\ UNCHANGED name
  BY DEF LoginAcknowledged, Awaits, Holds, Admitted, IInv, TypeOK, Named
<1>2. CASE JoinOutcome(players, name[c]) # "Ok"
  <2>1. \A d \in Conns : Holds(d)' <=> Holds(d)
    BY <1>1, <1>2 DEF LoginAcknowledged, Goto, Holds, Admitted
  <2>. QED
    BY <1>1, <2>1, SessionKept
<1>3. CASE JoinOutcome(players, name[c]) = "Ok"
  <2>1. pc' = [pc EXCEPT ![c] = "brand"]
    BY <1>3 DEF LoginAcknowledged, Goto
  <2>2. Session' = [Session EXCEPT ![c] = name[c]]
    BY <1>1, <2>1 DEF Session, Holds, Admitted
  <2>3. Cardinality(DOMAIN players) < MaxPlayers /\ ~NameTaken(players, name[c])
    BY <1>3, JoinOk DEF IInv, SlotsCounted
  <2>4. Cardinality(Adm!Playing) < MaxPlayers
    BY <2>3, SessionNames DEF IInv, SlotsCounted
  <2>5. \A d \in Holders : Session[d] # name[c]
    <3>. SUFFICES ASSUME NEW d \in Holders PROVE name[d] # name[c]
      BY SessionNames DEF Holders
    <3>1. /\ OfflineUuid[name[d]] \in DOMAIN players
          /\ players[OfflineUuid[name[d]]] = [name |-> name[d], addr |-> d]
      BY DEF Holders, IInv, SlotOwnership
    <3>2. players[OfflineUuid[name[d]]].name = name[d]
      BY <3>1
    <3>. QED
      BY <2>3, <3>1, <3>2 DEF NameTaken
  <2>6. Session[c] = None
    BY <1>1 DEF Session
  <2>7. Adm!Join(c, name[c])
    <3>1. Adm!Playing = Holders
      BY SessionNames
    <3>2. Adm!Cardinality(Adm!Playing) = Cardinality(Adm!Playing)
      BY DEF Cardinality, Adm!Cardinality, IsFiniteSet, Adm!IsFiniteSet
    <3>. QED
      BY <2>2, <2>4, <2>5, <2>6, <3>1, <3>2 DEF Adm!Join
  <2>. QED
    BY <1>1, <2>7 DEF Adm!Next
<1>. QED
  BY <1>2, <1>3

\* players.remove is a Leave.
LEMMA LeaveRefines ==
  ASSUME IInv, NEW c \in Conns, Leave(c)
  PROVE  [Adm!Next]_Session
<1>1. pc \in [Conns -> Pcs] /\ Holds(c) /\ pc' = [pc EXCEPT ![c] = "closing"] /\ UNCHANGED name
  BY DEF Leave, Goto, Holds, Admitted, IInv, TypeOK
<1>2. Session' = [Session EXCEPT ![c] = None]
  BY <1>1 DEF Session, Holds, Admitted
<1>3. c \in Adm!Playing
  BY <1>1, SessionNames DEF Holders
<1>. QED
  BY <1>2, <1>3 DEF Adm!Leave, Adm!Next

\* No other step takes a task into or out of the admitted part.
LEMMA OthersStutter ==
  ASSUME IInv, [Next]_vars, \A c \in Conns : ~LoginAcknowledged(c) /\ ~Leave(c)
  PROVE  Session' = Session
<1>t. pc \in [Conns -> Pcs] /\ name \in [Conns -> Names \cup {None}]
  BY DEF IInv, TypeOK
<1>1. CASE UNCHANGED vars
  BY <1>1, SessionKept DEF vars, Holds
<1>2. ASSUME NEW c \in Conns, Accept(c) \/ Receive(c) \/ Advance(c) \/ Fault(c) \/ Peer(c)
      PROVE  Session' = Session
  <2>. USE <1>t DEF Holds, Admitted, Goto, Awaits
  <2>1. CASE Accept(c) \/ Receive(c) \/ Peer(c)
    BY <1>2, <2>1, SessionKept
    DEF Accept, Receive, Intention, StatusRequest, PingRequest, Hello, ConfigPacket,
        SelectKnownPacks, FinishConfigurationAck, Peer, ClientReads, GoQuiet, vars
  <2>2. CASE CountPlayers(c) \/ SamplePlayers(c) \/ PeekStatus(c) \/ RebuildStatus(c) \/ Close(c)
    BY <2>2, SessionKept
    DEF CountPlayers, SamplePlayers, PeekStatus, RebuildStatus, Close
  <2>3. CASE Send(c)
    BY <2>3, SessionKept DEF Send, AfterSend, Sending, LastWords
  <2>4. CASE Fault(c)
    BY <2>4, SessionKept DEF Fault, SendFails, ReadFails, TimeOut, Exit, Reading, Sending, LastWords
  <2>. QED
    BY <1>2, <2>1, <2>2, <2>3, <2>4 DEF Advance
<1>. QED
  BY <1>1, <1>2 DEF Next

\* The connection tasks implement Admission.
THEOREM TasksAdmit == Spec => Admits
<1>1. Init => Adm!Init
  BY DEF Init, Adm!Init, Session, Holds, Admitted
<1>2. IInv /\ [Next]_vars => [Adm!Next]_Session
  BY JoinRefines, LeaveRefines, OthersStutter
<1>. QED
  BY <1>1, <1>2, Invariance, PTL DEF Spec, Admits, Adm!Spec

-----------------------------------------------------------------------------
(* The tasks on the wire.                                                  *)

\* The packets of the two streams.
Said == {"intention", "statusIntention", "statusRequest", "pingRequest", "hello",
         "loginAcknowledged", "clientInformation", "selectKnownPacks"}

Frame == [packet : Sending \cup Said, zip : BOOLEAN]

\* What the kernel holds for a client is what the client has not read, and a
\* client that follows the protocol is not a silent one.
Buffered ==
    /\ s2c \in [Conns -> Seq(Frame)]
    /\ c2s \in [Conns -> Seq(Frame)]
    /\ client \in [Conns -> [at : DOMAIN Expects, zip : BOOLEAN, chatter : Nat]]
    /\ \A c \in Conns : unread[c] = Len(s2c[c]) /\ ~quiet[c]

\* SetCompression is framed without compression and everything behind it with;
\* a client that has not come to it yet is behind the server by that much.
Switches(s, n) == \E j \in 1 .. n : s[j].packet = "setCompression"

InModes(s, before, after) ==
    /\ \A i \in DOMAIN s : s[i].zip <=> before \/ Switches(s, i - 1)
    /\ after <=> before \/ Switches(s, Len(s))

ModesInFlight(c) ==
    /\ InModes(s2c[c], client[c].zip, zip[c])
    /\ \A i \in DOMAIN c2s[c] : c2s[c][i].zip = zip[c]

\* All that is on its way to a client is for the state the client is in: only what
\* leaves that state as it is has something behind it.
OneStateInFlight(c) ==
    \A i \in DOMAIN s2c[c] :
        /\ s2c[c][i].packet \in Expects[client[c].at]
        /\ i < Len(s2c[c]) => s2c[c][i].packet \in {"setCompression", "brand"}

Drained(c) == s2c[c] = <<>>

Sent1(c, packet) == Len(c2s[c]) = 1 /\ c2s[c][1].packet = packet

Sent2(c, first, second) ==
    Len(c2s[c]) = 2 /\ c2s[c][1].packet = first /\ c2s[c][2].packet = second

AllToServer(c, packets) == \A i \in DOMAIN c2s[c] : c2s[c][i].packet \in packets

AllToClient(c, packets) == \A i \in DOMAIN s2c[c] : s2c[c][i].packet \in packets

\* Where the client can be, and what can be on its way to the server, while the
\* server stands before its first read ...
Opening(c) ==
    /\ Drained(c)
    /\ \/ client[c].at = "start" /\ c2s[c] = <<>>
       \/ client[c].at = "greeting" /\ Sent1(c, "intention")
       \/ client[c].at = "login" /\ Sent2(c, "intention", "hello")
       \/ client[c].at = "asking" /\ Sent1(c, "statusIntention")
       \/ client[c].at = "asked" /\ Sent2(c, "statusIntention", "statusRequest")
       \/ client[c].at = "pinged" /\ Sent2(c, "statusIntention", "pingRequest")

\* ... in the server-list exchange ...
Listing(c) ==
    \/ client[c].at = "asking" /\ Drained(c) /\ c2s[c] = <<>>
    \/ client[c].at = "asked" /\ Drained(c) /\ Sent1(c, "statusRequest")
    \/ client[c].at = "asked" /\ c2s[c] = <<>>
    \/ client[c].at = "pinged" /\ Drained(c) /\ Sent1(c, "pingRequest")

\* ... behind LoginFinished ...
Acknowledging(c) ==
    \/ /\ client[c].at = "login" /\ c2s[c] = <<>>
       /\ AllToClient(c, {"setCompression", "loginFinished"})
    \/ client[c].at = "finished" /\ c2s[c] = <<>>
    \/ /\ client[c].at = "config" /\ Drained(c)
       /\ c2s[c] # <<>> /\ c2s[c][1].packet = "loginAcknowledged"
       /\ \A i \in DOMAIN c2s[c] : i > 1 => c2s[c][i].packet = "clientInformation"

Chatting(c) == AllToServer(c, {"clientInformation"})

\* ... and in configuration.
Configuring(c) ==
    \/ client[c].at = "config" /\ Chatting(c) /\ AllToClient(c, {"brand", "knownPacks"})
    \/ client[c].at = "choosing" /\ Chatting(c)
    \/ /\ client[c].at = "waiting" /\ Drained(c)
       /\ AllToServer(c, {"clientInformation", "selectKnownPacks"})

\* How far the two ends can be apart at each point of a task.
InStep(c) ==
    /\ pc[c] = "free" => client[c].at = "start" /\ Drained(c) /\ c2s[c] = <<>>
    /\ pc[c] = "handshake" => Opening(c)
    /\ pc[c] = "status" => Listing(c)
    /\ pc[c] \in {"count", "sample", "peek", "rebuild", "statusReply"} =>
         client[c].at = "asked" /\ Drained(c) /\ c2s[c] = <<>>
    /\ pc[c] = "pong" => client[c].at = "pinged" /\ Drained(c)
    /\ pc[c] = "login" =>
         \/ client[c].at = "greeting" /\ Drained(c) /\ c2s[c] = <<>>
         \/ client[c].at = "login" /\ Drained(c) /\ Sent1(c, "hello")
    /\ pc[c] = "versionRefuse" => client[c].at \in {"greeting", "login"} /\ Drained(c)
    /\ pc[c] \in {"onlineRefuse", "setCompression"} =>
         client[c].at = "login" /\ Drained(c) /\ c2s[c] = <<>>
    /\ pc[c] = "loginFinished" =>
         client[c].at = "login" /\ c2s[c] = <<>> /\ AllToClient(c, {"setCompression"})
    /\ pc[c] = "ack" => Acknowledging(c)
    /\ pc[c] \in {"brand", "joinRefuse"} => client[c].at = "config" /\ Drained(c) /\ Chatting(c)
    /\ pc[c] = "knownPacks" =>
         client[c].at = "config" /\ Chatting(c) /\ AllToClient(c, {"brand"})
    /\ pc[c] = "config" => Configuring(c)
    /\ pc[c] = "configRefuse" => client[c].at = "waiting" /\ Drained(c)

Talk(c) == ModesInFlight(c) /\ OneStateInFlight(c) /\ InStep(c)

WInv == IInv /\ Buffered /\ \A c \in Conns : Talk(c)

-----------------------------------------------------------------------------
(* The tasks on the wire are tasks.                                        *)

\* A stream with one more frame.
LEMMA Appended ==
    ASSUME NEW S, NEW s \in Seq(S), NEW e \in S, NEW t, t = Append(s, e)
    PROVE  /\ t \in Seq(S) /\ Len(s) \in Nat /\ Len(t) = Len(s) + 1
           /\ DOMAIN t = 1 .. Len(s) + 1 /\ DOMAIN s = 1 .. Len(s)
           /\ t[Len(s) + 1] = e
           /\ \A i \in 1 .. Len(s) : t[i] = s[i]
<1>1. Append(s, e) \in Seq(S) /\ Len(Append(s, e)) = Len(s) + 1
  BY AppendProperties
<1>2. Append(s, e)[Len(s) + 1] = e /\ \A i \in 1 .. Len(s) : Append(s, e)[i] = s[i]
  BY AppendProperties
<1>3. Len(s) \in Nat /\ DOMAIN s = 1 .. Len(s) /\ DOMAIN Append(s, e) = 1 .. Len(Append(s, e))
  BY <1>1, LenProperties
<1> QED
  BY <1>1, <1>2, <1>3, Zenon

\* What is left of a stream when its first frame is taken.
LEMMA TakenOff ==
    ASSUME NEW S, NEW s \in Seq(S), s # <<>>, NEW t, t = Tail(s)
    PROVE  /\ t \in Seq(S) /\ Len(s) \in Nat \ {0} /\ Len(t) = Len(s) - 1
           /\ Head(s) = s[1] /\ s[1] \in S
           /\ DOMAIN s = 1 .. Len(s) /\ DOMAIN t = 1 .. Len(s) - 1
           /\ \A i \in 1 .. Len(s) - 1 : t[i] = s[i + 1]
<1>1. Tail(s) \in Seq(S) /\ Len(Tail(s)) = Len(s) - 1 /\ Head(s) \in S
  BY HeadTailProperties
<1>2. \A i \in 1 .. Len(Tail(s)) : Tail(s)[i] = s[i + 1]
  BY HeadTailProperties
<1>3. Head(s) = s[1]
  OBVIOUS
<1>4. Len(s) \in Nat /\ DOMAIN s = 1 .. Len(s) /\ DOMAIN Tail(s) = 1 .. Len(Tail(s))
  BY <1>1, LenProperties
<1>5. Len(s) # 0
  BY EmptySeq
<1>6. Len(s) \in Nat \ {0} /\ s[1] \in S
  BY <1>1, <1>3, <1>4, <1>5
<1>7. DOMAIN Tail(s) = 1 .. Len(s) - 1 /\ \A i \in 1 .. Len(s) - 1 : Tail(s)[i] = s[i + 1]
  BY <1>1, <1>2, <1>4, Zenon
<1> QED
  BY <1>1, <1>3, <1>4, <1>6, <1>7, Zenon

\* A frame in the mode the stream ends in keeps it in order ...
LEMMA ModesAppended ==
    ASSUME NEW s \in Seq(Frame), NEW f \in Frame,
           NEW before \in BOOLEAN, NEW after \in BOOLEAN,
           InModes(s, before, after), f.zip = after
    PROVE  InModes(Append(s, f), before, after \/ f.packet = "setCompression")
<1>. DEFINE t == Append(s, f)
            n == Len(s)
<1>1. /\ n \in Nat /\ Len(t) = n + 1 /\ DOMAIN t = 1 .. n + 1 /\ DOMAIN s = 1 .. n
      /\ t[n + 1] = f /\ \A i \in 1 .. n : t[i] = s[i]
  BY Appended
<1>. HIDE DEF t, n
<1>2. \A m \in 0 .. n : Switches(t, m) <=> Switches(s, m)
  <2>1. TAKE m \in 0 .. n
  <2>2. \A j \in 1 .. m : j \in 1 .. n
    BY <1>1
  <2> QED
    BY <1>1, <2>2, Zenon DEF Switches
<1>3. Switches(t, n + 1) <=> Switches(s, n) \/ f.packet = "setCompression"
  <2>1. \A i : i \in 1 .. n + 1 <=> i \in 1 .. n \/ i = n + 1
    BY <1>1
  <2> QED
    BY <1>1, <2>1, Zenon DEF Switches
<1>4. \A i \in 1 .. n : t[i].zip <=> before \/ Switches(t, i - 1)
  <2>1. \A i \in 1 .. n : i - 1 \in 0 .. n
    BY <1>1
  <2> QED
    BY <1>1, <1>2, <2>1, Zenon DEF InModes
<1>5. t[n + 1].zip <=> before \/ Switches(t, (n + 1) - 1)
  <2>1. (n + 1) - 1 = n /\ n \in 0 .. n
    BY <1>1
  <2> QED
    BY <1>1, <1>2, <2>1, Zenon DEF InModes, n
<1>6. \A i \in DOMAIN t : i \in 1 .. n \/ i = n + 1
  BY <1>1
<1>7. (after \/ f.packet = "setCompression") <=> before \/ Switches(t, Len(t))
  BY <1>1, <1>3, Zenon DEF InModes, n
<1> QED
  BY <1>4, <1>5, <1>6, <1>7, Zenon DEF InModes, t

\* ... and so does taking one off in the mode it starts in.
LEMMA ModesBehind ==
    ASSUME NEW s \in Seq(Frame), s # <<>>, NEW before \in BOOLEAN, NEW after \in BOOLEAN,
           InModes(s, before, after)
    PROVE  InModes(Tail(s), before \/ Head(s).packet = "setCompression", after)
<1>. DEFINE t == Tail(s)
            n == Len(s) - 1
<1>1. /\ n \in Nat /\ Len(t) = n /\ DOMAIN s = 1 .. n + 1 /\ DOMAIN t = 1 .. n
      /\ Len(s) = n + 1 /\ Head(s) = s[1] /\ \A i \in 1 .. n : t[i] = s[i + 1]
  BY TakenOff
<1>. HIDE DEF t, n
<1>2. ASSUME NEW m \in 0 .. n
      PROVE  Switches(s, m + 1) <=> s[1].packet = "setCompression" \/ Switches(t, m)
  <2>1. ASSUME Switches(t, m) PROVE Switches(s, m + 1)
    <3>1. PICK j \in 1 .. m : t[j].packet = "setCompression"
      BY <2>1 DEF Switches
    <3>2. j + 1 \in 1 .. m + 1 /\ t[j] = s[j + 1]
      BY <1>1
    <3> QED
      BY <3>1, <3>2, Zenon DEF Switches
  <2>2. ASSUME Switches(s, m + 1), s[1].packet # "setCompression" PROVE Switches(t, m)
    <3>1. PICK j \in 1 .. m + 1 : s[j].packet = "setCompression"
      BY <2>2 DEF Switches
    <3>2. j # 1
      BY <2>2, <3>1
    <3>3. j - 1 \in 1 .. m /\ t[j - 1] = s[j]
      BY <1>1, <3>2
    <3> QED
      BY <3>1, <3>3, Zenon DEF Switches
  <2>3. 1 \in 1 .. m + 1
    OBVIOUS
  <2> QED
    BY <2>1, <2>2, <2>3, Zenon DEF Switches
<1>3. ASSUME NEW i \in 1 .. n
      PROVE  t[i].zip <=> before \/ Head(s).packet = "setCompression" \/ Switches(t, i - 1)
  <2>1. i + 1 \in DOMAIN s /\ (i + 1) - 1 = (i - 1) + 1 /\ i - 1 \in 0 .. n
    BY <1>1
  <2>2. s[i + 1].zip <=> before \/ Switches(s, (i - 1) + 1)
    BY <2>1, Zenon DEF InModes
  <2> QED
    BY <1>1, <1>2, <2>1, <2>2, Zenon
<1>4. after <=> before \/ Head(s).packet = "setCompression" \/ Switches(t, Len(t))
  <2>1. n \in 0 .. n
    BY <1>1
  <2> QED
    BY <1>1, <1>2, <2>1, Zenon DEF InModes
<1> QED
  BY <1>1, <1>3, <1>4, Zenon DEF InModes, t

\* What each packet makes of a client that is in a state to accept it.
LEMMA ClientBecomes ==
    ASSUME NEW k \in [at : DOMAIN Expects, zip : BOOLEAN, chatter : Nat],
           NEW p, p \in Expects[k.at]
    PROVE  /\ Received(k, p) \in [at : DOMAIN Expects, zip : BOOLEAN, chatter : Nat]
           /\ Received(k, p).zip <=> k.zip \/ p = "setCompression"
           /\ p \in {"setCompression", "brand"} => Received(k, p).at = k.at
           /\ p = "statusReply" => Received(k, p).at = "asking"
           /\ p = "loginFinished" => Received(k, p).at = "finished"
           /\ p = "knownPacks" => Received(k, p).at = "choosing"
           /\ p \notin {"setCompression", "brand", "statusReply", "loginFinished", "knownPacks"} =>
                Received(k, p).at = "gone"
<1>. DEFINE at == CASE p \in {"setCompression", "brand"} -> k.at
                    [] p = "statusReply"   -> "asking"
                    [] p = "loginFinished" -> "finished"
                    [] p = "knownPacks"    -> "choosing"
                    [] OTHER               -> "gone"
<1>. DEFINE z == k.zip \/ p = "setCompression"
<1>1. Received(k, p) = [k EXCEPT !.zip = z, !.at = at]
  BY Zenon DEF Received
<1>2. p \in {"setCompression", "brand"} => at = k.at
  BY Zenon
<1>3. p = "statusReply" => at = "asking"
  BY Zenon
<1>4. p = "loginFinished" => at = "finished"
  BY Zenon
<1>5. p = "knownPacks" => at = "choosing"
  BY Zenon
<1>6. p \notin {"setCompression", "brand", "statusReply", "loginFinished", "knownPacks"} =>
        at = "gone"
  BY Zenon
<1>7. z \in BOOLEAN /\ (z <=> k.zip \/ p = "setCompression")
  OBVIOUS
<1>8. at \in DOMAIN Expects
  <2>1. {k.at, "asking", "finished", "choosing", "gone"} \subseteq DOMAIN Expects
    BY DEF Expects
  <2>. HIDE DEF at
  <2> QED
    BY <1>2, <1>3, <1>4, <1>5, <1>6, <2>1, Zenon
<1>. HIDE DEF at, z
<1>9. /\ Received(k, p) \in [at : DOMAIN Expects, zip : BOOLEAN, chatter : Nat]
      /\ Received(k, p).zip = z
      /\ Received(k, p).at = at
  BY <1>1, <1>7, <1>8
<1> QED
  BY <1>2, <1>3, <1>4, <1>5, <1>6, <1>7, <1>9, Zenon

\* Every step on the wire is a step of Connections or none of its business; a
\* client that takes a frame reads, and the buffer has one less.
LEMMA StepsOnTheWire ==
    ASSUME IInv, Buffered, [WNext]_wvars
    PROVE  [Next]_vars
<1>1. ASSUME NEW c \in Conns, ClientTakes(c) PROVE [Next]_vars
  <2>1. s2c[c] \in Seq(Frame) /\ s2c[c] # <<>> /\ unread[c] = Len(s2c[c]) /\ ~quiet[c]
    BY <1>1 DEF ClientTakes, Buffered
  <2>2. Len(s2c[c]) \in Nat \ {0}
    BY <2>1, TakenOff
  <2>3. unread[c] \in 0 .. SendCap /\ SendCap \in Nat
    BY ConnectionsAssumption DEF IInv, TypeOK
  <2>4. unread[c] - 1 \in 0 .. SendCap /\ unread[c] - 1 < unread[c]
    BY <2>1, <2>2, <2>3
  <2>5. /\ unread' = [unread EXCEPT ![c] = unread[c] - 1]
        /\ UNCHANGED <<pc, name, zip, quiet, players, status>>
    BY <1>1, Zenon DEF ClientTakes
  <2>6. ClientReads(c)
    BY <2>1, <2>4, <2>5 DEF ClientReads
  <2> QED
    BY <2>6, Zenon DEF Peer, Next
<1>2. ASSUME NEW c \in Conns,
             Open(c) \/ Transmit(c) \/ Serve(c) \/ Answer(c) \/ Drop(c) \/ Depart(c) \/ Hangup(c)
      PROVE  [Next]_vars
  <2>1. Accept(c) \/ Receive(c) \/ Advance(c) \/ Fault(c)
    BY <1>2, Zenon DEF Open, Transmit, Serve, Answer, Drop, Depart, Hangup, Receive, Advance
  <2> QED
    BY <2>1, Zenon DEF Next
<1>3. ASSUME NEW c \in Conns, ClientSays(c) \/ ClientChats(c) PROVE UNCHANGED vars
  BY <1>3, Zenon DEF ClientSays, Says, ClientChats
<1>4. CASE UNCHANGED wvars
  BY <1>4, Zenon DEF wvars
<1> QED
  BY <1>1, <1>2, <1>3, <1>4, Zenon DEF WNext

-----------------------------------------------------------------------------
(* How far the two ends can be apart.                                      *)

\* What Talk says of a socket is about its own task, streams and client.
Here(c) == <<pc[c], zip[c], s2c[c], c2s[c], client[c]>>

LEMMA Elsewhere ==
    ASSUME NEW c \in Conns, Talk(c), UNCHANGED Here(c)
    PROVE  Talk(c)'
BY DEF Here, Talk, ModesInFlight, OneStateInFlight, InStep, Drained, Sent1, Sent2,
       AllToServer, AllToClient, Opening, Listing, Acknowledging, Chatting, Configuring

\* What a task is about to send is for the state its client is in, and leaves
\* room for nothing else if what is on its way ends that state.
LEMMA AboutToSend ==
    ASSUME Buffered, NEW c \in Conns, Talk(c), pc[c] \in Sending
    PROVE  /\ pc[c] \in Expects[client[c].at]
           /\ AllToClient(c, {"setCompression", "brand"})
           /\ pc[c] = "setCompression" => Drained(c) /\ c2s[c] = <<>>
<1>. s2c[c] \in Seq(Frame) /\ client[c].at \in DOMAIN Expects
  BY DEF Buffered
<1>1. InStep(c)
  BY DEF Talk
<1>2. CASE Drained(c)
  <2>1. AllToClient(c, {"setCompression", "brand"})
    BY <1>2, EmptySeq DEF Drained, AllToClient
  <2> QED
    BY <1>1, <1>2, <2>1 DEF InStep, Sending, LastWords, Expects
<1>3. CASE pc[c] \in {"loginFinished", "knownPacks"}
  BY <1>1, <1>3 DEF InStep, AllToClient, Expects
<1> QED
  BY <1>1, <1>2, <1>3 DEF InStep, Sending, LastWords

\* A frame put on a client's stream is framed the way the client will be in when
\* it comes to it.
LEMMA TransmitTalks ==
    ASSUME TypeOK, Buffered, NEW c \in Conns, Talk(c), Transmit(c)
    PROVE  Talk(c)' /\ \A d \in Conns \ {c} : UNCHANGED Here(d)
<1>1. /\ s2c[c] \in Seq(Frame) /\ c2s[c] \in Seq(Frame)
      /\ pc[c] \in Sending /\ zip[c] \in BOOLEAN
      /\ pc \in [Conns -> Pcs] /\ zip \in [Conns -> BOOLEAN]
      /\ s2c \in [Conns -> Seq(Frame)]
  BY DEF Transmit, Send, Buffered, TypeOK
<1>2. Framed(c) \in Frame /\ Framed(c).packet = pc[c] /\ Framed(c).zip = zip[c]
  BY <1>1 DEF Framed, Frame
<1>3. /\ s2c' = [s2c EXCEPT ![c] = Append(s2c[c], Framed(c))]
      /\ pc' = [pc EXCEPT ![c] = AfterSend(pc[c])]
      /\ UNCHANGED <<c2s, client>>
  BY Zenon DEF Transmit, Send, Goto
<1>4. /\ zip'[c] <=> zip[c] \/ pc[c] = "setCompression"
      /\ zip'[c] \in BOOLEAN
      /\ \A d \in Conns \ {c} : zip'[d] = zip[d]
  BY <1>1 DEF Transmit, Send
<1>5. \A d \in Conns \ {c} : UNCHANGED Here(d)
  BY <1>1, <1>3, <1>4 DEF Here
<1>6. /\ Len(s2c[c]) \in Nat /\ Len(s2c'[c]) = Len(s2c[c]) + 1
      /\ DOMAIN s2c'[c] = 1 .. Len(s2c[c]) + 1 /\ DOMAIN s2c[c] = 1 .. Len(s2c[c])
      /\ s2c'[c][Len(s2c[c]) + 1].packet = pc[c]
      /\ s2c'[c][Len(s2c[c]) + 1].zip = zip[c]
      /\ \A i \in 1 .. Len(s2c[c]) : s2c'[c][i] = s2c[c][i]
  <2>1. s2c'[c] = Append(s2c[c], Framed(c))
    BY <1>1, <1>3
  <2> QED
    BY <1>1, <1>2, <2>1, Appended
<1>7. /\ pc'[c] = AfterSend(pc[c]) /\ c2s'[c] = c2s[c] /\ client'[c] = client[c]
  BY <1>1, <1>3
<1>8. /\ pc[c] \in Expects[client[c].at]
      /\ AllToClient(c, {"setCompression", "brand"})
      /\ pc[c] = "setCompression" => Drained(c) /\ c2s[c] = <<>>
  BY <1>1, AboutToSend
<1>9. ModesInFlight(c)'
  <2>1. ModesInFlight(c) /\ client[c].zip \in BOOLEAN
    BY DEF Talk, Buffered
  <2>2. InModes(s2c'[c], client'[c].zip, zip[c] \/ pc[c] = "setCompression")
    BY <1>1, <1>2, <1>3, <1>7, <2>1, ModesAppended DEF ModesInFlight
  <2>3. zip'[c] = (zip[c] \/ pc[c] = "setCompression")
    BY <1>1, <1>4
  <2>4. \A i \in DOMAIN c2s'[c] : c2s'[c][i].zip = zip'[c]
    BY <1>1, <1>4, <1>7, <1>8, <2>1, EmptySeq DEF ModesInFlight
  <2> QED
    BY <2>2, <2>3, <2>4, Zenon DEF ModesInFlight
<1>10. OneStateInFlight(c)'
  BY <1>6, <1>7, <1>8 DEF Talk, OneStateInFlight, AllToClient
<1>11. InStep(c)'
  <2>. InStep(c) /\ OneStateInFlight(c)
    BY DEF Talk
  <2>1. CASE pc[c] \in {"statusReply"}
    BY <2>1, <1>1, <1>6, <1>7 DEF InStep, AfterSend, Listing
  <2>2. CASE pc[c] = "setCompression"
    BY <2>2, <1>1, <1>6, <1>7 DEF InStep, AfterSend, AllToClient, Drained
  <2>3. CASE pc[c] = "loginFinished"
    <3>1. client[c].at = "login" /\ c2s[c] = <<>> /\ AllToClient(c, {"setCompression"})
      BY <2>3 DEF InStep
    <3>2. AllToClient(c, {"setCompression", "loginFinished"})'
      BY <2>3, <3>1, <1>6 DEF AllToClient
    <3>3. pc'[c] = "ack"
      BY <2>3, <1>7 DEF AfterSend, LastWords
    <3>4. Acknowledging(c)'
      BY <3>1, <3>2, <1>7, Zenon DEF Acknowledging, AllToClient
    <3> QED
      BY <3>3, <3>4 DEF InStep
  <2>4. CASE pc[c] = "brand"
    BY <2>4, <1>1, <1>6, <1>7, SMTT(30) DEF InStep, AfterSend, AllToClient, Drained, Chatting, AllToServer
  <2>5. CASE pc[c] = "knownPacks"
    <3>1. client[c].at = "config" /\ Chatting(c) /\ AllToClient(c, {"brand"})
      BY <2>5 DEF InStep
    <3>2. AllToClient(c, {"brand", "knownPacks"})'
      BY <2>5, <3>1, <1>6 DEF AllToClient
    <3>3. pc'[c] = "config"
      BY <2>5, <1>7 DEF AfterSend, LastWords
    <3>4. Configuring(c)'
      BY <3>1, <3>2, <1>7, Zenon DEF Configuring, Chatting, AllToServer
    <3> QED
      BY <3>3, <3>4 DEF InStep
  <2>6. CASE pc[c] \in LastWords \cup {"configRefuse"}
    BY <2>6, <1>1, <1>7 DEF InStep, AfterSend, LastWords
  <2> QED
    BY <1>1, <2>1, <2>2, <2>3, <2>4, <2>5, <2>6 DEF Sending
<1> QED
  BY <1>5, <1>9, <1>10, <1>11 DEF Talk

\* A frame the server takes leaves the rest of the stream behind it as it was.
LEMMA Taken ==
    ASSUME TypeOK, Buffered, NEW c \in Conns, Talk(c), NEW p, Takes(c, p), UNCHANGED zip
    PROVE  /\ Len(c2s[c]) \in Nat \ {0} /\ Len(c2s'[c]) = Len(c2s[c]) - 1
           /\ c2s[c][1].packet = p
           /\ DOMAIN c2s[c] = 1 .. Len(c2s[c]) /\ DOMAIN c2s'[c] = 1 .. Len(c2s[c]) - 1
           /\ \A i \in 1 .. Len(c2s[c]) - 1 : c2s'[c][i] = c2s[c][i + 1]
           /\ Len(c2s'[c]) = 0 => c2s'[c] = <<>>
           /\ s2c'[c] = s2c[c] /\ client'[c] = client[c]
           /\ \A d \in Conns \ {c} : c2s'[d] = c2s[d]
           /\ ModesInFlight(c)' /\ OneStateInFlight(c)'
<1>1. /\ c2s \in [Conns -> Seq(Frame)] /\ c2s[c] \in Seq(Frame) /\ c2s[c] # <<>>
      /\ c2s' = [c2s EXCEPT ![c] = Tail(c2s[c])] /\ UNCHANGED <<s2c, client>>
      /\ Head(c2s[c]) = [packet |-> p, zip |-> zip[c]]
  BY Zenon DEF Takes, Buffered
<1>2. c2s'[c] = Tail(c2s[c]) /\ \A d \in Conns \ {c} : c2s'[d] = c2s[d]
  BY <1>1
<1>3. /\ c2s'[c] \in Seq(Frame)
      /\ Len(c2s[c]) \in Nat \ {0} /\ Len(c2s'[c]) = Len(c2s[c]) - 1
      /\ Head(c2s[c]) = c2s[c][1]
      /\ DOMAIN c2s[c] = 1 .. Len(c2s[c]) /\ DOMAIN c2s'[c] = 1 .. Len(c2s[c]) - 1
      /\ \A i \in 1 .. Len(c2s[c]) - 1 : c2s'[c][i] = c2s[c][i + 1]
  BY <1>1, <1>2, TakenOff
<1>4. Len(c2s'[c]) = 0 => c2s'[c] = <<>>
  BY <1>3, EmptySeq
<1>5. \A i \in DOMAIN c2s'[c] : c2s'[c][i].zip = zip[c]
  <2>1. TAKE i \in DOMAIN c2s'[c]
  <2>2. i + 1 \in DOMAIN c2s[c] /\ c2s'[c][i] = c2s[c][i + 1]
    BY <1>3
  <2>3. c2s[c][i + 1].zip = zip[c]
    BY <2>2, Zenon DEF Talk, ModesInFlight
  <2> QED
    BY <2>2, <2>3, Zenon
<1>6. ModesInFlight(c)'
  BY <1>1, <1>5, Zenon DEF Talk, ModesInFlight
<1>7. OneStateInFlight(c)'
  BY <1>1, Zenon DEF Talk, OneStateInFlight
<1>8. c2s[c][1].packet = p
  BY <1>1, <1>3
<1> QED
  BY <1>1, <1>2, <1>3, <1>4, <1>6, <1>7, <1>8

\* What pipelined packets the server still has to read are for the state it
\* comes to with the one it takes.
LEMMA ServeTalks ==
    ASSUME TypeOK, Buffered, NEW c \in Conns, Talk(c), Serve(c)
    PROVE  Talk(c)' /\ \A d \in Conns \ {c} : UNCHANGED Here(d)
<1>. DEFINE Moves == /\ UNCHANGED zip
                     /\ \A d \in Conns \ {c} : pc'[d] = pc[d]
<1>. DEFINE Rest == /\ Len(c2s[c]) \in Nat \ {0} /\ Len(c2s'[c]) = Len(c2s[c]) - 1
                    /\ DOMAIN c2s[c] = 1 .. Len(c2s[c])
                    /\ DOMAIN c2s'[c] = 1 .. Len(c2s[c]) - 1
                    /\ \A i \in 1 .. Len(c2s[c]) - 1 : c2s'[c][i] = c2s[c][i + 1]
                    /\ Len(c2s'[c]) = 0 => c2s'[c] = <<>>
                    /\ s2c'[c] = s2c[c] /\ client'[c] = client[c]
<1>t. pc \in [Conns -> Pcs] /\ InStep(c)
  BY DEF TypeOK, Talk
<1>1. ASSUME NEW p, Takes(c, p), Moves
      PROVE  /\ Rest /\ c2s[c][1].packet = p
             /\ \A d \in Conns \ {c} : UNCHANGED Here(d)
             /\ ModesInFlight(c)' /\ OneStateInFlight(c)'
  <2>1. UNCHANGED zip
    BY <1>1
  <2>2. UNCHANGED <<s2c, client>>
    BY <1>1 DEF Takes
  <2>3. Rest /\ c2s[c][1].packet = p /\ ModesInFlight(c)' /\ OneStateInFlight(c)'
        /\ \A d \in Conns \ {c} : c2s'[d] = c2s[d]
    BY <1>1, <2>1, Taken
  <2> QED
    BY <1>1, <2>2, <2>3 DEF Here
<1>2. CASE Takes(c, "intention") /\ Intention(c) /\ pc'[c] # "status"
  <2>1. Moves /\ pc[c] = "handshake" /\ pc'[c] \in {"login", "versionRefuse"}
    BY <1>2, <1>t DEF Intention, Awaits, Goto
  <2>2. Rest /\ c2s[c][1].packet = "intention"
    BY <1>1, <1>2, <2>1
  <2>3. InStep(c)'
    BY <1>t, <2>1, <2>2 DEF InStep, Opening, Drained, Sent1, Sent2
  <2> QED
    BY <1>1, <1>2, <2>1, <2>3 DEF Talk
<1>3. CASE Takes(c, "statusIntention") /\ Intention(c) /\ pc'[c] = "status"
  <2>1. Moves /\ pc[c] = "handshake" /\ pc'[c] = "status"
    BY <1>3, <1>t DEF Intention, Awaits, Goto
  <2>2. Rest /\ c2s[c][1].packet = "statusIntention"
    BY <1>1, <1>3, <2>1
  <2>3. InStep(c)'
    BY <1>t, <2>1, <2>2 DEF InStep, Opening, Drained, Sent1, Sent2, Listing
  <2> QED
    BY <1>1, <1>3, <2>1, <2>3 DEF Talk
<1>4. CASE Takes(c, "statusRequest") /\ StatusRequest(c)
  <2>1. Moves /\ pc[c] = "status" /\ pc'[c] = "count"
    BY <1>4, <1>t DEF StatusRequest, Awaits, Goto
  <2>2. Rest /\ c2s[c][1].packet = "statusRequest"
    BY <1>1, <1>4, <2>1
  <2>3. InStep(c)'
    BY <1>t, <2>1, <2>2 DEF InStep, Listing, Drained, Sent1
  <2> QED
    BY <1>1, <1>4, <2>1, <2>3 DEF Talk
<1>5. CASE Takes(c, "pingRequest") /\ PingRequest(c)
  <2>1. Moves /\ pc[c] = "status" /\ pc'[c] = "pong"
    BY <1>5, <1>t DEF PingRequest, Awaits, Goto
  <2>2. Rest /\ c2s[c][1].packet = "pingRequest"
    BY <1>1, <1>5, <2>1
  <2>3. InStep(c)'
    BY <1>t, <2>1, <2>2 DEF InStep, Listing, Drained, Sent1
  <2> QED
    BY <1>1, <1>5, <2>1, <2>3 DEF Talk
<1>6. CASE Takes(c, "hello") /\ Hello(c)
  <2>1. Moves /\ pc[c] = "login" /\ pc'[c] \in {"onlineRefuse", "setCompression", "loginFinished"}
    BY <1>6, <1>t DEF Hello, Awaits, Goto
  <2>2. Rest /\ c2s[c][1].packet = "hello"
    BY <1>1, <1>6, <2>1
  <2>3. InStep(c)'
    BY <1>t, <2>1, <2>2 DEF InStep, Drained, Sent1, AllToClient
  <2> QED
    BY <1>1, <1>6, <2>1, <2>3 DEF Talk
<1>7. CASE Takes(c, "loginAcknowledged") /\ LoginAcknowledged(c)
  <2>1. Moves /\ pc[c] = "ack" /\ pc'[c] \in {"brand", "joinRefuse"}
    BY <1>7, <1>t DEF LoginAcknowledged, Awaits, Goto
  <2>2. Rest /\ c2s[c][1].packet = "loginAcknowledged"
    BY <1>1, <1>7, <2>1
  <2>3. /\ client[c].at = "config" /\ Drained(c)
        /\ \A i \in DOMAIN c2s[c] : i > 1 => c2s[c][i].packet = "clientInformation"
    BY <1>t, <2>1, <2>2, EmptySeq DEF InStep, Acknowledging
  <2>4. \A i \in DOMAIN c2s'[c] : c2s'[c][i].packet = "clientInformation"
    <3>1. TAKE i \in DOMAIN c2s'[c]
    <3>2. i + 1 \in DOMAIN c2s[c] /\ i + 1 > 1 /\ c2s'[c][i] = c2s[c][i + 1]
      BY <2>2
    <3> QED
      BY <2>3, <3>2, Zenon
  <2>5. Chatting(c)'
    BY <2>4 DEF Chatting, AllToServer
  <2>6. InStep(c)'
    BY <2>1, <2>2, <2>3, <2>5 DEF InStep, Drained, Chatting, AllToServer
  <2> QED
    BY <1>1, <1>7, <2>1, <2>6 DEF Talk
<1>8. CASE Takes(c, "clientInformation") /\ ConfigPacket(c)
  <2>1. Moves /\ pc[c] = "config" /\ pc'[c] = "config"
    BY <1>8, <1>t DEF ConfigPacket, Awaits, vars
  <2>2. Rest /\ c2s[c][1].packet = "clientInformation"
    BY <1>1, <1>8, <2>1
  <2>3. Configuring(c)
    BY <1>t, <2>1 DEF InStep
  <2>4. ASSUME NEW packets, AllToServer(c, packets) PROVE AllToServer(c, packets)'
    <3>1. ASSUME NEW i \in DOMAIN c2s'[c] PROVE c2s'[c][i].packet \in packets
      <4>1. i + 1 \in DOMAIN c2s[c] /\ c2s'[c][i] = c2s[c][i + 1]
        BY <2>2
      <4> QED
        BY <2>4, <4>1, Zenon DEF AllToServer
    <3> QED
      BY <3>1, Zenon DEF AllToServer
  <2>5. Configuring(c)'
    BY <2>2, <2>3, <2>4 DEF Configuring, Drained, Chatting, AllToServer, AllToClient
  <2>6. InStep(c)'
    BY <2>1, <2>5 DEF InStep, Configuring, Drained, Chatting, AllToServer, AllToClient
  <2> QED
    BY <1>1, <1>8, <2>1, <2>6 DEF Talk
<1>9. CASE Takes(c, "selectKnownPacks") /\ SelectKnownPacks(c)
  <2>1. Moves /\ pc[c] = "config" /\ pc'[c] = "configRefuse"
    BY <1>9, <1>t DEF SelectKnownPacks, Awaits, Goto
  <2>2. Rest /\ c2s[c][1].packet = "selectKnownPacks"
    BY <1>1, <1>9, <2>1
  <2>3. InStep(c)'
    BY <1>t, <2>1, <2>2 DEF InStep, Configuring, Drained, Chatting, AllToServer
  <2> QED
    BY <1>1, <1>9, <2>1, <2>3 DEF Talk
<1> QED
  BY <1>2, <1>3, <1>4, <1>5, <1>6, <1>7, <1>8, <1>9 DEF Serve

\* A task that moves without its sockets' streams is where it may be.
LEMMA TaskTalks ==
    ASSUME TypeOK, NEW c \in Conns, Talk(c),
           Open(c) \/ Answer(c) \/ Drop(c) \/ Depart(c)
    PROVE  Talk(c)' /\ \A d \in Conns \ {c} : UNCHANGED Here(d)
<1>t. pc \in [Conns -> Pcs] /\ InStep(c)
  BY DEF TypeOK, Talk
<1>1. /\ UNCHANGED <<zip, s2c, c2s, client>>
      /\ \A d \in Conns \ {c} : pc'[d] = pc[d]
  <2>1. UNCHANGED <<zip, wire>> /\ \E where : Goto(c, where)
    <3>1. CASE Open(c)
      BY <3>1, Zenon DEF Open, Accept
    <3>2. CASE Answer(c)
      BY <3>2, Zenon DEF Answer, CountPlayers, SamplePlayers, PeekStatus, RebuildStatus
    <3>3. CASE Drop(c)
      BY <3>3, Zenon DEF Drop, Fault, SendFails, ReadFails, TimeOut
    <3>4. CASE Depart(c)
      BY <3>4, Zenon DEF Depart, Leave
    <3> QED
      BY <3>1, <3>2, <3>3, <3>4
  <2> QED
    BY <1>t, <2>1 DEF Goto, wire
<1>2. ModesInFlight(c)' /\ OneStateInFlight(c)' /\ \A d \in Conns \ {c} : UNCHANGED Here(d)
  BY <1>1 DEF Talk, ModesInFlight, InModes, Switches, OneStateInFlight, Here
<1>3. \/ pc[c] = "free" /\ pc'[c] = "handshake"
      \/ /\ pc[c] \in {"count", "sample", "peek", "rebuild"}
         /\ pc'[c] \in {"sample", "peek", "rebuild", "statusReply"}
      \/ pc'[c] \in {"leave", "closing"}
  <2>1. CASE Open(c)
    BY <1>t, <2>1 DEF Open, Accept, Goto
  <2>2. CASE Answer(c)
    BY <1>t, <2>2 DEF Answer, CountPlayers, SamplePlayers, PeekStatus, RebuildStatus, Goto
  <2>3. CASE Drop(c)
    BY <1>t, <2>3 DEF Drop, Fault, SendFails, ReadFails, TimeOut, Goto, Exit
  <2>4. CASE Depart(c)
    BY <1>t, <2>4 DEF Depart, Leave, Goto
  <2> QED
    BY <2>1, <2>2, <2>3, <2>4
<1>4. InStep(c)'
  BY <1>t, <1>1, <1>3 DEF InStep, Opening, Drained
<1> QED
  BY <1>2, <1>4 DEF Talk

\* The next socket starts with empty streams and a client that has said nothing.
LEMMA HangupTalks ==
    ASSUME TypeOK, Buffered, NEW c \in Conns, Hangup(c)
    PROVE  Talk(c)' /\ \A d \in Conns \ {c} : UNCHANGED Here(d)
<1>1. /\ pc \in [Conns -> Pcs] /\ zip \in [Conns -> BOOLEAN]
      /\ s2c \in [Conns -> Seq(Frame)] /\ c2s \in [Conns -> Seq(Frame)]
      /\ client \in [Conns -> [at : DOMAIN Expects, zip : BOOLEAN, chatter : Nat]]
  BY DEF TypeOK, Buffered
<1>2. /\ pc'[c] = "free" /\ zip'[c] = FALSE /\ s2c'[c] = <<>> /\ c2s'[c] = <<>>
      /\ client'[c].at = "start" /\ client'[c].zip = FALSE
      /\ \A d \in Conns \ {c} : UNCHANGED Here(d)
  BY <1>1 DEF Hangup, Close, Goto, FreshClient, Here
<1>3. Len(<<>>) = 0 /\ \A i : i \notin DOMAIN <<>>
  OBVIOUS
<1>4. ~ Switches(<<>>, 0)
  BY DEF Switches
<1>5. ModesInFlight(c)'
  BY <1>2, <1>3, <1>4, Zenon DEF ModesInFlight, InModes
<1>6. OneStateInFlight(c)'
  BY <1>2, <1>3, Zenon DEF OneStateInFlight
<1>7. InStep(c)'
  BY <1>2 DEF InStep, Drained
<1> QED
  BY <1>2, <1>5, <1>6, <1>7 DEF Talk

\* A client in a state that expects no SetCompression is past it or will get none:
\* both ends are in the same mode.
LEMMA SameMode ==
    ASSUME TypeOK, Buffered, NEW c \in Conns, Talk(c), client[c].at # "login"
    PROVE  client[c].zip = zip[c]
<1>1. /\ s2c[c] \in Seq(Frame) /\ client[c].at \in DOMAIN Expects
      /\ client[c].zip \in BOOLEAN /\ zip[c] \in BOOLEAN
  BY DEF Buffered, TypeOK
<1>2. "setCompression" \notin Expects[client[c].at]
  BY <1>1 DEF Expects
<1>3. DOMAIN s2c[c] = 1 .. Len(s2c[c])
  BY <1>1
<1>4. ~ Switches(s2c[c], Len(s2c[c]))
  BY <1>2, <1>3, Zenon DEF Talk, OneStateInFlight, Switches
<1>5. zip[c] <=> client[c].zip
  BY <1>4, Zenon DEF Talk, ModesInFlight, InModes
<1> QED
  BY <1>1, <1>5

\* What a client says goes behind what it has said, in the mode of both ends.
LEMMA SaidBehind ==
    ASSUME TypeOK, Buffered, NEW c \in Conns, Talk(c), client[c].at # "login",
           NEW p \in Said,
           c2s' = [c2s EXCEPT ![c] = Append(c2s[c], [packet |-> p, zip |-> client[c].zip])],
           NEW k, client' = [client EXCEPT ![c] = k], k.zip = client[c].zip,
           UNCHANGED <<vars, s2c>>
    PROVE  /\ Len(c2s[c]) \in Nat /\ Len(c2s'[c]) = Len(c2s[c]) + 1
           /\ DOMAIN c2s[c] = 1 .. Len(c2s[c]) /\ DOMAIN c2s'[c] = 1 .. Len(c2s[c]) + 1
           /\ c2s'[c][Len(c2s[c]) + 1].packet = p
           /\ \A i \in 1 .. Len(c2s[c]) : c2s'[c][i] = c2s[c][i]
           /\ s2c'[c] = s2c[c] /\ pc'[c] = pc[c] /\ zip'[c] = zip[c] /\ client'[c] = k
           /\ ModesInFlight(c)'
           /\ \A d \in Conns \ {c} : UNCHANGED Here(d)
<1>1. /\ c2s \in [Conns -> Seq(Frame)] /\ c2s[c] \in Seq(Frame)
      /\ client \in [Conns -> [at : DOMAIN Expects, zip : BOOLEAN, chatter : Nat]]
      /\ client[c].zip \in BOOLEAN
  BY DEF Buffered
<1>2. [packet |-> p, zip |-> client[c].zip] \in Frame
  BY <1>1 DEF Frame
<1>3. /\ c2s'[c] = Append(c2s[c], [packet |-> p, zip |-> client[c].zip])
      /\ client'[c] = k
      /\ \A d \in Conns \ {c} : c2s'[d] = c2s[d] /\ client'[d] = client[d]
  BY <1>1
<1>4. UNCHANGED <<s2c, pc, zip>>
  BY DEF vars
<1>5. /\ Len(c2s[c]) \in Nat /\ Len(c2s'[c]) = Len(c2s[c]) + 1
      /\ DOMAIN c2s[c] = 1 .. Len(c2s[c]) /\ DOMAIN c2s'[c] = 1 .. Len(c2s[c]) + 1
      /\ c2s'[c][Len(c2s[c]) + 1] = [packet |-> p, zip |-> client[c].zip]
      /\ \A i \in 1 .. Len(c2s[c]) : c2s'[c][i] = c2s[c][i]
  BY <1>1, <1>2, <1>3, Appended
<1>6. \A i \in DOMAIN c2s'[c] : c2s'[c][i].zip = zip[c]
  <2>1. TAKE i \in DOMAIN c2s'[c]
  <2>2. CASE i \in DOMAIN c2s[c]
    BY <1>5, <2>2, Zenon DEF Talk, ModesInFlight
  <2>3. CASE i = Len(c2s[c]) + 1
    BY <1>5, <2>3, SameMode
  <2> QED
    BY <1>5, <2>2, <2>3
<1>7. ModesInFlight(c)'
  BY <1>3, <1>4, <1>6, Zenon DEF Talk, ModesInFlight
<1>8. \A d \in Conns \ {c} : UNCHANGED Here(d)
  BY <1>3, <1>4, Zenon DEF Here
<1>9. c2s'[c][Len(c2s[c]) + 1].packet = p
  BY <1>5
<1> QED
  BY <1>3, <1>4, <1>5, <1>7, <1>8, <1>9, Zenon

\* A client that speaks, ahead of the server or not, says what the server will
\* be ready for when it comes to it.
LEMMA ClientSaysTalks ==
    ASSUME TypeOK, Buffered, NEW c \in Conns, Talk(c), ClientSays(c)
    PROVE  Talk(c)' /\ \A d \in Conns \ {c} : UNCHANGED Here(d)
<1>t. /\ pc[c] # "free" /\ InStep(c) /\ OneStateInFlight(c)
      /\ s2c[c] \in Seq(Frame) /\ c2s[c] \in Seq(Frame)
      /\ client[c] \in [at : DOMAIN Expects, zip : BOOLEAN, chatter : Nat]
  BY DEF ClientSays, Talk, Buffered
<1>. DEFINE Behind(p, next) ==
              /\ Len(c2s[c]) \in Nat /\ Len(c2s'[c]) = Len(c2s[c]) + 1
              /\ DOMAIN c2s[c] = 1 .. Len(c2s[c]) /\ DOMAIN c2s'[c] = 1 .. Len(c2s[c]) + 1
              /\ c2s'[c][Len(c2s[c]) + 1].packet = p
              /\ \A i \in 1 .. Len(c2s[c]) : c2s'[c][i] = c2s[c][i]
              /\ s2c'[c] = s2c[c] /\ pc'[c] = pc[c] /\ client'[c].at = next
              /\ Len(<<>>) = 0
<1>1. ASSUME NEW p \in Said, NEW next, Says(c, p, next), client[c].at # "login"
      PROVE  Behind(p, next) /\ ModesInFlight(c)' /\ \A d \in Conns \ {c} : UNCHANGED Here(d)
  <2>. DEFINE k == [client[c] EXCEPT !.at = next]
  <2>1. k.zip = client[c].zip /\ k.at = next
    BY <1>t
  <2>2. /\ c2s' = [c2s EXCEPT ![c] = Append(c2s[c], [packet |-> p, zip |-> client[c].zip])]
        /\ client' = [client EXCEPT ![c] = k]
        /\ UNCHANGED <<vars, s2c>>
    BY <1>1, Zenon DEF Says
  <2>. HIDE DEF k
  <2>3. Len(<<>>) = 0
    OBVIOUS
  <2> QED
    <3>1. /\ Len(c2s[c]) \in Nat /\ Len(c2s'[c]) = Len(c2s[c]) + 1
          /\ DOMAIN c2s[c] = 1 .. Len(c2s[c]) /\ DOMAIN c2s'[c] = 1 .. Len(c2s[c]) + 1
          /\ c2s'[c][Len(c2s[c]) + 1].packet = p
          /\ \A i \in 1 .. Len(c2s[c]) : c2s'[c][i] = c2s[c][i]
          /\ s2c'[c] = s2c[c] /\ pc'[c] = pc[c] /\ client'[c] = k
          /\ ModesInFlight(c)' /\ \A d \in Conns \ {c} : UNCHANGED Here(d)
      BY <1>1, <2>1, <2>2, SaidBehind, ZenonT(40)
    <3> QED
      BY <2>1, <2>3, <3>1, Zenon
<1>2. Drained(c) \/ client[c].at \notin {"start", "asking", "finished", "choosing"}
  <2>1. SUFFICES ASSUME client[c].at \in {"start", "asking", "finished", "choosing"}
                 PROVE  Drained(c)
    OBVIOUS
  <2>2. Expects[client[c].at] = {}
    BY <2>1 DEF Expects
  <2>3. DOMAIN s2c[c] = 1 .. Len(s2c[c]) /\ Len(s2c[c]) \in Nat
    BY <1>t
  <2>4. Len(s2c[c]) = 0
    <3>1. Len(s2c[c]) # 0 => 1 \in DOMAIN s2c[c]
      BY <2>3
    <3> QED
      BY <1>t, <2>2, <3>1, Zenon DEF OneStateInFlight
  <2> QED
    BY <1>t, <2>4, EmptySeq DEF Drained
<1>. HIDE DEF Behind
<1>3. CASE client[c].at = "start" /\ Says(c, "intention", "greeting")
  <2>1. Behind("intention", "greeting")
    BY <1>1, <1>3 DEF Said
  <2>2. Drained(c) /\ (pc[c] = "handshake" => c2s[c] = <<>>)
    BY <1>t, <1>2, <1>3 DEF InStep, Opening
  <2>3. InStep(c)' /\ OneStateInFlight(c)'
    BY <1>t, <1>3, <2>1, <2>2
       DEF InStep, OneStateInFlight, Opening, Listing, Acknowledging, Configuring, Drained,
           Sent1, Behind
  <2> QED
    BY <1>1, <1>3, <2>3 DEF Said, Talk
<1>4. CASE client[c].at = "start" /\ Says(c, "statusIntention", "asking")
  <2>1. Behind("statusIntention", "asking")
    BY <1>1, <1>4 DEF Said
  <2>2. Drained(c) /\ (pc[c] = "handshake" => c2s[c] = <<>>)
    BY <1>t, <1>2, <1>4 DEF InStep, Opening
  <2>3. InStep(c)' /\ OneStateInFlight(c)'
    BY <1>t, <1>4, <2>1, <2>2
       DEF InStep, OneStateInFlight, Opening, Listing, Acknowledging, Configuring, Drained,
           Sent1, Behind
  <2> QED
    BY <1>1, <1>4, <2>3 DEF Said, Talk
<1>5. CASE client[c].at = "asking" /\ Says(c, "statusRequest", "asked")
  <2>1. Behind("statusRequest", "asked")
    BY <1>1, <1>5 DEF Said
  <2>2. Drained(c)
    BY <1>2, <1>5
  <2>3. InStep(c)' /\ OneStateInFlight(c)'
    BY <1>t, <1>5, <2>1, <2>2
       DEF InStep, OneStateInFlight, Opening, Listing, Acknowledging, Configuring, Drained,
           Sent1, Sent2, Behind
  <2> QED
    BY <1>1, <1>5, <2>3 DEF Said, Talk
<1>6. CASE client[c].at = "asking" /\ Says(c, "pingRequest", "pinged")
  <2>1. Behind("pingRequest", "pinged")
    BY <1>1, <1>6 DEF Said
  <2>2. Drained(c)
    BY <1>2, <1>6
  <2>3. InStep(c)' /\ OneStateInFlight(c)'
    BY <1>t, <1>6, <2>1, <2>2
       DEF InStep, OneStateInFlight, Opening, Listing, Acknowledging, Configuring, Drained,
           Sent1, Sent2, Behind
  <2> QED
    BY <1>1, <1>6, <2>3 DEF Said, Talk
<1>7. CASE client[c].at = "greeting" /\ Says(c, "hello", "login")
  <2>1. Behind("hello", "login")
    BY <1>1, <1>7 DEF Said
  <2>2. InStep(c)'
    BY <1>t, <1>7, <2>1
       DEF InStep, Opening, Listing, Acknowledging, Configuring, Drained, Sent1, Sent2, Behind
  <2>3. OneStateInFlight(c)'
    BY <1>t, <1>7, <2>1 DEF OneStateInFlight, Behind, Expects
  <2> QED
    BY <1>1, <1>7, <2>2, <2>3 DEF Said, Talk
<1>8. CASE client[c].at = "finished" /\ Says(c, "loginAcknowledged", "config")
  <2>1. Behind("loginAcknowledged", "config")
    BY <1>1, <1>8 DEF Said
  <2>2. Drained(c) /\ (pc[c] = "ack" => c2s[c] = <<>>)
    BY <1>t, <1>2, <1>8 DEF InStep, Acknowledging
  <2>3. InStep(c)' /\ OneStateInFlight(c)'
    BY <1>t, <1>8, <2>1, <2>2
       DEF InStep, OneStateInFlight, Opening, Listing, Acknowledging, Configuring, Drained, Behind
  <2> QED
    BY <1>1, <1>8, <2>3 DEF Said, Talk
<1>9. CASE client[c].at = "choosing" /\ Says(c, "selectKnownPacks", "waiting")
  <2>1. Behind("selectKnownPacks", "waiting")
    BY <1>1, <1>9 DEF Said
  <2>2. Drained(c) /\ (pc[c] = "config" => Chatting(c))
    BY <1>t, <1>2, <1>9 DEF InStep, Configuring
  <2>3. InStep(c)' /\ OneStateInFlight(c)'
    BY <1>t, <1>9, <2>1, <2>2
       DEF InStep, OneStateInFlight, Opening, Listing, Acknowledging, Configuring, Drained,
           Chatting, AllToServer, Behind
  <2> QED
    BY <1>1, <1>9, <2>3 DEF Said, Talk
<1> QED
  BY <1>3, <1>4, <1>5, <1>6, <1>7, <1>8, <1>9, Zenon DEF ClientSays

\* Chatter finds the server in configuration, or on its way there.
LEMMA ClientChatsTalks ==
    ASSUME TypeOK, Buffered, NEW c \in Conns, Talk(c), ClientChats(c)
    PROVE  Talk(c)' /\ \A d \in Conns \ {c} : UNCHANGED Here(d)
<1>t. /\ InStep(c) /\ OneStateInFlight(c)
      /\ s2c[c] \in Seq(Frame) /\ c2s[c] \in Seq(Frame)
      /\ client[c] \in [at : DOMAIN Expects, zip : BOOLEAN, chatter : Nat]
      /\ client[c].at \in {"config", "choosing", "waiting"}
  BY DEF ClientChats, Talk, Buffered
<1>. DEFINE k == [client[c] EXCEPT !.chatter = client[c].chatter - 1]
<1>1. k.zip = client[c].zip /\ k.at = client[c].at
  BY <1>t
<1>2. /\ c2s' = [c2s EXCEPT ![c] =
                   Append(c2s[c], [packet |-> "clientInformation", zip |-> client[c].zip])]
      /\ client' = [client EXCEPT ![c] = k]
      /\ UNCHANGED <<vars, s2c>>
  BY Zenon DEF ClientChats
<1>3. "clientInformation" \in Said /\ client[c].at # "login"
  BY <1>t DEF Said
<1>. HIDE DEF k
<1>4. /\ Len(c2s[c]) \in Nat /\ Len(c2s'[c]) = Len(c2s[c]) + 1
      /\ DOMAIN c2s[c] = 1 .. Len(c2s[c]) /\ DOMAIN c2s'[c] = 1 .. Len(c2s[c]) + 1
      /\ c2s'[c][Len(c2s[c]) + 1].packet = "clientInformation"
      /\ \A i \in 1 .. Len(c2s[c]) : c2s'[c][i] = c2s[c][i]
      /\ s2c'[c] = s2c[c] /\ pc'[c] = pc[c] /\ client'[c].at = client[c].at
      /\ ModesInFlight(c)'
      /\ \A d \in Conns \ {c} : UNCHANGED Here(d)
  <2>1. /\ Len(c2s[c]) \in Nat /\ Len(c2s'[c]) = Len(c2s[c]) + 1
        /\ DOMAIN c2s[c] = 1 .. Len(c2s[c]) /\ DOMAIN c2s'[c] = 1 .. Len(c2s[c]) + 1
        /\ c2s'[c][Len(c2s[c]) + 1].packet = "clientInformation"
        /\ \A i \in 1 .. Len(c2s[c]) : c2s'[c][i] = c2s[c][i]
        /\ s2c'[c] = s2c[c] /\ pc'[c] = pc[c] /\ client'[c] = k
        /\ ModesInFlight(c)' /\ \A d \in Conns \ {c} : UNCHANGED Here(d)
    BY <1>1, <1>2, <1>3, SaidBehind, Zenon
  <2> QED
    BY <1>1, <2>1, Zenon
<1>5. ASSUME NEW packets, "clientInformation" \in packets, AllToServer(c, packets)
      PROVE  \A i \in DOMAIN c2s'[c] : c2s'[c][i].packet \in packets
  BY <1>4, <1>5 DEF AllToServer
<1>6. Chatting(c) => Chatting(c)'
  BY <1>5 DEF Chatting, AllToServer
<1>7. OneStateInFlight(c)'
  BY <1>4 , <1>t DEF OneStateInFlight
<1>8. InStep(c)'
  <2>1. CASE pc[c] = "ack"
    <3>1. /\ client[c].at = "config" /\ Drained(c)
          /\ c2s[c] # <<>> /\ c2s[c][1].packet = "loginAcknowledged"
          /\ \A i \in DOMAIN c2s[c] : i > 1 => c2s[c][i].packet = "clientInformation"
      BY <1>t, <2>1 DEF InStep, Acknowledging
    <3>2. Len(c2s[c]) > 0
      BY <1>t, <1>4, <3>1, EmptySeq
    <3>3. Acknowledging(c)'
      <4>1. c2s'[c] # <<>>
        <5>1. Len(c2s'[c]) # Len(<<>>)
          BY <1>4, SMT
        <5> QED
          BY <5>1, Zenon
      <4>2. 1 \in 1 .. Len(c2s[c]) /\ c2s'[c][1].packet = "loginAcknowledged"
        BY <1>4, <3>1, <3>2
      <4>3. \A i \in DOMAIN c2s'[c] : i > 1 => c2s'[c][i].packet = "clientInformation"
        <5> TAKE i \in DOMAIN c2s'[c]
        <5>1. i \in DOMAIN c2s[c] \/ i = Len(c2s[c]) + 1
          BY <1>4
        <5> QED
          BY <1>4, <3>1, <5>1
      <4> QED
        BY <1>4, <3>1, <4>1, <4>2, <4>3, Zenon DEF Acknowledging, Drained
    <3> QED
      BY <1>4, <2>1, <3>3 DEF InStep, Acknowledging, AllToClient, Drained
  <2>2. CASE pc[c] = "config"
    <3>1. Configuring(c)'
      BY <1>t, <1>4, <1>5, <1>6, <2>2
         DEF InStep, Configuring, Drained, Chatting, AllToServer, AllToClient
    <3> QED
      BY <1>4, <2>2, <3>1
         DEF InStep, Configuring, Drained, Chatting, AllToServer, AllToClient
  <2>3. CASE pc[c] \notin {"ack", "config"}
    BY <1>t, <1>4, <1>6, <2>3
       DEF InStep, Opening, Listing, Drained, Chatting, AllToServer, AllToClient
  <2> QED
    BY <2>1, <2>2, <2>3
<1> QED
  BY <1>4, <1>7, <1>8 DEF Talk

\* A client that takes a frame is in the state, and in the mode, for the next one.
LEMMA ClientTakesTalks ==
    ASSUME TypeOK, Buffered, NEW c \in Conns, Talk(c), ClientTakes(c)
    PROVE  Talk(c)' /\ \A d \in Conns \ {c} : UNCHANGED Here(d)
<1>. DEFINE p == Head(s2c[c]).packet
            k == client[c]
<1>t. /\ InStep(c) /\ OneStateInFlight(c) /\ ModesInFlight(c)
      /\ s2c \in [Conns -> Seq(Frame)] /\ s2c[c] \in Seq(Frame) /\ c2s[c] \in Seq(Frame)
      /\ s2c[c] # <<>> /\ p \in Expects[k.at]
      /\ client \in [Conns -> [at : DOMAIN Expects, zip : BOOLEAN, chatter : Nat]]
      /\ k \in [at : DOMAIN Expects, zip : BOOLEAN, chatter : Nat]
      /\ zip[c] \in BOOLEAN
  BY DEF ClientTakes, Talk, Buffered, TypeOK
<1>1. /\ client' = [client EXCEPT ![c] = Received(k, p)]
      /\ s2c' = [s2c EXCEPT ![c] = Tail(s2c[c])]
      /\ UNCHANGED <<c2s, pc, zip>>
  BY Zenon DEF ClientTakes
<1>2. /\ client'[c] = Received(k, p) /\ s2c'[c] = Tail(s2c[c])
      /\ \A d \in Conns \ {c} : UNCHANGED Here(d)
  <2>. HIDE DEF p, k
  <2> QED
    BY <1>t, <1>1 DEF Here
<1>3. /\ s2c'[c] \in Seq(Frame)
      /\ Len(s2c[c]) \in Nat \ {0} /\ Len(s2c'[c]) = Len(s2c[c]) - 1
      /\ DOMAIN s2c[c] = 1 .. Len(s2c[c]) /\ DOMAIN s2c'[c] = 1 .. Len(s2c[c]) - 1
      /\ \A i \in 1 .. Len(s2c[c]) - 1 : s2c'[c][i] = s2c[c][i + 1]
      /\ Head(s2c[c]) = s2c[c][1]
  BY <1>t, <1>2, TakenOff
<1>4. /\ Received(k, p).zip \in BOOLEAN
      /\ Received(k, p).zip <=> k.zip \/ p = "setCompression"
      /\ p \in {"setCompression", "brand"} => Received(k, p).at = k.at
      /\ p = "statusReply" => Received(k, p).at = "asking"
      /\ p = "loginFinished" => Received(k, p).at = "finished"
      /\ p = "knownPacks" => Received(k, p).at = "choosing"
      /\ p \notin {"setCompression", "brand", "statusReply", "loginFinished", "knownPacks"} =>
           Received(k, p).at = "gone"
  <2>. HIDE DEF p, k
  <2> QED
    BY <1>t, ClientBecomes
<1>5. ModesInFlight(c)'
  <2>1. InModes(s2c'[c], k.zip \/ p = "setCompression", zip[c])
    BY <1>t, <1>2, ModesBehind DEF ModesInFlight
  <2>2. Received(k, p).zip = (k.zip \/ p = "setCompression")
    BY <1>t, <1>4
  <2> QED
    BY <1>t, <1>1, <1>2, <2>1, <2>2, Zenon DEF ModesInFlight
\* What ends a state has nothing behind it.
<1>6. p \in {"setCompression", "brand"} \/ Drained(c)'
  <2>1. ASSUME p \notin {"setCompression", "brand"} PROVE Len(s2c[c]) = 1
    <3>1. 1 \in DOMAIN s2c[c] /\ s2c[c][1].packet = p
      BY <1>3
    <3>2. ~ (1 < Len(s2c[c]))
      BY <1>t, <2>1, <3>1, Zenon DEF OneStateInFlight
    <3>3. \A n \in Nat \ {0} : n = 1 \/ 1 < n
      OBVIOUS
    <3> QED
      BY <1>3, <3>2, <3>3, Zenon
  <2>2. Len(s2c'[c]) = 0 => s2c'[c] = <<>>
    BY <1>3, EmptySeq
  <2> QED
    BY <1>3, <2>1, <2>2 DEF Drained
<1>7. ASSUME NEW i \in DOMAIN s2c'[c]
      PROVE  i + 1 \in DOMAIN s2c[c] /\ s2c'[c][i] = s2c[c][i + 1]
  BY <1>3
<1>8. ASSUME NEW packets, AllToClient(c, packets) PROVE AllToClient(c, packets)'
  BY <1>7, <1>8, Zenon DEF AllToClient
<1>9. Drained(c) = FALSE /\ Len(<<>>) = 0
  BY <1>t DEF Drained
<1>10. OneStateInFlight(c)'
  <2>1. CASE Drained(c)'
    BY <2>1 DEF Drained, OneStateInFlight
  <2>2. CASE p \in {"setCompression", "brand"}
    <3>1. SUFFICES ASSUME NEW i \in DOMAIN s2c'[c]
                   PROVE  /\ s2c'[c][i].packet \in Expects[client'[c].at]
                          /\ i < Len(s2c'[c]) => s2c'[c][i].packet \in {"setCompression", "brand"}
      BY Zenon DEF OneStateInFlight
    <3>2. i + 1 < Len(s2c[c]) <=> i < Len(s2c'[c])
      BY <1>3
    <3>3. client'[c].at = k.at
      BY <1>2, <1>4, <2>2
    <3>4. /\ s2c[c][i + 1].packet \in Expects[k.at]
          /\ i + 1 < Len(s2c[c]) => s2c[c][i + 1].packet \in {"setCompression", "brand"}
      BY <1>t, <1>7, Zenon DEF OneStateInFlight
    <3> QED
      BY <1>7, <3>2, <3>3, <3>4, Zenon
  <2> QED
    BY <1>6, <2>1, <2>2
<1>11. InStep(c)'
  <2>1. pc'[c] = pc[c] /\ c2s'[c] = c2s[c]
    BY <1>1
  <2>2. 1 \in DOMAIN s2c[c] /\ s2c[c][1].packet = p
    BY <1>3
  <2>3. CASE pc[c] = "status"
    <3>1. k.at = "asked" /\ c2s[c] = <<>> /\ p = "statusReply"
      BY <1>t, <1>9, <2>3 DEF InStep, Listing, Expects
    <3>2. client'[c].at = "asking" /\ Drained(c)'
      BY <1>2, <1>4, <1>6, <3>1
    <3> QED
      BY <2>1, <2>3, <3>1, <3>2 DEF InStep, Listing, Drained
  <2>4. CASE pc[c] = "loginFinished"
    <3>1. k.at = "login" /\ c2s[c] = <<>> /\ AllToClient(c, {"setCompression"})
          /\ p = "setCompression"
      BY <1>t, <2>2, <2>4 DEF InStep, AllToClient
    <3>2. client'[c].at = "login" /\ AllToClient(c, {"setCompression"})'
      BY <1>2, <1>4, <1>8, <3>1
    <3> QED
      BY <2>1, <2>4, <3>1, <3>2 DEF InStep, AllToClient
  <2>5. CASE pc[c] = "ack"
    <3>1. /\ k.at = "login" /\ c2s[c] = <<>>
          /\ AllToClient(c, {"setCompression", "loginFinished"})
          /\ p \in {"setCompression", "loginFinished"}
      BY <1>t, <1>9, <2>2, <2>5 DEF InStep, Acknowledging, AllToClient, Expects
    <3>2. AllToClient(c, {"setCompression", "loginFinished"})'
      BY <1>8, <3>1
    <3>3. client'[c].at \in {"login", "finished"}
      BY <1>2, <1>4, <3>1
    <3>4. Acknowledging(c)'
      BY <2>1, <3>1, <3>2, <3>3, Zenon DEF Acknowledging, AllToClient
    <3> QED
      BY <2>1, <2>5, <3>4 DEF InStep
  <2>6. CASE pc[c] = "knownPacks"
    <3>1. k.at = "config" /\ Chatting(c) /\ AllToClient(c, {"brand"}) /\ p = "brand"
      BY <1>t, <2>2, <2>6 DEF InStep, AllToClient
    <3>2. client'[c].at = "config" /\ AllToClient(c, {"brand"})'
      BY <1>2, <1>4, <1>8, <3>1
    <3> QED
      BY <2>1, <2>6, <3>1, <3>2 DEF InStep, AllToClient, Chatting, AllToServer
  <2>7. CASE pc[c] = "config"
    <3>1. /\ k.at = "config" /\ Chatting(c) /\ AllToClient(c, {"brand", "knownPacks"})
          /\ p \in {"brand", "knownPacks"}
      BY <1>t, <1>9, <2>2, <2>7 DEF InStep, Configuring, AllToClient, Expects
    <3>2. AllToClient(c, {"brand", "knownPacks"})'
      BY <1>8, <3>1
    <3>3. client'[c].at \in {"config", "choosing"}
      BY <1>2, <1>4, <3>1
    <3>4. Configuring(c)'
      BY <2>1, <3>1, <3>2, <3>3 DEF Configuring, AllToClient, Chatting, AllToServer
    <3> QED
      BY <2>1, <2>7, <3>4 DEF InStep
  <2>8. CASE pc[c] \notin {"status", "loginFinished", "ack", "knownPacks", "config"}
    <3>1. pc[c] \in {"leave", "closing"} \/ pc[c] \notin Pcs
      BY <1>t, <1>9, <2>8 DEF InStep, Opening, Pcs, Reading, Sending, LastWords
    <3>2. pc[c] \in {"leave", "closing"}
      BY <3>1 DEF TypeOK
    <3> QED
      BY <2>1, <3>2 DEF InStep
  <2> QED
    BY <2>3, <2>4, <2>5, <2>6, <2>7, <2>8
<1> QED
  BY <1>2, <1>5, <1>10, <1>11 DEF Talk

-----------------------------------------------------------------------------
(* The streams stay streams.                                               *)

Clients == [at : DOMAIN Expects, zip : BOOLEAN, chatter : Nat]

\* The steps that leave what is on its way to the clients alone.
LEMMA ServerBound ==
    ASSUME TypeOK, Buffered, NEW c \in Conns,
           Serve(c) \/ Open(c) \/ Answer(c) \/ Drop(c) \/ Depart(c)
             \/ ClientSays(c) \/ ClientChats(c)
    PROVE  Buffered'
<1>t. /\ s2c \in [Conns -> Seq(Frame)] /\ c2s \in [Conns -> Seq(Frame)]
      /\ client \in [Conns -> Clients] /\ c2s[c] \in Seq(Frame) /\ client[c] \in Clients
  BY DEF Buffered, Clients
<1>1. UNCHANGED <<s2c, unread, quiet>>
  <2>1. CASE Serve(c)
    BY <2>1, Zenon DEF Serve, Takes, Intention, StatusRequest, PingRequest, Hello,
       LoginAcknowledged, ConfigPacket, SelectKnownPacks, vars
  <2>2. CASE Open(c) \/ Answer(c) \/ Drop(c) \/ Depart(c)
    BY <2>2, Zenon DEF Open, Answer, Drop, Depart, wire, Accept, CountPlayers, SamplePlayers,
       PeekStatus, RebuildStatus, Fault, SendFails, ReadFails, TimeOut, Leave
  <2>3. CASE ClientSays(c) \/ ClientChats(c)
    BY <2>3, Zenon DEF ClientSays, Says, ClientChats, vars
  <2> QED
    BY <2>1, <2>2, <2>3
<1>2. c2s' \in [Conns -> Seq(Frame)] /\ client' \in [Conns -> Clients]
  <2>1. CASE Serve(c)
    <3>1. /\ c2s[c] # <<>> /\ c2s' = [c2s EXCEPT ![c] = Tail(c2s[c])] /\ UNCHANGED client
      BY <2>1, Zenon DEF Serve, Takes
    <3>2. Tail(c2s[c]) \in Seq(Frame)
      BY <1>t, <3>1, TakenOff
    <3> QED
      BY <1>t, <3>1, <3>2
  <2>2. CASE Open(c) \/ Answer(c) \/ Drop(c) \/ Depart(c)
    BY <1>t, <2>2, Zenon DEF Open, Answer, Drop, Depart, wire
  <2>3. CASE ClientSays(c)
    <3>1. PICK p \in Said, next \in DOMAIN Expects : Says(c, p, next)
      BY <2>3 DEF ClientSays, Said, Expects
    <3>2. Append(c2s[c], [packet |-> p, zip |-> client[c].zip]) \in Seq(Frame)
      BY <1>t, AppendProperties DEF Frame, Clients
    <3> QED
      BY <1>t, <3>1, <3>2 DEF Says, Clients
  <2>4. CASE ClientChats(c)
    <3>1. Append(c2s[c], [packet |-> "clientInformation", zip |-> client[c].zip]) \in Seq(Frame)
      BY <1>t, AppendProperties DEF Frame, Clients, Said
    <3>2. client[c].chatter - 1 \in Nat
      BY <1>t, <2>4 DEF ClientChats, Clients
    <3> QED
      BY <1>t, <2>4, <3>1, <3>2 DEF ClientChats, Clients
  <2> QED
    BY <2>1, <2>2, <2>3, <2>4
<1> QED
  BY <1>1, <1>2, Zenon DEF Buffered, Clients

\* The steps that do not, each with the count the kernel keeps.
LEMMA ClientBound ==
    ASSUME TypeOK, Buffered, NEW c \in Conns, Transmit(c) \/ ClientTakes(c) \/ Hangup(c)
    PROVE  Buffered'
<1>t. /\ s2c \in [Conns -> Seq(Frame)] /\ c2s \in [Conns -> Seq(Frame)]
      /\ client \in [Conns -> Clients] /\ s2c[c] \in Seq(Frame) /\ client[c] \in Clients
      /\ unread \in [Conns -> 0 .. SendCap] /\ quiet \in [Conns -> BOOLEAN]
      /\ \A d \in Conns : unread[d] = Len(s2c[d]) /\ ~quiet[d]
  BY DEF TypeOK, Buffered, Clients
<1>1. CASE Transmit(c)
  <2>1. /\ s2c' = [s2c EXCEPT ![c] = Append(s2c[c], Framed(c))]
        /\ unread' = [unread EXCEPT ![c] = unread[c] + 1]
        /\ UNCHANGED <<c2s, client, quiet>> /\ pc[c] \in Sending
    BY <1>1, Zenon DEF Transmit, Send
  <2>2. Framed(c) \in Frame
    BY <2>1 DEF Framed, Frame, TypeOK
  <2>3. Append(s2c[c], Framed(c)) \in Seq(Frame)
        /\ Len(Append(s2c[c], Framed(c))) = Len(s2c[c]) + 1
    BY <1>t, <2>2, Appended
  <2>4. \A d \in Conns : unread'[d] = Len(s2c'[d])
    BY <1>t, <2>1, <2>3
  <2> QED
    BY <1>t, <2>1, <2>3, <2>4 DEF Buffered, Clients
<1>2. CASE ClientTakes(c)
  <2>1. /\ s2c' = [s2c EXCEPT ![c] = Tail(s2c[c])] /\ s2c[c] # <<>>
        /\ unread' = [unread EXCEPT ![c] = unread[c] - 1]
        /\ client' = [client EXCEPT ![c] = Received(client[c], Head(s2c[c]).packet)]
        /\ Head(s2c[c]).packet \in Expects[client[c].at]
        /\ UNCHANGED <<c2s, quiet>>
    BY <1>2, Zenon DEF ClientTakes
  <2>2. Tail(s2c[c]) \in Seq(Frame) /\ Len(Tail(s2c[c])) = Len(s2c[c]) - 1
    BY <1>t, <2>1, TakenOff
  <2>3. \A d \in Conns : unread'[d] = Len(s2c'[d])
    BY <1>t, <2>1, <2>2
  <2>4. Received(client[c], Head(s2c[c]).packet) \in Clients
    BY <1>t, <2>1, ClientBecomes DEF Clients
  <2> QED
    BY <1>t, <2>1, <2>2, <2>3, <2>4 DEF Buffered, Clients
<1>3. CASE Hangup(c)
  <2>1. /\ s2c' = [s2c EXCEPT ![c] = <<>>] /\ c2s' = [c2s EXCEPT ![c] = <<>>]
        /\ client' = [client EXCEPT ![c] = FreshClient]
        /\ unread' = [unread EXCEPT ![c] = 0] /\ quiet' = [quiet EXCEPT ![c] = FALSE]
    BY <1>3, Zenon DEF Hangup, Close
  <2>2. FreshClient \in Clients
    BY LoginWireAssumption DEF FreshClient, Clients, Expects
  <2>3. <<>> \in Seq(Frame) /\ Len(<<>>) = 0
    OBVIOUS
  <2>4. \A d \in Conns : unread'[d] = Len(s2c'[d]) /\ ~quiet'[d]
    BY <1>t, <2>1, <2>3
  <2> QED
    BY <1>t, <2>1, <2>2, <2>3, <2>4 DEF Buffered, Clients
<1> QED
  BY <1>1, <1>2, <1>3

-----------------------------------------------------------------------------
(* The theorems.                                                           *)

\* No socket is open at first.
LEMMA WInitInv == WInit => WInv
<1> SUFFICES ASSUME WInit PROVE WInv
  OBVIOUS
<1>1. IInv
  BY InitInv DEF WInit
<1>2. /\ pc = [c \in Conns |-> "free"] /\ zip = [c \in Conns |-> FALSE]
      /\ unread = [c \in Conns |-> 0] /\ quiet = [c \in Conns |-> FALSE]
      /\ s2c = [c \in Conns |-> <<>>] /\ c2s = [c \in Conns |-> <<>>]
      /\ client = [c \in Conns |-> FreshClient]
  BY DEF WInit, Init
<1>3. FreshClient \in Clients /\ FreshClient.at = "start" /\ FreshClient.zip = FALSE
  BY LoginWireAssumption DEF FreshClient, Clients, Expects
<1>4. <<>> \in Seq(Frame) /\ Len(<<>>) = 0 /\ \A i : i \notin DOMAIN <<>>
  OBVIOUS
<1>5. Buffered
  BY <1>2, <1>3, <1>4 DEF Buffered, Clients
<1>6. ASSUME NEW c \in Conns PROVE Talk(c)
  <2>1. /\ pc[c] = "free" /\ zip[c] = FALSE /\ s2c[c] = <<>> /\ c2s[c] = <<>>
        /\ client[c].at = "start" /\ client[c].zip = FALSE
    BY <1>2, <1>3
  <2>2. ~ Switches(<<>>, 0)
    BY DEF Switches
  <2>3. ModesInFlight(c) /\ OneStateInFlight(c)
    BY <1>4, <2>1, <2>2, Zenon DEF ModesInFlight, InModes, OneStateInFlight
  <2>4. InStep(c)
    BY <2>1 DEF InStep, Drained
  <2> QED
    BY <2>3, <2>4 DEF Talk
<1> QED
  BY <1>1, <1>5, <1>6 DEF WInv

\* A step is one task's, its streams' and its client's, and keeps that socket in
\* step; it leaves the other sockets alone.
LEMMA WNextInv == WInv /\ [WNext]_wvars => WInv'
<1> SUFFICES ASSUME WInv, [WNext]_wvars PROVE WInv'
  OBVIOUS
<1>. USE DEF WInv
<1>1. IInv'
  BY StepsOnTheWire, NextInv
<1>2. TypeOK
  BY DEF IInv
<1>3. CASE UNCHANGED wvars
  <2>1. Buffered'
    BY <1>3 DEF wvars, vars, wire, Buffered
  <2>2. ASSUME NEW c \in Conns PROVE Talk(c)'
    <3>1. UNCHANGED Here(c)
      BY <1>3 DEF wvars, vars, wire, Here
    <3> QED
      BY <3>1, Elsewhere
  <2> QED
    BY <1>1, <2>1, <2>2
<1>4. ASSUME NEW c \in Conns,
             \/ Open(c) \/ Transmit(c) \/ Serve(c) \/ Answer(c)
             \/ Drop(c) \/ Depart(c) \/ Hangup(c)
             \/ ClientSays(c) \/ ClientChats(c) \/ ClientTakes(c)
      PROVE  WInv'
  <2>1. Buffered'
    BY <1>2, <1>4, ServerBound, ClientBound
  <2>2. Talk(c)' /\ \A d \in Conns \ {c} : UNCHANGED Here(d)
    BY <1>2, <1>4, TransmitTalks, ServeTalks, TaskTalks, HangupTalks, ClientSaysTalks,
       ClientChatsTalks, ClientTakesTalks
  <2>3. ASSUME NEW d \in Conns \ {c} PROVE Talk(d)'
    BY <2>2, Elsewhere
  <2> QED
    BY <1>1, <2>1, <2>2, <2>3
<1> QED
  BY <1>3, <1>4, Zenon DEF WNext

\* What is on the wire agrees with both of its ends, always.
LEMMA WInvariance == WSpec => []WInv
<1>1. WInit => WInv
  BY WInitInv
<1>2. WInv /\ [WNext]_wvars => WInv'
  BY WNextInv
<1> QED
  BY <1>1, <1>2, PTL DEF WSpec

\* Composition: the tasks behind their sockets, with the byte streams and clients
\* that follow the protocol, behave as the tasks of Connections, so that all that
\* is proved of those holds on the wire.
THEOREM TasksOnTheWire == WSpec => Spec
<1>1. WInit => Init
  BY DEF WInit
<1>2. WInv /\ [WNext]_wvars => [Next]_vars
  BY StepsOnTheWire DEF WInv
<1> QED
  BY <1>1, <1>2, WInvariance, PTL DEF WSpec, Spec

\* Connection::set_compression takes effect at the same byte of both streams at
\* both ends, whatever each end has sent ahead.
THEOREM ModesAgree == WSpec => []FramingAgrees
<1>1. WInv => FramingAgrees
  <2>1. SUFFICES ASSUME WInv, NEW c \in Conns
                 PROVE  /\ s2c[c] # <<>> => Head(s2c[c]).zip = client[c].zip
                        /\ c2s[c] # <<>> => Head(c2s[c]).zip = zip[c]
    BY DEF FramingAgrees
  <2>2. /\ s2c[c] \in Seq(Frame) /\ c2s[c] \in Seq(Frame) /\ client[c].zip \in BOOLEAN
        /\ Talk(c)
    BY <2>1 DEF WInv, Buffered
  <2>3. ASSUME s2c[c] # <<>> PROVE Head(s2c[c]).zip = client[c].zip
    <3>1. Head(s2c[c]) = s2c[c][1] /\ s2c[c][1] \in Frame /\ 1 \in DOMAIN s2c[c]
      BY <2>2, <2>3, TakenOff
    <3>2. ~ Switches(s2c[c], 1 - 1)
      BY DEF Switches
    <3>3. s2c[c][1].zip <=> client[c].zip
      BY <2>2, <3>1, <3>2, Zenon DEF Talk, ModesInFlight, InModes
    <3> QED
      BY <2>2, <3>1, <3>3 DEF Frame
  <2>4. ASSUME c2s[c] # <<>> PROVE Head(c2s[c]).zip = zip[c]
    <3>1. Head(c2s[c]) = c2s[c][1] /\ 1 \in DOMAIN c2s[c]
      BY <2>2, <2>4, TakenOff
    <3> QED
      BY <2>2, <3>1, Zenon DEF Talk, ModesInFlight
  <2> QED
    BY <2>3, <2>4
<1> QED
  BY <1>1, WInvariance, PTL

\* No packet reaches an end in a state that does not know it: handle's phases and
\* the client's move in step, a refusal by try_insert included.
THEOREM PacketsExpected == WSpec => []StatesAgree
<1>1. WInv => StatesAgree
  <2>1. SUFFICES ASSUME WInv, NEW c \in Conns
                 PROVE  /\ s2c[c] # <<>> => Head(s2c[c]).packet \in Expects[client[c].at]
                        /\ c2s[c] # <<>> /\ pc[c] \in Reading =>
                             Head(c2s[c]).packet \in Accepts[pc[c]]
    BY DEF StatesAgree
  <2>2. s2c[c] \in Seq(Frame) /\ c2s[c] \in Seq(Frame) /\ Talk(c)
    BY <2>1 DEF WInv, Buffered
  <2>3. ASSUME s2c[c] # <<>> PROVE Head(s2c[c]).packet \in Expects[client[c].at]
    <3>1. Head(s2c[c]) = s2c[c][1] /\ 1 \in DOMAIN s2c[c]
      BY <2>2, <2>3, TakenOff
    <3> QED
      BY <2>2, <3>1, Zenon DEF Talk, OneStateInFlight
  <2>4. ASSUME c2s[c] # <<>>, pc[c] \in Reading PROVE Head(c2s[c]).packet \in Accepts[pc[c]]
    <3>1. /\ Head(c2s[c]) = c2s[c][1] /\ 1 \in DOMAIN c2s[c] /\ Len(c2s[c]) # 0
          /\ InStep(c)
      BY <2>2, <2>4, TakenOff DEF Talk
    <3>2. CASE pc[c] = "handshake"
      BY <2>4, <3>1, <3>2 DEF InStep, Opening, Sent1, Sent2, Accepts
    <3>3. CASE pc[c] = "status"
      BY <2>4, <3>1, <3>3 DEF InStep, Listing, Sent1, Accepts
    <3>4. CASE pc[c] = "login"
      BY <2>4, <3>1, <3>4 DEF InStep, Sent1, Accepts
    <3>5. CASE pc[c] = "ack"
      BY <2>4, <3>1, <3>5 DEF InStep, Acknowledging, Accepts
    <3>6. CASE pc[c] = "config"
      BY <2>4, <3>1, <3>6 DEF InStep, Configuring, Chatting, AllToServer, Accepts
    <3> QED
      BY <2>4, <3>2, <3>3, <3>4, <3>5, <3>6 DEF Reading
  <2> QED
    BY <2>3, <2>4
<1> QED
  BY <1>1, WInvariance, PTL
==============================================================================
