----------------------------- MODULE Connections -----------------------------
(***************************************************************************)
(* The connection tasks of rukkit-server and the state they share.         *)
(*                                                                         *)
(* Every accepted socket is driven by one task (connection.rs, `handle`)   *)
(* through handshake, then either the server-list exchange or login and    *)
(* configuration.  The tasks run on a multi-threaded runtime and share two *)
(* lock-protected objects: the player registry (player.rs) and the cached  *)
(* status document (status.rs).  A step of this module is the code between *)
(* two points where another task can run: an await (a read or a send) or   *)
(* the release of a lock.                                                  *)
(*                                                                         *)
(* pc[c] names the point task c has reached:                               *)
(*   free           no socket; the next accepted one may use this slot     *)
(*   handshake, status, login, ack, config    waiting for a packet         *)
(*   count, sample, peek, rebuild             inside a status request      *)
(*   the members of Sending                   waiting for a write          *)
(*   leave          configuration is over, players.remove is next          *)
(*   closing        conn.shutdown is next                                  *)
(***************************************************************************)
EXTENDS Naturals, FiniteSets, Sequences

CONSTANTS
    Conns,        \* the sockets that can be open at once
    Names,        \* the names players log in with
    Uuids,        \* the keys of the registry
    OfflineUuid,  \* offline_uuid: [Names -> Uuids], an MD5 digest of the name
    MaxPlayers,   \* config.max_players
    SampleLimit,  \* names listed in a status document (12 in the code)
    Compression,  \* config.compression() is Some(_)
    OnlineMode,   \* config.online_mode
    Mute,         \* the sockets whose peer may stop without closing them
    SendCap,      \* frames the kernel buffers for a client that does not read
    CounterMod,   \* StatusCache.rebuilds counts modulo this (2^64 in the code)
    None          \* Rust's Option::None

\* What a status request reads, the document built from it, and the cache slot.
Keys == [online : 0 .. MaxPlayers, sample : Seq(Names)]
Documents == [online : 0 .. MaxPlayers, names : Seq(Names)]
CacheEntries == [online : 0 .. MaxPlayers, sample : Seq(Names), json : Documents]

\* The digest is taken to be free of collisions, as the code takes it: the
\* registry is keyed by uuid but checks uniqueness by name.
ASSUME ConnectionsAssumption ==
    /\ IsFiniteSet(Conns)
    /\ OfflineUuid \in [Names -> Uuids]
    /\ \A m, n \in Names : OfflineUuid[m] = OfflineUuid[n] => m = n
    /\ MaxPlayers \in Nat
    /\ SampleLimit \in Nat
    /\ Compression \in BOOLEAN
    /\ OnlineMode \in BOOLEAN
    /\ Mute \subseteq Conns
    /\ SendCap \in Nat \ {0}
    /\ CounterMod \in Nat \ {0, 1}
    /\ None \notin Names \cup Keys \cup Documents \cup CacheEntries

VARIABLES
    pc,       \* pc[c]: where task c stands
    name,     \* name[c]: the name of c's Hello packet, or None
    zip,      \* zip[c]: the codec of c has compression enabled
    unread,   \* unread[c]: frames sent to the client and not read by it
    quiet,    \* quiet[c]: the peer has stopped, it neither sends nor reads
    key,      \* key[c]: the count and sample the current status request read
    doc,      \* doc[c]: the document that request is about to send
    players,  \* PlayerRegistry.players: uuid -> PlayerInfo
    cached,   \* StatusCache.cached
    rebuilds  \* StatusCache.rebuilds, documents serialized so far

vars == <<pc, name, zip, unread, quiet, key, doc, players, cached, rebuilds>>

status == <<key, doc, cached, rebuilds>>

Reading == {"handshake", "status", "login", "ack", "config"}

\* The packets a task writes, each at its own point of the code; after the pong
\* and the refusals before a slot is taken nothing but the shutdown follows.
LastWords == {"versionRefuse", "pong", "onlineRefuse", "joinRefuse"}

Sending == LastWords \cup {"statusReply", "setCompression", "loginFinished",
                          "brand", "knownPacks", "configRefuse"}

\* Mutated: configuration starts before the client has acknowledged the login.
AfterSendUnacknowledged(packet) ==
    CASE packet = "statusReply"    -> "status"
      [] packet = "setCompression" -> "loginFinished"
      [] packet = "loginFinished"  -> "brand"
      [] packet = "brand"          -> "knownPacks"
      [] packet = "knownPacks"     -> "config"
      [] packet = "configRefuse"   -> "leave"
      [] packet \in LastWords       -> "closing"

\* Where the task continues once the packet has been written.
AfterSend(packet) ==
    CASE packet = "statusReply"    -> "status"
      [] packet = "setCompression" -> "loginFinished"
      [] packet = "loginFinished"  -> "ack"
      [] packet = "brand"          -> "knownPacks"
      [] packet = "knownPacks"     -> "config"
      [] packet = "configRefuse"   -> "leave"
      [] packet \in LastWords       -> "closing"

\* The part of a task's life between players.try_insert and players.remove.
Admitted == {"brand", "knownPacks", "config", "configRefuse", "leave"}

Pcs == Reading \cup Sending
         \cup {"free", "count", "sample", "peek", "rebuild", "leave", "closing"}

Holds(c) == pc[c] \in Admitted

-----------------------------------------------------------------------------
(* The player registry.                                                    *)

\* Every call below takes the RwLock once and returns owned data.
Count(reg) == Cardinality(DOMAIN reg)

NameTaken(reg, n) == \E u \in DOMAIN reg : reg[u].name = n

\* Mutated: names are not compared, the uuid is left to tell players apart.
JoinOutcomeAnyName(reg, n) == IF Count(reg) >= MaxPlayers THEN "Full" ELSE "Ok"

\* Capacity is checked before the name, as in try_insert.
JoinOutcome(reg, n) ==
    IF Count(reg) >= MaxPlayers THEN "Full"
    ELSE IF NameTaken(reg, n) THEN "NameTaken" ELSE "Ok"

\* HashMap::insert replaces the value of an existing key.
Inserted(reg, n, c) ==
    [u \in DOMAIN reg \cup {OfflineUuid[n]} |->
        IF u = OfflineUuid[n] THEN [name |-> n, addr |-> c] ELSE reg[u]]

\* Mutated: the entry goes but the key stays behind.
RemovedOther(reg, u) == [v \in DOMAIN reg |-> IF v = u THEN None ELSE reg[v]]

Removed(reg, u) == [v \in DOMAIN reg \ {u} |-> reg[v]]

\* sample_names(SampleLimit): a HashMap iterates in an order of its own, so the
\* sample is any arrangement of that many of the connected names.
SampleNames(reg) ==
    LET names == {reg[u].name : u \in DOMAIN reg}
        len == IF Count(reg) < SampleLimit THEN Count(reg) ELSE SampleLimit
    IN  {s \in [1..len -> names] : \A i, j \in 1..len : s[i] = s[j] => i = j}

\* StatusCache::build, reduced to the fields that vary.
Build(k) ==
    [ online |-> k.online,
      names |-> SubSeq(k.sample, 1, IF Len(k.sample) < SampleLimit
                                    THEN Len(k.sample) ELSE SampleLimit) ]

\* Mutated: the count alone decides, as the module comment has it.
CacheHitByCount(k) == cached # None /\ cached.online = k.online

CacheHit(k) == cached # None /\ cached.online = k.online /\ cached.sample = k.sample

-----------------------------------------------------------------------------
(* One task.                                                               *)

\* Mutated: `?` applied to configuration_phase itself skips players.remove.
ExitEarly(c) == "closing"

\* The error paths: `?` leaves the phase.  After try_insert succeeded the
\* result of configuration_phase is held until players.remove has run.
Exit(c) == IF Holds(c) THEN "leave" ELSE "closing"

Goto(c, where) == pc' = [pc EXCEPT ![c] = where]

\* A packet can be read only while the peer is still there to send it.
Awaits(c, where) == pc[c] = where /\ ~quiet[c]

\* The accept loop spawns `handle` for a new socket.
Accept(c) ==
    /\ pc[c] = "free"
    /\ Goto(c, "handshake")
    /\ UNCHANGED <<name, zip, unread, quiet, players, status>>

\* The handshake's Intention packet: its next state and whether its protocol
\* version is the one this server speaks.  Transfer is treated as login.
Intention(c) ==
    /\ Awaits(c, "handshake")
    /\ \E where \in {"status", "login", "versionRefuse"} : Goto(c, where)
    /\ UNCHANGED <<name, zip, unread, quiet, players, status>>

StatusRequest(c) ==
    /\ Awaits(c, "status")
    /\ Goto(c, "count")
    /\ UNCHANGED <<name, zip, unread, quiet, players, status>>

PingRequest(c) ==
    /\ Awaits(c, "status")
    /\ Goto(c, "pong")
    /\ UNCHANGED <<name, zip, unread, quiet, players, status>>

\* A status request reads the count, then the sample, under separate locks.
CountPlayers(c) ==
    /\ pc[c] = "count"
    /\ key' = [key EXCEPT ![c] = [online |-> Count(players), sample |-> <<>>]]
    /\ Goto(c, "sample")
    /\ UNCHANGED <<name, zip, unread, quiet, players, doc, cached, rebuilds>>

SamplePlayers(c) ==
    /\ pc[c] = "sample"
    /\ \E s \in SampleNames(players) : key' = [key EXCEPT ![c].sample = s]
    /\ Goto(c, "peek")
    /\ UNCHANGED <<name, zip, unread, quiet, players, doc, cached, rebuilds>>

\* StatusCache::json, under the read lock.
PeekStatus(c) ==
    /\ pc[c] = "peek"
    /\ \/ /\ CacheHit(key[c])
          /\ doc' = [doc EXCEPT ![c] = cached.json]
          /\ Goto(c, "statusReply")
       \/ /\ ~CacheHit(key[c])
          /\ Goto(c, "rebuild")
          /\ UNCHANGED doc
    /\ UNCHANGED <<name, zip, unread, quiet, players, key, cached, rebuilds>>

\* Mutated: the cache is not checked again under the write lock.
RebuildUnchecked(c) ==
    /\ pc[c] = "rebuild"
    /\ doc' = [doc EXCEPT ![c] = Build(key[c])]
    /\ cached' = [online |-> key[c].online, sample |-> key[c].sample,
                  json |-> Build(key[c])]
    /\ rebuilds' = (rebuilds + 1) % CounterMod
    /\ Goto(c, "statusReply")
    /\ UNCHANGED <<name, zip, unread, quiet, players, key>>

\* StatusCache::json, under the write lock, which checks the cache again.
RebuildStatus(c) ==
    /\ pc[c] = "rebuild"
    /\ \/ /\ CacheHit(key[c])
          /\ doc' = [doc EXCEPT ![c] = cached.json]
          /\ UNCHANGED <<cached, rebuilds>>
       \/ /\ ~CacheHit(key[c])
          /\ doc' = [doc EXCEPT ![c] = Build(key[c])]
          /\ cached' = [online |-> key[c].online, sample |-> key[c].sample,
                        json |-> Build(key[c])]
          /\ rebuilds' = (rebuilds + 1) % CounterMod
    /\ Goto(c, "statusReply")
    /\ UNCHANGED <<name, zip, unread, quiet, players, key>>

\* The login phase's Hello packet.
Hello(c) ==
    /\ Awaits(c, "login")
    /\ \E n \in Names : name' = [name EXCEPT ![c] = n]
    /\ Goto(c, IF OnlineMode THEN "onlineRefuse"
               ELSE IF Compression THEN "setCompression" ELSE "loginFinished")
    /\ UNCHANGED <<zip, unread, quiet, players, status>>

\* LoginAcknowledged, and try_insert under one write lock.
LoginAcknowledged(c) ==
    /\ Awaits(c, "ack")
    /\ LET joins == JoinOutcome(players, name[c]) = "Ok"
       IN  /\ Goto(c, IF joins THEN "brand" ELSE "joinRefuse")
           /\ players' = IF joins THEN Inserted(players, name[c], c) ELSE players
    /\ UNCHANGED <<name, zip, unread, quiet, status>>

\* ClientInformation, PluginMessage, KeepAlive and packets with an unknown id
\* are read and dropped; the task waits for the next one with a fresh timeout.
ConfigPacket(c) ==
    /\ Awaits(c, "config")
    /\ UNCHANGED vars

SelectKnownPacks(c) ==
    /\ Awaits(c, "config")
    /\ Goto(c, "configRefuse")
    /\ UNCHANGED <<name, zip, unread, quiet, players, status>>

FinishConfigurationAck(c) ==
    /\ Awaits(c, "config")
    /\ Goto(c, "leave")
    /\ UNCHANGED <<name, zip, unread, quiet, players, status>>

\* Connection::send and the continuation up to the next await.  write_all
\* completes when the kernel has room for the frame, and has no timeout.
\* Compression is enabled only once SetCompression itself has been written.
Send(c) ==
    /\ pc[c] \in Sending
    /\ unread[c] < SendCap
    /\ unread' = [unread EXCEPT ![c] = @ + 1]
    /\ zip' = [zip EXCEPT ![c] = @ \/ pc[c] = "setCompression"]
    /\ Goto(c, AfterSend(pc[c]))
    /\ UNCHANGED <<name, quiet, players, status>>

\* The socket fails under a write.
SendFails(c) ==
    /\ pc[c] \in Sending
    /\ Goto(c, Exit(c))
    /\ UNCHANGED <<name, zip, unread, quiet, players, status>>

\* A read ends in an error: end of stream, a socket error, a frame or body
\* that does not decode, or a packet id this state does not accept.
ReadFails(c) ==
    /\ pc[c] \in Reading
    /\ Goto(c, Exit(c))
    /\ UNCHANGED <<name, zip, unread, quiet, players, status>>

\* Mutated: configuration_phase reads with read_packet, which has no timeout.
TimeOutBeforeConfig(c) ==
    /\ pc[c] \in Reading \ {"config"}
    /\ Goto(c, Exit(c))
    /\ UNCHANGED <<name, zip, unread, quiet, players, status>>

\* read_packet_timeout gives up after HANDSHAKE_TIMEOUT.
TimeOut(c) ==
    /\ pc[c] \in Reading
    /\ Goto(c, Exit(c))
    /\ UNCHANGED <<name, zip, unread, quiet, players, status>>

\* players.remove, on every way out of configuration_phase.
Leave(c) ==
    /\ pc[c] = "leave"
    /\ players' = Removed(players, OfflineUuid[name[c]])
    /\ Goto(c, "closing")
    /\ UNCHANGED <<name, zip, unread, quiet, status>>

\* conn.shutdown: the socket and everything the task owned are dropped.
Close(c) ==
    /\ pc[c] = "closing"
    /\ Goto(c, "free")
    /\ name' = [name EXCEPT ![c] = None]
    /\ zip' = [zip EXCEPT ![c] = FALSE]
    /\ unread' = [unread EXCEPT ![c] = 0]
    /\ quiet' = [quiet EXCEPT ![c] = FALSE]
    /\ key' = [key EXCEPT ![c] = None]
    /\ doc' = [doc EXCEPT ![c] = None]
    /\ UNCHANGED <<players, cached, rebuilds>>

-----------------------------------------------------------------------------
(* The peer.                                                               *)

ClientReads(c) ==
    /\ ~quiet[c]
    /\ \E n \in 0 .. SendCap : n < unread[c] /\ unread' = [unread EXCEPT ![c] = n]
    /\ UNCHANGED <<pc, name, zip, quiet, players, status>>

\* The peer's host vanishes or its process stops: the socket stays open but
\* nothing more is sent or read.
GoQuiet(c) ==
    /\ c \in Mute
    /\ pc[c] # "free"
    /\ ~quiet[c]
    /\ quiet' = [quiet EXCEPT ![c] = TRUE]
    /\ UNCHANGED <<pc, name, zip, unread, players, status>>

-----------------------------------------------------------------------------

Init ==
    /\ pc = [c \in Conns |-> "free"]
    /\ name = [c \in Conns |-> None]
    /\ zip = [c \in Conns |-> FALSE]
    /\ unread = [c \in Conns |-> 0]
    /\ quiet = [c \in Conns |-> FALSE]
    /\ key = [c \in Conns |-> None]
    /\ doc = [c \in Conns |-> None]
    /\ players = [u \in {} |-> None]
    /\ cached = None
    /\ rebuilds = 0

\* What the peer's packets make a task do.
Receive(c) ==
    \/ Intention(c)
    \/ StatusRequest(c)
    \/ PingRequest(c)
    \/ Hello(c)
    \/ LoginAcknowledged(c)
    \/ ConfigPacket(c)
    \/ SelectKnownPacks(c)
    \/ FinishConfigurationAck(c)

\* What a task does without waiting for the peer.
Advance(c) ==
    \/ CountPlayers(c)
    \/ SamplePlayers(c)
    \/ PeekStatus(c)
    \/ RebuildStatus(c)
    \/ Send(c)
    \/ Leave(c)
    \/ Close(c)

Fault(c) == SendFails(c) \/ ReadFails(c) \/ TimeOut(c)

Peer(c) == ClientReads(c) \/ GoQuiet(c)

Next == \E c \in Conns : Accept(c) \/ Receive(c) \/ Advance(c) \/ Fault(c) \/ Peer(c)

Spec == Init /\ [][Next]_vars

\* The runtime polls a ready task again, and a timer of a silent peer fires.
\* Nothing is assumed of the peer, and nothing of a timer that a packet resets.
Fairness ==
    \A c \in Conns : WF_vars(Advance(c)) /\ WF_vars(quiet[c] /\ TimeOut(c))

FairSpec == Spec /\ Fairness

-----------------------------------------------------------------------------
(* Properties.                                                             *)

Players == [name : Names, addr : Conns]

\* The type of every variable: tasks are at a point of the code, registry entries
\* hold a name and a socket, documents count no more than max_players.
TypeOK ==
    /\ pc \in [Conns -> Pcs]
    /\ name \in [Conns -> Names \cup {None}]
    /\ zip \in [Conns -> BOOLEAN]
    /\ unread \in [Conns -> 0 .. SendCap]
    /\ quiet \in [Conns -> BOOLEAN]
    /\ DOMAIN players \subseteq Uuids
    /\ players \in [DOMAIN players -> Players]
    /\ key \in [Conns -> Keys \cup {None}]
    /\ doc \in [Conns -> Documents \cup {None}]
    /\ cached \in CacheEntries \cup {None}
    /\ rebuilds \in 0 .. CounterMod - 1

\* Tasks that hold a slot and registry entries are the same thing: a task
\* between try_insert and remove has its own entry, under the uuid of its name,
\* and every entry belongs to such a task.  No way out of configuration_phase
\* leaks an entry, and none removes the entry of somebody else.
SlotOwnership ==
    /\ \A c \in Conns : Holds(c) =>
         /\ name[c] \in Names
         /\ OfflineUuid[name[c]] \in DOMAIN players
         /\ players[OfflineUuid[name[c]]] = [name |-> name[c], addr |-> c]
    /\ \A u \in DOMAIN players :
         /\ Holds(players[u].addr)
         /\ name[players[u].addr] = players[u].name
         /\ OfflineUuid[players[u].name] = u

\* However logins interleave, no more than max_players tasks are ever past
\* try_insert at once, counting the tasks and not the map's entries.
Capacity == Cardinality({c \in Conns : Holds(c)}) <= MaxPlayers

\* A login is refused only because of players who really are there: the server
\* is full of live tasks, or a live task has that name.  A leaked or misplaced
\* entry would refuse logins for ever.
RefusedWithCause ==
    [][\A c \in Conns : pc[c] = "ack" /\ pc'[c] = "joinRefuse" =>
          \/ Cardinality({d \in Conns : Holds(d)}) >= MaxPlayers
          \/ \E d \in Conns : Holds(d) /\ name[d] = name[c]]_vars

\* A task plays under the name of its Hello packet while it holds a slot.
Session == [c \in Conns |-> IF Holds(c) THEN name[c] ELSE None]

Adm == INSTANCE Admission WITH session <- Session

\* The tasks implement Admission: every step of every task is a join with room
\* and a free name, a leave, or invisible to the sessions.
Admits == Adm!Spec

\* The document a request is answered with was built from the count and sample
\* that this request read, whatever other requests did to the cache between.
ServedMatchesAsked ==
    \A c \in Conns : pc[c] = "statusReply" => doc[c] = Build(key[c])

\* Of several requests that miss the cache with the same key only one
\* serializes: every rebuild replaces the cached document by a different one.
NoRedundantRebuild == [][rebuilds' # rebuilds => cached' # cached]_vars

\* A player whose client falls silent loses the slot: no hung client can keep a
\* name taken or the server full.
SilentSlotFreed ==
    \A c \in Conns : quiet[c] /\ Holds(c) ~> ~Holds(c)

\* connection.rs:27, "How long a client may stay silent before being dropped,
\* prior to play": a silent client is dropped in the end.
SilentClientDropped == \A c \in Conns : quiet[c] ~> pc[c] = "free"
=============================================================================
