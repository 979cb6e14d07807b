------------------------------- MODULE MCPackets -------------------------------
(* Packets on small instances: values for every kind of field, packets that   *)
(* differ from a default in one field, and frames that nobody wrote.          *)
EXTENDS Packets, NbtBytes

\* One character of each width.
MCUtf8 == [a |-> <<97>>, e |-> <<195, 169>>, euro |-> <<226, 130, 172>>,
           smile |-> <<240, 159, 152, 128>>]

\* {}, {"t": "a"}, and {"t": [1b, 2b]}.
Tags == <<<<10, 0>>, <<10, 8, 0, 1, 116, 0, 1, 97, 0>>, <<10, 9, 0, 1, 116, 1, 0, 0, 0, 2, 1, 2, 0>>>>

\* Tags that are written otherwise than they came: a name given twice, a character
\* in two and in three bytes too many, and a bare zero byte.
LooseTags == {
    <<10, 1, 0, 1, 116, 5, 1, 0, 1, 116, 6, 0>>,
    <<8, 0, 2, 193, 161>>, <<8, 0, 3, 224, 129, 161>>, <<8, 0, 1, 0>>}

\* Lists and arrays that announce more than there is, or too much, or end too deep.
LongTags == {
    <<9, 1, 0, 0, 0, 9, 1>>, <<9, 1, 1, 0, 0, 1, 1>>, <<9, 1, 255, 0, 0, 0>>, <<9, 0, 0, 0, 0, 1>>,
    <<7, 0, 0, 0, 9, 1>>, <<11, 0, 0, 0, 9, 0, 0, 0, 1>>, <<12, 0, 0, 0, 9, 0, 0, 0, 0, 0, 0, 0, 1, 1>>,
    <<11, 0, 0, 0, 1, 0, 0, 0, 1>>, <<12, 0, 0, 0, 1, 0, 0, 0, 0, 0, 0, 0, 1>>, <<77, 0>>,
    <<9, 9, 0, 0, 0, 1, 9, 0, 0, 0, 1, 9, 0, 0, 0, 1, 1, 0, 0, 0, 0>>}

Number(low, n) == [i \in 1 .. n |-> IF i = 1 THEN low ELSE 0]

TextSamples == <<
    <<>>, <<"a">>, <<"e", "a">>, <<"euro", "euro">>, <<"smile">>, <<"smile", "smile">>,
    <<"a", "a", "a">>, <<"euro", "euro", "euro">>, <<"smile", "euro", "a">>,
    <<"a", "a", "a", "a">>>>

\* Corners of what a packed position can hold, and some of the middle.
At(x, y, z) == [x |-> x, y |-> y, z |-> z]
PositionSamples == <<
    At(0, 0, 0), At(-1, -1, -1), At(31, 7, 31), At(-32, -8, -32),
    At(31, -8, -1), At(-32, 7, 1), At(5, -3, -17)>>

RECURSIVE Samples(_), Variants(_)

Samples(type) ==
    CASE type.kind = "fixed"      -> <<Number(0, type.limit), Number(200, type.limit),
                                       [i \in 1 .. type.limit |-> 255]>>
      [] type.kind = "bool"       -> <<FALSE, TRUE>>
      [] type.kind = "varint"     -> <<0, 1, 127, 128, -1, 2^(Width - 1) - 1, -(2^(Width - 1))>>
      [] type.kind \in {"varenum", "byteenum"} -> SetToSeq(type.of)
      [] type.kind = "text"       -> TextSamples
      [] type.kind \in {"bytes", "rest"} -> <<<<>>, <<0>>, <<1, 255>>, <<3, 2, 1>>>>
      [] type.kind = "position"   -> PositionSamples
      [] type.kind = "nbt"        -> Tags
      [] type.kind = "array"      ->
            LET some == Variants(type.of)
            IN  <<<<>>>> \o [n \in DOMAIN some |-> <<some[n]>>]
                  \o [n \in 1 .. 3 |-> [i \in 1 .. n + 1 |-> some[(i % Len(some)) + 1]]]
      [] type.kind \in {"option", "trailing"} ->
            LET some == Variants(type.of) IN <<<<>>>> \o [n \in DOMAIN some |-> <<some[n]>>]

\* The first sample of every field, and what differs from that in one of them.
Variants(layout) ==
    LET samples == [i \in DOMAIN layout |-> Samples(layout[i].type)]
        names == {layout[i].name : i \in DOMAIN layout}
        default == [name \in names |->
                       samples[CHOOSE i \in DOMAIN layout : layout[i].name = name][1]]
    IN  <<default>> \o
        FlattenSeq([i \in DOMAIN layout |->
            [n \in 1 .. Len(samples[i]) - 1 |->
                [default EXCEPT ![layout[i].name] = samples[i][n + 1]]]])

Packet(state, id, writes) ==
    LET values == Variants(writes)
    IN  [n \in DOMAIN values |-> [state |-> state, id |-> id, writes |-> writes, value |-> values[n]]]

\* The packets the code writes, and by the layouts it reads those it does not.
\* login_finished goes out with its trailing flag and without.
MCSent ==
    Packet("handshaking", HandshakingServerbound.INTENTION, IntentionWrites)
    \o Packet("status", StatusServerbound.STATUS_REQUEST, StatusRequestReads)
    \o Packet("status", StatusServerbound.PING_REQUEST, PingRequestReads)
    \o Packet("login", LoginServerbound.HELLO, HelloWrites)
    \o Packet("ack", LoginServerbound.LOGIN_ACKNOWLEDGED, LoginAcknowledgedReads)
    \o Packet("encryption", LoginServerbound.ENCRYPTION_RESPONSE, EncryptionResponseReads)
    \o Packet("configuration", ConfigurationServerbound.CLIENT_INFORMATION, ClientInformationWrites)
    \o Packet("configuration", ConfigurationServerbound.SELECT_KNOWN_PACKS, SelectKnownPacksWrites)
    \o Packet("configuration", ConfigurationServerbound.PLUGIN_MESSAGE, PluginMessageWrites)
    \o Packet("configuration", ConfigurationServerbound.KEEP_ALIVE, KeepAliveReads)
    \o Packet("configuration", ConfigurationServerbound.FINISH_CONFIGURATION, FinishConfigurationReads)
    \o Packet("play", PlayServerbound.ACCEPT_TELEPORTATION, AcceptTeleportationReads)
    \o Packet("play", PlayServerbound.CHAT_COMMAND, ChatCommandReads)
    \o Packet("play", PlayServerbound.CLIENT_TICK_END, ClientTickEndReads)
    \o Packet("play", PlayServerbound.KEEP_ALIVE, PlayKeepAliveReads)
    \o Packet("play", PlayServerbound.MOVE_PLAYER_POS, MovePlayerPosReads)
    \o Packet("play", PlayServerbound.MOVE_PLAYER_POS_ROT, MovePlayerPosRotReads)
    \o Packet("play", PlayServerbound.MOVE_PLAYER_ROT, MovePlayerRotReads)
    \o Packet("play", PlayServerbound.MOVE_PLAYER_STATUS_ONLY, MovePlayerStatusOnlyReads)
    \o Packet("registries", ConfigurationClientbound.REGISTRY_DATA, RegistryDataWrites)
    \o Packet("join", PlayClientbound.LOGIN, LoginWrites)
    \o Packet("to status", StatusClientbound.STATUS_RESPONSE, StatusResponseWrites)
    \o Packet("to status", StatusClientbound.PONG_RESPONSE, PongResponseWrites)
    \o Packet("to login", LoginClientbound.LOGIN_DISCONNECT, LoginDisconnectWrites)
    \o Packet("to login", LoginClientbound.ENCRYPTION_REQUEST, EncryptionRequestWrites)
    \o Packet("to login", LoginClientbound.LOGIN_SUCCESS, LoginFinishedWrites)
    \o Packet("to login", LoginClientbound.SET_COMPRESSION, SetCompressionWrites)
    \o LET values == Variants(LoginFinishedWrites)
       IN  [n \in 1 .. Len(values) - 3 |->
               [state |-> "to login", id |-> LoginClientbound.LOGIN_SUCCESS,
                writes |-> LoginFinishedWrites,
                value |-> [values[n + 1] EXCEPT !.strict_error_handling = <<[strict |-> FALSE]>>]]]
    \o Packet("to configuration", ConfigurationClientbound.PLUGIN_MESSAGE, PluginMessageWrites)
    \o Packet("to configuration", ConfigurationClientbound.DISCONNECT, DisconnectWrites)
    \o Packet("to configuration", ConfigurationClientbound.FINISH_CONFIGURATION, FinishConfigurationWrites)
    \o Packet("to configuration", ConfigurationClientbound.KEEP_ALIVE, KeepAliveWrites)
    \o Packet("to configuration", ConfigurationClientbound.REGISTRY_DATA, RegistryDataWrites)
    \o Packet("to configuration", ConfigurationClientbound.SELECT_KNOWN_PACKS, SelectKnownPacksWrites)
    \o Packet("to play", PlayClientbound.LOGIN, LoginWrites)
    \o Packet("to play", PlayClientbound.KEEP_ALIVE, PlayKeepAliveWrites)
    \o Packet("to play", PlayClientbound.DISCONNECT, PlayDisconnectWrites)
    \o Packet("to play", PlayClientbound.SYSTEM_CHAT, SystemChatWrites)
    \o Packet("to play", PlayClientbound.SET_CHUNK_CACHE_CENTER, SetChunkCacheCenterWrites)
    \o Packet("to play", PlayClientbound.SET_DEFAULT_SPAWN_POSITION, SetDefaultSpawnPositionWrites)
    \o Packet("to play", PlayClientbound.GAME_EVENT, GameEventWrites)
    \o Packet("to play", PlayClientbound.PLAYER_POSITION, PlayerPositionWrites)
    \o Packet("to play", PlayClientbound.CHUNK_DATA, ChunkDataWrites)

Changed(bytes) ==
    {SubSeq(bytes, 1, n) : n \in 0 .. Len(bytes) - 1}
    \cup {Append(bytes, 0)}
    \cup {[bytes EXCEPT ![i] = b] : i \in DOMAIN bytes, b \in {0, 1, 2, 127, 128, 255}}

\* A varint in two bytes where one will do, and in three with too many bits; a
\* long array announced in a frame that ends.
Odd == {[state |-> "configuration", bytes |-> b] : b \in {
            <<135, 0, 0>>, <<7, 128, 0>>, <<7, 5>>, <<7, 6>>, <<128, 128, 128>>,
            <<7, 1, 1, 97, 1, 97, 1, 97, 9>>, <<5, 1, 2, 3>>, <<255, 255, 127>>}}
       \cup {[state |-> "play", bytes |-> b] : b \in {<<0, 255, 255, 63>>, <<0, 255, 255, 127>>}}

\* Registries "a" of one entry "a" with such a tag, and something behind it.
Registries == {[state |-> "registries", bytes |-> <<1, 97, 1, 1, 97, 1>> \o t \o end] :
                  t \in LooseTags \cup LongTags, end \in {<<>>, <<7>>}}

MCKnown == ServerReads @@ UncalledReads

\* A bare layout is given the body alone.
Bytes(p) == IF p.state \in DOMAIN Bare THEN Body(p) ELSE Frame(p)

\* Every packet as it was written; of each kind that something reads the first and
\* the last, damaged; and the odd ones.
MCInputs ==
    LET sent == MCSent
        all == {sent[n] : n \in DOMAIN sent}
        Input(state, bytes, packets) == [state |-> state, bytes |-> bytes, packets |-> packets]
        ends == {n \in DOMAIN sent : /\ sent[n].state \in DOMAIN MCKnown \cup DOMAIN BareReads
                                     /\ \/ n = 1
                                        \/ sent[n - 1].id # sent[n].id
                                        \/ sent[n + 1].id # sent[n].id}
    IN  {Input(p.state, Bytes(p), Alike(p, all)) : p \in all}
        \cup UNION {{Input(sent[n].state, b, {}) : b \in Changed(Bytes(sent[n]))} : n \in ends}
        \cup {Input(i.state, i.bytes, {}) : i \in Odd \cup Registries}
=============================================================================
