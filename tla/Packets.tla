-------------------------------- MODULE Packets --------------------------------
(***************************************************************************)
(* The packets (rukkit-protocol, packets/): ids, and for each packet the   *)
(* layout that encode_body writes (...Writes) and the one that decode_body *)
(* reads (...Reads), where the code has them.  The two are written down    *)
(* separately in the code and here.                                        *)
(***************************************************************************)
EXTENDS PacketReader, FiniteSets, TLC

CONSTANTS
    MaxUsername, MaxAddress, MaxLocale, MaxCommand,   \* MAX_USERNAME_LEN and its like
    MaxString,                                        \* DEFAULT_MAX_STRING_LEN
    MaxKey, MaxDimensions, MaxRegistryEntries, MaxKnownPacks

ASSUME PacketsAssumption ==
    {MaxUsername, MaxAddress, MaxLocale, MaxCommand, MaxString,
     MaxKey, MaxDimensions, MaxRegistryEntries, MaxKnownPacks} \subseteq Nat

String == Text(Unlimited)        \* write_string
Identifier == Text(MaxString)    \* read_identifier

-----------------------------------------------------------------------------
(* packets/ids.rs.                                                         *)

HandshakingServerbound == [INTENTION |-> 0]

StatusServerbound == [STATUS_REQUEST |-> 0, PING_REQUEST |-> 1]
StatusClientbound == [STATUS_RESPONSE |-> 0, PONG_RESPONSE |-> 1]

LoginServerbound == [HELLO |-> 0, ENCRYPTION_RESPONSE |-> 1, PLUGIN_RESPONSE |-> 2,
                     LOGIN_ACKNOWLEDGED |-> 3, COOKIE_RESPONSE |-> 4]
LoginClientbound == [LOGIN_DISCONNECT |-> 0, ENCRYPTION_REQUEST |-> 1, LOGIN_SUCCESS |-> 2,
                     SET_COMPRESSION |-> 3, PLUGIN_REQUEST |-> 4, COOKIE_REQUEST |-> 5]

ConfigurationServerbound ==
    [CLIENT_INFORMATION |-> 0, COOKIE_RESPONSE |-> 1, PLUGIN_MESSAGE |-> 2,
     FINISH_CONFIGURATION |-> 3, KEEP_ALIVE |-> 4, PONG |-> 5,
     RESOURCE_PACK_RESPONSE |-> 6, SELECT_KNOWN_PACKS |-> 7]

ConfigurationClientbound ==
    [COOKIE_REQUEST |-> 0, PLUGIN_MESSAGE |-> 1, DISCONNECT |-> 2, FINISH_CONFIGURATION |-> 3,
     KEEP_ALIVE |-> 4, PING |-> 5, RESET_CHAT |-> 6, REGISTRY_DATA |-> 7,
     REMOVE_RESOURCE_PACK |-> 8, ADD_RESOURCE_PACK |-> 9, STORE_COOKIE |-> 10, TRANSFER |-> 11,
     UPDATE_ENABLED_FEATURES |-> 12, UPDATE_TAGS |-> 13, SELECT_KNOWN_PACKS |-> 14,
     CUSTOM_REPORT_DETAILS |-> 15, SERVER_LINKS |-> 16]

PlayServerbound ==
    [ACCEPT_TELEPORTATION |-> 0, CHAT_COMMAND |-> 5, CHAT |-> 7, CLIENT_TICK_END |-> 11,
     PLUGIN_MESSAGE |-> 21, KEEP_ALIVE |-> 26, MOVE_PLAYER_POS |-> 28,
     MOVE_PLAYER_POS_ROT |-> 29, MOVE_PLAYER_ROT |-> 30, MOVE_PLAYER_STATUS_ONLY |-> 31]

PlayClientbound ==
    [KEEP_ALIVE |-> 38, CHUNK_DATA |-> 39, GAME_EVENT |-> 34, LOGIN |-> 44, DISCONNECT |-> 29,
     PLAYER_POSITION |-> 66, SET_CHUNK_CACHE_CENTER |-> 88,
     SET_DEFAULT_SPAWN_POSITION |-> 90, SYSTEM_CHAT |-> 115]

-----------------------------------------------------------------------------
(* packets/handshake.rs.                                                   *)

NextState == 1 .. 3

IntentionWrites == <<
    Field("protocol_version", VarInt), Field("server_address", String),
    Field("server_port", U16), Field("next_state", VarEnum(NextState))>>

IntentionReads == <<
    Field("protocol_version", VarInt), Field("server_address", Text(MaxAddress)),
    Field("server_port", U16), Field("next_state", VarEnum(NextState))>>

-----------------------------------------------------------------------------
(* packets/status.rs.                                                      *)

StatusRequestReads == <<>>
PingRequestReads == <<Field("payload", I64)>>
StatusResponseWrites == <<Field("json", String)>>
PongResponseWrites == <<Field("payload", I64)>>

-----------------------------------------------------------------------------
(* packets/login.rs.                                                       *)

HelloWrites == <<Field("name", String), Field("profile_id", Uuid)>>
HelloReads == <<Field("name", Text(MaxUsername)), Field("profile_id", Uuid)>>

EncryptionResponseReads == <<
    Field("shared_secret", ByteArray(MaxKey)), Field("verify_token", ByteArray(MaxKey))>>

LoginAcknowledgedReads == <<>>

LoginDisconnectWrites == <<Field("reason_json", String)>>

EncryptionRequestWrites == <<
    Field("server_id", String), Field("public_key", ByteArray(Unlimited)),
    Field("verify_token", ByteArray(Unlimited)), Field("should_authenticate", Bool)>>

\* Mutated: a signature that is there is written without its flag.
ProfilePropertyFlagless == <<
    Field("name", String), Field("value", String),
    Field("signature", Trailing(<<Field("signed", String)>>))>>

ProfileProperty == <<
    Field("name", String), Field("value", String),
    Field("signature", Option(<<Field("signed", String)>>))>>

LoginFinishedWrites == <<
    Field("profile_id", Uuid), Field("username", String),
    Field("properties", Array(Unlimited, ProfileProperty)),
    Field("strict_error_handling", Trailing(<<Field("strict", Bool)>>))>>

SetCompressionWrites == <<Field("threshold", VarInt)>>

-----------------------------------------------------------------------------
(* packets/config.rs.                                                      *)

ChatMode == 0 .. 2

ClientInformationWrites == <<
    Field("locale", String), Field("view_distance", I8), Field("chat_mode", VarEnum(ChatMode)),
    Field("chat_colors", Bool), Field("displayed_skin_parts", U8), Field("main_hand", VarInt),
    Field("text_filtering_enabled", Bool), Field("allows_listing", Bool),
    Field("particle_status", VarInt)>>

ClientInformationReads == <<
    Field("locale", Text(MaxLocale)), Field("view_distance", I8),
    Field("chat_mode", VarEnum(ChatMode)), Field("chat_colors", Bool),
    Field("displayed_skin_parts", U8), Field("main_hand", VarInt),
    Field("text_filtering_enabled", Bool), Field("allows_listing", Bool),
    Field("particle_status", VarInt)>>

FinishConfigurationReads == <<>>
FinishConfigurationWrites == <<>>

KeepAliveWrites == <<Field("id", I64)>>
KeepAliveReads == <<Field("id", I64)>>

DisconnectWrites == <<Field("reason", Nbt)>>

RegistryDataWrites == <<
    Field("registry_id", String),
    Field("entries", Array(Unlimited, <<
        Field("entry_id", String), Field("data", Option(<<Field("tag", Nbt)>>))>>))>>

RegistryDataReads == <<
    Field("registry_id", Identifier),
    Field("entries", Array(MaxRegistryEntries, <<
        Field("entry_id", Identifier), Field("data", Option(<<Field("tag", Nbt)>>))>>))>>

SelectKnownPacksWrites == <<
    Field("packs", Array(Unlimited, <<
        Field("namespace", String), Field("pack_id", String), Field("version", String)>>))>>

SelectKnownPacksReads == <<
    Field("packs", Array(MaxKnownPacks, <<
        Field("namespace", Text(MaxString)), Field("pack_id", Text(MaxString)),
        Field("version", Text(MaxString))>>))>>

PluginMessageWrites == <<Field("channel", String), Field("data", Rest)>>
PluginMessageReads == <<Field("channel", Identifier), Field("data", Rest)>>

-----------------------------------------------------------------------------
(* packets/play.rs, clientbound.                                           *)

GameMode == 0 .. 3

PlayKeepAliveWrites == <<Field("id", I64)>>
PlayKeepAliveReads == <<Field("id", I64)>>

PlayDisconnectWrites == <<Field("reason", Nbt)>>

LoginWrites == <<
    Field("entity_id", I32), Field("hardcore", Bool),
    Field("dimension_names", Array(Unlimited, <<Field("dimension", String)>>)),
    Field("max_players", VarInt), Field("view_distance", VarInt),
    Field("simulation_distance", VarInt), Field("reduced_debug_info", Bool),
    Field("enable_respawn_screen", Bool), Field("do_limited_crafting", Bool),
    Field("dimension_type", VarInt), Field("dimension_name", String), Field("hashed_seed", I64),
    Field("game_mode", ByteEnum(GameMode)), Field("previous_game_mode", I8),
    Field("is_debug", Bool), Field("is_flat", Bool),
    Field("death_location", Option(<<Field("dimension", String), Field("pos", Position)>>)),
    Field("portal_cooldown", VarInt), Field("sea_level", VarInt),
    Field("enforces_secure_chat", Bool)>>

LoginReads == <<
    Field("entity_id", I32), Field("hardcore", Bool),
    Field("dimension_names", Array(MaxDimensions, <<Field("dimension", Identifier)>>)),
    Field("max_players", VarInt), Field("view_distance", VarInt),
    Field("simulation_distance", VarInt), Field("reduced_debug_info", Bool),
    Field("enable_respawn_screen", Bool), Field("do_limited_crafting", Bool),
    Field("dimension_type", VarInt), Field("dimension_name", Identifier),
    Field("hashed_seed", I64), Field("game_mode", ByteEnum(GameMode)),
    Field("previous_game_mode", I8), Field("is_debug", Bool), Field("is_flat", Bool),
    Field("death_location", Option(<<Field("dimension", Identifier), Field("pos", Position)>>)),
    Field("portal_cooldown", VarInt), Field("sea_level", VarInt),
    Field("enforces_secure_chat", Bool)>>

SystemChatWrites == <<Field("content", Nbt), Field("overlay", Bool)>>

SetChunkCacheCenterWrites == <<Field("chunk_x", VarInt), Field("chunk_z", VarInt)>>

SetDefaultSpawnPositionWrites == <<Field("position", Position), Field("angle", F32)>>

GameEventWrites == <<Field("event", U8), Field("value", F32)>>

PlayerPositionWrites == <<
    Field("teleport_id", VarInt), Field("x", F64), Field("y", F64), Field("z", F64),
    Field("velocity_x", F64), Field("velocity_y", F64), Field("velocity_z", F64),
    Field("yaw", F32), Field("pitch", F32), Field("flags", I32)>>

ChunkDataWrites == <<Field("chunk_x", I32), Field("chunk_z", I32), Field("payload", Rest)>>

(* Serverbound.                                                            *)

AcceptTeleportationReads == <<Field("teleport_id", VarInt)>>

MovePlayerPosReads == <<Field("x", F64), Field("y", F64), Field("z", F64), Field("flags", U8)>>

MovePlayerPosRotReads == <<
    Field("x", F64), Field("y", F64), Field("z", F64),
    Field("yaw", F32), Field("pitch", F32), Field("flags", U8)>>

MovePlayerRotReads == <<Field("yaw", F32), Field("pitch", F32), Field("flags", U8)>>

MovePlayerStatusOnlyReads == <<Field("flags", U8)>>

ChatCommandReads == <<Field("command", Text(MaxCommand))>>

ClientTickEndReads == <<>>

-----------------------------------------------------------------------------
(* What is read, and where.                                                *)

\* rukkit-server, connection.rs: in each state of a connection.
ServerReads ==
    [handshaking   |-> HandshakingServerbound.INTENTION :> IntentionReads,
     status        |-> StatusServerbound.STATUS_REQUEST :> StatusRequestReads
                    @@ StatusServerbound.PING_REQUEST :> PingRequestReads,
     login         |-> LoginServerbound.HELLO :> HelloReads,
     ack           |-> LoginServerbound.LOGIN_ACKNOWLEDGED :> LoginAcknowledgedReads,
     configuration |-> ConfigurationServerbound.CLIENT_INFORMATION :> ClientInformationReads
                    @@ ConfigurationServerbound.SELECT_KNOWN_PACKS :> SelectKnownPacksReads
                    @@ ConfigurationServerbound.PLUGIN_MESSAGE :> PluginMessageReads
                    @@ ConfigurationServerbound.KEEP_ALIVE :> KeepAliveReads
                    @@ ConfigurationServerbound.FINISH_CONFIGURATION :> FinishConfigurationReads]

\* Serverbound packets that have a reader, for decode_exact, and no caller yet.
UncalledReads ==
    [encryption    |-> LoginServerbound.ENCRYPTION_RESPONSE :> EncryptionResponseReads,
     play          |-> PlayServerbound.ACCEPT_TELEPORTATION :> AcceptTeleportationReads
                    @@ PlayServerbound.CHAT_COMMAND :> ChatCommandReads
                    @@ PlayServerbound.CLIENT_TICK_END :> ClientTickEndReads
                    @@ PlayServerbound.KEEP_ALIVE :> PlayKeepAliveReads
                    @@ PlayServerbound.MOVE_PLAYER_POS :> MovePlayerPosReads
                    @@ PlayServerbound.MOVE_PLAYER_POS_ROT :> MovePlayerPosRotReads
                    @@ PlayServerbound.MOVE_PLAYER_ROT :> MovePlayerRotReads
                    @@ PlayServerbound.MOVE_PLAYER_STATUS_ONLY :> MovePlayerStatusOnlyReads]

\* Clientbound packets with a decode_body of their own, "for tests and proxy use".
BareReads == [registries |-> RegistryDataReads, join |-> LoginReads]

\* configuration_phase passes over ids it does not know; the others refuse them.
ServerIgnores == {"configuration"}

-----------------------------------------------------------------------------
(* Writing.  A value is a record with the fields of its layout; an array is*)
(* a sequence of such records, an option or a trailing part one or none.   *)

RECURSIVE Leaves(_, _), Within(_, _)

\* The fields encode_body writes one after another, in the order of the layout.
Leaves(layout, value) ==
    LET Leaf(f, v) == <<[name |-> f.name, kind |-> f.type.kind, value |-> v]>>
        All(f, parts) == FlattenSeq([n \in DOMAIN parts |-> Leaves(f.type.of, parts[n])])
        Of(f, v) == CASE f.type.kind = "array"    -> Leaf(f, Len(v)) \o All(f, v)
                      [] f.type.kind = "option"   -> Leaf(f, v # <<>>) \o All(f, v)
                      [] f.type.kind = "trailing" -> All(f, v)
                      [] OTHER                    -> Leaf(f, v)
    IN  FlattenSeq([i \in DOMAIN layout |-> Of(layout[i], value[layout[i].name])])

\* encode_body.
Body(p) == LeafBytes(Leaves(p.writes, p.value))

\* packets::encode: the id, then the body.
Frame(p) == WriteVarint(p.id) \o Body(p)

\* Whether a value keeps to the limits of the layout that reads it.
Within(layout, value) ==
    \A i \in DOMAIN layout :
        LET type == layout[i].type
            v == value[layout[i].name]
        IN  /\ type.kind = "text" => Len(v) <= type.limit /\ Len(TextBytes(v)) <= 3 * type.limit
            /\ type.kind \in {"bytes", "array"} => Len(v) <= type.limit
            /\ type.kind \in {"array", "option"} =>
                  \A n \in DOMAIN v : Within(type.of, v[n])

\* The packets among some that are written as the same bytes in the same state.
\* The id is the front of a frame: where it differs there is nothing to compare.
Alike(p, packets) ==
    {q \in packets : q.state = p.state /\ q.id = p.id /\ Frame(q) = Frame(p)}

-----------------------------------------------------------------------------
(* Properties.                                                             *)

\* What encode_body wrote is what decode_body reads, field by field and to the
\* last byte, unless it is beyond a limit of the reader, which the writer does not
\* know; then it is refused, however much of it was read by then.
RoundTrips ==
    LET bare == input.state \in DOMAIN Bare
    IN  at \in {"done", "refused"} /\ (bare \/ input.state \in DOMAIN Known) =>
            \A p \in input.packets :
                IF Within(IF bare THEN Bare[input.state] ELSE Layouts[p.id], p.value)
                THEN /\ at = "done" /\ rest = <<>>
                     /\ (IF bare THEN got ELSE Tail(got)) = Leaves(p.writes, p.value)
                ELSE at = "refused"

\* ids.rs, "Two packets sharing an id in the same direction and state would make
\* one of them silently unreachable": no two packets of a state, and no two values
\* of a packet, are the same bytes.
OneMeaning == Cardinality(input.packets) <= 1
=============================================================================
