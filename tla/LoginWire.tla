------------------------------ MODULE LoginWire ------------------------------
(***************************************************************************)
(* Login and server-list ping on the wire: the tasks of Connections, the   *)
(* two byte streams of every socket and a client that follows the protocol,*)
(* as the one in rukkit-server/tests/handshake.rs does.                    *)
(*                                                                         *)
(* A stream is a sequence of frames.  A frame carries the mode its sender's*)
(* encoder was in when it framed the packet; the receiver decodes it with  *)
(* the mode its own decoder is in when it takes the frame off its buffer.  *)
(* Nothing in a frame says which mode it is in, so the two ends have to    *)
(* switch at the same byte of each stream.                                 *)
(***************************************************************************)
EXTENDS Connections

CONSTANT
    Chatter   \* how many unasked-for packets a client sends in configuration

ASSUME LoginWireAssumption == Chatter \in Nat

VARIABLES
    s2c,     \* s2c[c]: frames on their way to the client
    c2s,     \* c2s[c]: frames on their way to the server, its buffer included
    client   \* client[c]: the client's protocol state, mode and packets left

wire == <<s2c, c2s, client>>
wvars == <<vars, wire>>

\* The packets a client accepts in each of its states.  It is in configuration
\* once it has acknowledged LoginFinished, and expects nothing before that.
Expects ==
    [ start      |-> {},
      asking     |-> {},
      asked      |-> {"statusReply"},
      pinged     |-> {"pong"},
      greeting   |-> {"versionRefuse"},
      login      |-> {"versionRefuse", "onlineRefuse", "setCompression", "loginFinished"},
      finished   |-> {},
      config     |-> {"brand", "knownPacks", "joinRefuse", "configRefuse"},
      choosing   |-> {},
      waiting    |-> {"configRefuse"},
      gone       |-> {} ]

\* The packets each state of the server accepts without ending the connection.
Accepts ==
    [ handshake |-> {"intention", "statusIntention"},
      status    |-> {"statusRequest", "pingRequest"},
      login     |-> {"hello"},
      ack       |-> {"loginAcknowledged"},
      config    |-> {"clientInformation", "selectKnownPacks"} ]

FreshClient == [at |-> "start", zip |-> FALSE, chatter |-> Chatter]

-----------------------------------------------------------------------------
(* The server's side.                                                      *)

\* Mutated: the encoder has switched before SetCompression is framed.
FramedEarly(c) == [packet |-> pc[c], zip |-> zip[c] \/ pc[c] = "setCompression"]

\* Encoder::encode, in the mode the encoder is in at this send.
Framed(c) == [packet |-> pc[c], zip |-> zip[c]]

Transmit(c) ==
    /\ Send(c)
    /\ s2c' = [s2c EXCEPT ![c] = Append(@, Framed(c))]
    /\ UNCHANGED <<c2s, client>>

\* Decoder::decode at the head of the buffer, in the decoder's mode.
Takes(c, packet) ==
    /\ c2s[c] # <<>>
    /\ Head(c2s[c]) = [packet |-> packet, zip |-> zip[c]]
    /\ c2s' = [c2s EXCEPT ![c] = Tail(@)]
    /\ UNCHANGED <<s2c, client>>

Serve(c) ==
    \/ Takes(c, "intention") /\ Intention(c) /\ pc'[c] # "status"
    \/ Takes(c, "statusIntention") /\ Intention(c) /\ pc'[c] = "status"
    \/ Takes(c, "statusRequest") /\ StatusRequest(c)
    \/ Takes(c, "pingRequest") /\ PingRequest(c)
    \/ Takes(c, "hello") /\ Hello(c)
    \/ Takes(c, "loginAcknowledged") /\ LoginAcknowledged(c)
    \/ Takes(c, "clientInformation") /\ ConfigPacket(c)
    \/ Takes(c, "selectKnownPacks") /\ SelectKnownPacks(c)

\* A status request on its way through the registry and the cache.
Answer(c) ==
    /\ CountPlayers(c) \/ SamplePlayers(c) \/ PeekStatus(c) \/ RebuildStatus(c)
    /\ UNCHANGED wire

\* A frame that does not decode or is not expected ends the task, and so does
\* the end of the stream.
Drop(c) == Fault(c) /\ UNCHANGED wire

Open(c) == Accept(c) /\ UNCHANGED wire

Depart(c) == Leave(c) /\ UNCHANGED wire

Hangup(c) ==
    /\ Close(c)
    /\ s2c' = [s2c EXCEPT ![c] = <<>>]
    /\ c2s' = [c2s EXCEPT ![c] = <<>>]
    /\ client' = [client EXCEPT ![c] = FreshClient]

-----------------------------------------------------------------------------
(* The client's side.                                                      *)

Says(c, packet, next) ==
    /\ c2s' = [c2s EXCEPT ![c] = Append(@, [packet |-> packet, zip |-> client[c].zip])]
    /\ client' = [client EXCEPT ![c].at = next]
    /\ UNCHANGED <<vars, s2c>>

\* Hello follows the intention without waiting for an answer, and so does a
\* status request or a ping; an answered client may ask again.
ClientSays(c) ==
    /\ pc[c] # "free"
    /\ \/ client[c].at = "start" /\ Says(c, "intention", "greeting")
       \/ client[c].at = "start" /\ Says(c, "statusIntention", "asking")
       \/ client[c].at = "asking" /\ Says(c, "statusRequest", "asked")
       \/ client[c].at = "asking" /\ Says(c, "pingRequest", "pinged")
       \/ client[c].at = "greeting" /\ Says(c, "hello", "login")
       \/ client[c].at = "finished" /\ Says(c, "loginAcknowledged", "config")
       \/ client[c].at = "choosing" /\ Says(c, "selectKnownPacks", "waiting")

\* ClientInformation and the like, sent as soon as configuration starts.
ClientChats(c) ==
    /\ client[c].at \in {"config", "choosing", "waiting"}
    /\ client[c].chatter > 0
    /\ c2s' = [c2s EXCEPT ![c] =
                  Append(@, [packet |-> "clientInformation", zip |-> client[c].zip])]
    /\ client' = [client EXCEPT ![c].chatter = @ - 1]
    /\ UNCHANGED <<vars, s2c>>

\* SetCompression switches both directions of the client at once.
Received(state, packet) ==
    [ state EXCEPT
        !.zip = state.zip \/ packet = "setCompression",
        !.at = CASE packet \in {"setCompression", "brand"} -> state.at
                 [] packet = "statusReply"   -> "asking"
                 [] packet = "loginFinished" -> "finished"
                 [] packet = "knownPacks"    -> "choosing"
                 [] OTHER                    -> "gone" ]

ClientTakes(c) ==
    /\ s2c[c] # <<>>
    /\ Head(s2c[c]).zip = client[c].zip
    /\ Head(s2c[c]).packet \in Expects[client[c].at]
    /\ client' = [client EXCEPT ![c] = Received(@, Head(s2c[c]).packet)]
    /\ s2c' = [s2c EXCEPT ![c] = Tail(@)]
    /\ unread' = [unread EXCEPT ![c] = @ - 1]
    /\ UNCHANGED <<c2s, pc, name, zip, quiet, players, status>>

-----------------------------------------------------------------------------

WInit ==
    /\ Init
    /\ s2c = [c \in Conns |-> <<>>]
    /\ c2s = [c \in Conns |-> <<>>]
    /\ client = [c \in Conns |-> FreshClient]

WNext ==
    \E c \in Conns :
        \/ Open(c) \/ Transmit(c) \/ Serve(c) \/ Answer(c)
        \/ Drop(c) \/ Depart(c) \/ Hangup(c)
        \/ ClientSays(c) \/ ClientChats(c) \/ ClientTakes(c)

WSpec == WInit /\ [][WNext]_wvars

-----------------------------------------------------------------------------
(* Properties.                                                             *)

\* Both ends switch to compressed framing at the same byte of both streams:
\* whatever is next in a stream is framed the way its receiver will decode it.
FramingAgrees ==
    \A c \in Conns :
        /\ s2c[c] # <<>> => Head(s2c[c]).zip = client[c].zip
        /\ c2s[c] # <<>> /\ pc[c] \in Reading => Head(c2s[c]).zip = zip[c]

\* Neither end is sent a packet its protocol state does not know: the client
\* gets configuration packets only after it has acknowledged LoginFinished, a
\* full server or a taken name included, and what it pipelines is read in the
\* state it belongs to.
StatesAgree ==
    \A c \in Conns :
        /\ s2c[c] # <<>> => Head(s2c[c]).packet \in Expects[client[c].at]
        /\ c2s[c] # <<>> /\ pc[c] \in Reading => Head(c2s[c]).packet \in Accepts[pc[c]]
=============================================================================
