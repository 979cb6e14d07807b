---------------------------- MODULE MCFrameCodec ----------------------------
\* Two-bit groups in three bytes carry five-bit integers; frames of up to six
\* bytes, so that their lengths take one byte or two.
EXTENDS FrameCodec

Long == <<5, 0, 5, 0, 5>>        \* at the threshold: its length takes two bytes
Huge == <<6, 6, 6, 6, 6, 6, 6>>  \* beyond the frame limit, compressed to less
Wild == <<7, 1, 6, 2, 5, 3>>     \* at the limit, zlib makes it longer

MCBodies == {<<>>, <<1>>, <<2>>, Long, Huge, Wild}
MCZip == [p \in MCBodies |->
            CASE p = Long -> <<7, 0>>
              [] p = Huge -> <<7, 7, 1>>
              [] OTHER -> <<7, 6>> \o p \o <<0>>]
MCSetCompression == <<1>>
MCEncryptionReply == <<2>>

\* A negative length, an oversized one, a varint that does not end.
MCMalformed == {<<4, 4, 1>>, <<7, 3, 0, 0, 0, 0, 0, 0, 0>>, <<4, 4, 4>>}
\* A body compressed below the threshold, one that declares too much, one that
\* inflates to another size, one that does not inflate, a frame without a size.
MCMalformedZip == MCMalformed \cup
    {<<3, 2, 7, 6>>, <<4, 1, 7, 1, 7, 0>>, <<4, 1, 6, 1, 7, 0>>, <<3, 5, 1, 2>>, <<0>>}
=============================================================================
