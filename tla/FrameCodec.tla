----------------------------- MODULE FrameCodec -----------------------------
(***************************************************************************)
(* How a WebSocket message becomes bytes and bytes a message               *)
(* (WebSocketRoute.c): encode_data and decode_data for RFC 6455, the       *)
(* hixie-76 pair, and what websocket_read_cb takes a buffer for.           *)
(*                                                                         *)
(* WebSocketConnection has the frames of a connection and its protocol;    *)
(* here are their bytes.  The functions keep no state: the properties      *)
(* compare them, for the protocol of an open connection, with what its     *)
(* peer writes and reads, over the messages and buffers given.  Bytes and  *)
(* lengths have their real width.  Masked frames and other types of frame, *)
(* for which no caller asks, are left out of encode_data.                  *)
(***************************************************************************)
EXTENDS WebSocketConnection, SequencesExt

CONSTANTS
    Message,    \* messages of the application and of the peer
    Text,       \* those in hixie-76, which has no lengths and no 0xff in a message
    MaxDecoded, \* bound: bytes of a message the peer sends
    Mask,       \* masking keys of the peer
    Buffer      \* what may have arrived when the read callback runs

Byte == 0..255
MaxString == 2147483647     \* bytes of a string of PHP

ASSUME CodecAssumption ==
    /\ \A m \in Message : m \in Seq(Byte) /\ Len(m) <= MaxString
    /\ \A m \in Text : m \in Seq(Byte \ {255})
    /\ MaxDecoded \in Nat
    /\ Mask \subseteq [1..4 -> Byte]
    /\ \A b \in Buffer : b \in Seq(Byte) /\ b # << >>

WS_FRAME == [STRING |-> 1, BINARY |-> 2, CLOSE |-> 8, PING |-> 9, PONG |-> 10]
Unknown == -1   \* a byte behind the end of a string

\* What the functions of C take for the string: the bytes before the first NUL.
Cut(s) ==
    IF \E k \in DOMAIN s : s[k] = 0
    THEN SubSeq(s, 1, SelectInSeq(s, LAMBDA b : b = 0) - 1) ELSE s

\* The exclusive or of one, two, four and eight bits.
Xor1(a, b) == (a + b) % 2
Xor2(a, b) == 2 * Xor1(a \div 2, b \div 2) + Xor1(a % 2, b % 2)
Xor4(a, b) == 4 * Xor2(a \div 4, b \div 4) + Xor2(a % 4, b % 4)
ByteXor(a, b) == 16 * Xor4(a \div 16, b \div 16) + Xor4(a % 16, b % 16)

-----------------------------------------------------------------------------
(* Encoding.                                                               *)

\* Mutant: 126 bytes are taken for a short message.
LengthShort(len) ==
    CASE len <= 126                   -> <<len>>
      [] len > 126 /\ len <= 65535    -> <<126, len \div 256, len % 256>>
      [] OTHER -> <<127, 0, 0, 0, 0, len \div 16777216, (len \div 65536) % 256,
                    (len \div 256) % 256, len % 256>>

\* The first four of the eight bytes of a long length are 0.
Length(len) ==
    CASE len <= 125                   -> <<len>>
      [] len > 125 /\ len <= 65535    -> <<126, len \div 256, len % 256>>
      [] OTHER -> <<127, 0, 0, 0, 0, len \div 16777216, (len \div 65536) % 256,
                    (len \div 256) % 256, len % 256>>

\* The bytes of the message are appended as a string of C and counted in full.
Encode(data, frame_type) ==
    [bytes  |-> <<128 + frame_type>> \o Length(Len(data)) \o Cut(data),
     outlen |-> 1 + Len(Length(Len(data))) + Len(data)]

EncodeHixie76(data, frame_type) ==
    LET bytes == IF frame_type = WS_FRAME.CLOSE THEN <<255, 0>>
                 ELSE <<0>> \o Cut(data) \o <<255>>
    IN [bytes |-> bytes, outlen |-> Len(bytes)]

\* What bufferevent_write puts on the wire: outlen bytes from there on.
Written(e) ==
    [k \in 1..e.outlen |-> CASE k <= Len(e.bytes)     -> e.bytes[k]
                             [] k = Len(e.bytes) + 1  -> 0
                             [] OTHER                 -> Unknown]

-----------------------------------------------------------------------------
(* Decoding.                                                               *)

\* Mutant: a long length is taken for one of four bytes.
MaskAtShort(data) ==
    CASE data[2] % 128 = 126 -> 4
      [] data[2] % 128 = 127 -> 6
      [] OTHER               -> 2

\* Where the masking key begins: behind the length, which is not used.
MaskAt(data) ==
    CASE data[2] % 128 = 126 -> 4
      [] data[2] % 128 = 127 -> 10
      [] OTHER               -> 2

\* All that is behind the key, whatever length was announced; of a buffer that
\* ends before, nothing.
Decode(data) ==
    IF Len(data) < 2 THEN << >>
    ELSE LET pos == MaskAt(data)
         IN [k \in 1..(Len(data) - pos - 4) |->
                ByteXor(data[pos + 4 + k], data[pos + 1 + ((k - 1) % 4)])]

\* The two loops over the buffer: a 0x00 opens a message, a 0xff closes it.
Scanned(state, b) ==
    CASE state.open /\ b = 255  -> [state EXCEPT !.open = FALSE]
      [] state.open /\ b # 255  -> [state EXCEPT !.buf = Append(@, b)]
      [] OTHER                  -> [state EXCEPT !.open = (b = 0)]
Scan(data) ==
    LET after[i \in 0..Len(data)] ==
          IF i = 0 THEN [open |-> FALSE, buf |-> << >>] ELSE Scanned(after[i - 1], data[i])
    IN after[Len(data)]
DecodeHixie76(data) == Scan(data).buf

-----------------------------------------------------------------------------
(* websocket_read_cb.                                                      *)

\* Mutant: only the first byte is looked at.
OpcodeHixie76First(data) == IF data[1] # 0 THEN WS_FRAME.CLOSE ELSE WS_FRAME.STRING

\* The first test leaves nothing for the other two.
OpcodeHixie76(data) ==
    IF data[1] # 0 \/ data[Len(data)] # 255 \/ data = <<255, 0>> THEN WS_FRAME.CLOSE
    ELSE IF data[1] >= 128 THEN WS_FRAME.BINARY ELSE WS_FRAME.STRING

OpcodeRfc6455(data) == data[1] % 128

\* What the message handler is called with: a string of C again.
Received(data, rfc) == IF rfc THEN Cut(Decode(data)) ELSE Cut(DecodeHixie76(data))

-----------------------------------------------------------------------------
(* The peer.                                                               *)

BigEndian(n, width) ==
    LET shifted[k \in 0..(width - 1)] == IF k = 0 THEN n ELSE shifted[k - 1] \div 256
    IN [k \in 1..width |-> shifted[width - k] % 256]

\* The ways RFC 6455 has to write a length, and the one in the fewest bytes.
LengthForms(n, m) ==
    (IF n < 126 THEN {<<m + n>>} ELSE {})
    \union (IF n < 65536 THEN {<<m + 126>> \o BigEndian(n, 2)} ELSE {})
    \union {<<m + 127>> \o BigEndian(n, 8)}
LeastForm(n, m) ==
    CHOOSE f \in LengthForms(n, m) : \A g \in LengthForms(n, m) : Len(f) <= Len(g)

MaskedFrame(type, form, mask, message) ==
    <<128 + type>> \o form \o mask
    \o [k \in DOMAIN message |-> ByteXor(message[k], mask[1 + ((k - 1) % 4)])]

Has(s, byte) == \E k \in DOMAIN s : s[k] = byte

-----------------------------------------------------------------------------
(* Properties.                                                             *)

\* What holds of the codec of an open connection.
OfProtocol(rfc, hixie) ==
    \A c \in Connection : conn[c] = "open" => IF rfc6455[c] THEN rfc ELSE hixie

\* With or without NUL bytes in the message the frame is as long as it says.
Rfc6455Encodes ==
    \A m \in Message :
        \A frame \in {Written(Encode(m, WS_FRAME.STRING))},
           head \in {<<128 + WS_FRAME.STRING>> \o LeastForm(Len(m), 0)} :
            /\ Len(frame) = Len(head) + Len(m)
            /\ ~Has(m, 0) => frame = head \o m
Hixie76Encodes ==
    \A m \in Text :
        Written(EncodeHixie76(m, WS_FRAME.STRING)) = <<0>> \o Cut(m) \o <<255>>

\* A peer reads what send was called with, for every length: a message without
\* NUL bytes is one frame with that payload, and with them the next frame is
\* still found.  A hixie-76 peer reads the message up to its first NUL.
PeerReadsMessage == OfProtocol(Rfc6455Encodes, Hixie76Encodes)

Rfc6455Decodes ==
    \A m \in {n \in Message : Len(n) <= MaxDecoded}, mask \in Mask,
       type \in {WS_FRAME.STRING, WS_FRAME.BINARY} :
        \A form \in LengthForms(Len(m), 128) :
            \A frame \in {MaskedFrame(type, form, mask, m)} :
                OpcodeRfc6455(frame) = type /\ Received(frame, TRUE) = Cut(m)
Hixie76Decodes ==
    \A m \in Text :
        \A frame \in {<<0>> \o m \o <<255>>} :
            OpcodeHixie76(frame) = WS_FRAME.STRING /\ Received(frame, FALSE) = Cut(m)

\* onMessage is called with what the peer sent, up to its first NUL byte, for
\* every form of the length, masking key and both protocols, when the buffer
\* holds one frame.
ApplicationReadsMessage == OfProtocol(Rfc6455Decodes, Hixie76Decodes)

Hixie76Answered == \A b \in Buffer : OpcodeHixie76(b) \in {WS_FRAME.CLOSE, WS_FRAME.STRING}
Hixie76Closed == \A b \in Buffer : OpcodeHixie76(b) = WS_FRAME.STRING => ~Scan(b).open

\* Whatever arrived on a hixie-76 connection, the decoder finds the 0xff it looks
\* for before the end of the buffer, and no frame is answered for which there is
\* no encoding in that protocol.
HixieEndsInBuffer == OfProtocol(TRUE, Hixie76Answered /\ Hixie76Closed)
=============================================================================
