---------------------------- MODULE MCWebSocket ----------------------------
(* Small instances of WebSocketConnection and FrameCodec for TLC.          *)
EXTENDS FrameCodec, TLC

CONSTANTS c1, c2

\* A busy connection and one that is there to be sent to.
OneSend == [c \in Connection |-> IF c = c1 THEN 1 ELSE 0]
BusyPeer == [c \in Connection |-> IF c = c1 THEN 2 ELSE 1]
NoSends == [c \in Connection |-> 0]
TwoFrames == [c \in Connection |-> 2]

\* Every short message of a few bytes, and those at which the form of the length
\* changes; every short buffer of the bytes that steer the hixie-76 decoder.
Strings(bytes, n) == UNION {[1..k -> bytes] : k \in 0..n}
Long(n) == [k \in 1..n |-> 1 + (k % 254)]
Messages == Strings({0, 65, 255}, 3) \union {Long(n) : n \in {125, 126, 127, 255, 256, 65535, 65536}}
Texts == Strings({0, 65, 128}, 4)
Masks == {<<0, 0, 0, 0>>, <<0, 1, 170, 255>>}
Buffers == Strings({0, 65, 128, 255}, 5) \ {<< >>}
=============================================================================
