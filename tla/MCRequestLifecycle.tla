------------------------- MODULE MCRequestLifecycle -------------------------
(* Small instances of RequestLifecycle for TLC.                            *)
EXTENDS RequestLifecycle, TLC

CONSTANTS r1, r2

Symmetry == Permutations(Request)

\* User code makes every call everywhere.
AnyApi == [f \in UserFrame |-> Method]
\* A handler makes every call; the others may send, where it is always wrong.
MisusingApi == "handler"   :> Method @@
               "handshake" :> {"sendResponseStart"} @@
               "callback"  :> {"setResponseStatus", "sendResponseStart"}
\* The handler starts a chunked response.
StartApi == [f \in UserFrame |-> IF f = "handler" THEN {"sendResponseStart"} ELSE {}]
\* User code returns or throws without a call.
NoApi == [f \in UserFrame |-> {}]

=============================================================================
