------------------------ MODULE WebSocketConnection ------------------------
(***************************************************************************)
(* WebSocket connections (WebSocketRoute.c), from the handshake of a       *)
(* request that passed the header checks to the release of the             *)
(* Can\Server\WebSocketConnection object, with the user code of the hooks. *)
(*                                                                         *)
(* After the 101 response the connection belongs to three bufferevent      *)
(* callbacks and to evhttp's close callback.  The server is one thread:    *)
(* while a hook runs no event is handled, but the hook may call send and   *)
(* close on any connection object it kept, and so may the handlers of      *)
(* other requests.                                                         *)
(***************************************************************************)
EXTENDS Integers, Sequences

CONSTANTS
    Connection, \* the connections clients ask to upgrade
    Plain,      \* those to an instance of WebSocketRoute itself, which has no hooks
    MaxSends,   \* MaxSends[c], a bound: frames user code sends on c
    MaxPeer     \* MaxPeer[c], a bound: frames the peer of c sends

ASSUME PlainAssumption == Plain \subseteq Connection
ASSUME BoundsAssumption == /\ MaxSends \in [Connection -> Nat]
                           /\ MaxPeer \in [Connection -> Nat]

Hook == {"beforeHandshake", "afterHandshake", "onMessage", "onClose"}
Idle == <<>>                            \* no hook is running
PeerFrame == {"text", "ping", "close", "other"}
Frame == {"101", "text", "ping", "close"}

VARIABLES
    running,    \* <<c, h>> while hook h of c runs
    conn,       \* conn[c]: "http", "handshake", "refused", "open" or "closed"
    rfc6455,    \* rfc6455[c]: ctx->rfc6455; otherwise hixie-76
    evcon,      \* evcon[c]: whether ctx->evcon is set
    refs,       \* refs[c]: references to the connection object, which lives while positive
    kept,       \* the connections whose object user code keeps
    reading,    \* reading[c]: EV_READ of the bufferevent
    writing,    \* writing[c]: EV_WRITE
    input,      \* input[c]: frames the peer sent and the server has not read
    output,     \* output[c]: frames in the output buffer
    wire,       \* wire[c]: the first frame written, of all
    sends,      \* sends[c]: counts user code's frames
    received,   \* received[c]: counts the peer's frames
    last,       \* last[c]: history, the hook called last
    threw       \* history: connections whose onMessage let an exception escape

countVars == <<sends, received>>
bufferVars == <<reading, writing, output>>
historyVars == <<last, threw>>
vars == <<running, conn, rfc6455, evcon, refs, kept, bufferVars, input, wire,
          countVars, historyVars>>

Init ==
    /\ running = Idle
    /\ conn = [c \in Connection |-> "http"]
    /\ rfc6455 = [c \in Connection |-> FALSE]
    /\ evcon = [c \in Connection |-> FALSE]
    /\ refs = [c \in Connection |-> 0]
    /\ kept = {}
    /\ reading = [c \in Connection |-> TRUE]
    /\ writing = [c \in Connection |-> FALSE]
    /\ input = [c \in Connection |-> <<>>]
    /\ output = [c \in Connection |-> <<>>]
    /\ wire = [c \in Connection |-> "none"]
    /\ sends = [c \in Connection |-> 0]
    /\ received = [c \in Connection |-> 0]
    /\ last = [c \in Connection |-> "none"]
    /\ threw = {}

\* A hook of c is running.
On(c) == running # Idle /\ running[1] = c

\* A hook is called with a reference of its own and gives it back.
Call(c, h) == running' = <<c, h>> /\ last' = [last EXCEPT ![c] = h]

\* encode_data, bufferevent_disable, bufferevent_enable, bufferevent_write.
WriteFrame(c, f) ==
    /\ output' = [output EXCEPT ![c] = Append(@, f)]
    /\ reading' = [reading EXCEPT ![c] = FALSE]
    /\ writing' = [writing EXCEPT ![c] = TRUE]

-----------------------------------------------------------------------------
(* The handshake, within request_handler.                                  *)

\* The 101 response and, when the route has hooks, afterHandshake; n is what
\* the step adds to the references of c before that call.
Upgrade(c, n) ==
    /\ conn' = [conn EXCEPT ![c] = "open"]
    /\ rfc6455' \in {[rfc6455 EXCEPT ![c] = b] : b \in BOOLEAN}
    /\ evcon' = [evcon EXCEPT ![c] = TRUE]
    /\ output' = [output EXCEPT ![c] = Append(@, "101")]
    /\ reading' = [reading EXCEPT ![c] = TRUE]
    /\ writing' = [writing EXCEPT ![c] = TRUE]
    /\ IF c \in Plain
       THEN /\ refs' = [refs EXCEPT ![c] = @ + n]
            /\ UNCHANGED <<running, last>>
       ELSE /\ refs' = [refs EXCEPT ![c] = @ + n + 1]
            /\ Call(c, "afterHandshake")
    /\ UNCHANGED <<kept, input, wire, countVars, threw>>

\* The early returns of the handshake keep the reference it was made with.
Refuse(c, n) ==
    /\ conn' = [conn EXCEPT ![c] = "refused"]
    /\ refs' = [refs EXCEPT ![c] = @ + n]
    /\ running' = Idle
    /\ UNCHANGED <<rfc6455, evcon, kept, bufferVars, input, wire, countVars, historyVars>>

\* Mutant: ctx->evcon is set as soon as the object is made.
HandshakeConnected(c) ==
    /\ running = Idle /\ conn[c] = "http" /\ c \notin Plain
    /\ conn' = [conn EXCEPT ![c] = "handshake"]
    /\ evcon' = [evcon EXCEPT ![c] = TRUE]
    /\ refs' = [refs EXCEPT ![c] = 2]
    /\ Call(c, "beforeHandshake")
    /\ UNCHANGED <<rfc6455, kept, bufferVars, input, wire, countVars, threw>>

\* The connection object is created for a request whose headers are right.
\* A hixie-76 request may still be refused for its keys.
Handshake(c) ==
    /\ running = Idle /\ conn[c] = "http"
    /\ IF c \in Plain
       THEN Upgrade(c, 1) \/ Refuse(c, 1)
       ELSE /\ conn' = [conn EXCEPT ![c] = "handshake"]
            /\ refs' = [refs EXCEPT ![c] = 2]
            /\ Call(c, "beforeHandshake")
            /\ UNCHANGED <<rfc6455, evcon, kept, bufferVars, input, wire, countVars, threw>>

\* Returning, it may be refused for its keys; throwing, it is.
BeforeReturns(c) ==
    /\ running = <<c, "beforeHandshake">>
    /\ Upgrade(c, -1) \/ Refuse(c, -1)

AfterReturns(c) ==
    /\ running = <<c, "afterHandshake">>
    /\ running' = Idle
    /\ refs' = [refs EXCEPT ![c] = @ - 1]
    /\ UNCHANGED <<conn, rfc6455, evcon, kept, bufferVars, input, wire, countVars, historyVars>>

\* Mutant: the close frame of a failed afterHandshake goes out with writing off.
AfterThrowsSilently(c) ==
    /\ running = <<c, "afterHandshake">>
    /\ running' = Idle
    /\ refs' = [refs EXCEPT ![c] = @ - 1]
    /\ output' = [output EXCEPT ![c] = Append(@, "close")]
    /\ reading' = [reading EXCEPT ![c] = FALSE]
    /\ writing' = [writing EXCEPT ![c] = FALSE]
    /\ UNCHANGED <<conn, rfc6455, evcon, kept, input, wire, countVars, historyVars>>
AfterThrows(c) ==
    /\ running = <<c, "afterHandshake">>
    /\ running' = Idle
    /\ refs' = [refs EXCEPT ![c] = @ - 1]
    /\ IF evcon[c] THEN WriteFrame(c, "close") ELSE UNCHANGED bufferVars
    /\ UNCHANGED <<conn, rfc6455, evcon, kept, input, wire, countVars, historyVars>>

-----------------------------------------------------------------------------
(* The callbacks.                                                          *)

\* websocket_read_cb takes all that has arrived for one frame: by the first
\* opcode, and in hixie-76 by the first and the last byte.  The rest of a frame
\* that arrives in two pieces is a frame of any opcode here, as it is there.
Opcode(c, s) ==
    IF rfc6455[c] THEN Head(s)
    ELSE IF Head(s) = "text" /\ s[Len(s)] = "text" THEN "text" ELSE "close"

\* websocket_read_cb, up to the call of onMessage.  A ping is answered with a
\* frame of its own opcode; an opcode it does not know is dropped.
ReadReady(c) ==
    /\ running = Idle /\ conn[c] = "open" /\ reading[c] /\ input[c] # <<>>
    /\ input' = [input EXCEPT ![c] = <<>>]
    /\ LET op == Opcode(c, input[c]) IN
       \/ /\ op \in {"close", "ping"}
          /\ WriteFrame(c, op)
          /\ UNCHANGED <<running, refs, last>>
       \/ /\ op = "text"
          /\ refs' = [refs EXCEPT ![c] = @ + 1]
          /\ Call(c, "onMessage")
          /\ UNCHANGED bufferVars
       \/ /\ op = "other"
          /\ UNCHANGED <<running, refs, last, bufferVars>>
    /\ UNCHANGED <<conn, rfc6455, evcon, kept, wire, countVars, threw>>

\* Mutant: a message is answered with a call that holds no reference.
MessageReturnsTwice(c) ==
    /\ running = <<c, "onMessage">>
    /\ running' = Idle
    /\ refs' = [refs EXCEPT ![c] = @ - 2]
    /\ UNCHANGED <<conn, rfc6455, evcon, kept, bufferVars, input, wire, countVars, historyVars>>
MessageReturns(c) ==
    /\ running = <<c, "onMessage">>
    /\ running' = Idle
    /\ refs' = [refs EXCEPT ![c] = @ - 1]
    /\ UNCHANGED <<conn, rfc6455, evcon, kept, bufferVars, input, wire, countVars, historyVars>>

MessageThrows(c) ==
    /\ running = <<c, "onMessage">>
    /\ running' = Idle
    /\ refs' = [refs EXCEPT ![c] = @ - 1]
    /\ WriteFrame(c, "close")
    /\ threw' = threw \union {c}
    /\ UNCHANGED <<conn, rfc6455, evcon, kept, input, wire, countVars, last>>

\* Mutant: the callback does not turn reading on again.
WriteReadyDeaf(c) ==
    /\ running = Idle /\ conn[c] = "open" /\ writing[c] /\ output[c] # <<>>
    /\ wire' = [wire EXCEPT ![c] = IF @ = "none" THEN Head(output[c]) ELSE @]
    /\ output' = [output EXCEPT ![c] = <<>>]
    /\ writing' = [writing EXCEPT ![c] = FALSE]
    /\ UNCHANGED <<running, conn, rfc6455, evcon, refs, kept, reading, input, countVars, historyVars>>

\* libevent writes what the socket takes; websocket_write_cb runs once the
\* output buffer is empty.
WriteReady(c) ==
    /\ running = Idle /\ conn[c] = "open" /\ writing[c] /\ output[c] # <<>>
    /\ \E n \in 1..Len(output[c]) :
        /\ wire' = [wire EXCEPT ![c] = IF @ = "none" THEN Head(output[c]) ELSE @]
        /\ output' = [output EXCEPT ![c] = SubSeq(@, n + 1, Len(@))]
        /\ writing' = [writing EXCEPT ![c] = n < Len(output[c])]
        /\ reading' = [reading EXCEPT ![c] = @ \/ n = Len(output[c])]
    /\ UNCHANGED <<running, conn, rfc6455, evcon, refs, kept, input, countVars, historyVars>>

\* Mutant: ctx->evcon is left to error_cb, which sets it in a freed object.
ClosedConnected(c, n) ==
    /\ conn' = [conn EXCEPT ![c] = "closed"]
    /\ refs' = [refs EXCEPT ![c] = @ - n]
    /\ input' = [input EXCEPT ![c] = <<>>]
    /\ output' = [output EXCEPT ![c] = <<>>]
    /\ reading' = [reading EXCEPT ![c] = FALSE]
    /\ writing' = [writing EXCEPT ![c] = FALSE]
    /\ UNCHANGED <<evcon, rfc6455, kept, wire, countVars, threw>>

\* The end of on_connection_close and of evhttp_connection_free; n references
\* are dropped.
Closed(c, n) ==
    /\ conn' = [conn EXCEPT ![c] = "closed"]
    /\ evcon' = [evcon EXCEPT ![c] = FALSE]
    /\ refs' = [refs EXCEPT ![c] = @ - n]
    /\ input' = [input EXCEPT ![c] = <<>>]
    /\ output' = [output EXCEPT ![c] = <<>>]
    /\ reading' = [reading EXCEPT ![c] = FALSE]
    /\ writing' = [writing EXCEPT ![c] = FALSE]
    /\ UNCHANGED <<rfc6455, kept, wire, countVars, threw>>

\* The end of the stream, an error or a timeout, which libevent reports for a
\* direction that is being waited on: websocket_error_cb frees the connection,
\* and on_connection_close calls onClose while it still stands.
ConnectionFails(c) ==
    /\ running = Idle /\ conn[c] = "open"
    /\ reading[c] \/ (writing[c] /\ output[c] # <<>>)
    /\ IF c \in Plain
       THEN Closed(c, 1) /\ UNCHANGED <<running, last>>
       ELSE /\ refs' = [refs EXCEPT ![c] = @ + 1]
            /\ Call(c, "onClose")
            /\ UNCHANGED <<conn, rfc6455, evcon, kept, bufferVars, input, wire, countVars, threw>>

\* Mutant: the connection is freed by libevent after a callback that keeps it.
CloseReturnsOpen(c) ==
    /\ running = <<c, "onClose">>
    /\ running' = Idle
    /\ refs' = [refs EXCEPT ![c] = @ - 1]
    /\ UNCHANGED <<conn, rfc6455, evcon, kept, bufferVars, input, wire, countVars, historyVars>>

\* Its exceptions are ignored.
CloseReturns(c) ==
    /\ running = <<c, "onClose">>
    /\ running' = Idle
    /\ Closed(c, 2)
    /\ UNCHANGED last
-----------------------------------------------------------------------------
(* User code, in a hook or, while none runs, in the handler of another     *)
(* request.                                                                *)

Handed(c) == c \in kept \/ On(c)

\* WebSocketConnection::send and close; without ctx->evcon they return FALSE.
UserSends(c, f) ==
    /\ Handed(c) /\ evcon[c] /\ sends[c] < MaxSends[c]
    /\ sends' = [sends EXCEPT ![c] = @ + 1]
    /\ WriteFrame(c, f)
    /\ UNCHANGED <<running, conn, rfc6455, evcon, refs, kept, input, wire, received, historyVars>>

KeepContext(c) ==
    /\ On(c) /\ c \notin kept
    /\ kept' = kept \union {c}
    /\ refs' = [refs EXCEPT ![c] = @ + 1]
    /\ UNCHANGED <<running, conn, rfc6455, evcon, bufferVars, input, wire, countVars, historyVars>>

DropContext(c) ==
    /\ c \in kept
    /\ kept' = kept \ {c}
    /\ refs' = [refs EXCEPT ![c] = @ - 1]
    /\ UNCHANGED <<running, conn, rfc6455, evcon, bufferVars, input, wire, countVars, historyVars>>

PeerSends(c, f) ==
    /\ conn[c] = "open" /\ received[c] < MaxPeer[c]
    /\ received' = [received EXCEPT ![c] = @ + 1]
    /\ input' = [input EXCEPT ![c] = Append(@, f)]
    /\ UNCHANGED <<running, conn, rfc6455, evcon, refs, kept, bufferVars, wire, sends, historyVars>>

-----------------------------------------------------------------------------
HookReturns(c) ==
    BeforeReturns(c) \/ AfterReturns(c) \/ AfterThrows(c)
    \/ MessageReturns(c) \/ MessageThrows(c) \/ CloseReturns(c)

UserCall(c) ==
    (\E f \in {"text", "close"} : UserSends(c, f)) \/ KeepContext(c) \/ DropContext(c)

Next == \E c \in Connection :
    Handshake(c) \/ ReadReady(c) \/ WriteReady(c) \/ ConnectionFails(c)
    \/ HookReturns(c) \/ UserCall(c) \/ (\E f \in PeerFrame : PeerSends(c, f))

\* Hooks return.  A socket that can be written is found so each time the event
\* loop polls, and the loop polls after every callback that returns.
Fairness == \A c \in Connection :
    WF_vars(HookReturns(c)) /\ SF_vars(WriteReady(c))

Spec == Init /\ [][Next]_vars /\ Fairness

-----------------------------------------------------------------------------
(* Properties.                                                             *)

\* Every variable keeps its type; the references of an object that user code
\* or the server may still use are never below zero.
TypeOK ==
    /\ running \in {Idle} \union (Connection \X Hook)
    /\ conn \in [Connection -> {"http", "handshake", "refused", "open", "closed"}]
    /\ rfc6455 \in [Connection -> BOOLEAN] /\ evcon \in [Connection -> BOOLEAN]
    /\ refs \in [Connection -> Nat] /\ kept \subseteq Connection
    /\ reading \in [Connection -> BOOLEAN] /\ writing \in [Connection -> BOOLEAN]
    /\ input \in [Connection -> Seq(PeerFrame)]
    /\ output \in [Connection -> Seq(Frame)]
    /\ wire \in [Connection -> Frame \union {"none"}]
    /\ sends \in [Connection -> Nat] /\ received \in [Connection -> Nat]
    /\ last \in [Connection -> Hook \union {"none"}] /\ threw \subseteq Connection

\* A connection is never deaf: send, close and the replies of websocket_read_cb
\* turn reading off, and only websocket_write_cb turns it on again, so whenever
\* it is off there is something left whose writing will call that callback.
NeverDeaf ==
    \A c \in Connection : conn[c] = "open" =>
        reading[c] \/ (writing[c] /\ output[c] # <<>>)

\* send and close, called by whoever kept the object, reach the bufferevent of
\* a connection exactly while it stands: not before the upgrade, though
\* beforeHandshake has the object, and never after on_connection_close.
CallsReachOpenConnection == \A c \in Connection : evcon[c] <=> conn[c] = "open"

\* The references to a connection object are those of the handshake, held until
\* on_connection_close and for ever when the handshake is refused, of the hook
\* running on it and of user code: the object lives while any of them needs it,
\* and no other object outlives its connection.
ContextHeldWhileUsed ==
    \A c \in Connection : refs[c] =
        (IF conn[c] \in {"handshake", "open", "refused"} THEN 1 ELSE 0)
        + (IF On(c) THEN 1 ELSE 0)
        + (IF c \in kept THEN 1 ELSE 0)

\* The peer of an upgraded connection reads the 101 response before any frame,
\* whatever the hooks send.
UpgradeFirst ==
    \A c \in Connection :
        /\ wire[c] \in {"none", "101"}
        /\ wire[c] = "none" /\ output[c] # <<>> => Head(output[c]) = "101"

\* beforeHandshake, afterHandshake, messages, onClose: a hook is called only
\* after the one before it returned, onClose once, and nothing after it.
HookOrder == [][\A c \in Connection : \A h \in Hook :
    running' = <<c, h>> /\ running # running' =>
        /\ running \in {Idle, <<c, "beforeHandshake">>}
        /\ last[c] \in CASE h = "beforeHandshake" -> {"none"}
                         [] h = "afterHandshake"  -> {"beforeHandshake"}
                         [] OTHER -> IF c \in Plain THEN {"none", "onMessage"}
                                     ELSE {"afterHandshake", "onMessage"}]_vars

\* What is queued for a peer is written or goes with the connection.
FramesLeave == \A c \in Connection : output[c] # <<>> ~> output[c] = <<>>

\* "we close the connection if unhandled exception occurs": after an exception
\* escaped from onMessage the connection's onMessage is not called again.
ClosedAfterException ==
    \A c \in threw : running # <<c, "onMessage">>
=============================================================================
