-------------------------- MODULE RequestLifecycle --------------------------
(***************************************************************************)
(* One client request from its arrival in request_handler (Server.c) to    *)
(* the release of the Can\Server\Request object, with the user code that   *)
(* runs in between, the forwarding proxy and the access log.               *)
(*                                                                         *)
(* The server is one thread: libevent calls request_handler, the response  *)
(* callback of a forwarded request, and nothing else until they return.    *)
(* They call into PHP, so a call is cut where user code runs: the calls    *)
(* user code makes on the request object are the actions of a user frame,  *)
(* and what request_handler does after user code returns or throws is one  *)
(* action.  Several requests interleave through the forwards outstanding.  *)
(***************************************************************************)
EXTENDS Integers, Sequences, FiniteSets

CONSTANTS
    Request,        \* the requests clients send, each on a connection of its own
    Api,            \* Api[f]: the request methods user code calls in a frame of kind f
    Exceptions,     \* the kinds of exception user code lets escape
    StatusCodes,    \* the HTTP status codes the application uses
    UpstreamCodes,  \* the status codes of upstreams, any number their answers have
    HeadRequest,    \* the requests with method HEAD
    CounterMax,     \* LONG_MAX - 1, where request_counter starts over
    MaxLen,         \* bound: body bytes a response counts
    ClientsLeave,   \* whether a client may disconnect before it is answered
    ConnectErrors   \* whether evhttp_make_request may fail at once

UserFrame == {"handler", "handshake", "callback"}
Method == {"setResponseStatus", "sendResponseStart", "sendResponseChunk",
           "sendResponseEnd", "sendFile"}
HttpStatus == 100..599

ASSUME ApiAssumption == Api \in [UserFrame -> SUBSET Method]
ASSUME ExceptionsAssumption ==
    Exceptions \subseteq {"HTTPError", "HTTPForward", "other"}
ASSUME StatusCodesAssumption == StatusCodes \subseteq HttpStatus
ASSUME UpstreamCodesAssumption == UpstreamCodes \subseteq Int
ASSUME CounterMaxAssumption == CounterMax \in Nat \ {0}
ASSUME MaxLenAssumption == MaxLen \in Nat \ {0}
ASSUME EnvironmentAssumption == /\ ClientsLeave \in BOOLEAN
                                /\ ConnectErrors \in BOOLEAN

(***************************************************************************)
(* struct php_can_server_request: the object request_handler creates for a *)
(* request ("origin") and the one forward_response_callback creates for    *)
(* the user callback of a forward ("response"), over the same evhttp       *)
(* request.                                                                *)
(***************************************************************************)
Object == Request \X {"origin", "response"}
Status == {"NONE", "SENDING", "SENT", "FORWARD"}

VARIABLES
    request_counter, \* the process-wide counter of requests
    phase,           \* phase[r]: "new", a user frame, or "loop" once back in the event loop
    number,          \* number[r]: history, the ordinal r was given on arrival
    upstream,        \* upstream[r]: history, the status of the response r was forwarded for
    status,          \* status[o]: request->status
    code,            \* code[o]: request->response_code
    len,             \* len[o]: request->response_len
    refs,            \* refs[r]: references the server holds on the origin's zval
    ctx,             \* ctx[r]: php_can_client_ctx of the forward of r
    evreq,           \* evreq[r]: libevent's ownership of the evhttp_request
    wire,            \* wire[r]: what the client was sent, as a grammar
    sent,            \* sent[r]: status code and body bytes the client was sent
    log,             \* log[r]: access log entries of r
    misused,         \* history: requests whose user code broke the API's protocol
    stale            \* history: requests touched after libevent freed them

objectVars == <<status, code, len>>
wireVars == <<evreq, wire, sent>>
logVars == <<log, stale>>
vars == <<request_counter, phase, number, upstream, status, code, len, refs, ctx,
          evreq, wire, sent, log, misused, stale>>

NoCtx == [state |-> "none", request_id |-> 0, body |-> 0]
Freed == {"freed", "dropped"}

Init ==
    /\ request_counter = 0
    /\ phase = [r \in Request |-> "new"]
    /\ number = [r \in Request |-> 0]
    /\ upstream = [r \in Request |-> {}]
    /\ status = [o \in Object |-> "NONE"]
    /\ code = [o \in Object |-> 0]
    /\ len = [o \in Object |-> 0]
    /\ refs = [r \in Request |-> 0]
    /\ ctx = [r \in Request |-> NoCtx]
    /\ evreq = [r \in Request |-> "live"]
    /\ wire = [r \in Request |-> "none"]
    /\ sent = [r \in Request |-> [code |-> 0, len |-> 0]]
    /\ log = [r \in Request |-> <<>>]
    /\ misused = {}
    /\ stale = {}

-----------------------------------------------------------------------------
(* The part of libevent's evhttp the server sends through.                 *)

\* The grammar of a response: one reply, or start, chunks and end.
After(w, event) ==
    CASE w = "none" /\ event = "reply"    -> "complete"
      [] w = "none" /\ event = "start"    -> "open"
      [] w = "open" /\ event = "chunk"    -> "open"
      [] w = "open" /\ event = "end"      -> "complete"
      [] OTHER                            -> "garbled"

\* Replies without a body, whatever the server hands over for it.
Bodyless(r, c) == r \in HeadRequest \/ c \in {204, 304} \/ c \in 100..199

\* What the client may get of n bytes: none of them when the reply has no body, or
\* all, as libevent's versions differ.
BodySent(r, c, n) == IF Bodyless(r, c) THEN {0, n} ELSE {n}

\* evhttp_send_reply and evhttp_send_reply_start/chunk/end.  On a request that
\* lost its connection they send nothing; those that end a response free it.
Emit(r, event, c, n) ==
    LET w == After(wire[r], event)
        line == IF wire[r] = "none" THEN c ELSE sent[r].code
    IN /\ IF evreq[r] \in {"live", "owned"}
          THEN /\ wire' = [wire EXCEPT ![r] = w]
               /\ IF w = "garbled" THEN UNCHANGED sent
                  ELSE \E bytes \in BodySent(r, line, n) :
                         sent' = [sent EXCEPT ![r] = [code |-> line, len |-> @.len + bytes]]
          ELSE UNCHANGED <<wire, sent>>
       /\ evreq' = IF evreq[r] = "detached" /\ event \in {"reply", "end"}
                   THEN [evreq EXCEPT ![r] = "dropped"]
                   ELSE evreq

-----------------------------------------------------------------------------
(* The event loop and the access log.                                      *)

InLoop == \A r \in Request : phase[r] \notin UserFrame

Origin(r) == <<r, "origin">>
Response(r) == <<r, "response">>
\* The request object the user code now running was handed.
Current(r) == IF phase[r] = "callback" THEN Response(r) ELSE Origin(r)

\* LOGENTRY_CTOR reads the evhttp_request, after the response was sent.
WriteLog(r, id, c, n) ==
    /\ log' = [log EXCEPT ![r] = Append(@, [id |-> id, code |-> c, len |-> n])]
    /\ stale' = IF evreq'[r] \in Freed THEN stale \union {r} ELSE stale

\* Mutant: the counter never starts over.
NextNumberUnbounded(n) == n + 1

\* The counter's next value; it starts over below LONG_MAX.
NextNumber(n) == (IF n = CounterMax THEN 0 ELSE n) + 1

\* Every request_handler call counts the request (the log's format is one that
\* has x-reqnum, which switches the counter on) and creates its object.
Arrive(r) ==
    /\ InLoop
    /\ phase[r] = "new"
    /\ request_counter' = NextNumber(request_counter)
    /\ number' = [number EXCEPT ![r] = request_counter']
    /\ UNCHANGED upstream

\* Mutant: a chunked response left open is not ended.
ConcludeWithoutEnd(r, st, c, n, body) ==
    /\ \/ st = "NONE" /\ Emit(r, "reply", c, body)
       \/ st # "NONE" /\ UNCHANGED wireVars
    /\ IF st = "FORWARD" THEN UNCHANGED logVars
                         ELSE WriteLog(r, request_counter', c, n)
    /\ phase' = [phase EXCEPT ![r] = "loop"]
\* Mutant: a forwarded request is logged when its handler ends.
ConcludeLogged(r, st, c, n, body) ==
    /\ \/ st = "NONE" /\ Emit(r, "reply", c, body)
       \/ st = "SENDING" /\ Emit(r, "end", c, 0)
       \/ st \in {"SENT", "FORWARD"} /\ UNCHANGED wireVars
    /\ WriteLog(r, request_counter', c, n)
    /\ phase' = [phase EXCEPT ![r] = "loop"]

\* The end of request_handler: finish the response by its status, log unless
\* it was forwarded.  st, c and n are status, code and length as they stand,
\* body the bytes in the local buffer.
Conclude(r, st, c, n, body) ==
    /\ \/ st = "NONE" /\ Emit(r, "reply", c, body)
       \/ st = "SENDING" /\ Emit(r, "end", c, 0)
       \/ st \in {"SENT", "FORWARD"} /\ UNCHANGED wireVars
    /\ IF st = "FORWARD" THEN UNCHANGED logVars
                         ELSE WriteLog(r, request_counter', c, n)
    /\ phase' = [phase EXCEPT ![r] = "loop"]

-----------------------------------------------------------------------------
(* request_handler up to the first user code.                              *)

\* No user code runs: no path, no route, a bad parameter or body, a multipart
\* body that does not parse (its exception keeps the handler from running), a
\* handshake refused by its headers.  The object is created and released.
ReceiveRejected(r, c) ==
    /\ Arrive(r)
    /\ code' = [code EXCEPT ![Origin(r)] = c]
    /\ Conclude(r, "NONE", c, 0, 0)
    /\ UNCHANGED <<status, len, refs, ctx, misused>>

\* A route was found: its handler is called with the request object, whose
\* zval is held by request_handler and by the arguments of the call.
ReceiveRouted(r) ==
    /\ Arrive(r)
    /\ phase' = [phase EXCEPT ![r] = "handler"]
    /\ refs' = [refs EXCEPT ![r] = 2]
    /\ UNCHANGED <<status, code, len, ctx, wireVars, logVars, misused>>

\* A WebSocket route was found: beforeHandshake of its class is called.
ReceiveHandshake(r) ==
    /\ Arrive(r)
    /\ phase' = [phase EXCEPT ![r] = "handshake"]
    /\ refs' = [refs EXCEPT ![r] = 2]
    /\ UNCHANGED <<status, code, len, ctx, wireVars, logVars, misused>>

\* The 101 response goes straight to the connection's output buffer and the
\* evhttp_request becomes the WebSocket's.
Upgrade(r) ==
    /\ code' = [code EXCEPT ![Origin(r)] = 101]
    /\ status' = [status EXCEPT ![Origin(r)] = "SENT"]
    /\ wire' = [wire EXCEPT ![r] = After(@, "reply")]
    /\ sent' = [sent EXCEPT ![r] =
                  IF wire[r] = "none" THEN [code |-> 101, len |-> 0] ELSE @]
    /\ evreq' = [evreq EXCEPT ![r] = "owned"]
    /\ phase' = [phase EXCEPT ![r] = "loop"]
    /\ WriteLog(r, request_counter', 101, len[Origin(r)])

\* A WebSocket route of the base class has no hooks to call.
ReceiveUpgrade(r) ==
    /\ Arrive(r)
    /\ Upgrade(r)
    /\ UNCHANGED <<len, refs, ctx, misused>>

-----------------------------------------------------------------------------
(* The methods of Can\Server\Request that change its response.  A call     *)
(* refused by its guard throws into user code and changes nothing.         *)

Calls(r, method) == phase[r] \in UserFrame /\ method \in Api[phase[r]]

\* Mutant: a response may start again once it was sent.
SendableAgain(o) == status[o] \in {"NONE", "SENT"}
Sendable(o) == status[o] = "NONE"
Streaming(o) == status[o] = "SENDING"

\* What user code may not do, though nothing stops it: send a file on a response
\* already begun, forward one, upgrade one, or send on the object of a forward's
\* callback, whose reply the server sends itself.
Misuse(r, bad) == misused' = IF bad THEN misused \union {r} ELSE misused

SetResponseStatus(r, c) ==
    /\ Calls(r, "setResponseStatus")
    /\ code' = [code EXCEPT ![Current(r)] = c]
    /\ UNCHANGED <<request_counter, phase, number, upstream, status, len, refs, ctx,
                   wireVars, logVars, misused>>

SendResponseStart(r, c) ==
    /\ Calls(r, "sendResponseStart")
    /\ Sendable(Current(r))
    /\ Emit(r, "start", c, 0)
    /\ status' = [status EXCEPT ![Current(r)] = "SENDING"]
    /\ len' = [len EXCEPT ![Current(r)] = 0]
    /\ code' = [code EXCEPT ![Current(r)] = c]
    /\ Misuse(r, phase[r] = "callback")
    /\ UNCHANGED <<request_counter, phase, number, upstream, refs, ctx, logVars>>

\* Mutant: the chunk's bytes are not counted.
SendResponseChunkUncounted(r) ==
    /\ Calls(r, "sendResponseChunk")
    /\ Streaming(Current(r))
    /\ Emit(r, "chunk", 0, 1) /\ sent'[r].len <= MaxLen
    /\ UNCHANGED <<request_counter, phase, number, upstream, status, code, len, refs, ctx,
                   logVars, misused>>
SendResponseChunk(r) ==
    /\ Calls(r, "sendResponseChunk")
    /\ Streaming(Current(r))
    /\ len[Current(r)] < MaxLen
    /\ Emit(r, "chunk", 0, 1)
    /\ len' = [len EXCEPT ![Current(r)] = @ + 1]
    /\ UNCHANGED <<request_counter, phase, number, upstream, status, code, refs, ctx,
                   logVars, misused>>

SendResponseEnd(r) ==
    /\ Calls(r, "sendResponseEnd")
    /\ Streaming(Current(r))
    /\ Emit(r, "end", 0, 0)
    /\ status' = [status EXCEPT ![Current(r)] = "SENT"]
    /\ UNCHANGED <<request_counter, phase, number, upstream, code, len, refs, ctx,
                   logVars, misused>>

\* sendFile looks at no status.  c and n are the outcomes of its checks: not
\* modified; for HEAD the headers only; the file or a part of it, or no such range.
FileReply(r) ==
    {<<304, 0>>} \union (IF r \in HeadRequest THEN {<<200, 0>>}
                        ELSE {<<200, 1>>, <<206, 1>>, <<416, 0>>})
SendFile(r, c, n) ==
    /\ Calls(r, "sendFile")
    /\ Emit(r, "reply", c, n)
    /\ code' = [code EXCEPT ![Current(r)] = c]
    /\ len' = IF n > 0 THEN [len EXCEPT ![Current(r)] = n] ELSE len
    /\ status' = [status EXCEPT ![Current(r)] = "SENT"]
    /\ Misuse(r, status[Current(r)] # "NONE" \/ phase[r] = "callback")
    /\ UNCHANGED <<request_counter, phase, number, upstream, refs, ctx, logVars>>

-----------------------------------------------------------------------------
(* request_handler after user code.                                        *)

\* User code of a kind of frame gave control back to the server.
Resume(r, frames) ==
    /\ phase[r] \in frames
    /\ UNCHANGED <<request_counter, number, upstream>>

\* Mutant: the default status is forgotten.
ReplyCodeUnset(c) == c
\* A handler that set no status answers 200.
ReplyCode(c) == IF c = 0 THEN 200 ELSE c
Succeeds(c) == c \in 200..299

\* The context of a forward; the response will be logged under this number.
NewCtx(id) == [state |-> "pending", request_id |-> id, body |-> 0]
\* Mutant: the context takes no reference on the request.
ReleasedAll(r, forwarded) == refs[r] - 2
\* References left once the handler's two are dropped and the context, if
\* there is one, took its own.
Released(r, forwarded) == refs[r] - 2 + (IF forwarded THEN 1 ELSE 0)

\* forward_request, then the end of request_handler.  "refused": the URL does
\* not parse or libevent gives no connection or request (the context, if there
\* was one, is freed); "lost": evhttp_make_request fails, which is ignored.
ForwardOutcome == {"refused", "pending"} \union
                  (IF ConnectErrors THEN {"lost"} ELSE {})
\* Mutant: the status is not set to FORWARD.
ForwardRequestUnmarked(r, c, outcome) ==
    LET forwarded == outcome # "refused"
        c1 == IF forwarded THEN c ELSE 500
    IN /\ code' = [code EXCEPT ![Origin(r)] = c1]
       /\ ctx' = IF forwarded
                 THEN [ctx EXCEPT ![r] = [NewCtx(request_counter) EXCEPT !.state = outcome]]
                 ELSE ctx
       /\ Conclude(r, status[Origin(r)], c1, len[Origin(r)], 0)
       /\ refs' = [refs EXCEPT ![r] = Released(r, forwarded)]
       /\ UNCHANGED <<status, len>>
ForwardRequest(r, c, outcome) ==
    LET forwarded == outcome # "refused"
        st == IF forwarded THEN "FORWARD" ELSE status[Origin(r)]
        c1 == IF forwarded THEN c ELSE 500
    IN /\ status' = [status EXCEPT ![Origin(r)] = st]
       /\ code' = [code EXCEPT ![Origin(r)] = c1]
       /\ ctx' = IF forwarded
                 THEN [ctx EXCEPT ![r] = [NewCtx(request_counter) EXCEPT !.state = outcome]]
                 ELSE ctx
       /\ Conclude(r, st, c1, len[Origin(r)], 0)
       /\ refs' = [refs EXCEPT ![r] = Released(r, forwarded)]
       /\ UNCHANGED len

\* The handler returned and the response was started or sent: its value is
\* ignored.
HandlerReturnsSent(r) ==
    /\ Resume(r, {"handler"})
    /\ ~Sendable(Origin(r))
    /\ Conclude(r, status[Origin(r)], code[Origin(r)], len[Origin(r)], 0)
    /\ refs' = [refs EXCEPT ![r] = Released(r, FALSE)]
    /\ UNCHANGED <<objectVars, ctx, misused>>

\* The handler returned "nothing", a "body" (a string, or a value JSON
\* encoded), or a value that is none of these ("unprintable").  The value is
\* looked at only when the status is a success.
HandlerReturns(r, value) ==
    LET c == ReplyCode(code[Origin(r)])
        n == IF Succeeds(c) /\ value = "body" THEN 1 ELSE len[Origin(r)]
        c1 == IF Succeeds(c) /\ value = "unprintable" THEN 500 ELSE c
    IN /\ Resume(r, {"handler"})
       /\ Sendable(Origin(r))
       /\ code' = [code EXCEPT ![Origin(r)] = c1]
       /\ len' = [len EXCEPT ![Origin(r)] = n]
       /\ Conclude(r, "NONE", c1, n, n)
       /\ refs' = [refs EXCEPT ![r] = Released(r, FALSE)]
       /\ UNCHANGED <<status, ctx, misused>>

\* Mutant: an HTTPForward returned is obeyed whatever the status.
HandlerReturnsForwardAlways(r, outcome) ==
    /\ Resume(r, {"handler"})
    /\ ForwardRequest(r, ReplyCode(code[Origin(r)]), outcome)
    /\ UNCHANGED misused
\* The handler returned an HTTPForward object.
HandlerReturnsForward(r, outcome) ==
    /\ Resume(r, {"handler"})
    /\ Sendable(Origin(r))
    /\ Succeeds(ReplyCode(code[Origin(r)]))
    /\ ForwardRequest(r, ReplyCode(code[Origin(r)]), outcome)
    /\ UNCHANGED misused

\* The handler threw an HTTPForward: forwarded whatever the status is.  The
\* call that threw has returned null, so its code was looked at first.
HandlerThrowsForward(r, outcome) ==
    /\ Resume(r, {"handler"})
    /\ "HTTPForward" \in Exceptions
    /\ LET c == code[Origin(r)]
       IN ForwardRequest(r, IF Sendable(Origin(r)) THEN ReplyCode(c) ELSE c, outcome)
    /\ Misuse(r, ~Sendable(Origin(r)) /\ outcome # "refused")

\* An HTTPError carries its code (its constructor takes 400 to 599); any other
\* exception is a 500.  invokeBeforeHandshake makes no case of HTTPForward.
ThrownCodes(frame) ==
    (IF "HTTPError" \in Exceptions THEN StatusCodes \intersect 400..599 ELSE {})
    \union (IF "other" \in Exceptions THEN {500} ELSE {})
    \union (IF frame = "handshake" /\ "HTTPForward" \in Exceptions THEN {500} ELSE {})
UserCodeThrows(r, c) ==
    /\ Resume(r, {"handler", "handshake"})
    /\ c \in ThrownCodes(phase[r])
    /\ code' = [code EXCEPT ![Origin(r)] = c]
    /\ Conclude(r, status[Origin(r)], c, len[Origin(r)], 0)
    /\ refs' = [refs EXCEPT ![r] = Released(r, FALSE)]
    /\ UNCHANGED <<status, len, ctx, misused>>

\* beforeHandshake returned and the handshake succeeds, whatever it sent.
HandshakeReturns(r) ==
    /\ Resume(r, {"handshake"})
    /\ Misuse(r, ~Sendable(Origin(r)))
    /\ refs' = [refs EXCEPT ![r] = Released(r, FALSE)]
    /\ Upgrade(r)
    /\ UNCHANGED <<len, ctx>>

\* beforeHandshake returned and the keys of an old draft's handshake are bad.
HandshakeRefused(r) ==
    /\ Resume(r, {"handshake"})
    /\ code' = [code EXCEPT ![Origin(r)] = 400]
    /\ refs' = [refs EXCEPT ![r] = Released(r, FALSE)]
    /\ Conclude(r, status[Origin(r)], 400, len[Origin(r)], 0)
    /\ UNCHANGED <<status, len, ctx, misused>>

-----------------------------------------------------------------------------
(* forward_response_callback.                                              *)

\* Mutant: the context keeps its reference on the request.
FreeCtxOnly(r) ==
    /\ ctx' = [ctx EXCEPT ![r] = NoCtx]
    /\ UNCHANGED refs
\* free_client_ctx drops the context and its reference on the origin.
FreeCtx(r) ==
    /\ ctx' = [ctx EXCEPT ![r] = NoCtx]
    /\ refs' = [refs EXCEPT ![r] = @ - 1]

ForwardPending(r) == InLoop /\ ctx[r].state = "pending"

\* Mutant: the client of a failed forward is told nothing.
UpstreamFailsSilently(r) ==
    /\ ForwardPending(r)
    /\ FreeCtx(r)
    /\ UNCHANGED <<request_counter, phase, number, upstream, objectVars, wireVars, logVars, misused>>
\* The connection to the upstream was cut or timed out, and libevent calls back with
\* no response: the client gets a 500 and the log gets nothing.
UpstreamFails(r) ==
    /\ ForwardPending(r)
    /\ Emit(r, "reply", 500, 0)
    /\ stale' = IF evreq[r] \in Freed THEN stale \union {r} ELSE stale
    /\ FreeCtx(r)
    /\ UNCHANGED <<request_counter, phase, number, upstream, objectVars, log, misused>>

\* Mutant: the log gives the number of the latest request.
LogNumberNow(r) == request_counter
\* The upstream's reply is sent, logged under the origin's number with the
\* origin's status, and the context freed.
LogNumber(r) == ctx[r].request_id
Relay(r, c, n) ==
    /\ len' = [len EXCEPT ![Origin(r)] = n]
    /\ Emit(r, "reply", c, n)
    /\ WriteLog(r, LogNumber(r), code[Origin(r)], n)
    /\ FreeCtx(r)

\* What libevent calls back with: the status of an answer and the bytes of its body,
\* or the empty response of a connection that could not be made, with status 0.
Responses(r) ==
    {<<0, 0>>} \union
    {reply \in UpstreamCodes \X (0..1) : Bodyless(r, reply[1]) => reply[2] = 0}

UpstreamAnswers(r, c, n) ==
    /\ ForwardPending(r)
    /\ Relay(r, c, n)
    /\ upstream' = [upstream EXCEPT ![r] = {c}]
    /\ UNCHANGED <<request_counter, phase, number, status, code, misused>>

\* The forward has a callback: it is called with an object made for it.
CallbackCalled(r, c, n) ==
    /\ ForwardPending(r)
    /\ phase' = [phase EXCEPT ![r] = "callback"]
    /\ status' = [status EXCEPT ![Response(r)] = "NONE"]
    /\ code' = [code EXCEPT ![Response(r)] = c]
    /\ len' = [len EXCEPT ![Response(r)] = n]
    /\ ctx' = [ctx EXCEPT ![r].body = n]
    /\ upstream' = [upstream EXCEPT ![r] = {c}]
    /\ stale' = IF evreq[r] \in Freed THEN stale \union {r} ELSE stale
    /\ UNCHANGED <<request_counter, number, refs, wireVars, log, misused>>

\* The callback returned or threw (its exception is dropped): the status it
\* left replaces the upstream's.
CallbackReturns(r) ==
    /\ Resume(r, {"callback"})
    /\ phase' = [phase EXCEPT ![r] = "loop"]
    /\ Relay(r, code[Response(r)], ctx[r].body)
    /\ UNCHANGED <<status, code, misused>>

-----------------------------------------------------------------------------
(* What libevent does between two calls of the server.                     *)

\* A response was written to the socket: evhttp frees the request.
ResponseWritten(r) ==
    /\ InLoop
    /\ evreq[r] = "live" /\ wire[r] \in {"complete", "garbled"}
    /\ evreq' = [evreq EXCEPT ![r] = "freed"]
    /\ UNCHANGED <<request_counter, phase, number, upstream, objectVars, refs, ctx,
                   wire, sent, logVars, misused>>

\* The client disconnects, or its connection idles for the ten seconds of
\* evhttp_set_timeout.  A request not answered yet survives its connection.
ClientLeaves(r) ==
    /\ ClientsLeave
    /\ InLoop
    /\ phase[r] = "loop" /\ evreq[r] = "live" /\ wire[r] \in {"none", "open"}
    /\ evreq' = [evreq EXCEPT ![r] = "detached"]
    /\ UNCHANGED <<request_counter, phase, number, upstream, objectVars, refs, ctx,
                   wire, sent, logVars, misused>>

\* Every request of this instance was received and nothing is outstanding.
Quiescent ==
    /\ InLoop
    /\ \A r \in Request : phase[r] = "loop" /\ ctx[r].state # "pending"
    /\ UNCHANGED vars

-----------------------------------------------------------------------------
RejectCodes == {400, 404, 405, 500}

Receive(r) ==
    \/ \E c \in RejectCodes : ReceiveRejected(r, c)
    \/ ReceiveRouted(r)
    \/ ReceiveHandshake(r)
    \/ ReceiveUpgrade(r)

UserCall(r) ==
    \/ \E c \in StatusCodes : SetResponseStatus(r, c) \/ SendResponseStart(r, c)
    \/ SendResponseChunk(r)
    \/ SendResponseEnd(r)
    \/ \E reply \in FileReply(r) : SendFile(r, reply[1], reply[2])

UserCodeEnds(r) ==
    \/ HandlerReturnsSent(r)
    \/ \E value \in {"nothing", "body", "unprintable"} : HandlerReturns(r, value)
    \/ \E outcome \in ForwardOutcome :
          HandlerReturnsForward(r, outcome) \/ HandlerThrowsForward(r, outcome)
    \/ \E c \in StatusCodes \union {500} : UserCodeThrows(r, c)
    \/ HandshakeReturns(r)
    \/ HandshakeRefused(r)
    \/ CallbackReturns(r)

UpstreamEnds(r) ==
    \/ UpstreamFails(r)
    \/ \E response \in Responses(r) :
          \/ UpstreamAnswers(r, response[1], response[2])
          \/ CallbackCalled(r, response[1], response[2])

Environment(r) == ResponseWritten(r) \/ ClientLeaves(r)

Next ==
    \/ \E r \in Request : \/ Receive(r)
                          \/ UserCall(r)
                          \/ UserCodeEnds(r)
                          \/ UpstreamEnds(r)
                          \/ Environment(r)
    \/ Quiescent

\* User code comes to an end, and libevent calls back every forward: with the
\* upstream's response, or with none after its timeout.
Fairness == \A r \in Request : WF_vars(UserCodeEnds(r)) /\ WF_vars(UpstreamEnds(r))

Spec == Init /\ [][Next]_vars

\* The applications that never misuse the API.
WellBehavedSpec == Init /\ [][Next /\ misused' = {}]_vars /\ Fairness

-----------------------------------------------------------------------------
(* Properties.                                                             *)

\* Every variable has its type.
Code == HttpStatus \union UpstreamCodes \union {0}
LogEntry == [id : 0..CounterMax, code : Code, len : Nat]
Ctx == [state : {"none", "pending", "lost"}, request_id : 0..CounterMax, body : Nat]
TypeOK ==
    /\ request_counter \in 0..CounterMax
    /\ phase \in [Request -> UserFrame \union {"new", "loop"}]
    /\ number \in [Request -> 0..CounterMax]
    /\ upstream \in [Request -> SUBSET (UpstreamCodes \union {0})]
    /\ status \in [Object -> Status]
    /\ code \in [Object -> Code]
    /\ len \in [Object -> Nat]
    /\ refs \in [Request -> Int]
    /\ ctx \in [Request -> Ctx]
    /\ evreq \in [Request -> {"live", "owned", "detached", "freed", "dropped"}]
    /\ wire \in [Request -> {"none", "open", "complete", "garbled"}]
    /\ sent \in [Request -> [code : Code, len : Nat]]
    /\ log \in [Request -> Seq(LogEntry)]
    /\ misused \in SUBSET Request
    /\ stale \in SUBSET Request

\* The client of r has got an answer.
Answered(r) == wire[r] \in {"complete", "garbled"}

\* A response is garbled (two replies, a reply inside a chunked response, ...)
\* only for a request whose own user code misused the API: however requests,
\* forwards and departures interleave, the handler of one never spoils another,
\* and the server's own reply at the end of request_handler never doubles one.
GarbledOnlyByMisuse == \A r \in Request : wire[r] = "garbled" => r \in misused

\* Once request_handler returned, a client still there was answered completely
\* or its forward is outstanding: no exit path, exception or refused forward
\* leaves it without an answer.  (A forward that failed at once is the lost one.)
NoRequestForgotten ==
    \A r \in Request :
        phase[r] = "loop" /\ r \notin misused /\ evreq[r] \notin {"detached", "dropped"}
            => (Answered(r) <=> ctx[r].state = "none")

\* No client is ever sent a status line that is not an HTTP status, unless it is the
\* one its own request's upstream answered with: the zero response_code starts from
\* never reaches the wire from request_handler, whatever path it takes, nor does the
\* status of another request's upstream or one the callback replaced.
StatusLineValid ==
    \A r \in Request : wire[r] # "none" => sent[r].code \in HttpStatus \union upstream[r]

\* Server.c: "missing response, send 500 error".  The client of a forward whose
\* upstream could not be connected to is sent a 500, unless a callback gave its
\* response another status.
MissingResponseIs500 ==
    \A r \in Request :
        upstream[r] = {0} /\ code[Response(r)] = 0 /\ Answered(r) /\ r \notin misused
            => sent[r].code = 500

\* A request is logged at most once, under its own number though others arrived
\* while it was forwarded, and only after its response ended or its client left.
LogOnceUnderOwnNumber ==
    \A r \in Request : log[r] # <<>> =>
        /\ Len(log[r]) = 1
        /\ log[r][1].id = number[r]
        /\ phase[r] = "loop" /\ ctx[r].state = "none"
        /\ Answered(r) \/ evreq[r] \in Freed

\* The bytes the log gives for a response are the bytes of body it was sent, by
\* user code that returns or sends it; never fewer, and more only when the reply is
\* one without a body (HEAD, 204, 304), whose bytes are counted though libevent may
\* leave them out.  (What setResponseBody set is in ForwardMessage, with the same
\* question.)
LogCountsBytesSent ==
    \A r \in Request :
        log[r] # <<>> /\ r \notin misused /\ evreq[r] # "dropped" =>
            /\ log[r][1].len >= sent[r].len
            /\ log[r][1].len = sent[r].len \/ Bodyless(r, sent[r].code)

\* The server holds the request object exactly while it can still use it: two
\* references under request_handler's user code, one while a forward is
\* outstanding, none otherwise; a refused forward leaks none.
ObjectHeldWhileUsed ==
    \A r \in Request :
        refs[r] = (IF phase[r] \in {"handler", "handshake"} THEN 2 ELSE 0)
                  + (IF ctx[r].state # "none" THEN 1 ELSE 0)

\* The evhttp_request is used after libevent freed it only when user code
\* misused the API or the client left while its forward was outstanding (the
\* log entry is then made from the request evhttp_send_reply just freed).
StaleOnlyAfterDeparture ==
    \A r \in stale : r \in misused \/ evreq[r] = "dropped"

\* Every request that arrives is answered or loses its client.
EveryRequestAnswered ==
    \A r \in Request :
        phase[r] # "new" ~> Answered(r) \/ evreq[r] \in {"detached", "dropped"}

\* Every forward ends and releases what it holds.
EveryForwardEnds == \A r \in Request : ctx[r].state # "none" ~> refs[r] = 0

\* The server keeps the promise of ResponseContract to well-behaved applications.
Contract == INSTANCE ResponseContract WITH
    response <- [r \in Request |->
                    CASE phase[r] = "new"      -> "absent"
                      [] wire[r] = "open"      -> "begun"
                      [] wire[r] = "complete"  -> "complete"
                      [] OTHER                 -> "pending"],
    gone     <- {r \in Request : evreq[r] \in {"detached", "dropped"}},
    recorded <- {r \in Request : log[r] # <<>>}
ImplementsContract == Contract!Spec

\* The inductive invariant behind the safety properties: where a request is
\* fixes what the server holds for it, and, if its user code behaves, what its
\* status says of the response is what the client has been sent.
Fresh(r) ==
    phase[r] = "new" =>
        /\ status[Origin(r)] = "NONE" /\ wire[r] = "none" /\ evreq[r] = "live"
        /\ ctx[r].state = "none" /\ refs[r] = 0 /\ log[r] = <<>>
InHandler(r) ==
    phase[r] \in {"handler", "handshake"} =>
        /\ number[r] = request_counter
        /\ status[Origin(r)] # "FORWARD" /\ evreq[r] = "live"
        /\ ctx[r].state = "none" /\ refs[r] = 2 /\ log[r] = <<>>
        /\ status[Origin(r)] = "SENT" => Answered(r)
        /\ r \notin misused =>
              /\ status[Origin(r)] = "NONE"    => wire[r] = "none"
              /\ status[Origin(r)] = "SENDING" => wire[r] = "open"
              /\ status[Origin(r)] = "SENT"    => wire[r] = "complete"
Forwarded(r) ==
    ctx[r].state # "none" =>
        /\ phase[r] \in {"loop", "callback"}
        /\ ctx[r].request_id = number[r] /\ refs[r] = 1 /\ log[r] = <<>>
        /\ r \notin misused => wire[r] = "none" /\ evreq[r] \in {"live", "detached"}
InCallback(r) ==
    phase[r] = "callback" =>
        /\ ctx[r].state = "pending"
        /\ r \notin misused => status[Response(r)] = "NONE"
Ended(r) ==
    phase[r] = "loop" /\ ctx[r].state = "none" =>
        /\ refs[r] = 0
        /\ r \notin misused => wire[r] = "complete" \/ evreq[r] = "dropped"
Logged(r) ==
    log[r] # <<>> => /\ log[r] = <<log[r][1]>> /\ log[r][1].id = number[r]
                     /\ Answered(r) \/ evreq[r] \in Freed
NotSpoilt(r) ==
    /\ wire[r] = "garbled" => r \in misused
    /\ r \in stale => r \in misused \/ evreq[r] = "dropped"
RequestInv(r) == /\ Fresh(r) /\ InHandler(r) /\ Forwarded(r) /\ InCallback(r)
                 /\ Ended(r) /\ Logged(r) /\ NotSpoilt(r)
IInv == \A r \in Request : RequestInv(r)

\* Server.c: "stop sending unfinished chunk response".  Back in the event loop,
\* no chunked response is left without its end.
ChunkedResponseStopped ==
    \A r \in Request : phase[r] = "loop" => wire[r] # "open"

=============================================================================
