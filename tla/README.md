# A TLA+ model of phpcan

phpcan is a PHP extension in C: an HTTP and WebSocket server that runs inside
one PHP process on libevent's `evhttp`. User code builds a `Can\Server\Router`
of routes, hands it to `Can\Server::start`, and is called back for every request.
This directory holds TLA+ modules translated from the source, the TLC
configurations that check them on small instances, and proofs that TLAPS checks.

Everything happens in one thread. What makes the program hard is that its
callbacks call into user code, which may call back into the objects they hold,
keep those objects, throw, or return one of several kinds of value; that a
forwarded request is finished by another callback much later; and that libevent
frees requests and connections on its own account.

## 1. The system's parts

| part | state | operations | correct when |
|---|---|---|---|
| Server object (`Server.c`) | event base, `evhttp`, router, log file | `__construct`, `start`, `stop` | one loop per event base; nothing used after `stop` |
| Request dispatch (`request_handler`) | the request counter; per request an object with `status`, `response_code`, `response_len` | arrival, routing, call of the handler, the tail that answers | every client is answered, once; logged once |
| Forwarding proxy (`forward_request`, `forward_response_callback`) | one `php_can_client_ctx` per forward, holding a reference on the request object | forward, refuse, fail, answer, call the user callback | a forward ends, answers, and releases what it holds |
| Request object (`Server/Request.c`) | the response state machine; header lists | `setResponseStatus`, `redirect`, `sendResponseStart/Chunk/End`, `sendFile`, headers, cookies | user code cannot make the server spoil a response it did not spoil itself |
| Files and ranges (`sendFile`) | a table of content types; descriptors | ETag, dates, content type, `Range` | the bytes, the status and the headers agree; a copy is called current only when it is |
| Headers and bodies (`Server/Request.c`, `Server.c`) | two header lists and two buffers per request | `addResponseHeader`, `removeResponseHeader`, `setResponseBody`, `setCookie`, the copies of a forward | either side can read the body by its headers |
| Access log (`Server.h` macros) | a stream | an entry per request | one entry, right number, status and length |
| Router (`Server/Router.c`) | the array of routes, two maps over it, an iterator | `__construct`, `addRoute`, iteration, look-up | a request gets the route registered for it |
| Route (`Server/Route.c`) | pattern, methods, casts, handler | `__construct`, `setMethod`, getters | the pattern and the casts are those of the path |
| WebSocket handshake (`WebSocketRoute.c`) | - | header checks, `beforeHandshake`, digests, upgrade, `afterHandshake` | refused or upgraded, never both |
| WebSocket connection (`WebSocketRoute.c`) | `ctx->evcon`, references, the two directions of the bufferevent | read, write and error callbacks, close callback, `send`, `close` | never deaf, never used after it was freed, hooks in order |
| Frame codec (`WebSocketRoute.c`) | - | `encode_data`, `decode_data`, hixie-76 | decodes what a peer encodes |
| Multipart parser (`Server/multipart.c`) | fields, uploads, temporary files | parse, release | fields and uploads are those of the body; every file is found or gone |
| String utilities, exceptions, module set-up (`Can.c`, `Exception.c`, `php_can.h`) | - | - | - |

How they interact: libevent calls `request_handler`, which looks the request up in
the router and calls the handler of a route or the WebSocket handshake. The
handler calls methods of the request object, which send through `evhttp`. It may
return or throw an `HTTPForward`; then `forward_request` makes a client request
to an upstream, and its callback sends the upstream's answer, after it has given
user code a second request object over the same `evhttp` request. A handshake
takes the connection away from `evhttp`'s own callbacks.

What is hard, and drives the properties: two objects over one `evhttp_request`;
responses that user code starts, ends or leaves open before it throws; a client
that leaves while its request is forwarded; references taken and dropped on every
exit path; the router's maps, which hold indices into an array that user code
and other routers also change; connection objects that user code keeps and sends
through when the connection may be gone. `PROJECT.json` lists each hazard at its line.

## 2. The modules

| module | models | kind |
|---|---|---|
| `RequestLifecycle` | a request from arrival to the release of its object, with user code, forwards, the log | detailed specification |
| `ResponseContract` | what a client is promised | abstract specification |
| `RequestLifecycleProofs` | theorems about `RequestLifecycle` and the contract | proofs |
| `ForwardMessage` | the headers and bodies of a request and of its forward | detailed specification |
| `ForwardMessageProofs` | theorems about `ForwardMessage` | proofs |
| `FileResponse` | `sendFile` over a file that changes, with its cache | detailed specification |
| `FileResponseProofs` | theorems about `FileResponse` | proofs |
| `Multipart` | the parts of a body, the uploads and their files | detailed specification |
| `MultipartProofs` | theorems about `Multipart` | proofs |
| `Router` | the array, the maps, the iterator and the look-up | detailed specification |
| `RouterProofs` | theorems about `Router` | proofs |
| `RoutePattern` | from a path to a pattern | detailed specification |
| `RoutePatternProofs` | theorems about `RoutePattern` | proofs |
| `ExtremaLemmas` | greatest and least elements, and induction along a list | proofs |
| `WebSocketConnection` | a WebSocket from handshake to release | detailed specification |
| `WebSocketProofs` | theorems about `WebSocketConnection` and `FrameCodec` | proofs |
| `FrameCodec` | the bytes of its frames; extends `WebSocketConnection` | functions |
| `MCRequestLifecycle`, `MCForwardMessage`, `MCFileResponse`, `MCMultipart`, `MCRouter`, `MCRoutePattern`, `MCWebSocket` | the instances | for TLC |

`RequestLifecycle` says which step of a request may follow which, and keeps of a
message only its length; `ForwardMessage` keeps the data of the messages and takes
the steps in their place. `Router` takes a regular expression for the set of paths
it matches; `RoutePattern` is how a path becomes one. `FrameCodec` gives the frames of
`WebSocketConnection` their bytes.

The definitions marked `Mutant:` are plausible mistakes; each property fails when
the definition after it is replaced by its mutant.

### RequestLifecycle

A C function that calls into PHP is cut where user code runs. `phase[r]` says
which user code runs for request `r`: a `handler`, a `handshake` (`beforeHandshake`)
or the `callback` of a forward; `loop` is libevent's event loop, in which another
request may arrive. While a user frame is open only its own calls can happen.

| action | code |
|---|---|
| `Receive` (`ReceiveRejected`, `ReceiveRouted`, `ReceiveHandshake`, `ReceiveUpgrade`) | `request_handler` up to the call of user code; `server_websocket_route_handle_request` |
| `UserCall` (`SetResponseStatus`, `SendResponseStart`, `SendResponseChunk`, `SendResponseEnd`, `SendFile`) | the methods of `Can\Server\Request` |
| `UserCodeEnds` (`HandlerReturns...`, `HandlerThrowsForward`, `UserCodeThrows`, `Handshake...`) | the rest of `request_handler`, with `forward_request` |
| `UpstreamEnds` (`UpstreamFails`, `UpstreamAnswers`, `CallbackCalled`, `CallbackReturns`) | `forward_response_callback`, cut at the user callback |
| `Environment` (`ResponseWritten`, `ClientLeaves`) | libevent: a response written, a client gone |

`status`, `code`, `len` are the fields of the object (`Origin(r)` for the one of
`request_handler`, `Response(r)` for the one of the callback), `refs` the server's
references on it, `ctx` the forward's context. `evreq` is what libevent did with
the `evhttp_request`, `wire` and `sent` what the client received as a grammar
(one reply, or start, chunks, end; anything else is `garbled`). `log` is the access
log; `number`, `upstream`, `misused` and `stale` are history: the number of the request, the
status of the response its forward ended with, the
requests whose user code broke the protocol of the API (the guards at which a
request enters `misused` are in the actions), those touched after libevent freed them.

`Responses(r)` is what libevent calls back with: an answer with any status (`UpstreamCodes`
are any integers; the code relays them unchecked), or the empty response with status 0 of a
connection that was refused. Only a connection cut or timed out gives no response at all
(`UpstreamFails`). Of a reply that has no body (`Bodyless`: HEAD, which the requests in
`HeadRequest` are, 204, 304 and 1xx) libevent may leave out the bytes it is handed, as its versions
differ; the code counts them, and `sent` has either.

Data that no property tells apart is gone: URIs, headers, bodies (a length), log
formats. `MaxLen` bounds the bytes counted, `CounterMax` stands for `LONG_MAX - 1`.

### ResponseContract

Per request: absent, pending, begun, complete; whether the client left; whether
it is in the log. A client that waits is answered (weak fairness). `RequestLifecycle`
implements it under `WellBehavedSpec`, where user code makes no call of its own
that misuses the API, by the refinement mapping at the end of that module.

### ForwardMessage

One request, from the handler through a forward to what the client receives.
`request` and `output` are the two sides of the `evhttp_request`, which the object
of the handler and the one of the callback share; `upstream` and `answer` the two
messages of the client request; a message is a sequence of headers, as libevent
keeps it, and a number of bytes. `Forward` copies the headers, applies the overrides
of `HTTPForward` one by one and moves the body; `UpstreamAnswers` appends the
answer's headers and body to what is already there; `CallbackReturns` compares the
length with that of the emptied buffer. libevent adds a length to a response that
says nothing of it (`Framed`) and clears the headers of an error page. `Set-Cookie`
is a header like any other. Nothing is assumed of the messages that arrive: their headers may
promise other bytes than libevent read (a GET or DELETE request with a length, of which it reads
no body; a 304 answer), or say no length (an answer that ends with its connection, and
the empty response of one that was refused), or say it twice. A message is `Readable` when its
body is as it says. HEAD requests are left out.

### FileResponse

A file has a version, a size, an mtime and an inode, and is written in place or
replaced by another, with the inodes and times file systems give. `SendFile` is
the whole method: its answer is a function of the request and the state, with the
choices that are not its own (what finfo says; what is read behind a `Range` without
a `-`; what the build makes of a sum of longs that overflows). A range is longs: `Atol` gives the
greatest one, `LongMax`, for any greater number, and `Long` is what a sum or difference may be.
`types` is the static table of content types; `descriptors` counts those
nobody closes; `copy[c]` is what a client keeps with its validators. Conversions to
`int` wrap at `Word`, which stands for 2^32; `MaxClock` keeps times below half of it,
where they do not wrap before 2038, while sizes may.

### Multipart

One action per part of a body, by what the parser does with it: `IgnorePart`,
`GarbledPart` (which ends the parsing), `FieldPart`, `FilePart`. A part is whether
it names Content-Disposition, the pairs of the headers before it, its own pairs, those its later
text looks like, and the bytes of its content; the content is its place in the body.
The parser begins behind the first `:` of the part and reads all three alike (`Pairs`).
Creating and writing a temporary file may each fail. Afterwards the application
may move uploads, and the request object is freed; `unlink_filename` is the destructor of every
string of an upload, so with the temporary files go those that an upload has as its name or
file name (`Named`). `Name` are the names in a body, paths of the server's own files among them;
`Base` is what is left of a path; `Other` are files of that kind that belong to others.

### Router

`elements[a]` are PHP arrays with their keys, which the constructor shares with
user code and other routers; `method_routes` and `route_methods` are the two maps,
ordered as PHP arrays are; `added` is the history of registrations, with the methods
the routes had then. The constructor is one step per element, because `numkey`
keeps its value from one element to the next; nothing else runs in between (`Idle`).
`Dispatch` is the look-up of `request_handler`, stated against `Expected`,
which reads only the history. A regular expression is the set of paths it
matches. A router without routes, whose maps are `NULL`, is excluded by name.

### RoutePattern

The loop of `Route::__construct`, one step per turn: a character outside a
placeholder, or a placeholder and the jump behind it, with `Strpos` and `Substr`
as `Can.c` has them. A string is a sequence of characters in which the words the
code compares with, none of which has a `:` in it, count as one. Its reference reads the path as a
whole and a placeholder up to its first `:`, with definitions of its own (`GroupOf`).

### WebSocketConnection

`running` is the hook that runs; no event is handled meanwhile. `reading` and
`writing` are the enabled directions of the bufferevent, `input` and `output` its
frames, `refs` the references to the connection object, `evcon` whether it still
points to the connection, `kept` the objects user code stored. User code may send
and close on every object it was handed or keeps, in a hook or outside (a handler
of some other request). `Plain` are connections to `WebSocketRoute` itself, which
have no hooks but the message handler. One read takes all that arrived for one
frame, as the code does. The release of a connection is `ConnectionFails` (the
error callback into `evhttp_connection_free` into `onClose`) and `CloseReturns`.

### FrameCodec

`Encode` and `Decode` with their real bytes, lengths and exclusive or, and
`Written`, which is what `bufferevent_write` takes from the buffer when the length
counts more than was appended. A byte is combined with its key by halving it, down to
single bits, and the hixie-76 decoder goes through a buffer in one state per byte (`Scanned`).
The peer is written from RFC 6455: every form of a
length, a masking key. It has no state; its properties speak of the protocol
of an open connection.

## 3. What the runs check

| run | instance | shows |
|---|---|---|
| `interleaving` | 2 requests, symmetric; handlers make every call, with the status 404; other user code sends in every wrong place; upstreams answer 999 or refuse | `GarbledOnlyByMisuse`, `NoRequestForgotten`, `LogOnceUnderOwnNumber`, `ObjectHeldWhileUsed`, `StaleOnlyAfterDeparture`, the inductive invariant `IInv`, `StatusLineValid` |
| `contract` | 2 requests, one of them HEAD; well-behaved user code with the statuses 204 and 404, upstreams that answer 304 or 999 or refuse; counter of 1 | `TypeOK`, `LogCountsBytesSent`, `ImplementsContract`, `EveryRequestAnswered`, `EveryForwardEnds` |
| `forward_message` | 1 request of 5, 7 answers, 4 lists of overrides, 3 calls of user code | `ClientCanReadTheBody`, `UpstreamCanReadTheBody`, `OverridesReplace`, `LogCountsBody`, `CookiesReachClient` |
| `file_response` | 1 client, 3 versions of up to 2 bytes, 2 inodes, 3 seconds, 1 descriptor; ranges with every number up to 3 and around a greatest long of 15 | `NotModifiedIsTrue`, `TypeIsOfVersion`, `BytesAreThoseAskedFor` |
| `multipart` | bodies of 3 parts out of 35, 3 temporary files, 2 files of others, uploads on and off, limits 0 and 1 | `FilesAreOnDisk`, `PostIsWhatWasSent`, `UploadsKeepTheirPlace` |
| `router_lists` | 2 routers, 4 routes, 2 methods, 3 registrations, a list both may share | `DispatchAsRegistered`, `CurrentIsRoute`, `IndexIsRoute` |
| `route_pattern` | every path of 5 characters that steer the loop, longer ones of 3 placeholders | `PatternIsPath`, `CastsFitGroups`, `ConstructorReturns` |
| `websocket` | 2 connections, one plain; 3 peer frames of every opcode, 1 send; messages at every length where the encoding changes, every hixie-76 buffer of 5 bytes | `TypeOK`, `NeverDeaf`, `UpgradeFirst`, `CallsReachOpenConnection`, `ContextHeldWhileUsed`, `HookOrder`, `FramesLeave`, `PeerReadsMessage`, `ApplicationReadsMessage`, `HixieEndsInBuffer` |
| `forward_after_start` | 1 request | violated: `ChunkedResponseStopped` |
| `refused_connection` | 1 request, user code that makes no call | violated: `MissingResponseIs500` |
| `content_range` | as `file_response` | violated: `ContentRangeIsInclusive` |
| `websocket_exception` | 1 connection | violated: `ClosedAfterException` |

The bounds. Two requests are enough for one to arrive, be forwarded and end around
another; nothing in the code relates three. A counter of 1 starts over with the
second request. Two registrations of one pattern, a static path and two patterns
that overlap with it, and a route more than the list has, need three
registrations and four routes. Two connections are enough for a hook of one to
send through the other's object; two frames of one peer let one arrive while another
is answered and both be read together. Clients of a file share nothing
but the table, which does not know them, so one is enough; three versions let a copy
outlive a replacement that is replaced again, two inodes and equal times make
validators that agree, two bytes have a part that is not the whole; 15 stands for the
greatest long, with a number on each side of it, for what is compared is only whether one more
fits. A status below 100 and one above 599 come from upstreams (0 and 999). Three parts let a
name be given again behind another part, and three files be listed at once. Five
characters hold a placeholder with a filter, and a second, unclosed one; the longer paths have
three. Messages of 125, 126, 65535 and 65536 bytes stand on both sides of the two
changes of form.

The exceptions in the properties of `forward_message` and `file_response` are the
cases in which the code does something else; they are named in each property and
amount to what is listed under "Also seen" below.

Deadlock is checked for the lifecycle, whose specification stutters only when every
request has come to rest (`Quiescent`). It is not checked for the others: registrations,
frames, versions and calls are bounded and a server with no more of them just waits,
and a message, a body or a path comes to its end.

### The four disagreements

* A handler that calls `sendResponseStart` and throws `HTTPForward` leaves the
  chunked response open; the code's comment is "stop sending unfinished chunk response"
  (`Server.c:685`).
* `Content-Range` names a last byte one behind the last byte sent (`Request.c:1296`;
  the code's own comment on the header it answers is "bytes 100-200 (inclusive)", `Request.c:1273`).
* The client of a forward whose upstream refuses the connection gets a status line with status 0:
  libevent's empty response is not the missing one the code looks for (`Server.c:118`; "missing
  response, send 500 error", `Server.c:119`).
* After an exception in `onMessage` the connection stays open and is read again
  (`WebSocketRoute.c:506` says "we close the connection if unhandled exception occurs").

### Also seen

Behaviour the modules have, which the properties name as exceptions, exclude by the instance or leave
open; no text of the repository speaks of it but where it is quoted:

* A forwarded request is logged with its handler's status, not the one sent (`Server.c:177`).
* The header of a chunked answer of the upstream is relayed with a body that is not
  chunked; a body the callback empties keeps its old length; a body the handler set
  before a forward without callback is not counted (`Server.c:129-174`).
* The length calculated after the callback takes the place of the first `Content-Length`:
  of an upstream that said its length twice, the second one stays (`Server.c:155`).
* A GET, DELETE or OPTIONS request with a `Content-Length` is forwarded with that header and without
  a body, for which the upstream waits (`Server.c:225-250`). `UpstreamCanReadTheBody` says
  that these are the only ones: an upstream can read its message exactly when the client's
  own could be read.
* The status of an upstream is relayed whatever it is (`Server.c:143-173`); `StatusLineValid` allows a
  request the status of its own upstream and no other.
* Of a reply to HEAD, and of 204 and 304, the bytes are counted and logged though libevent
  leaves them out (`Request.c:1396`, `Server.c:172`).
* An override replaces the first header of its name only (`Server.c:234`).
* What `setResponseBody` set is sent and not logged (`Request.c:560`).
* A range whose last byte is the greatest `long`, or greater, overflows when one is added
  to it; where that wraps it is answered 416, while any other last byte behind the end of the file
  means its end (`Request.c:1275`). `BytesAreThoseAskedFor` names the case (`Overflows`).
* `addRoute` uses the number of elements as an index, and the array chooses its own key
  (`Router.c:198, 203`; `Server.h:135-136` says "key is route index"): with keys 0 and 2 the third
  route is registered under the index of the second.
* A file dated at the epoch is "not modified" for everybody; a type whose look-up failed
  stays broken in the table; every answer without a body leaves its descriptor open
  (`Request.c:1171-1235`).
* `max_file_uploads` is compared and never counted down (`multipart.c:309`), uploads
  switched off drop the plain fields, too. Text of a part that looks like a parameter, and a
  parameter of a header before `Content-Disposition`, are read as parameters of the part
  (`multipart.c:274-304`): such a part can change the fields of the names in it.
* With the temporary file of an upload goes every file that the upload has as its name or file name
  and that looks like one of the server's (`multipart.c:30-38`).
* A path with an unclosed `<` never ends the constructor; a placeholder with an unknown
  filter is dropped; one at the beginning prints a null pointer (`Route.c:141-165`).
* A message is cut at its first NUL byte on its way in, and bytes behind the buffer are
  written for it on its way out (`WebSocketRoute.c:370, 489`).

### Fairness

`EveryRequestAnswered` and `EveryForwardEnds` assume that user code returns or
throws (PHP code that runs for ever stops the whole server) and that libevent
calls the callback of a forward that was begun, with an answer, an error or its
timeout. They hold with `ConnectErrors = FALSE`: when `evhttp_make_request` fails
at once its result is ignored and the callback never comes, so that neither the client nor the
reference of such a forward is ever seen to; `NoRequestForgotten` counts it as
outstanding. Nothing is assumed of clients. `FramesLeave` assumes that hooks return and,
strongly, that a socket with output pending is written or fails in the end: nothing but the write callback
disables its event, and the loop polls after every callback. No fairness is
assumed of reading, which other connections' sends may keep turning off.
`ConstructorReturns` assumes that the loop of the constructor goes on (`WF_vars(Next)`):
it is one call.

## 4. What is proved

TLC checks the small instances above; these theorems hold for every value of the
constants that the named assumptions in the modules allow: any number of requests,
connections, clients, routers, headers and parts, paths and lists of any length, and
every bound. Every safety property of a passing run is stated by a theorem. The
statements of the theorems are the definitions the runs check.

| module | theorems of properties | from |
|---|---|---|
| `RequestLifecycleProofs` | `TypeCorrect`, `Invariant`, `GarblingIsOwnFault`, `NobodyForgotten`, `LoggedOnce`, `ObjectHeld`, `StaleOnlyThen` | `IInv` |
| | `StatusLines`, `BytesLogged` | `AnswerInv`, with `IInv` |
| | `ContractKept` | both |
| `WebSocketProofs` | `WTypeCorrect`, `NobodyDeaf`, `CallsReachOpen`, `ContextHeld`, `UpgradeComesFirst` | `WInv` |
| | `HooksInOrder` | `LastInv`, with `WInv` |
| | `PeerReads`, `ApplicationReads`, `HixieStops` | lemmas about bytes |
| `ForwardMessageProofs` | `BytesOfLog`, `LengthTold` | `ForwardInv`, `LengthInv` |
| | `OverridesRight`, `UpstreamReads` | `HandedOn` |
| | `CookiesArrive` | `CookiesKept` |
| `FileResponseProofs` | `NotModifiedTrue`, `TypeRight`, `BytesRight` | `FInv` |
| `MultipartProofs` | `FilesRight`, `PlacesKept`, `FieldsRight` | `MInv`, `PostInv` |
| `RouterProofs` | `IndicesRight`, `IterationRight`, `DispatchRight` | `RInv` |
| `RoutePatternProofs` | `CastsFit`, `PatternRight` | `RouteInv`, `PathInv` |

### The assumptions

Those of the modules (`ApiAssumption`, `MessageAssumption` and so on) give the types of
the constants; TLC evaluates each on every run of its module. Some say more than a type:

* `StatusCodesAssumption`: the codes the application uses are 100 to 599. The methods and the final
  constructor of `HTTPError` check theirs (`Request.c:672, 1345`, `Exception.c:146`); a subclass
  of `HTTPError` that writes its protected `code` itself is left out. The codes of upstreams are any integers.
* `FileBoundsAssumption` keeps times below half of the word (an `int` of seconds, before 2038;
  sizes and inodes may wrap), `LongAssumption` sizes below the greatest long.
* `PartAssumption`: `NoName` is no name, no temporary file has the name of a file of others, and
  behind the blank line of a part come at least the two bytes of a CRLF.
* `MessageAssumption`: the headers of one `HTTPForward` have different names, being keys of a PHP
  array, and the texts of the model for an empty and a deleted cookie are no values. Of the headers and
  bodies of messages that arrive it assumes nothing but their types.
* `CodecAssumption`: a message has at most `MaxString` bytes, the greatest length of a string of
  PHP, an `int`.

The theorems of `RouterProofs` have a hypothesis of their own, `ListsOnly`: the arrays that user
code hands to constructors are lists. Without it `IndexIsRoute` is false, with an array whose keys
are 0 and 2; it holds in the instance of `router_lists`.

### The arguments

*Lifecycle.* None of the properties is inductive by itself: that the tail of `request_handler`
does not double a response depends on `status` saying what was sent, which depends
on where the request is and on whether it is forwarded. `IInv` has one part for each place a
request can be (`Fresh`, `InHandler`, `Forwarded`, `InCallback`, `Ended`) and
one for its log entry and its history. It speaks of one request at a time, so a
step is split in two: it changes nothing of another request that the invariant
mentions (`OthersSame`, `SameKeepsInv`), and one case for each action covers its own.
`AnswerInv` adds that what stands in a status line, or may come to stand in one, is an HTTP status or
that of the request's own upstream (`StatusInv`, with `LineInv` and `UpstreamInv`): the object of the
callback starts from the latter, and a 0 that no upstream sent stays behind. And it adds that the
object's length is that of what its client was sent for as long as it may still be logged, or more
if the reply has no body (`BytesInv`, `Counts`).
`ContractKept` is the safety part of the refinement, `Contract!Init /\ [][Contract!Next]`: each
action of a request changes what the contract sees of it by one of the contract's
steps or not at all, and changes nothing it sees of another request.

*WebSocket.* The invariant is per connection, too. It adds which hook goes with which state
(`HookFits`), that nothing is queued before the upgrade (`Untouched`), and that an
open connection has sent the 101 response or still has it first in its queue (`Begun`).
`LastInv` says which hook a connection may have had last in each of its states; the order
of hooks is an action property that follows from it and from what a step can do to `running`.

*Frames.* The codec keeps no state, so what is proved is about its functions, and holds always
because it holds of both protocols (`OfBoth`). `XorTwice` is proved bit by bit, then for two, four and
eight of them. `LengthIsLeast` compares what `encode_data` writes with the forms of a length that
the peer's side has (`BigEndianIs` finds the eight bytes of a number below 2^31), and `FormIs` says
that the first byte of each form tells how long it is, so that `FrameDecoded` finds the
key and the payload where `decode_data` looks for them. For hixie-76 the scan of a buffer holds, after each
byte of a message, the message up to it (`HixieDecoded`), and is not inside one behind a 0xff (`ScanCloses`).
Writing the proof of `HixieStops` showed that the tests of `websocket_read_cb` overlap and that their
order is part of what they mean: `OpcodeHixie76` has them as the nested `if` of the code, and the
third one, for a binary frame, is never reached.

*Forward.* `ForwardInv` says what the response holds until the answer comes (`Prepared`) and what
the callback finds (`Answered`), as far as user code has not touched it; the log follows.
`LengthInv` adds that the callback finds one length at most, if the answer said one at most.
`HandedOn` and `CookiesKept` relate a message to its history. The lemmas are about libevent's lists (`Of`, `AddHeader`,
`RemoveHeader`) and about `AllOverridden`, which handles a name once since the keys of a PHP
array differ.

*Files.* `RangesFit` is arithmetic about one header and one size; a sum or difference of longs is
what it is in the integers as long as it is one (`LongIs`). `FInv` says that an
earlier version has an earlier time, for every copy and every entry of the table, as long as every
change advanced the clock (`~blurred`); an ETag that agrees has the same time in it, and times
survive their conversion to `int` and to `%x`.

*Multipart.* `FilesInv` counts: as many names of temporary files as uploads, none of them a stray;
what is on disk follows from them and from the names the uploads were given.
`UploadsInv` keeps the numbers given to unnamed uploads below `anonindex`. `PostInv` is
`PostIsWhatWasSent` of the parts read so far, with the greatest position of each name.

*Router.* `MapOf` relates one map to the registrations and the array: each pattern is in the map
once, in the order of first registrations, with the index of the route of the last. A
registration through one router only appends to an array it shares with others. That the
look-up is the one expected is then a comparison of two choices of least and greatest elements.

*Route.* `PathInv` says that of a regular path the loop has written the pieces up to where it is,
and is outside every placeholder. `CastsInv` relates the casts to the groups written so far.

Induction over data. The library's induction theorems take an operator and no
prover here can instantiate one. `ExtremaLemmas` derives from the well-foundedness of `<`
that a set of numbers has a least element, and from the least counterexample an induction
over a *set* of positions (`InductionUpTo`). What `Of`, `AllOverridden`, `PathAsPieces` and `Scan` compute
is proved with it; these are recursive functions whose defining equations are lemmas of
their own.

### Only model-checked

* Liveness: `EveryRequestAnswered`, `EveryForwardEnds`, `FramesLeave`, `ConstructorReturns`, and the
  fairness of `ImplementsContract`. Proofs of them need ENABLED, which the prover does not have.
* The four disagreements of section 3: a run shows each by a counterexample, and there is nothing to prove.

## 5. What is not modelled

* Formatting, URI parsing, the reading of cookies and queries, regular expressions,
  what finfo finds and digests are library work, of which only the outcome is kept.
* The construction, start and stop of the server object. `stop` frees the event base inside
  its own loop, a second server overwrites the base of the first, a failed bind leaves
  `server->http` behind a freed base: the step after each is undefined behaviour.
* Request objects that user code keeps and calls after libevent freed their request,
  for the same reason, and what `websocket_error_cb` does to a connection object
  freed under it.
* In `WebSocketConnection`, `setTimeout` (without effect once the handshake is over)
  and `setData` (which keeps a value). In `FrameCodec`, masked frames, for which nobody asks.
* In `Multipart`, content types without a boundary and bodies whose parts do not end in
  CRLF. In `FileResponse`, the name of a download and the build without finfo. In
  `ForwardMessage`, HEAD requests and clients of HTTP/1.0.
* A second call of a constructor.

## 6. Plan

1. Done: `RequestLifecycle` with its contract; `ForwardMessage`; `FileResponse`; `Multipart`;
   `Router`; `RoutePattern`; `WebSocketConnection`; `FrameCodec`; the proofs of every safety
   property of a passing run, and of the safety part of the contract.
2. An invariant of `FileResponse` on `descriptors`, and the type invariants of the modules that have
   theirs only inside a larger one, stated by themselves.
3. The start and stop of the server object, if its use of a freed base is ever defined.
