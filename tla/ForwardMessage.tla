--------------------------- MODULE ForwardMessage ---------------------------
(***************************************************************************)
(* The headers and the bodies of one request: what user code puts into the *)
(* response (Request.c), what forward_request hands to an upstream and     *)
(* what forward_response_callback makes of its answer (Server.c).  Which   *)
(* of these steps may follow which is RequestLifecycle's; here each comes  *)
(* in its place and its data is kept.                                      *)
(*                                                                         *)
(* A header list is a sequence of [key, value], as libevent keeps it; a    *)
(* body is a number of bytes, those libevent read: a message may promise   *)
(* others, as a GET request or a 304 answer with a Content-Length does, or *)
(* say nothing, as an answer that ends with its connection.  The client    *)
(* speaks HTTP/1.1 and did not ask with HEAD.                              *)
(***************************************************************************)
EXTENDS Integers, SequencesExt

CONSTANTS
    Key,            \* names of headers
    Value,          \* values of those that do not count bytes
    MaxBody,        \* bound: bytes of a body
    MaxCalls,       \* bound: calls of the response methods
    Cookie,         \* what setCookie is called with
    ClientMessage,  \* requests of the client
    UpstreamMessage,\* answers of the upstream
    Override        \* headers of HTTPForward, in the order of the PHP array

ContentLength == "Content-Length"
TransferEncoding == "Transfer-Encoding"
SetCookieKey == "Set-Cookie"
Empty == "empty"        \* the empty string
Deleted == "deleted"    \* the cookie of an empty value, with a date in the past

Header == [key : Key \ {ContentLength}, value : Value]
          \union [key : {ContentLength}, value : 0..MaxBody]
Chunked(m) == \E i \in DOMAIN m.headers : m.headers[i].key = TransferEncoding
Values(headers, k) == {headers[i].value : i \in {j \in DOMAIN headers : headers[j].key = k}}

ASSUME MessageAssumption ==
    /\ {ContentLength, TransferEncoding} \subseteq Key
    /\ SetCookieKey \in Key
    /\ {Empty, Deleted} \intersect Value = {}
    /\ Cookie \subseteq [plainName : BOOLEAN, value : Value \union {Empty},
                       plainValue : BOOLEAN, encode : BOOLEAN, late : BOOLEAN]
    /\ MaxBody \in Nat /\ MaxCalls \in Nat
    /\ ClientMessage \union UpstreamMessage \subseteq [headers : Seq(Header), body : 0..MaxBody]
    /\ Override \subseteq Seq([key : Key, value : Value \union {Empty}])
    /\ \A o \in Override : IsInjective([i \in DOMAIN o |-> o[i].key])

VARIABLES
    phase,      \* "handler", "upstream", "callback" or "done"
    calls,      \* bound on the calls
    request,    \* the request: input_headers and input_buffer
    output,     \* output_headers and output_buffer of the same evhttp_request
    override,   \* the headers the request was forwarded with
    received,   \* history: the request as the client sent it
    upstream,   \* what the upstream was sent
    answer,     \* what the upstream answered
    logged,     \* the bytes of the log entry
    touched,    \* history: keys of the response headers user code named
    bodySet,    \* history: the phases in which user code set the body
    cookies,    \* history: the cookies set, by user code and the upstream
    path        \* history: how the request ended

vars == <<phase, calls, request, output, override, received, upstream, answer, logged,
          touched, bodySet, cookies, path>>

NoMessage == [headers |-> << >>, body |-> 0]
NotLogged == -1

Init ==
    /\ phase = "handler"
    /\ calls = 0
    /\ request \in ClientMessage
    /\ received = request
    /\ output = NoMessage
    /\ override = << >>
    /\ upstream = NoMessage
    /\ answer = NoMessage
    /\ logged = NotLogged
    /\ touched = {}
    /\ bodySet = {}
    /\ cookies = << >>
    /\ path = "open"

-----------------------------------------------------------------------------
(* libevent's header lists.                                                *)

AddHeader(headers, k, v) == Append(headers, [key |-> k, value |-> v])
RemoveHeader(headers, k) == RemoveFirstMatch(headers, LAMBDA h : h.key = k)
HasHeader(headers, k) == Values(headers, k) # {}
FindHeader(headers, k) == headers[SelectInSeq(headers, LAMBDA h : h.key = k)].value

\* The headers of a name, in their order.
Of(headers, k) ==
    LET of[i \in 0..Len(headers)] ==
          IF i = 0 THEN << >>
          ELSE IF headers[i].key = k THEN Append(of[i - 1], headers[i]) ELSE of[i - 1]
    IN of[Len(headers)]

\* A response that says nothing of its length gets one when it is sent.
Framed(m) ==
    IF HasHeader(m.headers, TransferEncoding) \/ HasHeader(m.headers, ContentLength)
    THEN m ELSE [m EXCEPT !.headers = AddHeader(@, ContentLength, m.body)]

-----------------------------------------------------------------------------
(* The response methods, which user code calls on the request object of the *)
(* handler and on the one of the callback: both name the same output.       *)

Called(k) ==
    /\ phase \in {"handler", "callback"}
    /\ calls < MaxCalls
    /\ calls' = calls + 1
    /\ touched' = touched \union k
    /\ UNCHANGED <<phase, request, override, received, upstream, answer, logged, path>>

AddResponseHeader(h) ==
    /\ Called({h.key})
    /\ output' = [output EXCEPT !.headers = AddHeader(@, h.key, h.value)]
    /\ UNCHANGED <<bodySet, cookies>>

\* With a value the first header of that name has to have it.
RemoveResponseHeader(k) ==
    /\ Called({k})
    /\ output' = [output EXCEPT !.headers = RemoveHeader(@, k)]
    /\ UNCHANGED <<bodySet, cookies>>
RemoveResponseHeaderValue(h) ==
    /\ Called({h.key})
    /\ output' = IF HasHeader(output.headers, h.key) /\ FindHeader(output.headers, h.key) = h.value
                 THEN [output EXCEPT !.headers = RemoveHeader(@, h.key)] ELSE output
    /\ UNCHANGED <<bodySet, cookies>>

SetResponseBody(n) ==
    /\ Called({})
    /\ output' = [output EXCEPT !.body = n]
    /\ bodySet' = bodySet \union {phase}
    /\ UNCHANGED cookies

\* Refused: characters a name or an unencoded value must not have, and a year
\* past 9999, at which only a cookie with a value looks.
CookieRefused(c) ==
    \/ ~c.plainName
    \/ ~c.encode /\ c.value # Empty /\ ~c.plainValue
    \/ c.value # Empty /\ c.late

CookieText(c) == IF c.value = Empty THEN Deleted ELSE c.value

SetCookie(c) ==
    /\ ~CookieRefused(c)
    /\ Called({})
    /\ output' = [output EXCEPT !.headers = AddHeader(@, SetCookieKey, CookieText(c))]
    /\ cookies' = Append(cookies, CookieText(c))
    /\ UNCHANGED bodySet

-----------------------------------------------------------------------------
\* The handler returned n bytes: they go behind what setResponseBody set.
Reply(n) ==
    /\ phase = "handler"
    /\ phase' = "done"
    /\ path' = "replied"
    /\ output' = Framed([output EXCEPT !.body = @ + n])
    /\ logged' = n
    /\ UNCHANGED <<calls, request, override, received, upstream, answer, touched, bodySet, cookies>>

\* Mutant: the client's header stays.
OverriddenAdded(headers, o) ==
    IF o.value = Empty THEN RemoveHeader(headers, o.key)
    ELSE AddHeader(headers, o.key, o.value)

\* One header of HTTPForward replaces the first of its name, or removes it.
Overridden(headers, o) ==
    IF o.value = Empty THEN RemoveHeader(headers, o.key)
    ELSE AddHeader(RemoveHeader(headers, o.key), o.key, o.value)

AllOverridden(headers, os) ==
    LET after[i \in 0..Len(os)] == IF i = 0 THEN headers ELSE Overridden(after[i - 1], os[i])
    IN after[Len(os)]

\* Mutant: the body is not handed on.
ForwardedBare(m, os) == [headers |-> AllOverridden(m.headers, os), body |-> 0]

Forwarded(m, os) == [headers |-> AllOverridden(m.headers, os), body |-> m.body]

\* The handler returned or threw HTTPForward: the body moves to the upstream's
\* request, which leaves none behind.
Forward(os) ==
    /\ phase = "handler"
    /\ phase' = "upstream"
    /\ override' = os
    /\ upstream' = Forwarded(request, os)
    /\ request' = [request EXCEPT !.body = 0]
    /\ UNCHANGED <<calls, output, received, answer, logged, touched, bodySet, cookies, path>>

\* No answer: an error page, for which libevent clears the headers, behind what
\* setResponseBody set.
UpstreamFails ==
    /\ phase = "upstream"
    /\ phase' = "done"
    /\ path' = "failed"
    /\ output' = Framed([headers |-> << >>, body |-> output.body + 1])
    /\ UNCHANGED <<calls, request, override, received, upstream, answer, logged, touched, bodySet, cookies>>

\* Mutant: the length of the answer, whatever the response became.
LengthAnswered(m) == answer'.body

LengthLogged(m) == m.body

\* The tail of forward_response_callback.
Relay(m, how) ==
    /\ phase' = "done"
    /\ path' = how
    /\ output' = Framed(m)
    /\ logged' = LengthLogged(m)

CookiesOf(headers) ==
    LET set == Of(headers, SetCookieKey) IN [j \in DOMAIN set |-> set[j].value]

\* Mutant: the answer takes the place of what the handler prepared.
CopiedOver(headers, others) == others

CopiedTo(headers, others) == headers \o others

\* The answer is added to the response; the callback, when it can be called, sees it.
UpstreamAnswers(m) ==
    /\ phase = "upstream"
    /\ answer' = m
    /\ cookies' = cookies \o CookiesOf(m.headers)
    /\ LET copied == [headers |-> CopiedTo(output.headers, m.headers),
                      body |-> output.body + m.body]
       IN \/ Relay(copied, "relayed")
          \/ /\ phase' = "callback"
             /\ output' = copied
             /\ UNCHANGED <<logged, path>>
    /\ UNCHANGED <<calls, request, override, received, upstream, touched, bodySet>>

\* Mutant: the length is added to the one there is.
RecalculatedBeside(m) ==
    IF m.body # 0 THEN [m EXCEPT !.headers = AddHeader(@, ContentLength, m.body)] ELSE m

\* The body moved out of the answer, so its length is compared with 0.
Recalculated(m) ==
    IF m.body # 0
    THEN [m EXCEPT !.headers = AddHeader(RemoveHeader(@, ContentLength), ContentLength, m.body)]
    ELSE m

CallbackReturns ==
    /\ phase = "callback"
    /\ UNCHANGED <<calls, request, override, received, upstream, answer, touched, bodySet, cookies>>
    /\ Relay(Recalculated(output), "rewritten")

UserCall ==
    \/ \E h \in Header : AddResponseHeader(h) \/ RemoveResponseHeaderValue(h)
    \/ \E k \in Key : RemoveResponseHeader(k)
    \/ \E n \in 0..MaxBody : SetResponseBody(n)
    \/ \E c \in Cookie : SetCookie(c)

Next ==
    \/ UserCall
    \/ \E n \in 0..MaxBody : Reply(n)
    \/ \E os \in Override : Forward(os)
    \/ UpstreamFails
    \/ \E m \in UpstreamMessage : UpstreamAnswers(m)
    \/ CallbackReturns

Spec == Init /\ [][Next]_vars

-----------------------------------------------------------------------------
(* Properties.                                                             *)

\* The lengths a message says are that of its body; nobody says two; and who reads
\* it knows where it ends.
LengthsRight(m) == Values(m.headers, ContentLength) \subseteq {m.body}
OneLength(headers) ==
    \A i, j \in DOMAIN headers :
        headers[i].key = ContentLength /\ headers[j].key = ContentLength => i = j
Readable(m) ==
    ~Chunked(m) => LengthsRight(m) /\ (m.body # 0 => HasHeader(m.headers, ContentLength))

\* The lengths the client is told are the length of the body it is sent, unless
\* user code wrote framing headers of its own, or: the upstream answered in
\* chunks, whose header is relayed with a body that has none; the answer promised
\* bytes that libevent did not wait for, and they are not put right by a callback
\* that leaves a body; the callback emptied the body, which the comparison with the
\* emptied buffer does not notice; the answer said its length twice, of which only
\* the first is replaced; or the handler had set a body and no callback has the
\* length calculated again.
ClientCanReadTheBody ==
    phase = "done" /\ touched \intersect {ContentLength, TransferEncoding} = {} =>
        \/ /\ ~HasHeader(output.headers, TransferEncoding)
           /\ Values(output.headers, ContentLength) = {output.body}
        \/ path \in {"relayed", "rewritten"} /\ Chunked(answer)
        \/ path = "relayed" /\ ("handler" \in bodySet \/ ~LengthsRight(answer))
        \/ path = "rewritten" /\ output.body = 0 /\ (bodySet # {} \/ ~LengthsRight(answer))
        \/ path = "rewritten" /\ ~OneLength(answer.headers)

\* Of a header that HTTPForward names, the upstream gets the value given and no
\* other, or none, if the client had sent it at most once; the other headers reach
\* it as the client sent them, in their order.
OverridesReplace ==
    phase \notin {"handler"} /\ path # "replied" =>
        /\ \A k \in Key : (\A i \in DOMAIN override : override[i].key # k) =>
              Of(upstream.headers, k) = Of(received.headers, k)
        /\ \A i \in DOMAIN override : LET o == override[i] IN
              Len(Of(received.headers, o.key)) <= 1 =>
                  Of(upstream.headers, o.key) = IF o.value = Empty THEN << >> ELSE <<o>>

\* The upstream can read the forwarded body, if and only if the client's request
\* had the body it told of: the length that was copied with the headers is the
\* length of the body that moved.  Of a GET, DELETE or OPTIONS request with a
\* Content-Length the upstream waits for bytes that libevent did not read.  Left out
\* are requests whose framing HTTPForward changes, or whose chunks were put together.
UpstreamCanReadTheBody ==
    /\ phase \notin {"handler"} /\ path # "replied"
    /\ ~Chunked(received)
    /\ \A i \in DOMAIN override : override[i].key \notin {ContentLength, TransferEncoding}
    => (Readable(upstream) <=> Readable(received))

\* The bytes of the log entry are the bytes of the body the client was sent,
\* unless the body was set by setResponseBody and not by the handler's value.
LogCountsBody ==
    logged # NotLogged =>
        logged = output.body \/ (path = "replied" /\ bodySet # {})

\* Every cookie, of the handler, of the upstream and of the callback, reaches the
\* client in the order they were set, on every path but that of the error page;
\* unless user code changes Set-Cookie headers one by one.
CookiesReachClient ==
    phase = "done" /\ path # "failed" /\ SetCookieKey \notin touched =>
        CookiesOf(output.headers) = cookies
=============================================================================
