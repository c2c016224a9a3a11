-------------------------- MODULE MCForwardMessage --------------------------
(* A small instance of ForwardMessage for TLC.                             *)
EXTENDS ForwardMessage

CONSTANTS v, w

H(k, x) == [key |-> k, value |-> x]
Length(n) == H(ContentLength, n)

Keys == {ContentLength, TransferEncoding, "Host", SetCookieKey}

\* A header once, twice, not at all; a body with its length, in chunks, none, and
\* none where one is promised; of the answers, too, one that the end of its
\* connection ends and one that says its length twice.
Requests == {
    [headers |-> << >>, body |-> 0],
    [headers |-> <<H("Host", v), Length(2)>>, body |-> 2],
    [headers |-> <<H("Host", v), H("Host", v), Length(0)>>, body |-> 0],
    [headers |-> <<H("Host", v), Length(2)>>, body |-> 0],
    [headers |-> <<H(TransferEncoding, v), H("Host", v)>>, body |-> 1]}

Answers == {
    [headers |-> << >>, body |-> 0],
    [headers |-> <<Length(1), H(SetCookieKey, v), H("Host", v)>>, body |-> 1],
    [headers |-> <<Length(0)>>, body |-> 0],
    [headers |-> <<Length(1)>>, body |-> 0],
    [headers |-> << >>, body |-> 1],
    [headers |-> <<Length(1), Length(1)>>, body |-> 1],
    [headers |-> <<H(TransferEncoding, v)>>, body |-> 1]}

Overrides == {
    << >>,
    <<H("Host", w)>>,
    <<H("Host", Empty)>>,
    <<H(TransferEncoding, Empty), H("Host", w)>>}

Cookies == {c \in [plainName : BOOLEAN, value : {w, Empty}, plainValue : BOOLEAN,
                   encode : BOOLEAN, late : BOOLEAN] : c.plainName \/ c.plainValue}
=============================================================================
