-------------------------------- MODULE MCHttp --------------------------------
(* Messages for HttpConnection: every framing of a body, with the layouts that *)
(* make the parser stop and go on.                                             *)
EXTENDS HttpConnection, HttpRequest

HeaderLine(name, value) == <<name, ":", "WS">> \o value \o CRLF
StatusLine(code) == <<"HTTP", "/", "1.1", "WS", code, "WS", "x">> \o CRLF
FirstLine(method) == <<method, "WS", "/", "x", "WS", "HTTP", "/", "1.1">> \o CRLF

\* Bodies, also some that look like line ends, sizes or headers.
Bodies == {<<>>, <<"x", "y">>, <<"0", "CR", "LF">>, <<"CR", "y", ":">>}

\* A framing is the headers that announce the body and the form it has.
Length(body) ==
    [headers |-> HeaderLine("Content-Length", <<Numeral(Len(body))>>), body |-> body]
LongNumber(body) ==     \* with a leading zero, and the line folded
    [headers |-> <<"Content-Length", ":", "CR", "LF", "WS", "0", Numeral(Len(body)), "WS">> \o CRLF,
     body |-> body]

Chunk(data) == <<"0", Numeral(Len(data))>> \o CRLF \o data \o CRLF
Chunks(body, trailer) ==
    [headers |-> HeaderLine("Transfer-Encoding", <<"chunked">>),
     body |-> (IF body = <<>> THEN <<>>
               ELSE Chunk(SubSeq(body, 1, 1)) \o
                    (IF Len(body) > 1 THEN Chunk(Tail(body)) ELSE <<>>))
              \o <<"0">> \o CRLF \o trailer \o CRLF]

OneTrailer == HeaderLine("x", <<"y">>)
TwoTrailers == OneTrailer \o HeaderLine("y", <<>>)
Framings(body) ==
    {Length(body), LongNumber(body), Chunks(body, <<>>), Chunks(body, OneTrailer),
     Chunks(body, TwoTrailers)}

Message(role, asked, wire, entity) ==
    [wire |-> wire, role |-> role, asked |-> asked, accepted |-> TRUE, delimited |-> TRUE,
     entity |-> entity, extra |-> 0]

\* Other headers: a repeated one, and a quoted value with a line end.
OtherHeaders == HeaderLine("x", <<"y">>) \o HeaderLine("x", <<"QUOTE", "CR", "LF", "QUOTE">>)

Responses ==
    {Message("response", "GET", StatusLine("200") \o f.headers \o CRLF \o f.body, b) :
        <<b, f>> \in {<<b, f>> \in Bodies \X UNION {Framings(b) : b \in Bodies} :
                        f \in Framings(b)}}
NoBodies ==
    {Message("response", "HEAD", StatusLine("200") \o Length(<<"x">>).headers \o CRLF, <<>>),
     Message("response", "GET", CRLF \o StatusLine("204") \o OtherHeaders \o CRLF, <<>>)}
NoLength ==
    {[Message("response", "GET", StatusLine("200") \o OtherHeaders \o CRLF \o b, b)
        EXCEPT !.delimited = FALSE] : b \in Bodies}
WithExtra ==
    {[Message("response", "GET", StatusLine("200") \o f.headers \o CRLF \o f.body \o <<"x", "y">>,
              <<"x", "y">>) EXCEPT !.extra = 2] :
        f \in {Length(<<"x", "y">>), Chunks(<<"x", "y">>, <<>>)}}
Requests ==
    {Message("request", "GET", FirstLine(method) \o more \o f.headers \o CRLF \o f.body, b) :
        <<method, more, b, f>> \in
            {<<m, h, b, f>> \in {"POST", "NOTIFY"} \X {<<>>, HeaderLine("SOAPACTION", <<"x">>)}
                                 \X Bodies \X UNION {Framings(b) : b \in Bodies} :
                f \in Framings(b) /\ (m = "POST" \/ h = <<>>)}}
Others ==
    {Message("request", "GET", FirstLine("GET") \o CRLF, <<>>),
     Message("request", "GET", <<"GET", "WS", "/", "x">> \o CRLF, <<>>),
     Message("request", "GET", <<"GET", "WS", "/", "x", "WS">> \o CRLF, <<>>),
     Message("request", "GET", <<"CR", "LF", "WS", "M-SEARCH", "WS", "x", "WS", "WS", "HTTP",
                                 "WS", "/", "1.1", "LF", "x", "WS", ":", "LF", "LF">>, <<>>)}
Malformed ==
    {[Message(role, "GET", wire, <<>>) EXCEPT !.accepted = FALSE] :
        <<role, wire>> \in
            {<<"request", <<"POST", "WS", "x">> \o CRLF>>,
             <<"request", <<"x", "WS", "x", "WS", "HTTP", "/", "1.1">> \o CRLF \o CRLF>>,
             <<"request", <<"M-SEARCH", "WS", "x", "WS", "HTTP", "/", "1.0">> \o CRLF \o CRLF>>,
             <<"request", FirstLine("NOTIFY") \o CRLF>>,
             <<"request", FirstLine("GET") \o <<"x", "WS", "y">> \o CRLF \o CRLF>>,
             <<"request", FirstLine("POST") \o <<"x", ":", "QUOTE", "CTRL">> \o CRLF \o CRLF>>,
             <<"response", StatusLine("200") \o HeaderLine("x", <<"HIGH">>) \o CRLF>>,
             <<"response", <<"HTTP", "/", "1.1", "WS", "200">> \o CRLF \o CRLF>>,
             <<"response", StatusLine("200") \o Length(<<"x">>).headers
                            \o Length(<<"x">>).headers \o CRLF \o <<"x">>>>,
             <<"response", StatusLine("200") \o Chunks(<<>>, <<>>).headers \o CRLF
                            \o <<"1">> \o CRLF \o <<"x", "y">> \o CRLF>>,
             <<"response", StatusLine("200") \o Chunks(<<>>, <<>>).headers \o CRLF
                            \o <<"x">> \o CRLF>>}}

\* Requests that an application writes in up to two parts, where the memory agrees
\* with the length it gives.  To end a request twice does nothing.
Parts == {<<>>, <<"x">>, <<"0", "CR">>, <<"LF">>, <<"x", "y", "2">>}
PartSequences == {<<>>} \union {<<a>> : a \in Parts} \union {<<a, b>> : a, b \in Parts}
WireOf(memory, length, parts) ==
    http_EndHttpRequest(http_EndHttpRequest(
        FoldLeft(http_WriteHttpRequest,
                 http_MakeHttpRequest(http_OpenHttpConnection(memory), length), parts))).wire
Written ==
    {Message("request", "GET", WireOf(Chunked, Chunked, parts), FlattenSeq(parts)) :
        parts \in PartSequences}
    \union {Message("request", "GET", WireOf(0, Len(FlattenSeq(parts)), parts),
                    FlattenSeq(parts)) :
                parts \in {ps \in PartSequences : Len(FlattenSeq(ps)) <= 3}}
    \union {[Message("request", "GET", WireOf(0, UntilClose, <<<<"x">>>>), <<"x">>)
                EXCEPT !.accepted = FALSE]}

AllMessages ==
    Responses \union NoBodies \union NoLength \union WithExtra \union Requests
        \union Others \union Malformed \union Written
============================================================================
