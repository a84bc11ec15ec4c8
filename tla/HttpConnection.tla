---------------------------- MODULE HttpConnection ----------------------------
(***************************************************************************)
(* The three ways in which the library reads an HTTP message from a        *)
(* connection (httpreadwrite.cpp, webserver.cpp):                          *)
(*   "serve"     the mini server reads a request with http_RecvMessage(),  *)
(*               the web server the entity of a POST with                  *)
(*               http_RecvPostMessage();                                   *)
(*   "download"  http_Download() reads a response with http_RecvMessage(); *)
(*   "api"       the application calls http_GetHttpResponse() once and     *)
(*               http_ReadHttpResponse() until it has the entity.          *)
(* The peer's message arrives in any pieces, the peer may close the        *)
(* connection at any time, and reading may fail (a timeout).  What a call  *)
(* does between two calls of sock_read() is one step: nothing but the flag *)
(* of http_CancelHttpGet() is shared with other threads.                   *)
(***************************************************************************)
EXTENDS HttpParser

CONSTANTS
    Messages,           \* what peers send, with what it means (see IsMessage)
    ReadSizes,          \* the sizes an application reads
    DataBufSize,        \* of http_RecvPostMessage(), 1024
    MaxContentLength,   \* g_maxContentLength, 0 for no limit
    MaxErrors           \* bound: how often sock_read() fails

\* wire: the characters; role: request or response to the method asked;
\* accepted: it is well formed; delimited: its end is known without closing;
\* entity: its body; extra: how many characters follow that are not part of it.
IsMessage(m) ==
    /\ DOMAIN m = {"wire", "role", "asked", "accepted", "delimited", "entity", "extra"}
    /\ Range(m.wire) \union Range(m.entity) \subseteq Symbol
    /\ m.role \in {"request", "response"} /\ m.asked \in Method
    /\ m.accepted \in BOOLEAN /\ m.delimited \in BOOLEAN
    /\ m.extra \in Nat

ASSUME ConnectionAssumption ==
    /\ \A m \in Messages : IsMessage(m)
    /\ ReadSizes \subseteq Nat
    /\ {DataBufSize, MaxContentLength, MaxErrors} \subseteq Nat
    /\ DataBufSize > 0

VARIABLES
    message,    \* of the peer
    use,        \* which of the three
    sent,       \* how much of message.wire has been read
    parser,
    pc,         \* the loop whose sock_read() is called, "ready" between calls, "done"
    size,       \* asked for by http_ReadHttpResponse()
    cancel,     \* handle->cancel
    got,        \* what the application, or the file of a POST, has of the entity
    ret,        \* what the last call has returned
    short,      \* it has returned less than it was asked for
    event,      \* observed: how the last sock_read() has ended
    errors      \* sock_read() calls that failed

vars == <<message, use, sent, parser, pc, size, cancel, got, ret, short, event, errors>>

Waiting == {"recv", "get", "read", "post"}

-----------------------------------------------------------------------------
(* The calls, from one sock_read() to the next: what they do with the parser p *)
(* is a record of the variables they change.                                  *)

Outcome(newPc, p, newRet) == [pc |-> newPc, parser |-> p, ret |-> newRet, data |-> <<>>,
                              short |-> FALSE]

\* Is closing the connection the regular end of the message?
ok_on_close(p) == p.ent_position = "UNTIL_CLOSE"
Bad(status) == status \notin {"SUCCESS", "CONTINUE_1", "INCOMPLETE", "INCOMPLETE_ENTITY"}

\* One turn of http_RecvPostMessage(): what it does after parsing, when offset
\* symbols are written and out follows, and what comes next.
RECURSIVE PostTurn(_, _, _), PostWrite(_, _, _)
PostWrite(r, offset, out) ==
    LET q == r.parser
        n == Min({DataBufSize, q.entity_length - offset})
        written == out \o SubSeq(q.msg, q.entity_start + offset + 1,
                                 q.entity_start + offset + n)
    IN  CASE Bad(r.status) -> [Outcome("done", q, "HTTP_BAD_REQUEST") EXCEPT !.data = out]
          [] /\ ~Bad(r.status) /\ offset + DataBufSize > q.entity_length
             /\ q.position # "COMPLETE" -> [Outcome("post", q, "none") EXCEPT !.data = out]
          [] OTHER ->
                IF q.position = "COMPLETE" /\ offset + n = q.entity_length
                THEN [Outcome("done", q, "HTTP_OK") EXCEPT !.data = written]
                ELSE PostTurn(q, offset + n, written)
PostTurn(p, offset, out) ==
    PostWrite(IF p.position = "COMPLETE" THEN Result("SUCCESS", p) ELSE parser_parse_entity(p),
              offset, out)

http_RecvPostMessage(p) == PostTurn([p EXCEPT !.position = "ENTITY"], 0, <<>>)

\* The switch of http_RecvMessage(), and the caller of a POST.
http_RecvMessage(r) ==
    CASE r.status = "SUCCESS" ->
            IF MaxContentLength > 0 /\ r.parser.content_length > MaxContentLength
            THEN Outcome("done", r.parser, "UPNP_E_OUTOF_BOUNDS")
            ELSE IF use = "serve" /\ r.parser.method = "POST"
            THEN http_RecvPostMessage(r.parser)
            ELSE Outcome("done", r.parser, "UPNP_E_SUCCESS")
      [] r.status \in {"FAILURE", "NO_MATCH"} ->
            Outcome("done", r.parser, "UPNP_E_BAD_HTTPMSG")
      [] OTHER -> Outcome("recv", r.parser, "none")

\* ReadResponseLineAndHeaders() and http_GetHttpResponse(), from the end backwards.
AfterReadMethod(r) ==
    IF r.status \in {"CONTINUE_1", "SUCCESS"} THEN Outcome("ready", r.parser, "UPNP_E_SUCCESS")
    ELSE Outcome("done", r.parser, "UPNP_E_BAD_RESPONSE")
AfterHeaders(r) ==
    CASE r.status = "INCOMPLETE" -> Outcome("get", r.parser, "none")
      [] r.status = "OK" -> AfterReadMethod(parser_get_entity_read_method(r.parser))
      [] OTHER -> Outcome("done", r.parser, "UPNP_E_BAD_RESPONSE")
AfterLine(r) == AfterHeaders(IF r.status = "OK" THEN parser_parse_headers(r.parser) ELSE r)
http_GetHttpResponse(p) ==
    AfterLine(IF p.position = "RESPONSE_LINE" THEN parser_parse_responseline(p)
              ELSE Result("OK", p))

\* Mutant: what is copied stays in the message.
TakeEntityKept(p, n) ==
    LET k == Min({n, p.entity_length - p.amount_discarded})
    IN  [Outcome("ready", [p EXCEPT !.cursor = @ - k, !.amount_discarded = @ + k],
                 "UPNP_E_SUCCESS")
            EXCEPT !.data = SubSeq(p.msg, p.entity_start + 1, p.entity_start + k),
                   !.short = k < n]

\* What http_ReadHttpResponse() copies to the application and deletes.
TakeEntity(p, n) ==
    LET k == Min({n, p.entity_length - p.amount_discarded})
    IN  [Outcome("ready", [p EXCEPT !.msg = membuffer_delete(@, p.entity_start, k),
                                    !.cursor = @ - k, !.amount_discarded = @ + k],
                 "UPNP_E_SUCCESS")
            EXCEPT !.data = SubSeq(p.msg, p.entity_start + 1, p.entity_start + k),
                   !.short = k < n]

\* The loop of http_ReadHttpResponse() for n symbols after r.
http_ReadHttpResponse(r, n) ==
    CASE Bad(r.status) -> Outcome("done", r.parser, "UPNP_E_BAD_RESPONSE")
      [] /\ ~Bad(r.status) /\ r.parser.amount_discarded + n > r.parser.entity_length
         /\ ~cancel /\ r.parser.position # "COMPLETE" -> Outcome("read", r.parser, "none")
      [] OTHER ->
            IF cancel THEN Outcome("ready", r.parser, "UPNP_E_CANCELED")
            ELSE TakeEntity(r.parser, n)

\* After data has arrived at the loop of pc.
Continue(p) ==
    CASE pc = "recv" -> http_RecvMessage(parser_parse(p))
      [] pc = "get" -> http_GetHttpResponse(p)
      [] pc = "read" -> http_ReadHttpResponse(parser_parse_entity(p), size)
      [] pc = "post" -> PostTurn(p, Len(got), <<>>)

\* After the peer has closed the connection.  A request has a length (or chunks).
Closed(p) ==
    CASE pc = "recv" ->
            Outcome("done", p, IF ok_on_close(p) THEN "UPNP_E_SUCCESS" ELSE "UPNP_E_BAD_HTTPMSG")
      [] pc = "get" -> Outcome("done", p, "UPNP_E_BAD_RESPONSE")
      [] pc = "read" ->
            IF ok_on_close(p)
            THEN http_ReadHttpResponse(Result("SUCCESS", [p EXCEPT !.position = "COMPLETE"]), size)
            ELSE Outcome("done", p, "UPNP_E_BAD_HTTPMSG")
      [] pc = "post" -> Outcome("done", p, "HTTP_BAD_REQUEST")

\* After sock_read() has failed.  Only http_ReadHttpResponse() can be called again.
Failed(p) ==
    CASE pc = "recv" -> Outcome("done", p, "UPNP_E_SOCKET_ERROR")
      [] pc = "get" -> Outcome("done", p, "UPNP_E_BAD_RESPONSE")
      [] pc = "read" -> Outcome("ready", p, "UPNP_E_SOCKET_ERROR")
      [] pc = "post" -> Outcome("done", p, "HTTP_SERVICE_UNAVAILABLE")

-----------------------------------------------------------------------------

Init ==
    /\ message \in Messages
    /\ use \in IF message.role = "request" THEN {"serve"} ELSE {"download", "api"}
    /\ sent = 0
    /\ parser = IF message.role = "request" THEN parser_request_init
                ELSE parser_response_init(message.asked)
    /\ pc = IF use = "api" THEN "get" ELSE "recv"
    /\ size = 0
    /\ cancel = FALSE
    /\ got = <<>>
    /\ ret = "none"
    /\ short = FALSE
    /\ event = "none"
    /\ errors = 0

Becomes(o) ==
    /\ pc' = o.pc
    /\ parser' = o.parser
    /\ ret' = o.ret
    /\ got' = got \o o.data
    /\ short' = o.short

\* sock_read() returns some of what the peer has sent.
ReadData ==
    /\ pc \in Waiting
    /\ \E n \in 1 .. Len(message.wire) - sent :
        /\ Becomes(Continue(Arrived(parser, SubSeq(message.wire, sent + 1, sent + n))))
        /\ sent' = sent + n
    /\ event' = "data"
    /\ UNCHANGED <<message, use, size, cancel, errors>>

\* sock_read() returns 0.
ReadClosed ==
    /\ pc \in Waiting
    /\ Becomes(Closed(parser))
    /\ event' = "closed"
    /\ UNCHANGED <<message, use, sent, size, cancel, errors>>

ReadError ==
    /\ pc \in Waiting
    /\ errors < MaxErrors
    /\ Becomes(Failed(parser))
    /\ event' = "error"
    /\ errors' = errors + 1
    /\ UNCHANGED <<message, use, sent, size, cancel>>

\* The application calls http_ReadHttpResponse(), until it has returned less
\* than it was asked for.
CallRead(n) ==
    /\ pc = "ready"
    /\ ~short
    /\ ret # "UPNP_E_CANCELED"
    /\ size' = n
    /\ Becomes(http_ReadHttpResponse(
                   IF parser.position = "COMPLETE" THEN Result("SUCCESS", parser)
                   ELSE parser_parse_entity(parser), n))
    /\ UNCHANGED <<message, use, sent, cancel, event, errors>>

\* Another thread of the application.
http_CancelHttpGet ==
    /\ use = "api"
    /\ ~cancel
    /\ cancel' = TRUE
    /\ UNCHANGED <<message, use, sent, parser, pc, size, got, ret, short, event, errors>>

Next ==
    \/ ReadData
    \/ ReadClosed
    \/ ReadError
    \/ \E n \in ReadSizes : CallRead(n)
    \/ http_CancelHttpGet

Spec == Init /\ [][Next]_vars

-----------------------------------------------------------------------------

Finished == ret \in {"UPNP_E_SUCCESS", "HTTP_OK"} /\ (pc = "done" \/ short)
Refused == ret \in {"UPNP_E_BAD_HTTPMSG", "UPNP_E_BAD_RESPONSE", "HTTP_BAD_REQUEST"}

\* What has been sent of the entity: all, or what came before the end.
SentEntity ==
    IF message.delimited THEN message.entity
    ELSE SubSeq(message.entity, 1, Len(message.entity) - (Len(message.wire) - sent))

\* In whatever pieces a response arrives and in whatever pieces the application
\* reads it, after timeouts and with calls that were canceled, it gets the
\* characters of the entity once and in order, and the end (less than it asked
\* for) only when it has them all; the file of a POST likewise.  What it has
\* taken is never more than the parser has found.
\* (http_ReadHttpResponse(), http_RecvPostMessage())
EntityDelivered ==
    message.accepted =>
        /\ parser.amount_discarded <= parser.entity_length
        /\ IsPrefix(got, message.entity)
        /\ Finished /\ (use = "api" \/ ret = "HTTP_OK") => got = SentEntity

\* A request of HTTP 0.9, which names no version, with a blank at the end of its
\* line, cut within the line end: the first format of parser_parse_requestline()
\* waits, the second does not match.
CutSimpleRequest ==
    /\ message.role = "request" /\ "HTTP" \notin Range(message.wire)
    /\ sent > 1 /\ message.wire[sent - 1] = "WS" /\ message.wire[sent] = "CR"

\* No call waits when the last character of a message has arrived that says where
\* it ends, as the peer may keep the connection open, or when the connection is
\* closed.
NoWaitAfterEnd ==
    /\ message.accepted /\ message.delimited /\ sent >= Len(message.wire) - message.extra
            => pc \notin Waiting
    /\ event = "closed" => pc \notin Waiting

\* Whether a message is accepted, with which entity and when does not depend on the
\* pieces in which it arrives, but for CutSimpleRequest.
\* (parser_append(), ReadResponseLineAndHeaders(), loop of http_ReadHttpResponse())
ArrivalIndependent ==
    /\ Finished =>
        /\ message.accepted
        /\ use # "api" /\ ret # "HTTP_OK" => Entity(parser) = SentEntity
    /\ Refused /\ event = "data" => ~message.accepted \/ CutSimpleRequest
    /\ NoWaitAfterEnd
=============================================================================
