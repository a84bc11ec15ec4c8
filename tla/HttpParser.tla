------------------------------ MODULE HttpParser ------------------------------
(***************************************************************************)
(* The parser of HTTP messages (compa/src/genlib/net/http/httpparser.cpp). *)
(* It is called with what has arrived so far, keeps its place when the     *)
(* message is not complete, and goes on from there.  The operators have    *)
(* the names of the functions; one that changes the parser returns its     *)
(* status with the changed record.                                         *)
(*                                                                         *)
(* A message is a sequence of symbols.  A symbol is a character, or a      *)
(* piece of an identifier whose characters the parser never looks at one   *)
(* by one ("Content-Length", "HTTP"); an identifier may have several.      *)
(* Letter case, the contents of URLs, error codes and exhausted memory are *)
(* left out.                                                               *)
(***************************************************************************)
EXTENDS Integers, SequencesExt

CONSTANT
    IntModulus  \* numbers are stored in an int: 2^32

ASSUME IntModulusAssumption == IntModulus \in Nat \ {0}

Digit == [s \in {"0", "1", "2", "3"} |->
            CASE s = "0" -> 0 [] s = "1" -> 1 [] s = "2" -> 2 [] s = "3" -> 3]

Method == {"GET", "HEAD", "POST", "M-SEARCH", "NOTIFY", "SUBSCRIBE", "UNSUBSCRIBE"}
StatusCode == {"200", "204"}
Version == {"1.0", "1.1"}
Identifier ==
    Method \union StatusCode \union Version \union DOMAIN Digit
        \union {"HTTP", "Content-Length", "Transfer-Encoding", "SOAPACTION",
                "chunked", "x", "y"}
Separator == {"/", ":", ","}
\* A space or tab, the two of a line end, a quote, a control character, one above 127.
Symbol == Identifier \union Separator \union {"WS", "CR", "LF", "QUOTE", "CTRL", "HIGH"}

NUL == "NUL"
Status == {"OK", "SUCCESS", "INCOMPLETE", "INCOMPLETE_ENTITY", "FAILURE", "NO_MATCH",
           "CONTINUE_1"}

-----------------------------------------------------------------------------
(* The scanner: the cursor counts the symbols that are consumed. *)

\* The first position from `from' with a symbol of S, or the one after the last.
FirstOf(msg, from, S) ==
    CHOOSE i \in from .. Len(msg) + 1 :
        /\ i <= Len(msg) => msg[i] \in S
        /\ \A j \in from .. i - 1 : msg[j] \notin S

Token(type, length) == [status |-> "OK", type |-> type, length |-> length]
NoToken(status) == [status |-> status, type |-> "NONE", length |-> 0]

\* As many symbols of S as there are.
Run(msg, cursor, type, S) ==
    LET end == FirstOf(msg, cursor + 1, (Symbol \union {NUL}) \ S)
    IN  IF end > Len(msg) THEN NoToken("INCOMPLETE") ELSE Token(type, end - cursor - 1)

\* A quoted string, which no control character may be in.
AfterQuote(msg, cursor) ==
    LET end == FirstOf(msg, cursor + 2, {"QUOTE", "CTRL"})
    IN  CASE end > Len(msg) -> NoToken("INCOMPLETE")
          [] end <= Len(msg) /\ msg[end] = "CTRL" -> NoToken("FAILURE")
          [] OTHER -> Token("QUOTEDSTRING", end - cursor)

\* Mutant: whether LF follows is not waited for.
AfterCREager(msg, cursor) ==
    IF cursor + 1 < Len(msg) /\ msg[cursor + 2] = "LF" THEN Token("CRLF", 2)
    ELSE Token("CTRL", 1)

\* CR is a line end only with LF after it.
AfterCR(msg, cursor) ==
    IF cursor + 1 = Len(msg) THEN NoToken("INCOMPLETE")
    ELSE IF msg[cursor + 2] = "LF" THEN Token("CRLF", 2) ELSE Token("CTRL", 1)

\* The next token.  What could go on with the next arrival is incomplete.
scanner_get_token(msg, cursor) ==
    LET c == msg[cursor + 1]
    IN  CASE cursor = Len(msg) -> NoToken("INCOMPLETE")
          [] c \in Identifier -> Run(msg, cursor, "IDENTIFIER", Identifier)
          [] c = "WS" -> Run(msg, cursor, "WHITESPACE", {"WS"})
          [] c = "CR" -> AfterCR(msg, cursor)
          [] c = "LF" -> Token("CRLF", 1)
          [] c = "QUOTE" -> AfterQuote(msg, cursor)
          [] c \in Separator \union {NUL} -> Token("SEPARATOR", 1)
          [] c = "CTRL" -> Token("CTRL", 1)
          [] OTHER -> NoToken("FAILURE")

\* A match has a status, the cursor after it and the values of the directives that
\* store one.
Match(status, cursor, args) == [status |-> status, cursor |-> cursor, args |-> args]

\* Tokens of these types are skipped; the first other one is what is returned,
\* with the cursor before it.
SkipTokens(msg, cursor, types) ==
    LET skip[c \in cursor .. Len(msg)] ==
            LET Over(t) == IF t.status = "OK" /\ t.type \in types THEN skip[c + t.length]
                           ELSE Match(t.status, c, <<>>)
            IN  Over(scanner_get_token(msg, c))
    IN  skip[cursor]

skip_blank_lines(msg, cursor) == SkipTokens(msg, cursor, {"WHITESPACE", "CRLF"})

\* What follows token t, and both as one.
WithNext(msg, cursor, t) == [scanner_get_token(msg, cursor + t.length) EXCEPT !.length = @ + t.length]

\* A line end counts as white space when white space follows it.
LinearWhitespace(msg, cursor, t) == IF t.type = "CRLF" THEN WithNext(msg, cursor, t) ELSE t

skip_lws(msg, cursor) ==
    LET skip[c \in cursor .. Len(msg)] ==
            LET Over(t) == IF t.status = "OK" /\ t.type = "WHITESPACE" THEN skip[c + t.length]
                           ELSE Match(t.status, c, <<>>)
            IN  Over(LinearWhitespace(msg, c, scanner_get_token(msg, c)))
    IN  skip[cursor]

-----------------------------------------------------------------------------
(* Matching of formats *)

\* A match of what stands between cursor and end, if it is of the right kind.
MatchUpTo(msg, cursor, end, right) ==
    Match(IF end.status = "OK" /\ ~right THEN "NO_MATCH" ELSE end.status,
          end.cursor, <<SubSeq(msg, cursor + 1, end.cursor)>>)

MatchToken(msg, cursor, type, t) ==
    MatchUpTo(msg, cursor, Match(t.status, cursor + t.length, <<>>), t.type = type)
match_token(msg, cursor, type) ==
    MatchToken(msg, cursor, type, scanner_get_token(msg, cursor))

MatchText(msg, cursor, end) == MatchUpTo(msg, cursor, end, end.cursor > cursor)
match_non_ws_string(msg, cursor) ==
    MatchText(msg, cursor,
              SkipTokens(msg, cursor, {"IDENTIFIER", "QUOTEDSTRING", "SEPARATOR", "CTRL"}))

read_until_crlf(msg, cursor) ==
    MatchUpTo(msg, cursor,
              SkipTokens(msg, cursor, {"IDENTIFIER", "QUOTEDSTRING", "SEPARATOR", "CTRL",
                                       "WHITESPACE"}), TRUE)

\* Blanks at the end of a value are dropped.
RawValue(msg, cursor, end) ==
    LET kept == {i \in cursor + 1 .. end.cursor : msg[i] \notin {"WS", "CR", "LF"}}
    IN  Match(end.status, end.cursor,
              <<SubSeq(msg, cursor + 1, IF kept = {} THEN cursor ELSE Max(kept))>>)

\* The token after the line end that follows line, with the length of both.
NextLine(msg, line) ==
    IF line.status # "OK" THEN NoToken(line.status)
    ELSE WithNext(msg, line.cursor, scanner_get_token(msg, line.cursor))

\* The value of a header ends at a line end that no white space follows.
match_raw_value(msg, cursor) ==
    LET value[c \in cursor .. Len(msg)] ==
            LET Over(line, next) ==
                    CASE next.status # "OK" -> Match(next.status, c, <<>>)
                      [] next.status = "OK" /\ next.type = "WHITESPACE" ->
                            value[line.cursor + next.length]
                      [] OTHER -> Match("OK", line.cursor, <<>>)
                Line(line) == Over(line, NextLine(msg, line))
            IN  Line(read_until_crlf(msg, c))
    IN  RawValue(msg, cursor, value[cursor])

\* strtol() of a token that consists of digits, as an int.
IsNumber(s) == s # <<>> /\ \A i \in DOMAIN s : s[i] \in DOMAIN Digit
NumberOf(s, base) == FoldLeft(LAMBDA n, d : n * base + Digit[d], 0, s) % IntModulus

MatchInt(m, base) ==
    IF m.status # "OK" THEN m
    ELSE IF IsNumber(m.args[1]) THEN [m EXCEPT !.args = <<NumberOf(@[1], base)>>]
    ELSE [m EXCEPT !.status = "NO_MATCH"]
match_int(msg, cursor, base) == MatchInt(match_token(msg, cursor, "IDENTIFIER"), base)

match_char(msg, cursor, c) ==
    IF cursor = Len(msg) THEN Match("INCOMPLETE", cursor, <<>>)
    ELSE Match(IF msg[cursor + 1] = c THEN "OK" ELSE "NO_MATCH", cursor + 1, <<>>)

\* White space, if there is any.
MatchBlanks(cursor, t) ==
    Match(t.status, cursor + (IF t.type = "WHITESPACE" THEN t.length ELSE 0), <<>>)

\* One directive of a format.
match_directive(msg, cursor, d) ==
    CASE d = "%s" -> match_token(msg, cursor, "IDENTIFIER")
      [] d = "%c" -> [match_token(msg, cursor, "CRLF") EXCEPT !.args = <<>>]
      [] d = "TAB" -> [match_token(msg, cursor, "WHITESPACE") EXCEPT !.args = <<>>]
      [] d = "%w" -> MatchBlanks(cursor, scanner_get_token(msg, cursor))
      [] d = "BLANK" -> skip_lws(msg, cursor)
      [] d = "%S" -> match_non_ws_string(msg, cursor)
      [] d = "%L" -> read_until_crlf(msg, cursor)
      [] d = "%R" -> match_raw_value(msg, cursor)
      [] d = "%x" -> match_int(msg, cursor, 16)
      [] OTHER -> match_char(msg, cursor, d)

\* All directives of a format, up to the first that is not met.
AllOrNothing(m, cursor) == IF m.status = "OK" THEN m ELSE [m EXCEPT !.cursor = cursor]
vfmatch(msg, cursor, fmt) ==
    LET Then(m, d) ==
            IF m.status # "OK" THEN m
            ELSE [match_directive(msg, m.cursor, d) EXCEPT !.args = m.args \o @]
    IN  AllOrNothing(FoldLeft(Then, Match("OK", cursor, <<>>), fmt), cursor)

-----------------------------------------------------------------------------
(* The parser *)

\* membuffer_delete(): num symbols after the first index ones.
membuffer_delete(msg, index, num) ==
    SubSeq(msg, 1, index) \o SubSeq(msg, index + num + 1, Len(msg))

Result(status, p) == [status |-> status, parser |-> p]

parser_init ==
    [msg |-> <<>>, cursor |-> 0, position |-> "REQUEST_LINE",
     ent_position |-> "DETERMINE_READ_METHOD", is_request |-> TRUE,
     method |-> "UNKNOWN", request_method |-> "UNKNOWN", status_code |-> "NONE",
     headers |-> <<>>, entity_start |-> 0, entity_length |-> 0,
     amount_discarded |-> 0, content_length |-> 0, chunk_size |-> 0]

parser_request_init == parser_init
parser_response_init(request_method) ==
    [parser_init EXCEPT !.is_request = FALSE, !.request_method = request_method,
                        !.position = "RESPONSE_LINE"]

\* What becomes of a line that matches as m.  "GET url" alone is a complete request
\* of HTTP 0.9.
SimpleRequest(p, m) ==
    IF m.args[1] = <<"GET">>
    THEN Result("SUCCESS", [p EXCEPT !.cursor = m.cursor, !.method = "SIMPLEGET",
                                     !.position = "COMPLETE"])
    ELSE Result("FAILURE", [p EXCEPT !.cursor = m.cursor])

FullRequest(p, m) ==
    LET method == m.args[1]
        version == m.args[3]
    IN  CASE m.status # "OK" -> Result(m.status, p)
          [] /\ m.status = "OK" /\ Len(method) = 1 /\ method[1] \in Method
             /\ version # <<>> /\ version[1] \in Version
             /\ method[1] = "M-SEARCH" => version[1] # "1.0" ->
                Result("OK", [p EXCEPT !.cursor = m.cursor, !.method = method[1],
                                       !.position = "HEADERS"])
          [] OTHER -> Result("FAILURE", [p EXCEPT !.cursor = m.cursor])

RequestLine(p, simple) ==
    IF simple.status = "OK" THEN SimpleRequest(p, simple)
    ELSE FullRequest(p, vfmatch(p.msg, p.cursor, <<"%s", "TAB", "%S", "TAB", "HTTP", "%w", "/",
                                                   "%w", "%L", "%c">>))

parser_parse_requestline(p) ==
    LET After(blank, q) ==
            IF blank.status # "OK" THEN Result(blank.status, q)
            ELSE RequestLine(q, vfmatch(q.msg, q.cursor, <<"%s", "TAB", "%S", "%w", "%c">>))
        AfterBlank(blank) == After(blank, [p EXCEPT !.cursor = blank.cursor])
    IN  AfterBlank(skip_blank_lines(p.msg, p.cursor))

ResponseLine(p, m) ==
    LET line == m.args[1]
    IN  CASE m.status # "OK" -> Result(m.status, p)
          [] /\ m.status = "OK" /\ Len(line) >= 4
             /\ line[1] \in Version /\ line[2] = "WS" /\ line[3] \in StatusCode
             /\ line[4] = "WS" ->
                Result("OK", [p EXCEPT !.cursor = m.cursor, !.status_code = line[3],
                                       !.position = "HEADERS"])
          [] OTHER -> Result("FAILURE", [p EXCEPT !.cursor = m.cursor])

parser_parse_responseline(p) ==
    LET After(blank, q) ==
            IF blank.status # "OK" THEN Result(blank.status, q)
            ELSE ResponseLine(q, vfmatch(q.msg, q.cursor,
                                         <<"HTTP", "%w", "/", "%w", "%L", "%c">>))
        AfterBlank(blank) == After(blank, [p EXCEPT !.cursor = blank.cursor])
    IN  AfterBlank(skip_blank_lines(p.msg, p.cursor))

\* The index of the header with this name, or 0.
httpmsg_find_hdr(headers, name) == SelectInSeq(headers, LAMBDA h : h.name = name)

\* Values of headers with the same name become one; the first has a NUL for nothing.
AddHeader(headers, name, value) ==
    LET i == httpmsg_find_hdr(headers, name)
    IN  CASE i = 0 -> Append(headers, [name |-> name,
                                       value |-> IF value = <<>> THEN <<NUL>> ELSE value])
          [] i # 0 /\ value = <<>> -> headers
          [] OTHER -> [headers EXCEPT ![i].value = @ \o <<",", "WS">> \o value]

\* One header, of which name stands before the match m.
OneHeader(p, name, m) ==
    [p EXCEPT !.cursor = m.cursor,
              !.headers = AddHeader(@, name, m.args[1]),
              !.method = IF name = <<"SOAPACTION">> THEN "SOAP_POST" ELSE @]

\* One header after the other.  The entity of a POST is read by its handler.
RECURSIVE parser_parse_headers(_), Header(_, _), HeaderValue(_, _, _)
HeaderValue(p, name, m) ==
    IF m.status # "OK" THEN Result(m.status, p)
    ELSE parser_parse_headers(OneHeader(p, name, m))
Header(p, t) ==
    LET after == [p EXCEPT !.cursor = @ + t.length]
    IN  CASE t.status # "OK" -> Result(t.status, p)
          [] t.type = "CRLF" ->
                IF p.is_request /\ p.method = "POST"
                THEN Result("SUCCESS", [after EXCEPT !.position = "COMPLETE"])
                ELSE Result("OK", [after EXCEPT !.position = "ENTITY"])
          [] t.type = "IDENTIFIER" ->
                HeaderValue(p, SubSeq(p.msg, p.cursor + 1, after.cursor),
                            vfmatch(p.msg, after.cursor, <<"BLANK", ":", "BLANK", "%R", "%c">>))
          [] OTHER -> Result("FAILURE", after)
parser_parse_headers(p) == Header(p, scanner_get_token(p.msg, p.cursor))

-----------------------------------------------------------------------------
(* The entity *)

raw_to_int(value) == IF IsNumber(value) THEN NumberOf(value, 10) ELSE IntModulus - 1

NoEntity(p) ==
    IF p.is_request
    THEN p.method \in {"HEAD", "GET", "SUBSCRIBE", "UNSUBSCRIBE", "M-SEARCH"}
    ELSE \/ p.status_code = "204"
         \/ p.request_method \in {"HEAD", "M-SEARCH", "SUBSCRIBE", "UNSUBSCRIBE", "NOTIFY"}

parser_get_entity_read_method(p) ==
    LET q == [p EXCEPT !.entity_start = p.cursor, !.entity_length = 0]
        encoding == httpmsg_find_hdr(p.headers, <<"Transfer-Encoding">>)
        length == httpmsg_find_hdr(p.headers, <<"Content-Length">>)
        By(method) == Result("CONTINUE_1", [q EXCEPT !.ent_position = method])
    IN  CASE NoEntity(p) -> Result("SUCCESS", [q EXCEPT !.position = "COMPLETE"])
          [] ~NoEntity(p) /\ encoding # 0 /\ Contains(p.headers[encoding].value, "chunked") ->
                By("USING_CHUNKED")
          [] OTHER ->
                CASE length # 0 ->
                        Result("CONTINUE_1",
                               [q EXCEPT !.ent_position = "USING_CLEN",
                                         !.content_length = raw_to_int(p.headers[length].value)])
                  [] length = 0 /\ p.is_request -> Result("FAILURE", q)
                  [] OTHER -> By("UNTIL_CLOSE")

\* What the message holds of the entity, with what the application has taken.
ArrivedLength(p) == Len(p.msg) - p.entity_start + p.amount_discarded

\* A character after the end is overwritten by the terminator of the entity.
parser_parse_entity_using_clen(p) ==
    LET end == p.entity_start + p.content_length - p.amount_discarded + 1
    IN  IF ArrivedLength(p) < p.content_length
        THEN Result("INCOMPLETE", [p EXCEPT !.entity_length = ArrivedLength(p)])
        ELSE Result("SUCCESS",
                    [p EXCEPT !.entity_length = p.content_length, !.position = "COMPLETE",
                              !.msg = IF ArrivedLength(p) > p.content_length
                                      THEN [@ EXCEPT ![end] = NUL] ELSE @])

\* The line with the size of a chunk is taken out of the message.
ChunkSize(p, m) ==
    LET q == [p EXCEPT !.msg = membuffer_delete(p.msg, p.cursor, m.cursor - p.cursor),
                       !.chunk_size = m.args[1]]
    IN  CASE m.status # "OK" -> Result(m.status, p)
          [] m.status = "OK" /\ q.chunk_size = 0 ->
                Result("CONTINUE_1",
                       [q EXCEPT !.ent_position = "CHUNKY_HEADERS",
                                 !.entity_length = p.cursor - p.entity_start
                                                        + p.amount_discarded])
          [] OTHER -> Result("CONTINUE_1", [q EXCEPT !.ent_position = "CHUNKY_BODY"])
parser_parse_chunky_entity(p) == ChunkSize(p, vfmatch(p.msg, p.cursor, <<"%x", "%L", "%c">>))

\* The line end after the data of a chunk, too.
ChunkEnd(p, end, m) ==
    IF m.status # "OK" THEN Result(m.status, p)
    ELSE Result("CONTINUE_1",
                [p EXCEPT !.msg = membuffer_delete(p.msg, end, m.cursor - end),
                          !.cursor = end, !.ent_position = "USING_CHUNKED",
                          !.entity_length = @ + p.chunk_size])
parser_parse_chunky_body(p) ==
    IF Len(p.msg) - p.cursor < p.chunk_size THEN Result("INCOMPLETE", p)
    ELSE ChunkEnd(p, p.cursor + p.chunk_size,
                  vfmatch(p.msg, p.cursor + p.chunk_size, <<"%c">>))

\* The headers after the last chunk, those of this call are taken out.
Trailers(p, r) ==
    IF r.status # "OK" THEN r
    ELSE Result("SUCCESS",
                [r.parser EXCEPT !.position = "COMPLETE", !.cursor = p.cursor,
                                 !.msg = membuffer_delete(@, p.cursor,
                                                          r.parser.cursor - p.cursor)])
parser_parse_chunky_headers(p) == Trailers(p, parser_parse_headers(p))

parser_parse_entity_until_close(p) ==
    Result("INCOMPLETE_ENTITY",
           [p EXCEPT !.entity_length = ArrivedLength(p), !.cursor = Len(p.msg)])

RECURSIVE parser_parse_entity(_)
parser_parse_entity(p) ==
    LET Further(r) == IF r.status = "CONTINUE_1" THEN parser_parse_entity(r.parser) ELSE r
    IN  Further(CASE p.ent_position = "USING_CLEN" -> parser_parse_entity_using_clen(p)
                  [] p.ent_position = "USING_CHUNKED" -> parser_parse_chunky_entity(p)
                  [] p.ent_position = "CHUNKY_BODY" -> parser_parse_chunky_body(p)
                  [] p.ent_position = "CHUNKY_HEADERS" -> parser_parse_chunky_headers(p)
                  [] p.ent_position = "UNTIL_CLOSE" -> parser_parse_entity_until_close(p)
                  [] p.ent_position = "DETERMINE_READ_METHOD" ->
                        parser_get_entity_read_method(p))

RECURSIVE parser_parse(_)
parser_parse(p) ==
    LET Further(r) == IF r.status = "OK" THEN parser_parse(r.parser) ELSE r
    IN  Further(CASE p.position = "ENTITY" -> parser_parse_entity(p)
                  [] p.position = "HEADERS" -> parser_parse_headers(p)
                  [] p.position = "REQUEST_LINE" -> parser_parse_requestline(p)
                  [] p.position = "RESPONSE_LINE" -> parser_parse_responseline(p)
                  [] OTHER -> Result("FAILURE", p))

\* membuffer_append() and parser_parse().
Arrived(p, data) == [p EXCEPT !.msg = @ \o data]
parser_append(p, data) == parser_parse(Arrived(p, data))

\* What entity.buf and entity.length stand for.
Entity(p) ==
    SubSeq(p.msg, p.entity_start + 1,
           p.entity_start + p.entity_length - p.amount_discarded)
=============================================================================
