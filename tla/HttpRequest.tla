----------------------------- MODULE HttpRequest ------------------------------
(***************************************************************************)
(* How an application sends a request (httpreadwrite.cpp): it opens a      *)
(* connection, makes a request with the length of the body or              *)
(* UPNP_USING_CHUNKED, writes the parts of the body and ends the request.  *)
(* The operators have the names of the functions and return the handle as  *)
(* it is afterwards; wire is what has been written to the socket.          *)
(***************************************************************************)
EXTENDS HttpParser

\* UPNP_USING_CHUNKED and UPNP_UNTIL_CLOSE, instead of a length.
Chunked == -3
UntilClose == -4

CRLF == <<"CR", "LF">>
\* A number of one digit, decimal or hexadecimal.
Numeral(n) == CHOOSE d \in DOMAIN Digit : Digit[d] = n

\* The handle is allocated and not cleared, and no function assigns its
\* contentLength: it is what the memory held.
http_OpenHttpConnection(memory) ==
    [contentLength |-> memory, requestStarted |-> FALSE, wire |-> <<>>]

\* MakeGenericMessage() of a POST, with the header for the length.
http_MakeHttpRequest(handle, length) ==
    LET header == CASE length = Chunked ->
                            <<"Transfer-Encoding", ":", "WS", "chunked">> \o CRLF
                    [] length = UntilClose -> <<>>
                    [] OTHER -> <<"Content-Length", ":", "WS", Numeral(length)>> \o CRLF
    IN  [handle EXCEPT !.requestStarted = TRUE,
                       !.wire = @ \o <<"POST", "WS", "/", "x", "WS", "HTTP", "/", "1.1">>
                                  \o CRLF \o header \o CRLF]

\* The bytes of one call, as a chunk or as they are.
Framed(handle, part) ==
    CASE handle.contentLength # Chunked -> part
      [] handle.contentLength = Chunked /\ part = <<>> -> <<>>
      [] OTHER -> <<Numeral(Len(part))>> \o CRLF \o part \o CRLF

http_WriteHttpRequest(handle, part) == [handle EXCEPT !.wire = @ \o Framed(handle, part)]

\* The last chunk, once.
http_EndHttpRequest(handle) ==
    IF ~handle.requestStarted THEN handle
    ELSE [handle EXCEPT !.requestStarted = FALSE,
                        !.wire = IF handle.contentLength = Chunked
                                 THEN @ \o <<"0">> \o CRLF \o CRLF ELSE @]
=============================================================================
