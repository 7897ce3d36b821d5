---- MODULE RestRequest ----
\* The HTTP transport: common::request (requests/base.cpp) and the
\* RestClient::Get / Post wrappers that parse its result.
\*
\* request() runs synchronously on the caller's thread: it resolves the host,
\* sets SNI (TLS only), connects, makes the TLS handshake (TLS only), writes
\* the request, reads the response, shuts the stream down and returns the
\* body. Every step but the shutdown throws on error; the shutdown's error is
\* tolerated or thrown depending on its kind. No step has a deadline.
\*
\* The server and the network act between the client's steps: the server
\* processes a request it has received and sends a response, and the
\* connection may be reset at any time, losing what is in flight. Bodies are
\* abstracted to their kind, as in RestCall.
EXTENDS Naturals

CONSTANTS
    BodyKinds,   \* "json", "empty", "other"
    TlsModes     \* the RestConfig::use_tls values callers configure

VARIABLES
    pc,            \* the client's position in request(), or "idle" / "done"
    tls,           \* config.use_tls of the call
    link,          \* "none" before connect, then "up", "closed" (the
                   \* server closed its side) or "down" (reset)
    reqInTransit,  \* the written request is on its way to the server
    reached,       \* the server has processed the request
    body,          \* the response body the server sent, "none" before
    respInTransit, \* the response is on its way to the client
    res,           \* res.body() as http::read filled it, "none" before
    outcome        \* "idle", "pending", "answered", "null" or "threw"

vars == <<pc, tls, link, reqInTransit, reached, body, respInTransit, res, outcome>>

\* The error codes stream.shutdown can report on a TLS stream: the peer's
\* close_notify, or, once the server closed its side, a TCP close (eof) or
\* a close without close_notify (stream_truncated); after a reset, the
\* failed write of our close_notify.
TlsShutdownErrors(l) ==
    CASE l = "up"     -> {"ok", "eof", "stream_truncated"}
      [] l = "closed" -> {"eof", "stream_truncated"}
      [] l = "down"   -> {"connection_reset"}

\* socket().shutdown on a plain socket: ENOTCONN once the peer reset it.
PlainShutdownErrors(l) ==
    IF l = "down" THEN {"not_connected"} ELSE {"ok"}

\* The shutdown errors request() clears instead of throwing.
Tolerated(t, ec) ==
    IF t THEN ec \in {"ok", "eof", "stream_truncated"}
    ELSE ec \in {"ok", "not_connected"}

\* RestClient::Get and Post: an empty body is null, anything else goes
\* through nlohmann::json::parse, which throws on what is not JSON.
ParseResult(b) ==
    CASE b = "empty" -> "null"
      [] b = "json"  -> "answered"
      [] b = "other" -> "threw"

\* A step throws: the exception unwinds out of request() and Get/Post.
Throw ==
    /\ pc' = "done"
    /\ outcome' = "threw"

Init ==
    /\ pc = "idle"
    /\ tls \in TlsModes
    /\ link = "none"
    /\ reqInTransit = FALSE
    /\ reached = FALSE
    /\ body = "none"
    /\ respInTransit = FALSE
    /\ res = "none"
    /\ outcome = "idle"

\* RestClient::Get or Post calls request(); it builds the request message.
Call ==
    /\ pc = "idle"
    /\ pc' = "resolve"
    /\ tls' \in TlsModes
    /\ outcome' = "pending"
    /\ UNCHANGED <<link, reqInTransit, reached, body, respInTransit, res>>

\* resolver.resolve: returns the endpoints or throws.
Resolve ==
    /\ pc = "resolve"
    /\ \/ /\ pc' = IF tls THEN "sni" ELSE "connect"
          /\ UNCHANGED outcome
       \/ Throw
    /\ UNCHANGED <<tls, link, reqInTransit, reached, body, respInTransit, res>>

\* SSL_set_tlsext_host_name: on failure request() throws.
Sni ==
    /\ pc = "sni"
    /\ \/ /\ pc' = "connect"
          /\ UNCHANGED outcome
       \/ Throw
    /\ UNCHANGED <<tls, link, reqInTransit, reached, body, respInTransit, res>>

\* connect(results): connects to one of the endpoints or throws.
Connect ==
    /\ pc = "connect"
    /\ \/ /\ link' = "up"
          /\ pc' = IF tls THEN "handshake" ELSE "write"
          /\ UNCHANGED outcome
       \/ /\ Throw
          /\ UNCHANGED link
    /\ UNCHANGED <<tls, reqInTransit, reached, body, respInTransit, res>>

\* stream.handshake: fails on a reset connection, and may fail on a live one.
Handshake ==
    /\ pc = "handshake"
    /\ \/ /\ link = "up"
          /\ pc' = "write"
          /\ UNCHANGED outcome
       \/ Throw
    /\ UNCHANGED <<tls, link, reqInTransit, reached, body, respInTransit, res>>

\* http::write: on a live connection the request is sent. On a closed or
\* reset one it throws, or the bytes are accepted by the socket and lost.
Write ==
    /\ pc = "write"
    /\ \/ /\ link = "up"
          /\ reqInTransit' = TRUE
          /\ pc' = "read"
          /\ UNCHANGED outcome
       \/ /\ link \in {"closed", "down"}
          /\ pc' = "read"
          /\ UNCHANGED <<reqInTransit, outcome>>
       \/ /\ link \in {"closed", "down"}
          /\ Throw
          /\ UNCHANGED reqInTransit
    /\ UNCHANGED <<tls, link, reached, body, respInTransit, res>>

\* A mutant: the read's error ignored, so a reset leaves res.body() empty.
ReadIgnoringError ==
    /\ pc = "read"
    /\ \/ /\ respInTransit
          /\ res' = body
          /\ respInTransit' = FALSE
       \/ /\ link # "up" /\ ~respInTransit
          /\ res' = "empty"
          /\ UNCHANGED respInTransit
    /\ pc' = "shutdown"
    /\ UNCHANGED <<tls, link, reqInTransit, reached, body, outcome>>

\* http::read: blocks until the whole response has arrived, or throws when
\* the connection is closed or reset with no response left to read.
Read ==
    /\ pc = "read"
    /\ \/ /\ respInTransit
          /\ res' = body
          /\ respInTransit' = FALSE
          /\ pc' = "shutdown"
          /\ UNCHANGED outcome
       \/ /\ link # "up" /\ ~respInTransit
          /\ Throw
          /\ UNCHANGED <<res, respInTransit>>
    /\ UNCHANGED <<tls, link, reqInTransit, reached, body>>

\* stream.shutdown (TLS) or socket().shutdown (plain): the tolerated errors
\* are cleared and request() returns res.body(); any other is thrown.
Shutdown ==
    /\ pc = "shutdown"
    /\ \E ec \in IF tls THEN TlsShutdownErrors(link) ELSE PlainShutdownErrors(link) :
         IF Tolerated(tls, ec)
         THEN /\ pc' = "parse"
              /\ UNCHANGED outcome
         ELSE Throw
    /\ UNCHANGED <<tls, link, reqInTransit, reached, body, respInTransit, res>>

\* Get / Post turn the returned body into their result.
Parse ==
    /\ pc = "parse"
    /\ pc' = "done"
    /\ outcome' = ParseResult(res)
    /\ UNCHANGED <<tls, link, reqInTransit, reached, body, respInTransit, res>>

\* The caller takes the result; the stream and the io_context are destroyed
\* with request()'s frame, and the next call starts afresh.
Return ==
    /\ pc = "done"
    /\ pc' = "idle"
    /\ link' = "none"
    /\ reqInTransit' = FALSE
    /\ reached' = FALSE
    /\ body' = "none"
    /\ respInTransit' = FALSE
    /\ res' = "none"
    /\ outcome' = "idle"
    /\ UNCHANGED tls

\* The server receives the whole request, processes it and sends a response
\* with some body. A server may also never answer.
ServerProcess ==
    /\ reqInTransit
    /\ link = "up"
    /\ reqInTransit' = FALSE
    /\ reached' = TRUE
    /\ body' \in BodyKinds
    /\ respInTransit' = TRUE
    /\ UNCHANGED <<pc, tls, link, res, outcome>>

\* The server closes its side, after its response or on an idle timeout: a
\* request it has not read is lost, a response it sent still arrives.
ServerCloses ==
    /\ link = "up"
    /\ link' = "closed"
    /\ reqInTransit' = FALSE
    /\ UNCHANGED <<pc, tls, reached, body, respInTransit, res, outcome>>

\* The connection is reset; what is in flight either way is lost.
LinkFails ==
    /\ link \in {"up", "closed"}
    /\ link' = "down"
    /\ reqInTransit' = FALSE
    /\ respInTransit' = FALSE
    /\ UNCHANGED <<pc, tls, reached, body, res, outcome>>

ClientStep == Call \/ Resolve \/ Sni \/ Connect \/ Handshake \/ Write
              \/ Read \/ Shutdown \/ Parse \/ Return

Next == ClientStep \/ ServerProcess \/ ServerCloses \/ LinkFails

\* request() runs on the caller's thread and each blocking call returns as
\* soon as the operating system completes it: a client step that stays
\* enabled is taken. Nothing obliges the server to answer or the network to
\* fail.
Fairness == WF_vars(ClientStep)

Spec == Init /\ [][Next]_vars /\ Fairness

\* Properties.

\* The refinement mapping: the client's view is RestCall's, with the server's
\* processing as RestCall's Process step.
Abstract == INSTANCE RestCall

\* request() and Get/Post implement RestCall: a call returns a value only
\* after the server processed the request, and the value is what the server
\* sent; every other end of the call is an exception.
ImplementsRestCall == Abstract!Spec

\* Every call of Get or Post returns or throws: the block-height lookup of
\* CompositeClient::GetGoodTillBlock, like every query, surfaces a failure of
\* the node to its caller.
RequestReturns ==
    outcome = "pending" ~> outcome \in {"answered", "null", "threw"}
====
