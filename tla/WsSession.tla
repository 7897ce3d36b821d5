---- MODULE WsSession ----
\* The WebSocket client: common::WsClient (streams/base.cpp, base.h) with the
\* IndexerWsClient callback (dydx_v4_futures/streams/indexer.h) and a user
\* callback that subscribes on "connected", as the indexer_ws_client example
\* does.
\*
\* WsClient::Run spawns the RunSession coroutine on a single-threaded
\* io_context and runs it. The coroutine resolves, connects, makes the TLS
\* and WebSocket handshakes, then reads in a loop and hands each read buffer
\* to the callback. SendMessage dispatches a synchronous write through a
\* strand. Dispatch from the io_context's thread runs the write at once when
\* the strand is idle, and queues it otherwise; the model always queues and
\* lets StrandWrite run the oldest write at any later step. This adds
\* behaviours (other steps between the dispatch and the write) and removes
\* none, since a write run at once is StrandWrite taken as the next step.
\* Writes run one at a time in FIFO order. An exception in the coroutine is
\* rethrown by spawn's completion handler, and one in a strand handler
\* escapes io_context::run; both make Run throw.
\*
\* Server messages are strings by kind: "connected", "PING" and "update", and
\* "" for an empty buffer. Client messages are records of a type ("PONG",
\* "subscribe" or "unsubscribe") and a channel; the JSON text Subscribe and
\* Unsubscribe format is abstracted to those two fields.
\*
\* Besides the callback, another thread of the program may call Subscribe or
\* Unsubscribe while Run is in progress (a call made before Run is queued in
\* the same way and behaves as one made during resolve).
EXTENDS Naturals, Sequences
LOCAL INSTANCE SequencesExt

CONSTANTS
    MaxServerMessages,  \* bound on the messages the server sends
    LinkMayFail,        \* whether the connection may drop or be reset
    Channels,           \* channels the program subscribes to
    CallbackChannel,    \* the channel the user's callback subscribes to
    CallerThread,       \* whether another thread calls (Un)Subscribe
    MaxCalls            \* bound on that thread's calls

VARIABLES
    phase,       \* RunSession's position: a handshake step, "open" or "ended"
    link,        \* "up" or "down": the TCP connection as the peer sees it
    toClient,    \* messages the server sent that the client has not read
    sentLog,     \* every message the server sent, in order
    strand,      \* writes dispatched to the strand and not yet run
    received,    \* what the server received from the client, in order
    readLog,     \* the buffers the read loop handed to the callback
    userSeen,    \* what reached the user's callback
    run,         \* WsClient::Run: "running", "returned" or "threw"
    requested,   \* every (Un)Subscribe call of the program, in call order
    calls        \* how many calls the other thread has made

vars == <<phase, link, toClient, sentLog, strand, received, readLog, userSeen, run,
          requested, calls>>

\* RunSession's handshake steps, in order (base.cpp lines 78-123).
Steps == <<"resolve", "connect", "ssl_handshake", "handshake">>

ServerKinds == {"PING", "update"}

\* A client message: SendMessage's argument.
Msg(type, channel) == [type |-> type, channel |-> channel]

Pong == Msg("PONG", "none")

\* The messages Subscribe and Unsubscribe send (streams/indexer.h 44-59).
Requests == {Msg(t, c) : t \in {"subscribe", "unsubscribe"}, c \in Channels}

Init ==
    /\ phase = Steps[1]
    /\ link = "up"
    /\ toClient = <<>>
    /\ sentLog = <<>>
    /\ strand = <<>>
    /\ received = <<>>
    /\ readLog = <<>>
    /\ userSeen = <<>>
    /\ run = "running"
    /\ requested = <<>>
    /\ calls = 0

\* A handshake step completes and the coroutine moves to the next one, or its
\* error code is set and RunSession returns through fail(). The indexer
\* greets a new WebSocket session with "connected".
Establish(i) ==
    /\ run = "running"
    /\ phase = Steps[i]
    /\ \/ /\ link = "up"
          /\ IF i < Len(Steps)
             THEN /\ phase' = Steps[i + 1]
                  /\ UNCHANGED <<toClient, sentLog>>
             ELSE /\ phase' = "open"
                  /\ toClient' = <<"connected">>
                  /\ sentLog' = <<"connected">>
       \/ /\ phase' = "ended"
          /\ UNCHANGED <<toClient, sentLog>>
    /\ UNCHANGED <<link, strand, received, readLog, userSeen, run, requested, calls>>

\* The server sends a PING or an update on the open connection.
ServerSend ==
    /\ phase = "open"
    /\ link = "up"
    /\ Len(sentLog) < MaxServerMessages
    /\ \E m \in ServerKinds :
         /\ toClient' = Append(toClient, m)
         /\ sentLog' = Append(sentLog, m)
    /\ UNCHANGED <<phase, link, strand, received, readLog, userSeen, run, requested, calls>>

\* The connection drops or is reset; what was in flight is lost.
LinkFails ==
    /\ LinkMayFail
    /\ link = "up"
    /\ link' = "down"
    /\ toClient' = <<>>
    /\ UNCHANGED <<phase, sentLog, strand, received, readLog, userSeen, run, requested, calls>>

\* The example's user callback: it records the message and, on
\* "connected", subscribes through SendMessage, which dispatches to the
\* strand.
UserCallback(msg) ==
    LET sub == Msg("subscribe", CallbackChannel)
    IN  /\ userSeen' = Append(userSeen, msg)
        /\ IF msg = "connected"
           THEN /\ strand' = Append(strand, sub)
                /\ requested' = Append(requested, sub)
           ELSE UNCHANGED <<strand, requested>>

\* A mutant: the PING branch dropped, so a PING reaches the user's callback.
LibraryCallbackNoPong(msg) == UserCallback(msg)

\* IndexerWsClient's callback: a PING is answered with a PONG through
\* SendMessage; anything else goes to the user's callback.
LibraryCallback(msg) ==
    IF msg = "PING"
    THEN /\ strand' = Append(strand, Pong)
         /\ UNCHANGED <<userSeen, requested>>
    ELSE UserCallback(msg)

\* One iteration of the read loop (base.cpp lines 128-138). async_read
\* completes with a message, or with an error once the link is down; the
\* callback runs on the buffer first, which is empty after a failed read,
\* and only then is the error code checked.
ReadLoop ==
    /\ run = "running"
    /\ phase = "open"
    /\ \/ /\ toClient # <<>>
          /\ readLog' = Append(readLog, Head(toClient))
          /\ LibraryCallback(Head(toClient))
          /\ toClient' = Tail(toClient)
          /\ UNCHANGED phase
       \/ /\ link = "down"
          /\ readLog' = Append(readLog, "")
          /\ LibraryCallback("")
          /\ phase' = "ended"
          /\ UNCHANGED toClient
    /\ UNCHANGED <<link, sentLog, received, run, calls>>

\* A mutant: the write's exception caught and the message dropped, so Run
\* goes on after a failed write.
StrandWriteSwallowsError ==
    /\ run = "running"
    /\ strand # <<>>
    /\ strand' = Tail(strand)
    /\ IF link = "up" /\ phase = "open"
       THEN received' = Append(received, Head(strand))
       ELSE UNCHANGED received
    /\ UNCHANGED <<phase, link, toClient, sentLog, readLog, userSeen, run, requested, calls>>

\* The io_context runs the oldest strand handler: m_ws.write of the message.
\* The synchronous write throws on a connection that is down or a stream that
\* is no longer open, and the exception escapes io_context::run.
StrandWrite ==
    /\ run = "running"
    /\ strand # <<>>
    /\ strand' = Tail(strand)
    /\ IF link = "up" /\ phase = "open"
       THEN /\ received' = Append(received, Head(strand))
            /\ UNCHANGED run
       ELSE /\ run' = "threw"
            /\ UNCHANGED received
    /\ UNCHANGED <<phase, link, toClient, sentLog, readLog, userSeen, requested, calls>>

\* The coroutine has returned and no handler is left: io_context::run
\* returns and so does WsClient::Run.
RunReturns ==
    /\ run = "running"
    /\ phase = "ended"
    /\ strand = <<>>
    /\ run' = "returned"
    /\ UNCHANGED <<phase, link, toClient, sentLog, strand, received, readLog, userSeen,
                   requested, calls>>

\* Another thread calls Subscribe or Unsubscribe: SendMessage dispatches the
\* write to the strand, and since the thread is not in the strand the
\* handler is queued behind the writes already dispatched (base.cpp 147-151).
CallerSends(m) ==
    /\ CallerThread
    /\ run = "running"
    /\ calls < MaxCalls
    /\ calls' = calls + 1
    /\ strand' = Append(strand, m)
    /\ requested' = Append(requested, m)
    /\ UNCHANGED <<phase, link, toClient, sentLog, received, readLog, userSeen, run>>

Next ==
    \/ \E i \in 1..Len(Steps) : Establish(i)
    \/ ServerSend
    \/ LinkFails
    \/ ReadLoop
    \/ StrandWrite
    \/ RunReturns
    \/ \E m \in Requests : CallerSends(m)

\* io_context::run executes every ready handler while it has work, so a
\* dispatched write is eventually run. Nothing forces the server to send or the
\* link to fail.
Fairness == WF_vars(StrandWrite)

Spec == Init /\ [][Next]_vars /\ Fairness

\* Properties.

Count(s, m) == Len(SelectSeq(s, LAMBDA x : x = m))

\* Every PING the read loop hands to the IndexerWsClient callback is answered
\* by a PONG the server receives, unless the connection goes down first.
PingAnswered ==
    \A n \in 1..MaxServerMessages :
      (Count(readLog, "PING") >= n) ~> (Count(received, Pong) >= n \/ link = "down")

\* The user's callback sees exactly the server's non-PING messages, in the
\* order the server sent them: what it has seen is a prefix of that stream.
UserSeesServerStream ==
    IsPrefix(userSeen, SelectSeq(sentLog, LAMBDA m : m # "PING"))

\* The Subscribe and Unsubscribe calls of the user's callback and of another
\* thread reach the server in the order they were made, none skipped: the
\* strand runs SendMessage's writes one at a time in FIFO order, and a write
\* that fails ends Run rather than letting a later one through.
ServerGetsCallsInOrder ==
    IsPrefix(SelectSeq(received, LAMBDA m : m # Pong), requested)

\* Run ends by returning, whatever the network or the program's calls do:
\* RunSession reports a failed step through fail(), and the comment at
\* base.cpp lines 54-57 says only critical errors such as running out of
\* memory reach spawn's completion handler and make Run throw.
RunNeverThrows ==
    run # "threw"
====
