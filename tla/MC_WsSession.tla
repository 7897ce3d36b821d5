---- MODULE MC_WsSession ----
\* Four server messages: the greeting and three more, enough for a PING whose
\* PONG is still queued when the link fails, for a second PING while the
\* first PONG is queued, and for a PING after an update.
EXTENDS WsSession

MC_MaxServerMessages == 4

\* The example's callback subscribes to the order book; the other thread
\* subscribes to or unsubscribes from it or the markets channel, twice, so
\* its calls can land before the handshake, between the callback's subscribe
\* and a PONG, and after a failure.
MC_Channels == {"v4_orderbook", "v4_markets"}
MC_CallbackChannel == "v4_orderbook"
MC_MaxCalls == 2
====
