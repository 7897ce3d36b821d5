---- MODULE MC_OrderMessage ----
\* Two known symbols on different clob pairs and one unknown symbol, two
\* client ids, one explicit and one default good-till of each kind. Two
\* messages are enough for every placement/cancel pair.
EXTENDS OrderMessage

MC_ClobPairIdOf == [s \in {"BTC-USD", "ETH-USD"} |-> IF s = "BTC-USD" THEN 0 ELSE 1]
MC_Symbols == {"BTC-USD", "ETH-USD", "DOGE-USD"}
MC_Cids == {1, 2}
MC_GoodTillBlocks == {120}
MC_GoodTillTimes == {90000}
MC_LatestHeights == {100}
MC_Now == 1000
\* an explicit client_metadata that differs from both defaults
MC_ClientMetadatas == {7}

MC_MaxMessages == 2

\* The signer, its own subaccount and another account's as recipients, the
\* quote asset and one other, one amount; a debug build.
MC_Me == [owner |-> "dydx1me", number |-> 0]
MC_Recipients == {[owner |-> "dydx1me", number |-> 1], [owner |-> "dydx1other", number |-> 0]}
MC_AssetIds == {0, 1}
MC_Amounts == {5}
MC_NDEBUG == FALSE
====
