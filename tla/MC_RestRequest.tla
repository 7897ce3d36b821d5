---- MODULE MC_RestRequest ----
\* Both transports, and the three kinds of response body.
EXTENDS RestRequest

MC_BodyKinds == {"json", "empty", "other"}
MC_TlsModes == {TRUE, FALSE}
====
