---- MODULE RestCall ----
\* What a call of RestClient::Get or Post promises its caller, whatever the
\* transport does: the call ends with a JSON value, with null, or with an
\* exception; it ends with a value only after the server has processed the
\* request, and the value is the server's response; it may end with an
\* exception at any point, before or after the server processed the request.
\*
\* A response body is "json" (any JSON document, whatever the HTTP status),
\* "empty", or "other" (a body that is not JSON, such as a proxy's error page).
CONSTANTS
    BodyKinds

VARIABLES
    reached,    \* the server has processed the request
    body,       \* the server's response body, "none" before it processed
    outcome     \* "idle", "pending", "answered", "null" or "threw"

vars == <<reached, body, outcome>>

\* How RestClient::Get and Post turn a response body into their result.
ResultOf(b) ==
    CASE b = "empty" -> "null"
      [] b = "json"  -> "answered"
      [] b = "other" -> "threw"

Init ==
    /\ reached = FALSE
    /\ body = "none"
    /\ outcome = "idle"

Call ==
    /\ outcome = "idle"
    /\ outcome' = "pending"
    /\ UNCHANGED <<reached, body>>

Process ==
    /\ outcome = "pending"
    /\ ~reached
    /\ reached' = TRUE
    /\ body' \in BodyKinds
    /\ UNCHANGED outcome

Answer ==
    /\ outcome = "pending"
    /\ reached
    /\ outcome' = ResultOf(body)
    /\ UNCHANGED <<reached, body>>

Fail ==
    /\ outcome = "pending"
    /\ outcome' = "threw"
    /\ UNCHANGED <<reached, body>>

Return ==
    /\ outcome \in {"answered", "null", "threw"}
    /\ reached' = FALSE
    /\ body' = "none"
    /\ outcome' = "idle"

Next == Call \/ Process \/ Answer \/ Fail \/ Return

Spec == Init /\ [][Next]_vars
====
