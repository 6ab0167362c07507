--------------------------- MODULE MCRoundTripper ---------------------------
(* RoundTripper on two hosts and two requests.                             *)
EXTENDS RoundTripper

CONSTANTS a1, a2

TwoAddrs == {a1, a2}
Https(a) == [addr |-> a, scheme |-> "https"]
Http(a) == [addr |-> a, scheme |-> "http"]

TwoReqs == {1, 2}

\* One request is redirected to the host of the other one.
CrossHttps == [r \in TwoReqs |-> IF r = 1 THEN <<Https(a1), Https(a2)>> ELSE <<Https(a2)>>]
\* One request goes over http to the other one's host, and on to a second host.
Mixed == [r \in TwoReqs |-> IF r = 1 THEN <<Https(a1), Https(a1)>> ELSE <<Http(a1), Https(a2)>>]
=============================================================================
