---------------------------- MODULE MCLlmRouter ----------------------------
EXTENDS LlmRouter
CONSTANTS c1, c2, c3, cloud, local, k1, k2, big, small

\* A cloud provider with two keys, of which the second is a fallback, and a local one
\* that needs no key.
Owned == [p \in Providers |-> IF p = cloud THEN <<k1, k2>> ELSE <<>>]
One == [p \in Providers |-> IF p = cloud THEN <<k1>> ELSE <<>>]
Serves == [m \in Models |-> IF m = big THEN cloud ELSE local]
Chains == [m \in Models |-> IF m = big THEN <<small>> ELSE <<>>]
Order == <<cloud, local>>
\* One caller asks the cloud model; the other the local one, or streams from the cloud.
Requests == [c \in Calls |-> IF c = c1 THEN {<<"complete", big>>}
                             ELSE {<<"complete", small>>, <<"stream", big>>}]
\* One caller may fall back to the model the second asks for, and meet it at that model's
\* limiter, while the third, who streams, waits for a permit.
Crowd == [c \in Calls |-> IF c = c1 THEN {<<"complete", big>>}
                          ELSE IF c = c2 THEN {<<"complete", small>>} ELSE {<<"stream", small>>}]
\* One caller's request is larger than a bucket.
Estimates == [c \in Calls |-> IF c = c1 THEN 1 ELSE 2]
============================================================================
