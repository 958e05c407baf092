----------------------------- MODULE MCToolGate -----------------------------
EXTENDS ToolGate, TLC

CONSTANTS c1, c2, c3, a1, a2

\* The other calls ask for a tool the policy does not admit.
Unadmitted == [tool |-> "other", args |-> a1]

\* Any two calls of the admitted tools, under every policy.
Pairs ==
    [call : {[c \in Calls |-> IF c = c1 THEN x ELSE IF c = c2 THEN y ELSE Unadmitted] :
                x, y \in [tool : Admitted, args : Args]},
     policy : [require : {{}, {FileWrite}}, mode : Modes]]

\* Three calls of one tool with nobody in the way: what the breaker sees.
Triples ==
    [call : {[c \in Calls |-> [tool |-> FileWrite, args |-> a1]]},
     policy : {[require |-> {FileWrite}, mode |-> "auto"]}]

PairsAndTriples == Pairs \cup Triples
=============================================================================
