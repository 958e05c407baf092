---------------------------- MODULE MCSessionLog ----------------------------
EXTENDS SessionLogInvariant

CONSTANTS r1, r2, r3, s1, s2, f1
=============================================================================
