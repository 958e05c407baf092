--------------------------- MODULE MCMcpExtension ---------------------------
EXTENDS McpExtension, TLC

CONSTANTS c1, c2

Symmetry == Permutations(Calls)
=============================================================================
