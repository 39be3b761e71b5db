----------------------------- MODULE MCPyTask -----------------------------
EXTENDS PyTaskProps
CONSTANTS r1, r2, n1
=============================================================================
