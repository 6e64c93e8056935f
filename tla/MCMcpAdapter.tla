---------------------------- MODULE MCMcpAdapter ----------------------------
\* Three starts (two at once, and one after them), two calls for one slot.
EXTENDS McpAdapter
=============================================================================
