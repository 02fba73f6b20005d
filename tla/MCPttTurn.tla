------------------------------ MODULE MCPttTurn ------------------------------
EXTENDS PttTurn
=============================================================================
