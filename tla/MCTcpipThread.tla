--------------------------- MODULE MCTcpipThread ---------------------------
\* An instance of TcpipThread for TLC.
EXTENDS TcpipThread

AllOps == {"input", "callback", "timeout", "pool", "api", "static"}
=============================================================================
