------------------------- MODULE MCDHEClientSession -------------------------
EXTENDS DHEClientSession, TLC

=============================================================================
