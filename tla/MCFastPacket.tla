---------------------------- MODULE MCFastPacket ----------------------------
EXTENDS FastPacket
=============================================================================
