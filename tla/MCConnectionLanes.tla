------------------------- MODULE MCConnectionLanes -------------------------
EXTENDS ConnectionLanes
=============================================================================
