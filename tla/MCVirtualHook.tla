--------------------------- MODULE MCVirtualHook ---------------------------
EXTENDS VirtualHook
=============================================================================
