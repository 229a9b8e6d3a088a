-------------------------- MODULE MCRequestBroker --------------------------
EXTENDS RequestBroker
=============================================================================
